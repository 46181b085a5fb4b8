CONSTANTS
    Ids <- MCIds
    Originals <- MCOriginals
    ReplyBodies <- MCReplyBodies
    Statuses <- MCStatuses
SPECIFICATION Spec
\* chatCompletions answers once and returns.
CHECK_DEADLOCK FALSE
INVARIANTS
    RestoredBodyIsJSON
