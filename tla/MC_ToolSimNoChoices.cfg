CONSTANTS
    DeclaredTools <- MCDeclaredTools
    Replies <- MCReplies
SPECIFICATION Spec
\* ParseResponse runs once per request and the handler returns.
CHECK_DEADLOCK FALSE
INVARIANTS
    ParseFailureReturnsBody
