------------------------------ MODULE Sanitize ------------------------------
(***************************************************************************)
(* Sanitizer.RedactMessages (src/internal/sanitize/sanitize.go), for the  *)
(* requests being served concurrently.  For every text of a request body  *)
(* (each string content or text part of each message, or the whole body  *)
(* when it is not JSON) the request's goroutine                           *)
(*   - launches one goroutine per classifier (runClassifiers), collects   *)
(*     their spans in the order they arrive until all are in or the       *)
(*     classifierBudget deadline fires (EndCollect);                      *)
(*   - validates, sorts descending by start and deduplicates the spans,   *)
(*     then splices a placeholder in for each kept span, right to left,   *)
(*     registering each original in the request's TokenMap (ApplySpan).   *)
(* The last user message is classified by every classifier, every other  *)
(* text by all but the last one (redactTextWithNER).  The only state the  *)
(* requests share is globalCounter.                                       *)
(***************************************************************************)
EXTENDS Naturals, Sequences, FiniteSets, SequencesExt, Placeholders, TokenMap

(* Request (the slots for the requests served concurrently) and Original *)
(* (here every text, see Text) are the constants of TokenMap.            *)
CONSTANTS
  NER, LLM,       \* the two classifier plugins
  Classifiers,    \* s.classifiers as main.go builds it
  Body,           \* Body[r]: the body of the request in slot r
  NERReply(_),    \* NERReply(t): the span lists the sidecar may return for t
  LLMReply(_)     \* LLMReply(t): the string lists the LLM may return for t

VARIABLES
  pc,          \* pc[r]: "idle", "classify", "apply" or "done"
  idx,         \* idx[r]: index in Work(r) of the text being redacted
  pending,     \* pending[r]: classifiers launched whose result is not in
  collected,   \* collected[r]: spans received so far (the slice all)
  kept,        \* kept[r]: deduplicated spans not yet applied
  cur,         \* cur[r]: the text with the spans applied so far
  out          \* out[r]: the redacted texts of Work(r)[1..idx[r]-1]

vars == <<counter, toToken, fromToken, pc, idx, pending, collected, kept, cur, out>>

Text == Seq(Byte)

(* register is called with text[sp.Start:sp.End]: the maps hold texts. *)
ASSUME OriginalAssumption == Original = Text

(* main.go appends the NER classifier first, then the LLM one; they are  *)
(* two different plugins.                                                 *)
ASSUME ClassifiersAssumption ==
  /\ Classifiers \in {<<>>, <<NER>>, <<LLM>>, <<NER, LLM>>}
  /\ NER # LLM

-----------------------------------------------------------------------------
(* Message-scope policy.                                                  *)

(* The index of the last message whose role is "user", 0 when none.      *)
LastUserIdx(msgs) ==
  LET users == {i \in DOMAIN msgs : msgs[i].role = "user"}
  IN IF users = {} THEN 0 ELSE Max(users)

(* The texts RedactMessages redacts, in order, and whether each is given *)
(* to redactText (all classifiers) or to redactTextWithNER.              *)
Work(r) ==
  IF Body[r].json
  THEN LET msgs == Body[r].msgs
           lu == LastUserIdx(msgs)
       IN FlattenSeq([i \in DOMAIN msgs |->
            [j \in DOMAIN msgs[i].parts |->
               [text |-> msgs[i].parts[j], full |-> i = lu]]])
  ELSE <<[text |-> Body[r].raw, full |-> TRUE]>>

(* A body is a finite list of texts, each text a byte string: Work(r),   *)
(* the flattened parts of its messages, is a sequence of them.           *)
ASSUME WorkAssumption ==
  \A r \in Request : Work(r) \in Seq([text : Text, full : BOOLEAN])

(* Mutant: history messages given every classifier, as redactText does. *)
ClassifiersForAll(full) == Range(Classifiers)

(* The classifiers launched for a text: redactText runs all of them,     *)
(* redactTextWithNER drops the last one, or all when there is only one.  *)
ClassifiersFor(full) ==
  IF full THEN Range(Classifiers)
  ELSE IF Len(Classifiers) > 1
       THEN Range(SubSeq(Classifiers, 1, Len(Classifiers) - 1))
       ELSE {}

-----------------------------------------------------------------------------
(* The LLM classifier (llmclassifier.Classify): the model returns strings *)
(* verbatim and every occurrence of each in the text becomes a span,      *)
(* unless it sits inside a longer word.  Offsets are 0-based as in Go.    *)

IsInsideToken(t, s, e) ==
  \/ s > 0 /\ t[s] \notin BoundaryByte
  \/ e < Len(t) /\ t[e + 1] \notin BoundaryByte

(* strings.TrimSpace, with "_" the only whitespace byte. *)
TrimSpace(v) ==
  LET keep == {i \in DOMAIN v : v[i] # "_"}
  IN IF keep = {} THEN <<>> ELSE SubSeq(v, Min(keep), Max(keep))

(* The spans of value v found by the strings.Index loop from offset st.  *)
OccurrenceSpans(t, v) ==
  LET n == Len(t)
      k == Len(v)
      hits(st) == {a \in st..(n - k) : SubSeq(t, a + 1, a + k) = v}
      f[st \in 0..n] ==
        IF hits(st) = {} THEN <<>>
        ELSE LET a == Min(hits(st))
             IN (IF IsInsideToken(t, a, a + k) THEN <<>>
                 ELSE <<[start |-> a, end |-> a + k]>>) \o f[a + k]
  IN f[0]

LLMSpans(t, values) ==
  IF TrimSpace(t) = <<>> THEN <<>>
  ELSE FlattenSeq([i \in DOMAIN values |->
         LET v == TrimSpace(values[i])
         IN IF v = <<>> \/ (Len(v) >= 3 /\ SubSeq(v, 1, 3) = <<"«", "«'", "T">>)
            THEN <<>>
            ELSE OccurrenceSpans(t, v)])

(* The span lists a classifier may deliver for text t; an error or a      *)
(* non-200 answer delivers none.                                          *)
Replies(c, t) ==
  {<<>>} \cup (IF c = NER THEN NERReply(t)
               ELSE {LLMSpans(t, vs) : vs \in LLMReply(t)})

-----------------------------------------------------------------------------
(* Span validation, ordering and deduplication (validSpans, sortSpansDesc,*)
(* deduplicateSpans).                                                     *)

IsRuneBoundary(t, i) == i = 0 \/ i = Len(t) \/ t[i + 1] \notin ContinuationByte

(* Mutant: the tokenPlaceholderRe check left out of validSpans. *)
IsValidSpanAllowingPlaceholder(t, sp) ==
  /\ ~(sp.start < 0 \/ sp.end > Len(t) \/ sp.start >= sp.end)
  /\ IsRuneBoundary(t, sp.start) /\ IsRuneBoundary(t, sp.end)
  /\ sp.start > 0 => t[sp.start] \in BoundaryByte
  /\ sp.end < Len(t) => t[sp.end + 1] \in BoundaryByte

IsValidSpan(t, sp) ==
  /\ ~(sp.start < 0 \/ sp.end > Len(t) \/ sp.start >= sp.end)
  /\ IsRuneBoundary(t, sp.start) /\ IsRuneBoundary(t, sp.end)
  /\ ~ContainsPlaceholder(SubSeq(t, sp.start + 1, sp.end))
  /\ sp.start > 0 => t[sp.start] \in BoundaryByte
  /\ sp.end < Len(t) => t[sp.end + 1] \in BoundaryByte

ValidSpans(t, spans) == SelectSeq(spans, LAMBDA sp : IsValidSpan(t, sp))

(* Insertion sort with a strict comparison is stable: a span goes after  *)
(* those with a larger start and those with the same start before it.    *)
SortSpansDesc(s) ==
  LET rank(k) == 1 + Cardinality({j \in DOMAIN s :
                      s[j].start > s[k].start \/ (s[j].start = s[k].start /\ j < k)})
  IN [i \in DOMAIN s |-> s[CHOOSE k \in DOMAIN s : rank(k) = i]]

(* Mutant: deduplicateSpans comparing the two starts instead of the end   *)
(* of the new span with the start of the last kept one.                  *)
DeduplicateSpansByStart(s) ==
  LET f[i \in 0..Len(s)] ==
        IF i = 0 THEN <<>>
        ELSE IF f[i-1] = <<>> \/ s[i].start <= Last(f[i-1]).start
             THEN Append(f[i-1], s[i])
             ELSE f[i-1]
  IN f[Len(s)]

(* Keep a span when it ends at or before the start of the last kept one. *)
DeduplicateSpans(s) ==
  LET f[i \in 0..Len(s)] ==
        IF i = 0 THEN <<>>
        ELSE IF f[i-1] = <<>> \/ s[i].end <= Last(f[i-1]).start
             THEN Append(f[i-1], s[i])
             ELSE f[i-1]
  IN f[Len(s)]

(* What redactText applies, right to left; nothing when no span came in. *)
SpansToApply(t, spans) ==
  IF spans = <<>> THEN <<>>
  ELSE DeduplicateSpans(SortSpansDesc(ValidSpans(t, spans)))

-----------------------------------------------------------------------------
(* Start redacting text number i of the request in slot r. *)
StartText(r, i) ==
  /\ idx' = [idx EXCEPT ![r] = i]
  /\ pending' = [pending EXCEPT ![r] = ClassifiersFor(Work(r)[i].full)]
  /\ collected' = [collected EXCEPT ![r] = <<>>]
  /\ cur' = [cur EXCEPT ![r] = Work(r)[i].text]
  /\ pc' = [pc EXCEPT ![r] = "classify"]

Init ==
  /\ TMInit
  /\ pc = [r \in Request |-> "idle"]
  /\ idx = [r \in Request |-> 1]
  /\ pending = [r \in Request |-> {}]
  /\ collected = [r \in Request |-> <<>>]
  /\ kept = [r \in Request |-> <<>>]
  /\ cur = [r \in Request |-> <<>>]
  /\ out = [r \in Request |-> <<>>]

(* RedactMessages begins: a fresh TokenMap, then the first text. *)
Arrive(r) ==
  /\ pc[r] = "idle"
  /\ Begin(r)
  /\ out' = [out EXCEPT ![r] = <<>>]
  /\ UNCHANGED kept
  /\ IF Work(r) = <<>>
     THEN /\ pc' = [pc EXCEPT ![r] = "done"]
          /\ UNCHANGED <<idx, pending, collected, cur>>
     ELSE StartText(r, 1)

(* Classifier c's goroutine returns and its result is received. *)
Deliver(r, c) ==
  /\ pc[r] = "classify"
  /\ c \in pending[r]
  /\ \E spans \in Replies(c, Work(r)[idx[r]].text) :
       collected' = [collected EXCEPT ![r] = @ \o spans]
  /\ pending' = [pending EXCEPT ![r] = @ \ {c}]
  /\ UNCHANGED <<counter, toToken, fromToken, pc, idx, kept, cur, out>>

(* Mutant: runClassifiers without the classifierBudget deadline. *)
EndCollectWaitingForAll(r) ==
  /\ pc[r] = "classify"
  /\ pending[r] = {}
  /\ kept' = [kept EXCEPT ![r] = SpansToApply(cur[r], collected[r])]
  /\ pending' = [pending EXCEPT ![r] = {}]
  /\ pc' = [pc EXCEPT ![r] = "apply"]
  /\ UNCHANGED <<counter, toToken, fromToken, idx, collected, cur, out>>

(* The collecting loop ends: every result is in, or the deadline fires   *)
(* and whatever is still pending is dropped.  The spans to apply follow.  *)
EndCollect(r) ==
  /\ pc[r] = "classify"
  /\ kept' = [kept EXCEPT ![r] = SpansToApply(cur[r], collected[r])]
  /\ pending' = [pending EXCEPT ![r] = {}]
  /\ pc' = [pc EXCEPT ![r] = "apply"]
  /\ UNCHANGED <<counter, toToken, fromToken, idx, collected, cur, out>>

(* One iteration of the splice loop: register the original, splice its  *)
(* placeholder in.                                                        *)
ApplySpan(r) ==
  /\ pc[r] = "apply"
  /\ kept[r] # <<>>
  /\ LET sp == Head(kept[r])
         t == cur[r]
         orig == SubSeq(t, sp.start + 1, sp.end)
         id == IF orig \in DOMAIN toToken[r] THEN toToken[r][orig] ELSE counter + 1
     IN /\ Register(r, orig)
        /\ cur' = [cur EXCEPT ![r] =
                     SubSeq(t, 1, sp.start) \o Placeholder(id) \o SubSeq(t, sp.end + 1, Len(t))]
  /\ kept' = [kept EXCEPT ![r] = Tail(@)]
  /\ UNCHANGED <<pc, idx, pending, collected, out>>

(* Mutant: the loop over the texts stopping one short of the last. *)
NextTextSkippingLast(r) ==
  /\ pc[r] = "apply"
  /\ kept[r] = <<>>
  /\ out' = [out EXCEPT ![r] = Append(@, cur[r])]
  /\ UNCHANGED <<counter, toToken, fromToken, kept>>
  /\ IF idx[r] < Len(Work(r)) - 1
     THEN StartText(r, idx[r] + 1)
     ELSE /\ pc' = [pc EXCEPT ![r] = "done"]
          /\ UNCHANGED <<idx, pending, collected, cur>>

(* The text is done; go on with the next one or finish the request. *)
NextText(r) ==
  /\ pc[r] = "apply"
  /\ kept[r] = <<>>
  /\ out' = [out EXCEPT ![r] = Append(@, cur[r])]
  /\ UNCHANGED <<counter, toToken, fromToken, kept>>
  /\ IF idx[r] < Len(Work(r))
     THEN StartText(r, idx[r] + 1)
     ELSE /\ pc' = [pc EXCEPT ![r] = "done"]
          /\ UNCHANGED <<idx, pending, collected, cur>>

(* Every request has been redacted. *)
Terminated ==
  /\ \A r \in Request : pc[r] = "done"
  /\ UNCHANGED vars

Next ==
  \/ \E r \in Request :
       \/ Arrive(r)
       \/ \E c \in {NER, LLM} : Deliver(r, c)
       \/ EndCollect(r)
       \/ ApplySpan(r)
       \/ NextText(r)
  \/ Terminated

Spec == Init /\ [][Next]_vars

(* Classifier calls may hang forever: no fairness for Deliver.  The       *)
(* budget timer always fires, and a goroutine that can run does.          *)
FairSpec ==
  /\ Spec
  /\ \A r \in Request : WF_vars(EndCollect(r)) /\ WF_vars(ApplySpan(r)) /\ WF_vars(NextText(r))

-----------------------------------------------------------------------------
Span == [start : Int, end : Int]

TypeOK ==
  /\ TMTypeOK
  /\ pc \in [Request -> {"idle", "classify", "apply", "done"}]
  /\ idx \in [Request -> Nat \ {0}]
  /\ pending \in [Request -> SUBSET {NER, LLM}]
  /\ \A r \in Request : collected[r] \in Seq(Span) /\ kept[r] \in Seq(Span)
  /\ cur \in [Request -> Text]
  /\ out \in [Request -> Seq(Text)]

(* Round trip (spec section 8): restoring a redacted text with the map of *)
(* its request gives back the text the client sent, whatever order Go    *)
(* iterates the map in; it holds after every single splice, so also for  *)
(* the texts already done while later texts register more placeholders.  *)
RoundTrip ==
  \A r \in Request :
    /\ \A k \in DOMAIN out[r] :
         RestoreOutcomes(out[r][k], fromToken[r]) = {Work(r)[k].text}
    /\ pc[r] = "apply" =>
         RestoreOutcomes(cur[r], fromToken[r]) = {Work(r)[idx[r]].text}

(* Placeholders are never redacted (spec, TokenMap invariant iv): no      *)
(* registered original contains a placeholder, and every placeholder the  *)
(* client sent reaches the upstream intact.                              *)
PlaceholderCount(s, p) ==
  Cardinality({i \in 1..Len(s) : i + PhLen - 1 <= Len(s) /\ SubSeq(s, i, i + PhLen - 1) = p})

PlaceholdersNotRedacted ==
  \A r \in Request :
    /\ \A n \in DOMAIN fromToken[r] : ~ContainsPlaceholder(fromToken[r][n])
    /\ \A k \in DOMAIN out[r] : \A n \in 0..MaxId :
         PlaceholderCount(Work(r)[k].text, Placeholder(n))
           <= PlaceholderCount(out[r][k], Placeholder(n))

(* Every text is redacted (spec 4.5: each string content and each text  *)
(* part): when RedactMessages returns, it has rewritten every text of the *)
(* body exactly once, none skipped and none twice.  With RoundTrip, which *)
(* pairs the k-th redacted text with the k-th text, the whole body is     *)
(* accounted for.                                                         *)
RedactionCoversBody ==
  \A r \in Request : pc[r] = "done" => Len(out[r]) = Len(Work(r))

(* Message-scope policy (spec 4.5): whenever RedactMessages starts on a *)
(* text, it launches every classifier for the last user message and      *)
(* every classifier but the LLM one for any other text.                 *)
ScopeAsSpecified ==
  [][\A r \in Request :
       pc'[r] = "classify" /\ pc[r] # "classify" =>
         pending'[r] = IF Work(r)[idx'[r]].full THEN Range(Classifiers)
                       ELSE Range(Classifiers) \ {LLM}]_vars

(* Redaction never waits forever (spec 5): however the classifiers       *)
(* behave, every request that started is eventually redacted.            *)
RedactionCompletes ==
  \A r \in Request : pc[r] # "idle" ~> pc[r] = "done"
=============================================================================
