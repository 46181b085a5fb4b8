--------------------------- MODULE Sanitize_proofs ---------------------------
(***************************************************************************)
(* Proofs about RedactMessages for any number of requests served          *)
(* concurrently, any bodies and any classifier replies.                   *)
(*                                                                         *)
(* The requests share globalCounter and nothing else.  Each step of the   *)
(* sanitizer either leaves the counter and the maps alone, or is          *)
(* newTokenMap (Arrive) or register (ApplySpan) on its own request's map, *)
(* so the inductive invariant of the maps (TokenMap_proofs' CoreInv)      *)
(* carries over.  CoreInv leaves out what type the originals have: an     *)
(* original here is the slice text[sp.Start:sp.End] of a span that went  *)
(* through validSpans and deduplicateSpans, whose results the provers     *)
(* cannot compute (recursive functions), so the uniqueness of the         *)
(* placeholders is proved whatever the slice is.                          *)
(***************************************************************************)
EXTENDS Sanitize, TokenMap_proofs, TLAPS

(* The steps other than Arrive and ApplySpan leave the maps alone. *)
LEMMA OtherStepsKeepMaps ==
  ASSUME NEW r \in Request,
         \/ \E c \in {NER, LLM} : Deliver(r, c)
         \/ EndCollect(r)
         \/ NextText(r)
  PROVE  UNCHANGED tmVars
  BY DEF Deliver, EndCollect, NextText, tmVars

(* Every step of the concurrent sanitizer keeps the map invariant. *)
LEMMA NextCore == CoreInv /\ [Next]_vars => CoreInv'
<1> SUFFICES ASSUME CoreInv, [Next]_vars PROVE CoreInv'
  OBVIOUS
<1>1. CASE \E r \in Request : Arrive(r)
  <2>1. PICK r \in Request : Arrive(r)
    BY <1>1
  <2>2. Begin(r)
    BY <2>1 DEF Arrive
  <2>3. QED
    BY <2>2, BeginCore
<1>2. CASE \E r \in Request : ApplySpan(r)
  <2>1. PICK r \in Request : ApplySpan(r)
    BY <1>2
  <2>2. PICK o : Register(r, o)
    BY <2>1 DEF ApplySpan
  <2>3. QED
    BY <2>2, RegisterCore
<1>3. CASE \E r \in Request :
             \/ \E c \in {NER, LLM} : Deliver(r, c)
             \/ EndCollect(r)
             \/ NextText(r)
  <2>1. UNCHANGED tmVars
    BY <1>3, OtherStepsKeepMaps
  <2>2. QED
    BY <2>1, UnchangedCore
<1>4. CASE Terminated \/ UNCHANGED vars
  <2>1. UNCHANGED tmVars
    BY <1>4 DEF Terminated, vars, tmVars
  <2>2. QED
    BY <2>1, UnchangedCore
<1>5. QED
  BY <1>1, <1>2, <1>3, <1>4 DEF Next

(* The map invariant holds in every state of the concurrent sanitizer. *)
LEMMA CoreHolds == Spec => []CoreInv
<1>1. Init => CoreInv
  BY InitIInv DEF Init, IInv
<1>2. QED
  BY <1>1, NextCore, PTL DEF Spec

(* However the requests served concurrently interleave their redactions, *)
(* each request's two maps stay inverse to each other (an original      *)
(* found twice, in any text of the request, gets the same placeholder)  *)
(* and no two requests ever hold the same placeholder id: register's    *)
(* globalCounter.Add(1) hands each id out once.                         *)
THEOREM RedactionPlaceholdersUnique ==
  Spec => [](StableMapping /\ PlaceholdersUnique)
<1>1. CoreInv => StableMapping /\ PlaceholdersUnique
  BY DEF CoreInv
<1>2. QED
  BY <1>1, CoreHolds, PTL

-----------------------------------------------------------------------------
(* The per-request variables are functions on the slots: every action    *)
(* updates them with EXCEPT.                                              *)
SlotsOK ==
  /\ IsFcn(pc) /\ DOMAIN pc = Request
  /\ IsFcn(idx) /\ DOMAIN idx = Request
  /\ IsFcn(pending) /\ DOMAIN pending = Request
  /\ IsFcn(collected) /\ DOMAIN collected = Request
  /\ IsFcn(kept) /\ DOMAIN kept = Request
  /\ IsFcn(cur) /\ DOMAIN cur = Request
  /\ IsFcn(out) /\ DOMAIN out = Request

LEMMA SlotsOKStep == SlotsOK /\ [Next]_vars => SlotsOK'
  BY DEF SlotsOK, IsFcn, Next, vars, Arrive, StartText, Deliver, EndCollect,
         ApplySpan, NextText, Terminated

LEMMA SlotsOKHolds == Spec => []SlotsOK
<1>1. Init => SlotsOK
  BY DEF Init, SlotsOK, IsFcn
<1>2. SlotsOK /\ [Next]_vars => SlotsOK'
  BY SlotsOKStep
<1>3. QED
  BY <1>1, <1>2, PTL DEF Spec

(* Unless main.go built the NER classifier alone, redactTextWithNER's     *)
(* "all but the last classifier" is "all but the LLM classifier".         *)
LEMMA ScopeOfClassifiersFor ==
  ASSUME Classifiers # <<NER>>, NEW full
  PROVE  ClassifiersFor(full) = IF full THEN Range(Classifiers)
                                ELSE Range(Classifiers) \ {LLM}
<1>1. ClassifiersFor(full) =
        IF full THEN Range(Classifiers)
        ELSE IF Len(Classifiers) > 1
             THEN Range(SubSeq(Classifiers, 1, Len(Classifiers) - 1))
             ELSE {}
  BY DEF ClassifiersFor
<1>2. (IF Len(Classifiers) > 1
       THEN Range(SubSeq(Classifiers, 1, Len(Classifiers) - 1))
       ELSE {}) = Range(Classifiers) \ {LLM}
  <2>1. CASE Classifiers = <<>>
    BY <2>1 DEF Range
  <2>2. CASE Classifiers = <<LLM>>
    BY <2>2 DEF Range
  <2>3. CASE Classifiers = <<NER, LLM>>
    BY <2>3, ClassifiersAssumption DEF Range
  <2>4. QED
    BY <2>1, <2>2, <2>3, ClassifiersAssumption
<1>3. QED
  BY <1>1, <1>2

(* The scope property for one step. *)
ScopeStep ==
  \A r \in Request :
    pc'[r] = "classify" /\ pc[r] # "classify" =>
      pending'[r] = IF Work(r)[idx'[r]].full THEN Range(Classifiers)
                    ELSE Range(Classifiers) \ {LLM}

(* StartText launches exactly the classifiers the policy names. *)
LEMMA StartTextScope ==
  ASSUME Classifiers # <<NER>>, SlotsOK, NEW r0 \in Request, NEW i,
         StartText(r0, i), pc[r0] # "classify",
         \A r \in Request \ {r0} : pc'[r] = pc[r]
  PROVE  ScopeStep
<1> SUFFICES ASSUME NEW r \in Request, pc'[r] = "classify", pc[r] # "classify"
             PROVE  pending'[r] = IF Work(r)[idx'[r]].full THEN Range(Classifiers)
                                  ELSE Range(Classifiers) \ {LLM}
  BY DEF ScopeStep
<1>1. r = r0
  OBVIOUS
<1>2. idx'[r0] = i /\ pending'[r0] = ClassifiersFor(Work(r0)[i].full)
  BY DEF StartText, SlotsOK
<1>3. QED
  BY <1>1, <1>2, ScopeOfClassifiersFor

(* No step launches classifiers other than the policy's. *)
LEMMA NextScope ==
  ASSUME Classifiers # <<NER>>, SlotsOK, [Next]_vars
  PROVE  ScopeStep
<1>1. CASE \E r0 \in Request : Arrive(r0)
  <2>1. PICK r0 \in Request : Arrive(r0)
    BY <1>1
  <2>2. CASE Work(r0) = <<>>
    BY <2>1, <2>2 DEF Arrive, ScopeStep, SlotsOK
  <2>3. CASE Work(r0) # <<>>
    <3>1. StartText(r0, 1) /\ pc[r0] = "idle"
      BY <2>1, <2>3 DEF Arrive
    <3>2. \A r \in Request \ {r0} : pc'[r] = pc[r]
      BY <3>1 DEF StartText, SlotsOK
    <3>3. QED
      BY <3>1, <3>2, StartTextScope
  <2>4. QED
    BY <2>2, <2>3
<1>2. CASE \E r0 \in Request : NextText(r0)
  <2>1. PICK r0 \in Request : NextText(r0)
    BY <1>2
  <2>2. CASE idx[r0] < Len(Work(r0))
    <3>1. StartText(r0, idx[r0] + 1) /\ pc[r0] = "apply"
      BY <2>1, <2>2 DEF NextText
    <3>2. \A r \in Request \ {r0} : pc'[r] = pc[r]
      BY <3>1 DEF StartText, SlotsOK
    <3>3. QED
      BY <3>1, <3>2, StartTextScope
  <2>3. CASE ~(idx[r0] < Len(Work(r0)))
    BY <2>1, <2>3 DEF NextText, ScopeStep, SlotsOK
  <2>4. QED
    BY <2>2, <2>3
<1>3. CASE \E r0 \in Request : EndCollect(r0)
  BY <1>3 DEF EndCollect, ScopeStep, SlotsOK
<1>4. CASE \E r0 \in Request :
             \/ \E c \in {NER, LLM} : Deliver(r0, c)
             \/ ApplySpan(r0)
  BY <1>4 DEF Deliver, ApplySpan, ScopeStep
<1>5. CASE Terminated \/ UNCHANGED vars
  BY <1>5 DEF Terminated, vars, ScopeStep
<1>6. QED
  BY <1>1, <1>2, <1>3, <1>4, <1>5 DEF Next

(* Message-scope policy: unless main.go built the NER classifier alone,   *)
(* RedactMessages launches every classifier for the last user message    *)
(* and every one but the LLM classifier for any other text, in every     *)
(* step of any interleaving of the requests.  With the NER classifier   *)
(* alone, history messages get no classifier at all: run                 *)
(* sanitize_ner_only shows it.                                           *)
THEOREM ScopeHolds == Classifiers # <<NER>> => (Spec => ScopeAsSpecified)
<1> SUFFICES ASSUME Classifiers # <<NER>> PROVE Spec => ScopeAsSpecified
  OBVIOUS
<1>1. SlotsOK /\ [Next]_vars => [ScopeStep]_vars
  BY NextScope
<1>2. QED
  BY <1>1, SlotsOKHolds, PTL DEF Spec, ScopeAsSpecified, ScopeStep
-----------------------------------------------------------------------------
(* Progress through the body.  While request r works on text idx[r], it  *)
(* has written idx[r] - 1 redacted texts; once done, one per text.  The  *)
(* redacted texts are kept in a sequence (of texts, but that the provers *)
(* cannot show: a redacted text is spliced at the offsets of the         *)
(* deduplicated spans).                                                  *)
ProgressOf(r) ==
  /\ \E S : out[r] \in Seq(S)
  /\ pc[r] \in {"classify", "apply"} =>
       idx[r] \in 1..Len(Work(r)) /\ Len(out[r]) = idx[r] - 1
  /\ pc[r] = "done" => Len(out[r]) = Len(Work(r))

Progress == \A r \in Request : ProgressOf(r)

(* A step that leaves a request's pc, idx and out alone keeps its progress. *)
LEMMA ProgressFrame ==
  ASSUME NEW r \in Request, ProgressOf(r),
         pc'[r] = pc[r], idx'[r] = idx[r], out'[r] = out[r]
  PROVE  ProgressOf(r)'
  BY DEF ProgressOf

(* StartText(r, i) of a text of the body, with i - 1 texts written. *)
LEMMA StartTextProgress ==
  ASSUME NEW r \in Request, NEW i \in 1..Len(Work(r)), NEW S,
         StartText(r, i), SlotsOK, out'[r] \in Seq(S), Len(out'[r]) = i - 1
  PROVE  ProgressOf(r)'
  BY DEF StartText, SlotsOK, ProgressOf

LEMMA ArriveProgress ==
  ASSUME SlotsOK, NEW r0 \in Request, Arrive(r0), NEW r \in Request, ProgressOf(r)
  PROVE  ProgressOf(r)'
<1>1. CASE r # r0
  BY <1>1, ProgressFrame DEF Arrive, StartText, SlotsOK
<1>2. CASE r = r0
  <2>1. out'[r] = <<>> /\ out'[r] \in Seq({})
    BY <1>2 DEF Arrive, SlotsOK
  <2>2. Work(r) \in Seq([text : Text, full : BOOLEAN])
    BY WorkAssumption
  <2>3. CASE Work(r) = <<>>
    BY <1>2, <2>1, <2>3 DEF Arrive, SlotsOK, ProgressOf
  <2>4. CASE Work(r) # <<>>
    <3>1. 1 \in 1..Len(Work(r))
      BY <2>2, <2>4
    <3>2. StartText(r, 1)
      BY <1>2, <2>4 DEF Arrive
    <3>3. Len(out'[r]) = 1 - 1
      BY <2>1
    <3>4. QED
      BY <2>1, <3>1, <3>2, <3>3, StartTextProgress
  <2>5. QED
    BY <2>3, <2>4
<1>3. QED
  BY <1>1, <1>2

LEMMA NextTextProgress ==
  ASSUME SlotsOK, NEW r0 \in Request, NextText(r0), NEW r \in Request, ProgressOf(r)
  PROVE  ProgressOf(r)'
<1>1. CASE r # r0
  BY <1>1, ProgressFrame DEF NextText, StartText, SlotsOK
<1>2. CASE r = r0
  <2>1. PICK S : out[r] \in Seq(S)
    BY DEF ProgressOf
  <2>2. pc[r] = "apply" /\ idx[r] \in 1..Len(Work(r)) /\ Len(out[r]) = idx[r] - 1
    BY <1>2 DEF NextText, ProgressOf
  <2>3. out'[r] = Append(out[r], cur[r])
    BY <1>2 DEF NextText, SlotsOK
  <2>4. out'[r] \in Seq(S \cup {cur[r]}) /\ Len(out'[r]) = idx[r]
    <3>1. out[r] \in Seq(S \cup {cur[r]})
      BY <2>1
    <3>2. QED
      BY <2>2, <2>3, <3>1
  <2>5. Work(r) \in Seq([text : Text, full : BOOLEAN])
    BY WorkAssumption
  <2>6. CASE idx[r] < Len(Work(r))
    <3>1. StartText(r, idx[r] + 1) /\ idx[r] + 1 \in 1..Len(Work(r))
      BY <1>2, <2>2, <2>5, <2>6 DEF NextText
    <3>2. QED
      BY <2>4, <3>1, StartTextProgress
  <2>7. CASE ~(idx[r] < Len(Work(r)))
    <3>1. idx[r] = Len(Work(r))
      BY <2>2, <2>5, <2>7
    <3>2. pc'[r] = "done"
      BY <1>2, <2>7 DEF NextText, SlotsOK
    <3>3. QED
      BY <2>4, <3>1, <3>2 DEF ProgressOf
  <2>8. QED
    BY <2>6, <2>7
<1>3. QED
  BY <1>1, <1>2

LEMMA NextProgress == SlotsOK /\ Progress /\ [Next]_vars => Progress'
<1> SUFFICES ASSUME SlotsOK, Progress, [Next]_vars, NEW r \in Request
             PROVE  ProgressOf(r)'
  BY DEF Progress
<1>1. ProgressOf(r)
  BY DEF Progress
<1>2. CASE \E r0 \in Request : Arrive(r0)
  BY <1>1, <1>2, ArriveProgress
<1>3. CASE \E r0 \in Request : NextText(r0)
  BY <1>1, <1>3, NextTextProgress
<1>4. CASE \E r0 \in Request : \E c \in {NER, LLM} : Deliver(r0, c)
  BY <1>1, <1>4, ProgressFrame DEF Deliver, SlotsOK
<1>5. CASE \E r0 \in Request : ApplySpan(r0)
  BY <1>1, <1>5, ProgressFrame DEF ApplySpan, SlotsOK
<1>6. CASE \E r0 \in Request : EndCollect(r0)
  <2>1. PICK r0 \in Request : EndCollect(r0)
    BY <1>6
  <2>2. CASE r # r0
    BY <1>1, <2>1, <2>2, ProgressFrame DEF EndCollect, SlotsOK
  <2>3. CASE r = r0
    BY <1>1, <2>1, <2>3 DEF EndCollect, SlotsOK, ProgressOf
  <2>4. QED
    BY <2>2, <2>3
<1>7. CASE Terminated \/ UNCHANGED vars
  BY <1>1, <1>7, ProgressFrame DEF Terminated, vars
<1>8. QED
  BY <1>2, <1>3, <1>4, <1>5, <1>6, <1>7 DEF Next

LEMMA ProgressHolds == Spec => [](SlotsOK /\ Progress)
<1>1. Init => SlotsOK /\ Progress
  BY DEF Init, SlotsOK, IsFcn, Progress, ProgressOf
<1>2. SlotsOK /\ Progress /\ [Next]_vars => SlotsOK' /\ Progress'
  BY NextProgress, SlotsOKStep
<1>3. QED
  BY <1>1, <1>2, PTL DEF Spec

(* RedactMessages rewrites every text of the body: once a request is     *)
(* done it holds one redacted text per text of its body, for any bodies,  *)
(* any interleaving of the requests and any classifier outcome.          *)
THEOREM RedactionCoversBodyHolds == Spec => []RedactionCoversBody
<1>1. Progress => RedactionCoversBody
  BY DEF Progress, ProgressOf, RedactionCoversBody
<1>2. QED
  BY <1>1, ProgressHolds, PTL
-----------------------------------------------------------------------------
(* With the NER classifier alone (finding sanitize_ner_only).             *)

(* Every history text is forwarded exactly as the client sent it: the    *)
(* k-th redacted text of a request is its k-th text whenever that text   *)
(* is not in the last user message.                                      *)
HistoryForwardedVerbatim ==
  \A r \in Request : \A k \in DOMAIN out[r] :
    ~Work(r)[k].full => out[r][k] = Work(r)[k].text

(* ... because a history text is started with no classifier, so nothing  *)
(* is collected, no span is kept and the text is never spliced.          *)
HistoryOf(r) ==
  /\ \A k \in DOMAIN out[r] : ~Work(r)[k].full => out[r][k] = Work(r)[k].text
  /\ pc[r] \in {"classify", "apply"} /\ ~Work(r)[idx[r]].full =>
       /\ pending[r] = {} /\ collected[r] = <<>>
       /\ cur[r] = Work(r)[idx[r]].text
       /\ pc[r] = "apply" => kept[r] = <<>>

(* An element of a sequence is in the set the sequence ranges over. *)
LEMMA SeqElem ==
  ASSUME NEW U, NEW s \in Seq(U), NEW j \in 1..Len(s) PROVE s[j] \in U
  OBVIOUS

(* The i-th text of the body is a text record. *)
LEMMA WorkElem ==
  ASSUME NEW r \in Request, NEW i \in 1..Len(Work(r))
  PROVE  Work(r)[i] \in [text : Text, full : BOOLEAN]
BY WorkAssumption, SeqElem

(* redactTextWithNER with one classifier launches none. *)
LEMMA NEROnlyHistoryClassifiers ==
  ASSUME Classifiers = <<NER>> PROVE ClassifiersFor(FALSE) = {}
  BY DEF ClassifiersFor

LEMMA HistoryFrame ==
  ASSUME NEW r \in Request, HistoryOf(r),
         UNCHANGED <<pc[r], idx[r], pending[r], collected[r], kept[r], cur[r], out[r]>>
  PROVE  HistoryOf(r)'
  BY DEF HistoryOf

(* A history text starts with no classifier and its own bytes. *)
LEMMA StartTextHistory ==
  ASSUME Classifiers = <<NER>>, SlotsOK, NEW r \in Request,
         NEW i \in 1..Len(Work(r)), StartText(r, i),
         \A k \in DOMAIN out'[r] : ~Work(r)[k].full => out'[r][k] = Work(r)[k].text
  PROVE  HistoryOf(r)'
<1>1. Work(r)[i] \in [text : Text, full : BOOLEAN]
  BY WorkElem
<1>2. ~Work(r)[i].full => ClassifiersFor(Work(r)[i].full) = {}
  BY <1>1, NEROnlyHistoryClassifiers
<1>3. QED
  BY <1>2 DEF StartText, SlotsOK, HistoryOf

LEMMA ArriveHistory ==
  ASSUME Classifiers = <<NER>>, SlotsOK, NEW r0 \in Request, Arrive(r0),
         NEW r \in Request, HistoryOf(r)
  PROVE  HistoryOf(r)'
<1>1. CASE r # r0
  BY <1>1, HistoryFrame DEF Arrive, StartText, SlotsOK
<1>2. CASE r = r0
  <2>1. out'[r] = <<>>
    BY <1>2 DEF Arrive, SlotsOK
  <2>2. CASE Work(r) = <<>>
    BY <1>2, <2>1, <2>2 DEF Arrive, SlotsOK, HistoryOf
  <2>3. CASE Work(r) # <<>>
    <3>1. 1 \in 1..Len(Work(r))
      BY <2>3, WorkAssumption
    <3>2. QED
      BY <1>2, <2>1, <2>3, <3>1, StartTextHistory DEF Arrive
  <2>4. QED
    BY <2>2, <2>3
<1>3. QED
  BY <1>1, <1>2

LEMMA NextTextHistory ==
  ASSUME Classifiers = <<NER>>, SlotsOK, NEW r0 \in Request, NextText(r0),
         NEW r \in Request, HistoryOf(r), ProgressOf(r)
  PROVE  HistoryOf(r)'
<1>1. CASE r # r0
  BY <1>1, HistoryFrame DEF NextText, StartText, SlotsOK
<1>2. CASE r = r0
  <2>1. PICK S : out[r] \in Seq(S)
    BY DEF ProgressOf
  <2>2. pc[r] = "apply" /\ idx[r] \in 1..Len(Work(r)) /\ Len(out[r]) = idx[r] - 1
    BY <1>2 DEF NextText, ProgressOf
  <2>3. out'[r] = Append(out[r], cur[r])
    BY <1>2 DEF NextText, SlotsOK
  <2>4. \A k \in DOMAIN out'[r] : ~Work(r)[k].full => out'[r][k] = Work(r)[k].text
    <3> SUFFICES ASSUME NEW k \in DOMAIN out'[r], ~Work(r)[k].full
                 PROVE  out'[r][k] = Work(r)[k].text
      OBVIOUS
    <3>1. k \in 1..idx[r]
      BY <2>1, <2>2, <2>3
    <3>2. CASE k < idx[r]
      <4>1. k \in DOMAIN out[r] /\ out'[r][k] = out[r][k]
        BY <2>1, <2>2, <2>3, <3>1, <3>2
      <4>2. QED
        BY <4>1 DEF HistoryOf
    <3>3. CASE k = idx[r]
      <4>1. out'[r][k] = cur[r]
        BY <2>1, <2>2, <2>3, <3>3
      <4>2. cur[r] = Work(r)[idx[r]].text
        BY <2>2, <3>3, Zenon DEF HistoryOf
      <4>3. QED
        BY <3>3, <4>1, <4>2
    <3>4. QED
      BY <2>2, <3>1, <3>2, <3>3
  <2>5. CASE idx[r] < Len(Work(r))
    <3>1. StartText(r, idx[r] + 1) /\ idx[r] + 1 \in 1..Len(Work(r))
      BY <1>2, <2>2, <2>5, WorkAssumption DEF NextText
    <3>2. QED
      BY <2>4, <3>1, StartTextHistory
  <2>6. CASE ~(idx[r] < Len(Work(r)))
    <3>1. pc'[r] = "done"
      BY <1>2, <2>6 DEF NextText, SlotsOK
    <3>2. QED
      BY <2>4, <3>1 DEF HistoryOf
  <2>7. QED
    BY <2>5, <2>6
<1>3. QED
  BY <1>1, <1>2

LEMMA NextHistory ==
  ASSUME Classifiers = <<NER>>, SlotsOK, Progress, [Next]_vars,
         NEW r \in Request, HistoryOf(r)
  PROVE  HistoryOf(r)'
<1>1. ProgressOf(r)
  BY DEF Progress
<1>2. CASE \E r0 \in Request : Arrive(r0)
  BY <1>2, ArriveHistory
<1>3. CASE \E r0 \in Request : NextText(r0)
  BY <1>1, <1>3, NextTextHistory
<1>4. CASE \E r0 \in Request : \E c \in {NER, LLM} : Deliver(r0, c)
  <2>1. PICK r0 \in Request, c \in {NER, LLM} : Deliver(r0, c)
    BY <1>4
  <2>2. CASE r # r0
    BY <2>1, <2>2, HistoryFrame DEF Deliver, SlotsOK
  <2>3. CASE r = r0
    <3>1. Work(r)[idx[r]].full
      BY <2>1, <2>3 DEF Deliver, HistoryOf
    <3>2. QED
      BY <2>1, <2>3, <3>1 DEF Deliver, SlotsOK, HistoryOf
  <2>4. QED
    BY <2>2, <2>3
<1>5. CASE \E r0 \in Request : EndCollect(r0)
  <2>1. PICK r0 \in Request : EndCollect(r0)
    BY <1>5
  <2>2. CASE r # r0
    BY <2>1, <2>2, HistoryFrame DEF EndCollect, SlotsOK
  <2>3. CASE r = r0
    <3>1. ~Work(r)[idx[r]].full => SpansToApply(cur[r], collected[r]) = <<>>
      BY <2>1, <2>3 DEF EndCollect, HistoryOf, SpansToApply
    <3>2. QED
      BY <2>1, <2>3, <3>1 DEF EndCollect, SlotsOK, HistoryOf
  <2>4. QED
    BY <2>2, <2>3
<1>6. CASE \E r0 \in Request : ApplySpan(r0)
  <2>1. PICK r0 \in Request : ApplySpan(r0)
    BY <1>6
  <2>2. CASE r # r0
    BY <2>1, <2>2, HistoryFrame DEF ApplySpan, SlotsOK
  <2>3. CASE r = r0
    <3>1. Work(r)[idx[r]].full
      BY <2>1, <2>3 DEF ApplySpan, HistoryOf
    <3>2. QED
      BY <2>1, <2>3, <3>1 DEF ApplySpan, SlotsOK, HistoryOf
  <2>4. QED
    BY <2>2, <2>3
<1>7. CASE Terminated \/ UNCHANGED vars
  BY <1>7, HistoryFrame DEF Terminated, vars
<1>8. QED
  BY <1>2, <1>3, <1>4, <1>5, <1>6, <1>7 DEF Next

(* With main.go's classifier list holding the NER sidecar alone          *)
(* (SANITIZE_NER on, SANITIZE_LLM off), RedactMessages forwards every     *)
(* history text unredacted, whatever the sidecar would have found in it: *)
(* redactTextWithNER drops the only classifier.  Finding 2, shown by run  *)
(* sanitize_ner_only on one instance, holds for every body and every     *)
(* interleaving of requests.                                             *)
THEOREM NEROnlyForwardsHistory ==
  Classifiers = <<NER>> => (Spec => []HistoryForwardedVerbatim)
<1> SUFFICES ASSUME Classifiers = <<NER>> PROVE Spec => []HistoryForwardedVerbatim
  OBVIOUS
<1> DEFINE History == \A r \in Request : HistoryOf(r)
<1>1. Init => History
  BY DEF Init, HistoryOf
<1>2. SlotsOK /\ Progress /\ History /\ [Next]_vars => History'
  BY NextHistory
<1>3. History => HistoryForwardedVerbatim
  BY DEF HistoryOf, HistoryForwardedVerbatim
<1>4. QED
  BY <1>1, <1>2, <1>3, ProgressHolds, PTL DEF Spec
=============================================================================
