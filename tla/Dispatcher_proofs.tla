-------------------------- MODULE Dispatcher_proofs --------------------------
(***************************************************************************)
(* Proof, for any callers, participants, whitelist, number of wallets,   *)
(* attempts and calls, that Client.Do follows its retry policy.           *)
(*                                                                         *)
(* RetryPolicy alone is not inductive.  Two facts are missing:            *)
(*  - a call in progress has no result yet (result[c] = "none").  Without *)
(*    it, another transport error appended to the log would break         *)
(*    "error only after MaxAttempts transport errors";                     *)
(*  - before discovery no call has started.  Without it, discovery could  *)
(*    leave a tried set or a log naming endpoints that were not kept.     *)
(* IInv adds these facts and the type invariant to RetryPolicy.  For      *)
(* RetriesSpread it adds that the tried map of a call is the set of the   *)
(* endpoints its attempts used: without it, an endpoint picked again     *)
(* could not be told apart from one picked from the untried ones.        *)
(***************************************************************************)
EXTENDS Dispatcher, TLAPS

CallsWaitForDiscovery ==
  phase = "discovering" =>
    \A c \in Caller : pc[c] = "idle" /\ tried[c] = {} /\ log[c] = <<>>

NoResultWhileTrying ==
  \A c \in Caller : pc[c] = "trying" => result[c] = "none"

(* The tried map of a call holds exactly the endpoints its attempts used: *)
(* Do marks an endpoint as tried in the iteration that sends to it.       *)
TriedIsLogged ==
  \A c \in Caller : tried[c] = {log[c][k].ep : k \in DOMAIN log[c]}

IInv == /\ TypeOK /\ CallsWaitForDiscovery /\ NoResultWhileTrying /\ RetryPolicy
        /\ TriedIsLogged /\ RetriesSpread

USE DispatcherAssumption

(* At startup no call has begun. *)
LEMMA InitIInv == Init => IInv
<1> SUFFICES ASSUME Init PROVE IInv
  OBVIOUS
<1>1. TypeOK
  <2>1. poolIdx \in 0..(NWallets - 1) /\ calls \in 0..MaxCalls
    BY DEF Init
  <2>2. log \in [Caller -> Seq([ep : endpoints, wallet : 0..(NWallets - 1),
                                 outcome : Status \cup {Fail, BodyFail}])]
    BY DEF Init
  <2>3. QED
    BY <2>1, <2>2 DEF Init, TypeOK
<1>2. RetryPolicy
  BY DEF Init, RetryPolicy, RetryPolicyOf
<1>3. TriedIsLogged /\ RetriesSpread
  BY DEF Init, TriedIsLogged, RetriesSpread
<1>4. QED
  BY <1>1, <1>2, <1>3 DEF Init, IInv, CallsWaitForDiscovery, NoResultWhileTrying

(* Discovery fixes the endpoint list while every call is still idle. *)
LEMMA DiscoverIInv ==
  ASSUME IInv, DiscoverEndpoints
  PROVE  IInv'
<1>1. \A c \in Caller : pc[c] = "idle" /\ tried[c] = {} /\ log[c] = <<>>
  BY DEF IInv, CallsWaitForDiscovery, DiscoverEndpoints
<1>2. endpoints' \subseteq Whitelist
  BY DEF DiscoverEndpoints
<1>3. /\ pc' = pc /\ tried' = tried /\ log' = log /\ result' = result
      /\ poolIdx' = poolIdx /\ calls' = calls
      /\ phase' \in {"exited", "serving"}
  BY Zenon DEF DiscoverEndpoints
<1>4. TypeOK'
  BY <1>1, <1>2, <1>3 DEF IInv, TypeOK
<1>5. CallsWaitForDiscovery' /\ NoResultWhileTrying'
  BY <1>3 DEF IInv, CallsWaitForDiscovery, NoResultWhileTrying
<1>6. RetryPolicy'
  BY <1>3 DEF IInv, RetryPolicy, RetryPolicyOf
<1>7. TriedIsLogged' /\ RetriesSpread'
  BY <1>1, <1>3 DEF TriedIsLogged, RetriesSpread
<1>8. QED
  BY <1>4, <1>5, <1>6, <1>7 DEF IInv

(* A step that changes nothing (Stopped, or a stutter) keeps IInv. *)
LEMMA UnchangedIInv == IInv /\ UNCHANGED vars => IInv'
<1> SUFFICES ASSUME IInv, UNCHANGED vars PROVE IInv'
  OBVIOUS
<1>1. /\ endpoints' = endpoints /\ phase' = phase /\ poolIdx' = poolIdx
      /\ calls' = calls /\ pc' = pc /\ tried' = tried /\ log' = log
      /\ result' = result
  BY DEF vars
<1>2. TypeOK' /\ CallsWaitForDiscovery' /\ NoResultWhileTrying' /\ RetryPolicy'
  BY <1>1 DEF IInv, TypeOK, CallsWaitForDiscovery, NoResultWhileTrying, RetryPolicy, RetryPolicyOf
<1>3. TriedIsLogged' /\ RetriesSpread'
  BY <1>1 DEF IInv, TriedIsLogged, RetriesSpread
<1>4. QED
  BY <1>2, <1>3 DEF IInv

(* A handler calling Do starts with an empty tried map, an empty log and *)
(* no result.                                                            *)
LEMMA CallIInv ==
  ASSUME IInv, NEW c \in Caller, Call(c)
  PROVE  IInv'
<1>1. /\ phase = "serving" /\ phase' = phase
      /\ pc' = [pc EXCEPT ![c] = "trying"]
      /\ tried' = [tried EXCEPT ![c] = {}]
      /\ log' = [log EXCEPT ![c] = <<>>]
      /\ result' = [result EXCEPT ![c] = "none"]
      /\ calls' = calls + 1 /\ calls < MaxCalls
      /\ endpoints' = endpoints /\ poolIdx' = poolIdx
  BY DEF Call
<1>2. TypeOK'
  <2>1. /\ pc' \in [Caller -> {"idle", "trying", "done"}]
        /\ tried' \in [Caller -> SUBSET endpoints']
        /\ result' \in [Caller -> Status \cup {"error", "none"}]
        /\ calls' \in 0..MaxCalls
    BY <1>1 DEF IInv, TypeOK
  <2>2. log' \in [Caller -> Seq([ep : endpoints', wallet : 0..(NWallets - 1),
                                  outcome : Status \cup {Fail, BodyFail}])]
    <3> SUFFICES ASSUME NEW d \in Caller
                 PROVE  log'[d] \in Seq([ep : endpoints', wallet : 0..(NWallets - 1),
                                         outcome : Status \cup {Fail, BodyFail}])
      BY <1>1 DEF IInv, TypeOK
    <3>1. CASE d = c
      <4>1. log'[d] = <<>>
        BY <1>1, <3>1 DEF IInv, TypeOK
      <4>2. QED
        BY <4>1
    <3>2. CASE d # c
      BY <1>1, <3>2 DEF IInv, TypeOK
    <3>3. QED
      BY <3>1, <3>2
  <2>3. QED
    BY <1>1, <2>1, <2>2 DEF IInv, TypeOK
<1>3. CallsWaitForDiscovery'
  BY <1>1 DEF CallsWaitForDiscovery
<1>4. NoResultWhileTrying'
  BY <1>1 DEF IInv, TypeOK, NoResultWhileTrying
<1>5. RetryPolicy'
  <2> SUFFICES ASSUME NEW d \in Caller
               PROVE  LET l == log'[d] IN
                      /\ \A i \in 1..(Len(l) - 1) : l[i].outcome = Fail
                      /\ pc'[d] = "trying" => \A i \in DOMAIN l : l[i].outcome = Fail
                      /\ result'[d] = "error" =>
                           \/ Len(l) = MaxAttempts /\ l[Len(l)].outcome = Fail
                           \/ l # <<>> /\ l[Len(l)].outcome = BodyFail
                      /\ result'[d] \in Status => l # <<>> /\ l[Len(l)].outcome = result'[d]
    BY DEF RetryPolicy, RetryPolicyOf
  <2>1. CASE d = c
    <3>1. log'[d] = <<>> /\ pc'[d] = "trying" /\ result'[d] = "none"
      BY <1>1, <2>1 DEF IInv, TypeOK
    <3>2. "none" \notin Status /\ "none" # "error"
      BY DispatcherAssumption
    <3>3. QED
      BY <3>1, <3>2
  <2>2. CASE d # c
    BY <1>1, <2>2 DEF IInv, TypeOK, RetryPolicy, RetryPolicyOf
  <2>3. QED
    BY <2>1, <2>2
<1>6. TriedIsLogged' /\ RetriesSpread'
  <2> SUFFICES ASSUME NEW d \in Caller
               PROVE  /\ tried'[d] = {log'[d][k].ep : k \in DOMAIN log'[d]}
                      /\ \A i, j \in DOMAIN log'[d] :
                           i < j /\ log'[d][i].ep = log'[d][j].ep =>
                             endpoints' \subseteq {log'[d][k].ep : k \in 1..(j - 1)}
    BY DEF TriedIsLogged, RetriesSpread
  <2>1. CASE d = c
    BY <1>1, <2>1 DEF IInv, TypeOK
  <2>2. CASE d # c
    BY <1>1, <2>2 DEF IInv, TypeOK, TriedIsLogged, RetriesSpread
  <2>3. QED
    BY <2>1, <2>2
<1>7. QED
  BY <1>2, <1>3, <1>4, <1>5, <1>6 DEF IInv

(* The handler has written its answer: only pc[c] changes, to "idle". *)
LEMMA FinishIInv ==
  ASSUME IInv, NEW c \in Caller, Finish(c)
  PROVE  IInv'
<1>1. /\ pc[c] = "done" /\ pc' = [pc EXCEPT ![c] = "idle"]
      /\ endpoints' = endpoints /\ phase' = phase /\ poolIdx' = poolIdx
      /\ calls' = calls /\ tried' = tried /\ log' = log /\ result' = result
  BY DEF Finish
<1>2. TypeOK'
  BY <1>1 DEF IInv, TypeOK
<1>3. CallsWaitForDiscovery'
  BY <1>1 DEF IInv, TypeOK, CallsWaitForDiscovery
<1>4. NoResultWhileTrying'
  BY <1>1 DEF IInv, TypeOK, NoResultWhileTrying
<1>5. RetryPolicy'
  BY <1>1 DEF IInv, TypeOK, RetryPolicy, RetryPolicyOf
<1>6. TriedIsLogged' /\ RetriesSpread'
  BY <1>1 DEF IInv, TriedIsLogged, RetriesSpread
<1>7. QED
  BY <1>2, <1>3, <1>4, <1>5, <1>6 DEF IInv

(* After MaxAttempts transport errors Do returns an error: the log then  *)
(* holds MaxAttempts entries, all transport errors.                      *)
LEMMA GiveUpIInv ==
  ASSUME IInv, NEW c \in Caller, GiveUp(c)
  PROVE  IInv'
<1>1. /\ pc[c] = "trying" /\ Len(log[c]) = MaxAttempts
      /\ pc' = [pc EXCEPT ![c] = "done"]
      /\ result' = [result EXCEPT ![c] = "error"]
      /\ endpoints' = endpoints /\ phase' = phase /\ poolIdx' = poolIdx
      /\ calls' = calls /\ tried' = tried /\ log' = log
  BY DEF GiveUp
<1>2. \A i \in DOMAIN log[c] : log[c][i].outcome = Fail
  BY <1>1 DEF IInv, RetryPolicy, RetryPolicyOf
<1>3. log[c][Len(log[c])].outcome = Fail
  <2>1. log[c] \in Seq([ep : endpoints, wallet : 0..(NWallets - 1),
                        outcome : Status \cup {Fail, BodyFail}])
    BY DEF IInv, TypeOK
  <2>2. Len(log[c]) \in DOMAIN log[c]
    BY <1>1, <2>1
  <2>3. QED
    BY <1>2, <2>2
<1>4. TypeOK'
  BY <1>1 DEF IInv, TypeOK
<1>5. CallsWaitForDiscovery'
  BY <1>1 DEF IInv, TypeOK, CallsWaitForDiscovery
<1>6. NoResultWhileTrying'
  BY <1>1 DEF IInv, TypeOK, NoResultWhileTrying
<1>7. RetryPolicy'
  BY <1>1, <1>3 DEF IInv, TypeOK, RetryPolicy, RetryPolicyOf
<1>8. TriedIsLogged' /\ RetriesSpread'
  BY <1>1 DEF IInv, TriedIsLogged, RetriesSpread
<1>9. QED
  BY <1>4, <1>5, <1>6, <1>7, <1>8 DEF IInv

(* One iteration of Do's loop appends its attempt to the log.  Since the *)
(* call was still trying, every earlier attempt was a transport error;   *)
(* a new transport error keeps the call trying with no result, anything *)
(* else ends it with that outcome.                                       *)
LEMMA AttemptIInv ==
  ASSUME IInv, NEW c \in Caller, Attempt(c)
  PROVE  IInv'
<1> DEFINE Entry == [ep : endpoints, wallet : 0..(NWallets - 1),
                     outcome : Status \cup {Fail, BodyFail}]
<1>1. PICK ep \in Candidates(tried[c]), out \in Status \cup {Fail, BodyFail} :
        /\ tried' = [tried EXCEPT ![c] = @ \cup {ep}]
        /\ log' = [log EXCEPT ![c] = Append(@, [ep |-> ep, wallet |-> poolIdx, outcome |-> out])]
        /\ IF Retry(out)
           THEN UNCHANGED <<pc, result>>
           ELSE /\ pc' = [pc EXCEPT ![c] = "done"]
                /\ result' = [result EXCEPT ![c] = IF out = BodyFail THEN "error" ELSE out]
  BY DEF Attempt, Record
<1> DEFINE e == [ep |-> ep, wallet |-> poolIdx, outcome |-> out]
<1>2. /\ pc[c] = "trying" /\ Len(log[c]) < MaxAttempts
      /\ poolIdx' = (poolIdx + 1) % NWallets
      /\ endpoints' = endpoints /\ phase' = phase /\ calls' = calls
  BY DEF Attempt, NextWallet
<1>3. ep \in endpoints
  BY DEF Candidates
<1>4. /\ log \in [Caller -> Seq(Entry)]
      /\ e \in Entry
      /\ log' = [log EXCEPT ![c] = Append(log[c], e)]
  BY <1>1, <1>3 DEF IInv, TypeOK
<1>5. \A i \in DOMAIN log[c] : log[c][i].outcome = Fail
  BY <1>2 DEF IInv, RetryPolicy, RetryPolicyOf
<1>6. /\ log'[c] = Append(log[c], e)
      /\ Len(log'[c]) = Len(log[c]) + 1
      /\ log'[c][Len(log'[c])] = e
      /\ \A i \in 1..Len(log[c]) : log'[c][i] = log[c][i]
      /\ \A d \in Caller \ {c} : log'[d] = log[d]
  BY <1>4
<1>7. /\ endpoints' \subseteq Whitelist
      /\ phase' \in {"discovering", "serving", "exited"}
      /\ poolIdx' \in 0..(NWallets - 1)
      /\ calls' \in 0..MaxCalls
      /\ tried' \in [Caller -> SUBSET endpoints']
      /\ log' \in [Caller -> Seq([ep : endpoints', wallet : 0..(NWallets - 1),
                                 outcome : Status \cup {Fail, BodyFail}])]
  <2>1. poolIdx' \in 0..(NWallets - 1)
    BY <1>2 DEF IInv, TypeOK
  <2>2. tried' \in [Caller -> SUBSET endpoints']
    BY <1>1, <1>2, <1>3 DEF IInv, TypeOK
  <2>3. Append(log[c], e) \in Seq(Entry)
    <3>1. log[c] \in Seq(Entry) /\ e \in Entry
      BY <1>4
    <3>2. QED
      BY <3>1
  <2>4. QED
    BY <1>2, <1>4, <2>1, <2>2, <2>3 DEF IInv, TypeOK
<1>8. TriedIsLogged' /\ RetriesSpread'
  <2>1. /\ log[c] \in Seq(Entry) /\ Len(log[c]) \in Nat
        /\ DOMAIN log[c] = 1..Len(log[c])
        /\ DOMAIN log'[c] = 1..(Len(log[c]) + 1)
    <3>1. log[c] \in Seq(Entry)
      BY <1>4, Zenon
    <3>2. QED
      BY <1>6, <3>1
  <2>2. /\ tried'[c] = tried[c] \cup {ep}
        /\ \A d \in Caller \ {c} : tried'[d] = tried[d]
    BY <1>1 DEF IInv, TypeOK
  <2>3. tried[c] = {log[c][k].ep : k \in DOMAIN log[c]}
    BY DEF IInv, TriedIsLogged
  <2>4. TriedIsLogged'
    <3> SUFFICES ASSUME NEW d \in Caller
                 PROVE  tried'[d] = {log'[d][k].ep : k \in DOMAIN log'[d]}
      BY DEF TriedIsLogged
    <3>1. CASE d = c
      <4> DEFINE L == Len(log[c])
      <4>1. {log'[c][k].ep : k \in 1..(L + 1)}
              = {log'[c][k].ep : k \in 1..L} \cup {log'[c][L + 1].ep}
        BY <2>1
      <4>2. {log'[c][k].ep : k \in 1..L} = {log[c][k].ep : k \in 1..L}
        BY <1>6, <2>1
      <4>3. log'[c][L + 1].ep = ep
        BY <1>6
      <4>4. {log'[c][k].ep : k \in DOMAIN log'[c]} = tried[c] \cup {ep}
        BY <2>1, <2>3, <4>1, <4>2, <4>3
      <4>5. QED
        BY <2>2, <3>1, <4>4
    <3>2. CASE d # c
      BY <1>6, <2>2, <3>2 DEF IInv, TriedIsLogged
    <3>3. QED
      BY <3>1, <3>2
  <2>5. RetriesSpread'
    <3> SUFFICES ASSUME NEW d \in Caller,
                        NEW i \in DOMAIN log'[d], NEW j \in DOMAIN log'[d],
                        i < j, log'[d][i].ep = log'[d][j].ep
                 PROVE  endpoints' \subseteq {log'[d][k].ep : k \in 1..(j - 1)}
      BY DEF RetriesSpread
    <3>1. CASE d # c
      <4>1. log'[d] = log[d] /\ endpoints' = endpoints
        BY <1>2, <1>6, <3>1
      <4>2. QED
        BY <4>1 DEF IInv, RetriesSpread
    <3>2. CASE d = c /\ j <= Len(log[c])
      <4>1. i \in DOMAIN log[c] /\ j \in DOMAIN log[c]
        BY <1>6, <2>1, <3>2
      <4>2. log'[c][i] = log[c][i] /\ log'[c][j] = log[c][j]
        BY <1>6, <4>1
      <4>3. endpoints \subseteq {log[c][k].ep : k \in 1..(j - 1)}
        BY <3>2, <4>1, <4>2 DEF IInv, RetriesSpread
      <4>4. \A k \in 1..(j - 1) : log'[c][k] = log[c][k]
        BY <1>6, <2>1, <3>2
      <4>5. QED
        BY <1>2, <3>2, <4>3, <4>4
    <3>3. CASE d = c /\ j > Len(log[c])
      <4>1. j = Len(log[c]) + 1 /\ i \in DOMAIN log[c]
        BY <1>6, <2>1, <3>3
      <4>2. log[c][i].ep = ep
        BY <1>6, <3>3, <4>1
      <4>3. ep \in tried[c]
        BY <2>3, <4>1, <4>2
      <4>4. endpoints \subseteq tried[c]
        BY <1>1, <4>3 DEF Candidates
      <4>5. \A k \in 1..(j - 1) : log'[c][k] = log[c][k]
        BY <1>6, <2>1, <4>1
      <4>6. 1..(j - 1) = DOMAIN log[c]
        BY <2>1, <4>1
      <4>7. {log'[c][k].ep : k \in 1..(j - 1)} = tried[c]
        BY <2>3, <4>5, <4>6
      <4>8. QED
        BY <1>2, <3>3, <4>4, <4>7
    <3>4. j \in Nat
      <4>1. log'[d] \in Seq([ep : endpoints', wallet : 0..(NWallets - 1),
                             outcome : Status \cup {Fail, BodyFail}])
        BY <1>7
      <4>2. QED
        BY <4>1
    <3>5. QED
      BY <3>1, <3>2, <3>3, <3>4
  <2>6. QED
    BY <2>4, <2>5
<1>9. CASE out = Fail
  <2>1. pc' = pc /\ result' = result /\ result[c] = "none"
    BY <1>1, <1>2, <1>9 DEF Retry, IInv, NoResultWhileTrying
  <2>2. TypeOK'
    BY <1>7, <2>1 DEF IInv, TypeOK
  <2>3. CallsWaitForDiscovery' /\ NoResultWhileTrying'
    BY <1>2, <2>1 DEF IInv, CallsWaitForDiscovery, NoResultWhileTrying
  <2>4. RetryPolicy'
    <3> SUFFICES ASSUME NEW d \in Caller PROVE RetryPolicyOf(d)'
      BY DEF RetryPolicy
    <3>1. CASE d = c
      <4>1. \A i \in DOMAIN log'[c] : log'[c][i].outcome = Fail
        BY <1>5, <1>6, <1>9
      <4>2. pc'[c] = "trying" /\ result'[c] = "none"
        BY <1>2, <2>1
      <4>3. QED
        BY <3>1, <4>1, <4>2 DEF RetryPolicyOf
    <3>2. CASE d # c
      BY <1>6, <2>1, <3>2 DEF IInv, RetryPolicy, RetryPolicyOf
    <3>3. QED
      BY <3>1, <3>2
  <2>5. QED
    BY <1>8, <2>2, <2>3, <2>4 DEF IInv
<1>10. CASE out # Fail
  <2> DEFINE r == IF out = BodyFail THEN "error" ELSE out
  <2>1. /\ pc' = [pc EXCEPT ![c] = "done"]
        /\ result' = [result EXCEPT ![c] = r]
    BY <1>1, <1>10 DEF Retry
  <2>2. r \in Status \cup {"error"}
    BY <1>1, <1>10
  <2>3. TypeOK'
    BY <1>7, <2>1, <2>2 DEF IInv, TypeOK
  <2>4. CallsWaitForDiscovery' /\ NoResultWhileTrying'
    BY <1>2, <2>1 DEF IInv, TypeOK, CallsWaitForDiscovery, NoResultWhileTrying
  <2>5. RetryPolicy'
    <3> SUFFICES ASSUME NEW d \in Caller PROVE RetryPolicyOf(d)'
      BY DEF RetryPolicy
    <3>1. CASE d = c
      <4>1. \A i \in 1..(Len(log'[c]) - 1) : log'[c][i].outcome = Fail
        BY <1>5, <1>6
      <4>2. r = "error" => log'[c] # <<>> /\ log'[c][Len(log'[c])].outcome = BodyFail
        BY <1>6, <1>10
      <4>3. r \in Status => log'[c] # <<>> /\ log'[c][Len(log'[c])].outcome = r
        BY <1>6, <1>10
      <4>4. pc'[c] = "done" /\ result'[c] = r
        BY <2>1 DEF IInv, TypeOK
      <4>5. QED
        BY <3>1, <4>1, <4>2, <4>3, <4>4 DEF RetryPolicyOf
    <3>2. CASE d # c
      <4>1. pc'[d] = pc[d] /\ result'[d] = result[d]
        BY <2>1, <3>2 DEF IInv, TypeOK
      <4>2. QED
        BY <1>6, <3>2, <4>1 DEF IInv, RetryPolicy, RetryPolicyOf
    <3>3. QED
      BY <3>1, <3>2
  <2>6. QED
    BY <1>8, <2>3, <2>4, <2>5 DEF IInv
<1>11. QED
  BY <1>9, <1>10

(* Every step of the dispatcher keeps IInv. *)
LEMMA NextIInv == IInv /\ [Next]_vars => IInv'
<1> SUFFICES ASSUME IInv, [Next]_vars PROVE IInv'
  OBVIOUS
<1>1. CASE DiscoverEndpoints
  BY <1>1, DiscoverIInv
<1>2. CASE \E c \in Caller : Call(c)
  BY <1>2, CallIInv
<1>3. CASE \E c \in Caller : Attempt(c)
  BY <1>3, AttemptIInv
<1>4. CASE \E c \in Caller : GiveUp(c)
  BY <1>4, GiveUpIInv
<1>5. CASE \E c \in Caller : Finish(c)
  BY <1>5, FinishIInv
<1>6. CASE Stopped \/ UNCHANGED vars
  BY <1>6, UnchangedIInv DEF Stopped
<1>7. QED
  BY <1>1, <1>2, <1>3, <1>4, <1>5, <1>6 DEF Next

(* IInv holds in every reachable state of the dispatcher. *)
LEMMA IInvHolds == Spec => []IInv
  BY InitIInv, NextIInv, PTL DEF Spec

(* Endpoints, wallet index, tried maps, attempt logs and results of Do   *)
(* stay well typed: every attempt used a kept endpoint and a wallet of   *)
(* the pool.                                                             *)
THEOREM TypeCorrect == Spec => []TypeOK
  BY IInvHolds, PTL DEF IInv

(* Client.Do retries only after a transport error and returns an error   *)
(* only after MaxAttempts transport errors or a failed body read, else   *)
(* the status of the response that ended it; for any number of callers, *)
(* endpoints, wallets and attempts.                                      *)
THEOREM RetryPolicyHolds == Spec => []RetryPolicy
  BY IInvHolds, PTL DEF IInv

(* Client.Do spreads its retries: within one call it sends to an         *)
(* endpoint a second time only after it has tried every kept endpoint,   *)
(* for any number of callers, participants and attempts.  It rests on    *)
(* TriedIsLogged: pickEndpointExcluding's tried map is the set of         *)
(* endpoints of the call's earlier attempts.                             *)
THEOREM RetriesSpreadHolds == Spec => []RetriesSpread
  BY IInvHolds, PTL DEF IInv
-----------------------------------------------------------------------------
(* Refinement: Client.Do implements RetryLoop, the retry loop it promises *)
(* its callers, under the mapping attempts <- the length of each log.     *)

AttemptsOf == [c \in Caller |-> Len(log[c])]

(* Changing the log of one call changes its attempt count only. *)
LEMMA AttemptsUpdate ==
  ASSUME TypeOK, NEW c \in Caller,
         log' = [log EXCEPT ![c] = log'[c]]
  PROVE  AttemptsOf' = [AttemptsOf EXCEPT ![c] = Len(log'[c])]
  BY DEF TypeOK, AttemptsOf

LEMMA InitRefines == Init => Loop!Init
  BY DEF Init, Loop!Init

(* Discovery, Stopped and stuttering steps leave the calls alone. *)
LEMMA StutterRefines ==
  ASSUME DiscoverEndpoints \/ Stopped \/ UNCHANGED vars
  PROVE  UNCHANGED Loop!vars
  BY DEF DiscoverEndpoints, Stopped, vars, Loop!vars

LEMMA CallRefines ==
  ASSUME IInv, NEW c \in Caller, Call(c)
  PROVE  Loop!Call(c)
<1>1. AttemptsOf' = [AttemptsOf EXCEPT ![c] = 0]
  <2>1. log' = [log EXCEPT ![c] = log'[c]] /\ log'[c] = <<>>
    BY DEF Call, IInv, TypeOK
  <2>2. QED
    BY <2>1, AttemptsUpdate DEF IInv
<1>2. QED
  BY <1>1 DEF Call, Loop!Call, AttemptsOf, IInv, TypeOK

LEMMA AttemptRefines ==
  ASSUME IInv, NEW c \in Caller, Attempt(c)
  PROVE  \/ Loop!TransportError(c)
         \/ \E s \in Status \cup {"error"} : Loop!Respond(c, s)
<1>1. PICK ep \in Candidates(tried[c]), out \in Status \cup {Fail, BodyFail} :
        /\ log' = [log EXCEPT ![c] = Append(log[c], [ep |-> ep, wallet |-> poolIdx, outcome |-> out])]
        /\ IF Retry(out)
           THEN UNCHANGED <<pc, result>>
           ELSE /\ pc' = [pc EXCEPT ![c] = "done"]
                /\ result' = [result EXCEPT ![c] = IF out = BodyFail THEN "error" ELSE out]
  BY DEF Attempt, Record
<1>2. /\ pc[c] = "trying" /\ Len(log[c]) < MaxAttempts /\ calls' = calls
  BY DEF Attempt
<1>3. AttemptsOf' = [AttemptsOf EXCEPT ![c] = @ + 1]
  <2>1. log[c] \in Seq([ep : endpoints, wallet : 0..(NWallets - 1),
                        outcome : Status \cup {Fail, BodyFail}])
    BY DEF IInv, TypeOK
  <2>2. log' = [log EXCEPT ![c] = log'[c]]
         /\ Len(log'[c]) = Len(log[c]) + 1
    BY <1>1, <2>1 DEF IInv, TypeOK
  <2>3. AttemptsOf' = [AttemptsOf EXCEPT ![c] = Len(log[c]) + 1]
    BY <2>2, AttemptsUpdate DEF IInv
  <2>4. QED
    BY <2>3 DEF AttemptsOf
<1>4. AttemptsOf[c] < MaxAttempts
  BY <1>2 DEF AttemptsOf
<1>5. CASE out = Fail
  BY <1>1, <1>2, <1>3, <1>4, <1>5 DEF Retry, Loop!TransportError, AttemptsOf
<1>6. CASE out # Fail
  <2> DEFINE r == IF out = BodyFail THEN "error" ELSE out
  <2>1. r \in Status \cup {"error"}
    BY <1>1, <1>6
  <2>2. Loop!Respond(c, r)
    BY <1>1, <1>2, <1>3, <1>4, <1>6 DEF Retry, Loop!Respond, AttemptsOf
  <2>3. QED
    BY <2>1, <2>2
<1>7. QED
  BY <1>5, <1>6

LEMMA GiveUpRefines ==
  ASSUME IInv, NEW c \in Caller, GiveUp(c)
  PROVE  Loop!GiveUp(c)
  BY DEF GiveUp, Loop!GiveUp, AttemptsOf

LEMMA FinishRefines ==
  ASSUME IInv, NEW c \in Caller, Finish(c)
  PROVE  Loop!Finish(c)
  BY DEF Finish, Loop!Finish, AttemptsOf

(* Every step of the dispatcher is a step of the retry loop or leaves it *)
(* unchanged.                                                            *)
LEMMA NextRefines == IInv /\ [Next]_vars => [Loop!Next]_Loop!vars
<1> SUFFICES ASSUME IInv, [Next]_vars PROVE [Loop!Next]_Loop!vars
  OBVIOUS
<1>1. CASE DiscoverEndpoints \/ Stopped \/ UNCHANGED vars
  BY <1>1, StutterRefines
<1>2. CASE \E c \in Caller : Call(c)
  BY <1>2, CallRefines DEF Loop!Next
<1>3. CASE \E c \in Caller : Attempt(c)
  BY <1>3, AttemptRefines DEF Loop!Next
<1>4. CASE \E c \in Caller : GiveUp(c)
  BY <1>4, GiveUpRefines DEF Loop!Next
<1>5. CASE \E c \in Caller : Finish(c)
  BY <1>5, FinishRefines DEF Loop!Next
<1>6. QED
  BY <1>1, <1>2, <1>3, <1>4, <1>5 DEF Next

(* Client.Do implements RetryLoop for any callers, participants,         *)
(* wallets and attempt bound: with endpoints and wallets hidden, each    *)
(* attempt either fails to connect and the call goes on, or gets a       *)
(* response that ends the call, and a call gives up exactly when         *)
(* MaxAttempts attempts have failed.                                     *)
THEOREM RetryLoopRefinement == Spec => ImplementsRetryLoop
<1>1. QED
  BY InitRefines, NextRefines, IInvHolds, PTL DEF Spec, ImplementsRetryLoop, Loop!Spec
=============================================================================

