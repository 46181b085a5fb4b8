----------------------------- MODULE Dispatcher -----------------------------
(***************************************************************************)
(* The upstream dispatcher (src/internal/upstream/client.go) and the      *)
(* wallet pool it draws from (package wallet, in src/internal/api/        *)
(* handler.go).  At startup DiscoverEndpoints keeps the whitelisted       *)
(* participants; the process exits when none is left.  Then the callers  *)
(* (HTTP handlers running concurrently) each run Client.Do: up to         *)
(* MaxAttempts attempts, each on an endpoint not tried yet by this call   *)
(* (any endpoint once all are tried) and with the next wallet of the      *)
(* round-robin pool; a transport error moves on to the next attempt, an   *)
(* HTTP response, whatever its status, ends the call.  DoStream runs the  *)
(* same loop.                                                             *)
(***************************************************************************)
EXTENDS Naturals, Sequences, FiniteSets

CONSTANTS
  Caller,        \* handler goroutines calling Do concurrently
  Participant,   \* the participant list: records [index, url], "" when absent
  Whitelist,     \* allowedTransferAgents
  NWallets,      \* len(p.wallets)
  MaxAttempts,   \* the 3 of the retry loop
  MaxCalls,      \* bound on the number of calls of Do in a run
  Status         \* HTTP statuses an endpoint may answer with

ASSUME DispatcherAssumption ==
  /\ NWallets \in Nat \ {0}
  /\ MaxAttempts \in Nat \ {0}
  /\ MaxCalls \in Nat
  /\ Status \cap {"error", "none", "transportError", "bodyReadError"} = {}

VARIABLES
  endpoints,   \* c.endpoints: the addresses of the kept participants
  phase,       \* "discovering", "serving" or "exited"
  poolIdx,     \* p.counter mod len(p.wallets): the wallet Next hands out
  calls,       \* calls of Do so far
  pc,          \* pc[c]: "idle", "trying" or "done"
  tried,       \* tried[c]: the tried map of the running call
  log,         \* log[c]: its attempts, [ep, wallet, outcome]
  result       \* result[c]: what Do returned: a status or "error"

vars == <<endpoints, phase, poolIdx, calls, pc, tried, log, result>>

Fail == "transportError"       \* c.http.Do returned an error
BodyFail == "bodyReadError"   \* io.ReadAll(resp.Body) failed

-----------------------------------------------------------------------------
Init ==
  /\ endpoints = {}
  /\ phase = "discovering"
  /\ poolIdx = 0
  /\ calls = 0
  /\ pc = [c \in Caller |-> "idle"]
  /\ tried = [c \in Caller |-> {}]
  /\ log = [c \in Caller |-> <<>>]
  /\ result = [c \in Caller |-> "none"]

(* DiscoverEndpoints at startup: keep participants with an index and a   *)
(* URL that are whitelisted; main exits when the list comes out empty.   *)
DiscoverEndpoints ==
  LET eps == {p.index : p \in {q \in Participant :
                 q.url # "" /\ q.index # "" /\ q.index \in Whitelist}}
  IN /\ phase = "discovering"
     /\ endpoints' = eps
     /\ phase' = IF eps = {} THEN "exited" ELSE "serving"
     /\ UNCHANGED <<poolIdx, calls, pc, tried, log, result>>

(* A handler calls Do. *)
Call(c) ==
  /\ phase = "serving"
  /\ pc[c] = "idle"
  /\ calls < MaxCalls
  /\ calls' = calls + 1
  /\ pc' = [pc EXCEPT ![c] = "trying"]
  /\ tried' = [tried EXCEPT ![c] = {}]
  /\ log' = [log EXCEPT ![c] = <<>>]
  /\ result' = [result EXCEPT ![c] = "none"]
  /\ UNCHANGED <<endpoints, phase, poolIdx>>

(* Mutant: the tried map ignored. *)
CandidatesIgnoringTried(ex) == endpoints

(* pickEndpointExcluding: an endpoint not in the tried map, or any one   *)
(* when all have been tried.                                             *)
Candidates(ex) == IF endpoints \ ex = {} THEN endpoints ELSE endpoints \ ex

(* Pool.Next: counter.Add(1) - 1, modulo the number of wallets. *)
NextWalletUnreduced == poolIdx + 1
NextWallet == (poolIdx + 1) % NWallets

(* Mutant: a response treated like a transport error. *)
RetryOnAnyOutcome(out) == out # BodyFail

(* The loop continues after a transport error only. *)
Retry(out) == out = Fail

(* Mutant: the attempt counter advanced only when a response came back. *)
RecordResponsesOnly(c, ep, out) ==
  log' = IF out = Fail THEN log
         ELSE [log EXCEPT ![c] = Append(@, [ep |-> ep, wallet |-> poolIdx, outcome |-> out])]

(* The attempt is counted, with the endpoint and wallet it used. *)
Record(c, ep, out) ==
  log' = [log EXCEPT ![c] = Append(@, [ep |-> ep, wallet |-> poolIdx, outcome |-> out])]

(* One iteration of the loop of Do: pick, mark as tried, take the next   *)
(* wallet, send; a transport error continues, a response returns with    *)
(* its status, or with an error when reading its body fails.             *)
Attempt(c) ==
  /\ pc[c] = "trying"
  /\ Len(log[c]) < MaxAttempts
  /\ \E ep \in Candidates(tried[c]), out \in Status \cup {Fail, BodyFail} :
       /\ tried' = [tried EXCEPT ![c] = @ \cup {ep}]
       /\ Record(c, ep, out)
       /\ IF Retry(out)
          THEN UNCHANGED <<pc, result>>
          ELSE /\ pc' = [pc EXCEPT ![c] = "done"]
               /\ result' = [result EXCEPT ![c] = IF out = BodyFail THEN "error" ELSE out]
  /\ poolIdx' = NextWallet
  /\ UNCHANGED <<endpoints, phase, calls>>

(* Mutant: Do gives up one attempt early. *)
GiveUpOneShort(c) ==
  /\ pc[c] = "trying"
  /\ Len(log[c]) = MaxAttempts - 1
  /\ pc' = [pc EXCEPT ![c] = "done"]
  /\ result' = [result EXCEPT ![c] = "error"]
  /\ UNCHANGED <<endpoints, phase, poolIdx, calls, tried, log>>

(* The loop ran out of attempts: Do returns the last transport error. *)
GiveUp(c) ==
  /\ pc[c] = "trying"
  /\ Len(log[c]) = MaxAttempts
  /\ pc' = [pc EXCEPT ![c] = "done"]
  /\ result' = [result EXCEPT ![c] = "error"]
  /\ UNCHANGED <<endpoints, phase, poolIdx, calls, tried, log>>

(* The handler has written its answer; the goroutine is free again. *)
Finish(c) ==
  /\ pc[c] = "done"
  /\ pc' = [pc EXCEPT ![c] = "idle"]
  /\ UNCHANGED <<endpoints, phase, poolIdx, calls, tried, log, result>>

(* Startup failed, or every call the run allows has been answered. *)
Stopped ==
  /\ \/ phase = "exited"
     \/ calls = MaxCalls /\ \A c \in Caller : pc[c] = "idle"
  /\ UNCHANGED vars

Next ==
  \/ DiscoverEndpoints
  \/ \E c \in Caller : Call(c) \/ Attempt(c) \/ GiveUp(c) \/ Finish(c)
  \/ Stopped

Spec == Init /\ [][Next]_vars

(* http.Client's 120 s Timeout bounds every attempt of Do, so a call that *)
(* can go on does.                                                        *)
FairSpec == Spec /\ \A c \in Caller : WF_vars(Attempt(c)) /\ WF_vars(GiveUp(c))

-----------------------------------------------------------------------------
TypeOK ==
  /\ endpoints \subseteq Whitelist
  /\ phase \in {"discovering", "serving", "exited"}
  /\ poolIdx \in 0..(NWallets - 1)
  /\ calls \in 0..MaxCalls
  /\ pc \in [Caller -> {"idle", "trying", "done"}]
  /\ tried \in [Caller -> SUBSET endpoints]
  /\ log \in [Caller -> Seq([ep : endpoints, wallet : 0..(NWallets - 1),
                             outcome : Status \cup {Fail, BodyFail}])]
  /\ result \in [Caller -> Status \cup {"error", "none"}]

(* Retry policy (spec 7, scenario 6): Do moves to another attempt only   *)
(* after a transport error, never after an HTTP response, even a 5xx;    *)
(* it reports an error only when all MaxAttempts attempts failed to      *)
(* connect or the body of the response could not be read, and otherwise  *)
(* the status of the response that ended it.                             *)
RetryPolicyOf(c) ==
  LET l == log[c] IN
  /\ \A i \in 1..(Len(l) - 1) : l[i].outcome = Fail
  /\ pc[c] = "trying" => \A i \in DOMAIN l : l[i].outcome = Fail
  /\ result[c] = "error" =>
       \/ Len(l) = MaxAttempts /\ l[Len(l)].outcome = Fail
       \/ l # <<>> /\ l[Len(l)].outcome = BodyFail
  /\ result[c] \in Status => l # <<>> /\ l[Len(l)].outcome = result[c]

(* The retry policy holds for the calls of every handler goroutine. *)
RetryPolicy == \A c \in Caller : RetryPolicyOf(c)

(* Spread of retries (spec 4.3): a call tries an endpoint a second time  *)
(* only once it has tried every endpoint.                                *)
RetriesSpread ==
  \A c \in Caller : \A i, j \in DOMAIN log[c] :
    i < j /\ log[c][i].ep = log[c][j].ep =>
      endpoints \subseteq {log[c][k].ep : k \in 1..(j - 1)}

Loop == INSTANCE RetryLoop WITH attempts <- [c \in Caller |-> Len(log[c])]

(* Client.Do implements the retry loop it promises (RetryLoop): with the  *)
(* endpoints, the tried map and the wallets hidden, every step of a call  *)
(* is an attempt that fails to connect, an attempt whose response ends   *)
(* the call, or giving up once MaxAttempts attempts have failed.          *)
ImplementsRetryLoop == Loop!Spec

(* Every call of Do ends with an answer (spec 7: requests never hang on  *)
(* the dispatcher).                                                      *)
DoReturns == \A c \in Caller : pc[c] = "trying" ~> pc[c] = "done"
=============================================================================
