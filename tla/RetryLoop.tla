------------------------------ MODULE RetryLoop ------------------------------
(***************************************************************************)
(* What Client.Do (src/internal/upstream/client.go) promises its callers, *)
(* without endpoints or wallets: a call makes attempts until one of them  *)
(* gets an HTTP response, whatever its status, which ends the call with   *)
(* that status (or with an error when its body cannot be read); after     *)
(* MaxAttempts transport errors the call ends with an error.  Callers run *)
(* concurrently; a caller starts a new call once it has its answer.      *)
(***************************************************************************)
EXTENDS Naturals

CONSTANTS
  Caller,        \* handler goroutines calling Do concurrently
  MaxAttempts,   \* the 3 of the retry loop
  MaxCalls,      \* bound on the number of calls of Do in a run
  Status         \* HTTP statuses an endpoint may answer with

VARIABLES
  pc,       \* pc[c]: "idle", "trying" or "done"
  attempts, \* attempts[c]: attempts the running call has made
  result,   \* result[c]: what the call returned: a status or "error"
  calls     \* calls of Do so far

vars == <<pc, attempts, result, calls>>

Init ==
  /\ pc = [c \in Caller |-> "idle"]
  /\ attempts = [c \in Caller |-> 0]
  /\ result = [c \in Caller |-> "none"]
  /\ calls = 0

(* A handler calls Do. *)
Call(c) ==
  /\ pc[c] = "idle"
  /\ calls < MaxCalls
  /\ calls' = calls + 1
  /\ pc' = [pc EXCEPT ![c] = "trying"]
  /\ attempts' = [attempts EXCEPT ![c] = 0]
  /\ result' = [result EXCEPT ![c] = "none"]

(* An attempt fails to connect; the loop goes on. *)
TransportError(c) ==
  /\ pc[c] = "trying"
  /\ attempts[c] < MaxAttempts
  /\ attempts' = [attempts EXCEPT ![c] = @ + 1]
  /\ UNCHANGED <<pc, result, calls>>

(* An attempt gets a response: Do returns its status, or an error when   *)
(* reading the body fails.                                               *)
Respond(c, s) ==
  /\ pc[c] = "trying"
  /\ attempts[c] < MaxAttempts
  /\ attempts' = [attempts EXCEPT ![c] = @ + 1]
  /\ pc' = [pc EXCEPT ![c] = "done"]
  /\ result' = [result EXCEPT ![c] = s]
  /\ UNCHANGED calls

(* All MaxAttempts attempts failed to connect (a call still trying has  *)
(* had no response): Do returns the last transport error.               *)
GiveUp(c) ==
  /\ pc[c] = "trying"
  /\ attempts[c] = MaxAttempts
  /\ pc' = [pc EXCEPT ![c] = "done"]
  /\ result' = [result EXCEPT ![c] = "error"]
  /\ UNCHANGED <<attempts, calls>>

(* The caller has its answer. *)
Finish(c) ==
  /\ pc[c] = "done"
  /\ pc' = [pc EXCEPT ![c] = "idle"]
  /\ UNCHANGED <<attempts, result, calls>>

Next ==
  \E c \in Caller :
    \/ Call(c)
    \/ TransportError(c)
    \/ \E s \in Status \cup {"error"} : Respond(c, s)
    \/ GiveUp(c)
    \/ Finish(c)

Spec == Init /\ [][Next]_vars
=============================================================================
