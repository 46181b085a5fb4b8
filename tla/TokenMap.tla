------------------------------ MODULE TokenMap ------------------------------
(***************************************************************************)
(* The per-request placeholder map of the sanitizer and the process-wide  *)
(* id counter behind it (src/internal/sanitize/sanitize.go, lines 26-94). *)
(*                                                                         *)
(* Every request in flight owns one TokenMap: toToken maps an original    *)
(* value to the id of its placeholder, fromToken maps the id back.  The   *)
(* placeholder text for id n is the byte string  «TOKEN_%06d»  ; here it  *)
(* is the sequence  Placeholder(n)  of abstract bytes, the six digits     *)
(* being one byte (formatting is injective, which is all that matters).   *)
(* Ids come from  globalCounter, an atomic counter shared by all requests *)
(* running concurrently.  Requests are slots: Begin(r) is a new request   *)
(* arriving in slot r with a fresh map (newTokenMap); the old map is gone.*)
(***************************************************************************)
EXTENDS Naturals, Sequences, FiniteSets, Placeholders

CONSTANTS
  Request,   \* slots for the requests being served concurrently
  Original   \* values a classifier may ask to register

ASSUME RequestAssumption == Request # {}

VARIABLES
  counter,    \* globalCounter
  toToken,    \* toToken[r]: original -> id, the map of the request in slot r
  fromToken   \* fromToken[r]: id -> original

tmVars == <<counter, toToken, fromToken>>

(* The empty map made by newTokenMap. *)
EmptyMap == [x \in {} |-> 0]

(* The Go map assignment  m[k] = v . *)
MapPut(m, k, v) == [x \in DOMAIN m \cup {k} |-> IF x = k THEN v ELSE m[x]]

-----------------------------------------------------------------------------
(* TokenMap.Restore: one strings.ReplaceAll per entry of fromToken, in the order  *)
(* ord in which the Go map happens to be iterated.                        *)
RestoreInOrder(text, from, ord) ==
  LET g[k \in 0..Len(ord)] ==
        IF k = 0 THEN text
        ELSE StringsReplaceAll(g[k-1], Placeholder(ord[k]), from[ord[k]])
  IN g[Len(ord)]

RestoreOutcomes(text, from) ==
  {RestoreInOrder(text, from, ord) : ord \in IterationOrders(DOMAIN from)}

-----------------------------------------------------------------------------
TMInit ==
  /\ counter = 0
  /\ toToken = [r \in Request |-> EmptyMap]
  /\ fromToken = [r \in Request |-> EmptyMap]

(* newTokenMap: a request arrives in slot r. *)
Begin(r) ==
  /\ toToken' = [toToken EXCEPT ![r] = EmptyMap]
  /\ fromToken' = [fromToken EXCEPT ![r] = EmptyMap]
  /\ UNCHANGED counter

(* Mutant: the id taken before the atomic increment (off by one). *)
RegisterPreIncrement(r, o) ==
  IF o \in DOMAIN toToken[r]
  THEN UNCHANGED tmVars
  ELSE /\ counter < MaxId
       /\ counter' = counter + 1
       /\ toToken' = [toToken EXCEPT ![r] = MapPut(@, o, counter)]
       /\ fromToken' = [fromToken EXCEPT ![r] = MapPut(@, counter, o)]

(* Mutant: the lookup of toToken left out, every call takes a fresh id. *)
RegisterAlwaysFresh(r, o) ==
  /\ counter < MaxId
  /\ counter' = counter + 1
  /\ toToken' = [toToken EXCEPT ![r] = MapPut(@, o, counter + 1)]
  /\ fromToken' = [fromToken EXCEPT ![r] = MapPut(@, counter + 1, o)]

(* Mutant: ids numbered per map instead of from the shared globalCounter. *)
RegisterPerRequest(r, o) ==
  IF o \in DOMAIN toToken[r]
  THEN UNCHANGED tmVars
  ELSE LET id == Cardinality(DOMAIN fromToken[r]) + 1
       IN /\ counter < MaxId
          /\ counter' = counter + 1
          /\ toToken' = [toToken EXCEPT ![r] = MapPut(@, o, id)]
          /\ fromToken' = [fromToken EXCEPT ![r] = MapPut(@, id, o)]

(* register(original): the existing id if o is known, else a fresh one    *)
(* from globalCounter.Add(1).                                             *)
Register(r, o) ==
  IF o \in DOMAIN toToken[r]
  THEN UNCHANGED tmVars
  ELSE /\ counter < MaxId
       /\ counter' = counter + 1
       /\ toToken' = [toToken EXCEPT ![r] = MapPut(@, o, counter + 1)]
       /\ fromToken' = [fromToken EXCEPT ![r] = MapPut(@, counter + 1, o)]

TMNext ==
  \/ \E r \in Request : Begin(r)
  \/ \E r \in Request, o \in Original : Register(r, o)

TMSpec == TMInit /\ [][TMNext]_tmVars

-----------------------------------------------------------------------------
IsFcn(f) == f = [x \in DOMAIN f |-> f[x]]

TMTypeOK ==
  /\ counter \in 0..MaxId
  /\ IsFcn(toToken) /\ DOMAIN toToken = Request
  /\ IsFcn(fromToken) /\ DOMAIN fromToken = Request
  /\ \A r \in Request :
       /\ DOMAIN toToken[r] \subseteq Original
       /\ toToken[r] \in [DOMAIN toToken[r] -> 1..MaxId]
       /\ DOMAIN fromToken[r] \subseteq 1..MaxId
       /\ fromToken[r] \in [DOMAIN fromToken[r] -> Original]

(* Stable mapping (spec, TokenMap invariants i and ii): the two maps of a *)
(* request are inverse to each other, so an original registered twice,  *)
(* in any message of the request, gets the same placeholder and every    *)
(* placeholder restores to the one value it stands for.                  *)
StableMapping ==
  \A r \in Request :
    /\ \A o \in DOMAIN toToken[r] :
         toToken[r][o] \in DOMAIN fromToken[r] /\ fromToken[r][toToken[r][o]] = o
    /\ \A n \in DOMAIN fromToken[r] :
         fromToken[r][n] \in DOMAIN toToken[r] /\ toToken[r][fromToken[r][n]] = n

(* Global uniqueness (spec, TokenMap): placeholders of two requests that  *)
(* run concurrently never coincide, and every id handed out is one the    *)
(* shared counter has already passed, so a later request never reuses it. *)
PlaceholdersUnique ==
  /\ \A r \in Request : DOMAIN fromToken[r] \subseteq 1..counter
  /\ \A r1, r2 \in Request :
       r1 # r2 => DOMAIN fromToken[r1] \cap DOMAIN fromToken[r2] = {}
=============================================================================
