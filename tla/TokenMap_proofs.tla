--------------------------- MODULE TokenMap_proofs ---------------------------
(***************************************************************************)
(* Proofs, for every set of requests, originals and every bound, that the *)
(* placeholder maps stay well typed, inverse to each other and disjoint   *)
(* across the requests served concurrently.                               *)
(*                                                                         *)
(* The invariants are not inductive one by one: that a fresh id counter+1 *)
(* is unused, in this map and in every other, needs PlaceholdersUnique's  *)
(* first conjunct (ids issued so far are at most counter); that the new   *)
(* entry keeps the maps inverse needs StableMapping for the old entries   *)
(* and TMTypeOK to know the maps are functions.  Their conjunction IInv   *)
(* is inductive.                                                          *)
(*                                                                         *)
(* Only the typing of the originals needs a registered value to be in    *)
(* Original.  CoreInv leaves it out, so its lemmas hold for a register   *)
(* of any value: the sanitizer, whose originals are slices of the text   *)
(* being redacted, uses them (Sanitize_proofs).                          *)
(***************************************************************************)
EXTENDS TokenMap, TLAPS

(* TMTypeOK without the typing of the originals. *)
MapsOK ==
  /\ counter \in 0..MaxId
  /\ IsFcn(toToken) /\ DOMAIN toToken = Request
  /\ IsFcn(fromToken) /\ DOMAIN fromToken = Request
  /\ \A r \in Request :
       /\ toToken[r] \in [DOMAIN toToken[r] -> 1..MaxId]
       /\ DOMAIN fromToken[r] \subseteq 1..MaxId
       /\ IsFcn(fromToken[r])

OriginalsTyped ==
  \A r \in Request :
    /\ DOMAIN toToken[r] \subseteq Original
    /\ fromToken[r] \in [DOMAIN fromToken[r] -> Original]

CoreInv == MapsOK /\ StableMapping /\ PlaceholdersUnique

IInv == CoreInv /\ OriginalsTyped

(* The type invariant is the two typing parts together. *)
LEMMA TypeSplit == TMTypeOK <=> MapsOK /\ OriginalsTyped
  BY DEF TMTypeOK, MapsOK, OriginalsTyped, IsFcn

(* No request has a placeholder when the process starts. *)
LEMMA InitIInv == TMInit => IInv
<1> SUFFICES ASSUME TMInit PROVE IInv
  OBVIOUS
<1>1. MapsOK /\ OriginalsTyped
  BY MaxIdAssumption DEF TMInit, MapsOK, OriginalsTyped, IsFcn, EmptyMap
<1>2. StableMapping
  BY DEF TMInit, StableMapping, EmptyMap
<1>3. PlaceholdersUnique
  BY DEF TMInit, PlaceholdersUnique, EmptyMap
<1>4. QED
  BY <1>1, <1>2, <1>3 DEF IInv, CoreInv

(* A step that leaves the maps and the counter alone keeps IInv. *)
LEMMA UnchangedIInv == IInv /\ UNCHANGED tmVars => IInv'
<1> SUFFICES ASSUME IInv, UNCHANGED tmVars PROVE IInv'
  OBVIOUS
<1>1. counter' = counter /\ toToken' = toToken /\ fromToken' = fromToken
  BY DEF tmVars
<1>2. QED
  BY <1>1 DEF IInv, CoreInv, MapsOK, OriginalsTyped, StableMapping, PlaceholdersUnique, IsFcn

(* A step that leaves the maps and the counter alone keeps CoreInv. *)
LEMMA UnchangedCore == CoreInv /\ UNCHANGED tmVars => CoreInv'
<1> SUFFICES ASSUME CoreInv, UNCHANGED tmVars PROVE CoreInv'
  OBVIOUS
<1>1. counter' = counter /\ toToken' = toToken /\ fromToken' = fromToken
  BY DEF tmVars
<1>2. QED
  BY <1>1 DEF CoreInv, MapsOK, StableMapping, PlaceholdersUnique, IsFcn

(* newTokenMap empties the maps of one slot and keeps the counter. *)
LEMMA BeginCore ==
  ASSUME CoreInv, NEW r \in Request, Begin(r)
  PROVE  CoreInv'
<1> USE DEF CoreInv
<1>1. MapsOK'
  BY DEF Begin, MapsOK, IsFcn, EmptyMap
<1>2. StableMapping'
  BY DEF Begin, StableMapping, MapsOK, EmptyMap
<1>3. PlaceholdersUnique'
  BY DEF Begin, PlaceholdersUnique, MapsOK, EmptyMap
<1>4. QED
  BY <1>1, <1>2, <1>3

(* The maps of a slot emptied by newTokenMap hold no original. *)
LEMMA BeginTyped ==
  ASSUME IInv, NEW r \in Request, Begin(r)
  PROVE  OriginalsTyped'
  BY DEF Begin, IInv, CoreInv, MapsOK, OriginalsTyped, EmptyMap

(* The effect of register on the maps when the original is new: the     *)
(* next id of the shared counter is bound to it in slot r, nothing else  *)
(* changes.                                                               *)
LEMMA RegisterFresh ==
  ASSUME CoreInv, NEW r \in Request, NEW o, Register(r, o), o \notin DOMAIN toToken[r]
  PROVE  LET id == counter + 1 IN
         /\ counter < MaxId /\ counter' = id /\ id \in 1..MaxId
         /\ \A s \in Request : id \notin DOMAIN fromToken[s]
         /\ IsFcn(toToken') /\ DOMAIN toToken' = Request
         /\ IsFcn(fromToken') /\ DOMAIN fromToken' = Request
         /\ \A s \in Request \ {r} : toToken'[s] = toToken[s] /\ fromToken'[s] = fromToken[s]
         /\ DOMAIN toToken'[r] = DOMAIN toToken[r] \cup {o}
         /\ toToken'[r][o] = id
         /\ \A x \in DOMAIN toToken[r] : toToken'[r][x] = toToken[r][x]
         /\ DOMAIN fromToken'[r] = DOMAIN fromToken[r] \cup {id}
         /\ fromToken'[r][id] = o
         /\ \A x \in DOMAIN fromToken[r] : fromToken'[r][x] = fromToken[r][x]
         /\ IsFcn(toToken'[r]) /\ IsFcn(fromToken'[r])
<1> USE DEF CoreInv
<1> DEFINE id == counter + 1
<1>1. /\ counter < MaxId
      /\ counter' = id
      /\ toToken' = [toToken EXCEPT ![r] = MapPut(toToken[r], o, id)]
      /\ fromToken' = [fromToken EXCEPT ![r] = MapPut(fromToken[r], id, o)]
  BY DEF Register
<1>2. \A s \in Request : id \notin DOMAIN fromToken[s]
  BY MaxIdAssumption DEF PlaceholdersUnique, MapsOK
<1>3. /\ toToken'[r] = MapPut(toToken[r], o, id)
      /\ fromToken'[r] = MapPut(fromToken[r], id, o)
      /\ \A s \in Request \ {r} : toToken'[s] = toToken[s] /\ fromToken'[s] = fromToken[s]
      /\ IsFcn(toToken') /\ DOMAIN toToken' = Request
      /\ IsFcn(fromToken') /\ DOMAIN fromToken' = Request
  BY <1>1 DEF MapsOK, IsFcn
<1>4. /\ DOMAIN MapPut(toToken[r], o, id) = DOMAIN toToken[r] \cup {o}
      /\ MapPut(toToken[r], o, id)[o] = id
      /\ \A x \in DOMAIN toToken[r] : x # o => MapPut(toToken[r], o, id)[x] = toToken[r][x]
      /\ DOMAIN MapPut(fromToken[r], id, o) = DOMAIN fromToken[r] \cup {id}
      /\ MapPut(fromToken[r], id, o)[id] = o
      /\ \A x \in DOMAIN fromToken[r] : x # id => MapPut(fromToken[r], id, o)[x] = fromToken[r][x]
      /\ IsFcn(MapPut(toToken[r], o, id)) /\ IsFcn(MapPut(fromToken[r], id, o))
  BY DEF MapPut, IsFcn
<1>5. id \in 1..MaxId
  BY <1>1, MaxIdAssumption DEF MapsOK
<1>6. QED
  BY <1>1, <1>2, <1>3, <1>4, <1>5

(* register either finds the original or takes the next id of the shared *)
(* counter, which no map of any request holds yet; whatever the value.   *)
LEMMA RegisterCore ==
  ASSUME CoreInv, NEW r \in Request, NEW o, Register(r, o)
  PROVE  CoreInv'
<1>1. CASE o \in DOMAIN toToken[r]
  <2>1. UNCHANGED tmVars
    BY <1>1 DEF Register
  <2>2. QED
    BY <2>1 DEF tmVars, CoreInv, MapsOK, StableMapping, PlaceholdersUnique, IsFcn
<1>2. CASE o \notin DOMAIN toToken[r]
  <2> DEFINE id == counter + 1
  <2>1. /\ counter < MaxId /\ counter' = id /\ id \in 1..MaxId
        /\ \A s \in Request : id \notin DOMAIN fromToken[s]
        /\ IsFcn(toToken') /\ DOMAIN toToken' = Request
        /\ IsFcn(fromToken') /\ DOMAIN fromToken' = Request
        /\ \A s \in Request \ {r} : toToken'[s] = toToken[s] /\ fromToken'[s] = fromToken[s]
        /\ DOMAIN toToken'[r] = DOMAIN toToken[r] \cup {o}
        /\ toToken'[r][o] = id
        /\ \A x \in DOMAIN toToken[r] : toToken'[r][x] = toToken[r][x]
        /\ DOMAIN fromToken'[r] = DOMAIN fromToken[r] \cup {id}
        /\ fromToken'[r][id] = o
        /\ \A x \in DOMAIN fromToken[r] : fromToken'[r][x] = fromToken[r][x]
        /\ IsFcn(toToken'[r]) /\ IsFcn(fromToken'[r])
    BY <1>2, RegisterFresh
  <2>2. MapsOK'
    <3>1. toToken'[r] \in [DOMAIN toToken'[r] -> 1..MaxId]
          /\ DOMAIN fromToken'[r] \subseteq 1..MaxId
      BY <2>1 DEF CoreInv, MapsOK, IsFcn
    <3>2. QED
      BY <2>1, <3>1 DEF CoreInv, MapsOK
  <2>3. StableMapping'
    <3>1. \A n \in DOMAIN fromToken[r] : fromToken[r][n] # o
      BY <1>2 DEF CoreInv, StableMapping
    <3>2. \A x \in DOMAIN toToken[r] : toToken[r][x] # id
      BY <2>1 DEF CoreInv, StableMapping
    <3>3. QED
      BY <2>1, <3>1, <3>2 DEF CoreInv, StableMapping
  <2>4. PlaceholdersUnique'
    BY <2>1 DEF CoreInv, PlaceholdersUnique, MapsOK
  <2>5. QED
    BY <2>2, <2>3, <2>4 DEF CoreInv
<1>3. QED
  BY <1>1, <1>2

(* A registered original of Original keeps the originals typed. *)
LEMMA RegisterTyped ==
  ASSUME IInv, NEW r \in Request, NEW o \in Original, Register(r, o)
  PROVE  OriginalsTyped'
<1>1. CASE o \in DOMAIN toToken[r]
  <2>1. toToken' = toToken /\ fromToken' = fromToken
    BY <1>1 DEF Register, tmVars
  <2>2. QED
    BY <2>1 DEF IInv, OriginalsTyped
<1>2. CASE o \notin DOMAIN toToken[r]
  <2>1. /\ \A s \in Request \ {r} : toToken'[s] = toToken[s] /\ fromToken'[s] = fromToken[s]
        /\ DOMAIN toToken'[r] = DOMAIN toToken[r] \cup {o}
        /\ DOMAIN fromToken'[r] = DOMAIN fromToken[r] \cup {counter + 1}
        /\ fromToken'[r][counter + 1] = o
        /\ \A x \in DOMAIN fromToken[r] : fromToken'[r][x] = fromToken[r][x]
        /\ IsFcn(fromToken'[r])
    BY <1>2, RegisterFresh DEF IInv
  <2>2. QED
    BY <2>1 DEF IInv, OriginalsTyped, IsFcn
<1>3. QED
  BY <1>1, <1>2

(* Every step of the maps, newTokenMap or register, keeps IInv. *)
LEMMA NextIInv == IInv /\ [TMNext]_tmVars => IInv'
<1> SUFFICES ASSUME IInv, [TMNext]_tmVars PROVE IInv'
  OBVIOUS
<1>1. CASE \E r \in Request : Begin(r)
  BY <1>1, BeginCore, BeginTyped DEF IInv
<1>2. CASE \E r \in Request, o \in Original : Register(r, o)
  BY <1>2, RegisterCore, RegisterTyped DEF IInv
<1>3. CASE UNCHANGED tmVars
  BY <1>3, UnchangedIInv
<1>4. QED
  BY <1>1, <1>2, <1>3 DEF TMNext

(* IInv holds in every state the requests can reach. *)
LEMMA IInvHolds == TMSpec => []IInv
  BY InitIInv, NextIInv, PTL DEF TMSpec

(* The maps of every request are well typed in every reachable state. *)
THEOREM TypeCorrect == TMSpec => []TMTypeOK
  <1>1. IInv => TMTypeOK
    BY TypeSplit DEF IInv, CoreInv
  <1>2. QED
    BY <1>1, IInvHolds, PTL

(* register keeps the two maps of every request inverse to each other:  *)
(* an original registered twice in a request gets the same placeholder.  *)
THEOREM StableMappingHolds == TMSpec => []StableMapping
  BY IInvHolds, PTL DEF IInv, CoreInv

(* Ids taken from globalCounter never coincide across the maps of the    *)
(* requests served concurrently, and never exceed the counter.           *)
THEOREM PlaceholdersUniqueHolds == TMSpec => []PlaceholdersUnique
  BY IInvHolds, PTL DEF IInv, CoreInv
=============================================================================
