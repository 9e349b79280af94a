------------------------- MODULE CoherentMemoryProofs -------------------------
(***************************************************************************)
(* CoherentMemory keeps what its name says: permission to write excludes   *)
(* every other permission.                                                 *)
(***************************************************************************)
EXTENDS CoherentMemory, TLAPS

MemoryInv == MemoryTypeOK /\ Exclusive

\* Permissions change by one entry.
LEMMA PermissionWritten ==
  ASSUME permission \in [Cores -> [Lines -> Permissions]],
         NEW c \in Cores, NEW a \in Lines, NEW p \in Permissions,
         permission' = [permission EXCEPT ![c][a] = p]
  PROVE  /\ permission' \in [Cores -> [Lines -> Permissions]]
         /\ \A o \in Cores, b \in Lines :
              permission'[o][b] = IF o = c /\ b = a THEN p ELSE permission[o][b]
OBVIOUS

\* Giving up permission, or gaining as much as the others leave room for, keeps
\* permissions exclusive.
LEMMA ExclusiveKept ==
  ASSUME permission \in [Cores -> [Lines -> Permissions]], Exclusive,
         NEW c \in Cores, NEW a \in Lines, NEW p \in Permissions,
         permission' = [permission EXCEPT ![c][a] = p],
         p = "M" => \A o \in Cores \ {c} : permission[o][a] = "I",
         p # "I" => \A o \in Cores \ {c} : permission[o][a] # "M"
  PROVE  permission' \in [Cores -> [Lines -> Permissions]] /\ Exclusive'
<1>1. /\ permission' \in [Cores -> [Lines -> Permissions]]
      /\ \A o \in Cores, b \in Lines :
           permission'[o][b] = IF o = c /\ b = a THEN p ELSE permission[o][b]
  BY PermissionWritten
<1>2. Exclusive'
  BY <1>1 DEF Exclusive
<1> QED
  BY <1>1, <1>2

\* A pending request names a line.
LEMMA RequestLine ==
  ASSUME MemoryTypeOK, NEW c \in Cores, request[c] # None
  PROVE  /\ request[c].line \in Lines
         /\ request[c].op = "ST" => request[c].data \in Values
BY DEF MemoryTypeOK, Requests

\* Each action keeps the invariant.
LEMMA CoreActionInv ==
  ASSUME MemoryInv, NEW c \in Cores, CoreAction(c)
  PROVE  MemoryInv'
<1> USE DEF MemoryInv, Answer
<1>1. CASE \E r \in Requests : Ask(c, r)
  <2>1. PICK r \in Requests : Ask(c, r)
    BY <1>1
  <2>2. permission' \in [Cores -> [Lines -> Permissions]] /\ Exclusive'
    <3>1. CASE UNCHANGED permission
      BY <3>1 DEF MemoryTypeOK, Exclusive
    <3>2. CASE \E a \in Lines : permission' = [permission EXCEPT ![c][a] = "I"]
      BY <3>2, ExclusiveKept DEF MemoryTypeOK, Permissions
    <3> QED
      BY <2>1, <3>1, <3>2 DEF Ask
  <2> QED
    BY <2>1, <2>2 DEF Ask, MemoryTypeOK
<1>2. CASE \E a \in Lines, v \in Anything : LoadHit(c, a, v)
  BY <1>2 DEF LoadHit, MemoryTypeOK, Exclusive
<1>3. CASE \E a \in Lines : StoreHit(c, a)
  BY <1>3 DEF StoreHit, MemoryTypeOK, Exclusive
<1>4. CASE \E v \in current[c], p \in {"I", "S"} : FinishLoad(c, v, p)
  <2>1. PICK v \in current[c], p \in {"I", "S"} : FinishLoad(c, v, p)
    BY <1>4
  <2>2. request[c] # None /\ request[c].line \in Lines /\ p \in Permissions
    BY <2>1, RequestLine DEF FinishLoad, Permissions
  <2>3. permission' \in [Cores -> [Lines -> Permissions]] /\ Exclusive'
    BY <2>1, <2>2, ExclusiveKept DEF FinishLoad, MemoryTypeOK
  <2> QED
    BY <2>1, <2>3 DEF FinishLoad, MemoryTypeOK
<1>5. CASE \E p \in Permissions : FinishStore(c, p)
  <2>1. PICK p \in Permissions : FinishStore(c, p)
    BY <1>5
  <2>2. /\ request[c] # None /\ request[c].line \in Lines
        /\ request[c].data \in Values
    BY <2>1, RequestLine DEF FinishStore
  <2>3. permission' \in [Cores -> [Lines -> Permissions]] /\ Exclusive'
    BY <2>1, <2>2, ExclusiveKept DEF FinishStore, MemoryTypeOK
  <2>4. /\ value' \in [Lines -> Values]
        /\ request' \in [Cores -> Requests \cup {None}]
    BY <2>1, <2>2 DEF FinishStore, MemoryTypeOK
  <2> QED
    BY <2>3, <2>4 DEF MemoryTypeOK
<1>6. CASE \E a \in Lines, p \in {"I", "S"} : Yield(c, a, p)
  <2>1. PICK a \in Lines, p \in {"I", "S"} : Yield(c, a, p)
    BY <1>6
  <2>2. /\ p \in Permissions /\ p # "M"
        /\ p # "I" => permission[c][a] = "M"
    BY <2>1 DEF Yield, Permissions
  <2>3. p # "I" => \A o \in Cores \ {c} : permission[o][a] # "M"
    BY <2>2 DEF Exclusive
  <2>4. permission' \in [Cores -> [Lines -> Permissions]] /\ Exclusive'
    BY <2>1, <2>2, <2>3, ExclusiveKept DEF Yield, MemoryTypeOK
  <2> QED
    BY <2>1, <2>4 DEF Yield, MemoryTypeOK
<1> QED
  BY <1>1, <1>2, <1>3, <1>4, <1>5, <1>6 DEF CoreAction

\* Initially and in every step.
THEOREM MemoryInvariant == ASSUME ZeroValue \in Values PROVE Spec => []MemoryInv
<1>1. Init => MemoryInv
  BY DEF Init, MemoryInv, MemoryTypeOK, Exclusive, Permissions
<1>2. MemoryInv /\ [Next]_memory => MemoryInv'
  <2> SUFFICES ASSUME MemoryInv, [Next]_memory
               PROVE  MemoryInv'
    OBVIOUS
  <2>1. CASE Next
    <3>1. CASE Spoil
      BY <3>1 DEF Spoil, MemoryInv, MemoryTypeOK, Exclusive
    <3> QED
      BY <2>1, <3>1, CoreActionInv DEF Next
  <2>2. CASE UNCHANGED memory
    BY <2>2 DEF memory, MemoryInv, MemoryTypeOK, Exclusive
  <2> QED
    BY <2>1, <2>2
<1> QED
  BY <1>1, <1>2, PTL DEF Spec

\* Whatever implements CoherentMemory has one writer or many readers.
THEOREM MemoryExclusive == ASSUME ZeroValue \in Values PROVE Spec => []Exclusive
BY MemoryInvariant, PTL DEF MemoryInv
=============================================================================
