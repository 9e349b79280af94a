----------------------------- MODULE DittyProofs ------------------------------
(***************************************************************************)
(* Inv is an invariant of the whole system, for every number of cores,     *)
(* lines, values and ways, under any of the timing assumptions.  The steps *)
(* of a private cache preserve CacheInv, those of the LLC LLCInv, and both *)
(* the types of the messages, which is all either assumes of the other.    *)
(***************************************************************************)
EXTENDS Ditty, FiniteSetTheorems, SequenceTheorems, TLAPS

-----------------------------------------------------------------------------
(* The steps of a private cache.                                           *)

\* A Data message built from typed parts is a response.
LEMMA DataMessageType ==
  ASSUME NEW a \in Lines, NEW src \in Nodes, NEW dst \in Nodes,
         NEW acks \in Int, NEW d \in Data
  PROVE  DataMessage(a, src, dst, acks, d) \in Response
BY DEF DataMessage, Response

\* An Ack built from typed parts is a response.
LEMMA AckMessageType ==
  ASSUME NEW a \in Lines, NEW src \in Nodes, NEW dst \in Nodes,
         NEW sharer \in Nodes
  PROVE  AckMessage(a, src, dst, sharer) \in Response
BY DEF AckMessage, Response, Data

\* A RespOk built from typed parts is a response.
LEMMA RespOkMessageType ==
  ASSUME NEW a \in Lines, NEW src \in Nodes, NEW dst \in Nodes
  PROVE  RespOkMessage(a, src, dst) \in Response
BY DEF RespOkMessage, Response, Data, Nodes

\* What the invariant says of one core.
LEMMA CoreFacts ==
  ASSUME CacheInv, NEW c \in Cores
  PROVE  /\ tag[c] \in [Lines -> StableStates]
         /\ data[c] \in [Lines -> Data]
         /\ pr[c] \in PendingRequest \cup {None}
         /\ mshr[c] \in Load \cup Store \cup {None}
         /\ (mshr[c] = None) <=> (pr[c] = None)
         /\ mshr[c] # None =>
              /\ mshr[c].line = pr[c].line
              /\ (mshr[c].op = "LD") <=> (pr[c].st \in {"IS_D", "IS_DI"})
         /\ pr[c] # None => tag[c][pr[c].line] = "I"
         /\ pr[c] # None /\ pr[c].st \in OwesForward => pr[c].fwdDest \in Nodes
<1>1. CacheTypeOK /\ HitExclusive /\ MshrMatchesPr /\ ForwardeeKnown
  BY DEF CacheInv
<1>2. pr[c] \in PendingRequest \cup {None}
  BY <1>1 DEF CacheTypeOK
<1>3. pr[c] # None => tag[c][pr[c].line] = "I"
  BY <1>1, <1>2 DEF HitExclusive, Hit, HitPr, PendingRequest
<1> QED
  BY <1>1, <1>2, <1>3 DEF CacheTypeOK, MshrMatchesPr, ForwardeeKnown

\* The state of a line in a core: a stable one only in the tag array, a
\* transient one only in PR.
LEMMA StateCases ==
  ASSUME CacheInv, NEW c \in Cores, NEW a \in Lines
  PROVE  /\ State(c, a) \in {"S", "M"} => State(c, a) = tag[c][a]
         /\ State(c, a) \in TransientStates =>
              /\ pr[c] \in PendingRequest
              /\ pr[c] # None
              /\ pr[c].line = a
              /\ pr[c].st = State(c, a)
              /\ tag[c][a] = "I"
<1>1. tag[c][a] \in StableStates /\ pr[c] \in PendingRequest \cup {None}
  BY CoreFacts
<1>2. StableStates \cap TransientStates = {}
  BY DEF StableStates, TransientStates, AwaitingData, AwaitingAcks
<1>3. pr[c] # None => pr[c].st \in TransientStates
  BY <1>1 DEF PendingRequest
<1>4. "I" \in StableStates
  BY DEF StableStates
<1>5. CASE Hit(c, a)
  BY <1>1, <1>2, <1>5 DEF State
<1>6. CASE ~Hit(c, a) /\ HitPr(c, a)
  BY <1>1, <1>2, <1>3, <1>4, <1>6 DEF State, Hit, HitPr, StableStates
<1>7. CASE ~Hit(c, a) /\ ~HitPr(c, a)
  BY <1>2, <1>4, <1>7 DEF State
<1> QED
  BY <1>5, <1>6, <1>7

\* The lines a core holds can be counted.
LEMMA HeldFinite ==
  ASSUME NEW c \in Cores
  PROVE  /\ IsFiniteSet(Held(c))
         /\ Cardinality(Held(c)) \in Nat
<1>1. Held(c) \in SUBSET Lines
  BY DEF Held
<1> QED
  BY <1>1, ConstantsAssumption, FS_Subset, FS_CardinalityType

\* A step of core c writes no other core's tags, and well-typed contents.
ArraysOf(c) ==
  /\ tag' \in [Cores -> [Lines -> StableStates]]
  /\ data' \in [Cores -> [Lines -> Data]]
  /\ \A o \in Cores \ {c} : tag'[o] = tag[o]

\* A step of core c that leaves its own slots consistent and touches nobody
\* else's preserves the invariant.
LEMMA CoreUpdate ==
  ASSUME CacheInv, NEW c \in Cores,
         NEW p \in PendingRequest \cup {None},
         NEW q \in Load \cup Store \cup {None},
         ArraysOf(c),
         pr' = [pr EXCEPT ![c] = p],
         mshr' = [mshr EXCEPT ![c] = q],
         latest' \in [Lines -> Values],
         toCore' \in [Cores -> Data \cup {None}],
         (q = None) <=> (p = None),
         q # None => /\ q.line = p.line
                     /\ (q.op = "LD") <=> (p.st \in {"IS_D", "IS_DI"}),
         p # None => tag'[c][p.line] = "I",
         p # None /\ p.st \in OwesForward => p.fwdDest \in Nodes,
         Cardinality(Held(c)') + (IF p = None THEN 0 ELSE 1) <= Ways
  PROVE  CacheInv'
<1>1. CacheTypeOK /\ HitExclusive /\ WaysFit /\ MshrMatchesPr /\ ForwardeeKnown
  BY DEF CacheInv
<1>2. \A o \in Cores : /\ pr'[o] = IF o = c THEN p ELSE pr[o]
                       /\ mshr'[o] = IF o = c THEN q ELSE mshr[o]
  BY <1>1 DEF CacheTypeOK
<1>3. CacheTypeOK'
  BY <1>1 DEF CacheTypeOK, ArraysOf
<1>4. HitExclusive'
  BY <1>1, <1>2 DEF ArraysOf, HitExclusive, Hit, HitPr
<1>5. WaysFit'
  <2>1. \A o \in Cores \ {c} : Held(o)' = Held(o)
    BY DEF ArraysOf, Held, Hit
  <2> QED
    BY <1>1, <1>2, <2>1 DEF WaysFit
<1>6. MshrMatchesPr'
  BY <1>1, <1>2 DEF MshrMatchesPr
<1>7. ForwardeeKnown'
  BY <1>1, <1>2 DEF ForwardeeKnown
<1> QED
  BY <1>3, <1>4, <1>5, <1>6, <1>7 DEF CacheInv

\* What writing one tag does to the ways in use.
LEMMA TagWritten ==
  ASSUME CacheInv, NEW c \in Cores, NEW a \in Lines, NEW s \in StableStates,
         tag' = [tag EXCEPT ![c][a] = s]
  PROVE  /\ tag' \in [Cores -> [Lines -> StableStates]]
         /\ \A o \in Cores \ {c} : tag'[o] = tag[o]
         /\ tag'[c][a] = s
         /\ \A b \in Lines \ {a} : tag'[c][b] = tag[c][b]
         /\ Cardinality(Held(c)') \in Nat
         /\ Cardinality(Held(c)') <= Cardinality(Held(c)) + 1
         /\ s = "I" \/ Hit(c, a) => Cardinality(Held(c)') <= Cardinality(Held(c))
         /\ s = "I" /\ Hit(c, a) => Cardinality(Held(c)') = Cardinality(Held(c)) - 1
<1>1. tag \in [Cores -> [Lines -> StableStates]]
  BY DEF CacheInv, CacheTypeOK
<1>2. /\ tag' \in [Cores -> [Lines -> StableStates]]
      /\ \A o \in Cores \ {c} : tag'[o] = tag[o]
      /\ tag'[c][a] = s
      /\ \A b \in Lines \ {a} : tag'[c][b] = tag[c][b]
  BY <1>1
<1>3. Held(c)' = IF s = "I" THEN Held(c) \ {a} ELSE Held(c) \cup {a}
  BY <1>2 DEF Held, Hit
<1>4. a \in Held(c) <=> Hit(c, a)
  BY DEF Held
<1>5. IsFiniteSet(Held(c)) /\ Cardinality(Held(c)) \in Nat
  BY HeldFinite
<1>6. CASE s = "I"
  <2>1. /\ IsFiniteSet(Held(c) \ {a})
        /\ Cardinality(Held(c) \ {a}) =
             IF a \in Held(c) THEN Cardinality(Held(c)) - 1
                              ELSE Cardinality(Held(c))
    BY <1>5, FS_RemoveElement
  <2>2. Cardinality(Held(c) \ {a}) \in Nat
    BY <2>1, FS_CardinalityType
  <2> QED
    BY <1>2, <1>3, <1>4, <1>5, <1>6, <2>1, <2>2
<1>7. CASE s # "I"
  <2>1. /\ IsFiniteSet(Held(c) \cup {a})
        /\ Cardinality(Held(c) \cup {a}) =
             IF a \in Held(c) THEN Cardinality(Held(c))
                              ELSE Cardinality(Held(c)) + 1
    BY <1>5, FS_AddElement
  <2> QED
    BY <1>2, <1>3, <1>4, <1>5, <1>7, <2>1
<1> QED
  BY <1>6, <1>7

\* The ways in use before the step, pending line included.
LEMMA WaysBefore ==
  ASSUME CacheInv, NEW c \in Cores
  PROVE  /\ Ways \in Nat
         /\ Cardinality(Held(c)) \in Nat
         /\ Cardinality(Held(c)) <= Ways
         /\ pr[c] # None => Cardinality(Held(c)) + 1 <= Ways
BY CacheAssumption, HeldFinite DEF CacheInv, WaysFit

\* Writing one line of one core's data array keeps its type.
LEMMA DataWritten ==
  ASSUME CacheInv, NEW c \in Cores, NEW a \in Lines, NEW d \in Data,
         data' = [data EXCEPT ![c][a] = d]
  PROVE  data' \in [Cores -> [Lines -> Data]]
BY DEF CacheInv, CacheTypeOK

\* A request that is not None.
LEMMA NotNone ==
  /\ \A p \in PendingRequest : p # None
  /\ \A q \in Load \cup Store : q # None
BY NoneIsNoRequest

-----------------------------------------------------------------------------
(* Core requests.                                                          *)

\* Issuing a request for a line that is not (or no longer) in the tag array.
LEMMA IssueInv ==
  ASSUME InterconnectTypeOK, CacheInv, NEW c \in Cores, NEW a \in Lines,
         NEW op, NEW d, [op |-> op, line |-> a, data |-> d] \in Load \cup Store,
         NEW st \in {"IS_D", "IM_AD", "SM_AD"}, (op = "LD") <=> (st = "IS_D"),
         NEW type \in {"GetS", "GetM"},
         NEW victim, victim \in Lines \cup {None},
         Issue(c, a, op, d, st, type, victim),
         ArraysOf(c),
         tag'[c][a] = "I",
         Cardinality(Held(c)') + 1 <= Ways,
         wb' \subseteq Writeback,
         UNCHANGED <<fwd, rsp, latest>>
  PROVE  InterconnectTypeOK' /\ CacheInv'
<1> DEFINE p == [line |-> a, st |-> st, acks |-> 0, total |-> 0,
                 dataValid |-> FALSE, fwdDest |-> None]
           q == [op |-> op, line |-> a, data |-> d]
           r == [type |-> type, addr |-> a, src |-> c, victim |-> victim]
<1>1. /\ pr' = [pr EXCEPT ![c] = p]
      /\ mshr' = [mshr EXCEPT ![c] = q]
      /\ req' = req \cup {r}
      /\ toCore' = [toCore EXCEPT ![c] = None]
  BY DEF Issue
<1>2. /\ p \in PendingRequest /\ p.line = a /\ p.st = st
      /\ p.st \notin OwesForward
  BY DEF PendingRequest, TransientStates, AwaitingData, OwesForward
<1>3. q \in Load \cup Store /\ q.line = a /\ q.op = op
  OBVIOUS
<1>4. r \in Request
  BY DEF Request
<1>5. InterconnectTypeOK'
  BY <1>1, <1>4 DEF InterconnectTypeOK
<1>6. /\ latest' \in [Lines -> Values]
      /\ toCore' \in [Cores -> Data \cup {None}]
  BY <1>1 DEF CacheInv, CacheTypeOK
<1> HIDE DEF p, q, r
<1>7. p # None /\ q # None
  BY <1>2, <1>3, NotNone
<1>8. CacheInv'
  BY <1>1, <1>2, <1>3, <1>6, <1>7, CoreUpdate
<1> QED
  BY <1>5, <1>8

\* A load or store miss, with or without a victim.
LEMMA MissInv ==
  ASSUME InterconnectTypeOK, CacheInv, NEW c \in Cores, NEW a \in Lines,
         NEW op, NEW d, [op |-> op, line |-> a, data |-> d] \in Load \cup Store,
         NEW st \in {"IS_D", "IM_AD"}, (op = "LD") <=> (st = "IS_D"),
         NEW type \in {"GetS", "GetM"},
         Miss(c, a, op, d, st, type)
  PROVE  InterconnectTypeOK' /\ CacheInv'
<1>1. /\ tag[c][a] = "I"
      /\ UNCHANGED <<fwd, rsp, latest>>
  BY DEF Miss, Hit
<1>2. CASE /\ HasVacant(c)
           /\ Issue(c, a, op, d, st, type, None)
           /\ UNCHANGED <<wb, tag, data>>
  <2>1. ArraysOf(c)
    BY <1>2 DEF ArraysOf, CacheInv, CacheTypeOK
  <2>2. Held(c)' = Held(c)
    BY <1>2 DEF Held, Hit
  <2>3. Cardinality(Held(c)') + 1 <= Ways
    BY <1>2, <2>2, WaysBefore DEF HasVacant
  <2>4. wb' \subseteq Writeback
    BY <1>2 DEF InterconnectTypeOK
  <2> QED
    BY <1>1, <1>2, <2>1, <2>3, <2>4, IssueInv
<1>3. CASE \E v \in Held(c) : Evict(c, v) /\ Issue(c, a, op, d, st, type, v)
  <2>1. PICK v \in Lines : /\ Hit(c, v)
                          /\ Evict(c, v)
                          /\ Issue(c, a, op, d, st, type, v)
    BY <1>3 DEF Held
  <2>2. v \in Lines /\ Hit(c, v) /\ v # a
    BY <1>1, <2>1 DEF Hit
  <2>3. /\ tag' = [tag EXCEPT ![c][v] = "I"]
        /\ data' = [data EXCEPT ![c][v] = Garbage]
        /\ wb' = wb \cup {[type |-> VictimPut(c, v), addr |-> v, src |-> c,
                           data |-> data[c][v]]}
    BY <2>1 DEF Evict
  <2>4. /\ tag' \in [Cores -> [Lines -> StableStates]]
        /\ \A o \in Cores \ {c} : tag'[o] = tag[o]
        /\ tag'[c][a] = "I"
        /\ Cardinality(Held(c)') \in Nat
        /\ Cardinality(Held(c)') = Cardinality(Held(c)) - 1
    <3>1. "I" \in StableStates
      BY DEF StableStates
    <3>2. /\ tag' \in [Cores -> [Lines -> StableStates]]
          /\ \A o \in Cores \ {c} : tag'[o] = tag[o]
          /\ \A b \in Lines \ {v} : tag'[c][b] = tag[c][b]
          /\ Cardinality(Held(c)') \in Nat
          /\ Cardinality(Held(c)') = Cardinality(Held(c)) - 1
      BY <2>2, <2>3, <3>1, TagWritten
    <3> QED
      BY <1>1, <2>2, <3>2
  <2>5. Cardinality(Held(c)') + 1 <= Ways
    BY <2>4, WaysBefore
  <2>6. ArraysOf(c)
    <3>1. data' \in [Cores -> [Lines -> Data]]
      BY <2>2, <2>3, DataWritten DEF Data
    <3> QED
      BY <2>4, <3>1 DEF ArraysOf
  <2>7. wb' \subseteq Writeback
    <3>1. data[c][v] \in Data
      BY <2>2 DEF CacheInv, CacheTypeOK
    <3>2. VictimPut(c, v) \in {"PutS", "PutM"}
      BY DEF VictimPut
    <3> QED
      BY <2>2, <2>3, <3>1, <3>2 DEF InterconnectTypeOK, Writeback
  <2> QED
    BY <1>1, <2>1, <2>2, <2>4, <2>5, <2>6, <2>7, IssueInv
<1> QED
  BY <1>2, <1>3 DEF Miss

\* A store to a shared line moves it from the tag array to PR.
LEMMA StoreSharedInv ==
  ASSUME InterconnectTypeOK, CacheInv, NEW c \in Cores, NEW a \in Lines,
         NEW d \in Values, StoreShared(c, a, d)
  PROVE  InterconnectTypeOK' /\ CacheInv'
<1>1. /\ Hit(c, a)
      /\ Issue(c, a, "ST", d, "SM_AD", "GetM", None)
      /\ tag' = [tag EXCEPT ![c][a] = "I"]
      /\ data' = [data EXCEPT ![c][a] = Garbage]
      /\ UNCHANGED <<wb, fwd, rsp, latest>>
  BY DEF StoreShared, Migrate, Hit
<1>2. /\ tag' \in [Cores -> [Lines -> StableStates]]
      /\ \A o \in Cores \ {c} : tag'[o] = tag[o]
      /\ tag'[c][a] = "I"
      /\ Cardinality(Held(c)') \in Nat
      /\ Cardinality(Held(c)') = Cardinality(Held(c)) - 1
  BY <1>1, TagWritten DEF StableStates
<1>3. Cardinality(Held(c)') + 1 <= Ways
  BY <1>2, WaysBefore
<1>4. ArraysOf(c)
  <2>1. data' \in [Cores -> [Lines -> Data]]
    BY <1>1, DataWritten DEF Data
  <2> QED
    BY <1>2, <2>1 DEF ArraysOf
<1>5. [op |-> "ST", line |-> a, data |-> d] \in Load \cup Store
  BY DEF Store
<1>6. wb' \subseteq Writeback
  BY <1>1 DEF InterconnectTypeOK
<1> QED
  BY <1>1, <1>2, <1>3, <1>4, <1>5, <1>6, IssueInv

\* A request answered at once: a load of a held line, a store to a modified one.
LEMMA HitInv ==
  ASSUME InterconnectTypeOK, CacheInv, NEW c \in Cores, NEW a \in Lines,
         LoadHit(c, a) \/ \E d \in Values : StoreHit(c, a, d)
  PROVE  InterconnectTypeOK' /\ CacheInv'
<1>1. UNCHANGED <<networks, tag, data, pr, mshr, latest>>
  BY DEF LoadHit, StoreHit
<1>2. toCore' \in [Cores -> Data \cup {None}]
  <2>1. toCore \in [Cores -> Data \cup {None}]
    BY DEF CacheInv, CacheTypeOK
  <2>2. StoreDone \in Data /\ data[c][a] \in Data
    BY CoreFacts DEF StoreDone, Data
  <2>3. CASE LoadHit(c, a)
    BY <2>1, <2>2, <2>3 DEF LoadHit
  <2>4. CASE \E d \in Values : StoreHit(c, a, d)
    <3>1. PICK d \in Values : StoreHit(c, a, d)
      BY <2>4
    <3> HIDE DEF StoreDone
    <3> QED
      BY <2>1, <2>2, <3>1 DEF StoreHit
  <2> QED
    BY <2>3, <2>4
<1>3. InterconnectTypeOK'
  BY <1>1 DEF networks, InterconnectTypeOK
<1>4. CacheInv'
  BY <1>1, <1>2 DEF CacheInv, CacheTypeOK, HitExclusive, Hit, HitPr, WaysFit,
                    Held, MshrMatchesPr, ForwardeeKnown
<1> QED
  BY <1>3, <1>4

\* Every core request.
LEMMA CoreStepInv ==
  ASSUME InterconnectTypeOK, CacheInv, NEW c \in Cores, CoreStep(c)
  PROVE  InterconnectTypeOK' /\ CacheInv'
<1>1. \A a \in Lines : LoadMiss(c, a) => InterconnectTypeOK' /\ CacheInv'
  <2> SUFFICES ASSUME NEW a \in Lines, LoadMiss(c, a)
               PROVE  InterconnectTypeOK' /\ CacheInv'
    OBVIOUS
  <2>1. [op |-> "LD", line |-> a, data |-> Garbage] \in Load \cup Store
    BY DEF Load
  <2> QED
    BY <2>1, MissInv DEF LoadMiss
<1>2. \A a \in Lines, d \in Values :
        StoreMiss(c, a, d) => InterconnectTypeOK' /\ CacheInv'
  <2> SUFFICES ASSUME NEW a \in Lines, NEW d \in Values, StoreMiss(c, a, d)
               PROVE  InterconnectTypeOK' /\ CacheInv'
    OBVIOUS
  <2>1. [op |-> "ST", line |-> a, data |-> d] \in Load \cup Store
    BY DEF Store
  <2> QED
    BY <2>1, MissInv DEF StoreMiss
<1> QED
  BY <1>1, <1>2, StoreSharedInv, HitInv DEF CoreStep

-----------------------------------------------------------------------------
(* The parts of a forward or response step.                                *)

\* A stable line's tag changes, or the line goes.
LEMMA TagUpdate ==
  ASSUME CacheInv, NEW c \in Cores, NEW a \in Lines, NEW s \in StableStates,
         Hit(c, a), SetTag(c, a, s),
         UNCHANGED <<mshr, latest, toCore>>
  PROVE  CacheInv'
<1> DEFINE p == pr[c]
           q == mshr[c]
           d == IF s = "I" THEN Garbage ELSE data[c][a]
<1>1. /\ tag' = [tag EXCEPT ![c][a] = s]
      /\ data' = [data EXCEPT ![c][a] = d]
      /\ UNCHANGED pr
  BY DEF SetTag, CacheInv, CacheTypeOK
<1>2. /\ p \in PendingRequest \cup {None} /\ q \in Load \cup Store \cup {None}
      /\ (q = None) <=> (p = None)
      /\ q # None => /\ q.line = p.line
                     /\ (q.op = "LD") <=> (p.st \in {"IS_D", "IS_DI"})
      /\ p # None => tag[c][p.line] = "I"
      /\ p # None /\ p.st \in OwesForward => p.fwdDest \in Nodes
  BY CoreFacts
<1>3. /\ tag' \in [Cores -> [Lines -> StableStates]]
      /\ \A o \in Cores \ {c} : tag'[o] = tag[o]
      /\ \A b \in Lines \ {a} : tag'[c][b] = tag[c][b]
      /\ Cardinality(Held(c)') \in Nat
      /\ Cardinality(Held(c)') <= Cardinality(Held(c))
  BY <1>1, TagWritten
<1>4. p # None => tag'[c][p.line] = "I"
  <2>1. p # None => p.line \in Lines
    BY <1>2 DEF PendingRequest
  <2> QED
    BY <1>2, <1>3, <2>1 DEF Hit
<1>5. Cardinality(Held(c)') + (IF p = None THEN 0 ELSE 1) <= Ways
  BY <1>3, WaysBefore
<1>6. ArraysOf(c)
  <2>1. d \in Data
    BY CoreFacts DEF Data
  <2>2. data' \in [Cores -> [Lines -> Data]]
    BY <1>1, <2>1, DataWritten
  <2> QED
    BY <1>3, <2>2 DEF ArraysOf
<1>7. /\ pr' = [pr EXCEPT ![c] = p]
      /\ mshr' = [mshr EXCEPT ![c] = q]
      /\ latest' \in [Lines -> Values]
      /\ toCore' \in [Cores -> Data \cup {None}]
  BY <1>1 DEF CacheInv, CacheTypeOK
<1> HIDE DEF p, q, d
<1> QED
  BY <1>2, <1>4, <1>5, <1>6, <1>7, CoreUpdate

\* The pending line goes to another transient state.
LEMMA PendingUpdate ==
  ASSUME CacheInv, NEW c \in Cores, pr[c] # None,
         NEW p \in PendingRequest, pr' = [pr EXCEPT ![c] = p],
         p.line = pr[c].line,
         p.st \in {"IS_D", "IS_DI"} <=> pr[c].st \in {"IS_D", "IS_DI"},
         p.st \in OwesForward => p.fwdDest \in Nodes,
         data' \in [Cores -> [Lines -> Data]],
         UNCHANGED <<tag, mshr, latest, toCore>>
  PROVE  CacheInv'
<1> DEFINE q == mshr[c]
<1>1. /\ q \in Load \cup Store \cup {None}
      /\ q # None /\ p # None
      /\ q.line = p.line
      /\ (q.op = "LD") <=> (p.st \in {"IS_D", "IS_DI"})
      /\ tag[c][p.line] = "I"
  BY CoreFacts, NotNone
<1>2. ArraysOf(c)
  BY DEF ArraysOf, CacheInv, CacheTypeOK
<1>3. Cardinality(Held(c)') + 1 <= Ways
  <2>1. Held(c)' = Held(c)
    BY DEF Held, Hit
  <2> QED
    BY <2>1, WaysBefore
<1>4. /\ mshr' = [mshr EXCEPT ![c] = q]
      /\ latest' \in [Lines -> Values]
      /\ toCore' \in [Cores -> Data \cup {None}]
  BY DEF CacheInv, CacheTypeOK
<1>5. tag'[c][p.line] = "I"
  BY <1>1
<1> HIDE DEF q
<1> QED
  BY <1>1, <1>2, <1>3, <1>4, <1>5, CoreUpdate

\* The rows for forwards keep a pending line pending, and loads loads.
LEMMA ForwardRows ==
  ASSUME NEW next \in {NextOnFwdGetS, NextOnFwdGetM}
  PROVE  /\ DOMAIN next = {"I", "M", "IM_AD", "IM_A", "SM_AD", "SM_A"}
         /\ next["M"] \in StableStates
         /\ \A s \in TransientStates \cap DOMAIN next :
              /\ next[s] \in TransientStates
              /\ s \notin {"IS_D", "IS_DI"}
              /\ next[s] \notin {"IS_D", "IS_DI"}
<1>1. CASE next = NextOnFwdGetS
  BY <1>1 DEF NextOnFwdGetS, StableStates, TransientStates, AwaitingData, AwaitingAcks
<1>2. CASE next = NextOnFwdGetM
  BY <1>2 DEF NextOnFwdGetM, StableStates, TransientStates, AwaitingData, AwaitingAcks
<1> QED
  BY <1>1, <1>2

\* The rows for Inv stay within the states of the array they update.
LEMMA InvRows ==
  /\ DOMAIN NextOnInv = {"I", "S", "IS_D", "SM_AD", "SM_AD_S", "SM_A_S"}
  /\ NextOnInv["S"] \in StableStates
  /\ \A s \in TransientStates \cap DOMAIN NextOnInv :
       /\ NextOnInv[s] \in TransientStates
       /\ NextOnInv[s] \in {"IS_D", "IS_DI"} <=> s \in {"IS_D", "IS_DI"}
       /\ NextOnInv[s] \in OwesForward => s \in OwesForward
BY DEF NextOnInv, StableStates, TransientStates, AwaitingData, AwaitingAcks,
       OwesForward

\* The rows for data that comes before the acks stay within PR's states.
LEMMA DataAckRows ==
  /\ DOMAIN NextOnDataAck = AwaitingData
  /\ \A s \in AwaitingData :
       /\ NextOnDataAck[s] \in TransientStates
       /\ s \notin {"IS_D", "IS_DI"} /\ NextOnDataAck[s] \notin {"IS_D", "IS_DI"}
       /\ NextOnDataAck[s] \in OwesForward => s \in OwesForward
BY DEF NextOnDataAck, TransientStates, AwaitingData, AwaitingAcks, OwesForward

-----------------------------------------------------------------------------
(* Forwards.                                                               *)

\* FwdGetS and FwdGetM.
LEMMA ReceiveFwdGetInv ==
  ASSUME InterconnectTypeOK, CacheInv, NEW c \in Cores, NEW m \in fwd,
         ReceiveFwdGet(c, m)
  PROVE  InterconnectTypeOK' /\ CacheInv'
<1> DEFINE a == m.addr
           s == State(c, a)
           next == IF m.type = "GetS" THEN NextOnFwdGetS ELSE NextOnFwdGetM
           dests == IF m.type = "GetS" THEN {m.respondTo, Directory}
                                       ELSE {m.respondTo}
<1>1. a \in Lines /\ m.respondTo \in Nodes /\ Directory \in Nodes /\ c \in Nodes
  BY DEF InterconnectTypeOK, Forward, Nodes
<1>2. /\ s \in DOMAIN next
      /\ fwd' = fwd \ {m}
      /\ UNCHANGED <<req, wb, mshr, latest, toCore>>
  BY DEF ReceiveFwdGet
<1>3. /\ next \in {NextOnFwdGetS, NextOnFwdGetM}
      /\ dests \subseteq Nodes
  BY <1>1
<1>4. CASE s = "I" /\ UNCHANGED <<tag, data, pr, rsp>>
  <2>1. InterconnectTypeOK'
    BY <1>2, <1>4 DEF InterconnectTypeOK
  <2>2. CacheInv'
    BY <1>2, <1>4 DEF CacheInv, CacheTypeOK, HitExclusive, Hit, HitPr, WaysFit,
                      Held, MshrMatchesPr, ForwardeeKnown
  <2> QED
    BY <2>1, <2>2
<1>5. CASE /\ s = "M"
           /\ SetTag(c, a, next[s])
           /\ rsp' = rsp \cup {DataMessage(a, c, n, 0, data[c][a]) : n \in dests}
  <2>1. next[s] \in StableStates
    BY <1>3, <1>5, ForwardRows
  <2>2. Hit(c, a)
    BY <1>1, <1>5, StateCases DEF Hit
  <2> HIDE DEF next
  <2>3. CacheInv'
    BY <1>1, <1>2, <1>5, <2>1, <2>2, TagUpdate
  <2>4. rsp' \subseteq Response
    <3>1. data[c][a] \in Data
      BY <1>1, CoreFacts
    <3>2. \A n \in dests : DataMessage(a, c, n, 0, data[c][a]) \in Response
      BY <1>1, <1>3, <3>1, DataMessageType
    <3> QED
      BY <1>5, <3>2 DEF InterconnectTypeOK
  <2> QED
    BY <1>2, <2>3, <2>4 DEF InterconnectTypeOK
<1>6. CASE /\ s \in TransientStates
           /\ SetPending(c, next[s], m.respondTo)
           /\ UNCHANGED rsp
  <2> DEFINE p == [pr[c] EXCEPT !.st = next[s], !.fwdDest = m.respondTo]
  <2>1. /\ pr[c] \in PendingRequest /\ pr[c] # None
        /\ pr[c].line = a /\ pr[c].st = s
    BY <1>1, <1>6, StateCases
  <2>2. /\ next[s] \in TransientStates
        /\ s \notin {"IS_D", "IS_DI"} /\ next[s] \notin {"IS_D", "IS_DI"}
    BY <1>2, <1>3, <1>6, ForwardRows
  <2>3. pr' = [pr EXCEPT ![c] = p] /\ UNCHANGED <<tag, data>>
    BY <1>6 DEF SetPending
  <2> HIDE DEF s, next
  <2>4. /\ p \in PendingRequest /\ p.line = pr[c].line
        /\ p.st = next[s] /\ p.fwdDest = m.respondTo
    BY <1>1, <2>1, <2>2 DEF PendingRequest
  <2> HIDE DEF p
  <2>5. data' \in [Cores -> [Lines -> Data]]
    BY <2>3 DEF CacheInv, CacheTypeOK
  <2>6. CacheInv'
    BY <1>1, <1>2, <2>1, <2>2, <2>3, <2>4, <2>5, PendingUpdate
  <2> QED
    BY <1>2, <1>6, <2>6 DEF InterconnectTypeOK
<1> QED
  BY <1>4, <1>5, <1>6 DEF ReceiveFwdGet

\* Inv.
LEMMA ReceiveInvInv ==
  ASSUME InterconnectTypeOK, CacheInv, NEW c \in Cores, NEW m \in fwd,
         ReceiveInv(c, m)
  PROVE  InterconnectTypeOK' /\ CacheInv'
<1> DEFINE a == m.addr
           s == State(c, a)
<1>1. a \in Lines /\ m.respondTo \in Nodes /\ c \in Nodes
  BY DEF InterconnectTypeOK, Forward, Nodes
<1>2. /\ s \in DOMAIN NextOnInv
      /\ fwd' = fwd \ {m}
      /\ UNCHANGED <<req, wb, mshr, latest, toCore>>
  BY DEF ReceiveInv
<1>3. AckMessage(a, c, m.respondTo, c) \in Response
  BY <1>1, AckMessageType
<1>4. CASE s = "I" /\ UNCHANGED <<tag, data, pr, rsp>>
  <2>1. InterconnectTypeOK'
    BY <1>2, <1>4 DEF InterconnectTypeOK
  <2>2. CacheInv'
    BY <1>2, <1>4 DEF CacheInv, CacheTypeOK, HitExclusive, Hit, HitPr, WaysFit,
                      Held, MshrMatchesPr, ForwardeeKnown
  <2> QED
    BY <2>1, <2>2
<1>5. CASE /\ s = "S"
           /\ SetTag(c, a, NextOnInv[s])
           /\ rsp' = rsp \cup {AckMessage(a, c, m.respondTo, c)}
  <2>1. NextOnInv[s] \in StableStates
    BY <1>5, InvRows
  <2>2. Hit(c, a)
    BY <1>1, <1>5, StateCases DEF Hit
  <2>3. CacheInv'
    BY <1>1, <1>2, <1>5, <2>1, <2>2, TagUpdate
  <2> QED
    BY <1>2, <1>3, <1>5, <2>3 DEF InterconnectTypeOK
<1>6. CASE /\ s \in TransientStates
           /\ SetPending(c, NextOnInv[s], pr[c].fwdDest)
           /\ rsp' = rsp \cup {AckMessage(a, c, m.respondTo, c)}
  <2> DEFINE p == [pr[c] EXCEPT !.st = NextOnInv[s], !.fwdDest = pr[c].fwdDest]
  <2>1. /\ pr[c] \in PendingRequest /\ pr[c] # None
        /\ pr[c].line = a /\ pr[c].st = s
    BY <1>1, <1>6, StateCases
  <2>2. /\ NextOnInv[s] \in TransientStates
        /\ NextOnInv[s] \in {"IS_D", "IS_DI"} <=> s \in {"IS_D", "IS_DI"}
        /\ NextOnInv[s] \in OwesForward => s \in OwesForward
    BY <1>2, <1>6, InvRows
  <2>3. pr' = [pr EXCEPT ![c] = p] /\ UNCHANGED <<tag, data>>
    BY <1>6 DEF SetPending
  <2>4. s \in OwesForward => pr[c].fwdDest \in Nodes
    BY <2>1, CoreFacts
  <2> HIDE DEF s
  <2>5. /\ p \in PendingRequest /\ p.line = pr[c].line
        /\ p.st = NextOnInv[s] /\ p.fwdDest = pr[c].fwdDest
    BY <2>1, <2>2 DEF PendingRequest
  <2> HIDE DEF p
  <2>6. data' \in [Cores -> [Lines -> Data]]
    BY <2>3 DEF CacheInv, CacheTypeOK
  <2>7. CacheInv'
    BY <1>2, <2>1, <2>2, <2>3, <2>4, <2>5, <2>6, PendingUpdate
  <2> QED
    BY <1>2, <1>3, <1>6, <2>7 DEF InterconnectTypeOK
<1> QED
  BY <1>4, <1>5, <1>6 DEF ReceiveInv

-----------------------------------------------------------------------------
(* Responses.                                                              *)

\* A completed request leaves PR and MSHR empty and its line in the way it had
\* reserved.
LEMMA CompleteInv ==
  ASSUME InterconnectTypeOK, CacheInv, NEW c \in Cores, pr[c] # None,
         NEW cl \in Data, NEW m, NEW sendRespOk \in BOOLEAN,
         Complete(c, cl, m, sendRespOk),
         UNCHANGED <<req, wb, fwd>>
  PROVE  InterconnectTypeOK' /\ CacheInv'
<1> DEFINE a == pr[c].line
           s == pr[c].st
           isStore == mshr[c].op = "ST"
           d == IF isStore THEN mshr[c].data ELSE cl
           kept == IF FinalState(s) = "I" THEN Garbage ELSE d
<1>1. /\ pr[c] \in PendingRequest /\ a \in Lines
      /\ s \in OwesForward => pr[c].fwdDest \in Nodes
      /\ tag[c][a] = "I"
      /\ mshr[c] \in Load \cup Store
  BY CoreFacts DEF PendingRequest
<1>2. isStore => d \in Values
  BY <1>1 DEF Load, Store
<1>3. d \in Data /\ kept \in Data
  BY <1>2 DEF Data
<1>4. FinalState(s) \in StableStates
  BY DEF FinalState, StableStates
<1>5. /\ tag' = [tag EXCEPT ![c][a] = FinalState(s)]
      /\ data' = [data EXCEPT ![c][a] = kept]
      /\ pr' = [pr EXCEPT ![c] = None]
      /\ mshr' = [mshr EXCEPT ![c] = None]
      /\ latest' = IF isStore THEN [latest EXCEPT ![a] = d] ELSE latest
      /\ toCore' = [toCore EXCEPT ![c] = IF isStore THEN StoreDone ELSE cl]
  BY DEF Complete
<1>6. /\ tag' \in [Cores -> [Lines -> StableStates]]
      /\ \A o \in Cores \ {c} : tag'[o] = tag[o]
      /\ Cardinality(Held(c)') \in Nat
      /\ Cardinality(Held(c)') <= Cardinality(Held(c)) + 1
  BY <1>1, <1>4, <1>5, TagWritten
<1>7. ArraysOf(c)
  <2> HIDE DEF a, kept
  <2>1. data' \in [Cores -> [Lines -> Data]]
    BY <1>1, <1>3, <1>5, DataWritten
  <2> QED
    BY <1>6, <2>1 DEF ArraysOf
<1>8. /\ latest' \in [Lines -> Values]
      /\ toCore' \in [Cores -> Data \cup {None}]
  <2>1. /\ latest \in [Lines -> Values]
        /\ toCore \in [Cores -> Data \cup {None}]
    BY DEF CacheInv, CacheTypeOK
  <2>2. StoreDone \in Data
    BY DEF StoreDone, Data
  <2> HIDE DEF a, d, isStore
  <2> QED
    BY <1>1, <1>2, <1>5, <2>1, <2>2
<1>9. Cardinality(Held(c)') + 0 <= Ways
  BY <1>6, WaysBefore
<1>10. CacheInv'
  <2> HIDE DEF a, d, isStore, kept, s
  <2> QED
    BY <1>5, <1>7, <1>8, <1>9, CoreUpdate
<1>11. rsp' = (rsp \ {m}) \cup CompletionMessages(c, s, a, d, sendRespOk)
  BY DEF Complete
<1>12. CompletionMessages(c, s, a, d, sendRespOk) \subseteq Response
  <2>1. Directory \in Nodes /\ c \in Nodes
    BY DEF Nodes
  <2>2. RespOkMessage(a, c, Directory) \in Response
    BY <1>1, <2>1, RespOkMessageType
  <2> HIDE DEF a, d, s
  <2>3. DataMessage(a, c, Directory, 0, d) \in Response
    BY <1>1, <1>3, <2>1, DataMessageType
  <2>4. s \in OwesForward => DataMessage(a, c, pr[c].fwdDest, 0, d) \in Response
    BY <1>1, <1>3, <2>1, DataMessageType
  <2> QED
    BY <2>2, <2>3, <2>4 DEF CompletionMessages
<1> QED
  BY <1>10, <1>11, <1>12 DEF InterconnectTypeOK

\* Data, from the directory or an owner.
LEMMA ReceiveDataInv ==
  ASSUME InterconnectTypeOK, CacheInv, NEW c \in Cores, NEW m \in rsp,
         ReceiveData(c, m)
  PROVE  InterconnectTypeOK' /\ CacheInv'
<1>1. /\ m.addr \in Lines /\ m.data \in Data /\ m.acks \in Int
  BY DEF InterconnectTypeOK, Response
<1>2. /\ pr[c] # None /\ pr[c].line = m.addr /\ pr[c] \in PendingRequest
      /\ UNCHANGED <<req, wb, fwd>>
  BY CoreFacts DEF ReceiveData, HitPr
<1>3. CASE DataAck(c, m)
  <2> DEFINE st == NextOnDataAck[pr[c].st]
             p == [pr[c] EXCEPT !.st = st, !.total = m.acks, !.dataValid = TRUE]
  <2>1. /\ pr' = [pr EXCEPT ![c] = p]
        /\ data' = [data EXCEPT ![c][m.addr] = m.data]
        /\ rsp' = rsp \ {m}
        /\ UNCHANGED <<tag, mshr, latest, toCore>>
    BY <1>3 DEF DataAck
  <2>2. pr[c].st \in AwaitingData
    BY <1>3, DataAckRows DEF DataAck
  <2>3. /\ st \in TransientStates
        /\ pr[c].st \notin {"IS_D", "IS_DI"} /\ st \notin {"IS_D", "IS_DI"}
        /\ st \in OwesForward => pr[c].st \in OwesForward
    BY <2>2, DataAckRows
  <2>4. pr[c].st \in OwesForward => pr[c].fwdDest \in Nodes
    BY <1>2, CoreFacts
  <2> HIDE DEF st
  <2>5. /\ p \in PendingRequest /\ p.line = pr[c].line
        /\ p.st = st /\ p.fwdDest = pr[c].fwdDest
    BY <1>1, <1>2, <2>3 DEF PendingRequest
  <2> HIDE DEF p
  <2>6. data' \in [Cores -> [Lines -> Data]]
    BY <1>1, <2>1, DataWritten
  <2>7. CacheInv'
    BY <1>2, <2>1, <2>3, <2>4, <2>5, <2>6, PendingUpdate
  <2> QED
    BY <1>2, <2>1, <2>7 DEF InterconnectTypeOK
<1>4. \A sendRespOk \in BOOLEAN :
        Complete(c, m.data, m, sendRespOk) => InterconnectTypeOK' /\ CacheInv'
  BY <1>1, <1>2, CompleteInv
<1>5. /\ (pr[c].st = "SM_AD") \in BOOLEAN
      /\ (pr[c].st \in {"IM_AD", "SM_AD"}) \in BOOLEAN
  OBVIOUS
<1> QED
  BY <1>3, <1>4, <1>5 DEF ReceiveData

\* Acks, the last one included.
LEMMA ReceiveAckInv ==
  ASSUME InterconnectTypeOK, CacheInv, NEW c \in Cores, NEW m \in rsp,
         ReceiveAck(c, m)
  PROVE  InterconnectTypeOK' /\ CacheInv'
<1>1. m.addr \in Lines
  BY DEF InterconnectTypeOK, Response
<1>2. /\ pr[c] # None /\ pr[c] \in PendingRequest
      /\ UNCHANGED <<req, wb, fwd>>
  BY CoreFacts DEF ReceiveAck, HitPr
<1>3. CASE /\ pr' = [pr EXCEPT ![c] = [pr[c] EXCEPT !.acks = pr[c].acks + 1]]
           /\ rsp' = rsp \ {m}
           /\ UNCHANGED <<tag, data, mshr, latest, toCore>>
  <2> DEFINE p == [pr[c] EXCEPT !.acks = pr[c].acks + 1]
  <2>1. pr' = [pr EXCEPT ![c] = p]
    BY <1>3
  <2>2. /\ p \in PendingRequest /\ p.line = pr[c].line
        /\ p.st = pr[c].st /\ p.fwdDest = pr[c].fwdDest
    BY <1>2 DEF PendingRequest
  <2>3. pr[c].st \in OwesForward => pr[c].fwdDest \in Nodes
    BY <1>2, CoreFacts
  <2> HIDE DEF p
  <2>4. data' \in [Cores -> [Lines -> Data]]
    BY <1>3 DEF CacheInv, CacheTypeOK
  <2>5. CacheInv'
    BY <1>2, <1>3, <2>1, <2>2, <2>3, <2>4, PendingUpdate
  <2> QED
    BY <1>2, <1>3, <2>5 DEF InterconnectTypeOK
<1>4. CASE Complete(c, data[c][m.addr], m, pr[c].st \in {"IM_A", "SM_A"})
  <2>1. data[c][m.addr] \in Data
    BY <1>1, CoreFacts
  <2>2. (pr[c].st \in {"IM_A", "SM_A"}) \in BOOLEAN
    OBVIOUS
  <2> QED
    BY <1>2, <1>4, <2>1, <2>2, CompleteInv
<1> QED
  BY <1>3, <1>4 DEF ReceiveAck

-----------------------------------------------------------------------------
\* Every step of a private cache preserves its invariant and the types of the
\* messages.
THEOREM CachePreservesInv ==
  ASSUME InterconnectTypeOK, CacheInv, NEW c \in Cores,
         CoreStep(c) \/ ForwardStep(c) \/ ResponseStep(c)
  PROVE  InterconnectTypeOK' /\ CacheInv'
<1>1. CASE CoreStep(c)
  BY <1>1, CoreStepInv
<1>2. CASE ForwardStep(c)
  BY <1>2, ReceiveFwdGetInv, ReceiveInvInv DEF ForwardStep
<1>3. CASE ResponseStep(c)
  BY <1>3, ReceiveDataInv, ReceiveAckInv DEF ResponseStep
<1> QED
  BY <1>1, <1>2, <1>3

\* The initial state satisfies it.
THEOREM CacheInitInv ==
  ASSUME CacheInit
  PROVE  CacheInv
<1>1. CacheTypeOK
  BY ConstantsAssumption DEF CacheInit, CacheTypeOK, StableStates, Data
<1>2. HitExclusive /\ MshrMatchesPr /\ ForwardeeKnown
  BY DEF CacheInit, HitExclusive, MshrMatchesPr, ForwardeeKnown, Hit, HitPr
<1>3. WaysFit
  <2>1. \A c \in Cores : Held(c) = {} /\ pr[c] = None
    BY DEF CacheInit, Held, Hit
  <2>2. Cardinality({}) = 0
    BY FS_EmptySet
  <2> QED
    BY <2>1, <2>2, CacheAssumption DEF WaysFit
<1> QED
  BY <1>1, <1>2, <1>3 DEF CacheInv

-----------------------------------------------------------------------------
(* The steps of the LLC.                                                   *)

\* A stream of at most one element is emptied by one read.
LEMMA PendingStream ==
  ASSUME NEW S, NEW s \in Seq(S), s # <<>>, Len(s) <= 1
  PROVE  Head(s) \in S /\ Tail(s) = <<>>
<1>1. Head(s) \in S /\ Tail(s) \in Seq(S) /\ Len(Tail(s)) = Len(s) - 1
  BY HeadTailProperties
<1>2. Len(s) \in Nat /\ Len(Tail(s)) \in Nat
  BY <1>1, LenProperties
<1>3. Len(Tail(s)) = 0
  BY <1>1, <1>2
<1> QED
  BY <1>1, <1>3, EmptySeq

\* Queueing the request just read leaves exactly one pending request.
LEMMA QueuedRequest ==
  ASSUME NEW S, NEW r \in S
  PROVE  /\ Append(<<>>, r) \in Seq(S)
         /\ Append(<<>>, r) # <<>>
         /\ Len(Append(<<>>, r)) = 1
<1>1. <<>> \in Seq(S) /\ Len(<<>>) = 0
  BY EmptySeq
<1> QED
  BY <1>1, AppendProperties

\* Reading a request: no entry is in transition, and the stream holds nothing
\* or the request itself afterwards.
LEMMA RequestRead ==
  ASSUME InterconnectTypeOK, LLCInv, NEW r, Takes(r)
  PROVE  /\ r.addr \in Lines /\ r.src \in Cores /\ r.src \in Nodes
         /\ req' \subseteq Request
         /\ ~blocking
         /\ \A a \in Lines : dir[a].st \notin DirBusy
         /\ NoQueue => pending' \in Seq(Request) /\ Len(pending') <= 1
         /\ Queue(r) => /\ pending' \in Seq(Request)
                        /\ pending' # <<>>
                        /\ Len(pending') <= 1
<1>1. pending \in Seq(Request) /\ Len(pending) <= 1
  BY DEF LLCInv, LLCTypeOK, BlockingDiscipline
<1>2. r \in Request /\ PendingAfterRead = <<>>
  <2>1. CASE pending = <<>>
    BY <2>1 DEF Takes, MayTake, NextRequests, PendingAfterRead, InterconnectTypeOK
  <2>2. CASE pending # <<>>
    BY <1>1, <2>2, PendingStream
       DEF Takes, MayTake, NextRequests, PendingAfterRead
  <2> QED
    BY <2>1, <2>2
<1>3. r.addr \in Lines /\ r.src \in Cores /\ r.src \in Nodes
  BY <1>2 DEF Request, Nodes
<1>4. req' \subseteq Request
  BY DEF Takes, InterconnectTypeOK
<1>5. ~blocking /\ \A a \in Lines : dir[a].st \notin DirBusy
  BY DEF Takes, MayTake, LLCInv, BlockingDiscipline
<1>6. NoQueue => pending' \in Seq(Request) /\ Len(pending') <= 1
  BY <1>2, EmptySeq DEF NoQueue
<1>7. Queue(r) => /\ pending' \in Seq(Request)
                  /\ pending' # <<>>
                  /\ Len(pending') <= 1
  BY <1>2, QueuedRequest DEF Queue
<1> QED
  BY <1>3, <1>4, <1>5, <1>6, <1>7

-----------------------------------------------------------------------------
(* The parts of a step.                                                    *)

\* The entries the rows write.
LEMMA NoEntryType == NoEntry \in Entry
BY DEF NoEntry, Entry, DirStates

\* The update_tag helpers build directory entries.
LEMMA EntryTypes ==
  ASSUME NEW e \in Entry, NEW st \in DirStates, NEW c \in Cores
  PROVE  /\ AddSharer(e, st, c) \in Entry
         /\ MarkOwner(st, c) \in Entry
         /\ e.owner \in Cores => ToShared(e, st, c) \in Entry
         /\ DropSharer(e, st, c) \in Entry
         /\ [e EXCEPT !.st = st] \in Entry
<1>1. AddSharer(e, st, c) \in Entry
  BY DEF AddSharer, Entry
<1>2. MarkOwner(st, c) \in Entry
  BY DEF MarkOwner, Entry
<1>3. e.owner \in Cores => ToShared(e, st, c) \in Entry
  BY DEF ToShared, Entry
<1>4. DropSharer(e, st, c) \in Entry
  BY DEF DropSharer, Entry
<1>5. [e EXCEPT !.st = st] \in Entry
  BY DEF Entry
<1> QED
  BY <1>1, <1>2, <1>3, <1>4, <1>5

\* Writing the entry and the data way of one line.
LEMMA LineWritten ==
  ASSUME LLCTypeOK, Inclusive, OwnerKnown,
         NEW a \in Lines, NEW e \in Entry, NEW d \in Data \cup {None},
         dir' = [dir EXCEPT ![a] = e],
         llc' = [llc EXCEPT ![a] = d],
         e.st # "I" => d # None,
         e.st \in {"M", "MM", "SM", "MI"} => e.owner \in Cores
  PROVE  /\ dir' \in [Lines -> Entry]
         /\ llc' \in [Lines -> Data \cup {None}]
         /\ Inclusive'
         /\ OwnerKnown'
<1>1. dir' \in [Lines -> Entry] /\ llc' \in [Lines -> Data \cup {None}]
  BY DEF LLCTypeOK
<1>2. Inclusive'
  BY DEF LLCTypeOK, Inclusive, DirHit, LlcHit
<1>3. OwnerKnown'
  BY DEF LLCTypeOK, OwnerKnown
<1> QED
  BY <1>1, <1>2, <1>3

\* The three ways a step treats blocking: it leaves the set of lines in
\* transition alone, it ends the transaction, or it starts one.
LEMMA DisciplineKept ==
  ASSUME LLCTypeOK, BlockingDiscipline,
         NEW a \in Lines, NEW e \in Entry,
         dir' = [dir EXCEPT ![a] = e],
         e.st \in DirBusy <=> dir[a].st \in DirBusy,
         UNCHANGED blocking,
         pending' = pending \/ (~blocking /\ Len(pending') <= 1)
  PROVE  BlockingDiscipline'
BY DEF LLCTypeOK, BlockingDiscipline

\* BlockingDiscipline survives the end of a transaction.
LEMMA DisciplineEnded ==
  ASSUME LLCTypeOK, BlockingDiscipline,
         NEW a \in Lines, NEW e \in Entry,
         dir' = [dir EXCEPT ![a] = e],
         dir[a].st \in DirBusy, e.st \notin DirBusy,
         blocking' = FALSE,
         Len(pending') <= 1
  PROVE  BlockingDiscipline'
BY DEF LLCTypeOK, BlockingDiscipline

\* BlockingDiscipline survives the start of a transaction.
LEMMA DisciplineStarted ==
  ASSUME LLCTypeOK, BlockingDiscipline, ~blocking,
         NEW a \in Lines, NEW e \in Entry,
         dir' = [dir EXCEPT ![a] = e],
         e.st \in DirBusy,
         blocking' = TRUE,
         pending' # <<>>, Len(pending') <= 1
  PROVE  BlockingDiscipline'
BY DEF LLCTypeOK, BlockingDiscipline

\* A step that writes one line, sends well-typed messages and treats blocking
\* in one of these ways preserves the invariant.
LEMMA LineStep ==
  ASSUME InterconnectTypeOK, LLCInv,
         NEW a \in Lines, NEW e \in Entry, NEW d \in Data \cup {None},
         dir' = [dir EXCEPT ![a] = e],
         llc' = [llc EXCEPT ![a] = d],
         e.st # "I" => d # None,
         e.st \in {"M", "MM", "SM", "MI"} => e.owner \in Cores,
         dram' \in [Lines -> Data],
         pending' \in Seq(Request),
         \/ /\ e.st \in DirBusy <=> dir[a].st \in DirBusy
            /\ UNCHANGED blocking
            /\ pending' = pending \/ (~blocking /\ Len(pending') <= 1)
         \/ /\ dir[a].st \in DirBusy /\ e.st \notin DirBusy
            /\ blocking' = FALSE
            /\ Len(pending') <= 1
         \/ /\ ~blocking /\ e.st \in DirBusy
            /\ blocking' = TRUE
            /\ pending' # <<>> /\ Len(pending') <= 1,
         req' \subseteq Request, wb' \subseteq Writeback,
         fwd' \subseteq Forward, rsp' \subseteq Response
  PROVE  InterconnectTypeOK' /\ LLCInv'
<1>1. LLCTypeOK /\ Inclusive /\ OwnerKnown /\ BlockingDiscipline
  BY DEF LLCInv
<1>2. /\ dir' \in [Lines -> Entry]
      /\ llc' \in [Lines -> Data \cup {None}]
      /\ Inclusive'
      /\ OwnerKnown'
  BY <1>1, LineWritten
<1>3. BlockingDiscipline'
  BY <1>1, DisciplineKept, DisciplineEnded, DisciplineStarted
<1>4. blocking' \in BOOLEAN
  BY <1>1 DEF LLCTypeOK
<1>5. LLCTypeOK' /\ InterconnectTypeOK'
  BY <1>2, <1>4 DEF LLCTypeOK, InterconnectTypeOK
<1> QED
  BY <1>2, <1>3, <1>5 DEF LLCInv

\* The same when the data array is left alone.
LEMMA EntryStep ==
  ASSUME InterconnectTypeOK, LLCInv,
         NEW a \in Lines, NEW e \in Entry,
         dir' = [dir EXCEPT ![a] = e],
         UNCHANGED llc,
         e.st # "I" => dir[a].st # "I",
         e.st \in {"M", "MM", "SM", "MI"} => e.owner \in Cores,
         dram' \in [Lines -> Data],
         pending' \in Seq(Request),
         \/ /\ e.st \in DirBusy <=> dir[a].st \in DirBusy
            /\ UNCHANGED blocking
            /\ pending' = pending \/ (~blocking /\ Len(pending') <= 1)
         \/ /\ dir[a].st \in DirBusy /\ e.st \notin DirBusy
            /\ blocking' = FALSE
            /\ Len(pending') <= 1
         \/ /\ ~blocking /\ e.st \in DirBusy
            /\ blocking' = TRUE
            /\ pending' # <<>> /\ Len(pending') <= 1,
         req' \subseteq Request, wb' \subseteq Writeback,
         fwd' \subseteq Forward, rsp' \subseteq Response
  PROVE  InterconnectTypeOK' /\ LLCInv'
<1>1. llc[a] \in Data \cup {None} /\ llc' = [llc EXCEPT ![a] = llc[a]]
  BY DEF LLCInv, LLCTypeOK
<1>2. e.st # "I" => llc[a] # None
  BY DEF LLCInv, Inclusive, DirHit, LlcHit
<1> QED
  BY <1>1, <1>2, LineStep

\* The state of the whole LLC, as far as the steps below need it.
LEMMA StateFacts ==
  ASSUME LLCInv, NEW a \in Lines
  PROVE  /\ dir[a] \in Entry
         /\ dir[a].st # "I" => llc[a] \in Data /\ llc[a] # None
         /\ dir[a].st \in {"M", "MM", "SM", "MI"} => dir[a].owner \in Cores
         /\ dram[a] \in Data /\ dram \in [Lines -> Data]
         /\ pending \in Seq(Request) /\ Len(pending) <= 1
BY DEF LLCInv, LLCTypeOK, Inclusive, OwnerKnown, BlockingDiscipline, DirHit, LlcHit

\* A multicast of the directory is a set of forwards.
LEMMA SendsType ==
  ASSUME InterconnectTypeOK,
         NEW type \in {"GetS", "GetM", "Inv"}, NEW a \in Lines,
         NEW dests \in SUBSET Cores, NEW n \in Nodes,
         Sends(type, a, dests, n)
  PROVE  fwd' \subseteq Forward
<1>1. \A c \in dests : ForwardMessage(type, a, c, n) \in Forward
  BY DEF ForwardMessage, Forward
<1> QED
  BY <1>1 DEF Sends, InterconnectTypeOK

\* The data the directory sends is a response.
LEMMA SendsDataType ==
  ASSUME InterconnectTypeOK,
         NEW r, r.addr \in Lines, r.src \in Nodes,
         NEW acks \in Int, NEW d \in Data,
         SendsData(r, acks, d)
  PROVE  rsp' \subseteq Response
<1>1. Directory \in Nodes
  BY DEF Nodes
<1>2. DataMessage(r.addr, Directory, r.src, acks, d) \in Response
  BY <1>1 DEF DataMessage, Response
<1> QED
  BY <1>2 DEF SendsData, InterconnectTypeOK

-----------------------------------------------------------------------------
(* Requests.                                                               *)

\* GetS of a line only DRAM has.
LEMMA GetSInvalidInv ==
  ASSUME InterconnectTypeOK, LLCInv, NEW r, GetSInvalid(r)
  PROVE  InterconnectTypeOK' /\ LLCInv'
<1> DEFINE a == r.addr
           e == AddSharer(NoEntry, "S", r.src)
           d == dram[a]
<1>1. /\ a \in Lines /\ r.src \in Cores /\ r.src \in Nodes
      /\ req' \subseteq Request
      /\ ~blocking /\ dir[a].st \notin DirBusy
      /\ pending' \in Seq(Request) /\ Len(pending') <= 1
  BY RequestRead DEF GetSInvalid
<1>2. e \in Entry /\ e.st = "S"
  BY <1>1, NoEntryType, EntryTypes DEF DirStates, DirStable, AddSharer
<1>3. d \in Data /\ d # None
  BY <1>1, ConstantsAssumption DEF LLCInv, LLCTypeOK, Data
<1>4. /\ dir' = [dir EXCEPT ![a] = e]
      /\ llc' = [llc EXCEPT ![a] = d]
      /\ SendsData(r, 0, d)
      /\ UNCHANGED <<wb, fwd, dram, blocking>>
  BY DEF GetSInvalid, SetEntry
<1> HIDE DEF e, d
<1>5. rsp' \subseteq Response
  BY <1>1, <1>3, <1>4, SendsDataType
<1>6. wb' \subseteq Writeback /\ fwd' \subseteq Forward /\ dram' \in [Lines -> Data]
  BY <1>4 DEF InterconnectTypeOK, LLCInv, LLCTypeOK
<1>7. e.st \in DirBusy <=> dir[a].st \in DirBusy
  BY <1>1, <1>2 DEF DirBusy
<1> HIDE DEF a
<1> QED
  BY <1>1, <1>2, <1>3, <1>4, <1>5, <1>6, <1>7, LineStep

\* GetS of a line the LLC alone has, whichever way is read.
LEMMA GetSValidInv ==
  ASSUME InterconnectTypeOK, LLCInv, NEW r, GetSValid(r)
  PROVE  InterconnectTypeOK' /\ LLCInv'
<1> DEFINE a == r.addr
           e == AddSharer(NoEntry, "S", r.src)
<1>1. /\ a \in Lines /\ r.src \in Cores /\ r.src \in Nodes
      /\ req' \subseteq Request
      /\ ~blocking /\ dir[a].st \notin DirBusy
      /\ pending' \in Seq(Request) /\ Len(pending') <= 1
  BY RequestRead DEF GetSValid
<1>2. PICK d \in ReadInV(a) : SendsData(r, 0, d)
  BY DEF GetSValid
<1>3. e \in Entry /\ e.st = "S"
  BY <1>1, NoEntryType, EntryTypes DEF DirStates, DirStable, AddSharer
<1>4. LlcHit(a) /\ llc[a] \in Data /\ llc[a] # None
  BY <1>1 DEF GetSValid, LlcHit, LLCInv, LLCTypeOK
<1>5. d \in Data
  BY <1>1, <1>2, <1>4 DEF ReadInV, LlcHit, LLCInv, LLCTypeOK, Data
<1>6. /\ dir' = [dir EXCEPT ![a] = e]
      /\ llc' = [llc EXCEPT ![a] = llc[a]]
      /\ UNCHANGED <<wb, fwd, dram, blocking>>
  BY <1>1 DEF GetSValid, SetEntry, LLCInv, LLCTypeOK
<1> HIDE DEF e
<1>7. rsp' \subseteq Response
  BY <1>1, <1>2, <1>5, SendsDataType
<1>8. wb' \subseteq Writeback /\ fwd' \subseteq Forward /\ dram' \in [Lines -> Data]
  BY <1>6 DEF InterconnectTypeOK, LLCInv, LLCTypeOK
<1>9. e.st \in DirBusy <=> dir[a].st \in DirBusy
  BY <1>1, <1>3 DEF DirBusy
<1> HIDE DEF a
<1> QED
  BY <1>1, <1>3, <1>4, <1>6, <1>7, <1>8, <1>9, LineStep

\* GetS of a shared line.
LEMMA GetSSharedInv ==
  ASSUME InterconnectTypeOK, LLCInv, NEW r, GetSShared(r)
  PROVE  InterconnectTypeOK' /\ LLCInv'
<1> DEFINE a == r.addr
           e == AddSharer(dir[a], "S", r.src)
<1>1. /\ a \in Lines /\ r.src \in Cores /\ r.src \in Nodes
      /\ req' \subseteq Request
      /\ ~blocking /\ dir[a].st \notin DirBusy
      /\ pending' \in Seq(Request) /\ Len(pending') <= 1
  BY RequestRead DEF GetSShared
<1>2. /\ dir[a].st = "S"
      /\ dir' = [dir EXCEPT ![a] = e]
      /\ SendsData(r, 0, llc[a])
      /\ UNCHANGED <<wb, fwd, llc, dram, blocking>>
  BY DEF GetSShared, SetEntry
<1>3. dir[a] \in Entry /\ llc[a] \in Data /\ dram' \in [Lines -> Data]
  BY <1>1, <1>2, StateFacts
<1>4. e \in Entry /\ e.st = "S"
  BY <1>1, <1>3, EntryTypes DEF DirStates, DirStable, AddSharer
<1> HIDE DEF e
<1>5. rsp' \subseteq Response
  BY <1>1, <1>2, <1>3, SendsDataType
<1>6. wb' \subseteq Writeback /\ fwd' \subseteq Forward
  BY <1>2 DEF InterconnectTypeOK
<1>7. e.st \in DirBusy <=> dir[a].st \in DirBusy
  BY <1>1, <1>4 DEF DirBusy
<1> HIDE DEF a
<1> QED
  BY <1>1, <1>2, <1>3, <1>4, <1>5, <1>6, <1>7, EntryStep

\* GetS of a modified line: the directory blocks.
LEMMA GetSModifiedInv ==
  ASSUME InterconnectTypeOK, LLCInv, NEW r, GetSModified(r)
  PROVE  InterconnectTypeOK' /\ LLCInv'
<1> DEFINE a == r.addr
           e == ToShared(dir[a], "MS_AD", r.src)
<1>1. /\ dir[a].st = "M"
      /\ Sends("GetS", a, {dir[a].owner}, r.src)
      /\ dir' = [dir EXCEPT ![a] = e]
      /\ Queue(r) /\ blocking' = TRUE
      /\ UNCHANGED <<wb, rsp, llc, dram>>
  BY DEF GetSModified, StartTransaction, SetEntry
<1>2. /\ a \in Lines /\ r.src \in Cores /\ r.src \in Nodes
      /\ req' \subseteq Request /\ ~blocking
      /\ pending' \in Seq(Request) /\ pending' # <<>> /\ Len(pending') <= 1
  BY <1>1, RequestRead DEF GetSModified
<1>3. dir[a] \in Entry /\ dir[a].owner \in Cores /\ dram' \in [Lines -> Data]
  BY <1>1, <1>2, StateFacts
<1>4. e \in Entry /\ e.st = "MS_AD"
  BY <1>2, <1>3, EntryTypes DEF DirStates, DirBusy, ToShared
<1> HIDE DEF e
<1>5. fwd' \subseteq Forward
  BY <1>1, <1>2, <1>3, SendsType
<1>6. wb' \subseteq Writeback /\ rsp' \subseteq Response
  BY <1>1 DEF InterconnectTypeOK
<1>7. e.st \in DirBusy
  BY <1>4 DEF DirBusy
<1> HIDE DEF a
<1> QED
  BY <1>1, <1>2, <1>3, <1>4, <1>5, <1>6, <1>7, EntryStep

\* GetM of a line no cache has.
LEMMA GetMUncachedInv ==
  ASSUME InterconnectTypeOK, LLCInv, NEW r, GetMUncached(r)
  PROVE  InterconnectTypeOK' /\ LLCInv'
<1> DEFINE a == r.addr
           e == MarkOwner("M", r.src)
           d == IF LlcHit(a) THEN llc[a] ELSE dram[a]
           sent == IF LlcHit(a) THEN Garbage ELSE dram[a]
<1>1. /\ a \in Lines /\ r.src \in Cores /\ r.src \in Nodes
      /\ req' \subseteq Request
      /\ ~blocking /\ dir[a].st \notin DirBusy
      /\ pending' \in Seq(Request) /\ Len(pending') <= 1
  BY RequestRead DEF GetMUncached
<1>2. e \in Entry /\ e.st = "M" /\ e.owner \in Cores
  BY <1>1, NoEntryType, EntryTypes DEF DirStates, DirStable, MarkOwner
<1>3. d \in Data /\ d # None /\ sent \in Data
  BY <1>1, ConstantsAssumption DEF LLCInv, LLCTypeOK, LlcHit, Data
<1>4. /\ dir' = [dir EXCEPT ![a] = e]
      /\ llc' = [llc EXCEPT ![a] = d]
      /\ SendsData(r, 0, sent)
      /\ UNCHANGED <<wb, fwd, dram, blocking>>
  BY DEF GetMUncached, SetEntry
<1> HIDE DEF e, d, sent
<1>5. rsp' \subseteq Response
  BY <1>1, <1>3, <1>4, SendsDataType
<1>6. wb' \subseteq Writeback /\ fwd' \subseteq Forward /\ dram' \in [Lines -> Data]
  BY <1>4 DEF InterconnectTypeOK, LLCInv, LLCTypeOK
<1>7. e.st \in DirBusy <=> dir[a].st \in DirBusy
  BY <1>1, <1>2 DEF DirBusy
<1> HIDE DEF a
<1> QED
  BY <1>1, <1>2, <1>3, <1>4, <1>5, <1>6, <1>7, LineStep

\* GetM of a shared line: the directory blocks for its acks.
LEMMA GetMSharedInv ==
  ASSUME InterconnectTypeOK, LLCInv, NEW r, GetMShared(r)
  PROVE  InterconnectTypeOK' /\ LLCInv'
<1> DEFINE a == r.addr
           e == MarkOwner("SM", r.src)
           acks == PromisedAcks(dir[a], r.src)
           others == dir[a].sharers \ {r.src}
<1>1. /\ dir[a].st = "S"
      /\ Sends("Inv", a, others, r.src)
      /\ SendsData(r, acks, llc[a])
      /\ dir' = [dir EXCEPT ![a] = e]
      /\ Queue(r) /\ blocking' = TRUE
      /\ UNCHANGED <<wb, llc, dram>>
  BY DEF GetMShared, StartTransaction, SetEntry
<1>2. /\ a \in Lines /\ r.src \in Cores /\ r.src \in Nodes
      /\ req' \subseteq Request /\ ~blocking
      /\ pending' \in Seq(Request) /\ pending' # <<>> /\ Len(pending') <= 1
  BY <1>1, RequestRead DEF GetMShared
<1>3. dir[a] \in Entry /\ llc[a] \in Data /\ dram' \in [Lines -> Data]
  BY <1>1, <1>2, StateFacts
<1>4. acks \in Int /\ others \in SUBSET Cores
  BY <1>3 DEF PromisedAcks, Entry
<1>5. e \in Entry /\ e.st = "SM" /\ e.owner \in Cores
  BY <1>2, NoEntryType, EntryTypes DEF DirStates, DirBusy, MarkOwner
<1> HIDE DEF e, acks, others
<1>6. fwd' \subseteq Forward
  BY <1>1, <1>2, <1>4, SendsType
<1>7. rsp' \subseteq Response
  BY <1>1, <1>2, <1>3, <1>4, SendsDataType
<1>8. wb' \subseteq Writeback
  BY <1>1 DEF InterconnectTypeOK
<1>9. e.st \in DirBusy
  BY <1>5 DEF DirBusy
<1> HIDE DEF a
<1> QED
  BY <1>1, <1>2, <1>3, <1>5, <1>6, <1>7, <1>8, <1>9, EntryStep

\* GetM of a modified line: the directory blocks for the RespOk.
LEMMA GetMModifiedInv ==
  ASSUME InterconnectTypeOK, LLCInv, NEW r, GetMModified(r)
  PROVE  InterconnectTypeOK' /\ LLCInv'
<1> DEFINE a == r.addr
           e == MarkOwner("MM", r.src)
<1>1. /\ dir[a].st = "M"
      /\ Sends("GetM", a, {dir[a].owner}, r.src)
      /\ dir' = [dir EXCEPT ![a] = e]
      /\ Queue(r) /\ blocking' = TRUE
      /\ UNCHANGED <<wb, rsp, llc, dram>>
  BY DEF GetMModified, StartTransaction, SetEntry
<1>2. /\ a \in Lines /\ r.src \in Cores /\ r.src \in Nodes
      /\ req' \subseteq Request /\ ~blocking
      /\ pending' \in Seq(Request) /\ pending' # <<>> /\ Len(pending') <= 1
  BY <1>1, RequestRead DEF GetMModified
<1>3. dir[a].owner \in Cores /\ dram' \in [Lines -> Data]
  BY <1>1, <1>2, StateFacts
<1>4. e \in Entry /\ e.st = "MM" /\ e.owner \in Cores
  BY <1>2, NoEntryType, EntryTypes DEF DirStates, DirBusy, MarkOwner
<1> HIDE DEF e
<1>5. fwd' \subseteq Forward
  BY <1>1, <1>2, <1>3, SendsType
<1>6. wb' \subseteq Writeback /\ rsp' \subseteq Response
  BY <1>1 DEF InterconnectTypeOK
<1>7. e.st \in DirBusy
  BY <1>4 DEF DirBusy
<1> HIDE DEF a
<1> QED
  BY <1>1, <1>2, <1>3, <1>4, <1>5, <1>6, <1>7, EntryStep

\* Replacement: the line written is the victim's, the one read the request's.
LEMMA ReplaceValidInv ==
  ASSUME InterconnectTypeOK, LLCInv, NEW r, NEW v \in Lines, ReplaceValid(r, v)
  PROVE  InterconnectTypeOK' /\ LLCInv'
<1>1. /\ Queue(r)
      /\ llc[v] # None /\ dir[v].st = "I"
      /\ dram' = [dram EXCEPT ![r.addr] = llc[v]]
      /\ llc' = [llc EXCEPT ![v] = None]
      /\ UNCHANGED <<wb, fwd, rsp, dir, blocking>>
  BY DEF ReplaceValid, Replaces, LlcHit, DirHit
<1>2. /\ req' \subseteq Request /\ ~blocking
      /\ pending' \in Seq(Request) /\ Len(pending') <= 1
  BY <1>1, RequestRead DEF ReplaceValid, Replaces
<1>3. dir[v] \in Entry /\ dir' = [dir EXCEPT ![v] = dir[v]]
  BY <1>1 DEF LLCInv, LLCTypeOK
<1>4. dram' \in [Lines -> Data]
  <2>1. llc[v] \in Data
    BY <1>1 DEF LLCInv, LLCTypeOK
  <2> QED
    BY <1>1, <2>1 DEF LLCInv, LLCTypeOK
<1>5. wb' \subseteq Writeback /\ fwd' \subseteq Forward /\ rsp' \subseteq Response
  BY <1>1 DEF InterconnectTypeOK
<1> QED
  BY <1>1, <1>2, <1>3, <1>4, <1>5, LineStep

\* Replacement of a shared victim.
LEMMA ReplaceSharedInv ==
  ASSUME InterconnectTypeOK, LLCInv, NEW r, NEW v \in Lines, ReplaceShared(r, v)
  PROVE  InterconnectTypeOK' /\ LLCInv'
<1> DEFINE e == [dir[v] EXCEPT !.st = "SI"]
<1>1. /\ dir[v].st = "S"
      /\ Sends("Inv", v, dir[v].sharers, Directory)
      /\ dir' = [dir EXCEPT ![v] = e]
      /\ Queue(r) /\ blocking' = TRUE
      /\ UNCHANGED <<wb, rsp, llc, dram>>
  BY DEF ReplaceShared, StartTransaction, SetEntry
<1>2. /\ req' \subseteq Request /\ ~blocking
      /\ pending' \in Seq(Request) /\ pending' # <<>> /\ Len(pending') <= 1
  BY <1>1, RequestRead DEF ReplaceShared, Replaces
<1>3. /\ dir[v] \in Entry /\ dir[v].sharers \in SUBSET Cores
      /\ dram' \in [Lines -> Data]
  BY <1>1, StateFacts DEF Entry
<1>4. e \in Entry /\ e.st = "SI"
  BY <1>3 DEF Entry, DirStates, DirBusy
<1> HIDE DEF e
<1>5. fwd' \subseteq Forward
  BY <1>1, <1>3, SendsType DEF Nodes
<1>6. wb' \subseteq Writeback /\ rsp' \subseteq Response
  BY <1>1 DEF InterconnectTypeOK
<1>7. e.st \in DirBusy
  BY <1>4 DEF DirBusy
<1> QED
  BY <1>1, <1>2, <1>3, <1>4, <1>5, <1>6, <1>7, EntryStep

\* Replacement of a modified victim.
LEMMA ReplaceModifiedInv ==
  ASSUME InterconnectTypeOK, LLCInv, NEW r, NEW v \in Lines, ReplaceModified(r, v)
  PROVE  InterconnectTypeOK' /\ LLCInv'
<1> DEFINE e == [dir[v] EXCEPT !.st = "MI"]
<1>1. /\ dir[v].st = "M"
      /\ Sends("GetM", v, {dir[v].owner}, Directory)
      /\ dir' = [dir EXCEPT ![v] = e]
      /\ Queue(r) /\ blocking' = TRUE
      /\ UNCHANGED <<wb, rsp, llc, dram>>
  BY DEF ReplaceModified, StartTransaction, SetEntry
<1>2. /\ req' \subseteq Request /\ ~blocking
      /\ pending' \in Seq(Request) /\ pending' # <<>> /\ Len(pending') <= 1
  BY <1>1, RequestRead DEF ReplaceModified, Replaces
<1>3. /\ dir[v] \in Entry /\ dir[v].owner \in Cores
      /\ dram' \in [Lines -> Data]
  BY <1>1, StateFacts
<1>4. e \in Entry /\ e.st = "MI" /\ e.owner \in Cores
  BY <1>3 DEF Entry, DirStates, DirBusy
<1> HIDE DEF e
<1>5. fwd' \subseteq Forward
  BY <1>1, <1>3, SendsType DEF Nodes
<1>6. wb' \subseteq Writeback /\ rsp' \subseteq Response
  BY <1>1 DEF InterconnectTypeOK
<1>7. e.st \in DirBusy
  BY <1>4 DEF DirBusy
<1> QED
  BY <1>1, <1>2, <1>3, <1>4, <1>5, <1>6, <1>7, EntryStep

\* Every row for a request.
LEMMA TakeRequestInv ==
  ASSUME InterconnectTypeOK, LLCInv, NEW r, TakeRequest(r)
  PROVE  InterconnectTypeOK' /\ LLCInv'
BY GetSInvalidInv, GetSValidInv, GetSSharedInv, GetSModifiedInv,
   GetMUncachedInv, GetMSharedInv, GetMModifiedInv, ReplaceValidInv, ReplaceSharedInv,
   ReplaceModifiedInv
   DEF TakeRequest

-----------------------------------------------------------------------------
(* What ends a transaction.                                                *)

\* The end of a replacement keeps the LLC inclusive and unblocks.
LEMMA EvictFromLlcInv ==
  ASSUME InterconnectTypeOK, LLCInv,
         NEW a \in Lines, NEW d \in Data, EvictFromLlc(a, d),
         dir[a].st \in DirBusy,
         req' \subseteq Request, wb' \subseteq Writeback,
         fwd' \subseteq Forward, rsp' \subseteq Response
  PROVE  InterconnectTypeOK' /\ LLCInv'
<1>1. /\ dir' = [dir EXCEPT ![a] = NoEntry]
      /\ dram' = [dram EXCEPT ![a] = d]
      /\ llc' = [llc EXCEPT ![a] = None]
      /\ blocking' = FALSE
      /\ pending' = pending
  BY DEF EvictFromLlc, SetEntry
<1>2. NoEntry \in Entry /\ NoEntry.st = "I" /\ NoEntry.st \notin DirBusy
  BY NoEntryType DEF NoEntry, DirBusy
<1>3. dram' \in [Lines -> Data] /\ pending' \in Seq(Request) /\ Len(pending') <= 1
  BY <1>1, StateFacts
<1> QED
  BY <1>1, <1>2, <1>3, LineStep

\* A transaction goes on or ends, as the next state says.
LEMMA MoveToInv ==
  ASSUME InterconnectTypeOK, LLCInv,
         NEW a \in Lines, NEW st \in DirStates, MoveTo(a, st),
         dir[a].st \in DirBusy,
         st \in {"M", "MM", "SM", "MI"} => dir[a].owner \in Cores,
         NEW d \in Data, llc' = [llc EXCEPT ![a] = d],
         UNCHANGED dram,
         req' \subseteq Request, wb' \subseteq Writeback,
         fwd' \subseteq Forward, rsp' \subseteq Response
  PROVE  InterconnectTypeOK' /\ LLCInv'
<1> DEFINE e == [dir[a] EXCEPT !.st = st]
<1>1. /\ dir[a] \in Entry /\ dram' \in [Lines -> Data]
      /\ pending \in Seq(Request) /\ Len(pending) <= 1
  BY StateFacts
<1>2. e \in Entry /\ e.st = st /\ e.owner = dir[a].owner
  BY <1>1, EntryTypes DEF Entry
<1>3. d # None
  BY ConstantsAssumption DEF Data
<1>4. pending # <<>> => Tail(pending) \in Seq(Request) /\ Len(Tail(pending)) <= 1
  BY <1>1, PendingStream, EmptySeq
<1> HIDE DEF e
<1>5. CASE /\ st \in DirBusy
           /\ dir' = [dir EXCEPT ![a] = e]
           /\ UNCHANGED <<blocking, pending>>
  BY <1>1, <1>2, <1>3, <1>5, LineStep
<1>6. CASE st \in DirStable /\ Finish(a, e)
  <2>1. /\ pending # <<>> /\ pending' = Tail(pending) /\ blocking' = FALSE
        /\ dir' = [dir EXCEPT ![a] = e]
    BY <1>6 DEF Finish, SetEntry
  <2>2. e.st \notin DirBusy
    BY <1>2, <1>6 DEF DirStable, DirBusy
  <2> QED
    BY <1>1, <1>2, <1>3, <1>4, <2>1, <2>2, LineStep
<1>7. CASE st = "I" /\ Finish(a, NoEntry)
  <2>1. /\ pending # <<>> /\ pending' = Tail(pending) /\ blocking' = FALSE
        /\ dir' = [dir EXCEPT ![a] = NoEntry]
    BY <1>7 DEF Finish, SetEntry
  <2>2. NoEntry \in Entry /\ NoEntry.st = "I" /\ NoEntry.st \notin DirBusy
    BY NoEntryType DEF NoEntry, DirBusy
  <2> QED
    BY <1>1, <1>3, <1>4, <2>1, <2>2, LineStep
<1> QED
  BY <1>5, <1>6, <1>7 DEF MoveTo, SetEntry, e

-----------------------------------------------------------------------------
(* Write-backs.                                                            *)

\* Write-back of a modified line by its owner.
LEMMA PutMFromOwnerInv ==
  ASSUME InterconnectTypeOK, LLCInv, NEW w, PutMFromOwner(w)
  PROVE  InterconnectTypeOK' /\ LLCInv'
<1> DEFINE a == w.addr
           e == [dir[a] EXCEPT !.st = "MI_RespOk"]
<1>1. a \in Lines /\ w.data \in Data /\ w.data # None
  BY ConstantsAssumption
     DEF PutMFromOwner, InterconnectTypeOK, Writeback, Data
<1>2. /\ req' \subseteq Request /\ wb' \subseteq Writeback
      /\ fwd' \subseteq Forward /\ rsp' \subseteq Response
  BY DEF PutMFromOwner, InterconnectTypeOK
<1>3. /\ dir[a] \in Entry /\ dram \in [Lines -> Data]
      /\ pending \in Seq(Request)
  BY <1>1, StateFacts
<1>4. CASE /\ dir[a].st = "M"
           /\ SetEntry(a, NoEntry)
           /\ llc' = [llc EXCEPT ![a] = w.data]
           /\ UNCHANGED <<dram, blocking, pending>>
  <2>1. /\ NoEntry \in Entry /\ NoEntry.st = "I"
        /\ NoEntry.st \notin DirBusy /\ dir[a].st \notin DirBusy
    BY <1>4, NoEntryType DEF NoEntry, DirBusy
  <2> QED
    BY <1>1, <1>2, <1>3, <1>4, <2>1, LineStep DEF SetEntry
<1>5. CASE /\ dir[a].st \in {"MM", "SM"}
           /\ SetEntry(a, e)
           /\ llc' = [llc EXCEPT ![a] = w.data]
           /\ UNCHANGED <<dram, blocking, pending>>
  <2>1. e \in Entry /\ e.st = "MI_RespOk" /\ e.st \in DirBusy /\ dir[a].st \in DirBusy
    BY <1>3, <1>5 DEF Entry, DirStates, DirBusy
  <2> HIDE DEF e
  <2> QED
    BY <1>1, <1>2, <1>3, <1>5, <2>1, LineStep DEF SetEntry
<1>6. CASE dir[a].st = "MI" /\ EvictFromLlc(a, w.data)
  BY <1>1, <1>2, <1>6, EvictFromLlcInv DEF DirBusy
<1> QED
  BY <1>4, <1>5, <1>6 DEF PutMFromOwner

\* Write-back of a modified line by a core that is the owner no longer.
LEMMA PutMFromNonOwnerInv ==
  ASSUME InterconnectTypeOK, LLCInv, NEW w, PutMFromNonOwner(w)
  PROVE  InterconnectTypeOK' /\ LLCInv'
<1> DEFINE a == w.addr
<1>1. a \in Lines /\ w.data \in Data /\ w.data # None
  BY ConstantsAssumption
     DEF PutMFromNonOwner, InterconnectTypeOK, Writeback, Data
<1>2. /\ req' \subseteq Request /\ wb' \subseteq Writeback
      /\ fwd' \subseteq Forward /\ rsp' \subseteq Response
  BY DEF PutMFromNonOwner, InterconnectTypeOK
<1>3. /\ dir' = [dir EXCEPT ![a] = NoEntry]
      /\ llc' = [llc EXCEPT ![a] = w.data]
      /\ dir[a].st \in DirBusy
      /\ blocking' = FALSE
      /\ UNCHANGED <<dram, pending>>
  BY DEF PutMFromNonOwner, PutMNonOwnerStates, SetEntry, DirBusy
<1>4. NoEntry \in Entry /\ NoEntry.st = "I" /\ NoEntry.st \notin DirBusy
  BY NoEntryType DEF NoEntry, DirBusy
<1>5. /\ dram' \in [Lines -> Data]
      /\ pending' \in Seq(Request) /\ Len(pending') <= 1
  BY <1>1, <1>3, StateFacts
<1> HIDE DEF a
<1> QED
  BY <1>1, <1>2, <1>3, <1>4, <1>5, LineStep

\* A sharer leaves.
LEMMA PutSInv ==
  ASSUME InterconnectTypeOK, LLCInv, NEW w, PutS(w)
  PROVE  InterconnectTypeOK' /\ LLCInv'
<1> DEFINE a == w.addr
<1>1. a \in Lines /\ w.src \in Cores
  BY DEF PutS, InterconnectTypeOK, Writeback
<1>2. req' \subseteq Request /\ wb' \subseteq Writeback /\ fwd' \subseteq Forward
  BY DEF PutS, InterconnectTypeOK
<1>3. /\ dir[a] \in Entry /\ dram \in [Lines -> Data]
      /\ pending \in Seq(Request) /\ Len(pending) <= 1
  BY <1>1, StateFacts
<1>4. CASE /\ dir[a].st = "SM"
           /\ rsp' = rsp \cup {AckMessage(a, Directory, dir[a].owner, w.src)}
           /\ UNCHANGED llcVars
  <2>1. dir[a].owner \in Cores
    BY <1>1, <1>4, StateFacts
  <2>2. Directory \in Nodes /\ dir[a].owner \in Nodes /\ w.src \in Nodes
    BY <1>1, <2>1 DEF Nodes
  <2>3. AckMessage(a, Directory, dir[a].owner, w.src) \in Response
    BY <1>1, <2>2 DEF AckMessage, Response, Data
  <2>4. InterconnectTypeOK'
    BY <1>2, <1>4, <2>3 DEF InterconnectTypeOK
  <2>5. LLCInv'
    BY <1>4 DEF llcVars, LLCInv, LLCTypeOK, Inclusive, DirHit, LlcHit,
                BlockingDiscipline, OwnerKnown
  <2> QED
    BY <2>4, <2>5
<1>5. CASE /\ dir[a].st \in PutSStates /\ dir[a].st # "SM"
           /\ SetEntry(a, DropSharer(dir[a], dir[a].st, w.src))
           /\ UNCHANGED <<rsp, llc, dram, blocking, pending>>
  <2> DEFINE e == DropSharer(dir[a], dir[a].st, w.src)
  <2>1. e \in Entry /\ e.st = dir[a].st /\ e.st \notin {"M", "MM", "SM", "MI"}
    BY <1>1, <1>3, <1>5, EntryTypes DEF Entry, DropSharer, PutSStates
  <2>2. rsp' \subseteq Response /\ dir[a].st # "I"
    BY <1>5 DEF InterconnectTypeOK, PutSStates
  <2> HIDE DEF e
  <2> QED
    BY <1>1, <1>2, <1>3, <1>5, <2>1, <2>2, EntryStep DEF SetEntry, e
<1>6. CASE /\ dir[a].st = "S"
           /\ SetEntry(a, NoEntry)
           /\ UNCHANGED <<rsp, llc, dram, blocking, pending>>
  <2>1. /\ NoEntry \in Entry /\ NoEntry.st = "I"
        /\ NoEntry.st \notin DirBusy /\ dir[a].st \notin DirBusy
    BY <1>6, NoEntryType DEF NoEntry, DirBusy
  <2>2. rsp' \subseteq Response
    BY <1>6 DEF InterconnectTypeOK
  <2> QED
    BY <1>1, <1>2, <1>3, <1>6, <2>1, <2>2, EntryStep DEF SetEntry
<1>7. CASE /\ dir[a].st \in {"MS_AD", "MS_A"}
           /\ SetEntry(a, DropSharer(dir[a], NextOnLastPutS(dir[a].st), w.src))
           /\ UNCHANGED <<rsp, llc, dram, blocking, pending>>
  <2> DEFINE st == NextOnLastPutS(dir[a].st)
             e == DropSharer(dir[a], st, w.src)
  <2>1. st \in {"MI_AD", "MI_RespOk"}
    BY DEF NextOnLastPutS
  <2>2. st \in DirStates /\ st \in DirBusy /\ dir[a].st \in DirBusy
    BY <1>7, <2>1 DEF DirStates, DirBusy
  <2> HIDE DEF st
  <2>3. e \in Entry /\ e.st = st
    BY <1>1, <1>3, <2>2, EntryTypes DEF DropSharer
  <2>4. rsp' \subseteq Response /\ dir[a].st # "I"
    BY <1>7 DEF InterconnectTypeOK
  <2>5. dir' = [dir EXCEPT ![a] = e]
    BY <1>7 DEF SetEntry, st
  <2> HIDE DEF e
  <2> QED
    BY <1>1, <1>2, <1>3, <1>7, <2>1, <2>2, <2>3, <2>4, <2>5, EntryStep
<1>8. CASE dir[a].st = "SI" /\ EvictFromLlc(a, llc[a]) /\ UNCHANGED rsp
  <2>1. llc[a] \in Data
    BY <1>1, <1>8, StateFacts
  <2>2. rsp' \subseteq Response /\ dir[a].st \in DirBusy
    BY <1>8 DEF InterconnectTypeOK, DirBusy
  <2> QED
    BY <1>1, <1>2, <1>8, <2>1, <2>2, EvictFromLlcInv
<1> QED
  BY <1>4, <1>5, <1>6, <1>7, <1>8 DEF PutS

-----------------------------------------------------------------------------
(* Responses to the directory.                                             *)

\* The owner's data.
LEMMA ReceiveDataRespInv ==
  ASSUME InterconnectTypeOK, LLCInv, NEW m \in rsp, ReceiveDataResp(m)
  PROVE  InterconnectTypeOK' /\ LLCInv'
<1> DEFINE a == m.addr
           st == NextOnDataResp[dir[a].st]
           d == IF dir[a].st \in UpdatesOnDataResp THEN m.data ELSE llc[a]
<1>1. a \in Lines /\ m.data \in Data
  BY DEF InterconnectTypeOK, Response
<1>2. /\ req' \subseteq Request /\ wb' \subseteq Writeback
      /\ fwd' \subseteq Forward /\ rsp' \subseteq Response
  BY DEF ReceiveDataResp, InterconnectTypeOK
<1>3. CASE /\ dir[a].st \in DOMAIN NextOnDataResp
           /\ MoveTo(a, st)
           /\ llc' = [llc EXCEPT ![a] = d]
           /\ UNCHANGED dram
  <2>1. dir[a].st \in {"MS_AD", "MS_D", "MI_AD", "MI_D"}
    BY <1>3 DEF NextOnDataResp
  <2>2. st \in {"MS_A", "S", "MI_A", "I"}
    BY <2>1 DEF NextOnDataResp
  <2>3. st \in DirStates /\ dir[a].st \in DirBusy
    BY <2>1, <2>2 DEF DirStates, DirStable, DirBusy
  <2>4. d \in Data
    BY <1>1, <2>1, StateFacts
  <2> HIDE DEF st, d
  <2> QED
    BY <1>1, <1>2, <1>3, <2>2, <2>3, <2>4, MoveToInv
<1>4. CASE dir[a].st = "MI" /\ EvictFromLlc(a, m.data)
  BY <1>1, <1>2, <1>4, EvictFromLlcInv DEF DirBusy
<1> QED
  BY <1>3, <1>4 DEF ReceiveDataResp

\* The requestor is done.
LEMMA ReceiveRespOkInv ==
  ASSUME InterconnectTypeOK, LLCInv, NEW m \in rsp, ReceiveRespOk(m)
  PROVE  InterconnectTypeOK' /\ LLCInv'
<1> DEFINE a == m.addr
           st == NextOnRespOk[dir[a].st]
<1>1. a \in Lines
  BY DEF InterconnectTypeOK, Response
<1>2. /\ req' \subseteq Request /\ wb' \subseteq Writeback
      /\ fwd' \subseteq Forward /\ rsp' \subseteq Response
  BY DEF ReceiveRespOk, InterconnectTypeOK
<1>3. /\ dir[a].st \in {"MM", "SM", "MS_A", "MS_AD", "MI_AD", "MI_A", "MI_RespOk"}
      /\ MoveTo(a, st)
      /\ UNCHANGED <<llc, dram>>
  BY DEF ReceiveRespOk, NextOnRespOk
<1>4. /\ st \in {"M", "S", "MS_D", "MI_D", "I"}
      /\ st = "M" => dir[a].st \in {"MM", "SM"}
  BY <1>3 DEF NextOnRespOk
<1>5. st \in DirStates /\ dir[a].st \in DirBusy
  BY <1>3, <1>4 DEF DirStates, DirStable, DirBusy
<1>6. st \in {"M", "MM", "SM", "MI"} => dir[a].owner \in Cores
  BY <1>1, <1>4, StateFacts
<1>7. llc[a] \in Data /\ llc' = [llc EXCEPT ![a] = llc[a]]
  BY <1>1, <1>3, StateFacts DEF LLCInv, LLCTypeOK
<1> HIDE DEF st
<1> QED
  BY <1>1, <1>2, <1>3, <1>5, <1>6, <1>7, MoveToInv

\* A sharer of a victim has given it up.
LEMMA ReceiveInvAckInv ==
  ASSUME InterconnectTypeOK, LLCInv, NEW m \in rsp, ReceiveInvAck(m)
  PROVE  InterconnectTypeOK' /\ LLCInv'
<1> DEFINE a == m.addr
           e == DropSharer(dir[a], dir[a].st, m.src)
<1>1. a \in Lines /\ dir[a].st = "SI"
  BY DEF ReceiveInvAck, InterconnectTypeOK, Response
<1>2. /\ req' \subseteq Request /\ wb' \subseteq Writeback
      /\ fwd' \subseteq Forward /\ rsp' \subseteq Response
  BY DEF ReceiveInvAck, InterconnectTypeOK
<1>3. /\ dir[a] \in Entry /\ llc[a] \in Data /\ dram \in [Lines -> Data]
      /\ pending \in Seq(Request)
  BY <1>1, StateFacts
<1>4. CASE /\ m.src \in dir[a].sharers
           /\ SetEntry(a, e)
           /\ UNCHANGED <<llc, dram, blocking, pending>>
  <2>1. m.src \in Cores
    BY <1>3, <1>4 DEF Entry
  <2>2. e \in Entry /\ e.st = "SI"
    BY <1>1, <1>3, <2>1, EntryTypes DEF Entry, DropSharer
  <2> HIDE DEF e
  <2> QED
    BY <1>1, <1>2, <1>3, <1>4, <2>2, EntryStep DEF SetEntry
<1>5. CASE EvictFromLlc(a, llc[a])
  BY <1>1, <1>2, <1>3, <1>5, EvictFromLlcInv DEF DirBusy
<1> QED
  BY <1>4, <1>5 DEF ReceiveInvAck

-----------------------------------------------------------------------------
\* Every step of the LLC preserves its invariant and the types of the messages.
THEOREM LLCPreservesInv ==
  ASSUME InterconnectTypeOK, LLCInv,
         (\E c \in Cores : RequestStep(c)) \/ WritebackStep \/ DirResponseStep
  PROVE  InterconnectTypeOK' /\ LLCInv'
<1>1. CASE \E c \in Cores : RequestStep(c)
  BY <1>1, TakeRequestInv DEF RequestStep
<1>2. CASE WritebackStep
  BY <1>2, PutMFromOwnerInv, PutMFromNonOwnerInv, PutSInv DEF WritebackStep
<1>3. CASE DirResponseStep
  BY <1>3, ReceiveDataRespInv, ReceiveRespOkInv, ReceiveInvAckInv
     DEF DirResponseStep
<1> QED
  BY <1>1, <1>2, <1>3

\* The initial state satisfies it.
THEOREM LLCInitInv ==
  ASSUME LLCInit
  PROVE  LLCInv
<1>1. LLCTypeOK
  BY NoEntryType, EmptySeq, ConstantsAssumption DEF LLCInit, LLCTypeOK, Data
<1>2. Inclusive /\ OwnerKnown
  BY DEF LLCInit, Inclusive, OwnerKnown, DirHit, NoEntry
<1>3. BlockingDiscipline
  BY EmptySeq DEF LLCInit, BlockingDiscipline, NoEntry, DirBusy
<1> QED
  BY <1>1, <1>2, <1>3 DEF LLCInv

-----------------------------------------------------------------------------
(* The whole system.                                                       *)

\* After reset nothing is cached, pending or in flight.
LEMMA InitInv == Init => Inv
<1> SUFFICES ASSUME Init PROVE Inv
  OBVIOUS
<1>1. InterconnectTypeOK
  BY DEF Init, InterconnectInit, InterconnectTypeOK
<1>2. CacheInv
  BY CacheInitInv DEF Init
<1>3. LLCInv
  BY LLCInitInv DEF Init
<1> QED
  BY <1>1, <1>2, <1>3 DEF Inv

\* A step of the LLC leaves the caches' part of Inv alone.
LEMMA CacheInvUnchanged == CacheInv /\ UNCHANGED cacheVars => CacheInv'
BY DEF cacheVars, CacheInv, CacheTypeOK, HitExclusive, Hit, HitPr, WaysFit,
       Held, MshrMatchesPr, ForwardeeKnown

\* A step of a cache leaves the LLC's part of Inv alone.
LEMMA LLCInvUnchanged == LLCInv /\ UNCHANGED llcVars => LLCInv'
BY DEF llcVars, LLCInv, LLCTypeOK, Inclusive, DirHit, LlcHit,
       BlockingDiscipline, OwnerKnown

\* Inv is inductive: every handler call of any component preserves it.
LEMMA NextInv == Inv /\ [Next]_vars => Inv'
<1> SUFFICES ASSUME Inv, [Next]_vars PROVE Inv'
  OBVIOUS
<1>1. InterconnectTypeOK /\ CacheInv /\ LLCInv
  BY DEF Inv
<1>2. ASSUME NEW c \in Cores, CacheStep(c), UNCHANGED llcVars
      PROVE  Inv'
  <2>1. InterconnectTypeOK' /\ CacheInv'
    BY <1>1, <1>2, CachePreservesInv DEF CacheStep
  <2>2. LLCInv'
    BY <1>1, <1>2, LLCInvUnchanged
  <2> QED
    BY <2>1, <2>2 DEF Inv
<1>3. CASE DirectoryStep /\ UNCHANGED cacheVars
  <2>1. InterconnectTypeOK' /\ LLCInv'
    BY <1>1, <1>3, LLCPreservesInv DEF DirectoryStep
  <2>2. CacheInv'
    BY <1>1, <1>3, CacheInvUnchanged
  <2> QED
    BY <2>1, <2>2 DEF Inv
<1>4. CASE UNCHANGED vars
  <2>1. UNCHANGED networks /\ UNCHANGED cacheVars /\ UNCHANGED llcVars
    BY <1>4 DEF vars
  <2>2. InterconnectTypeOK'
    BY <1>1, <2>1 DEF networks, InterconnectTypeOK
  <2> QED
    BY <1>1, <2>1, <2>2, CacheInvUnchanged, LLCInvUnchanged DEF Inv
<1> QED
  BY <1>2, <1>3, <1>4 DEF Next

\* Whatever the number of cores, lines and ways, every reachable state has
\* the types of the model, one place per line, one pending request per core,
\* an inclusive LLC and a directory that blocks for exactly one line.
THEOREM InvInvariant == Spec => []Inv
BY InitInv, NextInv, PTL DEF Spec

-----------------------------------------------------------------------------
\* The types of all the state and of every message.
THEOREM TypeCorrect == Spec => []TypeOK
<1>1. Inv => TypeOK
  BY DEF Inv, CacheInv, LLCInv, TypeOK
<1> QED
  BY <1>1, InvInvariant, PTL

\* No line is in the tag array and in PR at once (the assertion commented out
\* in private_cache()).
THEOREM NoDoubleHit == Spec => []HitExclusive
<1>1. Inv => HitExclusive
  BY DEF Inv, CacheInv
<1> QED
  BY <1>1, InvInvariant, PTL

\* The way a pending line will need is always free.
THEOREM PendingLineHasWay == Spec => []WaysFit
<1>1. Inv => WaysFit
  BY DEF Inv, CacheInv
<1> QED
  BY <1>1, InvInvariant, PTL

\* MSHR and PR agree on the request being served.
THEOREM MshrAgreesWithPr == Spec => []MshrMatchesPr
<1>1. Inv => MshrMatchesPr
  BY DEF Inv, CacheInv
<1> QED
  BY <1>1, InvInvariant, PTL

\* The LLC is inclusive of every line the directory tracks.
THEOREM LLCInclusive == Spec => []Inclusive
<1>1. Inv => Inclusive
  BY DEF Inv, LLCInv
<1> QED
  BY <1>1, InvInvariant, PTL

\* The directory blocks exactly while one line is in transition, and holds one
\* pending request then.
THEOREM DirectoryBlocks == Spec => []BlockingDiscipline
<1>1. Inv => BlockingDiscipline
  BY DEF Inv, LLCInv
<1> QED
  BY <1>1, InvInvariant, PTL
=============================================================================
