---------------------------- MODULE NetworkProofs ----------------------------
(***************************************************************************)
(* The response network, for every size of the torus, any set of ports and *)
(* queues of any depth: its types, and that it implements Delivery.        *)
(***************************************************************************)
EXTENDS Network, HopliteProofs, SequenceTheorems

-----------------------------------------------------------------------------
(* Ports and their routers.                                                *)

LEMMA Division ==
  ASSUME NEW n \in Nat, NEW i \in Nat, NEW m \in Nat \ {0}, i < n * m
  PROVE  i \div m \in 0 .. n - 1 /\ i % m \in 0 .. m - 1
<1> DEFINE q == i \div m
<1>1. q \in Nat /\ i % m \in 0 .. m - 1 /\ i >= m * q
  OBVIOUS
<1> HIDE DEF q
<1>2. q < n
  <2>1. ASSUME q >= n PROVE FALSE
    <3>1. m * q >= m * n
      BY <1>1, <2>1
    <3> QED
      BY <1>1, <3>1
  <2> QED
    BY <1>1, <2>1
<1> QED
  BY <1>1, <1>2 DEF q

LEMMA SameQuotient ==
  ASSUME NEW i \in Nat, NEW j \in Nat, NEW m \in Nat \ {0},
         i \div m = j \div m, i % m = j % m
  PROVE  i = j
OBVIOUS

LEMMA CoreFacts ==
  ASSUME NEW c \in Cores
  PROVE  /\ c \in Nat /\ c < X_DIM * Y_DIM /\ c < MaxCores
         /\ c # Dir /\ c \in Ports
BY NetworkAssumption, AdapterAssumption, HopliteAssumption DEF Cores, Dir

LEMMA PortFacts ==
  /\ 0 \in Cores /\ Dir \in Ports /\ Dir \notin Cores /\ Dir # 0
  /\ \A e \in Ports : e \in Cores \/ e = Dir
  /\ \A e \in Ports : e \in Nat /\ e < 2 * MaxCores
  /\ \A e \in Ports : e >= MaxCores <=> e = Dir
<1>1. /\ 0 \in Cores /\ Dir \in Ports /\ Dir \notin Cores /\ Dir # 0
      /\ \A e \in Ports : e \in Cores \/ e = Dir
  BY NetworkAssumption, AdapterAssumption DEF Cores, Dir
<1>2. MaxCores \in Nat \ {0} /\ Dir = MaxCores
  BY AdapterAssumption DEF Dir
<1>3. ASSUME NEW e \in Ports
      PROVE  e \in Nat /\ e < 2 * MaxCores /\ (e >= MaxCores <=> e = Dir)
  BY <1>1, <1>2, CoreFacts
<1> QED
  BY <1>1, <1>3

LEMMA PortsFinite == IsFiniteSet(Ports)
<1>1. X_DIM * Y_DIM - 1 \in Int
  BY HopliteAssumption
<1>2. IsFiniteSet(0 .. X_DIM * Y_DIM - 1)
  BY <1>1, FS_Interval
<1>3. IsFiniteSet(Cores)
  BY <1>2, NetworkAssumption, FS_Subset
<1>4. IsFiniteSet(Cores \cup {Dir})
  BY <1>3, FS_AddElement
<1>5. Ports = Cores \cup {Dir}
  BY PortFacts, CoreFacts
<1> QED
  BY <1>4, <1>5

LEMMA CoreAddress ==
  ASSUME NEW c \in Cores
  PROVE  Address(c) \in Routers /\ RouterOf(c) = Address(c)
<1>1. c \div Y_DIM \in 0 .. X_DIM - 1 /\ c % Y_DIM \in 0 .. Y_DIM - 1
  BY CoreFacts, Division, HopliteAssumption
<1> QED
  BY <1>1, CoreFacts DEF Address, Routers, RouterOf

LEMMA CoreZero == Address(0) = Router0 /\ Router0 \in Routers
<1>1. 0 \div Y_DIM = 0 /\ 0 % Y_DIM = 0
  BY HopliteAssumption
<1> QED
  BY <1>1, HopliteAssumption DEF Address, Router0, Routers

LEMMA SameAddress ==
  ASSUME NEW c \in Cores, NEW d \in Cores, Address(c) = Address(d)
  PROVE  c = d
<1>1. c \div Y_DIM = d \div Y_DIM /\ c % Y_DIM = d % Y_DIM
  BY DEF Address
<1> QED
  BY <1>1, CoreFacts, SameQuotient, HopliteAssumption

LEMMA RouterOfPort ==
  /\ \A e \in Ports : RouterOf(e) \in Routers
  /\ RouterOf(Dir) = Router0
  /\ \A c \in Cores : RouterOf(c) = Router0 <=> c = 0
  /\ \A c, d \in Cores : RouterOf(c) = RouterOf(d) => c = d
<1>1. RouterOf(Dir) = Router0
  BY DEF RouterOf
<1>2. \A e \in Ports : RouterOf(e) \in Routers
  BY <1>1, CoreZero, CoreAddress, PortFacts
<1>3. \A c, d \in Cores : RouterOf(c) = RouterOf(d) => c = d
  BY CoreAddress, SameAddress
<1>4. RouterOf(0) = Router0
  BY PortFacts, CoreZero, CoreAddress
<1> QED
  BY <1>1, <1>2, <1>3, <1>4, PortFacts

\* A flit is a copy for one port.
LEMMA CopyUnique ==
  ASSUME NEW f, NEW s, NEW d \in Ports, NEW t, NEW e \in Ports,
         IsCopy(f, s, d), IsCopy(f, t, e)
  PROVE  s = t /\ d = e
<1>1. s = t /\ RouterOf(d) = RouterOf(e)
      /\ (RouterOf(d) = Router0 => (d = Dir <=> e = Dir))
  BY DEF IsCopy
<1> QED
  BY <1>1, RouterOfPort, PortFacts

LEMMA CopyAged ==
  ASSUME NEW f \in Flit, NEW s, NEW d
  PROVE  IsCopy(Aged(f), s, d) <=> IsCopy(f, s, d)
<1>1. /\ f # None /\ Aged(f) # None
      /\ Aged(f).dst = f.dst /\ Aged(f).packet = f.packet
  BY FlitParts, AgedFlit DEF Aged, Flit
<1> QED
  BY <1>1 DEF IsCopy

-----------------------------------------------------------------------------
(* What the adapters and the arbiter offer the torus.                      *)

\* An adapter's flit is for the port it has counted to.
LEMMA OutFlitTyped ==
  ASSUME TypeOK, MessagesReady, NEW e \in Ports, OutValid(e)
  PROVE  /\ OutFlit(e) \in Flit
         /\ counter[e] \in Ports
         /\ OutFlit(e).dst = RouterOf(counter[e])
         /\ OutFlit(e).packet = [src |-> e, bit |-> OutBit(e)]
<1> DEFINE d == counter[e]
           p == [src |-> e, bit |-> OutBit(e)]
<1>1. d \in Ports
  BY DEF OutValid, MessagesReady, Ready
<1>2. Address(Router(e)) = RouterOf(d)
  <2>1. CASE d = Dir
    <3>1. Router(e) = 0
      BY <2>1, PortFacts, AdapterAssumption DEF Router, Dir
    <3> QED
      BY <2>1, <3>1, CoreZero, RouterOfPort
  <2>2. CASE d \in Cores
    <3>1. Router(e) = d
      BY <2>2, CoreFacts, AdapterAssumption DEF Router
    <3> QED
      BY <2>2, <3>1, CoreAddress
  <2> QED
    BY <1>1, <2>1, <2>2, PortFacts
<1>3. p \in Packets
  <2>1. OutBit(e) \in BOOLEAN
    BY DEF OutBit, OutValid, TypeOK, AdapterTypeOK, Message
  <2> QED
    BY <2>1, NetworkAssumption
<1>4. RouterOf(e) \in Routers /\ RouterOf(d) \in Routers
  BY <1>1, RouterOfPort
<1>5. InflightLatency(RouterOf(e), RouterOf(d)) \in Int
  BY <1>4, LatencyInRows
<1>6. OutFlit(e) = [src |-> RouterOf(e), dst |-> RouterOf(d), packet |-> p,
                    budget |-> InflightLatency(RouterOf(e), RouterOf(d))]
  BY <1>2 DEF OutFlit, Offered
<1> HIDE DEF d, p
<1> QED
  BY <1>1, <1>3, <1>4, <1>5, <1>6 DEF Flit, d, p

\* The port it is for, bit 31 considered.
Heading(e) == Named(counter[e], inReg[e].bit)

\* Bit 31 takes a copy nowhere but from core 0 to the directory.
LEMMA NamedPort ==
  ASSUME NEW d \in Ports, NEW bit \in BOOLEAN, bit => d # Dir
  PROVE  /\ Named(d, bit) \in Ports
         /\ RouterOf(Named(d, bit)) = RouterOf(d)
         /\ RouterOf(d) = Router0 => (Named(d, bit) = Dir <=> d = Dir \/ bit)
<1>1. RouterOf(0) = Router0 /\ RouterOf(Dir) = Router0
  BY RouterOfPort, PortFacts
<1>2. RouterOf(d) = Router0 => d \in {0, Dir}
  BY RouterOfPort, PortFacts
<1> QED
  BY <1>1, <1>2, PortFacts DEF Named

\* No two destinations of a message are one port.
LEMMA NamedApart ==
  ASSUME NEW bit \in BOOLEAN, NEW D \in SUBSET Ports, bit => Dir \notin D,
         NEW b \in D, NEW d \in D, Named(b, bit) = Named(d, bit)
  PROVE  b = d
BY PortFacts DEF Named

LEMMA OutFlitCopy ==
  ASSUME TypeOK, MessagesReady, BitsApart, NEW e \in Ports, OutValid(e)
  PROVE  Heading(e) \in Ports /\ IsCopy(OutFlit(e), e, Heading(e))
<1> DEFINE bit == inReg[e].bit
           d == counter[e]
<1>1. bit \in BOOLEAN /\ d \in inReg[e].dst /\ (bit => Dir \notin inReg[e].dst)
  BY DEF OutValid, BitsApart, Ready, TypeOK, AdapterTypeOK, Message
<1>2. d \in Ports /\ OutBit(e) \in BOOLEAN /\ (OutBit(e) <=> d = Dir \/ bit)
  BY <1>1, OutFlitTyped, PortFacts DEF OutBit
<1>3. /\ Heading(e) \in Ports /\ RouterOf(Heading(e)) = RouterOf(d)
      /\ RouterOf(d) = Router0 => (Heading(e) = Dir <=> OutBit(e))
  BY <1>1, <1>2, NamedPort DEF Heading
<1>4. /\ OutFlit(e) # None /\ OutFlit(e).packet.src = e
      /\ OutFlit(e).packet.bit = OutBit(e)
      /\ OutFlit(e).dst = RouterOf(d)
  <2>1. /\ OutFlit(e) \in Flit
        /\ OutFlit(e).dst = RouterOf(d)
        /\ OutFlit(e).packet = [src |-> e, bit |-> OutBit(e)]
    BY OutFlitTyped
  <2>2. OutFlit(e) # None
    BY <2>1, NoneIsNoFlit
  <2> QED
    BY <2>1, <2>2
<1>5. RouterOf(d) = Router0 => OutBit(e) = (Heading(e) = Dir)
  BY <1>2, <1>3
<1> HIDE DEF bit, d
<1> QED
  BY <1>3, <1>4, <1>5, Zenon DEF IsCopy

\* The arbiter serves a port that asks.
LEMMA SelectedAsks ==
  ASSUME Requests # {}, ArbiterWaits
  PROVE  Selected \in Requests
<1>1. CASE locked
  BY <1>1 DEF Selected, ArbiterWaits
<1>2. CASE ~locked /\ Requests = {0, Dir}
  <2>1. \E e \in Requests : e # granted
    BY <1>2, PortFacts
  <2>2. Selected = CHOOSE e \in Requests : e # granted
    BY <1>2 DEF Selected
  <2> HIDE DEF Requests
  <2> QED
    BY <2>1, <2>2
<1>3. CASE ~locked /\ Requests # {0, Dir}
  BY <1>3 DEF Selected
<1> QED
  BY <1>1, <1>2, <1>3

\* The word that port e has for its router.
Word(e) == IF e = Dir THEN OutFlit(Dir) ELSE Head(outQ[e])

LEMMA SpeakerHas ==
  ASSUME ArbiterWaits, NEW e \in Ports, Speaks(e)
  PROVE  IF e = Dir THEN OutValid(Dir) ELSE outQ[e] # <<>>
<1>1. CASE e \in {0, Dir}
  <2>1. e \in Requests
    BY <1>1, SelectedAsks DEF Speaks
  <2> QED
    BY <1>1, <2>1 DEF Requests
<1>2. CASE e \notin {0, Dir}
  BY <1>2 DEF Speaks
<1> QED
  BY <1>1, <1>2

LEMMA OneSpeaks ==
  ASSUME NEW d \in Ports, NEW e \in Ports, Speaks(d), Speaks(e),
         RouterOf(d) = RouterOf(e)
  PROVE  d = e
<1>1. CASE d \in Cores /\ e \in Cores
  BY <1>1, RouterOfPort
<1>2. CASE d \in {0, Dir} /\ e \in {0, Dir}
  BY <1>2 DEF Speaks
<1> QED
  BY <1>1, <1>2, RouterOfPort, PortFacts

LEMMA WordTyped ==
  ASSUME TypeOK, MessagesReady, ArbiterWaits, NEW e \in Ports, Speaks(e)
  PROVE  Word(e) \in Flit
<1>1. CASE e = Dir
  BY <1>1, SpeakerHas, OutFlitTyped DEF Word
<1>2. CASE e \in Cores
  <2>1. outQ[e] \in Seq(Flit) /\ outQ[e] # <<>> /\ e # Dir
    BY <1>2, SpeakerHas, CoreFacts DEF TypeOK
  <2> QED
    BY <2>1, HeadTailProperties DEF Word
<1> QED
  BY <1>1, <1>2, PortFacts

LEMMA OfferedWord ==
  /\ \A e \in Ports : Speaks(e) => Offer[RouterOf(e)] = Word(e)
  /\ \A r \in Routers : \/ Offer[r] = None
                        \/ \E e \in Ports : Speaks(e) /\ RouterOf(e) = r
<1>1. ASSUME NEW e \in Ports, Speaks(e)
      PROVE  Offer[RouterOf(e)] = Word(e)
  <2> DEFINE r == RouterOf(e)
             p == CHOOSE p \in Ports : RouterOf(p) = r /\ Speaks(p)
  <2>1. p \in Ports /\ RouterOf(p) = r /\ Speaks(p)
    BY <1>1
  <2>2. p = e
    BY <1>1, <2>1, OneSpeaks
  <2>3. r \in Routers
    BY RouterOfPort
  <2>4. Offer[r] = IF p = Dir THEN OutFlit(Dir) ELSE Head(outQ[p])
    BY <1>1, <2>3 DEF Offer
  <2> HIDE DEF p
  <2> QED
    BY <2>2, <2>4 DEF Word
<1>2. ASSUME NEW r \in Routers,
             ~ \E e \in Ports : RouterOf(e) = r /\ Speaks(e)
      PROVE  Offer[r] = None
  BY <1>2 DEF Offer
<1> QED
  BY <1>1, <1>2

LEMMA OfferTyped ==
  ASSUME TypeOK, MessagesReady, ArbiterWaits
  PROVE  Offer \in [Routers -> Flit \cup {None}]
<1>1. \A r \in Routers : Offer[r] \in Flit \cup {None}
  BY OfferedWord, WordTyped
<1>2. Offer = [r \in Routers |-> Offer[r]]
  BY DEF Offer
<1> QED
  BY <1>1, <1>2

-----------------------------------------------------------------------------
(* Types.                                                                  *)

\* Whoever is sent speaks; whoever is fired has a flit out.
LEMMA SentFired ==
  /\ Sent \subseteq Ports /\ Fired \subseteq Ports
  /\ \A e \in Sent : Speaks(e)
  /\ \A c \in Cores : c \in Fired <=> OutValid(c) /\ Len(outQ[c]) < SendDepth
  /\ Dir \in Fired <=> Dir \in Sent
BY CoreFacts, PortFacts DEF Sent, Fired

LEMMA FiredValid ==
  ASSUME ArbiterWaits, NEW e \in Fired
  PROVE  OutValid(e)
<1>1. CASE e = Dir
  BY <1>1, SentFired, SpeakerHas, PortFacts
<1>2. CASE e \in Cores
  BY <1>2, SentFired
<1> QED
  BY <1>1, <1>2, SentFired, PortFacts

\* The queue behind an adapter before its flit is added.
Popped(c) == IF c \in Sent THEN Tail(outQ[c]) ELSE outQ[c]

LEMMA PoppedTyped ==
  ASSUME TypeOK, ArbiterWaits, NEW c \in Cores
  PROVE  /\ Popped(c) \in Seq(Flit)
         /\ Len(Popped(c)) <= Len(outQ[c])
<1>1. outQ[c] \in Seq(Flit)
  BY DEF TypeOK
<1>2. CASE c \in Sent
  <2>1. outQ[c] # <<>>
    BY <1>2, SentFired, SpeakerHas, CoreFacts
  <2>2. /\ Tail(outQ[c]) \in Seq(Flit)
        /\ Len(Tail(outQ[c])) = Len(outQ[c]) - 1
    BY <1>1, <2>1, HeadTailProperties
  <2>3. Len(outQ[c]) \in Nat
    BY <1>1, LenProperties
  <2> QED
    BY <1>2, <2>2, <2>3 DEF Popped
<1>3. CASE c \notin Sent
  <2>1. Len(outQ[c]) \in Nat
    BY <1>1, LenProperties
  <2> QED
    BY <1>1, <1>3, <2>1 DEF Popped
<1> QED
  BY <1>2, <1>3

LEMMA QueueStep ==
  ASSUME Tick, NEW c \in Cores
  PROVE  outQ'[c] = IF c \in Fired THEN Popped(c) \o <<OutFlit(c)>>
                                   ELSE Popped(c) \o <<>>
BY DEF Tick, Popped

LEMMA QueueTyped ==
  ASSUME TypeOK, MessagesReady, ArbiterWaits, Tick, NEW c \in Cores
  PROVE  /\ outQ'[c] \in Seq(Flit)
         /\ Len(outQ'[c]) <= SendDepth
         /\ outQ[c] # <<>> /\ c \notin Sent => outQ'[c] # <<>>
<1> DEFINE q == Popped(c)
           w == OutFlit(c)
<1>1. /\ q \in Seq(Flit) /\ Len(q) \in Nat /\ Len(q) <= Len(outQ[c])
      /\ Len(outQ[c]) \in Nat /\ Len(outQ[c]) <= SendDepth
      /\ c \notin Sent => q = outQ[c]
  BY PoppedTyped, LenProperties DEF TypeOK, Popped
<1>2. SendDepth \in Nat
  BY NetworkAssumption
<1>3. CASE c \in Fired
  <2>1. w \in Flit /\ Len(outQ[c]) < SendDepth
    BY <1>3, SentFired, OutFlitTyped, CoreFacts
  <2>2. outQ'[c] = q \o <<w>>
    BY <1>3, QueueStep
  <2> HIDE DEF q, w
  <2>3. <<w>> \in Seq(Flit) /\ Len(<<w>>) = 1
    BY <2>1
  <2>4. /\ q \o <<w>> \in Seq(Flit)
        /\ Len(q \o <<w>>) = Len(q) + 1
    BY <1>1, <2>3, ConcatProperties
  <2>5. q \o <<w>> # <<>>
    BY <1>1, <2>4, EmptySeq
  <2> QED
    BY <1>1, <1>2, <2>1, <2>2, <2>4, <2>5
<1>4. CASE c \notin Fired
  <2>1. outQ'[c] = q
    BY <1>1, <1>4, QueueStep, ConcatEmptySeq
  <2> HIDE DEF q
  <2> QED
    BY <1>1, <1>2, <2>1
<1> QED
  BY <1>3, <1>4

LEMMA ArbiterStep ==
  ASSUME TypeOK, MessagesReady, ArbiterWaits, Tick
  PROVE  granted' \in {0, Dir} /\ locked' \in BOOLEAN /\ ArbiterWaits'
<1>1. CASE Requests = {}
  <2>1. ~locked /\ granted' = granted /\ locked' = locked
    BY <1>1 DEF ArbiterWaits, Tick
  <2> QED
    BY <2>1 DEF ArbiterWaits, TypeOK
<1>2. CASE Requests # {}
  <2>1. Selected \in Requests
    BY <1>2, SelectedAsks
  <2>2. granted' = Selected /\ (locked' <=> Selected \notin Sent)
    <3>1. granted' = Selected /\ locked' = (Sent \cap Requests = {})
      BY <1>2 DEF Tick
    <3>2. \A e \in Sent \cap Requests : e = Selected
      <4>1. \A e \in Sent : Speaks(e)
        BY SentFired
      <4>2. \A e \in Requests : e \in {0, Dir}
        BY DEF Requests
      <4> QED
        BY <4>1, <4>2 DEF Speaks
    <3> QED
      BY <2>1, <3>1, <3>2
  <2>3. Selected \in {0, Dir} /\ locked' \in BOOLEAN
    BY <1>2, <2>1 DEF Requests, Tick
  <2>4. CASE Selected = Dir /\ Dir \notin Sent
    <3>1. OutValid(Dir) /\ Dir \notin Fired
      BY <2>1, <2>4, SentFired DEF Requests
    <3>2. ~Advances(Dir, Fired)
      BY <3>1 DEF Advances
    <3>3. inReg'[Dir] = inReg[Dir] /\ counter'[Dir] = counter[Dir]
      BY <3>2, PortFacts DEF Tick, AdapterClock
    <3>4. OutValid(Dir)'
      BY <3>1, <3>3 DEF OutValid
    <3> QED
      BY <2>2, <2>3, <2>4, <3>4, PortFacts DEF ArbiterWaits, Requests
  <2>5. CASE Selected = 0 /\ 0 \notin Sent
    <3>1. outQ[0] # <<>>
      BY <2>1, <2>5, PortFacts DEF Requests
    <3>2. outQ'[0] # <<>>
      BY <2>5, <3>1, PortFacts, QueueTyped
    <3> QED
      BY <2>2, <2>3, <2>5, <3>2, PortFacts DEF ArbiterWaits, Requests
  <2> QED
    BY <2>2, <2>3, <2>4, <2>5 DEF ArbiterWaits
<1> QED
  BY <1>1, <1>2

LEMMA AdapterStep ==
  ASSUME TypeOK, MessagesReady, Tick
  PROVE  AdapterTypeOK' /\ MessagesReady'
<1>1. ASSUME NEW e \in Ports
      PROVE  /\ inReg'[e] \in Message \cup {NoMessage}
             /\ counter'[e] \in Fanout
             /\ IF inReg'[e] = NoMessage THEN counter'[e] = 0
                                         ELSE inReg'[e].dst \subseteq Ports
  <2>1. /\ inReg[e] \in Message \cup {NoMessage} /\ counter[e] \in 0 .. 2 * MaxCores - 1
        /\ IF inReg[e] = NoMessage THEN counter[e] = 0 ELSE inReg[e].dst \subseteq Ports
    BY DEF TypeOK, AdapterTypeOK, MessagesReady, Ready, Fanout
  <2>2. /\ inReg'[e] = IF Advances(e, Fired) /\ Overflows(e) THEN NoMessage ELSE inReg[e]
        /\ counter'[e] = IF Advances(e, Fired) THEN (counter[e] + 1) % (2 * MaxCores)
                                               ELSE counter[e]
    BY DEF Tick, AdapterClock
  <2>3. MaxCores \in Nat \ {0}
    BY AdapterAssumption
  <2>4. /\ (counter[e] + 1) % (2 * MaxCores) \in 0 .. 2 * MaxCores - 1
        /\ Overflows(e) => (counter[e] + 1) % (2 * MaxCores) = 0
    <3> DEFINE n == 2 * MaxCores
               k == counter[e] + 1
    <3>1. n \in Nat \ {0} /\ k \in Nat
      BY <2>1, <2>3
    <3>2. Overflows(e) => k = n
      BY <2>1, <2>3 DEF Overflows
    <3> HIDE DEF n, k
    <3>3. k % n \in 0 .. n - 1 /\ (k = n => k % n = 0)
      BY <3>1
    <3> QED
      BY <3>2, <3>3 DEF n, k
  <2>5. Advances(e, Fired) => inReg[e] # NoMessage
    BY DEF Advances
  <2> QED
    BY <2>1, <2>2, <2>4, <2>5 DEF Fanout
<1>2. inReg' = [e \in Ports |-> inReg'[e]] /\ counter' = [e \in Ports |-> counter'[e]]
  BY DEF Tick, AdapterClock
<1> QED
  BY <1>1, <1>2 DEF AdapterTypeOK, MessagesReady, Ready

LEMMA ReceiveTyped ==
  ASSUME TypeInv, Tick
  PROVE  recvQ' \in [Ports -> Seq(Ports)] /\ \A e \in Ports : Len(recvQ'[e]) <= QueueDepth
<1>1. ASSUME NEW e \in Ports
      PROVE  recvQ'[e] \in Seq(Ports) /\ Len(recvQ'[e]) <= QueueDepth
  <2> DEFINE q == recvQ[e]
             s == yPkt[RouterOf(e)].packet.src
  <2>1. q \in Seq(Ports) /\ Len(q) <= QueueDepth
    BY DEF TypeInv, TypeOK
  <2>2. recvQ'[e] = IF Arriving(e) /\ Len(q) < QueueDepth THEN Append(q, s) ELSE q
    BY DEF Tick
  <2>3. Arriving(e) => s \in Ports
    <3>1. RouterOf(e) \in Routers
      BY RouterOfPort
    <3>2. Arriving(e) => yPkt[RouterOf(e)] \in Flit
      BY <3>1 DEF Arriving, TypeInv, SouthValid, TypeOK, TorusTypeOK
    <3> QED
      BY <3>2, NetworkAssumption DEF Flit
  <2>4. QueueDepth \in Nat
    BY NetworkAssumption
  <2> HIDE DEF q, s
  <2>5. s \in Ports => Append(q, s) \in Seq(Ports) /\ Len(Append(q, s)) = Len(q) + 1
    BY <2>1, AppendProperties
  <2>6. Len(q) \in Nat
    BY <2>1, LenProperties
  <2> QED
    BY <2>1, <2>2, <2>3, <2>4, <2>5, <2>6
<1>2. recvQ' = [e \in Ports |-> recvQ'[e]]
  BY DEF Tick
<1> QED
  BY <1>1, <1>2

LEMMA TickTyped == TypeInv /\ Tick => TypeInv'
<1> SUFFICES ASSUME TypeInv, Tick PROVE TypeInv'
  OBVIOUS
<1>1. TypeOK /\ MessagesReady /\ ArbiterWaits /\ FlitsInPlace
  BY DEF TypeInv
<1>2. Offer \in [Routers -> Flit \cup {None}]
  BY <1>1, OfferTyped
<1>3. TorusTypeOK' /\ FlitsInPlace' /\ SouthValid'
  <2>1. TorusTypeOK /\ Clock(Offer)
    BY <1>1 DEF TypeOK, Tick
  <2> QED
    BY <1>1, <1>2, <2>1, ClockTyped, ClockInPlace DEF SouthValid
<1>4. outQ' \in [Cores -> Seq(Flit)] /\ \A c \in Cores : Len(outQ'[c]) <= SendDepth
  <2>1. outQ' = [c \in Cores |-> outQ'[c]]
    BY DEF Tick
  <2> QED
    BY <1>1, <2>1, QueueTyped
<1>5. granted' \in {0, Dir} /\ locked' \in BOOLEAN /\ ArbiterWaits'
  BY <1>1, ArbiterStep
<1>6. AdapterTypeOK' /\ MessagesReady'
  BY <1>1, AdapterStep
<1>7. recvQ' \in [Ports -> Seq(Ports)] /\ \A e \in Ports : Len(recvQ'[e]) <= QueueDepth
  BY ReceiveTyped
<1> QED
  BY <1>3, <1>4, <1>5, <1>6, <1>7 DEF TypeInv, TypeOK

\* What a port may hand over.
LEMMA MessageTyped ==
  ASSUME NEW e, NEW m, Send(e, m)
  PROVE  /\ e \in Ports /\ m \in Message /\ m # NoMessage
         /\ m.dst \subseteq Ports /\ m.bit \in BOOLEAN
         /\ m.bit => Dir \notin m.dst
<1>1. <<e, m>> \in Workload
  BY DEF Send
<1>2. e \in Ports /\ m \in [dst: SUBSET Ports, bit: BOOLEAN]
  BY <1>1, NetworkAssumption
<1>3. m.bit => Dir \notin m.dst
  BY <1>1, BitAssumption
<1>4. Ports \subseteq Fanout
  BY PortFacts, AdapterAssumption DEF Fanout
<1>5. m \in Message
  BY <1>2, <1>4 DEF Message
<1> QED
  BY <1>2, <1>3, <1>5, NoMessageAssumption

LEMMA SendTyped ==
  ASSUME TypeInv, NEW e, NEW m, Send(e, m)
  PROVE  TypeInv'
<1>1. Take(e, m) /\ e \in Ports
  BY MessageTyped DEF Send
<1>2. /\ inReg[e] = NoMessage
      /\ inReg' = [inReg EXCEPT ![e] = m]
      /\ counter' = counter
      /\ UNCHANGED <<torus, outQ, granted, locked, recvQ>>
  BY <1>1 DEF Take, Ready, Send
<1>3. m \in Message /\ m.dst \subseteq Ports
  BY MessageTyped
<1>4. AdapterTypeOK'
  BY <1>2, <1>3 DEF TypeInv, TypeOK, AdapterTypeOK
<1>5. MessagesReady'
  <2>1. ASSUME NEW f \in Ports
        PROVE  IF inReg'[f] = NoMessage THEN counter'[f] = 0
                                        ELSE inReg'[f].dst \subseteq Ports
    <3>1. CASE f = e
      BY <1>2, <1>3, <3>1, NoMessageAssumption DEF TypeInv, TypeOK, AdapterTypeOK
    <3>2. CASE f # e
      BY <1>2, <3>2 DEF TypeInv, TypeOK, AdapterTypeOK, MessagesReady, Ready
    <3> QED
      BY <3>1, <3>2
  <2> QED
    BY <2>1 DEF MessagesReady, Ready
<1>6. ArbiterWaits'
  <2>1. OutValid(Dir) => OutValid(Dir)'
    BY <1>2, PortFacts DEF OutValid, TypeInv, TypeOK, AdapterTypeOK
  <2>2. Requests \subseteq Requests'
    BY <1>2, <2>1 DEF Requests
  <2> QED
    BY <1>2, <2>2 DEF TypeInv, ArbiterWaits
<1>7. TorusTypeOK' /\ FlitsInPlace' /\ SouthValid'
  BY <1>2 DEF torus, TypeInv, TypeOK, TorusTypeOK, FlitsInPlace, SouthValid
<1> QED
  BY <1>2, <1>4, <1>5, <1>6, <1>7 DEF TypeInv, TypeOK

LEMMA ConsumeTyped ==
  ASSUME TypeInv, NEW e \in Ports, Consume(e)
  PROVE  TypeInv'
<1>1. /\ recvQ[e] # <<>>
      /\ recvQ' = [recvQ EXCEPT ![e] = Tail(recvQ[e])]
      /\ UNCHANGED <<torus, adapter, outQ, granted, locked>>
  BY DEF Consume
<1>2. recvQ[e] \in Seq(Ports) /\ Len(recvQ[e]) <= QueueDepth
  BY DEF TypeInv, TypeOK
<1>3. Tail(recvQ[e]) \in Seq(Ports) /\ Len(Tail(recvQ[e])) <= QueueDepth
  <2>1. /\ Tail(recvQ[e]) \in Seq(Ports) /\ Len(Tail(recvQ[e])) = Len(recvQ[e]) - 1
        /\ Len(recvQ[e]) \in Nat
    BY <1>1, <1>2, HeadTailProperties, LenProperties
  <2> QED
    BY <1>2, <2>1, NetworkAssumption
<1>4. recvQ' \in [Ports -> Seq(Ports)] /\ \A f \in Ports : Len(recvQ'[f]) <= QueueDepth
  BY <1>1, <1>3 DEF TypeInv, TypeOK
<1>5. AdapterTypeOK' /\ MessagesReady' /\ ArbiterWaits'
  BY <1>1 DEF adapter, TypeInv, TypeOK, AdapterTypeOK, MessagesReady, Ready,
     ArbiterWaits, Requests, OutValid
<1>6. TorusTypeOK' /\ FlitsInPlace' /\ SouthValid'
  BY <1>1 DEF torus, TypeInv, TypeOK, TorusTypeOK, FlitsInPlace, SouthValid
<1> QED
  BY <1>1, <1>4, <1>5, <1>6 DEF TypeInv, TypeOK

LEMMA InitTyped == Init => TypeInv
<1> SUFFICES ASSUME Init PROVE TypeInv
  OBVIOUS
<1>1. TorusTypeOK /\ FlitsInPlace /\ SouthValid
  BY HopliteAssumption DEF Init, TorusInit, TorusTypeOK, FlitsInPlace, SouthValid
<1>2. AdapterTypeOK /\ MessagesReady
  BY AdapterAssumption DEF Init, AdapterInit, AdapterTypeOK, MessagesReady, Ready, Fanout
<1>3. /\ outQ \in [Cores -> Seq(Flit)] /\ \A c \in Cores : Len(outQ[c]) <= SendDepth
      /\ recvQ \in [Ports -> Seq(Ports)] /\ \A e \in Ports : Len(recvQ[e]) <= QueueDepth
  BY NetworkAssumption DEF Init
<1> QED
  BY <1>1, <1>2, <1>3 DEF Init, TypeInv, TypeOK, ArbiterWaits

LEMMA UnchangedTyped == TypeInv /\ UNCHANGED vars => TypeInv'
BY DEF vars, torus, adapter, TypeInv, TypeOK, TorusTypeOK, AdapterTypeOK, FlitsInPlace,
   SouthValid, MessagesReady, Ready, ArbiterWaits, Requests, OutValid

\* Registers and counters of torus and adapters keep their types and no queue
\* exceeds its depth, for every size of the torus, any set of ports and queues of
\* any depth (SystemKernel.scala).
THEOREM NetworkTypeCorrect == Spec => []TypeOK
<1>1. TypeInv /\ [Next]_vars => TypeInv'
  BY TickTyped, SendTyped, ConsumeTyped, UnchangedTyped DEF Next
<1>2. TypeInv => TypeOK
  BY DEF TypeInv
<1> QED
  BY <1>1, <1>2, InitTyped, PTL DEF Spec

-----------------------------------------------------------------------------
(* Counting in sequences.                                                  *)

One(b) == IF b THEN 1 ELSE 0

\* Positions at which the elements of F are.
Places(q, F) == {i \in DOMAIN q : q[i] \in F}

LEMMA PlacesFinite ==
  ASSUME NEW S, NEW q \in Seq(S), NEW F
  PROVE  IsFiniteSet(Places(q, F)) /\ Cardinality(Places(q, F)) \in Nat
<1>1. Len(q) \in Nat /\ DOMAIN q = 1 .. Len(q)
  BY LenProperties
<1>2. IsFiniteSet(1 .. Len(q))
  BY <1>1, FS_Interval
<1>3. IsFiniteSet(Places(q, F))
  BY <1>1, <1>2, FS_Subset DEF Places
<1> QED
  BY <1>3, FS_CardinalityType

LEMMA PlacesAppend ==
  ASSUME NEW S, NEW q \in Seq(S), NEW x \in S, NEW F
  PROVE  Cardinality(Places(Append(q, x), F)) = Cardinality(Places(q, F)) + One(x \in F)
<1> DEFINE p == Append(q, x)
           n == Len(q) + 1
<1>1. /\ Len(q) \in Nat /\ DOMAIN q = 1 .. Len(q) /\ DOMAIN p = 1 .. n
      /\ \A i \in 1 .. Len(q) : p[i] = q[i]
      /\ p[n] = x
  <2>1. Len(q) \in Nat /\ DOMAIN q = 1 .. Len(q)
    BY LenProperties
  <2>2. /\ p \in Seq(S) /\ Len(p) = Len(q) + 1 /\ p[Len(q) + 1] = x
        /\ \A i \in 1 .. Len(q) : p[i] = q[i]
    BY AppendProperties
  <2>3. DOMAIN p = 1 .. Len(p)
    BY <2>2, LenProperties
  <2> QED
    BY <2>1, <2>2, <2>3
<1>2. IsFiniteSet(Places(q, F)) /\ Cardinality(Places(q, F)) \in Nat
  BY PlacesFinite
<1>3. n \notin Places(q, F)
  BY <1>1 DEF Places
<1> HIDE DEF p
<1>4. Places(p, F) = IF x \in F THEN Places(q, F) \cup {n} ELSE Places(q, F)
  BY <1>1 DEF Places
<1> HIDE DEF n
<1>5. Cardinality(Places(q, F) \cup {n}) = Cardinality(Places(q, F)) + 1
  BY <1>2, <1>3, FS_AddElement
<1>6. CASE x \in F
  BY <1>4, <1>5, <1>6 DEF p, One
<1>7. CASE x \notin F
  BY <1>2, <1>4, <1>7 DEF p, One
<1> QED
  BY <1>6, <1>7

LEMMA PlacesTail ==
  ASSUME NEW S, NEW q \in Seq(S), q # <<>>, NEW F
  PROVE  Cardinality(Places(q, F)) = Cardinality(Places(Tail(q), F)) + One(Head(q) \in F)
<1> DEFINE t == Tail(q)
           P == Places(q, F) \ {1}
           f == [i \in Places(t, F) |-> i + 1]
<1>1. /\ t \in Seq(S) /\ Len(q) \in Nat \ {0} /\ Len(t) = Len(q) - 1
      /\ DOMAIN q = 1 .. Len(q) /\ DOMAIN t = 1 .. Len(t)
      /\ \A i \in 1 .. Len(t) : t[i] = q[i + 1]
      /\ Head(q) = q[1]
  <2>1. Len(q) \in Nat /\ DOMAIN q = 1 .. Len(q)
    BY LenProperties
  <2>2. t \in Seq(S) /\ Len(t) = Len(q) - 1 /\ \A i \in 1 .. Len(t) : t[i] = q[i + 1]
    BY HeadTailProperties
  <2>3. Len(q) # 0
    BY EmptySeq
  <2>4. DOMAIN t = 1 .. Len(t)
    BY <2>2, LenProperties
  <2> QED
    BY <2>1, <2>2, <2>3, <2>4
<1>2. IsFiniteSet(Places(q, F)) /\ Cardinality(Places(q, F)) \in Nat
  BY PlacesFinite
<1>3. IsFiniteSet(Places(t, F)) /\ Cardinality(Places(t, F)) \in Nat
  BY <1>1, PlacesFinite
<1> HIDE DEF t
<1>4. f \in Bijection(Places(t, F), P)
  <2>1. f \in [Places(t, F) -> P] /\ \A i \in Places(t, F) : i \in Int /\ f[i] = i + 1
    BY <1>1 DEF Places
  <2>2. \A j \in P : \E i \in Places(t, F) : f[i] = j
    <3>1. ASSUME NEW j \in P PROVE j - 1 \in Places(t, F) /\ (j - 1) + 1 = j
      BY <1>1 DEF Places
    <3> QED
      BY <2>1, <3>1
  <2> HIDE DEF f, P
  <2>3. f \in Injection(Places(t, F), P)
    BY <2>1 DEF Injection, IsInjective
  <2>4. f \in Surjection(Places(t, F), P)
    BY <2>1, <2>2 DEF Surjection
  <2> QED
    BY <2>3, <2>4 DEF Bijection
<1>5. Cardinality(P) = Cardinality(Places(t, F))
  <2> HIDE DEF f, P
  <2> QED
    BY <1>3, <1>4, FS_Bijection DEF ExistsBijection
<1>6. 1 \in Places(q, F) <=> Head(q) \in F
  BY <1>1 DEF Places
<1>7. Cardinality(P) = IF 1 \in Places(q, F) THEN Cardinality(Places(q, F)) - 1
                                            ELSE Cardinality(Places(q, F))
  BY <1>2, FS_RemoveElement
<1> HIDE DEF P
<1> QED
  BY <1>2, <1>3, <1>5, <1>6, <1>7 DEF One, t

-----------------------------------------------------------------------------
(* Sums over the ports.                                                    *)

Pairs(count) == UNION {{s} \X (1 .. count[s]) : s \in Ports}

LEMMA PairsFinite ==
  ASSUME NEW count \in [Ports -> Nat]
  PROVE  IsFiniteSet(Pairs(count)) /\ Total(count) \in Nat
<1> DEFINE row(s) == {s} \X (1 .. count[s])
           f == [s \in Ports |-> row(s)]
<1>1. \A s \in Ports : IsFiniteSet(row(s))
  <2> SUFFICES ASSUME NEW s \in Ports PROVE IsFiniteSet({s} \X (1 .. count[s]))
    OBVIOUS
  <2>1. count[s] \in Int
    OBVIOUS
  <2>2. IsFiniteSet({s})
    BY FS_Singleton
  <2>3. IsFiniteSet(1 .. count[s])
    BY <2>1, FS_Interval
  <2> QED
    BY <2>2, <2>3, FS_Product
<1>2. f \in Surjection(Ports, {row(s) : s \in Ports})
  <2> HIDE DEF row
  <2> QED
    BY DEF Surjection
<1>3. IsFiniteSet({row(s) : s \in Ports})
  <2> HIDE DEF row, f
  <2> QED
    BY <1>2, PortsFinite, FS_Surjection
<1> HIDE DEF row
<1>4. IsFiniteSet(UNION {row(s) : s \in Ports})
  BY <1>1, <1>3, FS_UNION
<1>5. IsFiniteSet(Pairs(count))
  BY <1>4 DEF Pairs, row
<1> QED
  BY <1>5, FS_CardinalityType DEF Total, Pairs

LEMMA PairsOf ==
  ASSUME NEW count \in [Ports -> Nat], NEW s, NEW k
  PROVE  <<s, k>> \in Pairs(count) <=> s \in Ports /\ k \in 1 .. count[s]
BY DEF Pairs

LEMMA PairsArePairs ==
  ASSUME NEW count \in [Ports -> Nat], NEW p \in Pairs(count)
  PROVE  p = <<p[1], p[2]>>
BY DEF Pairs

LEMMA TotalZero ==
  ASSUME NEW count \in [Ports -> Nat], \A s \in Ports : count[s] = 0
  PROVE  Total(count) = 0
<1>1. Pairs(count) = {}
  BY DEF Pairs
<1> QED
  BY <1>1, FS_EmptySet DEF Total, Pairs

LEMMA TotalMonotone ==
  ASSUME NEW a \in [Ports -> Nat], NEW b \in [Ports -> Nat],
         \A s \in Ports : a[s] <= b[s]
  PROVE  Total(a) <= Total(b)
<1>1. Pairs(a) \subseteq Pairs(b)
  <2> SUFFICES ASSUME NEW p \in Pairs(a) PROVE p \in Pairs(b)
    OBVIOUS
  <2>1. p = <<p[1], p[2]>> /\ p[1] \in Ports /\ p[2] \in 1 .. a[p[1]]
    BY PairsArePairs, PairsOf
  <2>2. p[2] \in 1 .. b[p[1]]
    <3>1. a[p[1]] \in Nat /\ b[p[1]] \in Nat /\ a[p[1]] <= b[p[1]]
      BY <2>1
    <3> QED
      BY <2>1, <3>1
  <2> QED
    BY <2>1, <2>2, PairsOf
<1> QED
  BY <1>1, PairsFinite, FS_Subset DEF Total, Pairs

\* One more for one port.
LEMMA TotalOneMore ==
  ASSUME NEW a \in [Ports -> Nat], NEW b \in [Ports -> Nat], NEW t \in Ports,
         b[t] = a[t] + 1, \A s \in Ports : s # t => b[s] = a[s]
  PROVE  Total(b) = Total(a) + 1
<1> DEFINE z == <<t, b[t]>>
<1>1. z \notin Pairs(a)
  <2>1. z \in Pairs(a) => b[t] \in 1 .. a[t]
    BY PairsOf
  <2> QED
    BY <2>1
<1>2. Pairs(b) = Pairs(a) \cup {z}
  <2>1. ASSUME NEW p \in Pairs(b) PROVE p \in Pairs(a) \cup {z}
    <3>1. p = <<p[1], p[2]>> /\ p[1] \in Ports /\ p[2] \in 1 .. b[p[1]]
      BY <2>1, PairsArePairs, PairsOf
    <3>2. CASE p[1] = t /\ p[2] = b[t]
      BY <3>1, <3>2
    <3>3. CASE ~(p[1] = t /\ p[2] = b[t])
      <4>1. p[2] \in 1 .. a[p[1]]
        BY <3>1, <3>3
      <4> QED
        BY <3>1, <4>1, PairsOf
    <3> QED
      BY <3>2, <3>3
  <2>2. ASSUME NEW p \in Pairs(a) PROVE p \in Pairs(b)
    <3>1. p = <<p[1], p[2]>> /\ p[1] \in Ports /\ p[2] \in 1 .. a[p[1]]
      BY <2>2, PairsArePairs, PairsOf
    <3>2. p[2] \in 1 .. b[p[1]]
      BY <3>1
    <3> QED
      BY <3>1, <3>2, PairsOf
  <2>3. z \in Pairs(b)
    <3>1. b[t] \in 1 .. b[t]
      OBVIOUS
    <3> QED
      BY <3>1, PairsOf
  <2> QED
    BY <2>1, <2>2, <2>3
<1>3. IsFiniteSet(Pairs(a))
  BY PairsFinite
<1> HIDE DEF z
<1>4. Cardinality(Pairs(a) \cup {z}) = Cardinality(Pairs(a)) + 1
  BY <1>1, <1>3, FS_AddElement
<1> QED
  BY <1>2, <1>4 DEF Total, Pairs

-----------------------------------------------------------------------------
(* Copies of a message from s to d: where they are counted, and what a     *)
(* clock edge does to each count.                                          *)

CopiesOf(s, d) == {f \in Flit : IsCopy(f, s, d)}

LEMMA CopiesAged ==
  ASSUME NEW s, NEW d
  PROVE  None \notin CopiesOf(s, d)
         /\ \A f \in Flit : Aged(f) \in CopiesOf(s, d) <=> f \in CopiesOf(s, d)
BY NoneIsNoFlit, AgedFlit, CopyAged DEF CopiesOf

LEMMA CopyOf ==
  ASSUME NEW f \in Flit \cup {None}, NEW s, NEW d
  PROVE  f \in CopiesOf(s, d) <=> IsCopy(f, s, d)
BY DEF CopiesOf, IsCopy

LEMMA ToLeaveCount ==
  ASSUME TypeOK, NEW s \in Cores, NEW d
  PROVE  /\ ToLeave(s, d) = Cardinality(Places(outQ[s], CopiesOf(s, d)))
         /\ ToLeave(s, d) \in Nat
<1>1. outQ[s] \in Seq(Flit) /\ s # Dir
  BY CoreFacts DEF TypeOK
<1>2. \A i \in DOMAIN outQ[s] : outQ[s][i] \in Flit
  BY <1>1
<1>3. {i \in DOMAIN outQ[s] : IsCopy(outQ[s][i], s, d)} = Places(outQ[s], CopiesOf(s, d))
  BY <1>2 DEF Places, CopiesOf
<1> QED
  BY <1>1, <1>3, PlacesFinite DEF ToLeave

LEMMA UnderWayCount ==
  ASSUME TypeOK, NEW s, NEW d
  PROVE  UnderWay(s, d) = Cardinality({r \in Routers : xPkt[r] \in CopiesOf(s, d)})
                            + Cardinality({r \in Routers : yPkt[r] \in CopiesOf(s, d)})
<1>1. \A r \in Routers : /\ xPkt[r] \in Flit \cup {None}
                         /\ yPkt[r] \in Flit \cup {None}
  BY DEF TypeOK, TorusTypeOK
<1>2. \A r \in Routers : /\ IsCopy(xPkt[r], s, d) <=> xPkt[r] \in CopiesOf(s, d)
                         /\ IsCopy(yPkt[r], s, d) <=> yPkt[r] \in CopiesOf(s, d)
  BY <1>1, CopyOf
<1>3. /\ {r \in Routers : IsCopy(xPkt[r], s, d)} = {r \in Routers : xPkt[r] \in CopiesOf(s, d)}
      /\ {r \in Routers : IsCopy(yPkt[r], s, d)} = {r \in Routers : yPkt[r] \in CopiesOf(s, d)}
  BY <1>2
<1> QED
  BY <1>3 DEF UnderWay

LEMMA RoutersCounted ==
  ASSUME NEW S, S \subseteq Routers
  PROVE  IsFiniteSet(S) /\ Cardinality(S) \in Nat
BY RoutersFinite, FS_Subset, FS_CardinalityType

LEMMA ArrivedCount ==
  ASSUME TypeOK, NEW s, NEW d \in Ports
  PROVE  /\ Arrived(s, d) = Cardinality(Places(recvQ[d], {s}))
         /\ Arrived(s, d) \in Nat
<1>1. recvQ[d] \in Seq(Ports)
  BY DEF TypeOK
<1>2. {i \in DOMAIN recvQ[d] : recvQ[d][i] = s} = Places(recvQ[d], {s})
  BY DEF Places
<1> QED
  BY <1>1, <1>2, PlacesFinite DEF Arrived

LEMMA CountsTyped ==
  ASSUME TypeOK, NEW s \in Ports, NEW d \in Ports
  PROVE  /\ ToMake(s, d) \in Nat /\ ToLeave(s, d) \in Nat /\ UnderWay(s, d) \in Nat
         /\ Travelling(s, d) \in Nat /\ Arrived(s, d) \in Nat
<1>1. ToMake(s, d) \in Nat
  BY DEF ToMake
<1>2. ToLeave(s, d) \in Nat
  <2>1. CASE s = Dir
    BY <2>1 DEF ToLeave
  <2>2. CASE s \in Cores
    BY <2>2, ToLeaveCount
  <2> QED
    BY <2>1, <2>2, PortFacts
<1>3. UnderWay(s, d) \in Nat
  <2>1. /\ Cardinality({r \in Routers : IsCopy(xPkt[r], s, d)}) \in Nat
        /\ Cardinality({r \in Routers : IsCopy(yPkt[r], s, d)}) \in Nat
    BY RoutersCounted
  <2> QED
    BY <2>1 DEF UnderWay
<1>4. Arrived(s, d) \in Nat
  BY ArrivedCount
<1>5. Travelling(s, d) = ToMake(s, d) + ToLeave(s, d) + UnderWay(s, d)
  BY DEF Travelling
<1> QED
  BY <1>1, <1>2, <1>3, <1>4, <1>5

CountsNat ==
  \A s, d \in Ports : Travelling(s, d) \in Nat /\ Arrived(s, d) \in Nat

LEMMA CountsAreNat == TypeOK => CountsNat
BY CountsTyped DEF CountsNat

\* A port's adapter makes a copy; the copy leaves for the torus; it is handed to
\* its port.
Made(s, d) == s \in Fired /\ Heading(s) = d

Left(s, d) == s \in Sent /\ Word(s) \in CopiesOf(s, d)

Delivered(s, d) == peVld[RouterOf(d)] /\ yPkt[RouterOf(d)] \in CopiesOf(s, d)

\* Destinations the adapter has still to count to.
Ahead(s, d) == \E b \in inReg[s].dst : Named(b, inReg[s].bit) = d /\ counter[s] <= b

LEMMA MakeStep ==
  ASSUME TypeInv, BitsApart, Tick, NEW s \in Ports, NEW d \in Ports
  PROVE  ToMake(s, d)' = ToMake(s, d) - One(Made(s, d))
<1>1. /\ inReg'[s] = IF Advances(s, Fired) /\ Overflows(s) THEN NoMessage ELSE inReg[s]
      /\ counter'[s] = IF Advances(s, Fired) THEN (counter[s] + 1) % (2 * MaxCores)
                                             ELSE counter[s]
  BY DEF Tick, AdapterClock
<1>2. /\ counter[s] \in 0 .. 2 * MaxCores - 1 /\ MaxCores \in Nat \ {0}
      /\ \A b \in Ports : b \in Nat /\ b < 2 * MaxCores
  BY PortFacts, AdapterAssumption DEF TypeInv, TypeOK, AdapterTypeOK, Fanout
<1>3. s \in Fired => OutValid(s)
  BY FiredValid DEF TypeInv
<1>4. s \in Fired => Advances(s, Fired)
  BY <1>3 DEF Advances, OutValid
<1>5. /\ ToMake(s, d) = One(inReg[s] # NoMessage /\ Ahead(s, d))
      /\ ToMake(s, d)' = One(inReg'[s] # NoMessage /\ Ahead(s, d)')
  BY DEF ToMake, One, Ahead
<1>6. CASE ~Advances(s, Fired)
  <2>1. inReg'[s] = inReg[s] /\ counter'[s] = counter[s] /\ ~Made(s, d)
    BY <1>1, <1>4, <1>6 DEF Made
  <2>2. Ahead(s, d)' <=> Ahead(s, d)
    BY <2>1 DEF Ahead
  <2> QED
    BY <1>5, <2>1, <2>2 DEF One
<1>7. CASE Advances(s, Fired)
  <2>1. /\ inReg[s] # NoMessage
        /\ s \in Fired <=> counter[s] \in inReg[s].dst
    BY <1>3, <1>7 DEF Advances, OutValid
  <2>2. /\ inReg[s].dst \subseteq Ports /\ inReg[s].bit \in BOOLEAN
        /\ inReg[s].bit => Dir \notin inReg[s].dst
    BY <2>1 DEF TypeInv, MessagesReady, Ready, BitsApart, TypeOK, AdapterTypeOK, Message
  <2> DEFINE Beyond == \E b \in inReg[s].dst :
                         Named(b, inReg[s].bit) = d /\ counter[s] + 1 <= b
  <2>3. Ahead(s, d) <=> Made(s, d) \/ Beyond
    BY <1>2, <2>1, <2>2 DEF Ahead, Made, Heading
  <2>4. ~(Made(s, d) /\ Beyond)
    <3> SUFFICES ASSUME Made(s, d), NEW b \in inReg[s].dst,
                        Named(b, inReg[s].bit) = d, counter[s] + 1 <= b
                 PROVE  FALSE
      OBVIOUS
    <3>1. counter[s] \in inReg[s].dst /\ Named(counter[s], inReg[s].bit) = d
      BY <2>1 DEF Made, Heading
    <3>2. counter[s] = b
      BY <2>2, <3>1, NamedApart
    <3> QED
      BY <1>2, <2>2, <3>2
  <2>5. (inReg'[s] # NoMessage /\ Ahead(s, d)') <=> Beyond
    <3>1. CASE Overflows(s)
      <4>1. inReg'[s] = NoMessage /\ counter[s] = 2 * MaxCores - 1
        BY <1>1, <1>7, <3>1 DEF Overflows
      <4> QED
        BY <1>2, <2>2, <4>1
    <3>2. CASE ~Overflows(s)
      <4>1. (counter[s] + 1) % (2 * MaxCores) = counter[s] + 1
        <5> DEFINE n == 2 * MaxCores
                   k == counter[s] + 1
        <5>1. n \in Nat \ {0} /\ k \in 0 .. n - 1
          BY <1>2, <3>2 DEF Overflows
        <5> HIDE DEF n, k
        <5>2. k % n = k
          BY <5>1
        <5> QED
          BY <5>2 DEF n, k
      <4>2. inReg'[s] = inReg[s] /\ counter'[s] = counter[s] + 1
        BY <1>1, <1>7, <3>2, <4>1
      <4> QED
        BY <2>1, <4>2 DEF Ahead
    <3> QED
      BY <3>1, <3>2
  <2> HIDE DEF Beyond
  <2> QED
    BY <1>5, <2>1, <2>3, <2>4, <2>5 DEF One
<1> QED
  BY <1>6, <1>7

\* What an adapter puts out is a copy for the port it heads for.
LEMMA MadeCopy ==
  ASSUME TypeInv, BitsApart, NEW s \in Fired, NEW d \in Ports
  PROVE  OutFlit(s) \in Flit /\ (OutFlit(s) \in CopiesOf(s, d) <=> Heading(s) = d)
<1>1. OutValid(s) /\ s \in Ports /\ TypeOK /\ MessagesReady
  BY FiredValid, SentFired DEF TypeInv
<1>2. OutFlit(s) \in Flit
  BY <1>1, OutFlitTyped
<1>3. Heading(s) \in Ports /\ IsCopy(OutFlit(s), s, Heading(s))
  BY <1>1, OutFlitCopy
<1>4. IsCopy(OutFlit(s), s, d) => Heading(s) = d
  BY <1>3, CopyUnique
<1> QED
  BY <1>2, <1>3, <1>4 DEF CopiesOf

LEMMA LeaveStep ==
  ASSUME TypeInv, BitsApart, Tick, TypeOK', NEW s \in Cores, NEW d \in Ports
  PROVE  ToLeave(s, d)' = ToLeave(s, d) + One(Made(s, d)) - One(Left(s, d))
<1> DEFINE F == CopiesOf(s, d)
           p == Popped(s)
<1>1. /\ outQ[s] \in Seq(Flit) /\ TypeOK /\ ArbiterWaits /\ s # Dir /\ s \in Ports
      /\ Cardinality(Places(outQ[s], F)) \in Nat
  BY CoreFacts, ToLeaveCount DEF TypeInv, TypeOK
<1>2. p \in Seq(Flit) /\ Cardinality(Places(p, F)) \in Nat
  BY <1>1, PoppedTyped, PlacesFinite
<1>3. Cardinality(Places(outQ[s], F)) = Cardinality(Places(p, F)) + One(Left(s, d))
  <2>1. CASE s \in Sent
    <3>1. outQ[s] # <<>>
      BY <1>1, <2>1, SentFired, SpeakerHas
    <3>2. p = Tail(outQ[s]) /\ Word(s) = Head(outQ[s])
      BY <1>1, <2>1 DEF Popped, Word
    <3>3. Cardinality(Places(outQ[s], F))
            = Cardinality(Places(Tail(outQ[s]), F)) + One(Head(outQ[s]) \in F)
      BY <1>1, <3>1, PlacesTail
    <3> QED
      BY <2>1, <3>2, <3>3 DEF Left, One
  <2>2. CASE s \notin Sent
    BY <1>2, <2>2 DEF Popped, Left, One
  <2> QED
    BY <2>1, <2>2
<1>4. Cardinality(Places(outQ'[s], F)) = Cardinality(Places(p, F)) + One(Made(s, d))
  <2>1. CASE s \in Fired
    <3>1. OutFlit(s) \in Flit /\ (OutFlit(s) \in F <=> Heading(s) = d)
      BY <2>1, MadeCopy
    <3>2. outQ'[s] = Append(p, OutFlit(s))
      BY <1>2, <2>1, <3>1, QueueStep, AppendIsConcat
    <3> HIDE DEF p, F
    <3>3. Cardinality(Places(Append(p, OutFlit(s)), F))
            = Cardinality(Places(p, F)) + One(OutFlit(s) \in F)
      BY <1>2, <3>1, PlacesAppend
    <3> QED
      BY <2>1, <3>1, <3>2, <3>3 DEF Made, One
  <2>2. CASE s \notin Fired
    <3>1. outQ'[s] = p
      BY <1>2, <2>2, QueueStep, ConcatEmptySeq
    <3> QED
      BY <1>2, <2>2, <3>1 DEF Made, One
  <2> QED
    BY <2>1, <2>2
<1>5. /\ ToLeave(s, d) = Cardinality(Places(outQ[s], F))
      /\ ToLeave(s, d)' = Cardinality(Places(outQ'[s], F))
  <2>1. ToLeave(s, d) = Cardinality(Places(outQ[s], F))
    BY <1>1, ToLeaveCount
  <2>2. ToLeave(s, d)' = Cardinality(Places(outQ'[s], F))
    <3>1. outQ'[s] \in Seq(Flit)
      BY DEF TypeOK
    <3>2. \A i \in DOMAIN outQ'[s] : outQ'[s][i] \in Flit
      BY <3>1
    <3>3. {i \in DOMAIN outQ'[s] : IsCopy(outQ'[s][i], s, d)} = Places(outQ'[s], F)
      BY <3>2 DEF Places, CopiesOf
    <3> QED
      BY <1>1, <3>3 DEF ToLeave
  <2> QED
    BY <2>1, <2>2
<1> HIDE DEF F, p
<1> QED
  BY <1>2, <1>3, <1>4, <1>5 DEF One

\* The word a port has for its router is a copy from that port.
LEMMA WordAddressed ==
  ASSUME TypeInv, BitsApart, FlitsAddressed, NEW e \in Ports, Speaks(e)
  PROVE  \E d \in Ports : IsCopy(Word(e), e, d)
<1>1. ArbiterWaits /\ TypeOK /\ MessagesReady
  BY DEF TypeInv
<1>2. CASE e = Dir
  <2>1. OutValid(Dir)
    BY <1>1, <1>2, SpeakerHas
  <2>2. IsCopy(OutFlit(Dir), Dir, Heading(Dir)) /\ Heading(Dir) \in Ports
    BY <1>1, <1>2, <2>1, OutFlitCopy
  <2> QED
    BY <1>2, <2>2 DEF Word
<1>3. CASE e \in Cores
  <2>1. outQ[e] # <<>> /\ outQ[e] \in Seq(Flit) /\ e # Dir
    BY <1>1, <1>3, SpeakerHas, CoreFacts DEF TypeOK
  <2>2. 1 \in DOMAIN outQ[e] /\ Head(outQ[e]) = outQ[e][1]
    BY <2>1, EmptySeq
  <2> QED
    BY <1>3, <2>1, <2>2 DEF Word, FlitsAddressed
<1> QED
  BY <1>2, <1>3, PortFacts

\* What the directory makes goes into the torus at once.
LEMMA DirLeaves ==
  ASSUME TypeInv, BitsApart, NEW d \in Ports
  PROVE  Made(Dir, d) <=> Left(Dir, d)
<1>1. Dir \in Fired <=> Dir \in Sent
  BY SentFired
<1>2. ASSUME Dir \in Fired PROVE Word(Dir) \in CopiesOf(Dir, d) <=> Heading(Dir) = d
  BY <1>2, MadeCopy DEF Word
<1> QED
  BY <1>1, <1>2 DEF Made, Left

\* Of the copies from s to d, the torus accepts the one that s has at its router.
LEMMA AcceptedCopies ==
  ASSUME TypeInv, BitsApart, FlitsAddressed, NEW s \in Ports, NEW d \in Ports
  PROVE  Cardinality({r \in Routers : Accepts(r, Offer) /\ Offer[r] \in CopiesOf(s, d)})
           = One(Left(s, d))
<1> DEFINE A == {r \in Routers : Accepts(r, Offer) /\ Offer[r] \in CopiesOf(s, d)}
<1>1. ASSUME NEW r \in A PROVE Left(s, d) /\ r = RouterOf(s)
  <2>1. r \in Routers /\ Accepts(r, Offer) /\ Offer[r] \in Flit /\ IsCopy(Offer[r], s, d)
    BY DEF CopiesOf
  <2>2. PICK e \in Ports : Speaks(e) /\ RouterOf(e) = r
    BY <2>1, OfferedWord, NoneIsNoFlit
  <2>3. Offer[r] = Word(e)
    BY <2>2, OfferedWord
  <2>4. PICK g \in Ports : IsCopy(Word(e), e, g)
    BY <2>2, WordAddressed
  <2>5. e = s
    BY <2>1, <2>3, <2>4, CopyUnique
  <2>6. s \in Sent
    BY <2>1, <2>2, <2>5 DEF Sent
  <2>7. Word(s) \in CopiesOf(s, d)
    BY <2>1, <2>3, <2>5 DEF CopiesOf
  <2> QED
    BY <2>2, <2>5, <2>6, <2>7 DEF Left
<1>2. ASSUME Left(s, d) PROVE RouterOf(s) \in A
  <2>1. s \in Sent /\ Word(s) \in CopiesOf(s, d)
    BY <1>2 DEF Left
  <2>2. Speaks(s) /\ Accepts(RouterOf(s), Offer)
    BY <2>1 DEF Sent
  <2> QED
    BY <2>1, <2>2, OfferedWord, RouterOfPort
<1>3. CASE Left(s, d)
  <2>1. A = {RouterOf(s)}
    BY <1>1, <1>2, <1>3
  <2> HIDE DEF A
  <2>2. Cardinality(A) = 1
    BY <2>1, FS_Singleton
  <2> QED
    BY <1>3, <2>2 DEF A, One
<1>4. CASE ~Left(s, d)
  <2>1. A = {}
    BY <1>1, <1>4
  <2> HIDE DEF A
  <2>2. Cardinality(A) = 0
    BY <2>1, FS_EmptySet
  <2> QED
    BY <1>4, <2>2 DEF A, One
<1> QED
  BY <1>3, <1>4

\* Of the copies from s to d in south registers, all ride on but the one for the
\* port.
LEMMA SouthCopies ==
  ASSUME TypeInv, NEW s \in Ports, NEW d \in Ports
  PROVE  Cardinality({r \in Routers : yPkt[r] \in CopiesOf(s, d)})
           = Cardinality({r \in Routers : yVld[r] /\ yPkt[r] \in CopiesOf(s, d)})
               + One(Delivered(s, d))
<1> DEFINE Y == {r \in Routers : yPkt[r] \in CopiesOf(s, d)}
           V == {r \in Routers : yVld[r] /\ yPkt[r] \in CopiesOf(s, d)}
           t == RouterOf(d)
<1>1. ASSUME NEW r \in Y, ~yVld[r] PROVE r = t /\ Delivered(s, d)
  <2>1. yPkt[r] \in Flit /\ yPkt[r] # None /\ yPkt[r].dst = t
    BY NoneIsNoFlit DEF CopiesOf, IsCopy
  <2>2. peVld[r]
    BY <1>1, <2>1 DEF TypeInv, SouthValid
  <2>3. yPkt[r].dst = r
    BY <2>2 DEF TypeInv, FlitsInPlace
  <2> QED
    BY <2>1, <2>2, <2>3 DEF Delivered
<1>2. Delivered(s, d) => t \in Y /\ t \notin V
  <2>1. t \in Routers
    BY RouterOfPort
  <2>2. ~(yVld[t] /\ peVld[t])
    BY <2>1 DEF TypeInv, FlitsInPlace
  <2> QED
    BY <2>1, <2>2 DEF Delivered
<1>3. IsFiniteSet(V) /\ Cardinality(V) \in Nat
  BY RoutersCounted
<1>4. V \subseteq Y
  OBVIOUS
<1>5. CASE Delivered(s, d)
  <2>1. Y = V \cup {t}
    BY <1>1, <1>2, <1>4, <1>5
  <2> HIDE DEF Y, V, t
  <2>2. Cardinality(V \cup {t}) = Cardinality(V) + 1
    BY <1>2, <1>3, <1>5, FS_AddElement
  <2> QED
    BY <1>5, <2>1, <2>2 DEF Y, V, One
<1>6. CASE ~Delivered(s, d)
  <2>1. Y = V
    BY <1>1, <1>4, <1>6
  <2> HIDE DEF Y, V, t
  <2> QED
    BY <1>3, <1>6, <2>1 DEF Y, V, One
<1> QED
  BY <1>5, <1>6

LEMMA FlightStep ==
  ASSUME TypeInv, BitsApart, FlitsAddressed, Tick, TypeOK', NEW s \in Ports, NEW d \in Ports
  PROVE  UnderWay(s, d)' = UnderWay(s, d) + One(Left(s, d)) - One(Delivered(s, d))
<1> DEFINE F == CopiesOf(s, d)
           X == Cardinality({r \in Routers : xPkt[r] \in F})
           Y == Cardinality({r \in Routers : yPkt[r] \in F})
           V == Cardinality({r \in Routers : yVld[r] /\ yPkt[r] \in F})
           A == Cardinality({r \in Routers : Accepts(r, Offer) /\ Offer[r] \in F})
           XX == Cardinality({r \in Routers : xPkt'[r] \in F})
           YY == Cardinality({r \in Routers : yPkt'[r] \in F})
<1>1. TorusTypeOK /\ Clock(Offer) /\ Offer \in [Routers -> Flit \cup {None}]
  BY OfferTyped DEF TypeInv, TypeOK, Tick
<1>2. None \notin F /\ \A f \in Flit : Aged(f) \in F <=> f \in F
  BY CopiesAged
<1>3. XX + YY = X + V + A
  <2> HIDE DEF F
  <2> QED
    BY <1>1, <1>2, ClockConserves
<1>4. A = One(Left(s, d)) /\ Y = V + One(Delivered(s, d))
  BY AcceptedCopies, SouthCopies
<1>5. UnderWay(s, d) = X + Y
  BY UnderWayCount DEF TypeInv
<1>6. UnderWay(s, d)' = XX + YY
  <2>1. \A r \in Routers : /\ xPkt'[r] \in Flit \cup {None}
                           /\ yPkt'[r] \in Flit \cup {None}
    BY DEF TypeOK, TorusTypeOK
  <2>2. \A r \in Routers : /\ IsCopy(xPkt'[r], s, d) <=> xPkt'[r] \in F
                           /\ IsCopy(yPkt'[r], s, d) <=> yPkt'[r] \in F
    BY <2>1, CopyOf
  <2>3. /\ {r \in Routers : IsCopy(xPkt'[r], s, d)} = {r \in Routers : xPkt'[r] \in F}
        /\ {r \in Routers : IsCopy(yPkt'[r], s, d)} = {r \in Routers : yPkt'[r] \in F}
    BY <2>2
  <2> QED
    BY <2>3 DEF UnderWay
<1>7. X \in Nat /\ Y \in Nat /\ V \in Nat /\ XX \in Nat /\ YY \in Nat
  BY RoutersCounted
<1> HIDE DEF X, Y, V, A, XX, YY
<1> QED
  BY <1>3, <1>4, <1>5, <1>6, <1>7 DEF One

LEMMA TravelStep ==
  ASSUME TypeInv, BitsApart, FlitsAddressed, Tick, TypeOK', NEW s \in Ports, NEW d \in Ports
  PROVE  Travelling(s, d)' = Travelling(s, d) - One(Delivered(s, d))
<1>1. ToMake(s, d)' = ToMake(s, d) - One(Made(s, d))
  BY MakeStep
<1>2. UnderWay(s, d)' = UnderWay(s, d) + One(Left(s, d)) - One(Delivered(s, d))
  BY FlightStep
<1>3. ToLeave(s, d)' = ToLeave(s, d) + One(Made(s, d)) - One(Left(s, d))
  <2>1. CASE s \in Cores
    BY <2>1, LeaveStep
  <2>2. CASE s = Dir
    BY <2>2, DirLeaves DEF ToLeave, One
  <2> QED
    BY <2>1, <2>2, PortFacts
<1>4. /\ ToMake(s, d) \in Nat /\ ToLeave(s, d) \in Nat /\ UnderWay(s, d) \in Nat
  BY CountsTyped DEF TypeInv
<1>5. /\ Travelling(s, d) = ToMake(s, d) + ToLeave(s, d) + UnderWay(s, d)
      /\ Travelling(s, d)' = ToMake(s, d)' + ToLeave(s, d)' + UnderWay(s, d)'
  BY DEF Travelling
<1> QED
  BY <1>1, <1>2, <1>3, <1>4, <1>5 DEF One

-----------------------------------------------------------------------------
(* Arrivals.                                                               *)

\* Bit 31 and the router name the port a copy is for.
LEMMA PortOfCopy ==
  ASSUME NEW f, NEW s, NEW d \in Ports, IsCopy(f, s, d)
  PROVE  PortAt(RouterOf(d), f) = d
<1>1. RouterOf(d) = Router0 => f.packet.bit = (d = Dir)
  BY DEF IsCopy
<1>2. CASE d = Dir
  BY <1>1, <1>2, RouterOfPort DEF PortAt
<1>3. CASE d \in Cores
  <2>1. ~(RouterOf(d) = Router0 /\ f.packet.bit)
    BY <1>1, <1>3, CoreFacts
  <2> DEFINE e == CHOOSE c \in Cores : RouterOf(c) = RouterOf(d)
  <2>2. e \in Cores /\ RouterOf(e) = RouterOf(d)
    BY <1>3
  <2>3. e = d
    <3> HIDE DEF e
    <3> QED
      BY <1>3, <2>2, RouterOfPort
  <2> QED
    BY <2>1, <2>3 DEF PortAt
<1> QED
  BY <1>2, <1>3, PortFacts

LEMMA ArrivingCopy ==
  ASSUME TypeInv, FlitsAddressed, NEW d \in Ports, Arriving(d)
  PROVE  LET t == yPkt[RouterOf(d)].packet.src
         IN t \in Ports /\ Delivered(t, d)
<1> DEFINE r == RouterOf(d)
           f == yPkt[r]
<1>1. r \in Routers /\ peVld[r] /\ PortAt(r, f) = d
  BY RouterOfPort DEF Arriving
<1>2. f \in Flit /\ f.dst = r
  BY <1>1 DEF TypeInv, TypeOK, TorusTypeOK, SouthValid, FlitsInPlace
<1>3. PICK s \in Ports, e \in Ports : IsCopy(f, s, e)
  BY <1>1, <1>2, NoneIsNoFlit DEF FlitsAddressed, InFlight
<1>4. RouterOf(e) = r /\ f.packet.src = s
  BY <1>2, <1>3 DEF IsCopy
<1>5. e = d
  BY <1>1, <1>3, <1>4, PortOfCopy
<1> QED
  BY <1>1, <1>2, <1>3, <1>4, <1>5 DEF Delivered, CopiesOf

LEMMA DeliveredArrives ==
  ASSUME NEW s \in Ports, NEW d \in Ports, Delivered(s, d)
  PROVE  Arriving(d) /\ yPkt[RouterOf(d)].packet.src = s
<1>1. peVld[RouterOf(d)] /\ IsCopy(yPkt[RouterOf(d)], s, d)
  BY DEF Delivered, CopiesOf
<1>2. PortAt(RouterOf(d), yPkt[RouterOf(d)]) = d
  BY <1>1, PortOfCopy
<1> QED
  BY <1>1, <1>2 DEF Arriving, IsCopy

\* What a port is owed, and what is in its queue, from each port.
Due(d) == [s \in Ports |-> Travelling(s, d) + Arrived(s, d)]

Read(d) == [s \in Ports |-> Arrived(s, d)]

LEMMA SumsTyped ==
  ASSUME TypeOK, NEW d \in Ports
  PROVE  /\ Due(d) \in [Ports -> Nat] /\ Read(d) \in [Ports -> Nat]
         /\ \A s \in Ports : /\ Due(d)[s] = Travelling(s, d) + Arrived(s, d)
                             /\ Read(d)[s] = Arrived(s, d)
BY CountsTyped DEF Due, Read

LEMMA QueuesSums ==
  ASSUME TypeOK, QueuesHold, NEW d \in Ports
  PROVE  /\ Owed(d) = Total(Due(d)) /\ Total(Due(d)) <= QueueDepth
         /\ Total(Read(d)) = Len(recvQ[d])
         /\ Len(recvQ[d]) \in Nat /\ QueueDepth \in Nat
<1>1. Len(recvQ[d]) \in Nat
  BY LenProperties DEF TypeOK
<1>2. Owed(d) = Total(Due(d))
  BY DEF Owed, Due
<1>3. Owed(d) <= QueueDepth /\ Total(Read(d)) = Len(recvQ[d])
  BY DEF QueuesHold, Read
<1> QED
  BY <1>1, <1>2, <1>3, NetworkAssumption

\* A copy that arrives finds room.
LEMMA RoomForArrival ==
  ASSUME TypeInv, FlitsAddressed, QueuesHold, Tick, NEW d \in Ports, Arriving(d)
  PROVE  Len(recvQ[d]) < QueueDepth
<1> DEFINE t == yPkt[RouterOf(d)].packet.src
           b == [s \in Ports |-> IF s = t THEN Arrived(s, d) + 1 ELSE Arrived(s, d)]
<1>1. t \in Ports /\ Delivered(t, d)
  BY ArrivingCopy
<1>2. TypeOK
  BY DEF TypeInv
<1>3. UnderWay(t, d) >= 1
  <2> DEFINE X == {r \in Routers : xPkt[r] \in CopiesOf(t, d)}
             Y == {r \in Routers : yPkt[r] \in CopiesOf(t, d)}
             V == {r \in Routers : yVld[r] /\ yPkt[r] \in CopiesOf(t, d)}
  <2>1. UnderWay(t, d) = Cardinality(X) + Cardinality(Y)
    BY <1>2, UnderWayCount
  <2>2. Cardinality(Y) = Cardinality(V) + One(Delivered(t, d))
    BY <1>1, SouthCopies
  <2>3. Cardinality(X) \in Nat /\ Cardinality(V) \in Nat
    BY RoutersCounted
  <2> HIDE DEF X, Y, V, t
  <2> QED
    BY <1>1, <2>1, <2>2, <2>3 DEF One
<1>4. Travelling(t, d) >= 1
  BY <1>1, <1>2, <1>3, CountsTyped DEF Travelling
<1> HIDE DEF t
<1>5. /\ Due(d) \in [Ports -> Nat] /\ Read(d) \in [Ports -> Nat] /\ b \in [Ports -> Nat]
      /\ \A s \in Ports : /\ Travelling(s, d) \in Nat /\ Arrived(s, d) \in Nat
                          /\ Due(d)[s] = Travelling(s, d) + Arrived(s, d)
                          /\ Read(d)[s] = Arrived(s, d)
                          /\ b[s] = IF s = t THEN Arrived(s, d) + 1 ELSE Arrived(s, d)
  BY <1>2, SumsTyped, CountsTyped
<1> HIDE DEF b
<1>6. Total(b) = Total(Read(d)) + 1
  <2>1. b[t] = Read(d)[t] + 1 /\ \A s \in Ports : s # t => b[s] = Read(d)[s]
    BY <1>1, <1>5
  <2> QED
    BY <1>1, <1>5, <2>1, TotalOneMore
<1>7. Total(b) <= Total(Due(d))
  <2>1. \A s \in Ports : b[s] <= Due(d)[s]
    BY <1>1, <1>4, <1>5
  <2> QED
    BY <1>5, <2>1, TotalMonotone
<1>8. Total(b) \in Nat /\ Total(Due(d)) \in Nat
  BY <1>5, PairsFinite
<1> QED
  BY <1>2, <1>6, <1>7, <1>8, QueuesSums

LEMMA ArriveStep ==
  ASSUME TypeInv, FlitsAddressed, QueuesHold, Tick, TypeOK', NEW s \in Ports, NEW d \in Ports
  PROVE  Arrived(s, d)' = Arrived(s, d) + One(Delivered(s, d))
<1> DEFINE t == yPkt[RouterOf(d)].packet.src
<1>1. recvQ[d] \in Seq(Ports) /\ TypeOK
  BY DEF TypeInv, TypeOK
<1>2. /\ Arrived(s, d) = Cardinality(Places(recvQ[d], {s})) /\ Arrived(s, d) \in Nat
      /\ Arrived(s, d)' = Cardinality(Places(recvQ'[d], {s}))
  <2>1. {i \in DOMAIN recvQ'[d] : recvQ'[d][i] = s} = Places(recvQ'[d], {s})
    BY DEF Places
  <2> QED
    BY <1>1, <2>1, ArrivedCount DEF Arrived
<1>3. CASE Arriving(d)
  <2>1. t \in Ports /\ Delivered(t, d) /\ Len(recvQ[d]) < QueueDepth
    BY <1>3, ArrivingCopy, RoomForArrival
  <2>2. recvQ'[d] = Append(recvQ[d], t)
    BY <1>3, <2>1 DEF Tick
  <2>3. Delivered(s, d) <=> t \in {s}
    BY <2>1, DeliveredArrives
  <2> HIDE DEF t
  <2>4. Cardinality(Places(Append(recvQ[d], t), {s}))
          = Cardinality(Places(recvQ[d], {s})) + One(t \in {s})
    BY <1>1, <2>1, PlacesAppend
  <2> QED
    BY <1>2, <2>2, <2>3, <2>4 DEF One
<1>4. CASE ~Arriving(d)
  <2>1. recvQ'[d] = recvQ[d]
    BY <1>4 DEF Tick
  <2>2. ~Delivered(s, d)
    BY <1>4, DeliveredArrives
  <2> QED
    BY <1>2, <2>1, <2>2 DEF One
<1> QED
  BY <1>3, <1>4

\* In a clock edge all that leaves the network for a port is in its queue.
LEMMA TickDelivers ==
  ASSUME TypeInv, BitsApart, FlitsAddressed, QueuesHold, Tick, TypeOK',
         NEW s \in Ports, NEW d \in Ports
  PROVE  /\ Travelling(s, d)' \in Nat /\ Arrived(s, d)' \in Nat
         /\ Travelling(s, d)' <= Travelling(s, d)
         /\ Travelling(s, d)' + Arrived(s, d)' = Travelling(s, d) + Arrived(s, d)
<1>1. /\ Travelling(s, d) \in Nat /\ Arrived(s, d) \in Nat
  BY CountsTyped DEF TypeInv
<1>2. CountsNat'
  BY CountsAreNat, PTL
<1>3. /\ Travelling(s, d)' = Travelling(s, d) - One(Delivered(s, d))
      /\ Arrived(s, d)' = Arrived(s, d) + One(Delivered(s, d))
  BY TravelStep, ArriveStep
<1> QED
  BY <1>1, <1>2, <1>3 DEF CountsNat, One

-----------------------------------------------------------------------------
(* The invariant.                                                          *)

LEMMA BitsStep ==
  ASSUME BitsApart, Tick
  PROVE  BitsApart'
<1>1. \A e \in Ports : inReg'[e] \in {NoMessage, inReg[e]}
  BY DEF Tick, AdapterClock
<1> QED
  BY <1>1 DEF BitsApart, Ready

LEMMA QueuesAddressed ==
  ASSUME TypeInv, BitsApart, FlitsAddressed, Tick, NEW c \in Cores,
         NEW i \in DOMAIN outQ'[c]
  PROVE  \E d \in Ports : IsCopy(outQ'[c][i], c, d)
<1> DEFINE p == Popped(c)
           ok(f) == \E d \in Ports : IsCopy(f, c, d)
<1>1. outQ[c] \in Seq(Flit) /\ TypeOK /\ ArbiterWaits /\ c \in Ports /\ c # Dir
      /\ p \in Seq(Flit)
  BY CoreFacts, PoppedTyped DEF TypeInv, TypeOK
<1>2. \A j \in DOMAIN outQ[c] : ok(outQ[c][j])
  BY DEF FlitsAddressed
<1>3. \A j \in DOMAIN p : ok(p[j])
  <2>1. CASE c \in Sent
    <3>1. outQ[c] # <<>> /\ p = Tail(outQ[c])
      BY <1>1, <2>1, SentFired, SpeakerHas DEF Popped
    <3>2. \A j \in DOMAIN p : j + 1 \in DOMAIN outQ[c] /\ p[j] = outQ[c][j + 1]
      BY <1>1, <3>1
    <3> HIDE DEF ok, p
    <3> QED
      BY <1>2, <3>2
  <2>2. CASE c \notin Sent
    BY <1>2, <2>2 DEF Popped
  <2> QED
    BY <2>1, <2>2
<1>4. CASE c \in Fired
  <2> DEFINE w == OutFlit(c)
  <2>1. OutValid(c) /\ MessagesReady
    BY <1>1, <1>4, FiredValid DEF TypeInv
  <2>2. w \in Flit /\ ok(w)
    BY <1>1, <2>1, OutFlitTyped, OutFlitCopy
  <2>3. outQ'[c] = p \o <<w>>
    BY <1>4, QueueStep
  <2> HIDE DEF w, p, ok
  <2>4. outQ'[c][i] = w \/ (i \in DOMAIN p /\ outQ'[c][i] = p[i])
    <3>1. i \in 1 .. Len(p) + 1 /\ Len(p) \in Nat
      BY <1>1, <2>2, <2>3
    <3> QED
      BY <1>1, <2>2, <2>3, <3>1
  <2> QED
    BY <1>3, <2>2, <2>4 DEF ok
<1>5. CASE c \notin Fired
  <2>1. outQ'[c] = p
    BY <1>1, <1>5, QueueStep, ConcatEmptySeq
  <2> QED
    BY <1>3, <2>1
<1> QED
  BY <1>4, <1>5

LEMMA AddressedStep ==
  ASSUME TypeInv, BitsApart, FlitsAddressed, Tick, TypeOK'
  PROVE  FlitsAddressed'
<1> DEFINE F == {f \in Flit : \E s, d \in Ports : IsCopy(f, s, d)}
<1>1. None \notin F /\ \A f \in Flit : Aged(f) \in F <=> f \in F
  BY NoneIsNoFlit, AgedFlit, CopyAged
<1>2. TorusTypeOK /\ Clock(Offer) /\ Offer \in [Routers -> Flit \cup {None}]
  BY OfferTyped DEF TypeInv, TypeOK, Tick
<1>3. \A r \in Routers : xPkt[r] \in F \cup {None} /\ yPkt[r] \in F \cup {None}
  <2> SUFFICES ASSUME NEW r \in Routers, NEW f \in {xPkt[r], yPkt[r]}, f # None
               PROVE  f \in F
    OBVIOUS
  <2>1. f \in Flit
    BY <1>2 DEF TorusTypeOK
  <2> QED
    BY <2>1 DEF FlitsAddressed, InFlight
<1>4. \A r \in Routers : Offer[r] \in F \cup {None}
  <2> SUFFICES ASSUME NEW r \in Routers, Offer[r] # None PROVE Offer[r] \in F
    OBVIOUS
  <2>1. PICK e \in Ports : Speaks(e) /\ RouterOf(e) = r
    BY OfferedWord
  <2>2. Offer[r] = Word(e) /\ Offer[r] \in Flit
    BY <1>2, <2>1, OfferedWord
  <2> QED
    BY <2>1, <2>2, WordAddressed
<1>5. \A r \in Routers : xPkt'[r] \in F \cup {None} /\ yPkt'[r] \in F \cup {None}
  <2> HIDE DEF F
  <2> QED
    BY <1>1, <1>2, <1>3, <1>4, ClockKeeps
<1>6. \A r \in Routers : \A f \in InFlight(r)' : \E s, d \in Ports : IsCopy(f, s, d)
  BY <1>5 DEF InFlight
<1> QED
  BY <1>6, QueuesAddressed DEF FlitsAddressed

LEMMA TickQueues ==
  ASSUME TypeInv, BitsApart, FlitsAddressed, QueuesHold, Tick, TypeOK'
  PROVE  QueuesHold'
<1> SUFFICES ASSUME NEW d \in Ports
             PROVE  /\ Owed(d)' <= QueueDepth
                    /\ Total(Read(d)') = Len(recvQ'[d])
  BY DEF QueuesHold, Read
<1>1. TypeOK
  BY DEF TypeInv
<1>2. Due(d)' = Due(d)
  BY TickDelivers DEF Due
<1>3. Owed(d)' = Total(Due(d)')
  BY DEF Owed, Due
<1>4. Owed(d)' <= QueueDepth
  BY <1>1, <1>2, <1>3, QueuesSums
<1>5. /\ Read(d) \in [Ports -> Nat] /\ Total(Read(d)) = Len(recvQ[d])
      /\ \A s \in Ports : Read(d)[s] = Arrived(s, d)
  BY <1>1, SumsTyped, QueuesSums
<1>6. /\ Read(d)' \in [Ports -> Nat]
      /\ \A s \in Ports : Read(d)'[s] = Arrived(s, d)'
  BY TickDelivers DEF Read
<1>7. CASE Arriving(d)
  <2> DEFINE t == yPkt[RouterOf(d)].packet.src
  <2>1. t \in Ports /\ Delivered(t, d) /\ Len(recvQ[d]) < QueueDepth
    BY <1>7, ArrivingCopy, RoomForArrival
  <2>2. recvQ'[d] = Append(recvQ[d], t)
    BY <1>7, <2>1 DEF Tick
  <2>3. \A s \in Ports : Delivered(s, d) <=> s = t
    BY <2>1, DeliveredArrives
  <2>4. \A s \in Ports : Arrived(s, d)' = Arrived(s, d) + One(Delivered(s, d))
    BY ArriveStep
  <2> HIDE DEF t
  <2>5. /\ Read(d)'[t] = Read(d)[t] + 1
        /\ \A s \in Ports : s # t => Read(d)'[s] = Read(d)[s]
    BY <1>5, <1>6, <2>1, <2>3, <2>4 DEF One
  <2>6. Total(Read(d)') = Total(Read(d)) + 1
    BY <1>5, <1>6, <2>1, <2>5, TotalOneMore
  <2>7. Len(recvQ'[d]) = Len(recvQ[d]) + 1
    BY <1>1, <2>1, <2>2 DEF TypeOK
  <2> QED
    BY <1>4, <1>5, <2>6, <2>7
<1>8. CASE ~Arriving(d)
  <2>1. recvQ'[d] = recvQ[d]
    BY <1>8 DEF Tick
  <2>2. \A s \in Ports : Arrived(s, d)' = Arrived(s, d)
    BY <2>1 DEF Arrived
  <2>3. Read(d)' = Read(d)
    BY <2>2 DEF Read
  <2> QED
    BY <1>4, <1>5, <2>1, <2>3
<1> QED
  BY <1>7, <1>8

\* Port e hands over a message: a copy is owed to each of its destinations.
LEMMA SendTravels ==
  ASSUME TypeInv, NEW e, NEW m, Send(e, m),
         NEW s \in Ports, NEW d \in Ports
  PROVE  /\ Travelling(s, d)' = Travelling(s, d) + One(s = e /\ d \in Recipients(m))
         /\ Arrived(s, d)' = Arrived(s, d)
<1>1. /\ Take(e, m) /\ e \in Ports /\ m # NoMessage
      /\ m.dst \subseteq Ports
  BY MessageTyped DEF Send
<1>2. /\ inReg[e] = NoMessage /\ counter[e] = 0
      /\ inReg' = [inReg EXCEPT ![e] = m]
      /\ counter' = counter
      /\ inReg \in [Ports -> Message \cup {NoMessage}]
  BY <1>1 DEF Take, Ready, TypeInv, TypeOK, AdapterTypeOK, MessagesReady
<1>4. ToMake(s, d)' = ToMake(s, d) + One(s = e /\ d \in Recipients(m))
  <2>1. CASE s = e
    <3>1. inReg'[s] = m /\ counter'[s] = 0 /\ \A b \in m.dst : 0 <= b
      BY <1>1, <1>2, <2>1, PortFacts
    <3>2. ToMake(s, d)' = One(\E b \in m.dst : Named(b, m.bit) = d)
      BY <1>1, <3>1 DEF ToMake, One
    <3>3. d \in Recipients(m) <=> \E b \in m.dst : Named(b, m.bit) = d
      BY DEF Recipients
    <3>4. ToMake(s, d) = 0
      BY <1>2, <2>1 DEF ToMake
    <3> QED
      BY <2>1, <3>2, <3>3, <3>4 DEF One
  <2>2. CASE s # e
    <3>1. inReg'[s] = inReg[s] /\ counter'[s] = counter[s]
      BY <1>2, <2>2
    <3>2. ToMake(s, d)' = ToMake(s, d)
      BY <3>1 DEF ToMake
    <3> QED
      BY <2>2, <3>2, CountsTyped DEF One, TypeInv
  <2> QED
    BY <2>1, <2>2
<1>5. /\ ToLeave(s, d)' = ToLeave(s, d) /\ UnderWay(s, d)' = UnderWay(s, d)
      /\ Arrived(s, d)' = Arrived(s, d)
  BY DEF Send, torus, ToLeave, UnderWay, Arrived
<1>6. ToMake(s, d) \in Nat /\ ToLeave(s, d) \in Nat /\ UnderWay(s, d) \in Nat
  BY CountsTyped DEF TypeInv
<1>7. /\ Travelling(s, d) = ToMake(s, d) + ToLeave(s, d) + UnderWay(s, d)
      /\ Travelling(s, d)' = ToMake(s, d)' + ToLeave(s, d)' + UnderWay(s, d)'
  BY DEF Travelling
<1> QED
  BY <1>4, <1>5, <1>6, <1>7 DEF One

LEMMA SendQueues ==
  ASSUME TypeInv, QueuesHold, NEW e, NEW m, Send(e, m)
  PROVE  QueuesHold'
<1> SUFFICES ASSUME NEW d \in Ports
             PROVE  /\ Total(Due(d)') <= QueueDepth
                    /\ Total(Read(d)') = Len(recvQ'[d])
  BY DEF QueuesHold, Read, Owed, Due
<1>1. /\ Total(Due(d)) <= QueueDepth /\ Owed(d) = Total(Due(d)) /\ QueueDepth \in Nat
      /\ Total(Read(d)) = Len(recvQ[d])
      /\ Due(d) \in [Ports -> Nat]
      /\ \A s \in Ports : /\ Due(d)[s] = Travelling(s, d) + Arrived(s, d)
                          /\ Travelling(s, d) \in Nat /\ Arrived(s, d) \in Nat
  BY QueuesSums, SumsTyped, CountsTyped DEF TypeInv
<1>2. \A s \in Ports : /\ Travelling(s, d)' = Travelling(s, d) + One(s = e /\ d \in Recipients(m))
                       /\ Arrived(s, d)' = Arrived(s, d)
  BY SendTravels
<1>3. Total(Read(d)') = Len(recvQ'[d])
  <2>1. Read(d)' = Read(d)
    BY <1>2 DEF Read
  <2> QED
    BY <1>1, <2>1 DEF Send
<1>4. ASSUME NEW s \in Ports
      PROVE  Due(d)'[s] = IF s = e /\ d \in Recipients(m) THEN Due(d)[s] + 1 ELSE Due(d)[s]
  <2>1. Due(d)'[s] = Travelling(s, d)' + Arrived(s, d)'
    BY DEF Due
  <2>2. /\ Travelling(s, d)' = Travelling(s, d) + One(s = e /\ d \in Recipients(m))
        /\ Arrived(s, d)' = Arrived(s, d)
    BY <1>2
  <2>3. /\ Due(d)[s] = Travelling(s, d) + Arrived(s, d)
        /\ Travelling(s, d) \in Nat /\ Arrived(s, d) \in Nat
    BY <1>1
  <2>4. One(s = e /\ d \in Recipients(m)) = IF s = e /\ d \in Recipients(m) THEN 1 ELSE 0
    BY DEF One
  <2> QED
    BY <2>1, <2>2, <2>3, <2>4
<1>5. Due(d)' \in [Ports -> Nat]
  <2>1. Due(d)' = [s \in Ports |-> Due(d)'[s]]
    BY DEF Due
  <2>2. ASSUME NEW s \in Ports PROVE Due(d)'[s] \in Nat
    <3>1. Due(d)[s] \in Nat
      BY <1>1
    <3> QED
      BY <1>4, <3>1
  <2> QED
    BY <2>1, <2>2
<1>6. Total(Due(d)) \in Nat
  BY <1>1, PairsFinite
<1>7. CASE d \in Recipients(m)
  <2>1. Total(Due(d)) < QueueDepth
    BY <1>1, <1>7 DEF Send
  <2>2. /\ Due(d)'[e] = Due(d)[e] + 1
        /\ \A s \in Ports : s # e => Due(d)'[s] = Due(d)[s]
    BY <1>4, <1>7, MessageTyped
  <2>3. Total(Due(d)') = Total(Due(d)) + 1
    BY <1>1, <1>5, <2>2, TotalOneMore, MessageTyped
  <2> QED
    BY <1>1, <1>3, <1>6, <2>1, <2>3
<1>8. CASE d \notin Recipients(m)
  <2>1. \A s \in Ports : Due(d)'[s] = Due(d)[s]
    BY <1>4, <1>8
  <2>2. Due(d)' = Due(d)
    BY <1>1, <1>5, <2>1
  <2> QED
    BY <1>1, <1>3, <2>2
<1> QED
  BY <1>7, <1>8

LEMMA SendInv ==
  ASSUME CopiesInv, NEW e, NEW m, Send(e, m)
  PROVE  CopiesInv'
<1>1. TypeInv /\ BitsApart /\ FlitsAddressed /\ QueuesHold
  BY DEF CopiesInv
<1>2. BitsApart'
  <2>1. inReg' = [inReg EXCEPT ![e] = m] /\ (m.bit => Dir \notin m.dst)
    BY MessageTyped DEF Send, Take
  <2>2. \A f \in Ports : inReg'[f] = IF f = e THEN m ELSE inReg[f]
    BY <1>1, <2>1 DEF TypeInv, TypeOK, AdapterTypeOK
  <2> QED
    BY <1>1, <2>1, <2>2 DEF BitsApart, Ready
<1>3. FlitsAddressed'
  BY <1>1 DEF Send, torus, FlitsAddressed, InFlight
<1> QED
  BY <1>1, <1>2, <1>3, SendTyped, SendQueues DEF CopiesInv

\* Port e reads the oldest copy in its queue.
LEMMA ConsumeReads ==
  ASSUME TypeInv, NEW e \in Ports, Consume(e)
  PROVE  /\ Head(recvQ[e]) \in Ports
         /\ Len(recvQ'[e]) = Len(recvQ[e]) - 1
         /\ \A d \in Ports : d # e => recvQ'[d] = recvQ[d]
         /\ \A s, d \in Ports :
              /\ Travelling(s, d)' = Travelling(s, d)
              /\ Arrived(s, d)' \in Nat
              /\ Arrived(s, d) = IF d = e /\ s = Head(recvQ[e]) THEN Arrived(s, d)' + 1
                                                                ELSE Arrived(s, d)'
<1>1. /\ recvQ[e] # <<>> /\ recvQ[e] \in Seq(Ports) /\ TypeOK
      /\ recvQ'[e] = Tail(recvQ[e])
      /\ \A d \in Ports : d # e => recvQ'[d] = recvQ[d]
  BY DEF Consume, TypeInv, TypeOK
<1>2. Head(recvQ[e]) \in Ports /\ Len(recvQ'[e]) = Len(recvQ[e]) - 1
  BY <1>1, HeadTailProperties
<1>3. ASSUME NEW s \in Ports, NEW d \in Ports
      PROVE  /\ Travelling(s, d)' = Travelling(s, d)
             /\ Arrived(s, d)' \in Nat
             /\ Arrived(s, d) = IF d = e /\ s = Head(recvQ[e]) THEN Arrived(s, d)' + 1
                                                               ELSE Arrived(s, d)'
  <2>1. Travelling(s, d)' = Travelling(s, d)
    BY DEF Consume, torus, adapter, Travelling, ToMake, ToLeave, UnderWay
  <2>2. /\ Arrived(s, d) = Cardinality(Places(recvQ[d], {s})) /\ Arrived(s, d) \in Nat
        /\ Arrived(s, d)' = Cardinality(Places(recvQ'[d], {s}))
    <3>1. {i \in DOMAIN recvQ'[d] : recvQ'[d][i] = s} = Places(recvQ'[d], {s})
      BY DEF Places
    <3> QED
      BY <1>1, <3>1, ArrivedCount DEF Arrived
  <2>3. CASE d = e
    <3>1. Cardinality(Places(recvQ[e], {s}))
            = Cardinality(Places(Tail(recvQ[e]), {s})) + One(Head(recvQ[e]) \in {s})
      BY <1>1, PlacesTail
    <3>2. Cardinality(Places(Tail(recvQ[e]), {s})) \in Nat
      <4>1. Tail(recvQ[e]) \in Seq(Ports)
        BY <1>1, HeadTailProperties
      <4> QED
        BY <4>1, PlacesFinite
    <3> QED
      BY <1>1, <2>1, <2>2, <2>3, <3>1, <3>2 DEF One
  <2>4. CASE d # e
    BY <1>1, <2>1, <2>2, <2>4 DEF One
  <2> QED
    BY <2>3, <2>4
<1> QED
  BY <1>1, <1>2, <1>3

LEMMA ConsumeQueues ==
  ASSUME TypeInv, QueuesHold, NEW e \in Ports, Consume(e)
  PROVE  QueuesHold'
<1> SUFFICES ASSUME NEW d \in Ports
             PROVE  /\ Total(Due(d)') <= QueueDepth
                    /\ Total(Read(d)') = Len(recvQ'[d])
  BY DEF QueuesHold, Read, Owed, Due
<1> DEFINE t == Head(recvQ[e])
<1>1. /\ Total(Due(d)) <= QueueDepth /\ QueueDepth \in Nat
      /\ Total(Read(d)) = Len(recvQ[d]) /\ Len(recvQ[d]) \in Nat
      /\ Due(d) \in [Ports -> Nat] /\ Read(d) \in [Ports -> Nat]
      /\ \A s \in Ports : /\ Due(d)[s] = Travelling(s, d) + Arrived(s, d)
                          /\ Read(d)[s] = Arrived(s, d)
                          /\ Travelling(s, d) \in Nat /\ Arrived(s, d) \in Nat
  BY QueuesSums, SumsTyped, CountsTyped DEF TypeInv
<1>2. /\ t \in Ports /\ (d = e => Len(recvQ'[d]) = Len(recvQ[d]) - 1)
      /\ d # e => recvQ'[d] = recvQ[d]
      /\ \A s \in Ports :
           /\ Travelling(s, d)' = Travelling(s, d) /\ Arrived(s, d)' \in Nat
           /\ Arrived(s, d) = IF d = e /\ s = t THEN Arrived(s, d)' + 1
                                                 ELSE Arrived(s, d)'
  BY ConsumeReads
<1> HIDE DEF t
<1>3. /\ Due(d)' \in [Ports -> Nat] /\ Read(d)' \in [Ports -> Nat]
      /\ \A s \in Ports : /\ Due(d)'[s] = Travelling(s, d)' + Arrived(s, d)'
                          /\ Read(d)'[s] = Arrived(s, d)'
  <2>1. ASSUME NEW s \in Ports PROVE Travelling(s, d)' + Arrived(s, d)' \in Nat
    <3>1. Travelling(s, d) \in Nat /\ Travelling(s, d)' = Travelling(s, d)
      BY <1>1, <1>2
    <3>2. Arrived(s, d)' \in Nat
      BY <1>2
    <3> QED
      BY <3>1, <3>2
  <2> QED
    BY <1>2, <2>1 DEF Due, Read
<1>4. Total(Due(d)') <= QueueDepth
  <2>1. ASSUME NEW s \in Ports PROVE Due(d)'[s] <= Due(d)[s]
    <3>1. Arrived(s, d)' \in Nat /\ Arrived(s, d)' <= Arrived(s, d)
      BY <1>2
    <3>2. Travelling(s, d) \in Nat /\ Travelling(s, d)' = Travelling(s, d)
      BY <1>1, <1>2
    <3>3. /\ Due(d)[s] = Travelling(s, d) + Arrived(s, d)
          /\ Due(d)'[s] = Travelling(s, d)' + Arrived(s, d)'
      BY <1>1, <1>3
    <3> QED
      BY <1>1, <3>1, <3>2, <3>3
  <2>2. Total(Due(d)') <= Total(Due(d))
    BY <1>1, <1>3, <2>1, TotalMonotone
  <2>3. Total(Due(d)') \in Nat /\ Total(Due(d)) \in Nat
    BY <1>1, <1>3, PairsFinite
  <2> QED
    BY <1>1, <2>2, <2>3
<1>5. CASE d = e
  <2>1. ASSUME NEW s \in Ports
        PROVE  Read(d)[s] = IF s = t THEN Read(d)'[s] + 1 ELSE Read(d)'[s]
    <3>1. Arrived(s, d) = IF s = t THEN Arrived(s, d)' + 1 ELSE Arrived(s, d)'
      BY <1>2, <1>5
    <3>2. Read(d)[s] = Arrived(s, d) /\ Read(d)'[s] = Arrived(s, d)'
      BY <1>1, <1>3
    <3> QED
      BY <3>1, <3>2
  <2>2. t \in Ports /\ Read(d) \in [Ports -> Nat] /\ Read(d)' \in [Ports -> Nat]
    BY <1>1, <1>2, <1>3
  <2>3. /\ Read(d)[t] = Read(d)'[t] + 1
        /\ \A s \in Ports : s # t => Read(d)[s] = Read(d)'[s]
    BY <2>1, <2>2
  <2>4. Total(Read(d)) = Total(Read(d)') + 1
    BY <2>2, <2>3, TotalOneMore
  <2>5. Total(Read(d)') \in Nat
    BY <2>2, PairsFinite
  <2>6. Total(Read(d)) = Len(recvQ[d]) /\ Len(recvQ'[d]) = Len(recvQ[d]) - 1
    BY <1>1, <1>2, <1>5
  <2> QED
    BY <1>4, <2>4, <2>5, <2>6
<1>6. CASE d # e
  <2>1. \A s \in Ports : Arrived(s, d)' = Arrived(s, d)
    BY <1>1, <1>2, <1>6
  <2>2. Read(d)' = Read(d)
    BY <2>1 DEF Read
  <2> QED
    BY <1>1, <1>2, <1>4, <1>6, <2>2
<1> QED
  BY <1>5, <1>6

LEMMA ConsumeInv ==
  ASSUME CopiesInv, NEW e \in Ports, Consume(e)
  PROVE  CopiesInv'
<1>1. TypeInv /\ BitsApart /\ FlitsAddressed /\ QueuesHold
  BY DEF CopiesInv
<1>2. BitsApart'
  BY <1>1 DEF Consume, adapter, BitsApart, Ready
<1>3. FlitsAddressed'
  BY <1>1 DEF Consume, torus, FlitsAddressed, InFlight
<1> QED
  BY <1>1, <1>2, <1>3, ConsumeTyped, ConsumeQueues DEF CopiesInv

LEMMA TickInv == CopiesInv /\ Tick => CopiesInv'
<1> SUFFICES ASSUME CopiesInv, Tick PROVE CopiesInv'
  OBVIOUS
<1>1. TypeInv /\ BitsApart /\ FlitsAddressed /\ QueuesHold
  BY DEF CopiesInv
<1>2. TypeInv'
  BY <1>1, TickTyped
<1>3. TypeOK'
  BY <1>2 DEF TypeInv
<1> QED
  BY <1>1, <1>2, <1>3, BitsStep, AddressedStep, TickQueues DEF CopiesInv

LEMMA InitCounts ==
  ASSUME Init, NEW s \in Ports, NEW d \in Ports
  PROVE  Travelling(s, d) = 0 /\ Arrived(s, d) = 0
<1>1. ToMake(s, d) = 0
  BY DEF Init, AdapterInit, ToMake
<1>2. ToLeave(s, d) = 0
  <2>1. CASE s = Dir
    BY <2>1 DEF ToLeave
  <2>2. CASE s \in Cores
    <3>1. {i \in DOMAIN outQ[s] : IsCopy(outQ[s][i], s, d)} = {}
      BY <2>2 DEF Init
    <3> QED
      BY <3>1, FS_EmptySet, <2>2, CoreFacts DEF ToLeave
  <2> QED
    BY <2>1, <2>2, PortFacts
<1>3. UnderWay(s, d) = 0
  <2>1. /\ {r \in Routers : IsCopy(xPkt[r], s, d)} = {}
        /\ {r \in Routers : IsCopy(yPkt[r], s, d)} = {}
    BY DEF Init, TorusInit, IsCopy
  <2> QED
    BY <2>1, FS_EmptySet DEF UnderWay
<1>4. Arrived(s, d) = 0
  <2>1. {i \in DOMAIN recvQ[d] : recvQ[d][i] = s} = {}
    BY DEF Init
  <2> QED
    BY <2>1, FS_EmptySet DEF Arrived
<1> QED
  BY <1>1, <1>2, <1>3, <1>4 DEF Travelling

LEMMA InitCopies == Init => CopiesInv
<1> SUFFICES ASSUME Init PROVE CopiesInv
  OBVIOUS
<1>1. TypeInv /\ TypeOK
  BY InitTyped DEF TypeInv
<1>2. BitsApart /\ FlitsAddressed
  BY DEF Init, AdapterInit, TorusInit, BitsApart, Ready, FlitsAddressed, InFlight
<1>3. ASSUME NEW d \in Ports
      PROVE  Owed(d) <= QueueDepth /\ Total([s \in Ports |-> Arrived(s, d)]) = Len(recvQ[d])
  <2>1. /\ Due(d) \in [Ports -> Nat] /\ Read(d) \in [Ports -> Nat]
        /\ \A s \in Ports : Due(d)[s] = 0 /\ Read(d)[s] = 0
    BY <1>1, SumsTyped, InitCounts
  <2>2. Total(Due(d)) = 0 /\ Total(Read(d)) = 0
    BY <2>1, TotalZero
  <2>3. Owed(d) = Total(Due(d)) /\ Read(d) = [s \in Ports |-> Arrived(s, d)]
    BY DEF Owed, Due, Read
  <2>4. Len(recvQ[d]) = 0
    BY DEF Init
  <2> QED
    BY <2>2, <2>3, <2>4, NetworkAssumption
<1> QED
  BY <1>1, <1>2, <1>3 DEF CopiesInv, QueuesHold

LEMMA UnchangedCopies == CopiesInv /\ UNCHANGED vars => CopiesInv'
<1> SUFFICES ASSUME CopiesInv, UNCHANGED vars PROVE CopiesInv'
  OBVIOUS
<1>1. TypeInv'
  BY UnchangedTyped DEF CopiesInv
<1>2. BitsApart' /\ FlitsAddressed'
  BY DEF CopiesInv, vars, torus, adapter, BitsApart, Ready, FlitsAddressed, InFlight
<1>3. \A s, d \in Ports : Travelling(s, d)' = Travelling(s, d) /\ Arrived(s, d)' = Arrived(s, d)
  BY DEF vars, torus, adapter, Travelling, ToMake, ToLeave, UnderWay, Arrived
<1>4. \A d \in Ports : Due(d)' = Due(d) /\ Read(d)' = Read(d)
  BY <1>3 DEF Due, Read
<1>5. QueuesHold'
  BY <1>4 DEF CopiesInv, vars, QueuesHold, Owed, Due, Read
<1> QED
  BY <1>1, <1>2, <1>5 DEF CopiesInv

LEMMA CopiesStep == CopiesInv /\ [Next]_vars => CopiesInv'
BY TickInv, SendInv, ConsumeInv, UnchangedCopies DEF Next

-----------------------------------------------------------------------------
(* Refinement.                                                             *)

LEMMA InitPromised == Init => Promised!Init
BY InitCounts DEF Promised!Init

LEMMA TickPromised == CopiesInv /\ Tick => Promised!Next
<1> SUFFICES ASSUME CopiesInv, Tick PROVE Promised!Deliver
  BY DEF Promised!Next
<1>1. TypeInv /\ BitsApart /\ FlitsAddressed /\ QueuesHold
  BY DEF CopiesInv
<1>2. TypeOK'
  BY <1>1, TickTyped DEF TypeInv
<1>3. \A s, d \in Ports :
        /\ Travelling(s, d)' \in Nat /\ Arrived(s, d)' \in Nat
        /\ Travelling(s, d)' <= Travelling(s, d)
        /\ Travelling(s, d)' + Arrived(s, d)' = Travelling(s, d) + Arrived(s, d)
  BY <1>1, <1>2, TickDelivers
<1> QED
  BY <1>3 DEF Promised!Deliver, Promised!Copies

LEMMA SendPromised ==
  ASSUME CopiesInv, NEW e, NEW m, Send(e, m)
  PROVE  Promised!Next
<1>1. \A s, d \in Ports :
        /\ Travelling(s, d) \in Nat
        /\ Travelling(s, d)' = Travelling(s, d) + One(s = e /\ d \in Recipients(m))
        /\ Arrived(s, d)' = Arrived(s, d)
  BY SendTravels, CountsTyped DEF CopiesInv, TypeInv
<1>2. \A s, d \in Ports :
        /\ Travelling(s, d)' \in Nat
        /\ Travelling(s, d)' - Travelling(s, d) \in IF s = e THEN {0, 1} ELSE {0}
  BY <1>1 DEF One
<1>3. Promised!Send(e)
  BY <1>1, <1>2 DEF Promised!Send, Promised!Copies
<1> QED
  BY <1>3, MessageTyped DEF Promised!Next

LEMMA ConsumePromised ==
  ASSUME CopiesInv, NEW e \in Ports, Consume(e)
  PROVE  Promised!Next
<1> DEFINE t == Head(recvQ[e])
<1>1. /\ t \in Ports
      /\ \A s, d \in Ports :
           /\ Travelling(s, d)' = Travelling(s, d)
           /\ Arrived(s, d)' \in Nat
           /\ Arrived(s, d) = IF d = e /\ s = t THEN Arrived(s, d)' + 1
                                                 ELSE Arrived(s, d)'
  BY ConsumeReads DEF CopiesInv
<1> HIDE DEF t
<1>2. Arrived(t, e) > 0
  BY <1>1
<1>3. \A s, d \in Ports :
        Arrived(s, d)' = IF s = t /\ d = e THEN Arrived(s, d) - 1 ELSE Arrived(s, d)
  BY <1>1
<1>4. Promised!Consume(t, e)
  BY <1>1, <1>2, <1>3 DEF Promised!Consume
<1> QED
  BY <1>1, <1>4 DEF Promised!Next

LEMMA UnchangedPromised ==
  UNCHANGED vars
    => UNCHANGED <<[s \in Ports |-> [d \in Ports |-> Travelling(s, d)]],
                   [s \in Ports |-> [d \in Ports |-> Arrived(s, d)]]>>
BY DEF vars, torus, adapter, Travelling, ToMake, ToLeave, UnderWay, Arrived

\* On a torus of any size, with any ports and queues of any depth, adapter,
\* arbiter, torus, demux and queues together (SystemKernel.scala) bring every copy
\* of a message to the port that its destination and bit 31 name, once, and to
\* nobody else, whatever the LLC leaves in bit 31 of its data (llc.cpp:501).
\* Senders hand over only what the receiver's queue can hold.
THEOREM NetworkDelivers == Spec => ImplementsDelivery
<1>1. CopiesInv /\ [Next]_vars => CopiesInv'
  BY CopiesStep
<1>2. CopiesInv /\ Next => Promised!Next
  BY TickPromised, SendPromised, ConsumePromised DEF Next
<1> QED
  BY <1>1, <1>2, InitCopies, InitPromised, UnchangedPromised, PTL
     DEF Spec, ImplementsDelivery, Promised!Spec
=============================================================================
