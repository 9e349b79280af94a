------------------------------ MODULE Network ------------------------------
(***************************************************************************)
(* The response network of SystemKernel.scala, from the caches that hand a *)
(* message to their adapter to the queues in front of the caches.  Router  *)
(* 0 serves two ports, core 0 and the directory: an arbiter merges what    *)
(* they send, and bit 31 parts what they receive.  (The request and the    *)
(* forward network are this one without arbiter and demux.)                *)
(*                                                                         *)
(* Nothing tells a sender that a queue is full: toExt.ready is ignored and *)
(* a flit that finds one full is lost.  What keeps the queues from filling *)
(* up is that the protocol never owes a port more than a queue holds,      *)
(* ResponsesFit of module Ditty; here the guard of Send says so.           *)
(***************************************************************************)
EXTENDS Hoplite, RequestAdapter, FiniteSets, Sequences

CONSTANTS
  SendDepth,   \* of a core's queue behind its adapter (32 in the code)
  QueueDepth,  \* of a receive queue (16 in the code)
  Workload     \* <<e, m>>: e may send the message m

Dir == MaxCores

Cores == Ports \ {Dir}

ASSUME NetworkAssumption ==
  /\ Cores \subseteq 0 .. X_DIM * Y_DIM - 1
  /\ {0, Dir} \subseteq Ports
  /\ X_DIM * Y_DIM <= MaxCores
  /\ Packets = [src: Ports, bit: BOOLEAN]
  /\ MAX_RATE > 1
  /\ SendDepth \in Nat \ {0}
  /\ QueueDepth \in Nat \ {0}
  /\ Workload \subseteq Ports \X [dst: SUBSET Ports, bit: BOOLEAN]

\* All messages are made with bit 31 clear (private_cache.cpp:564, llc.cpp:436)
\* but the data the LLC answers with, whose bit nothing sets; that is for a core.
ASSUME BitAssumption ==
  \A w \in Workload : w[2].bit => w[1] = Dir /\ Dir \notin w[2].dst

VARIABLES
  outQ,     \* the flits behind each core's adapter; the LLC has no such queue
  granted,  \* maskLocked of the arbiter: whom it served last
  locked,   \* and whether it has to go on with that one
  recvQ     \* the receive queue of each port, as the senders of its messages

vars == <<torus, adapter, outQ, granted, locked, recvQ>>

Router0 == <<0, 0>>

Address(i) == <<i \div Y_DIM, i % Y_DIM>>

RouterOf(e) == IF e = Dir THEN Router0 ELSE Address(e)

TypeOK ==
  /\ TorusTypeOK
  /\ AdapterTypeOK
  /\ outQ \in [Cores -> Seq(Flit)]
  /\ \A c \in Cores : Len(outQ[c]) <= SendDepth
  /\ granted \in {0, Dir}
  /\ locked \in BOOLEAN
  /\ recvQ \in [Ports -> Seq(Ports)]
  /\ \A e \in Ports : Len(recvQ[e]) <= QueueDepth

Init ==
  /\ TorusInit
  /\ AdapterInit
  /\ outQ = [c \in Cores |-> <<>>]
  /\ granted = Dir
  /\ locked = FALSE
  /\ recvQ = [e \in Ports |-> <<>>]

-----------------------------------------------------------------------------
(* Into the network.                                                       *)

\* What an adapter puts out.
OutFlit(e) ==
  Offered(RouterOf(e), Address(Router(e)), [src |-> e, bit |-> OutBit(e)])

\* The ports with a flit for router 0.
Requests ==
  {e \in {0, Dir} : IF e = Dir THEN OutValid(Dir) ELSE outQ[0] # <<>>}

\* StreamArbiter, round robin: the one it is locked to, or else the other one
\* than last time.
Selected ==
  CASE locked -> granted
    [] ~locked /\ Requests = {0, Dir} -> CHOOSE e \in Requests : e # granted
    [] OTHER -> CHOOSE e \in Requests : TRUE

\* Port e has the word at its router.
Speaks(e) ==
  IF e \in {0, Dir} THEN Requests # {} /\ Selected = e ELSE outQ[e] # <<>>

Offer ==
  [r \in Routers |->
     IF \E e \in Ports : RouterOf(e) = r /\ Speaks(e)
       THEN LET e == CHOOSE p \in Ports : RouterOf(p) = r /\ Speaks(p)
            IN IF e = Dir THEN OutFlit(Dir) ELSE Head(outQ[e])
       ELSE None]

\* Those whose flit the torus accepts.
Sent == {e \in Ports : Speaks(e) /\ Accepts(RouterOf(e), Offer)}

\* Faulty variant: a core's adapter does not look at the queue behind it.
Fired_Blindly ==
  (Sent \cap {Dir}) \cup {c \in Cores : OutValid(c)}

\* The adapters whose flit is taken: by the queue behind it, or by the router.
Fired ==
  (Sent \cap {Dir})
    \cup {c \in Cores : OutValid(c) /\ Len(outQ[c]) < SendDepth}

-----------------------------------------------------------------------------
(* Out of the network.                                                     *)

\* The demux at router 0, and the single port anywhere else.
PortAt(r, f) ==
  IF r = Router0 /\ f.packet.bit THEN Dir
  ELSE CHOOSE c \in Cores : RouterOf(c) = r

Arriving(e) ==
  peVld[RouterOf(e)] /\ PortAt(RouterOf(e), yPkt[RouterOf(e)]) = e

-----------------------------------------------------------------------------
\* A flit that is a copy of a message from s to d.
IsCopy(f, s, d) ==
  /\ f # None
  /\ f.packet.src = s
  /\ f.dst = RouterOf(d)
  /\ RouterOf(d) = Router0 => f.packet.bit = (d = Dir)

\* The port that destination bit d and bit 31 name together.
Named(d, bit) == IF d = 0 /\ bit THEN Dir ELSE d

\* The ports a message goes to.
Recipients(m) == {Named(d, m.bit) : d \in m.dst}

\* Copies from s to d: still to be made, waiting to leave, under way.
ToMake(s, d) ==
  IF inReg[s] # NoMessage
     /\ \E b \in inReg[s].dst : Named(b, inReg[s].bit) = d /\ counter[s] <= b
    THEN 1 ELSE 0

ToLeave(s, d) ==
  IF s = Dir THEN 0
  ELSE Cardinality({i \in DOMAIN outQ[s] : IsCopy(outQ[s][i], s, d)})

UnderWay(s, d) ==
  Cardinality({r \in Routers : IsCopy(xPkt[r], s, d)})
    + Cardinality({r \in Routers : IsCopy(yPkt[r], s, d)})

Travelling(s, d) == ToMake(s, d) + ToLeave(s, d) + UnderWay(s, d)

Arrived(s, d) == Cardinality({i \in DOMAIN recvQ[d] : recvQ[d][i] = s})

\* The sum of a number for each port, as the number of pairs it stands for.
Total(count) == Cardinality(UNION {{s} \X (1 .. count[s]) : s \in Ports})

Owed(d) == Total([s \in Ports |-> Travelling(s, d) + Arrived(s, d)])

-----------------------------------------------------------------------------
\* Cache e hands a message to its adapter, for ports that can be expected to hold
\* it.
Send(e, m) ==
  /\ <<e, m>> \in Workload
  /\ \A d \in Recipients(m) : Owed(d) < QueueDepth
  /\ Take(e, m)
  /\ UNCHANGED <<torus, outQ, granted, locked, recvQ>>

\* Cache e reads the oldest message in its queue.
Consume(e) ==
  /\ recvQ[e] # <<>>
  /\ recvQ' = [recvQ EXCEPT ![e] = Tail(@)]
  /\ UNCHANGED <<torus, adapter, outQ, granted, locked>>

\* A clock edge, in every part at once.
Tick ==
  /\ Clock(Offer)
  /\ AdapterClock(Fired)
  /\ outQ' = [c \in Cores |->
               (IF c \in Sent THEN Tail(outQ[c]) ELSE outQ[c])
                 \o (IF c \in Fired THEN <<OutFlit(c)>> ELSE <<>>)]
  /\ granted' = IF Requests = {} THEN granted ELSE Selected
  /\ locked' = IF Requests = {} THEN locked ELSE Sent \cap Requests = {}
  /\ recvQ' = [e \in Ports |->
                IF Arriving(e) /\ Len(recvQ[e]) < QueueDepth
                  THEN Append(recvQ[e], yPkt[RouterOf(e)].packet.src)
                  ELSE recvQ[e]]

Next ==
  \/ \E w \in Workload : Send(w[1], w[2])
  \/ \E e \in Ports : Consume(e)
  \/ Tick

\* The clock keeps ticking: only Tick moves rate_cntr, and it is always enabled,
\* so this is WF_vars(Tick) in a form that is cheap to check.
ClockRuns == []<>(rateCntr = 0) /\ []<>(rateCntr # 0)

Spec == Init /\ [][Next]_vars /\ ClockRuns

-----------------------------------------------------------------------------
(* What is inductive; NetworkProofs proves it.                             *)

\* An adapter that is ready starts at destination bit 0; one that is not holds
\* a message for ports.
MessagesReady ==
  \A e \in Ports : IF Ready(e) THEN counter[e] = 0 ELSE inReg[e].dst \subseteq Ports

\* The arbiter is locked on a port that still asks.
ArbiterWaits == locked => granted \in Requests

\* A south register holds a flit just if it is valid.
SouthValid == \A r \in Routers : yPkt[r] # None <=> yVld[r] \/ peVld[r]

TypeInv ==
  /\ TypeOK
  /\ FlitsInPlace
  /\ SouthValid
  /\ MessagesReady
  /\ ArbiterWaits

\* A message with bit 31 set is not for the directory too.
BitsApart == \A e \in Ports : ~Ready(e) /\ inReg[e].bit => Dir \notin inReg[e].dst

\* Every flit is a copy of a message to some port, from the core whose queue it
\* is in.
FlitsAddressed ==
  /\ \A c \in Cores : \A i \in DOMAIN outQ[c] :
       \E d \in Ports : IsCopy(outQ[c][i], c, d)
  /\ \A r \in Routers : \A f \in InFlight(r) : \E s, d \in Ports : IsCopy(f, s, d)

\* No receive queue is owed more than it holds.
QueuesHold ==
  \A d \in Ports :
    /\ Owed(d) <= QueueDepth
    /\ Total([s \in Ports |-> Arrived(s, d)]) = Len(recvQ[d])

CopiesInv == TypeInv /\ BitsApart /\ FlitsAddressed /\ QueuesHold

Promised ==
  INSTANCE Delivery WITH
    travelling <- [s \in Ports |-> [d \in Ports |-> Travelling(s, d)]],
    arrived <- [s \in Ports |-> [d \in Ports |-> Arrived(s, d)]]

\* Adapter, arbiter, torus, demux and queues together lose or duplicate no copy
\* of a message, and hand each to the port its destination and bit 31 name, which
\* is the destination itself unless the LLC left the bit set.
ImplementsDelivery == Promised!Spec

\* No multicast gets stuck: the arbiter, the tokens and the traffic of others
\* let every flit of it into the network.
MulticastEnds == \A e \in Ports : inReg[e] # NoMessage ~> Ready(e)
=============================================================================
