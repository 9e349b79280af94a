---------------------------- MODULE Interconnect ----------------------------
(***************************************************************************)
(* What the private caches and the last-level cache exchange, and the      *)
(* three HopliteRT networks that carry it (SystemKernel.scala):            *)
(*   req, wb - request network: a core's GetS/GetM, and the PutS/PutM of   *)
(*             the victim it carries, which LLC.scala forks off at the LLC *)
(*   fwd     - forward network: GetS/GetM/Inv from the LLC to the cores    *)
(*   rsp     - response network: Data, Ack, RespOk, to cores and to the LLC*)
(* A network is the set of the messages in flight or queued at their       *)
(* destination: deflection routing keeps no order and each copy of a       *)
(* multicast (RequestAdapter.scala) travels on its own.  Deliver-by-choice *)
(* is the handler that consumes the message.                               *)
(***************************************************************************)
EXTENDS Integers, FiniteSets, Sequences

CONSTANTS
  Cores,      \* the private caches, ids 0 .. N_-1 in the code
  Directory,  \* the one LLC/directory, id N_
  Lines,      \* cache lines; all of them map to one set of every array
  Values,     \* contents a store can give a line
  ZeroValue,  \* what DRAM holds before the first store
  Garbage,    \* contents nobody wrote (0xDEADBEEF, an unread way)
  None        \* absent entry, request or datum

ASSUME ConstantsAssumption ==
  /\ IsFiniteSet(Cores)
  /\ IsFiniteSet(Lines)
  /\ Directory \notin Cores
  /\ ZeroValue \in Values
  /\ None \notin Cores \cup {Directory} \cup Lines \cup Values \cup {Garbage}

Nodes == Cores \cup {Directory}

Data == Values \cup {Garbage}

\* GetS and GetM; "victim" is the line written back by the same flit, or None.
Request == [type: {"GetS", "GetM"}, addr: Lines, src: Cores,
            victim: Lines \cup {None}]

Writeback == [type: {"PutS", "PutM"}, addr: Lines, src: Cores, data: Data]

Forward == [type: {"GetS", "GetM", "Inv"}, addr: Lines, dst: Cores,
            respondTo: Nodes]

\* "sharer" names the core whose copy an Ack gives up; it tells apart the
\* Acks the LLC sends on behalf of different sharers.
Response == [type: {"Data", "Ack", "RespOk"}, addr: Lines, src: Nodes,
             dst: Nodes, acks: Int, data: Data, sharer: Nodes]

VARIABLES req, wb, fwd, rsp

networks == <<req, wb, fwd, rsp>>

\* Each network carries messages of its own kind.
InterconnectTypeOK ==
  /\ req \subseteq Request
  /\ wb \subseteq Writeback
  /\ fwd \subseteq Forward
  /\ rsp \subseteq Response

InterconnectInit ==
  /\ req = {}
  /\ wb = {}
  /\ fwd = {}
  /\ rsp = {}

DataMessage(a, src, dst, acks, d) ==
  [type |-> "Data", addr |-> a, src |-> src, dst |-> dst, acks |-> acks,
   data |-> d, sharer |-> src]

AckMessage(a, src, dst, sharer) ==
  [type |-> "Ack", addr |-> a, src |-> src, dst |-> dst, acks |-> 0,
   data |-> Garbage, sharer |-> sharer]

RespOkMessage(a, src, dst) ==
  [type |-> "RespOk", addr |-> a, src |-> src, dst |-> dst, acks |-> 0,
   data |-> Garbage, sharer |-> src]

ForwardMessage(type, a, dst, respondTo) ==
  [type |-> type, addr |-> a, dst |-> dst, respondTo |-> respondTo]

-----------------------------------------------------------------------------
(* Timing assumptions on the networks.                                     *)

\* A forward about line a is on its way to core c.
ForwardInFlight(c, a) == \E m \in fwd : m.dst = c /\ m.addr = a

\* Owner data about line a is on its way to the LLC.
DataInFlightToDirectory(a) ==
  \E m \in rsp : m.type = "Data" /\ m.dst = Directory /\ m.addr = a

\* w was forked off a request the LLC has taken: it is one queue stage behind
\* that request (LLC.scala pre_wb), and the LLC reads it next.
WritebackDue(w) == ~\E r \in req : r.src = w.src /\ r.victim = w.addr
=============================================================================
