--------------------------- MODULE RequestAdapter ---------------------------
(***************************************************************************)
(* RequestAdapter.scala: turns a message with a set of destinations into   *)
(* one flit per destination.  It holds the message in in_reg and counts    *)
(* through the destination bits, a cycle for each that is clear and as     *)
(* long as the flit takes to leave for each that is set.  Bits below       *)
(* MaxCores (16 in the code) are cores, the bits above are directories and *)
(* start over at router 0; bit 31 of respond_to_src_network_id tells the   *)
(* two apart where they share a router.                                    *)
(***************************************************************************)
EXTENDS Integers

CONSTANTS
  Ports,     \* those that have an adapter
  MaxCores,  \* destination bits of the cores, and of the directories
  NoMessage  \* in_reg is not valid

ASSUME AdapterAssumption == MaxCores \in Nat \ {0}

Fanout == 0 .. 2 * MaxCores - 1

\* "bit" is bit 31 as the sender left it.
Message == [dst: SUBSET Fanout, bit: BOOLEAN]

ASSUME NoMessageAssumption == NoMessage \notin Message

VARIABLES
  inReg,   \* in_reg of each port's adapter
  counter  \* counter of each port's adapter

adapter == <<inReg, counter>>

AdapterTypeOK ==
  /\ inReg \in [Ports -> Message \cup {NoMessage}]
  /\ counter \in [Ports -> Fanout]

AdapterInit ==
  /\ inReg = [e \in Ports |-> NoMessage]
  /\ counter = [e \in Ports |-> 0]

\* io.in.ready and io.out.valid.
Ready(e) == inReg[e] = NoMessage

OutValid(e) == inReg[e] # NoMessage /\ counter[e] \in inReg[e].dst

\* cur_value.
Router(e) == IF counter[e] >= MaxCores THEN counter[e] - MaxCores ELSE counter[e]

\* Faulty variant: bit 31 is left to the sender.
OutBit_Kept(e) == inReg[e].bit

\* Bit 31 is set for a directory, and left as it is for a core.
OutBit(e) == counter[e] >= MaxCores \/ inReg[e].bit

\* io.in.fire.
Take(e, m) ==
  /\ Ready(e)
  /\ inReg' = [inReg EXCEPT ![e] = m]
  /\ UNCHANGED counter

Advances(e, fired) == inReg[e] # NoMessage /\ (OutValid(e) => e \in fired)

\* Faulty variant: in_reg stays valid when the counter overflows.
Overflows_Never(e) == FALSE

Overflows(e) == counter[e] = 2 * MaxCores - 1

\* A clock edge; "fired" are the adapters whose flit is taken.
AdapterClock(fired) ==
  /\ inReg' = [e \in Ports |->
                 IF Advances(e, fired) /\ Overflows(e) THEN NoMessage
                 ELSE inReg[e]]
  /\ counter' = [e \in Ports |->
                   IF Advances(e, fired) THEN (counter[e] + 1) % (2 * MaxCores)
                   ELSE counter[e]]
=============================================================================
