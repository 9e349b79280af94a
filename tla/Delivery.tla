------------------------------ MODULE Delivery ------------------------------
(***************************************************************************)
(* What a network promises the caches: a copy of the message reaches every *)
(* destination, once, and nobody else; in no particular order.             *)
(***************************************************************************)
EXTENDS Integers

CONSTANT Ports

VARIABLES
  travelling,  \* travelling[s][d]: copies from s under way to d
  arrived      \* arrived[s][d]: copies from s that d has still to read

Copies == [Ports -> [Ports -> Nat]]

Init ==
  /\ travelling = [s \in Ports |-> [d \in Ports |-> 0]]
  /\ arrived = [s \in Ports |-> [d \in Ports |-> 0]]

\* s hands over a message, a copy for each of some ports.
Send(s) ==
  /\ \A r, d \in Ports :
       travelling'[r][d] - travelling[r][d] \in IF r = s THEN {0, 1} ELSE {0}
  /\ travelling' \in Copies
  /\ UNCHANGED arrived

\* Any number of copies arrive at once, each where it was sent.
Deliver ==
  /\ \A s, d \in Ports :
       /\ travelling'[s][d] <= travelling[s][d]
       /\ travelling'[s][d] + arrived'[s][d] = travelling[s][d] + arrived[s][d]
  /\ travelling' \in Copies
  /\ arrived' \in Copies

\* d reads a copy from s.
Consume(s, d) ==
  /\ arrived[s][d] > 0
  /\ arrived' = [arrived EXCEPT ![s][d] = @ - 1]
  /\ UNCHANGED travelling

Next ==
  \/ Deliver
  \/ \E s \in Ports : Send(s)
  \/ \E s, d \in Ports : Consume(s, d)

Spec == Init /\ [][Next]_<<travelling, arrived>>
=============================================================================
