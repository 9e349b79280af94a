---------------------------- MODULE AckedStores -----------------------------
(***************************************************************************)
(* What the cores are told of their stores.  The history variable "acked"  *)
(* adds to Ditty the contents of the last store to each line that a core   *)
(* got an answer for.                                                      *)
(***************************************************************************)
EXTENDS Ditty

VARIABLE acked

\* Core c is answered that its store of d to line a is done: by the miss that
\* completes, or at once.
Acknowledges(c, a, d) ==
  \/ StoreHit(c, a, d)
  \/ /\ mshr[c] = [op |-> "ST", line |-> a, data |-> d]
     /\ mshr'[c] = None

AckedInit == Init /\ acked = [a \in Lines |-> ZeroValue]

AckedNext ==
  /\ Next
  /\ IF \E c \in Cores, a \in Lines, d \in Values : Acknowledges(c, a, d)
       THEN \E c \in Cores, a \in Lines, d \in Values :
              Acknowledges(c, a, d) /\ acked' = [acked EXCEPT ![a] = d]
       ELSE UNCHANGED acked

AckedSpec == AckedInit /\ [][AckedNext]_<<vars, acked>>

\* A store a core was told is done is in the line that the core holds.
AckedStoreKept ==
  \A c \in Cores, a \in Lines : tag[c][a] = "M" => data[c][a] = acked[a]
=============================================================================
