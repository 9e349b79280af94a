---------------------------- MODULE TorusTraffic ----------------------------
(***************************************************************************)
(* A torus whose PEs offer flits at any time, as the streams into fromExt  *)
(* of HopliteRT.scala do: an offered flit stays until it is accepted, and  *)
(* the network takes no notice of the receiver (toExt.ready).              *)
(***************************************************************************)
EXTENDS Hoplite, FiniteSets, Sequences

CONSTANT Flows  \* <<s, d>>: s may send to d

ASSUME TrafficAssumption == Flows \subseteq Routers \X Routers

VARIABLES
  offer,  \* the flit at the head of each PE's send queue, or None
  burst   \* ghost: consecutive cycles with a flit accepted

traffic == <<torus, offer, burst>>

TrafficTypeOK ==
  /\ TorusTypeOK
  /\ offer \in [Routers -> Flit \cup {None}]
  /\ burst \in [Routers -> Nat]

\* What the heads of the queues can be.
Heads ==
  {h \in [Routers -> (Routers \X Packets) \cup {None}] :
     \A r \in Routers : h[r] # None => <<r, h[r][1]>> \in Flows}

Offerings ==
  {[r \in Routers |->
      IF h[r] = None THEN None ELSE Offered(r, h[r][1], h[r][2])] :
     h \in Heads}

Init ==
  /\ TorusInit
  /\ offer \in Offerings
  /\ burst = [r \in Routers |-> 0]

Refused(r) == offer[r] # None /\ ~Accepts(r, offer)

Next ==
  /\ Clock(offer)
  /\ offer' \in Offerings
  /\ \A r \in Routers : Refused(r) => offer'[r] = offer[r]
  /\ burst' = [r \in Routers |->
                 IF Accepts(r, offer) THEN burst[r] + 1 ELSE 0]

Spec == Init /\ [][Next]_traffic

-----------------------------------------------------------------------------
\* Between the flits at the inputs of a router and at its outputs.
SameFlits(inputs, outputs) ==
  LET Times(f, flits) == Cardinality({i \in DOMAIN flits : flits[i] = f})
      Among(flits) == {flits[i] : i \in DOMAIN flits} \ {None}
  IN \A f \in Among(inputs) \cup Among(outputs) :
       Times(f, inputs) = Times(f, outputs)

\* A router neither loses nor duplicates a flit: what it is about to register
\* is what reaches it from the west, the north and, if accepted, the PE.  The
\* muxes' select bits and the valid bits are computed apart (switch.v lines
\* 67 to 79); this is where they must agree.
FlitsConserved ==
  \A r \in Routers :
    LET out == Output(r, offer) IN
    SameFlits(<<FromWest(r), FromNorth(r),
                IF Accepts(r, offer) THEN FromPE(r, offer) ELSE None>>,
              <<IF out.xVld THEN out.x ELSE None,
                IF out.yVld \/ out.peVld THEN out.y ELSE None>>)

\* However a PE times its flits, those it sends in a row are paid for: MAX_TOKEN
\* from the bucket, and the others by the tokens that came meanwhile, one every
\* MAX_RATE cycles.  (counter.v calls MAX_TOKEN the most packets in a row; the
\* bucket lets one more out, and as many as tokens come while it empties.)
BurstBound ==
  \A r \in Routers : (burst[r] - 1) * (MAX_RATE - 1) <= MAX_RATE * MAX_TOKEN
=============================================================================
