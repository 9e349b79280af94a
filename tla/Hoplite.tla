------------------------------- MODULE Hoplite -------------------------------
(***************************************************************************)
(* One HopliteRT network: a torus of X_DIM x Y_DIM routers (hoplite-rt/    *)
(* torus.v, switch.v, mux.v) with a token bucket at each injection port    *)
(* (pewrap.v, counter.v).  A flit rides east to the column of its          *)
(* destination, turns south there, and rides south to its row.  A flit     *)
(* that turns goes first: the one it meets coming from the north is        *)
(* deflected east and makes a round of the row.  Routers have no buffers.  *)
(*                                                                         *)
(* Clock(offer) is one clock edge: every router reads its neighbours'      *)
(* registers and the flit offered to it, and writes its own registers.     *)
(***************************************************************************)
EXTENDS Integers

CONSTANTS
  X_DIM, Y_DIM,  \* columns and rows; router <<x, y>> is port x * Y_DIM + y
  MAX_RATE,      \* a token every so many cycles
  MAX_TOKEN,     \* tokens a bucket holds
  Packets,       \* what a flit carries besides its address
  None           \* no flit

ASSUME HopliteAssumption ==
  /\ X_DIM \in Nat \ {0}
  /\ Y_DIM \in Nat \ {0}
  /\ MAX_RATE \in Nat \ {0}
  /\ MAX_TOKEN \in Nat \ {0}

Routers == (0 .. X_DIM - 1) \X (0 .. Y_DIM - 1)

\* "src" and "budget" are ghosts: the PE that offered the flit, and the cycles
\* that remain of runnoc.py's latency bound.
Flit == [src: Routers, dst: Routers, packet: Packets, budget: Int]

ASSUME NoneIsNoFlit == None \notin Flit

VARIABLES
  xPkt,      \* east output register of a router: a flit, or None (xout_vld 0)
  yPkt,      \* south output register, shared by the router below and the PE;
             \* None when it is for neither
  yVld,      \* it is for the router below
  peVld,     \* it has arrived, and is for the PE
  rateCntr,  \* rate_cntr: the same in every counter
  tokenCntr  \* token_cntr of each injection port

torus == <<xPkt, yPkt, yVld, peVld, rateCntr, tokenCntr>>

TorusTypeOK ==
  /\ xPkt \in [Routers -> Flit \cup {None}]
  /\ yPkt \in [Routers -> Flit \cup {None}]
  /\ yVld \in [Routers -> BOOLEAN]
  /\ peVld \in [Routers -> BOOLEAN]
  /\ rateCntr \in 0 .. MAX_RATE - 1
  /\ tokenCntr \in [Routers -> 0 .. MAX_TOKEN]

TorusInit ==
  /\ xPkt = [r \in Routers |-> None]
  /\ yPkt = [r \in Routers |-> None]
  /\ yVld = [r \in Routers |-> FALSE]
  /\ peVld = [r \in Routers |-> FALSE]
  /\ rateCntr = 0
  /\ tokenCntr = [r \in Routers |-> MAX_TOKEN]

-----------------------------------------------------------------------------
(* How long a flit may travel, in cycles.                                  *)

\* Hops east, and south, from one column or row to another.
DX(a, b) == IF b >= a THEN b - a ELSE b - a + X_DIM

DY(a, b) == IF b >= a THEN b - a ELSE b - a + Y_DIM

\* Faulty variant: rows cost no deflection.
InflightLatency_Undeflected(s, d) == DX(s[1], d[1]) + DY(s[2], d[2]) + 2

\* runnoc.py's bound on the cycles from the PE of s into the PE of d: the hops,
\* a deflection in every row it goes south, injection and ejection.
InflightLatency(s, d) ==
  DX(s[1], d[1]) + DY(s[2], d[2]) + DY(s[2], d[2]) * X_DIM + 2

\* A flit as its PE offers it.
Offered(s, d, p) ==
  [src |-> s, dst |-> d, packet |-> p, budget |-> InflightLatency(s, d)]

-----------------------------------------------------------------------------
(* Wires between the routers.                                              *)

West(r) == <<IF r[1] = 0 THEN X_DIM - 1 ELSE r[1] - 1, r[2]>>

North(r) == <<r[1], IF r[2] = 0 THEN Y_DIM - 1 ELSE r[2] - 1>>

\* A cycle later.
Aged(f) == IF f = None THEN None ELSE [f EXCEPT !.budget = @ - 1]

FromWest(r) == Aged(xPkt[West(r)])

FromNorth(r) == IF yVld[North(r)] THEN Aged(yPkt[North(r)]) ELSE None

\* pewrap: the PE's flit reaches the switch if there is a token for it.
FromPE(r, offer) == IF tokenCntr[r] > 0 THEN Aged(offer[r]) ELSE None

-----------------------------------------------------------------------------
(* switch.v: who gets which output.  xin, yin and pein are the flits from  *)
(* the west, the north and the PE.                                         *)

XinGetsXout(r, xin) == xin # None /\ xin.dst[1] # r[1]

XinGetsYout(r, xin) == xin # None /\ xin.dst[1] = r[1]

YinGetsXout(r, xin, yin) == yin # None /\ XinGetsYout(r, xin)

YinGetsYout(r, xin, yin) == yin # None /\ ~XinGetsYout(r, xin)

PeinGetsXout(r, xin, pein) ==
  pein # None /\ pein.dst[1] # r[1] /\ xin = None

\* Faulty variant: the PE does not give way to the flit from the north.
PeinGetsYout_Pushy(r, xin, yin, pein) ==
  pein # None /\ pein.dst[1] = r[1] /\ ~XinGetsYout(r, xin)

\* Faulty variant: the PE sends south whatever the column.
PeinGetsYout_AnyColumn(r, xin, yin, pein) ==
  /\ pein # None
  /\ ~XinGetsYout(r, xin)
  /\ ~YinGetsYout(r, xin, yin)

PeinGetsYout(r, xin, yin, pein) ==
  /\ pein # None
  /\ pein.dst[1] = r[1]
  /\ ~XinGetsYout(r, xin)
  /\ ~YinGetsYout(r, xin, yin)

\* The two select bits both muxes share.
SelectHigh(r, xin, yin) == xin = None \/ (yin = None /\ xin.dst[1] # r[1])

SelectLow(r, xin, yin, pein) ==
  \/ XinGetsYout(r, xin)
  \/ PeinGetsYout(r, xin, yin, pein)
  \/ xin # None /\ yin = None

\* mux.v, and the valid bits that go with its outputs.
Route(r, xin, yin, pein) ==
  LET high == SelectHigh(r, xin, yin)
      low == SelectLow(r, xin, yin, pein)
      xinY == XinGetsYout(r, xin)
      yinY == YinGetsYout(r, xin, yin)
  IN
  [x |-> CASE high /\ ~low -> pein
           [] ~high /\ low -> yin
           [] OTHER -> xin,
   y |-> CASE high /\ low -> pein
           [] ~high /\ low -> xin
           [] OTHER -> yin,
   xVld |-> \/ XinGetsXout(r, xin)
            \/ YinGetsXout(r, xin, yin)
            \/ PeinGetsXout(r, xin, pein),
   yVld |-> \/ xinY /\ xin.dst[2] # r[2]
            \/ yinY /\ yin.dst[2] # r[2]
            \/ PeinGetsYout(r, xin, yin, pein),
   peVld |-> \/ xinY /\ xin.dst[2] = r[2]
             \/ yinY /\ yin.dst[2] = r[2]]

\* What the router makes of its three inputs, and whether it takes the PE's.
Output(r, offer) ==
  Route(r, FromWest(r), FromNorth(r), FromPE(r, offer))

\* sel_peout_rdy, which pewrap hands to the counter as ack.
Accepts(r, offer) ==
  LET xin == FromWest(r)
      pein == FromPE(r, offer)
  IN PeinGetsXout(r, xin, pein) \/ PeinGetsYout(r, xin, FromNorth(r), pein)

-----------------------------------------------------------------------------
(* counter.v.                                                              *)

\* Faulty variant: the period is a cycle short.
RateWraps_Early == rateCntr = MAX_RATE - 2

RateWraps == rateCntr = MAX_RATE - 1

\* Faulty variant: a full bucket takes one more token.
NextTokens_Overfull(r, ack) ==
  CASE RateWraps /\ ~ack /\ tokenCntr[r] <= MAX_TOKEN -> tokenCntr[r] + 1
    [] ~RateWraps /\ ack -> tokenCntr[r] - 1
    [] OTHER -> tokenCntr[r]

\* A token comes when rate_cntr wraps, unless the bucket is full; a flit
\* accepted in that very cycle takes it.
NextTokens(r, ack) ==
  CASE RateWraps /\ ~ack /\ tokenCntr[r] # MAX_TOKEN -> tokenCntr[r] + 1
    [] ~RateWraps /\ ack -> tokenCntr[r] - 1
    [] OTHER -> tokenCntr[r]

-----------------------------------------------------------------------------
\* One clock edge, given the flit each PE offers.
Clock(offer) ==
  LET out == [r \in Routers |-> Output(r, offer)] IN
  /\ xPkt' = [r \in Routers |-> IF out[r].xVld THEN out[r].x ELSE None]
  /\ yPkt' = [r \in Routers |-> IF out[r].yVld \/ out[r].peVld
                                 THEN out[r].y ELSE None]
  /\ yVld' = [r \in Routers |-> out[r].yVld]
  /\ peVld' = [r \in Routers |-> out[r].peVld]
  /\ rateCntr' = IF RateWraps THEN 0 ELSE rateCntr + 1
  /\ tokenCntr' = [r \in Routers |-> NextTokens(r, Accepts(r, offer))]

-----------------------------------------------------------------------------
\* The flits under way.
InFlight(r) == {xPkt[r], yPkt[r]} \ {None}

\* What the script's bound leaves out: switch.v sends every flit of a PE east or
\* south, so that one for the PE itself goes round the column, with a deflection
\* in every row.
Round(f) == IF f.src = f.dst THEN Y_DIM + Y_DIM * X_DIM ELSE 0

\* No deflection pattern keeps a flit under way longer than the bound runnoc.py
\* computes from its source and destination alone, and that of a flit for the PE
\* it comes from longer than a round of the column on top.
FlightBound ==
  \A r \in Routers : \A f \in InFlight(r) : f.budget + Round(f) > 0

\* What runnoc.py itself says, for which a flit whose source and destination
\* agree has no rows to go (inflight_latency).
WithinLatency ==
  \A r \in Routers : \A f \in InFlight(r) : f.budget > 0

\* Every flit is where switch.v takes it to be, which reads only the row of a
\* flit from the north: a flit rides south in the column of its destination,
\* is handed to the PE there and nowhere else, and never to the PE and the
\* router below at once.
FlitsInPlace ==
  \A r \in Routers :
    /\ ~(yVld[r] /\ peVld[r])
    /\ yVld[r] => yPkt[r].dst[1] = r[1]
    /\ peVld[r] => yPkt[r].dst = r
=============================================================================
