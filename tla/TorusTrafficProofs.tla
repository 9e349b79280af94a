-------------------------- MODULE TorusTrafficProofs --------------------------
(***************************************************************************)
(* What holds of a torus of any size, with any period and bucket, under    *)
(* any traffic: flits are where the routers take them to be, none travels  *)
(* longer than the latency analysis says if it is for another PE, and none *)
(* of the buckets lets out more in a row than its tokens pay for.          *)
(*                                                                         *)
(* The bound on the flight is inductive in a stronger form: what remains   *)
(* of it covers the way the flit has still to go if it is deflected in     *)
(* every row.  A row costs RowCost cycles then, a step south and a round.  *)
(***************************************************************************)
EXTENDS TorusTraffic, HopliteProofs

-----------------------------------------------------------------------------
\* What remains of the bound of a flit, its own PE's included.
Remaining(f) == f.budget + Round(f)

LEMMA RemainingType ==
  ASSUME NEW f \in Flit
  PROVE  Remaining(f) \in Int /\ Remaining(Aged(f)) = Remaining(f) - 1
<1>1. Round(f) \in Int /\ Round(Aged(f)) = Round(f)
  BY AgedFlit, HopliteAssumption DEF Round
<1> QED
  BY <1>1, FlitParts, AgedFlit DEF Remaining

-----------------------------------------------------------------------------
(* What remains of its bound when a flit comes into router r: from the     *)
(* west, from the north, and from the PE.                                  *)

XinOK(r, f) ==
  f # None =>
    /\ f \in Flit
    /\ Remaining(f) >= 1 + DX(r[1], f.dst[1]) + RowCost(DY(r[2], f.dst[2]))

YinOK(r, f) ==
  f # None =>
    /\ f \in Flit
    /\ f.dst[1] = r[1]
    /\ Remaining(f) >= 1 + X_DIM + RowCost(DY(r[2], f.dst[2]))

PeinOK(r, f) ==
  f # None =>
    /\ f \in Flit
    /\ Remaining(f) = 1 + DX(r[1], f.dst[1]) + RowCost(RowsToGo(r, f.dst))

\* And when it goes out, east or south.
ColumnsLeft(r, d) == IF r[1] = d[1] THEN X_DIM ELSE DX(r[1], d[1])

RowsLeft(r, d) == IF r[2] = d[2] THEN Y_DIM ELSE DY(r[2], d[2])

XoutOK(r, f) ==
  /\ f \in Flit
  /\ Remaining(f) >= 1 + ColumnsLeft(r, f.dst) + RowCost(DY(r[2], f.dst[2]))

YoutOK(r, f) ==
  /\ f \in Flit
  /\ f.dst[1] = r[1]
  /\ Remaining(f) >= 1 + RowCost(RowsLeft(r, f.dst))

\* The inputs of every router, as the registers and the offers are.
InputsOK(r) ==
  /\ XinOK(r, FromWest(r))
  /\ YinOK(r, FromNorth(r))
  /\ PeinOK(r, FromPE(r, offer))

LEMMA GoesEast ==
  ASSUME NEW r \in Routers, InputsOK(r), Output(r, offer).xVld
  PROVE  XoutOK(r, Output(r, offer).x)
<1> DEFINE xin == FromWest(r)
           yin == FromNorth(r)
           pein == FromPE(r, offer)
           x == Output(r, offer).x
<1>1. CASE XinGetsXout(r, xin) /\ x = xin
  BY <1>1, FlitParts, RemainingType, Distances DEF InputsOK, XinOK, XoutOK, ColumnsLeft, XinGetsXout
<1>2. CASE YinGetsXout(r, xin, yin) /\ x = yin
  BY <1>2, FlitParts, RemainingType, Distances DEF InputsOK, YinOK, XoutOK, ColumnsLeft, YinGetsXout
<1>3. CASE PeinGetsXout(r, xin, pein) /\ x = pein
  <2>1. RowsToGo(r, pein.dst) = DY(r[2], pein.dst[2])
    BY <1>3 DEF RowsToGo, PeinGetsXout
  <2> QED
    BY <1>3, <2>1, FlitParts, RemainingType, Distances DEF InputsOK, PeinOK, XoutOK, ColumnsLeft, PeinGetsXout
<1> QED
  BY <1>1, <1>2, <1>3, RouteEast DEF Output

LEMMA GoesSouth ==
  ASSUME NEW r \in Routers, InputsOK(r), Output(r, offer).yVld
  PROVE  YoutOK(r, Output(r, offer).y)
<1> DEFINE xin == FromWest(r)
           yin == FromNorth(r)
           pein == FromPE(r, offer)
           y == Output(r, offer).y
<1>1. CASE XinGetsYout(r, xin) /\ y = xin /\ xin.dst[2] # r[2]
  <2>1. xin # None /\ xin \in Flit /\ xin.dst \in Routers /\ xin.dst[1] = r[1]
        /\ Remaining(xin) \in Int
    BY <1>1, FlitParts, RemainingType DEF InputsOK, XinOK, XinGetsYout
  <2>2. DX(r[1], xin.dst[1]) = 0
    BY <2>1, Distances
  <2>3. RowsLeft(r, xin.dst) = DY(r[2], xin.dst[2])
    BY <1>1 DEF RowsLeft
  <2>4. RowCost(DY(r[2], xin.dst[2])) \in Int
    BY <2>1, Distances, RowCostNat
  <2> QED
    BY <1>1, <2>1, <2>2, <2>3, <2>4 DEF InputsOK, XinOK, YoutOK
<1>2. CASE YinGetsYout(r, xin, yin) /\ y = yin /\ yin.dst[2] # r[2]
  <2>1. yin # None /\ yin \in Flit /\ yin.dst \in Routers /\ Remaining(yin) \in Int
    BY <1>2, FlitParts, RemainingType DEF InputsOK, YinOK, YinGetsYout
  <2>3. RowsLeft(r, yin.dst) = DY(r[2], yin.dst[2])
    BY <1>2 DEF RowsLeft
  <2>4. RowCost(DY(r[2], yin.dst[2])) \in Int
    BY <2>1, Distances, RowCostNat
  <2> QED
    BY <1>2, <2>1, <2>3, <2>4, HopliteAssumption DEF InputsOK, YinOK, YoutOK
<1>3. CASE PeinGetsYout(r, xin, yin, pein) /\ y = pein
  <2>1. pein \in Flit /\ pein.dst \in Routers /\ pein.dst[1] = r[1] /\ Remaining(pein) \in Int
    BY <1>3, FlitParts, RemainingType DEF InputsOK, PeinOK, PeinGetsYout
  <2>2. DX(r[1], pein.dst[1]) = 0
    BY <2>1, Distances
  <2>3. RowsLeft(r, pein.dst) = RowsToGo(r, pein.dst)
    BY <2>1, SameRouter DEF RowsLeft, RowsToGo
  <2>4. RowCost(RowsToGo(r, pein.dst)) \in Int
    BY <2>1, LatencyInRows, RowCostStep
  <2> QED
    BY <1>3, <2>1, <2>2, <2>3, <2>4 DEF InputsOK, PeinOK, YoutOK, PeinGetsYout
<1> QED
  BY <1>1, <1>2, <1>3, RouteSouth DEF Output

LEMMA Arrives ==
  ASSUME NEW r \in Routers, InputsOK(r), Output(r, offer).peVld
  PROVE  LET y == Output(r, offer).y IN
         /\ ~Output(r, offer).yVld
         /\ y \in Flit
         /\ y.dst = r
         /\ Remaining(y) > 0
<1> DEFINE xin == FromWest(r)
           yin == FromNorth(r)
           y == Output(r, offer).y
<1>0. ~Output(r, offer).yVld
  BY RouteToPE DEF Output
<1>1. CASE XinGetsYout(r, xin) /\ y = xin /\ xin.dst[2] = r[2]
  <2>1. xin # None /\ xin \in Flit /\ xin.dst \in Routers /\ xin.dst[1] = r[1]
        /\ Remaining(xin) \in Int
    BY <1>1, FlitParts, RemainingType DEF InputsOK, XinOK, XinGetsYout
  <2>2. RowCost(DY(r[2], xin.dst[2])) \in Nat /\ DX(r[1], xin.dst[1]) \in Nat
    BY <2>1, Distances, RowCostNat
  <2>3. Remaining(y) > 0
    BY <1>1, <2>1, <2>2 DEF InputsOK, XinOK
  <2> QED
    BY <1>1, <2>1, <2>3, <1>0, SameRouter
<1>2. CASE YinGetsYout(r, xin, yin) /\ y = yin /\ yin.dst[2] = r[2]
  <2>1. yin # None /\ yin \in Flit /\ yin.dst \in Routers /\ yin.dst[1] = r[1]
        /\ Remaining(yin) \in Int
    BY <1>2, FlitParts, RemainingType DEF InputsOK, YinOK, YinGetsYout
  <2>2. RowCost(DY(r[2], yin.dst[2])) \in Nat
    BY <2>1, Distances, RowCostNat
  <2>3. Remaining(y) > 0
    BY <1>2, <2>1, <2>2, HopliteAssumption DEF InputsOK, YinOK
  <2> QED
    BY <1>2, <2>1, <2>3, <1>0, SameRouter
<1> QED
  BY <1>1, <1>2, <1>0, RouteToPE DEF Output

-----------------------------------------------------------------------------
(* The wires, the PEs, and the counters.                                   *)

LEMMA WireEast ==
  ASSUME NEW q \in Routers, NEW f, XoutOK(West(q), f)
  PROVE  XinOK(q, Aged(f))
<1> DEFINE p == West(q)
           d == f.dst
<1>1. f \in Flit /\ d \in Routers /\ Remaining(f) \in Int /\ p \in Routers
  BY FlitParts, RemainingType, Neighbours DEF XoutOK
<1>2. Aged(f) \in Flit /\ Aged(f).dst = d /\ Remaining(Aged(f)) = Remaining(f) - 1
  BY <1>1, AgedFlit, RemainingType
<1>3. p[2] = q[2] /\ DX(q[1], d[1]) = ColumnsLeft(p, d) - 1
  BY <1>1, StepEast DEF ColumnsLeft
<1>4. RowCost(DY(q[2], d[2])) \in Nat /\ ColumnsLeft(p, d) \in Int
  BY <1>1, Distances, RowCostNat, HopliteAssumption DEF ColumnsLeft
<1>5. Remaining(f) >= 1 + ColumnsLeft(p, d) + RowCost(DY(q[2], d[2]))
  BY <1>3 DEF XoutOK
<1> QED
  BY <1>1, <1>2, <1>3, <1>4, <1>5 DEF XinOK

LEMMA WireSouth ==
  ASSUME NEW q \in Routers, NEW f, YoutOK(North(q), f)
  PROVE  YinOK(q, Aged(f))
<1> DEFINE p == North(q)
           d == f.dst
<1>1. f \in Flit /\ d \in Routers /\ Remaining(f) \in Int /\ p \in Routers
  BY FlitParts, RemainingType, Neighbours DEF YoutOK
<1>2. Aged(f) \in Flit /\ Aged(f).dst = d /\ Remaining(Aged(f)) = Remaining(f) - 1
  BY <1>1, AgedFlit, RemainingType
<1>3. p[1] = q[1] /\ DY(q[2], d[2]) = RowsLeft(p, d) - 1
  BY <1>1, StepSouth DEF RowsLeft
<1>4. RowsLeft(p, d) \in Int
  BY <1>1, Distances, HopliteAssumption DEF RowsLeft
<1>5. /\ RowCost(RowsLeft(p, d)) \in Int
      /\ RowCost(DY(q[2], d[2])) = RowCost(RowsLeft(p, d)) - 1 - X_DIM
  BY <1>3, <1>4, RowCostStep
<1>6. Remaining(f) >= 1 + RowCost(RowsLeft(p, d)) /\ d[1] = q[1]
  BY <1>3 DEF YoutOK
<1> QED
  BY <1>1, <1>2, <1>5, <1>6, HopliteAssumption DEF YinOK

LEMMA OfferType ==
  ASSUME NEW o \in Offerings
  PROVE  o \in [Routers -> Flit \cup {None}]
<1>1. PICK h \in Heads :
        o = [r \in Routers |->
               IF h[r] = None THEN None ELSE Offered(r, h[r][1], h[r][2])]
  BY DEF Offerings
<1>2. ASSUME NEW r \in Routers, h[r] # None
      PROVE  Offered(r, h[r][1], h[r][2]) \in Flit
  <2>1. h[r] \in Routers \X Packets
    BY <1>2 DEF Heads
  <2>2. InflightLatency(r, h[r][1]) \in Int
    BY <2>1, LatencyInRows
  <2> QED
    BY <2>1, <2>2 DEF Offered, Flit
<1> QED
  BY <1>1, <1>2

LEMMA OfferBudget ==
  ASSUME NEW o \in Offerings, NEW r \in Routers, o[r] # None
  PROVE  /\ o[r].src = r
         /\ o[r].budget = InflightLatency(r, o[r].dst)
<1>1. PICK h \in Heads :
        o = [q \in Routers |->
               IF h[q] = None THEN None ELSE Offered(q, h[q][1], h[q][2])]
  BY DEF Offerings
<1> QED
  BY <1>1 DEF Offered

LEMMA PeinFromOffer ==
  ASSUME NEW o \in Offerings, NEW r \in Routers
  PROVE  PeinOK(r, Aged(o[r]))
<1> DEFINE f == o[r]
           pein == Aged(f)
<1>1. SUFFICES ASSUME pein # None PROVE PeinOK(r, pein)
  BY DEF PeinOK
<1>2. f \in Flit
  BY <1>1, OfferType, AgedNone
<1>3. f # None /\ f.dst \in Routers /\ Remaining(f) \in Int
  BY <1>2, FlitParts, RemainingType
<1>4. pein \in Flit /\ pein.dst = f.dst /\ Remaining(pein) = Remaining(f) - 1
  BY <1>2, AgedFlit, RemainingType
<1>5. /\ DX(r[1], f.dst[1]) \in Int
      /\ RowCost(RowsToGo(r, f.dst)) \in Int
      /\ Remaining(f) = 2 + DX(r[1], f.dst[1]) + RowCost(RowsToGo(r, f.dst))
  BY <1>3, OfferBudget, LatencyInRows, Distances, RowCostNat DEF Remaining, Round
<1> QED
  BY <1>4, <1>5 DEF PeinOK


-----------------------------------------------------------------------------
(* The invariant.                                                          *)

\* A bucket and the burst it lets out, in cycles: those that the tokens left in
\* the bucket and the flits of the burst cost, less those the burst has lasted.
BurstOK(r) ==
  MAX_RATE * tokenCntr[r] + MAX_RATE * burst[r] + rateCntr
    <= MAX_RATE * MAX_TOKEN + MAX_RATE - 1 + burst[r]

FlightInv ==
  /\ TrafficTypeOK
  /\ \A r \in Routers : InputsOK(r)

BurstInv == \A r \in Routers : BurstOK(r)

LEMMA InitInv == Init => FlightInv /\ BurstInv /\ FlitsInPlace /\ FlightBound
<1> SUFFICES ASSUME Init
             PROVE  FlightInv /\ BurstInv /\ FlitsInPlace /\ FlightBound
  OBVIOUS
<1> USE DEF Init, TorusInit
<1>1. TrafficTypeOK
  BY OfferType, HopliteAssumption DEF TrafficTypeOK, TorusTypeOK
<1>2. ASSUME NEW r \in Routers PROVE InputsOK(r)
  BY Neighbours, PeinFromOffer DEF FromPE, PeinOK, InputsOK, XinOK, YinOK, FromWest, FromNorth, Aged
<1>3. ASSUME NEW r \in Routers PROVE BurstOK(r)
  BY HopliteAssumption DEF BurstOK
<1>4. FlitsInPlace /\ FlightBound
  BY DEF FlitsInPlace, FlightBound, InFlight
<1> QED
  BY <1>1, <1>2, <1>3, <1>4 DEF FlightInv, BurstInv

\* What the clock edge writes at a router.
LEMMA Registers ==
  ASSUME Next, NEW r \in Routers
  PROVE  LET out == Output(r, offer) IN
         /\ xPkt'[r] = IF out.xVld THEN out.x ELSE None
         /\ yPkt'[r] = IF out.yVld \/ out.peVld THEN out.y ELSE None
         /\ yVld'[r] = out.yVld
         /\ peVld'[r] = out.peVld
         /\ tokenCntr'[r] = NextTokens(r, Accepts(r, offer))
BY Written DEF Next

LEMMA TypeStep == FlightInv /\ Next => TrafficTypeOK'
<1> SUFFICES ASSUME FlightInv, Next PROVE TrafficTypeOK'
  OBVIOUS
<1>1. TorusTypeOK'
  BY ClockTyped DEF FlightInv, TrafficTypeOK, Next
<1>2. offer' \in [Routers -> Flit \cup {None}]
  BY OfferType DEF Next
<1>3. burst' \in [Routers -> Nat]
  BY DEF FlightInv, TrafficTypeOK, Next
<1> QED
  BY <1>1, <1>2, <1>3 DEF TrafficTypeOK

LEMMA InputsStep ==
  ASSUME FlightInv, Next, NEW q \in Routers
  PROVE  InputsOK(q)'
<1>1. XinOK(q, FromWest(q)')
  <2> DEFINE p == West(q)
  <2>1. p \in Routers /\ InputsOK(p)
    BY Neighbours DEF FlightInv
  <2>2. xPkt'[p] = None \/ XoutOK(p, xPkt'[p])
    BY <2>1, Registers, GoesEast
  <2>3. FromWest(q)' = Aged(xPkt'[p])
    BY DEF FromWest, Aged
  <2> QED
    BY <2>2, <2>3, WireEast, AgedNone DEF XinOK
<1>2. YinOK(q, FromNorth(q)')
  <2> DEFINE p == North(q)
  <2>1. p \in Routers /\ InputsOK(p)
    BY Neighbours DEF FlightInv
  <2>2. yVld'[p] => YoutOK(p, yPkt'[p])
    BY <2>1, Registers, GoesSouth
  <2>3. FromNorth(q)' = IF yVld'[p] THEN Aged(yPkt'[p]) ELSE None
    BY DEF FromNorth, Aged
  <2> QED
    BY <2>2, <2>3, WireSouth DEF YinOK
<1>3. PeinOK(q, FromPE(q, offer)')
  <2>1. offer' \in Offerings
    BY DEF Next
  <2>2. FromPE(q, offer)' \in {Aged(offer'[q]), None}
    BY DEF FromPE, Aged
  <2> QED
    BY <2>1, <2>2, PeinFromOffer DEF PeinOK
<1> QED
  BY <1>1, <1>2, <1>3 DEF InputsOK, XinOK, YinOK, PeinOK

\* In place as after any clock edge, with some budget left.
LEMMA PlacesStep == FlightInv /\ FlitsInPlace /\ Next => FlitsInPlace' /\ FlightBound'
<1> SUFFICES ASSUME FlightInv, FlitsInPlace, Next
             PROVE  FlitsInPlace' /\ FlightBound'
  OBVIOUS
<1>0. FlitsInPlace'
  BY ClockInPlace DEF FlightInv, TrafficTypeOK, Next
<1> SUFFICES ASSUME NEW r \in Routers
             PROVE  \A f \in {xPkt'[r], yPkt'[r]} \ {None} : Remaining(f) > 0
  BY <1>0 DEF FlightBound, InFlight, Remaining
<1>1. InputsOK(r)
  BY DEF FlightInv
<1>2. ASSUME NEW f, XoutOK(r, f) PROVE Remaining(f) > 0
  <2>1. f \in Flit /\ f.dst \in Routers /\ Remaining(f) \in Int
    BY <1>2, FlitParts, RemainingType DEF XoutOK
  <2>2. /\ RowCost(DY(r[2], f.dst[2])) \in Nat
        /\ ColumnsLeft(r, f.dst) \in Nat
    BY <2>1, Distances, RowCostNat, HopliteAssumption DEF ColumnsLeft
  <2> QED
    BY <1>2, <2>1, <2>2 DEF XoutOK
<1>3. ASSUME NEW f, YoutOK(r, f) PROVE Remaining(f) > 0
  <2>1. f \in Flit /\ f.dst \in Routers /\ Remaining(f) \in Int
    BY <1>3, FlitParts, RemainingType DEF YoutOK
  <2>2. RowsLeft(r, f.dst) \in Nat
    BY <2>1, Distances, HopliteAssumption DEF RowsLeft
  <2>3. RowCost(RowsLeft(r, f.dst)) \in Nat
    BY <2>2, RowCostNat
  <2> QED
    BY <1>3, <2>1, <2>3 DEF YoutOK
<1>4. xPkt'[r] # None => Remaining(xPkt'[r]) > 0
  BY <1>1, <1>2, Registers, GoesEast
<1>5. yPkt'[r] # None => Remaining(yPkt'[r]) > 0
  BY <1>1, <1>3, Registers, GoesSouth, Arrives
<1> QED
  BY <1>4, <1>5

LEMMA BurstStep == FlightInv /\ BurstInv /\ Next => BurstInv'
<1> SUFFICES ASSUME FlightInv, BurstInv, Next, NEW r \in Routers
             PROVE  BurstOK(r)'
  BY DEF BurstInv
<1> DEFINE t == tokenCntr[r]
           b == burst[r]
           c == rateCntr
           R == MAX_RATE
           M == MAX_TOKEN
<1>1. /\ R * t + R * b + c <= R * M + R - 1 + b
      /\ b \in Nat
      /\ t \in 0 .. M
      /\ c \in 0 .. R - 1
      /\ R \in Nat \ {0} /\ M \in Nat \ {0}
  BY HopliteAssumption DEF FlightInv, BurstInv, BurstOK, TrafficTypeOK, TorusTypeOK
<1>2. /\ burst'[r] = IF Accepts(r, offer) THEN b + 1 ELSE 0
      /\ rateCntr' = IF RateWraps THEN 0 ELSE c + 1
      /\ tokenCntr'[r] = NextTokens(r, Accepts(r, offer))
      /\ RateWraps <=> c = R - 1
  BY Registers DEF Next, Clock, RateWraps
<1>3. Accepts(r, offer) => t > 0
  BY AcceptsToken
<1>4. ASSUME NEW n \in Int, NEW m \in Int
      PROVE  /\ R * n \in Int
             /\ R * (n + 1) = R * n + R
             /\ R * (n - 1) = R * n - R
             /\ n <= m => R * n <= R * m
             /\ R * 0 = 0
  BY <1>1
<1>5. /\ R * t \in Int /\ R * b \in Int /\ R * M \in Int /\ R * 0 = 0
      /\ R * (b + 1) = R * b + R
      /\ R * (t - 1) = R * t - R
  BY <1>1, <1>4
<1> SUFFICES R * tokenCntr'[r] + R * burst'[r] + rateCntr'
               <= R * M + R - 1 + burst'[r]
  BY DEF BurstOK
<1>6. CASE Accepts(r, offer)
  <2>1. /\ burst'[r] = b + 1
        /\ tokenCntr'[r] = IF c = R - 1 THEN t ELSE t - 1
        /\ rateCntr' = IF c = R - 1 THEN 0 ELSE c + 1
    BY <1>2, <1>6 DEF NextTokens
  <2> HIDE DEF t, b, c, R, M
  <2> QED
    BY <1>1, <1>5, <2>1
<1>7. CASE ~Accepts(r, offer)
  <2>1. burst'[r] = 0 /\ rateCntr' \in 0 .. R - 1
    BY <1>1, <1>2, <1>7
  <2>2. tokenCntr'[r] \in 0 .. M
    <3>1. tokenCntr'[r] \in {t, t + 1} /\ (tokenCntr'[r] # t => t # M)
      BY <1>2, <1>7 DEF NextTokens
    <3> QED
      BY <1>1, <3>1
  <2>3. R * tokenCntr'[r] \in Int /\ R * tokenCntr'[r] <= R * M
    BY <1>1, <1>4, <2>2
  <2> HIDE DEF t, b, c, R, M
  <2> QED
    BY <1>1, <1>5, <2>1, <2>3
<1> QED
  BY <1>6, <1>7

LEMMA InvStep ==
  /\ FlightInv
  /\ BurstInv
  /\ FlitsInPlace
  /\ FlightBound
  /\ [Next]_traffic
  => FlightInv' /\ BurstInv' /\ FlitsInPlace' /\ FlightBound'
<1>1. CASE Next
  <2>1. FlightInv /\ Next => FlightInv'
    BY TypeStep, InputsStep DEF FlightInv, Routers
  <2> QED
    BY <1>1, <2>1, BurstStep, PlacesStep
<1>2. CASE UNCHANGED traffic
  BY <1>2 DEF traffic, torus, FlightInv, BurstInv, FlitsInPlace, FlightBound,
     InFlight, TrafficTypeOK, TorusTypeOK, InputsOK, BurstOK, FromWest,
     FromNorth, FromPE, XinOK, YinOK, PeinOK
<1> QED
  BY <1>1, <1>2

LEMMA Invariance ==
  Spec => [](FlightInv /\ BurstInv /\ FlitsInPlace /\ FlightBound)
BY InitInv, InvStep, PTL DEF Spec

-----------------------------------------------------------------------------
\* Registers, buckets and offers hold what their wires can carry: no counter
\* (counter.v) goes below no token or above MAX_TOKEN.
THEOREM TorusTypeCorrect == Spec => []TrafficTypeOK
BY Invariance, PTL DEF FlightInv

\* On a torus of any size, a router never hands a flit to the wrong PE or lets
\* it ride south in the wrong column (switch.v).
THEOREM TorusDelivers == Spec => []FlitsInPlace
BY Invariance, PTL

\* On a torus of any size and under any traffic, no flit is under way longer
\* than runnoc.py's bound for its source and destination, and one for the PE it
\* comes from no longer than a deflected round of its column on top (switch.v).
THEOREM TorusFlightBounded == Spec => []FlightBound
BY Invariance, PTL

\* Whatever its period and size, a bucket lets no more flits out in a row than
\* its tokens, and those that come meanwhile, pay for (counter.v).
THEOREM TorusBurstBounded == Spec => []BurstBound
<1>1. FlightInv /\ BurstInv => BurstBound
  <2> SUFFICES ASSUME FlightInv, BurstInv, NEW r \in Routers
               PROVE  (burst[r] - 1) * (MAX_RATE - 1) <= MAX_RATE * MAX_TOKEN
    BY DEF BurstBound
  <2> DEFINE t == tokenCntr[r]
             b == burst[r]
             R == MAX_RATE
             M == MAX_TOKEN
  <2>1. /\ R * t + R * b + rateCntr <= R * M + R - 1 + b
        /\ b \in Nat /\ t \in Nat /\ rateCntr \in Nat
        /\ R \in Nat \ {0} /\ M \in Nat \ {0}
    BY HopliteAssumption DEF FlightInv, BurstInv, BurstOK, TrafficTypeOK, TorusTypeOK
  <2>2. R * t \in Nat /\ R * b \in Int /\ R * M \in Int
    BY <2>1
  <2>3. (b - 1) * (R - 1) = R * b - b - R + 1
    BY <2>1
  <2> HIDE DEF t, b, R, M
  <2>4. (b - 1) * (R - 1) <= R * M
    BY <2>1, <2>2, <2>3
  <2> QED
    BY <2>4 DEF b, R, M
<1> QED
  BY <1>1, Invariance, PTL

-----------------------------------------------------------------------------
(* Conservation.                                                           *)

\* How often a flit is among others.
Occurrences(f, flits) == Cardinality({i \in DOMAIN flits : flits[i] = f})

\* A pair has two elements.
LEMMA PairSize == \A i, j : i # j => Cardinality({i} \cup {j}) = 2
<1> SUFFICES ASSUME NEW i, NEW j, i # j PROVE Cardinality({i} \cup {j}) = 2
  OBVIOUS
<1>1. IsFiniteSet({i}) /\ Cardinality({i}) = 1 /\ j \notin {i}
  BY FS_Singleton
<1>2. Cardinality({i} \cup {j}) = Cardinality({i}) + 1
  BY <1>1, FS_AddElement
<1> QED
  BY <1>1, <1>2

LEMMA CountTwo ==
  ASSUME NEW a, NEW b, NEW f
  PROVE  Occurrences(f, <<a, b>>)
           = (IF a = f THEN 1 ELSE 0) + (IF b = f THEN 1 ELSE 0)
<1> DEFINE S == {i \in DOMAIN <<a, b>> : <<a, b>>[i] = f}
<1> SUFFICES Cardinality(S) = (IF a = f THEN 1 ELSE 0) + (IF b = f THEN 1 ELSE 0)
  BY DEF Occurrences
<1>1. S = (IF a = f THEN {1} ELSE {}) \cup (IF b = f THEN {2} ELSE {})
  OBVIOUS
<1> HIDE DEF S
<1>2. /\ Cardinality({}) = 0
      /\ Cardinality({1}) = 1 /\ Cardinality({2}) = 1
      /\ Cardinality({1} \cup {2}) = 2
  <2>1. 1 # 2
    OBVIOUS
  <2>2. Cardinality({1} \cup {2}) = 2
    BY <2>1, PairSize, Zenon
  <2> QED
    BY <2>2, FS_EmptySet, FS_Singleton
<1>3. CASE a = f /\ b = f
  BY <1>1, <1>2, <1>3
<1>4. CASE a = f /\ b # f
  BY <1>1, <1>2, <1>4
<1>5. CASE a # f /\ b = f
  BY <1>1, <1>2, <1>5
<1>6. CASE a # f /\ b # f
  BY <1>1, <1>2, <1>6
<1> QED
  BY <1>3, <1>4, <1>5, <1>6

LEMMA CountThree ==
  ASSUME NEW a, NEW b, NEW c, NEW f, a # f \/ b # f \/ c # f
  PROVE  Occurrences(f, <<a, b, c>>)
           = (IF a = f THEN 1 ELSE 0) + (IF b = f THEN 1 ELSE 0)
               + (IF c = f THEN 1 ELSE 0)
<1> DEFINE S == {i \in DOMAIN <<a, b, c>> : <<a, b, c>>[i] = f}
<1> SUFFICES Cardinality(S) = (IF a = f THEN 1 ELSE 0) + (IF b = f THEN 1 ELSE 0)
                                + (IF c = f THEN 1 ELSE 0)
  BY DEF Occurrences
<1>1. S = (IF a = f THEN {1} ELSE {}) \cup (IF b = f THEN {2} ELSE {})
            \cup (IF c = f THEN {3} ELSE {})
  OBVIOUS
<1> HIDE DEF S
<1>2. /\ Cardinality({}) = 0
      /\ Cardinality({1}) = 1 /\ Cardinality({2}) = 1 /\ Cardinality({3}) = 1
  BY FS_EmptySet, FS_Singleton
<1>3. /\ Cardinality({1} \cup {2}) = 2
      /\ Cardinality({1} \cup {3}) = 2
      /\ Cardinality({2} \cup {3}) = 2
  <2>1. 1 # 2 /\ 1 # 3 /\ 2 # 3
    OBVIOUS
  <2> QED
    BY <2>1, PairSize, Zenon
<1>4. CASE a = f /\ b = f
  BY <1>1, <1>3, <1>4
<1>5. CASE a = f /\ b # f
  BY <1>1, <1>2, <1>3, <1>5
<1>6. CASE a # f /\ b = f
  BY <1>1, <1>2, <1>3, <1>6
<1>7. CASE a # f /\ b # f
  BY <1>1, <1>2, <1>7
<1> QED
  BY <1>4, <1>5, <1>6, <1>7

\* Every router registers exactly the flits that reach it and that it accepts,
\* whatever they are.
LEMMA RoutersConserve == FlitsConserved
<1> SUFFICES ASSUME NEW r \in Routers
             PROVE  LET out == Output(r, offer) IN
                    SameFlits(<<FromWest(r), FromNorth(r),
                                IF Accepts(r, offer) THEN FromPE(r, offer) ELSE None>>,
                              <<IF out.xVld THEN out.x ELSE None,
                                IF out.yVld \/ out.peVld THEN out.y ELSE None>>)
  BY DEF FlitsConserved
<1> DEFINE xin == FromWest(r)
           yin == FromNorth(r)
           taken == IF Accepts(r, offer) THEN FromPE(r, offer) ELSE None
           x == IF Output(r, offer).xVld THEN Output(r, offer).x ELSE None
           y == IF Output(r, offer).yVld \/ Output(r, offer).peVld
                  THEN Output(r, offer).y ELSE None
<1>1. \/ taken = None /\ ((x = xin /\ y = yin) \/ (x = yin /\ y = xin))
      \/ xin = None /\ ((x = yin /\ y = taken) \/ (x = taken /\ y = yin))
      \/ yin = None /\ ((x = xin /\ y = taken) \/ (x = taken /\ y = xin))
  BY RoutePermutes DEF Output, Accepts
<1> HIDE DEF xin, yin, taken, x, y
<1>2. ASSUME NEW f, f # None
      PROVE  Occurrences(f, <<xin, yin, taken>>)
               = Occurrences(f, <<x, y>>)
  <2>1. Occurrences(f, <<x, y>>)
          = (IF x = f THEN 1 ELSE 0) + (IF y = f THEN 1 ELSE 0)
    BY CountTwo
  <2>2. xin # f \/ yin # f \/ taken # f
    BY <1>1, <1>2
  <2>3. Occurrences(f, <<xin, yin, taken>>)
          = (IF xin = f THEN 1 ELSE 0) + (IF yin = f THEN 1 ELSE 0)
              + (IF taken = f THEN 1 ELSE 0)
    BY <2>2, CountThree
  <2>4. (IF xin = f THEN 1 ELSE 0) + (IF yin = f THEN 1 ELSE 0)
              + (IF taken = f THEN 1 ELSE 0)
          = (IF x = f THEN 1 ELSE 0) + (IF y = f THEN 1 ELSE 0)
    BY <1>1, <1>2
  <2> QED
    BY <2>1, <2>3, <2>4
<1>3. SameFlits(<<xin, yin, taken>>, <<x, y>>)
  BY <1>2 DEF SameFlits, Occurrences
<1> QED
  BY <1>3 DEF xin, yin, taken, x, y

\* On a torus of any size and under any traffic no router loses or duplicates a
\* flit, though valid bits and select bits are computed apart.
THEOREM TorusConserves == Spec => []FlitsConserved
<1>1. FlitsConserved
  BY RoutersConserve
<1> QED
  BY <1>1, PTL
=============================================================================
