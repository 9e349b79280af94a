---------------------------- MODULE HopliteProofs ----------------------------
(***************************************************************************)
(* What a clock edge does to a torus of any size, whatever its PEs offer:  *)
(* registers and counters keep their types, flits stay where the routers   *)
(* take them to be, and no flit is lost or duplicated.                     *)
(***************************************************************************)
EXTENDS Hoplite, FiniteSetTheorems, TLAPS

RowCost(n) == n * (1 + X_DIM)

-----------------------------------------------------------------------------
(* Arithmetic of the torus.                                                *)

LEMMA RowCostStep ==
  ASSUME NEW n \in Int
  PROVE  /\ RowCost(n) \in Int
         /\ RowCost(n) = n + n * X_DIM
         /\ RowCost(n - 1) = RowCost(n) - 1 - X_DIM
BY HopliteAssumption DEF RowCost

LEMMA RowCostNat ==
  ASSUME NEW n \in Nat
  PROVE  RowCost(n) \in Nat
BY HopliteAssumption DEF RowCost

LEMMA RouterParts ==
  ASSUME NEW r \in Routers
  PROVE  /\ r[1] \in 0 .. X_DIM - 1
         /\ r[2] \in 0 .. Y_DIM - 1
         /\ r = <<r[1], r[2]>>
BY DEF Routers

LEMMA SameRouter ==
  ASSUME NEW r \in Routers, NEW d \in Routers, r[1] = d[1], r[2] = d[2]
  PROVE  r = d
BY RouterParts

LEMMA Neighbours ==
  ASSUME NEW r \in Routers
  PROVE  West(r) \in Routers /\ North(r) \in Routers
BY RouterParts, HopliteAssumption DEF West, North, Routers

LEMMA Distances ==
  ASSUME NEW r \in Routers, NEW d \in Routers
  PROVE  /\ DX(r[1], d[1]) \in 0 .. X_DIM - 1
         /\ DY(r[2], d[2]) \in 0 .. Y_DIM - 1
         /\ r[1] = d[1] <=> DX(r[1], d[1]) = 0
         /\ r[2] = d[2] <=> DY(r[2], d[2]) = 0
BY RouterParts, HopliteAssumption DEF DX, DY

\* A step east brings a flit a column nearer, or takes it a round away.
LEMMA StepEast ==
  ASSUME NEW q \in Routers, NEW d \in Routers
  PROVE  LET p == West(q) IN
         /\ p[2] = q[2]
         /\ p[1] # d[1] => DX(q[1], d[1]) = DX(p[1], d[1]) - 1
         /\ p[1] = d[1] => DX(q[1], d[1]) = X_DIM - 1
BY RouterParts, HopliteAssumption DEF West, DX

LEMMA StepSouth ==
  ASSUME NEW q \in Routers, NEW d \in Routers
  PROVE  LET p == North(q) IN
         /\ p[1] = q[1]
         /\ p[2] # d[2] => DY(q[2], d[2]) = DY(p[2], d[2]) - 1
         /\ p[2] = d[2] => DY(q[2], d[2]) = Y_DIM - 1
BY RouterParts, HopliteAssumption DEF North, DY

\* Rows a flit goes south: a round of the column if it is for its own PE.
RowsToGo(s, d) == IF s = d THEN Y_DIM ELSE DY(s[2], d[2])

\* The bound, in rows.
LEMMA LatencyInRows ==
  ASSUME NEW s \in Routers, NEW d \in Routers
  PROVE  /\ InflightLatency(s, d) \in Int
         /\ RowsToGo(s, d) \in Nat
         /\ InflightLatency(s, d) + (IF s = d THEN Y_DIM + Y_DIM * X_DIM ELSE 0)
              = 2 + DX(s[1], d[1]) + RowCost(RowsToGo(s, d))
<1> DEFINE n == DY(s[2], d[2])
<1>1. DX(s[1], d[1]) \in Nat /\ n \in Nat /\ X_DIM \in Nat /\ Y_DIM \in Nat
  BY Distances, HopliteAssumption
<1>2. s = d => DX(s[1], d[1]) = 0 /\ n = 0
  BY Distances
<1>3. InflightLatency(s, d) = DX(s[1], d[1]) + n + n * X_DIM + 2
  BY DEF InflightLatency
<1>4. RowsToGo(s, d) = IF s = d THEN Y_DIM ELSE n
  BY DEF RowsToGo
<1> HIDE DEF n
<1>5. /\ RowCost(n) = n + n * X_DIM /\ RowCost(Y_DIM) = Y_DIM + Y_DIM * X_DIM
      /\ n * X_DIM \in Int /\ Y_DIM * X_DIM \in Int
  BY <1>1, RowCostStep
<1>6. CASE s = d
  <2>1. n * X_DIM = 0
    BY <1>1, <1>2, <1>6
  <2> QED
    BY <1>1, <1>2, <1>3, <1>4, <1>5, <1>6, <2>1
<1>7. CASE s # d
  BY <1>1, <1>3, <1>4, <1>5, <1>7
<1> QED
  BY <1>6, <1>7

-----------------------------------------------------------------------------
(* Flits.                                                                  *)

LEMMA FlitParts ==
  ASSUME NEW f \in Flit
  PROVE  /\ f # None /\ f.src \in Routers /\ f.dst \in Routers
         /\ f.budget \in Int
BY NoneIsNoFlit DEF Flit

LEMMA AgedFlit ==
  ASSUME NEW f \in Flit
  PROVE  /\ Aged(f) \in Flit
         /\ Aged(f).src = f.src /\ Aged(f).dst = f.dst
         /\ Aged(f).budget = f.budget - 1
BY FlitParts DEF Flit, Aged

LEMMA AgedNone == Aged(None) = None
BY DEF Aged

-----------------------------------------------------------------------------
(* The switch.                                                             *)

\* A valid output carries the input the switch gave it to, though the muxes'
\* select bits and the valid bits are computed apart.
LEMMA RouteEast ==
  ASSUME NEW r, NEW xin, NEW yin, NEW pein,
         LET out == Route(r, xin, yin, pein) IN out.xVld
  PROVE  LET out == Route(r, xin, yin, pein) IN
         \/ XinGetsXout(r, xin) /\ out.x = xin
         \/ YinGetsXout(r, xin, yin) /\ out.x = yin
         \/ PeinGetsXout(r, xin, pein) /\ out.x = pein
BY DEF Route, XinGetsXout, YinGetsXout, PeinGetsXout, XinGetsYout,
       YinGetsYout, PeinGetsYout, SelectHigh, SelectLow

LEMMA RouteSouth ==
  ASSUME NEW r, NEW xin, NEW yin, NEW pein,
         LET out == Route(r, xin, yin, pein) IN out.yVld
  PROVE  LET out == Route(r, xin, yin, pein) IN
         \/ XinGetsYout(r, xin) /\ out.y = xin /\ xin.dst[2] # r[2]
         \/ YinGetsYout(r, xin, yin) /\ out.y = yin /\ yin.dst[2] # r[2]
         \/ PeinGetsYout(r, xin, yin, pein) /\ out.y = pein
BY DEF Route, XinGetsXout, YinGetsXout, PeinGetsXout, XinGetsYout,
       YinGetsYout, PeinGetsYout, SelectHigh, SelectLow

LEMMA RouteToPE ==
  ASSUME NEW r, NEW xin, NEW yin, NEW pein,
         LET out == Route(r, xin, yin, pein) IN out.peVld
  PROVE  LET out == Route(r, xin, yin, pein) IN
         /\ ~out.yVld
         /\ \/ XinGetsYout(r, xin) /\ out.y = xin /\ xin.dst[2] = r[2]
            \/ YinGetsYout(r, xin, yin) /\ out.y = yin /\ yin.dst[2] = r[2]
BY DEF Route, XinGetsXout, YinGetsXout, PeinGetsXout, XinGetsYout,
       YinGetsYout, PeinGetsYout, SelectHigh, SelectLow

LEMMA RouteValid ==
  ASSUME NEW r, NEW xin, NEW yin, NEW pein
  PROVE  LET out == Route(r, xin, yin, pein) IN
         out.xVld \in BOOLEAN /\ out.yVld \in BOOLEAN /\ out.peVld \in BOOLEAN
BY DEF Route, XinGetsXout, YinGetsXout, PeinGetsXout, XinGetsYout,
       YinGetsYout, PeinGetsYout

\* The inputs a router takes leave it again, in one order or the other: of three
\* at least one is not there.
LEMMA RoutePermutes ==
  ASSUME NEW r, NEW xin, NEW yin, NEW pein
  PROVE  LET out == Route(r, xin, yin, pein)
             taken == IF PeinGetsXout(r, xin, pein) \/ PeinGetsYout(r, xin, yin, pein)
                        THEN pein ELSE None
             x == IF out.xVld THEN out.x ELSE None
             y == IF out.yVld \/ out.peVld THEN out.y ELSE None
         IN \/ taken = None /\ ((x = xin /\ y = yin) \/ (x = yin /\ y = xin))
            \/ xin = None /\ ((x = yin /\ y = taken) \/ (x = taken /\ y = yin))
            \/ yin = None /\ ((x = xin /\ y = taken) \/ (x = taken /\ y = xin))
BY DEF Route, XinGetsXout, YinGetsXout, PeinGetsXout, XinGetsYout,
       YinGetsYout, PeinGetsYout, SelectHigh, SelectLow

-----------------------------------------------------------------------------
(* A clock edge.                                                           *)

\* A flit is accepted for a token only.
LEMMA AcceptsToken ==
  ASSUME NEW r \in Routers, NEW o, Accepts(r, o)
  PROVE  tokenCntr[r] > 0
BY DEF Accepts, PeinGetsXout, PeinGetsYout, FromPE

LEMMA TokensInRange ==
  ASSUME NEW r \in Routers,
         tokenCntr[r] \in 0 .. MAX_TOKEN,
         NEW ack \in BOOLEAN,
         ack => tokenCntr[r] > 0
  PROVE  NextTokens(r, ack) \in 0 .. MAX_TOKEN
BY HopliteAssumption DEF NextTokens, RateWraps

\* What it writes at a router, o being what the PEs offer.
LEMMA Written ==
  ASSUME NEW o, Clock(o), NEW r \in Routers
  PROVE  LET out == Output(r, o) IN
         /\ xPkt'[r] = IF out.xVld THEN out.x ELSE None
         /\ yPkt'[r] = IF out.yVld \/ out.peVld THEN out.y ELSE None
         /\ yVld'[r] = out.yVld
         /\ peVld'[r] = out.peVld
         /\ tokenCntr'[r] = NextTokens(r, Accepts(r, o))
BY DEF Clock

LEMMA InputsTyped ==
  ASSUME TorusTypeOK, NEW o \in [Routers -> Flit \cup {None}], NEW r \in Routers
  PROVE  /\ FromWest(r) \in Flit \cup {None}
         /\ FromNorth(r) \in Flit \cup {None}
         /\ FromPE(r, o) \in Flit \cup {None}
<1>1. ASSUME NEW f \in Flit \cup {None} PROVE Aged(f) \in Flit \cup {None}
  BY AgedFlit, AgedNone
<1>2. /\ xPkt[West(r)] \in Flit \cup {None}
      /\ yPkt[North(r)] \in Flit \cup {None}
      /\ o[r] \in Flit \cup {None}
  BY Neighbours DEF TorusTypeOK
<1> QED
  BY <1>1, <1>2 DEF FromWest, FromNorth, FromPE

\* A valid output is one of the inputs, and there.
LEMMA OutputsTyped ==
  ASSUME TorusTypeOK, NEW o \in [Routers -> Flit \cup {None}], NEW r \in Routers
  PROVE  LET out == Output(r, o) IN
         /\ out.xVld => out.x \in Flit
         /\ out.yVld \/ out.peVld => out.y \in Flit
<1> DEFINE xin == FromWest(r)
           yin == FromNorth(r)
           pein == FromPE(r, o)
<1>1. /\ xin \in Flit \cup {None} /\ yin \in Flit \cup {None}
      /\ pein \in Flit \cup {None}
  BY InputsTyped
<1>2. Output(r, o) = Route(r, xin, yin, pein)
  BY DEF Output
<1> HIDE DEF xin, yin, pein
<1> QED
  BY <1>1, <1>2, RouteEast, RouteSouth, RouteToPE
     DEF XinGetsXout, YinGetsXout, PeinGetsXout, XinGetsYout, YinGetsYout, PeinGetsYout

LEMMA ClockTyped ==
  ASSUME TorusTypeOK, NEW o \in [Routers -> Flit \cup {None}], Clock(o)
  PROVE  TorusTypeOK'
<1>1. ASSUME NEW r \in Routers
      PROVE  /\ xPkt'[r] \in Flit \cup {None}
             /\ yPkt'[r] \in Flit \cup {None}
  BY Written, OutputsTyped
<1>2. ASSUME NEW r \in Routers
      PROVE  yVld'[r] \in BOOLEAN /\ peVld'[r] \in BOOLEAN
  BY Written, RouteValid DEF Output
<1>3. ASSUME NEW r \in Routers PROVE tokenCntr'[r] \in 0 .. MAX_TOKEN
  <2>1. Accepts(r, o) \in BOOLEAN /\ tokenCntr[r] \in 0 .. MAX_TOKEN
    BY DEF Accepts, PeinGetsXout, PeinGetsYout, TorusTypeOK
  <2> QED
    BY <2>1, Written, AcceptsToken, TokensInRange
<1>4. rateCntr' \in 0 .. MAX_RATE - 1
  BY HopliteAssumption DEF TorusTypeOK, Clock, RateWraps
<1>5. /\ xPkt' \in [Routers -> Flit \cup {None}]
      /\ yPkt' \in [Routers -> Flit \cup {None}]
      /\ yVld' \in [Routers -> BOOLEAN]
      /\ peVld' \in [Routers -> BOOLEAN]
      /\ tokenCntr' \in [Routers -> 0 .. MAX_TOKEN]
  BY <1>1, <1>2, <1>3 DEF Clock
<1> QED
  BY <1>4, <1>5 DEF TorusTypeOK

\* Flits stay where the routers take them to be; a south register holds one just
\* if it is valid.
LEMMA ClockInPlace ==
  ASSUME TorusTypeOK, FlitsInPlace, NEW o \in [Routers -> Flit \cup {None}], Clock(o)
  PROVE  /\ FlitsInPlace'
         /\ \A r \in Routers : yPkt'[r] # None <=> yVld'[r] \/ peVld'[r]
<1> SUFFICES ASSUME NEW r \in Routers
             PROVE  /\ ~(yVld'[r] /\ peVld'[r])
                    /\ yVld'[r] => yPkt'[r].dst[1] = r[1]
                    /\ peVld'[r] => yPkt'[r].dst = r
                    /\ yPkt'[r] # None <=> yVld'[r] \/ peVld'[r]
  BY DEF FlitsInPlace
<1> DEFINE xin == FromWest(r)
           yin == FromNorth(r)
           pein == FromPE(r, o)
           out == Output(r, o)
<1>1. /\ xin \in Flit \cup {None} /\ yin \in Flit \cup {None}
      /\ pein \in Flit \cup {None}
  BY InputsTyped
<1>2. yin # None => yin.dst[1] = r[1]
  <2>1. /\ North(r) \in Routers /\ North(r)[1] = r[1]
    BY Neighbours DEF North
  <2>2. CASE yVld[North(r)]
    <3>1. yPkt[North(r)] \in Flit \cup {None} /\ yPkt[North(r)].dst[1] = r[1]
      BY <2>1, <2>2 DEF FlitsInPlace, TorusTypeOK
    <3>2. yin = Aged(yPkt[North(r)])
      BY <2>2 DEF FromNorth
    <3> QED
      BY <3>1, <3>2, AgedFlit, AgedNone
  <2> QED
    BY <2>2 DEF FromNorth
<1>3. out = Route(r, xin, yin, pein)
  BY DEF Output
<1>4. /\ yVld'[r] = out.yVld /\ peVld'[r] = out.peVld
      /\ yPkt'[r] = IF out.yVld \/ out.peVld THEN out.y ELSE None
      /\ out.yVld \/ out.peVld => out.y \in Flit
  BY Written, OutputsTyped
<1> HIDE DEF xin, yin, pein, out
<1>5. out.yVld => out.y.dst[1] = r[1]
  BY <1>2, <1>3, RouteSouth DEF XinGetsYout, YinGetsYout, PeinGetsYout
<1>6. out.peVld => ~out.yVld /\ out.y.dst[1] = r[1] /\ out.y.dst[2] = r[2]
  BY <1>2, <1>3, RouteToPE DEF XinGetsYout, YinGetsYout
<1>7. out.peVld => out.y.dst = r
  BY <1>4, <1>6, SameRouter, FlitParts
<1> QED
  BY <1>4, <1>5, <1>6, <1>7, FlitParts

\* If all the flits in registers and on offer are in F, so are they a cycle later.
LEMMA ClockKeeps ==
  ASSUME TorusTypeOK, NEW o \in [Routers -> Flit \cup {None}], Clock(o),
         NEW F, \A f \in Flit : Aged(f) \in F <=> f \in F,
         \A r \in Routers : xPkt[r] \in F \cup {None} /\ yPkt[r] \in F \cup {None},
         \A r \in Routers : o[r] \in F \cup {None}
  PROVE  \A r \in Routers : xPkt'[r] \in F \cup {None} /\ yPkt'[r] \in F \cup {None}
<1> SUFFICES ASSUME NEW r \in Routers
             PROVE  xPkt'[r] \in F \cup {None} /\ yPkt'[r] \in F \cup {None}
  OBVIOUS
<1> DEFINE G == F \cup {None}
           taken == IF Accepts(r, o) THEN FromPE(r, o) ELSE None
<1>1. \A f \in Flit \cup {None} : f \in G => Aged(f) \in G
  BY AgedNone
<1>2. /\ xPkt[West(r)] \in G /\ yPkt[North(r)] \in G /\ o[r] \in G
      /\ xPkt[West(r)] \in Flit \cup {None} /\ yPkt[North(r)] \in Flit \cup {None}
      /\ o[r] \in Flit \cup {None}
  BY Neighbours DEF TorusTypeOK
<1>3. None \in G
  OBVIOUS
<1> HIDE DEF G
<1>4. FromWest(r) \in G /\ FromNorth(r) \in G /\ taken \in G
  BY <1>1, <1>2, <1>3 DEF FromWest, FromNorth, FromPE
<1>5. /\ xPkt'[r] \in {FromWest(r), FromNorth(r), taken}
      /\ yPkt'[r] \in {FromWest(r), FromNorth(r), taken}
  BY Written, RoutePermutes DEF Output, Accepts
<1> HIDE DEF taken
<1> QED
  BY <1>4, <1>5 DEF G

-----------------------------------------------------------------------------
(* Conservation.                                                           *)

LEMMA RoutersFinite == IsFiniteSet(Routers)
<1>1. X_DIM - 1 \in Int /\ Y_DIM - 1 \in Int
  BY HopliteAssumption
<1>2. IsFiniteSet(0 .. X_DIM - 1) /\ IsFiniteSet(0 .. Y_DIM - 1)
  BY <1>1, FS_Interval
<1> QED
  BY <1>2, FS_Product DEF Routers

\* As many routers have a western neighbour in a set as there are in it.
LEMMA WestCount ==
  ASSUME NEW S \in SUBSET Routers
  PROVE  Cardinality({r \in Routers : West(r) \in S}) = Cardinality(S)
<1> DEFINE T == {r \in Routers : West(r) \in S}
           east(r) == <<IF r[1] = X_DIM - 1 THEN 0 ELSE r[1] + 1, r[2]>>
           f == [r \in T |-> West(r)]
<1>1. \A r \in Routers : east(r) \in Routers /\ West(east(r)) = r
  BY RouterParts, HopliteAssumption DEF West, Routers
<1>2. \A q, r \in Routers : West(q) = West(r) => q = r
  BY RouterParts, HopliteAssumption DEF West
<1> HIDE DEF east
<1>3. f \in Bijection(T, S)
  <2>1. f \in [T -> S] /\ \A r \in T : f[r] = West(r)
    OBVIOUS
  <2>2. \A q, r \in T : f[q] = f[r] => q = r
    BY <1>2, <2>1
  <2>3. \A q \in S : \E r \in T : f[r] = q
    BY <1>1, <2>1
  <2> HIDE DEF f
  <2>4. f \in Injection(T, S)
    BY <2>1, <2>2 DEF Injection, IsInjective
  <2>5. f \in Surjection(T, S)
    BY <2>1, <2>3 DEF Surjection
  <2> QED
    BY <2>4, <2>5 DEF Bijection
<1>4. IsFiniteSet(T)
  BY RoutersFinite, FS_Subset
<1> HIDE DEF T, f
<1> QED
  BY <1>3, <1>4, FS_Bijection DEF ExistsBijection, T

LEMMA NorthCount ==
  ASSUME NEW S \in SUBSET Routers
  PROVE  Cardinality({r \in Routers : North(r) \in S}) = Cardinality(S)
<1> DEFINE T == {r \in Routers : North(r) \in S}
           south(r) == <<r[1], IF r[2] = Y_DIM - 1 THEN 0 ELSE r[2] + 1>>
           f == [r \in T |-> North(r)]
<1>1. \A r \in Routers : south(r) \in Routers /\ North(south(r)) = r
  BY RouterParts, HopliteAssumption DEF North, Routers
<1>2. \A q, r \in Routers : North(q) = North(r) => q = r
  BY RouterParts, HopliteAssumption DEF North
<1> HIDE DEF south
<1>3. f \in Bijection(T, S)
  <2>1. f \in [T -> S] /\ \A r \in T : f[r] = North(r)
    OBVIOUS
  <2>2. \A q, r \in T : f[q] = f[r] => q = r
    BY <1>2, <2>1
  <2>3. \A q \in S : \E r \in T : f[r] = q
    BY <1>1, <2>1
  <2> HIDE DEF f
  <2>4. f \in Injection(T, S)
    BY <2>1, <2>2 DEF Injection, IsInjective
  <2>5. f \in Surjection(T, S)
    BY <2>1, <2>3 DEF Surjection
  <2> QED
    BY <2>4, <2>5 DEF Bijection
<1>4. IsFiniteSet(T)
  BY RoutersFinite, FS_Subset
<1> HIDE DEF T, f
<1> QED
  BY <1>3, <1>4, FS_Bijection DEF ExistsBijection, T

\* Of three sets no element is in all: as many as are in the first two, if those
\* hold each element as often as the three do.
LEMMA CountedTwice ==
  ASSUME NEW A, NEW B, NEW C, NEW D, NEW E,
         IsFiniteSet(A), IsFiniteSet(B), IsFiniteSet(C), IsFiniteSet(D), IsFiniteSet(E),
         D \cup E = A \cup B \cup C,
         D \cap E = (A \cap B) \cup ((A \cup B) \cap C),
         (A \cap B) \cap C = {}
  PROVE  Cardinality(D) + Cardinality(E)
           = Cardinality(A) + Cardinality(B) + Cardinality(C)
<1> DEFINE U == A \cup B
           V == A \cap B
           W == U \cap C
<1>1. /\ IsFiniteSet(U) /\ IsFiniteSet(V) /\ IsFiniteSet(W)
      /\ Cardinality(U) = Cardinality(A) + Cardinality(B) - Cardinality(V)
  BY FS_Union, FS_Intersection
<1>2. Cardinality(U \cup C) = Cardinality(U) + Cardinality(C) - Cardinality(W)
  BY <1>1, FS_Union
<1>3. V \cap W = {}
  OBVIOUS
<1>4. Cardinality(V \cup W) = Cardinality(V) + Cardinality(W)
  <2> HIDE DEF V, W
  <2>1. Cardinality(V \cup W) = Cardinality(V) + Cardinality(W) - Cardinality(V \cap W)
    BY <1>1, FS_Union
  <2>2. Cardinality(V \cap W) = 0
    BY <1>3, FS_EmptySet
  <2>3. Cardinality(V) \in Nat /\ Cardinality(W) \in Nat
    BY <1>1, FS_CardinalityType
  <2> QED
    BY <2>1, <2>2, <2>3
<1>5. Cardinality(D \cup E) = Cardinality(D) + Cardinality(E) - Cardinality(D \cap E)
  BY FS_Union
<1>6. D \cup E = U \cup C /\ D \cap E = V \cup W
  OBVIOUS
<1>7. /\ Cardinality(A) \in Nat /\ Cardinality(B) \in Nat /\ Cardinality(C) \in Nat
      /\ Cardinality(D) \in Nat /\ Cardinality(E) \in Nat
      /\ Cardinality(U) \in Nat /\ Cardinality(V) \in Nat /\ Cardinality(W) \in Nat
  BY <1>1, FS_CardinalityType
<1>8. Cardinality(D \cup E) = Cardinality(U \cup C)
      /\ Cardinality(D \cap E) = Cardinality(V \cup W)
  BY <1>6
<1> HIDE DEF U, V, W
<1> QED
  BY <1>1, <1>2, <1>4, <1>5, <1>7, <1>8

\* Whatever flits one counts: a clock edge leaves as many of them in registers as
\* were there, less those that arrived, and those accepted.
LEMMA ClockConserves ==
  ASSUME TorusTypeOK, NEW o \in [Routers -> Flit \cup {None}], Clock(o),
         NEW F, None \notin F, \A f \in Flit : Aged(f) \in F <=> f \in F
  PROVE  Cardinality({r \in Routers : xPkt'[r] \in F})
             + Cardinality({r \in Routers : yPkt'[r] \in F})
           = Cardinality({r \in Routers : xPkt[r] \in F})
               + Cardinality({r \in Routers : yVld[r] /\ yPkt[r] \in F})
               + Cardinality({r \in Routers : Accepts(r, o) /\ o[r] \in F})
<1> DEFINE A == {r \in Routers : FromWest(r) \in F}
           B == {r \in Routers : FromNorth(r) \in F}
           C == {r \in Routers : Accepts(r, o) /\ o[r] \in F}
           D == {r \in Routers : xPkt'[r] \in F}
           E == {r \in Routers : yPkt'[r] \in F}
<1>1. \A f \in Flit \cup {None} : Aged(f) \in F <=> f \in F
  BY AgedNone
<1>2. Cardinality(A) = Cardinality({r \in Routers : xPkt[r] \in F})
  <2> DEFINE S == {r \in Routers : xPkt[r] \in F}
  <2>1. \A r \in Routers : FromWest(r) \in F <=> West(r) \in S
    BY <1>1, Neighbours DEF FromWest, TorusTypeOK
  <2>2. A = {r \in Routers : West(r) \in S}
    BY <2>1
  <2>3. S \in SUBSET Routers
    OBVIOUS
  <2> HIDE DEF A, S
  <2>4. Cardinality(A) = Cardinality(S)
    BY <2>2, <2>3, WestCount
  <2> QED
    BY <2>4 DEF S
<1>3. Cardinality(B) = Cardinality({r \in Routers : yVld[r] /\ yPkt[r] \in F})
  <2> DEFINE S == {r \in Routers : yVld[r] /\ yPkt[r] \in F}
  <2>1. \A r \in Routers : FromNorth(r) \in F <=> North(r) \in S
    BY <1>1, Neighbours DEF FromNorth, TorusTypeOK
  <2>2. B = {r \in Routers : North(r) \in S}
    BY <2>1
  <2>3. S \in SUBSET Routers
    OBVIOUS
  <2> HIDE DEF B, S
  <2>4. Cardinality(B) = Cardinality(S)
    BY <2>2, <2>3, NorthCount
  <2> QED
    BY <2>4 DEF S
<1>4. ASSUME NEW r \in Routers
      PROVE  /\ r \in D \/ r \in E <=> r \in A \/ r \in B \/ r \in C
             /\ r \in D /\ r \in E
                  <=> (r \in A /\ r \in B) \/ ((r \in A \/ r \in B) /\ r \in C)
             /\ ~(r \in A /\ r \in B /\ r \in C)
  <2> DEFINE taken == IF Accepts(r, o) THEN FromPE(r, o) ELSE None
  <2>1. r \in C <=> taken \in F
    <3>1. Accepts(r, o) => FromPE(r, o) = Aged(o[r])
      BY AcceptsToken DEF FromPE
    <3> QED
      BY <1>1, <3>1
  <2>2. LET x == xPkt'[r]
            y == yPkt'[r]
            xin == FromWest(r)
            yin == FromNorth(r)
        IN \/ taken = None /\ ((x = xin /\ y = yin) \/ (x = yin /\ y = xin))
           \/ xin = None /\ ((x = yin /\ y = taken) \/ (x = taken /\ y = yin))
           \/ yin = None /\ ((x = xin /\ y = taken) \/ (x = taken /\ y = xin))
    BY Written, RoutePermutes DEF Output, Accepts
  <2> HIDE DEF taken
  <2> QED
    BY <2>1, <2>2
<1>5. /\ IsFiniteSet(A) /\ IsFiniteSet(B) /\ IsFiniteSet(C)
      /\ IsFiniteSet(D) /\ IsFiniteSet(E)
  BY RoutersFinite, FS_Subset
<1>6. /\ A \subseteq Routers /\ B \subseteq Routers /\ C \subseteq Routers
      /\ D \subseteq Routers /\ E \subseteq Routers
  OBVIOUS
<1>7. Cardinality(D) + Cardinality(E) = Cardinality(A) + Cardinality(B) + Cardinality(C)
  <2> HIDE DEF A, B, C, D, E
  <2>1. /\ D \cup E = A \cup B \cup C
        /\ D \cap E = (A \cap B) \cup ((A \cup B) \cap C)
        /\ (A \cap B) \cap C = {}
    BY <1>4, <1>6
  <2> QED
    BY <1>5, <2>1, CountedTwice
<1> QED
  BY <1>2, <1>3, <1>7
=============================================================================
