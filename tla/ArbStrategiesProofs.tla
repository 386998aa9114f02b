-------------------------- MODULE ArbStrategiesProofs --------------------------
(***************************************************************************)
(* Proofs about ArbStrategies, for any markets, books, limits and ticks:   *)
(* the limit on exposure bounds what is really at stake, an unwinding      *)
(* maker keeps its reservations and sells no leg twice, and what is sent   *)
(* pays its edge and does not cross, though two modules round its price.   *)
(***************************************************************************)
EXTENDS ArbStrategies, SumLemmas

USE DEF Dollar

Typed ==
    /\ arb \in Arbs /\ exposure \in Nat
    /\ pending \in [Markets -> [size : Nat, reserved : Nat, age : Nat]]
    /\ held \in [Markets -> [Legs -> Nat]] /\ resting \in [Markets -> [Legs -> Nat]]
    /\ stake \in [Markets -> Nat]
    /\ unwinds \subseteq [market : Markets, leg : Legs, size : Nat]

\* Strategies that give nothing back count at least what they have at stake.
ExposureCounts == arb # "maker" =>
    /\ SumFunctionOnSet(stake, Markets) <= exposure
    /\ exposure <= MaxExposure

\* While an unwind is unanswered the next arb of its market cannot expire, so that there
\* is at most one for a leg.
OneUnwind == ~stopped =>
    /\ \A u \in unwinds : u.market \notin Expired /\ u.size <= held[u.market][u.leg]
    /\ \A u, v \in unwinds : u.market = v.market /\ u.leg = v.leg => u = v

IInv ==
    /\ Typed
    /\ ExposureCounts
    /\ ReservationsCovered
    /\ OneUnwind
    /\ PairsPayTheirEdge
    /\ MakersNeverCross

-----------------------------------------------------------------------------
(* Arithmetic *)

\* The whole quotient rounds down: it is off by less than one divisor.
LEMMA DivFloor ==
    ASSUME NEW a \in Int, NEW b \in Nat \ {0}
    PROVE  a \div b \in Int /\ (a \div b) * b <= a /\ a < (a \div b) * b + b
  OBVIOUS

\* A remainder below the divisor does not move the whole quotient of a multiple.
LEMMA DivOfMultiple ==
    ASSUME NEW t \in Nat \ {0}, NEW k \in Int, NEW o \in 0..t - 1
    PROVE  (k * t + o) \div t = k
  OBVIOUS

\* A product of a sum is the sum of the products: the step the prover needs spelt out.
LEMMA Distribute ==
    ASSUME NEW a \in Int, NEW b \in Int, NEW c \in Int
    PROVE  (a + b) * c = a * c + b * c
  OBVIOUS

\* Prices times sizes are natural numbers.
LEMMA ProductType ==
    ASSUME NEW a \in Nat, NEW b \in Nat
    PROVE  a * b \in Nat
  OBVIOUS

\* The limits a size is cut to have a least one, and it is an integer.
LEMMA MinOfFive ==
    ASSUME NEW a \in Int, NEW b \in Int, NEW c \in Int, NEW d \in Int, NEW e \in Int
    PROVE  Min({a, b, c, d, e}) \in Int
<1>1. \E x \in {a, b, c, d, e} : \A y \in {a, b, c, d, e} : x <= y
  OBVIOUS
<1> QED
  BY <1>1 DEF Min

-----------------------------------------------------------------------------
(* Prices and sizes *)

OnTick(p) == \E k \in Nat : p = k * TickSize

\* Rounding a price up to the tick gives a price on the tick and never a lower one.
LEMMA RoundedUp ==
    ASSUME NEW p \in Nat
    PROVE  RoundUpToTick(p) \in Nat /\ RoundUpToTick(p) >= p /\ OnTick(RoundUpToTick(p))
<1> DEFINE k == (p + TickSize - 1) \div TickSize
<1>0. TickSize \in Nat \ {0}
  BY ArbAssumption
<1>1. k \in Int /\ k * TickSize <= p + TickSize - 1 /\ p + TickSize - 1 < k * TickSize + TickSize
  BY <1>0, DivFloor
<1>2. RoundUpToTick(p) = k * TickSize
  BY DEF RoundUpToTick, CeilDiv
<1> HIDE DEF k
<1>3. k * TickSize \in Int /\ k * TickSize >= p
  BY <1>0, <1>1
<1>4. k >= 0
  BY <1>0, <1>1, <1>3
<1> QED
  BY <1>0, <1>1, <1>2, <1>3, <1>4 DEF OnTick

\* The maker's price is a price of the market, below the ask.
LEMMA MakerPriceBelowAsk ==
    ASSUME NEW b \in Books, TwoSided(b)
    PROVE  MakerPrice(b) \in Nat /\ MakerPrice(b) < b.ask /\ OnTick(MakerPrice(b))
<1> DEFINE raw == Max({b.ask - TickSize, b.bid})
           k == raw \div TickSize
<1>0. TickSize \in Nat \ {0}
  BY ArbAssumption
<1>1. b.bid \in Nat \ {0} /\ b.ask \in Nat /\ b.bid < b.ask
  BY BooksAssumption DEF TwoSided
<1>2. raw \in Nat /\ raw < b.ask
  BY <1>0, <1>1, MaxOfTwo
<1> HIDE DEF raw
<1>3. k \in Int /\ k * TickSize <= raw /\ raw < k * TickSize + TickSize
  BY <1>0, <1>2, DivFloor
<1>4. MakerPrice(b) = k * TickSize
  BY DEF MakerPrice, raw
<1> HIDE DEF k
<1>5. k >= 0
  BY <1>0, <1>2, <1>3
<1>6. k * TickSize \in Nat
  BY <1>0, <1>3, <1>5, ProductType
<1> QED
  BY <1>1, <1>2, <1>3, <1>4, <1>5, <1>6 DEF OnTick

\* The policy leaves a price that is one of the market's as it is: rounding up, because
\* there is nothing to round, and the maker's offset, because it is below a tick.
LEMMA PolicyKeepsPrice ==
    ASSUME NEW p \in Nat, OnTick(p), NEW size, NEW urgency \in {"Immediate", "Passive"}
    PROVE  LET order == ToOrderParams(IntentRef("Buy", p, size, urgency, TickSize))
           IN  order.price = p /\ order.size = size
<1>0. TickSize \in Nat \ {0} /\ PriceOffset \in 0..TickSize - 1
  BY ArbAssumption, OffsetAssumption, PolicyAssumption
<1>1. PICK k \in Nat : p = k * TickSize
  BY DEF OnTick
<1>2. (p + TickSize - 1) \div TickSize = k
  <2>1. p + TickSize - 1 = k * TickSize + (TickSize - 1)
    BY <1>0, <1>1
  <2>2. (k * TickSize + (TickSize - 1)) \div TickSize = k
    BY <1>0, DivOfMultiple
  <2> QED
    BY <2>1, <2>2
<1>3. (p + PriceOffset) \div TickSize = k
  <2>1. (k * TickSize + PriceOffset) \div TickSize = k
    BY <1>0, DivOfMultiple
  <2> QED
    BY <1>1, <2>1
<1>4. RoundUp(p, TickSize) = p /\ RoundDown(p + PriceOffset, TickSize) = p
  BY <1>0, <1>1, <1>2, <1>3 DEF RoundUp, RoundDown
<1> QED
  BY <1>4 DEF ToOrderParams, IntentRef, TakerParams, MakerParams, ApplyPriceOffset, OrderParams

\* Making the two orders of a pair changes neither a price that is already on the tick nor the size.
LEMMA PairKeepsPrices ==
    ASSUME NEW yes \in Nat, OnTick(yes), NEW no \in Nat, OnTick(no), NEW size,
           NEW urgency \in {"Immediate", "Passive"}
    PROVE  LET pair == LegOrders(yes, no, size, urgency)
           IN  /\ pair["yes"].price = yes /\ pair["no"].price = no
               /\ \A l \in Legs : pair[l].size = size
  BY PolicyKeepsPrice DEF LegOrders, Legs

\* The size math arbitrage settles on is a natural number, whatever cash and room are left.
LEMMA SizeType ==
    ASSUME NEW most \in Nat, NEW combined \in Nat \ {0}, NEW cash \in Nat, exposure \in Nat
    PROVE  ArbSize(most, combined, cash) \in Nat
<1> DEFINE a == (MaxExposure - exposure) \div (2 * 100)
           c == cash \div combined
           d == MaxBet \div combined
           w == Min({most, MaxPosition, a, c, d})
<1>0. MaxExposure \in Nat /\ MaxPosition \in Nat /\ MaxBet \in Nat
  BY ArbAssumption
<1>1. a \in Int /\ c \in Int /\ d \in Int
  BY <1>0, DivFloor
<1> HIDE DEF a, c, d
<1>2. w \in Int
  BY <1>0, <1>1, MinOfFive
<1>3. ArbSize(most, combined, cash) = Max({0, w})
  BY DEF ArbSize, a, c, d
<1> HIDE DEF w
<1> QED
  BY <1>2, <1>3, MaxOfTwo

\* The depth both books share is a natural number.
LEMMA DepthType ==
    ASSUME NEW yes \in Books, NEW no \in Books
    PROVE  MinDepth(yes, no) \in Nat
<1>1. yes.depth \in Nat /\ no.depth \in Nat
  BY BooksAssumption
<1> QED
  BY <1>1, MinOfTwo DEF MinDepth

\* What temporal_arb.rs spends on a trade fits in what is left of the exposure.
LEMMA TemporalFits ==
    ASSUME NEW ask \in Nat \ {0}, exposure \in Nat, exposure <= MaxExposure
    PROVE  /\ TemporalSize(ask) \in Nat
           /\ ask * TemporalSize(ask) \in Nat
           /\ exposure + ask * TemporalSize(ask) <= MaxExposure
<1> DEFINE a == (MaxPosition * 100) \div ask
           b == (MaxExposure - exposure) \div ask
           w == Min({a, b})
<1>0. MaxExposure \in Nat /\ MaxPosition \in Nat
  BY ArbAssumption
<1>1. a \in Int /\ b \in Int /\ b * ask <= MaxExposure - exposure
  BY <1>0, DivFloor
<1>2. TemporalSize(ask) = Min({10000, Max({0, w})})
  BY DEF TemporalSize
<1> HIDE DEF a, b
<1>3. w \in Int /\ w <= b
  BY <1>1, MinOfTwo
<1> HIDE DEF w
<1>7. Max({0, w}) = IF w <= 0 THEN 0 ELSE w
  BY <1>3, MaxOfTwo
<1>8. Max({0, w}) \in Int
  BY <1>3, <1>7
<1>4. TemporalSize(ask) = IF w <= 0 THEN 0 ELSE IF 10000 <= w THEN 10000 ELSE w
  <2> DEFINE m == Max({0, w})
  <2>1. m \in Int /\ m = IF w <= 0 THEN 0 ELSE w
    BY <1>7, <1>8
  <2>2. TemporalSize(ask) = Min({10000, m})
    BY <1>2
  <2> HIDE DEF m
  <2>3. Min({10000, m}) = IF 10000 <= m THEN 10000 ELSE m
    BY <2>1, MinOfTwo
  <2> QED
    BY <1>3, <2>1, <2>2, <2>3
<1>5. CASE w <= 0
  BY <1>0, <1>4, <1>5
<1>6. CASE w > 0
  <2> DEFINE s == TemporalSize(ask)
  <2>1. s \in Nat /\ s <= w
    BY <1>3, <1>4, <1>6
  <2> HIDE DEF s
  <2>2. s * ask <= b * ask /\ ask * s = s * ask
    BY <1>1, <1>3, <2>1
  <2>3. s \in Nat /\ ask * s \in Nat /\ exposure + ask * s <= MaxExposure
    BY <1>0, <1>1, <2>1, <2>2, ProductType
  <2> QED
    BY <2>3 DEF s
<1> QED
  BY <1>3, <1>5, <1>6

-----------------------------------------------------------------------------
(* Stakes and reservations *)

\* A stake that changes changes their sum by as much.
LEMMA StakeChanges ==
    ASSUME NEW m \in Markets, NEW after \in Nat
    PROVE  stake \in [Markets -> Nat] /\ stake' = [stake EXCEPT ![m] = after] =>
                /\ stake' \in [Markets -> Nat]
                /\ SumFunctionOnSet(stake, Markets) \in Nat
                /\ SumFunctionOnSet(stake', Markets)
                    = SumFunctionOnSet(stake, Markets) - stake[m] + after
<1>1. SUFFICES ASSUME stake \in [Markets -> Nat], stake' = [stake EXCEPT ![m] = after]
               PROVE  /\ stake' \in [Markets -> Nat]
                      /\ SumFunctionOnSet(stake, Markets) \in Nat
                      /\ SumFunctionOnSet(stake', Markets)
                            = SumFunctionOnSet(stake, Markets) - stake[m] + after
  OBVIOUS
<1>2. /\ \A y \in Markets : stake[y] \in Int /\ stake'[y] \in Int
      /\ \A y \in Markets \ {m} : stake'[y] = stake[y]
      /\ stake' \in [Markets -> Nat] /\ stake'[m] = after
      /\ \A y \in Markets : stake[y] \in Nat
  BY <1>1
<1>3. IsFiniteSet(Markets)
  BY ArbAssumption
<1>4. SumFunctionOnSet(stake', Markets) = SumFunctionOnSet(stake, Markets) - stake[m] + stake'[m]
  BY <1>2, <1>3, SumUpdate
<1>5. SumFunctionOnSet(stake, Markets) \in Nat
  BY <1>2, <1>3, SumOfNaturals
<1> QED
  BY <1>2, <1>4, <1>5

\* What each market has reserved, and all of it together, is a natural number.
LEMMA ReservedType ==
    ASSUME Typed
    PROVE  /\ \A m \in Markets : Reserved[m] = pending[m].reserved /\ Reserved[m] \in Nat
           /\ SumFunctionOnSet(Reserved, Markets) \in Nat
<1>1. \A m \in Markets : Reserved[m] = pending[m].reserved /\ Reserved[m] \in Nat
  BY DEF Typed, Reserved
<1>2. IsFiniteSet(Markets)
  BY ArbAssumption
<1>3. SumFunctionOnSet(Reserved, Markets) \in Nat
  BY <1>1, <1>2, SumOfNaturals
<1> QED
  BY <1>1, <1>3

\* The exchange is sent what the exposure counts.
LEMMA SubmitCounts ==
    ASSUME Typed, NEW m \in Markets,
           NEW yes \in Nat, OnTick(yes), NEW no \in Nat, OnTick(no), NEW size \in Nat,
           NEW urgency \in {"Immediate", "Passive"}, NEW margin,
           Submit(m, LegOrders(yes, no, size, urgency), margin)
    PROVE  /\ stake' = [stake EXCEPT ![m] = @ + (yes + no) * size]
           /\ (yes + no) * size \in Nat
           /\ resting' \in [Markets -> [Legs -> Nat]]
           /\ sent' = [cost |-> yes + no, margin |-> margin]
<1> DEFINE pair == LegOrders(yes, no, size, urgency)
<1>1. /\ pair["yes"].price = yes /\ pair["no"].price = no
      /\ pair["yes"].size = size /\ pair["no"].size = size
      /\ \A l \in Legs : pair[l].size = size
  BY PairKeepsPrices DEF Legs
<1> HIDE DEF pair
<1>2. /\ stake' = [stake EXCEPT ![m] = @ + pair["yes"].price * pair["yes"].size
                                       + pair["no"].price * pair["no"].size]
      /\ resting' = [resting EXCEPT ![m] = [l \in Legs |->
            @[l] + (IF pair[l].type = "GTC" THEN pair[l].size ELSE 0)]]
      /\ sent' = [cost |-> pair["yes"].price + pair["no"].price, margin |-> margin]
  BY DEF Submit, pair
<1>3. stake' = [stake EXCEPT ![m] = @ + yes * size + no * size]
  <2>1. /\ pair["yes"].price * pair["yes"].size = yes * size
        /\ pair["no"].price * pair["no"].size = no * size
    BY <1>1
  <2>2. \A a, b : a = yes * size /\ b = no * size =>
          [stake EXCEPT ![m] = @ + a + b] = [stake EXCEPT ![m] = @ + yes * size + no * size]
    OBVIOUS
  <2> QED
    BY <1>2, <2>1, <2>2
<1>a. yes \in Int /\ no \in Int /\ size \in Int /\ yes + no \in Nat
  OBVIOUS
<1>b. (yes + no) * size = yes * size + no * size
  BY <1>a, Distribute
<1>c. (yes + no) * size \in Nat
  BY <1>a, ProductType
<1>4. (yes + no) * size = yes * size + no * size /\ (yes + no) * size \in Nat
  BY <1>b, <1>c
<1>5. yes * size \in Nat /\ no * size \in Nat /\ stake[m] \in Nat
  BY ProductType DEF Typed
<1>6. stake[m] + yes * size + no * size = stake[m] + (yes + no) * size
  BY <1>4, <1>5
<1>7. resting' \in [Markets -> [Legs -> Nat]]
  BY <1>1, <1>2 DEF Typed
<1> QED
  BY <1>1, <1>2, <1>3, <1>4, <1>6, <1>7

\* Staking on one market raises the sum over the markets by exactly that cost.
LEMMA StakeGrows ==
    ASSUME NEW m \in Markets, NEW cost \in Nat
    PROVE  stake \in [Markets -> Nat] /\ stake' = [stake EXCEPT ![m] = @ + cost] =>
                /\ stake' \in [Markets -> Nat]
                /\ SumFunctionOnSet(stake, Markets) \in Nat
                /\ SumFunctionOnSet(stake', Markets) = SumFunctionOnSet(stake, Markets) + cost
<1>1. SUFFICES ASSUME stake \in [Markets -> Nat], stake' = [stake EXCEPT ![m] = @ + cost]
               PROVE  /\ stake' \in [Markets -> Nat]
                      /\ SumFunctionOnSet(stake, Markets) \in Nat
                      /\ SumFunctionOnSet(stake', Markets)
                            = SumFunctionOnSet(stake, Markets) + cost
  OBVIOUS
<1> DEFINE after == stake[m] + cost
<1>2. after \in Nat /\ stake[m] \in Nat /\ stake' = [stake EXCEPT ![m] = after]
  BY <1>1
<1>3. /\ stake' \in [Markets -> Nat]
      /\ SumFunctionOnSet(stake, Markets) \in Nat
      /\ SumFunctionOnSet(stake', Markets)
            = SumFunctionOnSet(stake, Markets) - stake[m] + after
  <2> HIDE DEF after
  <2> QED
    BY <1>1, <1>2, StakeChanges
<1> QED
  BY <1>2, <1>3

\* A market that goes to another arb changes the reservations by the difference.
LEMMA PendingChanges ==
    ASSUME NEW m \in Markets, NEW r \in [size : Nat, reserved : Nat, age : Nat]
    PROVE  Typed /\ pending' = [pending EXCEPT ![m] = r] =>
                /\ pending' \in [Markets -> [size : Nat, reserved : Nat, age : Nat]]
                /\ SumFunctionOnSet(Reserved', Markets)
                    = SumFunctionOnSet(Reserved, Markets) - pending[m].reserved + r.reserved
<1>1. SUFFICES ASSUME Typed, pending' = [pending EXCEPT ![m] = r]
               PROVE  /\ pending' \in [Markets -> [size : Nat, reserved : Nat, age : Nat]]
                      /\ SumFunctionOnSet(Reserved', Markets)
                            = SumFunctionOnSet(Reserved, Markets) - pending[m].reserved
                                + r.reserved
  OBVIOUS
<1>2. pending' \in [Markets -> [size : Nat, reserved : Nat, age : Nat]]
  BY <1>1 DEF Typed
<1>3. /\ \A y \in Markets : Reserved[y] \in Int /\ Reserved'[y] \in Int
      /\ \A y \in Markets \ {m} : Reserved'[y] = Reserved[y]
      /\ Reserved'[m] = r.reserved /\ Reserved[m] = pending[m].reserved
  BY <1>1, <1>2 DEF Typed, Reserved
<1>4. IsFiniteSet(Markets)
  BY ArbAssumption
<1>5. SumFunctionOnSet(Reserved', Markets)
        = SumFunctionOnSet(Reserved, Markets) - Reserved[m] + Reserved'[m]
  BY <1>3, <1>4, SumUpdate
<1> QED
  BY <1>2, <1>3, <1>5

\* A step that leaves the pending orders alone and lowers no exposure keeps them covered.
LEMMA ReservationsKept ==
    ASSUME ReservationsCovered, Typed, pending' = pending, exposure' \in Nat,
           exposure' >= exposure
    PROVE  ReservationsCovered'
<1>1. Reserved' = Reserved
  BY DEF Reserved
<1>2. SumFunctionOnSet(Reserved, Markets) \in Nat
  BY ReservedType
<1> QED
  BY <1>1, <1>2 DEF ReservationsCovered, Typed

\* A step that touches no pending arb, holding or unwind keeps at most one unwind of a leg, covered by what is held.
LEMMA UnwindsKept ==
    ASSUME OneUnwind, UNCHANGED <<pending, held, unwinds, stopped>>
    PROVE  OneUnwind'
  BY DEF OneUnwind, Expired

\* A step that sends nothing cannot send a losing pair or a crossing quote.
LEMMA NothingSentPays == sent' = NothingSent => PairsPayTheirEdge' /\ MakersNeverCross'
  BY DEF PairsPayTheirEdge, MakersNeverCross

-----------------------------------------------------------------------------
(* The steps *)

\* Math arbitrage's answer to a book keeps the invariant.
LEMMA MathStep ==
    ASSUME NEW m \in Markets, NEW yes \in Books, NEW no \in Books, NEW cash \in CashLevels
    PROVE  IInv /\ MathOnBookUpdate(m, yes, no, cash) => IInv'
<1>1. SUFFICES ASSUME IInv, MathOnBookUpdate(m, yes, no, cash) PROVE IInv'
  OBVIOUS
<1> DEFINE y == RoundUpToTick(yes.ask)
           n == RoundUpToTick(no.ask)
           size == ArbSize(MinDepth(yes, no), y + n, cash)
           urgency == IF arb = "math_gtc" THEN "Passive" ELSE "Immediate"
<1>2. /\ TwoSided(yes) /\ TwoSided(no) /\ QuickCheck(yes, no) /\ KeepsEdge(yes, no)
      /\ WithinExposure((y + n) * size)
      /\ Spend(m, (y + n) * size)
      /\ Submit(m, LegOrders(y, n, size, urgency), 0)
      /\ arb \in {"math", "math_gtc"} /\ UNCHANGED <<arb, pending, held, unwinds, stopped>>
  BY <1>1 DEF MathOnBookUpdate, CheckMathArb
<1>3. Typed /\ ExposureCounts /\ ReservationsCovered /\ OneUnwind
  BY <1>1 DEF IInv
<1>4. exposure \in Nat /\ stake \in [Markets -> Nat] /\ MaxExposure \in Nat /\ cash \in Nat
  BY <1>3, ArbAssumption DEF Typed
<1>5. yes.ask \in Nat \ {0} /\ no.ask \in Nat \ {0}
  BY <1>2, BooksAssumption DEF TwoSided
<1>6. y \in Nat /\ y >= yes.ask /\ OnTick(y) /\ n \in Nat /\ n >= no.ask /\ OnTick(n)
  BY <1>5, RoundedUp
<1>7. Dollar - (y + n) >= MinEdge
  <2>1. CASE y + n = yes.ask + no.ask
    BY <1>2, <1>5, <2>1 DEF QuickCheck
  <2>2. CASE y + n # yes.ask + no.ask
    BY <1>2, <2>2 DEF KeepsEdge
  <2> QED
    BY <2>1, <2>2
<1> HIDE DEF y, n
<1>8. y + n \in Nat \ {0}
  BY <1>5, <1>6
<1>9. size \in Nat
  BY <1>4, <1>8, DepthType, SizeType
<1>10. urgency \in {"Immediate", "Passive"}
  OBVIOUS
<1> HIDE DEF size, urgency
<1> DEFINE cost == (y + n) * size
<1>11. /\ stake' = [stake EXCEPT ![m] = @ + cost] /\ cost \in Nat
       /\ resting' \in [Markets -> [Legs -> Nat]] /\ sent' = [cost |-> y + n, margin |-> 0]
  BY <1>2, <1>3, <1>6, <1>9, <1>10, SubmitCounts
<1>12. exposure' = exposure + cost /\ exposure + cost <= MaxExposure
  BY <1>2 DEF Spend, WithinExposure
<1> HIDE DEF cost
<1>13. /\ stake' \in [Markets -> Nat]
       /\ SumFunctionOnSet(stake, Markets) \in Nat
       /\ SumFunctionOnSet(stake', Markets) = SumFunctionOnSet(stake, Markets) + cost
  BY <1>4, <1>11, StakeGrows
<1>14. Typed'
  BY <1>2, <1>3, <1>4, <1>11, <1>12, <1>13 DEF Typed
<1>15. ExposureCounts'
  BY <1>2, <1>3, <1>4, <1>11, <1>12, <1>13 DEF ExposureCounts
<1>16. ReservationsCovered'
  BY <1>2, <1>3, <1>4, <1>11, <1>12, ReservationsKept
<1>17. OneUnwind'
  BY <1>2, <1>3, UnwindsKept
<1>18. PairsPayTheirEdge' /\ MakersNeverCross'
  BY <1>2, <1>7, <1>11 DEF PairsPayTheirEdge, MakersNeverCross
<1> QED
  BY <1>14, <1>15, <1>16, <1>17, <1>18 DEF IInv

\* Temporal arbitrage's answer to a book keeps the invariant.
LEMMA TemporalStep ==
    ASSUME NEW m \in Markets, NEW yes \in Books, NEW no \in Books, NEW change, NEW fresh
    PROVE  IInv /\ TemporalOnBookUpdate(m, yes, no, change, fresh) => IInv'
<1>1. SUFFICES ASSUME IInv, TemporalOnBookUpdate(m, yes, no, change, fresh) PROVE IInv'
  OBVIOUS
<1> DEFINE ask == IF change > 0 THEN yes.ask ELSE no.ask
           cost == ask * TemporalSize(ask)
<1>2. /\ yes.ask > 0 /\ no.ask > 0
      /\ Spend(m, cost)
      /\ stake' = [stake EXCEPT ![m] = @ + cost]
      /\ arb = "temporal" /\ sent' = NothingSent
      /\ UNCHANGED <<arb, pending, resting, held, unwinds, stopped>>
  BY <1>1 DEF TemporalOnBookUpdate, CheckOpportunity
<1>3. Typed /\ ExposureCounts /\ ReservationsCovered /\ OneUnwind
  BY <1>1 DEF IInv
<1>4. exposure \in Nat /\ stake \in [Markets -> Nat] /\ MaxExposure \in Nat
  BY <1>3, ArbAssumption DEF Typed
<1>5. ask \in Nat \ {0}
  BY <1>2, BooksAssumption
<1> HIDE DEF ask
<1>6. exposure <= MaxExposure
  BY <1>2, <1>3 DEF ExposureCounts
<1>7. cost \in Nat /\ exposure + cost <= MaxExposure
  BY <1>4, <1>5, <1>6, TemporalFits
<1>8. exposure' = exposure + cost
  BY <1>2 DEF Spend
<1> HIDE DEF cost
<1>9. /\ stake' \in [Markets -> Nat]
      /\ SumFunctionOnSet(stake, Markets) \in Nat
      /\ SumFunctionOnSet(stake', Markets) = SumFunctionOnSet(stake, Markets) + cost
  BY <1>2, <1>4, <1>7, StakeGrows
<1>10. Typed'
  BY <1>2, <1>3, <1>4, <1>7, <1>8, <1>9 DEF Typed
<1>11. ExposureCounts'
  BY <1>2, <1>3, <1>4, <1>7, <1>8, <1>9 DEF ExposureCounts
<1>12. ReservationsCovered'
  BY <1>2, <1>3, <1>4, <1>7, <1>8, ReservationsKept
<1>13. OneUnwind'
  BY <1>2, <1>3, UnwindsKept
<1> QED
  BY <1>2, <1>10, <1>11, <1>12, <1>13, NothingSentPays DEF IInv

\* The market maker's answer to a book keeps the invariant.
LEMMA MakerStep ==
    ASSUME NEW m \in Markets, NEW yes \in Books, NEW no \in Books, NEW cash \in CashLevels
    PROVE  IInv /\ MakerOnBookUpdate(m, yes, no, cash) => IInv'
<1>1. SUFFICES ASSUME IInv, MakerOnBookUpdate(m, yes, no, cash) PROVE IInv'
  OBVIOUS
<1> DEFINE y == MakerPrice(yes)
           n == MakerPrice(no)
           size == ArbSize(MinDepth(yes, no), y + n, cash)
           pair == LegOrders(y, n, size, "Passive")
           margin == Min({yes.ask - pair["yes"].price, no.ask - pair["no"].price})
           cost == (y + n) * size
<1>2. /\ TwoSided(yes) /\ TwoSided(no) /\ y + n > 0 /\ Dollar - (y + n) >= MinEdge
      /\ Post(m, size, cost)
      /\ Submit(m, pair, margin)
      /\ arb = "maker" /\ pending[m] = NoArb /\ UNCHANGED <<arb, held, unwinds, stopped>>
  BY <1>1 DEF MakerOnBookUpdate, CheckMakerArb
<1>3. Typed /\ ReservationsCovered /\ OneUnwind
  BY <1>1 DEF IInv
<1>4. exposure \in Nat /\ stake \in [Markets -> Nat] /\ cash \in Nat /\ Ttl \in Nat \ {0}
  BY <1>3, ArbAssumption DEF Typed
<1>5. /\ y \in Nat /\ y < yes.ask /\ OnTick(y) /\ n \in Nat /\ n < no.ask /\ OnTick(n)
      /\ yes.ask \in Nat /\ no.ask \in Nat
  BY <1>2, MakerPriceBelowAsk, BooksAssumption
<1> HIDE DEF y, n
<1>6. y + n \in Nat \ {0}
  BY <1>2, <1>5
<1>7. size \in Nat
  BY <1>4, <1>6, DepthType, SizeType
<1> HIDE DEF size
<1>8. pair["yes"].price = y /\ pair["no"].price = n
  BY <1>5, PairKeepsPrices
<1>9. margin > 0
  BY <1>5, <1>8, MinOfTwo
<1> HIDE DEF margin
<1>10. /\ stake' = [stake EXCEPT ![m] = @ + cost] /\ cost \in Nat
       /\ resting' \in [Markets -> [Legs -> Nat]]
       /\ sent' = [cost |-> y + n, margin |-> margin]
  BY <1>2, <1>3, <1>5, <1>7, SubmitCounts
<1> DEFINE r == [size |-> size, reserved |-> cost, age |-> 0]
<1>11. exposure' = exposure + cost /\ pending' = [pending EXCEPT ![m] = r]
  BY <1>2 DEF Post, Spend
<1> HIDE DEF cost
<1>12. r \in [size : Nat, reserved : Nat, age : Nat] /\ r.reserved = cost /\ r.age = 0
  BY <1>7, <1>10
<1> HIDE DEF r, pair
<1>13. /\ stake' \in [Markets -> Nat]
       /\ pending' \in [Markets -> [size : Nat, reserved : Nat, age : Nat]]
       /\ SumFunctionOnSet(Reserved', Markets)
            = SumFunctionOnSet(Reserved, Markets) - pending[m].reserved + cost
  <2>1. stake' \in [Markets -> Nat]
    BY <1>4, <1>10, StakeGrows
  <2>2. /\ pending' \in [Markets -> [size : Nat, reserved : Nat, age : Nat]]
        /\ SumFunctionOnSet(Reserved', Markets)
             = SumFunctionOnSet(Reserved, Markets) - pending[m].reserved + r.reserved
    BY <1>3, <1>11, <1>12, PendingChanges
  <2> QED
    BY <1>12, <2>1, <2>2
<1>14. Typed'
  BY <1>2, <1>3, <1>4, <1>10, <1>11, <1>13 DEF Typed
<1>15. ExposureCounts'
  BY <1>2 DEF ExposureCounts
<1>16. ReservationsCovered'
  <2>1. pending[m].reserved = 0 /\ SumFunctionOnSet(Reserved, Markets) \in Nat
    BY <1>2, <1>3, ReservedType DEF NoArb
  <2> QED
    BY <1>3, <1>4, <1>10, <1>11, <1>13, <2>1 DEF ReservationsCovered
<1>17. OneUnwind'
  <2>1. \A k \in Markets : k \in Expired' => k \in Expired
    BY <1>3, <1>4, <1>11, <1>12 DEF Expired, Typed
  <2>2. \A u \in unwinds : u.market \in Markets
    BY <1>3 DEF Typed
  <2> QED
    BY <1>2, <1>3, <2>1, <2>2 DEF OneUnwind
<1>18. PairsPayTheirEdge' /\ MakersNeverCross'
  BY <1>2, <1>9, <1>10 DEF PairsPayTheirEdge, MakersNeverCross
<1> QED
  BY <1>14, <1>15, <1>16, <1>17, <1>18 DEF IInv

\* A time-out gives back the share of the arbs that it forgets, and no more.
LEMMA TickStep ==
    ASSUME NEW bids \in BOOLEAN
    PROVE  IInv /\ MakerOnTick(bids) => IInv'
<1>1. SUFFICES ASSUME IInv, MakerOnTick(bids) PROVE IInv'
  OBVIOUS
<1> DEFINE naked == {n \in Expired \X Legs :
                        LegFilled(n[1], n[2]) /\ \A k \in Legs \ {n[2]} : ~LegFilled(n[1], k)}
           unfilled == {m \in Expired : \A l \in Legs : ~LegFilled(m, l)}
           new == IF bids THEN {SellOrder(n[1], n[2]) : n \in naked} ELSE {}
           back == SumFunctionOnSet(Reserved, unfilled)
           kept == Markets \ unfilled
<1>2. /\ arb = "maker" /\ ~stopped /\ unwinds' = unwinds \union new
      /\ exposure' = Max({0, exposure - back})
      /\ pending' = [m \in Markets |-> IF m \in Expired THEN NoArb ELSE pending[m]]
      /\ UNCHANGED <<arb, cooling, resting, held, stopped, stake>> /\ sent' = NothingSent
  BY <1>1 DEF MakerOnTick, Forget
<1>3. Typed /\ ReservationsCovered /\ OneUnwind
  BY <1>1 DEF IInv
<1>4. /\ exposure \in Nat /\ IsFiniteSet(Markets) /\ unfilled \in SUBSET Markets
      /\ Expired \subseteq Markets
  BY <1>3, ArbAssumption DEF Typed, Expired
<1>5. /\ pending' \in [Markets -> [size : Nat, reserved : Nat, age : Nat]]
      /\ \A m \in Expired : pending'[m] = NoArb
      /\ \A m \in Markets \ Expired : pending'[m] = pending[m]
  BY <1>2, <1>3, <1>4 DEF Typed, NoArb
<1>6. /\ \A m \in Markets : Reserved[m] \in Nat /\ Reserved'[m] \in Nat
      /\ \A m \in Expired : Reserved'[m] = 0
      /\ \A m \in Markets : Reserved'[m] <= Reserved[m]
  <2>1. \A m \in Markets : Reserved[m] = pending[m].reserved /\ Reserved'[m] = pending'[m].reserved
    BY DEF Reserved
  <2> QED
    BY <1>3, <1>4, <1>5, <2>1 DEF Typed, NoArb
<1>7. /\ SumFunctionOnSet(Reserved, Markets) = back + SumFunctionOnSet(Reserved, kept)
      /\ back \in Nat /\ SumFunctionOnSet(Reserved, kept) \in Nat
  <2>1. IsFiniteSet(unfilled) /\ IsFiniteSet(kept)
    BY <1>4, FS_Subset
  <2>2. \A m \in Markets : Reserved[m] \in Int
    BY <1>6
  <2>3. SumFunctionOnSet(Reserved, Markets) = back + SumFunctionOnSet(Reserved, kept)
    BY <1>4, <2>2, SumSplit
  <2>4. back \in Nat
    <3>1. \A m \in unfilled : Reserved[m] \in Nat
      BY <1>4, <1>6
    <3> HIDE DEF unfilled
    <3> QED
      BY <2>1, <3>1, SumOfNaturals
  <2>5. SumFunctionOnSet(Reserved, kept) \in Nat
    <3>1. \A m \in kept : Reserved[m] \in Nat
      BY <1>6
    <3> HIDE DEF kept
    <3> QED
      BY <2>1, <3>1, SumOfNaturals
  <2> QED
    BY <2>3, <2>4, <2>5
<1>8. /\ SumFunctionOnSet(Reserved', Markets) <= SumFunctionOnSet(Reserved, kept)
      /\ SumFunctionOnSet(Reserved', Markets) \in Nat
  <2>1. IsFiniteSet(unfilled) /\ IsFiniteSet(kept)
    BY <1>4, FS_Subset
  <2>2. \A m \in Markets : Reserved'[m] \in Int /\ Reserved[m] \in Int
    BY <1>6
  <2>3. SumFunctionOnSet(Reserved', Markets)
          = SumFunctionOnSet(Reserved', unfilled) + SumFunctionOnSet(Reserved', kept)
    BY <1>4, <2>2, SumSplit
  <2>4. SumFunctionOnSet(Reserved', unfilled) = 0
    <3>1. \A x \in unfilled : Reserved'[x] = 0
      BY <1>6
    <3> HIDE DEF unfilled
    <3> QED
      BY <2>1, <3>1, SumOfZeros
  <2>5. /\ SumFunctionOnSet(Reserved', kept) <= SumFunctionOnSet(Reserved, kept)
        /\ SumFunctionOnSet(Reserved', kept) \in Int
    <3>1. \A x \in kept : Reserved'[x] \in Int /\ Reserved[x] \in Int /\ Reserved'[x] <= Reserved[x]
      BY <1>6, <2>2
    <3> HIDE DEF kept
    <3> QED
      BY <2>1, <3>1, SumMonotone, SumType
  <2>6. SumFunctionOnSet(Reserved', Markets) \in Nat
    <3>1. \A x \in Markets : Reserved'[x] \in Nat
      BY <1>6
    <3> QED
      BY <1>4, <3>1, SumOfNaturals
  <2> HIDE DEF kept, unfilled
  <2> QED
    BY <1>7, <2>3, <2>4, <2>5, <2>6
<1> HIDE DEF back
<1>9. exposure' \in Nat /\ exposure' >= exposure - back
  BY <1>2, <1>4, <1>7, MaxOfTwo
<1>10. /\ new \subseteq [market : Markets, leg : Legs, size : Nat]
       /\ \A u \in new : u.market \in Expired /\ u.size = held[u.market][u.leg]
  BY <1>3, <1>4 DEF Typed, SellOrder
<1> HIDE DEF new
<1>11. Typed'
  BY <1>2, <1>3, <1>5, <1>9, <1>10 DEF Typed
<1>12. ExposureCounts'
  BY <1>2 DEF ExposureCounts
<1>13. ReservationsCovered'
  BY <1>3, <1>4, <1>7, <1>8, <1>9 DEF ReservationsCovered
<1>14. OneUnwind'
  <2>1. \A m \in Markets : m \notin Expired'
    BY <1>5 DEF Expired
  <2>2. \A u \in unwinds' : u \in unwinds \/ u \in new
    BY <1>2
  <2>3. \A u \in unwinds' : u.market \in Markets
    BY <1>11 DEF Typed
  <2>4. \A u \in unwinds : u.market \notin Expired /\ u.size <= held[u.market][u.leg]
    BY <1>2, <1>3 DEF OneUnwind
  <2>5. \A u \in unwinds' : u.market \notin Expired' /\ u.size <= held'[u.market][u.leg]
    <3>1. \A u \in new : held[u.market][u.leg] \in Nat
      BY <1>3, <1>10 DEF Typed
    <3> QED
      BY <1>2, <1>10, <2>1, <2>2, <2>3, <2>4, <3>1
  <2>6. ASSUME NEW u \in unwinds', NEW v \in unwinds', u.market = v.market, u.leg = v.leg
        PROVE  u = v
    <3>1. CASE u \in unwinds /\ v \in unwinds
      BY <1>2, <1>3, <2>6, <3>1 DEF OneUnwind
    <3>2. CASE u \in new /\ v \in new
      BY <1>10, <2>6, <3>2
    <3>3. ~(u \in unwinds /\ v \in new) /\ ~(u \in new /\ v \in unwinds)
      BY <1>10, <2>4, <2>6
    <3> QED
      BY <2>2, <3>1, <3>2, <3>3
  <2> QED
    BY <2>5, <2>6 DEF OneUnwind
<1> QED
  BY <1>2, <1>11, <1>12, <1>13, <1>14, NothingSentPays DEF IInv

\* The market maker's cleaning up at shutdown keeps the invariant.
LEMMA ShutdownStep ==
    ASSUME NEW bids \in BOOLEAN
    PROVE  IInv /\ MakerOnShutdown(bids) => IInv'
<1>1. SUFFICES ASSUME IInv, MakerOnShutdown(bids) PROVE IInv'
  OBVIOUS
<1>2. Typed /\ ExposureCounts /\ ReservationsCovered
  BY <1>1 DEF IInv
<1>3. /\ UNCHANGED <<arb, exposure, cooling, pending, resting, held, stake>>
      /\ sent' = NothingSent /\ stopped' = TRUE
  BY <1>1 DEF MakerOnShutdown
<1>4. unwinds' \subseteq [market : Markets, leg : Legs, size : Nat]
  <2>1. \A n \in Markets \X Legs : SellOrder(n[1], n[2]) \in [market : Markets, leg : Legs, size : Nat]
    BY <1>2 DEF Typed, SellOrder
  <2> QED
    BY <1>1, <1>2, <2>1 DEF Typed, MakerOnShutdown
<1>5. Typed'
  BY <1>2, <1>3, <1>4 DEF Typed
<1>6. ExposureCounts' /\ OneUnwind'
  BY <1>2, <1>3 DEF ExposureCounts, OneUnwind
<1>7. ReservationsCovered'
  BY <1>2, <1>3, ReservationsKept DEF Typed
<1> QED
  BY <1>3, <1>5, <1>6, <1>7, NothingSentPays DEF IInv

\* What is changed neither in the arbs nor in the stakes changes no sum.
LEMMA SumsKept ==
    ASSUME Typed, ExposureCounts, ReservationsCovered,
           UNCHANGED <<arb, exposure, pending, stake>>
    PROVE  ExposureCounts' /\ ReservationsCovered'
  BY ReservationsKept DEF ExposureCounts, Typed

\* A trade of a resting quote keeps the invariant.
LEMMA FillStep ==
    ASSUME NEW m \in Markets, NEW l \in Legs
    PROVE  IInv /\ RestingFill(m, l) => IInv'
<1>1. SUFFICES ASSUME IInv, RestingFill(m, l) PROVE IInv'
  OBVIOUS
<1>2. PICK n \in 1..resting[m][l] :
        /\ resting' = [resting EXCEPT ![m][l] = @ - n]
        /\ held' = [held EXCEPT ![m][l] = @ + n]
        /\ UNCHANGED <<arb, exposure, cooling, pending, unwinds, stopped, stake>>
        /\ sent' = NothingSent
  BY <1>1 DEF RestingFill
<1>3. Typed /\ ExposureCounts /\ ReservationsCovered /\ OneUnwind
  BY <1>1 DEF IInv
<1>4. /\ held \in [Markets -> [Legs -> Nat]] /\ resting \in [Markets -> [Legs -> Nat]]
      /\ n \in Nat /\ n <= resting[m][l]
  BY <1>2, <1>3 DEF Typed
<1>5. /\ held' \in [Markets -> [Legs -> Nat]] /\ resting' \in [Markets -> [Legs -> Nat]]
      /\ \A k \in Markets, j \in Legs : held'[k][j] >= held[k][j]
  <2>1. held[m][l] + n \in Nat /\ resting[m][l] - n \in Nat
    BY <1>4
  <2> QED
    BY <1>2, <1>4, <2>1
<1>6. Typed'
  BY <1>2, <1>3, <1>5 DEF Typed
<1>7. OneUnwind'
  <2>1. \A u \in unwinds : u.market \in Markets /\ u.leg \in Legs /\ u.size \in Nat
    BY <1>3 DEF Typed
  <2>2. Expired' = Expired
    BY <1>2 DEF Expired
  <2>3. \A u \in unwinds : u.size <= held[u.market][u.leg] => u.size <= held'[u.market][u.leg]
    BY <1>4, <1>5, <2>1
  <2> QED
    BY <1>2, <1>3, <2>2, <2>3 DEF OneUnwind
<1> QED
  BY <1>2, <1>3, <1>6, <1>7, SumsKept, NothingSentPays DEF IInv

\* The answer to an unwind, filled or not, keeps the invariant.
LEMMA UnwindStep ==
    ASSUME NEW filled \in BOOLEAN
    PROVE  \A u \in unwinds : IInv /\ UnwindAnswered(u, filled) => IInv'
<1>1. SUFFICES ASSUME NEW u \in unwinds, IInv, UnwindAnswered(u, filled) PROVE IInv'
  OBVIOUS
<1>2. /\ filled => u.size <= held[u.market][u.leg]
      /\ unwinds' = unwinds \ {u}
      /\ held' = IF filled THEN [held EXCEPT ![u.market][u.leg] = @ - u.size] ELSE held
      /\ UNCHANGED <<arb, exposure, cooling, pending, resting, stopped, stake>>
      /\ sent' = NothingSent
  BY <1>1 DEF UnwindAnswered
<1>3. Typed /\ ExposureCounts /\ ReservationsCovered /\ OneUnwind
  BY <1>1 DEF IInv
<1>4. /\ held \in [Markets -> [Legs -> Nat]]
      /\ \A v \in unwinds : v.market \in Markets /\ v.leg \in Legs /\ v.size \in Nat
  BY <1>3 DEF Typed
<1>5. held' \in [Markets -> [Legs -> Nat]]
  <2>1. filled => held[u.market][u.leg] - u.size \in Nat
    BY <1>1, <1>2, <1>4
  <2> QED
    BY <1>1, <1>2, <1>4, <2>1
<1>6. Typed'
  BY <1>2, <1>3, <1>5 DEF Typed
<1>7. OneUnwind'
  <2>1. SUFFICES ASSUME ~stopped PROVE OneUnwind'
    BY <1>2 DEF OneUnwind
  <2>2. \A v \in unwinds' : v \in unwinds /\ ~(v.market = u.market /\ v.leg = u.leg)
    BY <1>1, <1>2, <1>3, <2>1 DEF OneUnwind
  <2>3. \A v \in unwinds' : held'[v.market][v.leg] = held[v.market][v.leg]
    BY <1>1, <1>2, <1>4, <2>2
  <2>4. Expired' = Expired
    BY <1>2 DEF Expired
  <2> QED
    BY <1>3, <2>1, <2>2, <2>3, <2>4 DEF OneUnwind
<1> QED
  BY <1>2, <1>3, <1>6, <1>7, SumsKept, NothingSentPays DEF IInv

\* The stake of a market is gone, because its orders were killed or it is over.
LEMMA StakeGone ==
    ASSUME NEW m \in Markets
    PROVE  Typed /\ ExposureCounts /\ UNCHANGED <<arb, exposure>> /\ stake' = [stake EXCEPT ![m] = 0]
                => stake' \in [Markets -> Nat] /\ ExposureCounts'
<1>1. SUFFICES ASSUME Typed, ExposureCounts, UNCHANGED <<arb, exposure>>,
                      stake' = [stake EXCEPT ![m] = 0]
               PROVE  stake' \in [Markets -> Nat] /\ ExposureCounts'
  OBVIOUS
<1>2. stake \in [Markets -> Nat] /\ stake[m] \in Nat /\ exposure \in Nat
  BY <1>1 DEF Typed
<1>3. /\ stake' \in [Markets -> Nat]
      /\ SumFunctionOnSet(stake, Markets) \in Nat
      /\ SumFunctionOnSet(stake', Markets) = SumFunctionOnSet(stake, Markets) - stake[m] + 0
  BY <1>1, <1>2, StakeChanges
<1> QED
  BY <1>1, <1>2, <1>3 DEF ExposureCounts

\* The exchange killing the orders of a trade keeps the invariant.
LEMMA KilledStep ==
    ASSUME NEW m \in Markets
    PROVE  IInv /\ Killed(m) => IInv'
<1>1. SUFFICES ASSUME IInv, Killed(m) PROVE IInv'
  OBVIOUS
<1>2. /\ stake' = [stake EXCEPT ![m] = 0] /\ sent' = NothingSent
      /\ UNCHANGED <<arb, exposure, cooling, pending, resting, held, unwinds, stopped>>
  BY <1>1 DEF Killed
<1>3. Typed /\ ExposureCounts /\ ReservationsCovered /\ OneUnwind
  BY <1>1 DEF IInv
<1>4. stake' \in [Markets -> Nat] /\ ExposureCounts'
  BY <1>2, <1>3, StakeGone
<1>5. Typed'
  BY <1>2, <1>3, <1>4 DEF Typed
<1>6. ReservationsCovered'
  BY <1>2, <1>3, ReservationsKept DEF Typed
<1> QED
  BY <1>2, <1>3, <1>4, <1>5, <1>6, UnwindsKept, NothingSentPays DEF IInv

\* The end of a market keeps the invariant.
LEMMA EndsStep ==
    ASSUME NEW m \in Markets
    PROVE  IInv /\ MarketEnds(m) => IInv'
<1>1. SUFFICES ASSUME IInv, MarketEnds(m) PROVE IInv'
  OBVIOUS
<1>2. /\ \A u \in unwinds : u.market # m
      /\ resting' = [resting EXCEPT ![m] = [l \in Legs |-> 0]]
      /\ held' = [held EXCEPT ![m] = [l \in Legs |-> 0]]
      /\ stake' = [stake EXCEPT ![m] = 0] /\ sent' = NothingSent
      /\ UNCHANGED <<arb, exposure, cooling, pending, unwinds, stopped>>
  BY <1>1 DEF MarketEnds
<1>3. Typed /\ ExposureCounts /\ ReservationsCovered /\ OneUnwind
  BY <1>1 DEF IInv
<1>4. stake' \in [Markets -> Nat] /\ ExposureCounts'
  BY <1>2, <1>3, StakeGone
<1>5. Typed'
  <2>1. held' \in [Markets -> [Legs -> Nat]] /\ resting' \in [Markets -> [Legs -> Nat]]
    BY <1>2, <1>3 DEF Typed
  <2> QED
    BY <1>2, <1>3, <1>4, <2>1 DEF Typed
<1>6. ReservationsCovered'
  BY <1>2, <1>3, ReservationsKept DEF Typed
<1>7. OneUnwind'
  <2>1. \A u \in unwinds : held'[u.market] = held[u.market]
    BY <1>2, <1>3 DEF Typed
  <2>2. Expired' = Expired
    BY <1>2 DEF Expired
  <2> QED
    BY <1>2, <1>3, <2>1, <2>2 DEF OneUnwind
<1> QED
  BY <1>2, <1>4, <1>5, <1>6, <1>7, NothingSentPays DEF IInv

\* The passing of time keeps the invariant.
LEMMA ElapseStep == IInv /\ ArbElapse => IInv'
<1>1. SUFFICES ASSUME IInv, ArbElapse PROVE IInv'
  OBVIOUS
<1>2. /\ unwinds = {} /\ sent' = NothingSent
      /\ pending' = [m \in Markets |->
            IF pending[m] = NoArb THEN NoArb ELSE [pending[m] EXCEPT !.age = @ + 1]]
      /\ UNCHANGED <<arb, exposure, resting, held, unwinds, stopped, stake>>
  BY <1>1 DEF ArbElapse
<1>3. Typed /\ ExposureCounts /\ ReservationsCovered
  BY <1>1 DEF IInv
<1>4. /\ pending' \in [Markets -> [size : Nat, reserved : Nat, age : Nat]]
      /\ \A m \in Markets : pending'[m].reserved = pending[m].reserved
  <2>1. ASSUME NEW m \in Markets
        PROVE  /\ pending'[m] \in [size : Nat, reserved : Nat, age : Nat]
               /\ pending'[m].reserved = pending[m].reserved
    <3>1. pending[m] \in [size : Nat, reserved : Nat, age : Nat]
      BY <1>3 DEF Typed
    <3>2. CASE pending[m] = NoArb
      BY <1>2, <3>1, <3>2
    <3>3. CASE pending[m] # NoArb
      <4>1. pending'[m] = [pending[m] EXCEPT !.age = @ + 1]
        BY <1>2, <3>3
      <4> QED
        BY <3>1, <4>1
    <3> QED
      BY <3>2, <3>3
  <2> QED
    BY <1>2, <2>1
<1>5. Reserved' = Reserved
  BY <1>4 DEF Reserved
<1>6. Typed'
  BY <1>2, <1>3, <1>4 DEF Typed
<1>7. ExposureCounts' /\ ReservationsCovered' /\ OneUnwind'
  BY <1>2, <1>3, <1>5 DEF ExposureCounts, ReservationsCovered, OneUnwind
<1> QED
  BY <1>2, <1>6, <1>7, NothingSentPays DEF IInv

-----------------------------------------------------------------------------
(* The theorems *)

\* The strategies start inside the invariant.
LEMMA InitEstablishesIInv == ArbInit => IInv
<1>1. SUFFICES ASSUME ArbInit PROVE IInv
  OBVIOUS
<1>2. MaxExposure \in Nat /\ IsFiniteSet(Markets)
  BY ArbAssumption
<1>3. Typed
  BY <1>1 DEF ArbInit, Typed, NoArb
<1>4. SumFunctionOnSet(stake, Markets) = 0 /\ SumFunctionOnSet(Reserved, Markets) = 0
  <2>1. \A x \in Markets : stake[x] = 0 /\ Reserved[x] = 0
    BY <1>1 DEF ArbInit, Reserved, NoArb
  <2> QED
    BY <1>2, <2>1, SumOfZeros
<1>5. ExposureCounts /\ ReservationsCovered
  BY <1>1, <1>2, <1>4 DEF ArbInit, ExposureCounts, ReservationsCovered
<1>6. OneUnwind /\ PairsPayTheirEdge /\ MakersNeverCross
  BY <1>1 DEF ArbInit, OneUnwind, PairsPayTheirEdge, MakersNeverCross
<1> QED
  BY <1>3, <1>5, <1>6 DEF IInv

\* Every reachable state of the strategies satisfies the inductive invariant.
THEOREM ArbIInvHolds == ArbSpec => []IInv
<1>1. IInv /\ ArbNext => IInv'
  BY MathStep, TemporalStep, MakerStep, TickStep, ShutdownStep, FillStep, UnwindStep,
     KilledStep, EndsStep, ElapseStep DEF ArbNext
<1>2. IInv /\ UNCHANGED arbVars => IInv'
  <2> SUFFICES ASSUME IInv, UNCHANGED arbVars PROVE IInv'
    OBVIOUS
  <2>1. /\ UNCHANGED <<arb, exposure, pending, resting, held, unwinds, stopped>>
        /\ UNCHANGED <<stake, sent>>
    BY DEF arbVars
  <2>2. Typed' /\ PairsPayTheirEdge' /\ MakersNeverCross'
    BY <2>1 DEF IInv, Typed, PairsPayTheirEdge, MakersNeverCross
  <2> QED
    BY <2>1, <2>2, SumsKept, UnwindsKept DEF IInv
<1> QED
  BY <1>1, <1>2, InitEstablishesIInv, PTL DEF ArbSpec

\* What the strategies that never unwind have at stake, in all markets together, stays
\* within "maximum total exposure", whatever is killed or never reported.
THEOREM StakeAlwaysWithinLimit == ArbSpec => []StakeWithinLimit
<1>1. IInv => StakeWithinLimit
  <2>1. SUFFICES ASSUME IInv, arb # "maker"
                 PROVE  SumFunctionOnSet(stake, Markets) <= MaxExposure
    BY DEF StakeWithinLimit
  <2>2. /\ \A x \in Markets : stake[x] \in Int
        /\ IsFiniteSet(Markets) /\ MaxExposure \in Nat /\ exposure \in Nat
    BY <2>1, ArbAssumption DEF IInv, Typed
  <2>3. SumFunctionOnSet(stake, Markets) \in Int
    BY <2>2, SumType
  <2> QED
    BY <2>1, <2>2, <2>3 DEF IInv, ExposureCounts
<1> QED
  BY <1>1, ArbIInvHolds, PTL

\* The maker's exposure covers all arbs that wait for fills, though every time-out
\* gives back what it takes to be its own share.
THEOREM ReservationsAlwaysCovered == ArbSpec => []ReservationsCovered
<1>1. IInv => ReservationsCovered
  BY DEF IInv
<1> QED
  BY <1>1, ArbIInvHolds, PTL

\* No leg is sold twice by unwinds in flight at the same time.
THEOREM UnwindsAlwaysCovered == ArbSpec => []UnwindsCovered
<1>1. IInv => UnwindsCovered
  <2>1. SUFFICES ASSUME IInv, ~stopped, NEW m \in Markets, NEW l \in Legs
                 PROVE  SumFunctionOnSet([u \in unwinds |-> u.size],
                            {u \in unwinds : u.market = m /\ u.leg = l}) <= held[m][l]
    BY DEF UnwindsCovered
  <2> DEFINE W == {u \in unwinds : u.market = m /\ u.leg = l}
             f == [u \in unwinds |-> u.size]
  <2>2. held[m][l] \in Nat /\ \A u \in unwinds : u.size \in Nat
    BY <2>1 DEF IInv, Typed
  <2>3. CASE W = {}
    <3>1. SumFunctionOnSet(f, W) = 0
      BY <2>3, SumEmpty
    <3> QED
      BY <2>2, <3>1
  <2>4. CASE W # {}
    <3>1. PICK u \in unwinds : u \in W
      BY <2>4
    <3>2. W = {u} /\ u.size <= held[m][l]
      BY <2>1, <3>1 DEF IInv, OneUnwind
    <3>3. f[u] = u.size /\ f[u] \in Int
      BY <2>2, <3>1
    <3> HIDE DEF f
    <3>4. SumFunctionOnSet(f, {u}) = f[u]
      BY <3>3, SumOfOne
    <3>5. SumFunctionOnSet(f, W) = u.size
      BY <3>2, <3>3, <3>4
    <3> QED
      BY <3>2, <3>5 DEF f
  <2> QED
    BY <2>3, <2>4
<1> QED
  BY <1>1, ArbIInvHolds, PTL

\* The pair that is sent leaves the minimal edge at the prices in its orders, after the
\* strategy's rounding and the policy's.
THEOREM PairsAlwaysPay == ArbSpec => []PairsPayTheirEdge
<1>1. IInv => PairsPayTheirEdge
  BY DEF IInv
<1> QED
  BY <1>1, ArbIInvHolds, PTL

\* With the policy's offset and rounding the maker's orders stay below the asks.
THEOREM MakersNeverEverCross == ArbSpec => []MakersNeverCross
<1>1. IInv => MakersNeverCross
  BY DEF IInv
<1> QED
  BY <1>1, ArbIInvHolds, PTL
=============================================================================
