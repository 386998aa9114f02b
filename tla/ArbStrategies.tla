---------------------------- MODULE ArbStrategies ----------------------------
(***************************************************************************)
(* The strategies that buy at a discount from a dollar:                    *)
(* strategy/{arbitrage,maker_rebate_arb,temporal_arb}.rs, one of them on   *)
(* several markets ("math_gtc": arbitrage.rs with use_maker_execution).    *)
(* What each remembers is its exposure, a cooldown per market and, for the *)
(* maker, the arbs that wait for their fills.  The policy makes orders of  *)
(* what they ask for.                                                      *)
(*                                                                         *)
(* Books are inputs of the event that looks at them.  Sizes are whole      *)
(* shares, the last decimal of the code.  Fills reach the ledger but not   *)
(* the strategies (no one calls on_fill), so exposure is given back by the *)
(* maker's time-out alone.                                                 *)
(*                                                                         *)
(* Ghosts: `stake` is the cost of what a market's orders bought or may     *)
(* still buy, `sent` the last pair that was sent with the books seen.      *)
(***************************************************************************)
EXTENDS Edge, Policy

CONSTANTS
    Arbs,               \* the strategies considered
    Markets,
    Books,              \* the tops of book considered
    FeeBps,             \* fee_rate_bps of each market
    TickSize,           \* cents
    MaxPosition, MinPosition,   \* shares
    MaxBet, MaxExposure,        \* cents, both legs
    MinNotional,        \* EXCHANGE_MIN_ORDER_USDC, cents
    CashLevels,         \* available_cash(), cents
    ArbCooldown, Ttl,   \* in units of time
    Changes,            \* moves of the external price considered, bps
    ThresholdMove, Sensitivity,
    MaxStake            \* bound: a maker posts no more in a market beyond this stake

ASSUME ArbAssumption ==
    /\ Arbs \subseteq {"math", "math_gtc", "maker", "temporal"}
    /\ FeeBps \in [Markets -> Nat] /\ TickSize \in Nat \ {0}
    /\ {MaxPosition, MinPosition, ArbCooldown, Ttl, Sensitivity} \subseteq Nat \ {0}
    /\ {MaxBet, MaxExposure} \subseteq Nat /\ CashLevels \subseteq Nat
    /\ IsFiniteSet(Markets)

\* The exchange matches orders that cross.
ASSUME BooksAssumption ==
    /\ Books \subseteq [bid : Nat, ask : Nat, depth : Nat]
    /\ \A b \in Books : TwoSided(b) => b.bid < b.ask

\* Half a cent by default (config.rs), and the code takes a tick to be a cent.
ASSUME OffsetAssumption == PriceOffset < TickSize

Legs == {"yes", "no"}

VARIABLES
    arb,                \* the configuration
    exposure,           \* current_exposure
    cooling,            \* time until a market's cooldown is over
    pending,            \* pending_arbs; size 0: none
    resting,            \* at the exchange: what is left of the GTC orders of a leg
    held,               \* ledger: the position of each leg
    unwinds,            \* FOK sell orders in flight
    stopped,            \* on_shutdown() has run
    stake, sent         \* ghosts

arbVars == <<arb, exposure, cooling, pending, resting, held, unwinds, stopped,
             stake, sent>>

NoArb == [size |-> 0, reserved |-> 0, age |-> 0]
NothingSent == [cost |-> 0, margin |-> 0]

ArbInit ==
    /\ arb \in Arbs
    /\ exposure = 0
    /\ cooling = [m \in Markets |-> 0]
    /\ pending = [m \in Markets |-> NoArb]
    /\ resting = [m \in Markets |-> [l \in Legs |-> 0]]
    /\ held = [m \in Markets |-> [l \in Legs |-> 0]]
    /\ unwinds = {} /\ stopped = FALSE
    /\ stake = [m \in Markets |-> 0] /\ sent = NothingSent

CeilDiv(a, b) == (a + b - 1) \div b

RoundUpToTick(p) == CeilDiv(p, TickSize) * TickSize

\* The two orders that the policy makes of a pair of intents to buy.
LegOrders(yes, no, size, urgency) == [l \in Legs |->
    ToOrderParams(IntentRef("Buy", IF l = "yes" THEN yes ELSE no, size, urgency, TickSize))]

\* The limits on a pair that costs `combined` a share, shares rounded down.
\* (Half of the exposure that is left, in dollars, is taken as a number of shares.)
ArbSize(most, combined, cash) ==
    Max({0, Min({most, MaxPosition, (MaxExposure - exposure) \div (2 * Dollar),
                 cash \div combined, MaxBet \div combined})})

\* Each leg must meet the exchange's minimum, the cheaper one needs most shares.
SmallestSize(cheaper) ==
    Max({MinPosition, IF cheaper > 0 THEN CeilDiv(MinNotional, cheaper) ELSE 1})

\* is_on_cooldown()
CoolingDown(m) == cooling[m] > 0

WithinExposure(notional) == exposure + notional <= MaxExposure

\* record_trade() and add_exposure().
Spend(m, notional) ==
    /\ exposure' = exposure + notional
    /\ cooling' = [cooling EXCEPT ![m] = ArbCooldown]

\* The exchange receives both orders; those that are good till cancelled rest in the book.
Submit(m, pair, margin) ==
    /\ stake' = [stake EXCEPT ![m] =
            @ + pair["yes"].price * pair["yes"].size + pair["no"].price * pair["no"].size]
    /\ resting' = [resting EXCEPT ![m] = [l \in Legs |->
            @[l] + (IF pair[l].type = "GTC" THEN pair[l].size ELSE 0)]]
    /\ sent' = [cost |-> pair["yes"].price + pair["no"].price, margin |-> margin]

-----------------------------------------------------------------------------
(* arbitrage.rs                                                            *)

\* Mutant: the edge is not looked at again after rounding.
KeepsEdgeUnchecked(yes, no) == TRUE

\* Rounding up may have eaten the edge.
KeepsEdge(yes, no) ==
    LET combined == RoundUpToTick(yes.ask) + RoundUpToTick(no.ask) IN
    combined # yes.ask + no.ask => combined < Dollar /\ Dollar - combined >= MinEdge

\* check_arb_opportunity(): orders for both legs at the rounded asks, fill-or-kill or,
\* in maker mode, good till cancelled.
CheckMathArb(m, yes, no, cash) ==
    LET combined == RoundUpToTick(yes.ask) + RoundUpToTick(no.ask)
        size == ArbSize(MinDepth(yes, no), combined, cash)
        passive == arb = "math_gtc"
    IN
    /\ TwoSided(yes) /\ TwoSided(no) /\ QuickCheck(yes, no) /\ KeepsEdge(yes, no)
    /\ IsProfitable(yes, no, FeeBps[m], MinPosition, passive)
    /\ size >= SmallestSize(Min({RoundUpToTick(yes.ask), RoundUpToTick(no.ask)}))
    /\ WithinExposure(combined * size)
    /\ Spend(m, combined * size)
    /\ Submit(m, LegOrders(RoundUpToTick(yes.ask), RoundUpToTick(no.ask), size,
                          IF passive THEN "Passive" ELSE "Immediate"), 0)

\* on_book_update(): at most one arb in a market per cooldown.
MathOnBookUpdate(m, yes, no, cash) ==
    /\ arb \in {"math", "math_gtc"} /\ ~stopped /\ ~CoolingDown(m)
    /\ CheckMathArb(m, yes, no, cash)
    /\ UNCHANGED <<arb, pending, held, unwinds, stopped>>

-----------------------------------------------------------------------------
(* temporal_arb.rs                                                         *)

\* estimate_fair_yes(): linear, clamped.
FairYes(change) == Max({5, Min({95, 50 + (change * Dollar) \div Sensitivity})})

\* Mutant: each trade is limited, their total is not.
TemporalSizeAlone(ask) == (MaxPosition * Dollar) \div ask

\* Buy up to the fair value, within the limits and 10,000 shares.
TemporalSize(ask) ==
    LET affordable == Min({(MaxPosition * Dollar) \div ask, (MaxExposure - exposure) \div ask})
    IN  Min({10000, Max({0, affordable})})

\* check_opportunity(): buy the side the external price says is underpriced.
CheckOpportunity(m, yes, no, change, fresh) ==
    LET fair == IF change > 0 THEN FairYes(change) ELSE Dollar - FairYes(change)
        ask == IF change > 0 THEN yes.ask ELSE no.ask
        size == TemporalSize(ask)
    IN
    /\ ~CoolingDown(m) /\ fresh /\ Max({change, -change}) >= ThresholdMove
    /\ yes.ask > 0 /\ no.ask > 0
    /\ ask < fair - MinEdge
    /\ size * ask >= MinPosition * Dollar
    /\ Spend(m, ask * size)
    /\ stake' = [stake EXCEPT ![m] = @ + ask * size]

\* on_book_update()
TemporalOnBookUpdate(m, yes, no, change, fresh) ==
    /\ arb = "temporal" /\ ~stopped
    /\ CheckOpportunity(m, yes, no, change, fresh)
    /\ UNCHANGED <<arb, pending, resting, held, unwinds, stopped>>
    /\ sent' = NothingSent

\* The exchange kills the orders of a trade that found no counterparty.  The
\* strategy does not hear of it.
Killed(m) ==
    /\ arb \in {"math", "temporal"} /\ stake[m] > 0
    /\ stake' = [stake EXCEPT ![m] = 0]
    /\ UNCHANGED <<arb, exposure, cooling, pending, resting, held, unwinds, stopped>>
    /\ sent' = NothingSent

-----------------------------------------------------------------------------
(* maker_rebate_arb.rs                                                     *)

\* One tick below the ask but not below the bid, rounded down to a tick.
MakerPrice(b) == (Max({b.ask - TickSize, b.bid}) \div TickSize) * TickSize

\* The arb waits for its fills, and its cost is reserved.
Post(m, size, notional) ==
    /\ pending' = [pending EXCEPT ![m] = [size |-> size, reserved |-> notional, age |-> 0]]
    /\ Spend(m, notional)

\* check_arb_opportunity(): good-till-cancelled orders below both asks.
CheckMakerArb(m, yes, no, cash) ==
    LET combined == MakerPrice(yes) + MakerPrice(no)
        size == ArbSize(MinDepth(yes, no), combined, cash)
        pair == LegOrders(MakerPrice(yes), MakerPrice(no), size, "Passive")
    IN
    /\ TwoSided(yes) /\ TwoSided(no) /\ combined > 0
    /\ Dollar - combined >= MinEdge
    /\ IsProfitable(yes, no, FeeBps[m], MinPosition, TRUE)
    /\ size >= SmallestSize(Min({MakerPrice(yes), MakerPrice(no)}))
    /\ WithinExposure(combined * size)
    /\ stake[m] + combined * size <= MaxStake[m]
    /\ Post(m, size, combined * size)
    /\ Submit(m, pair, Min({yes.ask - pair["yes"].price, no.ask - pair["no"].price}))

\* on_book_update(): no arb while another one of the market waits for its fills.
MakerOnBookUpdate(m, yes, no, cash) ==
    /\ arb = "maker" /\ ~stopped /\ pending[m] = NoArb /\ ~CoolingDown(m)
    /\ CheckMakerArb(m, yes, no, cash)
    /\ UNCHANGED <<arb, held, unwinds, stopped>>

\* A leg of a pending arb counts as filled with half of its size.
LegFilled(m, l) == 2 * held[m][l] >= pending[m].size

Expired == {m \in Markets : pending[m] # NoArb /\ pending[m].age >= Ttl}

SellOrder(m, l) == [market |-> m, leg |-> l, size |-> held[m][l]]

\* Mutant: the arbs that expired stay pending.
ForgetNone(ms) == pending

Forget(ms) == [m \in Markets |-> IF m \in ms THEN NoArb ELSE pending[m]]

Reserved == [m \in Markets |-> pending[m].reserved]

\* on_tick(): an arb past its TTL is forgotten, whatever becomes of it.  One leg
\* without the other is sold, if there is a bid; if neither was filled the exposure is
\* given back.  The orders that are left stay where they are.
MakerOnTick(bids) ==
    LET naked == {n \in Expired \X Legs :
                    LegFilled(n[1], n[2]) /\ \A k \in Legs \ {n[2]} : ~LegFilled(n[1], k)}
        unfilled == {m \in Expired : \A l \in Legs : ~LegFilled(m, l)}
        back == SumFunctionOnSet(Reserved, unfilled)
    IN
    /\ arb = "maker" /\ ~stopped /\ Expired # {}
    /\ unwinds' = unwinds \union
            (IF bids THEN {SellOrder(n[1], n[2]) : n \in naked} ELSE {})
    /\ exposure' = Max({0, exposure - back})
    /\ pending' = Forget(Expired)
    /\ UNCHANGED <<arb, cooling, resting, held, stopped, stake>>
    /\ sent' = NothingSent

\* on_shutdown(): what the pending arbs have bought so far is sold.
MakerOnShutdown(bids) ==
    /\ ~stopped /\ stopped' = TRUE
    /\ unwinds' = unwinds \union (IF bids
            THEN {SellOrder(n[1], n[2]) : n \in {x \in Markets \X Legs :
                        pending[x[1]] # NoArb /\ held[x[1]][x[2]] > 0}}
            ELSE {})
    /\ UNCHANGED <<arb, exposure, cooling, pending, resting, held, stake>>
    /\ sent' = NothingSent

\* A trade of n shares of an order that rests in the book.
RestingFill(m, l) == \E n \in 1..resting[m][l] :
    /\ resting' = [resting EXCEPT ![m][l] = @ - n]
    /\ held' = [held EXCEPT ![m][l] = @ + n]
    /\ UNCHANGED <<arb, exposure, cooling, pending, unwinds, stopped, stake>>
    /\ sent' = NothingSent

\* A fill-or-kill sell order trades as a whole or not at all.
UnwindAnswered(u, filled) ==
    /\ filled => u.size <= held[u.market][u.leg]
    /\ unwinds' = unwinds \ {u}
    /\ held' = IF filled THEN [held EXCEPT ![u.market][u.leg] = @ - u.size] ELSE held
    /\ UNCHANGED <<arb, exposure, cooling, pending, resting, stopped, stake>>
    /\ sent' = NothingSent

-----------------------------------------------------------------------------
(* Surroundings                                                            *)

\* A market resolves: its orders are gone, its positions are redeemed.
MarketEnds(m) ==
    /\ arb \in {"maker", "math_gtc"} /\ stake[m] > 0 /\ \A u \in unwinds : u.market # m
    /\ resting' = [resting EXCEPT ![m] = [l \in Legs |-> 0]]
    /\ held' = [held EXCEPT ![m] = [l \in Legs |-> 0]]
    /\ stake' = [stake EXCEPT ![m] = 0]
    /\ UNCHANGED <<arb, exposure, cooling, pending, unwinds, stopped>>
    /\ sent' = NothingSent

\* Time passes; a tick comes, and an order is answered, many times in a unit of it.
ArbElapse ==
    /\ Expired = {} /\ unwinds = {}
    /\ cooling' = [m \in Markets |-> Max({0, cooling[m] - 1})]
    /\ pending' = [m \in Markets |->
            IF pending[m] = NoArb THEN NoArb ELSE [pending[m] EXCEPT !.age = @ + 1]]
    /\ UNCHANGED <<arb, exposure, resting, held, unwinds, stopped, stake>>
    /\ sent' = NothingSent

ArbNext ==
    \/ \E m \in Markets :
        \/ \E yes, no \in Books, cash \in CashLevels :
            MathOnBookUpdate(m, yes, no, cash) \/ MakerOnBookUpdate(m, yes, no, cash)
        \/ \E yes, no \in Books, change \in Changes, fresh \in BOOLEAN :
            TemporalOnBookUpdate(m, yes, no, change, fresh)
        \/ Killed(m) \/ MarketEnds(m)
        \/ \E l \in Legs : RestingFill(m, l)
    \/ \E bids \in BOOLEAN : MakerOnTick(bids) \/ MakerOnShutdown(bids)
    \/ \E u \in unwinds, filled \in BOOLEAN : UnwindAnswered(u, filled)
    \/ ArbElapse

ArbSpec == ArbInit /\ [][ArbNext]_arbVars

-----------------------------------------------------------------------------
(* Properties *)

\* The type invariant.
ArbTypeOK ==
    /\ arb \in Arbs /\ exposure \in Nat /\ stopped \in BOOLEAN
    /\ cooling \in [Markets -> 0..ArbCooldown]
    /\ pending \in [Markets -> [size : 0..MaxPosition, reserved : 0..MaxBet, age : 0..Ttl]]
    /\ \A m \in Markets, l \in Legs : resting[m][l] \in Nat /\ held[m][l] \in Nat
    /\ unwinds \subseteq [market : Markets, leg : Legs, size : Nat]

\* "Maximum total exposure": what the strategies that never unwind have put into all
\* markets together, at the prices of the orders, stays within the limit, whatever fails
\* to be filled or is never reported.
StakeWithinLimit == arb # "maker" => SumFunctionOnSet(stake, Markets) <= MaxExposure

\* The exposure still covers every arb that waits for its fills: time-outs of other
\* markets never give back more than their own share.
ReservationsCovered == exposure >= SumFunctionOnSet(Reserved, Markets)

\* A pair that was sent pays its minimal edge at the prices in the orders: not those of
\* the book, nor those the edge was computed from.
PairsPayTheirEdge == sent # NothingSent => Dollar - sent.cost >= MinEdge

\* The maker's orders never cross: with the policy's offset, each is below the ask it was
\* made from, or it would take and pay the fee the strategy exists to avoid.
MakersNeverCross == (arb = "maker" /\ sent # NothingSent) => sent.margin > 0

\* Until the shutdown no leg is sold twice: the unwind orders in flight are covered by
\* the position, though an arb is forgotten before its unwind is answered.
UnwindsCovered == ~stopped => \A m \in Markets, l \in Legs :
    SumFunctionOnSet([u \in unwinds |-> u.size],
                     {u \in unwinds : u.market = m /\ u.leg = l}) <= held[m][l]
=============================================================================
