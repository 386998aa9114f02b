------------------------------ MODULE MCEntries ------------------------------
(***************************************************************************)
(* From a market's book to the orders that open a position.  A behaviour   *)
(* is about one part of the way and leaves the others as they were built:  *)
(*   book:    three prices, and streams with level updates and without;    *)
(*   feed:    the external price, two values of it, and a sleep of up to   *)
(*            two windows between two connections;                         *)
(*   signals: the three detectors, over four updates;                      *)
(*   arbs:    the strategies that buy at a discount, on two markets, and   *)
(*            books that are thin and off the tick, deeper and dearer, and *)
(*            one-sided.                                                   *)
(***************************************************************************)
EXTENDS OrderBook, PriceFeed, PriceSignals, ArbStrategies

CONSTANTS m1, m2

MCTopMid == [d \in Detectors |-> IF d = "breakout" THEN 3 ELSE 4]

Top(bid, ask, depth) == [bid |-> bid, ask |-> ask, depth |-> depth]

MCBooks == {Top(46, 47, 2), Top(47, 48, 4), Top(47, 49, 4), Top(0, 46, 4)}
MCFeeBps == [m \in Markets |-> 300]
MCChanges == {-100, 0, 100, 300}
MCMaxStake == [m \in Markets |-> IF m = m1 THEN 400 ELSE 100]

VARIABLE part

entryVars == <<bookVars, feedVars, signalVars, arbVars, part>>

EntriesInit ==
    /\ BookInit /\ FeedInit /\ SignalsInit /\ ArbInit
    /\ part \in {"book", "feed", "signals", "arbs"}
    /\ part # "book" => ~updates
    /\ part # "signals" => detector = "drop"
    /\ part # "arbs" => arb = "math"

OfBook(action) == part = "book" /\ action /\ UNCHANGED <<feedVars, signalVars, arbVars, part>>
OfFeed(action) == part = "feed" /\ action /\ UNCHANGED <<bookVars, signalVars, arbVars, part>>
OfSignals(action) ==
    part = "signals" /\ action /\ UNCHANGED <<bookVars, feedVars, arbVars, part>>
OfArbs(action) == part = "arbs" /\ action /\ UNCHANGED <<bookVars, feedVars, signalVars, part>>

EntriesNext ==
    OfBook(BookNext) \/ OfFeed(FeedNext) \/ OfSignals(SignalsNext) \/ OfArbs(ArbNext)

EntriesSpec == EntriesInit /\ [][EntriesNext]_entryVars
=============================================================================
