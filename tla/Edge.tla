--------------------------------- MODULE Edge ---------------------------------
(***************************************************************************)
(* strategy/edge_calculator.rs: what an arbitrage must earn.  Prices are   *)
(* cents of a dollar, edges and their components ten-thousandths of a cent *)
(* (Scale), sizes shares.  A book is its top: [bid, ask, depth], where a   *)
(* side that is absent has price 0.                                        *)
(***************************************************************************)
EXTENDS Integers, FiniteSetsExt

CONSTANTS
    MinEdge,                \* of EdgeConfig, cents
    ThinBookMargin,         \* cents
    MinDepthThreshold       \* shares

Dollar == 100
Scale == 10000

TwoSided(b) == b.bid > 0 /\ b.ask > 0
Spread(b) == b.ask - b.bid
MinDepth(yes, no) == Min({yes.depth, no.depth})

\* Makers pay no fees.
CalculateFees(bps, combined, isMaker) == IF isMaker THEN 0 ELSE bps * combined

\* A tenth of a dollar at most; half of the spread for every depth in excess.
EstimateSlippage(yes, no, size) ==
    LET depth == MinDepth(yes, no) IN
    CASE depth = 0                    -> 10 * Scale
      [] depth > 0 /\ size <= depth   -> 0
      [] OTHER -> Min({10 * Scale,
                       ((size - depth) * (Spread(yes) + Spread(no)) * Scale) \div (4 * depth)})

PartialFillMargin(yes, no) ==
    LET depth == MinDepth(yes, no) IN
    CASE depth < MinDepthThreshold     -> ThinBookMargin * Scale
      [] depth >= 2 * MinDepthThreshold -> 0
      [] OTHER                         -> (ThinBookMargin * Scale) \div 2

\* Half of what the average spread exceeds five cents by.
SpreadPenalty(yes, no) == Max({0, (Spread(yes) + Spread(no) - 10) * (Scale \div 4)})

RequiredEdge(yes, no, bps, size, isMaker) ==
    Max({MinEdge * Scale,
         CalculateFees(bps, yes.ask + no.ask, isMaker) + EstimateSlippage(yes, no, size)
         + PartialFillMargin(yes, no) + SpreadPenalty(yes, no)})

\* calculate().is_profitable, with max_size the smaller depth of the two asks.
IsProfitable(yes, no, bps, size, isMaker) ==
    /\ (Dollar - yes.ask - no.ask) * Scale >= RequiredEdge(yes, no, bps, size, isMaker)
    /\ MinDepth(yes, no) >= size

\* quick_check(), on the raw asks.
QuickCheck(yes, no) ==
    yes.ask + no.ask < Dollar /\ Dollar - yes.ask - no.ask >= MinEdge
=============================================================================
