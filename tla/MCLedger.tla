------------------------------ MODULE MCLedger -------------------------------
(***************************************************************************)
(* What is booked in the ledger.  A behaviour is about one part of it and  *)
(* leaves the others as they were built:                                   *)
(*   orders: two orders and two exchange ids, sizes that fill an order in  *)
(*           one or two fills or overrun it;                               *)
(*   trades: two trades of two tokens that never fail, a socket that       *)
(*           breaks, a restart, and no correction of positions;            *)
(*   repair: two trades of one token that may fail, a restart, and the     *)
(*           whole sync task;                                              *)
(*   paper:  simulated fills of two tokens, with a key or without.         *)
(***************************************************************************)
EXTENDS OpenOrders, FillBooking, PaperTrading

VARIABLE part

Repair == INSTANCE FillBooking WITH
    Tokens <- StartTokens, TradeSizes <- {1}, StartCash <- 2,
    FailuresHappen <- TRUE, PositionSync <- TRUE, MaxDisconnects <- 0

ledgerVars == <<vars, bookingVars, paperVars, part>>

LedgerInit ==
    /\ \/ part \in {"orders", "trades", "paper"} /\ BookingInit
       \/ part = "repair" /\ Repair!BookingInit
    /\ Init /\ PaperInit
    /\ part # "paper" => ~keyed

OfOrders(action) == part = "orders" /\ action /\ UNCHANGED <<bookingVars, paperVars, part>>
OfTrades(action) == part = "trades" /\ action /\ UNCHANGED <<vars, paperVars, part>>
OfRepair(action) == part = "repair" /\ action /\ UNCHANGED <<vars, paperVars, part>>
OfPaper(action) == part = "paper" /\ action /\ UNCHANGED <<vars, bookingVars, part>>

LedgerNext ==
    \/ OfOrders(Next) \/ OfTrades(BookingNext)
    \/ OfRepair(Repair!BookingNext) \/ OfPaper(PaperNext)

\* FillBooking's fairness of the part that has a sync task.
LedgerSpec ==
    /\ LedgerInit /\ [][LedgerNext]_ledgerVars
    /\ WF_ledgerVars(OfRepair(HandleTrade)) /\ WF_ledgerVars(OfRepair(Reconnect))
    /\ SF_ledgerVars(OfRepair(ReadBalance)) /\ WF_ledgerVars(OfRepair(CorrectCash))
    /\ SF_ledgerVars(OfRepair(Repair!SnapshotPositions))
    /\ WF_ledgerVars(OfRepair(ReadHolding)) /\ WF_ledgerVars(OfRepair(CorrectPosition))

\* The positions of the ledger are the wallet's, once everything sent is booked, where
\* no trade fails and no position is corrected.
TradedPositionsAgree == part = "trades" => PositionsAgree

\* The cash of the ledger is the wallet's in the end, and stays it, where trades fail
\* and the sync task runs.
RepairedCashConverges == part = "repair" => CashConverges

\* There, a token that the wallet has lost for good is forgotten in the end.
LostIsForgotten == part = "repair" => Repair!SoldIsForgotten
=============================================================================
