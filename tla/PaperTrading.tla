----------------------------- MODULE PaperTrading -----------------------------
(***************************************************************************)
(* Paper mode: simulate_paper_fills() (orchestrator/execution.rs) books    *)
(* made-up fills in the real ledger, whose positions (ledger/positions.rs) *)
(* keep average costs and profits, and whose cash (ledger/cash.rs) pays.   *)
(* Intents and the best prices of the book are inputs.                     *)
(*                                                                         *)
(* Money is counted in parts of a price unit so small that the averages of *)
(* MaxFills fills are whole (the code has 28 decimals).  Nothing reserves  *)
(* cash, so `reserved` is zero and settle_buy() takes nothing.             *)
(*                                                                         *)
(* `keyed` says whether PRIVATE_KEY is set: then the sync task runs beside *)
(* the simulation, in paper mode too (setup.rs), and knows of no trade.    *)
(***************************************************************************)
EXTENDS Integers, FiniteSetsExt, Functions

CONSTANTS
    PaperTokens,
    PaperPrices,        \* prices considered
    PaperSizes,
    StartMoney,         \* INITIAL_CASH_USD, in parts
    Parts,              \* parts of a price unit
    PaperFeeBps,
    Keys,               \* the values of `keyed` considered
    MaxPaperShares, MaxFills    \* bounds

ASSUME PaperAssumption ==
    /\ IsFiniteSet(PaperTokens)
    /\ PaperPrices \subseteq Nat \ {0} /\ PaperSizes \subseteq Nat \ {0}
    /\ StartMoney \in Nat /\ Parts \in Nat \ {0} /\ PaperFeeBps \in Nat
    /\ Keys \subseteq BOOLEAN

VARIABLES
    keyed,              \* the configuration
    available,          \* cash.available
    position,           \* positions, one for each token
    fills               \* fill_count of all of them

paperVars == <<keyed, available, position, fills>>

\* (cost_basis is avg_cost times the shares throughout; unrealized profits are for
\* display.)
NoPosition == [shares |-> 0, avg_cost |-> 0, realized_pnl |-> 0, total_fees |-> 0]

PaperInit ==
    /\ keyed \in Keys
    /\ available = StartMoney
    /\ position = [t \in PaperTokens |-> NoPosition]
    /\ fills = 0

Size(n) == IF n < 0 THEN -n ELSE n
Sign(n) == IF n < 0 THEN -1 ELSE 1

-----------------------------------------------------------------------------
(* Positions::apply_fill(), for n shares bought (n > 0) or sold (n < 0) at p *)

\* Mutant: a position that changes sides keeps its average.
AvgCostKept(pos, n, p) ==
    LET new == pos.shares + n IN
    CASE pos.shares = 0 -> p
      [] pos.shares # 0 /\ Sign(pos.shares) = Sign(n) ->
            (pos.avg_cost * Size(pos.shares) + p * Size(n)) \div Size(new)
      [] OTHER -> IF new = 0 THEN 0 ELSE pos.avg_cost

\* Opened; added to; closed, turned round, or reduced.
AvgCost(pos, n, p) ==
    LET new == pos.shares + n IN
    CASE pos.shares = 0 -> p
      [] pos.shares # 0 /\ Sign(pos.shares) = Sign(n) ->
            (pos.avg_cost * Size(pos.shares) + p * Size(n)) \div Size(new)
      [] OTHER -> IF new = 0 THEN 0
                  ELSE IF Sign(new) # Sign(pos.shares) THEN p ELSE pos.avg_cost

\* What a fill against the position earns on the part that it closes.
Realized(pos, n, p) ==
    IF pos.shares = 0 \/ Sign(pos.shares) = Sign(n) THEN 0
    ELSE (p - pos.avg_cost) * Min({Size(pos.shares), Size(n)}) * Sign(pos.shares)

PositionAfterFill(pos, n, p, fee) == [pos EXCEPT
    !.shares = @ + n,
    !.avg_cost = AvgCost(pos, n, p),
    !.realized_pnl = @ + Realized(pos, n, p),
    !.total_fees = @ + fee]

-----------------------------------------------------------------------------
(* The event loop *)

FeeOf(notional) == (notional * PaperFeeBps) \div 10000

\* simulate_paper_fills() for one intent, to buy or to sell n shares, when the best
\* price of the other side is p and the limit lets it trade.  The notional of a buy is
\* withdrawn first, then process_fill() books the fill: settle_buy() finds nothing
\* reserved, settle_sell() pays, and the fee is deducted.
Simulate(t, side, n, p) ==
    LET notional == p * Parts * n
        fee == FeeOf(notional)
    IN
    /\ fills < MaxFills
    /\ side = "buy" => available >= notional + fee
    /\ available' = (IF side = "buy" THEN available - notional ELSE available + notional) - fee
    /\ position' = [position EXCEPT ![t] =
            PositionAfterFill(@, IF side = "buy" THEN n ELSE -n, p * Parts, fee)]
    /\ Size(position'[t].shares) <= MaxPaperShares
    /\ fills' = fills + 1
    /\ keyed' = keyed

-----------------------------------------------------------------------------
(* The sync task, which asks the exchange about the wallet of the key *)

\* sync_cash() with the balance the wallet started with.
SyncCash ==
    /\ keyed /\ available' = StartMoney
    /\ UNCHANGED <<keyed, position, fills>>

\* sync_positions() and force_close(): the wallet holds none of the token.
SyncPosition(t) ==
    /\ keyed /\ position[t].shares # 0
    /\ position' = [position EXCEPT ![t].shares = 0, ![t].avg_cost = 0]
    /\ UNCHANGED <<keyed, available, fills>>

PaperNext ==
    \/ \E t \in PaperTokens, side \in {"buy", "sell"}, n \in PaperSizes, p \in PaperPrices :
        Simulate(t, side, n, p)
    \/ SyncCash \/ \E t \in PaperTokens : SyncPosition(t)

PaperSpec == PaperInit /\ [][PaperNext]_paperVars

-----------------------------------------------------------------------------
(* Properties *)

Total(f(_)) == SumFunction([t \in PaperTokens |-> f(position[t])])

CostBasis(pos) == pos.shares * pos.avg_cost
RealizedPnl(pos) == pos.realized_pnl
Fees(pos) == pos.total_fees

\* What the account started with is what is in it: cash and shares at their cost, less
\* the realized profit, plus the fees.
Balanced ==
    available + Total(CostBasis) = StartMoney + Total(RealizedPnl) - Total(Fees)

\* Without a key: through buys and sells in any order, positions that are averaged,
\* reduced, closed and turned round, no money appears or vanishes, so that the profits
\* of a paper session add up.
ProfitsAddUp == ~keyed => Balanced
=============================================================================
