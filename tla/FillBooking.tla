----------------------------- MODULE FillBooking -----------------------------
(***************************************************************************)
(* How the trades of the wallet reach the ledger, and what brings the      *)
(* ledger back in line with the exchange.  The exchange executes and       *)
(* settles trades; the user WebSocket (websocket/user.rs) puts a message   *)
(* per event in an unbounded channel; the event loop books each message    *)
(* with Ledger::process_fill; the sync task (sync/mod.rs) reads balances   *)
(* over REST and corrects the ledger behind the event loop's back; a       *)
(* restart seeds a new ledger from the balance and the recent trades       *)
(* (orchestrator/auth.rs, orchestrator/setup.rs).                          *)
(*                                                                         *)
(* Every share costs one unit and there are no fees: a trade's size is its *)
(* notional.  Nothing in the program reserves cash for live orders, so     *)
(* `reserved` is zero and is left out.  Redemption is switched off         *)
(* (REDEEM_ENABLED=false), and every trade is younger than the two hours   *)
(* a restart looks back.                                                   *)
(***************************************************************************)
EXTENDS Integers, FiniteSets, Sequences, SequencesExt

CONSTANTS
    Tokens,
    StartTokens,    \* tokens of the markets registered when a process starts
    TradeIds,
    TradeSizes,
    StartCash,      \* the wallet's USDC
    InitialCash,    \* INITIAL_CASH_USD, used when the balance reads as zero
    Roles,          \* what the wallet may be in a trade: Taker, Maker
    FailuresHappen, \* trades may fail after they matched
    PositionSync,   \* the position half of the sync task runs
    MaxRestarts, MaxDisconnects,    \* bounds
    NoTrade

ASSUME BookingAssumption ==
    /\ StartTokens \subseteq Tokens
    /\ IsFiniteSet(TradeIds)
    /\ TradeSizes \subseteq Nat \ {0}
    /\ StartCash \in Nat /\ InitialCash \in Nat
    /\ Roles \subseteq {"Taker", "Maker"}
    /\ FailuresHappen \in BOOLEAN /\ PositionSync \in BOOLEAN

Sides == {"Buy", "Sell"}
Opposite(side) == IF side = "Buy" THEN "Sell" ELSE "Buy"

Trades == [token : Tokens, takerSide : Sides, role : Roles, size : TradeSizes,
           status : {"Matched", "Confirmed", "Failed"}]

ASSUME NoTradeAssumption == NoTrade \notin Trades

VARIABLES
    (* the exchange *)
    trades,         \* what happened to each trade id
    wallet,         \* USDC of the wallet
    holdings,       \* shares of the wallet, per token
    (* the user WebSocket *)
    connected,
    inbox,          \* the channel to the event loop: ids of trades
    disconnects,
    (* the process *)
    cash,           \* ledger.cash.available
    shares,         \* ledger.positions, shares per token
    seen,           \* ledger.seen_fill_ids
    restarts,
    (* the sync task *)
    syncing,        \* what it is doing
    toCheck,        \* positions of its snapshot it has not looked at yet
    readCash,       \* the balance the exchange answered
    readShares      \* the token it looks at and the balance it was told

exchange == <<trades, wallet, holdings>>
socket == <<connected, inbox, disconnects>>
ledger == <<cash, shares, seen>>
sync == <<syncing, toCheck, readCash, readShares>>
bookingVars == <<trades, wallet, holdings, connected, inbox, disconnects,
          cash, shares, seen, restarts,
          syncing, toCheck, readCash, readShares>>

Executed(id) == trades[id] # NoTrade

\* Which side of the trade the wallet was on.
WalletSide(trade) ==
    IF trade.role = "Maker" THEN Opposite(trade.takerSide) ELSE trade.takerSide

\* TradeNotification::to_fill: trade.side is the taker's, turned round when
\* the wallet was the maker.
FillSide(trade) ==
    IF trade.role = "Maker" THEN Opposite(trade.takerSide) ELSE trade.takerSide

\* load_recent_trades: trade.side as it is.
ReplaySide(trade) == trade.takerSide

Signed(side, size) == IF side = "Buy" THEN size ELSE -size

NoRead == [token |-> NoTrade, balance |-> 0]

BookingInit ==
    /\ trades = [id \in TradeIds |-> NoTrade]
    /\ wallet = StartCash
    /\ holdings = [t \in Tokens |-> 0]
    /\ connected = TRUE /\ inbox = <<>> /\ disconnects = 0
    /\ cash = StartCash
    /\ shares = [t \in Tokens |-> 0]
    /\ seen = {}
    /\ restarts = 0
    /\ syncing = "no" /\ toCheck = {} /\ readCash = 0 /\ readShares = NoRead

-----------------------------------------------------------------------------
(* The exchange *)

\* The subscription is for the markets registered when the process started.
Notify(id, trade) ==
    inbox' = IF connected /\ trade.token \in StartTokens
             THEN Append(inbox, id) ELSE inbox

\* Trades the wallet can pay for, in shares or in USDC.
Execute(id, trade) ==
    /\ ~Executed(id)
    /\ trade.status = "Matched"
    /\ IF WalletSide(trade) = "Buy" THEN wallet >= trade.size
                                    ELSE holdings[trade.token] >= trade.size
    /\ trades' = [trades EXCEPT ![id] = trade]
    /\ wallet' = wallet - Signed(WalletSide(trade), trade.size)
    /\ holdings' = [holdings EXCEPT ![trade.token] =
                        @ + Signed(WalletSide(trade), trade.size)]
    /\ Notify(id, trade)
    /\ UNCHANGED <<connected, disconnects, ledger, restarts, sync>>

\* A matched trade is settled on chain, or fails there and is undone.
Confirm(id) ==
    /\ Executed(id) /\ trades[id].status = "Matched"
    /\ trades' = [trades EXCEPT ![id].status = "Confirmed"]
    /\ Notify(id, trades[id])
    /\ UNCHANGED <<wallet, holdings, connected, disconnects, ledger, restarts, sync>>

Fail(id) ==
    /\ FailuresHappen
    /\ Executed(id) /\ trades[id].status = "Matched"
    /\ LET trade == trades[id]
           undone == Signed(WalletSide(trade), trade.size)
       IN  /\ holdings[trade.token] >= undone
           /\ wallet + undone >= 0
           /\ trades' = [trades EXCEPT ![id].status = "Failed"]
           /\ wallet' = wallet + undone
           /\ holdings' = [holdings EXCEPT ![trade.token] = @ - undone]
           /\ Notify(id, trade)
    /\ UNCHANGED <<connected, disconnects, ledger, restarts, sync>>

-----------------------------------------------------------------------------
(* The user WebSocket: UserWebSocket::run *)

Disconnect ==
    /\ connected
    /\ disconnects < MaxDisconnects
    /\ connected' = FALSE
    /\ disconnects' = disconnects + 1
    /\ UNCHANGED <<exchange, inbox, ledger, restarts, sync>>

\* On reconnect the exchange re-sends the trades of the subscribed markets.
Reconnect ==
    /\ ~connected
    /\ connected' = TRUE
    /\ inbox' = inbox \o SetToSeq({id \in TradeIds :
                    Executed(id) /\ trades[id].token \in StartTokens})
    /\ UNCHANGED <<exchange, disconnects, ledger, restarts, sync>>

-----------------------------------------------------------------------------
(* The event loop: handle_trade_notification, Ledger::process_fill *)

\* settle_buy takes the notional from `reserved`, which is zero: a buy leaves
\* `available` alone.  settle_sell adds the proceeds to `available`.
CashAfter(old, side, size) == IF side = "Sell" THEN old + size ELSE old

\* Mutant: no fill is ever a duplicate.
BookAgain(id, side) ==
    /\ seen' = seen \cup {id}
    /\ shares' = [shares EXCEPT ![trades[id].token] =
                      @ + Signed(side, trades[id].size)]
    /\ cash' = CashAfter(cash, side, trades[id].size)

\* process_fill(): the status of the trade is not looked at.
Book(id, side) ==
    IF id \in seen
    THEN UNCHANGED ledger
    ELSE /\ seen' = seen \cup {id}
         /\ shares' = [shares EXCEPT ![trades[id].token] =
                           @ + Signed(side, trades[id].size)]
         /\ cash' = CashAfter(cash, side, trades[id].size)

HandleTrade ==
    /\ inbox # <<>>
    /\ inbox' = Tail(inbox)
    /\ Book(Head(inbox), FillSide(trades[Head(inbox)]))
    /\ UNCHANGED <<exchange, connected, disconnects, restarts, sync>>

-----------------------------------------------------------------------------
(* A restart: authenticate() reads the balance and the recent trades,      *)
(* Orchestrator::new() seeds the ledger with the one and replays the       *)
(* others through process_fill.                                            *)

Replayed == {id \in TradeIds : Executed(id) /\ trades[id].status # "Failed"}

Sold == {id \in Replayed : ReplaySide(trades[id]) = "Sell"}
Traded(t) == {id \in Replayed : trades[id].token = t}

Restart ==
    /\ restarts < MaxRestarts
    /\ restarts' = restarts + 1
    /\ cash' = (IF wallet > 0 THEN wallet ELSE InitialCash)
               + SumFunction([id \in Sold |-> trades[id].size])
    /\ shares' = [t \in Tokens |-> SumFunction([id \in Traded(t) |->
                    Signed(ReplaySide(trades[id]), trades[id].size)])]
    /\ seen' = Replayed
    /\ connected' = FALSE
    /\ inbox' = <<>>
    /\ syncing' = "no" /\ toCheck' = {} /\ readCash' = 0 /\ readShares' = NoRead
    /\ UNCHANGED <<exchange, disconnects>>

-----------------------------------------------------------------------------
(* The sync task: one of its jobs at a time, each with a REST call between *)
(* what it reads and what it writes.                                       *)

ReadBalance ==
    /\ syncing = "no"
    /\ readCash' = wallet
    /\ syncing' = "cash"
    /\ UNCHANGED <<exchange, socket, ledger, restarts, toCheck, readShares>>

\* Mutant: only a drift upwards is corrected.
CorrectCashDown ==
    /\ syncing = "cash"
    /\ cash' = IF readCash < cash THEN readCash ELSE cash
    /\ syncing' = "no"
    /\ UNCHANGED <<exchange, socket, shares, seen, restarts,
                   toCheck, readCash, readShares>>

\* CashBalance::sync_from_exchange: any drift above a cent is corrected.
CorrectCash ==
    /\ syncing = "cash"
    /\ cash' = readCash
    /\ syncing' = "no"
    /\ UNCHANGED <<exchange, socket, shares, seen, restarts,
                   toCheck, readCash, readShares>>

\* sync_positions(): all_positions() is a snapshot of those that are not flat.
SnapshotPositions ==
    /\ PositionSync
    /\ syncing = "no"
    /\ toCheck' = {t \in Tokens : shares[t] # 0}
    /\ toCheck' # {}
    /\ syncing' = "positions"
    /\ UNCHANGED <<exchange, socket, ledger, restarts, readCash, readShares>>

ReadHolding ==
    /\ syncing = "positions"
    /\ \E t \in toCheck :
        /\ readShares' = [token |-> t, balance |-> holdings[t]]
        /\ toCheck' = toCheck \ {t}
    /\ syncing' = "holding"
    /\ UNCHANGED <<exchange, socket, ledger, restarts, readCash>>

\* Mutant: a holding is zeroed when the exchange still has it.
ZeroIfHeld(balance) == balance > 0

\* Only an on-chain balance of zero has an effect on the ledger.
ZeroIf(balance) == balance = 0

\* Positions::force_close when the shares are gone on chain.
CorrectPosition ==
    /\ syncing = "holding"
    /\ shares' = IF ZeroIf(readShares.balance)
                 THEN [shares EXCEPT ![readShares.token] = 0] ELSE shares
    /\ syncing' = IF toCheck = {} THEN "no" ELSE "positions"
    /\ readShares' = NoRead
    /\ UNCHANGED <<exchange, socket, cash, seen, restarts,
                   toCheck, readCash>>

BookingNext ==
    \/ \E id \in TradeIds, trade \in Trades : Execute(id, trade)
    \/ \E id \in TradeIds : Confirm(id) \/ Fail(id)
    \/ Disconnect \/ Reconnect
    \/ HandleTrade
    \/ Restart
    \/ ReadBalance \/ CorrectCash
    \/ SnapshotPositions \/ ReadHolding \/ CorrectPosition

(***************************************************************************)
(* The event loop drains its channel, the socket reconnects after five     *)
(* seconds, and both timers of the sync task go off again and again: each  *)
(* job is started infinitely often (the SF), and finished.                 *)
(***************************************************************************)
BookingFairness ==
    /\ WF_bookingVars(HandleTrade) /\ WF_bookingVars(Reconnect)
    /\ SF_bookingVars(ReadBalance) /\ WF_bookingVars(CorrectCash)
    /\ SF_bookingVars(SnapshotPositions)
    /\ WF_bookingVars(ReadHolding) /\ WF_bookingVars(CorrectPosition)

BookingSpec == BookingInit /\ [][BookingNext]_bookingVars /\ BookingFairness

-----------------------------------------------------------------------------
(* Properties *)

\* The type invariant.
BookingTypeOK ==
    /\ trades \in [TradeIds -> Trades \cup {NoTrade}]
    /\ wallet \in Nat
    /\ holdings \in [Tokens -> Nat]
    /\ connected \in BOOLEAN
    /\ inbox \in Seq(TradeIds)
    /\ disconnects \in Nat /\ restarts \in Nat
    /\ cash \in Nat
    /\ shares \in [Tokens -> Int]
    /\ seen \subseteq {id \in TradeIds : Executed(id)}
    /\ syncing \in {"no", "cash", "positions", "holding"}
    /\ toCheck \subseteq Tokens
    /\ readCash \in Nat
    /\ readShares \in [token : Tokens \cup {NoTrade}, balance : Nat]

\* Every event the exchange sent has been booked.
Quiet == connected /\ inbox = <<>>

\* load_recent_trades books a trade on the taker's side, whatever the wallet's
\* role was (auth.rs:237): the positions a restart rebuilds are only right
\* where the wallet has never been the maker.
RebuiltRight(t) ==
    \/ restarts = 0
    \/ \A id \in TradeIds :
        Executed(id) /\ trades[id].token = t => trades[id].role = "Taker"

\* Once everything sent is booked, the ledger holds what the wallet holds of
\* every token it is told about ("The ledger is the single source of truth for
\* portfolio state"), but where a restart booked a maker's trade: however often
\* the exchange sends a trade (per status, on a reconnect, to a new process),
\* it counts once and on the wallet's side.
PositionsAgree ==
    Quiet => \A t \in StartTokens : RebuiltRight(t) => shares[t] = holdings[t]

\* Whatever was missed, booked on the wrong side or never undone, the cash of
\* the ledger is the wallet's in the end, and stays it.
CashConverges == <>[](cash = wallet)

\* A token the wallet has sold or lost for good is one the ledger no longer
\* counts as held, in the end.
SoldIsForgotten ==
    \A t \in Tokens : <>[](holdings[t] = 0) => <>[](shares[t] = 0)
=============================================================================
