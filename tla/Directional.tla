----------------------------- MODULE Directional -----------------------------
(***************************************************************************)
(* The four strategies that buy one side of a market and mean to sell it   *)
(* again: strategy/{late_entry,contrarian,tbo_trend,tbt_divergence}.rs.    *)
(* One of them runs on one market, from the entry intent through the fills *)
(* to the exit.  What makes a token worth buying is an input here          *)
(* (`good`: the price history, which module PriceSignals models, the edge  *)
(* and the depth of the book).                                             *)
(*                                                                         *)
(* `routed` says whether the host delivers fills to on_fill(), as the      *)
(* Strategy trait promises and the unit tests do.  The event loop of this  *)
(* bot never calls StrategyRouter::on_fill: there it is FALSE.             *)
(*                                                                         *)
(* A price is a level: 0 is a book that lacks a side, Stop the level of    *)
(* the stop-loss, Win that of a near-certain winner; one level is more     *)
(* than the profit target or the stop-loss away from the next.  Instants   *)
(* are ages in units of time, saturating where the code stops telling them *)
(* apart.                                                                  *)
(***************************************************************************)
EXTENDS Integers, Sequences, FiniteSetsExt, Functions

CONSTANTS
    DirStrategies,      \* the strategies considered
    Hosts,              \* the values of `routed` considered
    Bet,                \* shares of an entry: max_bet_usd / ask
    Cooldown,           \* cooldown_ms
    ExitExpiry,         \* the 60 s after which a close order counts as failed
    ContrarianHold, TboHold, TbtHold,   \* max_hold_secs
    Interval, EntryWindow, LastCall,    \* of late_entry: the round, its tail, its end
    AnswerWithin,       \* bound: an order is answered within this time
    MaxLive             \* bound on orders in flight: late_entry's repeated sells

MaxHold == Max({ContrarianHold, TboHold, TbtHold})

\* Orders are fill-and-kill, so what one comes to is known with the exchange's answer and
\* its fill with the user channel's message.  That both come within a cooldown, of which
\* the shortest is 10 s, is assumed: nothing in the code waits for them, and the position
\* sync, once a minute, only zeroes positions.
ASSUME DirAssumption ==
    /\ DirStrategies \subseteq {"late_entry", "contrarian", "tbo", "tbt"}
    /\ Hosts \subseteq BOOLEAN
    /\ {Bet, Cooldown, ExitExpiry, ContrarianHold, TboHold, TbtHold} \subseteq Nat \ {0}
    /\ AnswerWithin \in Nat /\ AnswerWithin < Cooldown /\ AnswerWithin < ExitExpiry
    /\ MaxLive \in Nat \ {0}
    /\ Interval \in Nat \ {0} /\ EntryWindow \in 1..Interval /\ LastCall \in Nat

Tokens == {"yes", "no"}
Other(t) == IF t = "yes" THEN "no" ELSE "yes"     \* MarketPair::complement

NoBook == 0
Stop == 1
Win == 3
Prices == Stop..Win

VARIABLES
    strategy, routed,   \* the configuration
    enabled,            \* AtomicBool, set by the API
    price,              \* the level of each token's book
    shares,             \* the ledger's position in each token
    live,               \* orders in flight, oldest first
    entry,              \* entry_tracking: price (NoBook: untracked) and age
    exiting,            \* pending_exit: 0 absent, otherwise 1 + its age
    lastTrade,          \* age of last_trade of the market; Cooldown: none or over
    clock               \* seconds into the round, of which late_entry looks at

dirVars == <<strategy, routed, enabled, price, shares, live, entry, exiting,
             lastTrade, clock>>

Untracked == [price |-> NoBook, age |-> 0]
Tracked(t) == entry[t] # Untracked
Flat(t) == shares[t] = 0
OnCooldown == lastTrade < Cooldown

DirInit ==
    /\ strategy \in DirStrategies /\ routed \in Hosts /\ enabled = TRUE
    /\ price = [t \in Tokens |-> NoBook]
    /\ shares = [t \in Tokens |-> 0]
    /\ live = <<>>
    /\ entry = [t \in Tokens |-> Untracked]
    /\ exiting = [t \in Tokens |-> 0]
    /\ lastTrade = Cooldown
    /\ clock = 0

\* The price of a sell order is of no account.
Order(t, side, n) == [token |-> t, side |-> side, size |-> n, age |-> 0,
                      price |-> IF side = "buy" THEN price'[t] ELSE NoBook]

-----------------------------------------------------------------------------
(* Entries: on_book_update().  The book of `t` moves to level p first.     *)

SecsToResolution == Interval - (clock % Interval)

InEntryWindow == SecsToResolution <= EntryWindow /\ SecsToResolution >= LastCall

\* The guards the strategies share: neither token held, no close order pending.
MayEnter(t) == ~OnCooldown /\ Flat(t) /\ exiting[t] = 0 /\ Flat(Other(t))

ContrarianCheckEntry(t, good) ==
    MayEnter(t) /\ good /\ price'[Other(t)] # NoBook

TboCheckEntry(t, good) == MayEnter(t) /\ good /\ price'[t] < Win

TbtCheckEntry(t, good) == MayEnter(t) /\ good /\ price'[t] < Win

\* Buy if the check passes; the cooldown starts with the intent.
Enter(t, check) ==
    /\ live' = IF check THEN Append(live, Order(t, "buy", Bet)) ELSE live
    /\ lastTrade' = IF check THEN 0 ELSE lastTrade

ContrarianOnBookUpdate(t, good) ==
    /\ strategy = "contrarian"
    /\ Enter(t, price'[t] # NoBook /\ ContrarianCheckEntry(t, good))

TboOnBookUpdate(t, good) ==
    /\ strategy = "tbo"
    /\ Enter(t, price'[t] # NoBook /\ TboCheckEntry(t, good))

TbtOnBookUpdate(t, good) ==
    /\ strategy = "tbt"
    /\ Enter(t, price'[t] # NoBook /\ TbtCheckEntry(t, good))

LateCheckEntry(t, good) == Flat(t) /\ Flat(Other(t)) /\ ~Tracked(t) /\ good

\* Mutant: the slot is not claimed, as before the entry() of the map.
LateOnBookUpdateUnclaimed(good) ==
    LET winners == {t \in Tokens : price'[t] = Win} IN
    /\ strategy = "late_entry"
    /\ lastTrade' = lastTrade
    /\ IF winners # {} /\ InEntryWindow
         THEN \E t \in winners :
                live' = IF LateCheckEntry(t, good) /\ Len(live) < MaxLive
                          THEN Append(live, Order(t, "buy", Bet)) ELSE live
         ELSE live' = live

\* Both tokens are looked at, a near-certain winner first.  The first one to be
\* checked claims the market's cooldown, whether or not it passes the rest of the
\* check, so that the other one is refused.
LateOnBookUpdate(good) ==
    LET winners == {t \in Tokens : price'[t] = Win} IN
    /\ strategy = "late_entry"
    /\ IF winners # {} /\ InEntryWindow /\ ~OnCooldown
         THEN /\ lastTrade' = 0
              /\ \E t \in winners :
                    live' = IF LateCheckEntry(t, good)
                              THEN Append(live, Order(t, "buy", Bet)) ELSE live
         ELSE UNCHANGED <<lastTrade, live>>

OnBookUpdate(t) == \E p \in Prices \union {NoBook}, good \in BOOLEAN :
    /\ price' = [price EXCEPT ![t] = p]
    /\ IF enabled
         THEN \/ LateOnBookUpdate(good)
              \/ ContrarianOnBookUpdate(t, good)
              \/ TboOnBookUpdate(t, good)
              \/ TbtOnBookUpdate(t, good)
         ELSE UNCHANGED <<lastTrade, live>>
    /\ UNCHANGED <<strategy, routed, enabled, shares, entry, exiting, clock>>

-----------------------------------------------------------------------------
(* Exits: on_tick().                                                       *)

\* Mutant: a close order that failed is never given up.
KeepPendingForever == exiting

\* retain(): a close order without a fill for 60 s counts as failed.
KeepPending == [t \in Tokens |-> IF exiting[t] > ExitExpiry THEN 0 ELSE exiting[t]]

\* retain(): positions closed by somebody else are forgotten.
KeepHeld == [t \in Tokens |-> IF Flat(t) THEN Untracked ELSE entry[t]]

\* Mutant: the pending close order is not looked at.
ExitsTwice(hold) == {t \in Tokens :
    /\ Tracked(t) /\ ~Flat(t) /\ price[t] # NoBook
    /\ entry[t].age >= hold \/ price[t] # entry[t].price}

\* Held too long, or the price left the band around that of the entry.
Exits(hold) == {t \in Tokens :
    /\ Tracked(t) /\ ~Flat(t) /\ KeepPending[t] = 0 /\ price[t] # NoBook
    /\ entry[t].age >= hold \/ price[t] # entry[t].price}

ContrarianCheckExits == Exits(ContrarianHold)
TboCheckExits == Exits(TboHold)
TbtCheckExits == Exits(TbtHold)

SellIfDue(orders, t, due) ==
    IF t \in due THEN Append(orders, Order(t, "sell", shares[t])) ELSE orders

\* Sell whatever is held of each token of `due`.
SellAll(due) == live' = SellIfDue(SellIfDue(live, "yes", due), "no", due)

CloseTracked(due) ==
    /\ entry' = KeepHeld
    /\ exiting' = [t \in Tokens |-> IF t \in due THEN 1 ELSE KeepPending[t]]
    /\ SellAll(due)

ContrarianOnTick == strategy = "contrarian" /\ CloseTracked(ContrarianCheckExits)
TboOnTick == strategy = "tbo" /\ CloseTracked(TboCheckExits)
TbtOnTick == strategy = "tbt" /\ CloseTracked(TbtCheckExits)

\* The stop-loss: no mark is left, so every tick sells again until the fill.
LateOnTick ==
    LET due == {t \in Tokens : Tracked(t) /\ ~Flat(t) /\ price[t] = Stop} IN
    /\ strategy = "late_entry"
    /\ entry' = KeepHeld
    /\ exiting' = exiting
    /\ IF Len(live) < MaxLive THEN SellAll(due) ELSE live' = live

OnTick ==
    /\ enabled
    /\ UNCHANGED <<strategy, routed, enabled, price, shares, lastTrade, clock>>
    /\ LateOnTick \/ ContrarianOnTick \/ TboOnTick \/ TbtOnTick

-----------------------------------------------------------------------------
(* Fills: the ledger's position, then on_fill() if the host delivers it.   *)

EntryFilled(t, p) ==
    /\ entry' = IF Tracked(t) THEN entry
                ELSE [entry EXCEPT ![t] = [price |-> p, age |-> 0]]
    /\ exiting' = exiting

\* Any fill of a close order ends the tracking, though shares may be left.
ExitFilled(t) ==
    /\ entry' = [entry EXCEPT ![t] = Untracked]
    /\ exiting' = [exiting EXCEPT ![t] = 0]

OnFill(t, side, p) == IF side = "buy" THEN EntryFilled(t, p) ELSE ExitFilled(t)

\* The exchange: a trade of n shares.  What is left of the order may trade on.
Fill(n) ==
    LET o == Head(live) IN
    /\ n <= o.size /\ (o.side = "sell" => n <= shares[o.token])
    /\ shares' = [shares EXCEPT ![o.token] = IF o.side = "buy" THEN @ + n ELSE @ - n]
    /\ live' = IF n = o.size THEN Tail(live) ELSE [live EXCEPT ![1].size = @ - n]
    /\ IF routed THEN OnFill(o.token, o.side, o.price) ELSE UNCHANGED <<entry, exiting>>
    /\ UNCHANGED <<strategy, routed, enabled, price, lastTrade, clock>>

\* What is left of a fill-and-kill order is killed, or the order is rejected.
KillRest ==
    /\ live' = Tail(live)
    /\ UNCHANGED <<strategy, routed, enabled, price, shares, entry, exiting,
                   lastTrade, clock>>

\* The exchange matches an order when it comes and kills what is left; a close order
\* is only sent after a trade of the entry, and one socket brings the trades in order.
Answer == live # <<>> /\ (KillRest \/ \E n \in 1..Bet : Fill(n))

-----------------------------------------------------------------------------
(* Surroundings                                                            *)

\* The position is redeemed or repaired by the sync task.
CloseElsewhere(t) ==
    /\ ~Flat(t) /\ \A i \in DOMAIN live : live[i].token # t
    /\ shares' = [shares EXCEPT ![t] = 0]
    /\ UNCHANGED <<strategy, routed, enabled, price, live, entry, exiting,
                   lastTrade, clock>>

SetEnabled ==
    /\ enabled' = ~enabled
    /\ UNCHANGED <<strategy, routed, price, shares, live, entry, exiting,
                   lastTrade, clock>>

\* Time passes, but never past the answer to an order.
Elapse ==
    /\ \A i \in DOMAIN live : live[i].age < AnswerWithin
    /\ live' = [i \in DOMAIN live |-> [live[i] EXCEPT !.age = @ + 1]]
    /\ entry' = [t \in Tokens |-> IF Tracked(t)
            THEN [entry[t] EXCEPT !.age = Min({@ + 1, MaxHold})] ELSE Untracked]
    /\ exiting' = [t \in Tokens |->
            IF exiting[t] = 0 THEN 0 ELSE Min({exiting[t] + 1, ExitExpiry + 1})]
    /\ lastTrade' = Min({lastTrade + 1, Cooldown})
    /\ clock' = IF strategy = "late_entry" THEN (clock + 1) % Interval ELSE clock
    /\ UNCHANGED <<strategy, routed, enabled, price, shares>>

DirNext ==
    \/ \E t \in Tokens : OnBookUpdate(t) \/ CloseElsewhere(t)
    \/ OnTick \/ Answer \/ SetEnabled \/ Elapse

\* The event loop ticks, orders are answered and time passes.
DirFairness == WF_dirVars(OnTick) /\ WF_dirVars(Answer) /\ WF_dirVars(Elapse)

DirSpec == DirInit /\ [][DirNext]_dirVars /\ DirFairness

-----------------------------------------------------------------------------
(* Properties *)

Orders == [token : Tokens, side : {"buy", "sell"}, size : 1..Bet,
           price : Prices \union {NoBook}, age : 0..AnswerWithin]

\* The type invariant.
DirTypeOK ==
    /\ strategy \in DirStrategies /\ routed \in Hosts /\ enabled \in BOOLEAN
    /\ price \in [Tokens -> Prices \union {NoBook}]
    /\ shares \in [Tokens -> 0..Bet]
    /\ live \in Seq(Orders)
    /\ entry \in [Tokens -> [price : Prices \union {NoBook}, age : 0..MaxHold]]
    /\ exiting \in [Tokens -> 0..ExitExpiry + 1]
    /\ lastTrade \in 0..Cooldown
    /\ clock \in 0..Interval - 1

\* The sizes of the orders for token t on one side, by their place; 0 for the others.
Sizes(orders, t, side) == [i \in DOMAIN orders |->
    IF orders[i].token = t /\ orders[i].side = side THEN orders[i].size ELSE 0]

InFlight(orders, t, side) == SumFunctionOnSet(Sizes(orders, t, side), DOMAIN orders)

\* What the market has or may get of token t, and what of it is up for sale.
Exposed(t) == shares[t] + InFlight(live, t, "buy")
Sold(t) == InFlight(live, t, "sell")

\* "Avoid double-entry": whatever the order of book updates, fills and ticks, the
\* strategy never holds, or has bought, both tokens of a market (it would pay a
\* dollar and the fees for a dollar), nor more than one bet's worth of shares.
OneBetPerMarket ==
    /\ Exposed("yes") + Exposed("no") <= Bet
    /\ Exposed("yes") = 0 \/ Exposed("no") = 0

\* "Prevents generating duplicate exit intents on consecutive ticks": the close
\* orders in flight never add up to more than is held.  late_entry leaves no mark
\* and does sell twice.
SellsCovered == strategy # "late_entry" => \A t \in Tokens : Sold(t) <= shares[t]

HoldOf == CASE strategy = "contrarian" -> ContrarianHold
            [] strategy = "tbo"        -> TboHold
            [] strategy = "tbt"        -> TbtHold
            [] OTHER                   -> MaxHold + 1

\* A position the strategy knows of, in a book it can sell into, that it must close.
MustExit(t) ==
    /\ enabled /\ Tracked(t) /\ ~Flat(t) /\ price[t] # NoBook
    /\ entry[t].age >= HoldOf \/ (strategy = "late_entry" /\ price[t] = Stop)

\* A tracked position that is due is put up for sale, again and again if the close
\* orders are killed: pending_exit never blocks it for good.
DueIsSold == \A t \in Tokens : MustExit(t) ~> (Sold(t) > 0 \/ ~MustExit(t))

\* Documented (contrarian.rs:19-23): a position is closed once it was held for
\* max_hold_secs, whatever the host does with its fills.
HeldIsSold == \A t \in Tokens :
    ~Flat(t) ~> (Sold(t) > 0 \/ Flat(t) \/ ~enabled \/ price[t] = NoBook)
=============================================================================
