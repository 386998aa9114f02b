------------------------------ MODULE PriceFeed ------------------------------
(***************************************************************************)
(* feeds/{mod,binance}.rs: the record of an external price that the        *)
(* temporal arbitrage reads, and the task that keeps it.  The connection   *)
(* may fail to open, break or be closed; the task then sleeps and opens it *)
(* again.  Only the trades of one symbol are considered: records do not    *)
(* share anything else than the connection.                                *)
(*                                                                         *)
(* Ghosts: `origin` is the age of window_open, since it was received as a  *)
(* price; `spoiled`, that the window was opened after a silence longer     *)
(* than itself.  Ages grow no further than is told apart.                  *)
(***************************************************************************)
EXTENDS Integers, FiniteSetsExt

CONSTANTS
    FeedPrices,
    Window,             \* WINDOW_SECS
    FirstDelay,         \* RECONNECT_DELAY_SECS
    MaxDelay,           \* MAX_DELAY_SECS
    Quiet               \* bound: an open stream brings a trade in less than this

ASSUME FeedAssumption ==
    /\ FeedPrices \subseteq Nat \ {0} /\ Window \in Nat \ {0}
    /\ FirstDelay \in Nat \ {0} /\ MaxDelay \in Nat /\ FirstDelay <= MaxDelay
    /\ Quiet \in Nat \ {0}

VARIABLES
    connected,          \* connect_and_stream() reads its stream
    delay,              \* delay_secs
    sleep,              \* what is left of the sleep before the next connection
    record,             \* ExternalPriceRecord, price 0: none
    origin, spoiled     \* ghosts

feedVars == <<connected, delay, sleep, record, origin, spoiled>>

NoRecord == [price |-> 0, open |-> 0, updated |-> 0, started |-> 0, change |-> 0]

FeedInit ==
    /\ connected = FALSE /\ delay = FirstDelay /\ sleep = 0
    /\ record = NoRecord /\ origin = 0 /\ spoiled = FALSE

Connect ==
    /\ ~connected /\ sleep = 0 /\ connected' = TRUE
    /\ UNCHANGED <<delay, sleep, record, origin, spoiled>>

\* run(): an attempt that fails and a stream that breaks double the delay, then the
\* task sleeps; it makes no difference whether messages had come.
Fails ==
    /\ sleep = 0 /\ connected' = FALSE
    /\ delay' = Min({2 * delay, MaxDelay}) /\ sleep' = delay'
    /\ UNCHANGED <<record, origin, spoiled>>

Closed ==
    /\ connected /\ connected' = FALSE
    /\ delay' = FirstDelay /\ sleep' = delay'
    /\ UNCHANGED <<record, origin, spoiled>>

\* Decimal::trunc, for b > 0.
Truncated(a, b) == IF a < 0 THEN -((-a) \div b) ELSE a \div b

ChangeBps(p, open) == Truncated((p - open) * 10000, open)

\* Mutant: the window lasts a second more than window_secs.
RollsLate == record.started > Window

\* The window has lasted window_secs.
Rolls == record.started >= Window

\* update(): the old price, however old, is where the next window starts.
Update(p) ==
    LET open == IF Rolls THEN record.price ELSE record.open IN
    /\ record' = [price |-> p, open |-> open, updated |-> 0,
                  started |-> IF Rolls THEN 0 ELSE record.started,
                  change |-> ChangeBps(p, open)]
    /\ origin' = IF Rolls THEN record.updated ELSE origin
    /\ spoiled' = IF Rolls THEN record.updated > Window ELSE spoiled

\* process_message()
ProcessMessage(p) ==
    /\ connected
    /\ IF record = NoRecord
       THEN /\ record' = [NoRecord EXCEPT !.price = p, !.open = p]
            /\ origin' = 0 /\ spoiled' = FALSE
       ELSE Update(p)
    /\ UNCHANGED <<connected, delay, sleep>>

Oldest == 2 * Window + 1

FeedElapse ==
    /\ (connected /\ record # NoRecord) => record.updated + 1 < Quiet
    /\ sleep' = Max({0, sleep - 1})
    /\ record' = IF record = NoRecord THEN NoRecord
                 ELSE [record EXCEPT !.updated = Min({@ + 1, Oldest}),
                                     !.started = Min({@ + 1, Window + 1})]
    /\ origin' = IF record = NoRecord THEN 0 ELSE Min({origin + 1, Oldest})
    /\ UNCHANGED <<connected, delay, spoiled>>

FeedNext ==
    \/ Connect \/ Fails \/ Closed \/ FeedElapse
    \/ \E p \in FeedPrices : ProcessMessage(p)

FeedSpec == FeedInit /\ [][FeedNext]_feedVars

-----------------------------------------------------------------------------
(* Properties *)

\* A record has both prices or is none.
Records == {NoRecord} \union
    [price : FeedPrices, open : FeedPrices, updated : 0..Oldest, started : 0..Window + 1,
     change : Int]

\* The type invariant.
FeedTypeOK ==
    /\ connected \in BOOLEAN /\ spoiled \in BOOLEAN
    /\ delay \in FirstDelay..MaxDelay /\ sleep \in 0..MaxDelay
    /\ record \in Records /\ origin \in 0..Oldest

\* Documented (feeds/mod.rs:43-46): the change that a trade shows is a short-term one,
\* over less than the last window and the one before.
MomentumIsRecent == record.updated = 0 => origin < 2 * Window

\* A silence longer than a window spoils the window it ends with and no other: from the
\* next window on the change is short-term again.  And no move falls between two
\* windows: each starts at a price from before its start.
SilenceSpoilsOneWindow ==
    record.updated = 0 => (spoiled \/ MomentumIsRecent) /\ record.started <= origin
=============================================================================
