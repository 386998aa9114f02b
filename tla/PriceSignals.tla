----------------------------- MODULE PriceSignals -----------------------------
(***************************************************************************)
(* What the directional strategies see in a token's mid prices: the drop   *)
(* (contrarian.rs), the breakout (tbo_trend.rs) and the divergence         *)
(* (tbt_divergence.rs).  One of these detectors runs.  Whether a signal    *)
(* becomes an order is up to position, cooldown and depth, which module    *)
(* Directional models and an input (`free`) stands for here.               *)
(***************************************************************************)
EXTENDS Integers, Sequences, SequencesExt

CONSTANTS
    Detectors,          \* the detectors considered
    TopMid,             \* by detector: the mids considered are 1..TopMid
    Lookback,           \* lookback_ticks, or lookback_secs of the drop
    MaxHistory,         \* max_history_len
    MinMoveBps, ThresholdBps, GapBps, PullbackBps,
    MinConfirm,         \* min_confirm_ticks
    RsiPeriod,          \* rsi_period
    SignalExpiry        \* signal_expiry_ticks

ASSUME SignalsAssumption ==
    /\ Detectors \subseteq {"drop", "breakout", "divergence"}
    /\ TopMid \in [Detectors -> Nat \ {0}]
    /\ {Lookback, MaxHistory, MinConfirm, RsiPeriod, SignalExpiry} \subseteq Nat \ {0}
    /\ {MinMoveBps, ThresholdBps, GapBps, PullbackBps} \subseteq Nat

Pair == {"yes", "no"}
Complement(t) == IF t = "yes" THEN "no" ELSE "yes"
NoMid == 0

VARIABLES
    detector,           \* the configuration
    mid,                \* mid of each token's book; NoMid: a side is missing
    history,            \* price_history, newest first: [mid, age]
    confirm,            \* breakout_confirm
    signal,             \* divergence_signal of "yes": mid at detection, ticks since
    intent,             \* the tokens bought by the last update
    rises,              \* ghost: own updates in a row that rose above the one before
    waited              \* ghost: updates since the detection of the signal

Mids == 1..TopMid[detector]

signalVars == <<detector, mid, history, confirm, signal, intent, rises, waited>>

NoSignal == [mid |-> NoMid, ticks |-> 0]

SignalsInit ==
    /\ detector \in Detectors
    /\ mid = [t \in Pair |-> NoMid]
    /\ history = [t \in Pair |-> <<>>]
    /\ confirm = [t \in Pair |-> 0]
    /\ signal = NoSignal /\ intent = {}
    /\ rises = [t \in Pair |-> 0] /\ waited = 0

Capped(h, n) == SubSeq(h, 1, Min({Len(h), n}))
Push(h, m) == <<[mid |-> m, age |-> 0]>> \o h
MidsOf(h) == {h[i].mid : i \in DOMAIN h}

-----------------------------------------------------------------------------
(* contrarian.rs                                                           *)

\* update_price_history(): what is older than the window leaves at the back.
InWindow(h) == SubSeq(h, 1, Max({i \in DOMAIN h : h[i].age <= Lookback}))
TimedPush(h, m) == Capped(InWindow(Push(h, m)), MaxHistory)

\* compute_velocity() <= -min_move: against the oldest mid that is remembered.
Dropped(h) ==
    /\ Len(h) >= 2
    /\ (h[1].mid - Last(h).mid) * 10000 <= -MinMoveBps * Last(h).mid

DropOnBookUpdate(m, free) ==
    /\ detector = "drop"
    /\ history' = [history EXCEPT !["yes"] = TimedPush(@, m)]
    /\ intent' = IF Dropped(history'["yes"]) /\ free THEN {"yes"} ELSE {}
    /\ UNCHANGED <<confirm, signal, rises, waited>>

\* The history ages.
Aged(h) == [i \in DOMAIN h |-> [h[i] EXCEPT !.age = Min({@ + 1, Lookback + 1})]]
Age ==
    /\ detector = "drop"
    /\ history' = [history EXCEPT !["yes"] = Aged(@)]
    /\ intent' = {}
    /\ UNCHANGED <<detector, mid, confirm, signal, rises, waited>>

-----------------------------------------------------------------------------
(* tbo_trend.rs                                                            *)

TboPush(h, m) == Capped(Push(h, m), Lookback)

\* The update of a token also repeats the complement's last mid in its history.
TboHistories(t, m) == [u \in Pair |->
    CASE u = t                    -> TboPush(history[u], m)
      [] u # t /\ mid[u] # NoMid  -> TboPush(history[u], mid[u])
      [] OTHER                    -> history[u]]

\* Above the rolling high of everything but the update itself, by the threshold.
Above(h) == h[1].mid * 10000 > Max(MidsOf(Tail(h)) \union
    (IF Len(h) = 1 THEN {h[1].mid} ELSE {})) * (10000 + ThresholdBps)

\* Mutant: a fall below the level leaves the count as it is.
TboConfirmKept(t, m, free) ==
    LET h == TboHistories(t, m)[t]
        count == confirm[t] + 1
        fires == count >= MinConfirm /\ free
    IN  IF Len(h) >= Lookback /\ Above(h)
          THEN /\ confirm' = [confirm EXCEPT ![t] = IF fires THEN 0 ELSE Min({count, MinConfirm})]
               /\ intent' = IF fires THEN {t} ELSE {}
          ELSE UNCHANGED confirm /\ intent' = {}

\* Enough updates in a row above the level fire; one below starts again.
\* (The count saturates at MinConfirm, beyond which the code does not look.)
TboConfirm(t, m, free) ==
    LET h == TboHistories(t, m)[t]
        count == confirm[t] + 1
        fires == count >= MinConfirm /\ free
    IN  CASE Len(h) < Lookback -> UNCHANGED confirm /\ intent' = {}
          [] Len(h) >= Lookback /\ Above(h) ->
                /\ confirm' = [confirm EXCEPT ![t] =
                        IF fires THEN 0 ELSE Min({count, MinConfirm})]
                /\ intent' = IF fires THEN {t} ELSE {}
          [] OTHER -> confirm' = [confirm EXCEPT ![t] = 0] /\ intent' = {}

BreakoutOnBookUpdate(t, m, free) ==
    /\ detector = "breakout"
    /\ history' = TboHistories(t, m)
    /\ TboConfirm(t, m, free)
    /\ rises' = [rises EXCEPT ![t] =
            IF history[t] = <<>> \/ m <= history[t][1].mid THEN 0 ELSE Min({@ + 1, MinConfirm})]
    /\ UNCHANGED <<signal, waited>>

-----------------------------------------------------------------------------
(* tbt_divergence.rs                                                       *)

TbtPush(h, m) == Capped(Push(h, m), Lookback)

\* compute_rsi() of the window that begins at index i: <<gains, gains + losses>>
\* (the averages and the factor of 100 cancel in comparisons); without losses it
\* is 100, that is <<1, 1>>.
Rsi(h, i) ==
    LET change(j) == h[j].mid - h[j + 1].mid
        window == i..(i + RsiPeriod - 1)
        gains == MapThenSumSet(LAMBDA j : Max({change(j), 0}), window)
        losses == MapThenSumSet(LAMBDA j : Max({-change(j), 0}), window)
    IN  IF losses = 0 THEN <<1, 1>> ELSE <<gains, gains + losses>>

Higher(r, s) == r[1] * s[2] > s[1] * r[2]

\* The first, and so the newest, of the lowest mids among the indices of w.
LowIn(h, w) == CHOOSE i \in w :
    \A j \in w : h[i].mid < h[j].mid \/ (h[i].mid = h[j].mid /\ i <= j)

\* detect_divergence(): a lower low in the newer half of the history with a higher
\* RSI.  A low too near the end of the history has no RSI, and so no divergence; nor has
\* a history with nothing in its newer half.
Divergence(h) ==
    LET half == Len(h) \div 2
        recent == LowIn(h, 1..half)
        older == LowIn(h, half + 1..Len(h))
    IN  /\ half # 0
        /\ h[recent].mid < h[older].mid
        /\ (h[older].mid - h[recent].mid) * 10000 >= GapBps * h[older].mid
        /\ Max({recent, older}) + RsiPeriod <= Len(h)
        /\ Higher(Rsi(h, recent), Rsi(h, older))

\* A pending signal ages by one with every update; it ends when it expires or when
\* the mid has pulled back, and only then is there an entry.
PendingSignal(m, free) ==
    LET ticks == signal.ticks + 1
        expired == ticks > SignalExpiry
        pulledBack == m * 10000 <= signal.mid * (10000 - PullbackBps)
    IN
    /\ signal # NoSignal
    /\ signal' = IF expired \/ pulledBack THEN NoSignal ELSE [signal EXCEPT !.ticks = ticks]
    /\ intent' = IF ~expired /\ pulledBack /\ free THEN {"yes"} ELSE {}

\* Otherwise look for one.
ScanForDivergence(h, m) ==
    /\ signal = NoSignal
    /\ signal' = IF Divergence(h) THEN [mid |-> m, ticks |-> 0] ELSE NoSignal
    /\ intent' = {}

DivergenceOnBookUpdate(m, free) ==
    /\ detector = "divergence"
    /\ history' = [history EXCEPT !["yes"] = TbtPush(@, m)]
    /\ IF Len(history'["yes"]) < Lookback THEN UNCHANGED signal /\ intent' = {}
       ELSE PendingSignal(m, free) \/ ScanForDivergence(history'["yes"], m)
    /\ waited' = IF signal = NoSignal THEN 0 ELSE Min({waited + 1, SignalExpiry + 1})
    /\ UNCHANGED <<confirm, rises>>

-----------------------------------------------------------------------------
MidUpdate(t) == \E m \in Mids, free \in BOOLEAN :
    /\ mid' = [mid EXCEPT ![t] = m]
    /\ \/ t = "yes" /\ DropOnBookUpdate(m, free)
       \/ BreakoutOnBookUpdate(t, m, free)
       \/ t = "yes" /\ DivergenceOnBookUpdate(m, free)
    /\ UNCHANGED detector

\* The book loses a side: on_book_update() returns before it looks at anything.
LoseMid(t) ==
    /\ detector = "breakout"
    /\ mid' = [mid EXCEPT ![t] = NoMid]
    /\ intent' = {}
    /\ UNCHANGED <<detector, history, confirm, signal, rises, waited>>

SignalsNext == Age \/ \E t \in Pair : MidUpdate(t) \/ LoseMid(t)

SignalsSpec == SignalsInit /\ [][SignalsNext]_signalVars

-----------------------------------------------------------------------------
(* Properties *)

\* The type invariant.
SignalsTypeOK ==
    /\ detector \in Detectors
    /\ mid \in [Pair -> Mids \union {NoMid}]
    /\ history \in [Pair -> Seq([mid : Mids, age : 0..Lookback + 1])]
    /\ confirm \in [Pair -> 0..MinConfirm]
    /\ signal \in [mid : Mids \union {NoMid}, ticks : 0..SignalExpiry]
    /\ intent \subseteq Pair
    /\ rises \in [Pair -> 0..MinConfirm]
    /\ waited \in 0..SignalExpiry + 1

\* "Mid-price fell >= min_move_bps within the last lookback_secs seconds": a drop
\* that is acted on is one from a mid of the window, never from a mid that a quiet
\* spell has left behind in the history.
DropsAreRecent == (detector = "drop" /\ intent # {}) =>
    LET h == history["yes"] IN
    \E i \in DOMAIN h : /\ h[i].age <= Lookback
                        /\ (h[i].mid - h[1].mid) * 10000 >= MinMoveBps * h[i].mid

\* "Filters single-tick spikes": an entry on a breakout was preceded by as many own
\* updates in a row as asked for that each rose, whatever the complement's updates
\* pushed into the history in between.
SpikesFiltered == detector = "breakout" =>
    \A t \in intent : rises[t] >= MinConfirm

\* "Lower price low but higher RSI low": when a signal is fresh, the lowest mid of
\* the newer half lies below all of the older half, and the momentum at it is higher
\* than at some lowest mid of the older half.
SignalsDiverge ==
    LET h == history["yes"]
        newer == 1..(Lookback \div 2)
        older == (Lookback \div 2 + 1)..Lookback
    IN  (signal # NoSignal /\ signal.ticks = 0) =>
            \E i \in newer :
                /\ \A j \in older : h[i].mid < h[j].mid
                /\ \A j \in newer : h[i].mid <= h[j].mid
                /\ \E j \in older : /\ \A k \in older : h[j].mid <= h[k].mid
                                   /\ j + RsiPeriod <= Lookback
                                   /\ Higher(Rsi(h, i), Rsi(h, j))

\* An entry on a divergence comes within signal_expiry_ticks updates of it.
SignalsExpire == (detector = "divergence" /\ intent # {}) => waited <= SignalExpiry

\* What the four strategies' documentation says of their signals.
SignalsAsDocumented == DropsAreRecent /\ SpikesFiltered /\ SignalsDiverge /\ SignalsExpire
=============================================================================
