--------------------------- MODULE CircuitBreaker ---------------------------
(***************************************************************************)
(* risk/circuit_breaker.rs: the breaker every order passes before it is    *)
(* submitted.  One action per method of CircuitBreaker, each taken as a    *)
(* whole (BreakerLocks takes the methods apart at their locks).            *)
(*                                                                         *)
(* Instants are kept as ages in ticks: openedAge is opened_at.elapsed(),   *)
(* NotOpened for None, and saturates at ResetTimeout; windowAge is         *)
(* window_start.elapsed() and saturates at WindowDuration.  The code only  *)
(* ever compares an age with those two durations.                          *)
(***************************************************************************)
EXTENDS Naturals

CONSTANTS
    FatalThreshold,     \* fatal_threshold            (5 in production)
    RejectNum,          \* reject_rate_threshold as   (0.20 in production)
    RejectDen,          \*   RejectNum / RejectDen
    HalfOpenRequired,   \* half_open_success_required (3 in production)
    ResetTimeout,       \* reset_timeout              (60 s in production)
    WindowDuration,     \* window_duration            (60 s in production)
    MaxCount,           \* bound on the orders recorded in one window
    NoReason,           \* open_reason = None
    NotOpened           \* opened_at = None

ASSUME ConstantsAssumption ==
    /\ FatalThreshold \in Nat \ {0}
    /\ RejectNum \in Nat
    /\ RejectDen \in Nat \ {0}
    /\ HalfOpenRequired \in Nat \ {0}
    /\ ResetTimeout \in Nat
    /\ WindowDuration \in Nat
    /\ MaxCount \in Nat

VARIABLES
    state,
    openReason,
    openedAge,
    fatalErrorCount,
    ordersSubmitted,
    ordersRejected,
    halfOpenSuccesses,
    windowAge

trip == <<state, openReason, openedAge, halfOpenSuccesses>>
window == <<fatalErrorCount, ordersSubmitted, ordersRejected, windowAge>>
vars == <<state, openReason, openedAge, halfOpenSuccesses,
          fatalErrorCount, ordersSubmitted, ordersRejected, windowAge>>

States == {"Closed", "Open", "HalfOpen"}

Reasons == {"FatalErrorThreshold", "RejectRateExceeded", "WebSocketDisconnect",
            "ReconciliationFailure", "ManualTrigger", "DailyLossExceeded"}

\* The reasons callers give open() from outside the order path.
ExternalReasons == Reasons \ {"FatalErrorThreshold", "RejectRateExceeded"}

ASSUME NoReasonAssumption == NoReason \notin Reasons
ASSUME NotOpenedAssumption == NotOpened \notin Nat

Init ==
    /\ state = "Closed"
    /\ openReason = NoReason
    /\ openedAge = NotOpened
    /\ fatalErrorCount = 0
    /\ ordersSubmitted = 0
    /\ ordersRejected = 0
    /\ halfOpenSuccesses = 0
    /\ windowAge = 0

-----------------------------------------------------------------------------
(* The private helpers *)

\* Mutant: a second trip starts the timeout again.
OpenExtending(reason) ==
    /\ state' = "Open"
    /\ openReason' = IF state = "Open" THEN openReason ELSE reason
    /\ openedAge' = 0
    /\ halfOpenSuccesses' = 0

\* Mutant: a trip out of HalfOpen keeps the successes of the failed trial.
OpenKeepingSuccesses(reason) ==
    IF state = "Open"
    THEN UNCHANGED trip
    ELSE /\ state' = "Open"
         /\ openReason' = reason
         /\ openedAge' = 0
         /\ UNCHANGED halfOpenSuccesses

\* open(): nothing happens to a breaker that is already open.
Open(reason) ==
    IF state = "Open"
    THEN UNCHANGED trip
    ELSE /\ state' = "Open"
         /\ openReason' = reason
         /\ openedAge' = 0
         /\ halfOpenSuccesses' = 0

\* reset_counters()
ClearWindow ==
    /\ fatalErrorCount' = 0
    /\ ordersSubmitted' = 0
    /\ ordersRejected' = 0
    /\ windowAge' = 0

\* Mutant: close() leaves opened_at set.
CloseKeepingOpenedAt ==
    /\ state' = "Closed"
    /\ openReason' = NoReason
    /\ halfOpenSuccesses' = 0
    /\ UNCHANGED openedAge
    /\ ClearWindow

\* Mutant: close() does not call reset_counters().
CloseKeepingCounters ==
    /\ state' = "Closed"
    /\ openReason' = NoReason
    /\ openedAge' = NotOpened
    /\ halfOpenSuccesses' = 0
    /\ UNCHANGED window

\* close(), from any state
Close ==
    /\ state' = "Closed"
    /\ openReason' = NoReason
    /\ openedAge' = NotOpened
    /\ halfOpenSuccesses' = 0
    /\ ClearWindow

\* transition_to_half_open(): reason and opened_at stay; so do the counters.
TransitionToHalfOpen ==
    /\ state' = "HalfOpen"
    /\ halfOpenSuccesses' = 0
    /\ UNCHANGED <<openReason, openedAge, window>>

\* maybe_reset_window(): what a counter of the window holds after it.
WindowOver == windowAge >= WindowDuration
Fresh(count) == IF WindowOver THEN 0 ELSE count
WindowAgeAfterReset == windowAge' = IF WindowOver THEN 0 ELSE windowAge

\* current_reject_rate() > reject_rate_threshold
RateExceeded(rejected, submitted) ==
    submitted > 0 /\ rejected * RejectDen > RejectNum * submitted

-----------------------------------------------------------------------------
(* The public methods *)

\* is_trading_allowed(), when the check itself moves an old trip to HalfOpen.
\* On every other call it reads and changes nothing.
IsTradingAllowed ==
    /\ state = "Open"
    /\ openedAge # NotOpened
    /\ openedAge >= ResetTimeout
    /\ TransitionToHalfOpen

\* What is_trading_allowed() answers once it has run.
TradingAllowed == state \in {"Closed", "HalfOpen"}

RecordOrderSubmitted ==
    /\ Fresh(ordersSubmitted) < MaxCount
    /\ WindowAgeAfterReset
    /\ fatalErrorCount' = Fresh(fatalErrorCount)
    /\ ordersSubmitted' = Fresh(ordersSubmitted) + 1
    /\ ordersRejected' = Fresh(ordersRejected)
    /\ UNCHANGED trip

\* record_order_result on anything that only rolls the window: a success while
\* the breaker is not HalfOpen, a Retryable or an Expected error.
KeepWindow ==
    /\ WindowAgeAfterReset
    /\ fatalErrorCount' = Fresh(fatalErrorCount)
    /\ ordersSubmitted' = Fresh(ordersSubmitted)
    /\ ordersRejected' = Fresh(ordersRejected)

RecordNeutralResult == KeepWindow /\ UNCHANGED trip

\* Mutant: one success more than required closes the breaker.
RecordTrialSuccessLate ==
    /\ state = "HalfOpen"
    /\ IF halfOpenSuccesses + 1 > HalfOpenRequired
       THEN Close
       ELSE /\ halfOpenSuccesses' = halfOpenSuccesses + 1
            /\ UNCHANGED <<state, openReason, openedAge>>
            /\ KeepWindow

\* record_order_result(None) in HalfOpen
RecordTrialSuccess ==
    /\ state = "HalfOpen"
    /\ IF halfOpenSuccesses + 1 >= HalfOpenRequired
       THEN Close
       ELSE /\ halfOpenSuccesses' = halfOpenSuccesses + 1
            /\ UNCHANGED <<state, openReason, openedAge>>
            /\ KeepWindow

\* record_order_result(None)
RecordSuccess ==
    \/ RecordTrialSuccess
    \/ state # "HalfOpen" /\ RecordNeutralResult

\* record_order_result(Some(Fatal))
RecordFatal ==
    LET fatal == Fresh(fatalErrorCount) + 1
        rejected == Fresh(ordersRejected) + 1
        submitted == Fresh(ordersSubmitted)
    IN  /\ fatal <= MaxCount
        /\ WindowAgeAfterReset
        /\ fatalErrorCount' = fatal
        /\ ordersRejected' = rejected
        /\ ordersSubmitted' = submitted
        /\ IF fatal >= FatalThreshold
           THEN Open("FatalErrorThreshold")
           ELSE IF RateExceeded(rejected, submitted)
                THEN Open("RejectRateExceeded")
                ELSE UNCHANGED trip

\* record_ws_disconnect, record_reconciliation_failure,
\* record_daily_loss_exceeded and manual_open
TripFromOutside(reason) == Open(reason) /\ UNCHANGED window

\* Mutant: a reconnect lifts any trip.
RecordWsReconnectAlways == state = "Open" /\ TransitionToHalfOpen

\* record_ws_reconnect()
RecordWsReconnect ==
    /\ state = "Open"
    /\ openReason = "WebSocketDisconnect"
    /\ TransitionToHalfOpen

ForceClose == Close

ResetCounters ==
    /\ ClearWindow
    /\ halfOpenSuccesses' = 0
    /\ UNCHANGED <<state, openReason, openedAge>>

\* One tick of the clock both Instants are read against.
Tick ==
    /\ openedAge' = IF openedAge = NotOpened \/ openedAge >= ResetTimeout
                    THEN openedAge ELSE openedAge + 1
    /\ windowAge' = IF WindowOver THEN windowAge ELSE windowAge + 1
    /\ UNCHANGED <<state, openReason, halfOpenSuccesses,
                   fatalErrorCount, ordersSubmitted, ordersRejected>>

Next ==
    \/ IsTradingAllowed
    \/ RecordOrderSubmitted
    \/ RecordSuccess
    \/ RecordNeutralResult
    \/ RecordFatal
    \/ \E reason \in ExternalReasons : TripFromOutside(reason)
    \/ RecordWsReconnect
    \/ ForceClose
    \/ ResetCounters
    \/ Tick

(***************************************************************************)
(* Time passes, and the orchestrator's heartbeat asks is_trading_allowed() *)
(* every few seconds whatever else happens.  Nothing else is fair: no      *)
(* caller has to record, trip, reconnect or force anything.                *)
(***************************************************************************)
Fairness == WF_vars(Tick) /\ WF_vars(IsTradingAllowed)

Spec == Init /\ [][Next]_vars /\ Fairness

-----------------------------------------------------------------------------
(* Properties *)

\* The type invariant.  The half-open successes stay below the number that
\* closes the breaker, because the success that reaches it closes at once.
TypeOK ==
    /\ state \in States
    /\ openReason \in Reasons \cup {NoReason}
    /\ openedAge \in (0..ResetTimeout) \cup {NotOpened}
    /\ fatalErrorCount \in Nat
    /\ ordersSubmitted \in Nat
    /\ ordersRejected \in Nat
    /\ halfOpenSuccesses \in 0..(HalfOpenRequired - 1)
    /\ windowAge \in 0..WindowDuration

\* The three RwLocks of state, reason and opened_at agree: reason and opened_at
\* are set exactly while the breaker has a trip to recover from, so a halted
\* breaker always has the instant that ends the halt.
TripIsRecorded ==
    /\ state = "Closed" <=> openReason = NoReason
    /\ state = "Closed" <=> openedAge = NotOpened

\* A breaker that lets orders through with nothing to recover from has not
\* seen fatal_threshold fatal errors in the current window.
ClosedBelowThreshold == state = "Closed" => fatalErrorCount < FatalThreshold

\* A trial starts from zero: no success of an earlier trial, one that failed
\* or one that ended, is left to count for the next one.
TrialStartsAtZero == state # "HalfOpen" => halfOpenSuccesses = 0

\* A halt is never permanent: whatever tripped the breaker and however often
\* it is tripped again, every Open breaker is at some time lifted.
HaltsAreLifted == state = "Open" ~> TradingAllowed

\* The breaker implements its promise.
Promise == INSTANCE BreakerPromise WITH
    WebSocketDisconnect <- "WebSocketDisconnect",
    reason <- openReason,
    tripAge <- IF openedAge = NotOpened THEN 0 ELSE openedAge,
    successes <- halfOpenSuccesses

KeepsPromise == Promise!Spec
=============================================================================
