---------------------------- MODULE BreakerLocks ----------------------------
(***************************************************************************)
(* risk/circuit_breaker.rs, taken apart at its locks.  CircuitBreaker runs *)
(* each method in one step; here threads interleave between the lock       *)
(* operations of a method.                                                 *)
(*                                                                         *)
(* Two guards outlive the statement that takes them and are modelled: the  *)
(* state write guard of open() and close(), held across the write of       *)
(* opened_at, and the opened_at read guard that the `if let` of            *)
(* maybe_transition_to_half_open holds across transition_to_half_open().   *)
(* Every other guard lives for one read or one write, which is one step.   *)
(* Which error made a caller trip the breaker is CircuitBreaker's matter:  *)
(* here a thread that trips simply calls open().                           *)
(***************************************************************************)
EXTENDS Naturals, FiniteSets

CONSTANTS
    Checkers,           \* threads that call is_trading_allowed
    Trippers,           \* threads that end in open(): manual_open, a fatal
                        \* result, a reconciliation failure, a daily loss
    Reporters,          \* threads that call record_order_result(None)
    Sockets,            \* threads that call record_ws_disconnect/reconnect
    Operators,          \* threads that call force_close
    HalfOpenRequired, ResetTimeout,     \* as in CircuitBreaker
    NoReason, NotOpened, NoThread

Threads == Checkers \cup Trippers \cup Reporters \cup Sockets \cup Operators

VARIABLES
    state, openReason, openedAge, halfOpenSuccesses,
    stateWriter,        \* the thread holding the write guard of `state`
    openedAtReaders,    \* the threads holding a read guard of `opened_at`
    pc                  \* where each thread is in the method it called

shared == <<state, openReason, openedAge, halfOpenSuccesses>>
vars == <<state, openReason, openedAge, halfOpenSuccesses,
          stateWriter, openedAtReaders, pc>>

States == {"Closed", "Open", "HalfOpen"}
Reasons == {"WebSocketDisconnect", "ManualTrigger"}
Steps == {"idle", "readOpenedAt", "liftHalt", "answer", "writeOpenedAt",
          "countSuccess", "close", "clearOpenedAt", "readReason", "lift"}

Init ==
    /\ state = "Closed"
    /\ openReason = NoReason
    /\ openedAge = NotOpened
    /\ halfOpenSuccesses = 0
    /\ stateWriter = NoThread
    /\ openedAtReaders = {}
    /\ pc = [t \in Threads |-> "idle"]

At(t, step) == pc[t] = step
Goto(t, step) == pc' = [pc EXCEPT ![t] = step]

\* state.read() or state.write() can be taken.  (Readers of `state` never hold
\* their guard beyond one step, so only a writer keeps a thread waiting.)
StateFree == stateWriter = NoThread

\* opened_at.write() can be taken.
OpenedAtFree == openedAtReaders = {}

-----------------------------------------------------------------------------
(* is_trading_allowed() *)

CheckReadsState(t) ==
    /\ t \in Checkers /\ At(t, "idle") /\ StateFree
    /\ Goto(t, IF state = "Open" THEN "readOpenedAt" ELSE "answer")
    /\ UNCHANGED <<shared, stateWriter, openedAtReaders>>

\* Mutant: the read guard of opened_at is dropped before `state` is locked.
CheckDropsGuard(t) ==
    /\ At(t, "readOpenedAt")
    /\ Goto(t, IF openedAge # NotOpened /\ openedAge >= ResetTimeout
               THEN "liftHalt" ELSE "answer")
    /\ UNCHANGED <<shared, stateWriter, openedAtReaders>>

\* The `if let` keeps its read guard only when the halt is old enough.
CheckReadsOpenedAt(t) ==
    /\ At(t, "readOpenedAt")
    /\ IF openedAge # NotOpened /\ openedAge >= ResetTimeout
       THEN /\ openedAtReaders' = openedAtReaders \cup {t}
            /\ Goto(t, "liftHalt")
       ELSE /\ Goto(t, "answer")
            /\ UNCHANGED openedAtReaders
    /\ UNCHANGED <<shared, stateWriter>>

\* transition_to_half_open() takes and drops the state write guard; nothing
\* looks at what `state` holds by now.
WriteHalfOpen ==
    /\ StateFree
    /\ state' = "HalfOpen"
    /\ halfOpenSuccesses' = 0
    /\ UNCHANGED <<openReason, openedAge, stateWriter>>

CheckLiftsHalt(t) ==
    /\ At(t, "liftHalt")
    /\ WriteHalfOpen
    /\ openedAtReaders' = openedAtReaders \ {t}
    /\ Goto(t, "answer")

CheckAnswers(t) ==
    /\ At(t, "answer") /\ StateFree
    /\ Goto(t, "idle")
    /\ UNCHANGED <<shared, stateWriter, openedAtReaders>>

-----------------------------------------------------------------------------
(* open() *)

OpenTakesState(t, reason) ==
    /\ t \in Trippers \cup Sockets
    /\ At(t, "idle") /\ StateFree
    /\ IF state = "Open"
       THEN UNCHANGED <<shared, stateWriter, pc>>
       ELSE /\ state' = "Open"
            /\ openReason' = reason
            /\ stateWriter' = t
            /\ Goto(t, "writeOpenedAt")
            /\ UNCHANGED <<openedAge, halfOpenSuccesses>>
    /\ UNCHANGED openedAtReaders

OpenWritesOpenedAt(t) ==
    /\ At(t, "writeOpenedAt") /\ OpenedAtFree
    /\ openedAge' = 0
    /\ halfOpenSuccesses' = 0
    /\ stateWriter' = NoThread
    /\ Goto(t, "idle")
    /\ UNCHANGED <<state, openReason, openedAtReaders>>

-----------------------------------------------------------------------------
(* close(), reached from force_close() and from the last trial success *)

CloseTakesState(t) ==
    /\ At(t, "close") \/ (t \in Operators /\ At(t, "idle"))
    /\ StateFree
    /\ state' = "Closed"
    /\ openReason' = NoReason
    /\ stateWriter' = t
    /\ Goto(t, "clearOpenedAt")
    /\ UNCHANGED <<openedAge, halfOpenSuccesses, openedAtReaders>>

\* Mutant: opened_at survives close().
CloseKeepsOpenedAt(t) ==
    /\ At(t, "clearOpenedAt") /\ OpenedAtFree
    /\ halfOpenSuccesses' = 0
    /\ stateWriter' = NoThread
    /\ Goto(t, "idle")
    /\ UNCHANGED <<state, openReason, openedAge, openedAtReaders>>

CloseClearsOpenedAt(t) ==
    /\ At(t, "clearOpenedAt") /\ OpenedAtFree
    /\ openedAge' = NotOpened
    /\ halfOpenSuccesses' = 0
    /\ stateWriter' = NoThread
    /\ Goto(t, "idle")
    /\ UNCHANGED <<state, openReason, openedAtReaders>>

-----------------------------------------------------------------------------
(* record_order_result(None) *)

\* Mutant: every success counts as one of a trial.
ResultCountsAlways(t) ==
    /\ t \in Reporters /\ At(t, "idle") /\ StateFree
    /\ Goto(t, "countSuccess")
    /\ UNCHANGED <<shared, stateWriter, openedAtReaders>>

ResultReadsState(t) ==
    /\ t \in Reporters /\ At(t, "idle") /\ StateFree
    /\ state = "HalfOpen"
    /\ Goto(t, "countSuccess")
    /\ UNCHANGED <<shared, stateWriter, openedAtReaders>>

ResultCountsSuccess(t) ==
    /\ At(t, "countSuccess")
    /\ halfOpenSuccesses' = halfOpenSuccesses + 1
    /\ Goto(t, IF halfOpenSuccesses' >= HalfOpenRequired THEN "close" ELSE "idle")
    /\ UNCHANGED <<state, openReason, openedAge, stateWriter, openedAtReaders>>

-----------------------------------------------------------------------------
(* record_ws_reconnect() *)

ReconnectReadsState(t) ==
    /\ t \in Sockets /\ At(t, "idle") /\ StateFree
    /\ state = "Open"
    /\ Goto(t, "readReason")
    /\ UNCHANGED <<shared, stateWriter, openedAtReaders>>

ReconnectReadsReason(t) ==
    /\ At(t, "readReason")
    /\ Goto(t, IF openReason = "WebSocketDisconnect" THEN "lift" ELSE "idle")
    /\ UNCHANGED <<shared, stateWriter, openedAtReaders>>

ReconnectLifts(t) ==
    /\ At(t, "lift")
    /\ WriteHalfOpen
    /\ Goto(t, "idle")
    /\ UNCHANGED openedAtReaders

-----------------------------------------------------------------------------
Tick ==
    /\ openedAge # NotOpened
    /\ openedAge < ResetTimeout
    /\ openedAge' = openedAge + 1
    /\ UNCHANGED <<state, openReason, halfOpenSuccesses,
                   stateWriter, openedAtReaders, pc>>

\* A step inside a call that has begun.
Continue(t) ==
    \/ CheckReadsOpenedAt(t) \/ CheckLiftsHalt(t) \/ CheckAnswers(t)
    \/ OpenWritesOpenedAt(t)
    \/ At(t, "close") /\ CloseTakesState(t)
    \/ CloseClearsOpenedAt(t)
    \/ ResultCountsSuccess(t)
    \/ ReconnectReadsReason(t) \/ ReconnectLifts(t)

\* The step that begins a call.
Begin(t) ==
    \/ CheckReadsState(t)
    \/ t \in Trippers /\ OpenTakesState(t, "ManualTrigger")
    \/ t \in Sockets /\ OpenTakesState(t, "WebSocketDisconnect")
    \/ At(t, "idle") /\ CloseTakesState(t)
    \/ ResultReadsState(t)
    \/ ReconnectReadsState(t)

Next == (\E t \in Threads : Begin(t) \/ Continue(t)) \/ Tick

(***************************************************************************)
(* Time passes, every call that has begun goes on when its lock is free,   *)
(* and the checkers keep asking (the heartbeat does so every 10 s).        *)
(***************************************************************************)
Fairness ==
    /\ WF_vars(Tick)
    /\ \A t \in Threads : WF_vars(Continue(t))
    /\ \A t \in Checkers : WF_vars(CheckReadsState(t))

Spec == Init /\ [][Next]_vars /\ Fairness

-----------------------------------------------------------------------------
(* Properties *)

\* The type invariant.  A thread that counts the last success goes on to close
\* the breaker, so each thread takes the counter past its limit at most once.
TypeOK ==
    /\ state \in States
    /\ openReason \in Reasons \cup {NoReason}
    /\ openedAge \in (0..ResetTimeout) \cup {NotOpened}
    /\ halfOpenSuccesses \in 0..(HalfOpenRequired - 1 + Cardinality(Reporters))
    /\ stateWriter \in Threads \cup {NoThread}
    /\ openedAtReaders \subseteq Checkers
    /\ pc \in [Threads -> Steps]

\* Whoever can read `state` reads an Open breaker that knows when and why it
\* opened, and a Closed one that has forgotten both, whatever the interleaving:
\* opened_at and reason are written under the guard of `state`.
TripRecordedWhenUnlocked ==
    StateFree =>
        /\ state = "Open" => openReason # NoReason /\ openedAge # NotOpened
        /\ state = "Closed" => openReason = NoReason /\ openedAge = NotOpened

\* is_trading_allowed starts or restarts a trial only of a breaker that was
\* tripped reset_timeout ago and not closed since ("reset_timeout: Timeout before
\* trying half-open"), though it looks at state and opened_at before it writes
\* and every other method may run in between: the read guard of opened_at that
\* outlives the `if let` keeps open() and close() from finishing.
ChecksServeHalts ==
    [][\A t \in Checkers : At(t, "liftHalt") /\ ~At(t, "liftHalt")' =>
        /\ state \in {"Open", "HalfOpen"}
        /\ openedAge # NotOpened /\ openedAge >= ResetTimeout]_vars

\* A halt is never permanent ("Auto-reset after timeout (try half-open)").
HaltsAreLifted == state = "Open" ~> state # "Open"

\* While open() or close() is between its two writes, its caller is the only
\* one that has seen the new state: the trip has no age and no successes yet.
MidMethod == \E t \in Threads : At(t, "writeOpenedAt") \/ At(t, "clearOpenedAt")

\* The interleaved breaker implements the promise of the breaker.
Promise == INSTANCE BreakerPromise WITH
    WebSocketDisconnect <- "WebSocketDisconnect",
    reason <- openReason,
    tripAge <- IF MidMethod \/ openedAge = NotOpened THEN 0 ELSE openedAge,
    successes <- IF MidMethod THEN 0 ELSE halfOpenSuccesses
=============================================================================
