-------------------------- MODULE ConcurrencyProofs --------------------------
(***************************************************************************)
(* Proofs about what runs beside each other.                               *)
(*                                                                         *)
(* BreakerLocks: for any number of threads of every kind, whoever can read *)
(* `state` finds the reason and the instant that belong to it, and a check *)
(* starts a trial only of a halt that has lasted; threads that ask, trip   *)
(* and force it closed implement the abstract breaker, one lock operation  *)
(* at a time.                                                              *)
(*                                                                         *)
(* EventLoop and Router: for any markets, strategies and messages, a trip  *)
(* of the breaker is announced once, an arb's legs stay together, and the  *)
(* feed is what the registry can look up.                                  *)
(***************************************************************************)
EXTENDS EventLoop, BreakerLocks, TLAPS

-----------------------------------------------------------------------------
(* The locks of the breaker *)

\* What marks the absence of a thread, a reason and an instant is none of them.
LocksAssumption ==
    /\ ResetTimeout \in Nat
    /\ NoThread \notin Threads
    /\ NoReason \notin Reasons
    /\ NotOpened \notin Nat

LocksTypes ==
    /\ state \in States
    /\ openReason \in Reasons \cup {NoReason}
    /\ openedAge \in (0..ResetTimeout) \cup {NotOpened}
    /\ stateWriter \in Threads \cup {NoThread}
    /\ pc \in [Threads -> Steps]

\* Between the two writes of open() and of close(), and only there, a thread holds the
\* write guard of `state`.
OneWriter == \A t \in Threads :
    stateWriter = t <=> pc[t] \in {"writeOpenedAt", "clearOpenedAt"}

\* What open() and close() have written by then.
HalfWritten == \A t \in Threads :
    /\ pc[t] = "writeOpenedAt" => state = "Open" /\ openReason # NoReason
    /\ pc[t] = "clearOpenedAt" => state = "Closed" /\ openReason = NoReason

\* A thread about to lift a halt keeps others from writing opened_at, so the age it
\* has read does not change under it.
LiftersRead == \A t \in Threads : pc[t] = "liftHalt" =>
    t \in openedAtReaders /\ openedAge # NotOpened /\ openedAge >= ResetTimeout

LocksIInv ==
    /\ LocksTypes
    /\ OneWriter
    /\ HalfWritten
    /\ LiftersRead
    /\ TripRecordedWhenUnlocked

-----------------------------------------------------------------------------

\* The breaker's locks start inside the invariant.
LEMMA LocksInitHolds ==
    ASSUME LocksAssumption, Init
    PROVE  LocksIInv
  BY DEF LocksAssumption, Init, LocksIInv, LocksTypes, OneWriter, HalfWritten, LiftersRead,
         TripRecordedWhenUnlocked, StateFree, States, Steps

\* Nobody is between two writes while `state` can be taken.
LEMMA FreeOfWriters ==
    ASSUME LocksAssumption, OneWriter, StateFree, NEW t \in Threads
    PROVE  pc[t] \notin {"writeOpenedAt", "clearOpenedAt"}
  BY DEF LocksAssumption, OneWriter, StateFree

\* A step that neither takes nor drops a guard but that of its own thread on opened_at.
LEMMA QuietStep ==
    ASSUME LocksAssumption, LocksIInv, NEW t \in Threads,
           NEW step \in Steps \ {"writeOpenedAt", "clearOpenedAt", "liftHalt"},
           pc[t] \notin {"writeOpenedAt", "clearOpenedAt"},
           Goto(t, step), openedAge' = openedAge, stateWriter' = stateWriter,
           openReason' = openReason,
           openedAtReaders \ {t} \subseteq openedAtReaders',
           \/ state' = state
           \/ StateFree /\ state' = "HalfOpen"
    PROVE  LocksIInv'
<1>0. LocksTypes /\ OneWriter /\ HalfWritten /\ LiftersRead /\ TripRecordedWhenUnlocked
  BY DEF LocksIInv
<1>1. LocksTypes'
  BY <1>0 DEF LocksTypes, Goto, States
<1>2. \A u \in Threads : pc'[u] = IF u = t THEN step ELSE pc[u]
  BY <1>0 DEF LocksTypes, Goto
<1>3. OneWriter'
  BY <1>0, <1>2 DEF OneWriter
<1>4. HalfWritten'
  <2>1. CASE state' = state
    BY <1>0, <1>2, <2>1 DEF HalfWritten
  <2>2. CASE StateFree
    BY <1>0, <1>2, <2>2, FreeOfWriters DEF HalfWritten
  <2> QED
    BY <2>1, <2>2
<1>5. LiftersRead'
  BY <1>0, <1>2 DEF LiftersRead
<1>6. TripRecordedWhenUnlocked'
  BY <1>0 DEF TripRecordedWhenUnlocked, StateFree
<1> QED
  BY <1>1, <1>3, <1>4, <1>5, <1>6 DEF LocksIInv

\* The first write of open() and of close(): nothing else is under way on `state`.
LEMMA GuardTaken ==
    ASSUME LocksAssumption, LocksIInv, NEW t \in Threads, StateFree,
           pc[t] # "liftHalt",
           openedAge' = openedAge, openedAtReaders' = openedAtReaders, stateWriter' = t,
           \/ /\ Goto(t, "writeOpenedAt") /\ state' = "Open"
              /\ openReason' \in Reasons
           \/ Goto(t, "clearOpenedAt") /\ state' = "Closed" /\ openReason' = NoReason
    PROVE  LocksIInv'
<1>0. LocksTypes /\ OneWriter /\ HalfWritten /\ LiftersRead
  BY DEF LocksIInv
<1>a. PICK step \in {"writeOpenedAt", "clearOpenedAt"} :
        /\ Goto(t, step)
        /\ step = "writeOpenedAt" => state' = "Open" /\ openReason' \in Reasons
        /\ step = "clearOpenedAt" => state' = "Closed" /\ openReason' = NoReason
  OBVIOUS
<1>1. LocksTypes'
  <2>1. state' \in States /\ openReason' \in Reasons \cup {NoReason}
    BY DEF States
  <2>2. pc' \in [Threads -> Steps]
    BY <1>0, <1>a DEF LocksTypes, Goto, Steps
  <2> QED
    BY <1>0, <2>1, <2>2 DEF LocksTypes
<1>2. \A u \in Threads : pc'[u] = IF u = t THEN step ELSE pc[u]
  BY <1>0, <1>a DEF LocksTypes, Goto
<1>3. \A u \in Threads : pc[u] \notin {"writeOpenedAt", "clearOpenedAt"}
  BY <1>0, FreeOfWriters
<1>4. OneWriter'
  BY <1>2, <1>3 DEF OneWriter
<1>5. HalfWritten'
  BY <1>a, <1>2, <1>3 DEF HalfWritten, LocksAssumption
<1>6. LiftersRead'
  BY <1>0, <1>2 DEF LiftersRead
<1>7. ~StateFree'
  BY DEF StateFree, LocksAssumption
<1> QED
  BY <1>1, <1>4, <1>5, <1>6, <1>7 DEF LocksIInv, TripRecordedWhenUnlocked

\* The second write of open() and of close(): nobody reads opened_at.
LEMMA GuardDropped ==
    ASSUME LocksAssumption, LocksIInv, NEW t \in Threads, OpenedAtFree,
           Goto(t, "idle"), stateWriter' = NoThread,
           state' = state, openReason' = openReason, openedAtReaders' = openedAtReaders,
           \/ pc[t] = "writeOpenedAt" /\ openedAge' = 0
           \/ pc[t] = "clearOpenedAt" /\ openedAge' = NotOpened
    PROVE  LocksIInv'
<1>0. LocksTypes /\ OneWriter /\ HalfWritten /\ LiftersRead
  BY DEF LocksIInv
<1>1. LocksTypes'
  BY <1>0 DEF LocksTypes, Goto, Steps, LocksAssumption
<1>2. \A u \in Threads : pc'[u] = IF u = t THEN "idle" ELSE pc[u]
  BY <1>0 DEF LocksTypes, Goto
<1>3. stateWriter = t
  BY <1>0 DEF OneWriter
<1>4. \A u \in Threads : pc'[u] \notin {"writeOpenedAt", "clearOpenedAt"}
  BY <1>0, <1>2, <1>3 DEF OneWriter
<1>5. OneWriter' /\ HalfWritten'
  BY <1>4 DEF OneWriter, HalfWritten, LocksAssumption
<1>6. LiftersRead'
  BY <1>0, <1>2 DEF LiftersRead, OpenedAtFree
<1>7. TripRecordedWhenUnlocked'
  <2>1. CASE pc[t] = "writeOpenedAt"
    <3>1. state = "Open" /\ openReason # NoReason /\ openedAge' = 0
      BY <1>0, <2>1 DEF HalfWritten
    <3> QED
      BY <3>1 DEF TripRecordedWhenUnlocked, LocksAssumption
  <2>2. CASE pc[t] = "clearOpenedAt"
    <3>1. state = "Closed" /\ openReason = NoReason /\ openedAge' = NotOpened
      BY <1>0, <2>2 DEF HalfWritten
    <3> QED
      BY <3>1 DEF TripRecordedWhenUnlocked
  <2> QED
    BY <2>1, <2>2
<1> QED
  BY <1>1, <1>5, <1>6, <1>7 DEF LocksIInv

\* The clock keeps the invariant, whichever calls are half way.
LEMMA LocksTickPreserves ==
    ASSUME LocksAssumption, LocksIInv, Tick
    PROVE  LocksIInv'
<1>0. LocksTypes /\ OneWriter /\ HalfWritten /\ LiftersRead /\ TripRecordedWhenUnlocked
  BY DEF LocksIInv
<1>1. /\ openedAge \in 0..ResetTimeout /\ openedAge' = openedAge + 1
      /\ openedAge < ResetTimeout
      /\ UNCHANGED <<state, openReason, stateWriter, openedAtReaders, pc>>
  BY <1>0 DEF Tick, LocksTypes
<1>2. openedAge' \in 0..ResetTimeout /\ openedAge' # NotOpened /\ openedAge' >= openedAge
  BY <1>1 DEF LocksAssumption
<1>3. LocksTypes'
  BY <1>0, <1>1, <1>2 DEF LocksTypes
<1>4. OneWriter' /\ HalfWritten'
  BY <1>0, <1>1 DEF OneWriter, HalfWritten
<1>5. LiftersRead'
  BY <1>0, <1>1, <1>2 DEF LiftersRead, LocksAssumption
<1>6. TripRecordedWhenUnlocked'
  <2>1. StateFree => state # "Closed"
    BY <1>0, <1>1 DEF TripRecordedWhenUnlocked, LocksAssumption
  <2> QED
    BY <1>0, <1>1, <1>2, <2>1 DEF TripRecordedWhenUnlocked, StateFree
<1> QED
  BY <1>3, <1>4, <1>5, <1>6 DEF LocksIInv

\* A call that begins keeps the invariant.
LEMMA BeginPreserves ==
    ASSUME LocksAssumption, LocksIInv, NEW t \in Threads, Begin(t)
    PROVE  LocksIInv'
<1>1. CASE CheckReadsState(t)
  <2>1. \E step \in {"readOpenedAt", "answer"} : Goto(t, step)
    BY <1>1 DEF CheckReadsState
  <2>2. /\ pc[t] = "idle"
        /\ UNCHANGED <<state, openReason, openedAge, stateWriter, openedAtReaders>>
    BY <1>1 DEF CheckReadsState, At, shared
  <2> QED
    BY <2>1, <2>2, QuietStep DEF Steps
<1>2. ASSUME NEW reason \in Reasons, OpenTakesState(t, reason)
      PROVE  LocksIInv'
  <2>1. CASE state = "Open"
    <3>1. UNCHANGED vars
      BY <1>2, <2>1 DEF OpenTakesState, vars, shared
    <3> QED
      BY <3>1 DEF vars, LocksIInv, LocksTypes, OneWriter, HalfWritten, LiftersRead,
                  TripRecordedWhenUnlocked, StateFree
  <2>2. CASE state # "Open"
    BY <1>2, <2>2, GuardTaken DEF OpenTakesState, At
  <2> QED
    BY <2>1, <2>2
<1>3. CASE At(t, "idle") /\ CloseTakesState(t)
  BY <1>3, GuardTaken DEF CloseTakesState, At
<1>4. CASE ResultReadsState(t)
  BY <1>4, QuietStep DEF ResultReadsState, At, shared, Steps
<1>5. CASE ReconnectReadsState(t)
  BY <1>5, QuietStep DEF ReconnectReadsState, At, shared, Steps
<1>6. "ManualTrigger" \in Reasons /\ "WebSocketDisconnect" \in Reasons
  BY DEF Reasons
<1> QED
  BY <1>1, <1>2, <1>3, <1>4, <1>5, <1>6 DEF Begin

\* A call that goes on past a lock or an atomic keeps the invariant, whatever ran in between.
LEMMA ContinuePreserves ==
    ASSUME LocksAssumption, LocksIInv, NEW t \in Threads, Continue(t)
    PROVE  LocksIInv'
<1>1. CASE CheckReadsOpenedAt(t)
  <2>1. CASE openedAge # NotOpened /\ openedAge >= ResetTimeout
    <3>0. LocksTypes /\ OneWriter /\ HalfWritten /\ LiftersRead /\ TripRecordedWhenUnlocked
      BY DEF LocksIInv
    <3>1. /\ pc[t] = "readOpenedAt" /\ Goto(t, "liftHalt")
          /\ openedAtReaders' = openedAtReaders \cup {t}
          /\ UNCHANGED <<state, openReason, openedAge, stateWriter>>
      BY <1>1, <2>1 DEF CheckReadsOpenedAt, At, shared
    <3>2. \A u \in Threads : pc'[u] = IF u = t THEN "liftHalt" ELSE pc[u]
      BY <3>0, <3>1 DEF LocksTypes, Goto
    <3>3. LocksTypes'
      BY <3>0, <3>1 DEF LocksTypes, Goto, Steps
    <3>4. OneWriter' /\ HalfWritten'
      BY <3>0, <3>1, <3>2 DEF OneWriter, HalfWritten
    <3>5. LiftersRead'
      BY <3>0, <3>1, <3>2, <2>1 DEF LiftersRead
    <3>6. TripRecordedWhenUnlocked'
      BY <3>0, <3>1 DEF TripRecordedWhenUnlocked, StateFree
    <3> QED
      BY <3>3, <3>4, <3>5, <3>6 DEF LocksIInv
  <2>2. CASE ~(openedAge # NotOpened /\ openedAge >= ResetTimeout)
    BY <1>1, <2>2, QuietStep DEF CheckReadsOpenedAt, At, shared, Steps
  <2> QED
    BY <2>1, <2>2
<1>2. CASE CheckLiftsHalt(t)
  BY <1>2, QuietStep DEF CheckLiftsHalt, WriteHalfOpen, At, Steps
<1>3. CASE CheckAnswers(t)
  BY <1>3, QuietStep DEF CheckAnswers, At, shared, Steps
<1>4. CASE OpenWritesOpenedAt(t)
  BY <1>4, GuardDropped DEF OpenWritesOpenedAt, At
<1>5. CASE At(t, "close") /\ CloseTakesState(t)
  BY <1>5, GuardTaken DEF CloseTakesState, At
<1>6. CASE CloseClearsOpenedAt(t)
  BY <1>6, GuardDropped DEF CloseClearsOpenedAt, At
<1>7. CASE ResultCountsSuccess(t)
  <2>1. \E step \in {"close", "idle"} : Goto(t, step)
    BY <1>7 DEF ResultCountsSuccess
  <2> QED
    BY <1>7, <2>1, QuietStep DEF ResultCountsSuccess, At, Steps
<1>8. CASE ReconnectReadsReason(t)
  <2>1. \E step \in {"lift", "idle"} : Goto(t, step)
    BY <1>8 DEF ReconnectReadsReason
  <2> QED
    BY <1>8, <2>1, QuietStep DEF ReconnectReadsReason, At, shared, Steps
<1>9. CASE ReconnectLifts(t)
  BY <1>9, QuietStep DEF ReconnectLifts, WriteHalfOpen, At, Steps
<1> QED
  BY <1>1, <1>2, <1>3, <1>4, <1>5, <1>6, <1>7, <1>8, <1>9 DEF Continue

\* Every reachable state of the threads satisfies the inductive invariant.
THEOREM LocksIInvHolds == LocksAssumption => (Spec => []LocksIInv)
<1> SUFFICES ASSUME LocksAssumption PROVE Spec => []LocksIInv
  OBVIOUS
<1>1. Init => LocksIInv
  BY LocksInitHolds
<1>2. LocksIInv /\ [Next]_vars => LocksIInv'
  <2> SUFFICES ASSUME LocksIInv, [Next]_vars PROVE LocksIInv'
    OBVIOUS
  <2>1. CASE UNCHANGED vars
    BY <2>1 DEF vars, LocksIInv, LocksTypes, OneWriter, HalfWritten, LiftersRead,
                TripRecordedWhenUnlocked, StateFree
  <2> QED
    BY <2>1, BeginPreserves, ContinuePreserves, LocksTickPreserves DEF Next
<1> QED
  BY <1>1, <1>2, PTL DEF Spec

\* Whoever can read `state` finds the reason and the instant that were written or
\* cleared with it, with any number of callers of every kind.
THEOREM LocksAlwaysRecord == LocksAssumption => (Spec => []TripRecordedWhenUnlocked)
<1>1. LocksIInv => TripRecordedWhenUnlocked
  BY DEF LocksIInv
<1> QED
  BY <1>1, LocksIInvHolds, PTL

\* A thread that is about to lift a halt leaves that step by lifting it.
LEMMA LifterLifts ==
    ASSUME LocksTypes, Next, NEW t \in Threads,
           At(t, "liftHalt"), ~At(t, "liftHalt")'
    PROVE  CheckLiftsHalt(t)
<1>0. pc \in [Threads -> Steps] /\ pc[t] = "liftHalt" /\ pc' # pc
  BY DEF LocksTypes, At
<1>1. ~Tick
  BY <1>0 DEF Tick
<1>2. ASSUME NEW u \in Threads, Begin(u) \/ Continue(u) PROVE u = t
  <2>1. ASSUME Begin(u) PROVE \E step : Goto(u, step)
    BY <1>0, <2>1 DEF Begin, CheckReadsState, OpenTakesState, CloseTakesState,
        ResultReadsState, ReconnectReadsState
  <2>2. ASSUME Continue(u) PROVE \E step : Goto(u, step)
    <3>1. CASE \/ CheckReadsOpenedAt(u) \/ CheckLiftsHalt(u) \/ CheckAnswers(u)
               \/ OpenWritesOpenedAt(u) \/ CloseTakesState(u) \/ CloseClearsOpenedAt(u)
      BY <3>1 DEF CheckReadsOpenedAt, CheckLiftsHalt, CheckAnswers, OpenWritesOpenedAt,
                  CloseTakesState, CloseClearsOpenedAt
    <3>2. CASE ResultCountsSuccess(u) \/ ReconnectReadsReason(u) \/ ReconnectLifts(u)
      BY <3>2 DEF ResultCountsSuccess, ReconnectReadsReason, ReconnectLifts
    <3> QED
      BY <2>2, <3>1, <3>2 DEF Continue
  <2>3. PICK step : pc' = [pc EXCEPT ![u] = step]
    BY <1>2, <2>1, <2>2 DEF Goto
  <2> QED
    BY <1>0, <2>3 DEF At
<1>3. ~Begin(t)
  BY <1>0 DEF Begin, At, CheckReadsState, OpenTakesState, CloseTakesState,
              ResultReadsState, ReconnectReadsState
<1>4. Continue(t) => CheckLiftsHalt(t)
  BY <1>0 DEF Continue, At, CheckReadsOpenedAt, CheckAnswers, OpenWritesOpenedAt,
              CloseClearsOpenedAt, ResultCountsSuccess, ReconnectReadsReason, ReconnectLifts
<1> QED
  BY <1>1, <1>2, <1>3, <1>4 DEF Next

\* However the locks of all its methods interleave, is_trading_allowed starts a trial
\* only of a breaker whose last trip is reset_timeout old.
THEOREM ChecksAlwaysServe == LocksAssumption => (Spec => ChecksServeHalts)
<1> SUFFICES ASSUME LocksAssumption PROVE Spec => ChecksServeHalts
  OBVIOUS
<1>1. ASSUME LocksIInv, Next, NEW t \in Checkers, At(t, "liftHalt"), ~At(t, "liftHalt")'
      PROVE  /\ state \in {"Open", "HalfOpen"}
             /\ openedAge # NotOpened /\ openedAge >= ResetTimeout
  <2>1. t \in Threads
    BY DEF Threads
  <2>2. StateFree
    BY <1>1, <2>1, LifterLifts DEF LocksIInv, CheckLiftsHalt, WriteHalfOpen
  <2>3. openedAge # NotOpened /\ openedAge >= ResetTimeout
    BY <1>1, <2>1 DEF LocksIInv, LiftersRead, At, LocksAssumption
  <2>4. state # "Closed"
    BY <1>1, <2>2, <2>3 DEF LocksIInv, TripRecordedWhenUnlocked
  <2> QED
    BY <1>1, <2>3, <2>4 DEF LocksIInv, LocksTypes, States
<1>2. LocksIInv /\ [Next]_vars =>
        [\A t \in Checkers : At(t, "liftHalt") /\ ~At(t, "liftHalt")' =>
            /\ state \in {"Open", "HalfOpen"}
            /\ openedAge # NotOpened /\ openedAge >= ResetTimeout]_vars
  BY <1>1
<1>3. Spec => []LocksIInv
  BY LocksIInvHolds
<1> QED
  BY <1>2, <1>3, PTL DEF Spec, ChecksServeHalts

-----------------------------------------------------------------------------
(* Threads that ask, that trip and that force the breaker closed *)

\* Nobody reports a result or a connection: those methods write on the strength of a
\* state they read under an earlier guard.
NoReports == Reporters = {} /\ Sockets = {}

QuietSteps == {"idle", "readOpenedAt", "liftHalt", "answer", "writeOpenedAt", "clearOpenedAt"}

\* Nobody counts successes.
NoTrial ==
    /\ \A t \in Threads : pc[t] \in QuietSteps
    /\ halfOpenSuccesses = 0

\* While nobody reports a result or a connection, no step has anyone count successes.
LEMMA NoTrialPreserved ==
    ASSUME NoReports, LocksIInv, NoTrial, [Next]_vars
    PROVE  NoTrial'
<1>0. LocksTypes
  BY DEF LocksIInv
<1>1. ASSUME NEW t \in Threads, NEW step \in QuietSteps, Goto(t, step)
      PROVE  \A u \in Threads : pc'[u] \in QuietSteps
  <2>1. \A u \in Threads : pc'[u] = IF u = t THEN step ELSE pc[u]
    BY <1>0, <1>1 DEF LocksTypes, Goto
  <2> QED
    BY <2>1 DEF NoTrial
<1>2. ASSUME NEW t \in Threads, Begin(t) PROVE NoTrial'
  <2>1. CASE CheckReadsState(t)
    BY <1>1, <2>1 DEF CheckReadsState, shared, NoTrial, QuietSteps
  <2>2. CASE t \in Trippers /\ OpenTakesState(t, "ManualTrigger")
    BY <1>1, <2>2 DEF OpenTakesState, shared, NoTrial, QuietSteps
  <2>3. CASE CloseTakesState(t)
    BY <1>1, <2>3 DEF CloseTakesState, NoTrial, QuietSteps
  <2> QED
    BY <1>2, <2>1, <2>2, <2>3
       DEF Begin, NoReports, ResultReadsState, ReconnectReadsState
<1>3. ASSUME NEW t \in Threads, Continue(t) PROVE NoTrial'
  <2>1. CASE CheckReadsOpenedAt(t)
    BY <1>1, <2>1 DEF CheckReadsOpenedAt, shared, NoTrial, QuietSteps
  <2>2. CASE CheckLiftsHalt(t)
    BY <1>1, <2>2 DEF CheckLiftsHalt, WriteHalfOpen, NoTrial, QuietSteps
  <2>3. CASE CheckAnswers(t)
    BY <1>1, <2>3 DEF CheckAnswers, shared, NoTrial, QuietSteps
  <2>4. CASE OpenWritesOpenedAt(t)
    BY <1>1, <2>4 DEF OpenWritesOpenedAt, NoTrial, QuietSteps
  <2>5. CASE CloseClearsOpenedAt(t)
    BY <1>1, <2>5 DEF CloseClearsOpenedAt, NoTrial, QuietSteps
  <2>6. ~At(t, "close") /\ ~ResultCountsSuccess(t)
        /\ ~ReconnectReadsReason(t) /\ ~ReconnectLifts(t)
    BY DEF NoTrial, QuietSteps, At, ResultCountsSuccess, ReconnectReadsReason, ReconnectLifts
  <2> QED
    BY <1>3, <2>1, <2>2, <2>3, <2>4, <2>5, <2>6 DEF Continue
<1>4. CASE Tick
  BY <1>4 DEF Tick, NoTrial
<1>5. CASE UNCHANGED vars
  BY <1>5 DEF vars, NoTrial
<1> QED
  BY <1>2, <1>3, <1>4, <1>5 DEF Next

\* A method is between its writes exactly while `state` cannot be taken.
LEMMA MidIsLocked ==
    ASSUME LocksAssumption, LocksTypes, OneWriter
    PROVE  MidMethod <=> ~StateFree
  BY DEF LocksAssumption, LocksTypes, OneWriter, MidMethod, StateFree, At

\* A check that lifts the halt is the promise's own expiry.
LEMMA AskerRefines ==
    ASSUME LocksAssumption, LocksIInv, LocksIInv', NoTrial, NoTrial', NEW t \in Threads,
           CheckLiftsHalt(t)
    PROVE  Promise!Next
<1>0. /\ LocksTypes /\ OneWriter /\ LiftersRead /\ TripRecordedWhenUnlocked
      /\ LocksTypes' /\ OneWriter'
  BY DEF LocksIInv
<1>1. /\ pc[t] = "liftHalt" /\ StateFree /\ state' = "HalfOpen"
      /\ UNCHANGED <<openReason, openedAge, stateWriter>>
  BY DEF CheckLiftsHalt, WriteHalfOpen, At
<1>2. ~MidMethod
  BY <1>0, <1>1, MidIsLocked
<1>3. ~MidMethod'
  BY <1>0, <1>1, MidIsLocked DEF MidMethod, OneWriter, LocksTypes, At, StateFree, LocksAssumption
<1>4. openedAge = ResetTimeout /\ openedAge # NotOpened
  BY <1>0, <1>1 DEF LiftersRead, LocksTypes, LocksAssumption
<1>5. state \in {"Open", "HalfOpen"}
  BY <1>0, <1>1, <1>4 DEF TripRecordedWhenUnlocked, LocksTypes, States
<1>6. CASE state = "Open"
  <2>1. Promise!Probe
    BY <1>1, <1>2, <1>3, <1>4, <1>6 DEF Promise!Probe, NoTrial
  <2> QED
    BY <2>1 DEF Promise!Next
<1>7. CASE state = "HalfOpen"
  <2>1. Promise!ForgetSuccesses
    BY <1>1, <1>2, <1>3, <1>4, <1>7 DEF Promise!ForgetSuccesses, NoTrial
  <2> QED
    BY <2>1 DEF Promise!Next
<1> QED
  BY <1>5, <1>6, <1>7

\* While nobody reports a result or a connection, a step of any thread is a step of the promise or a stutter.
LEMMA LockStepRefines ==
    ASSUME LocksAssumption, NoReports, LocksIInv, LocksIInv', NoTrial, NoTrial',
           [Next]_vars
    PROVE  Promise!Next \/ UNCHANGED Promise!vars
<1>0. /\ LocksTypes /\ OneWriter /\ HalfWritten /\ TripRecordedWhenUnlocked
      /\ LocksTypes' /\ OneWriter'
  BY DEF LocksIInv
<1>m. MidMethod <=> ~StateFree
  BY <1>0, MidIsLocked
<1>n. MidMethod' <=> ~StateFree'
  BY <1>0 DEF LocksAssumption, LocksTypes, OneWriter, MidMethod, StateFree, At
\* A step that writes no field.
<1>1. ASSUME UNCHANGED <<shared, stateWriter>> PROVE UNCHANGED Promise!vars
  <2>1. MidMethod' <=> MidMethod
    BY <1>1, <1>m, <1>n DEF StateFree
  <2> QED
    BY <1>1, <2>1 DEF shared, Promise!vars
<1>2. ASSUME NEW t \in Threads, Begin(t) PROVE Promise!Next \/ UNCHANGED Promise!vars
  <2>1. CASE CheckReadsState(t)
    BY <1>1, <2>1 DEF CheckReadsState
  <2>2. CASE t \in Trippers /\ OpenTakesState(t, "ManualTrigger")
    <3>1. CASE state = "Open"
      BY <1>1, <2>2, <3>1 DEF OpenTakesState
    <3>2. CASE state # "Open"
      <4>1. /\ state' = "Open" /\ openReason' = "ManualTrigger"
            /\ stateWriter' = t
        BY <2>2, <3>2 DEF OpenTakesState
      <4>2. MidMethod'
        BY <1>n, <4>1 DEF StateFree, LocksAssumption
      <4>3. Promise!Trip("ManualTrigger")
        BY <3>2, <4>1, <4>2 DEF Promise!Trip
      <4> QED
        BY <4>3 DEF Promise!Next, Reasons
    <3> QED
      BY <3>1, <3>2
  <2>3. CASE CloseTakesState(t)
    <3>1. /\ state' = "Closed" /\ openReason' = NoReason
          /\ stateWriter' = t
      BY <2>3 DEF CloseTakesState
    <3>2. MidMethod'
      BY <1>n, <3>1 DEF StateFree, LocksAssumption
    <3>3. Promise!ForceClose
      BY <3>1, <3>2 DEF Promise!ForceClose, Promise!Closed
    <3> QED
      BY <3>3 DEF Promise!Next
  <2> QED
    BY <1>2, <2>1, <2>2, <2>3
       DEF Begin, NoReports, ResultReadsState, ReconnectReadsState
<1>3. ASSUME NEW t \in Threads, Continue(t) PROVE Promise!Next \/ UNCHANGED Promise!vars
  <2>1. CASE CheckReadsOpenedAt(t)
    BY <1>1, <2>1 DEF CheckReadsOpenedAt
  <2>2. CASE CheckLiftsHalt(t)
    BY <2>2, AskerRefines
  <2>3. CASE CheckAnswers(t)
    BY <1>1, <2>3 DEF CheckAnswers
  <2>4. CASE OpenWritesOpenedAt(t)
    <3>1. /\ openedAge' = 0 /\ halfOpenSuccesses' = 0 /\ stateWriter' = NoThread
          /\ state' = state /\ openReason' = openReason
      BY <2>4 DEF OpenWritesOpenedAt
    <3>2. MidMethod /\ ~MidMethod'
      BY <1>n, <2>4, <3>1 DEF StateFree, OpenWritesOpenedAt, MidMethod
    <3> QED
      BY <3>1, <3>2 DEF Promise!vars, LocksAssumption
  <2>5. CASE CloseClearsOpenedAt(t)
    <3>1. /\ openedAge' = NotOpened /\ halfOpenSuccesses' = 0 /\ stateWriter' = NoThread
          /\ state' = state /\ openReason' = openReason
      BY <2>5 DEF CloseClearsOpenedAt
    <3>2. MidMethod /\ ~MidMethod'
      BY <1>n, <2>5, <3>1 DEF StateFree, CloseClearsOpenedAt, MidMethod
    <3> QED
      BY <3>1, <3>2 DEF Promise!vars
  <2>6. ~At(t, "close") /\ ~ResultCountsSuccess(t)
        /\ ~ReconnectReadsReason(t) /\ ~ReconnectLifts(t)
    BY DEF NoTrial, QuietSteps, At, ResultCountsSuccess, ReconnectReadsReason, ReconnectLifts
  <2> QED
    BY <1>3, <2>1, <2>2, <2>3, <2>4, <2>5, <2>6 DEF Continue
<1>4. CASE Tick
  <2>1. /\ openedAge # NotOpened /\ openedAge < ResetTimeout /\ openedAge' = openedAge + 1
        /\ UNCHANGED <<state, openReason, halfOpenSuccesses, stateWriter>>
    BY <1>4 DEF Tick
  <2>2. MidMethod' <=> MidMethod
    BY <1>m, <1>n, <2>1 DEF StateFree
  <2>3. openedAge' # NotOpened
    BY <1>0, <2>1 DEF LocksTypes, LocksAssumption
  <2>4. CASE MidMethod
    BY <2>1, <2>2, <2>4 DEF Promise!vars
  <2>5. CASE ~MidMethod
    <3>1. state # "Closed"
      BY <1>0, <1>m, <2>1, <2>5 DEF TripRecordedWhenUnlocked
    <3>2. Promise!Tick
      BY <2>1, <2>2, <2>3, <2>5, <3>1 DEF Promise!Tick
    <3> QED
      BY <3>2 DEF Promise!Next
  <2> QED
    BY <2>4, <2>5
<1>5. CASE UNCHANGED vars
  BY <1>1, <1>5 DEF vars, shared
<1> QED
  BY <1>2, <1>3, <1>4, <1>5 DEF Next

\* Any number of threads that ask, that trip and that force the breaker closed,
\* interleaved lock by lock, do to it what its abstract specification allows.
THEOREM InterleavedRefinement ==
    LocksAssumption /\ NoReports => (Spec => Promise!Safe)
<1> SUFFICES ASSUME LocksAssumption, NoReports PROVE Spec => Promise!Safe
  OBVIOUS
<1>1. Init => NoTrial /\ Promise!Init
  BY DEF Init, NoTrial, QuietSteps, Promise!Init
<1>2. NoTrial /\ LocksIInv /\ [Next]_vars => NoTrial'
  BY NoTrialPreserved
<1>3. LocksIInv /\ LocksIInv' /\ NoTrial /\ NoTrial' /\ [Next]_vars
          => [Promise!Next]_(Promise!vars)
  BY LockStepRefines
<1>4. Spec => []LocksIInv
  BY LocksIInvHolds
<1> QED
  BY <1>1, <1>2, <1>3, <1>4, PTL DEF Spec, Promise!Safe

-----------------------------------------------------------------------------
(* The event loop *)

USE RouterAssumption, LoopAssumption

\* What keeps the heartbeat from a second alert: once it has announced a trip, the
\* breaker it remembers is open for as long as the breaker is, or will be when the alert
\* that is on its way is sent.
Announced ==
    /\ open \in BOOLEAN /\ wasOpen \in BOOLEAN
    /\ alerts \in 0..1
    /\ alerts = 1 /\ open => wasOpen \/ phase = "alerting"

EnabledRegistered == enabled \subseteq Strategies

LoopIInv ==
    /\ Announced
    /\ EnabledRegistered
    /\ LegsStayTogether
    /\ FeedIsRegistered

\* The intents of a call in which no leg of a group lacks the other.
Together(intents) == \A i \in intents : i.grouped =>
    \A t \in TokensOf(i.token[1]) :
        \E j \in intents : j.grouped /\ j.strategy = i.strategy /\ j.token = t

-----------------------------------------------------------------------------
(* The router *)

\* What all strategies answer together is made of whole answers of single ones.
LEMMA WholeAnswers ==
    ASSUME NEW answersOf, DOMAIN answersOf \subseteq DOMAIN EntryPriority,
           NEW intents \in Answers(answersOf), NEW i \in intents
    PROVE  \E s \in DOMAIN answersOf : \E a \in answersOf[s] : i \in a /\ a \subseteq intents
<1> DEFINE Of(s) == IF s \in DOMAIN answersOf THEN answersOf[s] ELSE {{}}
           calls == [math : Of("math"), temporal : Of("temporal"), maker : Of("maker"),
                     late_entry : Of("late_entry"), contrarian : Of("contrarian"),
                     tbo : Of("tbo"), tbt : Of("tbt")]
<1>1. PICK call \in calls : intents = UNION {call[s] : s \in DOMAIN answersOf}
  BY DEF Answers
<1>2. PICK s \in DOMAIN answersOf : i \in call[s]
  BY <1>1
<1>3. s \in {"math", "temporal", "maker", "late_entry", "contrarian", "tbo", "tbt"}
  BY DEF EntryPriority
<1>4. call[s] \in Of(s)
  BY <1>1, <1>3
<1> QED
  BY <1>1, <1>2, <1>4

\* Only entries of the paired strategies are grouped, and those come with both legs.
LEMMA AnswersTogether ==
    /\ \A s, m : \A a \in UpdateAnswers(s, m) : Together(a)
    /\ \A s : \A a \in TickAnswers(s) \union ShutdownAnswers(s) : \A i \in a : ~i.grouped
<1>1. ASSUME NEW s, NEW m, NEW a \in UpdateAnswers(s, m) PROVE Together(a)
  <2> SUFFICES ASSUME NEW i \in a, i.grouped, NEW t \in TokensOf(i.token[1])
               PROVE  \E j \in a : j.grouped /\ j.strategy = i.strategy /\ j.token = t
    BY DEF Together
  <2>1. PICK u \in TokensOf(m) : i = Intent(s, u, FALSE)
    BY DEF UpdateAnswers
  <2>2. s \in Paired
    BY <2>1 DEF Intent
  <2>3. a = {Intent(s, v, FALSE) : v \in TokensOf(m)}
    BY <2>2 DEF UpdateAnswers
  <2>4. i.token[1] = m
    BY <2>1 DEF Intent, TokensOf
  <2>5. Intent(s, t, FALSE) \in a
    BY <2>3, <2>4
  <2> QED
    BY <2>1, <2>2, <2>5 DEF Intent
<1>2. ASSUME NEW s, NEW a \in TickAnswers(s) \union ShutdownAnswers(s), NEW i \in a
      PROVE  ~i.grouped
  <2>1. PICK t : i = Intent(s, t, TRUE)
    BY DEF TickAnswers, ShutdownAnswers
  <2>2. Intent(s, t, TRUE).grouped = (s \in Paired /\ ~TRUE)
    BY DEF Intent
  <2> QED
    BY <2>1, <2>2
<1> QED
  BY <1>1, <1>2

\* No leg of a group loses a conflict, so that the pair survives it.
LEMMA ResolveTogether ==
    ASSUME NEW intents, Together(intents)
    PROVE  Together(Resolve(intents))
  BY DEF Together, Resolve

\* Every batch a strategy can return, on a book, a tick or at shutdown, holds both legs of its groups.
LEMMA CallsTogether ==
    ASSUME enabled \subseteq Strategies
    PROVE  /\ \A m : \A intents \in OnBookUpdate(m) : Together(intents)
           /\ \A intents \in OnTick \union OnShutdown : Together(intents)
<1>0. Strategies \subseteq DOMAIN EntryPriority
  OBVIOUS
<1>1. ASSUME NEW m, NEW intents \in OnBookUpdate(m) PROVE Together(intents)
  <2> DEFINE answersOf == [s \in Evaluated(m) |-> UpdateAnswers(s, m)]
  <2>1. PICK all \in Answers(answersOf) : intents = Resolve(all)
    BY DEF OnBookUpdate
  <2>2. DOMAIN answersOf \subseteq DOMAIN EntryPriority
    BY <1>0 DEF Evaluated
  <2>3. Together(all)
    <3> SUFFICES ASSUME NEW i \in all, i.grouped, NEW t \in TokensOf(i.token[1])
                 PROVE  \E j \in all : j.grouped /\ j.strategy = i.strategy /\ j.token = t
      BY DEF Together
    <3>1. PICK s \in DOMAIN answersOf : \E a \in answersOf[s] : i \in a /\ a \subseteq all
      <4> HIDE DEF answersOf
      <4> QED
        BY <2>1, <2>2, WholeAnswers
    <3>2. PICK a \in UpdateAnswers(s, m) : i \in a /\ a \subseteq all
      BY <3>1
    <3> QED
      BY <3>2, AnswersTogether DEF Together
  <2> QED
    BY <2>1, <2>3, ResolveTogether
<1>2. ASSUME NEW intents \in OnTick PROVE \A i \in intents : ~i.grouped
  <2> DEFINE answersOf == [s \in enabled |-> TickAnswers(s)]
  <2>1. PICK all \in Answers(answersOf) : intents = Resolve(all)
    BY DEF OnTick
  <2>2. ASSUME NEW i \in all PROVE ~i.grouped
    <3>1. DOMAIN answersOf \subseteq DOMAIN EntryPriority
      BY <1>0
    <3>2. PICK s \in DOMAIN answersOf : \E a \in answersOf[s] : i \in a
      <4> HIDE DEF answersOf
      <4> QED
        BY <2>1, <3>1, WholeAnswers
    <3> QED
      BY <3>2, AnswersTogether
  <2> QED
    BY <2>1, <2>2 DEF Resolve
<1>3. ASSUME NEW intents \in OnShutdown, NEW i \in intents PROVE ~i.grouped
  <2> DEFINE answersOf == [s \in Strategies |-> ShutdownAnswers(s)]
  <2>1. DOMAIN answersOf \subseteq DOMAIN EntryPriority
    BY <1>0
  <2>2. PICK s \in DOMAIN answersOf : \E a \in answersOf[s] : i \in a
    <3>1. intents \in Answers(answersOf)
      BY DEF OnShutdown
    <3> HIDE DEF answersOf
    <3> QED
      BY <2>1, <3>1, WholeAnswers
  <2> QED
    BY <2>2, AnswersTogether
<1> QED
  BY <1>1, <1>2, <1>3 DEF Together

\* However many markets come and go at once, the two indexes stay in step.
LEMMA SyncKeepsIndexes ==
    ASSUME NEW found, SyncRegistry(found),
           byToken = UNION {TokensOf(m) : m \in byCondition}
    PROVE  byToken' = UNION {TokensOf(m) : m \in byCondition'}
<1>1. \A m, n : m # n => TokensOf(m) \intersect TokensOf(n) = {}
  BY DEF TokensOf
<1>2. /\ byCondition' = found
      /\ byToken' = (byToken \union UNION {TokensOf(m) : m \in found \ byCondition})
                        \ UNION {TokensOf(m) : m \in byCondition \ found}
  BY DEF SyncRegistry
<1> QED
  BY <1>1, <1>2

-----------------------------------------------------------------------------
(* The invariant *)

\* The property the runs check says that of the batch being executed.
LEMMA BatchTogether == LegsStayTogether <=> Together(batch)
  BY DEF LegsStayTogether, Together

\* Every step of the loop and of what runs beside it either hands the intents of one
\* call to an execution or none.
LEMMA StepKeepsLegs == LoopIInv /\ [LoopNext]_loopVars => LegsStayTogether'
<1> SUFFICES ASSUME LoopIInv, [LoopNext]_loopVars PROVE Together(batch')
  BY DEF LegsStayTogether, Together
<1>1. /\ \A m : \A intents \in OnBookUpdate(m) : Together(intents)
      /\ \A intents \in OnTick \union OnShutdown : Together(intents)
  BY CallsTogether DEF LoopIInv, EnabledRegistered
<1>2. Together({}) /\ Together(batch)
  BY BatchTogether DEF LoopIInv, Together
<1>3. ASSUME NEW intents, Together(intents), ProcessIntents(intents) PROVE Together(batch')
  BY <1>2, <1>3 DEF ProcessIntents
<1>4. NoIntents => Together(batch')
  BY <1>2 DEF NoIntents
<1>5. batch' = {} \/ batch' = batch => Together(batch')
  BY <1>2
<1>6. CASE HandleMarketMessage
  BY <1>1, <1>3, <1>4, <1>6 DEF HandleMarketMessage
<1>7. CASE HandleTick
  BY <1>1, <1>3, <1>7 DEF HandleTick
<1>8. CASE Shutdown
  BY <1>1, <1>3, <1>8 DEF Shutdown
<1>9. CASE HandleUserMessage \/ LogHeartbeat \/ Alerted \/ RefreshMarkets \/ Refreshed \/ RefreshFailed
             \/ CheckKilled \/ Suspend \/ Resume
  BY <1>4, <1>9 DEF HandleUserMessage, LogHeartbeat, Alerted, RefreshMarkets, Refreshed,
                    RefreshFailed, CheckKilled, Suspend, Resume
<1>10. CASE Exit
  BY <1>5, <1>10 DEF Exit
<1>11. CASE MarketMessage \/ UserMessage \/ TaskDone \/ Recover \/ KillFile \/ KillStore
              \/ KillNotify
  BY <1>5, <1>11 DEF MarketMessage, UserMessage, TaskDone, Recover, KillFile, KillStore,
                     KillNotify
<1>12. ASSUME NEW timer \in Timers, Elapses(timer) PROVE Together(batch')
  BY <1>5, <1>12 DEF Elapses
<1>13. ASSUME NEW p \in BOOLEAN, SetPaused(p) PROVE Together(batch')
  BY <1>5, <1>13 DEF SetPaused
<1>14. ASSUME NEW s \in Switched, SetEnabled(s) PROVE Together(batch')
  BY <1>5, <1>14 DEF SetEnabled
<1>15. CASE UNCHANGED loopVars
  BY <1>5, <1>15 DEF loopVars
<1> QED
  BY <1>6, <1>7, <1>8, <1>9, <1>10, <1>11, <1>12, <1>13, <1>14, <1>15 DEF LoopNext, LoopStep

\* Only the heartbeat, a trip and a recovery touch what the alerts depend on.
LEMMA StepKeepsAnnounced == LoopIInv /\ [LoopNext]_loopVars => Announced'
<1> SUFFICES ASSUME Announced, [LoopNext]_loopVars PROVE Announced'
  BY DEF LoopIInv
<1>1. CASE LogHeartbeat
  BY <1>1 DEF LogHeartbeat, NoMessages, Announced
<1>8. CASE Alerted
  BY <1>8 DEF Alerted, Announced
<1>2. CASE TaskDone
  BY <1>2 DEF TaskDone, Announced
<1>3. CASE Recover
  BY <1>3 DEF Recover, Announced
<1>4. CASE UNCHANGED breakerVars /\ (phase = "alerting" => phase' = phase)
  BY <1>4 DEF breakerVars, Announced
<1>5. CASE HandleMarketMessage \/ HandleUserMessage \/ HandleTick \/ RefreshMarkets
             \/ Refreshed \/ RefreshFailed \/ CheckKilled \/ Suspend \/ Resume \/ Shutdown
             \/ Exit \/ MarketMessage \/ UserMessage \/ KillFile \/ KillStore \/ KillNotify
  BY <1>4, <1>5 DEF HandleMarketMessage, HandleUserMessage, HandleTick, RefreshMarkets,
         Refreshed, RefreshFailed, CheckKilled, Suspend, Resume, Shutdown, Exit,
         MarketMessage, UserMessage, KillFile, KillStore, KillNotify, NoMessages, Idle
<1>6. CASE \/ \E timer \in Timers : Elapses(timer)
           \/ \E p \in BOOLEAN : SetPaused(p)
           \/ \E s \in Switched : SetEnabled(s)
  BY <1>4, <1>6 DEF Elapses, SetPaused, SetEnabled
<1>7. CASE UNCHANGED loopVars
  BY <1>4, <1>7 DEF loopVars, breakerVars
<1> QED
  BY <1>1, <1>2, <1>3, <1>5, <1>6, <1>7, <1>8 DEF LoopNext, LoopStep

\* Only a refresh changes the registry, only the API the set of enabled strategies;
\* the feed follows in the same step.
LEMMA StepKeepsFeed == LoopIInv /\ [LoopNext]_loopVars => FeedIsRegistered' /\ EnabledRegistered'
<1> SUFFICES ASSUME FeedIsRegistered, EnabledRegistered, [LoopNext]_loopVars
             PROVE  FeedIsRegistered' /\ EnabledRegistered'
  BY DEF LoopIInv
<1>1. CASE /\ UNCHANGED <<routerVars, feed>>
           /\ phase' \notin {"leaving", "exited"} => phase \notin {"leaving", "exited"}
  BY <1>1 DEF routerVars, FeedIsRegistered, EnabledRegistered
<1>2. CASE HandleMarketMessage \/ HandleUserMessage \/ HandleTick \/ LogHeartbeat \/ Alerted
  BY <1>1, <1>2 DEF HandleMarketMessage, HandleUserMessage, HandleTick, LogHeartbeat, Alerted,
                    NoMessages
<1>3. CASE RefreshMarkets \/ RefreshFailed \/ CheckKilled \/ Suspend \/ Resume
  BY <1>1, <1>3 DEF RefreshMarkets, RefreshFailed, CheckKilled, Suspend, Resume, Idle,
                    NoMessages
<1>4. CASE Refreshed
  <2>1. PICK found \in SUBSET Markets :
          /\ phase = "refreshing" /\ phase' = "select"
          /\ IF found = byCondition THEN UNCHANGED <<marketQ, feed, routerVars>>
             ELSE SyncRegistry(found) /\ feed' = FeedAfter /\ marketQ' = 0
    BY <1>4 DEF Refreshed
  <2>2. CASE found = byCondition
    BY <1>1, <2>1, <2>2
  <2>3. CASE found # byCondition
    <3>1. SyncRegistry(found) /\ feed' = byCondition'
      BY <2>1, <2>3 DEF FeedAfter
    <3>2. enabled' = enabled
      BY <3>1 DEF SyncRegistry
    <3>3. byToken' = UNION {TokensOf(m) : m \in byCondition'}
      BY <3>1, SyncKeepsIndexes DEF FeedIsRegistered
    <3> QED
      BY <3>1, <3>2, <3>3 DEF FeedIsRegistered, EnabledRegistered
  <2> QED
    BY <2>2, <2>3
<1>5. CASE Shutdown \/ Exit
  BY <1>5 DEF Shutdown, Exit, routerVars, FeedIsRegistered, EnabledRegistered
<1>6. CASE MarketMessage \/ UserMessage \/ TaskDone \/ Recover \/ KillFile \/ KillStore
             \/ KillNotify
  BY <1>1, <1>6 DEF MarketMessage, UserMessage, TaskDone, Recover, KillFile, KillStore,
                    KillNotify
<1>7. CASE (\E timer \in Timers : Elapses(timer)) \/ \E p \in BOOLEAN : SetPaused(p)
  BY <1>1, <1>7 DEF Elapses, SetPaused
<1>8. ASSUME NEW s \in Switched, SetEnabled(s) PROVE FeedIsRegistered' /\ EnabledRegistered'
  BY <1>8 DEF SetEnabled, Enable, Disable, FeedIsRegistered, EnabledRegistered
<1>9. CASE UNCHANGED loopVars
  BY <1>1, <1>9 DEF loopVars, routerVars
<1> QED
  BY <1>2, <1>3, <1>4, <1>5, <1>6, <1>7, <1>8, <1>9 DEF LoopNext, LoopStep

\* Every reachable state of the loop satisfies the inductive invariant.
THEOREM LoopIInvHolds == LoopSpec => []LoopIInv
<1>1. LoopInit => LoopIInv
  <2> SUFFICES ASSUME LoopInit PROVE LoopIInv
    OBVIOUS
  <2>1. open = FALSE /\ wasOpen = FALSE /\ alerts = 1 /\ enabled = Strategies
    BY DEF LoopInit, RouterInit
  <2>4. EnabledRegistered
    BY <2>1 DEF EnabledRegistered
  <2>5. open \in BOOLEAN /\ wasOpen \in BOOLEAN /\ ~open
    BY <2>1
  <2>6. alerts \in 0..1
    BY <2>1
  <2>7. Announced
    BY <2>5, <2>6 DEF Announced
  <2>2. LegsStayTogether
    BY DEF LoopInit, LegsStayTogether
  <2>3. FeedIsRegistered
    BY DEF LoopInit, RouterInit, FeedIsRegistered
  <2> QED
    BY <2>2, <2>3, <2>4, <2>7 DEF LoopIInv
<1>2. LoopIInv /\ [LoopNext]_loopVars => LoopIInv'
  BY StepKeepsLegs, StepKeepsAnnounced, StepKeepsFeed DEF LoopIInv
<1> QED
  BY <1>1, <1>2, PTL DEF LoopSpec

\* A trip of the breaker is never announced twice, however it recovers and trips again
\* between two heartbeats.
THEOREM AlwaysAlertedOnce == LoopSpec => []AlertedOnce
<1>1. LoopIInv => AlertedOnce
  BY DEF LoopIInv, Announced, AlertedOnce
<1> QED
  BY <1>1, LoopIInvHolds, PTL

\* An arb's legs reach the execution together, whatever other strategies want.
THEOREM LegsAlwaysTogether == LoopSpec => []LegsStayTogether
<1>1. LoopIInv => LegsStayTogether
  BY DEF LoopIInv
<1> QED
  BY <1>1, LoopIInvHolds, PTL

\* The bot listens to exactly the tokens its registry knows, after any refreshes.
THEOREM FeedAlwaysRegistered == LoopSpec => []FeedIsRegistered
<1>1. LoopIInv => FeedIsRegistered
  BY DEF LoopIInv
<1> QED
  BY <1>1, LoopIInvHolds, PTL
=============================================================================
