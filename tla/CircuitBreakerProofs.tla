------------------------ MODULE CircuitBreakerProofs ------------------------
(***************************************************************************)
(* Proofs about CircuitBreaker, for every threshold, rate, timeout and     *)
(* window.  IInv is inductive; the safety invariants are its conjuncts.    *)
(* The refinement of BreakerPromise follows from it one step at a time.    *)
(***************************************************************************)
EXTENDS CircuitBreaker, TLAPS

IInv ==
    /\ TypeOK
    /\ TripIsRecorded
    /\ ClosedBelowThreshold
    /\ TrialStartsAtZero

\* The assumptions on the constants, known to every proof below.
USE ConstantsAssumption, NoReasonAssumption, NotOpenedAssumption

\* A breaker starts inside the invariant.
LEMMA InitEstablishesIInv == Init => IInv
  BY DEF Init, IInv, TypeOK, TripIsRecorded, ClosedBelowThreshold,
         TrialStartsAtZero, States, Reasons

\* close() establishes IInv by itself, whatever held before.
LEMMA CloseEstablishesIInv == Close => IInv'
  BY DEF Close, ClearWindow, IInv, TypeOK, TripIsRecorded,
         ClosedBelowThreshold, TrialStartsAtZero, States, Reasons

\* Rolling the window keeps the window's types and never raises a counter.
LEMMA KeepWindowIsFresh ==
    ASSUME TypeOK, KeepWindow
    PROVE  /\ fatalErrorCount' \in Nat
           /\ fatalErrorCount' <= fatalErrorCount
           /\ ordersSubmitted' \in Nat
           /\ ordersRejected' \in Nat
           /\ windowAge' \in 0..WindowDuration
  BY DEF KeepWindow, WindowAgeAfterReset, Fresh, WindowOver, TypeOK

\* Every step of every method preserves the inductive invariant.
LEMMA StepPreservesIInv == IInv /\ [Next]_vars => IInv'
<1> SUFFICES ASSUME IInv, [Next]_vars PROVE IInv'
  OBVIOUS
<1> USE DEF IInv, TypeOK, TripIsRecorded, ClosedBelowThreshold,
            TrialStartsAtZero, States, Reasons
<1>1. CASE IsTradingAllowed
  BY <1>1 DEF IsTradingAllowed, TransitionToHalfOpen, window
<1>2. CASE RecordOrderSubmitted
  BY <1>2 DEF RecordOrderSubmitted, WindowAgeAfterReset, Fresh, WindowOver, trip
<1>3. CASE RecordNeutralResult
  BY <1>3, KeepWindowIsFresh DEF RecordNeutralResult, trip
<1>4. CASE RecordTrialSuccess
  <2>1. CASE Close
    BY <2>1, CloseEstablishesIInv
  <2>2. CASE ~Close
    BY <1>4, <2>2, KeepWindowIsFresh DEF RecordTrialSuccess
  <2> QED
    BY <2>1, <2>2
<1>5. CASE RecordFatal
  <2> DEFINE fatal == Fresh(fatalErrorCount) + 1
             rejected == Fresh(ordersRejected) + 1
             submitted == Fresh(ordersSubmitted)
  <2>1. /\ fatalErrorCount' = fatal
        /\ ordersRejected' = rejected
        /\ ordersSubmitted' = submitted
        /\ fatal \in Nat /\ rejected \in Nat /\ submitted \in Nat
        /\ windowAge' \in 0..WindowDuration
    BY <1>5 DEF RecordFatal, Fresh, WindowOver, WindowAgeAfterReset
  <2>2. CASE fatal >= FatalThreshold
    BY <1>5, <2>1, <2>2 DEF RecordFatal, Open, trip
  <2>3. CASE fatal < FatalThreshold /\ RateExceeded(rejected, submitted)
    BY <1>5, <2>1, <2>3 DEF RecordFatal, Open, trip
  <2>4. CASE fatal < FatalThreshold /\ ~RateExceeded(rejected, submitted)
    BY <1>5, <2>1, <2>4 DEF RecordFatal, trip
  <2> QED
    BY <2>1, <2>2, <2>3, <2>4
<1>6. CASE \E reason \in ExternalReasons : TripFromOutside(reason)
  BY <1>6 DEF ExternalReasons, TripFromOutside, Open, trip, window
<1>7. CASE RecordWsReconnect
  BY <1>7 DEF RecordWsReconnect, TransitionToHalfOpen, window
<1>8. CASE ForceClose
  BY <1>8, CloseEstablishesIInv DEF ForceClose
<1>9. CASE ResetCounters
  BY <1>9 DEF ResetCounters, ClearWindow
<1>10. CASE Tick
  BY <1>10 DEF Tick, WindowOver
<1>11. CASE UNCHANGED vars
  BY <1>11 DEF vars
<1> QED
  BY <1>1, <1>2, <1>3, <1>4, <1>5, <1>6, <1>7, <1>8, <1>9, <1>10, <1>11
     DEF Next, RecordSuccess

\* Every reachable state satisfies the inductive invariant.
THEOREM IInvHolds == Spec => []IInv
<1>1. Init => IInv
  BY InitEstablishesIInv
<1>2. IInv /\ [Next]_vars => IInv'
  BY StepPreservesIInv
<1> QED
  BY <1>1, <1>2, PTL DEF Spec

\* Types, and the bound on the successes of a trial.
THEOREM TypeCorrect == Spec => []TypeOK
  BY IInvHolds, PTL DEF IInv

\* state, open_reason and opened_at always agree on whether there is a trip.
THEOREM TripAlwaysRecorded == Spec => []TripIsRecorded
  BY IInvHolds, PTL DEF IInv

\* No breaker is Closed with fatal_threshold fatal errors in its window.
THEOREM ThresholdHonoured == Spec => []ClosedBelowThreshold
  BY IInvHolds, PTL DEF IInv

\* No success of an earlier trial counts towards a later one.
THEOREM TrialsStartAtZero == Spec => []TrialStartsAtZero
  BY IInvHolds, PTL DEF IInv

-----------------------------------------------------------------------------
(* The breaker implements the safety part of its promise. *)

\* A breaker that starts closed is a promise that starts closed.
LEMMA InitRefines == Init => Promise!Init
  BY DEF Init, Promise!Init

\* Opening the breaker trips the promise, or changes nothing it speaks of.
LEMMA OpenRefines ==
    ASSUME IInv, NEW reason \in Reasons, Open(reason)
    PROVE  Promise!Trip(reason) \/ UNCHANGED Promise!vars
  BY DEF Open, trip, Promise!Trip, Promise!vars

\* Closing the breaker by hand closes the promise.
LEMMA CloseRefines == Close => Promise!Closed
  BY DEF Close, Promise!Closed

\* Every step of the breaker is a step of the promise or leaves what the
\* promise sees alone.
LEMMA StepRefines ==
    IInv /\ [Next]_vars => [Promise!Next]_(Promise!vars)
<1> SUFFICES ASSUME IInv, [Next]_vars PROVE Promise!Next \/ UNCHANGED Promise!vars
  OBVIOUS
<1> USE DEF IInv, TypeOK, TripIsRecorded, TrialStartsAtZero, States
<1>1. CASE IsTradingAllowed
  <2>1. Promise!Probe
    BY <1>1 DEF IsTradingAllowed, TransitionToHalfOpen, Promise!Probe
  <2> QED
    BY <2>1 DEF Promise!Next
<1>2. CASE RecordOrderSubmitted \/ RecordNeutralResult
  BY <1>2 DEF RecordOrderSubmitted, RecordNeutralResult, trip, Promise!vars
<1>3. CASE RecordTrialSuccess
  <2>1. CASE halfOpenSuccesses + 1 >= HalfOpenRequired
    <3>1. Promise!Recover
      BY <1>3, <2>1, CloseRefines DEF RecordTrialSuccess, Promise!Recover
    <3> QED
      BY <3>1 DEF Promise!Next
  <2>2. CASE ~(halfOpenSuccesses + 1 >= HalfOpenRequired)
    <3>1. Promise!Success
      BY <1>3, <2>2 DEF RecordTrialSuccess, Promise!Success
    <3> QED
      BY <3>1 DEF Promise!Next
  <2> QED
    BY <2>1, <2>2
<1>4. CASE RecordFatal
  <2>1. \/ UNCHANGED trip
        \/ \E reason \in Reasons : Open(reason)
    BY <1>4 DEF RecordFatal, Reasons
  <2>2. CASE UNCHANGED trip
    BY <2>2 DEF trip, Promise!vars
  <2> QED
    BY <2>1, <2>2, OpenRefines DEF Promise!Next
<1>5. CASE \E reason \in ExternalReasons : TripFromOutside(reason)
  <2>1. \E reason \in Reasons : Open(reason)
    BY <1>5 DEF TripFromOutside, ExternalReasons
  <2> QED
    BY <2>1, OpenRefines DEF Promise!Next
<1>6. CASE RecordWsReconnect
  <2>1. Promise!Probe
    BY <1>6 DEF RecordWsReconnect, TransitionToHalfOpen, Promise!Probe
  <2> QED
    BY <2>1 DEF Promise!Next
<1>7. CASE ForceClose
  BY <1>7, CloseRefines DEF ForceClose, Promise!ForceClose, Promise!Next
<1>8. CASE ResetCounters
  <2>1. Promise!ForgetSuccesses
    BY <1>8 DEF ResetCounters, Promise!ForgetSuccesses
  <2> QED
    BY <2>1 DEF Promise!Next
<1>9. CASE Tick
  <2>1. CASE openedAge = NotOpened \/ openedAge >= ResetTimeout
    BY <1>9, <2>1 DEF Tick, Promise!vars
  <2>2. CASE openedAge # NotOpened /\ openedAge < ResetTimeout
    <3>1. Promise!Tick
      BY <1>9, <2>2 DEF Tick, Promise!Tick
    <3> QED
      BY <3>1 DEF Promise!Next
  <2> QED
    BY <2>1, <2>2
<1>10. CASE UNCHANGED vars
  BY <1>10 DEF vars, Promise!vars
<1> QED
  BY <1>1, <1>2, <1>3, <1>4, <1>5, <1>6, <1>7, <1>8, <1>9, <1>10
     DEF Next, RecordSuccess

\* Every behaviour of the breaker is one its promise allows.
THEOREM Refinement == Spec => Promise!Safe
<1>1. Init => Promise!Init
  BY InitRefines
<1>2. IInv /\ [Next]_vars => [Promise!Next]_(Promise!vars)
  BY StepRefines
<1> QED
  BY <1>1, <1>2, IInvHolds, PTL DEF Spec, Promise!Safe
=============================================================================
