--------------------------- MODULE BreakerPromise ---------------------------
(***************************************************************************)
(* What the circuit breaker promises the code that asks it whether to      *)
(* trade, with none of the counters that make it trip.  A trip halts       *)
(* trading; a halted breaker is only tried again (HalfOpen) once the trip  *)
(* is ResetTimeout old, or when the cause was a WebSocket disconnect and   *)
(* the socket is back; it only resumes after HalfOpenRequired successes in *)
(* that trial, or when an operator forces it.                              *)
(***************************************************************************)
EXTENDS Naturals

CONSTANTS
    Reasons,            \* OpenReason, without the data its variants carry
    NoReason,           \* open_reason = None
    WebSocketDisconnect,
    ResetTimeout,       \* reset_timeout, in ticks
    HalfOpenRequired    \* half_open_success_required

VARIABLES
    state,      \* CircuitState
    reason,     \* why the breaker tripped, NoReason when it has not
    tripAge,    \* ticks since the trip, saturating at ResetTimeout
    successes   \* successes seen in the trial

vars == <<state, reason, tripAge, successes>>

States == {"Closed", "Open", "HalfOpen"}

TypeOK ==
    /\ state \in States
    /\ reason \in Reasons \cup {NoReason}
    /\ tripAge \in 0..ResetTimeout
    /\ successes \in 0..HalfOpenRequired

Init ==
    /\ state = "Closed"
    /\ reason = NoReason
    /\ tripAge = 0
    /\ successes = 0

(***************************************************************************)
(* The first cause wins: a breaker that is open stays open for the reason  *)
(* it opened.                                                              *)
(***************************************************************************)
Trip(r) ==
    /\ state # "Open"
    /\ state' = "Open"
    /\ reason' = r
    /\ tripAge' = 0
    /\ successes' = 0

Probe ==
    /\ state = "Open"
    /\ tripAge = ResetTimeout \/ reason = WebSocketDisconnect
    /\ state' = "HalfOpen"
    /\ successes' = 0
    /\ UNCHANGED <<reason, tripAge>>

ProbeTimeout == tripAge = ResetTimeout /\ Probe

Success ==
    /\ state = "HalfOpen"
    /\ successes + 1 < HalfOpenRequired
    /\ successes' = successes + 1
    /\ UNCHANGED <<state, reason, tripAge>>

Closed ==
    /\ state' = "Closed"
    /\ reason' = NoReason
    /\ tripAge' = 0
    /\ successes' = 0

Recover ==
    /\ state = "HalfOpen"
    /\ successes + 1 >= HalfOpenRequired
    /\ Closed

ForceClose == Closed

ForgetSuccesses ==
    /\ successes' = 0
    /\ UNCHANGED <<state, reason, tripAge>>

Tick ==
    /\ state # "Closed"
    /\ tripAge < ResetTimeout
    /\ tripAge' = tripAge + 1
    /\ UNCHANGED <<state, reason, successes>>

Next ==
    \/ \E r \in Reasons : Trip(r)
    \/ Probe
    \/ Success
    \/ Recover
    \/ ForceClose
    \/ ForgetSuccesses
    \/ Tick

Safe == Init /\ [][Next]_vars

Spec == Safe /\ WF_vars(Tick) /\ WF_vars(ProbeTimeout)

=============================================================================
