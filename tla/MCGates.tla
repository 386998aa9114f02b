------------------------------- MODULE MCGates -------------------------------
(***************************************************************************)
(* The gates an order passes.  They share no state, so a behaviour is of   *)
(* one of them and leaves the other as it was built:                       *)
(*   breaker: CircuitBreaker with two ticks to reset, a window that        *)
(*            outlives the reset by one tick and a third of orders         *)
(*            rejected as the rate that trips it before the threshold of   *)
(*            fatal errors does;                                           *)
(*   limiter: RateLimiter with windows of two and six ticks for two and    *)
(*            four requests.                                               *)
(***************************************************************************)
EXTENDS CircuitBreaker, RateLimiter

VARIABLE gate

gates == <<vars, limiterVars, gate>>

GatesInit == gate \in {"breaker", "limiter"} /\ Init /\ LimiterInit

OfBreaker(action) == gate = "breaker" /\ action /\ UNCHANGED <<limiterVars, gate>>
OfLimiter(action) == gate = "limiter" /\ action /\ UNCHANGED <<vars, gate>>

GatesNext == OfBreaker(Next) \/ OfLimiter(LimiterNext)

\* The fairness of the modules.
GatesSpec ==
    /\ GatesInit /\ [][GatesNext]_gates
    /\ WF_gates(OfBreaker(Tick)) /\ WF_gates(OfBreaker(IsTradingAllowed))
    /\ WF_gates(OfLimiter(LimiterTick))
=============================================================================
