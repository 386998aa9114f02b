----------------------------- MODULE RateLimiter -----------------------------
(***************************************************************************)
(* risk/rate_limiter.rs: the sliding windows an order passes after the     *)
(* breaker.  A timestamp is kept as its age in ticks, saturating just past *)
(* the sustained window, where all ages are alike to the code.  A call     *)
(* runs under the mutex and takes less than a tick.                        *)
(*                                                                         *)
(* Ghost: `grants` counts, by age, the requests ever granted, whatever the *)
(* limiter itself still remembers of them.                                 *)
(***************************************************************************)
EXTENDS Integers, Sequences, FiniteSets, Functions

CONSTANTS
    BurstThreshold,         \* floor(burst.max_requests * threshold)
    BurstDuration,
    SustainedThreshold,     \* floor(sustained.max_requests * threshold)
    SustainedDuration

ASSUME LimitsAssumption ==
    /\ BurstThreshold \in Nat \ {0} /\ SustainedThreshold \in Nat \ {0}
    /\ BurstDuration \in Nat /\ SustainedDuration \in Nat
    /\ BurstDuration <= SustainedDuration

VARIABLES
    timestamps,     \* the deque, oldest first
    grants          \* how many requests of each age were granted

limiterVars == <<timestamps, grants>>

Stale == SustainedDuration + 1
Ages == 0..Stale

LimiterInit ==
    /\ timestamps = <<>>
    /\ grants = [age \in Ages |-> 0]

Older(age) == IF age = Stale THEN Stale ELSE age + 1

LimiterTick ==
    /\ timestamps' = [i \in DOMAIN timestamps |-> Older(timestamps[i])]
    /\ grants' = [age \in Ages |->
            CASE age = 0     -> 0
              [] age = Stale -> 0       \* past every window: no longer of interest
              [] OTHER       -> grants[age - 1]]

\* Mutant: every timestamp counts for the burst window.
BurstCountAll == Len(timestamps)

\* take_while from the back of the deque, which relies on its order.
BurstCount == Cardinality({i \in DOMAIN timestamps :
                    \A j \in i..Len(timestamps) : timestamps[j] <= BurstDuration})

\* Mutant: off by one.
BurstExceededLate == BurstCount > BurstThreshold

BurstExceeded == BurstCount >= BurstThreshold

\* The length of the deque, whatever of it is older than the window.
SustainedExceeded == Len(timestamps) >= SustainedThreshold

WouldExceed == BurstExceeded \/ SustainedExceeded

\* The timestamps before a cutoff leave at the front, up to the first that is not.
Popped(ages, duration) == {i \in DOMAIN ages : \A j \in 1..i : ages[j] > duration}

FrontPopped(ages, duration) ==
    SubSeq(ages, Cardinality(Popped(ages, duration)) + 1, Len(ages))

\* Mutant: the cutoff of the shorter window.
PruneAtBurst(ages) == FrontPopped(ages, BurstDuration)

Prune(ages) == FrontPopped(ages, SustainedDuration)

\* try_acquire() that answers true: the new timestamp first, then the pruning.
Grant ==
    /\ ~WouldExceed
    /\ timestamps' = Prune(Append(timestamps, 0))
    /\ grants' = [grants EXCEPT ![0] = @ + 1]

\* A refused try_acquire(), check() and stats() change nothing.
LimiterNext == Grant \/ LimiterTick

\* Time passes; nobody has to ask.
LimiterFairness == WF_limiterVars(LimiterTick)

LimiterSpec == LimiterInit /\ [][LimiterNext]_limiterVars /\ LimiterFairness

-----------------------------------------------------------------------------
(* Properties *)

\* The type invariant.  The deque is sorted, which take_while relies on.
LimiterTypeOK ==
    /\ timestamps \in Seq(Ages)
    /\ \A i, j \in DOMAIN timestamps : i < j => timestamps[i] >= timestamps[j]
    /\ grants \in [Ages -> Nat]

Granted(duration) == SumFunctionOnSet(grants, 0..duration)

\* In no burst window did the limiter grant more than the burst threshold,
\* whatever it has forgotten in the meantime.
BurstHonoured == Granted(BurstDuration) <= BurstThreshold

\* In no sustained window did it grant more than the sustained threshold.
SustainedHonoured == Granted(SustainedDuration) <= SustainedThreshold

\* A full burst window is open again in the end.
BurstReopens == BurstExceeded ~> ~BurstExceeded

\* Documented: "Sliding window rate limiter": once the requests that filled the
\* windows have left them, the limiter grants again.
LimiterReopens == WouldExceed ~> ~WouldExceed
=============================================================================
