---------------------------- MODULE MCConcurrency ----------------------------
(***************************************************************************)
(* What runs beside each other.  A behaviour is about one part and leaves  *)
(* the other as it was built (`overlapped` is a history variable):         *)
(*   loop:  EventLoop with two markets and three strategies, of which the  *)
(*          maker can be switched off;                                     *)
(*   crowd: BreakerLocks with every kind of caller at once, two of most.   *)
(***************************************************************************)
EXTENDS EventLoop, BreakerLocks

VARIABLES
    part,
    overlapped      \* the calls still running that the last trip fell into

\* Threads in the middle of a call.
Busy == {t \in Threads : ~At(t, "idle")}

concurrentVars == <<loopVars, vars, part, overlapped>>

ConcurrentInit ==
    LoopInit /\ Init /\ part \in {"loop", "crowd"} /\ overlapped = {}

OfLoop(action) == part = "loop" /\ action /\ UNCHANGED <<vars, part, overlapped>>
OfCrowd(action) ==
    /\ part = "crowd" /\ action
    /\ overlapped' =
           Busy' \cap (IF state # "Open" /\ state' = "Open" THEN Busy ELSE overlapped)
    /\ UNCHANGED <<loopVars, part>>

ConcurrentNext == OfLoop(LoopNext) \/ OfCrowd(Next)

\* EventLoop's fairness.
ConcurrentSpec ==
    /\ ConcurrentInit /\ [][ConcurrentNext]_concurrentVars
    /\ WF_concurrentVars(OfLoop(LoopStep)) /\ WF_concurrentVars(OfLoop(Elapses("tick")))
    /\ WF_concurrentVars(OfLoop(KillNotify))

-----------------------------------------------------------------------------
(* Property of the crowd *)

\* A halt ends before reset_timeout has passed since the trip only if it is the
\* WebSocket's, by an operator's force_close, or by a call that had begun before
\* the trip and acts on the state it read then: whoever calls after the trip, for
\* whatever it reports or asks, leaves the halt alone.
EarlyEndsOverlap ==
    [][state = "Open" /\ state' # "Open" =>
        \/ openedAge # NotOpened /\ openedAge >= ResetTimeout
        \/ openReason = "WebSocketDisconnect"
        \/ \E t \in Operators : At(t, "idle") /\ At(t, "clearOpenedAt")'
        \/ \E t \in overlapped : pc'[t] # pc[t]]_concurrentVars
=============================================================================
