------------------------------ MODULE EventLoop ------------------------------
(***************************************************************************)
(* The bot's main loop, orchestrator/{mod,handlers,heartbeat,execution,    *)
(* shutdown}.rs, with what runs beside it: the task that reads the market  *)
(* WebSocket, the spawned executions, the API's controls and whoever pulls *)
(* the kill switch (kill_switch.rs).                                       *)
(*                                                                         *)
(* The select is biased: each iteration takes the first branch that is     *)
(* ready, and the kill switch is the last.  A handler runs to its end      *)
(* before the next iteration; two wait for others meanwhile:               *)
(* refresh_markets() for the current rounds, the heartbeat for its alert   *)
(* to be sent.  Of messages only their number is kept: those unread when   *)
(* the channel is replaced are lost with it, so that all are of the tokens *)
(* subscribed last.                                                        *)
(*                                                                         *)
(* The wait of the last branch has two steps, as in the code: a look at    *)
(* the flag, then the registration of a waiter.  notify_waiters() wakes    *)
(* waiters that are registered and keeps nothing for later ones.           *)
(***************************************************************************)
EXTENDS Router

CONSTANTS
    MaxQueue,           \* bound on unread messages of a channel
    MaxTasks,           \* bound on executions in flight
    Switched            \* bound: the strategies that are switched on and off

ASSUME LoopAssumption ==
    MaxQueue \in Nat \ {0} /\ MaxTasks \in Nat \ {0} /\ Switched \subseteq Strategies

Timers == {"tick", "heartbeat", "refresh"}

VARIABLES
    phase,              \* where the loop is
    marketQ, userQ,     \* unread messages
    due,                \* the intervals that have elapsed
    feed,               \* the markets the WebSocket task is subscribed to
    paused,             \* ControlState::trading_paused
    open,               \* ~is_trading_allowed() of the circuit breaker
    wasOpen,            \* circuit_was_open
    tasks,              \* spawned executions in flight
    unwinding,          \* the intents of the shutdown: "none", "sent", "done" or "lost"
    trigger,            \* the kill file or the environment variable is there
    killed, notifying,  \* the flag; kill() is between its two statements
    waiter,             \* of the last branch: "none", "waits" or "woken"
    batch,              \* the intents that the last step gave to an execution
    alerts              \* ghost: alerts since the breaker last tripped

loopVars == <<phase, marketQ, userQ, due, feed, paused, open, wasOpen, tasks,
              unwinding, trigger, killed, notifying, waiter, batch, alerts,
              byCondition, byToken, subscribed, enabled>>

killVars == <<trigger, killed, notifying, waiter>>
breakerVars == <<open, wasOpen, alerts>>
queueVars == <<marketQ, userQ, due>>

LoopInit ==
    /\ RouterInit
    /\ phase = "select" /\ marketQ = 0 /\ userQ = 0 /\ due = {}
    /\ feed = FirstMarkets /\ paused = FALSE
    /\ open = FALSE /\ wasOpen = FALSE /\ alerts = 1
    /\ tasks = 0 /\ unwinding = "none" /\ batch = {}
    /\ trigger = FALSE /\ killed = FALSE /\ notifying = FALSE /\ waiter = "none"

-----------------------------------------------------------------------------
(* Handlers                                                                *)

\* process_intents(): all of a call's intents become one execution, or none does.
ProcessIntents(intents) ==
    IF intents = {} \/ open THEN batch' = {} /\ tasks' = tasks
    ELSE tasks < MaxTasks /\ tasks' = tasks + 1 /\ batch' = intents

NoIntents == batch' = {} /\ tasks' = tasks

\* route_book_update(), for any token of the feed.
HandleMarketMessage ==
    /\ phase = "select" /\ marketQ > 0
    /\ marketQ' = marketQ - 1
    /\ IF paused THEN NoIntents
       ELSE \E m \in feed : \E intents \in OnBookUpdate(m) : ProcessIntents(intents)
    /\ UNCHANGED <<phase, userQ, due, feed, paused, unwinding>>
    /\ UNCHANGED <<breakerVars, killVars, routerVars>>

\* Fills and order updates are booked elsewhere: no strategy hears of them.
HandleUserMessage ==
    /\ phase = "select" /\ marketQ = 0 /\ userQ > 0
    /\ userQ' = userQ - 1
    /\ NoIntents
    /\ UNCHANGED <<phase, marketQ, due, feed, paused, unwinding>>
    /\ UNCHANGED <<breakerVars, killVars, routerVars>>

NoMessages == phase = "select" /\ marketQ = 0 /\ userQ = 0

\* handle_tick(): unlike book updates, whether or not trading is paused.
HandleTick ==
    /\ NoMessages /\ "tick" \in due
    /\ due' = due \ {"tick"}
    /\ \E intents \in OnTick : ProcessIntents(intents)
    /\ UNCHANGED <<phase, marketQ, userQ, feed, paused, unwinding>>
    /\ UNCHANGED <<breakerVars, killVars, routerVars>>

\* log_heartbeat(): an alert if the breaker is open and was not ten seconds ago.  It is
\* sent, or fails, before the sample is kept.
LogHeartbeat ==
    /\ NoMessages /\ "tick" \notin due /\ "heartbeat" \in due
    /\ due' = due \ {"heartbeat"}
    /\ IF open /\ ~wasOpen
       THEN /\ phase' = "alerting"
            /\ alerts' = (IF alerts < 2 THEN alerts + 1 ELSE 2)
            /\ wasOpen' = wasOpen
       ELSE wasOpen' = open /\ UNCHANGED <<phase, alerts>>
    /\ NoIntents
    /\ UNCHANGED <<marketQ, userQ, feed, paused, open, unwinding>>
    /\ UNCHANGED <<killVars, routerVars>>

\* Mutant: the handler returns when it has sent the alert.
AlertedReturning ==
    /\ phase = "alerting" /\ phase' = "select"
    /\ NoIntents
    /\ UNCHANGED <<queueVars, feed, paused, unwinding, breakerVars, killVars, routerVars>>

\* What is kept is the sample from before the alert, wherever the breaker is by now.
Alerted ==
    /\ phase = "alerting" /\ phase' = "select"
    /\ wasOpen' = TRUE
    /\ NoIntents
    /\ UNCHANGED <<queueVars, feed, paused, unwinding, open, alerts, killVars, routerVars>>

\* refresh_markets() asks for the current rounds and waits for the answer.
RefreshMarkets ==
    /\ NoMessages /\ due = {"refresh"}
    /\ due' = {} /\ phase' = "refreshing"
    /\ NoIntents
    /\ UNCHANGED <<marketQ, userQ, feed, paused, unwinding>>
    /\ UNCHANGED <<breakerVars, killVars, routerVars>>

\* Mutant: the tokens are collected before the registry is brought up to date.
FeedBefore == byCondition

FeedAfter == byCondition'

\* The answer.  If the set of rounds has changed, the registry follows, and a new
\* WebSocket task with a new channel takes the place of the old ones.
Refreshed == \E found \in SUBSET Markets :
    /\ phase = "refreshing" /\ phase' = "select"
    /\ IF found = byCondition THEN UNCHANGED <<marketQ, feed, routerVars>>
       ELSE SyncRegistry(found) /\ feed' = FeedAfter /\ marketQ' = 0
    /\ NoIntents
    /\ UNCHANGED <<userQ, due, paused, unwinding, breakerVars, killVars>>

RefreshFailed ==
    /\ phase = "refreshing" /\ phase' = "select"
    /\ NoIntents
    /\ UNCHANGED <<queueVars, feed, paused, unwinding, breakerVars, killVars, routerVars>>

-----------------------------------------------------------------------------
(* The last branch: wait_for_kill()                                        *)

Idle == NoMessages /\ due = {}

\* Mutant: the flag is left to the notification.
IsKilledOutside == trigger

\* is_killed(): the flag, the environment variable, the file.
IsKilled == killed \/ trigger

\* What is_killed() finds outside it keeps in the flag.
CheckKilled ==
    /\ Idle
    /\ phase' = IF IsKilled THEN "stopping" ELSE "checked"
    /\ killed' = (killed \/ IsKilled)
    /\ NoIntents
    /\ UNCHANGED <<queueVars, feed, paused, unwinding, trigger, notifying, waiter>>
    /\ UNCHANGED <<breakerVars, routerVars>>

\* All branches are pending: the task is suspended.
Suspend ==
    /\ phase = "checked" /\ phase' = "suspended"
    /\ waiter' = "waits"
    /\ NoIntents
    /\ UNCHANGED <<queueVars, feed, paused, unwinding, trigger, killed, notifying>>
    /\ UNCHANGED <<breakerVars, routerVars>>

\* The first branch to be ready ends the select, and the waiter with it.
Resume ==
    /\ phase = "suspended"
    /\ \/ marketQ + userQ > 0 /\ phase' = "select"
       \/ due # {} /\ phase' = "select"
       \/ /\ marketQ + userQ = 0 /\ due = {} /\ waiter = "woken"
          /\ phase' = "stopping"
    /\ waiter' = "none"
    /\ NoIntents
    /\ UNCHANGED <<queueVars, feed, paused, unwinding, trigger, killed, notifying>>
    /\ UNCHANGED <<breakerVars, routerVars>>

\* shutdown(): the strategies' last intents become an execution, as always.
Shutdown == \E intents \in OnShutdown :
    /\ phase = "stopping" /\ phase' = "leaving"
    /\ ProcessIntents(intents)
    /\ unwinding' = IF tasks' > tasks THEN "sent" ELSE "none"
    /\ feed' = {} /\ marketQ' = 0 /\ userQ' = 0
    /\ UNCHANGED <<due, paused, breakerVars, killVars, routerVars>>

\* main() returns and the runtime is dropped with the tasks that are left.
Exit ==
    /\ phase = "leaving" /\ phase' = "exited"
    /\ tasks' = 0 /\ batch' = {}
    /\ unwinding' = IF unwinding = "sent" THEN "lost" ELSE unwinding
    /\ UNCHANGED <<queueVars, feed, paused, breakerVars, killVars, routerVars>>

LoopStep ==
    \/ HandleMarketMessage \/ HandleUserMessage \/ HandleTick \/ LogHeartbeat \/ Alerted
    \/ RefreshMarkets \/ Refreshed \/ RefreshFailed
    \/ CheckKilled \/ Suspend \/ Resume \/ Shutdown \/ Exit

-----------------------------------------------------------------------------
(* What runs beside the loop                                               *)

Running == phase # "exited"

MarketMessage ==
    /\ Running /\ feed # {} /\ marketQ < MaxQueue
    /\ marketQ' = marketQ + 1 /\ batch' = {}
    /\ UNCHANGED <<phase, userQ, due, feed, paused, tasks, unwinding>>
    /\ UNCHANGED <<breakerVars, killVars, routerVars>>

UserMessage ==
    /\ phase \notin {"leaving", "exited"} /\ userQ < MaxQueue
    /\ userQ' = userQ + 1 /\ batch' = {}
    /\ UNCHANGED <<phase, marketQ, due, feed, paused, tasks, unwinding>>
    /\ UNCHANGED <<breakerVars, killVars, routerVars>>

Elapses(timer) ==
    /\ Running /\ timer \notin due
    /\ due' = due \union {timer} /\ batch' = {}
    /\ UNCHANGED <<phase, marketQ, userQ, feed, paused, tasks, unwinding>>
    /\ UNCHANGED <<breakerVars, killVars, routerVars>>

\* The API.
SetPaused(p) ==
    /\ Running /\ paused' = p /\ batch' = {}
    /\ UNCHANGED <<phase, queueVars, feed, tasks, unwinding>>
    /\ UNCHANGED <<breakerVars, killVars, routerVars>>

SetEnabled(s) ==
    /\ Running /\ (Enable(s) \/ Disable(s))
    /\ batch' = {}
    /\ UNCHANGED <<phase, queueVars, feed, paused, tasks, unwinding, breakerVars, killVars>>

\* execute_intents() ends; what it reports may trip the breaker.
TaskDone == \E tripped \in BOOLEAN :
    /\ Running /\ tasks > 0
    /\ tasks' = tasks - 1 /\ batch' = {}
    /\ unwinding' = IF unwinding = "sent" /\ tasks = 1 THEN "done" ELSE unwinding
    /\ open' = (open \/ tripped)
    /\ alerts' = IF tripped /\ ~open THEN 0 ELSE alerts
    /\ UNCHANGED <<phase, queueVars, feed, paused, wasOpen, killVars, routerVars>>

\* The breaker lets orders pass again.
Recover ==
    /\ Running /\ open /\ open' = FALSE /\ batch' = {}
    /\ UNCHANGED <<phase, queueVars, feed, paused, wasOpen, alerts, tasks, unwinding>>
    /\ UNCHANGED <<killVars, routerVars>>

\* touch /tmp/polybot_kill, without a call to the bot.
KillFile ==
    /\ Running /\ ~trigger /\ trigger' = TRUE /\ batch' = {}
    /\ UNCHANGED <<phase, queueVars, feed, paused, tasks, unwinding>>
    /\ UNCHANGED <<breakerVars, killed, notifying, waiter, routerVars>>

\* Ctrl-C: kill() on another thread, first the flag, then the waiters.
KillStore ==
    /\ Running /\ ~notifying /\ ~killed
    /\ killed' = TRUE /\ notifying' = TRUE /\ batch' = {}
    /\ UNCHANGED <<phase, queueVars, feed, paused, tasks, unwinding>>
    /\ UNCHANGED <<breakerVars, trigger, waiter, routerVars>>

KillNotify ==
    /\ notifying /\ notifying' = FALSE
    /\ waiter' = IF waiter = "waits" THEN "woken" ELSE waiter
    /\ batch' = {}
    /\ UNCHANGED <<phase, queueVars, feed, paused, tasks, unwinding>>
    /\ UNCHANGED <<breakerVars, trigger, killed, routerVars>>

LoopNext ==
    \/ LoopStep
    \/ MarketMessage \/ UserMessage \/ \E timer \in Timers : Elapses(timer)
    \/ \E p \in BOOLEAN : SetPaused(p)
    \/ \E s \in Switched : SetEnabled(s)
    \/ TaskDone \/ Recover \/ KillFile \/ KillStore \/ KillNotify

\* The runtime polls the loop's task, the 100 ms interval elapses, kill() returns.
LoopFairness ==
    WF_loopVars(LoopStep) /\ WF_loopVars(Elapses("tick")) /\ WF_loopVars(KillNotify)

LoopSpec == LoopInit /\ [][LoopNext]_loopVars /\ LoopFairness

-----------------------------------------------------------------------------
(* Properties *)

\* The type invariant.
LoopTypeOK ==
    /\ phase \in {"select", "refreshing", "alerting", "checked", "suspended", "stopping",
                  "leaving", "exited"}
    /\ marketQ \in 0..MaxQueue /\ userQ \in 0..MaxQueue /\ due \subseteq Timers
    /\ feed \subseteq Markets /\ paused \in BOOLEAN
    /\ open \in BOOLEAN /\ wasOpen \in BOOLEAN /\ alerts \in 0..2
    /\ tasks \in 0..MaxTasks /\ unwinding \in {"none", "sent", "done", "lost"}
    /\ {trigger, killed, notifying} \subseteq BOOLEAN
    /\ waiter \in {"none", "waits", "woken"}
    /\ \A i \in batch : i.strategy \in Strategies /\ i.token \in AllTokens
    /\ byCondition \subseteq Markets /\ byToken \subseteq AllTokens
    /\ subscribed \in [Strategies -> SUBSET Markets] /\ enabled \subseteq Strategies

\* Every way to pull the kill switch stops the bot, whatever the loop does at that
\* moment and though notify_waiters() may find nobody who waits: provided that the
\* loop gets to its last branch again and again, which the branches before it decide.
KillStops ==
    []<>(phase \notin {"select", "refreshing", "alerting"}) => (killed \/ trigger ~> phase = "exited")

\* "Circuit breaker transition -> Open: alert exactly once": however the breaker
\* moves between two heartbeats, a trip is never announced twice.
AlertedOnce == alerts <= 1

\* Whatever other strategies want at the same moment, an arb's legs are executed
\* together or not at all.
LegsStayTogether == \A i \in batch : i.grouped =>
    \A t \in TokensOf(i.token[1]) :
        \E j \in batch : j.grouped /\ j.strategy = i.strategy /\ j.token = t

\* After any number of refreshes the registry's two indexes agree, and the bot listens
\* to exactly the tokens it can look up.
FeedIsRegistered ==
    /\ byToken = UNION {TokensOf(m) : m \in byCondition}
    /\ phase \notin {"leaving", "exited"} => feed = byCondition
=============================================================================
