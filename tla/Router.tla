-------------------------------- MODULE Router --------------------------------
(***************************************************************************)
(* Which strategy hears of which market, and what becomes of their         *)
(* intents: strategy/router.rs with the registry of strategy/market_pair.rs*)
(* that it reads its subscriptions from.                                   *)
(*                                                                         *)
(* An intent is what the conflict rule and the executor look at: strategy, *)
(* token, side, group and priority.  The intents of one call are a set: no *)
(* two intents that may be in conflict have the same priority.             *)
(***************************************************************************)
EXTENDS Integers

CONSTANTS
    Markets,            \* condition ids; a round of 15 minutes is one
    Strategies,         \* the strategies registered at set-up
    FirstMarkets        \* the markets registered at set-up

EntryPriority == [math |-> 100, temporal |-> 95, maker |-> 90, late_entry |-> 70,
                  contrarian |-> 60, tbo |-> 55, tbt |-> 50]

ExitPriority == [maker |-> 255, late_entry |-> 80, contrarian |-> 60, tbo |-> 55, tbt |-> 50]

ASSUME RouterAssumption ==
    /\ Strategies \subseteq DOMAIN EntryPriority
    /\ FirstMarkets \subseteq Markets /\ FirstMarkets # {}

\* The strategies whose orders come in pairs with a group_id, and those that ask for
\* the markets of the registry; the others ask for nothing, which means all markets.
Paired == {"math", "maker"}
Subscribing == {"math", "maker", "temporal"}

Sides == {"yes", "no"}
TokensOf(m) == {m} \X Sides
AllTokens == Markets \X Sides

VARIABLES
    byCondition,        \* MarketPairRegistry: the condition ids
    byToken,            \* MarketPairRegistry: the tokens
    subscribed,         \* RegisteredStrategy::subscribed_markets, {}: all
    enabled             \* the enabled strategies

routerVars == <<byCondition, byToken, subscribed, enabled>>

\* register(): the strategy is asked once.
RouterInit ==
    /\ byCondition = FirstMarkets
    /\ byToken = UNION {TokensOf(m) : m \in FirstMarkets}
    /\ subscribed = [s \in Strategies |-> IF s \in Subscribing THEN FirstMarkets ELSE {}]
    /\ enabled = Strategies

Intent(s, token, sell) ==
    [strategy |-> s, token |-> token, sell |-> sell,
     grouped |-> s \in Paired /\ ~sell,
     priority |-> IF sell THEN ExitPriority[s] ELSE EntryPriority[s]]

\* What a strategy may answer to a book update of market m, to a tick and to the
\* shutdown (only the maker has something to say then).
UpdateAnswers(s, m) == {{}} \union
    (IF s \in Paired THEN {{Intent(s, t, FALSE) : t \in TokensOf(m)}}
     ELSE {{Intent(s, t, FALSE)} : t \in TokensOf(m)})

TickAnswers(s) == {{}} \union
    (IF s \in DOMAIN ExitPriority THEN {{Intent(s, t, TRUE)} : t \in AllTokens} ELSE {})

ShutdownAnswers(s) == IF s = "maker" THEN TickAnswers(s) ELSE {{}}

\* All intents of one call: one answer of each strategy that is asked.
Answers(answersOf) ==
    LET Of(s) == IF s \in DOMAIN answersOf THEN answersOf[s] ELSE {{}}
        calls == [math : Of("math"), temporal : Of("temporal"), maker : Of("maker"),
                  late_entry : Of("late_entry"), contrarian : Of("contrarian"),
                  tbo : Of("tbo"), tbt : Of("tbt")]
    IN  {UNION {call[s] : s \in DOMAIN answersOf} : call \in calls}

\* Mutant: the legs of a group lose conflicts like everything else.
ResolveLegs(intents) == {i \in intents :
    ~\E j \in intents : /\ j.token = i.token /\ j.sell = i.sell
                        /\ j.priority > i.priority}

\* resolve_conflicts(): of several intents for a side of a token the one with the
\* highest priority, but a leg of a group is never dropped.
Resolve(intents) == {i \in intents :
    i.grouped \/ ~\E j \in intents : /\ j.token = i.token /\ j.sell = i.sell
                                     /\ j.priority > i.priority}

Evaluated(m) == {s \in enabled : subscribed[s] = {} \/ m \in subscribed[s]}

OnBookUpdate(m) == {Resolve(a) : a \in Answers([s \in Evaluated(m) |-> UpdateAnswers(s, m)])}

OnTick == {Resolve(a) : a \in Answers([s \in enabled |-> TickAnswers(s)])}

\* Everybody is asked, and there is no conflict resolution.
OnShutdown == Answers([s \in Strategies |-> ShutdownAnswers(s)])

Enable(s) == enabled' = enabled \union {s} /\ UNCHANGED <<byCondition, byToken, subscribed>>
Disable(s) == enabled' = enabled \ {s} /\ UNCHANGED <<byCondition, byToken, subscribed>>

\* register() every market that is new and unregister() those that are gone.
SyncRegistry(found) ==
    LET added == found \ byCondition
        gone == byCondition \ found
    IN  /\ byCondition' = found
        /\ byToken' = (byToken \union UNION {TokensOf(m) : m \in added})
                        \ UNION {TokensOf(m) : m \in gone}
        /\ UNCHANGED <<subscribed, enabled>>
=============================================================================
