--------------------------- MODULE GroupExecution ---------------------------
(***************************************************************************)
(* What happens to a pair of intents that must stay balanced, from the     *)
(* event loop to its last entry in the breaker: process_intents,           *)
(* execute_intents and handle_execution_result of                          *)
(* orchestrator/execution.rs, and execute, execute_grouped and             *)
(* process_response of execution/executor.rs.  Each group runs in a task   *)
(* of its own; all of them share the breaker, which is CircuitBreaker's,   *)
(* one action of it for each call.                                         *)
(*                                                                         *)
(* Strategies group two Buy intents, both Immediate (FOK) or both Passive  *)
(* (GTC), so the leg with the larger fill is the only one to unwind.  Both *)
(* legs ask for the same size at prices, hence lots, of their own: what is *)
(* submitted may differ.  Prices are those the policy has put on the tick. *)
(* Units are those of QuantizeSize.                                        *)
(***************************************************************************)
EXTENDS Integers, FiniteSets, FiniteSetsExt, QuantizeSize

CONSTANTS
    Groups,             \* groups of intents the strategies produce
    OrderTypes,         \* what policies make of their urgency: FOK, GTC
    Intents,            \* a price for each leg, and their size
    FillStep,           \* a leg that rests in the book fills in steps of this
    SalePrices,         \* what an unwind may be sold at
    AnswersGetLost,     \* a submission may fail after the order went through
    FatalThreshold, RejectNum, RejectDen, HalfOpenRequired, ResetTimeout,
    WindowDuration, MaxCount, NoReason, NotOpened    \* of the breaker

ASSUME SizesAssumption ==
    /\ OrderTypes \subseteq {"FOK", "GTC"}
    /\ FillStep \in Nat \ {0}
    /\ AnswersGetLost \in BOOLEAN

\* limit_price of a Sell, one cent: its lot is a share, a dollar a hundred.
UnwindPrice == 10

\* Any bid from the limit up is a fill, and a share is worth less than a dollar.
ASSUME SalesAssumption == SalePrices # {} /\ SalePrices \subseteq UnwindPrice..999

Legs == {1, 2}

\* effective_min: whole shares, enough for a dollar of the cheaper leg.
MinimumShares(p) == (1000 + p - 1) \div p

ASSUME IntentsAssumption ==
    /\ Intents # {}
    /\ Intents \subseteq [price : [Legs -> 1..999], size : Nat]
    /\ \A i \in Intents, l \in Legs : i.size >= 100 * MinimumShares(i.price[l])

Phases == {"idle", "legs", "unwinding", "recording", "done"}
Statuses == {"New", "Posted", "CircuitOpen", "SubmissionFailed", "Rejected",
             "Cancelled", "Pending", "PartialFill", "FullyFilled"}
Errors == {"Retryable", "Fatal", "Expected"}

VARIABLES
    state, openReason, openedAge, fatalErrorCount, ordersSubmitted,
    ordersRejected, halfOpenSuccesses, windowAge,       \* the breaker
    phase,          \* where the task of a group is
    orderType,      \* of the legs of a group
    intent,         \* the intents of the legs of a group
    status,         \* ExecutionResult.status of each leg
    filled,         \* ExecutionResult.filled_size of each leg
    unwind,         \* the unwind order: its leg, size and stage
    recorded,       \* legs handle_execution_result has handled
    bought,         \* what the exchange bought for each leg, less what it sold
    resting         \* what is left of each leg in the exchange's book

Breaker == INSTANCE CircuitBreaker

breaker == <<state, openReason, openedAge, fatalErrorCount, ordersSubmitted,
             ordersRejected, halfOpenSuccesses, windowAge>>
task == <<phase, orderType, intent, status, filled, unwind, recorded>>
market == <<bought, resting>>
vars == <<state, openReason, openedAge, fatalErrorCount, ordersSubmitted,
          ordersRejected, halfOpenSuccesses, windowAge,
          phase, orderType, intent, status, filled, unwind, recorded,
          bought, resting>>

NoUnwind == [leg |-> 1, size |-> 0, stage |-> "None"]

Init ==
    /\ Breaker!Init
    /\ phase = [g \in Groups |-> "idle"]
    /\ orderType = [g \in Groups |-> "FOK"]
    /\ intent = [g \in Groups |-> CHOOSE i \in Intents : TRUE]
    /\ status = [g \in Groups |-> [l \in Legs |-> "New"]]
    /\ filled = [g \in Groups |-> [l \in Legs |-> 0]]
    /\ unwind = [g \in Groups |-> NoUnwind]
    /\ recorded = [g \in Groups |-> 0]
    /\ bought = [g \in Groups |-> [l \in Legs |-> 0]]
    /\ resting = [g \in Groups |-> [l \in Legs |-> 0]]

-----------------------------------------------------------------------------
(* Calls of the breaker *)

\* is_trading_allowed() answers true, at times by starting a trial.
CheckPasses ==
    \/ Breaker!IsTradingAllowed
    \/ Breaker!TradingAllowed /\ UNCHANGED breaker

CheckRefuses ==
    /\ state = "Open"
    /\ openedAge = NotOpened \/ openedAge < ResetTimeout
    /\ UNCHANGED breaker

\* process_response() reports the success of an order.
OrderSucceeds == Breaker!RecordSuccess

\* record_order_result(Some(error))
OrderFails(error) ==
    IF error = "Fatal" THEN Breaker!RecordFatal ELSE Breaker!RecordNeutralResult

-----------------------------------------------------------------------------
(* The event loop: process_intents spawns the task. *)
Start(g) ==
    /\ phase[g] = "idle"
    /\ CheckPasses
    /\ phase' = [phase EXCEPT ![g] = "legs"]
    /\ \E type \in OrderTypes : orderType' = [orderType EXCEPT ![g] = type]
    /\ \E i \in Intents : intent' = [intent EXCEPT ![g] = i]
    /\ UNCHANGED <<status, filled, unwind, recorded, market>>

-----------------------------------------------------------------------------
(* execute() of the two legs, joined: both are polled before either answer *)
(* is looked at.                                                           *)

\* OrderParams.size of a leg: quantized before it is submitted, and what the
\* answer is compared with.
Submitted(g, l) == Quantized(intent[g].price[l], intent[g].size)

SetStatus(g, l, new) == status' = [status EXCEPT ![g][l] = new]

\* The breaker, then the rate limiter, then the order is on its way.
SubmitLeg(g, l) ==
    /\ phase[g] = "legs"
    /\ status[g][l] = "New"
    /\ l = 2 => status[g][1] # "New"
    /\ \/ CheckRefuses /\ SetStatus(g, l, "CircuitOpen")
       \/ CheckPasses /\ SetStatus(g, l, "SubmissionFailed")
       \/ CheckPasses /\ SetStatus(g, l, "Posted")
    /\ UNCHANGED <<phase, orderType, intent, filled, unwind, recorded, market>>

Awaited(g, l) ==
    phase[g] = "legs" /\ status[g][2] # "New" /\ status[g][l] = "Posted"

\* What the exchange can do with a leg: all or nothing of a FOK; any part of a
\* GTC, and the rest stays in its book.
Fills(g, l) ==
    {0, Submitted(g, l)} \cup
        (IF orderType[g] = "FOK" THEN {}
         ELSE {fill \in 1..(Submitted(g, l) - 1) : fill % FillStep = 0})

Trade(g, l, fill) ==
    /\ bought' = [bought EXCEPT ![g][l] = @ + fill]
    /\ resting' = [resting EXCEPT ![g][l] =
                       IF orderType[g] = "GTC" THEN Submitted(g, l) - fill ELSE 0]

\* process_response(): taking_amount against the submitted size.
StatusOf(type, fill, of) ==
    CASE fill >= of             -> "FullyFilled"
      [] fill > 0 /\ fill < of  -> "PartialFill"
      [] fill = 0 /\ type = "FOK" -> "Cancelled"
      [] OTHER                  -> "Pending"

LegExecuted(g, l) ==
    /\ Awaited(g, l)
    /\ \E fill \in Fills(g, l) :
        /\ Trade(g, l, fill)
        /\ filled' = [filled EXCEPT ![g][l] = fill]
        /\ SetStatus(g, l, StatusOf(orderType[g], fill, Submitted(g, l)))
    /\ OrderSucceeds
    /\ UNCHANGED <<phase, orderType, intent, unwind, recorded>>

LegRejected(g, l) ==
    /\ Awaited(g, l)
    /\ \E error \in Errors : OrderFails(error)
    /\ SetStatus(g, l, "Rejected")
    /\ UNCHANGED <<phase, orderType, intent, filled, unwind, recorded, market>>

\* post_order() returns an error: the order was not placed, or its answer did
\* not make it back.
LegFailed(g, l) ==
    /\ Awaited(g, l)
    /\ OrderFails("Retryable")
    /\ SetStatus(g, l, "SubmissionFailed")
    /\ \/ UNCHANGED market
       \/ AnswersGetLost /\ \E fill \in Fills(g, l) : Trade(g, l, fill)
    /\ UNCHANGED <<phase, orderType, intent, filled, unwind, recorded>>

\* Somebody takes some of a leg that rests in the book.
RestingFills(g, l) ==
    /\ resting[g][l] > 0
    /\ LET part == Min({FillStep, resting[g][l]})
       IN  /\ resting' = [resting EXCEPT ![g][l] = @ - part]
           /\ bought' = [bought EXCEPT ![g][l] = @ + part]
    /\ UNCHANGED <<breaker, task>>

-----------------------------------------------------------------------------
(* execute_grouped() after the join *)

\* The unwind is an intent for the excess, which execute() quantizes.
UnwindSize(excess) == Quantized(UnwindPrice, excess)

MinFilled(g) == Min({filled[g][l] : l \in Legs})

Overfilled(g) == {l \in Legs : filled[g][l] > MinFilled(g)}

Compare(g) ==
    /\ phase[g] = "legs"
    /\ \A l \in Legs : status[g][l] \notin {"New", "Posted"}
    /\ IF Overfilled(g) = {}
       THEN /\ phase' = [phase EXCEPT ![g] = "recording"]
            /\ UNCHANGED unwind
       ELSE /\ phase' = [phase EXCEPT ![g] = "unwinding"]
            /\ \E l \in Overfilled(g) :
                unwind' = [unwind EXCEPT ![g] =
                    [leg |-> l, stage |-> "New",
                     size |-> UnwindSize(filled[g][l] - MinFilled(g))]]
    /\ UNCHANGED <<breaker, orderType, intent, status, filled,
                   recorded, market>>

Unwinding(g, stage) == phase[g] = "unwinding" /\ unwind[g].stage = stage
\* New, Posted, a status of process_response(), or Failed for every other end.
SetStage(g, new) == unwind' = [unwind EXCEPT ![g].stage = new]

\* The unwind is an order like any other: it passes breaker and rate limiter.
SubmitUnwind(g) ==
    /\ Unwinding(g, "New")
    /\ \/ (CheckRefuses \/ CheckPasses) /\ SetStage(g, "Failed")
       \/ CheckPasses /\ SetStage(g, "Posted")
    /\ UNCHANGED <<phase, orderType, intent, status, filled, recorded, market>>

\* Shares of the leg's token in the wallet, whichever group bought them.
Held(l) == FoldSet(LAMBDA g, sum : sum + bought[g][l], 0, Groups)

Sell(g) ==
    /\ Held(unwind[g].leg) >= unwind[g].size
    /\ bought' = [bought EXCEPT ![g][unwind[g].leg] = @ - unwind[g].size]
    /\ UNCHANGED resting

\* process_response() compares taking_amount with the size submitted, also of a
\* Sell, which takes dollars for its shares.
SaleStatus(g, price) ==
    StatusOf("FOK", unwind[g].size * price, unwind[g].size * 1000)

UnwindExecuted(g) ==
    /\ Unwinding(g, "Posted")
    /\ \/ Sell(g) /\ \E price \in SalePrices : SetStage(g, SaleStatus(g, price))
       \/ UNCHANGED market /\ SetStage(g, StatusOf("FOK", 0, unwind[g].size))
    /\ OrderSucceeds
    /\ UNCHANGED <<phase, orderType, intent, status, filled, recorded>>

UnwindRejected(g) ==
    /\ Unwinding(g, "Posted")
    /\ \E error \in Errors : OrderFails(error)
    /\ SetStage(g, "Failed")
    /\ UNCHANGED <<phase, orderType, intent, status, filled, recorded, market>>

\* Mutant: the unwind is awaited without a deadline.
UnwindNeverTimesOut(g) == FALSE

\* PARTIAL_FILL_UNWIND_MS: the future of execute() is dropped, the order it
\* may have posted is not.
UnwindTimesOut(g) ==
    /\ Unwinding(g, "Posted")
    /\ SetStage(g, "Failed")
    /\ Sell(g) \/ UNCHANGED market
    /\ UNCHANGED <<breaker, phase, orderType, intent, status,
                   filled, recorded>>

\* Mutant: an unwind that did not fill is only logged.
FinishUnwindQuietly(g) ==
    /\ phase[g] = "unwinding" /\ unwind[g].stage \notin {"New", "Posted"}
    /\ phase' = [phase EXCEPT ![g] = "recording"]
    /\ UNCHANGED <<breaker, orderType, intent, status, filled,
                   unwind, recorded, market>>

\* Anything but FullyFilled opens the breaker by manual_open().
FinishUnwind(g) ==
    /\ phase[g] = "unwinding" /\ unwind[g].stage \notin {"New", "Posted"}
    /\ IF unwind[g].stage = "FullyFilled"
       THEN UNCHANGED breaker
       ELSE Breaker!TripFromOutside("ManualTrigger")
    /\ phase' = [phase EXCEPT ![g] = "recording"]
    /\ UNCHANGED <<orderType, intent, status, filled, unwind,
                   recorded, market>>

-----------------------------------------------------------------------------
(* handle_execution_result() for each leg: what execute() told the breaker *)
(* already is told again.                                                  *)
RecordLeg(g) ==
    LET l == recorded[g] + 1
    IN  /\ phase[g] = "recording"
        /\ CASE status[g][l] \in {"FullyFilled", "PartialFill"} -> Breaker!RecordSuccess
             [] status[g][l] \in {"Rejected", "SubmissionFailed"} ->
                    Breaker!RecordNeutralResult
             [] OTHER -> UNCHANGED breaker
        /\ recorded' = [recorded EXCEPT ![g] = l]
        /\ phase' = IF l = 2 THEN [phase EXCEPT ![g] = "done"] ELSE phase
        /\ UNCHANGED <<orderType, intent, status, filled, unwind, market>>

Tick == Breaker!Tick /\ UNCHANGED <<task, market>>

Next ==
    \/ \E g \in Groups : \/ Start(g) \/ Compare(g)
                         \/ SubmitUnwind(g) \/ UnwindExecuted(g)
                         \/ UnwindRejected(g) \/ UnwindTimesOut(g)
                         \/ FinishUnwind(g) \/ RecordLeg(g)
    \/ \E g \in Groups, l \in Legs : \/ SubmitLeg(g, l) \/ LegExecuted(g, l)
                                     \/ LegRejected(g, l) \/ LegFailed(g, l)
                                     \/ RestingFills(g, l)
    \/ Tick

(***************************************************************************)
(* A spawned task is run until it is done, a request that is not answered  *)
(* fails in the end, and the timer of the unwind fires.  The exchange need *)
(* not answer the unwind.                                                  *)
(***************************************************************************)
Fairness ==
    \A g \in Groups :
        /\ WF_vars(Compare(g)) /\ WF_vars(SubmitUnwind(g))
        /\ WF_vars(UnwindTimesOut(g)) /\ WF_vars(FinishUnwind(g))
        /\ WF_vars(RecordLeg(g))
        /\ \A l \in Legs : WF_vars(SubmitLeg(g, l)) /\ WF_vars(LegFailed(g, l))

Spec == Init /\ [][Next]_vars /\ Fairness

-----------------------------------------------------------------------------
(* Properties *)

\* The type invariant.  A leg is never filled beyond what was submitted, and no
\* unwind sells what the wallet does not hold.
TypeOK ==
    /\ phase \in [Groups -> Phases]
    /\ orderType \in [Groups -> {"FOK", "GTC"}]
    /\ intent \in [Groups -> Intents]
    /\ status \in [Groups -> [Legs -> Statuses]]
    /\ \A g \in Groups, l \in Legs : filled[g][l] \in 0..Submitted(g, l)
    /\ recorded \in [Groups -> 0..2]
    /\ bought \in [Groups -> [Legs -> Int]]
    /\ resting \in [Groups -> [Legs -> Nat]]
    /\ \A l \in Legs : Held(l) >= 0

\* What the answers say the group holds of a leg.
Reported(g, l) ==
    filled[g][l] - (IF unwind[g].stage = "FullyFilled" /\ unwind[g].leg = l
                    THEN unwind[g].size ELSE 0)

\* execute_grouped returns for the group.
Returns(g) == phase[g] \in {"legs", "unwinding"} /\ phase'[g] = "recording"

\* Whenever execute_grouped returns, either the answers add up to legs of the
\* same size or the breaker has just been opened: no residual that the executor
\* could know of is left with trading going on, whichever way the unwind failed.
ResidualHalts ==
    [][\A g \in Groups :
        Returns(g) => Reported(g, 1) = Reported(g, 2) \/ state' = "Open"]_vars

\* The same of what the exchange really executed for the group ("unwind the
\* excess on the over-filled legs so positions stay delta-neutral").
DeltaNeutral ==
    [][\A g \in Groups :
        Returns(g) => bought[g][1] = bought[g][2] \/ state' = "Open"]_vars

\* Documented: what is logged as a partial fill of the unwind is "residual
\* exposure", and no "fully-filled quantized order is misclassified as
\* PartialFill, spuriously triggering unwind logic": a group whose unwind was
\* answered so returns with legs that differ.
PartialMeansResidual ==
    [][\A g \in Groups :
        Returns(g) /\ unwind[g].stage = "PartialFill"
            => bought[g][1] # bought[g][2]]_vars

\* Every leg that is submitted is worth whole cents, as the exchange demands of
\* prices of whole cents.
NotionalInCents ==
    \A g \in Groups, l \in Legs : WholeCents(intent[g].price[l]) =>
        (intent[g].price[l] * Submitted(g, l)) % Cent = 0

\* A leg is submitted with the largest size of the kind that its intent allows,
\* and the minimum the strategies keep makes that worth a dollar: the executor
\* need not and does not order more than it was asked.
IntentsServed ==
    \A g \in Groups, l \in Legs : WholeCents(intent[g].price[l]) =>
        LET price == intent[g].price[l]
        IN  /\ Submitted(g, l) <= intent[g].size
            /\ price * Submitted(g, l) >= Dollar
            /\ \A larger \in (Submitted(g, l) + 1)..intent[g].size :
                    (price * larger) % Cent # 0

\* A group that was started is done in the end, even if the breaker opens half
\* way through it or the exchange never answers the unwind.
GroupsFinish ==
    \A g \in Groups : phase[g] # "idle" ~> phase[g] = "done"
=============================================================================
