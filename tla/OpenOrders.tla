----------------------------- MODULE OpenOrders -----------------------------
(***************************************************************************)
(* ledger/orders.rs: the orders the ledger tracks, kept twice, once under  *)
(* the id we gave them and once, as a clone, under the id the exchange     *)
(* gave them.  Every method that changes an order has to change both.      *)
(***************************************************************************)
EXTENDS Integers

CONSTANTS
    LocalIds,       \* Uuids of tracked orders
    OrderIds,       \* ids the exchange assigns
    Sizes,          \* sizes of orders and of fills
    NoOrder,        \* "not in the map"
    NoId,           \* order_id = None
    MaxCreated,     \* bound on the orders ever added
    MaxFilled       \* bound on filled_size

ASSUME SizesAssumption == Sizes \subseteq Nat \ {0}
ASSUME NoIdAssumption == NoId \notin OrderIds

States == {"CreatedLocal", "Signed", "Submitted", "Acked", "PartiallyFilled",
           "Filled", "CancelPending", "Cancelled", "Expired", "Rejected",
           "Unknown"}

\* OrderState::is_terminal and OrderState::is_active
Terminal == {"Filled", "Cancelled", "Expired", "Rejected"}
Active == {"Acked", "PartiallyFilled", "CancelPending"}

Orders == [order_id : OrderIds \cup {NoId}, state : States,
           original : Sizes, filled : Nat, remaining : Int]

ASSUME NoOrderAssumption == NoOrder \notin Orders

VARIABLES
    byLocalId,      \* by_local_id
    byOrderId,      \* by_order_id
    totalCreated

vars == <<byLocalId, byOrderId, totalCreated>>

Init ==
    /\ byLocalId = [l \in LocalIds |-> NoOrder]
    /\ byOrderId = [o \in OrderIds |-> NoOrder]
    /\ totalCreated = 0

Tracked(l) == byLocalId[l] # NoOrder
Linked(l) == Tracked(l) /\ byLocalId[l].order_id # NoId

-----------------------------------------------------------------------------
\* Mutant: Unknown is a state orders come back from.
CanTransitionBack(old, new) ==
    \/ <<old, new>> \in { <<"Unknown", "Acked">>, <<"Submitted", "Acked">>,
                          <<"Acked", "CancelPending">> }
    \/ new \in {"Unknown", "Expired", "Rejected"}

\* OrderState::can_transition_to
CanTransition(old, new) ==
    \/ <<old, new>> \in
         { <<"CreatedLocal", "Signed">>, <<"Signed", "Submitted">>,
           <<"Submitted", "Acked">>, <<"Submitted", "Rejected">>,
           <<"Acked", "PartiallyFilled">>, <<"Acked", "Filled">>,
           <<"Acked", "CancelPending">>, <<"PartiallyFilled", "Filled">>,
           <<"PartiallyFilled", "CancelPending">>,
           <<"CancelPending", "Cancelled">>, <<"CancelPending", "Filled">>,
           <<"Acked", "Cancelled">>, <<"PartiallyFilled", "Cancelled">> }
    \/ new \in {"Unknown", "Expired", "Rejected"}

\* add(): a new order gets a Uuid no order has had.
Add(l, size) ==
    /\ ~Tracked(l)
    /\ totalCreated < MaxCreated
    /\ byLocalId' = [byLocalId EXCEPT ![l] =
            [order_id |-> NoId, state |-> "CreatedLocal",
             original |-> size, filled |-> 0, remaining |-> size]]
    /\ totalCreated' = totalCreated + 1
    /\ UNCHANGED byOrderId

\* Mutant: the clone is indexed as it was before the id was set.
LinkStaleClone(l, o) ==
    /\ Tracked(l)
    /\ byLocalId[l].order_id \in {NoId, o}
    /\ byLocalId[l].order_id = NoId => byOrderId[o] = NoOrder
    /\ byLocalId' = [byLocalId EXCEPT ![l].order_id = o]
    /\ byOrderId' = [byOrderId EXCEPT ![o] = byLocalId[l]]
    /\ UNCHANGED totalCreated

\* link_order_id(): the exchange gives an order one id, its own, however often
\* it acknowledges it.
LinkOrderId(l, o) ==
    /\ Tracked(l)
    /\ byLocalId[l].order_id \in {NoId, o}
    /\ byLocalId[l].order_id = NoId => byOrderId[o] = NoOrder
    /\ byLocalId' = [byLocalId EXCEPT ![l].order_id = o]
    /\ byOrderId' = [byOrderId EXCEPT ![o] = [byLocalId[l] EXCEPT !.order_id = o]]
    /\ UNCHANGED totalCreated

\* The order in by_order_id, if any, that transition() and apply_fill() change
\* along with the one in by_local_id.
IsClone(o, l) == byLocalId[l].order_id = o /\ byOrderId[o] # NoOrder

\* transition(): an invalid transition is an Err and changes nothing.
Transition(l, new) ==
    /\ Tracked(l)
    /\ CanTransition(byLocalId[l].state, new)
    /\ byLocalId' = [byLocalId EXCEPT ![l].state = new]
    /\ byOrderId' = [o \in OrderIds |->
           IF IsClone(o, l) THEN [byOrderId[o] EXCEPT !.state = new]
                            ELSE byOrderId[o]]
    /\ UNCHANGED totalCreated

\* Mutant: an order is filled only when its size is overrun.
StateAfterOverrun(order, remaining) ==
    IF remaining < 0 THEN "Filled"
    ELSE IF order.state = "Acked" THEN "PartiallyFilled" ELSE order.state

\* apply_fill() moves the order to Filled or PartiallyFilled by itself,
\* without asking can_transition_to.
StateAfterFill(order, remaining) ==
    IF remaining <= 0 THEN "Filled"
    ELSE IF order.state = "Acked" THEN "PartiallyFilled" ELSE order.state

\* apply_fill(); a fill may overrun the order.
ApplyFill(l, size) ==
    /\ Tracked(l)
    /\ byLocalId[l].filled + size <= MaxFilled
    /\ LET filled == byLocalId[l].filled + size
           remaining == byLocalId[l].original - filled
           state == StateAfterFill(byLocalId[l], remaining)
           Update(order) == [order EXCEPT !.filled = filled,
                                !.remaining = remaining, !.state = state]
       IN  /\ byLocalId' = [byLocalId EXCEPT ![l] = Update(@)]
           /\ byOrderId' = [o \in OrderIds |->
                  IF IsClone(o, l) THEN Update(byOrderId[o]) ELSE byOrderId[o]]
    /\ UNCHANGED totalCreated

\* remove_terminal()
Removable(l) == Tracked(l) /\ byLocalId[l].state \in Terminal

RemoveTerminal ==
    /\ byLocalId' = [l \in LocalIds |->
           IF Removable(l) THEN NoOrder ELSE byLocalId[l]]
    /\ byOrderId' = [o \in OrderIds |->
           IF \E l \in LocalIds : Removable(l) /\ byLocalId[l].order_id = o
           THEN NoOrder ELSE byOrderId[o]]
    /\ UNCHANGED totalCreated

Next ==
    \/ \E l \in LocalIds, size \in Sizes : Add(l, size) \/ ApplyFill(l, size)
    \/ \E l \in LocalIds, o \in OrderIds : LinkOrderId(l, o)
    \/ \E l \in LocalIds, new \in States : Transition(l, new)
    \/ RemoveTerminal

Spec == Init /\ [][Next]_vars

-----------------------------------------------------------------------------
(* Properties *)

\* The type invariant.
TypeOK ==
    /\ byLocalId \in [LocalIds -> Orders \cup {NoOrder}]
    /\ byOrderId \in [OrderIds -> Orders \cup {NoOrder}]
    /\ totalCreated \in Nat

\* The two indices agree: whichever id an order is looked up by, the same
\* order is found, and no exchange id outlives or shares its order.
IndexesAgree ==
    /\ \A l \in LocalIds : Linked(l) =>
            byOrderId[byLocalId[l].order_id] = byLocalId[l]
    /\ \A o \in OrderIds : byOrderId[o] # NoOrder =>
            \E l \in LocalIds : Tracked(l) /\ byLocalId[l].order_id = o
    /\ \A k, l \in LocalIds :
            Linked(k) /\ Linked(l) /\ byLocalId[k].order_id = byLocalId[l].order_id
                => k = l

\* remaining_size is what is left of the order, and an order the ledger counts
\* as active on the exchange always has something left to fill: there is no
\* path, by fills or by transitions, that leaves a used-up order active.
ActiveHasRemaining ==
    \A l \in LocalIds : Tracked(l) =>
        /\ byLocalId[l].remaining = byLocalId[l].original - byLocalId[l].filled
        /\ byLocalId[l].state \in Active => byLocalId[l].remaining > 0

\* An order that is done, or whose state is not known, is never active again,
\* whatever fills and transitions arrive late.
DoneStaysDone ==
    [][\A l \in LocalIds :
        (/\ Tracked(l)
         /\ byLocalId[l].state \in Terminal \cup {"Unknown"}
         /\ Tracked(l)')
        => byLocalId'[l].state \notin Active]_vars
=============================================================================
