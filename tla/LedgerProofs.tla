----------------------------- MODULE LedgerProofs -----------------------------
(***************************************************************************)
(* Proofs about the three parts of the ledger, for any trades, tokens,     *)
(* orders and sizes.                                                       *)
(*                                                                         *)
(* Fills (FillBooking).  PositionsAgree compares two sums over the trades  *)
(* without naming them.  The invariant does: what the wallet holds of a    *)
(* token is the sum over the trades that stand, what the ledger counts is  *)
(* the sum over the trades it has seen (as long as the taker's side is the *)
(* wallet's wherever a restart booked), and a trade of a subscribed token  *)
(* is either seen or still announced while the socket is up.  When nothing *)
(* is announced any more the two sums are over the same trades.            *)
(*                                                                         *)
(* Paper trading (PaperTrading).  A fill moves cost and realized profit by *)
(* exactly what it moves in cash, in each of the cases of apply_fill(), as *)
(* long as an average is not rounded.                                      *)
(*                                                                         *)
(* Orders (OpenOrders).  ActiveHasRemaining is not inductive: an order     *)
(* that is used up before it is acknowledged could become active by a      *)
(* transition.  OrdersSound says that the states before Acked have         *)
(* something left too.  LinkOrderId, Transition and ApplyFill all replace  *)
(* one order by another in both indices; what such a replacement preserves *)
(* is one lemma.                                                           *)
(***************************************************************************)
EXTENDS MCLedger, SumLemmas

-----------------------------------------------------------------------------
(* Sequences of messages                                                   *)

\* What is in a sequence after one more element, after another sequence, and without
\* its first element.
LEMMA AppendedSet ==
    ASSUME NEW S, NEW s \in Seq(S), NEW x \in S
    PROVE  /\ Append(s, x) \in Seq(S)
           /\ ToSet(Append(s, x)) = ToSet(s) \cup {x}
<1>1. /\ Len(s) \in Nat /\ DOMAIN s = 1..Len(s)
      /\ DOMAIN Append(s, x) = 1..(Len(s) + 1)
      /\ Append(s, x)[Len(s) + 1] = x
      /\ \A i \in 1..Len(s) : Append(s, x)[i] = s[i]
  OBVIOUS
<1>2. \A i \in 1..(Len(s) + 1) : i \in 1..Len(s) \/ i = Len(s) + 1
  BY <1>1
<1>3. Len(s) + 1 \in 1..(Len(s) + 1) /\ \A i \in 1..Len(s) : i \in 1..(Len(s) + 1)
  BY <1>1
<1> QED
  BY <1>1, <1>2, <1>3 DEF ToSet

\* Joining two sequences holds the members of both and no others.
LEMMA JoinedSet ==
    ASSUME NEW S, NEW s \in Seq(S), NEW u \in Seq(S)
    PROVE  /\ s \o u \in Seq(S)
           /\ ToSet(u) \subseteq ToSet(s \o u)
           /\ ToSet(s) \subseteq ToSet(s \o u)
           /\ ToSet(s \o u) \subseteq ToSet(s) \cup ToSet(u)
<1>1. /\ Len(s) \in Nat /\ DOMAIN s = 1..Len(s)
      /\ Len(u) \in Nat /\ DOMAIN u = 1..Len(u)
      /\ s \o u \in Seq(S)
      /\ DOMAIN (s \o u) = 1..(Len(s) + Len(u))
      /\ \A i \in 1..(Len(s) + Len(u)) :
            (s \o u)[i] = IF i <= Len(s) THEN s[i] ELSE u[i - Len(s)]
  OBVIOUS
<1>2. ASSUME NEW i \in 1..Len(u) PROVE u[i] \in ToSet(s \o u)
  <2>1. i + Len(s) \in 1..(Len(s) + Len(u)) /\ ~(i + Len(s) <= Len(s)) /\ (i + Len(s)) - Len(s) = i
    BY <1>1
  <2>2. (s \o u)[i + Len(s)] = u[i]
    BY <2>1, <1>1
  <2> QED
    BY <2>1, <2>2, <1>1 DEF ToSet
<1>3. ASSUME NEW i \in 1..Len(s) PROVE s[i] \in ToSet(s \o u)
  <2>1. i \in 1..(Len(s) + Len(u)) /\ i <= Len(s)
    BY <1>1
  <2>2. (s \o u)[i] = s[i]
    BY <2>1, <1>1
  <2> QED
    BY <2>1, <2>2, <1>1 DEF ToSet
<1>4. ASSUME NEW i \in 1..(Len(s) + Len(u)) PROVE (s \o u)[i] \in ToSet(s) \cup ToSet(u)
  <2>1. CASE i <= Len(s)
    <3>1. i \in 1..Len(s) /\ (s \o u)[i] = s[i]
      BY <2>1, <1>1
    <3> QED
      BY <3>1, <1>1 DEF ToSet
  <2>2. CASE ~(i <= Len(s))
    <3>1. i - Len(s) \in 1..Len(u) /\ (s \o u)[i] = u[i - Len(s)]
      BY <2>2, <1>1
    <3> QED
      BY <3>1, <1>1 DEF ToSet
  <2> QED
    BY <2>1, <2>2
<1> QED
  BY <1>1, <1>2, <1>3, <1>4 DEF ToSet

\* Taking the head off a sequence loses no member but the head.
LEMMA TakenSet ==
    ASSUME NEW S, NEW s \in Seq(S), s # <<>>
    PROVE  /\ Tail(s) \in Seq(S)
           /\ Head(s) \in ToSet(s)
           /\ ToSet(Tail(s)) \subseteq ToSet(s)
           /\ ToSet(s) \subseteq {Head(s)} \cup ToSet(Tail(s))
<1>1. /\ Len(s) \in Nat \ {0} /\ DOMAIN s = 1..Len(s)
      /\ Tail(s) \in Seq(S) /\ DOMAIN Tail(s) = 1..(Len(s) - 1)
      /\ Head(s) = s[1]
      /\ \A i \in 1..(Len(s) - 1) : Tail(s)[i] = s[i + 1]
  OBVIOUS
<1>2. 1 \in 1..Len(s) /\ \A i \in 1..(Len(s) - 1) : i + 1 \in 1..Len(s)
  BY <1>1
<1>3. ASSUME NEW i \in 1..Len(s) PROVE i = 1 \/ (i - 1 \in 1..(Len(s) - 1) /\ (i - 1) + 1 = i)
  BY <1>1
<1>4. ASSUME NEW i \in 1..Len(s) PROVE s[i] \in {Head(s)} \cup ToSet(Tail(s))
  <2>1. CASE i = 1
    BY <2>1, <1>1
  <2>2. CASE i - 1 \in 1..(Len(s) - 1) /\ (i - 1) + 1 = i
    <3>1. Tail(s)[i - 1] = s[i]
      BY <2>2, <1>1
    <3> QED
      BY <2>2, <3>1, <1>1 DEF ToSet
  <2> QED
    BY <2>1, <2>2, <1>3
<1> QED
  BY <1>1, <1>2, <1>4 DEF ToSet

\* What is re-sent on a reconnect: a sequence of exactly the ids of the set.
LEMMA ListedSet ==
    ASSUME NEW S, IsFiniteSet(S)
    PROVE  SetToSeq(S) \in Seq(S) /\ ToSet(SetToSeq(S)) = S
<1>1. PICK n \in Nat : n = Cardinality(S)
  BY FS_CardinalityType
<1>2. \E f : f \in Bijection(1..n, S)
  <2>1. PICK m \in Nat : ExistsBijection(1..m, S)
    BY FS_NatBijection
  <2>2. m = n
    BY <1>1, <2>1, FS_CountingElements
  <2> QED
    BY <2>1, <2>2 DEF ExistsBijection
<1>3. \E f \in [1..n -> S] : IsInjective(f)
  BY <1>2 DEF Bijection, Injection
<1>4. PICK s : s = SetToSeq(S)
  OBVIOUS
<1>5. s \in [1..n -> S] /\ IsInjective(s)
  BY <1>1, <1>3, <1>4 DEF SetToSeq
<1>6. s \in Injection(1..n, S)
  BY <1>5 DEF Injection
<1>7. IsFiniteSet(1..n) /\ Cardinality(1..n) = n
  BY CountTo
<1>8. s \in Surjection(1..n, S)
  BY <1>1, <1>6, <1>7, FS_Injection
<1>9. DOMAIN s = 1..n /\ s \in Seq(S) /\ \A x \in S : \E i \in 1..n : s[i] = x
  BY <1>5, <1>8 DEF Surjection
<1> QED
  BY <1>4, <1>9 DEF ToSet

-----------------------------------------------------------------------------
(* What trades make of a position                                          *)

\* The trades as the exchange knows them.
TradeTables == [TradeIds -> Trades \cup {NoTrade}]

\* What a trade does to the wallet's shares.
Effect(trade) == Signed(WalletSide(trade), trade.size)

\* By trade, what those of `ids` do to the shares of token t; and all of them together.
Effects(table, ids, t) == [id \in TradeIds |->
    IF id \in ids /\ table[id].token = t THEN Effect(table[id]) ELSE 0]
Net(table, ids, t) == SumFunctionOnSet(Effects(table, ids, t), TradeIds)

\* Trades that differ at most in their status.
SameTrade(a, b) ==
    /\ a.token = b.token /\ a.takerSide = b.takerSide
    /\ a.role = b.role /\ a.size = b.size

\* What a trade consists of.
LEMMA EffectType ==
    ASSUME NEW trade \in Trades
    PROVE  /\ Effect(trade) \in Int /\ trade.token \in Tokens
           /\ trade.size \in Nat \ {0}
           /\ Effect(trade) = IF WalletSide(trade) = "Buy" THEN trade.size ELSE -trade.size
<1>1. trade.size \in Nat \ {0} /\ trade.token \in Tokens
  BY BookingAssumption DEF Trades
<1> QED
  BY <1>1 DEF Effect, Signed

\* The effect does not depend on the status.
LEMMA SameEffect ==
    ASSUME NEW a, NEW b, SameTrade(a, b)
    PROVE  Effect(a) = Effect(b)
  BY DEF SameTrade, Effect, WalletSide

\* A position is a number.
LEMMA NetType ==
    ASSUME NEW table \in TradeTables, NEW ids \in SUBSET TradeIds,
           \A id \in ids : table[id] # NoTrade, NEW t
    PROVE  /\ \A id \in TradeIds : Effects(table, ids, t)[id] \in Int
           /\ Net(table, ids, t) \in Int
<1>1. \A id \in TradeIds : Effects(table, ids, t)[id] \in Int
  <2> TAKE id \in TradeIds
  <2>1. CASE id \in ids
    <3>1. table[id] \in Trades
      BY <2>1 DEF TradeTables
    <3> QED
      BY <3>1, EffectType DEF Effects
  <2>2. CASE id \notin ids
    BY <2>2 DEF Effects
  <2> QED
    BY <2>1, <2>2
<1> QED
  BY <1>1, SumType, BookingAssumption DEF Net

\* The position does not depend on trades it does not count, nor on their status.
LEMMA NetSame ==
    ASSUME NEW table, NEW other, NEW ids,
           \A id \in ids : SameTrade(table[id], other[id]), NEW t
    PROVE  Net(other, ids, t) = Net(table, ids, t)
<1>1. \A id \in TradeIds : id \in ids => /\ other[id].token = table[id].token
                                         /\ Effect(other[id]) = Effect(table[id])
  BY SameEffect DEF SameTrade
<1>2. Effects(other, ids, t) = Effects(table, ids, t)
  BY <1>1 DEF Effects
<1> QED
  BY <1>2 DEF Net

\* One more trade changes the position of its token by its effect.
LEMMA NetAdded ==
    ASSUME NEW table \in TradeTables, NEW ids \in SUBSET TradeIds,
           NEW x \in TradeIds \ ids,
           \A id \in ids \cup {x} : table[id] # NoTrade, NEW t
    PROVE  Net(table, ids \cup {x}, t) =
                Net(table, ids, t) + (IF table[x].token = t THEN Effect(table[x]) ELSE 0)
<1> DEFINE f == Effects(table, ids, t)
           g == Effects(table, ids \cup {x}, t)
<1>1. \A id \in TradeIds : f[id] \in Int /\ g[id] \in Int
  BY NetType
<1>2. \A id \in TradeIds \ {x} : g[id] = f[id]
  BY DEF Effects
<1>3. f[x] = 0 /\ g[x] = IF table[x].token = t THEN Effect(table[x]) ELSE 0
  BY DEF Effects
<1>4. Net(table, ids, t) = SumFunctionOnSet(f, TradeIds) /\ SumFunctionOnSet(f, TradeIds) \in Int
  BY NetType DEF Net
<1>5. Net(table, ids \cup {x}, t) = SumFunctionOnSet(g, TradeIds)
  BY DEF Net
<1>6. x \in TradeIds /\ IsFiniteSet(TradeIds)
  BY BookingAssumption
<1> HIDE DEF f, g
<1>7. SumFunctionOnSet(g, TradeIds) = SumFunctionOnSet(f, TradeIds) - f[x] + g[x]
  BY <1>1, <1>2, <1>6, SumUpdate
<1>8. g[x] \in Int
  BY <1>1, <1>6
<1> QED
  BY <1>3, <1>4, <1>5, <1>7, <1>8

\* By trade of token t, what a restart books of those of `ids`.
Rebooked(table, ids, t) == [id \in {id \in ids : table[id].token = t} |->
    Signed(ReplaySide(table[id]), table[id].size)]

\* It comes to the position, where the wallet was the taker of every trade.
LEMMA NetReplayed ==
    ASSUME NEW table \in TradeTables, NEW ids \in SUBSET TradeIds,
           \A id \in ids : table[id] # NoTrade, NEW t,
           \A id \in ids : table[id].token = t => table[id].role = "Taker"
    PROVE  \A f : f = Rebooked(table, ids, t) => SumFunction(f) = Net(table, ids, t)
<1> TAKE f
<1> HAVE f = Rebooked(table, ids, t)
<1> DEFINE g == Effects(table, ids, t)
<1>0. PICK counted : /\ counted = {id \in ids : table[id].token = t}
                     /\ f = [id \in counted |-> Signed(ReplaySide(table[id]), table[id].size)]
  BY DEF Rebooked
<1>1. counted \in SUBSET TradeIds /\ IsFiniteSet(counted) /\ IsFiniteSet(TradeIds \ counted)
  BY <1>0, BookingAssumption, FS_Subset
<1>2. \A id \in TradeIds : g[id] \in Int
  BY NetType
<1>3. \A id \in counted : f[id] = g[id] /\ f[id] \in Int
  BY <1>0, <1>1, <1>2 DEF Effects, Effect, WalletSide, ReplaySide
<1>4. \A id \in TradeIds \ counted : g[id] = 0
  BY <1>0 DEF Effects
<1>5. SumFunction(f) = SumFunctionOnSet(f, counted)
  BY <1>0 DEF SumFunction
<1>6. Net(table, ids, t) = SumFunctionOnSet(g, TradeIds)
  BY DEF Net
<1> HIDE DEF g
<1>7. SumFunctionOnSet(g, TradeIds) = SumFunctionOnSet(g, counted) + SumFunctionOnSet(g, TradeIds \ counted)
  BY <1>1, <1>2, SumSplit, BookingAssumption
<1>8. SumFunctionOnSet(g, TradeIds \ counted) = 0
  BY <1>1, <1>4, SumOfZeros
<1>9. SumFunctionOnSet(g, counted) = SumFunctionOnSet(f, counted)
  BY <1>1, <1>3, SumSame
<1>10. SumFunctionOnSet(g, counted) \in Int
  BY <1>1, <1>2, SumType
<1> QED
  BY <1>5, <1>6, <1>7, <1>8, <1>9, <1>10

-----------------------------------------------------------------------------
(* The inductive invariant                                                 *)

\* Only trades that happened are announced.
Announced == ToSet(inbox) \subseteq {id \in TradeIds : Executed(id)}

\* While the socket is up, every trade of a subscribed token is booked or announced.
Delivered == connected => \A id \in TradeIds :
    Executed(id) /\ trades[id].token \in StartTokens => id \in seen \cup ToSet(inbox)

\* The wallet holds what the trades that stand have made of it.
HeldCounted == \A t \in Tokens : holdings[t] = Net(trades, Replayed, t)

\* The ledger counts what the trades it has seen come to, where a restart got the
\* sides right and nothing corrects positions.
BookedCounted == ~PositionSync => \A t \in Tokens :
    RebuiltRight(t) => shares[t] = Net(trades, seen, t)

BookingInv ==
    /\ BookingTypeOK
    /\ ~PositionSync => syncing \in {"no", "cash"}
    /\ ~FailuresHappen => Replayed = {id \in TradeIds : Executed(id)}
    /\ Announced /\ Delivered /\ HeldCounted /\ BookedCounted

\* Rebuilt right after a step of the exchange, rebuilt right before.
LEMMA RebuiltBefore ==
    ASSUME restarts' = restarts, NEW t, RebuiltRight(t)',
           \A id \in TradeIds : Executed(id) =>
                Executed(id)' /\ SameTrade(trades[id], trades'[id])
    PROVE  RebuiltRight(t)
  BY DEF RebuiltRight, SameTrade

\* What the announcement of an executed trade does to the inbox.
LEMMA NotifyAnnounces ==
    ASSUME inbox \in Seq(TradeIds), NEW id \in TradeIds, NEW trade, Notify(id, trade)
    PROVE  /\ inbox' \in Seq(TradeIds)
           /\ ToSet(inbox) \subseteq ToSet(inbox')
           /\ ToSet(inbox') \subseteq ToSet(inbox) \cup {id}
           /\ connected /\ trade.token \in StartTokens => id \in ToSet(inbox')
<1>1. PICK old : old = inbox
  OBVIOUS
<1>2. Append(old, id) \in Seq(TradeIds) /\ ToSet(Append(old, id)) = ToSet(old) \cup {id}
  BY <1>1, AppendedSet
<1> QED
  BY <1>1, <1>2 DEF Notify

\* It holds at the start, when nothing has been traded.
LEMMA BookingStarts == BookingInit => BookingInv
<1> SUFFICES ASSUME BookingInit PROVE BookingInv
  OBVIOUS
<1>1. \A id \in TradeIds : ~Executed(id)
  BY DEF BookingInit, Executed
<1>2. ToSet(inbox) = {}
  BY DEF BookingInit, ToSet
<1>3. Replayed = {} /\ seen = {}
  BY <1>1 DEF Replayed, BookingInit
<1>4. ASSUME NEW t PROVE Net(trades, {}, t) = 0
  <2>1. \A id \in TradeIds : Effects(trades, {}, t)[id] = 0
    BY DEF Effects
  <2> QED
    BY <2>1, SumOfZeros, BookingAssumption DEF Net
<1>5. BookingTypeOK
  BY BookingAssumption DEF BookingTypeOK, BookingInit, NoRead
<1>6. HeldCounted /\ BookedCounted
  BY <1>3, <1>4 DEF HeldCounted, BookedCounted, BookingInit
<1>7. Announced /\ Delivered
  BY <1>1, <1>2 DEF Announced, Delivered
<1> QED
  BY <1>1, <1>3, <1>5, <1>6, <1>7 DEF BookingInv, BookingInit

\* A trade is executed.
LEMMA ExecuteKeeps ==
    ASSUME BookingInv, NEW id \in TradeIds, NEW trade \in Trades, Execute(id, trade)
    PROVE  BookingInv'
<1> USE DEF BookingInv
<1>1. PICK old : old = trades
  OBVIOUS
<1>2. PICK new : new = trades'
  OBVIOUS
<1>3. PICK ids : ids = Replayed
  OBVIOUS
<1>4. PICK booked : booked = seen
  OBVIOUS
<1>5. /\ old \in TradeTables /\ new \in TradeTables
      /\ old[id] = NoTrade /\ new[id] = trade /\ trade # NoTrade
      /\ \A i \in TradeIds \ {id} : new[i] = old[i]
  BY <1>1, <1>2, NoTradeAssumption DEF Execute, BookingTypeOK, TradeTables, Executed
<1>6. /\ trade.token \in Tokens /\ trade.size \in Nat /\ Effect(trade) \in Int
      /\ Effect(trade) = IF WalletSide(trade) = "Buy" THEN trade.size ELSE -trade.size
  BY EffectType
<1>7. /\ ids \in SUBSET TradeIds /\ booked \in SUBSET TradeIds
      /\ id \notin ids /\ id \notin booked
      /\ \A i \in ids \cup {id} : new[i] # NoTrade
      /\ \A i \in ids : SameTrade(old[i], new[i])
      /\ \A i \in booked : SameTrade(old[i], new[i])
  BY <1>1, <1>3, <1>4, <1>5 DEF Replayed, Executed, SameTrade, BookingTypeOK
<1>8. Replayed' = ids \cup {id}
  BY <1>1, <1>2, <1>3, <1>5 DEF Replayed, Executed, Execute
<1>9. \A i \in TradeIds : Executed(i)' <=> (Executed(i) \/ i = id)
  BY <1>1, <1>2, <1>5 DEF Executed
<1>10. \A i \in TradeIds : Executed(i) => Executed(i)' /\ SameTrade(trades[i], trades'[i])
  BY <1>1, <1>2, <1>5, <1>9 DEF Executed, SameTrade
<1>11. /\ inbox' \in Seq(TradeIds)
       /\ ToSet(inbox) \subseteq ToSet(inbox')
       /\ ToSet(inbox') \subseteq ToSet(inbox) \cup {id}
       /\ connected /\ trade.token \in StartTokens => id \in ToSet(inbox')
  BY NotifyAnnounces DEF Execute, BookingTypeOK
<1>12. /\ UNCHANGED <<connected, disconnects, ledger, restarts, sync>>
       /\ wallet' = wallet - Effect(trade)
       /\ holdings' = [holdings EXCEPT ![trade.token] = @ + Effect(trade)]
       /\ IF WalletSide(trade) = "Buy" THEN wallet >= trade.size
                                       ELSE holdings[trade.token] >= trade.size
  BY DEF Execute, Effect
<1>13. wallet \in Nat /\ holdings \in [Tokens -> Nat]
  BY DEF BookingTypeOK
<1>14. wallet' \in Nat
  BY <1>6, <1>12, <1>13
<1>15. holdings[trade.token] + Effect(trade) \in Nat
  <2>1. holdings[trade.token] \in Nat
    BY <1>6, <1>13
  <2> QED
    BY <2>1, <1>6, <1>12
<1>16. holdings' \in [Tokens -> Nat]
  BY <1>12, <1>13, <1>15
<1>17. BookingTypeOK'
  BY <1>2, <1>5, <1>9, <1>11, <1>12, <1>14, <1>16 DEF BookingTypeOK, TradeTables, ledger, sync
<1>18. HeldCounted'
  <2> SUFFICES ASSUME NEW t \in Tokens PROVE holdings'[t] = Net(new, ids \cup {id}, t)
    BY <1>2, <1>8 DEF HeldCounted
  <2>1. Net(new, ids \cup {id}, t) =
            Net(new, ids, t) + (IF new[id].token = t THEN Effect(new[id]) ELSE 0)
    BY <1>5, <1>7, NetAdded
  <2>2. Net(new, ids, t) = Net(old, ids, t)
    BY <1>7, NetSame
  <2>3. holdings[t] = Net(old, ids, t) /\ holdings[t] \in Nat
    BY <1>1, <1>3, <1>13 DEF HeldCounted
  <2>4. holdings'[t] = IF trade.token = t THEN holdings[t] + Effect(trade) ELSE holdings[t]
    BY <1>12, <1>13
  <2> QED
    BY <2>1, <2>2, <2>3, <2>4, <1>5, <1>6
<1>19. BookedCounted'
  <2> SUFFICES ASSUME ~PositionSync, NEW t \in Tokens, RebuiltRight(t)'
               PROVE  shares'[t] = Net(new, booked, t)
    BY <1>2, <1>4, <1>12 DEF BookedCounted, ledger
  <2>1. RebuiltRight(t)
    BY <1>10, <1>12, RebuiltBefore
  <2>2. Net(new, booked, t) = Net(old, booked, t)
    BY <1>7, NetSame
  <2> QED
    BY <2>1, <2>2, <1>1, <1>4, <1>12 DEF BookedCounted, ledger
<1>20. Announced' /\ Delivered'
  BY <1>1, <1>2, <1>5, <1>9, <1>11, <1>12 DEF Announced, Delivered, ledger
<1>21. ~FailuresHappen => Replayed' = {i \in TradeIds : Executed(i)'}
  BY <1>3, <1>8, <1>9
<1>22. ~PositionSync => syncing' \in {"no", "cash"}
  BY <1>12 DEF sync
<1> QED
  BY <1>17, <1>18, <1>19, <1>20, <1>21, <1>22

\* What a change of a trade's status leaves as it was.
LEMMA StatusChange ==
    ASSUME BookingInv, NEW id \in TradeIds, Executed(id),
           NEW s \in {"Matched", "Confirmed", "Failed"},
           trades' = [trades EXCEPT ![id].status = s]
    PROVE  /\ trades[id] \in Trades
           /\ trades' \in TradeTables
           /\ trades'[id].status = s
           /\ \A i \in TradeIds \ {id} : trades'[i] = trades[i]
           /\ \A i \in TradeIds : /\ Executed(i)' <=> Executed(i)
                                  /\ Executed(i) => SameTrade(trades[i], trades'[i])
<1>1. trades \in TradeTables
  BY DEF BookingInv, BookingTypeOK, TradeTables
<1>2. trades[id] \in Trades
  BY <1>1 DEF TradeTables, Executed
<1>3. PICK trade : trade = [trades[id] EXCEPT !.status = s]
  OBVIOUS
<1>4. trade \in Trades /\ trade.status = s /\ SameTrade(trades[id], trade)
  BY <1>2, <1>3 DEF Trades, SameTrade
<1>5. trades' = [trades EXCEPT ![id] = trade]
  BY <1>3
<1>6. trades'[id] = trade /\ \A i \in TradeIds \ {id} : trades'[i] = trades[i]
  BY <1>1, <1>5 DEF TradeTables
<1>7. trades' \in TradeTables
  BY <1>1, <1>4, <1>5 DEF TradeTables
<1> QED
  BY <1>2, <1>4, <1>6, <1>7, NoTradeAssumption DEF Executed, SameTrade

\* A trade is settled on chain.
LEMMA ConfirmKeeps ==
    ASSUME BookingInv, NEW id \in TradeIds, Confirm(id)
    PROVE  BookingInv'
<1> USE DEF BookingInv
<1>1. PICK old : old = trades
  OBVIOUS
<1>2. PICK new : new = trades'
  OBVIOUS
<1>3. PICK ids : ids = Replayed
  OBVIOUS
<1>4. PICK booked : booked = seen
  OBVIOUS
<1>5. /\ Executed(id) /\ old[id].status = "Matched"
      /\ new \in TradeTables /\ new[id].status = "Confirmed"
      /\ \A i \in TradeIds \ {id} : new[i] = old[i]
      /\ \A i \in TradeIds : /\ Executed(i)' <=> Executed(i)
                             /\ Executed(i) => SameTrade(old[i], new[i])
  BY <1>1, <1>2, StatusChange DEF Confirm
<1>6. Replayed' = ids
  BY <1>1, <1>2, <1>3, <1>5 DEF Replayed
<1>7. /\ \A i \in ids : SameTrade(old[i], new[i])
      /\ \A i \in booked : SameTrade(old[i], new[i])
  BY <1>1, <1>3, <1>4, <1>5 DEF Replayed, BookingTypeOK
<1>8. /\ inbox' \in Seq(TradeIds)
      /\ ToSet(inbox) \subseteq ToSet(inbox')
      /\ ToSet(inbox') \subseteq ToSet(inbox) \cup {id}
  BY NotifyAnnounces DEF Confirm, BookingTypeOK
<1>9. UNCHANGED <<wallet, holdings, connected, disconnects, ledger, restarts, sync>>
  BY DEF Confirm
<1>10. BookingTypeOK'
  BY <1>2, <1>5, <1>8, <1>9 DEF BookingTypeOK, TradeTables, ledger, sync
<1>11. HeldCounted'
  <2> SUFFICES ASSUME NEW t \in Tokens PROVE holdings'[t] = Net(new, ids, t)
    BY <1>2, <1>6 DEF HeldCounted
  <2>1. Net(new, ids, t) = Net(old, ids, t)
    BY <1>7, NetSame
  <2> QED
    BY <2>1, <1>1, <1>3, <1>9 DEF HeldCounted
<1>12. BookedCounted'
  <2> SUFFICES ASSUME ~PositionSync, NEW t \in Tokens, RebuiltRight(t)'
               PROVE  shares'[t] = Net(new, booked, t)
    BY <1>2, <1>4, <1>9 DEF BookedCounted, ledger
  <2>1. RebuiltRight(t)
    BY <1>1, <1>2, <1>5, <1>9, RebuiltBefore
  <2>2. Net(new, booked, t) = Net(old, booked, t)
    BY <1>7, NetSame
  <2> QED
    BY <2>1, <2>2, <1>1, <1>4, <1>9 DEF BookedCounted, ledger
<1>13. Announced' /\ Delivered'
  BY <1>1, <1>2, <1>5, <1>8, <1>9 DEF Announced, Delivered, SameTrade, ledger
<1>14. ~FailuresHappen => Replayed' = {i \in TradeIds : Executed(i)'}
  BY <1>3, <1>5, <1>6
<1>15. ~PositionSync => syncing' \in {"no", "cash"}
  BY <1>9 DEF sync
<1> QED
  BY <1>10, <1>11, <1>12, <1>13, <1>14, <1>15

\* A trade fails on chain and is undone in the wallet.
LEMMA FailKeeps ==
    ASSUME BookingInv, NEW id \in TradeIds, Fail(id)
    PROVE  BookingInv'
<1> USE DEF BookingInv
<1>1. PICK old : old = trades
  OBVIOUS
<1>2. PICK new : new = trades'
  OBVIOUS
<1>3. PICK ids : ids = Replayed
  OBVIOUS
<1>4. PICK booked : booked = seen
  OBVIOUS
<1>5. /\ Executed(id) /\ old[id] \in Trades /\ old[id].status = "Matched"
      /\ new \in TradeTables /\ new[id].status = "Failed"
      /\ \A i \in TradeIds \ {id} : new[i] = old[i]
      /\ \A i \in TradeIds : /\ Executed(i)' <=> Executed(i)
                             /\ Executed(i) => SameTrade(old[i], new[i])
  BY <1>1, <1>2, StatusChange DEF Fail
<1>6. PICK rest : rest = ids \ {id}
  OBVIOUS
<1>7. Replayed' = rest
  BY <1>1, <1>2, <1>3, <1>5, <1>6 DEF Replayed
<1>8. /\ rest \in SUBSET TradeIds /\ id \notin rest /\ ids = rest \cup {id}
      /\ \A i \in ids : old[i] # NoTrade
      /\ \A i \in rest : SameTrade(old[i], new[i])
      /\ \A i \in booked : SameTrade(old[i], new[i])
  BY <1>1, <1>3, <1>4, <1>5, <1>6 DEF Replayed, BookingTypeOK, Executed
<1>9. PICK trade \in Trades : trade = old[id]
  BY <1>5
<1>10. /\ trade.token \in Tokens /\ trade.size \in Nat /\ Effect(trade) \in Int
  BY EffectType
<1>11. /\ holdings[trade.token] >= Effect(trade)
       /\ wallet + Effect(trade) >= 0
       /\ wallet' = wallet + Effect(trade)
       /\ holdings' = [holdings EXCEPT ![trade.token] = @ - Effect(trade)]
       /\ Notify(id, trade)
       /\ UNCHANGED <<connected, disconnects, ledger, restarts, sync>>
       /\ FailuresHappen
  BY <1>1, <1>9 DEF Fail, Effect
<1>12. /\ inbox' \in Seq(TradeIds)
       /\ ToSet(inbox) \subseteq ToSet(inbox')
       /\ ToSet(inbox') \subseteq ToSet(inbox) \cup {id}
  BY <1>11, NotifyAnnounces DEF BookingTypeOK
<1>13. wallet \in Nat /\ holdings \in [Tokens -> Nat]
  BY DEF BookingTypeOK
<1>14. wallet' \in Nat
  BY <1>10, <1>11, <1>13
<1>15. holdings' \in [Tokens -> Nat]
  <2>1. holdings[trade.token] \in Nat
    BY <1>10, <1>13
  <2>2. holdings[trade.token] - Effect(trade) \in Nat
    BY <2>1, <1>10, <1>11
  <2> QED
    BY <2>2, <1>11, <1>13
<1>16. BookingTypeOK'
  BY <1>2, <1>5, <1>11, <1>12, <1>14, <1>15 DEF BookingTypeOK, TradeTables, ledger, sync
<1>17. HeldCounted'
  <2> SUFFICES ASSUME NEW t \in Tokens PROVE holdings'[t] = Net(new, rest, t)
    BY <1>2, <1>7 DEF HeldCounted
  <2>0. old \in TradeTables
    BY <1>1 DEF BookingTypeOK, TradeTables
  <2>1. Net(old, rest \cup {id}, t) =
            Net(old, rest, t) + (IF old[id].token = t THEN Effect(old[id]) ELSE 0)
    BY <2>0, <1>8, NetAdded
  <2>2. Net(new, rest, t) = Net(old, rest, t)
    BY <1>8, NetSame
  <2>3. Net(old, rest, t) \in Int
    BY <2>0, <1>8, NetType
  <2>4. holdings[t] = Net(old, ids, t) /\ holdings[t] \in Nat
    BY <1>1, <1>3, <1>13 DEF HeldCounted
  <2>5. holdings'[t] = IF trade.token = t THEN holdings[t] - Effect(trade) ELSE holdings[t]
    BY <1>11, <1>13
  <2> QED
    BY <2>1, <2>2, <2>3, <2>4, <2>5, <1>8, <1>9, <1>10
<1>18. BookedCounted'
  <2> SUFFICES ASSUME ~PositionSync, NEW t \in Tokens, RebuiltRight(t)'
               PROVE  shares'[t] = Net(new, booked, t)
    BY <1>2, <1>4, <1>11 DEF BookedCounted, ledger
  <2>1. RebuiltRight(t)
    BY <1>1, <1>2, <1>5, <1>11, RebuiltBefore
  <2>2. Net(new, booked, t) = Net(old, booked, t)
    BY <1>8, NetSame
  <2> QED
    BY <2>1, <2>2, <1>1, <1>4, <1>11 DEF BookedCounted, ledger
<1>19. Announced' /\ Delivered'
  BY <1>1, <1>2, <1>5, <1>11, <1>12 DEF Announced, Delivered, SameTrade, ledger
<1>20. ~PositionSync => syncing' \in {"no", "cash"}
  BY <1>11 DEF sync
<1> QED
  BY <1>11, <1>16, <1>17, <1>18, <1>19, <1>20

\* Steps that leave the exchange and the process's shares alone keep the counts.
LEMMA CountsStay ==
    ASSUME BookingInv, UNCHANGED <<exchange, shares, seen, restarts>>
    PROVE  /\ HeldCounted' /\ BookedCounted'
           /\ \A id \in TradeIds : Executed(id)' <=> Executed(id)
           /\ ~FailuresHappen => Replayed' = {id \in TradeIds : Executed(id)'}
  BY DEF BookingInv, HeldCounted, BookedCounted, Replayed, Executed, RebuiltRight, exchange

\* The socket breaks and comes back.
LEMMA DisconnectKeeps ==
    ASSUME BookingInv, Disconnect
    PROVE  BookingInv'
<1>1. UNCHANGED <<exchange, shares, seen, restarts>>
  BY DEF Disconnect, ledger
<1>2. /\ HeldCounted' /\ BookedCounted'
      /\ \A id \in TradeIds : Executed(id)' <=> Executed(id)
      /\ ~FailuresHappen => Replayed' = {id \in TradeIds : Executed(id)'}
  BY <1>1, CountsStay
<1>3. BookingTypeOK'
  <2>1. /\ UNCHANGED <<exchange, inbox, ledger, restarts, sync>>
        /\ connected' = FALSE /\ disconnects' = disconnects + 1
    BY DEF Disconnect
  <2>2. seen' \subseteq {id \in TradeIds : Executed(id)'}
    BY <2>1, <1>2 DEF BookingInv, BookingTypeOK, ledger
  <2>3. connected' \in BOOLEAN /\ disconnects' \in Nat
    <3>1. disconnects \in Nat
      BY DEF BookingInv, BookingTypeOK
    <3>2. connected' \in BOOLEAN
      BY <2>1, Zenon
    <3>3. disconnects' \in Nat
      BY <2>1, <3>1
    <3> QED
      BY <3>2, <3>3
  <2>4. UNCHANGED <<trades, wallet, holdings, inbox, cash, shares, restarts>>
    BY <2>1 DEF exchange, ledger
  <2>5. UNCHANGED <<syncing, toCheck, readCash, readShares>>
    BY <2>1 DEF sync
  <2> QED
    BY <2>2, <2>3, <2>4, <2>5 DEF BookingInv, BookingTypeOK
<1>4. Announced' /\ Delivered'
  BY <1>2 DEF BookingInv, Announced, Delivered, Disconnect, exchange, ledger
<1> QED
  BY <1>2, <1>3, <1>4 DEF BookingInv, Disconnect, sync

\* A reconnect of the user socket keeps the booking invariant.
LEMMA ReconnectKeeps ==
    ASSUME BookingInv, Reconnect
    PROVE  BookingInv'
<1>1. UNCHANGED <<exchange, shares, seen, restarts>>
  BY DEF Reconnect, ledger
<1>2. /\ HeldCounted' /\ BookedCounted'
      /\ \A id \in TradeIds : Executed(id)' <=> Executed(id)
      /\ ~FailuresHappen => Replayed' = {id \in TradeIds : Executed(id)'}
  BY <1>1, CountsStay
<1>3. PICK again : again = {id \in TradeIds : Executed(id) /\ trades[id].token \in StartTokens}
  OBVIOUS
<1>4. IsFiniteSet(again) /\ again \in SUBSET TradeIds
  BY <1>3, BookingAssumption, FS_Subset
<1>5. SetToSeq(again) \in Seq(again) /\ ToSet(SetToSeq(again)) = again
  BY <1>4, ListedSet
<1>6. PICK sent : sent = SetToSeq(again)
  OBVIOUS
<1>7. sent \in Seq(TradeIds) /\ ToSet(sent) = again
  BY <1>4, <1>5, <1>6
<1>8. PICK old \in Seq(TradeIds) : old = inbox
  BY DEF BookingInv, BookingTypeOK
<1>9. inbox' = old \o sent
  BY <1>3, <1>6, <1>8 DEF Reconnect
<1>10. /\ old \o sent \in Seq(TradeIds)
       /\ ToSet(sent) \subseteq ToSet(old \o sent)
       /\ ToSet(old \o sent) \subseteq ToSet(old) \cup ToSet(sent)
  BY <1>7, <1>8, JoinedSet
<1>11. BookingTypeOK'
  <2>1. UNCHANGED <<exchange, disconnects, ledger, restarts, sync>> /\ connected' = TRUE
    BY DEF Reconnect
  <2>2. inbox' \in Seq(TradeIds)
    BY <1>9, <1>10
  <2> QED
    BY <2>1, <2>2, <1>2 DEF BookingInv, BookingTypeOK, exchange, ledger, sync
<1>12. Announced'
  BY <1>2, <1>3, <1>7, <1>8, <1>9, <1>10 DEF BookingInv, Announced
<1>13. Delivered'
  BY <1>1, <1>2, <1>3, <1>7, <1>9, <1>10 DEF Delivered, exchange
<1> QED
  BY <1>2, <1>11, <1>12, <1>13 DEF BookingInv, Reconnect, sync

\* The event loop books the first message of its channel, if it is no duplicate.
LEMMA HandleKeeps ==
    ASSUME BookingInv, HandleTrade
    PROVE  BookingInv'
<1> USE DEF BookingInv
<1>1. PICK old \in TradeTables : old = trades
  BY DEF BookingTypeOK, TradeTables
<1>2. PICK queue \in Seq(TradeIds) : queue = inbox /\ queue # <<>>
  BY DEF BookingTypeOK, HandleTrade
<1>3. PICK id : id = Head(queue)
  OBVIOUS
<1>4. /\ Tail(queue) \in Seq(TradeIds)
      /\ id \in ToSet(queue)
      /\ ToSet(Tail(queue)) \subseteq ToSet(queue)
      /\ ToSet(queue) \subseteq {id} \cup ToSet(Tail(queue))
  BY <1>2, <1>3, TakenSet
<1>5. id \in TradeIds /\ Executed(id)
  BY <1>2, <1>4 DEF Announced
<1>6. PICK trade \in Trades : trade = old[id]
  BY <1>1, <1>5 DEF TradeTables, Executed
<1>7. /\ trade.token \in Tokens /\ Effect(trade) \in Int /\ trade.size \in Nat
  BY EffectType
<1>8. /\ inbox' = Tail(queue)
      /\ UNCHANGED <<exchange, connected, disconnects, restarts, sync>>
      /\ Book(id, FillSide(trade))
      /\ Signed(FillSide(trade), trade.size) = Effect(trade)
      /\ trade = trades[id]
  BY <1>1, <1>2, <1>3, <1>6 DEF HandleTrade, FillSide, Effect, WalletSide
<1>9. PICK booked \in SUBSET TradeIds : booked = seen
  BY DEF BookingTypeOK
<1>10. \A i \in booked : old[i] # NoTrade
  BY <1>1, <1>9 DEF BookingTypeOK, Executed
<1>11. seen' = booked \cup {id}
  BY <1>8, <1>9 DEF Book, ledger
<1>12. cash' \in Nat /\ shares' \in [Tokens -> Int]
  <2>0. cash \in Nat /\ shares \in [Tokens -> Int]
    BY DEF BookingTypeOK
  <2>1. CASE id \in seen
    BY <2>0, <2>1, <1>8 DEF Book, ledger
  <2>2. CASE id \notin seen
    <3>1. /\ cash' = CashAfter(cash, FillSide(trade), trade.size)
          /\ shares' = [shares EXCEPT ![trade.token] = @ + Effect(trade)]
      BY <2>2, <1>8 DEF Book
    <3>2. cash' \in Nat
      BY <2>0, <3>1, <1>7 DEF CashAfter
    <3>3. shares[trade.token] + Effect(trade) \in Int
      BY <2>0, <1>7
    <3> QED
      BY <2>0, <3>1, <3>2, <3>3
  <2> QED
    BY <2>1, <2>2
<1>13. \A i \in TradeIds : Executed(i)' <=> Executed(i)
  BY <1>8 DEF Executed, exchange
<1>14. BookingTypeOK'
  BY <1>4, <1>5, <1>8, <1>9, <1>11, <1>12, <1>13 DEF BookingTypeOK, exchange, sync
<1>15. HeldCounted' /\ (~FailuresHappen => Replayed' = {i \in TradeIds : Executed(i)'})
  BY <1>8, <1>13 DEF HeldCounted, Replayed, exchange, Executed
<1>16. BookedCounted'
  <2> SUFFICES ASSUME ~PositionSync, NEW t \in Tokens, RebuiltRight(t)'
               PROVE  shares'[t] = Net(old, booked \cup {id}, t)
    BY <1>1, <1>8, <1>11 DEF BookedCounted, exchange
  <2>1. RebuiltRight(t)
    BY <1>8 DEF RebuiltRight, Executed, exchange
  <2>2. shares[t] = Net(old, booked, t)
    BY <2>1, <1>1, <1>9 DEF BookedCounted
  <2>3. CASE id \in booked
    <3>1. booked \cup {id} = booked
      BY <2>3
    <3> QED
      BY <3>1, <2>2, <2>3, <1>8, <1>9 DEF Book, ledger
  <2>4. CASE id \notin booked
    <3>0. shares \in [Tokens -> Int]
      BY DEF BookingTypeOK
    <3>1. Net(old, booked \cup {id}, t) =
              Net(old, booked, t) + (IF old[id].token = t THEN Effect(old[id]) ELSE 0)
      <4>1. id \in TradeIds \ booked /\ \A i \in booked \cup {id} : old[i] # NoTrade
        BY <2>4, <1>1, <1>5, <1>10 DEF Executed
      <4> QED
        BY <4>1, NetAdded
    <3>2. shares' = [shares EXCEPT ![trade.token] = @ + Effect(trade)]
      BY <2>4, <1>8, <1>9 DEF Book
    <3>3. shares'[t] = IF trade.token = t THEN shares[t] + Effect(trade) ELSE shares[t]
      BY <3>0, <3>2
    <3>4. shares[t] \in Int
      BY <3>0
    <3> QED
      BY <3>1, <3>3, <3>4, <2>2, <1>6, <1>7
  <2> QED
    BY <2>3, <2>4
<1>17. Announced'
  BY <1>2, <1>4, <1>8, <1>13 DEF Announced
<1>18. Delivered'
  BY <1>2, <1>4, <1>8, <1>9, <1>11, <1>13 DEF Delivered, exchange
<1>19. ~PositionSync => syncing' \in {"no", "cash"}
  BY <1>8 DEF sync
<1> QED
  BY <1>14, <1>15, <1>16, <1>17, <1>18, <1>19

\* A new process books the trades that stand, each on the taker's side.
LEMMA RestartKeeps ==
    ASSUME BookingInv, Restart
    PROVE  BookingInv'
<1> USE DEF BookingInv
<1>1. PICK old \in TradeTables : old = trades
  BY DEF BookingTypeOK, TradeTables
<1>2. PICK ids \in SUBSET TradeIds : ids = Replayed
  BY DEF Replayed
<1>3. \A i \in ids : old[i] # NoTrade /\ old[i] \in Trades
  BY <1>1, <1>2 DEF Replayed, Executed, TradeTables
<1>4. \A i \in ids : Signed(ReplaySide(old[i]), old[i].size) \in Int /\ old[i].size \in Nat
  <2> TAKE i \in ids
  <2>1. PICK trade \in Trades : trade = old[i]
    BY <1>3
  <2>2. trade.size \in Nat
    BY EffectType
  <2> QED
    BY <2>1, <2>2 DEF Signed
<1>5. IsFiniteSet(ids)
  BY BookingAssumption, FS_Subset
<1>6. /\ UNCHANGED <<trades, wallet, holdings, disconnects>>
      /\ seen' = ids /\ inbox' = <<>> /\ connected' = FALSE
      /\ restarts' = restarts + 1
      /\ syncing' = "no" /\ toCheck' = {} /\ readCash' = 0 /\ readShares' = NoRead
  BY <1>2 DEF Restart, exchange
<1>7. \A i \in TradeIds : Executed(i)' <=> Executed(i)
  BY <1>6 DEF Executed
<1>8. cash' \in Nat
  <2>1. PICK sold : sold = Sold
    OBVIOUS
  <2>2. sold \in SUBSET ids /\ IsFiniteSet(sold)
    BY <2>1, <1>2, <1>5, FS_Subset DEF Sold
  <2>3. PICK f : f = [i \in sold |-> old[i].size]
    OBVIOUS
  <2>4. \A i \in sold : f[i] \in Nat
    BY <2>2, <2>3, <1>4
  <2>5. SumFunctionOnSet(f, sold) \in Nat
    BY <2>2, <2>4, SumOfNaturals
  <2>6. SumFunction(f) \in Nat
    BY <2>3, <2>5 DEF SumFunction
  <2>7. cash' = (IF wallet > 0 THEN wallet ELSE InitialCash) + SumFunction(f)
    BY <2>1, <2>3, <1>1 DEF Restart
  <2> QED
    BY <2>6, <2>7, BookingAssumption DEF BookingTypeOK
<1>9. \A t \in Tokens : /\ shares'[t] \in Int
                        /\ RebuiltRight(t)' => shares'[t] = Net(old, ids, t)
  <2> TAKE t \in Tokens
  <2>1. PICK f : f = Rebooked(old, ids, t)
    OBVIOUS
  <2>2. Traded(t) = {i \in ids : old[i].token = t} /\ DOMAIN f = Traded(t)
    BY <2>1, <1>1, <1>2 DEF Traded, Rebooked
  <2>3. f = [i \in Traded(t) |-> Signed(ReplaySide(trades[i]), trades[i].size)]
    BY <2>1, <2>2, <1>1 DEF Rebooked
  <2>4. shares'[t] = SumFunction(f)
    BY <2>3 DEF Restart
  <2>5. SumFunction(f) \in Int
    <3>1. \A i \in DOMAIN f : f[i] \in Int
      BY <2>1, <2>2, <1>4 DEF Rebooked
    <3>2. IsFiniteSet(DOMAIN f)
      BY <2>2, <1>5, FS_Subset
    <3> QED
      BY <3>1, <3>2, SumType DEF SumFunction
  <2>6. ASSUME RebuiltRight(t)' PROVE shares'[t] = Net(old, ids, t)
    <3>1. restarts' # 0
      BY <1>6 DEF BookingTypeOK
    <3>2. \A i \in ids : old[i].token = t => old[i].role = "Taker"
      BY <2>6, <3>1, <1>1, <1>2, <1>3, <1>6, <1>7 DEF RebuiltRight, Executed
    <3>3. \A i \in ids : old[i] # NoTrade
      BY <1>3
    <3>4. SumFunction(f) = Net(old, ids, t)
      BY <2>1, <3>2, <3>3, NetReplayed
    <3> QED
      BY <2>4, <3>4
  <2> QED
    BY <2>4, <2>5, <2>6
<1>10. shares' \in [Tokens -> Int]
  <2>1. shares' = [t \in Tokens |-> shares'[t]]
    BY DEF Restart
  <2> QED
    BY <2>1, <1>9
<1>11. BookingTypeOK'
  <2>1. seen' \subseteq {i \in TradeIds : Executed(i)'}
    BY <1>1, <1>3, <1>6, <1>7 DEF Executed
  <2>2. /\ inbox' \in Seq(TradeIds) /\ restarts' \in Nat /\ readCash' \in Nat
        /\ readShares' \in [token : Tokens \cup {NoTrade}, balance : Nat]
        /\ syncing' \in {"no", "cash", "positions", "holding"} /\ toCheck' \subseteq Tokens
    BY <1>6 DEF BookingTypeOK, NoRead
  <2> QED
    BY <2>1, <2>2, <1>6, <1>8, <1>10 DEF BookingTypeOK
<1>12. HeldCounted' /\ (~FailuresHappen => Replayed' = {i \in TradeIds : Executed(i)'})
  BY <1>6, <1>7 DEF HeldCounted, Replayed, Executed
<1>13. BookedCounted'
  BY <1>1, <1>6, <1>9 DEF BookedCounted
<1>14. Announced' /\ Delivered'
  BY <1>6 DEF Announced, Delivered, ToSet
<1>15. ~PositionSync => syncing' \in {"no", "cash"}
  BY <1>6
<1> QED
  BY <1>11, <1>12, <1>13, <1>14, <1>15

\* The jobs of the sync task.
LEMMA SyncKeeps ==
    ASSUME BookingInv,
           ReadBalance \/ CorrectCash \/ SnapshotPositions \/ ReadHolding \/ CorrectPosition
    PROVE  BookingInv'
<1>1. CASE ReadBalance \/ CorrectCash \/ SnapshotPositions \/ ReadHolding
  <2>1. UNCHANGED <<exchange, socket, shares, seen, restarts>>
    BY <1>1 DEF ReadBalance, CorrectCash, SnapshotPositions, ReadHolding, ledger
  <2>2. /\ HeldCounted' /\ BookedCounted'
        /\ \A id \in TradeIds : Executed(id)' <=> Executed(id)
        /\ ~FailuresHappen => Replayed' = {id \in TradeIds : Executed(id)'}
    BY <2>1, CountsStay
  <2>3. Announced' /\ Delivered'
    BY <2>1, <2>2 DEF BookingInv, Announced, Delivered, exchange, socket
  <2>4. BookingTypeOK' /\ (~PositionSync => syncing' \in {"no", "cash"})
    <3>1. CASE ReadBalance \/ CorrectCash
      BY <2>1, <2>2, <3>1 DEF BookingInv, BookingTypeOK, ReadBalance, CorrectCash, exchange, socket, ledger
    <3>2. CASE SnapshotPositions
      BY <2>1, <2>2, <3>2 DEF BookingInv, BookingTypeOK, SnapshotPositions, exchange, socket, ledger
    <3>3. CASE ReadHolding
      <4>1. PICK t \in toCheck : readShares' = [token |-> t, balance |-> holdings[t]]
                                 /\ toCheck' = toCheck \ {t}
        BY <3>3 DEF ReadHolding
      <4>2. t \in Tokens /\ holdings[t] \in Nat
        BY DEF BookingInv, BookingTypeOK
      <4>3. readShares' \in [token : Tokens \cup {NoTrade}, balance : Nat] /\ toCheck' \subseteq Tokens
        BY <4>1, <4>2 DEF BookingInv, BookingTypeOK
      <4> QED
        BY <2>1, <2>2, <3>3, <4>3 DEF BookingInv, BookingTypeOK, ReadHolding, exchange, socket, ledger
    <3> QED
      BY <1>1, <3>1, <3>2, <3>3
  <2> QED
    BY <2>2, <2>3, <2>4 DEF BookingInv
<1>2. CASE CorrectPosition
  <2>1. PositionSync
    <3>1. syncing \notin {"no", "cash"}
      BY <1>2 DEF CorrectPosition
    <3>2. ~PositionSync => syncing \in {"no", "cash"}
      BY DEF BookingInv
    <3> QED
      BY <3>1, <3>2, Zenon
  <2>2. UNCHANGED <<exchange, socket, cash, seen, restarts, toCheck, readCash>>
    BY <1>2 DEF CorrectPosition
  <2>3. \A id \in TradeIds : Executed(id)' <=> Executed(id)
    BY <2>2 DEF Executed, exchange
  <2>4. BookingTypeOK'
    <3>1. shares' \in [Tokens -> Int]
      <4>1. shares \in [Tokens -> Int]
        BY DEF BookingInv, BookingTypeOK
      <4>2. shares' = shares \/ \E t : shares' = [shares EXCEPT ![t] = 0]
        BY <1>2 DEF CorrectPosition
      <4> QED
        BY <4>1, <4>2
    <3>2. syncing' \in {"no", "positions"}
      BY <1>2 DEF CorrectPosition
    <3>3. readShares' \in [token : Tokens \cup {NoTrade}, balance : Nat]
      BY <1>2 DEF CorrectPosition, NoRead
    <3> QED
      BY <2>2, <2>3, <3>1, <3>2, <3>3 DEF BookingInv, BookingTypeOK, exchange, socket
  <2>5. HeldCounted' /\ (~FailuresHappen => Replayed' = {id \in TradeIds : Executed(id)'})
    BY <2>2, <2>3 DEF BookingInv, HeldCounted, Replayed, Executed, exchange
  <2>6. Announced' /\ Delivered'
    BY <2>2, <2>3 DEF BookingInv, Announced, Delivered, exchange, socket
  <2> QED
    BY <2>1, <2>4, <2>5, <2>6 DEF BookingInv, BookedCounted
<1> QED
  BY <1>1, <1>2

\* Every step keeps it.
LEMMA BookingStays ==
    ASSUME BookingInv, [BookingNext]_bookingVars
    PROVE  BookingInv'
<1>1. ASSUME UNCHANGED bookingVars PROVE BookingInv'
  <2>1. UNCHANGED <<exchange, socket, ledger, restarts, sync>>
    BY <1>1 DEF bookingVars, exchange, socket, ledger, sync
  <2>2. /\ HeldCounted' /\ BookedCounted'
        /\ \A id \in TradeIds : Executed(id)' <=> Executed(id)
        /\ ~FailuresHappen => Replayed' = {id \in TradeIds : Executed(id)'}
    BY <2>1, CountsStay DEF ledger
  <2>3. BookingTypeOK' /\ Announced' /\ Delivered'
    BY <2>1, <2>2 DEF BookingInv, BookingTypeOK, Announced, Delivered, exchange, socket, ledger, sync
  <2> QED
    BY <2>1, <2>2, <2>3 DEF BookingInv, sync
<1> QED
  BY <1>1, ExecuteKeeps, ConfirmKeeps, FailKeeps, DisconnectKeeps, ReconnectKeeps,
     HandleKeeps, RestartKeeps, SyncKeeps DEF BookingNext

-----------------------------------------------------------------------------
(* What follows                                                            *)

\* None of the trades of a token has failed.
NoneFailed(t) == \A id \in TradeIds :
    Executed(id) /\ trades[id].token = t => trades[id].status # "Failed"

\* Once everything announced is booked, the two sums are over the same trades.
LEMMA InvAgrees ==
    ASSUME BookingInv, ~PositionSync, Quiet,
           NEW t \in StartTokens, RebuiltRight(t), NoneFailed(t)
    PROVE  shares[t] = holdings[t]
<1>0. t \in Tokens
  BY BookingAssumption
<1>1. PICK table : table = trades
  OBVIOUS
<1>2. PICK ids : ids = Replayed
  OBVIOUS
<1>3. PICK booked : booked = seen
  OBVIOUS
<1>4. ToSet(inbox) = {}
  BY DEF Quiet, ToSet
<1>5. ASSUME NEW id \in TradeIds, table[id] # NoTrade, table[id].token = t
      PROVE  id \in ids /\ id \in booked
  BY <1>1, <1>2, <1>3, <1>4, <1>5 DEF BookingInv, Delivered, Quiet, Replayed, NoneFailed, Executed
<1>6. \A id \in ids \cup booked : id \in TradeIds /\ table[id] # NoTrade
  BY <1>1, <1>2, <1>3 DEF BookingInv, BookingTypeOK, Replayed, Executed
<1>7. \A id \in TradeIds : (id \in ids /\ table[id].token = t) <=> (id \in booked /\ table[id].token = t)
  BY <1>5, <1>6
<1>8. Effects(table, ids, t) = Effects(table, booked, t)
  BY <1>7 DEF Effects
<1>9. Net(table, ids, t) = Net(table, booked, t)
  BY <1>8 DEF Net
<1> QED
  BY <1>0, <1>1, <1>2, <1>3, <1>9 DEF BookingInv, HeldCounted, BookedCounted

\* Where no trade fails that is so of every token.
LEMMA InvPositionsAgree ==
    ASSUME BookingInv, ~PositionSync, ~FailuresHappen
    PROVE  PositionsAgree
<1>1. \A t : NoneFailed(t)
  BY DEF BookingInv, NoneFailed, Replayed
<1> QED
  BY <1>1, InvAgrees DEF PositionsAgree

\* The type invariant of the booking of fills, with failures, restarts and the sync task:
\* in particular the wallet is never overdrawn by what the exchange executes.
THEOREM BookingTypes == BookingSpec => []BookingTypeOK
<1>1. BookingInv => BookingTypeOK
  BY DEF BookingInv
<1> QED
  BY <1>1, BookingStarts, BookingStays, PTL DEF BookingSpec

\* PositionsAgree, token by token: what is asked is that no trade of this token failed.
AgreeUnlessFailed == Quiet => \A t \in StartTokens :
    RebuiltRight(t) /\ NoneFailed(t) => shares[t] = holdings[t]

\* While nothing corrects positions, and whatever fails, breaks or restarts: once
\* everything the exchange sent is booked, each token the process is told about counts
\* every one of its trades exactly once and on the wallet's side, unless one of them
\* failed on chain or a restart booked a maker's trade.
THEOREM CountedOnce ==
    ASSUME ~PositionSync
    PROVE  BookingSpec => []AgreeUnlessFailed
<1>1. BookingInv => AgreeUnlessFailed
  BY InvAgrees DEF AgreeUnlessFailed
<1> QED
  BY <1>1, BookingStarts, BookingStays, PTL DEF BookingSpec

\* The invariant, in the behaviours of the run that are about trades.
TradedInv == part = "trades" => BookingInv

\* What the run `ledger` checks on two trades, for any number of them: however often the
\* exchange announces a trade (per status, on a reconnect, to a new process), the ledger
\* counts it once, and has the wallet's positions when it has caught up.
THEOREM PositionsTraded ==
    ASSUME ~PositionSync, ~FailuresHappen
    PROVE  LedgerSpec => []TradedPositionsAgree
<1>1. LedgerInit => TradedInv
  BY BookingStarts DEF LedgerInit, TradedInv
<1>2. TradedInv /\ [LedgerNext]_ledgerVars => TradedInv'
  <2> SUFFICES ASSUME TradedInv, [LedgerNext]_ledgerVars, part' = "trades" PROVE BookingInv'
    BY DEF TradedInv
  <2>1. part = "trades" /\ [BookingNext]_bookingVars
    BY DEF LedgerNext, OfOrders, OfTrades, OfRepair, OfPaper, ledgerVars
  <2> QED
    BY <2>1, BookingStays DEF TradedInv
<1>3. TradedInv => TradedPositionsAgree
  BY InvPositionsAgree DEF TradedInv, TradedPositionsAgree
<1> QED
  BY <1>1, <1>2, <1>3, PTL DEF LedgerSpec

-----------------------------------------------------------------------------
(* Paper trading: money is conserved where averages are not rounded        *)

\* A position of the simulation.
PaperPositions == [shares : Int, avg_cost : Int, realized_pnl : Int, total_fees : Int]

\* The type invariant of the simulation.
PaperTypeOK ==
    /\ keyed \in BOOLEAN
    /\ available \in Int
    /\ position \in [PaperTokens -> PaperPositions]

\* The average of what there was and what is added is a whole number of parts.
Exact(pos, n, p) == pos.shares # 0 /\ Sign(pos.shares) = Sign(n) =>
    AvgCost(pos, n, p) * Size(pos.shares + n) = pos.avg_cost * Size(pos.shares) + p * Size(n)

\* No fill of the step is averaged with a rounding.
FillsExactly == \A t \in PaperTokens, n \in PaperSizes, p \in PaperPrices :
    /\ Simulate(t, "buy", n, p) => Exact(position[t], n, p * Parts)
    /\ Simulate(t, "sell", n, p) => Exact(position[t], -n, p * Parts)

\* A product is a number.
LEMMA ProductOfInts ==
    ASSUME NEW a \in Int, NEW b \in Int
    PROVE  a * b \in Int
  OBVIOUS

\* Shares added to a position at an exact average add what they cost.
LEMMA CostAdded ==
    ASSUME NEW s \in Int, NEW a \in Int, NEW n \in Int, NEW p \in Int, NEW c \in Int,
           Sign(s) = Sign(n),
           c * Size(s + n) = a * Size(s) + p * Size(n)
    PROVE  (s + n) * c = s * a + p * n
<1>1. CASE s < 0
  <2>1. n < 0
    BY <1>1 DEF Sign
  <2>2. Size(s) = -s /\ Size(n) = -n /\ Size(s + n) = -(s + n)
    BY <1>1, <2>1 DEF Size
  <2>3. c * (-(s + n)) = a * (-s) + p * (-n)
    BY <2>2
  <2> QED
    BY <2>3
<1>2. CASE ~(s < 0)
  <2>1. ~(n < 0)
    BY <1>2 DEF Sign
  <2>2. Size(s) = s /\ Size(n) = n /\ Size(s + n) = s + n
    BY <1>2, <2>1 DEF Size
  <2>3. c * (s + n) = a * s + p * n
    BY <2>2
  <2> QED
    BY <2>3
<1> QED
  BY <1>1, <1>2

\* A fill changes the cost of the position by what it moves, and the realized profit.
LEMMA FillCost ==
    ASSUME NEW pos \in PaperPositions, NEW n \in Int, n # 0, NEW p \in Int, NEW fee \in Int,
           Exact(pos, n, p), NEW new, new = PositionAfterFill(pos, n, p, fee)
    PROVE  /\ new \in PaperPositions
           /\ Realized(pos, n, p) \in Int
           /\ CostBasis(new) = CostBasis(pos) + p * n + Realized(pos, n, p)
           /\ new.realized_pnl = pos.realized_pnl + Realized(pos, n, p)
           /\ new.total_fees = pos.total_fees + fee
<1>1. PICK s \in Int, a \in Int : s = pos.shares /\ a = pos.avg_cost
  BY DEF PaperPositions
<1>2. PICK c : c = AvgCost(pos, n, p)
  OBVIOUS
<1>3. PICK r : r = Realized(pos, n, p)
  OBVIOUS
<1>4. PICK m : m = Min({Size(s), Size(n)})
  OBVIOUS
<1>5. Size(s) \in Nat /\ Size(n) \in Nat /\ m = IF Size(s) <= Size(n) THEN Size(s) ELSE Size(n)
  <2>1. Size(s) \in Nat /\ Size(n) \in Nat
    BY DEF Size
  <2>2. PICK x, y \in Int : x = Size(s) /\ y = Size(n)
    BY <2>1
  <2>3. Min({x, y}) = IF x <= y THEN x ELSE y
    BY MinOfTwo
  <2> QED
    BY <1>4, <2>1, <2>2, <2>3
<1>6. c \in Int /\ r \in Int /\ (s + n) * c = s * a + p * n + r
  <2>1. CASE s = 0
    <3>1. c = p /\ r = 0
      BY <1>1, <1>2, <1>3, <2>1 DEF AvgCost, Realized
    <3> QED
      BY <2>1, <3>1
  <2>2. CASE s # 0 /\ Sign(s) = Sign(n)
    <3>1. r = 0
      BY <1>1, <1>3, <2>2 DEF Realized
    <3>2. c = (a * Size(s) + p * Size(n)) \div Size(s + n)
      BY <1>1, <1>2, <2>2 DEF AvgCost
    <3>3. Size(s + n) \in Nat \ {0}
      BY <2>2 DEF Size, Sign
    <3>4. c \in Int
      <4>1. a * Size(s) \in Int /\ p * Size(n) \in Int
        BY <1>5, ProductOfInts
      <4> QED
        BY <3>2, <3>3, <4>1
    <3>5. c * Size(s + n) = a * Size(s) + p * Size(n)
      BY <1>1, <1>2, <2>2 DEF Exact
    <3>6. (s + n) * c = s * a + p * n
      BY <2>2, <3>4, <3>5, CostAdded
    <3>7. (s + n) * c \in Int
      BY <3>4, ProductOfInts
    <3> QED
      BY <3>1, <3>4, <3>6, <3>7
  <2>3. CASE s # 0 /\ Sign(s) # Sign(n)
    <3>1. /\ r = (p - a) * m * Sign(s)
          /\ c = IF s + n = 0 THEN 0 ELSE IF Sign(s + n) # Sign(s) THEN p ELSE a
      BY <1>1, <1>2, <1>3, <1>4, <2>3 DEF AvgCost, Realized
    <3>2. CASE s > 0
      <4>1. n < 0 /\ Sign(s) = 1 /\ Size(s) = s /\ Size(n) = -n
        BY <2>3, <3>2 DEF Sign, Size
      <4>2. CASE s + n = 0
        <5>1. c = 0 /\ m = s /\ n = -s
          BY <3>1, <4>1, <4>2, <1>5
        <5>2. r = (p - a) * s
          BY <3>1, <4>1, <5>1
        <5> QED
          BY <4>2, <5>1, <5>2
      <4>3. CASE s + n < 0
        <5>1. c = p /\ m = s
          BY <3>1, <4>1, <4>3, <1>5 DEF Sign
        <5>2. r = (p - a) * s
          BY <3>1, <4>1, <5>1
        <5> QED
          BY <5>1, <5>2
      <4>4. CASE s + n > 0
        <5>1. c = a /\ m = -n
          BY <3>1, <4>1, <4>4, <1>5 DEF Sign
        <5>2. r = (p - a) * (-n)
          BY <3>1, <4>1, <5>1
        <5> QED
          BY <5>1, <5>2
      <4> QED
        BY <4>2, <4>3, <4>4
    <3>3. CASE s < 0
      <4>1. n > 0 /\ Sign(s) = -1 /\ Size(s) = -s /\ Size(n) = n
        BY <2>3, <3>3 DEF Sign, Size
      <4>2. CASE s + n = 0
        <5>1. c = 0 /\ m = n /\ s = -n
          BY <3>1, <4>1, <4>2, <1>5
        <5>2. r = (p - a) * n * (-1)
          BY <3>1, <4>1, <5>1
        <5> QED
          BY <4>2, <5>1, <5>2
      <4>3. CASE s + n > 0
        <5>1. c = p /\ m = -s
          BY <3>1, <4>1, <4>3, <1>5 DEF Sign
        <5>2. r = (p - a) * (-s) * (-1)
          BY <3>1, <4>1, <5>1
        <5> QED
          BY <5>1, <5>2
      <4>4. CASE s + n < 0
        <5>1. c = a /\ m = n
          BY <3>1, <4>1, <4>4, <1>5 DEF Sign
        <5>2. r = (p - a) * n * (-1)
          BY <3>1, <4>1, <5>1
        <5> QED
          BY <5>1, <5>2
      <4> QED
        BY <4>2, <4>3, <4>4
    <3> QED
      BY <2>3, <3>2, <3>3
  <2> QED
    BY <2>1, <2>2, <2>3
<1>7. /\ new = [pos EXCEPT !.shares = s + n, !.avg_cost = c,
                           !.realized_pnl = pos.realized_pnl + r, !.total_fees = pos.total_fees + fee]
      /\ pos.realized_pnl \in Int /\ pos.total_fees \in Int
  BY <1>1, <1>2, <1>3 DEF PositionAfterFill, PaperPositions
<1>8. /\ new \in PaperPositions
      /\ new.shares = s + n /\ new.avg_cost = c
      /\ new.realized_pnl = pos.realized_pnl + r /\ new.total_fees = pos.total_fees + fee
  <2>1. PICK j \in Int, k \in Int, l \in Int :
            j = s + n /\ k = pos.realized_pnl + r /\ l = pos.total_fees + fee
    BY <1>6, <1>7
  <2>2. new = [pos EXCEPT !.shares = j, !.avg_cost = c, !.realized_pnl = k, !.total_fees = l]
    BY <1>7, <2>1
  <2>3. /\ new \in PaperPositions
        /\ new.shares = j /\ new.avg_cost = c /\ new.realized_pnl = k /\ new.total_fees = l
    BY <1>6, <2>2 DEF PaperPositions
  <2> QED
    BY <2>1, <2>3
<1>9. CostBasis(new) = (s + n) * c /\ CostBasis(pos) = s * a
  BY <1>1, <1>8 DEF CostBasis
<1> QED
  BY <1>3, <1>6, <1>8, <1>9

\* Together they are inductive.
PaperInv == PaperTypeOK /\ ProfitsAddUp

\* What is paid leaves the cash for the cost, and a gain is in both.
LEMMA BothSidesShift ==
    ASSUME NEW a \in Int, NEW a0 \in Int, NEW a1 \in Int, NEW a2 \in Int, NEW start \in Int,
           NEW paid \in Int, NEW r \in Int, NEW fee \in Int,
           a + a0 = start + a1 - a2, NEW b, b = a - paid - fee
    PROVE  b + (a0 + paid + r) = start + (a1 + r) - (a2 + fee)
  OBVIOUS

\* A fill keeps the account balanced.
LEMMA FillBalanced ==
    ASSUME PaperTypeOK, PaperTypeOK', Balanced,
           NEW t \in PaperTokens, NEW n \in Int, n # 0, NEW p \in Int, NEW fee \in Int,
           Exact(position[t], n, p),
           position' = [position EXCEPT ![t] = PositionAfterFill(position[t], n, p, fee)],
           available' = available - p * n - fee
    PROVE  Balanced'
<1>1. PICK old \in [PaperTokens -> PaperPositions] : old = position
  BY DEF PaperTypeOK
<1>2. PICK pos \in PaperPositions : pos = old[t]
  OBVIOUS
<1>3. PICK new : new = PositionAfterFill(pos, n, p, fee)
  OBVIOUS
<1>4. PICK r : r = Realized(pos, n, p)
  OBVIOUS
<1>5. /\ new \in PaperPositions /\ r \in Int
      /\ CostBasis(new) = CostBasis(pos) + p * n + r
      /\ new.realized_pnl = pos.realized_pnl + r
      /\ new.total_fees = pos.total_fees + fee
  BY <1>1, <1>2, <1>3, <1>4, FillCost
<1>6. PICK after \in [PaperTokens -> PaperPositions] : after = position'
  BY DEF PaperTypeOK
<1>7. after[t] = new /\ \A u \in PaperTokens \ {t} : after[u] = old[u]
  BY <1>1, <1>2, <1>3, <1>6
<1>8. \A q \in PaperPositions : CostBasis(q) \in Int /\ RealizedPnl(q) \in Int /\ Fees(q) \in Int
  <2> TAKE q \in PaperPositions
  <2>1. q.shares \in Int /\ q.avg_cost \in Int /\ q.realized_pnl \in Int /\ q.total_fees \in Int
    BY DEF PaperPositions
  <2> QED
    BY <2>1, ProductOfInts DEF CostBasis, RealizedPnl, Fees
<1>9. IsFiniteSet(PaperTokens)
  BY PaperAssumption
\* The three totals, before and after.
<1> DEFINE c0 == [u \in PaperTokens |-> CostBasis(old[u])]
           c1 == [u \in PaperTokens |-> CostBasis(after[u])]
           r0 == [u \in PaperTokens |-> RealizedPnl(old[u])]
           r1 == [u \in PaperTokens |-> RealizedPnl(after[u])]
           f0 == [u \in PaperTokens |-> Fees(old[u])]
           f1 == [u \in PaperTokens |-> Fees(after[u])]
           Sum(f) == SumFunctionOnSet(f, PaperTokens)
<1>10. /\ Total(CostBasis) = Sum(c0) /\ Total(CostBasis)' = Sum(c1)
       /\ Total(RealizedPnl) = Sum(r0) /\ Total(RealizedPnl)' = Sum(r1)
       /\ Total(Fees) = Sum(f0) /\ Total(Fees)' = Sum(f1)
  BY <1>1, <1>6 DEF Total, SumFunction
<1>11. \A u \in PaperTokens :
          /\ c0[u] \in Int /\ c1[u] \in Int /\ r0[u] \in Int
          /\ r1[u] \in Int /\ f0[u] \in Int /\ f1[u] \in Int
  BY <1>8
<1>12. \A u \in PaperTokens \ {t} : c1[u] = c0[u] /\ r1[u] = r0[u] /\ f1[u] = f0[u]
  BY <1>7
<1>13. /\ c1[t] = c0[t] + p * n + r
       /\ r1[t] = r0[t] + r /\ f1[t] = f0[t] + fee
  BY <1>2, <1>5, <1>7 DEF RealizedPnl, Fees
<1> HIDE DEF c0, c1, r0, r1, f0, f1
<1>14. /\ Sum(c1) = Sum(c0) - c0[t] + c1[t] /\ Sum(c0) \in Int
       /\ Sum(r1) = Sum(r0) - r0[t] + r1[t] /\ Sum(r0) \in Int
       /\ Sum(f1) = Sum(f0) - f0[t] + f1[t] /\ Sum(f0) \in Int
  <2>1. Sum(c1) = Sum(c0) - c0[t] + c1[t] /\ Sum(c0) \in Int
    BY <1>9, <1>11, <1>12, SumUpdate, SumType
  <2>2. Sum(r1) = Sum(r0) - r0[t] + r1[t] /\ Sum(r0) \in Int
    BY <1>9, <1>11, <1>12, SumUpdate, SumType
  <2>3. Sum(f1) = Sum(f0) - f0[t] + f1[t] /\ Sum(f0) \in Int
    BY <1>9, <1>11, <1>12, SumUpdate, SumType
  <2> QED
    BY <2>1, <2>2, <2>3
<1> HIDE DEF Sum
<1>15. PICK paid \in Int : paid = p * n
  BY ProductOfInts
<1>16. available \in Int /\ c0[t] \in Int /\ r0[t] \in Int /\ f0[t] \in Int
  BY <1>11 DEF PaperTypeOK
<1>17. available + Sum(c0) = StartMoney + Sum(r0) - Sum(f0) /\ StartMoney \in Nat
  BY <1>10, PaperAssumption DEF Balanced
<1>18. available' + Sum(c1) = StartMoney + Sum(r1) - Sum(f1)
  <2>1. available' = available - paid - fee /\ c1[t] = c0[t] + paid + r
    BY <1>13, <1>15
  <2>2. PICK a0, a1, a2, a3 \in Int : a0 = Sum(c0) /\ a1 = Sum(r0) /\ a2 = Sum(f0) /\ a3 = c0[t]
    BY <1>14, <1>16
  <2>3. Sum(c1) = a0 + paid + r /\ Sum(r1) = a1 + r /\ Sum(f1) = a2 + fee
    BY <2>1, <2>2, <1>5, <1>13, <1>14, <1>16
  <2>4. r \in Int /\ available \in Int
    BY <1>5, <1>16
  <2>5. available + a0 = StartMoney + a1 - a2 /\ StartMoney \in Int
    BY <2>2, <1>17
  <2>6. available' + (a0 + paid + r) = StartMoney + (a1 + r) - (a2 + fee)
    BY <2>1, <2>4, <2>5, BothSidesShift
  <2> QED
    BY <2>3, <2>6
<1> QED
  BY <1>10, <1>18 DEF Balanced

\* What is simulated, as a change of the position and the cash.
LEMMA SimulateMoves ==
    ASSUME PaperTypeOK, FillsExactly,
           NEW t \in PaperTokens, NEW side \in {"buy", "sell"},
           NEW k \in PaperSizes, NEW q \in PaperPrices, Simulate(t, side, k, q)
    PROVE  \E n \in Int, p \in Int, fee \in Int :
                /\ n # 0 /\ Exact(position[t], n, p)
                /\ position' = [position EXCEPT ![t] = PositionAfterFill(position[t], n, p, fee)]
                /\ available' = available - p * n - fee
<1>1. k \in Nat \ {0} /\ q \in Nat \ {0} /\ Parts \in Nat \ {0} /\ PaperFeeBps \in Nat
  BY PaperAssumption
<1>2. PICK p \in Int : p = q * Parts
  BY <1>1, ProductOfInts
<1>3. PICK notional \in Int : notional = p * k
  BY <1>1, <1>2, ProductOfInts
<1>4. PICK fee \in Int : fee = FeeOf(notional)
  BY <1>1, <1>3, ProductOfInts DEF FeeOf
<1>5. available \in Int
  BY DEF PaperTypeOK
<1>6. CASE side = "buy"
  <2>1. /\ available' = (available - notional) - fee
        /\ position' = [position EXCEPT ![t] = PositionAfterFill(position[t], k, p, fee)]
    BY <1>2, <1>3, <1>4, <1>6 DEF Simulate
  <2>2. Exact(position[t], k, p)
    BY <1>2, <1>6 DEF FillsExactly
  <2>3. available' = available - p * k - fee
    BY <2>1, <1>3, <1>5
  <2>4. k \in Int /\ k # 0
    BY <1>1
  <2> QED
    BY <2>1, <2>2, <2>3, <2>4
<1>7. CASE side = "sell"
  <2>1. /\ available' = (available + notional) - fee
        /\ position' = [position EXCEPT ![t] = PositionAfterFill(position[t], -k, p, fee)]
    BY <1>2, <1>3, <1>4, <1>7 DEF Simulate
  <2>2. Exact(position[t], -k, p)
    BY <1>2, <1>7 DEF FillsExactly
  <2>3. p * (-k) = -notional
    BY <1>1, <1>3
  <2>4. available' = available - p * (-k) - fee
    BY <2>1, <2>3, <1>3, <1>5
  <2>5. -k \in Int /\ -k # 0
    BY <1>1
  <2> QED
    BY <2>1, <2>2, <2>4, <2>5
<1> QED
  BY <1>6, <1>7

\* The account starts balanced.
LEMMA PaperStarts == PaperInit => PaperInv
<1> SUFFICES ASSUME PaperInit PROVE PaperInv
  OBVIOUS
<1>1. PaperTypeOK
  BY PaperAssumption DEF PaperInit, PaperTypeOK, PaperPositions, NoPosition
<1>2. Total(CostBasis) = 0 /\ Total(RealizedPnl) = 0 /\ Total(Fees) = 0
  <2> DEFINE c == [t \in PaperTokens |-> CostBasis(position[t])]
             r == [t \in PaperTokens |-> RealizedPnl(position[t])]
             f == [t \in PaperTokens |-> Fees(position[t])]
  <2>1. \A t \in PaperTokens : c[t] = 0 /\ r[t] = 0 /\ f[t] = 0
    BY DEF PaperInit, NoPosition, CostBasis, RealizedPnl, Fees
  <2>2. /\ Total(CostBasis) = SumFunctionOnSet(c, PaperTokens)
        /\ Total(RealizedPnl) = SumFunctionOnSet(r, PaperTokens)
        /\ Total(Fees) = SumFunctionOnSet(f, PaperTokens)
    BY DEF Total, SumFunction
  <2> HIDE DEF c, r, f
  <2> QED
    BY <2>1, <2>2, SumOfZeros, PaperAssumption
<1>3. Balanced
  BY <1>2, PaperAssumption DEF PaperInit, Balanced
<1> QED
  BY <1>1, <1>3 DEF PaperInv, ProfitsAddUp

\* No step of the simulation unbalances it; the sync task does not run without a key.
LEMMA PaperStays ==
    ASSUME PaperInv, FillsExactly \/ UNCHANGED paperVars, [PaperNext]_paperVars
    PROVE  PaperInv'
<1>1. CASE UNCHANGED paperVars
  BY <1>1 DEF PaperInv, PaperTypeOK, ProfitsAddUp, Balanced, Total, paperVars
<1>2. ASSUME FillsExactly,
             NEW t \in PaperTokens, NEW side \in {"buy", "sell"},
             NEW k \in PaperSizes, NEW q \in PaperPrices, Simulate(t, side, k, q)
      PROVE  PaperInv'
  <2>0. PaperTypeOK /\ keyed' = keyed
    BY <1>2 DEF PaperInv, Simulate
  <2>1. PICK n \in Int, p \in Int, fee \in Int :
            /\ n # 0 /\ Exact(position[t], n, p)
            /\ position' = [position EXCEPT ![t] = PositionAfterFill(position[t], n, p, fee)]
            /\ available' = available - p * n - fee
    BY <1>2, <2>0, SimulateMoves
  <2>2. PICK pos \in PaperPositions : pos = position[t]
    BY <2>0 DEF PaperTypeOK
  <2>3. PICK new : new = PositionAfterFill(pos, n, p, fee)
    OBVIOUS
  <2>4. new \in PaperPositions
    BY <2>1, <2>2, <2>3, FillCost
  <2>5. position' \in [PaperTokens -> PaperPositions]
    BY <2>0, <2>1, <2>2, <2>3, <2>4 DEF PaperTypeOK
  <2>6. available' \in Int
    <3>1. p * n \in Int /\ available \in Int
      BY <2>0, ProductOfInts DEF PaperTypeOK
    <3> QED
      BY <2>1, <3>1
  <2>7. PaperTypeOK'
    BY <2>0, <2>5, <2>6 DEF PaperTypeOK
  <2>8. Balanced => Balanced'
    BY <2>0, <2>1, <2>7, FillBalanced
  <2> QED
    BY <2>0, <2>7, <2>8 DEF PaperInv, ProfitsAddUp
<1>3. CASE SyncCash
  BY <1>3, PaperAssumption DEF PaperInv, PaperTypeOK, ProfitsAddUp, SyncCash
<1>4. ASSUME NEW t \in PaperTokens, SyncPosition(t) PROVE PaperInv'
  <2>1. PICK pos \in PaperPositions : pos = position[t]
    BY DEF PaperInv, PaperTypeOK
  <2>2. PICK new : new = [pos EXCEPT !.shares = 0, !.avg_cost = 0]
    OBVIOUS
  <2>3. new \in PaperPositions
    <3>1. pos.realized_pnl \in Int /\ pos.total_fees \in Int
      BY DEF PaperPositions
    <3>2. new = [shares |-> 0, avg_cost |-> 0,
                 realized_pnl |-> pos.realized_pnl, total_fees |-> pos.total_fees]
      BY <2>2 DEF PaperPositions
    <3> QED
      BY <3>1, <3>2 DEF PaperPositions
  <2>4. position' = [position EXCEPT ![t] = new]
    BY <1>4, <2>1, <2>2 DEF SyncPosition
  <2> QED
    BY <1>4, <2>3, <2>4 DEF PaperInv, PaperTypeOK, ProfitsAddUp, SyncPosition
<1> QED
  BY <1>1, <1>2, <1>3, <1>4 DEF PaperNext

\* Through fills of any sizes and prices, in any number and order, on positions opened,
\* added to, reduced, closed and turned round, a paper session without a key neither
\* makes money nor loses any: only the rounding of an average can, which no step of the
\* behaviours considered does.
THEOREM ProfitsConserved ==
    PaperSpec /\ [][FillsExactly]_paperVars => []ProfitsAddUp
<1>1. PaperInv /\ [FillsExactly]_paperVars /\ [PaperNext]_paperVars => PaperInv'
  BY PaperStays
<1>2. PaperInv => ProfitsAddUp
  BY DEF PaperInv
<1> QED
  BY <1>1, <1>2, PaperStarts, PTL DEF PaperSpec

-----------------------------------------------------------------------------
(* The bookkeeping of open orders                                          *)

USE SizesAssumption, NoIdAssumption, NoOrderAssumption

\* The states from which an order can still become, or is, active.
Live == {"CreatedLocal", "Signed", "Submitted"} \cup Active

\* An order the bookkeeping may hold.
Sound(order) ==
    /\ order \in Orders
    /\ order.remaining = order.original - order.filled
    /\ order.state \in Live => order.remaining > 0

OrdersSound == \A l \in LocalIds : Tracked(l) => Sound(byLocalId[l])

IInv == TypeOK /\ IndexesAgree /\ OrdersSound

\* The ledger's orders start inside the invariant.
LEMMA InitEstablishesIInv == Init => IInv
  BY DEF Init, IInv, TypeOK, IndexesAgree, OrdersSound, Tracked, Linked

\* Both indices, after a step, hold `order` for l and are otherwise unchanged.
Replaced(l, order) ==
    /\ byLocalId' = [byLocalId EXCEPT ![l] = order]
    /\ byOrderId' \in [OrderIds -> Orders \cup {NoOrder}]
    /\ order.order_id # NoId => byOrderId'[order.order_id] = order
    /\ \A o \in OrderIds \ {order.order_id} : byOrderId'[o] = byOrderId[o]

\* Replacing a tracked order in both indices by a sound one that keeps the id
\* of the exchange, or gets one no other order has, preserves the invariant.
LEMMA ReplacedPreserves ==
    ASSUME IInv, NEW l \in LocalIds, NEW order,
           Tracked(l), Sound(order), Replaced(l, order),
           \/ order.order_id = byLocalId[l].order_id
           \/ /\ byLocalId[l].order_id = NoId
              /\ order.order_id \in OrderIds
              /\ byOrderId[order.order_id] = NoOrder,
           totalCreated' \in Nat
    PROVE  IInv'
<1> USE DEF Sound, Tracked, Linked
<1>1. order # NoOrder /\ order.order_id \in OrderIds \cup {NoId}
  BY DEF Orders
<1>2. /\ byLocalId' \in [LocalIds -> Orders \cup {NoOrder}]
      /\ byLocalId'[l] = order
      /\ \A k \in LocalIds \ {l} : byLocalId'[k] = byLocalId[k]
  BY DEF Replaced, IInv, TypeOK
<1>3. /\ byOrderId' \in [OrderIds -> Orders \cup {NoOrder}]
      /\ order.order_id # NoId => byOrderId'[order.order_id] = order
      /\ \A o \in OrderIds \ {order.order_id} : byOrderId'[o] = byOrderId[o]
  BY DEF Replaced
<1>4. TypeOK'
  BY <1>2, <1>3 DEF TypeOK
<1>5. OrdersSound'
  BY <1>2 DEF IInv, OrdersSound
<1>6. \* no other order has the id
      \A k \in LocalIds \ {l} :
          Tracked(k) => byLocalId[k].order_id = NoId
                        \/ byLocalId[k].order_id # order.order_id
  BY <1>1 DEF IInv, IndexesAgree, TypeOK, Orders
<1>7. IndexesAgree'
  <2>1. ASSUME NEW k \in LocalIds, Linked(k)'
        PROVE  byOrderId'[byLocalId'[k].order_id] = byLocalId'[k]
    <3>1. CASE k = l
      BY <1>2, <1>3, <2>1, <3>1
    <3>2. CASE k # l
      BY <1>2, <1>3, <1>6, <2>1, <3>2 DEF IInv, IndexesAgree, TypeOK, Orders
    <3> QED
      BY <3>1, <3>2
  <2>2. ASSUME NEW o \in OrderIds, byOrderId'[o] # NoOrder
        PROVE  \E k \in LocalIds : Tracked(k)' /\ byLocalId'[k].order_id = o
    <3>1. CASE o = order.order_id
      BY <1>1, <1>2, <3>1
    <3>2. CASE o # order.order_id
      <4>1. PICK k \in LocalIds : Tracked(k) /\ byLocalId[k].order_id = o
        BY <1>3, <2>2, <3>2 DEF IInv, IndexesAgree
      <4>2. k # l
        BY <4>1, <3>2
      <4> QED
        BY <1>2, <4>1, <4>2
    <3> QED
      BY <3>1, <3>2
  <2>3. ASSUME NEW j \in LocalIds, NEW k \in LocalIds, Linked(j)', Linked(k)',
               byLocalId'[j].order_id = byLocalId'[k].order_id
        PROVE  j = k
    BY <1>2, <1>6, <2>3 DEF IInv, IndexesAgree
  <2> QED
    BY <2>1, <2>2, <2>3 DEF IndexesAgree
<1> QED
  BY <1>4, <1>5, <1>7 DEF IInv

\* A tracked order with an id of the exchange is indexed by it, as it is.
LEMMA TrackedHasClone ==
    ASSUME IInv, NEW l \in LocalIds, NEW o \in OrderIds,
           Tracked(l), byLocalId[l].order_id = o
    PROVE  IsClone(o, l) /\ byOrderId[o] = byLocalId[l]
<1>1. byOrderId[o] = byLocalId[l]
  BY DEF IInv, IndexesAgree, Linked
<1> QED
  BY <1>1 DEF IsClone, Tracked

\* Every method preserves the invariant.
LEMMA StepPreservesIInv == IInv /\ [Next]_vars => IInv'
<1> SUFFICES ASSUME IInv, [Next]_vars PROVE IInv'
  OBVIOUS
<1>1. ASSUME NEW l \in LocalIds, NEW size \in Sizes, Add(l, size)
      PROVE  IInv'
  <2> DEFINE new == [order_id |-> NoId, state |-> "CreatedLocal",
                     original |-> size, filled |-> 0, remaining |-> size]
  <2>1. new \in Orders /\ new # NoOrder /\ new.order_id = NoId
        /\ new.remaining = new.original - new.filled
        /\ new.remaining > 0
    BY DEF Orders, States
  <2>2. /\ byLocalId' = [byLocalId EXCEPT ![l] = new]
        /\ byOrderId' = byOrderId /\ totalCreated' \in Nat
        /\ ~Tracked(l)
    BY <1>1 DEF Add, IInv, TypeOK
  <2> HIDE DEF new
  <2>3. /\ byLocalId' \in [LocalIds -> Orders \cup {NoOrder}]
        /\ byLocalId'[l] = new
        /\ \A k \in LocalIds \ {l} : byLocalId'[k] = byLocalId[k]
    BY <2>1, <2>2 DEF IInv, TypeOK
  <2>4. TypeOK' /\ OrdersSound'
    BY <2>1, <2>2, <2>3 DEF IInv, TypeOK, OrdersSound, Tracked, Sound
  <2>5. IndexesAgree'
    <3>1. \A k \in LocalIds : Linked(k)' => k # l /\ Linked(k)
      BY <2>1, <2>3 DEF Linked, Tracked
    <3>2. \A k \in LocalIds : Tracked(k) => k # l /\ byLocalId'[k] = byLocalId[k]
      BY <2>2, <2>3
    <3> QED
      BY <2>2, <2>3, <3>1, <3>2 DEF IInv, IndexesAgree, Tracked, Linked
  <2> QED
    BY <2>4, <2>5 DEF IInv
<1>2. ASSUME NEW l \in LocalIds, NEW o \in OrderIds, LinkOrderId(l, o)
      PROVE  IInv'
  <2> DEFINE order == [byLocalId[l] EXCEPT !.order_id = o]
  <2>1. Tracked(l) /\ Sound(byLocalId[l])
    BY <1>2 DEF LinkOrderId, IInv, OrdersSound
  <2>2. Sound(order) /\ order.order_id = o
    BY <2>1 DEF Sound, Orders
  <2>3. Replaced(l, order) /\ totalCreated' \in Nat
    <3>1. /\ byLocalId' = [byLocalId EXCEPT ![l] = order]
          /\ byOrderId' = [byOrderId EXCEPT ![o] = order]
          /\ totalCreated' \in Nat
      BY <1>2, <2>1 DEF LinkOrderId, IInv, TypeOK, Sound, Orders
    <3> HIDE DEF order
    <3> QED
      BY <2>2, <3>1 DEF Replaced, Sound, IInv, TypeOK
  <2>4. \/ o = byLocalId[l].order_id
        \/ byLocalId[l].order_id = NoId /\ byOrderId[o] = NoOrder
    BY <1>2 DEF LinkOrderId
  <2> HIDE DEF order
  <2> QED
    BY <2>1, <2>2, <2>3, <2>4, ReplacedPreserves
<1>3. ASSUME NEW l \in LocalIds, NEW new \in States, Transition(l, new)
      PROVE  IInv'
  <2> DEFINE order == [byLocalId[l] EXCEPT !.state = new]
  <2>1. Tracked(l) /\ Sound(byLocalId[l])
    BY <1>3 DEF Transition, IInv, OrdersSound
  <2>2. /\ order \in Orders
        /\ order.order_id = byLocalId[l].order_id
        /\ order.remaining = order.original - order.filled
    BY <2>1 DEF Sound, Orders
  <2>3. order.state \in Live => order.remaining > 0
    <3>1. order.state \in Live => byLocalId[l].state \in Live
      BY <1>3, <2>1 DEF Transition, CanTransition, Live, Active, Sound, Orders
    <3> QED
      BY <2>1, <3>1 DEF Sound, Orders
  <2>4. /\ byLocalId' = [byLocalId EXCEPT ![l] = order]
        /\ totalCreated' \in Nat
    BY <1>3, <2>1 DEF Transition, IInv, TypeOK, Sound, Orders
  <2>5. byOrderId' = [o \in OrderIds |->
            IF IsClone(o, l) THEN [byOrderId[o] EXCEPT !.state = new]
                             ELSE byOrderId[o]]
    BY <1>3 DEF Transition
  <2>6. ASSUME NEW o \in OrderIds, byLocalId[l].order_id = o
        PROVE  IsClone(o, l) /\ byOrderId[o] = byLocalId[l]
    BY <2>1, <2>6, TrackedHasClone
  <2> HIDE DEF order
  <2>7. \A o \in OrderIds :
            byOrderId'[o] = IF order.order_id = o THEN order ELSE byOrderId[o]
    BY <2>2, <2>5, <2>6 DEF IsClone, order
  <2>8. Replaced(l, order)
    BY <2>2, <2>4, <2>5, <2>7 DEF Replaced, IInv, TypeOK, Orders
  <2> QED
    BY <2>1, <2>2, <2>3, <2>4, <2>8, ReplacedPreserves DEF Sound
<1>4. ASSUME NEW l \in LocalIds, NEW size \in Sizes, ApplyFill(l, size)
      PROVE  IInv'
  <2> DEFINE filled == byLocalId[l].filled + size
             remaining == byLocalId[l].original - filled
             state == StateAfterFill(byLocalId[l], remaining)
             order == [byLocalId[l] EXCEPT !.filled = filled,
                          !.remaining = remaining, !.state = state]
  <2>1. Tracked(l) /\ Sound(byLocalId[l])
    BY <1>4 DEF ApplyFill, IInv, OrdersSound
  <2>2. filled \in Nat /\ remaining \in Int
    <3>1. byLocalId[l].filled \in Nat /\ byLocalId[l].original \in Sizes
      BY <2>1 DEF Sound, Orders
    <3>2. byLocalId[l].original \in Nat /\ size \in Nat
      BY <3>1
    <3> HIDE DEF state, order
    <3> QED
      BY <3>1, <3>2
  <2>3. /\ state \in States
        /\ state \in Live => remaining > 0
    BY <2>1, <2>2 DEF StateAfterFill, Sound, Orders, States, Live, Active
  <2>4. Sound(order) /\ order.order_id = byLocalId[l].order_id
    BY <2>1, <2>2, <2>3 DEF Sound, Orders
  <2>5. /\ byLocalId' = [byLocalId EXCEPT ![l] = order]
        /\ totalCreated' \in Nat
    BY <1>4 DEF ApplyFill, IInv, TypeOK
  <2>6. byOrderId' = [o \in OrderIds |->
            IF IsClone(o, l)
            THEN [byOrderId[o] EXCEPT !.filled = filled,
                     !.remaining = remaining, !.state = state]
            ELSE byOrderId[o]]
    BY <1>4 DEF ApplyFill
  <2>7. ASSUME NEW o \in OrderIds, byLocalId[l].order_id = o
        PROVE  IsClone(o, l) /\ byOrderId[o] = byLocalId[l]
    BY <2>1, <2>7, TrackedHasClone
  <2> HIDE DEF filled, remaining, state, order
  <2>8. \A o \in OrderIds :
            byOrderId'[o] = IF order.order_id = o THEN order ELSE byOrderId[o]
    BY <2>4, <2>6, <2>7 DEF IsClone, order
  <2>9. Replaced(l, order)
    BY <2>4, <2>5, <2>6, <2>8 DEF Replaced, Sound, IInv, TypeOK, Orders
  <2> QED
    BY <2>1, <2>4, <2>5, <2>9, ReplacedPreserves
<1>5. CASE RemoveTerminal
  <2>1. /\ byLocalId' \in [LocalIds -> Orders \cup {NoOrder}]
        /\ byOrderId' \in [OrderIds -> Orders \cup {NoOrder}]
        /\ totalCreated' \in Nat
    BY <1>5 DEF RemoveTerminal, IInv, TypeOK
  <2>2. \A l \in LocalIds : Tracked(l)' =>
            Tracked(l) /\ ~Removable(l) /\ byLocalId'[l] = byLocalId[l]
    BY <1>5 DEF RemoveTerminal, Tracked, Removable
  <2>3. \A l \in LocalIds : Tracked(l) /\ ~Removable(l) => byLocalId'[l] = byLocalId[l]
    BY <1>5 DEF RemoveTerminal
  <2>4. \A o \in OrderIds :
            byOrderId'[o] = IF \E l \in LocalIds : Removable(l)
                                   /\ byLocalId[l].order_id = o
                            THEN NoOrder ELSE byOrderId[o]
    BY <1>5 DEF RemoveTerminal
  <2>5. OrdersSound'
    BY <2>2 DEF IInv, OrdersSound
  <2>6. ASSUME NEW l \in LocalIds, Linked(l)'
        PROVE  byOrderId'[byLocalId'[l].order_id] = byLocalId'[l]
    <3>1. Linked(l) /\ ~Removable(l) /\ byLocalId'[l] = byLocalId[l]
      BY <2>2, <2>6 DEF Linked
    <3>2. byLocalId[l].order_id \in OrderIds
      BY <3>1 DEF Linked, Tracked, IInv, TypeOK, Orders
    <3>3. ~\E k \in LocalIds : Removable(k)
                /\ byLocalId[k].order_id = byLocalId[l].order_id
      BY <3>1 DEF IInv, IndexesAgree, Removable, Linked
    <3> QED
      BY <2>4, <3>1, <3>2, <3>3 DEF IInv, IndexesAgree
  <2>7. ASSUME NEW o \in OrderIds, byOrderId'[o] # NoOrder
        PROVE  \E l \in LocalIds : Tracked(l)' /\ byLocalId'[l].order_id = o
    <3>1. /\ byOrderId[o] # NoOrder
          /\ ~\E k \in LocalIds : Removable(k) /\ byLocalId[k].order_id = o
      BY <2>4, <2>7
    <3>2. PICK l \in LocalIds : Tracked(l) /\ byLocalId[l].order_id = o
      BY <3>1 DEF IInv, IndexesAgree
    <3> QED
      BY <2>3, <3>1, <3>2 DEF Tracked
  <2>8. ASSUME NEW k \in LocalIds, NEW l \in LocalIds, Linked(k)', Linked(l)',
               byLocalId'[k].order_id = byLocalId'[l].order_id
        PROVE  k = l
    BY <2>2, <2>8 DEF IInv, IndexesAgree, Linked
  <2> QED
    BY <2>1, <2>5, <2>6, <2>7, <2>8 DEF IInv, TypeOK, IndexesAgree
<1>6. CASE UNCHANGED vars
  BY <1>6 DEF vars, IInv, TypeOK, IndexesAgree, OrdersSound, Tracked, Linked
<1> QED
  BY <1>1, <1>2, <1>3, <1>4, <1>5, <1>6 DEF Next

\* Every reachable state satisfies the inductive invariant.
THEOREM IInvHolds == Spec => []IInv
<1>1. Init => IInv
  BY InitEstablishesIInv
<1>2. IInv /\ [Next]_vars => IInv'
  BY StepPreservesIInv
<1> QED
  BY <1>1, <1>2, PTL DEF Spec

\* Both indices, of any number of orders, always find the same order.
THEOREM IndexesAlwaysAgree == Spec => []IndexesAgree
  BY IInvHolds, PTL DEF IInv

\* No sequence of fills and transitions leaves an active order with nothing
\* left to fill.
THEOREM ActiveAlwaysHasRemaining == Spec => []ActiveHasRemaining
<1>1. IInv => ActiveHasRemaining
  BY DEF IInv, OrdersSound, Sound, Live, ActiveHasRemaining
<1> QED
  BY <1>1, IInvHolds, PTL

-----------------------------------------------------------------------------
\* An order that is done, or unknown, is never active again.
THEOREM DoneAlwaysStaysDone == Spec => DoneStaysDone
<1> DEFINE Stays ==
             \A l \in LocalIds :
                (/\ Tracked(l)
                 /\ byLocalId[l].state \in Terminal \cup {"Unknown"}
                 /\ Tracked(l)')
                => byLocalId'[l].state \notin Active
<1>1. IInv /\ [Next]_vars => [Stays]_vars
  <2> SUFFICES ASSUME IInv, Next PROVE Stays
    OBVIOUS
  <2> SUFFICES ASSUME NEW l \in LocalIds,
                      Tracked(l), Tracked(l)',
                      byLocalId[l].state \in Terminal \cup {"Unknown"}
               PROVE  byLocalId'[l].state \notin Active
    OBVIOUS
  <2>0. byLocalId[l] \in Orders /\ byLocalId \in [LocalIds -> Orders \cup {NoOrder}]
    BY DEF IInv, TypeOK, Tracked
  <2> USE DEF Terminal, Active, Tracked
  <2>1. ASSUME NEW k \in LocalIds, NEW size \in Sizes, Add(k, size)
        PROVE  byLocalId'[l].state \notin Active
    BY <2>0, <2>1 DEF Add
  <2>2. ASSUME NEW k \in LocalIds, NEW size \in Sizes, ApplyFill(k, size)
        PROVE  byLocalId'[l].state \notin Active
    BY <2>0, <2>2 DEF ApplyFill, StateAfterFill, Orders
  <2>3. ASSUME NEW k \in LocalIds, NEW o \in OrderIds, LinkOrderId(k, o)
        PROVE  byLocalId'[l].state \notin Active
    BY <2>0, <2>3 DEF LinkOrderId, Orders
  <2>4. ASSUME NEW k \in LocalIds, NEW new \in States, Transition(k, new)
        PROVE  byLocalId'[l].state \notin Active
    BY <2>0, <2>4 DEF Transition, CanTransition, Orders
  <2>5. CASE RemoveTerminal
    BY <2>0, <2>5 DEF RemoveTerminal
  <2> QED
    BY <2>1, <2>2, <2>3, <2>4, <2>5 DEF Next
<1> QED
  BY <1>1, IInvHolds, PTL DEF Spec, DoneStaysDone
=============================================================================
