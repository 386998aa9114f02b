--------------------------- MODULE DirectionalProofs ---------------------------
(***************************************************************************)
(* Proofs about Directional, for any bet, cooldown, time-outs and rounds:  *)
(* a strategy never has more than one bet in a market, nor more up for     *)
(* sale than it holds.                                                     *)
(***************************************************************************)
EXTENDS Directional, SumLemmas

\* An entry that waits for its answer is younger than the cooldown it started.
EntriesOnCooldown == \A i \in DOMAIN live :
    live[i].side = "buy" => lastTrade <= live[i].age

\* No entry waits behind a close order.
EntriesFirst == strategy # "late_entry" => \A i, j \in DOMAIN live :
    i < j /\ live[i].side = "sell" => live[j].side = "sell"

\* A close order has its mark, as old as itself, until it is filled in part: then the
\* token is no longer tracked, and no entry is left that would have it tracked again.
ExitsMarked == strategy # "late_entry" => \A i \in DOMAIN live : live[i].side = "sell" =>
    \/ exiting[live[i].token] = 1 + live[i].age
    \/ ~Tracked(live[i].token) /\ \A j \in DOMAIN live : live[j].side = "sell"

IInv ==
    /\ DirTypeOK
    /\ OneBetPerMarket
    /\ SellsCovered
    /\ EntriesOnCooldown
    /\ EntriesFirst
    /\ ExitsMarked

-----------------------------------------------------------------------------
(* Orders in flight *)

Sides == {"buy", "sell"}

\* What one order adds to the orders for t on one side.
Part(o, t, side) == IF o.token = t /\ o.side = side THEN o.size ELSE 0

\* What an order on its way holds: a token, a side, a size within the bet, an age still awaited.
LEMMA OrderTypes ==
    ASSUME NEW o \in Orders
    PROVE  /\ o.token \in Tokens /\ o.side \in Sides /\ o.size \in Nat \ {0}
           /\ o.size <= Bet /\ o.age \in Nat /\ o.age <= AnswerWithin
           /\ o.price \in Prices \union {NoBook}
<1>1. Bet \in Nat \ {0} /\ AnswerWithin \in Nat
  BY DirAssumption
<1> QED
  BY <1>1 DEF Orders, Sides

\* The part of an order that concerns a token and a side is a natural number.
LEMMA PartType ==
    ASSUME NEW o \in Orders, NEW t, NEW side
    PROVE  Part(o, t, side) \in Nat
  BY OrderTypes DEF Part

\* The orders on their way sit at finitely many places, and each is an order.
LEMMA Places ==
    ASSUME NEW q \in Seq(Orders)
    PROVE  /\ Len(q) \in Nat /\ DOMAIN q = 1..Len(q)
           /\ IsFiniteSet(DOMAIN q)
           /\ \A i \in DOMAIN q : q[i] \in Orders
<1>1. Len(q) \in Nat /\ DOMAIN q = 1..Len(q)
  OBVIOUS
<1>2. IsFiniteSet(1..Len(q))
  BY <1>1, FS_Interval
<1> QED
  BY <1>1, <1>2

\* The sizes summed for a token and a side are the parts of the orders, place by place.
LEMMA SizesAt ==
    ASSUME NEW q \in Seq(Orders), NEW t, NEW side
    PROVE  \A i \in DOMAIN q : Sizes(q, t, side)[i] = Part(q[i], t, side)
                               /\ Sizes(q, t, side)[i] \in Nat
<1>1. \A i \in DOMAIN q : Sizes(q, t, side)[i] = Part(q[i], t, side)
  BY DEF Sizes, Part
<1> QED
  BY <1>1, Places, PartType

\* The shares in flight are a natural number, no less than any order's.
LEMMA InFlightType ==
    ASSUME NEW q \in Seq(Orders), NEW t, NEW side
    PROVE  /\ InFlight(q, t, side) \in Nat
           /\ \A i \in DOMAIN q : Part(q[i], t, side) <= InFlight(q, t, side)
<1> DEFINE f == Sizes(q, t, side)
           S == DOMAIN q
<1>1. IsFiniteSet(S)
  BY Places
<1>2. \A i \in S : f[i] \in Nat /\ f[i] = Part(q[i], t, side)
  BY SizesAt
<1>3. InFlight(q, t, side) = SumFunctionOnSet(f, S)
  BY DEF InFlight
<1> HIDE DEF f, S
<1>4. SumFunctionOnSet(f, S) \in Nat /\ \A i \in S : f[i] <= SumFunctionOnSet(f, S)
  BY <1>1, <1>2, SumOfNaturals
<1> QED
  BY <1>2, <1>3, <1>4 DEF S

\* Nothing is in flight where there is no such order.
LEMMA InFlightNone ==
    ASSUME NEW q \in Seq(Orders), NEW t, NEW side,
           \A i \in DOMAIN q : Part(q[i], t, side) = 0
    PROVE  InFlight(q, t, side) = 0
<1> DEFINE f == Sizes(q, t, side)
           S == DOMAIN q
<1>1. IsFiniteSet(S)
  BY Places
<1>2. \A i \in S : f[i] = 0
  BY SizesAt
<1>3. InFlight(q, t, side) = SumFunctionOnSet(f, S)
  BY DEF InFlight
<1> HIDE DEF f, S
<1> QED
  BY <1>1, <1>2, <1>3, SumOfZeros

\* Only tokens, sides and sizes count.
LEMMA InFlightSame ==
    ASSUME NEW q \in Seq(Orders), NEW r \in Seq(Orders), Len(r) = Len(q), NEW t, NEW side,
           \A i \in DOMAIN q : Part(r[i], t, side) = Part(q[i], t, side)
    PROVE  InFlight(r, t, side) = InFlight(q, t, side)
<1> DEFINE f == Sizes(q, t, side)
           g == Sizes(r, t, side)
           S == DOMAIN q
<1>1. IsFiniteSet(S) /\ DOMAIN r = S
  BY Places
<1>2. \A i \in S : f[i] \in Nat /\ g[i] = f[i]
  BY <1>1, SizesAt
<1>3. InFlight(q, t, side) = SumFunctionOnSet(f, S) /\ InFlight(r, t, side) = SumFunctionOnSet(g, S)
  BY <1>1 DEF InFlight
<1> HIDE DEF f, g, S
<1>4. IsFiniteSet(S)
  BY <1>1
<1>5. SumFunctionOnSet(g, S) = SumFunctionOnSet(f, S)
  BY <1>2, <1>4, SumSame
<1> QED
  BY <1>3, <1>5

\* An order that is sent.
LEMMA InFlightAppend ==
    ASSUME NEW q \in Seq(Orders), NEW o \in Orders, NEW t, NEW side
    PROVE  InFlight(Append(q, o), t, side) = InFlight(q, t, side) + Part(o, t, side)
<1> DEFINE r == Append(q, o)
           f == Sizes(q, t, side)
           g == Sizes(r, t, side)
           S == DOMAIN q
           R == DOMAIN r
           x == Len(q) + 1
<1>1. IsFiniteSet(S) /\ S = 1..Len(q) /\ Len(q) \in Nat
  BY Places
<1>2. r \in Seq(Orders) /\ Len(r) = x /\ r[x] = o /\ \A i \in S : r[i] = q[i]
  BY <1>1
<1>3. IsFiniteSet(R) /\ R = 1..x
  BY <1>2, Places
<1>4. x \in R /\ R \ {x} = S
  BY <1>1, <1>3
<1>5. \A i \in R : g[i] \in Nat /\ g[i] = Part(r[i], t, side)
  <2> HIDE DEF r
  <2> QED
    BY <1>2, SizesAt
<1>6. \A i \in S : f[i] \in Nat /\ f[i] = g[i]
  BY <1>2, <1>4, <1>5, SizesAt
<1>7. InFlight(q, t, side) = SumFunctionOnSet(f, S) /\ InFlight(r, t, side) = SumFunctionOnSet(g, R)
  BY DEF InFlight
<1>8. g[x] = Part(o, t, side)
  BY <1>2, <1>4, <1>5
<1> HIDE DEF f, g, S, R, x, r
<1>9. IsFiniteSet(S) /\ IsFiniteSet(R)
  BY <1>1, <1>3
<1>10. SumFunctionOnSet(g, R) = g[x] + SumFunctionOnSet(g, R \ {x})
  BY <1>4, <1>5, <1>9, SumRemove
<1>11. SumFunctionOnSet(g, S) = SumFunctionOnSet(f, S)
  BY <1>6, <1>9, SumSame
<1>12. SumFunctionOnSet(f, S) \in Int /\ g[x] \in Int
  BY <1>4, <1>5, <1>6, <1>9, SumType
<1>13. SumFunctionOnSet(g, R) = g[x] + SumFunctionOnSet(f, S)
  BY <1>4, <1>10, <1>11
<1>14. InFlight(r, t, side) = InFlight(q, t, side) + Part(o, t, side)
  BY <1>7, <1>8, <1>12, <1>13
<1> QED
  BY <1>14 DEF r

\* A sequence that is not empty is a shorter one and its last order.
LEMMA LastAppended ==
    ASSUME NEW n \in Nat, NEW q \in Seq(Orders), Len(q) = n + 1
    PROVE  \E p \in Seq(Orders), o \in Orders : q = Append(p, o) /\ Len(p) = n
<1> DEFINE p == [i \in 1..n |-> q[i]]
<1>1. DOMAIN q = 1..n + 1 /\ \A i \in 1..n + 1 : q[i] \in Orders
  BY Places
<1>2. p \in Seq(Orders) /\ Len(p) = n
  BY <1>1
<1>3. q = Append(p, q[n + 1]) /\ q[n + 1] \in Orders
  BY <1>1, <1>2
<1> HIDE DEF p
<1> QED
  BY <1>2, <1>3

\* The oldest order, answered.
LEMMA InFlightTail ==
    ASSUME NEW q \in Seq(Orders), q # <<>>, NEW t, NEW side
    PROVE  InFlight(q, t, side) = Part(Head(q), t, side) + InFlight(Tail(q), t, side)
<1> DEFINE F(s) == InFlight(s, t, side)
           N == {n \in Nat : \A s \in Seq(Orders) : Len(s) = n + 1 =>
                    F(s) = Part(Head(s), t, side) + F(Tail(s))}
<1>1. 0 \in N
  <2>1. SUFFICES ASSUME NEW s \in Seq(Orders), Len(s) = 0 + 1
                 PROVE  F(s) = Part(Head(s), t, side) + F(Tail(s))
    OBVIOUS
  <2>2. PICK p \in Seq(Orders), o \in Orders : s = Append(p, o) /\ Len(p) = 0
    BY <2>1, LastAppended
  <2>3. p = <<>> /\ Tail(s) = <<>> /\ Head(s) = o
    BY <2>2
  <2>4. F(Append(p, o)) = F(p) + Part(o, t, side)
    BY InFlightAppend
  <2>5. F(p) \in Nat /\ Part(o, t, side) \in Nat
    BY InFlightType, PartType
  <2>6. F(s) = F(Append(p, o)) /\ F(Tail(s)) = F(p) /\ Part(Head(s), t, side) = Part(o, t, side)
    BY <2>2, <2>3
  <2> HIDE DEF F
  <2> QED
    BY <2>4, <2>5, <2>6
<1>2. ASSUME NEW n \in N PROVE n + 1 \in N
  <2>1. SUFFICES ASSUME NEW s \in Seq(Orders), Len(s) = (n + 1) + 1
                 PROVE  F(s) = Part(Head(s), t, side) + F(Tail(s))
    OBVIOUS
  <2>0. n + 1 \in Nat
    OBVIOUS
  <2>2. PICK p \in Seq(Orders), o \in Orders : s = Append(p, o) /\ Len(p) = n + 1
    BY <2>0, <2>1, LastAppended
  <2> DEFINE u == Tail(p)
  <2>3. u \in Seq(Orders) /\ Head(p) \in Orders /\ Head(s) = Head(p) /\ Tail(s) = Append(u, o)
    BY <2>2
  <2>9. F(p) = Part(Head(p), t, side) + F(u)
    BY <2>2
  <2> HIDE DEF u
  <2>4. F(Append(p, o)) = F(p) + Part(o, t, side)
    BY InFlightAppend
  <2>5. F(Append(u, o)) = F(u) + Part(o, t, side)
    BY <2>3, InFlightAppend
  <2>6. /\ F(p) \in Nat /\ F(u) \in Nat
        /\ Part(o, t, side) \in Nat /\ Part(Head(p), t, side) \in Nat
    BY <2>3, InFlightType, PartType
  <2> HIDE DEF F
  <2>8. F(s) = F(Append(p, o)) /\ F(Tail(s)) = F(Append(u, o)) /\ Head(s) = Head(p)
    BY <2>2, <2>3
  <2> QED
    BY <2>4, <2>5, <2>6, <2>8, <2>9
<1> HIDE DEF F
<1>3. N = Nat
  <2> HIDE DEF N
  <2>1. N \subseteq Nat
    BY DEF N
  <2> QED
    BY <1>1, <1>2, <2>1, SetInduction
<1>4. Len(q) - 1 \in N /\ Len(q) = (Len(q) - 1) + 1
  <2>1. Len(q) \in Nat \ {0}
    OBVIOUS
  <2>2. Len(q) - 1 \in Nat /\ Len(q) = (Len(q) - 1) + 1
    BY <2>1
  <2> QED
    BY <1>3, <2>2
<1>5. F(q) = Part(Head(q), t, side) + F(Tail(q))
  BY <1>4
<1> QED
  BY <1>5 DEF F

\* An order answered in part is still an order, smaller by the part.
LEMMA OrderPartly ==
    ASSUME NEW o \in Orders, NEW n \in Nat \ {0}, n < o.size
    PROVE  LET r == [o EXCEPT !.size = @ - n]
           IN  /\ r \in Orders /\ r.token = o.token /\ r.side = o.side /\ r.age = o.age
               /\ r.size = o.size - n
<1>1. Bet \in Nat
  BY DirAssumption
<1>2. o.size \in Nat /\ o.size <= Bet
  BY OrderTypes
<1>3. o.size - n \in 1..Bet
  BY <1>1, <1>2
<1> QED
  BY <1>3 DEF Orders

Partly(q, n) == [q EXCEPT ![1].size = @ - n]

\* The oldest order, filled in part.
LEMMA InFlightPartly ==
    ASSUME NEW q \in Seq(Orders), q # <<>>, NEW n \in Nat \ {0}, n < Head(q).size,
           NEW t, NEW side
    PROVE  /\ Partly(q, n) \in Seq(Orders) /\ Len(Partly(q, n)) = Len(q)
           /\ \A i \in DOMAIN q : /\ Partly(q, n)[i].token = q[i].token
                                  /\ Partly(q, n)[i].side = q[i].side
                                  /\ Partly(q, n)[i].age = q[i].age
           /\ InFlight(Partly(q, n), t, side) = InFlight(q, t, side)
                - IF Head(q).token = t /\ Head(q).side = side THEN n ELSE 0
<1> DEFINE r == Partly(q, n)
           o == [q[1] EXCEPT !.size = @ - n]
           f == Sizes(q, t, side)
           g == Sizes(r, t, side)
           S == DOMAIN q
           less == IF Head(q).token = t /\ Head(q).side = side THEN n ELSE 0
<1>1. IsFiniteSet(S) /\ S = 1..Len(q) /\ Len(q) \in Nat /\ \A i \in S : q[i] \in Orders
  BY Places
<1>2. Head(q) = q[1] /\ 1 \in S
  BY <1>1
<1>4. q[1].size \in Nat /\ n < q[1].size /\ q[1].size <= Bet
  BY <1>1, <1>2, OrderTypes
<1>5. o \in Orders /\ o.token = q[1].token /\ o.side = q[1].side /\ o.age = q[1].age
      /\ o.size = q[1].size - n
  BY <1>1, <1>2, <1>4, OrderPartly
<1>6. r = [q EXCEPT ![1] = o]
  BY <1>1, <1>2 DEF Partly
<1>7. /\ r \in Seq(Orders) /\ Len(r) = Len(q) /\ DOMAIN r = S
      /\ r[1] = o /\ \A i \in S \ {1} : r[i] = q[i]
  <2> HIDE DEF o, r
  <2>1. r = [q EXCEPT ![1] = o]
    BY <1>6
  <2> QED
    BY <1>1, <1>2, <1>5, <2>1
<1>8. /\ \A i \in S : f[i] \in Nat /\ f[i] = Part(q[i], t, side)
      /\ \A i \in S : g[i] \in Nat /\ g[i] = Part(r[i], t, side)
  <2> HIDE DEF r
  <2> QED
    BY <1>7, SizesAt
<1>9. g[1] = f[1] - less
  <2>1. f[1] = Part(q[1], t, side) /\ g[1] = Part(o, t, side)
    BY <1>2, <1>7, <1>8
  <2> HIDE DEF f, g, o
  <2> QED
    BY <1>2, <1>4, <1>5, <2>1 DEF Part
<1>10. InFlight(q, t, side) = SumFunctionOnSet(f, S) /\ InFlight(r, t, side) = SumFunctionOnSet(g, S)
  BY <1>7 DEF InFlight
<1>11. \A i \in S : r[i].token = q[i].token /\ r[i].side = q[i].side /\ r[i].age = q[i].age
  BY <1>5, <1>7
<1>12. less \in Nat
  OBVIOUS
<1> HIDE DEF f, g, S, r, less
<1>13. IsFiniteSet(S) /\ 1 \in S
  BY <1>1, <1>2
<1>14. \A i \in S \ {1} : g[i] = f[i]
  BY <1>7, <1>8
<1>15. SumFunctionOnSet(g, S) = SumFunctionOnSet(f, S) - f[1] + g[1]
  BY <1>8, <1>13, <1>14, SumUpdate
<1>16. SumFunctionOnSet(f, S) \in Int /\ f[1] \in Int
  BY <1>8, <1>13, SumType
<1>17. InFlight(r, t, side) = InFlight(q, t, side) - less
  BY <1>9, <1>10, <1>12, <1>15, <1>16
<1> QED
  BY <1>7, <1>11, <1>17 DEF S, r, less

-----------------------------------------------------------------------------
(* Actions *)

\* What the assumptions say of the constants, taken out once.
LEMMA Constants ==
    /\ Bet \in Nat \ {0} /\ Cooldown \in Nat \ {0} /\ ExitExpiry \in Nat \ {0}
    /\ AnswerWithin \in Nat /\ AnswerWithin < Cooldown /\ AnswerWithin < ExitExpiry
    /\ Interval \in Nat \ {0}
  BY DirAssumption

\* The longest hold is a natural number.
LEMMA MaxHoldType == MaxHold \in Nat
<1>1. {ContrarianHold, TboHold, TbtHold} \subseteq Nat
  BY DirAssumption
<1>2. \E x \in {ContrarianHold, TboHold, TbtHold} :
        \A y \in {ContrarianHold, TboHold, TbtHold} : x >= y
  BY <1>1
<1> QED
  BY <1>1, <1>2 DEF MaxHold, Max

\* What the invariant says of sums, in the terms of the lemmas.
LEMMA Sums2 ==
    ASSUME IInv
    PROVE  /\ live \in Seq(Orders)
           /\ \A t \in Tokens : /\ shares[t] \in Nat
                                /\ InFlight(live, t, "buy") \in Nat
                                /\ InFlight(live, t, "sell") \in Nat
<1>1. live \in Seq(Orders) /\ shares \in [Tokens -> 0..Bet]
  BY DEF IInv, DirTypeOK
<1> QED
  BY <1>1, Constants, InFlightType

\* What OneBetPerMarket needs: exposures that do not grow.
LEMMA OneBetKept ==
    ASSUME OneBetPerMarket, \A t \in Tokens : Exposed(t) \in Nat,
           \A t \in Tokens : Exposed(t)' \in Nat /\ Exposed(t)' <= Exposed(t)
    PROVE  OneBetPerMarket'
<1> DEFINE e == [t \in Tokens |-> Exposed(t)]
           f == [t \in Tokens |-> Exposed(t)']
<1>1. "yes" \in Tokens /\ "no" \in Tokens
  BY DEF Tokens
<1>2. \A t \in Tokens : e[t] \in Nat /\ f[t] \in Nat /\ f[t] <= e[t]
  OBVIOUS
<1>3. e["yes"] + e["no"] <= Bet /\ (e["yes"] = 0 \/ e["no"] = 0)
  BY <1>1 DEF OneBetPerMarket
<1> HIDE DEF e, f
<1>4. f["yes"] + f["no"] <= Bet /\ (f["yes"] = 0 \/ f["no"] = 0)
  BY <1>1, <1>2, <1>3, Constants
<1> QED
  BY <1>1, <1>4 DEF OneBetPerMarket, f

\* The strategies start inside the invariant.
LEMMA InitHolds == DirInit => IInv
<1>1. SUFFICES ASSUME DirInit PROVE IInv
  OBVIOUS
<1>2. live = <<>> /\ live \in Seq(Orders) /\ DOMAIN live = {}
  BY <1>1 DEF DirInit
<1>3. \A t, side : InFlight(live, t, side) = 0
  BY <1>2, InFlightNone
<1>4. DirTypeOK
  <2>1. Cooldown \in 0..Cooldown /\ 0 \in 0..Bet /\ 0 \in 0..MaxHold /\ 0 \in 0..Interval - 1
        /\ 0 \in 0..ExitExpiry + 1
    BY Constants, MaxHoldType
  <2> QED
    BY <1>1, <1>2, <2>1 DEF DirInit, DirTypeOK, Untracked
<1>5. \A t \in Tokens : Exposed(t) = 0 /\ Sold(t) = 0 /\ shares[t] = 0
  BY <1>1, <1>3 DEF DirInit, Exposed, Sold
<1>6. OneBetPerMarket
  BY <1>5, Constants DEF OneBetPerMarket, Tokens
<1>7. SellsCovered
  BY <1>5 DEF SellsCovered
<1> QED
  BY <1>2, <1>4, <1>6, <1>7 DEF IInv, EntriesOnCooldown, EntriesFirst, ExitsMarked

\* Off the cooldown, no entry is in flight.
LEMMA NoEntryInFlight ==
    ASSUME IInv, ~OnCooldown
    PROVE  /\ \A i \in DOMAIN live : live[i].side = "sell"
           /\ \A t \in Tokens : InFlight(live, t, "buy") = 0
<1>1. live \in Seq(Orders) /\ lastTrade \in 0..Cooldown
  BY DEF IInv, DirTypeOK
<1>2. ASSUME NEW i \in DOMAIN live PROVE live[i].side = "sell"
  <2>1. live[i].side \in Sides /\ live[i].age \in Nat /\ live[i].age <= AnswerWithin
    BY <1>1, Places, OrderTypes
  <2>2. live[i].side = "buy" => lastTrade <= live[i].age
    BY DEF IInv, EntriesOnCooldown
  <2> QED
    BY <1>1, <2>1, <2>2, Constants DEF OnCooldown, Sides
<1>3. \A t \in Tokens : \A i \in DOMAIN live : Part(live[i], t, "buy") = 0
  BY <1>2 DEF Part
<1> QED
  BY <1>1, <1>2, <1>3, InFlightNone

\* Where nothing is held, nothing is up for sale.
LEMMA NothingUpForSale ==
    ASSUME IInv, strategy # "late_entry", \A t \in Tokens : Flat(t)
    PROVE  \A i \in DOMAIN live : live[i].side = "buy"
<1>1. live \in Seq(Orders)
  BY DEF IInv, DirTypeOK
<1>2. \A t \in Tokens : InFlight(live, t, "sell") <= 0
  BY DEF IInv, SellsCovered, Sold, Flat
<1>3. ASSUME NEW i \in DOMAIN live PROVE live[i].side = "buy"
  <2>1. /\ live[i].token \in Tokens /\ live[i].side \in Sides /\ live[i].size \in Nat \ {0}
    BY <1>1, Places, OrderTypes
  <2>2. /\ InFlight(live, live[i].token, "sell") \in Nat
        /\ Part(live[i], live[i].token, "sell") <= InFlight(live, live[i].token, "sell")
    BY <1>1, InFlightType
  <2>3. InFlight(live, live[i].token, "sell") <= 0
    BY <1>2, <2>1
  <2> QED
    BY <2>1, <2>2, <2>3 DEF Part, Sides
<1> QED
  BY <1>3

\* An entry is sent: nothing is held, nothing in flight.
LEMMA EntryStep ==
    ASSUME IInv, NEW t \in Tokens, ~OnCooldown, Flat(t), Flat(Other(t)),
           price' \in [Tokens -> Prices \union {NoBook}],
           live' = Append(live, Order(t, "buy", Bet)), lastTrade' = 0,
           UNCHANGED <<strategy, routed, enabled, shares, entry, exiting, clock>>
    PROVE  IInv'
<1> DEFINE o == Order(t, "buy", Bet)
<1>1. /\ DirTypeOK /\ live \in Seq(Orders) /\ Len(live) \in Nat /\ DOMAIN live = 1..Len(live)
      /\ \A i \in DOMAIN live : live[i] \in Orders
  BY Places DEF IInv, DirTypeOK
<1>2. \A k \in Tokens : Flat(k)
  BY DEF Tokens, Other
<1>3. /\ o \in Orders /\ o.token = t /\ o.side = "buy" /\ o.size = Bet /\ o.age = 0
  BY Constants DEF Order, Orders
<1> HIDE DEF o
<1>4. live' = Append(live, o)
  BY DEF o
<1>5. /\ live' \in Seq(Orders) /\ DOMAIN live' = 1..Len(live) + 1
      /\ live'[Len(live) + 1] = o /\ \A i \in DOMAIN live : live'[i] = live[i]
  BY <1>1, <1>3, <1>4
<1>6. DirTypeOK'
  <2>1. 0 \in 0..Cooldown
    BY Constants
  <2> QED
    BY <1>1, <1>5, <2>1 DEF DirTypeOK
<1>7. \A i \in DOMAIN live : live[i].side = "sell"
  BY NoEntryInFlight
<1>8. OneBetPerMarket'
  <2>1. \A k \in Tokens : Exposed(k)' = IF k = t THEN Bet ELSE 0
    <3>1. TAKE k \in Tokens
    <3>2. InFlight(live', k, "buy") = InFlight(live, k, "buy") + Part(o, k, "buy")
      BY <1>1, <1>3, <1>4, InFlightAppend
    <3>3. InFlight(live, k, "buy") = 0 /\ shares[k] = 0
      BY <1>2, NoEntryInFlight DEF Flat
    <3>4. Part(o, k, "buy") = IF k = t THEN Bet ELSE 0
      BY <1>3 DEF Part
    <3>5. Exposed(k)' = shares[k] + InFlight(live', k, "buy")
      BY DEF Exposed
    <3> QED
      BY <3>2, <3>3, <3>4, <3>5, Constants
  <2> QED
    BY <2>1, Constants DEF OneBetPerMarket, Tokens
<1>9. SellsCovered'
  <2>1. SUFFICES ASSUME strategy # "late_entry", NEW k \in Tokens
                 PROVE  InFlight(live', k, "sell") <= shares[k]
    BY DEF SellsCovered, Sold
  <2>2. InFlight(live', k, "sell") = InFlight(live, k, "sell") + Part(o, k, "sell")
    BY <1>1, <1>3, <1>4, InFlightAppend
  <2>3. Part(o, k, "sell") = 0
    BY <1>3 DEF Part
  <2>4. InFlight(live, k, "sell") <= shares[k] /\ InFlight(live, k, "sell") \in Nat
    BY <2>1, Sums2 DEF IInv, SellsCovered, Sold
  <2> QED
    BY <2>2, <2>3, <2>4
<1>10. EntriesOnCooldown'
  <2>1. \A i \in DOMAIN live' : live'[i].side = "buy" => live'[i] = o
    BY <1>1, <1>5, <1>7
  <2> QED
    BY <1>3, <2>1 DEF EntriesOnCooldown
<1>11. EntriesFirst' /\ ExitsMarked'
  <2>1. CASE strategy = "late_entry"
    BY <2>1 DEF EntriesFirst, ExitsMarked
  <2>2. CASE strategy # "late_entry"
    <3>1. DOMAIN live = {}
      BY <1>2, <1>7, <2>2, NothingUpForSale
    <3>2. \A i \in DOMAIN live' : live'[i].side = "buy"
      BY <1>1, <1>3, <1>5, <3>1
    <3> QED
      BY <3>2 DEF EntriesFirst, ExitsMarked
  <2> QED
    BY <2>1, <2>2
<1> QED
  BY <1>6, <1>8, <1>9, <1>10, <1>11 DEF IInv

\* Orders, positions and marks stay; a cooldown starts only when there is none.
LEMMA QuietStep ==
    ASSUME IInv, DirTypeOK', UNCHANGED <<strategy, shares, live, entry, exiting>>,
           lastTrade' = lastTrade \/ ~OnCooldown
    PROVE  IInv'
<1>1. OneBetPerMarket'
  BY DEF IInv, OneBetPerMarket, Exposed
<1>2. SellsCovered'
  BY DEF IInv, SellsCovered, Sold
<1>3. EntriesOnCooldown'
  <2>1. CASE lastTrade' = lastTrade
    BY <2>1 DEF IInv, EntriesOnCooldown
  <2>2. CASE ~OnCooldown
    <3>1. \A i \in DOMAIN live : live[i].side = "sell"
      BY <2>2, NoEntryInFlight
    <3> QED
      BY <3>1 DEF EntriesOnCooldown
  <2> QED
    BY <2>1, <2>2
<1>4. EntriesFirst' /\ ExitsMarked'
  BY DEF IInv, EntriesFirst, ExitsMarked, Tracked
<1> QED
  BY <1>1, <1>2, <1>3, <1>4 DEF IInv

\* A book update, with the entry or the exit it may send, keeps the invariant.
LEMMA OnBookUpdatePreserves ==
    ASSUME IInv, NEW t \in Tokens, OnBookUpdate(t)
    PROVE  IInv'
<1>0. PICK p \in Prices \union {NoBook}, good \in BOOLEAN :
        /\ price' = [price EXCEPT ![t] = p]
        /\ IF enabled
             THEN \/ LateOnBookUpdate(good)
                  \/ ContrarianOnBookUpdate(t, good)
                  \/ TboOnBookUpdate(t, good)
                  \/ TbtOnBookUpdate(t, good)
             ELSE UNCHANGED <<lastTrade, live>>
  BY DEF OnBookUpdate
<1>1. UNCHANGED <<strategy, routed, enabled, shares, entry, exiting, clock>>
  BY DEF OnBookUpdate
<1>2. DirTypeOK
  BY DEF IInv
<1>3. price' \in [Tokens -> Prices \union {NoBook}]
  BY <1>0, <1>2 DEF DirTypeOK
<1>4. \A k \in Tokens : Other(Other(k)) = k /\ Other(k) \in Tokens
  BY DEF Tokens, Other
<1>5. CASE UNCHANGED <<lastTrade, live>>
  <2>1. DirTypeOK'
    BY <1>1, <1>2, <1>3, <1>5 DEF DirTypeOK
  <2> QED
    BY <1>1, <1>5, <2>1, QuietStep
<1>6. ASSUME NEW k \in Tokens, MayEnter(k), live' = Append(live, Order(k, "buy", Bet)),
             lastTrade' = 0
      PROVE  IInv'
  BY <1>1, <1>3, <1>6, EntryStep DEF MayEnter
<1>7. ASSUME NEW check \in BOOLEAN, check => MayEnter(t), Enter(t, check)
      PROVE  IInv'
  <2>1. CASE check
    BY <1>6, <1>7, <2>1 DEF Enter
  <2>2. CASE ~check
    BY <1>5, <1>7, <2>2 DEF Enter
  <2> QED
    BY <1>7, <2>1, <2>2
<1>8. CASE enabled /\ LateOnBookUpdate(good)
  <2> DEFINE winners == {k \in Tokens : price'[k] = Win}
             claims == winners # {} /\ InEntryWindow /\ ~OnCooldown
  <2>1. CASE ~claims
    BY <1>5, <1>8, <2>1 DEF LateOnBookUpdate
  <2>2. CASE claims
    <3>1. PICK k \in winners : live' = IF LateCheckEntry(k, good)
                                         THEN Append(live, Order(k, "buy", Bet)) ELSE live
      BY <1>8, <2>2 DEF LateOnBookUpdate
    <3>2. lastTrade' = 0 /\ ~OnCooldown /\ k \in Tokens
      BY <1>8, <2>2 DEF LateOnBookUpdate
    <3>3. CASE LateCheckEntry(k, good)
      BY <1>1, <1>3, <3>1, <3>2, <3>3, EntryStep DEF LateCheckEntry
    <3>4. CASE ~LateCheckEntry(k, good)
      <4>1. live' = live /\ 0 \in 0..Cooldown
        BY <3>1, <3>4, Constants
      <4>2. DirTypeOK'
        BY <1>1, <1>2, <1>3, <3>2, <4>1 DEF DirTypeOK
      <4> QED
        BY <1>1, <3>2, <4>1, <4>2, QuietStep
    <3> QED
      BY <3>3, <3>4
  <2> QED
    BY <2>1, <2>2
<1>9. CASE enabled /\ ContrarianOnBookUpdate(t, good)
  <2> DEFINE check == price'[t] # NoBook /\ ContrarianCheckEntry(t, good)
  <2>1. (check => MayEnter(t)) /\ Enter(t, check) /\ check \in BOOLEAN
    BY <1>9 DEF ContrarianOnBookUpdate, ContrarianCheckEntry
  <2> HIDE DEF check
  <2> QED
    BY <1>7, <2>1
<1>10. CASE enabled /\ TboOnBookUpdate(t, good)
  <2> DEFINE check == price'[t] # NoBook /\ TboCheckEntry(t, good)
  <2>1. (check => MayEnter(t)) /\ Enter(t, check) /\ check \in BOOLEAN
    BY <1>10 DEF TboOnBookUpdate, TboCheckEntry
  <2> HIDE DEF check
  <2> QED
    BY <1>7, <2>1
<1>11. CASE enabled /\ TbtOnBookUpdate(t, good)
  <2> DEFINE check == price'[t] # NoBook /\ TbtCheckEntry(t, good)
  <2>1. (check => MayEnter(t)) /\ Enter(t, check) /\ check \in BOOLEAN
    BY <1>11 DEF TbtOnBookUpdate, TbtCheckEntry
  <2> HIDE DEF check
  <2> QED
    BY <1>7, <2>1
<1> QED
  BY <1>0, <1>5, <1>8, <1>9, <1>10, <1>11

\* Switching a strategy on or off keeps the invariant.
LEMMA SetEnabledPreserves ==
    ASSUME IInv, SetEnabled
    PROVE  IInv'
<1>1. DirTypeOK'
  BY DEF IInv, DirTypeOK, SetEnabled
<1> QED
  BY <1>1, QuietStep DEF SetEnabled

\* A position that is gone has nothing up for sale.
LEMMA CloseElsewherePreserves ==
    ASSUME IInv, NEW t \in Tokens, CloseElsewhere(t)
    PROVE  IInv'
<1>1. /\ \A i \in DOMAIN live : live[i].token # t
      /\ shares' = [shares EXCEPT ![t] = 0]
      /\ UNCHANGED <<strategy, routed, enabled, price, live, entry, exiting, lastTrade, clock>>
  BY DEF CloseElsewhere
<1>2. DirTypeOK /\ shares \in [Tokens -> 0..Bet] /\ live \in Seq(Orders)
  BY DEF IInv, DirTypeOK
<1>3. \A k \in Tokens : shares'[k] \in Nat /\ shares[k] \in Nat
                        /\ shares'[k] = IF k = t THEN 0 ELSE shares[k]
  BY <1>1, <1>2, Constants
<1>4. DirTypeOK'
  <2>1. shares' \in [Tokens -> 0..Bet]
    BY <1>1, <1>2, Constants
  <2> QED
    BY <1>1, <1>2, <2>1 DEF DirTypeOK
<1>5. OneBetPerMarket'
  <2>1. \A k \in Tokens : /\ Exposed(k)' = shares'[k] + InFlight(live, k, "buy")
                          /\ Exposed(k) = shares[k] + InFlight(live, k, "buy")
                          /\ InFlight(live, k, "buy") \in Nat
    BY <1>1, Sums2 DEF Exposed
  <2>2. \A k \in Tokens : /\ Exposed(k)' \in Nat /\ Exposed(k) \in Nat
                          /\ Exposed(k)' <= Exposed(k)
    BY <1>3, <2>1
  <2> QED
    BY <2>2, OneBetKept DEF IInv
<1>6. SellsCovered'
  <2>1. SUFFICES ASSUME strategy # "late_entry", NEW k \in Tokens
                 PROVE  InFlight(live, k, "sell") <= shares'[k]
    BY <1>1 DEF SellsCovered, Sold
  <2>2. CASE k = t
    <3>1. \A i \in DOMAIN live : Part(live[i], k, "sell") = 0
      BY <1>1, <2>2 DEF Part
    <3> QED
      BY <1>2, <1>3, <2>2, <3>1, InFlightNone
  <2>3. CASE k # t
    BY <1>3, <2>1, <2>3 DEF IInv, SellsCovered, Sold
  <2> QED
    BY <2>2, <2>3
<1>7. EntriesOnCooldown' /\ EntriesFirst' /\ ExitsMarked'
  BY <1>1 DEF IInv, EntriesOnCooldown, EntriesFirst, ExitsMarked, Tracked
<1> QED
  BY <1>4, <1>5, <1>6, <1>7 DEF IInv

\* r is q with the orders of `due` for t at its end, if there are any.
Extends(r, q, t, due) ==
    /\ r \in Seq(Orders)
    /\ \A j \in DOMAIN q : j \in DOMAIN r /\ r[j] = q[j]
    /\ \A j \in DOMAIN r \ DOMAIN q :
            r[j].side = "sell" /\ r[j].token = t /\ r[j].age = 0 /\ t \in due
    /\ \A i \in DOMAIN q : \A j \in DOMAIN r \ DOMAIN q : i < j
    /\ \A k : InFlight(r, k, "buy") = InFlight(q, k, "buy")
    /\ \A k : InFlight(r, k, "sell") = InFlight(q, k, "sell")
                    + IF k = t /\ t \in due THEN shares[t] ELSE 0

\* One close order more, if it is due.
LEMMA SellIfDueFacts ==
    ASSUME NEW q \in Seq(Orders), NEW t \in Tokens, NEW due,
           t \in due => shares[t] \in 1..Bet
    PROVE  Extends(SellIfDue(q, t, due), q, t, due)
<1> DEFINE r == SellIfDue(q, t, due)
           o == Order(t, "sell", shares[t])
<1>0. \A k, side : InFlight(q, k, side) \in Nat
  BY InFlightType
<1>1. CASE t \notin due
  <2>1. r = q
    BY <1>1 DEF SellIfDue
  <2> HIDE DEF r
  <2>2. \A k : InFlight(r, k, "sell") = InFlight(q, k, "sell") + 0
    BY <1>0, <2>1
  <2>3. \A k : InFlight(r, k, "buy") = InFlight(q, k, "buy")
    BY <2>1
  <2>4. \A k : (IF k = t /\ t \in due THEN shares[t] ELSE 0) = 0
    BY <1>1
  <2> QED
    BY <2>1, <2>2, <2>3, <2>4 DEF r, Extends
<1>2. CASE t \in due
  <2>1. o \in Orders /\ o.token = t /\ o.side = "sell" /\ o.size = shares[t] /\ o.age = 0
    <3>1. o = [token |-> t, side |-> "sell", size |-> shares[t], age |-> 0, price |-> NoBook]
      BY DEF Order
    <3>2. shares[t] \in 1..Bet /\ 0 \in 0..AnswerWithin
      BY <1>2, Constants
    <3> QED
      BY <3>1, <3>2 DEF Orders
  <2> HIDE DEF o
  <2>2. r = Append(q, o)
    BY <1>2 DEF SellIfDue, o
  <2>3. Len(q) \in Nat /\ DOMAIN q = 1..Len(q)
    BY Places
  <2> HIDE DEF r
  <2>4. /\ r \in Seq(Orders) /\ DOMAIN r = 1..Len(q) + 1 /\ r[Len(q) + 1] = o
        /\ \A j \in 1..Len(q) : r[j] = q[j]
    BY <2>1, <2>2, <2>3
  <2>5. \A k : Part(o, k, "buy") = 0 /\ Part(o, k, "sell") = IF k = t THEN shares[t] ELSE 0
    BY <2>1 DEF Part
  <2>6. \A k, side : InFlight(r, k, side) = InFlight(q, k, side) + Part(o, k, side)
    BY <2>1, <2>2, InFlightAppend
  <2>7. \A k : InFlight(r, k, "buy") = InFlight(q, k, "buy")
    BY <1>0, <2>5, <2>6
  <2>8. \A k : InFlight(r, k, "sell") = InFlight(q, k, "sell")
                    + IF k = t /\ t \in due THEN shares[t] ELSE 0
    BY <1>2, <2>5, <2>6
  <2>9. /\ \A j \in DOMAIN q : j \in DOMAIN r /\ r[j] = q[j]
        /\ \A j \in DOMAIN r \ DOMAIN q : r[j] = o
        /\ \A i \in DOMAIN q : \A j \in DOMAIN r \ DOMAIN q : i < j
    BY <2>3, <2>4
  <2> QED
    BY <1>2, <2>1, <2>4, <2>7, <2>8, <2>9 DEF r, Extends
<1> QED
  BY <1>1, <1>2

\* What a tick that closes the tokens of `due` does to the orders in flight.
LEMMA SellAllFacts ==
    ASSUME IInv, NEW due, \A t \in due : t \in Tokens /\ ~Flat(t), SellAll(due)
    PROVE  /\ live' \in Seq(Orders)
           /\ \A j \in DOMAIN live : j \in DOMAIN live' /\ live'[j] = live[j]
           /\ \A j \in DOMAIN live' \ DOMAIN live :
                live'[j].side = "sell" /\ live'[j].token \in due /\ live'[j].age = 0
           /\ \A i \in DOMAIN live : \A j \in DOMAIN live' \ DOMAIN live : i < j
           /\ \A t \in Tokens : InFlight(live', t, "buy") = InFlight(live, t, "buy")
           /\ \A t \in Tokens : InFlight(live', t, "sell") = InFlight(live, t, "sell")
                                    + IF t \in due THEN shares[t] ELSE 0
<1> DEFINE q == SellIfDue(live, "yes", due)
           r == SellIfDue(q, "no", due)
<1>1. live \in Seq(Orders) /\ shares \in [Tokens -> 0..Bet]
  BY DEF IInv, DirTypeOK
<1>2. \A t \in due : shares[t] \in 1..Bet
  BY <1>1, Constants DEF Flat
<1>3. "yes" \in Tokens /\ "no" \in Tokens /\ "yes" # "no" /\ Tokens = {"yes", "no"}
  BY DEF Tokens
<1>4. Extends(q, live, "yes", due)
  BY <1>1, <1>2, <1>3, SellIfDueFacts
<1>5. Extends(r, q, "no", due)
  <2>1. q \in Seq(Orders)
    BY <1>4 DEF Extends
  <2> HIDE DEF q
  <2> QED
    BY <1>2, <1>3, <2>1, SellIfDueFacts
<1> HIDE DEF q, r
<1>6. live' = r
  BY DEF SellAll, q, r
<1>7. \A t \in Tokens : InFlight(r, t, "sell") = InFlight(live, t, "sell")
                            + IF t \in due THEN shares[t] ELSE 0
  <2>1. \A t : InFlight(live, t, "sell") \in Nat
    BY <1>1, InFlightType
  <2>2. shares["yes"] \in Int /\ shares["no"] \in Int
    BY <1>1, <1>3, Constants
  <2>3. InFlight(r, "yes", "sell") = InFlight(live, "yes", "sell")
                            + IF "yes" \in due THEN shares["yes"] ELSE 0
    BY <1>3, <1>4, <1>5, <2>1, <2>2 DEF Extends
  <2>4. InFlight(r, "no", "sell") = InFlight(live, "no", "sell")
                            + IF "no" \in due THEN shares["no"] ELSE 0
    BY <1>3, <1>4, <1>5, <2>1, <2>2 DEF Extends
  <2> QED
    BY <1>3, <2>3, <2>4
<1>8. \A t \in Tokens : InFlight(r, t, "buy") = InFlight(live, t, "buy")
  BY <1>4, <1>5 DEF Extends
<1>9. /\ \A j \in DOMAIN live : j \in DOMAIN r /\ r[j] = live[j]
      /\ \A j \in DOMAIN r \ DOMAIN live :
            r[j].side = "sell" /\ r[j].token \in due /\ r[j].age = 0
      /\ \A i \in DOMAIN live : \A j \in DOMAIN r \ DOMAIN live : i < j
  BY <1>4, <1>5 DEF Extends
<1> QED
  BY <1>5, <1>6, <1>7, <1>8, <1>9 DEF Extends

\* A tick, whichever the strategy: what it sells is held, and unless the strategy is
\* late_entry nothing of it is up for sale.
LEMMA TickStep ==
    ASSUME IInv, NEW due, \A t \in due : t \in Tokens /\ ~Flat(t), SellAll(due),
           UNCHANGED <<strategy, routed, enabled, price, shares, lastTrade, clock>>,
           entry' = KeepHeld,
           exiting' \in [Tokens -> 0..ExitExpiry + 1],
           strategy # "late_entry" =>
              /\ \A t \in due : Tracked(t) /\ KeepPending[t] = 0 /\ exiting'[t] = 1
              /\ \A t \in Tokens \ due : exiting'[t] = KeepPending[t]
    PROVE  IInv'
<1>1. /\ DirTypeOK /\ live \in Seq(Orders)
      /\ \A i \in DOMAIN live : /\ live[i].token \in Tokens /\ live[i].age \in Nat
                                /\ live[i].age <= AnswerWithin /\ live[i].side \in Sides
  <2>1. DirTypeOK /\ live \in Seq(Orders)
    BY DEF IInv, DirTypeOK
  <2> QED
    BY <2>1, Places, OrderTypes
<1>2. /\ live' \in Seq(Orders)
      /\ \A j \in DOMAIN live : j \in DOMAIN live' /\ live'[j] = live[j]
      /\ \A j \in DOMAIN live' \ DOMAIN live :
           live'[j].side = "sell" /\ live'[j].token \in due /\ live'[j].age = 0
      /\ \A i \in DOMAIN live : \A j \in DOMAIN live' \ DOMAIN live : i < j
      /\ \A t \in Tokens : InFlight(live', t, "buy") = InFlight(live, t, "buy")
      /\ \A t \in Tokens : InFlight(live', t, "sell") = InFlight(live, t, "sell")
                               + IF t \in due THEN shares[t] ELSE 0
  BY SellAllFacts
<1>3. DirTypeOK'
  <2>1. entry' \in [Tokens -> [price : Prices \union {NoBook}, age : 0..MaxHold]]
    BY <1>1, MaxHoldType DEF DirTypeOK, KeepHeld, Untracked
  <2> QED
    BY <1>1, <1>2, <2>1 DEF DirTypeOK
<1>4. OneBetPerMarket'
  BY <1>2 DEF IInv, OneBetPerMarket, Exposed, Tokens
<1>5. EntriesOnCooldown'
  BY <1>2 DEF IInv, EntriesOnCooldown
<1>6. CASE strategy = "late_entry"
  BY <1>3, <1>4, <1>5, <1>6 DEF IInv, SellsCovered, EntriesFirst, ExitsMarked
<1>7. CASE strategy # "late_entry"
  <2>1. \A t \in Tokens : entry[t] = Untracked => entry'[t] = Untracked
    BY DEF KeepHeld
  <2>2. ASSUME NEW i \in DOMAIN live, live[i].side = "sell"
        PROVE  /\ live[i].token \notin due
               /\ exiting[live[i].token] = 1 + live[i].age =>
                    KeepPending[live[i].token] = exiting[live[i].token]
    <3>1. \/ exiting[live[i].token] = 1 + live[i].age
          \/ ~Tracked(live[i].token)
      BY <1>7, <2>2 DEF IInv, ExitsMarked
    <3>2. exiting[live[i].token] = 1 + live[i].age =>
            /\ KeepPending[live[i].token] = exiting[live[i].token]
            /\ KeepPending[live[i].token] # 0
      BY <1>1, Constants DEF KeepPending
    <3> QED
      BY <1>7, <3>1, <3>2
  <2>3. SellsCovered'
    <3>1. SUFFICES ASSUME NEW t \in Tokens PROVE InFlight(live', t, "sell") <= shares[t]
      BY DEF SellsCovered, Sold
    <3>2. InFlight(live, t, "sell") \in Nat /\ InFlight(live, t, "sell") <= shares[t]
          /\ shares[t] \in Nat
      BY <1>7, Sums2 DEF IInv, SellsCovered, Sold
    <3>3. CASE t \in due
      <4>1. \A i \in DOMAIN live : Part(live[i], t, "sell") = 0
        BY <2>2, <3>3 DEF Part
      <4>2. InFlight(live, t, "sell") = 0
        BY <1>1, <4>1, InFlightNone
      <4> QED
        BY <1>2, <3>2, <3>3, <4>2
    <3>4. CASE t \notin due
      BY <1>2, <3>2, <3>4
    <3> QED
      BY <3>3, <3>4
  <2>4. EntriesFirst'
    <3>1. SUFFICES ASSUME NEW i \in DOMAIN live', NEW j \in DOMAIN live',
                          i < j, live'[i].side = "sell"
                   PROVE  live'[j].side = "sell"
      BY DEF EntriesFirst
    <3>2. CASE j \notin DOMAIN live
      BY <1>2, <3>2
    <3>3. CASE j \in DOMAIN live /\ i \in DOMAIN live
      BY <1>2, <1>7, <3>1, <3>3 DEF IInv, EntriesFirst
    <3>4. CASE j \in DOMAIN live /\ i \notin DOMAIN live
      <4>1. j < i /\ j \in Nat /\ i \in Nat
        BY <1>1, <1>2, <3>4, Places
      <4> QED
        BY <3>1, <4>1
    <3> QED
      BY <3>2, <3>3, <3>4
  <2>5. ExitsMarked'
    <3>1. SUFFICES ASSUME NEW i \in DOMAIN live', live'[i].side = "sell"
                   PROVE  \/ exiting'[live'[i].token] = 1 + live'[i].age
                          \/ /\ entry'[live'[i].token] = Untracked
                             /\ \A j \in DOMAIN live' : live'[j].side = "sell"
      BY DEF ExitsMarked, Tracked
    <3>2. CASE i \notin DOMAIN live
      BY <1>2, <1>7, <3>2
    <3>3. CASE i \in DOMAIN live
      <4>1. live'[i] = live[i] /\ live[i].side = "sell" /\ live[i].token \in Tokens \ due
        BY <1>1, <1>2, <2>2, <3>1, <3>3
      <4>2. CASE exiting[live[i].token] = 1 + live[i].age
        BY <1>7, <2>2, <3>3, <4>1, <4>2
      <4>3. CASE ~Tracked(live[i].token) /\ \A j \in DOMAIN live : live[j].side = "sell"
        <5>1. \A j \in DOMAIN live' : live'[j].side = "sell"
          BY <1>2, <4>3
        <5> QED
          BY <2>1, <4>1, <4>3, <5>1 DEF Tracked
      <4> QED
        BY <1>7, <3>3, <4>1, <4>2, <4>3 DEF IInv, ExitsMarked
    <3> QED
      BY <3>2, <3>3
  <2> QED
    BY <1>3, <1>4, <1>5, <2>3, <2>4, <2>5 DEF IInv
<1> QED
  BY <1>6, <1>7

\* Sending the exits of what is tracked keeps the invariant, for any hold.
LEMMA CloseTrackedPreserves ==
    ASSUME IInv, NEW hold, CloseTracked(Exits(hold)),
           UNCHANGED <<strategy, routed, enabled, price, shares, lastTrade, clock>>
    PROVE  IInv'
<1> DEFINE due == Exits(hold)
<1>1. \A t \in due : t \in Tokens /\ ~Flat(t) /\ Tracked(t) /\ KeepPending[t] = 0
  BY DEF Exits
<1> HIDE DEF due
<1>2. /\ entry' = KeepHeld /\ SellAll(due)
      /\ exiting' = [t \in Tokens |-> IF t \in due THEN 1 ELSE KeepPending[t]]
  BY DEF CloseTracked, due
<1>3. KeepPending \in [Tokens -> 0..ExitExpiry + 1] /\ 1 \in 0..ExitExpiry + 1
  BY Constants DEF IInv, DirTypeOK, KeepPending
<1>4. /\ exiting' \in [Tokens -> 0..ExitExpiry + 1]
      /\ \A t \in due : exiting'[t] = 1
      /\ \A t \in Tokens \ due : exiting'[t] = KeepPending[t]
  BY <1>1, <1>2, <1>3
<1> QED
  BY <1>1, <1>2, <1>4, TickStep

\* A tick keeps the invariant.
LEMMA OnTickPreserves ==
    ASSUME IInv, OnTick
    PROVE  IInv'
<1>1. UNCHANGED <<strategy, routed, enabled, price, shares, lastTrade, clock>>
  BY DEF OnTick
<1>2. CASE LateOnTick
  <2> DEFINE due == {t \in Tokens : Tracked(t) /\ ~Flat(t) /\ price[t] = Stop}
  <2>1. \A t \in due : t \in Tokens /\ ~Flat(t)
    OBVIOUS
  <2>2. /\ strategy = "late_entry" /\ entry' = KeepHeld /\ exiting' = exiting
        /\ IF Len(live) < MaxLive THEN SellAll(due) ELSE live' = live
    BY <1>2 DEF LateOnTick
  <2>3. exiting' \in [Tokens -> 0..ExitExpiry + 1]
    BY <2>2 DEF IInv, DirTypeOK
  <2>4. SellAll({}) <=> live' = live
    BY DEF SellAll, SellIfDue
  <2> HIDE DEF due
  <2>5. CASE SellAll(due)
    BY <1>1, <2>1, <2>2, <2>3, <2>5, TickStep
  <2>6. CASE SellAll({})
    BY <1>1, <2>2, <2>3, <2>6, TickStep
  <2> QED
    BY <2>2, <2>4, <2>5, <2>6
<1>3. CASE ContrarianOnTick
  BY <1>1, <1>3, CloseTrackedPreserves DEF ContrarianOnTick, ContrarianCheckExits
<1>4. CASE TboOnTick
  BY <1>1, <1>4, CloseTrackedPreserves DEF TboOnTick, TboCheckExits
<1>5. CASE TbtOnTick
  BY <1>1, <1>5, CloseTrackedPreserves DEF TbtOnTick, TbtCheckExits
<1> QED
  BY <1>2, <1>3, <1>4, <1>5 DEF OnTick

\* An order is answered: the oldest one shrinks by n, or leaves if that is all of it.
Answered(n) ==
    /\ live # <<>> /\ n \in 1..Head(live).size
    /\ live' = IF n = Head(live).size THEN Tail(live) ELSE Partly(live, n)

\* The other orders move up by d.
MoveUp(d) ==
    /\ d \in {0, 1} /\ live' \in Seq(Orders)
    /\ \A i \in DOMAIN live' : /\ i \in Nat \ {0} /\ i + d \in DOMAIN live
                               /\ live'[i].token = live[i + d].token
                               /\ live'[i].side = live[i + d].side
                               /\ live'[i].age = live[i + d].age

\* An answer comes off the oldest order, and lowers what is in flight by exactly what it answers.
LEMMA AnsweredFacts ==
    ASSUME IInv, NEW n, Answered(n)
    PROVE  /\ n \in Nat \ {0} /\ Head(live) = live[1] /\ 1 \in DOMAIN live
           /\ Head(live) \in Orders
           /\ \E d : MoveUp(d)
           /\ \A t, side : InFlight(live', t, side) = InFlight(live, t, side)
                - IF Head(live).token = t /\ Head(live).side = side THEN n ELSE 0
<1>1. /\ live \in Seq(Orders) /\ Len(live) \in Nat /\ DOMAIN live = 1..Len(live)
      /\ \A i \in DOMAIN live : live[i] \in Orders
  BY Places DEF IInv, DirTypeOK
<1>2. live # <<>> /\ Head(live) = live[1] /\ 1 \in DOMAIN live /\ Head(live) \in Orders
  BY <1>1 DEF Answered
<1>3. n \in Nat \ {0} /\ n <= Head(live).size /\ Head(live).size \in Nat
  <2>1. Head(live).size \in Nat
    BY <1>2, OrderTypes
  <2> QED
    BY <2>1 DEF Answered
<1>4. CASE n = Head(live).size
  <2>1. live' = Tail(live)
    BY <1>4 DEF Answered
  <2>2. /\ live' \in Seq(Orders) /\ Len(live') = Len(live) - 1
        /\ DOMAIN live' = 1..Len(live) - 1
        /\ \A i \in 1..Len(live) - 1 : live'[i] = live[i + 1]
    BY <1>1, <1>2, <2>1
  <2>3. MoveUp(1)
    BY <1>1, <2>2 DEF MoveUp
  <2>4. ASSUME NEW t, NEW side
        PROVE  InFlight(live', t, side) = InFlight(live, t, side)
                - IF Head(live).token = t /\ Head(live).side = side THEN n ELSE 0
    <3>1. InFlight(live, t, side) = Part(Head(live), t, side) + InFlight(live', t, side)
      BY <1>1, <1>2, <2>1, InFlightTail
    <3>2. InFlight(live, t, side) \in Nat /\ InFlight(live', t, side) \in Nat
      BY <1>1, <2>2, InFlightType
    <3>3. Part(Head(live), t, side) =
            IF Head(live).token = t /\ Head(live).side = side THEN n ELSE 0
      BY <1>4 DEF Part
    <3> QED
      BY <1>3, <3>1, <3>2, <3>3
  <2> QED
    BY <1>2, <1>3, <2>3, <2>4
<1>5. CASE n # Head(live).size
  <2>1. live' = Partly(live, n) /\ n < Head(live).size
    BY <1>3, <1>5 DEF Answered
  <2>2. /\ live' \in Seq(Orders) /\ Len(live') = Len(live)
        /\ \A i \in DOMAIN live : /\ live'[i].token = live[i].token
                                  /\ live'[i].side = live[i].side
                                  /\ live'[i].age = live[i].age
    BY <1>1, <1>2, <1>3, <2>1, InFlightPartly
  <2>3. \A t, side : InFlight(live', t, side) = InFlight(live, t, side)
                - IF Head(live).token = t /\ Head(live).side = side THEN n ELSE 0
    BY <1>1, <1>2, <1>3, <2>1, InFlightPartly
  <2>4. MoveUp(0)
    <3>1. DOMAIN live' = DOMAIN live
      BY <1>1, <2>2, Places
    <3> QED
      BY <1>1, <2>2, <3>1 DEF MoveUp
  <2> QED
    BY <1>2, <1>3, <2>3, <2>4
<1> QED
  BY <1>4, <1>5

\* The orders that stay are as they were.
LEMMA AnswerKeepsOrder ==
    ASSUME IInv, NEW d, MoveUp(d), UNCHANGED <<strategy, lastTrade>>
    PROVE  EntriesOnCooldown' /\ EntriesFirst'
<1>1. EntriesOnCooldown'
  BY DEF IInv, EntriesOnCooldown, MoveUp
<1>2. EntriesFirst'
  <2>1. SUFFICES ASSUME strategy # "late_entry", NEW i \in DOMAIN live', NEW j \in DOMAIN live',
                        i < j, live'[i].side = "sell"
                 PROVE  live'[j].side = "sell"
    BY DEF EntriesFirst
  <2>2. i + d \in DOMAIN live /\ j + d \in DOMAIN live /\ i + d < j + d
    BY <2>1 DEF MoveUp
  <2>3. live[i + d].side = "sell" => live[j + d].side = "sell"
    BY <2>1, <2>2 DEF IInv, EntriesFirst
  <2> QED
    BY <2>1, <2>3 DEF MoveUp
<1> QED
  BY <1>1, <1>2

\* What an answer does to the shares, and to the marks and the tracking.
LEMMA AnswerStep ==
    ASSUME IInv, NEW n, Answered(n),
           UNCHANGED <<strategy, routed, enabled, price, lastTrade, clock>>,
           NEW o, o = Head(live),
           \/ shares' = shares
           \/ /\ o.side = "buy" /\ shares' = [shares EXCEPT ![o.token] = @ + n]
           \/ /\ o.side = "sell" /\ n <= shares[o.token]
              /\ shares' = [shares EXCEPT ![o.token] = @ - n],
           \/ UNCHANGED <<entry, exiting>>
           \/ o.side = "buy" /\ EntryFilled(o.token, o.price)
           \/ o.side = "sell" /\ ExitFilled(o.token)
    PROVE  IInv'
<1>1. DirTypeOK /\ live \in Seq(Orders) /\ shares \in [Tokens -> 0..Bet]
  BY DEF IInv, DirTypeOK
<1>2. /\ n \in Nat \ {0} /\ o = live[1] /\ 1 \in DOMAIN live /\ o \in Orders
      /\ \A t, side : InFlight(live', t, side) = InFlight(live, t, side)
                - IF o.token = t /\ o.side = side THEN n ELSE 0
  BY AnsweredFacts
<1>3. PICK d : MoveUp(d)
  BY AnsweredFacts
<1>4. o.token \in Tokens /\ o.side \in Sides /\ o.price \in Prices \union {NoBook}
  BY <1>2, OrderTypes
<1>5. live' \in Seq(Orders)
  BY <1>3 DEF MoveUp
<1>6. \A t \in Tokens, side \in Sides : /\ InFlight(live, t, side) \in Nat
                                        /\ InFlight(live', t, side) \in Nat
  BY <1>1, <1>5, InFlightType
<1>7. \A t \in Tokens : shares[t] \in Nat
  BY <1>1, Constants
<1>8. /\ shares' \in [Tokens -> Int] /\ \A t \in Tokens : shares'[t] \in Nat
      /\ \A t \in Tokens : \/ shares'[t] = shares[t]
                           \/ t = o.token /\ o.side = "buy" /\ shares'[t] = shares[t] + n
                           \/ t = o.token /\ o.side = "sell" /\ shares'[t] = shares[t] - n
  <2>1. CASE shares' = shares
    BY <1>1, <1>7, <2>1
  <2>2. CASE o.side = "buy" /\ shares' = [shares EXCEPT ![o.token] = @ + n]
    BY <1>1, <1>2, <1>4, <1>7, <2>2
  <2>3. CASE /\ o.side = "sell" /\ n <= shares[o.token]
             /\ shares' = [shares EXCEPT ![o.token] = @ - n]
    BY <1>1, <1>2, <1>4, <1>7, <2>3
  <2> QED
    BY <2>1, <2>2, <2>3
<1>9. OneBetPerMarket'
  <2>1. ASSUME NEW t \in Tokens
        PROVE  Exposed(t) \in Nat /\ Exposed(t)' \in Nat /\ Exposed(t)' <= Exposed(t)
    <3>1. /\ Exposed(t) = shares[t] + InFlight(live, t, "buy")
          /\ Exposed(t)' = shares'[t] + InFlight(live', t, "buy")
      BY DEF Exposed
    <3>2. InFlight(live, t, "buy") \in Nat /\ InFlight(live', t, "buy") \in Nat
      BY <1>6 DEF Sides
    <3>3. InFlight(live', t, "buy") = InFlight(live, t, "buy")
                - IF o.token = t /\ o.side = "buy" THEN n ELSE 0
      BY <1>2
    <3>4. shares[t] \in Nat /\ shares'[t] \in Nat /\ n \in Nat
      BY <1>2, <1>7, <1>8
    <3>5. \/ shares'[t] = shares[t]
          \/ t = o.token /\ o.side = "buy" /\ shares'[t] = shares[t] + n
          \/ t = o.token /\ o.side = "sell" /\ shares'[t] = shares[t] - n
      BY <1>8
    <3> QED
      BY <3>1, <3>2, <3>3, <3>4, <3>5
  <2> QED
    BY <2>1, OneBetKept DEF IInv
<1>10. SellsCovered'
  <2>1. SUFFICES ASSUME strategy # "late_entry", NEW t \in Tokens
                 PROVE  InFlight(live', t, "sell") <= shares'[t]
    BY DEF SellsCovered, Sold
  <2>2. /\ InFlight(live, t, "sell") \in Nat /\ InFlight(live', t, "sell") \in Nat
        /\ InFlight(live, t, "sell") <= shares[t]
    BY <1>6, <2>1 DEF IInv, SellsCovered, Sold, Sides
  <2>3. InFlight(live', t, "sell") = InFlight(live, t, "sell")
                - IF o.token = t /\ o.side = "sell" THEN n ELSE 0
    BY <1>2
  <2>4. shares[t] \in Nat /\ shares'[t] \in Nat /\ n \in Nat
    BY <1>2, <1>7, <1>8
  <2>5. \/ shares'[t] = shares[t]
        \/ t = o.token /\ o.side = "buy" /\ shares'[t] = shares[t] + n
        \/ t = o.token /\ o.side = "sell" /\ shares'[t] = shares[t] - n
    BY <1>8
  <2> QED
    BY <2>2, <2>3, <2>4, <2>5
<1>11. EntriesOnCooldown' /\ EntriesFirst'
  BY <1>3, AnswerKeepsOrder
<1>12. ExitsMarked'
  <2>1. SUFFICES ASSUME strategy # "late_entry", NEW i \in DOMAIN live', live'[i].side = "sell"
                 PROVE  \/ exiting'[live'[i].token] = 1 + live'[i].age
                        \/ /\ entry'[live'[i].token] = Untracked
                           /\ \A j \in DOMAIN live' : live'[j].side = "sell"
    BY DEF ExitsMarked, Tracked
  <2> DEFINE t == live'[i].token
  <2>2. /\ i + d \in DOMAIN live /\ live[i + d].side = "sell" /\ live[i + d].token = t
        /\ live[i + d].age = live'[i].age /\ t \in Tokens
    <3>1. i + d \in DOMAIN live /\ live[i + d].side = "sell" /\ live[i + d].token = t
          /\ live[i + d].age = live'[i].age
      BY <1>3, <2>1 DEF MoveUp
    <3> QED
      BY <1>1, <3>1, Places, OrderTypes
  <2>3. \/ exiting[t] = 1 + live'[i].age
        \/ entry[t] = Untracked /\ \A j \in DOMAIN live : live[j].side = "sell"
    BY <2>1, <2>2 DEF IInv, ExitsMarked, Tracked
  <2>4. (\A j \in DOMAIN live : live[j].side = "sell") =>
            \A j \in DOMAIN live' : live'[j].side = "sell"
    BY <1>3 DEF MoveUp
  <2> HIDE DEF t
  <2>5. CASE UNCHANGED <<entry, exiting>>
    BY <2>3, <2>4, <2>5 DEF t
  <2>6. CASE o.side = "buy" /\ EntryFilled(o.token, o.price)
    <3>1. exiting[t] = 1 + live'[i].age
      BY <1>2, <2>3, <2>6
    <3> QED
      BY <2>6, <3>1 DEF EntryFilled, t
  <2>7. CASE o.side = "sell" /\ ExitFilled(o.token)
    <3>1. /\ entry' = [entry EXCEPT ![o.token] = Untracked]
          /\ exiting' = [exiting EXCEPT ![o.token] = 0]
      BY <2>7 DEF ExitFilled
    <3>2. DOMAIN entry = Tokens /\ DOMAIN exiting = Tokens
      BY <1>1 DEF DirTypeOK
    <3>3. CASE t = o.token
      <4>1. \A j \in DOMAIN live : live[j].side = "sell"
        <5>1. SUFFICES ASSUME NEW j \in DOMAIN live PROVE live[j].side = "sell"
          OBVIOUS
        <5>2. j = 1 \/ 1 < j
          BY <1>1, <1>2, Places
        <5> QED
          BY <1>2, <2>1, <2>7, <5>2 DEF IInv, EntriesFirst
      <4>2. entry'[t] = Untracked
        BY <1>4, <3>1, <3>2, <3>3
      <4> QED
        BY <2>4, <4>1, <4>2 DEF t
    <3>4. CASE t # o.token
      <4>1. entry'[t] = entry[t] /\ exiting'[t] = exiting[t]
        BY <2>2, <3>1, <3>2, <3>4
      <4> QED
        BY <2>3, <2>4, <4>1 DEF t
    <3> QED
      BY <3>3, <3>4
  <2> QED
    BY <2>5, <2>6, <2>7
<1>13. DirTypeOK'
  <2>1. \A t \in Tokens : shares'[t] <= Bet
    <3>1. ASSUME NEW t \in Tokens PROVE Exposed(t)' <= Bet /\ Exposed(t)' \in Nat
      <4>1. \A k \in Tokens : Exposed(k)' = shares'[k] + InFlight(live', k, "buy")
        BY DEF Exposed
      <4>2. \A k \in Tokens : Exposed(k)' \in Nat
        BY <1>6, <1>8, <4>1 DEF Sides
      <4>3. "yes" \in Tokens /\ "no" \in Tokens /\ t \in {"yes", "no"}
        BY DEF Tokens
      <4>4. Exposed("yes")' + Exposed("no")' <= Bet
        BY <1>9 DEF OneBetPerMarket
      <4>5. Exposed("yes")' \in Nat /\ Exposed("no")' \in Nat
        BY <4>2, <4>3
      <4>6. CASE t = "yes"
        BY <4>4, <4>5, <4>6, Constants
      <4>7. CASE t = "no"
        BY <4>4, <4>5, <4>7, Constants
      <4> QED
        BY <4>3, <4>6, <4>7
    <3>2. SUFFICES ASSUME NEW t \in Tokens PROVE shares'[t] <= Bet
      OBVIOUS
    <3>3. Exposed(t)' = shares'[t] + InFlight(live', t, "buy")
          /\ shares'[t] \in Nat /\ InFlight(live', t, "buy") \in Nat
      BY <1>6, <1>8 DEF Exposed, Sides
    <3> QED
      BY <3>1, <3>3, Constants
  <2>2. shares' \in [Tokens -> 0..Bet]
    BY <1>8, <2>1, Constants
  <2>3. /\ entry' \in [Tokens -> [price : Prices \union {NoBook}, age : 0..MaxHold]]
        /\ exiting' \in [Tokens -> 0..ExitExpiry + 1]
    <3>0. 0 \in 0..MaxHold /\ 0 \in 0..ExitExpiry + 1
      BY MaxHoldType, Constants
    <3>1. CASE UNCHANGED <<entry, exiting>>
      BY <1>1, <3>1 DEF DirTypeOK
    <3>2. CASE EntryFilled(o.token, o.price)
      BY <1>1, <1>4, <3>0, <3>2 DEF DirTypeOK, EntryFilled
    <3>3. CASE ExitFilled(o.token)
      BY <1>1, <1>4, <3>0, <3>3 DEF DirTypeOK, ExitFilled, Untracked
    <3> QED
      BY <3>1, <3>2, <3>3
  <2> QED
    BY <1>1, <1>5, <2>2, <2>3 DEF DirTypeOK
<1> QED
  BY <1>9, <1>10, <1>11, <1>12, <1>13 DEF IInv

\* The answer of an order keeps the invariant.
LEMMA AnswerPreserves ==
    ASSUME IInv, Answer
    PROVE  IInv'
<1> DEFINE o == Head(live)
<1>1. live # <<>> /\ live \in Seq(Orders)
  BY DEF Answer, IInv, DirTypeOK
<1>2. o \in Orders /\ o.size \in Nat \ {0} /\ o.side \in Sides
  <2>1. o \in Orders
    BY <1>1
  <2> QED
    BY <2>1, OrderTypes
<1>3. CASE KillRest
  <2>1. Answered(o.size)
    BY <1>1, <1>2, <1>3 DEF Answered, KillRest
  <2>2. UNCHANGED <<strategy, routed, enabled, price, shares, entry, exiting, lastTrade, clock>>
    BY <1>3 DEF KillRest
  <2> QED
    BY <2>1, <2>2, AnswerStep
<1>4. ASSUME NEW n \in 1..Bet, Fill(n)
      PROVE  IInv'
  <2>1. /\ n <= o.size /\ (o.side = "sell" => n <= shares[o.token])
        /\ shares' = [shares EXCEPT ![o.token] = IF o.side = "buy" THEN @ + n ELSE @ - n]
        /\ live' = IF n = o.size THEN Tail(live) ELSE [live EXCEPT ![1].size = @ - n]
        /\ IF routed THEN OnFill(o.token, o.side, o.price) ELSE UNCHANGED <<entry, exiting>>
        /\ UNCHANGED <<strategy, routed, enabled, price, lastTrade, clock>>
    BY <1>4 DEF Fill
  <2>2. Answered(n)
    BY <1>1, <1>2, <2>1, Constants DEF Answered, Partly
  <2>3. \/ UNCHANGED <<entry, exiting>>
        \/ o.side = "buy" /\ EntryFilled(o.token, o.price)
        \/ o.side = "sell" /\ ExitFilled(o.token)
    BY <1>2, <2>1 DEF OnFill, Sides
  <2>4. \/ /\ o.side = "buy" /\ shares' = [shares EXCEPT ![o.token] = @ + n]
        \/ /\ o.side = "sell" /\ n <= shares[o.token]
           /\ shares' = [shares EXCEPT ![o.token] = @ - n]
    BY <1>2, <2>1 DEF Sides
  <2> HIDE DEF o
  <2>5. o = Head(live)
    BY DEF o
  <2> QED
    BY <2>1, <2>2, <2>3, <2>4, <2>5, AnswerStep
<1> QED
  BY <1>3, <1>4 DEF Answer

\* Everything ages alike, and no order as long as the cooldown or the time-out.
LEMMA ElapsePreserves ==
    ASSUME IInv, Elapse
    PROVE  IInv'
<1>0. /\ \A i \in DOMAIN live : live[i].age < AnswerWithin
      /\ live' = [i \in DOMAIN live |-> [live[i] EXCEPT !.age = @ + 1]]
      /\ entry' = [t \in Tokens |-> IF Tracked(t)
            THEN [entry[t] EXCEPT !.age = Min({@ + 1, MaxHold})] ELSE Untracked]
      /\ exiting' = [t \in Tokens |->
            IF exiting[t] = 0 THEN 0 ELSE Min({exiting[t] + 1, ExitExpiry + 1})]
      /\ lastTrade' = Min({lastTrade + 1, Cooldown})
      /\ clock' = IF strategy = "late_entry" THEN (clock + 1) % Interval ELSE clock
      /\ UNCHANGED <<strategy, routed, enabled, price, shares>>
  BY DEF Elapse
<1>1. DirTypeOK /\ live \in Seq(Orders) /\ DOMAIN live = 1..Len(live) /\ Len(live) \in Nat
  BY Places DEF IInv, DirTypeOK
<1>2. ASSUME NEW i \in DOMAIN live
      PROVE  /\ live'[i] \in Orders /\ live'[i].token = live[i].token
             /\ live'[i].side = live[i].side /\ live'[i].size = live[i].size
             /\ live'[i].age = live[i].age + 1
             /\ live[i].age \in Nat /\ live[i].age + 1 <= AnswerWithin
             /\ live[i].token \in Tokens
  <2>1. live[i] \in Orders
    BY <1>1, Places
  <2>2. live[i].age \in Nat /\ live[i].age < AnswerWithin /\ live[i].token \in Tokens
    BY <1>0, <2>1, OrderTypes
  <2>3. live[i].age + 1 \in 0..AnswerWithin
    BY <2>2, Constants
  <2>4. live'[i] = [live[i] EXCEPT !.age = @ + 1]
    BY <1>0
  <2>5. live'[i] \in Orders
    BY <2>1, <2>3, <2>4 DEF Orders
  <2> QED
    BY <2>1, <2>2, <2>3, <2>4, <2>5, Constants DEF Orders
<1>3. live' \in Seq(Orders) /\ DOMAIN live' = DOMAIN live /\ Len(live') = Len(live)
  <2>1. live' \in [1..Len(live) -> Orders]
    BY <1>0, <1>1, <1>2
  <2> QED
    BY <1>1, <2>1
<1>4. \A t, side : InFlight(live', t, side) = InFlight(live, t, side)
  <2>1. \A t, side : \A i \in DOMAIN live : Part(live'[i], t, side) = Part(live[i], t, side)
    BY <1>2 DEF Part
  <2> QED
    BY <1>1, <1>3, <2>1, InFlightSame
<1>5. /\ lastTrade \in Nat /\ lastTrade <= Cooldown
      /\ lastTrade' \in Nat /\ lastTrade' <= Cooldown /\ lastTrade' <= lastTrade + 1
  <2>1. lastTrade \in 0..Cooldown /\ Cooldown \in Nat
    BY <1>1, Constants DEF DirTypeOK
  <2>2. lastTrade + 1 \in Int /\ Cooldown \in Int
    BY <2>1
  <2>3. lastTrade' = IF lastTrade + 1 <= Cooldown THEN lastTrade + 1 ELSE Cooldown
    BY <1>0, <2>2, MinOfTwo
  <2> QED
    BY <2>1, <2>3
<1>6. \A t \in Tokens : /\ exiting[t] \in 0..ExitExpiry + 1
                        /\ exiting'[t] = IF exiting[t] = 0 THEN 0
                                         ELSE IF exiting[t] + 1 <= ExitExpiry + 1
                                              THEN exiting[t] + 1 ELSE ExitExpiry + 1
  <2>1. \A t \in Tokens : exiting[t] \in 0..ExitExpiry + 1
    BY <1>1 DEF DirTypeOK
  <2>2. \A t \in Tokens : exiting[t] + 1 \in Int /\ ExitExpiry + 1 \in Int
    BY <2>1, Constants
  <2>3. \A t \in Tokens : Min({exiting[t] + 1, ExitExpiry + 1})
            = IF exiting[t] + 1 <= ExitExpiry + 1 THEN exiting[t] + 1 ELSE ExitExpiry + 1
    BY <2>2, MinOfTwo
  <2> QED
    BY <1>0, <2>1, <2>3
<1>7. DirTypeOK'
  <2>1. exiting' \in [Tokens -> 0..ExitExpiry + 1]
    <3>1. \A t \in Tokens : exiting'[t] \in 0..ExitExpiry + 1
      BY <1>6, Constants
    <3> QED
      BY <1>0, <3>1
  <2>2. entry' \in [Tokens -> [price : Prices \union {NoBook}, age : 0..MaxHold]]
    <3>1. ASSUME NEW t \in Tokens
          PROVE  entry'[t] \in [price : Prices \union {NoBook}, age : 0..MaxHold]
      <4>1. entry[t] \in [price : Prices \union {NoBook}, age : 0..MaxHold]
        BY <1>1 DEF DirTypeOK
      <4>2. entry[t].age + 1 \in Int /\ entry[t].age + 1 >= 0
        BY <4>1, MaxHoldType
      <4>3. Min({entry[t].age + 1, MaxHold}) \in 0..MaxHold
        BY <4>2, MaxHoldType, MinOfTwo
      <4>4. 0 \in 0..MaxHold
        BY MaxHoldType
      <4> QED
        BY <1>0, <4>1, <4>3, <4>4 DEF Untracked
    <3> QED
      BY <1>0, <3>1
  <2>3. clock' \in 0..Interval - 1
    <3>1. clock \in 0..Interval - 1 /\ Interval \in Nat \ {0}
      BY <1>1, Constants DEF DirTypeOK
    <3> QED
      BY <1>0, <3>1
  <2>4. lastTrade' \in 0..Cooldown
    BY <1>5, Constants
  <2> QED
    BY <1>0, <1>1, <1>3, <2>1, <2>2, <2>3, <2>4 DEF DirTypeOK
<1>8. OneBetPerMarket'
  BY <1>0, <1>4 DEF IInv, OneBetPerMarket, Exposed
<1>9. SellsCovered'
  BY <1>0, <1>4 DEF IInv, SellsCovered, Sold
<1>10. EntriesOnCooldown'
  <2>1. SUFFICES ASSUME NEW i \in DOMAIN live', live'[i].side = "buy"
                 PROVE  lastTrade' <= live'[i].age
    BY DEF EntriesOnCooldown
  <2>2. lastTrade <= live[i].age
    BY <1>2, <1>3, <2>1 DEF IInv, EntriesOnCooldown
  <2> QED
    BY <1>2, <1>3, <1>5, <2>1, <2>2
<1>11. EntriesFirst'
  <2>1. SUFFICES ASSUME strategy # "late_entry", NEW i \in DOMAIN live', NEW j \in DOMAIN live',
                        i < j, live'[i].side = "sell"
                 PROVE  live'[j].side = "sell"
    BY <1>0 DEF EntriesFirst
  <2>2. i \in DOMAIN live /\ j \in DOMAIN live /\ live[i].side = "sell"
    BY <1>2, <1>3, <2>1
  <2>3. live[j].side = "sell"
    BY <2>1, <2>2 DEF IInv, EntriesFirst
  <2> QED
    BY <1>2, <2>2, <2>3
<1>12. ExitsMarked'
  <2>1. SUFFICES ASSUME strategy # "late_entry", NEW i \in DOMAIN live', live'[i].side = "sell"
                 PROVE  \/ exiting'[live'[i].token] = 1 + live'[i].age
                        \/ /\ entry'[live'[i].token] = Untracked
                           /\ \A j \in DOMAIN live' : live'[j].side = "sell"
    BY <1>0 DEF ExitsMarked, Tracked
  <2>2. /\ i \in DOMAIN live /\ live[i].side = "sell" /\ live'[i].token = live[i].token
        /\ live[i].token \in Tokens /\ live[i].age \in Nat
        /\ live[i].age + 1 <= AnswerWithin /\ live'[i].age = live[i].age + 1
    BY <1>2, <1>3, <2>1
  <2>3. CASE exiting[live[i].token] = 1 + live[i].age
    BY <1>6, <2>2, <2>3, Constants
  <2>4. CASE ~Tracked(live[i].token) /\ \A j \in DOMAIN live : live[j].side = "sell"
    <3>1. entry'[live[i].token] = Untracked
      BY <1>0, <2>2, <2>4
    <3>2. \A j \in DOMAIN live' : live'[j].side = "sell"
      BY <1>2, <1>3, <2>4
    <3> QED
      BY <2>2, <3>1, <3>2
  <2> QED
    BY <2>1, <2>2, <2>3, <2>4 DEF IInv, ExitsMarked
<1> QED
  BY <1>7, <1>8, <1>9, <1>10, <1>11, <1>12 DEF IInv

\* A stutter keeps the invariant.
LEMMA StutterPreserves ==
    ASSUME IInv, UNCHANGED dirVars
    PROVE  IInv'
  BY DEF IInv, DirTypeOK, OneBetPerMarket, Exposed, SellsCovered, Sold, EntriesOnCooldown,
         EntriesFirst, ExitsMarked, Tracked, dirVars

-----------------------------------------------------------------------------
(* Theorems *)

\* The invariant that the others follow from: an entry keeps its market on the cooldown
\* and a close order its mark until they are answered.
THEOREM DirIInvHolds == DirSpec => []IInv
<1>1. IInv /\ [DirNext]_dirVars => IInv'
  <2>1. SUFFICES ASSUME IInv, [DirNext]_dirVars PROVE IInv'
    OBVIOUS
  <2>2. ASSUME NEW t \in Tokens, OnBookUpdate(t) PROVE IInv'
    BY <2>1, <2>2, OnBookUpdatePreserves
  <2>3. ASSUME NEW t \in Tokens, CloseElsewhere(t) PROVE IInv'
    BY <2>1, <2>3, CloseElsewherePreserves
  <2>4. CASE OnTick
    BY <2>1, <2>4, OnTickPreserves
  <2>5. CASE Answer
    BY <2>1, <2>5, AnswerPreserves
  <2>6. CASE SetEnabled
    BY <2>1, <2>6, SetEnabledPreserves
  <2>7. CASE Elapse
    BY <2>1, <2>7, ElapsePreserves
  <2>8. CASE UNCHANGED dirVars
    BY <2>1, <2>8, StutterPreserves
  <2> QED
    BY <2>1, <2>2, <2>3, <2>4, <2>5, <2>6, <2>7, <2>8 DEF DirNext
<1> QED
  BY <1>1, InitHolds, PTL DEF DirSpec

\* The variables keep their types: no position exceeds one bet.
THEOREM DirTypeCorrect == DirSpec => []DirTypeOK
<1>1. IInv => DirTypeOK
  BY DEF IInv
<1> QED
  BY <1>1, DirIInvHolds, PTL

\* Whatever the order of book updates, ticks, fills and kills, no strategy has or has
\* bought both tokens of a market, or more than one bet.
THEOREM OneBetAlways == DirSpec => []OneBetPerMarket
<1>1. IInv => OneBetPerMarket
  BY DEF IInv
<1> QED
  BY <1>1, DirIInvHolds, PTL

\* The close orders in flight never add up to more than is held.
THEOREM SellsAlwaysCovered == DirSpec => []SellsCovered
<1>1. IInv => SellsCovered
  BY DEF IInv
<1> QED
  BY <1>1, DirIInvHolds, PTL
=============================================================================
