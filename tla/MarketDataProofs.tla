---------------------------- MODULE MarketDataProofs ----------------------------
(***************************************************************************)
(* Proofs about what strategies see of the market, for any prices, sizes   *)
(* and times: the order book (OrderBook) is the exchange's whenever        *)
(* nothing is unread, a silence of the external price (PriceFeed) spoils   *)
(* the window it ends with and no other, and the signals that are found in *)
(* the mid prices (PriceSignals) are those that are documented.            *)
(***************************************************************************)
EXTENDS OrderBook, PriceFeed, PriceSignals, SumLemmas

(* Levels and rankings *)

LevelRecords == [price : BookPrices, size : BookSizes]

\* A set of levels with one for a price at most.
Distinct(T) == \A x, y \in T : x.price = y.price => x = y

\* What the assumption says of prices, sizes and levels.
LEMMA PriceTypes ==
    /\ BookPrices \subseteq Nat \ {0} /\ BookSizes \subseteq Nat \ {0}
    /\ IsFiniteSet(BookPrices)
    /\ \A l \in LevelRecords : l.price \in Nat /\ l.size \in Nat \ {0} /\ l.price \in BookPrices
<1>1. /\ BookPrices \subseteq Nat \ {0} /\ BookSizes \subseteq Nat \ {0}
      /\ IsFiniteSet(BookPrices)
  BY BookAssumption
<1>2. \A l \in LevelRecords : l.price \in BookPrices /\ l.size \in BookSizes
  BY DEF LevelRecords
<1> QED
  BY <1>1, <1>2

\* Of two different prices one is better.
LEMMA BetterIsOrder ==
    ASSUME NEW s, NEW p \in Nat, NEW q \in Nat, NEW r \in Nat
    PROVE  /\ ~Better(s, p, p)
           /\ Better(s, p, q) \/ Better(s, q, p) \/ p = q
           /\ Better(s, p, q) /\ Better(s, q, r) => Better(s, p, r)
           /\ Better(s, p, q) => ~Better(s, q, p)
  BY DEF Better

\* What the elements of a sequence are.
LEMMA Places ==
    ASSUME NEW S, NEW q \in Seq(S)
    PROVE  /\ Len(q) \in Nat /\ DOMAIN q = 1..Len(q)
           /\ \A i \in DOMAIN q : q[i] \in S
           /\ q \in [1..Len(q) -> S]
  OBVIOUS

\* The elements of a sequence.
LEMMA SetOf ==
    ASSUME NEW q
    PROVE  ToSet(q) = {q[i] : i \in DOMAIN q}
  BY DEF ToSet

\* The levels of a ranked side are as many as it is long.
LEMMA RankedSide ==
    ASSUME NEW s, NEW q \in Seq(LevelRecords), Ranked(s, q)
    PROVE  /\ IsFiniteSet(ToSet(q)) /\ Len(q) = Cardinality(ToSet(q))
           /\ ToSet(q) \in SUBSET LevelRecords
           /\ Distinct(ToSet(q))
           /\ q \in SetToSeqs(ToSet(q))
<1>1. /\ Len(q) \in Nat /\ DOMAIN q = 1..Len(q)
      /\ \A i \in DOMAIN q : q[i] \in LevelRecords /\ q[i].price \in Nat
  BY Places, PriceTypes
<1>2. \A i, j \in DOMAIN q : i # j => q[i].price # q[j].price
  <2> TAKE i, j \in DOMAIN q
  <2> HAVE i # j
  <2>1. i < j \/ j < i
    BY <1>1
  <2>2. Better(s, q[i].price, q[j].price) \/ Better(s, q[j].price, q[i].price)
    BY <2>1 DEF Ranked
  <2> QED
    BY <2>2, <1>1, BetterIsOrder
<1>3. q \in [1..Len(q) -> ToSet(q)]
  BY <1>1, Places, SetOf
<1>4. q \in Injection(1..Len(q), ToSet(q))
  BY <1>1, <1>2, <1>3 DEF Injection, IsInjective
<1>5. q \in Surjection(1..Len(q), ToSet(q))
  BY <1>1, <1>3, SetOf DEF Surjection
<1>6. IsFiniteSet(1..Len(q)) /\ Cardinality(1..Len(q)) = Len(q)
  BY <1>1, CountTo
<1>7. IsFiniteSet(ToSet(q)) /\ Cardinality(ToSet(q)) = Len(q)
  BY <1>4, <1>5, <1>6, FS_Surjection
<1>8. q \in SetToSeqs(ToSet(q))
  BY <1>1, <1>2, <1>3, <1>7 DEF SetToSeqs
<1>9. ToSet(q) \in SUBSET LevelRecords /\ Distinct(ToSet(q))
  BY <1>1, <1>2, SetOf DEF Distinct
<1> QED
  BY <1>7, <1>8, <1>9

\* A listing of a finite set of levels is a sequence of all of them.
LEMMA Listing ==
    ASSUME NEW T \in SUBSET LevelRecords, IsFiniteSet(T), NEW q \in SetToSeqs(T)
    PROVE  q \in Seq(LevelRecords) /\ ToSet(q) = T
<1> DEFINE n == Cardinality(T)
<1>1. n \in Nat
  BY FS_CardinalityType
<1>2. q \in [1..n -> T] /\ \A i, j \in 1..n : i # j => q[i] # q[j]
  BY DEF SetToSeqs
<1> HIDE DEF n
<1>3. q \in Injection(1..n, T)
  BY <1>2 DEF Injection, IsInjective
<1>4. Cardinality(1..n) = n
  BY <1>1, CountTo
<1>5. Cardinality(T) = n
  BY DEF n
<1>6. q \in Surjection(1..n, T)
  BY <1>3, <1>4, <1>5, FS_Injection
<1>7. DOMAIN q = 1..n /\ q \in Seq(T)
  BY <1>1, <1>2
<1>8. ToSet(q) = T
  <2>1. \A x \in T : \E i \in 1..n : q[i] = x
    BY <1>6 DEF Surjection
  <2>2. \A i \in 1..n : q[i] \in T
    BY <1>2
  <2> QED
    BY <1>7, <2>1, <2>2, SetOf
<1> QED
  BY <1>2, <1>7, <1>8, <1>1

-----------------------------------------------------------------------------
(* One level more, less or changed *)

\* The elements of a concatenation.
LEMMA ConcatPlaces ==
    ASSUME NEW S, NEW a \in Seq(S), NEW b \in Seq(S)
    PROVE  /\ a \o b \in Seq(S) /\ Len(a \o b) = Len(a) + Len(b)
           /\ \A i \in 1..Len(a) + Len(b) :
                (a \o b)[i] = IF i <= Len(a) THEN a[i] ELSE b[i - Len(a)]
  OBVIOUS

\* Where an insertion puts the elements.
LEMMA InsertAtPlaces ==
    ASSUME NEW S, NEW q \in Seq(S), NEW k \in 1..Len(q) + 1, NEW e \in S
    PROVE  /\ InsertAt(q, k, e) \in Seq(S)
           /\ Len(InsertAt(q, k, e)) = Len(q) + 1
           /\ \A i \in 1..Len(q) + 1 : InsertAt(q, k, e)[i] =
                IF i < k THEN q[i] ELSE IF i = k THEN e ELSE q[i - 1]
<1>1. /\ SubSeq(q, 1, k - 1) \in Seq(S) /\ Len(SubSeq(q, 1, k - 1)) = k - 1
      /\ \A i \in 1..k - 1 : SubSeq(q, 1, k - 1)[i] = q[i]
  OBVIOUS
<1>2. /\ SubSeq(q, k, Len(q)) \in Seq(S) /\ Len(SubSeq(q, k, Len(q))) = Len(q) + 1 - k
      /\ \A i \in 1..Len(q) + 1 - k : SubSeq(q, k, Len(q))[i] = q[k + i - 1]
  OBVIOUS
<1> DEFINE a == SubSeq(q, 1, k - 1)
           b == SubSeq(q, k, Len(q))
<1> HIDE DEF a, b
<1>3. /\ a \in Seq(S) /\ Len(a) = k - 1 /\ \A i \in 1..k - 1 : a[i] = q[i]
      /\ b \in Seq(S) /\ Len(b) = Len(q) + 1 - k
      /\ \A i \in 1..Len(q) + 1 - k : b[i] = q[k + i - 1]
  BY <1>1, <1>2 DEF a, b
<1> DEFINE c == a \o <<e>>
<1>4. InsertAt(q, k, e) = c \o b
  BY DEF InsertAt, a, b
<1>6. Len(q) \in Nat /\ k \in Nat
  OBVIOUS
<1>5. /\ c \in Seq(S) /\ Len(c) = k
      /\ \A i \in 1..k : c[i] = IF i < k THEN q[i] ELSE e
  <2>1. <<e>> \in Seq(S) /\ Len(<<e>>) = 1 /\ <<e>>[1] = e
    OBVIOUS
  <2>2. /\ c \in Seq(S) /\ Len(c) = k - 1 + 1
        /\ \A i \in 1..k - 1 + 1 :
             c[i] = IF i <= k - 1 THEN a[i] ELSE <<e>>[i - (k - 1)]
    BY <1>3, <1>6, <2>1, ConcatPlaces
  <2> HIDE DEF c
  <2> QED
    BY <1>3, <1>6, <2>1, <2>2
<1> HIDE DEF c
<1>7. /\ c \o b \in Seq(S) /\ Len(c \o b) = Len(q) + 1
      /\ \A i \in 1..Len(q) + 1 : (c \o b)[i] = IF i <= k THEN c[i] ELSE b[i - k]
  BY <1>3, <1>5, <1>6, ConcatPlaces
<1>8. ASSUME NEW i \in 1..Len(q) + 1
      PROVE  (c \o b)[i] = IF i < k THEN q[i] ELSE IF i = k THEN e ELSE q[i - 1]
  <2>0. i <= k \/ i > k
    BY <1>6
  <2>1. CASE i <= k
    BY <1>5, <1>6, <1>7, <2>1
  <2>2. CASE i > k
    <3>1. i - k \in 1..Len(q) + 1 - k /\ k + (i - k) - 1 = i - 1
      BY <1>6, <2>2
    <3>2. b[i - k] = q[i - 1]
      BY <1>3, <3>1
    <3> QED
      BY <1>6, <1>7, <2>2, <3>2
  <2> QED
    BY <2>0, <2>1, <2>2
<1> QED
  BY <1>4, <1>7, <1>8

\* Where a removal puts the elements.
LEMMA RemoveAtPlaces ==
    ASSUME NEW S, NEW q \in Seq(S), NEW k \in 1..Len(q)
    PROVE  /\ RemoveAt(q, k) \in Seq(S)
           /\ Len(RemoveAt(q, k)) = Len(q) - 1
           /\ \A i \in 1..Len(q) - 1 : RemoveAt(q, k)[i] = IF i < k THEN q[i] ELSE q[i + 1]
<1>1. /\ SubSeq(q, 1, k - 1) \in Seq(S) /\ Len(SubSeq(q, 1, k - 1)) = k - 1
      /\ \A i \in 1..k - 1 : SubSeq(q, 1, k - 1)[i] = q[i]
  OBVIOUS
<1>2. /\ SubSeq(q, k + 1, Len(q)) \in Seq(S) /\ Len(SubSeq(q, k + 1, Len(q))) = Len(q) - k
      /\ \A i \in 1..Len(q) - k : SubSeq(q, k + 1, Len(q))[i] = q[k + i]
  OBVIOUS
<1> DEFINE a == SubSeq(q, 1, k - 1)
           b == SubSeq(q, k + 1, Len(q))
<1> HIDE DEF a, b
<1>3. /\ a \in Seq(S) /\ Len(a) = k - 1 /\ \A i \in 1..k - 1 : a[i] = q[i]
      /\ b \in Seq(S) /\ Len(b) = Len(q) - k
      /\ \A i \in 1..Len(q) - k : b[i] = q[k + i]
  BY <1>1, <1>2 DEF a, b
<1>4. RemoveAt(q, k) = a \o b
  BY DEF RemoveAt, a, b
<1>6. Len(q) \in Nat /\ k \in Nat
  OBVIOUS
<1>7. /\ a \o b \in Seq(S) /\ Len(a \o b) = Len(q) - 1
      /\ \A i \in 1..Len(q) - 1 : (a \o b)[i] = IF i <= k - 1 THEN a[i] ELSE b[i - (k - 1)]
  <2>1. Len(a) + Len(b) = Len(q) - 1 /\ Len(a) = k - 1
    BY <1>3, <1>6
  <2>2. /\ a \o b \in Seq(S) /\ Len(a \o b) = Len(a) + Len(b)
        /\ \A i \in 1..Len(a) + Len(b) :
             (a \o b)[i] = IF i <= Len(a) THEN a[i] ELSE b[i - Len(a)]
    BY <1>3, ConcatPlaces
  <2> QED
    BY <2>1, <2>2
<1>8. ASSUME NEW i \in 1..Len(q) - 1
      PROVE  (a \o b)[i] = IF i < k THEN q[i] ELSE q[i + 1]
  <2>0. i < k \/ i >= k
    BY <1>6
  <2>1. CASE i < k
    BY <1>3, <1>6, <1>7, <2>1
  <2>2. CASE i >= k
    <3>1. i - (k - 1) \in 1..Len(q) - k /\ k + (i - (k - 1)) = i + 1
      BY <1>6, <2>2
    <3>2. b[i - (k - 1)] = q[i + 1]
      BY <1>3, <3>1
    <3> QED
      BY <1>6, <1>7, <2>2, <3>2
  <2> QED
    BY <2>0, <2>1, <2>2
<1> QED
  BY <1>4, <1>7, <1>8

\* Where a search stops.
LEMMA FirstPlace ==
    ASSUME NEW I \in SUBSET Nat, I # {}
    PROVE  Min(I) \in I /\ \A j \in I : Min(I) <= j
  BY LeastNatural DEF Min

\* The first of the places in I, 0 if there is none.
LEMMA Search ==
    ASSUME NEW n \in Nat, NEW I \in SUBSET (1..n), NEW k, k = IF I # {} THEN Min(I) ELSE 0
    PROVE  /\ k \in 0..n
           /\ k = 0 => I = {}
           /\ k # 0 => k \in I /\ k \in 1..n /\ \A i \in 1..k - 1 : i \notin I /\ i \in 1..n
<1>1. CASE I = {}
  BY <1>1
<1>2. CASE I # {}
  <2>1. k \in I /\ \A j \in I : k <= j
    BY <1>2, FirstPlace
  <2>2. k \in 1..n
    BY <2>1
  <2>3. \A i \in 1..k - 1 : i \in 1..n /\ ~(k <= i)
    BY <2>2
  <2> QED
    BY <2>1, <2>2, <2>3
<1> QED
  BY <1>1, <1>2

\* The search of Insert finds the first worse level.
LEMMA WorseFound ==
    ASSUME NEW s, NEW q \in Seq(LevelRecords), NEW l \in LevelRecords,
           NEW k, k = SelectInSeq(q, LAMBDA x : Better(s, l.price, x.price))
    PROVE  /\ k \in 0..Len(q)
           /\ k = 0 => \A i \in 1..Len(q) : ~Better(s, l.price, q[i].price)
           /\ k # 0 => /\ Better(s, l.price, q[k].price)
                       /\ \A i \in 1..k - 1 : ~Better(s, l.price, q[i].price)
<1> DEFINE I == {i \in 1..Len(q) : Better(s, l.price, q[i].price)}
<1>1. k = IF I # {} THEN Min(I) ELSE 0
  BY DEF SelectInSeq
<1>2. Len(q) \in Nat /\ I \in SUBSET (1..Len(q))
  OBVIOUS
<1>3. \A i \in 1..Len(q) : i \in I <=> Better(s, l.price, q[i].price)
  OBVIOUS
<1> HIDE DEF I
<1>4. /\ k \in 0..Len(q)
      /\ k = 0 => I = {}
      /\ k # 0 => /\ k \in I /\ k \in 1..Len(q)
                  /\ \A i \in 1..k - 1 : i \notin I /\ i \in 1..Len(q)
  BY <1>1, <1>2, Search
<1> QED
  BY <1>3, <1>4

\* The search of update_level() finds the level of a price.
LEMMA PriceFound ==
    ASSUME NEW q \in Seq(LevelRecords), NEW p,
           NEW k, k = SelectInSeq(q, LAMBDA x : x.price = p)
    PROVE  /\ k \in 0..Len(q)
           /\ k = 0 => \A i \in 1..Len(q) : q[i].price # p
           /\ k # 0 => q[k].price = p
<1> DEFINE I == {i \in 1..Len(q) : q[i].price = p}
<1>1. k = IF I # {} THEN Min(I) ELSE 0
  BY DEF SelectInSeq
<1>2. Len(q) \in Nat /\ I \in SUBSET (1..Len(q))
  OBVIOUS
<1>3. \A i \in 1..Len(q) : i \in I <=> q[i].price = p
  OBVIOUS
<1> HIDE DEF I
<1>4. /\ k \in 0..Len(q)
      /\ k = 0 => I = {}
      /\ k # 0 => k \in I /\ k \in 1..Len(q)
  BY <1>1, <1>2, Search
<1> QED
  BY <1>3, <1>4

\* A level of a new price goes where it keeps the order.
LEMMA InsertRanked ==
    ASSUME NEW s, NEW q \in Seq(LevelRecords), Ranked(s, q), NEW l \in LevelRecords,
           \A i \in DOMAIN q : q[i].price # l.price
    PROVE  /\ Insert(s, q, l) \in Seq(LevelRecords)
           /\ Ranked(s, Insert(s, q, l))
           /\ ToSet(Insert(s, q, l)) = ToSet(q) \union {l}
<1> DEFINE n == Len(q)
           worse == SelectInSeq(q, LAMBDA x : Better(s, l.price, x.price))
           k == IF worse = 0 THEN n + 1 ELSE worse
           r == InsertAt(q, k, l)
<1>1. Insert(s, q, l) = r
  BY DEF Insert
<1>2. n \in Nat /\ DOMAIN q = 1..n /\ \A i \in 1..n : q[i] \in LevelRecords
  BY Places
<1>3. /\ worse \in 0..n
      /\ worse = 0 => \A i \in 1..n : ~Better(s, l.price, q[i].price)
      /\ worse # 0 => /\ Better(s, l.price, q[worse].price)
                      /\ \A i \in 1..worse - 1 : ~Better(s, l.price, q[i].price)
  BY WorseFound
<1> HIDE DEF worse
<1>4. /\ k \in 1..n + 1
      /\ \A i \in 1..k - 1 : ~Better(s, l.price, q[i].price)
      /\ k # n + 1 => Better(s, l.price, q[k].price)
  BY <1>2, <1>3
<1> HIDE DEF k
<1>5. /\ r \in Seq(LevelRecords) /\ Len(r) = n + 1
      /\ \A i \in 1..n + 1 : r[i] = IF i < k THEN q[i] ELSE IF i = k THEN l ELSE q[i - 1]
  BY <1>4, InsertAtPlaces
<1> HIDE DEF r
<1>6. DOMAIN r = 1..n + 1
  BY <1>5
<1>7. \A i \in 1..n : q[i].price \in Nat /\ l.price \in Nat /\ q[i].price # l.price
  BY <1>2, PriceTypes
<1>8. \A i \in 1..k - 1 : Better(s, q[i].price, l.price)
  <2> TAKE i \in 1..k - 1
  <2>1. i \in 1..n
    BY <1>2, <1>4
  <2>2. q[i].price \in Nat /\ l.price \in Nat /\ q[i].price # l.price
    BY <1>7, <2>1
  <2>3. ~Better(s, l.price, q[i].price)
    BY <1>4
  <2> QED
    BY <2>2, <2>3, BetterIsOrder
<1>9. \A i \in k..n : Better(s, l.price, q[i].price)
  <2> TAKE i \in k..n
  <2>1. k \in 1..n /\ Better(s, l.price, q[k].price) /\ i \in 1..n
    BY <1>2, <1>4
  <2>2. CASE i = k
    BY <2>1, <2>2
  <2>3. CASE i > k
    <3>1. Better(s, q[k].price, q[i].price)
      BY <1>2, <2>1, <2>3 DEF Ranked
    <3> QED
      BY <1>7, <2>1, <3>1, BetterIsOrder
  <2> QED
    BY <1>2, <2>1, <2>2, <2>3
<1>10. Ranked(s, r)
  <2> SUFFICES ASSUME NEW i \in 1..n + 1, NEW j \in 1..n + 1, i < j
               PROVE  Better(s, r[i].price, r[j].price)
    BY <1>6 DEF Ranked
  <2>0. i \in Nat /\ j \in Nat /\ k \in Nat
    BY <1>2, <1>4
  <2>1. CASE j < k
    <3>1. r[i] = q[i] /\ r[j] = q[j] /\ i \in DOMAIN q /\ j \in DOMAIN q
      BY <1>2, <1>4, <1>5, <2>0, <2>1
    <3> QED
      BY <3>1 DEF Ranked
  <2>2. CASE j = k
    <3>1. r[i] = q[i] /\ r[j] = l /\ i \in 1..k - 1
      BY <1>2, <1>4, <1>5, <2>0, <2>2
    <3> QED
      BY <3>1, <1>8
  <2>3. CASE j > k /\ i < k
    <3>1. r[i] = q[i] /\ r[j] = q[j - 1] /\ i \in DOMAIN q /\ j - 1 \in DOMAIN q /\ i < j - 1
      BY <1>2, <1>4, <1>5, <2>0, <2>3
    <3> QED
      BY <3>1 DEF Ranked
  <2>4. CASE j > k /\ i = k
    <3>1. r[i] = l /\ r[j] = q[j - 1] /\ j - 1 \in k..n
      BY <1>2, <1>4, <1>5, <2>0, <2>4
    <3> QED
      BY <3>1, <1>9
  <2>5. CASE j > k /\ i > k
    <3>1. /\ r[i] = q[i - 1] /\ r[j] = q[j - 1] /\ i - 1 \in DOMAIN q /\ j - 1 \in DOMAIN q
          /\ i - 1 < j - 1
      BY <1>2, <1>4, <1>5, <2>0, <2>5
    <3> QED
      BY <3>1 DEF Ranked
  <2> QED
    BY <2>0, <2>1, <2>2, <2>3, <2>4, <2>5
<1>11. ToSet(r) = ToSet(q) \union {l}
  <2>1. \A i \in 1..n + 1 : r[i] \in ToSet(q) \union {l}
    <3> TAKE i \in 1..n + 1
    <3>1. i = k \/ i < k \/ i > k
      BY <1>2, <1>4
    <3>2. i < k => r[i] = q[i] /\ i \in 1..n
      BY <1>2, <1>4, <1>5
    <3>3. i > k => r[i] = q[i - 1] /\ i - 1 \in 1..n
      BY <1>2, <1>4, <1>5
    <3>4. i = k => r[i] = l
      BY <1>2, <1>4, <1>5
    <3> QED
      BY <1>2, <3>1, <3>2, <3>3, <3>4, SetOf
  <2>2. \A i \in 1..n : \E j \in 1..n + 1 : r[j] = q[i]
    <3> TAKE i \in 1..n
    <3>1. CASE i < k
      BY <1>2, <1>4, <1>5, <3>1
    <3>2. CASE i >= k
      <4>1. i + 1 \in 1..n + 1 /\ i + 1 > k /\ (i + 1) - 1 = i
        BY <1>2, <1>4, <3>2
      <4>2. r[i + 1] = q[i]
        BY <1>2, <1>4, <1>5, <4>1
      <4> QED
        BY <4>1, <4>2
    <3> QED
      BY <1>2, <1>4, <3>1, <3>2
  <2>3. k \in 1..n + 1 /\ r[k] = l
    BY <1>2, <1>4, <1>5
  <2> QED
    BY <1>2, <1>6, <2>1, <2>2, <2>3, SetOf
<1> QED
  BY <1>1, <1>5, <1>10, <1>11

\* A side without one of its levels.
LEMMA RemoveRanked ==
    ASSUME NEW s, NEW q \in Seq(LevelRecords), Ranked(s, q), NEW k \in 1..Len(q)
    PROVE  /\ RemoveAt(q, k) \in Seq(LevelRecords)
           /\ Ranked(s, RemoveAt(q, k))
           /\ ToSet(RemoveAt(q, k)) = {x \in ToSet(q) : x.price # q[k].price}
<1> DEFINE n == Len(q)
           r == RemoveAt(q, k)
           at(i) == IF i < k THEN i ELSE i + 1
<1>1. RemoveAt(q, k) = r
  OBVIOUS
<1>2. n \in Nat /\ DOMAIN q = 1..n /\ k \in 1..n /\ \A i \in 1..n : q[i] \in LevelRecords
  BY Places
<1>5. /\ r \in Seq(LevelRecords) /\ Len(r) = n - 1
      /\ \A i \in 1..n - 1 : r[i] = IF i < k THEN q[i] ELSE q[i + 1]
  BY RemoveAtPlaces
<1> HIDE DEF r
<1>6. DOMAIN r = 1..n - 1
  BY <1>2, <1>5
<1>7. /\ \A i \in 1..n - 1 : r[i] = q[at(i)] /\ at(i) \in DOMAIN q /\ at(i) # k
      /\ \A i, j \in 1..n - 1 : i < j => at(i) < at(j)
  BY <1>2, <1>5
<1> HIDE DEF at
<1>8. Ranked(s, r)
  BY <1>6, <1>7 DEF Ranked
<1>9. \A i \in 1..n : i # k => q[i].price # q[k].price
  <2> TAKE i \in 1..n
  <2> HAVE i # k
  <2>1. Better(s, q[i].price, q[k].price) \/ Better(s, q[k].price, q[i].price)
    BY <1>2 DEF Ranked
  <2> QED
    BY <1>2, <2>1, PriceTypes, BetterIsOrder
<1>10. \A i \in 1..n : i # k => \E j \in 1..n - 1 : r[j] = q[i]
  <2> TAKE i \in 1..n
  <2> HAVE i # k
  <2>1. CASE i < k
    BY <1>2, <1>5, <2>1
  <2>2. CASE i > k
    <3>1. i - 1 \in 1..n - 1 /\ ~(i - 1 < k) /\ (i - 1) + 1 = i
      BY <1>2, <2>2
    <3>2. r[i - 1] = q[i]
      BY <1>5, <3>1
    <3> QED
      BY <3>1, <3>2
  <2> QED
    BY <1>2, <2>1, <2>2
<1>11. \A i \in 1..n - 1 : \E j \in 1..n : j # k /\ r[i] = q[j]
  BY <1>2, <1>7
<1>12. ToSet(r) = {x \in ToSet(q) : x.price # q[k].price}
  <2> DEFINE rest == {x \in ToSet(q) : x.price # q[k].price}
  <2>1. \A i \in 1..n - 1 : r[i] \in rest
    BY <1>2, <1>9, <1>11, SetOf
  <2>2. \A x \in rest : \E i \in 1..n : i # k /\ x = q[i]
    BY <1>2, SetOf
  <2>3. \A x \in rest : \E i \in 1..n - 1 : x = r[i]
    <3> TAKE x \in rest
    <3>1. PICK i \in 1..n : i # k /\ x = q[i]
      BY <2>2
    <3> QED
      BY <1>10, <3>1
  <2> HIDE DEF rest
  <2>4. ToSet(r) = rest
    BY <1>6, <2>1, <2>3, SetOf
  <2> QED
    BY <2>4 DEF rest
<1> HIDE DEF r
<1> QED
  BY <1>1, <1>5, <1>8, <1>12

\* A side with another size at one of its prices.
LEMMA ReplaceRanked ==
    ASSUME NEW s, NEW q \in Seq(LevelRecords), Ranked(s, q), NEW k \in 1..Len(q),
           NEW l \in LevelRecords, l.price = q[k].price
    PROVE  /\ ReplaceAt(q, k, l) \in Seq(LevelRecords)
           /\ Ranked(s, ReplaceAt(q, k, l))
           /\ ToSet(ReplaceAt(q, k, l)) = {x \in ToSet(q) : x.price # l.price} \union {l}
<1> DEFINE n == Len(q)
           r == ReplaceAt(q, k, l)
<1>1. ReplaceAt(q, k, l) = r
  OBVIOUS
<1>2. n \in Nat /\ DOMAIN q = 1..n /\ k \in 1..n /\ \A i \in 1..n : q[i] \in LevelRecords
  BY Places
<1>3. r = [q EXCEPT ![k] = l]
  BY DEF ReplaceAt
<1>5. /\ r \in Seq(LevelRecords) /\ DOMAIN r = 1..n
      /\ \A i \in 1..n : r[i] = IF i = k THEN l ELSE q[i]
  BY <1>2, <1>3
<1> HIDE DEF r
<1>7. \A i \in 1..n : r[i].price = q[i].price
  BY <1>2, <1>5
<1>8. Ranked(s, r)
  BY <1>2, <1>5, <1>7 DEF Ranked
<1>9. \A i \in 1..n : i # k => q[i].price # q[k].price
  <2> TAKE i \in 1..n
  <2> HAVE i # k
  <2>1. Better(s, q[i].price, q[k].price) \/ Better(s, q[k].price, q[i].price)
    BY <1>2 DEF Ranked
  <2> QED
    BY <1>2, <2>1, PriceTypes, BetterIsOrder
<1>10. ToSet(r) = {x \in ToSet(q) : x.price # l.price} \union {l}
  <2> DEFINE rest == {x \in ToSet(q) : x.price # l.price}
  <2>1. \A i \in 1..n : r[i] \in rest \union {l}
    BY <1>2, <1>5, <1>9, SetOf
  <2>2. \A x \in rest : \E i \in 1..n : i # k /\ x = q[i]
    BY <1>2, SetOf
  <2>3. \A x \in rest : \E i \in 1..n : x = r[i]
    BY <1>5, <2>2
  <2>4. l = r[k]
    BY <1>2, <1>5
  <2> HIDE DEF rest
  <2>5. ToSet(r) = rest \union {l}
    BY <1>2, <1>5, <2>1, <2>3, <2>4, SetOf
  <2> QED
    BY <2>5 DEF rest
<1> QED
  BY <1>1, <1>5, <1>8, <1>10

-----------------------------------------------------------------------------
(* What a message makes of the levels of a side *)

\* A set of levels in which price p has size n, 0 for none.
Changed(T, p, n) ==
    {x \in T : x.price # p} \union (IF n = 0 THEN {} ELSE {[price |-> p, size |-> n]})

\* update_level() changes one price and keeps the order.
LEMMA UpdatedRanked ==
    ASSUME NEW s, NEW q \in Seq(LevelRecords), Ranked(s, q),
           NEW p \in BookPrices, NEW n \in BookSizes \union {0},
           NEW l, l = [price |-> p, size |-> n]
    PROVE  /\ Updated(s, q, l) \in Seq(LevelRecords)
           /\ Ranked(s, Updated(s, q, l))
           /\ ToSet(Updated(s, q, l)) = Changed(ToSet(q), p, n)
<1> DEFINE at == SelectInSeq(q, LAMBDA x : x.price = p)
<1>1. /\ at \in 0..Len(q)
      /\ at = 0 => \A i \in 1..Len(q) : q[i].price # p
      /\ at # 0 => q[at].price = p
  BY PriceFound
<1>2. /\ Len(q) \in Nat /\ DOMAIN q = 1..Len(q)
      /\ l.price = p /\ l.size = n
      /\ n \in Nat /\ (n # 0 => l \in LevelRecords)
  BY Places, PriceTypes DEF LevelRecords
<1>3. Updated(s, q, l) = CASE n = 0 /\ at > 0 -> RemoveAt(q, at)
                           [] n = 0 /\ at = 0 -> q
                           [] n > 0 /\ at > 0 -> ReplaceAt(q, at, l)
                           [] OTHER           -> Insert(s, q, l)
  BY <1>2 DEF Updated
<1> HIDE DEF at
<1>4. CASE n = 0 /\ at > 0
  <2>1. Updated(s, q, l) = RemoveAt(q, at) /\ at \in 1..Len(q) /\ q[at].price = p
    BY <1>1, <1>2, <1>3, <1>4
  <2>2. Changed(ToSet(q), p, n) = {x \in ToSet(q) : x.price # q[at].price}
    BY <1>4, <2>1 DEF Changed
  <2> QED
    BY <2>1, <2>2, RemoveRanked
<1>5. CASE n = 0 /\ at = 0
  <2>1. Updated(s, q, l) = q
    BY <1>3, <1>5
  <2>2. \A x \in ToSet(q) : x.price # p
    BY <1>1, <1>2, <1>5, SetOf
  <2>3. Changed(ToSet(q), p, n) = ToSet(q)
    BY <1>5, <2>2 DEF Changed
  <2> QED
    BY <2>1, <2>3
<1>6. CASE n > 0 /\ at > 0
  <2>1. Updated(s, q, l) = ReplaceAt(q, at, l) /\ at \in 1..Len(q) /\ l.price = q[at].price
    BY <1>1, <1>2, <1>3, <1>6
  <2>2. Changed(ToSet(q), p, n) = {x \in ToSet(q) : x.price # l.price} \union {l}
    BY <1>2, <1>6 DEF Changed
  <2>3. l \in LevelRecords
    BY <1>2, <1>6
  <2> QED
    BY <2>1, <2>2, <2>3, ReplaceRanked
<1>7. CASE n > 0 /\ at = 0
  <2>1. Updated(s, q, l) = Insert(s, q, l) /\ \A i \in DOMAIN q : q[i].price # l.price
    BY <1>1, <1>2, <1>3, <1>7
  <2>2. \A x \in ToSet(q) : x.price # p
    BY <1>1, <1>2, <1>7, SetOf
  <2>3. Changed(ToSet(q), p, n) = ToSet(q) \union {l}
    BY <1>2, <1>7, <2>2 DEF Changed
  <2>4. l \in LevelRecords
    BY <1>2, <1>7
  <2> QED
    BY <2>1, <2>3, <2>4, InsertRanked
<1> QED
  BY <1>1, <1>2, <1>4, <1>5, <1>6, <1>7

\* A finite set of levels with different prices can be ranked: one at a time.
LEMMA RankingExists ==
    ASSUME NEW s, NEW T \in SUBSET LevelRecords, IsFiniteSet(T), Distinct(T)
    PROVE  \E q \in Seq(LevelRecords) : Ranked(s, q) /\ ToSet(q) = T
<1> DEFINE Good(S) == \E q \in Seq(LevelRecords) : Ranked(s, q) /\ ToSet(q) = S
           Small(n) == \A S \in SUBSET LevelRecords :
                        IsFiniteSet(S) /\ Distinct(S) /\ Cardinality(S) = n => Good(S)
           N == {n \in Nat : Small(n)}
<1>1. Small(0)
  <2> SUFFICES ASSUME NEW S \in SUBSET LevelRecords, IsFiniteSet(S), Cardinality(S) = 0
               PROVE  Good(S)
    OBVIOUS
  <2>1. S = {}
    BY FS_EmptySet
  <2>2. <<>> \in Seq(LevelRecords) /\ DOMAIN <<>> = {}
    OBVIOUS
  <2>3. Ranked(s, <<>>) /\ ToSet(<<>>) = {}
    BY <2>2, SetOf DEF Ranked
  <2> QED
    BY <2>1, <2>2, <2>3
<1>2. ASSUME NEW n \in Nat, Small(n) PROVE Small(n + 1)
  <2> SUFFICES ASSUME NEW S \in SUBSET LevelRecords, IsFiniteSet(S), Distinct(S),
                      Cardinality(S) = n + 1
               PROVE  Good(S)
    OBVIOUS
  <2>1. PICK l \in S : TRUE
    BY NotEmpty
  <2> DEFINE R == S \ {l}
  <2>2. IsFiniteSet(R) /\ Cardinality(R) = n
    <3>1. IsFiniteSet(R)
      BY FS_RemoveElement
    <3>2. Cardinality(R) = Cardinality(S) - 1
      BY <2>1, RemoveOne
    <3> QED
      BY <3>1, <3>2
  <2>3. R \in SUBSET LevelRecords /\ Distinct(R) /\ l \in LevelRecords
    BY DEF Distinct
  <2>4. Good(R)
    BY <1>2, <2>2, <2>3
  <2>5. PICK q \in Seq(LevelRecords) : Ranked(s, q) /\ ToSet(q) = R
    BY <2>4
  <2>6. \A x \in R : x.price # l.price
    BY DEF Distinct
  <2>7. \A i \in DOMAIN q : q[i].price # l.price
    BY <2>5, <2>6, SetOf
  <2>8. /\ Insert(s, q, l) \in Seq(LevelRecords) /\ Ranked(s, Insert(s, q, l))
        /\ ToSet(Insert(s, q, l)) = R \union {l}
    BY <2>3, <2>5, <2>7, InsertRanked
  <2> QED
    BY <2>8
<1> HIDE DEF Small
<1>3. N = Nat
  <2>1. N \subseteq Nat /\ 0 \in N
    BY <1>1
  <2>2. \A n \in N : n + 1 \in N
    BY <1>2
  <2> HIDE DEF N
  <2> QED
    BY <2>1, <2>2, SetInduction
<1>4. Cardinality(T) \in N
  BY <1>3, FS_CardinalityType
<1> QED
  BY <1>4 DEF Small

\* A sequence has finitely many elements.
LEMMA SequenceIsFinite ==
    ASSUME NEW q \in Seq(LevelRecords)
    PROVE  IsFiniteSet(ToSet(q)) /\ ToSet(q) \in SUBSET LevelRecords
<1>1. Len(q) \in Nat /\ DOMAIN q = 1..Len(q) /\ \A i \in DOMAIN q : q[i] \in LevelRecords
  BY Places
<1>2. q \in Surjection(1..Len(q), ToSet(q))
  BY <1>1, Places, SetOf DEF Surjection
<1>3. IsFiniteSet(1..Len(q))
  BY <1>1, CountTo
<1> QED
  BY <1>1, <1>2, <1>3, FS_Surjection, SetOf

\* A snapshot is sorted whatever the order of its levels.
LEMMA BestFirstRanked ==
    ASSUME NEW s, NEW levels \in Seq(LevelRecords), Distinct(ToSet(levels))
    PROVE  /\ BestFirst(s, levels) \in Seq(LevelRecords)
           /\ Ranked(s, BestFirst(s, levels))
           /\ ToSet(BestFirst(s, levels)) = ToSet(levels)
<1> DEFINE T == ToSet(levels)
<1>1. IsFiniteSet(T) /\ T \in SUBSET LevelRecords
  BY SequenceIsFinite
<1>2. PICK q \in Seq(LevelRecords) : Ranked(s, q) /\ ToSet(q) = T
  BY <1>1, RankingExists
<1>3. q \in SetToSeqs(T)
  BY <1>2, RankedSide
<1>4. BestFirst(s, levels) \in SetToSeqs(T) /\ Ranked(s, BestFirst(s, levels))
  BY <1>2, <1>3 DEF BestFirst
<1> QED
  BY <1>1, <1>4, Listing

-----------------------------------------------------------------------------
(* The exchange's levels *)

ExchangeBooks == [BookSides -> [BookPrices -> BookSizes \union {0}]]

LevelsOf(e, s) == {x \in LevelRecords : e[s][x.price] = x.size}

\* The two ways to write what the exchange's book is.
LEMMA LevelsAre ==
    ASSUME NEW e \in ExchangeBooks, NEW s \in BookSides
    PROVE  {[price |-> p, size |-> e[s][p]] : p \in {q \in BookPrices : e[s][q] > 0}}
             = LevelsOf(e, s)
<1> DEFINE L == {[price |-> p, size |-> e[s][p]] : p \in {q \in BookPrices : e[s][q] > 0}}
<1>1. \A p \in BookPrices : e[s][p] \in BookSizes \union {0}
  BY DEF ExchangeBooks
<1>2. \A n \in BookSizes \union {0} : n > 0 <=> n \in BookSizes
  BY PriceTypes
<1>3. \A x \in L : x \in LevelsOf(e, s)
  BY <1>1, <1>2 DEF LevelsOf, LevelRecords
<1>4. \A x \in LevelsOf(e, s) : x \in L
  <2> TAKE x \in LevelsOf(e, s)
  <2>1. /\ x.price \in BookPrices /\ x.size \in BookSizes /\ e[s][x.price] = x.size
        /\ x = [price |-> x.price, size |-> e[s][x.price]]
    BY DEF LevelsOf, LevelRecords
  <2> QED
    BY <1>2, <2>1
<1> QED
  BY <1>3, <1>4

\* The exchange's book is finite, one level for a price.
LEMMA LevelsFinite ==
    ASSUME NEW e \in ExchangeBooks, NEW s \in BookSides
    PROVE  /\ IsFiniteSet(LevelsOf(e, s)) /\ LevelsOf(e, s) \in SUBSET LevelRecords
           /\ Distinct(LevelsOf(e, s))
<1>1. LevelsOf(e, s) \in SUBSET LevelRecords
  BY DEF LevelsOf
<1>2. \A x \in LevelsOf(e, s) : /\ x.price \in BookPrices
                                /\ x = [price |-> x.price, size |-> e[s][x.price]]
  BY DEF LevelsOf, LevelRecords
<1>3. Distinct(LevelsOf(e, s))
  BY <1>2 DEF Distinct
<1> DEFINE f == [x \in LevelsOf(e, s) |-> x.price]
<1>4. f \in Injection(LevelsOf(e, s), BookPrices)
  BY <1>2, <1>3 DEF Injection, IsInjective, Distinct
<1> HIDE DEF f
<1>5. IsFiniteSet(LevelsOf(e, s))
  BY <1>4, PriceTypes, FS_Injection
<1> QED
  BY <1>1, <1>3, <1>5

\* A change of the exchange's book changes one level of one side.
LEMMA LevelsChange ==
    ASSUME NEW e \in ExchangeBooks, NEW s \in BookSides, NEW t \in BookSides,
           NEW p \in BookPrices, NEW n \in BookSizes \union {0},
           NEW d,
           \A q \in BookPrices : d[t][q] = IF t = s /\ q = p THEN n ELSE e[t][q]
    PROVE  LevelsOf(d, t) =
                IF t = s THEN Changed(LevelsOf(e, t), p, n) ELSE LevelsOf(e, t)
<1>2. \A q \in BookPrices : d[t][q] = IF t = s /\ q = p THEN n ELSE e[t][q]
  OBVIOUS
<1>3. CASE t # s
  <2>1. \A x \in LevelRecords : d[t][x.price] = e[t][x.price]
    BY <1>2, <1>3, PriceTypes
  <2> QED
    BY <1>3, <2>1 DEF LevelsOf
<1>4. CASE t = s
  <2>1. \A x \in LevelRecords : x.price # p => d[t][x.price] = e[t][x.price]
    BY <1>2, PriceTypes
  <2>2. \A x \in LevelRecords : x.price = p => d[t][x.price] = n
    BY <1>2, <1>4, PriceTypes
  <2>3. \A x \in LevelRecords : x.size # 0 /\ x = [price |-> x.price, size |-> x.size]
    BY PriceTypes DEF LevelRecords
  <2>4. n # 0 => [price |-> p, size |-> n] \in LevelRecords
    BY DEF LevelRecords
  <2>5. \A x : x \in LevelsOf(d, t) <=> x \in Changed(LevelsOf(e, t), p, n)
    <3> TAKE x
    <3>1. CASE x \in LevelRecords /\ x.price # p
      BY <2>1, <3>1 DEF LevelsOf, Changed
    <3>2. CASE x \in LevelRecords /\ x.price = p
      BY <2>2, <2>3, <3>2 DEF LevelsOf, Changed
    <3>3. CASE x \notin LevelRecords
      BY <2>4, <3>3 DEF LevelsOf, Changed
    <3> QED
      BY <3>1, <3>2, <3>3
  <2>6. LevelsOf(d, t) = Changed(LevelsOf(e, t), p, n)
    BY <2>5
  <2> QED
    BY <1>4, <2>6
<1> QED
  BY <1>3, <1>4

-----------------------------------------------------------------------------
(* The invariant *)

\* Levels as the SDK delivers them: in any order, one for a price.
Deliveries == {q \in Seq(LevelRecords) : Distinct(ToSet(q))}

Messages ==
    [kind : {"book"}, bids : Deliveries, asks : Deliveries] \union
    [kind : {"level"}, side : BookSides, price : BookPrices, size : BookSizes \union {0}]

\* What message m makes of the levels T of a side.
Effect(T, m, s) ==
    IF m.kind = "book" THEN ToSet(m[s])
    ELSE IF m.side = s THEN Changed(T, m.price, m.size) ELSE T

BookTypeOK ==
    /\ exchange \in ExchangeBooks
    /\ stream \in {"down", "up", "live"}
    /\ unread \in Seq(Messages)
    /\ book \in [BookSides -> Seq(LevelRecords)]

BooksRanked == \A s \in BookSides : Ranked(s, book[s])

\* h is what the levels of side s are, now and after each of the unread messages.
Replay(h, s) ==
    /\ h \in Seq(SUBSET LevelRecords) /\ Len(h) = Len(unread) + 1
    /\ h[1] = ToSet(book[s])
    /\ \A i \in 1..Len(unread) : h[i + 1] = Effect(h[i], unread[i], s)
    /\ stream = "live" => h[Len(unread) + 1] = LevelsOf(exchange, s)

\* Handling what is unread leads to the exchange's book.
ReplayAgrees == \A s \in BookSides : \E h : Replay(h, s)

BookIInv == BookTypeOK /\ BooksRanked /\ ReplayAgrees

\* What is in a message.
LEMMA MessageTypes ==
    ASSUME NEW m \in Messages
    PROVE  \/ /\ m.kind = "book"
              /\ \A s \in BookSides : m[s] \in Seq(LevelRecords) /\ Distinct(ToSet(m[s]))
           \/ /\ m.kind = "level" /\ m.side \in BookSides /\ m.price \in BookPrices
              /\ m.size \in BookSizes \union {0}
<1>1. CASE m \in [kind : {"book"}, bids : Deliveries, asks : Deliveries]
  <2>1. m.kind = "book" /\ m["bids"] \in Deliveries /\ m["asks"] \in Deliveries
    BY <1>1
  <2> QED
    BY <2>1 DEF BookSides, Deliveries
<1>2. CASE m \in [kind : {"level"}, side : BookSides, price : BookPrices,
                  size : BookSizes \union {0}]
  BY <1>2
<1> QED
  BY <1>1, <1>2 DEF Messages

\* A message makes levels of levels.
LEMMA EffectType ==
    ASSUME NEW T \in SUBSET LevelRecords, NEW m \in Messages, NEW s \in BookSides
    PROVE  Effect(T, m, s) \in SUBSET LevelRecords
<1>1. CASE m.kind = "book"
  BY <1>1, MessageTypes, SequenceIsFinite DEF Effect
<1>2. CASE m.kind # "book"
  <2>1. m.price \in BookPrices /\ m.size \in BookSizes \union {0}
    BY <1>2, MessageTypes
  <2>2. Changed(T, m.price, m.size) \in SUBSET LevelRecords
    BY <2>1 DEF Changed, LevelRecords
  <2> QED
    BY <1>2, <2>2 DEF Effect
<1> QED
  BY <1>1, <1>2

\* A message that was sent adds its effect at the end.
LEMMA SendExtends ==
    ASSUME BookTypeOK, ReplayAgrees, NEW m \in Messages, Send(m), book' = book,
           stream' = "live" => \A s \in BookSides :
               \A T \in SUBSET LevelRecords :
                   (stream = "live" => T = LevelsOf(exchange, s))
                        => Effect(T, m, s) = LevelsOf(exchange', s)
    PROVE  unread' \in Seq(Messages) /\ ReplayAgrees'
<1>1. /\ unread \in Seq(Messages) /\ Len(unread) \in Nat
      /\ unread' = Append(unread, m) /\ unread' \in Seq(Messages)
  BY DEF BookTypeOK, Send
<1>2. /\ Len(unread') = Len(unread) + 1 /\ unread'[Len(unread) + 1] = m
      /\ \A i \in 1..Len(unread) : unread'[i] = unread[i]
  BY <1>1
<1>3. ASSUME NEW s \in BookSides PROVE \E h : Replay(h, s)'
  <2>1. PICK g : Replay(g, s)
    BY DEF ReplayAgrees
  <2> DEFINE n == Len(unread)
             e == Effect(g[n + 1], m, s)
  <2>2. /\ n \in Nat /\ g \in Seq(SUBSET LevelRecords) /\ Len(g) = n + 1
        /\ g[n + 1] \in SUBSET LevelRecords /\ g[1] = ToSet(book[s])
        /\ \A i \in 1..n : g[i + 1] = Effect(g[i], unread[i], s)
        /\ stream = "live" => g[n + 1] = LevelsOf(exchange, s)
    <3>1. n \in Nat /\ g \in Seq(SUBSET LevelRecords) /\ Len(g) = n + 1
      BY <1>1, <2>1 DEF Replay
    <3>2. n + 1 \in 1..Len(g)
      BY <3>1
    <3> QED
      BY <2>1, <3>1, <3>2 DEF Replay
  <2>3. e \in SUBSET LevelRecords
    BY <2>2, EffectType
  <2> HIDE DEF e
  <2>3a. PICK h : h = Append(g, e)
    OBVIOUS
  <2>4. /\ h \in Seq(SUBSET LevelRecords) /\ Len(h) = n + 2 /\ h[n + 2] = e
        /\ \A i \in 1..n + 1 : h[i] = g[i]
    BY <2>2, <2>3, <2>3a
  <2>5. h[1] = ToSet(book'[s])
    BY <2>2, <2>4
  <2>6. \A i \in 1..n + 1 : h[i + 1] = Effect(h[i], unread'[i], s)
    <3> TAKE i \in 1..n + 1
    <3>1. CASE i = n + 1
      <4>1. h[i + 1] = e /\ h[i] = g[n + 1] /\ unread'[i] = m
        BY <1>2, <2>2, <2>4, <3>1
      <4> QED
        BY <4>1 DEF e
    <3>2. CASE i \in 1..n
      <4>1. h[i + 1] = g[i + 1] /\ h[i] = g[i] /\ unread'[i] = unread[i]
        BY <1>2, <2>2, <2>4, <3>2
      <4> QED
        BY <2>2, <3>2, <4>1
    <3> QED
      BY <2>2, <3>1, <3>2
  <2>7. stream' = "live" => e = LevelsOf(exchange', s)
    BY <2>2 DEF e
  <2>8. Len(unread') = n + 1 /\ Len(h) = Len(unread') + 1 /\ Len(unread') + 1 = n + 2
    BY <1>2, <2>2, <2>4
  <2>9. /\ \A i \in 1..Len(unread') : h[i + 1] = Effect(h[i], unread'[i], s)
        /\ stream' = "live" => h[Len(unread') + 1] = LevelsOf(exchange', s)
    BY <2>4, <2>6, <2>7, <2>8
  <2> HIDE DEF n
  <2>10. Replay(h, s)'
    BY <2>4, <2>5, <2>8, <2>9 DEF Replay
  <2> QED
    BY <2>10
<1> QED
  BY <1>1, <1>3 DEF ReplayAgrees

\* Nothing was sent or handled: only whether the stream is live may change.
LEMMA NothingSent ==
    ASSUME ReplayAgrees, unread' = unread, book' = book,
           stream' = "live" => stream = "live" /\ exchange' = exchange
    PROVE  ReplayAgrees'
<1>1. ASSUME NEW s \in BookSides PROVE \E h : Replay(h, s)'
  <2>1. PICK h : Replay(h, s)
    BY DEF ReplayAgrees
  <2>2. Replay(h, s)'
    BY <2>1 DEF Replay
  <2> QED
    BY <2>2
<1> QED
  BY <1>1 DEF ReplayAgrees

\* The first unread message has the effect the replay says.
LEMMA HandledSide ==
    ASSUME BookTypeOK, BooksRanked, HandleMessage, NEW s \in BookSides
    PROVE  /\ Head(unread) \in Messages
           /\ book' \in [BookSides -> Seq(LevelRecords)]
           /\ Ranked(s, book'[s])
           /\ ToSet(book'[s]) = Effect(ToSet(book[s]), Head(unread), s)
<1> DEFINE m == Head(unread)
<1>1. m \in Messages
  BY DEF BookTypeOK, HandleMessage
<1> HIDE DEF m
<1>2. /\ book \in [BookSides -> Seq(LevelRecords)]
      /\ \A t \in BookSides : book[t] \in Seq(LevelRecords) /\ Ranked(t, book[t])
  BY DEF BookTypeOK, BooksRanked
<1>3. CASE UpdateBook(m)
  <2>1. /\ m.kind = "book"
        /\ \A t \in BookSides : m[t] \in Seq(LevelRecords) /\ Distinct(ToSet(m[t]))
    BY <1>1, <1>3, MessageTypes DEF UpdateBook
  <2>2. \A t \in BookSides : /\ BestFirst(t, m[t]) \in Seq(LevelRecords)
                             /\ Ranked(t, BestFirst(t, m[t]))
                             /\ ToSet(BestFirst(t, m[t])) = ToSet(m[t])
    BY <2>1, BestFirstRanked
  <2>3. book' = [t \in BookSides |-> BestFirst(t, m[t])]
    BY <1>3 DEF UpdateBook
  <2>4. book'[s] = BestFirst(s, m[s]) /\ book' \in [BookSides -> Seq(LevelRecords)]
    BY <2>2, <2>3
  <2> QED
    BY <1>1, <2>1, <2>2, <2>4 DEF Effect, m
<1>4. CASE UpdateLevel(m)
  <2>1. /\ m.kind = "level" /\ m.side \in BookSides /\ m.price \in BookPrices
        /\ m.size \in BookSizes \union {0}
    BY <1>1, <1>4, MessageTypes DEF UpdateLevel
  <2> DEFINE l == [price |-> m.price, size |-> m.size]
             u == Updated(m.side, book[m.side], l)
  <2>2. /\ u \in Seq(LevelRecords) /\ Ranked(m.side, u)
        /\ ToSet(u) = Changed(ToSet(book[m.side]), m.price, m.size)
    BY <1>2, <2>1, UpdatedRanked
  <2>3. book' = [book EXCEPT ![m.side] = u]
    BY <1>4 DEF UpdateLevel
  <2> HIDE DEF u
  <2>4. /\ book' \in [BookSides -> Seq(LevelRecords)]
        /\ book'[s] = IF s = m.side THEN u ELSE book[s]
    BY <1>2, <2>1, <2>2, <2>3
  <2>5. Effect(ToSet(book[s]), m, s) =
            IF s = m.side THEN Changed(ToSet(book[s]), m.price, m.size) ELSE ToSet(book[s])
    BY <2>1 DEF Effect
  <2> QED
    BY <1>1, <1>2, <2>2, <2>4, <2>5 DEF m
<1> QED
  BY <1>3, <1>4 DEF HandleMessage, m

\* Handling a message takes one step of the replay.
LEMMA HandledKeeps ==
    ASSUME BookIInv, HandleMessage
    PROVE  BookIInv'
<1>1. /\ unread \in Seq(Messages) /\ unread # <<>> /\ unread' = Tail(unread)
      /\ exchange' = exchange /\ stream' = stream
      /\ BookTypeOK /\ BooksRanked /\ ReplayAgrees
  BY DEF BookIInv, BookTypeOK, HandleMessage
<1> DEFINE n == Len(unread)
<1>2. /\ n \in Nat /\ n > 0 /\ Len(unread') = n - 1 /\ unread' \in Seq(Messages)
      /\ Head(unread) = unread[1]
      /\ \A i \in 1..n - 1 : unread'[i] = unread[i + 1]
  BY <1>1
<1>3. BookTypeOK' /\ BooksRanked'
  <2>1. "bids" \in BookSides
    BY DEF BookSides
  <2>2. book' \in [BookSides -> Seq(LevelRecords)] /\ \A s \in BookSides : Ranked(s, book'[s])
    BY <1>1, <2>1, HandledSide
  <2> QED
    BY <1>1, <1>2, <2>2 DEF BookTypeOK, BooksRanked
<1>4. ASSUME NEW s \in BookSides PROVE \E h : Replay(h, s)'
  <2>1. PICK g : Replay(g, s)
    BY <1>1 DEF ReplayAgrees
  <2>2. /\ g \in Seq(SUBSET LevelRecords) /\ Len(g) = n + 1 /\ g[1] = ToSet(book[s])
        /\ \A i \in 1..n : g[i + 1] = Effect(g[i], unread[i], s)
        /\ stream = "live" => g[n + 1] = LevelsOf(exchange, s)
    BY <2>1 DEF Replay
  <2> DEFINE h == Tail(g)
  <2>3. /\ h \in Seq(SUBSET LevelRecords) /\ Len(h) = n
        /\ \A i \in 1..n : h[i] = g[i + 1]
    BY <1>2, <2>2
  <2> HIDE DEF h
  <2>4. h[1] = ToSet(book'[s])
    <3>1. ToSet(book'[s]) = Effect(g[1], unread[1], s)
      BY <1>1, <1>2, <2>2, HandledSide
    <3>2. 1 \in 1..n /\ g[1 + 1] = Effect(g[1], unread[1], s) /\ h[1] = g[1 + 1]
      BY <1>2, <2>2, <2>3
    <3> QED
      BY <3>1, <3>2
  <2>5. \A i \in 1..n - 1 : h[i + 1] = Effect(h[i], unread'[i], s)
    <3> TAKE i \in 1..n - 1
    <3>1. i \in 1..n /\ i + 1 \in 1..n
      BY <1>2
    <3>2. h[i + 1] = g[(i + 1) + 1] /\ h[i] = g[i + 1] /\ unread'[i] = unread[i + 1]
      BY <1>2, <2>3, <3>1
    <3> QED
      BY <2>2, <3>1, <3>2
  <2>6. stream' = "live" => h[n] = LevelsOf(exchange', s)
    <3>1. n \in 1..n
      BY <1>2
    <3> QED
      BY <1>1, <2>2, <2>3, <3>1
  <2>7. Len(unread') = n - 1 /\ Len(h) = Len(unread') + 1 /\ Len(unread') + 1 = n
    BY <1>2, <2>3
  <2> HIDE DEF n
  <2>8. Replay(h, s)'
    BY <2>3, <2>4, <2>5, <2>6, <2>7 DEF Replay
  <2> QED
    BY <2>8
<1> QED
  BY <1>3, <1>4 DEF BookIInv, ReplayAgrees

\* The invariant holds: whatever is sent, lost with a channel or handled, the unread
\* messages lead from the copy to the exchange's book once a first snapshot was sent.
THEOREM BookIInvHolds == BookSpec => []BookIInv
<1>1. BookInit => BookIInv
  <2> SUFFICES ASSUME BookInit PROVE BookIInv
    OBVIOUS
  <2>1. BookTypeOK
    BY DEF BookInit, BookTypeOK, ExchangeBooks, NoLevels
  <2>2. \A s \in BookSides : book[s] = <<>>
    BY DEF BookInit, NoLevels
  <2>3. BooksRanked
    BY <2>2 DEF BooksRanked, Ranked
  <2>4. ASSUME NEW s \in BookSides PROVE \E h : Replay(h, s)
    <3>1. ToSet(book[s]) = {}
      BY <2>2, SetOf
    <3>2. Replay(<<{}>>, s)
      BY <3>1 DEF BookInit, Replay
    <3> QED
      BY <3>2
  <2> QED
    BY <2>1, <2>3, <2>4 DEF BookIInv, ReplayAgrees
<1>2. BookIInv /\ [BookNext]_bookVars => BookIInv'
  <2> SUFFICES ASSUME BookIInv, [BookNext]_bookVars PROVE BookIInv'
    OBVIOUS
  <2>0. BookTypeOK /\ BooksRanked /\ ReplayAgrees
    BY DEF BookIInv
  <2>1. ASSUME NEW s \in BookSides, NEW p \in BookPrices, NEW n \in BookSizes \union {0},
               ChangeLevel(s, p, n)
        PROVE  BookIInv'
    <3>1. /\ exchange' = [exchange EXCEPT ![s][p] = n] /\ book' = book
          /\ exchange \in ExchangeBooks
      BY <2>0, <2>1 DEF ChangeLevel, BookTypeOK
    <3>2. /\ exchange' \in ExchangeBooks
          /\ \A t \in BookSides : LevelsOf(exchange', t) =
                IF t = s THEN Changed(LevelsOf(exchange, t), p, n) ELSE LevelsOf(exchange, t)
      <4>1. /\ exchange' \in ExchangeBooks
            /\ \A t \in BookSides, q \in BookPrices :
                    exchange'[t][q] = IF t = s /\ q = p THEN n ELSE exchange[t][q]
        BY <3>1 DEF ExchangeBooks
      <4>2. ASSUME NEW t \in BookSides
            PROVE  LevelsOf(exchange', t) = IF t = s THEN Changed(LevelsOf(exchange, t), p, n)
                                            ELSE LevelsOf(exchange, t)
        <5>1. PICK d : d = exchange'
          OBVIOUS
        <5>2. PICK e : e = exchange
          OBVIOUS
        <5>3. /\ e \in ExchangeBooks /\ s \in BookSides
              /\ p \in BookPrices /\ n \in BookSizes \union {0}
              /\ \A q \in BookPrices : d[t][q] = IF t = s /\ q = p THEN n ELSE e[t][q]
          BY <3>1, <4>1, <5>1, <5>2
        <5>4. LevelsOf(d, t) = IF t = s THEN Changed(LevelsOf(e, t), p, n) ELSE LevelsOf(e, t)
          BY <5>3, LevelsChange
        <5> QED
          BY <5>1, <5>2, <5>4
      <4> QED
        BY <4>1, <4>2
    <3>3. BooksRanked'
      BY <2>0, <3>1 DEF BooksRanked
    <3>4. CASE updates /\ stream # "down"
      <4> DEFINE m == Level(s, p, n)
      <4>1. Send(m) /\ stream' = stream
        BY <2>1, <3>4 DEF ChangeLevel
      <4>2. /\ m \in Messages
            /\ \A T \in SUBSET LevelRecords : \A t \in BookSides :
                    Effect(T, m, t) = IF t = s THEN Changed(T, p, n) ELSE T
        BY DEF Level, Messages, Effect
      <4> HIDE DEF m
      <4>3. unread' \in Seq(Messages) /\ ReplayAgrees'
        BY <2>0, <3>1, <3>2, <4>1, <4>2, SendExtends
      <4> QED
        BY <2>0, <3>1, <3>2, <3>3, <4>1, <4>3 DEF BookIInv, BookTypeOK
    <3>5. CASE ~(updates /\ stream # "down")
      <4>1. unread' = unread /\ stream' = IF stream = "live" THEN "up" ELSE stream
        BY <2>1, <3>5 DEF ChangeLevel
      <4>2. ReplayAgrees'
        BY <2>0, <3>1, <4>1, NothingSent
      <4> QED
        BY <2>0, <3>1, <3>2, <3>3, <4>1, <4>2 DEF BookIInv, BookTypeOK
    <3> QED
      BY <3>4, <3>5
  <2>2. ASSUME SendSnapshot PROVE BookIInv'
    <3>1. PICK bids \in SetToSeqs(Levels("bids")), asks \in SetToSeqs(Levels("asks")) :
                Send([kind |-> "book", bids |-> bids, asks |-> asks])
      BY <2>2 DEF SendSnapshot
    <3>2. /\ stream = "up" /\ stream' = "live" /\ exchange' = exchange /\ book' = book
          /\ exchange \in ExchangeBooks
      BY <2>0, <2>2 DEF SendSnapshot, BookTypeOK
    <3>3. /\ "bids" \in BookSides /\ "asks" \in BookSides
          /\ Levels("bids") = LevelsOf(exchange, "bids")
          /\ Levels("asks") = LevelsOf(exchange, "asks")
      BY <3>2, LevelsAre DEF Levels, BookSides
    <3>4. /\ bids \in Seq(LevelRecords) /\ ToSet(bids) = LevelsOf(exchange, "bids")
          /\ asks \in Seq(LevelRecords) /\ ToSet(asks) = LevelsOf(exchange, "asks")
      BY <3>2, <3>3, LevelsFinite, Listing
    <3>5. bids \in Deliveries /\ asks \in Deliveries
      BY <3>2, <3>3, <3>4, LevelsFinite DEF Deliveries
    <3> DEFINE m == [kind |-> "book", bids |-> bids, asks |-> asks]
    <3>6. m \in Messages /\ m.kind = "book" /\ m["bids"] = bids /\ m["asks"] = asks
      BY <3>5 DEF Messages
    <3> HIDE DEF m
    <3>7. \A T : \A s \in BookSides : Effect(T, m, s) = LevelsOf(exchange, s)
      BY <3>4, <3>6 DEF Effect, BookSides
    <3>8. unread' \in Seq(Messages) /\ ReplayAgrees'
      BY <2>0, <3>1, <3>2, <3>6, <3>7, SendExtends DEF m
    <3> QED
      BY <2>0, <3>2, <3>8 DEF BookIInv, BookTypeOK, BooksRanked
  <2>3. ASSUME Subscribe \/ Disconnected \/ UNCHANGED bookVars PROVE BookIInv'
    <3>1. /\ unread' = unread /\ book' = book /\ exchange' = exchange
          /\ stream' \in {"down", "up", "live"}
          /\ stream' = "live" => stream = "live"
      BY <2>0, <2>3 DEF Subscribe, Disconnected, bookVars, BookTypeOK
    <3>2. ReplayAgrees'
      BY <2>0, <3>1, NothingSent
    <3> QED
      BY <2>0, <3>1, <3>2 DEF BookIInv, BookTypeOK, BooksRanked
  <2>4. ASSUME Restarted PROVE BookIInv'
    <3>1. /\ unread' = <<>> /\ book' = book /\ exchange' = exchange /\ stream' = "down"
      BY <2>4 DEF Restarted
    <3>2. ASSUME NEW s \in BookSides PROVE \E h : Replay(h, s)'
      <4>1. ToSet(book[s]) \in SUBSET LevelRecords
        BY <2>0, SequenceIsFinite DEF BookTypeOK
      <4> DEFINE T == ToSet(book[s])
      <4>2. <<T>> \in Seq(SUBSET LevelRecords) /\ Len(<<T>>) = 1 /\ <<T>>[1] = T
        BY <4>1
      <4>3. Replay(<<T>>, s)'
        BY <3>1, <4>2 DEF Replay
      <4> QED
        BY <4>3
    <3> QED
      BY <2>0, <3>1, <3>2 DEF BookIInv, BookTypeOK, BooksRanked, ReplayAgrees
  <2>5. ASSUME HandleMessage PROVE BookIInv'
    BY <2>5, HandledKeeps
  <2> QED
    BY <2>1, <2>2, <2>3, <2>4, <2>5 DEF BookNext
<1> QED
  BY <1>1, <1>2, PTL DEF BookSpec

\* With nothing unread in a live stream the copy is the exchange's book, best first.
THEOREM BookAlwaysAgrees == BookSpec => []BookAgrees
<1>1. BookIInv => BookAgrees
  <2> SUFFICES ASSUME BookIInv, stream = "live", unread = <<>>, NEW s \in BookSides
               PROVE  /\ ToSet(book[s]) = Levels(s) /\ Len(book[s]) = Cardinality(Levels(s))
                      /\ Ranked(s, book[s])
    BY DEF BookAgrees
  <2>1. /\ exchange \in ExchangeBooks /\ book[s] \in Seq(LevelRecords) /\ Ranked(s, book[s])
    BY DEF BookIInv, BookTypeOK, BooksRanked
  <2>2. PICK h : Replay(h, s)
    BY DEF BookIInv, ReplayAgrees
  <2>3. ToSet(book[s]) = LevelsOf(exchange, s)
    BY <2>2 DEF Replay
  <2>4. Levels(s) = LevelsOf(exchange, s)
    BY <2>1, LevelsAre DEF Levels
  <2> QED
    BY <2>1, <2>3, <2>4, RankedSide
<1> QED
  BY <1>1, BookIInvHolds, PTL

-----------------------------------------------------------------------------
(* The external price *)

\* A window starts at a price no younger than itself, and unless it is spoiled at one
\* from no more than a window before its start.
WindowAges ==
    /\ record.started <= origin
    /\ spoiled \/ origin <= record.started + Window

FeedIInv ==
    /\ FeedTypeOK
    /\ WindowAges
    /\ SilenceSpoilsOneWindow

\* What the assumption says of the feed's times.
LEMMA FeedConstants ==
    /\ FeedPrices \subseteq Nat \ {0} /\ Window \in Nat \ {0}
    /\ FirstDelay \in Nat \ {0} /\ MaxDelay \in Nat /\ FirstDelay <= MaxDelay
    /\ Quiet \in Nat \ {0}
    /\ Oldest \in Nat /\ Oldest = 2 * Window + 1
  BY FeedAssumption DEF Oldest

\* What is in a record.
LEMMA RecordTypes ==
    ASSUME NEW r \in Records
    PROVE  /\ r.updated \in 0..Oldest /\ r.started \in 0..Window + 1 /\ r.change \in Int
           /\ r # NoRecord => r.price \in FeedPrices /\ r.open \in FeedPrices
           /\ r = NoRecord => r.updated = 0 /\ r.started = 0
  BY FeedConstants DEF Records, NoRecord

\* A quotient that is cut off is an integer.
LEMMA QuotientIsInt ==
    ASSUME NEW a \in Int, NEW b \in Nat \ {0}
    PROVE  Truncated(a, b) \in Int
  BY DEF Truncated

\* So is the change of a price.
LEMMA ChangeIsInt ==
    ASSUME NEW p \in FeedPrices, NEW open \in FeedPrices
    PROVE  ChangeBps(p, open) \in Int
<1>1. p \in Nat /\ open \in Nat \ {0} /\ (p - open) * 10000 \in Int
  BY FeedConstants
<1> QED
  BY <1>1, QuotientIsInt DEF ChangeBps

\* The invariant of the price feed holds.
THEOREM FeedIInvHolds == FeedSpec => []FeedIInv
<1>1. FeedInit => FeedIInv
  <2> SUFFICES ASSUME FeedInit PROVE FeedIInv
    OBVIOUS
  <2>1. record.updated = 0 /\ record.started = 0 /\ record \in Records
    BY DEF FeedInit, Records, NoRecord
  <2>2. FeedTypeOK
    <3>1. connected \in BOOLEAN /\ spoiled \in BOOLEAN
      BY Zenon DEF FeedInit
    <3> QED
      BY <2>1, <3>1, FeedConstants DEF FeedInit, FeedTypeOK
  <2> QED
    BY <2>1, <2>2, FeedConstants DEF FeedInit, FeedIInv, WindowAges, SilenceSpoilsOneWindow,
       MomentumIsRecent
<1>2. FeedIInv /\ [FeedNext]_feedVars => FeedIInv'
  <2> SUFFICES ASSUME FeedIInv, [FeedNext]_feedVars PROVE FeedIInv'
    OBVIOUS
  <2>0. /\ connected \in BOOLEAN /\ spoiled \in BOOLEAN
        /\ delay \in FirstDelay..MaxDelay /\ sleep \in 0..MaxDelay
        /\ record \in Records /\ origin \in 0..Oldest
        /\ delay \in Nat /\ sleep \in Nat /\ origin \in Nat
        /\ record.updated \in Nat /\ record.started \in Nat
    BY FeedConstants, RecordTypes DEF FeedIInv, FeedTypeOK
  <2>4. ASSUME connected' \in BOOLEAN, spoiled' \in BOOLEAN, delay' \in FirstDelay..MaxDelay,
               sleep' \in 0..MaxDelay, record' \in Records, origin' \in 0..Oldest,
               record'.started <= origin', spoiled' \/ origin' <= record'.started + Window,
               record'.updated = 0 => spoiled' \/ origin' < 2 * Window
        PROVE  FeedIInv'
    <3>1. FeedTypeOK'
      BY <2>4 DEF FeedTypeOK
    <3>2. WindowAges'
      BY <2>4, Zenon DEF WindowAges
    <3>3. SilenceSpoilsOneWindow'
      BY <2>4, Zenon DEF SilenceSpoilsOneWindow, MomentumIsRecent
    <3> QED
      BY <3>1, <3>2, <3>3 DEF FeedIInv
  <2>1. ASSUME Connect \/ Fails \/ Closed \/ UNCHANGED feedVars PROVE FeedIInv'
    <3>1. record' = record /\ origin' = origin /\ spoiled' = spoiled
      BY <2>1 DEF Connect, Fails, Closed, feedVars
    <3>2. /\ connected' \in BOOLEAN
          /\ delay' \in FirstDelay..MaxDelay /\ sleep' \in 0..MaxDelay
      <4>1. CASE Fails
        <5>1. Min({2 * delay, MaxDelay}) = IF 2 * delay <= MaxDelay THEN 2 * delay ELSE MaxDelay
          BY <2>0, FeedConstants, MinOfTwo
        <5>2. connected' \in BOOLEAN
          BY <4>1 DEF Fails
        <5> QED
          BY <4>1, <5>1, <5>2, <2>0, FeedConstants DEF Fails
      <4>2. CASE Connect \/ Closed
        <5>1. connected' = TRUE \/ connected' = FALSE
          BY <4>2 DEF Connect, Closed
        <5>2. \/ delay' = delay /\ sleep' = sleep
              \/ delay' = FirstDelay /\ sleep' = FirstDelay
          BY <4>2 DEF Connect, Closed
        <5> QED
          <6>1. connected' \in BOOLEAN
            BY <5>1, Zenon
          <6> QED
            BY <6>1, <5>2, <2>0, FeedConstants
      <4>3. CASE UNCHANGED feedVars
        BY <4>3, <2>0 DEF feedVars
      <4> QED
        BY <4>1, <4>2, <4>3, <2>1
    <3> QED
      BY <3>1, <3>2, <2>0 DEF FeedIInv, FeedTypeOK, WindowAges, SilenceSpoilsOneWindow,
         MomentumIsRecent
  <2>2. ASSUME NEW p \in FeedPrices, ProcessMessage(p) PROVE FeedIInv'
    <3>0. /\ connected' \in BOOLEAN
          /\ delay' \in FirstDelay..MaxDelay /\ sleep' \in 0..MaxDelay
      BY <2>0, <2>2 DEF ProcessMessage
    <3>1. CASE record = NoRecord
      <4>1. /\ record' = [price |-> p, open |-> p, updated |-> 0, started |-> 0, change |-> 0]
            /\ origin' = 0 /\ spoiled' = FALSE
        BY <2>2, <3>1 DEF ProcessMessage, NoRecord
      <4>2. record' \in Records /\ record'.updated = 0 /\ record'.started = 0
        BY <4>1, FeedConstants DEF Records
      <4>3. spoiled' \in BOOLEAN /\ origin' \in 0..Oldest
        <5>1. origin' \in 0..Oldest
          BY <4>1, FeedConstants
        <5> QED
          BY <4>1, <5>1, Zenon
      <4> QED
        BY <2>4, <3>0, <4>1, <4>2, <4>3, FeedConstants
    <3>2. CASE record # NoRecord
      <4> DEFINE open == IF Rolls THEN record.price ELSE record.open
      <4>1. open \in FeedPrices
        BY <3>2, <2>0, RecordTypes
      <4>2. ChangeBps(p, open) \in Int
        BY <4>1, ChangeIsInt
      <4>3. /\ record' = [price |-> p, open |-> open, updated |-> 0,
                         started |-> IF Rolls THEN 0 ELSE record.started,
                         change |-> ChangeBps(p, open)]
            /\ origin' = IF Rolls THEN record.updated ELSE origin
            /\ spoiled' = IF Rolls THEN record.updated > Window ELSE spoiled
        BY <2>2, <3>2 DEF ProcessMessage, Update
      <4> HIDE DEF open
      <4>4. record' \in Records
        BY <4>1, <4>2, <4>3, <2>0, RecordTypes, FeedConstants DEF Records
      <4>5. /\ record'.updated = 0 /\ record'.started = IF Rolls THEN 0 ELSE record.started
        BY <4>3
      <4>6. CASE Rolls
        <5>1. record'.started = 0 /\ origin' = record.updated /\ origin' \in 0..Oldest
          BY <4>3, <4>5, <4>6, <2>0, RecordTypes
        <5>2. spoiled' = (record.updated > Window)
          BY <4>3, <4>6
        <5>3. spoiled' \in BOOLEAN /\ (spoiled' \/ origin' <= Window)
          <6>1. ~(record.updated > Window) => origin' <= Window
            BY <5>1, <2>0, FeedConstants
          <6>2. (record.updated > Window) \in BOOLEAN
            OBVIOUS
          <6> QED
            BY <5>2, <6>1, <6>2, Zenon
        <5>4. origin' <= Window => origin' <= record'.started + Window /\ origin' < 2 * Window
          BY <5>1, FeedConstants
        <5>5. record'.started <= origin'
          BY <5>1
        <5> QED
          BY <2>4, <3>0, <4>4, <5>1, <5>3, <5>4, <5>5
      <4>7. CASE ~Rolls
        <5>1. /\ record'.started = record.started /\ origin' = origin /\ spoiled' = spoiled
              /\ record.started < Window
          BY <4>3, <4>5, <4>7, <2>0, FeedConstants DEF Rolls
        <5>2. record.started <= origin /\ (spoiled \/ origin <= record.started + Window)
          BY DEF FeedIInv, WindowAges
        <5>3. origin <= record.started + Window => origin < 2 * Window
          BY <5>1, <2>0, FeedConstants
        <5> QED
          BY <2>0, <2>4, <3>0, <4>4, <5>1, <5>2, <5>3
      <4> QED
        BY <4>6, <4>7
    <3> QED
      BY <3>1, <3>2
  <2>3. ASSUME FeedElapse PROVE FeedIInv'
    <3>1. /\ connected' \in BOOLEAN /\ spoiled' \in BOOLEAN /\ spoiled' = spoiled
          /\ delay' \in FirstDelay..MaxDelay /\ sleep' \in 0..MaxDelay
      <4>1. Max({0, sleep - 1}) = IF 0 >= sleep - 1 THEN 0 ELSE sleep - 1
        BY <2>0, MaxOfTwo
      <4> QED
        BY <2>0, <2>3, <4>1, FeedConstants DEF FeedElapse
    <3>2. CASE record = NoRecord
      <4>1. record' = NoRecord /\ origin' = 0
        BY <2>3, <3>2 DEF FeedElapse
      <4>2. record' \in Records /\ record'.started = 0 /\ record'.updated = 0
        BY <4>1 DEF Records, NoRecord
      <4> QED
        BY <4>1, <4>2, <3>1, FeedConstants DEF FeedIInv, FeedTypeOK, WindowAges,
           SilenceSpoilsOneWindow, MomentumIsRecent
    <3>3. CASE record # NoRecord
      <4> DEFINE updated == Min({record.updated + 1, Oldest})
                 started == Min({record.started + 1, Window + 1})
      <4>1. /\ updated = IF record.updated + 1 <= Oldest THEN record.updated + 1 ELSE Oldest
            /\ started = IF record.started + 1 <= Window + 1 THEN record.started + 1
                         ELSE Window + 1
            /\ Min({origin + 1, Oldest}) = IF origin + 1 <= Oldest THEN origin + 1 ELSE Oldest
        BY <2>0, FeedConstants, MinOfTwo
      <4>2. /\ record' = [record EXCEPT !.updated = updated, !.started = started]
            /\ origin' = IF origin + 1 <= Oldest THEN origin + 1 ELSE Oldest
        BY <2>3, <3>3, <4>1 DEF FeedElapse
      <4>3. /\ updated \in 0..Oldest /\ updated > 0 /\ started \in 0..Window + 1
            /\ started = IF record.started + 1 <= Window + 1 THEN record.started + 1
                         ELSE Window + 1
        BY <4>1, <2>0, RecordTypes, FeedConstants
      <4> HIDE DEF updated, started
      <4>4. record' \in Records /\ record'.updated = updated /\ record'.started = started
        BY <2>0, <3>3, <4>2, <4>3 DEF Records
      <4> QED
        BY <4>2, <4>3, <4>4, <3>1, <2>0, RecordTypes, FeedConstants
           DEF FeedIInv, FeedTypeOK, WindowAges, SilenceSpoilsOneWindow, MomentumIsRecent
    <3> QED
      BY <3>2, <3>3
  <2> QED
    BY <2>1, <2>2, <2>3 DEF FeedNext
<1> QED
  BY <1>1, <1>2, PTL DEF FeedSpec

\* The record, the delays and the ages keep their types.
THEOREM FeedTypeCorrect == FeedSpec => []FeedTypeOK
<1>1. FeedIInv => FeedTypeOK
  BY DEF FeedIInv
<1> QED
  BY <1>1, FeedIInvHolds, PTL

\* However connections fail and however long they are silent, only the window that a
\* silence ends with shows a change from before it.
THEOREM SilenceAlwaysSpoilsOneWindow == FeedSpec => []SilenceSpoilsOneWindow
<1>1. FeedIInv => SilenceSpoilsOneWindow
  BY DEF FeedIInv
<1> QED
  BY <1>1, FeedIInvHolds, PTL

-----------------------------------------------------------------------------
(* Price signals *)

\* The observations a history is made of.
Observed(top) == [mid : 1..top, age : 0..Lookback + 1]

\* No observation is older than one behind it.
NewestFirst(h) == \A i, j \in DOMAIN h : i <= j => h[i].age <= h[j].age

\* What the assumption says of the detectors' constants.
LEMMA SignalConstants ==
    /\ Lookback \in Nat \ {0} /\ MaxHistory \in Nat \ {0} /\ MinConfirm \in Nat \ {0}
    /\ RsiPeriod \in Nat \ {0} /\ SignalExpiry \in Nat \ {0}
    /\ MinMoveBps \in Nat /\ ThresholdBps \in Nat /\ GapBps \in Nat /\ PullbackBps \in Nat
    /\ \A d \in Detectors : TopMid[d] \in Nat \ {0}
  BY SignalsAssumption

\* What is in an observation.
LEMMA ObservedTypes ==
    ASSUME NEW top \in Nat
    PROVE  /\ \A o \in Observed(top) : /\ o.mid \in Nat \ {0} /\ o.mid <= top
                                       /\ o.age \in Nat /\ o.age <= Lookback + 1
           /\ \A m \in 1..top : [mid |-> m, age |-> 0] \in Observed(top)
<1>1. Lookback \in Nat
  BY SignalConstants
<1>2. \A o \in Observed(top) : o.mid \in 1..top /\ o.age \in 0..Lookback + 1
  BY DEF Observed
<1>3. 0 \in 0..Lookback + 1
  BY <1>1
<1> QED
  BY <1>1, <1>2, <1>3 DEF Observed

\* A bounded set of naturals that is not empty has a greatest element.
LEMMA GreatestNatural ==
    ASSUME NEW n \in Nat, NEW T, T \subseteq 0..n, T # {}
    PROVE  /\ Max(T) \in T
           /\ \A k \in T : k <= Max(T)
<1> DEFINE rest == {n - k : k \in T}
<1>0. \A k \in T : n - k \in Nat
  OBVIOUS
<1>1. rest \subseteq Nat /\ rest # {}
  BY <1>0
<1>2. PICK r \in rest : \A q \in rest : r <= q
  BY <1>1, LeastNatural
<1>3. PICK g \in T : r = n - g
  BY <1>2
<1>4. \A k \in T : n - g <= n - k
  BY <1>2, <1>3
<1>5. \A k \in T : g >= k
  BY <1>4
<1>6. \A k \in T : Max(T) >= k /\ Max(T) \in T
  BY <1>3, <1>5 DEF Max
<1> QED
  BY <1>6, <1>3

\* The front of a history.
LEMMA FrontOf ==
    ASSUME NEW S, NEW h \in Seq(S), NEW n \in 0..Len(h),
           NEW c, c = SubSeq(h, 1, n)
    PROVE  /\ c \in Seq(S) /\ Len(c) = n /\ DOMAIN c = 1..n
           /\ \A i \in 1..n : c[i] = h[i]
<1>1. /\ n \in Nat /\ n <= Len(h) /\ Len(h) \in Nat
      /\ \A i \in 1..Len(h) : h[i] \in S
  OBVIOUS
<1>2. c = [i \in 1..n |-> h[i]]
  BY <1>1
<1>3. \A i \in 1..n : c[i] = h[i] /\ c[i] \in S
  BY <1>1, <1>2
<1>4. c \in [1..n -> S]
  BY <1>2, <1>3
<1>5. c \in Seq(S)
  BY <1>1, <1>4
<1> QED
  BY <1>1, <1>2, <1>3, <1>5

\* A history that is capped.
LEMMA CappedFront ==
    ASSUME NEW S, NEW h \in Seq(S), NEW n \in Nat, NEW c, c = Capped(h, n)
    PROVE  /\ c \in Seq(S) /\ Len(c) = IF Len(h) <= n THEN Len(h) ELSE n
           /\ DOMAIN c = 1..Len(c)
           /\ \A i \in 1..Len(c) : c[i] = h[i]
<1>1. Len(h) \in Nat
  OBVIOUS
<1> DEFINE k == IF Len(h) <= n THEN Len(h) ELSE n
<1>2. Min({Len(h), n}) = k
  BY <1>1, MinOfTwo
<1>3. k \in 0..Len(h)
  BY <1>1
<1>5. c = SubSeq(h, 1, k)
  BY <1>2, Zenon DEF Capped
<1> HIDE DEF k
<1>4. /\ c \in Seq(S) /\ Len(c) = k /\ DOMAIN c = 1..k
      /\ \A i \in 1..k : c[i] = h[i]
  BY <1>3, <1>5, FrontOf
<1> QED
  BY <1>4 DEF k

\* A history with one observation more.
LEMMA Pushed ==
    ASSUME NEW top \in Nat, NEW h \in Seq(Observed(top)), NEW m \in 1..top,
           NEW p, p = Push(h, m)
    PROVE  /\ p \in Seq(Observed(top)) /\ Len(p) = Len(h) + 1 /\ DOMAIN p = 1..Len(p)
           /\ Len(h) \in Nat
           /\ p[1] = [mid |-> m, age |-> 0]
           /\ \A i \in 1..Len(h) : p[i + 1] = h[i]
<1> DEFINE o == [mid |-> m, age |-> 0]
<1>1. o \in Observed(top)
  BY ObservedTypes
<1>2. p = <<o>> \o h
  BY DEF Push
<1> HIDE DEF o
<1>3. <<o>> \in Seq(Observed(top)) /\ Len(<<o>>) = 1 /\ <<o>>[1] = o
  BY <1>1
<1>4. /\ p \in Seq(Observed(top)) /\ Len(p) = Len(h) + 1 /\ Len(h) \in Nat
      /\ p[1] = o
  BY <1>2, <1>3
<1>5. \A i \in 1..Len(h) : p[i + 1] = h[i]
  BY <1>2, <1>3
<1> QED
  BY <1>4, <1>5 DEF o

\* What is within the window is the front of a history.
LEMMA WithinWindow ==
    ASSUME NEW top \in Nat, NEW h \in Seq(Observed(top)), h # <<>>, h[1].age = 0,
           NEW w, w = InWindow(h)
    PROVE  /\ w \in Seq(Observed(top)) /\ Len(w) \in 1..Len(h) /\ DOMAIN w = 1..Len(w)
           /\ \A i \in 1..Len(w) : w[i] = h[i]
           /\ w[Len(w)].age <= Lookback
<1>1. Len(h) \in Nat /\ Len(h) # 0 /\ DOMAIN h = 1..Len(h) /\ Lookback \in Nat
  BY SignalConstants
<1> DEFINE recent == {i \in DOMAIN h : h[i].age <= Lookback}
           n == Max(recent)
<1>2. recent \subseteq 0..Len(h) /\ 1 \in recent
  BY <1>1
<1>3. n \in recent
  BY <1>1, <1>2, GreatestNatural
<1>4. n \in 1..Len(h) /\ n \in 0..Len(h) /\ h[n].age <= Lookback
  BY <1>1, <1>3
<1>5. w = SubSeq(h, 1, n)
  BY DEF InWindow
<1> HIDE DEF n
<1>6. /\ w \in Seq(Observed(top)) /\ Len(w) = n /\ DOMAIN w = 1..n
      /\ \A i \in 1..n : w[i] = h[i]
  BY <1>4, <1>5, FrontOf
<1> QED
  BY <1>4, <1>6

\* After an update of the drop detector, its history reaches back no further than the
\* window, and the newest observation is first.
LEMMA TimedPushed ==
    ASSUME NEW top \in Nat, NEW h \in Seq(Observed(top)), NewestFirst(h),
           NEW m \in 1..top, NEW p, p = TimedPush(h, m)
    PROVE  /\ p \in Seq(Observed(top)) /\ NewestFirst(p)
           /\ \A i \in DOMAIN p : p[i].age <= Lookback
<1>0. Lookback \in Nat \ {0} /\ MaxHistory \in Nat \ {0}
  BY SignalConstants
<1>1. PICK a : a = Push(h, m)
  OBVIOUS
<1>2. /\ a \in Seq(Observed(top)) /\ Len(a) = Len(h) + 1 /\ DOMAIN a = 1..Len(a)
      /\ Len(h) \in Nat
      /\ a[1] = [mid |-> m, age |-> 0]
      /\ \A i \in 1..Len(h) : a[i + 1] = h[i]
  BY <1>1, Pushed
<1>3. \A i \in DOMAIN a : a[i].age \in Nat
  <2> TAKE i \in DOMAIN a
  <2>1. a[i] \in Observed(top)
    BY <1>2
  <2> QED
    BY <2>1, ObservedTypes
<1>4. NewestFirst(a)
  <2> SUFFICES ASSUME NEW i \in DOMAIN a, NEW j \in DOMAIN a, i <= j
               PROVE  a[i].age <= a[j].age
    BY DEF NewestFirst
  <2>1. CASE i = 1
    BY <2>1, <1>2, <1>3
  <2>2. CASE i # 1
    <3>1. i - 1 \in DOMAIN h /\ j - 1 \in DOMAIN h /\ i - 1 <= j - 1
      BY <2>2, <1>2
    <3>2. a[i] = h[i - 1] /\ a[j] = h[j - 1]
      <4>1. i = (i - 1) + 1 /\ j = (j - 1) + 1
        BY <1>2
      <4>2. i - 1 \in 1..Len(h) /\ j - 1 \in 1..Len(h)
        BY <3>1
      <4> QED
        BY <4>1, <4>2, <1>2
    <3> QED
      BY <3>1, <3>2 DEF NewestFirst
  <2> QED
    BY <2>1, <2>2
<1>5. PICK w : w = InWindow(a)
  OBVIOUS
<1>6. a # <<>> /\ a[1].age = 0
  BY <1>2
<1>7. /\ w \in Seq(Observed(top)) /\ Len(w) \in 1..Len(a) /\ DOMAIN w = 1..Len(w)
      /\ \A i \in 1..Len(w) : w[i] = a[i]
      /\ w[Len(w)].age <= Lookback
  <2>1. a \in Seq(Observed(top))
    BY <1>2
  <2> QED
    BY <2>1, <1>5, <1>6, WithinWindow
<1>8. /\ p = Capped(w, MaxHistory)
  BY <1>1, <1>5 DEF TimedPush
<1>9. /\ p \in Seq(Observed(top)) /\ Len(p) = IF Len(w) <= MaxHistory THEN Len(w) ELSE MaxHistory
      /\ DOMAIN p = 1..Len(p)
      /\ \A i \in 1..Len(p) : p[i] = w[i]
  <2>1. w \in Seq(Observed(top)) /\ MaxHistory \in Nat
    BY <1>0, <1>7
  <2> QED
    BY <2>1, <1>8, CappedFront
<1>10. \A i \in DOMAIN p : i \in 1..Len(w) /\ i \in DOMAIN a /\ p[i] = a[i]
  BY <1>0, <1>2, <1>7, <1>9
<1>11. NewestFirst(p)
  BY <1>4, <1>10 DEF NewestFirst
<1>12. \A i \in DOMAIN p : p[i].age <= Lookback
  <2> TAKE i \in DOMAIN p
  <2>1. Len(w) \in DOMAIN a /\ i <= Len(w) /\ w[Len(w)] = a[Len(w)]
    BY <1>2, <1>7, <1>10
  <2>2. a[i].age <= a[Len(w)].age
    BY <1>4, <1>10, <2>1 DEF NewestFirst
  <2> QED
    BY <1>0, <1>3, <1>7, <1>10, <2>1, <2>2
<1> QED
  BY <1>9, <1>11, <1>12

\* An update of the breakout detector and of the divergence detector.
LEMMA CountedPush ==
    ASSUME NEW top \in Nat, NEW h \in Seq(Observed(top)), Len(h) <= Lookback,
           NEW m \in 1..top, NEW p, p = Capped(Push(h, m), Lookback)
    PROVE  /\ p \in Seq(Observed(top))
           /\ Len(h) \in Nat
           /\ Len(p) = IF Len(h) < Lookback THEN Len(h) + 1 ELSE Lookback
           /\ p[1].mid = m
           /\ Len(p) >= 2 => h # <<>> /\ p[2] = h[1]
<1>0. Lookback \in Nat \ {0}
  BY SignalConstants
<1>1. PICK a : a = Push(h, m)
  OBVIOUS
<1>2. /\ a \in Seq(Observed(top)) /\ Len(a) = Len(h) + 1 /\ DOMAIN a = 1..Len(a)
      /\ Len(h) \in Nat
      /\ a[1] = [mid |-> m, age |-> 0]
      /\ \A i \in 1..Len(h) : a[i + 1] = h[i]
  BY <1>1, Pushed
<1>3. /\ p \in Seq(Observed(top)) /\ Len(p) = IF Len(a) <= Lookback THEN Len(a) ELSE Lookback
      /\ DOMAIN p = 1..Len(p)
      /\ \A i \in 1..Len(p) : p[i] = a[i]
  <2>1. p = Capped(a, Lookback)
    BY <1>1
  <2> QED
    BY <1>0, <1>2, <2>1, CappedFront
<1>4. Len(p) = IF Len(h) < Lookback THEN Len(h) + 1 ELSE Lookback
  BY <1>0, <1>2, <1>3
<1>5. 1 \in 1..Len(p)
  BY <1>0, <1>2, <1>4
<1>6. p[1].mid = m
  BY <1>2, <1>3, <1>5
<1>7. ASSUME Len(p) >= 2 PROVE h # <<>> /\ p[2] = h[1]
  <2>1. 2 \in 1..Len(p) /\ 1 \in 1..Len(h) /\ 2 = 1 + 1
    BY <1>0, <1>2, <1>4, <1>7
  <2>2. p[2] = a[2]
    BY <1>3, <2>1
  <2>3. a[2] = h[1]
    BY <1>2, <2>1
  <2>4. h # <<>>
    BY <2>1
  <2> QED
    BY <2>2, <2>3, <2>4
<1> QED
  BY <1>2, <1>3, <1>4, <1>6, <1>7
\* Two facts about numbers.
LEMMA AtLeastTwo == \A n \in Nat : n >= 1 /\ n # 1 => n >= 2
  OBVIOUS

\* A count that stops at a bound, behind another, is still behind it after both count one more.
LEMMA CountsSaturate ==
    ASSUME NEW n \in Nat, NEW a \in Nat, NEW b \in Nat, a <= b, NEW c,
           c = 0 \/ c = IF a + 1 <= n THEN a + 1 ELSE n
    PROVE  c \in Nat /\ c <= n /\ c <= IF b + 1 <= n THEN b + 1 ELSE n
  OBVIOUS

\* A breakout is a rise: the update lies above the one before it.
LEMMA AboveIsRise ==
    ASSUME NEW top \in Nat, NEW h \in Seq(Observed(top)), Len(h) >= 1, Above(h)
    PROVE  Len(h) >= 2 /\ h[1].mid > h[2].mid
<1>0. ThresholdBps \in Nat /\ Len(h) \in Nat
  BY SignalConstants
<1>1. \A i \in 1..Len(h) : h[i].mid \in 1..top
  <2> TAKE i \in 1..Len(h)
  <2>1. h[i] \in Observed(top)
    OBVIOUS
  <2> QED
    BY <2>1 DEF Observed
<1>2. PICK t : t = Tail(h)
  OBVIOUS
<1>3. /\ DOMAIN t = 1..(Len(h) - 1)
      /\ \A i \in DOMAIN t : t[i] = h[i + 1]
  BY <1>0, <1>2
<1>10. Len(h) # 1 => Len(h) >= 2
  BY <1>0, AtLeastTwo
<1> DEFINE high == Max(MidsOf(t) \union (IF Len(h) = 1 THEN {h[1].mid} ELSE {}))
<1>4. h[1].mid * 10000 > high * (10000 + ThresholdBps)
  BY <1>2 DEF Above
<1>5. \A x \in MidsOf(t) : x \in 1..top
  <2> SUFFICES ASSUME NEW i \in DOMAIN t PROVE t[i].mid \in 1..top
    BY DEF MidsOf
  <2>1. i + 1 \in 1..Len(h) /\ t[i] = h[i + 1]
    BY <1>0, <1>3
  <2> QED
    BY <2>1, <1>1
<1>6. h[1].mid \in 1..top /\ 1 \in 1..Len(h)
  BY <1>0, <1>1
<1>7. \A m \in Nat : m >= h[1].mid => ~(h[1].mid * 10000 > m * (10000 + ThresholdBps))
  <2> SUFFICES ASSUME NEW m \in Nat, m >= h[1].mid
               PROVE  h[1].mid * 10000 <= m * (10000 + ThresholdBps)
    BY <1>0, <1>6
  <2>1. PICK rest : rest = m * ThresholdBps
    OBVIOUS
  <2>2. rest \in Nat
    BY <2>1, <1>0
  <2>3. m * (10000 + ThresholdBps) = m * 10000 + rest
    BY <2>1, <1>0
  <2> QED
    BY <2>2, <2>3, <1>6
<1>8. CASE Len(h) = 1
  <2>1. MidsOf(t) = {}
    BY <1>3, <1>8 DEF MidsOf
  <2>2. high = Max({h[1].mid})
    BY <2>1, <1>8
  <2>3. {h[1].mid} \subseteq 0..top /\ {h[1].mid} # {}
    BY <1>6
  <2>4. Max({h[1].mid}) \in {h[1].mid}
    BY <2>3, GreatestNatural
  <2>5. high \in Nat /\ high >= h[1].mid
    BY <2>2, <2>4, <1>6
  <2> HIDE DEF high
  <2> QED
    BY <2>5, <1>4, <1>7
<1>9. CASE Len(h) # 1
  <2>0. Len(h) >= 2
    BY <1>10, <1>9
  <2>1. Len(h) >= 2 /\ 1 \in DOMAIN t /\ 2 \in 1..Len(h)
    BY <2>0, <1>0, <1>3
  <2>2. high = Max(MidsOf(t))
    BY <1>9
  <2>3. h[2].mid \in MidsOf(t)
    <3>1. t[1] = h[2]
      BY <2>1, <1>3
    <3> QED
      BY <2>1, <3>1 DEF MidsOf
  <2>4. MidsOf(t) \subseteq 0..top /\ MidsOf(t) # {}
    BY <1>5, <2>3
  <2>5. Max(MidsOf(t)) \in MidsOf(t) /\ h[2].mid <= Max(MidsOf(t))
    BY <2>3, <2>4, GreatestNatural
  <2>6. high \in Nat /\ h[2].mid <= high /\ h[2].mid \in Nat
    BY <2>2, <2>4, <2>5, <2>1, <1>1
  <2> HIDE DEF high
  <2>7. ~(high >= h[1].mid)
    BY <2>6, <1>4, <1>7
  <2> QED
    BY <2>1, <2>6, <2>7, <1>6
<1> QED
  BY <1>8, <1>9

\* Among the observations of a part of a history there is a first lowest one.
LEMMA LowestIn ==
    ASSUME NEW top \in Nat, NEW h \in Seq(Observed(top)),
           NEW w, w \subseteq DOMAIN h, w # {}, NEW low, low = LowIn(h, w)
    PROVE  low \in w /\ \A j \in w : h[low].mid <= h[j].mid
<1>1. \A i \in w : i \in Nat /\ h[i].mid \in Nat
  <2> TAKE i \in w
  <2>1. h[i] \in Observed(top) /\ i \in Nat
    OBVIOUS
  <2> QED
    BY <2>1, ObservedTypes
<1> DEFINE mids == {h[i].mid : i \in w}
<1>2. mids \subseteq Nat /\ mids # {}
  BY <1>1
<1>3. PICK v \in mids : \A u \in mids : v <= u
  BY <1>2, LeastNatural
<1> DEFINE lowest == {i \in w : h[i].mid = v}
<1>4. lowest \subseteq Nat /\ lowest # {}
  BY <1>1, <1>3
<1>5. PICK i \in lowest : \A j \in lowest : i <= j
  BY <1>4, LeastNatural
<1>6. v \in Nat /\ i \in w /\ h[i].mid = v
  BY <1>2, <1>3, <1>5
<1>7. \A j \in w : h[i].mid < h[j].mid \/ (h[i].mid = h[j].mid /\ i <= j)
  <2> TAKE j \in w
  <2>1. v <= h[j].mid /\ h[j].mid \in Nat
    BY <1>1, <1>3
  <2>2. CASE h[j].mid = v
    BY <2>2, <1>5, <1>6
  <2>3. CASE h[j].mid # v
    BY <2>1, <2>3, <1>6
  <2> QED
    BY <2>2, <2>3
<1>8. /\ low \in w
      /\ \A j \in w : h[low].mid < h[j].mid \/ (h[low].mid = h[j].mid /\ low <= j)
  BY <1>6, <1>7 DEF LowIn
<1>9. \A j \in w : h[low].mid <= h[j].mid
  BY <1>1, <1>8
<1> QED
  BY <1>8, <1>9

\* What SignalsDiverge says of the history of a fresh signal.
Diverges(h) ==
    LET newer == 1..(Lookback \div 2)
        older == (Lookback \div 2 + 1)..Lookback
    IN  \E i \in newer :
            /\ \A j \in older : h[i].mid < h[j].mid
            /\ \A j \in newer : h[i].mid <= h[j].mid
            /\ \E j \in older : /\ \A k \in older : h[j].mid <= h[k].mid
                               /\ j + RsiPeriod <= Lookback
                               /\ Higher(Rsi(h, i), Rsi(h, j))

\* The detector finds what is documented.
LEMMA DivergenceFound ==
    ASSUME NEW top \in Nat, NEW h \in Seq(Observed(top)), Len(h) = Lookback, Divergence(h)
    PROVE  Diverges(h)
<1>0. Lookback \in Nat \ {0} /\ RsiPeriod \in Nat /\ DOMAIN h = 1..Lookback
  BY SignalConstants
<1> DEFINE newer == 1..(Lookback \div 2)
           older == (Lookback \div 2 + 1)..Lookback
<1>1. Lookback \div 2 \in Nat /\ 2 * (Lookback \div 2) <= Lookback
  BY <1>0
<1>2. PICK half : half = Lookback \div 2
  OBVIOUS
<1>3. half # 0
  BY <1>2 DEF Divergence
<1>4. half \in Nat /\ half >= 1 /\ half + 1 <= Lookback
  BY <1>0, <1>1, <1>2, <1>3
<1>5. newer = 1..half /\ older = (half + 1)..Lookback
  BY <1>2
<1>6. PICK i : i = LowIn(h, newer)
  OBVIOUS
<1>7. PICK j : j = LowIn(h, older)
  OBVIOUS
<1>8. /\ h[i].mid < h[j].mid
      /\ Max({i, j}) + RsiPeriod <= Lookback
      /\ Higher(Rsi(h, i), Rsi(h, j))
  BY <1>6, <1>7 DEF Divergence
<1> HIDE DEF newer, older
<1>9. newer \subseteq DOMAIN h /\ newer # {} /\ older \subseteq DOMAIN h /\ older # {}
  <2>1. 1 \in newer /\ half + 1 \in older
    BY <1>0, <1>4, <1>5
  <2>2. \A k \in newer : k \in 1..Lookback
    BY <1>0, <1>4, <1>5
  <2>3. \A k \in older : k \in 1..Lookback
    BY <1>0, <1>4, <1>5
  <2> QED
    BY <2>1, <2>2, <2>3, <1>0
<1>10. i \in newer /\ \A k \in newer : h[i].mid <= h[k].mid
  BY <1>6, <1>9, LowestIn
<1>11. j \in older /\ \A k \in older : h[j].mid <= h[k].mid
  BY <1>7, <1>9, LowestIn
<1>12. \A k \in DOMAIN h : h[k].mid \in Nat
  <2> TAKE k \in DOMAIN h
  <2>1. h[k] \in Observed(top)
    OBVIOUS
  <2> QED
    BY <2>1, ObservedTypes
<1>13. \A k \in older : h[i].mid < h[k].mid
  <2> TAKE k \in older
  <2>1. i \in DOMAIN h /\ j \in DOMAIN h /\ k \in DOMAIN h /\ h[j].mid <= h[k].mid
    BY <1>9, <1>10, <1>11
  <2>2. h[i].mid \in Nat /\ h[j].mid \in Nat /\ h[k].mid \in Nat
    BY <2>1, <1>12
  <2> QED
    BY <2>1, <2>2, <1>8
<1>14. j + RsiPeriod <= Lookback
  <2>1. i \in Nat /\ j \in Nat
    BY <1>0, <1>9, <1>10, <1>11
  <2>2. Max({i, j}) = IF i >= j THEN i ELSE j
    BY <2>1, MaxOfTwo
  <2> QED
    BY <2>1, <2>2, <1>0, <1>8
<1> QED
  BY <1>8, <1>10, <1>11, <1>13, <1>14 DEF Diverges, newer, older
\* An update pushes onto the histories of both tokens, if the other one has a mid.
LEMMA HistoriesAt ==
    ASSUME NEW t, NEW m, NEW u \in Pair
    PROVE  /\ u = t => TboHistories(t, m)[u] = TboPush(history[u], m)
           /\ u # t /\ mid[u] # NoMid => TboHistories(t, m)[u] = TboPush(history[u], mid[u])
           /\ u # t /\ mid[u] = NoMid => TboHistories(t, m)[u] = history[u]
  BY DEF TboHistories

\* The invariant: the history of a breakout or a divergence is never longer than
\* lookback, a breakout is counted no further than the rises and only once the history
\* is full, and a signal is as old as the updates since it.
SignalsIInv ==
    /\ SignalsTypeOK
    /\ detector = "drop" => NewestFirst(history["yes"])
    /\ detector = "breakout" => \A t \in Pair :
          /\ confirm[t] <= rises[t] /\ Len(history[t]) <= Lookback
          /\ confirm[t] > 0 => Len(history[t]) = Lookback
    /\ detector = "divergence" => Len(history["yes"]) <= Lookback
    /\ signal # NoSignal => /\ Len(history["yes"]) = Lookback /\ waited = signal.ticks
                            /\ detector = "divergence" /\ signal.mid # NoMid
    /\ SignalsAsDocumented

\* The invariant of the signals holds.
THEOREM SignalsIInvHolds == SignalsSpec => []SignalsIInv
<1>1. SignalsInit => SignalsIInv
  <2> SUFFICES ASSUME SignalsInit PROVE SignalsIInv
    OBVIOUS
  <2>1. /\ detector \in Detectors /\ signal = NoSignal /\ intent = {} /\ waited = 0
        /\ mid = [t \in Pair |-> NoMid] /\ history = [t \in Pair |-> <<>>]
        /\ confirm = [t \in Pair |-> 0] /\ rises = [t \in Pair |-> 0]
    BY DEF SignalsInit
  <2>2. "yes" \in Pair /\ history["yes"] = <<>> /\ Len(history["yes"]) = 0
    BY <2>1 DEF Pair
  <2>3. SignalsTypeOK
    <3>1. \A S : history \in [Pair -> Seq(S)]
      BY <2>1
    <3>2. /\ NoSignal \in [mid : Mids \union {NoMid}, ticks : 0..SignalExpiry]
          /\ 0 \in 0..MinConfirm /\ 0 \in 0..SignalExpiry + 1
      BY SignalConstants DEF NoSignal
    <3> QED
      BY <2>1, <3>1, <3>2 DEF SignalsTypeOK
  <2>4. NewestFirst(history["yes"])
    BY <2>2 DEF NewestFirst
  <2>5. \A t \in Pair : confirm[t] = 0 /\ rises[t] = 0 /\ history[t] = <<>> /\ Len(history[t]) = 0
    BY <2>1
  <2>6. SignalsAsDocumented
    BY <2>1 DEF SignalsAsDocumented, DropsAreRecent, SpikesFiltered, SignalsDiverge, SignalsExpire
  <2> QED
    BY <2>1, <2>2, <2>3, <2>4, <2>5, <2>6, SignalConstants DEF SignalsIInv
<1>2. SignalsIInv /\ [SignalsNext]_signalVars => SignalsIInv'
  <2> SUFFICES ASSUME SignalsIInv, [SignalsNext]_signalVars PROVE SignalsIInv'
    OBVIOUS
  <2> DEFINE top == TopMid[detector]
  <2>1. /\ detector \in Detectors /\ top \in Nat \ {0}
        /\ mid \in [Pair -> Mids \union {NoMid}]
        /\ history \in [Pair -> Seq(Observed(top))]
        /\ confirm \in [Pair -> 0..MinConfirm] /\ rises \in [Pair -> 0..MinConfirm]
        /\ signal \in [mid : Mids \union {NoMid}, ticks : 0..SignalExpiry]
        /\ intent \subseteq Pair /\ waited \in 0..SignalExpiry + 1
        /\ Mids = 1..top
    BY SignalConstants DEF SignalsIInv, SignalsTypeOK, Observed, Mids
  <2>2. "yes" \in Pair /\ "no" \in Pair /\ \A t \in Pair : t = "yes" \/ t = "no"
    BY DEF Pair
  <2>3. \A t \in Pair : history[t] \in Seq(Observed(top)) /\ Len(history[t]) \in Nat
    BY <2>1
  <2>s. CASE UNCHANGED signalVars
    <3>1. /\ detector' = detector /\ mid' = mid /\ history' = history /\ confirm' = confirm
          /\ signal' = signal /\ intent' = intent /\ rises' = rises /\ waited' = waited
      BY <2>s DEF signalVars
    <3>2. SignalsTypeOK'
      BY <3>1 DEF SignalsIInv, SignalsTypeOK, Mids
    <3>3. SignalsAsDocumented
      BY DEF SignalsIInv
    <3>4. SignalsAsDocumented'
      BY <3>1, <3>3 DEF SignalsAsDocumented, DropsAreRecent, SpikesFiltered,
         SignalsDiverge, SignalsExpire
    <3> QED
      BY <3>1, <3>2, <3>4 DEF SignalsIInv, NewestFirst
  <2>a. CASE Age
    <3>0. detector = "drop" /\ signal = NoSignal
      BY <2>a DEF Age, SignalsIInv
    <3>1. /\ detector' = detector /\ mid' = mid /\ confirm' = confirm
          /\ signal' = signal /\ intent' = {} /\ rises' = rises /\ waited' = waited
      BY <2>a DEF Age
    <3>2. PICK h \in Seq(Observed(top)) : h = history["yes"]
      BY <2>2, <2>3
    <3> DEFINE aged == Aged(h)
    <3>3. history' = [history EXCEPT !["yes"] = aged]
      BY <2>a, <3>2 DEF Age
    <3>4. DOMAIN h = 1..Len(h) /\ Len(h) \in Nat /\ Lookback \in Nat
      BY SignalConstants
    <3>5. ASSUME NEW i \in DOMAIN h
          PROVE  /\ aged[i] \in Observed(top)
                 /\ aged[i].age = IF h[i].age + 1 <= Lookback + 1 THEN h[i].age + 1 ELSE Lookback + 1
                 /\ h[i].age \in Nat
      <4>1. PICK m \in 1..top, a \in 0..Lookback + 1 : h[i] = [mid |-> m, age |-> a]
        <5>1. h[i] \in Observed(top)
          BY <3>5
        <5> QED
          BY <5>1 DEF Observed
      <4>2. PICK b : b = Min({a + 1, Lookback + 1})
        OBVIOUS
      <4>3. a \in Nat /\ a + 1 \in Int /\ Lookback + 1 \in Int
        BY <3>4
      <4>4. b = IF a + 1 <= Lookback + 1 THEN a + 1 ELSE Lookback + 1
        BY <4>2, <4>3, MinOfTwo
      <4>5. b \in 0..Lookback + 1
        BY <3>4, <4>3, <4>4
      <4>6. aged[i] = [h[i] EXCEPT !.age = Min({h[i].age + 1, Lookback + 1})]
        BY <3>5 DEF Aged
      <4> HIDE DEF aged
      <4>7. h[i].age = a
        BY <4>1
      <4>8. aged[i] = [h[i] EXCEPT !.age = b]
        BY <4>2, <4>6, <4>7
      <4>9. aged[i] = [mid |-> m, age |-> b]
        BY <4>1, <4>8
      <4> QED
        BY <4>1, <4>3, <4>4, <4>5, <4>9 DEF Observed
    <3>6. aged \in Seq(Observed(top))
      <4>1. aged \in [1..Len(h) -> Observed(top)]
        BY <3>4, <3>5 DEF Aged
      <4> HIDE DEF aged
      <4> QED
        BY <3>4, <4>1
    <3>7. DOMAIN aged = DOMAIN h
      BY DEF Aged
    <3> HIDE DEF aged
    <3>8. NewestFirst(aged)
      <4> SUFFICES ASSUME NEW i \in DOMAIN h, NEW j \in DOMAIN h, i <= j
                   PROVE  aged[i].age <= aged[j].age
        BY <3>7 DEF NewestFirst
      <4>1. h[i].age <= h[j].age
        BY <3>0, <3>2 DEF SignalsIInv, NewestFirst
      <4> QED
        BY <4>1, <3>4, <3>5
    <3>9. /\ history' \in [Pair -> Seq(Observed(top))]
          /\ history'["yes"] = aged
      BY <2>1, <2>2, <3>3, <3>6
    <3>10. SignalsTypeOK'
      BY <2>1, <3>1, <3>9 DEF SignalsTypeOK, Mids, Observed
    <3>11. SignalsAsDocumented'
      BY <3>0, <3>1 DEF SignalsAsDocumented, DropsAreRecent, SpikesFiltered, SignalsDiverge,
         SignalsExpire
    <3> QED
      BY <3>0, <3>1, <3>8, <3>9, <3>10, <3>11 DEF SignalsIInv
  <2>l. ASSUME NEW t \in Pair, LoseMid(t) PROVE SignalsIInv'
    <3>1. /\ detector' = detector /\ history' = history /\ confirm' = confirm
          /\ signal' = signal /\ intent' = {} /\ rises' = rises /\ waited' = waited
          /\ mid' = [mid EXCEPT ![t] = NoMid] /\ detector = "breakout"
      BY <2>l DEF LoseMid
    <3>0. signal = NoSignal
      BY <3>1 DEF SignalsIInv
    <3>2. mid' \in [Pair -> Mids \union {NoMid}]
      BY <2>1, <3>1
    <3>3. SignalsTypeOK'
      BY <2>1, <3>1, <3>2 DEF SignalsTypeOK, Mids, Observed
    <3>4. SignalsAsDocumented'
      BY <3>0, <3>1 DEF SignalsAsDocumented, DropsAreRecent, SpikesFiltered, SignalsDiverge,
         SignalsExpire
    <3> QED
      BY <3>0, <3>1, <3>3, <3>4 DEF SignalsIInv, NewestFirst
  <2>m. ASSUME NEW t \in Pair, MidUpdate(t) PROVE SignalsIInv'
    <3>1. PICK m \in Mids, free \in BOOLEAN :
            /\ mid' = [mid EXCEPT ![t] = m]
            /\ \/ t = "yes" /\ DropOnBookUpdate(m, free)
               \/ BreakoutOnBookUpdate(t, m, free)
               \/ t = "yes" /\ DivergenceOnBookUpdate(m, free)
            /\ UNCHANGED detector
      BY <2>m DEF MidUpdate
    <3>2. mid' \in [Pair -> Mids \union {NoMid}] /\ detector' = detector
      BY <2>1, <3>1
    <3>3. m \in 1..top /\ m \in Nat \ {0} /\ top \in Nat
      BY <2>1
    <3>d. CASE t = "yes" /\ DropOnBookUpdate(m, free)
      <4>0. detector = "drop" /\ signal = NoSignal
        BY <3>d DEF DropOnBookUpdate, SignalsIInv
      <4>1. PICK h \in Seq(Observed(top)) : h = history["yes"]
        BY <2>2, <2>3
      <4>2. PICK p : p = TimedPush(h, m)
        OBVIOUS
      <4>3. /\ history' = [history EXCEPT !["yes"] = p]
            /\ UNCHANGED <<confirm, signal, rises, waited>>
        BY <3>d, <4>1, <4>2 DEF DropOnBookUpdate
      <4>4. NewestFirst(h)
        BY <4>0, <4>1 DEF SignalsIInv
      <4>5. /\ p \in Seq(Observed(top)) /\ NewestFirst(p)
            /\ \A i \in DOMAIN p : p[i].age <= Lookback
        BY <3>3, <4>2, <4>4, TimedPushed
      <4>6. /\ history' \in [Pair -> Seq(Observed(top))]
            /\ history'["yes"] = p
        BY <2>1, <2>2, <4>3, <4>5
      <4>7. intent' = IF Dropped(p) /\ free THEN {"yes"} ELSE {}
        BY <3>d, <4>6 DEF DropOnBookUpdate
      <4>8. intent' \subseteq Pair
        BY <2>2, <4>7
      <4>9. SignalsTypeOK'
        BY <2>1, <3>2, <4>3, <4>6, <4>8 DEF SignalsTypeOK, Mids, Observed
      <4>10. DropsAreRecent'
        <5> SUFFICES ASSUME intent' # {}
                     PROVE  \E i \in DOMAIN p :
                               /\ p[i].age <= Lookback
                               /\ (p[i].mid - p[1].mid) * 10000 >= MinMoveBps * p[i].mid
          BY <4>6 DEF DropsAreRecent
        <5>1. Len(p) >= 2 /\ (p[1].mid - Last(p).mid) * 10000 <= -MinMoveBps * Last(p).mid
          BY <4>7 DEF Dropped
        <5>2. PICK n : n = Len(p)
          OBVIOUS
        <5>3. n \in DOMAIN p /\ 1 \in DOMAIN p /\ Last(p) = p[n]
          BY <4>5, <5>1, <5>2 DEF Last
        <5>4. p[n] \in Observed(top) /\ p[1] \in Observed(top)
          BY <4>5, <5>3
        <5>5. PICK b : b = p[1].mid
          OBVIOUS
        <5>6. PICK c : c = p[n].mid
          OBVIOUS
        <5>7. b \in Nat /\ c \in Nat
          BY <3>3, <5>4, <5>5, <5>6, ObservedTypes
        <5>8. (b - c) * 10000 <= -MinMoveBps * c
          BY <5>1, <5>3, <5>5, <5>6
        <5>9. (c - b) * 10000 >= MinMoveBps * c
          <6>1. PICK x : x = MinMoveBps * c
            OBVIOUS
          <6>2. x \in Nat /\ -MinMoveBps * c = -x
            BY <6>1, <5>7, SignalConstants
          <6> QED
            BY <6>1, <6>2, <5>7, <5>8
        <5> QED
          BY <4>5, <5>3, <5>5, <5>6, <5>9
      <4>11. SignalsAsDocumented'
        BY <4>0, <4>3, <3>2, <4>10 DEF SignalsAsDocumented, SpikesFiltered, SignalsDiverge, SignalsExpire
      <4> QED
        BY <4>0, <4>3, <3>2, <4>5, <4>6, <4>9, <4>11 DEF SignalsIInv
    <3>b. CASE BreakoutOnBookUpdate(t, m, free)
      <4>0. detector = "breakout" /\ signal = NoSignal
        BY <3>b DEF BreakoutOnBookUpdate, SignalsIInv
      <4>1. /\ history' = TboHistories(t, m) /\ TboConfirm(t, m, free)
            /\ rises' = [rises EXCEPT ![t] =
                  IF history[t] = <<>> \/ m <= history[t][1].mid THEN 0
                  ELSE Min({@ + 1, MinConfirm})]
            /\ UNCHANGED <<signal, waited>>
        BY <3>b DEF BreakoutOnBookUpdate
      <4>2. \A u \in Pair :
              /\ Len(history[u]) <= Lookback
              /\ confirm[u] <= rises[u]
              /\ confirm[u] > 0 => Len(history[u]) = Lookback
              /\ confirm[u] \in Nat /\ rises[u] \in Nat
              /\ confirm[u] <= MinConfirm /\ rises[u] <= MinConfirm
              /\ history[u] \in Seq(Observed(top)) /\ Len(history[u]) \in Nat
        BY <2>1, <2>3, <4>0, SignalConstants DEF SignalsIInv
      <4>3. Lookback \in Nat \ {0} /\ MinConfirm \in Nat \ {0}
        BY SignalConstants
      <4>4. ASSUME NEW u \in Pair
            PROVE  /\ history'[u] \in Seq(Observed(top))
                   /\ Len(history'[u]) <= Lookback /\ Len(history'[u]) >= Len(history[u])
                   /\ Len(history'[u]) \in Nat
        <5>1. /\ history[u] \in Seq(Observed(top)) /\ Len(history[u]) <= Lookback
              /\ Len(history[u]) \in Nat
          BY <4>2
        <5>2. CASE history'[u] = history[u]
          BY <5>1, <5>2
        <5>3. ASSUME NEW n \in 1..top, history'[u] = TboPush(history[u], n)
              PROVE  /\ history'[u] \in Seq(Observed(top))
                     /\ Len(history'[u]) <= Lookback /\ Len(history'[u]) >= Len(history[u])
                     /\ Len(history'[u]) \in Nat
          <6>1. PICK p : p = Capped(Push(history[u], n), Lookback)
            OBVIOUS
          <6>2. /\ p \in Seq(Observed(top))
                /\ Len(p) = IF Len(history[u]) < Lookback THEN Len(history[u]) + 1 ELSE Lookback
            BY <3>3, <5>1, <6>1, CountedPush
          <6>3. history'[u] = p
            BY <5>3, <6>1 DEF TboPush
          <6> QED
            BY <4>3, <5>1, <6>2, <6>3
        <5>4. mid[u] # NoMid => mid[u] \in 1..top
          BY <2>1
        <5>5. history'[u] = TboHistories(t, m)[u]
          BY <4>1
        <5>6. CASE u = t
          <6>1. history'[u] = TboPush(history[u], m)
            BY <5>5, <5>6, HistoriesAt
          <6> QED
            BY <6>1, <5>3, <3>3
        <5>7. CASE u # t /\ mid[u] # NoMid
          <6>1. history'[u] = TboPush(history[u], mid[u]) /\ mid[u] \in 1..top
            BY <5>4, <5>5, <5>7, HistoriesAt
          <6> QED
            BY <6>1, <5>3
        <5>8. CASE u # t /\ mid[u] = NoMid
          BY <5>2, <5>5, <5>8, HistoriesAt
        <5> QED
          BY <5>6, <5>7, <5>8
      <4>5. history' \in [Pair -> Seq(Observed(top))]
        <5>1. history' = [u \in Pair |-> history'[u]]
          BY <4>1 DEF TboHistories
        <5> QED
          BY <5>1, <4>4
      <4>6. PICK h \in Seq(Observed(top)) : h = history[t]
        BY <4>2
      <4>7. PICK p \in Seq(Observed(top)) : p = history'[t]
        BY <4>4
      <4>8. /\ Len(h) \in Nat
            /\ Len(p) = IF Len(h) < Lookback THEN Len(h) + 1 ELSE Lookback
            /\ p[1].mid = m
            /\ Len(p) >= 2 => h # <<>> /\ p[2] = h[1]
        <5>1. p = Capped(Push(h, m), Lookback)
          <6>1. TboHistories(t, m)[t] = TboPush(history[t], m)
            BY HistoriesAt
          <6> QED
            BY <6>1, <4>1, <4>6, <4>7 DEF TboPush
        <5>2. Len(h) <= Lookback
          BY <4>2, <4>6
        <5> QED
          BY <3>3, <5>1, <5>2, CountedPush
      <4>9. TboHistories(t, m)[t] = p
        BY <4>1, <4>7
      <4>10. PICK r : r = rises'[t]
        OBVIOUS
      <4>11. PICK c : c = confirm'[t]
        OBVIOUS
      <4>12. /\ r \in Nat /\ r <= MinConfirm
             /\ rises' = [rises EXCEPT ![t] = r]
             /\ Above(p) => r = IF rises[t] + 1 <= MinConfirm THEN rises[t] + 1 ELSE MinConfirm
        <5>1. r = IF h = <<>> \/ m <= h[1].mid THEN 0 ELSE Min({rises[t] + 1, MinConfirm})
          BY <2>1, <4>1, <4>6, <4>10
        <5>2. rises' = [rises EXCEPT ![t] = r]
          BY <2>1, <4>1, <4>10
        <5>3. rises[t] \in Nat
          BY <4>2
        <5>4. Min({rises[t] + 1, MinConfirm})
                = IF rises[t] + 1 <= MinConfirm THEN rises[t] + 1 ELSE MinConfirm
          BY <4>3, <5>3, MinOfTwo
        <5>5. r \in Nat /\ r <= MinConfirm
          BY <4>3, <5>1, <5>3, <5>4
        <5>6. ASSUME Above(p) PROVE ~(h = <<>> \/ m <= h[1].mid)
          <6>1. Len(p) >= 1
            BY <4>3, <4>8
          <6>2. Len(p) >= 2 /\ p[1].mid > p[2].mid
            BY <3>3, <5>6, <6>1, AboveIsRise
          <6>3. h # <<>> /\ p[2] = h[1] /\ m > h[1].mid
            BY <4>8, <6>2
          <6>4. h[1] \in Observed(top)
            BY <6>3
          <6>5. h[1].mid \in Nat
            BY <3>3, <6>4, ObservedTypes
          <6> QED
            BY <3>3, <6>3, <6>5
        <5> QED
          BY <5>1, <5>2, <5>4, <5>5, <5>6
      <4>13. /\ c \in Nat /\ c <= MinConfirm /\ c <= r
             /\ confirm' = [confirm EXCEPT ![t] = c]
             /\ c > 0 => Len(p) = Lookback
             /\ intent' \subseteq {t}
             /\ intent' # {} => r >= MinConfirm
        <5>0. /\ confirm[t] \in Nat /\ rises[t] \in Nat /\ confirm[t] <= rises[t]
              /\ confirm[t] > 0 => Len(h) = Lookback
              /\ Len(p) <= Lookback /\ Len(p) \in Nat
          BY <4>2, <4>4, <4>6, <4>7
        <5>1. CASE Len(p) < Lookback
          <6>1. confirm' = confirm /\ intent' = {}
            <7>1. ~(Len(p) >= Lookback)
              BY <4>3, <5>0, <5>1
            <7> QED
              BY <4>1, <4>9, <5>1, <7>1 DEF TboConfirm
          <6>2. confirm[t] = 0
            BY <4>3, <4>8, <5>0, <5>1
          <6>3. c = 0 /\ confirm' = [confirm EXCEPT ![t] = c]
            BY <2>1, <4>11, <6>1, <6>2
          <6>4. c \in Nat /\ c <= MinConfirm /\ c <= r /\ ~(c > 0)
            <7>1. r \in Nat
              BY <4>12
            <7> QED
              BY <7>1, <4>3, <6>3
          <6> QED
            BY <6>1, <6>3, <6>4
        <5>2. CASE Len(p) >= Lookback /\ Above(p)
          <6> DEFINE count == confirm[t] + 1
                     fires == count >= MinConfirm /\ free
          <6>1. /\ confirm' = [confirm EXCEPT ![t] = IF fires THEN 0 ELSE Min({count, MinConfirm})]
                /\ intent' = IF fires THEN {t} ELSE {}
            <7>1. ~(Len(p) < Lookback)
              BY <4>3, <5>0, <5>2
            <7> QED
              BY <4>1, <4>9, <5>2, <7>1 DEF TboConfirm
          <6>2. c = IF fires THEN 0 ELSE Min({count, MinConfirm})
            BY <2>1, <4>11, <6>1
          <6>3. confirm' = [confirm EXCEPT ![t] = c]
            BY <6>1, <6>2
          <6>4. fires => count >= MinConfirm
            OBVIOUS
          <6>5. count \in Nat /\ count = confirm[t] + 1
            BY <5>0
          <6> HIDE DEF fires, count
          <6>6. Min({count, MinConfirm}) = IF count <= MinConfirm THEN count ELSE MinConfirm
            BY <4>3, <6>5, MinOfTwo
          <6>7. r = IF rises[t] + 1 <= MinConfirm THEN rises[t] + 1 ELSE MinConfirm
            BY <4>12, <5>2
          <6>8. c \in Nat /\ c <= MinConfirm /\ c <= r
            <7>1. c = 0 \/ c = IF confirm[t] + 1 <= MinConfirm THEN confirm[t] + 1 ELSE MinConfirm
              BY <6>2, <6>5, <6>6
            <7>2. MinConfirm \in Nat /\ confirm[t] \in Nat /\ rises[t] \in Nat
                  /\ confirm[t] <= rises[t]
              BY <4>3, <5>0
            <7>3. c \in Nat /\ c <= MinConfirm
                  /\ c <= IF rises[t] + 1 <= MinConfirm THEN rises[t] + 1 ELSE MinConfirm
              BY <7>1, <7>2, CountsSaturate
            <7> QED
              BY <6>7, <7>3
          <6>9. fires => r >= MinConfirm
            BY <4>3, <5>0, <6>4, <6>5, <6>7
          <6>10. Len(p) = Lookback
            BY <4>3, <5>0, <5>2
          <6>11. intent' \subseteq {t} /\ (intent' # {} => fires)
            BY <6>1
          <6> QED
            BY <6>3, <6>8, <6>9, <6>10, <6>11
        <5>3. CASE Len(p) >= Lookback /\ ~Above(p)
          <6>1. confirm' = [confirm EXCEPT ![t] = 0] /\ intent' = {}
            <7>1. ~(Len(p) < Lookback)
              BY <4>3, <5>0, <5>3
            <7> QED
              BY <4>1, <4>9, <5>3, <7>1 DEF TboConfirm
          <6>2. c = 0 /\ confirm' = [confirm EXCEPT ![t] = c]
            BY <2>1, <4>11, <6>1
          <6>4. c \in Nat /\ c <= MinConfirm /\ c <= r /\ ~(c > 0)
            <7>1. r \in Nat
              BY <4>12
            <7> QED
              BY <7>1, <4>3, <6>2
          <6> QED
            BY <6>1, <6>2, <6>4
        <5>4. Len(p) < Lookback \/ Len(p) >= Lookback
          BY <4>3, <5>0
        <5> QED
          BY <5>1, <5>2, <5>3, <5>4
      <4>14. \A u \in Pair \ {t} : confirm'[u] = confirm[u] /\ rises'[u] = rises[u]
        BY <2>1, <4>12, <4>13
      <4>15. confirm'[t] = c /\ rises'[t] = r
        BY <4>10, <4>11
      <4>16. ASSUME NEW u \in Pair
             PROVE  /\ confirm'[u] <= rises'[u] /\ Len(history'[u]) <= Lookback
                    /\ confirm'[u] > 0 => Len(history'[u]) = Lookback
        <5>1. CASE u = t
          BY <5>1, <4>4, <4>7, <4>13, <4>15
        <5>2. CASE u # t
          <6>1. confirm'[u] = confirm[u] /\ rises'[u] = rises[u]
            BY <5>2, <4>14
          <6>2. /\ confirm[u] <= rises[u]
                /\ confirm[u] > 0 => Len(history[u]) = Lookback
                /\ Len(history'[u]) <= Lookback /\ Len(history'[u]) >= Len(history[u])
                /\ Len(history'[u]) \in Nat /\ Len(history[u]) \in Nat
            BY <4>2, <4>4
          <6> QED
            BY <6>1, <6>2, <4>3
        <5> QED
          BY <5>1, <5>2
      <4>17. confirm' \in [Pair -> 0..MinConfirm] /\ rises' \in [Pair -> 0..MinConfirm]
        <5>1. c \in 0..MinConfirm /\ r \in 0..MinConfirm
          BY <4>3, <4>12, <4>13
        <5> QED
          BY <2>1, <4>12, <4>13, <5>1
      <4>18. SignalsTypeOK'
        <5>1. intent' \subseteq Pair
          BY <4>13
        <5> QED
          BY <2>1, <3>2, <4>1, <4>5, <4>17, <5>1 DEF SignalsTypeOK, Mids, Observed
      <4>19. SpikesFiltered'
        BY <4>13, <4>15 DEF SpikesFiltered
      <4>20. SignalsAsDocumented'
        BY <4>0, <4>1, <3>2, <4>19 DEF SignalsAsDocumented, DropsAreRecent, SignalsDiverge,
           SignalsExpire
      <4> QED
        BY <4>0, <4>1, <3>2, <4>16, <4>18, <4>20 DEF SignalsIInv
    <3>g. CASE t = "yes" /\ DivergenceOnBookUpdate(m, free)
      <4>0. detector = "divergence" /\ UNCHANGED <<confirm, rises>>
        BY <3>g DEF DivergenceOnBookUpdate
      <4>1. PICK h \in Seq(Observed(top)) : h = history["yes"]
        BY <2>2, <2>3
      <4>2. PICK p : p = Capped(Push(h, m), Lookback)
        OBVIOUS
      <4>3. Len(h) <= Lookback
        BY <4>0, <4>1 DEF SignalsIInv
      <4>4. /\ p \in Seq(Observed(top)) /\ Len(h) \in Nat
            /\ Len(p) = IF Len(h) < Lookback THEN Len(h) + 1 ELSE Lookback
        BY <3>3, <4>2, <4>3, CountedPush
      <4>5. /\ history' = [history EXCEPT !["yes"] = p]
            /\ history' \in [Pair -> Seq(Observed(top))]
            /\ history'["yes"] = p
        <5>1. history' = [history EXCEPT !["yes"] = p]
          BY <3>g, <4>1, <4>2 DEF DivergenceOnBookUpdate, TbtPush
        <5> QED
          BY <2>1, <2>2, <4>4, <5>1
      <4>6. /\ IF Len(p) < Lookback THEN UNCHANGED signal /\ intent' = {}
               ELSE PendingSignal(m, free) \/ ScanForDivergence(p, m)
            /\ waited' = IF signal = NoSignal THEN 0 ELSE Min({waited + 1, SignalExpiry + 1})
        BY <3>g, <4>5 DEF DivergenceOnBookUpdate
      <4>7. Lookback \in Nat \ {0} /\ SignalExpiry \in Nat \ {0}
        BY SignalConstants
      <4>8. PICK k \in 0..SignalExpiry, v \in Mids \union {NoMid} : signal = [mid |-> v, ticks |-> k]
        BY <2>1
      <4>9. signal # NoSignal => Len(h) = Lookback /\ waited = k /\ v # NoMid
        BY <4>1, <4>8 DEF SignalsIInv
      <4>10. signal # NoSignal => waited' = k + 1
        <5>1. k + 1 \in Int /\ SignalExpiry + 1 \in Int /\ k + 1 <= SignalExpiry + 1
          BY <4>7
        <5>2. Min({k + 1, SignalExpiry + 1}) = k + 1
          BY <5>1, MinOfTwo
        <5> QED
          BY <4>6, <4>9, <5>2
      <4>11. Len(p) <= Lookback /\ Len(p) \in Nat
        BY <4>4, <4>7
      <4>n. CASE signal' = NoSignal /\ waited' = 0 /\ intent' = {}
        <5>1. SignalsTypeOK'
          <6>1. NoSignal \in [mid : Mids \union {NoMid}, ticks : 0..SignalExpiry]
            BY <4>7 DEF NoSignal
          <6>2. 0 \in 0..SignalExpiry + 1
            BY <4>7
          <6> QED
            BY <2>1, <3>2, <4>0, <4>5, <4>n, <6>1, <6>2 DEF SignalsTypeOK, Mids, Observed
        <5>2. SignalsAsDocumented'
          BY <4>n DEF SignalsAsDocumented, DropsAreRecent, SpikesFiltered, SignalsDiverge,
             SignalsExpire
        <5> QED
          BY <3>2, <4>0, <4>5, <4>11, <4>n, <5>1, <5>2 DEF SignalsIInv
      <4>a. CASE Len(p) < Lookback
        <5>1. signal' = signal /\ intent' = {}
          BY <4>6, <4>a
        <5>2. signal = NoSignal
          BY <4>4, <4>7, <4>9, <4>a
        <5> QED
          BY <4>6, <5>1, <5>2, <4>n
      <4>b. CASE Len(p) = Lookback /\ PendingSignal(m, free)
        <5>1. signal # NoSignal /\ waited' = k + 1 /\ v # NoMid
          BY <4>b, <4>9, <4>10 DEF PendingSignal
        <5> DEFINE expired == k + 1 > SignalExpiry
                   pulledBack == m * 10000 <= v * (10000 - PullbackBps)
        <5>2. /\ signal' = IF expired \/ pulledBack THEN NoSignal
                           ELSE [mid |-> v, ticks |-> k + 1]
              /\ intent' = IF ~expired /\ pulledBack /\ free THEN {"yes"} ELSE {}
          BY <4>b, <4>8 DEF PendingSignal
        <5>3. ~expired => k + 1 \in 0..SignalExpiry
          BY <4>7
        <5>4. intent' \subseteq Pair /\ (intent' # {} => ~expired)
          BY <2>2, <5>2
        <5>5. waited' \in 0..SignalExpiry + 1
          BY <4>7, <5>1
        <5>6. signal' = NoSignal \/ (~expired /\ signal' = [mid |-> v, ticks |-> k + 1])
          BY <5>2
        <5>7. ~expired => k + 1 <= SignalExpiry
          BY <4>7
        <5> HIDE DEF expired, pulledBack
        <5>8. signal' \in [mid : Mids \union {NoMid}, ticks : 0..SignalExpiry]
          <6>1. NoSignal \in [mid : Mids \union {NoMid}, ticks : 0..SignalExpiry]
            BY <4>7 DEF NoSignal
          <6> QED
            BY <5>3, <5>6, <6>1
        <5>9. SignalsTypeOK'
          BY <2>1, <3>2, <4>0, <4>5, <5>4, <5>5, <5>8 DEF SignalsTypeOK, Mids, Observed
        <5>10. signal' # NoSignal => waited' = signal'.ticks /\ signal'.mid # NoMid /\ signal'.ticks # 0
          BY <5>1, <5>6
        <5>11. SignalsExpire'
          BY <5>1, <5>4, <5>7 DEF SignalsExpire
        <5>12. SignalsDiverge'
          BY <5>10 DEF SignalsDiverge
        <5>13. SignalsAsDocumented'
          BY <3>2, <4>0, <5>11, <5>12 DEF SignalsAsDocumented, DropsAreRecent, SpikesFiltered
        <5> QED
          BY <3>2, <4>0, <4>5, <4>11, <4>b, <5>9, <5>10, <5>13 DEF SignalsIInv
      <4>c. CASE Len(p) = Lookback /\ ScanForDivergence(p, m)
        <5>1. /\ signal = NoSignal /\ intent' = {} /\ waited' = 0
              /\ signal' = IF Divergence(p) THEN [mid |-> m, ticks |-> 0] ELSE NoSignal
          BY <4>c, <4>6 DEF ScanForDivergence
        <5>2. CASE ~Divergence(p)
          BY <5>1, <5>2, <4>n
        <5>3. CASE Divergence(p)
          <6>1. signal' = [mid |-> m, ticks |-> 0]
            BY <5>1, <5>3
          <6>2. /\ signal' \in [mid : Mids \union {NoMid}, ticks : 0..SignalExpiry]
                /\ signal'.mid # NoMid /\ waited' = signal'.ticks
            BY <3>3, <4>7, <5>1, <6>1 DEF NoMid
          <6>3. SignalsTypeOK'
            <7>1. 0 \in 0..SignalExpiry + 1
              BY <4>7
            <7> QED
              BY <2>1, <3>2, <4>0, <4>5, <5>1, <6>2, <7>1 DEF SignalsTypeOK, Mids, Observed
          <6>4. Diverges(p)
            BY <3>3, <4>4, <4>c, <5>3, DivergenceFound
          <6>5. SignalsDiverge'
            BY <4>5, <6>4 DEF SignalsDiverge, Diverges
          <6>6. SignalsAsDocumented'
            BY <5>1, <6>5 DEF SignalsAsDocumented, DropsAreRecent, SpikesFiltered, SignalsExpire
          <6> QED
            BY <3>2, <4>0, <4>5, <4>c, <6>2, <6>3, <6>6 DEF SignalsIInv
        <5> QED
          BY <5>2, <5>3
      <4>d. Len(p) < Lookback \/ Len(p) = Lookback
        BY <4>7, <4>11
      <4> QED
        BY <4>6, <4>a, <4>b, <4>c, <4>d
    <3> QED
      BY <3>1, <3>d, <3>b, <3>g
  <2> QED
    BY <2>s, <2>a, <2>l, <2>m DEF SignalsNext
<1> QED
  BY <1>1, <1>2, PTL DEF SignalsSpec

\* The signals' state has its types.
THEOREM SignalsTypeCorrect == SignalsSpec => []SignalsTypeOK
<1>1. SignalsIInv => SignalsTypeOK
  BY DEF SignalsIInv
<1> QED
  BY <1>1, SignalsIInvHolds, PTL

\* An entry is on a drop from within the window, on a breakout that rose as many
\* updates in a row as asked for, or on a divergence that has not expired and that was
\* a lower low with a higher momentum when it was found.
THEOREM SignalsHold == SignalsSpec => []SignalsAsDocumented
<1>1. SignalsIInv => SignalsAsDocumented
  BY DEF SignalsIInv
<1> QED
  BY <1>1, SignalsIInvHolds, PTL
===============================================================================
