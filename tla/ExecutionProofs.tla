--------------------------- MODULE ExecutionProofs ---------------------------
(***************************************************************************)
(* Proofs about what an order passes on its way to the exchange.           *)
(*                                                                         *)
(* QuantizeSize: Euclid's algorithm ends with a common divisor that is a   *)
(* combination of both numbers (Bezout), so exactly the multiples of a lot *)
(* are worth whole cents.                                                  *)
(*                                                                         *)
(* GroupExecution: for any groups, prices and sizes, a group returns with  *)
(* equal legs or with the breaker open: a sell is never FullyFilled, so    *)
(* every unwind, also one that was sold, ends in the breaker.              *)
(*                                                                         *)
(* RateLimiter: for any windows and thresholds, however the deque is       *)
(* pruned, neither window is ever granted more than its threshold.  The    *)
(* thresholds are compared with what the deque holds, the properties speak *)
(* of what was ever granted.  Remembered connects the two: up to the       *)
(* sustained window nothing granted is forgotten and nothing counted twice.*)
(***************************************************************************)
EXTENDS GroupExecution, RateLimiter, SumLemmas, SequenceTheorems

-----------------------------------------------------------------------------
(* The lot of a price *)

Row(r, b) == [a \in 0..100 |-> IF b = 0 THEN a ELSE r[a % b][b]]

\* A remainder is below its divisor.
LEMMA ModBelow ==
    ASSUME NEW a \in Nat, NEW b \in Nat \ {0}
    PROVE  a % b \in 0..(b - 1)
  OBVIOUS

\* For every bound there is a row function, so that the table of divisors is defined by it.
LEMMA RowsExist ==
    ASSUME NEW m \in Nat
    PROVE  \E r : r = [b \in 0..m |-> Row(r, b)]
<1> DEFINE N == {n \in Nat : \E r : r = [b \in 0..n |-> Row(r, b)]}
<1>1. 0 \in N
  <2> DEFINE r == [b \in 0..0 |-> [a \in 0..100 |-> a]]
  <2>1. \A b \in 0..0 : [a \in 0..100 |-> a] = Row(r, b)
    BY DEF Row
  <2>2. r = [b \in 0..0 |-> Row(r, b)]
    BY <2>1
  <2> QED
    BY <2>2
<1>2. ASSUME NEW n \in N PROVE n + 1 \in N
  <2>1. PICK r : r = [b \in 0..n |-> Row(r, b)]
    OBVIOUS
  <2> DEFINE q == [b \in 0..(n + 1) |-> IF b <= n THEN r[b] ELSE Row(r, n + 1)]
  <2>2. ASSUME NEW b \in 0..(n + 1) PROVE Row(q, b) = Row(r, b)
    <3>1. ASSUME NEW a \in 0..100, b # 0 PROVE q[a % b] = r[a % b]
      <4>1. a % b \in 0..(b - 1)
        BY <3>1, ModBelow
      <4>2. a % b \in 0..n
        BY <4>1
      <4> QED
        BY <4>2
    <3> HIDE DEF q
    <3> QED
      BY <3>1, Zenon DEF Row
  <2>3. \A b \in 0..(n + 1) : q[b] = Row(r, b)
    <3>1. \A b \in 0..n : r[b] = Row(r, b)
      BY <2>1
    <3>2. \A b \in 0..(n + 1) : b <= n => b \in 0..n
      OBVIOUS
    <3>3. \A b \in 0..(n + 1) : ~(b <= n) => b = n + 1
      OBVIOUS
    <3> QED
      BY <3>1, <3>2, <3>3
  <2>4. q = [b \in 0..(n + 1) |-> q[b]]
    OBVIOUS
  <2> HIDE DEF q
  <2>5. \A b \in 0..(n + 1) : q[b] = Row(q, b)
    BY <2>2, <2>3
  <2>6. q = [b \in 0..(n + 1) |-> Row(q, b)]
    BY <2>4, <2>5, Zenon
  <2>7. n + 1 \in Nat
    OBVIOUS
  <2> QED
    BY <2>6, <2>7
<1> HIDE DEF N
<1>3. N = Nat
  <2>1. N \subseteq Nat
    BY DEF N
  <2> QED
    BY <1>1, <1>2, <2>1, SetInduction
<1> QED
  BY <1>3 DEF N

\* The table of greatest common divisors satisfies Euclid's recurrence.
LEMMA GcdAt ==
    \A a, b \in 0..100 : Gcd[b][a] = IF b = 0 THEN a ELSE Gcd[a % b][b]
<1>1. \E r : r = [b \in 0..100 |-> Row(r, b)]
  BY RowsExist
<1>2. Gcd = [b \in 0..100 |-> Row(Gcd, b)]
  BY <1>1 DEF Gcd, Row
<1> SUFFICES ASSUME NEW a \in 0..100, NEW b \in 0..100
             PROVE  Gcd[b][a] = IF b = 0 THEN a ELSE Gcd[a % b][b]
  OBVIOUS
<1>3. Gcd[b] = Row(Gcd, b)
  BY <1>2
<1>4. Row(Gcd, b)[a] = IF b = 0 THEN a ELSE Gcd[a % b][b]
  BY DEF Row
<1> QED
  BY <1>3, <1>4

\* g divides both and is a combination of both.
Bezout(g, a, b) == \E u, v \in Nat, x, y \in Int :
    a = g * u /\ b = g * v /\ g = a * x + b * y

\* A common divisor of the divisor and the remainder, with its coefficients, is one of the two numbers.
LEMMA EuclidStep ==
    ASSUME NEW a \in Nat, NEW b \in Nat \ {0}, NEW g \in Nat, Bezout(g, b, a % b)
    PROVE  Bezout(g, a, b)
<1> DEFINE c == a % b
           q == a \div b
<1>1. PICK u \in Nat, v \in Nat, x \in Int, y \in Int :
        b = g * u /\ c = g * v /\ g = b * x + c * y
  BY DEF Bezout
<1>2. q \in Nat /\ c \in Nat /\ a = b * q + c
  OBVIOUS
<1> HIDE DEF c, q
<1>3. a = g * (u * q + v)
  <2>1. a = (g * u) * q + g * v
    BY <1>1, <1>2
  <2> QED
    BY <2>1, <1>2
<1>4. g = a * y + b * (x - q * y)
  <2>1. c = a - b * q
    BY <1>2
  <2>2. g = b * x + (a - b * q) * y
    BY <2>1, <1>1
  <2> QED
    BY <2>2, <1>2
<1>5. u * q + v \in Nat /\ u \in Nat /\ y \in Int /\ x - q * y \in Int
  BY <1>2
<1> QED
  BY <1>1, <1>3, <1>4, <1>5 DEF Bezout

\* The table's entries divide both numbers and are a combination of them.
LEMMA GcdDivides ==
    ASSUME NEW a \in 0..100, NEW b \in 0..100, a + b > 0
    PROVE  Gcd[b][a] \in 1..100 /\ Bezout(Gcd[b][a], a, b)
<1> DEFINE Good(n) == \A d, c \in 0..100 : d <= n /\ c + d > 0 =>
                          Gcd[d][c] \in 1..100 /\ Bezout(Gcd[d][c], c, d)
           N == {n \in Nat : Good(n)}
<1>1. 0 \in N
  <2> SUFFICES ASSUME NEW d \in 0..100, NEW c \in 0..100, d <= 0, c + d > 0
               PROVE  Gcd[d][c] \in 1..100 /\ Bezout(Gcd[d][c], c, d)
    OBVIOUS
  <2>1. d = 0 /\ c \in 1..100
    OBVIOUS
  <2>2. Gcd[d][c] = c
    BY <2>1, GcdAt
  <2>3. c = c * 1 /\ d = c * 0 /\ c = c * 1 + d * 0
    BY <2>1
  <2>4. Bezout(c, c, d)
    BY <2>3 DEF Bezout
  <2> QED
    BY <2>1, <2>2, <2>4
<1>2. ASSUME NEW n \in N PROVE n + 1 \in N
  <2> HIDE DEF Good
  <2>0. n \in Nat /\ n + 1 \in Nat /\ Good(n)
    OBVIOUS
  <2> HIDE DEF N
  <2>1. SUFFICES ASSUME NEW d \in 0..100, NEW c \in 0..100, d <= n + 1, c + d > 0
                 PROVE  Gcd[d][c] \in 1..100 /\ Bezout(Gcd[d][c], c, d)
    BY <2>0 DEF N, Good
  <2>2. CASE d <= n
    BY <2>0, <2>1, <2>2 DEF Good
  <2>3. CASE ~(d <= n)
    <3>1. d = n + 1 /\ d # 0 /\ d \in Nat \ {0} /\ c \in Nat
      BY <2>0, <2>1, <2>3
    <3> DEFINE k == c % d
    <3>2. k \in 0..(d - 1)
      BY <3>1, ModBelow
    <3>3. k \in 0..100 /\ k <= n /\ d + k > 0
      BY <3>1, <3>2, <2>0
    <3>4. Gcd[d][c] = Gcd[k][d]
      BY <3>1, GcdAt
    <3>5. Gcd[k][d] \in 1..100 /\ Bezout(Gcd[k][d], d, k)
      BY <2>0, <3>3 DEF Good
    <3> DEFINE g == Gcd[k][d]
    <3>6. Bezout(g, d, c % d)
      BY <3>5
    <3>7. g \in Nat
      BY <3>5
    <3> HIDE DEF g
    <3>8. Bezout(g, c, d)
      BY <3>1, <3>6, <3>7, EuclidStep
    <3> QED
      BY <3>4, <3>5, <3>8 DEF g
  <2> QED
    BY <2>2, <2>3
<1>3. N = Nat
  <2> HIDE DEF Good
  <2>1. N \subseteq Nat
    OBVIOUS
  <2> HIDE DEF N
  <2> QED
    BY <1>1, <1>2, <2>1, SetInduction
<1>4. b \in Nat
  OBVIOUS
<1> HIDE DEF Good
<1>5. Good(b)
  BY <1>3, <1>4
<1>6. b <= b
  BY <1>4
<1> QED
  BY <1>5, <1>6 DEF Good

\* Prices, in tenths of a cent.
Mills == 1..999

\* A price in cents is within the cents, and exact when the price is whole cents.
LEMMA PriceCentsType ==
    ASSUME NEW p \in Mills
    PROVE  /\ PriceCents(p) \in 1..100
           /\ WholeCents(p) => p = 10 * PriceCents(p)
<1> p \in Nat /\ 1 <= p /\ p <= 999
  BY DEF Mills
<1>1. p \div 10 \in 0..99 /\ p % 10 \in 0..9 /\ p = 10 * (p \div 10) + (p % 10)
  OBVIOUS
<1> QED
  BY <1>1 DEF PriceCents, WholeCents

\* A hundred is the lot times the divisor.
LEMMA LotDivides ==
    ASSUME NEW p \in Mills
    PROVE  \E g \in 1..100 : /\ Lot(p) \in 1..100 /\ g * Lot(p) = 100
                             /\ Bezout(g, PriceCents(p), 100)
<1> DEFINE c == PriceCents(p)
           g == Gcd[100][c]
<1>1. c \in 1..100
  BY PriceCentsType
<1>2. c \in 0..100 /\ 100 \in 0..100 /\ c + 100 > 0
  BY <1>1
<1>3. g \in 1..100 /\ Bezout(g, c, 100)
  BY <1>2, GcdDivides
<1>4. Lot(p) = 100 \div g
  BY DEF Lot
<1> HIDE DEF g, c
<1>5. PICK v \in Nat : 100 = g * v
  BY <1>3 DEF Bezout
<1>6. 100 \div g = v
  BY <1>3, <1>5
<1>7. v \in 1..100
  BY <1>3, <1>5
<1> QED
  BY <1>3, <1>4, <1>5, <1>6, <1>7 DEF c

\* A lot is between one and a hundred hundredths of a share.
LEMMA LotType ==
    ASSUME NEW p \in Mills
    PROVE  Lot(p) \in 1..100
<1>1. PICK g \in 1..100 : /\ Lot(p) \in 1..100 /\ g * Lot(p) = 100
                          /\ Bezout(g, PriceCents(p), 100)
  BY LotDivides
<1> QED
  BY <1>1

\* Multiples of the lot are worth whole cents.
LEMMA LotsInCents ==
    ASSUME NEW p \in Mills, WholeCents(p), NEW k \in Int
    PROVE  (p * (k * Lot(p))) % Cent = 0
<1> p \in Nat /\ 1 <= p /\ p <= 999
  BY DEF Mills
<1>0. PICK g \in 1..100 : /\ Lot(p) \in 1..100 /\ g * Lot(p) = 100
                          /\ Bezout(g, PriceCents(p), 100)
  BY LotDivides
<1>1. PICK u \in Nat : PriceCents(p) = g * u
  BY <1>0 DEF Bezout
<1>2. p = 10 * (g * u)
  BY <1>1, PriceCentsType
<1> DEFINE L == Lot(p)
<1>3. L \in 1..100 /\ g * L = 100
  BY <1>0
<1> HIDE DEF L
<1>4. p * (k * L) = 10 * ((g * L) * (u * k))
  BY <1>2, <1>3
<1>5. p * (k * L) = 1000 * (u * k)
  BY <1>3, <1>4
<1>6. u * k \in Int
  OBVIOUS
<1>7. \A z \in Int : (1000 * z) % 1000 = 0
  OBVIOUS
<1> QED
  BY <1>5, <1>6, <1>7 DEF L, Cent

\* Only they are.
LEMMA CentsInLots ==
    ASSUME NEW p \in Mills, WholeCents(p), NEW s \in Nat, (p * s) % Cent = 0
    PROVE  \E k \in Int : s = k * Lot(p)
<1>0. PICK g \in 1..100 : /\ Lot(p) \in 1..100 /\ g * Lot(p) = 100
                          /\ Bezout(g, PriceCents(p), 100)
  BY LotDivides
<1>1. PICK x \in Int, y \in Int : g = PriceCents(p) * x + 100 * y
  BY <1>0 DEF Bezout
<1>a. Lot(p) \in 1..100 /\ g * Lot(p) = 100 /\ g = PriceCents(p) * x + 100 * y
  BY <1>0, <1>1
<1>b. PriceCents(p) \in 1..100 /\ p = 10 * PriceCents(p)
  <2>1. PriceCents(p) \in 1..100 /\ (WholeCents(p) => p = 10 * PriceCents(p))
    BY PriceCentsType
  <2> QED
    BY <2>1
<1> DEFINE L == Lot(p)
           c == PriceCents(p)
           m == (p * s) \div 1000
<1>2. L \in 1..100 /\ g * L = 100 /\ c \in 1..100 /\ g = c * x + 100 * y /\ p = 10 * c
  BY <1>a, <1>b, Zenon
<1> p \in Nat /\ 1 <= p /\ p <= 999
  BY DEF Mills
<1>3. m \in Int /\ p * s = 1000 * m
  <2>1. \A z \in Int : z % 1000 = 0 => z \div 1000 \in Int /\ z = 1000 * (z \div 1000)
    OBVIOUS
  <2>2. p * s \in Int
    OBVIOUS
  <2> QED
    BY <2>1, <2>2 DEF Cent
<1> HIDE DEF L, c, m
<1>4. c * s = 100 * m
  <2>1. (10 * c) * s = 1000 * m
    BY <1>2, <1>3
  <2>2. (10 * c) * s = 10 * (c * s)
    BY <1>2
  <2>3. c * s \in Int
    BY <1>2
  <2> QED
    BY <2>1, <2>2, <2>3, <1>3
<1>5. g * s = 100 * (m * x + s * y)
  <2>1. g * s = (c * s) * x + 100 * (y * s)
    BY <1>2
  <2>2. g * s = (100 * m) * x + 100 * (y * s)
    BY <2>1, <1>4
  <2>3. (100 * m) * x = 100 * (m * x) /\ y * s = s * y
    BY <1>3
  <2> QED
    BY <2>2, <2>3, <1>3
<1> DEFINE k == m * x + s * y
<1>6. k \in Int
  BY <1>3
<1>7. g * s = g * (L * k)
  <2>1. g * s = (g * L) * k
    BY <1>5, <1>2
  <2> HIDE DEF k
  <2> QED
    BY <2>1, <1>2, <1>6
<1> HIDE DEF k
<1>8. s = L * k
  <2>1. L * k \in Int
    BY <1>2, <1>6
  <2>2. \A z, w \in Int : g * z = g * w => z = w
    OBVIOUS
  <2> QED
    BY <1>7, <2>1, <2>2
<1>9. s = k * L
  BY <1>8, <1>6, <1>2
<1> QED
  BY <1>6, <1>9 DEF L

\* A size cut to whole lots loses less than one lot.
LEMMA Floored ==
    ASSUME NEW s \in Nat, NEW n \in 1..100
    PROVE  /\ s \div n \in Nat /\ (s \div n) * n \in Nat
           /\ (s \div n) * n <= s /\ s < (s \div n) * n + n
<1>1. s \div n \in Nat /\ s % n \in 0..(n - 1) /\ s = n * (s \div n) + (s % n)
  OBVIOUS
<1> DEFINE q == s \div n
<1>2. q \in Nat /\ s % n \in 0..(n - 1) /\ s = n * q + (s % n)
  BY <1>1
<1> HIDE DEF q
<1>3. q * n = n * q /\ q * n \in Nat
  BY <1>2
<1> QED
  BY <1>2, <1>3 DEF q

\* What is submitted: a multiple of the lot, within a lot of what was asked.
LEMMA QuantizedType ==
    ASSUME NEW p \in Mills, NEW s \in Nat
    PROVE  /\ Quantized(p, s) \in Nat
           /\ Quantized(p, s) \in (s - 99)..(s + 100)
           /\ \E k \in Nat : Quantized(p, s) = k * Lot(p)
<1> p \in Nat /\ 1 <= p /\ p <= 999
  BY DEF Mills
<1> DEFINE L == Lot(p)
           k == s \div L
<1>1. L \in 1..100
  BY LotDivides
<1>2. k \in Nat /\ k * L \in Nat /\ k * L <= s /\ s < k * L + L
  BY <1>1, Floored
<1>3. Quantized(p, s) = IF p * (k * L) < Dollar THEN k * L + L ELSE k * L
  BY DEF Quantized
<1> HIDE DEF L, k
<1>4. Quantized(p, s) = k * L \/ Quantized(p, s) = k * L + L
  BY <1>3
<1>5. k * L + L = (k + 1) * L /\ k + 1 \in Nat
  BY <1>1, <1>2
<1>6. CASE Quantized(p, s) = k * L
  BY <1>1, <1>2, <1>6 DEF L
<1>7. CASE Quantized(p, s) = k * L + L
  <2>1. Quantized(p, s) = (k + 1) * L
    BY <1>5, <1>7
  <2>2. Quantized(p, s) \in Nat /\ Quantized(p, s) \in (s - 99)..(s + 100)
    BY <1>1, <1>2, <1>7
  <2> QED
    BY <2>1, <2>2, <1>5 DEF L
<1> QED
  BY <1>4, <1>6, <1>7

\* With a dollar of whole shares in the intent nothing is added.
LEMMA QuantizedDown ==
    ASSUME NEW p \in Mills, NEW n \in Nat, p * n >= 1000, NEW s \in Nat, s >= 100 * n
    PROVE  /\ Quantized(p, s) = (s \div Lot(p)) * Lot(p)
           /\ Quantized(p, s) <= s /\ s < Quantized(p, s) + Lot(p)
           /\ p * Quantized(p, s) >= Dollar
<1> p \in Nat /\ 1 <= p /\ p <= 999
  BY DEF Mills
<1> DEFINE L == Lot(p)
           k == s \div L
<1>1. PICK g \in 1..100 : L \in 1..100 /\ g * L = 100
  BY LotDivides
<1>2. k \in Nat /\ k * L \in Nat /\ k * L <= s /\ s < k * L + L
  BY <1>1, Floored
<1>3. Quantized(p, s) = IF p * (k * L) < Dollar THEN k * L + L ELSE k * L
  BY DEF Quantized
<1> HIDE DEF L, k
<1>4. k * L >= 100 * n
  <2> SUFFICES ASSUME k * L < 100 * n PROVE FALSE
    BY <1>1, <1>2
  <2>1. 100 * n = (g * n) * L
    BY <1>1
  <2>2. g * n \in Nat
    BY <1>1
  <2> DEFINE j == g * n
  <2>3. j \in Nat /\ k * L < j * L /\ j * L <= s
    BY <2>1, <2>2, <1>1
  <2> HIDE DEF j
  <2>4. k + 1 <= j
    BY <2>3, <1>1, <1>2
  <2>5. (k + 1) * L <= j * L
    BY <2>4, <2>3, <1>1, <1>2
  <2>6. (k + 1) * L = k * L + L
    BY <1>1, <1>2
  <2>7. j * L \in Nat
    BY <2>3, <1>1
  <2> QED
    BY <2>3, <2>5, <2>6, <2>7, <1>1, <1>2
<1>5. p * (k * L) >= Dollar
  <2> DEFINE f == k * L
  <2>1. f \in Nat /\ f >= 100 * n
    BY <1>2, <1>4
  <2> HIDE DEF f
  <2>2. p * f >= p * (100 * n)
    BY <2>1
  <2>3. p * (100 * n) = 100 * (p * n) /\ p * n \in Nat
    OBVIOUS
  <2>4. p * f \in Nat
    BY <2>1
  <2> QED
    BY <2>2, <2>3, <2>4 DEF f, Dollar, Cent
<1>6. Quantized(p, s) = k * L
  BY <1>2, <1>3, <1>5, <1>1 DEF Dollar, Cent
<1> QED
  BY <1>2, <1>5, <1>6 DEF L, k

\* No size in whole cents lies between the quantized one and what was asked for.
NoneLarger(p, s) == \A larger \in (Quantized(p, s) + 1)..s : (p * larger) % Cent # 0

\* Nothing larger within the intent is worth whole cents.
LEMMA QuantizedLargest ==
    ASSUME NEW p \in Mills, WholeCents(p), NEW s \in Nat,
           Quantized(p, s) = (s \div Lot(p)) * Lot(p)
    PROVE  NoneLarger(p, s)
<1> p \in Nat /\ 1 <= p /\ p <= 999
  BY DEF Mills
<1>0. SUFFICES ASSUME NEW larger \in (Quantized(p, s) + 1)..s, (p * larger) % Cent = 0
               PROVE  FALSE
  BY DEF NoneLarger
<1>a. Quantized(p, s) \in Nat
  BY QuantizedType
<1>b. larger \in Nat /\ larger > Quantized(p, s) /\ larger <= s
  BY <1>a
<1> DEFINE L == Lot(p)
           k == s \div L
<1>1. PICK j \in Int : larger = j * L
  BY <1>0, <1>b, CentsInLots
<1>2. L \in 1..100
  BY LotType
<1>3. k \in Nat /\ k * L \in Nat /\ k * L <= s /\ s < k * L + L
  BY <1>2, Floored
<1>4. j * L > k * L /\ j * L <= s
  BY <1>1, <1>b
<1> HIDE DEF L, k
<1>5. j >= k + 1
  BY <1>2, <1>3, <1>4
<1>6. j * L >= (k + 1) * L
  BY <1>2, <1>3, <1>5
<1>7. (k + 1) * L = k * L + L
  BY <1>2, <1>3
<1>8. j * L \in Int
  BY <1>2
<1> QED
  BY <1>2, <1>3, <1>4, <1>6, <1>7, <1>8

-----------------------------------------------------------------------------
(* Tasks of groups *)

\* FullyFilled is none of them: below a dollar a share the dollars that a sell
\* takes are fewer than its shares.
Stages == {"None", "New", "Posted", "PartialFill", "Cancelled", "Failed"}
Unwinds == [leg : Legs, size : Nat, stage : Stages]

TasksTypeOK ==
    /\ phase \in [Groups -> Phases]
    /\ intent \in [Groups -> Intents]
    /\ status \in [Groups -> [Legs -> Statuses]]
    /\ filled \in [Groups -> [Legs -> Nat]]
    /\ unwind \in [Groups -> Unwinds]

\* The leg that is not unwound.
Short(g) == 3 - unwind[g].leg

\* The unwind is for what the answers say the one leg has more than the other.
ExcessUnwound(g) ==
    /\ phase[g] \in {"idle", "legs"} => unwind[g].stage = "None"
    /\ phase[g] = "unwinding" =>
        /\ filled[g][unwind[g].leg] > filled[g][Short(g)]
        /\ unwind[g].size = UnwindSize(filled[g][unwind[g].leg] - filled[g][Short(g)])

GroupIInv == TasksTypeOK /\ \A g \in Groups : ExcessUnwound(g)

-----------------------------------------------------------------------------

\* An intent has a price for each leg and a size no smaller than either leg's minimum.
LEMMA IntentType ==
    ASSUME NEW i \in Intents, NEW l \in Legs
    PROVE  /\ i.price[l] \in Mills
           /\ i.size \in Nat /\ i.size >= 100 * MinimumShares(i.price[l])
<1>1. i \in [price : [Legs -> Mills], size : Nat]
  BY IntentsAssumption DEF Mills
<1>2. i.size >= 100 * MinimumShares(i.price[l])
  BY IntentsAssumption
<1> QED
  BY <1>1, <1>2

\* The minimum number of shares is worth at least a dollar at the leg's price.
LEMMA EnoughShares ==
    ASSUME NEW p \in Mills
    PROVE  MinimumShares(p) \in Nat /\ p * MinimumShares(p) >= 1000
<1> p \in Nat /\ 1 <= p /\ p <= 999
  BY DEF Mills
<1> DEFINE n == (1000 + p - 1) \div p
<1>1. n \in Nat /\ 1000 + p - 1 < p * n + p
  <2>1. \A z \in Nat : z \div p \in Nat /\ z % p < p /\ z = p * (z \div p) + (z % p)
    OBVIOUS
  <2>2. 1000 + p - 1 \in Nat
    OBVIOUS
  <2>3. n \in Nat /\ (1000 + p - 1) % p < p /\ 1000 + p - 1 = p * n + ((1000 + p - 1) % p)
    BY <2>1, <2>2
  <2> HIDE DEF n
  <2>4. p * n \in Nat /\ (1000 + p - 1) % p \in Int
    BY <2>2, <2>3
  <2> QED
    BY <2>3, <2>4
<1>2. MinimumShares(p) = n
  BY DEF MinimumShares
<1> HIDE DEF n
<1>3. p * n \in Nat
  BY <1>1
<1>4. p * n >= 1000
  BY <1>1, <1>3
<1> QED
  BY <1>1, <1>2, <1>4

\* The answers are compared with the smaller fill.
LEMMA MinOfFills ==
    ASSUME NEW g \in Groups, filled[g] \in [Legs -> Nat]
    PROVE  MinFilled(g) = IF filled[g][1] <= filled[g][2] THEN filled[g][1] ELSE filled[g][2]
<1> DEFINE a == filled[g][1]
           b == filled[g][2]
           m == IF a <= b THEN a ELSE b
<1>1. {filled[g][l] : l \in Legs} = {a, b}
  BY DEF Legs
<1>2. a \in Nat /\ b \in Nat
  BY DEF Legs
<1> HIDE DEF a, b
<1>3. m \in {a, b} /\ m <= a /\ m <= b
  BY <1>2
<1>4. \A z \in {a, b} : (\A y \in {a, b} : z <= y) => z = m
  BY <1>2
<1>5. Min({a, b}) = m
  BY <1>3, <1>4 DEF Min
<1> QED
  BY <1>1, <1>5 DEF MinFilled, a, b

\* A leg is overfilled against the other, and without one the two are equal.
LEMMA OverfilledLegs ==
    ASSUME NEW g \in Groups, filled[g] \in [Legs -> Nat]
    PROVE  /\ Overfilled(g) = {} => filled[g][1] = filled[g][2]
           /\ \A l \in Overfilled(g) : /\ l \in Legs /\ 3 - l \in Legs
                                       /\ filled[g][l] > filled[g][3 - l]
                                       /\ MinFilled(g) = filled[g][3 - l]
<1>1. MinFilled(g) = IF filled[g][1] <= filled[g][2] THEN filled[g][1] ELSE filled[g][2]
  BY MinOfFills
<1>2. filled[g][1] \in Nat /\ filled[g][2] \in Nat
  BY DEF Legs
<1>3. 3 - 1 = 2 /\ 3 - 2 = 1
  OBVIOUS
<1>4. ASSUME Overfilled(g) = {} PROVE filled[g][1] = filled[g][2]
  <2>1. ~(filled[g][1] > MinFilled(g)) /\ ~(filled[g][2] > MinFilled(g))
    BY <1>4 DEF Overfilled, Legs
  <2> QED
    BY <2>1, <1>1, <1>2
<1>5. ASSUME NEW l \in Overfilled(g)
      PROVE  /\ l \in Legs /\ 3 - l \in Legs
             /\ filled[g][l] > filled[g][3 - l]
             /\ MinFilled(g) = filled[g][3 - l]
  <2>1. l \in Legs /\ filled[g][l] > MinFilled(g)
    BY DEF Overfilled
  <2>2. CASE l = 1
    BY <2>1, <2>2, <1>1, <1>2, <1>3 DEF Legs
  <2>3. CASE l = 2
    BY <2>1, <2>3, <1>1, <1>2, <1>3 DEF Legs
  <2> QED
    BY <2>1, <2>2, <2>3 DEF Legs
<1> QED
  BY <1>4, <1>5

\* An unwind, with the lot added when it is worth too little, is of something.
LEMMA UnwindSizeType ==
    ASSUME NEW e \in Nat
    PROVE  UnwindSize(e) \in Nat /\ UnwindSize(e) > 0
<1>1. 10 \in Mills
  BY DEF Mills
<1> DEFINE n == Lot(10)
           k == e \div n
<1>2. n \in 1..100
  BY <1>1, LotType
<1>3. k * n \in Nat
  BY <1>2, Floored
<1>4. UnwindSize(e) = IF 10 * (k * n) < Dollar THEN k * n + n ELSE k * n
  BY DEF UnwindSize, UnwindPrice, Quantized
<1> HIDE DEF n, k
<1> QED
  BY <1>2, <1>3, <1>4 DEF Dollar, Cent

\* Whatever an unwind is sold at, the dollars it takes look like a part of it.
LEMMA SoldLooksPartial ==
    ASSUME GroupIInv, NEW g \in Groups, phase[g] = "unwinding", NEW price \in SalePrices
    PROVE  /\ SaleStatus(g, price) = "PartialFill"
           /\ StatusOf("FOK", 0, unwind[g].size) = "Cancelled"
<1> DEFINE size == unwind[g].size
<1>1. size \in Nat /\ size > 0
  <2>1. /\ filled[g] \in [Legs -> Nat] /\ unwind[g].leg \in Legs /\ Short(g) \in Legs
    BY DEF GroupIInv, TasksTypeOK, Unwinds, Short, Legs
  <2>2. filled[g][unwind[g].leg] - filled[g][Short(g)] \in Nat
    BY <2>1 DEF GroupIInv, ExcessUnwound
  <2>3. size = UnwindSize(filled[g][unwind[g].leg] - filled[g][Short(g)])
    BY DEF GroupIInv, ExcessUnwound
  <2> QED
    BY <2>2, <2>3, UnwindSizeType
<1>2. price \in 10..999
  BY SalesAssumption DEF UnwindPrice
<1> HIDE DEF size
<1>3. size * price > 0 /\ size * price < size * 1000 /\ size * price \in Nat
  <2> DEFINE less == 1000 - price
  <2>1. less \in Nat /\ less > 0 /\ price = 1000 - less /\ price > 0
    BY <1>2
  <2>2. size * 1000 = size * price + size * less
    BY <1>1, <2>1
  <2>3. \A a, b \in Nat : a > 0 /\ b > 0 => a * b > 0 /\ a * b \in Nat
    OBVIOUS
  <2>4. size * price > 0 /\ size * less > 0 /\ size * price \in Nat /\ size * less \in Nat
    BY <1>1, <1>2, <2>1, <2>3
  <2> HIDE DEF less
  <2> QED
    BY <2>2, <2>4
<1>4. SaleStatus(g, price) = StatusOf("FOK", size * price, size * 1000)
  BY DEF SaleStatus, size
<1>5. StatusOf("FOK", size * price, size * 1000) = "PartialFill"
  BY <1>1, <1>3 DEF StatusOf
<1>6. StatusOf("FOK", 0, size) = "Cancelled"
  BY <1>1 DEF StatusOf
<1> QED
  BY <1>4, <1>5, <1>6 DEF size

-----------------------------------------------------------------------------

\* The groups start inside the invariant.
LEMMA GroupInitHolds == Init => GroupIInv
<1> SUFFICES ASSUME Init PROVE GroupIInv
  OBVIOUS
<1>1. (CHOOSE i \in Intents : TRUE) \in Intents
  BY IntentsAssumption
<1>2. NoUnwind \in Unwinds
  BY DEF NoUnwind, Unwinds, Stages, Legs
<1>3. TasksTypeOK
  BY <1>1, <1>2 DEF TasksTypeOK, Init, Phases, Statuses
<1>4. \A g \in Groups : ExcessUnwound(g)
  BY DEF ExcessUnwound, Init, NoUnwind
<1> QED
  BY <1>3, <1>4 DEF GroupIInv

\* What the answer to a leg can be.
LEMMA StatusType ==
    ASSUME NEW t, NEW n \in Nat, NEW of \in Nat
    PROVE  StatusOf(t, n, of) \in Statuses \ {"New", "Posted"}
<1>1. n >= of \/ n < of
  OBVIOUS
<1>2. n > 0 \/ n = 0
  OBVIOUS
<1> QED
  BY <1>1, <1>2 DEF StatusOf, Statuses

\* A fill of a submitted leg is a natural number.
LEMMA FillsType ==
    ASSUME NEW g \in Groups, NEW l \in Legs, intent[g] \in Intents
    PROVE  /\ Submitted(g, l) \in Nat
           /\ \A fill \in Fills(g, l) : fill \in Nat
<1>1. intent[g].price[l] \in Mills /\ intent[g].size \in Nat
  BY IntentType
<1>2. Submitted(g, l) \in Nat
  BY <1>1, QuantizedType DEF Submitted
<1> QED
  BY <1>2 DEF Fills

\* A step that leaves a task alone, or ends its unwind.
LEMMA ExcessKept ==
    ASSUME NEW h \in Groups, ExcessUnwound(h),
           phase'[h] = phase[h] \/ phase'[h] \in {"recording", "done"},
           unwind'[h] = unwind[h], filled'[h] = filled[h]
    PROVE  ExcessUnwound(h)'
  BY DEF ExcessUnwound, Short

\* Starting a group keeps the invariant.
LEMMA StartPreserves ==
    ASSUME GroupIInv, NEW g \in Groups, Start(g)
    PROVE  GroupIInv'
<1>1. TasksTypeOK'
  <2>1. phase' \in [Groups -> Phases]
    BY DEF GroupIInv, TasksTypeOK, Start, Phases
  <2>2. intent' \in [Groups -> Intents]
    BY DEF GroupIInv, TasksTypeOK, Start
  <2> QED
    BY <2>1, <2>2 DEF GroupIInv, TasksTypeOK, Start
<1>2. ASSUME NEW h \in Groups PROVE ExcessUnwound(h)'
  <2>1. ExcessUnwound(h) /\ unwind' = unwind /\ filled' = filled
    BY DEF GroupIInv, Start
  <2>2. phase'[h] = phase[h] \/ (phase[h] = "idle" /\ phase'[h] = "legs")
    BY DEF GroupIInv, TasksTypeOK, Start
  <2> QED
    BY <2>1, <2>2 DEF ExcessUnwound, Short
<1> QED
  BY <1>1, <1>2 DEF GroupIInv

\* Steps of a leg: they change its status and fill before the answers are compared.
LEMMA LegStepPreserves ==
    ASSUME GroupIInv, NEW g \in Groups, NEW l \in Legs, phase[g] = "legs",
           UNCHANGED <<phase, intent, unwind>>,
           \E s \in Statuses : SetStatus(g, l, s),
           filled' = filled \/ \E n \in Nat : filled' = [filled EXCEPT ![g][l] = n]
    PROVE  GroupIInv'
<1>1. TasksTypeOK'
  <2>1. status' \in [Groups -> [Legs -> Statuses]]
    BY DEF GroupIInv, TasksTypeOK, SetStatus
  <2>2. filled' \in [Groups -> [Legs -> Nat]]
    <3>1. filled \in [Groups -> [Legs -> Nat]]
      BY DEF GroupIInv, TasksTypeOK
    <3>2. ASSUME NEW n \in Nat, filled' = [filled EXCEPT ![g][l] = n]
          PROVE  filled' \in [Groups -> [Legs -> Nat]]
      BY <3>1, <3>2
    <3> QED
      BY <3>1, <3>2
  <2> QED
    BY <2>1, <2>2 DEF GroupIInv, TasksTypeOK
<1>2. ASSUME NEW h \in Groups PROVE ExcessUnwound(h)'
  <2>1. ExcessUnwound(h) /\ unwind' = unwind /\ phase' = phase
    BY DEF GroupIInv
  <2>2. CASE h = g
    BY <2>1, <2>2 DEF ExcessUnwound
  <2>3. CASE h # g
    <3>1. filled'[h] = filled[h]
      BY <2>3 DEF GroupIInv, TasksTypeOK
    <3> QED
      BY <2>1, <3>1, ExcessKept
  <2> QED
    BY <2>2, <2>3
<1> QED
  BY <1>1, <1>2 DEF GroupIInv

\* Submitting a leg, and each of its answers, keeps the invariant.
LEMMA LegsPreserve ==
    ASSUME GroupIInv, NEW g \in Groups, NEW l \in Legs,
           SubmitLeg(g, l) \/ LegExecuted(g, l) \/ LegRejected(g, l) \/ LegFailed(g, l)
    PROVE  GroupIInv'
<1>0. \A s \in {"CircuitOpen", "SubmissionFailed", "Posted", "Rejected"} : s \in Statuses
  BY DEF Statuses
<1>1. CASE SubmitLeg(g, l)
  <2>1. phase[g] = "legs" /\ UNCHANGED <<phase, intent, unwind>> /\ filled' = filled
    BY <1>1 DEF SubmitLeg
  <2>2. \E s \in Statuses : SetStatus(g, l, s)
    BY <1>0, <1>1 DEF SubmitLeg
  <2> QED
    BY <2>1, <2>2, LegStepPreserves
<1>2. CASE LegExecuted(g, l)
  <2>1. phase[g] = "legs" /\ UNCHANGED <<phase, intent, unwind>>
    BY <1>2 DEF LegExecuted, Awaited
  <2>2. PICK fill \in Fills(g, l) :
            /\ filled' = [filled EXCEPT ![g][l] = fill]
            /\ SetStatus(g, l, StatusOf(orderType[g], fill, Submitted(g, l)))
    BY <1>2 DEF LegExecuted
  <2>3. intent[g] \in Intents
    BY DEF GroupIInv, TasksTypeOK
  <2>4. fill \in Nat /\ Submitted(g, l) \in Nat
    BY <2>3, FillsType
  <2>5. StatusOf(orderType[g], fill, Submitted(g, l)) \in Statuses
    BY <2>4, StatusType
  <2>6. \E s \in Statuses : SetStatus(g, l, s)
    BY <2>2, <2>5
  <2>7. \E n \in Nat : filled' = [filled EXCEPT ![g][l] = n]
    BY <2>2, <2>4
  <2> QED
    BY <2>1, <2>6, <2>7, LegStepPreserves
<1>3. CASE LegRejected(g, l)
  <2>1. phase[g] = "legs" /\ UNCHANGED <<phase, intent, unwind>> /\ filled' = filled
    BY <1>3 DEF LegRejected, Awaited
  <2>2. \E s \in Statuses : SetStatus(g, l, s)
    BY <1>0, <1>3 DEF LegRejected
  <2> QED
    BY <2>1, <2>2, LegStepPreserves
<1>4. CASE LegFailed(g, l)
  <2>1. phase[g] = "legs" /\ UNCHANGED <<phase, intent, unwind>> /\ filled' = filled
    BY <1>4 DEF LegFailed, Awaited
  <2>2. \E s \in Statuses : SetStatus(g, l, s)
    BY <1>0, <1>4 DEF LegFailed
  <2> QED
    BY <2>1, <2>2, LegStepPreserves
<1> QED
  BY <1>1, <1>2, <1>3, <1>4

\* Comparing the two legs keeps the invariant.
LEMMA ComparePreserves ==
    ASSUME GroupIInv, NEW g \in Groups, Compare(g)
    PROVE  GroupIInv'
<1>0. /\ filled[g] \in [Legs -> Nat] /\ unwind[g] \in Unwinds
      /\ phase \in [Groups -> Phases] /\ unwind \in [Groups -> Unwinds]
  BY DEF GroupIInv, TasksTypeOK
<1>1. UNCHANGED <<intent, status, filled>> /\ phase[g] = "legs"
  BY DEF Compare
<1>2. CASE Overfilled(g) = {}
  <2>1. phase' = [phase EXCEPT ![g] = "recording"] /\ unwind' = unwind
    BY <1>2 DEF Compare
  <2>2. phase' \in [Groups -> Phases]
    BY <1>0, <2>1 DEF Phases
  <2>3. TasksTypeOK'
    BY <1>1, <2>1, <2>2 DEF GroupIInv, TasksTypeOK
  <2>4. ASSUME NEW h \in Groups PROVE ExcessUnwound(h)'
    <3>1. ExcessUnwound(h) /\ unwind'[h] = unwind[h] /\ filled'[h] = filled[h]
      BY <1>1, <2>1 DEF GroupIInv
    <3>2. phase'[h] = phase[h] \/ phase'[h] = "recording"
      BY <1>0, <2>1
    <3> QED
      BY <3>1, <3>2, ExcessKept
  <2> QED
    BY <2>3, <2>4 DEF GroupIInv
<1>3. CASE Overfilled(g) # {}
  <2>1. PICK l \in Overfilled(g) :
            /\ phase' = [phase EXCEPT ![g] = "unwinding"]
            /\ unwind' = [unwind EXCEPT ![g] =
                   [leg |-> l, stage |-> "New",
                    size |-> UnwindSize(filled[g][l] - MinFilled(g))]]
    BY <1>3 DEF Compare
  <2>2. /\ l \in Legs /\ 3 - l \in Legs /\ filled[g][l] > filled[g][3 - l]
        /\ MinFilled(g) = filled[g][3 - l]
    BY <1>0, OverfilledLegs
  <2> DEFINE e == filled[g][l] - filled[g][3 - l]
             u == [leg |-> l, stage |-> "New", size |-> UnwindSize(e)]
  <2>3. e \in Nat
    BY <1>0, <2>2
  <2>4. UnwindSize(e) \in Nat
    BY <2>3, UnwindSizeType
  <2>5. unwind' = [unwind EXCEPT ![g] = u]
    BY <2>1, <2>2
  <2>6. u \in Unwinds
    BY <2>2, <2>4 DEF Unwinds, Stages
  <2>7. phase' \in [Groups -> Phases]
    BY <1>0, <2>1 DEF Phases
  <2>8. unwind' \in [Groups -> Unwinds] /\ unwind'[g] = u
    BY <1>0, <2>5, <2>6, Zenon
  <2>9. TasksTypeOK'
    BY <1>1, <2>7, <2>8 DEF GroupIInv, TasksTypeOK
  <2>10. ASSUME NEW h \in Groups PROVE ExcessUnwound(h)'
    <3>1. CASE h = g
      <4>1. phase'[g] = "unwinding"
        BY <1>0, <2>1
      <4>2. unwind'[g].leg = l /\ unwind'[g].size = UnwindSize(e)
        BY <2>8
      <4>3. filled' = filled
        BY <1>1
      <4> QED
        BY <2>2, <3>1, <4>1, <4>2, <4>3 DEF ExcessUnwound, Short
    <3>2. CASE h # g
      <4>1. ExcessUnwound(h) /\ filled'[h] = filled[h]
        BY <1>1 DEF GroupIInv
      <4>2. phase'[h] = phase[h]
        BY <1>0, <2>1, <3>2
      <4>3. unwind'[h] = unwind[h]
        BY <1>0, <2>5, <3>2, Zenon
      <4> QED
        BY <4>1, <4>2, <4>3, ExcessKept
    <3> QED
      BY <3>1, <3>2
  <2> QED
    BY <2>9, <2>10 DEF GroupIInv
<1> QED
  BY <1>2, <1>3

\* A step of the unwind order moves it to its next stage.
LEMMA StageStepPreserves ==
    ASSUME GroupIInv, NEW g \in Groups, phase[g] = "unwinding",
           UNCHANGED <<phase, intent, status, filled>>,
           \E s \in Stages : SetStage(g, s)
    PROVE  GroupIInv'
<1>1. PICK s \in Stages : unwind' = [unwind EXCEPT ![g].stage = s]
  BY DEF SetStage
<1>2. unwind \in [Groups -> Unwinds]
  BY DEF GroupIInv, TasksTypeOK
<1>3. unwind' \in [Groups -> Unwinds]
  BY <1>1, <1>2 DEF Unwinds
<1>4. /\ unwind'[g].leg = unwind[g].leg /\ unwind'[g].size = unwind[g].size
      /\ \A h \in Groups \ {g} : unwind'[h] = unwind[h]
  BY <1>1, <1>2 DEF Unwinds
<1>5. ASSUME NEW h \in Groups PROVE ExcessUnwound(h)'
  <2>1. ExcessUnwound(h) /\ phase' = phase /\ filled' = filled
    BY DEF GroupIInv
  <2>2. CASE h = g
    BY <1>4, <2>1, <2>2 DEF ExcessUnwound, Short
  <2>3. CASE h # g
    BY <1>4, <2>1, <2>3, ExcessKept
  <2> QED
    BY <2>2, <2>3
<1> QED
  BY <1>3, <1>5 DEF GroupIInv, TasksTypeOK

\* An executed unwind was sold and looks partial, or is cancelled.
LEMMA ExecutedHow ==
    ASSUME GroupIInv, NEW g \in Groups, UnwindExecuted(g)
    PROVE  \/ Sell(g) /\ SetStage(g, "PartialFill")
           \/ UNCHANGED market /\ SetStage(g, "Cancelled")
<1>1. phase[g] = "unwinding"
  BY DEF UnwindExecuted, Unwinding
<1>2. CASE Sell(g) /\ \E price \in SalePrices : SetStage(g, SaleStatus(g, price))
  <2>1. PICK price \in SalePrices : SetStage(g, SaleStatus(g, price))
    BY <1>2
  <2>2. SaleStatus(g, price) = "PartialFill"
    BY <1>1, SoldLooksPartial
  <2> QED
    BY <1>2, <2>1, <2>2
<1>3. CASE UNCHANGED market /\ SetStage(g, StatusOf("FOK", 0, unwind[g].size))
  <2>1. StatusOf("FOK", 0, unwind[g].size) = "Cancelled"
    BY <1>1, SoldLooksPartial, SalesAssumption
  <2> QED
    BY <1>3, <2>1
<1> QED
  BY <1>2, <1>3 DEF UnwindExecuted

\* Sending the unwind, and each of its answers, keeps the invariant.
LEMMA UnwindPreserves ==
    ASSUME GroupIInv, NEW g \in Groups,
           SubmitUnwind(g) \/ UnwindExecuted(g) \/ UnwindRejected(g) \/ UnwindTimesOut(g)
    PROVE  GroupIInv'
<1>1. phase[g] = "unwinding" /\ UNCHANGED <<phase, intent, status, filled>>
  BY DEF SubmitUnwind, UnwindExecuted, UnwindRejected, UnwindTimesOut, Unwinding
<1>2. \/ SetStage(g, "Failed") \/ SetStage(g, "Posted")
      \/ SetStage(g, "PartialFill") \/ SetStage(g, "Cancelled")
  BY ExecutedHow DEF SubmitUnwind, UnwindRejected, UnwindTimesOut
<1>3. \E s \in Stages : SetStage(g, s)
  BY <1>2 DEF Stages
<1> QED
  BY <1>1, <1>3, StageStepPreserves

\* Recording the group's result keeps the invariant.
LEMMA RecordingPreserves ==
    ASSUME GroupIInv, NEW g \in Groups, FinishUnwind(g) \/ RecordLeg(g)
    PROVE  GroupIInv'
<1>0. phase \in [Groups -> Phases]
  BY DEF GroupIInv, TasksTypeOK
<1>1. /\ UNCHANGED <<intent, status, filled, unwind>>
      /\ \/ phase' = [phase EXCEPT ![g] = "recording"]
         \/ phase' = [phase EXCEPT ![g] = "done"]
         \/ phase' = phase
  BY DEF FinishUnwind, RecordLeg
<1>2. phase' \in [Groups -> Phases]
  BY <1>0, <1>1 DEF Phases
<1>3. ASSUME NEW h \in Groups PROVE ExcessUnwound(h)'
  <2>1. phase'[h] = phase[h] \/ phase'[h] \in {"recording", "done"}
    BY <1>0, <1>1
  <2>2. ExcessUnwound(h) /\ unwind'[h] = unwind[h] /\ filled'[h] = filled[h]
    BY <1>1 DEF GroupIInv
  <2> QED
    BY <2>1, <2>2, ExcessKept
<1> QED
  BY <1>1, <1>2, <1>3 DEF GroupIInv, TasksTypeOK

\* A step that touches no task keeps the invariant.
LEMMA TasksUnchanged ==
    ASSUME GroupIInv, UNCHANGED task
    PROVE  GroupIInv'
  BY DEF GroupIInv, TasksTypeOK, task, ExcessUnwound, Short

\* Every step keeps the groups' invariant.
LEMMA GroupStepPreserves ==
    ASSUME GroupIInv, [Next]_vars
    PROVE  GroupIInv'
<1>1. CASE UNCHANGED vars
  <2>1. UNCHANGED task
    BY <1>1 DEF vars, task
  <2> QED
    BY <2>1, TasksUnchanged
<1>2. ASSUME NEW g \in Groups,
             \/ Start(g) \/ Compare(g)
             \/ SubmitUnwind(g) \/ UnwindExecuted(g)
             \/ UnwindRejected(g) \/ UnwindTimesOut(g)
             \/ FinishUnwind(g) \/ RecordLeg(g)
      PROVE  GroupIInv'
  BY <1>2, StartPreserves, ComparePreserves, UnwindPreserves, RecordingPreserves
<1>3. ASSUME NEW g \in Groups, NEW l \in Legs,
             \/ SubmitLeg(g, l) \/ LegExecuted(g, l)
             \/ LegRejected(g, l) \/ LegFailed(g, l)
             \/ RestingFills(g, l)
      PROVE  GroupIInv'
  <2>1. CASE RestingFills(g, l)
    <3>1. UNCHANGED task
      BY <2>1 DEF RestingFills
    <3> QED
      BY <3>1, TasksUnchanged
  <2> QED
    BY <1>3, <2>1, LegsPreserve
<1>4. CASE Tick
  <2>1. UNCHANGED task
    BY <1>4 DEF Tick
  <2> QED
    BY <2>1, TasksUnchanged
<1> QED
  BY <1>1, <1>2, <1>3, <1>4 DEF Next

\* Every reachable state of the groups satisfies the inductive invariant.
THEOREM GroupIInvHolds == Spec => []GroupIInv
<1>1. Init => GroupIInv
  BY GroupInitHolds
<1>2. GroupIInv /\ [Next]_vars => GroupIInv'
  BY GroupStepPreserves
<1> QED
  BY <1>1, <1>2, PTL DEF Spec

\* Whatever the prices and sizes, a leg is worth whole cents.
THEOREM AlwaysInCents == Spec => []NotionalInCents
<1>1. GroupIInv => NotionalInCents
  <2> SUFFICES ASSUME GroupIInv, NEW g \in Groups, NEW l \in Legs,
                      WholeCents(intent[g].price[l])
               PROVE  (intent[g].price[l] * Submitted(g, l)) % Cent = 0
    BY DEF NotionalInCents
  <2>1. intent[g] \in Intents
    BY DEF GroupIInv, TasksTypeOK
  <2> DEFINE p == intent[g].price[l]
             s == intent[g].size
  <2>2. p \in Mills /\ s \in Nat
    BY <2>1, IntentType
  <2>3. Submitted(g, l) = Quantized(p, s) /\ WholeCents(p)
    BY DEF Submitted
  <2> HIDE DEF p, s
  <2>4. PICK k \in Nat : Quantized(p, s) = k * Lot(p)
    BY <2>2, QuantizedType
  <2>5. (p * (k * Lot(p))) % Cent = 0
    <3>1. k \in Int
      OBVIOUS
    <3> QED
      BY <3>1, <2>2, <2>3, LotsInCents
  <2>6. (p * Submitted(g, l)) % Cent = 0
    BY <2>3, <2>4, <2>5
  <2> QED
    BY <2>6 DEF p
<1> QED
  BY <1>1, GroupIInvHolds, PTL

\* What becomes of a size the strategies ask for.
LEMMA LegServed ==
    ASSUME NEW p \in Mills, WholeCents(p), NEW s \in Nat, s >= 100 * MinimumShares(p)
    PROVE  /\ Quantized(p, s) <= s
           /\ p * Quantized(p, s) >= Dollar
           /\ NoneLarger(p, s)
<1> p \in Nat /\ 1 <= p /\ p <= 999
  BY DEF Mills
<1> DEFINE n == MinimumShares(p)
<1>1. n \in Nat /\ p * n >= 1000
  BY EnoughShares
<1>2. s >= 100 * n
  OBVIOUS
<1> HIDE DEF n
<1>3. Quantized(p, s) = (s \div Lot(p)) * Lot(p)
  BY <1>1, <1>2, QuantizedDown
<1>4. Quantized(p, s) <= s
  BY <1>1, <1>2, QuantizedDown
<1>5. p * Quantized(p, s) >= Dollar
  BY <1>1, <1>2, QuantizedDown
<1>6. NoneLarger(p, s)
  BY <1>3, QuantizedLargest
<1> QED
  BY <1>4, <1>5, <1>6

\* Whatever the prices and sizes, a leg is submitted with the largest size in whole
\* cents that its intent allows, never with more, and is worth a dollar.
THEOREM IntentsAlwaysServed == Spec => []IntentsServed
<1>1. GroupIInv => IntentsServed
  <2> SUFFICES ASSUME GroupIInv, NEW g \in Groups, NEW l \in Legs,
                      WholeCents(intent[g].price[l])
               PROVE  /\ Submitted(g, l) <= intent[g].size
                      /\ intent[g].price[l] * Submitted(g, l) >= Dollar
                      /\ \A larger \in (Submitted(g, l) + 1)..intent[g].size :
                            (intent[g].price[l] * larger) % Cent # 0
    BY DEF IntentsServed
  <2>1. intent[g] \in Intents
    BY DEF GroupIInv, TasksTypeOK
  <2>0. PICK i \in Intents : i = intent[g]
    BY <2>1
  <2> DEFINE p == i.price[l]
             s == i.size
  <2>2. p \in Mills /\ s \in Nat /\ s >= 100 * MinimumShares(p)
    BY IntentType
  <2>3. Submitted(g, l) = Quantized(p, s) /\ WholeCents(p)
    BY <2>0 DEF Submitted
  <2>6. intent[g].price[l] = p /\ intent[g].size = s
    BY <2>0
  <2> HIDE DEF p, s
  <2>4. /\ Quantized(p, s) <= s
        /\ p * Quantized(p, s) >= Dollar
        /\ \A larger \in (Quantized(p, s) + 1)..s : (p * larger) % Cent # 0
    BY <2>2, <2>3, LegServed DEF NoneLarger
  <2>5. /\ Submitted(g, l) <= s /\ p * Submitted(g, l) >= Dollar
        /\ \A larger \in (Submitted(g, l) + 1)..s : (p * larger) % Cent # 0
    BY <2>3, <2>4
  <2> QED
    BY <2>5, <2>6
<1> QED
  BY <1>1, GroupIInvHolds, PTL

-----------------------------------------------------------------------------
(* execute_grouped returns *)

\* It does on the answers being equal, or after the unwind.
LEMMA ReturnsAfter ==
    ASSUME GroupIInv, Next, NEW h \in Groups, Returns(h)
    PROVE  \/ Compare(h) /\ Overfilled(h) = {}
           \/ FinishUnwind(h)
<1>0. phase \in [Groups -> Phases]
  BY DEF GroupIInv, TasksTypeOK
<1>1. phase[h] \in {"legs", "unwinding"} /\ phase'[h] = "recording"
  BY DEF Returns
<1>2. phase' # phase
  BY <1>1
<1>3. ASSUME NEW g \in Groups,
             \/ Start(g) \/ Compare(g)
             \/ SubmitUnwind(g) \/ UnwindExecuted(g)
             \/ UnwindRejected(g) \/ UnwindTimesOut(g)
             \/ FinishUnwind(g) \/ RecordLeg(g)
      PROVE  \/ Compare(h) /\ Overfilled(h) = {}
             \/ FinishUnwind(h)
  <2>1. CASE Start(g)
    <3>1. phase' = [phase EXCEPT ![g] = "legs"]
      BY <2>1 DEF Start
    <3> QED
      BY <1>0, <1>1, <3>1
  <2>2. CASE Compare(g)
    <3>1. CASE Overfilled(g) = {}
      <4>1. phase' = [phase EXCEPT ![g] = "recording"]
        BY <2>2, <3>1 DEF Compare
      <4>2. g = h
        BY <1>0, <1>1, <4>1
      <4> QED
        BY <2>2, <3>1, <4>2
    <3>2. CASE Overfilled(g) # {}
      <4>1. phase' = [phase EXCEPT ![g] = "unwinding"]
        BY <2>2, <3>2 DEF Compare
      <4> QED
        BY <1>0, <1>1, <4>1
    <3> QED
      BY <3>1, <3>2
  <2>3. CASE SubmitUnwind(g) \/ UnwindExecuted(g) \/ UnwindRejected(g) \/ UnwindTimesOut(g)
    <3>1. phase' = phase
      BY <2>3 DEF SubmitUnwind, UnwindExecuted, UnwindRejected, UnwindTimesOut
    <3> QED
      BY <1>2, <3>1
  <2>4. CASE FinishUnwind(g)
    <3>1. phase' = [phase EXCEPT ![g] = "recording"]
      BY <2>4 DEF FinishUnwind
    <3>2. g = h
      BY <1>0, <1>1, <3>1
    <3> QED
      BY <2>4, <3>2
  <2>5. CASE RecordLeg(g)
    <3>1. /\ phase[g] = "recording"
          /\ phase' = [phase EXCEPT ![g] = "done"] \/ phase' = phase
      BY <2>5 DEF RecordLeg
    <3> QED
      BY <1>0, <1>1, <3>1
  <2> QED
    BY <1>3, <2>1, <2>2, <2>3, <2>4, <2>5
<1>4. ASSUME NEW g \in Groups, NEW l \in Legs,
             \/ SubmitLeg(g, l) \/ LegExecuted(g, l)
             \/ LegRejected(g, l) \/ LegFailed(g, l)
             \/ RestingFills(g, l)
      PROVE  FALSE
  <2>1. phase' = phase
    BY <1>4 DEF SubmitLeg, LegExecuted, LegRejected, LegFailed, RestingFills, task
  <2> QED
    BY <1>2, <2>1
<1>5. ~Tick
  BY <1>2 DEF Tick, task
<1> QED
  BY <1>3, <1>4, <1>5 DEF Next

\* The unwind that is done has opened the breaker.
LEMMA FinishedHow ==
    ASSUME GroupIInv, NEW g \in Groups, FinishUnwind(g)
    PROVE  state' = "Open"
<1>1. unwind[g].stage # "FullyFilled"
  BY DEF GroupIInv, TasksTypeOK, Unwinds, Stages
<1>2. Breaker!TripFromOutside("ManualTrigger")
  BY <1>1 DEF FinishUnwind
<1> QED
  BY <1>2 DEF Breaker!TripFromOutside, Breaker!Open, Breaker!trip

\* What the legs filled, and what the unwind sells, are natural numbers.
LEMMA FilledType ==
    ASSUME GroupIInv, NEW g \in Groups
    PROVE  /\ filled[g][1] \in Nat /\ filled[g][2] \in Nat
           /\ filled[g] \in [Legs -> Nat]
           /\ unwind[g].leg \in Legs /\ unwind[g].size \in Nat
  BY DEF GroupIInv, TasksTypeOK, Unwinds, Legs

\* Whatever the policy, whatever answers get lost: execute_grouped never returns with
\* a residual that its answers show while trading goes on.
THEOREM ResidualAlwaysHalts == Spec => ResidualHalts
<1>1. ASSUME GroupIInv, Next, NEW g \in Groups, Returns(g)
      PROVE  Reported(g, 1) = Reported(g, 2) \/ state' = "Open"
  <2>0. /\ filled[g][1] \in Nat /\ filled[g][2] \in Nat
        /\ filled[g] \in [Legs -> Nat]
        /\ unwind[g].leg \in Legs /\ unwind[g].size \in Nat
    BY <1>1, FilledType
  <2>1. CASE Compare(g) /\ Overfilled(g) = {}
    <3>1. filled[g][1] = filled[g][2]
      BY <2>0, <2>1, OverfilledLegs
    <3>2. unwind[g].stage = "None"
      BY <1>1, <2>1 DEF Compare, GroupIInv, ExcessUnwound
    <3>3. Reported(g, 1) = filled[g][1] - 0 /\ Reported(g, 2) = filled[g][2] - 0
      BY <3>2 DEF Reported
    <3> QED
      BY <2>0, <3>1, <3>3
  <2>2. CASE FinishUnwind(g)
    BY <1>1, <2>2, FinishedHow
  <2> QED
    BY <1>1, <2>1, <2>2, ReturnsAfter
<1>2. GroupIInv /\ [Next]_vars =>
        [\A g \in Groups : Returns(g) =>
            Reported(g, 1) = Reported(g, 2) \/ state' = "Open"]_vars
  BY <1>1
<1> QED
  BY <1>2, GroupIInvHolds, PTL DEF Spec, ResidualHalts

-----------------------------------------------------------------------------
(* The same of what the exchange executed, for orders that fill at once or   *)
(* not at all and answers that arrive.                                       *)

FOKsAnswered == OrderTypes \subseteq {"FOK"} /\ AnswersGetLost = FALSE

BothLegs(g, holds) == bought[g][1] = holds[1] /\ bought[g][2] = holds[2]

\* No unwind of the group has reached the exchange.
NothingSold(g) == \/ phase[g] \in {"idle", "legs"}
                  \/ phase[g] = "unwinding" /\ unwind[g].stage \in {"New", "Posted"}

\* Until the breaker is to be opened the answers tell what the exchange did.
AnswersTell(g) ==
    /\ \A l \in Legs : resting[g][l] = 0
    /\ phase[g] \in {"idle", "legs"} =>
        \A l \in Legs : status[g][l] \in {"New", "Posted"} => filled[g][l] = 0
    /\ NothingSold(g) => BothLegs(g, filled[g])

MarketTypeOK ==
    /\ orderType \in [Groups -> {"FOK"}]
    /\ bought \in [Groups -> [Legs -> Int]]
    /\ resting \in [Groups -> [Legs -> Int]]

MarketIInv ==
    /\ GroupIInv
    /\ MarketTypeOK
    /\ \A g \in Groups : AnswersTell(g)

\* What the market holds and what the bot believes start equal.
LEMMA MarketInitHolds == Init => MarketIInv
<1> SUFFICES ASSUME Init PROVE MarketIInv
  OBVIOUS
<1>1. GroupIInv
  BY GroupInitHolds
<1>2. MarketTypeOK
  BY DEF Init, MarketTypeOK
<1>3. \A g \in Groups : AnswersTell(g)
  BY DEF Init, AnswersTell, BothLegs, Legs
<1> QED
  BY <1>1, <1>2, <1>3 DEF MarketIInv

\* A step that leaves a task and its orders alone, or ends its unwind.
LEMMA TellKept ==
    ASSUME NEW h \in Groups, AnswersTell(h),
           phase'[h] = phase[h] \/ phase'[h] \in {"recording", "done"},
           status'[h] = status[h], unwind'[h] = unwind[h], filled'[h] = filled[h],
           bought'[h] = bought[h], resting'[h] = resting[h]
    PROVE  AnswersTell(h)'
  BY DEF AnswersTell, NothingSold, BothLegs

\* What a step of one group leaves alone of the others.
LEMMA OthersTell ==
    ASSUME MarketIInv, NEW g \in Groups,
           \A h \in Groups \ {g} :
               /\ phase'[h] = phase[h] /\ status'[h] = status[h]
               /\ unwind'[h] = unwind[h] /\ filled'[h] = filled[h]
               /\ bought'[h] = bought[h] /\ resting'[h] = resting[h],
           AnswersTell(g)'
    PROVE  \A h \in Groups : AnswersTell(h)'
<1> SUFFICES ASSUME NEW h \in Groups, h # g PROVE AnswersTell(h)'
  OBVIOUS
<1>1. AnswersTell(h)
  BY DEF MarketIInv
<1> QED
  BY <1>1, TellKept

\* Starting a group keeps what its answers tell true of the market.
LEMMA StartTells ==
    ASSUME MarketIInv, FOKsAnswered, NEW g \in Groups, Start(g)
    PROVE  MarketTypeOK' /\ \A h \in Groups : AnswersTell(h)'
<1>1. /\ UNCHANGED <<status, filled, unwind, bought, resting>>
      /\ phase[g] = "idle" /\ phase' = [phase EXCEPT ![g] = "legs"]
  BY DEF Start, market
<1>2. phase \in [Groups -> Phases]
  BY DEF MarketIInv, GroupIInv, TasksTypeOK
<1>3. MarketTypeOK'
  <2>1. PICK type \in OrderTypes : orderType' = [orderType EXCEPT ![g] = type]
    BY DEF Start
  <2>2. type = "FOK"
    BY DEF FOKsAnswered
  <2> QED
    BY <1>1, <2>1, <2>2 DEF MarketTypeOK, MarketIInv
<1>4. AnswersTell(g)'
  BY <1>1, <1>2 DEF MarketIInv, AnswersTell, NothingSold, BothLegs
<1>5. \A h \in Groups \ {g} : phase'[h] = phase[h]
  BY <1>1, <1>2
<1>6. \A h \in Groups : AnswersTell(h)'
  BY <1>1, <1>4, <1>5, OthersTell
<1> QED
  BY <1>3, <1>6

\* What the invariant says of the tasks' types, taken out once.
LEMMA TypedTasks ==
    ASSUME MarketIInv
    PROVE  /\ phase \in [Groups -> Phases]
           /\ intent \in [Groups -> Intents]
           /\ status \in [Groups -> [Legs -> Statuses]]
           /\ filled \in [Groups -> [Legs -> Nat]]
           /\ unwind \in [Groups -> Unwinds]
           /\ bought \in [Groups -> [Legs -> Int]]
           /\ resting \in [Groups -> [Legs -> Int]]
  BY DEF MarketIInv, GroupIInv, TasksTypeOK, MarketTypeOK

\* A leg that is refused, rejected or not placed.
LEMMA NoTradeTells ==
    ASSUME MarketIInv, NEW g \in Groups, NEW l \in Legs, phase[g] = "legs",
           status[g][l] \in {"New", "Posted"},
           UNCHANGED <<phase, orderType, filled, unwind, bought, resting>>,
           \E s \in Statuses : SetStatus(g, l, s)
    PROVE  MarketTypeOK' /\ \A h \in Groups : AnswersTell(h)'
<1>1. PICK s \in Statuses : status' = [status EXCEPT ![g][l] = s]
  BY DEF SetStatus
<1>2. status \in [Groups -> [Legs -> Statuses]]
  BY TypedTasks
<1>3. /\ \A h \in Groups \ {g} : status'[h] = status[h]
      /\ \A k \in Legs \ {l} : status'[g][k] = status[g][k]
  BY <1>1, <1>2
<1>4. AnswersTell(g)
  BY DEF MarketIInv
<1>5. \A k \in Legs : status'[g][k] \in {"New", "Posted"} => filled[g][k] = 0
  BY <1>3, <1>4 DEF AnswersTell
<1>6. AnswersTell(g)'
  BY <1>4, <1>5 DEF AnswersTell, NothingSold, BothLegs
<1>7. MarketTypeOK'
  BY DEF MarketIInv, MarketTypeOK
<1>8. \A h \in Groups : AnswersTell(h)'
  BY <1>3, <1>6, OthersTell
<1> QED
  BY <1>7, <1>8

\* An executed leg tells of exactly what the market bought.
LEMMA LegExecutedTells ==
    ASSUME MarketIInv, NEW g \in Groups, NEW l \in Legs, LegExecuted(g, l)
    PROVE  MarketTypeOK' /\ \A h \in Groups : AnswersTell(h)'
<1>0. /\ status \in [Groups -> [Legs -> Statuses]]
      /\ filled \in [Groups -> [Legs -> Nat]]
      /\ bought \in [Groups -> [Legs -> Int]]
      /\ resting \in [Groups -> [Legs -> Int]]
      /\ intent[g] \in Intents
  BY TypedTasks
<1>1. /\ phase[g] = "legs" /\ status[g][l] = "Posted"
      /\ UNCHANGED <<phase, orderType, unwind>>
  BY DEF LegExecuted, Awaited
<1>2. PICK fill \in Fills(g, l) :
        /\ Trade(g, l, fill)
        /\ filled' = [filled EXCEPT ![g][l] = fill]
        /\ SetStatus(g, l, StatusOf(orderType[g], fill, Submitted(g, l)))
  BY DEF LegExecuted
<1>3. fill \in Nat /\ Submitted(g, l) \in Nat
  BY <1>0, FillsType
<1>4. orderType[g] = "FOK"
  BY DEF MarketIInv, MarketTypeOK
<1>5. /\ bought' = [bought EXCEPT ![g][l] = @ + fill]
      /\ resting' = [resting EXCEPT ![g][l] = 0]
  BY <1>2, <1>4 DEF Trade
<1>6. PICK s \in Statuses \ {"New", "Posted"} : status' = [status EXCEPT ![g][l] = s]
  BY <1>2, <1>3, StatusType DEF SetStatus
<1>7. AnswersTell(g)
  BY DEF MarketIInv
<1>8. /\ \A k \in Legs : filled[g][k] = bought[g][k] /\ resting[g][k] = 0
      /\ filled[g][l] = 0
  <2>1. NothingSold(g)
    BY <1>1 DEF NothingSold
  <2> QED
    BY <1>1, <1>7, <2>1 DEF AnswersTell, BothLegs, Legs
<1>9. \A k \in Legs : /\ filled'[g][k] = bought'[g][k] /\ resting'[g][k] = 0
                      /\ status'[g][k] \in {"New", "Posted"} => filled'[g][k] = 0
  <2> SUFFICES ASSUME NEW k \in Legs
               PROVE  /\ filled'[g][k] = bought'[g][k] /\ resting'[g][k] = 0
                      /\ status'[g][k] \in {"New", "Posted"} => filled'[g][k] = 0
    OBVIOUS
  <2>1. CASE k = l
    <3>1. filled'[g][l] = fill
      BY <1>0, <1>2
    <3>2. bought'[g][l] = bought[g][l] + fill
      BY <1>0, <1>5
    <3>3. bought[g][l] = 0
      BY <1>8
    <3>4. resting'[g][l] = 0
      BY <1>0, <1>5
    <3>5. status'[g][l] = s
      BY <1>0, <1>6
    <3> QED
      BY <2>1, <3>1, <3>2, <3>3, <3>4, <3>5, <1>3, <1>6
  <2>2. CASE k # l
    <3>1. /\ filled'[g][k] = filled[g][k] /\ bought'[g][k] = bought[g][k]
          /\ resting'[g][k] = resting[g][k] /\ status'[g][k] = status[g][k]
      BY <2>2, <1>0, <1>2, <1>5, <1>6
    <3>2. status[g][k] \in {"New", "Posted"} => filled[g][k] = 0
      BY <1>1, <1>7 DEF AnswersTell
    <3> QED
      BY <3>1, <3>2, <1>8
  <2> QED
    BY <2>1, <2>2
<1>10. AnswersTell(g)'
  BY <1>1, <1>9 DEF AnswersTell, NothingSold, BothLegs, Legs
<1>11. MarketTypeOK'
  <2>1. bought' \in [Groups -> [Legs -> Int]]
    BY <1>0, <1>3, <1>5
  <2>2. resting' \in [Groups -> [Legs -> Int]]
    BY <1>0, <1>5
  <2> QED
    BY <1>1, <2>1, <2>2 DEF MarketIInv, MarketTypeOK
<1>12. \A h \in Groups \ {g} :
          /\ phase'[h] = phase[h] /\ status'[h] = status[h]
          /\ unwind'[h] = unwind[h] /\ filled'[h] = filled[h]
          /\ bought'[h] = bought[h] /\ resting'[h] = resting[h]
  BY <1>0, <1>1, <1>2, <1>5, <1>6
<1>13. \A h \in Groups : AnswersTell(h)'
  BY <1>10, <1>12, OthersTell
<1> QED
  BY <1>11, <1>13

\* Submitting a leg, and each of its answers, keeps what the answers tell true.
LEMMA LegsTell ==
    ASSUME MarketIInv, FOKsAnswered, NEW g \in Groups, NEW l \in Legs,
           SubmitLeg(g, l) \/ LegExecuted(g, l) \/ LegRejected(g, l) \/ LegFailed(g, l)
    PROVE  MarketTypeOK' /\ \A h \in Groups : AnswersTell(h)'
<1>0. \A s \in {"CircuitOpen", "SubmissionFailed", "Posted", "Rejected"} : s \in Statuses
  BY DEF Statuses
<1>1. CASE SubmitLeg(g, l)
  <2>1. /\ phase[g] = "legs" /\ status[g][l] \in {"New", "Posted"}
        /\ UNCHANGED <<phase, orderType, filled, unwind, bought, resting>>
    BY <1>1 DEF SubmitLeg, market
  <2>2. \E s \in Statuses : SetStatus(g, l, s)
    BY <1>0, <1>1 DEF SubmitLeg
  <2> QED
    BY <2>1, <2>2, NoTradeTells
<1>2. CASE LegExecuted(g, l)
  BY <1>2, LegExecutedTells
<1>3. CASE LegRejected(g, l)
  <2>1. /\ phase[g] = "legs" /\ status[g][l] \in {"New", "Posted"}
        /\ UNCHANGED <<phase, orderType, filled, unwind, bought, resting>>
    BY <1>3 DEF LegRejected, Awaited, market
  <2>2. \E s \in Statuses : SetStatus(g, l, s)
    BY <1>0, <1>3 DEF LegRejected
  <2> QED
    BY <2>1, <2>2, NoTradeTells
<1>4. CASE LegFailed(g, l)
  <2>1. /\ phase[g] = "legs" /\ status[g][l] \in {"New", "Posted"}
        /\ UNCHANGED <<phase, orderType, filled, unwind, bought, resting>>
    BY <1>4 DEF LegFailed, Awaited, market, FOKsAnswered
  <2>2. \E s \in Statuses : SetStatus(g, l, s)
    BY <1>0, <1>4 DEF LegFailed
  <2> QED
    BY <2>1, <2>2, NoTradeTells
<1> QED
  BY <1>1, <1>2, <1>3, <1>4

\* Comparing the two legs keeps what the answers tell true.
LEMMA CompareTells ==
    ASSUME MarketIInv, NEW g \in Groups, Compare(g)
    PROVE  MarketTypeOK' /\ \A h \in Groups : AnswersTell(h)'
<1>0. phase \in [Groups -> Phases] /\ unwind \in [Groups -> Unwinds]
  BY TypedTasks
<1>1. /\ UNCHANGED <<orderType, status, filled, bought, resting>> /\ phase[g] = "legs"
  BY DEF Compare, market
<1>2. AnswersTell(g) /\ BothLegs(g, filled[g])
  BY <1>1 DEF MarketIInv, AnswersTell, NothingSold
<1>3. CASE Overfilled(g) = {}
  <2>1. phase' = [phase EXCEPT ![g] = "recording"] /\ unwind' = unwind
    BY <1>3 DEF Compare
  <2>2. phase'[g] = "recording" /\ \A h \in Groups \ {g} : phase'[h] = phase[h]
    BY <1>0, <2>1
  <2>3. AnswersTell(g)'
    BY <1>1, <1>2, <2>1, <2>2, TellKept
  <2> QED
    BY <1>1, <2>1, <2>2, <2>3, OthersTell DEF MarketIInv, MarketTypeOK
<1>4. CASE Overfilled(g) # {}
  <2>1. phase' = [phase EXCEPT ![g] = "unwinding"]
    BY <1>4 DEF Compare
  <2>2. PICK l \in Overfilled(g) : unwind' = [unwind EXCEPT ![g] =
                [leg |-> l, stage |-> "New",
                 size |-> UnwindSize(filled[g][l] - MinFilled(g))]]
    BY <1>4 DEF Compare
  <2>3. phase'[g] = "unwinding" /\ \A h \in Groups \ {g} : phase'[h] = phase[h]
    BY <1>0, <2>1
  <2>4. unwind'[g].stage = "New" /\ \A h \in Groups \ {g} : unwind'[h] = unwind[h]
    BY <1>0, <2>2
  <2>5. AnswersTell(g)'
    BY <1>1, <1>2, <2>3, <2>4 DEF AnswersTell, NothingSold, BothLegs
  <2> QED
    BY <1>1, <2>3, <2>4, <2>5, OthersTell DEF MarketIInv, MarketTypeOK
<1> QED
  BY <1>3, <1>4

\* An unwind that is not sold, or not known to be.
LEMMA UnwindUnknownTells ==
    ASSUME MarketIInv, NEW g \in Groups, phase[g] = "unwinding",
           unwind[g].stage \in {"New", "Posted"},
           UNCHANGED <<phase, orderType, status, filled, resting>>,
           \/ SetStage(g, "Posted") /\ bought' = bought
           \/ /\ \E s \in Stages \ {"New", "Posted"} : SetStage(g, s)
              /\ Sell(g) \/ bought' = bought
    PROVE  MarketTypeOK' /\ \A h \in Groups : AnswersTell(h)'
<1>0. bought \in [Groups -> [Legs -> Int]] /\ unwind \in [Groups -> Unwinds]
  BY TypedTasks
<1> DEFINE u == unwind[g]
<1>1. u \in Unwinds /\ u.leg \in Legs /\ u.size \in Nat
  BY <1>0 DEF Unwinds
<1>2. PICK s \in Stages :
        /\ unwind' = [unwind EXCEPT ![g].stage = s]
        /\ \/ s = "Posted" /\ bought' = bought
           \/ s \notin {"New", "Posted"} /\ (Sell(g) \/ bought' = bought)
  BY DEF SetStage, Stages
<1>3. /\ unwind'[g].stage = s
      /\ \A h \in Groups \ {g} : unwind'[h] = unwind[h]
  BY <1>0, <1>2 DEF Unwinds
<1>5. \/ bought' = bought
      \/ bought' = [bought EXCEPT ![g][u.leg] = @ - u.size]
  BY <1>2 DEF Sell
<1>6. AnswersTell(g)
  BY DEF MarketIInv
<1>7. BothLegs(g, filled[g])
  BY <1>6 DEF AnswersTell, NothingSold
<1>8. bought' \in [Groups -> [Legs -> Int]] /\ \A h \in Groups \ {g} : bought'[h] = bought[h]
  BY <1>0, <1>1, <1>5
<1>9. AnswersTell(g)'
  <2>1. CASE s = "Posted"
    BY <1>2, <1>3, <1>6, <1>7, <2>1 DEF AnswersTell, NothingSold, BothLegs
  <2>2. CASE s \notin {"New", "Posted"}
    BY <1>3, <1>6, <2>2 DEF AnswersTell, NothingSold
  <2> QED
    BY <1>2, <2>1, <2>2
<1>10. MarketTypeOK'
  BY <1>8 DEF MarketIInv, MarketTypeOK
<1>11. \A h \in Groups : AnswersTell(h)'
  BY <1>3, <1>8, <1>9, OthersTell
<1> QED
  BY <1>10, <1>11

\* Sending the unwind, and each of its answers, keeps what the answers tell true.
LEMMA UnwindTells ==
    ASSUME MarketIInv, NEW g \in Groups,
           SubmitUnwind(g) \/ UnwindExecuted(g) \/ UnwindRejected(g) \/ UnwindTimesOut(g)
    PROVE  MarketTypeOK' /\ \A h \in Groups : AnswersTell(h)'
<1>1. /\ phase[g] = "unwinding" /\ unwind[g].stage \in {"New", "Posted"}
      /\ UNCHANGED <<phase, orderType, status, filled, resting>>
  BY DEF SubmitUnwind, UnwindExecuted, UnwindRejected, UnwindTimesOut, Unwinding, Sell, market
<1>2. CASE UnwindExecuted(g)
  <2>1. /\ \/ SetStage(g, "PartialFill") \/ SetStage(g, "Cancelled")
        /\ Sell(g) \/ bought' = bought
    BY <1>2, ExecutedHow DEF MarketIInv, market
  <2>2. \E s \in Stages \ {"New", "Posted"} : SetStage(g, s)
    BY <2>1 DEF Stages
  <2> QED
    BY <1>1, <2>1, <2>2, UnwindUnknownTells
<1>3. CASE SubmitUnwind(g) \/ UnwindRejected(g) \/ UnwindTimesOut(g)
  <2>1. \/ SetStage(g, "Posted") /\ bought' = bought
        \/ SetStage(g, "Failed") /\ (Sell(g) \/ bought' = bought)
    BY <1>3 DEF SubmitUnwind, UnwindRejected, UnwindTimesOut, market
  <2>2. "Failed" \in Stages \ {"New", "Posted"}
    BY DEF Stages
  <2> QED
    BY <1>1, <2>1, <2>2, UnwindUnknownTells
<1> QED
  BY <1>2, <1>3

\* Recording the result keeps what the answers tell true.
LEMMA RecordingTells ==
    ASSUME MarketIInv, NEW g \in Groups, FinishUnwind(g) \/ RecordLeg(g)
    PROVE  MarketTypeOK' /\ \A h \in Groups : AnswersTell(h)'
<1>0. phase \in [Groups -> Phases]
  BY TypedTasks
<1>1. /\ UNCHANGED <<orderType, status, filled, unwind, bought, resting>>
      /\ \/ phase' = [phase EXCEPT ![g] = "recording"]
         \/ phase' = [phase EXCEPT ![g] = "done"]
         \/ phase' = phase
  BY DEF FinishUnwind, RecordLeg, market
<1>2. ASSUME NEW h \in Groups PROVE AnswersTell(h)'
  <2>1. phase'[h] = phase[h] \/ phase'[h] \in {"recording", "done"}
    BY <1>0, <1>1
  <2>2. AnswersTell(h)
    BY DEF MarketIInv
  <2> QED
    BY <1>1, <2>1, <2>2, TellKept
<1> QED
  BY <1>1, <1>2 DEF MarketIInv, MarketTypeOK

\* A step that touches neither the tasks nor the market keeps what the answers tell true.
LEMMA MarketUnchanged ==
    ASSUME MarketIInv, UNCHANGED <<task, market>>
    PROVE  MarketTypeOK' /\ \A h \in Groups : AnswersTell(h)'
  BY DEF MarketIInv, MarketTypeOK, task, market, AnswersTell, NothingSold, BothLegs

\* When every fill-or-kill order is answered, every step keeps the answers true of the market.
LEMMA MarketStepPreserves ==
    ASSUME MarketIInv, FOKsAnswered, [Next]_vars
    PROVE  MarketIInv'
<1>0. GroupIInv'
  BY GroupStepPreserves DEF MarketIInv
<1>1. CASE UNCHANGED vars
  <2>1. UNCHANGED <<task, market>>
    BY <1>1 DEF vars, task, market
  <2> QED
    BY <1>0, <2>1, MarketUnchanged DEF MarketIInv
<1>2. ASSUME NEW g \in Groups,
             \/ Start(g) \/ Compare(g)
             \/ SubmitUnwind(g) \/ UnwindExecuted(g)
             \/ UnwindRejected(g) \/ UnwindTimesOut(g)
             \/ FinishUnwind(g) \/ RecordLeg(g)
      PROVE  MarketTypeOK' /\ \A h \in Groups : AnswersTell(h)'
  BY <1>2, StartTells, CompareTells, UnwindTells, RecordingTells
<1>3. ASSUME NEW g \in Groups, NEW l \in Legs,
             \/ SubmitLeg(g, l) \/ LegExecuted(g, l)
             \/ LegRejected(g, l) \/ LegFailed(g, l)
             \/ RestingFills(g, l)
      PROVE  MarketTypeOK' /\ \A h \in Groups : AnswersTell(h)'
  <2>1. ~RestingFills(g, l)
    BY DEF MarketIInv, AnswersTell, RestingFills
  <2> QED
    BY <1>3, <2>1, LegsTell
<1>4. CASE Tick
  <2>1. UNCHANGED <<task, market>>
    BY <1>4 DEF Tick
  <2> QED
    BY <1>0, <2>1, MarketUnchanged DEF MarketIInv
<1> QED
  BY <1>0, <1>1, <1>2, <1>3, <1>4 DEF Next, MarketIInv

\* Every reachable state satisfies it where FOK legs are answered.
THEOREM MarketIInvHolds == FOKsAnswered => (Spec => []MarketIInv)
<1> SUFFICES ASSUME FOKsAnswered PROVE Spec => []MarketIInv
  OBVIOUS
<1>1. Init => MarketIInv
  BY MarketInitHolds
<1>2. MarketIInv /\ [Next]_vars => MarketIInv'
  BY MarketStepPreserves
<1> QED
  BY <1>1, <1>2, PTL DEF Spec

\* With legs that fill at once or not at all and answers that arrive, any number of
\* groups beside each other return with legs that the exchange left equal, or with
\* the breaker open.
THEOREM AlwaysDeltaNeutral == FOKsAnswered => (Spec => DeltaNeutral)
<1> SUFFICES ASSUME FOKsAnswered PROVE Spec => DeltaNeutral
  OBVIOUS
<1>1. ASSUME MarketIInv, Next, NEW g \in Groups, Returns(g)
      PROVE  bought[g][1] = bought[g][2] \/ state' = "Open"
  <2>0. /\ GroupIInv /\ AnswersTell(g)
        /\ filled[g][1] \in Nat /\ filled[g][2] \in Nat
        /\ filled[g] \in [Legs -> Nat]
        /\ unwind[g].leg \in Legs /\ unwind[g].size \in Nat
    BY <1>1, FilledType DEF MarketIInv
  <2>1. CASE Compare(g) /\ Overfilled(g) = {}
    <3>1. filled[g][1] = filled[g][2]
      BY <2>0, <2>1, OverfilledLegs
    <3>2. BothLegs(g, filled[g])
      BY <2>0, <2>1 DEF Compare, AnswersTell, NothingSold
    <3> QED
      BY <3>1, <3>2 DEF BothLegs
  <2>2. CASE FinishUnwind(g)
    BY <2>0, <2>2, FinishedHow
  <2> QED
    BY <2>0, <1>1, <2>1, <2>2, ReturnsAfter
<1>2. MarketIInv /\ [Next]_vars =>
        [\A g \in Groups : Returns(g) =>
            bought[g][1] = bought[g][2] \/ state' = "Open"]_vars
  BY <1>1
<1>3. Spec => []MarketIInv
  BY MarketIInvHolds
<1> QED
  BY <1>2, <1>3, PTL DEF Spec, DeltaNeutral

-----------------------------------------------------------------------------
(* The shared breaker *)

\* The event loop's breaker starts as a breaker does.
LEMMA BreakerInit == Init => Breaker!Init
  BY DEF Init

\* Every step of the execution is a step of the breaker or leaves it alone.
LEMMA BreakerStep == [Next]_vars => [Breaker!Next]_breaker
<1> SUFFICES ASSUME [Next]_vars PROVE [Breaker!Next]_breaker
  OBVIOUS
<1>1. CASE UNCHANGED vars
  BY <1>1 DEF vars, breaker
<1> DEFINE Call == Breaker!Next \/ UNCHANGED breaker
<1>2. CheckPasses => Call
  BY DEF CheckPasses, Breaker!Next
<1>3. CheckRefuses => Call
  BY DEF CheckRefuses
<1>4. OrderSucceeds => Call
  BY DEF OrderSucceeds, Breaker!Next
<1>5. \A error \in Errors : OrderFails(error) => Call
  BY DEF OrderFails, Breaker!Next
<1>6. Breaker!TripFromOutside("ManualTrigger") => Call
  <2>1. "ManualTrigger" \in Breaker!ExternalReasons
    BY DEF Breaker!ExternalReasons, Breaker!Reasons
  <2> QED
    BY <2>1 DEF Breaker!Next
<1>7. Breaker!Tick => Call
  BY DEF Breaker!Next
<1>8. Breaker!RecordSuccess \/ Breaker!RecordNeutralResult => Call
  BY DEF Breaker!Next
<1> HIDE DEF Call
<1>9. ASSUME NEW g \in Groups,
             \/ Start(g) \/ Compare(g)
             \/ SubmitUnwind(g) \/ UnwindExecuted(g)
             \/ UnwindRejected(g) \/ UnwindTimesOut(g)
             \/ FinishUnwind(g) \/ RecordLeg(g)
      PROVE  Call
  <2>0. UNCHANGED breaker => Call
    BY DEF Call
  <2>1. CASE Start(g)
    BY <2>1, <1>2 DEF Start
  <2>2. CASE Compare(g)
    BY <2>2, <2>0 DEF Compare
  <2>3. CASE SubmitUnwind(g)
    BY <2>3, <1>2, <1>3 DEF SubmitUnwind
  <2>4. CASE UnwindExecuted(g)
    BY <2>4, <1>4 DEF UnwindExecuted
  <2>5. CASE UnwindRejected(g)
    BY <2>5, <1>5 DEF UnwindRejected
  <2>6. CASE UnwindTimesOut(g)
    BY <2>6, <2>0 DEF UnwindTimesOut
  <2>7. CASE FinishUnwind(g)
    BY <2>7, <2>0, <1>6 DEF FinishUnwind
  <2>8. CASE RecordLeg(g)
    BY <2>8, <2>0, <1>8 DEF RecordLeg
  <2> QED
    BY <1>9, <2>1, <2>2, <2>3, <2>4, <2>5, <2>6, <2>7, <2>8
<1>10. ASSUME NEW g \in Groups, NEW l \in Legs,
             \/ SubmitLeg(g, l) \/ LegExecuted(g, l)
             \/ LegRejected(g, l) \/ LegFailed(g, l)
             \/ RestingFills(g, l)
      PROVE  Call
  <2>0. UNCHANGED breaker => Call
    BY DEF Call
  <2>1. CASE SubmitLeg(g, l)
    BY <2>1, <1>2, <1>3 DEF SubmitLeg
  <2>2. CASE LegExecuted(g, l)
    BY <2>2, <1>4 DEF LegExecuted
  <2>3. CASE LegRejected(g, l)
    BY <2>3, <1>5 DEF LegRejected
  <2>4. CASE LegFailed(g, l)
    <3>1. "Retryable" \in Errors
      BY DEF Errors
    <3> QED
      BY <2>4, <3>1, <1>5 DEF LegFailed
  <2>5. CASE RestingFills(g, l)
    BY <2>5, <2>0 DEF RestingFills
  <2> QED
    BY <1>10, <2>1, <2>2, <2>3, <2>4, <2>5
<1>11. CASE Tick
  BY <1>11, <1>7 DEF Tick, Call
<1> QED
  BY <1>1, <1>9, <1>10, <1>11 DEF Next, Call

\* However the groups interleave, what they do to the breaker they share is what the
\* breaker's own specification allows, one of its operations at a time.
THEOREM SharedBreakerKept == Spec => Breaker!Init /\ [][Breaker!Next]_breaker
  BY BreakerInit, BreakerStep, PTL DEF Spec

-----------------------------------------------------------------------------
(* The rate limiter *)

USE LimitsAssumption

\* How many timestamps of the deque are no older than this.
Remaining(ages, duration) == {i \in DOMAIN ages : ages[i] <= duration}

Remembered == \A d \in 0..SustainedDuration :
    Granted(d) = Cardinality(Remaining(timestamps, d))

LimiterIInv ==
    /\ LimiterTypeOK
    /\ Remembered
    /\ BurstHonoured
    /\ SustainedHonoured

Sorted(ages) == \A i, j \in DOMAIN ages : i < j => ages[i] >= ages[j]

-----------------------------------------------------------------------------
(* The deque *)

\* An interval is finite and has as many members as it says.
LEMMA Intervals ==
    ASSUME NEW n \in Nat
    PROVE  /\ IsFiniteSet(1..n) /\ Cardinality(1..n) = n
           /\ IsFiniteSet(0..n)
<1>1. 0 \in Int /\ 1 \in Int /\ n \in Int
  OBVIOUS
<1>2. IsFiniteSet(1..n) /\ Cardinality(1..n) = IF 1 > n THEN 0 ELSE n - 1 + 1
  BY <1>1, FS_Interval
<1>3. IsFiniteSet(0..n)
  BY <1>1, FS_Interval
<1> QED
  BY <1>2, <1>3

\* The grants still inside a window are finitely many, and no more than were kept.
LEMMA RemainingFinite ==
    ASSUME NEW ages \in Seq(Ages), NEW d
    PROVE  /\ IsFiniteSet(Remaining(ages, d))
           /\ Cardinality(Remaining(ages, d)) \in Nat
           /\ Cardinality(Remaining(ages, d)) <= Len(ages)
<1>0. Len(ages) \in Nat
  OBVIOUS
<1>1. IsFiniteSet(1..Len(ages)) /\ Cardinality(1..Len(ages)) = Len(ages)
  BY <1>0, Intervals
<1>2. Remaining(ages, d) \in SUBSET (1..Len(ages))
  BY DEF Remaining
<1> QED
  BY <1>1, <1>2, FS_Subset, FS_CardinalityType

\* take_while counts all that are young enough, because the deque is sorted.
LEMMA BurstCountIsRemaining ==
    LimiterTypeOK => BurstCount = Cardinality(Remaining(timestamps, BurstDuration))
<1> SUFFICES ASSUME LimiterTypeOK
             PROVE  {i \in DOMAIN timestamps :
                        \A j \in i..Len(timestamps) : timestamps[j] <= BurstDuration}
                    = Remaining(timestamps, BurstDuration)
  BY DEF BurstCount
<1>1. ASSUME NEW i \in DOMAIN timestamps, timestamps[i] <= BurstDuration,
             NEW j \in i..Len(timestamps)
      PROVE  timestamps[j] <= BurstDuration
  <2>1. /\ DOMAIN timestamps = 1..Len(timestamps) /\ j \in DOMAIN timestamps
        /\ timestamps[i] \in Int /\ timestamps[j] \in Int
    BY DEF LimiterTypeOK, Ages, Stale
  <2>2. i < j => timestamps[i] >= timestamps[j]
    BY <2>1 DEF LimiterTypeOK
  <2> QED
    BY <1>1, <2>1, <2>2
<1> QED
  BY <1>1 DEF Remaining, LimiterTypeOK

\* A set of positions that has, with each, all before it.
LEMMA Prefix ==
    ASSUME NEW n \in Nat, NEW P \in SUBSET (1..n), \A i \in P : 1..i \subseteq P
    PROVE  Cardinality(P) \in 0..n /\ P = 1..Cardinality(P)
<1> DEFINE out == (1..n + 1) \ P
<1>1. PICK k \in out : \A i \in out : k <= i
  <2>1. out \subseteq Nat /\ n + 1 \in out
    OBVIOUS
  <2> HIDE DEF out
  <2> QED
    BY <2>1, LeastNatural
<1>2. P = 1..k - 1
  <2>1. ASSUME NEW i \in P PROVE i \in 1..k - 1
    <3>1. ~(k <= i)
      <4>1. k \in 1..n + 1 /\ k \notin P /\ 1..i \subseteq P
        BY <1>1
      <4> QED
        BY <4>1
    <3> QED
      BY <1>1, <3>1
  <2>2. ASSUME NEW i \in 1..k - 1 PROVE i \in P
    BY <1>1
  <2> QED
    BY <2>1, <2>2
<1>3. k - 1 \in 0..n /\ Cardinality(1..k - 1) = k - 1
  BY <1>1, Intervals
<1> QED
  BY <1>2, <1>3

\* Popping takes nothing young from the deque and keeps it sorted.
LEMMA PoppedKeeps ==
    ASSUME NEW ages \in Seq(Ages), Sorted(ages), NEW duration \in Nat
    PROVE  /\ FrontPopped(ages, duration) \in Seq(Ages)
           /\ Sorted(FrontPopped(ages, duration))
           /\ \A d \in 0..duration :
                Cardinality(Remaining(FrontPopped(ages, duration), d))
                    = Cardinality(Remaining(ages, d))
<1> DEFINE n == Len(ages)
           P == Popped(ages, duration)
           k == Cardinality(P)
           left == FrontPopped(ages, duration)
<1>0. n \in Nat /\ DOMAIN ages = 1..n /\ \A i \in 1..n : ages[i] \in Int
  BY DEF Ages, Stale
<1>1. k \in 0..n /\ P = 1..k
  <2>1. P \in SUBSET (1..n) /\ \A i \in P : 1..i \subseteq P
    BY <1>0 DEF Popped
  <2> QED
    BY <2>1, <1>0, Prefix
<1>2. \A i \in 1..k : ages[i] > duration
  BY <1>1 DEF Popped
<1> HIDE DEF k, P
<1>3. left = SubSeq(ages, k + 1, n)
  BY DEF FrontPopped, k, P
<1>4. /\ left \in Seq(Ages) /\ Len(left) = n - k
      /\ \A i \in 1..n - k : left[i] = ages[k + i]
  <2>1. \A i \in k + 1..n : ages[i] \in Ages
    BY <1>0, <1>1
  <2>2. /\ left \in Seq(Ages)
        /\ Len(left) = IF k + 1 <= n THEN n - (k + 1) + 1 ELSE 0
        /\ \A i \in 1..n - (k + 1) + 1 : left[i] = ages[(k + 1) + i - 1]
    <3> HIDE DEF n, left
    <3> QED
      BY <1>0, <1>1, <1>3, <2>1, SubSeqProperties
  <2>3. Len(left) = n - k
    <3>1. n \in Nat /\ k \in 0..n
      BY <1>0, <1>1
    <3> HIDE DEF n, left
    <3> QED
      BY <2>2, <3>1
  <2>4. ASSUME NEW i \in 1..n - k PROVE left[i] = ages[k + i]
    <3>1. i \in 1..n - (k + 1) + 1 /\ (k + 1) + i - 1 = k + i
      BY <1>0, <1>1
    <3>2. left[i] = ages[(k + 1) + i - 1]
      BY <2>2, <3>1
    <3> QED
      BY <3>1, <3>2
  <2> QED
    BY <2>2, <2>3, <2>4
<1> HIDE DEF left
<1>5. Sorted(left)
  <2>1. DOMAIN left = 1..n - k
    BY <1>4
  <2> SUFFICES ASSUME NEW i \in 1..n - k, NEW j \in 1..n - k, i < j
               PROVE  left[i] >= left[j]
    BY <2>1 DEF Sorted
  <2>2. k + i \in DOMAIN ages /\ k + j \in DOMAIN ages /\ k + i < k + j
    BY <1>0, <1>1
  <2> QED
    BY <1>4, <2>2 DEF Sorted
<1>6. ASSUME NEW d \in 0..duration
      PROVE  Cardinality(Remaining(left, d)) = Cardinality(Remaining(ages, d))
  <2> DEFINE A == Remaining(left, d)
             B == Remaining(ages, d)
             f == [i \in A |-> k + i]
  <2>1. A = {i \in 1..n - k : ages[k + i] <= d}
    BY <1>4 DEF Remaining
  <2>2. B = {i \in k + 1..n : ages[i] <= d}
    BY <1>0, <1>1, <1>2 DEF Remaining
  <2>3. IsFiniteSet(A)
    BY <1>4, RemainingFinite
  <2> HIDE DEF A, B
  <2>4. f \in [A -> B]
    BY <1>0, <1>1, <2>1, <2>2
  <2>5. \A i, j \in A : f[i] = f[j] => i = j
    BY <1>0, <1>1, <2>1
  <2>6. \A j \in B : j - k \in A /\ f[j - k] = j
    BY <1>0, <1>1, <2>1, <2>2
  <2>7. f \in Bijection(A, B)
    BY <2>4, <2>5, <2>6 DEF Bijection, Injection, Surjection, IsInjective
  <2> QED
    BY <2>3, <2>7, FS_Bijection DEF A, B, ExistsBijection
<1> QED
  BY <1>4, <1>5, <1>6 DEF left
\* A new timestamp is one more in every window.
LEMMA AppendCounts ==
    ASSUME NEW ages \in Seq(Ages), Sorted(ages)
    PROVE  /\ Append(ages, 0) \in Seq(Ages)
           /\ Sorted(Append(ages, 0))
           /\ \A d \in Nat : Cardinality(Remaining(Append(ages, 0), d))
                                = Cardinality(Remaining(ages, d)) + 1
<1> DEFINE n == Len(ages)
           more == Append(ages, 0)
<1>0. n \in Nat /\ DOMAIN ages = 1..n /\ 0 \in Ages /\ \A i \in 1..n : ages[i] \in Nat
  BY DEF Ages, Stale
<1>1. /\ more \in Seq(Ages) /\ Len(more) = n + 1 /\ DOMAIN more = 1..n + 1
      /\ more[n + 1] = 0
      /\ \A i \in 1..n : more[i] = ages[i]
  BY <1>0, AppendProperties
<1> HIDE DEF more
<1>2. Sorted(more)
  <2> SUFFICES ASSUME NEW i \in 1..n + 1, NEW j \in 1..n + 1, i < j
               PROVE  more[i] >= more[j]
    BY <1>1 DEF Sorted
  <2>1. CASE j = n + 1
    BY <1>0, <1>1, <2>1
  <2>2. CASE j # n + 1
    BY <1>0, <1>1, <2>2 DEF Sorted
  <2> QED
    BY <2>1, <2>2
<1>3. ASSUME NEW d \in Nat
      PROVE  Cardinality(Remaining(more, d)) = Cardinality(Remaining(ages, d)) + 1
  <2>1. Remaining(more, d) = Remaining(ages, d) \union {n + 1} /\ n + 1 \notin Remaining(ages, d)
    BY <1>0, <1>1 DEF Remaining
  <2>2. IsFiniteSet(Remaining(ages, d))
    BY RemainingFinite
  <2> HIDE DEF n
  <2> QED
    BY <2>1, <2>2, FS_AddElement
<1> QED
  BY <1>1, <1>2, <1>3 DEF more

-----------------------------------------------------------------------------
(* What was granted *)

\* The grants of a longer window are those of the shorter one and of one more age.
LEMMA GrantedUpTo ==
    ASSUME NEW g \in [Ages -> Nat], NEW d \in 0..SustainedDuration
    PROVE  /\ SumFunctionOnSet(g, 0..0) = g[0]
           /\ d > 0 => SumFunctionOnSet(g, 0..d) = g[d] + SumFunctionOnSet(g, 0..d - 1)
           /\ SumFunctionOnSet(g, 0..d) \in Nat
<1>1. \A e \in 0..d : g[e] \in Int /\ g[e] \in Nat
  BY DEF Ages, Stale
<1>2. IsFiniteSet(0..d) /\ IsFiniteSet(0..0)
  BY Intervals
<1>3. SumFunctionOnSet(g, 0..0) = g[0]
  <2>1. SumFunctionOnSet(g, 0..0) = g[0] + SumFunctionOnSet(g, (0..0) \ {0})
    BY <1>1, <1>2, SumRemove
  <2>2. (0..0) \ {0} = {} /\ g[0] \in Int
    BY <1>1
  <2> QED
    BY <2>1, <2>2, SumEmpty
<1>4. d > 0 => SumFunctionOnSet(g, 0..d) = g[d] + SumFunctionOnSet(g, 0..d - 1)
  <2>1. d > 0 => (0..d) \ {d} = 0..d - 1
    OBVIOUS
  <2>2. SumFunctionOnSet(g, 0..d) = g[d] + SumFunctionOnSet(g, (0..d) \ {d})
    BY <1>1, <1>2, SumRemove
  <2> QED
    BY <2>1, <2>2
<1>5. SumFunctionOnSet(g, 0..d) \in Nat
  BY <1>1, <1>2, SumOfNaturals
<1> QED
  BY <1>3, <1>4, <1>5

\* A tick makes everything that was granted one tick older.
LEMMA TickShiftsGranted ==
    ASSUME LimiterTypeOK, LimiterTick
    PROVE  /\ grants' \in [Ages -> Nat]
           /\ \A d \in 0..SustainedDuration :
                Granted(d)' = IF d = 0 THEN 0 ELSE Granted(d - 1)
<1> DEFINE N == {n \in Nat : n <= SustainedDuration =>
                    Granted(n)' = IF n = 0 THEN 0 ELSE Granted(n - 1)}
<1>0. grants \in [Ages -> Nat]
  BY DEF LimiterTypeOK
<1>1. grants' \in [Ages -> Nat]
  BY <1>0 DEF LimiterTick, Ages, Stale
<1>2. grants'[0] = 0 /\ \A d \in 1..SustainedDuration : grants'[d] = grants[d - 1]
  BY DEF LimiterTick, Ages, Stale
<1>3. 0 \in N
  BY <1>1, <1>2, GrantedUpTo DEF Granted
<1>4. ASSUME NEW n \in N PROVE n + 1 \in N
  <2> SUFFICES ASSUME n + 1 <= SustainedDuration PROVE Granted(n + 1)' = Granted(n)
    OBVIOUS
  <2>1. n \in 0..SustainedDuration /\ n + 1 \in 0..SustainedDuration
    OBVIOUS
  <2>2. Granted(n + 1)' = grants[n] + Granted(n)'
    <3>1. SumFunctionOnSet(grants', 0..n + 1)
            = grants'[n + 1] + SumFunctionOnSet(grants', 0..(n + 1) - 1)
      <4>1. \A d \in 0..SustainedDuration : d > 0 =>
                SumFunctionOnSet(grants', 0..d) = grants'[d] + SumFunctionOnSet(grants', 0..d - 1)
        BY <1>1, GrantedUpTo
      <4>2. n + 1 > 0
        BY <2>1
      <4> QED
        BY <2>1, <4>1, <4>2
    <3>2. (n + 1) - 1 = n /\ grants'[n + 1] = grants[n]
      BY <1>2, <2>1
    <3> QED
      BY <3>1, <3>2 DEF Granted
  <2>3. Granted(n)' = IF n = 0 THEN 0 ELSE Granted(n - 1)
    BY <2>1
  <2>4. /\ n = 0 => Granted(n) = grants[0]
        /\ n > 0 => Granted(n) = grants[n] + Granted(n - 1)
    BY <1>0, <2>1, GrantedUpTo DEF Granted
  <2>5. grants[n] \in Nat
    BY <1>0, <2>1 DEF Ages, Stale
  <2> HIDE DEF N
  <2> QED
    BY <2>1, <2>2, <2>3, <2>4, <2>5
<1> HIDE DEF N
<1>5. N = Nat
  BY <1>3, <1>4, SetInduction DEF N
<1> QED
  BY <1>1, <1>5 DEF N

\* A grant is one more in every window that it falls in.
LEMMA GrantCounts ==
    ASSUME LimiterTypeOK, Grant
    PROVE  /\ grants' \in [Ages -> Nat]
           /\ \A d \in 0..SustainedDuration : Granted(d)' = Granted(d) + 1
<1>0. grants \in [Ages -> Nat] /\ 0 \in Ages
  BY DEF LimiterTypeOK, Ages, Stale
<1>1. /\ grants' \in [Ages -> Nat]
      /\ grants'[0] = grants[0] + 1
      /\ \A a \in Ages \ {0} : grants'[a] = grants[a]
  BY <1>0 DEF Grant
<1>2. ASSUME NEW d \in 0..SustainedDuration
      PROVE  SumFunctionOnSet(grants', 0..d) = SumFunctionOnSet(grants, 0..d) + 1
  <2> DEFINE S == 0..d
  <2>1. IsFiniteSet(S) /\ 0 \in S /\ S \subseteq Ages
    BY Intervals DEF Ages, Stale
  <2>2. SumFunctionOnSet(grants', S) = SumFunctionOnSet(grants, S) - grants[0] + grants'[0]
    <3> HIDE DEF S
    <3> SUFFICES ASSUME NEW g, g = grants'
                 PROVE  SumFunctionOnSet(g, S) = SumFunctionOnSet(grants, S) - grants[0] + g[0]
      OBVIOUS
    <3>1. /\ \A y \in S : grants[y] \in Int /\ g[y] \in Int
          /\ \A y \in S \ {0} : g[y] = grants[y]
      BY <1>0, <1>1, <2>1
    <3> QED
      BY <2>1, <3>1, SumUpdate
  <2>3. SumFunctionOnSet(grants, 0..d) \in Nat /\ grants[0] \in Nat
    BY <1>0, GrantedUpTo
  <2> QED
    BY <1>1, <2>2, <2>3
<1> QED
  BY <1>1, <1>2 DEF Granted

-----------------------------------------------------------------------------
(* The invariant *)

\* The limiter starts inside the invariant.
LEMMA LimiterInitHolds == LimiterInit => LimiterIInv
<1> SUFFICES ASSUME LimiterInit PROVE LimiterIInv
  OBVIOUS
<1>1. LimiterTypeOK
  BY DEF LimiterInit, LimiterTypeOK
<1>2. ASSUME NEW d \in 0..SustainedDuration PROVE Granted(d) = 0
  <2>1. IsFiniteSet(0..d) /\ 0..d \subseteq Ages
    BY Intervals DEF Ages, Stale
  <2> QED
    BY <2>1, SumOfZeros DEF LimiterInit, Granted
<1>3. \A d : Cardinality(Remaining(timestamps, d)) = 0
  <2>1. \A d : Remaining(timestamps, d) = {}
    BY DEF LimiterInit, Remaining
  <2> QED
    BY <2>1, FS_EmptySet
<1> QED
  BY <1>1, <1>2, <1>3 DEF LimiterIInv, Remembered, BurstHonoured, SustainedHonoured

\* The passing of time keeps the limiter's invariant.
LEMMA LimiterTickPreserves == LimiterIInv /\ LimiterTick => LimiterIInv'
<1> SUFFICES ASSUME LimiterIInv, LimiterTick PROVE LimiterIInv'
  OBVIOUS
<1> USE DEF LimiterIInv
<1>1. /\ timestamps \in Seq(Ages) /\ timestamps' \in Seq(Ages)
      /\ Len(timestamps') = Len(timestamps) /\ Len(timestamps) \in Nat
      /\ DOMAIN timestamps = 1..Len(timestamps)
      /\ \A i \in 1..Len(timestamps) :
            timestamps[i] \in Ages /\ timestamps'[i] = Older(timestamps[i])
  <2>1. timestamps \in Seq(Ages) /\ DOMAIN timestamps = 1..Len(timestamps)
    BY DEF LimiterTypeOK
  <2>2. \A a \in Ages : Older(a) \in Ages
    BY DEF Ages, Stale, Older
  <2>3. timestamps' = [i \in 1..Len(timestamps) |-> Older(timestamps[i])]
    BY <2>1 DEF LimiterTick
  <2> QED
    BY <2>1, <2>2, <2>3
<1>o. /\ \A a, b \in Ages : a >= b => Older(a) >= Older(b)
      /\ \A a \in Ages, d \in 0..SustainedDuration : Older(a) <= d <=> a <= d - 1
      /\ \A a \in Ages : a \in Nat
  BY DEF Older, Ages, Stale
<1>2. LimiterTypeOK'
  <2>1. Sorted(timestamps)'
    <3> SUFFICES ASSUME NEW i \in 1..Len(timestamps), NEW j \in 1..Len(timestamps), i < j
                 PROVE  timestamps'[i] >= timestamps'[j]
      BY <1>1 DEF Sorted
    <3>1. timestamps[i] >= timestamps[j] /\ timestamps[i] \in Ages /\ timestamps[j] \in Ages
      BY <1>1 DEF LimiterTypeOK
    <3> QED
      BY <1>1, <1>o, <3>1
  <2> QED
    BY <1>1, <2>1, TickShiftsGranted DEF LimiterTypeOK, Sorted
<1>3. Remembered'
  <2> SUFFICES ASSUME NEW d \in 0..SustainedDuration
               PROVE  Granted(d)' = Cardinality(Remaining(timestamps', d))
    BY DEF Remembered
  <2>1. \A i \in 1..Len(timestamps) : timestamps'[i] <= d <=> timestamps[i] <= d - 1
    BY <1>1, <1>o
  <2>2. Remaining(timestamps', d) = Remaining(timestamps, d - 1)
    BY <1>1, <2>1 DEF Remaining
  <2>3. CASE d = 0
    <3>1. \A i \in 1..Len(timestamps) : ~(timestamps[i] <= d - 1)
      BY <1>1, <1>o, <2>3
    <3>2. Remaining(timestamps, d - 1) = {}
      BY <1>1, <3>1 DEF Remaining
    <3> QED
      BY <2>2, <2>3, <3>2, TickShiftsGranted, FS_EmptySet
  <2>4. CASE d # 0
    <3>1. Granted(d)' = Granted(d - 1) /\ d - 1 \in 0..SustainedDuration
      BY <2>4, TickShiftsGranted
    <3> QED
      BY <2>2, <3>1 DEF Remembered
  <2> QED
    BY <2>3, <2>4
<1>4. ASSUME NEW d \in 0..SustainedDuration PROVE Granted(d)' <= Granted(d)
  <2>1. grants \in [Ages -> Nat]
    BY DEF LimiterTypeOK
  <2>2. Granted(d) \in Nat /\ (d > 0 => Granted(d - 1) \in Nat /\ grants[d] \in Nat)
    BY <2>1, GrantedUpTo DEF Granted, Ages, Stale
  <2>3. d > 0 => Granted(d) = grants[d] + Granted(d - 1)
    BY <2>1, GrantedUpTo DEF Granted
  <2> QED
    BY <2>2, <2>3, TickShiftsGranted
<1>5. /\ Granted(BurstDuration)' <= BurstThreshold
      /\ Granted(SustainedDuration)' <= SustainedThreshold
  <2>1. BurstDuration \in 0..SustainedDuration /\ SustainedDuration \in 0..SustainedDuration
    OBVIOUS
  <2>2. grants \in [Ages -> Nat] /\ grants' \in [Ages -> Nat]
    BY TickShiftsGranted DEF LimiterTypeOK
  <2>3. \A d \in 0..SustainedDuration : Granted(d) \in Nat /\ Granted(d)' \in Nat
    BY <2>2, GrantedUpTo DEF Granted
  <2> QED
    BY <1>4, <2>1, <2>3 DEF BurstHonoured, SustainedHonoured
<1> QED
  BY <1>2, <1>3, <1>5 DEF BurstHonoured, SustainedHonoured

\* A grant keeps the limiter's invariant.
LEMMA GrantPreserves == LimiterIInv /\ Grant => LimiterIInv'
<1> SUFFICES ASSUME LimiterIInv, Grant PROVE LimiterIInv'
  OBVIOUS
<1> USE DEF LimiterIInv
<1> DEFINE more == Append(timestamps, 0)
<1>1. timestamps \in Seq(Ages) /\ Sorted(timestamps) /\ grants \in [Ages -> Nat]
  BY DEF LimiterTypeOK, Sorted
<1>2. /\ more \in Seq(Ages) /\ Sorted(more)
      /\ \A d \in Nat : Cardinality(Remaining(more, d)) = Cardinality(Remaining(timestamps, d)) + 1
  BY <1>1, AppendCounts
<1> HIDE DEF more
<1>3. /\ timestamps' \in Seq(Ages) /\ Sorted(timestamps')
      /\ \A d \in 0..SustainedDuration :
            Cardinality(Remaining(timestamps', d)) = Cardinality(Remaining(more, d))
  BY <1>2, PoppedKeeps DEF Grant, Prune, more
<1>4. LimiterTypeOK'
  BY <1>3, GrantCounts DEF LimiterTypeOK, Sorted
<1>5. Remembered'
  <2> SUFFICES ASSUME NEW d \in 0..SustainedDuration
               PROVE  Granted(d)' = Cardinality(Remaining(timestamps', d))
    BY DEF Remembered
  <2> QED
    BY <1>2, <1>3, GrantCounts DEF Remembered
<1>6. BurstHonoured'
  <2>1. Granted(BurstDuration) = BurstCount
    BY BurstCountIsRemaining DEF Remembered
  <2>2. BurstCount < BurstThreshold /\ BurstCount \in Nat
    <3>1. BurstCount \in Nat
      BY <1>1, RemainingFinite, BurstCountIsRemaining
    <3> QED
      BY <3>1 DEF Grant, WouldExceed, BurstExceeded
  <2> QED
    BY <2>1, <2>2, GrantCounts DEF BurstHonoured
<1>7. SustainedHonoured'
  <2>1. Granted(SustainedDuration) = Cardinality(Remaining(timestamps, SustainedDuration))
    BY DEF Remembered
  <2>2. /\ Cardinality(Remaining(timestamps, SustainedDuration)) \in Nat
        /\ Cardinality(Remaining(timestamps, SustainedDuration)) <= Len(timestamps)
        /\ Len(timestamps) \in Nat
    BY <1>1, RemainingFinite
  <2>3. Len(timestamps) < SustainedThreshold
    BY <2>2 DEF Grant, WouldExceed, SustainedExceeded
  <2> QED
    BY <2>1, <2>2, <2>3, GrantCounts DEF SustainedHonoured
<1> QED
  BY <1>4, <1>5, <1>6, <1>7

\* Every reachable state satisfies the inductive invariant.
THEOREM LimiterIInvHolds == LimiterSpec => []LimiterIInv
<1>1. LimiterIInv /\ [LimiterNext]_limiterVars => LimiterIInv'
  <2> SUFFICES ASSUME LimiterIInv, UNCHANGED limiterVars PROVE LimiterIInv'
    BY LimiterTickPreserves, GrantPreserves DEF LimiterNext
  <2> QED
    BY DEF limiterVars, LimiterIInv, LimiterTypeOK, Remembered, Remaining, BurstHonoured,
           SustainedHonoured, Granted
<1> QED
  BY <1>1, LimiterInitHolds, PTL DEF LimiterSpec

\* The deque stays sorted, which the counting of the burst window relies on.
THEOREM LimiterTypeCorrect == LimiterSpec => []LimiterTypeOK
  BY LimiterIInvHolds, PTL DEF LimiterIInv

\* No burst window is ever granted more than the burst threshold.
THEOREM BurstAlwaysHonoured == LimiterSpec => []BurstHonoured
  BY LimiterIInvHolds, PTL DEF LimiterIInv

\* No sustained window is ever granted more than the sustained threshold.
THEOREM SustainedAlwaysHonoured == LimiterSpec => []SustainedHonoured
  BY LimiterIInvHolds, PTL DEF LimiterIInv
=============================================================================
