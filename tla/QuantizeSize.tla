----------------------------- MODULE QuantizeSize -----------------------------
(***************************************************************************)
(* quantize_size_for_usdc_precision of execution/executor.rs: the size an  *)
(* order is submitted with.  Prices are integers of a tenth of a cent (the *)
(* finest tick there is), sizes of a hundredth of a share, so a notional   *)
(* is an integer of a thousandth of a cent and a cent is 1000 of it.       *)
(***************************************************************************)
EXTENDS Integers

Cent == 1000
Dollar == 100 * Cent

\* gcd_u64, its second argument first.
Gcd[b \in 0..100] == [a \in 0..100 |-> IF b = 0 THEN a ELSE Gcd[a % b][b]]

\* (price * 100).round(), ties to even, and no less than 1.
PriceCents(p) ==
    LET down == p \div 10
        up == p % 10 > 5 \/ (p % 10 = 5 /\ down % 2 = 1)
        rounded == IF up THEN down + 1 ELSE down
    IN  IF rounded < 1 THEN 1 ELSE rounded

\* Mutant: the lot of a price is its divisor itself.
LotDivisor(p) == Gcd[100][PriceCents(p)]

\* In hundredths of a share.
Lot(p) == 100 \div Gcd[100][PriceCents(p)]

\* Mutant: a lot more whatever the notional.
QuantizedUp(p, s) == (s \div Lot(p)) * Lot(p) + Lot(p)

Quantized(p, s) ==
    LET floored == (s \div Lot(p)) * Lot(p)
    IN  IF p * floored < Dollar THEN floored + Lot(p) ELSE floored

\* Prices of markets whose tick is a cent.
WholeCents(p) == p % 10 = 0
=============================================================================
