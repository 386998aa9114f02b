--------------------------- MODULE MCGroupExecution ---------------------------
(***************************************************************************)
(* One or two groups that share the breaker.  Groups differ in nothing but *)
(* their names.                                                            *)
(***************************************************************************)
EXTENDS GroupExecution, TLC

Symmetry == Permutations(Groups)

Pair(yes, no, size) == [price |-> <<10 * yes, 10 * no>>, size |-> size]

\* A hundred shares, which either price sells and an unwind can sell whole.
WholeLots == {Pair(50, 45, 10000)}

\* An unwind sells at the worst bid it accepts or at the best there can be.
AnyBid == {10, 999}

\* Half a dollar sells in fiftieths of a share, 45 cents in fifths: legs that
\* both fill differ by a tenth of a share.  And legs that do not.
FewIntents == {Pair(50, 45, 10050), Pair(48, 49, 1000)}

\* Prices of every divisor of a hundred and of none, up to both ends, that add
\* up to less than a dollar, each with sizes from the least the strategies ask
\* for to past every lot.
ManyIntents ==
    {Pair(prices[1], prices[2],
          100 * MinimumShares(10 * Min({prices[1], prices[2]})) + more) :
        prices \in {q \in {1, 4, 10, 25, 48, 50, 96} \X {2, 5, 20, 33, 51, 75, 98} :
                        q[1] + q[2] < 100},
        more \in {0, 1, 37, 50, 99}}
===============================================================================
