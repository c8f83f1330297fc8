-------------------------------- MODULE Sums --------------------------------
(***************************************************************************)
(* What the code adds up: reduce((a, b) => a + b, 0) over a list, SUM over *)
(* the rows of a query.                                                    *)
(***************************************************************************)
EXTENDS Integers, FiniteSetsExt

(* The total of a column: the sum of a function over its domain.             *)
Total(f) == MapThenSumSet(LAMBDA x : f[x], DOMAIN f)

(* The sum of an expression over the elements of a set.                      *)
SumOf(S, f(_)) == Total([x \in S |-> f(x)])
=============================================================================
