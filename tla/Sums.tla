---------------------------------- MODULE Sums ---------------------------------
(***************************************************************************)
(* Totals: what the ledgers of the vault add up to.                        *)
(***************************************************************************)
EXTENDS Integers, FiniteSets, FiniteSetsExt

\* The sum of the values of f at the points of S, and everywhere.
sum_over(f, S) == MapThenSumSet(LAMBDA x : f[x], S)

sum(f) == sum_over(f, DOMAIN f)

===============================================================================
