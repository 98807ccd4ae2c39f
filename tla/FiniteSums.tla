----------------------------- MODULE FiniteSums -----------------------------
(***************************************************************************)
(* Sums that properties of products and transforms are stated with.        *)
(***************************************************************************)
EXTENDS Integers

\* The sum of f[0] to f[n - 1].
SumTo(f, n) ==
  LET sum[i \in 0 .. n] == IF i = 0 THEN 0 ELSE sum[i - 1] + f[i - 1]
  IN  sum[n]
=============================================================================
