------------------------------ MODULE RingOps -------------------------------
(***************************************************************************)
(* Z_Q[X]/(X^N + 1): its elements are functions from 0 .. N - 1 to         *)
(* residues. What math/poly.rs promises its callers, and what the modules  *)
(* above it compute with.                                                  *)
(***************************************************************************)
EXTENDS Integers

CONSTANTS
  N,           \* ring dimension, a power of two
  Q            \* the modulus, a product of up to two primes

RingAssumption == N \in Nat \ {0} /\ Q \in Nat /\ Q > 1

Idx == 0 .. N - 1
Residue == 0 .. Q - 1
Elements == [Idx -> Residue]

\* The total of f over 0 .. n - 1, reduced.
SumBelow(n, f(_)) ==
  LET sum[i \in 0 .. n] == IF i = 0 THEN 0 ELSE (sum[i - 1] + f(i - 1)) % Q
  IN  sum[n]

Zero == [i \in Idx |-> 0]
Constant(c) == [i \in Idx |-> IF i = 0 THEN c % Q ELSE 0]
Plus(a, b) == [i \in Idx |-> (a[i] + b[i]) % Q]
Minus(a, b) == [i \in Idx |-> (a[i] - b[i]) % Q]
Negated(a) == [i \in Idx |-> (-a[i]) % Q]
Scaled(a, k) == [i \in Idx |-> (a[i] * (k % Q)) % Q]

\* X^N is -1, so that what passes the end comes back with its sign changed.
Times(a, b) ==
  [i \in Idx |-> SumBelow(N, LAMBDA j : IF j <= i THEN a[j] * b[i - j]
                                        ELSE -(a[j] * b[N + i - j]))]

\* X^k for k in 0 .. 2N - 1.
Monomial(k) ==
  [i \in Idx |-> IF i = k % N THEN (IF (k \div N) % 2 = 0 THEN 1 ELSE Q - 1) ELSE 0]

\* X goes to X^g, for odd g.
Automorphism(a, g) ==
  [i \in Idx |->
     LET j == CHOOSE j \in Idx : (j * g) % N = i
     IN  IF ((j * g) \div N) % 2 = 0 THEN a[j] ELSE (-a[j]) % Q]

\* The representative in -Q/2 .. Q/2.
Centered(x) == IF x <= Q \div 2 THEN x ELSE x - Q
Size(x) == IF x <= Q \div 2 THEN x ELSE Q - x
LargestSize(a) == CHOOSE m \in {Size(a[i]) : i \in Idx} : \A i \in Idx : Size(a[i]) <= m
=============================================================================
