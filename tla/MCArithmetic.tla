---------------------------- MODULE MCArithmetic ----------------------------
(***************************************************************************)
(* Words of residues by every kernel, and polynomials in every domain, in  *)
(* one run.  part says which of the two a behaviour is of; the variables   *)
(* of the other stay as they are.                                          *)
(***************************************************************************)
EXTENDS ResidueWords, Polynomials

VARIABLE part
-----------------------------------------------------------------------------
(* Words of 7 bits: every word, every sample and every residue.            *)

MCLoads == Words
MCSamples == SignedWords
-----------------------------------------------------------------------------
(* Registers of two coefficients under two moduli, 5 and 13.               *)

\* The second is not reduced.
MCGiven == {[i \in Idx |-> IF i = 1 THEN 1 ELSE 0], [i \in Idx |-> Word - 1 - 13 * i]}
MCVectors == {[i \in Idx |-> IF i = 0 THEN -3 ELSE 2 - i]}

MCChain == <<5, 13>>

Good == ToNtt(FromCoeffs([i \in Idx |-> 7 + i], MCChain))

\* A good record, two with words past their moduli, and records that differ from one in
\* a field or two.
MCWires ==
  {Good, EmptyPoly,
   [Good EXCEPT !.coeffs = [i \in DOMAIN @ |-> Word - 1]],
   [Good EXCEPT !.coeffs[N] = MCChain[2], !.ntt = FALSE],
   [Good EXCEPT !.dim = 2 * N], [Good EXCEPT !.moduli = @ \o @],
   [Good EXCEPT !.inv = @ + 1], [Good EXCEPT !.q = @ + 1]}
   \cup {[Poly([i \in 0 .. 2 * N - 1 |-> 1], N, <<p, q>>) EXCEPT !.q = CrtModulus(<<p, q>>)] :
            p \in {0, 1, 5, 10, 17}, q \in {0, 1, 13, 16}}
   \cup {Poly([i \in 0 .. N - 1 |-> 0], N, <<q>>) : q \in {0, 1, 13, 127}}

MCLeftover == {[i \in Range2(N, Len(MCChain)) |-> Word - 1]}

ASSUME ArithmeticHypotheses == TypedInputs /\ ChainAssumption /\ PolyInputs
-----------------------------------------------------------------------------
\* Registers that nobody works on any more, after a call that was refused.
Idle ==
  /\ reg = [r \in Regs |-> EmptyPoly] /\ stands = [r \in Regs |-> Nothing]
  /\ unreduced = {}
  /\ asked = [op |-> "none", target |-> "first", by |-> "first", arg |-> "first"]
  /\ answer = NoAnswer /\ ops = MaxOps

\* A word that nobody uses stays as it was loaded.
MCInit ==
  \/ part = "words" /\ Init /\ Idle
  \/ part = "polynomials" /\ PolyInit /\ Init /\ modulus = 5

WordStep == part = "words" /\ Next /\ UNCHANGED <<part, polyVars>>
PolynomialStep == part = "polynomials" /\ PolyNext /\ UNCHANGED <<part, vars>>

MCNext == WordStep \/ PolynomialStep

MCSpec == MCInit /\ [][MCNext]_<<part, vars, polyVars>>
=============================================================================
