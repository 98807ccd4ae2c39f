---------------------------- MODULE Polynomials -----------------------------
(***************************************************************************)
(* Sequences of polynomial operations on registers, over one modulus or    *)
(* two, in whatever domain the registers happen to be. An assertion that   *)
(* fails refuses the operation.                                            *)
(***************************************************************************)
EXTENDS Polys

CONSTANTS
  Chain,       \* the sequence of moduli
  Regs,
  Given,       \* coefficients that registers are loaded with
  Vectors,     \* sampled polynomials, of signed words
  Wires,       \* records that arrive to be decoded
  Leftover,    \* arrays of words that arithmetic may make of words past their modulus
  Scalars,
  MaxOps       \* bound: operations in a row

\* The moduli pass init_moduli, and their product is a word, as that of every set of
\* moduli in params.rs is.
ChainAssumption ==
  /\ Chain \in Seq(NttModuli) /\ ModuliAccepted(Chain)
  /\ Len(Chain) = 2 => Chain[1] * Chain[2] < Word

\* The fields of PolyWire.
IsRecord(w) ==
  w = [dim |-> w.dim, moduli |-> w.moduli, inv |-> w.inv, q |-> w.q, ntt |-> w.ntt,
       coeffs |-> w.coeffs]

\* A record that fits the ring. TryFrom<PolyWire> does not compare its words with
\* their moduli, as every constructor does.
Fits(w) == Decodes(w) /\ w.moduli = Chain /\ w.dim = N
Canonical(w) == \A i \in DOMAIN w.coeffs : w.coeffs[i] \in 0 .. Chain[i \div N + 1] - 1

\* The types of the inputs in the code.
PolyInputs ==
  /\ Given \subseteq [Idx -> Words] /\ Vectors \subseteq [Idx -> SignedWords]
  /\ Scalars \subseteq Words
  /\ \A w \in Wires : IsRecord(w) /\ w.moduli \in Seq(Words)
  /\ Leftover \subseteq [Range2(N, Len(Chain)) -> Words]

VARIABLES
  reg,
  stands,          \* the ring element that each register stands for
  unreduced,       \* the registers that words past their modulus went into (history)
  asked, answer,   \* the last operation and what it returned
  ops

polyVars == <<reg, stands, unreduced, asked, answer, ops>>

NoAnswer == -1

\* The element that the residues of the coefficients c stand for, by the remainder
\* theorem.
ElementOf(c) ==
  LET residues == {<<i, m, Limb(c, m)[i] % c.moduli[m]>> : i \in Idx, m \in Limbs(c)}
      coefficient(i) == CHOOSE v \in 0 .. c.q - 1 :
                          \A r \in residues : r[1] = i => v % c.moduli[r[2]] = r[3]
  IN  [i \in Idx |-> coefficient(i)]

PolyInit ==
  /\ reg \in [Regs -> {FromCoeffs(g, Chain) : g \in Given}]
  /\ stands = [r \in Regs |-> ElementOf(reg[r])] /\ unreduced = {}
  /\ asked = [op |-> "none"] /\ answer = NoAnswer /\ ops = 0

\* The operation named op makes p of register r, and returns a.
Do(op, r, by, arg, p, a) ==
  /\ ops' = ops + 1
  /\ \E poly \in {p} :
       /\ reg' = [reg EXCEPT ![r] = poly]
       /\ \E c \in {FromNtt(poly)} : stands' = [stands EXCEPT ![r] = ElementOf(c)]
  /\ unreduced' = unreduced \ {r}
  /\ asked' = [op |-> op, target |-> r, by |-> by, arg |-> arg]
  /\ answer' = a

Make(op, r, by, arg, p) == Do(op, r, by, arg, p, NoAnswer)

\* An error is returned, or an assertion fails.
Refuse(r) ==
  /\ ops' = ops + 1 /\ UNCHANGED <<reg, stands, unreduced>>
  /\ asked' = [op |-> "refused", target |-> r, by |-> r, arg |-> r]
  /\ answer' = NoAnswer

\* The operation, or the panic of its assertion.
Asserting(needed, op, r, by, arg, p) ==
  \/ needed /\ Make(op, r, by, arg, p)
  \/ ~needed /\ Refuse(r)

\* Words past their modulus go into register r, which then stands for nothing: Ring is
\* told of a load.
Nothing == [i \in Idx |-> 0]
HoldUnreduced(r, p) ==
  /\ ops' = ops + 1 /\ unreduced' = unreduced \cup {r}
  /\ reg' = [reg EXCEPT ![r] = p] /\ stands' = [stands EXCEPT ![r] = Nothing]
  /\ asked' = [op |-> "load", target |-> r, by |-> r, arg |-> Nothing]
  /\ answer' = NoAnswer

\* The coefficients v, reduced modulo the product of the moduli.
Reduced(v) == [i \in Idx |-> v[i] % CrtModulus(Chain)]
-----------------------------------------------------------------------------
LoadPoly(r) ==
  \E g \in Given : Make("load", r, r, Reduced(g), FromCoeffs(g, Chain))

\* from_crt_coeffs, of stripes that are not reduced.
LoadStripes(r) ==
  \E g \in Given :
    LET p == FromCrtCoeffs([i \in Range2(N, Len(Chain)) |-> g[i % N]], Chain)
    IN  Make("load", r, r, Reduced(g), p)

LoadVectors(r) ==
  \E s \in Vectors : Make("load", r, r, Reduced(s), FromSamples(s, Chain))

\* A record is decoded if the guard accepts it, and loaded if it is of this ring,
\* whatever its words.
Decode(r) ==
  \E w \in Wires :
    \/ Fits(w) /\ Canonical(w) /\ Make("load", r, r, ElementOf(FromNtt(w)), w)
    \/ Fits(w) /\ ~Canonical(w) /\ HoldUnreduced(r, w)
    \/ ~Fits(w) /\ Refuse(r)

\* An operation, on register r, that such words are operands of. The kernels are written
\* for reduced words: their sums may wrap, or panic in a debug build, and one subtraction
\* need not reduce them. What they leave is any words, in either domain.
ComputeUnreduced(r) ==
  /\ unreduced # {}
  /\ \/ Refuse(r)
     \/ \E words \in Leftover, ntt \in BOOLEAN :
          HoldUnreduced(r, [reg[r] EXCEPT !.coeffs = words, !.ntt = ntt])

Convert(r) ==
  \/ Make("convert", r, r, "ntt", ToNtt(reg[r]))
  \/ Make("convert", r, r, "coeff", FromNtt(reg[r]))

\* Add, Sub and their assigning forms want one domain, whichever.
AddPolys(r, s) == Asserting(reg[r].ntt = reg[s].ntt, "add", r, s, s, PolyAdd(reg[r], reg[s]))
SubtractPolys(r, s) == Asserting(reg[r].ntt = reg[s].ntt, "sub", r, s, s, PolySub(reg[r], reg[s]))

NegatePoly(r) == Make("negate", r, r, r, PolyNegate(reg[r]))
ScalePoly(r) == \E k \in Scalars : Make("scale", r, r, k, ScalarMul(reg[r], k))

\* add_ntt_domain and add_assign_ntt_domain.
AddInNtt(r, s) ==
  Asserting(reg[r].ntt /\ reg[s].ntt, "add", r, s, s, PolyAdd(reg[r], reg[s]))

\* mul_ntt takes both domains; mul_ntt_domain and * only evaluations.
MultiplyPolys(r, s) == Make("mul", r, s, s, MulNtt(reg[r], reg[s]))
MultiplyInNtt(r, s) ==
  Asserting(reg[r].ntt /\ reg[s].ntt, "mul", r, s, s, MulNttDomain(reg[r], reg[s]))

AccumulateProduct(r, s, t) ==
  Asserting(\A x \in {r, s, t} : reg[x].ntt, "muladd", r, s, t,
            MulAccNttDomain(reg[r], reg[s], reg[t]))

AccumulateThreeProducts(r, s, t) ==
  Asserting(\A x \in {r, s, t} : reg[x].ntt, "muladd3", r, s, t,
            MulAcc3NttDomain(reg[r], reg[s], reg[t]))

Set(r) ==
  \E i \in Idx, k \in Scalars :
    Asserting(~reg[r].ntt, "set", r, r,
              [stands[r] EXCEPT ![i] = k % CrtModulus(Chain)],
              SetCoeff(reg[r], i, k))

Read(r) ==
  \E i \in Idx : ~reg[r].ntt /\ Do("read", r, r, i, reg[r], Coeff(reg[r], i))

Norm(r) == ~reg[r].ntt /\ Do("norm", r, r, 0, reg[r], LinfNorm(reg[r]))

ReadRefused(r) == reg[r].ntt /\ Refuse(r)

Stop == ops = MaxOps /\ UNCHANGED polyVars

\* The registers whose words are below their moduli are what the kernels are for; reads
\* of the others change nothing and are left out.
Operation ==
  \/ \E r \in Regs : \/ LoadPoly(r) \/ LoadStripes(r) \/ LoadVectors(r)
                     \/ Decode(r) \/ ComputeUnreduced(r)
  \/ \E r \in Regs \ unreduced :
       \/ Convert(r) \/ NegatePoly(r) \/ ScalePoly(r) \/ Set(r)
       \/ Read(r) \/ Norm(r) \/ ReadRefused(r)
  \/ \E r, s \in Regs \ unreduced :
       \/ AddPolys(r, s) \/ SubtractPolys(r, s) \/ AddInNtt(r, s)
       \/ MultiplyPolys(r, s) \/ MultiplyInNtt(r, s)
  \/ \E r, s, t \in Regs \ unreduced :
       AccumulateProduct(r, s, t) \/ AccumulateThreeProducts(r, s, t)

PolyNext == (ops < MaxOps /\ Operation) \/ Stop

PolySpec == PolyInit /\ [][PolyNext]_polyVars
-----------------------------------------------------------------------------
(* Properties                                                              *)

\* Whatever mixture of domains a sequence of calls goes through, a register holds
\* the ring element that the calls name, and what is read of it is that element's;
\* a call on the wrong domain changes nothing (poly.rs, the flag is_ntt). Of a register
\* that an unreduced record went into nothing is promised, until it is loaded again.
PolyRing == INSTANCE Ring WITH Q <- CrtModulus(Chain), element <- stands, call <- asked
PolynomialsImplementRing == PolyRing!Spec

\* Every register, by whichever way it came: loaded, sampled, decoded or computed, has a
\* word for each coefficient and modulus, and the remaindering of its own moduli; and
\* every word is below the modulus of its stripe, but where a decoded record brought
\* others in (poly.rs, init_moduli and TryFrom<PolyWire>).
Representation ==
  \A r \in Regs :
    LET p == reg[r]
    IN  /\ DOMAIN p.coeffs = 0 .. p.dim * Len(p.moduli) - 1
        /\ r \notin unreduced =>
             \A i \in DOMAIN p.coeffs : p.coeffs[i] \in 0 .. p.moduli[i \div p.dim + 1] - 1
        /\ \A m, n \in Limbs(p) : m # n => p.q = p.moduli[m] * p.moduli[n]
                                           /\ (p.moduli[1] * p.inv) % p.moduli[2] = 1
        /\ Limbs(p) = {1} => p.q = p.moduli[1]

\* What the guard accepts has a composite modulus that no product saturated, and
\* moduli that the remainder theorem applies to, so that composing the residues of
\* a value gives the value (poly.rs, TryFrom<PolyWire>; crt.rs, crt_compose_2).
DecodedComposes ==
  ops = 0 => \A w \in Wires :
    Decodes(w) /\ Len(w.moduli) = 2 =>
      w.q = w.moduli[1] * w.moduli[2] /\ \A v \in 0 .. w.q - 1 :
        CrtCompose(v % w.moduli[1], v % w.moduli[2], w.moduli[1], w.moduli[2], w.inv) = v

\* Both: what registers hold and what arrives are polynomials of their moduli.
RegistersSound == Representation /\ DecodedComposes
=============================================================================
