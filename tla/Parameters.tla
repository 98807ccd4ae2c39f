----------------------------- MODULE Parameters -----------------------------
(***************************************************************************)
(* InspireParams: the checks that validate makes before the loop of        *)
(* min_gadget_len, the constructors, the widths of PackParams and what     *)
(* ntt_context asserts. Words have Bits bits in place of 64.               *)
(***************************************************************************)
EXTENDS Integers, Sequences

CONSTANTS
  Bits,
  ColumnValueCeiling,  \* the largest value of a column, which p must exceed
  Derived              \* the adaptive derivation: ringDim, moduli, p, base, len

Word == 2 ^ Bits
IsPowerOfTwo(n) == \E k \in 0 .. Bits - 1 : n = 2 ^ k
Members(s) == {s[i] : i \in DOMAIN s}

\* gcd_u64.
Gcd(a, b) ==
  LET gcd[x \in Nat, y \in Nat] == IF y = 0 THEN x ELSE gcd[y, x % y] IN gcd[a, b]

Product(moduli) ==
  LET product[i \in 0 .. Len(moduli)] ==
        IF i = 0 THEN 1 ELSE product[i - 1] * moduli[i]
  IN  product[Len(moduli)]

\* iter().product(), when it does not fit in a word: a debug build panics, with no
\* product, and a release build wraps.
NoProduct == -1
Products(moduli) ==
  IF Product(moduli) < Word THEN {Product(moduli)}
  ELSE {NoProduct, Product(moduli) % Word}
-----------------------------------------------------------------------------
\* The checks of validate, in order: check i fails s, whose moduli have the product.
Checks == <<"ring_dim", "no_moduli", "many_moduli", "ntt", "product", "coprime",
            "p_above_q", "sigma", "p_too_small">>
Fails(i, s, product) ==
  CASE i = 1 -> ~IsPowerOfTwo(s.ringDim)
    [] i = 2 -> s.moduli = <<>>
    [] i = 3 -> Len(s.moduli) > 2
    [] i = 4 -> \E m \in Members(s.moduli) : m % (2 * s.ringDim) # 1
    [] i = 5 -> s.q # product
    [] i = 6 -> Len(s.moduli) = 2 /\ Gcd(s.moduli[1], s.moduli[2]) # 1
    [] i = 7 -> s.q < s.p
    [] i = 8 -> s.sigma # "wide"
    [] i = 9 -> s.p <= ColumnValueCeiling

NoDefect == "none"
Defect(s, product) ==
  LET failing == {i \in DOMAIN Checks :
                    /\ \A j \in 1 .. i - 1 : ~Fails(j, s, product)
                    /\ Fails(i, s, product)}
  IN  IF failing = {} THEN NoDefect ELSE Checks[CHOOSE i \in failing : TRUE]

\* Mutant: a gadget one digit short is enough.
CoversShort(s, needed) == s.len + 1 >= needed

\* The last check: the gadget has the digits that min_gadget_len asks for.
Covers(s, needed) == s.len >= needed
-----------------------------------------------------------------------------
\* Mutant: widths up to the ring dimension.
IsLegalWidthToRingDim(ringDim, width) ==
  IsPowerOfTwo(ringDim) /\ IsPowerOfTwo(width) /\ width <= ringDim

\* PackParams::is_legal_width and legal_widths.
IsLegalWidth(ringDim, width) ==
  IsPowerOfTwo(ringDim) /\ IsPowerOfTwo(width) /\ width <= ringDim \div 2
LegalWidths(ringDim) == {w \in 1 .. ringDim : IsLegalWidth(ringDim, w)}

\* try_new and try_new_full: the generator, and its powers in the order of gen_pows.
Generator(ringDim, width) == (2 * ringDim) \div width + 1
FullGenerator == 5
GenPows(ringDim, generator) ==
  LET power[i \in 0 .. ringDim - 1] ==
        IF i = 0 THEN 1 ELSE (power[i - 1] * generator) % (2 * ringDim)
  IN  power

\* mod_inverse_u64: the inverses of width modulo q, none or one.
Inverses(width, q) == {x \in 0 .. q - 1 : (width * x) % q = 1 % q}

\* The columns that setup counts in an entry.
NumColumns(entrySize) == LET c == (entrySize + 1) \div 2 IN IF c > 1 THEN c ELSE 1
-----------------------------------------------------------------------------
\* find_primitive_root(2n, q) returns: some power of order 2n whose n-th power is not 1.
StdPow(b, e, q) ==
  LET pow[i \in 0 .. e] == IF i = 0 THEN 1 % q ELSE (pow[i - 1] * b) % q IN pow[e]
RootFound(ringDim, q) ==
  \E g \in 2 .. q - 1 :
    LET candidate == StdPow(g, (q - 1) \div (2 * ringDim), q)
    IN  /\ StdPow(candidate, 2 * ringDim, q) = 1
        /\ StdPow(candidate, ringDim, q) # 1

\* NttContext::with_moduli neither asserts nor indexes past an end.
ContextBuilt(s) ==
  /\ IsPowerOfTwo(s.ringDim) /\ s.moduli # <<>>
  /\ \A m \in Members(s.moduli) :
       m % (2 * s.ringDim) = 1 /\ RootFound(s.ringDim, m) /\ s.ringDim > 1
-----------------------------------------------------------------------------
\* from_derivation: the product of the derived moduli fits in a word.
FromDerivation ==
  [ringDim |-> Derived.ringDim, q |-> Product(Derived.moduli), moduli |-> Derived.moduli,
   p |-> Derived.p, sigma |-> "wide", base |-> Derived.base, len |-> Derived.len]

\* for_scenario_with_crt refuses moduli narrower than the derived ones, more than
\* two, and a product that does not fit.
Widens(moduli) ==
  /\ Product(moduli) >= Product(Derived.moduli)
  /\ Len(moduli) <= 2
  /\ Product(moduli) < Word

\* The parameters it goes on with, for a gadget of at least the derived length.
Widened(moduli, needed) ==
  [FromDerivation EXCEPT
     !.q = Product(moduli), !.moduli = moduli,
     !.len = IF needed > Derived.len THEN needed ELSE Derived.len]
=============================================================================
