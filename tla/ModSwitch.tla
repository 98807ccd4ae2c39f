----------------------------- MODULE ModSwitch ------------------------------
(***************************************************************************)
(* pir/mod_switch.rs: a response is rescaled to smaller moduli, behind the *)
(* noise gate or past it, put on the wire in as few bytes as its modulus   *)
(* needs, taken off it and read. Bytes have ByteBits bits in place of 8.   *)
(***************************************************************************)
EXTENDS RingOps, Sequences

CONSTANTS
  P,           \* plaintext modulus
  TailMult, Sigma,   \* |s| <= TailMult * Sigma is what the gate takes keys to be
  ByteBits,
  SourceLimbs, \* the moduli whose product is Q: one or two
  Targets,     \* moduli to switch to
  Secrets, Messages, Masks,
  Errors,      \* errors of an answer
  Columns,     \* numbers of column ciphertexts beside the main one
  WordBits,    \* bits of the word that holds a modulus (64)
  MaxSwitches  \* bound on the switches of one answer

\* The types of the inputs; a modulus fits in a word.
SwitchAssumption ==
  /\ RingAssumption
  /\ P \in Nat /\ P > 1 /\ P < Q /\ ByteBits \in Nat \ {0} /\ WordBits \in Nat \ {0}
  /\ Targets \subseteq Nat \ {0} /\ Columns \subseteq Nat /\ SourceLimbs \in {1, 2}
  /\ \A q \in Targets \cup {Q} : q <= 2 ^ WordBits
  /\ Secrets \subseteq Elements /\ Masks \subseteq Elements /\ Errors \subseteq Elements
  /\ Messages \subseteq [Idx -> 0 .. P - 1]

\* Powers of two double; the provers know no law of exponents.
PowersOfTwoDouble ==
  2 ^ 0 = 1 /\ \A k \in 0 .. WordBits + ByteBits : 2 ^ (k + 1) = 2 * 2 ^ k

VARIABLES
  secret, message,
  answer,      \* ServerResponse: modulus, limbs, mode, cts (the main one first)
  wire,        \* what encode_response_packed wrote
  received,    \* what decode_response_packed made of it
  switches,    \* history: the moduli switched to
  gated,       \* history: every switch passed the gate
  quiet,       \* history: the error the answer was made with is below Q / 4P
  bound        \* history: of the error of the answer, in units of 1 / P
switchVars == <<secret, message, answer, wire, received, switches, gated, quiet, bound>>

Over(q) == INSTANCE RingOps WITH Q <- q
Ct(a, b) == [a |-> a, b |-> b]
-----------------------------------------------------------------------------
\* ModSwitchParams::new accepts the target.
Accepts(target) ==
  target > 0 /\ target <= Q /\ target >= P /\ target % (2 * N) = 1

\* check_mod_switch_noise_budget: 1/2 + d s_max / 2, and half the budget for what
\* the answer comes with, stay below target / 2P.
WithinBudget(target) == 2 * P * (1 + N * TailMult * Sigma) < target

\* Mutant: down, not to the nearest.
RescaledDown(c, from, to) == ((c * to) \div from) % to

\* mod_switch_poly, on one coefficient.
Rescaled(c, from, to) == ((c * to + from \div 2) \div from) % to
SwitchPoly(p, from, to) == [i \in Idx |-> Rescaled(p[i], from, to)]

\* mod_switch_secret_key.
SwitchSecret(s, to) == [i \in Idx |-> Centered(s[i]) % to]

Phase(ct, q) == Over(q)!Plus(Over(q)!Times(ct.a, SwitchSecret(secret, q)), ct.b)

\* with_moduli neither asserts nor fails to find a root of order 2N.
HasContext(q) ==
  LET pow[b \in 0 .. q, e \in 0 .. q] ==
        IF e = 0 THEN 1
        ELSE LET half == pow[b, e \div 2] IN (half * half * IF e % 2 = 0 THEN 1 ELSE b) % q
      root(g) == pow[g, (q - 1) \div (2 * N)]
  IN  q % (2 * N) = 1 /\ \E g \in 2 .. q - 1 : pow[root(g), 2 * N] = 1 /\ pow[root(g), N] # 1

\* extract_inspiring_mod_switched, up to the columns' bytes.
Readable(r) ==
  /\ r.mode = "inspiring" /\ r.limbs = 1 /\ r.modulus \div P > 0
  /\ HasContext(r.modulus)

\* Mutant: decrypt takes the floor.
ExtractedDown(r) ==
  LET v == Phase(r.cts[1], r.modulus)
  IN  [i \in Idx |-> (v[i] \div (r.modulus \div P)) % P]

\* decrypt, with the delta and the secret of the answer's own modulus.
Extracted(r) ==
  LET delta == r.modulus \div P
      v == Phase(r.cts[1], r.modulus)
  IN  [i \in Idx |-> ((v[i] + delta \div 2) \div delta) % P]
-----------------------------------------------------------------------------

\* bytes_per_coeff: what the largest residue needs.
Width(q) ==
  LET bits == CHOOSE k \in 1 .. WordBits : q <= 2 ^ k /\ \A l \in 1 .. k - 1 : q > 2 ^ l
  IN  (bits + ByteBits - 1) \div ByteBits

\* write_poly_packed, and read_poly of what starts after the first start bytes.
Byte(c, k) == (c \div 2 ^ (ByteBits * k)) % 2 ^ ByteBits
Packed(p, width) == [i \in 1 .. N * width |-> Byte(p[(i - 1) \div width], (i - 1) % width)]
Unpacked(bytes, start, width, q) ==
  [i \in Idx |->
     LET value[k \in 0 .. width] ==
           IF k = 0 THEN 0
           ELSE value[k - 1] + bytes[start + i * width + k] * 2 ^ (ByteBits * (k - 1))
     IN  value[width] % q]

\* encode_response_packed and decode_response_packed.
Encoded(r) ==
  LET width == Width(r.modulus)
      polys == [i \in 1 .. 2 * Len(r.cts) |->
                  IF i % 2 = 1 THEN r.cts[(i + 1) \div 2].a ELSE r.cts[i \div 2].b]
      len == N * width
  IN  [modulus |-> r.modulus, width |-> width, mode |-> r.mode, columns |-> Len(r.cts) - 1,
       payload |-> [k \in 1 .. 2 * Len(r.cts) * len |->
                      Packed(polys[(k - 1) \div len + 1], width)[((k - 1) % len) + 1]]]
Decoded(w) ==
  LET poly(i) == Unpacked(w.payload, i * N * w.width, w.width, w.modulus)
  IN  [modulus |-> w.modulus, limbs |-> 1, mode |-> w.mode,
       cts |-> [i \in 1 .. w.columns + 1 |-> Ct(poly(2 * i - 2), poly(2 * i - 1))]]
-----------------------------------------------------------------------------
None == [modulus |-> 0]

\* P times what the phase of ct is off the multiple of q / P that m stands for.
Off(ct, q, m) ==
  {LET x == (P * Phase(ct, q)[i] - m[i] * q) % (P * q)
   IN  IF 2 * x <= P * q THEN x ELSE P * q - x : i \in Idx}
Largest(s) == CHOOSE x \in s : \A y \in s : y <= x

\* What a fresh encryption of m looks like.
Fresh(m, a, e) ==
  Ct(a, Plus(Minus(e, Times(a, secret)), Scaled(m, Q \div P)))
SwitchInit ==
  /\ secret \in Secrets /\ message \in Messages
  /\ \E a \in Masks, e \in Errors, columns \in Columns :
       answer = [modulus |-> Q, limbs |-> SourceLimbs,
                 mode |-> IF columns = 0 THEN "inspiring" ELSE "none",
                 cts |-> [i \in 1 .. columns + 1 |->
                            Fresh(IF i = 1 THEN message ELSE Zero, Scaled(a, i), e)]]
  /\ wire = None /\ received = None /\ switches = <<>> /\ gated = TRUE
  /\ bound = Largest(Off(answer.cts[1], Q, message))
  /\ quiet = (4 * P * LargestSize(Minus(Phase(answer.cts[1], Q), Scaled(message, Q \div P))) < Q)

SwitchCt(ct, from, to) == Ct(SwitchPoly(ct.a, from, to), SwitchPoly(ct.b, from, to))

\* mod_switch_response_checked, and past the gate mod_switch_response_unchecked. The
\* gate sees the parameters of the CRS, whatever the modulus of the answer is.
Switch(to, checked) ==
  /\ wire = None /\ Len(switches) < MaxSwitches
  /\ checked => Accepts(to) /\ WithinBudget(to)
  /\ LET from == answer.modulus
         rounding == P * (1 + N * LargestSize(secret))
     IN  /\ answer' = [answer EXCEPT !.modulus = to, !.limbs = 1,
                         !.cts = [i \in DOMAIN @ |-> SwitchCt(@[i], from, to)]]
         /\ bound' = (2 * to * bound + from * rounding + 2 * from - 1) \div (2 * from)
  /\ switches' = Append(switches, to)
  /\ gated' = (gated /\ checked)
  /\ UNCHANGED <<secret, message, wire, received, quiet>>

\* encode_response_packed refuses an answer of two limbs.
Encode ==
  /\ wire = None /\ answer.limbs = 1
  /\ wire' = Encoded(answer)
  /\ UNCHANGED <<secret, message, answer, received, switches, gated, quiet, bound>>

Decode ==
  /\ wire # None
  /\ received' = Decoded(wire)
  /\ UNCHANGED <<secret, message, answer, wire, switches, gated, quiet, bound>>

SwitchNext ==
  Encode \/ Decode \/ \E to \in Targets, checked \in BOOLEAN : Switch(to, checked)

SwitchSpec == SwitchInit /\ [][SwitchNext]_switchVars
-----------------------------------------------------------------------------
\* mod_switch_poly and mod_switch_secret_key: a switch scales the error and adds half
\* a unit for b and for every coefficient of the key, over any number of switches.
ErrorWithinBound ==
  Largest(Off(answer.cts[1], answer.modulus, message)) <= bound

\* extract_inspiring_mod_switched: while the error, and what floor(q / p) loses over
\* the message, are below half of floor(q / p), what is read is the message.
SwitchedReadsRight ==
  LET q == answer.modulus
  IN  /\ 2 * (bound + (P - 1) * (q % P)) < P * (q \div P)
      /\ Readable(answer)
      => Extracted(answer) = message

\* encode_response_packed and decode_response_packed: no coefficient is cut, and none
\* changes places, under any modulus.
ReceivedAsSent == received # None => received = answer

\* What a client can rely on, over any number of switches.
SwitchedAnswersSound == ErrorWithinBound /\ SwitchedReadsRight /\ ReceivedAsSent

\* What the tests say of the identity switch: an answer switched, through the gate, to
\* the modulus it has reads back.
IdentityReads ==
  /\ switches = <<Q>> /\ gated /\ quiet /\ answer.mode = "inspiring"
  => Readable(answer) /\ Extracted(answer) = message
=============================================================================
