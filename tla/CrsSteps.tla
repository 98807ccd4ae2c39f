------------------------------ MODULE CrsSteps ------------------------------
(***************************************************************************)
(* From parameters to a CRS that is used: the three ways to make the       *)
(* parameters, validate with the loop of min_gadget_len, setup, the        *)
(* versioned form and its ingest, PackParams::try_new, and one coefficient *)
(* taken apart into gadget digits and put together again.                  *)
(***************************************************************************)
EXTENDS Parameters

CONSTANTS
  HandWritten,  \* parameter records that a caller may fill in
  Overrides,    \* sequences of moduli given to for_scenario_with_crt
  Shapes,       \* gamma_0 and the performance factor given to for_scenario
  EntrySizes,
  WireWidths,   \* widths that a blob made elsewhere declares
  DecodeLimit   \* DECODE_LIMIT_BYTES

\* InspireParams: the dimension, the lengths and the moduli are words too.
ParamRecords == [ringDim : Nat, q : 0 .. Word - 1, moduli : Seq(Nat), p : Nat, sigma : {"wide", "narrow"},
                 base : 0 .. Word - 1, len : Nat]

\* The types of the inputs in the code, and what the derivation makes (from_derivation):
\* a base of at least 2 and moduli whose product fits in a word.
CrsAssumption ==
  /\ Bits \in Nat \ {0}
  /\ HandWritten \subseteq ParamRecords /\ Overrides \subseteq Seq(Nat)
  /\ EntrySizes \subseteq Nat /\ WireWidths \subseteq Nat /\ DecodeLimit \in Nat
  /\ Derived \in [ringDim : Nat, moduli : Seq(Nat), p : Nat, base : 2 .. Word - 1, len : Nat]
  /\ Product(Derived.moduli) < Word

\* Powers of two double; the provers know no law of exponents.
PowersDouble ==
  2 ^ 0 = 1 /\ \A k \in 0 .. Bits - 1 : 2 ^ (k + 1) = 2 * 2 ^ k

VARIABLES
  at,           \* what runs: see Places
  goal,         \* on whose behalf parameters are validated
  params,
  made,         \* where the parameters come from: "hand", "scenario", "widened", "wire"
  product,      \* the product of the moduli that validate computed
  override,     \* the moduli that for_scenario_with_crt was given
  covered, needed, \* the loop of min_gadget_len: base ^ needed
  reason,       \* why the call was refused
  width,        \* inspiring_num_columns, or the entry size while setup runs
  own,          \* the CRS was made by setup
  value,        \* the coefficient that is decomposed
  rest, digit, current, sum

made_vars == <<params, made, override>>
loop_vars == <<covered, needed>>
digit_vars == <<value, rest, digit, current, sum>>
vars == <<at, goal, made_vars, product, loop_vars, reason, width, own, digit_vars>>

Places == {"idle", "held", "checks", "covering", "valid", "blob", "ready", "digits",
           "joined", "packed", "refused", "panicked"}
NoParams == FromDerivation
Base == IF goal = "widen" THEN Derived.base ELSE params.base
Target == IF goal = "widen" THEN Product(override) ELSE params.q

Init ==
  /\ at = "idle" /\ goal = "none" /\ params = NoParams /\ made = "none"
  /\ product = NoProduct /\ override = <<>> /\ covered = 0 /\ needed = 0
  /\ reason = NoDefect /\ width = 0 /\ own = FALSE
  /\ value = 0 /\ rest = 0 /\ digit = 0 /\ current = 0 /\ sum = 0

Goto(place) == at' = place /\ UNCHANGED reason
Refuse(why) == at' = "refused" /\ reason' = why

\* The caller starts over.
Again ==
  /\ at \in {"joined", "packed", "refused", "panicked"}
  /\ at' = "idle" /\ goal' = "none" /\ params' = NoParams /\ made' = "none"
  /\ product' = NoProduct /\ override' = <<>> /\ covered' = 0 /\ needed' = 0
  /\ reason' = NoDefect /\ width' = 0 /\ own' = FALSE
  /\ value' = 0 /\ rest' = 0 /\ digit' = 0 /\ current' = 0 /\ sum' = 0
-----------------------------------------------------------------------------
WriteParams ==
  /\ at = "idle" /\ Goto("held")
  /\ params' \in HandWritten /\ made' = "hand"
  /\ UNCHANGED <<goal, override, product, loop_vars, width, own, digit_vars>>

\* for_scenario: the gates on its arguments, and the noise gates, which may refuse.
ForScenario ==
  /\ at = "idle" /\ made' = "scenario" /\ goal' = "construct" /\ params' = FromDerivation
  /\ \E s \in Shapes :
       \/ /\ ~IsPowerOfTwo(s.gamma) \/ s.gamma > Derived.ringDim \div 2 \/ ~IsPowerOfTwo(s.factor)
          /\ Refuse("shape")
       \/ /\ IsPowerOfTwo(s.gamma) /\ s.gamma <= Derived.ringDim \div 2 /\ IsPowerOfTwo(s.factor)
          /\ Goto("checks") \/ Refuse("noise")
  /\ UNCHANGED <<override, product, loop_vars, width, own, digit_vars>>

\* for_scenario_with_crt has no such gates: a factor of zero overflows a shift, which
\* panics in a debug build and is of no consequence in a release build.
ForScenarioWithCrt ==
  /\ at = "idle" /\ made' = "widened" /\ goal' = "widen" /\ override' \in Overrides
  /\ IF Widens(override') THEN covered' = Derived.base /\ needed' = 1
                        ELSE UNCHANGED loop_vars
  /\ \E s \in Shapes :
       \/ s.gamma * s.factor = 0 /\ Goto("panicked")
       \/ Widens(override') /\ Goto("covering")
       \/ ~Widens(override') /\ Refuse("override")
  /\ UNCHANGED <<params, product, width, own, digit_vars>>

\* validate, up to the loop.
Check ==
  /\ at = "checks"
  /\ product' \in Products(params.moduli)
  /\ IF product' = NoProduct /\ Defect(params, params.q) \notin {"ring_dim", "many_moduli", "ntt"}
     THEN Goto("panicked") /\ UNCHANGED loop_vars
     ELSE LET why == IF Defect(params, product') # NoDefect THEN Defect(params, product')
                     ELSE IF params.base < 2 THEN "base" ELSE NoDefect
          IN  IF why = NoDefect THEN Goto("covering") /\ covered' = params.base /\ needed' = 1
                                ELSE Refuse(why) /\ UNCHANGED loop_vars
  /\ UNCHANGED <<goal, made_vars, width, own, digit_vars>>

\* min_gadget_len, one power more.
Cover ==
  /\ at = "covering" /\ covered < Target
  /\ IF needed = Bits THEN Refuse("base") /\ UNCHANGED loop_vars
     ELSE Goto("covering") /\ covered' = covered * Base /\ needed' = needed + 1
  /\ UNCHANGED <<goal, made_vars, product, width, own, digit_vars>>

\* The loop has returned: for_scenario_with_crt makes its parameters and validates
\* them, validate compares the length.
Widen ==
  /\ at = "covering" /\ covered >= Target /\ goal = "widen"
  /\ Goto("checks") /\ goal' = "construct" /\ params' = Widened(override, needed)
  /\ UNCHANGED <<override, made, product, loop_vars, width, own, digit_vars>>

CompareLength ==
  /\ at = "covering" /\ covered >= Target /\ goal # "widen"
  /\ IF Covers(params, needed)
     THEN Goto(IF goal = "construct" THEN "held" ELSE "valid")
     ELSE Refuse("gadget")
  /\ UNCHANGED <<goal, made_vars, product, loop_vars, width, own, digit_vars>>
-----------------------------------------------------------------------------
Setup ==
  /\ at = "held" /\ Goto("checks") /\ goal' = "setup" /\ width' \in EntrySizes
  /\ UNCHANGED <<made_vars, product, loop_vars, own, digit_vars>>

\* Mutant: setup accepts every width, which loading refuses.
MakeCrsAnyWidth ==
  /\ at = "valid" /\ goal = "setup"
  /\ LET columns == NumColumns(width)
     IN  IF width = 0 THEN Refuse("entry_size") /\ UNCHANGED <<width, own>>
         ELSE IF ~ContextBuilt(params) THEN Goto("panicked") /\ UNCHANGED <<width, own>>
         ELSE Goto("ready") /\ width' = columns /\ own' = TRUE
  /\ UNCHANGED <<goal, made_vars, product, loop_vars, digit_vars>>

\* The rest of setup: the entry size, the transform, the width.
MakeCrs ==
  /\ at = "valid" /\ goal = "setup"
  /\ LET columns == NumColumns(width)
     IN  IF width = 0 THEN Refuse("entry_size") /\ UNCHANGED <<width, own>>
         ELSE IF ~ContextBuilt(params) THEN Goto("panicked") /\ UNCHANGED <<width, own>>
         ELSE IF ~IsLegalWidth(params.ringDim, columns)
              THEN Refuse("width") /\ UNCHANGED <<width, own>>
         ELSE Goto("ready") /\ width' = columns /\ own' = TRUE
  /\ UNCHANGED <<goal, made_vars, product, loop_vars, digit_vars>>

\* The body of a CRS that setup made, in bytes: a number or a length takes eight of
\* them, a flag one, the security level four. PackParams and the packing key are not
\* written; log_d Galois keys are, each with the rows of the gadget.
PolyBytes(s) == 41 + 8 * Len(s.moduli) * (s.ringDim + 1)
KeyBytes(s) == 32 + s.len * 2 * PolyBytes(s)
GaloisKeys(s) == CHOOSE k \in 0 .. Bits - 1 : 2 ^ k = s.ringDim
BodyBytes(s) == 164 + 8 * Len(s.moduli) + GaloisKeys(s) * KeyBytes(s)

\* to_versioned_bytes, which knows no limit.
Serialize ==
  /\ at = "ready" /\ own /\ Goto("blob") /\ goal' = "load"
  /\ UNCHANGED <<made_vars, product, loop_vars, width, own, digit_vars>>

\* A blob from elsewhere: of another version, too large, undecodable, or any CRS.
Receive ==
  /\ at = "idle"
  /\ \/ \E why \in {"magic", "size", "decode"} : Refuse(why) /\ UNCHANGED <<goal, params, made, width>>
     \/ /\ Goto("blob") /\ goal' = "load" /\ made' = "wire"
        /\ params' \in HandWritten /\ width' \in WireWidths
  /\ UNCHANGED <<override, product, loop_vars, own, digit_vars>>

\* from_versioned_bytes on a blob of the right version: the body may be longer than the
\* limit, and no polynomial of a key is decoded whose moduli multiply past a word. What
\* came from elsewhere may hold other keys, or none: Receive has refused it already.
Load ==
  /\ at = "blob"
  /\ IF own /\ BodyBytes(params) > DecodeLimit THEN Refuse("size")
     ELSE IF own /\ Product(params.moduli) >= Word THEN Refuse("decode")
     ELSE Goto("checks")
  /\ UNCHANGED <<goal, made_vars, product, loop_vars, width, own, digit_vars>>

AcceptCrs ==
  /\ at = "valid" /\ goal = "load"
  /\ IF width = 0 \/ IsLegalWidth(params.ringDim, width) THEN Goto("ready") ELSE Refuse("width")
  /\ UNCHANGED <<goal, made_vars, product, loop_vars, width, own, digit_vars>>
-----------------------------------------------------------------------------
\* PackParams::try_new, on either side.
Pack ==
  /\ at = "ready" /\ width > 0
  /\ IF ~IsLegalWidth(params.ringDim, width) THEN Refuse("width")
     ELSE IF ~ContextBuilt(params) THEN Goto("panicked")
     ELSE IF Inverses(width, params.q) = {} THEN Refuse("not_invertible")
     ELSE Goto("packed")
  /\ UNCHANGED <<goal, made_vars, product, loop_vars, width, own, digit_vars>>

\* gadget_decompose of a polynomial that has the coefficient v.
Decompose ==
  /\ at = "ready" /\ Goto("digits")
  /\ \E v \in 0 .. params.q - 1 : value' = v /\ rest' = v
  /\ digit' = 0 /\ current' = 1 /\ sum' = 0
  /\ UNCHANGED <<goal, made_vars, product, loop_vars, width, own>>

\* The next digit, and the term of gadget_reconstruct for it: powers() holds the
\* powers modulo q. The path for the default modulus masks the same digits.
NextDigit ==
  /\ at = "digits" /\ digit < params.len
  /\ Goto("digits")
  /\ rest' = rest \div params.base /\ digit' = digit + 1
  /\ sum' = (sum + (rest % params.base) * current) % params.q
  /\ current' = (current * params.base) % params.q
  /\ UNCHANGED <<goal, made_vars, product, loop_vars, width, own, value>>

Join ==
  /\ at = "digits" /\ digit = params.len /\ Goto("joined")
  /\ UNCHANGED <<goal, made_vars, product, loop_vars, width, own, digit_vars>>

Next == Again \/ WriteParams \/ ForScenario \/ ForScenarioWithCrt \/ Check \/ Cover \/ Widen
        \/ CompareLength \/ Setup \/ MakeCrs \/ Serialize \/ Receive \/ Load \/ AcceptCrs
        \/ Pack \/ Decompose \/ NextDigit \/ Join

Spec == Init /\ [][Next]_vars
-----------------------------------------------------------------------------
\* Type invariant.
TypeOK ==
  /\ at \in Places /\ goal \in {"none", "construct", "widen", "setup", "load"}
  /\ params \in ParamRecords /\ product \in {NoProduct} \cup 0 .. Word - 1
  /\ needed \in 0 .. Bits /\ covered \in 0 .. Word * Word
  /\ width \in Nat /\ own \in BOOLEAN
  /\ \A x \in {value, rest, current, sum} : x \in 0 .. Word - 1

\* gadget_decompose and gadget_reconstruct: under parameters that validate accepted,
\* the digits of a coefficient leave nothing behind and put it together again.
GadgetCovers == at = "joined" => rest = 0 /\ sum = value

\* PackParams::try_new and try_new_full: a width of an accepted CRS gives a generator
\* of order exactly that width, which is invertible modulo q, and the powers of 5 and
\* their negatives are every odd index.
WidthsPack ==
  at = "ready" /\ width > 0 =>
    LET n == params.ringDim
        pows == GenPows(n, Generator(n, width))
        full == GenPows(n, FullGenerator)
        odd == {2 * i + 1 : i \in 0 .. n - 1}
    IN  /\ \A i, j \in 0 .. width - 1 : pows[i] = pows[j] => i = j
        /\ (pows[width - 1] * Generator(n, width)) % (2 * n) = 1
        /\ Inverses(width, params.q) # {}
        /\ n >= 4 => {full[i] : i \in 0 .. n \div 2 - 1}
                       \cup {2 * n - full[i] : i \in 0 .. n \div 2 - 1} = odd

\* setup and from_versioned_bytes: a CRS that setup made is accepted when it is loaded
\* again, and packs, but for two shapes that validate lets through and the decoder does
\* not: a gadget so long that the keys exceed the limit, and moduli whose product wraps.
TooLarge == reason = "size" /\ BodyBytes(params) > DecodeLimit
WrappedModuli == reason = "decode" /\ Product(params.moduli) >= Word
OwnCrsAccepted == own /\ at = "refused" => TooLarge \/ WrappedModuli

\* for_scenario_with_crt: parameters that it made are never refused for their gadget
\* or their product.
WideningSuffices == made = "widened" => reason \notin {"gadget", "product", "base"}

\* setup, from_versioned_bytes and for_scenario_with_crt together: what this crate made
\* stays well formed and passes its own checks, but for those two shapes.
OwnParametersPass == TypeOK /\ OwnCrsAccepted /\ WideningSuffices
=============================================================================
