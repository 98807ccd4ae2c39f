------------------------------ MODULE Residues ------------------------------
(***************************************************************************)
(* What arithmetic modulo q promises, whatever representation it works in: *)
(* one residue, and the operations callers apply to it. This is the        *)
(* stateless arithmetic of math/modular.rs, which the word-level           *)
(* arithmetic of ModArith is shown to implement.                           *)
(***************************************************************************)
EXTENDS Integers

CONSTANT Moduli       \* the moduli in use

VARIABLES
  modulus,
  value,       \* the residue, in 0 .. modulus - 1
  call         \* the last operation and its operands

\* ModQ::add, sub, mul and negate of modular.rs.
Sum(a, b, q) == (a + b) % q
Difference(a, b, q) == IF a >= b THEN a - b ELSE q - (b - a)
Product(a, b, q) == (a * b) % q
Negation(a, q) == IF a = 0 THEN 0 ELSE q - a

\* v to the e, one factor at a time.
Power(v, e, q) ==
  LET power[k \in 0 .. e] == IF k = 0 THEN 1 % q ELSE Product(power[k - 1], v, q)
  IN  power[e]

\* What an operation makes of the residue v. Inversion of zero returns None and
\* leaves it alone.
Results(c, v, q) ==
  CASE c.op = "load"   -> {c.arg % q}
    [] c.op = "add"    -> {Sum(v, c.arg, q)}
    [] c.op = "sub"    -> {Difference(v, c.arg, q)}
    [] c.op = "mul"    -> {Product(v, c.arg, q)}
    [] c.op = "muladd" -> {Sum(v, Product(c.arg, c.by, q), q)}
    [] c.op = "negate" -> {Negation(v, q)}
    [] c.op = "pow"    -> {Power(v, c.arg, q)}
    [] c.op = "invert" -> IF v = 0 THEN {0} ELSE {w \in 0 .. q - 1 : Product(v, w, q) = 1}

Init == /\ modulus \in Moduli
        /\ value = 0
        /\ call = [op |-> "load", arg |-> 0]

Next == /\ value' \in Results(call', value, modulus)
        /\ UNCHANGED modulus

Spec == Init /\ [][Next]_<<modulus, value, call>>
=============================================================================
