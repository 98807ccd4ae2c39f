-------------------------------- MODULE Ring --------------------------------
(***************************************************************************)
(* Registers that hold ring elements, and the operations of a polynomial   *)
(* library upon them. An operation may be refused and then changes         *)
(* nothing; one that is not refused computes the element it is named for.  *)
(***************************************************************************)
EXTENDS RingOps

CONSTANT Regs

VARIABLES
  element,     \* what each register holds
  call,        \* the last operation: its name, target and operands
  answer       \* what it returned

NoAnswer == -1

\* The target after the operation c on the elements e.
Result(c, e) ==
  LET a == e[c.target]  x == e[c.by]
  IN  CASE c.op \in {"load", "set"}         -> c.arg
        [] c.op = "add"                     -> Plus(a, x)
        [] c.op = "sub"                     -> Minus(a, x)
        [] c.op = "negate"                  -> Negated(a)
        [] c.op = "scale"                   -> Scaled(a, c.arg)
        [] c.op = "mul"                     -> Times(a, x)
        [] c.op = "muladd"                  -> Plus(a, Times(x, e[c.arg]))
        [] c.op = "muladd3"                 -> Plus(a, Scaled(Times(x, e[c.arg]), 3))
        [] c.op \in {"convert", "read", "norm", "refused", "none"} -> a

Answer(c, e) ==
  CASE c.op = "read" -> e[c.target][c.arg]
    [] c.op = "norm" -> LargestSize(e[c.target])
    [] OTHER         -> NoAnswer

Init == /\ element \in [Regs -> Elements]
        /\ call.op = "none" /\ answer = NoAnswer

Next == /\ element' = [element EXCEPT ![call'.target] = Result(call', element)]
        /\ answer' = Answer(call', element)

Spec == Init /\ [][Next]_<<element, call, answer>>
=============================================================================
