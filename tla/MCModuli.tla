------------------------------ MODULE MCModuli ------------------------------
(***************************************************************************)
(* What depends on the choice of moduli, in one run of components that     *)
(* share no state: the way of parameters and a CRS, and answers that are   *)
(* switched between moduli.  part says which one a behaviour is of; the    *)
(* variables of the others stay as they are.                               *)
(***************************************************************************)
EXTENDS CrsSteps, ModSwitch

VARIABLES
  part,
  primeSecret, primeMessage, primeAnswer, primeWire, primeReceived,  \* of PrimeSwitch
  primeSwitches, primeGated, primeQuiet, primeBound

primeVars == <<primeSecret, primeMessage, primeAnswer, primeWire, primeReceived,
               primeSwitches, primeGated, primeQuiet, primeBound>>
-----------------------------------------------------------------------------
(* Words of eight bits: parameters around every check that validate makes. *)

Wrapped(ms) ==
  LET upTo[k \in 0 .. Len(ms)] == IF k = 0 THEN 1 ELSE (upTo[k - 1] * ms[k]) % 256
  IN  upTo[Len(ms)]

Record(ringDim, q, moduli, p, sigma, base, len) ==
  [ringDim |-> ringDim, q |-> q, moduli |-> moduli, p |-> p, sigma |-> sigma,
   base |-> base, len |-> len]

\* One modulus and two, dimensions that suit them, gadgets of too few digits or enough.
Sound ==
  {Record(d, Wrapped(ms), ms, 5, "wide", b, len) :
     d \in {2, 4, 8}, ms \in {<<17>>, <<97>>, <<241>>, <<5, 13>>, <<13, 17>>},
     b \in {2, 5, 8, 255}, len \in {1, 2, 3, 8}}

\* Records that fail a check, or only just pass it.
Edges ==
  {Record(d, q, ms, p, sigma, b, 8) :
     d \in {1, 2, 3}, ms \in {<<>>, <<17>>, <<5, 5>>, <<5, 13, 1>>, <<13, 29>>},
     q \in {1, 17, 25, 65, 121}, p \in {3, 4, 17, 18}, sigma \in {"wide", "narrow"},
     b \in {1, 2}}

\* Moduli that are 1, or no prime, and a product that wraps to q.
Odd ==
  {Record(2, 9, <<9>>, 5, "wide", 2, 8), Record(2, 17, <<1, 17>>, 5, "wide", 2, 8),
   Record(2, Wrapped(<<17, 41>>), <<17, 41>>, 5, "wide", 2, 8)}

MCHandWritten == Sound \cup Edges \cup Odd
MCOverrides == {<<>>, <<5>>, <<5, 13>>, <<13, 17>>, <<241>>, <<17, 41>>, <<5, 13, 5>>, <<13, 13>>,
              <<7, 13>>}
MCShapes == [gamma : {0, 1, 3, 16}, factor : {0, 1, 2, 3}]

MCDerived == [ringDim |-> 2, moduli |-> <<5, 13>>, p |-> 5, base |-> 5, len |-> 3]

\* The hypotheses of the theorems about the CRS.
ASSUME CrsHypotheses == CrsAssumption /\ PowersDouble
-----------------------------------------------------------------------------
(* Two coefficients; secrets and masks that make every rounding go one way, *)
(* under a modulus of two primes and under a prime.                         *)

Pair(x0, x1, q) == [i \in 0 .. 1 |-> IF i = 0 THEN x0 % q ELSE x1 % q]
SecretsOf(q) == {Pair(1, 1, q), Pair(-1, 1, q), Pair(-1, -1, q), Pair(1, 0, q)}
MessagesOf(q) == {Pair(4, 0, q), Pair(1, 3, q)}
MasksOf(q) == {Pair(577, 311, q), Pair(12, 1060, q), Pair(16, 16, q)}
ErrorsOf(q) == {Pair(0, 0, q), Pair(q \div 20, -(q \div 20), q), Pair(-(q \div 20), 1, q)}
Smaller == {401, 109, 41, 37, 13}

MCSecrets == SecretsOf(Q)
MCMessages == MessagesOf(Q)
MCMasks == MasksOf(Q)
MCErrors == ErrorsOf(Q)
MCTargets == {Q} \cup Smaller

PrimeSwitch == INSTANCE ModSwitch WITH
  Q <- 1069, SourceLimbs <- 1, Targets <- {1069} \cup Smaller,
  Secrets <- SecretsOf(1069), Messages <- MessagesOf(1069), Masks <- MasksOf(1069),
  Errors <- ErrorsOf(1069),
  secret <- primeSecret, message <- primeMessage, answer <- primeAnswer, wire <- primeWire,
  received <- primeReceived, switches <- primeSwitches, gated <- primeGated,
  quiet <- primeQuiet, bound <- primeBound

ASSUME SwitchHypotheses ==
  /\ SwitchAssumption /\ PowersOfTwoDouble
  /\ PrimeSwitch!SwitchAssumption /\ PrimeSwitch!PowersOfTwoDouble
-----------------------------------------------------------------------------
\* An answer of nothing, that nobody switches.
Idle ==
  /\ secret = Zero /\ message = Zero /\ wire = None /\ received = None /\ switches = <<>>
  /\ answer = [modulus |-> Q, limbs |-> SourceLimbs, mode |-> "none", cts |-> <<Ct(Zero, Zero)>>]
  /\ gated = TRUE /\ quiet = TRUE /\ bound = 0
PrimeIdle ==
  /\ primeSecret = None /\ primeMessage = None /\ primeAnswer = None /\ primeWire = None
  /\ primeReceived = None /\ primeSwitches = None /\ primeGated = None /\ primeQuiet = None
  /\ primeBound = None

\* A CRS that nobody makes stays in its initial state.
MCInit ==
  /\ Init
  /\ \/ part = "crs" /\ Idle /\ PrimeIdle
     \/ part = "switch" /\ SwitchInit /\ PrimeIdle
     \/ part = "prime switch" /\ Idle /\ PrimeSwitch!SwitchInit

CrsStep == part = "crs" /\ Next /\ UNCHANGED <<part, switchVars, primeVars>>
SwitchStep == part = "switch" /\ SwitchNext /\ UNCHANGED <<part, vars, primeVars>>
PrimeSwitchStep ==
  /\ part = "prime switch" /\ PrimeSwitch!SwitchNext
  /\ UNCHANGED <<part, vars, switchVars>>

MCNext == CrsStep \/ SwitchStep \/ PrimeSwitchStep

MCSpec == MCInit /\ [][MCNext]_<<part, vars, switchVars, primeVars>>
-----------------------------------------------------------------------------
\* mod_switch.rs: an answer switched, through the gate, from a prime modulus to itself
\* reads back.
IdentitySwitchReads == part = "prime switch" => PrimeSwitch!IdentityReads
=============================================================================
