------------------------------- MODULE MCNoise ------------------------------
(***************************************************************************)
(* Errors in one run: what they grow to in sequences of operations on      *)
(* ciphertexts, and how they are drawn.  part says which one a behaviour   *)
(* is of; the variables of the other stay as they are, in a state in which *)
(* it has nothing to do.                                                   *)
(***************************************************************************)
EXTENDS RlweSteps, Sampler

VARIABLE part
-----------------------------------------------------------------------------
(* Four coefficients; a modulus that holds two external products.  A direct *)
(* LWE ciphertext may have any error below half of Delta = 819, less the    *)
(* wraps of the plaintext.                                                  *)

SmallSecrets == {[i \in Idx |-> IF i = 1 THEN Q - 1 ELSE i % 2], [i \in Idx |-> 1]}
OtherSecret(s) == [i \in Idx |-> IF i = 0 THEN 1 ELSE (Q - s[i]) % Q]

MCSecrets == {<<s, OtherSecret(s)>> : s \in SmallSecrets}
MCMessages == {[i \in Idx |-> IF i = 0 THEN 4 ELSE i]}
MCMask == [seed \in 0 .. Seeds - 1 |-> [i \in Idx |-> (1009 * seed + 577 * i + 2311) % Q]]
MCErrors == {[i \in Idx |-> IF i % 2 = 0 THEN 1 ELSE Q - 1]}
MCMultipliers == {[i \in Idx |-> i % 2]}
MCLweNoise == {-409, 401}

ASSUME NoiseAssumptions ==
  /\ RingAssumption /\ GadgetAssumption /\ StepsAssumption
  /\ SamplerAssumption /\ PowersDouble
-----------------------------------------------------------------------------
\* Registers of zeros and no operation left.
NoOperations ==
  /\ secret = CHOOSE pair \in Secrets : TRUE
  /\ matrix = <<>> /\ rgsw = <<>>
  /\ ct = [r \in Regs |-> Trivial(Zero)] /\ under = [r \in Regs |-> 1]
  /\ plain = [r \in Regs |-> Zero] /\ bound = [r \in Regs |-> 0]
  /\ lwe = [c |-> Pair(Zero, 0), under |-> 1, plain |-> 0, bound |-> 0]
  /\ ops = MaxOps

\* A call that has its samples.
NoSample == /\ accept = <<>> /\ curve = <<>> /\ pc = "draw" /\ proposed = 0 /\ uniform = 0
            /\ drawn = <<0, 0>> /\ lifted = <<0, 0>>

MCInit ==
  \/ part = "registers" /\ Init /\ NoSample
  \/ part = "sample" /\ SamplerInit /\ NoOperations

RegisterStep == part = "registers" /\ Next /\ UNCHANGED <<part, samplerVars>>
SampleStep == part = "sample" /\ SamplerNext /\ UNCHANGED <<part, vars>>
\* The call has its samples: the caller goes on.
SampleOver == part = "sample" /\ Len(lifted) = VectorLen /\ UNCHANGED <<part, vars, samplerVars>>

MCNext == RegisterStep \/ SampleStep \/ SampleOver

MCSpec == MCInit /\ [][MCNext]_<<part, vars, samplerVars>> /\ Fairness
=============================================================================
