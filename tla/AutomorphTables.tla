-------------------------- MODULE AutomorphTables ---------------------------
(***************************************************************************)
(* generate_automorph_tables and apply_automorphism_ntt of                 *)
(* inspiring/inspiring2.rs: under the transform an automorphism is a       *)
(* permutation, which the server recovers by matching the values of a      *)
(* random polynomial, under its first modulus, with those of its image.    *)
(***************************************************************************)
EXTENDS Ntt, Sequences

CONSTANTS
  LimbModuli,  \* the CRT moduli, a sequence
  Draws        \* the coefficients that a random polynomial may have

LimbsAssumption ==
  /\ LimbModuli \in Seq(NttModuli) /\ LimbModuli # <<>>
  /\ Draws \subseteq [Idx -> Nat]

VARIABLES
  tables,      \* the tables that are done, by Galois element
  element,     \* the Galois element whose table is being recovered
  original, image,  \* the values of the drawn polynomial and of its image
  table, row,  \* what has been matched
  values       \* by modulus, of each polynomial and of its image under each element

tableVars == <<tables, element, original, image, table, row, values>>

Elements == {e \in 1 .. 2 * N - 1 : e % 2 = 1}
NoArray == <<>>
Monomials == {[j \in Idx |-> IF j = k THEN 1 ELSE 0] : k \in Idx}

\* apply_automorphism.
Automorphism(a, e, q) ==
  [i \in Idx |->
     LET j == CHOOSE j \in Idx : (j * e) % N = i
     IN  IF ((j * e) \div N) % 2 = 0 THEN a[j] ELSE NegMod(a[j], q)]

\* table_index, for odd elements.
TableIndex(e) == (e - 1) \div 2

\* The residues of a polynomial under a modulus. They are drawn for each modulus on its own;
\* any that are drawn are those of some numbers, by the remainder theorem.
LimbOf(p, q) == [j \in Idx |-> p[j] % q]
\* Its image under an element, transformed.
ImageValues(p, e, q) == Forward(Automorphism(LimbOf(p, q), e, q), q)

TablesInit ==
  /\ tables = [k \in 0 .. N - 1 |-> NoArray] /\ element = 1
  /\ original = NoArray /\ image = NoArray /\ table = NoArray /\ row = 0
  /\ values = [m \in DOMAIN LimbModuli |->
       [p \in Draws \cup Monomials |->
          [e \in Elements |-> ImageValues(p, e, LimbModuli[m])]]]

Draw(p) ==
  /\ element < 2 * N /\ original = NoArray
  /\ original' = values[1][p][1] /\ image' = values[1][p][element]
  /\ table' = [i \in Idx |-> 0] /\ row' = 0
  /\ UNCHANGED <<tables, element, values>>

Matching(i) == {j \in Idx : image[j] = original[i]}

\* Mutant: a value that is there twice is matched with the last of its places.
MatchLast ==
  /\ original # NoArray /\ row < N /\ Matching(row) # {}
  /\ table' = [table EXCEPT ![CHOOSE j \in Matching(row) : \A i \in Matching(row) : i <= j] = row]
  /\ row' = row + 1
  /\ UNCHANGED <<tables, element, values, original, image>>

\* One value: it must be found exactly once.
Match ==
  /\ original # NoArray /\ row < N
  /\ \E j \in Matching(row) : Matching(row) = {j} /\ table' = [table EXCEPT ![j] = row]
  /\ row' = row + 1
  /\ UNCHANGED <<tables, element, values, original, image>>

\* Mutant: the same polynomial is tried again.
RetrySame ==
  /\ original # NoArray /\ row < N
  /\ \A j \in Matching(row) : Matching(row) # {j}
  /\ table' = [i \in Idx |-> 0] /\ row' = 0
  /\ UNCHANGED <<tables, element, values, original, image>>

\* must_redo: another polynomial is drawn.
Retry ==
  /\ original # NoArray /\ row < N
  /\ \A j \in Matching(row) : Matching(row) # {j}
  /\ original' = NoArray /\ image' = NoArray /\ table' = NoArray /\ row' = 0
  /\ UNCHANGED <<tables, element, values>>

Push ==
  /\ original # NoArray /\ row = N
  /\ tables' = [tables EXCEPT ![TableIndex(element)] = table]
  /\ element' = element + 2
  /\ original' = NoArray /\ image' = NoArray /\ table' = NoArray /\ row' = 0
  /\ UNCHANGED values

Complete == element > 2 * N /\ UNCHANGED tableVars

TablesNext == (\E p \in Draws : Draw(p)) \/ Match \/ Retry \/ Push \/ Complete

\* Draws are independent, so that no polynomial stays away for ever.
TableFairness ==
  /\ WF_tableVars(Match) /\ WF_tableVars(Retry) /\ WF_tableVars(Push)
  /\ \A p \in Draws : SF_tableVars(Draw(p))

TablesSpec == TablesInit /\ [][TablesNext]_tableVars /\ TableFairness
-----------------------------------------------------------------------------
\* Mutant: a table serves the element and its conjugate.
ApplyConjugate(c, e) == [i \in Idx |-> c[tables[TableIndex((2 * N - e) % (2 * N))][i]]]

\* apply_automorphism_ntt, for one limb.
ApplyAutomorphismNtt(c, e) == [i \in Idx |-> c[tables[TableIndex(e)][i]]]

\* apply_automorphism_ntt: a table recovered under the first modulus turns the values of
\* a polynomial into those of its image, under every modulus; monomials generate all.
TablesCommute ==
  element > 2 * N =>
    \A e \in Elements, m \in DOMAIN values : \A p \in DOMAIN values[m] :
      ApplyAutomorphismNtt(values[m][p][1], e) = values[m][p][e]

\* A table is complete and never matched from values that repeat: it is a permutation.
TablesArePermutations ==
  \A k \in DOMAIN tables : tables[k] # NoArray => {tables[k][i] : i \in Idx} = Idx

\* The loop ends for every element, though it draws again whenever a value repeats.
TablesRecovered == <>(element > 2 * N)
=============================================================================
