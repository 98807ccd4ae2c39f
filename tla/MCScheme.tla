------------------------------ MODULE MCScheme ------------------------------
(***************************************************************************)
(* The scheme from the ring up, in one run of components that share no     *)
(* state: products by transforms, automorphisms as tables, homomorphic     *)
(* evaluation, and the three packings.  part says which one a behaviour is *)
(* of; the variables of the others stay as they are.                       *)
(***************************************************************************)
EXTENDS NttSteps, AutomorphTables

VARIABLES
  part,
  secret, plain, call, packed, keys, work, pending,
  kG, kH, packingKs, lwes, rlwes, precomp, current, iter,
  galoisKeys, input, nodes, ell, bValues,
  pack, column, server, client, rAll, index, boldT

shared == <<secret, plain, call, packed, keys, work, precomp>>
legacyVars == <<kG, kH, packingKs, lwes, rlwes, current, iter>>
treeVars == <<galoisKeys, input, nodes, ell, bValues>>
inspiringVars == <<pack, column, server, client, rAll, index, boldT>>
None == "none"
-----------------------------------------------------------------------------
(* Products of monomials, which generate all others, of dense arrays, and  *)
(* of arrays with words past the modulus, with one factor of each kind.    *)

MCMonomial(k) == [j \in Idx |-> IF j = k THEN 1 ELSE 0]
PastModulus == [j \in Idx |-> (j * (Word \div N) + Word - 1) % Word]

MCInputs(q) ==
  {MCMonomial(k) : k \in Idx}
    \cup {[j \in Idx |-> q - 1], [j \in Idx |-> (7 * j + 3) % q], PastModulus}

SecondFactor == factors[2] \in {MCMonomial(3), [j \in Idx |-> prime - 1], PastModulus}
-----------------------------------------------------------------------------
(* Automorphisms: a constant and a sparse polynomial take the same value   *)
(* at several points.                                                      *)

MCLimbModuli == <<17, 241>>
MCDraws ==
  {[j \in Idx |-> IF j = 0 THEN 5 ELSE 0], [j \in Idx |-> IF j \in {0, 4} THEN 3 ELSE 0],
   [j \in Idx |-> IF j = 1 THEN 1 ELSE 0], [j \in Idx |-> (j * j * j) % 17],
   [j \in Idx |-> 3 * j * j + 2 * j + 1]}
-----------------------------------------------------------------------------
(* Small secrets, masks and errors for n coefficients modulo q.            *)

SecretsOf(n, q) == {[i \in 0 .. n - 1 |-> IF i = 1 THEN q - 1 ELSE i % 2], [i \in 0 .. n - 1 |-> 1]}
MaskOf(n, q, seeds) ==
  [seed \in 0 .. seeds - 1 |-> [i \in 0 .. n - 1 |-> (1009 * seed + 577 * i + 2311) % q]]
Alternating(n, q) == [i \in 0 .. n - 1 |-> IF i % 2 = 0 THEN 1 ELSE q - 1]

(* Four coefficients; a modulus that holds three products with a point.     *)

TableEntry(v) == [i \in 0 .. 3 |-> (v + 2 * i) % 5]

Eval == INSTANCE EvalPoly WITH
  N <- 4, Q <- 12289, P <- 5, Base <- 4, Digits <- 7, Secrets <- SecretsOf(4, 12289),
  Polynomials <- {[i \in 0 .. 3 |-> 0], [i \in 0 .. 3 |-> IF i = 0 THEN 3 ELSE 0],
                  [i \in 0 .. 3 |-> IF i = 2 THEN 4 ELSE 1 - i \div 3],
                  [i \in 0 .. 3 |-> (2 * i + 3) % 5]},
  Tables <- {[j \in 1 .. n |-> TableEntry(j)] : n \in 0 .. 5},
  Choices <- UNION {[1 .. n -> 0 .. 1] : n \in {0, 1, 3}},
  Mask <- MaskOf(4, 12289, 2), Seeds <- 2, Noise <- {Alternating(4, 12289)}, left <- pending,
  MonomialOrders <- {1, 2, 4, 8},
  ScalarOrders <- {<<1, 12289>>, <<2, 12289>>, <<8, 12289>>, <<16, 17>>, <<4, 4093>>,
                   <<3, 43>>, <<6, 43>>, <<7, 43>>, <<9, 19>>, <<12, 13>>}
-----------------------------------------------------------------------------
(* Four coefficients and up to four messages.                               *)

Legacy == INSTANCE LegacyPack WITH
  N <- 4, Q <- 4099, P <- 5, Base <- 4, Digits <- 7, Secrets <- SecretsOf(4, 4099),
  Batches <- {[k \in 0 .. 3 |-> k + 1], [k \in 0 .. 3 |-> IF k % 2 = 0 THEN 4 ELSE 0]},
  Mask <- MaskOf(4, 4099, 3), Seeds <- 3, Noise <- {Alternating(4, 4099), [i \in 0 .. 3 |-> 0]}
-----------------------------------------------------------------------------
(* Eight coefficients: three levels of the tree and up to eight columns;    *)
(* four columns packed in three steps back, and all eight in two branches.  *)

Columns8 == {[k \in 0 .. 7 |-> [i \in 0 .. 7 |-> (k + 3 * i + 1) % 7]],
             [k \in 0 .. 7 |-> [i \in 0 .. 7 |-> IF i = 0 THEN 6 ELSE (k * i) % 7]]}

Tree == INSTANCE TreePack WITH
  N <- 8, Q <- 40961, P <- 7, Base <- 4, Digits <- 8, Moduli <- <<40961>>,
  Secrets <- SecretsOf(8, 40961), Batches <- Columns8, Mask <- MaskOf(8, 40961, 2), Seeds <- 2,
  Noise <- {Alternating(8, 40961), [i \in 0 .. 7 |-> 1]}

Inspiring == INSTANCE InspiringPack WITH
  N <- 8, Q <- 40961, P <- 7, Base <- 4, Digits <- 8, Widths <- {1, 2, 4}, WithFull <- TRUE,
  Secrets <- SecretsOf(8, 40961), Batches <- Columns8, Mask <- MaskOf(8, 40961, 2), Seeds <- 2,
  Noise <- {Alternating(8, 40961)}, at <- index

ASSUME SchemeAssumptions ==
  /\ InputArrays /\ LimbsAssumption
  /\ Eval!RingAssumption /\ Eval!GadgetAssumption /\ Eval!OrdersAssumption
  /\ Legacy!RingAssumption /\ Legacy!GadgetAssumption
  /\ Tree!RingAssumption /\ Tree!GadgetAssumption /\ Tree!ModuliAssumption
  /\ Inspiring!WidthAssumption
-----------------------------------------------------------------------------
NoProduct == /\ prime = None /\ path = None /\ factors = None /\ arrays = None
             /\ phase = None /\ block = None
\* There is a table for every element.
NoTables == /\ tables = <<>> /\ element = 2 * N + 1 /\ original = NoArray /\ image = NoArray
            /\ table = NoArray /\ row = 0 /\ values = <<>>
NoEval == keys = None /\ work = None /\ pending = None
NoLegacy == /\ kG = None /\ kH = None /\ packingKs = None /\ lwes = None /\ rlwes = None
            /\ current = None /\ iter = None
NoTree == galoisKeys = None /\ input = None /\ nodes = None /\ ell = None /\ bValues = None
NoInspiring == /\ pack = None /\ column = None /\ server = None /\ client = None
               /\ rAll = None /\ index = None /\ boldT = None

MCInit ==
  \/ /\ part = "product" /\ NttInit /\ SecondFactor
     /\ secret = None /\ plain = None /\ call = None /\ packed = None /\ precomp = None
     /\ NoTables /\ NoEval /\ NoLegacy /\ NoTree /\ NoInspiring
  \/ /\ part = "tables" /\ TablesInit
     /\ secret = None /\ plain = None /\ call = None /\ packed = None /\ precomp = None
     /\ NoProduct /\ NoEval /\ NoLegacy /\ NoTree /\ NoInspiring
  \/ /\ part = "eval" /\ Eval!Init /\ plain = None /\ packed = None /\ precomp = None
     /\ NoProduct /\ NoTables /\ NoLegacy /\ NoTree /\ NoInspiring
  \/ /\ part = "legacy" /\ Legacy!Init
     /\ NoProduct /\ NoTables /\ NoEval /\ NoTree /\ NoInspiring
  \/ /\ part = "tree" /\ Tree!Init /\ precomp = None
     /\ NoProduct /\ NoTables /\ NoEval /\ NoLegacy /\ NoInspiring
  \/ /\ part = "inspiring" /\ Inspiring!Init /\ call = None
     /\ NoProduct /\ NoTables /\ NoEval /\ NoLegacy /\ NoTree

ProductStep ==
  /\ part = "product" /\ NttNext
  /\ UNCHANGED <<part, tableVars, shared, pending, legacyVars, treeVars, inspiringVars>>
TablesStep ==
  /\ part = "tables" /\ TablesNext
  /\ UNCHANGED <<part, nttVars, shared, pending, legacyVars, treeVars, inspiringVars>>
EvalStep ==
  /\ part = "eval" /\ Eval!Next
  /\ UNCHANGED <<part, nttVars, tableVars, plain, packed, precomp,
                 legacyVars, treeVars, inspiringVars>>
LegacyStep ==
  /\ part = "legacy" /\ Legacy!Next
  /\ UNCHANGED <<part, nttVars, tableVars, keys, work, pending, treeVars, inspiringVars>>
TreeStep ==
  /\ part = "tree" /\ Tree!Next
  /\ UNCHANGED <<part, nttVars, tableVars, keys, work, precomp, pending, legacyVars, inspiringVars>>
InspiringStep ==
  /\ part = "inspiring" /\ Inspiring!Next
  /\ UNCHANGED <<part, nttVars, tableVars, call, keys, work, pending, legacyVars, treeVars>>

MCNext == ProductStep \/ TablesStep \/ EvalStep \/ LegacyStep \/ TreeStep \/ InspiringStep

MCSpec ==
  /\ MCInit
  /\ [][MCNext]_<<part, nttVars, tableVars, shared, pending,
                  legacyVars, treeVars, inspiringVars>>
  /\ TableFairness
-----------------------------------------------------------------------------
(* What the components promise, while they run.                            *)

\* eval_poly.rs: what Horner's rule leaves decrypts to the value at the point, and
\* selection hands up the polynomial that the bits name.
EvaluatesRight == part = "eval" => Eval!HornerEvaluates /\ Eval!SelectsIndexed

\* generate_scalar_eval_points, generate_monomial_eval_points: roots of the order asked
\* for, and different ones where a root of that order is found.
PointsAreRoots == part = "eval" => Eval!PointsAreRoots

\* generate_scalar_eval_points: as many different roots as asked for, whatever the order.
PointsDiffer == part = "eval" => Eval!PointsDiffer

\* simple_pack.rs: constants come out side by side, and an extraction is undone.
LegacyColumnsDecrypt ==
  part = "legacy" => Legacy!ShiftedColumnsDecrypt /\ Legacy!ExtractionUndone

\* precompute_packing, pack_online: the split collapses what pack would collapse.
OnlineAgrees == part = "legacy" => Legacy!OnlineAgrees

\* automorph_pack.rs: a node holds the columns below it, the result decrypts to their
\* constants, and the packing of a single one keeps its constant alone.
TreeCarries ==
  part = "tree" =>
    Tree!SubtreesHoldColumns /\ Tree!PackedDecrypts /\ Tree!ConstantKeptAlone

\* inspiring2.rs: the recursion carries the columns under their images of the key, and
\* every way online, and the branches of full packing joined, decrypt to the columns.
InspiringCarries ==
  part = "inspiring" =>
    Inspiring!RecursionCarries /\ Inspiring!PackedDecrypts /\ Inspiring!FullCompletes
=============================================================================
