--------------------------- MODULE MCPirProtocol ---------------------------
(* Setups for PirProtocol: g1 and g2 have the same geometry, or differ in    *)
(* what the configuration says they do; g3 offers tree packing only, of two  *)
(* columns.                                                                  *)
EXTENDS PirProtocol, TLC

CONSTANTS g1, g2, g3, k1, k2, Columns1, Columns2, Published1, Published2, Gadget2

Of(x1, x2, x3) == [g \in Seeds |-> CASE g = g1 -> x1 [] g = g2 -> x2 [] g = g3 -> x3]

MCColumns == Of(Columns1, Columns2, 2)
MCPublished == Of(Published1, Published2, 0)
MCGadgetLen == Of(3, Gadget2, 3)
MCSetupKey == Of(k1, k2, k1)

\* Records whose columns all differ, and differ between the databases.
MCRecord == Of([i \in 1 .. Columns1 |-> 2 * i], [i \in 1 .. Columns2 |-> 2 * i + 1],
               [i \in 1 .. 2 |-> 2 * i + 4])

Symmetry == Permutations(Clients)
=============================================================================
