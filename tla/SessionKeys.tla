---------------------------- MODULE SessionKeys ----------------------------
(***************************************************************************)
(* The client packing keys a session uploads, reduced to what the session  *)
(* store and the respond paths tell apart, the two operations the store    *)
(* performs on them (the geometry guard and the server-side derivation of  *)
(* the rotations that the wire format drops), and the calls of the store.  *)
(***************************************************************************)
EXTENDS Naturals

CONSTANTS
  SecretKeys,   \* the RLWE secret keys packing keys are generated from
  Seeds,        \* the setups, each of which draws an inspiring_w_seed of its own
  Widths,       \* the InspiRING widths gamma in use
  Digits,       \* the gadget lengths in use
  HandleSpace   \* number of values a handle can take (2^64 in the code)

ASSUME GeometryAssumption == Widths \subseteq Nat \ {0} /\ Digits \subseteq Nat \ {0}
ASSUME HandleSpaceAssumption == HandleSpace \in Nat \ {0}

\* ClientPackingKeys: the secret key and the seed they are made from, num_to_pack,
\* the number of y_body polynomials, and whether y_all and y_all_ntt are there.
KeySet == [sk : SecretKeys, seed : Seeds, width : Widths, digits : Digits,
           derived : BOOLEAN]

\* The fields of the server's PackParams the guard reads.
PackGeometry == [width : Widths, digits : Digits]

\* The two checks of ensure_packing_width_matches.
PackingWidthMatches(keys, pp) ==
  /\ keys.digits = pp.digits
  /\ keys.width = pp.width

\* ensure_server_derivatives: no-op when the rotations are there. A width of one
\* has no rotation to derive, so the vectors stay empty.
EnsureServerDerivatives(keys) ==
  [keys EXCEPT !.derived = @ \/ keys.width > 1]

\* What survives serialization: every y_all* field is serde(skip).
StripDerived(keys) == [keys EXCEPT !.derived = FALSE]
-----------------------------------------------------------------------------
Handles == 0 .. HandleSpace - 1

NoCall == [op |-> "none"]
NoAnswer == [kind |-> "none"]

Call ==
  [op : {"register"}, keys : KeySet]
    \cup [op : {"register_server_side"}, keys : KeySet, pp : PackGeometry]
    \cup [op : {"get"}, handle : Handles]
    \cup [op : {"len"}]

Registers(c) == c.op \in {"register", "register_server_side"}

\* The keys a registering call stores.
StoredKeys(c) ==
  IF c.op = "register_server_side" THEN EnsureServerDerivatives(c.keys) ELSE c.keys

Refused(c) == c.op = "register_server_side" /\ ~PackingWidthMatches(c.keys, c.pp)

HandleAnswer(h) == [kind |-> "handle", handle |-> h]
KeysAnswer(k) == [kind |-> "keys", keys |-> k]
LenAnswer(n) == [kind |-> "len", len |-> n]
AbsentAnswer == [kind |-> "absent"]
RefusedAnswer == [kind |-> "refused"]

EmptyTable == [h \in {} |-> NoAnswer]

\* The lookup of a handle in a table of sessions.
Lookup(tbl, h) == IF h \in DOMAIN tbl THEN KeysAnswer(tbl[h]) ELSE AbsentAnswer

\* The table with the keys k inserted under h, over whatever h held.
Inserted(tbl, h, k) ==
  [g \in DOMAIN tbl \cup {h} |-> IF g = h THEN k ELSE tbl[g]]
=============================================================================
