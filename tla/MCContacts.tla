------------------------------ MODULE MCContacts ------------------------------
(***************************************************************************)
(* Contacts with two databases of two tables, eight identifiers and two    *)
(* emails whose hashes differ, also beyond the width of the shard field.   *)
(***************************************************************************)
EXTENDS Contacts, TLC

CONSTANTS e1, e2

TwoHashes == (e1 :> 1) @@ (e2 :> 6)

Symmetry == Permutations(Req) \cup Permutations(Mobiles)
=============================================================================
