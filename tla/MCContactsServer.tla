--------------------------- MODULE MCContactsServer ---------------------------
(***************************************************************************)
(* ContactsServer on a small instance: two goroutines, one email whose     *)
(* hash is given, a generator with fields of one or two bits.              *)
(***************************************************************************)
EXTENDS ContactsServer, TLC

CONSTANTS e1

OneHash == e1 :> 1
Symmetry == Permutations(Proc)
=============================================================================
