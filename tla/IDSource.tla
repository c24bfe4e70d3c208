------------------------------- MODULE IDSource -------------------------------
(***************************************************************************)
(* What the rest of hermet relies on an idgen.Generator for: a stream of   *)
(* identifiers that carry the shard value they were asked for, each one    *)
(* greater than every earlier one of the same shard value - hence no two   *)
(* are equal.  Snowflake implements it.                                    *)
(***************************************************************************)
EXTENDS IDLayout, Sequences

CONSTANT ShardVals     \* shard values identifiers are asked for

VARIABLE issued        \* the identifiers, in the order they were issued

IDInit == issued = << >>

\* Mutant: an identifier may be issued twice.
Issue_Repeats(v, id) ==
    /\ ExtractShardVal(id) = v % HashSize
    /\ issued' = Append(issued, id)
    /\ \A i \in 1 .. Len(issued) :
           ExtractShardVal(issued[i]) = v % HashSize => issued[i] <= id

\* id is issued for the shard value v.
Issue(v, id) ==
    /\ ExtractShardVal(id) = v % HashSize
    /\ issued' = Append(issued, id)
    /\ \A i \in 1 .. Len(issued) :
           ExtractShardVal(issued[i]) = v % HashSize => issued[i] < id

IDNext == \E v \in ShardVals, id \in IDs : Issue(v, id)

IDSpec == IDInit /\ [][IDNext]_issued
=============================================================================
