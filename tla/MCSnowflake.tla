----------------------------- MODULE MCSnowflake -----------------------------
(***************************************************************************)
(* Snowflake on small instances: a handful of milliseconds, two-bit fields *)
(* or less, two goroutines.                                                *)
(***************************************************************************)
EXTENDS Snowflake, TLC

Symmetry == Permutations(Proc)
=============================================================================
