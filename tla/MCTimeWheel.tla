---------------------------- MODULE MCTimeWheel ----------------------------
(***************************************************************************)
(* Instances of TimeWheel for TLC.                                         *)
(***************************************************************************)
EXTENDS TimeWheel, TLC

Interchangeable == Permutations(Coroutines)

=============================================================================
