----------------------------- MODULE MCScheduler -----------------------------
(***************************************************************************)
(* Instances of Scheduler for TLC.                                         *)
(***************************************************************************)
EXTENDS Scheduler, TLC

Interchangeable == Permutations(Workers) \cup Permutations(Coroutines)

=============================================================================
