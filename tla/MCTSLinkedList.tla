--------------------------- MODULE MCTSLinkedList ---------------------------
(***************************************************************************)
(* Instances of TSLinkedList for TLC.                                      *)
(***************************************************************************)
EXTENDS TSLinkedList, TLC

Interchangeable ==
    Permutations(Threads \ {Main}) \cup Permutations(Nodes) \cup Permutations(Values)

=============================================================================
