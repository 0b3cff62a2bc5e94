----------------------------- MODULE OrderedSet -----------------------------
(***************************************************************************)
(* What a search tree promises: a set, operations that say whether they    *)
(* changed it, and its two ends.                                           *)
(***************************************************************************)
EXTENDS Integers

CONSTANTS Values, NIL

VARIABLES set, ends, ret

Smallest(S) == IF S = {} THEN NIL ELSE CHOOSE v \in S : \A w \in S : v <= w
Greatest(S) == IF S = {} THEN NIL ELSE CHOOSE v \in S : \A w \in S : w <= v

Becomes(S) == set' = S /\ ends' = <<Smallest(S), Greatest(S)>>

Init == set = {} /\ ends = <<NIL, NIL>> /\ ret = FALSE

Insert(v) == Becomes(set \cup {v}) /\ ret' = (v \notin set)
Erase(v) == Becomes(set \ {v}) /\ ret' = (v \in set)
Destroy == Becomes({}) /\ UNCHANGED ret

Next == (\E v \in Values : Insert(v) \/ Erase(v)) \/ Destroy

Spec == Init /\ [][Next]_<<set, ends, ret>>

=============================================================================
