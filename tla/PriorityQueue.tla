--------------------------- MODULE PriorityQueue ---------------------------
(***************************************************************************)
(* What MinHeap promises: objects with keys, of which pop() takes one with *)
(* a smallest key.  An object keeps its address while it is a member.      *)
(***************************************************************************)
EXTENDS Integers

CONSTANT Keys

VARIABLE members            \* address of each member -> its key

Init == members = <<>>

Emplace(k) ==
    \E x \in DOMAIN members' :
        /\ x \notin DOMAIN members
        /\ members' = [y \in DOMAIN members \cup {x} |->
                          IF y = x THEN k ELSE members[y]]

Pop ==
    \E x \in DOMAIN members :
        /\ \A y \in DOMAIN members : members[x] <= members[y]
        /\ members' = [y \in DOMAIN members \ {x} |-> members[y]]

Update(x, k) == members' = [members EXCEPT ![x] = k]

Next ==
    \/ \E k \in Keys : Emplace(k) \/ \E x \in DOMAIN members : Update(x, k)
    \/ Pop

Spec == Init /\ [][Next]_members

=============================================================================
