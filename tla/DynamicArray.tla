---------------------------- MODULE DynamicArray ----------------------------
(***************************************************************************)
(* What ChunkedVector promises: one sequence.                              *)
(***************************************************************************)
EXTENDS Sequences, Integers

CONSTANTS Values, MaxSize

VARIABLE list

Init == list = <<>>

PushBack(v) == list' = Append(list, v)
PopBack == list # <<>> /\ list' = SubSeq(list, 1, Len(list) - 1)
Clear == list' = <<>>

\* Cut off, or filled up with v.
Resize(n, v) == list' = [i \in 1 .. n |-> IF i <= Len(list) THEN list[i] ELSE v]

Next ==
    \/ \E v \in Values : PushBack(v) \/ \E n \in 0 .. MaxSize : Resize(n, v)
    \/ PopBack
    \/ Clear

Spec == Init /\ [][Next]_list

=============================================================================
