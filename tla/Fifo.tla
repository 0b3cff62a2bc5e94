-------------------------------- MODULE Fifo --------------------------------
(***************************************************************************)
(* What Deque promises the retire lists: a first-in first-out list.        *)
(***************************************************************************)
EXTENDS Sequences

CONSTANT Values

VARIABLE list

Init == list = <<>>

PushBack(v) == list' = Append(list, v)
PopFront == list # <<>> /\ list' = Tail(list)

\* The destructor.
Clear == list' = <<>>

Next == (\E v \in Values : PushBack(v)) \/ PopFront \/ Clear

Spec == Init /\ [][Next]_list

=============================================================================
