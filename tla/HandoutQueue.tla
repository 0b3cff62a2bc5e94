---------------------------- MODULE HandoutQueue ----------------------------
(***************************************************************************)
(* What Queue promises: first in, first out; and pop() hands out a pointer *)
(* to the item, so the item must stay what it is until the next one is     *)
(* popped, whatever is pushed meanwhile.                                   *)
(***************************************************************************)
EXTENDS Sequences

CONSTANTS Values, NULL

VARIABLES list, handed_out

Init == list = <<>> /\ handed_out = NULL

Push(v) == list' = Append(list, v) /\ UNCHANGED handed_out
Pop == list # <<>> /\ handed_out' = Head(list) /\ list' = Tail(list)
Destroy == list' = <<>> /\ handed_out' = NULL

Next == (\E v \in Values : Push(v)) \/ Pop \/ Destroy

Spec == Init /\ [][Next]_<<list, handed_out>>

=============================================================================
