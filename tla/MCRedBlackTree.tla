--------------------------- MODULE MCRedBlackTree ---------------------------
(***************************************************************************)
(* An instance of RedBlackTree for TLC.  The first AnyOrder values come in *)
(* any order; on top of all of them larger ones come in increasing order,  *)
(* which makes trees that are high enough for the loops to run long, and   *)
(* every value can be erased at any time.                                  *)
(***************************************************************************)
EXTENDS RedBlackTree

CONSTANT AnyOrder

MayInsert(v) == IF v <= AnyOrder THEN \A w \in allocated : w <= AnyOrder
                ELSE 1 .. v - 1 \subseteq allocated

Calls(v) ==
    \/ InsertDuplicate(v)
    \/ MayInsert(v) /\ Insert(v)
    \/ EraseAbsent(v)
    \/ Erase(v)

MCNext == (\E v \in Values : Calls(v)) \/ Fix \/ Destroy

MCSpec == Init /\ [][MCNext]_vars

=============================================================================
