--------------------------- MODULE SegmentedQueue ---------------------------
(***************************************************************************)
(* Queue: a ring of SEG_COUNT segments of SEG_SIZE items.  A segment is    *)
(* allocated when the bottom first gets there, and kept.                   *)
(*                                                                         *)
(* A definition marked "Variant" is a plausible mistake in the code, kept  *)
(* beside the definition it would replace.  No action uses it.             *)
(***************************************************************************)
EXTENDS Integers, Sequences

CONSTANTS Values, SEG_SIZE, SEG_COUNT,
          NULL,             \* nullptr
          BLANK             \* an item that T's constructor makes

\* The constants are meant to be like this.
ConstantsOK ==
    /\ {SEG_SIZE, SEG_COUNT} \subseteq Nat \ {0}
    /\ NULL \notin Nat \cup Values \cup {BLANK}
    /\ NULL \notin [0 .. SEG_SIZE - 1 -> Values \cup {BLANK}]
    /\ BLANK \notin Values

VARIABLES data,             \* segment -> its items by offset, or NULL
          top, bottom,
          popped,           \* index of the last popped item, or NULL
          alive

vars == <<data, top, bottom, popped, alive>>

Segments == 0 .. SEG_COUNT - 1
LIMIT == SEG_SIZE * SEG_COUNT

Init ==
    /\ data = [s \in Segments |-> NULL]
    /\ top = 0 /\ bottom = 0
    /\ popped = NULL
    /\ alive = TRUE

SegmentOf(idx) == idx \div SEG_SIZE
offset(idx) == idx % SEG_SIZE

\* The index after idx.
NextIndex(idx) == IF idx + 1 >= LIMIT THEN 0 ELSE idx + 1

\* assert(top != b_next) is the caller's obligation: one place stays free.
\* Variant: the queue is filled to the last place.
FillsLastPlace == TRUE
HasRoom == top # NextIndex(bottom)

NewSegment == [o \in 0 .. SEG_SIZE - 1 |-> BLANK]

push(item) ==
    /\ alive
    /\ HasRoom
    /\ LET s == SegmentOf(bottom)
           segment == IF data[s] = NULL THEN NewSegment ELSE data[s]
       IN  data' = [data EXCEPT ![s] = [segment EXCEPT ![offset(bottom)] = item]]
    /\ bottom' = NextIndex(bottom)
    /\ UNCHANGED <<top, popped, alive>>

pop ==
    /\ alive
    /\ top # bottom
    /\ popped' = top
    /\ top' = IF top + 1 = LIMIT THEN 0 ELSE top + 1
    /\ UNCHANGED <<data, bottom, alive>>

\* The destructor.
Destroy ==
    /\ alive
    /\ data' = [s \in Segments |-> NULL]
    /\ alive' = FALSE
    /\ UNCHANGED <<top, bottom, popped>>

Next == (\E v \in Values : push(v)) \/ pop \/ Destroy

Spec == Init /\ [][Next]_vars

-----------------------------------------------------------------------------
(* Properties *)

ItemAt(idx) == data[SegmentOf(idx)][offset(idx)]
Length == (bottom - top + LIMIT) % LIMIT

HQ == INSTANCE HandoutQueue WITH
        list <- IF alive THEN [k \in 1 .. Length |-> ItemAt((top + k - 1) % LIMIT)]
                ELSE <<>>,
        handed_out <- IF alive /\ popped # NULL THEN ItemAt(popped) ELSE NULL

\* Items come out in the order they went in, around the end of the ring, and
\* the one that was popped last is not written over before the next pop().
ImplementsHandoutQueue == HQ!Spec

=============================================================================
