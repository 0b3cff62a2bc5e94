-------------------------------- MODULE Deque --------------------------------
(***************************************************************************)
(* Deque, the ring buffer that holds a retire list: size_ elements from    *)
(* head_ on, wrapping around at capacity_, in a buffer that is replaced by *)
(* one twice as large when it is full.                                     *)
(*                                                                         *)
(* The buffer is raw memory: an element must be constructed once before it *)
(* is used, and destroyed once before its memory is used again.            *)
(*                                                                         *)
(* A definition marked "Variant" is a plausible mistake in the code, kept  *)
(* beside the definition it would replace.  No action uses it.             *)
(***************************************************************************)
EXTENDS Integers, Sequences

CONSTANTS Values,               \* what is stored
          RAW,                  \* memory without an element in it
          INITIAL_CAPACITY,
          MaxSize               \* bound of the model

ASSUME RawAssumption == RAW \notin Values
ASSUME CapacityAssumption == INITIAL_CAPACITY \in Nat
ASSUME MaxSizeAssumption == MaxSize \in Nat

VARIABLES data_,        \* index -> element or RAW
          size_, capacity_, head_,
          alive         \* the destructor has not run

vars == <<data_, size_, capacity_, head_, alive>>

Init ==
    /\ data_ = [i \in 0 .. INITIAL_CAPACITY - 1 |-> RAW]
    /\ size_ = 0
    /\ capacity_ = INITIAL_CAPACITY
    /\ head_ = 0
    /\ alive = TRUE

physical_index(head, i, cap) == (head + i) % cap

-----------------------------------------------------------------------------
(* ensure_capacity() *)

NeedsToGrow == size_ + 1 > capacity_

Larger(a, b) == IF a < b THEN b ELSE a
NewCapacity == Larger(IF capacity_ = 0 THEN 1 ELSE capacity_ * 2, size_ + 1)

\* Where the element at position i of the new buffer comes from.
\* Variant: the buffer is copied as it is.
AsItIs(i) == i
Source(i) == physical_index(head_, i, capacity_)

\* The elements, in their order, at the front of a larger buffer.
Moved == [i \in 0 .. NewCapacity - 1 |-> IF i < size_ THEN data_[Source(i)] ELSE RAW]

-----------------------------------------------------------------------------
Put(v, buffer, head, cap) ==
    /\ data_' = [buffer EXCEPT ![physical_index(head, size_, cap)] = v]
    /\ capacity_' = cap
    /\ head_' = head
    /\ size_' = size_ + 1

PushBack(v) ==
    /\ alive
    /\ size_ < MaxSize
    /\ ~NeedsToGrow
    /\ Put(v, data_, head_, capacity_)
    /\ UNCHANGED alive

PushBackGrows(v) ==
    /\ alive
    /\ size_ < MaxSize
    /\ NeedsToGrow
    /\ Put(v, Moved, 0, NewCapacity)
    /\ UNCHANGED alive

\* Variant: the element is not destroyed.
LeavesElement(v) == v
AfterDestructor(v) == RAW

PopFront ==
    /\ alive
    /\ size_ > 0
    /\ data_' = [data_ EXCEPT ![head_] = AfterDestructor(@)]
    /\ head_' = (head_ + 1) % capacity_
    /\ size_' = size_ - 1
    /\ UNCHANGED <<capacity_, alive>>

\* ~Deque(): destroy_all(), and the buffer is given back.
Destruct ==
    /\ alive
    /\ alive' = FALSE
    /\ LET live == {physical_index(head_, i, capacity_) : i \in 0 .. size_ - 1}
       IN  data_' = [k \in DOMAIN data_ |-> IF k \in live THEN RAW ELSE data_[k]]
    /\ size_' = 0
    /\ UNCHANGED <<capacity_, head_>>

Destroyed == ~alive /\ UNCHANGED vars

Next ==
    \/ \E v \in Values : PushBack(v) \/ PushBackGrows(v)
    \/ PopFront
    \/ Destruct
    \/ Destroyed

Spec == Init /\ [][Next]_vars

-----------------------------------------------------------------------------
(* Properties *)

TypeOK ==
    /\ capacity_ \in Nat
    /\ size_ \in 0 .. capacity_
    /\ head_ \in Nat
    /\ capacity_ > 0 => head_ < capacity_
    /\ data_ \in [0 .. capacity_ - 1 -> Values \cup {RAW}]
    /\ alive \in BOOLEAN

\* Position of index k, counted from head_.
Position(k) == IF k >= head_ THEN k - head_ ELSE k - head_ + capacity_

\* Exactly the size_ elements from head_ on are constructed: push_back() never
\* writes over an element, pop_front() and front() never use raw memory, and
\* nothing is left behind when the deque is gone.
WindowIsConstructed ==
    \A k \in 0 .. capacity_ - 1 : data_[k] # RAW <=> Position(k) < size_

\* The inductive invariant of the proofs.
DequeInvariant == TypeOK /\ WindowIsConstructed /\ (~alive => size_ = 0)

Contents == [k \in 1 .. size_ |-> data_[physical_index(head_, k - 1, capacity_)]]

F == INSTANCE Fifo WITH list <- Contents

\* Through wrapping and growing the elements come out in the order they went in.
ImplementsFifo == F!Spec

=============================================================================
