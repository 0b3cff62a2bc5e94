---------------------------- MODULE Rings_proofs ----------------------------
(***************************************************************************)
(* Deque implements a first-in first-out list, for every set of values,    *)
(* every initial capacity and every length.  The segmented queue is one    *)
(* that keeps the item it handed out, for every size and number of         *)
(* segments.                                                               *)
(***************************************************************************)
EXTENDS Containers, SequenceTheorems, TLAPS

\* The remainder of a number below twice the divisor.
LEMMA Wrap ==
    ASSUME NEW c \in Nat, NEW a \in Nat, c > 0, a < 2 * c
    PROVE  a % c = IF a < c THEN a ELSE a - c
<1>1. CASE a < c
  BY <1>1, SMT
<1>2. CASE a >= c
  BY <1>2, SMT
<1> QED
  BY <1>1, <1>2

\* physical_index() wraps once at most.
LEMMA Index ==
    ASSUME NEW c \in Nat, NEW h \in Nat, NEW i \in Nat, h < c, i < c
    PROVE  /\ physical_index(h, i, c) = IF h + i < c THEN h + i ELSE h + i - c
           /\ physical_index(h, i, c) \in 0 .. c - 1
<1>1. h + i \in Nat /\ h + i < 2 * c /\ c > 0
  OBVIOUS
<1>2. (h + i) % c = IF h + i < c THEN h + i ELSE h + i - c
  BY <1>1, Wrap
<1> QED
  BY <1>2 DEF physical_index

\* The head moves to the next index, or around the end of the buffer.
LEMMA NextIndex ==
    ASSUME NEW c \in Nat, NEW h \in Nat, h < c
    PROVE  (h + 1) % c = IF h + 1 < c THEN h + 1 ELSE 0
<1>1. CASE c = 1
  BY <1>1
<1>2. CASE c # 1
  <2>1. h + 1 \in Nat /\ c > 0 /\ h + 1 < 2 * c
    BY <1>2
  <2>2. (h + 1) % c = IF h + 1 < c THEN h + 1 ELSE h + 1 - c
    BY <2>1, Wrap
  <2> QED
    BY <2>2
<1> QED
  BY <1>1, <1>2

-----------------------------------------------------------------------------
(* Deque: the inductive invariant *)

\* An empty deque.
LEMMA InitInvariant == Init => DequeInvariant
BY CapacityAssumption, RawAssumption
   DEF Init, DequeInvariant, TypeOK, WindowIsConstructed, Position

\* push_back() with room.
LEMMA PushBackInvariant ==
    ASSUME DequeInvariant, NEW v \in Values, PushBack(v)
    PROVE  DequeInvariant'
<1> DEFINE p == physical_index(head_, size_, capacity_)
<1>1. /\ size_ \in Nat /\ head_ \in Nat /\ capacity_ \in Nat
      /\ size_ < capacity_ /\ head_ < capacity_
  BY DEF PushBack, NeedsToGrow, DequeInvariant, TypeOK
<1>2. /\ p = IF head_ + size_ < capacity_ THEN head_ + size_ ELSE head_ + size_ - capacity_
      /\ p \in 0 .. capacity_ - 1
  BY <1>1, Index
<1>3. /\ data_' = [data_ EXCEPT ![p] = v]
      /\ capacity_' = capacity_ /\ head_' = head_ /\ size_' = size_ + 1 /\ alive' = alive
      /\ alive
  BY DEF PushBack, Put
<1> HIDE DEF p
<1>4. TypeOK'
  BY <1>1, <1>2, <1>3 DEF DequeInvariant, TypeOK
<1>5. WindowIsConstructed'
  <2> SUFFICES ASSUME NEW k \in 0 .. capacity_ - 1
               PROVE  data_'[k] # RAW <=> Position(k)' < size_'
    BY <1>3 DEF WindowIsConstructed
  <2>1. Position(k)' = Position(k) /\ Position(k) \in Nat
    BY <1>1, <1>3 DEF Position
  <2>2. Position(k) = size_ <=> k = p
    BY <1>1, <1>2 DEF Position
  <2>3. data_'[k] = IF k = p THEN v ELSE data_[k]
    BY <1>3 DEF DequeInvariant, TypeOK
  <2>4. data_[k] # RAW <=> Position(k) < size_
    BY DEF DequeInvariant, WindowIsConstructed
  <2>5. v # RAW
    BY RawAssumption
  <2> QED
    BY <1>1, <1>3, <2>1, <2>2, <2>3, <2>4, <2>5
<1> QED
  BY <1>3, <1>4, <1>5 DEF DequeInvariant

\* What growing does: size_ is the capacity, and the elements move to the front.
LEMMA Growing ==
    ASSUME DequeInvariant, NeedsToGrow
    PROVE  /\ size_ = capacity_
           /\ NewCapacity \in Nat /\ NewCapacity > size_
           /\ Moved \in [0 .. NewCapacity - 1 -> Values \cup {RAW}]
           /\ \A i \in 0 .. size_ - 1 : Moved[i] \in Values
           /\ \A i \in 0 .. NewCapacity - 1 : i >= size_ => Moved[i] = RAW
<1>1. /\ size_ = capacity_ /\ size_ \in Nat /\ head_ \in Nat /\ capacity_ \in Nat
      /\ capacity_ > 0 => head_ < capacity_
  BY DEF NeedsToGrow, DequeInvariant, TypeOK
<1>2. NewCapacity \in Nat /\ NewCapacity > size_
  BY <1>1 DEF NewCapacity, Larger
<1>3. ASSUME NEW i \in 0 .. size_ - 1
      PROVE  data_[Source(i)] \in Values
  <2>1. /\ Source(i) \in 0 .. capacity_ - 1
        /\ Source(i) = IF head_ + i < capacity_ THEN head_ + i ELSE head_ + i - capacity_
    BY <1>1, Index DEF Source
  <2> DEFINE s == Source(i)
  <2> HIDE DEF s
  <2>2. Position(s) = i
    <3>1. /\ s \in 0 .. capacity_ - 1
          /\ s = IF head_ + i < capacity_ THEN head_ + i ELSE head_ + i - capacity_
      BY <2>1 DEF s
    <3> QED
      BY <1>1, <3>1 DEF Position
  <2>3. data_[s] # RAW <=> Position(s) < size_
    BY <2>1 DEF s, DequeInvariant, WindowIsConstructed
  <2> QED
    BY <1>1, <2>1, <2>2, <2>3 DEF s, DequeInvariant, TypeOK
<1> QED
  BY <1>1, <1>2, <1>3 DEF Moved

\* push_back() with new memory, into which the window is copied from 0.
LEMMA PushBackGrowsInvariant ==
    ASSUME DequeInvariant, NEW v \in Values, PushBackGrows(v)
    PROVE  DequeInvariant'
<1> DEFINE p == physical_index(0, size_, NewCapacity)
<1>1. /\ size_ \in Nat
      /\ NewCapacity \in Nat /\ NewCapacity > size_
      /\ Moved \in [0 .. NewCapacity - 1 -> Values \cup {RAW}]
      /\ \A i \in 0 .. size_ - 1 : Moved[i] \in Values
      /\ \A i \in 0 .. NewCapacity - 1 : i >= size_ => Moved[i] = RAW
  BY Growing DEF PushBackGrows, DequeInvariant, TypeOK
<1>2. p = size_
  BY <1>1, Index
<1>3. /\ data_' = [Moved EXCEPT ![size_] = v]
      /\ capacity_' = NewCapacity /\ head_' = 0 /\ size_' = size_ + 1 /\ alive' = alive
      /\ alive
  BY <1>2 DEF PushBackGrows, Put
<1> HIDE DEF p
<1>4. TypeOK'
  BY <1>1, <1>3 DEF DequeInvariant, TypeOK
<1>5. WindowIsConstructed'
  <2> SUFFICES ASSUME NEW k \in 0 .. NewCapacity - 1
               PROVE  data_'[k] # RAW <=> Position(k)' < size_'
    BY <1>3 DEF WindowIsConstructed
  <2>1. Position(k)' = k
    BY <1>1, <1>3 DEF Position
  <2>2. data_'[k] = IF k = size_ THEN v ELSE Moved[k]
    BY <1>1, <1>3
  <2>3. Moved[k] # RAW <=> k < size_
    BY <1>1, RawAssumption
  <2> QED
    BY <1>1, <1>3, <2>1, <2>2, <2>3, RawAssumption
<1> QED
  BY <1>3, <1>4, <1>5 DEF DequeInvariant

\* pop_front()
LEMMA PopFrontInvariant ==
    ASSUME DequeInvariant, PopFront
    PROVE  DequeInvariant'
<1>1. /\ size_ \in Nat /\ head_ \in Nat /\ capacity_ \in Nat
      /\ size_ > 0 /\ size_ <= capacity_ /\ head_ < capacity_
  BY DEF PopFront, DequeInvariant, TypeOK
<1>2. (head_ + 1) % capacity_ = IF head_ + 1 < capacity_ THEN head_ + 1 ELSE 0
  BY <1>1, NextIndex
<1>3. /\ data_' = [data_ EXCEPT ![head_] = RAW]
      /\ head_' = IF head_ + 1 < capacity_ THEN head_ + 1 ELSE 0
      /\ size_' = size_ - 1 /\ capacity_' = capacity_ /\ alive' = alive /\ alive
  BY <1>2 DEF PopFront, AfterDestructor
<1>4. TypeOK'
  BY <1>1, <1>3 DEF DequeInvariant, TypeOK
<1>5. WindowIsConstructed'
  <2> SUFFICES ASSUME NEW k \in 0 .. capacity_ - 1
               PROVE  data_'[k] # RAW <=> Position(k)' < size_'
    BY <1>3 DEF WindowIsConstructed
  <2>1. data_'[k] = IF k = head_ THEN RAW ELSE data_[k]
    BY <1>3 DEF DequeInvariant, TypeOK
  <2>2. Position(k)' = IF k = head_ THEN capacity_ - 1 ELSE Position(k) - 1
    BY <1>1, <1>3 DEF Position
  <2>3. data_[k] # RAW <=> Position(k) < size_
    BY DEF DequeInvariant, WindowIsConstructed
  <2>4. Position(k) \in Nat
    BY <1>1 DEF Position
  <2> QED
    BY <1>1, <1>3, <2>1, <2>2, <2>3, <2>4
<1> QED
  BY <1>3, <1>4, <1>5 DEF DequeInvariant

\* ~Deque()
LEMMA DestructInvariant ==
    ASSUME DequeInvariant, Destruct
    PROVE  DequeInvariant'
<1> DEFINE live == {physical_index(head_, i, capacity_) : i \in 0 .. size_ - 1}
<1>1. /\ size_ \in Nat /\ head_ \in Nat /\ capacity_ \in Nat /\ size_ <= capacity_
      /\ capacity_ > 0 => head_ < capacity_
      /\ data_ \in [0 .. capacity_ - 1 -> Values \cup {RAW}]
  BY DEF DequeInvariant, TypeOK
<1>2. /\ data_' = [k \in 0 .. capacity_ - 1 |-> IF k \in live THEN RAW ELSE data_[k]]
      /\ size_' = 0 /\ capacity_' = capacity_ /\ head_' = head_ /\ alive' = FALSE
  BY <1>1 DEF Destruct
<1>3. ASSUME NEW k \in 0 .. capacity_ - 1
      PROVE  data_'[k] = RAW
  <2>1. CASE Position(k) < size_
    <3>1. Position(k) \in 0 .. size_ - 1
      BY <1>1, <2>1 DEF Position
    <3>2. physical_index(head_, Position(k), capacity_) = k
      <4> DEFINE q == Position(k)
      <4> HIDE DEF q
      <4>1. q = IF k >= head_ THEN k - head_ ELSE k - head_ + capacity_
        BY DEF q, Position
      <4>2. q \in Nat /\ q < capacity_ /\ head_ < capacity_
        BY <1>1, <3>1 DEF q
      <4>3. physical_index(head_, q, capacity_)
              = IF head_ + q < capacity_ THEN head_ + q ELSE head_ + q - capacity_
        BY <1>1, <4>2, Index
      <4>4. physical_index(head_, q, capacity_) = k
        BY <1>1, <4>1, <4>2, <4>3
      <4> QED
        BY <4>4 DEF q
    <3> QED
      BY <1>2, <3>1, <3>2
  <2>2. CASE ~(Position(k) < size_)
    BY <1>2, <2>2 DEF DequeInvariant, WindowIsConstructed
  <2> QED
    BY <2>1, <2>2
<1> HIDE DEF live
<1>4. TypeOK'
  <2>1. data_' \in [0 .. capacity_ - 1 -> Values \cup {RAW}]
    BY <1>1, <1>2
  <2>2. alive' \in BOOLEAN
    BY <1>2, Zenon
  <2>3. size_' \in 0 .. capacity_' /\ head_' \in Nat /\ capacity_' \in Nat
    BY <1>1, <1>2
  <2>4. capacity_' > 0 => head_' < capacity_'
    BY <1>1, <1>2
  <2>5. data_' \in [0 .. capacity_' - 1 -> Values \cup {RAW}]
    BY <1>2, <2>1, Zenon
  <2> QED
    BY <2>2, <2>3, <2>4, <2>5, Zenon DEF TypeOK
<1>5. WindowIsConstructed'
  <2> SUFFICES ASSUME NEW k \in 0 .. capacity_ - 1
               PROVE  data_'[k] # RAW <=> Position(k)' < size_'
    BY <1>2 DEF WindowIsConstructed
  <2>1. Position(k)' \in Nat
    BY <1>1, <1>2 DEF Position
  <2> QED
    BY <1>2, <1>3, <2>1
<1> QED
  BY <1>2, <1>4, <1>5 DEF DequeInvariant

\* Every step keeps the invariant.
LEMMA NextInvariant == DequeInvariant /\ [Next]_vars => DequeInvariant'
<1> SUFFICES ASSUME DequeInvariant, [Next]_vars
             PROVE  DequeInvariant'
  OBVIOUS
<1>1. ASSUME NEW v \in Values, PushBack(v)
      PROVE  DequeInvariant'
  BY <1>1, PushBackInvariant
<1>2. ASSUME NEW v \in Values, PushBackGrows(v)
      PROVE  DequeInvariant'
  BY <1>2, PushBackGrowsInvariant
<1>3. CASE PopFront
  BY <1>3, PopFrontInvariant
<1>4. CASE Destruct
  BY <1>4, DestructInvariant
<1>5. CASE UNCHANGED vars
  BY <1>5 DEF DequeInvariant, TypeOK, WindowIsConstructed, Position, vars
<1> QED
  BY <1>1, <1>2, <1>3, <1>4, <1>5 DEF Next, Destroyed

\* Exactly the elements between head_ and head_ + size_ are constructed, in
\* every reachable state.
THEOREM DequeCorrect == Spec => []DequeInvariant
BY InitInvariant, NextInvariant, PTL DEF Spec

-----------------------------------------------------------------------------
(* Deque: the refinement *)

\* The window of n elements from h on, read in order, is a sequence of values.
LEMMA Window ==
    ASSUME NEW n \in Nat, NEW h \in Nat, NEW c \in Nat, n <= c, c > 0 => h < c,
           NEW d \in [0 .. c - 1 -> Values \cup {RAW}],
           \A k \in 0 .. c - 1 :
               d[k] # RAW <=> (IF k >= h THEN k - h ELSE k - h + c) < n
    PROVE  LET w == [k \in 1 .. n |-> d[physical_index(h, k - 1, c)]]
           IN  w \in Seq(Values) /\ Len(w) = n
<1> DEFINE w == [k \in 1 .. n |-> d[physical_index(h, k - 1, c)]]
<1>1. ASSUME NEW k \in 1 .. n
      PROVE  w[k] \in Values
  <2> DEFINE q == physical_index(h, k - 1, c)
  <2>1. /\ q = IF h + (k - 1) < c THEN h + (k - 1) ELSE h + (k - 1) - c
        /\ q \in 0 .. c - 1
    <3>1. k - 1 \in Nat /\ k - 1 < c /\ h < c
      OBVIOUS
    <3> QED
      BY <3>1, Index
  <2>2. w[k] = d[q]
    OBVIOUS
  <2> HIDE DEF q
  <2>3. (IF q >= h THEN q - h ELSE q - h + c) < n
    BY <2>1
  <2>4. d[q] # RAW /\ d[q] \in Values \cup {RAW}
    BY <2>1, <2>3
  <2> QED
    BY <2>2, <2>4
<1>2. w \in [1 .. n -> Values]
  BY <1>1
<1> HIDE DEF w
<1>3. w \in Seq(Values) /\ Len(w) = n
  BY <1>2
<1> QED
  BY <1>3 DEF w

\* The window is a list of as many values as size_ says.
LEMMA ContentsIsSequence ==
    ASSUME DequeInvariant
    PROVE  Contents \in Seq(Values) /\ Len(Contents) = size_
<1>1. /\ size_ \in Nat /\ head_ \in Nat /\ capacity_ \in Nat /\ size_ <= capacity_
      /\ capacity_ > 0 => head_ < capacity_
      /\ data_ \in [0 .. capacity_ - 1 -> Values \cup {RAW}]
      /\ \A k \in 0 .. capacity_ - 1 :
             data_[k] # RAW <=> (IF k >= head_ THEN k - head_ ELSE k - head_ + capacity_) < size_
  BY DEF DequeInvariant, TypeOK, WindowIsConstructed, Position
<1> QED
  BY <1>1, Window DEF Contents

\* So it is after a step.
LEMMA NextContentsIsSequence ==
    ASSUME DequeInvariant'
    PROVE  Contents' \in Seq(Values) /\ Len(Contents') = size_'
<1>1. /\ size_' \in Nat /\ head_' \in Nat /\ capacity_' \in Nat /\ size_' <= capacity_'
      /\ capacity_' > 0 => head_' < capacity_'
      /\ data_' \in [0 .. capacity_' - 1 -> Values \cup {RAW}]
      /\ \A k \in 0 .. capacity_' - 1 :
             data_'[k] # RAW <=> (IF k >= head_' THEN k - head_' ELSE k - head_' + capacity_') < size_'
  <2>1. TypeOK' /\ WindowIsConstructed'
    BY DEF DequeInvariant
  <2>2. \A k \in 0 .. capacity_' - 1 : data_'[k] # RAW <=> Position(k)' < size_'
    BY <2>1 DEF WindowIsConstructed
  <2>3. \A k : Position(k)' = IF k >= head_' THEN k - head_' ELSE k - head_' + capacity_'
    BY DEF Position
  <2>4. \A k \in 0 .. capacity_' - 1 :
            data_'[k] # RAW <=> (IF k >= head_' THEN k - head_' ELSE k - head_' + capacity_') < size_'
    BY <2>2, <2>3, Zenon
  <2>5. /\ size_' \in Nat /\ head_' \in Nat /\ capacity_' \in Nat /\ size_' <= capacity_'
        /\ capacity_' > 0 => head_' < capacity_'
    BY <2>1 DEF TypeOK
  <2>6. data_' \in [0 .. capacity_' - 1 -> Values \cup {RAW}]
    BY <2>1 DEF TypeOK
  <2> QED
    BY <2>4, <2>5, <2>6, Zenon
<1> QED
  BY <1>1, Window DEF Contents

\* push_back() puts v at the end of the list.
LEMMA PushBackAppends ==
    ASSUME DequeInvariant, NEW v \in Values, PushBack(v)
    PROVE  Contents' = Append(Contents, v)
<1>1. /\ size_ \in Nat /\ head_ \in Nat /\ capacity_ \in Nat
      /\ size_ < capacity_ /\ head_ < capacity_
      /\ data_ \in [0 .. capacity_ - 1 -> Values \cup {RAW}]
  BY DEF PushBack, NeedsToGrow, DequeInvariant, TypeOK
<1> DEFINE at(i) == physical_index(head_, i, capacity_)
<1>2. \A i \in 0 .. size_ :
          /\ at(i) = IF head_ + i < capacity_ THEN head_ + i ELSE head_ + i - capacity_
          /\ at(i) \in 0 .. capacity_ - 1
  BY <1>1, Index
<1>3. /\ data_' = [data_ EXCEPT ![at(size_)] = v]
      /\ capacity_' = capacity_ /\ head_' = head_ /\ size_' = size_ + 1
  BY DEF PushBack, Put
<1>4. /\ Contents = [k \in 1 .. size_ |-> data_[at(k - 1)]]
      /\ Contents' = [k \in 1 .. size_ + 1 |-> data_'[at(k - 1)]]
  BY <1>3 DEF Contents
<1> HIDE DEF at
<1>5. \A i \in 0 .. size_ - 1 : at(i) # at(size_)
  BY <1>1, <1>2
<1>6. \A k \in 1 .. size_ : Contents'[k] = Contents[k]
  <2> TAKE k \in 1 .. size_
  <2>1. k - 1 \in 0 .. size_ - 1 /\ k - 1 \in 0 .. size_ /\ k \in 1 .. size_ + 1
    BY <1>1
  <2>2. data_'[at(k - 1)] = data_[at(k - 1)]
    BY <1>1, <1>2, <1>3, <1>5, <2>1
  <2> QED
    BY <1>4, <2>1, <2>2
<1>7. Contents'[size_ + 1] = v
  <2>1. data_'[at(size_)] = v
    BY <1>1, <1>2, <1>3
  <2>2. size_ + 1 \in 1 .. size_ + 1 /\ (size_ + 1) - 1 = size_
    BY <1>1
  <2> QED
    BY <1>4, <2>1, <2>2
<1>8. /\ Contents \in Seq(Values) /\ Len(Contents) = size_
      /\ Contents' \in Seq(Values) /\ Len(Contents') = size_ + 1
  BY <1>3, ContentsIsSequence, PushBackInvariant, NextContentsIsSequence
<1> DEFINE old == Contents
           new == Contents'
<1> HIDE DEF old, new
<1>9. new = Append(old, v)
  <2>1. /\ old \in Seq(Values) /\ Len(old) = size_
        /\ new \in Seq(Values) /\ Len(new) = size_ + 1
    BY <1>8 DEF old, new
  <2>2. \A i \in 1 .. size_ + 1 : new[i] = Append(old, v)[i]
    BY <1>1, <1>6, <1>7, <2>1, AppendProperties DEF old, new
  <2> QED
    BY <2>1, <2>2, AppendProperties, SeqEqual
<1> QED
  BY <1>9 DEF old, new

\* So it does when the deque grows: the others keep their order.
LEMMA PushBackGrowsAppends ==
    ASSUME DequeInvariant, NEW v \in Values, PushBackGrows(v)
    PROVE  Contents' = Append(Contents, v)
<1>1. /\ size_ \in Nat /\ NewCapacity \in Nat /\ NewCapacity > size_
      /\ Moved \in [0 .. NewCapacity - 1 -> Values \cup {RAW}]
  BY Growing DEF PushBackGrows, DequeInvariant, TypeOK
<1>2. \A i \in 0 .. size_ : physical_index(0, i, NewCapacity) = i
  BY <1>1, Index
<1>3. /\ data_' = [Moved EXCEPT ![size_] = v]
      /\ capacity_' = NewCapacity /\ head_' = 0 /\ size_' = size_ + 1
  <2>1. physical_index(0, size_, NewCapacity) = size_
    BY <1>1, <1>2
  <2> QED
    BY <2>1 DEF PushBackGrows, Put
<1>4. /\ Contents = [k \in 1 .. size_ |-> data_[physical_index(head_, k - 1, capacity_)]]
      /\ Contents' = [k \in 1 .. size_ + 1 |-> data_'[physical_index(0, k - 1, NewCapacity)]]
  BY <1>3 DEF Contents
<1>5. \A k \in 1 .. size_ + 1 : Contents'[k] = data_'[k - 1]
  <2> TAKE k \in 1 .. size_ + 1
  <2>1. physical_index(0, k - 1, NewCapacity) = k - 1
    BY <1>1, <1>2
  <2> QED
    BY <1>4, <2>1
<1>6. \A k \in 1 .. size_ : Contents'[k] = Contents[k]
  <2> TAKE k \in 1 .. size_
  <2>1. k - 1 \in 0 .. NewCapacity - 1 /\ k - 1 < size_ /\ k \in 1 .. size_ + 1
    BY <1>1
  <2>2. Moved[k - 1] = data_[physical_index(head_, k - 1, capacity_)]
    BY <2>1 DEF Moved, Source
  <2>3. data_'[k - 1] = Moved[k - 1]
    BY <1>1, <1>3, <2>1
  <2> QED
    BY <1>4, <1>5, <2>1, <2>2, <2>3
<1>7. Contents'[size_ + 1] = v
  BY <1>1, <1>3, <1>5
<1>8. /\ Contents \in Seq(Values) /\ Len(Contents) = size_
      /\ Contents' \in Seq(Values) /\ Len(Contents') = size_ + 1
  BY <1>3, ContentsIsSequence, PushBackGrowsInvariant, NextContentsIsSequence
<1> DEFINE old == Contents
           new == Contents'
<1> HIDE DEF old, new
<1>9. new = Append(old, v)
  <2>1. /\ old \in Seq(Values) /\ Len(old) = size_
        /\ new \in Seq(Values) /\ Len(new) = size_ + 1
    BY <1>8 DEF old, new
  <2>2. \A i \in 1 .. size_ + 1 : new[i] = Append(old, v)[i]
    BY <1>1, <1>6, <1>7, <2>1, AppendProperties DEF old, new
  <2> QED
    BY <2>1, <2>2, AppendProperties, SeqEqual
<1> QED
  BY <1>9 DEF old, new

\* pop_front() takes the first of the list.
LEMMA PopFrontRemoves ==
    ASSUME DequeInvariant, PopFront
    PROVE  Contents # <<>> /\ Contents' = Tail(Contents)
<1>1. /\ size_ \in Nat /\ head_ \in Nat /\ capacity_ \in Nat
      /\ size_ > 0 /\ size_ <= capacity_ /\ head_ < capacity_
      /\ data_ \in [0 .. capacity_ - 1 -> Values \cup {RAW}]
  BY DEF PopFront, DequeInvariant, TypeOK
<1>2. /\ data_' = [data_ EXCEPT ![head_] = RAW]
      /\ head_' = (head_ + 1) % capacity_
      /\ size_' = size_ - 1 /\ capacity_' = capacity_
  BY DEF PopFront, AfterDestructor
<1>3. head_' = IF head_ + 1 < capacity_ THEN head_ + 1 ELSE 0
  BY <1>1, <1>2, NextIndex
<1>4. /\ Contents = [k \in 1 .. size_ |-> data_[physical_index(head_, k - 1, capacity_)]]
      /\ Contents' = [k \in 1 .. size_ - 1 |-> data_'[physical_index(head_', k - 1, capacity_)]]
  BY <1>2 DEF Contents
<1>5. \A k \in 1 .. size_ - 1 : Contents'[k] = Contents[k + 1]
  <2> TAKE k \in 1 .. size_ - 1
  <2>1. k \in Nat /\ k - 1 \in Nat /\ k < capacity_ /\ k - 1 < capacity_
    BY <1>1
  <2>2. head_' \in Nat /\ head_' < capacity_
    BY <1>1, <1>3
  <2> DEFINE p == physical_index(head_, k, capacity_)
             q == physical_index(head_', k - 1, capacity_)
  <2>3. /\ p = IF head_ + k < capacity_ THEN head_ + k ELSE head_ + k - capacity_
        /\ p \in 0 .. capacity_ - 1
    BY <1>1, <2>1, Index
  <2>4. q = IF head_' + (k - 1) < capacity_ THEN head_' + (k - 1)
          ELSE head_' + (k - 1) - capacity_
    BY <1>1, <2>1, <2>2, Index
  <2>5. Contents'[k] = data_'[q] /\ Contents[k + 1] = data_[p]
    <3>1. k + 1 \in 1 .. size_ /\ (k + 1) - 1 = k
      BY <1>1
    <3> QED
      BY <1>4, <3>1
  <2> HIDE DEF p, q
  <2>6. p = q /\ p # head_
    BY <1>1, <1>3, <2>1, <2>3, <2>4
  <2> QED
    BY <1>1, <1>2, <2>3, <2>5, <2>6
<1>6. /\ Contents \in Seq(Values) /\ Len(Contents) = size_
      /\ Contents' \in Seq(Values) /\ Len(Contents') = size_ - 1
  BY <1>2, ContentsIsSequence, PopFrontInvariant, NextContentsIsSequence
<1> DEFINE old == Contents
           new == Contents'
<1> HIDE DEF old, new
<1>7. old # <<>> /\ new = Tail(old)
  <2>1. /\ old \in Seq(Values) /\ Len(old) = size_
        /\ new \in Seq(Values) /\ Len(new) = size_ - 1
    BY <1>6 DEF old, new
  <2>2. old # <<>>
    BY <1>1, <2>1
  <2>3. \A i \in 1 .. size_ - 1 : new[i] = Tail(old)[i]
    BY <1>1, <1>5, <2>1, <2>2, HeadTailProperties DEF old, new
  <2> QED
    BY <2>1, <2>2, <2>3, HeadTailProperties, SeqEqual
<1> QED
  BY <1>7 DEF old, new

\* No elements are the empty list.
LEMMA EmptyContents ==
    ASSUME DequeInvariant, size_ = 0
    PROVE  Contents = <<>>
BY ContentsIsSequence, EmptySeq

\* ~Deque() leaves no element.
LEMMA DestructEmpties ==
    ASSUME DequeInvariant, Destruct
    PROVE  Contents' = <<>>
<1>1. Contents' \in Seq(Values) /\ Len(Contents') = size_'
  BY DestructInvariant, NextContentsIsSequence
<1>2. size_' = 0
  BY DEF Destruct
<1> DEFINE new == Contents'
<1> HIDE DEF new
<1>3. new = <<>>
  <2>1. new \in Seq(Values) /\ Len(new) = 0
    BY <1>1, <1>2 DEF new
  <2> QED
    BY <2>1, EmptySeq
<1> QED
  BY <1>3 DEF new

\* Push_back() appends, pop_front() takes the oldest element and the destructor
\* takes all of them, whatever the capacity and wherever the window begins: the
\* deque is a first-in first-out list.
THEOREM DequeIsFifo == Spec => ImplementsFifo
<1>1. Init => F!Init
  <2> SUFFICES ASSUME Init
               PROVE  Contents = <<>>
    BY DEF F!Init
  <2> QED
    BY InitInvariant, EmptyContents DEF Init
<1>2. DequeInvariant /\ [Next]_vars => [F!Next]_Contents
  <2> SUFFICES ASSUME DequeInvariant, [Next]_vars
               PROVE  [F!Next]_Contents
    OBVIOUS
  <2>1. ASSUME NEW v \in Values, PushBack(v)
        PROVE  F!Next
    <3>1. F!PushBack(v)
      BY <2>1, PushBackAppends DEF F!PushBack
    <3> QED
      BY <3>1 DEF F!Next
  <2>2. ASSUME NEW v \in Values, PushBackGrows(v)
        PROVE  F!Next
    <3>1. F!PushBack(v)
      BY <2>2, PushBackGrowsAppends DEF F!PushBack
    <3> QED
      BY <3>1 DEF F!Next
  <2>3. CASE PopFront
    BY <2>3, PopFrontRemoves DEF F!Next, F!PopFront
  <2>4. CASE Destruct
    BY <2>4, DestructEmpties DEF F!Next, F!Clear
  <2>5. CASE UNCHANGED vars
    BY <2>5 DEF vars, Contents, physical_index
  <2> QED
    BY <2>1, <2>2, <2>3, <2>4, <2>5 DEF Next, Destroyed
<1> QED
  BY <1>1, <1>2, DequeCorrect, PTL DEF Spec, ImplementsFifo, F!Spec

-----------------------------------------------------------------------------
(* SegmentedQueue: indices *)

\* The remainder of a number below twice the divisor.
LEMMA RingWrap ==
    ASSUME NEW n \in Nat, NEW a \in Nat, n > 0, a < 2 * n
    PROVE  a % n = IF a < n THEN a ELSE a - n
<1>1. CASE a < n
  BY <1>1, SMT
<1>2. CASE a >= n
  BY <1>2, SMT
<1> QED
  BY <1>1, <1>2

\* Segment and offset are the two digits of an index.
LEMMA Digits ==
    ASSUME Queue!ConstantsOK, NEW i \in Nat
    PROVE  /\ Queue!SegmentOf(i) \in Nat
           /\ Queue!offset(i) \in 0 .. SEG_SIZE - 1
           /\ i = SEG_SIZE * Queue!SegmentOf(i) + Queue!offset(i)
<1>1. SEG_SIZE \in Nat /\ SEG_SIZE > 0
  BY DEF Queue!ConstantsOK
<1> QED
  BY <1>1 DEF Queue!SegmentOf, Queue!offset

Indices == 0 .. Queue!LIMIT - 1

\* There is an index at least.
LEMMA LimitIsPositive ==
    ASSUME Queue!ConstantsOK
    PROVE  Queue!LIMIT \in Nat /\ Queue!LIMIT > 0
<1>1. /\ SEG_SIZE \in Nat /\ SEG_SIZE >= 1
      /\ SEG_COUNT \in Nat /\ SEG_COUNT >= 1
  BY DEF Queue!ConstantsOK
<1> QED
  BY <1>1 DEF Queue!LIMIT

\* An index has a segment.
LEMMA IndexHasSegment ==
    ASSUME Queue!ConstantsOK, NEW i \in Indices
    PROVE  Queue!SegmentOf(i) \in Queue!Segments /\ Queue!offset(i) \in 0 .. SEG_SIZE - 1
<1>1. Queue!LIMIT \in Nat /\ i \in Nat /\ i < Queue!LIMIT
  BY LimitIsPositive DEF Indices
<1>2. PICK s \in Nat : s = Queue!SegmentOf(i)
  BY <1>1, Digits
<1>3. PICK o \in 0 .. SEG_SIZE - 1 : o = Queue!offset(i)
  BY <1>1, Digits
<1>4. i = SEG_SIZE * s + o
  BY <1>1, <1>2, <1>3, Digits
<1>5. SEG_SIZE \in Nat /\ SEG_SIZE > 0 /\ SEG_COUNT \in Nat
  BY DEF Queue!ConstantsOK
<1>6. SEG_SIZE * s < SEG_SIZE * SEG_COUNT
  BY <1>1, <1>3, <1>4, <1>5 DEF Queue!LIMIT
<1>7. s < SEG_COUNT
  <2> SUFFICES ASSUME s >= SEG_COUNT PROVE FALSE
    BY <1>5
  <2>1. SEG_SIZE * s >= SEG_SIZE * SEG_COUNT
    BY <1>5
  <2> QED
    BY <2>1, <1>5, <1>6
<1> QED
  BY <1>2, <1>3, <1>5, <1>7 DEF Queue!Segments

\* Two indices with the same segment and offset are the same.
LEMMA DigitsAreUnique ==
    ASSUME Queue!ConstantsOK, NEW i \in Indices, NEW j \in Indices,
           Queue!SegmentOf(i) = Queue!SegmentOf(j), Queue!offset(i) = Queue!offset(j)
    PROVE  i = j
<1>1. i \in Nat /\ j \in Nat
  BY LimitIsPositive DEF Indices
<1>2. /\ i = SEG_SIZE * Queue!SegmentOf(i) + Queue!offset(i)
      /\ j = SEG_SIZE * Queue!SegmentOf(j) + Queue!offset(j)
  BY <1>1, Digits
<1> QED
  BY <1>2

\* How far an index is behind h, around the end of the ring.
Distance(h, i) == IF i >= h THEN i - h ELSE i - h + Queue!LIMIT

\* The length of the queue is a distance on the ring.
LEMMA RingLength ==
    ASSUME Queue!ConstantsOK, NEW t \in Indices, NEW b \in Indices
    PROVE  /\ (b - t + Queue!LIMIT) % Queue!LIMIT = Distance(t, b)
           /\ Distance(t, b) \in Nat /\ Distance(t, b) < Queue!LIMIT
<1>1. PICK L \in Nat : L = Queue!LIMIT /\ L > 0
  BY LimitIsPositive
<1>2. PICK a \in Nat : a = b - t + L /\ a < 2 * L
  BY <1>1 DEF Indices
<1>3. a % L = IF a < L THEN a ELSE a - L
  BY <1>1, <1>2, RingWrap
<1>4. (b - t + Queue!LIMIT) % Queue!LIMIT = a % L
  BY <1>1, <1>2
<1> QED
  BY <1>1, <1>2, <1>3, <1>4 DEF Distance, Indices

\* The distance from top to bottom, less than a whole round.
LEMMA LengthIsDistance ==
    ASSUME Queue!ConstantsOK, top \in Indices, bottom \in Indices
    PROVE  /\ Queue!Length = Distance(top, bottom) /\ Queue!Length \in Nat
           /\ Queue!Length < Queue!LIMIT
BY RingLength DEF Queue!Length

\* The k-th index from h on.
LEMMA KthIndex ==
    ASSUME Queue!ConstantsOK, NEW h \in Indices, NEW k \in Nat, k < Queue!LIMIT
    PROVE  /\ (h + k) % Queue!LIMIT \in Indices
           /\ Distance(h, (h + k) % Queue!LIMIT) = k
           /\ (h + k) % Queue!LIMIT = IF h + k < Queue!LIMIT THEN h + k ELSE h + k - Queue!LIMIT
<1>1. Queue!LIMIT \in Nat /\ Queue!LIMIT > 0
  BY LimitIsPositive
<1>2. PICK L \in Nat : L = Queue!LIMIT /\ L > 0
  BY <1>1
<1>3. PICK a \in Nat : a = h + k /\ a < 2 * L
  BY <1>1, <1>2 DEF Indices
<1>4. a % L = IF a < L THEN a ELSE a - L
  BY <1>2, <1>3, RingWrap
<1>5. (h + k) % Queue!LIMIT = a % L
  BY <1>2, <1>3
<1> QED
  BY <1>2, <1>3, <1>4, <1>5 DEF Distance, Indices
\* The ring turns by one index.
LEMMA NextDistance ==
    ASSUME Queue!ConstantsOK, NEW h \in Indices, NEW i \in Indices
    PROVE  /\ Queue!NextIndex(i) \in Indices
           /\ Queue!NextIndex(i) # h => Distance(h, Queue!NextIndex(i)) = Distance(h, i) + 1
           /\ i # h => Distance(Queue!NextIndex(h), i) = Distance(h, i) - 1
           /\ Distance(h, i) \in Nat /\ Distance(h, i) < Queue!LIMIT
           /\ Distance(h, i) = 0 <=> i = h
<1>1. PICK L \in Nat : L = Queue!LIMIT /\ L > 0
  BY LimitIsPositive
<1> QED
  BY <1>1 DEF Distance, Queue!NextIndex, Indices

\* Two indices have different distances from top.
LEMMA DistanceIsInjective ==
    ASSUME Queue!ConstantsOK, NEW h \in Indices, NEW i \in Indices, NEW j \in Indices,
           Distance(h, i) = Distance(h, j)
    PROVE  i = j
<1>1. PICK L \in Nat : L = Queue!LIMIT /\ L > 0
  BY LimitIsPositive
<1> QED
  BY <1>1 DEF Distance, Indices

\* Two indices have different successors.
LEMMA NextIsInjective ==
    ASSUME Queue!ConstantsOK, NEW i \in Indices, NEW j \in Indices,
           Queue!NextIndex(i) = Queue!NextIndex(j)
    PROVE  i = j
<1>1. PICK L \in Nat : L = Queue!LIMIT /\ L > 0
  BY LimitIsPositive
<1> QED
  BY <1>1 DEF Queue!NextIndex, Indices

-----------------------------------------------------------------------------
(* SegmentedQueue: the inductive invariant *)

Items == [0 .. SEG_SIZE - 1 -> Values \cup {BLANK}]

QueueTypeOK ==
    /\ data \in [Queue!Segments -> Items \cup {NULL}]
    /\ top \in Indices
    /\ bottom \in Indices
    /\ popped \in Indices \cup {NULL}
    /\ queue_alive \in BOOLEAN

\* There is an item at index i.
Stored(d, i) ==
    d[Queue!SegmentOf(i)] # NULL /\ d[Queue!SegmentOf(i)][Queue!offset(i)] \in Values

\* From top up to bottom there are items, and the one that was popped last is
\* right before them.
RingInv ==
    /\ QueueTypeOK
    /\ queue_alive => /\ \A i \in Indices : Distance(top, i) < Queue!Length => Stored(data, i)
                      /\ popped # NULL => Queue!NextIndex(popped) = top /\ Stored(data, popped)

\* An empty queue.
LEMMA InitRing ==
    ASSUME Queue!ConstantsOK, Queue!Init
    PROVE  RingInv
<1>1. Queue!LIMIT \in Nat /\ Queue!LIMIT > 0
  BY LimitIsPositive
<1>2. QueueTypeOK
  BY <1>1 DEF Queue!Init, QueueTypeOK, Indices
<1>3. Queue!Length = 0
  BY <1>2, LengthIsDistance DEF Queue!Init, Distance, QueueTypeOK
<1>4. \A i \in Indices : ~(Distance(top, i) < Queue!Length)
  BY <1>2, <1>3, NextDistance DEF QueueTypeOK
<1> QED
  BY <1>2, <1>4 DEF Queue!Init, RingInv

\* What push() does to the items: it stores one at bottom, those that are
\* stored elsewhere stay.
LEMMA PushStores ==
    ASSUME Queue!ConstantsOK, QueueTypeOK, NEW v \in Values, Queue!push(v)
    PROVE  /\ QueueTypeOK'
           /\ data'[Queue!SegmentOf(bottom)] # NULL
           /\ data'[Queue!SegmentOf(bottom)][Queue!offset(bottom)] = v
           /\ \A i \in Indices : i # bottom /\ data[Queue!SegmentOf(i)] # NULL =>
                 /\ data'[Queue!SegmentOf(i)] # NULL
                 /\ data'[Queue!SegmentOf(i)][Queue!offset(i)]
                      = data[Queue!SegmentOf(i)][Queue!offset(i)]
<1>1. PICK s : s = Queue!SegmentOf(bottom)
  OBVIOUS
<1>2. PICK o : o = Queue!offset(bottom)
  OBVIOUS
<1>3. PICK g : g = IF data[s] = NULL THEN Queue!NewSegment ELSE data[s]
  OBVIOUS
<1>4. /\ data' = [data EXCEPT ![s] = [g EXCEPT ![o] = v]]
      /\ bottom' = Queue!NextIndex(bottom)
      /\ top' = top /\ popped' = popped /\ queue_alive' = queue_alive
  BY <1>1, <1>2, <1>3 DEF Queue!push
<1>5. s \in Queue!Segments /\ o \in 0 .. SEG_SIZE - 1
  BY <1>1, <1>2, IndexHasSegment DEF QueueTypeOK
<1>6. g \in Items
  <2>1. Queue!NewSegment \in Items
    BY DEF Queue!NewSegment, Items
  <2> QED
    BY <2>1, <1>3, <1>5 DEF QueueTypeOK
<1>7. PICK f : f = [g EXCEPT ![o] = v]
  OBVIOUS
<1>8. f \in Items /\ f[o] = v /\ \A j \in 0 .. SEG_SIZE - 1 : j # o => f[j] = g[j]
  BY <1>5, <1>6, <1>7 DEF Items
<1>9. f # NULL
  BY <1>8 DEF Items, Queue!ConstantsOK
<1>10. data' = [data EXCEPT ![s] = f]
  BY <1>4, <1>7
<1>11. /\ data' \in [Queue!Segments -> Items \cup {NULL}]
       /\ data'[s] = f
       /\ \A r \in Queue!Segments : r # s => data'[r] = data[r]
  BY <1>5, <1>8, <1>10 DEF QueueTypeOK
<1>12. QueueTypeOK'
  <2>1. bottom' \in Indices
    BY <1>4, NextDistance DEF QueueTypeOK
  <2> QED
    BY <2>1, <1>4, <1>11 DEF QueueTypeOK
<1>13. ASSUME NEW i \in Indices, i # bottom, data[Queue!SegmentOf(i)] # NULL
       PROVE  /\ data'[Queue!SegmentOf(i)] # NULL
              /\ data'[Queue!SegmentOf(i)][Queue!offset(i)]
                   = data[Queue!SegmentOf(i)][Queue!offset(i)]
  <2>1. Queue!SegmentOf(i) \in Queue!Segments /\ Queue!offset(i) \in 0 .. SEG_SIZE - 1
    BY IndexHasSegment
  <2>2. CASE Queue!SegmentOf(i) # s
    BY <2>1, <2>2, <1>11, <1>13
  <2>3. CASE Queue!SegmentOf(i) = s
    <3>1. Queue!offset(i) # o
      BY <2>3, <1>1, <1>2, <1>13, DigitsAreUnique DEF QueueTypeOK
    <3>2. g = data[s]
      BY <2>3, <1>3, <1>13
    <3> QED
      BY <2>1, <2>3, <3>1, <3>2, <1>8, <1>9, <1>11
  <2> QED
    BY <2>2, <2>3
<1> QED
  BY <1>1, <1>2, <1>8, <1>9, <1>11, <1>12, <1>13

\* The ring becomes longer by one at bottom.
LEMMA PushLength ==
    ASSUME Queue!ConstantsOK, QueueTypeOK, NEW v \in Values, Queue!push(v)
    PROVE  /\ Queue!Length \in Nat /\ Queue!Length' = Queue!Length + 1
           /\ Queue!Length' < Queue!LIMIT
           /\ top' = top
           /\ Distance(top, bottom) = Queue!Length
<1>1. /\ bottom' = Queue!NextIndex(bottom) /\ top' = top /\ top # Queue!NextIndex(bottom)
  BY DEF Queue!push, Queue!HasRoom
<1>2. /\ Queue!Length = Distance(top, bottom) /\ Queue!Length \in Nat
  BY LengthIsDistance DEF QueueTypeOK
<1>3. Queue!Length' = Distance(top, Queue!NextIndex(bottom)) /\ Queue!Length' < Queue!LIMIT
  <2>1. Queue!NextIndex(bottom) \in Indices /\ top \in Indices
    BY NextDistance DEF QueueTypeOK
  <2>2. Queue!Length' = (Queue!NextIndex(bottom) - top + Queue!LIMIT) % Queue!LIMIT
    BY <1>1 DEF Queue!Length, Queue!LIMIT
  <2> QED
    BY <2>1, <2>2, RingLength
<1>4. Distance(top, Queue!NextIndex(bottom)) = Distance(top, bottom) + 1
  BY <1>1, NextDistance DEF QueueTypeOK
<1> QED
  BY <1>1, <1>2, <1>3, <1>4
\* push() keeps the invariant.
LEMMA PushKeepsRing ==
    ASSUME Queue!ConstantsOK, RingInv, NEW v \in Values, Queue!push(v)
    PROVE  RingInv'
<1>1. /\ queue_alive /\ bottom' = Queue!NextIndex(bottom) /\ top' = top /\ popped' = popped
      /\ top # Queue!NextIndex(bottom) /\ QueueTypeOK
  BY DEF Queue!push, Queue!HasRoom, RingInv
<1>2. /\ QueueTypeOK'
      /\ data'[Queue!SegmentOf(bottom)] # NULL
      /\ data'[Queue!SegmentOf(bottom)][Queue!offset(bottom)] = v
      /\ \A i \in Indices : i # bottom /\ data[Queue!SegmentOf(i)] # NULL =>
            /\ data'[Queue!SegmentOf(i)] # NULL
            /\ data'[Queue!SegmentOf(i)][Queue!offset(i)]
                 = data[Queue!SegmentOf(i)][Queue!offset(i)]
  BY <1>1, PushStores
<1>3. /\ Queue!Length \in Nat /\ Queue!Length' = Queue!Length + 1
      /\ Distance(top, bottom) = Queue!Length
  BY <1>1, PushLength
<1>4. /\ Stored(data', bottom)
      /\ \A i \in Indices : i # bottom /\ Stored(data, i) => Stored(data', i)
  BY <1>2 DEF Stored
<1>5. ASSUME NEW i \in Indices, Distance(top, i) < Queue!Length'
      PROVE  Stored(data', i)
  <2>1. CASE i = bottom
    BY <2>1, <1>4
  <2>2. CASE i # bottom
    <3>1. Distance(top, i) # Queue!Length
      BY <2>2, <1>1, <1>3, DistanceIsInjective DEF QueueTypeOK
    <3>2. Distance(top, i) \in Nat
      BY <1>1, NextDistance DEF QueueTypeOK
    <3>3. Distance(top, i) < Queue!Length
      BY <3>1, <3>2, <1>3, <1>5
    <3>4. Stored(data, i)
      BY <3>3, <1>1 DEF RingInv
    <3> QED
      BY <3>4, <2>2, <1>4
  <2> QED
    BY <2>1, <2>2
\* The popped item is not where the new one goes: the index after it is top,
\* and the one after bottom is not.
<1>6. ASSUME popped # NULL
      PROVE  Queue!NextIndex(popped) = top /\ Stored(data', popped)
  <2>1. Queue!NextIndex(popped) = top /\ Stored(data, popped)
    BY <1>1, <1>6 DEF RingInv
  <2>2. popped # bottom
    BY <2>1, <1>1
  <2>3. popped \in Indices
    BY <1>1, <1>6 DEF QueueTypeOK
  <2> QED
    BY <2>1, <2>2, <2>3, <1>4
<1>7. \A i \in Indices : Distance(top', i) < Queue!Length' => Stored(data', i)
  BY <1>1, <1>5
<1>8. popped' # NULL => Queue!NextIndex(popped') = top' /\ Stored(data', popped')
  BY <1>1, <1>6
<1> QED
  BY <1>2, <1>7, <1>8 DEF RingInv, Distance, Indices, Queue!LIMIT

\* pop() makes the queue shorter by one, and the length keeps its type.
LEMMA PopLength ==
    ASSUME Queue!ConstantsOK, QueueTypeOK, Queue!pop
    PROVE  /\ top' = Queue!NextIndex(top) /\ popped' = top /\ data' = data /\ bottom' = bottom
           /\ QueueTypeOK'
           /\ Queue!Length \in Nat /\ Queue!Length > 0 /\ Queue!Length' = Queue!Length - 1
           /\ Queue!Length < Queue!LIMIT
<1>1. /\ top # bottom /\ popped' = top /\ data' = data /\ bottom' = bottom
      /\ queue_alive' = queue_alive
      /\ top' = IF top + 1 = Queue!LIMIT THEN 0 ELSE top + 1
  BY DEF Queue!pop
<1>2. top' = Queue!NextIndex(top)
  BY <1>1, LimitIsPositive DEF Queue!NextIndex, QueueTypeOK, Indices
<1>3. Queue!NextIndex(top) \in Indices /\ bottom \in Indices /\ top \in Indices
  BY NextDistance DEF QueueTypeOK
<1>4. QueueTypeOK'
  BY <1>1, <1>2, <1>3 DEF QueueTypeOK
<1>5. Queue!Length = Distance(top, bottom) /\ Queue!Length \in Nat /\ Queue!Length < Queue!LIMIT
  BY <1>3, LengthIsDistance
<1>6. Queue!Length > 0
  BY <1>1, <1>3, <1>5, NextDistance
<1>7. Queue!Length' = Distance(Queue!NextIndex(top), bottom)
  <2>1. Queue!Length' = (bottom - Queue!NextIndex(top) + Queue!LIMIT) % Queue!LIMIT
    BY <1>1, <1>2 DEF Queue!Length, Queue!LIMIT
  <2> QED
    BY <2>1, <1>3, RingLength
<1>8. Queue!Length' = Queue!Length - 1
  BY <1>1, <1>3, <1>5, <1>7, NextDistance
<1> QED
  BY <1>1, <1>2, <1>4, <1>5, <1>6, <1>8

\* pop() keeps the invariant, and what it handed out is still stored.
LEMMA PopKeepsRing ==
    ASSUME Queue!ConstantsOK, RingInv, Queue!pop
    PROVE  RingInv'
<1>1. /\ queue_alive /\ QueueTypeOK /\ top \in Indices
  BY DEF Queue!pop, RingInv, QueueTypeOK
<1>2. /\ top' = Queue!NextIndex(top) /\ popped' = top /\ data' = data
      /\ QueueTypeOK'
      /\ Queue!Length \in Nat /\ Queue!Length > 0 /\ Queue!Length' = Queue!Length - 1
  BY <1>1, PopLength
<1>3. Queue!Length' \in Nat
  BY <1>2
<1>4. ASSUME NEW i \in Indices, Distance(Queue!NextIndex(top), i) < Queue!Length'
      PROVE  Stored(data, i)
  <2>1. i # top
    <3> SUFFICES ASSUME i = top PROVE FALSE
      OBVIOUS
    <3>1. PICK L \in Nat : L = Queue!LIMIT /\ L > 0
      BY LimitIsPositive
    <3>2. Distance(Queue!NextIndex(top), top) = L - 1
      BY <3>1, <1>1 DEF Distance, Queue!NextIndex, Indices
    <3>3. Queue!Length < L
      BY <3>1, <1>1, PopLength
    <3> QED
      BY <3>1, <3>2, <3>3, <1>2, <1>4
  <2>2. Distance(top, i) = Distance(Queue!NextIndex(top), i) + 1 /\ Distance(top, i) \in Nat
    BY <2>1, <1>1, NextDistance
  <2>3. Distance(Queue!NextIndex(top), i) \in Nat
    BY <1>1, NextDistance
  <2>4. Distance(top, i) < Queue!Length
    BY <2>2, <2>3, <1>2, <1>4
  <2> QED
    BY <2>4, <1>1 DEF RingInv
<1>5. Stored(data, top)
  <2>1. Distance(top, top) = 0
    BY <1>1, NextDistance
  <2> QED
    BY <2>1, <1>1, <1>2 DEF RingInv
<1>6. \A i \in Indices : Distance(top', i) < Queue!Length' => Stored(data', i)
  BY <1>2, <1>4
<1>7. Queue!NextIndex(popped') = top' /\ Stored(data', popped')
  BY <1>2, <1>5
<1> QED
  BY <1>2, <1>6, <1>7 DEF RingInv, Distance, Indices, Queue!LIMIT

\* ~Queue() keeps the invariant.
LEMMA DestroyKeepsRing ==
    ASSUME Queue!ConstantsOK, RingInv, Queue!Destroy
    PROVE  RingInv'
BY DEF Queue!Destroy, RingInv, QueueTypeOK

\* The ring holds its items where they are looked for, for every size and
\* number of segments.
THEOREM RingInvIsInductive == Queue!Spec => []RingInv
<1> USE ContainersAssumption
<1>1. Queue!Init => RingInv
  BY InitRing
<1>2. RingInv /\ [Queue!Next]_Queue!vars => RingInv'
  <2> SUFFICES ASSUME RingInv, [Queue!Next]_Queue!vars PROVE RingInv'
    OBVIOUS
  <2>1. ASSUME NEW v \in Values, Queue!push(v) PROVE RingInv'
    BY <2>1, PushKeepsRing
  <2>2. CASE Queue!pop
    BY <2>2, PopKeepsRing
  <2>3. CASE Queue!Destroy
    BY <2>3, DestroyKeepsRing
  <2>4. CASE UNCHANGED Queue!vars
    BY <2>4 DEF Queue!vars, RingInv, QueueTypeOK, Queue!Length
  <2> QED
    BY <2>1, <2>2, <2>3, <2>4 DEF Queue!Next
<1> QED
  BY <1>1, <1>2, PTL DEF Queue!Spec
-----------------------------------------------------------------------------
(* SegmentedQueue: the refinement *)

\* The n items from index h on.
ReadRing(d, h, n) ==
    [k \in 1 .. n |-> d[Queue!SegmentOf((h + k - 1) % Queue!LIMIT)]
                       [Queue!offset((h + k - 1) % Queue!LIMIT)]]

QueueList ==
    IF queue_alive
    THEN [k \in 1 .. Queue!Length |-> Queue!ItemAt((top + k - 1) % Queue!LIMIT)]
    ELSE <<>>
HandedOut == IF queue_alive /\ popped # NULL THEN Queue!ItemAt(popped) ELSE NULL

\* The index of the k-th item.
LEMMA KthPlace ==
    ASSUME Queue!ConstantsOK, NEW h \in Indices, NEW k \in Nat, 1 <= k, k <= Queue!LIMIT
    PROVE  /\ (h + k - 1) % Queue!LIMIT \in Indices
           /\ Distance(h, (h + k - 1) % Queue!LIMIT) = k - 1
           /\ (h + 1 - 1) % Queue!LIMIT = h
<1>1. PICK j \in Nat : j = k - 1 /\ j < Queue!LIMIT
  BY LimitIsPositive
<1>2. h + k - 1 = h + j /\ h + 1 - 1 = h + 0 /\ Queue!LIMIT \in Nat /\ 0 < Queue!LIMIT
  BY <1>1, LimitIsPositive DEF Indices
<1>3. (h + j) % Queue!LIMIT \in Indices /\ Distance(h, (h + j) % Queue!LIMIT) = j
  BY <1>1, KthIndex
<1>4. (h + 0) % Queue!LIMIT = IF h + 0 < Queue!LIMIT THEN h + 0 ELSE h + 0 - Queue!LIMIT
  BY <1>2, KthIndex
<1>5. (h + 0) % Queue!LIMIT = h
  BY <1>2, <1>4 DEF Indices
<1> QED
  BY <1>1, <1>2, <1>3, <1>5

\* The items from top to bottom are a list of values.
LEMMA ListIsSequence ==
    ASSUME Queue!ConstantsOK, RingInv, queue_alive
    PROVE  /\ QueueList = ReadRing(data, top, Queue!Length)
           /\ QueueList \in Seq(Values) /\ Len(QueueList) = Queue!Length
           /\ Queue!Length \in Nat /\ Queue!Length < Queue!LIMIT
<1>1. top \in Indices /\ bottom \in Indices
  BY DEF RingInv, QueueTypeOK
<1>2. Queue!Length \in Nat /\ Queue!Length < Queue!LIMIT
  BY <1>1, LengthIsDistance
<1>3. PICK n \in Nat : n = Queue!Length
  BY <1>2
<1>4. ASSUME NEW k \in 1 .. n
      PROVE  ReadRing(data, top, n)[k] \in Values
  <2>1. k \in Nat /\ 1 <= k /\ k <= Queue!LIMIT
    BY <1>2, <1>3, LimitIsPositive
  <2>2. PICK i \in Indices : i = (top + k - 1) % Queue!LIMIT /\ Distance(top, i) = k - 1
    BY <2>1, <1>1, KthPlace
  <2>3. Distance(top, i) < Queue!Length
    BY <2>1, <2>2, <1>3
  <2>4. Stored(data, i)
    BY <2>3 DEF RingInv
  <2>5. ReadRing(data, top, n)[k] = data[Queue!SegmentOf(i)][Queue!offset(i)]
    BY <2>2 DEF ReadRing
  <2> QED
    BY <2>4, <2>5 DEF Stored
<1>5. PICK q : q = ReadRing(data, top, n)
  OBVIOUS
<1>6. q \in [1 .. n -> Values]
  <2>1. DOMAIN q = 1 .. n /\ q = [k \in 1 .. n |-> q[k]]
    BY <1>5 DEF ReadRing
  <2> QED
    BY <2>1, <1>4, <1>5
<1>7. q \in Seq(Values) /\ Len(q) = n
  BY <1>6
<1>8. QueueList = q
  BY <1>3, <1>5 DEF QueueList, ReadRing, Queue!ItemAt
<1> QED
  BY <1>2, <1>3, <1>5, <1>7, <1>8

\* push() puts v at the end of the list, and leaves what was handed out.
LEMMA PushAppends ==
    ASSUME Queue!ConstantsOK, RingInv, NEW v \in Values, Queue!push(v)
    PROVE  QueueList' = Append(QueueList, v) /\ HandedOut' = HandedOut
<1>1. /\ queue_alive /\ queue_alive' = queue_alive /\ QueueTypeOK /\ top' = top
      /\ popped' = popped
      /\ top # Queue!NextIndex(bottom) /\ top \in Indices /\ bottom \in Indices
  BY DEF Queue!push, Queue!HasRoom, RingInv, QueueTypeOK
<1>2. /\ data'[Queue!SegmentOf(bottom)][Queue!offset(bottom)] = v
      /\ \A i \in Indices : i # bottom /\ data[Queue!SegmentOf(i)] # NULL =>
            data'[Queue!SegmentOf(i)][Queue!offset(i)]
              = data[Queue!SegmentOf(i)][Queue!offset(i)]
  BY <1>1, PushStores
<1>3. PICK n \in Nat : n = Queue!Length
  BY <1>1, PushLength
<1>4. Queue!Length' = n + 1 /\ n + 1 < Queue!LIMIT /\ Distance(top, bottom) = n
  BY <1>1, <1>3, PushLength
<1>5. PICK q : q = QueueList
  OBVIOUS
<1>6. q = ReadRing(data, top, n) /\ q \in Seq(Values) /\ Len(q) = n
  BY <1>1, <1>3, <1>5, ListIsSequence
<1>7. PICK r : r = ReadRing(data', top, n + 1)
  OBVIOUS
<1>8. DOMAIN r = 1 .. n + 1 /\ r = [k \in 1 .. n + 1 |-> r[k]]
  BY <1>7 DEF ReadRing
<1>9. ASSUME NEW k \in 1 .. n + 1
      PROVE  r[k] = IF k = n + 1 THEN v ELSE q[k]
  <2>1. k \in Nat /\ 1 <= k /\ k <= Queue!LIMIT
    BY <1>4, LimitIsPositive
  <2>2. PICK i \in Indices : i = (top + k - 1) % Queue!LIMIT /\ Distance(top, i) = k - 1
    BY <2>1, <1>1, KthPlace
  <2>3. r[k] = data'[Queue!SegmentOf(i)][Queue!offset(i)]
    BY <2>2, <1>7 DEF ReadRing
  <2>4. CASE k = n + 1
    <3>1. Distance(top, i) = Distance(top, bottom)
      BY <2>2, <2>4, <1>4
    <3>2. i = bottom
      BY <3>1, <1>1, DistanceIsInjective
    <3> QED
      BY <3>2, <2>3, <2>4, <1>2
  <2>5. CASE k # n + 1
    <3>1. Distance(top, i) < n /\ k \in 1 .. n
      BY <2>2, <2>5
    <3>2. i # bottom
      BY <3>1, <1>4
    <3>3. Stored(data, i)
      BY <3>1, <1>1, <1>3 DEF RingInv
    <3>4. q[k] = data[Queue!SegmentOf(i)][Queue!offset(i)]
      BY <3>1, <2>2, <1>6 DEF ReadRing
    <3> QED
      BY <3>2, <3>3, <3>4, <2>3, <2>5, <1>2 DEF Stored
  <2> QED
    BY <2>4, <2>5
<1>10. PICK m \in Nat : m = n + 1
  OBVIOUS
<1>11. r = Append(q, v)
  <2>1. Append(q, v) \in Seq(Values) /\ Len(Append(q, v)) = m
    BY <1>6, <1>10
  <2>2. \A k \in 1 .. m : Append(q, v)[k] = IF k = m THEN v ELSE q[k]
    BY <1>6, <1>10
  <2>3. PICK a \in Seq(Values) : a = Append(q, v)
    BY <2>1
  <2>4. a \in [1 .. m -> Values]
    <3>1. Len(a) = m
      BY <2>1, <2>3
    <3> QED
      BY <3>1
  <2>5. a = [k \in 1 .. m |-> a[k]]
    BY <2>4
  <2>6. \A k \in 1 .. m : r[k] = a[k]
    BY <1>9, <1>10, <2>2, <2>3
  <2> QED
    BY <2>3, <2>5, <2>6, <1>8, <1>10
<1>12. QueueList' = r
  BY <1>1, <1>4, <1>7
     DEF QueueList, ReadRing, Queue!ItemAt, Queue!LIMIT, Queue!SegmentOf, Queue!offset
<1>13. HandedOut' = HandedOut
  <2>1. CASE popped = NULL
    BY <2>1, <1>1 DEF HandedOut
  <2>2. CASE popped # NULL
    <3>1. popped \in Indices /\ Queue!NextIndex(popped) = top /\ Stored(data, popped)
      BY <2>2, <1>1 DEF RingInv, QueueTypeOK
    <3>2. popped # bottom
      BY <3>1, <1>1
    <3>3. data'[Queue!SegmentOf(popped)][Queue!offset(popped)]
            = data[Queue!SegmentOf(popped)][Queue!offset(popped)]
      BY <3>1, <3>2, <1>2 DEF Stored
    <3> QED
      BY <3>3, <2>2, <1>1 DEF HandedOut, Queue!ItemAt, Queue!SegmentOf, Queue!offset
  <2> QED
    BY <2>1, <2>2
<1> QED
  BY <1>5, <1>11, <1>12, <1>13

\* pop() hands out the first of the list.
LEMMA PopRemoves ==
    ASSUME Queue!ConstantsOK, RingInv, Queue!pop
    PROVE  QueueList # <<>> /\ HandedOut' = Head(QueueList) /\ QueueList' = Tail(QueueList)
<1>1. /\ queue_alive /\ queue_alive' = queue_alive /\ QueueTypeOK /\ top \in Indices
  BY DEF Queue!pop, RingInv, QueueTypeOK
<1>2. /\ top' = Queue!NextIndex(top) /\ popped' = top /\ data' = data
      /\ Queue!Length \in Nat /\ Queue!Length > 0 /\ Queue!Length' = Queue!Length - 1
           /\ Queue!Length < Queue!LIMIT
  BY <1>1, PopLength
<1>3. PICK n \in Nat : n = Queue!Length /\ n > 0 /\ n < Queue!LIMIT
  BY <1>2
<1>4. PICK q : q = QueueList
  OBVIOUS
<1>5. q = ReadRing(data, top, n) /\ q \in Seq(Values) /\ Len(q) = n
  BY <1>1, <1>3, <1>4, ListIsSequence
<1>6. PICK h \in Indices : h = Queue!NextIndex(top)
  BY <1>1, NextDistance
<1>7. PICK r : r = ReadRing(data, h, n - 1)
  OBVIOUS
<1>8. DOMAIN r = 1 .. n - 1 /\ r = [k \in 1 .. n - 1 |-> r[k]]
  BY <1>7 DEF ReadRing
<1>9. ASSUME NEW k \in 1 .. n - 1
      PROVE  r[k] = q[k + 1]
  <2>1. /\ k \in Nat /\ 1 <= k /\ k <= Queue!LIMIT
        /\ k + 1 \in Nat /\ 1 <= k + 1 /\ k + 1 <= Queue!LIMIT /\ k + 1 \in 1 .. n
    BY <1>3, LimitIsPositive
  <2>2. PICK i \in Indices : i = (h + k - 1) % Queue!LIMIT /\ Distance(h, i) = k - 1
    BY <2>1, KthPlace
  <2>3. PICK j \in Indices :
               j = (top + (k + 1) - 1) % Queue!LIMIT /\ Distance(top, j) = (k + 1) - 1
    BY <2>1, <1>1, KthPlace
  <2>4. Distance(top, j) = k
    BY <2>1, <2>3
  <2>5. j # top
    BY <2>1, <2>4, <1>1, NextDistance
  <2>6. Distance(h, j) = Distance(top, j) - 1
    BY <2>5, <1>1, <1>6, NextDistance
  <2>7. Distance(h, i) = Distance(h, j)
    BY <2>1, <2>2, <2>4, <2>6
  <2>8. i = j
    BY <2>7, DistanceIsInjective
  <2>9. r[k] = data[Queue!SegmentOf(i)][Queue!offset(i)]
    BY <2>2, <1>7 DEF ReadRing
  <2>10. q[k + 1] = data[Queue!SegmentOf(j)][Queue!offset(j)]
    BY <2>1, <2>3, <1>5 DEF ReadRing
  <2> QED
    BY <2>8, <2>9, <2>10
<1>10. q # <<>> /\ Head(q) = q[1]
  BY <1>3, <1>5
<1>11. r = Tail(q)
  <2>1. PICK m \in Nat : m = n - 1
    BY <1>3
  <2>2. Tail(q) \in Seq(Values) /\ Len(Tail(q)) = m
    BY <1>3, <1>5, <1>10, <2>1
  <2>3. \A k \in 1 .. m : Tail(q)[k] = q[k + 1]
    BY <1>3, <1>5, <1>10, <2>1
  <2>4. PICK a \in Seq(Values) : a = Tail(q)
    BY <2>2
  <2>5. a \in [1 .. m -> Values]
    <3>1. Len(a) = m
      BY <2>2, <2>4
    <3> QED
      BY <3>1
  <2>6. a = [k \in 1 .. m |-> a[k]]
    BY <2>5
  <2>7. \A k \in 1 .. m : r[k] = a[k]
    BY <1>9, <2>1, <2>3, <2>4
  <2> QED
    BY <2>1, <2>4, <2>6, <2>7, <1>8
<1>12. QueueList' = r
  BY <1>1, <1>2, <1>3, <1>6, <1>7
     DEF QueueList, ReadRing, Queue!ItemAt, Queue!LIMIT, Queue!SegmentOf, Queue!offset
<1>13. HandedOut' = q[1]
  <2>1. top # NULL
    BY <1>1, LimitIsPositive DEF Indices, Queue!ConstantsOK
  <2>2. (top + 1 - 1) % Queue!LIMIT = top
    BY <1>1, LimitIsPositive, KthPlace
  <2>3. q[1] = data[Queue!SegmentOf(top)][Queue!offset(top)]
    BY <2>2, <1>3, <1>5 DEF ReadRing
  <2>4. HandedOut' = data[Queue!SegmentOf(top)][Queue!offset(top)]
    BY <2>1, <1>1, <1>2 DEF HandedOut, Queue!ItemAt, Queue!SegmentOf, Queue!offset
  <2> QED
    BY <2>3, <2>4
<1> QED
  BY <1>4, <1>10, <1>11, <1>12, <1>13

\* Items come out in the order they went in, around the end of the ring, and
\* push() never writes over the item that pop() handed out last.
THEOREM QueueHandsOut == Queue!Spec => ImplementsHandoutQueue
<1> USE ContainersAssumption
<1>1. Queue!Init => QueueList = <<>> /\ HandedOut = NULL
  <2> SUFFICES ASSUME Queue!Init PROVE QueueList = <<>> /\ HandedOut = NULL
    OBVIOUS
  <2>1. RingInv /\ queue_alive /\ popped = NULL
    BY InitRing DEF Queue!Init
  <2>2. PICK q \in Seq(Values) : q = QueueList /\ Len(q) = Queue!Length
    BY <2>1, ListIsSequence
  <2>3. Queue!Length = 0
    BY <2>1, LengthIsDistance, LimitIsPositive DEF Queue!Init, Distance, RingInv, QueueTypeOK
  <2> QED
    BY <2>1, <2>2, <2>3 DEF HandedOut
<1>2. RingInv /\ [Queue!Next]_Queue!vars => [Queue!HQ!Next]_<<QueueList, HandedOut>>
  <2> SUFFICES ASSUME RingInv, [Queue!Next]_Queue!vars
               PROVE  [Queue!HQ!Next]_<<QueueList, HandedOut>>
    OBVIOUS
  <2>1. ASSUME NEW v \in Values, Queue!push(v) PROVE Queue!HQ!Next
    <3>1. Queue!HQ!Push(v)
      BY <2>1, PushAppends DEF Queue!HQ!Push, QueueList, HandedOut
    <3> QED
      BY <3>1 DEF Queue!HQ!Next
  <2>2. CASE Queue!pop
    BY <2>2, PopRemoves DEF Queue!HQ!Next, Queue!HQ!Pop, QueueList, HandedOut
  <2>3. CASE Queue!Destroy
    BY <2>3 DEF Queue!Destroy, Queue!HQ!Next, Queue!HQ!Destroy
  <2>4. CASE UNCHANGED Queue!vars
    BY <2>4 DEF Queue!vars, QueueList, HandedOut, ReadRing, Queue!Length, Queue!ItemAt
  <2> QED
    BY <2>1, <2>2, <2>3, <2>4 DEF Queue!Next
<1> QED
  BY <1>1, <1>2, RingInvIsInductive, PTL
     DEF Queue!Spec, ImplementsHandoutQueue, Queue!ImplementsHandoutQueue, Queue!HQ!Spec,
         Queue!HQ!Init, QueueList, HandedOut

=============================================================================
