--------------------------- MODULE MinHeap_proofs ---------------------------
(***************************************************************************)
(* MinHeap implements a priority queue and loses no object, for every set  *)
(* of integers as keys and every size and number of the blocks of its pool.*)
(*                                                                         *)
(* The heap is in order everywhere but around one object, which a loop lets *)
(* go up (GoesUp) or down (GoesDown): a round keeps that, with the object  *)
(* one level nearer to its place, and the loops have as many rounds as the *)
(* object can make.  The operations begin and end with a heap in order.    *)
(***************************************************************************)
EXTENDS Containers, FiniteSetTheorems, SequenceTheorems,
        WellFoundedInduction, TLAPS

-----------------------------------------------------------------------------
(* Numbers, one after the other *)

\* Every nonempty set of natural numbers has a least element.
LEMMA LeastNumber ==
    ASSUME NEW S \in SUBSET Nat, S # {}
    PROVE  \E x \in S : \A y \in S : x <= y
<1> DEFINE Segments == {0 .. k : k \in S}
<1>1. Segments \subseteq FiniteSubsetsOf(Nat) /\ Segments # {}
  <2>1. \A k \in S : IsFiniteSet(0 .. k) /\ 0 .. k \subseteq Nat
    BY FS_Interval
  <2> QED BY <2>1 DEF FiniteSubsetsOf
<1>2. PICK A \in Segments : \A B \in Segments : <<B, A>> \notin StrictSubsetOrdering(Nat)
  <2> HIDE DEF Segments
  <2> QED BY <1>1, FS_StrictSubsetOrderingWellFounded, WFMin
<1>3. PICK x \in S : A = 0 .. x
  OBVIOUS
<1>4. ASSUME NEW y \in S, y < x
      PROVE  FALSE
  <2>1. x \in 0 .. x /\ x \notin 0 .. y
    BY <1>4
  <2>2. <<0 .. y, 0 .. x>> \in StrictSubsetOrdering(Nat)
    BY <1>4, <2>1 DEF StrictSubsetOrdering
  <2> QED BY <2>2, <1>2, <1>3
<1> QED BY <1>4

\* A set that contains 0 and with each number the next one contains them all.
LEMMA UpTo ==
    ASSUME NEW N \in Nat, NEW S, 0 \in S, \A n \in 0 .. N - 1 : n \in S => n + 1 \in S
    PROVE  \A n \in 0 .. N : n \in S
<1> SUFFICES ASSUME (0 .. N) \ S # {}
             PROVE  FALSE
  OBVIOUS
<1>1. PICK x \in (0 .. N) \ S : \A y \in (0 .. N) \ S : x <= y
  <2>1. (0 .. N) \ S \in SUBSET Nat
    OBVIOUS
  <2> QED BY <2>1, LeastNumber
<1>2. x # 0 /\ x \in Nat /\ x <= N
  BY <1>1
<1>3. x - 1 \in 0 .. N - 1 /\ x - 1 < x /\ (x - 1) + 1 = x
  BY <1>2
<1>4. x - 1 \in S
  BY <1>1, <1>3
<1> QED BY <1>1, <1>3, <1>4

-----------------------------------------------------------------------------
(* Heaps whose objects know their indices *)

Heaps == [data : Seq(Heap!Objects), heap_index : [Heap!Objects -> Int]]

Indexed(h) ==
    /\ h \in Heaps
    /\ \A i \in 0 .. Heap!Size(h) - 1 : h.heap_index[Heap!At(h, i)] = i
    /\ \A x \in Heap!Members(h) : /\ h.heap_index[x] \in 0 .. Heap!Size(h) - 1
                             /\ Heap!At(h, h.heap_index[x]) = x

\* An index is one of the two children of its parent.
LEMMA ParentIs ==
    ASSUME NEW j \in Nat, j > 0
    PROVE  /\ Heap!parent(j) \in Nat /\ Heap!parent(j) < j
           /\ j = Heap!left(Heap!parent(j)) \/ j = Heap!right(Heap!parent(j))
BY DEF Heap!parent, Heap!left, Heap!right

\* At an index of the heap there is a member, which knows it.
LEMMA ObjectAt ==
    ASSUME NEW h, Indexed(h), NEW i \in 0 .. Heap!Size(h) - 1
    PROVE  /\ Heap!Size(h) \in Nat
           /\ Heap!At(h, i) \in Heap!Objects
           /\ h.heap_index[Heap!At(h, i)] = i
           /\ Heap!At(h, i) \in Heap!Members(h)
<1>1. h.data \in Seq(Heap!Objects) /\ h.heap_index \in [Heap!Objects -> Int]
  BY DEF Indexed, Heaps
<1>2. Heap!Size(h) \in Nat /\ i + 1 \in 1 .. Len(h.data)
  BY <1>1 DEF Heap!Size
<1>3. Heap!At(h, i) \in Heap!Objects
  BY <1>1, <1>2 DEF Heap!At
<1>4. h.heap_index[Heap!At(h, i)] = i /\ i \in Nat
  BY <1>2 DEF Indexed
<1> QED
  BY <1>2, <1>3, <1>4 DEF Heap!Members

\* Two places have different objects.
LEMMA DifferentObjects ==
    ASSUME NEW h, Indexed(h),
           NEW i \in 0 .. Heap!Size(h) - 1, NEW j \in 0 .. Heap!Size(h) - 1, i # j
    PROVE  Heap!At(h, i) # Heap!At(h, j)
BY ObjectAt

\* swap_node() swaps two objects, and tells them.
LEMMA Swapped ==
    ASSUME NEW h, Indexed(h),
           NEW i \in 0 .. Heap!Size(h) - 1, NEW j \in 0 .. Heap!Size(h) - 1, i # j,
           NEW g, g = Heap!swap_node(h, i, j)
    PROVE  /\ Indexed(g) /\ Heap!Size(g) = Heap!Size(h) /\ Heap!Members(g) = Heap!Members(h)
           /\ Heap!At(g, i) = Heap!At(h, j) /\ Heap!At(g, j) = Heap!At(h, i)
           /\ \A m \in 0 .. Heap!Size(h) - 1 : m # i /\ m # j => Heap!At(g, m) = Heap!At(h, m)
<1>1. h.data \in Seq(Heap!Objects) /\ h.heap_index \in [Heap!Objects -> Int]
  BY DEF Indexed, Heaps
<1>2. PICK n \in Nat : n = Heap!Size(h) /\ n = Len(h.data)
  BY <1>1 DEF Heap!Size
<1>3. PICK x \in Heap!Objects : x = Heap!At(h, i)
  BY ObjectAt
<1>4. PICK y \in Heap!Objects : y = Heap!At(h, j)
  BY ObjectAt
<1>5. x # y
  BY <1>3, <1>4, DifferentObjects
<1>6. /\ g.data = [h.data EXCEPT ![i + 1] = y, ![j + 1] = x]
      /\ g.heap_index = [h.heap_index EXCEPT ![y] = i, ![x] = j]
      /\ g = [data |-> g.data, heap_index |-> g.heap_index]
  BY <1>3, <1>4 DEF Heap!swap_node, Heap!Told
<1>7. i + 1 \in 1 .. Len(h.data) /\ j + 1 \in 1 .. Len(h.data) /\ i + 1 # j + 1
  BY <1>2
<1>8. /\ g.data \in Seq(Heap!Objects)
      /\ Len(g.data) = n
      /\ \A m \in 1 .. n :
           g.data[m] = IF m = j + 1 THEN x ELSE IF m = i + 1 THEN y ELSE h.data[m]
  <2>1. PICK d, a, b : d = h.data /\ a = i + 1 /\ b = j + 1
    OBVIOUS
  <2>2. /\ d \in Seq(Heap!Objects) /\ Len(d) = n
        /\ a \in 1 .. Len(d) /\ b \in 1 .. Len(d)
        /\ g.data = [d EXCEPT ![a] = y, ![b] = x]
    BY <1>1, <1>2, <1>6, <1>7, <2>1
  <2>3. PICK e : e = [d EXCEPT ![a] = y]
    OBVIOUS
  <2>4. /\ e \in Seq(Heap!Objects) /\ Len(e) = n
        /\ \A m \in 1 .. n : e[m] = IF m = a THEN y ELSE d[m]
    BY <2>2, <2>3
  <2>5. g.data = [e EXCEPT ![b] = x]
    BY <2>2, <2>3
  <2>6. /\ g.data \in Seq(Heap!Objects) /\ Len(g.data) = n
        /\ \A m \in 1 .. n : g.data[m] = IF m = b THEN x ELSE e[m]
    BY <2>2, <2>4, <2>5
  <2> QED
    BY <2>1, <2>4, <2>6
<1>9. /\ Heap!Size(g) = n
      /\ Heap!At(g, i) = y /\ Heap!At(g, j) = x
      /\ \A m \in 0 .. n - 1 : m # i /\ m # j => Heap!At(g, m) = Heap!At(h, m)
  <2>1. Heap!Size(g) = n
    BY <1>8 DEF Heap!Size
  <2>2. Heap!At(g, i) = y /\ Heap!At(g, j) = x
    BY <1>2, <1>7, <1>8 DEF Heap!At
  <2>3. ASSUME NEW m \in 0 .. n - 1, m # i, m # j
        PROVE  Heap!At(g, m) = Heap!At(h, m)
    <3>1. m + 1 \in 1 .. n /\ m + 1 # j + 1 /\ m + 1 # i + 1
      BY <1>2, <2>3
    <3> QED
      BY <1>8, <3>1 DEF Heap!At
  <2> QED
    BY <2>1, <2>2, <2>3
<1>10. /\ g.heap_index \in [Heap!Objects -> Int]
       /\ g.heap_index[x] = j /\ g.heap_index[y] = i
       /\ \A z \in Heap!Objects : z # x /\ z # y => g.heap_index[z] = h.heap_index[z]
  BY <1>1, <1>2, <1>5, <1>6
<1>11. g \in Heaps
  BY <1>6, <1>8, <1>10 DEF Heaps
<1>12. x \in Heap!Members(h) /\ y \in Heap!Members(h)
  BY <1>3, <1>4, ObjectAt
<1>13. Heap!Members(g) = Heap!Members(h)
  BY <1>10, <1>12 DEF Heap!Members
<1>14. ASSUME NEW m \in 0 .. n - 1 PROVE g.heap_index[Heap!At(g, m)] = m
  <2>1. CASE m = i \/ m = j
    BY <1>9, <1>10, <2>1
  <2>2. CASE m # i /\ m # j
    <3>1. Heap!At(g, m) = Heap!At(h, m) /\ Heap!At(h, m) # x /\ Heap!At(h, m) # y
      BY <1>2, <1>3, <1>4, <1>9, <2>2, DifferentObjects
    <3>2. Heap!At(h, m) \in Heap!Objects /\ h.heap_index[Heap!At(h, m)] = m
      BY <1>2, ObjectAt
    <3> QED
      BY <1>10, <3>1, <3>2
  <2> QED
    BY <2>1, <2>2
<1>15. ASSUME NEW z \in Heap!Members(g)
       PROVE  g.heap_index[z] \in 0 .. n - 1 /\ Heap!At(g, g.heap_index[z]) = z
  <2>1. CASE z = x \/ z = y
    BY <1>2, <1>9, <1>10, <2>1
  <2>2. CASE z # x /\ z # y
    <3>1. z \in Heap!Objects /\ z \in Heap!Members(h)
      BY <1>13 DEF Heap!Members
    <3>2. h.heap_index[z] \in 0 .. n - 1 /\ Heap!At(h, h.heap_index[z]) = z
      BY <1>2, <3>1 DEF Indexed
    <3>3. g.heap_index[z] = h.heap_index[z]
      BY <1>10, <2>2, <3>1
    <3>4. h.heap_index[z] # i /\ h.heap_index[z] # j
      BY <1>3, <1>4, <2>2, <3>2
    <3> QED
      BY <1>9, <3>2, <3>3, <3>4
  <2> QED
    BY <2>1, <2>2
<1>16. Indexed(g)
  BY <1>9, <1>11, <1>14, <1>15 DEF Indexed
<1> QED
  BY <1>2, <1>3, <1>4, <1>9, <1>13, <1>16
-----------------------------------------------------------------------------
(* The loops.  A loop starts with the heap h, and l is the heap and the    *)
(* index that it has got to                                                *)

\* The members have keys that can be compared.
Keyed(k, h) == \A x \in Heap!Members(h) : k[x] \in Int

InOrder(k, h, j) == k[Heap!At(h, Heap!parent(j))] <= k[Heap!At(h, j)]
Ordered(k, h) == \A j \in 1 .. Heap!Size(h) - 1 : InOrder(k, h, j)

\* The parent of i comes before the children of i as well.
OrderedAround(k, h, i) ==
    \A j \in 1 .. Heap!Size(h) - 1 :
        i > 0 /\ Heap!parent(j) = i => k[Heap!At(h, Heap!parent(i))] <= k[Heap!At(h, j)]

Loops == [h : Heaps, i : Nat]

SameMembers(h, l) ==
    /\ l \in Loops
    /\ Indexed(l.h) /\ Heap!Size(l.h) = Heap!Size(h) /\ Heap!Members(l.h) = Heap!Members(h)
    /\ l.i \in 0 .. Heap!Size(h) - 1

\* The heap is in order, but for the object at l.i, which may be too far down.
GoesUp(k, h, l) ==
    /\ SameMembers(h, l)
    /\ \A j \in 1 .. Heap!Size(h) - 1 : j # l.i => InOrder(k, l.h, j)
    /\ OrderedAround(k, l.h, l.i)

\* The same, but it may be too far up.
GoesDown(k, h, l) ==
    /\ SameMembers(h, l)
    /\ \A j \in 1 .. Heap!Size(h) - 1 : Heap!parent(j) # l.i => InOrder(k, l.h, j)
    /\ OrderedAround(k, l.h, l.i)

KeyAt(k, h, i) == k[Heap!At(h, i)]

\* The keys that the loops compare are numbers.
LEMMA KeysAreNumbers ==
    ASSUME NEW k, NEW h, Indexed(h), Keyed(k, h), NEW i \in 0 .. Heap!Size(h) - 1
    PROVE  k[Heap!At(h, i)] \in Int
BY ObjectAt DEF Keyed

\* The parent of an index is an index before it.
LEMMA ParentIsAPlace ==
    ASSUME NEW n \in Nat, NEW j \in 1 .. n - 1
    PROVE  Heap!parent(j) \in 0 .. n - 1 /\ Heap!parent(j) < j /\ j \in 0 .. n - 1
BY ParentIs

\* A round of sift_up().
LEMMA RaisedCorrect ==
    ASSUME NEW k, NEW h, Keyed(k, h), NEW l, GoesUp(k, h, l),
           l.i > 0, Heap!Less(k, l.h, l.i, Heap!parent(l.i))
    PROVE  GoesUp(k, h, Heap!Raised(k, l)) /\ Heap!Raised(k, l).i < l.i
<1>1. /\ l \in Loops
      /\ Indexed(l.h) /\ Heap!Size(l.h) = Heap!Size(h) /\ Heap!Members(l.h) = Heap!Members(h)
      /\ l.i \in 0 .. Heap!Size(h) - 1
  BY DEF GoesUp, SameMembers
<1>2. PICK g : g = l.h
  OBVIOUS
<1>3. PICK n \in Nat : n = Heap!Size(g) /\ n = Heap!Size(h)
  BY <1>1, <1>2, ObjectAt
<1>4. PICK i \in 1 .. n - 1 : i = l.i
  BY <1>1, <1>3
<1>5. PICK p \in 0 .. n - 1 : p = Heap!parent(i) /\ p < i
  BY <1>4, ParentIsAPlace
<1>6. PICK f : f = Heap!swap_node(g, i, p)
  OBVIOUS
<1>7. Heap!Raised(k, l) = [h |-> f, i |-> p]
  BY <1>2, <1>4, <1>5, <1>6 DEF Heap!Raised
<1>8. /\ Indexed(f) /\ Heap!Size(f) = n /\ Heap!Members(f) = Heap!Members(h)
      /\ Heap!At(f, i) = Heap!At(g, p) /\ Heap!At(f, p) = Heap!At(g, i)
      /\ \A m \in 0 .. n - 1 : m # i /\ m # p => Heap!At(f, m) = Heap!At(g, m)
  <2>1. i \in 0 .. Heap!Size(g) - 1 /\ p \in 0 .. Heap!Size(g) - 1 /\ i # p
    BY <1>3, <1>4, <1>5
  <2>2. Indexed(g) /\ Heap!Members(g) = Heap!Members(h)
    BY <1>1, <1>2
  <2>3. /\ Indexed(f) /\ Heap!Size(f) = Heap!Size(g) /\ Heap!Members(f) = Heap!Members(g)
        /\ Heap!At(f, i) = Heap!At(g, p) /\ Heap!At(f, p) = Heap!At(g, i)
        /\ \A m \in 0 .. Heap!Size(g) - 1 : m # i /\ m # p => Heap!At(f, m) = Heap!At(g, m)
    BY <1>6, <2>1, <2>2, Swapped
  <2> QED
    BY <1>3, <2>2, <2>3
<1>9. SameMembers(h, Heap!Raised(k, l))
  <2>1. f \in Heaps
    BY <1>8 DEF Indexed
  <2> QED
    BY <1>3, <1>5, <1>7, <1>8, <2>1 DEF SameMembers, Loops
<1>10. k[Heap!At(g, i)] < k[Heap!At(g, p)]
  BY <1>2, <1>4, <1>5 DEF Heap!Less
<1>11. \A m \in 0 .. n - 1 : k[Heap!At(g, m)] \in Int
  BY <1>1, <1>2, <1>3, KeysAreNumbers DEF Keyed
<1>12. \A j \in 1 .. n - 1 : j # i => k[Heap!At(g, Heap!parent(j))] <= k[Heap!At(g, j)]
  BY <1>2, <1>3, <1>4 DEF GoesUp, InOrder
<1>13. \A j \in 1 .. n - 1 : Heap!parent(j) = i => k[Heap!At(g, p)] <= k[Heap!At(g, j)]
  BY <1>1, <1>2, <1>3, <1>4, <1>5 DEF GoesUp, OrderedAround
<1>14. ASSUME NEW j \in 1 .. n - 1, j # p
       PROVE  k[Heap!At(f, Heap!parent(j))] <= k[Heap!At(f, j)]
  <2>1. PICK q \in 0 .. n - 1 : q = Heap!parent(j) /\ q < j /\ j \in 0 .. n - 1
    BY ParentIsAPlace
  <2>2. CASE j = i
    BY <1>5, <1>8, <1>10, <1>11, <2>1, <2>2
  <2>3. CASE j # i /\ q = i
    BY <1>8, <1>13, <1>14, <2>1, <2>3
  <2>4. CASE j # i /\ q = p
    <3>1. Heap!At(f, j) = Heap!At(g, j) /\ k[Heap!At(g, p)] <= k[Heap!At(g, j)]
      BY <1>8, <1>12, <1>14, <2>1, <2>4
    <3>2. k[Heap!At(g, i)] <= k[Heap!At(g, j)]
      BY <1>10, <1>11, <2>1, <3>1
    <3> QED
      BY <1>8, <2>1, <2>4, <3>1, <3>2
  <2>5. CASE j # i /\ q # i /\ q # p
    BY <1>8, <1>12, <1>14, <2>1, <2>5
  <2> QED
    BY <2>2, <2>3, <2>4, <2>5
<1>15. ASSUME NEW j \in 1 .. n - 1, p > 0, Heap!parent(j) = p
       PROVE  k[Heap!At(f, Heap!parent(p))] <= k[Heap!At(f, j)]
  <2>1. p \in 1 .. n - 1 /\ p # i
    BY <1>5, <1>15
  <2>2. PICK q \in 0 .. n - 1 : q = Heap!parent(p) /\ q < p
    BY <2>1, ParentIsAPlace
  <2>3. Heap!At(f, q) = Heap!At(g, q) /\ k[Heap!At(g, q)] <= k[Heap!At(g, p)]
    BY <1>5, <1>8, <1>12, <2>1, <2>2
  <2>4. CASE j = i
    BY <1>8, <2>2, <2>3, <2>4
  <2>5. CASE j # i
    <3>1. j # p /\ j \in 0 .. n - 1
      BY <1>15, ParentIsAPlace
    <3>2. Heap!At(f, j) = Heap!At(g, j) /\ k[Heap!At(g, p)] <= k[Heap!At(g, j)]
      BY <1>8, <1>12, <1>15, <2>5, <3>1
    <3>3. k[Heap!At(g, q)] <= k[Heap!At(g, j)]
      BY <1>11, <2>3, <3>1, <3>2
    <3> QED
      BY <2>2, <2>3, <3>2, <3>3
  <2> QED
    BY <2>4, <2>5
<1>16. GoesUp(k, h, Heap!Raised(k, l))
  BY <1>3, <1>7, <1>8, <1>9, <1>14, <1>15 DEF GoesUp, InOrder, OrderedAround
<1> QED
  BY <1>4, <1>5, <1>7, <1>16

\* The index that sift_down() compares its way to.
LEMMA SmallestIs ==
    ASSUME NEW k, NEW h, Indexed(h), Keyed(k, h), NEW i \in 0 .. Heap!Size(h) - 1
    PROVE  LET s == Heap!SmallestAt(k, h, i)
           IN  /\ s \in 0 .. Heap!Size(h) - 1
               /\ s # i => /\ s > 0 /\ Heap!parent(s) = i /\ i < s
                           /\ k[Heap!At(h, s)] < k[Heap!At(h, i)]
               /\ \A j \in 1 .. Heap!Size(h) - 1 :
                     Heap!parent(j) = i => k[Heap!At(h, s)] <= k[Heap!At(h, j)]
<1>1. PICK n \in Nat : n = Heap!Size(h)
  BY ObjectAt
<1>2. \A m \in 0 .. n - 1 : k[Heap!At(h, m)] \in Int
  BY <1>1, KeysAreNumbers
<1>3. PICK a \in Nat : a = Heap!left(i) /\ Heap!parent(a) = i /\ i < a
  BY DEF Heap!left, Heap!parent
<1>4. PICK b \in Nat : b = Heap!right(i) /\ Heap!parent(b) = i /\ i < b
  BY DEF Heap!right, Heap!parent
<1>5. PICK m : m = Heap!Smaller(k, h, i, a)
  OBVIOUS
<1>6. /\ m \in 0 .. n - 1
      /\ m = i \/ (m = a /\ k[Heap!At(h, a)] < k[Heap!At(h, i)])
      /\ k[Heap!At(h, m)] <= k[Heap!At(h, i)]
      /\ a < n => k[Heap!At(h, m)] <= k[Heap!At(h, a)]
  <2>1. CASE a < n
    <3>1. k[Heap!At(h, a)] \in Int /\ k[Heap!At(h, i)] \in Int /\ a \in 0 .. n - 1
      BY <1>1, <1>2, <2>1
    <3> QED
      BY <1>1, <1>5, <2>1, <3>1 DEF Heap!Smaller, Heap!Less
  <2>2. CASE ~ a < n
    BY <1>1, <1>2, <1>5, <2>2 DEF Heap!Smaller
  <2> QED
    BY <2>1, <2>2
<1>7. PICK s : s = Heap!Smaller(k, h, m, b)
  OBVIOUS
<1>8. /\ s \in 0 .. n - 1
      /\ s = m \/ (s = b /\ k[Heap!At(h, b)] < k[Heap!At(h, m)])
      /\ k[Heap!At(h, s)] <= k[Heap!At(h, m)]
      /\ b < n => k[Heap!At(h, s)] <= k[Heap!At(h, b)]
  <2>1. CASE b < n
    <3>1. k[Heap!At(h, b)] \in Int /\ k[Heap!At(h, m)] \in Int /\ b \in 0 .. n - 1
      BY <1>2, <1>6, <2>1
    <3> QED
      BY <1>1, <1>6, <1>7, <2>1, <3>1 DEF Heap!Smaller, Heap!Less
  <2>2. CASE ~ b < n
    BY <1>1, <1>2, <1>6, <1>7, <2>2 DEF Heap!Smaller
  <2> QED
    BY <2>1, <2>2
<1>9. Heap!SmallestAt(k, h, i) = s
  BY <1>3, <1>4, <1>5, <1>7 DEF Heap!SmallestAt
<1>10. /\ k[Heap!At(h, s)] \in Int /\ k[Heap!At(h, m)] \in Int /\ k[Heap!At(h, i)] \in Int
       /\ a < n => k[Heap!At(h, a)] \in Int
       /\ b < n => k[Heap!At(h, b)] \in Int
  BY <1>1, <1>2, <1>6, <1>8
<1>11. ASSUME s # i
       PROVE  s > 0 /\ Heap!parent(s) = i /\ i < s /\ k[Heap!At(h, s)] < k[Heap!At(h, i)]
  <2>1. CASE s = m
    BY <1>3, <1>6, <1>11, <2>1
  <2>2. CASE s = b /\ k[Heap!At(h, b)] < k[Heap!At(h, m)]
    <3>1. k[Heap!At(h, s)] < k[Heap!At(h, i)]
      BY <1>6, <1>10, <2>2
    <3> QED
      BY <1>4, <2>2, <3>1
  <2> QED
    BY <1>8, <2>1, <2>2
<1>12. ASSUME NEW j \in 1 .. n - 1, Heap!parent(j) = i
       PROVE  k[Heap!At(h, s)] <= k[Heap!At(h, j)]
  <2>1. j = a \/ j = b
    BY <1>3, <1>4, <1>12, ParentIs
  <2>2. CASE j = a
    <3>1. a < n
      BY <2>2
    <3> QED
      BY <1>6, <1>8, <1>10, <2>2, <3>1
  <2>3. CASE j = b
    BY <1>8, <2>3
  <2> QED
    BY <2>1, <2>2, <2>3
<1> QED
  BY <1>1, <1>8, <1>9, <1>11, <1>12

\* A round of sift_down().
LEMMA LoweredCorrect ==
    ASSUME NEW k, NEW h, Keyed(k, h), NEW l, GoesDown(k, h, l),
           Heap!SmallestAt(k, l.h, l.i) # l.i
    PROVE  GoesDown(k, h, Heap!Lowered(k, l)) /\ Heap!Lowered(k, l).i > l.i
<1>1. /\ l \in Loops
      /\ Indexed(l.h) /\ Heap!Size(l.h) = Heap!Size(h) /\ Heap!Members(l.h) = Heap!Members(h)
      /\ l.i \in 0 .. Heap!Size(h) - 1
  BY DEF GoesDown, SameMembers
<1>2. PICK g : g = l.h
  OBVIOUS
<1>3. PICK n \in Nat : n = Heap!Size(g) /\ n = Heap!Size(h)
  BY <1>1, <1>2, ObjectAt
<1>4. PICK i \in 0 .. n - 1 : i = l.i
  BY <1>1, <1>3
<1>5. Indexed(g) /\ Keyed(k, g) /\ Heap!Members(g) = Heap!Members(h)
  BY <1>1, <1>2 DEF Keyed
<1>6. PICK s \in 1 .. n - 1 : /\ s = Heap!SmallestAt(k, g, i)
                              /\ Heap!parent(s) = i /\ i < s
                              /\ k[Heap!At(g, s)] < k[Heap!At(g, i)]
                              /\ \A j \in 1 .. n - 1 : Heap!parent(j) = i
                                   => k[Heap!At(g, s)] <= k[Heap!At(g, j)]
  <2>1. PICK s : s = Heap!SmallestAt(k, g, i)
    OBVIOUS
  <2>2. s # i
    BY <1>2, <1>4, <2>1
  <2>3. i \in 0 .. Heap!Size(g) - 1
    BY <1>3
  <2>4. /\ s \in 0 .. Heap!Size(g) - 1
        /\ s > 0 /\ Heap!parent(s) = i /\ i < s /\ k[Heap!At(g, s)] < k[Heap!At(g, i)]
        /\ \A j \in 1 .. Heap!Size(g) - 1 : Heap!parent(j) = i
             => k[Heap!At(g, s)] <= k[Heap!At(g, j)]
    BY <1>5, <2>1, <2>2, <2>3, SmallestIs
  <2> QED
    BY <1>3, <2>1, <2>4
<1>7. PICK f : f = Heap!swap_node(g, i, s)
  OBVIOUS
<1>8. Heap!Lowered(k, l) = [h |-> f, i |-> s]
  BY <1>2, <1>4, <1>6, <1>7 DEF Heap!Lowered
<1>9. /\ Indexed(f) /\ Heap!Size(f) = n /\ Heap!Members(f) = Heap!Members(h)
      /\ Heap!At(f, i) = Heap!At(g, s) /\ Heap!At(f, s) = Heap!At(g, i)
      /\ \A m \in 0 .. n - 1 : m # i /\ m # s => Heap!At(f, m) = Heap!At(g, m)
  <2>1. i \in 0 .. Heap!Size(g) - 1 /\ s \in 0 .. Heap!Size(g) - 1 /\ i # s
    BY <1>3, <1>4, <1>6
  <2>2. /\ Indexed(f) /\ Heap!Size(f) = Heap!Size(g) /\ Heap!Members(f) = Heap!Members(g)
        /\ Heap!At(f, i) = Heap!At(g, s) /\ Heap!At(f, s) = Heap!At(g, i)
        /\ \A m \in 0 .. Heap!Size(g) - 1 : m # i /\ m # s => Heap!At(f, m) = Heap!At(g, m)
    BY <1>5, <1>7, <2>1, Swapped
  <2> QED
    BY <1>3, <1>5, <2>2
<1>10. SameMembers(h, Heap!Lowered(k, l))
  <2>1. f \in Heaps
    BY <1>9 DEF Indexed
  <2> QED
    BY <1>3, <1>6, <1>8, <1>9, <2>1 DEF SameMembers, Loops
<1>11. \A m \in 0 .. n - 1 : k[Heap!At(g, m)] \in Int
  BY <1>3, <1>5, KeysAreNumbers
<1>12. \A j \in 1 .. n - 1 : Heap!parent(j) # i
         => k[Heap!At(g, Heap!parent(j))] <= k[Heap!At(g, j)]
  BY <1>2, <1>3, <1>4 DEF GoesDown, InOrder
<1>13. \A j \in 1 .. n - 1 : i > 0 /\ Heap!parent(j) = i
         => k[Heap!At(g, Heap!parent(i))] <= k[Heap!At(g, j)]
  BY <1>1, <1>2, <1>3, <1>4 DEF GoesDown, OrderedAround
<1>14. ASSUME NEW j \in 1 .. n - 1, Heap!parent(j) # s
       PROVE  k[Heap!At(f, Heap!parent(j))] <= k[Heap!At(f, j)]
  <2>1. PICK q \in 0 .. n - 1 : q = Heap!parent(j) /\ q < j /\ j \in 0 .. n - 1
    BY ParentIsAPlace
  <2>2. CASE j = i
    <3>1. k[Heap!At(g, q)] <= k[Heap!At(g, s)]
      BY <1>6, <1>13, <2>1, <2>2
    <3> QED
      BY <1>6, <1>9, <2>1, <2>2, <3>1
  <2>3. CASE j = s
    BY <1>6, <1>9, <1>11, <2>1, <2>3
  <2>4. CASE j # i /\ j # s /\ q = i
    <3>1. Heap!At(f, j) = Heap!At(g, j) /\ k[Heap!At(g, s)] <= k[Heap!At(g, j)]
      BY <1>6, <1>9, <2>1, <2>4
    <3> QED
      BY <1>9, <2>1, <2>4, <3>1
  <2>5. CASE j # i /\ j # s /\ q # i
    BY <1>9, <1>12, <1>14, <2>1, <2>5
  <2> QED
    BY <2>2, <2>3, <2>4, <2>5
<1>15. ASSUME NEW j \in 1 .. n - 1, Heap!parent(j) = s
       PROVE  k[Heap!At(f, Heap!parent(s))] <= k[Heap!At(f, j)]
  <2>1. s < j /\ j \in 0 .. n - 1
    BY <1>15, ParentIsAPlace
  <2>2. k[Heap!At(g, s)] <= k[Heap!At(g, j)]
    BY <1>6, <1>12, <1>15
  <2> QED
    BY <1>6, <1>9, <2>1, <2>2
<1>16. GoesDown(k, h, Heap!Lowered(k, l))
  BY <1>3, <1>8, <1>9, <1>10, <1>14, <1>15 DEF GoesDown, InOrder, OrderedAround
<1> QED
  BY <1>4, <1>6, <1>8, <1>16

\* f is a loop from a by the rounds g.
Follows(f, N, a, g) == f[0] = a /\ \A n \in 1 .. N : f[n] = g[f[n - 1]]

\* The function that the loops are written with exists.
LEMMA Rounds ==
    ASSUME NEW N \in Nat, NEW V, NEW a \in V, NEW g \in [V -> V]
    PROVE  \E f \in [0 .. N -> V] : Follows(f, N, a, g)
<1> DEFINE Good(f, n) == f[0] = a /\ \A m \in 1 .. n : f[m] = g[f[m - 1]]
           S == {n \in 0 .. N : \E f \in [0 .. N -> V] : Good(f, n)}
<1>1. 0 \in S
  <2>1. PICK f : f = [n \in 0 .. N |-> a]
    OBVIOUS
  <2>2. f \in [0 .. N -> V] /\ f[0] = a /\ 1 .. 0 = {}
    BY <2>1
  <2> QED
    BY <2>2
<1>2. ASSUME NEW n \in 0 .. N - 1, n \in S
      PROVE  n + 1 \in S
  <2>1. PICK f \in [0 .. N -> V] : Good(f, n)
    BY <1>2
  <2>2. n \in 0 .. N /\ n + 1 \in 0 .. N
    OBVIOUS
  <2>3. f[n] \in V /\ g[f[n]] \in V
    BY <2>2
  <2>4. PICK e : e = [f EXCEPT ![n + 1] = g[f[n]]]
    OBVIOUS
  <2>5. e \in [0 .. N -> V] /\ e[n + 1] = g[f[n]] /\ \A m \in 0 .. n : e[m] = f[m]
    BY <2>2, <2>3, <2>4
  <2>6. \A m \in 1 .. n + 1 : e[m] = g[e[m - 1]]
    <3>1. ASSUME NEW m \in 1 .. n + 1, m # n + 1
          PROVE  m \in 1 .. n /\ m \in 0 .. n /\ m - 1 \in 0 .. n
      BY <3>1
    <3>2. (n + 1) - 1 = n /\ n \in 0 .. n
      OBVIOUS
    <3> QED
      BY <2>1, <2>5, <3>1, <3>2
  <2>7. Good(e, n + 1)
    BY <2>1, <2>5, <2>6
  <2> QED
    BY <2>2, <2>5, <2>7
<1> HIDE DEF S
<1>3. \A n \in 0 .. N - 1 : n \in S => n + 1 \in S
  BY <1>2
<1>4. N \in S
  <2>1. \A n \in 0 .. N : n \in S
    BY <1>1, <1>3, UpTo
  <2> QED
    BY <2>1
<1> QED
  BY <1>4 DEF S, Follows

\* When sift_up() stops, the heap is in order.
LEMMA RaisedEnough ==
    ASSUME NEW k, NEW h, Keyed(k, h), NEW l, GoesUp(k, h, l),
           ~ (l.i > 0 /\ Heap!Less(k, l.h, l.i, Heap!parent(l.i)))
    PROVE  Ordered(k, l.h)
<1>1. /\ Indexed(l.h) /\ Keyed(k, l.h) /\ Heap!Size(l.h) = Heap!Size(h)
      /\ l.i \in 0 .. Heap!Size(l.h) - 1
  BY DEF GoesUp, SameMembers, Keyed
<1>2. PICK n \in Nat : n = Heap!Size(l.h)
  BY <1>1, ObjectAt
<1>3. ASSUME NEW j \in 1 .. n - 1 PROVE InOrder(k, l.h, j)
  <2>1. CASE j # l.i
    BY <1>1, <1>2, <2>1 DEF GoesUp
  <2>2. CASE j = l.i
    <3>1. Heap!parent(j) \in 0 .. n - 1 /\ j \in 0 .. n - 1
      BY ParentIsAPlace
    <3>2. k[Heap!At(l.h, Heap!parent(j))] \in Int /\ k[Heap!At(l.h, j)] \in Int
      BY <1>1, <1>2, <3>1, KeysAreNumbers
    <3>3. ~ (k[Heap!At(l.h, j)] < k[Heap!At(l.h, Heap!parent(j))])
      BY <2>2 DEF Heap!Less
    <3> QED
      BY <3>2, <3>3 DEF InOrder
  <2> QED
    BY <2>1, <2>2
<1> QED
  BY <1>2, <1>3 DEF Ordered

\* Where sift_down() stops, the heap is in order.
LEMMA LoweredEnough ==
    ASSUME NEW k, NEW h, Keyed(k, h), NEW l, GoesDown(k, h, l),
           Heap!SmallestAt(k, l.h, l.i) = l.i
    PROVE  Ordered(k, l.h)
<1>1. /\ Indexed(l.h) /\ Keyed(k, l.h) /\ Heap!Size(l.h) = Heap!Size(h)
      /\ l.i \in 0 .. Heap!Size(l.h) - 1
  BY DEF GoesDown, SameMembers, Keyed
<1>2. \A j \in 1 .. Heap!Size(l.h) - 1 : Heap!parent(j) = l.i
        => k[Heap!At(l.h, l.i)] <= k[Heap!At(l.h, j)]
  BY <1>1, SmallestIs
<1>3. \A j \in 1 .. Heap!Size(l.h) - 1 : InOrder(k, l.h, j)
  BY <1>1, <1>2 DEF GoesDown, InOrder
<1> QED
  BY <1>3 DEF Ordered

\* The same objects, in order.
Sorted(k, h, g) ==
    /\ Indexed(g) /\ Heap!Size(g) = Heap!Size(h) /\ Heap!Members(g) = Heap!Members(h)
    /\ Ordered(k, g)

\* i rounds of sift_up() are enough.
LEMMA SiftUpSorts ==
    ASSUME NEW k, NEW h, Keyed(k, h), NEW i \in Nat, GoesUp(k, h, [h |-> h, i |-> i])
    PROVE  Sorted(k, h, Heap!sift_up(k, h, i))
<1> DEFINE a == [h |-> h, i |-> i]
           V == {l \in Loops : GoesUp(k, h, l)}
           g == [l \in V |-> Heap!Raised(k, l)]
           Body(f) == [n \in 0 .. i |-> IF n = 0 THEN a ELSE Heap!Raised(k, f[n - 1])]
           after == CHOOSE f : f = Body(f)
           GoesOn(l) == l.i > 0 /\ Heap!Less(k, l.h, l.i, Heap!parent(l.i))
<1>1. a \in V
  BY DEF GoesUp, SameMembers
<1>2. ASSUME NEW l \in V
      PROVE  /\ Heap!Raised(k, l) \in V
             /\ GoesOn(l) => Heap!Raised(k, l).i < l.i
             /\ ~ GoesOn(l) => Heap!Raised(k, l) = l
             /\ l.i \in Nat
  <2>1. GoesUp(k, h, l) /\ l.i \in Nat
    BY DEF Loops
  <2>2. CASE GoesOn(l)
    <3>1. GoesUp(k, h, Heap!Raised(k, l)) /\ Heap!Raised(k, l).i < l.i
      BY <2>1, <2>2, RaisedCorrect
    <3> QED
      BY <2>1, <2>2, <3>1 DEF GoesUp, SameMembers
  <2>3. CASE ~ GoesOn(l)
    BY <2>1, <2>3 DEF Heap!Raised
  <2> QED
    BY <2>2, <2>3
<1>3. after = Body(after)
  <2>1. g \in [V -> V]
    BY <1>2
  <2>0. PICK f \in [0 .. i -> V] : Follows(f, i, a, g)
    <3> HIDE DEF a, V, g
    <3> QED
      BY <1>1, <2>1, Rounds
  <2>2. f[0] = a /\ \A n \in 1 .. i : f[n] = g[f[n - 1]]
    BY <2>0 DEF Follows
  <2>3. \A n \in 1 .. i : f[n - 1] \in V
    <3>1. \A n \in 1 .. i : n - 1 \in 0 .. i
      OBVIOUS
    <3> HIDE DEF V
    <3> QED
      BY <3>1
  <2>4. \A n \in 1 .. i : f[n] = Heap!Raised(k, f[n - 1])
    BY <2>2, <2>3
  <2>5. f = Body(f)
    <3>1. \A n \in 0 .. i : f[n] = IF n = 0 THEN a ELSE Heap!Raised(k, f[n - 1])
      BY <2>2, <2>4
    <3> HIDE DEF a, V
    <3> QED
      BY <3>1
  <2> QED
    BY <2>5
<1>4. Heap!sift_up(k, h, i) = after[i].h
  BY DEF Heap!sift_up
<1> HIDE DEF after
<1>5. after[0] = a /\ \A n \in 1 .. i : after[n] = Heap!Raised(k, after[n - 1])
  BY <1>3
<1> DEFINE S == {n \in 0 .. i : after[n] \in V /\ (GoesOn(after[n]) => after[n].i + n <= i)}
<1> HIDE DEF V
<1>6. 0 \in S
  BY <1>1, <1>5
<1>7. ASSUME NEW n \in 0 .. i - 1, n \in S PROVE n + 1 \in S
  <2>1. n + 1 \in 1 .. i /\ (n + 1) - 1 = n
    OBVIOUS
  <2>2. after[n + 1] = Heap!Raised(k, after[n])
    BY <1>5, <2>1
  <2>3. PICK l \in V : l = after[n] /\ (GoesOn(l) => l.i + n <= i)
    BY <1>7
  <2>4. PICK e \in V : e = Heap!Raised(k, l)
    BY <1>2
  <2> HIDE DEF GoesOn
  <2>5. CASE GoesOn(l)
    <3>1. e.i < l.i /\ l.i \in Nat /\ e.i \in Nat
      BY <1>2, <2>4, <2>5
    <3>2. e.i + (n + 1) <= i
      BY <2>3, <2>5, <3>1
    <3> QED
      BY <2>1, <2>2, <2>3, <2>4, <3>2
  <2>6. CASE ~ GoesOn(l)
    <3>1. e = l
      BY <1>2, <2>4, <2>6
    <3> QED
      BY <2>1, <2>2, <2>3, <2>4, <2>6, <3>1
  <2> QED
    BY <2>5, <2>6
<1>8. i \in S
  <2> HIDE DEF S
  <2>1. \A n \in 0 .. i : n \in S
    BY <1>6, <1>7, UpTo
  <2> QED
    BY <2>1
<1>9. PICK l \in V : l = after[i] /\ (GoesOn(l) => l.i + i <= i)
  BY <1>8
<1>10. GoesUp(k, h, l) /\ l.i \in Nat
  BY <1>2 DEF V
<1>11. ~ GoesOn(l)
  BY <1>9, <1>10
<1>12. Ordered(k, l.h)
  BY <1>10, <1>11, RaisedEnough
<1> QED
  BY <1>4, <1>9, <1>10, <1>12 DEF Sorted, GoesUp, SameMembers

\* As many rounds of sift_down() as there are objects are enough.
LEMMA SiftDownSorts ==
    ASSUME NEW k, NEW h, Keyed(k, h), NEW i \in Nat, GoesDown(k, h, [h |-> h, i |-> i])
    PROVE  Sorted(k, h, Heap!sift_down(k, h, i))
<1> DEFINE N == Heap!Size(h)
           a == [h |-> h, i |-> i]
           V == {l \in Loops : GoesDown(k, h, l)}
           g == [l \in V |-> Heap!Lowered(k, l)]
           Body(f) == [n \in 0 .. N |-> IF n = 0 THEN a ELSE Heap!Lowered(k, f[n - 1])]
           after == CHOOSE f : f = Body(f)
           GoesOn(l) == Heap!SmallestAt(k, l.h, l.i) # l.i
<1>1. a \in V
  BY DEF GoesDown, SameMembers
<1>2. ASSUME NEW l \in V
      PROVE  /\ Heap!Lowered(k, l) \in V
             /\ GoesOn(l) => Heap!Lowered(k, l).i > l.i
             /\ ~ GoesOn(l) => Heap!Lowered(k, l) = l
             /\ l.i \in Nat /\ l.i \in 0 .. N - 1
  <2>1. GoesDown(k, h, l) /\ l.i \in Nat /\ l.i \in 0 .. N - 1
    BY DEF Loops, GoesDown, SameMembers
  <2>2. CASE GoesOn(l)
    <3>1. GoesDown(k, h, Heap!Lowered(k, l)) /\ Heap!Lowered(k, l).i > l.i
      BY <2>1, <2>2, LoweredCorrect
    <3> QED
      BY <2>1, <2>2, <3>1 DEF GoesDown, SameMembers
  <2>3. CASE ~ GoesOn(l)
    BY <2>1, <2>3 DEF Heap!Lowered
  <2> QED
    BY <2>2, <2>3
<1>0. N \in Nat
  <2>1. Indexed(h)
    BY DEF GoesDown, SameMembers
  <2> QED
    BY <2>1 DEF Indexed, Heaps, Heap!Size
<1>3. after = Body(after)
  <2>1. g \in [V -> V]
    BY <1>2
  <2>2. PICK f \in [0 .. N -> V] : Follows(f, N, a, g)
    <3> HIDE DEF N, a, V, g
    <3> QED
      BY <1>0, <1>1, <2>1, Rounds
  <2>3. f[0] = a /\ \A n \in 1 .. N : f[n] = g[f[n - 1]]
    BY <2>2 DEF Follows
  <2>4. \A n \in 1 .. N : f[n - 1] \in V
    <3>1. \A n \in 1 .. N : n - 1 \in 0 .. N
      BY <1>0
    <3> HIDE DEF V, N
    <3> QED
      BY <3>1
  <2>5. \A n \in 1 .. N : f[n] = Heap!Lowered(k, f[n - 1])
    BY <2>3, <2>4
  <2>6. f = Body(f)
    <3>1. \A n \in 0 .. N : f[n] = IF n = 0 THEN a ELSE Heap!Lowered(k, f[n - 1])
      BY <1>0, <2>3, <2>5
    <3> HIDE DEF a, V, N
    <3> QED
      BY <3>1
  <2> QED
    BY <2>6
<1>4. Heap!sift_down(k, h, i) = after[N].h
  BY DEF Heap!sift_down
<1> HIDE DEF after
<1>5. after[0] = a /\ \A n \in 1 .. N : after[n] = Heap!Lowered(k, after[n - 1])
  BY <1>0, <1>3
<1> DEFINE S == {n \in 0 .. N : after[n] \in V /\ (GoesOn(after[n]) => after[n].i >= n)}
<1> HIDE DEF V, N
<1>6. 0 \in S
  BY <1>0, <1>1, <1>5
<1>7. ASSUME NEW n \in 0 .. N - 1, n \in S PROVE n + 1 \in S
  <2>1. n + 1 \in 1 .. N /\ (n + 1) - 1 = n
    BY <1>0
  <2>2. after[n + 1] = Heap!Lowered(k, after[n])
    BY <1>5, <2>1
  <2>3. PICK l \in V : l = after[n] /\ (GoesOn(l) => l.i >= n)
    BY <1>7
  <2>4. PICK e \in V : e = Heap!Lowered(k, l)
    BY <1>2
  <2> HIDE DEF GoesOn
  <2>5. CASE GoesOn(l)
    <3>1. e.i > l.i /\ l.i \in Nat /\ e.i \in Nat
      BY <1>2, <2>4, <2>5
    <3>2. e.i >= n + 1
      BY <2>3, <2>5, <3>1
    <3> QED
      BY <2>1, <2>2, <2>3, <2>4, <3>2
  <2>6. CASE ~ GoesOn(l)
    <3>1. e = l
      BY <1>2, <2>4, <2>6
    <3> QED
      BY <2>1, <2>2, <2>3, <2>4, <2>6, <3>1
  <2> QED
    BY <2>5, <2>6
<1>8. N \in S
  <2> HIDE DEF S
  <2>1. \A n \in 0 .. N : n \in S
    BY <1>0, <1>6, <1>7, UpTo
  <2> QED
    BY <1>0, <2>1
<1>9. PICK l \in V : l = after[N] /\ (GoesOn(l) => l.i >= N)
  BY <1>8
<1>10. GoesDown(k, h, l) /\ l.i \in 0 .. N - 1
  BY <1>2 DEF V
<1>11. ~ GoesOn(l)
  BY <1>0, <1>9, <1>10
<1>12. Ordered(k, l.h)
  BY <1>10, <1>11, LoweredEnough
<1> QED
  BY <1>4, <1>9, <1>10, <1>12 DEF Sorted, GoesDown, SameMembers, N

\* sift_up() has nothing to do at the root.
LEMMA SiftUpFromRoot ==
    ASSUME NEW k, NEW h
    PROVE  Heap!sift_up(k, h, 0) = h
<1> DEFINE a == [h |-> h, i |-> 0]
           Body(f) == [n \in 0 .. 0 |-> IF n = 0 THEN a ELSE Heap!Raised(k, f[n - 1])]
           after == CHOOSE f : f = Body(f)
<1>1. PICK f : f = [n \in 0 .. 0 |-> a]
  OBVIOUS
<1>2. f = Body(f)
  BY <1>1
<1>3. after = Body(after)
  BY <1>2
<1>4. Heap!sift_up(k, h, 0) = after[0].h
  BY DEF Heap!sift_up
<1> HIDE DEF after
<1>5. after[0] = a
  BY <1>3
<1> QED
  BY <1>4, <1>5

-----------------------------------------------------------------------------
(* The operations of IntrusiveHeap *)

\* push(): the new object goes to the end and finds its place from there.
LEMMA PushSorts ==
    ASSUME NEW k, NEW h, Indexed(h), Keyed(k, h), Ordered(k, h),
           NEW x \in Heap!Objects, x \notin Heap!Members(h), k[x] \in Int
    PROVE  /\ Indexed(Heap!push(k, h, x))
           /\ Heap!Members(Heap!push(k, h, x)) = Heap!Members(h) \cup {x}
           /\ Ordered(k, Heap!push(k, h, x))
<1>1. h.data \in Seq(Heap!Objects) /\ h.heap_index \in [Heap!Objects -> Int]
  BY DEF Indexed, Heaps
<1>2. PICK n \in Nat : n = Heap!Size(h) /\ n = Len(h.data)
  BY <1>1 DEF Heap!Size
<1>3. PICK g : g = [data |-> Append(h.data, x), heap_index |-> [h.heap_index EXCEPT ![x] = n]]
  OBVIOUS
<1>4. Heap!push(k, h, x) = Heap!sift_up(k, g, n)
  BY <1>2, <1>3 DEF Heap!push
<1>5. /\ g.data \in Seq(Heap!Objects)
      /\ Len(g.data) = n + 1
      /\ g.data[n + 1] = x
      /\ \A m \in 1 .. n : g.data[m] = h.data[m]
  BY <1>1, <1>2, <1>3
<1>6. /\ Heap!Size(g) = n + 1
      /\ Heap!At(g, n) = x
      /\ \A m \in 0 .. n - 1 : Heap!At(g, m) = Heap!At(h, m)
  <2>1. \A m \in 0 .. n - 1 : m + 1 \in 1 .. n
    OBVIOUS
  <2> QED
    BY <1>5, <2>1 DEF Heap!Size, Heap!At
<1>7. /\ g.heap_index \in [Heap!Objects -> Int]
      /\ g.heap_index[x] = n
      /\ \A y \in Heap!Objects : y # x => g.heap_index[y] = h.heap_index[y]
  BY <1>1, <1>3
<1>8. g \in Heaps
  BY <1>3, <1>5, <1>7 DEF Heaps
<1>9. Heap!Members(g) = Heap!Members(h) \cup {x}
  BY <1>7 DEF Heap!Members
<1>10. \A m \in 0 .. n - 1 :
         /\ Heap!At(h, m) \in Heap!Members(h) /\ Heap!At(h, m) \in Heap!Objects
                            /\ h.heap_index[Heap!At(h, m)] = m
  BY <1>2, ObjectAt
<1>11. ASSUME NEW m \in 0 .. n PROVE g.heap_index[Heap!At(g, m)] = m
  <2>1. CASE m = n
    BY <1>6, <1>7, <2>1
  <2>2. CASE m # n
    <3>1. m \in 0 .. n - 1
      BY <2>2
    <3> QED
      BY <1>6, <1>7, <1>10, <3>1
  <2> QED
    BY <2>1, <2>2
<1>12. ASSUME NEW y \in Heap!Members(g)
       PROVE  g.heap_index[y] \in 0 .. n /\ Heap!At(g, g.heap_index[y]) = y
  <2>1. CASE y = x
    BY <1>6, <1>7, <2>1
  <2>2. CASE y # x
    <3>1. y \in Heap!Members(h) /\ y \in Heap!Objects
      BY <1>9, <2>2 DEF Heap!Members
    <3>2. h.heap_index[y] \in 0 .. n - 1 /\ Heap!At(h, h.heap_index[y]) = y
      BY <1>2, <3>1 DEF Indexed
    <3> QED
      BY <1>6, <1>7, <2>2, <3>1, <3>2
  <2> QED
    BY <2>1, <2>2
<1>13. Indexed(g)
  <2>1. (n + 1) - 1 = n
    OBVIOUS
  <2> QED
    BY <1>6, <1>8, <1>11, <1>12, <2>1 DEF Indexed
<1>14. Keyed(k, g)
  BY <1>9 DEF Keyed
<1>15. ASSUME NEW j \in 1 .. n, j # n PROVE InOrder(k, g, j)
  <2>1. j \in 1 .. n - 1
    BY <1>15
  <2>2. Heap!parent(j) \in 0 .. n - 1 /\ j \in 0 .. n - 1
    BY <2>1, ParentIsAPlace
  <2>3. InOrder(k, h, j)
    BY <1>2, <2>1 DEF Ordered
  <2> QED
    BY <1>6, <2>2, <2>3 DEF InOrder
<1>16. ASSUME NEW j \in 1 .. n PROVE Heap!parent(j) # n
  BY ParentIs
<1>17. GoesUp(k, g, [h |-> g, i |-> n])
  <2>1. (n + 1) - 1 = n /\ n \in 0 .. n
    OBVIOUS
  <2> QED
    BY <1>6, <1>8, <1>13, <1>15, <1>16, <2>1 DEF GoesUp, SameMembers, OrderedAround, Loops
<1>18. Sorted(k, g, Heap!sift_up(k, g, n))
  BY <1>14, <1>17, SiftUpSorts
<1> QED
  BY <1>4, <1>9, <1>18 DEF Sorted

\* The root has a smallest key.
LEMMA RootIsLeast ==
    ASSUME NEW k, NEW h, Indexed(h), Keyed(k, h), Ordered(k, h)
    PROVE  \A j \in 0 .. Heap!Size(h) - 1 : k[Heap!At(h, 0)] <= k[Heap!At(h, j)]
<1>1. PICK n \in Nat : n = Heap!Size(h)
  BY DEF Indexed, Heaps, Heap!Size
<1>2. \A m \in 0 .. n - 1 : k[Heap!At(h, m)] \in Int
  BY <1>1, KeysAreNumbers
<1> DEFINE S == {j \in 0 .. n - 1 : ~ (k[Heap!At(h, 0)] <= k[Heap!At(h, j)])}
<1>3. ASSUME S # {} PROVE FALSE
  <2>1. PICK j \in S : \A i \in S : j <= i
    <3>1. S \in SUBSET Nat
      OBVIOUS
    <3> HIDE DEF S
    <3> QED
      BY <1>3, <3>1, LeastNumber
  <2>2. j # 0 /\ j \in 0 .. n - 1 /\ 0 \in 0 .. n - 1
    BY <1>2
  <2>3. j \in 1 .. n - 1
    BY <2>2
  <2>4. Heap!parent(j) \in 0 .. n - 1 /\ Heap!parent(j) < j
    BY <2>3, ParentIsAPlace
  <2>5. Heap!parent(j) \notin S
    BY <2>1, <2>4
  <2>6. k[Heap!At(h, 0)] <= k[Heap!At(h, Heap!parent(j))]
    BY <2>4, <2>5
  <2>7. k[Heap!At(h, Heap!parent(j))] <= k[Heap!At(h, j)]
    BY <1>1, <2>3 DEF Ordered, InOrder
  <2>8. k[Heap!At(h, 0)] <= k[Heap!At(h, j)]
    BY <1>2, <2>2, <2>4, <2>6, <2>7
  <2> QED
    BY <2>8
<1> QED
  BY <1>1, <1>3

\* update(): an object that got another key finds its place.
LEMMA SiftSorts ==
    ASSUME NEW e, NEW k, NEW h, Indexed(h), Keyed(e, h), Keyed(k, h), Ordered(e, h),
           NEW i \in 0 .. Heap!Size(h) - 1,
           \A y \in Heap!Members(h) : y # Heap!At(h, i) => k[y] = e[y]
    PROVE  Sorted(k, h, Heap!sift(k, h, i))
<1>1. PICK n \in Nat : n = Heap!Size(h)
  BY DEF Indexed, Heaps, Heap!Size
<1>2. \A m \in 0 .. n - 1 : e[Heap!At(h, m)] \in Int /\ k[Heap!At(h, m)] \in Int
  BY <1>1, KeysAreNumbers
<1>3. \A m \in 0 .. n - 1 : m # i => k[Heap!At(h, m)] = e[Heap!At(h, m)]
  <2> SUFFICES ASSUME NEW m \in 0 .. n - 1, m # i PROVE k[Heap!At(h, m)] = e[Heap!At(h, m)]
    OBVIOUS
  <2>1. Heap!At(h, m) # Heap!At(h, i) /\ Heap!At(h, m) \in Heap!Members(h)
    BY <1>1, DifferentObjects, ObjectAt
  <2> QED
    BY <2>1
<1>4. \A j \in 1 .. n - 1 : e[Heap!At(h, Heap!parent(j))] <= e[Heap!At(h, j)]
  BY <1>1 DEF Ordered, InOrder
<1>5. \A j \in 1 .. n - 1 :
        Heap!parent(j) \in 0 .. n - 1 /\ Heap!parent(j) < j /\ j \in 0 .. n - 1
  BY ParentIsAPlace
<1>6. \A j \in 1 .. n - 1 : j # i /\ Heap!parent(j) # i => InOrder(k, h, j)
  BY <1>3, <1>4, <1>5 DEF InOrder
<1>7. OrderedAround(k, h, i)
  <2> SUFFICES ASSUME NEW j \in 1 .. n - 1, i > 0, Heap!parent(j) = i
               PROVE  k[Heap!At(h, Heap!parent(i))] <= k[Heap!At(h, j)]
    BY <1>1 DEF OrderedAround
  <2>1. i \in 1 .. n - 1 /\ j # i
    BY <1>1, <1>5
  <2>2. Heap!parent(i) \in 0 .. n - 1 /\ Heap!parent(i) # i /\ j \in 0 .. n - 1
    BY <1>5, <2>1
  <2>3. /\ e[Heap!At(h, Heap!parent(i))] <= e[Heap!At(h, i)]
        /\ e[Heap!At(h, i)] <= e[Heap!At(h, j)]
    BY <1>4, <2>1
  <2>4. e[Heap!At(h, Heap!parent(i))] <= e[Heap!At(h, j)]
    BY <1>2, <2>2, <2>3, <2>1, <1>5
  <2> QED
    BY <1>3, <2>1, <2>2, <2>4
<1>8. SameMembers(h, [h |-> h, i |-> i])
  BY <1>1 DEF SameMembers, Loops, Indexed
<1>9. CASE Heap!Less(k, h, i, Heap!parent(i))
  <2>1. i > 0
    <3>1. CASE i = 0
      <4>1. Heap!parent(i) = i /\ k[Heap!At(h, i)] \in Int
        BY <1>1, <1>2, <3>1 DEF Heap!parent
      <4> QED
        BY <1>9, <4>1 DEF Heap!Less
    <3> QED
      BY <1>1, <3>1
  <2>2. i \in 1 .. n - 1
    BY <1>1, <2>1
  <2>3. /\ k[Heap!At(h, i)] < k[Heap!At(h, Heap!parent(i))] /\ Heap!parent(i) \in 0 .. n - 1
        /\ Heap!parent(i) # i
    BY <1>5, <1>9, <2>2 DEF Heap!Less
  <2>4. ASSUME NEW j \in 1 .. n - 1, j # i PROVE InOrder(k, h, j)
    <3>1. CASE Heap!parent(j) = i
      <4>1. k[Heap!At(h, Heap!parent(i))] <= k[Heap!At(h, j)]
        BY <1>1, <1>7, <2>1, <3>1 DEF OrderedAround
      <4>2. k[Heap!At(h, i)] <= k[Heap!At(h, j)]
        BY <1>1, <1>2, <1>5, <2>3, <4>1
      <4> QED
        BY <3>1, <4>2 DEF InOrder
    <3> QED
      BY <1>6, <2>4, <3>1
  <2>5. GoesUp(k, h, [h |-> h, i |-> i])
    BY <1>1, <1>7, <1>8, <2>4 DEF GoesUp
  <2>6. Sorted(k, h, Heap!sift_up(k, h, i))
    BY <1>1, <2>5, SiftUpSorts
  <2> QED
    BY <1>9, <2>6 DEF Heap!sift
<1>10. CASE ~ Heap!Less(k, h, i, Heap!parent(i))
  <2>1. ASSUME NEW j \in 1 .. n - 1, Heap!parent(j) # i PROVE InOrder(k, h, j)
    <3>1. CASE j = i
      <4>1. k[Heap!At(h, Heap!parent(j))] \in Int /\ k[Heap!At(h, j)] \in Int
        BY <1>2, <1>5
      <4> QED
        BY <1>10, <3>1, <4>1 DEF Heap!Less, InOrder
    <3> QED
      BY <1>6, <2>1, <3>1
  <2>2. GoesDown(k, h, [h |-> h, i |-> i])
    BY <1>1, <1>7, <1>8, <2>1 DEF GoesDown
  <2>3. Sorted(k, h, Heap!sift_down(k, h, i))
    BY <1>1, <2>2, SiftDownSorts
  <2> QED
    BY <1>10, <2>3 DEF Heap!sift
<1> QED
  BY <1>9, <1>10

\* All but the last element.
LEMMA AllButLast ==
    ASSUME NEW S, NEW s \in Seq(S), Len(s) > 0
    PROVE  /\ Heap!Front(s) \in Seq(S)
           /\ Len(Heap!Front(s)) = Len(s) - 1
           /\ \A m \in 1 .. Len(s) - 1 : Heap!Front(s)[m] = s[m]
           /\ Heap!Last(s) \in S /\ Heap!Last(s) = s[Len(s)]
<1>1. PICK n \in Nat : n = Len(s) /\ n > 0
  OBVIOUS
<1>2. /\ SubSeq(s, 1, n - 1) \in Seq(S)
      /\ Len(SubSeq(s, 1, n - 1)) = n - 1
      /\ \A m \in 1 .. n - 1 : SubSeq(s, 1, n - 1)[m] = s[m]
  <2>1. 1 .. n - 1 \subseteq 1 .. Len(s)
    BY <1>1
  <2> QED
    BY <1>1, <2>1
<1>3. s[n] \in S
  BY <1>1
<1> QED
  BY <1>1, <1>2, <1>3 DEF Heap!Front, Heap!Last

\* The heap without the object at its end.
LEMMA EndTakenOff ==
    ASSUME NEW h, Indexed(h), Heap!Size(h) > 0,
           NEW x, x = Heap!At(h, Heap!Size(h) - 1),
           NEW g,
           g = [data |-> Heap!Front(h.data), heap_index |-> [h.heap_index EXCEPT ![x] = -1]]
    PROVE  /\ Indexed(g)
           /\ Heap!Size(g) = Heap!Size(h) - 1
           /\ Heap!Members(g) = Heap!Members(h) \ {x}
           /\ \A m \in 0 .. Heap!Size(g) - 1 : Heap!At(g, m) = Heap!At(h, m)
<1>1. h.data \in Seq(Heap!Objects) /\ h.heap_index \in [Heap!Objects -> Int]
  BY DEF Indexed, Heaps
<1>2. PICK n \in Nat : n = Heap!Size(h) /\ n = Len(h.data) /\ n > 0
  BY <1>1 DEF Heap!Size
<1>3. /\ g.data \in Seq(Heap!Objects)
      /\ Len(g.data) = n - 1
      /\ \A m \in 1 .. n - 1 : g.data[m] = h.data[m]
  BY <1>1, <1>2, AllButLast
<1>4. /\ Heap!Size(g) = n - 1
      /\ \A m \in 0 .. n - 2 : Heap!At(g, m) = Heap!At(h, m)
  <2>1. \A m \in 0 .. n - 2 : m + 1 \in 1 .. n - 1
    BY <1>2
  <2> QED
    BY <1>3, <2>1 DEF Heap!Size, Heap!At
<1>5. x \in Heap!Objects /\ h.heap_index[x] = n - 1
  <2>1. n - 1 \in 0 .. Heap!Size(h) - 1
    BY <1>2
  <2> QED
    BY <1>2, <2>1, ObjectAt
<1>6. /\ g.heap_index \in [Heap!Objects -> Int]
      /\ g.heap_index[x] = -1
      /\ \A y \in Heap!Objects : y # x => g.heap_index[y] = h.heap_index[y]
  <2>1. g.heap_index = [h.heap_index EXCEPT ![x] = -1] /\ -1 \in Int
    OBVIOUS
  <2> QED
    BY <1>1, <1>5, <2>1
<1>7. g \in Heaps
  BY <1>3, <1>6 DEF Heaps
<1>8. Heap!Members(g) = Heap!Members(h) \ {x}
  BY <1>6 DEF Heap!Members
<1>9. ASSUME NEW m \in 0 .. n - 2 PROVE g.heap_index[Heap!At(g, m)] = m
  <2>1. m \in 0 .. Heap!Size(h) - 1 /\ m # n - 1
    BY <1>2
  <2>2. Heap!At(h, m) \in Heap!Objects /\ h.heap_index[Heap!At(h, m)] = m
    BY <2>1, ObjectAt
  <2> QED
    BY <1>4, <1>5, <1>6, <2>1, <2>2
<1>10. ASSUME NEW y \in Heap!Members(g)
       PROVE  g.heap_index[y] \in 0 .. n - 2 /\ Heap!At(g, g.heap_index[y]) = y
  <2>1. y \in Heap!Members(h) /\ y \in Heap!Objects /\ y # x
    BY <1>8 DEF Heap!Members
  <2>2. h.heap_index[y] \in 0 .. n - 1 /\ Heap!At(h, h.heap_index[y]) = y
    BY <1>2, <2>1 DEF Indexed
  <2>3. h.heap_index[y] \in 0 .. n - 2
    BY <1>2, <2>1, <2>2
  <2> QED
    BY <1>4, <1>6, <2>1, <2>2, <2>3
<1>11. Indexed(g)
  <2>1. (n - 1) - 1 = n - 2
    BY <1>2
  <2> QED
    BY <1>4, <1>7, <1>9, <1>10, <2>1 DEF Indexed
<1> QED
  BY <1>2, <1>4, <1>8, <1>11

\* pop(): the root goes, and the object that takes its place finds its own.
LEMMA RemoveTopSorts ==
    ASSUME NEW k, NEW h, Indexed(h), Keyed(k, h), Ordered(k, h), Heap!Size(h) > 0
    PROVE  /\ Indexed(Heap!remove_top(k, h))
           /\ Heap!Members(Heap!remove_top(k, h)) = Heap!Members(h) \ {Heap!At(h, 0)}
           /\ Ordered(k, Heap!remove_top(k, h))
<1>1. h.data \in Seq(Heap!Objects) /\ h.heap_index \in [Heap!Objects -> Int]
  BY DEF Indexed, Heaps
<1>2. PICK n \in Nat : n = Heap!Size(h) /\ n > 0
  BY <1>1 DEF Heap!Size
<1>3. PICK x : x = Heap!At(h, 0)
  OBVIOUS
<1>4. PICK f : f = IF n > 1 THEN Heap!swap_node(h, 0, n - 1) ELSE h
  OBVIOUS
<1>5. /\ Indexed(f) /\ Heap!Size(f) = n /\ Heap!Members(f) = Heap!Members(h)
      /\ Heap!At(f, n - 1) = x
      /\ \A m \in 1 .. n - 2 : Heap!At(f, m) = Heap!At(h, m)
  <2>1. CASE n > 1
    <3>1. 0 \in 0 .. Heap!Size(h) - 1 /\ n - 1 \in 0 .. Heap!Size(h) - 1 /\ 0 # n - 1
      BY <1>2, <2>1
    <3>2. /\ Indexed(f) /\ Heap!Size(f) = Heap!Size(h) /\ Heap!Members(f) = Heap!Members(h)
          /\ Heap!At(f, 0) = Heap!At(h, n - 1) /\ Heap!At(f, n - 1) = Heap!At(h, 0)
          /\ \A m \in 0 .. Heap!Size(h) - 1 : m # 0 /\ m # n - 1
               => Heap!At(f, m) = Heap!At(h, m)
      BY <1>4, <2>1, <3>1, Swapped
    <3> QED
      BY <1>2, <1>3, <3>2
  <2>2. CASE n = 1
    <3>1. f = h /\ n - 1 = 0 /\ 1 .. n - 2 = {}
      BY <1>4, <2>2
    <3> QED
      BY <1>2, <1>3, <3>1
  <2> QED
    BY <1>2, <2>1, <2>2
<1>6. PICK g : g = [data |-> Heap!Front(f.data), heap_index |-> [f.heap_index EXCEPT ![x] = -1]]
  OBVIOUS
<1>7. /\ Indexed(g) /\ Heap!Size(g) = n - 1 /\ Heap!Members(g) = Heap!Members(h) \ {x}
      /\ \A m \in 0 .. n - 2 : Heap!At(g, m) = Heap!At(f, m)
  <2>1. Heap!Size(f) > 0 /\ x = Heap!At(f, Heap!Size(f) - 1)
    BY <1>2, <1>5
  <2>2. /\ Indexed(g)
        /\ Heap!Size(g) = Heap!Size(f) - 1
        /\ Heap!Members(g) = Heap!Members(f) \ {x}
        /\ \A m \in 0 .. Heap!Size(g) - 1 : Heap!At(g, m) = Heap!At(f, m)
    BY <1>5, <1>6, <2>1, EndTakenOff
  <2> QED
    BY <1>2, <1>5, <2>2
<1>8. Heap!remove_top(k, h) = IF Heap!Size(g) > 0
        THEN Heap!sift_up(k, Heap!sift_down(k, g, 0), 0) ELSE g
  BY <1>2, <1>3, <1>4, <1>6 DEF Heap!remove_top
<1>9. CASE n = 1
  <2>1. Heap!remove_top(k, h) = g /\ Heap!Size(g) = 0
    BY <1>7, <1>8, <1>9
  <2> QED
    BY <1>3, <1>7, <2>1 DEF Ordered
<1>10. CASE n > 1
  <2>1. Heap!remove_top(k, h) = Heap!sift_down(k, g, 0)
    BY <1>7, <1>8, <1>10, SiftUpFromRoot
  <2>2. Keyed(k, g)
    BY <1>7 DEF Keyed
  <2>3. ASSUME NEW j \in 1 .. n - 2, Heap!parent(j) # 0
        PROVE  InOrder(k, g, j)
    <3>1. Heap!parent(j) \in 0 .. n - 2 /\ Heap!parent(j) < j /\ j \in 0 .. n - 2
      BY ParentIs
    <3>2. /\ Heap!At(g, j) = Heap!At(h, j)
          /\ Heap!At(g, Heap!parent(j)) = Heap!At(h, Heap!parent(j))
      BY <1>5, <1>7, <2>3, <3>1
    <3>3. InOrder(k, h, j)
      BY <1>2 DEF Ordered
    <3> QED
      BY <3>2, <3>3 DEF InOrder
  <2>4. GoesDown(k, g, [h |-> g, i |-> 0])
    <3>1. (n - 1) - 1 = n - 2 /\ 0 \in 0 .. n - 2
      BY <1>10
    <3>2. g \in Heaps
      BY <1>7 DEF Indexed
    <3> QED
      BY <1>7, <2>3, <3>1, <3>2 DEF GoesDown, SameMembers, OrderedAround, Loops
  <2>5. Sorted(k, g, Heap!sift_down(k, g, 0))
    BY <2>2, <2>4, SiftDownSorts
  <2> QED
    BY <1>3, <1>7, <2>1, <2>5 DEF Sorted
<1> QED
  BY <1>2, <1>9, <1>10

-----------------------------------------------------------------------------
(* The invariant *)

\* IndicesAgree is about the same indices as Indexed.
LEMMA HeapIsIndexed ==
    ASSUME Heap!ConstantsOK, Heap!HeapInvariant
    PROVE  Indexed(Heap!Heap) /\ Keyed(key, Heap!Heap) /\ Ordered(key, Heap!Heap)
<1>1. PICK n \in Nat : n = Len(heap_data) /\ n = Heap!Size(Heap!Heap)
  BY DEF Heap!HeapInvariant, Heap!TypeOK, Heap!Size, Heap!Heap
<1>2. /\ heap_data \in Seq(Heap!Objects) /\ heap_index_ \in [Heap!Objects -> -1 .. n - 1]
      /\ \A i \in 1 .. n : heap_data[i] \in Heap!Objects
  <2>1. heap_data \in Seq(Heap!Objects) /\ heap_index_ \in [Heap!Objects -> -1 .. n - 1]
    BY <1>1 DEF Heap!HeapInvariant, Heap!TypeOK
  <2>2. \A i \in 1 .. Len(heap_data) : heap_data[i] \in Heap!Objects
    BY <2>1
  <2> QED
    BY <1>1, <2>1, <2>2
<1>3. Heap!Heap.data = heap_data /\ Heap!Heap.heap_index = heap_index_ /\ Heap!Heap \in Heaps
  BY <1>1, <1>2 DEF Heap!Heap, Heaps
<1>4. \A i \in 0 .. n - 1 : Heap!At(Heap!Heap, i) \in Heap!Objects
  <2>1. \A i \in 0 .. n - 1 : i + 1 \in 1 .. n
    BY <1>1
  <2> QED
    BY <1>2, <1>3, <2>1 DEF Heap!At
<1>5. \A x \in Heap!Objects, i \in 0 .. n - 1 : heap_index_[x] = i <=> Heap!At(Heap!Heap, i) = x
  BY <1>1 DEF Heap!HeapInvariant, Heap!IndicesAgree
<1>6. Indexed(Heap!Heap)
  <2>1. \A i \in 0 .. n - 1 : heap_index_[Heap!At(Heap!Heap, i)] = i
    BY <1>4, <1>5
  <2>2. ASSUME NEW x \in Heap!Members(Heap!Heap)
        PROVE  heap_index_[x] \in 0 .. n - 1 /\ Heap!At(Heap!Heap, heap_index_[x]) = x
    <3>1. x \in Heap!Objects /\ heap_index_[x] # -1
      BY <1>3 DEF Heap!Members
    <3>2. heap_index_[x] \in 0 .. n - 1
      BY <1>2, <3>1
    <3> QED
      BY <1>5, <3>1, <3>2
  <2> QED
    BY <1>1, <1>3, <2>1, <2>2 DEF Indexed
<1>7. Keyed(key, Heap!Heap)
  <2> SUFFICES ASSUME NEW x \in Heap!Members(Heap!Heap) PROVE key[x] \in Int
    BY DEF Keyed
  <2>1. x \in Heap!Objects /\ heap_index_[x] # -1
    BY <1>3 DEF Heap!Members
  <2>2. key[x] \in Keys
    BY <2>1 DEF Heap!HeapInvariant, Heap!TypeOK
  <2> QED
    BY <2>2 DEF Heap!ConstantsOK
<1>8. Ordered(key, Heap!Heap)
  <2> SUFFICES ASSUME NEW j \in 1 .. n - 1 PROVE InOrder(key, Heap!Heap, j)
    BY <1>1 DEF Ordered
  <2>1. ~ Heap!Less(key, Heap!Heap, j, Heap!parent(j))
    BY <1>1 DEF Heap!HeapInvariant, Heap!ParentsFirst
  <2>2. Heap!parent(j) \in 0 .. n - 1 /\ j \in 0 .. n - 1
    BY <1>1, ParentIsAPlace
  <2>3. key[Heap!At(Heap!Heap, Heap!parent(j))] \in Int /\ key[Heap!At(Heap!Heap, j)] \in Int
    BY <1>1, <1>6, <1>7, <2>2, KeysAreNumbers
  <2> QED
    BY <2>1, <2>3 DEF Heap!Less, InOrder
<1> QED
  BY <1>6, <1>7, <1>8

\* The other way round, for a heap that an operation returns.
LEMMA IndexedHeapIs ==
    ASSUME NEW k, NEW h, Indexed(h), Keyed(k, h), Ordered(k, h)
    PROVE  /\ h.data \in Seq(Heap!Objects)
           /\ h.heap_index \in [Heap!Objects -> -1 .. Len(h.data) - 1]
           /\ \A x \in Heap!Objects, i \in 0 .. Len(h.data) - 1 :
                h.heap_index[x] = i <=> Heap!At(h, i) = x
           /\ \A i \in 1 .. Len(h.data) - 1 : ~ Heap!Less(k, h, i, Heap!parent(i))
<1>1. h.data \in Seq(Heap!Objects) /\ h.heap_index \in [Heap!Objects -> Int]
  BY DEF Indexed, Heaps
<1>2. PICK n \in Nat : n = Len(h.data) /\ n = Heap!Size(h)
  BY <1>1 DEF Heap!Size
<1>3. ASSUME NEW x \in Heap!Objects
      PROVE  \/ h.heap_index[x] = -1
             \/ h.heap_index[x] \in 0 .. n - 1 /\ Heap!At(h, h.heap_index[x]) = x
  BY <1>2 DEF Indexed, Heap!Members
<1>4. h.heap_index \in [Heap!Objects -> -1 .. n - 1]
  <2>1. \A x \in Heap!Objects : h.heap_index[x] \in -1 .. n - 1
    BY <1>2, <1>3
  <2> QED
    BY <1>1, <2>1
<1>5. ASSUME NEW x \in Heap!Objects, NEW i \in 0 .. n - 1
      PROVE  h.heap_index[x] = i <=> Heap!At(h, i) = x
  <2>1. h.heap_index[Heap!At(h, i)] = i /\ i # -1
    BY <1>2 DEF Indexed
  <2> QED
    BY <1>3, <2>1
<1>6. ASSUME NEW i \in 1 .. n - 1 PROVE ~ Heap!Less(k, h, i, Heap!parent(i))
  <2>1. Heap!parent(i) \in 0 .. n - 1 /\ i \in 0 .. n - 1
    BY <1>2, ParentIsAPlace
  <2>2. k[Heap!At(h, Heap!parent(i))] \in Int /\ k[Heap!At(h, i)] \in Int
    BY <1>2, <2>1, KeysAreNumbers
  <2>3. InOrder(k, h, i)
    BY <1>2 DEF Ordered
  <2> QED
    BY <2>2, <2>3 DEF InOrder, Heap!Less
<1> QED
  BY <1>1, <1>2, <1>4, <1>5, <1>6

\* A step that leaves the heap in order and the pool with the other objects.
LEMMA HeapInvariantAfter ==
    ASSUME NEW h, Indexed(h), Keyed(key', h), Ordered(key', h), Heap!HeapBecomes(h),
           num_blocks' \in 0 .. MaxBlocks,
           key' \in [Heap!Objects -> Keys \cup {NoKey}],
           \A x \in Heap!Objects : key'[x] = NoKey <=> x \notin Heap!Members(h),
           free_list_' \in Seq(Heap!Objects),
           Heap!IsInjective(free_list_'),
           Heap!Range(free_list_') = Heap!Created' \ Heap!Members(h),
           Heap!Members(h) \subseteq Heap!Created'
    PROVE  Heap!HeapInvariant' /\ Heap!Members(Heap!Heap)' = Heap!Members(h)
<1>1. heap_data' = h.data /\ heap_index_' = h.heap_index
  BY DEF Heap!HeapBecomes
<1>2. Heap!Heap' = h
  <2>1. h = [data |-> h.data, heap_index |-> h.heap_index]
    BY DEF Indexed, Heaps
  <2> QED
    BY <1>1, <2>1 DEF Heap!Heap
<1>3. Heap!Members(Heap!Heap)' = Heap!Members(h)
  BY <1>2 DEF Heap!Members, Heap!Objects
<1>4. /\ h.data \in Seq(Heap!Objects)
      /\ h.heap_index \in [Heap!Objects -> -1 .. Len(h.data) - 1]
      /\ \A x \in Heap!Objects, i \in 0 .. Len(h.data) - 1 :
           h.heap_index[x] = i <=> Heap!At(h, i) = x
      /\ \A i \in 1 .. Len(h.data) - 1 : ~ Heap!Less(key', h, i, Heap!parent(i))
  BY IndexedHeapIs
<1>5. Heap!TypeOK'
  <2>1. \A x \in Heap!Objects : x \notin Heap!Members(h) <=> h.heap_index[x] = -1
    BY DEF Heap!Members
  <2> QED
    BY <1>1, <1>4, <2>1 DEF Heap!TypeOK
<1>6. Heap!IndicesAgree'
  BY <1>1, <1>2, <1>4 DEF Heap!IndicesAgree
<1>7. Heap!ParentsFirst'
  BY <1>1, <1>2, <1>4 DEF Heap!ParentsFirst, Heap!Less, Heap!At, Heap!parent
<1>8. Heap!PoolHasTheRest'
  BY <1>3 DEF Heap!PoolHasTheRest
<1> QED
  BY <1>3, <1>5, <1>6, <1>7, <1>8 DEF Heap!HeapInvariant

-----------------------------------------------------------------------------
(* The free list *)

\* acquire() takes an object off the free list, which has the others.
LEMMA LastTakenOff ==
    ASSUME NEW S, NEW s \in Seq(S), Len(s) > 0, Heap!IsInjective(s)
    PROVE  /\ Heap!IsInjective(Heap!Front(s))
           /\ Heap!Range(Heap!Front(s)) = Heap!Range(s) \ {Heap!Last(s)}
<1>1. PICK n \in Nat : n = Len(s) /\ n > 0 /\ DOMAIN s = 1 .. n
  OBVIOUS
<1>2. /\ Heap!Front(s) \in Seq(S)
      /\ Len(Heap!Front(s)) = n - 1
      /\ \A m \in 1 .. n - 1 : Heap!Front(s)[m] = s[m]
      /\ Heap!Last(s) = s[n]
  BY <1>1, AllButLast
<1>3. PICK f : f = Heap!Front(s) /\ DOMAIN f = 1 .. n - 1 /\ \A m \in 1 .. n - 1 : f[m] = s[m]
  BY <1>1, <1>2
<1>4. \A a, b \in 1 .. n : s[a] = s[b] => a = b
  BY <1>1 DEF Heap!IsInjective
<1>5. \A m \in 1 .. n - 1 : m \in 1 .. n /\ m # n
  BY <1>1
<1>6. Heap!IsInjective(f)
  BY <1>3, <1>4, <1>5 DEF Heap!IsInjective
<1>7. Heap!Range(f) = Heap!Range(s) \ {s[n]}
  <2>1. Heap!Range(f) = {s[m] : m \in 1 .. n - 1}
    BY <1>3 DEF Heap!Range
  <2>2. Heap!Range(s) = {s[m] : m \in 1 .. n}
    BY <1>1 DEF Heap!Range
  <2>3. \A m \in 1 .. n - 1 : s[m] # s[n]
    BY <1>1, <1>4, <1>5
  <2>4. \A m \in 1 .. n : m = n \/ m \in 1 .. n - 1
    BY <1>1
  <2> QED
    BY <2>1, <2>2, <2>3, <2>4, <1>5
<1> QED
  BY <1>2, <1>3, <1>6, <1>7

\* release() puts an object into the free list that was not there.
LEMMA PutAtEnd ==
    ASSUME NEW S, NEW s \in Seq(S), Heap!IsInjective(s), NEW x \in S, x \notin Heap!Range(s)
    PROVE  /\ Append(s, x) \in Seq(S)
           /\ Heap!IsInjective(Append(s, x))
           /\ Heap!Range(Append(s, x)) = Heap!Range(s) \cup {x}
<1>1. PICK n \in Nat : n = Len(s) /\ DOMAIN s = 1 .. n
  OBVIOUS
<1>2. PICK f : /\ f = Append(s, x) /\ f \in Seq(S) /\ DOMAIN f = 1 .. n + 1
               /\ f[n + 1] = x /\ \A m \in 1 .. n : f[m] = s[m]
  <2>1. /\ Append(s, x) \in Seq(S) /\ Len(Append(s, x)) = n + 1
        /\ Append(s, x)[n + 1] = x
        /\ \A m \in 1 .. n : Append(s, x)[m] = s[m]
    BY <1>1
  <2>2. DOMAIN Append(s, x) = 1 .. n + 1
    BY <2>1
  <2> QED
    BY <2>1, <2>2
<1>3. \A m \in 1 .. n + 1 : m = n + 1 \/ m \in 1 .. n
  BY <1>1
<1>4. \A m \in 1 .. n : s[m] # x
  BY <1>1 DEF Heap!Range
<1>5. \A a, b \in 1 .. n : s[a] = s[b] => a = b
  BY <1>1 DEF Heap!IsInjective
<1>6. Heap!IsInjective(f)
  BY <1>2, <1>3, <1>4, <1>5 DEF Heap!IsInjective
<1>7. Heap!Range(f) = Heap!Range(s) \cup {x}
  <2>1. Heap!Range(f) = {f[m] : m \in 1 .. n + 1}
    BY <1>2 DEF Heap!Range
  <2>2. Heap!Range(s) = {s[m] : m \in 1 .. n}
    BY <1>1 DEF Heap!Range
  <2>3. n + 1 \in 1 .. n + 1 /\ \A m \in 1 .. n : m \in 1 .. n + 1
    BY <1>1
  <2> QED
    BY <1>2, <1>3, <2>1, <2>2, <2>3
<1> QED
  BY <1>2, <1>6, <1>7

\* n numbers in a row.
LEMMA InARow ==
    ASSUME NEW n \in Nat, NEW a \in Nat, NEW s, s = [i \in 1 .. n |-> a + i - 1]
    PROVE  /\ Len(s) = n
           /\ s \in Seq(Nat)
           /\ Heap!IsInjective(s)
           /\ Heap!Range(s) = a .. a + n - 1
<1>1. s \in Seq(Nat) /\ Len(s) = n
  <2>1. \A i \in 1 .. n : a + i - 1 \in Nat
    OBVIOUS
  <2> QED
    BY <2>1
<1>2. Heap!IsInjective(s)
  BY DEF Heap!IsInjective
<1>3. Heap!Range(s) = a .. a + n - 1
  <2>1. \A x \in a .. a + n - 1 : x - a + 1 \in 1 .. n /\ a + (x - a + 1) - 1 = x
    OBVIOUS
  <2>2. \A i \in 1 .. n : a + i - 1 \in a .. a + n - 1
    OBVIOUS
  <2> QED
    BY <2>1, <2>2 DEF Heap!Range
<1> QED
  BY <1>1, <1>2, <1>3

\* The objects of b blocks.
OfBlocks(b) == 0 .. b * BLOCK - 1

\* A block more adds its objects behind those of the others.
LEMMA MoreBlocks ==
    ASSUME Heap!ConstantsOK, NEW b \in 0 .. MaxBlocks
    PROVE  /\ b * BLOCK \in Nat
           /\ OfBlocks(b) \subseteq Heap!Objects
           /\ (b + 1) * BLOCK = b * BLOCK + BLOCK
<1>1. BLOCK \in Nat /\ BLOCK > 0 /\ MaxBlocks \in Nat
  BY DEF Heap!ConstantsOK
<1>2. b * BLOCK \in Nat /\ b * BLOCK <= BLOCK * MaxBlocks /\ BLOCK * MaxBlocks \in Nat
  BY <1>1
<1>3. (b + 1) * BLOCK = b * BLOCK + BLOCK
  BY <1>1
<1> QED
  BY <1>2, <1>3 DEF OfBlocks, Heap!Objects

\* What acquire() takes its object from, whether or not it makes a block first.
LEMMA AvailableObjects ==
    ASSUME Heap!ConstantsOK, Heap!HeapInvariant, Heap!NeedsToGrow => num_blocks < MaxBlocks,
           NEW b, b = IF Heap!NeedsToGrow THEN num_blocks + 1 ELSE num_blocks
    PROVE  /\ b \in 0 .. MaxBlocks
           /\ Heap!Available \in Seq(Heap!Objects) /\ Len(Heap!Available) > 0
           /\ Heap!IsInjective(Heap!Available)
           /\ Heap!Range(Heap!Available) = OfBlocks(b) \ Heap!Members(Heap!Heap)
           /\ Heap!Members(Heap!Heap) \subseteq OfBlocks(b)
<1>1. /\ BLOCK \in Nat /\ BLOCK > 0 /\ MaxBlocks \in Nat
      /\ num_blocks \in 0 .. MaxBlocks
      /\ free_list_ \in Seq(Heap!Objects)
  BY DEF Heap!ConstantsOK, Heap!HeapInvariant, Heap!TypeOK
<1>2. /\ Heap!IsInjective(free_list_)
      /\ Heap!Range(free_list_) = OfBlocks(num_blocks) \ Heap!Members(Heap!Heap)
      /\ Heap!Members(Heap!Heap) \subseteq OfBlocks(num_blocks)
  BY DEF Heap!HeapInvariant, Heap!PoolHasTheRest, OfBlocks, Heap!Created
<1>3. CASE ~ Heap!NeedsToGrow
  <2>1. Heap!Available = free_list_ /\ free_list_ # <<>> /\ b = num_blocks
    BY <1>3 DEF Heap!Available, Heap!NeedsToGrow
  <2>2. Len(free_list_) > 0
    BY <1>1, <2>1
  <2> QED
    BY <1>1, <1>2, <2>1, <2>2
<1>4. CASE Heap!NeedsToGrow
  <2>1. Heap!Available = Heap!Block(num_blocks) /\ free_list_ = <<>> /\ b = num_blocks + 1
    BY <1>4 DEF Heap!Available, Heap!NeedsToGrow
  <2>2. b \in 0 .. MaxBlocks
    BY <1>1, <1>4, <2>1
  <2>3. PICK a \in Nat : a = num_blocks * BLOCK /\ b * BLOCK = a + BLOCK
    BY <1>1, <2>1, MoreBlocks
  <2>4. /\ Len(Heap!Available) = BLOCK
        /\ Heap!Available \in Seq(Nat)
        /\ Heap!IsInjective(Heap!Available)
        /\ Heap!Range(Heap!Available) = a .. a + BLOCK - 1
    <3>1. Heap!Available = [i \in 1 .. BLOCK |-> a + i - 1]
      BY <2>1, <2>3 DEF Heap!Block
    <3> QED
      BY <1>1, <3>1, InARow
  <2>5. Heap!Members(Heap!Heap) = OfBlocks(num_blocks)
    <3>1. Heap!Range(free_list_) = {}
      BY <2>1 DEF Heap!Range
    <3> QED
      BY <1>2, <3>1
  <2>6. /\ Heap!Range(Heap!Available) = OfBlocks(b) \ Heap!Members(Heap!Heap)
        /\ Heap!Members(Heap!Heap) \subseteq OfBlocks(b)
    BY <1>1, <2>3, <2>4, <2>5 DEF OfBlocks
  <2>7. Heap!Available \in Seq(Heap!Objects)
    <3>1. \A i \in 1 .. BLOCK : Heap!Available[i] \in Heap!Range(Heap!Available)
      BY <1>1, <2>4 DEF Heap!Range
    <3>2. Heap!Range(Heap!Available) \subseteq Heap!Objects
      BY <2>2, <2>6, MoreBlocks
    <3> QED
      BY <2>4, <3>1, <3>2
  <2> QED
    BY <1>1, <2>2, <2>4, <2>6, <2>7
<1> QED
  BY <1>3, <1>4

-----------------------------------------------------------------------------
(* MinHeap: the invariant, and the steps of a priority queue *)

\* The constructor makes the blocks and no member.
LEMMA StartsEmpty ==
    ASSUME Heap!ConstantsOK, Heap!Init
    PROVE  Heap!HeapInvariant /\ Heap!PQ!Init
<1>1. /\ BLOCK \in Nat /\ BLOCK > 0 /\ MaxBlocks \in Nat
      /\ HeapCapacity \in Nat /\ HeapCapacity <= BLOCK * MaxBlocks
  BY DEF Heap!ConstantsOK
<1>2. PICK b : b = Heap!BlocksNeeded
  OBVIOUS
<1>3. b \in 0 .. MaxBlocks
  <2>1. b \in Nat /\ b * BLOCK <= HeapCapacity + BLOCK - 1
    BY <1>1, <1>2 DEF Heap!BlocksNeeded
  <2>2. BLOCK * b < BLOCK * (MaxBlocks + 1)
    BY <1>1, <2>1
  <2>3. b < MaxBlocks + 1
    BY <1>1, <2>1, <2>2
  <2> QED
    BY <1>1, <2>1, <2>3
<1>4. PICK a \in Nat : a = b * BLOCK
  BY <1>3, MoreBlocks
<1>5. /\ free_list_ \in Seq(Heap!Objects) /\ Heap!IsInjective(free_list_)
      /\ Heap!Range(free_list_) = OfBlocks(b)
  <2>1. free_list_ = [i \in 1 .. a |-> 0 + i - 1]
    BY <1>2, <1>4 DEF Heap!Init
  <2>2. /\ Len(free_list_) = a /\ free_list_ \in Seq(Nat) /\ Heap!IsInjective(free_list_)
        /\ Heap!Range(free_list_) = 0 .. 0 + a - 1
    BY <1>4, <2>1, InARow
  <2>3. Heap!Range(free_list_) = OfBlocks(b) /\ OfBlocks(b) \subseteq Heap!Objects
    BY <1>3, <1>4, <2>2, MoreBlocks DEF OfBlocks
  <2>4. \A i \in 1 .. a : free_list_[i] \in Heap!Objects
    BY <2>2, <2>3 DEF Heap!Range
  <2> QED
    BY <1>4, <2>2, <2>3, <2>4
<1>6. /\ heap_data = <<>> /\ num_blocks = b
      /\ heap_index_ = [x \in Heap!Objects |-> -1] /\ key = [x \in Heap!Objects |-> NoKey]
  BY <1>2 DEF Heap!Init
<1>7. Len(heap_data) = 0 /\ heap_data \in Seq(Heap!Objects)
  BY <1>6
<1>8. Heap!TypeOK
  BY <1>3, <1>5, <1>6, <1>7 DEF Heap!TypeOK
<1>9. Heap!IndicesAgree /\ Heap!ParentsFirst
  BY <1>7 DEF Heap!IndicesAgree, Heap!ParentsFirst
<1>10. Heap!Members(Heap!Heap) = {}
  BY <1>6 DEF Heap!Members, Heap!Heap
<1>11. Heap!PoolHasTheRest
  BY <1>5, <1>6, <1>10 DEF Heap!PoolHasTheRest, Heap!Created, OfBlocks
<1>12. Heap!PQ!Init
  BY <1>10 DEF Heap!PQ!Init
<1> QED
  BY <1>8, <1>9, <1>11, <1>12 DEF Heap!HeapInvariant

\* emplace(): an object of the pool becomes a member.
LEMMA EmplaceCorrect ==
    ASSUME Heap!ConstantsOK, Heap!HeapInvariant, NEW k \in Keys, Heap!emplace(k)
    PROVE  Heap!HeapInvariant' /\ Heap!PQ!Emplace(k)
<1>1. Indexed(Heap!Heap) /\ Keyed(key, Heap!Heap) /\ Ordered(key, Heap!Heap)
  BY HeapIsIndexed
<1>2. PICK b : b = IF Heap!NeedsToGrow THEN num_blocks + 1 ELSE num_blocks
  OBVIOUS
<1>3. /\ b \in 0 .. MaxBlocks /\ num_blocks' = b
      /\ Heap!Available \in Seq(Heap!Objects) /\ Len(Heap!Available) > 0
      /\ Heap!IsInjective(Heap!Available)
      /\ Heap!Range(Heap!Available) = OfBlocks(b) \ Heap!Members(Heap!Heap)
      /\ Heap!Members(Heap!Heap) \subseteq OfBlocks(b)
  <2>1. Heap!NeedsToGrow => num_blocks < MaxBlocks
    BY DEF Heap!emplace
  <2>2. num_blocks' = b
    BY <1>2 DEF Heap!emplace
  <2> QED
    BY <1>2, <2>1, <2>2, AvailableObjects
<1>4. PICK x \in Heap!Objects :
             x = Heap!Last(Heap!Available) /\ x \in Heap!Range(Heap!Available)
  <2>1. /\ Heap!Last(Heap!Available) \in Heap!Objects
        /\ Heap!Last(Heap!Available) = Heap!Available[Len(Heap!Available)]
    BY <1>3, AllButLast
  <2>2. Len(Heap!Available) \in DOMAIN Heap!Available
    BY <1>3
  <2> QED
    BY <2>1, <2>2 DEF Heap!Range
<1>5. /\ free_list_' \in Seq(Heap!Objects)
      /\ Heap!IsInjective(free_list_')
      /\ Heap!Range(free_list_') = Heap!Range(Heap!Available) \ {x}
  <2>1. free_list_' = Heap!Front(Heap!Available)
    BY DEF Heap!emplace
  <2> QED
    BY <1>3, <1>4, <2>1, AllButLast, LastTakenOff
<1>6. x \notin Heap!Members(Heap!Heap) /\ x \in OfBlocks(b) /\ heap_index_[x] = -1
  <2>1. x \notin Heap!Members(Heap!Heap) /\ x \in OfBlocks(b)
    BY <1>3, <1>4
  <2> QED
    BY <2>1 DEF Heap!Members, Heap!Heap
<1>7. [Heap!Heap EXCEPT !.heap_index[x] = -1] = Heap!Heap
  <2>1. heap_index_ \in [Heap!Objects -> -1 .. Len(heap_data) - 1]
    BY DEF Heap!HeapInvariant, Heap!TypeOK
  <2>2. [heap_index_ EXCEPT ![x] = -1] = heap_index_
    BY <1>6, <2>1
  <2> QED
    BY <2>2 DEF Heap!Heap
<1>8. PICK h : h = Heap!push(key', Heap!Heap, x)
  OBVIOUS
<1>9. key' = [key EXCEPT ![x] = k] /\ Heap!HeapBecomes(h)
  BY <1>4, <1>7, <1>8 DEF Heap!emplace
<1>10. /\ key' \in [Heap!Objects -> Keys \cup {NoKey}]
       /\ key'[x] = k
       /\ \A y \in Heap!Objects : y # x => key'[y] = key[y]
  BY <1>9 DEF Heap!HeapInvariant, Heap!TypeOK
<1>11. Keyed(key', Heap!Heap) /\ k \in Int
  <2>1. \A y \in Heap!Members(Heap!Heap) : y \in Heap!Objects /\ y # x
    BY <1>6 DEF Heap!Members
  <2> QED
    BY <1>1, <1>10, <2>1 DEF Keyed, Heap!ConstantsOK
<1>12. Ordered(key', Heap!Heap)
  <2> SUFFICES ASSUME NEW j \in 1 .. Heap!Size(Heap!Heap) - 1 PROVE InOrder(key', Heap!Heap, j)
    BY DEF Ordered
  <2>1. PICK n \in Nat : n = Heap!Size(Heap!Heap)
    BY <1>1 DEF Indexed, Heaps, Heap!Size
  <2>2. Heap!parent(j) \in 0 .. n - 1 /\ j \in 0 .. n - 1
    BY <2>1, ParentIsAPlace
  <2>3. /\ Heap!At(Heap!Heap, Heap!parent(j)) \in Heap!Members(Heap!Heap)
        /\ Heap!At(Heap!Heap, Heap!parent(j)) \in Heap!Objects
        /\ Heap!At(Heap!Heap, j) \in Heap!Members(Heap!Heap)
        /\ Heap!At(Heap!Heap, j) \in Heap!Objects
    BY <1>1, <2>1, <2>2, ObjectAt
  <2>4. InOrder(key, Heap!Heap, j)
    BY <1>1 DEF Ordered
  <2> QED
    BY <1>6, <1>10, <2>3, <2>4 DEF InOrder
<1>13. /\ Indexed(h)
       /\ Heap!Members(h) = Heap!Members(Heap!Heap) \cup {x}
       /\ Ordered(key', h)
  BY <1>1, <1>6, <1>8, <1>10, <1>11, <1>12, PushSorts
<1>14. Keyed(key', h)
  BY <1>10, <1>11, <1>13 DEF Keyed
<1>15. \A y \in Heap!Objects : key'[y] = NoKey <=> y \notin Heap!Members(h)
  <2>1. \A y \in Heap!Objects : key[y] = NoKey <=> y \notin Heap!Members(Heap!Heap)
    BY DEF Heap!HeapInvariant, Heap!TypeOK, Heap!Members, Heap!Heap
  <2>2. k # NoKey
    BY DEF Heap!ConstantsOK
  <2> QED
    BY <1>10, <1>13, <2>1, <2>2
<1>16. /\ Heap!Range(free_list_') = Heap!Created' \ Heap!Members(h)
       /\ Heap!Members(h) \subseteq Heap!Created'
  <2>1. Heap!Created' = OfBlocks(b)
    BY <1>3 DEF Heap!Created, OfBlocks
  <2> QED
    BY <1>3, <1>5, <1>6, <1>13, <2>1
<1>17. Heap!HeapInvariant' /\ Heap!Members(Heap!Heap)' = Heap!Members(h)
  BY <1>3, <1>5, <1>9, <1>10, <1>13, <1>14, <1>15, <1>16, HeapInvariantAfter
<1>18. Heap!PQ!Emplace(k)
  <2>1. Heap!Members(Heap!Heap)' = Heap!Members(Heap!Heap) \cup {x}
    BY <1>13, <1>17
  <2>2. \A y \in Heap!Members(Heap!Heap) : y \in Heap!Objects
    BY DEF Heap!Members
  <2> QED
    BY <1>6, <1>10, <2>1, <2>2 DEF Heap!PQ!Emplace
<1> QED
  BY <1>17, <1>18

\* pop(): a member with a smallest key goes back to the pool.
LEMMA PopCorrect ==
    ASSUME Heap!ConstantsOK, Heap!HeapInvariant, Heap!pop
    PROVE  Heap!HeapInvariant' /\ Heap!PQ!Pop
<1>1. Indexed(Heap!Heap) /\ Keyed(key, Heap!Heap) /\ Ordered(key, Heap!Heap)
  BY HeapIsIndexed
<1>2. PICK n \in Nat : n = Heap!Size(Heap!Heap) /\ n > 0
  <2>1. heap_data \in Seq(Heap!Objects) /\ heap_data # <<>>
    BY DEF Heap!HeapInvariant, Heap!TypeOK, Heap!pop
  <2> QED
    BY <2>1 DEF Heap!Size, Heap!Heap
<1>3. PICK x \in Heap!Objects : x = Heap!At(Heap!Heap, 0) /\ x \in Heap!Members(Heap!Heap)
  BY <1>1, <1>2, ObjectAt
<1>4. PICK h : h = Heap!remove_top(key, Heap!Heap)
  OBVIOUS
<1>5. /\ Heap!HeapBecomes(h)
      /\ free_list_' = Append(free_list_, x)
      /\ key' = [key EXCEPT ![x] = NoKey]
      /\ num_blocks' = num_blocks
  BY <1>3, <1>4 DEF Heap!pop
<1>6. Indexed(h) /\ Heap!Members(h) = Heap!Members(Heap!Heap) \ {x} /\ Ordered(key, h)
  BY <1>1, <1>2, <1>3, <1>4, RemoveTopSorts
<1>7. /\ key' \in [Heap!Objects -> Keys \cup {NoKey}]
      /\ key'[x] = NoKey
      /\ \A y \in Heap!Objects : y # x => key'[y] = key[y]
  BY <1>5 DEF Heap!HeapInvariant, Heap!TypeOK
<1>8. \A y \in Heap!Members(h) : y \in Heap!Objects /\ y # x /\ y \in Heap!Members(Heap!Heap)
  BY <1>6 DEF Heap!Members
<1>9. Keyed(key', h)
  BY <1>1, <1>7, <1>8 DEF Keyed
<1>10. Ordered(key', h)
  <2> SUFFICES ASSUME NEW j \in 1 .. Heap!Size(h) - 1 PROVE InOrder(key', h, j)
    BY DEF Ordered
  <2>1. PICK m \in Nat : m = Heap!Size(h)
    BY <1>6 DEF Indexed, Heaps, Heap!Size
  <2>2. Heap!parent(j) \in 0 .. m - 1 /\ j \in 0 .. m - 1
    BY <2>1, ParentIsAPlace
  <2>3. Heap!At(h, Heap!parent(j)) \in Heap!Members(h) /\ Heap!At(h, j) \in Heap!Members(h)
    BY <1>6, <2>1, <2>2, ObjectAt
  <2>4. InOrder(key, h, j)
    BY <1>6 DEF Ordered
  <2> QED
    BY <1>7, <1>8, <2>3, <2>4 DEF InOrder
<1>11. \A y \in Heap!Objects : key'[y] = NoKey <=> y \notin Heap!Members(h)
  <2>1. \A y \in Heap!Objects : key[y] = NoKey <=> y \notin Heap!Members(Heap!Heap)
    BY DEF Heap!HeapInvariant, Heap!TypeOK, Heap!Members, Heap!Heap
  <2> QED
    BY <1>6, <1>7, <2>1
<1>12. /\ num_blocks' \in 0 .. MaxBlocks /\ Heap!Created' = Heap!Created
       /\ free_list_ \in Seq(Heap!Objects) /\ Heap!IsInjective(free_list_)
       /\ Heap!Range(free_list_) = Heap!Created \ Heap!Members(Heap!Heap)
       /\ Heap!Members(Heap!Heap) \subseteq Heap!Created
  BY <1>5 DEF Heap!HeapInvariant, Heap!TypeOK, Heap!PoolHasTheRest, Heap!Created
<1>13. /\ free_list_' \in Seq(Heap!Objects)
       /\ Heap!IsInjective(free_list_')
       /\ Heap!Range(free_list_') = Heap!Range(free_list_) \cup {x}
  <2>1. x \notin Heap!Range(free_list_)
    BY <1>3, <1>12
  <2> QED
    BY <1>5, <1>12, <2>1, PutAtEnd
<1>14. /\ Heap!Range(free_list_') = Heap!Created' \ Heap!Members(h)
       /\ Heap!Members(h) \subseteq Heap!Created'
  BY <1>3, <1>6, <1>12, <1>13
<1>15. Heap!HeapInvariant' /\ Heap!Members(Heap!Heap)' = Heap!Members(h)
  BY <1>5, <1>6, <1>7, <1>9, <1>10, <1>11, <1>12, <1>13, <1>14, HeapInvariantAfter
<1>16. \A y \in Heap!Members(Heap!Heap) : key[x] <= key[y]
  <2> SUFFICES ASSUME NEW y \in Heap!Members(Heap!Heap) PROVE key[x] <= key[y]
    OBVIOUS
  <2>1. PICK i \in 0 .. n - 1 : Heap!At(Heap!Heap, i) = y
    BY <1>1, <1>2 DEF Indexed
  <2>2. \A j \in 0 .. Heap!Size(Heap!Heap) - 1 :
          key[Heap!At(Heap!Heap, 0)] <= key[Heap!At(Heap!Heap, j)]
    BY <1>1, RootIsLeast
  <2> QED
    BY <1>2, <1>3, <2>1, <2>2
<1>17. Heap!PQ!Pop
  <2>1. Heap!Members(Heap!Heap)' = Heap!Members(Heap!Heap) \ {x}
    BY <1>6, <1>15
  <2>2. \A y \in Heap!Members(Heap!Heap) : y \in Heap!Objects
    BY DEF Heap!Members
  <2> QED
    BY <1>3, <1>7, <1>16, <2>1, <2>2 DEF Heap!PQ!Pop
<1> QED
  BY <1>15, <1>17

\* update(): one member has another key.
LEMMA UpdateCorrect ==
    ASSUME Heap!ConstantsOK, Heap!HeapInvariant, NEW k \in Keys, NEW x \in Heap!Objects,
           Heap!update(x, k)
    PROVE  Heap!HeapInvariant' /\ x \in Heap!Members(Heap!Heap) /\ Heap!PQ!Update(x, k)
<1>1. Indexed(Heap!Heap) /\ Keyed(key, Heap!Heap) /\ Ordered(key, Heap!Heap)
  BY HeapIsIndexed
<1>2. x \in Heap!Members(Heap!Heap)
  BY DEF Heap!update, Heap!Members, Heap!Heap
<1>3. PICK i \in 0 .. Heap!Size(Heap!Heap) - 1 : i = heap_index_[x] /\ Heap!At(Heap!Heap, i) = x
  BY <1>1, <1>2 DEF Indexed, Heap!Heap
<1>4. PICK h : h = Heap!sift(key', Heap!Heap, i)
  OBVIOUS
<1>5. /\ Heap!HeapBecomes(h)
      /\ key' = [key EXCEPT ![x] = k]
      /\ free_list_' = free_list_ /\ num_blocks' = num_blocks
  BY <1>3, <1>4 DEF Heap!update
<1>6. /\ key' \in [Heap!Objects -> Keys \cup {NoKey}]
      /\ key'[x] = k
      /\ \A y \in Heap!Objects : y # x => key'[y] = key[y]
  BY <1>5 DEF Heap!HeapInvariant, Heap!TypeOK
<1>7. k \in Int /\ k # NoKey
  BY DEF Heap!ConstantsOK
<1>8. \A y \in Heap!Members(Heap!Heap) : y \in Heap!Objects
  BY DEF Heap!Members
<1>9. Keyed(key', Heap!Heap)
  BY <1>1, <1>6, <1>7, <1>8 DEF Keyed
<1>10. Sorted(key', Heap!Heap, h)
  BY <1>1, <1>3, <1>4, <1>6, <1>8, <1>9, SiftSorts
<1>11. Indexed(h) /\ Heap!Members(h) = Heap!Members(Heap!Heap) /\ Ordered(key', h)
  BY <1>10 DEF Sorted
<1>12. Keyed(key', h)
  BY <1>9, <1>11 DEF Keyed
<1>13. \A y \in Heap!Objects : key'[y] = NoKey <=> y \notin Heap!Members(h)
  <2>1. \A y \in Heap!Objects : key[y] = NoKey <=> y \notin Heap!Members(Heap!Heap)
    BY DEF Heap!HeapInvariant, Heap!TypeOK, Heap!Members, Heap!Heap
  <2> QED
    BY <1>2, <1>6, <1>7, <1>11, <2>1
<1>14. /\ num_blocks' \in 0 .. MaxBlocks
       /\ free_list_' \in Seq(Heap!Objects) /\ Heap!IsInjective(free_list_')
       /\ Heap!Range(free_list_') = Heap!Created' \ Heap!Members(h)
       /\ Heap!Members(h) \subseteq Heap!Created'
  BY <1>5, <1>11 DEF Heap!HeapInvariant, Heap!TypeOK, Heap!PoolHasTheRest, Heap!Created
<1>15. Heap!HeapInvariant' /\ Heap!Members(Heap!Heap)' = Heap!Members(h)
  BY <1>5, <1>6, <1>11, <1>12, <1>13, <1>14, HeapInvariantAfter
<1>16. Heap!PQ!Update(x, k)
  BY <1>2, <1>6, <1>8, <1>11, <1>15 DEF Heap!PQ!Update
<1> QED
  BY <1>2, <1>15, <1>16

\* Every step keeps the invariant, and is one of a priority queue.
LEMMA HeapStep ==
    ASSUME Heap!ConstantsOK, Heap!HeapInvariant, [Heap!Next]_Heap!vars
    PROVE  Heap!HeapInvariant' /\ [Heap!PQ!Next]_[x \in Heap!Members(Heap!Heap) |-> key[x]]
<1>1. ASSUME NEW k \in Keys, Heap!emplace(k)
      PROVE  Heap!HeapInvariant' /\ Heap!PQ!Next
  BY <1>1, EmplaceCorrect DEF Heap!PQ!Next
<1>2. ASSUME NEW k \in Keys, NEW x \in Heap!Objects, Heap!update(x, k)
      PROVE  Heap!HeapInvariant' /\ Heap!PQ!Next
  BY <1>2, UpdateCorrect DEF Heap!PQ!Next
<1>3. ASSUME Heap!pop
      PROVE  Heap!HeapInvariant' /\ Heap!PQ!Next
  BY <1>3, PopCorrect DEF Heap!PQ!Next
<1>4. ASSUME UNCHANGED Heap!vars
      PROVE  Heap!HeapInvariant' /\ UNCHANGED [x \in Heap!Members(Heap!Heap) |-> key[x]]
  BY <1>4
     DEF Heap!vars, Heap!HeapInvariant, Heap!TypeOK, Heap!IndicesAgree, Heap!ParentsFirst,
         Heap!PoolHasTheRest,
              Heap!Members, Heap!Heap, Heap!Created, Heap!Less, Heap!At, Heap!parent
<1> QED
  BY <1>1, <1>2, <1>3, <1>4 DEF Heap!Next

\* Whatever is put in, updated and taken out, no object is lost or out of its
\* place, neither in the heap nor in the pool.
THEOREM HeapInvariantIsInductive == Heap!Spec => []HeapInvariant
<1>1. Heap!Init => HeapInvariant
  BY ContainersAssumption, StartsEmpty DEF HeapInvariant
<1>2. HeapInvariant /\ [Heap!Next]_Heap!vars => HeapInvariant'
  BY ContainersAssumption, HeapStep DEF HeapInvariant
<1> QED
  BY <1>1, <1>2, PTL DEF Heap!Spec

\* The heap is a priority queue.
THEOREM HeapIsAPriorityQueue == Heap!Spec => ImplementsPriorityQueue
<1>1. Heap!Init => Heap!PQ!Init
  BY ContainersAssumption, StartsEmpty
<1>2. HeapInvariant /\ [Heap!Next]_Heap!vars
         => [Heap!PQ!Next]_[x \in Heap!Members(Heap!Heap) |-> key[x]]
  BY ContainersAssumption, HeapStep DEF HeapInvariant
<1> QED
  BY <1>1, <1>2, HeapInvariantIsInductive, PTL
     DEF Heap!Spec, ImplementsPriorityQueue, Heap!ImplementsPriorityQueue, Heap!PQ!Spec

=============================================================================
