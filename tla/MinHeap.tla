------------------------------ MODULE MinHeap ------------------------------
(***************************************************************************)
(* MinHeap: a binary heap of objects that know their index in it, over an  *)
(* ObjectPool that hands out their memory, block by block, and takes it    *)
(* back without shrinking.                                                 *)
(*                                                                         *)
(* update(x) is called after the owner of x changed its key; the two are   *)
(* one step, since the heap is used by one thread.                         *)
(*                                                                         *)
(* A definition marked "Variant" is a plausible mistake in the code, kept  *)
(* beside the definition it would replace.  No action uses it.             *)
(***************************************************************************)
EXTENDS Integers, Sequences, SequencesExt

CONSTANTS Keys,             \* integers, compared by <
          NoKey,            \* of an object that is not in the heap
          BLOCK,            \* objects in a block of the pool
          CAPACITY,         \* argument of the constructor
          MaxBlocks         \* bound of the model

\* The constants are meant to be like this.
ConstantsOK ==
    /\ Keys \subseteq Int
    /\ NoKey \notin Keys
    /\ BLOCK \in Nat \ {0}
    /\ MaxBlocks \in Nat
    /\ CAPACITY \in 0 .. BLOCK * MaxBlocks

VARIABLES data_,            \* index -> object
          heap_index_,      \* object -> index, or -1
          key,              \* object in the heap -> key
          free_list_,
          num_blocks

vars == <<data_, heap_index_, key, free_list_, num_blocks>>

Objects == 0 .. BLOCK * MaxBlocks - 1

-----------------------------------------------------------------------------
(* ObjectPool *)

Block(b) == [i \in 1 .. BLOCK |-> b * BLOCK + i - 1]
BlocksNeeded == (CAPACITY + BLOCK - 1) \div BLOCK

Init ==
    /\ data_ = <<>>
    /\ heap_index_ = [x \in Objects |-> -1]
    /\ key = [x \in Objects |-> NoKey]
    /\ num_blocks = BlocksNeeded
    /\ free_list_ = [i \in 1 .. BlocksNeeded * BLOCK |-> i - 1]

\* The free list that acquire() takes its last object from.
NeedsToGrow == free_list_ = <<>>
Available == IF NeedsToGrow THEN Block(num_blocks) ELSE free_list_

-----------------------------------------------------------------------------
(* IntrusiveHeap.  h is a heap: data, its objects by index, and heap_index *)

Size(h) == Len(h.data)
At(h, i) == h.data[i + 1]

\* Division truncates toward zero in C++: the parent of the root is the root.
parent(i) == IF i = 0 THEN 0 ELSE (i - 1) \div 2
left(i) == i * 2 + 1
right(i) == i * 2 + 2

Less(k, h, i, j) == k[At(h, i)] < k[At(h, j)]

\* Variant: the object that moves down is not told.
TellsOne(index, x, i, y, j) == [index EXCEPT ![x] = i]
Told(index, x, i, y, j) == [index EXCEPT ![x] = i, ![y] = j]

swap_node(h, i, j) ==
    [data |-> [h.data EXCEPT ![i + 1] = At(h, j), ![j + 1] = At(h, i)],
     heap_index |-> Told(h.heap_index, At(h, j), i, At(h, i), j)]

\* A round of a loop: h and i before it, or after it.
\* The loop of sift_up().
Raised(k, l) ==
    IF l.i > 0 /\ Less(k, l.h, l.i, parent(l.i))
    THEN [h |-> swap_node(l.h, l.i, parent(l.i)), i |-> parent(l.i)]
    ELSE l

\* i rounds are enough to get to the root.
sift_up(k, h, i) ==
    LET after[n \in 0 .. i] ==
          IF n = 0 THEN [h |-> h, i |-> i] ELSE Raised(k, after[n - 1])
    IN  after[i].h

\* The smallest of i and its children, i where they are equal.
Smaller(k, h, i, j) == IF j < Size(h) /\ Less(k, h, j, i) THEN j ELSE i
SmallestAt(k, h, i) == Smaller(k, h, Smaller(k, h, i, left(i)), right(i))

\* The loop of sift_down().
Lowered(k, l) ==
    LET smallest == SmallestAt(k, l.h, l.i)
    IN  IF smallest = l.i THEN l
        ELSE [h |-> swap_node(l.h, l.i, smallest), i |-> smallest]

\* There are fewer rounds than objects.
sift_down(k, h, i) ==
    LET after[n \in 0 .. Size(h)] ==
          IF n = 0 THEN [h |-> h, i |-> i] ELSE Lowered(k, after[n - 1])
    IN  after[Size(h)].h

push(k, h, x) ==
    sift_up(k, [data |-> Append(h.data, x),
                heap_index |-> [h.heap_index EXCEPT ![x] = Size(h)]], Size(h))

\* remove_at(0): with the last object in its place, down first, then up.
remove_top(k, h) ==
    LET removed == At(h, 0)
        swapped == IF Size(h) > 1 THEN swap_node(h, 0, Size(h) - 1) ELSE h
        rest == [data |-> Front(swapped.data),
                 heap_index |-> [swapped.heap_index EXCEPT ![removed] = -1]]
    IN  IF Size(rest) > 0 THEN sift_up(k, sift_down(k, rest, 0), 0) ELSE rest

\* Variant: an object whose key grew stays where it is.
UpOnly(k, h, i) == sift_up(k, h, i)

\* update()
sift(k, h, i) == IF Less(k, h, i, parent(i)) THEN sift_up(k, h, i) ELSE sift_down(k, h, i)

-----------------------------------------------------------------------------
(* MinHeap *)

Heap == [data |-> data_, heap_index |-> heap_index_]
HeapBecomes(h) == data_' = h.data /\ heap_index_' = h.heap_index

\* A new object is built over whatever its memory held.
emplace(k) ==
    /\ NeedsToGrow => num_blocks < MaxBlocks
    /\ num_blocks' = IF NeedsToGrow THEN num_blocks + 1 ELSE num_blocks
    /\ free_list_' = Front(Available)
    /\ LET obj == Last(Available)
           built == [Heap EXCEPT !.heap_index[obj] = -1]
       IN  /\ key' = [key EXCEPT ![obj] = k]
           /\ HeapBecomes(push(key', built, obj))

pop ==
    /\ data_ # <<>>
    /\ HeapBecomes(remove_top(key, Heap))
    /\ free_list_' = Append(free_list_, At(Heap, 0))
    /\ key' = [key EXCEPT ![At(Heap, 0)] = NoKey]
    /\ UNCHANGED num_blocks

update(x, k) ==
    /\ heap_index_[x] # -1
    /\ key' = [key EXCEPT ![x] = k]
    /\ HeapBecomes(sift(key', Heap, heap_index_[x]))
    /\ UNCHANGED <<free_list_, num_blocks>>

Next ==
    \/ \E k \in Keys : emplace(k) \/ \E x \in Objects : update(x, k)
    \/ pop

Spec == Init /\ [][Next]_vars

-----------------------------------------------------------------------------
(* Properties *)

Members(h) == {x \in Objects : h.heap_index[x] # -1}
Created == 0 .. num_blocks * BLOCK - 1

TypeOK ==
    /\ num_blocks \in 0 .. MaxBlocks
    /\ data_ \in Seq(Objects)
    /\ heap_index_ \in [Objects -> -1 .. Len(data_) - 1]
    /\ key \in [Objects -> Keys \cup {NoKey}]
    /\ \A x \in Objects : key[x] = NoKey <=> heap_index_[x] = -1
    /\ free_list_ \in Seq(Objects)

\* Every object knows where it is.
IndicesAgree ==
    \A x \in Objects, i \in 0 .. Len(data_) - 1 : heap_index_[x] = i <=> At(Heap, i) = x

ParentsFirst == \A i \in 1 .. Len(data_) - 1 : ~ Less(key, Heap, i, parent(i))

\* An object that the pool created is in the heap or, once, in the free list.
PoolHasTheRest ==
    /\ IsInjective(free_list_)
    /\ Range(free_list_) = Created \ Members(Heap)
    /\ Members(Heap) \subseteq Created

\* heap_index_ is right for every object, no object comes before its parent,
\* and the pool and the heap share the objects with none lost and none in
\* both, after any sequence of emplace(), pop() and update().
HeapInvariant == TypeOK /\ IndicesAgree /\ ParentsFirst /\ PoolHasTheRest

PQ == INSTANCE PriorityQueue WITH members <- [x \in Members(Heap) |-> key[x]]

\* pop() takes an object with a smallest key, whatever was updated before,
\* the others stay where they are, and no object is handed out twice.
ImplementsPriorityQueue == PQ!Spec

=============================================================================
