----------------------------- MODULE Containers -----------------------------
(***************************************************************************)
(* An instance of each of the sequential containers, for TLC and for the   *)
(* proofs.  They have nothing to do with each other: kind says which one a *)
(* behaviour is about, the others stay in their initial states.  The deque *)
(* is the one that is extended; the constants and variables of the others  *)
(* have names of their own.                                                *)
(***************************************************************************)
EXTENDS Deque

CONSTANTS NULL, FREE, BLANK,                    \* model values
          Keys, NoKey, BLOCK, HeapCapacity, MaxBlocks, \* the heap
          BlockSize, MaxLength,                 \* the chunked vector
          SEG_SIZE, SEG_COUNT,                  \* the queue
          Vectors, DEFAULT, CAPACITY, Buffers, MaxVector \* the vectors

VARIABLES kind,
          heap_data, heap_index_, key, free_list_, num_blocks,
          blocks_, total_size_,
          data, top, bottom, popped, queue_alive,
          heap, vectors_alive, vector_data, vector_size, vector_capacity

dequeVars == <<data_, size_, capacity_, head_, alive>>
heapVars == <<heap_data, heap_index_, key, free_list_, num_blocks>>
chunkVars == <<blocks_, total_size_>>
queueVars == <<data, top, bottom, popped, queue_alive>>
vectorVars == <<heap, vectors_alive, vector_data, vector_size, vector_capacity>>
allVars == <<kind, dequeVars, heapVars, chunkVars, queueVars, vectorVars>>

Heap == INSTANCE MinHeap WITH
            CAPACITY <- HeapCapacity, data_ <- heap_data
Chunks == INSTANCE ChunkedVector WITH MaxSize <- MaxLength
Queue == INSTANCE SegmentedQueue WITH alive <- queue_alive
Vector == INSTANCE Vector WITH
            MaxSize <- MaxVector, alive <- vectors_alive,
            data_ <- vector_data, size_ <- vector_size, capacity_ <- vector_capacity

ASSUME ContainersAssumption ==
    /\ Heap!ConstantsOK
    /\ Chunks!ConstantsOK
    /\ Queue!ConstantsOK
    /\ Vector!ConstantsOK

MCInit ==
    /\ kind \in {"deque", "heap", "chunks", "queue", "vector"}
    /\ Init /\ Heap!Init /\ Chunks!Init /\ Queue!Init /\ Vector!Init

OnlyDeque == kind = "deque"
             /\ UNCHANGED <<kind, heapVars, chunkVars, queueVars, vectorVars>>
OnlyHeap == kind = "heap"
            /\ UNCHANGED <<kind, dequeVars, chunkVars, queueVars, vectorVars>>
OnlyChunks == kind = "chunks"
              /\ UNCHANGED <<kind, dequeVars, heapVars, queueVars, vectorVars>>
OnlyQueue == kind = "queue"
             /\ UNCHANGED <<kind, dequeVars, heapVars, chunkVars, vectorVars>>
OnlyVector == kind = "vector"
              /\ UNCHANGED <<kind, dequeVars, heapVars, chunkVars, queueVars>>

\* The actions of each container one by one, so that TLC counts them.
DequeNext ==
    \/ \E v \in Values : \/ OnlyDeque /\ PushBack(v)
                         \/ OnlyDeque /\ PushBackGrows(v)
    \/ OnlyDeque /\ PopFront
    \/ OnlyDeque /\ Destruct

HeapNext ==
    \/ \E k \in Keys : \/ OnlyHeap /\ Heap!emplace(k)
                       \/ \E x \in Heap!Objects : OnlyHeap /\ Heap!update(x, k)
    \/ OnlyHeap /\ Heap!pop

ChunksNext ==
    \/ \E v \in Values : \/ OnlyChunks /\ Chunks!push_back(v)
                         \/ \E n \in 0 .. MaxLength : OnlyChunks /\ Chunks!Grow(n, v)
    \/ \E n \in 0 .. MaxLength : OnlyChunks /\ Chunks!Shrink(n)
    \/ OnlyChunks /\ Chunks!pop_back
    \/ OnlyChunks /\ Chunks!clear

QueueNext ==
    \/ \E v \in Values : OnlyQueue /\ Queue!push(v)
    \/ OnlyQueue /\ Queue!pop
    \/ OnlyQueue /\ Queue!Destroy

VectorNext ==
    \E o \in Vectors :
        \/ OnlyVector /\ Vector!Construct(o)
        \/ OnlyVector /\ Vector!Destruct(o)
        \/ OnlyVector /\ Vector!PopBack(o)
        \/ OnlyVector /\ Vector!clear(o)
        \/ \E n \in 0 .. MaxVector : OnlyVector /\ Vector!ConstructSized(o, n)
        \/ \E v \in Values : \/ OnlyVector /\ Vector!PushBack(o, v)
                             \/ OnlyVector /\ Vector!PushBackGrows(o, v)
        \/ \E p \in Vectors : \/ OnlyVector /\ Vector!CopyConstruct(o, p)
                              \/ OnlyVector /\ Vector!MoveConstruct(o, p)
                              \/ OnlyVector /\ Vector!CopyAssign(o, p)
                              \/ OnlyVector /\ Vector!MoveAssign(o, p)

MCNext == DequeNext \/ HeapNext \/ ChunksNext \/ QueueNext \/ VectorNext

MCSpec == MCInit /\ [][MCNext]_allVars

\* MinHeap: every object is in its place, in the heap or in the pool.
HeapInvariant == Heap!HeapInvariant

\* MinHeap: pop() takes an object with a smallest key.
ImplementsPriorityQueue == Heap!ImplementsPriorityQueue

\* ChunkedVector: blocks or not, it is one sequence.
ImplementsDynamicArray == Chunks!ImplementsDynamicArray

\* Queue: first in, first out, and the popped item is not written over.
ImplementsHandoutQueue == Queue!ImplementsHandoutQueue

\* Vector: no memory is leaked, shared or used wrongly.
MemoryIsOwned == Vector!MemoryIsOwned

\* Vector: copies are independent, moves complete.
ImplementsValueSequences == Vector!ImplementsValueSequences

=============================================================================
