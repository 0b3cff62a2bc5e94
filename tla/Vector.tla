------------------------------- MODULE Vector -------------------------------
(***************************************************************************)
(* Vector: elements in raw memory that is allocated, replaced by a larger  *)
(* piece, copied, and passed from one vector to another.  Several vectors  *)
(* share the heap, and an address may be used again once it is free.       *)
(*                                                                         *)
(* An element that was moved from is destroyed in the same operation.      *)
(* push_back() and emplace_back() differ in how the element is made only.  *)
(*                                                                         *)
(* A definition marked "Variant" is a plausible mistake in the code, kept  *)
(* beside the definition it would replace.  No action uses it.             *)
(***************************************************************************)
EXTENDS Integers, Sequences

CONSTANTS Vectors, Values,
          DEFAULT,              \* what T's constructor makes
          CAPACITY,
          Buffers,              \* addresses
          NULL,                 \* nullptr
          RAW,                  \* memory without an element in it
          FREE,                 \* memory that is not allocated
          MaxSize               \* bound of the model

\* The constants are meant to be like this.
ConstantsOK ==
    /\ DEFAULT \in Values
    /\ RAW \notin Values
    /\ FREE \notin Seq(Values \cup {RAW})
    /\ NULL \notin Buffers
    /\ {CAPACITY, MaxSize} \subseteq Nat

VARIABLES heap,             \* address -> what is in the memory there, or FREE
          alive,            \* the vectors that are constructed
          data_, size_, capacity_

vars == <<heap, alive, data_, size_, capacity_>>

Init ==
    /\ heap = [b \in Buffers |-> FREE]
    /\ alive = {}
    /\ data_ = [o \in Vectors |-> NULL]
    /\ size_ = [o \in Vectors |-> 0]
    /\ capacity_ = [o \in Vectors |-> 0]

\* operator delete(); destroy_all() came before it.
Deleted(h, b) == IF b = NULL THEN h ELSE [h EXCEPT ![b] = FREE]

\* allocate(n): where the memory may be.
Allocatable(h, n) == IF n = 0 THEN {NULL} ELSE {b \in Buffers : h[b] = FREE}

\* Memory for cap elements, with the sequence s at its front.
Buffer(s, cap) == [i \in 1 .. cap |-> IF i <= Len(s) THEN s[i] ELSE RAW]
Filled(h, b, s, cap) == IF b = NULL THEN h ELSE [h EXCEPT ![b] = Buffer(s, cap)]

\* Reading what is not there gives nothing that could be an element.
Read(h, b, i) == IF b # NULL /\ h[b] # FREE /\ i \in DOMAIN h[b] THEN h[b][i] ELSE RAW

\* The elements of o, read from a heap h.
ElementsIn(h, o) == [i \in 1 .. size_[o] |-> Read(h, data_[o], i)]
Elements(o) == ElementsIn(heap, o)

\* o gets new memory, from a heap h, with s in it.
Allocate(o, h, s, cap) ==
    /\ \E b \in Allocatable(h, cap) :
          /\ heap' = Filled(h, b, s, cap)
          /\ data_' = [data_ EXCEPT ![o] = b]
    /\ size_' = [size_ EXCEPT ![o] = Len(s)]
    /\ capacity_' = [capacity_ EXCEPT ![o] = cap]

-----------------------------------------------------------------------------
\* The default constructor.
Construct(o) ==
    /\ o \notin alive
    /\ alive' = alive \cup {o}
    /\ Allocate(o, heap, <<>>, CAPACITY)

ConstructSized(o, n) ==
    /\ o \notin alive
    /\ alive' = alive \cup {o}
    /\ Allocate(o, heap, [i \in 1 .. n |-> DEFAULT], n)

CopyConstruct(o, p) ==
    /\ o \notin alive
    /\ p \in alive
    /\ alive' = alive \cup {o}
    /\ Allocate(o, heap, Elements(p), capacity_[p])

\* Self-assignment returns at once.  Variant: it is not looked for.
NotLookedFor(o, p) == FALSE
IsSelf(o, p) == o = p

CopyAssign(o, p) ==
    /\ {o, p} \subseteq alive
    /\ ~IsSelf(o, p)
    /\ LET h == Deleted(heap, data_[o])
       IN  Allocate(o, h, ElementsIn(h, p), capacity_[p])
    /\ UNCHANGED alive

\* What the vector that was moved from holds after that.
\* Variant: it keeps its pointer.
KeepsPointer(b) == b
AfterMove(b) == NULL

\* o takes over the memory of p.
TakeOver(o, p, h) ==
    /\ heap' = h
    /\ data_' = [data_ EXCEPT ![o] = data_[p], ![p] = AfterMove(@)]
    /\ size_' = [size_ EXCEPT ![o] = size_[p], ![p] = 0]
    /\ capacity_' = [capacity_ EXCEPT ![o] = capacity_[p], ![p] = 0]

MoveConstruct(o, p) ==
    /\ o \notin alive
    /\ p \in alive
    /\ alive' = alive \cup {o}
    /\ TakeOver(o, p, heap)

MoveAssign(o, p) ==
    /\ {o, p} \subseteq alive
    /\ o # p
    /\ TakeOver(o, p, Deleted(heap, data_[o]))
    /\ UNCHANGED alive

\* The destructor.
Destruct(o) ==
    /\ o \in alive
    /\ alive' = alive \ {o}
    /\ heap' = Deleted(heap, data_[o])
    /\ data_' = [data_ EXCEPT ![o] = NULL]
    /\ size_' = [size_ EXCEPT ![o] = 0]
    /\ capacity_' = [capacity_ EXCEPT ![o] = 0]

-----------------------------------------------------------------------------
(* push_back(), with ensure_capacity(); the old memory goes after the new  *)
(* one is there                                                            *)

NewCapacity(o) == IF capacity_[o] = 0 THEN 1 ELSE capacity_[o] * 2

PushBack(o, v) ==
    /\ o \in alive
    /\ size_[o] < MaxSize
    /\ size_[o] < capacity_[o]
    /\ heap' = [heap EXCEPT ![data_[o]][size_[o] + 1] = v]
    /\ size_' = [size_ EXCEPT ![o] = @ + 1]
    /\ UNCHANGED <<alive, data_, capacity_>>

PushBackGrows(o, v) ==
    /\ o \in alive
    /\ size_[o] < MaxSize
    /\ size_[o] = capacity_[o]
    /\ \E b \in Allocatable(heap, NewCapacity(o)) :
          /\ heap' = Deleted(Filled(heap, b, Append(Elements(o), v), NewCapacity(o)), data_[o])
          /\ data_' = [data_ EXCEPT ![o] = b]
    /\ size_' = [size_ EXCEPT ![o] = @ + 1]
    /\ capacity_' = [capacity_ EXCEPT ![o] = NewCapacity(o)]
    /\ UNCHANGED alive

PopBack(o) ==
    /\ o \in alive
    /\ size_[o] > 0
    /\ heap' = [heap EXCEPT ![data_[o]][size_[o]] = RAW]
    /\ size_' = [size_ EXCEPT ![o] = @ - 1]
    /\ UNCHANGED <<alive, data_, capacity_>>

clear(o) ==
    /\ o \in alive
    /\ heap' = IF data_[o] = NULL THEN heap
               ELSE [heap EXCEPT ![data_[o]] =
                       [i \in DOMAIN @ |-> IF i <= size_[o] THEN RAW ELSE @[i]]]
    /\ size_' = [size_ EXCEPT ![o] = 0]
    /\ UNCHANGED <<alive, data_, capacity_>>

Next ==
    \E o \in Vectors :
        \/ Construct(o) \/ Destruct(o) \/ PopBack(o) \/ clear(o)
        \/ \E n \in 0 .. MaxSize : ConstructSized(o, n)
        \/ \E v \in Values : PushBack(o, v) \/ PushBackGrows(o, v)
        \/ \E p \in Vectors : \/ CopyConstruct(o, p) \/ MoveConstruct(o, p)
                              \/ CopyAssign(o, p) \/ MoveAssign(o, p)

Spec == Init /\ [][Next]_vars

-----------------------------------------------------------------------------
(* Properties *)

\* Memory belongs to one vector, which knows its length, and holds elements
\* at its front only, as many as the size says: nothing is leaked, freed
\* twice, used before it is constructed or left without its destructor.
MemoryIsOwned ==
    /\ \A b \in Buffers : heap[b] # FREE => \E o \in alive : data_[o] = b
    /\ \A o \in alive :
          /\ data_[o] = NULL <=> capacity_[o] = 0
          /\ size_[o] <= capacity_[o]
          /\ data_[o] # NULL =>
                /\ heap[data_[o]] # FREE
                /\ DOMAIN heap[data_[o]] = 1 .. capacity_[o]
                /\ \A i \in 1 .. capacity_[o] : heap[data_[o]][i] # RAW <=> i <= size_[o]
                /\ \A p \in alive : data_[o] = data_[p] => o = p

VS == INSTANCE ValueSequences WITH
        lists <- [o \in alive |-> Elements(o)]

\* Copies are independent of the original, and a move leaves nothing behind.
ImplementsValueSequences == VS!Spec

=============================================================================
