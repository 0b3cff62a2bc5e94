--------------------------- MODULE ValueSequences ---------------------------
(***************************************************************************)
(* What Vector promises: each vector is a sequence of its own.             *)
(***************************************************************************)
EXTENDS Sequences, Integers

CONSTANTS Vectors, Values, DEFAULT, MaxSize

VARIABLE lists              \* each vector that exists -> its elements

With(o, s) == [p \in DOMAIN lists \cup {o} |-> IF p = o THEN s ELSE lists[p]]

Init == lists = <<>>

Create(o, n) == o \notin DOMAIN lists /\ lists' = With(o, [i \in 1 .. n |-> DEFAULT])

Exists(o) == o \in DOMAIN lists
PushBack(o, v) == Exists(o) /\ lists' = With(o, Append(lists[o], v))
PopBack(o) == Exists(o) /\ lists[o] # <<>>
              /\ lists' = With(o, SubSeq(lists[o], 1, Len(lists[o]) - 1))
Clear(o) == Exists(o) /\ lists' = With(o, <<>>)
Destroy(o) == Exists(o) /\ lists' = [p \in DOMAIN lists \ {o} |-> lists[p]]

\* By construction or assignment.
Copy(o, p) == Exists(p) /\ lists' = With(o, lists[p])
Move(o, p) == Exists(p) /\ p # o /\ lists' = [With(o, lists[p]) EXCEPT ![p] = <<>>]

Next ==
    \E o \in Vectors :
        \/ \E n \in 0 .. MaxSize : Create(o, n)
        \/ \E v \in Values : PushBack(o, v)
        \/ PopBack(o) \/ Clear(o) \/ Destroy(o)
        \/ \E p \in Vectors : Copy(o, p) \/ Move(o, p)

Spec == Init /\ [][Next]_lists

=============================================================================
