--------------------------- MODULE Arrays_proofs ----------------------------
(***************************************************************************)
(* Vectors own their memory and implement sequences of values that have    *)
(* nothing to do with each other, for every number of vectors, addresses   *)
(* and values.  A chunked vector is one sequence, for every size of its    *)
(* blocks.                                                                 *)
(*                                                                         *)
(* What an operation does to the heap and to the three fields of a vector  *)
(* is put together from few pieces: memory is released, filled, written in *)
(* place, or passed on.  The lemmas are about these pieces, and so about   *)
(* any heap h, fields d, s and c (data_, size_, capacity_) and set A of    *)
(* vectors that exist, those in the middle of an operation included.       *)
(*                                                                         *)
(* The proofs for the chunked vector, after those, are about blocks and    *)
(* offsets: a list is cut or lengthened by what is at its indices.         *)
(***************************************************************************)
EXTENDS Containers, SequenceTheorems, TLAPS

Cells == Values \cup {RAW}

Typed(h, d, s, c, A) ==
    /\ h \in [Buffers -> Seq(Cells) \cup {FREE}]
    /\ d \in [Vectors -> Buffers \cup {NULL}]
    /\ s \in [Vectors -> Nat]
    /\ c \in [Vectors -> Nat]
    /\ A \subseteq Vectors

\* The fields of o agree with the memory they point to.
Agree(h, d, s, c, o) ==
    /\ d[o] = NULL <=> c[o] = 0
    /\ s[o] <= c[o]
    /\ d[o] # NULL =>
          /\ h[d[o]] # FREE
          /\ DOMAIN h[d[o]] = 1 .. c[o]
          /\ \A i \in 1 .. c[o] : h[d[o]][i] # RAW <=> i <= s[o]

Owned(h, d, s, c, A) ==
    /\ Typed(h, d, s, c, A)
    /\ \A b \in Buffers : h[b] # FREE => \E o \in A : d[o] = b
    /\ \A o \in A : Agree(h, d, s, c, o)
    /\ \A o, p \in A : d[o] # NULL /\ d[o] = d[p] => o = p

\* The inductive invariant: types, and MemoryIsOwned.
VectorInv == Owned(heap, vector_data, vector_size, vector_capacity, vectors_alive)

\* Elements(o), in a heap and with fields of one's own.
ContentsOf(h, d, s, o) == [i \in 1 .. s[o] |-> Vector!Read(h, d[o], i)]

\* o holds the elements q.
Holds(h, d, s, o, q) == ContentsOf(h, d, s, o) = q

\* The vectors in A hold what they held with heap h and fields d and s.
Same(g, e, t, h, d, s, A) == \A p \in A : ContentsOf(g, e, t, p) = ContentsOf(h, d, s, p)

-----------------------------------------------------------------------------
(* What a vector holds *)

\* The elements are values, as many as the size says.
LEMMA ContentsAreValues ==
    ASSUME NEW h, NEW d, NEW s, NEW c, NEW A, Owned(h, d, s, c, A), NEW o \in A
    PROVE  /\ ContentsOf(h, d, s, o) \in Seq(Values)
           /\ Len(ContentsOf(h, d, s, o)) = s[o]
           /\ s[o] \in Nat /\ c[o] \in Nat /\ s[o] <= c[o]
           /\ d[o] \in Buffers \cup {NULL}
           /\ \A i \in 1 .. s[o] : /\ d[o] # NULL
                                   /\ ContentsOf(h, d, s, o)[i] = h[d[o]][i]
<1>1. /\ o \in Vectors /\ s[o] \in Nat /\ c[o] \in Nat /\ s[o] <= c[o]
      /\ d[o] \in Buffers \cup {NULL}
      /\ d[o] = NULL <=> c[o] = 0
  BY DEF Owned, Typed, Agree
<1>2. ASSUME NEW i \in 1 .. s[o]
      PROVE  /\ d[o] # NULL
             /\ Vector!Read(h, d[o], i) = h[d[o]][i]
             /\ h[d[o]][i] \in Values
  <2>1. d[o] # NULL /\ d[o] \in Buffers /\ i \in 1 .. c[o]
    BY <1>1
  <2>2. /\ h[d[o]] # FREE /\ DOMAIN h[d[o]] = 1 .. c[o] /\ h[d[o]][i] # RAW
    BY <2>1 DEF Owned, Agree
  <2>3. h[d[o]] \in Seq(Cells)
    BY <2>1, <2>2 DEF Owned, Typed
  <2>4. PICK g \in Seq(Cells) : g = h[d[o]]
    BY <2>3
  <2>5. g[i] \in Cells
    <3>1. DOMAIN g = 1 .. c[o]
      BY <2>2, <2>4
    <3>2. g \in [1 .. Len(g) -> Cells] /\ DOMAIN g = 1 .. Len(g)
      OBVIOUS
    <3> QED
      BY <2>1, <3>1, <3>2
  <2> QED
    BY <2>1, <2>2, <2>4, <2>5 DEF Vector!Read, Cells
<1> DEFINE C == ContentsOf(h, d, s, o)
<1>3. C \in [1 .. s[o] -> Values] /\ \A i \in 1 .. s[o] : C[i] = h[d[o]][i]
  BY <1>2 DEF ContentsOf
<1> HIDE DEF C
<1>4. C \in Seq(Values) /\ Len(C) = s[o]
  BY <1>1, <1>3
<1> QED
  BY <1>1, <1>2, <1>3, <1>4 DEF C

\* What a vector holds depends on its own memory and fields only.
LEMMA SameContents ==
    ASSUME NEW h, NEW d, NEW s, NEW g, NEW e, NEW t, NEW o,
           e[o] = d[o], t[o] = s[o], d[o] # NULL => g[d[o]] = h[d[o]]
    PROVE  ContentsOf(g, e, t, o) = ContentsOf(h, d, s, o)
BY DEF ContentsOf, Vector!Read

-----------------------------------------------------------------------------
(* The pieces of the operations *)

\* The memory of o is released; o is left out.
LEMMA Release ==
    ASSUME Vector!ConstantsOK,
           NEW h, NEW d, NEW s, NEW c, NEW A, Owned(h, d, s, c, A), NEW o \in A
    PROVE  /\ Owned(Vector!Deleted(h, d[o]), d, s, c, A \ {o})
           /\ Same(Vector!Deleted(h, d[o]), d, s, h, d, s, A \ {o})
<1>1. PICK g : g = Vector!Deleted(h, d[o])
  OBVIOUS
<1>2. /\ h \in [Buffers -> Seq(Cells) \cup {FREE}] /\ d[o] \in Buffers \cup {NULL}
      /\ o \in Vectors
  BY DEF Owned, Typed
<1>3. /\ g \in [Buffers -> Seq(Cells) \cup {FREE}]
      /\ \A b \in Buffers : g[b] = IF b = d[o] THEN FREE ELSE h[b]
  BY <1>1, <1>2 DEF Vector!Deleted, Vector!ConstantsOK
<1>4. \A p \in A \ {o} : d[p] # NULL => d[p] \in Buffers /\ g[d[p]] = h[d[p]]
  <2> SUFFICES ASSUME NEW p \in A \ {o}, d[p] # NULL
               PROVE  d[p] \in Buffers /\ g[d[p]] = h[d[p]]
    OBVIOUS
  <2>1. d[p] \in Buffers
    BY DEF Owned, Typed
  <2>2. d[p] # d[o]
    BY DEF Owned
  <2> QED
    BY <2>1, <2>2, <1>3
<1>5. Typed(g, d, s, c, A \ {o})
  BY <1>3 DEF Owned, Typed
<1>6. \A b \in Buffers : g[b] # FREE => \E p \in A \ {o} : d[p] = b
  <2> SUFFICES ASSUME NEW b \in Buffers, g[b] # FREE
               PROVE  \E p \in A \ {o} : d[p] = b
    OBVIOUS
  <2>1. b # d[o] /\ h[b] # FREE
    BY <1>3
  <2> QED
    BY <2>1 DEF Owned
<1>7. \A p \in A \ {o} : Agree(g, d, s, c, p)
  <2> SUFFICES ASSUME NEW p \in A \ {o}
               PROVE  Agree(g, d, s, c, p)
    OBVIOUS
  <2>1. Agree(h, d, s, c, p)
    BY DEF Owned
  <2> QED
    BY <2>1, <1>4 DEF Agree
<1>8. \A p, q \in A \ {o} : d[p] # NULL /\ d[p] = d[q] => p = q
  BY DEF Owned
<1>9. \A p \in A \ {o} : ContentsOf(g, d, s, p) = ContentsOf(h, d, s, p)
  BY <1>4, SameContents
<1>10. Owned(g, d, s, c, A \ {o})
  BY <1>5, <1>6, <1>7, <1>8 DEF Owned
<1> QED
  BY <1>1, <1>9, <1>10 DEF Same
\* What allocate() and the construction of the elements make of the heap.
LEMMA FilledBuffer ==
    ASSUME NEW q \in Seq(Values), NEW n \in Nat, Len(q) <= n
    PROVE  /\ Vector!Buffer(q, n) \in Seq(Cells)
           /\ DOMAIN Vector!Buffer(q, n) = 1 .. n
           /\ \A i \in 1 .. Len(q) : Vector!Buffer(q, n)[i] = q[i]
           /\ RAW \notin Values =>
                 \A i \in 1 .. n : Vector!Buffer(q, n)[i] # RAW <=> i <= Len(q)
<1> DEFINE B == Vector!Buffer(q, n)
<1>1. Len(q) \in Nat /\ \A i \in 1 .. Len(q) : q[i] \in Values
  OBVIOUS
<1>2. \A i \in 1 .. n : (IF i <= Len(q) THEN q[i] ELSE RAW) \in Cells
  BY <1>1 DEF Cells
<1>3. B = [i \in 1 .. n |-> IF i <= Len(q) THEN q[i] ELSE RAW]
  BY DEF Vector!Buffer
<1> HIDE DEF B
<1>4. B \in [1 .. n -> Cells] /\ DOMAIN B = 1 .. n
  BY <1>2, <1>3
<1>5. B \in Seq(Cells)
  BY <1>4
<1>6. \A i \in 1 .. Len(q) : B[i] = q[i]
  BY <1>1, <1>3
<1>7. ASSUME RAW \notin Values, NEW i \in 1 .. n
      PROVE  B[i] # RAW <=> i <= Len(q)
  BY <1>1, <1>3, <1>7
<1> QED
  BY <1>4, <1>5, <1>6, <1>7 DEF B

\* o, which had no memory, gets memory for n elements with q at the front.
LEMMA Fill ==
    ASSUME Vector!ConstantsOK,
           NEW h, NEW d, NEW s, NEW c, NEW A, Owned(h, d, s, c, A),
           NEW o \in Vectors, o \notin A,
           NEW q \in Seq(Values), NEW n \in Nat, Len(q) <= n, NEW b \in Vector!Allocatable(h, n)
    PROVE  LET g == Vector!Filled(h, b, q, n)
               e == [d EXCEPT ![o] = b]
               t == [s EXCEPT ![o] = Len(q)]
               k == [c EXCEPT ![o] = n]
           IN  /\ Owned(g, e, t, k, A \cup {o})
               /\ Holds(g, e, t, o, q)
               /\ Same(g, e, t, h, d, s, A)
<1>0. PICK g, e, t, k : /\ g = Vector!Filled(h, b, q, n) /\ e = [d EXCEPT ![o] = b]
                        /\ t = [s EXCEPT ![o] = Len(q)] /\ k = [c EXCEPT ![o] = n]
  OBVIOUS
<1> DEFINE B == Vector!Buffer(q, n)
<1>1. /\ h \in [Buffers -> Seq(Cells) \cup {FREE}] /\ d \in [Vectors -> Buffers \cup {NULL}]
      /\ s \in [Vectors -> Nat] /\ c \in [Vectors -> Nat] /\ A \subseteq Vectors
  BY DEF Owned, Typed
<1>2. /\ NULL \notin Buffers /\ RAW \notin Values /\ FREE \notin Seq(Cells)
      /\ Len(q) \in Nat
  BY DEF Vector!ConstantsOK, Cells
<1>3. /\ B \in Seq(Cells) /\ DOMAIN B = 1 .. n
      /\ \A i \in 1 .. Len(q) : B[i] = q[i]
      /\ \A i \in 1 .. n : B[i] # RAW <=> i <= Len(q)
  BY <1>2, FilledBuffer
<1>4. /\ b \in Buffers \cup {NULL}
      /\ b = NULL <=> n = 0
      /\ b # NULL => h[b] = FREE
  BY <1>2 DEF Vector!Allocatable
<1> HIDE DEF B
<1>5. /\ g \in [Buffers -> Seq(Cells) \cup {FREE}]
      /\ \A a \in Buffers : g[a] = IF a = b THEN B ELSE h[a]
  BY <1>0, <1>1, <1>2, <1>3, <1>4 DEF Vector!Filled, B
<1>6. /\ e[o] = b /\ t[o] = Len(q) /\ k[o] = n
      /\ \A p \in A : p # o /\ e[p] = d[p] /\ t[p] = s[p] /\ k[p] = c[p]
  BY <1>0, <1>1
<1>7. Typed(g, e, t, k, A \cup {o})
  BY <1>0, <1>1, <1>2, <1>4, <1>5 DEF Typed
<1>8. \A p \in A : d[p] # NULL => /\ d[p] \in Buffers /\ d[p] # b /\ g[d[p]] = h[d[p]]
  <2> SUFFICES ASSUME NEW p \in A, d[p] # NULL
               PROVE  d[p] \in Buffers /\ d[p] # b /\ g[d[p]] = h[d[p]]
    OBVIOUS
  <2>1. d[p] \in Buffers /\ h[d[p]] # FREE
    BY <1>1 DEF Owned, Agree
  <2> QED
    BY <2>1, <1>4, <1>5
<1>9. \A a \in Buffers : g[a] # FREE => \E p \in A \cup {o} : e[p] = a
  <2> SUFFICES ASSUME NEW a \in Buffers, g[a] # FREE
               PROVE  \E p \in A \cup {o} : e[p] = a
    OBVIOUS
  <2>1. CASE a = b
    BY <2>1, <1>6
  <2>2. CASE a # b
    BY <2>2, <1>5, <1>6 DEF Owned
  <2> QED
    BY <2>1, <2>2
<1>10. Agree(g, e, t, k, o)
  <2>1. b # NULL => g[b] = B /\ B # FREE
    BY <1>2, <1>3, <1>4, <1>5
  <2> QED
    BY <2>1, <1>3, <1>4, <1>6 DEF Agree
<1>11. \A p \in A : Agree(g, e, t, k, p)
  <2> SUFFICES ASSUME NEW p \in A
               PROVE  Agree(g, e, t, k, p)
    OBVIOUS
  <2>1. Agree(h, d, s, c, p)
    BY DEF Owned
  <2> QED
    BY <2>1, <1>6, <1>8 DEF Agree
<1>12. \A p, r \in A \cup {o} : e[p] # NULL /\ e[p] = e[r] => p = r
  <2> SUFFICES ASSUME NEW p \in A \cup {o}, NEW r \in A \cup {o}, e[p] # NULL, e[p] = e[r]
               PROVE  p = r
    OBVIOUS
  <2>1. CASE p \in A /\ r \in A
    BY <2>1, <1>6 DEF Owned
  <2>2. CASE p = o /\ r = o
    BY <2>2
  <2>3. CASE p = o /\ r \in A
    BY <2>3, <1>6, <1>8
  <2>4. CASE p \in A /\ r = o
    BY <2>4, <1>6, <1>8
  <2> QED
    BY <2>1, <2>2, <2>3, <2>4
<1>13. Owned(g, e, t, k, A \cup {o})
  BY <1>7, <1>9, <1>10, <1>11, <1>12 DEF Owned
<1>14. ContentsOf(g, e, t, o) = q
  <2>1. \A i \in 1 .. Len(q) :
          b # NULL /\ g[b] = B /\ g[b] # FREE /\ i \in DOMAIN B /\ B[i] = q[i]
    BY <1>2, <1>3, <1>4, <1>5
  <2>2. \A i \in 1 .. Len(q) : Vector!Read(g, b, i) = q[i]
    BY <2>1 DEF Vector!Read
  <2>3. ContentsOf(g, e, t, o) = [i \in 1 .. Len(q) |-> q[i]]
    BY <2>2, <1>6 DEF ContentsOf
  <2> QED
    BY <2>3
<1>15. ASSUME NEW p \in A
       PROVE  ContentsOf(g, e, t, p) = ContentsOf(h, d, s, p)
  <2>1. e[p] = d[p] /\ t[p] = s[p] /\ (d[p] # NULL => g[d[p]] = h[d[p]])
    BY <1>6, <1>8
  <2> QED
    BY <2>1, SameContents
<1> QED
  BY <1>0, <1>13, <1>14, <1>15 DEF Same, Holds

\* The fields of a vector that is left out do not matter.
LEMMA Forget ==
    ASSUME NEW h, NEW d, NEW s, NEW c, NEW A, Owned(h, d, s, c, A),
           NEW o \in Vectors, o \notin A
    PROVE  LET e == [d EXCEPT ![o] = NULL]
               t == [s EXCEPT ![o] = 0]
               k == [c EXCEPT ![o] = 0]
           IN  /\ Owned(h, e, t, k, A)
               /\ Same(h, e, t, h, d, s, A)
<1>0. PICK e, t, k : /\ e = [d EXCEPT ![o] = NULL] /\ t = [s EXCEPT ![o] = 0]
                     /\ k = [c EXCEPT ![o] = 0]
  OBVIOUS
<1>1. /\ d \in [Vectors -> Buffers \cup {NULL}]
      /\ s \in [Vectors -> Nat] /\ c \in [Vectors -> Nat] /\ A \subseteq Vectors
  BY DEF Owned, Typed
<1>2. \A p \in A : e[p] = d[p] /\ t[p] = s[p] /\ k[p] = c[p]
  BY <1>0, <1>1
<1>3. Typed(h, e, t, k, A)
  BY <1>0, <1>1 DEF Owned, Typed
<1>4. \A p \in A : Agree(h, e, t, k, p)
  BY <1>2 DEF Owned, Agree
<1>5. Owned(h, e, t, k, A)
  BY <1>2, <1>3, <1>4 DEF Owned
<1>6. ASSUME NEW p \in A
      PROVE  ContentsOf(h, e, t, p) = ContentsOf(h, d, s, p)
  <2>1. e[p] = d[p] /\ t[p] = s[p]
    BY <1>2
  <2> QED
    BY <2>1, SameContents
<1> QED
  BY <1>0, <1>5, <1>6 DEF Same

\* o, which had no memory, takes over that of p.
LEMMA Pass ==
    ASSUME Vector!ConstantsOK,
           NEW h, NEW d, NEW s, NEW c, NEW A, Owned(h, d, s, c, A),
           NEW o \in Vectors, o \notin A, NEW p \in A
    PROVE  LET e == [d EXCEPT ![o] = d[p], ![p] = Vector!AfterMove(@)]
               t == [s EXCEPT ![o] = s[p], ![p] = 0]
               k == [c EXCEPT ![o] = c[p], ![p] = 0]
           IN  /\ Owned(h, e, t, k, A \cup {o})
               /\ Holds(h, e, t, o, ContentsOf(h, d, s, p))
               /\ Holds(h, e, t, p, <<>>)
               /\ Same(h, e, t, h, d, s, A \ {p})
<1>0. PICK e, t, k : /\ e = [d EXCEPT ![o] = d[p], ![p] = Vector!AfterMove(@)]
                     /\ t = [s EXCEPT ![o] = s[p], ![p] = 0]
                     /\ k = [c EXCEPT ![o] = c[p], ![p] = 0]
  OBVIOUS
<1>1. /\ d \in [Vectors -> Buffers \cup {NULL}]
      /\ s \in [Vectors -> Nat] /\ c \in [Vectors -> Nat] /\ A \subseteq Vectors
      /\ p # o /\ p \in Vectors
  BY DEF Owned, Typed
<1>2. /\ e[o] = d[p] /\ t[o] = s[p] /\ k[o] = c[p]
      /\ e[p] = NULL /\ t[p] = 0 /\ k[p] = 0
      /\ \A r \in A \ {p} : r # o /\ e[r] = d[r] /\ t[r] = s[r] /\ k[r] = c[r]
  BY <1>0, <1>1 DEF Vector!AfterMove
<1>3. Typed(h, e, t, k, A \cup {o})
  BY <1>0, <1>1 DEF Owned, Typed, Vector!AfterMove
<1>4. \A b \in Buffers : h[b] # FREE => \E r \in A \cup {o} : e[r] = b
  <2> SUFFICES ASSUME NEW b \in Buffers, h[b] # FREE
               PROVE  \E r \in A \cup {o} : e[r] = b
    OBVIOUS
  <2>1. PICK r \in A : d[r] = b
    BY DEF Owned
  <2>2. e[IF r = p THEN o ELSE r] = b
    BY <2>1, <1>2
  <2> QED
    BY <2>2
<1>5. \A r \in A \cup {o} : Agree(h, e, t, k, r)
  <2>1. Agree(h, d, s, c, p) /\ \A r \in A : Agree(h, d, s, c, r)
    BY DEF Owned
  <2>2. Agree(h, e, t, k, o)
    BY <2>1, <1>2 DEF Agree
  <2>3. Agree(h, e, t, k, p)
    BY <1>2 DEF Agree
  <2>4. ASSUME NEW r \in A \ {p}
        PROVE  Agree(h, e, t, k, r)
    <3>1. Agree(h, d, s, c, r) /\ e[r] = d[r] /\ t[r] = s[r] /\ k[r] = c[r]
      BY <2>1, <1>2
    <3> QED
      BY <3>1 DEF Agree
  <2> QED
    BY <2>2, <2>3, <2>4
<1>6. \A r, u \in A \cup {o} : e[r] # NULL /\ e[r] = e[u] => r = u
  <2>1. \A r \in A \cup {o} : e[r] # NULL => r # p /\ e[r] = d[IF r = o THEN p ELSE r]
    BY <1>2
  <2>2. \A r, u \in A : d[r] # NULL /\ d[r] = d[u] => r = u
    BY DEF Owned
  <2> QED
    BY <2>1, <2>2
<1>7. Owned(h, e, t, k, A \cup {o})
  BY <1>3, <1>4, <1>5, <1>6 DEF Owned
<1>8. ContentsOf(h, e, t, o) = ContentsOf(h, d, s, p)
  BY <1>2 DEF ContentsOf
<1>9. ContentsOf(h, e, t, p) = <<>>
  <2>0. p \in A \cup {o}
    OBVIOUS
  <2>1. ContentsOf(h, e, t, p) \in Seq(Values) /\ Len(ContentsOf(h, e, t, p)) = t[p]
    BY <2>0, <1>7, ContentsAreValues
  <2>2. PICK q \in Seq(Values) : q = ContentsOf(h, e, t, p)
    BY <2>1
  <2>3. Len(q) = 0
    BY <2>1, <2>2, <1>2
  <2> QED
    BY <2>2, <2>3
<1>10. ASSUME NEW r \in A \ {p}
       PROVE  ContentsOf(h, e, t, r) = ContentsOf(h, d, s, r)
  <2>1. e[r] = d[r] /\ t[r] = s[r]
    BY <1>2
  <2> QED
    BY <2>1, SameContents
<1> QED
  BY <1>0, <1>7, <1>8, <1>9, <1>10 DEF Same, Holds

\* The memory of o is written in place: m elements, which are those of g.
LEMMA Write ==
    ASSUME Vector!ConstantsOK,
           NEW h, NEW d, NEW s, NEW c, NEW A, Owned(h, d, s, c, A),
           NEW o \in A, d[o] # NULL,
           NEW g \in Seq(Cells), Len(g) = c[o],
           NEW m \in Nat, m <= c[o], \A i \in 1 .. c[o] : g[i] # RAW <=> i <= m
    PROVE  LET f == [h EXCEPT ![d[o]] = g]
               t == [s EXCEPT ![o] = m]
           IN  /\ Owned(f, d, t, c, A)
               /\ Holds(f, d, t, o, [i \in 1 .. m |-> g[i]])
               /\ Same(f, d, t, h, d, s, A \ {o})
<1>0. PICK f, t : f = [h EXCEPT ![d[o]] = g] /\ t = [s EXCEPT ![o] = m]
  OBVIOUS
<1>1. /\ h \in [Buffers -> Seq(Cells) \cup {FREE}] /\ d \in [Vectors -> Buffers \cup {NULL}]
      /\ s \in [Vectors -> Nat] /\ c \in [Vectors -> Nat] /\ A \subseteq Vectors
      /\ d[o] \in Buffers /\ o \in Vectors /\ c[o] \in Nat
  BY DEF Owned, Typed
<1>2. g # FREE /\ DOMAIN g = 1 .. c[o]
  BY DEF Vector!ConstantsOK, Cells
<1>3. /\ f \in [Buffers -> Seq(Cells) \cup {FREE}]
      /\ f[d[o]] = g
      /\ \A b \in Buffers : b # d[o] => f[b] = h[b]
  BY <1>0, <1>1
<1>4. t \in [Vectors -> Nat] /\ t[o] = m /\ \A p \in A \ {o} : t[p] = s[p]
  BY <1>0, <1>1
<1>5. \A p \in A \ {o} : d[p] # NULL => f[d[p]] = h[d[p]]
  <2> SUFFICES ASSUME NEW p \in A \ {o}, d[p] # NULL
               PROVE  f[d[p]] = h[d[p]]
    OBVIOUS
  <2>1. d[p] \in Buffers /\ d[p] # d[o]
    BY <1>1 DEF Owned
  <2> QED
    BY <2>1, <1>3
<1>6. Typed(f, d, t, c, A)
  BY <1>1, <1>3, <1>4 DEF Typed
<1>7. \A b \in Buffers : f[b] # FREE => \E p \in A : d[p] = b
  <2> SUFFICES ASSUME NEW b \in Buffers, f[b] # FREE
               PROVE  \E p \in A : d[p] = b
    OBVIOUS
  <2>1. CASE b = d[o]
    BY <2>1
  <2>2. CASE b # d[o]
    BY <2>2, <1>3 DEF Owned
  <2> QED
    BY <2>1, <2>2
<1>8. \A p \in A : Agree(f, d, t, c, p)
  <2>1. \A p \in A : Agree(h, d, s, c, p)
    BY DEF Owned
  <2>2. Agree(f, d, t, c, o)
    BY <2>1, <1>2, <1>3, <1>4 DEF Agree
  <2>3. \A p \in A \ {o} : Agree(f, d, t, c, p)
    BY <2>1, <1>4, <1>5 DEF Agree
  <2> QED
    BY <2>2, <2>3
<1>9. Owned(f, d, t, c, A)
  BY <1>6, <1>7, <1>8 DEF Owned
<1>10. ContentsOf(f, d, t, o) = [i \in 1 .. m |-> g[i]]
  <2>1. \A i \in 1 .. m : Vector!Read(f, d[o], i) = g[i]
    BY <1>1, <1>2, <1>3 DEF Vector!Read
  <2> QED
    BY <2>1, <1>4 DEF ContentsOf
<1>11. ASSUME NEW p \in A \ {o}
       PROVE  ContentsOf(f, d, t, p) = ContentsOf(h, d, s, p)
  <2>1. t[p] = s[p] /\ (d[p] # NULL => f[d[p]] = h[d[p]])
    BY <1>4, <1>5
  <2> QED
    BY <2>1, SameContents
<1> QED
  BY <1>0, <1>9, <1>10, <1>11 DEF Same, Holds
-----------------------------------------------------------------------------
(* The operations.  Each leaves the invariant true and changes the elements *)
(* of one vector, or of two if it moves them.                               *)

\* alive' are the vectors afterwards, q is what o holds, the others are
\* unchanged.
Becomes(o, q) ==
    /\ vectors_alive' = vectors_alive \cup {o}
    /\ Vector!Elements(o)' = q
    /\ \A p \in vectors_alive \ {o} : Vector!Elements(p)' = Vector!Elements(p)

\* What the model reads is the contents that the lemmas speak of.
LEMMA ElementsAreContents ==
    /\ \A h, o : Vector!ElementsIn(h, o) = ContentsOf(h, vector_data, vector_size, o)
    /\ \A o : Vector!Elements(o) = ContentsOf(heap, vector_data, vector_size, o)
    /\ \A o : Vector!Elements(o)' = ContentsOf(heap', vector_data', vector_size', o)
BY DEF Vector!Elements, Vector!ElementsIn, ContentsOf, Vector!Read

\* There is no vector at first.
LEMMA InitCorrect ==
    ASSUME Vector!ConstantsOK, Vector!Init
    PROVE  VectorInv
BY DEF Vector!Init, Vector!ConstantsOK, VectorInv, Owned, Typed

\* New memory for a vector that has none, from a heap h.
LEMMA AllocateCorrect ==
    ASSUME Vector!ConstantsOK,
           NEW h, NEW o \in Vectors, NEW A, o \notin A,
           Owned(h, vector_data, vector_size, vector_capacity, A),
           \A p \in A : Vector!ElementsIn(h, p) = Vector!Elements(p),
           A = vectors_alive \ {o}, vectors_alive' = vectors_alive \cup {o},
           NEW q \in Seq(Values), NEW n \in Nat, Len(q) <= n,
           Vector!Allocate(o, h, q, n)
    PROVE  VectorInv' /\ Becomes(o, q)
<1>1. PICK b \in Vector!Allocatable(h, n) : /\ heap' = Vector!Filled(h, b, q, n)
                                     /\ vector_data' = [vector_data EXCEPT ![o] = b]
  BY DEF Vector!Allocate
<1>2. /\ vector_size' = [vector_size EXCEPT ![o] = Len(q)]
      /\ vector_capacity' = [vector_capacity EXCEPT ![o] = n]
  BY DEF Vector!Allocate
<1> DEFINE g == Vector!Filled(h, b, q, n)
           e == [vector_data EXCEPT ![o] = b]
           t == [vector_size EXCEPT ![o] = Len(q)]
           k == [vector_capacity EXCEPT ![o] = n]
<1>7. /\ Owned(g, e, t, k, A \cup {o})
      /\ Holds(g, e, t, o, q)
      /\ Same(g, e, t, h, vector_data, vector_size, A)
  BY Fill
<1> HIDE DEF g, e, t, k
<1>3. /\ Owned(heap', vector_data', vector_size', vector_capacity', A \cup {o})
      /\ Holds(heap', vector_data', vector_size', o, q)
      /\ Same(heap', vector_data', vector_size', h, vector_data, vector_size, A)
  BY <1>1, <1>2, <1>7 DEF g, e, t, k
<1>4. A \cup {o} = vectors_alive'
  OBVIOUS
<1>5. VectorInv'
  BY <1>3, <1>4 DEF VectorInv
<1>6. Becomes(o, q)
  BY <1>3, ElementsAreContents DEF Becomes, Same, Holds
<1> QED
  BY <1>5, <1>6

\* What o holds is a sequence of values that fits into its capacity.
LEMMA ElementsAreValues ==
    ASSUME VectorInv, NEW o \in vectors_alive
    PROVE  /\ o \in Vectors
           /\ Vector!Elements(o) \in Seq(Values) /\ Len(Vector!Elements(o)) = vector_size[o]
           /\ vector_size[o] \in Nat /\ vector_capacity[o] \in Nat
           /\ vector_size[o] <= vector_capacity[o]
           /\ vector_data[o] \in Buffers \cup {NULL}
           /\ vector_data[o] = NULL <=> vector_capacity[o] = 0
           /\ \A i \in 1 .. vector_size[o] : /\ vector_data[o] # NULL
                                       /\ Vector!Elements(o)[i] = heap[vector_data[o]][i]
<1>1. o \in Vectors /\ (vector_data[o] = NULL <=> vector_capacity[o] = 0)
  BY DEF VectorInv, Owned, Typed, Agree
<1>2. Owned(heap, vector_data, vector_size, vector_capacity, vectors_alive)
  BY DEF VectorInv
<1> QED
  BY <1>1, <1>2, ContentsAreValues, ElementsAreContents

\* Vector()
LEMMA ConstructCorrect ==
    ASSUME Vector!ConstantsOK, VectorInv, NEW o \in Vectors, Vector!Construct(o)
    PROVE  VectorInv' /\ Becomes(o, <<>>)
<1>1. /\ o \notin vectors_alive /\ vectors_alive' = vectors_alive \cup {o}
      /\ Vector!Allocate(o, heap, <<>>, CAPACITY)
  BY DEF Vector!Construct
<1>2. /\ Owned(heap, vector_data, vector_size, vector_capacity, vectors_alive)
      /\ \A p \in vectors_alive : Vector!ElementsIn(heap, p) = Vector!Elements(p)
  BY DEF VectorInv, Vector!Elements
<1>3. <<>> \in Seq(Values) /\ CAPACITY \in Nat /\ Len(<<>>) <= CAPACITY
  BY DEF Vector!ConstantsOK
<1>4. vectors_alive = vectors_alive \ {o}
  BY <1>1
<1> QED
  BY <1>1, <1>2, <1>3, <1>4, AllocateCorrect

\* Vector(n), and what a copy allocates.
LEMMA ConstructSizedCorrect ==
    ASSUME Vector!ConstantsOK, VectorInv, NEW o \in Vectors, NEW n \in 0 .. MaxVector,
           Vector!ConstructSized(o, n)
    PROVE  VectorInv' /\ Becomes(o, [i \in 1 .. n |-> DEFAULT])
<1> DEFINE q == [i \in 1 .. n |-> DEFAULT]
<1>1. /\ o \notin vectors_alive /\ vectors_alive' = vectors_alive \cup {o}
      /\ Vector!Allocate(o, heap, q, n)
  BY DEF Vector!ConstructSized
<1>2. /\ Owned(heap, vector_data, vector_size, vector_capacity, vectors_alive)
      /\ \A p \in vectors_alive : Vector!ElementsIn(heap, p) = Vector!Elements(p)
  BY DEF VectorInv, Vector!Elements
<1>3. n \in Nat /\ DEFAULT \in Values
  BY DEF Vector!ConstantsOK
<1>4. q \in [1 .. n -> Values]
  BY <1>3
<1> HIDE DEF q
<1>5. q \in Seq(Values) /\ Len(q) <= n
  BY <1>3, <1>4
<1>6. vectors_alive = vectors_alive \ {o}
  BY <1>1
<1>7. VectorInv' /\ Becomes(o, q)
  BY <1>1, <1>2, <1>3, <1>5, <1>6, AllocateCorrect
<1> QED
  BY <1>7 DEF q

\* Vector(const Vector&)
LEMMA CopyConstructCorrect ==
    ASSUME Vector!ConstantsOK, VectorInv, NEW o \in Vectors, NEW p \in Vectors,
           Vector!CopyConstruct(o, p)
    PROVE  VectorInv' /\ Becomes(o, Vector!Elements(p))
<1>1. /\ o \notin vectors_alive /\ p \in vectors_alive
      /\ vectors_alive' = vectors_alive \cup {o}
      /\ Vector!Allocate(o, heap, Vector!Elements(p), vector_capacity[p])
  BY DEF Vector!CopyConstruct
<1>2. /\ Owned(heap, vector_data, vector_size, vector_capacity, vectors_alive)
      /\ \A r \in vectors_alive : Vector!ElementsIn(heap, r) = Vector!Elements(r)
  BY DEF VectorInv, Vector!Elements
<1>3. /\ Vector!Elements(p) \in Seq(Values) /\ vector_capacity[p] \in Nat
      /\ Len(Vector!Elements(p)) <= vector_capacity[p]
  BY <1>1, ElementsAreValues
<1>4. vectors_alive = vectors_alive \ {o}
  BY <1>1
<1> QED
  BY <1>1, <1>2, <1>3, <1>4, AllocateCorrect

\* The heap after the memory of o was released.
LEMMA Released ==
    ASSUME Vector!ConstantsOK, VectorInv, NEW o \in vectors_alive
    PROVE  LET h == Vector!Deleted(heap, vector_data[o])
           IN  /\ Owned(h, vector_data, vector_size, vector_capacity, vectors_alive \ {o})
               /\ \A p \in vectors_alive \ {o} : Vector!ElementsIn(h, p) = Vector!Elements(p)
<1>1. Owned(heap, vector_data, vector_size, vector_capacity, vectors_alive)
  BY DEF VectorInv
<1> DEFINE h == Vector!Deleted(heap, vector_data[o])
<1>2. /\ Owned(h, vector_data, vector_size, vector_capacity, vectors_alive \ {o})
      /\ Same(h, vector_data, vector_size, heap, vector_data, vector_size, vectors_alive \ {o})
  BY <1>1, Release
<1> HIDE DEF h
<1>3. \A p \in vectors_alive \ {o} : Vector!ElementsIn(h, p) = Vector!Elements(p)
  BY <1>2, ElementsAreContents DEF Same
<1> QED
  BY <1>2, <1>3 DEF h

\* operator=(const Vector&)
LEMMA CopyAssignCorrect ==
    ASSUME Vector!ConstantsOK, VectorInv, NEW o \in Vectors, NEW p \in Vectors,
           Vector!CopyAssign(o, p)
    PROVE  VectorInv' /\ Becomes(o, Vector!Elements(p))
<1> DEFINE h == Vector!Deleted(heap, vector_data[o])
<1>1. /\ o \in vectors_alive /\ p \in vectors_alive /\ o # p /\ vectors_alive' = vectors_alive
      /\ Vector!Allocate(o, h, Vector!ElementsIn(h, p), vector_capacity[p])
  BY DEF Vector!CopyAssign, Vector!IsSelf
<1>2. /\ Owned(h, vector_data, vector_size, vector_capacity, vectors_alive \ {o})
      /\ \A r \in vectors_alive \ {o} : Vector!ElementsIn(h, r) = Vector!Elements(r)
  BY <1>1, Released
<1> HIDE DEF h
<1>3. /\ Vector!Elements(p) \in Seq(Values) /\ vector_capacity[p] \in Nat
      /\ Len(Vector!Elements(p)) <= vector_capacity[p]
  BY <1>1, ElementsAreValues
<1>4. vectors_alive' = vectors_alive \cup {o} /\ Vector!ElementsIn(h, p) = Vector!Elements(p)
  BY <1>1, <1>2
<1>5. Vector!Allocate(o, h, Vector!Elements(p), vector_capacity[p])
  BY <1>1, <1>4
<1> QED
  BY <1>1, <1>2, <1>3, <1>4, <1>5, AllocateCorrect
\* o gets what p held, p is empty.
Moves(o, p) ==
    /\ p \in vectors_alive /\ p # o
    /\ vectors_alive' = vectors_alive \cup {o}
    /\ Vector!Elements(o)' = Vector!Elements(p)
    /\ Vector!Elements(p)' = <<>>
    /\ \A r \in vectors_alive \ {o, p} : Vector!Elements(r)' = Vector!Elements(r)

\* o takes over the memory of p, from a heap h.
LEMMA TakeOverCorrect ==
    ASSUME Vector!ConstantsOK,
           NEW h, NEW o \in Vectors, NEW A, o \notin A, NEW p \in A,
           Owned(h, vector_data, vector_size, vector_capacity, A),
           \A r \in A : Vector!ElementsIn(h, r) = Vector!Elements(r),
           A = vectors_alive \ {o}, vectors_alive' = vectors_alive \cup {o},
           Vector!TakeOver(o, p, h)
    PROVE  VectorInv' /\ Moves(o, p)
<1> DEFINE e == [vector_data EXCEPT ![o] = vector_data[p], ![p] = Vector!AfterMove(@)]
           t == [vector_size EXCEPT ![o] = vector_size[p], ![p] = 0]
           k == [vector_capacity EXCEPT ![o] = vector_capacity[p], ![p] = 0]
<1>1. heap' = h /\ vector_data' = e /\ vector_size' = t /\ vector_capacity' = k
  BY DEF Vector!TakeOver
<1>2. /\ Owned(h, e, t, k, A \cup {o})
      /\ Holds(h, e, t, o, ContentsOf(h, vector_data, vector_size, p))
      /\ Holds(h, e, t, p, <<>>)
      /\ Same(h, e, t, h, vector_data, vector_size, A \ {p})
  BY Pass
<1> HIDE DEF e, t, k
<1>3. /\ Owned(heap', vector_data', vector_size', vector_capacity', A \cup {o})
      /\ Holds(heap', vector_data', vector_size', o, ContentsOf(h, vector_data, vector_size, p))
      /\ Holds(heap', vector_data', vector_size', p, <<>>)
      /\ Same(heap', vector_data', vector_size', h, vector_data, vector_size, A \ {p})
  BY <1>1, <1>2
<1>4. /\ A \cup {o} = vectors_alive' /\ vectors_alive \ {o, p} = A \ {p} /\ p \in vectors_alive
      /\ p # o
  OBVIOUS
<1>5. VectorInv'
  BY <1>3, <1>4 DEF VectorInv
<1>6. Moves(o, p)
  BY <1>3, <1>4, ElementsAreContents DEF Moves, Same, Holds
<1> QED
  BY <1>5, <1>6

\* Vector(Vector&&)
LEMMA MoveConstructCorrect ==
    ASSUME Vector!ConstantsOK, VectorInv, NEW o \in Vectors, NEW p \in Vectors,
           Vector!MoveConstruct(o, p)
    PROVE  VectorInv' /\ Moves(o, p)
<1>1. /\ o \notin vectors_alive /\ p \in vectors_alive
      /\ vectors_alive' = vectors_alive \cup {o} /\ Vector!TakeOver(o, p, heap)
  BY DEF Vector!MoveConstruct
<1>2. /\ Owned(heap, vector_data, vector_size, vector_capacity, vectors_alive)
      /\ \A r \in vectors_alive : Vector!ElementsIn(heap, r) = Vector!Elements(r)
  BY DEF VectorInv, Vector!Elements
<1>3. vectors_alive = vectors_alive \ {o}
  BY <1>1
<1> QED
  BY <1>1, <1>2, <1>3, TakeOverCorrect

\* operator=(Vector&&)
LEMMA MoveAssignCorrect ==
    ASSUME Vector!ConstantsOK, VectorInv, NEW o \in Vectors, NEW p \in Vectors,
           Vector!MoveAssign(o, p)
    PROVE  VectorInv' /\ Moves(o, p)
<1> DEFINE h == Vector!Deleted(heap, vector_data[o])
<1>1. /\ o \in vectors_alive /\ p \in vectors_alive /\ o # p
      /\ vectors_alive' = vectors_alive /\ Vector!TakeOver(o, p, h)
  BY DEF Vector!MoveAssign
<1>2. /\ Owned(h, vector_data, vector_size, vector_capacity, vectors_alive \ {o})
      /\ \A r \in vectors_alive \ {o} : Vector!ElementsIn(h, r) = Vector!Elements(r)
  BY <1>1, Released
<1> HIDE DEF h
<1>3. /\ vectors_alive' = vectors_alive \cup {o} /\ p \in vectors_alive \ {o}
      /\ o \notin vectors_alive \ {o}
  BY <1>1
<1> QED
  BY <1>1, <1>2, <1>3, TakeOverCorrect

\* o is gone, the others are unchanged.
Vanishes(o) ==
    /\ o \in vectors_alive
    /\ vectors_alive' = vectors_alive \ {o}
    /\ \A p \in vectors_alive \ {o} : Vector!Elements(p)' = Vector!Elements(p)

\* ~Vector()
LEMMA DestructCorrect ==
    ASSUME Vector!ConstantsOK, VectorInv, NEW o \in Vectors, Vector!Destruct(o)
    PROVE  VectorInv' /\ Vanishes(o)
<1> DEFINE h == Vector!Deleted(heap, vector_data[o])
           e == [vector_data EXCEPT ![o] = NULL]
           t == [vector_size EXCEPT ![o] = 0]
           k == [vector_capacity EXCEPT ![o] = 0]
           A == vectors_alive \ {o}
<1>1. /\ o \in vectors_alive /\ vectors_alive' = A /\ heap' = h /\ vector_data' = e
      /\ vector_size' = t /\ vector_capacity' = k
  BY DEF Vector!Destruct
<1>2. /\ Owned(h, vector_data, vector_size, vector_capacity, A)
      /\ \A p \in A : Vector!ElementsIn(h, p) = Vector!Elements(p)
  BY <1>1, Released
<1>3. o \notin A
  OBVIOUS
<1> HIDE DEF h, A
<1>4. Owned(h, e, t, k, A) /\ Same(h, e, t, h, vector_data, vector_size, A)
  BY <1>2, <1>3, Forget
<1> HIDE DEF e, t, k
<1>5. /\ Owned(heap', vector_data', vector_size', vector_capacity', A)
      /\ Same(heap', vector_data', vector_size', h, vector_data, vector_size, A)
  BY <1>1, <1>4
<1>6. VectorInv'
  BY <1>1, <1>5 DEF VectorInv
<1>7. \A p \in A : Vector!Elements(p)' = Vector!Elements(p)
  BY <1>2, <1>5, ElementsAreContents DEF Same
<1> QED
  BY <1>1, <1>6, <1>7 DEF Vanishes, A

\* The memory of o is written in place; m is the new size.
LEMMA WriteCorrect ==
    ASSUME Vector!ConstantsOK, VectorInv, NEW o \in vectors_alive, vector_data[o] # NULL,
           NEW g \in Seq(Cells), Len(g) = vector_capacity[o],
           NEW m \in Nat, m <= vector_capacity[o],
           \A i \in 1 .. vector_capacity[o] : g[i] # RAW <=> i <= m,
           heap' = [heap EXCEPT ![vector_data[o]] = g],
           vector_size' = [vector_size EXCEPT ![o] = m],
           UNCHANGED <<vectors_alive, vector_data, vector_capacity>>
    PROVE  VectorInv' /\ Becomes(o, [i \in 1 .. m |-> g[i]])
<1> DEFINE f == [heap EXCEPT ![vector_data[o]] = g]
           t == [vector_size EXCEPT ![o] = m]
           q == [i \in 1 .. m |-> g[i]]
<1>1. Owned(heap, vector_data, vector_size, vector_capacity, vectors_alive)
  BY DEF VectorInv
<1>2. heap' = f /\ vector_size' = t /\ vector_data' = vector_data
        /\ vector_capacity' = vector_capacity /\ vectors_alive' = vectors_alive
  OBVIOUS
<1>3. /\ Owned(f, vector_data, t, vector_capacity, vectors_alive)
      /\ Holds(f, vector_data, t, o, q)
      /\ Same(f, vector_data, t, heap, vector_data, vector_size, vectors_alive \ {o})
  BY <1>1, Write
<1> HIDE DEF f, t, q
<1>4. /\ Owned(heap', vector_data', vector_size', vector_capacity', vectors_alive)
      /\ Holds(heap', vector_data', vector_size', o, q)
      /\ Same(heap', vector_data', vector_size', heap, vector_data, vector_size,
              vectors_alive \ {o})
  BY <1>2, <1>3
<1>5. VectorInv'
  BY <1>2, <1>4 DEF VectorInv
<1>6. vectors_alive' = vectors_alive \cup {o}
  BY <1>2
<1>7. Becomes(o, q)
  BY <1>4, <1>6, ElementsAreContents DEF Becomes, Same, Holds
<1> QED
  BY <1>5, <1>7 DEF q

\* What the memory of o holds.
LEMMA MemoryOf ==
    ASSUME VectorInv, NEW o \in vectors_alive, vector_data[o] # NULL
    PROVE  /\ vector_data[o] \in Buffers /\ DOMAIN heap = Buffers
           /\ heap[vector_data[o]] \in Seq(Cells)
           /\ Len(heap[vector_data[o]]) = vector_capacity[o]
           /\ \A i \in 1 .. vector_capacity[o] :
                heap[vector_data[o]][i] # RAW <=> i <= vector_size[o]
<1>1. /\ Agree(heap, vector_data, vector_size, vector_capacity, o)
      /\ Typed(heap, vector_data, vector_size, vector_capacity, vectors_alive)
  BY DEF VectorInv, Owned
<1>2. /\ vector_data[o] \in Buffers /\ DOMAIN heap = Buffers /\ vector_capacity[o] \in Nat
      /\ heap[vector_data[o]] \in Seq(Cells) \cup {FREE}
  BY <1>1 DEF Typed
<1>3. /\ heap[vector_data[o]] # FREE
      /\ DOMAIN heap[vector_data[o]] = 1 .. vector_capacity[o]
      /\ \A i \in 1 .. vector_capacity[o] :
           heap[vector_data[o]][i] # RAW <=> i <= vector_size[o]
  BY <1>1 DEF Agree
<1>4. PICK g \in Seq(Cells) : g = heap[vector_data[o]]
  BY <1>2, <1>3
<1>5. Len(g) = vector_capacity[o]
  <2>1. DOMAIN g = 1 .. vector_capacity[o] /\ DOMAIN g = 1 .. Len(g) /\ Len(g) \in Nat
    BY <1>3, <1>4
  <2> QED
    BY <2>1, <1>2
<1> QED
  BY <1>2, <1>3, <1>4, <1>5
\* push_back() with memory to spare.
LEMMA PushBackCorrect ==
    ASSUME Vector!ConstantsOK, VectorInv, NEW o \in Vectors, NEW v \in Values,
           Vector!PushBack(o, v)
    PROVE  VectorInv' /\ Becomes(o, Append(Vector!Elements(o), v))
<1>1. /\ o \in vectors_alive /\ vector_size[o] < vector_capacity[o]
      /\ heap' = [heap EXCEPT ![vector_data[o]][vector_size[o] + 1] = v]
      /\ vector_size' = [vector_size EXCEPT ![o] = @ + 1]
      /\ UNCHANGED <<vectors_alive, vector_data, vector_capacity>>
  BY DEF Vector!PushBack
<1>2. /\ Vector!Elements(o) \in Seq(Values) /\ Len(Vector!Elements(o)) = vector_size[o]
      /\ vector_size[o] \in Nat /\ vector_capacity[o] \in Nat
      /\ vector_data[o] = NULL <=> vector_capacity[o] = 0
      /\ \A i \in 1 .. vector_size[o] : Vector!Elements(o)[i] = heap[vector_data[o]][i]
  BY <1>1, ElementsAreValues
<1>3. vector_data[o] # NULL
  BY <1>1, <1>2
<1>4. PICK B : B = heap[vector_data[o]]
  OBVIOUS
<1>5. /\ vector_data[o] \in Buffers /\ DOMAIN heap = Buffers
      /\ B \in Seq(Cells) /\ Len(B) = vector_capacity[o]
      /\ \A i \in 1 .. vector_capacity[o] : B[i] # RAW <=> i <= vector_size[o]
  BY <1>1, <1>3, <1>4, MemoryOf
<1>6. PICK m \in Nat : m = vector_size[o] + 1
  BY <1>2
<1>7. PICK g : g = [B EXCEPT ![m] = v]
  OBVIOUS
<1>8. /\ g \in Seq(Cells) /\ Len(g) = vector_capacity[o]
      /\ \A i \in 1 .. vector_capacity[o] : g[i] = IF i = m THEN v ELSE B[i]
  <2>1. v \in Cells /\ m \in 1 .. Len(B)
    BY <1>1, <1>2, <1>5, <1>6 DEF Cells
  <2> QED
    BY <2>1, <1>5, <1>7
<1>9. \A i \in 1 .. vector_capacity[o] : g[i] # RAW <=> i <= m
  <2>1. v # RAW
    BY DEF Vector!ConstantsOK
  <2> QED
    BY <2>1, <1>2, <1>5, <1>6, <1>8
<1>10. heap' = [heap EXCEPT ![vector_data[o]] = g]
  BY <1>1, <1>4, <1>6, <1>7
<1>11. vector_size' = [vector_size EXCEPT ![o] = m] /\ m <= vector_capacity[o]
  BY <1>1, <1>2, <1>6
<1>12. VectorInv' /\ Becomes(o, [i \in 1 .. m |-> g[i]])
  BY <1>1, <1>3, <1>8, <1>9, <1>10, <1>11, WriteCorrect
<1>13. [i \in 1 .. m |-> g[i]] = Append(Vector!Elements(o), v)
  <2>1. PICK q \in Seq(Values) : q = Vector!Elements(o)
    BY <1>2
  <2>2. \A i \in 1 .. m : g[i] = IF i = m THEN v ELSE q[i]
    <3> SUFFICES ASSUME NEW i \in 1 .. m
                 PROVE  g[i] = IF i = m THEN v ELSE q[i]
      OBVIOUS
    <3>1. i \in 1 .. vector_capacity[o] /\ (i # m => i \in 1 .. vector_size[o])
      BY <1>1, <1>2, <1>6
    <3>2. i # m => B[i] = q[i]
      BY <2>1, <3>1, <1>2, <1>4
    <3> QED
      BY <3>1, <3>2, <1>8
  <2>3. DOMAIN Append(q, v) = 1 .. m /\ \A i \in 1 .. m : Append(q, v)[i] = g[i]
    BY <2>1, <2>2, <1>2, <1>6
  <2>4. Append(q, v) = [i \in 1 .. m |-> Append(q, v)[i]]
    <3>1. Append(q, v) \in Seq(Values) /\ Len(Append(q, v)) = m
      BY <2>1, <1>2, <1>6
    <3>2. PICK r \in Seq(Values) : r = Append(q, v)
      BY <3>1
    <3>3. r \in [1 .. m -> Values]
      <4>1. Len(r) = m
        BY <3>1, <3>2
      <4> QED
        BY <4>1
    <3>4. r = [i \in 1 .. m |-> r[i]]
      BY <3>3
    <3> QED
      BY <3>2, <3>4
  <2> QED
    BY <2>1, <2>3, <2>4
<1> QED
  BY <1>12, <1>13

\* push_back() with new memory: what is there moves, and the old memory goes.
LEMMA PushBackGrowsCorrect ==
    ASSUME Vector!ConstantsOK, VectorInv, NEW o \in Vectors, NEW v \in Values,
           Vector!PushBackGrows(o, v)
    PROVE  VectorInv' /\ Becomes(o, Append(Vector!Elements(o), v))
<1> DEFINE h == Vector!Deleted(heap, vector_data[o])
<1>1. PICK n : n = Vector!NewCapacity(o)
  OBVIOUS
<1>2. PICK q : q = Append(Vector!Elements(o), v)
  OBVIOUS
<1>3. PICK b \in Vector!Allocatable(heap, n) :
         /\ heap' = Vector!Deleted(Vector!Filled(heap, b, q, n), vector_data[o])
         /\ vector_data' = [vector_data EXCEPT ![o] = b]
  BY <1>1, <1>2 DEF Vector!PushBackGrows
<1>4. /\ o \in vectors_alive /\ vector_size[o] = vector_capacity[o]
      /\ vector_size' = [vector_size EXCEPT ![o] = @ + 1]
      /\ vector_capacity' = [vector_capacity EXCEPT ![o] = n]
      /\ vectors_alive' = vectors_alive
  BY <1>1 DEF Vector!PushBackGrows
<1>5. /\ Vector!Elements(o) \in Seq(Values) /\ Len(Vector!Elements(o)) = vector_size[o]
      /\ vector_size[o] \in Nat /\ vector_capacity[o] \in Nat
      /\ vector_data[o] \in Buffers \cup {NULL}
  BY <1>4, ElementsAreValues
<1>6. q \in Seq(Values) /\ Len(q) = vector_size[o] + 1
  BY <1>2, <1>5
<1>7. n \in Nat /\ n > 0 /\ Len(q) <= n
  BY <1>1, <1>4, <1>5, <1>6 DEF Vector!NewCapacity
<1>8. NULL \notin Buffers /\ b \in Buffers /\ heap[b] = FREE
  BY <1>3, <1>7 DEF Vector!Allocatable, Vector!ConstantsOK
<1>9. heap \in [Buffers -> Seq(Cells) \cup {FREE}]
  BY DEF VectorInv, Owned, Typed
\* The memory that is released is not the one that was allocated: the order
\* of the two does not matter.
<1>10. b # vector_data[o]
  <2>1. vector_data[o] # NULL => heap[vector_data[o]] # FREE
    BY <1>4 DEF VectorInv, Owned, Agree
  <2> QED
    BY <2>1, <1>8
<1>11. b \in Vector!Allocatable(h, n)
  BY <1>7, <1>8, <1>9, <1>10 DEF Vector!Allocatable, Vector!Deleted
<1>12. heap' = Vector!Filled(h, b, q, n)
  BY <1>3, <1>5, <1>8, <1>9, <1>10 DEF Vector!Filled, Vector!Deleted
<1>13. vector_size' = [vector_size EXCEPT ![o] = Len(q)]
  BY <1>4, <1>6
<1>14. Vector!Allocate(o, h, q, n)
  BY <1>3, <1>4, <1>11, <1>12, <1>13 DEF Vector!Allocate
<1>15. /\ Owned(h, vector_data, vector_size, vector_capacity, vectors_alive \ {o})
       /\ \A r \in vectors_alive \ {o} : Vector!ElementsIn(h, r) = Vector!Elements(r)
  BY <1>4, Released
<1> HIDE DEF h
<1>16. vectors_alive' = vectors_alive \cup {o}
  BY <1>4
<1>17. VectorInv' /\ Becomes(o, q)
  BY <1>6, <1>7, <1>14, <1>15, <1>16, AllocateCorrect
<1> QED
  BY <1>2, <1>17

\* pop_back()
LEMMA PopBackCorrect ==
    ASSUME Vector!ConstantsOK, VectorInv, NEW o \in Vectors, Vector!PopBack(o)
    PROVE  /\ VectorInv'
           /\ Vector!Elements(o) # <<>>
           /\ Becomes(o, SubSeq(Vector!Elements(o), 1, Len(Vector!Elements(o)) - 1))
<1>1. /\ o \in vectors_alive /\ vector_size[o] > 0
      /\ heap' = [heap EXCEPT ![vector_data[o]][vector_size[o]] = RAW]
      /\ vector_size' = [vector_size EXCEPT ![o] = @ - 1]
      /\ UNCHANGED <<vectors_alive, vector_data, vector_capacity>>
  BY DEF Vector!PopBack
<1>2. /\ Vector!Elements(o) \in Seq(Values) /\ Len(Vector!Elements(o)) = vector_size[o]
      /\ vector_size[o] \in Nat /\ vector_capacity[o] \in Nat
           /\ vector_size[o] <= vector_capacity[o]
      /\ vector_data[o] = NULL <=> vector_capacity[o] = 0
      /\ \A i \in 1 .. vector_size[o] : Vector!Elements(o)[i] = heap[vector_data[o]][i]
  BY <1>1, ElementsAreValues
<1>3. vector_data[o] # NULL
  BY <1>1, <1>2
<1>4. PICK B : B = heap[vector_data[o]]
  OBVIOUS
<1>5. /\ vector_data[o] \in Buffers /\ DOMAIN heap = Buffers
      /\ B \in Seq(Cells) /\ Len(B) = vector_capacity[o]
      /\ \A i \in 1 .. vector_capacity[o] : B[i] # RAW <=> i <= vector_size[o]
  BY <1>1, <1>3, <1>4, MemoryOf
<1>6. PICK m \in Nat : m = vector_size[o] - 1
  BY <1>1, <1>2
<1>7. PICK g : g = [B EXCEPT ![m + 1] = RAW]
  OBVIOUS
<1>8. /\ g \in Seq(Cells) /\ Len(g) = vector_capacity[o]
      /\ \A i \in 1 .. vector_capacity[o] : g[i] = IF i = m + 1 THEN RAW ELSE B[i]
  <2>1. RAW \in Cells /\ m + 1 \in 1 .. Len(B)
    BY <1>1, <1>2, <1>5, <1>6 DEF Cells
  <2> QED
    BY <2>1, <1>5, <1>7
<1>9. \A i \in 1 .. vector_capacity[o] : g[i] # RAW <=> i <= m
  BY <1>2, <1>5, <1>6, <1>8
<1>10. heap' = [heap EXCEPT ![vector_data[o]] = g]
  <2>1. vector_size[o] = m + 1
    BY <1>2, <1>6
  <2> QED
    BY <2>1, <1>1, <1>4, <1>7
<1>11. vector_size' = [vector_size EXCEPT ![o] = m] /\ m <= vector_capacity[o]
  BY <1>1, <1>2, <1>6
<1>12. VectorInv' /\ Becomes(o, [i \in 1 .. m |-> g[i]])
  BY <1>1, <1>3, <1>8, <1>9, <1>10, <1>11, WriteCorrect
<1>13. /\ [i \in 1 .. m |-> g[i]] = SubSeq(Vector!Elements(o), 1, Len(Vector!Elements(o)) - 1)
       /\ Vector!Elements(o) # <<>>
  <2>1. PICK q \in Seq(Values) : q = Vector!Elements(o)
    BY <1>2
  <2>2. \A i \in 1 .. m : g[i] = q[i]
    <3> SUFFICES ASSUME NEW i \in 1 .. m PROVE g[i] = q[i]
      OBVIOUS
    <3>1. i \in 1 .. vector_capacity[o] /\ i # m + 1 /\ i \in 1 .. vector_size[o]
      BY <1>2, <1>6
    <3>2. g[i] = B[i]
      BY <1>8, <3>1
    <3> QED
      BY <2>1, <1>1, <1>2, <1>4, <3>1, <3>2
  <2>3. Len(q) - 1 = m /\ m <= Len(q) /\ q # <<>>
    BY <2>1, <1>1, <1>2, <1>6
  <2>4. SubSeq(q, 1, m) = [i \in 1 .. m |-> q[i]]
    BY <2>1, <2>3
  <2>5. [i \in 1 .. m |-> g[i]] = [i \in 1 .. m |-> q[i]]
    BY <2>2
  <2> QED
    BY <2>1, <2>3, <2>4, <2>5
<1> QED
  BY <1>12, <1>13

\* clear()
LEMMA ClearCorrect ==
    ASSUME Vector!ConstantsOK, VectorInv, NEW o \in Vectors, Vector!clear(o)
    PROVE  VectorInv' /\ Becomes(o, <<>>)
<1>1. /\ o \in vectors_alive
      /\ heap' = IF vector_data[o] = NULL THEN heap
                 ELSE [heap EXCEPT ![vector_data[o]] =
                         [i \in DOMAIN @ |-> IF i <= vector_size[o] THEN RAW ELSE @[i]]]
      /\ vector_size' = [vector_size EXCEPT ![o] = 0]
      /\ UNCHANGED <<vectors_alive, vector_data, vector_capacity>>
  BY DEF Vector!clear
<1>2. /\ Vector!Elements(o) \in Seq(Values) /\ Len(Vector!Elements(o)) = vector_size[o]
      /\ vector_size[o] \in Nat /\ vector_capacity[o] \in Nat
           /\ vector_size[o] <= vector_capacity[o]
      /\ vector_data[o] = NULL <=> vector_capacity[o] = 0
  BY <1>1, ElementsAreValues
<1>3. CASE vector_data[o] = NULL
  <2>1. vector_size[o] = 0
    BY <1>2, <1>3
  <2>2. vector_size \in [Vectors -> Nat]
    BY DEF VectorInv, Owned, Typed
  <2>3. /\ heap' = heap /\ vector_size' = vector_size /\ vector_data' = vector_data
        /\ vector_capacity' = vector_capacity /\ vectors_alive' = vectors_alive
    BY <1>1, <1>3, <2>1, <2>2
  <2>4. VectorInv'
    BY <2>3 DEF VectorInv
  <2>5. Vector!Elements(o) = <<>>
    <3>1. PICK q \in Seq(Values) : q = Vector!Elements(o)
      BY <1>2
    <3> QED
      BY <3>1, <2>1, <1>2
  <2>6. \A p : Vector!Elements(p)' = Vector!Elements(p)
    BY <2>3, ElementsAreContents
  <2> QED
    BY <1>1, <2>3, <2>4, <2>5, <2>6 DEF Becomes
<1>4. CASE vector_data[o] # NULL
  <2>1. PICK B : B = heap[vector_data[o]]
    OBVIOUS
  <2>2. /\ vector_data[o] \in Buffers /\ DOMAIN heap = Buffers
        /\ B \in Seq(Cells) /\ Len(B) = vector_capacity[o]
        /\ \A i \in 1 .. vector_capacity[o] : B[i] # RAW <=> i <= vector_size[o]
    BY <1>1, <1>4, <2>1, MemoryOf
  <2>3. PICK g : g = [i \in DOMAIN B |-> IF i <= vector_size[o] THEN RAW ELSE B[i]]
    OBVIOUS
  <2>4. /\ DOMAIN B = 1 .. vector_capacity[o]
        /\ \A i \in 1 .. vector_capacity[o] : i > vector_size[o] => B[i] = RAW
    BY <1>2, <2>2
  <2>5. g \in [1 .. vector_capacity[o] -> Cells] /\ \A i \in 1 .. vector_capacity[o] :
          g[i] = RAW
    <3>1. RAW \in Cells
      BY DEF Cells
    <3> QED
      BY <3>1, <2>3, <2>4, <1>2
  <2>6. g \in Seq(Cells) /\ Len(g) = vector_capacity[o]
    BY <2>5, <1>2
  <2>7. heap' = [heap EXCEPT ![vector_data[o]] = g]
    BY <1>1, <1>4, <2>1, <2>3
  <2>8. /\ 0 \in Nat /\ 0 <= vector_capacity[o]
        /\ \A i \in 1 .. vector_capacity[o] : g[i] # RAW <=> i <= 0
    BY <1>2, <2>5
  <2>9. VectorInv' /\ Becomes(o, [i \in 1 .. 0 |-> g[i]])
    BY <1>1, <1>4, <2>6, <2>7, <2>8, WriteCorrect
  <2>10. [i \in 1 .. 0 |-> g[i]] = <<>>
    OBVIOUS
  <2> QED
    BY <2>9, <2>10
<1> QED
  BY <1>3, <1>4
-----------------------------------------------------------------------------
(* Vector: the invariant *)

\* Every step keeps the invariant.
LEMMA NextCorrect ==
    ASSUME Vector!ConstantsOK, VectorInv, [Vector!Next]_Vector!vars
    PROVE  VectorInv'
<1>1. CASE UNCHANGED Vector!vars
  BY <1>1 DEF Vector!vars, VectorInv
<1>2. CASE Vector!Next
  <2> USE <1>2
  <2>1. PICK o \in Vectors :
           \/ Vector!Construct(o) \/ Vector!Destruct(o) \/ Vector!PopBack(o) \/ Vector!clear(o)
           \/ \E n \in 0 .. MaxVector : Vector!ConstructSized(o, n)
           \/ \E v \in Values : Vector!PushBack(o, v) \/ Vector!PushBackGrows(o, v)
           \/ \E p \in Vectors : \/ Vector!CopyConstruct(o, p) \/ Vector!MoveConstruct(o, p)
                                 \/ Vector!CopyAssign(o, p) \/ Vector!MoveAssign(o, p)
    BY DEF Vector!Next
  <2>2. CASE Vector!Construct(o)
    BY <2>2, ConstructCorrect
  <2>3. CASE Vector!Destruct(o)
    BY <2>3, DestructCorrect
  <2>4. CASE Vector!PopBack(o)
    BY <2>4, PopBackCorrect
  <2>5. CASE Vector!clear(o)
    BY <2>5, ClearCorrect
  <2>6. ASSUME NEW n \in 0 .. MaxVector, Vector!ConstructSized(o, n)
        PROVE  VectorInv'
    BY <2>6, ConstructSizedCorrect
  <2>7. ASSUME NEW v \in Values, Vector!PushBack(o, v)
        PROVE  VectorInv'
    BY <2>7, PushBackCorrect
  <2>8. ASSUME NEW v \in Values, Vector!PushBackGrows(o, v)
        PROVE  VectorInv'
    BY <2>8, PushBackGrowsCorrect
  <2>9. ASSUME NEW p \in Vectors, Vector!CopyConstruct(o, p)
        PROVE  VectorInv'
    BY <2>9, CopyConstructCorrect
  <2>10. ASSUME NEW p \in Vectors, Vector!MoveConstruct(o, p)
         PROVE  VectorInv'
    BY <2>10, MoveConstructCorrect
  <2>11. ASSUME NEW p \in Vectors, Vector!CopyAssign(o, p)
         PROVE  VectorInv'
    BY <2>11, CopyAssignCorrect
  <2>12. ASSUME NEW p \in Vectors, Vector!MoveAssign(o, p)
         PROVE  VectorInv'
    BY <2>12, MoveAssignCorrect
  <2> QED
    BY <2>1, <2>2, <2>3, <2>4, <2>5, <2>6, <2>7, <2>8, <2>9, <2>10, <2>11, <2>12
<1> QED
  BY <1>1, <1>2

\* The invariant holds of every state, for every number of vectors, addresses
\* and values.
THEOREM VectorInvIsInductive == Vector!Spec => []VectorInv
<1>1. Vector!Init => VectorInv
  BY ContainersAssumption, InitCorrect
<1>2. VectorInv /\ [Vector!Next]_Vector!vars => VectorInv'
  BY ContainersAssumption, NextCorrect
<1> QED
  BY <1>1, <1>2, PTL DEF Vector!Spec

\* The invariant implies the property that the run checks.
LEMMA MemoryIsOwnedFromInv ==
    ASSUME VectorInv
    PROVE  Vector!MemoryIsOwned
<1>1. /\ \A b \in Buffers : heap[b] # FREE => \E o \in vectors_alive : vector_data[o] = b
      /\ \A o \in vectors_alive : Agree(heap, vector_data, vector_size, vector_capacity, o)
      /\ \A o, p \in vectors_alive :
           vector_data[o] # NULL /\ vector_data[o] = vector_data[p] => o = p
  BY DEF VectorInv, Owned
<1> QED
  BY <1>1 DEF Vector!MemoryIsOwned, Agree

\* Memory that is allocated belongs to exactly one vector, whose capacity is
\* its length, and elements are where the size says: no operation leaks
\* memory, frees it twice, or forgets a constructor or a destructor.
THEOREM MemoryIsOwnedCorrect == Vector!Spec => []MemoryIsOwned
<1>1. VectorInv => MemoryIsOwned
  BY ContainersAssumption, MemoryIsOwnedFromInv DEF MemoryIsOwned
<1>2. Vector!Spec => []VectorInv
  BY VectorInvIsInductive
<1> QED
  BY <1>1, <1>2, PTL

-----------------------------------------------------------------------------
(* The refinement: each operation is that of ValueSequences with the same  *)
(* name                                                                    *)

Lists == [o \in vectors_alive |-> Vector!Elements(o)]

\* When o becomes q, the lists change at o.
LEMMA BecomesIsWith ==
    ASSUME NEW o, NEW q, Becomes(o, q)
    PROVE  Lists' = Vector!VS!With(o, q)
<1>1. /\ vectors_alive' = vectors_alive \cup {o} /\ Vector!Elements(o)' = q
      /\ \A p \in vectors_alive \ {o} : Vector!Elements(p)' = Vector!Elements(p)
  BY DEF Becomes
<1>2. Lists' = [p \in vectors_alive' |-> Vector!Elements(p)']
  BY DEF Lists
<1>3. Vector!VS!With(o, q) = [p \in vectors_alive \cup {o} |-> IF p = o THEN q ELSE Lists[p]]
  BY DEF Vector!VS!With, Lists
<1>4. \A p \in vectors_alive \cup {o} : Vector!Elements(p)' = IF p = o THEN q ELSE Lists[p]
  BY <1>1 DEF Lists
<1> QED
  BY <1>1, <1>2, <1>3, <1>4

\* A list that passes from p to o is a step Move of the sequences.
LEMMA MovesIsMove ==
    ASSUME NEW o, NEW p, Moves(o, p)
    PROVE  Vector!VS!Move(o, p)
<1>1. /\ p \in vectors_alive /\ p # o /\ vectors_alive' = vectors_alive \cup {o}
      /\ Vector!Elements(o)' = Vector!Elements(p) /\ Vector!Elements(p)' = <<>>
      /\ \A r \in vectors_alive \ {o, p} : Vector!Elements(r)' = Vector!Elements(r)
  BY DEF Moves
<1>2. PICK W : W = Vector!VS!With(o, Lists[p])
  OBVIOUS
<1>3. W = [r \in vectors_alive \cup {o} |-> IF r = o THEN Lists[p] ELSE Lists[r]]
  BY <1>2 DEF Vector!VS!With, Lists
<1>4. Lists' = [r \in vectors_alive \cup {o} |-> Vector!Elements(r)']
  BY <1>1 DEF Lists
<1>5. \A r \in vectors_alive : Lists[r] = Vector!Elements(r)
  BY DEF Lists
<1>6. \A r \in vectors_alive \cup {o} : Vector!Elements(r)' = [W EXCEPT ![p] = <<>>][r]
  BY <1>1, <1>3, <1>5
<1>7. [W EXCEPT ![p] = <<>>] = [r \in vectors_alive \cup {o} |-> [W EXCEPT ![p] = <<>>][r]]
  BY <1>3
<1>8. Lists' = [W EXCEPT ![p] = <<>>]
  BY <1>4, <1>6, <1>7
<1>9. p \in DOMAIN Lists
  BY <1>1 DEF Lists
<1> QED
  BY <1>1, <1>2, <1>8, <1>9 DEF Vector!VS!Move, Vector!VS!Exists, Lists

\* A list that goes with its vector is a step Destroy.
LEMMA VanishesIsDestroy ==
    ASSUME NEW o, Vanishes(o)
    PROVE  Vector!VS!Destroy(o)
<1>1. /\ o \in vectors_alive /\ vectors_alive' = vectors_alive \ {o}
      /\ \A p \in vectors_alive \ {o} : Vector!Elements(p)' = Vector!Elements(p)
  BY DEF Vanishes
<1>2. Lists' = [p \in vectors_alive \ {o} |-> Vector!Elements(p)']
  BY <1>1 DEF Lists
<1>3. \A p \in vectors_alive \ {o} : Vector!Elements(p)' = Lists[p]
  BY <1>1 DEF Lists
<1>4. o \in DOMAIN Lists /\ DOMAIN Lists = vectors_alive
  BY <1>1 DEF Lists
<1>5. Lists' = [p \in DOMAIN Lists \ {o} |-> Lists[p]]
  BY <1>2, <1>3, <1>4
<1> QED
  BY <1>4, <1>5 DEF Vector!VS!Destroy, Vector!VS!Exists, Lists
\* Every step is one of independent sequences.
LEMMA NextIsNext ==
    ASSUME Vector!ConstantsOK, VectorInv, Vector!Next
    PROVE  Vector!VS!Next
<1>1. PICK o \in Vectors :
         \/ Vector!Construct(o) \/ Vector!Destruct(o) \/ Vector!PopBack(o) \/ Vector!clear(o)
         \/ \E n \in 0 .. MaxVector : Vector!ConstructSized(o, n)
         \/ \E v \in Values : Vector!PushBack(o, v) \/ Vector!PushBackGrows(o, v)
         \/ \E p \in Vectors : \/ Vector!CopyConstruct(o, p) \/ Vector!MoveConstruct(o, p)
                               \/ Vector!CopyAssign(o, p) \/ Vector!MoveAssign(o, p)
  BY DEF Vector!Next
<1>2. /\ DOMAIN Lists = vectors_alive /\ \A p \in vectors_alive : Lists[p] = Vector!Elements(p)
      /\ MaxVector \in Nat
  BY DEF Lists, Vector!ConstantsOK
<1>3. CASE Vector!Construct(o)
  <2>1. Becomes(o, <<>>) /\ o \notin vectors_alive
    BY <1>3, ConstructCorrect DEF Vector!Construct
  <2>2. [i \in 1 .. 0 |-> DEFAULT] = <<>>
    OBVIOUS
  <2>3. Lists' = Vector!VS!With(o, [i \in 1 .. 0 |-> DEFAULT])
    BY <2>1, <2>2, BecomesIsWith
  <2>4. Vector!VS!Create(o, 0)
    BY <2>1, <2>3, <1>2 DEF Vector!VS!Create, Lists
  <2>5. 0 \in 0 .. MaxVector
    BY <1>2
  <2> QED
    BY <2>4, <2>5 DEF Vector!VS!Next
<1>4. CASE Vector!Destruct(o)
  <2>1. Vector!VS!Destroy(o)
    BY <1>4, DestructCorrect, VanishesIsDestroy
  <2> QED
    BY <2>1 DEF Vector!VS!Next
<1>5. CASE Vector!PopBack(o)
  <2>1. /\ o \in vectors_alive /\ Vector!Elements(o) # <<>>
        /\ Becomes(o, SubSeq(Vector!Elements(o), 1, Len(Vector!Elements(o)) - 1))
    BY <1>5, PopBackCorrect DEF Vector!PopBack
  <2>2. Lists' = Vector!VS!With(o, SubSeq(Vector!Elements(o), 1, Len(Vector!Elements(o)) - 1))
    BY <2>1, BecomesIsWith
  <2>3. Vector!VS!PopBack(o)
    BY <2>1, <2>2, <1>2 DEF Vector!VS!PopBack, Vector!VS!Exists, Lists
  <2> QED
    BY <2>3 DEF Vector!VS!Next
<1>6. CASE Vector!clear(o)
  <2>1. o \in vectors_alive /\ Becomes(o, <<>>)
    BY <1>6, ClearCorrect DEF Vector!clear
  <2>2. Lists' = Vector!VS!With(o, <<>>)
    BY <2>1, BecomesIsWith
  <2>3. Vector!VS!Clear(o)
    BY <2>1, <2>2, <1>2 DEF Vector!VS!Clear, Vector!VS!Exists, Lists
  <2> QED
    BY <2>3 DEF Vector!VS!Next
<1>7. ASSUME NEW n \in 0 .. MaxVector, Vector!ConstructSized(o, n)
      PROVE  Vector!VS!Next
  <2>1. o \notin vectors_alive /\ Becomes(o, [i \in 1 .. n |-> DEFAULT])
    BY <1>7, ConstructSizedCorrect DEF Vector!ConstructSized
  <2>2. Lists' = Vector!VS!With(o, [i \in 1 .. n |-> DEFAULT])
    BY <2>1, BecomesIsWith
  <2>3. Vector!VS!Create(o, n)
    BY <2>1, <2>2, <1>2 DEF Vector!VS!Create, Lists
  <2> QED
    BY <2>3 DEF Vector!VS!Next
<1>8. ASSUME NEW v \in Values, Vector!PushBack(o, v) \/ Vector!PushBackGrows(o, v)
      PROVE  Vector!VS!Next
  <2>1. o \in vectors_alive
    BY <1>8 DEF Vector!PushBack, Vector!PushBackGrows
  <2>2. Becomes(o, Append(Vector!Elements(o), v))
    BY <1>8, PushBackCorrect, PushBackGrowsCorrect
  <2>3. Lists' = Vector!VS!With(o, Append(Vector!Elements(o), v))
    BY <2>2, BecomesIsWith
  <2>4. Vector!VS!PushBack(o, v)
    BY <2>1, <2>3, <1>2 DEF Vector!VS!PushBack, Vector!VS!Exists, Lists
  <2> QED
    BY <2>4 DEF Vector!VS!Next
<1>9. ASSUME NEW p \in Vectors, Vector!CopyConstruct(o, p) \/ Vector!CopyAssign(o, p)
      PROVE  Vector!VS!Next
  <2>1. p \in vectors_alive
    BY <1>9 DEF Vector!CopyConstruct, Vector!CopyAssign
  <2>2. Becomes(o, Vector!Elements(p))
    BY <1>9, CopyConstructCorrect, CopyAssignCorrect
  <2>3. Lists' = Vector!VS!With(o, Vector!Elements(p))
    BY <2>2, BecomesIsWith
  <2>4. Vector!VS!Copy(o, p)
    BY <2>1, <2>3, <1>2 DEF Vector!VS!Copy, Vector!VS!Exists, Lists
  <2> QED
    BY <2>4 DEF Vector!VS!Next
<1>10. ASSUME NEW p \in Vectors, Vector!MoveConstruct(o, p) \/ Vector!MoveAssign(o, p)
       PROVE  Vector!VS!Next
  <2>1. Vector!VS!Move(o, p)
    BY <1>10, MoveConstructCorrect, MoveAssignCorrect, MovesIsMove
  <2> QED
    BY <2>1 DEF Vector!VS!Next
<1> QED
  BY <1>1, <1>3, <1>4, <1>5, <1>6, <1>7, <1>8, <1>9, <1>10

\* Vectors behave as sequences of their own: a copy is independent of the
\* original, a move leaves nothing behind, and nothing that is done to one
\* vector shows in another.
THEOREM VectorsAreSequences == Vector!Spec => ImplementsValueSequences
<1>1. Vector!Init => Vector!VS!Init
  <2> SUFFICES ASSUME Vector!Init PROVE Lists = <<>>
    BY DEF Vector!VS!Init, Lists
  <2>1. vectors_alive = {}
    BY DEF Vector!Init
  <2> QED
    BY <2>1 DEF Lists
<1>2. VectorInv /\ [Vector!Next]_Vector!vars => [Vector!VS!Next]_Lists
  <2> SUFFICES ASSUME VectorInv, [Vector!Next]_Vector!vars PROVE [Vector!VS!Next]_Lists
    OBVIOUS
  <2>1. CASE UNCHANGED Vector!vars
    <3>1. Lists' = Lists
      BY <2>1 DEF Vector!vars, Lists, Vector!Elements, Vector!ElementsIn, Vector!Read
    <3> QED
      BY <3>1
  <2>2. CASE Vector!Next
    BY <2>2, ContainersAssumption, NextIsNext
  <2> QED
    BY <2>1, <2>2
<1>3. Vector!Spec => []VectorInv
  BY VectorInvIsInductive
<1>4. VectorInv /\ [Vector!Next]_Vector!vars
        => [Vector!VS!Next]_([o \in vectors_alive |-> Vector!Elements(o)])
  BY <1>2 DEF Lists
<1> QED
  BY <1>1, <1>3, <1>4, PTL
     DEF Vector!Spec, ImplementsValueSequences, Vector!ImplementsValueSequences, Vector!VS!Spec

-----------------------------------------------------------------------------
(* ChunkedVector: blocks and offsets *)

\* Block and offset are the two digits of an index.
LEMMA BlockAndOffset ==
    ASSUME Chunks!ConstantsOK, NEW i \in Nat
    PROVE  /\ Chunks!BlockOf(i) \in Nat
           /\ Chunks!OffsetOf(i) \in 0 .. BlockSize - 1
           /\ i = BlockSize * Chunks!BlockOf(i) + Chunks!OffsetOf(i)
<1>1. BlockSize \in Nat /\ BlockSize > 0
  BY DEF Chunks!ConstantsOK
<1> QED
  BY <1>1 DEF Chunks!BlockOf, Chunks!OffsetOf

\* There is one way only to put an index together.
LEMMA TwoDigits ==
    ASSUME NEW s \in Nat, NEW b \in Nat, NEW c \in Nat,
           NEW o \in 0 .. s - 1, NEW p \in 0 .. s - 1,
           s * b + o = s * c + p
    PROVE  b = c /\ o = p
<1>1. ~ (b < c)
  <2> SUFFICES ASSUME b < c PROVE FALSE
    OBVIOUS
  <2>1. PICK d \in Nat : c = b + 1 + d
    BY c - b - 1 \in Nat
  <2>2. s * c = s * b + s + s * d /\ s * d >= 0
    BY <2>1
  <2> QED
    BY <2>2
<1>2. ~ (c < b)
  <2> SUFFICES ASSUME c < b PROVE FALSE
    OBVIOUS
  <2>1. PICK d \in Nat : b = c + 1 + d
    BY b - c - 1 \in Nat
  <2>2. s * b = s * c + s + s * d /\ s * d >= 0
    BY <2>1
  <2> QED
    BY <2>2
<1> QED
  BY <1>1, <1>2

\* The index that a block and an offset make.
LEMMA IndexOf ==
    ASSUME Chunks!ConstantsOK, NEW b \in Nat, NEW o \in 0 .. BlockSize - 1
    PROVE  /\ BlockSize * b + o \in Nat
           /\ Chunks!BlockOf(BlockSize * b + o) = b
           /\ Chunks!OffsetOf(BlockSize * b + o) = o
<1>1. BlockSize \in Nat
  BY DEF Chunks!ConstantsOK
<1>2. BlockSize * b + o \in Nat
  BY <1>1
<1>3. PICK c \in Nat, p \in 0 .. BlockSize - 1 :
          /\ c = Chunks!BlockOf(BlockSize * b + o)
          /\ p = Chunks!OffsetOf(BlockSize * b + o)
  BY <1>2, BlockAndOffset
<1>4. BlockSize * b + o = BlockSize * c + p
  BY <1>2, <1>3, BlockAndOffset
<1>5. b = c /\ o = p
  BY <1>1, <1>4, TwoDigits
<1> QED
  BY <1>2, <1>3, <1>5

\* The index after i.
LEMMA Successor ==
    ASSUME Chunks!ConstantsOK, NEW i \in Nat
    PROVE  /\ Chunks!BlockOf(i + 1) =
                 IF Chunks!OffsetOf(i) = BlockSize - 1
                 THEN Chunks!BlockOf(i) + 1 ELSE Chunks!BlockOf(i)
           /\ Chunks!OffsetOf(i + 1) =
                 IF Chunks!OffsetOf(i) = BlockSize - 1 THEN 0 ELSE Chunks!OffsetOf(i) + 1
<1>1. BlockSize \in Nat /\ BlockSize > 0
  BY DEF Chunks!ConstantsOK
<1>2. PICK b \in Nat : b = Chunks!BlockOf(i)
  BY BlockAndOffset
<1>3. PICK o \in 0 .. BlockSize - 1 : o = Chunks!OffsetOf(i)
  BY BlockAndOffset
<1>4. i = BlockSize * b + o
  BY <1>2, <1>3, BlockAndOffset
<1>5. CASE o = BlockSize - 1
  <2>1. i + 1 = BlockSize * (b + 1) + 0
    BY <1>1, <1>4, <1>5
  <2>2. b + 1 \in Nat /\ 0 \in 0 .. BlockSize - 1
    BY <1>1
  <2>3. Chunks!BlockOf(i + 1) = b + 1 /\ Chunks!OffsetOf(i + 1) = 0
    BY <2>1, <2>2, IndexOf
  <2> QED
    BY <2>3, <1>2, <1>3, <1>5
<1>6. CASE o # BlockSize - 1
  <2>1. i + 1 = BlockSize * b + (o + 1)
    BY <1>1, <1>4
  <2>2. o + 1 \in 0 .. BlockSize - 1
    BY <1>1, <1>6
  <2>3. Chunks!BlockOf(i + 1) = b /\ Chunks!OffsetOf(i + 1) = o + 1
    BY <2>1, <2>2, IndexOf
  <2> QED
    BY <2>3, <1>2, <1>3, <1>6
<1> QED
  BY <1>5, <1>6

\* n elements fill BlockOf(n) blocks, and OffsetOf(n) places of another one.
LEMMA BlocksForElements ==
    ASSUME Chunks!ConstantsOK, NEW n \in Nat
    PROVE  Chunks!BlocksFor(n) = IF Chunks!OffsetOf(n) = 0 THEN Chunks!BlockOf(n)
             ELSE Chunks!BlockOf(n) + 1
<1>1. BlockSize \in Nat /\ BlockSize > 0
  BY DEF Chunks!ConstantsOK
<1>2. PICK b \in Nat : b = Chunks!BlockOf(n)
  BY BlockAndOffset
<1>3. PICK o \in 0 .. BlockSize - 1 : o = Chunks!OffsetOf(n)
  BY BlockAndOffset
<1>4. n = BlockSize * b + o
  BY <1>2, <1>3, BlockAndOffset
<1>5. Chunks!BlocksFor(n) = Chunks!BlockOf(n + BlockSize - 1)
  BY DEF Chunks!BlocksFor, Chunks!BlockOf
<1>6. CASE o = 0
  <2>1. n + BlockSize - 1 = BlockSize * b + (BlockSize - 1)
    BY <1>1, <1>4, <1>6
  <2>2. BlockSize - 1 \in 0 .. BlockSize - 1
    BY <1>1
  <2>3. Chunks!BlockOf(n + BlockSize - 1) = b
    BY <2>1, <2>2, IndexOf
  <2> QED
    BY <2>3, <1>2, <1>3, <1>5, <1>6
<1>7. CASE o # 0
  <2>1. n + BlockSize - 1 = BlockSize * (b + 1) + (o - 1)
    BY <1>1, <1>4
  <2>2. o - 1 \in 0 .. BlockSize - 1 /\ b + 1 \in Nat
    BY <1>1, <1>7
  <2>3. Chunks!BlockOf(n + BlockSize - 1) = b + 1
    BY <2>1, <2>2, IndexOf
  <2> QED
    BY <2>3, <1>2, <1>3, <1>5, <1>7
<1> QED
  BY <1>6, <1>7

\* An index before n is in a block before, or in the same at a smaller offset.
LEMMA Before ==
    ASSUME Chunks!ConstantsOK, NEW i \in Nat, NEW n \in Nat, i < n
    PROVE  \/ Chunks!BlockOf(i) < Chunks!BlockOf(n)
           \/ Chunks!BlockOf(i) = Chunks!BlockOf(n) /\ Chunks!OffsetOf(i) < Chunks!OffsetOf(n)
<1>1. BlockSize \in Nat /\ BlockSize > 0
  BY DEF Chunks!ConstantsOK
<1>2. PICK b \in Nat, c \in Nat : b = Chunks!BlockOf(i) /\ c = Chunks!BlockOf(n)
  BY BlockAndOffset
<1>3. PICK o \in 0 .. BlockSize - 1, p \in 0 .. BlockSize - 1 :
             o = Chunks!OffsetOf(i) /\ p = Chunks!OffsetOf(n)
  BY BlockAndOffset
<1>4. i = BlockSize * b + o /\ n = BlockSize * c + p
  BY <1>2, <1>3, BlockAndOffset
<1>5. CASE b < c
  BY <1>5, <1>2
<1>6. CASE b = c
  <2>1. o < p
    BY <1>1, <1>4, <1>6
  <2> QED
    BY <2>1, <1>2, <1>3, <1>6
<1>7. ~ (c < b)
  <2> SUFFICES ASSUME c < b PROVE FALSE
    OBVIOUS
  <2>1. PICK d \in Nat : b = c + 1 + d
    BY b - c - 1 \in Nat
  <2>2. BlockSize * b = BlockSize * c + BlockSize + BlockSize * d /\ BlockSize * d >= 0
    BY <1>1, <2>1
  <2> QED
    BY <1>1, <1>4, <2>2
<1> QED
  BY <1>5, <1>6, <1>7
-----------------------------------------------------------------------------
(* ChunkedVector: the invariant *)

\* n elements in blocks that are full, but for the final one.
Fits(blocks, n) ==
    /\ blocks \in Seq(Seq(Values))
    /\ Len(blocks) = Chunks!BlocksFor(n)
    /\ \A k \in 1 .. Len(blocks) :
          Len(blocks[k]) = IF k <= Chunks!BlockOf(n) THEN BlockSize ELSE Chunks!OffsetOf(n)

ChunkInv == total_size_ \in Nat /\ Fits(blocks_, total_size_)

\* What is at an index.
ElementAt(blocks, i) == blocks[Chunks!BlockOf(i) + 1][Chunks!OffsetOf(i) + 1]

\* An index before n finds an element.
LEMMA ElementIsThere ==
    ASSUME Chunks!ConstantsOK, NEW n \in Nat, NEW blocks, Fits(blocks, n),
           NEW i \in Nat, i < n
    PROVE  /\ Chunks!BlockOf(i) + 1 \in 1 .. Len(blocks)
           /\ Chunks!OffsetOf(i) + 1 \in 1 .. Len(blocks[Chunks!BlockOf(i) + 1])
           /\ ElementAt(blocks, i) \in Values
<1>1. BlockSize \in Nat /\ BlockSize > 0
  BY DEF Chunks!ConstantsOK
<1>2. PICK b \in Nat, c \in Nat : b = Chunks!BlockOf(i) /\ c = Chunks!BlockOf(n)
  BY BlockAndOffset
<1>3. PICK o \in 0 .. BlockSize - 1, p \in 0 .. BlockSize - 1 :
             o = Chunks!OffsetOf(i) /\ p = Chunks!OffsetOf(n)
  BY BlockAndOffset
<1>4. b < c \/ (b = c /\ o < p)
  BY <1>2, <1>3, Before
<1>5. Len(blocks) = IF p = 0 THEN c ELSE c + 1
  BY <1>2, <1>3, BlocksForElements DEF Fits
<1>6. b + 1 \in 1 .. Len(blocks)
  BY <1>1, <1>4, <1>5
<1>7. Len(blocks[b + 1]) = IF b + 1 <= c THEN BlockSize ELSE p
  BY <1>2, <1>3, <1>6 DEF Fits
<1>8. o + 1 \in 1 .. Len(blocks[b + 1])
  BY <1>1, <1>4, <1>7
<1>9. blocks \in Seq(Seq(Values))
  BY DEF Fits
<1>10. blocks[b + 1] \in Seq(Values)
  BY <1>6, <1>9
<1>11. blocks[b + 1][o + 1] \in Values
  BY <1>8, <1>10
<1> QED
  BY <1>2, <1>3, <1>6, <1>8, <1>11 DEF ElementAt

\* The list that the vector stands for.
ListOf(blocks, n) == [i \in 1 .. n |-> ElementAt(blocks, i - 1)]
ChunkList == [i \in 1 .. total_size_ |-> Chunks!At(i - 1)]

\* It has as many elements as the vector says.
LEMMA ListIsSequence ==
    ASSUME Chunks!ConstantsOK, NEW n \in Nat, NEW blocks, Fits(blocks, n)
    PROVE  ListOf(blocks, n) \in Seq(Values) /\ Len(ListOf(blocks, n)) = n
<1>1. \A i \in 1 .. n : i - 1 \in Nat /\ i - 1 < n
  OBVIOUS
<1>2. \A i \in 1 .. n : ElementAt(blocks, i - 1) \in Values
  BY <1>1, ElementIsThere
<1>3. ListOf(blocks, n) \in [1 .. n -> Values]
  BY <1>2 DEF ListOf
<1> QED
  BY <1>3

\* operator[] looks where the elements are.
LEMMA ChunkListIsListOf ==
    ASSUME Chunks!ConstantsOK, ChunkInv
    PROVE  ChunkList = ListOf(blocks_, total_size_)
<1>1. total_size_ \in Nat /\ Fits(blocks_, total_size_)
  BY DEF ChunkInv
<1>2. \A i \in 1 .. total_size_ : i - 1 \in Nat /\ i - 1 < total_size_
  BY <1>1
<1>3. DOMAIN blocks_ = 1 .. Len(blocks_)
  BY <1>1 DEF Fits
<1>4. ASSUME NEW i \in 1 .. total_size_
      PROVE  Chunks!At(i - 1) = ElementAt(blocks_, i - 1)
  <2>1. /\ Chunks!BlockOf(i - 1) + 1 \in 1 .. Len(blocks_)
        /\ Chunks!OffsetOf(i - 1) + 1 \in 1 .. Len(blocks_[Chunks!BlockOf(i - 1) + 1])
    BY <1>1, <1>2, ElementIsThere
  <2>2. blocks_[Chunks!BlockOf(i - 1) + 1] \in Seq(Values)
    BY <1>1, <2>1 DEF Fits
  <2>3. DOMAIN blocks_[Chunks!BlockOf(i - 1) + 1] = 1 .. Len(blocks_[Chunks!BlockOf(i - 1) + 1])
    BY <2>2
  <2> QED
    BY <1>3, <2>1, <2>3 DEF Chunks!At, ElementAt
<1> QED
  BY <1>4 DEF ChunkList, ListOf

-----------------------------------------------------------------------------
(* ChunkedVector: the operations *)

\* No elements take no blocks.
LEMMA NoBlocks ==
    ASSUME Chunks!ConstantsOK
    PROVE  Fits(<<>>, 0) /\ ListOf(<<>>, 0) = <<>>
<1>1. BlockSize \in Nat /\ BlockSize > 0
  BY DEF Chunks!ConstantsOK
<1>2. 0 = BlockSize * 0 + 0 /\ 0 \in 0 .. BlockSize - 1
  BY <1>1
<1>3. Chunks!BlockOf(0) = 0 /\ Chunks!OffsetOf(0) = 0
  BY <1>2, IndexOf
<1>4. Chunks!BlocksFor(0) = 0
  BY <1>3, BlocksForElements
<1> QED
  BY <1>4 DEF Fits, ListOf

\* ensure_back_block() finds or makes the block that the next element goes to.
LEMMA BackBlock ==
    ASSUME Chunks!ConstantsOK, ChunkInv
    PROVE  LET b == Chunks!BlockOf(total_size_)
               o == Chunks!OffsetOf(total_size_)
           IN  /\ Chunks!Ensured \in Seq(Seq(Values))
               /\ Len(Chunks!Ensured) = b + 1
               /\ \A k \in 1 .. b :
                    Chunks!Ensured[k] = blocks_[k] /\ Len(Chunks!Ensured[k]) = BlockSize
               /\ Len(Chunks!Ensured[b + 1]) = o
               /\ o > 0 => Chunks!Ensured[b + 1] = blocks_[b + 1]
<1>1. BlockSize \in Nat /\ BlockSize > 0
  BY DEF Chunks!ConstantsOK
<1>2. total_size_ \in Nat /\ blocks_ \in Seq(Seq(Values))
  BY DEF ChunkInv, Fits
<1>3. PICK b \in Nat : b = Chunks!BlockOf(total_size_)
  BY <1>2, BlockAndOffset
<1>4. PICK o \in 0 .. BlockSize - 1 : o = Chunks!OffsetOf(total_size_)
  BY <1>2, BlockAndOffset
<1>5. Len(blocks_) = IF o = 0 THEN b ELSE b + 1
  BY <1>2, <1>3, <1>4, BlocksForElements DEF ChunkInv, Fits
<1>6. \A k \in 1 .. Len(blocks_) : Len(blocks_[k]) = IF k <= b THEN BlockSize ELSE o
  BY <1>3, <1>4 DEF ChunkInv, Fits
<1>7. CASE o = 0
  <2>1. Chunks!NeedsBlock(blocks_)
    <3>1. CASE b = 0
      BY <1>2, <1>5, <1>7, <3>1 DEF Chunks!NeedsBlock
    <3>2. CASE b # 0
      <4>1. b \in 1 .. Len(blocks_) /\ b = Len(blocks_)
        BY <1>5, <1>7, <3>2
      <4> QED
        BY <1>6, <4>1 DEF Chunks!NeedsBlock, Chunks!Last
    <3> QED
      BY <3>1, <3>2
  <2>2. Chunks!Ensured = Append(blocks_, <<>>)
    BY <2>1 DEF Chunks!Ensured
  <2>3. /\ Chunks!Ensured \in Seq(Seq(Values))
        /\ Len(Chunks!Ensured) = b + 1
        /\ Chunks!Ensured[b + 1] = <<>>
        /\ \A k \in 1 .. b : Chunks!Ensured[k] = blocks_[k]
    BY <1>2, <1>5, <1>7, <2>2
  <2>4. \A k \in 1 .. b : Len(Chunks!Ensured[k]) = BlockSize
    BY <1>5, <1>6, <1>7, <2>3
  <2>5. Len(Chunks!Ensured[b + 1]) = o /\ ~ o > 0
    BY <1>7, <2>3
  <2> QED
    BY <1>3, <1>4, <2>3, <2>4, <2>5
<1>8. CASE o # 0
  <2>1. Len(blocks_) = b + 1 /\ blocks_ # <<>>
    BY <1>5, <1>8
  <2>2. Len(Chunks!Last(blocks_)) = o
    BY <1>6, <2>1 DEF Chunks!Last
  <2>3. Chunks!Ensured = blocks_
    BY <1>1, <2>1, <2>2 DEF Chunks!Ensured, Chunks!NeedsBlock
  <2>4. \A k \in 1 .. b : Len(Chunks!Ensured[k]) = BlockSize
    BY <1>6, <2>1, <2>3
  <2>5. Len(Chunks!Ensured[b + 1]) = o
    BY <1>6, <2>1, <2>3
  <2> QED
    BY <1>2, <1>3, <1>4, <2>1, <2>3, <2>4, <2>5
<1> QED
  BY <1>7, <1>8

\* The blocks t and s agree on what is before index m.
AgreeBefore(t, s, m) ==
    /\ \A k \in 1 .. Chunks!BlockOf(m) : t[k] = s[k]
    /\ \A j \in 1 .. Chunks!OffsetOf(m) :
          t[Chunks!BlockOf(m) + 1][j] = s[Chunks!BlockOf(m) + 1][j]

\* Such blocks have the same elements there.
LEMMA SameElements ==
    ASSUME Chunks!ConstantsOK, NEW m \in Nat, NEW s, NEW t, AgreeBefore(t, s, m)
    PROVE  \A i \in 0 .. m - 1 : ElementAt(t, i) = ElementAt(s, i)
<1> SUFFICES ASSUME NEW i \in 0 .. m - 1 PROVE ElementAt(t, i) = ElementAt(s, i)
  OBVIOUS
<1>1. i \in Nat /\ i < m
  OBVIOUS
<1>2. PICK b \in Nat, o \in 0 .. BlockSize - 1 : b = Chunks!BlockOf(m) /\ o = Chunks!OffsetOf(m)
  BY BlockAndOffset
<1>3. PICK c \in Nat, p \in 0 .. BlockSize - 1 : c = Chunks!BlockOf(i) /\ p = Chunks!OffsetOf(i)
  BY <1>1, BlockAndOffset
<1>4. c < b \/ (c = b /\ p < o)
  BY <1>1, <1>2, <1>3, Before
<1>5. CASE c < b
  <2>1. c + 1 \in 1 .. b
    BY <1>5
  <2> QED
    BY <1>2, <1>3, <2>1 DEF AgreeBefore, ElementAt
<1>6. CASE c = b /\ p < o
  <2>1. p + 1 \in 1 .. o
    BY <1>6
  <2> QED
    BY <1>2, <1>3, <1>6, <2>1 DEF AgreeBefore, ElementAt
<1> QED
  BY <1>4, <1>5, <1>6

\* What the list becomes, by what is at its indices.
LEMMA ListAppends ==
    ASSUME NEW n \in Nat, NEW s, NEW t, NEW v \in Values,
           ListOf(s, n) \in Seq(Values), Len(ListOf(s, n)) = n,
           \A i \in 0 .. n - 1 : ElementAt(t, i) = ElementAt(s, i),
           ElementAt(t, n) = v
    PROVE  ListOf(t, n + 1) = Append(ListOf(s, n), v)
<1>1. \A i \in 1 .. n + 1 : ListOf(t, n + 1)[i] = IF i <= n THEN ElementAt(s, i - 1) ELSE v
  <2> SUFFICES ASSUME NEW i \in 1 .. n + 1
               PROVE  ListOf(t, n + 1)[i] = IF i <= n THEN ElementAt(s, i - 1) ELSE v
    OBVIOUS
  <2>1. ListOf(t, n + 1)[i] = ElementAt(t, i - 1)
    BY DEF ListOf
  <2>2. CASE i <= n
    <3>1. i - 1 \in 0 .. n - 1
      BY <2>2
    <3> QED
      BY <2>1, <2>2, <3>1
  <2>3. CASE ~ i <= n
    <3>1. i - 1 = n
      BY <2>3
    <3> QED
      BY <2>1, <2>3, <3>1
  <2> QED
    BY <2>2, <2>3
<1>2. \A i \in 1 .. n : ListOf(s, n)[i] = ElementAt(s, i - 1)
  BY DEF ListOf
<1>3. /\ Append(ListOf(s, n), v) \in Seq(Values)
      /\ Len(Append(ListOf(s, n), v)) = n + 1
      /\ \A i \in 1 .. n + 1 :
           Append(ListOf(s, n), v)[i] = IF i <= n THEN ElementAt(s, i - 1) ELSE v
  BY <1>2
<1>4. \A i \in 1 .. n + 1 : ListOf(t, n + 1)[i] = Append(ListOf(s, n), v)[i]
  BY <1>1, <1>3
<1>5. DOMAIN ListOf(t, n + 1) = 1 .. n + 1
  BY DEF ListOf
<1>6. \A i \in 1 .. n + 1 : ListOf(t, n + 1)[i] \in Values
  BY <1>3, <1>4
<1>7. ListOf(t, n + 1) \in Seq(Values) /\ Len(ListOf(t, n + 1)) = n + 1
  <2>1. ListOf(t, n + 1) \in [1 .. n + 1 -> Values]
    BY <1>6 DEF ListOf
  <2> QED
    BY <2>1
<1> QED
  BY <1>3, <1>4, <1>7, SeqEqual

\* push_back()
LEMMA ChunkPushCorrect ==
    ASSUME Chunks!ConstantsOK, ChunkInv, NEW v \in Values, Chunks!push_back(v)
    PROVE  ChunkInv' /\ ListOf(blocks_, total_size_)' = Append(ListOf(blocks_, total_size_), v)
<1>1. BlockSize \in Nat /\ BlockSize > 0
  BY DEF Chunks!ConstantsOK
<1>2. total_size_ \in Nat /\ total_size_' = total_size_ + 1
  BY DEF ChunkInv, Chunks!push_back
<1>3. PICK b \in Nat : b = Chunks!BlockOf(total_size_)
  BY <1>2, BlockAndOffset
<1>4. PICK o \in 0 .. BlockSize - 1 : o = Chunks!OffsetOf(total_size_)
  BY <1>2, BlockAndOffset
<1>5. /\ Chunks!Ensured \in Seq(Seq(Values))
      /\ Len(Chunks!Ensured) = b + 1
      /\ \A k \in 1 .. b : Chunks!Ensured[k] = blocks_[k] /\ Len(Chunks!Ensured[k]) = BlockSize
      /\ Len(Chunks!Ensured[b + 1]) = o
      /\ o > 0 => Chunks!Ensured[b + 1] = blocks_[b + 1]
  BY <1>3, <1>4, BackBlock
<1>6. b + 1 \in 1 .. Len(Chunks!Ensured) /\ Chunks!Ensured[b + 1] \in Seq(Values)
  BY <1>5
<1>7. /\ Append(Chunks!Ensured[b + 1], v) \in Seq(Values)
      /\ Len(Append(Chunks!Ensured[b + 1], v)) = o + 1
      /\ Append(Chunks!Ensured[b + 1], v)[o + 1] = v
      /\ \A j \in 1 .. o : Append(Chunks!Ensured[b + 1], v)[j] = Chunks!Ensured[b + 1][j]
  BY <1>5, <1>6
<1>8. blocks_' = [Chunks!Ensured EXCEPT ![b + 1] = Append(Chunks!Ensured[b + 1], v)]
  BY <1>5 DEF Chunks!push_back
<1>9. /\ blocks_' \in Seq(Seq(Values))
      /\ Len(blocks_') = b + 1
      /\ blocks_'[b + 1] = Append(Chunks!Ensured[b + 1], v)
      /\ \A k \in 1 .. b : blocks_'[k] = Chunks!Ensured[k]
  <2>1. /\ [Chunks!Ensured EXCEPT ![b + 1] = Append(Chunks!Ensured[b + 1], v)] \in Seq(Seq(Values))
        /\ Len([Chunks!Ensured EXCEPT ![b + 1] = Append(Chunks!Ensured[b + 1], v)])
             = Len(Chunks!Ensured)
        /\ \A k \in 1 .. Len(Chunks!Ensured) :
              [Chunks!Ensured EXCEPT ![b + 1] = Append(Chunks!Ensured[b + 1], v)][k]
                  = IF k = b + 1 THEN Append(Chunks!Ensured[b + 1], v) ELSE Chunks!Ensured[k]
    BY <1>5, <1>6, <1>7, ExceptSeq
  <2>2. \A k \in 1 .. b : k \in 1 .. Len(Chunks!Ensured) /\ k # b + 1
    BY <1>5
  <2> QED
    BY <1>5, <1>6, <1>8, <2>1, <2>2
<1>10. /\ Chunks!BlockOf(total_size_ + 1) = IF o = BlockSize - 1 THEN b + 1 ELSE b
       /\ Chunks!OffsetOf(total_size_ + 1) = IF o = BlockSize - 1 THEN 0 ELSE o + 1
  BY <1>2, <1>3, <1>4, Successor
<1>11. Chunks!BlocksFor(total_size_ + 1) = b + 1
  BY <1>2, <1>10, BlocksForElements
<1>12. Fits(blocks_', total_size_ + 1)
  <2>1. ASSUME NEW k \in 1 .. b + 1
        PROVE  Len(blocks_'[k]) = IF k <= Chunks!BlockOf(total_size_ + 1) THEN BlockSize
                                  ELSE Chunks!OffsetOf(total_size_ + 1)
    <3>1. CASE k = b + 1
      <4>1. Len(blocks_'[k]) = o + 1
        BY <1>7, <1>9, <3>1
      <4> QED
        BY <1>1, <1>10, <3>1, <4>1
    <3>2. CASE k # b + 1
      <4>1. k \in 1 .. b
        BY <3>2
      <4>2. Len(blocks_'[k]) = BlockSize
        BY <1>5, <1>9, <4>1
      <4> QED
        BY <1>10, <4>1, <4>2
    <3> QED
      BY <3>1, <3>2
  <2> QED
    BY <1>9, <1>11, <2>1 DEF Fits
<1>13. ChunkInv'
  BY <1>2, <1>12 DEF ChunkInv
<1>14. \A i \in 0 .. total_size_ - 1 : ElementAt(blocks_', i) = ElementAt(blocks_, i)
  <2>1. \A k \in 1 .. b : blocks_'[k] = blocks_[k]
    BY <1>5, <1>9
  <2>2. \A j \in 1 .. o : blocks_'[b + 1][j] = blocks_[b + 1][j]
    BY <1>5, <1>7, <1>9
  <2>3. PICK n, s, t : n \in Nat /\ n = total_size_ /\ s = blocks_ /\ t = blocks_'
    BY <1>2
  <2>4. AgreeBefore(t, s, n)
    BY <1>3, <1>4, <2>1, <2>2, <2>3 DEF AgreeBefore
  <2>5. \A i \in 0 .. n - 1 : ElementAt(t, i) = ElementAt(s, i)
    BY <2>3, <2>4, SameElements
  <2> QED
    BY <2>3, <2>5
<1>15. ElementAt(blocks_', total_size_) = v
  BY <1>3, <1>4, <1>7, <1>9 DEF ElementAt
<1>16. /\ ListOf(blocks_, total_size_) \in Seq(Values)
       /\ Len(ListOf(blocks_, total_size_)) = total_size_
  BY <1>2, ListIsSequence DEF ChunkInv
<1>17. ListOf(blocks_', total_size_ + 1) = Append(ListOf(blocks_, total_size_), v)
  BY <1>2, <1>14, <1>15, <1>16, ListAppends
<1> QED
  BY <1>2, <1>13, <1>17

\* The list of what stays when the elements from index m on go.
LEMMA ListIsCut ==
    ASSUME NEW n \in Nat, NEW m \in 0 .. n, NEW s, NEW t,
           ListOf(s, n) \in Seq(Values), Len(ListOf(s, n)) = n,
           \A i \in 0 .. m - 1 : ElementAt(t, i) = ElementAt(s, i)
    PROVE  ListOf(t, m) = SubSeq(ListOf(s, n), 1, m)
<1>1. ASSUME NEW i \in 1 .. m
      PROVE  ListOf(t, m)[i] = ListOf(s, n)[i]
  <2>1. i - 1 \in 0 .. m - 1 /\ i \in 1 .. n
    OBVIOUS
  <2> QED
    BY <2>1 DEF ListOf
<1>2. \A i \in 1 .. m : ListOf(s, n)[i] \in Values
  BY ElementOfSeq
<1>3. ListOf(t, m) \in Seq(Values) /\ Len(ListOf(t, m)) = m
  <2>1. ListOf(t, m) \in [1 .. m -> Values]
    BY <1>1, <1>2 DEF ListOf
  <2> QED
    BY <2>1
<1>4. /\ SubSeq(ListOf(s, n), 1, m) \in Seq(Values)
      /\ Len(SubSeq(ListOf(s, n), 1, m)) = m
      /\ \A i \in 1 .. m : SubSeq(ListOf(s, n), 1, m)[i] = ListOf(s, n)[i]
  BY <1>2, SubSeqProperties
<1> QED
  BY <1>1, <1>3, <1>4, SeqEqual

\* The final block has what the last element and those before it in the block.
LEMMA FinalBlock ==
    ASSUME Chunks!ConstantsOK, NEW m \in Nat, NEW blocks, Fits(blocks, m + 1)
    PROVE  /\ blocks \in Seq(Seq(Values))
           /\ Len(blocks) = Chunks!BlockOf(m) + 1
           /\ \A k \in 1 .. Chunks!BlockOf(m) : Len(blocks[k]) = BlockSize
           /\ Len(blocks[Chunks!BlockOf(m) + 1]) = Chunks!OffsetOf(m) + 1
<1>1. BlockSize \in Nat /\ BlockSize > 0
  BY DEF Chunks!ConstantsOK
<1>2. PICK b \in Nat, o \in 0 .. BlockSize - 1 : b = Chunks!BlockOf(m) /\ o = Chunks!OffsetOf(m)
  BY BlockAndOffset
<1>3. /\ Chunks!BlockOf(m + 1) = IF o = BlockSize - 1 THEN b + 1 ELSE b
      /\ Chunks!OffsetOf(m + 1) = IF o = BlockSize - 1 THEN 0 ELSE o + 1
  BY <1>2, Successor
<1>4. Len(blocks) = b + 1
  BY <1>3, BlocksForElements DEF Fits
<1>5. \A k \in 1 .. b + 1 : Len(blocks[k]) = IF k <= Chunks!BlockOf(m + 1) THEN BlockSize
        ELSE Chunks!OffsetOf(m + 1)
  BY <1>4 DEF Fits
<1>6. \A k \in 1 .. b : Len(blocks[k]) = BlockSize
  BY <1>3, <1>5
<1>7. Len(blocks[b + 1]) = o + 1
  BY <1>1, <1>3, <1>5
<1> QED
  BY <1>2, <1>4, <1>6, <1>7 DEF Fits

\* Cut behind the first m elements, the blocks are as many as it takes.
LEMMA CutBlocks ==
    ASSUME Chunks!ConstantsOK, NEW m \in Nat, NEW t,
           t \in Seq(Seq(Values)),
           Len(t) = Chunks!BlocksFor(m),
           \A k \in 1 .. Chunks!BlockOf(m) : Len(t[k]) = BlockSize,
           Chunks!OffsetOf(m) > 0 => Len(t[Chunks!BlockOf(m) + 1]) = Chunks!OffsetOf(m)
    PROVE  Fits(t, m)
<1>1. PICK b \in Nat, o \in 0 .. BlockSize - 1 : b = Chunks!BlockOf(m) /\ o = Chunks!OffsetOf(m)
  BY BlockAndOffset
<1>2. Len(t) = IF o = 0 THEN b ELSE b + 1
  BY <1>1, BlocksForElements
<1>3. ASSUME NEW k \in 1 .. Len(t)
      PROVE  Len(t[k]) = IF k <= b THEN BlockSize ELSE o
  <2>1. CASE k <= b
    BY <1>1, <2>1
  <2>2. CASE ~ k <= b
    <3>1. k = b + 1 /\ o > 0
      BY <1>2, <2>2
    <3> QED
      BY <1>1, <2>2, <3>1
  <2> QED
    BY <2>1, <2>2
<1> QED
  BY <1>1, <1>3 DEF Fits

\* pop_back()
LEMMA ChunkPopCorrect ==
    ASSUME Chunks!ConstantsOK, ChunkInv, Chunks!pop_back
    PROVE  /\ ChunkInv'
           /\ total_size_ > 0
           /\ ListOf(blocks_, total_size_)'
                = SubSeq(ListOf(blocks_, total_size_), 1, total_size_ - 1)
<1>1. total_size_ \in Nat /\ total_size_ > 0 /\ total_size_' = total_size_ - 1
  BY DEF ChunkInv, Chunks!pop_back
<1>2. PICK m \in Nat : total_size_ = m + 1
  <2>1. total_size_ - 1 \in Nat /\ total_size_ = (total_size_ - 1) + 1
    BY <1>1
  <2> QED
    BY <2>1
<1>3. Fits(blocks_, m + 1)
  BY <1>2 DEF ChunkInv
<1>4. PICK b \in Nat, o \in 0 .. BlockSize - 1 : b = Chunks!BlockOf(m) /\ o = Chunks!OffsetOf(m)
  BY BlockAndOffset
<1>5. /\ blocks_ \in Seq(Seq(Values))
      /\ Len(blocks_) = b + 1
      /\ \A k \in 1 .. b : Len(blocks_[k]) = BlockSize
      /\ Len(blocks_[b + 1]) = o + 1
  BY <1>3, <1>4, FinalBlock
<1>6. DEFINE rest == Chunks!Front(blocks_[b + 1])
<1>7. blocks_[b + 1] \in Seq(Values)
  BY <1>5
<1>8. /\ rest \in Seq(Values)
      /\ Len(rest) = o
      /\ \A j \in 1 .. o : rest[j] = blocks_[b + 1][j]
  BY <1>5, <1>7 DEF Chunks!Front
<1>9. /\ Chunks!Front(blocks_) \in Seq(Seq(Values))
      /\ Len(Chunks!Front(blocks_)) = b
      /\ \A k \in 1 .. b : Chunks!Front(blocks_)[k] = blocks_[k]
  BY <1>5 DEF Chunks!Front
<1>10. blocks_' = IF rest = <<>> THEN Chunks!Front(blocks_)
         ELSE Chunks!Front(blocks_) \o <<rest>>
  BY <1>5 DEF Chunks!pop_back, Chunks!Last
<1>11. Chunks!BlocksFor(m) = IF o = 0 THEN b ELSE b + 1
  BY <1>4, BlocksForElements
<1> HIDE DEF rest
<1>12. /\ blocks_' \in Seq(Seq(Values))
       /\ Len(blocks_') = Chunks!BlocksFor(m)
       /\ \A k \in 1 .. b : blocks_'[k] = blocks_[k]
       /\ o > 0 => blocks_'[b + 1] = rest
  <2>1. CASE o = 0
    <3>1. rest = <<>>
      BY <1>8, <2>1
    <3> QED
      BY <1>9, <1>10, <1>11, <2>1, <3>1
  <2>2. CASE o # 0
    <3>1. rest # <<>>
      BY <1>8, <2>2
    <3>2. <<rest>> \in Seq(Seq(Values)) /\ Len(<<rest>>) = 1 /\ <<rest>>[1] = rest
      BY <1>8
    <3>3. blocks_' = Chunks!Front(blocks_) \o <<rest>>
      BY <1>10, <3>1
    <3>4. /\ blocks_' \in Seq(Seq(Values))
          /\ Len(blocks_') = b + 1
          /\ \A k \in 1 .. b + 1 :
               blocks_'[k] = IF k <= b THEN Chunks!Front(blocks_)[k] ELSE <<rest>>[k - b]
      BY <1>9, <3>2, <3>3, ConcatProperties
    <3>5. blocks_'[b + 1] = rest
      BY <3>2, <3>4
    <3>6. \A k \in 1 .. b : blocks_'[k] = blocks_[k]
      BY <1>9, <3>4
    <3> QED
      BY <1>11, <2>2, <3>4, <3>5, <3>6
  <2> QED
    BY <2>1, <2>2
<1>13. \A k \in 1 .. b : Len(blocks_'[k]) = BlockSize
  BY <1>5, <1>12
<1>14. o > 0 => Len(blocks_'[b + 1]) = o
  BY <1>8, <1>12
<1>15. Fits(blocks_', m)
  BY <1>4, <1>12, <1>13, <1>14, CutBlocks
<1>16. total_size_' = m
  BY <1>1, <1>2
<1>17. \A j \in 1 .. o : blocks_'[b + 1][j] = blocks_[b + 1][j]
  BY <1>8, <1>12
<1>18. \A i \in 0 .. m - 1 : ElementAt(blocks_', i) = ElementAt(blocks_, i)
  <2>1. PICK s, t : s = blocks_ /\ t = blocks_'
    OBVIOUS
  <2>2. AgreeBefore(t, s, m)
    BY <1>4, <1>12, <1>17, <2>1 DEF AgreeBefore
  <2>3. \A i \in 0 .. m - 1 : ElementAt(t, i) = ElementAt(s, i)
    BY <2>2, SameElements
  <2> QED
    BY <2>1, <2>3
<1>19. ListOf(blocks_, m + 1) \in Seq(Values) /\ Len(ListOf(blocks_, m + 1)) = m + 1
  BY <1>3, ListIsSequence
<1>20. ListOf(blocks_', m) = SubSeq(ListOf(blocks_, m + 1), 1, m)
  BY <1>18, <1>19, ListIsCut
<1> QED
  BY <1>1, <1>2, <1>15, <1>16, <1>20 DEF ChunkInv

\* resize() to fewer elements.
LEMMA ChunkShrinkCorrect ==
    ASSUME Chunks!ConstantsOK, ChunkInv, NEW m \in 0 .. MaxLength, Chunks!Shrink(m)
    PROVE  /\ ChunkInv'
           /\ m < total_size_
           /\ ListOf(blocks_, total_size_)' = SubSeq(ListOf(blocks_, total_size_), 1, m)
<1>1. total_size_ \in Nat /\ m \in Nat /\ m < total_size_ /\ total_size_' = m
  BY DEF ChunkInv, Chunks!Shrink, Chunks!ConstantsOK
<1>2. PICK b \in Nat, o \in 0 .. BlockSize - 1 : b = Chunks!BlockOf(m) /\ o = Chunks!OffsetOf(m)
  BY <1>1, BlockAndOffset
<1>3. /\ b + 1 \in 1 .. Len(blocks_)
      /\ o + 1 \in 1 .. Len(blocks_[b + 1])
  BY <1>1, <1>2, ElementIsThere DEF ChunkInv
<1>4. blocks_ \in Seq(Seq(Values)) /\ blocks_[b + 1] \in Seq(Values)
  BY <1>3 DEF ChunkInv, Fits
<1>5. DEFINE part == SubSeq(blocks_[b + 1], 1, o)
             cut == [blocks_ EXCEPT ![b + 1] = part]
<1>6. /\ part \in Seq(Values)
      /\ Len(part) = o
      /\ \A j \in 1 .. o : part[j] = blocks_[b + 1][j]
  <2>1. \A j \in 1 .. o : blocks_[b + 1][j] \in Values
    BY <1>3, <1>4
  <2> QED
    BY <2>1, SubSeqProperties
<1>7. blocks_' = SubSeq(cut, 1, Chunks!BlocksFor(m))
  BY <1>2 DEF Chunks!Shrink
<1> HIDE DEF part
<1>8. /\ cut \in Seq(Seq(Values))
      /\ Len(cut) = Len(blocks_)
      /\ \A k \in 1 .. Len(blocks_) : cut[k] = IF k = b + 1 THEN part ELSE blocks_[k]
  BY <1>3, <1>4, <1>6, ExceptSeq
<1> HIDE DEF cut
<1>9. Chunks!BlocksFor(m) = IF o = 0 THEN b ELSE b + 1
  BY <1>1, <1>2, BlocksForElements
<1>10. Chunks!BlocksFor(m) \in 0 .. Len(cut)
  BY <1>3, <1>8, <1>9
<1>11. /\ blocks_' \in Seq(Seq(Values))
       /\ Len(blocks_') = Chunks!BlocksFor(m)
       /\ \A k \in 1 .. Chunks!BlocksFor(m) : blocks_'[k] = cut[k]
  <2>1. \A k \in 1 .. Chunks!BlocksFor(m) : cut[k] \in Seq(Values)
    BY <1>8, <1>10
  <2> QED
    BY <1>7, <1>10, <2>1, SubSeqProperties
<1>12. \A k \in 1 .. b : blocks_'[k] = blocks_[k]
  <2> SUFFICES ASSUME NEW k \in 1 .. b PROVE blocks_'[k] = blocks_[k]
    OBVIOUS
  <2>1. k \in 1 .. Chunks!BlocksFor(m) /\ k \in 1 .. Len(blocks_) /\ k # b + 1
    BY <1>3, <1>9
  <2> QED
    BY <1>8, <1>11, <2>1
<1>13. o > 0 => blocks_'[b + 1] = part
  BY <1>3, <1>8, <1>9, <1>11
<1>14. \A k \in 1 .. b : Len(blocks_'[k]) = BlockSize
  <2> SUFFICES ASSUME NEW k \in 1 .. b PROVE Len(blocks_[k]) = BlockSize
    BY <1>12
  <2>1. Chunks!BlockOf(total_size_) \in Nat
    BY <1>1, BlockAndOffset
  <2>2. b <= Chunks!BlockOf(total_size_)
    BY <1>1, <1>2, <2>1, Before
  <2>3. k \in 1 .. Len(blocks_) /\ k <= Chunks!BlockOf(total_size_)
    BY <1>3, <2>1, <2>2
  <2> QED
    BY <2>3 DEF ChunkInv, Fits
<1>15. Fits(blocks_', m)
  BY <1>1, <1>2, <1>6, <1>11, <1>13, <1>14, CutBlocks
<1>16. \A j \in 1 .. o : blocks_'[b + 1][j] = blocks_[b + 1][j]
  BY <1>6, <1>13
<1>17. \A i \in 0 .. m - 1 : ElementAt(blocks_', i) = ElementAt(blocks_, i)
  <2>1. PICK s, t : s = blocks_ /\ t = blocks_'
    OBVIOUS
  <2>2. AgreeBefore(t, s, m)
    BY <1>2, <1>12, <1>16, <2>1 DEF AgreeBefore
  <2>3. \A i \in 0 .. m - 1 : ElementAt(t, i) = ElementAt(s, i)
    BY <1>1, <2>2, SameElements
  <2> QED
    BY <2>1, <2>3
<1>18. /\ ListOf(blocks_, total_size_) \in Seq(Values)
       /\ Len(ListOf(blocks_, total_size_)) = total_size_
  BY <1>1, ListIsSequence DEF ChunkInv
<1>19. ListOf(blocks_', m) = SubSeq(ListOf(blocks_, total_size_), 1, m)
  <2>1. m \in 0 .. total_size_
    BY <1>1
  <2> QED
    BY <1>1, <1>17, <1>18, <2>1, ListIsCut
<1> QED
  BY <1>1, <1>15, <1>19 DEF ChunkInv

\* std::vector::resize()
LEMMA ResizedIsSequence ==
    ASSUME NEW S, NEW s \in Seq(S), NEW n \in Nat, NEW v \in S
    PROVE  /\ Chunks!Resized(s, n, v) \in Seq(S)
           /\ Len(Chunks!Resized(s, n, v)) = n
<1>1. \A i \in 1 .. n : (IF i <= Len(s) THEN s[i] ELSE v) \in S
  <2> SUFFICES ASSUME NEW i \in 1 .. n, i <= Len(s) PROVE s[i] \in S
    OBVIOUS
  <2>1. i \in 1 .. Len(s)
    OBVIOUS
  <2> QED
    BY <2>1
<1>2. Chunks!Resized(s, n, v) \in [1 .. n -> S]
  BY <1>1 DEF Chunks!Resized
<1> QED
  BY <1>2 DEF Chunks!Resized

\* Before it is filled up: the blocks there were, and new ones.
LEMMA EnoughBlocks ==
    ASSUME Chunks!ConstantsOK, ChunkInv, NEW m \in Nat, total_size_ < m
    PROVE  LET b == Chunks!BlockOf(total_size_)
               o == Chunks!OffsetOf(total_size_)
               enough == Chunks!Resized(blocks_, Chunks!BlocksFor(m), <<>>)
           IN  /\ enough \in Seq(Seq(Values))
               /\ Len(enough) = Chunks!BlocksFor(m)
               /\ Chunks!BlocksFor(m) \in Nat /\ b + 1 <= Chunks!BlocksFor(m)
               /\ \A k \in 1 .. b : enough[k] = blocks_[k] /\ Len(enough[k]) = BlockSize
               /\ Len(enough[b + 1]) = o
               /\ \A j \in 1 .. o : enough[b + 1][j] = blocks_[b + 1][j]
               /\ \A k \in b + 2 .. Chunks!BlocksFor(m) : Len(enough[k]) = 0
<1>1. total_size_ \in Nat /\ blocks_ \in Seq(Seq(Values))
  BY DEF ChunkInv, Fits
<1>2. PICK b \in Nat, o \in 0 .. BlockSize - 1 :
             b = Chunks!BlockOf(total_size_) /\ o = Chunks!OffsetOf(total_size_)
  BY <1>1, BlockAndOffset
<1>3. PICK c \in Nat, p \in 0 .. BlockSize - 1 : c = Chunks!BlockOf(m) /\ p = Chunks!OffsetOf(m)
  BY BlockAndOffset
<1>4. b < c \/ (b = c /\ o < p)
  BY <1>1, <1>2, <1>3, Before
<1>5. Chunks!BlocksFor(m) = IF p = 0 THEN c ELSE c + 1
  BY <1>3, BlocksForElements
<1>6. Len(blocks_) = IF o = 0 THEN b ELSE b + 1
  BY <1>1, <1>2, BlocksForElements DEF ChunkInv, Fits
<1>7. Chunks!BlocksFor(m) \in Nat /\ b + 1 <= Chunks!BlocksFor(m)
  BY <1>4, <1>5
<1>8. DEFINE enough == Chunks!Resized(blocks_, Chunks!BlocksFor(m), <<>>)
<1>9. /\ enough \in Seq(Seq(Values))
      /\ Len(enough) = Chunks!BlocksFor(m)
      /\ \A k \in 1 .. Chunks!BlocksFor(m) :
           enough[k] = IF k <= Len(blocks_) THEN blocks_[k] ELSE <<>>
  <2>1. DEFINE S == Seq(Values)
  <2>2. blocks_ \in Seq(S) /\ <<>> \in S
    BY <1>1
  <2>3. PICK n \in Nat : n = Chunks!BlocksFor(m)
    BY <1>7
  <2> HIDE DEF S, enough
  <2>4. Chunks!Resized(blocks_, n, <<>>) \in Seq(S)
    BY <2>2, ResizedIsSequence
  <2>5. Len(Chunks!Resized(blocks_, n, <<>>)) = n
    BY <2>2, ResizedIsSequence
  <2>6. \A k \in 1 .. n :
          Chunks!Resized(blocks_, n, <<>>)[k] = IF k <= Len(blocks_) THEN blocks_[k] ELSE <<>>
    BY DEF Chunks!Resized
  <2> QED
    BY <2>3, <2>4, <2>5, <2>6 DEF S, enough
<1> HIDE DEF enough
<1>10. ASSUME NEW k \in 1 .. b PROVE enough[k] = blocks_[k] /\ Len(enough[k]) = BlockSize
  <2>1. k \in 1 .. Chunks!BlocksFor(m) /\ k \in 1 .. Len(blocks_)
    BY <1>6, <1>7
  <2>2. Len(blocks_[k]) = BlockSize
    BY <1>2, <2>1 DEF ChunkInv, Fits
  <2> QED
    BY <1>9, <2>1, <2>2
<1>11. b + 1 \in 1 .. Chunks!BlocksFor(m)
  BY <1>7
<1>12. /\ Len(enough[b + 1]) = o
       /\ \A j \in 1 .. o : enough[b + 1][j] = blocks_[b + 1][j]
  <2>1. CASE o = 0
    <3>1. enough[b + 1] = <<>>
      BY <1>6, <1>9, <1>11, <2>1
    <3> QED
      BY <2>1, <3>1
  <2>2. CASE o # 0
    <3>1. enough[b + 1] = blocks_[b + 1] /\ b + 1 \in 1 .. Len(blocks_) /\ ~ b + 1 <= b
      BY <1>6, <1>9, <1>11, <2>2
    <3>2. Len(blocks_[b + 1]) = o
      BY <1>2, <3>1 DEF ChunkInv, Fits
    <3> QED
      BY <3>1, <3>2
  <2> QED
    BY <2>1, <2>2
<1>13. ASSUME NEW k \in b + 2 .. Chunks!BlocksFor(m) PROVE Len(enough[k]) = 0
  <2>1. k \in 1 .. Chunks!BlocksFor(m) /\ ~ k <= Len(blocks_)
    BY <1>6
  <2>2. enough[k] = <<>>
    BY <1>9, <2>1
  <2> QED
    BY <2>2
<1> QED
  BY <1>2, <1>7, <1>9, <1>10, <1>12, <1>13 DEF enough

\* How full each block becomes.
SizeIn(m, enough, x) ==
    CASE x < Chunks!BlockOf(total_size_) -> Len(enough[x + 1])
      [] x = Chunks!BlockOf(total_size_) -> Chunks!OffsetOf(total_size_) + Chunks!FillInBlock(m)
      [] x > Chunks!BlockOf(total_size_) -> Chunks!Smaller(BlockSize, m - x * BlockSize)

\* They are the sizes that m elements take.
LEMMA SizesFit ==
    ASSUME Chunks!ConstantsOK, ChunkInv, NEW m \in Nat, total_size_ < m,
           NEW k \in 1 .. Chunks!BlocksFor(m)
    PROVE  SizeIn(m, Chunks!Resized(blocks_, Chunks!BlocksFor(m), <<>>), k - 1)
               = IF k <= Chunks!BlockOf(m) THEN BlockSize ELSE Chunks!OffsetOf(m)
<1>1. total_size_ \in Nat /\ BlockSize \in Nat /\ BlockSize > 0
  BY DEF ChunkInv, Chunks!ConstantsOK
<1>2. PICK b \in Nat, o \in 0 .. BlockSize - 1 :
             b = Chunks!BlockOf(total_size_) /\ o = Chunks!OffsetOf(total_size_)
  BY <1>1, BlockAndOffset
<1>3. PICK c \in Nat, p \in 0 .. BlockSize - 1 : c = Chunks!BlockOf(m) /\ p = Chunks!OffsetOf(m)
  BY BlockAndOffset
<1>4. b < c \/ (b = c /\ o < p)
  BY <1>1, <1>2, <1>3, Before
<1>5. Chunks!BlocksFor(m) = IF p = 0 THEN c ELSE c + 1
  BY <1>3, BlocksForElements
<1>6. total_size_ = BlockSize * b + o /\ m = BlockSize * c + p
  BY <1>1, <1>2, <1>3, BlockAndOffset
<1>7. k \in Nat /\ 1 <= k /\ k <= c + 1
  BY <1>5
<1>8. CASE k <= b
  <2>1. SizeIn(m, Chunks!Resized(blocks_, Chunks!BlocksFor(m), <<>>), k - 1)
            = Len(Chunks!Resized(blocks_, Chunks!BlocksFor(m), <<>>)[(k - 1) + 1])
    <3>1. k - 1 < b
      BY <1>7, <1>8
    <3> QED
      BY <1>2, <3>1 DEF SizeIn
  <2>2. (k - 1) + 1 = k /\ k \in 1 .. b /\ k <= c
    BY <1>4, <1>7, <1>8
  <2> QED
    BY <1>2, <1>3, <2>1, <2>2, EnoughBlocks
<1>9. CASE k = b + 1
  <2>1. SizeIn(m, Chunks!Resized(blocks_, Chunks!BlocksFor(m), <<>>), k - 1)
          = o + Chunks!FillInBlock(m)
    <3>1. k - 1 = b
      BY <1>9
    <3> QED
      BY <1>2, <3>1 DEF SizeIn
  <2>2. CASE b < c
    <3>1. PICK d \in Nat : c = b + 1 + d
      BY <2>2, c - b - 1 \in Nat
    <3>2. BlockSize * c = BlockSize * b + BlockSize + BlockSize * d /\ BlockSize * d >= 0
      BY <1>1, <3>1
    <3>3. ~ (m - total_size_ < BlockSize - o)
      BY <1>1, <1>6, <3>2
    <3>4. Chunks!FillInBlock(m) = BlockSize - o
      BY <1>1, <1>2, <3>3 DEF Chunks!FillInBlock, Chunks!Smaller
    <3> QED
      BY <1>1, <1>3, <1>9, <2>1, <2>2, <3>4
  <2>3. CASE b = c
    <3>1. m - total_size_ = p - o
      BY <1>1, <1>6, <2>3
    <3>2. Chunks!FillInBlock(m) = p - o
      BY <1>1, <1>2, <3>1 DEF Chunks!FillInBlock, Chunks!Smaller
    <3> QED
      BY <1>3, <1>9, <2>1, <2>3, <3>2
  <2> QED
    BY <1>4, <2>2, <2>3
<1>10. CASE k > b + 1
  <2>1. SizeIn(m, Chunks!Resized(blocks_, Chunks!BlocksFor(m), <<>>), k - 1)
          = Chunks!Smaller(BlockSize, m - (k - 1) * BlockSize)
    <3>1. k - 1 > b /\ k - 1 \in Int
      BY <1>7, <1>10
    <3> QED
      BY <1>2, <3>1 DEF SizeIn
  <2>2. CASE k <= c
    <3>1. PICK d \in Nat : c = (k - 1) + 1 + d
      BY <1>7, <2>2, c - k \in Nat
    <3>2. BlockSize * c = (k - 1) * BlockSize + BlockSize + BlockSize * d /\ BlockSize * d >= 0
      BY <1>1, <1>7, <3>1
    <3>3. PICK e \in Int : e = (k - 1) * BlockSize
      BY <1>1, <1>7
    <3>4. m - e >= BlockSize
      BY <1>1, <1>6, <3>2, <3>3
    <3> QED
      BY <1>1, <1>3, <2>1, <2>2, <3>3, <3>4 DEF Chunks!Smaller
  <2>3. CASE k = c + 1
    <3>1. m - (k - 1) * BlockSize = p
      BY <1>1, <1>6, <1>7, <2>3
    <3> QED
      BY <1>1, <1>3, <2>1, <2>3, <3>1 DEF Chunks!Smaller
  <2> QED
    BY <1>7, <2>2, <2>3
<1> QED
  BY <1>7, <1>8, <1>9, <1>10

\* resize() to more elements.
LEMMA ChunkGrowCorrect ==
    ASSUME Chunks!ConstantsOK, ChunkInv, NEW m \in 0 .. MaxLength, NEW v \in Values,
           Chunks!Grow(m, v)
    PROVE  /\ ChunkInv'
           /\ ListOf(blocks_, total_size_)' =
                 [i \in 1 .. m |-> IF i <= Len(ListOf(blocks_, total_size_))
                                   THEN ListOf(blocks_, total_size_)[i] ELSE v]
<1>1. /\ total_size_ \in Nat /\ m \in Nat /\ total_size_ < m /\ total_size_' = m
      /\ BlockSize \in Nat
  BY DEF ChunkInv, Chunks!Grow, Chunks!ConstantsOK
<1>2. PICK b \in Nat, o \in 0 .. BlockSize - 1 :
             b = Chunks!BlockOf(total_size_) /\ o = Chunks!OffsetOf(total_size_)
  BY <1>1, BlockAndOffset
<1>3. PICK c \in Nat, p \in 0 .. BlockSize - 1 : c = Chunks!BlockOf(m) /\ p = Chunks!OffsetOf(m)
  BY <1>1, BlockAndOffset
<1>4. DEFINE enough == Chunks!Resized(blocks_, Chunks!BlocksFor(m), <<>>)
             Target(k) == IF k <= c THEN BlockSize ELSE p
<1>5. /\ enough \in Seq(Seq(Values))
      /\ Len(enough) = Chunks!BlocksFor(m)
      /\ Chunks!BlocksFor(m) \in Nat /\ b + 1 <= Chunks!BlocksFor(m)
      /\ \A k \in 1 .. b : enough[k] = blocks_[k] /\ Len(enough[k]) = BlockSize
      /\ Len(enough[b + 1]) = o
      /\ \A j \in 1 .. o : enough[b + 1][j] = blocks_[b + 1][j]
      /\ \A k \in b + 2 .. Chunks!BlocksFor(m) : Len(enough[k]) = 0
  BY <1>1, <1>2, EnoughBlocks
<1>6. \A k \in 1 .. Chunks!BlocksFor(m) : SizeIn(m, enough, k - 1) = Target(k)
  BY <1>1, <1>3, SizesFit
<1>7. blocks_'
        = [k \in DOMAIN enough |-> Chunks!Resized(enough[k], SizeIn(m, enough, k - 1), v)]
  BY DEF Chunks!Grow, SizeIn
<1> HIDE DEF enough
<1>8. DOMAIN enough = 1 .. Chunks!BlocksFor(m)
  BY <1>5
<1>9. blocks_' = [k \in 1 .. Chunks!BlocksFor(m) |-> Chunks!Resized(enough[k], Target(k), v)]
  BY <1>6, <1>7, <1>8
<1>10. \A k \in 1 .. Chunks!BlocksFor(m) : enough[k] \in Seq(Values) /\ Target(k) \in Nat
  BY <1>1, <1>5
<1>11. ASSUME NEW k \in 1 .. Chunks!BlocksFor(m)
       PROVE  /\ blocks_'[k] = Chunks!Resized(enough[k], Target(k), v)
              /\ blocks_'[k] \in Seq(Values)
              /\ Len(blocks_'[k]) = Target(k)
              /\ \A i \in 1 .. Target(k) :
                    blocks_'[k][i] = IF i <= Len(enough[k]) THEN enough[k][i] ELSE v
  <2>1. blocks_'[k] = Chunks!Resized(enough[k], Target(k), v)
    BY <1>9
  <2>2. enough[k] \in Seq(Values) /\ Target(k) \in Nat
    BY <1>10
  <2>3. PICK t \in Nat : t = Target(k)
    BY <2>2
  <2>4. PICK s \in Seq(Values) : s = enough[k]
    BY <2>2
  <2>5. Chunks!Resized(s, t, v) \in Seq(Values)
    BY ResizedIsSequence
  <2>6. Len(Chunks!Resized(s, t, v)) = t
    BY ResizedIsSequence
  <2>7. \A i \in 1 .. t : Chunks!Resized(s, t, v)[i] = IF i <= Len(s) THEN s[i] ELSE v
    BY DEF Chunks!Resized
  <2> HIDE DEF Target
  <2> QED
    BY <2>1, <2>3, <2>4, <2>5, <2>6, <2>7
<1>12. blocks_' \in Seq(Seq(Values)) /\ Len(blocks_') = Chunks!BlocksFor(m)
  <2>1. DEFINE S == Seq(Values)
               L == Chunks!BlocksFor(m)
  <2>2. blocks_' = [k \in 1 .. L |-> Chunks!Resized(enough[k], Target(k), v)] /\ L \in Nat
    BY <1>5, <1>9
  <2>3. \A k \in 1 .. L : Chunks!Resized(enough[k], Target(k), v) \in S
    BY <1>11
  <2> HIDE DEF S, L, Target
  <2>4. blocks_' \in [1 .. L -> S]
    BY <2>2, <2>3
  <2>5. blocks_' \in Seq(S) /\ Len(blocks_') = L
    BY <2>2, <2>4
  <2> QED
    BY <2>5 DEF S, L
<1>13. Fits(blocks_', m)
  BY <1>3, <1>11, <1>12 DEF Fits
<1>14. \A k \in 1 .. b : blocks_'[k] = blocks_[k]
  <2> SUFFICES ASSUME NEW k \in 1 .. b PROVE blocks_'[k] = blocks_[k]
    OBVIOUS
  <2>1. k \in 1 .. Chunks!BlocksFor(m) /\ enough[k] = blocks_[k] /\ Len(enough[k]) = BlockSize
    BY <1>5
  <2>2. Target(k) = BlockSize
    <3>1. b <= c
      BY <1>1, <1>2, <1>3, Before
    <3> QED
      BY <3>1
  <2>3. blocks_'[k] \in Seq(Values) /\ blocks_[k] \in Seq(Values)
    BY <1>10, <1>11, <2>1
  <2>4. \A i \in 1 .. BlockSize : blocks_'[k][i] = blocks_[k][i]
    BY <1>11, <2>1, <2>2
  <2>5. Len(blocks_'[k]) = BlockSize /\ Len(blocks_[k]) = BlockSize
    BY <1>11, <2>1, <2>2
  <2> QED
    BY <2>3, <2>4, <2>5, SeqEqual
<1>15. \A j \in 1 .. o : blocks_'[b + 1][j] = blocks_[b + 1][j]
  <2> SUFFICES ASSUME NEW j \in 1 .. o PROVE blocks_'[b + 1][j] = blocks_[b + 1][j]
    OBVIOUS
  <2>1. b + 1 \in 1 .. Chunks!BlocksFor(m)
    BY <1>5
  <2>2. j \in 1 .. Target(b + 1)
    <3>1. b < c \/ (b = c /\ o < p)
      BY <1>1, <1>2, <1>3, Before
    <3> QED
      BY <1>1, <3>1
  <2> HIDE DEF Target
  <2>3. j <= Len(enough[b + 1])
    BY <1>5
  <2>4. blocks_'[b + 1][j] = enough[b + 1][j]
    BY <1>11, <2>1, <2>2, <2>3
  <2> QED
    BY <1>5, <2>4
<1>16. \A i \in 0 .. total_size_ - 1 : ElementAt(blocks_', i) = ElementAt(blocks_, i)
  <2>1. PICK n, s, t : n \in Nat /\ n = total_size_ /\ s = blocks_ /\ t = blocks_'
    BY <1>1
  <2>2. AgreeBefore(t, s, n)
    BY <1>2, <1>14, <1>15, <2>1 DEF AgreeBefore
  <2>3. \A i \in 0 .. n - 1 : ElementAt(t, i) = ElementAt(s, i)
    BY <2>1, <2>2, SameElements
  <2> QED
    BY <2>1, <2>3
<1>17. ASSUME NEW i \in 0 .. m - 1, total_size_ <= i
       PROVE  ElementAt(blocks_', i) = v
  <2>1. i \in Nat /\ i < m
    BY <1>1
  <2>2. PICK d \in Nat, q \in 0 .. BlockSize - 1 :
               d = Chunks!BlockOf(i) /\ q = Chunks!OffsetOf(i)
    BY <2>1, BlockAndOffset
  <2>3. b < d \/ (b = d /\ o <= q)
    <3>1. CASE total_size_ = i
      BY <1>2, <2>2, <3>1
    <3>2. CASE total_size_ # i
      <4>1. total_size_ < i
        BY <1>1, <1>17, <3>2
      <4> QED
        BY <1>1, <1>2, <2>1, <2>2, <4>1, Before
    <3> QED
      BY <3>1, <3>2
  <2>4. d + 1 \in 1 .. Len(blocks_') /\ q + 1 \in 1 .. Len(blocks_'[d + 1])
    BY <1>1, <1>13, <2>1, <2>2, ElementIsThere
  <2>5. d + 1 \in 1 .. Chunks!BlocksFor(m) /\ q + 1 \in 1 .. Target(d + 1)
    BY <1>11, <1>12, <2>4
  <2>6. ~ (q + 1 <= Len(enough[d + 1]))
    <3>1. CASE b < d
      <4>1. d + 1 \in b + 2 .. Chunks!BlocksFor(m)
        BY <2>5, <3>1
      <4> QED
        BY <1>5, <4>1
    <3>2. CASE b = d /\ o <= q
      BY <1>5, <3>2
    <3> QED
      BY <2>3, <3>1, <3>2
  <2>7. blocks_'[d + 1][q + 1] = v
    BY <1>11, <2>5, <2>6
  <2> QED
    BY <2>2, <2>7 DEF ElementAt
<1>18. \A i \in 0 .. m - 1 :
         ElementAt(blocks_', i) = IF i < total_size_ THEN ElementAt(blocks_, i) ELSE v
  <2> SUFFICES ASSUME NEW i \in 0 .. m - 1
               PROVE  ElementAt(blocks_', i) = IF i < total_size_ THEN ElementAt(blocks_, i)
                        ELSE v
    OBVIOUS
  <2>1. CASE i < total_size_
    <3>1. i \in 0 .. total_size_ - 1
      BY <1>1, <2>1
    <3> QED
      BY <1>16, <2>1, <3>1
  <2>2. CASE ~ i < total_size_
    <3>1. total_size_ <= i
      BY <1>1, <2>2
    <3> QED
      BY <1>17, <2>2, <3>1
  <2> QED
    BY <2>1, <2>2
<1>19. Len(ListOf(blocks_, total_size_)) = total_size_
  BY <1>1, ListIsSequence DEF ChunkInv
<1>20. ASSUME NEW i \in 1 .. m
       PROVE  ElementAt(blocks_', i - 1)
                = IF i <= total_size_ THEN ListOf(blocks_, total_size_)[i] ELSE v
  <2>1. i - 1 \in 0 .. m - 1 /\ (i - 1 < total_size_ <=> i <= total_size_)
    BY <1>1
  <2>2. i <= total_size_ => ListOf(blocks_, total_size_)[i] = ElementAt(blocks_, i - 1)
    BY <1>1 DEF ListOf
  <2> QED
    BY <1>18, <2>1, <2>2
<1>21. ListOf(blocks_', m) = [i \in 1 .. m |-> IF i <= Len(ListOf(blocks_, total_size_))
                                               THEN ListOf(blocks_, total_size_)[i] ELSE v]
  <2>1. ListOf(blocks_', m) = [i \in 1 .. m |-> IF i <= total_size_
                                                THEN ListOf(blocks_, total_size_)[i] ELSE v]
    BY <1>20 DEF ListOf
  <2> QED
    BY <1>19, <2>1
<1> QED
  BY <1>1, <1>13, <1>21 DEF ChunkInv

-----------------------------------------------------------------------------
(* ChunkedVector: the theorems *)

\* An empty vector.
LEMMA InitChunks ==
    ASSUME Chunks!ConstantsOK, Chunks!Init
    PROVE  ChunkInv /\ ListOf(blocks_, total_size_) = <<>>
BY NoBlocks DEF Chunks!Init, ChunkInv

\* clear()
LEMMA ChunkClearCorrect ==
    ASSUME Chunks!ConstantsOK, Chunks!clear
    PROVE  ChunkInv' /\ ListOf(blocks_, total_size_)' = <<>>
BY NoBlocks DEF Chunks!clear, ChunkInv

\* Whatever was pushed, popped and resized, the blocks are full, but for the
\* final one, which is not empty.
THEOREM ChunkInvIsInductive == Chunks!Spec => []ChunkInv
<1> USE ContainersAssumption
<1>1. Chunks!Init => ChunkInv
  BY InitChunks
<1>2. ChunkInv /\ [Chunks!Next]_Chunks!vars => ChunkInv'
  <2> SUFFICES ASSUME ChunkInv, [Chunks!Next]_Chunks!vars PROVE ChunkInv'
    OBVIOUS
  <2>1. ASSUME NEW v \in Values, Chunks!push_back(v) PROVE ChunkInv'
    BY <2>1, ChunkPushCorrect
  <2>2. ASSUME NEW v \in Values, NEW n \in 0 .. MaxLength, Chunks!Grow(n, v) PROVE ChunkInv'
    BY <2>2, ChunkGrowCorrect
  <2>3. ASSUME NEW n \in 0 .. MaxLength, Chunks!Shrink(n) PROVE ChunkInv'
    BY <2>3, ChunkShrinkCorrect
  <2>4. CASE Chunks!pop_back
    BY <2>4, ChunkPopCorrect
  <2>5. CASE Chunks!clear
    BY <2>5, ChunkClearCorrect
  <2>6. CASE UNCHANGED Chunks!vars
    BY <2>6 DEF Chunks!vars, ChunkInv
  <2> QED
    BY <2>1, <2>2, <2>3, <2>4, <2>5, <2>6 DEF Chunks!Next
<1> QED
  BY <1>1, <1>2, PTL DEF Chunks!Spec

\* Index i finds the i-th element of one sequence, on either side of the
\* borders between blocks.
THEOREM ChunksAreOneArray == Chunks!Spec => ImplementsDynamicArray
<1> USE ContainersAssumption
<1>1. Chunks!Init => ChunkList = <<>>
  BY InitChunks, ChunkListIsListOf
<1>2. ChunkInv => ChunkList = ListOf(blocks_, total_size_)
  BY ChunkListIsListOf
<1>3. (ChunkInv => ChunkList = ListOf(blocks_, total_size_))'
  BY <1>2, PTL
<1>4. ChunkInv /\ ChunkInv' /\ [Chunks!Next]_Chunks!vars => [Chunks!DA!Next]_ChunkList
  <2> SUFFICES ASSUME ChunkInv, ChunkInv', [Chunks!Next]_Chunks!vars
               PROVE  [Chunks!DA!Next]_ChunkList
    OBVIOUS
  <2>1. DEFINE list == ChunkList
  <2>2. list = ListOf(blocks_, total_size_) /\ list' = ListOf(blocks_, total_size_)'
    BY <1>2, <1>3
  <2>3. list \in Seq(Values) /\ Len(list) = total_size_ /\ total_size_ \in Nat
    BY <2>2, ListIsSequence DEF ChunkInv
  <2>4. ASSUME NEW v \in Values, Chunks!push_back(v) PROVE Chunks!DA!Next
    <3>1. list' = Append(list, v)
      BY <2>2, <2>4, ChunkPushCorrect
    <3>2. Chunks!DA!PushBack(v)
      BY <3>1 DEF Chunks!DA!PushBack, ChunkList
    <3> QED
      BY <3>2 DEF Chunks!DA!Next
  <2>5. ASSUME NEW v \in Values, NEW n \in 0 .. MaxLength, Chunks!Grow(n, v)
        PROVE  Chunks!DA!Next
    <3>1. list' = [i \in 1 .. n |-> IF i <= Len(list) THEN list[i] ELSE v]
      BY <2>2, <2>5, ChunkGrowCorrect
    <3>2. Chunks!DA!Resize(n, v)
      BY <3>1 DEF Chunks!DA!Resize, ChunkList
    <3> QED
      BY <3>2 DEF Chunks!DA!Next
  <2>6. ASSUME NEW n \in 0 .. MaxLength, Chunks!Shrink(n) PROVE Chunks!DA!Next
    <3>1. n < total_size_ /\ n \in Nat /\ list' = SubSeq(list, 1, n)
      BY <2>2, <2>6, ChunkShrinkCorrect DEF Chunks!ConstantsOK
    <3>2. list[1] \in Values
      BY <2>3, <3>1
    <3>3. SubSeq(list, 1, n) = [i \in 1 .. n |-> IF i <= Len(list) THEN list[i] ELSE list[1]]
      BY <2>3, <3>1
    <3>4. Chunks!DA!Resize(n, list[1])
      BY <3>1, <3>3 DEF Chunks!DA!Resize, ChunkList
    <3> QED
      BY <3>2, <3>4 DEF Chunks!DA!Next
  <2>7. CASE Chunks!pop_back
    <3>1. total_size_ > 0 /\ list' = SubSeq(list, 1, total_size_ - 1)
      BY <2>2, <2>7, ChunkPopCorrect
    <3>2. list # <<>> /\ list' = SubSeq(list, 1, Len(list) - 1)
      BY <2>3, <3>1
    <3>3. Chunks!DA!PopBack
      BY <3>2 DEF Chunks!DA!PopBack, ChunkList
    <3> QED
      BY <3>3 DEF Chunks!DA!Next
  <2>8. CASE Chunks!clear
    <3>1. list' = <<>>
      BY <2>2, <2>8, ChunkClearCorrect
    <3>2. Chunks!DA!Clear
      BY <3>1 DEF Chunks!DA!Clear, ChunkList
    <3> QED
      BY <3>2 DEF Chunks!DA!Next
  <2>9. CASE UNCHANGED Chunks!vars
    BY <2>9 DEF Chunks!vars, ChunkList, Chunks!At
  <2> QED
    BY <2>4, <2>5, <2>6, <2>7, <2>8, <2>9 DEF Chunks!Next
<1> QED
  BY <1>1, <1>4, ChunkInvIsInductive, PTL
     DEF Chunks!Spec, ImplementsDynamicArray, Chunks!ImplementsDynamicArray,
         Chunks!DA!Spec, Chunks!DA!Init, ChunkList

=============================================================================
