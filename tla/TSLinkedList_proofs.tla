-------------------------- MODULE TSLinkedList_proofs --------------------------
(***************************************************************************)
(* The safety of TSLinkedList for any number of threads, nodes, values and *)
(* tags: no node is lost or in two places, none is followed after it was   *)
(* released, and tail_ stays in the queue.  The last part is what it       *)
(* implements: what it promises (JobQueue: first in, first out, every      *)
(* operation in one step) and what it owes (GracePeriod: the reclamation   *)
(* scheme, used the way it wants to be used).                              *)
(*                                                                         *)
(* The inductive invariant says where each node is and whose it is         *)
(* (where, who).  The code has no such variables: InductiveInvariant says  *)
(* that there is a placement, and each step is proved to lead to the next  *)
(* one.                                                                    *)
(***************************************************************************)
EXTENDS TSLinkedList, SequenceTheorems, FunctionTheorems, FiniteSetTheorems,
        WellFoundedInduction, TLAPS

-----------------------------------------------------------------------------
(* Chains.  What the next_ fields of the nodes make up: chains that end     *)
(* with nullptr and pass no node twice.  The queue and every cache of free *)
(* nodes is one.  The lemmas say what a chain becomes when a node is put   *)
(* in front (release()), taken from the front (get(), pop_front()) or      *)
(* linked behind the end (push_back()), when a batch is cut off            *)
(* (release() of a full cache), and when a node outside it changes.        *)

\* Every nonempty set of natural numbers has a least element.
LEMMA LeastNumber ==
    ASSUME NEW S \in SUBSET Nat, S # {}
    PROVE  \E x \in S : \A y \in S : x <= y
<1> DEFINE Segments == {0 .. k : k \in S}
<1>1. Segments \subseteq FiniteSubsetsOf(Nat) /\ Segments # {}
  <2>1. \A k \in S : IsFiniteSet(0 .. k) /\ 0 .. k \subseteq Nat
    BY FS_Interval
  <2> QED BY <2>1 DEF FiniteSubsetsOf
<1>2. PICK A \in Segments : \A B \in Segments : <<B, A>> \notin StrictSubsetOrdering(Nat)
  <2> HIDE DEF Segments
  <2> QED BY <1>1, FS_StrictSubsetOrderingWellFounded, WFMin
<1>3. PICK x \in S : A = 0 .. x
  OBVIOUS
<1>4. ASSUME NEW y \in S, y < x
      PROVE  FALSE
  <2>1. x \in 0 .. x /\ x \notin 0 .. y
    BY <1>4
  <2>2. <<0 .. y, 0 .. x>> \in StrictSubsetOrdering(Nat)
    BY <1>4, <2>1 DEF StrictSubsetOrdering
  <2> QED BY <2>2, <1>2, <1>3
<1> QED BY <1>4

\* The body of Chain: where the pointers found so far lead to.
Follow(nx, p, f) ==
    [k \in 0 .. Cardinality(Nodes) |->
        IF k = 0 THEN p ELSE IF f[k - 1].node = NULL THEN Null ELSE nx[f[k - 1].node]]

\* q lists the nodes of a chain that starts at p and ends with nullptr.
IsList(nx, p, q) ==
    /\ q \in Seq(Nodes)
    /\ \A i, j \in 1 .. Len(q) : q[i] = q[j] => i = j
    /\ p.node = IF q = <<>> THEN NULL ELSE q[1]
    /\ \A i \in 1 .. Len(q) : nx[q[i]].node = IF i < Len(q) THEN q[i + 1] ELSE NULL

\* The pointers of a chain, given its nodes.
PointersOf(nx, p, q) ==
    [k \in 0 .. Cardinality(Nodes) |->
        IF k = 0 THEN p ELSE IF k <= Len(q) THEN nx[q[k]] ELSE Null]

\* A list of distinct nodes is no longer than there are nodes.
LEMMA ListIsShort ==
    ASSUME NEW nx, NEW p, NEW q, IsList(nx, p, q)
    PROVE  /\ Cardinality(Nodes) \in Nat
           /\ Len(q) <= Cardinality(Nodes)
<1>1. q \in Injection(1 .. Len(q), Nodes)
  BY DEF IsList, Injection, IsInjective
<1>2. Cardinality(1 .. Len(q)) = Len(q)
  <2>1. Len(q) \in Nat
    BY DEF IsList
  <2>2. Cardinality(1 .. Len(q)) = IF 1 > Len(q) THEN 0 ELSE Len(q) - 1 + 1
    BY <2>1, FS_Interval
  <2> QED BY <2>1, <2>2
<1> QED BY <1>1, <1>2, FS_Injection, FS_CardinalityType, NodesAssumption

\* Chain() finds exactly these pointers.
LEMMA ChainOfList ==
    ASSUME NEW nx \in [Nodes -> TaggedPtr], NEW p \in TaggedPtr, NEW q, IsList(nx, p, q)
    PROVE  Chain(nx, p) = PointersOf(nx, p, q)
<1> DEFINE N == Cardinality(Nodes)
           P == PointersOf(nx, p, q)
<1>1. N \in Nat /\ Len(q) <= N /\ Len(q) \in Nat
  BY ListIsShort DEF IsList
<1>2. P = Follow(nx, p, P)
  <2>1. ASSUME NEW k \in 0 .. N
        PROVE  P[k] = Follow(nx, p, P)[k]
    <3>1. CASE k = 0
      BY <3>1 DEF PointersOf, Follow
    <3>2. CASE k # 0
      <4>1. k - 1 \in 0 .. N /\ k \in Nat /\ k - 1 \in Nat
        BY <3>2, <1>1
      <4>2. P[k - 1].node = IF k <= Len(q) THEN q[k] ELSE NULL
        <5>1. CASE k - 1 = 0
          BY <4>1, <5>1, <1>1 DEF PointersOf, IsList
        <5>2. CASE k - 1 # 0 /\ k - 1 <= Len(q)
          <6>1. k - 1 \in 1 .. Len(q)
            BY <5>2, <4>1, <1>1
          <6>2. P[k - 1] = nx[q[k - 1]]
            BY <5>2, <4>1 DEF PointersOf
          <6>3. nx[q[k - 1]].node = IF k - 1 < Len(q) THEN q[k - 1 + 1] ELSE NULL
            BY <6>1 DEF IsList
          <6> QED BY <6>1, <6>2, <6>3, <1>1, <4>1
        <5>3. CASE k - 1 # 0 /\ k - 1 > Len(q)
          BY <5>3, <4>1, <1>1 DEF PointersOf, Null, Ptr
        <5> QED BY <5>1, <5>2, <5>3, <4>1, <1>1
      <4>3. k <= Len(q) => q[k] \in Nodes
        BY <4>1, <3>2, <1>1 DEF IsList
      <4>4. Follow(nx, p, P)[k] = IF P[k - 1].node = NULL THEN Null ELSE nx[P[k - 1].node]
        BY <3>2 DEF Follow
      <4>5. P[k] = IF k <= Len(q) THEN nx[q[k]] ELSE Null
        BY <3>2 DEF PointersOf
      <4> QED BY <4>2, <4>3, <4>4, <4>5, NullAssumption
    <3> QED BY <3>1, <3>2
  <2> QED BY <2>1 DEF PointersOf, Follow
<1>3. Chain(nx, p) = CHOOSE f : f = Follow(nx, p, f)
  BY DEF Chain, Follow
<1> DEFINE f == Chain(nx, p)
<1>4. f = Follow(nx, p, f)
  <2> HIDE DEF P, f
  <2>1. \E g : g = Follow(nx, p, g)
    BY <1>2
  <2>2. f = CHOOSE g : g = Follow(nx, p, g)
    BY <1>3 DEF f
  <2> QED BY <2>1, <2>2
<1>5. \A k \in 0 .. N : f[k] = P[k]
  <2> DEFINE S == {k \in 0 .. N : f[k] # P[k]}
  <2>1. SUFFICES ASSUME S # {} PROVE FALSE
    OBVIOUS
  <2>2. PICK k \in S : \A y \in S : k <= y
    <3>1. S \in SUBSET Nat
      BY <1>1
    <3> HIDE DEF S
    <3> QED BY <2>1, <3>1, LeastNumber
  <2>3. f[k] = Follow(nx, p, f)[k] /\ P[k] = Follow(nx, p, P)[k]
    BY <1>2, <1>4
  <2> HIDE DEF P, f
  <2>4. k # 0
    BY <2>2, <2>3 DEF Follow
  <2>5. k - 1 \in 0 .. N /\ k - 1 \notin S
    BY <2>2, <2>4, <1>1
  <2>6. f[k - 1] = P[k - 1]
    BY <2>5
  <2> QED BY <2>2, <2>3, <2>4, <2>6 DEF Follow
<1>6. f = [k \in 0 .. N |-> f[k]] /\ P = [k \in 0 .. N |-> P[k]]
  <2>1. P = [k \in 0 .. N |-> P[k]]
    BY DEF PointersOf
  <2>2. Follow(nx, p, f) = [k \in 0 .. N |-> Follow(nx, p, f)[k]]
    BY DEF Follow
  <2> HIDE DEF f
  <2> QED BY <2>1, <2>2, <1>4
<1> QED 
  <2> HIDE DEF f, P
  <2>1. [k \in 0 .. N |-> f[k]] = [k \in 0 .. N |-> P[k]]
    BY <1>5
  <2>2. f = P
    BY <1>6, <2>1
  <2> QED BY <2>2 DEF f, P
-----------------------------------------------------------------------------
\* The nodes a chain passes through.
Reach(nx, p) == {Chain(nx, p)[k].node : k \in 0 .. Cardinality(Nodes)} \ {NULL}

\* Following the next fields from p visits distinct nodes and ends.
IsChain(nx, p) ==
    /\ nx \in [Nodes -> TaggedPtr]
    /\ p \in TaggedPtr
    /\ \E q : IsList(nx, p, q)

\* Which node each pointer of a chain is to.
LEMMA NodeAt ==
    ASSUME NEW nx \in [Nodes -> TaggedPtr], NEW p \in TaggedPtr, NEW q, IsList(nx, p, q)
    PROVE  \A k \in 0 .. Cardinality(Nodes) :
              Chain(nx, p)[k].node = IF k < Len(q) THEN q[k + 1] ELSE NULL
<1>1. Cardinality(Nodes) \in Nat /\ Len(q) <= Cardinality(Nodes) /\ Len(q) \in Nat
  BY ListIsShort DEF IsList
<1> SUFFICES ASSUME NEW k \in 0 .. Cardinality(Nodes)
             PROVE  PointersOf(nx, p, q)[k].node = IF k < Len(q) THEN q[k + 1] ELSE NULL
  BY ChainOfList
<1>2. CASE k = 0
  BY <1>1, <1>2 DEF PointersOf, IsList
<1>3. CASE k # 0 /\ k <= Len(q)
  <2>1. k \in 1 .. Len(q)
    BY <1>1, <1>3
  <2> QED BY <2>1, <1>1, <1>3 DEF PointersOf, IsList
<1>4. CASE k > Len(q)
  BY <1>1, <1>4 DEF PointersOf, Null, Ptr
<1> QED BY <1>1, <1>2, <1>3, <1>4

\* The nodes of a chain are the elements of its list.
LEMMA ReachOfList ==
    ASSUME NEW nx \in [Nodes -> TaggedPtr], NEW p \in TaggedPtr, NEW q, IsList(nx, p, q)
    PROVE  /\ Reach(nx, p) = {q[i] : i \in 1 .. Len(q)}
           /\ IsFiniteSet(Reach(nx, p))
           /\ Cardinality(Reach(nx, p)) = Len(q)
<1>1. Cardinality(Nodes) \in Nat /\ Len(q) <= Cardinality(Nodes) /\ Len(q) \in Nat
  BY ListIsShort DEF IsList
<1>2. \A i \in 1 .. Len(q) : q[i] \in Nodes
  BY DEF IsList
<1>3. Reach(nx, p) = {q[i] : i \in 1 .. Len(q)}
  <2>1. ASSUME NEW i \in 1 .. Len(q)
        PROVE  q[i] \in Reach(nx, p)
    <3>1. i - 1 \in 0 .. Cardinality(Nodes) /\ i - 1 < Len(q) /\ i - 1 + 1 = i
      BY <1>1
    <3>2. Chain(nx, p)[i - 1].node = q[i]
      BY <3>1, NodeAt
    <3> QED BY <3>1, <3>2, <1>2, NullAssumption DEF Reach
  <2>2. ASSUME NEW n \in Reach(nx, p)
        PROVE  \E i \in 1 .. Len(q) : n = q[i]
    <3>1. PICK k \in 0 .. Cardinality(Nodes) : n = Chain(nx, p)[k].node /\ n # NULL
      BY DEF Reach
    <3>2. k < Len(q) /\ n = q[k + 1]
      BY <3>1, NodeAt
    <3>3. k + 1 \in 1 .. Len(q)
      BY <3>2, <1>1
    <3> QED BY <3>2, <3>3
  <2> QED BY <2>1, <2>2
<1>4. q \in Bijection(1 .. Len(q), Reach(nx, p))
  <2>1. q \in [1 .. Len(q) -> Reach(nx, p)]
    BY <1>3 DEF IsList
  <2> QED BY <1>3, <2>1
          DEF IsList, Bijection, Injection, Surjection, IsInjective
<1>5. IsFiniteSet(1 .. Len(q)) /\ Cardinality(1 .. Len(q)) = Len(q)
  <2>1. Len(q) \in Nat
    BY <1>1
  <2>2. IsFiniteSet(1 .. Len(q))
    BY <2>1, FS_Interval
  <2>3. Cardinality(1 .. Len(q)) = IF 1 > Len(q) THEN 0 ELSE Len(q) - 1 + 1
    BY <2>1, FS_Interval
  <2> QED BY <2>1, <2>2, <2>3
<1>6. ExistsBijection(1 .. Len(q), Reach(nx, p))
  BY <1>4 DEF ExistsBijection
<1> QED BY <1>3, <1>5, <1>6, FS_Bijection

\* A chain has finitely many nodes, and does not pass through nullptr.
LEMMA ReachBasics ==
    ASSUME NEW nx, NEW p, IsChain(nx, p)
    PROVE  /\ Reach(nx, p) \subseteq Nodes
           /\ IsFiniteSet(Reach(nx, p))
           /\ Cardinality(Reach(nx, p)) \in Nat
           /\ NULL \notin Reach(nx, p)
           /\ p.node = NULL <=> Reach(nx, p) = {}
           /\ p.node # NULL => p.node \in Reach(nx, p)
<1>1. PICK q : IsList(nx, p, q)
  BY DEF IsChain
<1>2. /\ Reach(nx, p) = {q[i] : i \in 1 .. Len(q)}
      /\ IsFiniteSet(Reach(nx, p))
      /\ Cardinality(Reach(nx, p)) = Len(q)
  BY <1>1, ReachOfList DEF IsChain
<1>3. q \in Seq(Nodes) /\ Len(q) \in Nat /\ \A i \in 1 .. Len(q) : q[i] \in Nodes
  BY <1>1 DEF IsList
<1>4. CASE q = <<>>
  BY <1>1, <1>2, <1>3, <1>4, NullAssumption DEF IsList
<1>5. CASE q # <<>>
  <2>1. Len(q) >= 1 /\ 1 \in 1 .. Len(q) /\ p.node = q[1]
    BY <1>1, <1>3, <1>5 DEF IsList
  <2> QED BY <1>2, <1>3, <2>1, NullAssumption
<1> QED BY <1>4, <1>5

\* A pointer to nothing is a chain without nodes.
LEMMA EmptyChain ==
    ASSUME NEW nx \in [Nodes -> TaggedPtr], NEW p \in TaggedPtr, p.node = NULL
    PROVE  IsChain(nx, p) /\ Reach(nx, p) = {}
<1>1. IsList(nx, p, <<>>)
  BY DEF IsList
<1> QED BY <1>1, ReachBasics DEF IsChain

\* A chain depends on the fields of its own nodes only.
LEMMA ReachFrame ==
    ASSUME NEW nx, NEW p, IsChain(nx, p), NEW nx2 \in [Nodes -> TaggedPtr],
           \A n \in Reach(nx, p) : nx2[n] = nx[n]
    PROVE  /\ IsChain(nx2, p)
           /\ Reach(nx2, p) = Reach(nx, p)
           /\ Chain(nx2, p) = Chain(nx, p)
<1>1. PICK q : IsList(nx, p, q)
  BY DEF IsChain
<1>2. Reach(nx, p) = {q[i] : i \in 1 .. Len(q)}
  BY <1>1, ReachOfList DEF IsChain
<1>3. IsList(nx2, p, q)
  BY <1>1, <1>2 DEF IsList
<1>4. Reach(nx2, p) = {q[i] : i \in 1 .. Len(q)}
  BY <1>3, ReachOfList DEF IsChain
<1>5. PointersOf(nx2, p, q) = PointersOf(nx, p, q)
  <2>1. \A k \in 0 .. Cardinality(Nodes) : k # 0 /\ k <= Len(q) => nx2[q[k]] = nx[q[k]]
    <3>1. Len(q) \in Nat
      BY <1>1 DEF IsList
    <3>2. \A k \in 0 .. Cardinality(Nodes) : k # 0 /\ k <= Len(q) => k \in 1 .. Len(q)
      BY <3>1
    <3> QED BY <3>2, <1>2
  <2> QED BY <2>1 DEF PointersOf
<1>6. Chain(nx2, p) = PointersOf(nx2, p, q) /\ Chain(nx, p) = PointersOf(nx, p, q)
  BY <1>1, <1>3, ChainOfList DEF IsChain
<1> QED BY <1>2, <1>3, <1>4, <1>5, <1>6 DEF IsChain

\* A node put in front of a chain.
LEMMA ReachCons ==
    ASSUME NEW nx, NEW p, IsChain(nx, p), NEW r \in TaggedPtr,
           r.node \in Nodes \ Reach(nx, p), nx[r.node].node = p.node
    PROVE  /\ IsChain(nx, r)
           /\ Reach(nx, r) = Reach(nx, p) \cup {r.node}
           /\ Cardinality(Reach(nx, r)) = Cardinality(Reach(nx, p)) + 1
<1>1. PICK q : IsList(nx, p, q)
  BY DEF IsChain
<1>2. Reach(nx, p) = {q[i] : i \in 1 .. Len(q)} /\ Cardinality(Reach(nx, p)) = Len(q)
  BY <1>1, ReachOfList DEF IsChain
<1>3. q \in Seq(Nodes) /\ Len(q) \in Nat
  BY <1>1 DEF IsList
<1>4. PICK s \in Seq(Nodes) : s = <<r.node>> \o q
  <2>1. <<r.node>> \in Seq(Nodes)
    OBVIOUS
  <2> QED BY <2>1, <1>3, ConcatProperties
<1>5. Len(s) = Len(q) + 1 /\ s[1] = r.node /\ \A i \in 2 .. Len(s) : s[i] = q[i - 1] /\ i - 1 \in 1 .. Len(q)
  BY <1>3, <1>4
<1>6. IsList(nx, r, s)
  <2>1. \A i, j \in 1 .. Len(s) : s[i] = s[j] => i = j
    <3>1. \A i \in 2 .. Len(s) : s[i] # s[1]
      BY <1>2, <1>5
    <3>2. \A i, j \in 2 .. Len(s) : s[i] = s[j] => i = j
      BY <1>1, <1>3, <1>5 DEF IsList
    <3>3. \A i \in 1 .. Len(s) : i = 1 \/ i \in 2 .. Len(s)
      BY <1>3, <1>5
    <3> QED BY <3>1, <3>2, <3>3
  <2>2. ASSUME NEW i \in 1 .. Len(s)
        PROVE  nx[s[i]].node = IF i < Len(s) THEN s[i + 1] ELSE NULL
    <3>1. CASE i = 1 /\ q = <<>>
      BY <3>1, <1>1, <1>5 DEF IsList
    <3>2. CASE i = 1 /\ q # <<>>
      <4>1. 2 \in 2 .. Len(s) /\ s[2] = q[1]
        BY <3>2, <1>3, <1>5
      <4> QED BY <3>2, <4>1, <1>1, <1>5 DEF IsList
    <3>3. CASE i # 1
      <4>1. i \in 2 .. Len(s) /\ i - 1 \in 1 .. Len(q) /\ s[i] = q[i - 1]
        BY <3>3, <1>3, <1>5
      <4>2. nx[q[i - 1]].node = IF i - 1 < Len(q) THEN q[i - 1 + 1] ELSE NULL
        BY <4>1, <1>1 DEF IsList
      <4>3. i < Len(s) => i + 1 \in 2 .. Len(s) /\ i + 1 - 1 = i - 1 + 1
        BY <4>1, <1>3, <1>5
      <4>4. i < Len(s) <=> i - 1 < Len(q)
        BY <4>1, <1>3, <1>5
      <4>5. i < Len(s) => s[i + 1] = q[i - 1 + 1]
        BY <4>3, <1>5
      <4> QED BY <4>1, <4>2, <4>4, <4>5
    <3> QED BY <3>1, <3>2, <3>3
  <2>3. s # <<>>
    BY <1>3, <1>5
  <2> QED BY <2>1, <2>2, <2>3, <1>4, <1>5 DEF IsList
<1>7. Reach(nx, r) = {s[i] : i \in 1 .. Len(s)} /\ Cardinality(Reach(nx, r)) = Len(s)
  BY <1>6, ReachOfList DEF IsChain
<1>8. {s[i] : i \in 1 .. Len(s)} = {q[i] : i \in 1 .. Len(q)} \cup {r.node}
  <2>1. \A i \in 1 .. Len(q) : i + 1 \in 2 .. Len(s) /\ i + 1 - 1 = i
    BY <1>3, <1>5
  <2>2. \A i \in 1 .. Len(s) : i = 1 \/ i \in 2 .. Len(s)
    BY <1>3, <1>5
  <2>3. 1 \in 1 .. Len(s)
    BY <1>3, <1>5
  <2>4. \A i \in 2 .. Len(s) : i \in 1 .. Len(s)
    BY <1>3, <1>5
  <2>5. \A i \in 1 .. Len(q) : q[i] = s[i + 1]
    BY <2>1, <1>5
  <2> QED BY <2>1, <2>2, <2>3, <2>4, <2>5, <1>5
<1> QED BY <1>2, <1>5, <1>6, <1>7, <1>8 DEF IsChain

\* What is left of a list after k of its nodes.
LEMMA ListDrop ==
    ASSUME NEW nx \in [Nodes -> TaggedPtr], NEW p \in TaggedPtr, NEW q, IsList(nx, p, q),
           NEW k \in 0 .. Len(q)
    PROVE  /\ Chain(nx, p)[k] \in TaggedPtr
           /\ IsList(nx, Chain(nx, p)[k], SubSeq(q, k + 1, Len(q)))
<1>1. Cardinality(Nodes) \in Nat /\ Len(q) <= Cardinality(Nodes) /\ Len(q) \in Nat
  BY ListIsShort DEF IsList
<1>2. k \in 0 .. Cardinality(Nodes) /\ k \in Nat
  BY <1>1
<1>3. Chain(nx, p)[k].node = IF k < Len(q) THEN q[k + 1] ELSE NULL
  BY <1>2, NodeAt
<1>4. Chain(nx, p)[k] \in TaggedPtr
  <2>1. Chain(nx, p)[k] = IF k = 0 THEN p ELSE nx[q[k]]
    BY <1>1, <1>2, ChainOfList DEF PointersOf
  <2>2. k # 0 => q[k] \in Nodes
    BY <1>1, <1>2 DEF IsList
  <2> QED BY <2>1, <2>2
<1>5. PICK s : s = SubSeq(q, k + 1, Len(q))
  OBVIOUS
<1>6. /\ s \in Seq(Nodes)
      /\ Len(s) = Len(q) - k
      /\ \A i \in 1 .. Len(q) - k : s[i] = q[k + i]
  <2>1. \A i \in k + 1 .. Len(q) : q[i] \in Nodes
    BY <1>1, <1>2 DEF IsList
  <2>2. /\ SubSeq(q, k + 1, Len(q)) \in Seq(Nodes)
        /\ Len(SubSeq(q, k + 1, Len(q)))
              = IF k + 1 <= Len(q) THEN Len(q) - (k + 1) + 1 ELSE 0
        /\ \A i \in 1 .. Len(q) - (k + 1) + 1 : SubSeq(q, k + 1, Len(q))[i] = q[k + 1 + i - 1]
    <3>1. k + 1 \in Int /\ Len(q) \in Int
      BY <1>1, <1>2
    <3> QED BY <2>1, <3>1, SubSeqProperties
  <2> QED BY <2>2, <1>1, <1>2, <1>5
<1>7. \A i \in 1 .. Len(s) : k + i \in 1 .. Len(q)
  BY <1>1, <1>2, <1>6
<1>8. IsList(nx, Chain(nx, p)[k], s)
  <2>1. \A i, j \in 1 .. Len(s) : s[i] = s[j] => i = j
    <3> SUFFICES ASSUME NEW i \in 1 .. Len(s), NEW j \in 1 .. Len(s), s[i] = s[j]
                 PROVE  i = j
      OBVIOUS
    <3>1. q[k + i] = q[k + j]
      BY <1>6
    <3>2. k + i = k + j
      BY <1>7, <3>1 DEF IsList
    <3> QED BY <3>2, <1>2
  <2>2. Chain(nx, p)[k].node = IF s = <<>> THEN NULL ELSE s[1]
    <3>1. CASE k < Len(q)
      <4>1. Len(s) # 0 /\ 1 \in 1 .. Len(q) - k
        BY <3>1, <1>1, <1>2, <1>6
      <4> QED BY <3>1, <4>1, <1>3, <1>6
    <3>2. CASE k = Len(q)
      <4>1. Len(s) = 0
        BY <3>2, <1>1, <1>2, <1>6
      <4>2. s = <<>>
        BY <4>1, <1>6
      <4> QED BY <3>2, <4>2, <1>1, <1>3
    <3> QED BY <3>1, <3>2, <1>1, <1>2
  <2>3. ASSUME NEW i \in 1 .. Len(s)
        PROVE  nx[s[i]].node = IF i < Len(s) THEN s[i + 1] ELSE NULL
    <3>1. nx[q[k + i]].node = IF k + i < Len(q) THEN q[k + i + 1] ELSE NULL
      BY <1>7 DEF IsList
    <3>2. k + i < Len(q) <=> i < Len(s)
      BY <1>1, <1>2, <1>6
    <3>3. i < Len(s) => i + 1 \in 1 .. Len(q) - k /\ k + (i + 1) = k + i + 1
      BY <1>1, <1>2, <1>6
    <3> QED BY <3>1, <3>2, <3>3, <1>6
  <2> QED BY <2>1, <2>2, <2>3, <1>6 DEF IsList
<1> QED BY <1>4, <1>5, <1>8

\* A batch of k nodes is cut off the front of a chain.
LEMMA ReachDrop ==
    ASSUME NEW nx, NEW p, IsChain(nx, p), NEW k \in Nat, k <= Cardinality(Reach(nx, p))
    PROVE  LET c == Chain(nx, p)
               batch == {c[i].node : i \in 0 .. k - 1}
           IN  /\ c[k] \in TaggedPtr
               /\ IsChain(nx, c[k])
               /\ batch \subseteq Reach(nx, p)
               /\ Reach(nx, c[k]) = Reach(nx, p) \ batch
               /\ Cardinality(Reach(nx, c[k])) = Cardinality(Reach(nx, p)) - k
<1> DEFINE c == Chain(nx, p)
           batch == {c[i].node : i \in 0 .. k - 1}
<1>1. PICK q : IsList(nx, p, q)
  BY DEF IsChain
<1>2. Reach(nx, p) = {q[i] : i \in 1 .. Len(q)} /\ Cardinality(Reach(nx, p)) = Len(q)
  BY <1>1, ReachOfList DEF IsChain
<1>3. Cardinality(Nodes) \in Nat /\ Len(q) <= Cardinality(Nodes) /\ Len(q) \in Nat
  BY <1>1, ListIsShort DEF IsList
<1>4. k \in 0 .. Len(q)
  <2>1. k \in Nat /\ k <= Len(q)
    BY <1>2
  <2> QED BY <2>1, <1>3
<1>5. PICK s : s = SubSeq(q, k + 1, Len(q))
  OBVIOUS
<1>6. c[k] \in TaggedPtr /\ IsList(nx, c[k], s)
  BY <1>1, <1>4, <1>5, ListDrop DEF IsChain
<1>7. Reach(nx, c[k]) = {s[i] : i \in 1 .. Len(s)} /\ Cardinality(Reach(nx, c[k])) = Len(s)
  BY <1>6, ReachOfList DEF IsChain
<1>8. Len(s) = Len(q) - k /\ \A i \in 1 .. Len(q) - k : s[i] = q[k + i]
  <2>1. k + 1 \in Int /\ Len(q) \in Int /\ \A i \in k + 1 .. Len(q) : q[i] \in Nodes
    BY <1>1, <1>3, <1>4 DEF IsList
  <2>2. /\ Len(SubSeq(q, k + 1, Len(q)))
              = IF k + 1 <= Len(q) THEN Len(q) - (k + 1) + 1 ELSE 0
        /\ \A i \in 1 .. Len(q) - (k + 1) + 1 : SubSeq(q, k + 1, Len(q))[i] = q[k + 1 + i - 1]
    BY <2>1, SubSeqProperties
  <2> QED BY <2>2, <1>3, <1>4, <1>5
<1>9. batch = {q[i] : i \in 1 .. k}
  <2>1. \A i \in 0 .. k - 1 : i \in 0 .. Cardinality(Nodes) /\ i < Len(q) /\ i + 1 \in 1 .. k
    BY <1>3, <1>4
  <2>2. \A i \in 0 .. k - 1 : c[i].node = q[i + 1]
    BY <2>1, <1>1, NodeAt DEF IsChain
  <2>3. \A i \in 1 .. k : i - 1 \in 0 .. k - 1 /\ i - 1 + 1 = i
    BY <1>4
  <2>4. \A i \in 1 .. k : q[i] = c[i - 1].node
    BY <2>2, <2>3
  <2> HIDE DEF c
  <2> QED BY <2>1, <2>2, <2>3, <2>4
<1>10. Reach(nx, c[k]) = Reach(nx, p) \ batch
  <2>1. \A i \in 1 .. Len(q) - k : k + i \in 1 .. Len(q) /\ ~(k + i \in 1 .. k)
    BY <1>3, <1>4
  <2>2. \A i \in 1 .. Len(q) : i \in 1 .. k \/ (i - k \in 1 .. Len(q) - k /\ k + (i - k) = i)
    BY <1>3, <1>4
  <2>3. \A i \in 1 .. k : i \in 1 .. Len(q)
    BY <1>3, <1>4
  <2>4. \A i \in 1 .. Len(q) : i \in 1 .. k \/ (i - k \in 1 .. Len(q) - k /\ s[i - k] = q[i])
    BY <2>2, <1>8
  <2>5. \A i, j \in 1 .. Len(q) : q[i] = q[j] => i = j
    BY <1>1 DEF IsList
  <2>6. \A i \in 1 .. Len(q) - k : s[i] \in Reach(nx, p) /\ s[i] \notin batch
    <3> SUFFICES ASSUME NEW i \in 1 .. Len(q) - k
                 PROVE  s[i] \in Reach(nx, p) /\ s[i] \notin batch
      OBVIOUS
    <3>1. s[i] = q[k + i] /\ k + i \in 1 .. Len(q) /\ ~(k + i \in 1 .. k)
      BY <2>1, <1>8
    <3>2. s[i] \in Reach(nx, p)
      BY <3>1, <1>2
    <3>3. \A j \in 1 .. k : q[j] # q[k + i]
      BY <3>1, <2>3, <2>5
    <3> QED BY <3>1, <3>2, <3>3, <1>9
  <2>7. \A n \in Reach(nx, p) \ batch : \E i \in 1 .. Len(q) - k : s[i] = n
    BY <2>4, <1>2, <1>9
  <2> HIDE DEF c, batch
  <2> QED BY <2>6, <2>7, <1>7, <1>8
<1>11. batch \subseteq Reach(nx, p)
  <2>1. \A i \in 1 .. k : i \in 1 .. Len(q)
    BY <1>3, <1>4
  <2> HIDE DEF batch
  <2> QED BY <2>1, <1>2, <1>9
<1> QED 
  <2> HIDE DEF batch
  <2>1. IsChain(nx, c[k])
    BY <1>6 DEF IsChain
  <2>2. Cardinality(Reach(nx, c[k])) = Cardinality(Reach(nx, p)) - k
    BY <1>2, <1>7, <1>8
  <2> QED BY <2>1, <2>2, <1>6, <1>10, <1>11 DEF batch

\* The first node is taken from a chain.
LEMMA ReachUncons ==
    ASSUME NEW nx, NEW p, IsChain(nx, p), p.node # NULL
    PROVE  /\ p.node \in Nodes
           /\ IsChain(nx, nx[p.node])
           /\ Reach(nx, nx[p.node]) = Reach(nx, p) \ {p.node}
           /\ Cardinality(Reach(nx, nx[p.node])) = Cardinality(Reach(nx, p)) - 1
<1>1. p.node \in Reach(nx, p) /\ p.node \in Nodes /\ Cardinality(Reach(nx, p)) \in Nat
  BY ReachBasics
<1>2. 1 <= Cardinality(Reach(nx, p))
  <2>1. Cardinality(Reach(nx, p)) # 0
    BY <1>1, ReachBasics, FS_EmptySet
  <2> QED BY <1>1, <2>1
<1>3. PICK q : IsList(nx, p, q)
  BY DEF IsChain
<1>4. Cardinality(Reach(nx, p)) = Len(q)
  BY <1>3, ReachOfList DEF IsChain
<1>5. Cardinality(Nodes) \in Nat /\ Len(q) <= Cardinality(Nodes) /\ Len(q) \in Nat
  BY <1>3, ListIsShort DEF IsList
<1>6. Chain(nx, p)[1] = nx[p.node] /\ Chain(nx, p)[0] = p
  <2>1. Chain(nx, p) = PointersOf(nx, p, q)
    BY <1>3, ChainOfList DEF IsChain
  <2>2. 0 \in 0 .. Cardinality(Nodes) /\ 1 \in 0 .. Cardinality(Nodes) /\ 1 <= Len(q)
    BY <1>2, <1>4, <1>5
  <2>3. q[1] = p.node
    BY <1>2, <1>3, <1>4 DEF IsList
  <2> QED BY <2>1, <2>2, <2>3 DEF PointersOf
<1>7. {Chain(nx, p)[i].node : i \in 0 .. 1 - 1} = {p.node}
  <2>1. 0 .. 1 - 1 = {0}
    OBVIOUS
  <2> QED BY <2>1, <1>6
<1> QED BY <1>1, <1>2, <1>6, <1>7, ReachDrop

\* A node linked behind the last one of a list.
LEMMA ListSnoc ==
    ASSUME NEW nx \in [Nodes -> TaggedPtr], NEW p \in TaggedPtr, NEW q, IsList(nx, p, q),
           NEW n, n \in Reach(nx, p), nx[n].node = NULL,
           NEW r \in TaggedPtr, r.node \in Nodes \ Reach(nx, p), nx[r.node].node = NULL,
           NEW nx2 \in [Nodes -> TaggedPtr], nx2[n] = r, \A m \in Nodes \ {n} : nx2[m] = nx[m]
    PROVE  IsList(nx2, p, Append(q, r.node))
<1>1. Reach(nx, p) = {q[i] : i \in 1 .. Len(q)}
  BY ReachOfList
<1>2. q \in Seq(Nodes) /\ Len(q) \in Nat
  BY DEF IsList
<1>3. PICK i \in 1 .. Len(q) : n = q[i]
  BY <1>1
<1>4. i = Len(q)
  <2>1. ~(i < Len(q))
    <3>1. i < Len(q) => i + 1 \in 1 .. Len(q) /\ nx[n].node = q[i + 1]
      BY <1>2, <1>3 DEF IsList
    <3>2. i < Len(q) => q[i + 1] \in Nodes
      BY <3>1, <1>2
    <3> QED BY <3>1, <3>2, NullAssumption
  <2> QED BY <2>1, <1>2, <1>3
<1>5. PICK s \in Seq(Nodes) : s = Append(q, r.node)
  BY <1>2, AppendProperties
<1>6. /\ Len(s) = Len(q) + 1
      /\ s[Len(q) + 1] = r.node
      /\ \A j \in 1 .. Len(q) : s[j] = q[j] /\ s[j] # r.node
  BY <1>1, <1>2, <1>5
<1>7. \A j \in 1 .. Len(s) : j \in 1 .. Len(q) \/ j = Len(q) + 1
  BY <1>2, <1>6
<1>8. n \in Nodes /\ n # r.node
  BY <1>1, <1>2, <1>3
<1>9. \A j, k \in 1 .. Len(s) : s[j] = s[k] => j = k
  <2>1. \A j, k \in 1 .. Len(q) : q[j] = q[k] => j = k
    BY DEF IsList
  <2> QED BY <2>1, <1>6, <1>7
<1>10. p.node = s[1] /\ s # <<>>
  <2>1. q # <<>> /\ 1 \in 1 .. Len(q)
    BY <1>2, <1>3
  <2> QED BY <2>1, <1>2, <1>6 DEF IsList
<1>11. ASSUME NEW j \in 1 .. Len(s)
       PROVE  nx2[s[j]].node = IF j < Len(s) THEN s[j + 1] ELSE NULL
  <2>1. CASE j = Len(q) + 1
    BY <2>1, <1>2, <1>6, <1>8
  <2>2. CASE j = Len(q)
    BY <2>2, <1>2, <1>3, <1>4, <1>6, <1>8
  <2>3. CASE j \in 1 .. Len(q) /\ j # Len(q)
    <3>1. j < Len(q) /\ j + 1 \in 1 .. Len(q)
      BY <2>3, <1>2
    <3>2. q[j] # n /\ q[j] \in Nodes
      BY <2>3, <1>2, <1>3, <1>4 DEF IsList
    <3>3. nx[q[j]].node = q[j + 1]
      BY <3>1, <2>3 DEF IsList
    <3> QED BY <2>3, <3>1, <3>2, <3>3, <1>2, <1>6, <1>8
  <2> QED BY <2>1, <2>2, <2>3, <1>7
<1> QED BY <1>5, <1>9, <1>10, <1>11 DEF IsList

\* The same for the set of nodes.
LEMMA ReachSnoc ==
    ASSUME NEW nx, NEW p, IsChain(nx, p),
           NEW n \in Reach(nx, p), nx[n].node = NULL,
           NEW r \in TaggedPtr, r.node \in Nodes \ Reach(nx, p), nx[r.node].node = NULL,
           NEW nx2 \in [Nodes -> TaggedPtr], nx2[n] = r, \A m \in Nodes \ {n} : nx2[m] = nx[m]
    PROVE  /\ IsChain(nx2, p)
           /\ Reach(nx2, p) = Reach(nx, p) \cup {r.node}
<1>1. PICK q : IsList(nx, p, q)
  BY DEF IsChain
<1>2. IsList(nx2, p, Append(q, r.node))
  BY <1>1, ListSnoc DEF IsChain
<1>3. Reach(nx, p) = {q[i] : i \in 1 .. Len(q)}
  BY <1>1, ReachOfList DEF IsChain
<1>4. PICK s : s = Append(q, r.node)
  OBVIOUS
<1>5. Reach(nx2, p) = {s[i] : i \in 1 .. Len(s)}
  <2>1. IsList(nx2, p, s) /\ p \in TaggedPtr
    BY <1>2, <1>4 DEF IsChain
  <2> QED BY <1>2, <2>1, ReachOfList
<1>6. {s[i] : i \in 1 .. Len(s)} = {q[i] : i \in 1 .. Len(q)} \cup {r.node}
  <2>1. q \in Seq(Nodes) /\ Len(q) \in Nat
    BY <1>1 DEF IsList
  <2>2. /\ Len(s) = Len(q) + 1
        /\ s[Len(q) + 1] = r.node
        /\ \A j \in 1 .. Len(q) : s[j] = q[j]
    BY <2>1, <1>4
  <2>3. \A j \in 1 .. Len(s) : j \in 1 .. Len(q) \/ j = Len(q) + 1
    BY <2>1, <2>2
  <2>4. Len(q) + 1 \in 1 .. Len(s) /\ \A j \in 1 .. Len(q) : j \in 1 .. Len(s)
    BY <2>1, <2>2
  <2> QED BY <2>2, <2>3, <2>4
<1> QED BY <1>2, <1>3, <1>5, <1>6 DEF IsChain

\* Inside a chain every node but the last has its successor in the chain, no
\* two nodes have the same one, and the first is nobody's successor.
LEMMA Successors ==
    ASSUME NEW nx, NEW p, IsChain(nx, p)
    PROVE  /\ \A n \in Reach(nx, p) : nx[n].node # NULL =>
                 nx[n].node \in Reach(nx, p) \ {p.node, n}
           /\ \A m, n \in Reach(nx, p) : nx[m].node = nx[n].node => m = n
<1>1. PICK q : IsList(nx, p, q)
  BY DEF IsChain
<1>2. Reach(nx, p) = {q[i] : i \in 1 .. Len(q)}
  BY <1>1, ReachOfList DEF IsChain
<1>3. /\ q \in Seq(Nodes) /\ Len(q) \in Nat
      /\ \A i \in 1 .. Len(q) : q[i] \in Nodes
      /\ \A i, j \in 1 .. Len(q) : q[i] = q[j] => i = j
      /\ \A i \in 1 .. Len(q) : nx[q[i]].node = IF i < Len(q) THEN q[i + 1] ELSE NULL
      /\ q # <<>> => p.node = q[1]
  BY <1>1 DEF IsList
<1>4. \A i \in 1 .. Len(q) : i < Len(q) => i + 1 \in 1 .. Len(q) /\ i + 1 # i /\ i + 1 # 1
  BY <1>3
<1>5. \A i \in 1 .. Len(q) : 1 \in 1 .. Len(q) /\ q # <<>>
  BY <1>3
<1>6. ASSUME NEW i \in 1 .. Len(q), nx[q[i]].node # NULL
      PROVE  nx[q[i]].node \in Reach(nx, p) \ {p.node, q[i]}
  BY <1>2, <1>3, <1>4, <1>5, <1>6
<1>7. ASSUME NEW i \in 1 .. Len(q), NEW j \in 1 .. Len(q), nx[q[i]].node = nx[q[j]].node
      PROVE  i = j
  <2>1. CASE i < Len(q) /\ j < Len(q)
    <3>1. i + 1 = j + 1
      BY <2>1, <1>3, <1>4, <1>7
    <3> QED BY <3>1
  <2>2. CASE i < Len(q) /\ ~(j < Len(q))
    BY <2>2, <1>3, <1>4, <1>7, NullAssumption
  <2>3. CASE ~(i < Len(q)) /\ j < Len(q)
    BY <2>3, <1>3, <1>4, <1>7, NullAssumption
  <2>4. CASE ~(i < Len(q)) /\ ~(j < Len(q))
    BY <2>4, <1>3
  <2> QED BY <2>1, <2>2, <2>3, <2>4
<1> QED BY <1>2, <1>6, <1>7

-----------------------------------------------------------------------------
(* The inductive invariant *)

\* Where t is inside a critical region.
Region == {"push_last", "push_next", "push_link", "push_swing", "help", "pop_first",
           "pop_last", "pop_next", "pop_value", "pop_cas", "pop_retire", "exit", "destroy"}

\* Everyone but Main has returned from its last operation and was joined.
OthersJoined == \A t \in Threads \ {Main} : pc[t] = "joined"

\* Main is past the point of no return in destroy().
Destroyed ==
    \/ pc[Main] \in {"drain", "free", "joined"}
    \/ pc[Main] \in {"exit", "reclaim"} /\ op[Main] = "none"

\* All the places a thread can be at.
Locations == Region \cup {"idle", "push_enter", "pop_enter", "reclaim", "drain", "free",
                         "joined"}

\* The operation of a thread, from where it is in the code.
ControlOf(t) ==
    /\ t \in active <=> pc[t] \in Region
    /\ pc[t] \in {"idle", "destroy", "drain", "free", "joined"} => op[t] = "none"
    /\ pc[t] \in {"push_enter", "push_last", "push_next", "push_link", "push_swing"} =>
          op[t] = "push"
    /\ pc[t] \in {"pop_enter", "pop_first", "pop_last", "pop_next", "pop_value", "pop_cas",
                  "pop_retire"} => op[t] = "pop"
    /\ pc[t] = "help" => op[t] \in {"push", "pop"}
    /\ pc[t] \in {"push_swing", "pop_retire"} => done[t]
    /\ pc[t] \in {"idle", "joined", "push_enter", "push_last", "push_next", "push_link", "help",
                  "pop_enter", "pop_first", "pop_last", "pop_next", "pop_value", "pop_cas"} => ~done[t]
    /\ op[t] = "none" => ~done[t]
    /\ t # Main => /\ pc[t] \notin {"destroy", "drain", "free"}
                   /\ pc[t] \in {"exit", "reclaim"} => op[t] # "none"

\* Where the threads are, together, and what that says about head_.
Control ==
    /\ pc \in [Threads -> Locations]
    /\ \A t \in Threads : ControlOf(t)
    /\ head_ = Null => Destroyed \/ \A t \in Threads : pc[t] = "idle"
    /\ head_ # Null => head_.node \in Nodes
    /\ Destroyed => head_ = Null
    /\ Destroyed \/ pc[Main] = "destroy" => OthersJoined
    /\ pc[Main] = "destroy" => head_ # Null

\* Where each node is, and which thread has it there.
Kinds == {"heap", "queue", "cache", "retired", "prepared", "unlinked"}

\* The pointer the queue hangs on; destroy() walks along it.
QueueStart == IF pc[Main] = "destroy" THEN first[Main] ELSE head_

\* t has a node of its own that nobody else knows of yet.
Prepares(t) == op[t] = "push" /\ ~done[t]

\* The nodes in the retire list of t.
RetiredBy(t) == {retire_list[t][k].node : k \in DOMAIN retire_list[t]}

\* The one place of each node, and the one thread that has it there: the heap,
\* the queue, a cache, a retire list, a push_back() that has not linked it yet,
\* or a pop_front() that has unlinked it and not retired it yet.
Located(where, who) ==
    /\ heap = {n \in Nodes : where[n] = "heap"}
    /\ Reach(next_, QueueStart) = {n \in Nodes : where[n] = "queue"}
    /\ \A t \in Threads :
          /\ Reach(next_, cache_head[t]) = {n \in Nodes : where[n] = "cache" /\ who[n] = t}
          /\ RetiredBy(t) = {n \in Nodes : where[n] = "retired" /\ who[n] = t}
          /\ Prepares(t) => /\ node[t].node \in Nodes
                            /\ where[node[t].node] = "prepared" /\ who[node[t].node] = t
          /\ pc[t] = "pop_retire" => /\ first[t].node \in Nodes
                                     /\ where[first[t].node] = "unlinked"
                                     /\ who[first[t].node] = t
    /\ \A n \in Nodes :
          /\ where[n] = "prepared" => Prepares(who[n]) /\ node[who[n]].node = n
          /\ where[n] = "unlinked" => pc[who[n]] = "pop_retire" /\ first[who[n]].node = n

\* No retire list has a node twice.
RetiredOnce ==
    \A t \in Threads : \A j, k \in DOMAIN retire_list[t] :
        /\ retire_list[t][j].node = retire_list[t][k].node => j = k
        /\ retire_list[t][j].node \in Nodes

\* The next_ fields hold the queue and the caches together.
Chains ==
    /\ IsChain(next_, QueueStart)
    /\ \A t \in Threads : IsChain(next_, cache_head[t])
    /\ CachesAreBounded

\* What the flags and the fields of a node say.
Fields(where) ==
    \A n \in Nodes :
        /\ where[n] \in {"queue", "retired", "prepared", "unlinked"} => ~released_[n]
        /\ where[n] = "prepared" => next_[n].node = NULL

\* Nobody releases n while t is in its region.
Protected(where, t, n) ==
    /\ n \in Nodes
    /\ \/ where[n] \in {"queue", "unlinked"}
       \/ where[n] = "retired" /\ t \in blockers[n]

\* t may follow p, and the pointer it finds there.
Holds(where, t, p) ==
    /\ Protected(where, t, p.node)
    /\ next_[p.node].node # NULL => Protected(where, t, next_[p.node].node)

\* t's pointer to the dummy, which may have been unlinked since.
HoldsFirst(where, t) ==
    /\ Holds(where, t, first[t])
    /\ where[first[t].node] = "queue" => first[t].node = head_.node
    /\ next_[first[t].node].node = NULL => first[t].node = head_.node

\* t's pointer to the tail, and what is behind it.
HoldsLast(where, t) ==
    /\ Holds(where, t, last[t])
    /\ next_[last[t].node].node = NULL => tail_.node = last[t].node

\* What t's own pointers are worth, wherever t is in the code.
Local(where, t) ==
    /\ pc[t] = "push_next" => HoldsLast(where, t)
    /\ pc[t] = "push_link" => HoldsLast(where, t) /\ next[t].node = NULL
    /\ pc[t] = "push_swing" => /\ Protected(where, t, last[t].node)
                               /\ next_[last[t].node] = node[t]
                               /\ node[t].node # NULL
    /\ pc[t] = "help" => /\ Protected(where, t, last[t].node)
                         /\ next_[last[t].node] = next[t]
                         /\ next[t].node # NULL
    /\ pc[t] = "pop_last" => HoldsFirst(where, t)
    /\ pc[t] = "pop_next" => /\ HoldsFirst(where, t)
                             /\ HoldsLast(where, t)
                             /\ first[t].node # last[t].node => tail_.node # first[t].node
    /\ pc[t] \in {"pop_value", "pop_cas"} => /\ HoldsFirst(where, t)
                                             /\ next_[first[t].node] = next[t]
                                             /\ next[t].node # NULL
                                             /\ tail_.node # first[t].node

\* tail_ is in the queue, and at most one node behind its end.
TailInQueue ==
    head_ # Null /\ pc[Main] # "destroy" =>
        /\ tail_.node \in Reach(next_, QueueStart)
        /\ next_[tail_.node].node # NULL => next_[next_[tail_.node].node].node = NULL

\* All of it together, for one placement of the nodes.
Inductive(where, who) ==
    /\ TypeOK
    /\ Control
    /\ RetiredOnce
    /\ Chains
    /\ TailInQueue
    /\ where \in [Nodes -> Kinds]
    /\ who \in [Nodes -> Threads]
    /\ Located(where, who)
    /\ Fields(where)
    /\ \A t \in Threads : Local(where, t)

-----------------------------------------------------------------------------
(* Steps that leave a thread alone *)

\* t is where it was, with the pointers it had.
SameThread(t) ==
    /\ pc'[t] = pc[t]
    /\ first'[t] = first[t]
    /\ last'[t] = last[t]
    /\ next'[t] = next[t]
    /\ node'[t] = node[t]

\* The step from placement w to w2 takes nothing from under t: what was safe to
\* follow stays so, a successor never changes, and no node comes back into the
\* queue while t can still reach it (the ABA problem).
Keeps(w, w2, t) ==
    \A n \in Nodes : Protected(w, t, n) =>
        /\ Protected(w2, t, n)'
        /\ next_[n].node # NULL => next_'[n] = next_[n]
        /\ next_'[n] # next_[n] => \E m \in Nodes : m = next_'[n].node /\ Protected(w2, t, m)'
        /\ w2[n] = "queue" => w[n] = "queue"

\* head_ moves on only from a node that leaves the queue and has a successor.
HeadMoves(w2) ==
    \/ head_' = head_
    \/ w2[head_.node] # "queue" /\ next_'[head_.node].node # NULL

\* tail_ moves on only from a node with a successor, and not back to the dummy.
TailMoves(w) ==
    \/ tail_' = tail_
    \/ /\ next_[tail_.node].node # NULL
       /\ w[tail_'.node] = "queue"
       /\ tail_'.node # head_.node

\* A pointer t may follow can be followed after such a step.
LEMMA HoldsStable ==
    ASSUME NEW w, NEW w2, NEW t \in Threads, NEW p, Holds(w, t, p), Keeps(w, w2, t)
    PROVE  Holds(w2, t, p)'
<1>1. Protected(w, t, p.node) /\ p.node \in Nodes
  BY DEF Holds, Protected
<1>2. Protected(w2, t, p.node)'
  BY <1>1 DEF Keeps
<1>3. ASSUME next_'[p.node].node # NULL
      PROVE  \E m : m = next_'[p.node].node /\ Protected(w2, t, m)'
  <2>1. CASE next_'[p.node] = next_[p.node]
    <3>1. PICK m : m = next_[p.node].node
      OBVIOUS
    <3>2. Protected(w, t, m) /\ m \in Nodes
      BY <1>3, <2>1, <3>1 DEF Holds, Protected
    <3> QED BY <2>1, <3>1, <3>2 DEF Keeps
  <2>2. CASE next_'[p.node] # next_[p.node]
    BY <1>1, <2>2 DEF Keeps
  <2> QED BY <2>1, <2>2
<1> QED BY <1>2, <1>3 DEF Holds, Protected

\* What t knows of its pointers survives such a step of another thread.
LEMMA LocalStable ==
    ASSUME NEW w, NEW w2, NEW t \in Threads, Local(w, t), SameThread(t), Keeps(w, w2, t),
           HeadMoves(w2), TailMoves(w)
    PROVE  Local(w2, t)'
<1>1. PICK f, l : f = first[t] /\ l = last[t]
  OBVIOUS
<1>2. f = first'[t] /\ l = last'[t]
  BY <1>1 DEF SameThread
<1>3. ASSUME HoldsFirst(w, t)
      PROVE  HoldsFirst(w2, t)'
  <2>1. Holds(w2, t, f)' /\ Protected(w, t, f.node) /\ f.node \in Nodes
    BY <1>1, <1>3, HoldsStable DEF HoldsFirst, Holds, Protected
  <2> QED BY <1>1, <1>2, <1>3, <2>1 DEF HoldsFirst, Holds, Keeps, HeadMoves
<1>4. ASSUME HoldsLast(w, t)
      PROVE  HoldsLast(w2, t)'
  <2>1. Holds(w2, t, l)' /\ Protected(w, t, l.node) /\ l.node \in Nodes
    BY <1>1, <1>4, HoldsStable DEF HoldsLast, Holds, Protected
  <2> QED BY <1>1, <1>2, <1>4, <2>1 DEF HoldsLast, Holds, Keeps, TailMoves
<1>5. ASSUME HoldsFirst(w, t), tail_.node # first[t].node
      PROVE  tail_'.node # first'[t].node
  BY <1>5, <1>2, <1>1 DEF HoldsFirst, TailMoves
<1>6. \A n \in Nodes : Protected(w, t, n) /\ next_[n].node # NULL =>
          Protected(w2, t, n)' /\ next_'[n] = next_[n]
  BY DEF Keeps
<1>7. ASSUME Protected(w, t, last[t].node), next_[last[t].node].node # NULL
      PROVE  Protected(w2, t, last[t].node)' /\ next_'[last'[t].node] = next_[last[t].node]
  <2>1. l.node \in Nodes
    BY <1>1, <1>7 DEF Protected
  <2> QED BY <1>1, <1>2, <1>6, <1>7, <2>1 DEF Protected
<1>8. ASSUME HoldsFirst(w, t), next_[first[t].node].node # NULL
      PROVE  next_'[first'[t].node] = next_[first[t].node]
  BY <1>1, <1>2, <1>6, <1>8 DEF HoldsFirst, Holds, Protected
<1>9. /\ pc'[t] = pc[t] /\ next'[t] = next[t] /\ node'[t] = node[t]
      /\ first'[t] = first[t] /\ last'[t] = last[t]
  BY DEF SameThread
<1> USE DEF Local
<1>10. pc'[t] = "push_next" => HoldsLast(w2, t)'
  BY <1>4, <1>9
<1>11. pc'[t] = "push_link" => HoldsLast(w2, t)' /\ next'[t].node = NULL
  BY <1>4, <1>9
<1>12. pc'[t] = "push_swing" => /\ Protected(w2, t, last[t].node)'
                                /\ next_'[last'[t].node] = node'[t]
                                /\ node'[t].node # NULL
  BY <1>7, <1>9
<1>13. pc'[t] = "help" => /\ Protected(w2, t, last[t].node)'
                          /\ next_'[last'[t].node] = next'[t]
                          /\ next'[t].node # NULL
  BY <1>7, <1>9
<1>14. pc'[t] = "pop_last" => HoldsFirst(w2, t)'
  BY <1>3, <1>9
<1>15. pc'[t] = "pop_next" => /\ HoldsFirst(w2, t)'
                              /\ HoldsLast(w2, t)'
                              /\ first'[t].node # last'[t].node => tail_'.node # first'[t].node
  BY <1>3, <1>4, <1>5, <1>9
<1>16. pc'[t] \in {"pop_value", "pop_cas"} => /\ HoldsFirst(w2, t)'
                                              /\ next_'[first'[t].node] = next'[t]
                                              /\ next'[t].node # NULL
                                              /\ tail_'.node # first'[t].node
  BY <1>3, <1>5, <1>8, <1>9
<1> QED BY <1>10, <1>11, <1>12, <1>13, <1>14, <1>15, <1>16

-----------------------------------------------------------------------------
(* Steps of one thread that touch nothing but its own locals *)

\* The other threads are where they were.
OthersStay(t) ==
    \A u \in Threads \ {t} : SameThread(u) /\ op'[u] = op[u] /\ done'[u] = done[u]

\* A step of t that touches its own pointers and its own region only.
Quiet(t) ==
    /\ UNCHANGED <<head_, tail_, memory, cache, retire_list>>
    /\ \A u \in Threads \ {t}, n \in Nodes : u \in blockers'[n] <=> u \in blockers[n]
    /\ OthersStay(t)
    /\ Prepares(t)' <=> Prepares(t)
    /\ Prepares(t) => node'[t] = node[t]
    /\ {pc[t], pc'[t]} \cap {"pop_retire", "destroy"} = {}
    /\ t = Main => "joined" \notin {pc[t], pc'[t]}

\* A quiet step moves no node.
LEMMA QuietStep ==
    ASSUME NEW w, NEW o, NEW t \in Threads, Inductive(w, o), Quiet(t),
           TypeOK', Control', Local(w, t)'
    PROVE  Inductive(w, o)'
<1> USE DEF Quiet, memory, cache
<1>1. QueueStart' = QueueStart /\ (pc'[Main] = "destroy" <=> pc[Main] = "destroy")
  <2>1. Main # t => pc'[Main] = pc[Main] /\ first'[Main] = first[Main]
    BY MainAssumption DEF OthersStay, SameThread
  <2> QED BY <2>1 DEF QueueStart
<1>2. RetiredOnce'
  BY DEF Inductive, RetiredOnce
<1>3. Chains'
  <2>1. \A u \in Threads : NodesFrom(cache_head[u])' = NodesFrom(cache_head[u])
    BY DEF NodesFrom
  <2>2. pc'[Main] # "joined" => pc[Main] # "joined"
    BY MainAssumption DEF OthersStay, SameThread, Inductive, Control, ControlOf
  <2> QED BY <1>1, <2>1, <2>2 DEF Inductive, Chains, CachesAreBounded
<1>4. TailInQueue'
  BY <1>1 DEF Inductive, TailInQueue
<1>5. Located(w, o)'
  <2>1. \A u \in Threads :
           /\ Prepares(u)' <=> Prepares(u)
           /\ Prepares(u) => node'[u] = node[u]
           /\ pc'[u] = "pop_retire" <=> pc[u] = "pop_retire"
           /\ pc[u] = "pop_retire" => first'[u] = first[u]
           /\ RetiredBy(u)' = RetiredBy(u)
    BY DEF OthersStay, SameThread, Prepares, RetiredBy
  <2> QED BY <1>1, <2>1 DEF Inductive, Located
<1>6. Fields(w)'
  BY DEF Inductive, Fields
<1>7. \A u \in Threads : Local(w, u)'
  <2>1. ASSUME NEW u \in Threads \ {t}
        PROVE  Local(w, u)'
    <3>1. Keeps(w, w, u)
      BY DEF Keeps, Protected
    <3> QED BY <3>1, LocalStable DEF Inductive, OthersStay, HeadMoves, TailMoves
  <2> QED BY <2>1
<1> QED BY <1>2, <1>3, <1>4, <1>5, <1>6, <1>7 DEF Inductive

\* The moves of one thread inside an operation keep the control part.
LEMMA ControlStable ==
    ASSUME TypeOK, Control, NEW t \in Threads, NEW x \in Locations,
           pc' = [pc EXCEPT ![t] = x], head_' = head_,
           \A u \in Threads \ {t} : op'[u] = op[u] /\ done'[u] = done[u]
                                    /\ (u \in active' <=> u \in active),
           ControlOf(t)', Destroyed' <=> Destroyed, head_ = Null => Destroyed,
           pc'[Main] = "destroy" <=> pc[Main] = "destroy",
           pc[t] # "joined"
    PROVE  Control'
<1>1. pc' \in [Threads -> Locations] /\ pc'[t] = x /\ \A u \in Threads \ {t} : pc'[u] = pc[u]
  BY DEF Control
<1>2. \A u \in Threads : ControlOf(u)'
  BY <1>1 DEF Control, ControlOf
<1>3. OthersJoined => OthersJoined'
  BY <1>1 DEF OthersJoined
<1> QED BY <1>1, <1>2, <1>3 DEF Control

\* While an operation runs there is a queue, and both its ends are in it.
LEMMA InOperation ==
    ASSUME NEW w, NEW o, Inductive(w, o), NEW t \in Threads, op[t] # "none"
    PROVE  /\ head_ # Null /\ ~Destroyed /\ pc[Main] # "destroy"
           /\ QueueStart = head_
           /\ head_.node \in Nodes /\ w[head_.node] = "queue"
           /\ tail_.node \in Nodes /\ w[tail_.node] = "queue"
           /\ next_[tail_.node].node # NULL => next_[next_[tail_.node].node].node = NULL
<1>1. head_ # Null /\ ~Destroyed /\ pc[Main] # "destroy"
  <2>1. ControlOf(t) /\ ControlOf(Main)
    BY MainAssumption DEF Inductive, Control
  <2> QED BY <2>1 DEF Inductive, Control, ControlOf, Destroyed, OthersJoined
<1>2. QueueStart = head_
  BY <1>1 DEF QueueStart
<1>3. head_.node \in Nodes /\ head_.node \in Reach(next_, QueueStart)
  <2>1. head_.node \in Nodes /\ IsChain(next_, head_)
    BY <1>1, <1>2 DEF Inductive, Control, Chains
  <2> QED BY <1>2, <2>1, ReachBasics, NullAssumption
<1>4. tail_.node \in Reach(next_, QueueStart)
      /\ (next_[tail_.node].node # NULL => next_[next_[tail_.node].node].node = NULL)
  BY <1>1 DEF Inductive, TailInQueue
<1> QED BY <1>1, <1>2, <1>3, <1>4 DEF Inductive, Located

\* Any thread in a region may follow a pointer into the queue.
LEMMA HoldsQueue ==
    ASSUME NEW w, NEW o, Inductive(w, o), NEW t, NEW p, p.node \in Nodes, w[p.node] = "queue"
    PROVE  Holds(w, t, p)
<1>1. p.node \in Reach(next_, QueueStart)
  BY DEF Inductive, Located
<1>2. IsChain(next_, QueueStart)
  BY DEF Inductive, Chains
<1>3. next_[p.node].node # NULL => next_[p.node].node \in Reach(next_, QueueStart)
  BY <1>1, <1>2, Successors
<1>4. next_[p.node].node # NULL => w[next_[p.node].node] = "queue" /\ next_[p.node].node \in Nodes
  BY <1>3 DEF Inductive, Located
<1> QED BY <1>4 DEF Holds, Protected

\* A quiet step inside an operation: what remains to be shown of it.
LEMMA OperationStep ==
    ASSUME NEW w, NEW o, Inductive(w, o), NEW t \in Threads,
           NEW x \in Locations \ {"pop_retire", "destroy", "drain", "free", "joined"},
           pc[t] # "pop_retire", pc' = [pc EXCEPT ![t] = x],
           op[t] # "none", op' = op,
           done'[t] = done[t] \/ op[t] # "push", \A u \in Threads \ {t} : done'[u] = done[u],
           \A u \in Threads \ {t} : /\ first'[u] = first[u] /\ last'[u] = last[u]
                                    /\ next'[u] = next[u]
                                    /\ u \in active' <=> u \in active,
           node' = node,
           UNCHANGED <<head_, tail_, memory, cache, retire_list, blockers>>,
           TypeOK', ControlOf(t)', Local(w, t)'
    PROVE  Inductive(w, o)'
<1>1. /\ pc \in [Threads -> Locations]
      /\ pc'[t] = x
      /\ \A u \in Threads \ {t} : pc'[u] = pc[u]
      /\ pc[t] \notin {"idle", "destroy", "joined"}
  BY DEF Inductive, Control, ControlOf
<1>2. head_ # Null /\ ~Destroyed /\ pc[Main] # "destroy"
  BY InOperation
<1>3. Control'
  <2>1. Destroyed' <=> Destroyed
    <3>1. CASE t = Main
      BY <1>1, <1>2, <3>1 DEF Destroyed
    <3>2. CASE t # Main
      BY <1>1, <3>2, MainAssumption DEF Destroyed
    <3> QED BY <3>1, <3>2
  <2>2. pc'[Main] = "destroy" <=> pc[Main] = "destroy"
    BY <1>1, <1>2, MainAssumption
  <2> QED BY <1>1, <1>2, <2>1, <2>2, ControlStable DEF Inductive
<1>4. Quiet(t)
  BY <1>1 DEF Quiet, OthersStay, SameThread, Prepares
<1> QED BY <1>3, <1>4, QuietStep

\* last = tail_: the tail is in the queue, so t may follow it.
LEMMA PushLoadTailStep ==
    ASSUME NEW w, NEW o, Inductive(w, o), NEW t \in Threads, PushLoadTail(t)
    PROVE  Inductive(w, o)'
<1> USE DEF PushLoadTail, Goto, memory, cache, ebr, pointers, call
<1>1. TypeOK'
  BY DEF Inductive, TypeOK
<1>2. op[t] = "push" /\ ControlOf(t)
  BY DEF Inductive, Control, ControlOf
<1>3. tail_.node \in Nodes /\ w[tail_.node] = "queue"
  BY <1>2, InOperation
<1>4. pc' = [pc EXCEPT ![t] = "push_next"] /\ pc \in [Threads -> Locations] /\ pc'[t] = "push_next"
  BY DEF Inductive, Control
<1>5. last'[t] = tail_
  BY DEF Inductive, TypeOK
<1>6. HoldsLast(w, t)'
  BY <1>3, <1>5, HoldsQueue DEF HoldsLast, Holds, Protected
<1>7. Local(w, t)'
  BY <1>4, <1>6 DEF Local
<1>8. ControlOf(t)'
  BY <1>2, <1>4 DEF ControlOf, Region
<1> QED BY <1>1, <1>2, <1>4, <1>7, <1>8, OperationStep DEF Locations, Region, Inductive, TypeOK

\* next = last->next_: a successor never changes again.
LEMMA PushLoadNextStep ==
    ASSUME NEW w, NEW o, Inductive(w, o), NEW t \in Threads, PushLoadNext(t)
    PROVE  Inductive(w, o)'
<1> USE DEF PushLoadNext, Goto, memory, cache, ebr, pointers, call
<1>1. TypeOK'
  <2>1. last[t].node \in Nodes
    BY DEF Inductive, Local, HoldsLast, Holds, Protected
  <2> QED BY <2>1 DEF Inductive, TypeOK
<1>2. op[t] = "push" /\ ControlOf(t)
  BY DEF Inductive, Control, ControlOf
<1>3. HoldsLast(w, t) /\ last' = last
  BY DEF Inductive, Local
<1>4. PICK x \in {"push_link", "help"} :
         /\ pc' = [pc EXCEPT ![t] = x] /\ pc'[t] = x
         /\ x = "push_link" <=> next_[last[t].node].node = NULL
  BY DEF Inductive, Control
<1>5. next'[t] = next_[last[t].node]
  BY DEF Inductive, TypeOK
<1>6. HoldsLast(w, t)'
  BY <1>3 DEF HoldsLast, Holds, Protected
<1>7. Local(w, t)'
  BY <1>3, <1>4, <1>5, <1>6 DEF Local, HoldsLast, Holds, Protected
<1>8. ControlOf(t)'
  BY <1>2, <1>4 DEF ControlOf, Region
<1> QED BY <1>1, <1>2, <1>4, <1>7, <1>8, OperationStep DEF Locations, Region, Inductive, TypeOK

\* Another node was linked first: t starts over.
LEMMA PushLinkFailsStep ==
    ASSUME NEW w, NEW o, Inductive(w, o), NEW t \in Threads, PushLinkFails(t)
    PROVE  Inductive(w, o)'
<1> USE DEF PushLinkFails, Goto, memory, cache, ebr, pointers, call
<1>1. TypeOK'
  BY DEF Inductive, TypeOK
<1>2. op[t] = "push" /\ ControlOf(t)
  BY DEF Inductive, Control, ControlOf
<1>4. pc' = [pc EXCEPT ![t] = "exit"] /\ pc \in [Threads -> Locations] /\ pc'[t] = "exit"
  BY DEF Inductive, Control
<1>7. Local(w, t)'
  BY <1>4 DEF Local
<1>8. ControlOf(t)'
  BY <1>2, <1>4 DEF ControlOf, Region
<1> QED BY <1>1, <1>2, <1>4, <1>7, <1>8, OperationStep DEF Locations, Region, Inductive, TypeOK

\* first = head_: the dummy is in the queue, so t may follow it.
LEMMA PopLoadHeadStep ==
    ASSUME NEW w, NEW o, Inductive(w, o), NEW t \in Threads, PopLoadHead(t)
    PROVE  Inductive(w, o)'
<1> USE DEF PopLoadHead, Goto, memory, cache, ebr, pointers, call
<1>1. TypeOK'
  BY DEF Inductive, TypeOK
<1>2. op[t] = "pop" /\ ControlOf(t)
  BY DEF Inductive, Control, ControlOf
<1>3. head_.node \in Nodes /\ w[head_.node] = "queue"
  BY <1>2, InOperation
<1>4. pc' = [pc EXCEPT ![t] = "pop_last"] /\ pc \in [Threads -> Locations] /\ pc'[t] = "pop_last"
  BY DEF Inductive, Control
<1>5. first'[t] = head_
  BY DEF Inductive, TypeOK
<1>6. HoldsFirst(w, t)'
  BY <1>3, <1>5, HoldsQueue DEF HoldsFirst, Holds, Protected
<1>7. Local(w, t)'
  BY <1>4, <1>6 DEF Local
<1>8. ControlOf(t)'
  BY <1>2, <1>4 DEF ControlOf, Region
<1> QED BY <1>1, <1>2, <1>4, <1>7, <1>8, OperationStep DEF Locations, Region, Inductive, TypeOK

\* last = tail_, read after first: if they differ, tail_ is past first for good.
LEMMA PopLoadTailStep ==
    ASSUME NEW w, NEW o, Inductive(w, o), NEW t \in Threads, PopLoadTail(t)
    PROVE  Inductive(w, o)'
<1> USE DEF PopLoadTail, Goto, memory, cache, ebr, pointers, call
<1>1. TypeOK'
  BY DEF Inductive, TypeOK
<1>2. op[t] = "pop" /\ ControlOf(t)
  BY DEF Inductive, Control, ControlOf
<1>3. tail_.node \in Nodes /\ w[tail_.node] = "queue"
  BY <1>2, InOperation
<1>4. pc' = [pc EXCEPT ![t] = "pop_next"] /\ pc \in [Threads -> Locations] /\ pc'[t] = "pop_next"
  BY DEF Inductive, Control
<1>5. last'[t] = tail_ /\ first' = first
  BY DEF Inductive, TypeOK
<1>6. HoldsFirst(w, t)' /\ HoldsLast(w, t)'
  <2>1. HoldsFirst(w, t)
    BY DEF Inductive, Local
  <2>2. HoldsFirst(w, t)'
    BY <2>1, <1>5 DEF HoldsFirst, Holds, Protected
  <2>3. HoldsLast(w, t)'
    BY <1>3, <1>5, HoldsQueue DEF HoldsLast, Holds, Protected
  <2> QED BY <2>2, <2>3
<1>7. Local(w, t)'
  BY <1>4, <1>5, <1>6 DEF Local
<1>8. ControlOf(t)'
  BY <1>2, <1>4 DEF ControlOf, Region
<1> QED BY <1>1, <1>2, <1>4, <1>7, <1>8, OperationStep DEF Locations, Region, Inductive, TypeOK

\* The dummy has no successor: pop_front() returns nothing.
LEMMA PopEmptyStep ==
    ASSUME NEW w, NEW o, Inductive(w, o), NEW t \in Threads, PopEmpty(t)
    PROVE  Inductive(w, o)'
<1> USE DEF PopEmpty, Goto, memory, cache, ebr, pointers, call
<1>1. TypeOK'
  BY DEF Inductive, TypeOK
<1>2. op[t] = "pop" /\ ControlOf(t)
  BY DEF Inductive, Control, ControlOf
<1>4. pc' = [pc EXCEPT ![t] = "exit"] /\ pc \in [Threads -> Locations] /\ pc'[t] = "exit"
  BY DEF Inductive, Control
<1>7. Local(w, t)'
  BY <1>4 DEF Local
<1>8. ControlOf(t)'
  BY <1>2, <1>4 DEF ControlOf, Region
<1> QED BY <1>1, <1>2, <1>4, <1>7, <1>8, OperationStep DEF Locations, Region, Inductive, TypeOK

\* next = first->next_: it stays the successor of first.
LEMMA PopLoadNextStep ==
    ASSUME NEW w, NEW o, Inductive(w, o), NEW t \in Threads, PopLoadNext(t)
    PROVE  Inductive(w, o)'
<1> USE DEF PopLoadNext, Goto, memory, cache, ebr, pointers, call, LooksEmpty
<1>1. TypeOK'
  <2>1. first[t].node \in Nodes
    BY DEF Inductive, Local, HoldsFirst, Holds, Protected
  <2> QED BY <2>1 DEF Inductive, TypeOK
<1>2. op[t] = "pop" /\ ControlOf(t)
  BY DEF Inductive, Control, ControlOf
<1>3. HoldsFirst(w, t) /\ HoldsLast(w, t) /\ first' = first /\ last' = last
      /\ (first[t].node # last[t].node => tail_.node # first[t].node)
  BY DEF Inductive, Local
<1>4. PICK x \in {"help", "pop_value", "exit"} :
         /\ pc' = [pc EXCEPT ![t] = x] /\ pc'[t] = x
         /\ x = "help" => first[t].node = last[t].node /\ next_[first[t].node].node # NULL
         /\ x = "pop_value" => first[t].node # last[t].node /\ next_[first[t].node].node # NULL
  BY DEF Inductive, Control
<1>5. next'[t] = next_[first[t].node]
  BY DEF Inductive, TypeOK
<1>6. HoldsFirst(w, t)'
  BY <1>3 DEF HoldsFirst, Holds, Protected
<1>7. Local(w, t)'
  BY <1>3, <1>4, <1>5, <1>6 DEF Local, HoldsLast, Holds, Protected
<1>8. ControlOf(t)'
  BY <1>2, <1>4 DEF ControlOf, Region
<1> QED BY <1>1, <1>2, <1>4, <1>7, <1>8, OperationStep DEF Locations, Region, Inductive, TypeOK

\* The value is read through a pointer that is still protected.
LEMMA PopReadValueStep ==
    ASSUME NEW w, NEW o, Inductive(w, o), NEW t \in Threads, PopReadValue(t)
    PROVE  Inductive(w, o)'
<1> USE DEF PopReadValue, Goto, memory, cache, ebr, pointers, call
<1>1. TypeOK'
  <2>1. next[t].node \in Nodes
    BY DEF Inductive, Local, HoldsFirst, Holds, Protected
  <2> QED BY <2>1 DEF Inductive, TypeOK
<1>2. op[t] = "pop" /\ ControlOf(t)
  BY DEF Inductive, Control, ControlOf
<1>4. pc' = [pc EXCEPT ![t] = "pop_cas"] /\ pc \in [Threads -> Locations] /\ pc'[t] = "pop_cas"
  BY DEF Inductive, Control
<1>5. HoldsFirst(w, t)'
  BY DEF Inductive, Local, HoldsFirst, Holds, Protected
<1>7. Local(w, t)'
  BY <1>4, <1>5 DEF Inductive, Local
<1>8. ControlOf(t)'
  BY <1>2, <1>4 DEF ControlOf, Region
<1> QED BY <1>1, <1>2, <1>4, <1>7, <1>8, OperationStep DEF Locations, Region, Inductive, TypeOK

\* Another thread unlinked first: t starts over.
LEMMA PopUnlinkFailsStep ==
    ASSUME NEW w, NEW o, Inductive(w, o), NEW t \in Threads, PopUnlinkFails(t)
    PROVE  Inductive(w, o)'
<1> USE DEF PopUnlinkFails, Goto, memory, cache, ebr, pointers, call
<1>1. TypeOK'
  BY DEF Inductive, TypeOK
<1>2. op[t] = "pop" /\ ControlOf(t)
  BY DEF Inductive, Control, ControlOf
<1>4. pc' = [pc EXCEPT ![t] = "exit"] /\ pc \in [Threads -> Locations] /\ pc'[t] = "exit"
  BY DEF Inductive, Control
<1>7. Local(w, t)'
  BY <1>4 DEF Local
<1>8. ControlOf(t)'
  BY <1>2, <1>4 DEF ControlOf, Region
<1> QED BY <1>1, <1>2, <1>4, <1>7, <1>8, OperationStep DEF Locations, Region, Inductive, TypeOK

\* Entering a region touches no node.
LEMMA PushEnterStep ==
    ASSUME NEW w, NEW o, Inductive(w, o), NEW t \in Threads, PushEnter(t)
    PROVE  Inductive(w, o)'
<1> USE DEF PushEnter, Goto, memory, cache, ebr, pointers, call, PushEntersEpoch, EnterEpoch
<1>1. TypeOK'
  BY DEF Inductive, TypeOK
<1>2. op[t] = "push" /\ ControlOf(t)
  BY DEF Inductive, Control, ControlOf
<1>4. pc' = [pc EXCEPT ![t] = "push_last"] /\ pc \in [Threads -> Locations] /\ pc'[t] = "push_last"
  BY DEF Inductive, Control
<1>7. Local(w, t)'
  BY <1>4 DEF Local
<1>8. ControlOf(t)'
  BY <1>2, <1>4 DEF ControlOf, Region
<1> QED BY <1>1, <1>2, <1>4, <1>7, <1>8, OperationStep DEF Locations, Region, Inductive, TypeOK

\* Entering a region touches no node.
LEMMA PopEnterStep ==
    ASSUME NEW w, NEW o, Inductive(w, o), NEW t \in Threads, PopEnter(t)
    PROVE  Inductive(w, o)'
<1> USE DEF PopEnter, Goto, memory, cache, ebr, pointers, call, EnterEpoch
<1>1. TypeOK'
  BY DEF Inductive, TypeOK
<1>2. op[t] = "pop" /\ ControlOf(t)
  BY DEF Inductive, Control, ControlOf
<1>4. pc' = [pc EXCEPT ![t] = "pop_first"] /\ pc \in [Threads -> Locations] /\ pc'[t] = "pop_first"
  BY DEF Inductive, Control
<1>7. Local(w, t)'
  BY <1>4 DEF Local
<1>8. ControlOf(t)'
  BY <1>2, <1>4 DEF ControlOf, Region
<1> QED BY <1>1, <1>2, <1>4, <1>7, <1>8, OperationStep DEF Locations, Region, Inductive, TypeOK

\* A call of pop_front() touches no node.
LEMMA CallPopStep ==
    ASSUME NEW w, NEW o, Inductive(w, o), NEW t \in Threads, CallPop(t)
    PROVE  Inductive(w, o)'
<1> USE DEF CallPop, Goto, memory, cache, ebr, pointers, call, Initialized
<1>1. TypeOK'
  BY DEF Inductive, TypeOK
<1>2. ControlOf(t)
  BY DEF Inductive, Control
<1>3. /\ pc' = [pc EXCEPT ![t] = "pop_enter"] /\ pc \in [Threads -> Locations]
      /\ pc'[t] = "pop_enter" /\ \A u \in Threads \ {t} : pc'[u] = pc[u]
  BY DEF Inductive, Control
<1>4. op'[t] = "pop" /\ \A u \in Threads \ {t} : op'[u] = op[u]
  BY DEF Inductive, TypeOK
<1>5. Control'
  <2>1. ControlOf(t)'
    BY <1>2, <1>3, <1>4 DEF ControlOf, Region
  <2>2. (Destroyed' <=> Destroyed) /\ (head_ = Null => Destroyed)
    BY <1>2, <1>3, MainAssumption DEF Destroyed, Inductive, Control, ControlOf
  <2>3. pc'[Main] = "destroy" <=> pc[Main] = "destroy"
    BY <1>3, MainAssumption
  <2> QED BY <1>3, <1>4, <2>1, <2>2, <2>3, ControlStable DEF Inductive, Locations, Region, TypeOK
<1>6. Local(w, t)'
  BY <1>3 DEF Local
<1>7. Quiet(t)
  <2>1. op[t] = "none" /\ ~Prepares(t) /\ ~Prepares(t)'
    BY <1>2, <1>4 DEF ControlOf, Prepares
  <2> QED BY <1>3, <1>4, <2>1 DEF Quiet, OthersStay, SameThread
<1> QED BY <1>1, <1>5, <1>6, <1>7, QuietStep

\* Outside its region a thread holds no pointer, so what it blocked may go.
LEMMA ExitEpochStep ==
    ASSUME NEW w, NEW o, Inductive(w, o), NEW t \in Threads, ExitEpoch(t)
    PROVE  Inductive(w, o)'
<1> USE DEF ExitEpoch, Goto, memory, cache, ebr, pointers, call
<1>1. TypeOK'
  BY DEF Inductive, TypeOK
<1>2. ControlOf(t)
  BY DEF Inductive, Control
<1>3. /\ pc' = [pc EXCEPT ![t] = "reclaim"] /\ pc \in [Threads -> Locations]
      /\ pc'[t] = "reclaim" /\ \A u \in Threads \ {t} : pc'[u] = pc[u]
  BY DEF Inductive, Control
<1>5. Control'
  <2>1. ControlOf(t)'
    BY <1>2, <1>3 DEF ControlOf, Region
  <2>2. (Destroyed' <=> Destroyed) /\ (head_ = Null => Destroyed)
    BY <1>2, <1>3, MainAssumption DEF Destroyed, Inductive, Control, ControlOf
  <2>3. pc'[Main] = "destroy" <=> pc[Main] = "destroy"
    BY <1>3, MainAssumption
  <2> QED BY <1>3, <2>1, <2>2, <2>3, ControlStable DEF Inductive, Locations, Region, TypeOK
<1>6. Local(w, t)'
  BY <1>3 DEF Local
<1>7. Quiet(t)
  BY <1>2, <1>3 DEF Quiet, OthersStay, SameThread, Prepares, Inductive, TypeOK
<1> QED BY <1>1, <1>5, <1>6, <1>7, QuietStep

\* A thread that leaves holds no node outside its cache and its retire list.
LEMMA LeaveStep ==
    ASSUME NEW w, NEW o, Inductive(w, o), NEW t \in Threads, Leave(t)
    PROVE  Inductive(w, o)'
<1> USE DEF Leave, Goto, memory, cache, ebr, pointers, call, Initialized
<1>1. TypeOK'
  BY DEF Inductive, TypeOK
<1>2. ControlOf(t)
  BY DEF Inductive, Control
<1>3. /\ pc' = [pc EXCEPT ![t] = "joined"] /\ pc \in [Threads -> Locations]
      /\ pc'[t] = "joined" /\ \A u \in Threads \ {t} : pc'[u] = pc[u]
  BY DEF Inductive, Control
<1>5. Control'
  <2>1. ControlOf(t)'
    BY <1>2, <1>3 DEF ControlOf, Region
  <2>2. (Destroyed' <=> Destroyed) /\ (head_ = Null => Destroyed)
    BY <1>2, <1>3, MainAssumption DEF Destroyed, Inductive, Control, ControlOf
  <2>3. pc'[Main] = "destroy" <=> pc[Main] = "destroy"
    BY <1>3, MainAssumption
  <2> QED BY <1>3, <2>1, <2>2, <2>3, ControlStable DEF Inductive, Locations, Region, TypeOK
<1>6. Local(w, t)'
  BY <1>3 DEF Local
<1>7. Quiet(t)
  BY <1>2, <1>3 DEF Quiet, OthersStay, SameThread, Prepares, Inductive, TypeOK
<1> QED BY <1>1, <1>5, <1>6, <1>7, QuietStep

\* An operation returns or starts over, holding nothing but a prepared node.
LEMMA ReclaimDoneStep ==
    ASSUME NEW w, NEW o, Inductive(w, o), NEW t \in Threads, ReclaimDone(t)
    PROVE  Inductive(w, o)'
<1> USE DEF ReclaimDone, Goto, memory, cache, ebr, pointers, call
<1>1. ControlOf(t) /\ pc[t] = "reclaim"
  BY DEF Inductive, Control
<1>2. PICK x \in {"idle", "push_enter", "pop_enter", "drain"} :
         /\ pc' = [pc EXCEPT ![t] = x] /\ pc \in [Threads -> Locations]
         /\ pc'[t] = x /\ \A u \in Threads \ {t} : pc'[u] = pc[u]
         /\ x = AfterExit(t)
  BY DEF Inductive, Control, AfterExit
<1>3. /\ op' = IF done[t] THEN [op EXCEPT ![t] = "none"] ELSE op
      /\ done' = IF done[t] THEN [done EXCEPT ![t] = FALSE] ELSE done
      /\ val' = IF done[t] THEN [val EXCEPT ![t] = NULL] ELSE val
      /\ node' = IF done[t] THEN [node EXCEPT ![t] = Null] ELSE node
  OBVIOUS
<1>4. TypeOK'
  <2>1. Null \in TaggedPtr
    BY TagAssumption DEF Null, Ptr, TaggedPtr
  <2> QED BY <1>3, <2>1 DEF Inductive, TypeOK
<1>5. /\ op'[t] = IF done[t] THEN "none" ELSE op[t]
      /\ ~done'[t]
      /\ \A u \in Threads \ {t} : op'[u] = op[u] /\ done'[u] = done[u] /\ node'[u] = node[u]
      /\ \A u \in Threads \ {t} : first'[u] = first[u] /\ last'[u] = last[u] /\ next'[u] = next[u]
      /\ ~done[t] => node'[t] = node[t]
  BY <1>3 DEF Inductive, TypeOK
<1>6. Control'
  <2>1. ControlOf(t)'
    BY <1>1, <1>2, <1>5 DEF ControlOf, Region, AfterExit, Inductive, TypeOK
  <2>2. op[t] # "none" => ~Destroyed /\ head_ # Null
    BY InOperation
  <2>3. (Destroyed' <=> Destroyed) /\ (head_ = Null => Destroyed)
    <3>1. CASE op[t] # "none"
      <4>1. x # "drain"
        BY <1>2, <3>1 DEF AfterExit, Inductive, TypeOK
      <4> QED BY <1>1, <1>2, <1>5, <2>2, <3>1, <4>1, MainAssumption DEF Destroyed
    <3>2. CASE op[t] = "none"
      <4>1. t = Main /\ ~done[t] /\ x = "drain"
        BY <1>1, <1>2, <3>2 DEF ControlOf, AfterExit
      <4>2. Destroyed /\ Destroyed'
        BY <1>1, <1>2, <3>2, <4>1 DEF Destroyed
      <4> QED BY <4>2
    <3> QED BY <3>1, <3>2
  <2>4. pc'[Main] = "destroy" <=> pc[Main] = "destroy"
    BY <1>1, <1>2, MainAssumption
  <2>5. TypeOK /\ Control /\ x \in Locations
    BY DEF Inductive, Locations
  <2>6. \A u \in Threads \ {t} : op'[u] = op[u] /\ done'[u] = done[u]
                                 /\ (u \in active' <=> u \in active)
    BY <1>5
  <2> QED BY <1>1, <1>2, <2>1, <2>3, <2>4, <2>5, <2>6, ControlStable
<1>7. Local(w, t)'
  BY <1>2 DEF Local
<1>8. Quiet(t)
  BY <1>1, <1>2, <1>5 DEF Quiet, OthersStay, SameThread, Prepares
<1> QED BY <1>4, <1>6, <1>7, <1>8, QuietStep

\* The retire lists are empty when the caches are deleted.
LEMMA DrainDoneStep ==
    ASSUME NEW w, NEW o, Inductive(w, o), DrainDone
    PROVE  Inductive(w, o)'
<1> USE DEF DrainDone, Goto, memory, cache, ebr, pointers, call
<1>1. TypeOK'
  BY DEF Inductive, TypeOK
<1>2. /\ pc \in [Threads -> Locations]
      /\ pc'[Main] = "free" /\ \A u \in Threads \ {Main} : pc'[u] = pc[u]
      /\ ControlOf(Main) /\ pc[Main] = "drain"
  BY MainAssumption DEF Inductive, Control
<1>3. Control'
  <2>1. ControlOf(Main)'
    BY <1>2 DEF ControlOf, Region
  <2>2. Destroyed' /\ Destroyed
    BY <1>2 DEF Destroyed
  <2> QED BY <1>2, <2>1, <2>2, ControlStable, MainAssumption
          DEF Inductive, Locations, Region
<1>4. Local(w, Main)'
  BY <1>2 DEF Local
<1>5. Quiet(Main)
  BY <1>2 DEF Quiet, OthersStay, SameThread, Prepares
<1> QED BY <1>1, <1>3, <1>4, <1>5, QuietStep, MainAssumption

-----------------------------------------------------------------------------
(* Steps that move tail_ *)

\* tail_ moves to the successor of the node it points to, or stays.
LEMMA TailStep ==
    ASSUME NEW w, NEW o, Inductive(w, o), NEW t \in Threads, op[t] # "none",
           NEW x, last[t].node \in Nodes, next_[last[t].node] = x, x.node # NULL,
           tail_' = IF tail_ = last[t] THEN x ELSE tail_,
           pc[t] \in {"push_swing", "help"}, pc' = [pc EXCEPT ![t] = "exit"],
           UNCHANGED <<head_, memory, cache, ebr, pointers, call>>
    PROVE  Inductive(w, o)'
<1> USE DEF memory, cache, ebr, pointers, call
<1>1. TypeOK'
  BY DEF Inductive, TypeOK
<1>2. /\ pc \in [Threads -> Locations]
      /\ pc'[t] = "exit" /\ \A u \in Threads \ {t} : pc'[u] = pc[u]
      /\ ControlOf(t)
  BY DEF Inductive, Control
<1>3. /\ head_ # Null /\ ~Destroyed /\ pc[Main] # "destroy"
      /\ QueueStart = head_
      /\ tail_.node \in Nodes /\ w[tail_.node] = "queue"
      /\ next_[tail_.node].node # NULL => next_[next_[tail_.node].node].node = NULL
  BY InOperation
<1>4. Control'
  <2>1. ControlOf(t)'
    BY <1>2 DEF ControlOf, Region
  <2>2. Destroyed' <=> Destroyed
    BY <1>2, <1>3, MainAssumption DEF Destroyed
  <2>3. pc'[Main] = "destroy" <=> pc[Main] = "destroy"
    BY <1>2, <1>3, MainAssumption
  <2> QED BY <1>2, <1>3, <2>1, <2>2, <2>3, ControlStable DEF Inductive, Locations, Region
<1>5. QueueStart' = QueueStart /\ (pc'[Main] # "destroy")
  BY <1>2, <1>3, MainAssumption DEF QueueStart
<1>6. RetiredOnce'
  BY DEF Inductive, RetiredOnce
<1>7. Chains'
  <2>1. \A u \in Threads : NodesFrom(cache_head[u])' = NodesFrom(cache_head[u])
    BY DEF NodesFrom
  <2>2. pc'[Main] # "joined" => pc[Main] # "joined"
    BY <1>2, MainAssumption
  <2> QED BY <1>5, <2>1, <2>2 DEF Inductive, Chains, CachesAreBounded
<1>8. /\ IsChain(next_, head_) 
      /\ tail_.node \in Reach(next_, head_)
      /\ \A n \in Nodes : n \in Reach(next_, head_) <=> w[n] = "queue"
  BY <1>3 DEF Inductive, Chains, TailInQueue, Located
<1>9. ASSUME tail_ = last[t]
      PROVE  /\ x.node \in Reach(next_, head_) \ {head_.node}
             /\ next_[x.node].node = NULL
             /\ x.node \in Nodes
  <2>1. next_[tail_.node] = x
    BY <1>9
  <2>2. x.node \in Reach(next_, head_) \ {head_.node}
    BY <1>8, <2>1, Successors
  <2> QED BY <1>3, <1>8, <2>1, <2>2, ReachBasics
<1>10. TailInQueue'
  BY <1>3, <1>5, <1>8, <1>9 DEF Inductive, TailInQueue
<1>11. Located(w, o)'
  <2>1. \A u \in Threads :
           /\ Prepares(u)' <=> Prepares(u)
           /\ pc'[u] = "pop_retire" <=> pc[u] = "pop_retire"
           /\ RetiredBy(u)' = RetiredBy(u)
    BY <1>2 DEF Prepares, RetiredBy
  <2> QED BY <1>5, <2>1 DEF Inductive, Located
<1>12. Fields(w)'
  BY DEF Inductive, Fields
<1>13. TailMoves(w)
  BY <1>8, <1>9 DEF TailMoves
<1>14. \A u \in Threads : Local(w, u)'
  <2>1. ASSUME NEW u \in Threads \ {t}
        PROVE  Local(w, u)'
    <3>1. Keeps(w, w, u)
      BY DEF Keeps, Protected
    <3>2. SameThread(u)
      BY <1>2 DEF SameThread
    <3> QED BY <1>13, <3>1, <3>2, LocalStable DEF Inductive, HeadMoves
  <2>2. Local(w, t)'
    BY <1>2 DEF Local
  <2> QED BY <2>1, <2>2
<1> QED BY <1>1, <1>4, <1>6, <1>7, <1>10, <1>11, <1>12, <1>14 DEF Inductive

\* push_back() moves tail_ to the node it linked.
LEMMA PushSwingStep ==
    ASSUME NEW w, NEW o, Inductive(w, o), NEW t \in Threads, PushSwing(t)
    PROVE  Inductive(w, o)'
<1>1. /\ Local(w, t) /\ ControlOf(t) /\ pc[t] = "push_swing"
      /\ pc' = [pc EXCEPT ![t] = "exit"]
  BY DEF PushSwing, Goto, Inductive, Control
<1>2. last[t].node \in Nodes /\ next_[last[t].node] = node[t] /\ node[t].node # NULL
  BY <1>1 DEF Local, Protected
<1>3. op[t] # "none"
  BY <1>1 DEF ControlOf
<1> QED BY <1>1, <1>2, <1>3, TailStep DEF PushSwing

\* Either operation moves a tail_ that has fallen behind.
LEMMA HelpStep ==
    ASSUME NEW w, NEW o, Inductive(w, o), NEW t \in Threads, Help(t)
    PROVE  Inductive(w, o)'
<1>1. /\ Local(w, t) /\ ControlOf(t) /\ pc[t] = "help"
      /\ pc' = [pc EXCEPT ![t] = "exit"]
  BY DEF Help, Goto, Inductive, Control
<1>2. last[t].node \in Nodes /\ next_[last[t].node] = next[t] /\ next[t].node # NULL
  BY <1>1 DEF Local, Protected
<1>3. op[t] # "none"
  BY <1>1 DEF ControlOf
<1> QED BY <1>1, <1>2, <1>3, TailStep DEF Help, HelpedTail

-----------------------------------------------------------------------------
(* Steps that take a node from the allocator *)

\* The node get() returns comes off the heap or off the front of t's own cache,
\* and every other chain stays what it was.
LEMMA GetEffect ==
    ASSUME NEW w, NEW o, Inductive(w, o), NEW t \in Threads, pc[Main] # "joined",
           NEW p \in Gettable(t), NEW v, Get(t, p, v)
    PROVE  /\ p \in TaggedPtr /\ p.node \in Nodes
           /\ w[p.node] = "heap" \/ (w[p.node] = "cache" /\ o[p.node] = t)
           /\ next_' = [next_ EXCEPT ![p.node] = Null]
           /\ next_' \in [Nodes -> TaggedPtr]
           /\ heap' = heap \ {p.node}
           /\ cache_head' \in [Threads -> TaggedPtr]
           /\ cache_count' \in [Threads -> 0 .. CACHE_COUNT]
           /\ \A u \in Threads :
                 /\ IsChain(next_', cache_head'[u])
                 /\ Reach(next_', cache_head'[u]) = Reach(next_, cache_head[u]) \ {p.node}
                 /\ cache_count'[u] = Cardinality(Reach(next_', cache_head'[u]))
                 /\ cache_count'[u] < CACHE_COUNT
<1> USE DEF cache
<1>1. /\ next_ \in [Nodes -> TaggedPtr]
      /\ cache_head \in [Threads -> TaggedPtr]
      /\ cache_count \in [Threads -> 0 .. CACHE_COUNT]
      /\ heap \subseteq Nodes
  BY DEF Inductive, TypeOK
<1>2. \A u \in Threads :
         /\ IsChain(next_, cache_head[u])
         /\ cache_count[u] = Cardinality(Reach(next_, cache_head[u]))
         /\ cache_count[u] < CACHE_COUNT
         /\ Reach(next_, cache_head[u]) = {n \in Nodes : w[n] = "cache" /\ o[n] = u}
  BY DEF Inductive, Chains, CachesAreBounded, NodesFrom, Reach, Located
<1>3. Null \in TaggedPtr /\ \A n \in Nodes : Ptr(n) \in TaggedPtr /\ Ptr(n).node = n
  BY TagAssumption DEF Null, Ptr, TaggedPtr
<1>4. next_' = [next_ EXCEPT ![p.node] = Null] /\ next_' \in [Nodes -> TaggedPtr]
  BY <1>1, <1>3 DEF Get
<1>5. CASE CacheIsEmpty(t)
  <2>1. p \in TaggedPtr /\ p.node \in heap /\ p.node \in Nodes
    BY <1>1, <1>3, <1>5 DEF Gettable
  <2>2. w[p.node] = "heap"
    BY <2>1 DEF Inductive, Located
  <2>3. heap' = heap \ {p.node} /\ cache_head' = cache_head /\ cache_count' = cache_count
    BY <1>5 DEF Get
  <2>4. ASSUME NEW u \in Threads
        PROVE  /\ IsChain(next_', cache_head[u])
               /\ Reach(next_', cache_head[u]) = Reach(next_, cache_head[u])
               /\ p.node \notin Reach(next_, cache_head[u])
    <3>1. p.node \notin Reach(next_, cache_head[u])
      BY <1>2, <2>2
    <3>2. \A n \in Reach(next_, cache_head[u]) : next_'[n] = next_[n]
      BY <1>1, <1>2, <1>4, <3>1
    <3>3. IsChain(next_, cache_head[u]) /\ next_' \in [Nodes -> TaggedPtr]
      BY <1>2, <1>4
    <3> QED BY <3>1, <3>2, <3>3, ReachFrame
  <2>5. ASSUME NEW u \in Threads
        PROVE  /\ IsChain(next_', cache_head'[u])
               /\ Reach(next_', cache_head'[u]) = Reach(next_, cache_head[u]) \ {p.node}
               /\ cache_count'[u] = Cardinality(Reach(next_', cache_head'[u]))
               /\ cache_count'[u] < CACHE_COUNT
    <3>1. cache_head'[u] = cache_head[u] /\ cache_count'[u] = cache_count[u]
      BY <2>3
    <3>2. Reach(next_', cache_head[u]) = Reach(next_, cache_head[u]) \ {p.node}
      BY <2>4
    <3>3. cache_count[u] = Cardinality(Reach(next_', cache_head[u]))
      BY <1>2, <2>4
    <3> QED BY <1>2, <2>4, <3>1, <3>2, <3>3
  <2>6. cache_head' \in [Threads -> TaggedPtr] /\ cache_count' \in [Threads -> 0 .. CACHE_COUNT]
    BY <1>1, <2>3
  <2>7. heap' = heap \ {p.node}
    BY <2>3
  <2> QED BY <1>4, <2>1, <2>2, <2>5, <2>6, <2>7
<1>6. CASE ~CacheIsEmpty(t)
  <2>1. p = cache_head[t] /\ p.node # NULL /\ p \in TaggedPtr
    BY <1>1, <1>6 DEF Gettable, CacheIsEmpty
  <2>2. /\ heap' = heap
        /\ cache_head' = [cache_head EXCEPT ![t] = next_[p.node]]
        /\ cache_count' = [cache_count EXCEPT ![t] = @ - 1]
    BY <1>6 DEF Get
  <2>3. /\ p.node \in Nodes
        /\ IsChain(next_, next_[p.node])
        /\ Reach(next_, next_[p.node]) = Reach(next_, p) \ {p.node}
        /\ Cardinality(Reach(next_, next_[p.node])) = Cardinality(Reach(next_, p)) - 1
        /\ p.node \in Reach(next_, p)
    BY <1>2, <2>1, ReachUncons, ReachBasics
  <2>4. w[p.node] = "cache" /\ o[p.node] = t /\ p.node \notin heap
    <3>1. w[p.node] = "cache" /\ o[p.node] = t
      BY <1>2, <2>1, <2>3
    <3> QED BY <3>1 DEF Inductive, Located
  <2>5. ASSUME NEW q, IsChain(next_, q), p.node \notin Reach(next_, q)
        PROVE  IsChain(next_', q) /\ Reach(next_', q) = Reach(next_, q)
    <3>1. \A n \in Reach(next_, q) : n \in Nodes /\ next_'[n] = next_[n]
      BY <1>1, <1>4, <2>5, ReachBasics
    <3> QED BY <1>4, <2>5, <3>1, ReachFrame
  <2>6. ASSUME NEW u \in Threads \ {t}
        PROVE  /\ cache_head'[u] = cache_head[u] /\ cache_count'[u] = cache_count[u]
               /\ IsChain(next_', cache_head[u])
               /\ Reach(next_', cache_head[u]) = Reach(next_, cache_head[u])
               /\ p.node \notin Reach(next_, cache_head[u])
    <3>1. p.node \notin Reach(next_, cache_head[u])
      BY <1>2, <2>4
    <3>2. cache_head'[u] = cache_head[u] /\ cache_count'[u] = cache_count[u]
      BY <1>1, <2>2
    <3> QED BY <1>2, <2>5, <3>1, <3>2
  <2>7. /\ cache_head'[t] = next_[p.node] /\ cache_count'[t] = cache_count[t] - 1
        /\ IsChain(next_', next_[p.node])
        /\ Reach(next_', next_[p.node]) = Reach(next_, cache_head[t]) \ {p.node}
    BY <1>1, <2>1, <2>2, <2>3, <2>5
  <2>8. /\ cache_count[t] \in Nat /\ CACHE_COUNT \in Nat
        /\ cache_count'[t] = Cardinality(Reach(next_', cache_head'[t]))
        /\ cache_count'[t] \in Nat
    <3>1. cache_count[t] \in Nat /\ CACHE_COUNT \in Nat
      BY <1>1, CacheAssumption
    <3>2. cache_count'[t] = Cardinality(Reach(next_', cache_head'[t]))
      BY <1>2, <2>1, <2>3, <2>7
    <3>3. IsChain(next_', cache_head'[t])
      BY <2>7
    <3>4. Cardinality(Reach(next_', cache_head'[t])) \in Nat
      BY <3>3, ReachBasics
    <3> QED BY <3>1, <3>2, <3>4
  <2>9. cache_count'[t] < CACHE_COUNT /\ cache_count'[t] \in 0 .. CACHE_COUNT
    BY <1>2, <2>7, <2>8
  <2>10. cache_head' \in [Threads -> TaggedPtr]
    BY <1>1, <2>2, <2>3
  <2>11. cache_count' \in [Threads -> 0 .. CACHE_COUNT]
    BY <1>1, <2>2, <2>7, <2>9
  <2>12. \A u \in Threads :
            /\ IsChain(next_', cache_head'[u])
            /\ Reach(next_', cache_head'[u]) = Reach(next_, cache_head[u]) \ {p.node}
            /\ cache_count'[u] = Cardinality(Reach(next_', cache_head'[u]))
            /\ cache_count'[u] < CACHE_COUNT
    <3>1. ASSUME NEW u \in Threads \ {t}
          PROVE  /\ IsChain(next_', cache_head'[u])
                 /\ Reach(next_', cache_head'[u]) = Reach(next_, cache_head[u]) \ {p.node}
                 /\ cache_count'[u] = Cardinality(Reach(next_', cache_head'[u]))
                 /\ cache_count'[u] < CACHE_COUNT
      <4>1. Reach(next_', cache_head'[u]) = Reach(next_, cache_head[u])
        BY <2>6
      <4>2. Reach(next_, cache_head[u]) = Reach(next_, cache_head[u]) \ {p.node}
        BY <2>6
      <4> QED BY <1>2, <2>6, <4>1, <4>2
    <3>2. /\ IsChain(next_', cache_head'[t])
          /\ Reach(next_', cache_head'[t]) = Reach(next_, cache_head[t]) \ {p.node}
      BY <2>7
    <3>3. /\ cache_count'[t] = Cardinality(Reach(next_', cache_head'[t]))
          /\ cache_count'[t] < CACHE_COUNT
      BY <2>8, <2>9
    <3> TAKE u \in Threads
    <3>4. CASE u = t
      BY <3>2, <3>3, <3>4
    <3>5. CASE u # t
      BY <3>1, <3>5
    <3> QED BY <3>4, <3>5
  <2>13. /\ p \in TaggedPtr /\ p.node \in Nodes /\ heap' = heap \ {p.node}
         /\ w[p.node] = "cache" /\ o[p.node] = t
    BY <2>1, <2>2, <2>3, <2>4
  <2> QED BY <1>4, <2>10, <2>11, <2>12, <2>13
<1> QED BY <1>5, <1>6

\* A step that changes the field of a node outside the queue.
LEMMA QueueUntouched ==
    ASSUME NEW w, NEW o, Inductive(w, o), NEW n \in Nodes, w[n] # "queue",
           next_' \in [Nodes -> TaggedPtr], \A m \in Nodes \ {n} : next_'[m] = next_[m],
           head_' = head_, tail_' = tail_, QueueStart' = QueueStart,
           pc'[Main] # "destroy" => pc[Main] # "destroy"
    PROVE  /\ IsChain(next_', QueueStart')
           /\ Reach(next_', QueueStart') = Reach(next_, QueueStart)
           /\ TailInQueue'
<1>1. /\ IsChain(next_, QueueStart)
      /\ \A m \in Nodes : m \in Reach(next_, QueueStart) <=> w[m] = "queue"
  BY DEF Inductive, Chains, Located
<1>2. Reach(next_, QueueStart) \subseteq Nodes \ {n}
  BY <1>1, ReachBasics
<1>3. IsChain(next_', QueueStart) /\ Reach(next_', QueueStart) = Reach(next_, QueueStart)
  BY <1>1, <1>2, ReachFrame
<1>4. TailInQueue'
  <2>1. SUFFICES ASSUME head_' # Null, pc'[Main] # "destroy"
                 PROVE  /\ tail_'.node \in Reach(next_', QueueStart')
                        /\ next_'[tail_'.node].node # NULL =>
                              next_'[next_'[tail_'.node].node].node = NULL
    BY DEF TailInQueue
  <2>2. /\ tail_.node \in Reach(next_, QueueStart)
        /\ next_[tail_.node].node # NULL => next_[next_[tail_.node].node].node = NULL
    BY <2>1 DEF Inductive, TailInQueue
  <2>3. next_'[tail_.node] = next_[tail_.node]
    BY <1>2, <2>2
  <2>4. ASSUME next_[tail_.node].node # NULL
        PROVE  next_'[next_[tail_.node].node] = next_[next_[tail_.node].node]
    <3>1. next_[tail_.node].node \in Reach(next_, QueueStart)
      BY <1>1, <2>2, <2>4, Successors
    <3> QED BY <1>2, <3>1
  <2> QED BY <1>3, <2>2, <2>3, <2>4
<1> QED BY <1>3, <1>4

\* The prepared node moves from the heap or a cache to t.
LEMMA CallPushStep ==
    ASSUME NEW w, NEW o, Inductive(w, o), NEW t \in Threads, NEW v \in Values, CallPush(t, v)
    PROVE  \E w2, o2 : Inductive(w2, o2)'
<1>1. /\ pc \in [Threads -> Locations]
      /\ pc' = [pc EXCEPT ![t] = "push_enter"]
      /\ pc'[t] = "push_enter" /\ pc[t] = "idle"
      /\ \A u \in Threads \ {t} : pc'[u] = pc[u]
      /\ ControlOf(t) /\ ControlOf(Main)
      /\ head_ # Null /\ ~Destroyed
  BY MainAssumption DEF CallPush, Goto, Initialized, Inductive, Control
<1>2. pc[Main] \notin {"joined", "drain", "free"} /\ pc'[Main] \notin {"joined", "drain", "free"}
  BY <1>1, MainAssumption DEF Destroyed
<1>3. PICK p \in Gettable(t) :
         Get(t, p, v) /\ node' = [node EXCEPT ![t] = IncrementTag(p)]
  BY DEF CallPush
<1>4. PICK n : n = p.node
  OBVIOUS
<1>5. /\ p \in TaggedPtr /\ n \in Nodes
      /\ w[n] = "heap" \/ (w[n] = "cache" /\ o[n] = t)
      /\ next_' = [next_ EXCEPT ![n] = Null] /\ next_' \in [Nodes -> TaggedPtr]
      /\ heap' = heap \ {n}
      /\ cache_head' \in [Threads -> TaggedPtr]
      /\ cache_count' \in [Threads -> 0 .. CACHE_COUNT]
      /\ \A u \in Threads :
            /\ IsChain(next_', cache_head'[u])
            /\ Reach(next_', cache_head'[u]) = Reach(next_, cache_head[u]) \ {n}
            /\ cache_count'[u] = Cardinality(Reach(next_', cache_head'[u]))
            /\ cache_count'[u] < CACHE_COUNT
  <2>1. /\ p \in TaggedPtr /\ p.node \in Nodes
        /\ w[p.node] = "heap" \/ (w[p.node] = "cache" /\ o[p.node] = t)
        /\ next_' = [next_ EXCEPT ![p.node] = Null] /\ next_' \in [Nodes -> TaggedPtr]
        /\ heap' = heap \ {p.node}
        /\ cache_head' \in [Threads -> TaggedPtr]
        /\ cache_count' \in [Threads -> 0 .. CACHE_COUNT]
    BY <1>2, <1>3, GetEffect
  <2>2. \A u \in Threads :
            /\ IsChain(next_', cache_head'[u])
            /\ Reach(next_', cache_head'[u]) = Reach(next_, cache_head[u]) \ {p.node}
            /\ cache_count'[u] = Cardinality(Reach(next_', cache_head'[u]))
            /\ cache_count'[u] < CACHE_COUNT
    BY <1>2, <1>3, GetEffect
  <2> QED BY <1>4, <2>1, <2>2
<1>6. /\ released_' = [released_ EXCEPT ![n] = FALSE]
      /\ value_' = [value_ EXCEPT ![n] = v]
  BY <1>3, <1>4 DEF Get
<1>7. /\ op' = [op EXCEPT ![t] = "push"] /\ val' = [val EXCEPT ![t] = v]
      /\ UNCHANGED <<head_, tail_, active, retire_list, blockers, first, last, next, done>>
  BY DEF CallPush, ebr
<1>8. /\ op[t] = "none" /\ ~done[t] /\ op'[t] = "push" /\ node'[t].node = n
      /\ IncrementTag(p) \in TaggedPtr
      /\ \A u \in Threads \ {t} : op'[u] = op[u] /\ node'[u] = node[u]
  <2>1. IncrementTag(p) \in TaggedPtr /\ IncrementTag(p).node = n
    <3>1. p.tag \in Nat /\ (p.tag + 1) % TAG_LIMIT \in 0 .. TAG_LIMIT - 1
      BY <1>5, TagAssumption DEF TaggedPtr
    <3> QED BY <1>4, <1>5, <3>1 DEF IncrementTag, TaggedPtr
  <2> QED BY <1>1, <1>3, <1>7, <2>1 DEF ControlOf, Inductive, TypeOK
<1>9. TypeOK'
  BY <1>3, <1>5, <1>6, <1>7, <1>8 DEF Inductive, TypeOK
<1>10. Control'
  <2>1. ControlOf(t)'
    BY <1>1, <1>7, <1>8 DEF ControlOf, Region
  <2>2. Destroyed' <=> Destroyed
    BY <1>1, <1>2, <1>8, MainAssumption DEF Destroyed
  <2>3. pc'[Main] = "destroy" <=> pc[Main] = "destroy"
    BY <1>1, MainAssumption
  <2> QED BY <1>1, <1>7, <1>8, <2>1, <2>2, <2>3, ControlStable DEF Inductive, Locations
<1>11. QueueStart' = QueueStart /\ (pc'[Main] # "destroy" => pc[Main] # "destroy")
  BY <1>1, <1>7, MainAssumption DEF QueueStart
<1>12. /\ IsChain(next_', QueueStart')
       /\ Reach(next_', QueueStart') = Reach(next_, QueueStart)
       /\ TailInQueue'
  <2>1. \A m \in Nodes \ {n} : next_'[m] = next_[m]
    BY <1>5 DEF Inductive, TypeOK
  <2> QED BY <1>5, <1>7, <1>11, <2>1, QueueUntouched
<1>13. RetiredOnce'
  BY <1>7 DEF Inductive, RetiredOnce
<1>14. Chains'
  <2>1. \A u \in Threads : NodesFrom(cache_head[u])' = Reach(next_', cache_head'[u])
    BY DEF NodesFrom, Reach
  <2> QED BY <1>5, <1>12, <2>1 DEF Chains, CachesAreBounded
<1>15. PICK w2, o2 : w2 = [w EXCEPT ![n] = "prepared"] /\ o2 = [o EXCEPT ![n] = t]
  OBVIOUS
<1>16. /\ w2 \in [Nodes -> Kinds] /\ o2 \in [Nodes -> Threads]
       /\ w2[n] = "prepared" /\ o2[n] = t
       /\ \A m \in Nodes \ {n} : w2[m] = w[m] /\ o2[m] = o[m]
  BY <1>5, <1>15 DEF Inductive, Kinds
<1>17. Located(w2, o2)'
  <2>1. heap' = {m \in Nodes : w2[m] = "heap"}
    BY <1>5, <1>16 DEF Inductive, Located
  <2>2. Reach(next_', QueueStart') = {m \in Nodes : w2[m] = "queue"}
    <3>1. Reach(next_, QueueStart) = {m \in Nodes : w[m] = "queue"}
      BY DEF Inductive, Located
    <3>2. \A m \in Nodes : w2[m] = "queue" <=> w[m] = "queue"
      BY <1>5, <1>16
    <3> QED BY <1>12, <3>1, <3>2
  <2>3. ASSUME NEW u \in Threads
        PROVE  /\ Reach(next_', cache_head'[u]) = {m \in Nodes : w2[m] = "cache" /\ o2[m] = u}
               /\ RetiredBy(u)' = {m \in Nodes : w2[m] = "retired" /\ o2[m] = u}
    <3>1. Reach(next_, cache_head[u]) = {m \in Nodes : w[m] = "cache" /\ o[m] = u}
          /\ RetiredBy(u) = {m \in Nodes : w[m] = "retired" /\ o[m] = u}
      BY DEF Inductive, Located
    <3>2. RetiredBy(u)' = RetiredBy(u)
      BY <1>7 DEF RetiredBy
    <3>3. Reach(next_', cache_head'[u]) = {m \in Nodes : w[m] = "cache" /\ o[m] = u} \ {n}
      BY <1>5, <3>1
    <3>4. \A m \in Nodes : w2[m] = "cache" /\ o2[m] = u <=> w[m] = "cache" /\ o[m] = u /\ m # n
      BY <1>16
    <3>5. \A m \in Nodes : w2[m] = "retired" /\ o2[m] = u <=> w[m] = "retired" /\ o[m] = u
      BY <1>5, <1>16
    <3>6. Reach(next_', cache_head'[u]) = {m \in Nodes : w2[m] = "cache" /\ o2[m] = u}
      BY <3>3, <3>4
    <3>7. RetiredBy(u)' = {m \in Nodes : w2[m] = "retired" /\ o2[m] = u}
      BY <3>1, <3>2, <3>5
    <3> QED BY <3>6, <3>7
  <2>4. \A u \in Threads :
           /\ Prepares(u)' <=> (u = t \/ Prepares(u))
           /\ u # t => node'[u] = node[u]
           /\ pc'[u] = "pop_retire" <=> pc[u] = "pop_retire"
    BY <1>1, <1>7, <1>8 DEF Prepares
  <2>5. ASSUME NEW u \in Threads, Prepares(u)'
        PROVE  node'[u].node \in Nodes /\ w2[node'[u].node] = "prepared"
               /\ o2[node'[u].node] = u
    BY <1>5, <1>8, <1>16, <2>4, <2>5 DEF Inductive, Located
  <2>6. ASSUME NEW u \in Threads, pc'[u] = "pop_retire"
        PROVE  first'[u].node \in Nodes /\ w2[first'[u].node] = "unlinked"
               /\ o2[first'[u].node] = u
    BY <1>5, <1>7, <1>16, <2>4, <2>6 DEF Inductive, Located
  <2>7. ~Prepares(t)
    BY <1>8 DEF Prepares
  <2>8. ASSUME NEW m \in Nodes
        PROVE  /\ w2[m] = "prepared" => Prepares(o2[m])' /\ node'[o2[m]].node = m
               /\ w2[m] = "unlinked" => pc'[o2[m]] = "pop_retire" /\ first'[o2[m]].node = m
    <3>1. CASE m = n
      BY <1>8, <1>16, <2>4, <3>1
    <3>2. CASE m # n
      BY <1>7, <1>16, <2>4, <2>7, <3>2 DEF Inductive, Located
    <3> QED BY <3>1, <3>2
  <2> QED BY <2>1, <2>2, <2>3, <2>5, <2>6, <2>8 DEF Located
<1>18. Fields(w2)'
  BY <1>5, <1>6, <1>16 DEF Inductive, Fields, Null, Ptr, TypeOK
<1>19. ASSUME NEW u \in Threads
       PROVE  Local(w2, u)'
  <2>1. CASE u = t
    BY <1>1, <2>1 DEF Local
  <2>2. CASE u # t
    <3>1. Keeps(w, w2, u)
      BY <1>5, <1>7, <1>16 DEF Keeps, Protected, Inductive, TypeOK
    <3>2. SameThread(u)
      BY <1>1, <1>7, <1>8, <2>2 DEF SameThread
    <3> QED BY <1>7, <3>1, <3>2, LocalStable DEF Inductive, HeadMoves, TailMoves
  <2> QED BY <2>1, <2>2
<1> QED BY <1>9, <1>10, <1>12, <1>13, <1>14, <1>16, <1>17, <1>18, <1>19 DEF Inductive

\* The first node becomes the dummy.
LEMMA InitQueueStep ==
    ASSUME NEW w, NEW o, Inductive(w, o), InitQueue
    PROVE  \E w2, o2 : Inductive(w2, o2)'
<1>1. /\ pc' = pc /\ head_ = Null /\ pc[Main] = "idle" /\ ~Destroyed
      /\ \A u \in Threads : pc[u] = "idle" /\ ControlOf(u)
      /\ UNCHANGED <<active, retire_list, blockers, first, last, next, node, op, done, val>>
  BY MainAssumption DEF InitQueue, Initialized, Inductive, Control, ControlOf, Destroyed,
                        ebr, pointers, call
<1>2. PICK p \in Gettable(Main) : Get(Main, p, NULL) /\ head_' = p /\ tail_' = p
  BY DEF InitQueue
<1>3. PICK n : n = p.node
  OBVIOUS
<1>4. /\ p \in TaggedPtr /\ n \in Nodes
      /\ w[n] = "heap" \/ (w[n] = "cache" /\ o[n] = Main)
      /\ next_' = [next_ EXCEPT ![n] = Null] /\ next_' \in [Nodes -> TaggedPtr]
      /\ heap' = heap \ {n}
      /\ cache_head' \in [Threads -> TaggedPtr]
      /\ cache_count' \in [Threads -> 0 .. CACHE_COUNT]
  <2>1. /\ p \in TaggedPtr /\ p.node \in Nodes
        /\ w[p.node] = "heap" \/ (w[p.node] = "cache" /\ o[p.node] = Main)
        /\ next_' = [next_ EXCEPT ![p.node] = Null] /\ next_' \in [Nodes -> TaggedPtr]
        /\ heap' = heap \ {p.node}
        /\ cache_head' \in [Threads -> TaggedPtr]
        /\ cache_count' \in [Threads -> 0 .. CACHE_COUNT]
    BY <1>1, <1>2, GetEffect, MainAssumption
  <2> QED BY <1>3, <2>1
<1>5. \A u \in Threads :
         /\ IsChain(next_', cache_head'[u])
         /\ Reach(next_', cache_head'[u]) = Reach(next_, cache_head[u]) \ {n}
         /\ cache_count'[u] = Cardinality(Reach(next_', cache_head'[u]))
         /\ cache_count'[u] < CACHE_COUNT
  <2>1. \A u \in Threads :
           /\ IsChain(next_', cache_head'[u])
           /\ Reach(next_', cache_head'[u]) = Reach(next_, cache_head[u]) \ {p.node}
           /\ cache_count'[u] = Cardinality(Reach(next_', cache_head'[u]))
           /\ cache_count'[u] < CACHE_COUNT
    BY <1>1, <1>2, GetEffect, MainAssumption
  <2> QED BY <1>3, <2>1
<1>6. /\ released_' = [released_ EXCEPT ![n] = FALSE]
      /\ value_' = [value_ EXCEPT ![n] = NULL]
  BY <1>2, <1>3 DEF Get
<1>7. TypeOK'
  BY <1>1, <1>2, <1>4, <1>6 DEF Inductive, TypeOK
<1>8. head_'.node = n /\ n # NULL /\ head_' # Null
  BY <1>2, <1>3, <1>4, NullAssumption DEF Null, Ptr
<1>9. Control'
  <2>1. \A u \in Threads : ControlOf(u)'
    BY <1>1 DEF ControlOf
  <2> QED BY <1>1, <1>4, <1>8, <2>1 DEF Control, Destroyed, Inductive
<1>10. QueueStart = head_ /\ QueueStart' = p
  BY <1>1, <1>2 DEF QueueStart
<1>11. IsChain(next_', p) /\ Reach(next_', p) = {n}
  <2>1. PICK z : z = Null
    OBVIOUS
  <2>2. z \in TaggedPtr /\ z.node = NULL
    BY <2>1, TagAssumption DEF Null, Ptr, TaggedPtr
  <2>3. IsChain(next_', z) /\ Reach(next_', z) = {}
    BY <1>4, <2>2, EmptyChain
  <2>4. p.node \in Nodes \ Reach(next_', z) /\ next_'[p.node].node = z.node
    BY <1>3, <1>4, <2>1, <2>3 DEF Inductive, TypeOK
  <2>5. IsChain(next_', p) /\ Reach(next_', p) = Reach(next_', z) \cup {p.node}
    <3>1. p \in TaggedPtr
      BY <1>4
    <3> QED BY <2>3, <2>4, <3>1, ReachCons
  <2> QED BY <1>3, <2>3, <2>5
<1>12. Reach(next_, QueueStart) = {} /\ \A m \in Nodes : w[m] # "queue"
  <2>1. head_.node = NULL /\ IsChain(next_, head_)
    BY <1>1, <1>10 DEF Null, Ptr, Inductive, Chains
  <2>2. Reach(next_, QueueStart) = {}
    BY <1>10, <2>1, ReachBasics
  <2> QED BY <2>2 DEF Inductive, Located
<1>13. TailInQueue'
  <2>1. next_'[n].node = NULL
    BY <1>4 DEF Inductive, TypeOK, Null, Ptr
  <2> QED BY <1>2, <1>3, <1>10, <1>11, <2>1 DEF TailInQueue
<1>14. RetiredOnce'
  BY <1>1 DEF Inductive, RetiredOnce
<1>15. Chains'
  <2>1. \A u \in Threads : NodesFrom(cache_head[u])' = Reach(next_', cache_head'[u])
    BY DEF NodesFrom, Reach
  <2> QED BY <1>5, <1>10, <1>11, <2>1 DEF Chains, CachesAreBounded
<1>16. PICK w2 : w2 = [w EXCEPT ![n] = "queue"]
  OBVIOUS
<1>17. /\ w2 \in [Nodes -> Kinds] /\ w2[n] = "queue"
       /\ \A m \in Nodes \ {n} : w2[m] = w[m]
  BY <1>4, <1>16 DEF Inductive, Kinds
<1>18. Located(w2, o)'
  <2>1. heap' = {m \in Nodes : w2[m] = "heap"}
    BY <1>4, <1>17 DEF Inductive, Located
  <2>2. Reach(next_', QueueStart') = {m \in Nodes : w2[m] = "queue"}
    BY <1>4, <1>10, <1>11, <1>12, <1>17
  <2>3. ASSUME NEW u \in Threads
        PROVE  /\ Reach(next_', cache_head'[u]) = {m \in Nodes : w2[m] = "cache" /\ o[m] = u}
               /\ RetiredBy(u)' = {m \in Nodes : w2[m] = "retired" /\ o[m] = u}
    <3>1. Reach(next_, cache_head[u]) = {m \in Nodes : w[m] = "cache" /\ o[m] = u}
          /\ RetiredBy(u) = {m \in Nodes : w[m] = "retired" /\ o[m] = u}
      BY DEF Inductive, Located
    <3>2. RetiredBy(u)' = RetiredBy(u)
      BY <1>1 DEF RetiredBy
    <3> QED BY <1>4, <1>5, <1>17, <3>1, <3>2
  <2>4. \A u \in Threads : ~Prepares(u) /\ ~Prepares(u)' /\ pc'[u] # "pop_retire"
    BY <1>1 DEF Prepares, ControlOf
  <2>5. \A m \in Nodes : w2[m] \notin {"prepared", "unlinked"}
    BY <1>1, <1>17, <2>4 DEF Inductive, Located
  <2> QED BY <2>1, <2>2, <2>3, <2>4, <2>5 DEF Located
<1>19. Fields(w2)'
  BY <1>4, <1>6, <1>17 DEF Inductive, Fields, Null, Ptr, TypeOK
<1>20. \A u \in Threads : Local(w2, u)'
  BY <1>1 DEF Local
<1> QED BY <1>7, <1>9, <1>13, <1>14, <1>15, <1>17, <1>18, <1>19, <1>20 DEF Inductive

-----------------------------------------------------------------------------
(* Steps that link a node to the queue, or unlink one *)

\* The prepared node moves into the queue, behind its last node.
LEMMA PushLinkStep ==
    ASSUME NEW w, NEW o, Inductive(w, o), NEW t \in Threads, PushLink(t)
    PROVE  \E w2, o2 : Inductive(w2, o2)'
<1>1. /\ pc \in [Threads -> Locations]
      /\ pc' = [pc EXCEPT ![t] = "push_swing"]
      /\ pc'[t] = "push_swing" /\ pc[t] = "push_link"
      /\ \A u \in Threads \ {t} : pc'[u] = pc[u]
      /\ ControlOf(t)
  BY DEF PushLink, Goto, Inductive, Control
<1>2. op[t] = "push" /\ ~done[t] /\ Prepares(t)
  BY <1>1 DEF ControlOf, Prepares
<1>3. PICK n, m : n = last[t].node /\ m = node[t].node
  OBVIOUS
<1>4. /\ next_' = [next_ EXCEPT ![n] = node[t]]
      /\ done' = [done EXCEPT ![t] = TRUE]
      /\ UNCHANGED <<head_, tail_, value_, released_, heap, cache_head, cache_count, active,
                     retire_list, blockers, first, last, next, node, op, val>>
  BY <1>3 DEF PushLink, cache, ebr, pointers
<1>5. /\ n \in Nodes /\ tail_.node = n /\ next_[n].node = NULL /\ w[n] = "queue"
      /\ next_[tail_.node].node = NULL
  <2>1. HoldsLast(w, t) /\ next[t].node = NULL
    BY <1>1 DEF Inductive, Local
  <2>2. next_[n] = next[t]
    BY <1>3 DEF PushLink, CanLink
  <2>3. tail_.node = n
    BY <1>3, <2>1, <2>2 DEF HoldsLast
  <2> QED BY <1>2, <2>1, <2>2, <2>3, InOperation
<1>6. /\ m \in Nodes /\ m # NULL /\ w[m] = "prepared" /\ o[m] = t /\ m # n
      /\ next_[m].node = NULL /\ ~released_[m]
  <2>1. m \in Nodes /\ w[m] = "prepared" /\ o[m] = t
    BY <1>2, <1>3 DEF Inductive, Located
  <2> QED BY <1>5, <2>1, NullAssumption DEF Inductive, Fields
<1>7. /\ next_ \in [Nodes -> TaggedPtr] /\ node[t] \in TaggedPtr
      /\ next_' \in [Nodes -> TaggedPtr]
      /\ next_'[n] = node[t] /\ \A k \in Nodes \ {n} : next_'[k] = next_[k]
  BY <1>4, <1>5 DEF Inductive, TypeOK
<1>8. TypeOK'
  BY <1>4, <1>7 DEF Inductive, TypeOK
<1>9. head_ # Null /\ ~Destroyed /\ pc[Main] # "destroy" /\ QueueStart = head_
  BY <1>2, InOperation
<1>10. done'[t] /\ op'[t] = "push" /\ \A u \in Threads \ {t} : done'[u] = done[u]
  BY <1>2, <1>4 DEF Inductive, TypeOK
<1>11. Control'
  <2>1. ControlOf(t)'
    BY <1>1, <1>4, <1>10 DEF ControlOf, Region
  <2>2. Destroyed' <=> Destroyed
    BY <1>1, <1>4, <1>9, MainAssumption DEF Destroyed
  <2>3. pc'[Main] = "destroy" <=> pc[Main] = "destroy"
    BY <1>1, MainAssumption
  <2> QED BY <1>1, <1>4, <1>9, <1>10, <2>1, <2>2, <2>3, ControlStable
          DEF Inductive, Locations, Region
<1>12. QueueStart' = head_ /\ pc'[Main] # "destroy"
  BY <1>1, <1>4, <1>9, MainAssumption DEF QueueStart
<1>13. /\ IsChain(next_, head_)
       /\ Reach(next_, head_) = {k \in Nodes : w[k] = "queue"}
  BY <1>9 DEF Inductive, Chains, Located
<1>14. IsChain(next_', head_) /\ Reach(next_', head_) = Reach(next_, head_) \cup {m}
  <2>1. /\ n \in Reach(next_, head_) /\ next_[n].node = NULL
        /\ node[t].node \in Nodes \ Reach(next_, head_) /\ next_[node[t].node].node = NULL
    BY <1>3, <1>5, <1>6, <1>13
  <2>2. /\ IsChain(next_', head_)
        /\ Reach(next_', head_) = Reach(next_, head_) \cup {node[t].node}
    BY <1>7, <1>13, <2>1, ReachSnoc
  <2> QED BY <1>3, <2>2
<1>15. \A u \in Threads : /\ IsChain(next_', cache_head[u])
                          /\ Reach(next_', cache_head[u]) = Reach(next_, cache_head[u])
  <2>1. ASSUME NEW u \in Threads
        PROVE  /\ IsChain(next_', cache_head[u])
               /\ Reach(next_', cache_head[u]) = Reach(next_, cache_head[u])
    <3>1. /\ IsChain(next_, cache_head[u])
          /\ Reach(next_, cache_head[u]) = {k \in Nodes : w[k] = "cache" /\ o[k] = u}
      BY DEF Inductive, Chains, Located
    <3>2. \A k \in Reach(next_, cache_head[u]) : next_'[k] = next_[k]
      BY <1>5, <1>7, <3>1
    <3> QED BY <1>7, <3>1, <3>2, ReachFrame
  <2> QED BY <2>1
<1>16. RetiredOnce'
  BY <1>4 DEF Inductive, RetiredOnce
<1>17. Chains'
  <2>1. \A u \in Threads : /\ NodesFrom(cache_head[u])' = Reach(next_', cache_head'[u])
                           /\ NodesFrom(cache_head[u]) = Reach(next_, cache_head[u])
    BY DEF NodesFrom, Reach
  <2>2. pc'[Main] # "joined" => pc[Main] # "joined"
    BY <1>1, MainAssumption
  <2>3. \A u \in Threads : NodesFrom(cache_head[u])' = NodesFrom(cache_head[u])
    BY <1>4, <1>15, <2>1
  <2>4. CachesAreBounded'
    BY <1>4, <2>2, <2>3 DEF Inductive, Chains, CachesAreBounded
  <2> QED BY <1>4, <1>12, <1>14, <1>15, <2>4 DEF Chains
<1>18. TailInQueue'
  BY <1>3, <1>4, <1>5, <1>6, <1>7, <1>12, <1>13, <1>14 DEF TailInQueue
<1>19. PICK w2 : w2 = [w EXCEPT ![m] = "queue"]
  OBVIOUS
<1>20. /\ w2 \in [Nodes -> Kinds] /\ w2[m] = "queue"
       /\ \A k \in Nodes \ {m} : w2[k] = w[k]
  BY <1>6, <1>19 DEF Inductive, Kinds
<1>21. Located(w2, o)'
  <2>1. heap' = {k \in Nodes : w2[k] = "heap"}
    BY <1>4, <1>6, <1>20 DEF Inductive, Located
  <2>2. Reach(next_', QueueStart') = {k \in Nodes : w2[k] = "queue"}
    BY <1>6, <1>12, <1>13, <1>14, <1>20
  <2>3. ASSUME NEW u \in Threads
        PROVE  /\ Reach(next_', cache_head'[u]) = {k \in Nodes : w2[k] = "cache" /\ o[k] = u}
               /\ RetiredBy(u)' = {k \in Nodes : w2[k] = "retired" /\ o[k] = u}
    <3>1. Reach(next_, cache_head[u]) = {k \in Nodes : w[k] = "cache" /\ o[k] = u}
          /\ RetiredBy(u) = {k \in Nodes : w[k] = "retired" /\ o[k] = u}
      BY DEF Inductive, Located
    <3>2. RetiredBy(u)' = RetiredBy(u)
      BY <1>4 DEF RetiredBy
    <3> QED BY <1>4, <1>6, <1>15, <1>20, <3>1, <3>2
  <2>4. \A u \in Threads :
           /\ Prepares(u)' <=> (u # t /\ Prepares(u))
           /\ pc'[u] = "pop_retire" <=> pc[u] = "pop_retire"
    BY <1>1, <1>4, <1>10 DEF Prepares
  <2>5. ASSUME NEW u \in Threads, Prepares(u)'
        PROVE  node'[u].node \in Nodes /\ w2[node'[u].node] = "prepared"
               /\ o[node'[u].node] = u
    BY <1>4, <1>6, <1>20, <2>4, <2>5 DEF Inductive, Located
  <2>6. ASSUME NEW u \in Threads, pc'[u] = "pop_retire"
        PROVE  first'[u].node \in Nodes /\ w2[first'[u].node] = "unlinked"
               /\ o[first'[u].node] = u
    BY <1>4, <1>6, <1>20, <2>4, <2>6 DEF Inductive, Located
  <2>7. ASSUME NEW k \in Nodes
        PROVE  /\ w2[k] = "prepared" => Prepares(o[k])' /\ node'[o[k]].node = k
               /\ w2[k] = "unlinked" => pc'[o[k]] = "pop_retire" /\ first'[o[k]].node = k
    <3>1. CASE k = m
      BY <1>20, <3>1
    <3>2. CASE k # m
      BY <1>3, <1>4, <1>20, <2>4, <3>2 DEF Inductive, Located
    <3> QED BY <3>1, <3>2
  <2> QED BY <2>1, <2>2, <2>3, <2>5, <2>6, <2>7 DEF Located
<1>22. Fields(w2)'
  BY <1>4, <1>5, <1>6, <1>7, <1>20 DEF Inductive, Fields
<1>23. ASSUME NEW u \in Threads
       PROVE  Local(w2, u)'
  <2>1. CASE u = t
    <3>1. Protected(w2, t, n)'
      BY <1>5, <1>6, <1>20 DEF Protected
    <3> QED BY <1>1, <1>3, <1>4, <1>6, <1>7, <2>1, <3>1 DEF Local, Protected
  <2>2. CASE u # t
    <3>1. Keeps(w, w2, u)
      <4>1. Protected(w2, u, m)' /\ m = next_'[n].node /\ m \in Nodes
        BY <1>3, <1>6, <1>7, <1>20 DEF Protected
      <4>2. ASSUME NEW k \in Nodes, Protected(w, u, k)
            PROVE  Protected(w2, u, k)' /\ w2[k] = w[k]
        BY <1>4, <1>6, <1>20, <4>2 DEF Protected
      <4> QED BY <1>5, <1>7, <4>1, <4>2 DEF Keeps
    <3>2. SameThread(u)
      BY <1>1, <1>4, <2>2 DEF SameThread
    <3> QED BY <1>4, <3>1, <3>2, LocalStable DEF Inductive, HeadMoves, TailMoves
  <2> QED BY <2>1, <2>2
<1> QED BY <1>8, <1>11, <1>16, <1>17, <1>18, <1>20, <1>21, <1>22, <1>23 DEF Inductive

\* The old dummy moves out of the queue, to the thread that unlinked it.
LEMMA PopUnlinkStep ==
    ASSUME NEW w, NEW o, Inductive(w, o), NEW t \in Threads, PopUnlink(t)
    PROVE  \E w2, o2 : Inductive(w2, o2)'
<1>1. /\ pc \in [Threads -> Locations]
      /\ pc' = [pc EXCEPT ![t] = "pop_retire"]
      /\ pc'[t] = "pop_retire" /\ pc[t] = "pop_cas"
      /\ \A u \in Threads \ {t} : pc'[u] = pc[u]
      /\ ControlOf(t)
  BY DEF PopUnlink, Goto, Inductive, Control
<1>2. op[t] = "pop" /\ ~done[t] /\ ~Prepares(t)
  BY <1>1 DEF ControlOf, Prepares
<1>3. PICK n, m : n = first[t].node /\ m = next[t].node
  OBVIOUS
<1>4. /\ head_ = first[t] /\ head_' = next[t]
      /\ done' = [done EXCEPT ![t] = TRUE]
      /\ UNCHANGED <<tail_, next_, value_, released_, heap, cache_head, cache_count, active,
                     retire_list, blockers, first, last, next, node, op, val>>
  BY DEF PopUnlink, CanUnlink, memory, cache, ebr, pointers
<1>5. /\ n \in Nodes /\ next_[n] = next[t] /\ m # NULL /\ tail_.node # n
      /\ head_.node = n
  BY <1>1, <1>3, <1>4 DEF Inductive, Local, HoldsFirst, Holds, Protected
<1>6. /\ head_ # Null /\ ~Destroyed /\ pc[Main] # "destroy" /\ QueueStart = head_
      /\ w[n] = "queue" /\ w[tail_.node] = "queue" /\ tail_.node \in Nodes
      /\ next_[tail_.node].node # NULL => next_[next_[tail_.node].node].node = NULL
  BY <1>2, <1>5, InOperation
<1>7. /\ IsChain(next_, head_)
      /\ Reach(next_, head_) = {k \in Nodes : w[k] = "queue"}
  BY <1>6 DEF Inductive, Chains, Located
<1>8. IsChain(next_, next[t]) /\ Reach(next_, next[t]) = Reach(next_, head_) \ {n}
  <2>1. head_.node # NULL
    BY <1>5, NullAssumption
  <2>2. /\ IsChain(next_, next_[head_.node])
        /\ Reach(next_, next_[head_.node]) = Reach(next_, head_) \ {head_.node}
    BY <1>7, <2>1, ReachUncons
  <2> QED BY <1>5, <2>2
<1>9. m \in Nodes /\ next[t] # Null
  <2>1. m \in Reach(next_, next[t])
    BY <1>3, <1>5, <1>8, ReachBasics
  <2> QED BY <1>3, <1>5, <1>7, <1>8, <2>1 DEF Null, Ptr
<1>10. TypeOK'
  BY <1>4 DEF Inductive, TypeOK
<1>11. done'[t] /\ op'[t] = "pop" /\ \A u \in Threads \ {t} : done'[u] = done[u]
  BY <1>2, <1>4 DEF Inductive, TypeOK
<1>12. Control'
  <2>1. \A u \in Threads : ControlOf(u)'
    BY <1>1, <1>4, <1>11 DEF Inductive, Control, ControlOf, Region
  <2>2. ~Destroyed' /\ pc'[Main] # "destroy"
    BY <1>1, <1>4, <1>6, MainAssumption DEF Destroyed
  <2>3. pc' \in [Threads -> Locations]
    BY <1>1 DEF Locations, Region
  <2> QED BY <1>3, <1>4, <1>9, <2>1, <2>2, <2>3 DEF Control
<1>13. QueueStart' = next[t] /\ pc'[Main] # "destroy"
  BY <1>1, <1>4, <1>6, MainAssumption DEF QueueStart
<1>14. RetiredOnce'
  BY <1>4 DEF Inductive, RetiredOnce
<1>15. Chains'
  <2>1. \A u \in Threads : NodesFrom(cache_head[u])' = NodesFrom(cache_head[u])
    BY <1>4 DEF NodesFrom
  <2>2. pc'[Main] # "joined" => pc[Main] # "joined"
    BY <1>1, MainAssumption
  <2> QED BY <1>4, <1>8, <1>13, <2>1, <2>2 DEF Inductive, Chains, CachesAreBounded
<1>16. TailInQueue'
  BY <1>4, <1>5, <1>6, <1>7, <1>8, <1>13 DEF TailInQueue
<1>17. PICK w2, o2 : w2 = [w EXCEPT ![n] = "unlinked"] /\ o2 = [o EXCEPT ![n] = t]
  OBVIOUS
<1>18. /\ w2 \in [Nodes -> Kinds] /\ w2[n] = "unlinked"
       /\ o2 \in [Nodes -> Threads] /\ o2[n] = t
       /\ \A k \in Nodes \ {n} : w2[k] = w[k] /\ o2[k] = o[k]
  BY <1>5, <1>17 DEF Inductive, Kinds
<1>19. Located(w2, o2)'
  <2>1. heap' = {k \in Nodes : w2[k] = "heap"}
    BY <1>4, <1>6, <1>18 DEF Inductive, Located
  <2>2. Reach(next_', QueueStart') = {k \in Nodes : w2[k] = "queue"}
    <3>1. Reach(next_, next[t]) = {k \in Nodes : w2[k] = "queue"}
      BY <1>5, <1>7, <1>8, <1>18
    <3> QED BY <1>4, <1>13, <3>1
  <2>3. ASSUME NEW u \in Threads
        PROVE  /\ Reach(next_', cache_head'[u]) = {k \in Nodes : w2[k] = "cache" /\ o2[k] = u}
               /\ RetiredBy(u)' = {k \in Nodes : w2[k] = "retired" /\ o2[k] = u}
    <3>1. Reach(next_, cache_head[u]) = {k \in Nodes : w[k] = "cache" /\ o[k] = u}
          /\ RetiredBy(u) = {k \in Nodes : w[k] = "retired" /\ o[k] = u}
      BY DEF Inductive, Located
    <3>2. RetiredBy(u)' = RetiredBy(u) /\ Reach(next_', cache_head'[u]) = Reach(next_, cache_head[u])
      BY <1>4 DEF RetiredBy
    <3>3. \A k \in Nodes : /\ w2[k] = "cache" /\ o2[k] = u <=> w[k] = "cache" /\ o[k] = u
                           /\ w2[k] = "retired" /\ o2[k] = u <=> w[k] = "retired" /\ o[k] = u
      BY <1>6, <1>18
    <3> QED BY <3>1, <3>2, <3>3
  <2>4. \A u \in Threads :
           /\ Prepares(u)' <=> Prepares(u)
           /\ pc'[u] = "pop_retire" <=> (u = t \/ pc[u] = "pop_retire")
    BY <1>1, <1>2, <1>4, <1>11 DEF Prepares
  <2>5. ASSUME NEW u \in Threads, Prepares(u)'
        PROVE  node'[u].node \in Nodes /\ w2[node'[u].node] = "prepared"
               /\ o2[node'[u].node] = u
    BY <1>4, <1>6, <1>18, <2>4, <2>5 DEF Inductive, Located
  <2>6. ASSUME NEW u \in Threads, pc'[u] = "pop_retire"
        PROVE  first'[u].node \in Nodes /\ w2[first'[u].node] = "unlinked"
               /\ o2[first'[u].node] = u
    <3>1. CASE u = t
      BY <1>3, <1>4, <1>5, <1>18, <3>1
    <3>2. CASE u # t
      BY <1>4, <1>6, <1>18, <2>4, <2>6, <3>2 DEF Inductive, Located
    <3> QED BY <3>1, <3>2
  <2>7. ASSUME NEW k \in Nodes
        PROVE  /\ w2[k] = "prepared" => Prepares(o2[k])' /\ node'[o2[k]].node = k
               /\ w2[k] = "unlinked" => pc'[o2[k]] = "pop_retire" /\ first'[o2[k]].node = k
    <3>1. CASE k = n
      BY <1>1, <1>3, <1>4, <1>18, <3>1
    <3>2. CASE k # n
      BY <1>4, <1>18, <2>4, <3>2 DEF Inductive, Located
    <3> QED BY <3>1, <3>2
  <2> QED BY <2>1, <2>2, <2>3, <2>5, <2>6, <2>7 DEF Located
<1>20. Fields(w2)'
  BY <1>4, <1>6, <1>18 DEF Inductive, Fields
<1>21. ASSUME NEW u \in Threads
       PROVE  Local(w2, u)'
  <2>1. CASE u = t
    BY <1>1, <2>1 DEF Local
  <2>2. CASE u # t
    <3>1. Keeps(w, w2, u)
      BY <1>4, <1>6, <1>18 DEF Keeps, Protected
    <3>2. SameThread(u)
      BY <1>1, <1>4, <2>2 DEF SameThread
    <3>3. HeadMoves(w2)
      BY <1>3, <1>4, <1>5, <1>18 DEF HeadMoves
    <3> QED BY <1>4, <3>1, <3>2, <3>3, LocalStable DEF Inductive, TailMoves
  <2> QED BY <2>1, <2>2
<1> QED BY <1>10, <1>12, <1>14, <1>15, <1>16, <1>18, <1>19, <1>20, <1>21 DEF Inductive

-----------------------------------------------------------------------------
(* Retiring *)

\* Null is a pointer like any other.
LEMMA NullIsTagged ==
    Null \in TaggedPtr /\ Null.node = NULL
<1>1. 0 \in 0 .. TAG_LIMIT - 1
  BY TagAssumption
<1> QED BY <1>1 DEF Null, Ptr, TaggedPtr

\* A node that was not retired is put at the end of a retire list.
LEMMA RetireEffect ==
    ASSUME NEW w, NEW o, Inductive(w, o), NEW t \in Threads, NEW p \in TaggedPtr,
           p.node \in Nodes, w[p.node] # "retired",
           retire_list' = [retire_list EXCEPT ![t] = Append(@, p)]
    PROVE  /\ retire_list' \in [Threads -> Seq(TaggedPtr)]
           /\ RetiredOnce'
           /\ RetiredBy(t)' = RetiredBy(t) \cup {p.node}
           /\ \A u \in Threads \ {t} : RetiredBy(u)' = RetiredBy(u)
<1>1. retire_list \in [Threads -> Seq(TaggedPtr)] /\ RetiredOnce
  BY DEF Inductive, TypeOK
<1>2. PICK q, q2 : q = retire_list[t] /\ q2 = Append(q, p)
  OBVIOUS
<1>3. /\ q \in Seq(TaggedPtr) /\ Len(q) \in Nat /\ DOMAIN q = 1 .. Len(q)
      /\ q2 \in Seq(TaggedPtr) /\ Len(q2) = Len(q) + 1 /\ DOMAIN q2 = 1 .. Len(q2)
      /\ q2[Len(q) + 1] = p /\ \A k \in 1 .. Len(q) : q2[k] = q[k]
  <2>1. q \in Seq(TaggedPtr)
    BY <1>1, <1>2
  <2> QED BY <1>2, <2>1, AppendProperties
<1>4. retire_list'[t] = q2 /\ \A u \in Threads \ {t} : retire_list'[u] = retire_list[u]
  BY <1>1, <1>2
<1>5. retire_list' \in [Threads -> Seq(TaggedPtr)]
  BY <1>1, <1>3, <1>4
<1>6. RetiredBy(t) = {q[k].node : k \in 1 .. Len(q)} /\ p.node \notin RetiredBy(t)
  <2>1. RetiredBy(t) = {n \in Nodes : w[n] = "retired" /\ o[n] = t}
    BY DEF Inductive, Located
  <2> QED BY <1>2, <1>3, <2>1 DEF RetiredBy
<1>7. RetiredBy(t)' = {q2[k].node : k \in 1 .. Len(q2)}
  BY <1>3, <1>4 DEF RetiredBy
<1>8. \A k \in 1 .. Len(q2) : k \in 1 .. Len(q) \/ k = Len(q) + 1
  BY <1>3
<1>9. (\A k \in 1 .. Len(q) : k \in 1 .. Len(q2)) /\ Len(q) + 1 \in 1 .. Len(q2)
  BY <1>3
<1>10. RetiredBy(t)' = RetiredBy(t) \cup {p.node}
  BY <1>3, <1>6, <1>7, <1>8, <1>9
<1>11. \A u \in Threads \ {t} : RetiredBy(u)' = RetiredBy(u)
  BY <1>4 DEF RetiredBy
<1>12. RetiredOnce'
  <2>1. ASSUME NEW u \in Threads, NEW j \in DOMAIN retire_list'[u],
               NEW k \in DOMAIN retire_list'[u]
        PROVE  /\ retire_list'[u][j].node = retire_list'[u][k].node => j = k
               /\ retire_list'[u][j].node \in Nodes
    <3>1. CASE u # t
      BY <1>1, <1>4, <2>1, <3>1 DEF RetiredOnce
    <3>2. CASE u = t
      <4>1. j \in 1 .. Len(q2) /\ k \in 1 .. Len(q2)
        BY <1>3, <1>4, <3>2
      <4>2. \A a, b \in 1 .. Len(q) : /\ q[a].node = q[b].node => a = b
                                      /\ q[a].node \in Nodes
        <5>1. DOMAIN q = 1 .. Len(q) /\ q = retire_list[t]
          BY <1>2, <1>3
        <5> QED BY <1>1, <5>1 DEF RetiredOnce
      <4>3. \A a \in 1 .. Len(q) : q[a].node # p.node
        BY <1>6
      <4> QED BY <1>3, <1>4, <1>8, <3>2, <4>1, <4>2, <4>3
    <3> QED BY <3>1, <3>2
  <2> QED BY <2>1 DEF RetiredOnce
<1> QED BY <1>5, <1>10, <1>11, <1>12

\* The old dummy moves to the retire list, blocked by every active thread.
LEMMA PopRetireStep ==
    ASSUME NEW w, NEW o, Inductive(w, o), NEW t \in Threads, PopRetire(t)
    PROVE  \E w2, o2 : Inductive(w2, o2)'
<1>1. /\ pc \in [Threads -> Locations]
      /\ pc' = [pc EXCEPT ![t] = "exit"]
      /\ pc'[t] = "exit" /\ pc[t] = "pop_retire"
      /\ \A u \in Threads \ {t} : pc'[u] = pc[u]
      /\ ControlOf(t)
  BY DEF PopRetire, Goto, Inductive, Control
<1>2. op[t] = "pop" /\ done[t]
  BY <1>1 DEF ControlOf
<1>3. PICK n : n = first[t].node
  OBVIOUS
<1>4. /\ retire_list' = [retire_list EXCEPT ![t] = Append(@, first[t])]
      /\ blockers' = [blockers EXCEPT ![n] = active]
      /\ UNCHANGED <<head_, tail_, next_, value_, released_, heap, cache_head, cache_count, active,
                     first, last, next, node, op, done, val>>
  BY <1>3 DEF PopRetire, OldDummy, Retire, memory, cache, pointers, call
<1>5. n \in Nodes /\ w[n] = "unlinked" /\ o[n] = t /\ first[t] \in TaggedPtr
  BY <1>1, <1>3 DEF Inductive, Located, TypeOK
<1>6. /\ retire_list' \in [Threads -> Seq(TaggedPtr)]
      /\ RetiredOnce'
      /\ RetiredBy(t)' = RetiredBy(t) \cup {n}
      /\ \A u \in Threads \ {t} : RetiredBy(u)' = RetiredBy(u)
  <2>1. first[t].node \in Nodes /\ w[first[t].node] # "retired"
    BY <1>3, <1>5
  <2>2. retire_list' = [retire_list EXCEPT ![t] = Append(@, first[t])]
    BY <1>4
  <2>3. first[t] \in TaggedPtr
    BY <1>5
  <2>4. /\ retire_list' \in [Threads -> Seq(TaggedPtr)]
        /\ RetiredOnce'
        /\ RetiredBy(t)' = RetiredBy(t) \cup {first[t].node}
        /\ \A u \in Threads \ {t} : RetiredBy(u)' = RetiredBy(u)
    BY <2>1, <2>2, <2>3, RetireEffect
  <2> QED BY <1>3, <2>4
<1>7. TypeOK'
  BY <1>4, <1>5, <1>6 DEF Inductive, TypeOK
<1>8. head_ # Null /\ ~Destroyed /\ pc[Main] # "destroy" /\ QueueStart = head_
  BY <1>2, InOperation
<1>9. Control'
  <2>1. ControlOf(t)'
    BY <1>1, <1>2, <1>4 DEF ControlOf, Region
  <2>2. Destroyed' <=> Destroyed
    BY <1>1, <1>2, <1>4, <1>8, MainAssumption DEF Destroyed
  <2>3. pc'[Main] = "destroy" <=> pc[Main] = "destroy"
    BY <1>1, MainAssumption
  <2> QED BY <1>1, <1>4, <1>8, <2>1, <2>2, <2>3, ControlStable
          DEF Inductive, Locations, Region
<1>10. QueueStart' = QueueStart /\ pc'[Main] # "destroy"
  BY <1>1, <1>4, <1>8, MainAssumption DEF QueueStart
<1>11. Chains'
  <2>1. \A u \in Threads : NodesFrom(cache_head[u])' = NodesFrom(cache_head[u])
    BY <1>4 DEF NodesFrom
  <2>2. pc'[Main] # "joined" => pc[Main] # "joined"
    BY <1>1, MainAssumption
  <2> QED BY <1>4, <1>10, <2>1, <2>2 DEF Inductive, Chains, CachesAreBounded
<1>12. TailInQueue'
  BY <1>4, <1>8, <1>10 DEF Inductive, TailInQueue
<1>13. PICK w2 : w2 = [w EXCEPT ![n] = "retired"]
  OBVIOUS
<1>14. /\ w2 \in [Nodes -> Kinds] /\ w2[n] = "retired"
       /\ \A k \in Nodes \ {n} : w2[k] = w[k]
  BY <1>5, <1>13 DEF Inductive, Kinds
<1>15. Located(w2, o)'
  <2>1. heap' = {k \in Nodes : w2[k] = "heap"}
    BY <1>4, <1>5, <1>14 DEF Inductive, Located
  <2>2. Reach(next_', QueueStart') = {k \in Nodes : w2[k] = "queue"}
    <3>1. Reach(next_, QueueStart) = {k \in Nodes : w[k] = "queue"}
      BY DEF Inductive, Located
    <3>2. \A k \in Nodes : w2[k] = "queue" <=> w[k] = "queue"
      BY <1>5, <1>14
    <3> QED BY <1>4, <1>10, <3>1, <3>2
  <2>3. ASSUME NEW u \in Threads
        PROVE  /\ Reach(next_', cache_head'[u]) = {k \in Nodes : w2[k] = "cache" /\ o[k] = u}
               /\ RetiredBy(u)' = {k \in Nodes : w2[k] = "retired" /\ o[k] = u}
    <3>1. Reach(next_, cache_head[u]) = {k \in Nodes : w[k] = "cache" /\ o[k] = u}
          /\ RetiredBy(u) = {k \in Nodes : w[k] = "retired" /\ o[k] = u}
      BY DEF Inductive, Located
    <3>2. Reach(next_', cache_head'[u]) = Reach(next_, cache_head[u])
      BY <1>4
    <3>3. \A k \in Nodes :
             /\ w2[k] = "cache" /\ o[k] = u <=> w[k] = "cache" /\ o[k] = u
             /\ w2[k] = "retired" /\ o[k] = u <=> (w[k] = "retired" /\ o[k] = u) \/ (k = n /\ u = t)
      BY <1>5, <1>14
    <3>4. RetiredBy(u)' = {k \in Nodes : k \in RetiredBy(u) \/ (k = n /\ u = t)}
      BY <1>5, <1>6, <3>1
    <3> QED BY <3>1, <3>2, <3>3, <3>4
  <2>4. \A u \in Threads :
           /\ Prepares(u)' <=> Prepares(u)
           /\ pc'[u] = "pop_retire" <=> (u # t /\ pc[u] = "pop_retire")
    BY <1>1, <1>4 DEF Prepares
  <2>5. ASSUME NEW u \in Threads, Prepares(u)'
        PROVE  node'[u].node \in Nodes /\ w2[node'[u].node] = "prepared"
               /\ o[node'[u].node] = u
    BY <1>4, <1>5, <1>14, <2>4, <2>5 DEF Inductive, Located
  <2>6. ASSUME NEW u \in Threads, pc'[u] = "pop_retire"
        PROVE  first'[u].node \in Nodes /\ w2[first'[u].node] = "unlinked"
               /\ o[first'[u].node] = u
    BY <1>4, <1>5, <1>14, <2>4, <2>6 DEF Inductive, Located
  <2>7. ASSUME NEW k \in Nodes
        PROVE  /\ w2[k] = "prepared" => Prepares(o[k])' /\ node'[o[k]].node = k
               /\ w2[k] = "unlinked" => pc'[o[k]] = "pop_retire" /\ first'[o[k]].node = k
    <3>1. CASE k = n
      BY <1>14, <3>1
    <3>2. CASE k # n
      BY <1>3, <1>4, <1>14, <2>4, <3>2 DEF Inductive, Located
    <3> QED BY <3>1, <3>2
  <2> QED BY <2>1, <2>2, <2>3, <2>5, <2>6, <2>7 DEF Located
<1>16. Fields(w2)'
  BY <1>4, <1>5, <1>14 DEF Inductive, Fields
<1>17. ASSUME NEW u \in Threads
       PROVE  Local(w2, u)'
  <2>1. CASE u = t
    BY <1>1, <2>1 DEF Local
  <2>2. CASE u # t /\ pc[u] \notin Region
    BY <1>1, <2>2 DEF Local, Region
  <2>3. CASE u # t /\ pc[u] \in Region
    <3>1. u \in active
      BY <2>3 DEF Inductive, Control, ControlOf
    <3>2. u \in blockers'[n] /\ \A k \in Nodes \ {n} : blockers'[k] = blockers[k]
      BY <1>4, <1>5, <3>1 DEF Inductive, TypeOK
    <3>3. Keeps(w, w2, u)
      BY <1>4, <1>5, <1>14, <3>2 DEF Keeps, Protected
    <3>4. SameThread(u)
      BY <1>1, <1>4, <2>3 DEF SameThread
    <3> QED BY <1>4, <3>3, <3>4, LocalStable DEF Inductive, HeadMoves, TailMoves
  <2> QED BY <2>1, <2>2, <2>3
<1> QED BY <1>6, <1>7, <1>9, <1>11, <1>12, <1>14, <1>15, <1>16, <1>17 DEF Inductive

-----------------------------------------------------------------------------
(* Releasing *)

\* The node at the front of a retire list is taken off it.
LEMMA UnretireEffect ==
    ASSUME NEW w, NEW o, Inductive(w, o), NEW s \in Threads, retire_list[s] # <<>>,
           retire_list' = [retire_list EXCEPT ![s] = Tail(@)]
    PROVE  LET p == Head(retire_list[s])
           IN  /\ p \in TaggedPtr /\ p.node \in Nodes
               /\ w[p.node] = "retired" /\ o[p.node] = s
               /\ retire_list' \in [Threads -> Seq(TaggedPtr)]
               /\ RetiredOnce'
               /\ RetiredBy(s)' = RetiredBy(s) \ {p.node}
               /\ \A u \in Threads \ {s} : RetiredBy(u)' = RetiredBy(u)
<1>1. retire_list \in [Threads -> Seq(TaggedPtr)] /\ RetiredOnce
  BY DEF Inductive, TypeOK
<1>2. PICK q, q2, p : q = retire_list[s] /\ q2 = Tail(q) /\ p = Head(q)
  OBVIOUS
<1>3. q \in Seq(TaggedPtr) /\ q # <<>>
  BY <1>1, <1>2
<1>4. /\ Len(q) \in Nat /\ Len(q) >= 1 /\ DOMAIN q = 1 .. Len(q)
      /\ q2 \in Seq(TaggedPtr) /\ Len(q2) = Len(q) - 1 /\ DOMAIN q2 = 1 .. Len(q2)
      /\ p = q[1] /\ p \in TaggedPtr /\ 1 \in 1 .. Len(q)
      /\ \A k \in 1 .. Len(q2) : q2[k] = q[k + 1]
  <2>1. p = q[1] /\ p \in TaggedPtr
    BY <1>2, <1>3, HeadTailProperties
  <2>2. q2 \in Seq(TaggedPtr) /\ Len(q2) = Len(q) - 1 /\ \A k \in 1 .. Len(q2) : q2[k] = q[k + 1]
    BY <1>2, <1>3, HeadTailProperties
  <2>3. Len(q) \in Nat /\ Len(q) >= 1 /\ DOMAIN q = 1 .. Len(q)
    BY <1>3, EmptySeq
  <2> QED BY <2>1, <2>2, <2>3
<1>5. retire_list'[s] = q2 /\ \A u \in Threads \ {s} : retire_list'[u] = retire_list[u]
  BY <1>1, <1>2
<1>6. retire_list' \in [Threads -> Seq(TaggedPtr)]
  BY <1>1, <1>4, <1>5
<1>7. \A a, b \in 1 .. Len(q) : (q[a].node = q[b].node => a = b) /\ q[a].node \in Nodes
  BY <1>1, <1>2, <1>4 DEF RetiredOnce
<1>8. \A k \in 1 .. Len(q2) : k + 1 \in 1 .. Len(q) /\ k + 1 # 1
  BY <1>4
<1>9. \A k \in 1 .. Len(q) : k # 1 => k - 1 \in 1 .. Len(q2) /\ q2[k - 1] = q[k]
  <2>1. ASSUME NEW k \in 1 .. Len(q), k # 1
        PROVE  k - 1 \in 1 .. Len(q2) /\ (k - 1) + 1 = k
    BY <1>4, <2>1
  <2> QED BY <2>1, <1>4
<1>10. RetiredBy(s) = {q[k].node : k \in 1 .. Len(q)}
  BY <1>2, <1>4 DEF RetiredBy
<1>11. RetiredBy(s)' = {q2[k].node : k \in 1 .. Len(q2)}
  BY <1>4, <1>5 DEF RetiredBy
<1>12. RetiredBy(s)' = RetiredBy(s) \ {p.node}
  <2>1. ASSUME NEW k \in 1 .. Len(q2)
        PROVE  q2[k].node \in RetiredBy(s) \ {p.node}
    BY <1>4, <1>7, <1>8, <1>10
  <2>2. ASSUME NEW k \in 1 .. Len(q), q[k].node # p.node
        PROVE  q[k].node \in RetiredBy(s)'
    BY <1>4, <1>9, <1>11, <2>2
  <2> QED BY <1>10, <1>11, <2>1, <2>2
<1>13. \A u \in Threads \ {s} : RetiredBy(u)' = RetiredBy(u)
  BY <1>5 DEF RetiredBy
<1>14. p.node \in Nodes /\ w[p.node] = "retired" /\ o[p.node] = s
  <2>1. p.node \in RetiredBy(s)
    BY <1>4, <1>10
  <2> QED BY <2>1 DEF Inductive, Located
<1>15. RetiredOnce'
  <2>1. ASSUME NEW u \in Threads, NEW j \in DOMAIN retire_list'[u],
               NEW k \in DOMAIN retire_list'[u]
        PROVE  /\ retire_list'[u][j].node = retire_list'[u][k].node => j = k
               /\ retire_list'[u][j].node \in Nodes
    <3>1. CASE u # s
      BY <1>1, <1>5, <2>1, <3>1 DEF RetiredOnce
    <3>2. CASE u = s
      <4>1. j \in 1 .. Len(q2) /\ k \in 1 .. Len(q2) /\ j \in Int /\ k \in Int
        BY <1>4, <1>5, <3>2
      <4>2. q[j + 1].node = q[k + 1].node => j + 1 = k + 1
        BY <1>7, <1>8, <4>1
      <4>3. retire_list'[u][j] = q[j + 1] /\ retire_list'[u][k] = q[k + 1]
        BY <1>4, <1>5, <3>2, <4>1
      <4>4. q[j + 1].node \in Nodes
        BY <1>7, <1>8, <4>1
      <4>5. j + 1 = k + 1 => j = k
        BY <4>1
      <4> QED BY <4>2, <4>3, <4>4, <4>5
    <3> QED BY <3>1, <3>2
  <2> QED BY <2>1 DEF RetiredOnce
<1> QED BY <1>2, <1>4, <1>6, <1>12, <1>13, <1>14, <1>15

\* The node goes to the front of the cache; a full cache gives a batch back.
LEMMA ReleaseEffect ==
    ASSUME NEW w, NEW o, Inductive(w, o), NEW t \in Threads, pc[Main] # "joined",
           NEW p \in TaggedPtr, p.node \in Nodes, w[p.node] = "retired", Release(t, p)
    PROVE  /\ next_' \in [Nodes -> TaggedPtr]
           /\ \A m \in Nodes \ {p.node} : next_'[m] = next_[m]
           /\ cache_head' \in [Threads -> TaggedPtr]
           /\ cache_count' \in [Threads -> 0 .. CACHE_COUNT]
           /\ \A u \in Threads : /\ IsChain(next_', cache_head'[u])
                                 /\ cache_count'[u] = Cardinality(Reach(next_', cache_head'[u]))
                                 /\ cache_count'[u] < CACHE_COUNT
           /\ \A u \in Threads \ {t} : Reach(next_', cache_head'[u]) = Reach(next_, cache_head[u])
           /\ heap \subseteq heap'
           /\ heap' \subseteq heap \cup Reach(next_, cache_head[t]) \cup {p.node}
           /\ Reach(next_', cache_head'[t]) = (Reach(next_, cache_head[t]) \cup {p.node}) \ heap'
<1>1. /\ next_ \in [Nodes -> TaggedPtr]
      /\ cache_head \in [Threads -> TaggedPtr]
      /\ cache_count \in [Threads -> 0 .. CACHE_COUNT]
      /\ CACHE_COUNT \in Nat /\ BATCH_COUNT \in 1 .. CACHE_COUNT
  BY CacheAssumption DEF Inductive, TypeOK
<1>2. PICK nx, c, n, h : /\ nx = [next_ EXCEPT ![p.node] = cache_head[t]]
                         /\ c = Chain(nx, p)
                         /\ n = p.node
                         /\ h = cache_head[t]
  OBVIOUS
<1>3. nx \in [Nodes -> TaggedPtr] /\ nx[n] = h /\ h \in TaggedPtr
      /\ \A m \in Nodes \ {n} : nx[m] = next_[m]
  BY <1>1, <1>2
<1>4. next_' = nx
  BY <1>2 DEF Release
<1>5. \A u \in Threads :
         /\ IsChain(next_, cache_head[u])
         /\ n \notin Reach(next_, cache_head[u])
         /\ Reach(next_, cache_head[u]) \subseteq Nodes
         /\ cache_count[u] = Cardinality(Reach(next_, cache_head[u]))
         /\ cache_count[u] < CACHE_COUNT
  <2>1. ASSUME NEW u \in Threads
        PROVE  n \notin Reach(next_, cache_head[u]) /\ IsChain(next_, cache_head[u])
    BY <1>2 DEF Inductive, Located, Chains
  <2>2. \A u \in Threads : /\ cache_count[u] = Cardinality(NodesFrom(cache_head[u]))
                           /\ cache_count[u] < CACHE_COUNT
    BY DEF Inductive, Chains, CachesAreBounded
  <2>3. \A u \in Threads : NodesFrom(cache_head[u]) = Reach(next_, cache_head[u])
    BY DEF NodesFrom, Reach
  <2> QED BY <2>1, <2>2, <2>3, ReachBasics
<1>6. \A u \in Threads : /\ IsChain(nx, cache_head[u])
                         /\ Reach(nx, cache_head[u]) = Reach(next_, cache_head[u])
  <2>1. ASSUME NEW u \in Threads
        PROVE  /\ IsChain(nx, cache_head[u])
               /\ Reach(nx, cache_head[u]) = Reach(next_, cache_head[u])
    <3>1. \A m \in Reach(next_, cache_head[u]) : nx[m] = next_[m]
      BY <1>3, <1>5
    <3> QED BY <1>3, <1>5, <3>1, ReachFrame
  <2> QED BY <2>1
<1>7. PICK R, k : R = Reach(next_, h) /\ k = cache_count[t]
  OBVIOUS
<1>8. R \subseteq Nodes /\ n \notin R /\ k = Cardinality(R) /\ k \in Nat /\ k < CACHE_COUNT
  BY <1>1, <1>2, <1>5, <1>7
<1>9. IsChain(nx, p) /\ Reach(nx, p) = R \cup {n} /\ Cardinality(Reach(nx, p)) = k + 1
  <2>1. IsChain(nx, h) /\ Reach(nx, h) = R
    BY <1>2, <1>6, <1>7
  <2>2. p.node \in Nodes \ Reach(nx, h) /\ nx[p.node].node = h.node
    BY <1>2, <1>3, <1>8, <2>1
  <2>3. /\ IsChain(nx, p)
        /\ Reach(nx, p) = Reach(nx, h) \cup {p.node}
        /\ Cardinality(Reach(nx, p)) = Cardinality(Reach(nx, h)) + 1
    BY <2>1, <2>2, ReachCons
  <2> QED BY <1>2, <1>8, <2>1, <2>3
<1>10. \A u \in Threads \ {t} : cache_head'[u] = cache_head[u] /\ cache_count'[u] = cache_count[u]
  BY <1>1 DEF Release
<1>11. \A u \in Threads \ {t} : /\ IsChain(next_', cache_head'[u])
                                /\ cache_count'[u] = Cardinality(Reach(next_', cache_head'[u]))
                                /\ cache_count'[u] < CACHE_COUNT
                                /\ Reach(next_', cache_head'[u]) = Reach(next_, cache_head[u])
  BY <1>4, <1>5, <1>6, <1>10
<1>14. (R \cup {n}) \cap heap = {}
  <2>1. \A m \in R : w[m] = "cache" /\ m \in Nodes
    BY <1>2, <1>7 DEF Inductive, Located
  <2> QED BY <1>2, <1>8, <2>1 DEF Inductive, Located
<1>12. CASE ~CacheIsFull(k + 1)
  <2>1. /\ cache_head' = [cache_head EXCEPT ![t] = p]
        /\ cache_count' = [cache_count EXCEPT ![t] = k + 1]
        /\ heap' = heap
    BY <1>7, <1>12 DEF Release
  <2>2. k + 1 < CACHE_COUNT /\ k + 1 \in 0 .. CACHE_COUNT
    BY <1>1, <1>8, <1>12 DEF CacheIsFull
  <2>3. cache_head'[t] = p /\ cache_count'[t] = k + 1
    BY <1>1, <2>1
  <2>4. /\ IsChain(next_', cache_head'[t])
        /\ cache_count'[t] = Cardinality(Reach(next_', cache_head'[t]))
        /\ cache_count'[t] < CACHE_COUNT
        /\ Reach(next_', cache_head'[t]) = R \cup {n}
    BY <1>4, <1>9, <2>2, <2>3
  <2>6. /\ cache_head' \in [Threads -> TaggedPtr]
        /\ cache_count' \in [Threads -> 0 .. CACHE_COUNT]
    BY <1>1, <2>1, <2>2
  <2>7. /\ heap \subseteq heap'
        /\ heap' \subseteq heap \cup R \cup {n}
        /\ Reach(next_', cache_head'[t]) = (R \cup {n}) \ heap'
    BY <1>14, <2>1, <2>4
  <2> QED BY <1>2, <1>3, <1>4, <1>7, <1>11, <2>4, <2>6, <2>7
<1>13. CASE CacheIsFull(k + 1)
  <2>1. k + 1 = CACHE_COUNT
    BY <1>1, <1>8, <1>13 DEF CacheIsFull
  <2>2. PICK B : B = {c[i].node : i \in 0 .. BATCH_COUNT - 1}
    OBVIOUS
  <2>3. /\ cache_head' = [cache_head EXCEPT ![t] = c[BATCH_COUNT]]
        /\ cache_count' = [cache_count EXCEPT ![t] = (k + 1) - BATCH_COUNT]
        /\ heap' = heap \cup B
    <3>1. CacheIsFull(cache_count[t] + 1)
      BY <1>7, <1>13
    <3>2. cache_head' = [cache_head EXCEPT ![t] = c[BATCH_COUNT]]
      BY <1>2, <3>1 DEF Release, AfterBatch
    <3>3. cache_count' = [cache_count EXCEPT ![t] = (k + 1) - BATCH_COUNT]
      <4>1. cache_count' = [cache_count EXCEPT ![t] = (cache_count[t] + 1) - BATCH_COUNT]
        BY <3>1, Zenon DEF Release
      <4> QED BY <1>7, <4>1
    <3>4. heap' = heap \cup B
      BY <1>2, <2>2, <3>1 DEF Release
    <3> QED BY <3>2, <3>3, <3>4
  <2>4. /\ c[BATCH_COUNT] \in TaggedPtr
        /\ IsChain(nx, c[BATCH_COUNT])
        /\ B \subseteq Reach(nx, p)
        /\ Reach(nx, c[BATCH_COUNT]) = Reach(nx, p) \ B
        /\ Cardinality(Reach(nx, c[BATCH_COUNT])) = Cardinality(Reach(nx, p)) - BATCH_COUNT
    <3>1. BATCH_COUNT \in Nat /\ BATCH_COUNT <= Cardinality(Reach(nx, p))
      BY <1>1, <1>8, <1>9, <2>1
    <3>2. /\ Chain(nx, p)[BATCH_COUNT] \in TaggedPtr
          /\ IsChain(nx, Chain(nx, p)[BATCH_COUNT])
          /\ {Chain(nx, p)[i].node : i \in 0 .. BATCH_COUNT - 1} \subseteq Reach(nx, p)
          /\ Reach(nx, Chain(nx, p)[BATCH_COUNT])
                = Reach(nx, p) \ {Chain(nx, p)[i].node : i \in 0 .. BATCH_COUNT - 1}
          /\ Cardinality(Reach(nx, Chain(nx, p)[BATCH_COUNT]))
                = Cardinality(Reach(nx, p)) - BATCH_COUNT
      BY <1>9, <3>1, ReachDrop
    <3>3. c = Chain(nx, p) /\ B = {Chain(nx, p)[i].node : i \in 0 .. BATCH_COUNT - 1}
      BY <1>2, <2>2
    <3> QED BY <3>2, <3>3
  <2>5. (k + 1) - BATCH_COUNT \in 0 .. CACHE_COUNT /\ (k + 1) - BATCH_COUNT < CACHE_COUNT
    BY <1>1, <1>8, <2>1
  <2>6. cache_head'[t] = c[BATCH_COUNT] /\ cache_count'[t] = (k + 1) - BATCH_COUNT
    BY <1>1, <2>3
  <2>7. /\ IsChain(next_', cache_head'[t])
        /\ cache_count'[t] = Cardinality(Reach(next_', cache_head'[t]))
        /\ cache_count'[t] < CACHE_COUNT
        /\ Reach(next_', cache_head'[t]) = (R \cup {n}) \ B
    <3>1. Cardinality(Reach(nx, c[BATCH_COUNT])) = (k + 1) - BATCH_COUNT
      <4>1. Cardinality(Reach(nx, c[BATCH_COUNT])) = Cardinality(Reach(nx, p)) - BATCH_COUNT
        BY <2>4
      <4>2. Cardinality(Reach(nx, p)) = k + 1
        BY <1>9
      <4> QED BY <4>1, <4>2, Zenon
    <3>2. Reach(nx, c[BATCH_COUNT]) = (R \cup {n}) \ B
      BY <1>9, <2>4
    <3>3. cache_count'[t] = Cardinality(Reach(nx, c[BATCH_COUNT])) /\ cache_count'[t] < CACHE_COUNT
      BY <2>5, <2>6, <3>1
    <3> QED BY <1>4, <2>4, <2>6, <3>2, <3>3
  <2>8. /\ cache_head' \in [Threads -> TaggedPtr]
        /\ cache_count' \in [Threads -> 0 .. CACHE_COUNT]
    BY <1>1, <2>3, <2>4, <2>5
  <2>9. /\ heap \subseteq heap'
        /\ heap' \subseteq heap \cup R \cup {n}
        /\ Reach(next_', cache_head'[t]) = (R \cup {n}) \ heap'
    BY <1>9, <1>14, <2>3, <2>4, <2>7
  <2> QED BY <1>2, <1>3, <1>4, <1>7, <1>11, <2>7, <2>8, <2>9
<1> QED BY <1>12, <1>13

\* A retired node that nobody in a region may still hold goes to t's cache.
LEMMA ReleaseStep ==
    ASSUME NEW w, NEW o, Inductive(w, o), NEW t \in Threads, NEW s \in Threads,
           retire_list[s] # <<>>, Release(t, Head(retire_list[s])),
           retire_list' = [retire_list EXCEPT ![s] = Tail(@)],
           pc[Main] # "joined",
           \A u \in Threads : pc[u] \in Region => u \notin blockers[Head(retire_list[s]).node],
           UNCHANGED <<head_, tail_, active, blockers, pc, pointers, call>>
    PROVE  \E w2, o2 : Inductive(w2, o2)'
<1>1. PICK p, n : p = Head(retire_list[s]) /\ n = p.node
  OBVIOUS
<1>2. /\ p \in TaggedPtr /\ n \in Nodes
      /\ w[n] = "retired" /\ o[n] = s
      /\ retire_list' \in [Threads -> Seq(TaggedPtr)]
      /\ RetiredOnce'
      /\ RetiredBy(s)' = RetiredBy(s) \ {n}
      /\ \A u \in Threads \ {s} : RetiredBy(u)' = RetiredBy(u)
  <2>1. LET r == Head(retire_list[s])
        IN  /\ r \in TaggedPtr /\ r.node \in Nodes
            /\ w[r.node] = "retired" /\ o[r.node] = s
            /\ retire_list' \in [Threads -> Seq(TaggedPtr)]
            /\ RetiredOnce'
            /\ RetiredBy(s)' = RetiredBy(s) \ {r.node}
            /\ \A u \in Threads \ {s} : RetiredBy(u)' = RetiredBy(u)
    BY UnretireEffect
  <2> QED BY <1>1, <2>1
<1>3. /\ next_' \in [Nodes -> TaggedPtr]
      /\ \A m \in Nodes \ {n} : next_'[m] = next_[m]
      /\ cache_head' \in [Threads -> TaggedPtr]
      /\ cache_count' \in [Threads -> 0 .. CACHE_COUNT]
      /\ \A u \in Threads : /\ IsChain(next_', cache_head'[u])
                            /\ cache_count'[u] = Cardinality(Reach(next_', cache_head'[u]))
                            /\ cache_count'[u] < CACHE_COUNT
      /\ \A u \in Threads \ {t} : Reach(next_', cache_head'[u]) = Reach(next_, cache_head[u])
      /\ heap \subseteq heap'
      /\ heap' \subseteq heap \cup Reach(next_, cache_head[t]) \cup {n}
      /\ Reach(next_', cache_head'[t]) = (Reach(next_, cache_head[t]) \cup {n}) \ heap'
  <2>1. p \in TaggedPtr /\ p.node \in Nodes /\ w[p.node] = "retired" /\ Release(t, p)
    BY <1>1, <1>2
  <2>2. /\ next_' \in [Nodes -> TaggedPtr]
        /\ \A m \in Nodes \ {p.node} : next_'[m] = next_[m]
    BY <2>1, ReleaseEffect
  <2>3. cache_head' \in [Threads -> TaggedPtr]
    BY <2>1, ReleaseEffect
  <2>4. cache_count' \in [Threads -> 0 .. CACHE_COUNT]
    BY <2>1, ReleaseEffect
  <2>5. \A u \in Threads : IsChain(next_', cache_head'[u])
    BY <2>1, ReleaseEffect
  <2>6. \A u \in Threads : /\ cache_count'[u] = Cardinality(Reach(next_', cache_head'[u]))
                           /\ cache_count'[u] < CACHE_COUNT
    BY <2>1, ReleaseEffect
  <2>7. \A u \in Threads \ {t} : Reach(next_', cache_head'[u]) = Reach(next_, cache_head[u])
    BY <2>1, ReleaseEffect
  <2>8. heap \subseteq heap'
    BY <2>1, ReleaseEffect
  <2>9. heap' \subseteq heap \cup Reach(next_, cache_head[t]) \cup {p.node}
    BY <2>1, ReleaseEffect
  <2>10. Reach(next_', cache_head'[t]) = (Reach(next_, cache_head[t]) \cup {p.node}) \ heap'
    BY <2>1, ReleaseEffect
  <2> QED BY <1>1, <2>2, <2>3, <2>4, <2>5, <2>6, <2>7, <2>8, <2>9, <2>10
<1>4. PICK B : B = heap' \ heap
  OBVIOUS
<1>5. released_' = [released_ EXCEPT ![n] = TRUE] /\ value_' = value_
  BY <1>1 DEF Release
<1>6. UNCHANGED <<head_, tail_, active, blockers, pc, first, last, next, node, op, done, val>>
  BY DEF pointers, call
<1>7. heap \subseteq Nodes /\ heap = {k \in Nodes : w[k] = "heap"}
  BY DEF Inductive, TypeOK, Located
<1>8. \A u \in Threads :
         /\ Reach(next_, cache_head[u]) = {k \in Nodes : w[k] = "cache" /\ o[k] = u}
         /\ RetiredBy(u) = {k \in Nodes : w[k] = "retired" /\ o[k] = u}
  BY DEF Inductive, Located
<1>9. \A k \in B : k \in Nodes /\ (k = n \/ (w[k] = "cache" /\ o[k] = t))
  BY <1>2, <1>3, <1>4, <1>8
<1>22. /\ heap' = heap \cup B
       /\ Reach(next_', cache_head'[t]) = (Reach(next_, cache_head[t]) \cup {n}) \ B
  <2>1. Reach(next_, cache_head[t]) \cap heap = {} /\ n \notin heap
    BY <1>2, <1>7, <1>8
  <2> QED BY <1>3, <1>4, <2>1
<1>10. TypeOK'
  <2>1. heap' \subseteq Nodes
    BY <1>7, <1>9, <1>22
  <2>2. released_' \in [Nodes -> BOOLEAN]
    BY <1>5 DEF Inductive, TypeOK
  <2> QED BY <1>2, <1>3, <1>5, <1>6, <2>1, <2>2 DEF Inductive, TypeOK
<1>11. Control'
  BY <1>6 DEF Inductive, Control, ControlOf, Destroyed, OthersJoined
<1>12. QueueStart' = QueueStart /\ pc'[Main] = pc[Main]
  BY <1>6 DEF QueueStart
<1>13. /\ IsChain(next_', QueueStart')
       /\ Reach(next_', QueueStart') = Reach(next_, QueueStart)
       /\ TailInQueue'
  BY <1>2, <1>3, <1>6, <1>12, QueueUntouched
<1>14. Chains'
  <2>1. \A u \in Threads : NodesFrom(cache_head[u])' = Reach(next_', cache_head'[u])
    BY DEF NodesFrom, Reach
  <2> QED BY <1>3, <1>13, <2>1 DEF Chains, CachesAreBounded
<1>15. PICK w2, o2 : /\ w2 = [k \in Nodes |-> IF k \in B THEN "heap"
                                              ELSE IF k = n THEN "cache" ELSE w[k]]
                     /\ o2 = [o EXCEPT ![n] = t]
  OBVIOUS
<1>16. /\ w2 \in [Nodes -> Kinds] /\ o2 \in [Nodes -> Threads]
       /\ o2[n] = t /\ \A k \in Nodes \ {n} : o2[k] = o[k]
       /\ \A k \in Nodes : /\ k \in B => w2[k] = "heap"
                           /\ k \notin B /\ k = n => w2[k] = "cache"
                           /\ k \notin B /\ k # n => w2[k] = w[k]
  BY <1>2, <1>15 DEF Inductive, Kinds
<1>17. \A k \in Nodes : w2[k] \notin {"heap", "cache"} => w2[k] = w[k] /\ k # n
  BY <1>16
<1>18. \A k \in Nodes : w[k] \notin {"heap", "cache"} /\ k # n => w2[k] = w[k] /\ o2[k] = o[k]
  BY <1>9, <1>16
<1>19. Located(w2, o2)'
  <2>1. heap' = {k \in Nodes : w2[k] = "heap"}
    <3>1. ASSUME NEW k \in Nodes
          PROVE  w2[k] = "heap" <=> w[k] = "heap" \/ k \in B
      BY <1>2, <1>9, <1>16
    <3> QED BY <1>7, <1>9, <1>22, <3>1
  <2>2. Reach(next_', QueueStart') = {k \in Nodes : w2[k] = "queue"}
    <3>1. Reach(next_, QueueStart) = {k \in Nodes : w[k] = "queue"}
      BY DEF Inductive, Located
    <3>2. \A k \in Nodes : w2[k] = "queue" <=> w[k] = "queue"
      BY <1>2, <1>17, <1>18
    <3> QED BY <1>13, <3>1, <3>2
  <2>3. ASSUME NEW u \in Threads
        PROVE  Reach(next_', cache_head'[u]) = {k \in Nodes : w2[k] = "cache" /\ o2[k] = u}
    <3>1. CASE u = t
      <4>1. ASSUME NEW k \in Nodes
            PROVE  w2[k] = "cache" /\ o2[k] = t
                      <=> k \notin B /\ (k = n \/ (w[k] = "cache" /\ o[k] = t))
        BY <1>9, <1>16
      <4> QED BY <1>2, <1>8, <1>22, <3>1, <4>1
    <3>2. CASE u # t
      <4>1. ASSUME NEW k \in Nodes
            PROVE  w2[k] = "cache" /\ o2[k] = u <=> w[k] = "cache" /\ o[k] = u
        BY <1>2, <1>9, <1>16, <3>2
      <4> QED BY <1>3, <1>8, <3>2, <4>1
    <3> QED BY <3>1, <3>2
  <2>4. ASSUME NEW u \in Threads
        PROVE  RetiredBy(u)' = {k \in Nodes : w2[k] = "retired" /\ o2[k] = u}
    <3>1. ASSUME NEW k \in Nodes
          PROVE  w2[k] = "retired" /\ o2[k] = u <=> w[k] = "retired" /\ o[k] = u /\ k # n
      BY <1>16, <1>17, <1>18
    <3>2. RetiredBy(u)' = RetiredBy(u) \ {n}
      BY <1>2, <1>8
    <3> QED BY <1>8, <3>1, <3>2
  <2>5. \A u \in Threads :
           /\ Prepares(u)' <=> Prepares(u)
           /\ pc'[u] = "pop_retire" <=> pc[u] = "pop_retire"
    BY <1>6 DEF Prepares
  <2>6. ASSUME NEW u \in Threads, Prepares(u)'
        PROVE  node'[u].node \in Nodes /\ w2[node'[u].node] = "prepared"
               /\ o2[node'[u].node] = u
    <3>1. /\ node[u].node \in Nodes /\ w[node[u].node] = "prepared" /\ o[node[u].node] = u
          /\ node'[u].node = node[u].node
      BY <1>6, <2>5, <2>6 DEF Inductive, Located
    <3> QED BY <1>2, <1>18, <3>1
  <2>7. ASSUME NEW u \in Threads, pc'[u] = "pop_retire"
        PROVE  first'[u].node \in Nodes /\ w2[first'[u].node] = "unlinked"
               /\ o2[first'[u].node] = u
    <3>1. /\ first[u].node \in Nodes /\ w[first[u].node] = "unlinked" /\ o[first[u].node] = u
          /\ first'[u].node = first[u].node
      BY <1>6, <2>5, <2>7 DEF Inductive, Located
    <3> QED BY <1>2, <1>18, <3>1
  <2>8. ASSUME NEW k \in Nodes
        PROVE  /\ w2[k] = "prepared" => Prepares(o2[k])' /\ node'[o2[k]].node = k
               /\ w2[k] = "unlinked" => pc'[o2[k]] = "pop_retire" /\ first'[o2[k]].node = k
    <3>1. SUFFICES ASSUME w2[k] \in {"prepared", "unlinked"}
                   PROVE  /\ w2[k] = "prepared" => Prepares(o2[k])' /\ node'[o2[k]].node = k
                          /\ w2[k] = "unlinked" => pc'[o2[k]] = "pop_retire" /\ first'[o2[k]].node = k
      OBVIOUS
    <3>2. w2[k] = w[k] /\ o2[k] = o[k] /\ o[k] \in Threads
      BY <1>16, <1>17, <3>1 DEF Inductive
    <3> QED BY <1>6, <2>5, <3>2 DEF Inductive, Located
  <2> QED BY <2>1, <2>2, <2>3, <2>4, <2>6, <2>7, <2>8 DEF Located
<1>20. Fields(w2)'
  <2>1. ASSUME NEW k \in Nodes, w2[k] \in {"queue", "retired", "prepared", "unlinked"}
        PROVE  ~released_'[k] /\ (w2[k] = "prepared" => next_'[k].node = NULL)
    <3>1. w2[k] = w[k] /\ k # n
      BY <1>17, <2>1
    <3> QED BY <1>3, <1>5, <2>1, <3>1 DEF Inductive, Fields, TypeOK
  <2> QED BY <2>1 DEF Fields
<1>21. ASSUME NEW u \in Threads
       PROVE  Local(w2, u)'
  <2>1. CASE pc[u] \notin Region
    BY <1>6, <2>1 DEF Local, Region
  <2>2. CASE pc[u] \in Region
    <3>1. ~Protected(w, u, n)
      BY <1>1, <1>2, <2>2 DEF Protected
    <3>2. Keeps(w, w2, u)
      <4>1. ASSUME NEW k \in Nodes, Protected(w, u, k)
            PROVE  /\ Protected(w2, u, k)'
                   /\ next_'[k] = next_[k]
                   /\ w2[k] = w[k]
        <5>1. k # n /\ w[k] \notin {"heap", "cache"}
          BY <3>1, <4>1 DEF Protected
        <5>2. w2[k] = w[k] /\ next_'[k] = next_[k]
          BY <1>3, <1>18, <5>1
        <5> QED BY <1>6, <4>1, <5>2 DEF Protected
      <4> QED BY <4>1 DEF Keeps
    <3>3. SameThread(u)
      BY <1>6 DEF SameThread
    <3> QED BY <1>6, <3>2, <3>3, LocalStable DEF Inductive, HeadMoves, TailMoves
  <2> QED BY <2>1, <2>2
<1> QED BY <1>2, <1>10, <1>11, <1>13, <1>14, <1>16, <1>19, <1>20, <1>21 DEF Inductive

\* exit_epoch() moves a node nobody can reach any more to the cache.
LEMMA ReclaimStep ==
    ASSUME NEW w, NEW o, Inductive(w, o), NEW t \in Threads, Reclaim(t)
    PROVE  \E w2, o2 : Inductive(w2, o2)'
<1>1. /\ retire_list[t] # <<>> /\ Release(t, Head(retire_list[t]))
      /\ retire_list' = [retire_list EXCEPT ![t] = Tail(@)]
      /\ UNCHANGED <<head_, tail_, active, blockers, pc, pointers, call>>
  BY DEF Reclaim
<1>2. blockers[Head(retire_list[t]).node] = {}
  BY DEF Reclaim, GraceIsOver
<1>3. pc[Main] # "joined"
  BY DEF Reclaim, Inductive, Control, Destroyed, OthersJoined
<1> QED BY <1>1, <1>2, <1>3, ReleaseStep

\* destroy() moves what is left in the retire lists to the cache of Main.
LEMMA DrainStep ==
    ASSUME NEW w, NEW o, Inductive(w, o), NEW t \in Threads, Drain(t)
    PROVE  \E w2, o2 : Inductive(w2, o2)'
<1>1. /\ retire_list[t] # <<>> /\ Release(Main, Head(retire_list[t]))
      /\ retire_list' = [retire_list EXCEPT ![t] = Tail(@)]
      /\ UNCHANGED <<head_, tail_, active, blockers, pc, pointers, call>>
  BY DEF Drain
<1>2. pc[Main] # "joined" /\ \A u \in Threads : pc[u] \notin Region
  BY DEF Drain, Inductive, Control, Destroyed, OthersJoined, Region
<1> QED BY <1>1, <1>2, MainAssumption, ReleaseStep

-----------------------------------------------------------------------------
(* Shutdown *)

\* Every thread but Main is gone, and Main is where it holds no pointer.
LEMMA NothingHeld ==
    ASSUME NEW w, pc' \in [Threads -> Locations], OthersJoined',
           pc'[Main] \in {"destroy", "exit", "drain", "free", "joined"}
    PROVE  \A u \in Threads : Local(w, u)'
<1>1. ASSUME NEW u \in Threads
      PROVE  pc'[u] \in {"destroy", "exit", "drain", "free", "joined"}
  BY DEF OthersJoined
<1> QED BY <1>1 DEF Local

\* Main starts to walk over the queue, when nobody else is left.
LEMMA DestroyEnterStep ==
    ASSUME NEW w, NEW o, Inductive(w, o), DestroyEnter
    PROVE  Inductive(w, o)'
<1>1. /\ pc \in [Threads -> Locations]
      /\ pc' = [pc EXCEPT ![Main] = "destroy"]
      /\ pc'[Main] = "destroy" /\ pc[Main] = "idle"
      /\ \A u \in Threads \ {Main} : pc[u] = "joined" /\ pc'[u] = "joined"
      /\ ControlOf(Main) /\ head_ # Null
  BY MainAssumption DEF DestroyEnter, Goto, Initialized, Inductive, Control
<1>2. /\ active' = active \cup {Main}
      /\ first' = [first EXCEPT ![Main] = head_]
      /\ UNCHANGED <<head_, tail_, next_, value_, released_, heap, cache_head, cache_count,
                     retire_list, blockers, last, next, node, op, done, val>>
  BY DEF DestroyEnter, EnterEpoch, memory, cache, call
<1>3. TypeOK'
  BY <1>2, MainAssumption DEF Inductive, TypeOK
<1>4. ~Destroyed /\ ~Destroyed' /\ OthersJoined'
  BY <1>1 DEF Destroyed, OthersJoined
<1>5. Control'
  <2>1. \A u \in Threads : ControlOf(u)'
    BY <1>1, <1>2, MainAssumption DEF Inductive, Control, ControlOf, Region
  <2>2. pc' \in [Threads -> Locations]
    BY <1>1 DEF Locations, Region
  <2> QED BY <1>1, <1>2, <1>4, <2>1, <2>2 DEF Inductive, Control
<1>6. QueueStart' = head_ /\ QueueStart = head_
  BY <1>1, <1>2, MainAssumption DEF QueueStart, Inductive, TypeOK
<1>7. Chains'
  <2>1. \A u \in Threads : NodesFrom(cache_head[u])' = NodesFrom(cache_head[u])
    BY <1>2 DEF NodesFrom
  <2> QED BY <1>1, <1>2, <1>6, <2>1 DEF Inductive, Chains, CachesAreBounded
<1>8. TailInQueue'
  BY <1>1 DEF TailInQueue
<1>9. RetiredOnce'
  BY <1>2 DEF Inductive, RetiredOnce
<1>10. Located(w, o)'
  <2>1. \A u \in Threads :
           /\ Prepares(u)' <=> Prepares(u)
           /\ pc'[u] # "pop_retire" /\ pc[u] # "pop_retire"
           /\ RetiredBy(u)' = RetiredBy(u)
    BY <1>1, <1>2 DEF Prepares, RetiredBy
  <2> QED BY <1>2, <1>6, <2>1 DEF Inductive, Located
<1>11. Fields(w)'
  BY <1>2 DEF Inductive, Fields
<1>12. \A u \in Threads : Local(w, u)'
  BY <1>1, <1>4, <1>5, NothingHeld DEF Control
<1> QED BY <1>3, <1>5, <1>7, <1>8, <1>9, <1>10, <1>11, <1>12 DEF Inductive

\* Main retires the first node that is left and steps over it.
LEMMA DestroyRetireStep ==
    ASSUME NEW w, NEW o, Inductive(w, o), DestroyRetire
    PROVE  \E w2, o2 : Inductive(w2, o2)'
<1>1. /\ pc' = pc /\ pc[Main] = "destroy" /\ head_ # Null
      /\ first[Main].node # NULL
      /\ OthersJoined
  BY DEF DestroyRetire, Inductive, Control
<1>2. PICK p, n : p = first[Main] /\ n = first[Main].node
  OBVIOUS
<1>3. /\ retire_list' = [retire_list EXCEPT ![Main] = Append(@, p)]
      /\ blockers' = [blockers EXCEPT ![n] = active]
      /\ first' = [first EXCEPT ![Main] = next_[n]]
      /\ UNCHANGED <<head_, tail_, next_, value_, released_, heap, cache_head, cache_count, active,
                     last, next, node, op, done, val>>
  BY <1>2 DEF DestroyRetire, Retire, memory, cache, call
<1>4. QueueStart = p /\ IsChain(next_, p) /\ Reach(next_, p) = {k \in Nodes : w[k] = "queue"}
  BY <1>1, <1>2 DEF QueueStart, Inductive, Chains, Located
<1>5. /\ n \in Nodes /\ w[n] = "queue" /\ p \in TaggedPtr
      /\ IsChain(next_, next_[n])
      /\ Reach(next_, next_[n]) = Reach(next_, p) \ {n}
  <2>1. p.node # NULL /\ n = p.node
    BY <1>1, <1>2
  <2>2. /\ p.node \in Nodes
        /\ IsChain(next_, next_[p.node])
        /\ Reach(next_, next_[p.node]) = Reach(next_, p) \ {p.node}
    BY <1>4, <2>1, ReachUncons
  <2>3. p.node \in Reach(next_, p)
    BY <1>4, <2>1, ReachBasics
  <2>4. p \in TaggedPtr
    BY <1>4 DEF IsChain
  <2> QED BY <1>4, <2>1, <2>2, <2>3, <2>4
<1>6. QueueStart' = next_[n] /\ next_[n] \in TaggedPtr
  <2>1. first'[Main] = next_[n]
    BY <1>3, MainAssumption DEF Inductive, TypeOK
  <2> QED BY <1>1, <1>5, <2>1 DEF QueueStart, Inductive, TypeOK
<1>7. /\ retire_list' \in [Threads -> Seq(TaggedPtr)]
      /\ RetiredOnce'
      /\ RetiredBy(Main)' = RetiredBy(Main) \cup {n}
      /\ \A u \in Threads \ {Main} : RetiredBy(u)' = RetiredBy(u)
  <2>1. p.node \in Nodes /\ w[p.node] # "retired" /\ p \in TaggedPtr
    BY <1>2, <1>5
  <2>2. retire_list' = [retire_list EXCEPT ![Main] = Append(@, p)]
    BY <1>3
  <2>3. /\ retire_list' \in [Threads -> Seq(TaggedPtr)]
        /\ RetiredOnce'
        /\ RetiredBy(Main)' = RetiredBy(Main) \cup {p.node}
        /\ \A u \in Threads \ {Main} : RetiredBy(u)' = RetiredBy(u)
    BY <2>1, <2>2, MainAssumption, RetireEffect
  <2> QED BY <1>2, <2>3
<1>8. TypeOK'
  BY <1>3, <1>5, <1>6, <1>7 DEF Inductive, TypeOK
<1>9. Control'
  BY <1>1, <1>3 DEF Inductive, Control, ControlOf, Destroyed, OthersJoined
<1>10. Chains'
  <2>1. \A u \in Threads : NodesFrom(cache_head[u])' = NodesFrom(cache_head[u])
    BY <1>3 DEF NodesFrom
  <2> QED BY <1>1, <1>3, <1>5, <1>6, <2>1 DEF Inductive, Chains, CachesAreBounded
<1>11. TailInQueue'
  BY <1>1 DEF TailInQueue
<1>12. PICK w2, o2 : w2 = [w EXCEPT ![n] = "retired"] /\ o2 = [o EXCEPT ![n] = Main]
  OBVIOUS
<1>13. /\ w2 \in [Nodes -> Kinds] /\ w2[n] = "retired"
       /\ o2 \in [Nodes -> Threads] /\ o2[n] = Main
       /\ \A k \in Nodes \ {n} : w2[k] = w[k] /\ o2[k] = o[k]
  BY <1>5, <1>12, MainAssumption DEF Inductive, Kinds
<1>14. Located(w2, o2)'
  <2>1. heap' = {k \in Nodes : w2[k] = "heap"}
    BY <1>3, <1>5, <1>13 DEF Inductive, Located
  <2>2. Reach(next_', QueueStart') = {k \in Nodes : w2[k] = "queue"}
    <3>1. Reach(next_, next_[n]) = {k \in Nodes : w2[k] = "queue"}
      BY <1>4, <1>5, <1>13
    <3> QED BY <1>3, <1>6, <3>1
  <2>3. ASSUME NEW u \in Threads
        PROVE  /\ Reach(next_', cache_head'[u]) = {k \in Nodes : w2[k] = "cache" /\ o2[k] = u}
               /\ RetiredBy(u)' = {k \in Nodes : w2[k] = "retired" /\ o2[k] = u}
    <3>1. Reach(next_, cache_head[u]) = {k \in Nodes : w[k] = "cache" /\ o[k] = u}
          /\ RetiredBy(u) = {k \in Nodes : w[k] = "retired" /\ o[k] = u}
      BY DEF Inductive, Located
    <3>2. Reach(next_', cache_head'[u]) = Reach(next_, cache_head[u])
      BY <1>3
    <3>3. \A k \in Nodes :
             /\ w2[k] = "cache" /\ o2[k] = u <=> w[k] = "cache" /\ o[k] = u
             /\ w2[k] = "retired" /\ o2[k] = u
                   <=> (w[k] = "retired" /\ o[k] = u) \/ (k = n /\ u = Main)
      BY <1>5, <1>13
    <3>4. RetiredBy(u)' = {k \in Nodes : k \in RetiredBy(u) \/ (k = n /\ u = Main)}
      BY <1>5, <1>7, <3>1
    <3> QED BY <3>1, <3>2, <3>3, <3>4
  <2>4. \A u \in Threads : pc'[u] # "pop_retire" /\ pc[u] # "pop_retire" /\ ~Prepares(u)
    BY <1>1 DEF Inductive, Control, ControlOf, OthersJoined, Prepares
  <2>5. \A u \in Threads : Prepares(u)' <=> Prepares(u)
    BY <1>3 DEF Prepares
  <2>6. \A k \in Nodes : w2[k] # "prepared" /\ w2[k] # "unlinked"
    BY <1>5, <1>13, <2>4 DEF Inductive, Located
  <2> QED BY <2>1, <2>2, <2>3, <2>4, <2>5, <2>6 DEF Located
<1>15. Fields(w2)'
  BY <1>3, <1>5, <1>13 DEF Inductive, Fields
<1>16. \A u \in Threads : Local(w2, u)'
  BY <1>1, <1>9, NothingHeld DEF Control, OthersJoined
<1> QED BY <1>7, <1>8, <1>9, <1>10, <1>11, <1>13, <1>14, <1>15, <1>16 DEF Inductive

\* The queue is gone, and so are its nodes.
LEMMA DestroyExitStep ==
    ASSUME NEW w, NEW o, Inductive(w, o), DestroyExit
    PROVE  Inductive(w, o)'
<1>1. /\ pc \in [Threads -> Locations]
      /\ pc' = [pc EXCEPT ![Main] = "exit"]
      /\ pc'[Main] = "exit" /\ pc[Main] = "destroy"
      /\ \A u \in Threads \ {Main} : pc'[u] = pc[u]
      /\ ControlOf(Main) /\ OthersJoined
  BY MainAssumption DEF DestroyExit, Goto, Inductive, Control
<1>2. /\ head_' = Null /\ tail_' = Null /\ first[Main].node = NULL
      /\ UNCHANGED <<next_, value_, released_, heap, cache_head, cache_count, active, retire_list,
                     blockers, first, last, next, node, op, done, val>>
  BY DEF DestroyExit, memory, cache, ebr, pointers, call
<1>3. op[Main] = "none" /\ ~done[Main]
  BY <1>1 DEF ControlOf
<1>4. TypeOK'
  BY <1>2, NullIsTagged DEF Inductive, TypeOK
<1>5. Destroyed' /\ OthersJoined'
  BY <1>1, <1>2, <1>3 DEF Destroyed, OthersJoined
<1>6. Control'
  <2>1. \A u \in Threads : ControlOf(u)'
    BY <1>1, <1>2, <1>3 DEF Inductive, Control, ControlOf, Region, OthersJoined
  <2>2. pc' \in [Threads -> Locations]
    BY <1>1 DEF Locations, Region
  <2> QED BY <1>1, <1>2, <1>5, <2>1, <2>2 DEF Control
<1>7. QueueStart = first[Main] /\ QueueStart' = Null
  BY <1>1, <1>2 DEF QueueStart
<1>8. Reach(next_, QueueStart) = {}
  BY <1>2, <1>7, ReachBasics DEF Inductive, Chains
<1>9. IsChain(next_, Null) /\ Reach(next_, Null) = {}
  BY NullIsTagged, EmptyChain DEF Inductive, TypeOK
<1>10. IsChain(next_', QueueStart') /\ Reach(next_', QueueStart') = {}
  BY <1>2, <1>7, <1>9
<1>11. Chains'
  <2>1. \A u \in Threads : NodesFrom(cache_head[u])' = NodesFrom(cache_head[u])
    BY <1>2 DEF NodesFrom
  <2> QED BY <1>1, <1>2, <1>10, <2>1 DEF Inductive, Chains, CachesAreBounded
<1>12. TailInQueue'
  BY <1>2 DEF TailInQueue
<1>13. RetiredOnce'
  BY <1>2 DEF Inductive, RetiredOnce
<1>14. Located(w, o)'
  <2>1. \A u \in Threads :
           /\ Prepares(u)' <=> Prepares(u)
           /\ pc'[u] # "pop_retire" /\ pc[u] # "pop_retire"
           /\ RetiredBy(u)' = RetiredBy(u)
    BY <1>1, <1>2 DEF Prepares, RetiredBy, OthersJoined
  <2> QED BY <1>2, <1>8, <1>10, <2>1 DEF Inductive, Located
<1>15. Fields(w)'
  BY <1>2 DEF Inductive, Fields
<1>16. \A u \in Threads : Local(w, u)'
  BY <1>1, <1>5, <1>6, NothingHeld DEF Control
<1> QED BY <1>4, <1>6, <1>11, <1>12, <1>13, <1>14, <1>15, <1>16 DEF Inductive

\* Every cache is deleted.
LEMMA FreeCachesStep ==
    ASSUME NEW w, NEW o, Inductive(w, o), FreeCaches
    PROVE  \E w2, o2 : Inductive(w2, o2)'
<1>1. /\ pc \in [Threads -> Locations]
      /\ pc' = [pc EXCEPT ![Main] = "joined"]
      /\ pc'[Main] = "joined" /\ pc[Main] = "free"
      /\ \A u \in Threads \ {Main} : pc'[u] = pc[u]
      /\ ControlOf(Main) /\ OthersJoined /\ head_ = Null
  BY MainAssumption DEF FreeCaches, Goto, Inductive, Control, Destroyed
<1>2. /\ cache_head' = [u \in Threads |-> Null]
      /\ UNCHANGED <<head_, tail_, next_, value_, released_, cache_count, active, retire_list,
                     blockers, first, last, next, node, op, done, val>>
  BY DEF FreeCaches, ebr, pointers, call
<1>3. \A u \in Threads : NodesFrom(cache_head[u]) = {k \in Nodes : w[k] = "cache" /\ o[k] = u}
  <2>1. \A u \in Threads : NodesFrom(cache_head[u]) = Reach(next_, cache_head[u])
    BY DEF NodesFrom, Reach
  <2> QED BY <2>1 DEF Inductive, Located
<1>4. heap' = {k \in Nodes : w[k] \in {"heap", "cache"}}
  <2>1. heap = {k \in Nodes : w[k] = "heap"}
    BY DEF Inductive, Located
  <2>2. heap' = heap \cup UNION {NodesFrom(cache_head[u]) : u \in Threads}
    BY DEF FreeCaches
  <2>3. ASSUME NEW k \in Nodes
        PROVE  k \in UNION {NodesFrom(cache_head[u]) : u \in Threads} <=> w[k] = "cache"
    BY <1>3 DEF Inductive
  <2>4. UNION {NodesFrom(cache_head[u]) : u \in Threads} \subseteq Nodes
    BY <1>3
  <2> QED BY <2>1, <2>2, <2>3, <2>4
<1>5. TypeOK'
  BY <1>2, <1>4, NullIsTagged DEF Inductive, TypeOK
<1>6. Destroyed /\ Destroyed' /\ OthersJoined'
  BY <1>1 DEF Destroyed, OthersJoined
<1>7. op[Main] = "none" /\ ~done[Main]
  BY <1>1 DEF ControlOf
<1>8. Control'
  <2>1. \A u \in Threads : ControlOf(u)'
    BY <1>1, <1>2, <1>7 DEF Inductive, Control, ControlOf, Region, OthersJoined
  <2>2. pc' \in [Threads -> Locations]
    BY <1>1 DEF Locations, Region
  <2> QED BY <1>1, <1>2, <1>6, <2>1, <2>2 DEF Control
<1>9. QueueStart = head_ /\ QueueStart' = head_
  BY <1>1, <1>2 DEF QueueStart
<1>10. \A u \in Threads : IsChain(next_, Null) /\ Reach(next_, Null) = {}
  BY NullIsTagged, EmptyChain DEF Inductive, TypeOK
<1>11. Chains'
  BY <1>1, <1>2, <1>9, <1>10 DEF Inductive, Chains, CachesAreBounded
<1>12. TailInQueue'
  BY <1>1, <1>2 DEF TailInQueue
<1>13. RetiredOnce'
  BY <1>2 DEF Inductive, RetiredOnce
<1>14. PICK w2 : w2 = [k \in Nodes |-> IF w[k] = "cache" THEN "heap" ELSE w[k]]
  OBVIOUS
<1>15. /\ w2 \in [Nodes -> Kinds]
       /\ \A k \in Nodes : /\ w[k] = "cache" => w2[k] = "heap"
                           /\ w[k] # "cache" => w2[k] = w[k]
  BY <1>14 DEF Inductive, Kinds
<1>16. Located(w2, o)'
  <2>1. heap' = {k \in Nodes : w2[k] = "heap"}
    BY <1>4, <1>15
  <2>2. Reach(next_', QueueStart') = {k \in Nodes : w2[k] = "queue"}
    <3>1. Reach(next_, QueueStart) = {k \in Nodes : w[k] = "queue"}
      BY DEF Inductive, Located
    <3>2. \A k \in Nodes : w2[k] = "queue" <=> w[k] = "queue"
      BY <1>15
    <3> QED BY <1>2, <1>9, <3>1, <3>2
  <2>3. ASSUME NEW u \in Threads
        PROVE  /\ Reach(next_', cache_head'[u]) = {k \in Nodes : w2[k] = "cache" /\ o[k] = u}
               /\ RetiredBy(u)' = {k \in Nodes : w2[k] = "retired" /\ o[k] = u}
    <3>1. RetiredBy(u) = {k \in Nodes : w[k] = "retired" /\ o[k] = u}
      BY DEF Inductive, Located
    <3>2. Reach(next_', cache_head'[u]) = {} /\ RetiredBy(u)' = RetiredBy(u)
      BY <1>2, <1>10 DEF RetiredBy
    <3>3. \A k \in Nodes : w2[k] # "cache" /\ (w2[k] = "retired" <=> w[k] = "retired")
      BY <1>15
    <3> QED BY <3>1, <3>2, <3>3
  <2>4. \A u \in Threads : /\ Prepares(u)' <=> Prepares(u)
                           /\ pc'[u] # "pop_retire" /\ pc[u] # "pop_retire" /\ ~Prepares(u)
    BY <1>1, <1>2, <1>7 DEF Inductive, Control, ControlOf, OthersJoined, Prepares
  <2>5. \A k \in Nodes : w2[k] # "prepared" /\ w2[k] # "unlinked"
    BY <1>15, <2>4 DEF Inductive, Located
  <2> QED BY <2>1, <2>2, <2>3, <2>4, <2>5 DEF Located
<1>17. Fields(w2)'
  BY <1>2, <1>15 DEF Inductive, Fields
<1>18. \A u \in Threads : Local(w2, u)'
  BY <1>1, <1>6, <1>8, NothingHeld DEF Control
<1> QED BY <1>5, <1>8, <1>11, <1>12, <1>13, <1>15, <1>16, <1>17, <1>18 DEF Inductive

-----------------------------------------------------------------------------
(* The invariant *)

\* There is always a way to say where every node is, and who has it there.
InductiveInvariant ==
    \E where \in [Nodes -> Kinds], who \in [Nodes -> Threads] : Inductive(where, who)

\* All nodes are on the heap.
LEMMA InitialState ==
    ASSUME Init
    PROVE  InductiveInvariant
<1> USE DEF Init
<1>1. PICK w, o : w = [n \in Nodes |-> "heap"] /\ o = [n \in Nodes |-> Main]
  OBVIOUS
<1>2. /\ w \in [Nodes -> Kinds] /\ o \in [Nodes -> Threads]
      /\ \A n \in Nodes : w[n] = "heap"
  BY <1>1, MainAssumption DEF Kinds
<1>3. TypeOK
  BY NullIsTagged, CacheAssumption DEF TypeOK
<1>4. ~Destroyed /\ pc[Main] = "idle" /\ QueueStart = Null
  BY MainAssumption DEF Destroyed, QueueStart
<1>5. Control
  BY <1>4 DEF Control, ControlOf, Region, Locations
<1>6. RetiredOnce /\ \A u \in Threads : RetiredBy(u) = {}
  BY DEF RetiredOnce, RetiredBy
<1>7. IsChain(next_, Null) /\ Reach(next_, Null) = {}
  BY <1>3, NullIsTagged, EmptyChain DEF TypeOK
<1>8. Chains
  <2>1. \A u \in Threads : NodesFrom(cache_head[u]) = {}
    BY <1>7 DEF NodesFrom, Reach
  <2>2. Cardinality({}) = 0 /\ 0 < CACHE_COUNT
    BY FS_EmptySet, CacheAssumption
  <2> QED BY <1>4, <1>7, <2>1, <2>2 DEF Chains, CachesAreBounded
<1>9. TailInQueue
  BY DEF TailInQueue
<1>10. Located(w, o)
  <2>1. \A u \in Threads : ~Prepares(u) /\ pc[u] # "pop_retire" /\ Reach(next_, cache_head[u]) = {}
    BY <1>7 DEF Prepares
  <2> QED BY <1>2, <1>4, <1>6, <1>7, <2>1 DEF Located
<1>11. Fields(w)
  BY <1>2 DEF Fields
<1>12. \A u \in Threads : Local(w, u)
  BY DEF Local
<1> QED BY <1>2, <1>3, <1>5, <1>6, <1>8, <1>9, <1>10, <1>11, <1>12
        DEF Inductive, InductiveInvariant

\* A step that changes nothing.
LEMMA StutterStep ==
    ASSUME NEW w, NEW o, Inductive(w, o), UNCHANGED vars
    PROVE  Inductive(w, o)'
<1>1. UNCHANGED <<head_, tail_, next_, value_, released_, heap, cache_head, cache_count, active,
                  retire_list, blockers, pc, first, last, next, node, op, done, val>>
  BY DEF vars, memory, cache, ebr, pointers, call
<1>2. TypeOK' /\ RetiredOnce' /\ Fields(w)'
  BY <1>1 DEF Inductive, TypeOK, RetiredOnce, Fields
<1>3. Control'
  BY <1>1 DEF Inductive, Control, ControlOf, Destroyed, OthersJoined
<1>4. QueueStart' = QueueStart
  BY <1>1 DEF QueueStart
<1>5. Chains' /\ TailInQueue'
  BY <1>1, <1>4 DEF Inductive, Chains, CachesAreBounded, NodesFrom, TailInQueue
<1>6. Located(w, o)'
  BY <1>1, <1>4 DEF Inductive, Located, Prepares, RetiredBy
<1>7. ASSUME NEW u \in Threads
      PROVE  Local(w, u)'
  <2>1. Keeps(w, w, u) /\ SameThread(u)
    BY <1>1 DEF Keeps, Protected, SameThread
  <2> QED BY <1>1, <2>1, LocalStable DEF Inductive, HeadMoves, TailMoves
<1> QED BY <1>2, <1>3, <1>5, <1>6, <1>7 DEF Inductive

\* Every step of the queue leads from one placement of the nodes to another.
LEMMA EveryStep ==
    ASSUME NEW w, NEW o, Inductive(w, o), [Next]_vars
    PROVE  \E w2, o2 : Inductive(w2, o2)'
<1>1. CASE InitQueue
  BY <1>1, InitQueueStep
<1>2. ASSUME NEW t \in Threads, NEW v \in Values, CallPush(t, v)
      PROVE  \E w2, o2 : Inductive(w2, o2)'
  BY <1>2, CallPushStep
<1>3. ASSUME NEW t \in Threads, CallPop(t)
      PROVE  Inductive(w, o)'
  BY <1>3, CallPopStep
<1>4. ASSUME NEW t \in Threads, Leave(t)
      PROVE  Inductive(w, o)'
  BY <1>4, LeaveStep
<1>5. ASSUME NEW t \in Threads, Step(t)
      PROVE  \E w2, o2 : Inductive(w2, o2)'
  <2>1. CASE PushEnter(t)
    BY <2>1, PushEnterStep
  <2>2. CASE PushLoadTail(t)
    BY <2>2, PushLoadTailStep
  <2>3. CASE PushLoadNext(t)
    BY <2>3, PushLoadNextStep
  <2>4. CASE PushLink(t)
    BY <2>4, PushLinkStep
  <2>5. CASE PushLinkFails(t)
    BY <2>5, PushLinkFailsStep
  <2>6. CASE PushSwing(t)
    BY <2>6, PushSwingStep
  <2>7. CASE Help(t)
    BY <2>7, HelpStep
  <2>8. CASE PopEnter(t)
    BY <2>8, PopEnterStep
  <2>9. CASE PopLoadHead(t)
    BY <2>9, PopLoadHeadStep
  <2>10. CASE PopLoadTail(t)
    BY <2>10, PopLoadTailStep
  <2>11. CASE PopEmpty(t)
    BY <2>11, PopEmptyStep
  <2>12. CASE PopLoadNext(t)
    BY <2>12, PopLoadNextStep
  <2>13. CASE PopReadValue(t)
    BY <2>13, PopReadValueStep
  <2>14. CASE PopUnlink(t)
    BY <2>14, PopUnlinkStep
  <2>15. CASE PopUnlinkFails(t)
    BY <2>15, PopUnlinkFailsStep
  <2>16. CASE PopRetire(t)
    BY <2>16, PopRetireStep
  <2>17. CASE ExitEpoch(t)
    BY <2>17, ExitEpochStep
  <2>18. CASE Reclaim(t)
    BY <2>18, ReclaimStep
  <2>19. CASE ReclaimDone(t)
    BY <2>19, ReclaimDoneStep
  <2> QED BY <1>5, <2>1, <2>2, <2>3, <2>4, <2>5, <2>6, <2>7, <2>8, <2>9, <2>10, <2>11, <2>12,
             <2>13, <2>14, <2>15, <2>16, <2>17, <2>18, <2>19 DEF Step
<1>6. CASE Destroy
  <2>1. CASE DestroyEnter
    BY <2>1, DestroyEnterStep
  <2>2. CASE DestroyRetire
    BY <2>2, DestroyRetireStep
  <2>3. CASE DestroyExit
    BY <2>3, DestroyExitStep
  <2>4. ASSUME NEW t \in Threads, Drain(t)
        PROVE  \E w2, o2 : Inductive(w2, o2)'
    BY <2>4, DrainStep
  <2>5. CASE DrainDone
    BY <2>5, DrainDoneStep
  <2>6. CASE FreeCaches
    BY <2>6, FreeCachesStep
  <2> QED BY <1>6, <2>1, <2>2, <2>3, <2>4, <2>5, <2>6 DEF Destroy
<1>7. CASE UNCHANGED vars
  BY <1>7, StutterStep
<1> QED BY <1>1, <1>2, <1>3, <1>4, <1>5, <1>6, <1>7 DEF Next, Terminated

\* Whatever the threads do in push_back(), pop_front(), exit_epoch() and
\* destroy(), there is always exactly one holder for each node, the next_ fields
\* make up the queue and the caches, and every pointer a thread is still going
\* to follow or compare is worth what the code takes it for.
THEOREM QueueIsInductive == Spec => []InductiveInvariant
<1>1. Init => InductiveInvariant
  BY InitialState
<1>2. InductiveInvariant /\ [Next]_vars => InductiveInvariant'
  <2>1. SUFFICES ASSUME InductiveInvariant, [Next]_vars
                 PROVE  InductiveInvariant'
    OBVIOUS
  <2>2. PICK w, o : Inductive(w, o)
    BY <2>1 DEF InductiveInvariant
  <2>3. PICK w2, o2 : Inductive(w2, o2)'
    BY <2>1, <2>2, EveryStep
  <2> QED BY <2>3 DEF InductiveInvariant, Inductive
<1> QED BY <1>1, <1>2, PTL DEF Spec

-----------------------------------------------------------------------------
(* What it implies *)

\* A node with one holder is in one place.
LEMMA OnePlace ==
    ASSUME NEW w, NEW o, Inductive(w, o), NEW n \in Nodes
    PROVE  Cardinality(Places(n)) = 1
<1> DEFINE
      Heap == {<<"heap">> : x \in {n} \cap heap}
      Queue == {<<"queue">> : x \in {n} \cap ListNodes}
      Cached == {<<"cache", t>> : t \in {t \in Threads : n \in NodesFrom(cache_head[t])}}
      Retired == UNION {{<<"retired", t, k>> : k \in {k \in DOMAIN retire_list[t] :
                                                        retire_list[t][k].node = n}}
                          : t \in Threads}
      Prepared == {<<"prepared", t>> : t \in {t \in Threads : op[t] = "push" /\ ~done[t]
                                                              /\ node[t].node = n}}
      Unlinked == {<<"unlinked", t>> : t \in {t \in Threads : pc[t] = "pop_retire"
                                                              /\ first[t].node = n}}
<1>1. Places(n) = Heap \cup Queue \cup Cached \cup Retired \cup Prepared \cup Unlinked
  BY DEF Places
<1>2. w[n] \in Kinds /\ o[n] \in Threads
  BY DEF Inductive
<1>3. n \in heap <=> w[n] = "heap"
  BY DEF Inductive, Located
<1>4. n \in ListNodes <=> w[n] = "queue"
  <2>1. ListNodes = Reach(next_, QueueStart)
    BY DEF ListNodes, NodesFrom, Reach, QueueStart
  <2> QED BY <2>1 DEF Inductive, Located
<1>5. \A t \in Threads : n \in NodesFrom(cache_head[t]) <=> w[n] = "cache" /\ o[n] = t
  <2>1. \A t \in Threads : NodesFrom(cache_head[t]) = Reach(next_, cache_head[t])
    BY DEF NodesFrom, Reach
  <2> QED BY <2>1 DEF Inductive, Located
<1>6. \A t \in Threads : n \in RetiredBy(t) <=> w[n] = "retired" /\ o[n] = t
  BY DEF Inductive, Located
<1>7. \A t \in Threads :
         op[t] = "push" /\ ~done[t] /\ node[t].node = n <=> w[n] = "prepared" /\ o[n] = t
  BY <1>2 DEF Inductive, Located, Prepares
<1>8. \A t \in Threads :
         pc[t] = "pop_retire" /\ first[t].node = n <=> w[n] = "unlinked" /\ o[n] = t
  BY <1>2 DEF Inductive, Located
<1>9. Heap = IF w[n] = "heap" THEN {<<"heap">>} ELSE {}
  BY <1>3
<1>10. Queue = IF w[n] = "queue" THEN {<<"queue">>} ELSE {}
  BY <1>4
<1>11. Cached = IF w[n] = "cache" THEN {<<"cache", o[n]>>} ELSE {}
  BY <1>2, <1>5
<1>12. w[n] # "retired" => Retired = {}
  <2>1. ASSUME w[n] # "retired", NEW t \in Threads
        PROVE  {k \in DOMAIN retire_list[t] : retire_list[t][k].node = n} = {}
    BY <1>6, <2>1 DEF RetiredBy
  <2> QED BY <2>1
<1>13. ASSUME w[n] = "retired"
       PROVE  \E x : Retired = {x}
  <2>1. PICK k \in DOMAIN retire_list[o[n]] : retire_list[o[n]][k].node = n
    BY <1>2, <1>6, <1>13 DEF RetiredBy
  <2>2. \A t \in Threads : \A j \in DOMAIN retire_list[t] :
           retire_list[t][j].node = n => t = o[n]
    BY <1>6 DEF RetiredBy
  <2>3. \A j \in DOMAIN retire_list[o[n]] : retire_list[o[n]][j].node = n => j = k
    BY <1>2, <2>1 DEF Inductive, RetiredOnce
  <2>4. ASSUME NEW t \in Threads \ {o[n]}
        PROVE  {<<"retired", t, j>> : j \in {j \in DOMAIN retire_list[t] :
                                               retire_list[t][j].node = n}} = {}
    BY <2>2
  <2>5. {<<"retired", o[n], j>> : j \in {j \in DOMAIN retire_list[o[n]] :
                                           retire_list[o[n]][j].node = n}}
           = {<<"retired", o[n], k>>}
    BY <2>1, <2>3
  <2>6. Retired = {<<"retired", o[n], k>>}
    BY <1>2, <2>4, <2>5
  <2> QED BY <2>6
<1>14. Prepared = IF w[n] = "prepared" THEN {<<"prepared", o[n]>>} ELSE {}
  BY <1>2, <1>7
<1>15. Unlinked = IF w[n] = "unlinked" THEN {<<"unlinked", o[n]>>} ELSE {}
  BY <1>2, <1>8
<1> HIDE DEF Heap, Queue, Cached, Retired, Prepared, Unlinked
<1>16. \E x : Places(n) = {x}
  <2>1. CASE w[n] = "heap"
    BY <1>1, <1>9, <1>10, <1>11, <1>12, <1>14, <1>15, <2>1
  <2>2. CASE w[n] = "queue"
    BY <1>1, <1>9, <1>10, <1>11, <1>12, <1>14, <1>15, <2>2
  <2>3. CASE w[n] = "cache"
    BY <1>1, <1>9, <1>10, <1>11, <1>12, <1>14, <1>15, <2>3
  <2>4. CASE w[n] = "retired"
    BY <1>1, <1>9, <1>10, <1>11, <1>13, <1>14, <1>15, <2>4
  <2>5. CASE w[n] = "prepared"
    BY <1>1, <1>9, <1>10, <1>11, <1>12, <1>14, <1>15, <2>5
  <2>6. CASE w[n] = "unlinked"
    BY <1>1, <1>9, <1>10, <1>11, <1>12, <1>14, <1>15, <2>6
  <2> QED BY <1>2, <2>1, <2>2, <2>3, <2>4, <2>5, <2>6 DEF Kinds
<1> QED BY <1>16, FS_Singleton

\* What a thread is about to follow has not been released or deleted.
LEMMA FollowedIsProtected ==
    ASSUME NEW w, NEW o, Inductive(w, o), NEW t \in Threads, NEW p \in Dereferenced(t)
    PROVE  p.node \in Nodes \ heap /\ ~released_[p.node]
<1>1. ASSUME NEW n \in Nodes, Protected(w, t, n)
      PROVE  n \notin heap /\ ~released_[n]
  BY <1>1 DEF Inductive, Located, Fields, Protected
<1>2. Protected(w, t, p.node) => p.node \in Nodes
  BY DEF Protected
<1>3. Local(w, t)
  BY DEF Inductive
<1>4. CASE pc[t] \in {"push_next", "push_link"}
  BY <1>1, <1>2, <1>3, <1>4 DEF Dereferenced, Local, HoldsLast, Holds
<1>5. CASE pc[t] = "pop_next"
  BY <1>1, <1>2, <1>3, <1>5 DEF Dereferenced, Local, HoldsFirst, HoldsLast, Holds
<1>6. CASE pc[t] = "pop_value"
  <2>1. p = next[t] /\ Protected(w, t, p.node)
    BY <1>3, <1>6 DEF Dereferenced, Local, HoldsFirst, Holds
  <2> QED BY <1>1, <1>2, <2>1
<1>7. CASE pc[t] = "destroy" /\ first[t].node # NULL
  <2>1. t = Main /\ p = first[Main] /\ QueueStart = p
    BY <1>7 DEF Dereferenced, QueueStart, Inductive, Control, ControlOf
  <2>2. p.node \in Reach(next_, p)
    BY <1>7, <2>1, ReachBasics DEF Inductive, Chains
  <2>3. p.node \in Nodes /\ w[p.node] = "queue"
    BY <2>1, <2>2 DEF Inductive, Located
  <2> QED BY <1>1, <2>3 DEF Protected
<1> QED BY <1>4, <1>5, <1>6, <1>7 DEF Dereferenced

\* The invariants that the runs check.
LEMMA InductiveImplies ==
    ASSUME InductiveInvariant
    PROVE  QueueInvariant /\ NoUseAfterFree /\ TailStaysOnList
<1>1. PICK w, o : Inductive(w, o)
  BY DEF InductiveInvariant
<1>2. QueueInvariant
  BY <1>1, OnePlace DEF QueueInvariant, EachNodeInOnePlace, Inductive, Chains
<1>3. NoUseAfterFree
  BY <1>1, FollowedIsProtected DEF NoUseAfterFree
<1>4. TailStaysOnList
  <2>1. ListNodes = Reach(next_, QueueStart)
    BY DEF ListNodes, NodesFrom, Reach, QueueStart
  <2> QED BY <1>1, <2>1 DEF Inductive, TailInQueue, TailStaysOnList
<1> QED BY <1>2, <1>3, <1>4

\* The nodes of the queue, the caches, the retire lists and the heap never get
\* mixed up, although they share the one next_ field: get(), release(),
\* push_back(), pop_front() and destroy() lose no node and double none, and a
\* cache is as long as its counter says whenever release() deletes a batch of it.
THEOREM QueueInvariantCorrect == Spec => []QueueInvariant
BY QueueIsInductive, InductiveImplies, PTL

\* The asserts of pop_front() on released_ hold, and the same for every pointer
\* that push_back(), pop_front() and destroy() follow: with the regions in place
\* no node is read or linked after its release.
THEOREM NoUseAfterFreeCorrect == Spec => []NoUseAfterFree
BY QueueIsInductive, InductiveImplies, PTL

\* pop_front() never unlinks the node tail_ points to, and push_back() never lets
\* tail_ fall behind by more than the one node that a helper can step over.
THEOREM TailStaysOnListCorrect == Spec => []TailStaysOnList
BY QueueIsInductive, InductiveImplies, PTL

-----------------------------------------------------------------------------
(* The queue keeps its side of the bargain with the reclamation scheme *)

\* Only a thread inside a region holds up the release of a node.
BlockersAreActive == \A n \in Nodes : blockers[n] \subseteq active

\* The retired nodes are those in some retire list.
LEMMA RetiredNodesOf ==
    /\ RetiredNodes = {n \in Nodes : \E t \in Threads : n \in RetiredBy(t)}
    /\ RetiredNodes' = {n \in Nodes : \E t \in Threads : n \in RetiredBy(t)'}
BY DEF RetiredNodes, RetiredBy

\* At the start nobody is inside and nothing is retired.
LEMMA InitialGracePeriods ==
    ASSUME Init
    PROVE  GP!Init /\ BlockersAreActive
BY DEF Init, GP!Init, RetiredNodes, BlockersAreActive

\* Nothing retired, nothing released, nobody enters or leaves.
LEMMA ReclamationUntouched ==
    ASSUME UNCHANGED <<active, retire_list, blockers>>, BlockersAreActive
    PROVE  UNCHANGED GP!vars /\ BlockersAreActive'
BY DEF GP!vars, RetiredNodes, BlockersAreActive

\* A thread enters a region it was not in.
LEMMA EnterKeepsBargain ==
    ASSUME BlockersAreActive, NEW t \in Threads, t \notin active, EnterEpoch(t)
    PROVE  GP!Next /\ BlockersAreActive'
<1>1. RetiredNodes' = RetiredNodes
  BY DEF EnterEpoch, RetiredNodes
<1>2. GP!Enter(t) /\ BlockersAreActive'
  BY <1>1 DEF EnterEpoch, GP!Enter, BlockersAreActive
<1> QED BY <1>2 DEF GP!Next

\* A thread leaves the region it was in.
LEMMA ExitKeepsBargain ==
    ASSUME NEW w, NEW o, Inductive(w, o), BlockersAreActive, NEW t \in Threads, ExitEpoch(t)
    PROVE  GP!Next /\ BlockersAreActive'
<1>1. t \in active
  BY DEF ExitEpoch, Goto, Inductive, Control, ControlOf, Region
<1>2. RetiredNodes' = RetiredNodes
  BY DEF ExitEpoch, RetiredNodes
<1>3. GP!Exit(t)
  BY <1>1, <1>2 DEF ExitEpoch, GP!Exit
<1>4. BlockersAreActive'
  BY DEF ExitEpoch, BlockersAreActive
<1> QED BY <1>3, <1>4 DEF GP!Next

\* A node that is not retired is retired, from inside a region.
LEMMA RetireKeepsBargain ==
    ASSUME NEW w, NEW o, Inductive(w, o), BlockersAreActive, NEW t \in Threads, t \in active,
           NEW p \in TaggedPtr, p.node \in Nodes, w[p.node] # "retired", Retire(t, p)
    PROVE  GP!Next /\ BlockersAreActive'
<1>1. PICK n : n = p.node
  OBVIOUS
<1>2. /\ blockers' = [blockers EXCEPT ![n] = active] /\ active' = active
      /\ retire_list' = [retire_list EXCEPT ![t] = Append(@, p)]
      /\ blockers \in [Nodes -> SUBSET Threads]
  BY <1>1 DEF Retire, Inductive, TypeOK
<1>3. RetiredBy(t)' = RetiredBy(t) \cup {p.node} /\ \A u \in Threads \ {t} : RetiredBy(u)' = RetiredBy(u)
  <2>1. retire_list' = [retire_list EXCEPT ![t] = Append(@, p)]
    BY <1>2
  <2> QED BY <2>1, RetireEffect
<1>4. n \notin RetiredNodes
  BY <1>1, RetiredNodesOf DEF Inductive, Located
<1>5. RetiredNodes' = RetiredNodes \cup {n}
  BY <1>1, <1>3, RetiredNodesOf
<1>6. n \in Nodes /\ GP!Retire(t, n)
  BY <1>1, <1>2, <1>4, <1>5 DEF GP!Retire
<1>7. BlockersAreActive'
  BY <1>1, <1>2 DEF BlockersAreActive
<1> QED BY <1>6, <1>7 DEF GP!Next

\* A retired node is released when nobody holds it up.
LEMMA ReleaseKeepsBargain ==
    ASSUME NEW w, NEW o, Inductive(w, o), BlockersAreActive, NEW s \in Threads,
           retire_list[s] # <<>>, retire_list' = [retire_list EXCEPT ![s] = Tail(@)],
           blockers[Head(retire_list[s]).node] = {}, UNCHANGED <<active, blockers>>
    PROVE  GP!Next /\ BlockersAreActive'
<1>1. PICK p, n : p = Head(retire_list[s]) /\ n = p.node
  OBVIOUS
<1>2. /\ n \in Nodes /\ w[n] = "retired" /\ o[n] = s
      /\ RetiredBy(s)' = RetiredBy(s) \ {n}
      /\ \A u \in Threads \ {s} : RetiredBy(u)' = RetiredBy(u)
  <2>1. n \in Nodes /\ w[n] = "retired" /\ o[n] = s
    <3>1. retire_list[s] \in Seq(TaggedPtr)
      BY DEF Inductive, TypeOK
    <3>2. 1 \in DOMAIN retire_list[s] /\ p = retire_list[s][1]
      BY <1>1, <3>1
    <3> QED BY <1>1, <3>2 DEF Inductive, Located, RetiredBy
  <2>2. LET r == Head(retire_list[s])
        IN  RetiredBy(s)' = RetiredBy(s) \ {r.node}
    BY UnretireEffect
  <2>3. \A u \in Threads \ {s} : RetiredBy(u)' = RetiredBy(u)
    BY UnretireEffect
  <2> QED BY <1>1, <2>1, <2>2, <2>3
<1>3. blockers[n] = {}
  BY <1>1
<1>4. \A u \in Threads : n \in RetiredBy(u) <=> u = s
  BY <1>2 DEF Inductive, Located
<1>5. n \in RetiredNodes /\ RetiredNodes' = RetiredNodes \ {n}
  BY <1>2, <1>4, RetiredNodesOf
<1>6. GP!Release(n)
  BY <1>3, <1>5 DEF GP!Release
<1>7. BlockersAreActive'
  BY DEF BlockersAreActive
<1> QED BY <1>2, <1>6, <1>7 DEF GP!Next

\* Every step of the queue is one of these, or none of the scheme's business.
LEMMA StepKeepsBargain ==
    ASSUME NEW w, NEW o, Inductive(w, o), BlockersAreActive, [Next]_vars
    PROVE  [GP!Next]_(GP!vars) /\ BlockersAreActive'
<1> USE DEF memory, cache, ebr, pointers, call
<1>1. ASSUME UNCHANGED <<active, retire_list, blockers>>
      PROVE  [GP!Next]_(GP!vars) /\ BlockersAreActive'
  BY <1>1, ReclamationUntouched
<1>2. CASE InitQueue
  BY <1>1, <1>2 DEF InitQueue
<1>3. ASSUME NEW t \in Threads, NEW v \in Values, CallPush(t, v)
      PROVE  [GP!Next]_(GP!vars) /\ BlockersAreActive'
  BY <1>1, <1>3 DEF CallPush
<1>4. ASSUME NEW t \in Threads, CallPop(t) \/ Leave(t)
      PROVE  [GP!Next]_(GP!vars) /\ BlockersAreActive'
  BY <1>1, <1>4 DEF CallPop, Leave
<1>5. ASSUME NEW t \in Threads, Step(t)
      PROVE  [GP!Next]_(GP!vars) /\ BlockersAreActive'
  <2>1. CASE PushEnter(t) \/ PopEnter(t)
    <3>1. t \notin active /\ EnterEpoch(t)
      BY <2>1 DEF PushEnter, PushEntersEpoch, PopEnter, Goto, Inductive, Control, ControlOf, Region
    <3> QED BY <3>1, EnterKeepsBargain
  <2>2. CASE ExitEpoch(t)
    BY <2>2, ExitKeepsBargain
  <2>3. CASE PopRetire(t)
    <3>1. t \in active /\ first[t] \in TaggedPtr /\ first[t].node \in Nodes
          /\ w[first[t].node] = "unlinked" /\ Retire(t, first[t])
      BY <2>3 DEF PopRetire, OldDummy, Goto, Inductive, TypeOK, Control, ControlOf, Region, Located
    <3> QED BY <3>1, RetireKeepsBargain
  <2>4. CASE Reclaim(t)
    BY <2>4, ReleaseKeepsBargain DEF Reclaim, GraceIsOver
  <2>5. CASE PushLoadTail(t) \/ PushLoadNext(t) \/ PushLink(t) \/ PushLinkFails(t)
             \/ PushSwing(t) \/ Help(t)
    BY <1>1, <2>5 DEF PushLoadTail, PushLoadNext, PushLink, PushLinkFails, PushSwing, Help
  <2>6. CASE PopLoadHead(t) \/ PopLoadTail(t) \/ PopEmpty(t) \/ PopLoadNext(t)
             \/ PopReadValue(t) \/ PopUnlink(t) \/ PopUnlinkFails(t) \/ ReclaimDone(t)
    BY <1>1, <2>6 DEF PopLoadHead, PopLoadTail, PopEmpty, PopLoadNext, PopReadValue, PopUnlink,
                      PopUnlinkFails, ReclaimDone
  <2> QED BY <1>5, <2>1, <2>2, <2>3, <2>4, <2>5, <2>6 DEF Step
<1>6. CASE Destroy
  <2>1. CASE DestroyEnter
    <3>1. Main \notin active /\ EnterEpoch(Main)
      BY <2>1, MainAssumption DEF DestroyEnter, Goto, Inductive, Control, ControlOf, Region
    <3> QED BY <3>1, EnterKeepsBargain, MainAssumption
  <2>2. CASE DestroyRetire
    <3>1. Main \in active /\ first[Main] \in TaggedPtr /\ Retire(Main, first[Main])
      BY <2>2, MainAssumption DEF DestroyRetire, Inductive, TypeOK, Control, ControlOf, Region
    <3>2. first[Main].node \in Nodes /\ w[first[Main].node] = "queue"
      <4>1. QueueStart = first[Main] /\ first[Main].node # NULL
        BY <2>2 DEF DestroyRetire, QueueStart
      <4>2. first[Main].node \in Reach(next_, first[Main])
        BY <4>1, ReachBasics DEF Inductive, Chains
      <4> QED BY <4>1, <4>2 DEF Inductive, Located
    <3> QED BY <3>1, <3>2, RetireKeepsBargain, MainAssumption
  <2>3. ASSUME NEW t \in Threads, Drain(t)
        PROVE  [GP!Next]_(GP!vars) /\ BlockersAreActive'
    <3>1. active = {}
      <4>1. \A u \in Threads : pc[u] \notin Region /\ ControlOf(u)
        BY <2>3 DEF Drain, Inductive, Control, Destroyed, OthersJoined, Region
      <4> QED BY <4>1 DEF ControlOf, Inductive, TypeOK
    <3>2. Head(retire_list[t]).node \in Nodes
      <4>1. /\ retire_list[t] # <<>> /\ retire_list' = [retire_list EXCEPT ![t] = Tail(@)]
        BY <2>3 DEF Drain
      <4> QED BY <4>1, UnretireEffect
    <3>3. blockers[Head(retire_list[t]).node] = {}
      BY <3>1, <3>2 DEF BlockersAreActive
    <3> QED BY <2>3, <3>3, ReleaseKeepsBargain DEF Drain
  <2>4. CASE DestroyExit \/ DrainDone \/ FreeCaches
    BY <1>1, <2>4 DEF DestroyExit, DrainDone, FreeCaches
  <2> QED BY <1>6, <2>1, <2>2, <2>3, <2>4 DEF Destroy
<1>7. CASE UNCHANGED vars
  BY <1>1, <1>7 DEF vars
<1> QED BY <1>2, <1>3, <1>4, <1>5, <1>6, <1>7 DEF Next, Terminated

\* push_back(), pop_front() and destroy() use the reclamation scheme as it wants
\* to be used: they enter and leave regions in turn, retire a node only from
\* inside a region and never twice, and exit_epoch() and destroy() release a node
\* only when nobody who was inside at its retirement is inside still.
THEOREM GracePeriodsCorrect == Spec => UsesGracePeriods
<1>1. InductiveInvariant /\ BlockersAreActive /\ [Next]_vars
         => [GP!Next]_(GP!vars) /\ BlockersAreActive'
  BY StepKeepsBargain DEF InductiveInvariant
<1> QED BY <1>1, InitialGracePeriods, QueueIsInductive, PTL DEF Spec, UsesGracePeriods, GP!Spec

-----------------------------------------------------------------------------
(* The values in the queue *)

\* QueueContents, as a function of the fields it looks at.
Contents(nx, vl, p) ==
    LET c == Chain(nx, p)
        linked == {k \in 1 .. Cardinality(Nodes) : c[k].node # NULL}
    IN  [k \in 1 .. Cardinality(linked) |-> vl[c[k].node]]

\* The values of all nodes of a list but the dummy, in their order.
ValuesOf(vl, q) == [k \in 1 .. Len(q) - 1 |-> vl[q[k + 1]]]

\* The contents before and after a step.
LEMMA QueueContentsIs ==
    /\ QueueContents = Contents(next_, value_, head_)
    /\ QueueContents' = Contents(next_', value_', head_')
BY DEF QueueContents, Contents

\* The contents of a queue, given the list of its nodes.
LEMMA ContentsOfList ==
    ASSUME NEW nx \in [Nodes -> TaggedPtr], NEW p \in TaggedPtr, NEW vl, NEW q,
           IsList(nx, p, q), q # <<>>
    PROVE  Contents(nx, vl, p) = ValuesOf(vl, q)
<1>1. Cardinality(Nodes) \in Nat /\ Len(q) <= Cardinality(Nodes) /\ Len(q) \in Nat /\ Len(q) # 0
  <2>1. q \in Seq(Nodes)
    BY DEF IsList
  <2>2. Len(q) \in Nat /\ Len(q) # 0
    BY <2>1, EmptySeq
  <2>3. Cardinality(Nodes) \in Nat /\ Len(q) <= Cardinality(Nodes)
    BY ListIsShort
  <2> QED BY <2>2, <2>3
<1>2. \A k \in 0 .. Cardinality(Nodes) :
         Chain(nx, p)[k].node = IF k < Len(q) THEN q[k + 1] ELSE NULL
  BY NodeAt
<1>3. PICK linked : linked = {k \in 1 .. Cardinality(Nodes) : Chain(nx, p)[k].node # NULL}
  OBVIOUS
<1>4. linked = 1 .. (Len(q) - 1)
  <2>1. ASSUME NEW k \in 1 .. Cardinality(Nodes)
        PROVE  Chain(nx, p)[k].node # NULL <=> k < Len(q)
    <3>1. k \in 0 .. Cardinality(Nodes)
      BY <1>1
    <3>2. CASE k < Len(q)
      <4>1. k + 1 \in 1 .. Len(q)
        BY <1>1, <3>2
      <4>2. q[k + 1] \in Nodes
        BY <4>1 DEF IsList
      <4> QED BY <1>2, <3>1, <3>2, <4>2, NullAssumption
    <3>3. CASE ~(k < Len(q))
      BY <1>2, <3>1, <3>3
    <3> QED BY <3>2, <3>3
  <2>2. \A k : k \in linked <=> k \in 1 .. Cardinality(Nodes) /\ k < Len(q)
    BY <1>3, <2>1
  <2>3. \A k : k \in 1 .. Cardinality(Nodes) /\ k < Len(q) <=> k \in 1 .. (Len(q) - 1)
    BY <1>1
  <2> QED BY <2>2, <2>3
<1>5. Cardinality(linked) = Len(q) - 1
  <2>1. Len(q) - 1 \in Int /\ 1 \in Int /\ Len(q) - 1 >= 0
    BY <1>1
  <2>2. Cardinality(1 .. (Len(q) - 1)) = IF 1 > Len(q) - 1 THEN 0 ELSE Len(q) - 1 - 1 + 1
    BY <2>1, FS_Interval
  <2>3. Cardinality(1 .. (Len(q) - 1)) = Len(q) - 1
    BY <2>1, <2>2
  <2> QED BY <1>4, <2>3
<1>6. \A k \in 1 .. Len(q) - 1 : Chain(nx, p)[k].node = q[k + 1]
  <2>1. ASSUME NEW k \in 1 .. Len(q) - 1
        PROVE  k \in 0 .. Cardinality(Nodes) /\ k < Len(q)
    BY <1>1
  <2> QED BY <1>2, <2>1
<1>7. Contents(nx, vl, p) = [k \in 1 .. Cardinality(linked) |-> vl[Chain(nx, p)[k].node]]
  BY <1>3 DEF Contents
<1> QED BY <1>5, <1>6, <1>7 DEF ValuesOf

\* Without a dummy there is nothing in the queue.
LEMMA ContentsOfNull ==
    ASSUME NEW nx \in [Nodes -> TaggedPtr], NEW vl
    PROVE  Contents(nx, vl, Null) = <<>>
<1>1. IsList(nx, Null, <<>>)
  BY NullIsTagged DEF IsList
<1>2. \A k \in 0 .. Cardinality(Nodes) : Chain(nx, Null)[k].node = NULL
  BY <1>1, NodeAt, NullIsTagged
<1>3. Cardinality(Nodes) \in Nat
  BY NodesAssumption, FS_CardinalityType
<1>4. {k \in 1 .. Cardinality(Nodes) : Chain(nx, Null)[k].node # NULL} = {}
  BY <1>2, <1>3
<1>5. Cardinality({}) = 0
  BY FS_EmptySet
<1>6. Contents(nx, vl, Null) = [k \in 1 .. 0 |-> vl[Chain(nx, Null)[k].node]]
  BY <1>4, <1>5 DEF Contents
<1> QED BY <1>6

\* The contents depend on the fields of the nodes in the queue only.
LEMMA ContentsFrame ==
    ASSUME NEW nx, NEW p, IsChain(nx, p), NEW vl, NEW nx2 \in [Nodes -> TaggedPtr], NEW vl2,
           p.node # NULL,
           \A n \in Reach(nx, p) : nx2[n] = nx[n] /\ vl2[n] = vl[n]
    PROVE  Contents(nx2, vl2, p) = Contents(nx, vl, p)
<1>1. PICK q : IsList(nx, p, q)
  BY DEF IsChain
<1>2. Reach(nx, p) = {q[i] : i \in 1 .. Len(q)} /\ q \in Seq(Nodes)
  <2>1. q \in Seq(Nodes)
    BY <1>1 DEF IsList
  <2> QED BY <1>1, <2>1, ReachOfList DEF IsChain
<1>3. IsList(nx2, p, q)
  BY <1>1, <1>2 DEF IsList
<1>4. q # <<>> /\ Len(q) \in Nat
  BY <1>1, <1>2 DEF IsList
<1>5. Contents(nx, vl, p) = ValuesOf(vl, q) /\ Contents(nx2, vl2, p) = ValuesOf(vl2, q)
  BY <1>1, <1>3, <1>4, ContentsOfList DEF IsChain
<1>6. \A k \in 1 .. Len(q) - 1 : vl2[q[k + 1]] = vl[q[k + 1]]
  <2>1. \A k \in 1 .. Len(q) - 1 : k + 1 \in 1 .. Len(q)
    BY <1>4
  <2> QED BY <1>2, <2>1
<1> QED BY <1>5, <1>6 DEF ValuesOf

\* What PushLink does to the contents.
LEMMA ContentsSnoc ==
    ASSUME NEW nx, NEW p, IsChain(nx, p), NEW vl,
           NEW n \in Reach(nx, p), nx[n].node = NULL,
           NEW r \in TaggedPtr, r.node \in Nodes \ Reach(nx, p), nx[r.node].node = NULL,
           NEW nx2 \in [Nodes -> TaggedPtr], nx2[n] = r, \A m \in Nodes \ {n} : nx2[m] = nx[m]
    PROVE  Contents(nx2, vl, p) = Append(Contents(nx, vl, p), vl[r.node])
<1>1. PICK q : IsList(nx, p, q)
  BY DEF IsChain
<1>2. Reach(nx, p) = {q[i] : i \in 1 .. Len(q)} /\ q \in Seq(Nodes) /\ Len(q) \in Nat
  <2>1. q \in Seq(Nodes) /\ Len(q) \in Nat
    BY <1>1 DEF IsList
  <2> QED BY <1>1, <2>1, ReachOfList DEF IsChain
<1>3. PICK s : s = Append(q, r.node)
  OBVIOUS
<1>4. IsList(nx2, p, s)
  BY <1>1, <1>3, ListSnoc DEF IsChain
<1>5. /\ Len(s) = Len(q) + 1 /\ s[Len(q) + 1] = r.node /\ \A i \in 1 .. Len(q) : s[i] = q[i]
      /\ Len(q) # 0 /\ q # <<>> /\ s # <<>>
  BY <1>2, <1>3
<1>6. Contents(nx, vl, p) = ValuesOf(vl, q) /\ Contents(nx2, vl, p) = ValuesOf(vl, s)
  BY <1>1, <1>4, <1>5, ContentsOfList DEF IsChain
<1>7. PICK S : \A i \in 1 .. Len(s) : vl[s[i]] \in S
  <2>1. \A i \in 1 .. Len(s) : vl[s[i]] \in {vl[s[j]] : j \in 1 .. Len(s)}
    OBVIOUS
  <2> QED BY <2>1
<1>8. PICK a, b : a = ValuesOf(vl, q) /\ b = ValuesOf(vl, s)
  OBVIOUS
<1>9. \A k \in 1 .. Len(q) - 1 : k + 1 \in 1 .. Len(q) /\ k + 1 \in 1 .. Len(s)
  BY <1>2, <1>5
<1>10. a \in Seq(S) /\ Len(a) = Len(q) - 1 /\ \A k \in 1 .. Len(q) - 1 : a[k] = vl[q[k + 1]]
  <2>1. \A k \in 1 .. Len(q) - 1 : vl[q[k + 1]] \in S
    BY <1>5, <1>7, <1>9
  <2>2. Len(q) - 1 \in Nat
    BY <1>2, <1>5
  <2> QED BY <1>8, <2>1, <2>2 DEF ValuesOf
<1>11. vl[r.node] \in S
  <2>1. Len(q) + 1 \in 1 .. Len(s)
    BY <1>2, <1>5
  <2> QED BY <1>5, <1>7, <2>1
<1>12. /\ Append(a, vl[r.node]) \in Seq(S)
       /\ Len(Append(a, vl[r.node])) = Len(q)
       /\ \A k \in 1 .. Len(q) - 1 : Append(a, vl[r.node])[k] = a[k]
       /\ Append(a, vl[r.node])[Len(q)] = vl[r.node]
  <2>1. Len(a) + 1 = Len(q)
    BY <1>2, <1>10
  <2> QED BY <1>10, <1>11, <2>1, AppendProperties
<1>13. b = [k \in 1 .. Len(q) |-> vl[s[k + 1]]]
  <2>1. Len(s) - 1 = Len(q)
    BY <1>2, <1>5
  <2> QED BY <1>8, <2>1 DEF ValuesOf
<1>14. \A k \in 1 .. Len(q) : vl[s[k + 1]] = Append(a, vl[r.node])[k]
  <2>1. ASSUME NEW k \in 1 .. Len(q), k # Len(q)
        PROVE  vl[s[k + 1]] = Append(a, vl[r.node])[k]
    <3>1. k \in 1 .. Len(q) - 1
      BY <1>2, <2>1
    <3> QED BY <1>5, <1>9, <1>10, <1>12, <3>1
  <2> QED BY <1>5, <1>12, <2>1
<1>15. b = Append(a, vl[r.node])
  <2>1. Append(a, vl[r.node]) = [k \in 1 .. Len(q) |-> Append(a, vl[r.node])[k]]
    BY <1>12
  <2> QED BY <1>13, <1>14, <2>1
<1> QED BY <1>6, <1>8, <1>15

\* What PopUnlink does to the contents.
LEMMA ContentsUncons ==
    ASSUME NEW nx, NEW p, IsChain(nx, p), p.node # NULL, NEW vl, nx[p.node].node # NULL
    PROVE  /\ Contents(nx, vl, p) # <<>>
           /\ Head(Contents(nx, vl, p)) = vl[nx[p.node].node]
           /\ Contents(nx, vl, nx[p.node]) = Tail(Contents(nx, vl, p))
<1>1. PICK q : IsList(nx, p, q)
  BY DEF IsChain
<1>2. q \in Seq(Nodes) /\ Len(q) \in Nat /\ q # <<>> /\ p.node = q[1]
      /\ Cardinality(Nodes) \in Nat /\ Len(q) <= Cardinality(Nodes) /\ 1 \in 1 .. Len(q)
  <2>1. q \in Seq(Nodes) /\ Len(q) \in Nat /\ q # <<>> /\ p.node = q[1]
    BY <1>1 DEF IsList
  <2> QED BY <1>1, <2>1, ListIsShort, EmptySeq
<1>3. 1 < Len(q) /\ nx[p.node].node = q[2]
  BY <1>1, <1>2 DEF IsList
<1>4. PICK s : s = SubSeq(q, 2, Len(q))
  OBVIOUS
<1>5. IsList(nx, nx[p.node], s) /\ nx[p.node] \in TaggedPtr
  <2>1. /\ Chain(nx, p)[1] \in TaggedPtr
        /\ IsList(nx, Chain(nx, p)[1], SubSeq(q, 1 + 1, Len(q)))
    <3>1. 1 \in 0 .. Len(q)
      BY <1>3, <1>2
    <3> QED BY <1>1, <3>1, ListDrop DEF IsChain
  <2>2. Chain(nx, p)[1] = nx[p.node]
    <3>1. Chain(nx, p) = PointersOf(nx, p, q)
      BY <1>1, ChainOfList DEF IsChain
    <3> QED BY <1>2, <1>3, <3>1 DEF PointersOf
  <2>3. 1 + 1 = 2
    OBVIOUS
  <2> QED BY <1>4, <2>1, <2>2, <2>3
<1>6. s \in Seq(Nodes) /\ Len(s) = Len(q) - 1 /\ s # <<>> /\ \A i \in 1 .. Len(q) - 1 : s[i] = q[i + 1]
  <2>1. s = Tail(q)
    BY <1>2, <1>4
  <2>2. Tail(q) \in Seq(Nodes) /\ Len(Tail(q)) = Len(q) - 1
        /\ \A i \in 1 .. Len(Tail(q)) : Tail(q)[i] = q[i + 1]
    BY <1>2, HeadTailProperties
  <2>3. Len(q) - 1 >= 1 /\ Len(s) # 0
    BY <1>2, <1>3, <2>1, <2>2
  <2> QED BY <2>1, <2>2, <2>3
<1>7. Contents(nx, vl, p) = ValuesOf(vl, q) /\ Contents(nx, vl, nx[p.node]) = ValuesOf(vl, s)
  BY <1>1, <1>2, <1>5, <1>6, ContentsOfList DEF IsChain
<1>8. PICK a, b : a = ValuesOf(vl, q) /\ b = ValuesOf(vl, s)
  OBVIOUS
<1>9. PICK S : S = {vl[q[j]] : j \in 1 .. Len(q)}
  OBVIOUS
<1>10. a \in Seq(S) /\ Len(a) = Len(q) - 1 /\ \A k \in 1 .. Len(q) - 1 : a[k] = vl[q[k + 1]]
  <2>1. \A k \in 1 .. Len(q) - 1 : k + 1 \in 1 .. Len(q)
    BY <1>2
  <2>2. Len(q) - 1 \in Nat
    BY <1>2, <1>3
  <2> QED BY <1>8, <1>9, <2>1, <2>2 DEF ValuesOf
<1>11. a # <<>> /\ a[1] = vl[q[2]]
  BY <1>2, <1>3, <1>10
<1>12. Head(a) = a[1] /\ Tail(a) \in Seq(S) /\ Len(Tail(a)) = Len(q) - 2
       /\ \A k \in 1 .. Len(q) - 2 : Tail(a)[k] = a[k + 1]
  <2>1. Tail(a) \in Seq(S) /\ Len(Tail(a)) = Len(a) - 1 /\ \A k \in 1 .. Len(Tail(a)) : Tail(a)[k] = a[k + 1]
    BY <1>10, <1>11, HeadTailProperties
  <2>2. Len(a) - 1 = Len(q) - 2
    BY <1>2, <1>10
  <2> QED BY <1>10, <1>11, <2>1, <2>2
<1>13. b = [k \in 1 .. Len(q) - 2 |-> vl[s[k + 1]]]
  <2>1. Len(s) - 1 = Len(q) - 2
    BY <1>2, <1>6
  <2> QED BY <1>8, <2>1 DEF ValuesOf
<1>14. ASSUME NEW k \in 1 .. Len(q) - 2
       PROVE  vl[s[k + 1]] = Tail(a)[k]
  <2>1. k + 1 \in 1 .. Len(q) - 1 /\ k \in Int
    BY <1>2
  <2>2. s[k + 1] = q[(k + 1) + 1] /\ a[k + 1] = vl[q[(k + 1) + 1]]
    BY <1>6, <1>10, <2>1
  <2> QED BY <1>12, <2>2
<1>15. b = Tail(a)
  <2>1. Tail(a) = [k \in 1 .. Len(Tail(a)) |-> Tail(a)[k]]
    <3>1. PICK z : z = Tail(a)
      OBVIOUS
    <3>2. z \in Seq(S)
      BY <1>12, <3>1
    <3>3. z = [k \in 1 .. Len(z) |-> z[k]]
      BY <3>2
    <3> QED BY <3>1, <3>3
  <2>2. Tail(a) = [k \in 1 .. Len(q) - 2 |-> Tail(a)[k]]
    BY <1>12, <2>1
  <2> QED BY <1>13, <1>14, <2>2
<1> QED BY <1>3, <1>7, <1>8, <1>11, <1>12, <1>15

\* A dummy without a successor is a queue without values.
LEMMA ContentsOfDummy ==
    ASSUME NEW nx, NEW p, IsChain(nx, p), p.node # NULL, NEW vl, nx[p.node].node = NULL
    PROVE  Contents(nx, vl, p) = <<>>
<1>1. PICK q : IsList(nx, p, q)
  BY DEF IsChain
<1>2. q \in Seq(Nodes) /\ Len(q) \in Nat /\ q # <<>> /\ p.node = q[1]
  BY <1>1 DEF IsList
<1>3. 1 \in 1 .. Len(q)
  BY <1>2, EmptySeq
<1>4. Len(q) = 1
  <2>1. ~(1 < Len(q))
    <3> SUFFICES ASSUME 1 < Len(q)
                 PROVE  FALSE
      OBVIOUS
    <3>1. 2 \in 1 .. Len(q) /\ q[2] \in Nodes
      BY <1>2
    <3>3. nx[q[1]].node = q[1 + 1]
      BY <1>1, <1>3 DEF IsList
    <3>2. q[1 + 1] = q[2]
      OBVIOUS
    <3> QED BY <1>2, <3>1, <3>2, <3>3, NullAssumption
  <2>2. Len(q) >= 1
    BY <1>2, <1>3
  <2>3. Len(q) \in Nat
    BY <1>2
  <2>4. PICK m \in Nat : m = Len(q)
    BY <2>3
  <2>5. ~(1 < m) /\ m >= 1
    BY <2>1, <2>2, <2>4
  <2>6. m = 1
    BY <2>5
  <2> QED BY <2>4, <2>6
<1>5. Contents(nx, vl, p) = ValuesOf(vl, q)
  BY <1>1, <1>2, ContentsOfList DEF IsChain
<1>6. ValuesOf(vl, q) = [k \in 1 .. 0 |-> vl[q[k + 1]]]
  BY <1>4 DEF ValuesOf
<1> QED BY <1>5, <1>6

-----------------------------------------------------------------------------
(* Every operation takes effect at one moment *)

\* What the operation of t has in val[t].
Payload(t) ==
    /\ op[t] = "none" => val[t] = NULL
    /\ Prepares(t) => value_[node[t].node] = val[t]
    /\ op[t] = "pop" /\ ~done[t] =>
          val[t] = IF pc[t] = "pop_cas" THEN value_[next[t].node] ELSE NULL

\* Every operation has the value it should have.
Payloads == \A t \in Threads : Payload(t)

\* The calls of the abstract queue see nothing of a step inside an operation.
LEMMA SilentStep ==
    ASSUME Payloads, NEW t \in Threads,
           UNCHANGED <<head_, next_, value_, op, done, val, node>>,
           \A u \in Threads \ {t} : pc'[u] = pc[u] /\ next'[u] = next[u],
           pc[t] # "pop_cas", pc'[t] # "pop_cas"
    PROVE  UNCHANGED JQ!vars /\ Payloads'
<1>1. QueueContents' = QueueContents
  BY QueueContentsIs
<1>2. VisibleVal' = VisibleVal
  BY DEF VisibleVal
<1>3. Payloads'
  BY DEF Payloads, Payload, Prepares
<1> QED BY <1>1, <1>2, <1>3 DEF JQ!vars

\* The threads a step leaves alone.
LEMMA OtherPayloads ==
    ASSUME Payloads, NEW t \in Threads, value_' = value_,
           \A u \in Threads \ {t} : /\ pc'[u] = pc[u] /\ next'[u] = next[u] /\ node'[u] = node[u]
                                    /\ op'[u] = op[u] /\ done'[u] = done[u] /\ val'[u] = val[u],
           Payload(t)'
    PROVE  Payloads'
BY DEF Payloads, Payload, Prepares

\* A step that changes a node outside the queue.
LEMMA ContentsUntouched ==
    ASSUME NEW w, NEW o, Inductive(w, o), NEW n \in Nodes, w[n] # "queue",
           next_' \in [Nodes -> TaggedPtr],
           \A m \in Nodes \ {n} : next_'[m] = next_[m] /\ value_'[m] = value_[m],
           head_' = head_, pc[Main] # "destroy"
    PROVE  QueueContents' = QueueContents
<1>1. QueueStart = head_
  BY DEF QueueStart
<1>2. CASE head_ = Null
  <2>1. next_ \in [Nodes -> TaggedPtr] /\ head_' = Null
    BY <1>2 DEF Inductive, TypeOK
  <2>2. Contents(next_, value_, Null) = <<>> /\ Contents(next_', value_', Null) = <<>>
    BY <2>1, ContentsOfNull
  <2> QED BY <1>2, <2>1, <2>2, QueueContentsIs
<1>3. CASE head_ # Null
  <2>1. IsChain(next_, head_) /\ Reach(next_, head_) = {k \in Nodes : w[k] = "queue"}
    BY <1>1 DEF Inductive, Chains, Located
  <2>2. head_.node # NULL
    BY <1>3, NullAssumption DEF Inductive, Control
  <2>3. \A m \in Reach(next_, head_) : next_'[m] = next_[m] /\ value_'[m] = value_[m]
    BY <2>1
  <2>4. Contents(next_', value_', head_) = Contents(next_, value_, head_)
    BY <2>1, <2>2, <2>3, ContentsFrame
  <2>5. QueueContents' = Contents(next_', value_', head_)
    BY QueueContentsIs
  <2> QED BY <2>4, <2>5, QueueContentsIs
<1> QED BY <1>2, <1>3

\* The queue is empty at the start.
LEMMA InitialQueue ==
    ASSUME Init
    PROVE  JQ!Init /\ Payloads
<1>1. QueueContents = <<>>
  <2>1. next_ \in [Nodes -> TaggedPtr] /\ head_ = Null
    BY NullIsTagged DEF Init
  <2> QED BY <2>1, ContentsOfNull, QueueContentsIs
<1>2. VisibleVal = [t \in Threads |-> NULL]
  BY DEF Init, VisibleVal
<1>3. Payloads
  BY DEF Init, Payloads, Payload, Prepares
<1> QED BY <1>1, <1>2, <1>3 DEF Init, JQ!Init

\* A push_back() begins: its value is in the prepared node, not in the queue.
LEMMA CallPushSimulates ==
    ASSUME NEW w, NEW o, Inductive(w, o), Payloads, NEW t \in Threads, NEW v \in Values,
           CallPush(t, v)
    PROVE  JQ!CallPush(t, v) /\ Payloads'
<1>1. /\ pc[t] = "idle" /\ pc \in [Threads -> Locations] /\ pc' = [pc EXCEPT ![t] = "push_enter"]
      /\ op[t] = "none" /\ ~done[t] /\ ~Destroyed /\ head_ # Null
  BY DEF CallPush, Goto, Initialized, Inductive, Control, ControlOf
<1>2. /\ op' = [op EXCEPT ![t] = "push"] /\ val' = [val EXCEPT ![t] = v]
      /\ UNCHANGED <<head_, next, done>>
  BY DEF CallPush
<1>3. pc[Main] \notin {"joined", "destroy"}
  BY <1>1 DEF Inductive, Control, Destroyed, OthersJoined
<1>4. PICK p \in Gettable(t) :
         Get(t, p, v) /\ node' = [node EXCEPT ![t] = IncrementTag(p)]
  BY DEF CallPush
<1>5. PICK n : n = p.node
  OBVIOUS
<1>6. /\ p \in TaggedPtr /\ n \in Nodes
      /\ w[n] \in {"heap", "cache"}
      /\ next_' = [next_ EXCEPT ![n] = Null] /\ next_' \in [Nodes -> TaggedPtr]
      /\ value_' = [value_ EXCEPT ![n] = v] /\ value_ \in [Nodes -> Values \cup {NULL}]
  <2>1. /\ p \in TaggedPtr /\ p.node \in Nodes
        /\ w[p.node] = "heap" \/ (w[p.node] = "cache" /\ o[p.node] = t)
        /\ next_' = [next_ EXCEPT ![p.node] = Null] /\ next_' \in [Nodes -> TaggedPtr]
    BY <1>3, <1>4, GetEffect
  <2>2. value_' = [value_ EXCEPT ![p.node] = v]
    BY <1>4 DEF Get
  <2> QED BY <1>5, <2>1, <2>2 DEF Inductive, TypeOK
<1>7. \A m \in Nodes \ {n} : next_'[m] = next_[m] /\ value_'[m] = value_[m]
  BY <1>6 DEF Inductive, TypeOK
<1>8. QueueContents' = QueueContents
  <2>1. w[n] # "queue" /\ next_' \in [Nodes -> TaggedPtr] /\ n \in Nodes
    BY <1>6
  <2>2. head_' = head_ /\ pc[Main] # "destroy"
    BY <1>2, <1>3
  <2> QED BY <1>7, <2>1, <2>2, ContentsUntouched
<1>9. \A u \in Threads \ {t} : op'[u] = op[u] /\ val'[u] = val[u] /\ node'[u] = node[u] /\ pc'[u] = pc[u]
  BY <1>1, <1>2, <1>4 DEF Inductive, TypeOK
<1>10. op'[t] = "push" /\ val'[t] = v /\ pc'[t] = "push_enter" /\ node'[t].node = n
  BY <1>1, <1>2, <1>4, <1>5, <1>6 DEF Inductive, TypeOK, IncrementTag, TaggedPtr
<1>11. VisibleVal' = [VisibleVal EXCEPT ![t] = v]
  <2>1. \A u \in Threads \ {t} : VisibleVal'[u] = VisibleVal[u]
    BY <1>2, <1>9 DEF VisibleVal
  <2>2. VisibleVal'[t] = v
    BY <1>10 DEF VisibleVal
  <2>3. VisibleVal' = [u \in Threads |-> VisibleVal'[u]]
    BY DEF VisibleVal
  <2>4. VisibleVal = [u \in Threads |-> VisibleVal[u]]
    BY DEF VisibleVal
  <2> HIDE DEF VisibleVal
  <2> QED BY <2>1, <2>2, <2>3, <2>4
<1>12. ASSUME NEW u \in Threads
       PROVE  Payload(u)'
  <2>1. CASE u = t
    BY <1>6, <1>10, <2>1 DEF Payload
  <2>2. CASE u # t
    <3>1. Payload(u)
      BY DEF Payloads
    <3>2. ASSUME Prepares(u)
          PROVE  value_'[node[u].node] = value_[node[u].node]
      <4>1. node[u].node \in Nodes /\ w[node[u].node] = "prepared"
        BY <3>2 DEF Inductive, Located
      <4> QED BY <1>6, <1>7, <4>1
    <3>3. ASSUME pc[u] = "pop_cas"
          PROVE  value_'[next[u].node] = value_[next[u].node]
      <4>1. Protected(w, u, next[u].node)
        BY <3>3 DEF Inductive, Local, HoldsFirst, Holds
      <4>2. next[u].node \in Nodes /\ next[u].node # n
        BY <1>6, <4>1 DEF Protected
      <4> QED BY <1>7, <4>2
    <3>4. /\ op'[u] = op[u] /\ done'[u] = done[u] /\ val'[u] = val[u] /\ node'[u] = node[u]
          /\ pc'[u] = pc[u] /\ next'[u] = next[u]
      BY <1>2, <1>9, <2>2
    <3>5. Prepares(u)' <=> Prepares(u)
      BY <3>4 DEF Prepares
    <3>6. Prepares(u)' => value_'[node'[u].node] = val'[u]
      BY <3>1, <3>2, <3>4, <3>5 DEF Payload
    <3> QED BY <3>1, <3>3, <3>4, <3>6 DEF Payload
  <2> QED BY <2>1, <2>2
<1> QED BY <1>1, <1>2, <1>8, <1>11, <1>12 DEF JQ!CallPush, Payloads

\* A pop_front() begins.
LEMMA CallPopSimulates ==
    ASSUME NEW w, NEW o, Inductive(w, o), Payloads, NEW t \in Threads, CallPop(t)
    PROVE  JQ!CallPop(t) /\ Payloads'
<1>1. /\ pc[t] = "idle" /\ pc \in [Threads -> Locations] /\ pc' = [pc EXCEPT ![t] = "pop_enter"]
      /\ op[t] = "none" /\ op' = [op EXCEPT ![t] = "pop"] /\ ~done[t]
      /\ UNCHANGED <<head_, next_, value_, next, node, done, val>>
  BY DEF CallPop, Goto, memory, pointers, Inductive, Control, ControlOf
<1>2. op'[t] = "pop" /\ pc'[t] = "pop_enter"
      /\ \A u \in Threads \ {t} : op'[u] = op[u] /\ pc'[u] = pc[u]
  BY <1>1 DEF Inductive, TypeOK
<1>3. val[t] = NULL
  BY <1>1 DEF Payloads, Payload
<1>4. QueueContents' = QueueContents
  BY <1>1, QueueContentsIs
<1>5. VisibleVal' = VisibleVal
  BY <1>1, <1>2, <1>3 DEF VisibleVal
<1>6. Payload(t)'
  BY <1>1, <1>2, <1>3 DEF Payload, Prepares
<1>7. Payloads'
  BY <1>1, <1>2, <1>6, OtherPayloads
<1> QED BY <1>1, <1>4, <1>5, <1>7 DEF JQ!CallPop

\* The CAS on next_ is where push_back() takes effect: the prepared node goes
\* behind the last one, whatever tail_ says.
LEMMA PushLinkSimulates ==
    ASSUME NEW w, NEW o, Inductive(w, o), Payloads, NEW t \in Threads, PushLink(t)
    PROVE  JQ!Push(t) /\ Payloads'
<1>1. /\ pc[t] = "push_link" /\ pc \in [Threads -> Locations] /\ pc' = [pc EXCEPT ![t] = "push_swing"]
      /\ op[t] = "push" /\ ~done[t] /\ Prepares(t)
  BY DEF PushLink, Goto, Inductive, Control, ControlOf, Prepares
<1>2. PICK n, m : n = last[t].node /\ m = node[t].node
  OBVIOUS
<1>3. /\ next_' = [next_ EXCEPT ![n] = node[t]]
      /\ done' = [done EXCEPT ![t] = TRUE]
      /\ next_[n] = next[t]
      /\ UNCHANGED <<head_, value_, next, node, op, val>>
  BY <1>2 DEF PushLink, CanLink, cache, ebr, pointers
<1>4. n \in Nodes /\ next_[n].node = NULL /\ w[n] = "queue"
  <2>1. HoldsLast(w, t) /\ next[t].node = NULL
    BY <1>1 DEF Inductive, Local
  <2>2. tail_.node = n
    BY <1>2, <1>3, <2>1 DEF HoldsLast
  <2> QED BY <1>1, <1>3, <2>1, <2>2, InOperation
<1>5. head_ # Null /\ QueueStart = head_
  BY <1>1, InOperation
<1>6. IsChain(next_, head_) /\ Reach(next_, head_) = {k \in Nodes : w[k] = "queue"}
  BY <1>5 DEF Inductive, Chains, Located
<1>7. m \in Nodes /\ w[m] = "prepared" /\ next_[m].node = NULL /\ node[t] \in TaggedPtr
  BY <1>1, <1>2 DEF Inductive, Located, Fields, TypeOK
<1>8. /\ next_' \in [Nodes -> TaggedPtr] /\ next_'[n] = node[t]
      /\ \A k \in Nodes \ {n} : next_'[k] = next_[k]
  BY <1>3, <1>4, <1>7 DEF Inductive, TypeOK
<1>9. Contents(next_', value_, head_) = Append(Contents(next_, value_, head_), value_[node[t].node])
  <2>1. /\ n \in Reach(next_, head_) /\ next_[n].node = NULL
        /\ node[t].node \in Nodes \ Reach(next_, head_) /\ next_[node[t].node].node = NULL
    BY <1>2, <1>4, <1>6, <1>7
  <2>2. IsChain(next_, head_) /\ node[t] \in TaggedPtr
    BY <1>6, <1>7
  <2>3. PICK nx, r, a, vl, h : nx = next_' /\ r = node[t] /\ a = next_ /\ vl = value_ /\ h = head_
    OBVIOUS
  <2>4. /\ IsChain(a, h) /\ n \in Reach(a, h) /\ a[n].node = NULL
        /\ r \in TaggedPtr /\ r.node \in Nodes \ Reach(a, h) /\ a[r.node].node = NULL
        /\ nx \in [Nodes -> TaggedPtr] /\ nx[n] = r
    BY <1>8, <2>1, <2>2, <2>3
  <2>5. \A k \in Nodes \ {n} : nx[k] = a[k]
    BY <1>8, <2>3
  <2>6. Contents(nx, vl, h) = Append(Contents(a, vl, h), vl[r.node])
    BY <2>4, <2>5, ContentsSnoc
  <2> QED BY <2>3, <2>6
<1>10. value_[node[t].node] = val[t] /\ VisibleVal[t] = val[t]
  BY <1>1 DEF Payloads, Payload, VisibleVal
<1>11. QueueContents' = Append(QueueContents, VisibleVal[t])
  <2>1. QueueContents' = Contents(next_', value_, head_)
    <3>1. value_' = value_ /\ head_' = head_
      BY <1>3
    <3> QED BY <3>1, QueueContentsIs
  <2> QED BY <1>9, <1>10, <2>1, QueueContentsIs
<1>12. done'[t] /\ (\A u \in Threads \ {t} : done'[u] = done[u] /\ pc'[u] = pc[u])
  BY <1>1, <1>3 DEF Inductive, TypeOK
<1>13. VisibleVal' = VisibleVal
  BY <1>1, <1>3, <1>12 DEF VisibleVal
<1>14. Payload(t)'
  BY <1>1, <1>3, <1>12 DEF Payload, Prepares
<1>15. Payloads'
  BY <1>3, <1>12, <1>14, OtherPayloads
<1> QED BY <1>1, <1>3, <1>11, <1>13, <1>15 DEF JQ!Push

\* A pop_front() that returns nothing takes effect at its load of next_, when the
\* dummy it read is still the dummy.
LEMMA PopEmptySimulates ==
    ASSUME NEW w, NEW o, Inductive(w, o), Payloads, NEW t \in Threads, PopEmpty(t)
    PROVE  JQ!PopEmpty(t) /\ Payloads'
<1>1. /\ pc[t] = "pop_next" /\ pc \in [Threads -> Locations] /\ pc' = [pc EXCEPT ![t] = "exit"]
      /\ op[t] = "pop" /\ ~done[t]
  BY DEF PopEmpty, Goto, Inductive, Control, ControlOf
<1>2. /\ done' = [done EXCEPT ![t] = TRUE] /\ next_[first[t].node].node = NULL
      /\ UNCHANGED <<head_, next_, value_, next, node, op, val>>
  BY DEF PopEmpty, LooksEmpty, memory, pointers
<1>3. QueueContents = <<>>
  <2>1. head_.node = first[t].node
    BY <1>1, <1>2 DEF Inductive, Local, HoldsFirst
  <2>2. QueueStart = head_ /\ head_.node \in Nodes
    BY <1>1, InOperation
  <2>3. IsChain(next_, head_) /\ head_.node # NULL /\ next_[head_.node].node = NULL
    BY <1>2, <2>1, <2>2, NullAssumption DEF Inductive, Chains
  <2> QED BY <2>3, ContentsOfDummy, QueueContentsIs
<1>4. QueueContents' = QueueContents
  BY <1>2, QueueContentsIs
<1>5. val[t] = NULL
  BY <1>1 DEF Payloads, Payload
<1>6. done'[t] /\ \A u \in Threads \ {t} : done'[u] = done[u] /\ pc'[u] = pc[u]
  BY <1>1, <1>2 DEF Inductive, TypeOK
<1>7. VisibleVal' = VisibleVal
  BY <1>1, <1>2, <1>5, <1>6 DEF VisibleVal
<1>8. Payload(t)'
  BY <1>1, <1>2, <1>6 DEF Payload, Prepares
<1>9. Payloads'
  BY <1>2, <1>6, <1>8, OtherPayloads
<1> QED BY <1>1, <1>2, <1>3, <1>4, <1>7, <1>9 DEF JQ!PopEmpty

\* The CAS on head_ is where pop_front() takes effect: what it read before is the
\* value of the first node still, for next is still the successor of the dummy.
LEMMA PopUnlinkSimulates ==
    ASSUME NEW w, NEW o, Inductive(w, o), Payloads, NEW t \in Threads, PopUnlink(t)
    PROVE  JQ!Pop(t) /\ Payloads'
<1>1. /\ pc[t] = "pop_cas" /\ pc \in [Threads -> Locations] /\ pc' = [pc EXCEPT ![t] = "pop_retire"]
      /\ op[t] = "pop" /\ ~done[t]
  BY DEF PopUnlink, Goto, Inductive, Control, ControlOf
<1>2. /\ done' = [done EXCEPT ![t] = TRUE] /\ head_ = first[t] /\ head_' = next[t]
      /\ UNCHANGED <<next_, value_, next, node, op, val>>
  BY DEF PopUnlink, CanUnlink, memory, pointers
<1>3. /\ IsChain(next_, head_) /\ head_.node # NULL
      /\ next_[head_.node] = next[t] /\ next[t].node # NULL
  <2>1. QueueStart = head_ /\ head_.node \in Nodes
    BY <1>1, InOperation
  <2> QED BY <1>1, <1>2, <2>1, NullAssumption DEF Inductive, Chains, Local
<1>4. /\ Contents(next_, value_, head_) # <<>>
      /\ Head(Contents(next_, value_, head_)) = value_[next_[head_.node].node]
      /\ Contents(next_, value_, next_[head_.node]) = Tail(Contents(next_, value_, head_))
  BY <1>3, ContentsUncons
<1>5. val[t] = value_[next[t].node]
  BY <1>1 DEF Payloads, Payload
<1>6. QueueContents # <<>> /\ Head(QueueContents) = val[t]
  BY <1>3, <1>4, <1>5, QueueContentsIs
<1>7. QueueContents' = Tail(QueueContents)
  <2>1. QueueContents' = Contents(next_, value_, next[t])
    BY <1>2, QueueContentsIs
  <2> QED BY <1>3, <1>4, <2>1, QueueContentsIs
<1>8. done'[t] /\ (\A u \in Threads \ {t} : done'[u] = done[u] /\ pc'[u] = pc[u])
      /\ pc'[t] = "pop_retire"
  BY <1>1, <1>2 DEF Inductive, TypeOK
<1>9. VisibleVal' = [VisibleVal EXCEPT ![t] = Head(QueueContents)]
  <2>1. VisibleVal' = [VisibleVal EXCEPT ![t] = val[t]]
    BY <1>1, <1>2, <1>8 DEF VisibleVal
  <2> QED BY <1>6, <2>1
<1>10. Payload(t)'
  BY <1>1, <1>2, <1>8 DEF Payload, Prepares
<1>11. Payloads'
  BY <1>2, <1>8, <1>10, OtherPayloads
<1> QED BY <1>1, <1>2, <1>6, <1>7, <1>9, <1>11 DEF JQ!Pop
\* A value read by a pop_front() whose CAS may fail does not count yet.
LEMMA ReadValueSimulates ==
    ASSUME NEW w, NEW o, Inductive(w, o), Payloads, NEW t \in Threads,
           PopReadValue(t) \/ PopUnlinkFails(t)
    PROVE  UNCHANGED JQ!vars /\ Payloads'
<1>1. /\ op[t] = "pop" /\ ~done[t] /\ pc \in [Threads -> Locations]
      /\ val \in [Threads -> Values \cup {NULL}]
  BY DEF PopReadValue, PopUnlinkFails, Goto, Inductive, Control, ControlOf, TypeOK
<1>2. UNCHANGED <<head_, next_, value_, next, node, op, done>>
  BY DEF PopReadValue, PopUnlinkFails, memory, pointers
<1>3. \/ pc' = [pc EXCEPT ![t] = "pop_cas"] /\ val' = [val EXCEPT ![t] = value_[next[t].node]]
      \/ pc' = [pc EXCEPT ![t] = "exit"] /\ val' = [val EXCEPT ![t] = NULL]
  BY DEF PopReadValue, PopUnlinkFails, Goto
<1>4. \A u \in Threads \ {t} : pc'[u] = pc[u] /\ val'[u] = val[u]
  BY <1>1, <1>3
<1>5. \/ pc'[t] = "pop_cas" /\ val'[t] = value_[next[t].node]
      \/ pc'[t] = "exit" /\ val'[t] = NULL
  BY <1>1, <1>3
<1>6. QueueContents' = QueueContents
  BY <1>2, QueueContentsIs
<1>7. VisibleVal' = VisibleVal
  BY <1>1, <1>2, <1>4 DEF VisibleVal
<1>8. Payload(t)'
  BY <1>1, <1>2, <1>5 DEF Payload, Prepares
<1>9. Payloads'
  BY <1>2, <1>4, <1>8, OtherPayloads
<1> QED BY <1>2, <1>6, <1>7, <1>9 DEF JQ!vars

\* The operation returns if it took effect, and starts over otherwise.
LEMMA ReturnSimulates ==
    ASSUME NEW w, NEW o, Inductive(w, o), Payloads, NEW t \in Threads, ReclaimDone(t)
    PROVE  (JQ!Return(t) \/ UNCHANGED JQ!vars) /\ Payloads'
<1>1. /\ pc[t] = "reclaim" /\ pc \in [Threads -> Locations]
      /\ pc' = [pc EXCEPT ![t] = AfterExit(t)]
      /\ UNCHANGED <<head_, next_, value_>> /\ next' = [next EXCEPT ![t] = Null]
      /\ next \in [Threads -> TaggedPtr] /\ node \in [Threads -> TaggedPtr]
  BY DEF ReclaimDone, Goto, memory, Inductive, Control, TypeOK
<1>2. /\ pc'[t] = AfterExit(t) /\ pc'[t] # "pop_cas"
      /\ \A u \in Threads \ {t} : pc'[u] = pc[u] /\ next'[u] = next[u]
  BY <1>1 DEF AfterExit
<1>3. CASE ~done[t]
  <2>1. UNCHANGED <<node, op, done, val>>
    BY <1>3 DEF ReclaimDone, call
  <2>2. /\ UNCHANGED <<head_, next_, value_, op, done, val, node>>
        /\ pc[t] # "pop_cas" /\ pc'[t] # "pop_cas"
    BY <1>1, <1>2, <2>1
  <2> QED BY <1>2, <2>2, SilentStep
<1>4. CASE done[t]
  <2>1. /\ node' = [node EXCEPT ![t] = Null] /\ op' = [op EXCEPT ![t] = "none"]
        /\ done' = [done EXCEPT ![t] = FALSE] /\ val' = [val EXCEPT ![t] = NULL]
    BY <1>4 DEF ReclaimDone
  <2>2. op'[t] = "none" /\ ~done'[t] /\ val'[t] = NULL
    BY <2>1 DEF Inductive, TypeOK
  <2>3. \A u \in Threads \ {t} : /\ op'[u] = op[u] /\ done'[u] = done[u] /\ val'[u] = val[u]
                                 /\ node'[u] = node[u]
    BY <2>1 DEF Inductive, TypeOK
  <2>4. VisibleVal' = [VisibleVal EXCEPT ![t] = NULL]
    BY <2>2, <2>3 DEF VisibleVal
  <2>5. QueueContents' = QueueContents
    BY <1>1, QueueContentsIs
  <2>6. Payload(t)'
    BY <2>2 DEF Payload, Prepares
  <2>7. value_' = value_
    BY <1>1
  <2>8. Payloads'
    BY <1>2, <2>3, <2>6, <2>7, OtherPayloads
  <2> QED BY <1>4, <2>1, <2>4, <2>5, <2>8 DEF JQ!Return
<1> QED BY <1>3, <1>4

\* A queue that has only its dummy is as empty as one without.
LEMMA InitQueueSimulates ==
    ASSUME NEW w, NEW o, Inductive(w, o), Payloads, InitQueue
    PROVE  UNCHANGED JQ!vars /\ Payloads'
<1>1. /\ pc[Main] = "idle" /\ head_ = Null /\ pc' = pc
      /\ UNCHANGED <<next, node, op, done, val>>
  BY DEF InitQueue, Initialized, pointers, call
<1>2. \A t \in Threads : op[t] = "none" /\ val[t] = NULL
  <2>1. \A t \in Threads : pc[t] = "idle"
    BY <1>1 DEF Inductive, Control, Destroyed
  <2> QED BY <2>1 DEF Inductive, Control, ControlOf, Payloads, Payload
<1>3. PICK dummy \in Gettable(Main) : Get(Main, dummy, NULL) /\ head_' = dummy
  BY DEF InitQueue
<1>4. dummy \in TaggedPtr /\ dummy.node \in Nodes /\ next_' = [next_ EXCEPT ![dummy.node] = Null]
  <2>1. pc[Main] # "joined"
    BY <1>1
  <2> QED BY <1>3, <2>1, MainAssumption, GetEffect
<1>5. QueueContents = <<>>
  <2>1. next_ \in [Nodes -> TaggedPtr]
    BY DEF Inductive, TypeOK
  <2> QED BY <1>1, <2>1, ContentsOfNull, QueueContentsIs
<1>6. IsChain(next_', head_')
  <2>1. PICK w2, o2 : Inductive(w2, o2)'
    BY InitQueueStep
  <2>2. QueueStart' = head_'
    BY <1>1 DEF QueueStart
  <2> QED BY <2>1, <2>2 DEF Inductive, Chains
<1>7. QueueContents' = <<>>
  <2>1. PICK nx, p, vl : nx = next_' /\ p = head_' /\ vl = value_'
    OBVIOUS
  <2>2. nx[p.node].node = NULL /\ p.node # NULL
    BY <1>3, <1>4, <2>1, NullAssumption DEF Inductive, TypeOK, Null, Ptr
  <2>3. IsChain(nx, p)
    BY <1>6, <2>1
  <2>4. Contents(nx, vl, p) = <<>>
    BY <2>2, <2>3, ContentsOfDummy
  <2> QED BY <2>1, <2>4, QueueContentsIs
<1>8. VisibleVal' = VisibleVal
  BY <1>1 DEF VisibleVal
<1>9. Payloads'
  BY <1>1, <1>2 DEF Payloads, Payload, Prepares
<1> QED BY <1>1, <1>5, <1>7, <1>8, <1>9 DEF JQ!vars

\* destroy() drops what is left.
LEMMA DiscardSimulates ==
    ASSUME NEW w, NEW o, Inductive(w, o), Payloads, DestroyExit
    PROVE  JQ!Discard /\ Payloads'
<1>1. /\ pc[Main] = "destroy" /\ head_' = Null
      /\ UNCHANGED <<next_, value_, node, next, op, done, val>>
  BY DEF DestroyExit, Goto, memory, pointers, call
<1>2. \A t \in Threads : op[t] = "none"
  BY <1>1 DEF Inductive, Control, ControlOf, OthersJoined
<1>3. QueueContents' = <<>>
  <2>1. next_ \in [Nodes -> TaggedPtr] /\ next_' = next_
    BY <1>1 DEF Inductive, TypeOK
  <2>2. Contents(next_, value_, Null) = <<>>
    BY <2>1, ContentsOfNull
  <2> QED BY <1>1, <2>2, QueueContentsIs
<1>4. VisibleVal' = VisibleVal
  BY <1>1 DEF VisibleVal
<1>5. Payloads'
  BY <1>1, <1>2 DEF Payloads, Payload, Prepares
<1> QED BY <1>1, <1>2, <1>3, <1>4, <1>5 DEF JQ!Discard

\* Releasing a node changes nothing that is in the queue.
LEMMA ReleaseSimulates ==
    ASSUME NEW w, NEW o, Inductive(w, o), Payloads, NEW t \in Threads, NEW s \in Threads,
           pc[Main] \notin {"destroy", "joined"},
           retire_list[s] # <<>>, retire_list' = [retire_list EXCEPT ![s] = Tail(@)],
           Release(t, Head(retire_list[s])),
           UNCHANGED <<head_, pc, next, node, op, done, val>>
    PROVE  UNCHANGED JQ!vars /\ Payloads'
<1>1. PICK p, n : p = Head(retire_list[s]) /\ n = p.node
  OBVIOUS
<1>2. p \in TaggedPtr /\ n \in Nodes /\ w[n] = "retired" /\ Release(t, p)
  <2>1. LET r == Head(retire_list[s])
        IN  r \in TaggedPtr /\ r.node \in Nodes /\ w[r.node] = "retired"
    BY UnretireEffect
  <2> QED BY <1>1, <2>1
<1>3. next_' \in [Nodes -> TaggedPtr] /\ \A m \in Nodes \ {n} : next_'[m] = next_[m]
  BY <1>1, <1>2, ReleaseEffect
<1>4. value_' = value_
  BY <1>2 DEF Release
<1>5. QueueContents' = QueueContents
  <2>1. \A m \in Nodes \ {n} : next_'[m] = next_[m] /\ value_'[m] = value_[m]
    BY <1>3, <1>4
  <2>2. w[n] # "queue" /\ head_' = head_ /\ pc[Main] # "destroy" /\ next_' \in [Nodes -> TaggedPtr]
    BY <1>2, <1>3
  <2> QED BY <1>2, <2>1, <2>2, ContentsUntouched
<1>6. VisibleVal' = VisibleVal
  BY DEF VisibleVal
<1>7. Payloads'
  BY <1>4 DEF Payloads, Payload, Prepares
<1> QED BY <1>5, <1>6, <1>7 DEF JQ!vars

\* The steps inside an operation.
LEMMA StepSimulates ==
    ASSUME NEW w, NEW o, Inductive(w, o), Payloads, NEW t \in Threads, Step(t)
    PROVE  [JQ!Next]_(JQ!vars) /\ Payloads'
<1>1. pc \in [Threads -> Locations] /\ next \in [Threads -> TaggedPtr]
  BY DEF Inductive, Control, TypeOK
<1>2. ASSUME UNCHANGED <<head_, memory, node, call>>, NEW x \in Locations, NEW y \in Locations,
             Goto(t, x, y), x # "pop_cas", y # "pop_cas",
             \A u \in Threads \ {t} : next'[u] = next[u]
      PROVE  [JQ!Next]_(JQ!vars) /\ Payloads'
  <2>1. \A u \in Threads \ {t} : pc'[u] = pc[u] /\ next'[u] = next[u]
    BY <1>1, <1>2 DEF Goto
  <2>2. /\ UNCHANGED <<head_, next_, value_, op, done, val, node>>
        /\ pc[t] # "pop_cas" /\ pc'[t] # "pop_cas"
    BY <1>1, <1>2 DEF Goto, memory, call
  <2> QED BY <2>1, <2>2, SilentStep
<1> USE DEF pointers
<1>3. CASE PushEnter(t)
  BY <1>2, <1>3 DEF PushEnter, Locations, Region
<1>4. CASE PushLoadTail(t)
  BY <1>2, <1>4 DEF PushLoadTail, Locations, Region
<1>5. CASE PushLoadNext(t)
  <2>1. \A u \in Threads \ {t} : next'[u] = next[u]
    BY <1>1, <1>5 DEF PushLoadNext
  <2>2. Goto(t, "push_next", "push_link") \/ Goto(t, "push_next", "help")
    BY <1>5 DEF PushLoadNext
  <2> QED BY <1>2, <1>5, <2>1, <2>2 DEF PushLoadNext, Locations, Region
<1>6. CASE PushLink(t)
  BY <1>6, PushLinkSimulates DEF JQ!Next
<1>7. CASE PushLinkFails(t)
  BY <1>2, <1>7 DEF PushLinkFails, Locations, Region
<1>8. CASE PushSwing(t)
  BY <1>2, <1>8 DEF PushSwing, Locations, Region
<1>9. CASE Help(t)
  BY <1>2, <1>9 DEF Help, Locations, Region
<1>10. CASE PopEnter(t)
  BY <1>2, <1>10 DEF PopEnter, Locations, Region
<1>11. CASE PopLoadHead(t)
  BY <1>2, <1>11 DEF PopLoadHead, Locations, Region
<1>12. CASE PopLoadTail(t)
  BY <1>2, <1>12 DEF PopLoadTail, Locations, Region
<1>13. CASE PopEmpty(t)
  BY <1>13, PopEmptySimulates DEF JQ!Next
<1>14. CASE PopLoadNext(t)
  <2>1. \A u \in Threads \ {t} : next'[u] = next[u]
    BY <1>1, <1>14 DEF PopLoadNext
  <2>2. \/ Goto(t, "pop_next", "help") \/ Goto(t, "pop_next", "pop_value")
        \/ Goto(t, "pop_next", "exit")
    BY <1>14 DEF PopLoadNext
  <2>3. UNCHANGED <<head_, memory, node, call>>
    BY <1>14 DEF PopLoadNext
  <2> QED BY <1>2, <2>1, <2>2, <2>3 DEF Locations, Region
<1>15. CASE PopReadValue(t) \/ PopUnlinkFails(t)
  BY <1>15, ReadValueSimulates
<1>16. CASE PopUnlink(t)
  BY <1>16, PopUnlinkSimulates DEF JQ!Next
<1>17. CASE PopRetire(t)
  BY <1>2, <1>17 DEF PopRetire, Locations, Region
<1>18. CASE ExitEpoch(t)
  BY <1>2, <1>18 DEF ExitEpoch, Locations, Region
<1>19. CASE Reclaim(t)
  <2>1. pc[Main] \notin {"destroy", "joined"}
    BY <1>19 DEF Reclaim, Inductive, Control, Destroyed, OthersJoined
  <2> QED BY <1>19, <2>1, ReleaseSimulates DEF Reclaim, call
<1>20. CASE ReclaimDone(t)
  BY <1>20, ReturnSimulates DEF JQ!Next
<1> QED BY <1>3, <1>4, <1>5, <1>6, <1>7, <1>8, <1>9, <1>10, <1>11, <1>12, <1>13, <1>14, <1>15,
           <1>16, <1>17, <1>18, <1>19, <1>20 DEF Step

\* Every step of the code is a step of the abstract queue, or none.
LEMMA EveryStepSimulates ==
    ASSUME NEW w, NEW o, Inductive(w, o), Payloads, [Next]_vars
    PROVE  [JQ!Next]_(JQ!vars) /\ Payloads'
<1>1. CASE InitQueue
  BY <1>1, InitQueueSimulates
<1>2. ASSUME NEW t \in Threads, NEW v \in Values, CallPush(t, v)
      PROVE  [JQ!Next]_(JQ!vars) /\ Payloads'
  BY <1>2, CallPushSimulates DEF JQ!Next
<1>3. ASSUME NEW t \in Threads, CallPop(t)
      PROVE  [JQ!Next]_(JQ!vars) /\ Payloads'
  BY <1>3, CallPopSimulates DEF JQ!Next
<1>4. ASSUME NEW t \in Threads, NEW x \in Locations, NEW y \in Locations, Goto(t, x, y),
             x # "pop_cas", y # "pop_cas", UNCHANGED <<head_, next_, value_, next, node, call>>
      PROVE  [JQ!Next]_(JQ!vars) /\ Payloads'
  <2>1. /\ UNCHANGED <<head_, next_, value_, op, done, val, node>>
        /\ pc[t] # "pop_cas" /\ pc'[t] # "pop_cas"
    BY <1>4 DEF Goto, call, Inductive, Control
  <2>2. \A u \in Threads \ {t} : pc'[u] = pc[u] /\ next'[u] = next[u]
    BY <1>4 DEF Goto, Inductive, Control
  <2> QED BY <2>1, <2>2, SilentStep
<1>5. ASSUME NEW t \in Threads, Leave(t)
      PROVE  [JQ!Next]_(JQ!vars) /\ Payloads'
  BY <1>4, <1>5 DEF Leave, memory, pointers, Locations
<1>6. ASSUME NEW t \in Threads, Step(t)
      PROVE  [JQ!Next]_(JQ!vars) /\ Payloads'
  BY <1>6, StepSimulates
<1>7. CASE Destroy
  <2>1. CASE DestroyEnter
    BY <1>4, <2>1, MainAssumption DEF DestroyEnter, memory, Locations, Region
  <2>2. CASE DestroyRetire
    <3>1. /\ UNCHANGED <<head_, next_, value_, op, done, val, node>>
          /\ pc[Main] # "pop_cas" /\ pc'[Main] # "pop_cas"
      BY <2>2 DEF DestroyRetire, memory, call
    <3>2. \A u \in Threads \ {Main} : pc'[u] = pc[u] /\ next'[u] = next[u]
      BY <2>2 DEF DestroyRetire
    <3> QED BY <3>1, <3>2, MainAssumption, SilentStep
  <2>3. CASE DestroyExit
    BY <2>3, DiscardSimulates DEF JQ!Next
  <2>4. ASSUME NEW t \in Threads, Drain(t)
        PROVE  [JQ!Next]_(JQ!vars) /\ Payloads'
    BY <2>4, MainAssumption, ReleaseSimulates DEF Drain, pointers, call
  <2>5. CASE DrainDone
    BY <1>4, <2>5, MainAssumption DEF DrainDone, memory, pointers, Locations
  <2>6. CASE FreeCaches
    BY <1>4, <2>6, MainAssumption DEF FreeCaches, pointers, Locations
  <2> QED BY <1>7, <2>1, <2>2, <2>3, <2>4, <2>5, <2>6 DEF Destroy
<1>8. CASE UNCHANGED vars
  <2>1. UNCHANGED <<head_, next_, value_, op, done, val, node, next, pc>>
    BY <1>8 DEF vars, memory, pointers, call
  <2>2. QueueContents' = QueueContents /\ VisibleVal' = VisibleVal
    BY <2>1, QueueContentsIs DEF VisibleVal
  <2>3. Payloads'
    BY <2>1 DEF Payloads, Payload, Prepares
  <2> QED BY <2>1, <2>2, <2>3 DEF JQ!vars
<1> QED BY <1>1, <1>2, <1>3, <1>5, <1>6, <1>7, <1>8 DEF Next, Terminated

\* Every push_back() and every pop_front() takes effect at one moment between its
\* call and its return, in first-in first-out order, with nodes recycled and tags
\* wrapping around underneath: the threads cannot tell TSLinkedList from a queue
\* that does each operation in a single step.
THEOREM QueueLinearizable == Spec => Linearizable
<1>1. InductiveInvariant /\ Payloads /\ [Next]_vars => [JQ!Next]_(JQ!vars) /\ Payloads'
  BY EveryStepSimulates DEF InductiveInvariant
<1> QED BY <1>1, InitialQueue, QueueIsInductive, PTL DEF Spec, Linearizable, JQ!Spec

=============================================================================
