------------------------- MODULE RedBlackTree_proofs -------------------------
(***************************************************************************)
(* Proofs about RedBlackTree, for any set of integers as values: the tree  *)
(* is a balanced search tree (RedBlack), its loops end (LoopsEnd), and it  *)
(* implements an ordered set (ImplementsOrderedSet).                       *)
(*                                                                         *)
(* Subtree, BlackHeight, LastVisited and Most are recursive functions.     *)
(* What they are for a given tree follows from a function U that gives     *)
(* every node the set of the nodes below it and a function H that gives it *)
(* its black height.  The invariant says that U and H exist, and each step *)
(* is proved to lead from one pair to another.                             *)
(***************************************************************************)
EXTENDS RedBlackTree, FiniteSetTheorems, WellFoundedInduction, TLAPS

USE ValuesAssumption, NilAssumption

-----------------------------------------------------------------------------
(* Search trees *)

Colors == {"red", "black"}

\* The fields of the nodes.
TreeOK(t) ==
    t \in [root : Nodes, child : [Sides -> [Nodes -> Nodes]],
           parent : [Nodes -> Nodes], color : [Nodes -> Colors]]

\* m is on side s of n.
Before(s, m, n) == IF s = "left" THEN m < n ELSE n < m

\* U[n] are the nodes of the subtree of n, in the order of a search tree.
Shape(t, U) ==
    /\ U \in [Nodes -> SUBSET Values] /\ U[NIL] = {}
    /\ IsFiniteSet(U[t.root])
    /\ \A n \in U[t.root] : U[n] \subseteq U[t.root]
    /\ \A n \in U[t.root] : U[n] = {n} \cup U[t.child["left"][n]] \cup U[t.child["right"][n]]
    /\ \A n \in U[t.root] : \A s \in Sides : \A m \in U[t.child[s][n]] : Before(s, m, n)

\* The links of the nodes in L, which are all the nodes of the tree.
Links(t, L) ==
    /\ \/ t.root = NIL /\ L = {}
       \/ t.root \in L /\ t.parent[t.root] = NIL
    /\ \A n \in L : \A s \in Sides : t.child[s][n] \in L \cup {NIL}
    /\ \A n \in L : \A s \in Sides : t.child[s][n] # NIL => t.parent[t.child[s][n]] = n
    /\ \A s \in Sides : t.child[s][NIL] = NIL

Bst(t, U) == TreeOK(t) /\ Shape(t, U) /\ Links(t, U[t.root])

LEMMA TreeTypes ==
    ASSUME NEW t, TreeOK(t)
    PROVE  /\ t.root \in Nodes
           /\ \A s \in Sides, n \in Nodes : t.child[s][n] \in Nodes
           /\ \A n \in Nodes : t.parent[n] \in Nodes /\ t.color[n] \in Colors
           /\ Values \subseteq Nodes /\ NIL \in Nodes
BY DEF TreeOK, Nodes

LEMMA SidesAre ==
    /\ "left" \in Sides /\ "right" \in Sides /\ "left" # "right"
    /\ \A s \in Sides : Other(s) \in Sides /\ Other(s) # s /\ Other(Other(s)) = s
    /\ \A s, r \in Sides : r = s \/ r = Other(s)
BY DEF Sides, Other

LEMMA BeforeIs ==
    /\ \A s \in Sides, a, b \in Values : Before(Other(s), a, b) <=> Before(s, b, a)
    /\ \A s \in Sides, a, b, c \in Values : Before(s, a, b) /\ Before(s, b, c) => Before(s, a, c)
    /\ \A s \in Sides, a \in Values : ~Before(s, a, a)
BY DEF Before, Sides, Other

\* The nodes below n and those below its children.
LEMMA Below ==
    ASSUME NEW t, NEW U, Bst(t, U), NEW n \in U[t.root]
    PROVE  /\ n \in Values /\ n \in U[n] /\ U[n] \subseteq U[t.root]
           /\ \A s \in Sides : /\ t.child[s][n] \in U[t.root] \cup {NIL}
                               /\ U[t.child[s][n]] \subseteq U[n]
                               /\ n \notin U[t.child[s][n]]
           /\ \A s \in Sides : U[n] = {n} \cup U[t.child[s][n]] \cup U[t.child[Other(s)][n]]
           /\ \A s \in Sides : U[t.child[s][n]] \cap U[t.child[Other(s)][n]] = {}
           /\ U[NIL] = {} /\ n \in Nodes /\ n # NIL
<1>0. U[t.root] \subseteq Values /\ t.root \in Nodes /\ U \in [Nodes -> SUBSET Values]
  BY TreeTypes DEF Bst, Shape
<1>1. n \in Values /\ n \in U[n] /\ U[n] \subseteq U[t.root]
  BY <1>0 DEF Bst, Shape
<1>2. U[n] = {n} \cup U[t.child["left"][n]] \cup U[t.child["right"][n]]
  BY DEF Bst, Shape
<1>3. \A s \in Sides : U[n] = {n} \cup U[t.child[s][n]] \cup U[t.child[Other(s)][n]]
  BY <1>2 DEF Sides, Other
<1>4. \A s \in Sides : t.child[s][n] \in U[t.root] \cup {NIL}
  BY DEF Bst, Links
<1>5. \A s \in Sides : \A m \in U[t.child[s][n]] : m \in Values /\ Before(s, m, n)
  BY <1>1, <1>3, <1>0 DEF Bst, Shape
<1>6. \A s \in Sides : n \notin U[t.child[s][n]]
  BY <1>1, <1>5, BeforeIs
<1>7. \A s \in Sides : U[t.child[s][n]] \cap U[t.child[Other(s)][n]] = {}
  <2> SUFFICES ASSUME NEW s \in Sides, NEW m \in U[t.child[s][n]], m \in U[t.child[Other(s)][n]]
               PROVE  FALSE
    OBVIOUS
  <2>1. m \in Values /\ Before(s, m, n) /\ Before(Other(s), m, n)
    BY <1>5, SidesAre
  <2>2. Before(s, n, m)
    BY <1>1, <2>1, BeforeIs
  <2> QED BY <1>1, <2>1, <2>2, BeforeIs
<1>8. U[NIL] = {} /\ n \in Nodes /\ n # NIL
  BY <1>1 DEF Bst, Shape, Nodes
<1> QED BY <1>1, <1>3, <1>4, <1>6, <1>7, <1>8

\* Among any nodes of the tree there is one with none of the others right below it.
LEMMA Lowest ==
    ASSUME NEW t, NEW U, Bst(t, U), NEW S \in SUBSET U[t.root], S # {}
    PROVE  \E n \in S : \A s \in Sides : t.child[s][n] \notin S
<1> DEFINE Sets == {U[n] : n \in S}
<1>1. Sets \subseteq FiniteSubsetsOf(U[t.root]) /\ Sets # {}
  <2>1. \A n \in S : U[n] \subseteq U[t.root] /\ IsFiniteSet(U[n])
    <3>1. IsFiniteSet(U[t.root]) /\ \A n \in S : U[n] \subseteq U[t.root]
      BY DEF Bst, Shape
    <3> QED BY <3>1, FS_Subset
  <2> QED BY <2>1 DEF FiniteSubsetsOf
<1>2. PICK A \in Sets : \A B \in Sets : <<B, A>> \notin StrictSubsetOrdering(U[t.root])
  <2> HIDE DEF Sets
  <2> QED BY <1>1, FS_StrictSubsetOrderingWellFounded, WFMin
<1>3. PICK n \in S : A = U[n]
  OBVIOUS
<1>4. ASSUME NEW s \in Sides, t.child[s][n] \in S
      PROVE  FALSE
  <2> DEFINE c == t.child[s][n]
  <2>1. U[c] \subseteq U[n] /\ n \in U[n] /\ n \notin U[c] /\ U[n] \subseteq U[t.root]
    BY Below
  <2>2. <<U[c], U[n]>> \in StrictSubsetOrdering(U[t.root])
    BY <2>1 DEF StrictSubsetOrdering
  <2>3. U[c] \in Sets
    BY <1>4
  <2> QED BY <1>2, <1>3, <2>2, <2>3
<1> QED BY <1>4
\* The subtree of a node below n is part of the one of n.
LEMMA SubtreesNest ==
    ASSUME NEW t, NEW U, Bst(t, U), NEW n \in U[t.root], NEW m \in U[n]
    PROVE  U[m] \subseteq U[n]
<1> DEFINE S == {a \in U[t.root] : \E b \in U[a] : ~(U[b] \subseteq U[a])}
<1>1. ASSUME n \in S PROVE FALSE
  <2>1. PICK a \in S : \A s \in Sides : t.child[s][a] \notin S
    BY <1>1, Lowest
  <2>2. PICK b \in U[a] : ~(U[b] \subseteq U[a])
    BY <2>1
  <2>3. PICK s \in Sides : b \in U[t.child[s][a]]
    BY <2>1, <2>2, Below, SidesAre
  <2>4. t.child[s][a] \in U[t.root]
    BY <2>1, <2>3, Below
  <2>5. U[b] \subseteq U[t.child[s][a]]
    BY <2>1, <2>3, <2>4
  <2> QED BY <2>1, <2>2, <2>5, Below
<1> QED BY <1>1

\* A node below a has its parent there as well, which has it as a child.
LEMMA ParentIsBelow ==
    ASSUME NEW t, NEW U, Bst(t, U), NEW a \in U[t.root], NEW m \in U[a], m # a
    PROVE  /\ t.parent[m] \in U[a] /\ t.parent[m] \in U[t.root]
           /\ t.child[SideOf(t, m)][t.parent[m]] = m /\ SideOf(t, m) \in Sides
<1> DEFINE Good(c, d) == d # c => t.parent[d] \in U[c] /\ \E s \in Sides : t.child[s][t.parent[d]] = d
           S == {c \in U[t.root] : \E d \in U[c] : ~Good(c, d)}
<1>1. ASSUME a \in S PROVE FALSE
  <2>1. PICK c \in S : \A s \in Sides : t.child[s][c] \notin S
    BY <1>1, Lowest
  <2>2. PICK d \in U[c] : ~Good(c, d)
    BY <2>1
  <2>3. PICK s \in Sides : d \in U[t.child[s][c]]
    BY <2>1, <2>2, Below, SidesAre
  <2> DEFINE e == t.child[s][c]
  <2>4. e \in U[t.root] /\ e # NIL /\ U[e] \subseteq U[c] /\ c \in U[c]
    BY <2>1, <2>3, Below
  <2>5. CASE d = e
    BY <2>1, <2>2, <2>4, <2>5 DEF Bst, Links
  <2>6. CASE d # e
    <3>1. Good(e, d)
      BY <2>1, <2>3, <2>4
    <3> QED BY <2>2, <2>4, <2>6, <3>1
  <2> QED BY <2>5, <2>6
<1>2. t.parent[m] \in U[a] /\ \E s \in Sides : t.child[s][t.parent[m]] = m
  BY <1>1
<1>3. U[a] \subseteq U[t.root]
  BY Below
<1> QED BY <1>2, <1>3 DEF SideOf, Sides

LEMMA HasParent ==
    ASSUME NEW t, NEW U, Bst(t, U), NEW n \in U[t.root], n # t.root
    PROVE  /\ t.parent[n] \in U[t.root] /\ t.parent[n] # NIL
           /\ t.child[SideOf(t, n)][t.parent[n]] = n /\ SideOf(t, n) \in Sides
<1>1. t.root \in U[t.root]
  BY DEF Bst, Links
<1>2. t.parent[n] \in Values
  BY <1>1, ParentIsBelow, Below
<1> QED BY <1>1, <1>2, ParentIsBelow

\* The body of Subtree.
Under(t, f) ==
    [m \in Nodes |-> IF m = NIL THEN {}
                     ELSE {m} \cup f[t.child["left"][m]] \cup f[t.child["right"][m]]]

\* Where the links of a node outside the tree lead: into the tree or nowhere.
Outside(t, L) == \A n \in Values \ L : \A s \in Sides : t.child[s][n] \in L \cup {NIL}

LEMMA SubtreeIs ==
    ASSUME NEW t, NEW U, Bst(t, U), Outside(t, U[t.root]), NEW n \in U[t.root] \cup {NIL}
    PROVE  Subtree(t, n) = U[n]
<1> DEFINE L == U[t.root]
           F == [m \in Nodes |-> IF m \in L \cup {NIL} THEN U[m]
                                 ELSE {m} \cup U[t.child["left"][m]] \cup U[t.child["right"][m]]]
           f == CHOOSE g : g = Under(t, g)
<1>1. F = Under(t, F)
  <2>1. ASSUME NEW m \in Nodes
        PROVE  F[m] = IF m = NIL THEN {} ELSE {m} \cup F[t.child["left"][m]] \cup F[t.child["right"][m]]
    <3>1. CASE m = NIL
      BY <3>1 DEF Bst, Shape
    <3>2. CASE m # NIL
      <4>1. \A s \in Sides : t.child[s][m] \in L \cup {NIL}
        BY <3>2, Below DEF Outside, Nodes
      <4>2. \A s \in Sides : t.child[s][m] \in Nodes /\ F[t.child[s][m]] = U[t.child[s][m]]
        BY <4>1, TreeTypes DEF Bst
      <4> QED BY <3>2, <4>2, SidesAre DEF Bst, Shape
    <3> QED BY <3>1, <3>2
  <2> QED BY <2>1 DEF Under
<1>2. f = Under(t, f)
  BY <1>1
<1>3. Subtree(t, n) = f[n]
  BY DEF Subtree, Under
<1> HIDE DEF f
<1> DEFINE S == {m \in L : f[m] # U[m]}
<1>4. f[NIL] = U[NIL]
  BY <1>2 DEF Under, Nodes, Bst, Shape
<1>5. ASSUME S # {} PROVE FALSE
  <2>1. PICK m \in S : \A s \in Sides : t.child[s][m] \notin S
    BY <1>5, Lowest
  <2>2. \A s \in Sides : f[t.child[s][m]] = U[t.child[s][m]]
    BY <1>4, <2>1, Below
  <2>3. f[m] = {m} \cup f[t.child["left"][m]] \cup f[t.child["right"][m]]
    <3>1. m \in Nodes /\ m # NIL
      BY <2>1, Below
    <3> QED BY <1>2, <3>1 DEF Under
  <2> QED BY <2>1, <2>2, <2>3, SidesAre DEF Bst, Shape
<1> QED BY <1>3, <1>4, <1>5
-----------------------------------------------------------------------------
(* Searching *)

\* Which side the search for v takes.
SideFor(v, n) == IF v < n THEN "left" ELSE "right"

LEMMA TowardsIs ==
    ASSUME NEW t, NEW U, Bst(t, U), NEW n \in U[t.root], NEW v \in Values, v # n
    PROVE  /\ SideFor(v, n) \in Sides /\ Before(SideFor(v, n), v, n)
           /\ Towards(t, n, v) = t.child[SideFor(v, n)][n]
           /\ v \in U[n] => v \in U[Towards(t, n, v)]
<1>1. SideFor(v, n) \in Sides /\ Before(SideFor(v, n), v, n)
  <2>1. n \in Int /\ v \in Int
    BY Below
  <2> QED BY <2>1 DEF SideFor, Sides, Before
<1>2. Towards(t, n, v) = t.child[SideFor(v, n)][n]
  BY DEF Towards, SideFor
<1>3. ASSUME v \in U[n]
      PROVE  v \in U[t.child[SideFor(v, n)][n]]
  <2>1. PICK s \in Sides : v \in U[t.child[s][n]]
    BY <1>3, Below, SidesAre
  <2>2. Before(s, v, n) /\ n \in Values
    BY <2>1, Below DEF Bst, Shape
  <2>3. s = SideFor(v, n)
    <3>1. v \in Int /\ n \in Int
      BY <2>2
    <3>2. CASE s = "left"
      BY <2>2, <3>2 DEF Before, SideFor
    <3>3. CASE s = "right"
      <4>1. n < v
        BY <2>2, <3>3, SidesAre DEF Before
      <4> QED BY <3>1, <3>3, <4>1 DEF SideFor
    <3> QED BY <3>2, <3>3 DEF Sides
  <2> QED BY <2>1, <2>3
<1> QED BY <1>1, <1>2, <1>3

\* The search for v from n ends at w: it comes by every node between them.
Route(t, U, v, n, w) ==
    /\ w \in U[n] /\ (w = v \/ Towards(t, w, v) = NIL)
    /\ \A a \in U[n] : w \in U[a] /\ a # w => a # v /\ w \in U[Towards(t, a, v)]

Stops(t, n, v) == n = v \/ Towards(t, n, v) = NIL

LEMMA RouteStops ==
    ASSUME NEW t, NEW U, Bst(t, U), NEW v \in Values, NEW n \in U[t.root], Stops(t, n, v), NEW w
    PROVE  Route(t, U, v, n, w) <=> w = n
<1>1. ASSUME NEW a \in U[n], n \in U[a], a # n
      PROVE  FALSE
  <2>1. PICK s \in Sides : a \in U[t.child[s][n]]
    BY <1>1, Below, SidesAre
  <2>2. t.child[s][n] \in U[t.root]
    BY <2>1, Below
  <2>3. U[a] \subseteq U[t.child[s][n]]
    BY <2>1, <2>2, SubtreesNest
  <2> QED BY <1>1, <2>3, Below
<1>2. Route(t, U, v, n, n)
  BY <1>1, Below DEF Route, Stops
<1>3. ASSUME Route(t, U, v, n, w), w # n
      PROVE  FALSE
  <2>1. n # v /\ w \in U[Towards(t, n, v)]
    BY <1>3, Below DEF Route
  <2> QED BY <2>1, Below DEF Stops
<1> QED BY <1>2, <1>3

LEMMA RouteContinues ==
    ASSUME NEW t, NEW U, Bst(t, U), NEW v \in Values, NEW n \in U[t.root], ~Stops(t, n, v), NEW w
    PROVE  Route(t, U, v, n, w) <=> Route(t, U, v, Towards(t, n, v), w)
<1> DEFINE c == Towards(t, n, v)
           s == SideFor(v, n)
<1>0. c = t.child[s][n] /\ s \in Sides /\ n # v
  BY TowardsIs DEF Stops
<1>1. c \in U[t.root] /\ U[c] \subseteq U[n] /\ n \in U[n] /\ n \notin U[c]
  BY <1>0, Below DEF Stops
<1> HIDE DEF s
<1>2. ASSUME Route(t, U, v, n, w)
      PROVE  Route(t, U, v, c, w)
  <2>1. w # n
    BY <1>2 DEF Route, Stops
  <2>2. w \in U[c]
    BY <1>1, <1>2, <2>1 DEF Route
  <2> QED BY <1>1, <1>2, <2>2 DEF Route
<1>3. ASSUME Route(t, U, v, c, w)
      PROVE  Route(t, U, v, n, w)
  <2>1. w \in U[c] /\ w \in U[n]
    BY <1>1, <1>3 DEF Route
  <2>2. ASSUME NEW a \in U[n], w \in U[a], a # w, a # n
        PROVE  a \in U[c]
    <3>1. CASE a \in U[t.child[Other(s)][n]]
      <4>1. t.child[Other(s)][n] \in U[t.root]
        BY <1>0, <3>1, Below, SidesAre
      <4>2. U[a] \subseteq U[t.child[Other(s)][n]]
        BY <3>1, <4>1, SubtreesNest
      <4> QED BY <1>0, <2>1, <2>2, <4>2, Below
    <3> QED BY <1>0, <2>2, <3>1, Below
  <2>3. ASSUME NEW a \in U[n], w \in U[a], a # w
        PROVE  a # v /\ w \in U[Towards(t, a, v)]
    <3>1. CASE a = n
      BY <1>0, <2>1, <3>1
    <3>2. CASE a # n
      BY <1>3, <2>2, <2>3, <3>2 DEF Route
    <3> QED BY <3>1, <3>2
  <2> QED BY <1>3, <2>1, <2>3 DEF Route
<1> QED BY <1>2, <1>3

\* The body of LastVisited.
Last(t, v, f) ==
    [n \in Nodes |-> IF n \in {NIL, v} \/ Towards(t, n, v) = NIL THEN n
                     ELSE f[Towards(t, n, v)]]

\* The function in LastVisited obeys its definition.
LEMMA LastIsDefined ==
    ASSUME NEW t, NEW U, Bst(t, U), Outside(t, U[t.root]), NEW v \in Values
    PROVE  \E f : f = Last(t, v, f) /\ LastVisited(t, v) = f[t.root]
<1> DEFINE L == U[t.root]
           R(n) == CHOOSE w : Route(t, U, v, n, w)
           F == [n \in Nodes |-> IF n \in L THEN R(n)
                                 ELSE IF n \in {NIL, v} \/ Towards(t, n, v) = NIL THEN n
                                 ELSE R(Towards(t, n, v))]
           f == CHOOSE g : g = Last(t, v, g)
<1>1. F = Last(t, v, F)
  <2>1. ASSUME NEW n \in Nodes
        PROVE  F[n] = IF n \in {NIL, v} \/ Towards(t, n, v) = NIL THEN n ELSE F[Towards(t, n, v)]
    <3>1. CASE n \in L /\ Stops(t, n, v)
      <4>1. \A w : Route(t, U, v, n, w) <=> w = n
        BY <3>1, RouteStops
      <4>2. R(n) = n
        BY <4>1
      <4> QED BY <3>1, <4>2 DEF Stops
    <3>2. CASE n \in L /\ ~Stops(t, n, v)
      <4>1. \A w : Route(t, U, v, n, w) <=> Route(t, U, v, Towards(t, n, v), w)
        BY <3>2, RouteContinues
      <4>2. R(n) = R(Towards(t, n, v))
        BY <4>1
      <4>3. Towards(t, n, v) \in L /\ Towards(t, n, v) \in Nodes /\ n # NIL /\ n # v
        BY <3>2, TowardsIs, Below DEF Stops, Nodes
      <4>4. F[n] = R(n) /\ F[Towards(t, n, v)] = R(Towards(t, n, v))
        BY <3>2, <4>3
      <4> QED BY <3>2, <4>2, <4>3, <4>4 DEF Stops
    <3>3. CASE n \notin L /\ ~(n \in {NIL, v} \/ Towards(t, n, v) = NIL)
      <4>1. Towards(t, n, v) \in L
        BY <3>3 DEF Outside, Towards, Sides, Nodes
      <4>2. Towards(t, n, v) \in Nodes
        BY <4>1 DEF Bst, Shape, TreeOK, Nodes
      <4> QED BY <3>3, <4>1, <4>2
    <3>4. CASE n \notin L /\ (n \in {NIL, v} \/ Towards(t, n, v) = NIL)
      BY <3>4
    <3> QED BY <3>1, <3>2, <3>3, <3>4
  <2> HIDE DEF F
  <2>2. F = [n \in Nodes |-> F[n]]
    BY DEF F
  <2> QED BY <2>1, <2>2 DEF Last
<1>2. f = Last(t, v, f)
  <2> HIDE DEF F
  <2> QED BY <1>1
<1>3. LastVisited(t, v) = f[t.root]
  BY DEF LastVisited, Last
<1> HIDE DEF f
<1> QED BY <1>2, <1>3
\* Where a search from the root ends: at v if it is there, else at a node
\* below which v is missing.
LEMMA SearchEnds ==
    ASSUME NEW t, NEW U, Bst(t, U), Outside(t, U[t.root]), NEW v \in Values
    PROVE  /\ U[t.root] = {} => LastVisited(t, v) = NIL
           /\ U[t.root] # {} => Route(t, U, v, t.root, LastVisited(t, v))
           /\ LastVisited(t, v) = v <=> v \in U[t.root]
<1> DEFINE L == U[t.root]
           w == LastVisited(t, v)
<1>1. PICK f : f = Last(t, v, f) /\ w = f[t.root]
  BY LastIsDefined
<1> HIDE DEF w
<1>2. (t.root = NIL /\ L = {}) \/ t.root \in L
  BY DEF Bst, Links
<1>3. t.root = NIL => w = NIL
  BY <1>1 DEF Last, Nodes
<1> DEFINE S == {n \in L : ~Route(t, U, v, n, f[n])}
<1>4. ASSUME S # {} PROVE FALSE
  <2>1. PICK n \in S : \A s \in Sides : t.child[s][n] \notin S
    BY <1>4, Lowest
  <2>2. n \in Nodes /\ n # NIL
    BY <2>1, Below
  <2>3. CASE Stops(t, n, v)
    <3>1. f[n] = n
      BY <1>1, <2>2, <2>3 DEF Last, Stops
    <3> QED BY <2>1, <2>3, <3>1, RouteStops
  <2>4. CASE ~Stops(t, n, v)
    <3>1. f[n] = f[Towards(t, n, v)]
      BY <1>1, <2>2, <2>4 DEF Last, Stops
    <3>2. Towards(t, n, v) \in L \ S
      BY <2>1, <2>4, TowardsIs, Below DEF Stops
    <3>3. Route(t, U, v, Towards(t, n, v), f[n])
      BY <3>1, <3>2
    <3> QED BY <2>1, <2>4, <3>3, RouteContinues
  <2> QED BY <2>3, <2>4
<1>5. L # {} => Route(t, U, v, t.root, w)
  BY <1>1, <1>2, <1>4
<1>6. w = v => v \in L
  <2>1. L = {} => w # v
    BY <1>2, <1>3
  <2> QED BY <2>1, <1>5 DEF Route
<1>7. ASSUME v \in L, w # v PROVE FALSE
  <2> DEFINE T == {a \in L : w \in U[a] /\ v \in U[a]}
  <2>1. t.root \in T
    BY <1>2, <1>5, <1>7 DEF Route
  <2>2. PICK a \in T : \A s \in Sides : t.child[s][a] \notin T
    BY <2>1, Lowest
  <2>3. a # v /\ w \in U[Towards(t, a, v)]
    <3>1. CASE a = w
      BY <1>5, <1>7, <2>2, <3>1, TowardsIs, Below DEF Route
    <3>2. CASE a # w
      BY <1>5, <1>7, <2>2, <3>2 DEF Route
    <3> QED BY <3>1, <3>2
  <2>4. v \in U[Towards(t, a, v)] /\ SideFor(v, a) \in Sides
        /\ Towards(t, a, v) = t.child[SideFor(v, a)][a]
    BY <2>2, <2>3, TowardsIs
  <2>5. Towards(t, a, v) \in L
    BY <2>2, <2>4, Below
  <2> QED BY <2>2, <2>3, <2>4, <2>5
<1> QED BY <1>2, <1>3, <1>5, <1>6, <1>7 DEF w

LEMMA FindNodeIs ==
    ASSUME NEW t, NEW U, Bst(t, U), Outside(t, U[t.root]), NEW v \in Values
    PROVE  findNode(t, v) = IF v \in U[t.root] THEN v ELSE NIL
BY SearchEnds DEF findNode

\* The first of the nodes of S on side s.
IsEnd(S, s, w) == w \in S /\ \A x \in S : x = w \/ Before(s, w, x)

\* The body of Most.
MostOf(t, s, f) ==
    [m \in Nodes |-> IF t.child[s][m] = NIL THEN m ELSE f[t.child[s][m]]]

\* The end of a subtree is in the subtree on that side, if there is one.
LEMMA EndIsBelow ==
    ASSUME NEW t, NEW U, Bst(t, U), NEW s \in Sides, NEW m \in U[t.root], NEW w
    PROVE  IsEnd(U[m], s, w) <=> IF t.child[s][m] = NIL THEN w = m
                                 ELSE IsEnd(U[t.child[s][m]], s, w)
<1> DEFINE c == t.child[s][m]
           d == t.child[Other(s)][m]
<1>1. /\ U[m] = {m} \cup U[c] \cup U[d] /\ m \in Values /\ U[NIL] = {} /\ m \notin U[d]
      /\ U[m] \subseteq Values
  <2>1. U[m] \subseteq Values
    BY DEF Bst, Shape, TreeOK, Nodes
  <2> QED BY <2>1, Below, SidesAre
<1>2. \A x \in U[c] : Before(s, x, m)
  BY DEF Bst, Shape
<1>3. \A x \in U[d] : Before(s, m, x)
  BY <1>1, SidesAre, BeforeIs DEF Bst, Shape
<1>4. c # NIL => c \in U[c] /\ c \in U[t.root]
  BY Below
<1> HIDE DEF c, d
<1>5. ASSUME c = NIL
      PROVE  IsEnd(U[m], s, w) <=> w = m
  <2>1. IsEnd(U[m], s, m)
    BY <1>1, <1>3, <1>5 DEF IsEnd
  <2>2. ASSUME IsEnd(U[m], s, w), w # m
        PROVE  FALSE
    <3>1. w \in U[d] /\ Before(s, w, m) /\ w \in Values
      BY <1>1, <1>5, <2>2 DEF IsEnd
    <3>2. Before(s, m, w)
      BY <1>3, <3>1
    <3> QED BY <1>1, <3>1, <3>2, BeforeIs
  <2> QED BY <2>1, <2>2
<1>6. ASSUME c # NIL, IsEnd(U[m], s, w)
      PROVE  IsEnd(U[c], s, w)
  <2>1. w \in Values /\ (w = m \/ Before(s, w, m)) /\ \A x \in U[c] : x = w \/ Before(s, w, x)
    BY <1>1, <1>6 DEF IsEnd
  <2>2. c \in Values /\ Before(s, c, m) /\ c # m
    BY <1>1, <1>2, <1>4, <1>6, BeforeIs
  <2>3. w # m
    BY <1>4, <1>6, <2>1, <2>2, <1>1, BeforeIs
  <2>4. w \notin U[d]
    BY <1>1, <1>3, <2>1, <2>3, BeforeIs
  <2> QED BY <1>1, <1>6, <2>1, <2>3, <2>4 DEF IsEnd
<1>7. ASSUME c # NIL, IsEnd(U[c], s, w)
      PROVE  IsEnd(U[m], s, w)
  <2>1. w \in U[c] /\ w \in Values /\ Before(s, w, m)
    BY <1>1, <1>2, <1>7 DEF IsEnd
  <2>2. \A x \in U[d] : x \in Values /\ Before(s, w, x)
    BY <1>1, <1>3, <2>1, BeforeIs
  <2> QED BY <1>1, <1>7, <2>1, <2>2 DEF IsEnd
<1> QED BY <1>5, <1>6, <1>7 DEF c

\* leftMost() and rightMost() of a subtree.
LEMMA MostIs ==
    ASSUME NEW t, NEW U, Bst(t, U), Outside(t, U[t.root]), NEW s \in Sides,
           NEW n \in U[t.root]
    PROVE  IsEnd(U[n], s, Most(t, s, n))
<1> DEFINE L == U[t.root]
           R(m) == CHOOSE w : IsEnd(U[m], s, w)
           F == [m \in Nodes |-> IF m \in L THEN R(m)
                                 ELSE IF t.child[s][m] = NIL THEN m ELSE R(t.child[s][m])]
           f == CHOOSE g : g = MostOf(t, s, g)
<1>1. F = MostOf(t, s, F)
  <2>1. ASSUME NEW m \in Nodes
        PROVE  F[m] = IF t.child[s][m] = NIL THEN m ELSE F[t.child[s][m]]
    <3>1. CASE m \in L /\ t.child[s][m] = NIL
      <4>1. \A w : IsEnd(U[m], s, w) <=> w = m
        BY <3>1, EndIsBelow
      <4>2. R(m) = m
        BY <4>1
      <4> QED BY <3>1, <4>2
    <3>2. CASE m \in L /\ t.child[s][m] # NIL
      <4>1. \A w : IsEnd(U[m], s, w) <=> IsEnd(U[t.child[s][m]], s, w)
        BY <3>2, EndIsBelow
      <4>2. R(m) = R(t.child[s][m])
        BY <4>1
      <4>3. t.child[s][m] \in L
        BY <3>2, Below
      <4>4. t.child[s][m] \in Nodes
        BY TreeTypes DEF Bst
      <4>5. F[m] = R(m) /\ F[t.child[s][m]] = R(t.child[s][m])
        BY <3>2, <4>3, <4>4
      <4> QED BY <3>2, <4>2, <4>5
    <3>3. CASE m \notin L /\ t.child[s][m] # NIL
      <4>1. t.child[s][m] \in L
        BY <3>3 DEF Outside, Bst, Links, Nodes
      <4>2. t.child[s][m] \in Nodes
        BY <4>1, Below
      <4> QED BY <3>3, <4>1, <4>2
    <3>4. CASE m \notin L /\ t.child[s][m] = NIL
      BY <3>4
    <3> QED BY <3>1, <3>2, <3>3, <3>4
  <2> HIDE DEF F
  <2>2. F = [m \in Nodes |-> F[m]]
    BY DEF F
  <2> QED BY <2>1, <2>2 DEF MostOf
<1>2. f = MostOf(t, s, f)
  <2> HIDE DEF F
  <2> QED BY <1>1
<1>3. Most(t, s, n) = f[n]
  BY DEF Most, MostOf
<1> HIDE DEF f
<1> DEFINE S == {m \in L : ~IsEnd(U[m], s, f[m])}
<1>4. ASSUME S # {} PROVE FALSE
  <2>1. PICK m \in S : \A r \in Sides : t.child[r][m] \notin S
    BY <1>4, Lowest
  <2>2. m \in Nodes /\ t.child[s][m] \in L \cup {NIL}
    BY <2>1, Below
  <2>3. f[m] = IF t.child[s][m] = NIL THEN m ELSE f[t.child[s][m]]
    BY <1>2, <2>2 DEF MostOf
  <2> QED BY <2>1, <2>2, <2>3, EndIsBelow
<1> QED BY <1>3, <1>4
-----------------------------------------------------------------------------
(* The invariant *)

\* The loop when it goes on at x.
MovedTo(l, x) == [l EXCEPT !.x = x]

\* Extra, for any tree and loop.
ExtraAt(t, l, n, s) ==
    IF l.at = "fixDelete" /\ t.child[s][n] = l.x /\ t.parent[l.x] = n THEN 1 ELSE 0

Blacks(t, n) == IF IsRed(t, n) THEN 0 ELSE 1

\* H gives the nodes in L their black heights.
Heights(t, l, L, H) ==
    /\ H \in [Nodes -> Nat] /\ H[NIL] = 0
    /\ \A n \in L : \A s \in Sides :
          H[n] = H[t.child[s][n]] + ExtraAt(t, l, n, s) + Blacks(t, n)

\* No red node is below a red one, except where the loop is.
Colored(t, l, L) ==
    /\ ~IsRed(t, NIL)
    /\ \A n \in L : IsRed(t, n) /\ IsRed(t, t.parent[n]) =>
          \/ l.at = "fixInsert" /\ n = l.x
          \/ l.at = "fixDelete" /\ l.x \in {n, t.parent[n]}
    /\ IsRed(t, t.root) => l.at # "none" /\ t.root = l.x

\* x, which may be the sentinel, is on one side of its parent only.
InPlace(t, L, x) ==
    t.parent[x] \in L /\ \E s \in Sides : /\ t.child[s][t.parent[x]] = x
                                          /\ t.child[Other(s)][t.parent[x]] # x

LoopOK(t, l, L) ==
    \/ l = NoLoop
    \/ l \in [at : {"fixInsert"}, x : L, z : {NIL}] /\ IsRed(t, l.x)
    \/ /\ l \in [at : {"fixDelete"}, x : L \cup {NIL}, z : Values \ L]
       /\ l.x # t.root => InPlace(t, L, l.x)

\* The node that is about to be released may still point into the tree.
LeftOut(t, L, z) ==
    \A n \in Values \ L : \A s \in Sides :
        t.child[s][n] \in IF n = z THEN L \cup {NIL} ELSE {NIL}

Fits(t, l, U, H) ==
    /\ Bst(t, U)
    /\ LeftOut(t, U[t.root], l.z)
    /\ LoopOK(t, l, U[t.root])
    /\ Heights(t, l, U[t.root], H)
    /\ Colored(t, l, U[t.root])

\* A node is allocated if it is in the tree or about to be released.
TreeInv ==
    /\ ret \in BOOLEAN
    /\ \E U, H : /\ Fits(tree, loop, U, H)
                 /\ allocated = U[tree.root] \cup ({loop.z} \ {NIL})

LEMMA LeftOutIsOutside ==
    ASSUME NEW t, NEW L, NEW z, LeftOut(t, L, z)
    PROVE  Outside(t, L)
BY DEF LeftOut, Outside

\* The black height above subtrees of black heights p and q.
Joined(p, q, b) == IF p # q \/ p < 0 THEN -1 ELSE p + b

\* The body of BlackHeight.
HeightOf(t, l, f) ==
    [m \in Nodes |-> IF m = NIL THEN 0
                     ELSE Joined(f[t.child["left"][m]] + ExtraAt(t, l, m, "left"),
                                 f[t.child["right"][m]] + ExtraAt(t, l, m, "right"),
                                 Blacks(t, m))]

LEMMA BlackHeightIs ==
    ASSUME NEW U, NEW H, Fits(tree, loop, U, H), NEW n \in U[tree.root] \cup {NIL}
    PROVE  BlackHeight(n) = H[n]
<1> DEFINE L == U[tree.root]
           E(m, s) == ExtraAt(tree, loop, m, s)
           J(f, m) == Joined(f[tree.child["left"][m]] + E(m, "left"),
                             f[tree.child["right"][m]] + E(m, "right"), Blacks(tree, m))
           F == [m \in Nodes |-> IF m \in L \cup {NIL} THEN H[m] ELSE J(H, m)]
           f == CHOOSE g : g = HeightOf(tree, loop, g)
<1>0. /\ Bst(tree, U) /\ Outside(tree, L)
      /\ \A m \in Nodes, s \in Sides : tree.child[s][m] \in Nodes
  BY LeftOutIsOutside, TreeTypes DEF Fits, Bst
<1>1. \A m \in L : H[m] = J(H, m)
  <2> TAKE m \in L
  <2>1. \A s \in Sides : H[m] = H[tree.child[s][m]] + E(m, s) + Blacks(tree, m)
    BY DEF Fits, Heights
  <2>2. \A s \in Sides : H[tree.child[s][m]] \in Nat /\ E(m, s) \in Nat
    BY <1>0, Below DEF Fits, Heights, ExtraAt
  <2>3. Blacks(tree, m) \in Nat
    BY DEF Blacks
  <2> HIDE DEF E
  <2> QED BY <2>1, <2>2, <2>3, SidesAre DEF Joined
<1>2. F = HeightOf(tree, loop, F)
  <2>1. ASSUME NEW m \in Nodes
        PROVE  F[m] = IF m = NIL THEN 0 ELSE J(F, m)
    <3>1. CASE m = NIL
      BY <3>1 DEF Fits, Heights
    <3>2. CASE m # NIL
      <4>1. \A s \in Sides : tree.child[s][m] \in L \cup {NIL}
        BY <3>2, <1>0, Below DEF Outside, Nodes
      <4>2. \A s \in Sides : F[tree.child[s][m]] = H[tree.child[s][m]]
        BY <4>1, <1>0
      <4>3. J(F, m) = J(H, m)
        BY <4>2, SidesAre
      <4>4. F[m] = J(H, m)
        BY <1>1, <3>2
      <4> QED BY <3>2, <4>3, <4>4
    <3> QED BY <3>1, <3>2
  <2> HIDE DEF F
  <2>2. F = [m \in Nodes |-> F[m]]
    BY DEF F
  <2> QED BY <2>1, <2>2 DEF HeightOf
<1>3. f = HeightOf(tree, loop, f)
  <2> HIDE DEF F
  <2> QED BY <1>2
<1>4. BlackHeight(n) = f[n]
  BY DEF BlackHeight, HeightOf, Joined, Extra, ExtraAt, Blacks
<1> HIDE DEF f
<1> DEFINE D == {m \in L : f[m] # H[m]}
<1>5. f[NIL] = H[NIL]
  BY <1>3 DEF HeightOf, Nodes, Fits, Heights
<1>6. ASSUME D # {} PROVE FALSE
  <2>1. PICK m \in D : \A s \in Sides : tree.child[s][m] \notin D
    BY <1>0, <1>6, Lowest
  <2>2. \A s \in Sides : f[tree.child[s][m]] = H[tree.child[s][m]]
    BY <1>0, <1>5, <2>1, Below
  <2>3. f[m] = J(f, m)
    <3>1. m \in Nodes /\ m # NIL
      BY <1>0, <2>1, Below
    <3> QED BY <1>3, <3>1 DEF HeightOf
  <2>4. J(f, m) = J(H, m)
    BY <2>2, SidesAre
  <2> QED BY <1>1, <2>1, <2>3, <2>4
<1> QED BY <1>4, <1>5, <1>6

LEMMA RedBlackHolds ==
    ASSUME TreeInv
    PROVE  RedBlack
<1>1. PICK U, H : Fits(tree, loop, U, H) /\ allocated = U[tree.root] \cup ({loop.z} \ {NIL})
  BY DEF TreeInv
<1> DEFINE L == U[tree.root]
<1>2. Bst(tree, U) /\ Outside(tree, L)
  BY <1>1, LeftOutIsOutside DEF Fits
<1>3. \A n \in L \cup {NIL} : Subtree(tree, n) = U[n]
  BY <1>2, SubtreeIs
<1>4. tree.root \in L \cup {NIL} /\ NIL \notin L
  BY <1>2, Below DEF Bst, Links
<1>5. Reachable = L
  BY <1>3, <1>4 DEF Reachable
<1>6. LinksAreSound
  <2>1. L = allocated \ {loop.z}
    <3>1. loop.z \notin L
      BY <1>1, <1>4 DEF Fits, LoopOK, NoLoop
    <3> QED BY <1>1, <1>4, <3>1
  <2>2. ASSUME NEW n \in L
        PROVE  /\ \A m \in Subtree(tree, tree.child["left"][n]) : m < n
               /\ \A m \in Subtree(tree, tree.child["right"][n]) : n < m
    <3>1. \A s \in Sides : Subtree(tree, tree.child[s][n]) = U[tree.child[s][n]]
      BY <1>2, <1>3, Below
    <3>2. \A s \in Sides : \A m \in U[tree.child[s][n]] : Before(s, m, n)
      BY <1>2 DEF Bst, Shape
    <3> QED BY <3>1, <3>2, SidesAre DEF Before
  <2>3. ~IsRed(tree, NIL)
    BY <1>1 DEF Fits, Colored
  <2> QED BY <1>2, <1>5, <2>1, <2>2, <2>3 DEF LinksAreSound, Bst, Links
<1>7. BlackHeight(tree.root) >= 0
  <2>1. BlackHeight(tree.root) = H[tree.root] /\ H[tree.root] \in Nat
    BY <1>1, <1>2, <1>4, BlackHeightIs, TreeTypes DEF Fits, Heights, Bst
  <2> QED BY <2>1
<1>8. \A n \in RedBelowRed : ~Idle /\ loop.x \in {n, tree.parent[n]}
  BY <1>1, <1>5 DEF RedBelowRed, Fits, Colored, Idle
<1>9. Idle => ~IsRed(tree, tree.root)
  BY <1>1 DEF Fits, Colored, Idle
<1> QED BY <1>6, <1>7, <1>8, <1>9 DEF RedBlack
-----------------------------------------------------------------------------
(* What the helpers do to each field *)

LEMMA PaintIs ==
    ASSUME NEW t, TreeOK(t), NEW n \in Nodes, NEW c \in Colors
    PROVE  /\ TreeOK(Paint(t, n, c))
           /\ Paint(t, n, c).root = t.root
           /\ Paint(t, n, c).child = t.child
           /\ Paint(t, n, c).parent = t.parent
           /\ \A m \in Nodes : Paint(t, n, c).color[m] = IF m = n THEN c ELSE t.color[m]
BY DEF TreeOK, Paint

\* u is t with c as a child of n, and n as its parent if said so.
IsAttached(t, u, n, s, c, back) ==
    /\ TreeOK(u) /\ u.root = t.root /\ u.color = t.color
    /\ \A r \in Sides, m \in Nodes :
          u.child[r][m] = IF r = s /\ m = n THEN c ELSE t.child[r][m]
    /\ \A m \in Nodes : u.parent[m] = IF back /\ m = c THEN n ELSE t.parent[m]

LEMMA AttachIs ==
    ASSUME NEW t, TreeOK(t), NEW n \in Nodes, NEW s \in Sides, NEW c \in Nodes
    PROVE  IsAttached(t, Attach(t, n, s, c), n, s, c, TRUE)
<1> DEFINE u == [t EXCEPT !.child[s][n] = c, !.parent[c] = n]
<1>1. TreeOK(u) /\ u.root = t.root /\ u.color = t.color
  BY DEF TreeOK
<1>2. \A r \in Sides, m \in Nodes :
         u.child[r][m] = IF r = s /\ m = n THEN c ELSE t.child[r][m]
  BY DEF TreeOK
<1>3. \A m \in Nodes : u.parent[m] = IF m = c THEN n ELSE t.parent[m]
  BY DEF TreeOK
<1> HIDE DEF u
<1>4. IsAttached(t, u, n, s, c, TRUE)
  BY <1>1, <1>2, <1>3 DEF IsAttached
<1> QED BY <1>4 DEF Attach, u

LEMMA AttachInRotationIs ==
    ASSUME NEW t, TreeOK(t), NEW n \in Nodes, NEW s \in Sides, NEW c \in Nodes
    PROVE  IsAttached(t, AttachInRotation(t, n, s, c), n, s, c, c # NIL)
<1>1. CASE c = NIL
  <2> DEFINE u == [t EXCEPT !.child[s][n] = c]
  <2>1. TreeOK(u) /\ u.root = t.root /\ u.color = t.color /\ u.parent = t.parent
    BY DEF TreeOK
  <2>2. \A r \in Sides, m \in Nodes :
           u.child[r][m] = IF r = s /\ m = n THEN c ELSE t.child[r][m]
    BY DEF TreeOK
  <2> HIDE DEF u
  <2>3. IsAttached(t, u, n, s, c, c # NIL)
    BY <1>1, <2>1, <2>2 DEF IsAttached
  <2> QED BY <1>1, <2>3 DEF AttachInRotation, u
<1>2. CASE c # NIL
  BY <1>2, AttachIs DEF AttachInRotation, IsAttached
<1> QED BY <1>1, <1>2

\* u is t with v in the place of a, which becomes its parent's child if said so.
IsReplaced(t, u, a, v, back) ==
    /\ TreeOK(u) /\ u.color = t.color
    /\ u.root = IF t.parent[a] = NIL THEN v ELSE t.root
    /\ \A r \in Sides, m \in Nodes :
          u.child[r][m] = IF t.parent[a] # NIL /\ r = SideOf(t, a) /\ m = t.parent[a] THEN v
                          ELSE t.child[r][m]
    /\ \A m \in Nodes : u.parent[m] = IF back /\ m = v THEN t.parent[a] ELSE t.parent[m]

LEMMA ReplaceIs ==
    ASSUME NEW t, TreeOK(t), NEW a \in Nodes, NEW v \in Nodes
    PROVE  IsReplaced(t, Replace(t, a, v), a, v, FALSE)
<1>1. SideOf(t, a) \in Sides /\ t.parent[a] \in Nodes
  BY TreeTypes DEF SideOf, Sides
<1>2. CASE t.parent[a] = NIL
  <2> DEFINE u == [t EXCEPT !.root = v]
  <2>1. TreeOK(u) /\ u.root = v /\ u.color = t.color /\ u.parent = t.parent /\ u.child = t.child
    BY DEF TreeOK
  <2> HIDE DEF u
  <2>2. IsReplaced(t, u, a, v, FALSE)
    BY <1>2, <2>1 DEF IsReplaced
  <2> QED BY <1>2, <2>2 DEF Replace, u
<1>3. CASE t.parent[a] # NIL
  <2>0. PICK s \in Sides, p \in Nodes : s = SideOf(t, a) /\ p = t.parent[a]
    BY <1>1
  <2> DEFINE u == [t EXCEPT !.child[s][p] = v]
  <2>1. TreeOK(u) /\ u.root = t.root /\ u.color = t.color /\ u.parent = t.parent
    BY DEF TreeOK
  <2>2. \A r \in Sides, m \in Nodes :
           u.child[r][m] = IF r = s /\ m = p THEN v ELSE t.child[r][m]
    BY DEF TreeOK
  <2> HIDE DEF u
  <2>3. IsReplaced(t, u, a, v, FALSE)
    BY <1>3, <2>0, <2>1, <2>2 DEF IsReplaced
  <2> QED BY <1>3, <2>0, <2>3 DEF Replace, u
<1> QED BY <1>2, <1>3

\* u is t after transplant() of a to v.
IsTransplanted(t, u, a, v) ==
    /\ TreeOK(u) /\ u.color = t.color
    /\ u.root = IF t.parent[a] = NIL THEN v ELSE t.root
    /\ \A r \in Sides, m \in Nodes :
          u.child[r][m] = IF t.parent[a] # NIL /\ r = SideOf(t, a) /\ m = t.parent[a] THEN v
                          ELSE t.child[r][m]
    /\ \A m \in Nodes : u.parent[m] = IF m = v THEN t.parent[a] ELSE t.parent[m]

LEMMA transplantIs ==
    ASSUME NEW t, TreeOK(t), NEW a \in Nodes, NEW v \in Nodes
    PROVE  IsTransplanted(t, transplant(t, a, v), a, v)
<1>1. PICK r : r = Replace(t, a, v) /\ IsReplaced(t, r, a, v, FALSE)
  BY ReplaceIs
<1>2. PICK p \in Nodes : p = t.parent[a]
  BY TreeTypes
<1> DEFINE u == [r EXCEPT !.parent[v] = p]
<1>3. TreeOK(r)
  BY <1>1 DEF IsReplaced
<1>4. TreeOK(u) /\ u.root = r.root /\ u.color = r.color /\ u.child = r.child
  BY <1>3 DEF TreeOK
<1>5. \A m \in Nodes : u.parent[m] = IF m = v THEN p ELSE r.parent[m]
  BY <1>3 DEF TreeOK
<1> HIDE DEF u
<1>6. IsTransplanted(t, u, a, v)
  BY <1>1, <1>2, <1>4, <1>5 DEF IsReplaced, IsTransplanted
<1> QED BY <1>1, <1>2, <1>6 DEF transplant, u

-----------------------------------------------------------------------------
(* Rotations *)

\* The links of u are those of t after the rotation of a to side s; b goes up.
IsRotated(t, u, a, s, b, m) ==
    /\ TreeOK(u)
    /\ u.root = IF a = t.root THEN b ELSE t.root
    /\ \A r \in Sides, n \in Nodes :
          u.child[r][n] = IF n = a /\ r = Other(s) THEN m
                          ELSE IF n = b /\ r = s THEN a
                          ELSE IF t.root # a /\ n = t.parent[a] /\ r = SideOf(t, a) THEN b
                          ELSE t.child[r][n]
    /\ \A n \in Nodes :
          u.parent[n] = IF n = a THEN b
                        ELSE IF n = b THEN t.parent[a]
                        ELSE IF n = m /\ m # NIL THEN a
                        ELSE t.parent[n]

\* What a rotation of a to side s may rely on.
CanRotate(t, U, a, s, b, m) ==
    /\ Bst(t, U) /\ a \in U[t.root] /\ s \in Sides
    /\ b = t.child[Other(s)][a] /\ b # NIL /\ m = t.child[s][b]

\* The nodes in a rotation are different, and no one else's children.
LEMMA RotationNodes ==
    ASSUME NEW t, NEW U, NEW a, NEW s, NEW b, NEW m, CanRotate(t, U, a, s, b, m)
    PROVE  /\ a \in Values /\ b \in Values /\ b \in U[t.root] /\ a # b /\ m \in Nodes
           /\ a \in Nodes /\ b \in Nodes /\ a # NIL
           /\ m # a /\ m # b /\ t.parent[a] # a /\ t.parent[a] # b /\ t.parent[b] = a
           /\ m # NIL => t.parent[m] = b /\ m \in U[t.root]
           /\ t.root # b /\ (t.root = a <=> t.parent[a] = NIL)
           /\ t.root # a => t.parent[a] \in U[t.root] /\ t.child[SideOf(t, a)][t.parent[a]] = a
                            /\ SideOf(t, a) \in Sides
           /\ t.parent[a] \in Nodes
<1> USE DEF CanRotate
<1>1. a \in Values /\ b \in U[t.root] /\ b \in Values /\ t.parent[b] = a
  BY Below, SidesAre DEF Bst, Links
<1>2. m \in U[t.root] \cup {NIL} /\ (m # NIL => t.parent[m] = b /\ m \in U[m])
  BY <1>1, Below, SidesAre DEF Bst, Links
<1>3. U[b] \subseteq U[a] /\ a \notin U[b] /\ b \in U[b] /\ a \in U[a]
  BY <1>1, Below, SidesAre
<1>4. U[m] \subseteq U[b] /\ b \notin U[m] /\ U[NIL] = {}
  BY <1>1, Below
<1>5. t.root = NIL \/ t.parent[t.root] = NIL
  BY DEF Bst, Links
<1>6. t.root # b
  BY <1>1, <1>5
<1>7. t.root # a => /\ t.parent[a] \in U[t.root] /\ t.parent[a] # NIL
                    /\ t.child[SideOf(t, a)][t.parent[a]] = a /\ SideOf(t, a) \in Sides
  BY HasParent
<1>8. t.parent[a] # a /\ t.parent[a] # b
  <2>1. CASE t.root = a
    BY <1>1, <1>5, <2>1
  <2>2. CASE t.root # a
    <3>1. PICK p \in U[t.root], r \in Sides : p = t.parent[a] /\ t.child[r][p] = a
      BY <1>7, <2>2
    <3>2. p \notin U[t.child[r][p]]
      BY Below
    <3> QED BY <1>3, <3>1, <3>2
  <2> QED BY <2>1, <2>2
<1>9. m # a /\ m # b
  BY <1>1, <1>2, <1>3, <1>4
<1>10. t.parent[a] \in Nodes /\ a \in Nodes /\ b \in Nodes /\ m \in Nodes
  BY <1>1, <1>2, Below, TreeTypes DEF Bst
<1> QED BY <1>1, <1>2, <1>5, <1>6, <1>7, <1>8, <1>9, <1>10

LEMMA RotateIs ==
    ASSUME NEW t, NEW U, NEW a, NEW s, NEW b, NEW m, CanRotate(t, U, a, s, b, m)
    PROVE  IsRotated(t, Rotate(t, a, s), a, s, b, m) /\ Rotate(t, a, s).color = t.color
<1>0. PICK o : o = Other(s)
  OBVIOUS
<1>1. TreeOK(t) /\ s \in Sides /\ o \in Sides /\ o # s
  BY <1>0, SidesAre DEF CanRotate, Bst
<1>2. /\ a \in Nodes /\ b \in Nodes /\ m \in Nodes /\ t.parent[a] \in Nodes
      /\ a # b /\ m # a /\ m # b /\ t.parent[a] # a /\ t.parent[a] # b
      /\ t.parent[a] = NIL <=> t.root = a
  BY RotationNodes
<1>3. PICK r1 : r1 = Replace(t, a, b) /\ IsReplaced(t, r1, a, b, FALSE)
  BY <1>1, <1>2, ReplaceIs
<1>4. PICK up : up = [r1 EXCEPT !.parent[b] = t.parent[a]]
  OBVIOUS
<1>5. TreeOK(r1)
  BY <1>3 DEF IsReplaced
<1>6. /\ TreeOK(up) /\ up.root = r1.root /\ up.color = r1.color /\ up.child = r1.child
      /\ \A n \in Nodes : up.parent[n] = IF n = b THEN t.parent[a] ELSE r1.parent[n]
  BY <1>2, <1>4, <1>5 DEF TreeOK
<1>7. PICK low : low = AttachInRotation(up, a, o, m) /\ IsAttached(up, low, a, o, m, m # NIL)
  BY <1>1, <1>2, <1>6, AttachInRotationIs
<1>8. TreeOK(low)
  BY <1>7 DEF IsAttached
<1>9. PICK u : u = Attach(low, b, s, a) /\ IsAttached(low, u, b, s, a, TRUE)
  BY <1>1, <1>2, <1>8, AttachIs
<1>10. Rotate(t, a, s) = u
  BY <1>0, <1>3, <1>4, <1>7, <1>9 DEF Rotate, CanRotate
<1>11. TreeOK(u) /\ u.color = t.color /\ u.root = IF a = t.root THEN b ELSE t.root
  BY <1>2, <1>3, <1>6, <1>7, <1>9 DEF IsAttached, IsReplaced
<1>12. ASSUME NEW r \in Sides, NEW n \in Nodes
       PROVE  u.child[r][n] = IF n = a /\ r = o THEN m
                              ELSE IF n = b /\ r = s THEN a
                              ELSE IF t.root # a /\ n = t.parent[a] /\ r = SideOf(t, a) THEN b
                              ELSE t.child[r][n]
  <2>1. u.child[r][n] = IF r = s /\ n = b THEN a ELSE low.child[r][n]
    BY <1>9 DEF IsAttached
  <2>2. low.child[r][n] = IF r = o /\ n = a THEN m ELSE r1.child[r][n]
    BY <1>6, <1>7 DEF IsAttached
  <2>3. r1.child[r][n] = IF t.root # a /\ r = SideOf(t, a) /\ n = t.parent[a] THEN b
                         ELSE t.child[r][n]
    BY <1>2, <1>3 DEF IsReplaced
  <2> QED BY <1>1, <1>2, <2>1, <2>2, <2>3
<1>13. ASSUME NEW n \in Nodes
       PROVE  u.parent[n] = IF n = a THEN b
                            ELSE IF n = b THEN t.parent[a]
                            ELSE IF n = m /\ m # NIL THEN a
                            ELSE t.parent[n]
  <2>1. u.parent[n] = IF n = a THEN b ELSE low.parent[n]
    BY <1>9 DEF IsAttached
  <2>2. low.parent[n] = IF n = m /\ m # NIL THEN a ELSE up.parent[n]
    BY <1>7 DEF IsAttached
  <2>3. up.parent[n] = IF n = b THEN t.parent[a] ELSE t.parent[n]
    BY <1>3, <1>6 DEF IsReplaced
  <2> QED BY <1>2, <2>1, <2>2, <2>3
<1>14. IsRotated(t, u, a, s, b, m)
  BY <1>0, <1>11, <1>12, <1>13 DEF IsRotated
<1> QED BY <1>10, <1>11, <1>14
\* The children of a node in the tree are different.
LEMMA ChildrenDiffer ==
    ASSUME NEW t, NEW U, Bst(t, U), NEW n \in U[t.root], NEW s \in Sides, t.child[s][n] # NIL
    PROVE  t.child[Other(s)][n] # t.child[s][n]
<1>1. t.child[s][n] \in U[t.child[s][n]]
  BY Below
<1>2. U[t.child[s][n]] \cap U[t.child[Other(s)][n]] = {}
  BY Below
<1> QED BY <1>1, <1>2

\* The children after a rotation: k and q are those that a and b keep.
RotatedChildren(t, u, a, s, b, m, k, q) ==
    /\ k = t.child[s][a] /\ q = t.child[Other(s)][b]
    /\ u.child[s][a] = k /\ u.child[Other(s)][a] = m
    /\ u.child[s][b] = a /\ u.child[Other(s)][b] = q
    /\ k # a /\ k # b /\ q # a /\ q # b /\ (k # m \/ k = NIL) /\ (q # m \/ q = NIL)

LEMMA RotatedChildrenAre ==
    ASSUME NEW t, NEW U, NEW a, NEW s, NEW b, NEW m, CanRotate(t, U, a, s, b, m),
           NEW u, IsRotated(t, u, a, s, b, m)
    PROVE  \E k, q \in U[t.root] \cup {NIL} : RotatedChildren(t, u, a, s, b, m, k, q)
<1> DEFINE L == U[t.root]
<1>0. PICK o \in Sides : o = Other(s) /\ s = Other(o) /\ o # s
  BY SidesAre DEF CanRotate
<1>1. /\ a \in L /\ b \in L /\ s \in Sides /\ a # b /\ m # a /\ m # b
      /\ t.parent[a] # a /\ t.parent[a] # b /\ t.parent[b] = a
      /\ a \in Nodes /\ b \in Nodes /\ a # NIL /\ b # NIL /\ m \in Nodes
      /\ (m # NIL => t.parent[m] = b) /\ b = t.child[o][a] /\ m = t.child[s][b]
  <2>1. a \in L /\ s \in Sides /\ b = t.child[o][a] /\ m = t.child[s][b] /\ b # NIL
    BY <1>0 DEF CanRotate
  <2> QED BY <2>1, RotationNodes
<1>2. PICK k, q : k = t.child[s][a] /\ q = t.child[o][b]
  OBVIOUS
<1>3. Bst(t, U) /\ Links(t, L)
  BY DEF CanRotate, Bst
<1>4. k \in L \cup {NIL} /\ q \in L \cup {NIL} /\ a # k /\ b # q
  <2>1. \A r \in Sides : /\ t.child[r][a] \in L \cup {NIL} /\ a \notin U[t.child[r][a]]
                         /\ t.child[r][b] \in L \cup {NIL} /\ b \notin U[t.child[r][b]]
    <3>1. \A r \in Sides : t.child[r][a] \in L \cup {NIL} /\ a \notin U[t.child[r][a]]
      BY <1>1, <1>3, Below
    <3>2. \A r \in Sides : t.child[r][b] \in L \cup {NIL} /\ b \notin U[t.child[r][b]]
      BY <1>1, <1>3, Below
    <3> QED BY <3>1, <3>2
  <2>2. k \in L \cup {NIL} /\ a \notin U[k] /\ q \in L \cup {NIL} /\ b \notin U[q]
    BY <1>0, <1>1, <1>2, <2>1
  <2>3. (k # NIL => k \in U[k]) /\ (q # NIL => q \in U[q])
    BY <1>3, <2>2, Below
  <2> QED BY <1>1, <2>2, <2>3
<1>5. (k # NIL => t.parent[k] = a) /\ (q # NIL => t.parent[q] = b)
  BY <1>0, <1>1, <1>2, <1>3 DEF Links
<1>6. k # b
  BY <1>0, <1>1, <1>2, <1>3, ChildrenDiffer
<1>7. q # m \/ q = NIL
  BY <1>0, <1>1, <1>2, <1>3, ChildrenDiffer
<1>8. q # a /\ (k # m \/ k = NIL)
  BY <1>1, <1>5
<1>9. \A r \in Sides, n \in Nodes :
         u.child[r][n] = IF n = a /\ r = o THEN m
                         ELSE IF n = b /\ r = s THEN a
                         ELSE IF t.root # a /\ n = t.parent[a] /\ r = SideOf(t, a) THEN b
                         ELSE t.child[r][n]
  BY <1>0 DEF IsRotated
<1>10. u.child[s][a] = k /\ u.child[o][a] = m /\ u.child[s][b] = a /\ u.child[o][b] = q
  BY <1>0, <1>1, <1>2, <1>9
<1>11. RotatedChildren(t, u, a, s, b, m, k, q)
  BY <1>0, <1>1, <1>2, <1>4, <1>6, <1>7, <1>8, <1>10 DEF RotatedChildren
<1> QED BY <1>4, <1>11

\* The other nodes keep their children; the parent of a gets b for it.
LEMMA OthersChildren ==
    ASSUME NEW t, NEW U, NEW a, NEW s, NEW b, NEW m, CanRotate(t, U, a, s, b, m),
           NEW u, IsRotated(t, u, a, s, b, m),
           NEW n \in U[t.root], n # a, n # b, NEW r \in Sides
    PROVE  /\ n \in Nodes
           /\ u.child[r][n] = IF t.child[r][n] = a THEN b ELSE t.child[r][n]
           /\ t.child[r][n] # b /\ t.child[r][n] \in U[t.root] \cup {NIL}
<1> DEFINE L == U[t.root]
<1>1. /\ a \in L /\ t.parent[b] = a /\ a # NIL /\ b # NIL /\ a \in Nodes
      /\ (t.root = a <=> t.parent[a] = NIL)
  BY RotationNodes DEF CanRotate
<1>2. Bst(t, U) /\ Links(t, L)
  BY DEF CanRotate, Bst
<1>3. n \in Nodes /\ n # NIL /\ t.child[r][n] \in L \cup {NIL}
  BY <1>2, Below
<1>4. t.child[r][n] # NIL => t.parent[t.child[r][n]] = n
  BY <1>2 DEF Links
<1>5. t.child[r][n] # b
  BY <1>1, <1>4
<1>6. u.child[r][n] = IF t.root # a /\ n = t.parent[a] /\ r = SideOf(t, a) THEN b
                      ELSE t.child[r][n]
  BY <1>3 DEF IsRotated
<1>7. CASE t.child[r][n] = a
  <2>1. n = t.parent[a] /\ t.root # a
    BY <1>1, <1>3, <1>4, <1>7
  <2>2. t.child[SideOf(t, a)][n] = a /\ SideOf(t, a) \in Sides
    BY <2>1, RotationNodes
  <2>3. r = SideOf(t, a)
    BY <1>1, <1>2, <1>7, <2>2, ChildrenDiffer, SidesAre
  <2> QED BY <1>3, <1>5, <1>6, <1>7, <2>1, <2>3
<1>8. CASE t.child[r][n] # a
  <2>1. ~(t.root # a /\ n = t.parent[a] /\ r = SideOf(t, a))
    BY <1>8, RotationNodes
  <2> QED BY <1>3, <1>5, <1>6, <1>8, <2>1
<1> QED BY <1>7, <1>8

\* The nodes below each node after the rotation.
RotatedSets(t, U, a, s, b, m) ==
    [U EXCEPT ![b] = U[a], ![a] = {a} \cup U[t.child[s][a]] \cup U[m]]

\* A rotation keeps the order of the nodes.
LEMMA RotatedIsBst ==
    ASSUME NEW t, NEW U, NEW a, NEW s, NEW b, NEW m, CanRotate(t, U, a, s, b, m),
           NEW u, IsRotated(t, u, a, s, b, m),
           NEW V, V = RotatedSets(t, U, a, s, b, m)
    PROVE  Bst(u, V) /\ V[u.root] = U[t.root]
<1> DEFINE L == U[t.root]
<1>0. PICK o \in Sides : o = Other(s) /\ s = Other(o) /\ o # s /\ \A r \in Sides : r = s \/ r = o
  BY SidesAre DEF CanRotate
<1>1. /\ a \in Values /\ b \in Values /\ a \in L /\ b \in L /\ s \in Sides
      /\ a # b /\ m # a /\ m # b /\ t.parent[a] # a /\ t.parent[a] # b /\ t.parent[b] = a
      /\ m \in L \cup {NIL} /\ m \in Nodes
      /\ a \in Nodes /\ b \in Nodes /\ a # NIL /\ b # NIL
      /\ (m # NIL => t.parent[m] = b) /\ t.root # b /\ (t.root = a <=> t.parent[a] = NIL)
  <2>1. a \in L /\ s \in Sides /\ b # NIL
    BY DEF CanRotate
  <2>2. /\ a \in Values /\ b \in Values /\ b \in L /\ a # b /\ m \in Nodes
        /\ a \in Nodes /\ b \in Nodes /\ a # NIL
    BY RotationNodes
  <2>3. /\ m # a /\ m # b /\ t.parent[a] # a /\ t.parent[a] # b /\ t.parent[b] = a
        /\ (m # NIL => t.parent[m] = b /\ m \in L)
        /\ t.root # b /\ (t.root = a <=> t.parent[a] = NIL)
    BY RotationNodes
  <2> QED BY <2>1, <2>2, <2>3
<1>2. PICK k \in L \cup {NIL}, q \in L \cup {NIL} :
         /\ k = t.child[s][a] /\ q = t.child[o][b]
         /\ u.child[s][a] = k /\ u.child[o][a] = m /\ u.child[s][b] = a /\ u.child[o][b] = q
         /\ k # a /\ k # b /\ q # a /\ q # b /\ (k # m \/ k = NIL) /\ (q # m \/ q = NIL)
  BY <1>0, RotatedChildrenAre DEF RotatedChildren
<1>3. Bst(t, U) /\ TreeOK(t) /\ Shape(t, U) /\ Links(t, L) /\ U \in [Nodes -> SUBSET Values]
  BY DEF CanRotate, Bst, Shape
<1>4. /\ U[a] = {a} \cup U[k] \cup U[b] /\ U[b] = {b} \cup U[m] \cup U[q]
      /\ k \in L \cup {NIL} /\ q \in L \cup {NIL}
      /\ a \notin U[b] /\ a \notin U[k] /\ b \notin U[m] /\ b \notin U[q]
  <2>1. b = t.child[o][a] /\ m = t.child[s][b]
    BY <1>0 DEF CanRotate
  <2>2. \A r \in Sides : U[a] = {a} \cup U[t.child[r][a]] \cup U[t.child[Other(r)][a]]
    BY <1>1, <1>3, Below
  <2>3. \A r \in Sides : U[b] = {b} \cup U[t.child[r][b]] \cup U[t.child[Other(r)][b]]
    BY <1>1, <1>3, Below
  <2>4. \A r \in Sides : /\ t.child[r][a] \in L \cup {NIL} /\ a \notin U[t.child[r][a]]
                         /\ t.child[r][b] \in L \cup {NIL} /\ b \notin U[t.child[r][b]]
    <3>1. \A r \in Sides : t.child[r][a] \in L \cup {NIL} /\ a \notin U[t.child[r][a]]
      BY <1>1, <1>3, Below
    <3>2. \A r \in Sides : t.child[r][b] \in L \cup {NIL} /\ b \notin U[t.child[r][b]]
      BY <1>1, <1>3, Below
    <3> QED BY <3>1, <3>2
  <2> QED BY <1>0, <1>1, <1>2, <2>1, <2>2, <2>3, <2>4
<1>6. /\ V \in [Nodes -> SUBSET Values] /\ V[b] = U[a] /\ V[a] = {a} \cup U[k] \cup U[m]
      /\ \A n \in Nodes : n # a /\ n # b => V[n] = U[n]
  BY <1>1, <1>2, <1>3, <1>4 DEF RotatedSets
<1>7. V[u.root] = L /\ u.root \in L
  <2>1. u.root = IF a = t.root THEN b ELSE t.root
    BY DEF IsRotated
  <2>2. t.root \in L /\ t.root \in Nodes
    BY <1>1, <1>3, TreeTypes DEF Links
  <2>3. CASE a = t.root
    BY <1>1, <1>6, <2>1, <2>3
  <2>4. CASE a # t.root
    BY <1>1, <1>6, <2>1, <2>2, <2>4
  <2> QED BY <2>3, <2>4
<1>8. \A r \in Sides, n \in Nodes :
         u.child[r][n] = IF n = a /\ r = o THEN m
                         ELSE IF n = b /\ r = s THEN a
                         ELSE IF t.root # a /\ n = t.parent[a] /\ r = SideOf(t, a) THEN b
                         ELSE t.child[r][n]
  BY <1>0 DEF IsRotated
<1>10. ASSUME NEW n \in L, n # a, n # b, NEW r \in Sides
       PROVE  /\ n \in Nodes
              /\ u.child[r][n] = IF t.child[r][n] = a THEN b ELSE t.child[r][n]
              /\ t.child[r][n] # b /\ t.child[r][n] \in L \cup {NIL}
  BY <1>10, OthersChildren
<1>11. \A n \in L : n # a /\ n # b => \A r \in Sides : V[u.child[r][n]] = U[t.child[r][n]]
  <2> TAKE n \in L
  <2> HAVE n # a /\ n # b
  <2> TAKE r \in Sides
  <2>1. CASE t.child[r][n] = a
    BY <1>6, <1>10, <2>1
  <2>2. CASE t.child[r][n] # a
    <3>1. t.child[r][n] \in Nodes
      BY <1>3, <1>10, TreeTypes
    <3> QED BY <1>6, <1>10, <2>2, <3>1
  <2> QED BY <2>1, <2>2
<1>12. V[k] = U[k] /\ V[m] = U[m] /\ V[q] = U[q]
  <2>1. k \in Nodes /\ q \in Nodes
    BY <1>3, <1>4, Below DEF Nodes
  <2> QED BY <1>1, <1>2, <1>6, <2>1
<1>13. Shape(u, V)
  <2>1. V[NIL] = {} /\ IsFiniteSet(V[u.root])
    BY <1>1, <1>3, <1>6, <1>7 DEF Shape, Nodes
  <2>2. ASSUME NEW n \in L
        PROVE  /\ V[n] \subseteq L
               /\ V[n] = {n} \cup V[u.child["left"][n]] \cup V[u.child["right"][n]]
               /\ \A r \in Sides : \A x \in V[u.child[r][n]] : Before(r, x, n)
    <3>1. CASE n = b
      <4>1. V[b] \subseteq L
        BY <1>1, <1>3, <1>6 DEF Shape
      <4>2. V[b] = {b} \cup V[u.child[s][b]] \cup V[u.child[o][b]]
        BY <1>2, <1>4, <1>6, <1>12
      <4>3. \A x \in U[q] : Before(o, x, b)
        BY <1>0, <1>1, <1>2, <1>3 DEF Shape
      <4>4. \A x \in V[a] : Before(s, x, b)
        <5>1. Before(s, a, b)
          <6>1. Before(o, b, a)
            BY <1>0, <1>1, <1>3, <1>4, Below DEF Shape, CanRotate
          <6> QED BY <1>0, <1>1, <6>1, BeforeIs
        <5>2. \A x \in U[m] : Before(s, x, b)
          BY <1>1, <1>3 DEF Shape, CanRotate
        <5>3. \A x \in U[k] : x \in Values /\ Before(s, x, a)
          BY <1>1, <1>2, <1>3, <1>4 DEF Shape, Nodes
        <5> SUFFICES ASSUME NEW x \in V[a]
                     PROVE  Before(s, x, b)
          OBVIOUS
        <5>4. CASE x \in U[k]
          BY <1>1, <5>1, <5>3, <5>4, BeforeIs
        <5> QED BY <1>6, <5>1, <5>2, <5>4
      <4> QED BY <1>0, <1>2, <1>12, <3>1, <4>1, <4>2, <4>3, <4>4 DEF Sides
    <3>2. CASE n = a
      <4>1. V[a] \subseteq L
        BY <1>1, <1>3, <1>4, <1>6 DEF Shape
      <4>2. V[a] = {a} \cup V[u.child[s][a]] \cup V[u.child[o][a]]
        BY <1>2, <1>6, <1>12
      <4>3. \A x \in U[k] : Before(s, x, a)
        BY <1>1, <1>2, <1>3 DEF Shape
      <4>4. \A x \in U[m] : Before(o, x, a)
        BY <1>0, <1>1, <1>3, <1>4 DEF Shape, CanRotate
      <4> QED BY <1>0, <1>2, <1>12, <3>2, <4>1, <4>2, <4>3, <4>4 DEF Sides
    <3>3. CASE n # a /\ n # b
      <4>1. V[n] = U[n]
        BY <1>3, <1>6, <3>3, Below
      <4>2. /\ U[n] \subseteq L
            /\ U[n] = {n} \cup U[t.child["left"][n]] \cup U[t.child["right"][n]]
            /\ \A r \in Sides : \A x \in U[t.child[r][n]] : Before(r, x, n)
        BY <1>3 DEF Shape
      <4> QED BY <1>11, <3>3, <4>1, <4>2, SidesAre
    <3> QED BY <3>1, <3>2, <3>3
  <2> QED BY <1>6, <1>7, <2>1, <2>2 DEF Shape
<1>14. Links(u, L)
  <2>1. u.root \in L /\ u.parent[u.root] = NIL
    <3>1. t.root # NIL => t.parent[t.root] = NIL
      BY <1>3 DEF Links
    <3>2. /\ u.root = IF a = t.root THEN b ELSE t.root
          /\ u.parent[b] = t.parent[a]
          /\ \A n \in Nodes : n # a /\ n # b /\ (n # m \/ m = NIL) => u.parent[n] = t.parent[n]
      BY <1>1 DEF IsRotated
    <3>3. CASE a = t.root
      BY <1>1, <1>7, <3>2, <3>3
    <3>4. CASE a # t.root
      <4>1. t.root \in Nodes
        BY <1>3, TreeTypes
      <4>2. t.root # NIL /\ t.parent[t.root] = NIL
        <5>1. NIL \notin L
          BY <1>3, Below
        <5> QED BY <1>1, <1>3, <5>1 DEF Links
      <4>3. u.root = t.root /\ t.root # b
        BY <1>1, <3>2, <3>4
      <4>4. t.root # m \/ m = NIL
        BY <1>1, <4>2
      <4> QED BY <1>7, <3>2, <3>4, <4>1, <4>2, <4>3, <4>4
    <3> QED BY <3>3, <3>4
  <2>2. ASSUME NEW n \in L, NEW r \in Sides
        PROVE  /\ u.child[r][n] \in L \cup {NIL}
               /\ u.child[r][n] # NIL => u.parent[u.child[r][n]] = n
    <3>0. \A x \in L : x \in Nodes /\ x # NIL
      BY <1>3, Below
    <3>1. CASE n = a
      <4>1. u.child[r][n] \in {k, m}
        BY <1>0, <1>2, <3>1
      <4>2. k # NIL => t.parent[k] = a
        BY <1>1, <1>2, <1>3 DEF Links
      <4>3. k # NIL => u.parent[k] = a
        <5>1. ASSUME k # NIL
              PROVE  u.parent[k] = IF k = m THEN a ELSE t.parent[k]
          <6>1. k \in Nodes /\ k # a /\ k # b
            BY <1>2, <3>0, <5>1
          <6> QED BY <5>1, <6>1 DEF IsRotated
        <5> QED BY <4>2, <5>1
      <4>4. m # NIL => u.parent[m] = a
        BY <1>1 DEF IsRotated
      <4> QED BY <1>1, <1>4, <3>1, <4>1, <4>3, <4>4
    <3>2. CASE n = b
      <4>1. u.child[r][n] \in {a, q}
        BY <1>0, <1>2, <3>2
      <4>2. q # NIL => t.parent[q] = b
        <5>1. \A x \in Sides : t.child[x][b] # NIL => t.parent[t.child[x][b]] = b
          BY <1>1, <1>3 DEF Links
        <5> QED BY <1>0, <1>2, <5>1
      <4>3. q # NIL => u.parent[q] = b
        BY <1>2, <1>4, <3>0, <4>2 DEF IsRotated
      <4>4. u.parent[a] = b
        BY <1>1 DEF IsRotated
      <4> QED BY <1>1, <1>4, <3>2, <4>1, <4>3, <4>4
    <3>3. CASE n # a /\ n # b
      <4>1. /\ u.child[r][n] = IF t.child[r][n] = a THEN b ELSE t.child[r][n]
            /\ t.child[r][n] # b /\ t.child[r][n] \in L \cup {NIL}
        BY <1>10, <3>3
      <4>2. t.child[r][n] # NIL => t.parent[t.child[r][n]] = n
        BY <1>3 DEF Links
      <4> QED BY <1>1, <3>0, <3>3, <4>1, <4>2 DEF IsRotated
    <3> QED BY <3>1, <3>2, <3>3
  <2>3. \A r \in Sides : u.child[r][NIL] = NIL
    <3>1. NIL # t.parent[a] \/ t.root = a
      BY <1>1
    <3>2. \A r \in Sides : t.child[r][NIL] = NIL
      BY <1>3 DEF Links
    <3>3. NIL \in Nodes
      BY DEF Nodes
    <3> QED BY <1>1, <1>8, <3>1, <3>2, <3>3
  <2> QED BY <2>1, <2>2, <2>3 DEF Links
<1> QED BY <1>7, <1>13, <1>14 DEF Bst, IsRotated

-----------------------------------------------------------------------------
(* Rotations with exchanged colors *)

\* u is t in other colors.
SameLinks(t, u) ==
    TreeOK(u) /\ u.root = t.root /\ u.child = t.child /\ u.parent = t.parent

\* u is t with n in another color.
IsPainted(t, u, n, c) ==
    SameLinks(t, u) /\ \A m \in Nodes : u.color[m] = IF m = n THEN c ELSE t.color[m]

LEMMA IsPaintedBy ==
    ASSUME NEW t, TreeOK(t), NEW n \in Nodes, NEW c \in Colors
    PROVE  IsPainted(t, Paint(t, n, c), n, c) /\ TreeOK(Paint(t, n, c))
BY PaintIs DEF IsPainted, SameLinks

LEMMA SameLinksBst ==
    ASSUME NEW t, NEW U, NEW u, Bst(t, U), SameLinks(t, u)
    PROVE  Bst(u, U)
BY DEF SameLinks, Bst, Shape, Links

LEMMA SameLinksRotate ==
    ASSUME NEW t, NEW U, NEW u, NEW a, NEW s, NEW b, NEW m,
           CanRotate(t, U, a, s, b, m), SameLinks(t, u)
    PROVE  IsRotated(t, Rotate(u, a, s), a, s, b, m) /\ Rotate(u, a, s).color = u.color
<1>1. CanRotate(u, U, a, s, b, m)
  BY SameLinksBst DEF CanRotate, SameLinks
<1>2. IsRotated(u, Rotate(u, a, s), a, s, b, m) /\ Rotate(u, a, s).color = u.color
  BY <1>1, RotateIs
<1>3. \A n : SideOf(u, n) = SideOf(t, n)
  BY DEF SideOf, SameLinks
<1> QED BY <1>2, <1>3 DEF IsRotated, SameLinks

LEMMA RotatedLeftOut ==
    ASSUME NEW t, NEW U, NEW a, NEW s, NEW b, NEW m, CanRotate(t, U, a, s, b, m),
           NEW u, IsRotated(t, u, a, s, b, m), NEW z, LeftOut(t, U[t.root], z)
    PROVE  LeftOut(u, U[t.root], z)
<1> SUFFICES ASSUME NEW n \in Values \ U[t.root], NEW r \in Sides
             PROVE  u.child[r][n] = t.child[r][n]
  BY DEF LeftOut
<1>1. a \in U[t.root] /\ n \in Nodes
  BY DEF CanRotate, Nodes
<1>2. n # a /\ n # b /\ (t.root # a => n # t.parent[a])
  BY <1>1, RotationNodes
<1> QED BY <1>1, <1>2 DEF IsRotated

\* a goes down red, and b gets the color that a had.
Exchanged(t, u, a, b) ==
    \A n \in Nodes : u.color[n] = IF n = a THEN "red" ELSE IF n = b THEN t.color[a] ELSE t.color[n]

\* x, if it stands for another black node, is beside the nodes of the rotation.
ExtraBeside(t, l, a, b, m) ==
    l.at = "fixDelete" => /\ l.x # a /\ l.x # b
                          /\ l.x = m => m # NIL \/ t.parent[NIL] \notin {a, b}

ExchangedHeights(H, a, b) == [H EXCEPT ![a] = H[b], ![b] = H[a]]

\* The black heights stay the same if b was red.
LEMMA ExchangedHeightsFit ==
    ASSUME NEW t, NEW U, NEW a, NEW s, NEW b, NEW m, CanRotate(t, U, a, s, b, m),
           NEW u, IsRotated(t, u, a, s, b, m), Exchanged(t, u, a, b), IsRed(t, b),
           NEW l, NEW H, Heights(t, l, U[t.root], H), ExtraBeside(t, l, a, b, m)
    PROVE  Heights(u, l, U[t.root], ExchangedHeights(H, a, b))
<1> DEFINE L == U[t.root]
           E(n, r) == ExtraAt(t, l, n, r)
           F(n, r) == ExtraAt(u, l, n, r)
<1>0. PICK o \in Sides : o = Other(s) /\ s = Other(o) /\ o # s /\ \A r \in Sides : r = s \/ r = o
  BY SidesAre DEF CanRotate
<1>1. PICK G : G = ExchangedHeights(H, a, b)
  OBVIOUS
<1>2. /\ a \in L /\ b \in L /\ a # b /\ m # a /\ m # b /\ a \in Nodes /\ b \in Nodes
      /\ a # NIL /\ b # NIL /\ m \in Nodes /\ s \in Sides /\ t.parent[b] = a
      /\ (m # NIL => t.parent[m] = b)
  <2>1. a \in L /\ b # NIL /\ s \in Sides
    BY DEF CanRotate
  <2> QED BY <2>1, RotationNodes
<1>3. b = t.child[o][a] /\ m = t.child[s][b]
  BY <1>0 DEF CanRotate
<1>4. PICK k \in L \cup {NIL}, q \in L \cup {NIL} :
         /\ k = t.child[s][a] /\ q = t.child[o][b]
         /\ u.child[s][a] = k /\ u.child[o][a] = m /\ u.child[s][b] = a /\ u.child[o][b] = q
         /\ k # a /\ k # b /\ q # a /\ q # b /\ (k # m \/ k = NIL) /\ (q # m \/ q = NIL)
  BY <1>0, RotatedChildrenAre DEF RotatedChildren
<1>5. L \subseteq Nodes /\ NIL \in Nodes
  BY Below, TreeTypes DEF CanRotate, Bst
<1>6. \A n \in Nodes : H[n] \in Nat
  BY DEF Heights
<1>7. /\ G \in [Nodes -> Nat] /\ G[a] = H[b] /\ G[b] = H[a]
      /\ \A n \in Nodes : n # a /\ n # b => G[n] = H[n]
  BY <1>1, <1>2 DEF Heights, ExchangedHeights
<1>8. G[NIL] = 0
  BY <1>2, <1>5, <1>7 DEF Heights
<1>9. \A n \in L, r \in Sides : H[n] = H[t.child[r][n]] + E(n, r) + Blacks(t, n)
  BY DEF Heights
<1>10. Blacks(u, a) = 0 /\ Blacks(t, b) = 0 /\ Blacks(u, b) = Blacks(t, a)
       /\ \A n \in L : n # a /\ n # b => Blacks(u, n) = Blacks(t, n)
  BY <1>2, <1>5 DEF Blacks, IsRed, Exchanged
<1>11. E(a, o) = 0 /\ F(b, s) = 0
  BY <1>3, <1>4 DEF ExtraAt, ExtraBeside
<1>12. /\ l.at = "fixDelete" /\ l.x = m /\ l.x \in Nodes =>
              (IF m = NIL THEN u.parent[m] = t.parent[m] ELSE u.parent[m] = a)
       /\ l.at = "fixDelete" /\ l.x # m /\ l.x \in Nodes => u.parent[l.x] = t.parent[l.x]
  BY <1>2 DEF IsRotated, ExtraBeside
<1>13. F(a, s) = E(a, s) /\ F(b, o) = E(b, o) /\ F(a, o) = E(b, s)
  <2>1. k \in Nodes /\ q \in Nodes
    BY <1>4, <1>5
  <2> QED BY <1>2, <1>3, <1>4, <1>12, <2>1 DEF ExtraAt, ExtraBeside
<1>14. Blacks(t, a) \in Nat /\ E(a, s) \in Nat /\ E(b, s) \in Nat /\ E(b, o) \in Nat
  BY DEF Blacks, ExtraAt
<1>15. k \in Nodes /\ q \in Nodes /\ G[k] = H[k] /\ G[q] = H[q] /\ G[m] = H[m]
  BY <1>2, <1>4, <1>5, <1>7
<1>16. H[a] = H[k] + E(a, s) + Blacks(t, a) /\ H[a] = H[b] + Blacks(t, a)
       /\ H[b] = H[m] + E(b, s) /\ H[b] = H[q] + E(b, o)
  <2>1. H[a] = H[k] + E(a, s) + Blacks(t, a) /\ H[a] = H[b] + E(a, o) + Blacks(t, a)
        /\ H[b] = H[m] + E(b, s) + Blacks(t, b) /\ H[b] = H[q] + E(b, o) + Blacks(t, b)
    BY <1>0, <1>2, <1>3, <1>4, <1>9
  <2> HIDE DEF E
  <2> QED BY <1>2, <1>6, <1>10, <1>11, <1>14, <1>15, <2>1
<1>17. ASSUME NEW n \in L, NEW r \in Sides
       PROVE  G[n] = G[u.child[r][n]] + F(n, r) + Blacks(u, n)
  <2>1. CASE n = a
    <3>1. G[a] = G[k] + F(a, s) + Blacks(u, a) /\ G[a] = G[m] + F(a, o) + Blacks(u, a)
      <4> HIDE DEF E, F
      <4> QED BY <1>2, <1>6, <1>7, <1>10, <1>13, <1>14, <1>15, <1>16
    <3> QED BY <1>0, <1>4, <2>1, <3>1
  <2>2. CASE n = b
    <3>1. G[b] = G[a] + F(b, s) + Blacks(u, b) /\ G[b] = G[q] + F(b, o) + Blacks(u, b)
      <4> HIDE DEF E, F
      <4> QED BY <1>2, <1>6, <1>7, <1>10, <1>11, <1>13, <1>14, <1>15, <1>16
    <3> QED BY <1>0, <1>4, <2>2, <3>1
  <2>3. CASE n # a /\ n # b
    <3>1. PICK c : c = t.child[r][n]
      OBVIOUS
    <3>2. n \in Nodes /\ u.child[r][n] = (IF c = a THEN b ELSE c) /\ c # b /\ c \in L \cup {NIL}
      BY <2>3, <3>1, OthersChildren
    <3>3. G[n] = H[n] /\ G[u.child[r][n]] = H[c]
      BY <1>2, <1>5, <1>7, <2>3, <3>2
    <3>4. F(n, r) = E(n, r)
      <4>1. c \in Nodes
        BY <1>5, <3>2
      <4> QED BY <1>2, <1>12, <2>3, <3>1, <3>2, <4>1 DEF ExtraAt, ExtraBeside
    <3>5. Blacks(u, n) = Blacks(t, n) /\ H[n] = H[c] + E(n, r) + Blacks(t, n)
      BY <1>9, <1>10, <2>3, <3>1
    <3> QED BY <3>3, <3>4, <3>5
  <2> QED BY <2>1, <2>2, <2>3
<1> QED BY <1>1, <1>7, <1>8, <1>17 DEF Heights

LEMMA IsChildOfParent ==
    ASSUME NEW t, NEW U, Bst(t, U), NEW n \in U[t.root], n # t.root, NEW s \in Sides
    PROVE  n = t.child[s][t.parent[n]] \/ n = t.child[Other(s)][t.parent[n]]
BY HasParent, SidesAre

\* No node is a child of its own, or has the root as one.
LEMMA ChildIsNew ==
    ASSUME NEW t, NEW U, Bst(t, U), NEW n \in U[t.root], NEW s \in Sides, t.child[s][n] # NIL
    PROVE  /\ t.child[s][n] # n /\ t.child[s][n] # t.root /\ t.child[s][n] \in U[t.root]
           /\ t.parent[t.child[s][n]] = n /\ t.parent[n] # t.child[s][n]
<1> DEFINE c == t.child[s][n]
<1>1. n \notin U[c] /\ c \in U[t.root] /\ n # NIL
  BY Below
<1>2. c \in U[c]
  BY <1>1, Below
<1>3. t.parent[c] = n
  BY DEF Bst, Links
<1>4. c # t.root
  BY <1>1, <1>3 DEF Bst, Links
<1>5. ASSUME t.parent[n] = c
      PROVE  FALSE
  <2>1. n # t.root
    BY <1>1, <1>5, Below DEF Bst, Links
  <2>2. PICK r \in Sides : t.child[r][c] = n
    BY <1>5, <2>1, HasParent
  <2>3. n \in U[n] /\ U[t.child[r][c]] \subseteq U[c]
    BY <1>1, Below
  <2> QED BY <1>1, <2>2, <2>3
<1> QED BY <1>1, <1>2, <1>3, <1>4, <1>5

\* Where a red node is below a red one after such a rotation.
LEMMA ExchangedPairs ==
    ASSUME NEW t, NEW U, NEW a, NEW s, NEW b, NEW m, CanRotate(t, U, a, s, b, m),
           NEW u, IsRotated(t, u, a, s, b, m), Exchanged(t, u, a, b), IsRed(t, b), ~IsRed(t, NIL),
           NEW n \in U[t.root], IsRed(u, n), IsRed(u, u.parent[n])
    PROVE  \/ n = a /\ IsRed(t, a)
           \/ n = b /\ IsRed(t, a) /\ IsRed(t, t.parent[a])
           \/ /\ n # a /\ n # b /\ IsRed(t, n)
              /\ IsRed(t, t.parent[n]) \/ n = t.child[s][a]
<1> DEFINE L == U[t.root]
<1>1. Bst(t, U) /\ TreeOK(t) /\ s \in Sides /\ b = t.child[Other(s)][a] /\ L \subseteq Nodes
  BY Below DEF CanRotate, Bst
<1>2. /\ a \in Nodes /\ b \in Nodes /\ a # b /\ t.parent[a] # a /\ t.parent[a] # b
      /\ t.parent[a] \in Nodes /\ (m # NIL => t.parent[m] = b) /\ m # a /\ m # b
  BY RotationNodes
<1>3. CASE n = a
  BY <1>2, <1>3 DEF IsRotated, Exchanged, IsRed
<1>4. CASE n = b
  BY <1>2, <1>4 DEF IsRotated, Exchanged, IsRed
<1>5. CASE n # a /\ n # b
  <2>1. n \in Nodes /\ IsRed(t, n) /\ t.parent[n] \in Nodes
    BY <1>1, <1>5, TreeTypes DEF Exchanged, IsRed
  <2>2. CASE n = m
    BY <1>2, <1>5, <2>1, <2>2
  <2>3. CASE n # m
    <3>1. u.parent[n] = t.parent[n]
      BY <1>5, <2>1, <2>3 DEF IsRotated
    <3>2. CASE t.parent[n] = a
      <4>1. n # t.root
        <5>1. a # NIL
          BY RotationNodes
        <5> QED BY <1>1, <3>2, <5>1 DEF Bst, Links
      <4>2. n = t.child[s][a] \/ n = t.child[Other(s)][a]
        BY <1>1, <3>2, <4>1, IsChildOfParent
      <4> QED BY <1>1, <1>5, <2>1, <4>2
    <3>3. CASE t.parent[n] # a
      BY <1>2, <1>5, <2>1, <3>1, <3>3 DEF Exchanged, IsRed
    <3> QED BY <3>2, <3>3
  <2> QED BY <2>2, <2>3
<1> QED BY <1>3, <1>4, <1>5

\* What follows without a look at the case in which the rotation is done.
LEMMA ExchangeFits ==
    ASSUME NEW t, NEW l, NEW U, NEW H, Fits(t, l, U, H),
           NEW a, NEW s, NEW b, NEW m, CanRotate(t, U, a, s, b, m),
           NEW u, IsRotated(t, u, a, s, b, m), Exchanged(t, u, a, b), IsRed(t, b),
           ExtraBeside(t, l, a, b, m),
           NEW k, k.at = l.at, k.z = l.z, k.x = l.x \/ l.at = "fixInsert"
    PROVE  \E V, G : /\ Bst(u, V) /\ V[u.root] = U[t.root]
                     /\ LeftOut(u, U[t.root], k.z) /\ Heights(u, k, U[t.root], G)
                     /\ V = RotatedSets(t, U, a, s, b, m) /\ G = ExchangedHeights(H, a, b)
                     /\ ~IsRed(u, NIL) /\ (IsRed(u, u.root) <=> IsRed(t, t.root))
<1>1. PICK V : V = RotatedSets(t, U, a, s, b, m)
  OBVIOUS
<1>2. PICK G : G = ExchangedHeights(H, a, b)
  OBVIOUS
<1>3. Bst(u, V) /\ V[u.root] = U[t.root]
  BY <1>1, RotatedIsBst
<1>4. LeftOut(u, U[t.root], k.z)
  BY RotatedLeftOut DEF Fits
<1>5. Heights(u, l, U[t.root], G)
  BY <1>2, ExchangedHeightsFit DEF Fits
<1>6. Heights(u, k, U[t.root], G)
  <2>1. \A n, r : ExtraAt(u, k, n, r) = ExtraAt(u, l, n, r)
    BY DEF ExtraAt
  <2> QED BY <1>5, <2>1 DEF Heights
<1>7. /\ a \in Nodes /\ b \in Nodes /\ a # b /\ a # NIL /\ b # NIL /\ t.root # b
      /\ t.root \in Nodes /\ NIL \in Nodes
  <2>1. a # b /\ a \in Nodes /\ b \in Nodes /\ a # NIL /\ t.root # b
    BY RotationNodes
  <2> QED BY <2>1, TreeTypes DEF CanRotate, Bst
<1>8. ~IsRed(u, NIL) /\ (IsRed(u, u.root) <=> IsRed(t, t.root))
  BY <1>7 DEF Exchanged, IsRed, IsRotated, Fits, Colored
<1> QED BY <1>1, <1>2, <1>3, <1>4, <1>6, <1>8

-----------------------------------------------------------------------------
(* The loop of insert() *)

\* The nodes fixInsert() looks at: x and its parent p are red, g is above p, and
\* y is the uncle of x.
InsertPlace(t, l, U, x, p, g, s, y) ==
    /\ l.at = "fixInsert" /\ l.x = x /\ s \in Sides
    /\ x \in U[t.root] /\ p \in U[t.root] /\ g \in U[t.root] /\ y \in U[t.root] \cup {NIL}
    /\ t.parent[x] = p /\ t.parent[p] = g /\ t.child[s][g] = p /\ t.child[Other(s)][g] = y
    /\ \E r \in Sides : t.child[r][p] = x
    /\ x # p /\ x # g /\ p # g /\ y # p /\ y # g /\ y # x
    /\ IsRed(t, x) /\ IsRed(t, p) /\ ~IsRed(t, g) /\ p # t.root /\ x # t.root
    /\ y # NIL => t.parent[y] = g

LEMMA InsertPlaceIs ==
    ASSUME NEW t, NEW l, NEW U, NEW H, Fits(t, l, U, H), l.at = "fixInsert",
           NEW x, x = l.x, NEW p, p = t.parent[x], IsRed(t, p),
           NEW g, g = t.parent[p], NEW s, s = SideOf(t, p), NEW y, y = t.child[Other(s)][g]
    PROVE  InsertPlace(t, l, U, x, p, g, s, y)
<1> DEFINE L == U[t.root]
<1>1. Bst(t, U) /\ x \in L /\ IsRed(t, x) /\ p # NIL
  BY DEF Fits, LoopOK, NoLoop, Colored
<1>2. x # t.root
  BY <1>1 DEF Bst, Links
<1>3. PICK r \in Sides : p \in L /\ t.child[r][p] = x
  BY <1>1, <1>2, HasParent
<1>4. x # NIL /\ p # NIL
  BY <1>1, <1>3, Below
<1>5. x # p /\ t.parent[p] # x
  BY <1>1, <1>3, <1>4, ChildIsNew
<1>6. p # t.root
  BY <1>2, <1>3, <1>5 DEF Fits, Colored
<1>7. g \in L /\ g # NIL /\ t.child[s][g] = p /\ s \in Sides
  BY <1>1, <1>3, <1>6, HasParent
<1>8. p # g
  BY <1>1, <1>4, <1>7, ChildIsNew
<1>9. ~IsRed(t, g)
  BY <1>3, <1>5 DEF Fits, Colored
<1>10. y \in L \cup {NIL} /\ y # p
  <2>1. \A q \in Sides : t.child[q][g] \in L \cup {NIL}
    BY <1>1, <1>7, Below
  <2>2. t.child[Other(s)][g] # t.child[s][g]
    BY <1>1, <1>4, <1>7, ChildrenDiffer
  <2> QED BY <1>7, <2>1, <2>2, SidesAre
<1>11. y # NIL => t.parent[y] = g /\ y # g
  <2>1. \A q \in Sides : t.child[q][g] # NIL => /\ t.parent[t.child[q][g]] = g
                                               /\ t.child[q][g] # g
    <3> SUFFICES ASSUME NEW q \in Sides, t.child[q][g] # NIL
                 PROVE  t.parent[t.child[q][g]] = g /\ t.child[q][g] # g
      OBVIOUS
    <3>1. Bst(t, U) /\ g \in U[t.root]
      BY <1>1, <1>7
    <3> QED BY <3>1, ChildIsNew
  <2> QED BY <1>7, <2>1, SidesAre
<1>12. y # x /\ y # g
  <2>1. g # NIL
    BY <1>7
  <2> QED BY <1>4, <1>8, <1>11, <2>1
<1> QED BY <1>1, <1>2, <1>3, <1>5, <1>6, <1>7, <1>8, <1>9, <1>10, <1>11, <1>12 DEF InsertPlace

\* The uncle is red: the three nodes above x change their colors.
LEMMA RecolorsFits ==
    ASSUME NEW t, NEW l, NEW U, NEW H, Fits(t, l, U, H),
           NEW x, NEW p, NEW g, NEW s, NEW y, InsertPlace(t, l, U, x, p, g, s, y), IsRed(t, y),
           NEW u, u = Paint(Paint(Paint(t, p, "black"), y, "black"), g, "red")
    PROVE  \E G : Fits(u, MovedTo(l, g), U, G)
<1> DEFINE L == U[t.root]
           k == MovedTo(l, g)
           G == [H EXCEPT ![p] = H[p] + 1, ![y] = H[y] + 1]
<1>1. Bst(t, U) /\ TreeOK(t) /\ ~IsRed(t, NIL) /\ L \subseteq Nodes /\ NIL \notin L
  BY Below DEF Fits, Bst, Colored
<1>2. /\ x \in L /\ p \in L /\ g \in L /\ y \in L /\ s \in Sides /\ x \in Nodes /\ y \in Nodes
      /\ p \in Nodes /\ g \in Nodes /\ g # NIL
      /\ x # p /\ x # g /\ p # g /\ y # p /\ y # g /\ y # x
  BY <1>1 DEF InsertPlace
<1>3. /\ SameLinks(t, u)
      /\ \A n \in Nodes : u.color[n] = IF n = g THEN "red" ELSE IF n \in {p, y} THEN "black" ELSE t.color[n]
  <2>1. PICK t1 : t1 = Paint(t, p, "black") /\ IsPainted(t, t1, p, "black") /\ TreeOK(t1)
    BY <1>1, <1>2, IsPaintedBy DEF Colors
  <2>2. PICK t2 : t2 = Paint(t1, y, "black") /\ IsPainted(t1, t2, y, "black") /\ TreeOK(t2)
    BY <1>2, <2>1, IsPaintedBy DEF Colors
  <2>3. IsPainted(t2, u, g, "red")
    BY <1>2, <2>1, <2>2, IsPaintedBy DEF Colors
  <2> QED BY <1>2, <2>1, <2>2, <2>3 DEF SameLinks, IsPainted
<1>4. Bst(u, U) /\ U[u.root] = L
  BY <1>1, <1>3, SameLinksBst DEF SameLinks
<1>5. /\ l \in [at : {"fixInsert"}, x : L, z : {NIL}]
      /\ k \in [at : {"fixInsert"}, x : L, z : {NIL}] /\ k.x = g /\ k.z = l.z /\ k.at = l.at
  <2>1. l \in [at : {"fixInsert"}, x : L, z : {NIL}]
    BY DEF Fits, LoopOK, NoLoop, InsertPlace
  <2> QED BY <1>2, <2>1 DEF MovedTo
<1> HIDE DEF k
<1>6. LeftOut(u, L, k.z) /\ LoopOK(u, k, L)
  BY <1>2, <1>3, <1>5 DEF Fits, LeftOut, SameLinks, LoopOK, IsRed
<1>7. Heights(u, k, L, G)
  <2>1. H \in [Nodes -> Nat] /\ H[NIL] = 0
    BY DEF Fits, Heights
  <2>2. /\ G \in [Nodes -> Nat] /\ G[p] = H[p] + 1 /\ G[y] = H[y] + 1
        /\ \A n \in Nodes : n # p /\ n # y => G[n] = H[n]
    BY <1>2, <2>1
  <2> HIDE DEF G
  <2>3. ASSUME NEW n \in L, NEW r \in Sides
        PROVE  G[n] = G[t.child[r][n]] + Blacks(u, n)
    <3>1. H[n] = H[t.child[r][n]] + Blacks(t, n)
      <4>1. H[n] = H[t.child[r][n]] + ExtraAt(t, l, n, r) + Blacks(t, n)
        BY DEF Fits, Heights
      <4>2. ExtraAt(t, l, n, r) = 0
        BY DEF ExtraAt, InsertPlace
      <4>3. H[t.child[r][n]] \in Nat /\ Blacks(t, n) \in Nat
        BY <1>1, <2>1, TreeTypes DEF Blacks
      <4> QED BY <4>1, <4>2, <4>3
    <3>2. t.child[r][n] \in Nodes
      BY <1>1, TreeTypes
    <3>3. n # g => t.child[r][n] # p /\ t.child[r][n] # y
      BY <1>1, <1>2, ChildIsNew DEF InsertPlace
    <3>4. CASE n = g
      <4>1. t.child[r][n] \in {p, y}
        BY <3>4, SidesAre DEF InsertPlace
      <4>2. Blacks(t, n) = 1 /\ Blacks(u, n) = 0
        BY <1>2, <1>3, <3>4 DEF Blacks, IsRed, InsertPlace
      <4> QED BY <1>2, <2>1, <2>2, <3>1, <3>4, <4>1, <4>2
    <3>5. CASE n \in {p, y}
      <4>1. Blacks(t, n) = 0 /\ Blacks(u, n) = 1
        BY <1>2, <1>3, <3>5 DEF Blacks, IsRed, InsertPlace
      <4> QED BY <1>2, <2>1, <2>2, <3>1, <3>2, <3>3, <3>5, <4>1
    <3>6. CASE n \notin {g, p, y}
      <4>1. Blacks(u, n) = Blacks(t, n)
        BY <1>1, <1>3, <3>6 DEF Blacks, IsRed
      <4> QED BY <1>1, <2>2, <3>1, <3>2, <3>3, <3>6, <4>1
    <3> QED BY <3>4, <3>5, <3>6
  <2>4. ASSUME NEW n \in L, NEW r \in Sides
        PROVE  G[n] = G[u.child[r][n]] + ExtraAt(u, k, n, r) + Blacks(u, n)
    <3>1. ExtraAt(u, k, n, r) = 0 /\ u.child = t.child
      BY <1>3, <1>5 DEF ExtraAt, SameLinks
    <3>2. G[t.child[r][n]] \in Nat
      BY <1>1, <2>2, TreeTypes
    <3> QED BY <2>3, <3>1, <3>2
  <2> QED BY <1>1, <1>2, <2>1, <2>2, <2>4, TreeTypes DEF Heights
<1>8. Colored(u, k, L)
  <2>1. ~IsRed(u, NIL)
    BY <1>1, <1>2, <1>3, TreeTypes DEF IsRed
  <2>2. ASSUME NEW n \in L, IsRed(u, n), IsRed(u, t.parent[n]), n # g
        PROVE  FALSE
    <3>1. n \notin {p, y} /\ IsRed(t, n) /\ n \in Nodes
      BY <1>1, <1>2, <1>3, <2>2 DEF IsRed
    <3>2. t.parent[n] \in Nodes /\ t.parent[n] # NIL
      BY <1>1, <2>1, <2>2, <3>1, TreeTypes
    <3>3. t.parent[n] \notin {p, y}
      BY <1>2, <1>3, <2>2, <3>2 DEF IsRed
    <3>4. n # t.root
      BY <3>2, <1>1 DEF Bst, Links
    <3>5. t.parent[n] # g
      BY <1>1, <1>2, <3>1, <3>4, IsChildOfParent DEF InsertPlace
    <3>6. IsRed(t, t.parent[n])
      BY <1>3, <2>2, <3>2, <3>3, <3>5 DEF IsRed
    <3>7. n = x
      BY <3>1, <3>6 DEF Fits, Colored, InsertPlace
    <3> QED BY <3>3, <3>7 DEF InsertPlace
  <2>3. IsRed(u, u.root) => u.root = g
    <3>1. t.root # x /\ t.root # p
      BY DEF InsertPlace
    <3>2. ~IsRed(t, t.root)
      BY <3>1 DEF Fits, Colored, InsertPlace
    <3>3. u.root = t.root /\ t.root \in Nodes
      BY <1>1, <1>3, TreeTypes DEF SameLinks
    <3> QED BY <1>2, <1>3, <3>2, <3>3 DEF IsRed
  <2>4. u.parent = t.parent
    BY <1>3 DEF SameLinks
  <2> QED BY <1>5, <2>1, <2>2, <2>3, <2>4 DEF Colored
<1> HIDE DEF G
<1> QED BY <1>4, <1>6, <1>7, <1>8 DEF Fits, k

\* x is between p and g: the rotation of p outwards exchanges x and p.
TurnsOut(t, l, x, p, s, u, k) ==
    x = t.child[Other(s)][p] /\ u = Rotate(t, p, s) /\ k = MovedTo(l, p)

LEMMA InnerRotates ==
    ASSUME NEW t, NEW l, NEW U, NEW H, Fits(t, l, U, H),
           NEW x, NEW p, NEW g, NEW s, NEW y, InsertPlace(t, l, U, x, p, g, s, y),
           NEW u, NEW k, TurnsOut(t, l, x, p, s, u, k)
    PROVE  \E V, G : /\ Fits(u, k, V, G) /\ V[u.root] = U[t.root]
                     /\ InsertPlace(u, k, V, p, x, g, s, y) /\ u.child[s][x] = p
                     /\ u.color = t.color
<1> SUFFICES ASSUME x = t.child[Other(s)][p], u = Rotate(t, p, s), k = MovedTo(l, p)
             PROVE  \E V, G : /\ Fits(u, k, V, G) /\ V[u.root] = U[t.root]
                              /\ InsertPlace(u, k, V, p, x, g, s, y) /\ u.child[s][x] = p
                              /\ u.color = t.color
  BY DEF TurnsOut
<1> DEFINE L == U[t.root]
<1>1. PICK m : m = t.child[s][x]
  OBVIOUS
<1>2. /\ Bst(t, U) /\ ~IsRed(t, NIL) /\ NIL \notin L /\ L \subseteq Nodes
      /\ l \in [at : {"fixInsert"}, x : L, z : {NIL}]
  BY Below DEF Fits, Bst, Colored, LoopOK, NoLoop, InsertPlace
<1>3. /\ x \in L /\ p \in L /\ g \in L /\ y \in L \cup {NIL} /\ s \in Sides
      /\ x # p /\ x # g /\ p # g /\ y # p /\ y # g /\ y # x /\ p # t.root /\ x # t.root
      /\ t.parent[x] = p /\ t.parent[p] = g /\ t.child[s][g] = p /\ t.child[Other(s)][g] = y
      /\ IsRed(t, x) /\ IsRed(t, p) /\ ~IsRed(t, g) /\ (y # NIL => t.parent[y] = g)
      /\ l.at = "fixInsert" /\ l.x = x
  BY DEF InsertPlace
<1>4. CanRotate(t, U, p, s, x, m)
  BY <1>1, <1>2, <1>3 DEF CanRotate
<1>5. IsRotated(t, u, p, s, x, m) /\ u.color = t.color
  BY <1>4, RotateIs
<1>6. Exchanged(t, u, p, x)
  BY <1>3, <1>5 DEF Exchanged, IsRed
<1>7. ExtraBeside(t, l, p, x, m)
  BY <1>3 DEF ExtraBeside
<1>8. k.at = l.at /\ k.z = l.z /\ k.x = p /\ k \in [at : {"fixInsert"}, x : L, z : {NIL}]
  BY <1>2, <1>3 DEF MovedTo
<1>9. PICK V, G : /\ Bst(u, V) /\ V[u.root] = L /\ LeftOut(u, L, k.z) /\ Heights(u, k, L, G)
                  /\ ~IsRed(u, NIL) /\ (IsRed(u, u.root) <=> IsRed(t, t.root))
  BY <1>3, <1>4, <1>5, <1>6, <1>7, <1>8, ExchangeFits
<1>10. ~IsRed(t, t.root)
  BY <1>3 DEF Fits, Colored
<1>11. Colored(u, k, L)
  <2>1. ASSUME NEW n \in L, IsRed(u, n), IsRed(u, u.parent[n]), n # p
        PROVE  FALSE
    <3>1. \/ n = x /\ IsRed(t, g)
          \/ n # x /\ IsRed(t, n) /\ (IsRed(t, t.parent[n]) \/ n = t.child[s][p])
      BY <1>2, <1>3, <1>4, <1>5, <1>6, <2>1, ExchangedPairs
    <3>2. n # x => ~(IsRed(t, n) /\ IsRed(t, t.parent[n]))
      BY <1>3 DEF Fits, Colored
    <3>3. n = t.child[s][p] => t.parent[n] = p
      <4>1. n # NIL
        BY <1>2
      <4> QED BY <1>2, <1>3, <4>1 DEF Bst, Links
    <3> QED BY <1>3, <3>1, <3>2, <3>3
  <2> QED BY <1>8, <1>9, <1>10, <2>1 DEF Colored
<1>12. LoopOK(u, k, L)
  BY <1>3, <1>5, <1>8 DEF LoopOK, IsRed
<1>13. Fits(u, k, V, G)
  BY <1>9, <1>11, <1>12 DEF Fits
<1>14. InsertPlace(u, k, V, p, x, g, s, y) /\ u.child[s][x] = p
  <2>1. m # NIL => t.parent[m] = x
    BY <1>4, RotationNodes
  <2>2. /\ x \in Nodes /\ p \in Nodes /\ g \in Nodes /\ y \in Nodes /\ (y # m \/ y = NIL)
    BY <1>2, <1>3, <2>1 DEF Nodes
  <2>3. u.parent[p] = x /\ u.parent[x] = g /\ (y # NIL => u.parent[y] = g)
    <3>1. \A n \in Nodes : u.parent[n] = IF n = p THEN x
                                         ELSE IF n = x THEN t.parent[p]
                                         ELSE IF n = m /\ m # NIL THEN p
                                         ELSE t.parent[n]
      BY <1>5 DEF IsRotated
    <3>2. u.parent[p] = x /\ u.parent[x] = g
      BY <1>3, <2>2, <3>1
    <3>3. y # NIL => u.parent[y] = t.parent[y]
      BY <1>3, <2>2, <3>1
    <3> QED BY <1>3, <3>2, <3>3
  <2>4. u.child[s][x] = p
    BY <1>4, <1>5, RotatedChildrenAre DEF RotatedChildren
  <2>5. \A r \in Sides : u.child[r][g] = IF t.child[r][g] = p THEN x ELSE t.child[r][g]
    BY <1>3, <1>4, <1>5, OthersChildren
  <2>6. u.child[s][g] = x /\ u.child[Other(s)][g] = y
    BY <1>3, <2>5, SidesAre
  <2>7. u.root = t.root
    BY <1>3, <1>5 DEF IsRotated
  <2>8. \A n : IsRed(u, n) <=> IsRed(t, n)
    BY <1>5 DEF IsRed
  <2> QED BY <1>3, <1>8, <1>9, <2>3, <2>4, <2>6, <2>7, <2>8 DEF InsertPlace
<1> QED BY <1>5, <1>9, <1>13, <1>14

\* x is on the outer side: the rotation of g makes p the root of the three, in
\* black, and no red node is below a red one any more.
LEMMA OuterRotates ==
    ASSUME NEW t, NEW l, NEW U, NEW H, Fits(t, l, U, H),
           NEW x, NEW p, NEW g, NEW s, NEW y, InsertPlace(t, l, U, x, p, g, s, y), ~IsRed(t, y),
           x = t.child[s][p],
           NEW u, u = Rotate(Paint(Paint(t, p, "black"), g, "red"), g, Other(s))
    PROVE  /\ \E V, G : Fits(u, l, V, G) /\ V[u.root] = U[t.root]
           /\ u.parent[x] = p /\ ~IsRed(u, p)
<1> DEFINE L == U[t.root]
<1>0. PICK o \in Sides : o = Other(s) /\ s = Other(o) /\ o # s
  BY SidesAre DEF InsertPlace
<1>1. PICK m : m = t.child[o][p]
  OBVIOUS
<1>2. /\ Bst(t, U) /\ TreeOK(t) /\ ~IsRed(t, NIL) /\ NIL \notin L /\ L \subseteq Nodes
      /\ l \in [at : {"fixInsert"}, x : L, z : {NIL}]
  BY Below DEF Fits, Bst, Colored, LoopOK, NoLoop, InsertPlace
<1>3. /\ x \in L /\ p \in L /\ g \in L /\ y \in L \cup {NIL} /\ s \in Sides
      /\ x # p /\ x # g /\ p # g /\ y # p /\ y # g /\ y # x /\ p # t.root /\ x # t.root
      /\ t.parent[x] = p /\ t.parent[p] = g /\ t.child[s][g] = p /\ t.child[o][g] = y
      /\ IsRed(t, x) /\ IsRed(t, p) /\ ~IsRed(t, g) /\ (y # NIL => t.parent[y] = g)
      /\ l.at = "fixInsert" /\ l.x = x
  BY <1>0 DEF InsertPlace
<1>4. CanRotate(t, U, g, o, p, m)
  BY <1>0, <1>1, <1>2, <1>3 DEF CanRotate
<1>5. PICK c : /\ c = Paint(Paint(t, p, "black"), g, "red") /\ SameLinks(t, c)
               /\ \A n \in Nodes : c.color[n] = IF n = g THEN "red" ELSE IF n = p THEN "black"
                                                ELSE t.color[n]
  <2>1. p \in Nodes /\ g \in Nodes
    BY <1>2, <1>3
  <2>2. PICK c1 : c1 = Paint(t, p, "black") /\ IsPainted(t, c1, p, "black") /\ TreeOK(c1)
    BY <1>2, <2>1, IsPaintedBy DEF Colors
  <2>3. PICK c2 : c2 = Paint(c1, g, "red") /\ IsPainted(c1, c2, g, "red")
    BY <2>1, <2>2, IsPaintedBy DEF Colors
  <2> QED BY <2>2, <2>3 DEF IsPainted, SameLinks
<1>6. IsRotated(t, u, g, o, p, m) /\ u.color = c.color
  BY <1>0, <1>4, <1>5, SameLinksRotate
<1>7. Exchanged(t, u, g, p)
  <2>1. t.color[g] = "black"
    BY <1>2, <1>3, TreeTypes DEF IsRed, Colors
  <2> QED BY <1>5, <1>6, <2>1 DEF Exchanged
<1>8. ExtraBeside(t, l, g, p, m)
  BY <1>3 DEF ExtraBeside
<1>9. PICK V, G : /\ Bst(u, V) /\ V[u.root] = L /\ LeftOut(u, L, l.z) /\ Heights(u, l, L, G)
                  /\ ~IsRed(u, NIL) /\ (IsRed(u, u.root) <=> IsRed(t, t.root))
  BY <1>3, <1>4, <1>6, <1>7, <1>8, ExchangeFits
<1>10. ~IsRed(t, t.root)
  BY <1>3 DEF Fits, Colored
<1>11. Colored(u, l, L)
  <2>1. ASSUME NEW n \in L, IsRed(u, n), IsRed(u, u.parent[n])
        PROVE  n = x
    <3>1. IsRed(t, n) /\ (IsRed(t, t.parent[n]) \/ n = y)
      BY <1>2, <1>3, <1>4, <1>6, <1>7, <2>1, ExchangedPairs
    <3> QED BY <1>3, <3>1 DEF Fits, Colored, InsertPlace
  <2> QED BY <1>3, <1>9, <1>10, <2>1 DEF Colored
<1>12. IsRed(u, x)
  BY <1>2, <1>3, <1>7 DEF Exchanged, IsRed
<1>13. LoopOK(u, l, L)
  BY <1>2, <1>3, <1>12 DEF LoopOK
<1>14. u.parent[x] = p /\ ~IsRed(u, p)
  <2>1. x # m
    <3>1. Bst(t, U) /\ p \in U[t.root] /\ s \in Sides /\ t.child[s][p] # NIL
      BY <1>2, <1>3
    <3>2. t.child[Other(s)][p] # t.child[s][p]
      BY ONLY <3>1, ChildrenDiffer
    <3> QED BY <1>0, <1>1, <3>2
  <2> QED BY <1>2, <1>3, <1>5, <1>6, <2>1 DEF IsRotated, IsRed
<1> QED BY <1>9, <1>11, <1>13, <1>14 DEF Fits

\* A red node that stands for another black node becomes black, or the root does.
LEMMA BlackensHeights ==
    ASSUME NEW t, NEW U, Bst(t, U), NEW l, NEW H, Heights(t, l, U[t.root], H),
           NEW x \in U[t.root], NEW u, IsPainted(t, u, x, "black"),
           \A n \in U[t.root], r \in Sides :
              ExtraAt(t, l, n, r) = IF t.child[r][n] = x THEN 1 ELSE 0,
           x # t.root => IsRed(t, x)
    PROVE  \E G : Heights(u, NoLoop, U[t.root], G)
<1> DEFINE L == U[t.root]
           G == [H EXCEPT ![x] = H[x] + 1 - Blacks(t, x)]
<1>1. /\ H \in [Nodes -> Nat] /\ H[NIL] = 0 /\ x \in Nodes /\ x # NIL /\ L \subseteq Nodes
      /\ NIL \in Nodes
  BY Below, TreeTypes DEF Heights, Bst
<1>2. Blacks(t, x) \in {0, 1}
  BY DEF Blacks
<1>3. /\ G \in [Nodes -> Nat] /\ G[x] = H[x] + 1 - Blacks(t, x)
      /\ \A n \in Nodes : n # x => G[n] = H[n]
  BY <1>1, <1>2
<1> HIDE DEF G
<1>4. u.child = t.child /\ Blacks(u, x) = 1 /\ \A n \in L : n # x => Blacks(u, n) = Blacks(t, n)
  BY <1>1 DEF IsPainted, SameLinks, Blacks, IsRed
<1>5. ASSUME NEW n \in L, NEW r \in Sides
      PROVE  G[n] = G[u.child[r][n]] + ExtraAt(u, NoLoop, n, r) + Blacks(u, n)
  <2>1. PICK c \in Nodes : c = t.child[r][n]
    BY <1>1, TreeTypes DEF Bst
  <2>2. H[n] = H[c] + (IF c = x THEN 1 ELSE 0) + Blacks(t, n)
    BY <2>1 DEF Heights
  <2>3. ExtraAt(u, NoLoop, n, r) = 0
    BY DEF ExtraAt, NoLoop
  <2>4. Blacks(t, n) \in {0, 1} /\ H[n] \in Nat /\ H[c] \in Nat /\ G[c] \in Nat
    BY <1>1, <1>3, <2>1 DEF Blacks
  <2>5. CASE c = x
    <3>1. n # x /\ x # t.root
      <4>1. t.child[r][n] # NIL
        BY <1>1, <2>1, <2>5
      <4>2. t.child[r][n] # n /\ t.child[r][n] # t.root
        BY <4>1, ChildIsNew
      <4> QED BY <2>1, <2>5, <4>2
    <3>2. Blacks(t, x) = 0
      BY <3>1 DEF Blacks
    <3> QED BY <1>1, <1>3, <1>4, <2>1, <2>2, <2>3, <2>4, <2>5, <3>1, <3>2
  <2>6. CASE c # x
    BY <1>1, <1>3, <1>4, <2>1, <2>2, <2>3, <2>4, <2>6
  <2> QED BY <2>5, <2>6
<1>6. G[NIL] = 0
  BY <1>1, <1>3
<1> QED BY <1>3, <1>5, <1>6 DEF Heights

LEMMA InsertEndsFits ==
    ASSUME NEW t, NEW l, NEW U, NEW H, Fits(t, l, U, H), l.at = "fixInsert",
           ~IsRed(t, t.parent[l.x]), NEW u, u = Paint(t, t.root, "black")
    PROVE  \E G : Fits(u, NoLoop, U, G) /\ u.root = t.root
<1> DEFINE L == U[t.root]
<1>1. /\ Bst(t, U) /\ TreeOK(t) /\ t.root \in L /\ L \subseteq Nodes /\ NIL \notin L
      /\ l.x \in L /\ l.z = NIL /\ NIL \in Nodes /\ t.parent[t.root] = NIL
  BY Below, TreeTypes DEF Fits, Bst, LoopOK, Links, NoLoop
<1>2. IsPainted(t, u, t.root, "black")
  BY <1>1, IsPaintedBy DEF Colors
<1>3. Bst(u, U) /\ u.root = t.root /\ u.parent = t.parent /\ u.child = t.child
  BY <1>1, <1>2, SameLinksBst DEF IsPainted, SameLinks
<1>4. PICK G : Heights(u, NoLoop, L, G)
  <2>1. \A n \in L, r \in Sides : ExtraAt(t, l, n, r) = 0 /\ t.child[r][n] # t.root
    <3>1. ASSUME NEW n \in L, NEW r \in Sides
          PROVE  t.child[r][n] # t.root
      <4>1. CASE t.child[r][n] = NIL
        BY <1>1, <4>1
      <4>2. CASE t.child[r][n] # NIL
        BY <1>1, <4>2, ChildIsNew
      <4> QED BY <4>1, <4>2
    <3>2. \A n, r : ExtraAt(t, l, n, r) = 0
      BY DEF ExtraAt
    <3> QED BY <3>1, <3>2
  <2>2. Heights(t, l, L, H)
    BY DEF Fits
  <2>3. \A n \in L, r \in Sides :
           ExtraAt(t, l, n, r) = IF t.child[r][n] = t.root THEN 1 ELSE 0
    BY <2>1
  <2>4. \E G : Heights(u, NoLoop, L, G)
    BY <1>1, <1>2, <2>2, <2>3, BlackensHeights
  <2> QED BY <2>4
<1>5. \A n \in Nodes : IsRed(u, n) <=> n # t.root /\ IsRed(t, n)
  BY <1>2 DEF IsPainted, IsRed
<1>6. Colored(u, NoLoop, L)
  <2>1. ~IsRed(u, NIL) /\ ~IsRed(u, u.root)
    BY <1>1, <1>3, <1>5 DEF Fits, Colored
  <2>2. ASSUME NEW n \in L, IsRed(u, n), IsRed(u, u.parent[n])
        PROVE  FALSE
    <3>1. u.parent[n] = t.parent[n] /\ n \in Nodes /\ t.parent[n] \in Nodes
      BY <1>1, <1>3, TreeTypes
    <3>2. IsRed(t, n) /\ IsRed(t, t.parent[n])
      BY <1>5, <2>2, <3>1
    <3>3. n = l.x
      BY <3>2 DEF Fits, Colored
    <3> QED BY <3>2, <3>3
  <2> QED BY <2>1, <2>2 DEF Colored
<1>7. LeftOut(u, L, NoLoop.z) /\ LoopOK(u, NoLoop, L)
  BY <1>1, <1>3 DEF Fits, LeftOut, NoLoop, LoopOK
<1> QED BY <1>3, <1>4, <1>6, <1>7 DEF Fits

-----------------------------------------------------------------------------
(* The loop of erase() *)

\* The nodes fixDelete() looks at: x is on side s of p, and w is its sibling.
DeletePlace(t, l, U, x, p, s, w) ==
    /\ l.at = "fixDelete" /\ l.x = x /\ x # t.root /\ ~IsRed(t, x) /\ s \in Sides
    /\ x \in U[t.root] \cup {NIL} /\ p \in U[t.root] /\ w \in U[t.root]
    /\ t.parent[x] = p /\ t.child[s][p] = x /\ t.child[Other(s)][p] = w
    /\ w # x /\ w # p /\ x # p /\ t.parent[w] = p /\ w # t.root /\ t.parent[p] # w

\* No red node is below a red one while x is black.
LEMMA DeleteColors ==
    ASSUME NEW t, NEW l, NEW U, NEW H, Fits(t, l, U, H), l.at = "fixDelete", ~IsRed(t, l.x),
           l.x # t.root
    PROVE  /\ ~IsRed(t, t.root) /\ ~IsRed(t, NIL)
           /\ \A n \in U[t.root] : ~(IsRed(t, n) /\ IsRed(t, t.parent[n]))
BY DEF Fits, Colored

\* The sibling is higher than x.
LEMMA DeletePlaceIs ==
    ASSUME NEW t, NEW l, NEW U, NEW H, Fits(t, l, U, H), l.at = "fixDelete",
           NEW x, x = l.x, ~IsRed(t, x), x # t.root,
           NEW s, s = SideOf(t, x), NEW p, p = t.parent[x], NEW w, w = t.child[Other(s)][p]
    PROVE  DeletePlace(t, l, U, x, p, s, w)
<1> DEFINE L == U[t.root]
<1>1. Bst(t, U) /\ TreeOK(t) /\ x \in L \cup {NIL} /\ InPlace(t, L, x)
  BY DEF Fits, LoopOK, NoLoop, Bst
<1>2. p \in L /\ s \in Sides /\ t.child[s][p] = x /\ w # x
  BY <1>1 DEF InPlace, SideOf, Sides, Other
<1>3. p # NIL /\ x \in Nodes /\ p \in Nodes
  BY <1>1, <1>2, Below, TreeTypes
<1>4. x # p
  BY <1>1, <1>2, <1>3, ChildIsNew
<1>5. \A r \in Sides : /\ t.child[r][p] \in L \cup {NIL}
                       /\ H[p] = H[t.child[r][p]] + ExtraAt(t, l, p, r) + Blacks(t, p)
                       /\ H[t.child[r][p]] \in Nat
  <2>1. Heights(t, l, L, H)
    BY DEF Fits
  <2>2. H \in [Nodes -> Nat]
        /\ \A r \in Sides : H[p] = H[t.child[r][p]] + ExtraAt(t, l, p, r) + Blacks(t, p)
    BY <1>2, <2>1 DEF Heights
  <2>3. \A r \in Sides : t.child[r][p] \in L \cup {NIL}
    BY <1>1, <1>2, Below
  <2>4. \A r \in Sides : t.child[r][p] \in Nodes
    BY <1>1, <1>3, TreeTypes
  <2> QED BY <2>2, <2>3, <2>4
<1>6. w # NIL /\ w \in L
  <2>1. ExtraAt(t, l, p, s) = 1 /\ ExtraAt(t, l, p, Other(s)) = 0 /\ Blacks(t, p) \in Nat
    BY <1>2 DEF ExtraAt, Blacks
  <2>2. H[x] \in Nat /\ H[p] = H[x] + 1 + Blacks(t, p)
    BY <1>2, <1>5, <2>1
  <2>3. w # NIL
    <3>1. H[NIL] = 0
      BY DEF Fits, Heights
    <3>2. H[w] \in Nat /\ H[p] = H[w] + 0 + Blacks(t, p)
      BY <1>2, <1>5, <2>1, SidesAre
    <3>3. H[w] # H[NIL]
      BY <2>1, <2>2, <3>1, <3>2
    <3> QED BY <3>3
  <2> QED BY <1>2, <1>5, <2>3, SidesAre
<1>7. w # p /\ t.parent[w] = p /\ w # t.root /\ t.parent[p] # w
  <2>1. PICK r \in Sides : r = Other(s)
    BY <1>2, SidesAre
  <2>2. t.child[r][p] = w /\ t.child[r][p] # NIL
    BY <1>6, <2>1
  <2> QED BY <1>1, <1>2, <2>2, ChildIsNew
<1> QED BY <1>1, <1>2, <1>4, <1>6, <1>7 DEF DeletePlace

\* The black heights of the nodes around x.
LEMMA DeleteHeights ==
    ASSUME NEW t, NEW l, NEW U, NEW H, Fits(t, l, U, H),
           NEW x, NEW p, NEW s, NEW w, DeletePlace(t, l, U, x, p, s, w)
    PROVE  /\ H[x] \in Nat /\ H[w] = H[x] + 1 /\ H[p] = H[x] + 1 + Blacks(t, p)
           /\ \A n \in U[t.root], r \in Sides :
                 ExtraAt(t, l, n, r) = IF n = p /\ r = s THEN 1 ELSE 0
           /\ \A r \in Sides : /\ t.child[r][w] \in Nodes /\ H[t.child[r][w]] \in Nat
                               /\ H[w] = H[t.child[r][w]] + Blacks(t, w)
<1> DEFINE L == U[t.root]
<1>1. /\ Bst(t, U) /\ TreeOK(t) /\ L \subseteq Nodes /\ NIL \in Nodes
      /\ p \in L /\ w \in L /\ s \in Sides /\ x \in Nodes /\ w # p
      /\ t.child[s][p] = x /\ t.child[Other(s)][p] = w
  BY Below, TreeTypes DEF Fits, Bst, DeletePlace
<1>2. \A n \in L, r \in Sides : ExtraAt(t, l, n, r) = IF n = p /\ r = s THEN 1 ELSE 0
  BY <1>1, SidesAre DEF ExtraAt, DeletePlace
<1>3. \A n \in L, r \in Sides : /\ H[n] = H[t.child[r][n]] + ExtraAt(t, l, n, r) + Blacks(t, n)
                                /\ t.child[r][n] \in Nodes /\ H[t.child[r][n]] \in Nat
  BY <1>1, TreeTypes DEF Fits, Heights
<1>4. Blacks(t, p) \in Nat /\ Blacks(t, w) \in Nat
  BY DEF Blacks
<1>5. H[p] = H[x] + 1 + Blacks(t, p) /\ H[x] \in Nat
  BY <1>1, <1>2, <1>3
<1>6. H[p] = H[w] + 0 + Blacks(t, p) /\ H[w] \in Nat
  BY <1>1, <1>2, <1>3, SidesAre
<1>7. \A r \in Sides : H[w] = H[t.child[r][w]] + 0 + Blacks(t, w) /\ H[t.child[r][w]] \in Nat
  BY <1>1, <1>2, <1>3
<1> QED BY <1>1, <1>2, <1>3, <1>4, <1>5, <1>6, <1>7

\* The sibling is red: it goes up, and x gets a black one.
LEMMA RedSiblingRotates ==
    ASSUME NEW t, NEW l, NEW U, NEW H, Fits(t, l, U, H),
           NEW x, NEW p, NEW s, NEW w, DeletePlace(t, l, U, x, p, s, w), IsRed(t, w),
           NEW u, u = Rotate(Paint(Paint(t, w, "black"), p, "red"), p, s)
    PROVE  \E V, G, m : /\ Fits(u, l, V, G) /\ V[u.root] = U[t.root]
                        /\ DeletePlace(u, l, V, x, p, s, m) /\ ~IsRed(u, m) /\ IsRed(u, p)
<1> DEFINE L == U[t.root]
<1>1. PICK m : m = t.child[s][w]
  OBVIOUS
<1>2. /\ Bst(t, U) /\ TreeOK(t) /\ NIL \notin L /\ L \subseteq Nodes /\ NIL \in Nodes
      /\ l \in [at : {"fixDelete"}, x : L \cup {NIL}, z : Values \ L]
  BY Below, TreeTypes DEF Fits, Bst, LoopOK, NoLoop, DeletePlace
<1>3. /\ x # t.root /\ ~IsRed(t, x) /\ s \in Sides /\ l.x = x /\ l.at = "fixDelete"
      /\ x \in L \cup {NIL} /\ p \in L /\ w \in L
      /\ t.parent[x] = p /\ t.child[s][p] = x /\ t.child[Other(s)][p] = w
      /\ w # x /\ w # p /\ x # p /\ t.parent[w] = p /\ w # t.root
      /\ x \in Nodes /\ p \in Nodes /\ w \in Nodes
  BY <1>2 DEF DeletePlace
<1>4. /\ ~IsRed(t, t.root) /\ ~IsRed(t, NIL) /\ ~IsRed(t, p)
      /\ \A n \in L : ~(IsRed(t, n) /\ IsRed(t, t.parent[n]))
  <2>1. /\ ~IsRed(t, t.root) /\ ~IsRed(t, NIL)
        /\ \A n \in L : ~(IsRed(t, n) /\ IsRed(t, t.parent[n]))
    BY <1>3, DeleteColors
  <2> QED BY <1>3, <2>1
<1>5. CanRotate(t, U, p, s, w, m)
  BY <1>1, <1>2, <1>3 DEF CanRotate
<1>6. m # NIL /\ m \in L /\ t.parent[m] = w /\ m # p /\ m # w /\ m # x /\ ~IsRed(t, m)
  <2>1. H[m] = H[w] /\ H[w] = H[x] + 1 /\ H[x] \in Nat /\ H[NIL] = 0
    <3>1. H[w] = H[m] + Blacks(t, w) /\ H[m] \in Nat /\ H[w] = H[x] + 1 /\ H[x] \in Nat
      BY <1>1, <1>3, DeleteHeights
    <3>2. Blacks(t, w) = 0
      BY DEF Blacks
    <3>3. H[NIL] = 0
      BY DEF Fits, Heights
    <3> QED BY <3>1, <3>2, <3>3
  <2>2. H[m] # H[NIL]
    BY <2>1
  <2>3. m # NIL
    BY <2>2
  <2>4. m \in L /\ t.parent[m] = w /\ m # p /\ m # w
    BY <1>5, <2>3, RotationNodes
  <2> QED BY <1>3, <1>4, <2>3, <2>4
<1>7. PICK c : /\ c = Paint(Paint(t, w, "black"), p, "red") /\ SameLinks(t, c)
               /\ \A n \in Nodes : c.color[n] = IF n = p THEN "red" ELSE IF n = w THEN "black"
                                                ELSE t.color[n]
  <2>1. PICK c1 : c1 = Paint(t, w, "black") /\ IsPainted(t, c1, w, "black") /\ TreeOK(c1)
    BY <1>2, <1>3, IsPaintedBy DEF Colors
  <2>2. PICK c2 : c2 = Paint(c1, p, "red") /\ IsPainted(c1, c2, p, "red")
    BY <1>3, <2>1, IsPaintedBy DEF Colors
  <2> QED BY <2>1, <2>2 DEF IsPainted, SameLinks
<1>8. IsRotated(t, u, p, s, w, m) /\ u.color = c.color
  BY <1>5, <1>7, SameLinksRotate
<1>9. Exchanged(t, u, p, w)
  <2>1. t.color[p] = "black"
    BY <1>2, <1>3, <1>4, TreeTypes DEF IsRed, Colors
  <2> QED BY <1>7, <1>8, <2>1 DEF Exchanged
<1>10. ExtraBeside(t, l, p, w, m)
  BY <1>3, <1>6 DEF ExtraBeside
<1>11. PICK V, G : /\ Bst(u, V) /\ V[u.root] = L /\ LeftOut(u, L, l.z) /\ Heights(u, l, L, G)
                   /\ ~IsRed(u, NIL) /\ (IsRed(u, u.root) <=> IsRed(t, t.root))
  BY <1>5, <1>8, <1>9, <1>10, ExchangeFits
<1>12. Colored(u, l, L)
  <2>1. ASSUME NEW n \in L, IsRed(u, n), IsRed(u, u.parent[n])
        PROVE  FALSE
    <3>1. IsRed(t, n) /\ (IsRed(t, t.parent[n]) \/ n = x)
      BY <1>3, <1>4, <1>5, <1>8, <1>9, <2>1, ExchangedPairs
    <3> QED BY <1>3, <1>4, <3>1
  <2> QED BY <1>4, <1>11, <2>1 DEF Colored
<1>13. u.parent[x] = p /\ u.child[s][p] = x /\ u.child[Other(s)][p] = m /\ u.parent[m] = p
  <2>1. u.child[s][p] = x /\ u.child[Other(s)][p] = m
    BY <1>3, <1>5, <1>8, RotatedChildrenAre DEF RotatedChildren
  <2> QED BY <1>2, <1>3, <1>6, <1>8, <2>1 DEF IsRotated
<1>14. u.root # x /\ u.root # m
  <2>1. m # t.root
    BY <1>2, <1>3, <1>6 DEF Bst, Links
  <2> QED BY <1>3, <1>6, <1>8, <2>1 DEF IsRotated
<1>15. ~IsRed(u, x) /\ ~IsRed(u, m) /\ IsRed(u, p)
  BY <1>2, <1>3, <1>6, <1>9 DEF Exchanged, IsRed
<1>16. LoopOK(u, l, L)
  BY <1>2, <1>3, <1>6, <1>13 DEF LoopOK, InPlace
<1>17. u.parent[p] # m
  BY <1>3, <1>6, <1>8 DEF IsRotated
<1>18. DeletePlace(u, l, V, x, p, s, m)
  BY <1>3, <1>6, <1>11, <1>13, <1>14, <1>15, <1>17 DEF DeletePlace
<1> QED BY <1>11, <1>12, <1>15, <1>16, <1>18 DEF Fits

\* The sibling and its children are black: the sibling becomes red, and the
\* parent of x stands for another black node in place of x.
LEMMA MovesUpFits ==
    ASSUME NEW t, NEW l, NEW U, NEW H, Fits(t, l, U, H),
           NEW x, NEW p, NEW s, NEW w, DeletePlace(t, l, U, x, p, s, w),
           ~IsRed(t, w), \A r \in Sides : ~IsRed(t, t.child[r][w]),
           NEW u, u = Paint(t, w, "red"), NEW k, k = MovedTo(l, p)
    PROVE  /\ \E G : Fits(u, k, U, G)
           /\ u.root = t.root /\ (IsRed(u, p) <=> IsRed(t, p)) /\ u.parent = t.parent
<1> DEFINE L == U[t.root]
           G == [H EXCEPT ![w] = H[w] - 1, ![p] = H[p] - 1]
<1>2. /\ Bst(t, U) /\ TreeOK(t) /\ NIL \notin L /\ L \subseteq Nodes /\ NIL \in Nodes
      /\ l \in [at : {"fixDelete"}, x : L \cup {NIL}, z : Values \ L]
  BY Below, TreeTypes DEF Fits, Bst, LoopOK, NoLoop, DeletePlace
<1>3. /\ x # t.root /\ ~IsRed(t, x) /\ s \in Sides /\ l.x = x /\ l.at = "fixDelete"
      /\ x \in L \cup {NIL} /\ p \in L /\ w \in L
      /\ t.parent[x] = p /\ t.child[s][p] = x /\ t.child[Other(s)][p] = w
      /\ w # x /\ w # p /\ x # p /\ t.parent[w] = p /\ w # t.root
      /\ x \in Nodes /\ p \in Nodes /\ w \in Nodes
  BY <1>2 DEF DeletePlace
<1>4. /\ ~IsRed(t, t.root) /\ ~IsRed(t, NIL)
      /\ \A n \in L : ~(IsRed(t, n) /\ IsRed(t, t.parent[n]))
  BY <1>3, DeleteColors
<1>5. SameLinks(t, u) /\ \A n \in Nodes : IsRed(u, n) <=> n = w \/ IsRed(t, n)
  <2>1. IsPainted(t, u, w, "red")
    BY <1>2, <1>3, IsPaintedBy DEF Colors
  <2> QED BY <2>1 DEF IsPainted, IsRed
<1>6. Bst(u, U) /\ u.root = t.root /\ u.parent = t.parent /\ u.child = t.child
  BY <1>2, <1>5, SameLinksBst DEF SameLinks
<1>7. k \in [at : {"fixDelete"}, x : L \cup {NIL}, z : Values \ L] /\ k.x = p /\ k.z = l.z
      /\ k.at = "fixDelete"
  BY <1>2, <1>3 DEF MovedTo
<1>8. LoopOK(u, k, L)
  <2>1. ASSUME p # t.root
        PROVE  InPlace(t, L, p)
    <3>1. t.parent[p] \in L /\ t.child[SideOf(t, p)][t.parent[p]] = p /\ SideOf(t, p) \in Sides
      BY <1>2, <1>3, <2>1, HasParent
    <3>2. t.child[Other(SideOf(t, p))][t.parent[p]] # p
      <4>1. t.child[SideOf(t, p)][t.parent[p]] # NIL
        BY <1>2, <1>3, <3>1
      <4> QED BY <1>2, <3>1, <4>1, ChildrenDiffer
    <3> QED BY <3>1, <3>2 DEF InPlace
  <2> QED BY <1>6, <1>7, <2>1 DEF LoopOK, InPlace
<1>9. Heights(u, k, L, G)
  <2>1. /\ H[x] \in Nat /\ H[w] = H[x] + 1 /\ H[p] = H[x] + 1 + Blacks(t, p)
        /\ \A n \in L, r \in Sides : ExtraAt(t, l, n, r) = IF n = p /\ r = s THEN 1 ELSE 0
    BY DeleteHeights
  <2>2. H \in [Nodes -> Nat] /\ H[NIL] = 0 /\ Blacks(t, p) \in {0, 1}
    BY DEF Fits, Heights, Blacks
  <2>3. /\ G \in [Nodes -> Nat] /\ G[w] = H[w] - 1 /\ G[p] = H[p] - 1
        /\ \A n \in Nodes : n # p /\ n # w => G[n] = H[n]
    BY <1>3, <2>1, <2>2
  <2> HIDE DEF G
  <2>4. ASSUME NEW n \in L, NEW r \in Sides
        PROVE  G[n] = G[u.child[r][n]] + ExtraAt(u, k, n, r) + Blacks(u, n)
    <3>1. PICK c \in Nodes : c = t.child[r][n] /\ c = u.child[r][n]
      BY <1>2, <1>6, TreeTypes
    <3>2. /\ H[n] = H[c] + (IF n = p /\ r = s THEN 1 ELSE 0) + Blacks(t, n)
          /\ H[n] \in Nat /\ H[c] \in Nat /\ Blacks(t, n) \in {0, 1}
      BY <1>2, <2>1, <2>2, <3>1 DEF Fits, Heights, Blacks
    <3>3. c # NIL => c # n /\ t.parent[c] = n
      <4>1. t.child[r][n] # NIL => t.child[r][n] # n /\ t.parent[t.child[r][n]] = n
        BY <1>2, ChildIsNew
      <4> QED BY <3>1, <4>1
    <3>4. ExtraAt(u, k, n, r) = IF c = p THEN 1 ELSE 0
      <4>1. c = p => t.parent[p] = n
        BY <1>2, <1>3, <3>3
      <4> QED BY <1>6, <1>7, <3>1, <4>1 DEF ExtraAt
    <3>5. CASE n = p
      <4>1. c \in {x, w} /\ c # p /\ Blacks(u, p) = Blacks(t, p)
        <5>1. r = s \/ r = Other(s)
          BY <1>3, SidesAre
        <5>2. Blacks(u, p) = Blacks(t, p)
          BY <1>3, <1>5 DEF Blacks
        <5> QED BY <1>3, <3>1, <3>5, <5>1, <5>2
      <4>2. G[c] = H[x]
        BY <1>3, <2>1, <2>3, <4>1
      <4> QED BY <2>1, <2>2, <2>3, <3>1, <3>4, <3>5, <4>1, <4>2
    <3>6. CASE n = w
      <4>1. Blacks(t, w) = 1 /\ Blacks(u, w) = 0
        BY <1>3, <1>5 DEF Blacks
      <4>2. c # w /\ c # p
        <5>1. t.parent[p] # w
          BY DEF DeletePlace
        <5> QED BY <1>2, <1>3, <3>3, <3>6, <5>1
      <4> QED BY <1>3, <2>1, <2>3, <3>1, <3>2, <3>4, <3>6, <4>1, <4>2
    <3>7. CASE n # p /\ n # w
      <4>1. c # w /\ Blacks(u, n) = Blacks(t, n) /\ G[n] = H[n]
        BY <1>2, <1>3, <1>5, <2>3, <3>3, <3>7 DEF Blacks
      <4>2. CASE c = p
        BY <1>3, <2>3, <3>1, <3>2, <3>4, <3>7, <4>1, <4>2
      <4>3. CASE c # p
        BY <1>3, <2>3, <3>1, <3>2, <3>4, <3>7, <4>1, <4>3
      <4> QED BY <4>2, <4>3
    <3> QED BY <3>5, <3>6, <3>7
  <2>5. G[NIL] = 0
    BY <1>2, <1>3, <2>2, <2>3
  <2> QED BY <2>3, <2>4, <2>5 DEF Heights
<1>10. Colored(u, k, L)
  <2>1. ASSUME NEW n \in L, IsRed(u, n), IsRed(u, t.parent[n]), n # w
        PROVE  FALSE
    <3>1. t.parent[n] \in Nodes /\ n \in Nodes
      BY <1>2, TreeTypes
    <3>2. IsRed(t, n) /\ t.parent[n] = w
      BY <1>4, <1>5, <2>1, <3>1
    <3>3. n # t.root
      BY <1>4, <3>2
    <3>4. n = t.child[s][w] \/ n = t.child[Other(s)][w]
      BY <1>2, <1>3, <3>2, <3>3, IsChildOfParent
    <3> QED BY <1>3, <3>2, <3>4, SidesAre
  <2>2. ~IsRed(u, NIL) /\ ~IsRed(u, u.root)
    BY <1>2, <1>3, <1>4, <1>5, <1>6, TreeTypes
  <2> QED BY <1>3, <1>6, <1>7, <2>1, <2>2 DEF Colored
<1>11. LeftOut(u, L, k.z)
  BY <1>6, <1>7 DEF Fits, LeftOut
<1>12. IsRed(u, p) <=> IsRed(t, p)
  BY <1>3, <1>5
<1> HIDE DEF G
<1> QED BY <1>6, <1>8, <1>9, <1>10, <1>11, <1>12 DEF Fits

\* The inner child of the sibling is red and the outer one is not: the inner one
\* goes up and becomes the sibling.
LEMMA RedNephewRotates ==
    ASSUME NEW t, NEW l, NEW U, NEW H, Fits(t, l, U, H),
           NEW x, NEW p, NEW s, NEW w, DeletePlace(t, l, U, x, p, s, w), ~IsRed(t, w),
           NEW c, c = t.child[s][w], IsRed(t, c), ~IsRed(t, t.child[Other(s)][w]),
           NEW u, u = Rotate(Paint(Paint(t, c, "black"), w, "red"), w, Other(s))
    PROVE  \E V, G : /\ Fits(u, l, V, G) /\ V[u.root] = U[t.root]
                     /\ DeletePlace(u, l, V, x, p, s, c) /\ ~IsRed(u, c)
                     /\ IsRed(u, u.child[Other(s)][c])
<1> DEFINE L == U[t.root]
<1>0. PICK o \in Sides : o = Other(s) /\ s = Other(o) /\ o # s
  BY SidesAre DEF DeletePlace
<1>1. PICK m : m = t.child[o][c]
  OBVIOUS
<1>2. /\ Bst(t, U) /\ TreeOK(t) /\ NIL \notin L /\ L \subseteq Nodes /\ NIL \in Nodes
      /\ l \in [at : {"fixDelete"}, x : L \cup {NIL}, z : Values \ L]
  BY Below, TreeTypes DEF Fits, Bst, LoopOK, NoLoop, DeletePlace
<1>3. /\ x # t.root /\ ~IsRed(t, x) /\ s \in Sides /\ l.x = x /\ l.at = "fixDelete"
      /\ x \in L \cup {NIL} /\ p \in L /\ w \in L
      /\ t.parent[x] = p /\ t.child[s][p] = x /\ t.child[o][p] = w
      /\ w # x /\ w # p /\ x # p /\ t.parent[w] = p /\ w # t.root
      /\ x \in Nodes /\ p \in Nodes /\ w \in Nodes
  BY <1>0, <1>2 DEF DeletePlace
<1>4. /\ ~IsRed(t, t.root) /\ ~IsRed(t, NIL)
      /\ \A n \in L : ~(IsRed(t, n) /\ IsRed(t, t.parent[n]))
  BY <1>3, DeleteColors
<1>5. CanRotate(t, U, w, o, c, m)
  BY <1>0, <1>1, <1>2, <1>3, <1>4 DEF CanRotate
<1>6. /\ c \in L /\ c \in Nodes /\ t.parent[c] = w /\ c # w /\ c # p /\ c # x /\ c # t.root
      /\ (m # NIL => t.parent[m] = c) /\ m \in Nodes /\ m # w
  <2>1. /\ c \in L /\ c \in Nodes /\ t.parent[c] = w /\ c # w /\ c # t.root
        /\ (m # NIL => t.parent[m] = c) /\ m \in Nodes /\ m # w
    BY <1>5, RotationNodes
  <2>2. t.parent[w] # c
    BY <1>5, RotationNodes
  <2> QED BY <1>3, <2>1, <2>2 DEF DeletePlace
<1>7. PICK d : /\ d = Paint(Paint(t, c, "black"), w, "red") /\ SameLinks(t, d)
               /\ \A n \in Nodes : d.color[n] = IF n = w THEN "red" ELSE IF n = c THEN "black"
                                                ELSE t.color[n]
  <2>1. PICK d1 : d1 = Paint(t, c, "black") /\ IsPainted(t, d1, c, "black") /\ TreeOK(d1)
    BY <1>2, <1>6, IsPaintedBy DEF Colors
  <2>2. PICK d2 : d2 = Paint(d1, w, "red") /\ IsPainted(d1, d2, w, "red")
    BY <1>3, <2>1, IsPaintedBy DEF Colors
  <2> QED BY <2>1, <2>2 DEF IsPainted, SameLinks
<1>8. IsRotated(t, u, w, o, c, m) /\ u.color = d.color
  <2>1. IsRotated(t, Rotate(d, w, o), w, o, c, m) /\ Rotate(d, w, o).color = d.color
    BY <1>5, <1>7, SameLinksRotate
  <2> QED BY <1>0, <1>7, <2>1
<1>9. Exchanged(t, u, w, c)
  <2>1. t.color[w] = "black"
    BY <1>2, <1>3, TreeTypes DEF IsRed, Colors
  <2> QED BY <1>7, <1>8, <2>1 DEF Exchanged
<1>10. ExtraBeside(t, l, w, c, m)
  BY <1>3, <1>6 DEF ExtraBeside
<1>11. PICK V, G : /\ Bst(u, V) /\ V[u.root] = L /\ LeftOut(u, L, l.z) /\ Heights(u, l, L, G)
                   /\ ~IsRed(u, NIL) /\ (IsRed(u, u.root) <=> IsRed(t, t.root))
  BY <1>5, <1>8, <1>9, <1>10, ExchangeFits
<1>12. Colored(u, l, L)
  <2>1. ASSUME NEW n \in L, IsRed(u, n), IsRed(u, u.parent[n])
        PROVE  FALSE
    <3>1. IsRed(t, n) /\ (IsRed(t, t.parent[n]) \/ n = t.child[o][w])
      BY <1>3, <1>4, <1>5, <1>8, <1>9, <2>1, ExchangedPairs
    <3> QED BY <1>0, <1>4, <3>1
  <2> QED BY <1>4, <1>11, <2>1 DEF Colored
<1>13. u.root = t.root /\ u.parent[x] = p /\ u.child[s][p] = x /\ u.child[o][p] = c
       /\ u.parent[c] = p /\ u.child[o][c] = w /\ u.parent[p] # c
  <2>1. u.child[o][c] = w
    BY <1>5, <1>8, RotatedChildrenAre DEF RotatedChildren
  <2>2. \A r \in Sides : u.child[r][p] = IF t.child[r][p] = w THEN c ELSE t.child[r][p]
    BY <1>3, <1>5, <1>6, <1>8, OthersChildren
  <2>3. x = m => m = NIL
    BY <1>3, <1>6
  <2>4. t.parent[p] # c
    <3>1. ASSUME t.parent[p] = c
          PROVE  FALSE
      <4>1. p \in U[p] /\ U[w] \subseteq U[t.root] /\ \A r \in Sides : p \notin U[t.child[r][p]]
        BY <1>2, <1>3, Below
      <4>2. p # t.root
        BY <1>2, <1>6, <3>1 DEF Bst, Links
      <4>3. PICK r \in Sides : t.child[r][c] = p
        BY <1>2, <1>3, <3>1, <4>2, HasParent
      <4>4. \A q \in Sides : U[t.child[q][c]] \subseteq U[c] /\ U[t.child[q][w]] \subseteq U[w]
        BY <1>2, <1>3, <1>6, Below
      <4> QED BY <1>0, <1>3, <4>1, <4>3, <4>4
    <3> QED BY <3>1
  <2>5. p = m => FALSE
    BY <1>2, <1>3, <1>6, <2>4
  <2>6. u.root = t.root
    BY <1>3, <1>8 DEF IsRotated
  <2>7. \A n \in Nodes : u.parent[n] = IF n = w THEN c
                                       ELSE IF n = c THEN t.parent[w]
                                       ELSE IF n = m /\ m # NIL THEN w
                                       ELSE t.parent[n]
    BY <1>8 DEF IsRotated
  <2>8. u.parent[x] = t.parent[x]
    BY <1>3, <1>6, <2>3, <2>7
  <2>9. u.parent[c] = t.parent[w]
    BY <1>6, <2>7
  <2>10. u.parent[p] = t.parent[p]
    BY <1>3, <1>6, <2>5, <2>7
  <2>11. u.child[s][p] = x /\ u.child[o][p] = c
    BY <1>0, <1>3, <2>2
  <2> QED BY <1>3, <2>1, <2>4, <2>6, <2>8, <2>9, <2>10, <2>11
<1>14. ~IsRed(u, x) /\ ~IsRed(u, c) /\ IsRed(u, w)
  BY <1>3, <1>6, <1>7, <1>8 DEF IsRed
<1>15. LoopOK(u, l, L)
  <2>1. InPlace(u, L, x)
    <3>1. u.child[Other(s)][u.parent[x]] # x /\ u.child[s][u.parent[x]] = x
      BY <1>0, <1>6, <1>13
    <3> QED BY <1>3, <1>13, <3>1 DEF InPlace
  <2> QED BY <1>2, <1>3, <2>1 DEF LoopOK
<1>16. DeletePlace(u, l, V, x, p, s, c)
  BY <1>0, <1>3, <1>6, <1>11, <1>13, <1>14 DEF DeletePlace
<1> QED BY <1>0, <1>11, <1>12, <1>13, <1>14, <1>15, <1>16 DEF Fits

\* The outer child of the sibling is red: the last rotation gives x its black node.
TurnsUp(t, l, p, s, w, q, u, k) ==
    /\ u = Rotate(Paint(Paint(Paint(t, w, t.color[p]), p, "black"), q, "black"), p, s)
    /\ k = MovedTo(l, u.root)

\* A sum of two black heights with nothing extra between them.
LEMMA NothingAdded == \A a \in Nat, b \in {0, 1} : a + 0 + b = a + b
OBVIOUS

LEMMA LastRotationFits ==
    ASSUME NEW t, NEW l, NEW U, NEW H, Fits(t, l, U, H),
           NEW x, NEW p, NEW s, NEW w, DeletePlace(t, l, U, x, p, s, w), ~IsRed(t, w),
           NEW q, q = t.child[Other(s)][w], IsRed(t, q),
           NEW u, NEW k, TurnsUp(t, l, p, s, w, q, u, k)
    PROVE  \E V, G : Fits(u, k, V, G) /\ V[u.root] = U[t.root]
<1> SUFFICES ASSUME NEW d, d = Paint(Paint(Paint(t, w, t.color[p]), p, "black"), q, "black"),
                    u = Rotate(d, p, s), k = MovedTo(l, u.root)
             PROVE  \E V, G : Fits(u, k, V, G) /\ V[u.root] = U[t.root]
  BY DEF TurnsUp
<1> DEFINE L == U[t.root]
<1>0. PICK o \in Sides : o = Other(s) /\ s = Other(o) /\ o # s /\ \A r \in Sides : r = s \/ r = o
  BY SidesAre DEF DeletePlace
<1>1. PICK m : m = t.child[s][w]
  OBVIOUS
<1>2. /\ Bst(t, U) /\ TreeOK(t) /\ NIL \notin L /\ L \subseteq Nodes /\ NIL \in Nodes
      /\ l \in [at : {"fixDelete"}, x : L \cup {NIL}, z : Values \ L]
  BY Below, TreeTypes DEF Fits, Bst, LoopOK, NoLoop, DeletePlace
<1>3. /\ x # t.root /\ ~IsRed(t, x) /\ s \in Sides /\ l.x = x /\ l.at = "fixDelete"
      /\ x \in L \cup {NIL} /\ p \in L /\ w \in L
      /\ t.parent[x] = p /\ t.child[s][p] = x /\ t.child[o][p] = w
      /\ w # x /\ w # p /\ x # p /\ t.parent[w] = p /\ w # t.root /\ t.parent[p] # w
      /\ x \in Nodes /\ p \in Nodes /\ w \in Nodes
  BY <1>0, <1>2 DEF DeletePlace
<1>4. /\ ~IsRed(t, t.root) /\ ~IsRed(t, NIL)
      /\ \A n \in L : ~(IsRed(t, n) /\ IsRed(t, t.parent[n]))
  BY <1>3, DeleteColors
<1>5. CanRotate(t, U, p, s, w, m)
  BY <1>0, <1>1, <1>2, <1>3 DEF CanRotate
<1>6. /\ q \in L /\ q \in Nodes /\ t.parent[q] = w /\ q # w /\ q # p /\ q # x /\ q # m
      /\ (m # NIL => t.parent[m] = w) /\ m \in Nodes /\ m # w /\ m # p
  <2>1. t.child[o][w] # NIL /\ q = t.child[o][w]
    BY <1>0, <1>4
  <2>2. q \in L /\ t.parent[q] = w /\ q # w
    BY <1>2, <1>3, <2>1, ChildIsNew
  <2>3. t.parent[w] # q
    BY <1>2, <1>3, <2>1, ChildIsNew
  <2>4. q # m
    <3>1. t.child[Other(o)][w] # t.child[o][w]
      <4>1. Bst(t, U) /\ w \in U[t.root] /\ t.child[o][w] # NIL
        BY <1>2, <1>3, <2>1
      <4> QED BY <4>1, ChildrenDiffer
    <3> QED BY <1>0, <1>1, <2>1, <3>1
  <2>5. (m # NIL => t.parent[m] = w) /\ m \in Nodes /\ m # w /\ m # p
    BY <1>5, RotationNodes
  <2> QED BY <1>2, <1>3, <2>2, <2>3, <2>4, <2>5
<1>7. /\ SameLinks(t, d)
      /\ \A n \in Nodes : d.color[n] = IF n \in {p, q} THEN "black" ELSE IF n = w THEN t.color[p]
                                       ELSE t.color[n]
  <2>0. t.color[p] \in Colors
    BY <1>2, <1>3, TreeTypes
  <2>1. PICK d1 : d1 = Paint(t, w, t.color[p]) /\ IsPainted(t, d1, w, t.color[p]) /\ TreeOK(d1)
    BY <1>2, <1>3, <2>0, IsPaintedBy
  <2>2. PICK d2 : d2 = Paint(d1, p, "black") /\ IsPainted(d1, d2, p, "black") /\ TreeOK(d2)
    BY <1>3, <2>1, IsPaintedBy DEF Colors
  <2>3. IsPainted(d2, d, q, "black")
    BY <1>6, <2>1, <2>2, IsPaintedBy DEF Colors
  <2>4. SameLinks(t, d)
    <3>1. SameLinks(t, d1) /\ SameLinks(d1, d2) /\ SameLinks(d2, d)
      BY <2>1, <2>2, <2>3 DEF IsPainted
    <3> QED BY <3>1 DEF SameLinks
  <2>5. ASSUME NEW n \in Nodes
        PROVE  d.color[n] = IF n \in {p, q} THEN "black" ELSE IF n = w THEN t.color[p]
                            ELSE t.color[n]
    <3>1. d1.color[n] = IF n = w THEN t.color[p] ELSE t.color[n]
      BY <2>1 DEF IsPainted
    <3>2. d2.color[n] = IF n = p THEN "black" ELSE d1.color[n]
      BY <2>2 DEF IsPainted
    <3>3. d.color[n] = IF n = q THEN "black" ELSE d2.color[n]
      BY <2>3 DEF IsPainted
    <3> QED BY <3>1, <3>2, <3>3
  <2> QED BY <2>4, <2>5
<1>8. IsRotated(t, u, p, s, w, m) /\ u.color = d.color
  BY <1>5, <1>7, SameLinksRotate
<1>9. PICK V : V = RotatedSets(t, U, p, s, w, m)
  OBVIOUS
<1>10. Bst(u, V) /\ V[u.root] = L
  BY <1>5, <1>8, <1>9, RotatedIsBst
<1>11. k.x = u.root /\ k.at = "fixDelete" /\ k.z = l.z
       /\ k \in [at : {"fixDelete"}, x : L \cup {NIL}, z : Values \ L] /\ u.root \in L
  <2>1. u.root \in L
    <3>1. Links(u, L)
      BY <1>10 DEF Bst
    <3> QED BY <1>3, <3>1 DEF Links
  <2> QED BY <1>2, <1>3, <2>1 DEF MovedTo
<1>12. LeftOut(u, L, k.z)
  BY <1>5, <1>8, <1>11, RotatedLeftOut DEF Fits
<1>13. LoopOK(u, k, L)
  BY <1>11 DEF LoopOK
<1>14. \A n \in Nodes : IsRed(u, n) => n \notin {p, q} /\ (IsRed(t, n) \/ (n = w /\ IsRed(t, p)))
  <2> TAKE n \in Nodes
  <2>1. u.color[n] = IF n \in {p, q} THEN "black" ELSE IF n = w THEN t.color[p] ELSE t.color[n]
    BY <1>7, <1>8
  <2> QED BY <2>1 DEF IsRed
<1>15. Colored(u, k, L)
  <2>1. ~IsRed(u, NIL)
    BY <1>2, <1>3, <1>4, <1>14
  <2>2. ASSUME NEW n \in L, IsRed(u, n), IsRed(u, u.parent[n])
        PROVE  FALSE
    <3>1. t.parent[n] \in Nodes /\ n \in Nodes /\ t.parent[p] \in Nodes /\ n # p /\ n # q
      BY <1>2, <1>3, <1>14, <2>2, TreeTypes
    <3>2. CASE n = w
      <4>1. u.parent[w] = t.parent[p]
        BY <1>3, <1>8 DEF IsRotated
      <4>2. IsRed(t, p) /\ IsRed(t, t.parent[p])
        BY <1>3, <1>4, <1>14, <2>2, <3>1, <3>2, <4>1
      <4> QED BY <1>3, <1>4, <4>2
    <3>3. CASE n = m
      <4>1. u.parent[n] = p
        <5>1. m \in Nodes /\ m # p /\ m # w /\ m # NIL
          BY <1>2, <1>6, <2>2, <3>3
        <5> QED BY <1>8, <3>3, <5>1 DEF IsRotated
      <4> QED BY <1>3, <1>14, <2>2, <4>1
    <3>4. CASE n # w /\ n # m
      <4>1. u.parent[n] = t.parent[n]
        BY <1>8, <3>1, <3>4 DEF IsRotated
      <4>2. IsRed(t, n) /\ t.parent[n] = w
        BY <1>4, <1>14, <2>2, <3>1, <3>4, <4>1
      <4>3. n # t.root
        BY <1>4, <4>2
      <4>4. n = t.child[s][w] \/ n = t.child[Other(s)][w]
        BY <1>2, <1>3, <4>2, <4>3, IsChildOfParent
      <4> QED BY <1>0, <1>1, <1>6, <3>1, <3>4, <4>4
    <3> QED BY <3>2, <3>3, <3>4
  <2> QED BY <1>11, <2>1, <2>2 DEF Colored
<1>16. \E G : Heights(u, k, L, G)
  <2> DEFINE G == [H EXCEPT ![p] = H[x] + 1, ![w] = H[p], ![q] = H[q] + 1]
  <2>1. /\ H[x] \in Nat /\ H[w] = H[x] + 1 /\ H[p] = H[x] + 1 + Blacks(t, p)
        /\ \A n \in L, r \in Sides : ExtraAt(t, l, n, r) = IF n = p /\ r = s THEN 1 ELSE 0
        /\ H[q] \in Nat /\ H[w] = H[q] + Blacks(t, w) /\ H[m] \in Nat /\ H[w] = H[m] + Blacks(t, w)
    BY <1>0, <1>1, <1>3, DeleteHeights
  <2>2. H \in [Nodes -> Nat] /\ H[NIL] = 0 /\ Blacks(t, p) \in {0, 1} /\ Blacks(t, w) = 1
    BY DEF Fits, Heights, Blacks
  <2>3. H[q] = H[x] /\ H[m] = H[x]
    BY <2>1, <2>2
  <2>4. /\ G \in [Nodes -> Nat] /\ G[p] = H[x] + 1 /\ G[w] = H[p] /\ G[q] = H[x] + 1
        /\ \A n \in Nodes : n \notin {p, w, q} => G[n] = H[n]
    <3>1. /\ H \in [Nodes -> Nat] /\ p \in Nodes /\ w \in Nodes /\ q \in Nodes
          /\ p # w /\ p # q /\ w # q
      BY <1>3, <1>6, <2>2
    <3>2. H[p] \in Nat /\ H[x] + 1 \in Nat /\ H[q] + 1 \in Nat
      BY <2>1, <3>1
    <3>3. G \in [Nodes -> Nat]
      BY <3>1, <3>2
    <3>4. /\ G[p] = H[x] + 1 /\ G[w] = H[p] /\ G[q] = H[q] + 1
          /\ \A n \in Nodes : n \notin {p, w, q} => G[n] = H[n]
      BY <3>1
    <3> QED BY <2>3, <3>3, <3>4
  <2> HIDE DEF G
  <2>5. u.child[s][p] = x /\ u.child[o][p] = m /\ u.child[s][w] = p /\ u.child[o][w] = q
    <3>1. PICK c, e : RotatedChildren(t, u, p, s, w, m, c, e)
      BY <1>5, <1>8, RotatedChildrenAre
    <3> QED BY <1>0, <1>3, <3>1 DEF RotatedChildren
  <2>6. ASSUME NEW n \in L, NEW r \in Sides
        PROVE  ExtraAt(u, k, n, r) = 0
    <3>1. u.child[r][n] # NIL => u.child[r][n] # u.root
      BY <1>10, ChildIsNew
    <3>2. u.child[r][n] # k.x
      BY <1>2, <1>11, <3>1
    <3> QED BY <3>2 DEF ExtraAt
  <2>7. /\ Blacks(u, p) = 1 /\ Blacks(u, q) = 1 /\ Blacks(u, w) = Blacks(t, p) /\ Blacks(t, q) = 0
        /\ \A n \in L : n \notin {p, q, w} => Blacks(u, n) = Blacks(t, n)
    <3>1. \A n \in Nodes : u.color[n] = IF n \in {p, q} THEN "black" ELSE IF n = w THEN t.color[p]
                                         ELSE t.color[n]
      BY <1>7, <1>8
    <3>2. u.color[p] = "black" /\ u.color[q] = "black" /\ u.color[w] = t.color[p]
      BY <1>3, <1>6, <3>1
    <3>3. \A n \in L : n \notin {p, q, w} => u.color[n] = t.color[n]
      BY <1>2, <3>1
    <3> QED BY <3>2, <3>3 DEF Blacks, IsRed
  <2>8. ASSUME NEW n \in L, NEW r \in Sides
        PROVE  G[n] = G[u.child[r][n]] + Blacks(u, n)
    <3>1. CASE n = p
      <4>1. G[u.child[r][n]] = H[x]
        <5>1. G[x] = H[x] /\ G[m] = H[m]
          BY <1>3, <1>6, <2>4
        <5>2. u.child[r][n] = x \/ u.child[r][n] = m
          BY <1>0, <2>5, <3>1
        <5> QED BY <2>3, <5>1, <5>2
      <4> QED BY <2>1, <2>4, <2>7, <3>1, <4>1
    <3>2. CASE n = w
      <4>1. G[u.child[r][n]] = H[x] + 1
        BY <1>0, <2>4, <2>5, <3>2
      <4> QED BY <2>1, <2>2, <2>4, <2>7, <3>2, <4>1
    <3>3. CASE n # p /\ n # w
      <4>1. PICK c \in Nodes : c = t.child[r][n]
        BY <1>2, TreeTypes
      <4>2. u.child[r][n] = (IF c = p THEN w ELSE c) /\ c # w
        BY <1>5, <1>8, <3>3, <4>1, OthersChildren
      <4>3. c # q
        <5>1. c # NIL => t.parent[c] = n
          BY <1>2, <4>1 DEF Bst, Links
        <5> QED BY <1>2, <1>6, <3>3, <5>1
      <4>4. H[n] = H[c] + Blacks(t, n)
        <5>1. H[n] = H[c] + ExtraAt(t, l, n, r) + Blacks(t, n)
          BY <4>1 DEF Fits, Heights
        <5>2. ExtraAt(t, l, n, r) = 0 /\ H[c] \in Nat /\ Blacks(t, n) \in {0, 1}
          BY <2>1, <2>2, <3>3 DEF Blacks
        <5> QED BY <5>1, <5>2
      <4>5. G[u.child[r][n]] = H[c] /\ H[c] \in Nat
        <5>1. ASSUME c = p
              PROVE  G[u.child[r][n]] = H[c]
          BY <2>4, <4>2, <5>1
        <5>2. ASSUME c # p
              PROVE  G[u.child[r][n]] = H[c]
          BY <2>4, <4>1, <4>2, <4>3, <5>2
        <5>3. H[c] \in Nat
          BY <2>2, <4>1
        <5> QED BY <5>1, <5>2, <5>3
      <4>6. CASE n = q
        <5>1. H[q] = H[c] + Blacks(t, q)
          BY <4>4, <4>6
        <5>2. H[x] = H[c]
          BY <2>3, <2>7, <4>5, <5>1
        <5>3. G[q] = H[c] + Blacks(u, q)
          BY <2>4, <2>7, <5>2
        <5> QED BY <4>5, <4>6, <5>3
      <4>7. CASE n # q
        BY <1>2, <2>4, <2>7, <3>3, <4>4, <4>5, <4>7
      <4> QED BY <4>6, <4>7
    <3> QED BY <3>1, <3>2, <3>3
  <2>9. G[NIL] = 0
    BY <1>2, <1>3, <1>6, <2>2, <2>4
  <2>10. ASSUME NEW n \in L, NEW r \in Sides
         PROVE  G[n] = G[u.child[r][n]] + ExtraAt(u, k, n, r) + Blacks(u, n)
    <3>1. G[u.child[r][n]] \in Nat /\ Blacks(u, n) \in {0, 1}
      <4>1. TreeOK(u) /\ n \in Nodes
        BY <1>2, <1>10 DEF Bst
      <4>2. u.child[r][n] \in Nodes
        BY <4>1, TreeTypes
      <4> QED BY <2>4, <4>2 DEF Blacks
    <3>2. ExtraAt(u, k, n, r) = 0
      BY <2>6
    <3>3. G[u.child[r][n]] + 0 + Blacks(u, n) = G[u.child[r][n]] + Blacks(u, n)
      BY <3>1, NothingAdded, Zenon
    <3>4. G[n] = G[u.child[r][n]] + Blacks(u, n)
      BY <2>8
    <3> QED BY <3>2, <3>3, <3>4, Zenon
  <2>11. Heights(u, k, L, G)
    <3>1. G \in [Nodes -> Nat]
      BY <2>4
    <3> QED BY <2>9, <2>10, <3>1 DEF Heights
  <2> QED BY <2>11
<1> QED BY <1>10, <1>12, <1>13, <1>15, <1>16 DEF Fits

LEMMA ReleasedIs ==
    ASSUME NEW t, TreeOK(t), NEW z \in Nodes
    PROVE  /\ TreeOK(Released(t, z)) /\ Released(t, z).root = t.root
           /\ \A n \in Nodes : n # z => /\ Released(t, z).parent[n] = t.parent[n]
                                        /\ Released(t, z).color[n] = t.color[n]
           /\ \A s \in Sides, n \in Nodes :
                 Released(t, z).child[s][n] = IF n = z THEN NIL ELSE t.child[s][n]
<1> DEFINE C == [s \in Sides |-> [t.child[s] EXCEPT ![z] = NIL]]
<1>1. C \in [Sides -> [Nodes -> Nodes]]
  BY DEF TreeOK, Nodes
<1>2. \A s \in Sides, n \in Nodes : C[s][n] = IF n = z THEN NIL ELSE t.child[s][n]
  BY DEF TreeOK
<1>3. NIL \in Nodes /\ "red" \in Colors
  BY DEF Nodes, Colors
<1> DEFINE u == [t EXCEPT !.child = C, !.parent[z] = NIL, !.color[z] = "red"]
<1>4. Released(t, z) = u
  BY DEF Released
<1> HIDE DEF C
<1>5. TreeOK(u) /\ u.root = t.root /\ u.child = C
  BY <1>1, <1>3 DEF TreeOK
<1>6. \A n \in Nodes : n # z => u.parent[n] = t.parent[n] /\ u.color[n] = t.color[n]
  BY DEF TreeOK
<1> HIDE DEF u
<1> QED BY <1>2, <1>4, <1>5, <1>6

\* Once a tree is in order, what is done to a node outside it does not matter.
LEMMA ReleaseFits ==
    ASSUME NEW t, NEW U, Bst(t, U), NEW z \in Values \ U[t.root], LeftOut(t, U[t.root], z),
           NEW H, Heights(t, NoLoop, U[t.root], H), Colored(t, NoLoop, U[t.root]),
           NEW u, u = Released(t, z)
    PROVE  Fits(u, NoLoop, U, H) /\ u.root = t.root
<1> DEFINE L == U[t.root]
<1>1. TreeOK(t) /\ z \in Nodes /\ z # NIL /\ NIL \notin L /\ L \subseteq Nodes /\ NIL \in Nodes
  BY Below, TreeTypes DEF Bst, Nodes
<1>2. /\ TreeOK(u) /\ u.root = t.root
      /\ \A n \in Nodes : n # z => u.parent[n] = t.parent[n] /\ u.color[n] = t.color[n]
      /\ \A s \in Sides, n \in Nodes : u.child[s][n] = IF n = z THEN NIL ELSE t.child[s][n]
  <2>1. TreeOK(t) /\ z \in Nodes /\ u = Released(t, z)
    BY <1>1
  <2> QED BY ONLY <2>1, ReleasedIs
<1>3. \A n \in L \cup {NIL} : /\ n \in Nodes /\ u.parent[n] = t.parent[n] /\ u.color[n] = t.color[n]
                              /\ \A s \in Sides : u.child[s][n] = t.child[s][n]
  <2>1. \A n \in L \cup {NIL} : n \in Nodes /\ n # z
    BY <1>1
  <2> QED BY <1>2, <2>1
<1>4. /\ t.root \in L \cup {NIL}
      /\ \A n \in L, s \in Sides : t.child[s][n] \in L \cup {NIL}
      /\ \A n \in L : t.parent[n] \in L \cup {NIL}
  <2>1. t.root \in L \cup {NIL} /\ \A n \in L, s \in Sides : t.child[s][n] \in L \cup {NIL}
    BY DEF Bst, Links
  <2>2. ASSUME NEW n \in L
        PROVE  t.parent[n] \in L \cup {NIL}
    <3>1. CASE n = t.root
      BY <3>1 DEF Bst, Links
    <3>2. CASE n # t.root
      BY <3>2, HasParent
    <3> QED BY <3>1, <3>2
  <2> QED BY <2>1, <2>2
<1>5. Bst(u, U)
  <2>1. Shape(u, U)
    BY <1>2, <1>3, SidesAre DEF Bst, Shape
  <2>2. Links(u, L)
    BY <1>2, <1>3, <1>4 DEF Bst, Links
  <2> QED BY <1>2, <2>1, <2>2 DEF Bst
<1>6. Heights(u, NoLoop, L, H)
  <2>1. \A n \in L, s \in Sides : H[n] = H[t.child[s][n]] + ExtraAt(t, NoLoop, n, s) + Blacks(t, n)
    BY DEF Heights
  <2>2. \A n \in L, s \in Sides : /\ ExtraAt(u, NoLoop, n, s) = ExtraAt(t, NoLoop, n, s)
                                  /\ Blacks(u, n) = Blacks(t, n)
    BY <1>3 DEF ExtraAt, NoLoop, Blacks, IsRed
  <2> QED BY <1>3, <2>1, <2>2 DEF Heights
<1>7. Colored(u, NoLoop, L)
  BY <1>2, <1>3, <1>4 DEF Colored, IsRed
<1>8. LeftOut(u, L, NoLoop.z) /\ LoopOK(u, NoLoop, L)
  <2>1. NoLoop.z = NIL
    BY DEF NoLoop
  <2>2. ASSUME NEW n \in Values \ L, NEW s \in Sides
        PROVE  u.child[s][n] = NIL
    BY <1>2 DEF LeftOut, Nodes
  <2> QED BY <1>1, <2>1, <2>2 DEF LeftOut, LoopOK
<1> QED BY <1>2, <1>5, <1>6, <1>7, <1>8 DEF Fits

\* The loop ends at the root or at a red node, which becomes black.
LEMMA DeleteEndsFits ==
    ASSUME NEW t, NEW l, NEW U, NEW H, Fits(t, l, U, H), l.at = "fixDelete",
           l.x = t.root \/ IsRed(t, l.x),
           NEW u, u = Released(Paint(t, l.x, "black"), l.z)
    PROVE  /\ \E G : Fits(u, NoLoop, U, G)
           /\ u.root = t.root /\ l.z \in Values \ U[t.root]
<1> DEFINE L == U[t.root]
<1>1. PICK x : x = l.x
  OBVIOUS
<1>2. PICK z : z = l.z
  OBVIOUS
<1>3. /\ Bst(t, U) /\ TreeOK(t) /\ x \in L \cup {NIL} /\ z \in Values \ L /\ x \in Nodes
      /\ L \subseteq Nodes /\ NIL \notin L /\ NIL \in Nodes /\ LeftOut(t, L, z)
  BY <1>1, <1>2, Below, TreeTypes DEF Fits, Bst, LoopOK, NoLoop
<1>4. PICK d : d = Paint(t, x, "black") /\ IsPainted(t, d, x, "black")
  BY <1>3, IsPaintedBy DEF Colors
<1>5. Bst(d, U) /\ d.root = t.root /\ d.child = t.child /\ d.parent = t.parent
  BY <1>3, <1>4, SameLinksBst DEF IsPainted, SameLinks
<1>6. ~IsRed(t, NIL)
  BY DEF Fits, Colored
<1>7. x = NIL => L = {} /\ t.root = NIL
  BY <1>1, <1>3, <1>6 DEF Bst, Links
<1>8. \A n \in Nodes : IsRed(d, n) <=> n # x /\ IsRed(t, n)
  BY <1>4 DEF IsPainted, IsRed
<1>9. Colored(d, NoLoop, L)
  <2>1. ~IsRed(d, NIL)
    BY <1>3, <1>6, <1>8
  <2>2. ~IsRed(d, d.root)
    <3>1. t.root \in Nodes /\ (IsRed(t, t.root) => t.root = x)
      BY <1>1, <1>3, TreeTypes DEF Fits, Colored
    <3> QED BY <1>5, <1>8, <3>1
  <2>3. ASSUME NEW n \in L, IsRed(d, n), IsRed(d, d.parent[n])
        PROVE  FALSE
    <3>1. d.parent[n] = t.parent[n] /\ n \in Nodes /\ t.parent[n] \in Nodes
      BY <1>3, <1>5, TreeTypes
    <3>2. IsRed(t, n) /\ n # x /\ IsRed(t, t.parent[n]) /\ t.parent[n] # x
      BY <1>8, <2>3, <3>1
    <3> QED BY <1>1, <3>2 DEF Fits, Colored
  <2> QED BY <2>1, <2>2, <2>3 DEF Colored
<1>10. \E G : Heights(d, NoLoop, L, G)
  <2>0. Heights(t, l, L, H)
    BY DEF Fits
  <2>1. CASE x = NIL
    <3>1. Heights(d, NoLoop, L, H)
      BY <1>7, <2>0, <2>1 DEF Heights
    <3> QED BY <3>1
  <2>2. CASE x # NIL
    <3>1. x \in L
      BY <1>3, <2>2
    <3>2. \A n \in L, r \in Sides : t.child[r][n] # NIL => t.parent[t.child[r][n]] = n
      BY <1>3, ChildIsNew
    <3>3. \A n \in L, r \in Sides : ExtraAt(t, l, n, r) = IF t.child[r][n] = x THEN 1 ELSE 0
      BY <1>1, <2>2, <3>2 DEF ExtraAt
    <3>4. x # t.root => IsRed(t, x)
      BY <1>1
    <3> QED BY <1>3, <1>4, <2>0, <3>1, <3>3, <3>4, BlackensHeights
  <2> QED BY <2>1, <2>2
<1>11. LeftOut(d, L, z)
  BY <1>3, <1>5 DEF LeftOut
<1>12. U[d.root] = L /\ u = Released(d, z)
  BY <1>1, <1>2, <1>4, <1>5
<1>13. PICK G : Heights(d, NoLoop, U[d.root], G)
  BY <1>10, <1>12
<1>14. z \in Values \ U[d.root] /\ LeftOut(d, U[d.root], z) /\ Colored(d, NoLoop, U[d.root])
  BY <1>3, <1>9, <1>11, <1>12
<1>15. Fits(u, NoLoop, U, G) /\ u.root = d.root
  BY <1>5, <1>12, <1>13, <1>14, ReleaseFits
<1> QED BY <1>2, <1>3, <1>5, <1>15

-----------------------------------------------------------------------------
(* insert() *)

\* u is t with a new red node v on side s of y, or as the root.
IsLinked(t, u, v, y, s) ==
    /\ TreeOK(u) /\ u.root = IF y = NIL THEN v ELSE t.root
    /\ \A r \in Sides, n \in Nodes :
          u.child[r][n] = IF n = v THEN NIL ELSE IF y # NIL /\ n = y /\ r = s THEN v
                          ELSE t.child[r][n]
    /\ \A n \in Nodes : u.parent[n] = IF n = v THEN y ELSE t.parent[n]
    /\ \A n \in Nodes : u.color[n] = IF n = v THEN "red" ELSE t.color[n]

LEMMA LinkedIs ==
    ASSUME TreeOK(tree), NEW v \in Values, NEW y \in Nodes, y = LastVisited(tree, v), y # v
    PROVE  IsLinked(tree, Linked(v), v, y, SideFor(v, y))
<1> DEFINE C == [s \in Sides |-> [tree.child[s] EXCEPT ![v] = NIL]]
           node == [tree EXCEPT !.child = C, !.parent[v] = y, !.color[v] = "red"]
<1>1. v \in Nodes /\ NIL \in Nodes /\ "red" \in Colors /\ SideFor(v, y) \in Sides
  BY DEF Nodes, Colors, SideFor, Sides
<1>2. C \in [Sides -> [Nodes -> Nodes]]
  BY <1>1 DEF TreeOK
<1>3. \A s \in Sides, n \in Nodes : C[s][n] = IF n = v THEN NIL ELSE tree.child[s][n]
  BY DEF TreeOK
<1>4. Linked(v) = IF y = NIL THEN [node EXCEPT !.root = v] ELSE Attach(node, y, SideFor(v, y), v)
  BY DEF Linked, SideFor
<1> HIDE DEF C
<1>5. /\ TreeOK(node) /\ node.root = tree.root /\ node.child = C
      /\ \A n \in Nodes : node.parent[n] = IF n = v THEN y ELSE tree.parent[n]
      /\ \A n \in Nodes : node.color[n] = IF n = v THEN "red" ELSE tree.color[n]
  BY <1>1, <1>2 DEF TreeOK
<1> HIDE DEF node
<1>6. CASE y = NIL
  <2>1. PICK u : u = [node EXCEPT !.root = v]
    OBVIOUS
  <2>2. /\ TreeOK(u) /\ u.root = v /\ u.child = C /\ u.parent = node.parent
        /\ u.color = node.color
    BY <1>1, <1>5, <2>1 DEF TreeOK
  <2>3. IsLinked(tree, u, v, y, SideFor(v, y))
    BY <1>3, <1>5, <1>6, <2>2 DEF IsLinked
  <2> QED BY <1>4, <1>6, <2>1, <2>3
<1>7. CASE y # NIL
  <2>1. PICK u : u = Attach(node, y, SideFor(v, y), v) /\ IsAttached(node, u, y, SideFor(v, y), v, TRUE)
    BY <1>1, <1>5, AttachIs
  <2>2. /\ TreeOK(u) /\ u.root = tree.root /\ u.color = node.color
        /\ \A n \in Nodes : u.parent[n] = IF n = v THEN y ELSE tree.parent[n]
        /\ \A r \in Sides, n \in Nodes :
              u.child[r][n] = IF r = SideFor(v, y) /\ n = y THEN v ELSE C[r][n]
    BY <1>5, <2>1 DEF IsAttached
  <2>3. IsLinked(tree, u, v, y, SideFor(v, y))
    BY <1>3, <1>5, <1>7, <2>2 DEF IsLinked
  <2> QED BY <1>4, <1>7, <2>1, <2>3
<1> QED BY <1>6, <1>7

LinkedSets(U, v, y) ==
    [n \in Nodes |-> IF n = v THEN {v} ELSE IF y \in U[n] THEN U[n] \cup {v} ELSE U[n]]

\* The new node is where a search for it has ended.
LEMMA LinkedIsBst ==
    ASSUME NEW t, NEW U, Bst(t, U), NEW v \in Values, v \notin U[t.root],
           NEW y, \/ U[t.root] = {} /\ y = NIL
                  \/ Route(t, U, v, t.root, y),
           NEW u, IsLinked(t, u, v, y, SideFor(v, y)),
           NEW V, V = LinkedSets(U, v, y)
    PROVE  Bst(u, V) /\ V[u.root] = U[t.root] \cup {v}
<1> DEFINE L == U[t.root]
<1>1. /\ TreeOK(t) /\ U \in [Nodes -> SUBSET Values] /\ U[NIL] = {} /\ L \subseteq Nodes
      /\ NIL \notin L /\ v \in Nodes /\ v # NIL /\ NIL \in Nodes /\ L \subseteq Values
  BY Below, TreeTypes DEF Bst, Shape, Nodes
<1>2. /\ V \in [Nodes -> SUBSET Values] /\ V[NIL] = {} /\ V[v] = {v}
      /\ \A n \in Nodes : n # v => V[n] = IF y \in U[n] THEN U[n] \cup {v} ELSE U[n]
  BY <1>1 DEF LinkedSets
<1>3. y = NIL <=> L = {}
  BY <1>1 DEF Route
<1>4. y # NIL => /\ y \in L /\ t.child[SideFor(v, y)][y] = NIL /\ SideFor(v, y) \in Sides
                 /\ Before(SideFor(v, y), v, y) /\ v # y
                 /\ \A a \in L : y \in U[a] /\ a # y => y \in U[Towards(t, a, v)]
  <2> HAVE y # NIL
  <2>1. y \in L /\ (y = v \/ Towards(t, y, v) = NIL)
        /\ \A a \in L : y \in U[a] /\ a # y => y \in U[Towards(t, a, v)]
    BY <1>3 DEF Route
  <2>2. v # y
    BY <2>1
  <2> QED BY <2>1, <2>2, TowardsIs
<1>5. V[u.root] = L \cup {v} /\ u.root \in L \cup {v}
  <2>1. CASE y = NIL
    BY <1>2, <1>3, <2>1 DEF IsLinked
  <2>2. CASE y # NIL
    <3>1. t.root \in L /\ t.root \in Nodes
      BY <1>1, <1>4, <2>2 DEF Bst, Links
    <3> QED BY <1>2, <1>4, <2>2, <3>1 DEF IsLinked
  <2> QED BY <2>1, <2>2
<1>6. \A r \in Sides : u.child[r][v] = NIL
  BY <1>1 DEF IsLinked
<1>7. \A n \in L : n # y => \A r \in Sides : u.child[r][n] = t.child[r][n]
  BY <1>1 DEF IsLinked
<1>8. y # NIL => \A r \in Sides : u.child[r][y] = IF r = SideFor(v, y) THEN v ELSE t.child[r][y]
  BY <1>1, <1>4 DEF IsLinked
<1>9. \A n \in L : /\ n \in Values /\ n \in Nodes /\ n # v /\ n # NIL /\ n \in U[n] /\ U[n] \subseteq L
                   /\ U[n] = {n} \cup U[t.child["left"][n]] \cup U[t.child["right"][n]]
                   /\ \A r \in Sides : \A m \in U[t.child[r][n]] : Before(r, m, n)
                   /\ \A r \in Sides : /\ t.child[r][n] \in L \cup {NIL}
                                       /\ U[t.child[r][n]] \subseteq U[n]
                                       /\ n \notin U[t.child[r][n]]
                   /\ U[t.child["left"][n]] \cap U[t.child["right"][n]] = {}
  <2> TAKE n \in L
  <2>1. /\ n \in Values /\ n # v /\ n \in U[n] /\ U[n] \subseteq L /\ n \in Nodes /\ n # NIL
        /\ \A r \in Sides : /\ t.child[r][n] \in L \cup {NIL}
                            /\ U[t.child[r][n]] \subseteq U[n]
                            /\ n \notin U[t.child[r][n]]
    BY Below
  <2>2. /\ U[n] = {n} \cup U[t.child["left"][n]] \cup U[t.child["right"][n]]
        /\ \A r \in Sides : \A m \in U[t.child[r][n]] : Before(r, m, n)
    BY DEF Bst, Shape
  <2>3. U[t.child["left"][n]] \cap U[t.child["right"][n]] = {}
    <3>1. \A r \in Sides : U[t.child[r][n]] \cap U[t.child[Other(r)][n]] = {}
      BY Below
    <3> QED BY <3>1 DEF Sides, Other
  <2> QED BY <2>1, <2>2, <2>3
<1>10. ASSUME NEW n \in L
       PROVE  /\ V[n] \subseteq L \cup {v}
              /\ V[n] = {n} \cup V[u.child["left"][n]] \cup V[u.child["right"][n]]
              /\ \A r \in Sides : \A m \in V[u.child[r][n]] : Before(r, m, n)
  <2>1. \A r \in Sides : t.child[r][n] \in Nodes /\ t.child[r][n] # v
    BY <1>1, <1>9
  <2>2. CASE y \notin U[n]
    <3>1. n # y
      BY <1>9, <2>2
    <3>2. \A r \in Sides : y \notin U[t.child[r][n]]
      BY <1>9, <2>2
    <3>3. V[n] = U[n] /\ \A r \in Sides : V[u.child[r][n]] = U[t.child[r][n]]
      BY <1>2, <1>7, <1>9, <2>1, <2>2, <3>1, <3>2
    <3> QED BY <1>9, <3>3, SidesAre
  <2>3. CASE y \in U[n] /\ n # y
    <3>1. PICK s \in Sides : s = SideFor(v, n) /\ Before(s, v, n) /\ Towards(t, n, v) = t.child[s][n]
      <4>1. v # n
        BY <1>9
      <4>2. /\ SideFor(v, n) \in Sides /\ Before(SideFor(v, n), v, n)
            /\ Towards(t, n, v) = t.child[SideFor(v, n)][n]
        BY <4>1, TowardsIs
      <4> QED BY <4>2
    <3>2. y \in U[t.child[s][n]]
      BY <1>1, <1>4, <2>3, <3>1
    <3>3. y \notin U[t.child[Other(s)][n]]
      BY <1>9, <3>2 DEF Sides, Other
    <3>4. V[n] = U[n] \cup {v}
      BY <1>2, <1>9, <2>3
    <3>5. V[u.child[s][n]] = U[t.child[s][n]] \cup {v}
      BY <1>2, <1>7, <2>1, <2>3, <3>2
    <3>6. V[u.child[Other(s)][n]] = U[t.child[Other(s)][n]]
      BY <1>2, <1>7, <2>1, <2>3, <3>3, SidesAre
    <3>7. \A r \in Sides : r = s \/ r = Other(s)
      BY SidesAre
    <3>8. V[n] \subseteq L \cup {v}
      BY <1>9, <3>4
    <3>9. V[n] = {n} \cup V[u.child["left"][n]] \cup V[u.child["right"][n]]
      <4>1. U[n] = {n} \cup U[t.child[s][n]] \cup U[t.child[Other(s)][n]]
        BY Below
      <4>2. V[n] = {n} \cup V[u.child[s][n]] \cup V[u.child[Other(s)][n]]
        BY <3>4, <3>5, <3>6, <4>1
      <4>3. \/ s = "left" /\ Other(s) = "right"
            \/ s = "right" /\ Other(s) = "left"
        BY DEF Sides, Other
      <4> QED BY <4>2, <4>3
    <3>10. \A r \in Sides : \A m \in V[u.child[r][n]] : Before(r, m, n)
      BY <1>9, <3>1, <3>5, <3>6, <3>7
    <3> QED BY <3>8, <3>9, <3>10
  <2>4. CASE n = y
    <3>1. PICK s \in Sides : s = SideFor(v, y) /\ Before(s, v, y) /\ t.child[s][y] = NIL
      BY <1>4, <1>9, <2>4
    <3>2. V[n] = U[n] \cup {v}
      BY <1>2, <1>9, <2>4
    <3>3. V[u.child[s][n]] = {v} /\ U[t.child[s][n]] = {}
      BY <1>1, <1>2, <1>8, <1>9, <2>4, <3>1
    <3>4. V[u.child[Other(s)][n]] = U[t.child[Other(s)][n]]
      <4>1. u.child[Other(s)][n] = t.child[Other(s)][n]
        BY <1>8, <1>9, <2>4, <3>1, SidesAre
      <4>2. y \notin U[t.child[Other(s)][n]]
        BY <1>9, <2>4, SidesAre
      <4> QED BY <1>2, <2>1, <4>1, <4>2, SidesAre
    <3>5. \A r \in Sides : r = s \/ r = Other(s)
      BY SidesAre
    <3>6. V[n] \subseteq L \cup {v}
      BY <1>9, <3>2
    <3>7. V[n] = {n} \cup V[u.child["left"][n]] \cup V[u.child["right"][n]]
      <4>1. U[n] = {n} \cup U[t.child[s][n]] \cup U[t.child[Other(s)][n]]
        BY Below
      <4>2. V[n] = {n} \cup V[u.child[s][n]] \cup V[u.child[Other(s)][n]]
        BY <3>2, <3>3, <3>4, <4>1
      <4>3. \/ s = "left" /\ Other(s) = "right"
            \/ s = "right" /\ Other(s) = "left"
        BY DEF Sides, Other
      <4> QED BY <4>2, <4>3
    <3>8. \A r \in Sides : \A m \in V[u.child[r][n]] : Before(r, m, n)
      BY <1>9, <2>4, <3>1, <3>3, <3>4, <3>5
    <3> QED BY <3>6, <3>7, <3>8
  <2> QED BY <2>2, <2>3, <2>4
<1>11. /\ V[v] = {v} \cup V[u.child["left"][v]] \cup V[u.child["right"][v]]
       /\ \A r \in Sides : \A m \in V[u.child[r][v]] : Before(r, m, v)
  BY <1>2, <1>6, SidesAre
<1>12. Shape(u, V)
  <2>1. IsFiniteSet(L \cup {v})
    BY FS_AddElement DEF Bst, Shape
  <2>2. V[v] \subseteq L \cup {v}
    BY <1>2
  <2>3. ASSUME NEW n \in L \cup {v}
        PROVE  /\ V[n] \subseteq L \cup {v}
               /\ V[n] = {n} \cup V[u.child["left"][n]] \cup V[u.child["right"][n]]
               /\ \A r \in Sides : \A m \in V[u.child[r][n]] : Before(r, m, n)
    <3>1. CASE n \in L
      BY <1>10, <3>1
    <3>2. CASE n = v
      BY <1>11, <2>2, <3>2
    <3> QED BY <3>1, <3>2
  <2> HIDE DEF L
  <2> QED BY <1>2, <1>5, <2>1, <2>3 DEF Shape
<1>13. Links(u, L \cup {v})
  <2>1. u.root \in L \cup {v} /\ u.parent[u.root] = NIL
    <3>1. CASE y = NIL
      BY <1>1, <3>1 DEF IsLinked
    <3>2. CASE y # NIL
      <4>1. t.root \in L /\ t.parent[t.root] = NIL
        BY <1>4, <3>2 DEF Bst, Links
      <4>2. t.root \in Nodes /\ t.root # v
        BY <1>9, <4>1
      <4>3. u.root = t.root /\ u.parent[t.root] = t.parent[t.root]
        BY <3>2, <4>2 DEF IsLinked
      <4> QED BY <4>1, <4>3
    <3> QED BY <3>1, <3>2
  <2>2. ASSUME NEW n \in L \cup {v}, NEW r \in Sides
        PROVE  /\ u.child[r][n] \in L \cup {v} \cup {NIL}
               /\ u.child[r][n] # NIL => u.parent[u.child[r][n]] = n
    <3>1. CASE n = v
      BY <1>6, <3>1
    <3>2. CASE n # v /\ n = y /\ r = SideFor(v, y)
      BY <1>1, <1>8, <3>2 DEF IsLinked
    <3>3. CASE n # v /\ ~(n = y /\ r = SideFor(v, y))
      <4>1. n \in L /\ u.child[r][n] = t.child[r][n]
        BY <1>1, <1>7, <1>8, <3>3
      <4>2. t.child[r][n] \in L \cup {NIL} /\ (t.child[r][n] # NIL => t.parent[t.child[r][n]] = n)
        BY <4>1 DEF Bst, Links
      <4> QED BY <1>9, <4>1, <4>2 DEF IsLinked
    <3> QED BY <3>1, <3>2, <3>3
  <2>3. \A r \in Sides : u.child[r][NIL] = NIL
    BY <1>1, <1>4 DEF IsLinked, Bst, Links
  <2> QED BY <2>1, <2>2, <2>3 DEF Links
<1> QED BY <1>5, <1>12, <1>13 DEF Bst, IsLinked

LEMMA LinkedFits ==
    ASSUME NEW t, NEW U, NEW H, Fits(t, NoLoop, U, H), NEW v \in Values, v \notin U[t.root],
           NEW y, \/ U[t.root] = {} /\ y = NIL
                  \/ Route(t, U, v, t.root, y),
           NEW u, IsLinked(t, u, v, y, SideFor(v, y)),
           NEW l, l = [at |-> "fixInsert", x |-> v, z |-> NIL]
    PROVE  \E V, G : Fits(u, l, V, G) /\ V[u.root] = U[t.root] \cup {v}
<1> DEFINE L == U[t.root]
<1>1. PICK V : V = LinkedSets(U, v, y)
  OBVIOUS
<1>2. /\ Bst(t, U) /\ TreeOK(t) /\ NIL \notin L /\ L \subseteq Nodes /\ NIL \in Nodes
      /\ v \in Nodes /\ v # NIL
  BY Below, TreeTypes DEF Fits, Bst, Nodes
<1>3. Bst(u, V) /\ V[u.root] = L \cup {v}
  <2>1. /\ Bst(t, U) /\ v \in Values /\ v \notin U[t.root]
        /\ (U[t.root] = {} /\ y = NIL) \/ Route(t, U, v, t.root, y)
        /\ IsLinked(t, u, v, y, SideFor(v, y))
    BY <1>2
  <2> QED BY ONLY <1>1, <2>1, LinkedIsBst
<1>4. y # NIL => y \in L /\ t.child[SideFor(v, y)][y] = NIL
  <2> HAVE y # NIL
  <2>1. y \in L /\ (y = v \/ Towards(t, y, v) = NIL)
    BY <1>2 DEF Route
  <2> QED BY <1>2, <2>1, TowardsIs
<1>5. /\ l.at = "fixInsert" /\ l.x = v /\ l.z = NIL /\ IsRed(u, v)
      /\ l \in [at : {"fixInsert"}, x : L \cup {v}, z : {NIL}]
  BY <1>2 DEF IsLinked, IsRed
<1>6. LoopOK(u, l, L \cup {v})
  BY <1>5 DEF LoopOK
<1>7. LeftOut(u, L \cup {v}, l.z)
  <2> SUFFICES ASSUME NEW n \in Values \ (L \cup {v}), NEW r \in Sides
               PROVE  u.child[r][n] = NIL
    BY <1>5 DEF LeftOut
  <2>1. n \in Nodes /\ n # v /\ n # y /\ n # NIL
    BY <1>2, <1>4 DEF Nodes
  <2>2. t.child[r][n] = NIL
    BY <2>1 DEF Fits, LeftOut, NoLoop
  <2> QED BY <2>1, <2>2 DEF IsLinked
<1>8. Heights(u, l, L \cup {v}, [H EXCEPT ![v] = 0])
  <2> DEFINE G == [H EXCEPT ![v] = 0]
  <2>1. H \in [Nodes -> Nat] /\ H[NIL] = 0
    BY DEF Fits, Heights
  <2>2. G \in [Nodes -> Nat] /\ G[v] = 0 /\ G[NIL] = 0 /\ \A n \in Nodes : n # v => G[n] = H[n]
    BY <1>2, <2>1
  <2> HIDE DEF G
  <2>3. ASSUME NEW n \in L \cup {v}, NEW r \in Sides
        PROVE  G[n] = G[u.child[r][n]] + ExtraAt(u, l, n, r) + Blacks(u, n)
    <3>1. ExtraAt(u, l, n, r) = 0
      BY <1>5 DEF ExtraAt
    <3>2. CASE n = v
      <4>1. u.child[r][n] = NIL /\ Blacks(u, n) = 0
        BY <1>2, <1>5, <3>2 DEF IsLinked, Blacks
      <4> QED BY <2>2, <3>1, <3>2, <4>1
    <3>3. CASE n # v
      <4>1. n \in L /\ n \in Nodes /\ Blacks(u, n) = Blacks(t, n)
        BY <1>2, <3>3 DEF IsLinked, Blacks, IsRed
      <4>2. PICK c \in L \cup {NIL} : c = t.child[r][n]
        BY <1>2, <4>1, Below
      <4>3. G[u.child[r][n]] = H[c]
        <5>1. u.child[r][n] = IF y # NIL /\ n = y /\ r = SideFor(v, y) THEN v ELSE c
          BY <3>3, <4>1, <4>2 DEF IsLinked
        <5>2. c # v /\ c \in Nodes
          BY <1>2
        <5> QED BY <1>4, <2>1, <2>2, <4>2, <5>1, <5>2
      <4>4. H[n] = H[c] + Blacks(t, n)
        <5>1. H[n] = H[c] + ExtraAt(t, NoLoop, n, r) + Blacks(t, n)
          BY <4>1, <4>2 DEF Fits, Heights
        <5>2. ExtraAt(t, NoLoop, n, r) = 0 /\ H[c] \in Nat
          BY <1>2, <2>1 DEF ExtraAt, NoLoop
        <5> QED BY <5>1, <5>2
      <4>5. H[c] \in Nat /\ Blacks(t, n) \in {0, 1}
        BY <1>2, <2>1 DEF Blacks
      <4> QED BY <2>2, <3>1, <3>3, <4>1, <4>3, <4>4, <4>5
    <3> QED BY <3>2, <3>3
  <2>4. Heights(u, l, L \cup {v}, G)
    BY <2>2, <2>3 DEF Heights
  <2> QED BY <2>4 DEF G
<1>9. Colored(u, l, L \cup {v})
  <2>1. \A n \in Nodes : n # v => (IsRed(u, n) <=> IsRed(t, n))
    BY DEF IsLinked, IsRed
  <2>2. ~IsRed(u, NIL) /\ ~IsRed(t, t.root)
    BY <1>2, <2>1 DEF Fits, Colored, NoLoop
  <2>3. IsRed(u, u.root) => u.root = v
    BY <1>2, <2>1, <2>2, TreeTypes DEF IsLinked
  <2>4. ASSUME NEW n \in L, IsRed(u, n), IsRed(u, u.parent[n])
        PROVE  FALSE
    <3>1. n \in Nodes /\ n # v /\ u.parent[n] = t.parent[n]
      BY <1>2 DEF IsLinked
    <3>2. t.parent[n] \in Nodes /\ t.parent[n] # v
      <4>1. t.parent[n] \in L \cup {NIL}
        <5>1. CASE n = t.root
          BY <1>2, <5>1 DEF Bst, Links
        <5>2. CASE n # t.root
          BY <1>2, <5>2, HasParent
        <5> QED BY <5>1, <5>2
      <4> QED BY <1>2, <4>1
    <3>3. IsRed(t, n) /\ IsRed(t, t.parent[n])
      BY <2>1, <2>4, <3>1, <3>2
    <3> QED BY <3>3 DEF Fits, Colored, NoLoop
  <2> QED BY <1>5, <2>2, <2>3, <2>4 DEF Colored
<1> QED BY <1>3, <1>6, <1>7, <1>8, <1>9 DEF Fits

-----------------------------------------------------------------------------
(* erase(): a node with one child at most leaves the tree *)

\* The nodes in L, those of the tree, keep their children, and who had a has v.
IsMovedUp(t, u, L, a, v) ==
    /\ u.root = IF t.root = a THEN v ELSE t.root
    /\ t.parent[a] \in L \cup {NIL} /\ (t.parent[a] = NIL <=> t.root = a)
    /\ \A n \in L, r \in Sides : /\ t.child[r][n] = a => u.child[r][n] = v
                                 /\ t.child[r][n] # a => u.child[r][n] = t.child[r][n]
    /\ \A n \in Nodes \ L, r \in Sides : u.child[r][n] = t.child[r][n]

LEMMA ReplacedChildren ==
    ASSUME NEW t, NEW U, Bst(t, U), NEW a \in U[t.root], NEW v,
           NEW u, IsTransplanted(t, u, a, v)
    PROVE  IsMovedUp(t, u, U[t.root], a, v)
<1> DEFINE L == U[t.root]
<1>1. NIL \notin L /\ L \subseteq Nodes
  BY Below
<1>2. t.parent[a] = NIL <=> t.root = a
  <2>1. CASE t.root = a
    BY <1>1, <2>1 DEF Bst, Links
  <2>2. CASE t.root # a
    BY <2>2, HasParent
  <2> QED BY <2>1, <2>2
<1>3. t.parent[a] # NIL => /\ t.parent[a] \in L /\ SideOf(t, a) \in Sides
                           /\ t.child[SideOf(t, a)][t.parent[a]] = a
  BY <1>2, HasParent
<1>4. ASSUME NEW n \in L, NEW r \in Sides
      PROVE  u.child[r][n] = IF t.child[r][n] = a THEN v ELSE t.child[r][n]
  <2>1. u.child[r][n] = IF t.parent[a] # NIL /\ r = SideOf(t, a) /\ n = t.parent[a] THEN v
                        ELSE t.child[r][n]
    BY <1>1 DEF IsTransplanted
  <2>2. CASE t.child[r][n] = a
    <3>1. t.parent[a] = n /\ n # NIL
      BY <1>1, <2>2 DEF Bst, Links
    <3>2. r = SideOf(t, a)
      <4>1. SideOf(t, a) \in Sides /\ t.child[SideOf(t, a)][n] = a /\ a # NIL
        BY <1>1, <1>3, <3>1
      <4>2. t.child[Other(r)][n] # a
        BY <1>1, <2>2, ChildrenDiffer
      <4> QED BY <4>1, <4>2, SidesAre
    <3> QED BY <2>1, <2>2, <3>1, <3>2
  <2>3. CASE t.child[r][n] # a
    BY <1>3, <2>1, <2>3
  <2> QED BY <2>2, <2>3
<1>5. ASSUME NEW n \in Nodes \ L, NEW r \in Sides
      PROVE  u.child[r][n] = t.child[r][n]
  BY <1>3 DEF IsTransplanted
<1>6. u.root = IF t.root = a THEN v ELSE t.root
  BY <1>2 DEF IsTransplanted
<1> QED BY <1>2, <1>3, <1>4, <1>5, <1>6 DEF IsMovedUp

\* What taking out y, which has c and no other child, may rely on.
CanSplice(t, U, y, s, c) ==
    /\ Bst(t, U) /\ y \in U[t.root] /\ s \in Sides
    /\ t.child[s][y] = NIL /\ c = t.child[Other(s)][y]

Without(U, y) == [n \in Nodes |-> U[n] \ {y}]

LEMMA SpliceNodes ==
    ASSUME NEW t, NEW U, NEW y, NEW s, NEW c, CanSplice(t, U, y, s, c)
    PROVE  /\ y \in Values /\ y \in Nodes /\ c \in Nodes /\ c \in U[t.root] \cup {NIL} /\ c # y
           /\ U[y] = {y} \cup U[c] /\ y \notin U[c] /\ (c # NIL => t.parent[c] = y)
           /\ c # t.root \/ c = NIL
           /\ t.parent[y] # y /\ (t.parent[y] # c \/ c = NIL)
<1> DEFINE L == U[t.root]
<1>1. PICK o \in Sides : o = Other(s) /\ Bst(t, U) /\ y \in L /\ t.child[s][y] = NIL
                         /\ c = t.child[o][y]
  BY SidesAre DEF CanSplice
<1>2. y \in Values /\ y \in Nodes /\ y # NIL /\ U[NIL] = {}
  BY <1>1, Below
<1>3. \A r \in Sides : /\ t.child[r][y] \in L \cup {NIL} /\ y \notin U[t.child[r][y]]
                       /\ U[y] = {y} \cup U[t.child[r][y]] \cup U[t.child[Other(r)][y]]
  BY <1>1, Below
<1>4. U[y] = {y} \cup U[c]
  BY <1>1, <1>2, <1>3, SidesAre DEF CanSplice
<1>5. c \in L \cup {NIL} /\ y \notin U[c]
  BY <1>1, <1>3
<1>6. c # NIL => c # y /\ c # t.root /\ t.parent[c] = y /\ t.parent[y] # c
  <2>1. t.child[o][y] # NIL => /\ t.child[o][y] # y /\ t.child[o][y] # t.root
                               /\ t.parent[t.child[o][y]] = y /\ t.parent[y] # t.child[o][y]
    BY <1>1, ChildIsNew
  <2> QED BY <1>1, <2>1
<1>7. c \in Nodes
  BY <1>5, <1>1, Below DEF Nodes
<1>8. t.parent[y] # y
  <2>1. CASE y = t.root
    BY <1>1, <1>2, <2>1 DEF Bst, Links
  <2>2. CASE y # t.root
    <3>1. PICK p \in L, r \in Sides : p = t.parent[y] /\ t.child[r][p] = y
      BY <1>1, <2>2, HasParent
    <3>2. t.child[r][p] # NIL => t.child[r][p] # p
      BY <1>1, ChildIsNew
    <3> QED BY <1>2, <3>1, <3>2
  <2> QED BY <2>1, <2>2
<1> QED BY <1>2, <1>4, <1>5, <1>6, <1>7, <1>8

LEMMA SplicedIsBst ==
    ASSUME NEW t, NEW U, NEW y, NEW s, NEW c, CanSplice(t, U, y, s, c),
           NEW u, IsTransplanted(t, u, y, c), NEW V, V = Without(U, y)
    PROVE  /\ Bst(u, V) /\ V[u.root] = U[t.root] \ {y}
           /\ \A n \in U[t.root] \ {y}, r \in Sides : V[u.child[r][n]] = U[t.child[r][n]] \ {y}
<1> DEFINE L == U[t.root]
<1>1. /\ Bst(t, U) /\ TreeOK(t) /\ U \in [Nodes -> SUBSET Values] /\ U[NIL] = {}
      /\ L \subseteq Nodes /\ NIL \notin L /\ NIL \in Nodes /\ y \in L
  <2>1. Bst(t, U) /\ TreeOK(t) /\ U \in [Nodes -> SUBSET Values] /\ U[NIL] = {} /\ y \in L
    BY DEF CanSplice, Bst, Shape
  <2> QED BY <2>1, Below, TreeTypes
<1>2. /\ y \in Values /\ y \in Nodes /\ c \in Nodes /\ c \in L \cup {NIL} /\ c # y
      /\ U[y] = {y} \cup U[c] /\ y \notin U[c] /\ (c # NIL => t.parent[c] = y)
  BY SpliceNodes
<1>3. /\ u.root = IF t.root = y THEN c ELSE t.root
      /\ t.parent[y] \in L \cup {NIL} /\ (t.parent[y] = NIL <=> t.root = y)
      /\ \A n \in L, r \in Sides : u.child[r][n] = IF t.child[r][n] = y THEN c ELSE t.child[r][n]
      /\ \A n \in Nodes \ L, r \in Sides : u.child[r][n] = t.child[r][n]
  <2>1. Bst(t, U) /\ y \in U[t.root] /\ IsTransplanted(t, u, y, c)
    BY <1>1
  <2>2. IsMovedUp(t, u, L, y, c)
    BY <2>1, ReplacedChildren
  <2> QED BY <2>2 DEF IsMovedUp
<1>4. TreeOK(u) /\ \A n \in Nodes : u.parent[n] = IF n = c THEN t.parent[y] ELSE t.parent[n]
  BY DEF IsTransplanted
<1>5. V \in [Nodes -> SUBSET Values] /\ \A n \in Nodes : V[n] = U[n] \ {y}
  BY <1>1 DEF Without
<1>6. V[c] = U[y] \ {y}
  BY <1>2, <1>5
<1>7. V[u.root] = L \ {y} /\ (u.root \in L \ {y} \/ (u.root = NIL /\ L \ {y} = {}))
  <2>1. CASE t.root = y
    <3>1. V[c] = L \ {y} /\ u.root = c
      BY <1>3, <1>6, <2>1
    <3>2. c = NIL => L \ {y} = {}
      BY <1>1, <1>5, <3>1
    <3> QED BY <1>2, <3>1, <3>2
  <2>2. CASE t.root # y
    <3>1. t.root \in L /\ t.root \in Nodes
      BY <1>1 DEF Bst, Links
    <3> QED BY <1>3, <1>5, <2>2, <3>1
  <2> QED BY <2>1, <2>2
<1>8. ASSUME NEW n \in L, NEW r \in Sides
      PROVE  /\ t.child[r][n] \in L \cup {NIL} /\ t.child[r][n] \in Nodes
             /\ V[u.child[r][n]] = U[t.child[r][n]] \ {y}
             /\ u.child[r][n] \in (L \ {y}) \cup {NIL}
  <2>1. t.child[r][n] \in L \cup {NIL} /\ t.child[r][n] \in Nodes
    BY <1>1, Below, TreeTypes
  <2>2. CASE t.child[r][n] = y
    BY <1>2, <1>3, <1>6, <2>1, <2>2
  <2>3. CASE t.child[r][n] # y
    BY <1>3, <1>5, <2>1, <2>3
  <2> QED BY <2>2, <2>3
<1>9. Shape(u, V)
  <2>1. IsFiniteSet(L \ {y})
    BY FS_RemoveElement DEF CanSplice, Bst, Shape
  <2>2. ASSUME NEW n \in L \ {y}
        PROVE  /\ V[n] \subseteq L \ {y}
               /\ V[n] = {n} \cup V[u.child["left"][n]] \cup V[u.child["right"][n]]
               /\ \A r \in Sides : \A m \in V[u.child[r][n]] : Before(r, m, n)
    <3>1. /\ U[n] \subseteq L
          /\ U[n] = {n} \cup U[t.child["left"][n]] \cup U[t.child["right"][n]]
          /\ \A r \in Sides : \A m \in U[t.child[r][n]] : Before(r, m, n)
      BY DEF CanSplice, Bst, Shape
    <3>2. V[n] = U[n] \ {y} /\ \A r \in Sides : V[u.child[r][n]] = U[t.child[r][n]] \ {y}
      BY <1>1, <1>5, <1>8
    <3> QED BY <3>1, <3>2, SidesAre
  <2> HIDE DEF L
  <2> QED BY <1>1, <1>5, <1>7, <2>1, <2>2 DEF Shape
<1>10. Links(u, L \ {y})
  <2>1. u.root \in L \ {y} => u.parent[u.root] = NIL
    <3>1. CASE t.root = y
      BY <1>1, <1>2, <1>3, <1>4, <3>1
    <3>2. CASE t.root # y
      <4>1. t.root # c
        <5>1. c # t.root \/ c = NIL
          BY SpliceNodes
        <5>2. t.root \in L
          BY <1>1 DEF Bst, Links
        <5> QED BY <1>1, <5>1, <5>2
      <4>2. t.root \in Nodes /\ t.parent[t.root] = NIL
        BY <1>1 DEF Bst, Links
      <4> QED BY <1>3, <1>4, <3>2, <4>1, <4>2
    <3> QED BY <3>1, <3>2
  <2>2. ASSUME NEW n \in L \ {y}, NEW r \in Sides, u.child[r][n] # NIL
        PROVE  u.parent[u.child[r][n]] = n
    <3>1. t.child[r][n] # NIL => t.parent[t.child[r][n]] = n
      BY <1>1 DEF Bst, Links
    <3>2. CASE t.child[r][n] = y
      BY <1>1, <1>2, <1>3, <1>4, <3>1, <3>2
    <3>3. CASE t.child[r][n] # y
      <4>1. u.child[r][n] = t.child[r][n] /\ t.child[r][n] \in Nodes /\ t.child[r][n] # NIL
        BY <1>3, <1>8, <2>2, <3>3
      <4>2. t.child[r][n] # c
        BY <1>2, <3>1, <4>1
      <4> QED BY <1>4, <3>1, <4>1, <4>2
    <3> QED BY <3>2, <3>3
  <2>3. \A r \in Sides : u.child[r][NIL] = NIL
    BY <1>1, <1>3 DEF Bst, Links
  <2> QED BY <1>7, <1>8, <2>1, <2>2, <2>3 DEF Links
<1> QED BY <1>4, <1>7, <1>8, <1>9, <1>10 DEF Bst

\* The loop after y left and c moved up.
SpliceLoop(t, y, c) ==
    IF IsRed(t, y) THEN NoLoop ELSE [at |-> "fixDelete", x |-> c, z |-> y]

\* z is out of the tree, and the loop is ready to run, if it has to.
Unlinked(t, l, V, H, z) ==
    /\ Bst(t, V) /\ z \in Values \ V[t.root] /\ LeftOut(t, V[t.root], z)
    /\ LoopOK(t, l, V[t.root]) /\ Heights(t, l, V[t.root], H) /\ Colored(t, l, V[t.root])
    /\ l = NoLoop \/ (l.at = "fixDelete" /\ l.z = z)

\* The sibling of a black node is no sentinel.
LEMMA SpliceSibling ==
    ASSUME NEW t, NEW U, NEW H, Fits(t, NoLoop, U, H),
           NEW y, NEW s, NEW c, CanSplice(t, U, y, s, c), ~IsRed(t, y),
           NEW n \in U[t.root], n # y, n = t.parent[y], NEW r \in Sides, t.child[r][n] # y
    PROVE  t.child[r][n] # c
<1> DEFINE L == U[t.root]
<1>1. Bst(t, U) /\ y \in L
  BY DEF CanSplice
<1>2. c # NIL => t.parent[c] = y
  BY SpliceNodes
<1>3. t.child[r][n] # NIL => t.parent[t.child[r][n]] = n
  BY <1>1 DEF Bst, Links
<1>4. ASSUME c = NIL, t.child[r][n] = NIL
      PROVE  FALSE
  <2>1. y # t.root
    <3>1. y = t.root => n = NIL
      BY <1>1 DEF Bst, Links
    <3> QED BY <3>1, <1>1, Below
  <2>2. PICK o \in Sides : t.child[o][n] = y
    BY <1>1, <2>1, HasParent
  <2>3. \A m \in L, q \in Sides : H[m] = H[t.child[q][m]] + Blacks(t, m)
    <3>1. \A m \in L, q \in Sides : ExtraAt(t, NoLoop, m, q) = 0
      BY DEF ExtraAt, NoLoop
    <3>2. \A m \in L, q \in Sides : H[t.child[q][m]] \in Nat
      BY <1>1, TreeTypes, Below DEF Fits, Heights, Bst
    <3> QED BY <3>1, <3>2 DEF Fits, Heights, Blacks
  <2>4. H[NIL] = 0 /\ H[y] \in Nat
    BY <1>1, Below DEF Fits, Heights
  <2>5. H[n] = Blacks(t, n) /\ H[n] = H[y] + Blacks(t, n)
    <3>1. H[n] = H[t.child[r][n]] + Blacks(t, n) /\ H[n] = H[t.child[o][n]] + Blacks(t, n)
      BY <2>3
    <3> QED BY <1>4, <2>2, <2>4, <3>1 DEF Blacks
  <2>6. H[y] = 1
    <3>1. PICK q \in Sides : t.child[q][y] = c
      BY SidesAre DEF CanSplice
    <3>2. H[y] = H[t.child[q][y]] + Blacks(t, y)
      BY <1>1, <2>3
    <3> QED BY <1>4, <2>4, <3>1, <3>2 DEF Blacks
  <2> QED BY <2>5, <2>6 DEF Blacks
<1> QED BY <1>2, <1>3, <1>4

LEMMA SplicedFits ==
    ASSUME NEW t, NEW U, NEW H, Fits(t, NoLoop, U, H),
           NEW y, NEW s, NEW c, CanSplice(t, U, y, s, c),
           NEW u, IsTransplanted(t, u, y, c), NEW l, l = SpliceLoop(t, y, c)
    PROVE  /\ Unlinked(u, l, Without(U, y), H, y)
           /\ Without(U, y)[u.root] = U[t.root] \ {y}
<1> DEFINE L == U[t.root]
           K == L \ {y}
<1>0. PICK V : V = Without(U, y)
  OBVIOUS
<1>1. Bst(u, V) /\ V[u.root] = K
  BY <1>0, SplicedIsBst
<1>2. /\ y \in Values /\ y \in Nodes /\ c \in Nodes /\ c \in K \cup {NIL} /\ c # y
      /\ (c # NIL => t.parent[c] = y) /\ (c # t.root \/ c = NIL)
      /\ t.parent[y] # y /\ (t.parent[y] # c \/ c = NIL)
  BY SpliceNodes
<1>3. /\ Bst(t, U) /\ y \in L /\ NIL \notin L /\ NIL \in Nodes /\ L \subseteq Nodes
      /\ \A r \in Sides : t.child[r][y] \in {NIL, c}
  <2>1. Bst(t, U) /\ y \in L
    BY DEF CanSplice
  <2>2. \A r \in Sides : t.child[r][y] \in {NIL, c}
    BY SidesAre DEF CanSplice
  <2> QED BY <2>1, <2>2, Below, TreeTypes DEF Bst
<1>4. /\ u.root = IF t.root = y THEN c ELSE t.root
      /\ t.parent[y] \in L \cup {NIL} /\ (t.parent[y] = NIL <=> t.root = y)
      /\ \A n \in Nodes \ L, r \in Sides : u.child[r][n] = t.child[r][n]
      /\ IsMovedUp(t, u, L, y, c)
  <2>1. IsMovedUp(t, u, L, y, c)
    BY <1>3, ReplacedChildren
  <2> QED BY <2>1 DEF IsMovedUp
<1>5. ASSUME NEW n \in L, NEW r \in Sides
      PROVE  /\ t.child[r][n] = y => u.child[r][n] = c
             /\ t.child[r][n] # y => u.child[r][n] = t.child[r][n]
             /\ t.child[r][n] \in L \cup {NIL}
             /\ t.child[r][n] # NIL => t.parent[t.child[r][n]] = n
  <2>1. /\ t.child[r][n] = y => u.child[r][n] = c
        /\ t.child[r][n] # y => u.child[r][n] = t.child[r][n]
    BY <1>4 DEF IsMovedUp
  <2> QED BY <1>3, <2>1 DEF Bst, Links
<1>6. u.color = t.color /\ \A n \in Nodes : u.parent[n] = IF n = c THEN t.parent[y] ELSE t.parent[n]
  BY DEF IsTransplanted
<1>7. \A n \in Nodes : Blacks(u, n) = Blacks(t, n) /\ (IsRed(u, n) <=> IsRed(t, n))
  BY <1>6 DEF Blacks, IsRed
<1>8. /\ IsRed(t, y) => l = NoLoop
      /\ ~IsRed(t, y) => l = [at |-> "fixDelete", x |-> c, z |-> y]
  BY DEF SpliceLoop
<1>9. Heights(u, l, K, H)
  <2>1. H \in [Nodes -> Nat] /\ H[NIL] = 0
    BY DEF Fits, Heights
  <2>2. ASSUME NEW n \in K, NEW r \in Sides
        PROVE  H[n] = H[u.child[r][n]] + ExtraAt(u, l, n, r) + Blacks(u, n)
    <3>1. \A m \in L, q \in Sides : H[m] = H[t.child[q][m]] + Blacks(t, m)
      <4>1. \A m \in L, q \in Sides : ExtraAt(t, NoLoop, m, q) = 0
        BY DEF ExtraAt, NoLoop
      <4>2. \A m \in L, q \in Sides : H[t.child[q][m]] \in Nat
        BY <1>3, <2>1, TreeTypes DEF Bst
      <4> QED BY <4>1, <4>2 DEF Fits, Heights, Blacks
    <3>2. CASE t.child[r][n] = y
      <4>1. H[n] = H[y] + Blacks(t, n) /\ u.child[r][n] = c /\ t.parent[y] = n
        BY <1>2, <1>3, <1>5, <3>1, <3>2
      <4>2. H[y] = H[c] + Blacks(t, y)
        <5>1. PICK q \in Sides : t.child[q][y] = c
          BY SidesAre DEF CanSplice
        <5> QED BY <1>3, <3>1, <5>1
      <4>3. ExtraAt(u, l, n, r) = Blacks(t, y)
        BY <1>2, <1>6, <1>8, <4>1 DEF ExtraAt, Blacks, NoLoop
      <4>4. H[c] \in Nat /\ Blacks(t, y) \in Nat /\ Blacks(t, n) \in Nat /\ n \in Nodes
        BY <1>2, <1>3, <2>1 DEF Blacks
      <4> QED BY <1>7, <4>1, <4>2, <4>3, <4>4
    <3>3. CASE t.child[r][n] # y
      <4>1. u.child[r][n] = t.child[r][n]
        BY <1>5, <3>3
      <4>2. ASSUME ~IsRed(t, y), t.child[r][n] = c, t.parent[y] = n
            PROVE  FALSE
        BY <3>3, <4>2, SpliceSibling
      <4>3. ExtraAt(u, l, n, r) = 0
        BY <1>2, <1>6, <1>8, <4>1, <4>2 DEF ExtraAt, NoLoop
      <4>4. H[t.child[r][n]] \in Nat /\ Blacks(t, n) \in Nat /\ n \in Nodes
        BY <1>3, <2>1, TreeTypes DEF Bst, Blacks
      <4> QED BY <1>7, <3>1, <4>1, <4>3, <4>4
    <3> QED BY <3>2, <3>3
  <2> QED BY <2>1, <2>2 DEF Heights
<1>10. Colored(u, l, K)
  <2>1. ~IsRed(t, NIL) /\ ~IsRed(t, t.root)
        /\ \A n \in L : ~(IsRed(t, n) /\ IsRed(t, t.parent[n]))
    BY DEF Fits, Colored, NoLoop
  <2>2. ASSUME NEW n \in K, IsRed(u, n), IsRed(u, u.parent[n])
        PROVE  l.at = "fixDelete" /\ l.x \in {n, u.parent[n]}
    <3>1. n \in Nodes /\ u.parent[n] \in Nodes
      BY <1>1, <1>3, TreeTypes DEF Bst
    <3>2. CASE n = c
      BY <1>2, <1>3, <1>7, <1>8, <2>1, <2>2, <3>1, <3>2
    <3>3. CASE n # c
      BY <1>6, <1>7, <2>1, <2>2, <3>1, <3>3
    <3> QED BY <3>2, <3>3
  <2>3. IsRed(u, u.root) => l.at # "none" /\ u.root = l.x
    <3>1. CASE t.root = y
      BY <1>4, <1>8, <2>1, <3>1
    <3>2. CASE t.root # y
      BY <1>3, <1>4, <1>7, <2>1, <3>2, TreeTypes DEF Bst
    <3> QED BY <3>1, <3>2
  <2> QED BY <1>3, <1>7, <2>1, <2>2, <2>3 DEF Colored
<1>11. LeftOut(u, K, y)
  <2>1. ASSUME NEW n \in Values \ K, NEW r \in Sides
        PROVE  u.child[r][n] \in IF n = y THEN K \cup {NIL} ELSE {NIL}
    <3>1. CASE n = y
      BY <1>2, <1>3, <1>5, <3>1
    <3>2. CASE n # y
      <4>1. n \in Nodes \ L /\ n # NIL /\ n \in Values \ L
        BY <3>2 DEF Nodes
      <4>2. t.child[r][n] = NIL
        BY <4>1 DEF Fits, LeftOut, NoLoop
      <4> QED BY <1>4, <3>2, <4>1, <4>2
    <3> QED BY <3>1, <3>2
  <2> QED BY <2>1 DEF LeftOut
<1>12. LoopOK(u, l, K)
  <2>1. CASE IsRed(t, y)
    BY <1>8, <2>1 DEF LoopOK
  <2>2. CASE ~IsRed(t, y)
    <3>1. l \in [at : {"fixDelete"}, x : K \cup {NIL}, z : Values \ K]
      BY <1>2, <1>8, <2>2
    <3>2. ASSUME c # u.root
          PROVE  InPlace(u, K, c)
      <4>1. t.root # y
        BY <1>4, <3>2
      <4>2. PICK p \in K : p = t.parent[y]
        BY <1>2, <1>4, <4>1
      <4>3. PICK r \in Sides : t.child[r][p] = y
        BY <1>3, <4>1, <4>2, HasParent
      <4>4. t.child[Other(r)][p] # y /\ Other(r) \in Sides
        <5>1. t.child[r][p] # NIL
          BY <1>3, <4>3
        <5>2. p \in L
          BY <4>2
        <5>3. t.child[Other(r)][p] # t.child[r][p]
          BY <1>3, <5>1, <5>2, ChildrenDiffer
        <5> QED BY <4>3, <5>3, SidesAre
      <4>5. t.child[Other(r)][p] # c
        BY <2>2, <4>2, <4>4, SpliceSibling
      <4>6. u.child[r][p] = c /\ u.child[Other(r)][p] # c /\ u.parent[c] = p
        BY <1>2, <1>5, <1>6, <4>2, <4>3, <4>4, <4>5
      <4> QED BY <4>2, <4>3, <4>6 DEF InPlace
    <3>3. l.x = c
      BY <1>8, <2>2
    <3> QED BY <3>1, <3>2, <3>3 DEF LoopOK
  <2> QED BY <2>1, <2>2
<1>13. l = NoLoop \/ (l.at = "fixDelete" /\ l.z = y)
  BY <1>8
<1>14. y \in Values \ K
  BY <1>2
<1>15. Unlinked(u, l, V, H, y)
  <2> HIDE DEF K, L
  <2> QED BY <1>1, <1>9, <1>10, <1>11, <1>12, <1>13, <1>14 DEF Unlinked
<1> QED BY <1>0, <1>1, <1>15

-----------------------------------------------------------------------------
(* erase(): a node takes the place of the one that leaves *)

\* y is what becomes of z.
Renamed(n, z, y) == IF n = z THEN y ELSE n

\* u is t, with nodes K, after y took the place of z.  The parent of c, which
\* may be the sentinel, counts as well.
IsRenamed(t, u, K, z, y, c) ==
    /\ TreeOK(u) /\ u.root = Renamed(t.root, z, y)
    /\ \A n \in K, r \in Sides : u.child[r][Renamed(n, z, y)] = Renamed(t.child[r][n], z, y)
    /\ \A n \in K \cup {c} : u.parent[Renamed(n, z, y)] = Renamed(t.parent[n], z, y)
    /\ \A n \in K : u.color[Renamed(n, z, y)] = t.color[n]
    /\ u.color[NIL] = t.color[NIL]
    /\ \A r \in Sides : u.child[r][NIL] = t.child[r][NIL]
    /\ \A n \in Values \ (K \cup {y}), r \in Sides : u.child[r][n] = t.child[r][n]
    /\ \A r \in Sides : u.child[r][z] \in (K \ {z}) \cup {y, NIL}

RenamedSet(S, z, y) == IF z \in S THEN (S \ {z}) \cup {y} ELSE S
RenamedSets(V, z, y) == [n \in Nodes |-> RenamedSet(V[Renamed(n, y, z)], z, y)]
RenamedHeights(H, z, y) == [H EXCEPT ![y] = H[z]]

\* What taking the place of z may rely on: y is on the same side of every
\* other node.
CanRename(t, V, z, y) ==
    /\ Bst(t, V) /\ z \in V[t.root] /\ y \in Values \ V[t.root]
    /\ \A n \in V[t.root], r \in Sides : \A m \in V[t.child[r][n]] :
          Before(r, Renamed(m, z, y), Renamed(n, z, y))

LEMMA RenamedIs ==
    ASSUME NEW z \in Values, NEW K \in SUBSET Values, z \in K, NEW y \in Values \ K
    PROVE  /\ \A n \in (K \ {z}) \cup {y} : \E m \in K : n = Renamed(m, z, y) /\ m = Renamed(n, y, z)
           /\ \A n \in K : Renamed(n, z, y) \in (K \ {z}) \cup {y}
           /\ \A n \in K \cup {NIL} : Renamed(Renamed(n, z, y), y, z) = n
           /\ \A n, m \in K \cup {NIL} : Renamed(n, z, y) = Renamed(m, z, y) => n = m
           /\ Renamed(NIL, z, y) = NIL /\ Renamed(NIL, y, z) = NIL
           /\ \A S \in SUBSET K : \A m : m \in RenamedSet(S, z, y) <=> \E n \in S : m = Renamed(n, z, y)
BY DEF Renamed, RenamedSet

LEMMA RenamedIsBst ==
    ASSUME NEW t, NEW V, NEW z, NEW y, CanRename(t, V, z, y),
           NEW c, NEW u, IsRenamed(t, u, V[t.root], z, y, c),
           NEW W, W = RenamedSets(V, z, y)
    PROVE  Bst(u, W) /\ W[u.root] = RenamedSet(V[t.root], z, y)
<1> DEFINE K == V[t.root]
           N == (K \ {z}) \cup {y}
           To(n) == Renamed(n, z, y)
           Set(S) == RenamedSet(S, z, y)
<1>1. /\ Bst(t, V) /\ z \in K /\ y \in Values /\ y \notin K /\ K \subseteq Values
      /\ K \subseteq Nodes /\ NIL \notin K /\ NIL \in Nodes /\ V \in [Nodes -> SUBSET Values]
      /\ V[NIL] = {} /\ y \in Nodes /\ z \in Values /\ z \in Nodes /\ y # NIL
  <2>1. Bst(t, V) /\ z \in K /\ y \in Values /\ y \notin K
    BY DEF CanRename
  <2>2. V \in [Nodes -> SUBSET Values] /\ V[NIL] = {} /\ t.root \in Nodes
    BY <2>1, TreeTypes DEF Bst, Shape
  <2> QED BY <2>1, <2>2 DEF Nodes
<1>2. /\ \A n \in N : \E m \in K : n = To(m)
      /\ \A n \in K : To(n) \in N
      /\ \A n \in K \cup {NIL} : Renamed(To(n), y, z) = n
      /\ \A n, m \in K \cup {NIL} : To(n) = To(m) => n = m
      /\ To(NIL) = NIL
      /\ \A S \in SUBSET K : \A m : m \in Set(S) <=> \E n \in S : m = To(n)
  BY <1>1, RenamedIs
<1>3. ASSUME NEW n \in K \cup {NIL}
      PROVE  To(n) \in Nodes /\ W[To(n)] = Set(V[n])
  <2>1. To(n) \in Nodes
    BY <1>1 DEF Renamed
  <2> QED BY <1>2, <2>1 DEF RenamedSets
<1>4. /\ t.root \in K /\ t.parent[t.root] = NIL
      /\ u.root = To(t.root)
      /\ \A n \in K, r \in Sides : u.child[r][To(n)] = To(t.child[r][n])
      /\ \A n \in K : u.parent[To(n)] = To(t.parent[n])
  BY <1>1 DEF Bst, Links, IsRenamed
<1>5. W[u.root] = N
  BY <1>1, <1>3, <1>4 DEF RenamedSet
<1>6. W \in [Nodes -> SUBSET Values]
  <2>1. ASSUME NEW n \in Nodes
        PROVE  RenamedSet(V[Renamed(n, y, z)], z, y) \in SUBSET Values
    <3>1. Renamed(n, y, z) \in Nodes
      BY <1>1 DEF Renamed
    <3>2. V[Renamed(n, y, z)] \in SUBSET Values
      BY <1>1, <3>1
    <3> QED BY <1>1, <3>2 DEF RenamedSet
  <2> QED BY <2>1 DEF RenamedSets
<1>7. ASSUME NEW n \in K, NEW r \in Sides
      PROVE  /\ t.child[r][n] \in K \cup {NIL}
             /\ W[u.child[r][To(n)]] = Set(V[t.child[r][n]])
             /\ V[n] \subseteq K /\ V[t.child[r][n]] \subseteq K
             /\ V[n] = {n} \cup V[t.child["left"][n]] \cup V[t.child["right"][n]]
  <2>1. /\ t.child[r][n] \in K \cup {NIL}
        /\ V[n] \subseteq K /\ V[t.child[r][n]] \subseteq V[n]
        /\ V[n] = {n} \cup V[t.child["left"][n]] \cup V[t.child["right"][n]]
    <3>1. V[n] = {n} \cup V[t.child["left"][n]] \cup V[t.child["right"][n]]
      BY <1>1 DEF Bst, Shape
    <3> QED BY <1>1, <3>1, Below
  <2> QED BY <1>3, <1>4, <2>1
<1>8. ASSUME NEW k \in N
      PROVE  /\ W[k] \subseteq N
             /\ W[k] = {k} \cup W[u.child["left"][k]] \cup W[u.child["right"][k]]
             /\ \A r \in Sides : \A m \in W[u.child[r][k]] : Before(r, m, k)
             /\ \A r \in Sides : u.child[r][k] \in N \cup {NIL}
             /\ \A r \in Sides : u.child[r][k] # NIL => u.parent[u.child[r][k]] = k
  <2>1. PICK n \in K : k = To(n)
    BY <1>2
  <2>2. W[k] = Set(V[n])
    BY <1>3, <2>1
  <2>3. \A r \in Sides : W[u.child[r][k]] = Set(V[t.child[r][n]])
    BY <1>7, <2>1
  <2>4. /\ V[n] \subseteq K
        /\ V[n] = {n} \cup V[t.child["left"][n]] \cup V[t.child["right"][n]]
    BY <1>7, SidesAre
  <2>5. W[k] \subseteq N
    BY <1>2, <2>2, <2>4
  <2>6. W[k] = {k} \cup W[u.child["left"][k]] \cup W[u.child["right"][k]]
    <3>1. PICK A, B : A = V[t.child["left"][n]] /\ B = V[t.child["right"][n]]
      OBVIOUS
    <3>2. W[u.child["left"][k]] = Set(A) /\ W[u.child["right"][k]] = Set(B)
      BY <2>3, <3>1, SidesAre
    <3>3. \A m : m \in Set({n} \cup A \cup B) <=> m = To(n) \/ m \in Set(A) \/ m \in Set(B)
      <4>1. A \subseteq K /\ B \subseteq K /\ {n} \cup A \cup B \subseteq K
        BY <2>4, <3>1
      <4> HIDE DEF K, To, Set
      <4> QED BY <1>2, <4>1
    <3>4. W[k] = Set({n} \cup A \cup B)
      BY <2>2, <2>4, <3>1
    <3> HIDE DEF Set, To
    <3> QED BY <2>1, <3>2, <3>3, <3>4
  <2>7. ASSUME NEW r \in Sides, NEW m \in W[u.child[r][k]]
        PROVE  Before(r, m, k)
    <3>1. PICK a \in V[t.child[r][n]] : m = To(a)
      BY <1>2, <1>7, <2>3, <2>7
    <3> QED BY <2>1, <3>1 DEF CanRename
  <2>8. ASSUME NEW r \in Sides
        PROVE  /\ u.child[r][k] \in N \cup {NIL}
               /\ u.child[r][k] # NIL => u.parent[u.child[r][k]] = k
    <3>1. PICK a \in K \cup {NIL} : a = t.child[r][n] /\ u.child[r][k] = To(a)
      BY <1>4, <1>7, <2>1
    <3>2. a # NIL => t.parent[a] = n
      BY <1>1, <3>1 DEF Bst, Links
    <3> QED BY <1>2, <1>4, <2>1, <3>1, <3>2
  <2> QED BY <2>5, <2>6, <2>7, <2>8
<1>9. IsFiniteSet(N)
  <2>1. IsFiniteSet(K)
    BY <1>1 DEF Bst, Shape
  <2>2. IsFiniteSet(K \ {z})
    BY <2>1, FS_RemoveElement
  <2> QED BY <2>2, FS_AddElement
<1>10. W[NIL] = {}
  <2>1. W[To(NIL)] = Set(V[NIL])
    BY <1>3
  <2> QED BY <1>1, <1>2, <2>1 DEF RenamedSet
<1>11. Shape(u, W)
  <2> HIDE DEF N
  <2> QED BY <1>5, <1>6, <1>8, <1>9, <1>10 DEF Shape
<1>12. Links(u, N)
  <2>1. u.root \in N /\ u.parent[u.root] = NIL
    BY <1>2, <1>4
  <2>2. \A r \in Sides : u.child[r][NIL] = NIL
    BY <1>1 DEF IsRenamed, Bst, Links
  <2> HIDE DEF N
  <2> QED BY <1>8, <2>1, <2>2 DEF Links
<1>13. TreeOK(u)
  BY DEF IsRenamed
<1>14. N = RenamedSet(K, z, y)
  BY <1>1 DEF RenamedSet
<1> QED BY <1>5, <1>11, <1>12, <1>13, <1>14 DEF Bst

\* The loop that releases z after it.
LoopFor(l, z) == IF l = NoLoop THEN NoLoop ELSE [l EXCEPT !.z = z]

LEMMA RenamedFits ==
    ASSUME NEW t, NEW l, NEW V, NEW H, NEW y, Unlinked(t, l, V, H, y),
           NEW z, CanRename(t, V, z, y), NEW c, c # z, l.at = "fixDelete" => l.x = c,
           NEW u, IsRenamed(t, u, V[t.root], z, y, c),
           NEW k, k = LoopFor(l, z)
    PROVE  /\ Unlinked(u, k, RenamedSets(V, z, y), RenamedHeights(H, z, y), z)
           /\ RenamedSets(V, z, y)[u.root] = RenamedSet(V[t.root], z, y)
<1> DEFINE K == V[t.root]
           N == (K \ {z}) \cup {y}
           To(n) == Renamed(n, z, y)
           G == RenamedHeights(H, z, y)
<1>1. PICK W : W = RenamedSets(V, z, y)
  OBVIOUS
<1>2. Bst(u, W) /\ W[u.root] = N
  <2>1. Bst(u, W)
    BY ONLY <1>1, CanRename(t, V, z, y), IsRenamed(t, u, V[t.root], z, y, c), RenamedIsBst
  <2>2. W[u.root] = RenamedSet(V[t.root], z, y)
    BY ONLY <1>1, CanRename(t, V, z, y), IsRenamed(t, u, V[t.root], z, y, c), RenamedIsBst
  <2>3. z \in V[t.root]
    BY DEF CanRename
  <2> QED BY <2>1, <2>2, <2>3 DEF RenamedSet
<1>3. /\ Bst(t, V) /\ z \in K /\ y \in Values /\ y \notin K /\ K \subseteq Values
      /\ K \subseteq Nodes /\ NIL \notin K /\ NIL \in Nodes
      /\ y \in Nodes /\ z \in Values /\ z \in Nodes /\ y # NIL /\ y # z
  <2>1. Bst(t, V) /\ z \in K /\ y \in Values /\ y \notin K
    BY DEF CanRename
  <2>2. V \in [Nodes -> SUBSET Values] /\ t.root \in Nodes
    BY <2>1, TreeTypes DEF Bst, Shape
  <2> QED BY <2>1, <2>2 DEF Nodes
<1>4. /\ \A n \in N : \E m \in K : n = To(m)
      /\ \A n \in K : To(n) \in N
      /\ \A n, m \in K \cup {NIL} : To(n) = To(m) => n = m
      /\ To(NIL) = NIL
  BY <1>3 DEF Renamed
<1>5. /\ t.root \in K /\ t.parent[t.root] = NIL /\ u.root = To(t.root)
      /\ \A n \in K, r \in Sides : u.child[r][To(n)] = To(t.child[r][n])
      /\ \A n \in K \cup {c} : u.parent[To(n)] = To(t.parent[n])
      /\ \A n \in K \cup {NIL} : u.color[To(n)] = t.color[n]
  BY <1>3, <1>4 DEF Bst, Links, IsRenamed
<1>6. \A n \in K \cup {NIL} : /\ IsRed(u, To(n)) <=> IsRed(t, n)
                              /\ Blacks(u, To(n)) = Blacks(t, n)
  BY <1>5 DEF IsRed, Blacks
<1>7. \/ l = NoLoop
      \/ /\ l \in [at : {"fixDelete"}, x : K \cup {NIL}, z : Values \ K] /\ l.x = c
         /\ c \in K \cup {NIL}
         /\ l.z = y /\ (l.x # t.root => InPlace(t, K, l.x))
  BY DEF Unlinked, LoopOK, NoLoop
<1>8. \/ l = NoLoop /\ k = NoLoop
      \/ /\ l = [at |-> "fixDelete", x |-> c, z |-> y] /\ k = [at |-> "fixDelete", x |-> c, z |-> z]
         /\ c \in K \cup {NIL} /\ (c # t.root => InPlace(t, K, c))
  BY <1>7 DEF NoLoop, LoopFor
<1>9. c \in K \cup {NIL} => To(c) = c
  BY DEF Renamed
<1>10. ASSUME l # NoLoop
       PROVE  t.parent[c] \in K \cup {NIL} /\ u.parent[c] = To(t.parent[c])
  <2>1. t.parent[c] \in K \cup {NIL}
    BY <1>5, <1>8, <1>10 DEF InPlace
  <2> QED BY <1>5, <1>8, <1>9, <1>10, <2>1
<1>11. \A n \in K, r \in Sides : t.child[r][n] \in K \cup {NIL}
  BY <1>3 DEF Bst, Links
<1>12. ASSUME NEW n \in K, NEW r \in Sides
       PROVE  ExtraAt(u, k, To(n), r) = ExtraAt(t, l, n, r)
  <2>1. CASE l = NoLoop
    BY <1>8, <2>1 DEF ExtraAt, NoLoop
  <2>2. CASE l # NoLoop
    <3>1. l.at = "fixDelete" /\ k.at = "fixDelete" /\ k.x = c /\ l.x = c /\ c \in K \cup {NIL}
      BY <1>8, <2>2
    <3>2. u.child[r][To(n)] = c <=> t.child[r][n] = c
      BY <1>4, <1>5, <1>9, <1>11, <3>1
    <3>3. u.parent[c] = To(n) <=> t.parent[c] = n
      BY <1>4, <1>10, <2>2
    <3> QED BY <3>1, <3>2, <3>3 DEF ExtraAt
  <2> QED BY <2>1, <2>2
<1>13. Heights(u, k, N, G)
  <2>1. H \in [Nodes -> Nat] /\ H[NIL] = 0
    BY DEF Unlinked, Heights
  <2>2. G \in [Nodes -> Nat] /\ \A n \in K \cup {NIL} : G[To(n)] = H[n]
    BY <1>3, <2>1 DEF RenamedHeights, Renamed
  <2>3. G[NIL] = 0
    BY <1>4, <2>1, <2>2
  <2>4. ASSUME NEW m \in N, NEW r \in Sides
        PROVE  G[m] = G[u.child[r][m]] + ExtraAt(u, k, m, r) + Blacks(u, m)
    <3>1. PICK n \in K : m = To(n)
      BY <1>4
    <3>2. H[n] = H[t.child[r][n]] + ExtraAt(t, l, n, r) + Blacks(t, n)
      BY DEF Unlinked, Heights
    <3>3. G[u.child[r][m]] = H[t.child[r][n]] /\ G[m] = H[n] /\ Blacks(u, m) = Blacks(t, n)
      BY <1>5, <1>6, <1>11, <2>2, <3>1
    <3> HIDE DEF G, To
    <3> QED BY <1>12, <3>1, <3>2, <3>3
  <2> HIDE DEF G, N
  <2> QED BY <2>2, <2>3, <2>4 DEF Heights
<1>14. Colored(u, k, N)
  <2>1. ~IsRed(t, NIL) /\ (IsRed(t, t.root) => l.at # "none" /\ t.root = l.x)
    BY DEF Unlinked, Colored
  <2>2. ~IsRed(u, NIL)
    BY <1>4, <1>6, <2>1
  <2>3. IsRed(u, u.root) => k.at # "none" /\ u.root = k.x
    <3>1. IsRed(u, u.root) <=> IsRed(t, t.root)
      BY <1>5, <1>6
    <3>2. IsRed(t, t.root) => l # NoLoop /\ t.root = c
      BY <1>8, <2>1 DEF NoLoop
    <3> QED BY <1>5, <1>8, <1>9, <3>1, <3>2
  <2>4. ASSUME NEW m \in N, IsRed(u, m), IsRed(u, u.parent[m])
        PROVE  k.at = "fixDelete" /\ k.x \in {m, u.parent[m]}
    <3>1. PICK n \in K : m = To(n)
      BY <1>4
    <3>2. t.parent[n] \in K \cup {NIL}
      <4>1. n # t.root => t.parent[n] \in K
        BY <1>3, HasParent
      <4> QED BY <1>5, <4>1
    <3>3. u.parent[m] = To(t.parent[n]) /\ IsRed(t, n) /\ IsRed(t, t.parent[n])
      BY <1>5, <1>6, <2>4, <3>1, <3>2
    <3>4. l # NoLoop /\ c \in {n, t.parent[n]}
      <4>1. l.at # "none" /\ l.x \in {n, t.parent[n]}
        BY <1>7, <3>3 DEF Unlinked, Colored, NoLoop
      <4> QED BY <1>7, <4>1 DEF NoLoop
    <3> QED BY <1>8, <1>9, <3>1, <3>3, <3>4
  <2> HIDE DEF N
  <2> QED BY <2>2, <2>3, <2>4 DEF Colored
<1>15. LeftOut(u, N, z)
  <2>1. ASSUME NEW n \in Values \ N, NEW r \in Sides
        PROVE  u.child[r][n] \in IF n = z THEN N \cup {NIL} ELSE {NIL}
    <3>1. CASE n = z
      BY <3>1 DEF IsRenamed
    <3>2. CASE n # z
      <4>1. n \in Values \ (K \cup {y}) /\ n \in Values \ K /\ n # y
        BY <3>2
      <4>2. t.child[r][n] = NIL
        BY <4>1 DEF Unlinked, LeftOut
      <4>3. u.child[r][n] = t.child[r][n]
        BY <4>1 DEF IsRenamed
      <4> QED BY <3>2, <4>2, <4>3
    <3> QED BY <3>1, <3>2
  <2> QED BY <2>1 DEF LeftOut
<1>16. LoopOK(u, k, N)
  <2>1. CASE l = NoLoop
    <3>1. k = NoLoop
      BY <1>8, <2>1 DEF NoLoop
    <3> QED BY <3>1 DEF LoopOK
  <2>2. CASE l # NoLoop
    <3>1. c \in N \cup {NIL} /\ z \in Values \ N
      BY <1>3, <1>8, <2>2
    <3>2. ASSUME c # u.root
          PROVE  InPlace(u, N, c)
      <4>1. c # t.root
        BY <1>5, <1>8, <1>9, <2>2, <3>2
      <4>2. PICK p \in K, r \in Sides : p = t.parent[c] /\ t.child[r][p] = c /\ t.child[Other(r)][p] # c
        BY <1>8, <2>2, <4>1 DEF InPlace
      <4>3. u.parent[c] = To(p) /\ To(p) \in N
        BY <1>4, <1>10, <2>2, <4>2
      <4>4. u.child[r][To(p)] = c
        BY <1>5, <1>8, <1>9, <2>2, <4>2
      <4>5. u.child[Other(r)][To(p)] # c
        <5>1. Other(r) \in Sides
          BY SidesAre
        <5>2. u.child[Other(r)][To(p)] = To(t.child[Other(r)][p]) /\ t.child[Other(r)][p] \in K \cup {NIL}
          BY <1>5, <1>11, <4>2, <5>1
        <5> QED BY <1>4, <1>8, <1>9, <2>2, <4>2, <5>2
      <4> QED BY <4>3, <4>4, <4>5 DEF InPlace
    <3>3. k = [at |-> "fixDelete", x |-> c, z |-> z]
      BY <1>8, <2>2
    <3>4. k \in [at : {"fixDelete"}, x : N \cup {NIL}, z : Values \ N] /\ k.x = c
      BY <3>1, <3>3
    <3> QED BY <3>2, <3>4 DEF LoopOK
  <2> QED BY <2>1, <2>2
<1>17. k = NoLoop \/ (k.at = "fixDelete" /\ k.z = z)
  BY <1>8
<1>18. z \in Values \ N
  BY <1>3
<1>19. Unlinked(u, k, W, G, z)
  <2> HIDE DEF N, G
  <2> QED BY <1>2, <1>13, <1>14, <1>15, <1>16, <1>17, <1>18 DEF Unlinked
<1>20. N = RenamedSet(K, z, y)
  BY <1>3 DEF RenamedSet
<1> QED BY <1>1, <1>2, <1>19, <1>20

\* i is t after y, which is outside, took the right child of z.
IsIsolated(t, i, K, z, y) ==
    /\ TreeOK(i) /\ i.root = t.root /\ i.color = t.color
    /\ \A n \in Nodes \ {z}, r \in Sides :
          i.child[r][n] = IF n = y /\ r = "right" THEN t.child["right"][z] ELSE t.child[r][n]
    /\ i.child["left"][z] = t.child["left"][z]
    /\ i.child["right"][z] \in (K \ {z}) \cup {y, NIL}
    /\ \A n \in Nodes : i.parent[n] = IF n = t.child["right"][z] THEN y ELSE t.parent[n]

LEMMA TakesPlace ==
    ASSUME NEW t, NEW V, Bst(t, V), NEW z \in V[t.root], NEW y \in Values \ V[t.root],
           NEW i, IsIsolated(t, i, V[t.root], z, y), t.child["left"][z] # NIL,
           NEW c, c = NIL => (t.parent[NIL] = z <=> t.child["right"][z] = NIL),
           c \in V[t.root] \cup {NIL},
           NEW j, j = transplant(i, z, y),
           NEW u, u = Paint(Attach(j, y, "left", j.child["left"][z]), y, t.color[z])
    PROVE  IsRenamed(t, u, V[t.root], z, y, c)
<1> DEFINE K == V[t.root]
<1>1. /\ NIL \notin K /\ K \subseteq Nodes /\ NIL \in Nodes /\ y \in Nodes /\ z \in Nodes
      /\ y # NIL /\ y # z /\ z # NIL /\ TreeOK(t) /\ TreeOK(i)
      /\ "left" \in Sides /\ "right" \in Sides
  <2>1. TreeOK(t) /\ TreeOK(i)
    BY DEF Bst, IsIsolated
  <2>2. y \in Nodes /\ NIL \in Nodes
    BY DEF Nodes
  <2>3. K \subseteq Nodes /\ NIL \notin K
    BY Below
  <2> QED BY <2>1, <2>2, <2>3, SidesAre
<1>2. PICK p \in K \cup {NIL}, q \in Sides :
         /\ p = t.parent[z] /\ q = SideOf(t, z) /\ (p = NIL <=> t.root = z)
         /\ p # NIL => t.child[q][p] = z /\ t.child[Other(q)][p] # z
  <2>1. SideOf(t, z) \in Sides
    BY DEF SideOf, Sides
  <2>2. CASE t.root = z
    <3>1. t.parent[z] = NIL
      BY <1>1, <2>2 DEF Bst, Links
    <3> QED BY <2>1, <2>2, <3>1
  <2>3. CASE t.root # z
    <3>1. t.parent[z] \in K /\ t.child[SideOf(t, z)][t.parent[z]] = z
      BY <2>3, HasParent
    <3>2. t.child[Other(SideOf(t, z))][t.parent[z]] # t.child[SideOf(t, z)][t.parent[z]]
      BY <1>1, <2>1, <3>1, ChildrenDiffer
    <3> QED BY <1>1, <2>1, <2>3, <3>1, <3>2
  <2> QED BY <2>2, <2>3
<1>3. PICK a \in K, b \in K \cup {NIL} :
         /\ a = t.child["left"][z] /\ b = t.child["right"][z] /\ a # b /\ a # z /\ b # z
         /\ t.parent[a] = z /\ (b # NIL => t.parent[b] = z) /\ p # z
         /\ p # a
  <2>1. \A r \in Sides : /\ t.child[r][z] \in K \cup {NIL}
                         /\ t.child[r][z] # NIL => /\ t.child[r][z] # z
                                                   /\ t.parent[t.child[r][z]] = z
                                                   /\ t.parent[z] # t.child[r][z]
    <3>1. \A r \in Sides : t.child[r][z] \in K \cup {NIL}
      BY Below
    <3>2. ASSUME NEW r \in Sides, t.child[r][z] # NIL
          PROVE  t.child[r][z] # z /\ t.parent[t.child[r][z]] = z /\ t.parent[z] # t.child[r][z]
      BY <3>2, ChildIsNew
    <3> QED BY <3>1, <3>2
  <2>2. t.child["left"][z] # t.child["right"][z]
    BY <1>1, ChildrenDiffer DEF Other
  <2>3. p # z
    <3>1. CASE p = NIL
      BY <1>1, <3>1
    <3>2. CASE p # NIL
      <4>1. p \in K /\ t.child[q][p] # NIL /\ t.child[q][p] = z
        BY <1>1, <1>2, <3>2
      <4>2. t.child[q][p] # p
        BY <4>1, ChildIsNew
      <4> QED BY <4>1, <4>2
    <3> QED BY <3>1, <3>2
  <2> QED BY <1>1, <1>2, <2>1, <2>2, <2>3
<1>4. i.parent[z] = p /\ (p # NIL => SideOf(i, z) = q)
  <2>1. i.parent[z] = p
    BY <1>1, <1>2, <1>3 DEF IsIsolated
  <2>2. ASSUME p # NIL
        PROVE  SideOf(i, z) = q
    <3>1. i.child["left"][p] = t.child["left"][p]
      <4>1. p \in Nodes /\ p # y /\ p # z
        BY <1>1, <1>2, <1>3, <2>2
      <4> QED BY <1>1, <4>1 DEF IsIsolated
    <3> QED BY <1>2, <2>1, <3>1 DEF SideOf
  <2> QED BY <2>1, <2>2
<1>5. IsTransplanted(i, j, z, y)
  BY <1>1, transplantIs
<1>6. /\ TreeOK(j) /\ j.color = t.color /\ j.root = Renamed(t.root, z, y)
      /\ \A n \in Nodes, r \in Sides :
            j.child[r][n] = IF p # NIL /\ r = q /\ n = p THEN y ELSE i.child[r][n]
      /\ \A n \in Nodes : j.parent[n] = IF n = y THEN p ELSE i.parent[n]
  <2>1. i.color = t.color /\ i.root = t.root
    BY DEF IsIsolated
  <2> QED BY <1>2, <1>4, <1>5, <2>1 DEF IsTransplanted, Renamed
<1>7. j.child["left"][z] = a
  BY <1>1, <1>3, <1>6 DEF IsIsolated
<1>8. PICK v : v = Attach(j, y, "left", a) /\ IsAttached(j, v, y, "left", a, TRUE)
  <2>1. a \in Nodes
    BY <1>1
  <2> QED BY <1>1, <1>6, <2>1, AttachIs
<1>9. IsPainted(v, u, y, t.color[z]) /\ TreeOK(u)
  <2>1. t.color[z] \in Colors
    BY <1>1, TreeTypes
  <2>2. TreeOK(v)
    BY <1>8 DEF IsAttached
  <2>3. u = Paint(v, y, t.color[z])
    BY <1>7, <1>8
  <2> QED BY <1>1, <2>1, <2>2, <2>3, IsPaintedBy
<1>10. /\ u.root = Renamed(t.root, z, y)
       /\ \A n \in Nodes \ {y, z}, r \in Sides :
             u.child[r][n] = IF p # NIL /\ r = q /\ n = p THEN y ELSE t.child[r][n]
       /\ u.child["left"][y] = a /\ u.child["right"][y] = b
       /\ \A r \in Sides : u.child[r][z] = i.child[r][z]
       /\ \A n \in Nodes : u.parent[n] = IF n = a THEN y ELSE IF n = y THEN p
                                         ELSE IF n = b THEN y ELSE t.parent[n]
       /\ \A n \in Nodes : u.color[n] = IF n = y THEN t.color[z] ELSE t.color[n]
  <2>1. u.root = v.root /\ u.child = v.child /\ u.parent = v.parent
        /\ \A n \in Nodes : u.color[n] = IF n = y THEN t.color[z] ELSE v.color[n]
    BY <1>9 DEF IsPainted, SameLinks
  <2>2. /\ v.root = j.root /\ v.color = j.color
        /\ \A n \in Nodes, r \in Sides :
              v.child[r][n] = IF r = "left" /\ n = y THEN a ELSE j.child[r][n]
        /\ \A n \in Nodes : v.parent[n] = IF n = a THEN y ELSE j.parent[n]
    BY <1>8 DEF IsAttached
  <2>3. /\ \A n \in Nodes \ {z}, r \in Sides :
              i.child[r][n] = IF n = y /\ r = "right" THEN b ELSE t.child[r][n]
        /\ \A n \in Nodes : i.parent[n] = IF n = b THEN y ELSE t.parent[n]
    BY <1>3 DEF IsIsolated
  <2>4. p # y /\ "left" # "right"
    BY <1>1
  <2>5. \A n \in Nodes \ {y, z}, r \in Sides :
             u.child[r][n] = IF p # NIL /\ r = q /\ n = p THEN y ELSE t.child[r][n]
    BY <1>6, <2>1, <2>2, <2>3
  <2>6. u.child["left"][y] = a /\ u.child["right"][y] = b
    BY <1>1, <1>6, <2>1, <2>2, <2>3, <2>4
  <2>7. \A r \in Sides : u.child[r][z] = i.child[r][z]
    BY <1>1, <1>3, <1>6, <2>1, <2>2
  <2>8. \A n \in Nodes : u.parent[n] = IF n = a THEN y ELSE IF n = y THEN p
                                       ELSE IF n = b THEN y ELSE t.parent[n]
    BY <1>6, <2>1, <2>2, <2>3
  <2>9. u.root = Renamed(t.root, z, y)
    BY <1>6, <2>1, <2>2
  <2>10. \A n \in Nodes : u.color[n] = IF n = y THEN t.color[z] ELSE t.color[n]
    BY <1>6, <2>1, <2>2
  <2> QED BY <2>5, <2>6, <2>7, <2>8, <2>9, <2>10
<1>11. ASSUME NEW n \in K, NEW r \in Sides
       PROVE  u.child[r][Renamed(n, z, y)] = Renamed(t.child[r][n], z, y)
  <2>1. CASE n = z
    <3>1. r = "left" \/ r = "right"
      BY DEF Sides
    <3> QED BY <1>3, <1>10, <2>1, <3>1 DEF Renamed
  <2>2. CASE n # z
    <3>1. n \in Nodes \ {y, z}
      BY <1>1, <2>2
    <3>2. t.child[r][n] = z <=> p # NIL /\ r = q /\ n = p
      <4>1. t.child[r][n] = z => p = n /\ p # NIL
        BY <1>1, <1>2 DEF Bst, Links
      <4> QED BY <1>2, <4>1, SidesAre
    <3> QED BY <1>10, <2>2, <3>1, <3>2 DEF Renamed
  <2> QED BY <2>1, <2>2
<1>12. ASSUME NEW n \in K \cup {c}
       PROVE  u.parent[Renamed(n, z, y)] = Renamed(t.parent[n], z, y)
  <2>1. CASE n = z
    BY <1>1, <1>2, <1>3, <1>10, <2>1 DEF Renamed
  <2>2. CASE n = NIL
    <3>1. c = NIL /\ a # NIL /\ y # NIL
      BY <1>1, <1>3, <2>2
    <3>2. u.parent[NIL] = IF b = NIL THEN y ELSE t.parent[NIL]
      BY <1>1, <1>10, <3>1
    <3> QED BY <1>1, <1>3, <2>2, <3>1, <3>2 DEF Renamed
  <2>3. CASE n \in K /\ n # z
    <3>1. t.parent[n] = z <=> n \in {a, b}
      <4>1. ASSUME t.parent[n] = z
            PROVE  n \in {a, b}
        <5>1. n # t.root
          BY <1>1, <4>1 DEF Bst, Links
        <5>2. n = t.child["left"][z] \/ n = t.child[Other("left")][z]
          BY <1>1, <2>3, <4>1, <5>1, IsChildOfParent
        <5> QED BY <1>3, <5>2 DEF Other
      <4> QED BY <1>1, <1>3, <2>3, <4>1
    <3>2. n # y /\ n \in Nodes
      BY <1>1, <2>3
    <3> QED BY <1>10, <2>3, <3>1, <3>2 DEF Renamed
  <2> QED BY <2>1, <2>2, <2>3
<1>13. (\A n \in K : u.color[Renamed(n, z, y)] = t.color[n]) /\ u.color[NIL] = t.color[NIL]
  BY <1>1, <1>10 DEF Renamed
<1>14. \A r \in Sides : u.child[r][NIL] = t.child[r][NIL]
  BY <1>1, <1>10
<1>15. \A n \in Values \ (K \cup {y}), r \in Sides : u.child[r][n] = t.child[r][n]
  <2>1. \A n \in Values \ (K \cup {y}) : n \in Nodes \ {y, z} /\ n # p
    BY <1>1, <1>2 DEF Nodes
  <2> QED BY <1>10, <2>1
<1>16. \A r \in Sides : u.child[r][z] \in (K \ {z}) \cup {y, NIL}
  <2>1. u.child["left"][z] = a /\ u.child["right"][z] \in (K \ {z}) \cup {y, NIL}
    BY <1>1, <1>3, <1>10 DEF IsIsolated
  <2>2. a \in (K \ {z}) \cup {y, NIL}
    BY <1>3
  <2> QED BY <2>1, <2>2 DEF Sides
<1> QED BY <1>9, <1>10, <1>11, <1>12, <1>13, <1>14, <1>15, <1>16 DEF IsRenamed

\* z has two children, and y, which is the next node after it, has c.
HasSuccessor(t, U, z, y, c) ==
    /\ Bst(t, U) /\ Outside(t, U[t.root]) /\ z \in U[t.root]
    /\ t.child["left"][z] # NIL /\ t.child["right"][z] # NIL
    /\ y = Most(t, "left", t.child["right"][z]) /\ c = t.child["right"][y]

LEMMA SuccessorIs ==
    ASSUME NEW t, NEW U, NEW z, NEW y, NEW c, HasSuccessor(t, U, z, y, c)
    PROVE  /\ IsEnd(U[t.child["right"][z]], "left", y) /\ CanSplice(t, U, y, "left", c)
           /\ y \in U[z] /\ y # z /\ c # z /\ y # t.child["left"][z]
           /\ y # t.root /\ (t.parent[y] = z <=> t.child["right"][z] = y)
<1>1. PICK b \in U[t.root] : b = t.child["right"][z] /\ b # NIL
  BY SidesAre, Below DEF HasSuccessor
<1>2. Bst(t, U) /\ z \in U[t.root] /\ IsEnd(U[b], "left", y)
  BY <1>1, MostIs, SidesAre DEF HasSuccessor
<1>3. /\ y \in U[b] /\ U[b] \subseteq U[z] /\ z \notin U[b] /\ U[z] \subseteq U[t.root]
      /\ U[b] \subseteq U[t.root] /\ U[t.child["left"][z]] \cap U[b] = {}
      /\ t.child["left"][z] \in U[t.child["left"][z]]
  <2>1. y \in U[b]
    BY <1>2 DEF IsEnd
  <2>2. /\ U[t.child["right"][z]] \subseteq U[z] /\ z \notin U[t.child["right"][z]]
        /\ U[z] \subseteq U[t.root]
        /\ U[t.child["right"][z]] \cap U[t.child[Other("right")][z]] = {}
    BY <1>2, SidesAre, Below
  <2>3. t.child["left"][z] \in U[t.root]
    BY <1>2, SidesAre, Below DEF HasSuccessor
  <2>4. t.child["left"][z] \in U[t.child["left"][z]]
    BY <1>2, <2>3, Below
  <2> QED BY <1>1, <2>1, <2>2, <2>4 DEF Other
<1>4. y \in U[t.root] /\ U[y] \subseteq U[b]
  BY <1>1, <1>2, <1>3, SubtreesNest
<1>5. t.child["left"][y] = NIL
  <2>1. ASSUME t.child["left"][y] # NIL
        PROVE  FALSE
    <3>1. PICK m \in U[t.root] : m = t.child["left"][y] /\ m \in U[m] /\ U[m] \subseteq U[y]
      <4>1. t.child["left"][y] \in U[t.root] /\ U[t.child["left"][y]] \subseteq U[y]
        BY <1>2, <1>4, <2>1, SidesAre, Below
      <4>2. t.child["left"][y] \in U[t.child["left"][y]]
        BY <1>2, <4>1, Below
      <4> QED BY <4>1, <4>2
    <3>2. Before("left", m, y) /\ m \in Values /\ y \in Values
      <4>1. Before("left", m, y)
        BY <1>2, <1>4, <3>1, SidesAre DEF Bst, Shape
      <4> QED BY <1>2, <1>4, <3>1, <4>1, Below
    <3>3. m = y \/ Before("left", y, m)
      BY <1>2, <1>4, <3>1 DEF IsEnd
    <3> QED BY <3>2, <3>3 DEF Before
  <2> QED BY <2>1
<1>6. CanSplice(t, U, y, "left", c)
  BY <1>2, <1>4, <1>5, SidesAre DEF CanSplice, HasSuccessor, Other
<1>7. c # z
  <2>1. U[y] = {y} \cup U[c] /\ (c \in U[t.root] \cup {NIL})
    BY <1>6, SpliceNodes
  <2>2. c \in U[t.root] => c \in U[c]
    BY <1>2, Below
  <2> QED BY <1>2, <1>3, <1>4, <2>1, <2>2
<1>8. y # t.root
  <2>1. t.root \in U[t.root] /\ U[t.root] \subseteq U[t.root]
    BY <1>2 DEF Bst, Links
  <2>2. z \in U[y] => FALSE
    BY <1>3, <1>4
  <2> QED BY <1>2, <2>2
<1>9. t.parent[y] = z <=> t.child["right"][z] = y
  <2>1. t.child["right"][z] = y => t.parent[y] = z
    BY <1>1, <1>2, SidesAre DEF Bst, Links
  <2>2. ASSUME t.parent[y] = z
        PROVE  t.child["right"][z] = y
    <3>1. y = t.child["left"][z] \/ y = t.child[Other("left")][z]
      BY <1>2, <1>4, <1>8, <2>2, SidesAre, IsChildOfParent
    <3> QED BY <1>3, <3>1 DEF Other
  <2> QED BY <2>1, <2>2
<1> QED BY <1>1, <1>2, <1>3, <1>6, <1>7, <1>8, <1>9

LEMMA SuccessorRenames ==
    ASSUME NEW t, NEW U, NEW z, NEW y, NEW c, HasSuccessor(t, U, z, y, c),
           NEW u, IsTransplanted(t, u, y, c)
    PROVE  CanRename(u, Without(U, y), z, y)
<1> DEFINE L == U[t.root]
<1>0. PICK V : V = Without(U, y)
  OBVIOUS
<1>1. /\ IsEnd(U[t.child["right"][z]], "left", y) /\ CanSplice(t, U, y, "left", c)
      /\ y \in U[z] /\ y # z
  BY SuccessorIs
<1>2. Bst(t, U) /\ z \in L /\ y \in L /\ L \subseteq Values
  BY <1>1, Below DEF HasSuccessor, CanSplice
<1>3. /\ Bst(u, V) /\ V[u.root] = L \ {y}
      /\ \A n \in L \ {y}, r \in Sides : V[u.child[r][n]] = U[t.child[r][n]] \ {y}
  BY <1>0, <1>1, SplicedIsBst
<1>4. ASSUME NEW n \in L \ {y}, NEW r \in Sides, NEW m \in U[t.child[r][n]] \ {y}
      PROVE  Before(r, Renamed(m, z, y), Renamed(n, z, y))
  <2>1. /\ Before(r, m, n) /\ U[t.child[r][n]] \subseteq L /\ n \in Values /\ m \in Values
        /\ U[n] \subseteq L /\ n \notin U[t.child[r][n]]
    BY <1>2, Below DEF Bst, Shape
  <2>2. CASE n # z /\ m # z
    BY <2>1, <2>2 DEF Renamed
  <2>3. CASE n = z
    <3>1. m # z
      BY <2>1, <2>3
    <3>2. Before("right", y, z)
      <4>1. y \in U[t.child["right"][z]]
        BY <1>1 DEF IsEnd
      <4> QED BY <1>2, <4>1, SidesAre DEF Bst, Shape
    <3>3. CASE r = "left"
      <4>1. m < z /\ z < y
        BY <2>1, <2>3, <3>2, <3>3 DEF Before
      <4>2. m < y
        <5>1. m \in Int /\ z \in Int /\ y \in Int
          BY <1>2, <2>1
        <5> QED BY <4>1, <5>1
      <4> QED BY <2>3, <3>1, <3>3, <4>2 DEF Before, Renamed
    <3>4. CASE r = "right"
      <4>1. y < m
        BY <1>1, <2>3, <3>4 DEF IsEnd, Before
      <4> QED BY <2>3, <3>1, <3>4, <4>1 DEF Before, Renamed
    <3> QED BY <3>3, <3>4 DEF Sides
  <2>4. CASE n # z /\ m = z
    <3>1. t.child[r][n] \in L
      <4>1. t.child[r][n] \in L \cup {NIL} /\ U[NIL] = {}
        BY <1>2, Below
      <4> QED BY <4>1
    <3>2. U[z] \subseteq U[t.child[r][n]]
      BY <1>2, <2>4, <3>1, SubtreesNest
    <3>3. Before(r, y, n)
      BY <1>1, <1>2, <3>2 DEF Bst, Shape
    <3> QED BY <2>4, <3>3 DEF Renamed
  <2> QED BY <2>2, <2>3, <2>4
<1> QED BY <1>0, <1>1, <1>2, <1>3, <1>4 DEF CanRename

\* The tree in which y, whose place c has taken in u, took the right child of z.
Isolated(t, u, z, y, c) ==
    IF t.parent[y] = z THEN [t EXCEPT !.parent[c] = y]
    ELSE Attach(u, y, "right", u.child["right"][z])

LEMMA SuccessorIsIsolated ==
    ASSUME NEW t, NEW U, NEW z, NEW y, NEW c, HasSuccessor(t, U, z, y, c),
           NEW u, IsTransplanted(t, u, y, c),
           NEW i, i = Isolated(t, u, z, y, c)
    PROVE  /\ IsIsolated(u, i, U[t.root] \ {y}, z, y)
           /\ u.parent[z] = t.parent[z] /\ u.child["left"][z] # NIL /\ u.color = t.color
           /\ u.parent[c] = z <=> u.child["right"][z] = c
           /\ c = NIL => (u.parent[NIL] = z <=> u.child["right"][z] = NIL)
<1> DEFINE L == U[t.root]
<1>1. /\ CanSplice(t, U, y, "left", c)
      /\ y \in U[z] /\ y # z /\ c # z /\ y # t.child["left"][z]
      /\ y # t.root /\ (t.parent[y] = z <=> t.child["right"][z] = y)
  BY SuccessorIs
<1>2. PICK b \in L : /\ b = t.child["right"][z] /\ t.child["left"][z] # NIL
                     /\ Bst(t, U) /\ z \in L /\ y \in L /\ NIL \notin L /\ L \subseteq Nodes
                     /\ TreeOK(t) /\ c = t.child["right"][y]
  <2>1. t.child["right"][z] \in L
    BY SidesAre, Below DEF HasSuccessor
  <2>2. Bst(t, U) /\ z \in L /\ t.child["left"][z] # NIL /\ c = t.child["right"][y]
    BY DEF HasSuccessor
  <2>3. y \in L
    BY <1>1 DEF CanSplice
  <2>4. NIL \notin L /\ L \subseteq Nodes
    BY <2>2, Below
  <2>5. TreeOK(t)
    BY <2>2 DEF Bst
  <2> QED BY <2>1, <2>2, <2>3, <2>4, <2>5
<1>3. c \in Nodes /\ c \in L \cup {NIL} /\ c # y /\ y \in Nodes
      /\ (c # NIL => t.parent[c] = y)
  BY <1>1, SpliceNodes
<1>4. IsMovedUp(t, u, L, y, c)
  BY <1>2, ReplacedChildren
<1>5. /\ TreeOK(u) /\ u.color = t.color /\ u.root = t.root
      /\ \A n \in Nodes : u.parent[n] = IF n = c THEN t.parent[y] ELSE t.parent[n]
      /\ u.child["left"][z] = t.child["left"][z]
      /\ u.child["right"][z] = IF b = y THEN c ELSE b
  <2>1. u.child["left"][z] = t.child["left"][z] /\ u.root = t.root
    BY <1>1, <1>2, <1>4, SidesAre DEF IsMovedUp
  <2>2. u.child["right"][z] = IF b = y THEN c ELSE b
    BY <1>2, <1>4, SidesAre DEF IsMovedUp
  <2> QED BY <2>1, <2>2 DEF IsTransplanted
<1>6. ASSUME t.parent[y] = z
      PROVE  IsIsolated(u, i, L \ {y}, z, y)
  <2>1. i = [t EXCEPT !.parent[c] = y] /\ b = y
    BY <1>1, <1>2, <1>6 DEF Isolated
  <2>2. /\ TreeOK(i) /\ i.root = t.root /\ i.color = t.color /\ i.child = t.child
        /\ \A n \in Nodes : i.parent[n] = IF n = c THEN y ELSE t.parent[n]
    BY <1>2, <1>3, <2>1 DEF TreeOK
  <2>3. ASSUME NEW n \in Nodes \ {z}, NEW r \in Sides
        PROVE  i.child[r][n] = IF n = y /\ r = "right" THEN u.child["right"][z] ELSE u.child[r][n]
    <3>1. u.child[r][n] = t.child[r][n]
      <4>1. CASE n \in L
        <5>1. t.child[r][n] # y
          BY <1>2, <1>6, <2>3, <4>1 DEF Bst, Links
        <5> QED BY <1>4, <4>1, <5>1 DEF IsMovedUp
      <4>2. CASE n \notin L
        BY <1>4, <4>2 DEF IsMovedUp
      <4> QED BY <4>1, <4>2
    <3> QED BY <1>2, <1>5, <2>1, <2>2, <3>1
  <2>4. i.child["left"][z] = u.child["left"][z] /\ i.child["right"][z] = y
    BY <1>2, <1>5, <2>1, <2>2
  <2>5. \A n \in Nodes : i.parent[n] = IF n = u.child["right"][z] THEN y ELSE u.parent[n]
    BY <1>5, <2>1, <2>2
  <2> QED BY <1>5, <2>2, <2>3, <2>4, <2>5 DEF IsIsolated
<1>7. ASSUME t.parent[y] # z
      PROVE  IsIsolated(u, i, L \ {y}, z, y)
  <2>1. u.child["right"][z] = b /\ b # y /\ b # z /\ i = Attach(u, y, "right", b)
    <3>1. b # y
      BY <1>1, <1>2, <1>7
    <3>2. t.child["right"][z] # NIL => t.child["right"][z] # z
      BY <1>2, SidesAre, ChildIsNew
    <3> QED BY <1>2, <1>5, <1>7, <3>1, <3>2 DEF Isolated
  <2>2. IsAttached(u, i, y, "right", b, TRUE)
    <3>1. b \in Nodes /\ "right" \in Sides
      BY <1>2, SidesAre
    <3> QED BY <1>3, <1>5, <2>1, <3>1, AttachIs
  <2>3. i.child["left"][z] = u.child["left"][z] /\ i.child["right"][z] = b
    BY <1>1, <1>2, <2>1, <2>2, SidesAre DEF IsAttached
  <2>4. TreeOK(i) /\ i.root = u.root /\ i.color = u.color
        /\ \A n \in Nodes : i.parent[n] = IF n = b THEN y ELSE u.parent[n]
    BY <2>2 DEF IsAttached
  <2>5. \A n \in Nodes \ {z}, r \in Sides :
           i.child[r][n] = IF n = y /\ r = "right" THEN b ELSE u.child[r][n]
    BY <2>2 DEF IsAttached
  <2> QED BY <2>1, <2>3, <2>4, <2>5 DEF IsIsolated
<1>8. u.parent[c] = z <=> u.child["right"][z] = c
  <2>1. b = c => FALSE
    <3>1. ASSUME b = c
          PROVE  FALSE
      <4>1. t.parent[b] = z /\ b # NIL
        BY <1>2, SidesAre DEF Bst, Links
      <4> QED BY <1>1, <1>3, <3>1, <4>1
    <3> QED BY <3>1
  <2> QED BY <1>1, <1>2, <1>3, <1>5, <2>1
<1>9. u.parent[z] = t.parent[z] /\ u.child["left"][z] # NIL /\ u.color = t.color
  BY <1>1, <1>2, <1>5
<1> QED BY <1>6, <1>7, <1>8, <1>9

\* deleteNode(), up to the loop.
LEMMA SplicedIs ==
    ASSUME NEW t, NEW U, NEW H, Fits(t, NoLoop, U, H), NEW z \in U[t.root],
           NEW p, p = Spliced(t, z),
           NEW l, l = IF IsRed(t, p.y) THEN NoLoop
                      ELSE [at |-> "fixDelete", x |-> p.x, z |-> z]
    PROVE  \E V, G : Unlinked(p.tree, l, V, G, z) /\ V[p.tree.root] = U[t.root] \ {z}
<1>1. Bst(t, U) /\ LeftOut(t, U[t.root], NIL) /\ Outside(t, U[t.root]) /\ TreeOK(t)
      /\ z \in Nodes /\ z # NIL
  <2>1. Bst(t, U) /\ LeftOut(t, U[t.root], NIL)
    BY DEF Fits, NoLoop
  <2> QED BY <2>1, LeftOutIsOutside, Below DEF Bst
<1>2. ASSUME NEW s \in Sides, t.child[s][z] = NIL,
             NEW c, c = t.child[Other(s)][z], p.tree = transplant(t, z, c), p.y = z, p.x = c
      PROVE  \E V, G : Unlinked(p.tree, l, V, G, z) /\ V[p.tree.root] = U[t.root] \ {z}
  <2>1. CanSplice(t, U, z, s, c)
    BY <1>1, <1>2 DEF CanSplice
  <2>2. IsTransplanted(t, p.tree, z, c)
    BY <1>1, <1>2, <2>1, SpliceNodes, transplantIs
  <2>3. l = SpliceLoop(t, z, c)
    BY <1>2 DEF SpliceLoop
  <2> QED BY <2>1, <2>2, <2>3, SplicedFits
<1>3. CASE t.child["left"][z] = NIL
  <2>1. p = [y |-> z, x |-> t.child["right"][z], tree |-> transplant(t, z, t.child["right"][z])]
    BY <1>3 DEF Spliced
  <2>2. p.tree = transplant(t, z, t.child["right"][z]) /\ p.y = z /\ p.x = t.child["right"][z]
    BY <2>1
  <2>3. "left" \in Sides /\ Other("left") = "right"
    BY DEF Sides, Other
  <2> QED BY <1>2, <1>3, <2>2, <2>3
<1>4. CASE t.child["left"][z] # NIL /\ t.child["right"][z] = NIL
  <2>1. p = [y |-> z, x |-> t.child["left"][z], tree |-> transplant(t, z, t.child["left"][z])]
    BY <1>4 DEF Spliced
  <2>2. p.tree = transplant(t, z, t.child["left"][z]) /\ p.y = z /\ p.x = t.child["left"][z]
    BY <2>1
  <2>3. "right" \in Sides /\ Other("right") = "left"
    BY DEF Sides, Other
  <2> QED BY <1>2, <1>4, <2>2, <2>3
<1>5. CASE t.child["left"][z] # NIL /\ t.child["right"][z] # NIL
  <2>1. PICK y, c : y = Most(t, "left", t.child["right"][z]) /\ c = t.child["right"][y]
    OBVIOUS
  <2>2. HasSuccessor(t, U, z, y, c)
    BY <1>1, <1>5, <2>1 DEF HasSuccessor
  <2>3. /\ CanSplice(t, U, y, "left", c)
        /\ y \in U[z] /\ y # z /\ c # z
        /\ y # t.root /\ (t.parent[y] = z <=> t.child["right"][z] = y)
    BY <2>2, SuccessorIs
  <2>4. /\ y \in Values /\ y \in Nodes /\ c \in Nodes /\ c \in U[t.root] \cup {NIL} /\ c # y
    BY <2>3, SpliceNodes
  <2>5. PICK u : u = transplant(t, y, c) /\ IsTransplanted(t, u, y, c)
    BY <1>1, <2>4, transplantIs
  <2>6. PICK V, k : V = Without(U, y) /\ k = SpliceLoop(t, y, c)
    OBVIOUS
  <2>7. Unlinked(u, k, V, H, y) /\ V[u.root] = U[t.root] \ {y}
    BY <2>3, <2>5, <2>6, SplicedFits
  <2>8. CanRename(u, V, z, y)
    BY <2>2, <2>5, <2>6, SuccessorRenames
  <2>9. PICK i : i = Isolated(t, u, z, y, c)
    OBVIOUS
  <2>10. /\ IsIsolated(u, i, U[t.root] \ {y}, z, y)
         /\ u.parent[z] = t.parent[z] /\ u.child["left"][z] # NIL /\ u.color = t.color
         /\ c = NIL => (u.parent[NIL] = z <=> u.child["right"][z] = NIL)
    BY <2>2, <2>5, <2>9, SuccessorIsIsolated
  <2>11. PICK j : j = transplant(i, z, y)
    OBVIOUS
  <2>12. p.y = y /\ p.x = c
         /\ p.tree = Paint(Attach(j, y, "left", j.child["left"][z]), y, u.color[z])
    <3>1. Spliced(t, z) = [y |-> y, x |-> c,
                           tree |-> Paint(Attach(j, y, "left", j.child["left"][z]), y, t.color[z])]
      BY <1>5, <2>1, <2>5, <2>9, <2>11 DEF Spliced, Isolated
    <3> QED BY <2>10, <3>1
  <2>13. IsRenamed(u, p.tree, V[u.root], z, y, c)
    <3>1. Bst(u, V) /\ z \in V[u.root] /\ y \in Values \ V[u.root]
      BY <2>8 DEF CanRename
    <3>2. IsIsolated(u, i, V[u.root], z, y) /\ c \in V[u.root] \cup {NIL}
      BY <2>4, <2>7, <2>10
    <3> QED BY <2>10, <2>11, <2>12, <3>1, <3>2, TakesPlace
  <2>14. l = LoopFor(k, z) /\ (k.at = "fixDelete" => k.x = c)
    BY <2>6, <2>12 DEF SpliceLoop, NoLoop, LoopFor
  <2>15. \E W, G : Unlinked(p.tree, l, W, G, z) /\ W[p.tree.root] = RenamedSet(V[u.root], z, y)
    <3>1. PICK w : w = p.tree
      OBVIOUS
    <3>2. IsRenamed(u, w, V[u.root], z, y, c)
      BY <2>13, <3>1
    <3>3. Unlinked(u, k, V, H, y) /\ CanRename(u, V, z, y) /\ c # z
          /\ (k.at = "fixDelete" => k.x = c) /\ l = LoopFor(k, z)
      BY <2>3, <2>7, <2>8, <2>14
    <3>4. Unlinked(w, l, RenamedSets(V, z, y), RenamedHeights(H, z, y), z)
      BY ONLY <3>2, <3>3, RenamedFits
    <3>5. RenamedSets(V, z, y)[w.root] = RenamedSet(V[u.root], z, y)
      BY ONLY <3>2, <3>3, RenamedFits
    <3> QED BY <3>1, <3>4, <3>5
  <2>16. RenamedSet(V[u.root], z, y) = U[t.root] \ {z}
    <3>1. y \in U[t.root] /\ z \in V[u.root]
      BY <2>3, <2>8 DEF CanSplice, CanRename
    <3> QED BY <2>3, <2>7, <3>1 DEF RenamedSet
  <2> QED BY <2>15, <2>16
<1> QED BY <1>3, <1>4, <1>5

-----------------------------------------------------------------------------
(* The steps *)

\* TreeInv, for the state with these values and the nodes L in the tree.
Holds(t, l, A, L) ==
    \E U, H : Fits(t, l, U, H) /\ U[t.root] = L /\ A = L \cup ({l.z} \ {NIL})

LEMMA TreeInvIs == TreeInv <=> ret \in BOOLEAN /\ \E L : Holds(tree, loop, allocated, L)
BY DEF TreeInv, Holds

LEMMA InitHolds ==
    ASSUME NEW t, t = Empty
    PROVE  Holds(t, NoLoop, {}, {})
<1> DEFINE U == [n \in Nodes |-> {}]
           H == [n \in Nodes |-> 0]
<1>1. /\ t.root = NIL /\ \A s \in Sides, n \in Nodes : t.child[s][n] = NIL
      /\ \A n \in Nodes : t.parent[n] = NIL /\ (t.color[n] = "red" <=> n # NIL)
      /\ NIL \in Nodes /\ Values \subseteq Nodes
  BY DEF Empty, Nodes
<1>2. TreeOK(t)
  BY DEF Empty, TreeOK, Nodes, Colors
<1>3. U[t.root] = {} /\ U[NIL] = {} /\ U \in [Nodes -> SUBSET Values]
  BY <1>1
<1>4. H \in [Nodes -> Nat] /\ H[NIL] = 0
  BY <1>1
<1> HIDE DEF U, H
<1>5. Bst(t, U)
  <2>1. Shape(t, U)
    BY <1>3, FS_EmptySet DEF Shape
  <2>2. Links(t, {})
    BY <1>1 DEF Links
  <2> QED BY <1>2, <1>3, <2>1, <2>2 DEF Bst
<1>6. LeftOut(t, {}, NIL)
  BY <1>1 DEF LeftOut
<1>7. Fits(t, NoLoop, U, H)
  BY <1>1, <1>3, <1>4, <1>5, <1>6 DEF Fits, LoopOK, Heights, Colored, IsRed, NoLoop
<1> QED BY <1>3, <1>7 DEF Holds, NoLoop

\* Between operations.
LEMMA IdleIs ==
    ASSUME NEW U, NEW H, Fits(tree, loop, U, H), Idle
    PROVE  /\ loop = NoLoop /\ Bst(tree, U) /\ TreeOK(tree) /\ Outside(tree, U[tree.root])
           /\ \A v \in Values : findNode(tree, v) = IF v \in U[tree.root] THEN v ELSE NIL
<1>1. loop = NoLoop
  BY DEF Fits, LoopOK, Idle
<1>2. Bst(tree, U) /\ TreeOK(tree) /\ Outside(tree, U[tree.root])
  BY LeftOutIsOutside DEF Fits, Bst
<1> QED BY <1>1, <1>2, FindNodeIs

LEMMA InsertHolds ==
    ASSUME NEW L, Holds(tree, loop, allocated, L), NEW v \in Values, Insert(v)
    PROVE  v \notin L /\ Holds(tree', loop', allocated', L \cup {v})
<1>1. PICK U, H : /\ Fits(tree, loop, U, H) /\ U[tree.root] = L
                  /\ allocated = L \cup ({loop.z} \ {NIL})
  BY DEF Holds
<1>2. /\ loop = NoLoop /\ Bst(tree, U) /\ TreeOK(tree) /\ Outside(tree, L)
      /\ findNode(tree, v) = IF v \in L THEN v ELSE NIL
  BY <1>1, IdleIs DEF Insert
<1>3. v \notin L
  BY <1>2 DEF Insert
<1>4. PICK y : y = LastVisited(tree, v)
  OBVIOUS
<1>5. y # v /\ ((L = {} /\ y = NIL) \/ Route(tree, U, v, tree.root, y))
  BY <1>1, <1>2, <1>3, <1>4, SearchEnds
<1>6. y \in Nodes
  <2>1. tree.root \in Nodes /\ NIL \in Nodes /\ U \in [Nodes -> SUBSET Values]
    BY <1>2, TreeTypes DEF Bst, Shape
  <2>2. y = NIL \/ y \in U[tree.root]
    BY <1>5 DEF Route
  <2> QED BY <2>1, <2>2 DEF Nodes
<1>7. IsLinked(tree, tree', v, y, SideFor(v, y))
  <2>1. tree' = Linked(v)
    BY DEF Insert
  <2> QED BY <1>2, <1>4, <1>5, <1>6, <2>1, LinkedIs
<1>8. loop' = [at |-> "fixInsert", x |-> v, z |-> NIL] /\ allocated' = allocated \cup {v}
  BY DEF Insert
<1>9. PICK k, u : k = loop' /\ u = tree'
  OBVIOUS
<1>10. \E V, G : Fits(u, k, V, G) /\ V[u.root] = U[tree.root] \cup {v}
  BY <1>1, <1>2, <1>3, <1>5, <1>7, <1>8, <1>9, LinkedFits
<1>11. allocated' = (L \cup {v}) \cup ({k.z} \ {NIL})
  BY <1>1, <1>2, <1>8, <1>9 DEF NoLoop
<1> QED BY <1>1, <1>3, <1>9, <1>10, <1>11 DEF Holds

LEMMA EraseHolds ==
    ASSUME NEW L, Holds(tree, loop, allocated, L), NEW v \in Values, Erase(v)
    PROVE  v \in L /\ Holds(tree', loop', allocated', L \ {v})
<1>1. PICK U, H : /\ Fits(tree, loop, U, H) /\ U[tree.root] = L
                  /\ allocated = L \cup ({loop.z} \ {NIL})
  BY DEF Holds
<1>2. /\ loop = NoLoop
      /\ findNode(tree, v) = IF v \in L THEN v ELSE NIL
  BY <1>1, IdleIs DEF Erase
<1>3. v \in L /\ v # NIL
  BY <1>2 DEF Erase
<1>4. PICK p : p = Spliced(tree, v)
  OBVIOUS
<1>5. \/ /\ ~IsRed(tree, p.y) /\ tree' = p.tree /\ UNCHANGED allocated
         /\ loop' = [at |-> "fixDelete", x |-> p.x, z |-> v]
      \/ /\ IsRed(tree, p.y) /\ tree' = Released(p.tree, v) /\ allocated' = allocated \ {v}
         /\ loop' = loop
  BY <1>4 DEF Erase, LostBlack
<1>6. PICK l : l = IF IsRed(tree, p.y) THEN NoLoop
                   ELSE [at |-> "fixDelete", x |-> p.x, z |-> v]
  OBVIOUS
<1>7. PICK V, G : Unlinked(p.tree, l, V, G, v) /\ V[p.tree.root] = L \ {v}
  BY <1>1, <1>2, <1>3, <1>4, <1>6, SplicedIs
<1>8. CASE ~IsRed(tree, p.y)
  <2>1. l = [at |-> "fixDelete", x |-> p.x, z |-> v] /\ loop' = l /\ l.z = v /\ tree' = p.tree
    BY <1>5, <1>6, <1>8
  <2>2. Fits(tree', l, V, G)
    BY <1>7, <2>1 DEF Unlinked, Fits
  <2>3. allocated' = (L \ {v}) \cup ({v} \ {NIL})
    BY <1>1, <1>2, <1>3, <1>5, <1>8 DEF NoLoop
  <2> QED BY <1>3, <1>7, <2>1, <2>2, <2>3 DEF Holds
<1>9. CASE IsRed(tree, p.y)
  <2>1. l = NoLoop /\ loop' = NoLoop /\ tree' = Released(p.tree, v)
    BY <1>2, <1>5, <1>6, <1>9
  <2>2. PICK t, u : t = p.tree /\ u = tree'
    OBVIOUS
  <2>3. /\ Bst(t, V) /\ v \in Values \ V[t.root] /\ LeftOut(t, V[t.root], v)
        /\ Heights(t, NoLoop, V[t.root], G) /\ Colored(t, NoLoop, V[t.root])
        /\ u = Released(t, v)
    BY <1>7, <2>1, <2>2 DEF Unlinked
  <2>4. Fits(u, NoLoop, V, G) /\ u.root = t.root
    BY <2>3, ReleaseFits
  <2>5. allocated' = (L \ {v}) \cup ({NIL} \ {NIL})
    BY <1>1, <1>2, <1>3, <1>5, <1>9 DEF NoLoop
  <2>6. V[tree'.root] = L \ {v} /\ Fits(tree', loop', V, G) /\ loop'.z = NIL
    BY <1>7, <2>1, <2>2, <2>4 DEF NoLoop
  <2> QED BY <1>3, <2>5, <2>6 DEF Holds
<1> QED BY <1>8, <1>9

LEMMA DestroyHolds ==
    ASSUME NEW L, Holds(tree, loop, allocated, L), Destroy
    PROVE  Holds(tree', loop', allocated', {})
<1>1. PICK U, H : /\ Fits(tree, loop, U, H) /\ U[tree.root] = L
                  /\ allocated = L \cup ({loop.z} \ {NIL})
  BY DEF Holds
<1>2. loop = NoLoop /\ Bst(tree, U) /\ Outside(tree, L)
  BY <1>1, IdleIs DEF Destroy
<1>3. Subtree(tree, tree.root) = L
  <2>1. tree.root \in L \cup {NIL}
    BY <1>1, <1>2 DEF Bst, Links
  <2> QED BY <1>1, <1>2, <2>1, SubtreeIs
<1>4. allocated' = {} /\ loop' = NoLoop /\ tree' = Empty
  BY <1>1, <1>2, <1>3 DEF Destroy, NoLoop
<1>5. Holds(tree', NoLoop, {}, {})
  BY <1>4, InitHolds
<1> QED BY <1>4, <1>5

LEMMA RecolorsHolds ==
    ASSUME NEW L, Holds(tree, loop, allocated, L), FixInsertRecolors
    PROVE  /\ Holds(tree', loop', allocated', L)
           /\ SameLinks(tree, tree') /\ loop'.x = Grandparent /\ Grandparent \in L
           /\ Parent \in L /\ \E s \in Sides : tree.child[s][Grandparent] = Parent
<1>1. PICK U, H : /\ Fits(tree, loop, U, H) /\ U[tree.root] = L
                  /\ allocated = L \cup ({loop.z} \ {NIL})
  BY DEF Holds
<1>2. PICK x, p, g, s, y : /\ x = loop.x /\ p = Parent /\ g = Grandparent /\ s = ParentSide
                           /\ y = Uncle
  OBVIOUS
<1>3. InsertPlace(tree, loop, U, x, p, g, s, y)
  BY <1>1, <1>2, InsertPlaceIs
     DEF FixInsertRecolors, Parent, Grandparent, ParentSide, Uncle
<1>4. /\ IsRed(tree, y) /\ allocated' = allocated /\ loop' = MovedTo(loop, g)
      /\ tree' = Paint(Paint(Paint(tree, p, "black"), y, "black"), g, "red")
  BY <1>2 DEF FixInsertRecolors, MovedTo
<1>5. PICK G : Fits(tree', MovedTo(loop, g), U, G)
  BY <1>1, <1>3, <1>4, RecolorsFits
<1>6. SameLinks(tree, tree')
  <2>1. /\ p \in Nodes /\ g \in Nodes /\ y \in Nodes /\ TreeOK(tree)
        /\ "black" \in Colors /\ "red" \in Colors
    BY <1>1, <1>3, Below, TreeTypes DEF InsertPlace, Fits, Bst, Colors
  <2>2. PICK a : a = Paint(tree, p, "black") /\ IsPainted(tree, a, p, "black") /\ TreeOK(a)
    BY <2>1, IsPaintedBy
  <2>3. PICK b : b = Paint(a, y, "black") /\ IsPainted(a, b, y, "black") /\ TreeOK(b)
    BY <2>1, <2>2, IsPaintedBy
  <2>4. PICK c : c = Paint(b, g, "red") /\ IsPainted(b, c, g, "red")
    BY <2>1, <2>3, IsPaintedBy
  <2> QED BY <1>4, <2>2, <2>3, <2>4 DEF IsPainted, SameLinks
<1>7. loop' = MovedTo(loop, g) /\ loop'.z = loop.z /\ loop'.x = g
  <2>1. loop \in [at : {"fixInsert"}, x : L, z : {NIL}]
    BY <1>1, <1>3 DEF Fits, LoopOK, InsertPlace, NoLoop
  <2> QED BY <1>4, <2>1 DEF MovedTo
<1>8. Holds(tree', loop', allocated', L)
  BY <1>1, <1>4, <1>5, <1>6, <1>7 DEF Holds, SameLinks
<1>9. g \in L /\ p \in L /\ \E r \in Sides : tree.child[r][g] = p
  BY <1>1, <1>3 DEF InsertPlace
<1> QED BY <1>2, <1>6, <1>7, <1>8, <1>9

\* After a rotation in fixInsert() the loop is at its end.
LEMMA InsertRotatesHolds ==
    ASSUME NEW L, Holds(tree, loop, allocated, L), FixInsertRotates
    PROVE  /\ Holds(tree', loop', allocated', L)
           /\ loop'.at = "fixInsert" /\ ~IsRed(tree', tree'.parent[loop'.x])
<1>1. PICK U, H : /\ Fits(tree, loop, U, H) /\ U[tree.root] = L
                  /\ allocated = L \cup ({loop.z} \ {NIL})
  BY DEF Holds
<1>2. PICK x, p, g, s, y : /\ x = loop.x /\ p = Parent /\ g = Grandparent /\ s = ParentSide
                           /\ y = Uncle
  OBVIOUS
<1>3. InsertPlace(tree, loop, U, x, p, g, s, y)
  BY <1>1, <1>2, InsertPlaceIs
     DEF FixInsertRotates, Parent, Grandparent, ParentSide, Uncle
<1>4. /\ ~IsRed(tree, y) /\ allocated' = allocated
      /\ loop \in [at : {"fixInsert"}, x : L, z : {NIL}]
      /\ tree.parent[x] = p /\ tree.parent[p] = g
  <2>1. ~IsRed(tree, y) /\ allocated' = allocated
    BY <1>2 DEF FixInsertRotates
  <2>2. loop \in [at : {"fixInsert"}, x : L, z : {NIL}]
    BY <1>1, <1>3 DEF Fits, LoopOK, InsertPlace, NoLoop
  <2> QED BY <1>3, <2>1, <2>2 DEF InsertPlace
<1>5. CASE x = tree.child[Other(s)][p]
  <2>1. IsInner(tree, loop.x, ParentSide)
    BY <1>2, <1>4, <1>5 DEF IsInner
  <2>2. PICK t, k : t = Rotate(tree, p, s) /\ k = MovedTo(loop, p)
    OBVIOUS
  <2>3. PICK V, G : /\ Fits(t, k, V, G) /\ V[t.root] = U[tree.root]
                    /\ InsertPlace(t, k, V, p, x, g, s, y) /\ t.child[s][x] = p
                    /\ t.color = tree.color
    <3>1. Fits(tree, loop, U, H) /\ TurnsOut(tree, loop, x, p, s, t, k)
      BY <1>1, <1>5, <2>2 DEF TurnsOut
    <3> QED BY ONLY <1>3, <3>1, InnerRotates
  <2>4. t.parent[p] = x /\ t.parent[x] = g /\ ~IsRed(t, y)
    BY <1>4, <2>3 DEF InsertPlace, IsRed
  <2>5. /\ tree' = Rotate(Paint(Paint(t, x, "black"), g, "red"), g, Other(s))
        /\ loop' = k
    BY <1>2, <2>1, <2>2, <2>4 DEF FixInsertRotates, MovedTo
  <2>6. /\ \E W, F : Fits(tree', k, W, F) /\ W[tree'.root] = V[t.root]
        /\ tree'.parent[p] = x /\ ~IsRed(tree', x)
    <3>1. Fits(t, k, V, G) /\ InsertPlace(t, k, V, p, x, g, s, y) /\ p = t.child[s][x]
      BY <2>3
    <3> QED BY <2>4, <2>5, <3>1, OuterRotates
  <2>7. loop'.at = "fixInsert" /\ loop'.x = p /\ loop'.z = loop.z
    BY <1>4, <2>2, <2>5 DEF MovedTo
  <2> QED BY <1>1, <1>4, <2>3, <2>5, <2>6, <2>7 DEF Holds
<1>6. CASE x # tree.child[Other(s)][p]
  <2>1. ~IsInner(tree, loop.x, ParentSide)
    BY <1>2, <1>4, <1>6 DEF IsInner
  <2>2. x = tree.child[s][p]
    BY <1>3, <1>6, SidesAre DEF InsertPlace
  <2>3. /\ tree' = Rotate(Paint(Paint(tree, p, "black"), g, "red"), g, Other(s))
        /\ loop' = loop
    <3>1. loop' = [loop EXCEPT !.x = loop.x]
      BY <1>2, <2>1 DEF FixInsertRotates
    <3>2. loop' = loop
      BY <1>4, <3>1
    <3> QED BY <1>2, <1>4, <2>1, <3>2 DEF FixInsertRotates
  <2>4. /\ \E W, F : Fits(tree', loop, W, F) /\ W[tree'.root] = L
        /\ tree'.parent[x] = p /\ ~IsRed(tree', p)
    BY <1>1, <1>3, <1>4, <2>2, <2>3, OuterRotates
  <2> QED BY <1>1, <1>2, <1>4, <2>3, <2>4 DEF Holds
<1> QED BY <1>5, <1>6

LEMMA InsertEndsHolds ==
    ASSUME NEW L, Holds(tree, loop, allocated, L), FixInsertEnds
    PROVE  Holds(tree', loop', allocated', L)
<1>1. PICK U, H : /\ Fits(tree, loop, U, H) /\ U[tree.root] = L
                  /\ allocated = L \cup ({loop.z} \ {NIL})
  BY DEF Holds
<1>2. /\ loop.at = "fixInsert" /\ ~IsRed(tree, tree.parent[loop.x])
      /\ tree' = Paint(tree, tree.root, "black") /\ loop' = NoLoop /\ allocated' = allocated
  BY DEF FixInsertEnds, Parent
<1>3. \E G : Fits(tree', NoLoop, U, G) /\ tree'.root = tree.root
  BY <1>1, <1>2, InsertEndsFits
<1>4. loop.z = NIL
  BY <1>1, <1>2 DEF Fits, LoopOK, NoLoop
<1> QED BY <1>1, <1>2, <1>3, <1>4 DEF Holds, NoLoop

\* The tree with a black sibling, which is w, beside the node of the loop.
IsBlackSibling(t, V, p, s, w) ==
    /\ DeletePlace(t, loop, V, loop.x, p, s, w) /\ ~IsRed(t, w)
    /\ s = Side /\ p = t.parent[loop.x] /\ w = Sibling(t)
    /\ t = tree \/ IsRed(t, p)

LEMMA BlackSiblingIs ==
    ASSUME NEW U, NEW H, Fits(tree, loop, U, H), Fixing, NEW t, t = WithBlackSibling
    PROVE  \E V, G, p, s, w : /\ Fits(t, loop, V, G) /\ V[t.root] = U[tree.root]
                              /\ IsBlackSibling(t, V, p, s, w)
<1>1. PICK x, p, s, w : /\ x = loop.x /\ p = tree.parent[x] /\ s = Side /\ w = Sibling(tree)
  OBVIOUS
<1>2. DeletePlace(tree, loop, U, x, p, s, w)
  <2>1. s = SideOf(tree, x) /\ w = tree.child[Other(s)][p]
    BY <1>1 DEF Side, Sibling
  <2> QED BY <1>1, <2>1, DeletePlaceIs DEF Fixing
<1>3. CASE IsRed(tree, w)
  <2>1. t = Rotate(Paint(Paint(tree, w, "black"), p, "red"), p, s)
    BY <1>1, <1>3 DEF WithBlackSibling, Parent
  <2>2. PICK V, G, m : /\ Fits(t, loop, V, G) /\ V[t.root] = U[tree.root]
                       /\ DeletePlace(t, loop, V, x, p, s, m) /\ ~IsRed(t, m) /\ IsRed(t, p)
    BY <1>2, <1>3, <2>1, RedSiblingRotates
  <2>3. p = t.parent[x] /\ m = Sibling(t)
    BY <1>1, <2>2 DEF DeletePlace, Sibling
  <2> QED BY <1>1, <2>2, <2>3 DEF IsBlackSibling
<1>4. CASE ~IsRed(tree, w)
  <2>1. t = tree
    BY <1>1, <1>4 DEF WithBlackSibling
  <2> QED BY <1>1, <1>2, <1>4, <2>1 DEF IsBlackSibling
<1> QED BY <1>3, <1>4

\* If the loop continues after it moved up, no link has changed.
LEMMA MovesUpHolds ==
    ASSUME NEW L, Holds(tree, loop, allocated, L), FixDeleteMovesUp
    PROVE  /\ Holds(tree', loop', allocated', L)
           /\ loop'.at = "fixDelete" /\ loop'.z = loop.z
           /\ \/ IsRed(tree', loop'.x)
              \/ /\ tree'.root = tree.root /\ tree'.child = tree.child
                 /\ tree'.parent = tree.parent /\ loop'.x = Parent
                 /\ Parent \in L
<1>1. PICK U, H : /\ Fits(tree, loop, U, H) /\ U[tree.root] = L
                  /\ allocated = L \cup ({loop.z} \ {NIL})
  BY DEF Holds
<1>2. PICK t : t = WithBlackSibling
  OBVIOUS
<1>3. PICK V, G, p, s, w : /\ Fits(t, loop, V, G) /\ V[t.root] = U[tree.root]
                           /\ IsBlackSibling(t, V, p, s, w)
  BY <1>1, <1>2, BlackSiblingIs DEF FixDeleteMovesUp
<1>4. PICK x, k : x = loop.x /\ k = MovedTo(loop, p)
  OBVIOUS
<1>5. /\ DeletePlace(t, loop, V, x, p, s, w) /\ ~IsRed(t, w)
      /\ p = t.parent[loop.x] /\ w = Sibling(t) /\ (t = tree \/ IsRed(t, p))
  BY <1>3, <1>4 DEF IsBlackSibling
<1>6. /\ \A r \in Sides : ~IsRed(t, t.child[r][w])
      /\ tree' = Paint(t, w, "red") /\ loop' = k /\ allocated' = allocated
  BY <1>2, <1>4, <1>5 DEF FixDeleteMovesUp, HasBlackChildren, MovedTo
<1>7. /\ \E F : Fits(tree', k, V, F)
      /\ tree'.root = t.root /\ (IsRed(tree', p) <=> IsRed(t, p)) /\ tree'.parent = t.parent
  BY <1>3, <1>4, <1>5, <1>6, MovesUpFits
<1>8. tree'.child = t.child
  <2>1. TreeOK(t) /\ w \in Nodes /\ "red" \in Colors
    BY <1>3, <1>5, Below DEF DeletePlace, Fits, Bst, Colors
  <2> QED BY <1>6, <2>1, PaintIs
<1>9. k.at = "fixDelete" /\ k.z = loop.z /\ k.x = p
  <2>1. loop \in [at : {"fixDelete"}, x : V[t.root] \cup {NIL}, z : Values \ V[t.root]]
    BY <1>3, <1>5 DEF Fits, LoopOK, DeletePlace, NoLoop
  <2> QED BY <1>4, <2>1 DEF MovedTo
<1>10. Holds(tree', loop', allocated', L)
  BY <1>1, <1>3, <1>6, <1>7, <1>9 DEF Holds
<1>11. p \in L
  BY <1>1, <1>3, <1>5 DEF DeletePlace
<1>12. t = tree => p = Parent
  BY <1>5 DEF Parent
<1> QED BY <1>5, <1>6, <1>7, <1>8, <1>9, <1>10, <1>11, <1>12

LEMMA DeleteRotatesHolds ==
    ASSUME NEW L, Holds(tree, loop, allocated, L), FixDeleteRotates
    PROVE  /\ Holds(tree', loop', allocated', L)
           /\ loop'.at = "fixDelete" /\ loop'.x = tree'.root
<1>1. PICK U, H : /\ Fits(tree, loop, U, H) /\ U[tree.root] = L
                  /\ allocated = L \cup ({loop.z} \ {NIL})
  BY DEF Holds
<1>2. PICK t : t = WithBlackSibling
  OBVIOUS
<1>3. PICK V, G, p, s, w : /\ Fits(t, loop, V, G) /\ V[t.root] = U[tree.root]
                           /\ IsBlackSibling(t, V, p, s, w)
  BY <1>1, <1>2, BlackSiblingIs DEF FixDeleteRotates
<1>4. PICK x, u, o : x = loop.x /\ u = WithRedNephew(t) /\ o = Other(s)
  OBVIOUS
<1>5. /\ DeletePlace(t, loop, V, x, p, s, w) /\ ~IsRed(t, w)
      /\ s = Side /\ p = t.parent[loop.x] /\ w = Sibling(t)
  BY <1>3, <1>4 DEF IsBlackSibling
<1>6. ~HasBlackChildren(t, w)
  BY <1>2, <1>5 DEF FixDeleteRotates
\* The sibling c whose outer child is red.
<1>7. PICK W, F, c : /\ Fits(u, loop, W, F) /\ W[u.root] = V[t.root]
                     /\ DeletePlace(u, loop, W, x, p, s, c) /\ ~IsRed(u, c)
                     /\ IsRed(u, u.child[o][c])
  <2>1. CASE IsRed(t, t.child[o][w])
    <3>1. u = t
      BY <1>4, <1>5, <2>1 DEF WithRedNephew
    <3> QED BY <1>3, <1>5, <2>1, <3>1
  <2>2. CASE ~IsRed(t, t.child[o][w])
    <3>1. PICK c : c = t.child[s][w]
      OBVIOUS
    <3>2. IsRed(t, c)
      <4>1. s \in Sides
        BY <1>5 DEF DeletePlace
      <4> QED BY <1>4, <1>6, <2>2, <3>1, <4>1, SidesAre DEF HasBlackChildren
    <3>3. u = Rotate(Paint(Paint(t, c, "black"), w, "red"), w, Other(s))
      BY <1>4, <1>5, <2>2, <3>1 DEF WithRedNephew
    <3>4. ~IsRed(t, t.child[Other(s)][w])
      BY <1>4, <2>2
    <3>5. \E W, F : /\ Fits(u, loop, W, F) /\ W[u.root] = V[t.root]
                    /\ DeletePlace(u, loop, W, x, p, s, c) /\ ~IsRed(u, c)
                    /\ IsRed(u, u.child[Other(s)][c])
      BY <1>3, <1>5, <3>1, <3>2, <3>3, <3>4, RedNephewRotates
    <3> QED BY <1>4, <3>5
  <2> QED BY <2>1, <2>2
<1>8. p = u.parent[loop.x] /\ c = Sibling(u)
  BY <1>4, <1>5, <1>7 DEF DeletePlace, Sibling
<1>9. PICK q, d : /\ q = u.child[o][c]
                  /\ d = Paint(Paint(Paint(u, c, u.color[p]), p, "black"), q, "black")
  OBVIOUS
<1>10. /\ tree' = Rotate(d, p, s) /\ loop' = MovedTo(loop, tree'.root)
       /\ allocated' = allocated
  BY <1>2, <1>4, <1>5, <1>8, <1>9 DEF FixDeleteRotates, MovedTo
<1>11. PICK v, k : v = tree' /\ k = loop'
  OBVIOUS
<1>12. \E X, E : Fits(v, k, X, E) /\ X[v.root] = W[u.root]
  <2>1. q = u.child[Other(s)][c] /\ IsRed(u, q)
    BY <1>4, <1>7, <1>9
  <2>2. TurnsUp(u, loop, p, s, c, q, v, k)
    BY <1>9, <1>10, <1>11 DEF TurnsUp
  <2> QED BY ONLY <1>7, <2>1, <2>2, LastRotationFits
<1>13. k.at = "fixDelete" /\ k.z = loop.z /\ k.x = v.root
  <2>1. loop \in [at : {"fixDelete"}, x : V[t.root] \cup {NIL}, z : Values \ V[t.root]]
    BY <1>3, <1>5 DEF Fits, LoopOK, DeletePlace, NoLoop
  <2> QED BY <1>10, <1>11, <2>1 DEF MovedTo
<1>14. Holds(v, k, allocated', L)
  BY <1>1, <1>3, <1>7, <1>10, <1>12, <1>13 DEF Holds
<1> QED BY <1>11, <1>13, <1>14

LEMMA DeleteEndsHolds ==
    ASSUME NEW L, Holds(tree, loop, allocated, L), FixDeleteEnds
    PROVE  Holds(tree', loop', allocated', L)
<1>1. PICK U, H : /\ Fits(tree, loop, U, H) /\ U[tree.root] = L
                  /\ allocated = L \cup ({loop.z} \ {NIL})
  BY DEF Holds
<1>2. /\ loop.at = "fixDelete" /\ (loop.x = tree.root \/ IsRed(tree, loop.x))
      /\ tree' = Released(Paint(tree, loop.x, "black"), loop.z) /\ loop' = NoLoop
      /\ allocated' = allocated \ {loop.z}
  BY DEF FixDeleteEnds, Fixing
<1>3. /\ \E G : Fits(tree', NoLoop, U, G)
      /\ tree'.root = tree.root /\ loop.z \in Values \ U[tree.root]
  BY <1>1, <1>2, DeleteEndsFits
<1>4. allocated' = L \cup ({NIL} \ {NIL})
  BY <1>1, <1>2, <1>3
<1> QED BY <1>1, <1>2, <1>3, <1>4 DEF Holds, NoLoop
\* What an iteration does, whichever it is.
LEMMA FixHolds ==
    ASSUME NEW L, Holds(tree, loop, allocated, L), Fix
    PROVE  Holds(tree', loop', allocated', L) /\ ret' = ret
<1>1. Holds(tree', loop', allocated', L)
  <2>1. CASE FixInsertRecolors
    BY <2>1, RecolorsHolds
  <2>2. CASE FixInsertRotates
    BY <2>2, InsertRotatesHolds
  <2>3. CASE FixInsertEnds
    BY <2>3, InsertEndsHolds
  <2>4. CASE FixDeleteMovesUp
    BY <2>4, MovesUpHolds
  <2>5. CASE FixDeleteRotates
    BY <2>5, DeleteRotatesHolds
  <2>6. CASE FixDeleteEnds
    BY <2>6, DeleteEndsHolds
  <2> QED BY <2>1, <2>2, <2>3, <2>4, <2>5, <2>6 DEF Fix
<1>2. ret' = ret
  BY DEF Fix, FixInsertRecolors, FixInsertRotates, FixInsertEnds,
         FixDeleteMovesUp, FixDeleteRotates, FixDeleteEnds
<1> QED BY <1>1, <1>2

\* What an operation does, and what it returns.
LEMMA OperationHolds ==
    ASSUME NEW L, Holds(tree, loop, allocated, L), NEW v \in Values, Operation(v)
    PROVE  \/ Holds(tree', loop', allocated', L \cup {v}) /\ ret' = (v \notin L)
           \/ Holds(tree', loop', allocated', L \ {v}) /\ ret' = (v \in L)
<1>1. CASE InsertDuplicate(v)
  <2>1. findNode(tree, v) = v /\ Idle /\ ret' = FALSE
    BY <1>1 DEF InsertDuplicate
  <2>2. v \in L
    BY <2>1, IdleIs, NilAssumption DEF Holds
  <2>3. L \cup {v} = L /\ ret' = (v \notin L)
    BY <2>1, <2>2
  <2>4. Holds(tree', loop', allocated', L)
    BY <1>1 DEF InsertDuplicate
  <2> QED BY <2>3, <2>4
<1>2. CASE Insert(v)
  <2>1. v \notin L /\ Holds(tree', loop', allocated', L \cup {v})
    BY <1>2, InsertHolds
  <2>2. ret' = TRUE
    BY <1>2 DEF Insert
  <2> QED BY <2>1, <2>2
<1>3. CASE EraseAbsent(v)
  <2>1. findNode(tree, v) = NIL /\ Idle /\ ret' = FALSE
    BY <1>3 DEF EraseAbsent
  <2>2. v \notin L
    BY <2>1, IdleIs, NilAssumption DEF Holds
  <2>3. L \ {v} = L
    BY <2>2
  <2>5. ret' = (v \in L)
    <3>1. (v \in L) = FALSE
      BY <2>2
    <3> QED BY <2>1, <3>1
  <2>4. Holds(tree', loop', allocated', L)
    BY <1>3 DEF EraseAbsent
  <2> QED BY <2>3, <2>4, <2>5
<1>4. CASE Erase(v)
  <2>1. v \in L /\ Holds(tree', loop', allocated', L \ {v})
    BY <1>4, EraseHolds
  <2>2. ret' = TRUE
    BY <1>4 DEF Erase
  <2> QED BY <2>1, <2>2
<1> QED BY <1>1, <1>2, <1>3, <1>4 DEF Operation

-----------------------------------------------------------------------------
(* The invariant and the properties *)

\* Every operation and every iteration of a loop leaves a search tree whose
\* black heights and colors are wrong at the node of the loop at most.
THEOREM TreeInvariant == Spec => []TreeInv
<1>1. Init => TreeInv
  <2> SUFFICES ASSUME Init PROVE TreeInv
    OBVIOUS
  <2>1. tree = Empty /\ loop = NoLoop /\ allocated = {} /\ ret = FALSE
    BY DEF Init
  <2>2. Holds(tree, loop, allocated, {})
    BY <2>1, InitHolds
  <2> QED BY <2>1, <2>2, TreeInvIs
<1>2. TreeInv /\ [Next]_vars => TreeInv'
  <2> SUFFICES ASSUME TreeInv, [Next]_vars PROVE TreeInv'
    OBVIOUS
  <2>1. PICK L : Holds(tree, loop, allocated, L)
    BY TreeInvIs
  <2>2. ret \in BOOLEAN
    BY TreeInvIs
  <2>3. ret' \in BOOLEAN /\ \E K : Holds(tree', loop', allocated', K)
    <3>1. ASSUME NEW v \in Values, Operation(v)
          PROVE  ret' \in BOOLEAN /\ \E K : Holds(tree', loop', allocated', K)
      <4>1. ret' \in BOOLEAN
        BY <3>1 DEF Operation, InsertDuplicate, Insert, EraseAbsent, Erase
      <4>2. Holds(tree', loop', allocated', L \cup {v}) \/ Holds(tree', loop', allocated', L \ {v})
        BY <2>1, <3>1, OperationHolds
      <4> QED BY <4>1, <4>2
    <3>2. CASE Fix
      BY <2>1, <2>2, <3>2, FixHolds
    <3>3. CASE Destroy
      <4>1. Holds(tree', loop', allocated', {})
        BY <2>1, <3>3, DestroyHolds
      <4> QED BY <2>2, <3>3, <4>1 DEF Destroy
    <3>4. CASE UNCHANGED vars
      BY <2>1, <2>2, <3>4 DEF vars
    <3> QED BY <3>1, <3>2, <3>3, <3>4 DEF Next
  <2> QED BY <2>3 DEF TreeInv, Holds
<1> QED BY <1>1, <1>2, PTL DEF Spec

\* The tree is a red-black tree between operations, and its links, its order
\* and its black heights are right at every moment.
THEOREM TreeIsRedBlack == Spec => []RedBlack
<1>1. TreeInv => RedBlack
  BY RedBlackHolds
<1> QED BY <1>1, TreeInvariant, PTL
\* How many nodes of the tree t there are above n.
DepthIn(t, n) == Cardinality({m \in Subtree(t, t.root) : t.parent[n] \in Subtree(t, m)})

LEMMA DepthIs ==
    ASSUME NEW t, NEW U, Bst(t, U), Outside(t, U[t.root]), NEW n
    PROVE  DepthIn(t, n) = Cardinality({m \in U[t.root] : t.parent[n] \in U[m]})
<1>1. t.root \in U[t.root] \cup {NIL}
  BY DEF Bst, Links
<1>2. Subtree(t, t.root) = U[t.root] /\ \A m \in U[t.root] : Subtree(t, m) = U[m]
  BY <1>1, SubtreeIs
<1>3. {m \in Subtree(t, t.root) : t.parent[n] \in Subtree(t, m)}
        = {m \in U[t.root] : t.parent[n] \in U[m]}
  BY <1>2
<1> QED BY <1>3 DEF DepthIn

\* The nodes above n are above those below n, and n is too.
LEMMA FewerAbove ==
    ASSUME NEW t, NEW U, Bst(t, U), NEW n \in U[t.root], NEW p \in U[n]
    PROVE  Cardinality({m \in U[t.root] : t.parent[n] \in U[m]})
             < Cardinality({m \in U[t.root] : p \in U[m]})
<1> DEFINE L == U[t.root]
           a == t.parent[n]
           A == {m \in L : a \in U[m]}
           B == {m \in L : p \in U[m]}
<1>1. \A m \in L : a \in U[m] => a \in L /\ n \in U[a] /\ n # a /\ U[n] \subseteq U[m] /\ a \notin U[n]
  <2> SUFFICES ASSUME NEW m \in L, a \in U[m]
               PROVE  a \in L /\ n \in U[a] /\ n # a /\ U[n] \subseteq U[m] /\ a \notin U[n]
    OBVIOUS
  <2>1. a \in L
    BY Below
  <2>2. n # t.root
    BY <2>1, Below DEF Bst, Links
  <2>3. PICK s \in Sides : t.child[s][a] = n
    BY <2>2, HasParent
  <2>4. U[n] \subseteq U[a] /\ a \notin U[n] /\ n \in U[n]
    BY <2>1, <2>3, Below
  <2>5. U[a] \subseteq U[m]
    BY SubtreesNest
  <2> QED BY <2>1, <2>4, <2>5
<1>2. A \subseteq B
  BY <1>1
<1>3. n \in B /\ n \notin A
  BY <1>1, Below
<1>4. IsFiniteSet(B)
  <2>1. IsFiniteSet(L)
    BY DEF Bst, Shape
  <2> QED BY <2>1, FS_Subset
<1>5. /\ IsFiniteSet(A) /\ Cardinality(A) <= Cardinality(B)
      /\ Cardinality(A) = Cardinality(B) => A = B
  BY <1>2, <1>4, FS_Subset
<1>6. Cardinality(A) \in Nat /\ Cardinality(B) \in Nat
  BY <1>4, <1>5, FS_CardinalityType
<1>7. Cardinality(A) # Cardinality(B)
  BY <1>3, <1>5
<1> QED BY <1>5, <1>6, <1>7

\* From x to a node n that its parent is below, while no link changes.
LEMMA DepthFalls ==
    ASSUME NEW t, NEW l, NEW A, NEW L, Holds(t, l, A, L), NEW x,
           NEW u, SameLinks(t, u),
           NEW n \in L, \/ t.parent[x] = n
                        \/ \E s \in Sides : t.child[s][n] = t.parent[x] /\ t.parent[x] # NIL
    PROVE  DepthIn(u, n) < DepthIn(t, x)
<1>1. PICK U, H : Fits(t, l, U, H) /\ U[t.root] = L
  BY DEF Holds
<1>2. Bst(t, U) /\ Outside(t, L)
  BY <1>1, LeftOutIsOutside DEF Fits
<1>3. Bst(u, U) /\ Outside(u, L) /\ u.root = t.root /\ u.parent = t.parent
  BY <1>2, SameLinksBst DEF SameLinks, Outside
<1>4. t.parent[x] \in U[n]
  <2>1. CASE t.parent[x] = n
    BY <1>1, <1>2, <2>1, Below
  <2>2. CASE \E s \in Sides : t.child[s][n] = t.parent[x] /\ t.parent[x] # NIL
    <3>1. PICK s \in Sides : t.child[s][n] = t.parent[x] /\ t.parent[x] # NIL
      BY <2>2
    <3>2. t.parent[x] \in L /\ U[t.parent[x]] \subseteq U[n]
      BY <1>1, <1>2, <3>1, Below
    <3>3. t.parent[x] \in U[t.parent[x]]
      BY <1>1, <1>2, <3>2, Below
    <3> QED BY <3>2, <3>3
  <2> QED BY <2>1, <2>2
<1>5. Cardinality({m \in L : t.parent[n] \in U[m]}) < Cardinality({m \in L : t.parent[x] \in U[m]})
  BY <1>1, <1>2, <1>4, FewerAbove
<1>6. DepthIn(u, n) = Cardinality({m \in L : t.parent[n] \in U[m]})
  <2>1. DepthIn(u, n) = Cardinality({m \in U[u.root] : u.parent[n] \in U[m]})
    BY <1>1, <1>3, DepthIs
  <2> QED BY <1>1, <1>3, <2>1
<1>7. DepthIn(t, x) = Cardinality({m \in L : t.parent[x] \in U[m]})
  BY <1>1, <1>2, DepthIs
<1> QED BY <1>5, <1>6, <1>7

LEMMA IterationsClimb ==
    ASSUME TreeInv, [Next]_vars, ~UNCHANGED vars, Continues, Continues'
    PROVE  Depth(loop.x)' < Depth(loop.x)
<1>1. PICK L : Holds(tree, loop, allocated, L)
  BY TreeInvIs
<1>2. ~Idle
  BY DEF Continues, Fixing, Idle
<1>3. CASE FixInsertRecolors
  <2>1. /\ SameLinks(tree, tree') /\ loop'.x = Grandparent /\ Grandparent \in L
        /\ Parent \in L /\ \E s \in Sides : tree.child[s][Grandparent] = Parent
    BY <1>1, <1>3, RecolorsHolds
  <2>2. Parent # NIL
    <3>1. \E U, H : Fits(tree, loop, U, H) /\ U[tree.root] = L
      BY <1>1 DEF Holds
    <3> QED BY <2>1, <3>1, Below DEF Fits
  <2>3. DepthIn(tree', loop'.x) < DepthIn(tree, loop.x)
    BY <1>1, <2>1, <2>2, DepthFalls DEF Parent
  <2> QED BY <2>3 DEF Depth, Reachable, DepthIn
<1>4. CASE FixDeleteMovesUp
  <2>1. /\ Holds(tree', loop', allocated', L) /\ loop'.at = "fixDelete"
        /\ \/ IsRed(tree', loop'.x)
           \/ /\ tree'.root = tree.root /\ tree'.child = tree.child
              /\ tree'.parent = tree.parent /\ loop'.x = Parent
              /\ Parent \in L
    BY <1>1, <1>4, MovesUpHolds
  <2>2. ~IsRed(tree', loop'.x)
    BY <2>1 DEF Continues, Fixing
  <2>3. SameLinks(tree, tree') /\ loop'.x = Parent /\ Parent \in L
    <3>1. TreeOK(tree')
      BY <2>1 DEF Holds, Fits, Bst
    <3> QED BY <2>1, <2>2, <3>1 DEF SameLinks
  <2>4. DepthIn(tree', loop'.x) < DepthIn(tree, loop.x)
    BY <1>1, <2>3, DepthFalls DEF Parent
  <2> QED BY <2>4 DEF Depth, Reachable, DepthIn
\* The other iterations are the last ones.
<1>5. CASE FixInsertRotates
  <2>1. loop'.at = "fixInsert" /\ ~IsRed(tree', tree'.parent[loop'.x])
    BY <1>1, <1>5, InsertRotatesHolds
  <2> QED BY <2>1 DEF Continues, Fixing, Parent
<1>6. CASE FixDeleteRotates
  <2>1. loop'.at = "fixDelete" /\ loop'.x = tree'.root
    BY <1>1, <1>6, DeleteRotatesHolds
  <2> QED BY <2>1 DEF Continues, Fixing
<1>7. CASE FixInsertEnds \/ FixDeleteEnds
  BY <1>7 DEF FixInsertEnds, FixDeleteEnds, Continues, Fixing, NoLoop
<1>8. ~Destroy /\ \A v \in Values : ~Operation(v)
  BY <1>2 DEF Destroy, Operation, InsertDuplicate, Insert, EraseAbsent, Erase
<1> QED BY <1>3, <1>4, <1>5, <1>6, <1>7, <1>8 DEF Next, Fix

\* No loop turns round for ever: its node gets nearer to the root with every
\* iteration but the last.
THEOREM LoopsClimb == Spec => LoopsEnd
<1>1. TreeInv /\ [Next]_vars => [Continues /\ Continues' => Depth(loop.x)' < Depth(loop.x)]_vars
  BY IterationsClimb
<1> QED BY <1>1, TreeInvariant, PTL DEF Spec, LoopsEnd
\* What the operations of OrderedSet refer to.
LEMMA OrderedSetIs ==
    ASSUME NEW t, NEW l, NEW A, NEW L, Holds(t, l, A, L)
    PROVE  /\ {v \in Values : findNode(t, v) = v} = L
           /\ End(t, "left") = Ordered!Smallest(L) /\ End(t, "right") = Ordered!Greatest(L)
<1>1. PICK U, H : Fits(t, l, U, H) /\ U[t.root] = L
  BY DEF Holds
<1>2. Bst(t, U) /\ Outside(t, L) /\ L \subseteq Values
  BY <1>1, LeftOutIsOutside, Below DEF Fits
<1>3. {v \in Values : findNode(t, v) = v} = L
  <2>1. \A v \in Values : findNode(t, v) = v <=> v \in L
    BY <1>1, <1>2, FindNodeIs, NilAssumption
  <2> QED BY <1>2, <2>1
<1>4. t.root = NIL <=> L = {}
  BY <1>1, <1>2, Below DEF Bst, Links
<1>5. CASE L = {}
  BY <1>3, <1>4, <1>5 DEF End, Ordered!Smallest, Ordered!Greatest
<1>6. CASE L # {}
  <2>1. t.root \in L /\ "left" \in Sides /\ "right" \in Sides
    BY <1>1, <1>2, <1>6, SidesAre DEF Bst, Links
  <2>2. PICK a, b : a = End(t, "left") /\ b = End(t, "right")
    OBVIOUS
  <2>3. IsEnd(L, "left", a) /\ IsEnd(L, "right", b)
    BY <1>1, <1>2, <1>4, <1>6, <2>1, <2>2, MostIs DEF End
  <2>4. /\ a \in L /\ \A w \in L : w = a \/ a < w
        /\ b \in L /\ \A w \in L : w = b \/ w < b
    BY <2>3 DEF IsEnd, Before
  <2>5. L \subseteq Int
    BY <1>2, ValuesAssumption
  <2>6. \A v \in L : (\A w \in L : v <= w) <=> v = a
    BY <2>4, <2>5
  <2>7. \A v \in L : (\A w \in L : w <= v) <=> v = b
    BY <2>4, <2>5
  <2>8. (CHOOSE v \in L : \A w \in L : v <= w) = a
    BY <2>4, <2>6
  <2>9. (CHOOSE v \in L : \A w \in L : w <= v) = b
    BY <2>4, <2>7
  <2> QED BY <1>3, <1>6, <2>2, <2>8, <2>9 DEF Ordered!Smallest, Ordered!Greatest
<1> QED BY <1>5, <1>6

\* Between two states of the tree there is a step of the set.
LEMMA BecomesIs ==
    ASSUME NEW L, Holds(tree, loop, allocated, L), NEW K, Holds(tree', loop', allocated', K)
    PROVE  /\ {v \in Values : findNode(tree, v) = v} = L
           /\ <<End(tree, "left"), End(tree, "right")>> = <<Ordered!Smallest(L), Ordered!Greatest(L)>>
           /\ {v \in Values : findNode(tree', v) = v} = K
           /\ <<End(tree', "left"), End(tree', "right")>> = <<Ordered!Smallest(K), Ordered!Greatest(K)>>
<1>1. /\ {v \in Values : findNode(tree, v) = v} = L
      /\ End(tree, "left") = Ordered!Smallest(L) /\ End(tree, "right") = Ordered!Greatest(L)
  BY OrderedSetIs
<1>2. /\ {v \in Values : findNode(tree', v) = v} = K
      /\ End(tree', "left") = Ordered!Smallest(K) /\ End(tree', "right") = Ordered!Greatest(K)
  BY OrderedSetIs
<1> QED BY <1>1, <1>2

\* Searching the tree is searching a set: insert() and erase() add and remove
\* their value at one moment, return whether they did, and move the ends with
\* it; an iteration of a loop changes nothing that find(), minimum() and
\* maximum() return.
THEOREM TreeIsOrderedSet == Spec => ImplementsOrderedSet
<1>1. Init => Ordered!Init
  <2> SUFFICES ASSUME Init PROVE Ordered!Init
    OBVIOUS
  <2>1. Holds(tree, loop, allocated, {}) /\ ret = FALSE
    BY InitHolds DEF Init
  <2>2. /\ {v \in Values : findNode(tree, v) = v} = {}
        /\ End(tree, "left") = Ordered!Smallest({}) /\ End(tree, "right") = Ordered!Greatest({})
    BY <2>1, OrderedSetIs
  <2> QED BY <2>1, <2>2 DEF Ordered!Init, Ordered!Smallest, Ordered!Greatest
<1>2. TreeInv /\ [Next]_vars
        => [Ordered!Next]_<<{v \in Values : findNode(tree, v) = v},
                            <<End(tree, "left"), End(tree, "right")>>, ret>>
  <2> SUFFICES ASSUME TreeInv, [Next]_vars
               PROVE  [Ordered!Next]_<<{v \in Values : findNode(tree, v) = v},
                                       <<End(tree, "left"), End(tree, "right")>>, ret>>
    OBVIOUS
  <2>1. PICK L : Holds(tree, loop, allocated, L)
    BY TreeInvIs
  <2>2. ASSUME NEW v \in Values, Operation(v)
        PROVE  Ordered!Insert(v) \/ Ordered!Erase(v)
    <3>1. CASE Holds(tree', loop', allocated', L \cup {v}) /\ ret' = (v \notin L)
      <4>1. PICK K : K = L \cup {v}
        OBVIOUS
      <4>2. /\ {n \in Values : findNode(tree, n) = n} = L
            /\ {n \in Values : findNode(tree', n) = n} = K
            /\ <<End(tree', "left"), End(tree', "right")>>
                 = <<Ordered!Smallest(K), Ordered!Greatest(K)>>
        BY <2>1, <3>1, <4>1, BecomesIs
      <4> QED BY <3>1, <4>1, <4>2 DEF Ordered!Insert, Ordered!Becomes
    <3>2. CASE Holds(tree', loop', allocated', L \ {v}) /\ ret' = (v \in L)
      <4>1. PICK K : K = L \ {v}
        OBVIOUS
      <4>2. /\ {n \in Values : findNode(tree, n) = n} = L
            /\ {n \in Values : findNode(tree', n) = n} = K
            /\ <<End(tree', "left"), End(tree', "right")>>
                 = <<Ordered!Smallest(K), Ordered!Greatest(K)>>
        BY <2>1, <3>2, <4>1, BecomesIs
      <4> QED BY <3>2, <4>1, <4>2 DEF Ordered!Erase, Ordered!Becomes
    <3> QED BY <2>1, <2>2, <3>1, <3>2, OperationHolds
  <2>3. CASE Fix
    <3>1. Holds(tree', loop', allocated', L) /\ ret' = ret
      BY <2>1, <2>3, FixHolds
    <3>2. /\ {v \in Values : findNode(tree, v) = v} = {v \in Values : findNode(tree', v) = v}
          /\ <<End(tree, "left"), End(tree, "right")>> = <<End(tree', "left"), End(tree', "right")>>
      BY <2>1, <3>1, BecomesIs
    <3> QED BY <3>1, <3>2
  <2>4. CASE Destroy
    <3>1. Holds(tree', loop', allocated', {}) /\ ret' = ret
      BY <2>1, <2>4, DestroyHolds DEF Destroy
    <3>2. /\ {v \in Values : findNode(tree', v) = v} = {}
          /\ <<End(tree', "left"), End(tree', "right")>>
               = <<Ordered!Smallest({}), Ordered!Greatest({})>>
      BY <2>1, <3>1, BecomesIs
    <3>3. Ordered!Destroy
      BY <3>1, <3>2 DEF Ordered!Destroy, Ordered!Becomes
    <3> QED BY <3>3 DEF Ordered!Next
  <2>5. CASE UNCHANGED vars
    BY <2>5 DEF vars
  <2> QED BY <2>2, <2>3, <2>4, <2>5 DEF Next, Ordered!Next
<1> QED BY <1>1, <1>2, TreeInvariant, PTL DEF Spec, ImplementsOrderedSet, Ordered!Spec

=============================================================================
