---------------------------- MODULE RedBlackTree ----------------------------
(***************************************************************************)
(* RBTree.  A node has the name of the value in it, because deletion moves *)
(* nodes and never copies values.  The sentinel is a node like the others: *)
(* its parent field is written by transplant() and read by fixDelete().    *)
(* One iteration of the loops in fixInsert() and fixDelete() is one step.  *)
(*                                                                         *)
(* The code spells out every case twice, for the left and for the right;   *)
(* here the side is a parameter.                                           *)
(*                                                                         *)
(* A definition marked "Variant" is a plausible mistake in the code, kept  *)
(* beside the definition it would replace.  No action uses it.             *)
(***************************************************************************)
EXTENDS Integers, FiniteSets

CONSTANTS Values,       \* integers, compared by <
          NIL           \* the sentinel _nil

ASSUME ValuesAssumption == Values \subseteq Int
ASSUME NilAssumption == NIL \notin Values

VARIABLES tree,         \* _root and the fields of the nodes
          allocated,    \* the nodes that are not released
          loop,         \* which loop runs, its node x, and the node z that
                        \* deleteNode() releases after it
          ret           \* what the last operation returned

vars == <<tree, allocated, loop, ret>>

Nodes == Values \cup {NIL}
Sides == {"left", "right"}
Other(s) == IF s = "left" THEN "right" ELSE "left"

\* The constructor.
Empty == [root |-> NIL,
          child |-> [s \in Sides |-> [n \in Nodes |-> NIL]],
          parent |-> [n \in Nodes |-> NIL],
          color |-> [n \in Nodes |-> IF n = NIL THEN "black" ELSE "red"]]
NoLoop == [at |-> "none", x |-> NIL, z |-> NIL]

Init ==
    /\ tree = Empty
    /\ allocated = {}
    /\ loop = NoLoop
    /\ ret = FALSE

-----------------------------------------------------------------------------
(* Helpers.  t is a tree. *)

IsRed(t, n) == t.color[n] = "red"
Paint(t, n, c) == [t EXCEPT !.color[n] = c]
SideOf(t, n) == IF t.child["left"][t.parent[n]] = n THEN "left" ELSE "right"

\* Puts v where u is, in the field of u's parent or in _root.
\* Variant: the root is not looked for.
ForgetsRoot(t, u, v) == [t EXCEPT !.child[SideOf(t, u)][t.parent[u]] = v]
Replace(t, u, v) ==
    IF t.parent[u] = NIL THEN [t EXCEPT !.root = v]
    ELSE [t EXCEPT !.child[SideOf(t, u)][t.parent[u]] = v]

transplant(t, u, v) == [Replace(t, u, v) EXCEPT !.parent[v] = t.parent[u]]

\* Makes c a child of n.
Attach(t, n, s, c) == [t EXCEPT !.child[s][n] = c, !.parent[c] = n]

\* A rotation leaves the parent of the sentinel alone: fixDelete() may be
\* working there.
AttachInRotation(t, n, s, c) ==
    IF c = NIL THEN [t EXCEPT !.child[s][n] = c] ELSE Attach(t, n, s, c)

\* leftRotate() and rightRotate(): x goes down on side s.
Rotate(t, x, s) ==
    LET y == t.child[Other(s)][x]
        up == [Replace(t, x, y) EXCEPT !.parent[y] = t.parent[x]]
    IN  Attach(AttachInRotation(up, x, Other(s), t.child[s][y]), y, s, x)

\* Where the search for v goes from n.
Towards(t, n, v) == t.child[IF v < n THEN "left" ELSE "right"][n]

\* The last node that the search for v visits.
LastVisited(t, v) ==
    LET last[n \in Nodes] ==
          IF n \in {NIL, v} \/ Towards(t, n, v) = NIL THEN n
          ELSE last[Towards(t, n, v)]
    IN  last[t.root]

findNode(t, v) == IF LastVisited(t, v) = v THEN v ELSE NIL

\* leftMost() and rightMost()
Most(t, s, n) ==
    LET most[m \in Nodes] == IF t.child[s][m] = NIL THEN m ELSE most[t.child[s][m]]
    IN  most[n]

\* minimum() and maximum()
End(t, s) == IF t.root = NIL THEN NIL ELSE Most(t, s, t.root)

Subtree(t, n) ==
    LET under[m \in Nodes] ==
          IF m = NIL THEN {}
          ELSE {m} \cup under[t.child["left"][m]] \cup under[t.child["right"][m]]
    IN  under[n]

-----------------------------------------------------------------------------
(* insert() *)

Idle == loop.at = "none"

InsertDuplicate(v) ==
    /\ Idle
    /\ findNode(tree, v) = v
    /\ ret' = FALSE
    /\ UNCHANGED <<tree, allocated, loop>>

Linked(v) ==
    LET parent == LastVisited(tree, v)
        node == [tree EXCEPT !.child = [s \in Sides |-> [@[s] EXCEPT ![v] = NIL]],
                             !.parent[v] = parent,
                             !.color[v] = "red"]
    IN  IF parent = NIL THEN [node EXCEPT !.root = v]
        ELSE Attach(node, parent, IF v < parent THEN "left" ELSE "right", v)

Insert(v) ==
    /\ Idle
    /\ findNode(tree, v) = NIL
    /\ allocated' = allocated \cup {v}
    /\ tree' = Linked(v)
    /\ loop' = [at |-> "fixInsert", x |-> v, z |-> NIL]
    /\ ret' = TRUE

Parent == tree.parent[loop.x]
Grandparent == tree.parent[Parent]
ParentSide == SideOf(tree, Parent)
Uncle == tree.child[Other(ParentSide)][Grandparent]

FixInsertRecolors ==
    /\ loop.at = "fixInsert"
    /\ IsRed(tree, Parent)
    /\ IsRed(tree, Uncle)
    /\ tree' = Paint(Paint(Paint(tree, Parent, "black"), Uncle, "black"),
                     Grandparent, "red")
    /\ loop' = [loop EXCEPT !.x = Grandparent]
    /\ UNCHANGED <<allocated, ret>>

\* The node is on the inner side: it is rotated outwards first.
\* Variant: the inner side is not looked at.
AlwaysOuter(t, n, s) == FALSE
IsInner(t, n, s) == n = t.child[Other(s)][t.parent[n]]

FixInsertRotates ==
    /\ loop.at = "fixInsert"
    /\ IsRed(tree, Parent)
    /\ ~IsRed(tree, Uncle)
    /\ LET inner == IsInner(tree, loop.x, ParentSide)
           x == IF inner THEN Parent ELSE loop.x
           t == IF inner THEN Rotate(tree, x, ParentSide) ELSE tree
           p == t.parent[x]
           g == t.parent[p]
       IN  /\ tree' = Rotate(Paint(Paint(t, p, "black"), g, "red"), g, Other(ParentSide))
           /\ loop' = [loop EXCEPT !.x = x]
    /\ UNCHANGED <<allocated, ret>>

FixInsertEnds ==
    /\ loop.at = "fixInsert"
    /\ ~IsRed(tree, Parent)
    /\ tree' = Paint(tree, tree.root, "black")
    /\ loop' = NoLoop
    /\ UNCHANGED <<allocated, ret>>

-----------------------------------------------------------------------------
(* erase() *)

EraseAbsent(v) ==
    /\ Idle
    /\ findNode(tree, v) = NIL
    /\ ret' = FALSE
    /\ UNCHANGED <<tree, allocated, loop>>

\* deleteNode(): the node that leaves its place, the one that moves up into
\* it, and the tree after that.
Spliced(t, z) ==
    LET y == Most(t, "left", t.child["right"][z])
        x == t.child["right"][y]
        isolated == IF t.parent[y] = z THEN [t EXCEPT !.parent[x] = y]
                    ELSE LET u == transplant(t, y, x)
                         IN  Attach(u, y, "right", u.child["right"][z])
        moved == transplant(isolated, z, y)
    IN  CASE t.child["left"][z] = NIL ->
               [y |-> z, x |-> t.child["right"][z],
                tree |-> transplant(t, z, t.child["right"][z])]
          [] t.child["left"][z] # NIL /\ t.child["right"][z] = NIL ->
               [y |-> z, x |-> t.child["left"][z],
                tree |-> transplant(t, z, t.child["left"][z])]
          [] OTHER ->
               [y |-> y, x |-> x,
                tree |-> Paint(Attach(moved, y, "left", moved.child["left"][z]),
                               y, t.color[z])]

\* What a released node looks like is nobody's business.
Released(t, z) ==
    [t EXCEPT !.child = [s \in Sides |-> [@[s] EXCEPT ![z] = NIL]],
              !.parent[z] = NIL, !.color[z] = "red"]

\* The place lost a black node.  Variant: the color is read after the node
\* has taken over the one of z.
LostBlackAfterwards(z, s) == ~IsRed(s.tree, s.y)
LostBlack(z, s) == ~IsRed(tree, s.y)

Erase(v) ==
    /\ Idle
    /\ findNode(tree, v) = v
    /\ LET s == Spliced(tree, v)
       IN  IF LostBlack(v, s)
           THEN /\ tree' = s.tree
                /\ loop' = [at |-> "fixDelete", x |-> s.x, z |-> v]
                /\ UNCHANGED allocated
           ELSE /\ tree' = Released(s.tree, v)
                /\ allocated' = allocated \ {v}
                /\ UNCHANGED loop
    /\ ret' = TRUE

Fixing == loop.at = "fixDelete" /\ loop.x # tree.root /\ ~IsRed(tree, loop.x)
Side == SideOf(tree, loop.x)
Sibling(t) == t.child[Other(Side)][t.parent[loop.x]]

\* The sibling of x is black from here on.
WithBlackSibling ==
    LET t == Paint(Paint(tree, Sibling(tree), "black"), Parent, "red")
    IN  IF IsRed(tree, Sibling(tree)) THEN Rotate(t, Parent, Side) ELSE tree

HasBlackChildren(t, n) == \A s \in Sides : ~IsRed(t, t.child[s][n])

FixDeleteMovesUp ==
    /\ Fixing
    /\ LET t == WithBlackSibling
       IN  /\ HasBlackChildren(t, Sibling(t))
           /\ tree' = Paint(t, Sibling(t), "red")
           /\ loop' = [loop EXCEPT !.x = t.parent[loop.x]]
    /\ UNCHANGED <<allocated, ret>>

\* The outer child of the sibling is red from here on.
WithRedNephew(t) ==
    LET w == Sibling(t)
        u == Paint(Paint(t, t.child[Side][w], "black"), w, "red")
    IN  IF IsRed(t, t.child[Other(Side)][w]) THEN t ELSE Rotate(u, w, Other(Side))

FixDeleteRotates ==
    /\ Fixing
    /\ ~HasBlackChildren(WithBlackSibling, Sibling(WithBlackSibling))
    /\ LET t == WithRedNephew(WithBlackSibling)
           w == Sibling(t)
           p == t.parent[loop.x]
           painted == Paint(Paint(Paint(t, w, t.color[p]), p, "black"),
                            t.child[Other(Side)][w], "black")
       IN  /\ tree' = Rotate(painted, p, Side)
           /\ loop' = [loop EXCEPT !.x = tree'.root]
    /\ UNCHANGED <<allocated, ret>>

FixDeleteEnds ==
    /\ loop.at = "fixDelete"
    /\ ~Fixing
    /\ tree' = Released(Paint(tree, loop.x, "black"), loop.z)
    /\ allocated' = allocated \ {loop.z}
    /\ loop' = NoLoop
    /\ UNCHANGED ret

-----------------------------------------------------------------------------
\* The destructor.
Destroy ==
    /\ Idle
    /\ allocated' = allocated \ Subtree(tree, tree.root)
    /\ tree' = Empty
    /\ UNCHANGED <<loop, ret>>

Operation(v) == InsertDuplicate(v) \/ Insert(v) \/ EraseAbsent(v) \/ Erase(v)
Fix == \/ FixInsertRecolors \/ FixInsertRotates \/ FixInsertEnds
       \/ FixDeleteMovesUp \/ FixDeleteRotates \/ FixDeleteEnds

Next == (\E v \in Values : Operation(v)) \/ Fix \/ Destroy

Spec == Init /\ [][Next]_vars

-----------------------------------------------------------------------------
(* Properties *)

Reachable == Subtree(tree, tree.root)

\* The links of the nodes, at every moment.
LinksAreSound ==
    /\ Reachable = allocated \ {loop.z}
    /\ tree.root # NIL => tree.parent[tree.root] = NIL
    /\ \A n \in Reachable : \A s \in Sides :
          tree.child[s][n] # NIL => tree.parent[tree.child[s][n]] = n
    /\ \A n \in Reachable :
          /\ \A m \in Subtree(tree, tree.child["left"][n]) : m < n
          /\ \A m \in Subtree(tree, tree.child["right"][n]) : n < m
    /\ \A s \in Sides : tree.child[s][NIL] = NIL
    /\ ~IsRed(tree, NIL)

\* In fixDelete() the node x stands for one black node more than there is.
Extra(n, s) ==
    IF loop.at = "fixDelete" /\ tree.child[s][n] = loop.x /\ tree.parent[loop.x] = n
    THEN 1 ELSE 0

\* The black nodes on each path down from n, or -1 if the paths differ.
BlackHeight(n) ==
    LET height[m \in Nodes] ==
          IF m = NIL THEN 0
          ELSE LET l == height[tree.child["left"][m]] + Extra(m, "left")
                   r == height[tree.child["right"][m]] + Extra(m, "right")
               IN  IF l # r \/ l < 0 THEN -1
                   ELSE l + (IF IsRed(tree, m) THEN 0 ELSE 1)
    IN  height[n]

RedBelowRed == {n \in Reachable : IsRed(tree, n) /\ IsRed(tree, tree.parent[n])}

\* The tree is balanced after every insert() and erase(), and while a loop
\* runs it is wrong at its node x only: the loops repair every shape that a
\* sequence of operations can reach, through all their cases.
RedBlack ==
    /\ LinksAreSound
    /\ BlackHeight(tree.root) >= 0
    /\ \A n \in RedBelowRed : ~Idle /\ loop.x \in {n, tree.parent[n]}
    /\ Idle => ~IsRed(tree, tree.root)

\* How many nodes there are above n.
Depth(n) == Cardinality({m \in Reachable : tree.parent[n] \in Subtree(tree, m)})

Continues == \/ loop.at = "fixInsert" /\ IsRed(tree, Parent)
             \/ Fixing

\* An iteration brings the node of the loop nearer to the root, or is the last
\* one: no shape of the tree makes a loop turn round for ever, and its
\* iterations are as many as the tree is high.
LoopsEnd == [][Continues /\ Continues' => Depth(loop.x)' < Depth(loop.x)]_vars

Ordered == INSTANCE OrderedSet WITH
        set <- {v \in Values : findNode(tree, v) = v},
        ends <- <<End(tree, "left"), End(tree, "right")>>

\* insert() and erase() change what find() finds, and what minimum() and
\* maximum() return, by their value and nothing else, at one moment.
ImplementsOrderedSet == Ordered!Spec

=============================================================================
