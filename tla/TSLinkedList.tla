---------------------------- MODULE TSLinkedList ----------------------------
(***************************************************************************)
(* TSLinkedList, the lock-free queue of the scheduler, with the allocator  *)
(* that recycles its nodes and the reclamation scheme that decides when.   *)
(*                                                                         *)
(* Every step is one access to shared memory: a load or a CAS of head_,    *)
(* tail_ or of a next_ field, entering or leaving a region.  The node that *)
(* push_back() prepares, and the thread's own cache of free nodes, belong  *)
(* to one thread and change in a single step.  Scheduler::init() calls     *)
(* init() before it creates the other threads, so the call at the top of   *)
(* both operations finds head_ set and returns at once.                    *)
(*                                                                         *)
(* Epochs are replaced by what they promise (GracePeriod): exit_epoch()    *)
(* releases from the front of the thread's retire list, as far as the      *)
(* grace periods are over, or less far.  Memory keeps its contents when it *)
(* is released or deleted; addresses are reused.                           *)
(*                                                                         *)
(* A definition marked "Variant" is a plausible mistake in the code, kept  *)
(* beside the definition it would replace.  No action uses it.             *)
(***************************************************************************)
EXTENDS Integers, Sequences, FiniteSets

CONSTANTS Threads,          \* the users of the queue
          Main,             \* the one that runs init() and destroy()
          Nodes,            \* addresses of nodes; a bound on the heap
          Values,           \* the coroutines that are queued
          NULL,             \* nullptr
          CACHE_COUNT,      \* TS_LINKED_LIST_NODE_CACHE_COUNT
          BATCH_COUNT,      \* TS_LINKED_LIST_NODE_CACHE_BATCH_RELEASE_COUNT
          TAG_LIMIT         \* number of tags: 2^16 in the code

\* The address space is finite: Chain() looks no further than all of it.
ASSUME NodesAssumption == IsFiniteSet(Nodes)
ASSUME MainAssumption == Main \in Threads
ASSUME NullAssumption == NULL \notin Nodes \cup Values
ASSUME CacheAssumption == BATCH_COUNT \in 1 .. CACHE_COUNT /\ CACHE_COUNT \in Nat
ASSUME TagAssumption == TAG_LIMIT \in Nat \ {0}

VARIABLES
    head_, tail_,                   \* the two ends of the queue
    next_, value_, released_,       \* node -> its fields
    heap,                           \* nodes that are not allocated
    cache_head, cache_count,        \* thread -> its TSLinkedListNodeCache
    active, retire_list, blockers,  \* the reclamation scheme
    pc,                             \* thread -> where it is
    first, last, next, node,        \* thread -> its local pointers
    op, done, val                   \* thread -> its operation, whether it took
                                    \* effect, and its argument or result

memory == <<next_, value_, released_, heap>>
cache == <<cache_head, cache_count>>
ebr == <<active, retire_list, blockers>>
pointers == <<first, last, next, node>>
call == <<op, done, val>>
vars == <<head_, tail_, memory, cache, ebr, pc, pointers, call>>

-----------------------------------------------------------------------------
(* Tagged pointers *)

TaggedPtr == [node : Nodes \cup {NULL}, tag : 0 .. TAG_LIMIT - 1]
Ptr(n) == [node |-> n, tag |-> 0]
Null == Ptr(NULL)

\* increment_tag(): the tag wraps around without touching the address.
IncrementTag(p) == [p EXCEPT !.tag = (@ + 1) % TAG_LIMIT]

\* The pointers found by following the next fields nx from p.
Chain(nx, p) ==
    LET f[k \in 0 .. Cardinality(Nodes)] ==
          IF k = 0 THEN p
          ELSE IF f[k - 1].node = NULL THEN Null
          ELSE nx[f[k - 1].node]
    IN  f
NodesFrom(p) ==
    {Chain(next_, p)[k].node : k \in 0 .. Cardinality(Nodes)} \ {NULL}

-----------------------------------------------------------------------------
(* TSLinkedListNodeAllocator *)

CacheIsEmpty(t) == cache_head[t].node = NULL

\* get(): the pointers it may return.
Gettable(t) == IF CacheIsEmpty(t) THEN {Ptr(n) : n \in heap} ELSE {cache_head[t]}

\* get(): what it does when it returns p, which the caller then fills with v.
Get(t, p, v) ==
    /\ IF CacheIsEmpty(t)
       THEN heap' = heap \ {p.node} /\ UNCHANGED cache
       ELSE /\ cache_head' = [cache_head EXCEPT ![t] = next_[p.node]]
            /\ cache_count' = [cache_count EXCEPT ![t] = @ - 1]
            /\ UNCHANGED heap
    /\ released_' = [released_ EXCEPT ![p.node] = FALSE]
    /\ next_' = [next_ EXCEPT ![p.node] = Null]
    /\ value_' = [value_ EXCEPT ![p.node] = v]

\* A full cache gives a batch back to the heap.
CacheIsFull(count) == count >= CACHE_COUNT

\* Variant: the batch is deleted, but stays in the cache.
KeepsBatch(c) == c[0]
AfterBatch(c) == c[BATCH_COUNT]

\* release(): p goes to the front of t's cache.
Release(t, p) ==
    LET nx == [next_ EXCEPT ![p.node] = cache_head[t]]
        c  == Chain(nx, p)
        count == cache_count[t] + 1
    IN  /\ next_' = nx
        /\ released_' = [released_ EXCEPT ![p.node] = TRUE]
        /\ IF CacheIsFull(count)
           THEN /\ heap' = heap \cup {c[k].node : k \in 0 .. BATCH_COUNT - 1}
                /\ cache_head' = [cache_head EXCEPT ![t] = AfterBatch(c)]
                /\ cache_count' = [cache_count EXCEPT ![t] = count - BATCH_COUNT]
           ELSE /\ cache_head' = [cache_head EXCEPT ![t] = p]
                /\ cache_count' = [cache_count EXCEPT ![t] = count]
                /\ UNCHANGED heap
        /\ UNCHANGED value_

-----------------------------------------------------------------------------
Init ==
    /\ head_ = Null
    /\ tail_ = Null
    /\ heap = Nodes
    /\ next_ = [n \in Nodes |-> Null]
    /\ value_ = [n \in Nodes |-> NULL]
    /\ released_ = [n \in Nodes |-> FALSE]
    /\ cache_head = [t \in Threads |-> Null]
    /\ cache_count = [t \in Threads |-> 0]
    /\ active = {}
    /\ retire_list = [t \in Threads |-> <<>>]
    /\ blockers = [n \in Nodes |-> {}]
    /\ pc = [t \in Threads |-> "idle"]
    /\ first = [t \in Threads |-> Null]
    /\ last = [t \in Threads |-> Null]
    /\ next = [t \in Threads |-> Null]
    /\ node = [t \in Threads |-> Null]
    /\ op = [t \in Threads |-> "none"]
    /\ done = [t \in Threads |-> FALSE]
    /\ val = [t \in Threads |-> NULL]

Goto(t, here, there) == pc[t] = here /\ pc' = [pc EXCEPT ![t] = there]

EnterEpoch(t) ==
    /\ active' = active \cup {t}
    /\ UNCHANGED <<retire_list, blockers>>

Retire(t, p) ==
    /\ retire_list' = [retire_list EXCEPT ![t] = Append(@, p)]
    /\ blockers' = [blockers EXCEPT ![p.node] = active]
    /\ UNCHANGED active

-----------------------------------------------------------------------------
\* The queue has its dummy node: init() has nothing to do, and the threads
\* that Main creates afterwards exist.
Initialized == head_ # Null

\* init(), called by Main on its own.
InitQueue ==
    /\ pc[Main] = "idle"
    /\ ~Initialized
    /\ \E dummy \in Gettable(Main) :
          /\ Get(Main, dummy, NULL)
          /\ head_' = dummy
          /\ tail_' = dummy
    /\ UNCHANGED <<ebr, pc, pointers, call>>

-----------------------------------------------------------------------------
(* push_back() *)

\* Called with a coroutine; the node is prepared before it is published.
\* The guard on Gettable is the bound on the heap.
CallPush(t, v) ==
    /\ Initialized
    /\ Goto(t, "idle", "push_enter")
    /\ \E p \in Gettable(t) :
          /\ Get(t, p, v)
          /\ node' = [node EXCEPT ![t] = IncrementTag(p)]
    /\ op' = [op EXCEPT ![t] = "push"]
    /\ val' = [val EXCEPT ![t] = v]
    /\ UNCHANGED <<head_, tail_, ebr, first, last, next, done>>

\* Variant: push_back() forgets to enter a region.
StaysOutside(t) == UNCHANGED ebr
PushEntersEpoch(t) == EnterEpoch(t)

PushEnter(t) ==
    /\ Goto(t, "push_enter", "push_last")
    /\ PushEntersEpoch(t)
    /\ UNCHANGED <<head_, tail_, memory, cache, pointers, call>>

PushLoadTail(t) ==
    /\ Goto(t, "push_last", "push_next")
    /\ last' = [last EXCEPT ![t] = tail_]
    /\ UNCHANGED <<head_, tail_, memory, cache, ebr, first, next, node, call>>

PushLoadNext(t) ==
    /\ LET n == next_[last[t].node]
       IN  /\ Goto(t, "push_next", IF n.node = NULL THEN "push_link" ELSE "help")
           /\ next' = [next EXCEPT ![t] = n]
    /\ UNCHANGED <<head_, tail_, memory, cache, ebr, first, last, node, call>>

\* The CAS that links the node: the operation takes effect.
\* Variant: a store, without looking at what is there.
LinksBlindly(t) == TRUE
CanLink(t) == next_[last[t].node] = next[t]

PushLink(t) ==
    /\ Goto(t, "push_link", "push_swing")
    /\ CanLink(t)
    /\ next_' = [next_ EXCEPT ![last[t].node] = node[t]]
    /\ done' = [done EXCEPT ![t] = TRUE]
    /\ UNCHANGED <<head_, tail_, value_, released_, heap, cache, ebr, pointers, op, val>>

PushLinkFails(t) ==
    /\ Goto(t, "push_link", "exit")
    /\ ~CanLink(t)
    /\ UNCHANGED <<head_, tail_, memory, cache, ebr, pointers, call>>

\* Move tail_ to the new node, unless someone moved it already.
PushSwing(t) ==
    /\ Goto(t, "push_swing", "exit")
    /\ tail_' = IF tail_ = last[t] THEN node[t] ELSE tail_
    /\ UNCHANGED <<head_, memory, cache, ebr, pointers, call>>

\* Both operations: tail_ has fallen behind; move it one node further.
\* Variants: a store, without looking at what is there; nothing.
MovesBlindly(t) == next[t]
DoesNotHelp(t) == tail_
HelpedTail(t) == IF tail_ = last[t] THEN next[t] ELSE tail_

Help(t) ==
    /\ Goto(t, "help", "exit")
    /\ tail_' = HelpedTail(t)
    /\ UNCHANGED <<head_, memory, cache, ebr, pointers, call>>

-----------------------------------------------------------------------------
(* pop_front() *)

CallPop(t) ==
    /\ Initialized
    /\ Goto(t, "idle", "pop_enter")
    /\ op' = [op EXCEPT ![t] = "pop"]
    /\ UNCHANGED <<head_, tail_, memory, cache, ebr, pointers, done, val>>

PopEnter(t) ==
    /\ Goto(t, "pop_enter", "pop_first")
    /\ EnterEpoch(t)
    /\ UNCHANGED <<head_, tail_, memory, cache, pointers, call>>

PopLoadHead(t) ==
    /\ Goto(t, "pop_first", "pop_last")
    /\ first' = [first EXCEPT ![t] = head_]
    /\ UNCHANGED <<head_, tail_, memory, cache, ebr, last, next, node, call>>

PopLoadTail(t) ==
    /\ Goto(t, "pop_last", "pop_next")
    /\ last' = [last EXCEPT ![t] = tail_]
    /\ UNCHANGED <<head_, tail_, memory, cache, ebr, first, next, node, call>>

\* The queue looks empty to t.  Variant: the successor is not looked at.
EmptyIfSame(t, n) == first[t].node = last[t].node
LooksEmpty(t, n) == first[t].node = last[t].node /\ n.node = NULL

\* The load that finds no successor of the dummy: the operation takes effect.
PopEmpty(t) ==
    /\ Goto(t, "pop_next", "exit")
    /\ LooksEmpty(t, next_[first[t].node])
    /\ done' = [done EXCEPT ![t] = TRUE]
    /\ UNCHANGED <<head_, tail_, memory, cache, ebr, pointers, op, val>>

PopLoadNext(t) ==
    /\ LET n == next_[first[t].node]
       IN  /\ Goto(t, "pop_next", IF first[t].node = last[t].node THEN "help"
                                  ELSE IF n.node # NULL THEN "pop_value" ELSE "exit")
           /\ ~LooksEmpty(t, n)
           /\ next' = [next EXCEPT ![t] = n]
    /\ UNCHANGED <<head_, tail_, memory, cache, ebr, first, last, node, call>>

PopReadValue(t) ==
    /\ Goto(t, "pop_value", "pop_cas")
    /\ val' = [val EXCEPT ![t] = value_[next[t].node]]
    /\ UNCHANGED <<head_, tail_, memory, cache, ebr, pointers, op, done>>

\* The CAS that unlinks the first node: the operation takes effect.
\* Variant: a store, without looking at what is there.
UnlinksBlindly(t) == TRUE
CanUnlink(t) == head_ = first[t]

PopUnlink(t) ==
    /\ Goto(t, "pop_cas", "pop_retire")
    /\ CanUnlink(t)
    /\ head_' = next[t]
    /\ done' = [done EXCEPT ![t] = TRUE]
    /\ UNCHANGED <<tail_, memory, cache, ebr, pointers, op, val>>

PopUnlinkFails(t) ==
    /\ Goto(t, "pop_cas", "exit")
    /\ ~CanUnlink(t)
    /\ val' = [val EXCEPT ![t] = NULL]
    /\ UNCHANGED <<head_, tail_, memory, cache, ebr, pointers, op, done>>

\* What pop_front() retires: the old dummy.  Variant: the new one.
RetiresNewDummy(t) == next[t]
OldDummy(t) == first[t]

PopRetire(t) ==
    /\ Goto(t, "pop_retire", "exit")
    /\ Retire(t, OldDummy(t))
    /\ UNCHANGED <<head_, tail_, memory, cache, pointers, call>>

-----------------------------------------------------------------------------
(* Both operations leave the region, reclaim, and return or start over. *)

ExitEpoch(t) ==
    /\ Goto(t, "exit", "reclaim")
    /\ active' = active \ {t}
    /\ blockers' = [n \in Nodes |-> blockers[n] \ {t}]
    /\ UNCHANGED <<head_, tail_, memory, cache, retire_list, pointers, call>>

\* Variant: the grace period is ignored.
ReleasesAtOnce(p) == TRUE
GraceIsOver(p) == blockers[p.node] = {}

Reclaim(t) ==
    /\ pc[t] = "reclaim"
    /\ retire_list[t] # <<>>
    /\ GraceIsOver(Head(retire_list[t]))
    /\ Release(t, Head(retire_list[t]))
    /\ retire_list' = [retire_list EXCEPT ![t] = Tail(@)]
    /\ UNCHANGED <<head_, tail_, active, blockers, pc, pointers, call>>

\* Where t goes next: back into its loop, out of it, or on with destroy().
AfterExit(t) ==
    IF done[t] THEN "idle"
    ELSE IF op[t] = "push" THEN "push_enter"
    ELSE IF op[t] = "pop" THEN "pop_enter"
    ELSE "drain"

ReclaimDone(t) ==
    /\ Goto(t, "reclaim", AfterExit(t))
    /\ first' = [first EXCEPT ![t] = Null]
    /\ last' = [last EXCEPT ![t] = Null]
    /\ next' = [next EXCEPT ![t] = Null]
    /\ IF done[t]
       THEN /\ node' = [node EXCEPT ![t] = Null]
            /\ op' = [op EXCEPT ![t] = "none"]
            /\ done' = [done EXCEPT ![t] = FALSE]
            /\ val' = [val EXCEPT ![t] = NULL]
       ELSE UNCHANGED <<node, call>>
    /\ UNCHANGED <<head_, tail_, memory, cache, ebr>>

-----------------------------------------------------------------------------
(* Shutdown: Main joins the others, then destroys the queue, the           *)
(* reclamation scheme and the allocator, in this order.                    *)

Leave(t) ==
    /\ t # Main
    /\ Initialized
    /\ Goto(t, "idle", "joined")
    /\ UNCHANGED <<head_, tail_, memory, cache, ebr, pointers, call>>

\* TSLinkedList::destroy(): first walks over the nodes that are left.
DestroyEnter ==
    /\ Initialized
    /\ Goto(Main, "idle", "destroy")
    /\ \A t \in Threads \ {Main} : pc[t] = "joined"
    /\ EnterEpoch(Main)
    /\ first' = [first EXCEPT ![Main] = head_]
    /\ UNCHANGED <<head_, tail_, memory, cache, last, next, node, call>>

DestroyRetire ==
    /\ pc[Main] = "destroy"
    /\ first[Main].node # NULL
    /\ Retire(Main, first[Main])
    /\ first' = [first EXCEPT ![Main] = next_[first[Main].node]]
    /\ UNCHANGED <<head_, tail_, memory, cache, pc, last, next, node, call>>

DestroyExit ==
    /\ Goto(Main, "destroy", "exit")
    /\ first[Main].node = NULL
    /\ head_' = Null
    /\ tail_' = Null
    /\ UNCHANGED <<memory, cache, ebr, pointers, call>>

\* Variant: destroy() drains the retire list of its own thread only.
DrainsOwnList == {Main}
ListsToDrain == Threads

\* EpochBasedReclamation::destroy() releases into the cache of Main.
Drain(t) ==
    /\ pc[Main] = "drain"
    /\ t \in ListsToDrain
    /\ retire_list[t] # <<>>
    /\ Release(Main, Head(retire_list[t]))
    /\ retire_list' = [retire_list EXCEPT ![t] = Tail(@)]
    /\ UNCHANGED <<head_, tail_, active, blockers, pc, pointers, call>>

DrainDone ==
    /\ Goto(Main, "drain", "free")
    /\ \A t \in ListsToDrain : retire_list[t] = <<>>
    /\ UNCHANGED <<head_, tail_, memory, cache, ebr, pointers, call>>

\* TSLinkedListNodeAllocator::destroy() deletes what is in every cache.
FreeCaches ==
    /\ Goto(Main, "free", "joined")
    /\ heap' = heap \cup UNION {NodesFrom(cache_head[t]) : t \in Threads}
    /\ cache_head' = [t \in Threads |-> Null]
    /\ UNCHANGED <<head_, tail_, next_, value_, released_, cache_count, ebr, pointers, call>>

Destroy ==
    \/ DestroyEnter \/ DestroyRetire \/ DestroyExit
    \/ \E t \in Threads : Drain(t)
    \/ DrainDone \/ FreeCaches

AllJoined == \A t \in Threads : pc[t] = "joined"
Terminated == AllJoined /\ UNCHANGED vars

-----------------------------------------------------------------------------
Step(t) ==
    \/ PushEnter(t) \/ PushLoadTail(t) \/ PushLoadNext(t) \/ PushLink(t)
    \/ PushLinkFails(t) \/ PushSwing(t) \/ Help(t)
    \/ PopEnter(t) \/ PopLoadHead(t) \/ PopLoadTail(t) \/ PopEmpty(t)
    \/ PopLoadNext(t) \/ PopReadValue(t) \/ PopUnlink(t) \/ PopUnlinkFails(t)
    \/ PopRetire(t)
    \/ ExitEpoch(t) \/ Reclaim(t) \/ ReclaimDone(t)

Next ==
    \/ InitQueue
    \/ \E t \in Threads, v \in Values : CallPush(t, v)
    \/ \E t \in Threads : CallPop(t) \/ Leave(t) \/ Step(t)
    \/ Destroy
    \/ Terminated

Spec == Init /\ [][Next]_vars

\* The operating system keeps one thread running, here Main; the others may
\* be preempted for ever at any step.
FairSpec == Spec /\ WF_vars(Destroy \/ Step(Main))

-----------------------------------------------------------------------------
(* Properties *)

TypeOK ==
    /\ head_ \in TaggedPtr /\ tail_ \in TaggedPtr
    /\ next_ \in [Nodes -> TaggedPtr]
    /\ value_ \in [Nodes -> Values \cup {NULL}]
    /\ released_ \in [Nodes -> BOOLEAN]
    /\ heap \subseteq Nodes
    /\ cache_head \in [Threads -> TaggedPtr]
    /\ cache_count \in [Threads -> 0 .. CACHE_COUNT]
    /\ active \subseteq Threads
    /\ retire_list \in [Threads -> Seq(TaggedPtr)]
    /\ blockers \in [Nodes -> SUBSET Threads]
    /\ \A local \in {first, last, next, node} : local \in [Threads -> TaggedPtr]
    /\ op \in [Threads -> {"none", "push", "pop"}]
    /\ done \in [Threads -> BOOLEAN]
    /\ val \in [Threads -> Values \cup {NULL}]

\* The pointers t is about to follow.
Dereferenced(t) ==
    CASE pc[t] \in {"push_next", "push_link"} -> {last[t]}
      [] pc[t] = "pop_next" -> {first[t], last[t]}
      [] pc[t] = "pop_value" -> {next[t]}
      [] pc[t] = "destroy" /\ first[t].node # NULL -> {first[t]}
      [] OTHER -> {}

\* The asserts of pop_front() on released_, and the same for every other
\* pointer: nobody follows a pointer to a node that was released or deleted
\* since the pointer was loaded.
NoUseAfterFree ==
    \A t \in Threads : \A p \in Dereferenced(t) :
        p.node \in Nodes \ heap /\ ~released_[p.node]

\* The nodes that make up the queue, the dummy first.
ListNodes == NodesFrom(IF pc[Main] = "destroy" THEN first[Main] ELSE head_)

\* pop_front() moves head_ past a node only when tail_ is beyond it, so the
\* tail never points to a node that may be retired; and tail_ is at most one
\* node behind the end, so one helping step repairs it.
TailStaysOnList ==
    head_ # Null /\ pc[Main] # "destroy" =>
        /\ tail_.node \in ListNodes
        /\ next_[tail_.node].node # NULL => next_[next_[tail_.node].node].node = NULL

Places(n) ==
         {<<"heap">> : x \in {n} \cap heap}
    \cup {<<"queue">> : x \in {n} \cap ListNodes}
    \cup {<<"cache", t>> : t \in {t \in Threads : n \in NodesFrom(cache_head[t])}}
    \cup (UNION {{<<"retired", t, k>> : k \in {k \in DOMAIN retire_list[t] :
                                                 retire_list[t][k].node = n}}
                  : t \in Threads})
    \cup {<<"prepared", t>> : t \in {t \in Threads : op[t] = "push" /\ ~done[t]
                                                     /\ node[t].node = n}}
    \cup {<<"unlinked", t>> : t \in {t \in Threads : pc[t] = "pop_retire"
                                                     /\ first[t].node = n}}

\* No node is lost and none is in two places, whoever holds it.
EachNodeInOnePlace == \A n \in Nodes : Cardinality(Places(n)) = 1

\* The cache knows its length and stays below the limit.
CachesAreBounded ==
    pc[Main] # "joined" =>
        \A t \in Threads : /\ cache_count[t] = Cardinality(NodesFrom(cache_head[t]))
                           /\ cache_count[t] < CACHE_COUNT

\* The accounting of the nodes, through list, retire lists, caches and heap,
\* which share the one next_ field: nothing lost, nothing doubled, and the
\* caches as long as their count says when half of one is deleted.
QueueInvariant == TypeOK /\ EachNodeInOnePlace /\ CachesAreBounded

\* Lock freedom: a thread that keeps running, while the others may stall in
\* the middle of an operation, does not run in circles unless operations keep
\* taking effect.
LockFree ==
    \/ <>[](op[Main] = "none")
    \/ []<><<\E t \in Threads : ~done[t] /\ done'[t]>>_vars

\* Once the last user is gone and Main has run destroy(), every node that was
\* ever allocated has been deleted.
AllNodesFreed ==
    (\A t \in Threads \ {Main} : pc[t] = "joined") /\ pc[Main] = "destroy"
        ~> AllJoined /\ heap = Nodes

-----------------------------------------------------------------------------
(* Refinement *)

QueueContents ==
    LET c == Chain(next_, head_)
        linked == {k \in 1 .. Cardinality(Nodes) : c[k].node # NULL}
    IN  [k \in 1 .. Cardinality(linked) |-> value_[c[k].node]]

\* What a pop_front() that has not taken effect has read does not count.
VisibleVal == [t \in Threads |-> IF op[t] = "pop" /\ ~done[t] THEN NULL ELSE val[t]]

JQ == INSTANCE JobQueue WITH queue <- QueueContents, val <- VisibleVal

\* Every push_back() and pop_front() takes effect at one moment between its
\* call and its return, in first-in first-out order.
Linearizable == JQ!Spec

RetiredNodes == {n \in Nodes : \E t \in Threads : \E k \in DOMAIN retire_list[t] :
                                  retire_list[t][k].node = n}

GP == INSTANCE GracePeriod WITH retired <- RetiredNodes

\* The queue keeps its side of the bargain with the reclamation scheme: it
\* retires inside a region only, and a node once only.
UsesGracePeriods == GP!Spec

=============================================================================
