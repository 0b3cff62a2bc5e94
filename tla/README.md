# RockCoro in TLA+

RockCoro is a C++ coroutine library: worker threads run stackful coroutines
from a shared lock-free job queue, a timer thread wakes sleeping coroutines,
and the nodes of the queue are recycled by epoch-based reclamation. This
directory holds TLA+ models of these parts and of the containers that come
with them, the TLC instances that check them, and TLAPS proofs of the safety of
the reclamation scheme, the queue, the scheduler, the timer and four of the
containers.

Paths below are relative to the repository. `PROJECT.json` lists components,
runs, mutants, hazards and theorems, and maps every definition to the lines it
models.

## The system

| Part | State | Operations | Used by |
|---|---|---|---|
| `EpochBasedReclamation` (src/memory) | global and gc epoch, one status word and one retire list per thread slot | enter, exit, retire; `advance_epoch` every 20 ms; destroy | the queue |
| `TSLinkedList` (src/memory) | `head_`, `tail_`, nodes with tagged `next_`; per-thread node caches | init, push_back, pop_front, destroy; node get and release | the scheduler |
| `Scheduler`, `TLScheduler` (src/scheduler) | job queue, semaphore, `running_`; per worker the current coroutine and three pending slots | create, yield, sleep, return; `event_loop`; destroy | programs |
| Coroutine, context switch (src/coroutine) | registers, stack | init, swap, entry, exit | the scheduler |
| `TimerManager` (src/timer) | three wheels of 60 slots, the pending list | add_event; the tick loop | the scheduler |
| bootstrap (src/bootstrap.cpp) | – | init and destroy in a fixed order | programs |
| `Deque` (src/basic_struct) | ring buffer, head, size | push_back with growth, pop_front | retire lists |
| `RBTree` | nodes, root, sentinel | insert, erase, find, minimum, maximum | programs |
| `MinHeap`, `ObjectPool` | array of objects that know their index; free list and blocks | emplace, pop, top, update | programs |
| `ChunkedVector` | blocks, total size | push_back, pop_back, resize, index | programs |
| `Queue` | ring of lazily allocated segments | push, pop | programs |
| `Vector` | owned memory, size, capacity | copy, move, push_back with growth, pop_back | programs |

Interaction. A worker takes a job (`pop_front`, under the semaphore), switches
to it, and when the coroutine yields, sleeps or returns it switches back and
flushes its pending slots: push to the queue, delete, or hand to the timer. The
timer thread takes the handed-over coroutines from its pending list, puts them
on a wheel, and pushes those that are due to the job queue. Every operation of
the queue runs inside a region of the reclamation scheme; the node that
`pop_front` unlinks is retired and goes back to the caller's node cache once
every region that was open has ended. The containers are sequential; only
`Deque` is used by the library itself, and `ObjectPool` by `MinHeap`.

What is hard:

* **EBR**: three unsynchronised readers and writers of the status words; a
  thread that stalls between reading the global epoch and announcing it while
  the maintainer passes by.
* **Queue**: linking and moving the tail are two steps; loads of `head_`,
  `tail_`, `next_` are not a snapshot; addresses are reused.
* **Scheduler**: a coroutine must not be visible to others before its context
  is saved; yields skip the semaphore on both sides; shutdown with workers
  waiting.
* **Timer**: slot arithmetic over three wheels and the cascade between them;
  a tick loop that is late and catches up.
* **Containers**: long sequences of legal calls. The fix-up loops of the tree
  have cases that need trees of several levels, and pass through a sentinel
  that is shared; the heap trusts indices that its swaps maintain; resizing
  stops exactly on the border of a block; a ring is full or empty; memory
  changes owner between vectors.

`PROJECT.json` "hazards" names each of these at its line, and the properties
that cover it.

## Modules

| Module | What it is |
|---|---|
| `GracePeriod` | what a reclamation scheme promises: a retired node is released only after every region that was open when it was retired has ended |
| `EpochReclamation` | epoch_based_reclamation.cpp, one atomic access a step; implements `GracePeriod` |
| `EpochReclamation_proofs` | its theorems |
| `JobQueue` | what the queue promises: a linearizable FIFO queue |
| `TSLinkedList` | ts_linked_list.h and .cpp over grace periods; implements `JobQueue`, uses `GracePeriod` |
| `TSLinkedList_proofs` | its theorems: chains of nodes, the inductive invariant, one lemma for each step; then `JobQueue` and `GracePeriod` |
| `CoroutineLifecycle` | what the scheduler promises: a coroutine is unused, ready, running on one worker, or asleep |
| `Scheduler` | scheduler.cpp, tl_scheduler.cpp, the context switches; implements `CoroutineLifecycle` |
| `Scheduler_proofs` | its theorems |
| `TimeWheel` | timewheel.cpp |
| `TimeWheel_proofs` | its theorems |
| `Fifo` | what a retire list promises: first in, first out |
| `Deque` | deque.h, the ring buffer of a retire list; implements `Fifo` |
| `OrderedSet` | what a search tree promises: a set and its two ends |
| `RedBlackTree` | red_black_tree.h, one iteration of a loop a step; implements `OrderedSet` |
| `RedBlackTree_proofs` | its theorems |
| `PriorityQueue`, `MinHeap` | what a heap promises; min_heap.h over object_pool.h |
| `DynamicArray`, `ChunkedVector` | what a resizable array promises; chunked_vector.h |
| `HandoutQueue`, `SegmentedQueue` | what a queue promises that hands out pointers to its items; queue.h |
| `ValueSequences`, `Vector` | what copies and moves of sequences promise; vector.h |
| `MCTSLinkedList`, `MCScheduler`, `MCTimeWheel` | symmetry sets for TLC |
| `MCRedBlackTree` | the order of insertions that makes high trees |
| `Containers` | one instance of each of the sequential containers, of which each behaviour uses one |
| `Rings_proofs` | the theorems of `Deque` and `SegmentedQueue` |
| `Arrays_proofs` | the theorems of `Vector` and `ChunkedVector` |
| `MinHeap_proofs` | the theorems of `MinHeap` |

The layers are joined by the abstract modules: `TSLinkedList` is checked over
`GracePeriod`'s rules instead of over epochs (and `UsesGracePeriods` checks
that it keeps its side), `Scheduler` uses a queue that behaves as `JobQueue`,
and leaves the choice of who is due to `TimeWheel`. The retire lists of
`EpochReclamation` are the sequences that `Deque` implements.

### EpochReclamation

`pc[t]` walks through `enter_epoch` (load the slot, load the global epoch,
CAS), the region, and `exit_epoch` (CAS, load `gc_epoch_`, reclaim loop); `mpc`
walks through `advance_epoch` (load and increment, load the count, and for each
slot a load and a CAS, store `gc_epoch_`). A status word is a record of epoch
and active bit. `blockers` is a history variable: for each node the threads
that were in a region when it was retired and have not left it since. Loads
that nobody can disturb are folded into the next step; the module's header
lists them. `MaxEpoch` bounds the maintainer in TLC; the proofs hold for every
value of it. `destroy()` runs when every thread has left for good.

### TSLinkedList

Main calls `init()` first, as `Scheduler::init()` does before it creates the
other threads, and `destroy()` last. One step per load or CAS of shared
memory. The node that `push_back` prepares
and the thread's node cache are touched by one thread only and change in one
step. `done[t]` marks the step at which an operation takes effect: the CAS that
links, the CAS that unlinks, or the load that finds no successor. Released and
deleted nodes keep their contents and their addresses are reused, also through
`delete` and `new`, which is how ABA would show. `exit_epoch` may release the
front of the retire list when its grace period is over, or stop earlier, which
covers every state of the epochs.

### Scheduler

`pc[w]` follows `event_loop`, the running coroutine (`run`: it may yield,
sleep, create, return) and the flushes. `job_push` is two steps, `push_back` and
`sem_post`. `context[c]` says what the saved context of a coroutine is worth:
`fresh` (never run), `live` (somebody is on the stack), `saved`. Main creates
coroutines and calls `destroy`. A flush acts on its slot and clears it in one
step, since no other thread looks at the slots of a worker.

### TimeWheel

Time advances by one tick interval. `lag` is the current time minus the time of
the next tick: negative while there is time to sleep, positive up to `MaxLag`
when the thread is late. A tick with its whole cascade is one step because only
the timer thread touches the wheels; the lists are sequences, not linked nodes.
The pending list is drained one event at a time and workers add to it at any
moment, also after `running_` was cleared. `Turned` is the indices after the tick,
`GoesTo` the wheel and slot an event is put on. `asked`, `age`, `elapsed` and
`lagAtAdd` are history variables for the properties; they count up to `Horizon`,
which is proved to be further than any sleeper gets.

### Deque

The buffer maps an index to the element constructed there, or to `RAW`.
`push_back` is two actions, with and without `ensure_capacity` replacing the
buffer; growth is one step, the old buffer and its elements are gone after it. `MaxSize` bounds the number of elements in TLC; the proofs hold for
every value of it. `INITIAL_CAPACITY` is 0 in the run, so that the buffer grows
through 1, 2, 4 and 8.

### RedBlackTree

A node is named after the value in it: deletion relinks nodes and never copies
values. `tree` holds the root and the four fields of every node, the sentinel
`NIL` included, whose parent field `deleteNode` sets and `fixDelete` reads. The
code writes each case twice, for left and right; here the side is a parameter.
`insert` and `erase` link or unlink in one step and leave `loop` at the node
where the tree is wrong; then each iteration of `fixInsert` or `fixDelete` is a
step, so that the invariant also says what is true between iterations
(`RedBlack`: the tree is balanced if the node of the loop counts for one black
node more) and that they come to an end (`LoopsEnd`: the node of the loop has fewer
nodes above it with every iteration but the last).

### The other containers

`MinHeap` is the heap with `heap_index_` of every object, and the free list and
blocks of its pool. `update(x)` and the change of key before it are one step.
The loops of the sifts are functions from the number of rounds to the heap and
index that the loop has got to (`Raised` and `Lowered` are one round each), with as many
rounds as a loop can need: a round after the last one changes nothing.
`HeapInvariant` is about all that must agree: the indices in the objects, the
order, and the pool.
`ChunkedVector` is the list of its blocks; `resize` is `Shrink` and `Grow`, with
the three phases of the latter. `SegmentedQueue` keeps the index of the item
that `pop` handed out, which must not be overwritten before the next `pop`.
`Vector` is several vectors over one heap, in which addresses are reused as soon
as they are free, so that a pointer that should have been cleared shows. Each
is compared with an abstract module that knows nothing of blocks, rings,
indices or memory.

## Runs

| Run | Bounds | Shows |
|---|---|---|
| `Epochs` | 2 threads, 2 nodes, 2 slots, epoch 3, fair | nothing is released early; the inductive invariant; refinement of `GracePeriod`; shutdown completes |
| `QueueSafety` | 2 threads, 3 nodes, 2 values, cache 2, batch 1, 2 tags | FIFO, linearizable; no node lost or doubled |
| `QueueThreads` | 3 threads, 3 nodes, 1 value, 1 tag | no use after free, no ABA without tags |
| `QueueLiveness` | 2 threads, 3 nodes, fair to Main | lock freedom; every node deleted at the end |
| `SchedulerSafety` | 2 workers, 3 coroutines | ownership, publication, tokens, lifecycle |
| `SchedulerLiveness` | 2 workers, 2 coroutines, fair | no lost wakeup; destroy returns |
| `WheelTicks` | 3 wheels of 3 slots, 2 sleepers, no lag | slots and cascade, counted in ticks |
| `WheelLag` | 3 wheels of 2 slots, 2 sleepers, lag 1, fair | real time, throws, every sleeper woken |
| `RedBlackTree` | 10 values, the first 7 in any order | balance, end of the loops, refinement of `OrderedSet` |
| `Containers` | deque: 2 values, 5 elements, capacity from 0; heap: 3 keys, 3 blocks of 2; blocks of 2, 7 elements; ring of 2 x 2; 2 vectors, 3 addresses, 3 elements | each container implements its abstract module; the heap's indices, order and pool agree; elements and memory are used while they exist |
| `WheelExact` | 1 sleeper, no lag | **violated**: finding 1 |
| `WheelEarly` | 1 sleeper, lag 1 | **violated**: finding 2 |

Why these bounds are enough to be interesting: with epoch 3 a thread can stall
across a full scan and into the next; two nodes make the order in a retire list matter. Three
nodes are the dummy, one element and one spare, so an address is reused while
another thread still holds it, and a cache of 2 overflows. The third thread
lets a helper be overtaken by a helper. Two workers and the timer make every
hand-over race; three coroutines let one run, one sleep and one wait. Three
wheels are the smallest number in which a wheel is both above and below
another, and the delays are chosen on both sides of every boundary. A round of `fixDelete`
that moves up and is followed by another one needs a tree that ten values make
(the three largest come in order, which keeps the state space small), and every
action is taken in the run. The containers cross each of their borders (block,
ring, capacity) at least twice.

Fairness. `EpochReclamation`: the maintainer and the thread in `destroy()`
are scheduled (pthread_join waits for both). `TSLinkedList`: only Main is
scheduled, the other threads may stall for ever: this is what lock freedom is
about. `Scheduler`: all threads are scheduled, a coroutine gives its worker
back now and then (strong fairness of yield, sleep or return together: it is
up to the function), and every sleeper becomes due, which is
`TimeWheel!SleeperIsWoken`. `TimeWheel`: the timer thread is scheduled and
`clock_nanosleep` returns.

Each property of a passing run has a mutant: a variant of one definition, such
as a plain store for a CAS or a slot that is not cleared, with which TLC finds
the property violated. The variants stand beside the definitions they replace.

## Findings

1. *Sleeps of 60 ms and more last up to a turn longer* (`WheelExact`). An upper
   wheel advances only when the lower one wraps, and an event is put `delay /
   interval` slots ahead without regard to how far the lower wheel has turned.
   So an event on the second wheel wakes 1 to 60 ms late, on the third up to
   3660 ms. `tests/test_timewheel.cpp:70` expects the exact delay.
   `WokenInTime` shows the bound: one turn per upper wheel.
2. *A late timer thread wakes coroutines early* (`WheelEarly`). The loop makes
   up for lost ticks at once, and an event added meanwhile counts them as time
   passed. `include/scheduler.h:52` says "after [delayMS] ms".
   `EarlyByLagAtMost` shows the bound: the lag when the event was taken over.

The model also shows that the tags of the pointers are not needed for the
queue: with one tag (`QueueThreads`) grace periods suffice.

## Proofs

Every safety property that a passing run checks is a theorem, for every value of
the constants, and so is every refinement. Where TLC bounds a number of threads, nodes, coroutines, wheels, slots
or elements, the proof has no bound; the bounds that stand in the guards
(`MaxEpoch`, `MaxSize`, `MaxLag`, `MaxBlocks`) are arbitrary there. The assumptions are the
named `ASSUME`s of the modules, and for the containers that `Containers`
instantiates their `ConstantsOK`, which it assumes together
(`ContainersAssumption`; TLC evaluates it on the instance): sizes of blocks and
segments are positive, keys are integers, the markers of unused places are no
values, and the blocks that the constructor of a pool makes are among those the
model allows. The theorems about a container are about its own specification
(`Heap!Spec`, `Chunks!Spec`, ...), of which a behaviour of the run with that
`kind` is one.

### EpochReclamation

`EpochReclamation_proofs` proves, for every number of threads, nodes and slots
and every `MaxEpoch`, every safety property that `Epochs` checks, the refinement of
`GracePeriod`, and three more that no run checks by themselves: type correctness,
`MinEpochPositive` (the assert of `advance_epoch`), and `GcNeverMovesBack`. It uses only the assumptions that
`EBR_MAX_THREADS` and `MaxEpoch` are positive.

The argument. *Epochs* (`EpochInvariant`): a thread in a region announced an
epoch above `gc_epoch_`. By itself this is not inductive: the minimum that the
maintainer is about to publish must be below every announced epoch as well, so
the invariant says for each slot on which side of the scan it is (`Passed`)
and bounds its epoch accordingly (`ScanInvariant`), and says of a thread that is
about to announce that either its slot changed since, so that the CAS will
fail, or its epoch is still young enough (`PendingEntry`). *Retire lists*
(`RetireInvariant`): a record's epoch is at least the epoch of every thread in
`blockers`; lists are sorted; a node is listed once. *Together*: a thread in
`blockers` of a released record would have an epoch at most the record's,
hence at most `gc_epoch_`, against `EpochInvariant`; the local copy of
`gc_epoch_` is never ahead of it because `gc_epoch_` only grows.

### TSLinkedList

Proved for every finite set of nodes (a finite heap), any threads and values,
and any `TAG_LIMIT`, 1 included: the tags are not needed where the grace periods
are kept.

*Chains.* `Chain(nx, p)` follows the `next_` fields from a pointer; `IsChain`
says that it ends with `nullptr` and meets no node twice. The first part of
`TSLinkedList_proofs` says what a chain becomes when a node is put in front or
taken from it, linked behind its end, when a batch is cut off, and when a field
outside it is written. `Chain` is a recursive function: facts about it use the
least element of a set of positions (`LeastNumber`), see below.

*Placement.* What makes the invariant inductive is that at any time each node
is in one place: free memory, the queue, one thread's cache, one thread's retire
list, prepared by one `push_back` or just unlinked by one `pop_front`. The code
has no variable for that, so `InductiveInvariant` says that a placement
(`where`, `who`) exists, and each step is proved to lead from one to another.
Relative to it: the queue and the caches are chains; `tail_` is in the queue
(`TailInQueue`); a thread in a region holds only nodes that are in the queue or
retired with the thread among their `blockers` (`Protected`), so that nobody can
release them under it; `first` is the head or was it and is now retired
(`HoldsFirst`), and a node that was the tail and has no successor is the tail
still (`HoldsLast`). The CAS on `head_` succeeds only if the node
is the head *now*, since a node that left the queue cannot come back while it is
protected: this is the ABA argument, and it does not mention the tags.

*What follows.* `NoUseAfterFree`, `TailStaysOnList` and `QueueInvariant`.
With `BlockersAreActive` added, `UsesGracePeriods`. And `Linearizable` maps the values behind the dummy to the sequence of `JobQueue`,
where the value a `pop_front` read before its CAS is still that of the new dummy
when the CAS succeeds (`Payloads`), because nodes in the queue keep their values.

### Scheduler

Proved for every finite set of workers and any coroutines. `Ownership` is the
inductive invariant: which of the slots of a worker are in use follows from its
`pc` and they all name the same coroutine, the one in its `Hand`
(`SlotsFollowPc`); the hands of the workers, the queue and the timer exclude each
other (`Exclusive`, `QueuedOnce`); the state of each context follows from who has
it (`ContextFollowsPc`), so that what is queued or asleep is saved. `TokenBalance`
pays for each job in the queue with a token of the semaphore, a worker that
took one and has no job yet, or a thread about to post. It is inductive once
`TokenInv` adds what `yield_from_coroutine_` stands for between the switch and the
push: exactly the worker that yields pushes a job nobody posts for. Its counts
are cardinalities of sets of workers that change by one member.
`ImplementsLifecycle` is proved step by step: creation, the two halves
of a context switch, the flushes and the timer are each one step of
`CoroutineLifecycle` or none.

### TimeWheel

Proved for any number of wheels, slots (two at least), coroutines, delays and lag.
`WheelInv` is inductive. Its heart is `Due`, the ticks a sleeper has waited, plus
the ticks until its slot is over, plus what its delay leaves over after that:

* a tick that leaves the sleeper where it is does not change it, since what is
  added to `age` is taken from the ticks to go;
* a cascade from wheel *k* + 1 to wheel *k* adds one turn of wheel *k*.

`Placed` bounds `Due` from below by the delay and from above by the delay plus one
turn for each wheel below, the sums being the recursive function of
`Lateness`. `RemainingIsEnough` and `WokenInTime` follow where the sleeper fires.
`InOrder` compares two sleepers taken over before the same tick: the one
with the shorter delay is on the same wheel or a lower one and its slot is over no
later; hence `ShorterFirst`. `Timely` relates ticks, real time
and lag: hence `EarlyByLagAtMost`. A delay on a wheel is always one that fits it,
so no cascade throws (`ThrowsOnlyIfTooLong`).

### Deque, SegmentedQueue

`Rings_proofs` proves the two properties of the deque in `Containers` for every set of
values, initial capacity and length, from the assumption that `RAW` is not a
value. `DequeInvariant` is inductive: the constructed indices are those whose
distance from `head_`, around the end of the buffer, is below `size_`. From it,
`Contents` (the window read from `head_` on) is a sequence of values, and each
action maps to the abstract one: `push_back` to `Append`, with growth or
without, `pop_front` to `Tail`.

It does the same for the two-level indices of `SegmentedQueue`: segment and offset
are the digits of an index, so different indices never meet; `RingInv` says that
the indices between `top` and `bottom` find items and that the popped item is at
the index right before `top`. `push` writes at `bottom`, whose successor is not
`top`: this is why it never hits the popped item, and why the one free place that
the assert keeps is needed.

### Vector, ChunkedVector

`Arrays_proofs` proves `MemoryIsOwned` and the refinement of `ValueSequences` for
any number of vectors and addresses. The invariant is `MemoryIsOwned` with types.
Operations such as `CopyAssign` break it half way, so the lemmas are about their
pieces (memory released, filled, passed on, written in place) and a set of
vectors that may leave out the one being worked on; each operation is a
composition of them.

Of `ChunkedVector` it proves the refinement of `DynamicArray` for every size of
blocks. `ChunkInv` says that each block is full but the final one, which holds the
rest and is not empty: `pop_back` drops a block that it empties, or the next one
would find nothing to pop in it. Block and
offset of an index are its digits (`BlockOf`, `OffsetOf`), and two such lists of
blocks with the same elements at the same indices are the same sequence; so
each operation is proved by saying what is at each index after it. `resize`
upward is three phases, of which the second and the third may be empty: the
block that is not full, full blocks, and the rest.

### MinHeap

`MinHeap_proofs` proves `HeapInvariant` and the refinement of `PriorityQueue`
for every set of integers as keys and every pool. `HeapInvariant` is inductive
as it stands.

*Loops.* In the middle of a sift the heap is in order but around one object:
`GoesUp` says that only the object at the loop's index may come before its
parent, and that its children do not come before its parent either; `GoesDown`
says the same with the sides changed. A round of a loop (`RaisedCorrect`,
`LoweredCorrect`) keeps this and swaps two objects and both of their indices, or is the
last and leaves a heap in order. An object at index *i* cannot go up more than *i*
times, nor down more often than there are objects, so the rounds that the model
allows are enough (`SiftUpSorts`, `SiftDownSorts`). `update` chooses the
direction by looking at the parent only; `SiftSorts` shows that this is right
because the heap was in order before the key changed.

*Operations.* `remove_at` puts the last object at the root of a heap that is then
out of order around it, and sifts both ways; the second sift does nothing
(`SiftUpFromRoot`). That `pop` takes a smallest key is `RootIsLeast`: an
object that is smaller than the root, at the least such index, would be smaller
than its parent. The free list never holds an object twice since what `acquire` takes off it
and what `release` puts on it change sides with the heap (`LastTakenOff`,
`PutAtEnd`), and a new block (`MoreBlocks`) has only new ones.

### RedBlackTree

`RedBlackTree_proofs` proves everything that the run `RedBlackTree` checks, for
every set of integers as values, an infinite one too (the tree is finite at any
time): `RedBlack`, `LoopsEnd` and the refinement of `OrderedSet`.

*Witnesses.* `Subtree`, `BlackHeight`, `LastVisited` and `Most` are recursive
functions over a tree that changes its shape. The invariant `TreeInv` does
not mention them. It says that there are a function *U* that gives each node the
nodes of its subtree and a function *H* that gives it its black height, which
fit the fields of the nodes (`Fits`): each node's set is the node and the sets
of its children, those on the left smaller and those on the right larger
(`Shape`, `Links`); its height is that of either child, plus one if the child is
the node of `fixDelete()`, plus one if it is black itself (`Heights`); two red
nodes meet only at the node of the loop (`Colored`). What a recursive function
yields on a tree that `U` and `H` fit follows from one lemma, `Lowest`: a set of
nodes has a member none of whose children is in it. So a counterexample would have
a lowest one. `RedBlackHolds` reads `RedBlack` off in this way.

*Steps.* Each action takes one pair to another.

* A rotation changes *U* at its two nodes only (`RotatedIsBst`). All rotations
  but the last one of `fixDelete()` happen where the upper node takes over the
  red of the lower one and the lower one the color of the upper one: they
  exchange colors, and with them the heights of the two nodes (`ExchangeFits`),
  so that nothing else in the tree notices. The cases of the loops are
  then about which node is red and about `Colored`.
* `insert()` adds its value to the sets on the route of the search, which are
  those that hold the last node visited (`LinkedIsBst`).
* `deleteNode()` is proved as two changes that the code mixes: the node
  that leaves its place is spliced out (`SplicedFits`), and then the place of the
  erased node gets the name of its successor (`RenamedFits`). `SplicedIs` says that
  the links written by both calls of `transplant()` amount to that, also where the
  successor is a child of the erased node and where the node moved up is the
  sentinel, whose parent field `fixDelete()` is about to read: the sentinel's
  place in the tree is part of the invariant (`InPlace`).
* The last iterations of the loops end where the root, or a red node, takes the
  missing black (`InsertEndsFits`, `DeleteEndsFits`).

*What follows.* `LoopsEnd`: an iteration after which the loop goes on has changed
no links, and the nodes above the new node of the loop are among those above the
old one, and fewer (`FewerAbove`). `ImplementsOrderedSet`: the values that the
search finds are the nodes of the tree (`FindNodeIs`), `leftMost()` and
`rightMost()` end at the extreme ones (`MostIs`), and a step of a loop leaves the
set of nodes alone.

### What is not proved

* Liveness (`ShutdownCompletes`, `LockFree`, `AllNodesFreed`, `QueuedIsRun`,
  `SleeperWakes`, `DestroyReturns`, `SleeperIsWoken`) is model-checked.
  The prover has no rules for fairness.
* Induction over data with the theorems of the library is out of reach, as
  they take a predicate as a parameter. Where one number is all that grows (the
  nodes of a chain, the wheels), the proofs get by with sets: a counterexample
  set of numbers has a least element (`LeastNumber`, from the well-foundedness
  of the strict-subset order), and a set of numbers closed under successor
  holds them all (`UpTo`). In a tree, a set of nodes has a lowest member
  (`Lowest`).
* What the models leave out (next section) is left out of the theorems too. In
  particular the layers are joined by abstract modules, each proved to be
  implemented; that their composition is the program is not a theorem.

## Not modelled

* Memory orders. Accesses are sequentially consistent; context_swap.S ties the
  program to x86-64, where every access of the queue and the epochs that is not
  a plain load or a plain release store is a locked instruction.
* `running_` is a plain `bool` read by all threads: each read is taken to see
  the current value or, by scheduling, an older one.
* Threads that race for the lazy `TSLinkedList::init()`: the scheduler calls it
  before other threads exist, and so do the tests.
* The width of epochs (63 bits, one increment every 20 ms), negative delays,
  `int` overflow of intervals (60^3 fits).
* Registers and stacks below "the context is saved"; memory exhaustion.
* `Array` and `LinkedList`, which nothing uses: the former has `Vector`'s
  operations on a buffer of its own, the latter is three short functions.
* Of the containers: iterators and printing, reserved capacity, moving a whole
  `ChunkedVector` (the defaulted move leaves the size of the source behind),
  and a `push_back` whose argument is an element of the same container.
* Logger, ThreadInfo, Stack.

## Plan

1. *Done*: reclamation scheme, queue, scheduler, timer and the containers (all but
   `Array` and `LinkedList`), with proofs of their safety properties and refinements.
2. The scheduler with the timer wheels in place of "any sleeper may be due".
