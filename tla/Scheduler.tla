------------------------------ MODULE Scheduler ------------------------------
(***************************************************************************)
(* The scheduler: workers that run coroutines from a shared job queue, the *)
(* semaphore that counts jobs, the thread-local slots that publish a       *)
(* coroutine only after its context was saved, the timer thread, and       *)
(* shutdown.                                                               *)
(*                                                                         *)
(* Each step is one access to the queue, the semaphore, running_ or the    *)
(* timer, or one context switch.  The job queue is the linearizable FIFO   *)
(* queue that TSLinkedList implements (JobQueue).  When the timer fires    *)
(* which sleeper is the business of TimeWheel: here every tick takes any   *)
(* set of sleepers.                                                        *)
(*                                                                         *)
(* A definition marked "Variant" is a plausible mistake in the code, kept  *)
(* beside the definition it would replace.  No action uses it.             *)
(***************************************************************************)
EXTENDS Integers, Sequences, FiniteSets

CONSTANTS Workers,      \* SCHEDULER_NUM_WORKERS threads
          Coroutines,   \* addresses of coroutines; a bound on how many live
          NULL          \* nullptr, or the worker's main coroutine

ASSUME WorkersAssumption == IsFiniteSet(Workers) /\ Workers # {}
ASSUME NullAssumption == NULL \notin Workers \cup Coroutines

VARIABLES
    job_queue, sem,         \* job_queue_, sem_job_queue_
    running,                \* running_
    context,                \* coroutine -> what its saved context is worth
    pc,                     \* worker -> where it is
    cur_coroutine,          \* worker -> TLScheduler::cur_coroutine_
    job,                    \* worker -> local of event_loop()
    yield_from_coroutine,   \* worker -> local of event_loop()
    pending_push, pending_destroy, pending_add_event,   \* TLScheduler
    sleeping,               \* coroutines handed to TimerManager
    due,                    \* sleepers the current tick will push
    tpc,                    \* where the timer thread is
    main_pc, posts          \* Main: where it is, and the posts of destroy()

pending == <<pending_push, pending_destroy, pending_add_event>>
worker_local == <<cur_coroutine, job, yield_from_coroutine>>
timer == <<sleeping, due, tpc>>
main == <<main_pc, posts>>
vars == <<job_queue, sem, running, context, pc, worker_local, pending, timer, main>>

Init ==
    /\ job_queue = <<>>
    /\ sem = 0
    /\ running = TRUE
    /\ context = [c \in Coroutines |-> "unallocated"]
    /\ pc = [w \in Workers |-> "top"]
    /\ cur_coroutine = [w \in Workers |-> NULL]
    /\ job = [w \in Workers |-> NULL]
    /\ yield_from_coroutine = [w \in Workers |-> FALSE]
    /\ pending_push = [w \in Workers |-> NULL]
    /\ pending_destroy = [w \in Workers |-> NULL]
    /\ pending_add_event = [w \in Workers |-> NULL]
    /\ sleeping = {}
    /\ due = {}
    /\ tpc = "top"
    /\ main_pc = "up"
    /\ posts = 0

Goto(w, here, there) == pc[w] = here /\ pc' = [pc EXCEPT ![w] = there]

-----------------------------------------------------------------------------
(* job_push() and coroutine_create() *)

\* new Coroutine, then push_back(); the post is a step of its own.
New(c) ==
    /\ context[c] = "unallocated"
    /\ context' = [context EXCEPT ![c] = "fresh"]
    /\ job_queue' = Append(job_queue, c)

\* Variant: use_sem is ignored.
NeverPosts == sem
Posted == sem + 1

-----------------------------------------------------------------------------
(* Scheduler::event_loop() *)

\* A worker that pushed its coroutine back did not post for it, so it takes
\* the next job without waiting.  Variant: it waits like the others.
AlwaysWaits(w) == "wait"
NextStop(w) == IF yield_from_coroutine[w] THEN "pop" ELSE "wait"

LoopTop(w) ==
    /\ running
    /\ Goto(w, "top", NextStop(w))
    /\ UNCHANGED <<job_queue, sem, running, context, worker_local, pending, timer, main>>

LoopEnds(w) ==
    /\ ~running
    /\ Goto(w, "top", "returned")
    /\ UNCHANGED <<job_queue, sem, running, context, worker_local, pending, timer, main>>

SemWait(w) ==
    /\ sem > 0
    /\ Goto(w, "wait", "pop")
    /\ sem' = sem - 1
    /\ UNCHANGED <<job_queue, running, context, worker_local, pending, timer, main>>

Pop(w) ==
    /\ job_queue # <<>>
    /\ Goto(w, "pop", "resume")
    /\ job' = [job EXCEPT ![w] = Head(job_queue)]
    /\ job_queue' = Tail(job_queue)
    /\ UNCHANGED <<sem, running, context, cur_coroutine, yield_from_coroutine, pending,
                   timer, main>>

PopsNothing(w) ==
    /\ job_queue = <<>>
    /\ Goto(w, "pop", "top")
    /\ UNCHANGED <<job_queue, sem, running, context, worker_local, pending, timer, main>>

\* coroutine_swap() to the job: a fresh context is built, a saved one loaded.
Resume(w) ==
    /\ Goto(w, "resume", "run")
    /\ cur_coroutine' = [cur_coroutine EXCEPT ![w] = job[w]]
    /\ context' = [context EXCEPT ![job[w]] = "live"]
    /\ job' = [job EXCEPT ![w] = NULL]
    /\ UNCHANGED <<job_queue, sem, running, yield_from_coroutine, pending, timer, main>>

-----------------------------------------------------------------------------
(* What the running coroutine may do *)

\* Variant: coroutine_yield() pushes at once, from the coroutine's stack.
PublishesEarly(w) == Append(job_queue, cur_coroutine[w])
QueueAtYield(w) == job_queue

CoroutineYield(w) ==
    /\ Goto(w, "run", "swap")
    /\ pending_push' = [pending_push EXCEPT ![w] = cur_coroutine[w]]
    /\ job_queue' = QueueAtYield(w)
    /\ UNCHANGED <<sem, running, context, worker_local, pending_destroy,
                   pending_add_event, timer, main>>

\* Variant: coroutine_sleep() calls add_event() itself.
AddsEarly(w) == sleeping \cup {cur_coroutine[w]}
SleepersAtSleep(w) == sleeping

CoroutineSleep(w) ==
    /\ Goto(w, "run", "swap")
    /\ pending_add_event' = [pending_add_event EXCEPT ![w] = cur_coroutine[w]]
    /\ sleeping' = SleepersAtSleep(w)
    /\ UNCHANGED <<job_queue, sem, running, context, worker_local, pending_push,
                   pending_destroy, due, tpc, main>>

\* Variant: the coroutine deletes itself before it leaves its stack.
DeletesEarly(w) == [context EXCEPT ![cur_coroutine[w]] = "unallocated"]
ContextsAtReturn(w) == context

\* The function returned; coroutine_entry_function() cleans up.
CoroutineReturn(w) ==
    /\ Goto(w, "run", "exit_swap")
    /\ pending_destroy' = [pending_destroy EXCEPT ![w] = cur_coroutine[w]]
    /\ context' = ContextsAtReturn(w)
    /\ UNCHANGED <<job_queue, sem, running, worker_local, pending_push,
                   pending_add_event, timer, main>>

\* The coroutine creates another one: push_back(), then sem_post().
CoroutineCreate(w) ==
    /\ Goto(w, "run", "post")
    /\ \E c \in Coroutines : New(c)
    /\ UNCHANGED <<sem, running, worker_local, pending, timer, main>>

CoroutinePost(w) ==
    /\ Goto(w, "post", "run")
    /\ sem' = Posted
    /\ UNCHANGED <<job_queue, running, context, worker_local, pending, timer, main>>

-----------------------------------------------------------------------------
(* Back on the worker's own stack *)

\* ctx_swap() saved the coroutine; event_loop() looks at pending_push_.
SwapOut(w) ==
    /\ Goto(w, "swap", "flush_push")
    /\ context' = [context EXCEPT ![cur_coroutine[w]] = "saved"]
    /\ cur_coroutine' = [cur_coroutine EXCEPT ![w] = NULL]
    /\ yield_from_coroutine' =
            [yield_from_coroutine EXCEPT ![w] = pending_push[w] # NULL]
    /\ UNCHANGED <<job_queue, sem, running, job, pending, timer, main>>

\* ctx_exit_swap() saves nothing.
ExitSwap(w) ==
    /\ Goto(w, "exit_swap", "flush_push")
    /\ cur_coroutine' = [cur_coroutine EXCEPT ![w] = NULL]
    /\ yield_from_coroutine' =
            [yield_from_coroutine EXCEPT ![w] = pending_push[w] # NULL]
    /\ UNCHANGED <<job_queue, sem, running, context, job, pending, timer, main>>

FlushPendingPush(w) ==
    /\ Goto(w, "flush_push", "flush_destroy")
    /\ job_queue' = IF pending_push[w] = NULL THEN job_queue
                    ELSE Append(job_queue, pending_push[w])
    /\ pending_push' = [pending_push EXCEPT ![w] = NULL]
    /\ UNCHANGED <<sem, running, context, worker_local, pending_destroy,
                   pending_add_event, timer, main>>

\* Variant: the slot is not reset after the delete.
KeepsPointer(w) == pending_destroy[w]
AfterDestroy(w) == NULL

FlushPendingDestroy(w) ==
    /\ Goto(w, "flush_destroy", "flush_add")
    /\ context' = [c \in Coroutines |->
                     IF c = pending_destroy[w] THEN "unallocated" ELSE context[c]]
    /\ pending_destroy' = [pending_destroy EXCEPT ![w] = AfterDestroy(w)]
    /\ UNCHANGED <<job_queue, sem, running, worker_local, pending_push,
                   pending_add_event, timer, main>>

EventsToAdd(w) == {pending_add_event[w]} \ {NULL}

FlushPendingAddEvent(w) ==
    /\ Goto(w, "flush_add", "top")
    /\ sleeping' = sleeping \cup EventsToAdd(w)
    /\ pending_add_event' = [pending_add_event EXCEPT ![w] = NULL]
    /\ UNCHANGED <<job_queue, sem, running, context, worker_local, pending_push,
                   pending_destroy, due, tpc, main>>

-----------------------------------------------------------------------------
(* The timer thread *)

\* One round of TimerManager::event_loop(): the sleepers in D are due.
TimerTick(D) ==
    /\ tpc = "top"
    /\ running
    /\ D \subseteq sleeping
    /\ sleeping' = sleeping \ D
    /\ due' = D
    /\ tpc' = "tick"
    /\ UNCHANGED <<job_queue, sem, running, context, pc, worker_local, pending, main>>

\* Variant: the list of the slot ends with the first coroutine it wakes.
DropsTheRest(c) == {}
DueAfter(c) == due \ {c}

TimerPush ==
    /\ tpc = "tick"
    /\ \E c \in due : /\ job_queue' = Append(job_queue, c)
                      /\ due' = DueAfter(c)
    /\ tpc' = "post"
    /\ UNCHANGED <<sem, running, context, pc, worker_local, pending, sleeping, main>>

TimerPost ==
    /\ tpc = "post"
    /\ sem' = Posted
    /\ tpc' = "tick"
    /\ UNCHANGED <<job_queue, running, context, pc, worker_local, pending, sleeping, due,
                   main>>

TimerTickDone ==
    /\ tpc = "tick"
    /\ due = {}
    /\ tpc' = "top"
    /\ UNCHANGED <<job_queue, sem, running, context, pc, worker_local, pending, sleeping,
                   due, main>>

TimerReturns ==
    /\ tpc = "top"
    /\ ~running
    /\ tpc' = "returned"
    /\ UNCHANGED <<job_queue, sem, running, context, pc, worker_local, pending, sleeping,
                   due, main>>

Timer == TimerPush \/ TimerPost \/ TimerTickDone \/ TimerReturns

-----------------------------------------------------------------------------
(* The thread that creates the first coroutines and shuts down *)

MainCreate ==
    /\ main_pc = "up"
    /\ \E c \in Coroutines : New(c)
    /\ main_pc' = "post"
    /\ UNCHANGED <<sem, running, pc, worker_local, pending, timer, posts>>

MainPost ==
    /\ main_pc = "post"
    /\ sem' = Posted
    /\ main_pc' = "up"
    /\ UNCHANGED <<job_queue, running, context, pc, worker_local, pending, timer, posts>>

DestroyBegin ==
    /\ main_pc = "up"
    /\ running' = FALSE
    /\ main_pc' = "destroy"
    /\ UNCHANGED <<job_queue, sem, context, pc, worker_local, pending, timer, posts>>

\* One post for each worker that may be waiting.  Variant: a single post.
PostsOnce == 1
PostsNeeded == Cardinality(Workers)

DestroyPost ==
    /\ main_pc = "destroy"
    /\ posts < PostsNeeded
    /\ posts' = posts + 1
    /\ sem' = sem + 1
    /\ UNCHANGED <<job_queue, running, context, pc, worker_local, pending, timer, main_pc>>

\* After the joins the queue is destroyed; coroutines in it are abandoned.
DestroyJoin ==
    /\ main_pc = "destroy"
    /\ posts = PostsNeeded
    /\ \A w \in Workers : pc[w] = "returned"
    /\ tpc = "returned"
    /\ main_pc' = "down"
    /\ job_queue' = <<>>
    /\ UNCHANGED <<sem, running, context, pc, worker_local, pending, timer, posts>>

Destroy == DestroyPost \/ DestroyJoin

Terminated == main_pc = "down" /\ UNCHANGED vars

-----------------------------------------------------------------------------
\* The steps at which a coroutine gives its worker back.
Suspends(w) == CoroutineYield(w) \/ CoroutineSleep(w) \/ CoroutineReturn(w)

\* The steps a worker takes by itself.
WorkerLoop(w) ==
    \/ LoopTop(w) \/ LoopEnds(w) \/ SemWait(w) \/ Pop(w) \/ PopsNothing(w) \/ Resume(w)
    \/ CoroutinePost(w) \/ SwapOut(w) \/ ExitSwap(w)
    \/ FlushPendingPush(w) \/ FlushPendingDestroy(w) \/ FlushPendingAddEvent(w)

Next ==
    \/ \E w \in Workers : WorkerLoop(w) \/ Suspends(w) \/ CoroutineCreate(w)
    \/ \E D \in SUBSET sleeping : TimerTick(D)
    \/ Timer
    \/ MainCreate \/ MainPost \/ DestroyBegin \/ Destroy
    \/ Terminated

Spec == Init /\ [][Next]_vars

\* All threads are scheduled; a coroutine does not keep its worker for ever
\* (that is up to its function); every sleeper becomes due (TimeWheel).
TickTakes(c) == \E D \in SUBSET sleeping : c \in D /\ TimerTick(D)
Fairness ==
    /\ \A w \in Workers : WF_vars(WorkerLoop(w)) /\ SF_vars(Suspends(w))
    /\ \A c \in Coroutines : SF_vars(TickTakes(c))
    /\ WF_vars(Timer) /\ WF_vars(MainPost) /\ WF_vars(Destroy)
FairSpec == Spec /\ Fairness

-----------------------------------------------------------------------------
(* Properties *)

TypeOK ==
    /\ job_queue \in Seq(Coroutines)
    /\ sem \in Nat
    /\ running \in BOOLEAN
    /\ context \in [Coroutines -> {"unallocated", "fresh", "live", "saved"}]
    /\ pc \in [Workers -> {"top", "wait", "pop", "resume", "run", "post", "swap",
                           "exit_swap", "flush_push", "flush_destroy", "flush_add",
                           "returned"}]
    /\ \A slot \in {cur_coroutine, job, pending_push, pending_destroy, pending_add_event} :
          slot \in [Workers -> Coroutines \cup {NULL}]
    /\ yield_from_coroutine \in [Workers -> BOOLEAN]
    /\ sleeping \subseteq Coroutines
    /\ due \subseteq Coroutines
    /\ tpc \in {"top", "tick", "post", "returned"}
    /\ main_pc \in {"up", "post", "destroy", "down"}
    /\ posts \in 0 .. PostsNeeded

\* Everyone who holds a pointer to c and may act on it.
Holders(c) ==
         {<<"queue", k>> : k \in {k \in DOMAIN job_queue : job_queue[k] = c}}
    \cup {<<"timer">> : x \in {c} \cap (sleeping \cup due)}
    \cup {<<"worker", w>> : w \in {w \in Workers :
             c \in {job[w], cur_coroutine[w], pending_push[w], pending_destroy[w],
                    pending_add_event[w]}}}

\* A coroutine that is allocated is in exactly one pair of hands, and one that
\* was deleted in none: it is not lost, not queued twice, not deleted twice.
OneOwner ==
    main_pc # "down" =>
        \A c \in Coroutines :
            Cardinality(Holders(c)) = IF context[c] = "unallocated" THEN 0 ELSE 1

\* The worker's three slots keep that accounting while the coroutine changes
\* hands in several steps of several threads.
OwnershipInvariant == TypeOK /\ OneOwner

\* Whoever finds a coroutine in the queue or wakes it up finds its context
\* complete: nobody else is still on its stack.
PublishedIsSaved ==
    \A c \in Coroutines :
        (c \in sleeping \cup due \/ \E k \in DOMAIN job_queue : job_queue[k] = c)
            => context[c] \in {"fresh", "saved"}

\* The comment in event_loop(): pushing without a post and popping without a
\* wait is the same as posting to oneself.  While the scheduler runs, every
\* queued job is paid for: by the semaphore, by a worker that has a token and
\* is on its way to pop, or by a thread that is about to post.
HoldsToken(w) ==
    \/ pc[w] = "pop"
    \/ pc[w] \in {"flush_destroy", "flush_add", "top"} /\ yield_from_coroutine[w]
TokenBalance ==
    running =>
        Len(job_queue) = sem + Cardinality({w \in Workers : HoldsToken(w)})
                             + Cardinality({w \in Workers : pc[w] = "post"})
                             + (IF tpc = "post" THEN 1 ELSE 0)
                             + (IF main_pc = "post" THEN 1 ELSE 0)

\* No wakeup is lost: a queued coroutine is eventually taken, unless the
\* scheduler is shut down.
InQueue(c) == \E k \in DOMAIN job_queue : job_queue[k] = c
QueuedIsRun == \A c \in Coroutines : InQueue(c) ~> (~InQueue(c) \/ ~running)

\* A coroutine that called coroutine_sleep() is eventually in the job queue
\* again, unless the scheduler is shut down.
AsksToSleep(c) == \E w \in Workers : pending_add_event[w] = c
SleeperWakes == \A c \in Coroutines : AsksToSleep(c) ~> (InQueue(c) \/ ~running)

\* destroy() returns: the posts are enough to get every worker out of its
\* wait, whatever was queued, running or asleep.
DestroyReturns == main_pc = "destroy" ~> main_pc = "down"

-----------------------------------------------------------------------------
(* Refinement *)

RunsOn(c) ==
    {w \in Workers : c \in {cur_coroutine[w], pending_push[w], pending_destroy[w],
                            pending_add_event[w]}}

LifeOf(c) ==
    IF context[c] = "unallocated" THEN "unused"
    ELSE IF RunsOn(c) # {} THEN "running"
    ELSE IF c \in sleeping \cup due THEN "asleep"
    ELSE "ready"

WorkerOf(c) == IF RunsOn(c) = {} THEN NULL ELSE CHOOSE w \in RunsOn(c) : TRUE

Status == [c \in Coroutines |-> LifeOf(c)]
Worker == [c \in Coroutines |-> WorkerOf(c)]

Life == INSTANCE CoroutineLifecycle WITH
    NONE <- NULL, status <- Status, worker <- Worker
ImplementsLifecycle == Life!Spec

=============================================================================
