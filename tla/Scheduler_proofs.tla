--------------------------- MODULE Scheduler_proofs ---------------------------
(***************************************************************************)
(* The safety of the scheduler for any set of workers and of coroutines:   *)
(* a coroutine is always in exactly one pair of hands, whoever finds it in *)
(* the queue finds its context complete, every queued job is paid for by   *)
(* a token, and the scheduler implements the life cycle it promises.       *)
(***************************************************************************)
EXTENDS Scheduler, TLAPS, FiniteSetTheorems, SequenceTheorems

-----------------------------------------------------------------------------
(* The inductive invariant *)

\* The coroutine a worker has in its hands, whichever slot it is in.
Hand(w) ==
    IF job[w] # NULL THEN job[w]
    ELSE IF cur_coroutine[w] # NULL THEN cur_coroutine[w]
    ELSE IF pending_push[w] # NULL THEN pending_push[w]
    ELSE IF pending_destroy[w] # NULL THEN pending_destroy[w]
    ELSE pending_add_event[w]

\* Which slots are in use follows from where the worker is, and a coroutine
\* that asked for something is the one in all the slots that are in use.
SlotsFollowPc(w) ==
    /\ job[w] # NULL <=> pc[w] = "resume"
    /\ cur_coroutine[w] # NULL <=> pc[w] \in {"run", "post", "swap", "exit_swap"}
    /\ pending_push[w] # NULL =>
          /\ pc[w] \in {"swap", "flush_push"}
          /\ pending_destroy[w] = NULL /\ pending_add_event[w] = NULL
    /\ pending_destroy[w] # NULL =>
          /\ pc[w] \in {"exit_swap", "flush_push", "flush_destroy"}
          /\ pending_add_event[w] = NULL
    /\ pending_add_event[w] # NULL =>
          pc[w] \in {"swap", "flush_push", "flush_destroy", "flush_add"}
    /\ pc[w] = "swap" => cur_coroutine[w] \in {pending_push[w], pending_add_event[w]}
    /\ pc[w] = "exit_swap" => cur_coroutine[w] = pending_destroy[w]

\* The context of the coroutine in hand: in use until the switch away from it,
\* complete after it, unless the coroutine is only to be deleted.
ContextFollowsPc(w) ==
    /\ cur_coroutine[w] # NULL => context[cur_coroutine[w]] = "live"
    /\ \A slot \in {pending_push, pending_add_event} :
          cur_coroutine[w] = NULL /\ slot[w] # NULL => context[slot[w]] = "saved"

InTimer(c) == c \in sleeping \cup due

\* OneOwner without counting: the places a coroutine may be in exclude each
\* other, and it is nowhere exactly when it is not allocated.
QueuedOnce(c) ==
    \A i, j \in DOMAIN job_queue : job_queue[i] = c /\ job_queue[j] = c => i = j
Exclusive(c) ==
    /\ QueuedOnce(c)
    /\ ~(InQueue(c) /\ InTimer(c)) /\ ~(c \in sleeping /\ c \in due)
    /\ \A w \in Workers : Hand(w) = c => ~InQueue(c) /\ ~InTimer(c)
    /\ \A v, w \in Workers : Hand(v) = c /\ Hand(w) = c => v = w
Somewhere(c) == InQueue(c) \/ InTimer(c) \/ \E w \in Workers : Hand(w) = c
Allocated(c) ==
    /\ Somewhere(c) => context[c] # "unallocated"
    /\ main_pc # "down" /\ context[c] # "unallocated" => Somewhere(c)

\* running_ is false from destroy() on, and nobody moves after the joins.
Phases ==
    /\ running <=> main_pc \in {"up", "post"}
    /\ tpc \in {"top", "returned"} => due = {}
    /\ main_pc = "down" => tpc = "returned" /\ \A w \in Workers : pc[w] = "returned"

Ownership ==
    /\ TypeOK
    /\ \A w \in Workers : SlotsFollowPc(w) /\ ContextFollowsPc(w)
    /\ \A c \in Coroutines : Exclusive(c) /\ Allocated(c)
    /\ PublishedIsSaved
    /\ Phases

-----------------------------------------------------------------------------
(* Lemmas on the queue *)

\* push_back() adds the coroutine behind the others and changes nothing else.
LEMMA AfterPush ==
    ASSUME TypeOK, NEW c \in Coroutines, job_queue' = Append(job_queue, c)
    PROVE  /\ job_queue' \in Seq(Coroutines)
           /\ Len(job_queue') = Len(job_queue) + 1
           /\ \A d \in Coroutines : InQueue(d)' <=> InQueue(d) \/ d = c
           /\ \A d \in Coroutines : d # c /\ QueuedOnce(d) => QueuedOnce(d)'
           /\ ~InQueue(c) => QueuedOnce(c)'
<1>1. /\ job_queue' \in Seq(Coroutines)
      /\ Len(job_queue') = Len(job_queue) + 1 /\ Len(job_queue) \in Nat
      /\ DOMAIN job_queue = 1 .. Len(job_queue)
      /\ DOMAIN job_queue' = 1 .. Len(job_queue) + 1
      /\ \A i \in 1 .. Len(job_queue) : job_queue'[i] = job_queue[i]
      /\ job_queue'[Len(job_queue) + 1] = c
  BY AppendProperties, LenProperties DEF TypeOK
<1>2. \A d \in Coroutines : InQueue(d)' <=> InQueue(d) \/ d = c
  BY <1>1 DEF InQueue
<1>3. \A d \in Coroutines : d # c /\ QueuedOnce(d) => QueuedOnce(d)'
  BY <1>1 DEF QueuedOnce
<1>4. ~InQueue(c) => QueuedOnce(c)'
  BY <1>1 DEF QueuedOnce, InQueue
<1> QED
  BY <1>1, <1>2, <1>3, <1>4

\* pop_front() takes the first coroutine away and changes nothing else.
LEMMA AfterPop ==
    ASSUME TypeOK, \A d \in Coroutines : QueuedOnce(d),
           job_queue # <<>>, job_queue' = Tail(job_queue)
    PROVE  /\ job_queue' \in Seq(Coroutines)
           /\ Len(job_queue') = Len(job_queue) - 1
           /\ Head(job_queue) \in Coroutines /\ InQueue(Head(job_queue))
           /\ \A d \in Coroutines : InQueue(d)' <=> InQueue(d) /\ d # Head(job_queue)
           /\ \A d \in Coroutines : QueuedOnce(d)'
<1>1. /\ job_queue' \in Seq(Coroutines)
      /\ Len(job_queue') = Len(job_queue) - 1
      /\ Len(job_queue) \in Nat /\ Len(job_queue) > 0
      /\ DOMAIN job_queue = 1 .. Len(job_queue)
      /\ DOMAIN job_queue' = 1 .. Len(job_queue) - 1
      /\ \A i \in 1 .. Len(job_queue) - 1 : job_queue'[i] = job_queue[i + 1]
      /\ Head(job_queue) = job_queue[1] /\ Head(job_queue) \in Coroutines
  BY HeadTailProperties, LenProperties, EmptySeq DEF TypeOK
<1>2. ASSUME NEW d \in Coroutines
      PROVE  InQueue(d)' <=> InQueue(d) /\ d # Head(job_queue)
  <2>1. ASSUME NEW k \in DOMAIN job_queue', job_queue'[k] = d
        PROVE  InQueue(d) /\ d # Head(job_queue)
    <3>1. k + 1 \in DOMAIN job_queue /\ job_queue[k + 1] = d /\ k + 1 # 1
          /\ 1 \in DOMAIN job_queue
      BY <1>1, <2>1
    <3> QED
      BY <1>1, <3>1 DEF InQueue, QueuedOnce
  <2>2. ASSUME NEW k \in DOMAIN job_queue, job_queue[k] = d, d # Head(job_queue)
        PROVE  InQueue(d)'
    <3>1. k - 1 \in DOMAIN job_queue' /\ job_queue'[k - 1] = d
      BY <1>1, <2>2
    <3> QED
      BY <3>1 DEF InQueue
  <2> QED
    BY <2>1, <2>2 DEF InQueue
<1>3. InQueue(Head(job_queue))
  BY <1>1 DEF InQueue
<1>4. ASSUME NEW d \in Coroutines
      PROVE  QueuedOnce(d)'
  BY <1>1 DEF QueuedOnce
<1> QED
  BY <1>1, <1>2, <1>3, <1>4

-----------------------------------------------------------------------------
(* One step of the scheduler *)

\* Types, the use of the slots and the phases of Main and the timer are kept by
\* each step by itself.
LEMMA LocalStep ==
    ASSUME Ownership, [Next]_vars
    PROVE  TypeOK' /\ (\A w \in Workers : SlotsFollowPc(w)') /\ Phases'
<1> DEFINE Local == TypeOK /\ (\A w \in Workers : SlotsFollowPc(w)) /\ Phases
<1> USE DEF Ownership, TypeOK, SlotsFollowPc, Phases, Goto, worker_local, timer, main, pending
<1>0. PostsNeeded \in Nat
  BY FS_CardinalityType, WorkersAssumption DEF PostsNeeded
<1>1. ASSUME NEW u \in Workers, LoopTop(u)
      PROVE  Local'
  BY <1>1 DEF LoopTop, NextStop
<1>2. ASSUME NEW u \in Workers, LoopEnds(u)
      PROVE  Local'
  BY <1>2 DEF LoopEnds
<1>3. ASSUME NEW u \in Workers, SemWait(u)
      PROVE  Local'
  BY <1>3 DEF SemWait
<1>4. ASSUME NEW u \in Workers, Pop(u)
      PROVE  Local'
  BY <1>4, HeadTailProperties, NullAssumption DEF Pop
<1>5. ASSUME NEW u \in Workers, PopsNothing(u)
      PROVE  Local'
  BY <1>5 DEF PopsNothing
<1>6. ASSUME NEW u \in Workers, Resume(u)
      PROVE  Local'
  BY <1>6 DEF Resume
<1>7. ASSUME NEW u \in Workers, CoroutineYield(u)
      PROVE  Local'
  BY <1>7 DEF CoroutineYield, QueueAtYield
<1>8. ASSUME NEW u \in Workers, CoroutineSleep(u)
      PROVE  Local'
  BY <1>8 DEF CoroutineSleep, SleepersAtSleep
<1>9. ASSUME NEW u \in Workers, CoroutineReturn(u)
      PROVE  Local'
  BY <1>9 DEF CoroutineReturn, ContextsAtReturn
<1>10. ASSUME NEW u \in Workers, CoroutineCreate(u)
      PROVE  Local'
  BY <1>10, AppendProperties DEF CoroutineCreate, New
<1>11. ASSUME NEW u \in Workers, CoroutinePost(u)
      PROVE  Local'
  BY <1>11 DEF CoroutinePost, Posted
<1>12. ASSUME NEW u \in Workers, SwapOut(u)
      PROVE  Local'
  BY <1>12 DEF SwapOut
<1>13. ASSUME NEW u \in Workers, ExitSwap(u)
      PROVE  Local'
  BY <1>13 DEF ExitSwap
<1>14. ASSUME NEW u \in Workers, FlushPendingPush(u)
      PROVE  Local'
  BY <1>14, AppendProperties DEF FlushPendingPush
<1>15. ASSUME NEW u \in Workers, FlushPendingDestroy(u)
      PROVE  Local'
  BY <1>15 DEF FlushPendingDestroy, AfterDestroy
<1>16. ASSUME NEW u \in Workers, FlushPendingAddEvent(u)
      PROVE  Local'
  BY <1>16 DEF FlushPendingAddEvent, EventsToAdd
<1>17. ASSUME NEW D \in SUBSET sleeping, TimerTick(D)
      PROVE  Local'
  BY <1>17 DEF TimerTick
<1>18. CASE TimerPush
  BY <1>18, AppendProperties DEF TimerPush, DueAfter
<1>19. CASE TimerPost
  BY <1>19 DEF TimerPost, Posted
<1>20. CASE TimerTickDone
  BY <1>20 DEF TimerTickDone
<1>21. CASE TimerReturns
  BY <1>21 DEF TimerReturns
<1>22. CASE MainCreate
  BY <1>22, AppendProperties DEF MainCreate, New
<1>23. CASE MainPost
  BY <1>23 DEF MainPost, Posted
<1>24. CASE DestroyBegin
  BY <1>24 DEF DestroyBegin
<1>25. CASE DestroyPost
  BY <1>25, <1>0 DEF DestroyPost
<1>26. CASE DestroyJoin
  BY <1>26, EmptySeq DEF DestroyJoin
<1>27. CASE UNCHANGED vars
  BY <1>27 DEF vars
<1> QED
  BY <1>1, <1>2, <1>3, <1>4, <1>5, <1>6, <1>7, <1>8, <1>9, <1>10, <1>11, <1>12, <1>13, <1>14,
     <1>15, <1>16, <1>17, <1>18, <1>19, <1>20, <1>21, <1>22, <1>23, <1>24, <1>25, <1>26, <1>27
     DEF Next, WorkerLoop, Suspends, Timer, Destroy, Terminated

\* A step that changes no pair of hands.
NobodyMoves ==
    /\ job_queue' = job_queue
    /\ \A w \in Workers : Hand(w)' = Hand(w)
    /\ \A c \in Coroutines : InTimer(c)' <=> InTimer(c)
    /\ \A c \in Coroutines : ~(c \in sleeping' /\ c \in due')
    /\ \A c \in Coroutines : context'[c] = "unallocated" <=> context[c] = "unallocated"
    /\ main_pc' = "down" <=> main_pc = "down"

\* Such a step keeps every coroutine in the one place it was in.
LEMMA NobodyMovesPlaces ==
    ASSUME Ownership, NobodyMoves
    PROVE  \A c \in Coroutines : Exclusive(c)' /\ Allocated(c)'
<1>1. \A c \in Coroutines : (InQueue(c)' <=> InQueue(c)) /\ (QueuedOnce(c)' <=> QueuedOnce(c))
  BY DEF NobodyMoves, InQueue, QueuedOnce
<1> QED
  BY <1>1 DEF NobodyMoves, Ownership, Exclusive, Allocated, Somewhere

\* All steps but eight are of that kind.  Flushing is, when the slot is empty.
QuietWorker(u) ==
    \/ LoopTop(u) \/ LoopEnds(u) \/ SemWait(u) \/ PopsNothing(u) \/ Resume(u)
    \/ Suspends(u) \/ CoroutinePost(u) \/ SwapOut(u) \/ ExitSwap(u)
    \/ FlushPendingPush(u) /\ pending_push[u] = NULL
    \/ FlushPendingDestroy(u) /\ pending_destroy[u] = NULL
    \/ FlushPendingAddEvent(u) /\ pending_add_event[u] = NULL
Quiet ==
    \/ \E u \in Workers : QuietWorker(u)
    \/ \E D \in SUBSET sleeping : TimerTick(D)
    \/ TimerPost \/ TimerTickDone \/ TimerReturns
    \/ MainPost \/ DestroyBegin \/ DestroyPost
    \/ UNCHANGED vars

\* Those steps change no pair of hands.
LEMMA QuietSteps ==
    ASSUME Ownership, Quiet
    PROVE  NobodyMoves
<1> USE DEF NobodyMoves, Hand, InTimer, Ownership, TypeOK, SlotsFollowPc, Phases, Goto,
            worker_local, timer, main, pending
<1>0. \A c \in Coroutines : ~(c \in sleeping /\ c \in due)
  BY DEF Exclusive
<1>1. ASSUME NEW u \in Workers, LoopTop(u)
      PROVE  NobodyMoves
  BY <1>0, <1>1 DEF LoopTop, NextStop
<1>2. ASSUME NEW u \in Workers, LoopEnds(u)
      PROVE  NobodyMoves
  BY <1>0, <1>2 DEF LoopEnds
<1>3. ASSUME NEW u \in Workers, SemWait(u)
      PROVE  NobodyMoves
  BY <1>0, <1>3 DEF SemWait
<1>4. ASSUME NEW u \in Workers, PopsNothing(u)
      PROVE  NobodyMoves
  BY <1>0, <1>4 DEF PopsNothing
<1>5. ASSUME NEW u \in Workers, Resume(u)
      PROVE  NobodyMoves
  <2>1. job[u] \in Coroutines /\ job[u] = Hand(u) /\ context[job[u]] # "unallocated"
    BY <1>5 DEF Resume, Allocated, Somewhere
  <2>2. \A c \in Coroutines : context'[c] = IF c = job[u] THEN "live" ELSE context[c]
    BY <1>5, <2>1 DEF Resume
  <2> QED
    BY <1>0, <1>5, <2>1, <2>2 DEF Resume
<1>6. ASSUME NEW u \in Workers, CoroutineYield(u)
      PROVE  NobodyMoves
  BY <1>0, <1>6 DEF CoroutineYield, QueueAtYield
<1>7. ASSUME NEW u \in Workers, CoroutineSleep(u)
      PROVE  NobodyMoves
  BY <1>0, <1>7 DEF CoroutineSleep, SleepersAtSleep
<1>8. ASSUME NEW u \in Workers, CoroutineReturn(u)
      PROVE  NobodyMoves
  BY <1>0, <1>8 DEF CoroutineReturn, ContextsAtReturn
<1>9. ASSUME NEW u \in Workers, CoroutinePost(u)
      PROVE  NobodyMoves
  BY <1>0, <1>9 DEF CoroutinePost, Posted
<1>10. ASSUME NEW u \in Workers, SwapOut(u)
      PROVE  NobodyMoves
  <2>1. cur_coroutine[u] \in Coroutines /\ context[cur_coroutine[u]] = "live"
    BY <1>10 DEF SwapOut, ContextFollowsPc
  <2>2. \A c \in Coroutines : context'[c] = IF c = cur_coroutine[u] THEN "saved" ELSE context[c]
    BY <1>10, <2>1 DEF SwapOut
  <2> QED
    BY <1>0, <1>10, <2>1, <2>2 DEF SwapOut
<1>11. ASSUME NEW u \in Workers, ExitSwap(u)
      PROVE  NobodyMoves
  BY <1>0, <1>11 DEF ExitSwap
<1>12. ASSUME NEW u \in Workers, FlushPendingPush(u), pending_push[u] = NULL
      PROVE  NobodyMoves
  BY <1>0, <1>12, NullAssumption DEF FlushPendingPush
<1>13. ASSUME NEW u \in Workers, FlushPendingDestroy(u), pending_destroy[u] = NULL
      PROVE  NobodyMoves
  BY <1>0, <1>13, NullAssumption DEF FlushPendingDestroy, AfterDestroy
<1>14. ASSUME NEW u \in Workers, FlushPendingAddEvent(u), pending_add_event[u] = NULL
      PROVE  NobodyMoves
  BY <1>0, <1>14, NullAssumption DEF FlushPendingAddEvent, EventsToAdd
<1>15. ASSUME NEW D \in SUBSET sleeping, TimerTick(D)
      PROVE  NobodyMoves
  BY <1>0, <1>15 DEF TimerTick
<1>16. ASSUME TimerPost
      PROVE  NobodyMoves
  BY <1>0, <1>16 DEF TimerPost, Posted
<1>17. ASSUME TimerTickDone
      PROVE  NobodyMoves
  BY <1>0, <1>17 DEF TimerTickDone
<1>18. ASSUME TimerReturns
      PROVE  NobodyMoves
  BY <1>0, <1>18 DEF TimerReturns
<1>19. ASSUME MainPost
      PROVE  NobodyMoves
  BY <1>0, <1>19 DEF MainPost, Posted
<1>20. ASSUME DestroyBegin
      PROVE  NobodyMoves
  BY <1>0, <1>20 DEF DestroyBegin
<1>21. ASSUME DestroyPost
      PROVE  NobodyMoves
  BY <1>0, <1>21 DEF DestroyPost
<1>22. ASSUME UNCHANGED vars
      PROVE  NobodyMoves
  BY <1>0, <1>22 DEF vars
<1> QED
  BY <1>1, <1>2, <1>3, <1>4, <1>5, <1>6, <1>7, <1>8, <1>9, <1>10, <1>11, <1>12, <1>13, <1>14,
     <1>15, <1>16, <1>17, <1>18, <1>19, <1>20, <1>21, <1>22
     DEF Quiet, QuietWorker, Suspends

\* A new coroutine was nowhere and is in the queue.
LEMMA NewPlaces ==
    ASSUME Ownership, NEW c \in Coroutines, New(c),
           \A w \in Workers : Hand(w)' = Hand(w),
           UNCHANGED timer, main_pc' = "down" <=> main_pc = "down"
    PROVE  \A d \in Coroutines : Exclusive(d)' /\ Allocated(d)'
<1>1. /\ \A d \in Coroutines : InQueue(d)' <=> InQueue(d) \/ d = c
      /\ \A d \in Coroutines : d # c /\ QueuedOnce(d) => QueuedOnce(d)'
      /\ ~InQueue(c) => QueuedOnce(c)'
  BY AfterPush DEF New, Ownership
<1>2. /\ sleeping' = sleeping /\ due' = due
      /\ \A d \in Coroutines : InTimer(d)' <=> InTimer(d)
  BY DEF timer, InTimer
<1>3. ~Somewhere(c)
  BY DEF New, Ownership, Allocated
<1>4. \A d \in Coroutines : context'[d] = IF d = c THEN "fresh" ELSE context[d]
  BY DEF New, Ownership, TypeOK
<1> QED
  BY <1>1, <1>2, <1>3, <1>4 DEF Ownership, Exclusive, Allocated, Somewhere

\* The first coroutine of the queue goes to the worker that pops it.
LEMMA PopPlaces ==
    ASSUME Ownership, NEW u \in Workers, Pop(u)
    PROVE  \A d \in Coroutines : Exclusive(d)' /\ Allocated(d)'
<1>1. /\ Head(job_queue) \in Coroutines /\ InQueue(Head(job_queue))
      /\ \A d \in Coroutines : InQueue(d)' <=> InQueue(d) /\ d # Head(job_queue)
      /\ \A d \in Coroutines : QueuedOnce(d)'
  BY AfterPop DEF Pop, Ownership, Exclusive
<1>2. \A w \in Workers : Hand(w)' = IF w = u THEN Head(job_queue) ELSE Hand(w)
  BY <1>1, NullAssumption DEF Pop, Goto, pending, Hand, Ownership, TypeOK, SlotsFollowPc
<1>3. Hand(u) = NULL
  BY DEF Pop, Goto, Hand, Ownership, TypeOK, SlotsFollowPc
<1>4. /\ sleeping' = sleeping /\ due' = due /\ context' = context /\ main_pc' = main_pc
      /\ \A d \in Coroutines : InTimer(d)' <=> InTimer(d)
  BY DEF Pop, timer, main, InTimer
<1> QED
  BY <1>1, <1>2, <1>3, <1>4, NullAssumption DEF Ownership, Exclusive, Allocated, Somewhere

\* The coroutine that yielded goes from the worker's hands to the queue.
LEMMA FlushPendingPushPlaces ==
    ASSUME Ownership, NEW u \in Workers, FlushPendingPush(u), pending_push[u] # NULL
    PROVE  \A d \in Coroutines : Exclusive(d)' /\ Allocated(d)'
<1>1. PICK c \in Coroutines : c = pending_push[u]
  BY DEF Ownership, TypeOK
<1>2. c = Hand(u)
  BY <1>1 DEF Hand, Ownership, SlotsFollowPc, FlushPendingPush, Goto
<1>3. \A w \in Workers : Hand(w)' = IF w = u THEN NULL ELSE Hand(w)
  BY <1>1 DEF FlushPendingPush, Goto, worker_local, Hand, Ownership, TypeOK, SlotsFollowPc
<1>4. /\ \A d \in Coroutines : InQueue(d)' <=> InQueue(d) \/ d = c
      /\ \A d \in Coroutines : d # c /\ QueuedOnce(d) => QueuedOnce(d)'
      /\ ~InQueue(c) => QueuedOnce(c)'
  BY <1>1, AfterPush DEF FlushPendingPush, Ownership
<1>5. /\ sleeping' = sleeping /\ due' = due /\ context' = context /\ main_pc' = main_pc
      /\ \A d \in Coroutines : InTimer(d)' <=> InTimer(d)
  BY DEF FlushPendingPush, timer, main, InTimer
<1> QED
  BY <1>2, <1>3, <1>4, <1>5, NullAssumption DEF Ownership, Exclusive, Allocated, Somewhere

\* The coroutine that returned goes from the worker's hands to nowhere.
LEMMA FlushPendingDestroyPlaces ==
    ASSUME Ownership, NEW u \in Workers, FlushPendingDestroy(u), pending_destroy[u] # NULL
    PROVE  \A d \in Coroutines : Exclusive(d)' /\ Allocated(d)'
<1>1. PICK c \in Coroutines : c = pending_destroy[u]
  BY DEF Ownership, TypeOK
<1>2. c = Hand(u)
  BY <1>1 DEF Hand, Ownership, SlotsFollowPc, FlushPendingDestroy, Goto
<1>3. \A w \in Workers : Hand(w)' = IF w = u THEN NULL ELSE Hand(w)
  BY <1>1 DEF FlushPendingDestroy, AfterDestroy, Goto, worker_local, Hand, Ownership, TypeOK,
              SlotsFollowPc
<1>4. \A d \in Coroutines : context'[d] = IF d = c THEN "unallocated" ELSE context[d]
  BY <1>1 DEF FlushPendingDestroy
<1>5. /\ sleeping' = sleeping /\ due' = due /\ main_pc' = main_pc
      /\ \A d \in Coroutines : InTimer(d)' <=> InTimer(d)
      /\ \A d \in Coroutines : (InQueue(d)' <=> InQueue(d)) /\ (QueuedOnce(d)' <=> QueuedOnce(d))
  BY DEF FlushPendingDestroy, timer, main, InTimer, InQueue, QueuedOnce
<1> QED
  BY <1>2, <1>3, <1>4, <1>5, NullAssumption DEF Ownership, Exclusive, Allocated, Somewhere

\* The coroutine that sleeps goes from the worker's hands to the timer.
LEMMA FlushPendingAddEventPlaces ==
    ASSUME Ownership, NEW u \in Workers, FlushPendingAddEvent(u), pending_add_event[u] # NULL
    PROVE  \A d \in Coroutines : Exclusive(d)' /\ Allocated(d)'
<1>1. PICK c \in Coroutines : c = pending_add_event[u]
  BY DEF Ownership, TypeOK
<1>2. c = Hand(u)
  BY <1>1 DEF Hand, Ownership, SlotsFollowPc, FlushPendingAddEvent, Goto
<1>3. \A w \in Workers : Hand(w)' = IF w = u THEN NULL ELSE Hand(w)
  BY <1>1 DEF FlushPendingAddEvent, Goto, worker_local, Hand, Ownership, TypeOK, SlotsFollowPc
<1>4. /\ sleeping' = sleeping \cup {c} /\ due' = due /\ main_pc' = main_pc /\ context' = context
      /\ \A d \in Coroutines : InTimer(d)' <=> InTimer(d) \/ d = c
      /\ \A d \in Coroutines : (InQueue(d)' <=> InQueue(d)) /\ (QueuedOnce(d)' <=> QueuedOnce(d))
  BY <1>1, NullAssumption
     DEF FlushPendingAddEvent, EventsToAdd, timer, main, InTimer, InQueue, QueuedOnce
<1>5. ~InTimer(c) /\ ~InQueue(c)
  BY <1>2 DEF Ownership, Exclusive
<1> QED
  BY <1>2, <1>3, <1>4, <1>5, NullAssumption
     DEF Ownership, Exclusive, Allocated, Somewhere, InTimer

\* The sleeper that is due goes from the timer to the queue.
LEMMA TimerPushPlaces ==
    ASSUME Ownership, TimerPush
    PROVE  \A d \in Coroutines : Exclusive(d)' /\ Allocated(d)'
<1>1. PICK c \in due : job_queue' = Append(job_queue, c) /\ due' = due \ {c}
  BY DEF TimerPush, DueAfter
<1>2. c \in Coroutines
  BY DEF Ownership, TypeOK
<1>3. /\ \A d \in Coroutines : InQueue(d)' <=> InQueue(d) \/ d = c
      /\ \A d \in Coroutines : d # c /\ QueuedOnce(d) => QueuedOnce(d)'
      /\ ~InQueue(c) => QueuedOnce(c)'
  BY <1>1, <1>2, AfterPush DEF Ownership
<1>4. /\ sleeping' = sleeping /\ main_pc' = main_pc /\ context' = context
      /\ \A w \in Workers : Hand(w)' = Hand(w)
  BY DEF TimerPush, main, worker_local, pending, Hand
<1>5. InTimer(c) /\ c \notin sleeping
  BY <1>2 DEF Ownership, Exclusive, InTimer
<1>6. \A d \in Coroutines : InTimer(d)' <=> InTimer(d) /\ d # c
  BY <1>1, <1>4, <1>5 DEF InTimer
<1> QED
  BY <1>1, <1>3, <1>4, <1>5, <1>6 DEF Ownership, Exclusive, Allocated, Somewhere

\* The coroutines that are in the queue at the joins are abandoned.
LEMMA DestroyJoinPlaces ==
    ASSUME Ownership, DestroyJoin
    PROVE  \A d \in Coroutines : Exclusive(d)' /\ Allocated(d)'
<1>1. \A d \in Coroutines : ~InQueue(d)' /\ QueuedOnce(d)'
  BY DEF DestroyJoin, InQueue, QueuedOnce
<1>2. /\ sleeping' = sleeping /\ due' = due /\ main_pc' = "down" /\ context' = context
      /\ \A w \in Workers : Hand(w)' = Hand(w)
      /\ \A d \in Coroutines : InTimer(d)' <=> InTimer(d)
  BY DEF DestroyJoin, worker_local, pending, timer, Hand, InTimer
<1> QED
  BY <1>1, <1>2 DEF Ownership, Exclusive, Allocated, Somewhere

\* Every step keeps each allocated coroutine in exactly one place.
LEMMA PlacesStep ==
    ASSUME Ownership, [Next]_vars
    PROVE  \A d \in Coroutines : Exclusive(d)' /\ Allocated(d)'
<1> DEFINE Places == \A d \in Coroutines : Exclusive(d) /\ Allocated(d)
<1>1. ASSUME Quiet
      PROVE  Places'
  BY <1>1, QuietSteps, NobodyMovesPlaces
<1>2. ASSUME NEW u \in Workers, Pop(u)
      PROVE  Places'
  BY <1>2, PopPlaces
<1>3. ASSUME NEW u \in Workers, CoroutineCreate(u)
      PROVE  Places'
  <2>1. PICK c \in Coroutines : New(c)
    BY <1>3 DEF CoroutineCreate
  <2>2. \A w \in Workers : Hand(w)' = Hand(w)
    BY <1>3 DEF CoroutineCreate, worker_local, pending, Hand
  <2>3. UNCHANGED timer /\ main_pc' = main_pc
    BY <1>3 DEF CoroutineCreate, main
  <2> QED
    BY <2>1, <2>2, <2>3, NewPlaces
<1>4. ASSUME MainCreate
      PROVE  Places'
  <2>1. PICK c \in Coroutines : New(c)
    BY <1>4 DEF MainCreate
  <2>2. \A w \in Workers : Hand(w)' = Hand(w)
    BY <1>4 DEF MainCreate, worker_local, pending, Hand
  <2>3. UNCHANGED timer /\ main_pc' # "down" /\ main_pc # "down"
    BY <1>4 DEF MainCreate
  <2> QED
    BY <2>1, <2>2, <2>3, NewPlaces
<1>5. ASSUME NEW u \in Workers, FlushPendingPush(u)
      PROVE  Quiet \/ Places'
  BY <1>5, FlushPendingPushPlaces DEF Quiet, QuietWorker
<1>6. ASSUME NEW u \in Workers, FlushPendingDestroy(u)
      PROVE  Quiet \/ Places'
  BY <1>6, FlushPendingDestroyPlaces DEF Quiet, QuietWorker
<1>7. ASSUME NEW u \in Workers, FlushPendingAddEvent(u)
      PROVE  Quiet \/ Places'
  BY <1>7, FlushPendingAddEventPlaces DEF Quiet, QuietWorker
<1>8. ASSUME TimerPush
      PROVE  Places'
  BY <1>8, TimerPushPlaces
<1>9. ASSUME DestroyJoin
      PROVE  Places'
  BY <1>9, DestroyJoinPlaces
<1> HIDE DEF Places
<1>10. ASSUME NEW u \in Workers, WorkerLoop(u) \/ Suspends(u) \/ CoroutineCreate(u)
       PROVE  Quiet \/ Places'
  BY <1>2, <1>3, <1>5, <1>6, <1>7, <1>10 DEF WorkerLoop, Quiet, QuietWorker
<1>11. ASSUME Timer \/ MainCreate \/ MainPost \/ DestroyBegin \/ Destroy \/ Terminated
       PROVE  Quiet \/ Places'
  BY <1>4, <1>8, <1>9, <1>11 DEF Timer, Destroy, Terminated, Quiet
<1>12. ASSUME (\E D \in SUBSET sleeping : TimerTick(D)) \/ UNCHANGED vars
       PROVE  Quiet
  BY <1>12 DEF Quiet
<1> QED
  BY <1>1, <1>10, <1>11, <1>12 DEF Next, Places

-----------------------------------------------------------------------------
(* What the contexts are worth *)

\* The coroutine one worker holds is not the one another holds, nor published.
LEMMA OthersAreDifferent ==
    ASSUME Ownership, NEW u \in Workers, NEW c \in Coroutines, Hand(u) = c
    PROVE  /\ ~InQueue(c) /\ ~InTimer(c)
           /\ \A w \in Workers : w # u =>
                 c \notin {cur_coroutine[w], pending_push[w], pending_add_event[w]}
<1>1. \A w \in Workers : w # u => Hand(w) # c
  BY DEF Ownership, Exclusive
<1> QED
  BY <1>1, NullAssumption DEF Ownership, Exclusive, SlotsFollowPc, Hand

\* A context is in use until the switch away from it and complete after it.
LEMMA ContextStep ==
    ASSUME Ownership, [Next]_vars
    PROVE  \A w \in Workers : ContextFollowsPc(w)'
<1> DEFINE Contexts == \A w \in Workers : ContextFollowsPc(w)
<1> USE DEF Ownership, TypeOK, SlotsFollowPc, ContextFollowsPc, Goto, worker_local, timer, main,
            pending
<1>1. ASSUME NEW u \in Workers, LoopTop(u)
      PROVE  Contexts'
  BY <1>1 DEF LoopTop, NextStop
<1>2. ASSUME NEW u \in Workers, LoopEnds(u)
      PROVE  Contexts'
  BY <1>2 DEF LoopEnds
<1>3. ASSUME NEW u \in Workers, SemWait(u)
      PROVE  Contexts'
  BY <1>3 DEF SemWait
<1>4. ASSUME NEW u \in Workers, Pop(u)
      PROVE  Contexts'
  BY <1>4 DEF Pop
<1>5. ASSUME NEW u \in Workers, PopsNothing(u)
      PROVE  Contexts'
  BY <1>5 DEF PopsNothing
<1>6. ASSUME NEW u \in Workers, Resume(u)
      PROVE  Contexts'
  <2>1. PICK c \in Coroutines : c = job[u]
    BY <1>6 DEF Resume
  <2>2. Hand(u) = c
    BY <1>6, <2>1, NullAssumption DEF Resume, Hand
  <2>3. \A d \in Coroutines : context'[d] = IF d = c THEN "live" ELSE context[d]
    BY <1>6, <2>1 DEF Resume
  <2> QED
    BY <1>6, <2>1, <2>2, <2>3, OthersAreDifferent DEF Resume
<1>7. ASSUME NEW u \in Workers, CoroutineYield(u)
      PROVE  Contexts'
  BY <1>7 DEF CoroutineYield, QueueAtYield
<1>8. ASSUME NEW u \in Workers, CoroutineSleep(u)
      PROVE  Contexts'
  BY <1>8 DEF CoroutineSleep, SleepersAtSleep
<1>9. ASSUME NEW u \in Workers, CoroutineReturn(u)
      PROVE  Contexts'
  BY <1>9 DEF CoroutineReturn, ContextsAtReturn
<1>10. ASSUME NEW u \in Workers, CoroutineCreate(u)
      PROVE  Contexts'
  BY <1>10 DEF CoroutineCreate, New
<1>11. ASSUME NEW u \in Workers, CoroutinePost(u)
      PROVE  Contexts'
  BY <1>11 DEF CoroutinePost, Posted
<1>12. ASSUME NEW u \in Workers, SwapOut(u)
      PROVE  Contexts'
  <2>1. PICK c \in Coroutines : c = cur_coroutine[u]
    BY <1>12 DEF SwapOut
  <2>2. Hand(u) = c
    BY <1>12, <2>1, NullAssumption DEF SwapOut, Hand
  <2>3. \A d \in Coroutines : context'[d] = IF d = c THEN "saved" ELSE context[d]
    BY <1>12, <2>1 DEF SwapOut
  <2> QED
    BY <1>12, <2>1, <2>2, <2>3, OthersAreDifferent DEF SwapOut
<1>13. ASSUME NEW u \in Workers, ExitSwap(u)
      PROVE  Contexts'
  BY <1>13 DEF ExitSwap
<1>14. ASSUME NEW u \in Workers, FlushPendingPush(u)
      PROVE  Contexts'
  BY <1>14 DEF FlushPendingPush
<1>15. ASSUME NEW u \in Workers, FlushPendingDestroy(u)
      PROVE  Contexts'
  <2>1. CASE pending_destroy[u] = NULL
    BY <1>15, <2>1, NullAssumption DEF FlushPendingDestroy, AfterDestroy
  <2>2. CASE pending_destroy[u] # NULL
    <3>1. PICK c \in Coroutines : c = pending_destroy[u]
      BY <2>2
    <3>2. Hand(u) = c
      BY <1>15, <3>1, NullAssumption DEF FlushPendingDestroy, Hand
    <3>3. \A d \in Coroutines : context'[d] = IF d = c THEN "unallocated" ELSE context[d]
      BY <1>15, <3>1 DEF FlushPendingDestroy
    <3> QED
      BY <1>15, <3>1, <3>2, <3>3, OthersAreDifferent DEF FlushPendingDestroy, AfterDestroy
  <2> QED
    BY <2>1, <2>2
<1>16. ASSUME NEW u \in Workers, FlushPendingAddEvent(u)
      PROVE  Contexts'
  BY <1>16 DEF FlushPendingAddEvent, EventsToAdd
<1>17. ASSUME NEW D \in SUBSET sleeping, TimerTick(D)
      PROVE  Contexts'
  BY <1>17 DEF TimerTick
<1>18. CASE TimerPush
  BY <1>18 DEF TimerPush, DueAfter
<1>19. CASE TimerPost
  BY <1>19 DEF TimerPost, Posted
<1>20. CASE TimerTickDone
  BY <1>20 DEF TimerTickDone
<1>21. CASE TimerReturns
  BY <1>21 DEF TimerReturns
<1>22. CASE MainCreate
  BY <1>22 DEF MainCreate, New
<1>23. CASE MainPost
  BY <1>23 DEF MainPost, Posted
<1>24. CASE DestroyBegin
  BY <1>24 DEF DestroyBegin
<1>25. CASE DestroyPost
  BY <1>25 DEF DestroyPost
<1>26. CASE DestroyJoin
  BY <1>26 DEF DestroyJoin
<1>27. CASE UNCHANGED vars
  BY <1>27 DEF vars
<1> QED
  BY <1>1, <1>2, <1>3, <1>4, <1>5, <1>6, <1>7, <1>8, <1>9, <1>10, <1>11, <1>12, <1>13, <1>14,
     <1>15, <1>16, <1>17, <1>18, <1>19, <1>20, <1>21, <1>22, <1>23, <1>24, <1>25, <1>26, <1>27
     DEF Next, WorkerLoop, Suspends, Timer, Destroy, Terminated

\* No step publishes a coroutine whose context is in use, or uses the context of
\* a published one.
LEMMA PublishedStep ==
    ASSUME Ownership, [Next]_vars
    PROVE  PublishedIsSaved'
<1> DEFINE P(c) == InQueue(c) \/ InTimer(c)
<1>0. \A c \in Coroutines : P(c) => context[c] \in {"fresh", "saved"}
  BY DEF Ownership, PublishedIsSaved, InQueue, InTimer
<1> SUFFICES \A c \in Coroutines : P(c)' => context'[c] \in {"fresh", "saved"}
  BY DEF PublishedIsSaved, InQueue, InTimer
<1> DEFINE Goal == \A c \in Coroutines : P(c)' => context'[c] \in {"fresh", "saved"}
\* Steps that publish no coroutine and touch no published one.
<1>1. ASSUME \A c \in Coroutines : P(c)' => P(c) /\ context'[c] = context[c]
      PROVE  Goal
  BY <1>0, <1>1
\* Steps that publish c.
<1>2. ASSUME NEW c \in Coroutines, context'[c] \in {"fresh", "saved"},
             \A d \in Coroutines : d # c /\ P(d)' => P(d) /\ context'[d] = context[d]
      PROVE  Goal
  BY <1>0, <1>2
<1> HIDE DEF Goal
<1>3. ASSUME job_queue' = job_queue, sleeping' \cup due' \subseteq sleeping \cup due,
             context' = context
      PROVE  Goal
  BY <1>1, <1>3 DEF InQueue, InTimer
<1>4. ASSUME NEW c \in Coroutines, New(c), UNCHANGED timer
      PROVE  Goal
  <2>1. \A d \in Coroutines : InQueue(d)' <=> InQueue(d) \/ d = c
    BY <1>4, AfterPush DEF New, Ownership
  <2>2. \A d \in Coroutines : context'[d] = IF d = c THEN "fresh" ELSE context[d]
    BY <1>4 DEF New, Ownership, TypeOK
  <2>3. \A d \in Coroutines : InTimer(d)' <=> InTimer(d)
    BY <1>4 DEF timer, InTimer
  <2> QED
    BY <1>2, <2>1, <2>2, <2>3
<1>5. ASSUME NEW u \in Workers, WorkerLoop(u) \/ Suspends(u) \/ CoroutineCreate(u)
      PROVE  Goal
  <2>1. CASE Pop(u)
    <3>1. \A d \in Coroutines : InQueue(d)' => InQueue(d)
      BY <2>1, AfterPop DEF Pop, Ownership, Exclusive
    <3> QED
      BY <1>1, <2>1, <3>1 DEF Pop, timer, InTimer
  <2>2. CASE Resume(u)
    <3>1. PICK c \in Coroutines : c = job[u] /\ Hand(u) = c
      <4>1. job[u] \in Coroutines
        BY <2>2, NullAssumption DEF Resume, Goto, Ownership, TypeOK, SlotsFollowPc
      <4>2. Hand(u) = job[u]
        BY <2>2, NullAssumption DEF Resume, Goto, Hand, Ownership, SlotsFollowPc
      <4> QED
        BY <4>1, <4>2
    <3>2. \A d \in Coroutines : context'[d] = IF d = c THEN "live" ELSE context[d]
      BY <2>2, <3>1 DEF Resume, Ownership, TypeOK
    <3>3. \A d \in Coroutines : P(d)' <=> P(d)
      BY <2>2 DEF Resume, timer, InQueue, InTimer
    <3> QED
      BY <1>1, <3>1, <3>2, <3>3, OthersAreDifferent
  <2>3. CASE SwapOut(u)
    <3>1. PICK c \in Coroutines : c = cur_coroutine[u] /\ Hand(u) = c
      <4>1. cur_coroutine[u] \in Coroutines
        BY <2>3, NullAssumption DEF SwapOut, Goto, Ownership, TypeOK, SlotsFollowPc
      <4>2. Hand(u) = cur_coroutine[u]
        BY <2>3, NullAssumption DEF SwapOut, Goto, Hand, Ownership, SlotsFollowPc
      <4> QED
        BY <4>1, <4>2
    <3>2. \A d \in Coroutines : context'[d] = IF d = c THEN "saved" ELSE context[d]
      BY <2>3, <3>1 DEF SwapOut, Ownership, TypeOK
    <3>3. \A d \in Coroutines : P(d)' <=> P(d)
      BY <2>3 DEF SwapOut, timer, InQueue, InTimer
    <3> QED
      BY <1>2, <3>2, <3>3
  <2>4. CASE FlushPendingPush(u) /\ pending_push[u] # NULL
    <3>1. PICK c \in Coroutines : c = pending_push[u] /\ context[c] = "saved"
      BY <2>4 DEF FlushPendingPush, Goto, Ownership, TypeOK, SlotsFollowPc, ContextFollowsPc
    <3>2. \A d \in Coroutines : InQueue(d)' <=> InQueue(d) \/ d = c
      BY <2>4, <3>1, AfterPush DEF FlushPendingPush, Ownership
    <3>3. context' = context /\ \A d \in Coroutines : InTimer(d)' <=> InTimer(d)
      BY <2>4 DEF FlushPendingPush, timer, InTimer
    <3> QED
      BY <1>2, <3>1, <3>2, <3>3
  <2>5. CASE FlushPendingDestroy(u) /\ pending_destroy[u] # NULL
    <3>1. PICK c \in Coroutines : c = pending_destroy[u] /\ Hand(u) = c
      <4>1. pending_destroy[u] \in Coroutines
        BY <2>5, NullAssumption DEF FlushPendingDestroy, Goto, Ownership, TypeOK, SlotsFollowPc
      <4>2. Hand(u) = pending_destroy[u]
        BY <2>5, NullAssumption DEF FlushPendingDestroy, Goto, Hand, Ownership, SlotsFollowPc
      <4> QED
        BY <4>1, <4>2
    <3>2. \A d \in Coroutines : context'[d] = IF d = c THEN "unallocated" ELSE context[d]
      BY <2>5, <3>1 DEF FlushPendingDestroy
    <3>3. \A d \in Coroutines : P(d)' <=> P(d)
      BY <2>5 DEF FlushPendingDestroy, timer, InQueue, InTimer
    <3> QED
      BY <1>1, <3>1, <3>2, <3>3, OthersAreDifferent
  <2>6. CASE FlushPendingAddEvent(u) /\ pending_add_event[u] # NULL
    <3>1. PICK c \in Coroutines : c = pending_add_event[u] /\ context[c] = "saved"
      BY <2>6 DEF FlushPendingAddEvent, Goto, Ownership, TypeOK, SlotsFollowPc, ContextFollowsPc
    <3>2. /\ job_queue' = job_queue /\ context' = context
          /\ sleeping' = sleeping \cup {c} /\ due' = due
      BY <2>6, <3>1 DEF FlushPendingAddEvent, EventsToAdd
    <3> QED
      BY <1>2, <3>1, <3>2 DEF InQueue, InTimer
  <2>7. CASE CoroutineCreate(u)
    BY <1>4, <2>7 DEF CoroutineCreate
  <2>8. CASE \/ LoopTop(u) \/ LoopEnds(u) \/ SemWait(u) \/ PopsNothing(u) \/ Suspends(u)
             \/ CoroutinePost(u) \/ ExitSwap(u)
    BY <1>3, <2>8
       DEF LoopTop, LoopEnds, SemWait, PopsNothing, Suspends, CoroutineYield, QueueAtYield,
           CoroutineSleep, SleepersAtSleep, CoroutineReturn, ContextsAtReturn, CoroutinePost,
           ExitSwap, timer
  <2>9. CASE \/ FlushPendingPush(u) /\ pending_push[u] = NULL
             \/ FlushPendingAddEvent(u) /\ pending_add_event[u] = NULL
    BY <1>3, <2>9 DEF FlushPendingPush, FlushPendingAddEvent, EventsToAdd, timer
  <2>10. CASE FlushPendingDestroy(u) /\ pending_destroy[u] = NULL
    <3>1. context' = context
      BY <2>10, NullAssumption DEF FlushPendingDestroy, Ownership, TypeOK
    <3> QED
      BY <1>3, <2>10, <3>1 DEF FlushPendingDestroy, timer
  <2> QED
    BY <1>5, <2>1, <2>2, <2>3, <2>4, <2>5, <2>6, <2>7, <2>8, <2>9, <2>10 DEF WorkerLoop
<1>6. ASSUME TimerPush
      PROVE  Goal
  <2>1. PICK c \in due : job_queue' = Append(job_queue, c) /\ due' = due \ {c}
    BY <1>6 DEF TimerPush, DueAfter
  <2>2. c \in Coroutines
    BY DEF Ownership, TypeOK
  <2>3. \A d \in Coroutines : InQueue(d)' <=> InQueue(d) \/ d = c
    BY <2>1, <2>2, AfterPush DEF Ownership
  <2>4. context' = context /\ sleeping' = sleeping
    BY <1>6 DEF TimerPush
  <2>5. context[c] \in {"fresh", "saved"}
    BY <1>0, <2>2 DEF InTimer
  <2> QED
    BY <1>2, <2>1, <2>2, <2>3, <2>4, <2>5 DEF InTimer
<1>7. ASSUME \/ \E D \in SUBSET sleeping : TimerTick(D)
             \/ TimerPost \/ TimerTickDone \/ TimerReturns
             \/ MainPost \/ DestroyBegin \/ DestroyPost \/ UNCHANGED vars
      PROVE  Goal
  BY <1>3, <1>7 DEF TimerTick, TimerPost, TimerTickDone, TimerReturns, MainPost, DestroyBegin,
                    DestroyPost, timer, vars
<1>8. ASSUME DestroyJoin
      PROVE  Goal
  BY <1>1, <1>8 DEF DestroyJoin, timer, InQueue, InTimer
<1>9. ASSUME MainCreate
      PROVE  Goal
  BY <1>4, <1>9 DEF MainCreate
<1>10. Goal
  BY <1>5, <1>6, <1>7, <1>8, <1>9 DEF Next, Timer, Destroy, Terminated
<1> QED
  BY <1>10 DEF Goal

-----------------------------------------------------------------------------
(* The invariants of the scheduler *)

\* At first nothing is allocated and nobody holds anything.
LEMMA InitOwnership == Init => Ownership
<1> SUFFICES ASSUME Init PROVE Ownership
  OBVIOUS
<1>1. PostsNeeded \in Nat
  BY FS_CardinalityType, WorkersAssumption DEF PostsNeeded
<1>2. TypeOK
  BY <1>1, EmptySeq DEF Init, TypeOK
<1>3. \A w \in Workers : Hand(w) = NULL /\ SlotsFollowPc(w) /\ ContextFollowsPc(w)
  BY DEF Init, Hand, SlotsFollowPc, ContextFollowsPc
<1>4. \A c \in Coroutines : ~InQueue(c) /\ QueuedOnce(c) /\ ~InTimer(c)
  BY DEF Init, InQueue, QueuedOnce, InTimer
<1>5. \A c \in Coroutines : Exclusive(c) /\ Allocated(c)
  BY <1>3, <1>4, NullAssumption DEF Init, Exclusive, Allocated, Somewhere
<1>6. PublishedIsSaved
  BY <1>4 DEF PublishedIsSaved, InQueue, InTimer
<1> QED
  BY <1>2, <1>3, <1>5, <1>6 DEF Init, Ownership, Phases

\* The inductive invariant holds in every reachable state: where a worker is
\* determines what its slots hold, and hands exclude each other.
THEOREM OwnershipIsInvariant == Spec => []Ownership
<1>1. Ownership /\ [Next]_vars => Ownership'
  BY LocalStep, PlacesStep, ContextStep, PublishedStep DEF Ownership
<1> QED
  BY <1>1, InitOwnership, PTL DEF Spec

\* Counting the hands: there is one if the coroutine is somewhere, else none.
LEMMA CountHolders ==
    ASSUME Ownership, NEW c \in Coroutines
    PROVE  Cardinality(Holders(c)) = IF Somewhere(c) THEN 1 ELSE 0
<1> DEFINE Q == {<<"queue", k>> : k \in {k \in DOMAIN job_queue : job_queue[k] = c}}
           T == {<<"timer">> : x \in {c} \cap (sleeping \cup due)}
           W == {<<"worker", w>> : w \in {w \in Workers :
                    c \in {job[w], cur_coroutine[w], pending_push[w], pending_destroy[w],
                           pending_add_event[w]}}}
<1>1. Holders(c) = Q \cup T \cup W
  BY DEF Holders
<1>2. \A w \in Workers :
         c \in {job[w], cur_coroutine[w], pending_push[w], pending_destroy[w],
                pending_add_event[w]} <=> Hand(w) = c
  BY NullAssumption DEF Ownership, TypeOK, SlotsFollowPc, Hand
<1>3. CASE ~Somewhere(c)
  <2>1. Q = {} /\ T = {} /\ W = {}
    BY <1>2, <1>3 DEF Somewhere, InQueue, InTimer
  <2> QED
    BY <1>1, <1>3, <2>1, FS_EmptySet
<1>4. CASE InQueue(c)
  <2>1. PICK k \in DOMAIN job_queue : job_queue[k] = c
    BY <1>4 DEF InQueue
  <2>2. \A j \in DOMAIN job_queue : job_queue[j] = c => j = k
    BY <2>1 DEF Ownership, Exclusive, QueuedOnce
  <2>3. T = {} /\ W = {}
    BY <1>2, <1>4 DEF Ownership, Exclusive, InTimer
  <2>4. Q = {<<"queue", k>>}
    BY <2>1, <2>2
  <2> HIDE DEF Q, T, W
  <2>5. Holders(c) = {<<"queue", k>>}
    BY <1>1, <2>3, <2>4
  <2> QED
    BY <1>4, <2>5, FS_Singleton DEF Somewhere
<1>5. CASE InTimer(c)
  <2>1. Q = {} /\ W = {}
    BY <1>2, <1>5 DEF Ownership, Exclusive, InQueue
  <2>2. T = {<<"timer">>}
    BY <1>5 DEF InTimer
  <2> HIDE DEF Q, T, W
  <2>3. Holders(c) = {<<"timer">>}
    BY <1>1, <2>1, <2>2
  <2> QED
    BY <1>5, <2>3, FS_Singleton DEF Somewhere
<1>6. ASSUME NEW u \in Workers, Hand(u) = c
      PROVE  Cardinality(Holders(c)) = IF Somewhere(c) THEN 1 ELSE 0
  <2>1. Q = {} /\ T = {}
    BY <1>6 DEF Ownership, Exclusive, InQueue, InTimer
  <2>2. \A w \in Workers : Hand(w) = c <=> w = u
    BY <1>6 DEF Ownership, Exclusive
  <2>3. W = {<<"worker", u>>}
    BY <1>2, <2>2
  <2> HIDE DEF Q, T, W
  <2>4. Holders(c) = {<<"worker", u>>}
    BY <1>1, <2>1, <2>3
  <2>5. Somewhere(c)
    BY <1>6 DEF Somewhere
  <2> QED
    BY <2>4, <2>5, FS_Singleton
<1> QED
  BY <1>3, <1>4, <1>5, <1>6 DEF Somewhere

\* A coroutine that is allocated is in exactly one pair of hands, and one that
\* was deleted in none: the three slots of TLScheduler, the queue and the
\* timer never share a coroutine and never lose one.
THEOREM OwnershipCorrect == Spec => []OwnershipInvariant
<1>1. Ownership => OwnershipInvariant
  BY CountHolders DEF Ownership, Allocated, OwnershipInvariant, OneOwner
<1> QED
  BY <1>1, OwnershipIsInvariant, PTL

\* Nobody finds a coroutine in the queue or wakes one up while another worker
\* is still on its stack: event_loop() flushes only after the switch.
THEOREM PublishedIsSavedCorrect == Spec => []PublishedIsSaved
<1>1. Ownership => PublishedIsSaved
  BY DEF Ownership
<1> QED
  BY <1>1, OwnershipIsInvariant, PTL

-----------------------------------------------------------------------------
(* Tokens *)

\* TokenBalance is inductive together with what yield_from_coroutine_ stands
\* for between the switch and the push: exactly the yielding worker will have
\* pushed a job that nobody posts for.
TokenInv ==
    /\ \A w \in Workers :
          pc[w] = "flush_push" => (yield_from_coroutine[w] <=> pending_push[w] # NULL)
    /\ TokenBalance

Tokens == {w \in Workers : HoldsToken(w)}
Posters == {w \in Workers : pc[w] = "post"}

\* One worker more or less among those that are counted.
LEMMA CountWorkers ==
    ASSUME NEW S \in SUBSET Workers, NEW u \in Workers
    PROVE  /\ Cardinality(S) \in Nat
           /\ u \notin S => Cardinality(S \cup {u}) = Cardinality(S) + 1
           /\ u \in S => Cardinality(S \ {u}) = Cardinality(S) - 1
<1>1. IsFiniteSet(S)
  BY WorkersAssumption, FS_Subset
<1> QED
  BY <1>1, FS_CardinalityType, FS_AddElement, FS_RemoveElement

\* At first there are no jobs and no tokens.
LEMMA InitToken == Init => TokenInv
<1> SUFFICES ASSUME Init PROVE TokenInv
  OBVIOUS
<1>1. Tokens = {} /\ Posters = {}
  BY DEF Init, Tokens, Posters, HoldsToken
<1>2. TokenBalance
  <2>1. Len(job_queue) = 0 /\ Cardinality({}) = 0
    BY FS_EmptySet, EmptySeq DEF Init
  <2>2. /\ Len(job_queue) = sem + Cardinality(Tokens) + Cardinality(Posters) + 0 + 0
        /\ tpc # "post" /\ main_pc # "post"
    BY <1>1, <2>1 DEF Init
  <2> QED
    BY <2>2 DEF TokenBalance, Tokens, Posters
<1>3. \A w \in Workers : pc[w] # "flush_push"
  BY DEF Init
<1> QED
  BY <1>2, <1>3 DEF TokenInv

\* yield_from_coroutine_ is set at the switch to what the push slot then holds.
LEMMA YieldStep ==
    ASSUME Ownership, TokenInv, [Next]_vars
    PROVE  \A w \in Workers :
              pc'[w] = "flush_push" => (yield_from_coroutine'[w] <=> pending_push'[w] # NULL)
<1> DEFINE Y == \A w \in Workers :
                  pc[w] = "flush_push" => (yield_from_coroutine[w] <=> pending_push[w] # NULL)
<1> USE DEF Ownership, TypeOK, SlotsFollowPc, TokenInv, Goto, worker_local, timer, main, pending
<1>1. ASSUME NEW u \in Workers, LoopTop(u)
      PROVE  Y'
  BY <1>1 DEF LoopTop, NextStop
<1>2. ASSUME NEW u \in Workers, LoopEnds(u)
      PROVE  Y'
  BY <1>2 DEF LoopEnds
<1>3. ASSUME NEW u \in Workers, SemWait(u)
      PROVE  Y'
  BY <1>3 DEF SemWait
<1>4. ASSUME NEW u \in Workers, Pop(u)
      PROVE  Y'
  BY <1>4 DEF Pop
<1>5. ASSUME NEW u \in Workers, PopsNothing(u)
      PROVE  Y'
  BY <1>5 DEF PopsNothing
<1>6. ASSUME NEW u \in Workers, Resume(u)
      PROVE  Y'
  BY <1>6 DEF Resume
<1>7. ASSUME NEW u \in Workers, CoroutineYield(u)
      PROVE  Y'
  BY <1>7 DEF CoroutineYield, QueueAtYield
<1>8. ASSUME NEW u \in Workers, CoroutineSleep(u)
      PROVE  Y'
  BY <1>8 DEF CoroutineSleep, SleepersAtSleep
<1>9. ASSUME NEW u \in Workers, CoroutineReturn(u)
      PROVE  Y'
  BY <1>9 DEF CoroutineReturn, ContextsAtReturn
<1>10. ASSUME NEW u \in Workers, CoroutineCreate(u)
      PROVE  Y'
  BY <1>10 DEF CoroutineCreate, New
<1>11. ASSUME NEW u \in Workers, CoroutinePost(u)
      PROVE  Y'
  BY <1>11 DEF CoroutinePost, Posted
<1>12. ASSUME NEW u \in Workers, SwapOut(u)
      PROVE  Y'
  BY <1>12 DEF SwapOut
<1>13. ASSUME NEW u \in Workers, ExitSwap(u)
      PROVE  Y'
  BY <1>13 DEF ExitSwap
<1>14. ASSUME NEW u \in Workers, FlushPendingPush(u)
      PROVE  Y'
  BY <1>14 DEF FlushPendingPush
<1>15. ASSUME NEW u \in Workers, FlushPendingDestroy(u)
      PROVE  Y'
  BY <1>15 DEF FlushPendingDestroy, AfterDestroy
<1>16. ASSUME NEW u \in Workers, FlushPendingAddEvent(u)
      PROVE  Y'
  BY <1>16 DEF FlushPendingAddEvent, EventsToAdd
<1>17. ASSUME NEW D \in SUBSET sleeping, TimerTick(D)
      PROVE  Y'
  BY <1>17 DEF TimerTick
<1>18. CASE TimerPush
  BY <1>18 DEF TimerPush, DueAfter
<1>19. CASE TimerPost
  BY <1>19 DEF TimerPost, Posted
<1>20. CASE TimerTickDone
  BY <1>20 DEF TimerTickDone
<1>21. CASE TimerReturns
  BY <1>21 DEF TimerReturns
<1>22. CASE MainCreate
  BY <1>22 DEF MainCreate, New
<1>23. CASE MainPost
  BY <1>23 DEF MainPost, Posted
<1>24. CASE DestroyBegin
  BY <1>24 DEF DestroyBegin
<1>25. CASE DestroyPost
  BY <1>25 DEF DestroyPost
<1>26. CASE DestroyJoin
  BY <1>26 DEF DestroyJoin
<1>27. CASE UNCHANGED vars
  BY <1>27 DEF vars
<1> QED
  BY <1>1, <1>2, <1>3, <1>4, <1>5, <1>6, <1>7, <1>8, <1>9, <1>10, <1>11, <1>12, <1>13, <1>14,
     <1>15, <1>16, <1>17, <1>18, <1>19, <1>20, <1>21, <1>22, <1>23, <1>24, <1>25, <1>26, <1>27
     DEF Next, WorkerLoop, Suspends, Timer, Destroy, Terminated

\* While running_ is set, each step moves a job, a token and the semaphore together.
LEMMA BalanceStep ==
    ASSUME Ownership, TokenInv, [Next]_vars, running'
    PROVE  TokenBalance'
<1> DEFINE Timers == IF tpc = "post" THEN 1 ELSE 0
           Mains == IF main_pc = "post" THEN 1 ELSE 0
           Balance == Len(job_queue) = sem + Cardinality(Tokens) + Cardinality(Posters)
                                           + Timers + Mains
<1>1. Len(job_queue) \in Nat /\ sem \in Nat /\ TypeOK
  BY LenProperties DEF Ownership, TypeOK
<1>2. /\ Tokens \in SUBSET Workers /\ Cardinality(Tokens) \in Nat
      /\ Posters \in SUBSET Workers /\ Cardinality(Posters) \in Nat
  <2>1. Tokens \in SUBSET Workers /\ Posters \in SUBSET Workers
    BY DEF Tokens, Posters
  <2> QED
    BY <2>1, CountWorkers, WorkersAssumption
<1>3. ASSUME running
      PROVE  Balance
  BY <1>3 DEF TokenInv, TokenBalance, Tokens, Posters
<1> SUFFICES Balance'
  BY DEF TokenBalance, Tokens, Posters
<1> USE DEF Goto, timer, main, worker_local
\* The steps that move neither a job nor a token.
<1>4. ASSUME running, Tokens' = Tokens, Posters' = Posters, job_queue' = job_queue, sem' = sem,
             Timers' = Timers, Mains' = Mains
      PROVE  Balance'
  BY <1>3, <1>4
<1>5. ASSUME NEW u \in Workers,
             \/ LoopTop(u) \/ Resume(u) \/ Suspends(u) \/ SwapOut(u) \/ ExitSwap(u)
             \/ FlushPendingDestroy(u) \/ FlushPendingAddEvent(u)
             \/ FlushPendingPush(u) /\ pending_push[u] = NULL
      PROVE  Balance'
  <2>1. Tokens' = Tokens
    <3>1. CASE LoopTop(u)
      BY <1>1, <1>5, <3>1 DEF Tokens, HoldsToken, TypeOK, TokenInv, LoopTop, NextStop
    <3>2. CASE Resume(u) \/ Suspends(u)
      BY <1>1, <1>5, <3>2
         DEF Tokens, HoldsToken, TypeOK, TokenInv, Resume, Suspends, CoroutineYield,
             CoroutineSleep, CoroutineReturn
    <3>3. CASE SwapOut(u) \/ ExitSwap(u)
      BY <1>1, <1>5, <3>3 DEF Tokens, HoldsToken, TypeOK, TokenInv, SwapOut, ExitSwap
    <3>4. CASE \/ FlushPendingDestroy(u) \/ FlushPendingAddEvent(u)
               \/ FlushPendingPush(u) /\ pending_push[u] = NULL
      BY <1>1, <1>5, <3>4
         DEF Tokens, HoldsToken, TypeOK, TokenInv, FlushPendingDestroy, FlushPendingAddEvent,
             FlushPendingPush
    <3> QED
      BY <1>5, <3>1, <3>2, <3>3, <3>4
  <2>2. Posters' = Posters
    BY <1>1, <1>5
       DEF Posters, TypeOK, LoopTop, NextStop, Resume, Suspends, CoroutineYield,
           CoroutineSleep, CoroutineReturn, SwapOut, ExitSwap, FlushPendingDestroy,
           FlushPendingAddEvent, FlushPendingPush
  <2>3. /\ running /\ job_queue' = job_queue /\ sem' = sem
        /\ tpc' = tpc /\ main_pc' = main_pc
    BY <1>5
       DEF LoopTop, Resume, Suspends, CoroutineYield, QueueAtYield, CoroutineSleep,
           CoroutineReturn, SwapOut, ExitSwap, FlushPendingDestroy, FlushPendingAddEvent,
           FlushPendingPush
  <2> QED
    BY <1>4, <2>1, <2>2, <2>3
<1>6. ASSUME NEW u \in Workers, SemWait(u)
      PROVE  Balance'
  <2>1. Tokens' = Tokens \cup {u} /\ u \notin Tokens /\ Posters' = Posters
    BY <1>1, <1>6 DEF SemWait, Tokens, Posters, HoldsToken, TypeOK
  <2>2. Cardinality(Tokens') = Cardinality(Tokens) + 1
    BY <1>2, <2>1, CountWorkers
  <2>3. /\ Balance /\ job_queue' = job_queue /\ sem' = sem - 1
        /\ Timers' = Timers /\ Mains' = Mains
    BY <1>3, <1>6 DEF SemWait
  <2> QED
    BY <1>1, <1>2, <2>1, <2>2, <2>3
<1>7. ASSUME NEW u \in Workers, Pop(u)
      PROVE  Balance'
  <2>1. Tokens' = Tokens \ {u} /\ u \in Tokens /\ Posters' = Posters
    BY <1>1, <1>7 DEF Pop, Tokens, Posters, HoldsToken, TypeOK
  <2>2. Cardinality(Tokens') = Cardinality(Tokens) - 1
    BY <1>2, <2>1, CountWorkers
  <2>3. Len(job_queue') = Len(job_queue) - 1
    BY <1>7, AfterPop DEF Pop, Ownership, Exclusive
  <2>4. Balance /\ sem' = sem /\ Timers' = Timers /\ Mains' = Mains
    BY <1>3, <1>7 DEF Pop
  <2> QED
    BY <1>1, <1>2, <2>1, <2>2, <2>3, <2>4
\* The worker has a token, so there is a job for it.
<1>8. ASSUME NEW u \in Workers, PopsNothing(u)
      PROVE  Balance'
  <2>1. u \in Tokens /\ running
    BY <1>8 DEF PopsNothing, Tokens, HoldsToken
  <2>2. Cardinality(Tokens) > 0
    <3>1. Cardinality(Tokens \ {u}) = Cardinality(Tokens) - 1
      BY <1>2, <2>1, CountWorkers
    <3>2. Cardinality(Tokens \ {u}) \in Nat
      BY <1>2, CountWorkers
    <3> QED
      BY <1>2, <3>1, <3>2
  <2>3. Len(job_queue) > 0
    BY <1>1, <1>2, <1>3, <2>1, <2>2
  <2> QED
    BY <1>8, <2>3 DEF PopsNothing
<1>9. ASSUME NEW u \in Workers, CoroutineCreate(u)
      PROVE  Balance'
  <2>1. PICK c \in Coroutines : New(c)
    BY <1>9 DEF CoroutineCreate
  <2>2. Len(job_queue') = Len(job_queue) + 1
    BY <1>1, <2>1, AfterPush DEF New
  <2>3. Posters' = Posters \cup {u} /\ u \notin Posters /\ Tokens' = Tokens
    BY <1>1, <1>9 DEF CoroutineCreate, Tokens, Posters, HoldsToken, TypeOK
  <2>4. Cardinality(Posters') = Cardinality(Posters) + 1
    BY <1>2, <2>3, CountWorkers
  <2>5. Balance /\ sem' = sem /\ Timers' = Timers /\ Mains' = Mains
    BY <1>3, <1>9 DEF CoroutineCreate
  <2> QED
    BY <1>1, <1>2, <2>2, <2>3, <2>4, <2>5
<1>10. ASSUME NEW u \in Workers, CoroutinePost(u)
       PROVE  Balance'
  <2>1. Posters' = Posters \ {u} /\ u \in Posters /\ Tokens' = Tokens
    BY <1>1, <1>10 DEF CoroutinePost, Tokens, Posters, HoldsToken, TypeOK
  <2>2. Cardinality(Posters') = Cardinality(Posters) - 1
    BY <1>2, <2>1, CountWorkers
  <2>3. /\ Balance /\ job_queue' = job_queue /\ sem' = sem + 1
        /\ Timers' = Timers /\ Mains' = Mains
    BY <1>3, <1>10 DEF CoroutinePost, Posted
  <2> QED
    BY <1>1, <1>2, <2>1, <2>2, <2>3
<1>11. ASSUME NEW u \in Workers, FlushPendingPush(u), pending_push[u] # NULL
       PROVE  Balance'
  <2>1. PICK c \in Coroutines : c = pending_push[u]
    BY <1>1, <1>11 DEF TypeOK
  <2>2. Len(job_queue') = Len(job_queue) + 1
    BY <1>1, <1>11, <2>1, AfterPush DEF FlushPendingPush
  <2>3. yield_from_coroutine[u]
    BY <1>11 DEF FlushPendingPush, TokenInv
  <2>4. Tokens' = Tokens \cup {u} /\ u \notin Tokens /\ Posters' = Posters
    BY <1>1, <1>11, <2>3 DEF FlushPendingPush, Tokens, Posters, HoldsToken, TypeOK
  <2>5. Cardinality(Tokens') = Cardinality(Tokens) + 1
    BY <1>2, <2>4, CountWorkers
  <2> QED
    BY <1>1, <1>2, <1>3, <1>11, <2>2, <2>4, <2>5 DEF FlushPendingPush
<1>12. ASSUME NEW u \in Workers, LoopEnds(u)
       PROVE  Balance'
  BY <1>12 DEF LoopEnds
\* What the other threads do leaves the workers where they are.
<1>13. ASSUME UNCHANGED <<pc, yield_from_coroutine>>
       PROVE  Tokens' = Tokens /\ Posters' = Posters
  BY <1>13 DEF Tokens, Posters, HoldsToken
<1>14. ASSUME TimerPush
       PROVE  Balance'
  <2>1. PICK c \in Coroutines : job_queue' = Append(job_queue, c)
    BY <1>1, <1>14 DEF TimerPush, TypeOK
  <2>2. Len(job_queue') = Len(job_queue) + 1
    BY <1>1, <2>1, AfterPush
  <2> QED
    BY <1>1, <1>2, <1>3, <1>13, <1>14, <2>2 DEF TimerPush
<1>15. ASSUME TimerPost
       PROVE  Balance'
  BY <1>1, <1>2, <1>3, <1>13, <1>15 DEF TimerPost, Posted
<1>16. ASSUME MainCreate
       PROVE  Balance'
  <2>1. PICK c \in Coroutines : New(c)
    BY <1>16 DEF MainCreate
  <2>2. Len(job_queue') = Len(job_queue) + 1
    BY <1>1, <2>1, AfterPush DEF New
  <2> QED
    BY <1>1, <1>2, <1>3, <1>13, <1>16, <2>2 DEF MainCreate
<1>17. ASSUME MainPost
       PROVE  Balance'
  BY <1>1, <1>2, <1>3, <1>13, <1>17 DEF MainPost, Posted
<1>18. ASSUME \/ \E D \in SUBSET sleeping : TimerTick(D)
              \/ TimerTickDone \/ TimerReturns \/ UNCHANGED vars
       PROVE  Balance'
  BY <1>4, <1>13, <1>18 DEF TimerTick, TimerTickDone, TimerReturns, vars
\* There is nothing to show once running_ is false.
<1>19. ASSUME DestroyBegin \/ Destroy
       PROVE  Balance'
  BY <1>19 DEF DestroyBegin, Destroy, DestroyPost, DestroyJoin, Ownership, Phases
<1> HIDE DEF Balance
<1>20. ASSUME NEW u \in Workers, WorkerLoop(u) \/ Suspends(u) \/ CoroutineCreate(u)
       PROVE  Balance'
  BY <1>5, <1>6, <1>7, <1>8, <1>9, <1>10, <1>11, <1>12, <1>20 DEF WorkerLoop
<1> QED
  BY <1>14, <1>15, <1>16, <1>17, <1>18, <1>19, <1>20 DEF Next, Timer, Terminated

\* Every queued job is paid for while the scheduler runs: what the comment in
\* event_loop() says of pushing without a post and popping without a wait.
THEOREM TokenBalanceCorrect == Spec => []TokenBalance
<1>1. Ownership /\ TokenInv /\ [Next]_vars => TokenInv'
  <2> SUFFICES ASSUME Ownership, TokenInv, [Next]_vars
               PROVE  TokenInv'
    OBVIOUS
  <2>1. TokenBalance'
    BY BalanceStep DEF TokenBalance
  <2> QED
    BY <2>1, YieldStep DEF TokenInv
<1>2. TokenInv => TokenBalance
  BY DEF TokenInv
<1> QED
  BY <1>1, <1>2, InitToken, OwnershipIsInvariant, PTL DEF Spec

-----------------------------------------------------------------------------
(* The scheduler implements the life cycle of a coroutine *)

\* A worker runs the coroutine in its hands once it has been resumed.
HandsThatRun ==
    \A c \in Coroutines : RunsOn(c) = {w \in Workers : Hand(w) = c /\ job[w] = NULL}

\* RunsOn in terms of hands.
LEMMA RunsOnHand == Ownership => HandsThatRun
<1> SUFFICES ASSUME Ownership, NEW c \in Coroutines
             PROVE  RunsOn(c) = {w \in Workers : Hand(w) = c /\ job[w] = NULL}
  BY DEF HandsThatRun
<1>1. \A w \in Workers :
         c \in {cur_coroutine[w], pending_push[w], pending_destroy[w], pending_add_event[w]}
            <=> Hand(w) = c /\ job[w] = NULL
  BY NullAssumption DEF Ownership, TypeOK, SlotsFollowPc, Hand
<1> QED
  BY <1>1 DEF RunsOn

\* The same of the state a step leads to.
LEMMA RunsOnHandNext == Ownership' => HandsThatRun'
BY RunsOnHand, PTL

\* The worker in RunsOn(c) is the only one.
LEMMA RunsOnOne ==
    ASSUME Ownership, NEW c \in Coroutines, NEW u \in Workers, Hand(u) = c, job[u] = NULL
    PROVE  RunsOn(c) = {u} /\ WorkerOf(c) = u
<1>1. RunsOn(c) = {u}
  BY RunsOnHand DEF HandsThatRun, Ownership, Exclusive
<1> QED
  BY <1>1 DEF WorkerOf

\* What has to be known of c to know where it is in its life.
LEMMA SameLife ==
    ASSUME NEW c \in Coroutines, RunsOn(c)' = RunsOn(c), InTimer(c)' <=> InTimer(c),
           context'[c] = "unallocated" <=> context[c] = "unallocated"
    PROVE  LifeOf(c)' = LifeOf(c) /\ WorkerOf(c)' = WorkerOf(c)
BY DEF LifeOf, WorkerOf, InTimer

\* A step at which only c moves on, from worker to worker or not.
LEMMA LifeStep ==
    ASSUME NEW c \in Coroutines, NEW to, NEW w,
           \A d \in Coroutines : d # c => LifeOf(d)' = LifeOf(d) /\ WorkerOf(d)' = WorkerOf(d),
           LifeOf(c)' = to, WorkerOf(c)' = w
    PROVE  /\ Status' = [Status EXCEPT ![c] = to]
           /\ Worker' = [Worker EXCEPT ![c] = w]
           /\ Status[c] = LifeOf(c) /\ Worker[c] = WorkerOf(c)
BY DEF Status, Worker

\* A worker's hands empty into the queue, the timer or nowhere.
LEMMA LeavesLife ==
    ASSUME Ownership, Ownership', NEW c \in Coroutines, NEW u \in Workers,
           Hand(u) = c, job[u] = NULL, job' = job,
           \A w \in Workers : Hand(w)' = IF w = u THEN NULL ELSE Hand(w),
           \A d \in Coroutines : d # c =>
              /\ InTimer(d)' <=> InTimer(d)
              /\ context'[d] = "unallocated" <=> context[d] = "unallocated"
    PROVE  /\ LifeOf(c) = "running" /\ RunsOn(c)' = {} /\ WorkerOf(c)' = NULL
           /\ \A d \in Coroutines : d # c => LifeOf(d)' = LifeOf(d) /\ WorkerOf(d)' = WorkerOf(d)
<1>1. \A d \in Coroutines : RunsOn(d)' = {w \in Workers : Hand(w)' = d /\ job'[w] = NULL}
  BY RunsOnHandNext DEF HandsThatRun
<1>2. \A d \in Coroutines : RunsOn(d) = {w \in Workers : Hand(w) = d /\ job[w] = NULL}
  BY RunsOnHand DEF HandsThatRun
<1>3. RunsOn(c)' = {} /\ RunsOn(c) # {}
  BY <1>1, <1>2, NullAssumption DEF Ownership, Exclusive
<1>4. \A d \in Coroutines : d # c => RunsOn(d)' = RunsOn(d)
  BY <1>1, <1>2, NullAssumption
<1>5. context[c] # "unallocated"
  BY DEF Ownership, Allocated, Somewhere
<1> QED
  BY <1>3, <1>4, <1>5, SameLife DEF LifeOf, WorkerOf

\* The steps that are a stutter of the life cycle: a worker takes a job from
\* the queue, sets one of its slots, or somebody counts, waits or posts.
LEMMA StutterLife ==
    ASSUME Ownership, Ownership',
           \/ NobodyMoves /\ job' = job
           \/ \E u \in Workers : Pop(u)
           \/ DestroyJoin
    PROVE  UNCHANGED <<Status, Worker>>
<1>1. ASSUME NEW c \in Coroutines
      PROVE  /\ InTimer(c)' <=> InTimer(c)
             /\ context'[c] = "unallocated" <=> context[c] = "unallocated"
  BY DEF NobodyMoves, Pop, DestroyJoin, timer, InTimer
<1>2. ASSUME NEW c \in Coroutines
      PROVE  RunsOn(c)' = RunsOn(c)
  <2>1. ASSUME NEW w \in Workers
        PROVE  Hand(w)' = c /\ job'[w] = NULL <=> Hand(w) = c /\ job[w] = NULL
    <3>1. CASE NobodyMoves /\ job' = job
      BY <3>1 DEF NobodyMoves
    <3>2. ASSUME NEW u \in Workers, Pop(u)
          PROVE  Hand(w)' = c /\ job'[w] = NULL <=> Hand(w) = c /\ job[w] = NULL
      <4>1. /\ Head(job_queue) \in Coroutines
            /\ job' = [job EXCEPT ![u] = Head(job_queue)]
            /\ job \in [Workers -> Coroutines \cup {NULL}]
        BY <3>2, AfterPop DEF Pop, Ownership, TypeOK, Exclusive
      <4>2. CASE w = u
        BY <4>1, <4>2, <3>2, NullAssumption DEF Pop, Goto, Hand, Ownership, SlotsFollowPc
      <4>3. CASE w # u
        BY <4>1, <4>3, <3>2 DEF Pop, pending, Hand
      <4> QED
        BY <4>2, <4>3
    <3>3. CASE DestroyJoin
      BY <3>3 DEF DestroyJoin, worker_local, pending, Hand
    <3> QED
      BY <3>1, <3>2, <3>3
  <2> QED
    BY <2>1, RunsOnHand, RunsOnHandNext DEF HandsThatRun
<1>3. \A c \in Coroutines : LifeOf(c)' = LifeOf(c) /\ WorkerOf(c)' = WorkerOf(c)
  BY <1>1, <1>2, SameLife
<1> QED
  BY <1>3 DEF Status, Worker

\* coroutine_create() is the Create of the life cycle.
LEMMA NewIsCreate ==
    ASSUME Ownership, Ownership', NEW c \in Coroutines, New(c),
           UNCHANGED <<worker_local, pending, timer>>
    PROVE  Life!Create(c)
<1>1. \A d \in Coroutines : context'[d] = IF d = c THEN "fresh" ELSE context[d]
  BY DEF New, Ownership, TypeOK
<1>2. \A d \in Coroutines : (InTimer(d)' <=> InTimer(d)) /\ RunsOn(d)' = RunsOn(d)
  BY DEF InTimer, timer, RunsOn, worker_local, pending
<1>3. \A d \in Coroutines : d # c => LifeOf(d)' = LifeOf(d) /\ WorkerOf(d)' = WorkerOf(d)
  BY <1>1, <1>2, SameLife
<1>4. RunsOn(c) = {} /\ ~InTimer(c)
  BY RunsOnHand DEF HandsThatRun, New, Ownership, Allocated, Somewhere
<1>5. LifeOf(c) = "unused" /\ LifeOf(c)' = "ready"
  BY <1>1, <1>2, <1>4 DEF New, LifeOf, InTimer
<1>6. WorkerOf(c) = NULL /\ WorkerOf(c)' = NULL
  BY <1>2, <1>4 DEF WorkerOf
<1>7. /\ Status' = [Status EXCEPT ![c] = "ready"] /\ Status[c] = "unused"
      /\ Worker' = Worker
  BY <1>3, <1>5, <1>6 DEF Status, Worker
<1> QED
  BY <1>7 DEF Life!Create, Life!Moves

\* The switch to a popped job is its Run.
LEMMA ResumeIsRun ==
    ASSUME Ownership, Ownership', NEW u \in Workers, Resume(u)
    PROVE  \E c \in Coroutines : Life!Run(c, u)
<1>1. PICK c \in Coroutines : c = job[u] /\ Hand(u) = c
  <2>1. job[u] \in Coroutines
    BY NullAssumption DEF Resume, Goto, Ownership, TypeOK, SlotsFollowPc
  <2>2. Hand(u) = job[u]
    BY NullAssumption DEF Resume, Goto, Hand, Ownership, SlotsFollowPc
  <2> QED
    BY <2>1, <2>2
<1>2. \A d \in Coroutines : context'[d] = IF d = c THEN "live" ELSE context[d]
  BY <1>1 DEF Resume, Ownership, TypeOK
<1>3. \A w \in Workers : Hand(w)' = Hand(w) /\ (w # u => job'[w] = job[w])
  BY <1>1, NullAssumption DEF Resume, Goto, pending, Hand, Ownership, TypeOK, SlotsFollowPc
<1>4. job'[u] = NULL /\ job[u] # NULL
  BY <1>1, NullAssumption DEF Resume, Ownership, TypeOK
<1>5. \A d \in Coroutines : InTimer(d)' <=> InTimer(d)
  BY DEF Resume, timer, InTimer
<1>6. \A d \in Coroutines : d # c => RunsOn(d)' = RunsOn(d)
  BY <1>1, <1>3, RunsOnHand, RunsOnHandNext DEF HandsThatRun
<1>7. RunsOn(c) = {} /\ RunsOn(c)' = {u}
  BY <1>1, <1>3, <1>4, RunsOnHand, RunsOnHandNext DEF HandsThatRun, Ownership, Exclusive
<1>8. \A d \in Coroutines : u \notin RunsOn(d)
  BY <1>4, RunsOnHand DEF HandsThatRun
<1>9. context[c] # "unallocated" /\ ~InTimer(c)
  BY <1>1 DEF Ownership, Exclusive, Allocated, Somewhere
<1>10. LifeOf(c) = "ready" /\ LifeOf(c)' = "running"
  BY <1>2, <1>7, <1>9 DEF LifeOf, InTimer
<1>11. WorkerOf(c)' = u
  BY <1>7 DEF WorkerOf
<1>12. \A d \in Coroutines : d # c => LifeOf(d)' = LifeOf(d) /\ WorkerOf(d)' = WorkerOf(d)
  BY <1>2, <1>5, <1>6, SameLife
<1>13. /\ Status' = [Status EXCEPT ![c] = "running"] /\ Status[c] = "ready"
       /\ Worker' = [Worker EXCEPT ![c] = u]
  BY <1>10, <1>11, <1>12 DEF Status, Worker
<1>14. \A d \in Coroutines : Worker[d] # u
  <2>1. \A d \in Coroutines : WorkerOf(d) # u
    BY <1>8, NullAssumption DEF WorkerOf
  <2> QED
    BY <2>1 DEF Worker
<1> QED
  BY <1>13, <1>14 DEF Life!Run, Life!Moves

\* A coroutine has yielded when its worker pushes it, from its own stack.
LEMMA FlushPendingPushIsYield ==
    ASSUME Ownership, Ownership', NEW u \in Workers, FlushPendingPush(u), pending_push[u] # NULL
    PROVE  \E c \in Coroutines : Life!Yield(c)
<1>1. PICK c \in Coroutines : c = pending_push[u] /\ Hand(u) = c
  <2>1. pending_push[u] \in Coroutines
    BY DEF FlushPendingPush, Goto, Ownership, TypeOK, SlotsFollowPc
  <2>2. Hand(u) = pending_push[u]
    BY DEF FlushPendingPush, Goto, Hand, Ownership, SlotsFollowPc
  <2> QED
    BY <2>1, <2>2
<1>2. job[u] = NULL /\ job' = job
  BY DEF FlushPendingPush, Goto, worker_local, Ownership, SlotsFollowPc
<1>3. \A w \in Workers : Hand(w)' = IF w = u THEN NULL ELSE Hand(w)
  BY <1>1 DEF FlushPendingPush, Goto, worker_local, Hand, Ownership, TypeOK, SlotsFollowPc
<1>4. context' = context /\ \A d \in Coroutines : InTimer(d)' <=> InTimer(d)
  BY DEF FlushPendingPush, timer, InTimer
<1>5. /\ LifeOf(c) = "running" /\ RunsOn(c)' = {} /\ WorkerOf(c)' = NULL
      /\ \A d \in Coroutines : d # c => LifeOf(d)' = LifeOf(d) /\ WorkerOf(d)' = WorkerOf(d)
  BY <1>1, <1>2, <1>3, <1>4, LeavesLife
<1>6. LifeOf(c)' = "ready"
  <2>1. ~InTimer(c) /\ context[c] # "unallocated"
    BY <1>1 DEF Ownership, Exclusive, Allocated, Somewhere
  <2> QED
    BY <1>4, <1>5, <2>1 DEF LifeOf, InTimer
<1>7. /\ Status' = [Status EXCEPT ![c] = "ready"] /\ Status[c] = "running"
      /\ Worker' = [Worker EXCEPT ![c] = NULL]
  BY <1>5, <1>6 DEF Status, Worker
<1> QED
  BY <1>7 DEF Life!Yield, Life!Moves, Life!Leaves

\* A coroutine has finished when its worker deletes it.
LEMMA FlushPendingDestroyIsFinish ==
    ASSUME Ownership, Ownership', NEW u \in Workers,
           FlushPendingDestroy(u), pending_destroy[u] # NULL
    PROVE  \E c \in Coroutines : Life!Finish(c)
<1>1. PICK c \in Coroutines : c = pending_destroy[u] /\ Hand(u) = c
  <2>1. pending_destroy[u] \in Coroutines
    BY DEF FlushPendingDestroy, Goto, Ownership, TypeOK, SlotsFollowPc
  <2>2. Hand(u) = pending_destroy[u]
    BY DEF FlushPendingDestroy, Goto, Hand, Ownership, SlotsFollowPc
  <2> QED
    BY <2>1, <2>2
<1>2. job[u] = NULL /\ job' = job
  BY DEF FlushPendingDestroy, Goto, worker_local, Ownership, SlotsFollowPc
<1>3. \A w \in Workers : Hand(w)' = IF w = u THEN NULL ELSE Hand(w)
  BY <1>1 DEF FlushPendingDestroy, AfterDestroy, Goto, worker_local, Hand, Ownership, TypeOK,
              SlotsFollowPc
<1>4. /\ \A d \in Coroutines : context'[d] = IF d = c THEN "unallocated" ELSE context[d]
      /\ \A d \in Coroutines : InTimer(d)' <=> InTimer(d)
  BY <1>1 DEF FlushPendingDestroy, timer, InTimer
<1>5. /\ LifeOf(c) = "running" /\ RunsOn(c)' = {} /\ WorkerOf(c)' = NULL
      /\ \A d \in Coroutines : d # c => LifeOf(d)' = LifeOf(d) /\ WorkerOf(d)' = WorkerOf(d)
  BY <1>1, <1>2, <1>3, <1>4, LeavesLife
<1>6. LifeOf(c)' = "unused"
  BY <1>4 DEF LifeOf
<1>7. /\ Status' = [Status EXCEPT ![c] = "unused"] /\ Status[c] = "running"
      /\ Worker' = [Worker EXCEPT ![c] = NULL]
  BY <1>5, <1>6 DEF Status, Worker
<1> QED
  BY <1>7 DEF Life!Finish, Life!Moves, Life!Leaves

\* A coroutine sleeps when its worker hands it to the timer.
LEMMA FlushPendingAddEventIsSleep ==
    ASSUME Ownership, Ownership', NEW u \in Workers,
           FlushPendingAddEvent(u), pending_add_event[u] # NULL
    PROVE  \E c \in Coroutines : Life!Sleep(c)
<1>1. PICK c \in Coroutines : c = pending_add_event[u] /\ Hand(u) = c
  <2>1. pending_add_event[u] \in Coroutines
    BY DEF FlushPendingAddEvent, Goto, Ownership, TypeOK, SlotsFollowPc
  <2>2. Hand(u) = pending_add_event[u]
    BY DEF FlushPendingAddEvent, Goto, Hand, Ownership, SlotsFollowPc
  <2> QED
    BY <2>1, <2>2
<1>2. job[u] = NULL /\ job' = job
  BY DEF FlushPendingAddEvent, Goto, worker_local, Ownership, SlotsFollowPc
<1>3. \A w \in Workers : Hand(w)' = IF w = u THEN NULL ELSE Hand(w)
  BY <1>1 DEF FlushPendingAddEvent, Goto, worker_local, Hand, Ownership, TypeOK, SlotsFollowPc
<1>4. /\ context' = context
      /\ \A d \in Coroutines : InTimer(d)' <=> InTimer(d) \/ d = c
  BY <1>1, NullAssumption DEF FlushPendingAddEvent, EventsToAdd, timer, InTimer
<1>5. /\ LifeOf(c) = "running" /\ RunsOn(c)' = {} /\ WorkerOf(c)' = NULL
      /\ \A d \in Coroutines : d # c => LifeOf(d)' = LifeOf(d) /\ WorkerOf(d)' = WorkerOf(d)
  BY <1>1, <1>2, <1>3, <1>4, LeavesLife
<1>6. LifeOf(c)' = "asleep"
  <2>1. context[c] # "unallocated"
    BY <1>1 DEF Ownership, Allocated, Somewhere
  <2>2. InTimer(c)'
    BY <1>4
  <2> QED
    BY <1>4, <1>5, <2>1, <2>2 DEF LifeOf, InTimer
<1>7. /\ Status' = [Status EXCEPT ![c] = "asleep"] /\ Status[c] = "running"
      /\ Worker' = [Worker EXCEPT ![c] = NULL]
  BY <1>5, <1>6 DEF Status, Worker
<1> QED
  BY <1>7 DEF Life!Sleep, Life!Moves, Life!Leaves

\* A sleeper wakes when the timer pushes it.
LEMMA TimerPushIsWake ==
    ASSUME Ownership, Ownership', TimerPush
    PROVE  \E c \in Coroutines : Life!Wake(c)
<1>1. PICK c \in due : due' = due \ {c}
  BY DEF TimerPush, DueAfter
<1>2. c \in Coroutines /\ InTimer(c) /\ c \notin sleeping
  BY DEF Ownership, TypeOK, Exclusive, InTimer
<1>3. /\ context' = context /\ sleeping' = sleeping
      /\ \A d \in Coroutines : RunsOn(d)' = RunsOn(d)
  BY DEF TimerPush, worker_local, pending, RunsOn
<1>4. \A d \in Coroutines : InTimer(d)' <=> InTimer(d) /\ d # c
  BY <1>1, <1>2, <1>3 DEF InTimer
<1>5. \A d \in Coroutines : d # c => LifeOf(d)' = LifeOf(d) /\ WorkerOf(d)' = WorkerOf(d)
  BY <1>3, <1>4, SameLife
<1>6. RunsOn(c) = {} /\ context[c] # "unallocated"
  BY <1>2, RunsOnHand DEF HandsThatRun, Ownership, Exclusive, Allocated, Somewhere
<1>7. LifeOf(c) = "asleep" /\ LifeOf(c)' = "ready" /\ WorkerOf(c)' = WorkerOf(c)
  BY <1>2, <1>3, <1>4, <1>6 DEF LifeOf, WorkerOf, InTimer
<1>8. /\ Status' = [Status EXCEPT ![c] = "ready"] /\ Status[c] = "asleep" /\ Worker' = Worker
  BY <1>2, <1>5, <1>7 DEF Status, Worker
<1> QED
  BY <1>2, <1>8 DEF Life!Wake, Life!Moves

\* At first every coroutine is unused.
LEMMA InitLife == Init => Life!Init
<1> SUFFICES ASSUME Init PROVE Life!Init
  OBVIOUS
<1>1. \A c \in Coroutines : RunsOn(c) = {}
  BY NullAssumption DEF Init, RunsOn
<1>2. \A c \in Coroutines : LifeOf(c) = "unused" /\ WorkerOf(c) = NULL
  BY <1>1 DEF Init, LifeOf, WorkerOf
<1> QED
  BY <1>2 DEF Life!Init, Status, Worker

\* For any number of workers and coroutines a coroutine runs on one worker at a
\* time, is ready again only after it yielded or woke up, and is recycled only
\* after its function returned.
THEOREM SchedulerImplementsLifecycle == Spec => ImplementsLifecycle
<1>1. Ownership /\ Ownership' /\ [Next]_vars => [Life!Next]_(Life!vars)
  <2> SUFFICES ASSUME Ownership, Ownership', [Next]_vars
               PROVE  Life!Next \/ UNCHANGED <<Status, Worker>>
    BY DEF Life!vars
  <2> DEFINE Step == Life!Next \/ UNCHANGED <<Status, Worker>>
  <2>1. ASSUME NobodyMoves, job' = job PROVE Step
    BY <2>1, StutterLife
  <2>2. ASSUME NEW u \in Workers, Pop(u) PROVE Step
    BY <2>2, StutterLife
  <2>3. ASSUME DestroyJoin PROVE Step
    BY <2>3, StutterLife
  <2>4. ASSUME NEW u \in Workers, Resume(u) PROVE Step
    BY <2>4, ResumeIsRun DEF Life!Next
  <2>5. ASSUME NEW u \in Workers, CoroutineCreate(u) PROVE Step
    BY <2>5, NewIsCreate DEF CoroutineCreate, Life!Next
  <2>6. ASSUME MainCreate PROVE Step
    BY <2>6, NewIsCreate DEF MainCreate, Life!Next
  <2>7. ASSUME NEW u \in Workers, FlushPendingPush(u), pending_push[u] # NULL PROVE Step
    BY <2>7, FlushPendingPushIsYield DEF Life!Next
  <2>8. ASSUME NEW u \in Workers, FlushPendingDestroy(u), pending_destroy[u] # NULL PROVE Step
    BY <2>8, FlushPendingDestroyIsFinish DEF Life!Next
  <2>9. ASSUME NEW u \in Workers, FlushPendingAddEvent(u), pending_add_event[u] # NULL PROVE Step
    BY <2>9, FlushPendingAddEventIsSleep DEF Life!Next
  <2>10. ASSUME TimerPush PROVE Step
    BY <2>10, TimerPushIsWake DEF Life!Next
  <2> HIDE DEF Step
  <2>11. ASSUME Quiet, job' = job PROVE Step
    BY <2>1, <2>11, QuietSteps
  <2>12. ASSUME NEW u \in Workers, WorkerLoop(u) \/ Suspends(u) \/ CoroutineCreate(u)
         PROVE  Step
    <3>1. \/ Pop(u) \/ Resume(u) \/ CoroutineCreate(u)
          \/ FlushPendingPush(u) /\ pending_push[u] # NULL
          \/ FlushPendingDestroy(u) /\ pending_destroy[u] # NULL
          \/ FlushPendingAddEvent(u) /\ pending_add_event[u] # NULL
          \/ job' = job /\ QuietWorker(u)
      BY <2>12
         DEF WorkerLoop, QuietWorker, Suspends, LoopTop, LoopEnds, SemWait, PopsNothing,
             CoroutinePost, SwapOut, ExitSwap, CoroutineYield, CoroutineSleep, CoroutineReturn,
             FlushPendingPush, FlushPendingDestroy, FlushPendingAddEvent, worker_local
    <3> QED
      BY <3>1, <2>2, <2>4, <2>5, <2>7, <2>8, <2>9, <2>11 DEF Quiet
  <2>13. ASSUME \/ \E D \in SUBSET sleeping : TimerTick(D)
                \/ TimerPost \/ TimerTickDone \/ TimerReturns
                \/ MainPost \/ DestroyBegin \/ DestroyPost \/ UNCHANGED vars
         PROVE  Step
    <3>1. job' = job
      BY <2>13 DEF TimerTick, TimerPost, TimerTickDone, TimerReturns, MainPost, DestroyBegin,
                   DestroyPost, worker_local, vars
    <3> QED
      BY <3>1, <2>11, <2>13 DEF Quiet
  <2> QED
    BY <2>3, <2>6, <2>10, <2>12, <2>13 DEF Next, Timer, Destroy, Terminated, Step
<1> QED
  BY <1>1, InitLife, OwnershipIsInvariant, PTL DEF Spec, ImplementsLifecycle, Life!Spec

===============================================================================
