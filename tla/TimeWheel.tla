------------------------------ MODULE TimeWheel ------------------------------
(***************************************************************************)
(* TimerManager: the hierarchical time wheels, the queue of events that    *)
(* workers hand to the timer thread, and the loop that ticks once per      *)
(* interval and catches up when it is late.                                *)
(*                                                                         *)
(* Time is counted in intervals (TIMEWHEEL_INTERVAL_MS = 1).  The wheels   *)
(* belong to the timer thread and other threads reach only pending_events, *)
(* under its lock, so a tick with its cascade is one step.                 *)
(*                                                                         *)
(* A definition marked "Variant" is a plausible mistake in the code, kept  *)
(* beside the definition it would replace.  No action uses it.             *)
(***************************************************************************)
EXTENDS Integers, Sequences, FiniteSets, SequencesExt

CONSTANTS SLOTS,        \* TIMEWHEEL_NUM_SLOTS_PER_WHEEL
          WHEELS,       \* TIMEWHEEL_NUM_WHEELS
          Coroutines,
          Delays,       \* arguments of coroutine_sleep()
          MaxLag        \* bound: how far the timer thread may fall behind

ASSUME WheelsAssumption == SLOTS \in Nat \ {0, 1} /\ WHEELS \in Nat \ {0}
ASSUME DelaysAssumption == IsFiniteSet(Delays) /\ Delays \subseteq Nat /\ Delays # {}
ASSUME MaxLagAssumption == MaxLag \in Nat

VARIABLES
    slots,              \* wheel -> slot -> list of coroutines
    cur_slot_idx,       \* wheel -> index
    delayMS,            \* timewheel_node_.delayMS
    pending_events,     \* list filled by add_event()
    running,            \* Scheduler::running_
    pc,                 \* where the timer thread is
    lag,                \* the time now, minus the time of the next tick
    asked,              \* ghost: the delay c asked for, -1 if c is awake
    age,                \* ghost: ticks since c was put on a wheel
    elapsed,            \* ghost: time since c called coroutine_sleep()
    lagAtAdd            \* ghost: lag when c was put on a wheel

wheels == <<slots, cur_slot_idx>>
ghosts == <<asked, age, elapsed, lagAtAdd>>
vars == <<wheels, delayMS, pending_events, running, pc, lag, ghosts>>

Wheels == 0 .. WHEELS - 1
Slots == 0 .. SLOTS - 1

\* init(): each wheel is SLOTS times as slow as the one below it.
intervalMS[k \in 0 .. WHEELS] == IF k = 0 THEN 1 ELSE intervalMS[k - 1] * SLOTS

\* The longest delay the wheels can hold; the ghosts count no further than
\* any sleeper can get.
TooLong(d) == d >= intervalMS[WHEELS]
Horizon == Max(Delays) + 2 * intervalMS[WHEELS]
Capped(n) == IF n > Horizon THEN Horizon ELSE n

Asleep(c) == asked[c] # -1
OnWheel(c) == \E k \in Wheels, i \in Slots : Contains(slots[k][i], c)

Init ==
    /\ slots = [k \in Wheels |-> [i \in Slots |-> <<>>]]
    /\ cur_slot_idx = [k \in Wheels |-> 0]
    /\ delayMS = [c \in Coroutines |-> 0]
    /\ pending_events = <<>>
    /\ running = TRUE
    /\ pc = "top"
    /\ lag = 0
    /\ asked = [c \in Coroutines |-> -1]
    /\ age = [c \in Coroutines |-> 0]
    /\ elapsed = [c \in Coroutines |-> 0]
    /\ lagAtAdd = [c \in Coroutines |-> 0]

-----------------------------------------------------------------------------
(* Other threads *)

\* TimerManager::add_event(), called by the worker that c ran on; a worker may
\* still get here after running_ was cleared.
AddEvent(c, d) ==
    /\ ~Asleep(c)
    /\ delayMS' = [delayMS EXCEPT ![c] = d]
    /\ pending_events' = Append(pending_events, c)
    /\ asked' = [asked EXCEPT ![c] = d]
    /\ UNCHANGED <<wheels, running, pc, lag, age, elapsed, lagAtAdd>>

\* Scheduler::destroy() clears running_.
Stop ==
    /\ running
    /\ running' = FALSE
    /\ UNCHANGED <<wheels, delayMS, pending_events, pc, lag, ghosts>>

-----------------------------------------------------------------------------
(* TimerManager::event_loop() *)

LoopTop ==
    /\ pc = "top"
    /\ pc' = IF running THEN "drain" ELSE "returned"
    /\ UNCHANGED <<wheels, delayMS, pending_events, running, lag, ghosts>>

\* internal_add_event(): the lowest wheel whose slots reach the delay.
\* Variant: the division comes after the test, one wheel too far up.
OneTooHigh(d) ==
    CHOOSE k \in Wheels : /\ d < intervalMS[k] \/ k = WHEELS - 1
                          /\ k = 0 \/ intervalMS[k - 1] <= d
WheelFor(d) ==
    CHOOSE k \in Wheels : d < intervalMS[k + 1] /\ (k = 0 \/ intervalMS[k] <= d)

\* TimeWheel::add_event().  Variants: a slot early, as if the current slot
\* were already over; or counted from slot 0.
SlotBefore(k, cur, d) == (cur + d \div intervalMS[k] + SLOTS - (IF k = 0 THEN 0 ELSE 1)) % SLOTS
SlotFromZero(k, cur, d) == (d \div intervalMS[k]) % SLOTS
SlotFor(k, cur, d) == (cur + d \div intervalMS[k]) % SLOTS

\* One round of the drain: pop_pending_event(), internal_add_event().
Drain ==
    /\ pc = "drain"
    /\ pending_events # <<>>
    /\ LET c == Head(pending_events)
           k == WheelFor(delayMS[c])
       IN  /\ ~TooLong(delayMS[c])
           /\ slots' = [slots EXCEPT ![k][SlotFor(k, cur_slot_idx[k], delayMS[c])] =
                            Append(@, c)]
           /\ lagAtAdd' = [lagAtAdd EXCEPT ![c] = lag]
    /\ pending_events' = Tail(pending_events)
    /\ UNCHANGED <<cur_slot_idx, delayMS, running, pc, lag, asked, age, elapsed>>

\* internal_add_event() throws and nothing catches: the process is gone.
DrainThrows ==
    /\ pc = "drain"
    /\ pending_events # <<>>
    /\ TooLong(delayMS[Head(pending_events)])
    /\ pc' = "terminated"
    /\ pending_events' = Tail(pending_events)
    /\ UNCHANGED <<wheels, delayMS, running, lag, ghosts>>

\* tick() goes on to the upper wheel when cur_slot_idx wraps.  Variant: it
\* stops at the wheel it was called on.
LowestOnly(k) == k = 0
Ticks(k) == \A j \in 0 .. k - 1 : cur_slot_idx[j] = SLOTS - 1

Current(k) == slots[k][cur_slot_idx[k]]
Fired == Current(0)
\* What wheel k hands to the wheel below it in this tick.
Moved(k) == IF k \in Wheels \ {0} /\ Ticks(k) THEN Current(k) ELSE <<>>

\* Variant: the delay that was already waited for is not taken off.
WholeDelay(k, d) == d
Remaining(k, d) == d % intervalMS[k]

\* cur_slot_idx wraps at the last slot.
IdxAfterTick(k) == IF Ticks(k) THEN (cur_slot_idx[k] + 1) % SLOTS ELSE cur_slot_idx[k]

\* Variant: the slot is read to its end but its list is not emptied.
StillThere(k, i) == slots[k][i]
LeftInSlot(k, i) == IF Ticks(k) /\ i = cur_slot_idx[k] THEN <<>> ELSE slots[k][i]

\* The elements of s that are in C, in the order of s.
Only(s, C) ==
    LET f[n \in 0 .. Len(s)] ==
          IF n = 0 THEN <<>>
          ELSE IF s[n] \in C THEN Append(f[n - 1], s[n]) ELSE f[n - 1]
    IN  f[Len(s)]

\* Where wheel k puts what it is given in this tick.
GoesTo(k, i) ==
    {c \in Coroutines : SlotFor(k, IdxAfterTick(k), Remaining(k + 1, delayMS[c])) = i}

\* The cascade: the current slot of a wheel that ticks is emptied, wheel 0
\* into the job queue, the others into the wheel below.
CascadedSlot(k, i) == LeftInSlot(k, i) \o Only(Moved(k + 1), GoesTo(k, i))

\* TimeWheel::add_event() throws if what it is given does not fit.
CascadeFits ==
    \A k \in Wheels : \A c \in ToSet(Moved(k)) : Remaining(k, delayMS[c]) < intervalMS[k]

Wake(C) ==
    /\ asked' = [c \in Coroutines |-> IF c \in C THEN -1 ELSE asked[c]]
    /\ elapsed' = [c \in Coroutines |-> IF c \in C THEN 0 ELSE elapsed[c]]
    /\ lagAtAdd' = [c \in Coroutines |-> IF c \in C THEN 0 ELSE lagAtAdd[c]]
    /\ age' = [c \in Coroutines |-> IF c \in C THEN 0
                                    ELSE IF OnWheel(c) THEN Capped(age[c] + 1) ELSE age[c]]

Tick ==
    /\ pc = "drain"
    /\ pending_events = <<>>
    /\ slots' = [k \in Wheels |-> [i \in Slots |-> CascadedSlot(k, i)]]
    /\ cur_slot_idx' = [k \in Wheels |-> IdxAfterTick(k)]
    /\ delayMS' = [c \in Coroutines |->
                     IF \E k \in Wheels : Contains(Moved(k), c)
                     THEN Remaining(CHOOSE k \in Wheels : Contains(Moved(k), c), delayMS[c])
                     ELSE delayMS[c]]
    /\ lag' = lag - 1
    /\ pc' = IF CascadeFits THEN "sleep" ELSE "terminated"
    /\ Wake(ToSet(Fired))
    /\ UNCHANGED <<pending_events, running>>

TimePasses ==
    /\ lag' = lag + 1
    /\ elapsed' = [c \in Coroutines |-> IF Asleep(c) THEN Capped(elapsed[c] + 1) ELSE 0]

\* clock_nanosleep() until the next tick is due.
SleepUntilNext ==
    /\ pc = "sleep"
    /\ lag < 0
    /\ TimePasses
    /\ pc' = "top"
    /\ UNCHANGED <<wheels, delayMS, pending_events, running, asked, age, lagAtAdd>>

\* The next tick is due already.
NoSleep ==
    /\ pc = "sleep"
    /\ lag >= 0
    /\ pc' = "top"
    /\ UNCHANGED <<wheels, delayMS, pending_events, running, lag, ghosts>>

\* The timer thread is slow, not scheduled, or wakes up late.
Delayed ==
    /\ pc \in {"top", "drain", "sleep"}
    /\ lag \in 0 .. MaxLag - 1
    /\ TimePasses
    /\ UNCHANGED <<wheels, delayMS, pending_events, running, pc, asked, age, lagAtAdd>>

Ended == pc \in {"returned", "terminated"} /\ UNCHANGED vars

-----------------------------------------------------------------------------
EventLoop == LoopTop \/ Drain \/ DrainThrows \/ Tick \/ SleepUntilNext \/ NoSleep

Next ==
    \/ \E c \in Coroutines, d \in Delays : AddEvent(c, d)
    \/ Stop
    \/ EventLoop
    \/ Delayed
    \/ Ended

Spec == Init /\ [][Next]_vars

\* The timer thread is scheduled; clock_nanosleep() returns.
FairSpec == Spec /\ WF_vars(EventLoop)

-----------------------------------------------------------------------------
(* Properties *)

TypeOK ==
    /\ slots \in [Wheels -> [Slots -> Seq(Coroutines)]]
    /\ cur_slot_idx \in [Wheels -> Slots]
    /\ delayMS \in [Coroutines -> Nat]
    /\ pending_events \in Seq(Coroutines)
    /\ running \in BOOLEAN
    /\ pc \in {"top", "drain", "sleep", "returned", "terminated"}
    /\ lag \in -1 .. MaxLag
    /\ asked \in [Coroutines -> {-1} \cup Delays]
    /\ age \in [Coroutines -> 0 .. Horizon]
    /\ elapsed \in [Coroutines -> 0 .. Horizon]
    /\ lagAtAdd \in [Coroutines -> 0 .. MaxLag]

\* Where c is listed: the list, named by where it is, and the index in it.
PlacesIn(c, where, s) == {<<where, n>> : n \in {n \in DOMAIN s : s[n] = c}}
Places(c) ==
    PlacesIn(c, <<>>, pending_events)
        \cup (UNION {PlacesIn(c, p, slots[p[1]][p[2]]) : p \in Wheels \X Slots})

\* A sleeper is in exactly one list, once, and a coroutine that is awake in
\* none: its single timewheel_node_ is never linked twice, and no sleeper
\* falls out of a cascade.
LinkedOnce ==
    pc # "terminated" =>
        \A c \in Coroutines : Cardinality(Places(c)) = IF Asleep(c) THEN 1 ELSE 0

\* The lists stay sound through add_event(), the drain and every cascade.
WheelInvariant == TypeOK /\ LinkedOnce

\* How far the wheels have turned, for each wheel those below it together.
Turned(cur) ==
    LET f[k \in 0 .. WHEELS] ==
          IF k = 0 THEN 0 ELSE f[k - 1] + cur[k - 1] * intervalMS[k - 1]
    IN  f

\* The ticks until a slot is the current one and its wheel ticks.
TicksToSlot(k, i) ==
    LET turns == (i - cur_slot_idx[k] + SLOTS) % SLOTS
    IN  (turns + 1) * intervalMS[k] - Turned(cur_slot_idx)[k] - 1

\* What is left of the delay fits the wheel a sleeper is on, and together
\* with the ticks already counted it is enough: whatever cascades it went
\* through, it still has at least asked - age ticks to go.
RemainingIsEnough ==
    \A k \in Wheels, i \in Slots : \A c \in ToSet(slots[k][i]) :
        /\ delayMS[c] < intervalMS[k + 1]
        /\ age[c] + TicksToSlot(k, i) + (delayMS[c] % intervalMS[k]) >= asked[c]

\* No throw but the documented one: with delays the wheels can hold, neither
\* add_event() nor a cascade throws.
ThrowsOnlyIfTooLong ==
    pc = "terminated" => \E c \in Coroutines : Asleep(c) /\ TooLong(asked[c])

\* The ticks a sleeper may wait too long: a turn of its wheel and of every
\* wheel but the lowest on the way down.
Lateness(d) ==
    LET f[k \in Wheels] ==
          IF k = 0 THEN 0
          ELSE f[k - 1] + (IF intervalMS[k] <= d THEN intervalMS[k] ELSE 0)
    IN  f[WHEELS - 1]

\* A coroutine is pushed to the job queue after at least the ticks it asked
\* for, and at most one turn per wheel later.
WokenInTime ==
    [][\A c \in Coroutines :
          Asleep(c) /\ asked'[c] = -1 =>
              age[c] \in asked[c] .. asked[c] + Lateness(asked[c])]_vars

\* Of two coroutines put on the wheels before the same tick, the one with the
\* shorter delay is never woken later.
ShorterFirst ==
    [][\A b, c \in Coroutines :
          (/\ Asleep(b) /\ asked'[b] = -1
           /\ OnWheel(c) /\ age[c] = age[b] /\ asked[c] < asked[b])
              => asked'[c] = -1]_vars

\* In real time a coroutine may be woken early, but by no more than the timer
\* thread was behind when it took the coroutine over.
EarlyByLagAtMost ==
    [][\A c \in Coroutines :
          Asleep(c) /\ asked'[c] = -1 => elapsed[c] >= asked[c] - lagAtAdd[c]]_vars

\* Every sleeper is woken, unless the scheduler stops or a delay was too long.
SleeperIsWoken ==
    \A c \in Coroutines : Asleep(c) ~> (~Asleep(c) \/ ~running \/ pc = "terminated")

\* What tests/test_timewheel.cpp expects: the coroutine sleeps as long as it
\* asked for, give or take the wait for the next tick.
WokenExactly ==
    [][\A c \in Coroutines :
          Asleep(c) /\ asked'[c] = -1 => elapsed[c] \in asked[c] .. asked[c] + 1]_vars

\* What scheduler.h says of coroutine_sleep(): the coroutine is added to the
\* job queue after the delay.
NeverBeforeDelay ==
    [][\A c \in Coroutines : Asleep(c) /\ asked'[c] = -1 => elapsed[c] >= asked[c]]_vars

=============================================================================
