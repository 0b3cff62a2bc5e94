------------------------- MODULE CoroutineLifecycle -------------------------
(***************************************************************************)
(* What the scheduler promises a coroutine: after it is created it is      *)
(* ready, running or asleep; it runs on one worker at a time, becomes      *)
(* ready again only by yielding or by waking up, and its memory is         *)
(* recycled only after its function returned.                              *)
(***************************************************************************)

CONSTANTS Coroutines,   \* addresses of coroutines
          Workers,      \* the threads that run them
          NONE          \* no worker

VARIABLES status,       \* coroutine -> where it is in its life
          worker        \* coroutine -> the worker it runs on

vars == <<status, worker>>

TypeOK ==
    /\ status \in [Coroutines -> {"unused", "ready", "running", "asleep"}]
    /\ worker \in [Coroutines -> Workers \cup {NONE}]

Init ==
    /\ status = [c \in Coroutines |-> "unused"]
    /\ worker = [c \in Coroutines |-> NONE]

Moves(c, from, to) ==
    /\ status[c] = from
    /\ status' = [status EXCEPT ![c] = to]

Leaves(c) == worker' = [worker EXCEPT ![c] = NONE]

Create(c) == Moves(c, "unused", "ready") /\ UNCHANGED worker

\* A worker runs one coroutine at a time.
Run(c, w) ==
    /\ \A d \in Coroutines : worker[d] # w
    /\ Moves(c, "ready", "running")
    /\ worker' = [worker EXCEPT ![c] = w]

Yield(c) == Moves(c, "running", "ready") /\ Leaves(c)

Sleep(c) == Moves(c, "running", "asleep") /\ Leaves(c)

Wake(c) == Moves(c, "asleep", "ready") /\ UNCHANGED worker

Finish(c) == Moves(c, "running", "unused") /\ Leaves(c)

Next ==
    \E c \in Coroutines :
        \/ Create(c) \/ Yield(c) \/ Sleep(c) \/ Wake(c) \/ Finish(c)
        \/ \E w \in Workers : Run(c, w)

Spec == Init /\ [][Next]_vars

=============================================================================
