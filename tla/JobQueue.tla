------------------------------ MODULE JobQueue ------------------------------
(***************************************************************************)
(* What TSLinkedList promises the scheduler: a linearizable FIFO queue.    *)
(*                                                                         *)
(* Between its call and its return every push_back() and pop_front() takes *)
(* effect in one indivisible step.  pop_front() returns nullptr only if    *)
(* the queue was empty at some moment during the call.                     *)
(***************************************************************************)
EXTENDS Sequences

CONSTANTS Threads,      \* the callers
          Values,       \* what is queued: pointers to coroutines
          NULL          \* nullptr

VARIABLES queue,        \* the values in the queue
          op,           \* thread -> the operation it is in
          done,         \* thread -> whether that operation took effect
          val           \* thread -> its argument, or its result

vars == <<queue, op, done, val>>

TypeOK ==
    /\ queue \in Seq(Values)
    /\ op \in [Threads -> {"none", "push", "pop"}]
    /\ done \in [Threads -> BOOLEAN]
    /\ val \in [Threads -> Values \cup {NULL}]

Init ==
    /\ queue = <<>>
    /\ op = [t \in Threads |-> "none"]
    /\ done = [t \in Threads |-> FALSE]
    /\ val = [t \in Threads |-> NULL]

CallPush(t, v) ==
    /\ op[t] = "none"
    /\ op' = [op EXCEPT ![t] = "push"]
    /\ val' = [val EXCEPT ![t] = v]
    /\ UNCHANGED <<queue, done>>

CallPop(t) ==
    /\ op[t] = "none"
    /\ op' = [op EXCEPT ![t] = "pop"]
    /\ UNCHANGED <<queue, done, val>>

Push(t) ==
    /\ op[t] = "push" /\ ~done[t]
    /\ queue' = Append(queue, val[t])
    /\ done' = [done EXCEPT ![t] = TRUE]
    /\ UNCHANGED <<op, val>>

Pop(t) ==
    /\ op[t] = "pop" /\ ~done[t]
    /\ queue # <<>>
    /\ queue' = Tail(queue)
    /\ val' = [val EXCEPT ![t] = Head(queue)]
    /\ done' = [done EXCEPT ![t] = TRUE]
    /\ UNCHANGED op

PopEmpty(t) ==
    /\ op[t] = "pop" /\ ~done[t]
    /\ queue = <<>>
    /\ done' = [done EXCEPT ![t] = TRUE]
    /\ UNCHANGED <<queue, op, val>>

Return(t) ==
    /\ done[t]
    /\ op' = [op EXCEPT ![t] = "none"]
    /\ done' = [done EXCEPT ![t] = FALSE]
    /\ val' = [val EXCEPT ![t] = NULL]
    /\ UNCHANGED queue

\* destroy() drops what is left, when nobody is inside an operation.
Discard ==
    /\ \A t \in Threads : op[t] = "none"
    /\ queue' = <<>>
    /\ UNCHANGED <<op, done, val>>

Next ==
    \/ \E t \in Threads, v \in Values : CallPush(t, v)
    \/ \E t \in Threads : CallPop(t) \/ Push(t) \/ Pop(t) \/ PopEmpty(t) \/ Return(t)
    \/ Discard

Spec == Init /\ [][Next]_vars

=============================================================================
