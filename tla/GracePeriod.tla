---------------------------- MODULE GracePeriod ----------------------------
(***************************************************************************)
(* What epoch based reclamation promises its callers, without epochs.      *)
(*                                                                         *)
(* A thread that wants to follow pointers of a lock-free structure is in a *)
(* critical region between enter_epoch() and exit_epoch().  A node that    *)
(* has been unlinked is handed to retire() from inside such a region.  The *)
(* node may go back to the allocator only after every thread that was in a *)
(* region when the node was retired has left it: until then one of them    *)
(* may still hold a pointer to the node.                                   *)
(*                                                                         *)
(* EpochReclamation implements this specification; TSLinkedList is built   *)
(* on it.                                                                  *)
(***************************************************************************)

CONSTANTS Threads,      \* the threads that use the reclamation scheme
          Nodes         \* the nodes that can be retired

VARIABLES active,       \* the threads inside a critical region
          retired,      \* the nodes retired and not yet released
          blockers      \* node -> the threads whose exit it still waits for

vars == <<active, retired, blockers>>

TypeOK ==
    /\ active \subseteq Threads
    /\ retired \subseteq Nodes
    /\ blockers \in [Nodes -> SUBSET Threads]

Init ==
    /\ active = {}
    /\ retired = {}
    /\ blockers = [n \in Nodes |-> {}]

Enter(t) ==
    /\ t \notin active
    /\ active' = active \cup {t}
    /\ UNCHANGED <<retired, blockers>>

Exit(t) ==
    /\ t \in active
    /\ active' = active \ {t}
    /\ blockers' = [n \in Nodes |-> blockers[n] \ {t}]
    /\ UNCHANGED retired

\* The caller must be inside a region and must retire a node once only.
Retire(t, n) ==
    /\ t \in active
    /\ n \notin retired
    /\ retired' = retired \cup {n}
    /\ blockers' = [blockers EXCEPT ![n] = active]
    /\ UNCHANGED active

Release(n) ==
    /\ n \in retired
    /\ blockers[n] = {}
    /\ retired' = retired \ {n}
    /\ UNCHANGED <<active, blockers>>

Next ==
    \/ \E t \in Threads : Enter(t) \/ Exit(t)
    \/ \E t \in Threads, n \in Nodes : Retire(t, n)
    \/ \E n \in Nodes : Release(n)

Spec == Init /\ [][Next]_vars

=============================================================================
