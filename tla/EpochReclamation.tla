-------------------------- MODULE EpochReclamation --------------------------
(***************************************************************************)
(* EpochBasedReclamation: critical regions, per thread retire lists and    *)
(* the maintainer thread that advances the global epoch every 20 ms.       *)
(*                                                                         *)
(* Every step is one atomic access of the code to shared memory, with the  *)
(* thread-local work that follows it.  Three accesses of a thread to       *)
(* memory that nobody else writes at that moment are folded into their     *)
(* neighbour: the maintainer's load / fetch_add / load of global_epoch_    *)
(* (it is the only writer), exit_epoch()'s load before its CAS (nobody     *)
(* changes an active slot of another thread), and the push on the          *)
(* thread's own retire list.  compare_exchange_weak is                     *)
(* compare_exchange_strong: context_swap.S ties the program to x86-64,     *)
(* where the weak form does not fail spuriously.                           *)
(*                                                                         *)
(* The lock-free list that obtains and retires nodes is the environment    *)
(* here: any thread may obtain a free node, and a thread in a region may   *)
(* retire any node it unlinked.                                            *)
(*                                                                         *)
(* A definition marked "Variant" is a plausible mistake in the code, kept  *)
(* beside the definition it would replace.  No action uses it.             *)
(***************************************************************************)
EXTENDS Integers, Sequences

CONSTANTS Threads,          \* the threads that ever enter an epoch
          Nodes,            \* the nodes of the lock-free lists
          EBR_MAX_THREADS,  \* number of slots in thread_epochs_
          MaxEpoch          \* bound of the model: the maintainer stops
                            \* advancing when global_epoch_ gets here

ASSUME MaxThreadsAssumption == EBR_MAX_THREADS \in Nat \ {0}
ASSUME MaxEpochAssumption == MaxEpoch \in Nat \ {0}

VARIABLES
    global_epoch,           \* global_epoch_
    gc_epoch,               \* gc_epoch_
    thread_epochs_count,    \* thread_epochs_count_
    epoch_status,           \* slot -> thread_epochs_[slot].epoch_status_
    retire_list,            \* slot -> thread_epochs_[slot].retire_list_
    is_running,             \* is_running_
    released,               \* nodes whose released_ flag is set
    thread_epoch_index,     \* thread -> its thread_epoch_index
    pc,                     \* thread -> where it is
    old_local_epoch,        \* thread -> local of enter_epoch()
    new_local_epoch,        \* thread -> local of enter_epoch()
    cur_gc_epoch,           \* thread -> local of exit_epoch()
    mpc,                    \* where the maintainer is
    min_epoch,              \* maintainer: local of advance_epoch()
    cur_glb_epoch,          \* maintainer: local of advance_epoch()
    scan,                   \* maintainer: the loop index i
    slot_epoch,             \* maintainer: local old_local_epoch
    blockers                \* history: node -> the threads that were in a
                            \* region when it was retired and still are

shared == <<global_epoch, gc_epoch, thread_epochs_count, is_running>>
local == <<old_local_epoch, new_local_epoch, cur_gc_epoch>>
maintainer == <<mpc, min_epoch, cur_glb_epoch, scan, slot_epoch>>
vars == <<shared, epoch_status, retire_list, released, thread_epoch_index,
          pc, local, maintainer, blockers>>

Slots == 0 .. EBR_MAX_THREADS - 1

\* An epoch_status_ word: 63 bits of epoch and the active bit on top.
Status == [epoch : Nat, active : BOOLEAN]
Active(e) == [epoch |-> e, active |-> TRUE]
Inactive(e) == [epoch |-> e, active |-> FALSE]

Record == [ptr : Nodes, epoch : Nat]

InEpoch == {t \in Threads : pc[t] = "in"}
AllJoined == \A t \in Threads : pc[t] = "joined"

SlotOf(t) == epoch_status[thread_epoch_index[t]]
ListOf(t) == retire_list[thread_epoch_index[t]]

\* Nodes waiting in some retire list.
RetiredNodes ==
    {n \in Nodes : \E s \in Slots : \E k \in DOMAIN retire_list[s] :
                      retire_list[s][k].ptr = n}

-----------------------------------------------------------------------------
Init ==
    /\ global_epoch = 1
    /\ gc_epoch = 0
    /\ thread_epochs_count = 0
    /\ epoch_status = [s \in Slots |-> Inactive(0)]
    /\ retire_list = [s \in Slots |-> <<>>]
    /\ is_running = TRUE
    /\ released = Nodes
    /\ thread_epoch_index = [t \in Threads |-> -1]
    /\ pc = [t \in Threads |-> "idle"]
    /\ old_local_epoch = [t \in Threads |-> Inactive(0)]
    /\ new_local_epoch = [t \in Threads |-> 0]
    /\ cur_gc_epoch = [t \in Threads |-> 0]
    /\ mpc = "check"
    /\ min_epoch = 1
    /\ cur_glb_epoch = 1
    /\ scan = -1
    /\ slot_epoch = 0
    /\ blockers = [n \in Nodes |-> {}]

-----------------------------------------------------------------------------
(* enter_epoch() *)

\* init_thread_epoch(): take the next slot.  The assert stops the program
\* when the slots are used up.
InitThreadEpoch(t) ==
    /\ pc[t] = "idle"
    /\ thread_epoch_index[t] = -1
    /\ thread_epochs_count < EBR_MAX_THREADS
    /\ thread_epoch_index' = [thread_epoch_index EXCEPT ![t] = thread_epochs_count]
    /\ thread_epochs_count' = thread_epochs_count + 1
    /\ UNCHANGED <<global_epoch, gc_epoch, is_running, epoch_status, retire_list,
                   released, pc, local, maintainer, blockers>>

EnterLoadStatus(t) ==
    /\ pc[t] = "idle"
    /\ thread_epoch_index[t] # -1
    /\ ~SlotOf(t).active
    /\ old_local_epoch' = [old_local_epoch EXCEPT ![t] = SlotOf(t)]
    /\ pc' = [pc EXCEPT ![t] = "enter_load"]
    /\ UNCHANGED <<shared, epoch_status, retire_list, released, thread_epoch_index,
                   new_local_epoch, cur_gc_epoch, maintainer, blockers>>

EnterLoadGlobal(t) ==
    /\ pc[t] = "enter_load"
    /\ new_local_epoch' = [new_local_epoch EXCEPT ![t] = global_epoch]
    /\ pc' = [pc EXCEPT ![t] = "enter_cas"]
    /\ UNCHANGED <<shared, epoch_status, retire_list, released, thread_epoch_index,
                   old_local_epoch, cur_gc_epoch, maintainer, blockers>>

\* Announce the epoch only if the slot is still what was loaded before
\* global_epoch_ was read: the maintainer may have passed by since.
StatusIsCurrent(t) == SlotOf(t) = old_local_epoch[t]

\* Variant: a plain store.
AnnouncesBlindly(t) == TRUE
EnterCanAnnounce(t) == StatusIsCurrent(t)

EnterCas(t) ==
    /\ pc[t] = "enter_cas"
    /\ EnterCanAnnounce(t)
    /\ epoch_status' = [epoch_status EXCEPT
                          ![thread_epoch_index[t]] = Active(new_local_epoch[t])]
    /\ old_local_epoch' = [old_local_epoch EXCEPT ![t] = Inactive(0)]
    /\ new_local_epoch' = [new_local_epoch EXCEPT ![t] = 0]
    /\ pc' = [pc EXCEPT ![t] = "in"]
    /\ UNCHANGED <<shared, retire_list, released, thread_epoch_index,
                   cur_gc_epoch, maintainer, blockers>>

\* The failed CAS stores the status it found in old_local_epoch.
EnterCasFails(t) ==
    /\ pc[t] = "enter_cas"
    /\ ~EnterCanAnnounce(t)
    /\ old_local_epoch' = [old_local_epoch EXCEPT ![t] = SlotOf(t)]
    /\ new_local_epoch' = [new_local_epoch EXCEPT ![t] = 0]
    /\ pc' = [pc EXCEPT ![t] = "enter_load"]
    /\ UNCHANGED <<shared, epoch_status, retire_list, released, thread_epoch_index,
                   cur_gc_epoch, maintainer, blockers>>

-----------------------------------------------------------------------------
(* Inside a region *)

\* TSLinkedListNodeAllocator::get(): a free node comes into use.
GetNode(t, n) ==
    /\ pc[t] \in {"idle", "in"}
    /\ n \in released
    /\ released' = released \ {n}
    /\ UNCHANGED <<shared, epoch_status, retire_list, thread_epoch_index, pc,
                   local, maintainer, blockers>>

\* The epoch a record is stamped with.  Variant: the retiring thread's own.
StampsOwnEpoch(t) == SlotOf(t).epoch
RetireEpoch(t) == global_epoch

\* Deque::push_back().  Variant: the list is a stack.
PushesInFront(list, r) == <<r>> \o list
PushRecord(list, r) == Append(list, r)

\* retire(): n was unlinked by t, so it is in use and in no retire list.
Retire(t, n) ==
    /\ pc[t] = "in"
    /\ n \notin released
    /\ n \notin RetiredNodes
    /\ retire_list' = [retire_list EXCEPT
            ![thread_epoch_index[t]] = PushRecord(@, [ptr |-> n, epoch |-> RetireEpoch(t)])]
    /\ blockers' = [blockers EXCEPT ![n] = InEpoch]
    /\ UNCHANGED <<shared, epoch_status, released, thread_epoch_index, pc,
                   local, maintainer>>

-----------------------------------------------------------------------------
(* exit_epoch() *)

ExitCas(t) ==
    /\ pc[t] = "in"
    /\ SlotOf(t).active
    /\ epoch_status' = [epoch_status EXCEPT
                          ![thread_epoch_index[t]] = Inactive(SlotOf(t).epoch)]
    /\ blockers' = [n \in Nodes |-> blockers[n] \ {t}]
    /\ pc' = [pc EXCEPT ![t] = "exit_load"]
    /\ UNCHANGED <<shared, retire_list, released, thread_epoch_index, local,
                   maintainer>>

ExitLoadGc(t) ==
    /\ pc[t] = "exit_load"
    /\ cur_gc_epoch' = [cur_gc_epoch EXCEPT ![t] = gc_epoch]
    /\ pc' = [pc EXCEPT ![t] = "reclaim"]
    /\ UNCHANGED <<shared, epoch_status, retire_list, released, thread_epoch_index,
                   old_local_epoch, new_local_epoch, maintainer, blockers>>

\* The loop looks at the front record only.
FrontIsOld(t) == ListOf(t) # <<>> /\ Head(ListOf(t)).epoch <= cur_gc_epoch[t]

\* release() the front node, then pop its record.  Variant: no pop_front().
ForgetsToPop(list) == list
PopRecord(list) == Tail(list)

Reclaim(t) ==
    /\ pc[t] = "reclaim"
    /\ FrontIsOld(t)
    /\ released' = released \cup {Head(ListOf(t)).ptr}
    /\ retire_list' = [retire_list EXCEPT ![thread_epoch_index[t]] = PopRecord(@)]
    /\ UNCHANGED <<shared, epoch_status, thread_epoch_index, pc, local, maintainer,
                   blockers>>

ReclaimDone(t) ==
    /\ pc[t] = "reclaim"
    /\ ~FrontIsOld(t)
    /\ cur_gc_epoch' = [cur_gc_epoch EXCEPT ![t] = 0]
    /\ pc' = [pc EXCEPT ![t] = "idle"]
    /\ UNCHANGED <<shared, epoch_status, retire_list, released, thread_epoch_index,
                   old_local_epoch, new_local_epoch, maintainer, blockers>>

-----------------------------------------------------------------------------
(* advance_epoch(), run by the maintainer while is_running_ *)

BeginAdvance ==
    /\ mpc = "check"
    /\ is_running
    /\ global_epoch < MaxEpoch
    /\ min_epoch' = global_epoch
    /\ global_epoch' = global_epoch + 1
    /\ cur_glb_epoch' = global_epoch + 1
    /\ mpc' = "count"
    /\ UNCHANGED <<gc_epoch, thread_epochs_count, is_running, epoch_status,
                   retire_list, released, thread_epoch_index, pc, local, scan,
                   slot_epoch, blockers>>

\* The scan goes down from the last slot taken; slots taken later are not
\* visited.  Variant: one slot too few.
SkipsLastSlot == thread_epochs_count - 2
FirstToScan == thread_epochs_count - 1

LoadCount ==
    /\ mpc = "count"
    /\ scan' = FirstToScan
    /\ mpc' = "load"
    /\ UNCHANGED <<shared, epoch_status, retire_list, released, thread_epoch_index,
                   pc, local, min_epoch, cur_glb_epoch, slot_epoch, blockers>>

LoadSlot ==
    /\ mpc = "load"
    /\ scan >= 0
    /\ slot_epoch' = epoch_status[scan].epoch
    /\ mpc' = "cas"
    /\ UNCHANGED <<shared, epoch_status, retire_list, released, thread_epoch_index,
                   pc, local, min_epoch, cur_glb_epoch, scan, blockers>>

\* The slot was inactive when it was loaded and has not changed.
SlotIsIdle == epoch_status[scan] = Inactive(slot_epoch)

\* The CAS succeeds.
BumpSlot ==
    /\ mpc = "cas"
    /\ SlotIsIdle
    /\ epoch_status' = [epoch_status EXCEPT ![scan] = Inactive(cur_glb_epoch)]
    /\ scan' = scan - 1
    /\ slot_epoch' = 0
    /\ mpc' = "load"
    /\ UNCHANGED <<shared, retire_list, released, thread_epoch_index, pc, local,
                   min_epoch, cur_glb_epoch, blockers>>

\* The CAS fails: the slot is active, or was used since it was loaded.
Lower(a, b) == IF a > b THEN b ELSE a

NoteSlot ==
    /\ mpc = "cas"
    /\ ~SlotIsIdle
    /\ min_epoch' = Lower(min_epoch, epoch_status[scan].epoch)
    /\ scan' = scan - 1
    /\ slot_epoch' = 0
    /\ mpc' = "load"
    /\ UNCHANGED <<shared, epoch_status, retire_list, released, thread_epoch_index,
                   pc, local, cur_glb_epoch, blockers>>

\* Every epoch below the minimum is over.  Variant: the minimum too.
CollectsMinimum(e) == e
GcTarget(e) == e - 1

StoreGc ==
    /\ mpc = "load"
    /\ scan < 0
    /\ gc_epoch' = GcTarget(min_epoch)
    /\ mpc' = "check"
    /\ UNCHANGED <<global_epoch, thread_epochs_count, is_running, epoch_status,
                   retire_list, released, thread_epoch_index, pc, local, min_epoch,
                   cur_glb_epoch, scan, slot_epoch, blockers>>

MaintainerStops ==
    /\ mpc = "check"
    /\ ~is_running
    /\ mpc' = "stopped"
    /\ UNCHANGED <<shared, epoch_status, retire_list, released, thread_epoch_index,
                   pc, local, min_epoch, cur_glb_epoch, scan, slot_epoch, blockers>>

Maintainer ==
    \/ BeginAdvance \/ LoadCount \/ LoadSlot \/ BumpSlot \/ NoteSlot \/ StoreGc
    \/ MaintainerStops

-----------------------------------------------------------------------------
(* Shutdown *)

\* A worker, the timer thread or main is done with the lists for good.
Leave(t) ==
    /\ pc[t] = "idle"
    /\ pc' = [pc EXCEPT ![t] = "joined"]
    /\ UNCHANGED <<shared, epoch_status, retire_list, released, thread_epoch_index,
                   local, maintainer, blockers>>

\* destroy() is called after every user of the lists was joined.
DestroyMayRun == AllJoined

\* destroy(), first part: the slots are emptied in order, one node a step.
DestroyDrain(s) ==
    /\ DestroyMayRun
    /\ is_running
    /\ s < thread_epochs_count
    /\ retire_list[s] # <<>>
    /\ \A r \in Slots : r < s => retire_list[r] = <<>>
    /\ released' = released \cup {Head(retire_list[s]).ptr}
    /\ retire_list' = [retire_list EXCEPT ![s] = PopRecord(@)]
    /\ UNCHANGED <<shared, epoch_status, thread_epoch_index, pc, local, maintainer,
                   blockers>>

\* Variant: is_running_ is left alone.
ForgetsToStop == is_running
StopFlag == FALSE

\* destroy(), second part; pthread_join() then waits for MaintainerStops.
DestroyStop ==
    /\ DestroyMayRun
    /\ is_running
    /\ \A s \in Slots : s < thread_epochs_count => retire_list[s] = <<>>
    /\ is_running' = StopFlag
    /\ UNCHANGED <<global_epoch, gc_epoch, thread_epochs_count, epoch_status,
                   retire_list, released, thread_epoch_index, pc, local, maintainer,
                   blockers>>

Done == AllJoined /\ mpc = "stopped"
Terminated == Done /\ UNCHANGED vars

-----------------------------------------------------------------------------
Thread(t) ==
    \/ InitThreadEpoch(t) \/ EnterLoadStatus(t) \/ EnterLoadGlobal(t)
    \/ EnterCas(t) \/ EnterCasFails(t)
    \/ \E n \in Nodes : GetNode(t, n) \/ Retire(t, n)
    \/ ExitCas(t) \/ ExitLoadGc(t) \/ Reclaim(t) \/ ReclaimDone(t)
    \/ Leave(t)

Destroy == (\E s \in Slots : DestroyDrain(s)) \/ DestroyStop

Next ==
    \/ \E t \in Threads : Thread(t)
    \/ Maintainer
    \/ Destroy
    \/ Terminated

Spec == Init /\ [][Next]_vars

\* The maintainer and the thread that shuts the program down keep running.
Fairness == WF_vars(Maintainer) /\ WF_vars(Destroy)
FairSpec == Spec /\ Fairness

-----------------------------------------------------------------------------
(* Properties *)

TypeOK ==
    /\ global_epoch \in Nat \ {0}
    /\ gc_epoch \in Nat
    /\ thread_epochs_count \in 0 .. EBR_MAX_THREADS
    /\ epoch_status \in [Slots -> Status]
    /\ retire_list \in [Slots -> Seq(Record)]
    /\ is_running \in BOOLEAN
    /\ released \subseteq Nodes
    /\ thread_epoch_index \in [Threads -> {-1} \cup Slots]
    /\ pc \in [Threads -> {"idle", "enter_load", "enter_cas", "in", "exit_load",
                           "reclaim", "joined"}]
    /\ old_local_epoch \in [Threads -> Status]
    /\ new_local_epoch \in [Threads -> Nat]
    /\ cur_gc_epoch \in [Threads -> Nat]
    /\ mpc \in {"check", "count", "load", "cas", "stopped"}
    /\ min_epoch \in Nat
    /\ cur_glb_epoch \in Nat
    /\ scan \in {-1} \cup Slots
    /\ slot_epoch \in Nat
    /\ blockers \in [Nodes -> SUBSET Threads]

\* Whoever is in a region announced an epoch that is not collected yet: the
\* scan and the CAS of enter_epoch() never miss each other.
ActiveAheadOfGC == \A t \in InEpoch : gc_epoch < SlotOf(t).epoch

\* A retired node is stamped late enough: every thread that was in a region
\* when it was retired, and still is, announced that epoch or an older one.
RecordCoversBlockers ==
    \A s \in Slots : \A k \in DOMAIN retire_list[s] :
        \A t \in blockers[retire_list[s][k].ptr] :
            t \in InEpoch /\ SlotOf(t).epoch <= retire_list[s][k].epoch

\* The promise to the lists: release() never gets a node that a thread which
\* was in a region when it was retired may still be reading.
NoPrematureRelease == [][\A n \in released' \ released : blockers[n] = {}]_vars

\* A node is in at most one record, and in none once it is back with the
\* allocator: it is released exactly once for each time it was retired.
EachNodeInOnePlace ==
    /\ RetiredNodes \cap released = {}
    /\ \A s1, s2 \in Slots : \A k1 \in DOMAIN retire_list[s1],
                                k2 \in DOMAIN retire_list[s2] :
          retire_list[s1][k1].ptr = retire_list[s2][k2].ptr => s1 = s2 /\ k1 = k2

\* exit_epoch() looks at the front record only; this is why it overlooks no
\* node that could be released.
RecordsInOrder ==
    \A s \in Slots : \A k1, k2 \in DOMAIN retire_list[s] :
        k1 <= k2 => retire_list[s][k1].epoch <= retire_list[s][k2].epoch

\* The collected epoch never moves back, although a slot that lags behind
\* lowers min_epoch: what was safe to release stays safe.
GcNeverMovesBack == [][gc_epoch <= gc_epoch']_vars

\* assert(min_epoch > 0) of advance_epoch(), where it stands.
MinEpochPositive == mpc = "load" /\ scan < 0 => min_epoch > 0

\* Once every user of the lists is gone, destroy() empties all the retire
\* lists and the maintainer stops, whatever it was doing.
ShutdownCompletes == AllJoined ~> (Done /\ RetiredNodes = {})

-----------------------------------------------------------------------------
(* The inductive invariant behind the safety properties *)

\* Slots are handed out once each, in order.
SlotsAreOwned ==
    /\ \A t \in Threads : thread_epoch_index[t] < thread_epochs_count
    /\ \A t, u \in Threads :
          thread_epoch_index[t] = thread_epoch_index[u] /\ thread_epoch_index[t] # -1
             => t = u
    /\ \A t \in Threads :
          pc[t] \notin {"idle", "joined"} => thread_epoch_index[t] # -1

\* The active bit says whether the owner of the slot is in a region.
ActiveMeansIn ==
    /\ \A t \in InEpoch : SlotOf(t).active
    /\ \A s \in Slots : epoch_status[s].active =>
          \E t \in InEpoch : thread_epoch_index[t] = s

\* No epoch comes from the future, and a thread that reclaims works with a
\* collected epoch that was once stored.
EpochsAreOrdered ==
    /\ gc_epoch < global_epoch
    /\ \A s \in Slots : epoch_status[s].epoch <= global_epoch
    /\ \A t \in Threads : cur_gc_epoch[t] <= gc_epoch

\* The maintainer is scanning, and has dealt with t's slot (or t registered
\* too late to be visited and saw the new global epoch).
Passed(t) == mpc \in {"load", "cas"} /\ thread_epoch_index[t] > scan

\* What t announces if its CAS succeeds now is not collected, and does not
\* undercut the minimum once the scan has passed t.
PendingEntry ==
    \A t \in Threads : pc[t] = "enter_cas" =>
        /\ old_local_epoch[t].epoch <= new_local_epoch[t]
        /\ new_local_epoch[t] <= global_epoch
        /\ StatusIsCurrent(t) =>
              /\ gc_epoch < new_local_epoch[t]
              /\ Passed(t) => min_epoch <= new_local_epoch[t]

\* What enter_epoch() holds when it is about to read the global epoch.
PendingLoad ==
    \A t \in Threads : pc[t] = "enter_load" => old_local_epoch[t].epoch <= global_epoch

\* While it scans, the maintainer knows a minimum that is above what is
\* collected and not above any epoch announced behind it.
ScanInvariant ==
    /\ mpc \in {"count", "load", "cas"} => /\ gc_epoch < min_epoch
                                           /\ min_epoch < cur_glb_epoch
                                           /\ cur_glb_epoch = global_epoch
    /\ \A t \in Threads : Passed(t) /\ t \in InEpoch => min_epoch <= SlotOf(t).epoch
    /\ mpc = "cas" => /\ scan \in Slots
                      /\ \/ epoch_status[scan] = Inactive(slot_epoch)
                         \/ gc_epoch < epoch_status[scan].epoch

\* Records are never ahead of the global epoch either.
RecordsAreNotAhead ==
    \A s \in Slots : \A k \in DOMAIN retire_list[s] :
        retire_list[s][k].epoch <= global_epoch

\* Everything the regions and the maintainer need, without the retire lists.
EpochInvariant ==
    /\ SlotsAreOwned
    /\ ActiveMeansIn
    /\ EpochsAreOrdered
    /\ PendingEntry
    /\ PendingLoad
    /\ ScanInvariant
    /\ ActiveAheadOfGC

\* And what the retire lists need on top of it.
RetireInvariant ==
    /\ RecordsAreNotAhead
    /\ RecordsInOrder
    /\ RecordCoversBlockers
    /\ EachNodeInOnePlace

-----------------------------------------------------------------------------
(* Refinement *)

\* Epochs implement grace periods.
GP == INSTANCE GracePeriod WITH
        active <- InEpoch, retired <- RetiredNodes, blockers <- blockers
ImplementsGracePeriod == GP!Spec

=============================================================================
