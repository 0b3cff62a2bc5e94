----------------------- MODULE EpochReclamation_proofs -----------------------
(***************************************************************************)
(* Proofs about EpochReclamation, for any set of threads and nodes, any    *)
(* number of slots and any bound on the epochs.                            *)
(***************************************************************************)
EXTENDS EpochReclamation, TLAPS

USE MaxThreadsAssumption, MaxEpochAssumption DEF MaxThreadsAssumption, MaxEpochAssumption

\* Each action's frame, so that a step can be unfolded in one go.
LEMMA TypeStep ==
    ASSUME TypeOK, EpochInvariant, [Next]_vars
    PROVE  TypeOK'
<1> USE DEF TypeOK, shared, local, maintainer, Slots, Status, Active, Inactive,
            SlotOf, ListOf
<1>1. ASSUME NEW t \in Threads, InitThreadEpoch(t) PROVE TypeOK'
  <2>1. thread_epochs_count \in Slots /\ thread_epochs_count + 1 \in 0 .. EBR_MAX_THREADS
    BY <1>1 DEF InitThreadEpoch
  <2> QED
    BY <1>1, <2>1 DEF InitThreadEpoch
<1>2. ASSUME NEW t \in Threads, EnterLoadStatus(t) PROVE TypeOK'
  BY <1>2 DEF EnterLoadStatus
<1>3. ASSUME NEW t \in Threads, EnterLoadGlobal(t) PROVE TypeOK'
  BY <1>3 DEF EnterLoadGlobal
<1>4. ASSUME NEW t \in Threads, EnterCas(t) PROVE TypeOK'
  BY <1>4 DEF EnterCas
<1>5. ASSUME NEW t \in Threads, EnterCasFails(t) PROVE TypeOK'
  BY <1>5 DEF EnterCasFails, EpochInvariant, SlotsAreOwned
<1>6. ASSUME NEW t \in Threads, NEW n \in Nodes, GetNode(t, n) PROVE TypeOK'
  BY <1>6 DEF GetNode
<1>7. ASSUME NEW t \in Threads, NEW n \in Nodes, Retire(t, n) PROVE TypeOK'
  <2>1. thread_epoch_index[t] \in Slots
    BY <1>7 DEF Retire, EpochInvariant, SlotsAreOwned
  <2>2. [ptr |-> n, epoch |-> RetireEpoch(t)] \in Record
    BY DEF Record, RetireEpoch
  <2>3. Append(ListOf(t), [ptr |-> n, epoch |-> RetireEpoch(t)]) \in Seq(Record)
    BY <2>1, <2>2
  <2>4. InEpoch \in SUBSET Threads
    BY DEF InEpoch
  <2> QED
    BY <1>7, <2>1, <2>3, <2>4 DEF Retire, PushRecord
<1>8. ASSUME NEW t \in Threads, ExitCas(t) PROVE TypeOK'
  BY <1>8 DEF ExitCas, EpochInvariant, SlotsAreOwned
<1>9. ASSUME NEW t \in Threads, ExitLoadGc(t) PROVE TypeOK'
  BY <1>9 DEF ExitLoadGc
<1>10. ASSUME NEW t \in Threads, Reclaim(t) PROVE TypeOK'
  <2>1. thread_epoch_index[t] \in Slots
    BY <1>10 DEF Reclaim, EpochInvariant, SlotsAreOwned
  <2>2. ListOf(t) \in Seq(Record) /\ ListOf(t) # <<>>
    BY <1>10, <2>1 DEF Reclaim, FrontIsOld
  <2>3. Tail(ListOf(t)) \in Seq(Record) /\ Head(ListOf(t)) \in Record
    BY <2>2
  <2> QED
    BY <1>10, <2>1, <2>3 DEF Reclaim, PopRecord, Record
<1>11. ASSUME NEW t \in Threads, ReclaimDone(t) PROVE TypeOK'
  BY <1>11 DEF ReclaimDone
<1>12. ASSUME NEW t \in Threads, Leave(t) PROVE TypeOK'
  BY <1>12 DEF Leave
<1>13. ASSUME BeginAdvance PROVE TypeOK'
  BY <1>13 DEF BeginAdvance
<1>14. ASSUME LoadCount PROVE TypeOK'
  BY <1>14 DEF LoadCount, FirstToScan
<1>15. ASSUME LoadSlot PROVE TypeOK'
  <2>1. scan \in Slots
    BY <1>15 DEF LoadSlot
  <2>2. epoch_status[scan].epoch \in Nat
    BY <2>1
  <2> QED
    BY <1>15, <2>2 DEF LoadSlot
<1>16. ASSUME BumpSlot PROVE TypeOK'
  <2>1. scan \in Slots
    BY <1>16 DEF BumpSlot, EpochInvariant, ScanInvariant
  <2>2. scan - 1 \in {-1} \cup Slots
    BY <2>1
  <2>3. epoch_status' \in [Slots -> Status]
    BY <1>16, <2>1 DEF BumpSlot
  <2> QED
    BY <1>16, <2>2, <2>3 DEF BumpSlot
<1>17. ASSUME NoteSlot PROVE TypeOK'
  <2>1. scan \in Slots
    BY <1>17 DEF NoteSlot, EpochInvariant, ScanInvariant
  <2>2. epoch_status[scan].epoch \in Nat /\ scan - 1 \in {-1} \cup Slots
    BY <2>1
  <2>3. Lower(min_epoch, epoch_status[scan].epoch) \in Nat
    BY <2>2 DEF Lower
  <2> QED
    BY <1>17, <2>2, <2>3 DEF NoteSlot
<1>18. ASSUME StoreGc PROVE TypeOK'
  BY <1>18 DEF StoreGc, GcTarget, EpochInvariant, ScanInvariant
<1>19. ASSUME MaintainerStops PROVE TypeOK'
  BY <1>19 DEF MaintainerStops
<1>20. ASSUME NEW s \in Slots, DestroyDrain(s) PROVE TypeOK'
  <2>1. retire_list[s] \in Seq(Record) /\ retire_list[s] # <<>>
    BY <1>20 DEF DestroyDrain
  <2>2. Tail(retire_list[s]) \in Seq(Record) /\ Head(retire_list[s]) \in Record
    BY <2>1
  <2> QED
    BY <1>20, <2>2 DEF DestroyDrain, PopRecord, Record
<1>21. ASSUME DestroyStop PROVE TypeOK'
  BY <1>21 DEF DestroyStop, StopFlag
<1>22. ASSUME UNCHANGED vars PROVE TypeOK'
  BY <1>22 DEF vars
<1> QED
  BY <1>1, <1>2, <1>3, <1>4, <1>5, <1>6, <1>7, <1>8, <1>9, <1>10, <1>11, <1>12,
     <1>13, <1>14, <1>15, <1>16, <1>17, <1>18, <1>19, <1>20, <1>21, <1>22
     DEF Next, Thread, Maintainer, Destroy, Terminated

-----------------------------------------------------------------------------
(* The epochs: regions and the maintainer *)

\* What EpochInvariant depends on.
epochVars == <<global_epoch, gc_epoch, thread_epochs_count, epoch_status,
               thread_epoch_index, pc, local, maintainer>>

LEMMA EpochFrame ==
    ASSUME EpochInvariant, UNCHANGED epochVars
    PROVE  EpochInvariant'
BY DEF EpochInvariant, epochVars, local, maintainer, SlotsAreOwned, ActiveMeansIn,
       EpochsAreOrdered, PendingEntry, PendingLoad, ScanInvariant, ActiveAheadOfGC,
       Passed, StatusIsCurrent, InEpoch, SlotOf

\* No two threads share a slot, so a step of one leaves the others' alone.
LEMMA SlotsAreDistinct ==
    ASSUME SlotsAreOwned, NEW t \in Threads, NEW u \in Threads,
           thread_epoch_index[t] # -1, u # t
    PROVE  thread_epoch_index[u] # thread_epoch_index[t]
BY DEF SlotsAreOwned

LEMMA EpochStep ==
    ASSUME TypeOK, EpochInvariant, [Next]_vars
    PROVE  EpochInvariant'
<1> USE DEF TypeOK, EpochInvariant, shared, local, maintainer, Slots, Status, Active,
            Inactive, SlotOf, InEpoch, Passed, StatusIsCurrent
<1>0. \A t \in Threads : thread_epoch_index[t] \in Int
  OBVIOUS
<1>1. ASSUME NEW t \in Threads, InitThreadEpoch(t) PROVE EpochInvariant'
  <2>1. SlotsAreOwned'
    <3>1. \A u \in Threads : thread_epoch_index'[u] < thread_epochs_count'
      <4> TAKE u \in Threads
      <4>1. thread_epoch_index[u] \in Int /\ thread_epoch_index[u] < thread_epochs_count
        BY <1>0 DEF SlotsAreOwned
      <4>2. thread_epochs_count \in Int /\ thread_epochs_count' = thread_epochs_count + 1
        BY <1>1 DEF InitThreadEpoch
      <4>3. CASE u = t
        <5>1. thread_epoch_index'[u] = thread_epochs_count
          BY <1>1, <4>3 DEF InitThreadEpoch
        <5> QED
          BY <4>2, <5>1
      <4>4. CASE u # t
        <5>1. thread_epoch_index'[u] = thread_epoch_index[u]
          BY <1>1, <4>4 DEF InitThreadEpoch
        <5> QED
          BY <4>1, <4>2, <5>1
      <4> QED
        BY <4>3, <4>4
    <3>2. ASSUME NEW u \in Threads, NEW v \in Threads, thread_epoch_index'[u] # -1,
                 thread_epoch_index'[u] = thread_epoch_index'[v]
          PROVE  u = v
      <4>1. \A w \in Threads : w # t => thread_epoch_index'[w] # thread_epochs_count
        BY <1>1 DEF InitThreadEpoch, SlotsAreOwned
      <4>2. thread_epoch_index'[t] = thread_epochs_count
        BY <1>1 DEF InitThreadEpoch
      <4>3. CASE u = t \/ v = t
        BY <3>2, <4>1, <4>2, <4>3
      <4>4. CASE u # t /\ v # t
        BY <1>1, <3>2, <4>4 DEF InitThreadEpoch, SlotsAreOwned
      <4> QED
        BY <4>3, <4>4
    <3>3. \A u \in Threads : pc'[u] \notin {"idle", "joined"} =>
                                thread_epoch_index'[u] # -1
      BY <1>1 DEF InitThreadEpoch, SlotsAreOwned
    <3> QED
      BY <3>1, <3>2, <3>3 DEF SlotsAreOwned
  <2>2. \A u \in Threads : u # t => thread_epoch_index'[u] = thread_epoch_index[u]
    BY <1>1 DEF InitThreadEpoch
  <2>3. ActiveMeansIn' /\ ActiveAheadOfGC'
    BY <1>1, <2>2 DEF InitThreadEpoch, ActiveMeansIn, ActiveAheadOfGC
  <2>4. EpochsAreOrdered' /\ PendingEntry' /\ PendingLoad'
    BY <1>1, <2>2 DEF InitThreadEpoch, EpochsAreOrdered, PendingEntry, PendingLoad
  <2>5. ScanInvariant'
    BY <1>1, <2>2 DEF InitThreadEpoch, ScanInvariant
  <2> QED
    BY <2>1, <2>3, <2>4, <2>5
<1>2. ASSUME NEW t \in Threads, EnterLoadStatus(t) PROVE EpochInvariant'
  <2>1. SlotsAreOwned'
    BY <1>2 DEF EnterLoadStatus, SlotsAreOwned
  <2>2. PendingLoad'
    BY <1>2 DEF EnterLoadStatus, PendingLoad, EpochsAreOrdered
  <2>3. ActiveMeansIn' /\ ActiveAheadOfGC'
    BY <1>2 DEF EnterLoadStatus, ActiveMeansIn, ActiveAheadOfGC
  <2>4. EpochsAreOrdered' /\ PendingEntry'
    BY <1>2 DEF EnterLoadStatus, EpochsAreOrdered, PendingEntry
  <2>5. ScanInvariant'
    BY <1>2 DEF EnterLoadStatus, ScanInvariant
  <2> QED
    BY <2>1, <2>2, <2>3, <2>4, <2>5
<1>3. ASSUME NEW t \in Threads, EnterLoadGlobal(t) PROVE EpochInvariant'
  <2>1. PendingEntry'
    BY <1>3 DEF EnterLoadGlobal, PendingEntry, PendingLoad, EpochsAreOrdered,
       ScanInvariant
  <2>2. SlotsAreOwned' /\ ActiveMeansIn' /\ ActiveAheadOfGC'
    <3>1. SlotsAreOwned'
      BY <1>3 DEF EnterLoadGlobal, SlotsAreOwned
    <3>2. ActiveMeansIn'
      BY <1>3 DEF EnterLoadGlobal, ActiveMeansIn
    <3>3. ActiveAheadOfGC'
      BY <1>3 DEF EnterLoadGlobal, ActiveAheadOfGC
    <3> QED
      BY <3>1, <3>2, <3>3
  <2>3. EpochsAreOrdered' /\ PendingLoad'
    BY <1>3 DEF EnterLoadGlobal, EpochsAreOrdered, PendingLoad
  <2>4. ScanInvariant'
    BY <1>3 DEF EnterLoadGlobal, ScanInvariant
  <2> QED
    BY <2>1, <2>2, <2>3, <2>4
<1>4. ASSUME NEW t \in Threads, EnterCas(t) PROVE EpochInvariant'
  <2> USE DEF EnterCas, EnterCanAnnounce
  <2>1. thread_epoch_index[t] \in Slots
    BY <1>4 DEF SlotsAreOwned
  <2>2. SlotOf(t)' = Active(new_local_epoch[t])
    BY <1>4, <2>1
  <2>3. \A u \in Threads : u # t => SlotOf(u)' = SlotOf(u)
    BY <1>4, <2>1, SlotsAreDistinct
  <2>4. gc_epoch < new_local_epoch[t] /\ new_local_epoch[t] <= global_epoch
    BY <1>4 DEF PendingEntry
  <2>5. SlotsAreOwned'
    BY <1>4 DEF SlotsAreOwned
  <2>6. ActiveMeansIn'
    <3>1. \A u \in InEpoch' : SlotOf(u)'.active
      <4> TAKE u \in InEpoch'
      <4>1. CASE u = t
        BY <2>2, <4>1
      <4>2. CASE u # t
        <5>1. u \in InEpoch /\ SlotOf(u)' = SlotOf(u)
          BY <1>4, <2>3, <4>2
        <5> QED
          BY <5>1 DEF ActiveMeansIn
      <4> QED
        BY <4>1, <4>2
    <3>2. ASSUME NEW s \in Slots, epoch_status'[s].active
          PROVE  \E u \in InEpoch' : thread_epoch_index'[u] = s
      <4>1. CASE s = thread_epoch_index[t]
        BY <1>4, <4>1
      <4>2. CASE s # thread_epoch_index[t]
        <5>1. epoch_status[s].active
          BY <1>4, <3>2, <4>2
        <5>2. PICK u \in InEpoch : thread_epoch_index[u] = s
          BY <5>1 DEF ActiveMeansIn
        <5>3. u \in InEpoch' /\ thread_epoch_index'[u] = s
          BY <1>4, <4>2, <5>2
        <5> QED
          BY <5>3
      <4> QED
        BY <4>1, <4>2
    <3> QED
      BY <3>1, <3>2 DEF ActiveMeansIn
  <2>7. EpochsAreOrdered'
    BY <1>4, <2>4 DEF EpochsAreOrdered
  <2>8. PendingEntry' /\ PendingLoad'
    BY <1>4, <2>3 DEF PendingEntry, PendingLoad
  <2>9. ScanInvariant'
    <3>1. ASSUME NEW u \in Threads, Passed(u)', u \in InEpoch'
          PROVE  min_epoch' <= SlotOf(u)'.epoch
      <4>1. CASE u = t
        BY <1>4, <2>2, <3>1, <4>1 DEF PendingEntry
      <4>2. CASE u # t
        BY <1>4, <2>3, <3>1, <4>2 DEF ScanInvariant
      <4> QED
        BY <4>1, <4>2
    <3>2. mpc' = "cas" => \/ epoch_status'[scan'] = Inactive(slot_epoch')
                          \/ gc_epoch' < epoch_status'[scan'].epoch
      BY <1>4, <2>1, <2>4 DEF ScanInvariant
    <3> QED
      BY <1>4, <3>1, <3>2 DEF ScanInvariant
  <2>10. ActiveAheadOfGC'
    <3> SUFFICES ASSUME NEW u \in InEpoch' PROVE gc_epoch < SlotOf(u)'.epoch
      BY <1>4 DEF ActiveAheadOfGC
    <3>1. CASE u = t
      BY <2>2, <2>4, <3>1
    <3>2. CASE u # t
      BY <1>4, <2>3, <3>2 DEF ActiveAheadOfGC
    <3> QED
      BY <3>1, <3>2
  <2> QED
    BY <2>5, <2>6, <2>7, <2>8, <2>9, <2>10
<1>5. ASSUME NEW t \in Threads, EnterCasFails(t) PROVE EpochInvariant'
  <2>1. PendingLoad'
    BY <1>5 DEF EnterCasFails, PendingLoad, EpochsAreOrdered, SlotsAreOwned
  <2>2. PendingEntry'
    BY <1>5 DEF EnterCasFails, PendingEntry
  <2>3. SlotsAreOwned' /\ EpochsAreOrdered'
    BY <1>5 DEF EnterCasFails, SlotsAreOwned, EpochsAreOrdered
  <2>4. ActiveMeansIn' /\ ActiveAheadOfGC'
    BY <1>5 DEF EnterCasFails, ActiveMeansIn, ActiveAheadOfGC
  <2>5. ScanInvariant'
    BY <1>5 DEF EnterCasFails, ScanInvariant
  <2> QED
    BY <2>1, <2>2, <2>3, <2>4, <2>5
<1>6. ASSUME NEW t \in Threads, ExitCas(t) PROVE EpochInvariant'
  <2> USE DEF ExitCas
  <2>1. thread_epoch_index[t] \in Slots
    BY <1>6 DEF SlotsAreOwned
  <2>2. SlotOf(t)' = Inactive(SlotOf(t).epoch)
    BY <1>6, <2>1
  <2>3. \A u \in Threads : u # t => SlotOf(u)' = SlotOf(u)
    BY <1>6, <2>1, SlotsAreDistinct
  <2>4. SlotsAreOwned'
    BY <1>6 DEF SlotsAreOwned
  <2>5. ActiveMeansIn'
    BY <1>6, <2>1, <2>2, <2>3 DEF ActiveMeansIn
  <2>6. EpochsAreOrdered'
    BY <1>6, <2>1 DEF EpochsAreOrdered
  <2>7. PendingEntry' /\ PendingLoad'
    BY <1>6, <2>3 DEF PendingEntry, PendingLoad
  <2>8. ScanInvariant'
    BY <1>6, <2>1, <2>3 DEF ScanInvariant, ActiveAheadOfGC
  <2>9. ActiveAheadOfGC'
    BY <1>6, <2>3 DEF ActiveAheadOfGC
  <2> QED
    BY <2>4, <2>5, <2>6, <2>7, <2>8, <2>9
<1>7. ASSUME NEW t \in Threads, ExitLoadGc(t) PROVE EpochInvariant'
  <2>1. EpochsAreOrdered'
    BY <1>7 DEF ExitLoadGc, EpochsAreOrdered
  <2>2. SlotsAreOwned' /\ PendingEntry' /\ PendingLoad'
    BY <1>7 DEF ExitLoadGc, SlotsAreOwned, PendingEntry, PendingLoad
  <2>3. ActiveMeansIn' /\ ActiveAheadOfGC'
    BY <1>7 DEF ExitLoadGc, ActiveMeansIn, ActiveAheadOfGC
  <2>4. ScanInvariant'
    BY <1>7 DEF ExitLoadGc, ScanInvariant
  <2> QED
    BY <2>1, <2>2, <2>3, <2>4
<1>8. ASSUME NEW t \in Threads, ReclaimDone(t) PROVE EpochInvariant'
  <2>1. EpochsAreOrdered'
    BY <1>8 DEF ReclaimDone, EpochsAreOrdered
  <2>2. SlotsAreOwned' /\ PendingEntry' /\ PendingLoad'
    BY <1>8 DEF ReclaimDone, SlotsAreOwned, PendingEntry, PendingLoad
  <2>3. ActiveMeansIn' /\ ActiveAheadOfGC'
    BY <1>8 DEF ReclaimDone, ActiveMeansIn, ActiveAheadOfGC
  <2>4. ScanInvariant'
    BY <1>8 DEF ReclaimDone, ScanInvariant
  <2> QED
    BY <2>1, <2>2, <2>3, <2>4
<1>9. ASSUME NEW t \in Threads, Leave(t) PROVE EpochInvariant'
  <2>1. SlotsAreOwned' /\ EpochsAreOrdered'
    BY <1>9 DEF Leave, SlotsAreOwned, EpochsAreOrdered
  <2>2. PendingEntry' /\ PendingLoad'
    BY <1>9 DEF Leave, PendingEntry, PendingLoad
  <2>3. ActiveMeansIn' /\ ActiveAheadOfGC'
    BY <1>9 DEF Leave, ActiveMeansIn, ActiveAheadOfGC
  <2>4. ScanInvariant'
    BY <1>9 DEF Leave, ScanInvariant
  <2> QED
    BY <2>1, <2>2, <2>3, <2>4
<1>10. ASSUME BeginAdvance PROVE EpochInvariant'
  <2>1. EpochsAreOrdered'
    BY <1>10 DEF BeginAdvance, EpochsAreOrdered
  <2>2. PendingEntry' /\ PendingLoad'
    BY <1>10 DEF BeginAdvance, PendingEntry, PendingLoad
  <2>3. ScanInvariant'
    BY <1>10 DEF BeginAdvance, ScanInvariant, EpochsAreOrdered
  <2> QED
    BY <1>10, <2>1, <2>2, <2>3 DEF BeginAdvance, SlotsAreOwned, ActiveMeansIn,
       ActiveAheadOfGC
<1>11. ASSUME LoadCount PROVE EpochInvariant'
  <2>1. \A t \in Threads : ~Passed(t)'
    <3>1. \A t \in Threads : thread_epoch_index[t] < thread_epochs_count
      BY DEF SlotsAreOwned
    <3>2. scan' = thread_epochs_count - 1 /\ thread_epoch_index' = thread_epoch_index
      BY <1>11 DEF LoadCount, FirstToScan
    <3> QED
      BY <1>0, <3>1, <3>2
  <2>2. PendingEntry' /\ ScanInvariant'
    BY <1>11, <2>1 DEF LoadCount, PendingEntry, ScanInvariant
  <2> QED
    BY <1>11, <2>2 DEF LoadCount, SlotsAreOwned, ActiveMeansIn, EpochsAreOrdered,
       PendingLoad, ActiveAheadOfGC
<1>12. ASSUME LoadSlot PROVE EpochInvariant'
  <2>1. scan \in Slots
    BY <1>12 DEF LoadSlot
  <2>2. epoch_status[scan] = Inactive(epoch_status[scan].epoch)
          \/ gc_epoch < epoch_status[scan].epoch
    <3>1. CASE epoch_status[scan].active
      BY <2>1, <3>1 DEF ActiveMeansIn, ActiveAheadOfGC
    <3>2. CASE ~epoch_status[scan].active
      BY <2>1, <3>2
    <3> QED
      BY <3>1, <3>2
  <2>3. ScanInvariant'
    BY <1>12, <2>1, <2>2 DEF LoadSlot, ScanInvariant
  <2> QED
    BY <1>12, <2>3 DEF LoadSlot, SlotsAreOwned, ActiveMeansIn, EpochsAreOrdered,
       PendingEntry, PendingLoad, ActiveAheadOfGC
<1>13. ASSUME BumpSlot PROVE EpochInvariant'
  <2> USE DEF BumpSlot, SlotIsIdle
  <2>1. scan \in Slots /\ ~epoch_status[scan].active /\ cur_glb_epoch = global_epoch
        /\ gc_epoch < min_epoch /\ min_epoch < cur_glb_epoch
    BY <1>13 DEF ScanInvariant
  <2>2. \A t \in Threads : thread_epoch_index[t] # scan => SlotOf(t)' = SlotOf(t)
    BY <1>13, <2>1
  <2>3. \A t \in InEpoch : thread_epoch_index[t] # scan
    BY <2>1 DEF ActiveMeansIn
  <2>4. ActiveMeansIn' /\ ActiveAheadOfGC'
    BY <1>13, <2>1, <2>2, <2>3 DEF ActiveMeansIn, ActiveAheadOfGC
  <2>5. EpochsAreOrdered'
    BY <1>13, <2>1 DEF EpochsAreOrdered
  <2>6. PendingEntry'
    <3> SUFFICES ASSUME NEW t \in Threads, pc[t] = "enter_cas", StatusIsCurrent(t)'
                 PROVE  /\ gc_epoch < new_local_epoch[t]
                        /\ Passed(t)' => min_epoch <= new_local_epoch[t]
      BY <1>13 DEF PendingEntry
    <3>1. CASE thread_epoch_index[t] = scan
      <4>1. old_local_epoch[t].epoch = cur_glb_epoch
        BY <1>13, <2>1, <3>1
      <4>2. old_local_epoch[t].epoch <= new_local_epoch[t]
        BY DEF PendingEntry
      <4> QED
        BY <2>1, <4>1, <4>2
    <3>2. CASE thread_epoch_index[t] # scan
      <4>1. StatusIsCurrent(t)
        BY <1>13, <2>1, <2>2, <3>2
      <4>2. /\ gc_epoch < new_local_epoch[t]
            /\ Passed(t) => min_epoch <= new_local_epoch[t]
        BY <4>1 DEF PendingEntry
      <4>3. Passed(t)' => Passed(t)
        BY <1>0, <1>13, <2>1, <3>2
      <4> QED
        BY <4>2, <4>3
    <3> QED
      BY <3>1, <3>2
  <2>7. ScanInvariant'
    <3>1. ASSUME NEW t \in Threads, Passed(t)', t \in InEpoch
          PROVE  min_epoch <= SlotOf(t).epoch
      <4>1. thread_epoch_index[t] # scan
        BY <2>3, <3>1
      <4>2. thread_epoch_index[t] > scan
        BY <1>0, <1>13, <2>1, <3>1, <4>1
      <4> QED
        BY <1>13, <3>1, <4>2 DEF ScanInvariant
    <3>2. \A t \in InEpoch : SlotOf(t)' = SlotOf(t)
      BY <2>2, <2>3
    <3>3. mpc' = "load" /\ UNCHANGED <<gc_epoch, min_epoch, cur_glb_epoch, global_epoch>>
      BY <1>13
    <3> QED
      BY <1>13, <2>1, <3>1, <3>2, <3>3 DEF ScanInvariant
  <2> QED
    BY <1>13, <2>4, <2>5, <2>6, <2>7 DEF SlotsAreOwned, PendingLoad
<1>14. ASSUME NoteSlot PROVE EpochInvariant'
  <2> USE DEF NoteSlot, SlotIsIdle
  <2>1. scan \in Slots /\ gc_epoch < epoch_status[scan].epoch /\ gc_epoch < min_epoch
    BY <1>14 DEF ScanInvariant
  <2>2. /\ gc_epoch < min_epoch'
        /\ min_epoch' <= min_epoch
        /\ min_epoch' <= epoch_status[scan].epoch
    BY <1>14, <2>1 DEF Lower
  <2>3. min_epoch' \in Nat
    BY <1>14, <2>1 DEF Lower
  <2>4. PendingEntry'
    <3> SUFFICES ASSUME NEW t \in Threads, pc[t] = "enter_cas", StatusIsCurrent(t),
                        Passed(t)'
                 PROVE  min_epoch' <= new_local_epoch[t]
      BY <1>14 DEF PendingEntry
    <3>1. CASE thread_epoch_index[t] = scan
      BY <2>1, <2>2, <2>3, <3>1 DEF PendingEntry
    <3>2. CASE thread_epoch_index[t] # scan
      <4>1. thread_epoch_index[t] > scan
        BY <1>0, <1>14, <2>1, <3>2
      <4>2. min_epoch <= new_local_epoch[t]
        BY <1>14, <4>1 DEF PendingEntry
      <4> QED
        BY <2>2, <2>3, <4>2
    <3> QED
      BY <3>1, <3>2
  <2>5. ScanInvariant'
    <3>1. ASSUME NEW t \in Threads, Passed(t)', t \in InEpoch
          PROVE  min_epoch' <= SlotOf(t).epoch
      <4>1. CASE thread_epoch_index[t] = scan
        BY <2>2, <4>1
      <4>2. CASE thread_epoch_index[t] # scan
        <5>1. thread_epoch_index[t] \in Slots
          BY <3>1 DEF SlotsAreOwned
        <5>2. thread_epoch_index[t] > scan
          BY <1>0, <1>14, <2>1, <3>1, <4>2
        <5>3. min_epoch <= SlotOf(t).epoch
          BY <1>14, <3>1, <5>2 DEF ScanInvariant
        <5> QED
          BY <2>2, <2>3, <5>1, <5>3
      <4> QED
        BY <4>1, <4>2
    <3> QED
      BY <1>14, <2>1, <2>2, <2>3, <3>1 DEF ScanInvariant
  <2> QED
    BY <1>14, <2>4, <2>5 DEF SlotsAreOwned, ActiveMeansIn, EpochsAreOrdered, PendingLoad,
       ActiveAheadOfGC
<1>15. ASSUME StoreGc PROVE EpochInvariant'
  <2> USE DEF StoreGc, GcTarget
  <2>1. gc_epoch < min_epoch /\ min_epoch < global_epoch /\ gc_epoch' = min_epoch - 1
    BY <1>15 DEF ScanInvariant
  <2>2. \A t \in Threads : pc[t] \notin {"idle", "joined"} => Passed(t)
    BY <1>15 DEF SlotsAreOwned
  <2>3. EpochsAreOrdered'
    BY <1>15, <2>1 DEF EpochsAreOrdered
  <2>4. PendingEntry'
    <3> SUFFICES ASSUME NEW t \in Threads, pc[t] = "enter_cas", StatusIsCurrent(t)
                 PROVE  gc_epoch' < new_local_epoch[t]
      BY <1>15 DEF PendingEntry
    <3>1. min_epoch <= new_local_epoch[t]
      BY <2>2 DEF PendingEntry
    <3> QED
      BY <2>1, <3>1
  <2>5. ActiveAheadOfGC'
    <3> SUFFICES ASSUME NEW t \in Threads, pc[t] = "in"
                 PROVE  gc_epoch' < SlotOf(t).epoch
      BY <1>15 DEF ActiveAheadOfGC
    <3>1. thread_epoch_index[t] \in Slots
      BY DEF SlotsAreOwned
    <3>2. min_epoch <= SlotOf(t).epoch
      BY <2>2 DEF ScanInvariant
    <3> QED
      BY <2>1, <3>1, <3>2
  <2> QED
    BY <1>15, <2>3, <2>4, <2>5 DEF SlotsAreOwned, ActiveMeansIn, PendingLoad,
       ScanInvariant
<1>16. ASSUME MaintainerStops PROVE EpochInvariant'
  BY <1>16 DEF MaintainerStops, SlotsAreOwned, ActiveMeansIn, EpochsAreOrdered,
     PendingEntry, PendingLoad, ScanInvariant, ActiveAheadOfGC
<1>17. ASSUME NEW t \in Threads, NEW n \in Nodes, GetNode(t, n) \/ Retire(t, n)
       PROVE  UNCHANGED epochVars
  BY <1>17 DEF GetNode, Retire, epochVars
<1>18. ASSUME NEW t \in Threads, Reclaim(t) PROVE UNCHANGED epochVars
  BY <1>18 DEF Reclaim, epochVars
<1>19. ASSUME Destroy PROVE UNCHANGED epochVars
  BY <1>19 DEF Destroy, DestroyDrain, DestroyStop, epochVars
<1>20. ASSUME UNCHANGED vars PROVE UNCHANGED epochVars
  BY <1>20 DEF vars, epochVars
<1> QED
  BY <1>1, <1>2, <1>3, <1>4, <1>5, <1>6, <1>7, <1>8, <1>9, <1>10, <1>11, <1>12,
     <1>13, <1>14, <1>15, <1>16, <1>17, <1>18, <1>19, <1>20, EpochFrame
     DEF Next, Thread, Maintainer, Terminated

\* The types and the epochs, from the initial state on.
LEMMA InitOK == Init => TypeOK /\ EpochInvariant
BY DEF Init, TypeOK, EpochInvariant, Slots, Status, Inactive, SlotsAreOwned,
       ActiveMeansIn, EpochsAreOrdered, PendingEntry, PendingLoad, ScanInvariant,
       ActiveAheadOfGC, Passed, InEpoch

\* Every variable keeps its type: in particular no thread writes a slot it
\* does not own, the scan stays inside the slots, and gc_epoch_ never becomes
\* negative.
THEOREM TypeCorrect == Spec => []TypeOK
<1>1. TypeOK /\ EpochInvariant /\ [Next]_vars => (TypeOK /\ EpochInvariant)'
  BY TypeStep, EpochStep
<1> QED
  BY <1>1, InitOK, PTL DEF Spec

\* The maintainer's scan and the CAS of enter_epoch() never miss each other.
THEOREM EpochsCorrect == Spec => []EpochInvariant
<1>1. TypeOK /\ EpochInvariant /\ [Next]_vars => (TypeOK /\ EpochInvariant)'
  BY TypeStep, EpochStep
<1> QED
  BY <1>1, InitOK, PTL DEF Spec

\* No thread is ever in a region with an epoch that is already collected.
THEOREM EpochsInUseAreNotCollected == Spec => []ActiveAheadOfGC
<1>1. EpochInvariant => ActiveAheadOfGC
  BY DEF EpochInvariant
<1> QED
  BY <1>1, EpochsCorrect, PTL

\* The assert at the end of advance_epoch() never fails.
THEOREM MinEpochAssertHolds == Spec => []MinEpochPositive
<1>1. TypeOK /\ EpochInvariant => MinEpochPositive
  BY DEF TypeOK, EpochInvariant, ScanInvariant, MinEpochPositive
<1> QED
  BY <1>1, TypeCorrect, EpochsCorrect, PTL

\* gc_epoch_ never moves back.
THEOREM GcIsMonotone == Spec => GcNeverMovesBack
<1>1. TypeOK /\ EpochInvariant /\ [Next]_vars => [gc_epoch <= gc_epoch']_vars
  <2> SUFFICES ASSUME TypeOK, EpochInvariant, Next
               PROVE  gc_epoch <= gc_epoch'
    OBVIOUS
  <2>1. CASE StoreGc
    BY <2>1 DEF TypeOK, EpochInvariant, ScanInvariant, StoreGc, GcTarget
  <2>2. CASE UNCHANGED gc_epoch
    BY <2>2 DEF TypeOK
  <2> QED
    BY <2>1, <2>2 DEF Next, Thread, Maintainer, Destroy, Terminated, vars, shared,
       InitThreadEpoch, EnterLoadStatus, EnterLoadGlobal, EnterCas, EnterCasFails,
       GetNode, Retire, ExitCas, ExitLoadGc, Reclaim, ReclaimDone, Leave,
       BeginAdvance, LoadCount, LoadSlot, BumpSlot, NoteSlot, MaintainerStops,
       DestroyDrain, DestroyStop
<1> QED
  BY <1>1, TypeCorrect, EpochsCorrect, PTL DEF Spec, GcNeverMovesBack

-----------------------------------------------------------------------------
(* The retire lists *)

LEMMA AppendedRecord ==
    ASSUME NEW q \in Seq(Record), NEW r \in Record
    PROVE  /\ DOMAIN Append(q, r) = (DOMAIN q) \cup {Len(q) + 1}
           /\ Len(q) + 1 \notin DOMAIN q
           /\ \A k \in DOMAIN q : Append(q, r)[k] = q[k]
           /\ Append(q, r)[Len(q) + 1] = r
           /\ DOMAIN q \subseteq Nat
           /\ \A k \in DOMAIN q : k < Len(q) + 1
OBVIOUS

LEMMA PoppedRecord ==
    ASSUME NEW q \in Seq(Record), q # <<>>
    PROVE  /\ 1 \in DOMAIN q
           /\ Head(q) = q[1]
           /\ DOMAIN q \subseteq Nat
           /\ \A k \in DOMAIN Tail(q) : /\ k \in Nat \ {0}
                                        /\ k + 1 \in DOMAIN q
                                        /\ Tail(q)[k] = q[k + 1]
           /\ \A k \in DOMAIN q : k # 1 => /\ k - 1 \in DOMAIN Tail(q)
                                           /\ Tail(q)[k - 1] = q[k]
OBVIOUS

LEMMA RecordsAreTyped ==
    ASSUME TypeOK, NEW s \in Slots, NEW k \in DOMAIN retire_list[s]
    PROVE  retire_list[s][k].ptr \in Nodes /\ retire_list[s][k].epoch \in Nat
<1>1. retire_list[s] \in Seq(Record)
  BY DEF TypeOK
<1>2. retire_list[s][k] \in Record
  BY <1>1
<1> QED
  BY <1>2 DEF Record

\* Releasing the oldest record of slot s.
Pop(s) ==
    /\ retire_list[s] # <<>>
    /\ released' = released \cup {Head(retire_list[s]).ptr}
    /\ retire_list' = [retire_list EXCEPT ![s] = Tail(@)]
    /\ UNCHANGED <<global_epoch, epoch_status, thread_epoch_index, pc, blockers>>

\* What RetireInvariant depends on.
retireVars == <<global_epoch, epoch_status, retire_list, released,
                thread_epoch_index, pc, blockers>>

LEMMA PopKeepsRecords ==
    ASSUME TypeOK, RetireInvariant, NEW s \in Slots, Pop(s)
    PROVE  /\ RetireInvariant'
           /\ RetiredNodes' = RetiredNodes \ {Head(retire_list[s]).ptr}
           /\ Head(retire_list[s]).ptr \in RetiredNodes
<1> DEFINE q == retire_list[s]
           n == Head(q).ptr
<1>1. q \in Seq(Record) /\ q # <<>>
  BY DEF TypeOK, Pop
<1>2. /\ retire_list'[s] = Tail(q)
      /\ \A r \in Slots : r # s => retire_list'[r] = retire_list[r]
  BY DEF TypeOK, Pop
<1>3. /\ 1 \in DOMAIN q
      /\ n = q[1].ptr
      /\ DOMAIN q \subseteq Nat
      /\ \A k \in DOMAIN Tail(q) : k \in Nat \ {0} /\ k + 1 \in DOMAIN q
                                    /\ Tail(q)[k] = q[k + 1]
      /\ \A k \in DOMAIN q : k # 1 => /\ k - 1 \in DOMAIN Tail(q)
                                      /\ Tail(q)[k - 1] = q[k]
  BY <1>1, PoppedRecord
<1> HIDE DEF q
<1>4. n \in RetiredNodes
  <2>1. q[1] \in Record
    BY <1>1, <1>3
  <2>2. n \in Nodes
    BY <1>3, <2>1 DEF Record
  <2> QED
    BY <1>3, <2>2 DEF RetiredNodes, q
<1>5. \A r \in Slots : \A k \in DOMAIN retire_list'[r] : \E j \in DOMAIN retire_list[r] :
        /\ retire_list'[r][k] = retire_list[r][j]
        /\ retire_list[r][j].ptr # n
        /\ j = IF r = s THEN k + 1 ELSE k
  <2> TAKE r \in Slots
  <2> TAKE k \in DOMAIN retire_list'[r]
  <2>1. CASE r = s
    <3>1. k \in Nat \ {0} /\ k + 1 \in DOMAIN q /\ Tail(q)[k] = q[k + 1]
      BY <1>2, <1>3, <2>1
    <3>2. k + 1 # 1
      BY <3>1
    <3>3. q[k + 1].ptr # n
      BY <1>3, <3>1, <3>2, <2>1 DEF RetireInvariant, EachNodeInOnePlace, q
    <3> QED
      BY <1>2, <2>1, <3>1, <3>3 DEF q
  <2>2. CASE r # s
    BY <1>2, <1>3, <2>2 DEF RetireInvariant, EachNodeInOnePlace, q
  <2> QED
    BY <2>1, <2>2
<1>6. \A r \in Slots : DOMAIN retire_list[r] \subseteq Nat /\ DOMAIN retire_list'[r] \subseteq Nat
  <2> TAKE r \in Slots
  <2>1. retire_list[r] \in Seq(Record)
    BY DEF TypeOK
  <2>2. DOMAIN retire_list[r] = 1 .. Len(retire_list[r]) /\ Len(retire_list[r]) \in Nat
    BY <2>1
  <2>3. DOMAIN retire_list[r] \subseteq Nat
    BY <2>2
  <2> QED
    BY <1>2, <1>3, <2>3
<1>7. RetiredNodes' = RetiredNodes \ {n}
  <2>1. ASSUME NEW m \in RetiredNodes' PROVE m \in RetiredNodes \ {n}
    BY <1>5, <2>1 DEF RetiredNodes
  <2>2. ASSUME NEW m \in RetiredNodes, m # n PROVE m \in RetiredNodes'
    <3>0. PICK r \in Slots : \E k \in DOMAIN retire_list[r] : retire_list[r][k].ptr = m
      BY <2>2 DEF RetiredNodes
    <3>1. PICK k \in DOMAIN retire_list[r] : retire_list[r][k].ptr = m
      BY <3>0
    <3>2. CASE r = s
      <4>1. k # 1
        BY <1>3, <2>2, <3>1, <3>2 DEF q
      <4>2. k - 1 \in DOMAIN retire_list'[s] /\ retire_list'[s][k - 1].ptr = m
        BY <1>2, <1>3, <3>1, <3>2, <4>1 DEF q
      <4> QED
        BY <2>2, <4>2 DEF RetiredNodes
    <3>3. CASE r # s
      BY <1>2, <2>2, <3>1, <3>3 DEF RetiredNodes
    <3> QED
      BY <3>2, <3>3
  <2> QED
    BY <2>1, <2>2
<1>8. RecordsAreNotAhead'
  BY <1>5 DEF Pop, RetireInvariant, RecordsAreNotAhead
<1>9. RecordsInOrder'
  <2> SUFFICES ASSUME NEW r \in Slots, NEW k1 \in DOMAIN retire_list'[r],
                      NEW k2 \in DOMAIN retire_list'[r], k1 <= k2
               PROVE  retire_list'[r][k1].epoch <= retire_list'[r][k2].epoch
    BY DEF RecordsInOrder
  <2>1. PICK j1 \in DOMAIN retire_list[r] :
          retire_list'[r][k1] = retire_list[r][j1] /\ j1 = IF r = s THEN k1 + 1 ELSE k1
    BY <1>5
  <2>2. PICK j2 \in DOMAIN retire_list[r] :
          retire_list'[r][k2] = retire_list[r][j2] /\ j2 = IF r = s THEN k2 + 1 ELSE k2
    BY <1>5
  <2>3. j1 <= j2
    BY <1>6, <2>1, <2>2
  <2> QED
    BY <2>1, <2>2, <2>3 DEF RetireInvariant, RecordsInOrder
<1>10. RecordCoversBlockers'
  BY <1>5 DEF Pop, RetireInvariant, RecordCoversBlockers, InEpoch, SlotOf
<1>11. EachNodeInOnePlace'
  <2>1. RetiredNodes' \cap released' = {}
    BY <1>7 DEF Pop, RetireInvariant, EachNodeInOnePlace, q
  <2>2. ASSUME NEW r1 \in Slots, NEW r2 \in Slots, NEW k1 \in DOMAIN retire_list'[r1],
               NEW k2 \in DOMAIN retire_list'[r2],
               retire_list'[r1][k1].ptr = retire_list'[r2][k2].ptr
        PROVE  r1 = r2 /\ k1 = k2
    <3>1. PICK j1 \in DOMAIN retire_list[r1] :
            /\ retire_list'[r1][k1] = retire_list[r1][j1]
            /\ j1 = IF r1 = s THEN k1 + 1 ELSE k1
      BY <1>5
    <3>2. PICK j2 \in DOMAIN retire_list[r2] :
            /\ retire_list'[r2][k2] = retire_list[r2][j2]
            /\ j2 = IF r2 = s THEN k2 + 1 ELSE k2
      BY <1>5
    <3>3. r1 = r2 /\ j1 = j2
      BY <2>2, <3>1, <3>2 DEF RetireInvariant, EachNodeInOnePlace
    <3> QED
      BY <1>6, <3>1, <3>2, <3>3
  <2> QED
    BY <2>1, <2>2 DEF EachNodeInOnePlace
<1> QED
  BY <1>4, <1>7, <1>8, <1>9, <1>10, <1>11 DEF RetireInvariant, q

LEMMA RetireKeepsRecords ==
    ASSUME TypeOK, EpochInvariant, RetireInvariant,
           NEW t \in Threads, NEW n \in Nodes, Retire(t, n)
    PROVE  /\ RetireInvariant'
           /\ RetiredNodes' = RetiredNodes \cup {n}
<1> DEFINE i == thread_epoch_index[t]
           q == retire_list[i]
           rec == [ptr |-> n, epoch |-> global_epoch]
<1>1. i \in Slots
  BY DEF Retire, TypeOK, EpochInvariant, SlotsAreOwned
<1>2. q \in Seq(Record) /\ rec \in Record
  BY <1>1 DEF TypeOK, Record
<1>3. /\ retire_list'[i] = Append(q, rec)
      /\ \A r \in Slots : r # i => retire_list'[r] = retire_list[r]
  BY <1>1 DEF TypeOK, Retire, RetireEpoch, PushRecord
<1>4. /\ DOMAIN Append(q, rec) = (DOMAIN q) \cup {Len(q) + 1}
      /\ Len(q) + 1 \notin DOMAIN q
      /\ \A k \in DOMAIN q : Append(q, rec)[k] = q[k]
      /\ Append(q, rec)[Len(q) + 1] = rec
      /\ DOMAIN q \subseteq Nat
      /\ \A k \in DOMAIN q : k < Len(q) + 1
  BY <1>2, AppendedRecord
<1>5. Len(q) \in Nat
  BY <1>2
<1> DEFINE last == Len(q) + 1
<1> HIDE DEF q, rec, last
<1>6. rec.ptr = n /\ rec.epoch = global_epoch
  BY DEF rec
<1>7. n \notin RetiredNodes /\ n \notin released
  BY DEF Retire
<1>8. \A r \in Slots : \A k \in DOMAIN retire_list'[r] :
        \/ k \in DOMAIN retire_list[r] /\ retire_list'[r][k] = retire_list[r][k]
              /\ retire_list[r][k].ptr # n
        \/ r = i /\ k = last /\ retire_list'[r][k] = rec
  BY <1>1, <1>3, <1>4, <1>7 DEF RetiredNodes, q, last
<1>9. /\ \A r \in Slots : \A k \in DOMAIN retire_list[r] :
            k \in DOMAIN retire_list'[r] /\ retire_list'[r][k] = retire_list[r][k]
      /\ last \in DOMAIN retire_list'[i] /\ retire_list'[i][last] = rec
  BY <1>1, <1>3, <1>4 DEF q, last
<1>10. RetiredNodes' = RetiredNodes \cup {n}
  <2>1. ASSUME NEW m \in RetiredNodes' PROVE m \in RetiredNodes \cup {n}
    BY <1>6, <1>8, <2>1 DEF RetiredNodes
  <2>2. RetiredNodes \subseteq RetiredNodes'
    BY <1>9 DEF RetiredNodes
  <2>3. n \in RetiredNodes'
    BY <1>1, <1>6, <1>9 DEF RetiredNodes
  <2> QED
    BY <2>1, <2>2, <2>3
<1>11. RecordsAreNotAhead'
  <2>1. global_epoch' = global_epoch /\ global_epoch <= global_epoch
    BY DEF Retire, shared, TypeOK
  <2>2. \A r \in Slots : \A k \in DOMAIN retire_list[r] :
            retire_list[r][k].epoch <= global_epoch
    BY DEF RetireInvariant, RecordsAreNotAhead
  <2>3. ASSUME NEW r \in Slots, NEW k \in DOMAIN retire_list'[r]
        PROVE  retire_list'[r][k].epoch <= global_epoch
    BY <1>6, <1>8, <2>1, <2>2
  <2> QED
    BY <2>1, <2>3 DEF RecordsAreNotAhead
<1>12. RecordsInOrder'
  <2> SUFFICES ASSUME NEW r \in Slots, NEW k1 \in DOMAIN retire_list'[r],
                      NEW k2 \in DOMAIN retire_list'[r], k1 <= k2
               PROVE  retire_list'[r][k1].epoch <= retire_list'[r][k2].epoch
    BY DEF RecordsInOrder
  <2>1. CASE k2 \in DOMAIN retire_list[r] /\ retire_list'[r][k2] = retire_list[r][k2]
    <3>1. ~(r = i /\ k1 = last)
      BY <1>4, <1>5, <2>1 DEF q, last
    <3>2. k1 \in DOMAIN retire_list[r] /\ retire_list'[r][k1] = retire_list[r][k1]
      BY <1>8, <3>1
    <3> QED
      BY <2>1, <3>2 DEF RetireInvariant, RecordsInOrder
  <2>2. CASE r = i /\ k2 = last /\ retire_list'[r][k2] = rec
    <3>1. global_epoch <= global_epoch
      BY DEF TypeOK
    <3>2. retire_list'[r][k1].epoch <= global_epoch
      BY <1>6, <1>8, <3>1 DEF RetireInvariant, RecordsAreNotAhead
    <3> QED
      BY <1>6, <2>2, <3>2
  <2> QED
    BY <1>8, <2>1, <2>2
<1>13. RecordCoversBlockers'
  <2>1. /\ \A m \in Nodes : m # n => blockers'[m] = blockers[m]
        /\ blockers'[n] = InEpoch
        /\ InEpoch' = InEpoch
        /\ \A u \in Threads : SlotOf(u)' = SlotOf(u)
    BY DEF TypeOK, Retire, InEpoch, SlotOf
  <2> SUFFICES ASSUME NEW r \in Slots, NEW k \in DOMAIN retire_list'[r],
                      NEW u \in blockers'[retire_list'[r][k].ptr]
               PROVE  u \in InEpoch /\ SlotOf(u).epoch <= retire_list'[r][k].epoch
    BY <2>1 DEF RecordCoversBlockers, InEpoch
  <2>2. CASE k \in DOMAIN retire_list[r] /\ retire_list'[r][k] = retire_list[r][k]
             /\ retire_list[r][k].ptr # n
    <3>1. retire_list[r][k].ptr \in Nodes
      BY <2>2, RecordsAreTyped
    <3> QED
      BY <2>1, <2>2, <3>1 DEF RetireInvariant, RecordCoversBlockers
  <2>3. CASE r = i /\ k = last /\ retire_list'[r][k] = rec
    <3>1. u \in Threads /\ pc[u] = "in"
      BY <1>6, <2>1, <2>3 DEF InEpoch
    <3>2. thread_epoch_index[u] \in Slots
      BY <3>1 DEF TypeOK, EpochInvariant, SlotsAreOwned
    <3> QED
      BY <1>6, <2>1, <2>3, <3>1, <3>2 DEF EpochInvariant, EpochsAreOrdered, SlotOf, InEpoch
  <2> QED
    BY <1>8, <2>2, <2>3
<1>14. EachNodeInOnePlace'
  <2>1. RetiredNodes' \cap released' = {}
    BY <1>7, <1>10 DEF Retire, RetireInvariant, EachNodeInOnePlace
  <2>2. ASSUME NEW r1 \in Slots, NEW r2 \in Slots, NEW k1 \in DOMAIN retire_list'[r1],
               NEW k2 \in DOMAIN retire_list'[r2],
               retire_list'[r1][k1].ptr = retire_list'[r2][k2].ptr
        PROVE  r1 = r2 /\ k1 = k2
    BY <1>6, <1>8, <2>2 DEF RetireInvariant, EachNodeInOnePlace
  <2> QED
    BY <2>1, <2>2 DEF EachNodeInOnePlace
<1> QED
  BY <1>10, <1>11, <1>12, <1>13, <1>14 DEF RetireInvariant

\* A thread that takes an old record off its list, and destroy(), both pop.
LEMMA ReclaimPops ==
    ASSUME TypeOK, EpochInvariant, NEW t \in Threads, Reclaim(t)
    PROVE  thread_epoch_index[t] \in Slots /\ Pop(thread_epoch_index[t])
BY DEF TypeOK, EpochInvariant, SlotsAreOwned, Reclaim, FrontIsOld, ListOf, Pop, PopRecord,
       shared

LEMMA DrainPops ==
    ASSUME NEW s \in Slots, DestroyDrain(s)
    PROVE  Pop(s)
BY DEF DestroyDrain, Pop, PopRecord, shared

\* Everything else a step can do to the retire lists.
LEMMA RetireStep ==
    ASSUME TypeOK, EpochInvariant, EpochInvariant', RetireInvariant, [Next]_vars
    PROVE  RetireInvariant'
<1> USE DEF shared, RecordsAreNotAhead, RecordsInOrder, RecordCoversBlockers,
            EachNodeInOnePlace, RetiredNodes, SlotOf, InEpoch
<1>1. ASSUME UNCHANGED retireVars PROVE RetireInvariant'
  BY <1>1 DEF RetireInvariant, retireVars
<1>2. ASSUME NEW t \in Threads, InitThreadEpoch(t) PROVE RetireInvariant'
  BY <1>2 DEF InitThreadEpoch, RetireInvariant, TypeOK
<1>3. ASSUME NEW t \in Threads, EnterLoadStatus(t) PROVE RetireInvariant'
  BY <1>3 DEF EnterLoadStatus, RetireInvariant, TypeOK
<1>4. ASSUME NEW t \in Threads, EnterLoadGlobal(t) PROVE RetireInvariant'
  BY <1>4 DEF EnterLoadGlobal, RetireInvariant, TypeOK
<1>5. ASSUME NEW t \in Threads, EnterCas(t) PROVE RetireInvariant'
  <2>1. \A u \in Threads : pc[u] = "in" => SlotOf(u)' = SlotOf(u)
    BY <1>5, SlotsAreDistinct DEF EnterCas, EpochInvariant, SlotsAreOwned, TypeOK
  <2> QED
    BY <1>5, <2>1 DEF EnterCas, RetireInvariant, TypeOK
<1>6. ASSUME NEW t \in Threads, EnterCasFails(t) PROVE RetireInvariant'
  BY <1>6 DEF EnterCasFails, RetireInvariant, TypeOK
<1>7. ASSUME NEW t \in Threads, NEW n \in Nodes, GetNode(t, n) PROVE RetireInvariant'
  BY <1>7 DEF GetNode, RetireInvariant
<1>8. ASSUME NEW t \in Threads, NEW n \in Nodes, Retire(t, n) PROVE RetireInvariant'
  BY <1>8, RetireKeepsRecords
<1>9. ASSUME NEW t \in Threads, ExitCas(t) PROVE RetireInvariant'
  <2>1. \A u \in Threads : u # t /\ pc[u] = "in" => SlotOf(u)' = SlotOf(u)
    BY <1>9, SlotsAreDistinct DEF ExitCas, EpochInvariant, SlotsAreOwned, TypeOK
  <2>2. \A s \in Slots : \A k \in DOMAIN retire_list[s] : retire_list[s][k].ptr \in Nodes
    BY RecordsAreTyped
  <2>3. RecordCoversBlockers'
    BY <1>9, <2>1, <2>2 DEF ExitCas, RetireInvariant, TypeOK
  <2> QED
    BY <1>9, <2>3 DEF ExitCas, RetireInvariant
<1>10. ASSUME NEW t \in Threads, ExitLoadGc(t) PROVE RetireInvariant'
  BY <1>10 DEF ExitLoadGc, RetireInvariant, TypeOK
<1>11. ASSUME NEW t \in Threads, Reclaim(t) PROVE RetireInvariant'
  BY <1>11, ReclaimPops, PopKeepsRecords
<1>12. ASSUME NEW t \in Threads, ReclaimDone(t) PROVE RetireInvariant'
  BY <1>12 DEF ReclaimDone, RetireInvariant, TypeOK
<1>13. ASSUME NEW t \in Threads, Leave(t) PROVE RetireInvariant'
  BY <1>13 DEF Leave, RetireInvariant, TypeOK
<1>14. ASSUME BeginAdvance PROVE RetireInvariant'
  <2>1. \A s \in Slots : \A k \in DOMAIN retire_list[s] : retire_list[s][k].epoch \in Nat
    BY RecordsAreTyped
  <2>2. RecordsAreNotAhead'
    BY <1>14, <2>1 DEF BeginAdvance, RetireInvariant, TypeOK
  <2> QED
    BY <1>14, <2>2 DEF BeginAdvance, RetireInvariant
<1>15. ASSUME BumpSlot PROVE RetireInvariant'
  <2>1. \A u \in Threads : pc[u] = "in" => SlotOf(u)' = SlotOf(u)
    BY <1>15 DEF BumpSlot, SlotIsIdle, EpochInvariant, ActiveMeansIn, SlotsAreOwned, TypeOK, Inactive
  <2> QED
    BY <1>15, <2>1 DEF BumpSlot, RetireInvariant
<1>16. ASSUME LoadCount \/ LoadSlot \/ NoteSlot \/ StoreGc \/ MaintainerStops
       PROVE  UNCHANGED retireVars
  BY <1>16 DEF LoadCount, LoadSlot, NoteSlot, StoreGc, MaintainerStops, retireVars
<1>17. ASSUME NEW s \in Slots, DestroyDrain(s) PROVE RetireInvariant'
  BY <1>17, DrainPops, PopKeepsRecords
<1>18. ASSUME DestroyStop \/ UNCHANGED vars PROVE UNCHANGED retireVars
  BY <1>18 DEF DestroyStop, vars, retireVars
<1> QED
  BY <1>1, <1>2, <1>3, <1>4, <1>5, <1>6, <1>7, <1>8, <1>9, <1>10, <1>11, <1>12,
     <1>13, <1>14, <1>15, <1>16, <1>17, <1>18
     DEF Next, Thread, Maintainer, Destroy, Terminated

\* The lists keep what they promise in every reachable state.
LEMMA AllInvariants == Spec => [](TypeOK /\ EpochInvariant /\ RetireInvariant)
<1>1. Init => RetireInvariant
  BY DEF Init, RetireInvariant, RecordsAreNotAhead, RecordsInOrder, RecordCoversBlockers,
         EachNodeInOnePlace, RetiredNodes
<1>2. TypeOK /\ EpochInvariant /\ RetireInvariant /\ [Next]_vars
        => (TypeOK /\ EpochInvariant /\ RetireInvariant)'
  BY TypeStep, EpochStep, RetireStep
<1> QED
  BY <1>1, <1>2, InitOK, PTL DEF Spec

\* A node is in one retire list at most, once at most, and in none when the
\* allocator has it: no node is released twice for one retirement.
THEOREM NodesAreNeverReleasedTwice == Spec => []EachNodeInOnePlace
<1>1. RetireInvariant => EachNodeInOnePlace
  BY DEF RetireInvariant
<1> QED
  BY <1>1, AllInvariants, PTL

\* Looking at the front of a retire list is enough.
THEOREM RetireListsAreSorted == Spec => []RecordsInOrder
<1>1. RetireInvariant => RecordsInOrder
  BY DEF RetireInvariant
<1> QED
  BY <1>1, AllInvariants, PTL

\* Every thread that may still read a retired node announced an epoch that
\* keeps the node's record out of reach of the reclaimers.
THEOREM RecordsProtectReaders == Spec => []RecordCoversBlockers
<1>1. RetireInvariant => RecordCoversBlockers
  BY DEF RetireInvariant
<1> QED
  BY <1>1, AllInvariants, PTL

\* A reclaimer that finds the front record old, and destroy(), release a node
\* nobody waits for.
LEMMA ReclaimIsSafe ==
    ASSUME TypeOK, EpochInvariant, RetireInvariant, NEW t \in Threads, Reclaim(t)
    PROVE  blockers[Head(ListOf(t)).ptr] = {}
<1> DEFINE i == thread_epoch_index[t]
           q == retire_list[i]
<1>1. i \in Slots /\ q \in Seq(Record) /\ q # <<>>
  BY ReclaimPops DEF TypeOK, Pop
<1>2. 1 \in DOMAIN q /\ Head(q) = q[1]
  BY <1>1, PoppedRecord
<1>3. q[1].ptr \in Nodes /\ q[1].epoch \in Nat
  BY <1>1, <1>2, RecordsAreTyped
<1>4. q[1].epoch <= cur_gc_epoch[t] /\ cur_gc_epoch[t] <= gc_epoch
  BY <1>2 DEF Reclaim, FrontIsOld, ListOf, EpochInvariant, EpochsAreOrdered
<1>5. ASSUME NEW u \in blockers[q[1].ptr] PROVE FALSE
  <2>1. u \in InEpoch /\ SlotOf(u).epoch <= q[1].epoch
    BY <1>1, <1>2 DEF RetireInvariant, RecordCoversBlockers
  <2>2. gc_epoch < SlotOf(u).epoch
    BY <2>1 DEF EpochInvariant, ActiveAheadOfGC
  <2>3. thread_epoch_index[u] \in Slots
    BY <2>1 DEF TypeOK, EpochInvariant, SlotsAreOwned, InEpoch
  <2>4. SlotOf(u).epoch \in Nat
    BY <2>3 DEF TypeOK, SlotOf, Status
  <2>5. cur_gc_epoch[t] \in Nat /\ gc_epoch \in Nat
    BY DEF TypeOK
  <2> QED
    BY <1>3, <1>4, <2>1, <2>2, <2>4, <2>5
<1> QED
  BY <1>2, <1>5 DEF ListOf

LEMMA DrainIsSafe ==
    ASSUME TypeOK, RetireInvariant, NEW s \in Slots, DestroyDrain(s)
    PROVE  blockers[Head(retire_list[s]).ptr] = {}
<1>1. 1 \in DOMAIN retire_list[s] /\ Head(retire_list[s]) = retire_list[s][1]
  BY PoppedRecord, DrainPops DEF TypeOK, Pop
<1>2. InEpoch = {}
  BY DEF DestroyDrain, DestroyMayRun, AllJoined, InEpoch
<1> QED
  BY <1>1, <1>2 DEF RetireInvariant, RecordCoversBlockers

\* What the lock-free lists rely on: a node is handed back to the allocator
\* only when every thread that was in a region at its retirement has left.
THEOREM NodesAreNotReleasedEarly == Spec => NoPrematureRelease
<1>1. TypeOK /\ EpochInvariant /\ RetireInvariant /\ [Next]_vars
        => [\A n \in released' \ released : blockers[n] = {}]_vars
  <2> SUFFICES ASSUME TypeOK, EpochInvariant, RetireInvariant, Next
               PROVE  \A n \in released' \ released : blockers[n] = {}
    OBVIOUS
  <2>1. CASE \E t \in Threads : Reclaim(t)
    <3>1. PICK t \in Threads : Reclaim(t)
      BY <2>1
    <3> QED
      BY <3>1, ReclaimIsSafe DEF Reclaim
  <2>2. CASE \E s \in Slots : DestroyDrain(s)
    <3>1. PICK s \in Slots : DestroyDrain(s)
      BY <2>2
    <3> QED
      BY <3>1, DrainIsSafe DEF DestroyDrain
  <2>3. CASE released' \subseteq released
    BY <2>3
  <2> QED
    BY <2>1, <2>2, <2>3 DEF Next, Thread, Maintainer, Destroy, Terminated, vars,
       InitThreadEpoch, EnterLoadStatus, EnterLoadGlobal, EnterCas, EnterCasFails,
       GetNode, Retire, ExitCas, ExitLoadGc, ReclaimDone, Leave, BeginAdvance,
       LoadCount, LoadSlot, BumpSlot, NoteSlot, StoreGc, MaintainerStops, DestroyStop
<1> QED
  BY <1>1, AllInvariants, PTL DEF Spec, NoPrematureRelease

-----------------------------------------------------------------------------
(* Refinement *)

\* A step that touches neither regions nor lists is invisible outside.
LEMMA InvisibleStep ==
    ASSUME UNCHANGED <<retire_list, blockers>>, InEpoch' = InEpoch
    PROVE  UNCHANGED GP!vars
BY DEF GP!vars, RetiredNodes

\* Epoch based reclamation implements grace periods.
THEOREM EpochsImplementGracePeriods == Spec => ImplementsGracePeriod
<1>1. Init => GP!Init
  BY DEF Init, GP!Init, InEpoch, RetiredNodes
<1>2. TypeOK /\ EpochInvariant /\ RetireInvariant /\ [Next]_vars => [GP!Next]_(GP!vars)
  <2> SUFFICES ASSUME TypeOK, EpochInvariant, RetireInvariant, [Next]_vars
               PROVE  GP!Next \/ UNCHANGED GP!vars
    OBVIOUS
  <2>1. ASSUME NEW t \in Threads, EnterCas(t) PROVE GP!Enter(t)
    BY <2>1 DEF EnterCas, GP!Enter, TypeOK, InEpoch, RetiredNodes
  <2>2. ASSUME NEW t \in Threads, ExitCas(t) PROVE GP!Exit(t)
    BY <2>2 DEF ExitCas, GP!Exit, TypeOK, InEpoch, RetiredNodes
  <2>3. ASSUME NEW t \in Threads, NEW n \in Nodes, Retire(t, n) PROVE GP!Retire(t, n)
    BY <2>3, RetireKeepsRecords DEF Retire, GP!Retire, InEpoch
  <2>4. ASSUME NEW t \in Threads, Reclaim(t) PROVE \E n \in Nodes : GP!Release(n)
    <3>1. /\ RetiredNodes' = RetiredNodes \ {Head(ListOf(t)).ptr}
          /\ Head(ListOf(t)).ptr \in RetiredNodes
      BY <2>4, ReclaimPops, PopKeepsRecords DEF ListOf
    <3>2. blockers[Head(ListOf(t)).ptr] = {}
      BY <2>4, ReclaimIsSafe
    <3>3. Head(ListOf(t)).ptr \in Nodes
      BY <3>1 DEF RetiredNodes
    <3> QED
      BY <2>4, <3>1, <3>2, <3>3 DEF Reclaim, GP!Release, InEpoch
  <2>5. ASSUME NEW s \in Slots, DestroyDrain(s) PROVE \E n \in Nodes : GP!Release(n)
    <3>1. /\ RetiredNodes' = RetiredNodes \ {Head(retire_list[s]).ptr}
          /\ Head(retire_list[s]).ptr \in RetiredNodes
      BY <2>5, DrainPops, PopKeepsRecords
    <3>2. blockers[Head(retire_list[s]).ptr] = {}
      BY <2>5, DrainIsSafe
    <3>3. Head(retire_list[s]).ptr \in Nodes
      BY <3>1 DEF RetiredNodes
    <3> QED
      BY <2>5, <3>1, <3>2, <3>3 DEF DestroyDrain, GP!Release, InEpoch
  <2>6. ASSUME NEW t \in Threads,
               \/ InitThreadEpoch(t) \/ EnterLoadStatus(t) \/ EnterLoadGlobal(t)
               \/ EnterCasFails(t) \/ ExitLoadGc(t) \/ ReclaimDone(t) \/ Leave(t)
               \/ \E n \in Nodes : GetNode(t, n)
        PROVE  UNCHANGED GP!vars
    <3>1. UNCHANGED <<retire_list, blockers>> /\ InEpoch' = InEpoch
      BY <2>6 DEF InitThreadEpoch, EnterLoadStatus, EnterLoadGlobal, EnterCasFails,
         ExitLoadGc, ReclaimDone, Leave, GetNode, InEpoch, TypeOK
    <3> QED
      BY <3>1, InvisibleStep
  <2>7. ASSUME Maintainer \/ DestroyStop \/ UNCHANGED vars PROVE UNCHANGED GP!vars
    <3>1. UNCHANGED <<retire_list, blockers>> /\ InEpoch' = InEpoch
      BY <2>7 DEF Maintainer, BeginAdvance, LoadCount, LoadSlot, BumpSlot, NoteSlot,
         StoreGc, MaintainerStops, DestroyStop, vars, InEpoch
    <3> QED
      BY <3>1, InvisibleStep
  <2> QED
    BY <2>1, <2>2, <2>3, <2>4, <2>5, <2>6, <2>7
       DEF Next, Thread, Destroy, Terminated, GP!Next
<1> QED
  BY <1>1, <1>2, AllInvariants, PTL DEF Spec, GP!Spec, ImplementsGracePeriod

=============================================================================
