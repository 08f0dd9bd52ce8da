------------------------- MODULE BatchPipelineStore -------------------------
(***************************************************************************)
(* The batch pipeline implements JobStore's specification, and in every    *)
(* behaviour of that a terminal job status is true, for any number of      *)
(* workers, goroutines, jobs, items, faults and crashes and whether or not *)
(* reclaiming is patient.  The hard step is the write of a recomputation,  *)
(* whose counts are as old as its snapshot.  Dead letters need no patience *)
(* either: an item is dead-lettered by the claim that fails it, and rows   *)
(* are failed only once.  Nor does the bound that attempts put on an       *)
(* item's calls in progress.                                               *)
(***************************************************************************)
EXTENDS BatchPipelineProofs

-----------------------------------------------------------------------------
(* The invariant.                                                          *)

\* What a pass works on: a message with a job, and items.
HandlesJob(l) ==
    /\ pc[l] \notin {"idle", "drop", "ack"} => cur[l] # NoMsg /\ JobOfMsg(l) # NoJob
    /\ \A t \in Pool : thr[l][t].st \in Busy => thr[l][t].item \in Items

\* The counts that a recomputation has read are no larger than the current ones.
SnapBehind(l) ==
    pc[l] = "rewrite" /\ Exists(JobOfMsg(l)) =>
        /\ snap[l].succeeded <= RecomputeCounts(JobOfMsg(l)).succeeded
        /\ snap[l].failed <= RecomputeCounts(JobOfMsg(l)).failed

StoreInv == /\ OutboxOrder /\ LockedIsQueued
            /\ \A l \in Lanes : HandlesJob(l) /\ SnapBehind(l)

\* The message of a pass that has a job is in the stream, and so is the job.
LEMMA PassHasJob ==
    ASSUME TypeOK, NEW l \in Lanes, HandlesJob(l),
           pc[l] \notin {"idle", "drop", "ack"}
    PROVE  cur[l] \in Msgs /\ JobOfMsg(l) \in Jobs
<1>1. cur[l] \in 1..Len(stream)
  BY DEF HandlesJob, NoMsg, TypeOK, PassTypeOK, QueueTypeOK
<1> QED BY <1>1 DEF HandlesJob, JobOfMsg, Msgs, TypeOK, QueueTypeOK

\* Every step of the pipeline is one statement on the tables, or none.
LEMMA StoreStep ==
    ASSUME TypeOK, StoreInv, [Next]_vars
    PROVE  [StoreNext]_storeVars
<1>a. \A l \in Lanes : pc[l] \notin {"idle", "drop", "ack"} => JobOfMsg(l) \in Jobs
  BY PassHasJob DEF StoreInv
<1>1. ASSUME NEW j \in Jobs, NEW o \in Outcome, CreateBatchJob(j, o)
      PROVE  [StoreNext]_storeVars
  BY <1>1 DEF CreateBatchJob, StoreNext
<1>2. ASSUME NEW j \in Jobs, NEW o \in SendOutcome, ApiPublish(j, o)
      PROVE  [StoreNext]_storeVars
  BY <1>2 DEF ApiPublish
<1>3. ASSUME NEW j \in Jobs, NEW o \in Outcome, ApiMark(j, o)
      PROVE  [StoreNext]_storeVars
  BY <1>3 DEF ApiMark, StoreNext
<1>4. ASSUME NEW j \in Jobs, ApiCrash(j)
      PROVE  [StoreNext]_storeVars
  BY <1>4 DEF ApiCrash
<1>5. ASSUME NEW j \in Jobs, DeleteJob(j)
      PROVE  [StoreNext]_storeVars
  BY <1>5 DEF DeleteJob, StoreNext
<1>6. ASSUME NEW w \in Workers, DrainRead(w)
      PROVE  [StoreNext]_storeVars
  BY <1>6 DEF DrainRead
<1>7. ASSUME NEW w \in Workers, NEW j \in Jobs, NEW o \in SendOutcome,
             DrainPublish(w, j, o)
      PROVE  [StoreNext]_storeVars
  BY <1>7 DEF DrainPublish
<1>8. ASSUME NEW w \in Workers, NEW o \in Outcome, DrainMark(w, o)
      PROVE  [StoreNext]_storeVars
  <2>1. marking[w] \in Jobs
    BY <1>8 DEF DrainMark, TypeOK, ClientTypeOK
  <2> QED BY <1>8, <2>1 DEF DrainMark, StoreNext
<1>9. ASSUME NEW w \in Workers, Crash(w)
      PROVE  [StoreNext]_storeVars
  <2>1. PICK S \in SUBSET locks : ClaimRollback(S)
    BY <1>9 DEF Crash
  <2> QED BY <2>1 DEF StoreNext
<1>10. ASSUME NEW l \in Lanes, NEW o \in Outcome, Consume(l, o)
      PROVE  [StoreNext]_storeVars
  BY <1>10 DEF Consume
<1>11. ASSUME NEW l \in Lanes, Claim(l)
      PROVE  [StoreNext]_storeVars
  BY <1>11 DEF Claim
<1>12. ASSUME NEW l \in Lanes, StartMessage(l)
      PROVE  [StoreNext]_storeVars
  BY <1>12 DEF StartMessage
<1>13. ASSUME NEW l \in Lanes, NEW o \in Outcome, MarkRunning(l, o)
      PROVE  [StoreNext]_storeVars
  BY <1>a, <1>13 DEF MarkRunning, StoreNext
<1>14. ASSUME NEW l \in Lanes, NEW o \in Outcome, RequeueRunning(l, o)
      PROVE  [StoreNext]_storeVars
  BY <1>a, <1>14 DEF RequeueRunning, StoreNext
<1>15. ASSUME NEW l \in Lanes, JoinPool(l)
      PROVE  [StoreNext]_storeVars
  BY <1>15 DEF JoinPool
<1>16. ASSUME NEW l \in Lanes, Recount(l)
      PROVE  [StoreNext]_storeVars
  BY <1>16 DEF Recount
<1>17. ASSUME NEW l \in Lanes, NEW o \in Outcome, Rewrite(l, o)
      PROVE  [StoreNext]_storeVars
  <2> DEFINE j == JobOfMsg(l)
             c == RecomputeCounts(j)
  <2>1. j \in Jobs BY <1>a, <1>17 DEF Rewrite
  <2>2. /\ snap[l] \in [succeeded : Nat, failed : Nat]
        /\ c \in [succeeded : Nat, failed : Nat]
    BY CountsType DEF TypeOK, PassTypeOK
  <2>3. CASE o = "failed"
    BY <1>17, <2>3 DEF Rewrite
  <2>4. CASE o # "failed" /\ ~Exists(j)
    BY <1>17, <2>4 DEF Rewrite, RecomputeWrite, storeVars
  <2>5. CASE o # "failed" /\ Exists(j)
    <3>1. snap[l].succeeded <= c.succeeded /\ snap[l].failed <= c.failed
      BY <1>17, <2>5 DEF Rewrite, StoreInv, SnapBehind
    <3>2. RecomputeWrite(j, snap[l])
      BY <1>17, <2>5 DEF Rewrite
    <3>3. snap[l] = [succeeded |-> snap[l].succeeded, failed |-> snap[l].failed]
      BY <2>2
    <3>4. snap[l].succeeded \in 0..c.succeeded /\ snap[l].failed \in 0..c.failed
      BY <2>2, <3>1
    <3> HIDE DEF j
    <3> QED BY <2>1, <3>2, <3>3, <3>4 DEF StoreNext
  <2> QED BY <2>3, <2>4, <2>5
<1>18. ASSUME NEW l \in Lanes, NEW o \in Outcome, DropMessage(l, o)
      PROVE  [StoreNext]_storeVars
  BY <1>18 DEF DropMessage
<1>19. ASSUME NEW l \in Lanes, NEW o \in Outcome, AckMessage(l, o)
      PROVE  [StoreNext]_storeVars
  BY <1>19 DEF AckMessage
<1>20. ASSUME NEW l \in Lanes, NEW t \in Pool, NEW i \in Items,
             SelectItem(l, t, i)
      PROVE  [StoreNext]_storeVars
  <2>1. JobOfMsg(l) \in Jobs /\ ClaimSelect(JobOfMsg(l), i)
    BY <1>a, <1>20 DEF SelectItem, InPool
  <2>2. i \in ItemsOf(JobOfMsg(l))
    BY <2>1 DEF ClaimSelect, Claimable, WithStatus
  <2> QED BY <2>1, <2>2 DEF StoreNext
<1>21. ASSUME NEW l \in Lanes, NEW t \in Pool, SelectNone(l, t)
      PROVE  [StoreNext]_storeVars
  BY <1>21 DEF SelectNone
<1>22. ASSUME NEW l \in Lanes, NEW t \in Pool, SelectError(l, t)
      PROVE  [StoreNext]_storeVars
  BY <1>22 DEF SelectError
<1>23. ASSUME NEW l \in Lanes, NEW t \in Pool, NEW o \in Outcome,
             CommitClaim(l, t, o)
      PROVE  [StoreNext]_storeVars
  <2> DEFINE i == thr[l][t].item
  <2>1. CASE o = "failed"
    <3>1. ClaimRollback({i}) BY <1>23, <2>1 DEF CommitClaim
    <3>2. ClaimRollback({i} \cap locks) BY <3>1 DEF ClaimRollback
    <3> QED BY <3>2 DEF StoreNext
  <2>2. CASE o # "failed"
    <3>1. ClaimCommit(i) BY <1>23, <2>2 DEF CommitClaim
    <3>2. i \in Items BY <3>1 DEF ClaimCommit, TypeOK, StoreTypeOK
    <3> QED BY <3>1, <3>2 DEF StoreNext
  <2> QED BY <2>1, <2>2
<1>24. ASSUME NEW l \in Lanes, NEW t \in Pool, NEW o \in SendOutcome,
             DeadLetterItem(l, t, o)
      PROVE  [StoreNext]_storeVars
  BY <1>24 DEF DeadLetterItem
<1>25. ASSUME NEW l \in Lanes, NEW t \in Pool, NEW status \in TerminalItem,
             NEW o \in Outcome, FinishItem(l, t, status, o)
      PROVE  [StoreNext]_storeVars
  <2>1. thr[l][t].item \in Items
    BY <1>25 DEF FinishItem, InPool, StoreInv, HandlesJob, Busy
  <2> QED BY <1>25, <2>1 DEF FinishItem, StoreNext
<1>26. ASSUME ForeignMessage
      PROVE  [StoreNext]_storeVars
  BY <1>26 DEF ForeignMessage
<1>27. CASE UNCHANGED vars
  BY <1>27 DEF vars, storeVars
<1>28. QED
  BY <1>1, <1>2, <1>3, <1>4, <1>5, <1>6, <1>7, <1>8, <1>9, <1>10, <1>11,
     <1>12, <1>13, <1>14, <1>15, <1>16, <1>17, <1>18, <1>19, <1>20, <1>21,
     <1>22, <1>23, <1>24, <1>25, <1>26, <1>27
     DEF Next, ApiStep, DrainStep, LaneStep, ThreadStep

\* While a job stays in the tables its items that have ended stay as they are,
\* so that its counts only grow.
LEMMA EndedStay ==
    ASSUME StoreTypeOK, LockedIsQueued, [StoreNext]_storeVars,
           NEW k \in Jobs, Exists(k), Exists(k)',
           NEW i \in ItemsOf(k), item[i].status \in TerminalItem
    PROVE  item'[i].status = item[i].status
<1>0. i \in Items /\ JobOf[i] = k /\ item[i].status \notin OpenItem
  BY DEF ItemsOf, TerminalItem, OpenItem
<1> USE DEF StoreTypeOK
<1>1. ASSUME NEW j \in Jobs, CreateWithItemsAndOutbox(j)
      PROVE  item'[i] = item[i]
  BY <1>0, <1>1 DEF CreateWithItemsAndOutbox, Exists
<1>2. ASSUME NEW j \in Jobs, RequeueRunningItems(j)
      PROVE  item'[i] = item[i]
  BY <1>0, <1>2 DEF RequeueRunningItems, WithStatus, OpenItem
<1>3. ASSUME NEW j \in Jobs, CascadeDelete(j)
      PROVE  item'[i] = item[i]
  BY <1>0, <1>3 DEF CascadeDelete, Exists
<1>4. ASSUME NEW n \in Items, ClaimCommit(n)
      PROVE  item'[i] = item[i]
  BY <1>0, <1>4 DEF ClaimCommit, LockedIsQueued, OpenItem
<1>5. ASSUME NEW n \in Items, NEW status \in TerminalItem, UpdateItemTerminal(n, status)
      PROVE  item'[i] = item[i]
  BY <1>0, <1>5 DEF UpdateItemTerminal, OpenItem
<1>6. ASSUME item' = item PROVE item'[i] = item[i]
  BY <1>6
<1> QED
  BY <1>1, <1>2, <1>3, <1>4, <1>5, <1>6
     DEF StoreNext, storeVars, MarkJobRunning, MarkOutboxPublished, RecomputeWrite,
         ClaimSelect, ClaimRollback

\* Hence no count of RecomputeAndUpdateJobStatus decreases.
LEMMA CountsGrow ==
    ASSUME StoreTypeOK, LockedIsQueued, [StoreNext]_storeVars,
           NEW k \in Jobs, Exists(k), Exists(k)'
    PROVE  /\ RecomputeCounts(k).succeeded <= RecomputeCounts(k)'.succeeded
           /\ RecomputeCounts(k).failed <= RecomputeCounts(k)'.failed
<1>1. ASSUME NEW s \in TerminalItem
      PROVE  Cardinality(WithStatus(k, s)) <= Cardinality(WithStatus(k, s)')
  <2>1. WithStatus(k, s) \subseteq WithStatus(k, s)'
    BY EndedStay DEF WithStatus, ItemsOf
  <2>2. IsFiniteSet(WithStatus(k, s)')
    BY StoreAssumption, FS_Subset DEF WithStatus, ItemsOf
  <2> QED BY <2>1, <2>2, FS_Subset
<1> QED BY <1>1 DEF RecomputeCounts, TerminalItem

\* A deleted job stays deleted.
LEMMA GoneStays ==
    ASSUME StoreTypeOK, [StoreNext]_storeVars, NEW k \in Jobs, job[k].status = "gone"
    PROVE  job'[k].status = "gone"
<1> USE DEF StoreTypeOK
<1>1. ASSUME NEW j \in Jobs,
             \/ CreateWithItemsAndOutbox(j) \/ MarkJobRunning(j) \/ CascadeDelete(j)
      PROVE  job'[k].status = "gone"
  BY <1>1 DEF CreateWithItemsAndOutbox, MarkJobRunning, CascadeDelete, Exists
<1>2. ASSUME NEW j \in Jobs, NEW c, RecomputeWrite(j, c)
      PROVE  job'[k].status = "gone"
  BY <1>2 DEF RecomputeWrite, Exists
<1>3. ASSUME job' = job PROVE job'[k].status = "gone"
  BY <1>3
<1> QED
  BY <1>1, <1>2, <1>3
     DEF StoreNext, storeVars, RequeueRunningItems, MarkOutboxPublished, ClaimSelect,
         ClaimCommit, UpdateItemTerminal, ClaimRollback

\* A pass that a step leaves alone keeps its job, and its counts stay behind.
LEMMA PassKept ==
    ASSUME TypeOK, StoreInv, [Next]_vars, NEW k \in Lanes,
           pc'[k] = pc[k], cur'[k] = cur[k], snap'[k] = snap[k],
           \A t \in Pool : thr'[k][t].st \in Busy => thr'[k][t].item \in Items
    PROVE  HandlesJob(k)' /\ SnapBehind(k)'
<1>1. HandlesJob(k) /\ SnapBehind(k)
  BY DEF StoreInv
<1>2. ASSUME pc[k] \notin {"idle", "drop", "ack"}
      PROVE  JobOfMsg(k)' = JobOfMsg(k) /\ JobOfMsg(k) \in Jobs /\ cur[k] \in Msgs
  BY <1>1, <1>2, PassHasJob, StreamGrows DEF JobOfMsg
<1>3. HandlesJob(k)'
  BY <1>1, <1>2 DEF HandlesJob
<1>4. ASSUME pc[k] = "rewrite", Exists(JobOfMsg(k))'
      PROVE  SnapBehind(k)'
  <2>1. PICK j \in Jobs : j = JobOfMsg(k) /\ j = JobOfMsg(k)' /\ Sent(j)
    BY <1>2, <1>4 DEF Sent, JobOfMsg
  <2>2. Exists(j)'
    BY <1>4, <2>1 DEF Exists
  <2>3. Exists(j)
    <3>1. job[j].status # "absent"
      BY <2>1 DEF StoreInv, OutboxOrder
    <3>2. job[j].status # "gone"
      BY <2>2, StoreStep, GoneStays DEF Exists, TypeOK
    <3> QED BY <3>1, <3>2 DEF Exists
  <2>4. /\ RecomputeCounts(j).succeeded <= RecomputeCounts(j)'.succeeded
        /\ RecomputeCounts(j).failed <= RecomputeCounts(j)'.failed
    BY <2>2, <2>3, StoreStep, CountsGrow DEF TypeOK, StoreInv
  <2>5. /\ snap[k].succeeded <= RecomputeCounts(j).succeeded
        /\ snap[k].failed <= RecomputeCounts(j).failed
    BY <1>1, <1>4, <2>1, <2>3 DEF SnapBehind
  <2>6. /\ snap[k] \in [succeeded : Nat, failed : Nat]
        /\ RecomputeCounts(j) \in [succeeded : Nat, failed : Nat]
        /\ RecomputeCounts(j)' \in [succeeded : Nat, failed : Nat]
    <3>1. \A s : IsFiniteSet(WithStatus(j, s)')
      BY StoreAssumption, FS_Subset DEF WithStatus, ItemsOf
    <3>2. RecomputeCounts(j)' \in [succeeded : Nat, failed : Nat]
      BY <3>1, FS_CardinalityType DEF RecomputeCounts
    <3> QED BY <3>2, CountsType DEF TypeOK, PassTypeOK
  <2>7. /\ snap[k].succeeded <= RecomputeCounts(j)'.succeeded
        /\ snap[k].failed <= RecomputeCounts(j)'.failed
    BY ONLY <2>4, <2>5, <2>6
  <2>8. RecomputeCounts(JobOfMsg(k))' = RecomputeCounts(j)'
    BY <2>1 DEF RecomputeCounts, WithStatus, ItemsOf
  <2> QED BY <2>7, <2>8 DEF SnapBehind
<1> QED BY <1>3, <1>4 DEF SnapBehind

\* Every step of the pipeline keeps every pass so: a recomputation's counts are
\* current when it reads them, and later steps leave the pass alone or end it.
LEMMA PassStep ==
    ASSUME TypeOK, TypeOK', StoreInv, [Next]_vars, NEW k \in Lanes
    PROVE  HandlesJob(k)' /\ SnapBehind(k)'
<1> DEFINE G == HandlesJob(k)' /\ SnapBehind(k)'
<1> USE DEF TypeOK, PassTypeOK
<1>a. /\ HandlesJob(k)
      /\ \A t \in Pool : thr[k][t].st \in Busy => thr[k][t].item \in Items
  BY DEF StoreInv, HandlesJob
<1>b. ASSUME pc'[k] = pc[k], cur'[k] = cur[k], snap'[k] = snap[k], thr'[k] = thr[k]
      PROVE  G
  BY <1>a, <1>b, PassKept
<1>c. ASSUME pc'[k] \in {"idle", "drop", "ack"}, thr'[k] = Parked \/ thr'[k] = thr[k]
      PROVE  G
  BY <1>a, <1>c DEF HandlesJob, SnapBehind, Parked, Busy
<1>d. ASSUME NEW l \in Lanes, EndPass(l) PROVE G
  <2>1. CASE k = l BY <1>c, <1>d, <2>1 DEF EndPass
  <2>2. CASE k # l BY <1>b, <1>d, <2>2 DEF EndPass
  <2> QED BY <2>1, <2>2
<1>e. ASSUME NEW l \in Lanes, NEW p \in {"requeue", "recount", "drop", "ack"}, GoTo(l, p),
             pc[l] \notin {"idle", "drop", "ack"} \/ p \in {"drop", "ack"}, stream' = stream
      PROVE  G
  <2>1. CASE k = l
    BY <1>a, <1>e, <2>1 DEF GoTo, HandlesJob, SnapBehind, JobOfMsg
  <2>2. CASE k # l BY <1>b, <1>e, <2>2 DEF GoTo
  <2> QED BY <2>1, <2>2
<1>f. ASSUME NEW l \in Lanes, NEW t \in Pool,
             NEW s \in ThreadState, NEW i \in Items \cup {NoItem},
             thr' = [thr EXCEPT ![l][t] = [st |-> s, item |-> i]],
             s \in Busy => i \in Items, UNCHANGED <<pc, cur, snap>>
      PROVE  G
  BY <1>a, <1>f, PassKept
<1>1. ASSUME NEW j \in Jobs, NEW o \in Outcome, CreateBatchJob(j, o)
      PROVE  G
  BY <1>b, <1>1 DEF CreateBatchJob, passVars
<1>2. ASSUME NEW j \in Jobs, NEW o \in SendOutcome, ApiPublish(j, o)
      PROVE  G
  BY <1>b, <1>2 DEF ApiPublish, passVars
<1>3. ASSUME NEW j \in Jobs, NEW o \in Outcome, ApiMark(j, o)
      PROVE  G
  BY <1>b, <1>3 DEF ApiMark, passVars
<1>4. ASSUME NEW j \in Jobs, ApiCrash(j)
      PROVE  G
  BY <1>b, <1>4 DEF ApiCrash, passVars
<1>5. ASSUME NEW j \in Jobs, DeleteJob(j)
      PROVE  G
  BY <1>b, <1>5 DEF DeleteJob, passVars
<1>6. ASSUME NEW w \in Workers, DrainRead(w)
      PROVE  G
  BY <1>b, <1>6 DEF DrainRead, passVars
<1>7. ASSUME NEW w \in Workers, NEW j \in Jobs, NEW o \in SendOutcome,
             DrainPublish(w, j, o)
      PROVE  G
  BY <1>b, <1>7 DEF DrainPublish, passVars
<1>8. ASSUME NEW w \in Workers, NEW o \in Outcome, DrainMark(w, o)
      PROVE  G
  BY <1>b, <1>8 DEF DrainMark, passVars
<1>9. ASSUME NEW w \in Workers, Crash(w)
      PROVE  G
  BY <1>b, <1>c, <1>9 DEF Crash
<1>10. ASSUME NEW l \in Lanes, NEW o \in Outcome, Consume(l, o)
      PROVE  G
  BY <1>b, <1>10 DEF Consume, passVars
<1>11. ASSUME NEW l \in Lanes, Claim(l)
      PROVE  G
  BY <1>b, <1>11 DEF Claim, passVars
<1>12. ASSUME NEW l \in Lanes, StartMessage(l)
      PROVE  G
  <2>1. CASE UNCHANGED passVars
    BY <1>b, <2>1 DEF passVars
  <2>2. ASSUME NEW m \in batch[l],
               cur' = [cur EXCEPT ![l] = m],
               pc' = [pc EXCEPT ![l] = IF stream[m] = NoJob THEN "drop" ELSE "mark"],
               UNCHANGED <<thr, broken, snap>>
        PROVE  G
    <3>1. m # NoMsg /\ stream' = stream
      BY <1>12, <2>2 DEF StartMessage, queueVars, NoMsg, QueueTypeOK
    <3>2. CASE k = l
      BY <1>a, <2>2, <3>1, <3>2 DEF HandlesJob, SnapBehind, JobOfMsg
    <3>3. CASE k # l BY <1>b, <2>2, <3>3
    <3> QED BY <3>2, <3>3
  <2> QED BY <1>12, <2>1, <2>2 DEF StartMessage
<1>13. ASSUME NEW l \in Lanes, NEW o \in Outcome, MarkRunning(l, o)
      PROVE  G
  BY <1>d, <1>e, <1>13 DEF MarkRunning, queueVars
<1>14. ASSUME NEW l \in Lanes, NEW o \in Outcome, RequeueRunning(l, o)
      PROVE  G
  <2>1. CASE o = "ok"
    <3>1. /\ pc' = [pc EXCEPT ![l] = "pool"] /\ thr' = [thr EXCEPT ![l] = Started]
          /\ UNCHANGED <<cur, snap, stream>> /\ pc[l] = "requeue"
      BY <1>14, <2>1 DEF RequeueRunning, queueVars
    <3>2. CASE k = l
      BY <1>a, <3>1, <3>2 DEF HandlesJob, SnapBehind, JobOfMsg, Started, Busy
    <3>3. CASE k # l BY <1>b, <3>1, <3>3
    <3> QED BY <3>2, <3>3
  <2>2. CASE o # "ok"
    BY <1>d, <1>14, <2>2 DEF RequeueRunning
  <2> QED BY <2>1, <2>2
<1>15. ASSUME NEW l \in Lanes, JoinPool(l)
      PROVE  G
  BY <1>d, <1>e, <1>15 DEF JoinPool, queueVars
<1>16. ASSUME NEW l \in Lanes, Recount(l)
      PROVE  G
  <2>1. CASE k = l
    <3>1. /\ pc[k] = "recount" /\ pc'[k] = "rewrite" /\ snap'[k] = RecomputeCounts(JobOfMsg(k))
          /\ UNCHANGED <<cur, thr, stream, item>>
      BY <1>16, <2>1 DEF Recount, queueVars, storeVars
    <3>2. HandlesJob(k)'
      BY <1>a, <3>1 DEF HandlesJob, JobOfMsg
    <3>3. RecomputeCounts(JobOfMsg(k))' = snap'[k]
      BY <3>1 DEF RecomputeCounts, WithStatus, ItemsOf, JobOfMsg
    <3>4. snap'[k].succeeded \in Nat /\ snap'[k].failed \in Nat
      OBVIOUS
    <3> QED BY <3>2, <3>3, <3>4 DEF SnapBehind
  <2>2. CASE k # l BY <1>b, <1>16, <2>2 DEF Recount
  <2> QED BY <2>1, <2>2
<1>17. ASSUME NEW l \in Lanes, NEW o \in Outcome, Rewrite(l, o)
      PROVE  G
  BY <1>d, <1>e, <1>17 DEF Rewrite, queueVars
<1>18. ASSUME NEW l \in Lanes, NEW o \in Outcome, DropMessage(l, o)
      PROVE  G
  BY <1>d, <1>e, <1>18 DEF DropMessage, PublishDLQMsg, queueVars
<1>19. ASSUME NEW l \in Lanes, NEW o \in Outcome, AckMessage(l, o)
      PROVE  G
  BY <1>d, <1>19 DEF AckMessage
<1>20. ASSUME NEW l \in Lanes, NEW t \in Pool, NEW i \in Items,
             SelectItem(l, t, i)
      PROVE  G
  BY <1>f, <1>20 DEF SelectItem, Thread, ThreadState
<1>21. ASSUME NEW l \in Lanes, NEW t \in Pool, SelectNone(l, t)
      PROVE  G
  BY <1>f, <1>21 DEF SelectNone, Thread, ThreadState, Busy
<1>22. ASSUME NEW l \in Lanes, NEW t \in Pool, SelectError(l, t)
      PROVE  G
  BY <1>f, <1>22 DEF SelectError, BreakOff, ThreadState, Busy
<1>23. ASSUME NEW l \in Lanes, NEW t \in Pool, NEW o \in Outcome,
             CommitClaim(l, t, o)
      PROVE  G
  <2>1. thr[l][t].item \in Items
    BY <1>23 DEF CommitClaim, InPool, StoreInv, HandlesJob, Busy
  <2>2. CASE BreakOff(l, t)
    BY <1>f, <2>2 DEF BreakOff, ThreadState, Busy
  <2>3. CASE o = "ok"
    BY <1>f, <1>23, <2>1, <2>3 DEF CommitClaim, Thread, ThreadState
  <2> QED BY <1>23, <2>2, <2>3 DEF CommitClaim
<1>24. ASSUME NEW l \in Lanes, NEW t \in Pool, NEW o \in SendOutcome,
             DeadLetterItem(l, t, o)
      PROVE  G
  <2>1. thr[l][t].item \in Items
    BY <1>24 DEF DeadLetterItem, InPool, StoreInv, HandlesJob, Busy
  <2>2. CASE o = "resent"
    BY <1>f, <1>24, <2>1, <2>2 DEF DeadLetterItem, Thread, ThreadState
  <2>3. CASE o # "resent"
    BY <1>f, <1>24, <2>3 DEF DeadLetterItem, Thread, ThreadState, Busy
  <2> QED BY <2>2, <2>3
<1>25. ASSUME NEW l \in Lanes, NEW t \in Pool, NEW status \in TerminalItem,
             NEW o \in Outcome, FinishItem(l, t, status, o)
      PROVE  G
  BY <1>f, <1>25 DEF FinishItem, Thread, BreakOff, ThreadState, Busy
<1>26. ASSUME ForeignMessage
      PROVE  G
  BY <1>b, <1>26 DEF ForeignMessage, passVars
<1>27. CASE UNCHANGED vars
  BY <1>b, <1>27 DEF vars, passVars
<1>28. QED
  BY <1>1, <1>2, <1>3, <1>4, <1>5, <1>6, <1>7, <1>8, <1>9, <1>10, <1>11,
     <1>12, <1>13, <1>14, <1>15, <1>16, <1>17, <1>18, <1>19, <1>20, <1>21,
     <1>22, <1>23, <1>24, <1>25, <1>26, <1>27
     DEF Next, ApiStep, DrainStep, LaneStep, ThreadStep

\* The invariant behind the refinement.
LEMMA StoreInvStep ==
    ASSUME TypeOK, TypeOK', StoreInv, [Next]_vars
    PROVE  StoreInv'
BY PassStep, OutboxOrderStep, LockedIsQueuedStep DEF StoreInv

\* The batch API and the workers use the tables as StoreSpec allows: every step of
\* theirs is one statement of the repository, and a recomputation never writes
\* counts that run ahead of the items (RecomputeAndUpdateJobStatus), whether or
\* not reclaiming is patient.
THEOREM PipelineImplementsStore == Spec => StoreSpec
<1>1. Init => StoreInit /\ StoreInv
  <2> SUFFICES ASSUME Init PROVE StoreInit /\ StoreInv
    OBVIOUS
  <2>1. OutboxOrder /\ LockedIsQueued
    BY IndInvInit DEF IndInv
  <2>2. \A l \in Lanes : HandlesJob(l) /\ SnapBehind(l)
    BY DEF Init, HandlesJob, SnapBehind, Parked, Busy
  <2> QED BY <2>1, <2>2 DEF Init, StoreInv
<1>2. ASSUME TypeOK, TypeOK', StoreInv, [Next]_vars
      PROVE  StoreInv' /\ [StoreNext]_storeVars
  BY <1>2, StoreInvStep, StoreStep
<1> QED BY <1>1, <1>2, TypeCorrect, PTL DEF Spec, StoreSpec

-----------------------------------------------------------------------------
(* What the tables promise to any client.                                  *)

\* Every statement leaves rows of the right type.
LEMMA StoreTypeStep ==
    ASSUME StoreTypeOK, [StoreNext]_storeVars
    PROVE  StoreTypeOK'
<1>1. ASSUME NEW j \in Jobs, NEW s \in 0..RecomputeCounts(j).succeeded,
             NEW f \in 0..RecomputeCounts(j).failed,
             RecomputeWrite(j, [succeeded |-> s, failed |-> f])
      PROVE  StoreTypeOK'
  <2>1. [succeeded |-> s, failed |-> f] \in [succeeded : Nat, failed : Nat]
    BY CountsType
  <2> QED BY <1>1, <2>1, RecomputeWriteType
<1>2. ASSUME NEW j \in Jobs, NEW i \in ItemsOf(j), ClaimSelect(j, i)
      PROVE  StoreTypeOK'
  BY <1>2, ClaimSelectType DEF ItemsOf
<1> QED
  BY <1>1, <1>2, CreateType, MarkJobRunningType, RequeueType, MarkOutboxType,
     CascadeDeleteType, ClaimCommitType, UpdateItemType, ClaimRollbackType,
     StoreStutterType
     DEF StoreNext

\* Row locks: only the claim that locked a queued row takes it out of the queue.
LEMMA StoreLocksStep ==
    ASSUME StoreTypeOK, LockedIsQueued, [StoreNext]_storeVars
    PROVE  LockedIsQueued'
<1> USE DEF StoreTypeOK, LockedIsQueued
<1>1. ASSUME NEW j \in Jobs, CreateWithItemsAndOutbox(j) PROVE LockedIsQueued'
  BY <1>1 DEF CreateWithItemsAndOutbox
<1>2. ASSUME NEW j \in Jobs, RequeueRunningItems(j) PROVE LockedIsQueued'
  BY <1>2 DEF RequeueRunningItems
<1>3. ASSUME NEW j \in Jobs, CascadeDelete(j) PROVE LockedIsQueued'
  BY <1>3 DEF CascadeDelete, ItemsOf
<1>4. ASSUME NEW j \in Jobs, NEW i \in ItemsOf(j), ClaimSelect(j, i) PROVE LockedIsQueued'
  BY <1>4 DEF ClaimSelect, Claimable, WithStatus
<1>5. ASSUME NEW i \in Items, ClaimCommit(i) PROVE LockedIsQueued'
  BY <1>5 DEF ClaimCommit
<1>6. ASSUME NEW i \in Items, NEW status \in TerminalItem, UpdateItemTerminal(i, status)
      PROVE  LockedIsQueued'
  BY <1>6 DEF UpdateItemTerminal
<1>7. ASSUME NEW S, ClaimRollback(S) PROVE LockedIsQueued'
  BY <1>7 DEF ClaimRollback
<1>8. ASSUME item' = item, locks' = locks PROVE LockedIsQueued'
  BY <1>8
<1> QED
  BY <1>1, <1>2, <1>3, <1>4, <1>5, <1>6, <1>7, <1>8
     DEF StoreNext, storeVars, MarkJobRunning, MarkOutboxPublished, RecomputeWrite

\* Counts that add up to a job's items, and are no larger than the current ones,
\* are the current ones, and then every item has ended.
LEMMA FullCounts ==
    ASSUME StoreTypeOK, NEW j \in Jobs,
           NEW s \in 0..RecomputeCounts(j).succeeded, NEW f \in 0..RecomputeCounts(j).failed,
           s + f >= Cardinality(ItemsOf(j))
    PROVE  /\ s = RecomputeCounts(j).succeeded /\ f = RecomputeCounts(j).failed
           /\ \A i \in ItemsOf(j) : item[i].status \in TerminalItem
<1> DEFINE S == WithStatus(j, "succeeded")
           F == WithStatus(j, "failed")
           A == ItemsOf(j)
<1>1. IsFiniteSet(A) /\ S \subseteq A /\ F \subseteq A /\ S \cap F = {}
  BY StoreAssumption, FS_Subset DEF WithStatus, ItemsOf
<1>2. /\ RecomputeCounts(j).succeeded = Cardinality(S)
      /\ RecomputeCounts(j).failed = Cardinality(F)
  BY DEF RecomputeCounts
<1>3. \A i \in S \cup F : item[i].status \in TerminalItem
  BY DEF WithStatus, TerminalItem
<1> HIDE DEF S, F, A
<1>4. IsFiniteSet(S) /\ IsFiniteSet(F)
  BY <1>1, FS_Subset
<1>5. Cardinality(S) \in Nat /\ Cardinality(F) \in Nat /\ Cardinality(A) \in Nat
  BY <1>1, <1>4, FS_CardinalityType
<1>6. Cardinality(S \cup F) = Cardinality(S) + Cardinality(F)
  <2>1. Cardinality(S \cup F) = Cardinality(S) + Cardinality(F) - Cardinality(S \cap F)
    BY <1>4, FS_Union
  <2>2. Cardinality(S \cap F) = 0 BY <1>1, FS_EmptySet
  <2> QED BY <1>5, <2>1, <2>2
<1>7. /\ Cardinality(S \cup F) <= Cardinality(A)
      /\ Cardinality(A) = Cardinality(S \cup F) => A = S \cup F
  <2>1. S \cup F \in SUBSET A BY <1>1
  <2> QED BY <1>1, <2>1, FS_Subset
<1>8. s + f >= Cardinality(A) BY DEF A
<1>9. s \in 0..Cardinality(S) /\ f \in 0..Cardinality(F) BY <1>2
<1>10. s = Cardinality(S) /\ f = Cardinality(F) /\ Cardinality(A) = Cardinality(S \cup F)
  BY ONLY <1>5, <1>6, <1>7, <1>8, <1>9
<1> QED BY <1>2, <1>3, <1>7, <1>10 DEF A

\* A terminal status stays true: it is written only when the counts are full, and
\* afterwards no item of the job changes while the status stands.
LEMMA TruthfulStep ==
    ASSUME StoreTypeOK, LockedIsQueued, TerminalJobTruthful, [StoreNext]_storeVars
    PROVE  TerminalJobTruthful'
<1> SUFFICES ASSUME NEW k \in Jobs, job'[k].status \in TerminalJob
             PROVE  /\ \A i \in ItemsOf(k) : item'[i].status \in TerminalItem
                    /\ job'[k].status = AggregateJobStatus(Cardinality(ItemsOf(k)),
                           RecomputeCounts(k)'.succeeded, RecomputeCounts(k)'.failed)
  BY DEF TerminalJobTruthful, ItemsOf
<1>1. ASSUME job'[k].status = job[k].status
      PROVE  /\ \A i \in ItemsOf(k) : item'[i].status \in TerminalItem
             /\ job'[k].status = AggregateJobStatus(Cardinality(ItemsOf(k)),
                    RecomputeCounts(k)'.succeeded, RecomputeCounts(k)'.failed)
  <2>1. Exists(k) /\ Exists(k)'
    BY <1>1 DEF Exists, TerminalJob
  <2>2. \A i \in ItemsOf(k) : item[i].status \in TerminalItem
    BY <1>1 DEF TerminalJobTruthful
  <2>3. \A i \in ItemsOf(k) : item'[i].status = item[i].status
    BY <2>1, <2>2, EndedStay
  <2>4. RecomputeCounts(k)' = RecomputeCounts(k)
    <3>1. \A s : WithStatus(k, s)' = WithStatus(k, s)
      BY <2>3 DEF WithStatus, ItemsOf
    <3> QED BY <3>1 DEF RecomputeCounts
  <2> QED BY <1>1, <2>2, <2>3, <2>4 DEF TerminalJobTruthful
<1>2. ASSUME NEW s \in 0..RecomputeCounts(k).succeeded, NEW f \in 0..RecomputeCounts(k).failed,
             RecomputeWrite(k, [succeeded |-> s, failed |-> f]), Exists(k)
      PROVE  /\ \A i \in ItemsOf(k) : item'[i].status \in TerminalItem
             /\ job'[k].status = AggregateJobStatus(Cardinality(ItemsOf(k)),
                    RecomputeCounts(k)'.succeeded, RecomputeCounts(k)'.failed)
  <2>1. item' = item /\ job'[k].status = AggregateJobStatus(Cardinality(ItemsOf(k)), s, f)
    BY <1>2 DEF RecomputeWrite, StoreTypeOK
  <2>2. ~(s + f < Cardinality(ItemsOf(k)))
    BY <2>1 DEF AggregateJobStatus, TerminalJob
  <2>3. s + f >= Cardinality(ItemsOf(k))
    <3>1. Cardinality(ItemsOf(k)) \in Nat
      BY StoreAssumption, FS_Subset, FS_CardinalityType DEF ItemsOf
    <3>2. s \in Nat /\ f \in Nat BY CountsType
    <3> QED BY <2>2, <3>1, <3>2
  <2>4. RecomputeCounts(k)' = RecomputeCounts(k)
    BY <2>1 DEF RecomputeCounts, WithStatus, ItemsOf
  <2> QED BY <2>1, <2>3, <2>4, FullCounts
<1>3. ASSUME NEW j \in Jobs, \/ CreateWithItemsAndOutbox(j) \/ MarkJobRunning(j)
                             \/ CascadeDelete(j)
      PROVE  job'[k].status = job[k].status
  BY <1>3 DEF CreateWithItemsAndOutbox, MarkJobRunning, CascadeDelete, TerminalJob, StoreTypeOK
<1>4. ASSUME NEW j \in Jobs, NEW c, RecomputeWrite(j, c), j # k \/ ~Exists(k)
      PROVE  job'[k].status = job[k].status
  BY <1>4 DEF RecomputeWrite, StoreTypeOK
<1>5. ASSUME job' = job PROVE job'[k].status = job[k].status
  BY <1>5
<1> QED
  BY <1>1, <1>2, <1>3, <1>4, <1>5
     DEF StoreNext, storeVars, RequeueRunningItems, MarkOutboxPublished, ClaimSelect,
         ClaimCommit, UpdateItemTerminal, ClaimRollback

\* However many deliveries of a job recompute it at once, and however stale their
\* counts, a terminal status in the tables is the true one.
THEOREM TerminalStatusTrue == StoreSpec => []TerminalJobTruthful
<1> DEFINE I == StoreTypeOK /\ LockedIsQueued /\ TerminalJobTruthful
<1>1. StoreInit => I
  BY StoreAssumption
     DEF StoreInit, StoreTypeOK, JobStatus, ItemStatus, OutboxStatus, LockedIsQueued,
         TerminalJobTruthful, TerminalJob
<1>2. ASSUME I, [StoreNext]_storeVars PROVE I'
  BY <1>2, StoreTypeStep, StoreLocksStep, TruthfulStep
<1>3. I => TerminalJobTruthful
  OBVIOUS
<1> HIDE DEF I
<1> QED BY <1>1, <1>2, <1>3, PTL DEF StoreSpec

\* So the pipeline never reports a job as ended that has not.
THEOREM PipelineTruthful == Spec => []TerminalJobTruthful
BY PipelineImplementsStore, TerminalStatusTrue, PTL

-----------------------------------------------------------------------------
(* Dead letters: one call for an exhausted item, and one entry for a       *)
(* message without a job before it is acked.                               *)

\* Only stored jobs have items.
ItemsOfStored ==
    \A i \in Items : item[i].status # "absent" => job[JobOf[i]].status # "absent"

\* An item that has failed, or whose job was deleted.
Ended(i) == item[i].status \in {"failed", "gone"}

\* A goroutine in the call that dead-letters an item.
Letting(l, t) == thr[l][t].st \in {"dlq", "resend"}

\* Only such items have dead letters.
OnlyEnded == \A i \in Items : dlqItems[i] > 0 => Ended(i)

\* A goroutine about to dead-letter an item holds one that has failed and, before
\* its first sending, has no dead letter yet; no other goroutine has such a call
\* for it.
Condemned ==
    /\ \A l \in Lanes, t \in Pool : Letting(l, t) => Ended(thr[l][t].item)
    /\ \A l \in Lanes, t \in Pool : thr[l][t].st = "dlq" => dlqItems[thr[l][t].item] = 0
    /\ \A k, l \in Lanes, s, t \in Pool :
          Letting(k, s) /\ Letting(l, t) /\ thr[k][s].item = thr[l][t].item
          => k = l /\ s = t

\* A job once stored never becomes absent again.
LEMMA StoredStays ==
    ASSUME TypeOK, [Next]_vars, NEW j \in Jobs, job[j].status # "absent"
    PROVE  job'[j].status # "absent"
<1> USE DEF TypeOK, StoreTypeOK
<1>1. CASE DeleteJob(j)
  BY <1>1 DEF DeleteJob, CascadeDelete
<1>2. ASSUME NEW o \in Outcome, CreateBatchJob(j, o) PROVE FALSE
  BY <1>2 DEF CreateBatchJob, CreateWithItemsAndOutbox
<1>3. ASSUME NEW l \in Lanes, NEW o \in Outcome, MarkRunning(l, o)
      PROVE  job'[j].status # "absent"
  BY <1>3 DEF MarkRunning, MarkJobRunning, storeVars
<1>4. ASSUME NEW l \in Lanes, NEW o \in Outcome, Rewrite(l, o), JobOfMsg(l) = j
      PROVE  job'[j].status # "absent"
  <2>1. AggregateJobStatus(Cardinality(ItemsOf(j)), snap[l].succeeded, snap[l].failed)
           # "absent"
    BY DEF AggregateJobStatus
  <2>2. job' = job \/ RecomputeWrite(j, snap[l])
    BY <1>4 DEF Rewrite, storeVars
  <2> QED BY <2>1, <2>2 DEF RecomputeWrite
<1> QED BY <1>1, <1>2, <1>3, <1>4, JobMoves DEF JobMove

\* Rows come into being with their job, in one transaction.
LEMMA ItemsOfStoredStep ==
    ASSUME TypeOK, TypeOK', StoreInv, ItemsOfStored, [Next]_vars
    PROVE  ItemsOfStored'
<1> SUFFICES ASSUME NEW i \in Items, item'[i].status # "absent"
             PROVE  job'[JobOf[i]].status # "absent"
  BY DEF ItemsOfStored
<1>1. PICK j \in Jobs : j = JobOf[i]
  BY StoreAssumption
<1> USE DEF TypeOK, StoreTypeOK
<1>2. CASE item[i].status # "absent"
  BY <1>1, <1>2, StoredStays DEF ItemsOfStored
<1>3. CASE DeleteJob(j)
  BY <1>1, <1>3 DEF DeleteJob, CascadeDelete
<1>4. ASSUME NEW o \in Outcome, CreateBatchJob(j, o) PROVE job'[j].status # "absent"
  BY <1>4 DEF CreateBatchJob, CreateWithItemsAndOutbox
<1>5. ASSUME NEW l \in Lanes, NEW t \in Pool, NEW o \in Outcome, thr[l][t].item = i,
             CommitClaim(l, t, o), item[i].status = "absent"
      PROVE  item'[i] = item[i]
  BY <1>5 DEF CommitClaim, ClaimCommit, ClaimRollback, StoreInv, LockedIsQueued
<1>6. ASSUME NEW l \in Lanes, NEW t \in Pool, NEW o \in Outcome, thr[l][t].item = i,
             NEW v \in TerminalItem, FinishItem(l, t, v, o), item[i].status = "absent"
      PROVE  item'[i] = item[i]
  BY <1>6 DEF FinishItem, UpdateItemTerminal, storeVars
<1> QED BY <1>1, <1>2, <1>3, <1>4, <1>5, <1>6, ItemMoves DEF ItemMove

\* A failed row is never claimed, requeued or finished again.
LEMMA EndedKept ==
    ASSUME TypeOK, StoreInv, ItemsOfStored, [Next]_vars, NEW i \in Items, Ended(i)
    PROVE  Ended(i)'
<1>1. PICK j \in Jobs : j = JobOf[i]
  BY StoreAssumption
<1> USE DEF TypeOK, StoreTypeOK, Ended
<1>2. CASE DeleteJob(j)
  BY <1>1, <1>2 DEF DeleteJob, CascadeDelete
<1>3. ASSUME NEW o \in Outcome, CreateBatchJob(j, o) PROVE FALSE
  BY <1>1, <1>3 DEF CreateBatchJob, CreateWithItemsAndOutbox, ItemsOfStored
<1>4. ASSUME NEW l \in Lanes, NEW t \in Pool, NEW o \in Outcome, thr[l][t].item = i,
             CommitClaim(l, t, o)
      PROVE  item'[i] = item[i]
  BY <1>4 DEF CommitClaim, ClaimCommit, ClaimRollback, StoreInv, LockedIsQueued
<1>5. ASSUME NEW l \in Lanes, NEW t \in Pool, NEW o \in Outcome, thr[l][t].item = i,
             NEW v \in TerminalItem, FinishItem(l, t, v, o)
      PROVE  item'[i] = item[i]
  BY <1>5 DEF FinishItem, UpdateItemTerminal, storeVars
<1> QED BY <1>1, <1>2, <1>3, <1>4, <1>5, ItemMoves DEF ItemMove

\* A commit that fails an item finds it queued, so without a dead letter, and
\* leaves it failed.
LEMMA CondemnedByClaim ==
    ASSUME TypeOK, StoreInv, OnlyEnded,
           NEW k \in Lanes, NEW s \in Pool, NEW i \in Items, i = thr[k][s].item,
           CommitClaim(k, s, "ok"), thr'[k][s].st = "dlq"
    PROVE  /\ thr'[k][s].item = i /\ Ended(i)' /\ dlqItems[i] = 0 /\ ~Ended(i)
           /\ dlqItems' = dlqItems
<1> USE DEF TypeOK, StoreTypeOK, PassTypeOK, QueueTypeOK
<1>1. i \in locks /\ item[i].status = "queued"
  BY DEF CommitClaim, ClaimCommit, StoreInv, LockedIsQueued
<1>2. thr' = [thr EXCEPT ![k][s] = [st |-> IF Exhausted(i) THEN "dlq" ELSE "work", item |-> i]]
  BY DEF CommitClaim, Thread
<1>3. Exhausted(i) /\ thr'[k][s].item = i
  BY <1>2
<1>4. Ended(i)'
  BY <1>3 DEF CommitClaim, ClaimCommit, Ended
<1>5. dlqItems[i] = 0
  <2>1. dlqItems[i] \in Nat /\ ~(dlqItems[i] > 0)
    BY <1>1 DEF OnlyEnded, Ended
  <2> QED BY <2>1
<1>6. dlqItems' = dlqItems
  BY DEF CommitClaim, queueVars
<1> QED BY <1>1, <1>3, <1>4, <1>5, <1>6 DEF Ended

\* The goroutine that dead-letters an item forgets it, or sends the entry again.
LEMMA DeadLetterDone ==
    ASSUME TypeOK, NEW l \in Lanes, NEW t \in Pool, NEW o \in SendOutcome,
           DeadLetterItem(l, t, o)
    PROVE  /\ Letting(l, t) /\ thr'[l][t].st \in {"claim", "resend"}
           /\ o = "resent" => thr'[l][t] = [st |-> "resend", item |-> thr[l][t].item]
BY DEF DeadLetterItem, InPool, Thread, Letting, TypeOK, PassTypeOK

\* A goroutine in such a call was in it before, or its claim has just failed the item.
Stays(k, s) ==
    /\ Letting(k, s) /\ thr'[k][s].item = thr[k][s].item
    /\ thr'[k][s].st = "dlq" => thr[k][s].st = "dlq"
LEMMA LettingMoves ==
    ASSUME TypeOK, [Next]_vars, NEW k \in Lanes, NEW s \in Pool, Letting(k, s)'
    PROVE  Stays(k, s) \/ (CommitClaim(k, s, "ok") /\ thr'[k][s].st = "dlq")
<1>1. CASE thr'[k][s] = thr[k][s]
  BY <1>1 DEF Letting, Stays
<1>2. CASE CommitClaim(k, s, "ok")
  <2>1. thr'[k][s].st \in {"dlq", "work"}
    BY <1>2 DEF CommitClaim, Thread, TypeOK, PassTypeOK
  <2>2. thr'[k][s].st # "work"
    BY ONLY Letting(k, s)' DEF Letting
  <2> QED BY ONLY <1>2, <2>1, <2>2
<1>3. CASE DeadLetterItem(k, s, "resent")
  <2>1. Letting(k, s) /\ thr'[k][s] = [st |-> "resend", item |-> thr[k][s].item]
    BY <1>3, DeadLetterDone DEF SendOutcome
  <2> QED BY <2>1 DEF Stays
<1> QED BY <1>1, <1>2, <1>3, ThreadMoves DEF ThreadMove, Letting

\* One call of PublishDLQ for each failed item.
LEMMA CondemnedStep ==
    ASSUME TypeOK, TypeOK', StoreInv, StoreInv', ItemsOfStored, OnlyEnded, Condemned,
           [Next]_vars
    PROVE  OnlyEnded' /\ Condemned'
<1> USE DEF TypeOK, PassTypeOK, QueueTypeOK
<1>0. \A k \in Lanes, s \in Pool :
         /\ Letting(k, s) => thr[k][s].item \in Items
         /\ Letting(k, s)' => thr'[k][s].item \in Items
  BY DEF StoreInv, HandlesJob, Busy, Letting
<1>1. ASSUME NEW k \in Lanes, NEW s \in Pool, CommitClaim(k, s, "ok"), thr'[k][s].st = "dlq"
      PROVE  \E i \in Items :
                /\ i = thr'[k][s].item /\ Ended(i)' /\ dlqItems[i] = 0 /\ ~Ended(i)
                /\ dlqItems' = dlqItems
  <2>1. thr[k][s].item \in Items
    BY <1>1 DEF CommitClaim, InPool, StoreInv, HandlesJob, Busy
  <2> QED BY <1>1, <2>1, CondemnedByClaim
<1>2. ASSUME NEW k \in Lanes, NEW s \in Pool, Letting(k, s)', Stays(k, s),
             NEW i \in Items, i = thr[k][s].item
      PROVE  Ended(i) /\ Ended(i)' /\ (thr'[k][s].st = "dlq" => dlqItems'[i] = 0)
  <2>1. Ended(i) /\ (thr'[k][s].st = "dlq" => dlqItems[i] = 0)
    BY <1>2 DEF Condemned, Stays
  <2>2. Ended(i)'
    BY <2>1, EndedKept
  <2>3. ASSUME NEW l \in Lanes, NEW t \in Pool, NEW o \in SendOutcome, thr'[k][s].st = "dlq",
               DeadLetterItem(l, t, o), PublishDLQItem(thr[l][t].item)
        PROVE  dlqItems'[i] = dlqItems[i]
    <3>1. thr[l][t].item # i
      <4>1. Letting(l, t) /\ thr'[l][t].st # "dlq"
        BY <2>3, DeadLetterDone
      <4>2. ~(l = k /\ t = s) /\ Letting(k, s)
        BY <1>2, <2>3, <4>1 DEF Stays
      <4> QED BY <1>2, <4>1, <4>2 DEF Condemned
    <3> QED BY <2>3, <3>1 DEF PublishDLQItem
  <2> QED BY <2>1, <2>2, <2>3, DLQMoves DEF DLQMove
<1>3. OnlyEnded'
  <2> SUFFICES ASSUME NEW i \in Items, dlqItems'[i] > 0 PROVE Ended(i)'
    BY DEF OnlyEnded
  <2>1. CASE dlqItems'[i] = dlqItems[i]
    BY <2>1, EndedKept DEF OnlyEnded
  <2>2. ASSUME NEW l \in Lanes, NEW t \in Pool, NEW o \in SendOutcome,
               DeadLetterItem(l, t, o), thr[l][t].item = i
        PROVE  Ended(i)'
    BY <2>2, DeadLetterDone, EndedKept DEF Condemned
  <2>3. ASSUME NEW l \in Lanes, NEW t \in Pool, PublishDLQItem(thr[l][t].item), thr[l][t].item # i
        PROVE  dlqItems'[i] = dlqItems[i]
    BY <2>3 DEF PublishDLQItem
  <2> QED BY <2>1, <2>2, <2>3, DLQMoves DEF DLQMove
<1>4. ASSUME NEW k \in Lanes, NEW s \in Pool, Letting(k, s)'
      PROVE  \E i \in Items : /\ i = thr'[k][s].item /\ Ended(i)'
                              /\ thr'[k][s].st = "dlq" => dlqItems'[i] = 0
  <2>1. CASE Stays(k, s)
    <3>1. PICK i \in Items : i = thr[k][s].item /\ i = thr'[k][s].item
      BY <1>0, <1>4, <2>1 DEF Stays
    <3> QED BY <1>2, <1>4, <2>1, <3>1
  <2>2. CASE CommitClaim(k, s, "ok") /\ thr'[k][s].st = "dlq"
    <3>1. PICK i \in Items : /\ i = thr'[k][s].item /\ Ended(i)' /\ dlqItems[i] = 0
                             /\ dlqItems' = dlqItems
      BY <1>1, <2>2
    <3> QED BY <3>1
  <2> QED BY <1>4, <2>1, <2>2, LettingMoves
<1>5. ASSUME NEW k \in Lanes, NEW l \in Lanes, NEW s \in Pool, NEW t \in Pool,
             Letting(k, s)', Letting(l, t)',
             thr'[k][s].item = thr'[l][t].item, ~(k = l /\ s = t)
      PROVE  FALSE
  <2>a. \A n \in Lanes, u \in Pool : Letting(n, u)' /\ Stays(n, u) =>
           \E i \in Items : i = thr'[n][u].item /\ Ended(i)
    BY <1>0, <1>2 DEF Stays
  <2>1. CASE Stays(k, s) /\ Stays(l, t)
    BY <1>5, <2>1 DEF Condemned, Stays
  <2>2. CASE CommitClaim(k, s, "ok") /\ thr'[k][s].st = "dlq" /\ Stays(l, t)
    BY <1>1, <1>5, <2>a, <2>2
  <2>3. CASE CommitClaim(l, t, "ok") /\ thr'[l][t].st = "dlq" /\ Stays(k, s)
    BY <1>1, <1>5, <2>a, <2>3
  <2>4. CASE /\ CommitClaim(k, s, "ok") /\ thr'[l][t].st = "dlq"
             /\ CommitClaim(l, t, "ok")
    <3>1. thr[l][t].st = "lock"
      BY <2>4 DEF CommitClaim, InPool
    <3>2. thr' = [thr EXCEPT ![k][s] =
                     [st |-> IF Exhausted(thr[k][s].item) THEN "dlq" ELSE "work",
                      item |-> thr[k][s].item]]
      BY <2>4 DEF CommitClaim, Thread
    <3>3. thr'[l][t] = thr[l][t]
      BY <1>5, <3>2
    <3> QED BY <2>4, <3>1, <3>3
  <2> QED BY <1>5, <2>1, <2>2, <2>3, <2>4, LettingMoves
<1>6. Condemned'
  <2>1. ASSUME NEW k \in Lanes, NEW s \in Pool, Letting(k, s)'
        PROVE  /\ item'[thr'[k][s].item].status \in {"failed", "gone"}
               /\ thr'[k][s].st = "dlq" => dlqItems'[thr'[k][s].item] = 0
    BY <1>4, <2>1 DEF Ended
  <2> QED BY ONLY <1>5, <2>1 DEF Condemned, Ended, Letting
<1> QED BY <1>3, <1>6

\* A pass that is not idle has a message, and acks one without a job only with
\* its dead letter written.
MootHeld(l) ==
    /\ pc[l] # "idle" => cur[l] # NoMsg
    /\ pc[l] = "ack" /\ JobOfMsg(l) = NoJob => cur[l] \in dlqMsgs

\* DropMessage writes the dead letter before the pass goes on to the ack.
LEMMA MootHeldStep ==
    ASSUME TypeOK, TypeOK', StoreInv, [Next]_vars, NEW l \in Lanes, MootHeld(l)
    PROVE  MootHeld(l)'
<1> USE DEF TypeOK, PassTypeOK, QueueTypeOK
<1>0. cur[l] # NoMsg => cur[l] \in Msgs /\ stream'[cur[l]] = stream[cur[l]]
  <2>1. cur[l] # NoMsg => cur[l] \in 1..Len(stream)
    BY DEF NoMsg
  <2>2. cur[l] # NoMsg => cur[l] \in Msgs
    BY <2>1 DEF Msgs
  <2> QED BY <2>2, StreamGrows
<1>1. dlqMsgs \subseteq dlqMsgs'
  BY DLQMoves DEF DLQMove
<1>2. CASE pc'[l] = pc[l] /\ cur'[l] = cur[l]
  BY <1>0, <1>1, <1>2 DEF MootHeld, JobOfMsg
<1>3. CASE pc'[l] = "idle"
  BY <1>3 DEF MootHeld
<1>4. CASE StartMessage(l) /\ cur'[l] \in batch[l]
          /\ pc'[l] = IF stream[cur'[l]] = NoJob THEN "drop" ELSE "mark"
  BY <1>4 DEF MootHeld, NoMsg
<1>5. CASE MarkRunning(l, "ok") \/ RequeueRunning(l, "ok") \/ JoinPool(l) \/ Recount(l)
  <2>1. pc[l] # "idle" /\ pc'[l] # "ack"
    BY <1>5 DEF MarkRunning, RequeueRunning, JoinPool, Recount, GoTo, EndPass
  <2>2. cur'[l] = cur[l] \/ pc'[l] = "idle"
    BY <1>5 DEF MarkRunning, RequeueRunning, JoinPool, Recount, GoTo, EndPass
  <2> QED BY <2>1, <2>2 DEF MootHeld
<1>6. CASE Rewrite(l, "ok")
  BY <1>0, <1>6 DEF Rewrite, GoTo, MootHeld, JobOfMsg, StoreInv, HandlesJob
<1>7. CASE DropMessage(l, "ok")
  BY <1>7 DEF DropMessage, PublishDLQMsg, GoTo, MootHeld
<1> QED BY <1>2, <1>3, <1>4, <1>5, <1>6, <1>7, PassMoves DEF PassMove

\* What the consumer group has delivered and acked was acked by a pass.
LEMMA MootStep ==
    ASSUME TypeOK, TypeOK', \A l \in Lanes : MootHeld(l), MootLeavesRecord, [Next]_vars
    PROVE  MootLeavesRecord'
<1> USE DEF TypeOK, QueueTypeOK
<1> SUFFICES ASSUME NEW m \in 1..cursor', stream'[m] = NoJob, m \notin pel'
             PROVE  m \in dlqMsgs'
  BY DEF MootLeavesRecord
<1>1. dlqMsgs \subseteq dlqMsgs'
  BY DLQMoves DEF DLQMove
<1>2. m \in Msgs
  <2>1. CASE UNCHANGED <<stream, cursor, pel>>
    BY <2>1 DEF Msgs
  <2>2. ASSUME NEW c \in Jobs \cup {NoJob}, Publish(c) PROVE m \in Msgs
    BY <2>2 DEF Publish, Msgs
  <2>3. CASE ReadGroup
    BY <2>3 DEF ReadGroup, Msgs
  <2>4. ASSUME NEW l \in Lanes, Ack(cur[l]) PROVE m \in Msgs
    BY <2>4 DEF Ack, Msgs
  <2> QED BY <2>1, <2>2, <2>3, <2>4, QueueMoves
<1>3. stream[m] = NoJob
  BY <1>2, StreamGrows
<1>4. CASE m \in Unacked
  <2>1. m \notin Unacked'
    BY DEF Unacked, Unread
  <2>2. PICK l \in Lanes, o \in Outcome : AckMessage(l, o) /\ cur[l] = m
    BY <1>4, <2>1, AckedByHolder
  <2>3. m \in dlqMsgs
    BY <1>3, <2>2 DEF AckMessage, MootHeld, JobOfMsg
  <2> QED BY <1>1, <2>3
<1>5. CASE m \notin Unacked
  BY <1>1, <1>2, <1>3, <1>5 DEF Unacked, Unread, Msgs, MootLeavesRecord
<1> QED BY <1>4, <1>5

\* The invariant of dead letters.
DeadLetterInv ==
    /\ StoreInv /\ ItemsOfStored /\ OnlyEnded /\ Condemned
    /\ \A l \in Lanes : MootHeld(l)
    /\ MootLeavesRecord

\* It holds always, whether or not reclaiming is patient.
LEMMA DeadLetterInvariance == Spec => [](TypeOK /\ DeadLetterInv)
<1>1. Init => DeadLetterInv
  <2> SUFFICES ASSUME Init PROVE DeadLetterInv
    OBVIOUS
  <2>1. StoreInv
    BY IndInvInit DEF IndInv, Init, StoreInv, HandlesJob, SnapBehind, Parked, Busy
  <2>2. ItemsOfStored /\ Condemned /\ \A l \in Lanes : MootHeld(l)
    BY DEF Init, StoreInit, ItemsOfStored, Condemned, Letting, MootHeld, Parked
  <2>3. OnlyEnded /\ MootLeavesRecord
    BY DEF Init, OnlyEnded, MootLeavesRecord
  <2> QED BY <2>1, <2>2, <2>3 DEF DeadLetterInv
<1>2. ASSUME TypeOK, TypeOK', DeadLetterInv, [Next]_vars PROVE DeadLetterInv'
  <2>1. StoreInv' /\ ItemsOfStored'
    BY <1>2, StoreInvStep, ItemsOfStoredStep DEF DeadLetterInv
  <2>2. OnlyEnded' /\ Condemned'
    BY <1>2, <2>1, CondemnedStep DEF DeadLetterInv
  <2>3. \A l \in Lanes : MootHeld(l)'
    BY <1>2, MootHeldStep DEF DeadLetterInv
  <2>4. MootLeavesRecord'
    BY <1>2, MootStep DEF DeadLetterInv
  <2> QED BY <2>1, <2>2, <2>3, <2>4 DEF DeadLetterInv
<1> QED BY <1>1, <1>2, TypeCorrect, PTL DEF Spec

\* One call of PublishDLQ names an exhausted item, whatever is delivered twice, and
\* none names an item that has not failed (processItems; worker.go: "the single DLQ
\* entry for it").  Entries beyond the first come from the client's resending.
THEOREM SingleDeadLetter == Spec => DeadLetterOnce
<1>1. ASSUME TypeOK, DeadLetterInv, [Next]_vars,
             NEW i \in Items, dlqItems'[i] # dlqItems[i]
      PROVE  /\ item[i].status \in {"failed", "gone"}
             /\ dlqItems[i] > 0 =>
                   \E l \in Lanes, t \in Pool : thr[l][t] = [st |-> "resend", item |-> i]
  <2> USE <1>1 DEF TypeOK, PassTypeOK, QueueTypeOK
  <2>1. PICK l \in Lanes, t \in Pool, o \in SendOutcome :
           DeadLetterItem(l, t, o) /\ PublishDLQItem(thr[l][t].item)
    BY DLQMoves DEF DLQMove
  <2>2. thr[l][t].item = i
    BY <2>1 DEF PublishDLQItem
  <2>3. Letting(l, t)
    BY <2>1, DeadLetterDone
  <2>4. Ended(i) /\ (thr[l][t].st = "dlq" => dlqItems[i] = 0)
    BY <2>2, <2>3 DEF DeadLetterInv, Condemned
  <2>5. dlqItems[i] > 0 => thr[l][t] = [st |-> "resend", item |-> i]
    <3>1. dlqItems[i] > 0 => thr[l][t].st = "resend"
      BY <2>3, <2>4 DEF Letting
    <3>2. thr[l][t] \in [st : ThreadState, item : Items \cup {NoItem}]
      OBVIOUS
    <3> QED BY ONLY <2>2, <3>1, <3>2
  <2> QED BY <2>4, <2>5 DEF Ended
<1>2. ASSUME TypeOK, DeadLetterInv, [Next]_vars
      PROVE  [\A i \in Items : dlqItems'[i] # dlqItems[i] =>
                /\ item[i].status \in {"failed", "gone"}
                /\ dlqItems[i] > 0 =>
                      \E l \in Lanes, t \in Pool : thr[l][t] = [st |-> "resend", item |-> i]]_vars
  BY <1>1, <1>2
<1> QED BY <1>2, DeadLetterInvariance, PTL DEF Spec, DeadLetterOnce

\* A message nobody can process is acked only with its dead letter written
\* (handleMessage).
THEOREM MootOnRecord == Spec => []MootLeavesRecord
<1>1. DeadLetterInv => MootLeavesRecord BY DEF DeadLetterInv
<1> QED BY <1>1, DeadLetterInvariance, PTL

-----------------------------------------------------------------------------
(***************************************************************************)
(* Attempts bound the calls in progress for an item.                       *)
(***************************************************************************)

\* The claims of an item that are still worked on, counted; a row is inserted
\* with no attempts.
Counted ==
    \A i \in Items :
        /\ IsFiniteSet(Holding(i)) /\ Cardinality(Holding(i)) <= item[i].attempts
        /\ job[JobOf[i]].status = "absent" => item[i].attempts = 0

\* No statement takes an attempt back, and only a claim counts one.
LEMMA AttemptsStay ==
    ASSUME TypeOK, TypeOK', StoreInv, ItemsOfStored, Counted, [Next]_vars, NEW i \in Items
    PROVE  /\ item'[i].attempts >= item[i].attempts
           /\ job'[JobOf[i]].status = "absent" => item'[i].attempts = 0
<1>1. PICK j \in Jobs : j = JobOf[i]
  BY StoreAssumption
<1> USE DEF TypeOK, StoreTypeOK
<1>0. /\ item[i].attempts \in 0..MaxAttempts /\ item'[i].attempts \in 0..MaxAttempts
      /\ item[i].attempts \in Int /\ item'[i].attempts \in Int /\ MaxAttempts \in Nat
  BY StoreAssumption
<1>a. job'[j].status = "absent" => job[j].status = "absent" /\ item[i].attempts = 0
  BY <1>1, StoredStays DEF Counted
<1>b. ASSUME item'[i].attempts = item[i].attempts
      PROVE  /\ item'[i].attempts >= item[i].attempts
             /\ job'[j].status = "absent" => item'[i].attempts = 0
  BY <1>0, <1>a, <1>b
<1>2. CASE DeleteJob(j)
  <2>1. item'[i].attempts = item[i].attempts
    BY <1>1, <1>2 DEF DeleteJob, CascadeDelete
  <2> QED BY <1>1, <1>b, <2>1
<1>3. ASSUME NEW o \in Outcome, CreateBatchJob(j, o)
      PROVE  item'[i].attempts = item[i].attempts
  <2>1. CASE o = "failed"
    BY <1>3, <2>1 DEF CreateBatchJob, storeVars
  <2>2. CASE o # "failed"
    BY <1>1, <1>3, <2>2 DEF CreateBatchJob, CreateWithItemsAndOutbox, Counted
  <2> QED BY <2>1, <2>2
<1>4. ASSUME NEW l \in Lanes, NEW o \in Outcome, RequeueRunning(l, o)
      PROVE  item'[i].attempts = item[i].attempts
  BY <1>4 DEF RequeueRunning, RequeueRunningItems, storeVars
<1>5. ASSUME NEW l \in Lanes, NEW t \in Pool, NEW o \in Outcome, thr[l][t].item = i,
             CommitClaim(l, t, o)
      PROVE  /\ item'[i].attempts = item[i].attempts \/ item'[i].attempts = item[i].attempts + 1
             /\ job[j].status = "absent" => item'[i].attempts = item[i].attempts
  <2>1. CASE o = "failed"
    BY <1>5, <2>1 DEF CommitClaim, ClaimRollback
  <2>2. CASE o # "failed"
    <3>1. i \in locks /\ item[i].status = "queued"
      BY <1>5, <2>2 DEF CommitClaim, ClaimCommit, StoreInv, LockedIsQueued
    <3>2. job[j].status # "absent"
      BY <1>1, <3>1 DEF ItemsOfStored
    <3> QED BY <1>5, <2>2, <3>2 DEF CommitClaim, ClaimCommit
  <2> QED BY <2>1, <2>2
<1>6. ASSUME NEW l \in Lanes, NEW t \in Pool, NEW o \in Outcome, thr[l][t].item = i,
             NEW v \in TerminalItem, FinishItem(l, t, v, o)
      PROVE  item'[i].attempts = item[i].attempts
  BY <1>6 DEF FinishItem, UpdateItemTerminal, storeVars
<1>7. \/ item'[i].attempts = item[i].attempts
      \/ /\ item'[i].attempts = item[i].attempts + 1
         /\ job[j].status # "absent"
  <2>1. CASE DeleteJob(j)
    BY <1>1, <2>1 DEF DeleteJob, CascadeDelete
  <2> QED BY <1>1, <1>3, <1>4, <1>5, <1>6, <2>1, ItemMoves DEF ItemMove
<1> QED
  <2>1. item'[i].attempts = item[i].attempts + 1 => item'[i].attempts >= item[i].attempts
    BY ONLY <1>0
  <2> QED BY ONLY <1>1, <1>7, <1>a, <1>b, <2>1

\* A claim that starts work counts one more attempt and adds one goroutine.
LEMMA ClaimCounts ==
    ASSUME TypeOK, NEW k \in Lanes, NEW s \in Pool, NEW i \in Items, CommitClaim(k, s, "ok"),
           thr'[k][s].st = "work", thr'[k][s].item = i
    PROVE  /\ item'[i].attempts = item[i].attempts + 1
           /\ Holding(i)' \subseteq Holding(i) \cup {<<k, s>>}
<1> USE DEF TypeOK, StoreTypeOK, PassTypeOK
<1>1. PICK x \in Items \cup {NoItem} : x = thr[k][s].item
  OBVIOUS
<1>2. thr' = [thr EXCEPT ![k][s] = [st |-> IF Exhausted(x) THEN "dlq" ELSE "work", item |-> x]]
  BY <1>1 DEF CommitClaim, Thread
<1>3. x = i /\ ~Exhausted(i)
  BY <1>2
<1>4. item'[i].attempts = item[i].attempts + 1
  BY <1>1, <1>3 DEF CommitClaim, ClaimCommit
<1>5. ASSUME NEW h \in Holding(i)' PROVE h \in Holding(i) \cup {<<k, s>>}
  <2>1. PICK l \in Lanes, t \in Pool : h = <<l, t>>
    BY DEF Holding
  <2>2. thr'[l][t].st = "work" /\ thr'[l][t].item = i
    BY <2>1 DEF Holding
  <2>3. CASE l = k /\ t = s
    BY <2>1, <2>3
  <2>4. CASE ~(l = k /\ t = s)
    <3>1. thr'[l][t] = thr[l][t]
      BY <1>2, <2>4
    <3> QED BY <2>1, <2>2, <3>1 DEF Holding
  <2> QED BY <2>3, <2>4
<1> QED BY <1>4, <1>5

LEMMA CountedStep ==
    ASSUME TypeOK, TypeOK', StoreInv, ItemsOfStored, Counted, [Next]_vars
    PROVE  Counted'
<1> SUFFICES ASSUME NEW i \in Items
             PROVE  /\ IsFiniteSet(Holding(i)')
                    /\ Cardinality(Holding(i)') <= item'[i].attempts
  BY AttemptsStay DEF Counted
<1>0. /\ item[i].attempts \in Int /\ item'[i].attempts \in Int
      /\ IsFiniteSet(Holding(i)) /\ Cardinality(Holding(i)) <= item[i].attempts
      /\ item'[i].attempts >= item[i].attempts
  BY AttemptsStay, StoreAssumption DEF TypeOK, StoreTypeOK, Counted
<1>1. CASE \E k \in Lanes, s \in Pool :
              CommitClaim(k, s, "ok") /\ thr'[k][s].st = "work" /\ thr'[k][s].item = i
  <2>1. PICK k \in Lanes, s \in Pool :
           /\ item'[i].attempts = item[i].attempts + 1
           /\ Holding(i)' \subseteq Holding(i) \cup {<<k, s>>}
    BY <1>1, ClaimCounts
  <2> DEFINE S == Holding(i) \cup {<<k, s>>}
  <2>2. /\ IsFiniteSet(S)
        /\ Cardinality(S) = Cardinality(Holding(i)) \/ Cardinality(S) = Cardinality(Holding(i)) + 1
    BY <1>0, FS_AddElement
  <2>3. IsFiniteSet(Holding(i)') /\ Cardinality(Holding(i)') <= Cardinality(S)
    BY <2>1, <2>2, FS_Subset
  <2>4. /\ Cardinality(S) \in Nat /\ Cardinality(Holding(i)) \in Nat
        /\ Cardinality(Holding(i)') \in Nat
    BY <1>0, <2>2, <2>3, FS_CardinalityType
  <2> QED BY ONLY <1>0, <2>1, <2>2, <2>3, <2>4
<1>2. CASE ~\E k \in Lanes, s \in Pool :
              CommitClaim(k, s, "ok") /\ thr'[k][s].st = "work" /\ thr'[k][s].item = i
  <2>1. ASSUME NEW h \in Holding(i)' PROVE h \in Holding(i)
    <3>1. PICK l \in Lanes, t \in Pool : h = <<l, t>>
      BY DEF Holding
    <3>2. thr'[l][t].st = "work" /\ thr'[l][t].item = i
      BY <3>1 DEF Holding
    <3>3. thr'[l][t] = thr[l][t]
      BY <1>2, <3>2, WorkMoves DEF WorkMove
    <3> QED BY <3>1, <3>2, <3>3 DEF Holding
  <2>2. IsFiniteSet(Holding(i)') /\ Cardinality(Holding(i)') <= Cardinality(Holding(i))
    BY <1>0, <2>1, FS_Subset
  <2>3. Cardinality(Holding(i)) \in Nat /\ Cardinality(Holding(i)') \in Nat
    BY <1>0, <2>2, FS_CardinalityType
  <2>4. ASSUME NEW a \in Nat, NEW b \in Nat, NEW c \in Int, NEW d \in Int,
               a <= b, b <= c, c <= d
        PROVE  a <= d
    BY ONLY <2>4
  <2>5. Cardinality(Holding(i)') <= item'[i].attempts
    BY ONLY <1>0, <2>2, <2>3, <2>4
  <2> QED BY ONLY <2>2, <2>5
<1> QED BY <1>1, <1>2

\* However often passes requeue an item (RequeueRunningItems) and others claim it
\* again, it has no more calls in progress than ClaimNextQueuedItem has counted,
\* hence at most MaxAttempts.
THEOREM CallsCounted == Spec => []HoldersWithinAttempts
<1>1. Init => Counted
  <2> SUFFICES ASSUME Init, NEW i \in Items
               PROVE  /\ IsFiniteSet(Holding(i)) /\ Cardinality(Holding(i)) <= item[i].attempts
                      /\ item[i].attempts = 0
    BY DEF Counted
  <2>1. Holding(i) = {}
    BY DEF Init, Parked, Holding
  <2>2. item[i].attempts = 0
    BY DEF Init, StoreInit
  <2> QED BY <2>1, <2>2, FS_EmptySet
<1>2. ASSUME TypeOK, TypeOK', DeadLetterInv, Counted, [Next]_vars PROVE Counted'
  BY <1>2, CountedStep DEF DeadLetterInv
<1>3. Counted => HoldersWithinAttempts
  BY DEF Counted, HoldersWithinAttempts
<1> QED BY <1>1, <1>2, <1>3, DeadLetterInvariance, PTL DEF Spec

=============================================================================
