------------------------- MODULE BatchPipelineSole --------------------------
(***************************************************************************)
(* The batch pipeline when a job has one message and reclaiming is         *)
(* patient, for any number of workers, goroutines, jobs, items, faults and *)
(* crashes: each item is in one goroutine's hands, a job moves along its   *)
(* lifecycle and its stored status converges.                              *)
(***************************************************************************)
EXTENDS BatchPipelineStore

\* The stream only grows: a job with one message has not had more before.
LEMMA SoleBefore ==
    ASSUME TypeOK, [Next]_vars, NEW j, SoleMessage(j)' PROVE SoleMessage(j)
<1>1. Msgs \subseteq Msgs' /\ \A m \in Msgs : stream'[m] = stream[m]
  BY StreamGrows
<1> QED BY <1>1, Zenon DEF SoleMessage

\* A job with one message is in the hands of one pass at most.
LEMMA OnePass ==
    ASSUME TypeOK, Exclusive, NEW k \in Lanes, NEW l \in Lanes, NEW j,
           pc[k] # "idle", pc[l] # "idle", JobOfMsg(k) = j, JobOfMsg(l) = j,
           SoleMessage(j)
    PROVE  k = l /\ cur[l] \in Msgs /\ Sent(j)
<1>1. cur[k] \in Msgs /\ cur[l] \in Msgs /\ cur[k] # NoMsg
  BY DEF Exclusive, TypeOK, QueueTypeOK, PassTypeOK, Msgs, NoMsg
<1>2. cur[k] = cur[l]
  BY <1>1 DEF SoleMessage, JobOfMsg
<1> QED BY <1>1, <1>2 DEF Exclusive, Sent, JobOfMsg

\* The items that goroutines work on are running, unless they were deleted.
WorksOnRunning ==
    \A l \in Lanes, t \in Pool :
        thr[l][t].st = "work" /\ SoleMessage(JobOf[thr[l][t].item])
            => item[thr[l][t].item].status \in {"running", "gone"}

\* A goroutine's item stays running in its hands: only the pass over its job
\* requeues it, and that pass has its own goroutines done by then.
LEMMA WorkStaysRunning ==
    ASSUME TypeOK, TypeOK', OutboxOrder, Exclusive, PoolOrder, PoolOrder', LockedIsQueued,
           WorksOnRunning, OneHolder, [Next]_vars
    PROVE  WorksOnRunning'
<1>1. ASSUME NEW l \in Lanes, NEW t \in Pool, NEW i \in Items,
             thr'[l][t].st = "work", thr'[l][t].item = i, SoleMessage(JobOf[i])'
      PROVE  item'[i].status \in {"running", "gone"}
  <2>1. CASE CommitClaim(l, t, "ok")
    <3>1. /\ i = thr[l][t].item /\ ~Exhausted(i) /\ ClaimCommit(i)
      <4>1. thr[l][t].item = i
        BY <1>1, <2>1 DEF CommitClaim, Thread, TypeOK, PassTypeOK
      <4>2. thr'[l][t].st = IF Exhausted(i) THEN "dlq" ELSE "work"
        BY <2>1, <4>1 DEF CommitClaim, Thread, TypeOK, PassTypeOK
      <4> QED BY <1>1, <2>1, <4>1, <4>2 DEF CommitClaim
    <3> QED BY <3>1 DEF ClaimCommit, TypeOK, StoreTypeOK
  <2>2. CASE thr'[l][t] = thr[l][t]
    <3>1. SoleMessage(JobOf[i])
      BY <1>1, SoleBefore
    <3>2. item[i].status \in {"running", "gone"}
      BY <1>1, <2>2, <3>1 DEF WorksOnRunning
    <3>3. pc[l] = "pool" /\ JobOfMsg(l) = JobOf[i]
      BY <1>1, <2>2 DEF PoolOrder, InsidePool, Busy
    <3>4. CASE item'[i] = item[i]
      BY <3>2, <3>4
    <3>5. CASE DeleteJob(JobOf[i])
      BY <3>5 DEF DeleteJob, CascadeDelete, TypeOK, StoreTypeOK
    <3>6. ASSUME NEW o \in Outcome, CreateBatchJob(JobOf[i], o) PROVE FALSE
      <4>1. Sent(JobOf[i]) /\ JobOf[i] \in Jobs
        BY <3>1, <3>3, OnePass, StoreAssumption
      <4> QED BY <3>6, <4>1 DEF CreateBatchJob, CreateWithItemsAndOutbox, OutboxOrder
    <3>7. ASSUME NEW k \in Lanes, NEW o \in Outcome, RequeueRunning(k, o),
                 JobOfMsg(k) = JobOf[i]
          PROVE  FALSE
      BY <3>1, <3>3, <3>7, OnePass DEF RequeueRunning
    <3>8. ASSUME NEW k \in Lanes, NEW s \in Pool, NEW o \in Outcome, CommitClaim(k, s, o),
                 thr[k][s].item = i
          PROVE  FALSE
      BY <3>2, <3>8 DEF CommitClaim, InPool, PoolOrder, Locks, LockedIsQueued
    <3>9. ASSUME NEW k \in Lanes, NEW s \in Pool, NEW status \in TerminalItem,
                 NEW o \in Outcome, FinishItem(k, s, status, o), thr[k][s].item = i
          PROVE  FALSE
      <4>1. k = l /\ s = t
        <5>1. thr[k][s].st = "work" /\ thr[l][t].st = "work" /\ thr[l][t].item = i
          BY <1>1, <2>2, <3>9 DEF FinishItem, InPool
        <5> QED BY <3>1, <3>9, <5>1 DEF OneHolder
      <4>2. thr'[k][s].st # "work"
        BY <3>9 DEF FinishItem, Thread, BreakOff, TypeOK, PassTypeOK
      <4> QED BY <1>1, <4>1, <4>2
    <3> QED BY <3>4, <3>5, <3>6, <3>7, <3>8, <3>9, ItemMoves DEF ItemMove
  <2> QED BY <1>1, <2>1, <2>2, WorkMoves DEF WorkMove
<1>2. ASSUME NEW l \in Lanes, NEW t \in Pool, thr'[l][t].st = "work"
      PROVE  thr'[l][t].item \in Items
  BY <1>2 DEF PoolOrder, InsidePool, Busy
<1>3. ASSUME NEW l \in Lanes, NEW t \in Pool, thr'[l][t].st = "work",
             SoleMessage(JobOf[thr[l][t].item])'
      PROVE  item'[thr'[l][t].item].status \in {"running", "gone"}
  <2>1. PICK i \in Items : i = thr'[l][t].item
    BY <1>2, <1>3
  <2>2. SoleMessage(JobOf[i])'
    BY <1>3, <2>1 DEF SoleMessage
  <2> QED BY <1>1, <1>3, <2>1, <2>2
<1> QED BY <1>3 DEF WorksOnRunning

\* So no two goroutines hold an item: a claim commits only on a queued row.
LEMMA OneHolderStep ==
    ASSUME TypeOK, TypeOK', PoolOrder, PoolOrder', LockedIsQueued, WorksOnRunning,
           OneHolder, [Next]_vars
    PROVE  OneHolder'
<1>1. ASSUME NEW k \in Lanes, NEW s \in Pool, NEW l \in Lanes, NEW t \in Pool, NEW i \in Items,
             thr'[k][s].st = "work", thr'[k][s].item = i,
             thr'[l][t].st = "work", thr'[l][t].item = i, SoleMessage(JobOf[i])'
      PROVE  k = l /\ s = t
  <2>1. SoleMessage(JobOf[i])
    BY <1>1, SoleBefore
  <2>2. ASSUME NEW h \in Lanes, NEW r \in Pool, CommitClaim(h, r, "ok"), thr'[h][r].item = i
        PROVE  item[i].status = "queued"
    <3>1. thr[h][r].item = i /\ i \in locks
      BY <2>2 DEF CommitClaim, Thread, ClaimCommit, TypeOK, PassTypeOK
    <3> QED BY <3>1 DEF LockedIsQueued
  <2>3. ASSUME NEW h \in Lanes, NEW r \in Pool, thr[h][r].st = "work", thr[h][r].item = i
        PROVE  item[i].status # "queued"
    BY <2>1, <2>3 DEF WorksOnRunning
  <2>4. CASE thr'[k][s] = thr[k][s] /\ thr'[l][t] = thr[l][t]
    BY <1>1, <2>1, <2>4 DEF OneHolder
  <2>5. CASE CommitClaim(k, s, "ok") /\ ~(k = l /\ s = t)
    <3>0. thr' = [thr EXCEPT ![k][s] = [st |-> IF Exhausted(thr[k][s].item) THEN "dlq" ELSE "work",
                                        item |-> thr[k][s].item]]
      BY <2>5 DEF CommitClaim, Thread
    <3>1. thr'[l][t] = thr[l][t]
      BY <2>5, <3>0 DEF TypeOK, PassTypeOK
    <3> QED BY <1>1, <2>2, <2>3, <2>5, <3>1
  <2>6. CASE CommitClaim(l, t, "ok") /\ ~(k = l /\ s = t)
    <3>0. thr' = [thr EXCEPT ![l][t] = [st |-> IF Exhausted(thr[l][t].item) THEN "dlq" ELSE "work",
                                        item |-> thr[l][t].item]]
      BY <2>6 DEF CommitClaim, Thread
    <3>1. thr'[k][s] = thr[k][s]
      BY <2>6, <3>0 DEF TypeOK, PassTypeOK
    <3> QED BY <1>1, <2>2, <2>3, <2>6, <3>1
  <2> QED BY <1>1, <2>4, <2>5, <2>6, WorkMoves DEF WorkMove
<1>2. ASSUME NEW k \in Lanes, NEW s \in Pool, NEW l \in Lanes, NEW t \in Pool,
             thr'[k][s].st = "work", thr'[l][t].st = "work", thr'[k][s].item = thr'[l][t].item,
             SoleMessage(JobOf[thr[k][s].item])'
      PROVE  k = l /\ s = t
  <2>1. PICK i \in Items : i = thr'[k][s].item
    BY <1>2 DEF PoolOrder, InsidePool, Busy
  <2>2. SoleMessage(JobOf[i])'
    BY <1>2, <2>1 DEF SoleMessage
  <2> QED BY <1>1, <1>2, <2>1, <2>2
<1> QED BY <1>2 DEF OneHolder

\* A job that is deleted, or has been marked running, stays so.
LEMMA JobGoesOn ==
    ASSUME TypeOK, [Next]_vars, NEW j \in Jobs, job[j].status # "absent"
    PROVE  /\ job[j].status # "queued" => job'[j].status # "queued"
           /\ ~Exists(j) => ~Exists(j)'
<1> USE DEF TypeOK, StoreTypeOK, Exists
<1>1. CASE job'[j] = job[j]
  BY <1>1
<1>2. CASE DeleteJob(j)
  BY <1>2 DEF DeleteJob, CascadeDelete
<1>3. ASSUME NEW o \in Outcome, CreateBatchJob(j, o) PROVE FALSE
  BY <1>3 DEF CreateBatchJob, CreateWithItemsAndOutbox
<1>4. ASSUME NEW l \in Lanes, NEW o \in Outcome, MarkRunning(l, o), JobOfMsg(l) = j
      PROVE  /\ job[j].status # "queued" => job'[j].status # "queued"
             /\ ~Exists(j) => ~Exists(j)'
  BY <1>4 DEF MarkRunning, MarkJobRunning, storeVars
<1>5. ASSUME NEW l \in Lanes, NEW o \in Outcome, Rewrite(l, o), JobOfMsg(l) = j
      PROVE  /\ job[j].status # "queued" => job'[j].status # "queued"
             /\ ~Exists(j) => ~Exists(j)'
  <2>1. CASE o = "failed"
    BY <1>5, <2>1 DEF Rewrite, storeVars
  <2>2. CASE o # "failed"
    <3>1. RecomputeWrite(j, snap[l])
      BY <1>5, <2>2 DEF Rewrite
    <3>2. AggregateJobStatus(Cardinality(ItemsOf(j)), snap[l].succeeded, snap[l].failed)
             # "queued"
      BY DEF AggregateJobStatus
    <3> QED BY <3>1, <3>2 DEF RecomputeWrite
  <2> QED BY <2>1, <2>2
<1> QED BY <1>1, <1>2, <1>3, <1>4, <1>5, JobMoves DEF JobMove

\* Nothing touches the items of a job with one message, or its row, but the pass
\* over that message, as long as the job is not deleted.
LEMMA OthersLeaveAlone ==
    ASSUME TypeOK, OutboxOrder, PoolOrder, [Next]_vars,
           NEW j \in Jobs, Sent(j), Exists(j)',
           \A l \in Lanes : JobOfMsg(l) = j => pc[l] \notin {"requeue", "pool"}
    PROVE  /\ \A i \in ItemsOf(j) : item'[i] = item[i]
           /\ RecomputeCounts(j)' = RecomputeCounts(j)
           /\ \/ job'[j] = job[j]
              \/ \E l \in Lanes, o \in Outcome :
                    JobOfMsg(l) = j /\ (MarkRunning(l, o) \/ Rewrite(l, o))
<1>1. ~DeleteJob(j)
  BY DEF DeleteJob, CascadeDelete, Exists, TypeOK, StoreTypeOK
<1>2. \A o \in Outcome : ~CreateBatchJob(j, o)
  BY DEF CreateBatchJob, CreateWithItemsAndOutbox, OutboxOrder
<1>3. ASSUME NEW i \in ItemsOf(j) PROVE item'[i] = item[i]
  <2>1. i \in Items /\ JobOf[i] = j
    BY DEF ItemsOf
  <2>2. ASSUME NEW l \in Lanes, NEW o \in Outcome, RequeueRunning(l, o), JobOfMsg(l) = j
        PROVE  FALSE
    BY <2>2 DEF RequeueRunning
  <2>3. ASSUME NEW l \in Lanes, NEW t \in Pool, NEW o \in Outcome, thr[l][t].item = i,
               CommitClaim(l, t, o)
        PROVE  FALSE
    BY <2>1, <2>3 DEF CommitClaim, InPool, PoolOrder, InsidePool, Busy
  <2>4. ASSUME NEW l \in Lanes, NEW t \in Pool, NEW o \in Outcome, thr[l][t].item = i,
               NEW status \in TerminalItem, FinishItem(l, t, status, o)
        PROVE  FALSE
    BY <2>1, <2>4 DEF FinishItem, InPool, PoolOrder, InsidePool, Busy
  <2> QED BY <1>1, <1>2, <2>1, <2>2, <2>3, <2>4, ItemMoves DEF ItemMove
<1>4. RecomputeCounts(j)' = RecomputeCounts(j)
  <2>1. \A s : WithStatus(j, s)' = WithStatus(j, s)
    BY <1>3 DEF WithStatus, ItemsOf
  <2> QED BY <2>1 DEF RecomputeCounts
<1>5. \/ job'[j] = job[j]
      \/ \E l \in Lanes, o \in Outcome :
            JobOfMsg(l) = j /\ (MarkRunning(l, o) \/ Rewrite(l, o))
  BY <1>1, <1>2, JobMoves DEF JobMove
<1> QED BY <1>3, <1>4, <1>5

\* The stored status is the aggregate of the items.
Reported(j) ==
    job[j].status = AggregateJobStatus(Cardinality(ItemsOf(j)),
                        RecomputeCounts(j).succeeded, RecomputeCounts(j).failed)

\* What a pass over a job has established at each stage: the job is no longer
\* queued, a message is dropped without its job only, the counts read are still
\* the right ones, and the message is acked with the status reported.
Marked(l) ==
    pc[l] \in {"requeue", "pool", "recount", "rewrite"} => job[JobOfMsg(l)].status # "queued"
DropsGone(l) ==
    pc[l] = "drop" /\ JobOfMsg(l) \in Jobs => ~Exists(JobOfMsg(l))
SnapCurrent(l) ==
    pc[l] = "rewrite" /\ Exists(JobOfMsg(l)) /\ SoleMessage(JobOfMsg(l)) =>
        snap[l] = RecomputeCounts(JobOfMsg(l))
AckReported(l) ==
    /\ pc[l] = "ack" /\ JobOfMsg(l) \in Jobs
    /\ Exists(JobOfMsg(l)) /\ SoleMessage(JobOfMsg(l))
    => Reported(JobOfMsg(l))
Stage(l) == Marked(l) /\ DropsGone(l) /\ SnapCurrent(l) /\ AckReported(l)

\* A job is marked running before anything else is done about it, and a message
\* dropped only when its job is gone.
LEMMA MarkedStep ==
    ASSUME TypeOK, TypeOK', OutboxOrder, Exclusive, [Next]_vars,
           NEW k \in Lanes, Marked(k), DropsGone(k)
    PROVE  Marked(k)' /\ DropsGone(k)'
<1>0. ASSUME pc[k] # "idle"
      PROVE  /\ cur[k] \in Msgs /\ JobOfMsg(k) \in Jobs \cup {NoJob}
             /\ JobOfMsg(k) \in Jobs => Sent(JobOfMsg(k))
             /\ pc[k] \notin {"drop", "ack"} => JobOfMsg(k) \in Jobs
  <2>1. cur[k] \in Msgs
    BY <1>0 DEF Exclusive, TypeOK, QueueTypeOK, PassTypeOK, Msgs, NoMsg
  <2> QED BY <1>0, <2>1 DEF Exclusive, TypeOK, QueueTypeOK, Msgs, JobOfMsg, Sent
<1>1. CASE pc'[k] = pc[k] /\ cur'[k] = cur[k] /\ pc[k] # "idle"
  <2>1. PICK j \in Jobs \cup {NoJob} : JobOfMsg(k) = j /\ JobOfMsg(k)' = j
    BY <1>0, <1>1, StreamGrows DEF JobOfMsg
  <2>2. j \in Jobs => job[j].status # "absent"
    BY <1>0, <1>1, <2>1 DEF OutboxOrder
  <2>3. CASE pc[k] = "drop" /\ j \in Jobs
    BY <1>1, <2>1, <2>2, <2>3, JobGoesOn DEF Marked, DropsGone, Exists
  <2>4. CASE pc[k] \in {"requeue", "pool", "recount", "rewrite"}
    BY <1>0, <1>1, <2>1, <2>2, <2>4, JobGoesOn DEF Marked, DropsGone
  <2> QED BY <1>1, <2>1, <2>3, <2>4 DEF Marked, DropsGone
<1>2. CASE pc'[k] \in {"idle", "mark", "ack"}
  BY <1>2 DEF Marked, DropsGone
<1>3. CASE StartMessage(k) /\ cur'[k] \in batch[k]
           /\ pc'[k] = IF stream[cur'[k]] = NoJob THEN "drop" ELSE "mark"
  <2>1. stream' = stream
    BY <1>3 DEF StartMessage, queueVars
  <2> QED BY <1>3, <2>1, PipelineAssumption DEF Marked, DropsGone, JobOfMsg
<1>4. ASSUME pc[k] = "mark", pc'[k] = "requeue", MarkRunning(k, "ok")
      PROVE  Marked(k)' /\ DropsGone(k)'
  <2>1. PICK j \in Jobs : JobOfMsg(k) = j /\ JobOfMsg(k)' = j
    BY <1>0, <1>4 DEF MarkRunning, GoTo, queueVars, JobOfMsg
  <2>2. job'[j].status # "queued"
    BY <1>4, <2>1 DEF MarkRunning, MarkJobRunning, TypeOK, StoreTypeOK
  <2> QED BY <1>4, <2>1, <2>2 DEF Marked, DropsGone
<1>5. ASSUME pc[k] \in {"requeue", "pool", "recount"}, pc'[k] \in {"pool", "recount", "rewrite"},
             cur'[k] = cur[k], UNCHANGED <<stream, job>>
      PROVE  Marked(k)' /\ DropsGone(k)'
  BY <1>5 DEF Marked, DropsGone, JobOfMsg
<1>6. CASE RequeueRunning(k, "ok")
  BY <1>5, <1>6 DEF RequeueRunning, RequeueRunningItems, queueVars, TypeOK, PassTypeOK
<1>7. CASE JoinPool(k)
  BY <1>2, <1>5, <1>7 DEF JoinPool, EndPass, GoTo, storeVars, queueVars, TypeOK, PassTypeOK
<1>8. CASE Recount(k)
  BY <1>5, <1>8 DEF Recount, storeVars, queueVars, TypeOK, PassTypeOK
<1>9. CASE Rewrite(k, "ok")
  <2>1. /\ pc[k] = "rewrite" /\ cur'[k] = cur[k] /\ stream' = stream
        /\ pc'[k] = IF Exists(JobOfMsg(k)) THEN "ack" ELSE "drop"
    BY <1>9 DEF Rewrite, GoTo, queueVars, TypeOK, PassTypeOK
  <2>2. PICK j \in Jobs : JobOfMsg(k) = j /\ JobOfMsg(k)' = j
    BY <1>0, <2>1 DEF JobOfMsg
  <2>3. job[j].status # "absent"
    BY <1>0, <2>1, <2>2 DEF OutboxOrder
  <2> QED BY <2>1, <2>2, <2>3, JobGoesOn DEF Marked, DropsGone, Exists
<1>10. CASE MarkRunning(k, "ok")
  BY <1>4, <1>10 DEF MarkRunning, GoTo, TypeOK, PassTypeOK
<1>11. CASE DropMessage(k, "ok")
  BY <1>2, <1>11 DEF DropMessage, GoTo, TypeOK, PassTypeOK
<1> QED
  BY <1>1, <1>2, <1>3, <1>6, <1>7, <1>8, <1>9, <1>10, <1>11, PassMoves DEF PassMove

\* With one message the counts that a recomputation has read are current when it
\* writes, so that what it writes is the aggregate, up to the ack.
LEMMA ReportStep ==
    ASSUME TypeOK, TypeOK', OutboxOrder, Exclusive, PoolOrder, [Next]_vars,
           NEW k \in Lanes, DropsGone(k), SnapCurrent(k), AckReported(k)
    PROVE  SnapCurrent(k)' /\ AckReported(k)'
<1>0. ASSUME pc[k] # "idle"
      PROVE  /\ cur[k] \in Msgs /\ JobOfMsg(k) \in Jobs \cup {NoJob}
             /\ JobOfMsg(k) \in Jobs => Sent(JobOfMsg(k))
             /\ pc[k] \notin {"drop", "ack"} => JobOfMsg(k) \in Jobs
  <2>1. cur[k] \in Msgs
    BY <1>0 DEF Exclusive, TypeOK, QueueTypeOK, PassTypeOK, Msgs, NoMsg
  <2>2. JobOfMsg(k) \in Jobs \cup {NoJob} /\ JobOfMsg(k) = stream[cur[k]]
    BY <2>1 DEF TypeOK, QueueTypeOK, Msgs, JobOfMsg
  <2>3. JobOfMsg(k) \in Jobs => Sent(JobOfMsg(k))
    BY <2>1, <2>2 DEF Sent
  <2>4. pc[k] \notin {"drop", "ack"} => JobOfMsg(k) \in Jobs
    BY <1>0, <2>2 DEF Exclusive
  <2> QED BY <2>1, <2>2, <2>3, <2>4
<1>a. ASSUME NEW j \in Jobs, JobOfMsg(k)' = j,
             pc'[k] \in {"rewrite", "ack"}, Exists(j)', SoleMessage(j)',
             /\ pc'[k] = "rewrite" => snap'[k] = RecomputeCounts(j)'
             /\ pc'[k] = "ack" => Reported(j)'
      PROVE  SnapCurrent(k)' /\ AckReported(k)'
  <2>1. RecomputeCounts(JobOfMsg(k))' = RecomputeCounts(j)'
    BY <1>a DEF RecomputeCounts, WithStatus, ItemsOf
  <2>2. Reported(JobOfMsg(k))' <=> Reported(j)'
    BY <1>a, <2>1 DEF Reported, ItemsOf
  <2> QED BY <1>a, <2>1, <2>2 DEF SnapCurrent, AckReported
<1>b. ASSUME NEW j \in Jobs, JobOfMsg(k)' = j, ~(Exists(j)' /\ SoleMessage(j)')
      PROVE  SnapCurrent(k)' /\ AckReported(k)'
  <2>1. Exists(JobOfMsg(k))' <=> Exists(j)'
    BY <1>b DEF Exists
  <2>2. SoleMessage(JobOfMsg(k))' <=> SoleMessage(j)'
    BY <1>b DEF SoleMessage
  <2> QED BY <1>b, <2>1, <2>2 DEF SnapCurrent, AckReported
<1>1. CASE pc'[k] = pc[k] /\ cur'[k] = cur[k] /\ snap'[k] = snap[k]
           /\ pc[k] \in {"rewrite", "ack"}
  <2>1. PICK j \in Jobs \cup {NoJob} : JobOfMsg(k) = j /\ JobOfMsg(k)' = j
    BY <1>0, <1>1, StreamGrows DEF JobOfMsg
  <2>2. CASE j = NoJob
    BY <1>0, <1>1, <2>1, <2>2, PipelineAssumption DEF SnapCurrent, AckReported
  <2>3. CASE j \in Jobs /\ Exists(j)' /\ SoleMessage(j)'
    <3>1. Sent(j) /\ Exists(j) /\ SoleMessage(j)
      <4>1. Sent(j) /\ job[j].status # "absent"
        BY <1>0, <1>1, <2>1, <2>3 DEF OutboxOrder
      <4> QED BY <2>3, <4>1, JobGoesOn, SoleBefore
    <3>2. ASSUME NEW l \in Lanes, JobOfMsg(l) = j, pc[l] # "idle" PROVE l = k
      BY <1>1, <2>1, <3>1, <3>2, OnePass
    <3>3. /\ RecomputeCounts(j)' = RecomputeCounts(j)
          /\ \/ job'[j] = job[j]
             \/ \E l \in Lanes, o \in Outcome :
                   JobOfMsg(l) = j /\ (MarkRunning(l, o) \/ Rewrite(l, o))
      BY <1>1, <2>3, <3>1, <3>2, OthersLeaveAlone
    <3>4. CASE pc[k] = "rewrite"
      <4>1. snap[k] = RecomputeCounts(j)
        BY <2>1, <3>1, <3>4 DEF SnapCurrent
      <4> QED BY <1>1, <1>a, <2>1, <2>3, <3>3, <3>4, <4>1
    <3>5. CASE pc[k] = "ack"
      <4>1. job'[j] = job[j]
        BY <3>2, <3>3, <3>5 DEF MarkRunning, Rewrite
      <4>2. Reported(j)
        BY <2>1, <2>3, <3>1, <3>5 DEF AckReported
      <4>3. Reported(j)'
        BY <3>3, <4>1, <4>2 DEF Reported, ItemsOf
      <4> QED BY <1>1, <1>a, <2>1, <2>3, <3>5, <4>3
    <3> QED BY <1>1, <3>4, <3>5
  <2>4. CASE j \in Jobs /\ ~(Exists(j)' /\ SoleMessage(j)')
    BY <1>b, <2>1, <2>4
  <2> QED BY <2>2, <2>3, <2>4
<1>2. CASE pc'[k] \notin {"rewrite", "ack"}
  BY <1>2 DEF SnapCurrent, AckReported
<1>3. CASE Recount(k)
  <2>1. /\ pc[k] = "recount" /\ pc'[k] = "rewrite" /\ cur'[k] = cur[k]
        /\ snap'[k] = RecomputeCounts(JobOfMsg(k)) /\ UNCHANGED <<stream, item>>
    BY <1>3 DEF Recount, storeVars, queueVars, TypeOK, PassTypeOK
  <2>2. PICK j \in Jobs : JobOfMsg(k) = j /\ JobOfMsg(k)' = j
    BY <1>0, <2>1 DEF JobOfMsg
  <2>3. RecomputeCounts(j)' = RecomputeCounts(j)
    BY <2>1 DEF RecomputeCounts, WithStatus, ItemsOf
  <2> QED BY <1>a, <1>b, <2>1, <2>2, <2>3
<1>4. CASE Rewrite(k, "ok") /\ pc'[k] = "ack"
  <2>1. /\ pc[k] = "rewrite" /\ cur'[k] = cur[k] /\ Exists(JobOfMsg(k))
        /\ RecomputeWrite(JobOfMsg(k), snap[k]) /\ stream' = stream
    BY <1>4 DEF Rewrite, GoTo, queueVars, TypeOK, PassTypeOK
  <2>2. PICK j \in Jobs : JobOfMsg(k) = j /\ JobOfMsg(k)' = j
    BY <1>0, <2>1 DEF JobOfMsg
  <2>3. CASE SoleMessage(j)' /\ Exists(j)'
    <3>1. snap[k] = RecomputeCounts(j)
      BY <2>1, <2>2, <2>3, SoleBefore DEF SnapCurrent
    <3>2. RecomputeCounts(j)' = RecomputeCounts(j)
      BY <2>1 DEF RecomputeWrite, RecomputeCounts, WithStatus, ItemsOf
    <3>3. job'[j].status = AggregateJobStatus(Cardinality(ItemsOf(j)),
                               snap[k].succeeded, snap[k].failed)
      BY <2>1, <2>2 DEF RecomputeWrite, TypeOK, StoreTypeOK
    <3>4. Reported(j)'
      BY <3>1, <3>2, <3>3 DEF Reported, ItemsOf
    <3> QED BY <1>4, <1>a, <2>2, <2>3, <3>4
  <2>4. CASE ~(SoleMessage(j)' /\ Exists(j)')
    BY <1>b, <2>2, <2>4
  <2> QED BY <2>3, <2>4
<1>5. CASE DropMessage(k, "ok")
  <2>1. /\ pc[k] = "drop" /\ pc'[k] = "ack" /\ cur'[k] = cur[k] /\ UNCHANGED <<stream, job>>
    BY <1>5 DEF DropMessage, PublishDLQMsg, GoTo, storeVars, queueVars, TypeOK, PassTypeOK
  <2> QED BY <2>1 DEF DropsGone, SnapCurrent, AckReported, JobOfMsg, Exists
<1>6. CASE MarkRunning(k, "ok") \/ RequeueRunning(k, "ok") \/ JoinPool(k)
  BY <1>2, <1>6 DEF MarkRunning, RequeueRunning, JoinPool, GoTo, EndPass, TypeOK, PassTypeOK
<1>7. CASE Rewrite(k, "ok") /\ pc'[k] # "ack"
  BY <1>2, <1>7 DEF Rewrite, GoTo, TypeOK, PassTypeOK
<1> QED
  BY <1>1, <1>2, <1>3, <1>4, <1>5, <1>6, <1>7, PassMoves DEF PassMove

\* What remains of a job when all its messages are acked.
AckedReported(j) ==
    /\ Sent(j) /\ SoleMessage(j) /\ Exists(j)
    /\ \A m \in Unacked : stream[m] # j
    => Reported(j)

\* A job is reported when its last message is acked, and stays so.
LEMMA AckedStep ==
    ASSUME TypeOK, TypeOK', OutboxOrder, Exclusive, PoolOrder, [Next]_vars,
           \A l \in Lanes : AckReported(l), NEW j \in Jobs, AckedReported(j)
    PROVE  AckedReported(j)'
<1> SUFFICES ASSUME Sent(j)', SoleMessage(j)', Exists(j)', \A m \in Unacked' : stream'[m] # j
             PROVE  Reported(j)'
  BY DEF AckedReported
<1>1. Sent(j)
  <2>1. ASSUME NEW c \in Jobs \cup {NoJob}, Publish(c) PROVE c # j
    <3>1. Len(stream') = Len(stream) + 1 /\ stream'[Len(stream')] = c
      BY <2>1 DEF Publish, TypeOK, QueueTypeOK
    <3>2. Len(stream') \in Unread'
      BY <2>1, <3>1 DEF Publish, Unread, Msgs, TypeOK, QueueTypeOK
    <3> QED BY <3>1, <3>2 DEF Unacked
  <2>2. ASSUME NEW c \in Jobs \cup {NoJob}, Publish(c), c # j PROVE Sent(j)
    <3>1. PICK m \in Msgs' : stream'[m] = j
      BY DEF Sent
    <3> QED BY <2>2, <3>1 DEF Publish, Sent, Msgs, TypeOK, QueueTypeOK
  <2>3. CASE stream' = stream
    BY <2>3 DEF Sent, Msgs
  <2> QED BY <2>1, <2>2, <2>3, QueueMoves DEF ReadGroup, Ack
<1>2. Exists(j) /\ SoleMessage(j)
  BY <1>1, JobGoesOn, SoleBefore DEF OutboxOrder
<1>3. CASE \E m \in Unacked : stream[m] = j
  <2>1. PICK m \in Unacked : stream[m] = j
    BY <1>3
  <2>2. m \in Msgs /\ stream'[m] = j
    BY <2>1, UnackedMsgs, StreamGrows
  <2>3. PICK l \in Lanes, o \in Outcome : AckMessage(l, o) /\ cur[l] = m
    BY <2>1, <2>2, AckedByHolder
  <2>4. Reported(j)
    BY <1>2, <2>1, <2>3 DEF AckMessage, AckReported, JobOfMsg
  <2>5. UNCHANGED <<job, item>>
    BY <2>3 DEF AckMessage, storeVars
  <2> QED BY <2>4, <2>5 DEF Reported, RecomputeCounts, WithStatus, ItemsOf
<1>4. CASE \A m \in Unacked : stream[m] # j
  <2>1. ASSUME NEW l \in Lanes, JobOfMsg(l) = j PROVE pc[l] = "idle"
    BY <1>4, <2>1 DEF Exclusive, Unacked, JobOfMsg
  <2>2. RecomputeCounts(j)' = RecomputeCounts(j) /\ job'[j] = job[j]
    BY <1>1, <2>1, OthersLeaveAlone DEF MarkRunning, Rewrite
  <2>3. Reported(j)
    BY <1>1, <1>2, <1>4 DEF AckedReported
  <2> QED BY <2>2, <2>3 DEF Reported, ItemsOf
<1> QED BY <1>3, <1>4

\* A stored job has an outbox row, published only once the message is out.
OutboxKept(j) ==
    Exists(j) => outbox[j] = "pending" \/ (outbox[j] = "published" /\ Sent(j))

\* The row is marked published only after the message went out, by the handler
\* and by the drainer.
LEMMA OutboxKeptStep ==
    ASSUME TypeOK, TypeOK', OutboxOrder, [Next]_vars, NEW j \in Jobs, OutboxKept(j)
    PROVE  OutboxKept(j)'
<1> USE DEF TypeOK, StoreTypeOK
<1> SUFFICES ASSUME Exists(j)'
             PROVE  outbox'[j] = "pending" \/ (outbox'[j] = "published" /\ Sent(j)')
  BY DEF OutboxKept
<1>1. Sent(j) => Sent(j)'
  BY StreamGrows
<1>2. ASSUME NEW o \in Outcome, CreateBatchJob(j, o) PROVE outbox'[j] = "pending"
  BY <1>2 DEF CreateBatchJob, CreateWithItemsAndOutbox
<1>3. ~DeleteJob(j)
  BY DEF DeleteJob, CascadeDelete, Exists
<1>4. CASE api[j] = "mark" \/ \E w \in Workers : marking[w] = j
  <2>1. Sent(j) /\ job[j].status # "absent"
    BY <1>4, PipelineAssumption DEF OutboxOrder
  <2>2. Exists(j)
    BY <2>1, JobGoesOn
  <2> QED BY <1>1, <1>2, <1>3, <2>1, <2>2, OutboxMoves DEF OutboxKept
<1>5. ASSUME outbox'[j] = outbox[j], \A o \in Outcome : ~CreateBatchJob(j, o)
      PROVE  Exists(j)
  <2>1. CASE job[j].status # "absent"
    BY <2>1, JobGoesOn
  <2>2. CASE job[j].status = "absent"
    <3>1. ASSUME NEW l \in Lanes, NEW o \in Outcome, MarkRunning(l, o) \/ Rewrite(l, o),
                 JobOfMsg(l) = j
          PROVE  job'[j] = job[j]
      BY <2>2, <3>1 DEF MarkRunning, MarkJobRunning, Rewrite, RecomputeWrite, Exists, storeVars
    <3> QED BY <1>3, <1>5, <2>2, <3>1, JobMoves DEF JobMove, Exists
  <2> QED BY <2>1, <2>2
<1> QED BY <1>1, <1>2, <1>3, <1>4, <1>5, OutboxMoves DEF OutboxKept

\* The invariant of jobs with one message.
SoleInv ==
    /\ OneHolder /\ WorksOnRunning
    /\ \A l \in Lanes : Stage(l)
    /\ \A j \in Jobs : AckedReported(j) /\ OutboxKept(j)

\* Before the first job nothing is held or sent.
LEMMA SoleInvInit ==
    ASSUME Init PROVE SoleInv
<1> USE DEF Init, StoreInit
<1>1. OneHolder /\ WorksOnRunning
  BY DEF OneHolder, WorksOnRunning, Parked
<1>2. \A l \in Lanes : Stage(l)
  BY DEF Stage, Marked, DropsGone, SnapCurrent, AckReported
<1>3. \A j \in Jobs : AckedReported(j) /\ OutboxKept(j)
  BY DEF AckedReported, OutboxKept, Exists
<1> QED BY <1>1, <1>2, <1>3 DEF SoleInv

\* Every step keeps it, given the order of messages, pools and locks that IndInv
\* states.
LEMMA SoleInvStep ==
    ASSUME TypeOK, TypeOK', IndInv, IndInv', SoleInv, [Next]_vars
    PROVE  SoleInv'
<1> USE DEF IndInv, SoleInv
<1>1. OneHolder' /\ WorksOnRunning'
  BY WorkStaysRunning, OneHolderStep
<1>2. \A l \in Lanes : Stage(l)'
  BY MarkedStep, ReportStep DEF Stage
<1>3. \A j \in Jobs : AckedReported(j)' /\ OutboxKept(j)'
  BY AckedStep, OutboxKeptStep DEF Stage
<1> QED BY <1>1, <1>2, <1>3

\* It holds always when reclaiming is patient.
LEMMA SoleInvariance ==
    ASSUME Patient PROVE Spec => [](TypeOK /\ IndInv /\ SoleInv)
<1>1. Init => SoleInv
  BY SoleInvInit
<1>2. ASSUME TypeOK, TypeOK', IndInv, IndInv', SoleInv, [Next]_vars PROVE SoleInv'
  BY <1>2, SoleInvStep
<1> QED BY <1>1, <1>2, Invariance, PTL DEF Spec

\* No two goroutines, of one worker or of two, hold the same item, as long as its
\* job has one message (the pool's comment in worker.go).
THEOREM HeldByOne ==
    ASSUME Patient PROVE Spec => []OneHolder
<1>1. SoleInv => OneHolder BY DEF SoleInv
<1> QED BY <1>1, SoleInvariance, PTL

\* Once its only message is acked, a job's stored status is the aggregate of its
\* items, whatever faults and crashes came before (RecomputeAndUpdateJobStatus).
THEOREM StatusConverges ==
    ASSUME Patient PROVE Spec => []ConvergesAlone
<1>1. SoleInv => ConvergesAlone
  BY DEF SoleInv, ConvergesAlone, Converged, Settled, AckedReported, OutboxKept, Reported
<1> QED BY <1>1, SoleInvariance, PTL

\* A stored job moves only along the valid transitions, as long as it has one
\* message (jobs.ValidJobTransition: "terminal states never change").
THEOREM LifecycleKept ==
    ASSUME Patient PROVE Spec => JobLifecycle
<1> DEFINE A == \A j \in Jobs :
                   /\ Exists(j) /\ SoleMessage(j)
                   /\ job'[j].status \notin {job[j].status, "gone"}
                   => ValidJobTransition(job[j].status, job'[j].status)
<1>1. ASSUME TypeOK, IndInv, SoleInv, TerminalJobTruthful, [Next]_vars PROVE A
  <2> SUFFICES ASSUME NEW j \in Jobs, Exists(j), SoleMessage(j),
                      job'[j].status \notin {job[j].status, "gone"}
               PROVE  ValidJobTransition(job[j].status, job'[j].status)
    OBVIOUS
  <2> USE DEF TypeOK, StoreTypeOK
  <2>1. ~DeleteJob(j) /\ \A o \in Outcome : ~CreateBatchJob(j, o)
    BY <1>1 DEF DeleteJob, CascadeDelete, CreateBatchJob, CreateWithItemsAndOutbox, Exists
  <2>2. ASSUME NEW l \in Lanes, NEW o \in Outcome, MarkRunning(l, o), JobOfMsg(l) = j
        PROVE  ValidJobTransition(job[j].status, job'[j].status)
    BY <1>1, <2>2 DEF MarkRunning, MarkJobRunning, ValidJobTransition, storeVars
  <2>3. ASSUME NEW l \in Lanes, NEW o \in Outcome, Rewrite(l, o), JobOfMsg(l) = j
        PROVE  ValidJobTransition(job[j].status, job'[j].status)
    <3>1. pc[l] = "rewrite" /\ RecomputeWrite(j, snap[l])
      BY <1>1, <2>3 DEF Rewrite, storeVars
    <3>2. Marked(l) /\ SnapCurrent(l)
      BY <1>1 DEF SoleInv, Stage
    <3>3. job[j].status # "queued" /\ snap[l] = RecomputeCounts(j)
      BY <2>3, <3>1, <3>2 DEF Marked, SnapCurrent
    <3>4. job'[j].status = AggregateJobStatus(Cardinality(ItemsOf(j)),
                               RecomputeCounts(j).succeeded, RecomputeCounts(j).failed)
      BY <1>1, <3>1, <3>3 DEF RecomputeWrite
    <3>5. job[j].status \notin TerminalJob
      BY <1>1, <3>4 DEF TerminalJobTruthful
    <3>6. job[j].status = "running"
      BY <1>1, <3>3, <3>5 DEF Exists, JobStatus
    <3> HIDE DEF TypeOK, StoreTypeOK
    <3>7. job'[j].status \in TerminalJob \cup {"running"}
      BY <3>4 DEF AggregateJobStatus, TerminalJob
    <3> QED BY <3>6, <3>7 DEF ValidJobTransition
  <2> QED BY <1>1, <2>1, <2>2, <2>3, JobMoves DEF JobMove
<1> QED BY <1>1, SoleInvariance, PipelineTruthful, PTL DEF Spec, JobLifecycle

=============================================================================
