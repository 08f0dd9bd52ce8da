--------------------------- MODULE BatchPipeline ----------------------------
(***************************************************************************)
(* The batch pipeline: POST /api/v1/batch-jobs (internal/api/batch.go)     *)
(* commits a job and publishes it once; control workers                    *)
(* (internal/worker/worker.go) consume the stream, reclaim idle messages,  *)
(* process items with a pool of goroutines, and drain the outbox.  The     *)
(* store is JobStore, the stream StreamQueue.                              *)
(*                                                                         *)
(* Every call to the store or to Redis is a step of its own with one of    *)
(* three outcomes: it succeeds ("ok"), it has no effect and reports an     *)
(* error ("failed"), or it takes effect and its reply is lost ("lost"), so *)
(* that the caller sees an error.  A call that adds an entry to a stream   *)
(* has a fourth: it takes effect, its reply is lost, and the Redis client  *)
(* sends it again inside the same call ("resent").  A worker or a request  *)
(* handler may crash between any two steps.  A graceful shutdown (the      *)
(* context ends) leaves the same states behind: nothing more is written    *)
(* and nothing is acked.                                                   *)
(***************************************************************************)
EXTENDS JobStore, StreamQueue

CONSTANTS
    Workers,       \* control-worker processes
    Concurrency,   \* WORKER_CONCURRENCY: goroutines in a pass
    OutboxBatch,   \* rows that one drain pass reads at most
    Patient,       \* whether ReclaimMinIdle exceeds the time a live consumer
                   \* holds a message, as worker.go asks of it
    NoJob,         \* content of a message without a usable job id
    NoItem,
    MaxStream,     \* bound: messages ever published
    MaxFaults,     \* bound: calls that report an error
    MaxCrashes,    \* bound: crashes of workers and request handlers
    MaxMoot,       \* bound: cascading deletes and unparseable messages
    MaxTroubles    \* bound: all of these together

ASSUME PipelineAssumption ==
    /\ NoJob \notin Jobs
    /\ NoItem \notin Items
    /\ Patient \in BOOLEAN
    /\ Concurrency \in Nat \ {0}
    /\ {OutboxBatch, MaxStream, MaxFaults, MaxCrashes, MaxMoot,
        MaxTroubles} \subseteq Nat

VARIABLES
    api,        \* where the request handler that creates each job stands
    rows,       \* outbox rows a drain pass has read and not yet published
    marking,    \* the row a drain pass has published and not yet marked
    batch,      \* messages a loop has fetched and not yet started on
    pc,         \* where the pass of each loop stands
    cur,        \* the message it handles
    thr,        \* the goroutines of its pool
    broken,     \* its broken flag
    snap,       \* the counts its recomputation has read
    faults, crashes, moot

clientVars == <<api, rows, marking>>
passVars == <<pc, cur, thr, broken, snap>>
budgetVars == <<faults, crashes, moot>>
vars == <<storeVars, queueVars, clientVars, batch, passVars, budgetVars>>

\* Two loops of a worker handle messages, one at a time each.
Lanes == Workers \X {"consume", "reclaim"}
LanesOf(w) == {w} \X {"consume", "reclaim"}
Pool == 1..Concurrency
NoMsg == 0
JobOfMsg(l) == stream[cur[l]]

ThreadState == {"claim", "lock", "dlq", "resend", "work", "done"}
Parked == [t \in Pool |-> [st |-> "done", item |-> NoItem]]
Started == [t \in Pool |-> [st |-> "claim", item |-> NoItem]]
NoCounts == [succeeded |-> 0, failed |-> 0]

Init ==
    /\ StoreInit
    /\ stream = <<>> /\ cursor = 0 /\ pel = {}
    /\ dlqItems = [i \in Items |-> 0] /\ dlqMsgs = {}
    /\ api = [j \in Jobs |-> "create"]
    /\ rows = [w \in Workers |-> {}]
    /\ marking = [w \in Workers |-> NoJob]
    /\ batch = [l \in Lanes |-> {}]
    /\ pc = [l \in Lanes |-> "idle"]
    /\ cur = [l \in Lanes |-> NoMsg]
    /\ thr = [l \in Lanes |-> Parked]
    /\ broken = [l \in Lanes |-> FALSE]
    /\ snap = [l \in Lanes |-> NoCounts]
    /\ faults = 0 /\ crashes = 0 /\ moot = 0

Outcome == {"ok", "lost", "failed"}
\* XADD, through a client that keeps go-redis's default retries (redisstore.New
\* sets no MaxRetries).  Resending the other commands changes nothing.
SendOutcome == Outcome \cup {"resent"}
MoreTrouble == faults + crashes + moot < MaxTroubles

\* The outcome of one call, within the bound on faults.
Reply(o) ==
    /\ o = "ok" \/ (faults < MaxFaults /\ MoreTrouble)
    /\ faults' = IF o = "ok" THEN faults ELSE faults + 1
    /\ UNCHANGED <<crashes, moot>>

-----------------------------------------------------------------------------
(* The request handler: one transaction, one publish, one mark.            *)

\* A commit whose reply is lost answers 500 although the job exists.
CreateBatchJob(j, o) ==
    /\ api[j] = "create"
    /\ o # "failed"
    /\ Reply(o)
    /\ CreateWithItemsAndOutbox(j)
    /\ api' = [api EXCEPT ![j] = IF o = "ok" THEN "publish" ELSE "done"]
    /\ UNCHANGED <<queueVars, rows, marking, batch, passVars>>

ApiPublish(j, o) ==
    /\ api[j] = "publish"
    /\ Reply(o)
    /\ IF o = "failed" THEN UNCHANGED queueVars
                       ELSE Len(stream) < MaxStream /\ Publish(j)
    /\ api' = [api EXCEPT ![j] = CASE o = "ok" -> "mark"
                                    [] o = "resent" -> "publish"
                                    [] OTHER -> "done"]
    /\ UNCHANGED <<storeVars, rows, marking, batch, passVars>>

ApiMark(j, o) ==
    /\ api[j] = "mark"
    /\ Reply(o)
    /\ IF o = "failed" THEN UNCHANGED storeVars ELSE MarkOutboxPublished(j)
    /\ api' = [api EXCEPT ![j] = "done"]
    /\ UNCHANGED <<queueVars, rows, marking, batch, passVars>>

ApiCrash(j) ==
    /\ api[j] \in {"publish", "mark"}
    /\ crashes < MaxCrashes /\ MoreTrouble
    /\ crashes' = crashes + 1
    /\ api' = [api EXCEPT ![j] = "done"]
    /\ UNCHANGED <<storeVars, queueVars, rows, marking, batch, passVars,
                   faults, moot>>

-----------------------------------------------------------------------------
(* drainOutboxOnce: read the pending rows, then publish and mark each.     *)

PendingOutbox == {j \in Jobs : outbox[j] = "pending"}

DrainRead(w) ==
    /\ rows[w] = {} /\ marking[w] = NoJob
    /\ \E S \in SUBSET PendingOutbox :
          /\ S # {}
          /\ S = PendingOutbox \/ Cardinality(S) = OutboxBatch
          /\ rows' = [rows EXCEPT ![w] = S]
    /\ UNCHANGED <<storeVars, queueVars, api, marking, batch, passVars,
                   budgetVars>>

DrainPublish(w, j, o) ==
    /\ marking[w] = NoJob
    /\ j \in rows[w]
    /\ Reply(o)
    /\ IF o = "failed" THEN UNCHANGED queueVars
                       ELSE Len(stream) < MaxStream /\ Publish(j)
    /\ rows' = IF o = "resent" THEN rows ELSE [rows EXCEPT ![w] = @ \ {j}]
    /\ marking' = [marking EXCEPT ![w] = IF o = "ok" THEN j ELSE NoJob]
    /\ UNCHANGED <<storeVars, api, batch, passVars>>

DrainMark(w, o) ==
    /\ marking[w] # NoJob
    /\ Reply(o)
    /\ IF o = "failed" THEN UNCHANGED storeVars
                       ELSE MarkOutboxPublished(marking[w])
    /\ marking' = [marking EXCEPT ![w] = NoJob]
    /\ UNCHANGED <<queueVars, api, rows, batch, passVars>>

-----------------------------------------------------------------------------
(* Fetching.  The consume loop reads new messages and the reclaim loop     *)
(* claims pending ones, when the previous batch is done.  XAUTOCLAIM takes *)
(* what has been idle for ReclaimMinIdle: anything pending, unless Patient *)
(* says that a message a live worker holds never gets that old.            *)

Held == (UNION {batch[l] : l \in Lanes}) \cup {cur[l] : l \in Lanes}

Consume(l, o) ==
    /\ l[2] = "consume" /\ pc[l] = "idle" /\ batch[l] = {}
    /\ o # "failed"
    /\ Reply(o)
    /\ ReadGroup
    /\ batch' = IF o = "ok" THEN [batch EXCEPT ![l] = NextBatch] ELSE batch
    /\ UNCHANGED <<storeVars, clientVars, passVars>>

\* Mutant: a minimum idle time of zero.
ClaimImpatient(l) ==
    /\ l[2] = "reclaim" /\ pc[l] = "idle" /\ batch[l] = {}
    /\ \E S \in SUBSET pel : S # {} /\ batch' = [batch EXCEPT ![l] = S]
    /\ UNCHANGED <<storeVars, queueVars, clientVars, passVars, budgetVars>>

Claim(l) ==
    /\ l[2] = "reclaim" /\ pc[l] = "idle" /\ batch[l] = {}
    /\ \E S \in SUBSET (IF Patient THEN pel \ Held ELSE pel) :
          /\ S # {} /\ Cardinality(S) <= ReadCount
          /\ batch' = [batch EXCEPT ![l] = S]
    /\ UNCHANGED <<storeVars, queueVars, clientVars, passVars, budgetVars>>

-----------------------------------------------------------------------------
(* handleMessage.                                                          *)

InFlight(w) == {cur[l] : l \in LanesOf(w)}

GoTo(l, p) ==
    /\ pc' = [pc EXCEPT ![l] = p]
    /\ UNCHANGED <<cur, thr, broken, snap>>

\* Mutant: the in-flight entry is never removed.
EndPassInFlight(l) ==
    /\ pc' = [pc EXCEPT ![l] = "idle"]
    /\ thr' = [thr EXCEPT ![l] = Parked]
    /\ broken' = [broken EXCEPT ![l] = FALSE]
    /\ UNCHANGED <<cur, snap>>

EndPass(l) ==
    /\ pc' = [pc EXCEPT ![l] = "idle"]
    /\ cur' = [cur EXCEPT ![l] = NoMsg]
    /\ thr' = [thr EXCEPT ![l] = Parked]
    /\ broken' = [broken EXCEPT ![l] = FALSE]
    /\ snap' = [snap EXCEPT ![l] = NoCounts]

\* Mutant of StartMessage: the in-flight map is not looked at.
StartUnguarded(l) ==
    /\ pc[l] = "idle"
    /\ \E m \in batch[l] :
          /\ \A n \in batch[l] : m <= n
          /\ batch' = [batch EXCEPT ![l] = @ \ {m}]
          /\ cur' = [cur EXCEPT ![l] = m]
          /\ pc' = [pc EXCEPT ![l] = IF stream[m] = NoJob THEN "drop" ELSE "mark"]
          /\ UNCHANGED <<thr, broken, snap>>
    /\ UNCHANGED <<storeVars, queueVars, clientVars, budgetVars>>

\* The oldest fetched message; skipped when the other loop of this process
\* is handling it.
StartMessage(l) ==
    /\ pc[l] = "idle"
    /\ \E m \in batch[l] :
          /\ \A n \in batch[l] : m <= n
          /\ batch' = [batch EXCEPT ![l] = @ \ {m}]
          /\ IF m \in InFlight(l[1])
             THEN UNCHANGED passVars
             ELSE /\ cur' = [cur EXCEPT ![l] = m]
                  /\ pc' = [pc EXCEPT ![l] =
                               IF stream[m] = NoJob THEN "drop" ELSE "mark"]
                  /\ UNCHANGED <<thr, broken, snap>>
    /\ UNCHANGED <<storeVars, queueVars, clientVars, budgetVars>>

MarkRunning(l, o) ==
    /\ pc[l] = "mark"
    /\ Reply(o)
    /\ IF o = "failed" THEN UNCHANGED storeVars ELSE MarkJobRunning(JobOfMsg(l))
    /\ IF o = "ok" THEN GoTo(l, "requeue") ELSE EndPass(l)
    /\ UNCHANGED <<queueVars, clientVars, batch>>

RequeueRunning(l, o) ==
    /\ pc[l] = "requeue"
    /\ Reply(o)
    /\ IF o = "failed" THEN UNCHANGED storeVars
                       ELSE RequeueRunningItems(JobOfMsg(l))
    /\ IF o = "ok"
       THEN /\ pc' = [pc EXCEPT ![l] = "pool"]
            /\ thr' = [thr EXCEPT ![l] = Started]
            /\ UNCHANGED <<cur, broken, snap>>
       ELSE EndPass(l)
    /\ UNCHANGED <<queueVars, clientVars, batch>>

\* Mutants: the broken flag is not looked at; the job is not recomputed.
JoinIgnoringBroken(l) ==
    /\ pc[l] = "pool"
    /\ \A t \in Pool : thr[l][t].st = "done"
    /\ GoTo(l, "recount")
    /\ UNCHANGED <<storeVars, queueVars, clientVars, batch, budgetVars>>
JoinWithoutRecount(l) ==
    /\ pc[l] = "pool"
    /\ \A t \in Pool : thr[l][t].st = "done"
    /\ IF broken[l] THEN EndPass(l) ELSE GoTo(l, "ack")
    /\ UNCHANGED <<storeVars, queueVars, clientVars, batch, budgetVars>>

\* Every goroutine has returned.  A broken pass ends without an ack.
JoinPool(l) ==
    /\ pc[l] = "pool"
    /\ \A t \in Pool : thr[l][t].st = "done"
    /\ IF broken[l] THEN EndPass(l) ELSE GoTo(l, "recount")
    /\ UNCHANGED <<storeVars, queueVars, clientVars, batch, budgetVars>>

\* Mutant: running items count as done.
RecountEarly(l) ==
    /\ pc[l] = "recount"
    /\ pc' = [pc EXCEPT ![l] = "rewrite"]
    /\ snap' = [snap EXCEPT ![l] =
                   [RecomputeCounts(JobOfMsg(l)) EXCEPT !.succeeded =
                       @ + Cardinality(WithStatus(JobOfMsg(l), "running"))]]
    /\ UNCHANGED <<storeVars, queueVars, clientVars, batch, cur, thr, broken,
                   budgetVars>>

\* The snapshot of RecomputeAndUpdateJobStatus.  The update finds no row when
\* the job is gone: ErrNotFound, and the message is dropped.
Recount(l) ==
    /\ pc[l] = "recount"
    /\ pc' = [pc EXCEPT ![l] = "rewrite"]
    /\ snap' = [snap EXCEPT ![l] = RecomputeCounts(JobOfMsg(l))]
    /\ UNCHANGED <<storeVars, queueVars, clientVars, batch, cur, thr, broken,
                   budgetVars>>

Rewrite(l, o) ==
    /\ pc[l] = "rewrite"
    /\ Reply(o)
    /\ IF o = "failed" THEN UNCHANGED storeVars
                       ELSE RecomputeWrite(JobOfMsg(l), snap[l])
    /\ IF o = "ok"
       THEN GoTo(l, IF Exists(JobOfMsg(l)) THEN "ack" ELSE "drop")
       ELSE EndPass(l)
    /\ UNCHANGED <<queueVars, clientVars, batch>>

\* Mutant: a failed dead letter does not keep the ack back.
DropAcksAnyway(l, o) ==
    /\ pc[l] = "drop"
    /\ Reply(o)
    /\ IF o = "failed" THEN UNCHANGED queueVars ELSE PublishDLQMsg(cur[l])
    /\ GoTo(l, "ack")
    /\ UNCHANGED <<storeVars, clientVars, batch>>

\* dropMissingJob, and the branch for an unparseable id: dead-letter, then ack.
\* Entries for the message are not counted, so sending one again shows nowhere.
DropMessage(l, o) ==
    /\ pc[l] = "drop"
    /\ Reply(o)
    /\ IF o = "failed" THEN UNCHANGED queueVars ELSE PublishDLQMsg(cur[l])
    /\ IF o = "ok" THEN GoTo(l, "ack") ELSE EndPass(l)
    /\ UNCHANGED <<storeVars, clientVars, batch>>

AckMessage(l, o) ==
    /\ pc[l] = "ack"
    /\ Reply(o)
    /\ IF o = "failed" THEN UNCHANGED queueVars ELSE Ack(cur[l])
    /\ EndPass(l)
    /\ UNCHANGED <<storeVars, clientVars, batch>>

-----------------------------------------------------------------------------
(* One goroutine of the pool.                                              *)

InPool(l, t, st) == pc[l] = "pool" /\ thr[l][t].st = st

Thread(l, t, st, i) ==
    /\ thr' = [thr EXCEPT ![l][t] = [st |-> st, item |-> i]]
    /\ UNCHANGED <<pc, cur, broken, snap>>

\* The goroutine returns and the pass is broken: a store error or a panic.
BreakOff(l, t) ==
    /\ thr' = [thr EXCEPT ![l][t] = [st |-> "done", item |-> NoItem]]
    /\ broken' = [broken EXCEPT ![l] = TRUE]
    /\ UNCHANGED <<pc, cur, snap>>

SelectItem(l, t, i) ==
    /\ InPool(l, t, "claim")
    /\ ClaimSelect(JobOfMsg(l), i)
    /\ Thread(l, t, "lock", i)
    /\ UNCHANGED <<queueVars, clientVars, batch, budgetVars>>

\* ClaimNone: no queued row, or other claims hold all of them locked.
SelectNone(l, t) ==
    /\ InPool(l, t, "claim")
    /\ Claimable(JobOfMsg(l)) = {}
    /\ Thread(l, t, "done", NoItem)
    /\ UNCHANGED <<storeVars, queueVars, clientVars, batch, budgetVars>>

SelectError(l, t) ==
    /\ InPool(l, t, "claim")
    /\ Reply("failed")
    /\ BreakOff(l, t)
    /\ UNCHANGED <<storeVars, queueVars, clientVars, batch>>

CommitClaim(l, t, o) ==
    /\ InPool(l, t, "lock")
    /\ Reply(o)
    /\ IF o = "failed" THEN ClaimRollback({thr[l][t].item})
                       ELSE ClaimCommit(thr[l][t].item)
    /\ IF o = "ok"
       THEN Thread(l, t, IF Exhausted(thr[l][t].item) THEN "dlq" ELSE "work",
                   thr[l][t].item)
       ELSE BreakOff(l, t)
    /\ UNCHANGED <<queueVars, clientVars, batch>>

\* Mutant: a failed dead letter is tried again.
DeadLetterRetried(l, t, o) ==
    /\ InPool(l, t, "dlq") \/ InPool(l, t, "resend")
    /\ Reply(o)
    /\ IF o = "failed" THEN UNCHANGED queueVars
                       ELSE PublishDLQItem(thr[l][t].item)
    /\ CASE o = "ok" -> Thread(l, t, "claim", NoItem)
         [] o = "resent" -> Thread(l, t, "resend", thr[l][t].item)
         [] OTHER -> Thread(l, t, "dlq", thr[l][t].item)
    /\ UNCHANGED <<storeVars, clientVars, batch>>

\* The dead letter of an exhausted item; a failure is logged, not retried.
DeadLetterItem(l, t, o) ==
    /\ InPool(l, t, "dlq") \/ InPool(l, t, "resend")
    /\ Reply(o)
    /\ IF o = "failed" THEN UNCHANGED queueVars
                       ELSE PublishDLQItem(thr[l][t].item)
    /\ IF o = "resent" THEN Thread(l, t, "resend", thr[l][t].item)
                       ELSE Thread(l, t, "claim", NoItem)
    /\ UNCHANGED <<storeVars, clientVars, batch>>

\* processItem and finishItem: route, call backends, write the result.  The
\* call ends in some verdict; a panic on the way is a failed write.  When the
\* row is no longer running the result is discarded (ErrNotFound).
FinishItem(l, t, status, o) ==
    /\ InPool(l, t, "work")
    /\ Reply(o)
    /\ IF o = "failed" THEN UNCHANGED storeVars
                       ELSE UpdateItemTerminal(thr[l][t].item, status)
    /\ IF o = "ok" THEN Thread(l, t, "claim", NoItem) ELSE BreakOff(l, t)
    /\ UNCHANGED <<queueVars, clientVars, batch>>

-----------------------------------------------------------------------------
(* The environment.                                                        *)

\* The process dies and is started again: its loops, pools and in-flight map
\* are lost, and Postgres rolls its open claims back.
Crash(w) ==
    /\ crashes < MaxCrashes /\ MoreTrouble
    /\ crashes' = crashes + 1
    /\ ClaimRollback({i \in locks : \E l \in LanesOf(w), t \in Pool :
                         thr[l][t] = [st |-> "lock", item |-> i]})
    /\ rows' = [rows EXCEPT ![w] = {}]
    /\ marking' = [marking EXCEPT ![w] = NoJob]
    /\ batch' = [l \in Lanes |-> IF l[1] = w THEN {} ELSE batch[l]]
    /\ pc' = [l \in Lanes |-> IF l[1] = w THEN "idle" ELSE pc[l]]
    /\ cur' = [l \in Lanes |-> IF l[1] = w THEN NoMsg ELSE cur[l]]
    /\ thr' = [l \in Lanes |-> IF l[1] = w THEN Parked ELSE thr[l]]
    /\ broken' = [l \in Lanes |-> IF l[1] = w THEN FALSE ELSE broken[l]]
    /\ snap' = [l \in Lanes |-> IF l[1] = w THEN NoCounts ELSE snap[l]]
    /\ UNCHANGED <<queueVars, api, faults, moot>>

DeleteJob(j) ==
    /\ moot < MaxMoot /\ MoreTrouble
    /\ moot' = moot + 1
    /\ CascadeDelete(j)
    /\ UNCHANGED <<queueVars, clientVars, batch, passVars, faults, crashes>>

\* Some other client of Redis adds an entry without a job id.
ForeignMessage ==
    /\ moot < MaxMoot /\ MoreTrouble /\ Len(stream) < MaxStream
    /\ moot' = moot + 1
    /\ Publish(NoJob)
    /\ UNCHANGED <<storeVars, clientVars, batch, passVars, faults, crashes>>

-----------------------------------------------------------------------------
ApiStep(j) ==
    \/ \E o \in Outcome : CreateBatchJob(j, o) \/ ApiMark(j, o)
    \/ \E o \in SendOutcome : ApiPublish(j, o)

DrainStep(w) ==
    \/ DrainRead(w)
    \/ \E o \in Outcome : DrainMark(w, o)
    \/ \E o \in SendOutcome, j \in Jobs : DrainPublish(w, j, o)

ThreadStep(l, t) ==
    \/ SelectNone(l, t) \/ SelectError(l, t)
    \/ \E i \in Items : SelectItem(l, t, i)
    \/ \E o \in SendOutcome : DeadLetterItem(l, t, o)
    \/ \E o \in Outcome :
          \/ CommitClaim(l, t, o)
          \/ \E status \in TerminalItem : FinishItem(l, t, status, o)

LaneStep(l) ==
    \/ Claim(l) \/ StartMessage(l) \/ JoinPool(l) \/ Recount(l)
    \/ \E o \in Outcome :
          \/ Consume(l, o) \/ MarkRunning(l, o) \/ RequeueRunning(l, o)
          \/ Rewrite(l, o) \/ DropMessage(l, o) \/ AckMessage(l, o)
    \/ \E t \in Pool : ThreadStep(l, t)

Next ==
    \/ \E j \in Jobs : ApiStep(j) \/ ApiCrash(j) \/ DeleteJob(j)
    \/ \E w \in Workers : DrainStep(w) \/ Crash(w)
    \/ \E l \in Lanes : LaneStep(l)
    \/ ForeignMessage

Spec == Init /\ [][Next]_vars

\* Each loop of each worker keeps running, and restarts after a crash; nobody
\* has to submit jobs.
FairSpec ==
    /\ Spec
    /\ \A w \in Workers : WF_vars(DrainStep(w))
    /\ \A l \in Lanes : WF_vars(LaneStep(l))

-----------------------------------------------------------------------------
QueueTypeOK ==
    /\ stream \in Seq(Jobs \cup {NoJob})
    /\ cursor \in 0..Len(stream)
    /\ pel \in SUBSET (1..cursor)
    /\ dlqItems \in [Items -> Nat]
    /\ dlqMsgs \in SUBSET Nat

ClientTypeOK ==
    /\ api \in [Jobs -> {"create", "publish", "mark", "done"}]
    /\ rows \in [Workers -> SUBSET Jobs]
    /\ marking \in [Workers -> Jobs \cup {NoJob}]

PassTypeOK ==
    /\ batch \in [Lanes -> SUBSET (1..cursor)]
    /\ pc \in [Lanes -> {"idle", "mark", "requeue", "pool", "recount",
                         "rewrite", "drop", "ack"}]
    /\ cur \in [Lanes -> 0..cursor]
    /\ thr \in [Lanes -> [Pool -> [st : ThreadState, item : Items \cup {NoItem}]]]
    /\ broken \in [Lanes -> BOOLEAN]
    /\ snap \in [Lanes -> [succeeded : Nat, failed : Nat]]

BudgetTypeOK == faults \in Nat /\ crashes \in Nat /\ moot \in Nat

\* Every variable holds values of its kind; loops hold only messages that the
\* consumer group has delivered.
TypeOK ==
    StoreTypeOK /\ QueueTypeOK /\ ClientTypeOK /\ PassTypeOK /\ BudgetTypeOK

\* An item that is not terminal can still be finished: its job's outbox row is
\* pending, or the stream holds a message for the job that is not acked
\* (worker.go: the order of the writes "is what makes a crash at any point
\* recoverable instead of lossy").
NoLostWork ==
    \A i \in Items : item[i].status \in OpenItem =>
        \/ outbox[JobOf[i]] = "pending"
        \/ \E m \in Unacked : stream[m] = JobOf[i]

\* One call of PublishDLQ names an exhausted item, whatever passes, crashes and
\* deliveries meet it, and only when its failure is stored: an item that has an
\* entry gets another only from the client's resending of that very call.
DeadLetterOnce ==
    [][\A i \in Items : dlqItems'[i] # dlqItems[i] =>
          /\ item[i].status \in {"failed", "gone"}
          /\ dlqItems[i] > 0 =>
                \E l \in Lanes, t \in Pool : thr[l][t] = [st |-> "resend", item |-> i]]_vars

\* worker.go's comment as it stands: "the single DLQ entry for it".  Resending
\* breaks it.
SingleDLQEntry == \A i \in Items : dlqItems[i] <= 1

\* A message without a usable job id leaves the pending list only with a record in
\* the dead-letter stream (handleMessage: DLQ first, then ack).  Messages of a
\* deleted job are not in the formula: they were good when earlier passes acked them.
MootLeavesRecord ==
    \A m \in 1..cursor : stream[m] = NoJob /\ m \notin pel => m \in dlqMsgs

\* The pipeline drains: once jobs stop arriving and faults stop happening,
\* every outbox row is published, every message acked and every item terminal
\* or deleted, for good (architecture: a committed job is never orphaned).
Drained ==
    /\ PendingOutbox = {} /\ Unacked = {}
    /\ \A i \in Items : item[i].status \notin OpenItem
PipelineDrains == <>[]Drained

-----------------------------------------------------------------------------
(* Why NoLostWork holds when reclaiming is patient: the inductive          *)
(* invariant.                                                              *)

Sent(j) == \E m \in Msgs : stream[m] = j

\* Nothing names a job before its transaction commits, and a row is marked
\* published only after its message is in the stream.
OutboxOrder ==
    /\ \A j \in Jobs :
          /\ Sent(j) \/ outbox[j] # "absent" \/ api[j] # "create"
                => job[j].status # "absent"
          /\ api[j] = "mark" => Sent(j)
    /\ \A w \in Workers :
          /\ \A j \in rows[w] : job[j].status # "absent"
          /\ marking[w] # NoJob => Sent(marking[w])

\* A message that a loop has fetched is pending, and no other loop has it.
Exclusive ==
    /\ \A l \in Lanes :
          /\ batch[l] \subseteq pel
          /\ cur[l] # NoMsg => cur[l] \in pel \ batch[l]
          /\ pc[l] = "idle" <=> cur[l] = NoMsg
          /\ pc[l] \notin {"idle", "drop", "ack"} => stream[cur[l]] # NoJob
    /\ \A k, l \in Lanes : k # l =>
          /\ batch[k] \cap batch[l] = {}
          /\ cur[k] # NoMsg => cur[k] # cur[l] /\ cur[k] \notin batch[l]

\* Goroutines run only inside a pool and work on items of the pass's job; each
\* locked row is locked by exactly one of them.
Busy == {"lock", "dlq", "resend", "work"}
InsidePool(l, t) ==
    /\ thr[l][t].st # "done" => pc[l] = "pool"
    /\ thr[l][t].st \in Busy =>
          thr[l][t].item \in Items /\ JobOf[thr[l][t].item] = JobOfMsg(l)
Locks(l, t, i) == thr[l][t].st = "lock" /\ thr[l][t].item = i
PoolOrder ==
    /\ \A l \in Lanes, t \in Pool : InsidePool(l, t)
    /\ \A l \in Lanes, t \in Pool, i \in Items : Locks(l, t, i) => i \in locks
    /\ \A i \in locks : \E l \in Lanes, t \in Pool : Locks(l, t, i)
    /\ \A k, l \in Lanes, s, t \in Pool, i \in Items :
          Locks(k, s, i) /\ Locks(l, t, i) => k = l /\ s = t

\* The pass of loop l will not ack before item i is dealt with.
WillHandle(l, i) ==
    \/ pc[l] \in {"mark", "requeue"}
    \/ /\ pc[l] = "pool"
       /\ \/ broken[l]
          \/ item[i].status = "queued" /\ \E t \in Pool : thr[l][t].st # "done"
          \/ item[i].status = "running" /\ \E t \in Pool :
                 thr[l][t].st = "work" /\ thr[l][t].item = i

\* Some unacked message of its job stands for every open item, from the first
\* publication on: nobody handles it, or whoever does will deal with the item.
Answers(m, i) ==
    /\ stream[m] = JobOf[i]
    /\ \A l \in Lanes : cur[l] = m => WillHandle(l, i)
Answered(i) == IF Sent(JobOf[i]) THEN \E m \in Unacked : Answers(m, i)
                                 ELSE outbox[JobOf[i]] = "pending"
Answerable == \A i \in Items : item[i].status \in OpenItem => Answered(i)

IndInv == OutboxOrder /\ Exclusive /\ PoolOrder /\ LockedIsQueued /\ Answerable

-----------------------------------------------------------------------------
(* What comments of the code promise, stated for jobs of which the stream  *)
(* has had one message.  There may be more: the API and the drain can both *)
(* publish a job, and a crash or a lost reply can repeat a publication.    *)

SoleMessage(j) == \A m, n \in Msgs : stream[m] = j /\ stream[n] = j => m = n

\* The pool's comment: "two goroutines (or two worker processes) can never
\* hold the same item".  It holds until a second message's pass requeues the item.
OneHolder ==
    \A k, l \in Lanes, s, t \in Pool :
        /\ thr[k][s].st = "work" /\ thr[l][t].st = "work"
        /\ thr[k][s].item = thr[l][t].item
        /\ SoleMessage(JobOf[thr[k][s].item])
        => k = l /\ s = t

\* With more messages an item may have several holders, since each pass requeues
\* what it finds running, but every one of them was counted by its claim: attempts,
\* which RequeueRunningItems leaves alone, bounds the calls in progress for an item
\* (jobs/store.go: "attempts still bound the total retries before the DLQ").
Holding(i) == {h \in Lanes \X Pool : /\ thr[h[1]][h[2]].st = "work"
                                     /\ thr[h[1]][h[2]].item = i}
HoldersWithinAttempts == \A i \in Items : Cardinality(Holding(i)) <= item[i].attempts

\* jobs.ValidJobTransition's comment: "terminal states never change, and a job
\* never skips running", a rule "the Postgres repo encodes ... in SQL WHERE
\* clauses".  A stored job moves only along the valid transitions.
JobLifecycle ==
    [][\A j \in Jobs :
          /\ Exists(j) /\ SoleMessage(j)
          /\ job'[j].status \notin {job[j].status, "gone"}
          => ValidJobTransition(job[j].status, job'[j].status)]_vars

\* RecomputeAndUpdateJobStatus's comment: "It converges under concurrent
\* deliveries because it only reads the item table's current truth".  Once no
\* message is left for a job, its stored status is the aggregate.
Settled(j) ==
    /\ Exists(j) /\ outbox[j] # "pending"
    /\ \A m \in Unacked \cup (Held \ {NoMsg}) : stream[m] # j
Converged(j) ==
    Settled(j) => job[j].status = AggregateJobStatus(Cardinality(ItemsOf(j)),
                                      RecomputeCounts(j).succeeded,
                                      RecomputeCounts(j).failed)

\* With one message the status converges, whatever faults and crashes occur.
ConvergesAlone == \A j \in Jobs : SoleMessage(j) => Converged(j)

\* With more it need not: the comment as it stands.
JobConverges == \A j \in Jobs : Converged(j)

\* handleMessage's comment: the order of the writes "is what makes a crash at
\* any point recoverable instead of lossy".  An open item is orphaned when no
\* outbox row, no unacked message and no loop of a live worker knows its job.
NoOrphan ==
    \A i \in Items : item[i].status \in OpenItem =>
        \/ outbox[JobOf[i]] = "pending"
        \/ \E m \in Unacked \cup (Held \ {NoMsg}) : stream[m] = JobOf[i]
=============================================================================
