------------------------------ MODULE JobStore ------------------------------
(***************************************************************************)
(* The batch tables of internal/db/job_repo.go (JobRepo, the Postgres      *)
(* implementation of jobs.JobStore): jobs, their items, the transactional  *)
(* outbox and the row locks that claims hold.  Each operator below is one  *)
(* statement, or one transaction, of the repository; the specification at  *)
(* the end lets any client call any of them at any time.                   *)
(*                                                                         *)
(* Requests, responses, error texts, tenants and timestamps are left out,  *)
(* and so are the outbox columns attempts and last_error, which            *)
(* MarkOutboxFailedAttempt writes and nothing reads.                       *)
(***************************************************************************)
EXTENDS Integers, FiniteSets

CONSTANTS
    Jobs,         \* job ids
    Items,        \* item ids
    JobOf,        \* the job of each item
    MaxAttempts   \* WORKER_MAX_ITEM_ATTEMPTS

ASSUME StoreAssumption ==
    /\ IsFiniteSet(Items)
    /\ JobOf \in [Items -> Jobs]
    /\ MaxAttempts \in Nat \ {0}

VARIABLES
    job,      \* batch_jobs: status and the denormalised counters
    item,     \* batch_job_items: status and attempts
    outbox,   \* batch_job_outbox: one row per job
    locks     \* items whose row a claim transaction has locked

storeVars == <<job, item, outbox, locks>>

ItemsOf(j) == {i \in Items : JobOf[i] = j}

\* A row is "absent" before its insert and "gone" after a cascading delete.
TerminalJob == {"succeeded", "partially_failed", "failed"}
JobStatus == {"absent", "queued", "running", "gone"} \cup TerminalJob
TerminalItem == {"succeeded", "failed"}
OpenItem == {"queued", "running"}
ItemStatus == {"absent", "gone"} \cup OpenItem \cup TerminalItem
OutboxStatus == {"absent", "pending", "published", "gone"}

Exists(j) == job[j].status \notin {"absent", "gone"}
WithStatus(j, s) == {i \in ItemsOf(j) : item[i].status = s}

-----------------------------------------------------------------------------
(* internal/jobs/status.go                                                 *)

ValidItemTransition(from, to) ==
    \/ from = "queued" /\ to \in {"running", "failed"}
    \/ from = "running" /\ to \in {"succeeded", "failed", "queued"}

ValidJobTransition(from, to) ==
    \/ from = "queued" /\ to = "running"
    \/ from = "running" /\ to \in TerminalJob

AggregateJobStatus(total, succeeded, failed) ==
    IF succeeded + failed < total THEN "running"
    ELSE IF failed = 0 THEN "succeeded"
    ELSE IF succeeded = 0 THEN "failed" ELSE "partially_failed"

-----------------------------------------------------------------------------
StoreInit ==
    /\ job = [j \in Jobs |-> [status |-> "absent", completed |-> 0, failed |-> 0]]
    /\ item = [i \in Items |-> [status |-> "absent", attempts |-> 0]]
    /\ outbox = [j \in Jobs |-> "absent"]
    /\ locks = {}

\* Job, items and one pending outbox row, in one transaction.
CreateWithItemsAndOutbox(j) ==
    /\ job[j].status = "absent"
    /\ job' = [job EXCEPT ![j].status = "queued"]
    /\ item' = [i \in Items |-> IF JobOf[i] = j
                                THEN [status |-> "queued", attempts |-> 0]
                                ELSE item[i]]
    /\ outbox' = [outbox EXCEPT ![j] = "pending"]
    /\ UNCHANGED locks

\* Mutant: no WHERE clause.
MarkJobRunningAlways(j) ==
    /\ job' = [job EXCEPT ![j].status = "running"]
    /\ UNCHANGED <<item, outbox, locks>>

\* UPDATE ... WHERE status = 'queued'; touching no row is a success.
MarkJobRunning(j) ==
    /\ job' = IF job[j].status = "queued"
              THEN [job EXCEPT ![j].status = "running"] ELSE job
    /\ UNCHANGED <<item, outbox, locks>>

\* Mutant of RequeueRunningItems: failed items are requeued as well.
RequeueFailedToo(j) ==
    /\ item' = [i \in Items |-> IF i \in WithStatus(j, "running") \cup WithStatus(j, "failed")
                                THEN [item[i] EXCEPT !.status = "queued"]
                                ELSE item[i]]
    /\ UNCHANGED <<job, outbox, locks>>

\* Mutant of RequeueRunningItems: a requeued item starts afresh.
RequeueAfresh(j) ==
    /\ item' = [i \in Items |-> IF i \in WithStatus(j, "running")
                                THEN [status |-> "queued", attempts |-> 0]
                                ELSE item[i]]
    /\ UNCHANGED <<job, outbox, locks>>

\* Every running item of the job goes back to queued, attempts kept.
RequeueRunningItems(j) ==
    /\ item' = [i \in Items |-> IF i \in WithStatus(j, "running")
                                THEN [item[i] EXCEPT !.status = "queued"]
                                ELSE item[i]]
    /\ UNCHANGED <<job, outbox, locks>>

\* The three parts of the transaction ClaimNextQueuedItem: the SELECT ... FOR
\* UPDATE SKIP LOCKED, then the UPDATE and the commit, or a rollback.
Claimable(j) == WithStatus(j, "queued") \ locks

ClaimSelect(j, i) ==
    /\ i \in Claimable(j)
    /\ locks' = locks \cup {i}
    /\ UNCHANGED <<job, item, outbox>>

Exhausted(i) == item[i].attempts + 1 > MaxAttempts

\* Mutant of ClaimCommit: the attempt is counted, the status is left.
ClaimCountsOnly(i) ==
    /\ i \in locks
    /\ item' = [item EXCEPT ![i] = IF Exhausted(i) THEN [@ EXCEPT !.status = "failed"]
                                   ELSE [@ EXCEPT !.attempts = @ + 1]]
    /\ locks' = locks \ {i}
    /\ UNCHANGED <<job, outbox>>

ClaimCommit(i) ==
    /\ i \in locks
    /\ item' = [item EXCEPT ![i] =
                    IF Exhausted(i)
                    THEN [@ EXCEPT !.status = "failed"]
                    ELSE [status |-> "running", attempts |-> @.attempts + 1]]
    /\ locks' = locks \ {i}
    /\ UNCHANGED <<job, outbox>>

ClaimRollback(S) ==
    /\ locks' = locks \ S
    /\ UNCHANGED <<job, item, outbox>>

\* UPDATE ... WHERE status = 'running': no row touched is ErrNotFound.
UpdateItemTerminal(i, status) ==
    /\ item' = IF item[i].status = "running"
               THEN [item EXCEPT ![i].status = status] ELSE item
    /\ UNCHANGED <<job, outbox, locks>>

\* RecomputeAndUpdateJobStatus is one statement, but under READ COMMITTED its
\* counts come from the snapshot taken when it starts, and its write waits for
\* the job's row: two steps between which other transactions commit.
RecomputeCounts(j) ==
    [succeeded |-> Cardinality(WithStatus(j, "succeeded")),
     failed |-> Cardinality(WithStatus(j, "failed"))]

RecomputeWrite(j, c) ==
    /\ job' = IF Exists(j)
              THEN [job EXCEPT ![j] =
                       [status |-> AggregateJobStatus(Cardinality(ItemsOf(j)),
                                                      c.succeeded, c.failed),
                        completed |-> c.succeeded,
                        failed |-> c.failed]]
              ELSE job
    /\ UNCHANGED <<item, outbox, locks>>

MarkOutboxPublished(j) ==
    /\ outbox' = IF outbox[j] = "pending"
                 THEN [outbox EXCEPT ![j] = "published"] ELSE outbox
    /\ UNCHANGED <<job, item, locks>>

\* A tenant or key is deleted and ON DELETE CASCADE takes the job with it
\* (migrations/00005_batch.sql); the delete waits for row locks.
CascadeDelete(j) ==
    /\ Exists(j)
    /\ ItemsOf(j) \cap locks = {}
    /\ job' = [job EXCEPT ![j].status = "gone"]
    /\ item' = [i \in Items |-> IF JobOf[i] = j
                                THEN [item[i] EXCEPT !.status = "gone"]
                                ELSE item[i]]
    /\ outbox' = [outbox EXCEPT ![j] = "gone"]
    /\ UNCHANGED locks

-----------------------------------------------------------------------------
\* Any client, any order.  A recomputation may write counts as old as its
\* snapshot: no larger than the current ones, because terminal items stay.
StoreNext ==
    \/ \E j \in Jobs :
          \/ CreateWithItemsAndOutbox(j)
          \/ MarkJobRunning(j)
          \/ RequeueRunningItems(j)
          \/ MarkOutboxPublished(j)
          \/ CascadeDelete(j)
          \/ \E s \in 0..RecomputeCounts(j).succeeded,
                f \in 0..RecomputeCounts(j).failed :
                RecomputeWrite(j, [succeeded |-> s, failed |-> f])
          \/ \E i \in ItemsOf(j) : ClaimSelect(j, i)
    \/ \E i \in Items :
          \/ ClaimCommit(i)
          \/ \E status \in TerminalItem : UpdateItemTerminal(i, status)
    \/ \E S \in SUBSET locks : ClaimRollback(S)

StoreSpec == StoreInit /\ [][StoreNext]_storeVars

-----------------------------------------------------------------------------
\* Rows hold what their columns allow.
StoreTypeOK ==
    /\ job \in [Jobs -> [status : JobStatus, completed : Nat, failed : Nat]]
    /\ item \in [Items -> [status : ItemStatus, attempts : 0..MaxAttempts]]
    /\ outbox \in [Jobs -> OutboxStatus]
    /\ locks \in SUBSET Items

\* A job that reports a terminal status reports the truth: all its items are
\* terminal and the status is the aggregate of their outcomes, however stale
\* the snapshot was that a recomputation wrote.
TerminalJobTruthful ==
    \A j \in Jobs : job[j].status \in TerminalJob =>
        /\ \A i \in ItemsOf(j) : item[i].status \in TerminalItem
        /\ job[j].status = AggregateJobStatus(Cardinality(ItemsOf(j)),
                               RecomputeCounts(j).succeeded,
                               RecomputeCounts(j).failed)

\* A row that a claim has locked is still queued when the claim commits: no
\* other statement of the repository takes it away in between.
LockedIsQueued == \A i \in locks : item[i].status = "queued"
=============================================================================
