------------------------------ MODULE MemStore ------------------------------
(***************************************************************************)
(* internal/jobs/memstore.go: the in-memory JobStore of the tests, used by *)
(* the goroutines of a worker pool.  One mutex guards every method; a      *)
(* method whose body reads and then writes takes two steps, so that what   *)
(* the mutex is for shows.  The reads Get, List, Items, PendingOutbox and  *)
(* Outbox change nothing, and MarkOutboxFailedAttempt only writes columns  *)
(* that nothing reads.  A missing row is "absent".                         *)
(***************************************************************************)
EXTENDS Integers, FiniteSets

CONSTANTS
    Jobs, Items, JobOf, MaxAttempts,   \* as in JobStore
    Rank,          \* position of each item in its job's slice
    Callers,       \* goroutines that claim and finish items
    NoCaller, NoItem, NoTally,
    Overlapping    \* whether a job is requeued while a goroutine holds one of
                   \* its items, as a second delivery of its message does

ASSUME MemStoreAssumption ==
    /\ IsFiniteSet(Items) /\ JobOf \in [Items -> Jobs]
    /\ MaxAttempts \in Nat \ {0}
    /\ Rank \in [Items -> Nat]
    /\ \A i, k \in Items : Rank[i] = Rank[k] /\ JobOf[i] = JobOf[k] => i = k
    /\ NoCaller \notin Callers /\ NoItem \notin Items
    /\ Overlapping \in BOOLEAN
    /\ NoTally \notin [job : Jobs, succeeded : Nat, failed : Nat]

VARIABLES
    jobs, items, outbox,   \* the three maps
    mu,       \* the caller inside a method
    pick,     \* the queued item that a claim has found
    tally,    \* what a recount has counted
    hand      \* the claimed item each caller works on

memStoreVars == <<jobs, items, outbox, mu, pick, tally, hand>>

\* What the Postgres store promises: a claim that has found its item is a
\* transaction that has locked the row.
Found == {i \in Items : \E c \in Callers : pick[c] = i}
Repo == INSTANCE JobStore WITH job <- jobs, item <- items, locks <- Found

MemStoreInit ==
    /\ jobs = [j \in Jobs |-> [status |-> "absent", completed |-> 0, failed |-> 0]]
    /\ items = [i \in Items |-> [status |-> "absent", attempts |-> 0]]
    /\ outbox = [j \in Jobs |-> "absent"]
    /\ mu = NoCaller
    /\ pick = [c \in Callers |-> NoItem]
    /\ tally = [c \in Callers |-> NoTally]
    /\ hand = [c \in Callers |-> NoItem]

\* Mutant of Lock: nobody waits.
LockAtOnce(c) == mu' = c

Lock(c) == mu = NoCaller /\ mu' = c
Unlock == mu' = NoCaller
WhileFree == mu = NoCaller /\ UNCHANGED <<mu, pick, tally>>

-----------------------------------------------------------------------------
CreateWithItemsAndOutbox(j) ==
    /\ WhileFree
    /\ jobs[j].status = "absent"
    /\ jobs' = [jobs EXCEPT ![j] = [status |-> "queued", completed |-> 0, failed |-> 0]]
    /\ items' = [i \in Items |-> IF JobOf[i] = j
                                 THEN [status |-> "queued", attempts |-> 0]
                                 ELSE items[i]]
    /\ outbox' = [outbox EXCEPT ![j] = "pending"]
    /\ UNCHANGED hand

MarkJobRunning(j) ==
    /\ WhileFree
    /\ Repo!ValidJobTransition(jobs[j].status, "running")
    /\ jobs' = [jobs EXCEPT ![j].status = "running"]
    /\ UNCHANGED <<items, outbox, hand>>

Held(j) == \E c \in Callers : hand[c] # NoItem /\ JobOf[hand[c]] = j

RequeueRunningItems(j) ==
    /\ WhileFree
    /\ Overlapping \/ ~Held(j)
    /\ items' = [i \in Items |-> IF JobOf[i] = j /\ items[i].status = "running"
                                 THEN [items[i] EXCEPT !.status = "queued"]
                                 ELSE items[i]]
    /\ UNCHANGED <<jobs, outbox, hand>>

\* ClaimNextQueuedItem: the loop finds the first queued item of the slice ...
Queued(j) == {i \in Items : JobOf[i] = j /\ items[i].status = "queued"}

ClaimFind(c, j) ==
    /\ hand[c] = NoItem
    /\ Lock(c)
    /\ \E i \in Queued(j) :
          /\ \A k \in Queued(j) : Rank[i] <= Rank[k]
          /\ pick' = [pick EXCEPT ![c] = i]
    /\ UNCHANGED <<jobs, items, outbox, tally, hand>>

Exhausted(i) == items[i].attempts + 1 > MaxAttempts

\* ... and claims it, or fails it when its attempts are spent.
ClaimTake(c) ==
    LET i == pick[c] IN
    /\ i # NoItem
    /\ IF Exhausted(i)
       THEN /\ items' = [items EXCEPT ![i].status = "failed"]
            /\ UNCHANGED hand
       ELSE /\ items' = [items EXCEPT ![i] =
                            [status |-> "running", attempts |-> @.attempts + 1]]
            /\ hand' = [hand EXCEPT ![c] = i]
    /\ pick' = [pick EXCEPT ![c] = NoItem]
    /\ Unlock
    /\ UNCHANGED <<jobs, outbox, tally>>

\* The guard is the shared table of transitions.
UpdateItemTerminal(c, status) ==
    /\ WhileFree
    /\ hand[c] # NoItem
    /\ items' = IF Repo!ValidItemTransition(items[hand[c]].status, status)
                THEN [items EXCEPT ![hand[c]].status = status] ELSE items
    /\ hand' = [hand EXCEPT ![c] = NoItem]
    /\ UNCHANGED <<jobs, outbox>>

\* The caller's context ends before it has a result; the item stays running.
Abandon(c) ==
    /\ hand[c] # NoItem
    /\ hand' = [hand EXCEPT ![c] = NoItem]
    /\ UNCHANGED <<jobs, items, outbox, mu, pick, tally>>

\* RecomputeAndUpdateJobStatus counts the items ...
Counted(j, status) == Cardinality({i \in Items : JobOf[i] = j /\ items[i].status = status})

RecountItems(c, j) ==
    /\ jobs[j].status # "absent"
    /\ Lock(c)
    /\ tally' = [tally EXCEPT ![c] = [job |-> j, succeeded |-> Counted(j, "succeeded"),
                                      failed |-> Counted(j, "failed")]]
    /\ UNCHANGED <<jobs, items, outbox, pick, hand>>

\* ... and writes the job.
RecountWrite(c) ==
    LET t == tally[c] IN
    /\ t # NoTally
    /\ jobs' = [jobs EXCEPT ![t.job] =
                   [status |-> Repo!AggregateJobStatus(
                                  Cardinality(Repo!ItemsOf(t.job)), t.succeeded, t.failed),
                    completed |-> t.succeeded, failed |-> t.failed]]
    /\ tally' = [tally EXCEPT ![c] = NoTally]
    /\ Unlock
    /\ UNCHANGED <<items, outbox, pick, hand>>

MarkOutboxPublished(j) ==
    /\ WhileFree
    /\ outbox[j] = "pending"
    /\ outbox' = [outbox EXCEPT ![j] = "published"]
    /\ UNCHANGED <<jobs, items, hand>>

MemStoreNext ==
    \/ \E j \in Jobs :
          \/ CreateWithItemsAndOutbox(j) \/ MarkJobRunning(j)
          \/ RequeueRunningItems(j) \/ MarkOutboxPublished(j)
          \/ \E c \in Callers : ClaimFind(c, j) \/ RecountItems(c, j)
    \/ \E c \in Callers :
          \/ ClaimTake(c) \/ RecountWrite(c) \/ Abandon(c)
          \/ \E status \in {"succeeded", "failed"} : UpdateItemTerminal(c, status)

MemStoreSpec == MemStoreInit /\ [][MemStoreNext]_memStoreVars

-----------------------------------------------------------------------------
\* "It enforces the same semantics as the Postgres repo": unless deliveries
\* overlap, every step is a step of the tables JobStore specifies.
ImplementsStore == Repo!StoreSpec

\* ClaimNextQueuedItem: "two claimers serialize here and can never receive the
\* same item".
HeldByOne ==
    \A c, d \in Callers : c # d /\ hand[c] = hand[d] => hand[c] = NoItem

-----------------------------------------------------------------------------
\* jobs/status.go: one table of transitions, "so the two stores cannot drift
\* apart"; here also when deliveries overlap.
CannotDrift == [][Repo!StoreNext]_(Repo!storeVars)
=============================================================================
