-------------------------- MODULE ComponentsProofs --------------------------
(***************************************************************************)
(* The components that stand on their own: the in-memory store and queue,  *)
(* the Redis stream, and the audit ledger.                                 *)
(***************************************************************************)
EXTENDS MemStore, AsyncLedger, MemQueue, RedisStream, FiniteSetTheorems, TLAPS

-----------------------------------------------------------------------------
(***************************************************************************)
(* The in-memory store implements the tables of JobStore, for any jobs,    *)
(* items and goroutines, unless deliveries of a job overlap.               *)
(***************************************************************************)

Tallies == [job : Jobs, succeeded : Nat, failed : Nat]

\* Types; no job of the map is ever deleted.
MemTypeOK ==
    /\ jobs \in [Jobs -> [status : Repo!JobStatus \ {"gone"}, completed : Nat, failed : Nat]]
    /\ items \in [Items -> [status : Repo!ItemStatus, attempts : Nat]]
    /\ outbox \in [Jobs -> Repo!OutboxStatus]
    /\ mu \in Callers \cup {NoCaller}
    /\ pick \in [Callers -> Items \cup {NoItem}]
    /\ tally \in [Callers -> Tallies \cup {NoTally}]
    /\ hand \in [Callers -> Items \cup {NoItem}]

\* A job that is not in the map has neither counters nor items.
AbsentIsEmpty ==
    \A j \in Jobs : jobs[j].status = "absent" =>
        /\ jobs[j].completed = 0 /\ jobs[j].failed = 0
        /\ \A i \in Items : JobOf[i] = j => items[i].status = "absent"

\* A caller in the middle of a method holds the mutex, and is in one method.
InsideHolds ==
    \A c \in Callers :
        /\ pick[c] # NoItem \/ tally[c] # NoTally => mu = c
        /\ pick[c] = NoItem \/ tally[c] = NoTally

\* What a claim has found is still queued, and what a recount has counted is
\* still so.
FoundIsQueued ==
    \A c \in Callers : pick[c] # NoItem => items[pick[c]].status = "queued"

TallyCurrent ==
    \A c \in Callers : tally[c] # NoTally =>
        /\ jobs[tally[c].job].status # "absent"
        /\ tally[c].succeeded = Counted(tally[c].job, "succeeded")
        /\ tally[c].failed = Counted(tally[c].job, "failed")

\* An item that somebody works on is running.
HeldIsRunning ==
    \A c \in Callers : hand[c] # NoItem => items[hand[c]].status = "running"

MemInv == /\ MemTypeOK /\ AbsentIsEmpty /\ InsideHolds /\ FoundIsQueued
          /\ TallyCurrent /\ HeldIsRunning /\ HeldByOne

-----------------------------------------------------------------------------
\* JobStore counts with the Cardinality that it takes from FiniteSets itself.
LEMMA SameCardinality ==
    ASSUME NEW S PROVE Repo!Cardinality(S) = Cardinality(S)
BY DEF Repo!Cardinality, Cardinality

\* The number of a job's items in some status is a natural number, the one that
\* JobStore counts (RecomputeAndUpdateJobStatus in both stores).
LEMMA CountedIsNat ==
    ASSUME NEW j, NEW s
    PROVE  /\ Counted(j, s) \in Nat
           /\ Counted(j, s) = Repo!Cardinality(Repo!WithStatus(j, s))
<1>1. {i \in Items : JobOf[i] = j /\ items[i].status = s} = Repo!WithStatus(j, s)
  BY DEF Repo!WithStatus, Repo!ItemsOf
<1>2. IsFiniteSet({i \in Items : JobOf[i] = j /\ items[i].status = s})
  BY FS_Subset, MemStoreAssumption
<1>. QED  BY <1>1, <1>2, FS_CardinalityType, SameCardinality DEF Counted

\* A count depends on the items alone.
LEMMA CountedSame ==
    ASSUME NEW j, NEW s, items' = items
    PROVE  Counted(j, s)' = Counted(j, s)
BY DEF Counted

\* MemStoreInit, NewMemStore.
LEMMA MemInvInit == MemStoreInit => MemInv
<1>. SUFFICES ASSUME MemStoreInit PROVE MemInv  OBVIOUS
<1>1. MemTypeOK
  BY DEF MemStoreInit, MemTypeOK, Repo!JobStatus, Repo!TerminalJob, Repo!ItemStatus,
         Repo!OutboxStatus
<1>2. AbsentIsEmpty /\ InsideHolds /\ FoundIsQueued /\ TallyCurrent /\ HeldIsRunning /\ HeldByOne
  BY DEF MemStoreInit, AbsentIsEmpty, InsideHolds, FoundIsQueued, TallyCurrent,
         HeldIsRunning, HeldByOne
<1>. QED  BY <1>1, <1>2 DEF MemInv

-----------------------------------------------------------------------------
\* A method that runs in one step while the mutex is free leaves no claim and no
\* recount half done (WhileFree).
LEMMA NobodyInside ==
    ASSUME MemInv, mu = NoCaller
    PROVE  \A c \in Callers : pick[c] = NoItem /\ tally[c] = NoTally
BY MemStoreAssumption DEF MemInv, InsideHolds

\* Every method keeps the invariant; one lemma for each that writes the maps.
LEMMA CreateKeeps ==
    ASSUME MemInv, NEW j \in Jobs, CreateWithItemsAndOutbox(j)
    PROVE  MemInv'
<1>. USE MemStoreAssumption DEF CreateWithItemsAndOutbox, WhileFree
<1>1. MemTypeOK'
  BY DEF MemInv, MemTypeOK, Repo!JobStatus, Repo!ItemStatus, Repo!OpenItem, Repo!OutboxStatus
<1>2. AbsentIsEmpty'
  BY DEF MemInv, MemTypeOK, AbsentIsEmpty
<1>3. InsideHolds' /\ FoundIsQueued' /\ TallyCurrent'
  BY NobodyInside DEF InsideHolds, FoundIsQueued, TallyCurrent
<1>4. HeldIsRunning'
  BY DEF MemInv, MemTypeOK, HeldIsRunning, AbsentIsEmpty
<1>5. HeldByOne'
  BY DEF MemInv, HeldByOne
<1>. QED  BY <1>1, <1>2, <1>3, <1>4, <1>5 DEF MemInv

\* MarkJobRunning writes a job's status and no item.
LEMMA MarkRunningKeeps ==
    ASSUME MemInv, NEW j \in Jobs, MarkJobRunning(j)
    PROVE  MemInv'
<1>. USE MemStoreAssumption DEF MarkJobRunning, WhileFree
<1>1. MemTypeOK' /\ AbsentIsEmpty'
  BY DEF MemInv, MemTypeOK, AbsentIsEmpty, Repo!JobStatus
<1>2. InsideHolds' /\ FoundIsQueued' /\ TallyCurrent'
  BY NobodyInside DEF InsideHolds, FoundIsQueued, TallyCurrent
<1>3. HeldIsRunning' /\ HeldByOne'
  BY DEF MemInv, HeldIsRunning, HeldByOne
<1>. QED  BY <1>1, <1>2, <1>3 DEF MemInv

\* RequeueRunningItems returns a job's running items, none of them found by a claim.
LEMMA RequeueKeeps ==
    ASSUME ~Overlapping, MemInv, NEW j \in Jobs, RequeueRunningItems(j)
    PROVE  MemInv'
<1>. USE MemStoreAssumption DEF RequeueRunningItems, WhileFree
<1>1. MemTypeOK'
  BY DEF MemInv, MemTypeOK, Repo!ItemStatus, Repo!OpenItem
<1>2. AbsentIsEmpty'
  BY DEF MemInv, MemTypeOK, AbsentIsEmpty
<1>3. InsideHolds' /\ FoundIsQueued' /\ TallyCurrent'
  BY NobodyInside DEF InsideHolds, FoundIsQueued, TallyCurrent
<1>4. HeldIsRunning'
  BY DEF MemInv, MemTypeOK, HeldIsRunning, Held
<1>5. HeldByOne'
  BY DEF MemInv, HeldByOne
<1>. QED  BY <1>1, <1>2, <1>3, <1>4, <1>5 DEF MemInv

\* MarkOutboxPublished writes the outbox only.
LEMMA PublishedKeeps ==
    ASSUME MemInv, NEW j \in Jobs, MarkOutboxPublished(j)
    PROVE  MemInv'
<1>. USE MemStoreAssumption DEF MarkOutboxPublished, WhileFree
<1>1. MemTypeOK'
  BY DEF MemInv, MemTypeOK, Repo!OutboxStatus
<1>2. AbsentIsEmpty' /\ HeldIsRunning' /\ HeldByOne'
  BY DEF MemInv, AbsentIsEmpty, HeldIsRunning, HeldByOne
<1>3. InsideHolds' /\ FoundIsQueued' /\ TallyCurrent'
  BY NobodyInside DEF InsideHolds, FoundIsQueued, TallyCurrent
<1>. QED  BY <1>1, <1>2, <1>3 DEF MemInv

\* ClaimNextQueuedItem up to its choice: the item it finds is queued.
LEMMA FindKeeps ==
    ASSUME MemInv, NEW c \in Callers, NEW j \in Jobs, ClaimFind(c, j)
    PROVE  MemInv'
<1>. USE MemStoreAssumption DEF ClaimFind, Lock
<1>1. PICK i \in Queued(j) : pick' = [pick EXCEPT ![c] = i]
  OBVIOUS
<1>2. i \in Items /\ items[i].status = "queued"
  BY DEF Queued
<1>3. MemTypeOK'
  BY <1>1, <1>2 DEF MemInv, MemTypeOK
<1>4. AbsentIsEmpty' /\ HeldIsRunning' /\ HeldByOne'
  BY DEF MemInv, AbsentIsEmpty, HeldIsRunning, HeldByOne
<1>5. InsideHolds' /\ FoundIsQueued' /\ TallyCurrent'
  BY <1>1, <1>2, NobodyInside DEF MemInv, MemTypeOK, InsideHolds, FoundIsQueued, TallyCurrent
<1>. QED  BY <1>3, <1>4, <1>5 DEF MemInv

\* The rest of ClaimNextQueuedItem: the item becomes running or, exhausted, fails.
LEMMA TakeKeeps ==
    ASSUME MemInv, NEW c \in Callers, ClaimTake(c)
    PROVE  MemInv'
<1>. USE MemStoreAssumption DEF ClaimTake, Unlock
<1>. DEFINE i == pick[c]
<1>1. i \in Items /\ items[i].status = "queued" /\ mu = c
  BY DEF MemInv, MemTypeOK, FoundIsQueued, InsideHolds
<1>2. \A d \in Callers : d # c => pick[d] = NoItem
  BY <1>1 DEF MemInv, InsideHolds
<1>2a. \A d \in Callers : tally[d] = NoTally
  BY <1>1 DEF MemInv, InsideHolds
<1>3. MemTypeOK'
  <2>1. items' \in [Items -> [status : Repo!ItemStatus, attempts : Nat]]
    <3>1. CASE Exhausted(i)
      BY <1>1, <3>1 DEF MemInv, MemTypeOK, Repo!ItemStatus, Repo!TerminalItem
    <3>2. CASE ~Exhausted(i)
      <4>1. items[i].attempts + 1 \in Nat
        BY <1>1 DEF MemInv, MemTypeOK
      <4>. QED  BY <1>1, <3>2, <4>1 DEF MemInv, MemTypeOK, Repo!ItemStatus, Repo!OpenItem
    <3>. QED  BY <3>1, <3>2
  <2>. QED  BY <1>1, <2>1 DEF MemInv, MemTypeOK
<1>4. AbsentIsEmpty'
  BY <1>1 DEF MemInv, MemTypeOK, AbsentIsEmpty
<1>5. InsideHolds' /\ FoundIsQueued' /\ TallyCurrent'
  BY <1>2, <1>2a DEF MemInv, MemTypeOK, InsideHolds, FoundIsQueued, TallyCurrent
<1>6. \A d \in Callers : hand[d] # i
  BY <1>1 DEF MemInv, HeldIsRunning
<1>7. HeldIsRunning' /\ HeldByOne'
  <2>1. CASE Exhausted(i)
    BY <1>1, <1>6, <2>1 DEF MemInv, MemTypeOK, HeldIsRunning, HeldByOne
  <2>2. CASE ~Exhausted(i)
    <3>1. hand' = [hand EXCEPT ![c] = i] /\ items'[i].status = "running"
      BY <1>1, <2>2 DEF MemInv, MemTypeOK
    <3>2. \A k \in Items : k # i => items'[k] = items[k]
      BY <1>1, <2>2 DEF MemInv, MemTypeOK
    <3>3. HeldIsRunning'
      BY <1>6, <3>1, <3>2 DEF MemInv, MemTypeOK, HeldIsRunning
    <3>4. HeldByOne'
      BY <1>1, <1>6, <3>1 DEF MemInv, MemTypeOK, HeldByOne
    <3>. QED  BY <3>3, <3>4
  <2>. QED  BY <2>1, <2>2
<1>. QED  BY <1>3, <1>4, <1>5, <1>7 DEF MemInv

\* UpdateItemTerminal ends an item, which its caller then no longer holds.
LEMMA TerminalKeeps ==
    ASSUME MemInv, NEW c \in Callers, NEW status \in {"succeeded", "failed"},
           UpdateItemTerminal(c, status)
    PROVE  MemInv'
<1>. USE MemStoreAssumption DEF UpdateItemTerminal, WhileFree
<1>. DEFINE i == hand[c]
<1>1. i \in Items /\ items[i].status = "running"
  BY DEF MemInv, MemTypeOK, HeldIsRunning
<1>2. items' = [items EXCEPT ![i].status = status]
  BY <1>1 DEF Repo!ValidItemTransition
<1>3. MemTypeOK'
  BY <1>1, <1>2 DEF MemInv, MemTypeOK, Repo!ItemStatus, Repo!TerminalItem
<1>4. AbsentIsEmpty'
  BY <1>1, <1>2 DEF MemInv, MemTypeOK, AbsentIsEmpty
<1>5. InsideHolds' /\ FoundIsQueued' /\ TallyCurrent'
  BY NobodyInside DEF InsideHolds, FoundIsQueued, TallyCurrent
<1>6. HeldIsRunning' /\ HeldByOne'
  BY <1>1, <1>2 DEF MemInv, MemTypeOK, HeldIsRunning, HeldByOne
<1>. QED  BY <1>3, <1>4, <1>5, <1>6 DEF MemInv

\* A goroutine that gives up an item leaves it running in the map.
LEMMA AbandonKeeps ==
    ASSUME MemInv, NEW c \in Callers, Abandon(c)
    PROVE  MemInv'
<1>. USE MemStoreAssumption DEF Abandon
<1>1. MemTypeOK'
  BY DEF MemInv, MemTypeOK
<1>2. AbsentIsEmpty' /\ InsideHolds' /\ FoundIsQueued'
  BY DEF MemInv, AbsentIsEmpty, InsideHolds, FoundIsQueued
<1>3. TallyCurrent'
  BY CountedSame DEF MemInv, TallyCurrent
<1>4. HeldIsRunning' /\ HeldByOne'
  BY DEF MemInv, MemTypeOK, HeldIsRunning, HeldByOne
<1>. QED  BY <1>1, <1>2, <1>3, <1>4 DEF MemInv

\* The counting loop of RecomputeAndUpdateJobStatus reads the items only.
LEMMA RecountItemsKeeps ==
    ASSUME MemInv, NEW c \in Callers, NEW j \in Jobs, RecountItems(c, j)
    PROVE  MemInv'
<1>. USE MemStoreAssumption DEF RecountItems, Lock
<1>. DEFINE t == [job |-> j, succeeded |-> Counted(j, "succeeded"),
                  failed |-> Counted(j, "failed")]
<1>1. t \in Tallies
  BY CountedIsNat DEF Tallies
<1>2. tally' = [tally EXCEPT ![c] = t]
  OBVIOUS
<1>. HIDE DEF t
<1>3. MemTypeOK'
  BY <1>1, <1>2 DEF MemInv, MemTypeOK
<1>4. AbsentIsEmpty' /\ FoundIsQueued' /\ HeldIsRunning' /\ HeldByOne'
  BY DEF MemInv, AbsentIsEmpty, FoundIsQueued, HeldIsRunning, HeldByOne
<1>5. InsideHolds'
  BY <1>2, NobodyInside DEF MemInv, MemTypeOK, InsideHolds
<1>6. TallyCurrent'
  <2>. SUFFICES ASSUME NEW d \in Callers, tally'[d] # NoTally
                PROVE  /\ jobs[tally'[d].job].status # "absent"
                       /\ tally'[d].succeeded = Counted(tally'[d].job, "succeeded")
                       /\ tally'[d].failed = Counted(tally'[d].job, "failed")
    BY CountedSame DEF TallyCurrent
  <2>1. d = c /\ tally'[d] = t
    BY <1>2, NobodyInside DEF MemInv, MemTypeOK
  <2>. QED  BY <2>1 DEF t
<1>. QED  BY <1>3, <1>4, <1>5, <1>6 DEF MemInv

\* The rest of RecomputeAndUpdateJobStatus writes the job's counters and status.
LEMMA RecountWriteKeeps ==
    ASSUME MemInv, NEW c \in Callers, RecountWrite(c)
    PROVE  MemInv'
<1>. USE MemStoreAssumption DEF RecountWrite, Unlock
<1>. DEFINE t == tally[c]
            status == Repo!AggregateJobStatus(Cardinality(Repo!ItemsOf(t.job)),
                                              t.succeeded, t.failed)
            row == [status |-> status, completed |-> t.succeeded, failed |-> t.failed]
<1>1. t \in Tallies /\ jobs[t.job].status # "absent" /\ mu = c
  BY DEF MemInv, MemTypeOK, TallyCurrent, InsideHolds
<1>2. t.job \in Jobs
  BY <1>1 DEF Tallies
<1>3. /\ row \in [status : Repo!JobStatus \ {"gone"}, completed : Nat, failed : Nat]
      /\ row.status # "absent"
  BY <1>1 DEF Tallies, Repo!AggregateJobStatus, Repo!JobStatus, Repo!TerminalJob
<1>4. jobs' = [jobs EXCEPT ![t.job] = row]
  OBVIOUS
<1>. HIDE DEF row
<1>5. MemTypeOK'
  BY <1>2, <1>3, <1>4 DEF MemInv, MemTypeOK
<1>6. AbsentIsEmpty'
  BY <1>2, <1>3, <1>4 DEF MemInv, MemTypeOK, AbsentIsEmpty
<1>7. InsideHolds' /\ TallyCurrent'
  <2>1. \A d \in Callers : pick[d] = NoItem /\ tally'[d] = NoTally
    BY <1>1 DEF MemInv, MemTypeOK, InsideHolds
  <2>. QED  BY <2>1 DEF InsideHolds, TallyCurrent
<1>8. FoundIsQueued' /\ HeldIsRunning' /\ HeldByOne'
  BY DEF MemInv, FoundIsQueued, HeldIsRunning, HeldByOne
<1>. QED  BY <1>5, <1>6, <1>7, <1>8 DEF MemInv

-----------------------------------------------------------------------------
\* A step of the store is a step of the tables, or changes none of them; one
\* lemma for each step whose counterpart is not the statement of its own name.

\* The first half of a claim is the SELECT ... FOR UPDATE.
LEMMA FindIsSelect ==
    ASSUME MemInv, NEW c \in Callers, NEW j \in Jobs, ClaimFind(c, j)
    PROVE  Repo!StoreNext
<1>1. PICK i \in Queued(j) : pick' = [pick EXCEPT ![c] = i]
  BY DEF ClaimFind
<1>2. i \in Items /\ JobOf[i] = j /\ items[i].status = "queued"
  BY <1>1 DEF Queued
<1>3. Found = {}
  BY NobodyInside, MemStoreAssumption DEF ClaimFind, Lock, Found
<1>4. Found' = Found \cup {i}
  BY <1>1, <1>2, <1>3, NobodyInside, MemStoreAssumption
  DEF ClaimFind, Lock, Found, MemInv, MemTypeOK
<1>5. Repo!ClaimSelect(j, i)
  BY <1>2, <1>3, <1>4
  DEF ClaimFind, Repo!ClaimSelect, Repo!Claimable, Repo!WithStatus, Repo!ItemsOf
<1>6. i \in Repo!ItemsOf(j)
  BY <1>2 DEF Repo!ItemsOf
<1>. QED  BY <1>5, <1>6 DEF Repo!StoreNext

\* The second half is the UPDATE and the commit.
LEMMA TakeIsCommit ==
    ASSUME MemInv, NEW c \in Callers, ClaimTake(c)
    PROVE  Repo!StoreNext
<1>. DEFINE i == pick[c]
<1>1. i \in Items /\ i # NoItem /\ mu = c
  BY MemStoreAssumption DEF ClaimTake, MemInv, MemTypeOK, InsideHolds
<1>2. \A d \in Callers : d # c => pick[d] = NoItem
  BY <1>1 DEF MemInv, InsideHolds
<1>3. i \in Found
  BY <1>1 DEF Found
<1>4. Found' = Found \ {i}
  BY <1>1, <1>2, MemStoreAssumption DEF ClaimTake, Found, MemInv, MemTypeOK
<1>5. items' = [items EXCEPT ![i] =
                    IF Repo!Exhausted(i) THEN [@ EXCEPT !.status = "failed"]
                    ELSE [status |-> "running", attempts |-> @.attempts + 1]]
  BY DEF ClaimTake, Exhausted, Repo!Exhausted
<1>6. Repo!ClaimCommit(i)
  BY <1>3, <1>4, <1>5 DEF ClaimTake, Repo!ClaimCommit
<1>. QED  BY <1>1, <1>6 DEF Repo!StoreNext

\* A claimed item is running, so that the table of transitions and the WHERE
\* clause of the Postgres store agree.
LEMMA TerminalIsUpdate ==
    ASSUME MemInv, NEW c \in Callers, NEW status \in {"succeeded", "failed"},
           UpdateItemTerminal(c, status)
    PROVE  Repo!StoreNext
<1>. DEFINE i == hand[c]
<1>1. i \in Items /\ items[i].status = "running"
  BY MemStoreAssumption DEF UpdateItemTerminal, MemInv, MemTypeOK, HeldIsRunning
<1>2. Repo!UpdateItemTerminal(i, status)
  BY <1>1 DEF UpdateItemTerminal, WhileFree, Found, Repo!ValidItemTransition,
              Repo!UpdateItemTerminal
<1>3. status \in Repo!TerminalItem
  BY DEF Repo!TerminalItem
<1>. QED  BY <1>1, <1>2, <1>3 DEF Repo!StoreNext

\* The counts a recount writes are the current ones, the newest that the
\* Postgres store may write.
LEMMA WriteIsRecompute ==
    ASSUME MemInv, NEW c \in Callers, RecountWrite(c)
    PROVE  Repo!StoreNext
<1>. DEFINE t == tally[c]
            counts == [succeeded |-> t.succeeded, failed |-> t.failed]
<1>1. t \in Tallies /\ jobs[t.job].status # "absent"
  BY DEF RecountWrite, MemInv, MemTypeOK, TallyCurrent
<1>2. t.job \in Jobs
  BY <1>1 DEF Tallies
<1>3. /\ t.succeeded \in 0 .. Repo!RecomputeCounts(t.job).succeeded
      /\ t.failed \in 0 .. Repo!RecomputeCounts(t.job).failed
  <2>1. /\ t.succeeded = Counted(t.job, "succeeded")
        /\ t.failed = Counted(t.job, "failed")
    BY DEF RecountWrite, MemInv, TallyCurrent
  <2>2. /\ Counted(t.job, "succeeded") \in Nat
        /\ Counted(t.job, "succeeded") = Repo!RecomputeCounts(t.job).succeeded
    BY CountedIsNat DEF Repo!RecomputeCounts
  <2>3. /\ Counted(t.job, "failed") \in Nat
        /\ Counted(t.job, "failed") = Repo!RecomputeCounts(t.job).failed
    BY CountedIsNat DEF Repo!RecomputeCounts
  <2>. HIDE DEF t
  <2>. QED  BY <2>1, <2>2, <2>3
<1>4. Repo!Exists(t.job)
  BY <1>1, <1>2 DEF MemInv, MemTypeOK, Repo!Exists
<1>5. /\ jobs' = [jobs EXCEPT ![t.job] =
                     [status |-> Repo!AggregateJobStatus(Cardinality(Repo!ItemsOf(t.job)),
                                                         counts.succeeded, counts.failed),
                      completed |-> counts.succeeded, failed |-> counts.failed]]
      /\ UNCHANGED <<items, outbox, Found>>
  BY DEF RecountWrite, Found
<1>6. Repo!RecomputeWrite(t.job, counts)
  <2>. HIDE DEF t, counts
  <2>. QED  BY <1>4, <1>5, SameCardinality DEF Repo!RecomputeWrite
<1>. QED  BY <1>2, <1>3, <1>6 DEF Repo!StoreNext

\* Every step of the in-memory store, by the lemmas above.
LEMMA StepSimulated ==
    ASSUME ~Overlapping, MemInv, [MemStoreNext]_memStoreVars
    PROVE  MemInv' /\ [Repo!StoreNext]_(Repo!storeVars)
<1>1. ASSUME NEW j \in Jobs, CreateWithItemsAndOutbox(j)
      PROVE  MemInv' /\ Repo!StoreNext
  <2>1. jobs' = [jobs EXCEPT ![j].status = "queued"]
    BY <1>1 DEF CreateWithItemsAndOutbox, MemInv, MemTypeOK, AbsentIsEmpty
  <2>2. Repo!CreateWithItemsAndOutbox(j)
    BY <1>1, <2>1 DEF CreateWithItemsAndOutbox, WhileFree, Found, Repo!CreateWithItemsAndOutbox
  <2>. QED  BY <1>1, <2>2, CreateKeeps DEF Repo!StoreNext
<1>2. ASSUME NEW j \in Jobs, MarkJobRunning(j)
      PROVE  MemInv' /\ Repo!StoreNext
  <2>1. Repo!MarkJobRunning(j)
    BY <1>2 DEF MarkJobRunning, WhileFree, Found, Repo!MarkJobRunning,
                Repo!ValidJobTransition, Repo!TerminalJob
  <2>. QED  BY <1>2, <2>1, MarkRunningKeeps DEF Repo!StoreNext
<1>3. ASSUME NEW j \in Jobs, RequeueRunningItems(j)
      PROVE  MemInv' /\ Repo!StoreNext
  <2>1. Repo!RequeueRunningItems(j)
    BY <1>3 DEF RequeueRunningItems, WhileFree, Found, Repo!RequeueRunningItems,
                Repo!WithStatus, Repo!ItemsOf
  <2>. QED  BY <1>3, <2>1, RequeueKeeps DEF Repo!StoreNext
<1>4. ASSUME NEW j \in Jobs, MarkOutboxPublished(j)
      PROVE  MemInv' /\ Repo!StoreNext
  <2>1. Repo!MarkOutboxPublished(j)
    BY <1>4 DEF MarkOutboxPublished, WhileFree, Found, Repo!MarkOutboxPublished
  <2>. QED  BY <1>4, <2>1, PublishedKeeps DEF Repo!StoreNext
<1>5. ASSUME NEW c \in Callers, NEW j \in Jobs, ClaimFind(c, j)
      PROVE  MemInv' /\ Repo!StoreNext
  BY <1>5, FindKeeps, FindIsSelect
<1>6. ASSUME NEW c \in Callers, ClaimTake(c)
      PROVE  MemInv' /\ Repo!StoreNext
  BY <1>6, TakeKeeps, TakeIsCommit
<1>7. ASSUME NEW c \in Callers, NEW status \in {"succeeded", "failed"},
             UpdateItemTerminal(c, status)
      PROVE  MemInv' /\ Repo!StoreNext
  BY <1>7, TerminalKeeps, TerminalIsUpdate
<1>8. ASSUME NEW c \in Callers, Abandon(c)
      PROVE  MemInv' /\ UNCHANGED Repo!storeVars
  BY <1>8, AbandonKeeps DEF Abandon, Found, Repo!storeVars
<1>9. ASSUME NEW c \in Callers, NEW j \in Jobs, RecountItems(c, j)
      PROVE  MemInv' /\ UNCHANGED Repo!storeVars
  BY <1>9, RecountItemsKeeps DEF RecountItems, Found, Repo!storeVars
<1>10. ASSUME NEW c \in Callers, RecountWrite(c)
       PROVE  MemInv' /\ Repo!StoreNext
  BY <1>10, RecountWriteKeeps, WriteIsRecompute
<1>11. ASSUME UNCHANGED memStoreVars
       PROVE  MemInv' /\ UNCHANGED Repo!storeVars
  <2>. USE <1>11 DEF memStoreVars
  <2>1. MemTypeOK' /\ AbsentIsEmpty' /\ InsideHolds' /\ FoundIsQueued'
    BY DEF MemInv, MemTypeOK, AbsentIsEmpty, InsideHolds, FoundIsQueued
  <2>2. TallyCurrent' /\ HeldIsRunning' /\ HeldByOne'
    BY CountedSame DEF MemInv, TallyCurrent, HeldIsRunning, HeldByOne
  <2>. QED  BY <2>1, <2>2 DEF MemInv, Found, Repo!storeVars
<1>. QED
  BY <1>1, <1>2, <1>3, <1>4, <1>5, <1>6, <1>7, <1>8, <1>9, <1>10, <1>11 DEF MemStoreNext

\* The in-memory store behaves as the Postgres store does, for any jobs, items
\* and goroutines, as long as no delivery requeues items that are held
\* (memstore.go: "It enforces the same semantics as the Postgres repo").
THEOREM MemStoreImplements ==
    ASSUME ~Overlapping PROVE MemStoreSpec => ImplementsStore
<1>1. MemStoreInit => Repo!StoreInit
  BY MemStoreAssumption DEF MemStoreInit, Found, Repo!StoreInit
<1>. QED
  BY <1>1, MemInvInit, StepSimulated, PTL DEF MemStoreSpec, ImplementsStore, Repo!StoreSpec

\* Under the same condition no two goroutines work on one item
\* (ClaimNextQueuedItem: "two claimers serialize here and can never receive the
\* same item").
THEOREM ClaimsExclusive ==
    ASSUME ~Overlapping PROVE MemStoreSpec => []HeldByOne
<1>1. MemInv => HeldByOne
  BY DEF MemInv
<1>. QED  BY <1>1, MemInvInit, StepSimulated, PTL DEF MemStoreSpec

-----------------------------------------------------------------------------
(***************************************************************************)
(* The audit ledger for any number of requests and workers, any buffer and *)
(* any timing of shutdown: an accepted row is in one place until it is     *)
(* settled, so a Close that reports no timeout has settled all of them.    *)
(***************************************************************************)

Closing == {"closing", "closed", "emptying", "exited"}
Fates == {"none", "accepted", "dropped", "written", "failed"}
LoopState == [pc : {"wait", "insert", "drain", "flush", "returned"},
              row : Rows \cup {NoRow}]

LedgerTypeOK ==
    /\ phase \in {"serving", "draining", "closing", "closed", "emptying", "exited"}
    /\ late \in BOOLEAN
    /\ active \subseteq Rows /\ early \subseteq Rows
    /\ queue \in Seq(Rows)
    /\ worker \in [Workers -> LoopState]
    /\ fate \in [Rows -> Fates]

\* A worker has a row exactly while it inserts one.
RowInHand ==
    \A w \in Workers : worker[w].row # NoRow <=> worker[w].pc \in {"insert", "flush"}

\* No row is in two places.
Apart ==
    /\ \A i, j \in DOMAIN queue : queue[i] = queue[j] => i = j
    /\ \A v, w \in Workers :
          worker[v].row = worker[w].row /\ worker[v].row # NoRow => v = w
    /\ \A i \in DOMAIN queue, w \in Workers : queue[i] # worker[w].row

\* The accepted rows are those in the queue or with a worker.
Somewhere(r) == (\E i \in DOMAIN queue : queue[i] = r)
                \/ (\E w \in Workers : worker[w].row = r)
Placed == \A r \in Rows : fate[r] = "accepted" <=> Somewhere(r)

\* A request that has not recorded has no fate, an early row was not dropped.
Unrecorded == \A r \in active : fate[r] = "none"
EarlyKept == \A r \in early : fate[r] \in {"accepted", "written", "failed"}

\* A worker returns only once no row of before Close is queued.
ReturnedDrained ==
    \A w \in Workers : worker[w].pc = "returned" =>
        /\ phase \in Closing
        /\ \A i \in DOMAIN queue : queue[i] \notin early
DrainsAfterClose ==
    \A w \in Workers : worker[w].pc \in {"drain", "flush"} =>
        phase \in Closing
InTime ==
    phase \in {"closed", "emptying", "exited"} /\ ~late =>
        \A w \in Workers : worker[w].pc = "returned"

LedgerInv == /\ LedgerTypeOK /\ RowInHand /\ Apart /\ Placed /\ Unrecorded
             /\ EarlyKept /\ ReturnedDrained /\ DrainsAfterClose /\ InTime

-----------------------------------------------------------------------------
\* NewAsyncLedger: an empty queue and waiting workers.
LEMMA LedgerInvInit == LedgerInit => LedgerInv
<1>. SUFFICES ASSUME LedgerInit PROVE LedgerInv  OBVIOUS
<1>. USE LedgerAssumption DEF LedgerInit
<1>0. queue = <<>> /\ DOMAIN queue = {}
  OBVIOUS
<1>1. LedgerTypeOK
  <2>1. [pc |-> "wait", row |-> NoRow] \in LoopState
    BY DEF LoopState
  <2>2. worker \in [Workers -> LoopState] /\ fate \in [Rows -> Fates]
    BY <2>1 DEF Fates
  <2>3. queue \in Seq(Rows) /\ active \subseteq Rows /\ early \subseteq Rows
    OBVIOUS
  <2>4. late \in BOOLEAN /\ phase \in {"serving", "draining", "closing", "closed", "emptying", "exited"}
    OBVIOUS
  <2>. HIDE DEF LedgerInit
  <2>. QED  BY <2>2, <2>3, <2>4 DEF LedgerTypeOK
<1>2. RowInHand /\ Unrecorded /\ EarlyKept /\ ReturnedDrained
      /\ DrainsAfterClose /\ InTime
  BY DEF RowInHand, Unrecorded, EarlyKept, ReturnedDrained, DrainsAfterClose, InTime
<1>3. Apart /\ Placed
  BY <1>0 DEF Apart, Placed, Somewhere
<1>. QED  BY <1>1, <1>2, <1>3 DEF LedgerInv

\* Record puts the row of a request that has none yet at the end of the queue,
\* or drops it.
LEMMA RecordKeeps ==
    ASSUME LedgerInv, NEW r \in Rows, Record(r)
    PROVE  LedgerInv'
<1>. USE LedgerAssumption DEF LedgerInv
<1>1. r \in active /\ fate[r] = "none" /\ ~Somewhere(r)
  BY DEF Record, Unrecorded, Placed
<1>2. CASE Len(queue) < Buffer
  <2>1. /\ queue' = Append(queue, r) /\ fate' = [fate EXCEPT ![r] = "accepted"]
        /\ active' = active \ {r} /\ UNCHANGED <<phase, late, worker>>
        /\ early' = early \/ (early' = early \cup {r} /\ ~Done)
    BY <1>2 DEF Record
  <2>2. /\ DOMAIN queue' = DOMAIN queue \cup {Len(queue) + 1}
        /\ Len(queue) + 1 \notin DOMAIN queue
        /\ queue'[Len(queue) + 1] = r
        /\ \A i \in DOMAIN queue : queue'[i] = queue[i]
        /\ queue' \in Seq(Rows)
    BY <2>1 DEF LedgerTypeOK
  <2>3. LedgerTypeOK' /\ RowInHand' /\ InTime'
    BY <1>1, <2>1, <2>2 DEF LedgerTypeOK, RowInHand, InTime, Fates
  <2>4. Apart'
    BY <1>1, <2>1, <2>2 DEF Apart, Somewhere
  <2>5. Placed'
    BY <1>1, <2>1, <2>2 DEF Placed, Somewhere, LedgerTypeOK
  <2>6. Unrecorded' /\ EarlyKept'
    BY <1>1, <2>1 DEF Unrecorded, EarlyKept, LedgerTypeOK
  <2>7. ReturnedDrained' /\ DrainsAfterClose'
    BY <1>1, <2>1, <2>2 DEF ReturnedDrained, DrainsAfterClose, EarlyKept, Done, Closing, Record
  <2>. QED  BY <2>3, <2>4, <2>5, <2>6, <2>7
<1>3. CASE ~(Len(queue) < Buffer)
  <2>1. /\ fate' = [fate EXCEPT ![r] = "dropped"] /\ active' = active \ {r}
        /\ UNCHANGED <<phase, late, worker, queue, early>>
    BY <1>3 DEF Record
  <2>2. LedgerTypeOK' /\ RowInHand' /\ InTime' /\ Apart' /\ ReturnedDrained'
        /\ DrainsAfterClose'
    BY <2>1 DEF LedgerTypeOK, Fates, RowInHand, InTime, Apart, ReturnedDrained,
       DrainsAfterClose
  <2>3. Placed' /\ Unrecorded' /\ EarlyKept'
    BY <1>1, <2>1 DEF Placed, Somewhere, Unrecorded, EarlyKept, LedgerTypeOK
  <2>. QED  BY <2>2, <2>3
<1>. QED  BY <1>2, <1>3

\* A worker takes the first row of the queue.
LEMMA LoopTakes ==
    ASSUME LedgerInv, NEW w \in Workers, Take(w)
    PROVE  LedgerInv'
<1>. USE LedgerAssumption DEF LedgerInv
<1>. DEFINE h == Head(queue)
<1>1. PICK pc \in {"insert", "flush"} :
        worker' = [worker EXCEPT ![w] = [pc |-> pc, row |-> h]]
  BY DEF Take
<1>2. /\ queue # <<>> /\ queue' = Tail(queue)
      /\ worker[w].pc \in {"wait", "drain"} /\ UNCHANGED <<phase, late, active, fate, early>>
  BY DEF Take
<1>3. /\ h \in Rows /\ h = queue[1] /\ 1 \in DOMAIN queue
      /\ queue' \in Seq(Rows)
      /\ \A i \in DOMAIN queue' : i \in Nat /\ i + 1 \in DOMAIN queue /\ queue'[i] = queue[i + 1]
                                  /\ i + 1 # 1
      /\ \A i \in DOMAIN queue : i # 1 =>
            \E k \in DOMAIN queue' : i = k + 1
  <2>1. queue \in Seq(Rows) /\ Len(queue) \in Nat /\ Len(queue) > 0
    BY <1>2 DEF LedgerTypeOK
  <2>2. h \in Rows /\ h = queue[1] /\ queue' \in Seq(Rows)
        /\ DOMAIN queue = 1 .. Len(queue) /\ DOMAIN queue' = 1 .. Len(queue) - 1
        /\ \A i \in 1 .. Len(queue) - 1 : queue'[i] = queue[i + 1]
    BY <1>2, <2>1
  <2>3. ASSUME NEW i \in 1 .. Len(queue), i # 1
        PROVE  \E k \in DOMAIN queue' : i = k + 1
    <3>1. i - 1 \in DOMAIN queue' /\ i = (i - 1) + 1
      BY <2>1, <2>2, <2>3
    <3>. QED  BY <3>1
  <2>4. ASSUME NEW i \in 1 .. Len(queue) - 1
        PROVE  i \in Nat /\ i + 1 \in DOMAIN queue /\ i + 1 # 1
    BY <2>1, <2>2
  <2>5. 1 \in DOMAIN queue
    BY <2>1, <2>2
  <2>. HIDE DEF h
  <2>. QED  BY <2>2, <2>3, <2>4, <2>5
<1>. HIDE DEF h
<1>4. /\ worker'[w].pc = pc /\ worker'[w].row = h /\ worker[w].row = NoRow
      /\ \A v \in Workers : v # w => worker'[v] = worker[v]
  BY <1>1, <1>2 DEF LedgerTypeOK, RowInHand
<1>5. LedgerTypeOK'
  BY <1>1, <1>2, <1>3 DEF LedgerTypeOK, LoopState
<1>6. RowInHand'
  BY <1>3, <1>4 DEF RowInHand
<1>7. Apart'
  <2>1. \A i, j \in DOMAIN queue' : queue'[i] = queue'[j] => i = j
    <3>. SUFFICES ASSUME NEW i \in DOMAIN queue', NEW j \in DOMAIN queue',
                         queue'[i] = queue'[j]
                  PROVE  i = j
      OBVIOUS
    <3>1. i + 1 = j + 1 /\ i \in Nat /\ j \in Nat
      BY <1>3 DEF Apart
    <3>. QED  BY <3>1
  <2>2. \A i \in DOMAIN queue' : queue'[i] # h
    BY <1>3 DEF Apart
  <2>3. \A i \in DOMAIN queue', v \in Workers : queue'[i] # worker'[v].row
    BY <1>3, <1>4, <2>2 DEF Apart
  <2>4. \A v \in Workers : v # w => worker'[v].row # h
    BY <1>3, <1>4 DEF Apart
  <2>5. \A u, v \in Workers :
          worker'[u].row = worker'[v].row /\ worker'[u].row # NoRow => u = v
    BY <1>4, <2>4 DEF Apart
  <2>. QED  BY <2>1, <2>3, <2>5 DEF Apart
<1>8. Placed'
  <2>. SUFFICES ASSUME NEW r \in Rows PROVE Somewhere(r)' <=> Somewhere(r)
    BY <1>2 DEF Placed
  <2>1. CASE r = h
    BY <1>3, <1>4, <2>1 DEF Somewhere
  <2>2. CASE r # h
    <3>1. (\E i \in DOMAIN queue : queue[i] = r) <=> (\E i \in DOMAIN queue' : queue'[i] = r)
      BY <1>3, <2>2
    <3>2. (\E v \in Workers : worker[v].row = r) <=> (\E v \in Workers : worker'[v].row = r)
      BY <1>4, <2>2
    <3>. QED  BY <3>1, <3>2 DEF Somewhere
  <2>. QED  BY <2>1, <2>2
<1>9. Unrecorded' /\ EarlyKept'
  BY <1>2 DEF Unrecorded, EarlyKept
<1>10. ReturnedDrained' /\ InTime'
  BY <1>1, <1>2, <1>3, <1>4 DEF ReturnedDrained, InTime
<1>11. DrainsAfterClose'
  <2>1. worker'[w].pc = "flush" => worker[w].pc = "drain"
    BY <1>2, <1>4 DEF Take, LedgerTypeOK
  <2>. QED  BY <1>1, <1>2, <1>4, <2>1 DEF DrainsAfterClose
<1>. QED  BY <1>5, <1>6, <1>7, <1>8, <1>9, <1>10, <1>11

\* An insert settles the row in hand.
LEMMA InsertKeeps ==
    ASSUME LedgerInv, NEW w \in Workers, Insert(w)
    PROVE  LedgerInv'
<1>. USE LedgerAssumption DEF LedgerInv
<1>. DEFINE r == worker[w].row
<1>1. PICK f \in {"written", "failed"} : fate' = [fate EXCEPT ![r] = f]
  BY DEF Insert
<1>2. PICK pc \in {"wait", "drain"} :
        /\ worker' = [worker EXCEPT ![w] = [pc |-> pc, row |-> NoRow]]
        /\ pc = "drain" => worker[w].pc = "flush"
  BY DEF Insert
<1>3. worker[w].pc \in {"insert", "flush"} /\ UNCHANGED <<phase, late, active, queue, early>>
  BY DEF Insert
<1>4. r \in Rows /\ fate[r] = "accepted"
  BY <1>3 DEF RowInHand, LedgerTypeOK, LoopState, Placed, Somewhere
<1>5. /\ worker'[w].pc = pc /\ worker'[w].row = NoRow
      /\ \A v \in Workers : v # w => worker'[v] = worker[v]
      /\ fate'[r] = f /\ \A q \in Rows : q # r => fate'[q] = fate[q]
  BY <1>1, <1>2, <1>4 DEF LedgerTypeOK
<1>6. LedgerTypeOK'
  <2>1. [pc |-> pc, row |-> NoRow] \in LoopState
    BY DEF LoopState
  <2>. QED  BY <1>1, <1>2, <1>3, <2>1 DEF LedgerTypeOK, Fates
<1>7. RowInHand' /\ Apart'
  <2>1. pc # "insert" /\ pc # "flush"
    OBVIOUS
  <2>2. RowInHand'
    BY <1>5, <2>1 DEF RowInHand
  <2>3. \A i \in DOMAIN queue : queue[i] \in Rows /\ queue[i] # NoRow
    BY LedgerAssumption DEF LedgerTypeOK
  <2>. QED  BY ONLY <1>3, <1>5, <2>2, <2>3, Apart DEF Apart
<1>8. Placed'
  <2>. SUFFICES ASSUME NEW q \in Rows PROVE fate'[q] = "accepted" <=> Somewhere(q)'
    BY DEF Placed
  <2>1. CASE q = r
    BY <1>3, <1>4, <1>5, <2>1 DEF Somewhere, Apart
  <2>2. CASE q # r
    BY <1>3, <1>5, <2>2 DEF Somewhere, Placed
  <2>. QED  BY <2>1, <2>2
<1>9. Unrecorded' /\ EarlyKept'
  BY <1>3, <1>4, <1>5 DEF Unrecorded, EarlyKept, LedgerTypeOK
<1>10. ReturnedDrained' /\ InTime'
  BY <1>3, <1>5 DEF ReturnedDrained, InTime
<1>11. DrainsAfterClose'
  BY <1>2, <1>3, <1>5 DEF DrainsAfterClose
<1>. QED  BY <1>6, <1>7, <1>8, <1>9, <1>10, <1>11

\* A worker turns to its drain loop, or leaves it with the queue empty.
LEMMA LoopKeeps ==
    ASSUME LedgerInv, NEW w \in Workers, TurnToDrain(w) \/ Return(w)
    PROVE  LedgerInv'
<1>. USE LedgerAssumption DEF LedgerInv
<1>1. PICK pc \in {"drain", "returned"} : worker' = [worker EXCEPT ![w].pc = pc]
  BY DEF TurnToDrain, Return
<1>2. /\ worker[w].pc \in {"wait", "drain"}
      /\ UNCHANGED <<phase, late, active, queue, fate, early>>
  BY DEF TurnToDrain, Return
<1>3. /\ worker'[w].pc = pc /\ worker'[w].row = worker[w].row
      /\ \A v \in Workers : v # w => worker'[v] = worker[v]
  BY <1>1 DEF LedgerTypeOK, LoopState
<1>4. LedgerTypeOK'
  BY <1>1, <1>2 DEF LedgerTypeOK, LoopState
<1>5. RowInHand' /\ Apart'
  BY <1>2, <1>3 DEF RowInHand, Apart
<1>6. Placed' /\ Unrecorded' /\ EarlyKept'
  BY <1>2, <1>3 DEF Placed, Somewhere, Unrecorded, EarlyKept
<1>7. InTime'
  BY <1>2, <1>3 DEF InTime
<1>8. pc = "returned" => queue = <<>> /\ phase \in Closing
  <2>1. pc = "returned" => Return(w)
    BY <1>3, <1>1 DEF TurnToDrain, LedgerTypeOK, LoopState
  <2>2. worker[w].pc = "drain" => phase \in Closing
    BY DEF DrainsAfterClose
  <2>. QED  BY <2>1, <2>2 DEF Return
<1>9. ReturnedDrained'
  <2>1. queue = <<>> => DOMAIN queue = {}
    OBVIOUS
  <2>. QED  BY <1>2, <1>3, <1>8, <2>1 DEF ReturnedDrained
<1>10. DrainsAfterClose'
  BY <1>2, <1>3, <1>8 DEF DrainsAfterClose, TurnToDrain, Return, Done, Closing
<1>. QED  BY <1>4, <1>5, <1>6, <1>7, <1>9, <1>10

\* Requests begin, query the store and end without a row, and the process goes from
\* one phase of its end to the next.
LEMMA PhaseKeeps ==
    ASSUME LedgerInv,
           \/ \E r \in Rows : BeginRequest(r) \/ QueryStarts(r) \/ QueryEnds(r)
                              \/ EndRequest(r)
           \/ Signal \/ CloseLedger \/ CloseReturns \/ PoolCloses \/ Exit
    PROVE  LedgerInv'
<1>. USE LedgerAssumption DEF LedgerInv
<1>. USE DEF QueryStarts, QueryEnds, EndRequest, PoolCloses, Closing
<1>1. UNCHANGED <<queue, worker, fate, early>>
  BY DEF BeginRequest, Signal, CloseLedger, CloseReturns, Exit
<1>2. RowInHand' /\ Apart' /\ Placed' /\ EarlyKept'
  BY <1>1 DEF RowInHand, Apart, Placed, Somewhere, EarlyKept
<1>3. active' \subseteq Rows /\ Unrecorded'
  BY <1>1 DEF BeginRequest, Signal, CloseLedger, CloseReturns, Exit, Unrecorded,
     LedgerTypeOK
<1>4. late' \in BOOLEAN
  BY DEF BeginRequest, Signal, CloseLedger, CloseReturns, Exit, LedgerTypeOK
<1>5. phase' \in {"serving", "draining", "closing", "closed", "emptying", "exited"}
      /\ (phase \in Closing
             => phase' \in Closing)
  BY DEF BeginRequest, Signal, CloseLedger, CloseReturns, Exit, LedgerTypeOK
<1>6. LedgerTypeOK'
  BY <1>1, <1>3, <1>4, <1>5 DEF LedgerTypeOK
<1>7. ReturnedDrained' /\ DrainsAfterClose'
  BY <1>1, <1>5 DEF ReturnedDrained, DrainsAfterClose
<1>8. InTime'
  BY <1>1 DEF BeginRequest, Signal, CloseLedger, CloseReturns, Exit, InTime
<1>. QED  BY <1>2, <1>3, <1>6, <1>7, <1>8

\* Every step keeps the invariant.
LEMMA LedgerInvStep ==
    ASSUME LedgerInv, [LedgerNext]_ledgerVars
    PROVE  LedgerInv'
<1>1. CASE UNCHANGED ledgerVars
  <2>1. UNCHANGED <<phase, late, active, queue, worker, fate, early>>
    BY <1>1 DEF ledgerVars
  <2>2. LedgerTypeOK' /\ RowInHand'
    BY <2>1 DEF LedgerInv, LedgerTypeOK, RowInHand
  <2>3. Apart' /\ Placed'
    BY <2>1 DEF LedgerInv, Apart, Placed, Somewhere
  <2>4. Unrecorded' /\ EarlyKept' /\ ReturnedDrained' /\ DrainsAfterClose' /\ InTime'
    BY <2>1 DEF LedgerInv, Unrecorded, EarlyKept, ReturnedDrained, DrainsAfterClose, InTime
  <2>. QED  BY <2>2, <2>3, <2>4 DEF LedgerInv
<1>. QED
  BY <1>1, RecordKeeps, LoopTakes, InsertKeeps, LoopKeeps, PhaseKeeps
     DEF LedgerNext, WorkerStep

\* The invariant in every reachable state.
LEMMA LedgerInvAlways == LedgerSpec => []LedgerInv
BY LedgerInvInit, LedgerInvStep, PTL DEF LedgerSpec

\* When Close returns before its timeout, every row that Record accepted before
\* Close has been inserted or its failure logged.
THEOREM CloseDrains == LedgerSpec => []DrainedOnClose
<1>1. LedgerInv => DrainedOnClose
  <2>. SUFFICES ASSUME LedgerInv, phase \in {"closed", "emptying", "exited"}, ~late,
                       NEW r \in early
                PROVE  fate[r] \in {"written", "failed"}
    BY DEF DrainedOnClose
  <2>1. \A w \in Workers : worker[w].pc = "returned" /\ worker[w].row = NoRow
    BY DEF LedgerInv, InTime, RowInHand
  <2>2. r \in Rows /\ r # NoRow
    BY LedgerAssumption DEF LedgerInv, LedgerTypeOK
  <2>3. \A i \in DOMAIN queue : queue[i] # r
    BY <2>1, LedgerAssumption DEF LedgerInv, ReturnedDrained
  <2>4. fate[r] # "accepted"
    BY <2>1, <2>2, <2>3 DEF LedgerInv, Placed, Somewhere
  <2>. QED  BY <2>4 DEF LedgerInv, EarlyKept
<1>. QED  BY <1>1, LedgerInvAlways, PTL

-----------------------------------------------------------------------------
(***************************************************************************)
(* The in-memory queue implements the queue of StreamQueue, for any jobs   *)
(* and capacity.                                                           *)
(***************************************************************************)

\* The slice pending holds the newest ids, in order: what has left it is
\* exactly the ids up to nextID - Len(backlog).
BacklogInv ==
    /\ nextID \in Nat /\ published \in Seq(JobIds) /\ Len(published) = nextID
    /\ backlog \in Seq(Nat) /\ Len(backlog) <= nextID
    /\ \A i \in 1 .. Len(backlog) : backlog[i] = nextID - Len(backlog) + i

\* Publish appends to the slice and takeOne cuts its front, so both keep it a
\* suffix of the ids.
LEMMA BacklogStep ==
    ASSUME BacklogInv, [MemQueueNext]_memQueueVars
    PROVE  BacklogInv'
  <1> USE DEF BacklogInv
  <1>1. ASSUME NEW j \in JobIds, Publish(j) PROVE BacklogInv'
    BY <1>1 DEF Publish
  <1>2. CASE takeOne
    <2>1. /\ backlog' \in Seq(Nat) /\ Len(backlog') = Len(backlog) - 1
          /\ \A i \in 1 .. Len(backlog') : backlog'[i] = backlog[i + 1]
      BY <1>2 DEF takeOne
    <2>2. nextID' = nextID /\ published' = published
      BY <1>2 DEF takeOne
    <2>3. ASSUME NEW i \in 1 .. Len(backlog')
          PROVE  backlog'[i] = nextID' - Len(backlog') + i
      <3>1. i \in Nat /\ i + 1 \in 1 .. Len(backlog) /\ Len(backlog) \in Nat
        BY <2>1
      <3>2. backlog[i + 1] = nextID - Len(backlog) + (i + 1)
        BY <3>1
      <3> QED BY <2>1, <2>2, <3>1, <3>2
    <2> QED BY <2>1, <2>2, <2>3
  <1>3. CASE UNCHANGED <<nextID, published, backlog>>
    BY <1>3
  <1> QED
    BY <1>1, <1>2, <1>3
    DEF MemQueueNext, memQueueVars, SetPublishErr, Claim, Elapse, Ack, PublishDLQ

\* takeOne hands out the oldest undelivered message, as XREADGROUP with a count
\* of one does.
LEMMA TakesNextBatch ==
    ASSUME BacklogInv, takeOne
    PROVE  Abstract!ReadGroup
  <1> DEFINE c == nextID - Len(backlog)
  <1>1. /\ c \in Nat /\ c < nextID
        /\ Head(backlog) = c + 1
        /\ nextID' = nextID /\ Len(backlog') = Len(backlog) - 1
    BY DEF takeOne, BacklogInv
  <1>2. DOMAIN published = 1 .. nextID
    BY DEF BacklogInv
  <1>3. Abstract!Unread = c + 1 .. nextID
    <2>1. Abstract!Unread = {m \in 1 .. nextID : m > c}
      BY <1>2 DEF Abstract!Unread, Abstract!Msgs
    <2> HIDE DEF c
    <2> QED BY <1>1, <2>1 DEF BacklogInv
  <1>4. Abstract!NextBatch = {c + 1}
    <2>1. Abstract!NextBatch = {m \in c + 1 .. nextID : m <= c + 1}
      BY ONLY <1>3 DEF Abstract!NextBatch
    <2>2. nextID \in Nat
      BY DEF BacklogInv
    <2> HIDE DEF c
    <2> QED BY <1>1, <2>1, <2>2
  <1>5. DOMAIN inflight' = DOMAIN inflight \cup {c + 1}
    <2>1. DOMAIN inflight' = DOMAIN inflight \cup {Head(backlog)}
      BY DEF takeOne
    <2> QED BY ONLY <1>1, <2>1
  <1>6. nextID' - Len(backlog') = c + 1
    BY <1>1 DEF BacklogInv
  <1>7. c + 1 = IF c + 1 < Len(published) THEN c + 1 ELSE Len(published)
    BY <1>1 DEF BacklogInv
  <1>8. Abstract!Unread # {}
    <2>1. nextID \in Nat
      BY DEF BacklogInv
    <2>2. c + 1 \in c + 1 .. nextID
      BY <1>1, <2>1
    <2> QED BY <1>3, <2>2
  <1>9. UNCHANGED <<published, dlq>>
    BY DEF takeOne
  <1> QED
    BY <1>4, <1>5, <1>6, <1>7, <1>8, <1>9 DEF Abstract!ReadGroup

\* The in-memory queue of the tests (memqueue.go) implements the queue that the
\* pipeline is specified with, for any number of messages.
THEOREM MemQueueRefines ==
    MemQueueInit /\ [][MemQueueNext]_memQueueVars => MemQueueImplementsQueue
  <1>1. MemQueueInit => BacklogInv /\ Abstract!QueueInit
    <2> SUFFICES ASSUME MemQueueInit PROVE BacklogInv /\ Abstract!QueueInit
      OBVIOUS
    <2>1. BacklogInv
      BY DEF MemQueueInit, BacklogInv
    <2>2. nextID - Len(backlog) = 0
      <3>1. nextID = 0 /\ Len(backlog) = 0
        BY DEF MemQueueInit
      <3> QED BY <3>1
    <2>3. <<>> = [i \in DOMAIN <<>> |-> 0]
      OBVIOUS
    <2>4. DOMAIN inflight = {}
      <3>1. inflight \in Seq({}) /\ Len(inflight) = 0
        BY DEF MemQueueInit
      <3> QED BY <3>1
    <2> QED BY <2>1, <2>2, <2>3, <2>4 DEF MemQueueInit, Abstract!QueueInit
  <1>2. ASSUME BacklogInv, [MemQueueNext]_memQueueVars
        PROVE  [Abstract!QueueNext(JobIds)]_(Abstract!queueVars)
    <2>1. ASSUME NEW j \in JobIds, Publish(j) PROVE Abstract!Publish(j)
      BY <1>2, <2>1 DEF Publish, BacklogInv, Abstract!Publish
    <2>2. CASE takeOne
      BY <1>2, <2>2, TakesNextBatch DEF Abstract!QueueNext
    <2>3. ASSUME NEW m, Ack(m)
          PROVE  [\E k \in DOMAIN inflight : Abstract!Ack(k)]_(Abstract!queueVars)
      <3>1. DOMAIN inflight' = DOMAIN inflight \ {m}
        BY <2>3 DEF Ack
      <3> QED BY <2>3, <3>1 DEF Ack, Abstract!Ack, Abstract!queueVars
    <2>4. ASSUME NEW m \in 1 .. nextID, PublishDLQ(m)
          PROVE  m \in Abstract!Msgs /\ Abstract!PublishDLQMsg(m)
      BY <1>2, <2>4 DEF BacklogInv, PublishDLQ, Abstract!PublishDLQMsg, Abstract!Msgs
    <2>5. CASE SetPublishErr \/ Claim \/ Elapse \/ UNCHANGED memQueueVars
      BY <2>5 DEF SetPublishErr, Claim, Elapse, memQueueVars, Abstract!queueVars
    <2> QED
      BY <1>2, <2>1, <2>2, <2>3, <2>4, <2>5 DEF MemQueueNext, Abstract!QueueNext
  <1>3. BacklogInv /\ [MemQueueNext]_memQueueVars => BacklogInv'
    BY BacklogStep
  <1> QED BY <1>1, <1>2, <1>3, PTL DEF MemQueueImplementsQueue

-----------------------------------------------------------------------------
(***************************************************************************)
(* The Redis stream implements the queue of StreamQueue until the length   *)
(* cap trims an entry, for any jobs and any cap.                           *)
(***************************************************************************)

\* Types; nothing is delivered before the group exists; trimming leaves at least
\* MaxLen entries; what is pending or acked has been delivered, never both.
StreamTypeOK ==
    /\ log \in Seq(Payloads) /\ first \in Nat \ {0} /\ read \in 0 .. Len(log)
    /\ first = 1 \/ first <= Len(log) + 1 - MaxLen
    /\ group \in BOOLEAN
    /\ ~group => read = 0
    /\ idle \in [Pending -> Nat]
    /\ Pending \subseteq 1 .. read /\ acked \subseteq 1 .. read
    /\ Pending \cap acked = {}

\* Every delivered entry is acked, pending or trimmed.
DeliveredKept ==
    \A m \in 1 .. read : m \in acked \/ m \in Pending \/ m < first

\* The inductive invariant of the stream.
StreamInv == StreamTypeOK /\ DeliveredKept

\* The last entry of a group read that finds entries from lo on.
LastOf(lo) == IF lo + BatchCount - 1 < Len(log) THEN lo + BatchCount - 1 ELSE Len(log)

\* A group read returns an interval that starts at the oldest entry that is
\* neither delivered nor trimmed.
LEMMA ReadsInterval ==
    ASSUME StreamTypeOK, Unseen # {}
    PROVE  LET lo == IF first > read THEN first ELSE read + 1 IN
           /\ lo \in Nat \ {0} /\ lo <= Len(log) /\ lo > read /\ lo >= first
           /\ \A m \in Nat : m < lo => m <= read \/ m < first
           /\ Oldest(Unseen, BatchCount) = lo .. LastOf(lo)
           /\ (CHOOSE m \in Oldest(Unseen, BatchCount) :
                 \A k \in Oldest(Unseen, BatchCount) : k <= m) = LastOf(lo)
           /\ LastOf(lo) \in lo .. Len(log)
  <1> DEFINE lo == IF first > read THEN first ELSE read + 1
             hi == LastOf(lo)
  <1>0. /\ first \in Nat \ {0} /\ read \in Nat /\ Len(log) \in Nat /\ read <= Len(log)
        /\ BatchCount \in Nat \ {0} /\ DOMAIN log = 1 .. Len(log)
    BY StreamAssumption DEF StreamTypeOK
  <1>1. /\ lo \in Nat \ {0} /\ lo > read /\ lo >= first
        /\ \A m \in Nat : m < lo => m <= read \/ m < first
    BY <1>0
  <1>2. Unseen = lo .. Len(log)
    <2>1. Unseen = {m \in 1 .. Len(log) : m > read /\ ~(m < first)}
      BY <1>0 DEF Unseen, Trimmed
    <2> QED BY <1>0, <2>1
  <1>3. lo <= Len(log)
    <2> HIDE DEF lo
    <2> QED BY <1>0, <1>1, <1>2
  <1>4. /\ hi \in lo .. Len(log)
        /\ hi = lo + BatchCount - 1 \/ (hi = Len(log) /\ hi <= lo + BatchCount - 1)
    <2> HIDE DEF lo
    <2> QED BY <1>0, <1>1, <1>3 DEF LastOf
  <1> HIDE DEF lo, hi
  <1>5. ASSUME NEW m \in lo .. Len(log)
        PROVE  Cardinality({k \in Unseen : k <= m}) = m - lo + 1
    <2>1. {k \in Unseen : k <= m} = lo .. m
      BY <1>0, <1>1, <1>2
    <2>2. lo \in Int /\ m \in Int /\ ~(lo > m)
      BY <1>0, <1>1
    <2> QED BY <2>1, <2>2, FS_Interval
  <1>9. /\ lo \in Int /\ hi \in Int /\ lo <= hi /\ hi <= Len(log) /\ Len(log) \in Int
        /\ hi <= lo + BatchCount - 1
        /\ hi = lo + BatchCount - 1 \/ hi = Len(log)
        /\ BatchCount \in Int
    <2>1. lo \in Int /\ Len(log) \in Int /\ BatchCount \in Int
      BY <1>0, <1>1
    <2>2. hi \in Int /\ lo <= hi /\ hi <= Len(log)
      BY ONLY <1>4, <2>1
    <2> QED BY ONLY <1>4, <2>1, <2>2
  <1>6. Oldest(Unseen, BatchCount) = lo .. hi
    <2>1. Oldest(Unseen, BatchCount) = {m \in lo .. Len(log) : m - lo + 1 <= BatchCount}
      BY <1>2, <1>5 DEF Oldest
    <2>2. ASSUME NEW m \in Int
          PROVE  m \in lo .. Len(log) /\ m - lo + 1 <= BatchCount <=> m \in lo .. hi
      BY ONLY <1>9, m \in Int
    <2> QED BY <1>9, <2>1, <2>2
  <1>7. (CHOOSE m \in lo .. hi : \A k \in lo .. hi : k <= m) = hi
    <2>1. hi \in lo .. hi /\ \A k \in lo .. hi : k <= hi
      BY ONLY <1>9
    <2>2. ASSUME NEW m \in lo .. hi, \A k \in lo .. hi : k <= m PROVE m = hi
      BY ONLY <1>9, m \in lo .. hi, <2>1, <2>2
    <2> QED BY <2>1, <2>2
  <1>8. /\ lo \in Nat \ {0} /\ lo <= Len(log) /\ lo > read /\ lo >= first
        /\ \A m \in Nat : m < lo => m <= read \/ m < first
        /\ Oldest(Unseen, BatchCount) = lo .. hi
        /\ (CHOOSE m \in Oldest(Unseen, BatchCount) :
              \A k \in Oldest(Unseen, BatchCount) : k <= m) = hi
        /\ hi \in lo .. Len(log)
    BY <1>1, <1>3, <1>4, <1>6, <1>7
  <1> QED BY <1>8 DEF lo, hi

\* XReadGroup advances the group to the end of an interval and makes the interval
\* pending.
LEMMA ReadGroupMoves ==
    ASSUME StreamTypeOK, XReadGroup
    PROVE  \E lo, hi \in Nat \ {0} :
              /\ lo = read + 1 \/ (lo = first /\ first > read)
              /\ lo > read /\ lo >= first /\ lo <= hi /\ hi <= Len(log)
              /\ hi <= lo + BatchCount - 1 /\ (hi = Len(log) \/ hi = lo + BatchCount - 1)
              /\ \A m \in Nat : m < lo => m <= read \/ m < first
              /\ read' = hi
              /\ idle' = [m \in Pending \cup (lo .. hi) |-> IF m \in lo .. hi THEN 0 ELSE idle[m]]
              /\ UNCHANGED <<log, first, group, acked, due>> /\ group
  <1> DEFINE lo == IF first > read THEN first ELSE read + 1
             hi == LastOf(lo)
  <1>1. /\ lo \in Nat \ {0} /\ lo <= Len(log) /\ lo > read /\ lo >= first
        /\ \A m \in Nat : m < lo => m <= read \/ m < first
        /\ Oldest(Unseen, BatchCount) = lo .. hi
        /\ (CHOOSE m \in Oldest(Unseen, BatchCount) :
              \A k \in Oldest(Unseen, BatchCount) : k <= m) = hi
        /\ hi \in lo .. Len(log)
    BY ReadsInterval DEF XReadGroup
  <1>3. lo = read + 1 \/ (lo = first /\ first > read)
    OBVIOUS
  <1>4. Len(log) \in Nat /\ BatchCount \in Nat
    BY StreamAssumption DEF StreamTypeOK
  <1>2. hi <= lo + BatchCount - 1 /\ (hi = Len(log) \/ hi = lo + BatchCount - 1)
    <2>1. lo \in Nat
      BY <1>1
    <2> HIDE DEF lo
    <2> QED BY <1>4, <2>1 DEF LastOf
  <1> HIDE DEF lo, hi
  <1>5. /\ read' = hi
        /\ idle' = [m \in Pending \cup (lo .. hi) |-> IF m \in lo .. hi THEN 0 ELSE idle[m]]
    BY <1>1 DEF XReadGroup
  <1>6. hi \in Nat \ {0} /\ lo <= hi /\ hi <= Len(log)
    BY <1>1, <1>4
  <1>7. UNCHANGED <<log, first, group, acked, due>> /\ group
    BY DEF XReadGroup
  <1> QED BY ONLY <1>1, <1>2, <1>3, <1>5, <1>6, <1>7

\* The empty stream.
LEMMA StreamInvInit == StreamInit => StreamInv
  <1> SUFFICES ASSUME StreamInit PROVE StreamInv
    OBVIOUS
  <1>1. Len(log) = 0 /\ log \in Seq(Payloads)
    BY DEF StreamInit
  <1>2. DOMAIN idle = {}
    <2>1. idle \in Seq({}) /\ Len(idle) = 0
      BY DEF StreamInit
    <2> QED BY <2>1
  <1>3. idle \in [{} -> Nat]
    <2>1. idle = [i \in {} |-> 0]
      BY <1>2 DEF StreamInit
    <2> QED BY <2>1
  <1>4. read = 0 /\ first = 1 /\ acked = {} /\ group = FALSE
    BY DEF StreamInit
  <1>5. StreamTypeOK
    <2>1. read \in 0 .. Len(log)
      BY <1>1, <1>4
    <2>2. idle \in [DOMAIN idle -> Nat]
      BY <1>2, <1>3
    <2>3. Pending \subseteq 1 .. read /\ acked \subseteq 1 .. read /\ Pending \cap acked = {}
      BY <1>2, <1>4 DEF Pending
    <2>4. first \in Nat \ {0}
      BY <1>4
    <2>5. group \in BOOLEAN
      BY ONLY <1>4, Zenon
    <2> QED BY ONLY <1>1, <1>4, <2>1, <2>2, <2>3, <2>4, <2>5, Zenon DEF StreamTypeOK, Pending
  <1>6. DeliveredKept
    BY <1>4 DEF DeliveredKept
  <1> QED BY <1>5, <1>6 DEF StreamInv

\* Every command keeps each delivered entry acked, pending or trimmed: a group
\* read makes what it passes over pending unless it was trimmed, and a claim
\* drops from the pending list only what was trimmed.
LEMMA StreamInvStep ==
    ASSUME StreamInv, [StreamNext]_streamVars
    PROVE  StreamInv'
  <1> USE DEF StreamInv, StreamTypeOK, DeliveredKept, Pending
  <1>a. MaxLen \in Nat \ {0} /\ MinIdle \in Nat /\ BatchCount \in Nat \ {0}
    BY StreamAssumption
  <1>1. ASSUME NEW c \in Payloads, XAdd(c) PROVE StreamInv'
    <2>1. log' \in Seq(Payloads) /\ Len(log') = Len(log) + 1
      BY <1>1 DEF XAdd
    <2>2. UNCHANGED <<group, read, idle, acked>>
      BY <1>1 DEF XAdd
    <2>3. first' = first \/ (first' \in Int /\ first <= first' /\ first' <= Len(log) + 2 - MaxLen)
      BY <1>1, <1>a DEF XAdd
    <2>4. /\ first' \in Nat \ {0} /\ first <= first'
          /\ first' = 1 \/ first' <= Len(log') + 1 - MaxLen
      BY <1>a, <2>1, <2>3
    <2> QED BY <2>1, <2>2, <2>4
  <1>2. CASE XGroupCreate
    BY <1>2 DEF XGroupCreate
  <1>3. CASE XReadGroup
    <2>1. PICK lo, hi \in Nat \ {0} :
              /\ lo > read /\ lo >= first /\ lo <= hi /\ hi <= Len(log)
              /\ \A m \in Nat : m < lo => m <= read \/ m < first
              /\ read' = hi
              /\ idle' = [m \in Pending \cup (lo .. hi) |-> IF m \in lo .. hi THEN 0 ELSE idle[m]]
              /\ UNCHANGED <<log, first, group, acked, due>> /\ group
      BY <1>3, ReadGroupMoves
    <2>2. Pending' = Pending \cup (lo .. hi)
      BY <2>1
    <2>3. idle' \in [Pending' -> Nat]
      BY <2>1, <2>2
    <2>4. Pending' \subseteq 1 .. hi /\ acked' \subseteq 1 .. hi
      <3>1. 1 .. read \subseteq 1 .. hi
        BY <2>1
      <3>2. lo .. hi \subseteq 1 .. hi
        BY <2>1
      <3> QED BY <2>1, <2>2, <3>1, <3>2
    <2>5. Pending' \cap acked' = {}
      <3>1. acked \cap (lo .. hi) = {}
        BY <2>1
      <3> QED BY <2>1, <2>2, <3>1
    <2>6. StreamTypeOK'
      BY <2>1, <2>3, <2>4, <2>5
    <2>7. ASSUME NEW m \in 1 .. read' PROVE m \in acked' \/ m \in Pending' \/ m < first'
      <3>1. CASE m \in 1 .. read
        BY <2>1, <2>2, <3>1
      <3>2. CASE m < lo /\ ~(m <= read)
        BY <2>1, <3>2
      <3>3. CASE m \in lo .. hi
        BY <2>2, <3>3
      <3> QED BY <2>1, <3>1, <3>2, <3>3
    <2> QED BY <2>6, <2>7
  <1>4. ASSUME NEW m \in Pending, XAck(m) PROVE StreamInv'
    <2>1. UNCHANGED <<log, first, group, read>> /\ acked' = acked \cup {m}
      BY <1>4 DEF XAck
    <2>2. Pending' = Pending \ {m}
      BY <1>4 DEF XAck
    <2>3. idle' \in [Pending' -> Nat]
      BY <1>4 DEF XAck
    <2> QED BY <2>1, <2>2, <2>3
  <1>5. CASE XAutoClaim
    <2>1. UNCHANGED <<log, first, group, read, acked>>
      BY <1>5 DEF XAutoClaim
    <2>2. Pending' = Pending \ {k \in Claimed : Trimmed(k)}
      BY <1>5 DEF XAutoClaim
    <2>3. idle' \in [Pending' -> Nat]
      BY <1>5 DEF XAutoClaim
    <2> QED BY <2>1, <2>2, <2>3 DEF Trimmed
  <1>6. CASE Tick
    <2>1. UNCHANGED <<log, first, group, read, acked>>
      BY <1>6 DEF Tick
    <2>2. Pending' = Pending /\ idle' \in [Pending' -> Nat]
      BY <1>6, <1>a DEF Tick
    <2> QED BY <2>1, <2>2
  <1>7. CASE UNCHANGED streamVars
    BY <1>7 DEF streamVars
  <1> QED BY <1>1, <1>2, <1>3, <1>4, <1>5, <1>6, <1>7 DEF StreamNext

\* A message is acked, pending or waiting for a group read, or at least MaxLen
\* newer ones have been published, for any number of messages and any cap (Publish
\* with MAXLEN ~, ensureGroup at offset 0).
THEOREM OnlyTheCapDrops == StreamInit /\ [][StreamNext]_streamVars => []NoneDropped
  <1>1. ASSUME StreamInv PROVE NoneDropped
    <2> SUFFICES ASSUME NEW m \in DOMAIN log, m \notin acked \cup Pending, m \notin Unseen
                 PROVE  Len(log) >= m + MaxLen
      BY DEF NoneDropped
    <2>1. m \in 1 .. Len(log) /\ Len(log) \in Nat
      BY <1>1 DEF StreamInv, StreamTypeOK
    <2>2. m < first
      BY <1>1, <2>1 DEF StreamInv, StreamTypeOK, DeliveredKept, Unseen, Trimmed
    <2> QED BY <1>1, <2>1, <2>2, StreamAssumption DEF StreamInv, StreamTypeOK
  <1> QED BY <1>1, StreamInvInit, StreamInvStep, PTL

\* While only acked entries have been trimmed, every command is a step of the
\* queue that the pipeline is specified with, or changes nothing of it.
THEOREM StreamRefinesQueue ==
    StreamInit /\ [][StreamNext]_streamVars => StreamImplementsQueue
  <1>1. StreamInit => Q!QueueInit
    <2> SUFFICES ASSUME StreamInit PROVE Q!QueueInit
      OBVIOUS
    <2>1. Pending = {}
      <3>1. idle \in Seq({}) /\ Len(idle) = 0
        BY DEF StreamInit
      <3> QED BY <3>1 DEF Pending
    <2>2. <<>> = [i \in DOMAIN <<>> |-> 0]
      OBVIOUS
    <2> QED BY <2>1, <2>2 DEF StreamInit, Q!QueueInit
  <1>2. ASSUME StreamInv, [StreamNext]_streamVars, Intact'
        PROVE  Q!QueueNext(Payloads) \/ UNCHANGED Q!queueVars
    <2>1. ASSUME NEW c \in Payloads, XAdd(c) PROVE Q!Publish(c)
      BY <2>1 DEF XAdd, Q!Publish, Pending
    <2>2. CASE XReadGroup
      <3>1. PICK lo, hi \in Nat \ {0} :
              /\ lo = read + 1 \/ (lo = first /\ first > read)
              /\ lo > read /\ lo <= hi /\ hi <= Len(log)
              /\ hi <= lo + BatchCount - 1 /\ (hi = Len(log) \/ hi = lo + BatchCount - 1)
              /\ read' = hi
              /\ idle' = [m \in Pending \cup (lo .. hi) |-> IF m \in lo .. hi THEN 0 ELSE idle[m]]
              /\ UNCHANGED <<log, first, group, acked, due>> /\ group
        BY <1>2, <2>2, ReadGroupMoves DEF StreamInv
      <3>2. read \in Nat /\ first \in Nat \ {0} /\ Len(log) \in Nat /\ BatchCount \in Nat
        BY <1>2, StreamAssumption DEF StreamInv, StreamTypeOK
      <3>b. DOMAIN log = 1 .. Len(log)
        BY <1>2 DEF StreamInv, StreamTypeOK
      <3>a. /\ lo = read + 1 \/ (lo = first /\ first > read)
            /\ lo \in Nat /\ hi \in Nat /\ lo > read /\ lo <= hi /\ hi <= Len(log)
            /\ hi <= lo + BatchCount - 1 /\ (hi = Len(log) \/ hi = lo + BatchCount - 1)
        BY <3>1
      <3>3. lo = read + 1
        <4>1. CASE first - 1 \in 1 .. first - 1
          <5>1. first - 1 \in acked
            BY <1>2, <3>1, <4>1 DEF Intact
          <5>2. first - 1 <= read
            BY <1>2, <3>2, <5>1 DEF StreamInv, StreamTypeOK
          <5> QED BY ONLY <3>a, <3>2, <5>2
        <4>2. CASE first = 1
          BY ONLY <3>a, <3>2, <4>2
        <4> QED BY <3>2, <4>1, <4>2
      <3>4. Q!Unread = {m \in 1 .. Len(log) : m > read}
        BY <3>b DEF Q!Unread, Q!Msgs
      <3>5. Q!NextBatch = lo .. hi
        <4>1. Q!NextBatch = {m \in Q!Unread : m <= read + BatchCount}
          BY DEF Q!NextBatch
        <4>2. ASSUME NEW m \in Int
              PROVE  m \in 1 .. Len(log) /\ m > read /\ m <= read + BatchCount <=> m \in lo .. hi
          BY ONLY <3>a, <3>2, <3>3, m \in Int
        <4> QED BY <3>2, <3>4, <4>1, <4>2
      <3>6. Q!Unread # {}
        <4>1. hi \in Q!Unread
          BY ONLY <3>a, <3>2, <3>3, <3>4
        <4> QED BY <4>1
      <3>7. Pending' = Pending \cup Q!NextBatch
        BY <3>1, <3>5 DEF Pending
      <3>8. read' = IF read + BatchCount < Len(log) THEN read + BatchCount ELSE Len(log)
        <4>1. read' = hi
          BY <3>1
        <4> QED BY ONLY <3>a, <3>2, <3>3, <4>1
      <3> QED BY <3>1, <3>6, <3>7, <3>8 DEF Q!QueueNext, Q!ReadGroup
    <2>3. ASSUME NEW m \in Pending, XAck(m) PROVE Q!Ack(m)
      <3>1. Pending' = Pending \ {m}
        BY <2>3 DEF XAck, Pending
      <3> QED BY <2>3, <3>1 DEF XAck, Q!Ack
    <2>4. CASE XAutoClaim
      <3>1. UNCHANGED <<log, first, group, read, acked>>
        BY <2>4 DEF XAutoClaim
      <3>2. Pending' = Pending \ {k \in Claimed : Trimmed(k)}
        BY <2>4 DEF XAutoClaim, Pending
      <3>3. ASSUME NEW k \in Pending, Trimmed(k) PROVE FALSE
        BY <1>2, <3>1, <3>3 DEF Intact, Trimmed, StreamInv, StreamTypeOK
      <3>4. Pending' = Pending
        BY <3>2, <3>3
      <3> QED BY <3>1, <3>4 DEF Q!queueVars
    <2>5. CASE Tick
      <3>1. Pending' = Pending
        BY <2>5 DEF Tick, Pending
      <3> QED BY <2>5, <3>1 DEF Tick, Q!queueVars
    <2>6. CASE XGroupCreate
      BY <1>2, <2>6 DEF XGroupCreate, Q!queueVars, Pending, StreamInv, StreamTypeOK
    <2>7. CASE UNCHANGED streamVars
      BY <2>7 DEF streamVars, Q!queueVars, Pending
    <2> QED
      BY <1>2, <2>1, <2>2, <2>3, <2>4, <2>5, <2>6, <2>7 DEF StreamNext, Q!QueueNext
  <1> QED BY <1>1, <1>2, StreamInvInit, StreamInvStep, PTL DEF StreamImplementsQueue

=============================================================================
