------------------------- MODULE BatchPipelineTypes -------------------------
(***************************************************************************)
(* The batch pipeline for any number of workers, goroutines, jobs, items,  *)
(* faults and crashes: it is type correct; its publication side keeps the  *)
(* outbox order, the rows that claims may lock, and the exclusive holding  *)
(* of messages; and what each step can change, which later modules cite.   *)
(***************************************************************************)
EXTENDS BatchPipeline, FiniteSetTheorems, TLAPS

-----------------------------------------------------------------------------
(* Each operation of the store keeps the tables well typed.                *)

\* The transaction of CreateWithItemsAndOutbox writes rows of the right type.
LEMMA CreateType ==
    ASSUME StoreTypeOK, NEW j \in Jobs, CreateWithItemsAndOutbox(j)
    PROVE  StoreTypeOK'
BY StoreAssumption
   DEF StoreTypeOK, CreateWithItemsAndOutbox, JobStatus, ItemStatus, OpenItem,
       TerminalJob, TerminalItem, OutboxStatus

\* So does the UPDATE of MarkJobRunning.
LEMMA MarkJobRunningType ==
    ASSUME StoreTypeOK, NEW j, MarkJobRunning(j)
    PROVE  StoreTypeOK'
BY DEF StoreTypeOK, MarkJobRunning, JobStatus

\* RequeueRunningItems keeps every item's attempts in range.
LEMMA RequeueType ==
    ASSUME StoreTypeOK, NEW j, RequeueRunningItems(j)
    PROVE  StoreTypeOK'
BY DEF StoreTypeOK, RequeueRunningItems, WithStatus, ItemsOf, ItemStatus,
       OpenItem, TerminalItem

\* The SELECT of a claim locks an item's row.
LEMMA ClaimSelectType ==
    ASSUME StoreTypeOK, NEW j, NEW i \in Items, ClaimSelect(j, i)
    PROVE  StoreTypeOK'
BY DEF StoreTypeOK, ClaimSelect

\* The commit of a claim spends an attempt only while one is left.
LEMMA ClaimCommitType ==
    ASSUME StoreTypeOK, NEW i, ClaimCommit(i)
    PROVE  StoreTypeOK'
BY StoreAssumption
   DEF StoreTypeOK, ClaimCommit, Exhausted, ItemStatus, OpenItem, TerminalItem

\* A rollback only drops row locks.
LEMMA ClaimRollbackType ==
    ASSUME StoreTypeOK, NEW S, ClaimRollback(S)
    PROVE  StoreTypeOK'
BY DEF StoreTypeOK, ClaimRollback

\* UpdateItemTerminal writes an item status.
LEMMA UpdateItemType ==
    ASSUME StoreTypeOK, NEW i, NEW status \in TerminalItem,
           UpdateItemTerminal(i, status)
    PROVE  StoreTypeOK'
BY DEF StoreTypeOK, UpdateItemTerminal, ItemStatus, TerminalItem

\* RecomputeAndUpdateJobStatus writes counters and a job status, whatever it counted.
LEMMA RecomputeWriteType ==
    ASSUME StoreTypeOK, NEW j, NEW c \in [succeeded : Nat, failed : Nat],
           RecomputeWrite(j, c)
    PROVE  StoreTypeOK'
BY DEF StoreTypeOK, RecomputeWrite, AggregateJobStatus, JobStatus, TerminalJob

\* MarkOutboxPublished writes an outbox status.
LEMMA MarkOutboxType ==
    ASSUME StoreTypeOK, NEW j, MarkOutboxPublished(j)
    PROVE  StoreTypeOK'
BY DEF StoreTypeOK, MarkOutboxPublished, OutboxStatus

\* A cascading delete leaves rows of the right type.
LEMMA CascadeDeleteType ==
    ASSUME StoreTypeOK, NEW j, CascadeDelete(j)
    PROVE  StoreTypeOK'
BY DEF StoreTypeOK, CascadeDelete, JobStatus, ItemStatus, OutboxStatus

\* A step that leaves the tables alone keeps their type.
LEMMA StoreStutterType ==
    ASSUME StoreTypeOK, UNCHANGED storeVars
    PROVE  StoreTypeOK'
BY DEF StoreTypeOK, storeVars

\* What RecomputeAndUpdateJobStatus counts are natural numbers: the items are finite.
LEMMA CountsType ==
    ASSUME NEW j
    PROVE  RecomputeCounts(j) \in [succeeded : Nat, failed : Nat]
<1>1. \A s : IsFiniteSet(WithStatus(j, s))
  BY StoreAssumption, FS_Subset DEF WithStatus, ItemsOf
<1> QED BY <1>1, FS_CardinalityType DEF RecomputeCounts

-----------------------------------------------------------------------------
(* The other parts of the state.                                           *)

\* A step that leaves the stream alone keeps its type.
LEMMA QueueStutterType ==
    ASSUME QueueTypeOK, UNCHANGED queueVars
    PROVE  QueueTypeOK' /\ cursor' = cursor
BY DEF QueueTypeOK, queueVars

\* Publish appends one entry to the stream.
LEMMA PublishType ==
    ASSUME QueueTypeOK, NEW c \in Jobs \cup {NoJob}, Publish(c)
    PROVE  QueueTypeOK' /\ cursor' = cursor
BY DEF QueueTypeOK, Publish

\* XREADGROUP hands out entries of the stream.
LEMMA ReadGroupType ==
    ASSUME QueueTypeOK, ReadGroup
    PROVE  /\ QueueTypeOK'
           /\ cursor' >= cursor
           /\ NextBatch \subseteq 1..(cursor')
<1>1. DOMAIN stream = 1..Len(stream) /\ Len(stream) \in Nat
  BY DEF QueueTypeOK
<1>2. /\ cursor' \in 0..Len(stream) /\ cursor' >= cursor
      /\ \A m \in 1..Len(stream) : m <= cursor + ReadCount => m <= cursor'
  BY <1>1, ReadCountAssumption DEF QueueTypeOK, ReadGroup
<1>3. NextBatch \subseteq 1..(cursor')
  BY <1>1, <1>2 DEF NextBatch, Unread, Msgs, QueueTypeOK
<1>4. pel' \subseteq 1..(cursor')
  BY <1>2, <1>3 DEF QueueTypeOK, ReadGroup
<1> QED BY <1>2, <1>3, <1>4 DEF QueueTypeOK, ReadGroup

\* XACK removes an entry from the pending list.
LEMMA AckType ==
    ASSUME QueueTypeOK, NEW m, Ack(m)
    PROVE  QueueTypeOK' /\ cursor' = cursor
BY DEF QueueTypeOK, Ack

\* PublishDLQ for an exhausted item adds one dead letter.
LEMMA DLQItemType ==
    ASSUME QueueTypeOK, NEW i, PublishDLQItem(i)
    PROVE  QueueTypeOK' /\ cursor' = cursor
<1>1. \A k \in Items : dlqItems'[k] \in Nat
  BY DEF QueueTypeOK, PublishDLQItem
<1>2. dlqItems' = [k \in Items |-> dlqItems'[k]]
  BY DEF QueueTypeOK, PublishDLQItem
<1> QED BY <1>1, <1>2 DEF QueueTypeOK, PublishDLQItem

\* PublishDLQ for a message about no job records the message.
LEMMA DLQMsgType ==
    ASSUME QueueTypeOK, NEW m \in Nat, PublishDLQMsg(m)
    PROVE  QueueTypeOK' /\ cursor' = cursor
BY DEF QueueTypeOK, PublishDLQMsg

\* The outcome of a call charges at most the faults allowed.
LEMMA ReplyType ==
    ASSUME BudgetTypeOK, NEW o, Reply(o)
    PROVE  BudgetTypeOK'
BY DEF BudgetTypeOK, Reply

\* A step that leaves the passes alone keeps their type.
LEMMA PassStutterType ==
    ASSUME PassTypeOK, UNCHANGED <<batch, passVars>>, cursor' = cursor
    PROVE  PassTypeOK'
BY DEF PassTypeOK, passVars

\* A loop that moves to another place in handleMessage stays well typed.
LEMMA GoToType ==
    ASSUME PassTypeOK, NEW l \in Lanes,
           NEW p \in {"requeue", "recount", "drop", "ack"},
           GoTo(l, p), batch' = batch, cursor' = cursor
    PROVE  PassTypeOK'
BY DEF PassTypeOK, GoTo

\* A loop that ends its pass and parks its goroutines stays well typed.
LEMMA EndPassType ==
    ASSUME QueueTypeOK, PassTypeOK, NEW l \in Lanes,
           EndPass(l), batch' = batch, cursor' = cursor
    PROVE  PassTypeOK'
<1>1. Parked \in [Pool -> [st : ThreadState, item : Items \cup {NoItem}]]
  BY DEF Parked, ThreadState
<1>2. 0 \in 0..cursor
  BY DEF QueueTypeOK
<1> QED BY <1>1, <1>2 DEF PassTypeOK, EndPass, NoMsg, NoCounts

\* A goroutine of the pool that moves on stays well typed.
LEMMA ThreadType ==
    ASSUME PassTypeOK, NEW l \in Lanes, NEW t \in Pool,
           NEW st \in ThreadState, NEW i \in Items \cup {NoItem},
           Thread(l, t, st, i), batch' = batch, cursor' = cursor
    PROVE  PassTypeOK'
<1>1. /\ thr[l] \in [Pool -> [st : ThreadState, item : Items \cup {NoItem}]]
      /\ [st |-> st, item |-> i] \in [st : ThreadState, item : Items \cup {NoItem}]
  BY DEF PassTypeOK
<1>2. thr' \in [Lanes -> [Pool -> [st : ThreadState, item : Items \cup {NoItem}]]]
  BY <1>1 DEF PassTypeOK, Thread
<1> QED BY <1>2 DEF PassTypeOK, Thread

\* A goroutine that gives up because the pass is broken stays well typed.
LEMMA BreakOffType ==
    ASSUME PassTypeOK, NEW l \in Lanes, NEW t \in Pool,
           BreakOff(l, t), batch' = batch, cursor' = cursor
    PROVE  PassTypeOK'
<1>1. /\ thr[l] \in [Pool -> [st : ThreadState, item : Items \cup {NoItem}]]
      /\ [st |-> "done", item |-> NoItem]
            \in [st : ThreadState, item : Items \cup {NoItem}]
  BY DEF PassTypeOK, ThreadState
<1>2. thr' \in [Lanes -> [Pool -> [st : ThreadState, item : Items \cup {NoItem}]]]
  BY <1>1 DEF PassTypeOK, BreakOff
<1> QED BY <1>2 DEF PassTypeOK, BreakOff

-----------------------------------------------------------------------------
\* Every reachable state of the pipeline is well typed: in particular no item
\* is ever claimed more than MaxAttempts times, and loops hold only messages
\* that the consumer group has delivered.
THEOREM TypeCorrect == Spec => []TypeOK
<1>1. Init => TypeOK
  BY StoreAssumption, PipelineAssumption
     DEF Init, StoreInit, TypeOK, StoreTypeOK, QueueTypeOK, ClientTypeOK,
         PassTypeOK, BudgetTypeOK, JobStatus, ItemStatus, OutboxStatus,
         Parked, ThreadState, NoCounts, NoMsg
<1>2. TypeOK /\ [Next]_vars => TypeOK'
  <2> SUFFICES ASSUME TypeOK, [Next]_vars PROVE TypeOK'
    OBVIOUS
  <2> USE DEF TypeOK
  <2>1. ASSUME NEW j \in Jobs, NEW o \in Outcome, CreateBatchJob(j, o)
        PROVE  TypeOK'
    BY <2>1, CreateType, QueueStutterType, PassStutterType, ReplyType
       DEF CreateBatchJob, ClientTypeOK
  <2>2. ASSUME NEW j \in Jobs, NEW o \in SendOutcome, ApiPublish(j, o)
        PROVE  TypeOK'
    BY <2>2, StoreStutterType, QueueStutterType, PublishType, PassStutterType,
       ReplyType
       DEF ApiPublish, ClientTypeOK
  <2>3. ASSUME NEW j \in Jobs, NEW o \in Outcome, ApiMark(j, o)
        PROVE  TypeOK'
    BY <2>3, StoreStutterType, MarkOutboxType, QueueStutterType,
       PassStutterType, ReplyType
       DEF ApiMark, ClientTypeOK
  <2>4. ASSUME NEW j \in Jobs, ApiCrash(j)
        PROVE  TypeOK'
    BY <2>4, StoreStutterType, QueueStutterType, PassStutterType
       DEF ApiCrash, ClientTypeOK, BudgetTypeOK
  <2>5. ASSUME NEW w \in Workers, DrainRead(w)
        PROVE  TypeOK'
    BY <2>5, StoreStutterType, QueueStutterType, PassStutterType
       DEF DrainRead, PendingOutbox, ClientTypeOK, budgetVars, BudgetTypeOK
  <2>6. ASSUME NEW w \in Workers, NEW j \in Jobs, NEW o \in SendOutcome,
               DrainPublish(w, j, o)
        PROVE  TypeOK'
    BY <2>6, StoreStutterType, QueueStutterType, PublishType, PassStutterType,
       ReplyType
       DEF DrainPublish, ClientTypeOK
  <2>7. ASSUME NEW w \in Workers, NEW o \in Outcome, DrainMark(w, o)
        PROVE  TypeOK'
    BY <2>7, StoreStutterType, MarkOutboxType, QueueStutterType,
       PassStutterType, ReplyType
       DEF DrainMark, ClientTypeOK
  <2>8. ASSUME NEW l \in Lanes, NEW o \in Outcome, Consume(l, o)
        PROVE  TypeOK'
    <3>1. QueueTypeOK' /\ cursor' >= cursor /\ NextBatch \subseteq 1..(cursor')
      BY <2>8, ReadGroupType DEF Consume
    <3>2. 1..cursor \subseteq 1..(cursor') /\ 0..cursor \subseteq 0..(cursor')
      BY <3>1 DEF QueueTypeOK
    <3>3. PassTypeOK'
      BY <2>8, <3>1, <3>2 DEF Consume, PassTypeOK, passVars
    <3> QED BY <2>8, <3>1, <3>3, StoreStutterType, ReplyType
            DEF Consume, ClientTypeOK, clientVars
  <2>9. ASSUME NEW l \in Lanes, Claim(l)
        PROVE  TypeOK'
    <3>1. PassTypeOK'
      <4>1. PICK S \in SUBSET pel : batch' = [batch EXCEPT ![l] = S]
        BY <2>9 DEF Claim
      <4>2. S \in SUBSET (1..cursor) /\ cursor' = cursor
        BY <2>9 DEF Claim, QueueTypeOK, queueVars
      <4> QED BY <2>9, <4>1, <4>2 DEF Claim, PassTypeOK, passVars
    <3> QED BY <2>9, <3>1, StoreStutterType, QueueStutterType
            DEF Claim, ClientTypeOK, clientVars, BudgetTypeOK, budgetVars
  <2>10. ASSUME NEW l \in Lanes, StartMessage(l)
        PROVE  TypeOK'
    <3>1. PassTypeOK'
      <4>1. cursor' = cursor
        BY <2>10 DEF StartMessage, queueVars
      <4>2. PICK m \in batch[l] :
              /\ batch' = [batch EXCEPT ![l] = @ \ {m}]
              /\ \/ UNCHANGED passVars
                 \/ /\ cur' = [cur EXCEPT ![l] = m]
                    /\ pc' = [pc EXCEPT ![l] =
                                 IF stream[m] = NoJob THEN "drop" ELSE "mark"]
                    /\ UNCHANGED <<thr, broken, snap>>
        BY <2>10 DEF StartMessage
      <4>3. m \in 0..cursor
        BY DEF PassTypeOK
      <4>4. PassTypeOK OBVIOUS
      <4>5. CASE UNCHANGED passVars
        BY ONLY <4>1, <4>2, <4>4, <4>5 DEF PassTypeOK, passVars
      <4>6. CASE ~UNCHANGED passVars
        <5>1. /\ batch' \in [Lanes -> SUBSET (1..cursor)]
              /\ cur' \in [Lanes -> 0..cursor]
          BY ONLY <4>2, <4>3, <4>4, <4>6 DEF PassTypeOK
        <5>2. /\ pc' \in [Lanes -> {"idle", "mark", "requeue", "pool", "recount",
                                    "rewrite", "drop", "ack"}]
              /\ UNCHANGED <<thr, broken, snap>>
          BY ONLY <4>2, <4>4, <4>6 DEF PassTypeOK
        <5> QED BY ONLY <4>1, <4>4, <5>1, <5>2 DEF PassTypeOK
      <4> QED BY <4>5, <4>6
    <3> QED BY <2>10, <3>1, StoreStutterType, QueueStutterType
            DEF StartMessage, ClientTypeOK, clientVars, BudgetTypeOK, budgetVars
  <2>11. ASSUME NEW l \in Lanes, NEW o \in Outcome, MarkRunning(l, o)
        PROVE  TypeOK'
    BY <2>11, StoreStutterType, MarkJobRunningType, QueueStutterType,
       GoToType, EndPassType, ReplyType
       DEF MarkRunning, ClientTypeOK, clientVars
  <2>12. ASSUME NEW l \in Lanes, NEW o \in Outcome, RequeueRunning(l, o)
        PROVE  TypeOK'
    <3>1. cursor' = cursor /\ batch' = batch
      BY <2>12 DEF RequeueRunning, queueVars
    <3>2. PassTypeOK'
      <4>1. CASE o = "ok"
        <5>1. Started \in [Pool -> [st : ThreadState, item : Items \cup {NoItem}]]
          BY DEF Started, ThreadState
        <5>2. /\ pc' = [pc EXCEPT ![l] = "pool"] /\ thr' = [thr EXCEPT ![l] = Started]
              /\ UNCHANGED <<cur, broken, snap>>
          BY <2>12, <4>1 DEF RequeueRunning
        <5>3. PassTypeOK OBVIOUS
        <5> QED BY ONLY <3>1, <5>1, <5>2, <5>3 DEF PassTypeOK
      <4>2. CASE o # "ok"
        BY <2>12, <3>1, <4>2, EndPassType DEF RequeueRunning
      <4> QED BY <4>1, <4>2
    <3> QED BY <2>12, <3>2, StoreStutterType, RequeueType, QueueStutterType,
               ReplyType
            DEF RequeueRunning, ClientTypeOK, clientVars
  <2>13. ASSUME NEW l \in Lanes, JoinPool(l)
        PROVE  TypeOK'
    BY <2>13, StoreStutterType, QueueStutterType, GoToType, EndPassType
       DEF JoinPool, ClientTypeOK, clientVars, BudgetTypeOK, budgetVars
  <2>14. ASSUME NEW l \in Lanes, Recount(l)
        PROVE  TypeOK'
    BY <2>14, StoreStutterType, QueueStutterType, CountsType
       DEF Recount, PassTypeOK, ClientTypeOK, clientVars, BudgetTypeOK,
           budgetVars
  <2>15. ASSUME NEW l \in Lanes, NEW o \in Outcome, Rewrite(l, o)
        PROVE  TypeOK'
    <3>1. snap[l] \in [succeeded : Nat, failed : Nat]
      BY DEF PassTypeOK
    <3>2. StoreTypeOK'
      BY <2>15, <3>1, StoreStutterType, RecomputeWriteType DEF Rewrite
    <3> QED BY <2>15, <3>2, QueueStutterType, GoToType, EndPassType, ReplyType
            DEF Rewrite, ClientTypeOK, clientVars
  <2>16. ASSUME NEW l \in Lanes, NEW o \in Outcome, DropMessage(l, o)
        PROVE  TypeOK'
    <3>1. QueueTypeOK' /\ cursor' = cursor
      <4>1. cur[l] \in Nat
        BY DEF PassTypeOK, QueueTypeOK
      <4> QED BY <2>16, <4>1, QueueStutterType, DLQMsgType DEF DropMessage
    <3> QED BY <2>16, <3>1, StoreStutterType, GoToType, EndPassType, ReplyType
            DEF DropMessage, ClientTypeOK, clientVars
  <2>17. ASSUME NEW l \in Lanes, NEW o \in Outcome, AckMessage(l, o)
        PROVE  TypeOK'
    BY <2>17, StoreStutterType, QueueStutterType, AckType, EndPassType,
       ReplyType
       DEF AckMessage, ClientTypeOK, clientVars
  <2>18. ASSUME NEW l \in Lanes, NEW t \in Pool, NEW i \in Items,
               SelectItem(l, t, i)
        PROVE  TypeOK'
    BY <2>18, ClaimSelectType, QueueStutterType, ThreadType
       DEF SelectItem, ThreadState, ClientTypeOK, clientVars, BudgetTypeOK,
           budgetVars
  <2>19. ASSUME NEW l \in Lanes, NEW t \in Pool, SelectNone(l, t)
        PROVE  TypeOK'
    BY <2>19, StoreStutterType, QueueStutterType, ThreadType
       DEF SelectNone, ThreadState, ClientTypeOK, clientVars, BudgetTypeOK,
           budgetVars
  <2>20. ASSUME NEW l \in Lanes, NEW t \in Pool, SelectError(l, t)
        PROVE  TypeOK'
    BY <2>20, StoreStutterType, QueueStutterType, BreakOffType, ReplyType
       DEF SelectError, ClientTypeOK, clientVars
  <2>21. ASSUME NEW l \in Lanes, NEW t \in Pool, NEW o \in Outcome,
               CommitClaim(l, t, o)
        PROVE  TypeOK'
    <3>1. thr[l][t].item \in Items \cup {NoItem}
      BY DEF PassTypeOK
    <3>2. StoreTypeOK'
      BY <2>21, ClaimRollbackType, ClaimCommitType DEF CommitClaim
    <3> QED BY <2>21, <3>1, <3>2, QueueStutterType, ThreadType, BreakOffType,
               ReplyType
            DEF CommitClaim, ThreadState, ClientTypeOK, clientVars
  <2>22. ASSUME NEW l \in Lanes, NEW t \in Pool, NEW o \in SendOutcome,
               DeadLetterItem(l, t, o)
        PROVE  TypeOK'
    <3>1. PICK st \in ThreadState, i \in Items \cup {NoItem} : Thread(l, t, st, i)
      BY <2>22 DEF DeadLetterItem, ThreadState, TypeOK, PassTypeOK
    <3>2. QueueTypeOK' /\ cursor' = cursor /\ batch' = batch
      BY <2>22, QueueStutterType, DLQItemType
         DEF DeadLetterItem, PublishDLQItem, queueVars, TypeOK
    <3>3. PassTypeOK'
      BY <3>1, <3>2, ThreadType DEF TypeOK
    <3> QED BY <2>22, <3>2, <3>3, StoreStutterType, ReplyType
            DEF DeadLetterItem, ClientTypeOK, clientVars
  <2>23. ASSUME NEW l \in Lanes, NEW t \in Pool, NEW status \in TerminalItem,
               NEW o \in Outcome, FinishItem(l, t, status, o)
        PROVE  TypeOK'
    BY <2>23, StoreStutterType, UpdateItemType, QueueStutterType, ThreadType,
       BreakOffType, ReplyType
       DEF FinishItem, ThreadState, ClientTypeOK, clientVars
  <2>24. ASSUME NEW w \in Workers, Crash(w)
        PROVE  TypeOK'
    <3>1. cursor' = cursor /\ QueueTypeOK' /\ StoreTypeOK'
      BY <2>24, QueueStutterType, ClaimRollbackType DEF Crash
    <3>2. Parked \in [Pool -> [st : ThreadState, item : Items \cup {NoItem}]]
      BY DEF Parked, ThreadState
    <3>3. 0 \in 0..cursor
      BY DEF QueueTypeOK
    <3>4. PassTypeOK'
      BY <2>24, <3>1, <3>2, <3>3 DEF Crash, PassTypeOK, NoMsg, NoCounts
    <3> QED BY <2>24, <3>1, <3>4 DEF Crash, ClientTypeOK, BudgetTypeOK
  <2>25. ASSUME NEW j \in Jobs, DeleteJob(j)
        PROVE  TypeOK'
    BY <2>25, CascadeDeleteType, QueueStutterType, PassStutterType
       DEF DeleteJob, ClientTypeOK, clientVars, BudgetTypeOK
  <2>26. ASSUME ForeignMessage
        PROVE  TypeOK'
    BY <2>26, StoreStutterType, PublishType, PassStutterType
       DEF ForeignMessage, ClientTypeOK, clientVars, BudgetTypeOK
  <2>27. CASE UNCHANGED vars
    BY <2>27, StoreStutterType, QueueStutterType, PassStutterType
       DEF vars, ClientTypeOK, clientVars, BudgetTypeOK, budgetVars
  <2>28. QED
    BY <2>1, <2>2, <2>3, <2>4, <2>5, <2>6, <2>7, <2>8, <2>9, <2>10, <2>11,
       <2>12, <2>13, <2>14, <2>15, <2>16, <2>17, <2>18, <2>19, <2>20, <2>21,
       <2>22, <2>23, <2>24, <2>25, <2>26, <2>27
       DEF Next, ApiStep, DrainStep, LaneStep, ThreadStep
<1>3. QED BY <1>1, <1>2, PTL DEF Spec

-----------------------------------------------------------------------------
(* Facts about any step, used below.                                       *)

\* The stream only grows, so that a message keeps its content.
LEMMA StreamGrows ==
    ASSUME TypeOK, [Next]_vars
    PROVE  /\ Msgs \subseteq Msgs'
           /\ \A m \in Msgs : stream'[m] = stream[m]
           /\ \A j : Sent(j) => Sent(j)'
<1> USE DEF TypeOK, QueueTypeOK
<1>0. ASSUME stream' = stream \/ \E c \in Jobs \cup {NoJob} : stream' = Append(stream, c)
      PROVE  /\ Msgs \subseteq Msgs'
             /\ \A m \in Msgs : stream'[m] = stream[m]
             /\ \A j : Sent(j) => Sent(j)'
  <2>1. CASE stream' = stream
    BY <2>1 DEF Msgs, Sent
  <2>2. ASSUME NEW c \in Jobs \cup {NoJob}, stream' = Append(stream, c)
        PROVE  Msgs \subseteq Msgs' /\ \A m \in Msgs : stream'[m] = stream[m]
    <3>1. stream \in Seq(Jobs \cup {NoJob}) OBVIOUS
    <3> HIDE DEF TypeOK
    <3>2. Len(stream') = Len(stream) + 1 /\ Len(stream) \in Nat BY <2>2, <3>1
    <3>3. Msgs = 1..Len(stream) BY <3>1 DEF Msgs
    <3>4. Msgs' = 1..Len(stream') BY <2>2, <3>1 DEF Msgs
    <3>5. \A m \in 1..Len(stream) : stream'[m] = stream[m] BY <2>2, <3>1
    <3> QED BY <3>2, <3>3, <3>4, <3>5
  <2>3. ASSUME Msgs \subseteq Msgs', \A m \in Msgs : stream'[m] = stream[m]
        PROVE  \A j : Sent(j) => Sent(j)'
    BY <2>3, Zenon DEF Sent
  <2> QED BY <1>0, <2>1, <2>2, <2>3
<1>1. stream' = stream \/ \E c \in Jobs \cup {NoJob} : stream' = Append(stream, c)
  <2>1. ASSUME NEW j \in Jobs, NEW o \in Outcome, CreateBatchJob(j, o)
        PROVE  stream' = stream \/ \E c \in Jobs \cup {NoJob} : stream' = Append(stream, c)
    BY <2>1 DEF CreateBatchJob, queueVars
  <2>2. ASSUME NEW j \in Jobs, NEW o \in SendOutcome, ApiPublish(j, o)
        PROVE  stream' = stream \/ \E c \in Jobs \cup {NoJob} : stream' = Append(stream, c)
    BY <2>2 DEF ApiPublish, Publish, queueVars
  <2>3. ASSUME NEW j \in Jobs, NEW o \in Outcome, ApiMark(j, o)
        PROVE  stream' = stream \/ \E c \in Jobs \cup {NoJob} : stream' = Append(stream, c)
    BY <2>3 DEF ApiMark, queueVars
  <2>4. ASSUME NEW j \in Jobs, ApiCrash(j)
        PROVE  stream' = stream \/ \E c \in Jobs \cup {NoJob} : stream' = Append(stream, c)
    BY <2>4 DEF ApiCrash, queueVars
  <2>5. ASSUME NEW j \in Jobs, DeleteJob(j)
        PROVE  stream' = stream \/ \E c \in Jobs \cup {NoJob} : stream' = Append(stream, c)
    BY <2>5 DEF DeleteJob, queueVars
  <2>6. ASSUME NEW w \in Workers, DrainRead(w)
        PROVE  stream' = stream \/ \E c \in Jobs \cup {NoJob} : stream' = Append(stream, c)
    BY <2>6 DEF DrainRead, queueVars
  <2>7. ASSUME NEW w \in Workers, NEW j \in Jobs, NEW o \in SendOutcome,
               DrainPublish(w, j, o)
        PROVE  stream' = stream \/ \E c \in Jobs \cup {NoJob} : stream' = Append(stream, c)
    BY <2>7 DEF DrainPublish, Publish, queueVars
  <2>8. ASSUME NEW w \in Workers, NEW o \in Outcome, DrainMark(w, o)
        PROVE  stream' = stream \/ \E c \in Jobs \cup {NoJob} : stream' = Append(stream, c)
    BY <2>8 DEF DrainMark, queueVars
  <2>9. ASSUME NEW w \in Workers, Crash(w)
        PROVE  stream' = stream \/ \E c \in Jobs \cup {NoJob} : stream' = Append(stream, c)
    BY <2>9 DEF Crash, queueVars
  <2>10. ASSUME NEW l \in Lanes, NEW o \in Outcome, Consume(l, o)
        PROVE  stream' = stream \/ \E c \in Jobs \cup {NoJob} : stream' = Append(stream, c)
    BY <2>10 DEF Consume, ReadGroup
  <2>11. ASSUME NEW l \in Lanes, Claim(l)
        PROVE  stream' = stream \/ \E c \in Jobs \cup {NoJob} : stream' = Append(stream, c)
    BY <2>11 DEF Claim, queueVars
  <2>12. ASSUME NEW l \in Lanes, StartMessage(l)
        PROVE  stream' = stream \/ \E c \in Jobs \cup {NoJob} : stream' = Append(stream, c)
    BY <2>12 DEF StartMessage, queueVars
  <2>13. ASSUME NEW l \in Lanes, NEW o \in Outcome, MarkRunning(l, o)
        PROVE  stream' = stream \/ \E c \in Jobs \cup {NoJob} : stream' = Append(stream, c)
    BY <2>13 DEF MarkRunning, queueVars
  <2>14. ASSUME NEW l \in Lanes, NEW o \in Outcome, RequeueRunning(l, o)
        PROVE  stream' = stream \/ \E c \in Jobs \cup {NoJob} : stream' = Append(stream, c)
    BY <2>14 DEF RequeueRunning, queueVars
  <2>15. ASSUME NEW l \in Lanes, JoinPool(l)
        PROVE  stream' = stream \/ \E c \in Jobs \cup {NoJob} : stream' = Append(stream, c)
    BY <2>15 DEF JoinPool, queueVars
  <2>16. ASSUME NEW l \in Lanes, Recount(l)
        PROVE  stream' = stream \/ \E c \in Jobs \cup {NoJob} : stream' = Append(stream, c)
    BY <2>16 DEF Recount, queueVars
  <2>17. ASSUME NEW l \in Lanes, NEW o \in Outcome, Rewrite(l, o)
        PROVE  stream' = stream \/ \E c \in Jobs \cup {NoJob} : stream' = Append(stream, c)
    BY <2>17 DEF Rewrite, queueVars
  <2>18. ASSUME NEW l \in Lanes, NEW o \in Outcome, DropMessage(l, o)
        PROVE  stream' = stream \/ \E c \in Jobs \cup {NoJob} : stream' = Append(stream, c)
    BY <2>18 DEF DropMessage, PublishDLQMsg, queueVars
  <2>19. ASSUME NEW l \in Lanes, NEW o \in Outcome, AckMessage(l, o)
        PROVE  stream' = stream \/ \E c \in Jobs \cup {NoJob} : stream' = Append(stream, c)
    BY <2>19 DEF AckMessage, Ack, queueVars
  <2>20. ASSUME NEW l \in Lanes, NEW t \in Pool, NEW i \in Items,
               SelectItem(l, t, i)
        PROVE  stream' = stream \/ \E c \in Jobs \cup {NoJob} : stream' = Append(stream, c)
    BY <2>20 DEF SelectItem, queueVars
  <2>21. ASSUME NEW l \in Lanes, NEW t \in Pool, SelectNone(l, t)
        PROVE  stream' = stream \/ \E c \in Jobs \cup {NoJob} : stream' = Append(stream, c)
    BY <2>21 DEF SelectNone, queueVars
  <2>22. ASSUME NEW l \in Lanes, NEW t \in Pool, SelectError(l, t)
        PROVE  stream' = stream \/ \E c \in Jobs \cup {NoJob} : stream' = Append(stream, c)
    BY <2>22 DEF SelectError, queueVars
  <2>23. ASSUME NEW l \in Lanes, NEW t \in Pool, NEW o \in Outcome,
               CommitClaim(l, t, o)
        PROVE  stream' = stream \/ \E c \in Jobs \cup {NoJob} : stream' = Append(stream, c)
    BY <2>23 DEF CommitClaim, queueVars
  <2>24. ASSUME NEW l \in Lanes, NEW t \in Pool, NEW o \in SendOutcome,
               DeadLetterItem(l, t, o)
        PROVE  stream' = stream \/ \E c \in Jobs \cup {NoJob} : stream' = Append(stream, c)
    BY <2>24 DEF DeadLetterItem, PublishDLQItem, queueVars
  <2>25. ASSUME NEW l \in Lanes, NEW t \in Pool, NEW status \in TerminalItem,
               NEW o \in Outcome, FinishItem(l, t, status, o)
        PROVE  stream' = stream \/ \E c \in Jobs \cup {NoJob} : stream' = Append(stream, c)
    BY <2>25 DEF FinishItem, queueVars
  <2>26. ASSUME ForeignMessage
        PROVE  stream' = stream \/ \E c \in Jobs \cup {NoJob} : stream' = Append(stream, c)
    BY <2>26 DEF ForeignMessage, Publish
  <2>27. CASE UNCHANGED vars
    BY <2>27 DEF vars, queueVars
  <2>28. QED
    BY <2>1, <2>2, <2>3, <2>4, <2>5, <2>6, <2>7, <2>8, <2>9, <2>10, <2>11,
       <2>12, <2>13, <2>14, <2>15, <2>16, <2>17, <2>18, <2>19, <2>20, <2>21,
       <2>22, <2>23, <2>24, <2>25, <2>26, <2>27
       DEF Next, ApiStep, DrainStep, LaneStep, ThreadStep
<1> QED BY <1>0, <1>1

\* A job that has been created is never uncreated.
LEMMA CreatedStays ==
    ASSUME TypeOK, [Next]_vars, NEW k \in Jobs, job[k].status # "absent"
    PROVE  job'[k].status # "absent"
<1> USE DEF TypeOK, StoreTypeOK
<1>1. ASSUME NEW j \in Jobs, NEW o \in Outcome, CreateBatchJob(j, o)
      PROVE  job'[k].status # "absent"
  BY <1>1 DEF CreateBatchJob, CreateWithItemsAndOutbox
<1>2. ASSUME NEW j \in Jobs, NEW o \in SendOutcome, ApiPublish(j, o)
      PROVE  job'[k].status # "absent"
  BY <1>2 DEF ApiPublish, storeVars
<1>3. ASSUME NEW j \in Jobs, NEW o \in Outcome, ApiMark(j, o)
      PROVE  job'[k].status # "absent"
  BY <1>3 DEF ApiMark, MarkOutboxPublished, storeVars
<1>4. ASSUME NEW j \in Jobs, ApiCrash(j)
      PROVE  job'[k].status # "absent"
  BY <1>4 DEF ApiCrash, storeVars
<1>5. ASSUME NEW j \in Jobs, DeleteJob(j)
      PROVE  job'[k].status # "absent"
  BY <1>5 DEF DeleteJob, CascadeDelete
<1>6. ASSUME NEW w \in Workers, DrainRead(w)
      PROVE  job'[k].status # "absent"
  BY <1>6 DEF DrainRead, storeVars
<1>7. ASSUME NEW w \in Workers, NEW j \in Jobs, NEW o \in SendOutcome,
             DrainPublish(w, j, o)
      PROVE  job'[k].status # "absent"
  BY <1>7 DEF DrainPublish, storeVars
<1>8. ASSUME NEW w \in Workers, NEW o \in Outcome, DrainMark(w, o)
      PROVE  job'[k].status # "absent"
  BY <1>8 DEF DrainMark, MarkOutboxPublished, storeVars
<1>9. ASSUME NEW w \in Workers, Crash(w)
      PROVE  job'[k].status # "absent"
  BY <1>9 DEF Crash, ClaimRollback
<1>10. ASSUME NEW l \in Lanes, NEW o \in Outcome, Consume(l, o)
      PROVE  job'[k].status # "absent"
  BY <1>10 DEF Consume, storeVars
<1>11. ASSUME NEW l \in Lanes, Claim(l)
      PROVE  job'[k].status # "absent"
  BY <1>11 DEF Claim, storeVars
<1>12. ASSUME NEW l \in Lanes, StartMessage(l)
      PROVE  job'[k].status # "absent"
  BY <1>12 DEF StartMessage, storeVars
<1>13. ASSUME NEW l \in Lanes, NEW o \in Outcome, MarkRunning(l, o)
      PROVE  job'[k].status # "absent"
  BY <1>13 DEF MarkRunning, MarkJobRunning, storeVars
<1>14. ASSUME NEW l \in Lanes, NEW o \in Outcome, RequeueRunning(l, o)
      PROVE  job'[k].status # "absent"
  BY <1>14 DEF RequeueRunning, RequeueRunningItems, storeVars
<1>15. ASSUME NEW l \in Lanes, JoinPool(l)
      PROVE  job'[k].status # "absent"
  BY <1>15 DEF JoinPool, storeVars
<1>16. ASSUME NEW l \in Lanes, Recount(l)
      PROVE  job'[k].status # "absent"
  BY <1>16 DEF Recount, storeVars
<1>17. ASSUME NEW l \in Lanes, NEW o \in Outcome, Rewrite(l, o)
      PROVE  job'[k].status # "absent"
  <2>1. UNCHANGED job \/ RecomputeWrite(JobOfMsg(l), snap[l])
    BY ONLY <1>17 DEF Rewrite, storeVars
  <2>2. ASSUME NEW total, NEW s, NEW f
        PROVE  AggregateJobStatus(total, s, f) # "absent"
    BY ONLY DEF AggregateJobStatus
  <2>3. CASE RecomputeWrite(JobOfMsg(l), snap[l])
    <3> HIDE DEF Exists, ItemsOf, AggregateJobStatus
    <3> QED BY <2>2, <2>3 DEF RecomputeWrite
  <2> QED BY <2>1, <2>3
<1>18. ASSUME NEW l \in Lanes, NEW o \in Outcome, DropMessage(l, o)
      PROVE  job'[k].status # "absent"
  BY <1>18 DEF DropMessage, storeVars
<1>19. ASSUME NEW l \in Lanes, NEW o \in Outcome, AckMessage(l, o)
      PROVE  job'[k].status # "absent"
  BY <1>19 DEF AckMessage, storeVars
<1>20. ASSUME NEW l \in Lanes, NEW t \in Pool, NEW i \in Items, SelectItem(l,
             t, i)
      PROVE  job'[k].status # "absent"
  BY <1>20 DEF SelectItem, ClaimSelect
<1>21. ASSUME NEW l \in Lanes, NEW t \in Pool, SelectNone(l, t)
      PROVE  job'[k].status # "absent"
  BY <1>21 DEF SelectNone, storeVars
<1>22. ASSUME NEW l \in Lanes, NEW t \in Pool, SelectError(l, t)
      PROVE  job'[k].status # "absent"
  BY <1>22 DEF SelectError, storeVars
<1>23. ASSUME NEW l \in Lanes, NEW t \in Pool, NEW o \in Outcome,
             CommitClaim(l, t, o)
      PROVE  job'[k].status # "absent"
  BY <1>23 DEF CommitClaim, ClaimCommit, ClaimRollback
<1>24. ASSUME NEW l \in Lanes, NEW t \in Pool, NEW o \in SendOutcome,
             DeadLetterItem(l, t, o)
      PROVE  job'[k].status # "absent"
  BY <1>24 DEF DeadLetterItem, storeVars
<1>25. ASSUME NEW l \in Lanes, NEW t \in Pool, NEW status \in TerminalItem,
             NEW o \in Outcome, FinishItem(l, t, status, o)
      PROVE  job'[k].status # "absent"
  BY <1>25 DEF FinishItem, UpdateItemTerminal, storeVars
<1>26. ASSUME ForeignMessage
      PROVE  job'[k].status # "absent"
  BY <1>26 DEF ForeignMessage, storeVars
<1>27. CASE UNCHANGED vars
  BY <1>27 DEF vars, storeVars
<1>28. QED
  BY <1>1, <1>2, <1>3, <1>4, <1>5, <1>6, <1>7, <1>8, <1>9, <1>10, <1>11,
     <1>12, <1>13, <1>14, <1>15, <1>16, <1>17, <1>18, <1>19, <1>20, <1>21,
     <1>22, <1>23, <1>24, <1>25, <1>26, <1>27
     DEF Next, ApiStep, DrainStep, LaneStep, ThreadStep
-----------------------------------------------------------------------------
(* The inductive invariant, conjunct by conjunct.                          *)

\* Rows are marked after publication: by the order of the writes in the
\* request handler and in drainOutboxOnce.
LEMMA OutboxOrderStep ==
    ASSUME TypeOK, TypeOK', OutboxOrder, [Next]_vars
    PROVE  OutboxOrder'
<1> DEFINE C == \A k \in Jobs : job[k].status # "absent" => job'[k].status # "absent"
<1> USE DEF TypeOK, StoreTypeOK, ClientTypeOK
<1>a. C BY CreatedStays
<1>b. \A j : Sent(j) => Sent(j)' BY StreamGrows
<1>c. \A j \in Jobs : Sent(j)' /\ stream' = stream => Sent(j) BY DEF Sent, Msgs
<1>d. \A j, c : stream' = Append(stream, c) /\ Sent(j)' => Sent(j) \/ j = c
  BY DEF TypeOK, QueueTypeOK, Sent, Msgs
<1>e. \A c \in Jobs \cup {NoJob} : stream' = Append(stream, c) => Sent(c)'
  <2> SUFFICES ASSUME NEW c \in Jobs \cup {NoJob}, stream' = Append(stream, c)
               PROVE  Sent(c)'
    OBVIOUS
  <2>1. Len(stream) + 1 \in DOMAIN stream' /\ stream'[Len(stream) + 1] = c
    BY DEF TypeOK, QueueTypeOK
  <2> QED BY <2>1 DEF Sent, Msgs
<1>f. ASSUME stream' = stream, outbox' = outbox, UNCHANGED clientVars
      PROVE  OutboxOrder'
  BY <1>a, <1>b, <1>c, <1>f DEF OutboxOrder, clientVars
<1>1. ASSUME NEW j \in Jobs, NEW o \in Outcome, CreateBatchJob(j, o)
      PROVE  OutboxOrder'
  BY <1>a, <1>b, <1>c, <1>1 DEF CreateBatchJob, CreateWithItemsAndOutbox, OutboxOrder, queueVars
<1>2. ASSUME NEW j \in Jobs, NEW o \in SendOutcome, ApiPublish(j, o)
      PROVE  OutboxOrder'
  BY <1>a, <1>b, <1>c, <1>d, <1>e, <1>2 DEF ApiPublish, Publish, OutboxOrder, queueVars, storeVars
<1>3. ASSUME NEW j \in Jobs, NEW o \in Outcome, ApiMark(j, o)
      PROVE  OutboxOrder'
  BY <1>a, <1>b, <1>c, <1>3 DEF ApiMark, MarkOutboxPublished, OutboxOrder, queueVars, storeVars
<1>4. ASSUME NEW j \in Jobs, ApiCrash(j)
      PROVE  OutboxOrder'
  BY <1>a, <1>b, <1>c, <1>4 DEF ApiCrash, OutboxOrder, queueVars, storeVars
<1>5. ASSUME NEW j \in Jobs, DeleteJob(j)
      PROVE  OutboxOrder'
  BY <1>a, <1>b, <1>c, <1>5 DEF DeleteJob, CascadeDelete, Exists, OutboxOrder, clientVars, queueVars
<1>6. ASSUME NEW w \in Workers, DrainRead(w)
      PROVE  OutboxOrder'
  BY <1>a, <1>b, <1>c, <1>6 DEF DrainRead, PendingOutbox, OutboxOrder, queueVars, storeVars
<1>7. ASSUME NEW w \in Workers, NEW j \in Jobs, NEW o \in SendOutcome,
             DrainPublish(w, j, o)
      PROVE  OutboxOrder'
  BY <1>a, <1>b, <1>c, <1>d, <1>e, <1>7 DEF DrainPublish, Publish, OutboxOrder, queueVars, storeVars
<1>8. ASSUME NEW w \in Workers, NEW o \in Outcome, DrainMark(w, o)
      PROVE  OutboxOrder'
  BY <1>a, <1>b, <1>c, <1>8 DEF DrainMark, MarkOutboxPublished, OutboxOrder, queueVars, storeVars
<1>9. ASSUME NEW w \in Workers, Crash(w)
      PROVE  OutboxOrder'
  BY <1>a, <1>b, <1>c, <1>9 DEF Crash, ClaimRollback, OutboxOrder, queueVars
<1>10. ASSUME NEW l \in Lanes, NEW o \in Outcome, Consume(l, o)
      PROVE  OutboxOrder'
  BY <1>f, <1>10 DEF Consume, ReadGroup, storeVars
<1>11. ASSUME NEW l \in Lanes, Claim(l)
      PROVE  OutboxOrder'
  BY <1>f, <1>11 DEF Claim, queueVars, storeVars
<1>12. ASSUME NEW l \in Lanes, StartMessage(l)
      PROVE  OutboxOrder'
  BY <1>f, <1>12 DEF StartMessage, queueVars, storeVars
<1>13. ASSUME NEW l \in Lanes, NEW o \in Outcome, MarkRunning(l, o)
      PROVE  OutboxOrder'
  BY <1>f, <1>13 DEF MarkRunning, MarkJobRunning, queueVars, storeVars
<1>14. ASSUME NEW l \in Lanes, NEW o \in Outcome, RequeueRunning(l, o)
      PROVE  OutboxOrder'
  BY <1>f, <1>14 DEF RequeueRunning, RequeueRunningItems, queueVars, storeVars
<1>15. ASSUME NEW l \in Lanes, JoinPool(l)
      PROVE  OutboxOrder'
  BY <1>f, <1>15 DEF JoinPool, queueVars, storeVars
<1>16. ASSUME NEW l \in Lanes, Recount(l)
      PROVE  OutboxOrder'
  BY <1>f, <1>16 DEF Recount, queueVars, storeVars
<1>17. ASSUME NEW l \in Lanes, NEW o \in Outcome, Rewrite(l, o)
      PROVE  OutboxOrder'
  BY <1>f, <1>17 DEF Rewrite, RecomputeWrite, queueVars, storeVars
<1>18. ASSUME NEW l \in Lanes, NEW o \in Outcome, DropMessage(l, o)
      PROVE  OutboxOrder'
  BY <1>f, <1>18 DEF DropMessage, PublishDLQMsg, queueVars, storeVars
<1>19. ASSUME NEW l \in Lanes, NEW o \in Outcome, AckMessage(l, o)
      PROVE  OutboxOrder'
  BY <1>f, <1>19 DEF AckMessage, Ack, queueVars, storeVars
<1>20. ASSUME NEW l \in Lanes, NEW t \in Pool, NEW i \in Items, SelectItem(l,
             t, i)
      PROVE  OutboxOrder'
  BY <1>f, <1>20 DEF SelectItem, ClaimSelect, queueVars
<1>21. ASSUME NEW l \in Lanes, NEW t \in Pool, SelectNone(l, t)
      PROVE  OutboxOrder'
  BY <1>f, <1>21 DEF SelectNone, queueVars, storeVars
<1>22. ASSUME NEW l \in Lanes, NEW t \in Pool, SelectError(l, t)
      PROVE  OutboxOrder'
  BY <1>f, <1>22 DEF SelectError, queueVars, storeVars
<1>23. ASSUME NEW l \in Lanes, NEW t \in Pool, NEW o \in Outcome,
             CommitClaim(l, t, o)
      PROVE  OutboxOrder'
  BY <1>f, <1>23 DEF CommitClaim, ClaimCommit, ClaimRollback, queueVars
<1>24. ASSUME NEW l \in Lanes, NEW t \in Pool, NEW o \in SendOutcome,
             DeadLetterItem(l, t, o)
      PROVE  OutboxOrder'
  BY <1>f, <1>24 DEF DeadLetterItem, PublishDLQItem, queueVars, storeVars
<1>25. ASSUME NEW l \in Lanes, NEW t \in Pool, NEW status \in TerminalItem,
             NEW o \in Outcome, FinishItem(l, t, status, o)
      PROVE  OutboxOrder'
  BY <1>f, <1>25 DEF FinishItem, UpdateItemTerminal, queueVars, storeVars
<1>26. ASSUME ForeignMessage
      PROVE  OutboxOrder'
  BY <1>a, <1>b, <1>d, PipelineAssumption, <1>26 DEF ForeignMessage, Publish, OutboxOrder, storeVars, clientVars
<1>27. CASE UNCHANGED vars
  BY <1>f, <1>27 DEF vars, queueVars, storeVars
<1>28. QED
  BY <1>1, <1>2, <1>3, <1>4, <1>5, <1>6, <1>7, <1>8, <1>9, <1>10, <1>11,
     <1>12, <1>13, <1>14, <1>15, <1>16, <1>17, <1>18, <1>19, <1>20, <1>21,
     <1>22, <1>23, <1>24, <1>25, <1>26, <1>27
     DEF Next, ApiStep, DrainStep, LaneStep, ThreadStep

\* No statement takes a locked row out of queued: requeueing and finishing
\* look for running rows, and a cascading delete waits for the lock.
LEMMA LockedIsQueuedStep ==
    ASSUME TypeOK, OutboxOrder, LockedIsQueued, [Next]_vars
    PROVE  LockedIsQueued'
<1>a. ASSUME UNCHANGED storeVars PROVE LockedIsQueued'
  BY <1>a DEF storeVars, LockedIsQueued
<1> USE DEF TypeOK, StoreTypeOK
<1>1. ASSUME NEW j \in Jobs, NEW o \in Outcome, CreateBatchJob(j, o)
      PROVE  LockedIsQueued'
  BY <1>1, StoreAssumption DEF LockedIsQueued, CreateBatchJob, storeVars, CreateWithItemsAndOutbox
<1>2. ASSUME NEW j \in Jobs, NEW o \in SendOutcome, ApiPublish(j, o)
      PROVE  LockedIsQueued'
  BY <1>a, <1>2 DEF ApiPublish
<1>3. ASSUME NEW j \in Jobs, NEW o \in Outcome, ApiMark(j, o)
      PROVE  LockedIsQueued'
  BY <1>3, StoreAssumption DEF LockedIsQueued, ApiMark, storeVars, MarkOutboxPublished
<1>4. ASSUME NEW j \in Jobs, ApiCrash(j)
      PROVE  LockedIsQueued'
  BY <1>a, <1>4 DEF ApiCrash
<1>5. ASSUME NEW j \in Jobs, DeleteJob(j)
      PROVE  LockedIsQueued'
  BY <1>5, StoreAssumption DEF LockedIsQueued, DeleteJob, storeVars, CascadeDelete, ItemsOf
<1>6. ASSUME NEW w \in Workers, DrainRead(w)
      PROVE  LockedIsQueued'
  BY <1>a, <1>6 DEF DrainRead
<1>7. ASSUME NEW w \in Workers, NEW j \in Jobs, NEW o \in SendOutcome,
             DrainPublish(w, j, o)
      PROVE  LockedIsQueued'
  BY <1>a, <1>7 DEF DrainPublish
<1>8. ASSUME NEW w \in Workers, NEW o \in Outcome, DrainMark(w, o)
      PROVE  LockedIsQueued'
  BY <1>8, StoreAssumption DEF LockedIsQueued, DrainMark, storeVars, MarkOutboxPublished
<1>9. ASSUME NEW w \in Workers, Crash(w)
      PROVE  LockedIsQueued'
  BY <1>9, StoreAssumption DEF LockedIsQueued, Crash, storeVars, ClaimRollback
<1>10. ASSUME NEW l \in Lanes, NEW o \in Outcome, Consume(l, o)
      PROVE  LockedIsQueued'
  BY <1>a, <1>10 DEF Consume
<1>11. ASSUME NEW l \in Lanes, Claim(l)
      PROVE  LockedIsQueued'
  BY <1>a, <1>11 DEF Claim
<1>12. ASSUME NEW l \in Lanes, StartMessage(l)
      PROVE  LockedIsQueued'
  BY <1>a, <1>12 DEF StartMessage
<1>13. ASSUME NEW l \in Lanes, NEW o \in Outcome, MarkRunning(l, o)
      PROVE  LockedIsQueued'
  BY <1>13, StoreAssumption DEF LockedIsQueued, MarkRunning, storeVars, MarkJobRunning
<1>14. ASSUME NEW l \in Lanes, NEW o \in Outcome, RequeueRunning(l, o)
      PROVE  LockedIsQueued'
  BY <1>14, StoreAssumption DEF LockedIsQueued, RequeueRunning, storeVars, RequeueRunningItems, WithStatus
<1>15. ASSUME NEW l \in Lanes, JoinPool(l)
      PROVE  LockedIsQueued'
  BY <1>a, <1>15 DEF JoinPool
<1>16. ASSUME NEW l \in Lanes, Recount(l)
      PROVE  LockedIsQueued'
  BY <1>a, <1>16 DEF Recount
<1>17. ASSUME NEW l \in Lanes, NEW o \in Outcome, Rewrite(l, o)
      PROVE  LockedIsQueued'
  BY <1>17, StoreAssumption DEF LockedIsQueued, Rewrite, storeVars, RecomputeWrite
<1>18. ASSUME NEW l \in Lanes, NEW o \in Outcome, DropMessage(l, o)
      PROVE  LockedIsQueued'
  BY <1>a, <1>18 DEF DropMessage
<1>19. ASSUME NEW l \in Lanes, NEW o \in Outcome, AckMessage(l, o)
      PROVE  LockedIsQueued'
  BY <1>a, <1>19 DEF AckMessage
<1>20. ASSUME NEW l \in Lanes, NEW t \in Pool, NEW i \in Items, SelectItem(l,
             t, i)
      PROVE  LockedIsQueued'
  BY <1>20, StoreAssumption DEF LockedIsQueued, SelectItem, storeVars, ClaimSelect, Claimable, WithStatus
<1>21. ASSUME NEW l \in Lanes, NEW t \in Pool, SelectNone(l, t)
      PROVE  LockedIsQueued'
  BY <1>a, <1>21 DEF SelectNone
<1>22. ASSUME NEW l \in Lanes, NEW t \in Pool, SelectError(l, t)
      PROVE  LockedIsQueued'
  BY <1>a, <1>22 DEF SelectError
<1>23. ASSUME NEW l \in Lanes, NEW t \in Pool, NEW o \in Outcome,
             CommitClaim(l, t, o)
      PROVE  LockedIsQueued'
  BY <1>23, StoreAssumption DEF LockedIsQueued, CommitClaim, storeVars, ClaimCommit, ClaimRollback
<1>24. ASSUME NEW l \in Lanes, NEW t \in Pool, NEW o \in SendOutcome,
             DeadLetterItem(l, t, o)
      PROVE  LockedIsQueued'
  BY <1>a, <1>24 DEF DeadLetterItem
<1>25. ASSUME NEW l \in Lanes, NEW t \in Pool, NEW status \in TerminalItem,
             NEW o \in Outcome, FinishItem(l, t, status, o)
      PROVE  LockedIsQueued'
  BY <1>25, StoreAssumption DEF LockedIsQueued, FinishItem, storeVars, UpdateItemTerminal
<1>26. ASSUME ForeignMessage
      PROVE  LockedIsQueued'
  BY <1>a, <1>26 DEF ForeignMessage
<1>27. CASE UNCHANGED vars
  BY <1>a, <1>27 DEF vars
<1>28. QED
  BY <1>1, <1>2, <1>3, <1>4, <1>5, <1>6, <1>7, <1>8, <1>9, <1>10, <1>11,
     <1>12, <1>13, <1>14, <1>15, <1>16, <1>17, <1>18, <1>19, <1>20, <1>21,
     <1>22, <1>23, <1>24, <1>25, <1>26, <1>27
     DEF Next, ApiStep, DrainStep, LaneStep, ThreadStep

\* What a loop has fetched or handles is held.
LEMMA HeldAll == ASSUME NEW k \in Lanes PROVE batch[k] \subseteq Held /\ cur[k] \in Held
BY DEF Held


\* When reclaiming is patient no two loops ever hold the same message, and a
\* held message is pending: XREADGROUP delivers it once, XAUTOCLAIM takes only
\* what nobody holds, and only the holder acks.
LEMMA ExclusiveStep ==
    ASSUME Patient, TypeOK, TypeOK', Exclusive, [Next]_vars
    PROVE  Exclusive'
<1> USE DEF TypeOK, QueueTypeOK, PassTypeOK, NoMsg
<1>a. ASSUME UNCHANGED <<stream, pel, batch, cur, pc>>
      PROVE  Exclusive'
  BY <1>a DEF Exclusive
<1>b. ASSUME NEW c, stream' = Append(stream, c), UNCHANGED <<cursor, pel, batch, cur, pc>>
      PROVE  Exclusive'
  <2>0. \A m \in 1 .. Len(stream) : Append(stream, c)[m] = stream[m]
    <3>1. stream \in Seq(Jobs \cup {NoJob})
      OBVIOUS
    <3> QED BY ONLY <3>1
  <2>1. \A l \in Lanes : cur[l] # NoMsg => stream'[cur[l]] = stream[cur[l]]
    <3>1. \A l \in Lanes : cur[l] # NoMsg => cur[l] \in 1 .. Len(stream)
      BY DEF Exclusive
    <3> QED BY ONLY <1>b, <2>0, <3>1
  <2> QED BY <1>b, <2>1 DEF Exclusive
<1>c. ASSUME NEW l \in Lanes, EndPass(l), UNCHANGED <<stream, batch>>,
             pel' = pel \/ pel' = pel \ {cur[l]}
      PROVE  Exclusive'
  BY <1>c DEF Exclusive, EndPass
<1>d. ASSUME NEW l \in Lanes, UNCHANGED <<stream, pel, batch, cur>>,
             NEW p, pc' = [pc EXCEPT ![l] = p],
             pc[l] # "idle", p # "idle",
             p \in {"drop", "ack"} \/ pc[l] \notin {"drop", "ack"}
      PROVE  Exclusive'
  BY <1>d DEF Exclusive
<1>1. ASSUME NEW j \in Jobs, NEW o \in Outcome, CreateBatchJob(j, o)
      PROVE  Exclusive'
  BY <1>a, <1>1 DEF CreateBatchJob, queueVars, passVars
<1>2. ASSUME NEW j \in Jobs, NEW o \in SendOutcome, ApiPublish(j, o)
      PROVE  Exclusive'
  BY <1>a, <1>b, <1>2 DEF ApiPublish, Publish, queueVars, passVars
<1>3. ASSUME NEW j \in Jobs, NEW o \in Outcome, ApiMark(j, o)
      PROVE  Exclusive'
  BY <1>a, <1>3 DEF ApiMark, queueVars, passVars
<1>4. ASSUME NEW j \in Jobs, ApiCrash(j)
      PROVE  Exclusive'
  BY <1>a, <1>4 DEF ApiCrash, queueVars, passVars
<1>5. ASSUME NEW j \in Jobs, DeleteJob(j)
      PROVE  Exclusive'
  BY <1>a, <1>5 DEF DeleteJob, queueVars, passVars
<1>6. ASSUME NEW w \in Workers, DrainRead(w)
      PROVE  Exclusive'
  BY <1>a, <1>6 DEF DrainRead, queueVars, passVars
<1>7. ASSUME NEW w \in Workers, NEW j \in Jobs, NEW o \in SendOutcome,
             DrainPublish(w, j, o)
      PROVE  Exclusive'
  BY <1>a, <1>b, <1>7 DEF DrainPublish, Publish, queueVars, passVars
<1>8. ASSUME NEW w \in Workers, NEW o \in Outcome, DrainMark(w, o)
      PROVE  Exclusive'
  BY <1>a, <1>8 DEF DrainMark, queueVars, passVars
<1>9. ASSUME NEW w \in Workers, Crash(w)
      PROVE  Exclusive'
  BY <1>9 DEF Crash, Exclusive, queueVars
<1>10. ASSUME NEW l \in Lanes, NEW o \in Outcome, Consume(l, o)
      PROVE  Exclusive'
  BY <1>10 DEF Consume, ReadGroup, NextBatch, Unread, Msgs, Exclusive, passVars
<1>11. ASSUME NEW l \in Lanes, Claim(l)
      PROVE  Exclusive'
  <2>1. PICK S \in SUBSET (pel \ Held) : batch' = [batch EXCEPT ![l] = S]
    BY <1>11 DEF Claim
  <2>2. \A k \in Lanes : batch[k] \cap S = {} /\ cur[k] \notin S
    BY <2>1, HeldAll
  <2>3. UNCHANGED <<stream, cursor, pel, cur, pc>> /\ pc[l] = "idle"
    BY <1>11 DEF Claim, passVars, queueVars
  <2> QED BY <2>1, <2>2, <2>3 DEF Exclusive
<1>12. ASSUME NEW l \in Lanes, StartMessage(l)
      PROVE  Exclusive'
  BY <1>12 DEF StartMessage, Exclusive, passVars, queueVars
<1>13. ASSUME NEW l \in Lanes, NEW o \in Outcome, MarkRunning(l, o)
      PROVE  Exclusive'
  BY <1>c, <1>d, <1>13 DEF MarkRunning, GoTo, queueVars
<1>14. ASSUME NEW l \in Lanes, NEW o \in Outcome, RequeueRunning(l, o)
      PROVE  Exclusive'
  BY <1>c, <1>d, <1>14 DEF RequeueRunning, GoTo, queueVars
<1>15. ASSUME NEW l \in Lanes, JoinPool(l)
      PROVE  Exclusive'
  BY <1>c, <1>d, <1>15 DEF JoinPool, GoTo, queueVars
<1>16. ASSUME NEW l \in Lanes, Recount(l)
      PROVE  Exclusive'
  BY <1>c, <1>d, <1>16 DEF Recount, GoTo, queueVars
<1>17. ASSUME NEW l \in Lanes, NEW o \in Outcome, Rewrite(l, o)
      PROVE  Exclusive'
  BY <1>c, <1>d, <1>17 DEF Rewrite, GoTo, queueVars
<1>18. ASSUME NEW l \in Lanes, NEW o \in Outcome, DropMessage(l, o)
      PROVE  Exclusive'
  BY <1>c, <1>d, <1>18 DEF DropMessage, GoTo, queueVars, PublishDLQMsg
<1>19. ASSUME NEW l \in Lanes, NEW o \in Outcome, AckMessage(l, o)
      PROVE  Exclusive'
  BY <1>c, <1>d, <1>19 DEF AckMessage, GoTo, queueVars, Ack
<1>20. ASSUME NEW l \in Lanes, NEW t \in Pool, NEW i \in Items, SelectItem(l,
             t, i)
      PROVE  Exclusive'
  BY <1>a, <1>20 DEF SelectItem, Thread, BreakOff, queueVars
<1>21. ASSUME NEW l \in Lanes, NEW t \in Pool, SelectNone(l, t)
      PROVE  Exclusive'
  BY <1>a, <1>21 DEF SelectNone, Thread, BreakOff, queueVars
<1>22. ASSUME NEW l \in Lanes, NEW t \in Pool, SelectError(l, t)
      PROVE  Exclusive'
  BY <1>a, <1>22 DEF SelectError, Thread, BreakOff, queueVars
<1>23. ASSUME NEW l \in Lanes, NEW t \in Pool, NEW o \in Outcome,
             CommitClaim(l, t, o)
      PROVE  Exclusive'
  BY <1>a, <1>23 DEF CommitClaim, Thread, BreakOff, queueVars
<1>24. ASSUME NEW l \in Lanes, NEW t \in Pool, NEW o \in SendOutcome,
             DeadLetterItem(l, t, o)
      PROVE  Exclusive'
  BY <1>a, <1>24 DEF DeadLetterItem, PublishDLQItem, Thread, queueVars
<1>25. ASSUME NEW l \in Lanes, NEW t \in Pool, NEW status \in TerminalItem,
             NEW o \in Outcome, FinishItem(l, t, status, o)
      PROVE  Exclusive'
  BY <1>a, <1>25 DEF FinishItem, Thread, BreakOff, queueVars
<1>26. ASSUME ForeignMessage
      PROVE  Exclusive'
  BY <1>b, <1>26 DEF ForeignMessage, Publish, passVars
<1>27. CASE UNCHANGED vars
  BY <1>a, <1>27 DEF vars, queueVars, passVars
<1>28. QED
  BY <1>1, <1>2, <1>3, <1>4, <1>5, <1>6, <1>7, <1>8, <1>9, <1>10, <1>11,
     <1>12, <1>13, <1>14, <1>15, <1>16, <1>17, <1>18, <1>19, <1>20, <1>21,
     <1>22, <1>23, <1>24, <1>25, <1>26, <1>27
     DEF Next, ApiStep, DrainStep, LaneStep, ThreadStep

-----------------------------------------------------------------------------
(* What a step can do to a pass, a goroutine, an item, a job, an outbox    *)
(* row, a message and a dead letter: every other action leaves it alone.   *)

\* Steps that leave the jobs, the items, the passes and the dead letters alone:
\* publishing, marking outbox rows, fetching messages.
Quiet == UNCHANGED <<job, item, locks, passVars, dlqItems, dlqMsgs>>

\* What a step can be, for everything but the queue of messages and the outbox.
LEMMA Moves ==
    ASSUME [Next]_vars
    PROVE  \/ Quiet
           \/ \E j \in Jobs : DeleteJob(j) \/ \E o \in Outcome : CreateBatchJob(j, o)
           \/ \E w \in Workers : Crash(w)
           \/ \E l \in Lanes :
                \/ StartMessage(l) \/ JoinPool(l) \/ Recount(l)
                \/ \E o \in Outcome :
                      \/ MarkRunning(l, o) \/ RequeueRunning(l, o)
                      \/ Rewrite(l, o) \/ DropMessage(l, o) \/ AckMessage(l, o)
                \/ \E t \in Pool : ThreadStep(l, t)
<1>1. ASSUME NEW j \in Jobs, NEW o, ApiPublish(j, o) \/ ApiMark(j, o)
      PROVE  Quiet
  BY <1>1 DEF ApiPublish, ApiMark, Publish, MarkOutboxPublished, Quiet, queueVars, storeVars
<1>2. ASSUME NEW j \in Jobs, ApiCrash(j)
      PROVE  Quiet
  BY <1>2 DEF ApiCrash, Quiet, queueVars, storeVars
<1>3. ASSUME NEW w \in Workers, DrainStep(w)
      PROVE  Quiet
  BY <1>3 DEF DrainStep, DrainRead, DrainPublish, DrainMark, Publish, MarkOutboxPublished,
     Quiet, queueVars, storeVars
<1>4. ASSUME NEW l \in Lanes, Claim(l) \/ \E o \in Outcome : Consume(l, o)
      PROVE  Quiet
  BY <1>4 DEF Claim, Consume, ReadGroup, Quiet, queueVars, storeVars
<1>5. ASSUME ForeignMessage PROVE Quiet
  BY <1>5 DEF ForeignMessage, Publish, Quiet, storeVars
<1>6. CASE UNCHANGED vars
  BY <1>6 DEF vars, Quiet, queueVars, storeVars
<1> QED
  BY <1>1, <1>2, <1>3, <1>4, <1>5, <1>6, Zenon DEF Next, ApiStep, LaneStep

\* Where a step leaves the pass of a loop.
PassMove(k) ==
    \/ pc'[k] = pc[k] /\ cur'[k] = cur[k] /\ snap'[k] = snap[k]
    \/ pc'[k] = "idle"
    \/ StartMessage(k) /\ cur'[k] \in batch[k]
          /\ pc'[k] = IF stream[cur'[k]] = NoJob THEN "drop" ELSE "mark"
    \/ MarkRunning(k, "ok") \/ RequeueRunning(k, "ok") \/ JoinPool(k)
    \/ Recount(k) \/ Rewrite(k, "ok") \/ DropMessage(k, "ok")

\* A pass stays where it is, ends, or takes its next step.
LEMMA PassMoves ==
    ASSUME TypeOK, [Next]_vars, NEW k \in Lanes PROVE PassMove(k)
<1> USE DEF TypeOK, PassTypeOK
<1>a. ASSUME NEW l \in Lanes, EndPass(l) PROVE PassMove(k)
  BY <1>a DEF EndPass, PassMove
<1>b. ASSUME NEW l \in Lanes, NEW p, GoTo(l, p), k # l PROVE PassMove(k)
  BY <1>b DEF GoTo, PassMove
<1>c. ASSUME UNCHANGED <<pc, cur, snap>> PROVE PassMove(k)
  BY <1>c DEF PassMove
<1>1. CASE Quiet
  BY <1>c, <1>1 DEF Quiet, passVars
<1>2. ASSUME NEW j \in Jobs, NEW o \in Outcome, CreateBatchJob(j, o)
      PROVE  PassMove(k)
  BY <1>c, <1>2 DEF CreateBatchJob, passVars
<1>3. ASSUME NEW j \in Jobs, DeleteJob(j)
      PROVE  PassMove(k)
  BY <1>c, <1>3 DEF DeleteJob, passVars
<1>4. ASSUME NEW w \in Workers, Crash(w)
      PROVE  PassMove(k)
  BY <1>4 DEF Crash, PassMove
<1>5. ASSUME NEW l \in Lanes, StartMessage(l)
      PROVE  PassMove(k)
  <2>1. CASE UNCHANGED passVars
    BY <1>c, <2>1 DEF passVars
  <2>2. ASSUME NEW m \in batch[l], cur' = [cur EXCEPT ![l] = m],
               pc' = [pc EXCEPT ![l] = IF stream[m] = NoJob THEN "drop" ELSE "mark"],
               UNCHANGED <<thr, broken, snap>>
        PROVE  PassMove(k)
    BY <1>5, <2>2 DEF PassMove
  <2> QED BY <1>5, <2>1, <2>2 DEF StartMessage
<1>6. ASSUME NEW l \in Lanes, NEW o \in Outcome, MarkRunning(l, o)
      PROVE  PassMove(k)
  BY <1>a, <1>b, <1>6 DEF MarkRunning, PassMove
<1>7. ASSUME NEW l \in Lanes, NEW o \in Outcome, RequeueRunning(l, o)
      PROVE  PassMove(k)
  <2>1. CASE o = "ok"
    BY <1>7, <2>1 DEF RequeueRunning, PassMove
  <2>2. CASE o # "ok"
    BY <1>a, <1>7, <2>2 DEF RequeueRunning
  <2> QED BY <2>1, <2>2
<1>8. ASSUME NEW l \in Lanes, JoinPool(l)
      PROVE  PassMove(k)
  BY <1>a, <1>b, <1>8 DEF JoinPool, PassMove
<1>9. ASSUME NEW l \in Lanes, Recount(l)
      PROVE  PassMove(k)
  <2>1. CASE l = k
    BY <1>9, <2>1 DEF PassMove
  <2>2. CASE l # k
    BY <1>9, <2>2 DEF Recount, PassMove
  <2> QED BY <2>1, <2>2
<1>10. ASSUME NEW l \in Lanes, NEW o \in Outcome, Rewrite(l, o)
      PROVE  PassMove(k)
  BY <1>a, <1>b, <1>10 DEF Rewrite, PassMove
<1>11. ASSUME NEW l \in Lanes, NEW o \in Outcome, DropMessage(l, o)
      PROVE  PassMove(k)
  BY <1>a, <1>b, <1>11 DEF DropMessage, PassMove
<1>12. ASSUME NEW l \in Lanes, NEW o \in Outcome, AckMessage(l, o)
      PROVE  PassMove(k)
  BY <1>a, <1>12 DEF AckMessage
<1>13. ASSUME NEW l \in Lanes, NEW t \in Pool, NEW i \in Items, SelectItem(l, t, i)
      PROVE  PassMove(k)
  BY <1>c, <1>13 DEF SelectItem, Thread
<1>14. ASSUME NEW l \in Lanes, NEW t \in Pool, SelectNone(l, t)
      PROVE  PassMove(k)
  BY <1>c, <1>14 DEF SelectNone, Thread
<1>15. ASSUME NEW l \in Lanes, NEW t \in Pool, SelectError(l, t)
      PROVE  PassMove(k)
  BY <1>c, <1>15 DEF SelectError, BreakOff
<1>16. ASSUME NEW l \in Lanes, NEW t \in Pool, NEW o \in Outcome, CommitClaim(l, t, o)
      PROVE  PassMove(k)
  BY <1>c, <1>16 DEF CommitClaim, Thread, BreakOff
<1>17. ASSUME NEW l \in Lanes, NEW t \in Pool, NEW o \in SendOutcome,
             DeadLetterItem(l, t, o)
      PROVE  PassMove(k)
  BY <1>c, <1>17 DEF DeadLetterItem, Thread
<1>18. ASSUME NEW l \in Lanes, NEW t \in Pool, NEW status \in TerminalItem,
             NEW o \in Outcome, FinishItem(l, t, status, o)
      PROVE  PassMove(k)
  BY <1>c, <1>18 DEF FinishItem, Thread, BreakOff
<1> QED
  BY Moves, <1>1, <1>2, <1>3, <1>4, <1>5, <1>6, <1>7, <1>8, <1>9, <1>10,
     <1>11, <1>12, <1>13, <1>14, <1>15, <1>16, <1>17, <1>18 DEF ThreadStep

\* How a goroutine comes to work on an item, or to dead-letter one.
ThreadMove(k, s) ==
    thr'[k][s] = thr[k][s] \/ CommitClaim(k, s, "ok") \/ DeadLetterItem(k, s, "resent")

\* It goes on with what it had, its claim has just committed, or its dead letter is
\* being sent again.
LEMMA ThreadMoves ==
    ASSUME TypeOK, [Next]_vars, NEW k \in Lanes, NEW s \in Pool,
           thr'[k][s].st \in {"work", "dlq", "resend"}
    PROVE  ThreadMove(k, s)
<1> USE DEF TypeOK, PassTypeOK
<1>a. ASSUME NEW l \in Lanes, EndPass(l) PROVE ThreadMove(k, s)
  BY <1>a DEF EndPass, Parked, ThreadMove
<1>b. ASSUME NEW l \in Lanes, NEW p, GoTo(l, p)
      PROVE  ThreadMove(k, s)
  BY <1>b DEF GoTo, ThreadMove
<1>c. ASSUME NEW l \in Lanes, NEW t \in Pool, NEW st \in {"claim", "lock", "done"},
             NEW i \in Items \cup {NoItem},
             thr' = [thr EXCEPT ![l][t] = [st |-> st, item |-> i]]
      PROVE  ThreadMove(k, s)
  BY <1>c DEF ThreadMove
<1>d. ASSUME NEW l \in Lanes, NEW t \in Pool, BreakOff(l, t) PROVE ThreadMove(k, s)
  BY <1>c, <1>d DEF BreakOff
<1>1. CASE Quiet
  BY <1>1 DEF Quiet, passVars, ThreadMove
<1>2. ASSUME NEW j \in Jobs, NEW o \in Outcome, CreateBatchJob(j, o)
      PROVE  ThreadMove(k, s)
  BY <1>2 DEF CreateBatchJob, passVars, ThreadMove
<1>3. ASSUME NEW j \in Jobs, DeleteJob(j)
      PROVE  ThreadMove(k, s)
  BY <1>3 DEF DeleteJob, passVars, ThreadMove
<1>4. ASSUME NEW w \in Workers, Crash(w)
      PROVE  ThreadMove(k, s)
  BY <1>4 DEF Crash, Parked, ThreadMove
<1>5. ASSUME NEW l \in Lanes, StartMessage(l)
      PROVE  ThreadMove(k, s)
  BY <1>5 DEF StartMessage, passVars, ThreadMove
<1>6. ASSUME NEW l \in Lanes, NEW o \in Outcome, MarkRunning(l, o)
      PROVE  ThreadMove(k, s)
  BY <1>a, <1>b, <1>6 DEF MarkRunning
<1>7. ASSUME NEW l \in Lanes, NEW o \in Outcome, RequeueRunning(l, o)
      PROVE  ThreadMove(k, s)
  <2>1. CASE o = "ok"
    <3>1. thr' = [thr EXCEPT ![l] = Started]
      BY <1>7, <2>1 DEF RequeueRunning
    <3>2. CASE k = l
      <4>1. thr'[k][s].st = "claim" BY <3>1, <3>2 DEF Started
      <4> QED BY <4>1
    <3>3. CASE k # l BY <3>1, <3>3 DEF ThreadMove
    <3> QED BY <3>2, <3>3
  <2>2. CASE o # "ok"
    BY <1>a, <1>7, <2>2 DEF RequeueRunning
  <2> QED BY <2>1, <2>2
<1>8. ASSUME NEW l \in Lanes, JoinPool(l)
      PROVE  ThreadMove(k, s)
  BY <1>a, <1>b, <1>8 DEF JoinPool
<1>9. ASSUME NEW l \in Lanes, Recount(l)
      PROVE  ThreadMove(k, s)
  BY <1>9 DEF Recount, ThreadMove
<1>10. ASSUME NEW l \in Lanes, NEW o \in Outcome, Rewrite(l, o)
      PROVE  ThreadMove(k, s)
  BY <1>a, <1>b, <1>10 DEF Rewrite
<1>11. ASSUME NEW l \in Lanes, NEW o \in Outcome, DropMessage(l, o)
      PROVE  ThreadMove(k, s)
  BY <1>a, <1>b, <1>11 DEF DropMessage
<1>12. ASSUME NEW l \in Lanes, NEW o \in Outcome, AckMessage(l, o)
      PROVE  ThreadMove(k, s)
  BY <1>a, <1>12 DEF AckMessage
<1>13. ASSUME NEW l \in Lanes, NEW t \in Pool, NEW i \in Items, SelectItem(l, t, i)
      PROVE  ThreadMove(k, s)
  BY <1>c, <1>13 DEF SelectItem, Thread
<1>14. ASSUME NEW l \in Lanes, NEW t \in Pool, SelectNone(l, t)
      PROVE  ThreadMove(k, s)
  BY <1>c, <1>14 DEF SelectNone, Thread
<1>15. ASSUME NEW l \in Lanes, NEW t \in Pool, SelectError(l, t)
      PROVE  ThreadMove(k, s)
  BY <1>d, <1>15 DEF SelectError
<1>16. ASSUME NEW l \in Lanes, NEW t \in Pool, NEW o \in Outcome, CommitClaim(l, t, o)
      PROVE  ThreadMove(k, s)
  <2>1. CASE k = l /\ s = t /\ o = "ok"
    BY <1>16, <2>1 DEF ThreadMove
  <2>2. CASE ~(k = l /\ s = t) /\ o = "ok"
    BY <1>16, <2>2 DEF CommitClaim, Thread, ThreadMove
  <2>3. CASE o # "ok"
    BY <1>d, <1>16, <2>3 DEF CommitClaim
  <2> QED BY <2>1, <2>2, <2>3
<1>17. ASSUME NEW l \in Lanes, NEW t \in Pool, NEW o \in SendOutcome,
             DeadLetterItem(l, t, o)
      PROVE  ThreadMove(k, s)
  <2>1. CASE o = "resent" /\ k = l /\ s = t
    BY <1>17, <2>1 DEF ThreadMove
  <2>2. CASE o = "resent" /\ ~(k = l /\ s = t)
    BY <1>17, <2>2 DEF DeadLetterItem, Thread, ThreadMove
  <2>3. CASE o # "resent"
    BY <1>c, <1>17, <2>3 DEF DeadLetterItem, Thread
  <2> QED BY <2>1, <2>2, <2>3
<1>18. ASSUME NEW l \in Lanes, NEW t \in Pool, NEW status \in TerminalItem,
             NEW o \in Outcome, FinishItem(l, t, status, o)
      PROVE  ThreadMove(k, s)
  <2>1. CASE BreakOff(l, t)
    BY <1>d, <2>1
  <2>2. CASE Thread(l, t, "claim", NoItem)
    BY <1>c, <2>2 DEF Thread
  <2> QED BY <1>18, <2>1, <2>2 DEF FinishItem
<1> QED
  BY Moves, <1>1, <1>2, <1>3, <1>4, <1>5, <1>6, <1>7, <1>8, <1>9, <1>10,
     <1>11, <1>12, <1>13, <1>14, <1>15, <1>16, <1>17, <1>18 DEF ThreadStep

\* Only the first two lead to work or to a first dead letter.
WorkMove(k, s) ==
    thr'[k][s] = thr[k][s] \/ CommitClaim(k, s, "ok")

LEMMA WorkMoves ==
    ASSUME TypeOK, [Next]_vars, NEW k \in Lanes, NEW s \in Pool,
           thr'[k][s].st \in {"work", "dlq"}
    PROVE  WorkMove(k, s)
<1>1. DeadLetterItem(k, s, "resent") => thr'[k][s].st = "resend"
  BY DEF DeadLetterItem, Thread, TypeOK, PassTypeOK
<1> QED BY <1>1, ThreadMoves DEF ThreadMove, WorkMove

\* What can change the row of an item.
ItemMove(x) ==
    \/ item'[x] = item[x]
    \/ DeleteJob(JobOf[x]) \/ \E o \in Outcome : CreateBatchJob(JobOf[x], o)
    \/ \E l \in Lanes, o \in Outcome :
          /\ RequeueRunning(l, o) /\ JobOfMsg(l) = JobOf[x]
          /\ item[x].status = "running"
    \/ \E l \in Lanes, t \in Pool, o \in Outcome :
          /\ thr[l][t].item = x
          /\ \/ CommitClaim(l, t, o)
             \/ \E status \in TerminalItem : FinishItem(l, t, status, o)

\* An item changes with its job, in a pass over its job, or in the hands of a
\* goroutine that holds it.
LEMMA ItemMoves ==
    ASSUME TypeOK, [Next]_vars, NEW x \in Items PROVE ItemMove(x)
<1> USE DEF TypeOK, StoreTypeOK
<1>a. ASSUME item' = item PROVE ItemMove(x)
  BY <1>a DEF ItemMove
<1>1. CASE Quiet
  BY <1>a, <1>1 DEF Quiet
<1>2. ASSUME NEW j \in Jobs, NEW o \in Outcome, CreateBatchJob(j, o)
      PROVE  ItemMove(x)
  BY <1>2 DEF CreateBatchJob, CreateWithItemsAndOutbox, ItemMove
<1>3. ASSUME NEW j \in Jobs, DeleteJob(j)
      PROVE  ItemMove(x)
  <2>1. CASE JobOf[x] = j
    BY <1>3, <2>1 DEF ItemMove
  <2>2. CASE JobOf[x] # j
    <3>1. item'[x] = item[x]
      BY <1>3, <2>2 DEF DeleteJob, CascadeDelete
    <3> QED BY <3>1 DEF ItemMove
  <2> QED BY <2>1, <2>2
<1>4. ASSUME NEW w \in Workers, Crash(w)
      PROVE  ItemMove(x)
  BY <1>a, <1>4 DEF Crash, ClaimRollback
<1>5. ASSUME NEW l \in Lanes, StartMessage(l)
      PROVE  ItemMove(x)
  BY <1>a, <1>5 DEF StartMessage, storeVars
<1>6. ASSUME NEW l \in Lanes, NEW o \in Outcome, MarkRunning(l, o)
      PROVE  ItemMove(x)
  BY <1>a, <1>6 DEF MarkRunning, MarkJobRunning, storeVars
<1>7. ASSUME NEW l \in Lanes, NEW o \in Outcome, RequeueRunning(l, o)
      PROVE  ItemMove(x)
  <2>1. CASE o = "failed"
    BY <1>a, <1>7, <2>1 DEF RequeueRunning, storeVars
  <2>2. CASE o # "failed"
    <3>1. RequeueRunningItems(JobOfMsg(l))
      BY <1>7, <2>2 DEF RequeueRunning
    <3>2. CASE x \in WithStatus(JobOfMsg(l), "running")
      BY <1>7, <3>2 DEF WithStatus, ItemsOf, ItemMove
    <3>3. CASE x \notin WithStatus(JobOfMsg(l), "running")
      BY <3>1, <3>3 DEF RequeueRunningItems, ItemMove
    <3> QED BY <3>2, <3>3
  <2> QED BY <2>1, <2>2
<1>8. ASSUME NEW l \in Lanes, JoinPool(l)
      PROVE  ItemMove(x)
  BY <1>a, <1>8 DEF JoinPool, storeVars
<1>9. ASSUME NEW l \in Lanes, Recount(l)
      PROVE  ItemMove(x)
  BY <1>a, <1>9 DEF Recount, storeVars
<1>10. ASSUME NEW l \in Lanes, NEW o \in Outcome, Rewrite(l, o)
      PROVE  ItemMove(x)
  BY <1>a, <1>10 DEF Rewrite, RecomputeWrite, storeVars
<1>11. ASSUME NEW l \in Lanes, NEW o \in Outcome, DropMessage(l, o)
      PROVE  ItemMove(x)
  BY <1>a, <1>11 DEF DropMessage, storeVars
<1>12. ASSUME NEW l \in Lanes, NEW o \in Outcome, AckMessage(l, o)
      PROVE  ItemMove(x)
  BY <1>a, <1>12 DEF AckMessage, storeVars
<1>13. ASSUME NEW l \in Lanes, NEW t \in Pool, NEW i \in Items, SelectItem(l, t, i)
      PROVE  ItemMove(x)
  BY <1>a, <1>13 DEF SelectItem, ClaimSelect
<1>14. ASSUME NEW l \in Lanes, NEW t \in Pool, SelectNone(l, t)
      PROVE  ItemMove(x)
  BY <1>a, <1>14 DEF SelectNone, storeVars
<1>15. ASSUME NEW l \in Lanes, NEW t \in Pool, SelectError(l, t)
      PROVE  ItemMove(x)
  BY <1>a, <1>15 DEF SelectError, storeVars
<1>16. ASSUME NEW l \in Lanes, NEW t \in Pool, NEW o \in Outcome, CommitClaim(l, t, o)
      PROVE  ItemMove(x)
  <2>1. CASE thr[l][t].item = x
    BY <1>16, <2>1 DEF ItemMove
  <2>2. CASE thr[l][t].item # x
    BY <1>16, <2>2 DEF CommitClaim, ClaimCommit, ClaimRollback, ItemMove
  <2> QED BY <2>1, <2>2
<1>17. ASSUME NEW l \in Lanes, NEW t \in Pool, NEW o \in SendOutcome,
             DeadLetterItem(l, t, o)
      PROVE  ItemMove(x)
  BY <1>a, <1>17 DEF DeadLetterItem, storeVars
<1>18. ASSUME NEW l \in Lanes, NEW t \in Pool, NEW status \in TerminalItem,
             NEW o \in Outcome, FinishItem(l, t, status, o)
      PROVE  ItemMove(x)
  <2>1. CASE thr[l][t].item = x
    BY <1>18, <2>1 DEF ItemMove
  <2>2. CASE thr[l][t].item # x
    BY <1>18, <2>2 DEF FinishItem, UpdateItemTerminal, storeVars, ItemMove
  <2> QED BY <2>1, <2>2
<1> QED
  BY Moves, <1>1, <1>2, <1>3, <1>4, <1>5, <1>6, <1>7, <1>8, <1>9, <1>10,
     <1>11, <1>12, <1>13, <1>14, <1>15, <1>16, <1>17, <1>18 DEF ThreadStep

\* What can change the row of a job.
JobMove(x) ==
    \/ job'[x] = job[x]
    \/ DeleteJob(x) \/ \E o \in Outcome : CreateBatchJob(x, o)
    \/ \E l \in Lanes, o \in Outcome :
          JobOfMsg(l) = x /\ (MarkRunning(l, o) \/ Rewrite(l, o))

\* A job changes when it is created or deleted, and in a pass over it.
LEMMA JobMoves ==
    ASSUME TypeOK, [Next]_vars, NEW x \in Jobs PROVE JobMove(x)
<1> USE DEF TypeOK, StoreTypeOK
<1>a. ASSUME job' = job PROVE JobMove(x)
  BY <1>a DEF JobMove
<1>1. CASE Quiet
  BY <1>a, <1>1 DEF Quiet
<1>2. ASSUME NEW j \in Jobs, NEW o \in Outcome, CreateBatchJob(j, o)
      PROVE  JobMove(x)
  BY <1>2 DEF CreateBatchJob, CreateWithItemsAndOutbox, JobMove
<1>3. ASSUME NEW j \in Jobs, DeleteJob(j)
      PROVE  JobMove(x)
  <2>1. CASE x = j
    BY <1>3, <2>1 DEF JobMove
  <2>2. CASE x # j
    <3>1. job'[x] = job[x]
      BY <1>3, <2>2 DEF DeleteJob, CascadeDelete
    <3> QED BY <3>1 DEF JobMove
  <2> QED BY <2>1, <2>2
<1>4. ASSUME NEW w \in Workers, Crash(w)
      PROVE  JobMove(x)
  BY <1>a, <1>4 DEF Crash, ClaimRollback
<1>5. ASSUME NEW l \in Lanes, StartMessage(l)
      PROVE  JobMove(x)
  BY <1>a, <1>5 DEF StartMessage, storeVars
<1>6. ASSUME NEW l \in Lanes, NEW o \in Outcome, MarkRunning(l, o)
      PROVE  JobMove(x)
  <2>1. CASE JobOfMsg(l) = x
    BY <1>6, <2>1 DEF JobMove
  <2>2. CASE JobOfMsg(l) # x
    BY <1>6, <2>2 DEF MarkRunning, MarkJobRunning, storeVars, JobMove
  <2> QED BY <2>1, <2>2
<1>7. ASSUME NEW l \in Lanes, NEW o \in Outcome, RequeueRunning(l, o)
      PROVE  JobMove(x)
  BY <1>a, <1>7 DEF RequeueRunning, RequeueRunningItems, storeVars
<1>8. ASSUME NEW l \in Lanes, JoinPool(l)
      PROVE  JobMove(x)
  BY <1>a, <1>8 DEF JoinPool, storeVars
<1>9. ASSUME NEW l \in Lanes, Recount(l)
      PROVE  JobMove(x)
  BY <1>a, <1>9 DEF Recount, storeVars
<1>10. ASSUME NEW l \in Lanes, NEW o \in Outcome, Rewrite(l, o)
      PROVE  JobMove(x)
  <2>1. CASE JobOfMsg(l) = x
    BY <1>10, <2>1 DEF JobMove
  <2>2. CASE JobOfMsg(l) # x
    BY <1>10, <2>2 DEF Rewrite, RecomputeWrite, storeVars, JobMove
  <2> QED BY <2>1, <2>2
<1>11. ASSUME NEW l \in Lanes, NEW o \in Outcome, DropMessage(l, o)
      PROVE  JobMove(x)
  BY <1>a, <1>11 DEF DropMessage, storeVars
<1>12. ASSUME NEW l \in Lanes, NEW o \in Outcome, AckMessage(l, o)
      PROVE  JobMove(x)
  BY <1>a, <1>12 DEF AckMessage, storeVars
<1>13. ASSUME NEW l \in Lanes, NEW t \in Pool, NEW i \in Items, SelectItem(l, t, i)
      PROVE  JobMove(x)
  BY <1>a, <1>13 DEF SelectItem, ClaimSelect
<1>14. ASSUME NEW l \in Lanes, NEW t \in Pool, SelectNone(l, t)
      PROVE  JobMove(x)
  BY <1>a, <1>14 DEF SelectNone, storeVars
<1>15. ASSUME NEW l \in Lanes, NEW t \in Pool, SelectError(l, t)
      PROVE  JobMove(x)
  BY <1>a, <1>15 DEF SelectError, storeVars
<1>16. ASSUME NEW l \in Lanes, NEW t \in Pool, NEW o \in Outcome, CommitClaim(l, t, o)
      PROVE  JobMove(x)
  BY <1>a, <1>16 DEF CommitClaim, ClaimCommit, ClaimRollback
<1>17. ASSUME NEW l \in Lanes, NEW t \in Pool, NEW o \in SendOutcome,
             DeadLetterItem(l, t, o)
      PROVE  JobMove(x)
  BY <1>a, <1>17 DEF DeadLetterItem, storeVars
<1>18. ASSUME NEW l \in Lanes, NEW t \in Pool, NEW status \in TerminalItem,
             NEW o \in Outcome, FinishItem(l, t, status, o)
      PROVE  JobMove(x)
  BY <1>a, <1>18 DEF FinishItem, UpdateItemTerminal, storeVars
<1> QED
  BY Moves, <1>1, <1>2, <1>3, <1>4, <1>5, <1>6, <1>7, <1>8, <1>9, <1>10,
     <1>11, <1>12, <1>13, <1>14, <1>15, <1>16, <1>17, <1>18 DEF ThreadStep

\* How the queue of messages moves.
LEMMA QueueMoves ==
    ASSUME [Next]_vars
    PROVE  \/ UNCHANGED <<stream, cursor, pel>>
           \/ \E c \in Jobs \cup {NoJob} : Publish(c)
           \/ ReadGroup
           \/ \E l \in Lanes, o \in Outcome : AckMessage(l, o) /\ Ack(cur[l])
<1>1. ASSUME NEW j \in Jobs, ApiStep(j) \/ ApiCrash(j) \/ DeleteJob(j)
      PROVE  UNCHANGED <<stream, cursor, pel>> \/ \E c \in Jobs \cup {NoJob} : Publish(c)
  BY <1>1 DEF ApiStep, CreateBatchJob, ApiPublish, ApiMark, ApiCrash, DeleteJob, queueVars
<1>2. ASSUME NEW w \in Workers, DrainStep(w) \/ Crash(w)
      PROVE  UNCHANGED <<stream, cursor, pel>> \/ \E c \in Jobs \cup {NoJob} : Publish(c)
  BY <1>2 DEF DrainStep, DrainRead, DrainPublish, DrainMark, Crash, queueVars
<1>3. ASSUME NEW l \in Lanes, NEW o \in Outcome, Consume(l, o) PROVE ReadGroup
  BY <1>3 DEF Consume
<1>4. ASSUME NEW l \in Lanes, NEW o \in Outcome, AckMessage(l, o)
      PROVE  UNCHANGED <<stream, cursor, pel>> \/ Ack(cur[l])
  BY <1>4 DEF AckMessage, queueVars
<1>5. ASSUME NEW l \in Lanes, NEW o \in Outcome,
             \/ Claim(l) \/ StartMessage(l) \/ JoinPool(l) \/ Recount(l)
             \/ MarkRunning(l, o) \/ RequeueRunning(l, o) \/ Rewrite(l, o) \/ DropMessage(l, o)
      PROVE  UNCHANGED <<stream, cursor, pel>>
  BY <1>5 DEF Claim, StartMessage, JoinPool, Recount, MarkRunning, RequeueRunning, Rewrite,
     DropMessage, PublishDLQMsg, queueVars
<1>6. ASSUME NEW l \in Lanes, NEW t \in Pool, ThreadStep(l, t)
      PROVE  UNCHANGED <<stream, cursor, pel>>
  BY <1>6 DEF ThreadStep, SelectNone, SelectError, SelectItem, CommitClaim, DeadLetterItem,
     PublishDLQItem, FinishItem, queueVars
<1>7. ASSUME ForeignMessage PROVE Publish(NoJob)
  BY <1>7 DEF ForeignMessage
<1>8. CASE UNCHANGED vars
  BY <1>8 DEF vars, queueVars
<1>9. "ok" \in Outcome BY DEF Outcome
<1> QED BY <1>1, <1>2, <1>3, <1>4, <1>5, <1>6, <1>7, <1>8, <1>9 DEF Next, LaneStep

\* How outbox rows move: with their job, and to published by those who have
\* published.
LEMMA OutboxMoves ==
    ASSUME TypeOK, [Next]_vars, NEW j \in Jobs
    PROVE  \/ outbox'[j] = outbox[j]
           \/ DeleteJob(j) \/ \E o \in Outcome : CreateBatchJob(j, o)
           \/ /\ api[j] = "mark" \/ \E w \in Workers : marking[w] = j
              /\ outbox'[j] = "published"
<1> USE DEF TypeOK, StoreTypeOK
<1>1. ASSUME NEW k \in Jobs, ApiStep(k) \/ ApiCrash(k) \/ DeleteJob(k)
      PROVE  \/ outbox'[j] = outbox[j]
             \/ DeleteJob(j) \/ \E o \in Outcome : CreateBatchJob(j, o)
             \/ api[j] = "mark" /\ outbox'[j] = "published"
  <2>1. CASE k = j
    BY <1>1, <2>1 DEF ApiStep, ApiPublish, ApiMark, ApiCrash, MarkOutboxPublished, storeVars
  <2>2. CASE k # j
    BY <1>1, <2>2 DEF ApiStep, CreateBatchJob, CreateWithItemsAndOutbox, ApiPublish, ApiMark,
       ApiCrash, DeleteJob, CascadeDelete, MarkOutboxPublished, storeVars
  <2> QED BY <2>1, <2>2
<1>2. ASSUME NEW w \in Workers, DrainStep(w) \/ Crash(w)
      PROVE  outbox'[j] = outbox[j] \/ (marking[w] = j /\ outbox'[j] = "published")
  BY <1>2 DEF DrainStep, DrainRead, DrainPublish, DrainMark, Crash, ClaimRollback,
     MarkOutboxPublished, storeVars
<1>3. ASSUME NEW l \in Lanes, LaneStep(l) PROVE outbox' = outbox
  <2>1. ASSUME NEW t \in Pool, ThreadStep(l, t) PROVE outbox' = outbox
    BY <2>1 DEF ThreadStep, SelectNone, SelectError, SelectItem, ClaimSelect, CommitClaim,
       ClaimCommit, ClaimRollback, DeadLetterItem, FinishItem, UpdateItemTerminal, storeVars
  <2> QED
    BY <1>3, <2>1 DEF LaneStep, Claim, StartMessage, JoinPool, Recount, Consume, MarkRunning,
       MarkJobRunning, RequeueRunning, RequeueRunningItems, Rewrite, RecomputeWrite,
       DropMessage, AckMessage, storeVars
<1>4. ASSUME ForeignMessage PROVE outbox' = outbox
  BY <1>4 DEF ForeignMessage, storeVars
<1>5. CASE UNCHANGED vars
  BY <1>5 DEF vars, storeVars
<1> QED BY <1>1, <1>2, <1>3, <1>4, <1>5 DEF Next

\* What can change the dead-letter stream.
DLQMove ==
    /\ dlqMsgs \subseteq dlqMsgs'
    /\ \/ dlqItems' = dlqItems
       \/ \E l \in Lanes, t \in Pool, o \in SendOutcome :
             DeadLetterItem(l, t, o) /\ PublishDLQItem(thr[l][t].item)

\* Items enter it by DeadLetterItem alone, and nothing leaves it.
LEMMA DLQMoves ==
    ASSUME [Next]_vars PROVE DLQMove
<1>1. CASE Quiet
  BY <1>1 DEF Quiet, DLQMove
<1>2. ASSUME NEW j \in Jobs, NEW o \in Outcome, CreateBatchJob(j, o)
      PROVE  DLQMove
  BY <1>2 DEF CreateBatchJob, queueVars, DLQMove
<1>3. ASSUME NEW j \in Jobs, DeleteJob(j)
      PROVE  DLQMove
  BY <1>3 DEF DeleteJob, queueVars, DLQMove
<1>4. ASSUME NEW w \in Workers, Crash(w)
      PROVE  DLQMove
  BY <1>4 DEF Crash, queueVars, DLQMove
<1>5. ASSUME NEW l \in Lanes, StartMessage(l)
      PROVE  DLQMove
  BY <1>5 DEF StartMessage, queueVars, DLQMove
<1>6. ASSUME NEW l \in Lanes, NEW o \in Outcome, MarkRunning(l, o)
      PROVE  DLQMove
  BY <1>6 DEF MarkRunning, queueVars, DLQMove
<1>7. ASSUME NEW l \in Lanes, NEW o \in Outcome, RequeueRunning(l, o)
      PROVE  DLQMove
  BY <1>7 DEF RequeueRunning, queueVars, DLQMove
<1>8. ASSUME NEW l \in Lanes, JoinPool(l)
      PROVE  DLQMove
  BY <1>8 DEF JoinPool, queueVars, DLQMove
<1>9. ASSUME NEW l \in Lanes, Recount(l)
      PROVE  DLQMove
  BY <1>9 DEF Recount, queueVars, DLQMove
<1>10. ASSUME NEW l \in Lanes, NEW o \in Outcome, Rewrite(l, o)
      PROVE  DLQMove
  BY <1>10 DEF Rewrite, queueVars, DLQMove
<1>11. ASSUME NEW l \in Lanes, NEW o \in Outcome, DropMessage(l, o)
      PROVE  DLQMove
  BY <1>11 DEF DropMessage, PublishDLQMsg, queueVars, DLQMove
<1>12. ASSUME NEW l \in Lanes, NEW o \in Outcome, AckMessage(l, o)
      PROVE  DLQMove
  BY <1>12 DEF AckMessage, Ack, queueVars, DLQMove
<1>13. ASSUME NEW l \in Lanes, NEW t \in Pool, NEW i \in Items, SelectItem(l, t, i)
      PROVE  DLQMove
  BY <1>13 DEF SelectItem, queueVars, DLQMove
<1>14. ASSUME NEW l \in Lanes, NEW t \in Pool, SelectNone(l, t)
      PROVE  DLQMove
  BY <1>14 DEF SelectNone, queueVars, DLQMove
<1>15. ASSUME NEW l \in Lanes, NEW t \in Pool, SelectError(l, t)
      PROVE  DLQMove
  BY <1>15 DEF SelectError, queueVars, DLQMove
<1>16. ASSUME NEW l \in Lanes, NEW t \in Pool, NEW o \in Outcome, CommitClaim(l, t, o)
      PROVE  DLQMove
  BY <1>16 DEF CommitClaim, queueVars, DLQMove
<1>17. ASSUME NEW l \in Lanes, NEW t \in Pool, NEW o \in SendOutcome,
             DeadLetterItem(l, t, o)
      PROVE  DLQMove
  BY <1>17 DEF DeadLetterItem, PublishDLQItem, queueVars, DLQMove
<1>18. ASSUME NEW l \in Lanes, NEW t \in Pool, NEW status \in TerminalItem,
             NEW o \in Outcome, FinishItem(l, t, status, o)
      PROVE  DLQMove
  BY <1>18 DEF FinishItem, queueVars, DLQMove
<1> QED
  BY Moves, <1>1, <1>2, <1>3, <1>4, <1>5, <1>6, <1>7, <1>8, <1>9, <1>10,
     <1>11, <1>12, <1>13, <1>14, <1>15, <1>16, <1>17, <1>18 DEF ThreadStep

\* An unacked message stays unacked until somebody acks it.
LEMMA AckedByHolder ==
    ASSUME TypeOK, [Next]_vars, NEW m \in Unacked, m \notin Unacked'
    PROVE  \E l \in Lanes, o \in Outcome : AckMessage(l, o) /\ cur[l] = m
<1> USE DEF TypeOK, QueueTypeOK
<1>1. CASE UNCHANGED <<stream, cursor, pel>>
  BY <1>1 DEF Unacked, Unread, Msgs
<1>2. ASSUME NEW c \in Jobs \cup {NoJob}, Publish(c) PROVE FALSE
  <2>1. Msgs \subseteq Msgs'
    BY StreamGrows
  <2> QED BY <1>2, <2>1 DEF Publish, Unacked, Unread
<1>3. CASE ReadGroup
  <2>1. pel \cup NextBatch = pel' /\ stream' = stream
    BY <1>3 DEF ReadGroup
  <2>2. CASE m \in pel \/ m <= cursor + ReadCount
    BY <2>1, <2>2 DEF NextBatch, Unacked
  <2>3. CASE m \in Unread /\ ~(m <= cursor + ReadCount)
    <3>1. m \in 1..Len(stream) /\ cursor \in Nat /\ ReadCount \in Nat
      BY <2>3, ReadCountAssumption DEF Unread, Msgs
    <3>2. cursor' = cursor + ReadCount
      BY <1>3, <2>3, <3>1 DEF ReadGroup
    <3>3. m \in Unread'
      BY <2>1, <2>3, <3>1, <3>2 DEF Unread, Msgs
    <3> QED BY <3>3 DEF Unacked
  <2> QED BY <2>2, <2>3 DEF Unacked
<1>4. ASSUME NEW l \in Lanes, NEW o \in Outcome, AckMessage(l, o), Ack(cur[l])
      PROVE  cur[l] = m
  BY <1>4 DEF Ack, Unacked, Unread, Msgs
<1> QED BY <1>1, <1>2, <1>3, <1>4, QueueMoves

=============================================================================
