------------------------------ MODULE MemQueue ------------------------------
(***************************************************************************)
(* internal/redisstore/memqueue.go: the in-memory Queue of the tests.  One *)
(* mutex guards every method, so a method is a step.  Message ids count    *)
(* from 1; the slice acked and the counters that tests read are left out.  *)
(***************************************************************************)
EXTENDS Integers, Sequences

CONSTANTS
    JobIds,     \* contents of messages
    MaxNextID   \* bound: messages ever published

ASSUME MemQueueAssumption == MaxNextID \in Nat

VARIABLES
    nextID,      \* id of the last message published
    published,   \* contents published
    backlog,     \* the slice pending: ids not delivered yet
    inflight,    \* for each id delivered and not acked, whether it is idle
    dlq,         \* ids dead-lettered
    publishErr   \* whether an injected error makes Publish fail

memQueueVars == <<nextID, published, backlog, inflight, dlq, publishErr>>

MemQueueInit ==
    /\ nextID = 0 /\ published = <<>> /\ backlog = <<>>
    /\ inflight = <<>> /\ dlq = {} /\ publishErr = FALSE

SetPublishErr ==
    /\ publishErr' = ~publishErr
    /\ UNCHANGED <<nextID, published, backlog, inflight, dlq>>

Publish(j) ==
    /\ nextID < MaxNextID
    /\ ~publishErr
    /\ nextID' = nextID + 1
    /\ backlog' = Append(backlog, nextID + 1)
    /\ published' = Append(published, j)
    /\ UNCHANGED <<inflight, dlq, publishErr>>

\* Mutant of takeOne: the newest message first.
takeNewest ==
    /\ backlog # <<>>
    /\ backlog' = SubSeq(backlog, 1, Len(backlog) - 1)
    /\ inflight' = [m \in DOMAIN inflight \cup {backlog[Len(backlog)]} |->
                       m \in DOMAIN inflight /\ inflight[m]]
    /\ UNCHANGED <<nextID, published, dlq, publishErr>>

\* Consume delivers one message at a time.
takeOne ==
    /\ backlog # <<>>
    /\ backlog' = Tail(backlog)
    /\ inflight' = [m \in DOMAIN inflight \cup {Head(backlog)} |->
                       m \in DOMAIN inflight /\ inflight[m]]
    /\ UNCHANGED <<nextID, published, dlq, publishErr>>

\* Acking an unknown message changes nothing.
Ack(m) ==
    /\ inflight' = [k \in DOMAIN inflight \ {m} |-> inflight[k]]
    /\ UNCHANGED <<nextID, published, backlog, dlq, publishErr>>

\* Claim returns every idle message and restarts its clock.
Claim ==
    /\ inflight' = [m \in DOMAIN inflight |-> FALSE]
    /\ UNCHANGED <<nextID, published, backlog, dlq, publishErr>>

PublishDLQ(m) ==
    /\ dlq' = dlq \cup {m}
    /\ UNCHANGED <<nextID, published, backlog, inflight, publishErr>>

\* minIdle passes.
Elapse ==
    /\ inflight' = [m \in DOMAIN inflight |-> TRUE]
    /\ UNCHANGED <<nextID, published, backlog, dlq, publishErr>>

MemQueueNext ==
    \/ SetPublishErr \/ takeOne \/ Claim \/ Elapse
    \/ \E j \in JobIds : Publish(j)
    \/ \E m \in 1 .. nextID : Ack(m) \/ PublishDLQ(m)

-----------------------------------------------------------------------------
\* "It mirrors the Redis Streams semantics that matter to correctness": the
\* slice and the map implement the abstract queue, one message to a read.
\* Delivered are the ids that have left the slice.
Abstract == INSTANCE StreamQueue WITH
        stream <- published, cursor <- nextID - Len(backlog),
        pel <- DOMAIN inflight, dlqItems <- <<>>, dlqMsgs <- dlq,
        ReadCount <- 1
MemQueueImplementsQueue ==
    Abstract!QueueInit /\ [][Abstract!QueueNext(JobIds)]_(Abstract!queueVars)
=============================================================================
