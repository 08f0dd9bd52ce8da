---------------------------- MODULE StreamQueue -----------------------------
(***************************************************************************)
(* The job stream of internal/redisstore/queue.go: a Redis stream read by  *)
(* one consumer group, and its dead-letter stream.  A message is its       *)
(* position in the stream; its content is a job id, or NoJob when the      *)
(* entry carries none that parses.  The group keeps the position it has    *)
(* delivered up to and the pending entries list: delivered, not yet acked. *)
(* The owner of a pending entry is left out, since neither XACK nor        *)
(* XAUTOCLAIM looks at it.                                                 *)
(***************************************************************************)
EXTENDS Integers, Sequences

CONSTANT
    ReadCount    \* entries that one XREADGROUP or XAUTOCLAIM returns at most

ASSUME ReadCountAssumption == ReadCount \in Nat \ {0}

VARIABLES
    stream,      \* the contents published so far
    cursor,      \* last position delivered to the group
    pel,         \* pending entries list
    dlqItems,    \* dead-letter entries about exhausted items, counted
    dlqMsgs      \* messages dead-lettered as a whole

queueVars == <<stream, cursor, pel, dlqItems, dlqMsgs>>

Msgs == DOMAIN stream
Unread == {m \in Msgs : m > cursor}
Unacked == Unread \cup pel

\* XADD.  What trimming at maxStreamLen does is in RedisStream.  A command whose
\* reply is lost may be sent again by the client (external: go-redis retries with
\* its default settings), and then adds a second entry; the other commands repeat
\* without harm.
Publish(c) ==
    /\ stream' = Append(stream, c)
    /\ UNCHANGED <<cursor, pel, dlqItems, dlqMsgs>>

\* XREADGROUP ">": the oldest undelivered entries become pending.
NextBatch == {m \in Unread : m <= cursor + ReadCount}

ReadGroup ==
    /\ Unread # {}
    /\ cursor' = IF cursor + ReadCount < Len(stream)
                 THEN cursor + ReadCount ELSE Len(stream)
    /\ pel' = pel \cup NextBatch
    /\ UNCHANGED <<stream, dlqItems, dlqMsgs>>

\* XACK.
Ack(m) ==
    /\ pel' = pel \ {m}
    /\ UNCHANGED <<stream, cursor, dlqItems, dlqMsgs>>

\* PublishDLQ, for one exhausted item and for a message nobody can process.
PublishDLQItem(i) ==
    /\ dlqItems' = [dlqItems EXCEPT ![i] = @ + 1]
    /\ UNCHANGED <<stream, cursor, pel, dlqMsgs>>

PublishDLQMsg(m) ==
    /\ dlqMsgs' = dlqMsgs \cup {m}
    /\ UNCHANGED <<stream, cursor, pel, dlqItems>>

-----------------------------------------------------------------------------
(* The interface Queue as a specification of its own, with contents taken  *)
(* from C: any client, any order.  Claiming a pending message hands it     *)
(* over and changes nothing here.                                          *)

QueueInit ==
    /\ stream = <<>> /\ cursor = 0 /\ pel = {} /\ dlqMsgs = {}
    /\ dlqItems = [i \in DOMAIN dlqItems |-> 0]

QueueNext(C) ==
    \/ \E c \in C : Publish(c)
    \/ ReadGroup
    \/ \E m \in pel : Ack(m)
    \/ \E m \in Msgs : PublishDLQMsg(m)
    \/ \E i \in DOMAIN dlqItems : PublishDLQItem(i)
=============================================================================
