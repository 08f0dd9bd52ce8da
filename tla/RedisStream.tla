---------------------------- MODULE RedisStream -----------------------------
(***************************************************************************)
(* What StreamQueue leaves out of internal/redisstore/queue.go: the cap on *)
(* the stream, the creation of the consumer group, the idle time of        *)
(* pending entries and the limits of XAUTOCLAIM.  An action is one Redis   *)
(* command as the code issues it; what Redis does with it (approximate     *)
(* trimming from the oldest entry on, a pending list in id order, a scan   *)
(* that looks at ScanCount entries at most) is external.                   *)
(*                                                                         *)
(* Time is counted in reclaim intervals.  Which handler a delivery goes    *)
(* to, and whether it ends in an ack, is left open.                        *)
(***************************************************************************)
EXTENDS Integers, Sequences, FiniteSets

CONSTANTS
    Payloads,      \* contents of messages
    MaxLen,        \* maxStreamLen
    BatchCount,    \* defaultReadCount, the COUNT of both commands
    ScanCount,     \* pending entries one XAUTOCLAIM looks at (external: 10 * COUNT)
    MinIdle,       \* ReclaimMinIdle, in reclaim intervals
    MaxPublished   \* bound: messages ever published

ASSUME StreamAssumption ==
    /\ {MaxLen, BatchCount, ScanCount, MinIdle, MaxPublished} \subseteq Nat \ {0}
    /\ BatchCount <= ScanCount

VARIABLES
    log,      \* contents of every entry ever added; its position is its id
    first,    \* the oldest entry that is not trimmed
    group,    \* whether the consumer group exists
    read,     \* last id delivered to the group
    idle,     \* pending entries list: the idle time of each entry, capped
    acked,    \* ids acknowledged
    due       \* the reclaim ticker has fired

streamVars == <<log, first, group, read, idle, acked, due>>

StreamInit ==
    /\ log = <<>> /\ first = 1 /\ group = FALSE /\ read = 0
    /\ idle = <<>> /\ acked = {} /\ due = FALSE

Pending == DOMAIN idle
Oldest(S, n) == {m \in S : Cardinality({k \in S : k <= m}) <= n}
Trimmed(m) == m < first

-----------------------------------------------------------------------------
\* Publish: MAXLEN ~ leaves at least MaxLen entries and trims what Redis finds
\* cheap to trim, pending or not.  The client's resend is one more XADD.
XAdd(c) ==
    /\ Len(log) < MaxPublished
    /\ log' = Append(log, c)
    /\ \E f \in {first} \cup (first .. Len(log) + 2 - MaxLen) : first' = f
    /\ UNCHANGED <<group, read, idle, acked, due>>

\* Mutant of XGroupCreate: a group that starts at the end of the stream.
XGroupCreateAtEnd ==
    /\ ~group
    /\ group' = TRUE
    /\ read' = Len(log)
    /\ UNCHANGED <<log, first, idle, acked, due>>

\* ensureGroup: from offset 0; BUSYGROUP means that it exists.
XGroupCreate ==
    /\ ~group
    /\ group' = TRUE
    /\ read' = 0
    /\ UNCHANGED <<log, first, idle, acked, due>>

\* Consume: the oldest entries not delivered yet become pending.  Entries that
\* were trimmed before are passed over.
Unseen == {m \in DOMAIN log : m > read /\ ~Trimmed(m)}

\* Mutant of XReadGroup: NOACK, nothing becomes pending.
XReadGroupNoAck ==
    /\ group /\ Unseen # {}
    /\ LET batch == Oldest(Unseen, BatchCount) IN
       read' = CHOOSE m \in batch : \A k \in batch : k <= m
    /\ UNCHANGED <<log, first, group, idle, acked, due>>

XReadGroup ==
    /\ group /\ Unseen # {}
    /\ LET batch == Oldest(Unseen, BatchCount) IN
       /\ read' = CHOOSE m \in batch : \A k \in batch : k <= m
       /\ idle' = [m \in Pending \cup batch |-> IF m \in batch THEN 0 ELSE idle[m]]
    /\ UNCHANGED <<log, first, group, acked, due>>

XAck(m) ==
    /\ m \in Pending
    /\ acked' = acked \cup {m}
    /\ idle' = [k \in Pending \ {m} |-> idle[k]]
    /\ UNCHANGED <<log, first, group, read, due>>

\* Claim: XAUTOCLAIM from "0".  Entries that have been trimmed leave the pending
\* list; idle ones are handed over and their idle time starts afresh.
Claimable == {m \in Oldest(Pending, ScanCount) : Trimmed(m) \/ idle[m] >= MinIdle}

\* Mutant of Claimed: the newest first.
ClaimedNewest == {m \in Claimable : Cardinality({k \in Claimable : k >= m}) <= BatchCount}

Claimed == Oldest(Claimable, BatchCount)

XAutoClaim ==
    /\ due /\ group
    /\ due' = FALSE
    /\ idle' = [m \in Pending \ {k \in Claimed : Trimmed(k)} |->
                   IF m \in Claimed THEN 0 ELSE idle[m]]
    /\ UNCHANGED <<log, first, group, read, acked>>

\* One reclaim interval passes.  A ticker whose loop is busy drops its tick.
Tick ==
    /\ due' = TRUE
    /\ idle' = [m \in Pending |-> IF idle[m] < MinIdle THEN idle[m] + 1 ELSE MinIdle]
    /\ UNCHANGED <<log, first, group, read, acked>>

StreamNext ==
    \/ \E c \in Payloads : XAdd(c)
    \/ XGroupCreate \/ XReadGroup \/ XAutoClaim \/ Tick
    \/ \E m \in Pending : XAck(m)

\* Time passes, and the reclaim loop, however long its handlers take, gets to
\* its next tick.
StreamFairness == WF_streamVars(Tick) /\ WF_streamVars(XAutoClaim)

-----------------------------------------------------------------------------
\* A message is acked, waits to be delivered, is pending, or at least MaxLen
\* newer ones have been published: a worker that starts after the gateway
\* consumes the backlog, and only the cap takes a message away (queue.go:
\* "messages published before any worker ever ran are still delivered").
NoneDropped ==
    \A m \in DOMAIN log :
        \/ m \in acked \cup Pending \/ m \in Unseen
        \/ Len(log) >= m + MaxLen

\* As long as nothing but acked messages has been trimmed, the stream behaves
\* as the abstract queue that the pipeline is checked with.
Q == INSTANCE StreamQueue WITH
        stream <- log, cursor <- read, pel <- Pending,
        dlqItems <- <<>>, dlqMsgs <- {}, ReadCount <- BatchCount
Intact == \A m \in 1 .. first - 1 : m \in acked
StreamImplementsQueue ==
    /\ Q!QueueInit
    /\ [][Intact' => Q!QueueNext(Payloads) \/ UNCHANGED Q!queueVars]_streamVars

\* A pending entry that stays idle is claimed again, if fewer than BatchCount
\* older ones are pending (Claim: "a later Claim finds them again").
Near(m) == /\ m \in Pending
           /\ Cardinality({k \in Pending : k < m}) < BatchCount
Reclaimed ==
    \A m \in 1 .. MaxPublished :
        Near(m) ~> (m \notin Pending \/ idle[m] = 0)

-----------------------------------------------------------------------------
\* reclaimOnce: "claim everything pending longer than ReclaimMinIdle".
AllReclaimed ==
    \A m \in 1 .. MaxPublished : m \in Pending ~> (m \notin Pending \/ idle[m] = 0)

\* maxStreamLen: "a message is never trimmed while it is still un-acked in
\* practice because the cap dwarfs the in-flight set".
CapDwarfsInFlight ==
    Cardinality({m \in DOMAIN log : m \notin acked}) < MaxLen => Intact
=============================================================================
