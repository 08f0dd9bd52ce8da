---------------------------- MODULE AsyncLedger -----------------------------
(***************************************************************************)
(* The audit ledger (internal/api/ledger.go) in the life of the gateway    *)
(* process (cmd/gateway-api/main.go): handlers record rows, workers insert *)
(* them, and shutdown drains the handlers, closes the ledger, closes the   *)
(* connection pool that both use, and exits.  A row stands for the request *)
(* it records.                                                             *)
(***************************************************************************)
EXTENDS Integers, Sequences, FiniteSets

CONSTANTS
    Rows,      \* requests, each recording one row at most
    Workers,   \* ledgerWorkers
    Buffer,    \* ledgerBuffer
    NoRow

ASSUME LedgerAssumption ==
    Buffer \in Nat \ {0} /\ Workers # {} /\ NoRow \notin Rows /\ Rows \cap Workers = {}

VARIABLES
    phase,     \* serving, draining, closing, closed, emptying, exited
    late,      \* Close gave up waiting for the workers
    active,    \* requests whose handler runs
    conns,     \* handlers and workers that hold a connection of the pool
    queue,     \* the buffered channel
    worker,    \* each worker's place in its loop and the row it inserts
    fate,      \* what became of each row
    early      \* rows accepted before Close

ledgerVars == <<phase, late, active, conns, queue, worker, fate, early>>

LedgerInit ==
    /\ phase = "serving" /\ late = FALSE
    /\ active = {} /\ conns = {} /\ queue = <<>> /\ early = {}
    /\ worker = [w \in Workers |-> [pc |-> "wait", row |-> NoRow]]
    /\ fate = [r \in Rows |-> "none"]

Done == phase \in {"closing", "closed", "emptying"}     \* l.done is closed
PoolClosed == phase \in {"emptying", "exited"}           \* Acquire fails

-----------------------------------------------------------------------------
BeginRequest(r) ==
    /\ phase = "serving" /\ fate[r] = "none" /\ r \notin active
    /\ active' = active \cup {r}
    /\ UNCHANGED <<phase, late, conns, queue, worker, fate, early>>

\* A call of the store, for whatever the handler needs.  It has no deadline but the
\* request's context, which lasts until the handler returns or its client goes.
QueryStarts(r) ==
    /\ r \in active \ conns /\ ~PoolClosed
    /\ conns' = conns \cup {r}
    /\ UNCHANGED <<phase, late, active, queue, worker, fate, early>>

QueryEnds(r) ==
    /\ r \in active \cap conns /\ phase # "exited"
    /\ conns' = conns \ {r}
    /\ UNCHANGED <<phase, late, active, queue, worker, fate, early>>

\* A handler that reaches no backend records nothing.
EndRequest(r) ==
    /\ r \in active \ conns /\ phase # "exited"
    /\ active' = active \ {r}
    /\ UNCHANGED <<phase, late, conns, queue, worker, fate, early>>

\* Record never blocks: a full queue drops the row.
Record(r) ==
    /\ phase # "exited" /\ r \in active \ conns
    /\ active' = active \ {r}
    /\ IF Len(queue) < Buffer
       THEN /\ queue' = Append(queue, r)
            /\ fate' = [fate EXCEPT ![r] = "accepted"]
            /\ early' = IF Done THEN early ELSE early \cup {r}
       ELSE fate' = [fate EXCEPT ![r] = "dropped"] /\ UNCHANGED <<queue, early>>
    /\ UNCHANGED <<phase, late, conns, worker>>

\* worker: the outer select takes a row or, once done is closed, may turn to the
\* drain loop; the drain loop takes rows until the queue is empty and returns.
Take(w) ==
    /\ phase # "exited" /\ queue # <<>>
    /\ \/ /\ worker[w].pc = "wait"
          /\ worker' = [worker EXCEPT ![w] = [pc |-> "insert", row |-> Head(queue)]]
       \/ /\ worker[w].pc = "drain"
          /\ worker' = [worker EXCEPT ![w] = [pc |-> "flush", row |-> Head(queue)]]
    /\ queue' = Tail(queue)
    /\ conns' = IF PoolClosed THEN conns ELSE conns \cup {w}
    /\ UNCHANGED <<phase, late, active, fate, early>>

\* Mutant of TurnToDrain: a worker returns as soon as done is closed.
ReturnOnDone(w) ==
    /\ worker[w].pc = "wait" /\ Done
    /\ worker' = [worker EXCEPT ![w].pc = "returned"]
    /\ UNCHANGED <<phase, late, active, conns, queue, fate, early>>

TurnToDrain(w) ==
    /\ worker[w].pc = "wait" /\ Done
    /\ worker' = [worker EXCEPT ![w].pc = "drain"]
    /\ UNCHANGED <<phase, late, active, conns, queue, fate, early>>

Return(w) ==
    /\ phase # "exited" /\ worker[w].pc = "drain" /\ queue = <<>>
    /\ worker' = [worker EXCEPT ![w].pc = "returned"]
    /\ UNCHANGED <<phase, late, active, conns, queue, fate, early>>

\* Mutant of Insert: a failing insert ends the worker.
InsertOrReturn(w) ==
    /\ phase # "exited" /\ worker[w].pc \in {"insert", "flush"}
    /\ \E f \in {"written", "failed"} :
          /\ f = "written" => w \in conns
          /\ fate' = [fate EXCEPT ![worker[w].row] = f]
          /\ worker' = [worker EXCEPT ![w] =
                [pc |-> IF f = "failed" THEN "returned"
                        ELSE IF worker[w].pc = "insert" THEN "wait" ELSE "drain",
                 row |-> NoRow]]
    /\ conns' = conns \ {w}
    /\ UNCHANGED <<phase, late, active, queue, early>>

\* insert, bounded by its timeout; an error is logged.  Without a connection
\* there is no row.
Insert(w) ==
    /\ phase # "exited" /\ worker[w].pc \in {"insert", "flush"}
    /\ \E f \in {"written", "failed"} :
          /\ f = "written" => w \in conns
          /\ fate' = [fate EXCEPT ![worker[w].row] = f]
    /\ worker' = [worker EXCEPT ![w] =
          [pc |-> IF worker[w].pc = "insert" THEN "wait" ELSE "drain", row |-> NoRow]]
    /\ conns' = conns \ {w}
    /\ UNCHANGED <<phase, late, active, queue, early>>

-----------------------------------------------------------------------------
\* serve returns: after a signal once the handlers are done or shutdownTimeout
\* has passed (handlers go on), or at once when listening fails.
Signal ==
    /\ phase = "serving"
    /\ phase' = "draining"
    /\ UNCHANGED <<late, active, conns, queue, worker, fate, early>>

\* Mutant of CloseLedger: shutdown waits for the handlers without a timeout.
CloseAfterHandlers ==
    /\ phase \in {"serving", "draining"} /\ active = {}
    /\ phase' = "closing"
    /\ UNCHANGED <<late, active, conns, queue, worker, fate, early>>

CloseLedger ==
    /\ phase \in {"serving", "draining"}
    /\ phase' = "closing"
    /\ UNCHANGED <<late, active, conns, queue, worker, fate, early>>

\* Close returns when every worker has, or after its own timeout.
CloseReturns ==
    /\ phase = "closing"
    /\ phase' = "closed"
    /\ late' = \E w \in Workers : worker[w].pc # "returned"
    /\ UNCHANGED <<active, conns, queue, worker, fate, early>>

\* pool.Close (external, pgxpool): no connection is given out any more, and it
\* returns when those in use have been given back, however long that takes.
PoolCloses ==
    /\ phase = "closed"
    /\ phase' = "emptying"
    /\ UNCHANGED <<late, active, conns, queue, worker, fate, early>>

Exit ==
    /\ phase = "emptying" /\ conns = {}
    /\ phase' = "exited"
    /\ UNCHANGED <<late, active, conns, queue, worker, fate, early>>

WorkerStep(w) == Take(w) \/ TurnToDrain(w) \/ Return(w) \/ Insert(w)
Shutdown == CloseReturns \/ PoolCloses \/ Exit \/ (phase = "draining" /\ CloseLedger)

LedgerNext ==
    \/ \E r \in Rows : BeginRequest(r) \/ QueryStarts(r) \/ QueryEnds(r)
                       \/ EndRequest(r) \/ Record(r)
    \/ \E w \in Workers : WorkerStep(w)
    \/ Signal \/ CloseLedger \/ CloseReturns \/ PoolCloses \/ Exit

LedgerSpec == LedgerInit /\ [][LedgerNext]_ledgerVars

\* Workers run, every insert ends by its timeout, and shutdown's timeouts expire.
\* Nothing is assumed of handlers, whose store calls have no deadline.
LedgerFairSpec ==
    /\ LedgerSpec
    /\ \A w \in Workers : WF_ledgerVars(WorkerStep(w))
    /\ WF_ledgerVars(Shutdown)

-----------------------------------------------------------------------------
\* A row accepted before Close does not stay behind, whatever fails and however
\* many rows are dropped around it: it is written or its failure is logged, unless
\* the process exits first.
RowsSettle ==
    \A r \in Rows :
        r \in early ~> fate[r] \in {"written", "failed"} \/ phase = "exited"

\* "Records already accepted are drained on Close": when Close returns without
\* its warning, every row accepted before it has been written or its failure
\* logged.
DrainedOnClose ==
    phase \in {"closed", "emptying", "exited"} /\ ~late =>
        \A r \in early : fate[r] \in {"written", "failed"}

\* A signal ends the process, however slow the inserts are and whether or not the
\* handlers ever end, as long as no handler keeps its connection for ever.
ShutdownEnds ==
    (\A r \in Rows : []<>(r \notin conns))
    => (phase = "draining" ~> phase = "exited")

-----------------------------------------------------------------------------
(* What comments promise and some behaviours do not keep.                  *)

\* shutdownTimeout "bounds how long graceful shutdown waits for in-flight requests
\* to finish before the process exits"; Close: "a stuck Postgres cannot hang the
\* process".
ExitBounded == phase = "draining" ~> phase = "exited"

\* Record: "or the ledger is closing, the row is dropped with a warning"; Close:
\* "Rows arriving after Close are dropped".
LateRowsDropped ==
    [][\A r \in active : Done /\ fate'[r] # fate[r] => fate'[r] = "dropped"]_ledgerVars
=============================================================================
