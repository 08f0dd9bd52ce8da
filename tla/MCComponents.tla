---------------------------- MODULE MCComponents ----------------------------
(***************************************************************************)
(* Parts that share no state, model-checked side by side: the in-memory    *)
(* store and queue of the tests, the stream in Redis, the way of a request *)
(* to its work, the decoding of a batch, and the audit ledger.  "part"     *)
(* says whose behaviour this is; the others rest.                          *)
(***************************************************************************)
EXTENDS MCMemStore, RedisStream, MemQueue, RateLimit, BatchDecode, AsyncLedger

VARIABLE part

allVars == <<memStoreVars, streamVars, memQueueVars, rateVars, decodeVars, ledgerVars, part>>

OfMemStore == /\ part = "MemStore"
              /\ UNCHANGED <<streamVars, memQueueVars, rateVars, decodeVars, ledgerVars, part>>
OfStream == /\ part = "RedisStream"
            /\ UNCHANGED <<memStoreVars, memQueueVars, rateVars, decodeVars, ledgerVars, part>>
OfMemQueue == /\ part = "MemQueue"
              /\ UNCHANGED <<memStoreVars, streamVars, rateVars, decodeVars, ledgerVars, part>>
OfRate == /\ part = "RateLimit"
          /\ UNCHANGED <<memStoreVars, streamVars, memQueueVars, decodeVars, ledgerVars, part>>
OfDecode == /\ part = "BatchDecode"
            /\ UNCHANGED <<memStoreVars, streamVars, memQueueVars, rateVars, ledgerVars, part>>
OfLedger == /\ part = "AsyncLedger"
            /\ UNCHANGED <<memStoreVars, streamVars, memQueueVars, rateVars, decodeVars, part>>

Init ==
    /\ MemStoreInit /\ StreamInit /\ MemQueueInit /\ RateInit /\ LedgerInit
    /\ \/ part \in {"MemStore", "RedisStream", "MemQueue", "RateLimit", "AsyncLedger"}
          /\ entries = <<>> /\ next = 1 /\ seen = {} /\ model = "" /\ verdict = "open"
       \/ part = "BatchDecode" /\ DecodeInit

Next ==
    \/ MemStoreNext /\ OfMemStore
    \/ StreamNext /\ OfStream
    \/ MemQueueNext /\ OfMemQueue
    \/ RateNext /\ OfRate
    \/ DecodeNext /\ OfDecode
    \/ LedgerNext /\ OfLedger

\* The fairness of each part: time passes, the reclaim loop gets to its tick, and
\* the ledger's workers and the timeouts of a shutdown run.
Fairness ==
    /\ WF_allVars(Tick /\ OfStream)
    /\ WF_allVars(XAutoClaim /\ OfStream)
    /\ WF_allVars(Elapsed /\ OfRate)
    /\ \A w \in Workers : WF_allVars(WorkerStep(w) /\ OfLedger)
    /\ WF_allVars(Shutdown /\ OfLedger)

Spec == Init /\ [][Next]_allVars /\ Fairness
=============================================================================
