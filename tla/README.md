# AegisRoute in TLA+

AegisRoute is an LLM inference gateway in Go. Its API process routes chat
requests to model backends and accepts batch jobs; its control worker executes
the batch jobs. Postgres holds the records, Redis the job stream, the response
cache and the rate limiter's counters. This directory holds TLA+ models of the
parts whose correctness depends on the order in which things happen, the TLC
configurations that check them on small instances, and TLAPS proofs of their safety
properties for every size.

Read `BatchPipeline.tla` (with `JobStore.tla` and `StreamQueue.tla`) and
`Routing.tla` first. `PROJECT.json` lists the components, runs, mutants,
findings, hazards and theorems, and maps every definition to its source lines.

## The system and its models

| Part | Source | Module |
| --- | --- | --- |
| batch store | `internal/db/job_repo.go`, `internal/jobs`, migration 5 | `JobStore` |
| job stream | `internal/redisstore/queue.go` | `StreamQueue`, and in more detail `RedisStream` |
| batch worker, job creation, outbox | `internal/worker`, `internal/api/batch.go` | `BatchPipeline` (uses both) |
| selection, semaphores, circuit breaker, failover | `internal/routing`, the loops of `chat.go` and `worker.go` | `Routing` |
| idempotent requests, rate limit | `internal/idempotency`, `idempotency_repo.go`, `ratelimit`, `chat.go` | `Idempotency` |
| retries, backoff, failover under one budget | `internal/inference`, `internal/config`, the loop of `chat.go` | `InferenceClient` |
| audit ledger, shutdown | `internal/api/ledger.go`, `cmd/gateway-api` | `AsyncLedger` |
| admin API, seeder | `internal/api/admin.go`, `backend_repo.go`, `routingpolicy_repo.go`, `seed` | `AdminAPI` |
| response cache, request decoding | `internal/cache`, `chat.go` | `ResponseCache` |
| validation of a batch | `decodeBatchCreate` of `internal/api/batch.go` | `BatchDecode` |
| rate limit on the bearer routes | `internal/ratelimit`, `middleware.go`, `router.go`, `auth.go` | `RateLimit` |
| in-memory store and queue of the tests | `internal/jobs/memstore.go`, `internal/redisstore/memqueue.go` | `MemStore`, `MemQueue` |

`MC<Module>.tla` gives a module's function-valued constants their values for
TLC; `MC*.cfg` gives the others. `MCComponents` and `MCChatPath` check several modules
in one run: their modules share no variable, a variable `part` chosen at the start says
whose behaviour it is, and the others stand still. Some definitions are marked `Mutant`: each is a
plausible wrong version of the definition that follows it, used to see that a
property notices it. No specification uses one.

How they interact: a batch item's backend call goes through `Routing` and
`InferenceClient`, which `BatchPipeline` condenses into one step with any
outcome. A chat request passes `Idempotency` (check, rate limit, begin), then
`ResponseCache`, `Routing` and `InferenceClient`, then `Idempotency` again
(complete or release) and `AsyncLedger`. Rows written through `AdminAPI` are the
rows `Routing` reads; there they change at any moment.

### JobStore, StreamQueue and BatchPipeline

`JobStore` holds the rows of the three batch tables and one operator per SQL
statement. A claim is two steps, the locking SELECT and the commit, because other
statements run in between. The recount is two steps as well: under READ COMMITTED
its counts come from the snapshot the statement began with, while its write waits
for the job's row. `StoreSpec` is the store used by any client that calls any
statement at any time; it is the abstract specification the pipeline implements.

`StreamQueue` is a Redis stream with one consumer group: what was published, how
far the group has read, what is pending, and the dead-letter stream. `RedisStream` is
the same stream as the commands of `queue.go` use it: capped by approximate trimming,
with a group that somebody has to create, idle times, and an XAUTOCLAIM that looks at the
oldest entries only. As long as nothing but acked entries has been trimmed it implements
`StreamQueue` (`StreamImplementsQueue`), which is what `BatchPipeline` relies on.

`BatchPipeline` adds the API handler that creates a job (commit, publish, mark), and any
number of workers, each with a consume loop, a reclaim loop and an outbox drain. A
loop's pass over a message is `handleMessage` step by step: mark running, requeue, a
pool of `Concurrency` goroutines that claim and work, recount, ack. Every call to a
store has three outcomes: it happens and answers, it happens and the answer is lost, it
fails. A command to Redis has a fourth: the client library, left at its default settings
by `redisstore.Connect`, resends a command whose answer is lost, so a publication or a
dead letter may enter its stream twice in one call. A crash forgets everything a worker
had in memory and rolls back its open claims. Jobs may be deleted, and foreign messages
appear.

The constant `Patient` is the model's version of `ReclaimMinIdle`: when TRUE, a
message is reclaimed only if no loop that is still running holds it, the case the
comment on the default (60 s) asks for; when FALSE a slow holder may lose its
message.

### Routing

Callers read the backend rows, walk the candidates tier by tier in any order within
a tier, take a slot, ask the breaker, call, report and fail over. Reading the rows
and using them are separate steps, so a capacity may change in between. All
semaphores a backend has ever had are kept, since holders release into the instance
they took from. Time is the flag `cooled` of an open circuit.

### The other modules

- `Idempotency`: the requests under one scope and key, each on a replica with its own
  clock skew; the database's clock is `now`. A handler takes any time: the server's write
  timeout closes its connection, but neither stops it nor cancels its context. The model
  notes which requests were at work when their record stopped protecting them
  (`overruns`). The time to live is any configured value, chosen at start.
- `InferenceClient`: the calls of `Do` that one request makes, backend after backend, under
  the one budget, started from every configuration that `ValidateForServe` accepts. What
  `Select` spends counts towards the budget. Computed durations have `Width` bits, as
  `time.Duration` has 64. At the very instant of the deadline either outcome may
  be seen.
- `AsyncLedger`: the bounded queue, its workers, and the shutdown of the process, down to
  the connection pool, whose Close waits for the connections that handlers and workers hold.
- `AdminAPI`: rows as whole records; a PATCH loads and validates, then writes. The seeder's
  base URLs come from the environment, which may hold a scheme the handlers refuse.
  `InRange` models the 32-bit integer columns, which Go's validation does not know.
- `RateLimit`: the fixed window and its place on every route. Requests come one after
  another in a few slots; time is counted in ticks of the window, and the requests the
  counter let through are remembered for one window, each with the count it got and its age.
- `BatchDecode`: the validation loop over the entries of a batch, entry by entry,
  started from every array of up to one entry too many.
- `MemStore`: one mutex, so a method could be a step; a claim and a recount take two
  (find and take, count and write), with the mutex as a variable. Mapped to `JobStore`, a
  claim between its halves is a transaction that has locked the row. `Overlapping` says
  whether a second delivery may requeue items that a goroutine holds.
- `MemQueue`: a slice and a map; mapped to `StreamQueue`, the group has read what has left
  the slice.
- `ResponseCache`: requests in wire form (omitted, null or given fields; `stop` as a
  string or a list), decoded, canonicalised and looked up.

## Runs

Runs that pass:

| Run | Instance | Shows |
| --- | --- | --- |
| `two_workers` | one item, two workers, two messages, one fault, one crash | the inductive invariant; nothing is lost; calls in progress for an item never outnumber its attempts, and one call dead-letters it; while a job has had one message, its status converges along its lifecycle |
| `pool` | two items (symmetric), one worker with two goroutines that reclaims also what it still holds, one trouble out of a fault, a crash and a deletion or foreign message | claims and the in-flight guard leave an item one holder; the pipeline implements `StoreSpec`; a terminal status is true even when the recount was stale |
| `drains` | one item, one worker, two troubles as above | everything is finally published, acked and terminal; moot messages leave a record |
| `breaker` | one backend of capacity 1 or 3, three callers, threshold 2 | probes have owners and end; an open circuit is left by a probe after the cooldown, and is left |
| `slots` | two backends in two tiers, two callers, one change of a backend | slots are accounted for in every instance of a semaphore |
| `idempotency` | three requests (one with another body), a replica clock ahead, one fault, one crash, one panic, a short and a long time to live | one request works under a record that protects it, one effect, faithful replays, fenced owners, abandoned keys freed |
| `admin` | two handlers (symmetric) and the seeder, URLs the handlers accept, refuse, and refuse but the seeder accepts | rows are valid or as seeded, Go's checks cover SQL's; a PATCH of an unchanged row changes what was sent |
| `chat_path` | cache: two requests, two scopes, one stored entry; client: two backends, up to six attempts, durations of five bits | hits answer the same question, equal requests share, hot requests are never stored; verdicts are honest and waits stay within their bound |
| `components` | stream: five messages, cap 3; in-memory store: two goroutines; rate limit: two slots, limit 2, window of 2 ticks; batches of up to 3 entries, limit 2; ledger: three rows, two workers, queue of two | the stream and the test doubles implement what they stand for; only the cap drops a message and stranded ones are reclaimed; requests are charged once, a window lets through at most twice the limit, and a limited key is let in again; exactly the well-formed batches are accepted; accepted rows are settled and drained, and shutdown ends |

Runs that end in a violation, with the comment quoted as a finding in `PROJECT.json`:

- `orphan`, without `Patient`: a message is reclaimed from a slow worker, the second
  worker finds nothing to claim and acks while the first still holds an item, and the
  first dies. No message and no outbox row is left for the item. `NoLostWork` in
  `two_workers` is the positive counterpart.
- `converge`: the API and the drain both publish a job, two passes recount, and the
  one with the older snapshot writes last. Both messages are acked and the job says
  running for ever. `ConvergesAlone` is the positive counterpart.
- `drift`, with `Overlapping`: a goroutine holds an item of the in-memory store, a second
  delivery requeues it, and the goroutine's late failure is written onto the queued item,
  because the shared table of transitions allows queued to failed. The Postgres store's
  UPDATE asks for a running item. `ImplementsStore` in `components`, without overlap, is
  the positive counterpart.

### Comments the models contradict

The modules end with definitions that state a comment of the code literally. TLC
refutes each on the instance of the named run, when its name is added to that `.cfg`:

| Definition | Instance | Scenario |
| --- | --- | --- |
| `OneProbe` | `breaker` | a straggler's failure reopens a half-open circuit and forgets the probe; after the cooldown there are two |
| `OnlyProbeCloses` | `breaker` | a straggler's success closes a half-open circuit |
| `SingleDLQEntry` | `two_workers` | the client resends the dead letter of an item whose answer was lost |
| `NeverReclaimedLive` | `idempotency` | a handler outlives its lock, as no deadline ends it, and another request takes its record over |
| `NoneLeftPending` | `idempotency` | a panic after Begin leaves the record pending |
| `ReplayExact` | `idempotency` | the jsonb column keeps the value of a body, not its bytes |
| `AllReclaimed` | `components` | entries that keep failing are claimed again first, and a later one is never looked at |
| `CapDwarfsInFlight` | `components` | fewer messages than the cap are unacked, yet an old one is trimmed: acked entries count towards the cap |
| `LimitPerWindow` | `components` | the end of one window and the beginning of the next lie within one window's length |
| `LateRowsDropped` | `components` | a row recorded after Close is still inserted |
| `ExitBounded` | `components` | a handler's query never ends; shutdown gives up on the handler but then closes the pool, which waits for the connection |
| `ChainComplete` | `chat_path` | a worst case equal to the budget is accepted and the last attempt cut |
| `CanceledIsNotTransient` | `chat_path` | the client leaves just after a transient answer |
| `AdminKeepsIdentity` | `admin` with two models | a PATCH writes back the identity it loaded before a seed run |

Without their conditions some passing properties fail too, which is why they have them:
`OneHolder` and `JobLifecycle` need `SoleMessage`, since a second message's pass requeues
items in work and its recount may be stale; `HoldersWithinAttempts` is what holds of several
messages. `MootLeavesRecord` speaks of messages that name no job: that of a deleted job is
dropped without a dead letter by design. `OneAtWork` sets aside handlers that have
outlived their lock or the time to live. `HonestVerdict` sets aside a chain that begins with
no more than its worst case left of the budget, as a chain after a failover may. `RowsValid`
leaves a seeded row as it is until somebody patches it. `PatchTouchesOnlySent` needs a row
nobody wrote since it was loaded. `ShutdownEnds` needs handlers that give their connections
back. `NoneDropped` and `StreamImplementsQueue` hold until the cap trims what is not acked, and
`Reclaimed` needs fewer than `BatchCount` older pending entries. `ImplementsStore` and
`HeldByOne` need deliveries that do not overlap.

### Bounds

`MaxStream`, `MaxFaults`, `MaxCrashes`, `MaxMoot`, `MaxChanges`, `MaxTime`,
`MaxPanics`, `MaxEntries`, `MaxPublished`, `MaxNextID` limit how often something happens, and
`MaxTroubles` how many faults, crashes and moot messages there are together. Where two workers
compete `Patient` is TRUE, since without it the `orphan` and `converge` scenarios follow; `pool`
sets it to FALSE with one worker, so that its loops receive each other's messages and only the
in-flight guard stands between them. Its two items and two goroutines are what a contended
claim needs. Two messages for one
job are enough for any two passes to overlap. In `drains`, `MaxStream` is 4, as many
publications of one job as two troubles can cause, so the bound itself
never stops the drain. Five messages and a cap of 3 trim entries that are acked, pending
and not delivered yet. Two attempts reach a retry, the last attempt and exhaustion. A
threshold of 2 distinguishes counting from opening at once. Idempotency needs a
holder, a rival and a request with another body; its clock runs past the longer time
to live. Deadlock checking is off where the bounded system may simply be finished.

### Fairness

- `FairSpec` of `BatchPipeline`: weak fairness of each worker's drain and of each loop. The
  loops run on tickers until the process is told to stop, and a crashed worker is
  restarted. Nobody is obliged to submit jobs, and the API handler gets no fairness:
  the outbox covers for it.
- `BusySpec` of `Routing`: callers finish their calls (every call has a timeout), cooldowns
  pass, requests keep arriving, and reading the rows succeeds again and again (strong
  fairness, since a failed read sends the caller home). An open circuit is probed only
  by traffic.
- `RedisStream`: time passes and the reclaim loop comes to its next tick (`StreamFairness`).
  Nobody is obliged to read or to ack.
- `RateLimit`: time passes (`Elapsed`). Requests need not end.
- `LedgerFairSpec` of `AsyncLedger`: workers run, inserts end by their timeout and shutdown's
  timeouts expire. Nothing is assumed of handlers; `ShutdownEnds` says itself that none
  keeps its connection for ever.

## Proofs

Every safety property that a passing run checks, invariant, action property or refinement,
is also a theorem.

| Module | Theorem | States |
| --- | --- | --- |
| `BatchPipelineTypes` | `TypeCorrect` | `Spec => []TypeOK` |
| `BatchPipelineProofs` | `Invariance`, `NothingLost` | `Patient` implies `Spec => [](TypeOK /\ IndInv)` and `Spec => []NoLostWork` |
| `BatchPipelineStore` | `PipelineImplementsStore` | `Spec => StoreSpec` |
| | `TerminalStatusTrue`, `PipelineTruthful` | `StoreSpec => []TerminalJobTruthful`, `Spec => []TerminalJobTruthful` |
| | `SingleDeadLetter`, `MootOnRecord`, `CallsCounted` | `Spec => DeadLetterOnce`, `Spec => []MootLeavesRecord`, `Spec => []HoldersWithinAttempts` |
| `BatchPipelineSole` | `HeldByOne`, `StatusConverges` | `Patient` implies `Spec => []OneHolder` and `Spec => []ConvergesAlone` |
| | `LifecycleKept` | `Patient` implies `Spec => JobLifecycle` |
| `ChatPathProofs` | `TypeCorrect` | routing: `Spec => []TypeOK` |
| | `ProbesOwned`, `ClosedShortOfThreshold`, `OpenStaysOpen` | the breaker: `ProbeOwned`, `ClosedBelowThreshold`, `OpenUntilCooled` |
| | `SlotsOwned` | `Spec => []SlotsAccounted` |
| | `CacheFaithful`, `OneKeyPerMeaning` | the cache: `HitFaithful`, `SharesEntry` |
| | `VerdictHonest`, `BackoffBounded` | the client: `HonestVerdict`, `BackoffWithinBound` |
| `IdempotencyProofs` | `OwnerFenced` | `Spec => Fenced` |
| | `WorkExclusive`, `EffectOnce` | `Spec => []OneAtWork`, `Spec => []OneEffect` |
| | `KeyAlwaysFreed`, `ReplaysFaithful` | `Spec => []KeyFreed`, `Spec => []ReplayFaithful` |
| `GatewayProofs` | `StoredRowsValid`, `NothingRefused`, `PatchIsPartial` | `RowsValid`, `ChecksMirrored`, `PatchTouchesOnlySent` |
| | `NoDoubleCharge`, `AtMostTwoWindows` | the rate limit: `ChargedOnce`, `WindowBound` |
| | `AcceptsWellFormed` | the batch decoder: `DecodesExactly` |
| `ComponentsProofs` | `MemStoreImplements`, `ClaimsExclusive` | `~Overlapping` implies `MemStoreSpec => ImplementsStore` and `[]HeldByOne` |
| | `MemQueueRefines`, `StreamRefinesQueue` | the two queues implement `StreamQueue` |
| | `OnlyTheCapDrops` | the stream: `NoneDropped` |
| | `CloseDrains` | the ledger: `DrainedOnClose` |

They hold for any sets of jobs, workers, backends, callers, requests and rows (items and
callers of a backend finite) and any bounds, under the named assumptions in the modules.
Modules that are only run as a part of `MCChatPath` or `MCComponents` have no formula `Spec`
of their own; their theorems start from `XInit /\ [][XNext]_xVars`.

Assumptions that are more than types: `SeedAssumption` (what `seed.go` writes out, all
but the base URLs, is valid), `DecodeAssumption` (the marks for a field that is missing
or of the wrong type are no ids or models), `ClientAssumption` (`RETRY_MAX_MS`, converted,
is a duration), and `PowersAssumption`, which lists facts about powers of 2 that are true for
every width: the provers have no theory of exponentiation, and TLC evaluates the list.

`NoLostWork` is not inductive: an ack removes a message, so one must know that the
pass which acks has dealt with every open item. `IndInv` says so in five parts.
`OutboxOrder`: a row is marked only after its message is in the stream. `Exclusive`: a
message is held by one loop and is pending while held; this is where `Patient` is used.
`PoolOrder` and `LockedIsQueued`: goroutines work on items of their pass's job, and a
locked row has one locker and is queued. `Answerable`: for every open item there is an
unacked message of its job that nobody handles, or whose handler will not ack before the
item is dealt with. The hard case is the end of a pool: a goroutine that finds nothing to
claim may stop while a row is locked by another goroutine or another pass. In the first
case the locker has yet to finish; in the second the other pass's message answers for
the item. Another message of the same job may requeue an item; then that message answers.

Each part is preserved by every step; the lemmas that say so are in `BatchPipelineTypes`
(`OutboxOrderStep`, `LockedIsQueuedStep`, `ExclusiveStep`) and `BatchPipelineProofs`
(`PoolOrderStep`, `AnswerableStep`, and `IndInvInit` for the initial states). The last
section of `BatchPipelineTypes` says once and for all which steps can change a pass, a
goroutine, an item, a job, an outbox row, a message or a dead letter (`PassMoves`,
`ItemMoves`, ...). The four pipeline modules extend one another in the order of the table.

That the pipeline implements `StoreSpec` needs no `Patient`. All steps but one map to the
statement they call. A recount writes what it counted when it started, and `StoreSpec` lets
it write only counts no larger than the current ones. `SnapBehind` says that they are not:
items that have ended stay ended while their job is stored (`EndedStay`, from
`LockedIsQueued`), so counts only grow (`CountsGrow`), and a message names no job before its
transaction commits (`OutboxOrder`), so that a job in the middle of a recount is not created
under it. From `StoreSpec` alone a terminal status is true: counts that add up to the job's
items and are no larger than the current ones are the current ones (`FullCounts`). A stale
recount can therefore put a finished job back to running (`converge`), but never the reverse.

`SoleInv` is the invariant of jobs that have had one message. It follows the only pass that can
be under way: its items are running or deleted (`WorksOnRunning`), the job is past queued once
marked, the counts it read are still right when it writes them, and it acks only with the status
reported (`Stage`). With `Patient` the message has one holder, so no second pass requeues an
item in work or recounts beside it; a crashed holder's goroutines are gone before its message
is taken over. An acked message then leaves the status that the last recount wrote
(`AckedReported`), and nothing writes it again. `OneHolder` needs `WorksOnRunning`: a claim takes
a queued item, so it is not one that anybody works on. The theorem assumes `Patient`; that one
process may also be impatient with itself is checked by `pool` only.

Dead letters need neither condition. A goroutine in the call that dead-letters an item
committed the claim that failed it, and a failed item is never claimed again, so there is one
such goroutine per item; before its first sending there is no entry (`Condemned`), and there
are none for items that have not failed (`OnlyEnded`). A lost reply or a crash may lose the
dead letter, and only the client's resending doubles it. `CallsCounted` needs no more: no
statement takes an attempt back (`AttemptsStay`), and the commit that adds a goroutine to an
item's holders also counts one (`ClaimCounts`).

For routing, a caller in possession of a slot knows its semaphore instance
(`Placed`), every half-open probe has a caller marked as its owner (`Owned`), and the
count of an instance is the cardinality of its holders; one lemma each says what taking,
freeing and replacing do to it. That reports of stragglers leave an open circuit alone is a
case analysis of the three reports (`OpenIgnoresReports`).

For the cache, every stored answer was given to a request that may be cached and lies under
that request's own key, and a handler with a hit holds such an answer for its own key
(`CacheInv`). Equal keys mean equal decoded requests, hence the same meaning; conversely the
forms in which a field may be written decode alike. For the client, `ClientInv` bounds the time
used by the attempts and waits of a chain, counted from its begin; if the validated worst case
was left of the budget then, a deadline cannot have ended the chain. `WrapKeeps` and
`CeilBounded` say what overflow does to the doubled base.

For idempotency the key is that the record always belongs to the last acquisition
(`RecordIsLast`) while a request at work remembers the number of its own (`Owned`): equal
numbers mean the same request, so a lapsed owner's write finds no row. The record's times are
those of its acquisition, since nothing prolongs them, which gives `KeyFreed`. `WorkExclusive`
adds that a request at work that has not outlived its lock or the time to live still has the
record (`LockHeld`): Begin passes over such a record, and only its owner resolves it. `RecordTrue`
and `ReplaysTrue` carry the origin of a stored response. `EffectInv` adds that, until their
records expire and while nothing goes wrong, a request that has taken effect is about to
complete the record or has completed it, so nobody else gets to work.

For the admin API, a row is valid wherever it is, in a table unless it is as seeded, or
in the hands of a handler between its load and its write (`AdminInv`). The write may
overwrite a newer row, but with one that was validated as a whole.

For the ledger, a row is in at most one place (`Apart`), the accepted rows are those that are
somewhere (`Placed`), and a worker returns only when no row of before Close is queued
(`ReturnedDrained`): rows accepted later do not matter, and none of the earlier ones comes
back.

The refinement of `MemStore` maps the halves of a claim to the SELECT and the commit of
`JobStore`, and the second half of a recount to the recount with the newest counts. It
rests on `InsideHolds` (who is between two halves has the mutex), `FoundIsQueued` and
`TallyCurrent` (what was read is still so), and `HeldIsRunning`, which is where `~Overlapping`
is used: the guard by the table of transitions and the guard `status = 'running'` then agree.

The Redis stream implements the queue because delivered entries are acked, pending or trimmed
(`DeliveredKept`) and a group read takes an interval of the entries that are left
(`ReadsInterval`); entries in between can be missing only if they were trimmed, and then they
were acked. The in-memory queue has the easier `BacklogInv`: what has left the slice is what the
group has read.

For the rate limit, a request that has not reached its check is uncharged (`RateInv`). The
window bound needs to tell apart the requests let through by the counter that is running from
those of counters that have expired: within one life of a counter each count is given once, and
only one earlier life reaches into the window (`KeyGood`). So what was let through splits into
two sets, each of which the counts map one to one into `1 .. Limit` (`TwoLives`).

For the decoder, the entries passed are complete, of one model and of distinct ids, and the map
holds exactly their ids (`PrefixGood`); a refusal points at the entry that breaks this.

Only model-checked: the liveness properties `PipelineDrains`, `ProbeEnds`, `OpenEnds`,
`Reclaimed`, `LimitLifts`, `RowsSettle` and `ShutdownEnds`, since proofs under fairness
and ENABLED are out of the prover's reach, and the violations.

## Not modelled

- Hashing and comparison of credentials, header parsing, request ids, health and model
  listings, the error envelope, metrics and logs: no state that anything reads back.
- The mock backend: `Routing` lets a backend answer anything.
- Migrations, parsing of the environment: sequential start-up code.
- The control worker's process shell; its stop loses less than a crash.
- A consumer group deleted under a running consumer, and `MarkOutboxFailedAttempt`, which
  writes columns nothing reads.
- The composition of chat's idempotency, cache and routing in one state space: each
  is checked with the others reduced to their outcomes.

## Plan

Model: the control worker's orderly stop; a composition of chat's cache and routing.
