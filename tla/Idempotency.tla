---------------------------- MODULE Idempotency -----------------------------
(***************************************************************************)
(* Requests that carry one Idempotency-Key in one scope: the coordinator   *)
(* (internal/idempotency), the record in Postgres                          *)
(* (internal/db/idempotency_repo.go), the per-key rate limiter             *)
(* (internal/ratelimit), and the precedence that chatCompletions and       *)
(* createBatchJob share: check, rate limit, begin, work, resolve.          *)
(*                                                                         *)
(* now is the database clock; the replica that serves r reads its own,     *)
(* Skew[r] away.  The work (cache lookup, routing, inference, or the       *)
(* commit of a batch job) is its outcome.  A handler may take any time:    *)
(* WriteTimeout closes its connection, but neither ends it nor cancels the *)
(* request's context, and its store calls have no deadline of their own.   *)
(***************************************************************************)
EXTENDS Integers, Sequences, FiniteSets

CONSTANTS
    Requests,     \* requests with the key, retries included
    Body,         \* hash of each request's raw body
    Skew,         \* clock of the replica serving a request, relative to now
    TTLs,         \* values IDEMPOTENCY_TTL_SECONDS may have
    LockTTL,      \* idempotencyLockTTL, twice the server write deadline
    Limit,        \* RATE_LIMIT_QPS
    Window,       \* length of the limiter's window
    NoRecord,
    MaxTime,      \* bound: the clock
    MaxFaults,    \* bound: store calls that fail or whose reply is lost
    MaxCrashes,   \* bound: processes that die
    MaxPanics     \* bound: handlers that panic

ASSUME IdempotencyAssumption ==
    /\ Skew \in [Requests -> Int]
    /\ TTLs \subseteq Nat \ {0} /\ LockTTL \in Nat \ {0}
    /\ Limit \in Nat \ {0} /\ Window \in Nat \ {0}

\* The row for the scope and key, and a response as a handler sends it or the
\* row keeps it.
NoAnswer == [kind |-> "none"]
Response == [kind : {"own"}, by : Requests, text : {"sent", "jsonb"},
             retryable : BOOLEAN]
Record == [id : Nat, hash : {Body[r] : r \in Requests},
           status : {"pending", "completed"}, lock : Nat, expires : Nat,
           response : {NoAnswer} \cup Response]

ASSUME NoRecordAssumption == NoRecord \notin Record

VARIABLES
    now,
    ttl,        \* the configured time to live; ValidateForServe asks that it is positive
    rec,        \* the row for the scope and key, or NoRecord
    acquired,   \* whom Begin has given the record to, and when, in order
    limiter,    \* the key's counter and when it expires
    req,        \* each request's handler
    effects,    \* requests whose work took effect
    spent       \* faults, crashes and panics so far, and the requests that were
                \* still at work when their record stopped protecting them

vars == <<now, ttl, rec, acquired, limiter, req, effects, spent>>

Fresh == [pc |-> "new", id |-> 0, response |-> NoAnswer, answer |-> NoAnswer]

Init ==
    /\ now = 1
    /\ ttl \in TTLs
    /\ rec = NoRecord
    /\ acquired = <<>>
    /\ limiter = [count |-> 0, ends |-> 0]
    /\ req = [r \in Requests |-> Fresh]
    /\ effects = {}
    /\ spent = [faults |-> 0, crashes |-> 0, panics |-> 0, overruns |-> {}]

-----------------------------------------------------------------------------
(* The outcome of a store call: done and answered, done with the answer    *)
(* lost, or not done.                                                      *)

CallOutcome == {"ok", "lost", "failed"}

\* Calls to Redis have a fourth: done, the answer lost, and sent again by the
\* client library (external: go-redis retries with its default settings).
RedisOutcome == CallOutcome \cup {"resent"}

Charge(o) ==
    \/ o = "ok" /\ UNCHANGED spent
    \/ /\ o # "ok" /\ spent.faults < MaxFaults
       /\ spent' = [spent EXCEPT !.faults = @ + 1]

Live(r) == req[r].pc \notin {"new", "done", "dead"}
GoOn(r, pc) == req' = [req EXCEPT ![r].pc = pc]
Answer(r, a) == req' = [req EXCEPT ![r].pc = "done", ![r].answer = a]
Refuse(r, kind) == Answer(r, [kind |-> kind])

\* Mutant of Classify: the status is looked at before the body.
ClassifyStatusFirst(r) ==
    LET t == now + Skew[r] IN
    IF rec = NoRecord \/ (rec # NoRecord /\ t >= rec.expires) THEN "absent"
    ELSE IF rec.status = "completed"                          THEN "replay"
    ELSE IF rec.hash # Body[r]                                THEN "conflict"
    ELSE IF t < rec.lock                                      THEN "in_progress"
    ELSE "stale"

\* Classify, with the clock of the replica that serves r.
Classify(r) ==
    LET t == now + Skew[r] IN
    IF rec = NoRecord \/ (rec # NoRecord /\ t >= rec.expires) THEN "absent"
    ELSE IF rec.hash # Body[r]                                THEN "conflict"
    ELSE IF rec.status = "completed"                          THEN "replay"
    ELSE IF t < rec.lock                                      THEN "in_progress"
    ELSE "stale"

\* decideFromLookup and applyIdempotencyDecision.
Decide(r, whenNew) ==
    LET c == Classify(r) IN
    \/ c = "replay"      /\ Answer(r, [kind |-> "replay", response |-> rec.response])
    \/ c = "conflict"    /\ Refuse(r, "conflict")
    \/ c = "in_progress" /\ Refuse(r, "in_progress")
    \/ c \in {"absent", "stale"} /\ whenNew

-----------------------------------------------------------------------------
Arrive(r) ==
    /\ req[r].pc = "new"
    /\ GoOn(r, "check")
    /\ UNCHANGED <<now, ttl, rec, acquired, limiter, effects, spent>>

\* Coordinator.Check, before the rate limit.  A store error is a 500.
Check(r, o) ==
    /\ req[r].pc = "check"
    /\ Charge(o)
    /\ IF o = "ok" THEN Decide(r, GoOn(r, "rate")) ELSE Refuse(r, "error")
    /\ UNCHANGED <<now, ttl, rec, acquired, limiter, effects>>

\* allowRate: the script increments and, on the first hit, sets the expiry; an
\* error lets the request through.
AllowRate(r, o) ==
    LET count == IF limiter.count > 0 /\ now < limiter.ends THEN limiter.count + 1
                 ELSE 1
    IN
    /\ req[r].pc = "rate"
    /\ Charge(o)
    /\ IF o = "failed" THEN UNCHANGED limiter
       ELSE limiter' = [count |-> count,
                        ends |-> IF count = 1 THEN now + Window ELSE limiter.ends]
    /\ IF o = "resent" THEN UNCHANGED req
       ELSE IF o = "ok" /\ count > Limit THEN Refuse(r, "rate_limited")
       ELSE GoOn(r, "begin")
    /\ UNCHANGED <<now, ttl, rec, acquired, effects>>

\* Mutant of Reclaimable: any pending record may be taken over.
ReclaimableUnlocked ==
    \/ rec = NoRecord
    \/ rec # NoRecord /\ (rec.expires <= now \/ rec.status = "pending")

\* Mutant of Reclaimable: a pending record is taken over only once it expires.
ReclaimableExpired == rec = NoRecord \/ (rec # NoRecord /\ rec.expires <= now)

\* Begin's INSERT ... ON CONFLICT: every acquisition mints a fresh id.
Reclaimable ==
    \/ rec = NoRecord
    \/ /\ rec # NoRecord
       /\ \/ rec.expires <= now
          \/ rec.status = "pending" /\ rec.lock <= now
\* Mutant of FreshId: ON CONFLICT DO UPDATE keeps the row's id.
KeptId == IF rec = NoRecord THEN Len(acquired) + 1 ELSE rec.id
FreshId == Len(acquired) + 1

Acquire(r) ==
    /\ rec' = [id |-> FreshId, hash |-> Body[r], status |-> "pending",
               lock |-> now + LockTTL, expires |-> now + ttl, response |-> NoAnswer]
    /\ acquired' = Append(acquired, [by |-> r, at |-> now])

\* Coordinator.Begin up to the race: ErrRecordActive leads to a second lookup.
Begin(r, o) ==
    /\ req[r].pc = "begin"
    /\ Charge(o)
    /\ IF o # "failed" /\ Reclaimable THEN Acquire(r)
       ELSE UNCHANGED <<rec, acquired>>
    /\ IF o = "ok"
       THEN IF Reclaimable
            THEN req' = [req EXCEPT ![r].pc = "work", ![r].id = FreshId]
            ELSE GoOn(r, "recheck")
       ELSE Refuse(r, "error")
    /\ UNCHANGED <<now, ttl, limiter, effects>>

\* The second lookup: absent or stale by now is answered "in progress".
Recheck(r, o) ==
    /\ req[r].pc = "recheck"
    /\ Charge(o)
    /\ IF o = "ok" THEN Decide(r, Refuse(r, "in_progress")) ELSE Refuse(r, "error")
    /\ UNCHANGED <<now, ttl, rec, acquired, limiter, effects>>

\* The work: a success, a definite client error, a server error without effect,
\* one after the effect took place (a commit whose reply was lost, a backend that
\* answered too late).
WorkOutcome == {"success", "rejected", "error", "uncertain"}

Work(r, w) ==
    /\ req[r].pc = "work"
    /\ effects' = effects \cup (IF w \in {"success", "uncertain"} THEN {r} ELSE {})
    /\ req' = [req EXCEPT ![r].pc = "resolve",
                  ![r].response = [kind |-> "own", by |-> r, text |-> "sent",
                                   retryable |-> w \in {"error", "uncertain"}]]
    /\ UNCHANGED <<now, ttl, rec, acquired, limiter, spent>>

\* A panic in the handler: recoverer answers 500, and nothing resolves the record.
Panic(r) ==
    /\ req[r].pc = "work" /\ spent.panics < MaxPanics
    /\ spent' = [spent EXCEPT !.panics = @ + 1]
    /\ Refuse(r, "error")
    /\ UNCHANGED <<now, ttl, rec, acquired, limiter, effects>>

\* The jsonb column: the value is kept, the text is Postgres's own.
AsJsonb(response) == [response EXCEPT !.text = "jsonb"]

Complete(r) == rec' = [rec EXCEPT !.status = "completed", !.lock = 0,
                                  !.response = AsJsonb(req[r].response)]
Release == rec' = NoRecord

\* Complete and Release touch a pending record of the caller's id only.
Mine(r) == rec # NoRecord /\ rec.id = req[r].id /\ rec.status = "pending"

\* Mutant of Resolve: a success is released like a failure.
ResolveReleases(r, o) ==
    /\ req[r].pc = "resolve"
    /\ Charge(o)
    /\ IF o # "failed" /\ Mine(r) THEN Release ELSE UNCHANGED rec
    /\ Answer(r, req[r].response)
    /\ UNCHANGED <<now, ttl, acquired, limiter, effects>>

\* respondChat: resolve best-effort on a detached context, then answer.
Resolve(r, o) ==
    /\ req[r].pc = "resolve"
    /\ Charge(o)
    /\ IF o # "failed" /\ Mine(r)
       THEN IF req[r].response.retryable THEN Release ELSE Complete(r)
       ELSE UNCHANGED rec
    /\ Answer(r, req[r].response)
    /\ UNCHANGED <<now, ttl, acquired, limiter, effects>>

-----------------------------------------------------------------------------
Crash(r) ==
    /\ Live(r) /\ spent.crashes < MaxCrashes
    /\ spent' = [spent EXCEPT !.crashes = @ + 1]
    /\ GoOn(r, "dead")
    /\ UNCHANGED <<now, ttl, rec, acquired, limiter, effects>>

\* An acquisition protects its request until the lock lapses or the record expires.
AtWork == {r \in Requests : req[r].pc \in {"work", "resolve"}}
Until(n) == acquired[n].at + (IF LockTTL < ttl THEN LockTTL ELSE ttl)

Tick ==
    /\ now < MaxTime
    /\ now' = now + 1
    /\ spent' = [spent EXCEPT !.overruns = @ \cup {r \in AtWork : Until(req[r].id) <= now + 1}]
    /\ UNCHANGED <<ttl, rec, acquired, limiter, req, effects>>

Next ==
    \/ Tick
    \/ \E r \in Requests :
          \/ Arrive(r) \/ Panic(r) \/ Crash(r)
          \/ \E w \in WorkOutcome : Work(r, w)
          \/ \E o \in CallOutcome :
                Check(r, o) \/ Begin(r, o) \/ Recheck(r, o) \/ Resolve(r, o)
          \/ \E o \in RedisOutcome : AllowRate(r, o)

Spec == Init /\ [][Next]_vars

-----------------------------------------------------------------------------
\* At most one request is at work under a record that still protects it: Begin
\* gives the record away only when its lock has lapsed or it has expired, however
\* long the owner's handler and the calls of the others take.
OneAtWork == Cardinality(AtWork \ spent.overruns) <= 1

\* Only the last request that acquired the record resolves it: a lapsed owner's
\* Complete and Release are no-ops (Begin: "makes the record identity change on
\* every acquisition").
Fenced ==
    [][\A r \in Requests :
          req[r].pc = "resolve" /\ req'[r].pc = "done" /\ rec' # rec
             => acquired[Len(acquired)].by = r]_vars

\* Whatever became of its owner (an answer, a crash, a panic that recoverer
\* answers without resolving the record, a Begin whose reply was lost, a Complete or
\* Release that failed), a pending record can be taken over when the time that Begin
\* gave it is over: nothing prolongs a lock.
KeyFreed ==
    /\ rec # NoRecord /\ rec.status = "pending"
    /\ now >= Until(Len(acquired))
    => Reclaimable

\* A replay is the definite outcome of a request with the very same body, and its
\* originator has been answered with it or is about to be.
ReplayFaithful ==
    \A r \in Requests : req[r].answer.kind = "replay" =>
        LET p == req[r].answer.response IN
        /\ Body[p.by] = Body[r] /\ ~p.retryable
        /\ p = AsJsonb(req[p.by].response)

\* Without crashes, panics, failing stores, uncertain outcomes and handlers that
\* outlive their lock, one key takes effect once until the record of that effect
\* expires.
Undisturbed ==
    /\ spent = [faults |-> 0, crashes |-> 0, panics |-> 0, overruns |-> {}]
    /\ \A r \in effects : ~req[r].response.retryable
OneEffect ==
    Undisturbed /\ (\A r \in effects : now < acquired[req[r].id].at + ttl)
    => Cardinality(effects) <= 1

-----------------------------------------------------------------------------
(* What comments and documents promise and some behaviours do not keep.    *)

\* idempotencyLockTTL: "a live request - whose handler cannot outrun that deadline -
\* is never reclaimed mid-flight".
NeverReclaimedLive == Cardinality(AtWork) <= 1

\* docs/design-decisions.md: "no path after Begin may leave a record pending".
NoneLeftPending ==
    rec # NoRecord /\ rec.status = "pending" => AtWork # {}

\* respondChat: "the same key replays this exact status/whitelisted-headers/body".
ReplayExact ==
    \A r \in Requests : req[r].answer.kind = "replay" =>
        req[r].answer.response = req[req[r].answer.response.by].response
=============================================================================
