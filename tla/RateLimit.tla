----------------------------- MODULE RateLimit ------------------------------
(***************************************************************************)
(* The way of a bearer request to its handler's work: authentication       *)
(* (internal/auth), the per-key rate limit (internal/ratelimit, applied by *)
(* a middleware or by the handler itself, internal/api/router.go and       *)
(* middleware.go) and, for the two POST routes, the validation and replay  *)
(* lookup that come before it.                                             *)
(*                                                                         *)
(* A slot is one request after another.  Requests that are answered before *)
(* authentication (public and admin routes, unknown paths, credentials in  *)
(* the query string) take no part.  Time is counted in ticks of the window.*)
(***************************************************************************)
EXTENDS Integers, FiniteSets

CONSTANTS
    Slots,     \* requests served at a time
    Keys,      \* API keys
    Limit,     \* RATE_LIMIT_QPS
    Window,    \* length of the window, in ticks
    NoKey      \* no token, or one whose hash no api_keys row has

ASSUME RateAssumption == Limit \in Nat \ {0} /\ Window \in Nat \ {0} /\ NoKey \notin Keys

VARIABLES
    counter,   \* each key's counter in Redis and the ticks until it expires
    recent,    \* requests the counter let through in the last Window ticks: the count
               \* each one got and its age in ticks
    slot       \* each request's route, key, place and how many calls of Allow
               \* charged it

rateVars == <<counter, recent, slot>>

Get == {"models", "jobs"}
Post == {"chat", "create"}

\* Mutant of Wrapped: the middleware wraps every route.
WrappedAll == Get \cup Post

\* Routes behind rateLimitMiddleware.
Wrapped == Get

Resting == [pc |-> "idle", route |-> "models", key |-> NoKey, charged |-> 0]

RateInit ==
    /\ counter = [k \in Keys |-> [count |-> 0, left |-> 0]]
    /\ recent = [k \in Keys |-> {}]
    /\ slot = [q \in Slots |-> Resting]

Enter(q, pc) == slot' = [slot EXCEPT ![q].pc = pc]
Finish(q) == slot' = [slot EXCEPT ![q] = Resting]

-----------------------------------------------------------------------------
Arrive(q) ==
    /\ slot[q].pc = "idle"
    /\ \E route \in Get \cup Post, k \in Keys \cup {NoKey} :
          slot' = [slot EXCEPT ![q] = [pc |-> "auth", route |-> route, key |-> k,
                                       charged |-> 0]]
    /\ UNCHANGED <<counter, recent>>

\* BearerAuth: no token, an unknown key (401) or a store error (500) end the
\* request.
BearerAuth(q) ==
    /\ slot[q].pc = "auth"
    /\ \/ Finish(q)
       \/ /\ slot[q].key # NoKey
          /\ Enter(q, IF slot[q].route \in Wrapped THEN "wrap" ELSE "handler")
    /\ UNCHANGED <<counter, recent>>

\* Mutant of Hit: the expiry is armed by every call.
HitRearms(k) ==
    [count |-> IF counter[k].count <= Limit THEN counter[k].count + 1
               ELSE counter[k].count,
     left |-> Window]

\* The script: INCR, and PEXPIRE when this call created the counter.  What lies
\* beyond the first count over the limit is not told apart.
Hit(k) ==
    LET c == counter[k] IN
    IF c.count = 0 THEN [count |-> 1, left |-> Window]
    ELSE [c EXCEPT !.count = IF @ <= Limit THEN @ + 1 ELSE @]

\* Mutant of Within: off by one.
WithinLate(count) == count <= Limit + 1

Within(count) == count <= Limit

\* allowRate: within the limit the request goes on, over it the answer is 429; an
\* error, whether or not the script ran, lets the request through.  A script whose
\* reply is lost may be sent again by the client (external: go-redis).
AllowRate(q, onward) ==
    LET k == slot[q].key  hit == Hit(k) IN
    \/ /\ counter' = [counter EXCEPT ![k] = hit]
       /\ IF Within(hit.count)
          THEN /\ slot' = [slot EXCEPT ![q].pc = onward, ![q].charged = @ + 1]
               /\ recent' = [recent EXCEPT ![k] = @ \cup {[count |-> hit.count, age |-> 0]}]
          ELSE Finish(q) /\ UNCHANGED recent
    \/ /\ counter' = [counter EXCEPT ![k] = hit]
       /\ slot' = [slot EXCEPT ![q].pc = onward, ![q].charged = @ + 1]
       /\ UNCHANGED recent
    \/ Enter(q, onward) /\ UNCHANGED <<counter, recent>>
    \/ counter' = [counter EXCEPT ![k] = hit] /\ UNCHANGED <<recent, slot>>

\* rateLimitMiddleware, around the whole handler.
RateLimitMiddleware(q) ==
    /\ slot[q].pc = "wrap"
    /\ AllowRate(q, "handler")

\* Validation, and Check of the idempotency key: a bad request, a conflict, an
\* error or a replay is answered here.
CheckPost(q) ==
    /\ slot[q].pc = "handler" /\ slot[q].route \in Post
    /\ Finish(q) \/ Enter(q, "limit")
    /\ UNCHANGED <<counter, recent>>

LimitPost(q) ==
    /\ slot[q].pc = "limit"
    /\ AllowRate(q, "work")

ReadHandler(q) ==
    /\ slot[q].pc = "handler" /\ slot[q].route \in Get
    /\ Enter(q, "work")
    /\ UNCHANGED <<counter, recent>>

\* The answer, or a panic that recoverer turns into one.
Respond(q) ==
    /\ slot[q].pc = "work"
    /\ Finish(q)
    /\ UNCHANGED <<counter, recent>>

\* A tick: counters whose time is up are gone.
Elapsed ==
    /\ counter' = [k \in Keys |->
          IF counter[k].left <= 1 THEN [count |-> 0, left |-> 0]
          ELSE [counter[k] EXCEPT !.left = @ - 1]]
    /\ recent' = [k \in Keys |-> {[e EXCEPT !.age = @ + 1] :
                                     e \in {e \in recent[k] : e.age + 1 < Window}}]
    /\ UNCHANGED slot

RateNext ==
    \/ \E q \in Slots :
          \/ Arrive(q) \/ BearerAuth(q) \/ RateLimitMiddleware(q)
          \/ CheckPost(q) \/ LimitPost(q) \/ ReadHandler(q) \/ Respond(q)
    \/ Elapsed

-----------------------------------------------------------------------------
\* A request is charged by at most one call of Allow, wherever its route has the
\* check, and by none before its replay lookup (router.go: "Do not also wrap the
\* chat route or requests would be charged twice"; "replays are free").
ChargedOnce ==
    \A q \in Slots :
        /\ slot[q].charged <= 1
        /\ slot[q].route \in Post /\ slot[q].pc = "handler" => slot[q].charged = 0

\* In any stretch as long as the window the counter lets through at most twice
\* the limit: the end of one window and the beginning of the next (Allow, and the script's
\* single expiry).  INCR gives each number once in a counter's life, and no
\* counter expires within a tick: count and age tell requests apart.
Admitted(k) == Cardinality(recent[k])
WindowBound == \A k \in Keys : Admitted(k) <= 2 * Limit

\* A key over its limit is let in again, however many requests keep coming
\* (ratelimit.go: a counter without an expiry "would otherwise rate-limit a key
\* forever on stale counts").
LimitLifts == \A k \in Keys : counter[k].count > Limit ~> counter[k].count = 0

-----------------------------------------------------------------------------
\* Limiter: "at most limit requests per window duration".
LimitPerWindow == \A k \in Keys : Admitted(k) <= Limit
=============================================================================
