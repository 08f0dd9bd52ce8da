-------------------------- MODULE InferenceClient ---------------------------
(***************************************************************************)
(* The chat handler's loop of selection, Client.Do and failover            *)
(* (internal/api/chat.go, internal/inference/client.go) under the one      *)
(* budget that covers all of it, with the configuration checks that are to *)
(* keep a backend's retry chain inside it (internal/config/config.go).     *)
(* What Select chooses, and what the breaker makes of a report, is module  *)
(* Routing.                                                                *)
(*                                                                         *)
(* Durations are small naturals; those the code computes are kept in Width *)
(* bits, as time.Duration keeps 64.  The context ends when the client goes *)
(* away or the budget is used up; at that very instant either may be seen. *)
(***************************************************************************)
EXTENDS Integers, FiniteSetsExt

CONSTANTS
    Timeouts, Attempts, Bases, Maxes,   \* BACKEND_TIMEOUT_MS, RETRY_MAX_ATTEMPTS,
                                        \* RETRY_BASE_MS, RETRY_MAX_MS
    Budget,                             \* InferenceBudget
    Candidates,                         \* number of backends for the model
    Width                               \* bits of a duration, sign included

\* Settings are integers, and RETRY_MAX_MS as a duration fits its bits.
ASSUME ClientAssumption ==
    /\ Budget \in Nat /\ Candidates \in Nat /\ Width \in Nat \ {0, 1}
    /\ UNION {Timeouts, Attempts, Bases, Maxes} \subseteq Int
    /\ \A m \in Maxes : m < 2 ^ (Width - 1)

\* Arithmetic of the powers that occur, of which the provers have no theory.
ASSUME PowersAssumption ==
    /\ 2 ^ (Width - 1) \in Nat \ {0} /\ 2 ^ Width = 2 * 2 ^ (Width - 1)
    /\ \A a \in Attempts : \A n \in 1 .. a :
          /\ 2 ^ (n - 1) \in Nat \ {0}
          /\ n >= Width => 2 ^ (n - 1) >= 2 ^ (Width - 1)

VARIABLES
    cfg,       \* the configuration, accepted at start-up
    pc,        \* select; attempt, judge, backoff in Do; returned from it; done
    tried,     \* number of backends tried
    attempt,   \* number of the current attempt
    elapsed,   \* time since the budget started
    began,     \* what had elapsed when the current chain of attempts began
    gone,      \* the client went away
    last       \* outcome of the last attempt, then of Do

clientVars == <<cfg, pc, tried, attempt, elapsed, began, gone, last>>

\* Two's complement in Width bits.
Wrap(x) == LET m == 2 ^ Width
               y == x % m
           IN  IF y < m \div 2 THEN y ELSE y - m

\* Mutant: the waits between the attempts are left out.
WorstWithoutBackoff(c) == Wrap(c.attempts * c.timeout)

\* worstCaseBackendCall.
WorstCaseBackendCall(c) == Wrap(c.attempts * c.timeout + (c.attempts - 1) * c.max)

\* The checks of ValidateForServe on the retry settings.
ValidateForServe(c) ==
    /\ c.timeout > 0 /\ c.attempts > 0 /\ c.base > 0 /\ c.max > 0
    /\ c.max >= c.base
    /\ WorstCaseBackendCall(c) <= Budget

\* Mutant: an overflowed shift is not recognised by its sign.
CeilOfAnySign(c, n) ==
    LET exp == Wrap(c.base * 2 ^ (n - 1)) IN
    IF n - 1 < Width - 1 /\ exp < c.max THEN exp ELSE c.max

\* backoff: the largest wait before the retry that follows the n-th failure.  A
\* shifted base that has lost its sign or its bits is passed over only when it is
\* not positive.
BackoffCeil(c, n) ==
    LET exp == Wrap(c.base * 2 ^ (n - 1)) IN
    IF n - 1 < Width - 1 /\ exp > 0 /\ exp < c.max THEN exp ELSE c.max

ClientInit ==
    /\ cfg \in {c \in [timeout : Timeouts, attempts : Attempts, base : Bases,
                       max : Maxes] : ValidateForServe(c)}
    /\ pc = "select" /\ tried = 0 /\ attempt = 1 /\ elapsed = 0 /\ began = 0
    /\ gone = FALSE /\ last = "none"

-----------------------------------------------------------------------------
\* What ctx.Err() # nil may say.
EndedSeen(t) == {e \in BOOLEAN : /\ gone \/ t > Budget => e
                                 /\ ~gone /\ t < Budget => ~e}

\* Select, with its reads of the store, takes what time it takes.  It names a
\* backend that has not been tried, or fails: none is eligible, the store does not
\* answer, or the context has ended.
SelectBackend ==
    /\ pc = "select"
    /\ \E d \in 0..Budget : elapsed' = Min({elapsed + d, Budget})
    /\ \/ /\ tried < Candidates
          /\ pc' = "attempt" /\ tried' = tried + 1 /\ attempt' = 1 /\ began' = elapsed'
          /\ UNCHANGED last
       \/ /\ pc' = "done" /\ last' = "refused"
          /\ UNCHANGED <<tried, attempt, began>>
    /\ UNCHANGED <<cfg, gone>>

\* attempt: an answer, or an error (its own timeout, a connection or read error)
\* that is the backend's unless the context has ended.
Attempt ==
    /\ pc = "attempt"
    /\ \E d \in 0..cfg.timeout, answer \in {"success", "transient", "permanent", "error"} :
          LET t == Min({elapsed + d, Budget}) IN
          /\ elapsed' = t
          /\ \E ended \in EndedSeen(t) :
                last' = IF answer # "error" THEN answer
                        ELSE IF ended THEN "canceled" ELSE "transient"
    /\ pc' = "judge"
    /\ UNCHANGED <<cfg, tried, attempt, began, gone>>

\* Do, after an attempt: only a transient failure is retried, while attempts are
\* left and the context lives.
Judge ==
    /\ pc = "judge"
    /\ \E ended \in EndedSeen(elapsed) :
          pc' = IF last = "transient" /\ ~ended /\ attempt < cfg.attempts
                THEN "backoff" ELSE "returned"
    /\ UNCHANGED <<cfg, tried, attempt, elapsed, began, gone, last>>

\* sleepContext; the end of the context is reported as such.
Backoff ==
    /\ pc = "backoff"
    /\ \E d \in 0..BackoffCeil(cfg, attempt) :
          LET t == Min({elapsed + d, Budget}) IN
          /\ elapsed' = t
          /\ \E ended \in IF elapsed + d > Budget THEN {TRUE} ELSE EndedSeen(t) :
                IF ended THEN pc' = "returned" /\ last' = "canceled" /\ UNCHANGED attempt
                ELSE pc' = "attempt" /\ attempt' = attempt + 1 /\ UNCHANGED last
    /\ UNCHANGED <<cfg, tried, began, gone>>

\* callBackend and the loop: another backend is tried after a transient failure
\* that left budget.
FailOver ==
    /\ pc = "returned"
    /\ \E ended \in EndedSeen(elapsed) :
          pc' = IF last = "transient" /\ ~ended THEN "select" ELSE "done"
    /\ UNCHANGED <<cfg, tried, attempt, elapsed, began, gone, last>>

ClientGone ==
    /\ ~gone /\ pc # "done"
    /\ gone' = TRUE
    /\ UNCHANGED <<cfg, pc, tried, attempt, elapsed, began, last>>

ClientNext == SelectBackend \/ Attempt \/ Judge \/ Backoff \/ FailOver \/ ClientGone

-----------------------------------------------------------------------------
\* backoff draws from a range that is never empty (Int63n would panic) and never
\* exceeds min(BackoffMax, BackoffBase * 2^(n-1)), the bound that Config documents,
\* also where the shift overflows.
BackoffWithinBound ==
    \A n \in 1..cfg.attempts :
        BackoffCeil(cfg, n) \in 1..Min({cfg.max, cfg.base * 2 ^ (n - 1)})

\* What Do reports is true, for the first backend and after every failover.
\* Canceled means that the client went away or that the chain began with less than
\* its worst case left of the budget: a chain that begins with more is never cut
\* (while that worst case itself does not overflow).  Transient, from a context
\* that lives, means that every attempt was used, so the breaker hears of a backend
\* only after its whole chain.
HonestVerdict ==
    pc = "returned" =>
        /\ /\ last = "canceled"
           /\ began + WorstCaseBackendCall(cfg) < Budget
           /\ cfg.attempts * cfg.timeout + (cfg.attempts - 1) * cfg.max < 2 ^ (Width - 1)
           => gone
        /\ last = "transient" /\ ~gone /\ elapsed < Budget => attempt = cfg.attempts

-----------------------------------------------------------------------------
(* What comments promise and some behaviours do not keep.                  *)

\* worstCaseBackendCall: "at least one backend always gets a complete attempt
\* chain".
ChainComplete == pc = "returned" /\ tried = 1 /\ last = "canceled" => gone

\* Do: "Context cancellation ... is reported as a non-transient Error".
CanceledIsNotTransient ==
    pc = "returned" /\ gone /\ attempt < cfg.attempts => last # "transient"
=============================================================================
