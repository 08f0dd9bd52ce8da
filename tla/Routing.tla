------------------------------ MODULE Routing -------------------------------
(***************************************************************************)
(* Routing of concurrent calls in one process: the circuit breaker         *)
(* (internal/routing/circuit.go), the selector and its max_in_flight       *)
(* semaphores (selector.go), and the callers that select a backend, call   *)
(* it, report the outcome and fail over (callBackend and the loop around   *)
(* it in internal/api/chat.go and internal/worker/worker.go).              *)
(*                                                                         *)
(* A step is one critical section: one method of the breaker, one          *)
(* operation on a semaphore, one query.  The call itself                   *)
(* (internal/inference/client.go) is its outcome.  Time is the flag        *)
(* cooled: the cooldown of an open circuit has elapsed.                    *)
(***************************************************************************)
EXTENDS Integers, FiniteSets, Sequences

CONSTANTS
    Backends,      \* backends serving the model
    Callers,       \* goroutines that route requests, one request at a time
    Priority,      \* priority of each backend, lowest first
    Capacities,    \* values of max_in_flight
    Threshold,     \* CB_FAILURE_THRESHOLD
    NoBackend,
    MaxChanges     \* bound: updates of backend rows

ASSUME RoutingAssumption ==
    /\ Priority \in [Backends -> Nat]
    /\ Capacities \subseteq Nat \ {0} /\ Capacities # {}
    /\ Threshold \in Nat \ {0}
    /\ MaxChanges \in Nat
    /\ NoBackend \notin Backends
    /\ IsFiniteSet(Callers)

VARIABLES
    row,       \* model_backends: enabled and max_in_flight
    circuit,   \* the breaker's entry for each backend
    sems,      \* every semaphore a backend has had; the last is in the map
    caller,    \* what each caller is doing
    changes

vars == <<row, circuit, sems, caller, changes>>

Closed == [state |-> "closed", failures |-> 0, cooled |-> FALSE, probing |-> FALSE]
Resting == [pc |-> "idle", tried |-> {}, left |-> {}, at |-> NoBackend,
            gen |-> 0, probe |-> FALSE, retry |-> FALSE]

Init ==
    /\ row \in [Backends -> [enabled : {TRUE}, cap : Capacities]]
    /\ circuit = [b \in Backends |-> Closed]
    /\ sems = [b \in Backends |-> <<>>]
    /\ caller = [c \in Callers |-> Resting]
    /\ changes = 0

-----------------------------------------------------------------------------
(* Breaker: what each method does to the entry k of a backend.             *)

Admits(k) == \/ k.state = "closed"
             \/ k.state = "open" /\ k.cooled
             \/ k.state = "half_open" /\ ~k.probing

\* Allow, when it admits: anything but a closed circuit reserves the probe.
AfterAllow(k) ==
    IF k.state = "closed" THEN k
    ELSE [k EXCEPT !.state = "half_open", !.probing = TRUE]

\* open: the cooldown starts now.
Opened(k) == [k EXCEPT !.state = "open", !.cooled = FALSE]

AfterSuccess(k) ==
    CASE k.state = "closed"    -> [k EXCEPT !.failures = 0]
      [] k.state = "half_open" -> [k EXCEPT !.state = "closed", !.failures = 0,
                                            !.probing = FALSE]
      [] k.state = "open"      -> k

\* Mutant of AfterCanceled: no verdict, and the probe slot is not returned.
CanceledKeepsProbe(k) == k

AfterCanceled(k) ==
    IF k.state = "half_open" THEN [k EXCEPT !.probing = FALSE] ELSE k

\* Mutants of AfterFailure: the probe slot is kept; a straggler restarts the
\* cooldown.
FailureKeepsProbe(k) ==
    CASE k.state = "closed" ->
           IF k.failures + 1 >= Threshold
           THEN Opened([k EXCEPT !.failures = @ + 1])
           ELSE [k EXCEPT !.failures = @ + 1]
      [] k.state = "half_open" -> Opened(k)
      [] k.state = "open"      -> k
FailureRestartsCooldown(k) ==
    IF k.state = "closed" /\ k.failures + 1 < Threshold
    THEN [k EXCEPT !.failures = @ + 1]
    ELSE Opened([k EXCEPT !.probing = FALSE])

AfterFailure(k) ==
    CASE k.state = "closed" ->
           IF k.failures + 1 >= Threshold
           THEN Opened([k EXCEPT !.failures = @ + 1])
           ELSE [k EXCEPT !.failures = @ + 1]
      [] k.state = "half_open" -> Opened([k EXCEPT !.probing = FALSE])
      [] k.state = "open"      -> k

-----------------------------------------------------------------------------
(* Selector.Select.                                                        *)

\* The rows are read once; a disabled row is not in the list, and a backend
\* that this request has tried is skipped.
ReadBackends(c) ==
    /\ caller[c].pc = "read"
    /\ caller' = [caller EXCEPT ![c].pc = "try",
                     ![c].left = {[id |-> b, cap |-> row[b].cap] :
                        b \in {d \in Backends : row[d].enabled} \ caller[c].tried}]
    /\ UNCHANGED <<row, circuit, sems, changes>>

\* ErrNoBackends, ErrNoCapacity, or a store error: the request is over.
GiveUp(c) ==
    /\ \/ caller[c].pc = "read"
       \/ caller[c].pc = "try" /\ caller[c].left = {}
    /\ caller' = [caller EXCEPT ![c] = Resting]
    /\ UNCHANGED <<row, circuit, sems, changes>>

\* order: lowest priority first, and the weighted draws of weightedShuffle may
\* put any backend of a tier first.
FirstOf(left) ==
    {x \in left : \A y \in left : Priority[x.id] <= Priority[y.id]}

\* semaphoreFor: a semaphore of another capacity is replaced by an empty one.
NextCandidate(c) ==
    /\ caller[c].pc = "try"
    /\ \E x \in FirstOf(caller[c].left) :
          LET S == sems[x.id]
              T == IF S # <<>> /\ S[Len(S)].cap = x.cap THEN S
                   ELSE Append(S, [cap |-> x.cap, used |-> 0])
          IN  /\ sems' = [sems EXCEPT ![x.id] = T]
              /\ caller' = [caller EXCEPT ![c].pc = "acquire",
                               ![c].left = @ \ {x}, ![c].at = x.id,
                               ![c].gen = Len(T)]
    /\ UNCHANGED <<row, circuit, changes>>

Sem(c) == sems[caller[c].at][caller[c].gen]

TryAcquire(c) ==
    /\ caller[c].pc = "acquire"
    /\ IF Sem(c).used < Sem(c).cap
       THEN /\ sems' = [sems EXCEPT ![caller[c].at][caller[c].gen].used = @ + 1]
            /\ caller' = [caller EXCEPT ![c].pc = "allow"]
       ELSE /\ caller' = [caller EXCEPT ![c].pc = "try", ![c].at = NoBackend,
                             ![c].gen = 0]
            /\ UNCHANGED sems
    /\ UNCHANGED <<row, circuit, changes>>

\* The probe slot is reserved only by a caller that has capacity.
AskBreaker(c) ==
    LET b == caller[c].at IN
    /\ caller[c].pc = "allow"
    /\ IF Admits(circuit[b])
       THEN /\ circuit' = [circuit EXCEPT ![b] = AfterAllow(@)]
            /\ caller' = [caller EXCEPT ![c].pc = "call", ![c].tried = @ \cup {b},
                             ![c].probe = circuit[b].state # "closed"]
       ELSE /\ caller' = [caller EXCEPT ![c].pc = "skip"]
            /\ UNCHANGED circuit
    /\ UNCHANGED <<row, sems, changes>>

\* semaphore.release into the instance that was acquired.
FreeSlot(c) ==
    sems' = [sems EXCEPT ![caller[c].at][caller[c].gen].used =
                IF @ > 0 THEN @ - 1 ELSE @]

\* Mutant of SkipCandidate: a refused candidate keeps its slot.
SkipLeaksSlot(c) ==
    /\ caller[c].pc = "skip"
    /\ caller' = [caller EXCEPT ![c].pc = "try", ![c].at = NoBackend, ![c].gen = 0]
    /\ UNCHANGED <<row, circuit, sems, changes>>

SkipCandidate(c) ==
    /\ caller[c].pc = "skip"
    /\ FreeSlot(c)
    /\ caller' = [caller EXCEPT ![c].pc = "try", ![c].at = NoBackend, ![c].gen = 0]
    /\ UNCHANGED <<row, circuit, changes>>

-----------------------------------------------------------------------------
(* callBackend.  A call succeeds, fails for good, fails transiently, ends  *)
(* because the request's context ended, or panics; the deferred functions  *)
(* report an unreported call as canceled and then free the slot.           *)

CallResult == {"success", "permanent", "transient", "ended", "panic"}

Verdict(k, result) ==
    CASE result \in {"success", "permanent"} -> AfterSuccess(k)
      [] result = "transient"                -> AfterFailure(k)
      [] result \in {"ended", "panic"}       -> AfterCanceled(k)

Report(c, result) ==
    /\ caller[c].pc = "call"
    /\ circuit' = [circuit EXCEPT ![caller[c].at] = Verdict(@, result)]
    /\ caller' = [caller EXCEPT ![c].pc = "release",
                     ![c].retry = result = "transient"]
    /\ UNCHANGED <<row, sems, changes>>

\* The slot is freed; a transient failure fails over to another backend unless
\* the context has ended meanwhile.
Release(c) ==
    /\ caller[c].pc = "release"
    /\ FreeSlot(c)
    /\ \/ /\ caller[c].retry
          /\ caller' = [caller EXCEPT ![c] =
                           [Resting EXCEPT !.pc = "read", !.tried = caller[c].tried]]
       \/ caller' = [caller EXCEPT ![c] = Resting]
    /\ UNCHANGED <<row, circuit, changes>>

-----------------------------------------------------------------------------
Start(c) ==
    /\ caller[c].pc = "idle"
    /\ caller' = [caller EXCEPT ![c].pc = "read"]
    /\ UNCHANGED <<row, circuit, sems, changes>>

Cool(b) ==
    /\ circuit[b].state = "open" /\ ~circuit[b].cooled
    /\ circuit' = [circuit EXCEPT ![b].cooled = TRUE]
    /\ UNCHANGED <<row, sems, caller, changes>>

\* An operator's change of the row commits; the table's CHECK keeps max_in_flight
\* positive.  Calls under way keep the snapshot they read.
UpdateBackend(b) ==
    /\ changes < MaxChanges
    /\ changes' = changes + 1
    /\ \E e \in BOOLEAN, n \in Capacities :
          row' = [row EXCEPT ![b] = [enabled |-> e, cap |-> n]]
    /\ UNCHANGED <<circuit, sems, caller>>

CallerStep(c) ==
    \/ ReadBackends(c) \/ GiveUp(c) \/ NextCandidate(c) \/ TryAcquire(c)
    \/ AskBreaker(c) \/ SkipCandidate(c) \/ Release(c)
    \/ \E result \in CallResult : Report(c, result)

Next ==
    \/ \E c \in Callers : Start(c) \/ CallerStep(c)
    \/ \E b \in Backends : Cool(b) \/ UpdateBackend(b)

Spec == Init /\ [][Next]_vars

\* A started request goes on (each attempt has a timeout), and time passes.
FairSpec ==
    /\ Spec
    /\ \A c \in Callers : WF_vars(CallerStep(c))
    /\ \A b \in Backends : WF_vars(Cool(b))

\* In addition requests keep arriving, and the store answers.
BusySpec ==
    /\ FairSpec
    /\ \A c \in Callers : WF_vars(Start(c)) /\ SF_vars(ReadBackends(c))

-----------------------------------------------------------------------------
CircuitEntry == [state : {"closed", "open", "half_open"}, failures : Nat,
                 cooled : BOOLEAN, probing : BOOLEAN]
Semaphore == [cap : Capacities, used : Nat]
Holding == {"allow", "skip", "call", "release"}
CallerState == [pc : {"idle", "read", "try", "acquire"} \cup Holding,
                tried : SUBSET Backends,
                left : SUBSET [id : Backends, cap : Capacities],
                at : Backends \cup {NoBackend}, gen : Nat,
                probe : BOOLEAN, retry : BOOLEAN]

\* Type invariant.
TypeOK ==
    /\ row \in [Backends -> [enabled : BOOLEAN, cap : Capacities]]
    /\ circuit \in [Backends -> CircuitEntry]
    /\ sems \in [Backends -> Seq(Semaphore)]
    /\ caller \in [Callers -> CallerState]
    /\ changes \in 0..MaxChanges

\* A reserved probe has an owner whose report is still to come: whatever order
\* stragglers report in, no backend is left unprobeable (ReportCanceled: "a
\* canceled probe cannot leave the backend unprobeable forever").
ProbeOwned ==
    \A b \in Backends : circuit[b].probing =>
        /\ circuit[b].state = "half_open"
        /\ \E c \in Callers : /\ caller[c].pc = "call" /\ caller[c].at = b
                              /\ caller[c].probe

\* Every slot in use belongs to a caller that will free it, and no instance
\* admits more than its capacity (Select: the caller releases exactly once; a
\* refused candidate is released on the spot).
Holders(b, g) == {c \in Callers : /\ caller[c].at = b /\ caller[c].gen = g
                                  /\ caller[c].pc \in Holding}
SlotsAccounted ==
    \A b \in Backends : \A g \in DOMAIN sems[b] :
        /\ sems[b][g].used = Cardinality(Holders(b, g))
        /\ sems[b][g].used <= sems[b][g].cap

\* Between semaphoreFor and release a caller refers to a semaphore that exists.
\* Part of the inductive invariant.
Placed ==
    \A c \in Callers :
        caller[c].pc \in {"acquire"} \cup Holding =>
            caller[c].at \in Backends /\ caller[c].gen \in DOMAIN sems[caller[c].at]

\* A closed circuit is short of the threshold: recovery starts the count of
\* consecutive failures afresh.
ClosedBelowThreshold ==
    \A b \in Backends : circuit[b].state = "closed" => circuit[b].failures < Threshold

\* An open circuit is left only through a probe after its cooldown, and reports
\* of stragglers neither end nor prolong it (ReportSuccess, ReportFailure).
OpenUntilCooled ==
    [][\A b \in Backends : circuit[b].state = "open" =>
          \/ circuit'[b] = circuit[b]
          \/ circuit'[b] = [circuit[b] EXCEPT !.cooled = TRUE]
          \/ /\ circuit[b].cooled
             /\ circuit'[b] = [circuit[b] EXCEPT !.state = "half_open",
                                                 !.probing = TRUE]]_vars

\* Every reserved probe is given back.
ProbeEnds == \A b \in Backends : circuit[b].probing ~> ~circuit[b].probing

\* While requests keep coming, an open circuit is probed again.
OpenEnds ==
    \A b \in Backends : circuit[b].state = "open" ~> circuit[b].state # "open"

-----------------------------------------------------------------------------
(* What comments of the code promise and some behaviours do not keep.      *)

\* Allow: "exactly one caller is admitted as the probe; further half-open
\* callers are refused until the probe's outcome is reported".
OneProbe ==
    \A c, d \in Callers :
        /\ c # d /\ caller[c].at = caller[d].at
        /\ caller[c].pc = "call" /\ caller[d].pc = "call"
        /\ caller[c].probe /\ caller[d].probe
        => circuit[caller[c].at].state # "half_open"

\* ReportSuccess: "the half-open probe is the only evidence that ends an open
\* state".
OnlyProbeCloses ==
    [][\A b \in Backends :
          circuit[b].state = "half_open" /\ circuit'[b].state = "closed" =>
              \E c \in Callers : /\ caller[c].at = b /\ caller[c].probe
                                 /\ caller[c].pc = "call" /\ caller'[c].pc # "call"]_vars
=============================================================================
