--------------------------- MODULE ChatPathProofs ---------------------------
(***************************************************************************)
(* The parts of a chat completion, proved one by one: the router with its  *)
(* breaker and slots, the response cache, and the inference client with    *)
(* its retries.                                                            *)
(***************************************************************************)
EXTENDS Routing, ResponseCache, InferenceClient, FiniteSetTheorems, TLAPS

-----------------------------------------------------------------------------
(***************************************************************************)
(* Routing, for any backends, capacities and threshold and any finite set  *)
(* of callers: reserved probes are owned, slots are accounted for, a       *)
(* closed circuit is short of its threshold, and an open one stays open    *)
(* until it has cooled.                                                    *)
(***************************************************************************)

\* The breaker's methods keep an entry well typed.
LEMMA EntryTyped ==
    ASSUME NEW k \in CircuitEntry, NEW r \in CallResult
    PROVE  AfterAllow(k) \in CircuitEntry /\ Verdict(k, r) \in CircuitEntry
  <1> USE DEF CircuitEntry
  <1>1. AfterSuccess(k) \in CircuitEntry
    BY DEF AfterSuccess
  <1>2. AfterFailure(k) \in CircuitEntry
    <2>1. k.failures \in Nat /\ k.failures + 1 \in Nat
      OBVIOUS
    <2> QED BY <2>1, RoutingAssumption DEF AfterFailure, Opened
  <1>3. AfterCanceled(k) \in CircuitEntry
    BY DEF AfterCanceled
  <1>4. AfterAllow(k) \in CircuitEntry
    BY DEF AfterAllow
  <1> HIDE DEF CircuitEntry
  <1> QED BY <1>1, <1>2, <1>3, <1>4 DEF Verdict, CallResult

\* A step that gives caller c the state x, and no other caller a new state.
Becomes(c, x) == caller' = [caller EXCEPT ![c] = x]

\* Such a step keeps Placed if x is placed and no semaphore disappears.
LEMMA PlacedKept ==
    ASSUME TypeOK, Placed, NEW c \in Callers, NEW x \in CallerState, Becomes(c, x),
           sems' \in [Backends -> Seq(Semaphore)],
           \A b \in Backends : DOMAIN sems[b] \subseteq DOMAIN sems'[b],
           x.pc \in {"acquire"} \cup Holding =>
               x.at \in Backends /\ x.gen \in DOMAIN sems'[x.at]
    PROVE  caller' \in [Callers -> CallerState] /\ Placed'
  <1>1. caller' \in [Callers -> CallerState]
    BY DEF TypeOK, Becomes
  <1>2. ASSUME NEW d \in Callers, caller'[d].pc \in {"acquire"} \cup Holding
        PROVE  caller'[d].at \in Backends /\ caller'[d].gen \in DOMAIN sems'[caller'[d].at]
    <2>1. CASE d = c
      BY <1>2, <2>1 DEF TypeOK, Becomes
    <2>2. CASE d # c
      <3>1. caller'[d] = caller[d]
        BY <2>2 DEF TypeOK, Becomes
      <3> QED BY <1>2, <3>1 DEF Placed
    <2> QED BY <2>1, <2>2
  <1> QED BY <1>1, <1>2 DEF Placed

\* Writing the counter of the semaphore a caller refers to.
LEMMA SlotWrite ==
    ASSUME TypeOK, Placed, NEW c \in Callers, NEW n \in Nat,
           caller[c].pc \in {"acquire"} \cup Holding,
           sems' = [sems EXCEPT ![caller[c].at][caller[c].gen].used = n]
    PROVE  /\ sems' \in [Backends -> Seq(Semaphore)]
           /\ \A b \in Backends : DOMAIN sems'[b] = DOMAIN sems[b]
           /\ \A b \in Backends : \A g \in DOMAIN sems[b] :
                 /\ sems'[b][g].cap = sems[b][g].cap
                 /\ sems'[b][g].used =
                       IF b = caller[c].at /\ g = caller[c].gen THEN n
                       ELSE sems[b][g].used
  <1> DEFINE b0 == caller[c].at
             g0 == caller[c].gen
             e  == [sems[b0][g0] EXCEPT !.used = n]
             S  == [sems[b0] EXCEPT ![g0] = e]
  <1>1. b0 \in Backends /\ g0 \in DOMAIN sems[b0]
    BY DEF Placed
  <1>2. sems[b0] \in Seq(Semaphore) /\ sems[b0][g0] \in Semaphore
    BY <1>1 DEF TypeOK
  <1>3. e \in Semaphore /\ e.cap = sems[b0][g0].cap /\ e.used = n
    BY <1>2 DEF Semaphore
  <1>4. S \in Seq(Semaphore) /\ DOMAIN S = DOMAIN sems[b0]
    BY <1>1, <1>2, <1>3
  <1>5. sems' = [sems EXCEPT ![b0] = S]
    OBVIOUS
  <1> HIDE DEF e
  <1>6. \A b \in Backends : sems'[b] = IF b = b0 THEN S ELSE sems[b]
    BY <1>1, <1>5 DEF TypeOK
  <1>7. \A g \in DOMAIN sems[b0] : S[g] = IF g = g0 THEN e ELSE sems[b0][g]
    BY <1>1, <1>2
  <1> HIDE DEF S
  <1>8. sems' \in [Backends -> Seq(Semaphore)]
    BY <1>1, <1>4, <1>5 DEF TypeOK
  <1> HIDE DEF b0, g0
  <1>9. \A b \in Backends : DOMAIN sems'[b] = DOMAIN sems[b]
    BY <1>1, <1>4, <1>6
  <1>10. ASSUME NEW b \in Backends, NEW g \in DOMAIN sems[b]
         PROVE  /\ sems'[b][g].cap = sems[b][g].cap
                /\ sems'[b][g].used = IF b = b0 /\ g = g0 THEN n ELSE sems[b][g].used
    <2>1. sems'[b][g] = IF b = b0 /\ g = g0 THEN e ELSE sems[b][g]
      <3>1. CASE b = b0
        <4>1. sems'[b] = S
          BY <1>6, <3>1
        <4> QED BY <1>7, <3>1, <4>1
      <3>2. CASE b # b0
        <4>1. sems'[b] = sems[b]
          BY <1>6, <3>2
        <4> QED BY <3>2, <4>1
      <3> QED BY <3>1, <3>2
    <2>2. CASE b = b0 /\ g = g0
      <3>1. sems'[b][g] = e /\ sems[b][g] = sems[b0][g0]
        BY <2>1, <2>2
      <3> QED BY <1>3, <2>2, <3>1
    <2>3. CASE ~(b = b0 /\ g = g0)
      <3>1. sems'[b][g] = sems[b][g]
        BY <2>1, <2>3
      <3>2. sems'[b][g].cap = sems[b][g].cap /\ sems'[b][g].used = sems[b][g].used
        BY <3>1
      <3> HIDE DEF b0, g0
      <3> QED BY <2>3, <3>2
    <2> QED BY <2>2, <2>3
  <1> QED BY <1>8, <1>9, <1>10 DEF b0, g0

\* FreeSlot is such a write.
LEMMA FreeWrites ==
    ASSUME TypeOK, Placed, NEW c \in Callers, caller[c].pc \in Holding, FreeSlot(c)
    PROVE  /\ Sem(c) \in Semaphore
           /\ sems' = [sems EXCEPT ![caller[c].at][caller[c].gen].used =
                         IF Sem(c).used > 0 THEN Sem(c).used - 1 ELSE Sem(c).used]
           /\ (IF Sem(c).used > 0 THEN Sem(c).used - 1 ELSE Sem(c).used) \in Nat
  <1>1. caller[c].at \in Backends /\ caller[c].gen \in DOMAIN sems[caller[c].at]
    BY DEF Placed
  <1>2. Sem(c) \in Semaphore
    BY <1>1 DEF TypeOK, Sem
  <1>3. Sem(c).used \in Nat
    BY <1>2 DEF Semaphore
  <1>4. sems' = [sems EXCEPT ![caller[c].at][caller[c].gen].used =
                         IF Sem(c).used > 0 THEN Sem(c).used - 1 ELSE Sem(c).used]
    BY <1>1 DEF FreeSlot, Sem, TypeOK
  <1> QED BY <1>2, <1>3, <1>4

\* What each step of caller c makes of its state.
LEMMA CallerSteps ==
    ASSUME TypeOK, Placed, NEW c \in Callers, Start(c) \/ CallerStep(c)
    PROVE  TypeOK' /\ Placed'
  <1> USE RoutingAssumption
  <1> DEFINE s == caller[c]
  <1>0. s \in CallerState
    BY DEF TypeOK
  <1> HIDE DEF s
  <1>1. CASE Start(c)
    <2> DEFINE x == [s EXCEPT !.pc = "read"]
    <2>1. x \in CallerState /\ x.pc = "read"
      BY <1>0 DEF CallerState, Holding
    <2>2. Becomes(c, x)
      BY <1>1 DEF Start, Becomes, s
    <2>3. caller' \in [Callers -> CallerState] /\ Placed'
      BY <1>1, <2>1, <2>2, PlacedKept DEF Start, TypeOK, Holding
    <2> QED BY <1>1, <2>3 DEF Start, TypeOK
  <1>2. CASE ReadBackends(c)
    <2> DEFINE L == {[id |-> b, cap |-> row[b].cap] :
                        b \in {d \in Backends : row[d].enabled} \ s.tried}
               x == [s EXCEPT !.pc = "try", !.left = L]
    <2>1. L \subseteq [id : Backends, cap : Capacities]
      BY DEF TypeOK
    <2> HIDE DEF L
    <2>2. x \in CallerState /\ x.pc = "try"
      BY <1>0, <2>1 DEF CallerState, Holding
    <2>3. Becomes(c, x)
      BY <1>2 DEF ReadBackends, Becomes, s, L
    <2>4. caller' \in [Callers -> CallerState] /\ Placed'
      BY <1>2, <2>2, <2>3, PlacedKept DEF ReadBackends, TypeOK, Holding
    <2> QED BY <1>2, <2>4 DEF ReadBackends, TypeOK
  <1>3. CASE GiveUp(c)
    <2>1. Resting \in CallerState /\ Resting.pc = "idle"
      BY DEF CallerState, Resting
    <2>2. Becomes(c, Resting)
      BY <1>3 DEF GiveUp, Becomes
    <2>3. caller' \in [Callers -> CallerState] /\ Placed'
      BY <1>3, <2>1, <2>2, PlacedKept DEF GiveUp, TypeOK, Holding
    <2> QED BY <1>3, <2>3 DEF GiveUp, TypeOK
  <1>4. CASE NextCandidate(c)
    <2>1. PICK y \in FirstOf(s.left) :
             LET S == sems[y.id]
                 T == IF S # <<>> /\ S[Len(S)].cap = y.cap THEN S
                      ELSE Append(S, [cap |-> y.cap, used |-> 0])
             IN  /\ sems' = [sems EXCEPT ![y.id] = T]
                 /\ caller' = [caller EXCEPT ![c].pc = "acquire",
                               ![c].left = @ \ {y}, ![c].at = y.id,
                               ![c].gen = Len(T)]
      BY <1>4 DEF NextCandidate, s
    <2>2. y \in [id : Backends, cap : Capacities]
      BY <1>0, <2>1 DEF FirstOf, CallerState
    <2> DEFINE S == sems[y.id]
               T == IF S # <<>> /\ S[Len(S)].cap = y.cap THEN S
                    ELSE Append(S, [cap |-> y.cap, used |-> 0])
               x == [s EXCEPT !.pc = "acquire", !.left = @ \ {y}, !.at = y.id,
                              !.gen = Len(T)]
    <2>3. S \in Seq(Semaphore) /\ [cap |-> y.cap, used |-> 0] \in Semaphore
      BY <2>2 DEF TypeOK, Semaphore
    <2>4. T \in Seq(Semaphore) /\ Len(T) \in DOMAIN T /\ DOMAIN S \subseteq DOMAIN T
      BY <2>3
    <2>5. sems' = [sems EXCEPT ![y.id] = T] /\ Becomes(c, x)
      BY <2>1 DEF Becomes, s
    <2> HIDE DEF T
    <2>6. /\ sems' \in [Backends -> Seq(Semaphore)] /\ sems'[y.id] = T
          /\ \A b \in Backends : DOMAIN sems[b] \subseteq DOMAIN sems'[b]
      BY <2>2, <2>4, <2>5 DEF TypeOK
    <2>7. x \in CallerState /\ x.at = y.id /\ x.gen = Len(T)
      <3>1. y.id \in Backends /\ Len(T) \in Nat
        BY <2>2, <2>4
      <3>2. s.left \ {y} \in SUBSET [id : Backends, cap : Capacities]
        BY <1>0 DEF CallerState
      <3> QED BY <1>0, <3>1, <3>2 DEF CallerState
    <2>8. caller' \in [Callers -> CallerState] /\ Placed'
      BY <2>2, <2>4, <2>5, <2>6, <2>7, PlacedKept
    <2> QED BY <1>4, <2>6, <2>8 DEF NextCandidate, TypeOK
  <1>5. CASE TryAcquire(c)
    <2>0. s.pc = "acquire"
      BY <1>5 DEF TryAcquire, s
    <2>1. s.at \in Backends /\ s.gen \in DOMAIN sems[s.at] /\ Sem(c).used \in Nat
      <3>1. s.at \in Backends /\ s.gen \in DOMAIN sems[s.at]
        BY <2>0 DEF Placed, s
      <3>2. Sem(c) \in Semaphore
        BY <3>1 DEF Sem, TypeOK, s
      <3> QED BY <3>1, <3>2 DEF Semaphore
    <2>2. CASE Sem(c).used < Sem(c).cap
      <3> DEFINE x == [s EXCEPT !.pc = "allow"]
      <3>1. sems' = [sems EXCEPT ![caller[c].at][caller[c].gen].used = Sem(c).used + 1]
        BY <1>5, <2>1, <2>2 DEF TryAcquire, Sem, TypeOK, s
      <3>2. Sem(c).used + 1 \in Nat
        BY <2>1
      <3>3. /\ sems' \in [Backends -> Seq(Semaphore)]
            /\ \A b \in Backends : DOMAIN sems'[b] = DOMAIN sems[b]
        BY <2>0, <3>1, <3>2, SlotWrite DEF s
      <3>4. x \in CallerState /\ x.at = s.at /\ x.gen = s.gen
        BY <1>0 DEF CallerState, Holding
      <3>5. Becomes(c, x)
        BY <1>5, <2>2 DEF TryAcquire, Becomes, s
      <3>6. caller' \in [Callers -> CallerState] /\ Placed'
        BY <2>1, <3>3, <3>4, <3>5, PlacedKept
      <3> QED BY <1>5, <3>3, <3>6 DEF TryAcquire, TypeOK
    <2>3. CASE ~(Sem(c).used < Sem(c).cap)
      <3> DEFINE x == [s EXCEPT !.pc = "try", !.at = NoBackend, !.gen = 0]
      <3>1. x \in CallerState /\ x.pc = "try"
        BY <1>0 DEF CallerState
      <3>2. Becomes(c, x) /\ sems' = sems
        BY <1>5, <2>3 DEF TryAcquire, Becomes, s
      <3>3. caller' \in [Callers -> CallerState] /\ Placed'
        BY <3>1, <3>2, PlacedKept DEF TypeOK, Holding
      <3> QED BY <1>5, <3>2, <3>3 DEF TryAcquire, TypeOK
    <2> QED BY <2>2, <2>3
  <1>6. CASE AskBreaker(c)
    <2>0. s.pc = "allow"
      BY <1>6 DEF AskBreaker, s
    <2>1. s.at \in Backends /\ s.gen \in DOMAIN sems[s.at]
      BY <2>0 DEF Placed, Holding, s
    <2>2. AfterAllow(circuit[s.at]) \in CircuitEntry
      BY <2>1, EntryTyped DEF TypeOK, CallResult
    <2>3. CASE Admits(circuit[s.at])
      <3> DEFINE x == [s EXCEPT !.pc = "call", !.tried = @ \cup {s.at},
                                !.probe = circuit[s.at].state # "closed"]
      <3>1. x \in CallerState /\ x.at = s.at /\ x.gen = s.gen
        BY <1>0, <2>1 DEF CallerState, Holding
      <3>2. Becomes(c, x)
        BY <1>6, <2>3 DEF AskBreaker, Becomes, s
      <3>3. caller' \in [Callers -> CallerState] /\ Placed'
        BY <1>6, <2>1, <3>1, <3>2, PlacedKept DEF AskBreaker, TypeOK
      <3>4. circuit' \in [Backends -> CircuitEntry]
        BY <1>6, <2>1, <2>2, <2>3 DEF AskBreaker, TypeOK, s
      <3> QED BY <1>6, <3>3, <3>4 DEF AskBreaker, TypeOK
    <2>4. CASE ~Admits(circuit[s.at])
      <3> DEFINE x == [s EXCEPT !.pc = "skip"]
      <3>1. x \in CallerState /\ x.at = s.at /\ x.gen = s.gen
        BY <1>0, <2>1 DEF CallerState, Holding
      <3>2. Becomes(c, x) /\ circuit' = circuit
        BY <1>6, <2>4 DEF AskBreaker, Becomes, s
      <3>3. caller' \in [Callers -> CallerState] /\ Placed'
        BY <1>6, <2>1, <3>1, <3>2, PlacedKept DEF AskBreaker, TypeOK
      <3> QED BY <1>6, <3>2, <3>3 DEF AskBreaker, TypeOK
    <2> QED BY <2>3, <2>4
  <1>7. CASE SkipCandidate(c)
    <2> DEFINE x == [s EXCEPT !.pc = "try", !.at = NoBackend, !.gen = 0]
    <2>1. /\ sems' \in [Backends -> Seq(Semaphore)]
          /\ \A b \in Backends : DOMAIN sems'[b] = DOMAIN sems[b]
      BY <1>7, FreeWrites, SlotWrite DEF SkipCandidate, Holding
    <2>2. x \in CallerState /\ x.pc = "try"
      BY <1>0 DEF CallerState
    <2>3. Becomes(c, x)
      BY <1>7 DEF SkipCandidate, Becomes, s
    <2>4. caller' \in [Callers -> CallerState] /\ Placed'
      BY <2>1, <2>2, <2>3, PlacedKept DEF Holding
    <2> QED BY <1>7, <2>1, <2>4 DEF SkipCandidate, TypeOK
  <1>8. ASSUME NEW r \in CallResult, Report(c, r)
        PROVE  TypeOK' /\ Placed'
    <2> DEFINE x == [s EXCEPT !.pc = "release", !.retry = r = "transient"]
    <2>0. s.pc = "call"
      BY <1>8 DEF Report, s
    <2>1. s.at \in Backends /\ s.gen \in DOMAIN sems[s.at]
      BY <2>0 DEF Placed, Holding, s
    <2>2. Verdict(circuit[s.at], r) \in CircuitEntry
      BY <1>8, <2>1, EntryTyped DEF TypeOK
    <2>3. x \in CallerState /\ x.at = s.at /\ x.gen = s.gen
      BY <1>0 DEF CallerState, Holding
    <2>4. Becomes(c, x)
      BY <1>8 DEF Report, Becomes, s
    <2>5. caller' \in [Callers -> CallerState] /\ Placed'
      BY <1>8, <2>1, <2>3, <2>4, PlacedKept DEF Report, TypeOK
    <2>6. circuit' \in [Backends -> CircuitEntry]
      BY <1>8, <2>1, <2>2 DEF Report, TypeOK, s
    <2> QED BY <1>8, <2>5, <2>6 DEF Report, TypeOK
  <1>9. CASE Release(c)
    <2> DEFINE x == [Resting EXCEPT !.pc = "read", !.tried = s.tried]
    <2>1. /\ sems' \in [Backends -> Seq(Semaphore)]
          /\ \A b \in Backends : DOMAIN sems'[b] = DOMAIN sems[b]
      BY <1>9, FreeWrites, SlotWrite DEF Release, Holding
    <2>2. /\ x \in CallerState /\ x.pc = "read"
          /\ Resting \in CallerState /\ Resting.pc = "idle"
      BY <1>0 DEF CallerState, Resting
    <2>3. Becomes(c, x) \/ Becomes(c, Resting)
      BY <1>9 DEF Release, Becomes, s
    <2> HIDE DEF x
    <2>4. caller' \in [Callers -> CallerState] /\ Placed'
      BY <2>1, <2>2, <2>3, PlacedKept DEF Holding
    <2> QED BY <1>9, <2>1, <2>4 DEF Release, TypeOK
  <1> QED BY <1>1, <1>2, <1>3, <1>4, <1>5, <1>6, <1>7, <1>8, <1>9 DEF CallerStep

\* Every variable keeps its type, and a caller's reference to a semaphore stays
\* valid: semaphoreFor adds instances and removes none that is in use.
LEMMA TypeStep ==
    ASSUME TypeOK, Placed, [Next]_vars
    PROVE  TypeOK' /\ Placed'
  <1>1. ASSUME NEW b \in Backends, Cool(b) PROVE TypeOK' /\ Placed'
    <2>1. [circuit[b] EXCEPT !.cooled = TRUE] \in CircuitEntry
      BY DEF TypeOK, CircuitEntry
    <2> QED BY <1>1, <2>1 DEF Cool, TypeOK, Placed
  <1>2. ASSUME NEW b \in Backends, UpdateBackend(b) PROVE TypeOK' /\ Placed'
    BY <1>2, RoutingAssumption DEF UpdateBackend, TypeOK, Placed
  <1>3. CASE UNCHANGED vars
    BY <1>3 DEF vars, TypeOK, Placed
  <1> QED BY <1>1, <1>2, <1>3, CallerSteps DEF Next

\* The initial states.
LEMMA TypeInit == Init => TypeOK /\ Placed
  <1> SUFFICES ASSUME Init PROVE TypeOK /\ Placed
    OBVIOUS
  <1>1. Closed \in CircuitEntry /\ Resting \in CallerState /\ Resting.pc = "idle"
    BY DEF Closed, CircuitEntry, Resting, CallerState
  <1>2. sems \in [Backends -> Seq(Semaphore)]
    BY DEF Init
  <1>3. row \in [Backends -> [enabled : BOOLEAN, cap : Capacities]]
    BY DEF Init
  <1>4. /\ circuit \in [Backends -> CircuitEntry]
        /\ caller \in [Callers -> CallerState]
        /\ \A c \in Callers : caller[c].pc = "idle"
    BY <1>1 DEF Init
  <1>5. changes \in 0..MaxChanges
    BY RoutingAssumption DEF Init
  <1> QED BY <1>2, <1>3, <1>4, <1>5 DEF TypeOK, Placed, Holding

\* Every state is well typed, whatever the callers, the calls' outcomes and the
\* operator's updates do.
THEOREM TypeCorrect == Spec => []TypeOK
  <1>1. Init => TypeOK /\ Placed
    BY TypeInit
  <1>2. TypeOK /\ Placed /\ [Next]_vars => TypeOK' /\ Placed'
    BY TypeStep
  <1> QED BY <1>1, <1>2, PTL DEF Spec

\* A method of the breaker leaves an entry that is not probing outside half-open,
\* and a closed one short of the threshold.
Sound(k) == /\ k.probing => k.state = "half_open"
            /\ k.state = "closed" => k.failures < Threshold

\* Every method of the breaker keeps an entry sound.
LEMMA EntrySound ==
    ASSUME NEW k \in CircuitEntry, Sound(k), NEW r \in CallResult
    PROVE  /\ Sound(AfterAllow(k))
           /\ Sound(Verdict(k, r)) /\ ~Verdict(k, r).probing
  <1> USE RoutingAssumption DEF CircuitEntry, Sound
  <1>1. Sound(AfterSuccess(k)) /\ ~AfterSuccess(k).probing
    BY DEF AfterSuccess
  <1>2. Sound(AfterFailure(k)) /\ ~AfterFailure(k).probing
    BY DEF AfterFailure, Opened
  <1>3. Sound(AfterCanceled(k)) /\ ~AfterCanceled(k).probing
    BY DEF AfterCanceled
  <1>4. Sound(AfterAllow(k))
    BY DEF AfterAllow
  <1> HIDE DEF CircuitEntry, Sound
  <1> QED BY <1>1, <1>2, <1>3, <1>4 DEF Verdict, CallResult

\* ProbeOwned with what each breaker entry contributes to it.
Owned == ProbeOwned /\ \A b \in Backends : Sound(circuit[b])

\* A caller that is not in a call can move without taking an owner away.
LEMMA OwnersKept ==
    ASSUME TypeOK, Owned, NEW c \in Callers, NEW x, Becomes(c, x),
           caller[c].pc # "call", circuit' = circuit
    PROVE  Owned'
  <1>1. ASSUME NEW b \in Backends, circuit'[b].probing
        PROVE  /\ circuit'[b].state = "half_open"
               /\ \E d \in Callers : /\ caller'[d].pc = "call" /\ caller'[d].at = b
                                     /\ caller'[d].probe
    <2>1. circuit[b].state = "half_open"
      BY <1>1 DEF Owned, ProbeOwned
    <2>2. PICK d \in Callers : /\ caller[d].pc = "call" /\ caller[d].at = b
                               /\ caller[d].probe
      BY <1>1 DEF Owned, ProbeOwned
    <2>3. caller'[d] = caller[d]
      BY <2>2 DEF TypeOK, Becomes
    <2> QED BY <2>1, <2>2, <2>3
  <1> QED BY <1>1 DEF Owned, ProbeOwned

\* Every step keeps the owners of reserved probes.
LEMMA OwnedStep ==
    ASSUME TypeOK, Placed, Owned, [Next]_vars
    PROVE  Owned'
  <1>1. ASSUME NEW c \in Callers, Start(c) \/ CallerStep(c), caller[c].pc # "call",
               circuit' = circuit
        PROVE  Owned'
    <2>1. \E x : Becomes(c, x)
      BY <1>1 DEF Start, CallerStep, ReadBackends, GiveUp, NextCandidate, TryAcquire,
         AskBreaker, SkipCandidate, Release, Report, Becomes
    <2> QED BY <1>1, <2>1, OwnersKept
  <1>2. ASSUME NEW c \in Callers, AskBreaker(c), Admits(circuit[caller[c].at])
        PROVE  Owned'
    <2> DEFINE a == caller[c].at
               k == circuit[a]
    <2>1. a \in Backends /\ k \in CircuitEntry /\ Sound(k)
      BY <1>2 DEF AskBreaker, Placed, Holding, TypeOK, Owned
    <2>2. Sound(AfterAllow(k))
      BY <2>1, EntrySound DEF CallResult
    <2>3. \A b \in Backends : circuit'[b] = IF b = a THEN AfterAllow(k) ELSE circuit[b]
      BY <1>2, <2>1 DEF AskBreaker, TypeOK
    <2>4. /\ \A d \in Callers : d # c => caller'[d] = caller[d]
          /\ caller'[c].pc = "call" /\ caller'[c].at = a
          /\ caller'[c].probe = (k.state # "closed")
      BY <1>2 DEF AskBreaker, TypeOK, CallerState
    <2>5. caller[c].pc = "allow"
      BY <1>2 DEF AskBreaker
    <2>6. AfterAllow(k).probing => k.state # "closed" /\ AfterAllow(k).state = "half_open"
      BY <2>1, <2>2 DEF AfterAllow, Sound
    <2> HIDE DEF a, k
    <2>7. ASSUME NEW b \in Backends, circuit'[b].probing
          PROVE  /\ circuit'[b].state = "half_open"
                 /\ \E d \in Callers : /\ caller'[d].pc = "call" /\ caller'[d].at = b
                                       /\ caller'[d].probe
      <3>1. CASE b = a
        BY <2>3, <2>4, <2>6, <2>7, <3>1
      <3>2. CASE b # a
        <4>1. circuit'[b] = circuit[b]
          BY <2>3, <3>2
        <4>2. PICK d \in Callers : /\ caller[d].pc = "call" /\ caller[d].at = b
                                   /\ caller[d].probe
          BY <2>7, <4>1 DEF Owned, ProbeOwned
        <4>3. caller'[d] = caller[d]
          BY <2>4, <2>5, <4>2
        <4> QED BY <2>7, <4>1, <4>2, <4>3 DEF Owned, ProbeOwned
      <3> QED BY <3>1, <3>2
    <2>8. \A b \in Backends : Sound(circuit'[b])
      BY <2>2, <2>3 DEF Owned
    <2> QED BY <2>7, <2>8 DEF Owned, ProbeOwned, Sound
  <1>3. ASSUME NEW c \in Callers, NEW r \in CallResult, Report(c, r)
        PROVE  Owned'
    <2> DEFINE a == caller[c].at
               k == circuit[a]
    <2>1. a \in Backends /\ k \in CircuitEntry /\ Sound(k)
      BY <1>3 DEF Report, Placed, Holding, TypeOK, Owned
    <2>2. Sound(Verdict(k, r)) /\ ~Verdict(k, r).probing
      BY <2>1, EntrySound
    <2>3. \A b \in Backends : circuit'[b] = IF b = a THEN Verdict(k, r) ELSE circuit[b]
      BY <1>3, <2>1 DEF Report, TypeOK
    <2>4. \A d \in Callers : d # c => caller'[d] = caller[d]
      BY <1>3 DEF Report, TypeOK
    <2>7. ASSUME NEW b \in Backends, circuit'[b].probing
          PROVE  /\ circuit'[b].state = "half_open"
                 /\ \E d \in Callers : /\ caller'[d].pc = "call" /\ caller'[d].at = b
                                       /\ caller'[d].probe
      <3>1. b # a
        BY <2>2, <2>3, <2>7
      <3>2. circuit'[b] = circuit[b]
        BY <2>3, <3>1
      <3>3. PICK d \in Callers : /\ caller[d].pc = "call" /\ caller[d].at = b
                                 /\ caller[d].probe
        BY <2>7, <3>2 DEF Owned, ProbeOwned
      <3>4. caller'[d] = caller[d]
        BY <2>4, <3>1, <3>3
      <3> QED BY <2>7, <3>2, <3>3, <3>4 DEF Owned, ProbeOwned
    <2>8. \A b \in Backends : Sound(circuit'[b])
      BY <2>2, <2>3 DEF Owned
    <2> QED BY <2>7, <2>8 DEF Owned, ProbeOwned, Sound
  <1>4. ASSUME NEW b \in Backends, Cool(b) PROVE Owned'
    <2>1. \A d \in Backends : /\ circuit'[d].probing = circuit[d].probing
                              /\ circuit'[d].state = circuit[d].state
                              /\ circuit'[d].failures = circuit[d].failures
      BY <1>4 DEF Cool, TypeOK, CircuitEntry
    <2>2. caller' = caller
      BY <1>4 DEF Cool
    <2> QED BY <2>1, <2>2 DEF Owned, ProbeOwned, Sound
  <1>5. CASE (\E b \in Backends : UpdateBackend(b)) \/ UNCHANGED vars
    BY <1>5 DEF UpdateBackend, vars, Owned, ProbeOwned, Sound
  <1>6. ASSUME NEW c \in Callers, Start(c) \/ CallerStep(c) PROVE Owned'
    <2>1. CASE \E r \in CallResult : Report(c, r)
      BY <1>3, <2>1
    <2>2. CASE AskBreaker(c) /\ Admits(circuit[caller[c].at])
      BY <1>2, <2>2
    <2>3. CASE AskBreaker(c) /\ ~Admits(circuit[caller[c].at])
      <3>1. circuit' = circuit /\ caller[c].pc = "allow"
        BY <2>3 DEF AskBreaker
      <3> QED BY <1>1, <1>6, <3>1
    <2>4. CASE Start(c) \/ ReadBackends(c) \/ GiveUp(c) \/ NextCandidate(c)
               \/ TryAcquire(c) \/ SkipCandidate(c) \/ Release(c)
      <3>1. circuit' = circuit /\ caller[c].pc # "call"
        BY <2>4 DEF Start, ReadBackends, GiveUp, NextCandidate, TryAcquire,
           SkipCandidate, Release
      <3> QED BY <1>1, <1>6, <3>1
    <2> QED BY <1>6, <2>1, <2>2, <2>3, <2>4 DEF CallerStep
  <1> QED BY <1>4, <1>5, <1>6 DEF Next

\* Initially every circuit is closed.
LEMMA OwnedInit == Init => Owned
  <1> SUFFICES ASSUME Init PROVE Owned
    OBVIOUS
  <1>1. \A b \in Backends : circuit[b] = Closed
    BY DEF Init
  <1> QED BY <1>1, RoutingAssumption DEF Owned, ProbeOwned, Sound, Closed

\* Whatever order callers select, report, panic and fail over in, a reserved
\* probe slot belongs to a call whose report is still to come.
THEOREM ProbesOwned == Spec => []ProbeOwned
  <1>1. Init => TypeOK /\ Placed /\ Owned
    BY TypeInit, OwnedInit
  <1>2. TypeOK /\ Placed /\ Owned /\ [Next]_vars => TypeOK' /\ Placed' /\ Owned'
    BY TypeStep, OwnedStep
  <1>3. Owned => ProbeOwned
    BY DEF Owned
  <1> QED BY <1>1, <1>2, <1>3, PTL DEF Spec

\* A circuit that is closed, at first or after a successful probe, has counted
\* fewer consecutive failures than the threshold.
THEOREM ClosedShortOfThreshold == Spec => []ClosedBelowThreshold
  <1>1. Init => TypeOK /\ Placed /\ Owned
    BY TypeInit, OwnedInit
  <1>2. TypeOK /\ Placed /\ Owned /\ [Next]_vars => TypeOK' /\ Placed' /\ Owned'
    BY TypeStep, OwnedStep
  <1>3. Owned => ClosedBelowThreshold
    BY DEF Owned, Sound, ClosedBelowThreshold
  <1> QED BY <1>1, <1>2, <1>3, PTL DEF Spec

\* The holders of a semaphore are a finite set of callers.
LEMMA HoldersFinite ==
    ASSUME NEW b, NEW g
    PROVE  IsFiniteSet(Holders(b, g)) /\ Cardinality(Holders(b, g)) \in Nat
  <1>1. IsFiniteSet(Holders(b, g))
    BY RoutingAssumption, FS_Subset DEF Holders
  <1> QED BY <1>1, FS_CardinalityType

\* A step of c that changes neither the semaphores nor what c holds.
LEMMA SlotsFrame ==
    ASSUME TypeOK, SlotsAccounted, NEW c \in Callers, NEW x, Becomes(c, x),
           x.pc \in Holding <=> caller[c].pc \in Holding,
           caller[c].pc \in Holding => x.at = caller[c].at /\ x.gen = caller[c].gen
    PROVE  /\ \A b, g : Holders(b, g)' = Holders(b, g)
           /\ sems' = sems => SlotsAccounted'
  <1>1. \A d \in Callers : caller'[d] = IF d = c THEN x ELSE caller[d]
    BY DEF TypeOK, Becomes
  <1>2. \A b, g : Holders(b, g)' = Holders(b, g)
    BY <1>1 DEF Holders
  <1>3. ASSUME sems' = sems PROVE SlotsAccounted'
    BY <1>2, <1>3 DEF SlotsAccounted
  <1> QED BY <1>2, <1>3

\* Freeing: the slot is counted, so the counter is positive, and c leaves the
\* holders of exactly that semaphore.
LEMMA SlotsFreed ==
    ASSUME TypeOK, Placed, SlotsAccounted, NEW c \in Callers, NEW x, Becomes(c, x),
           caller[c].pc \in Holding, x.pc \notin Holding, FreeSlot(c)
    PROVE  SlotsAccounted'
  <1>0. PICK b0, g0 : b0 = caller[c].at /\ g0 = caller[c].gen
    OBVIOUS
  <1> DEFINE n == IF Sem(c).used > 0 THEN Sem(c).used - 1 ELSE Sem(c).used
  <1>1. b0 \in Backends /\ g0 \in DOMAIN sems[b0]
    BY <1>0 DEF Placed
  <1>2. Sem(c) = sems[b0][g0] /\ Sem(c).used \in Nat
    BY <1>0, FreeWrites DEF Sem, Semaphore
  <1>3. /\ \A b \in Backends : DOMAIN sems'[b] = DOMAIN sems[b]
        /\ \A b \in Backends : \A g \in DOMAIN sems[b] :
              /\ sems'[b][g].cap = sems[b][g].cap
              /\ sems'[b][g].used = IF b = b0 /\ g = g0 THEN n ELSE sems[b][g].used
    <2>1. sems' = [sems EXCEPT ![caller[c].at][caller[c].gen].used = n] /\ n \in Nat
      BY FreeWrites
    <2> HIDE DEF n
    <2>2. /\ \A b \in Backends : DOMAIN sems'[b] = DOMAIN sems[b]
          /\ \A b \in Backends : \A g \in DOMAIN sems[b] :
                /\ sems'[b][g].cap = sems[b][g].cap
                /\ sems'[b][g].used =
                      IF b = caller[c].at /\ g = caller[c].gen THEN n
                      ELSE sems[b][g].used
      BY <2>1, SlotWrite
    <2> QED BY <1>0, <2>2
  <1>4. \A d \in Callers : caller'[d] = IF d = c THEN x ELSE caller[d]
    BY DEF TypeOK, Becomes
  <1>5. c \in Holders(b0, g0) /\ Holders(b0, g0)' = Holders(b0, g0) \ {c}
    BY <1>0, <1>4 DEF Holders
  <1>6. \A b, g : ~(b = b0 /\ g = g0) => Holders(b, g)' = Holders(b, g)
    BY <1>0, <1>4 DEF Holders
  <1>7. Cardinality(Holders(b0, g0)') = Cardinality(Holders(b0, g0)) - 1
    BY <1>5, HoldersFinite, FS_RemoveElement
  <1>8. Cardinality(Holders(b0, g0)) > 0
    BY <1>5, HoldersFinite, FS_EmptySet
  <1>9. ASSUME NEW b \in Backends, NEW g \in DOMAIN sems'[b]
        PROVE  /\ sems'[b][g].used = Cardinality(Holders(b, g)')
               /\ sems'[b][g].used <= sems'[b][g].cap
    <2>1. g \in DOMAIN sems[b] /\ sems'[b][g].cap = sems[b][g].cap
      BY <1>3, <1>9
    <2>2. /\ sems[b][g].used = Cardinality(Holders(b, g))
          /\ sems[b][g].used <= sems[b][g].cap
      BY <2>1 DEF SlotsAccounted
    <2>3. sems[b][g] \in Semaphore
      BY <2>1 DEF TypeOK
    <2>4. sems[b][g].cap \in Nat /\ sems[b][g].used \in Nat
      BY <2>3, RoutingAssumption DEF Semaphore
    <2>5. CASE b = b0 /\ g = g0
      <3>1. sems'[b][g].used = sems[b][g].used - 1
        BY <1>2, <1>3, <1>8, <2>1, <2>2, <2>5
      <3> QED BY <1>7, <2>1, <2>2, <2>4, <2>5, <3>1
    <2>6. CASE ~(b = b0 /\ g = g0)
      <3>1. sems'[b][g].used = sems[b][g].used
        BY <1>3, <2>1, <2>6
      <3> QED BY <1>6, <2>1, <2>2, <2>6, <3>1
    <2> QED BY <2>5, <2>6
  <1> QED BY <1>9 DEF SlotsAccounted

\* Acquiring: only below the capacity, and c joins the holders.
LEMMA SlotsTaken ==
    ASSUME TypeOK, Placed, SlotsAccounted, NEW c \in Callers, TryAcquire(c),
           Sem(c).used < Sem(c).cap
    PROVE  SlotsAccounted'
  <1>0. PICK b0, g0 : b0 = caller[c].at /\ g0 = caller[c].gen
    OBVIOUS
  <1>1. caller[c].pc = "acquire" /\ b0 \in Backends /\ g0 \in DOMAIN sems[b0]
    BY <1>0 DEF Placed, TryAcquire
  <1>2. Sem(c) = sems[b0][g0] /\ sems[b0][g0] \in Semaphore
    BY <1>0, <1>1 DEF Sem, TypeOK
  <1>3. Sem(c).used \in Nat /\ Sem(c).used + 1 \in Nat
    BY <1>2 DEF Semaphore
  <1>4. sems' = [sems EXCEPT ![caller[c].at][caller[c].gen].used = Sem(c).used + 1]
    BY <1>0, <1>1 DEF TryAcquire, Sem, TypeOK
  <1>5. /\ \A b \in Backends : DOMAIN sems'[b] = DOMAIN sems[b]
        /\ \A b \in Backends : \A g \in DOMAIN sems[b] :
              /\ sems'[b][g].cap = sems[b][g].cap
              /\ sems'[b][g].used = IF b = b0 /\ g = g0 THEN Sem(c).used + 1
                                    ELSE sems[b][g].used
    <2> DEFINE n == Sem(c).used + 1
    <2>1. caller[c].pc \in {"acquire"} \cup Holding
      BY <1>1
    <2>2. sems' = [sems EXCEPT ![caller[c].at][caller[c].gen].used = n] /\ n \in Nat
      BY <1>3, <1>4
    <2> HIDE DEF n
    <2>3. /\ \A b \in Backends : DOMAIN sems'[b] = DOMAIN sems[b]
          /\ \A b \in Backends : \A g \in DOMAIN sems[b] :
                /\ sems'[b][g].cap = sems[b][g].cap
                /\ sems'[b][g].used =
                      IF b = caller[c].at /\ g = caller[c].gen THEN n
                      ELSE sems[b][g].used
      BY <2>1, <2>2, SlotWrite, ZenonT(60)
    <2> QED BY <1>0, <2>3 DEF n
  <1>6. /\ \A d \in Callers : d # c => caller'[d] = caller[d]
        /\ caller'[c].pc = "allow" /\ caller'[c].at = b0 /\ caller'[c].gen = g0
    BY <1>0 DEF TryAcquire, TypeOK, CallerState
  <1>7. c \notin Holders(b0, g0) /\ Holders(b0, g0)' = Holders(b0, g0) \cup {c}
    BY <1>0, <1>1, <1>6 DEF Holders, Holding
  <1>8. \A b, g : ~(b = b0 /\ g = g0) => Holders(b, g)' = Holders(b, g)
    BY <1>0, <1>1, <1>6 DEF Holders, Holding
  <1>9. Cardinality(Holders(b0, g0)') = Cardinality(Holders(b0, g0)) + 1
    BY <1>7, HoldersFinite, FS_AddElement
  <1>10. ASSUME NEW b \in Backends, NEW g \in DOMAIN sems'[b]
         PROVE  /\ sems'[b][g].used = Cardinality(Holders(b, g)')
                /\ sems'[b][g].used <= sems'[b][g].cap
    <2>1. g \in DOMAIN sems[b] /\ sems'[b][g].cap = sems[b][g].cap
      BY <1>5, <1>10
    <2>2. /\ sems[b][g].used = Cardinality(Holders(b, g))
          /\ sems[b][g].used <= sems[b][g].cap
      BY <2>1 DEF SlotsAccounted
    <2>3. sems[b][g] \in Semaphore
      BY <2>1 DEF TypeOK
    <2>4. sems[b][g].cap \in Nat /\ sems[b][g].used \in Nat
      BY <2>3, RoutingAssumption DEF Semaphore
    <2>5. CASE b = b0 /\ g = g0
      <3>1. sems'[b][g].used = sems[b][g].used + 1 /\ sems[b][g].used < sems[b][g].cap
        BY <1>2, <1>5, <2>1, <2>5
      <3> QED BY <1>9, <2>1, <2>2, <2>4, <2>5, <3>1
    <2>6. CASE ~(b = b0 /\ g = g0)
      <3>1. sems'[b][g].used = sems[b][g].used
        BY <1>5, <2>1, <2>6
      <3> QED BY <1>8, <2>1, <2>2, <2>6, <3>1
    <2> QED BY <2>5, <2>6
  <1> QED BY <1>10 DEF SlotsAccounted

\* Replacing: the old instance keeps its holders, and nobody refers to the new
\* one yet.
LEMMA SlotsReplaced ==
    ASSUME TypeOK, Placed, SlotsAccounted, NEW c \in Callers, NextCandidate(c)
    PROVE  SlotsAccounted'
  <1>1. PICK y \in FirstOf(caller[c].left) :
             LET S == sems[y.id]
                 T == IF S # <<>> /\ S[Len(S)].cap = y.cap THEN S
                      ELSE Append(S, [cap |-> y.cap, used |-> 0])
             IN  /\ sems' = [sems EXCEPT ![y.id] = T]
                 /\ caller' = [caller EXCEPT ![c].pc = "acquire",
                               ![c].left = @ \ {y}, ![c].at = y.id,
                               ![c].gen = Len(T)]
    BY DEF NextCandidate
  <1>2. y \in [id : Backends, cap : Capacities]
    BY <1>1 DEF FirstOf, TypeOK, CallerState
  <1>3. PICK a \in Backends, m \in Capacities : a = y.id /\ m = y.cap
    BY <1>2
  <1>4. sems[a] \in Seq(Semaphore)
    BY <1>3 DEF TypeOK
  <1> DEFINE N == [cap |-> m, used |-> 0]
  <1>5. sems' = sems \/ sems' = [sems EXCEPT ![a] = Append(sems[a], N)]
    BY <1>1, <1>3 DEF TypeOK
  <1>6. /\ \A d \in Callers : d # c => caller'[d] = caller[d]
        /\ caller'[c].pc = "acquire" /\ caller[c].pc = "try"
    BY <1>1 DEF NextCandidate, TypeOK, CallerState
  <1>7. \A b, g : Holders(b, g)' = Holders(b, g)
    BY <1>6 DEF Holders, Holding
  <1>8. CASE sems' = sems
    BY <1>7, <1>8 DEF SlotsAccounted
  <1>9. CASE sems' = [sems EXCEPT ![a] = Append(sems[a], N)]
    <2>1. /\ \A b \in Backends : b # a => sems'[b] = sems[b]
          /\ sems'[a] = Append(sems[a], N)
      BY <1>9 DEF TypeOK
    <2>2. ASSUME NEW b \in Backends, NEW g \in DOMAIN sems'[b]
          PROVE  /\ sems'[b][g].used = Cardinality(Holders(b, g)')
                 /\ sems'[b][g].used <= sems'[b][g].cap
      <3>1. CASE g \in DOMAIN sems[b]
        <4>1. sems'[b][g] = sems[b][g]
          BY <1>4, <2>1, <3>1
        <4> QED BY <1>7, <3>1, <4>1 DEF SlotsAccounted
      <3>2. CASE g \notin DOMAIN sems[b]
        <4>1. b = a /\ sems'[b][g] = N
          BY <1>4, <2>1, <2>2, <3>2
        <4>2. Holders(b, g) = {}
          BY <3>2 DEF Holders, Placed
        <4>3. Cardinality(Holders(b, g)') = 0
          BY <1>7, <4>2, FS_EmptySet
        <4> QED BY <1>3, <4>1, <4>3, RoutingAssumption
      <3> QED BY <3>1, <3>2
    <2> QED BY <2>2 DEF SlotsAccounted
  <1> QED BY <1>5, <1>8, <1>9

\* Every step keeps the accounts.
LEMMA SlotsStep ==
    ASSUME TypeOK, Placed, SlotsAccounted, [Next]_vars
    PROVE  SlotsAccounted'
  <1> USE DEF Holding
  <1>1. ASSUME NEW c \in Callers, Start(c) \/ CallerStep(c) PROVE SlotsAccounted'
    <2>0. caller[c] \in CallerState
      BY DEF TypeOK
    <2>1. CASE \/ Start(c) \/ ReadBackends(c) \/ GiveUp(c) \/ AskBreaker(c)
               \/ \E r \in CallResult : Report(c, r)
      <3>1. \E x : /\ Becomes(c, x)
                   /\ x.pc \in Holding <=> caller[c].pc \in Holding
                   /\ caller[c].pc \in Holding =>
                         x.at = caller[c].at /\ x.gen = caller[c].gen
        BY <2>0, <2>1 DEF Start, ReadBackends, GiveUp, AskBreaker, Report, Becomes,
           CallerState, Resting
      <3>2. sems' = sems
        BY <2>1 DEF Start, ReadBackends, GiveUp, AskBreaker, Report
      <3> HIDE DEF Holding
      <3> QED BY <3>1, <3>2, SlotsFrame
    <2>2. CASE NextCandidate(c)
      BY <2>2, SlotsReplaced
    <2>3. CASE TryAcquire(c)
      <3>1. CASE Sem(c).used < Sem(c).cap
        BY <2>3, <3>1, SlotsTaken
      <3>2. CASE ~(Sem(c).used < Sem(c).cap)
        <4> DEFINE x == [caller[c] EXCEPT !.pc = "try", !.at = NoBackend, !.gen = 0]
        <4>1. x.pc = "try"
          BY <2>0 DEF CallerState
        <4>2. Becomes(c, x) /\ sems' = sems /\ caller[c].pc = "acquire"
          BY <2>3, <3>2 DEF TryAcquire, Becomes
        <4> QED BY <4>1, <4>2, SlotsFrame
      <3> QED BY <3>1, <3>2
    <2>4. CASE SkipCandidate(c)
      <3> DEFINE x == [caller[c] EXCEPT !.pc = "try", !.at = NoBackend, !.gen = 0]
      <3>1. x.pc = "try"
        BY <2>0 DEF CallerState
      <3>2. Becomes(c, x) /\ FreeSlot(c) /\ caller[c].pc = "skip"
        BY <2>4 DEF SkipCandidate, Becomes
      <3> QED BY <3>1, <3>2, SlotsFreed
    <2>5. CASE Release(c)
      <3> DEFINE x == [Resting EXCEPT !.pc = "read", !.tried = caller[c].tried]
      <3>1. x.pc = "read" /\ Resting.pc = "idle"
        BY DEF Resting
      <3>2. /\ Becomes(c, x) \/ Becomes(c, Resting)
            /\ FreeSlot(c) /\ caller[c].pc = "release"
        BY <2>5 DEF Release, Becomes
      <3> HIDE DEF x
      <3> QED BY <3>1, <3>2, SlotsFreed
    <2> QED BY <1>1, <2>1, <2>2, <2>3, <2>4, <2>5 DEF CallerStep
  <1>2. CASE \/ \E b \in Backends : Cool(b) \/ UpdateBackend(b)
             \/ UNCHANGED vars
    <2>1. caller' = caller /\ sems' = sems
      BY <1>2 DEF Cool, UpdateBackend, vars
    <2>2. \A b, g : Holders(b, g)' = Holders(b, g)
      BY <2>1 DEF Holders
    <2> QED BY <2>1, <2>2 DEF SlotsAccounted
  <1> QED BY <1>1, <1>2 DEF Next

\* The max_in_flight slots in use of every semaphore, current or replaced, are
\* those of the callers that will release them, and never exceed its capacity.
THEOREM SlotsOwned == Spec => []SlotsAccounted
  <1>1. Init => TypeOK /\ Placed /\ SlotsAccounted
    <2> SUFFICES ASSUME Init PROVE SlotsAccounted
      BY TypeInit
    <2>1. \A b \in Backends : DOMAIN sems[b] = {}
      BY DEF Init
    <2> QED BY <2>1 DEF SlotsAccounted
  <1>2. TypeOK /\ Placed /\ SlotsAccounted /\ [Next]_vars
           => TypeOK' /\ Placed' /\ SlotsAccounted'
    BY TypeStep, SlotsStep
  <1> QED BY <1>1, <1>2, PTL DEF Spec

\* A report about an open circuit changes nothing.
LEMMA OpenIgnoresReports ==
    ASSUME NEW k, k.state = "open", NEW r \in CallResult
    PROVE  Verdict(k, r) = k
BY DEF Verdict, CallResult, AfterSuccess, AfterFailure, AfterCanceled

\* An open circuit is left only through a probe after its cooldown, whatever
\* stragglers report (ReportSuccess, ReportFailure).
THEOREM OpenStaysOpen == Spec => OpenUntilCooled
  <1> DEFINE A == \A b \in Backends : circuit[b].state = "open" =>
                     \/ circuit'[b] = circuit[b]
                     \/ circuit'[b] = [circuit[b] EXCEPT !.cooled = TRUE]
                     \/ /\ circuit[b].cooled
                        /\ circuit'[b] = [circuit[b] EXCEPT !.state = "half_open",
                                                            !.probing = TRUE]
  <1>1. ASSUME TypeOK, Placed, [Next]_vars PROVE A
    <2>1. CASE circuit' = circuit
      BY <2>1
    <2>2. ASSUME NEW b \in Backends, Cool(b) PROVE A
      BY <1>1, <2>2 DEF Cool, TypeOK
    <2>3. ASSUME NEW c \in Callers, AskBreaker(c) PROVE A
      <3>1. CASE circuit' = circuit
        BY <3>1
      <3>2. CASE circuit' # circuit
        <4>1. PICK b \in Backends : b = caller[c].at
          BY <1>1, <2>3 DEF AskBreaker, Placed, Holding
        <4>2. Admits(circuit[b]) /\ circuit' = [circuit EXCEPT ![b] = AfterAllow(circuit[b])]
          BY <1>1, <2>3, <3>2, <4>1 DEF AskBreaker, TypeOK
        <4>3. circuit[b].state = "open" =>
                 /\ circuit[b].cooled
                 /\ AfterAllow(circuit[b]) = [circuit[b] EXCEPT !.state = "half_open",
                                                                !.probing = TRUE]
          BY <4>2 DEF Admits, AfterAllow
        <4> QED BY <1>1, <4>2, <4>3 DEF TypeOK
      <3> QED BY <3>1, <3>2
    <2>4. ASSUME NEW c \in Callers, NEW r \in CallResult, Report(c, r) PROVE A
      <3>1. circuit' = [circuit EXCEPT ![caller[c].at] = Verdict(circuit[caller[c].at], r)]
        BY <2>4 DEF Report
      <3>2. ASSUME NEW b \in Backends, circuit[b].state = "open" PROVE circuit'[b] = circuit[b]
        BY <1>1, <3>1, <3>2, OpenIgnoresReports DEF TypeOK
      <3> QED BY <3>2
    <2>5. ASSUME NEW c \in Callers,
                 \/ Start(c) \/ ReadBackends(c) \/ GiveUp(c) \/ NextCandidate(c)
                 \/ TryAcquire(c) \/ SkipCandidate(c) \/ Release(c)
          PROVE  circuit' = circuit
      BY <2>5 DEF Start, ReadBackends, GiveUp, NextCandidate, TryAcquire, SkipCandidate, Release
    <2>6. ASSUME NEW b \in Backends, UpdateBackend(b) PROVE circuit' = circuit
      BY <2>6 DEF UpdateBackend
    <2>7. CASE UNCHANGED vars
      BY <2>1, <2>7 DEF vars
    <2> HIDE DEF A
    <2> QED BY <1>1, <2>1, <2>2, <2>3, <2>4, <2>5, <2>6, <2>7 DEF Next, CallerStep
  <1>2. Init => TypeOK /\ Placed
    BY TypeInit
  <1>3. TypeOK /\ Placed /\ [Next]_vars => TypeOK' /\ Placed'
    BY TypeStep
  <1> QED BY <1>1, <1>2, <1>3, PTL DEF Spec, OpenUntilCooled

-----------------------------------------------------------------------------
(***************************************************************************)
(* ResponseCache, for any requests, scopes and handlers: a hit is an       *)
(* answer to the same question, and equal questions share an entry.        *)
(***************************************************************************)

\* What bodies decode to, and the states of a handler at work and of one that
\* answers from the cache.
Requests == {Decode(w) : w \in Wire}
Busy == [pc : {"lookup", "call", "put", "done"}, scope : Scopes, wire : Wire, req : Requests]
Entries == [scope : Scopes, wire : Wire]
OnHit == [pc : {"hit"}, scope : Scopes, wire : Wire, req : Requests, body : Entries]

\* The answer e was given to a request that may be cached and has the key k.
Serves(e, k) ==
    e \in Entries /\ Eligible(Decode(e.wire)) /\ k = Key(e.scope, Decode(e.wire))

\* A handler works on what its wire body decodes to, and looks up, stores and
\* answers from the cache only what may be cached.
HandGood(h) ==
    \/ h = Idle
    \/ h \in Busy /\ h.req = Decode(h.wire) /\ (h.pc \in {"lookup", "put"} => Eligible(h.req))
    \/ /\ h \in OnHit /\ h.req = Decode(h.wire) /\ Eligible(h.req)
       /\ Serves(h.body, KeyOf(h))

\* Every handler is good, and the map holds an answer under its own key only.
CacheInv ==
    /\ hand \in [Handlers -> {Idle} \cup Busy \cup OnHit]
    /\ \A a \in Handlers : HandGood(hand[a])
    /\ \A k \in DOMAIN store : Serves(store[k], k)

\* A step of one handler that leaves it in a good state.
LEMMA HandReplaced ==
    ASSUME CacheInv, NEW a \in Handlers, NEW h, HandGood(h), hand' = [hand EXCEPT ![a] = h],
           \A k \in DOMAIN store' : Serves(store'[k], k)
    PROVE  CacheInv'
  <1>1. h \in {Idle} \cup Busy \cup OnHit
    BY DEF HandGood
  <1>2. hand' \in [Handlers -> {Idle} \cup Busy \cup OnHit]
    BY <1>1 DEF CacheInv
  <1>3. ASSUME NEW b \in Handlers PROVE HandGood(hand'[b])
    BY DEF CacheInv
  <1> QED BY <1>2, <1>3 DEF CacheInv

\* A handler that is neither idle nor answering from the cache is a busy one.
LEMMA BusyHand ==
    ASSUME CacheInv, NEW a \in Handlers, hand[a].pc \in {"lookup", "call", "put", "done"}
    PROVE  /\ hand[a] \in Busy /\ hand[a].req = Decode(hand[a].wire)
           /\ hand[a].pc \in {"lookup", "put"} => Eligible(hand[a].req)
BY DEF CacheInv, HandGood, Idle, OnHit

\* A busy handler that moves on stays good if it looks up and stores only what
\* may be cached.
LEMMA Onward ==
    ASSUME CacheInv, NEW a \in Handlers, hand[a].pc \in {"lookup", "call", "put", "done"},
           NEW to \in {"lookup", "call", "put", "done"},
           to \in {"lookup", "put"} => Eligible(hand[a].req),
           hand' = [hand EXCEPT ![a].pc = to],
           \A k \in DOMAIN store' : Serves(store'[k], k)
    PROVE  CacheInv'
  <1> DEFINE h == [hand[a] EXCEPT !.pc = to]
  <1>1. hand[a] \in Busy /\ hand[a].req = Decode(hand[a].wire)
    BY BusyHand
  <1>2. h \in Busy /\ h.req = hand[a].req /\ h.wire = hand[a].wire /\ h.pc = to
    BY <1>1 DEF Busy
  <1>3. HandGood(h)
    BY <1>1, <1>2 DEF HandGood
  <1>4. hand' = [hand EXCEPT ![a] = h]
    BY DEF CacheInv
  <1> HIDE DEF h
  <1> QED BY <1>3, <1>4, HandReplaced

\* Every step keeps the invariant.
LEMMA CacheInvStep ==
    ASSUME CacheInv, [CacheNext]_cacheVars
    PROVE  CacheInv'
  <1>0. \A k \in DOMAIN store : Serves(store[k], k)
    BY DEF CacheInv
  <1>1. ASSUME NEW a \in Handlers, hand' = [hand EXCEPT ![a] = Idle], UNCHANGED store
        PROVE  CacheInv'
    <2>1. HandGood(Idle)
      BY DEF HandGood
    <2> QED BY <1>0, <1>1, <2>1, HandReplaced
  <1>2. ASSUME NEW a \in Handlers, NEW scope \in Scopes, NEW w \in Wire, Arrive(a, scope, w)
        PROVE  CacheInv'
    <2> DEFINE to == IF Eligible(Decode(w)) THEN "lookup" ELSE "call"
               h == [pc |-> to, scope |-> scope, wire |-> w, req |-> Decode(w)]
    <2>1. to \in {"lookup", "call"} /\ (to \in {"lookup", "put"} => Eligible(Decode(w)))
      OBVIOUS
    <2>2. hand' = [hand EXCEPT ![a] = h] /\ UNCHANGED store
      BY <1>2 DEF Arrive
    <2> HIDE DEF to
    <2>3. h \in Busy /\ h.req = Decode(h.wire) /\ h.pc = to
      BY <2>1 DEF Busy, Requests
    <2>4. HandGood(h)
      BY <2>1, <2>3 DEF HandGood
    <2> HIDE DEF h
    <2> QED BY <1>0, <2>2, <2>4, HandReplaced
  <1>3. ASSUME NEW a \in Handlers, Lookup(a) PROVE CacheInv'
    <2>1. hand[a].pc = "lookup" /\ UNCHANGED store
      BY <1>3 DEF Lookup
    <2>2. hand[a] \in Busy /\ hand[a].req = Decode(hand[a].wire) /\ Eligible(hand[a].req)
      BY <2>1, BusyHand
    <2>3. CASE hand' = [hand EXCEPT ![a].pc = "call"]
      BY <1>0, <2>1, <2>3, Onward
    <2>4. CASE /\ KeyOf(hand[a]) \in DOMAIN store
               /\ hand' = [hand EXCEPT ![a] =
                        [pc |-> "hit", scope |-> @.scope, wire |-> @.wire, req |-> @.req,
                         body |-> store[KeyOf(@)]]]
      <3> DEFINE h == [pc |-> "hit", scope |-> hand[a].scope, wire |-> hand[a].wire,
                       req |-> hand[a].req, body |-> store[KeyOf(hand[a])]]
      <3>1. hand' = [hand EXCEPT ![a] = h]
        BY <2>4 DEF CacheInv
      <3>2. Serves(store[KeyOf(hand[a])], KeyOf(hand[a]))
        BY <1>0, <2>4
      <3>3. h \in OnHit
        BY <2>2, <3>2 DEF OnHit, Busy, Serves
      <3>4. h.scope = hand[a].scope /\ h.wire = hand[a].wire /\ h.req = hand[a].req
            /\ h.body = store[KeyOf(hand[a])]
        OBVIOUS
      <3> HIDE DEF h
      <3>5. KeyOf(h) = KeyOf(hand[a])
        BY <3>4 DEF KeyOf
      <3>6. HandGood(h)
        BY <2>2, <3>2, <3>3, <3>4, <3>5 DEF HandGood
      <3> QED BY <1>0, <2>1, <3>1, <3>6, HandReplaced
    <2> QED BY <1>3, <2>3, <2>4 DEF Lookup
  <1>4. ASSUME NEW a \in Handlers, BackendAnswer(a) PROVE CacheInv'
    <2>1. hand[a].pc = "call" /\ UNCHANGED store
      BY <1>4 DEF BackendAnswer
    <2>2. CASE hand' = [hand EXCEPT ![a] = Idle]
      BY <1>1, <2>1, <2>2
    <2>3. CASE hand' = [hand EXCEPT ![a].pc = IF Eligible(hand[a].req) THEN "put" ELSE "done"]
      <3>1. PICK to \in {"put", "done"} :
               /\ to = IF Eligible(hand[a].req) THEN "put" ELSE "done"
               /\ to = "put" => Eligible(hand[a].req)
        OBVIOUS
      <3>2. hand' = [hand EXCEPT ![a].pc = to]
        BY <2>3, <3>1
      <3> QED BY <1>0, <2>1, <3>1, <3>2, Onward
    <2> QED BY <1>4, <2>2, <2>3 DEF BackendAnswer
  <1>5. ASSUME NEW a \in Handlers, Put(a) PROVE CacheInv'
    <2>1. hand[a].pc = "put" /\ hand' = [hand EXCEPT ![a].pc = "done"]
      BY <1>5 DEF Put
    <2>2. hand[a] \in Busy /\ hand[a].req = Decode(hand[a].wire) /\ Eligible(hand[a].req)
      BY <2>1, BusyHand
    <2> DEFINE e == [scope |-> hand[a].scope, wire |-> hand[a].wire]
    <2>3. Serves(e, KeyOf(hand[a]))
      BY <2>2 DEF Serves, Entries, Busy, KeyOf
    <2> HIDE DEF e
    <2>4. CASE store' = [k \in DOMAIN store \cup {KeyOf(hand[a])} |->
                           IF k = KeyOf(hand[a]) THEN e ELSE store[k]]
      <3>1. \A k \in DOMAIN store' : Serves(store'[k], k)
        BY <1>0, <2>3, <2>4
      <3> QED BY <2>1, <3>1, Onward
    <2>5. CASE UNCHANGED store
      BY <1>0, <2>1, <2>5, Onward
    <2> QED BY <1>5, <2>4, <2>5 DEF Put, e
  <1>6. ASSUME NEW a \in Handlers, Respond(a) PROVE CacheInv'
    BY <1>1, <1>6 DEF Respond
  <1>7. CASE Expire
    <2>1. \A k \in DOMAIN store' : Serves(store'[k], k)
      BY <1>0, <1>7 DEF Expire
    <2> QED BY <1>7, <2>1 DEF Expire, CacheInv
  <1>8. CASE UNCHANGED cacheVars
    BY <1>8 DEF cacheVars, CacheInv
  <1> QED BY <1>2, <1>3, <1>4, <1>5, <1>6, <1>7, <1>8 DEF CacheNext

\* The empty cache.
LEMMA CacheInvInit == CacheInit => CacheInv
  <1> SUFFICES ASSUME CacheInit PROVE CacheInv
    OBVIOUS
  <1>1. DOMAIN store = {}
    <2>1. store \in Seq({}) /\ Len(store) = 0
      BY DEF CacheInit
    <2> QED BY <2>1
  <1>2. hand \in [Handlers -> {Idle} \cup Busy \cup OnHit] /\ \A a \in Handlers : hand[a] = Idle
    BY DEF CacheInit
  <1> QED BY <1>1, <1>2 DEF CacheInv, HandGood

\* A request that may be cached names its temperature, and it is at most 0.2.
LEMMA EligibleNames ==
    ASSUME NEW w \in Wire, Eligible(Decode(w))
    PROVE  /\ w.temperature # {} /\ Effective(w.temperature) = w.temperature
           /\ \A t \in w.temperature : t <= 2
  <1>1. Decode(w).temperature = w.temperature
    BY DEF Decode
  <1>2. w.temperature # {}
    BY <1>1 DEF Eligible
  <1>3. PICK v \in Temperatures : w.temperature = {v}
    BY <1>2 DEF Wire, Optional
  <1>4. (CHOOSE x \in {v} : TRUE) = v
    OBVIOUS
  <1> QED BY <1>1, <1>2, <1>3, <1>4 DEF Eligible, Effective

\* parseStop gives what the stop field asks for.
LEMMA AsksStopWords ==
    ASSUME NEW stop \in WireStop
    PROVE  StopWords(stop) \in BoundedSeq(Words, 2) /\ Asks(stop, StopWords(stop))
  <1>0. /\ <<>> \in BoundedSeq(Words, 2)
        /\ \A x \in Words : <<x>> \in BoundedSeq(Words, 2)
        /\ \A x, y \in Words : <<x, y>> \in BoundedSeq(Words, 2)
    <2>0. /\ [1 .. 0 -> Words] \subseteq BoundedSeq(Words, 2)
          /\ [1 .. 1 -> Words] \subseteq BoundedSeq(Words, 2)
          /\ [1 .. 2 -> Words] \subseteq BoundedSeq(Words, 2)
      <3>1. 0 \in 0 .. 2 /\ 1 \in 0 .. 2 /\ 2 \in 0 .. 2
        OBVIOUS
      <3> QED BY ONLY <3>1, Zenon DEF BoundedSeq, SeqOf
    <2>1. <<>> \in [1 .. 0 -> Words]
      OBVIOUS
    <2>2. ASSUME NEW x \in Words PROVE <<x>> \in [1 .. 1 -> Words]
      OBVIOUS
    <2>3. ASSUME NEW x \in Words, NEW y \in Words PROVE <<x, y>> \in [1 .. 2 -> Words]
      OBVIOUS
    <2> QED BY ONLY <2>0, <2>1, <2>2, <2>3, Zenon
  <1>1. CASE stop = <<>>
    <2>1. StopWords(stop) = <<>>
      BY <1>1 DEF StopWords
    <2> QED BY <1>1, <1>0, <2>1 DEF Asks
  <1>2. ASSUME NEW x \in Words, stop = <<"string", x>>
        PROVE  StopWords(stop) \in BoundedSeq(Words, 2) /\ Asks(stop, StopWords(stop))
    <2>1. StopWords(stop) = <<x>>
      BY <1>2 DEF StopWords
    <2> QED BY <1>2, <1>0, <2>1 DEF Asks
  <1>3. ASSUME NEW words \in BoundedSeq(Words, 2), stop = <<"array", words>>
        PROVE  StopWords(stop) \in BoundedSeq(Words, 2) /\ Asks(stop, StopWords(stop))
    <2>1. StopWords(stop) = words
      BY <1>3 DEF StopWords
    <2> QED BY <1>3, <2>1 DEF Asks
  <1> QED BY <1>1, <1>2, <1>3, <1>0 DEF WireStop

\* Two stop fields that ask for the same words are parsed alike.
LEMMA AsksDetermine ==
    ASSUME NEW stop, NEW words \in BoundedSeq(Words, 2), Asks(stop, words)
    PROVE  StopWords(stop) = words
  <1>1. PICK n \in 0 .. 2 : words \in [1 .. n -> Words]
    BY DEF BoundedSeq, SeqOf
  <1>2. words \in Seq(Words) /\ Len(words) = n
    BY <1>1
  <1>3. CASE stop = <<>> /\ words = <<>>
    BY <1>3 DEF StopWords
  <1>4. CASE Len(words) = 1 /\ stop = <<"string", words[1]>>
    <2>1. StopWords(stop) = <<words[1]>>
      BY <1>4 DEF StopWords
    <2>2. words = <<words[1]>>
      BY <1>2, <1>4
    <2> QED BY <2>1, <2>2
  <1>5. CASE stop = <<"array", words>>
    BY <1>5 DEF StopWords
  <1> QED BY <1>3, <1>4, <1>5 DEF Asks

\* A hit answers a request with what was said to one that means the same, of the
\* same tenant and key, and never a sampled answer; for any handlers, prompts
\* and interleaving of lookups, stores and expiries (serveCached, storeCached).
THEOREM CacheFaithful == CacheInit /\ [][CacheNext]_cacheVars => []HitFaithful
  <1>1. ASSUME CacheInv, NEW a \in Handlers, hand[a].pc = "hit"
        PROVE  /\ hand[a].body.scope = hand[a].scope
               /\ SameMeaning(hand[a].body.wire, hand[a].wire)
               /\ \A t \in Effective(hand[a].wire.temperature) : t <= 2
    <2>1. /\ hand[a] \in OnHit /\ hand[a].req = Decode(hand[a].wire) /\ Eligible(hand[a].req)
          /\ Serves(hand[a].body, KeyOf(hand[a]))
      BY <1>1 DEF CacheInv, HandGood, Idle, Busy
    <2>2. PICK v \in Wire, w \in Wire : v = hand[a].body.wire /\ w = hand[a].wire
      BY <2>1 DEF OnHit, Entries
    <2>3. Key(hand[a].body.scope, Decode(v)) = Key(hand[a].scope, Decode(w)) /\ Eligible(Decode(w))
      BY <2>1, <2>2 DEF Serves, KeyOf
    <2>4. /\ hand[a].body.scope = hand[a].scope
          /\ v.prompt = w.prompt /\ v.temperature = w.temperature
          /\ StopWords(v.stop) = StopWords(w.stop)
      BY <2>3 DEF Key, Decode
    <2>5. v.stop \in WireStop /\ w.stop \in WireStop
      BY DEF Wire
    <2>6. SameMeaning(v, w)
      <3>1. /\ StopWords(v.stop) \in BoundedSeq(Words, 2)
            /\ Asks(v.stop, StopWords(v.stop)) /\ Asks(w.stop, StopWords(v.stop))
        BY <2>4, <2>5, AsksStopWords
      <3> QED BY <2>4, <3>1 DEF SameMeaning
    <2>7. \A t \in Effective(w.temperature) : t <= 2
      BY <2>3, EligibleNames
    <2> QED BY <2>2, <2>4, <2>6, <2>7
  <1>2. CacheInv => HitFaithful
    BY <1>1 DEF HitFaithful
  <1> QED BY <1>2, CacheInvInit, CacheInvStep, PTL

\* Requests of one caller that ask for the same are looked up under one key
\* (CanonicalBody, Key).
THEOREM OneKeyPerMeaning == CacheInit /\ [][CacheNext]_cacheVars => []SharesEntry
  <1>1. ASSUME CacheInv, NEW a \in Handlers, NEW b \in Handlers,
               hand[a].pc = "lookup", hand[b].pc = "lookup",
               hand[a].scope = hand[b].scope, SameMeaning(hand[a].wire, hand[b].wire)
        PROVE  KeyOf(hand[a]) = KeyOf(hand[b])
    <2>1. /\ hand[a] \in Busy /\ hand[a].req = Decode(hand[a].wire) /\ Eligible(hand[a].req)
          /\ hand[b] \in Busy /\ hand[b].req = Decode(hand[b].wire) /\ Eligible(hand[b].req)
      BY <1>1, BusyHand
    <2>2. PICK v \in Wire, w \in Wire : v = hand[a].wire /\ w = hand[b].wire
      BY <2>1 DEF Busy
    <2>3. Eligible(Decode(v)) /\ Eligible(Decode(w)) /\ SameMeaning(v, w)
      BY <1>1, <2>1, <2>2
    <2>4. v.prompt = w.prompt /\ v.temperature = w.temperature
      BY <2>3, EligibleNames DEF SameMeaning
    <2>5. StopWords(v.stop) = StopWords(w.stop)
      BY <2>3, AsksDetermine DEF SameMeaning
    <2>6. Decode(v) = Decode(w)
      BY <2>4, <2>5 DEF Decode
    <2> QED BY <1>1, <2>1, <2>2, <2>6 DEF KeyOf
  <1>2. CacheInv => SharesEntry
    BY <1>1 DEF SharesEntry
  <1> QED BY <1>2, CacheInvInit, CacheInvStep, PTL

-----------------------------------------------------------------------------
(***************************************************************************)
(* InferenceClient, for any configuration that passes validation and any   *)
(* width of durations: what Do reports is true, and a wait is drawn from   *)
(* a range that is neither empty nor beyond its bound.                     *)
(***************************************************************************)

\* Products of counts and durations, as Z3 needs them spelled out.
LEMMA Products ==
    ASSUME NEW a \in Nat, NEW b \in Nat, NEW t \in Nat
    PROVE  /\ a * t \in Nat /\ (a + 1) * t = a * t + t
           /\ a <= b => a * t <= b * t
OBVIOUS

\* A number below half the range of a duration is kept as it is, and one that
\* does not fit becomes a positive duration only by losing high bits.
LEMMA WrapKeeps ==
    ASSUME NEW x \in Nat
    PROVE  /\ Wrap(x) \in Int
           /\ x < 2 ^ (Width - 1) => Wrap(x) = x
           /\ Wrap(x) > 0 => Wrap(x) <= x
           /\ Wrap(x) <= 0 /\ x > 0 => x >= 2 ^ (Width - 1)
  <1>1. PICK h \in Nat \ {0}, m \in Nat \ {0} : h = 2 ^ (Width - 1) /\ m = 2 ^ Width /\ m = 2 * h
    BY PowersAssumption
  <1>2. m \div 2 = h
    BY ONLY <1>1, h \in Nat \ {0}
  <1>3. PICK y \in Nat : y = x % m /\ y < m /\ y <= x /\ (x < m => y = x)
    BY ONLY m \in Nat \ {0}, x \in Nat
  <1>4. Wrap(x) = IF y < h THEN y ELSE y - m
    BY ONLY <1>1, <1>2, <1>3 DEF Wrap
  <1>5. /\ Wrap(x) \in Int
        /\ x < h => Wrap(x) = x
        /\ Wrap(x) > 0 => Wrap(x) <= x
        /\ Wrap(x) <= 0 /\ x > 0 => x >= h
    BY ONLY <1>1, <1>3, <1>4, x \in Nat, h \in Nat \ {0}, m \in Nat \ {0}, y \in Nat
  <1> QED BY ONLY <1>1, <1>5

\* The settings of the client.
Settings == [timeout : Timeouts, attempts : Attempts, base : Bases, max : Maxes]

\* What ValidateForServe accepts are positive settings.
LEMMA SettingsTyped ==
    ASSUME NEW c \in Settings, ValidateForServe(c)
    PROVE  /\ c.timeout \in Nat \ {0} /\ c.attempts \in Nat \ {0}
           /\ c.base \in Nat \ {0} /\ c.max \in Nat \ {0} /\ c.base <= c.max
           /\ c.attempts \in Attempts /\ c.max \in Maxes
BY ClientAssumption DEF Settings, ValidateForServe

\* The longest wait is positive and within the bound that Config documents.
LEMMA CeilBounded ==
    ASSUME NEW c \in Settings, ValidateForServe(c), NEW n \in 1 .. c.attempts
    PROVE  /\ BackoffCeil(c, n) \in Nat \ {0} /\ BackoffCeil(c, n) <= c.max
           /\ c.base * 2 ^ (n - 1) \in Nat
           /\ BackoffCeil(c, n) <= c.base * 2 ^ (n - 1)
  <1>1. /\ c.base \in Nat \ {0} /\ c.max \in Nat \ {0} /\ c.attempts \in Nat
        /\ c.attempts \in Attempts /\ c.max \in Maxes
    BY SettingsTyped
  <1>2. PICK p \in Nat \ {0}, h \in Nat \ {0} :
           p = 2 ^ (n - 1) /\ h = 2 ^ (Width - 1) /\ (n >= Width => p >= h)
    BY <1>1, PowersAssumption
  <1>3. n \in Nat /\ Width \in Nat /\ c.max < h
    BY <1>1, <1>2, ClientAssumption
  <1>4. PICK x \in Nat : x = c.base * p /\ x >= p /\ x > 0
    BY ONLY <1>1, p \in Nat \ {0}
  <1>5. PICK e \in Int : /\ e = Wrap(x)
                         /\ e > 0 => e <= x
                         /\ e <= 0 /\ x > 0 => x >= h
    BY <1>2, WrapKeeps
  <1>6. BackoffCeil(c, n) = IF n - 1 < Width - 1 /\ e > 0 /\ e < c.max THEN e ELSE c.max
    BY ONLY <1>2, <1>4, <1>5 DEF BackoffCeil
  <1>7. /\ BackoffCeil(c, n) \in Nat \ {0} /\ BackoffCeil(c, n) <= c.max
        /\ BackoffCeil(c, n) <= x
    <2>1. CASE n - 1 < Width - 1 /\ e > 0 /\ e < c.max
      BY ONLY <1>1, <1>3, <1>4, <1>5, <1>6, <2>1
    <2>2. CASE ~(n - 1 < Width - 1)
      BY ONLY <1>1, <1>2, <1>3, <1>4, <1>6, <2>2, p \in Nat, h \in Nat
    <2>3. CASE n - 1 < Width - 1 /\ e <= 0
      BY ONLY <1>1, <1>3, <1>4, <1>5, <1>6, <2>3, h \in Nat
    <2>4. CASE n - 1 < Width - 1 /\ e > 0 /\ ~(e < c.max)
      BY ONLY <1>1, <1>3, <1>4, <1>5, <1>6, <2>4
    <2> QED BY ONLY <2>1, <2>2, <2>3, <2>4, <1>5, e \in Int
  <1> QED BY ONLY <1>2, <1>4, <1>7

\* Min of a pair.
LEMMA MinPair ==
    ASSUME NEW a \in Int, NEW b \in Int
    PROVE  /\ Min({a, b}) \in Int /\ Min({a, b}) <= a /\ Min({a, b}) <= b
           /\ Min({a, b}) = a \/ Min({a, b}) = b
  <1>1. \E x \in {a, b} : \A y \in {a, b} : x <= y
    OBVIOUS
  <1>2. /\ Min({a, b}) \in {a, b}
        /\ \A y \in {a, b} : Min({a, b}) <= y
    BY <1>1 DEF Min
  <1> QED BY <1>2

\* What the attempts and the waits between them take at most.
Sum(c) == c.attempts * c.timeout + (c.attempts - 1) * c.max

\* The worst case of a chain that begins at b stays inside the budget and inside
\* a duration.
Fits(c, b) == b + WorstCaseBackendCall(c) < Budget /\ Sum(c) < 2 ^ (Width - 1)

\* While attempts are left, what they and the waits take is within the worst case.
LEMMA SumBounds ==
    ASSUME NEW c \in Settings, ValidateForServe(c), NEW n \in 1 .. c.attempts,
           NEW b0 \in Nat
    PROVE  /\ n * c.timeout \in Nat /\ (n - 1) * c.timeout \in Nat /\ (n - 1) * c.max \in Nat
           /\ n * c.timeout = (n - 1) * c.timeout + c.timeout
           /\ n * c.max = (n - 1) * c.max + c.max
           /\ Sum(c) \in Nat
           /\ n * c.timeout + (n - 1) * c.max <= Sum(c)
           /\ n < c.attempts => n * c.timeout + n * c.max <= Sum(c)
           /\ Fits(c, b0) => b0 + Sum(c) < Budget
  <1>1. PICK t \in Nat, b \in Nat, a \in Nat \ {0} : t = c.timeout /\ b = c.max /\ a = c.attempts
    BY SettingsTyped
  <1>2. n \in Nat /\ n - 1 \in Nat /\ a - 1 \in Nat /\ n <= a
    BY <1>1
  <1>3. PICK s \in Nat : s = a * t + (a - 1) * b /\ s = Sum(c)
    <2>1. a * t + (a - 1) * b \in Nat
      BY <1>2, Products
    <2> QED BY ONLY <1>1, <2>1 DEF Sum
  <1>4. n * t \in Nat /\ (n - 1) * t \in Nat /\ (n - 1) * b \in Nat /\ n * b \in Nat
    BY <1>2, Products
  <1>5. n * t = (n - 1) * t + t /\ n * b = (n - 1) * b + b
    BY ONLY <1>2, t \in Nat, b \in Nat
  <1>6. n * t <= a * t /\ (n - 1) * b <= (a - 1) * b
    BY <1>2, Products
  <1>7. n < a => n * b <= (a - 1) * b
    <2>1. n < a => n <= a - 1
      BY <1>2
    <2> QED BY <1>2, <2>1, Products
  <1>8. n * t + (n - 1) * b <= s /\ (n < a => n * t + n * b <= s)
    <2>1. a * t \in Nat /\ (a - 1) * b \in Nat
      BY <1>2, Products
    <2> QED BY ONLY <1>3, <1>4, <1>6, <1>7, <2>1
  <1>9. Fits(c, b0) => b0 + s < Budget
    <2>1. WorstCaseBackendCall(c) = Wrap(s)
      BY ONLY <1>1, <1>3 DEF WorstCaseBackendCall
    <2> QED BY <1>3, <2>1, WrapKeeps DEF Fits
  <1> QED BY ONLY <1>1, <1>3, <1>4, <1>5, <1>8, <1>9

\* The budget: what has elapsed since the chain began is covered by its attempts
\* and waits so far.  Canceled is said only when the client has gone or the chain
\* does not fit into what it found left, and
\* transient, of a context that lives, only after the last attempt.
ClientInv ==
    /\ cfg \in Settings /\ ValidateForServe(cfg)
    /\ pc \in {"select", "attempt", "judge", "backoff", "returned", "done"}
    /\ attempt \in 1 .. cfg.attempts /\ elapsed \in Nat /\ began \in Nat
    /\ gone \in BOOLEAN
    /\ pc = "attempt" =>
          elapsed <= began + (attempt - 1) * cfg.timeout + (attempt - 1) * cfg.max
    /\ pc \in {"judge", "backoff"} =>
          elapsed <= began + attempt * cfg.timeout + (attempt - 1) * cfg.max
    /\ pc = "backoff" => attempt < cfg.attempts
    /\ pc \in {"judge", "returned"} /\ last = "canceled" /\ Fits(cfg, began) => gone
    /\ pc = "returned" /\ last = "transient" /\ ~gone /\ elapsed < Budget =>
          attempt = cfg.attempts

\* While the client is there and the budget is not used up, ctx.Err() is nil.
LEMMA Alive ==
    ASSUME NEW t \in Nat, t < Budget, ~gone, NEW ended \in EndedSeen(t)
    PROVE  ~ended
BY DEF EndedSeen

\* Before the first selection.
LEMMA ClientInvInit == ClientInit => ClientInv
  <1> SUFFICES ASSUME ClientInit PROVE ClientInv
    OBVIOUS
  <1>1. cfg \in Settings /\ ValidateForServe(cfg)
    BY DEF ClientInit, Settings
  <1>2. cfg.attempts \in Nat \ {0}
    BY <1>1, SettingsTyped
  <1>3. attempt \in 1 .. cfg.attempts
    BY <1>2 DEF ClientInit
  <1>4. pc = "select" /\ gone = FALSE /\ elapsed = 0 /\ began = 0
    BY DEF ClientInit
  <1> QED BY <1>1, <1>3, <1>4 DEF ClientInv

\* Each step of the loop and of Do, and the client's going away, keep the accounts.
LEMMA ClientInvStep ==
    ASSUME ClientInv, [ClientNext]_clientVars
    PROVE  ClientInv'
  <1>0. cfg \in Settings /\ ValidateForServe(cfg) /\ attempt \in 1 .. cfg.attempts
    BY DEF ClientInv
  <1> DEFINE n == attempt  T == cfg.timeout  M == cfg.max
  <1>a. /\ T \in Nat /\ M \in Nat /\ cfg.attempts \in Nat /\ n \in Nat /\ elapsed \in Nat
        /\ Budget \in Nat /\ began \in Nat
    BY <1>0, SettingsTyped, ClientAssumption DEF ClientInv
  <1>b. /\ n * T \in Nat /\ (n - 1) * T \in Nat /\ (n - 1) * M \in Nat
        /\ n * T = (n - 1) * T + T /\ n * M = (n - 1) * M + M
        /\ Sum(cfg) \in Nat
        /\ n * T + (n - 1) * M <= Sum(cfg)
        /\ n < cfg.attempts => n * T + n * M <= Sum(cfg)
        /\ Fits(cfg, began) => began + Sum(cfg) < Budget
    BY <1>0, <1>a, SumBounds
  <1>1. CASE Attempt
    <2>1. pc = "attempt" /\ pc' = "judge" /\ UNCHANGED <<cfg, attempt, began, gone>>
      BY <1>1 DEF Attempt
    <2>2. PICK d \in 0 .. T, answer \in {"success", "transient", "permanent", "error"} :
             /\ elapsed' = Min({elapsed + d, Budget})
             /\ \E ended \in EndedSeen(elapsed') :
                  last' = IF answer # "error" THEN answer
                          ELSE IF ended THEN "canceled" ELSE "transient"
      BY <1>1 DEF Attempt
    <2>3. d \in Nat /\ d <= T
      BY <1>a
    <2>4. /\ elapsed' \in Int /\ elapsed' <= elapsed + d
          /\ elapsed' = elapsed + d \/ elapsed' = Budget
      <3>1. PICK s \in Int : s = elapsed + d
        BY <1>a, <2>3
      <3>2. elapsed' = Min({s, Budget}) /\ Budget \in Int
        BY <1>a, <2>2, <3>1
      <3> QED BY ONLY <3>1, <3>2, s \in Int, MinPair
    <2>5. elapsed <= began + (n - 1) * T + (n - 1) * M
      BY <2>1 DEF ClientInv
    <2>6. elapsed' \in Nat /\ elapsed' <= began + n * T + (n - 1) * M
      BY ONLY <1>a, <1>b, <2>3, <2>4, <2>5
    <2>7. last' = "canceled" /\ Fits(cfg, began) => gone
      <3>1. SUFFICES ASSUME last' = "canceled", Fits(cfg, began), ~gone PROVE FALSE
        BY DEF ClientInv
      <3>2. elapsed' < Budget
        BY ONLY <1>a, <1>b, <2>6, <3>1
      <3> QED BY <2>2, <2>6, <3>1, <3>2, Alive
    <2>8. Fits(cfg, began)' <=> Fits(cfg, began)
      BY <2>1 DEF Fits, WorstCaseBackendCall, Sum
    <2> QED BY <2>1, <2>6, <2>7, <2>8 DEF ClientInv, ValidateForServe, WorstCaseBackendCall
  <1>2. CASE Judge
    <2>1. pc = "judge" /\ UNCHANGED <<cfg, attempt, elapsed, began, gone, last>>
      BY <1>2 DEF Judge
    <2>2. PICK ended \in EndedSeen(elapsed) :
             pc' = IF last = "transient" /\ ~ended /\ attempt < cfg.attempts
                   THEN "backoff" ELSE "returned"
      BY <1>2 DEF Judge
    <2>3. pc' \in {"backoff", "returned"} /\ (pc' = "backoff" => attempt < cfg.attempts)
      BY <2>2
    <2>4. pc' = "returned" /\ last = "transient" /\ ~gone /\ elapsed < Budget => attempt = cfg.attempts
      <3>1. SUFFICES ASSUME pc' = "returned", last = "transient", ~gone, elapsed < Budget
                     PROVE  attempt = cfg.attempts
        OBVIOUS
      <3>2. ~ended
        BY <1>a, <3>1, Alive
      <3>3. ~(attempt < cfg.attempts)
        BY <2>2, <3>1, <3>2
      <3> QED BY <1>0, <1>a, <3>3
    <2>5. Fits(cfg, began)' <=> Fits(cfg, began)
      BY <2>1 DEF Fits, WorstCaseBackendCall, Sum
    <2> QED BY <2>1, <2>3, <2>4, <2>5 DEF ClientInv, ValidateForServe, WorstCaseBackendCall
  <1>3. CASE Backoff
    <2>1. pc = "backoff" /\ UNCHANGED <<cfg, began, gone>> /\ attempt < cfg.attempts
      BY <1>3 DEF Backoff, ClientInv
    <2>2. PICK d \in 0 .. BackoffCeil(cfg, attempt) :
             /\ elapsed' = Min({elapsed + d, Budget})
             /\ \E ended \in IF elapsed + d > Budget THEN {TRUE} ELSE EndedSeen(elapsed') :
                  IF ended THEN pc' = "returned" /\ last' = "canceled" /\ UNCHANGED attempt
                  ELSE pc' = "attempt" /\ attempt' = attempt + 1 /\ UNCHANGED last
      <3>1. PICK d \in 0 .. BackoffCeil(cfg, attempt) :
              LET t == Min({elapsed + d, Budget}) IN
              /\ elapsed' = t
              /\ \E ended \in IF elapsed + d > Budget THEN {TRUE} ELSE EndedSeen(t) :
                    IF ended THEN pc' = "returned" /\ last' = "canceled" /\ UNCHANGED attempt
                    ELSE pc' = "attempt" /\ attempt' = attempt + 1 /\ UNCHANGED last
        BY <1>3 DEF Backoff
      <3>2. PICK t : t = Min({elapsed + d, Budget})
        OBVIOUS
      <3>3. elapsed' = t
        BY <3>1, <3>2
      <3>4. \E ended \in IF elapsed + d > Budget THEN {TRUE} ELSE EndedSeen(t) :
                    IF ended THEN pc' = "returned" /\ last' = "canceled" /\ UNCHANGED attempt
                    ELSE pc' = "attempt" /\ attempt' = attempt + 1 /\ UNCHANGED last
        BY ONLY <3>1, <3>2, Zenon
      <3> QED BY ONLY <3>2, <3>3, <3>4, d \in 0 .. BackoffCeil(cfg, attempt), Zenon
    <2>3. d \in Nat /\ d <= M
      <3>1. BackoffCeil(cfg, attempt) \in Nat /\ BackoffCeil(cfg, attempt) <= M
        BY <1>0, CeilBounded
      <3> QED BY ONLY <1>a, <3>1, d \in 0 .. BackoffCeil(cfg, attempt)
    <2>4. /\ elapsed' \in Int /\ elapsed' <= elapsed + d
          /\ elapsed' = elapsed + d \/ elapsed' = Budget
      <3>1. PICK s \in Int : s = elapsed + d
        BY <1>a, <2>3
      <3>2. elapsed' = Min({s, Budget}) /\ Budget \in Int
        BY <1>a, <2>2, <3>1
      <3> QED BY ONLY <3>1, <3>2, s \in Int, MinPair
    <2>5. elapsed <= began + n * T + (n - 1) * M
      BY <2>1 DEF ClientInv
    <2>6. elapsed' \in Nat /\ elapsed' <= began + n * T + n * M
          /\ elapsed + d <= began + n * T + n * M
      BY ONLY <1>a, <1>b, <2>3, <2>4, <2>5
    <2>7. CASE pc' = "returned" /\ last' = "canceled" /\ UNCHANGED attempt
      <3>1. Fits(cfg, began) => gone
        <4>1. SUFFICES ASSUME Fits(cfg, began), ~gone PROVE FALSE
          BY DEF ClientInv
        <4>2. elapsed' < Budget /\ ~(elapsed + d > Budget)
          BY ONLY <1>a, <1>b, <2>1, <2>3, <2>6, <4>1
        <4>3. PICK ended \in EndedSeen(elapsed') :
                  IF ended THEN pc' = "returned" /\ last' = "canceled" /\ UNCHANGED attempt
                  ELSE pc' = "attempt" /\ attempt' = attempt + 1 /\ UNCHANGED last
          BY <2>2, <4>2
        <4>4. ~ended
          BY <2>6, <4>1, <4>2, Alive
        <4> QED BY <2>7, <4>3, <4>4
      <3>2. Fits(cfg, began)' <=> Fits(cfg, began)
        BY <2>1 DEF Fits, WorstCaseBackendCall, Sum
      <3> QED BY <2>1, <2>6, <2>7, <3>1, <3>2 DEF ClientInv, ValidateForServe, WorstCaseBackendCall
    <2>8. CASE pc' = "attempt" /\ attempt' = attempt + 1 /\ UNCHANGED last
      <3>1. attempt' - 1 = n /\ attempt' \in 1 .. cfg.attempts
        BY <1>a, <2>1, <2>8
      <3>2. elapsed' <= began + (attempt' - 1) * cfg.timeout + (attempt' - 1) * cfg.max
        BY <2>6, <3>1
      <3> QED BY <2>1, <2>6, <2>8, <3>1, <3>2 DEF ClientInv, ValidateForServe, WorstCaseBackendCall
    <2> QED BY <2>2, <2>7, <2>8
  <1>4. CASE ClientGone
    <2>1. /\ gone' = TRUE /\ UNCHANGED <<cfg, pc, attempt, elapsed, began, last>>
      BY <1>4 DEF ClientGone
    <2> QED BY <2>1 DEF ClientInv, ValidateForServe, WorstCaseBackendCall
  <1>5. CASE UNCHANGED clientVars
    BY <1>5 DEF clientVars, ClientInv, ValidateForServe, WorstCaseBackendCall, Fits, Sum
  <1>6. CASE SelectBackend
    <2>1. PICK d \in 0 .. Budget : elapsed' = Min({elapsed + d, Budget})
      BY <1>6 DEF SelectBackend
    <2>2. elapsed' \in Nat
      <3>1. PICK s \in Nat : s = elapsed + d
        BY <1>a
      <3>2. elapsed' = Min({s, Budget}) /\ s \in Int /\ Budget \in Int
        BY <1>a, <2>1, <3>1
      <3>3. elapsed' = s \/ elapsed' = Budget
        BY ONLY <3>2, MinPair
      <3> QED BY <1>a, <3>3
    <2>3. UNCHANGED <<cfg, gone>>
      BY <1>6 DEF SelectBackend
    <2>4. CASE pc' = "attempt" /\ attempt' = 1 /\ began' = elapsed'
      <3>1. attempt' \in 1 .. cfg.attempts
        BY <1>0, <1>a, <2>4
      <3>2. elapsed' <= began' + (attempt' - 1) * cfg.timeout + (attempt' - 1) * cfg.max
        BY ONLY <1>a, <2>2, <2>4
      <3> QED BY <2>2, <2>3, <2>4, <3>1, <3>2 DEF ClientInv, ValidateForServe, WorstCaseBackendCall
    <2>5. CASE pc' = "done" /\ UNCHANGED <<attempt, began>>
      BY <2>2, <2>3, <2>5 DEF ClientInv, ValidateForServe, WorstCaseBackendCall
    <2> QED BY <1>6, <2>4, <2>5 DEF SelectBackend
  <1>7. CASE FailOver
    <2>1. /\ pc' \in {"select", "done"}
          /\ UNCHANGED <<cfg, attempt, elapsed, began, gone, last>>
      BY <1>7 DEF FailOver
    <2> QED BY <2>1 DEF ClientInv, ValidateForServe, WorstCaseBackendCall
  <1> QED BY <1>1, <1>2, <1>3, <1>4, <1>5, <1>6, <1>7 DEF ClientNext

\* What Do reports is true, for any settings that ValidateForServe accepts, any
\* width of a duration and any backend of the failover loop.
THEOREM VerdictHonest == ClientInit /\ [][ClientNext]_clientVars => []HonestVerdict
  <1>1. ClientInv => HonestVerdict
    BY DEF ClientInv, HonestVerdict, Fits, Sum
  <1> QED BY <1>1, ClientInvInit, ClientInvStep, PTL

\* Every wait lies within the documented bound, overflowing shifts included
\* (Client.backoff).
THEOREM BackoffBounded == ClientInit /\ [][ClientNext]_clientVars => []BackoffWithinBound
  <1>1. ASSUME ClientInv, NEW n \in 1 .. cfg.attempts
        PROVE  BackoffCeil(cfg, n) \in 1 .. Min({cfg.max, cfg.base * 2 ^ (n - 1)})
    <2>1. cfg \in Settings /\ ValidateForServe(cfg)
      BY <1>1 DEF ClientInv
    <2>2. PICK x \in Nat, b \in Nat, k \in Nat \ {0} :
             /\ x = cfg.base * 2 ^ (n - 1) /\ b = cfg.max /\ k = BackoffCeil(cfg, n)
             /\ k <= b /\ k <= x
      BY <2>1, SettingsTyped, CeilBounded
    <2>3. k \in 1 .. Min({b, x})
      <3>1. Min({b, x}) \in Int /\ (Min({b, x}) = b \/ Min({b, x}) = x)
        BY ONLY MinPair, b \in Nat, x \in Nat, \A i \in Nat : i \in Int
      <3> QED BY ONLY <2>2, <3>1, k \in Nat \ {0}
    <2> QED BY ONLY <2>2, <2>3
  <1>2. ClientInv => BackoffWithinBound
    BY <1>1 DEF BackoffWithinBound
  <1> QED BY <1>2, ClientInvInit, ClientInvStep, PTL

=============================================================================
