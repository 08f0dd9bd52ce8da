------------------------- MODULE IdempotencyProofs --------------------------
(***************************************************************************)
(* Requests under one key, for any number of them, any clock skew, faults, *)
(* crashes and panics: an owner whose lock has lapsed cannot touch its     *)
(* successor's record, no two requests work at once under a record that    *)
(* still protects them, an abandoned key is free again, a replay is        *)
(* faithful and, while nothing disturbs it, a key takes effect once.       *)
(***************************************************************************)
EXTENDS Idempotency, FiniteSetTheorems, TLAPS

Answers == [kind : {"none", "conflict", "in_progress", "rate_limited", "error"}]
           \cup [kind : {"replay"}, response : Response] \cup Response
Handler == [pc : {"new", "check", "rate", "begin", "recheck", "work", "resolve",
                  "done", "dead"},
            id : Nat, response : {NoAnswer} \cup Response,
            answer : Answers]

Acquisition == [by : Requests, at : Nat]
Mishaps == [faults : Nat, crashes : Nat, panics : Nat, overruns : SUBSET Requests]

\* Types.
Shapes ==
    /\ now \in Nat /\ ttl \in TTLs
    /\ rec \in {NoRecord} \cup Record
    /\ acquired \in Seq(Acquisition)
    /\ req \in [Requests -> Handler]
    /\ spent \in Mishaps

\* A request at work knows the number of its own acquisition, and its response,
\* once there is one, is its own.
Owned ==
    \A r \in Requests :
        /\ r \in AtWork => req[r].id \in 1 .. Len(acquired) /\ acquired[req[r].id].by = r
        /\ req[r].pc = "resolve" => req[r].response \in Response /\ req[r].response.by = r

\* The record is that of the last acquisition, and its times are counted from it.
Last == acquired[Len(acquired)]
RecordIsLast ==
    rec # NoRecord =>
        /\ Len(acquired) > 0 /\ rec.id = Len(acquired)
        /\ rec.hash = Body[Last.by] /\ rec.expires = Last.at + ttl
        /\ rec.status = "pending" => rec.lock = Last.at + LockTTL

\* The record of a request that is at work and has not outlived it is its own.
HoldsRecord(r) ==
    /\ rec # NoRecord /\ rec.id = req[r].id /\ rec.status = "pending"
    /\ now < Until(req[r].id)
LockHeld == \A r \in AtWork \ spent.overruns : HoldsRecord(r)

\* What the record or a replay says is the definite outcome of a request that
\* has been answered.
Settled(p) ==
    /\ p \in Response /\ ~p.retryable
    /\ req[p.by].pc = "done" /\ p = AsJsonb(req[p.by].response)
RecordTrue ==
    rec # NoRecord /\ rec.status = "completed" =>
        Settled(rec.response) /\ Body[rec.response.by] = rec.hash
ReplaysTrue ==
    \A r \in Requests : req[r].answer.kind = "replay" =>
        Settled(req[r].answer.response) /\ Body[req[r].answer.response.by] = Body[r]

IdemInv == /\ Shapes /\ Owned /\ RecordIsLast /\ RecordTrue /\ ReplaysTrue
           /\ LockHeld

\* A step that nobody outlives.
NoOverrun == spent' \in Mishaps /\ spent'.overruns = spent.overruns

-----------------------------------------------------------------------------
\* Nothing is acquired and nobody works when the store is empty (Init).
LEMMA IdemInvInit == Init => IdemInv
<1>. SUFFICES ASSUME Init PROVE IdemInv  OBVIOUS
<1>. USE IdempotencyAssumption DEF Init, Fresh
<1>1. Shapes
  BY DEF Shapes, Handler, Answers, NoAnswer, Mishaps
<1>2. Owned /\ RecordIsLast /\ RecordTrue
  BY DEF Owned, RecordIsLast, RecordTrue, AtWork
<1>3. ReplaysTrue /\ LockHeld
  BY DEF ReplaysTrue, LockHeld, AtWork, NoAnswer
<1>. QED  BY <1>1, <1>2, <1>3 DEF IdemInv

\* A settled response stays so as long as the answered handlers stay as they are.
LEMMA SettledStays ==
    ASSUME NEW p, Settled(p),
           \A q \in Requests : req[q].pc = "done" =>
               req'[q].pc = "done" /\ req'[q].response = req[q].response
    PROVE  Settled(p)'
BY DEF Settled, Response, AsJsonb

\* A step of one handler that neither starts nor does work and leaves the record
\* alone: Check, AllowRate, Recheck, a Begin that does not get the record, a panic,
\* a crash.
LEMMA AsideKeeps ==
    ASSUME IdemInv, NEW r \in Requests, NEW pc, NEW a, Live(r),
           pc \in {"rate", "begin", "recheck", "done", "dead"}, a \in Answers,
           req' = [req EXCEPT ![r].pc = pc, ![r].answer = a],
           a.kind = "replay" =>
               Settled(a.response) /\ Body[a.response.by] = Body[r],
           UNCHANGED <<now, ttl, rec, acquired>>, NoOverrun
    PROVE  IdemInv'
<1>. USE IdempotencyAssumption DEF IdemInv
<1>1. Shapes'
  BY DEF Shapes, Handler, NoOverrun
<1>2. \A q \in Requests :
        /\ req'[q].id = req[q].id /\ req'[q].response = req[q].response
        /\ q # r => req'[q] = req[q]
  BY DEF Shapes, Handler
<1>3. req'[r].pc = pc /\ req'[r].answer = a /\ req[r].pc \notin {"new", "done"}
  BY DEF Shapes, Handler, Live
<1>5. Owned'
  <2>. SUFFICES ASSUME NEW q \in Requests, q \in AtWork' PROVE Owned!(q)'
    BY DEF Owned, AtWork
  <2>1. q # r /\ req'[q] = req[q] /\ q \in AtWork
    BY <1>2, <1>3 DEF AtWork
  <2>. QED  BY <2>1 DEF Owned
<1>7. RecordIsLast'
  BY DEF RecordIsLast, Last
<1>8. \A p : Settled(p) => Settled(p)'
  BY <1>2, <1>3, SettledStays
<1>9. RecordTrue'
  BY <1>8 DEF RecordTrue
<1>10. ReplaysTrue'
  <2>. SUFFICES ASSUME NEW q \in Requests, req'[q].answer.kind = "replay"
                PROVE  ReplaysTrue!(q)!2'
    BY DEF ReplaysTrue
  <2>1. CASE q = r
    BY <1>3, <1>8, <2>1 DEF Settled
  <2>2. CASE q # r
    <3>1. req'[q].answer = req[q].answer
      BY <1>2, <2>2
    <3>. QED  BY <1>8, <3>1 DEF ReplaysTrue, Settled
  <2>. QED  BY <2>1, <2>2
<1>11. LockHeld'
  BY <1>2, <1>3 DEF LockHeld, HoldsRecord, AtWork, Until, NoOverrun
<1>. QED  BY <1>1, <1>5, <1>7, <1>9, <1>10, <1>11

\* A handler goes on to its next call, or dies.
LEMMA GoOnAside ==
    ASSUME IdemInv, NEW r \in Requests, Live(r),
           NEW pc \in {"rate", "begin", "recheck", "dead"}, GoOn(r, pc),
           UNCHANGED <<now, ttl, rec, acquired>>, NoOverrun
    PROVE  IdemInv'
<1>. DEFINE a == req[r].answer
<1>1. a \in Answers
  BY DEF IdemInv, Shapes, Handler
<1>2. req' = [req EXCEPT ![r].pc = pc, ![r].answer = a]
  BY DEF IdemInv, Shapes, Handler, GoOn
<1>3. a.kind = "replay" => Settled(a.response) /\ Body[a.response.by] = Body[r]
  BY DEF IdemInv, ReplaysTrue
<1>. HIDE DEF a
<1>. QED  BY <1>1, <1>2, <1>3, AsideKeeps

\* A handler refuses its request.
LEMMA RefuseAside ==
    ASSUME IdemInv, NEW r \in Requests, Live(r),
           NEW kind \in {"conflict", "in_progress", "rate_limited", "error"},
           Refuse(r, kind), UNCHANGED <<now, ttl, rec, acquired>>, NoOverrun
    PROVE  IdemInv'
<1>. DEFINE a == [kind |-> kind]
<1>1. a \in Answers /\ a.kind # "replay"
  BY DEF Answers
<1>2. req' = [req EXCEPT ![r].pc = "done", ![r].answer = a]
  BY DEF Refuse, Answer
<1>. HIDE DEF a
<1>. QED  BY <1>1, <1>2, AsideKeeps

\* What has been replayed stays true while no answered handler changes and no
\* further replay is sent.
LEMMA ReplaysStay ==
    ASSUME ReplaysTrue,
           \A q \in Requests : req[q].pc = "done" =>
               req'[q].pc = "done" /\ req'[q].response = req[q].response,
           \A q \in Requests :
               req'[q].answer = req[q].answer \/ req'[q].answer.kind # "replay"
    PROVE  ReplaysTrue'
<1>. SUFFICES ASSUME NEW q \in Requests, req'[q].answer.kind = "replay"
              PROVE  ReplaysTrue!(q)!2'
  BY DEF ReplaysTrue
<1>1. req'[q].answer = req[q].answer
  OBVIOUS
<1>2. \A p : Settled(p) => Settled(p)'
  BY SettledStays
<1>. QED  BY <1>1, <1>2 DEF ReplaysTrue, Settled

\* A request arrives.
LEMMA ArriveKeeps ==
    ASSUME IdemInv, NEW r \in Requests, Arrive(r)
    PROVE  IdemInv'
<1>. USE IdempotencyAssumption DEF IdemInv, Arrive, GoOn
<1>1. Shapes'
  BY DEF Shapes, Handler
<1>2. \A q \in Requests : q # r => req'[q] = req[q]
  BY DEF Shapes, Handler
<1>3. req'[r].pc = "check" /\ req'[r].answer = req[r].answer
  BY DEF Shapes, Handler
<1>5. AtWork' = AtWork /\ \A q \in AtWork : q # r
  BY <1>2, <1>3 DEF AtWork
<1>6. Owned'
  BY <1>2, <1>3, <1>5 DEF Owned
<1>8. RecordIsLast'
  BY DEF RecordIsLast, Last
<1>9. RecordTrue'
  BY <1>2, <1>3 DEF RecordTrue, Settled, Response, AsJsonb
<1>10. ReplaysTrue'
  BY <1>2, <1>3, ReplaysStay
<1>11. LockHeld'
  BY <1>2, <1>5 DEF LockHeld, HoldsRecord, AtWork, Until
<1>. QED  BY <1>1, <1>6, <1>8, <1>9, <1>10, <1>11

\* Time passes, and counts who outlives the record with it.
LEMMA TickKeeps ==
    ASSUME IdemInv, Tick
    PROVE  IdemInv'
<1>. USE IdempotencyAssumption DEF IdemInv, Tick
<1>1. /\ spent' \in Mishaps
      /\ spent'.overruns =
            spent.overruns \cup {r \in AtWork : Until(req[r].id) <= now + 1}
  <2>1. {r \in AtWork : Until(req[r].id) <= now + 1} \subseteq Requests
    BY DEF AtWork
  <2>. QED  BY <2>1 DEF Shapes, Mishaps
<1>2. Shapes'
  BY <1>1 DEF Shapes
<1>3. Owned' /\ RecordIsLast' /\ RecordTrue'
  BY DEF Owned, AtWork, RecordIsLast, Last, RecordTrue, Settled
<1>4. ReplaysTrue'
  BY DEF ReplaysTrue, Settled
<1>5. LockHeld'
  <2>. SUFFICES ASSUME NEW r \in AtWork', r \notin spent'.overruns
                PROVE  HoldsRecord(r)'
    BY DEF LockHeld
  <2>1. r \in AtWork /\ r \notin spent.overruns /\ ~(Until(req[r].id) <= now + 1)
    BY <1>1 DEF AtWork
  <2>2. HoldsRecord(r)
    BY <2>1 DEF LockHeld
  <2>3. Until(req[r].id) \in Nat /\ now \in Nat
    <3>1. r \in Requests /\ req[r].id \in 1 .. Len(acquired)
      BY <2>1 DEF Owned, AtWork
    <3>2. acquired[req[r].id] \in Acquisition
      BY <3>1 DEF Shapes
    <3>3. acquired[req[r].id].at \in Nat
      BY <3>2 DEF Acquisition
    <3>4. now \in Nat /\ ttl \in Nat /\ LockTTL \in Nat
      BY DEF Shapes
    <3>. QED  BY ONLY <3>3, <3>4 DEF Until
  <2>4. now' < Until(req[r].id)
    BY <2>1, <2>3
  <2>. QED  BY <2>2, <2>4 DEF HoldsRecord, Until
<1>. QED  BY <1>2, <1>3, <1>4, <1>5

\* The work ends with a response of the request's own.
LEMMA WorkKeeps ==
    ASSUME IdemInv, NEW r \in Requests, NEW w \in WorkOutcome, Work(r, w)
    PROVE  IdemInv'
<1>. USE IdempotencyAssumption DEF IdemInv, Work
<1>. DEFINE p == [kind |-> "own", by |-> r, text |-> "sent",
                  retryable |-> w \in {"error", "uncertain"}]
<1>0. p \in Response /\ p.by = r
  BY DEF Response
<1>0a. req' = [req EXCEPT ![r].pc = "resolve", ![r].response = p]
  OBVIOUS
<1>. HIDE DEF p
<1>1. Shapes'
  <2>1. \A h \in Handler :
          [h EXCEPT !.pc = "resolve", !.response = p] \in Handler
    BY <1>0 DEF Handler
  <2>2. req' = [req EXCEPT ![r] = [req[r] EXCEPT !.pc = "resolve", !.response = p]]
    BY <1>0a DEF Shapes, Handler
  <2>3. req[r] \in Handler /\ req \in [Requests -> Handler]
    BY DEF Shapes
  <2>4. req' \in [Requests -> Handler]
    BY ONLY <2>1, <2>2, <2>3
  <2>. QED  BY <2>4 DEF Shapes
<1>2. \A q \in Requests : q # r => req'[q] = req[q]
  BY DEF Shapes, Handler
<1>3. /\ req'[r].pc = "resolve" /\ req'[r].id = req[r].id
      /\ req'[r].answer = req[r].answer
      /\ req'[r].response \in Response /\ req'[r].response.by = r
  BY <1>0, <1>0a DEF Shapes, Handler
<1>5. AtWork' = AtWork
  BY <1>2, <1>3 DEF AtWork
<1>6. Owned'
  <2>. SUFFICES ASSUME NEW q \in Requests PROVE Owned!(q)'
    BY DEF Owned
  <2>1. CASE q = r
    BY <1>3, <2>1 DEF Owned, AtWork
  <2>2. CASE q # r
    BY <1>2, <2>2 DEF Owned, AtWork
  <2>. QED  BY <2>1, <2>2
<1>8. RecordIsLast'
  BY DEF RecordIsLast, Last
<1>9. RecordTrue'
  <2>1. \A q \in Requests : req[q].pc = "done" => q # r /\ req'[q] = req[q]
    BY <1>2
  <2>. QED  BY <2>1 DEF RecordTrue, Settled, Response
<1>10. ReplaysTrue'
  BY <1>2, <1>3, ReplaysStay
<1>11. LockHeld'
  <2>. SUFFICES ASSUME NEW q \in Requests, q \in AtWork, q \notin spent.overruns
                PROVE  HoldsRecord(q)'
    BY <1>5 DEF LockHeld, AtWork
  <2>1. req'[q].id = req[q].id
    BY <1>2, <1>3
  <2>2. HoldsRecord(q)
    BY DEF LockHeld
  <2>. QED  BY <2>1, <2>2 DEF HoldsRecord, Until
<1>. QED  BY <1>1, <1>6, <1>8, <1>9, <1>10, <1>11

\* Begin gives the record to r: nobody whom it still protects is at work then, and
\* whoever is at work keeps the number of an older acquisition.
LEMMA AcquireKeeps ==
    ASSUME IdemInv, NEW r \in Requests, NEW o \in {"ok", "lost"}, Begin(r, o),
           Reclaimable
    PROVE  IdemInv'
<1>. USE IdempotencyAssumption, NoRecordAssumption DEF IdemInv
<1>1. /\ Acquire(r) /\ UNCHANGED <<now, ttl>> /\ req[r].pc = "begin"
      /\ \/ o = "ok" /\ req' = [req EXCEPT ![r].pc = "work", ![r].id = FreshId]
         \/ o = "lost" /\ Refuse(r, "error")
  BY DEF Begin
<1>1a. NoOverrun
  BY DEF Begin, Charge, Shapes, Mishaps, NoOverrun
<1>. DEFINE n == [by |-> r, at |-> now]
<1>1b. n \in Acquisition /\ n.by = r /\ n.at = now
  BY DEF Acquisition, Shapes
<1>1c. acquired' = Append(acquired, n)
  BY <1>1 DEF Acquire
<1>. HIDE DEF n
<1>2. /\ acquired' \in Seq(Acquisition)
      /\ Len(acquired') = Len(acquired) + 1 /\ acquired'[Len(acquired) + 1] = n
      /\ \A k \in 1 .. Len(acquired) : acquired'[k] = acquired[k]
      /\ FreshId = Len(acquired) + 1 /\ FreshId \in Nat /\ Len(acquired) \in Nat
  <2>1. acquired \in Seq(Acquisition)
    BY DEF Shapes
  <2>. QED  BY ONLY <1>1b, <1>1c, <2>1 DEF FreshId
<1>3. /\ rec' \in Record /\ rec'.id = FreshId /\ rec'.hash = Body[r]
      /\ rec'.status = "pending"
      /\ rec'.lock = now + LockTTL /\ rec'.expires = now + ttl
  BY <1>1, <1>2 DEF Acquire, Record, Shapes
<1>4. \A q \in Requests : q # r => req'[q] = req[q]
  BY <1>1 DEF Shapes, Handler, Refuse, Answer
<1>5. \/ req'[r].pc = "work" /\ req'[r].id = FreshId /\ req'[r].answer = req[r].answer
      \/ req'[r].pc = "done" /\ req'[r].answer = [kind |-> "error"]
  BY <1>1 DEF Shapes, Handler, Refuse, Answer
<1>6. Shapes'
  <2>1. req' \in [Requests -> Handler]
    <3>1. req \in [Requests -> Handler] /\ FreshId \in Nat
          /\ [kind |-> "error"] \in Answers
      BY <1>2 DEF Shapes, Answers
    <3>2. CASE req' = [req EXCEPT ![r].pc = "work", ![r].id = FreshId]
      BY ONLY <3>1, <3>2 DEF Handler
    <3>3. CASE Refuse(r, "error")
      BY ONLY <3>1, <3>3 DEF Handler, Refuse, Answer
    <3>. QED  BY <1>1, <3>2, <3>3
  <2>. QED  BY <1>1, <1>1a, <1>2, <1>3, <2>1 DEF Shapes, NoOverrun
<1>8. Owned'
  <2>. SUFFICES ASSUME NEW q \in Requests PROVE Owned!(q)'
    BY DEF Owned
  <2>1. CASE q = r
    BY <1>1b, <1>2, <1>5, <2>1 DEF AtWork
  <2>2. CASE q # r
    BY <1>2, <1>4, <2>2 DEF Owned, AtWork
  <2>. QED  BY <2>1, <2>2
<1>9. Last' = n
  BY <1>2 DEF Last
<1>10. RecordIsLast'
  BY <1>1, <1>1b, <1>2, <1>3, <1>9 DEF RecordIsLast
<1>13. RecordTrue'
  BY <1>3 DEF RecordTrue
<1>14. ReplaysTrue'
  <2>1. \A q \in Requests : req[q].pc = "done" => q # r
    BY <1>1
  <2>. QED  BY <1>4, <1>5, <2>1, ReplaysStay
<1>15. LockHeld'
  <2>. SUFFICES ASSUME NEW q \in Requests, q \in AtWork', q \notin spent.overruns
                PROVE  HoldsRecord(q)'
    BY <1>1a DEF LockHeld, AtWork, NoOverrun
  <2>1. CASE q = r
    <3>1. /\ req'[r].id = FreshId /\ FreshId = Len(acquired) + 1
          /\ acquired'[Len(acquired) + 1].at = now
      BY <1>1b, <1>2, <1>5, <2>1 DEF AtWork
    <3>2. now < now + (IF LockTTL < ttl THEN LockTTL ELSE ttl)
      BY DEF Shapes
    <3>3. (now < Until(req[r].id))'
      BY <1>1, <3>1, <3>2 DEF Until
    <3>4. rec' # NoRecord
      BY <1>3
    <3>. QED  BY <1>3, <2>1, <3>1, <3>3, <3>4 DEF HoldsRecord
  <2>2. CASE q # r
    <3>1. q \in AtWork /\ HoldsRecord(q)
      BY <1>4, <2>2 DEF LockHeld, AtWork
    <3>2. req[q].id = Len(acquired) /\ Last.at \in Nat
      <4>1. req[q].id = Len(acquired) /\ Len(acquired) > 0
        BY <3>1 DEF HoldsRecord, RecordIsLast
      <4>2. acquired \in Seq(Acquisition)
        BY DEF Shapes
      <4>3. Last \in Acquisition
        BY ONLY <4>1, <4>2 DEF Last
      <4>. QED  BY <4>1, <4>3 DEF Acquisition
    <3>3. rec.lock = Last.at + LockTTL /\ rec.expires = Last.at + ttl
      BY <3>1 DEF HoldsRecord, RecordIsLast
    <3>4. now < Last.at + (IF LockTTL < ttl THEN LockTTL ELSE ttl)
      BY <3>1, <3>2 DEF HoldsRecord, Until, Last
    <3>5. ~(rec.lock <= now) /\ ~(rec.expires <= now)
      BY <3>2, <3>3, <3>4 DEF Shapes
    <3>. QED  BY <3>1, <3>5 DEF Reclaimable, HoldsRecord
  <2>. QED  BY <2>1, <2>2
<1>. QED  BY <1>6, <1>8, <1>10, <1>13, <1>14, <1>15

\* Complete or Release by r, or neither, and r's answer.  A record that is r's by
\* its number is nobody else's.
LEMMA ResolveKeeps ==
    ASSUME IdemInv, NEW r \in Requests, NEW o \in CallOutcome, Resolve(r, o)
    PROVE  IdemInv'
<1>. USE IdempotencyAssumption, NoRecordAssumption DEF IdemInv
<1>. DEFINE p == req[r].response
<1>1. /\ UNCHANGED <<now, ttl, acquired>> /\ req[r].pc = "resolve"
      /\ req' = [req EXCEPT ![r].pc = "done", ![r].answer = p]
  BY DEF Resolve, Answer
<1>1a. NoOverrun
  BY DEF Resolve, Charge, Shapes, Mishaps, NoOverrun
<1>2. p \in Response /\ p.by = r /\ p.kind = "own"
  BY <1>1 DEF Owned, Response
<1>3. AsJsonb(p) \in Response /\ AsJsonb(p).by = r
      /\ AsJsonb(p).retryable = p.retryable
  BY <1>2 DEF Response, AsJsonb
<1>4. \/ rec' = rec
      \/ rec' = NoRecord /\ Mine(r)
      \/ /\ rec' = [rec EXCEPT !.status = "completed", !.lock = 0,
                               !.response = AsJsonb(p)]
         /\ Mine(r) /\ ~p.retryable
  BY DEF Resolve, Release, Complete
<1>. HIDE DEF p
<1>5. /\ \A q \in Requests : q # r => req'[q] = req[q]
      /\ req'[r].pc = "done" /\ req'[r].answer = p
      /\ req'[r].response = req[r].response
  BY <1>1 DEF Shapes, Handler
<1>6. rec' \in Record /\ rec # NoRecord
      => /\ rec'.id = rec.id /\ rec'.hash = rec.hash /\ rec'.expires = rec.expires
         /\ \/ rec' = rec
            \/ rec'.status = "completed" /\ rec'.response = AsJsonb(p)
               /\ ~p.retryable /\ Mine(r)
  BY <1>3, <1>4 DEF Shapes, Record
<1>7. Shapes'
  <2>1. p \in Answers
    BY <1>2 DEF Answers
  <2>2. req' \in [Requests -> Handler]
    BY <1>1, <2>1 DEF Shapes, Handler
  <2>3. rec' \in {NoRecord} \cup Record
    <3>1. rec # NoRecord => rec \in Record
      BY DEF Shapes
    <3>2. ASSUME rec \in Record, NEW a \in Response
          PROVE  [rec EXCEPT !.status = "completed", !.lock = 0, !.response = a]
                     \in Record
      BY ONLY <3>2 DEF Record
    <3>. QED  BY <1>3, <1>4, <3>1, <3>2 DEF Shapes, Mine
  <2>. QED  BY <1>1, <1>1a, <2>2, <2>3 DEF Shapes, NoOverrun
<1>8. Owned'
  <2>2. ASSUME NEW q \in Requests, q \in AtWork' PROVE Owned!(q)'
    <3>1. req'[q] = req[q] /\ q \in AtWork
      BY <1>5, <2>2 DEF AtWork
    <3>. QED  BY <1>1, <3>1 DEF Owned
  <2>. QED  BY <2>2 DEF Owned, AtWork
<1>9. rec' # NoRecord => rec # NoRecord /\ rec' \in Record
  BY <1>4, <1>7 DEF Mine, Shapes
<1>11. RecordIsLast'
  BY <1>1, <1>6, <1>9 DEF RecordIsLast, Last
<1>12. \A q \in Requests : req[q].pc = "done" =>
          req'[q].pc = "done" /\ req'[q].response = req[q].response
  BY <1>1, <1>5
<1>13. ReplaysTrue'
  BY <1>2, <1>5, <1>12, ReplaysStay
<1>14. RecordTrue'
  <2>. SUFFICES ASSUME rec' # NoRecord, rec'.status = "completed"
                PROVE  RecordTrue!2'
    BY DEF RecordTrue
  <2>1. CASE rec' = rec
    <3>1. \A x : Settled(x) => Settled(x)'
      BY <1>12, SettledStays
    <3>. QED  BY <2>1, <3>1 DEF RecordTrue, Settled
  <2>2. CASE rec' # rec
    <3>1. rec'.response = AsJsonb(p) /\ ~p.retryable /\ Mine(r)
          /\ rec'.hash = rec.hash
      BY <1>6, <1>9, <2>2
    <3>2. rec.hash = Body[r]
      BY <1>1, <1>9, <3>1 DEF RecordIsLast, Mine, Owned, AtWork, Last
    <3>. QED  BY <1>3, <1>5, <3>1, <3>2 DEF Settled, p
  <2>. QED  BY <2>1, <2>2
<1>15. LockHeld'
  <2>. SUFFICES ASSUME NEW q \in Requests, q \in AtWork', q \notin spent.overruns
                PROVE  HoldsRecord(q)'
    BY <1>1a DEF LockHeld, AtWork, NoOverrun
  <2>1. q # r /\ q \in AtWork /\ req'[q] = req[q] /\ HoldsRecord(q)
    BY <1>5 DEF LockHeld, AtWork
  <2>2. ~Mine(r)
    BY <1>1, <2>1 DEF HoldsRecord, Mine, Owned, AtWork
  <2>. QED  BY <1>1, <1>4, <2>1, <2>2 DEF HoldsRecord, Until
<1>. QED  BY <1>7, <1>8, <1>11, <1>13, <1>14, <1>15

\* decideFromLookup sends a replay of the record only for the record's own body.
LEMMA DecideAside ==
    ASSUME IdemInv, NEW r \in Requests, Live(r), NEW o \in CallOutcome,
           Check(r, o) \/ Recheck(r, o)
    PROVE  IdemInv'
<1>. USE IdempotencyAssumption DEF IdemInv
<1>1. req[r].answer \in Answers /\ req \in [Requests -> Handler]
  BY DEF Shapes, Handler
<1>2. UNCHANGED <<now, ttl, rec, acquired>> /\ NoOverrun
  <2>1. spent \in Mishaps
    BY DEF Shapes
  <2>2. UNCHANGED <<now, ttl, rec, acquired>> /\ Charge(o)
    BY DEF Check, Recheck
  <2>3. NoOverrun
    BY ONLY <2>1, <2>2 DEF Charge, Mishaps, NoOverrun
  <2>. QED  BY ONLY <2>2, <2>3
<1>3. CASE GoOn(r, "rate")
  BY <1>1, <1>2, <1>3, GoOnAside
<1>4. ASSUME NEW kind \in {"conflict", "in_progress", "error"}, Refuse(r, kind)
      PROVE  IdemInv'
  BY <1>2, <1>4, RefuseAside
<1>5. CASE Classify(r) = "replay"
           /\ Answer(r, [kind |-> "replay", response |-> rec.response])
  <2>. DEFINE a == [kind |-> "replay", response |-> rec.response]
  <2>1. rec # NoRecord /\ rec.hash = Body[r] /\ rec.status = "completed"
    BY <1>5 DEF Classify
  <2>2. Settled(rec.response) /\ Body[rec.response.by] = Body[r]
    BY <2>1 DEF RecordTrue
  <2>3. a \in Answers
    BY <2>2 DEF Settled, Answers
  <2>4. req' = [req EXCEPT ![r].pc = "done", ![r].answer = a]
    BY <1>5 DEF Answer
  <2>5. a.kind = "replay" => Settled(a.response) /\ Body[a.response.by] = Body[r]
    BY <2>2
  <2>. HIDE DEF a
  <2>. QED  BY <1>2, <2>3, <2>4, <2>5, AsideKeeps
<1>. QED  BY <1>3, <1>4, <1>5 DEF Check, Recheck, Decide

\* Every step keeps the invariant.
LEMMA IdemInvStep ==
    ASSUME IdemInv, [Next]_vars
    PROVE  IdemInv'
<1>1. CASE Tick
  BY <1>1, TickKeeps
<1>2. ASSUME NEW r \in Requests, Arrive(r) PROVE IdemInv'
  BY <1>2, ArriveKeeps
<1>3. ASSUME NEW r \in Requests, Panic(r) \/ Crash(r) PROVE IdemInv'
  <2>1. Live(r) /\ UNCHANGED <<now, ttl, rec, acquired>> /\ NoOverrun
    BY <1>3 DEF Panic, Crash, Live, IdemInv, Shapes, Mishaps, NoOverrun
  <2>2. Refuse(r, "error") \/ GoOn(r, "dead")
    BY <1>3 DEF Panic, Crash
  <2>. QED  BY <2>1, <2>2, RefuseAside, GoOnAside
<1>4. ASSUME NEW r \in Requests, NEW w \in WorkOutcome, Work(r, w) PROVE IdemInv'
  BY <1>4, WorkKeeps
<1>5. ASSUME NEW r \in Requests, NEW o \in CallOutcome, Check(r, o) \/ Recheck(r, o)
      PROVE  IdemInv'
  <2>1. Live(r)
    BY <1>5 DEF Check, Recheck, Live
  <2>. QED  BY <1>5, <2>1, DecideAside
<1>6. ASSUME NEW r \in Requests, NEW o \in RedisOutcome, AllowRate(r, o)
      PROVE  IdemInv'
  <2>1. Live(r) /\ UNCHANGED <<now, ttl, rec, acquired>> /\ NoOverrun
    BY <1>6 DEF AllowRate, Live, Charge, IdemInv, Shapes, Mishaps, NoOverrun
  <2>2. Refuse(r, "rate_limited") \/ GoOn(r, "begin") \/ GoOn(r, "rate")
    BY <1>6 DEF AllowRate, GoOn, IdemInv, Shapes, Handler
  <2>. QED  BY <2>1, <2>2, RefuseAside, GoOnAside
<1>7. ASSUME NEW r \in Requests, NEW o \in CallOutcome, Begin(r, o)
      PROVE  IdemInv'
  <2>1. CASE o # "failed" /\ Reclaimable
    BY <1>7, <2>1, AcquireKeeps DEF CallOutcome
  <2>2. CASE o = "failed" \/ ~Reclaimable
    <3>1. Live(r) /\ UNCHANGED <<now, ttl, rec, acquired>> /\ NoOverrun
      BY <1>7, <2>2 DEF Begin, Live, Charge, IdemInv, Shapes, Mishaps, NoOverrun
    <3>2. Refuse(r, "error") \/ GoOn(r, "recheck")
      BY <1>7, <2>2 DEF Begin
    <3>. QED  BY <3>1, <3>2, RefuseAside, GoOnAside
  <2>. QED  BY <2>1, <2>2
<1>8. ASSUME NEW r \in Requests, NEW o \in CallOutcome, Resolve(r, o)
      PROVE  IdemInv'
  BY <1>8, ResolveKeeps
<1>9. CASE UNCHANGED vars
  BY <1>9 DEF vars, IdemInv, Shapes, Owned, AtWork, RecordIsLast, Last, RecordTrue,
     ReplaysTrue, Settled, LockHeld, HoldsRecord, Until
<1>. QED
  BY <1>1, <1>2, <1>3, <1>4, <1>5, <1>6, <1>7, <1>8, <1>9 DEF Next

\* The invariant in every reachable state.
LEMMA IdemInvAlways == Spec => []IdemInv
BY IdemInvInit, IdemInvStep, PTL DEF Spec

\* A lapsed owner's Complete or Release never changes the record that a later
\* acquisition made, whatever the clocks, the time to live and the faults are.
THEOREM OwnerFenced == Spec => Fenced
<1>1. ASSUME IdemInv, [Next]_vars,
             NEW r \in Requests, req[r].pc = "resolve", req'[r].pc = "done", rec' # rec
      PROVE  acquired[Len(acquired)].by = r
  <2>1. req[r].pc = "resolve" /\ req' # req
    BY <1>1
  <2>2. \E q \in Requests, o \in CallOutcome : Begin(q, o) \/ Resolve(q, o)
    BY <1>1 DEF Next, vars, Tick, Arrive, Panic, Crash, Work, Check, AllowRate,
       Recheck
  <2>3. PICK q \in Requests, o \in CallOutcome : Begin(q, o) \/ Resolve(q, o)
    BY <2>2
  <2>4. q = r
    BY <1>1, <2>3 DEF Begin, Resolve, Refuse, Answer, GoOn, IdemInv, Shapes, Handler
  <2>5. Resolve(r, o) /\ Mine(r)
    BY <1>1, <2>3, <2>4 DEF Begin, Resolve
  <2>. QED  BY <1>1, <2>5 DEF Mine, IdemInv, RecordIsLast, Owned, AtWork
<1>2. IdemInv /\ [Next]_vars
      => [\A r \in Requests :
             req[r].pc = "resolve" /\ req'[r].pc = "done" /\ rec' # rec
                => acquired[Len(acquired)].by = r]_vars
  BY <1>1
<1>. QED  BY <1>2, IdemInvAlways, PTL DEF Spec, Fenced

\* A set whose members are all equal has at most one.
LEMMA AtMostOne ==
    ASSUME NEW S, \A q, r \in S : q = r
    PROVE  Cardinality(S) <= 1
<1>1. CASE S = {}
  BY <1>1, FS_EmptySet
<1>2. CASE S # {}
  <2>1. PICK r : r \in S
    BY <1>2
  <2>2. S = {r}
    BY <2>1
  <2>. QED  BY <2>2, FS_Singleton
<1>. QED  BY <1>1, <1>2

\* Two requests never do the work at once under a record that protects them both,
\* whatever the lock, the time to live, the clocks and the faults are and however
\* long a handler takes (Begin's conditional upsert).
THEOREM WorkExclusive == Spec => []OneAtWork
<1>1. IdemInv => OneAtWork
  <2>. SUFFICES ASSUME IdemInv, NEW q \in AtWork \ spent.overruns,
                       NEW r \in AtWork \ spent.overruns
                PROVE  q = r
    BY AtMostOne DEF OneAtWork
  <2>1. HoldsRecord(q) /\ HoldsRecord(r)
    BY DEF IdemInv, LockHeld
  <2>2. q \in Requests /\ r \in Requests
    BY DEF AtWork
  <2>3. req[q].id = req[r].id
    BY <2>1 DEF HoldsRecord
  <2>4. acquired[req[q].id].by = q /\ acquired[req[r].id].by = r
    BY <2>2 DEF IdemInv, Owned
  <2>. QED  BY <2>3, <2>4
<1>. QED  BY <1>1, IdemInvAlways, PTL

\* An abandoned key does not stay locked: when the time of the last acquisition is
\* over its record can be taken over, panic in the handler included.
THEOREM KeyAlwaysFreed == Spec => []KeyFreed
<1>1. IdemInv => KeyFreed
  <2>. SUFFICES ASSUME IdemInv, rec # NoRecord, rec.status = "pending",
                       now >= Until(Len(acquired))
                PROVE  Reclaimable
    BY DEF KeyFreed
  <2>1. Last \in Acquisition
    BY DEF IdemInv, RecordIsLast, Shapes, Last
  <2>2. Last.at \in Nat /\ now \in Nat /\ ttl \in Nat
    BY <2>1, IdempotencyAssumption DEF IdemInv, Shapes, Acquisition
  <2>3. now >= Last.at + (IF LockTTL < ttl THEN LockTTL ELSE ttl)
    BY DEF Until, Last
  <2>4. rec.lock = Last.at + LockTTL /\ rec.expires = Last.at + ttl
    BY DEF IdemInv, RecordIsLast
  <2>5. rec.lock <= now \/ rec.expires <= now
    BY <2>2, <2>3, <2>4, IdempotencyAssumption
  <2>. QED  BY <2>5 DEF Reclaimable
<1>. QED  BY <1>1, IdemInvAlways, PTL

\* Whatever is replayed is the definite outcome of a request with the same body.
THEOREM ReplaysFaithful == Spec => []ReplayFaithful
<1>1. IdemInv => ReplayFaithful
  BY DEF IdemInv, ReplaysTrue, Settled, ReplayFaithful
<1>. QED  BY <1>1, IdemInvAlways, PTL
-----------------------------------------------------------------------------
(* One effect.                                                             *)

\* A request that has taken effect is about to complete the record it holds, or
\* has done so, until that record expires.
Recorded(r) ==
    \/ req[r].pc = "resolve"
    \/ /\ rec # NoRecord /\ rec.status = "completed"
       /\ rec.response.by = r /\ rec.id = req[r].id
Lasting == \A r \in effects : now < acquired[req[r].id].at + ttl
EffectInv ==
    /\ \A r \in effects :
          /\ r \in Requests /\ req[r].pc \in {"resolve", "done", "dead"}
          /\ req[r].id \in 1 .. Len(acquired)
    /\ Undisturbed /\ Lasting => \A r \in effects : Recorded(r)

\* Nothing has gone wrong yet.
Calm == spent = [faults |-> 0, crashes |-> 0, panics |-> 0, overruns |-> {}]

\* A fault ends the calm for good.
LEMMA CalmBefore ==
    ASSUME spent \in Mishaps, NEW o, Charge(o), Calm'
    PROVE  o = "ok" /\ spent' = spent
BY DEF Mishaps, Charge, Calm

\* Steps that leave the record and the effects alone, begin no work and end none
\* but by a crash or a panic.
LEMMA EffectsAside ==
    ASSUME IdemInv, EffectInv, UNCHANGED <<rec, ttl, effects, acquired>>,
           now' \in Nat, now <= now', Calm' => Calm,
           \A r \in Requests :
              req[r].pc \in {"resolve", "done", "dead"} =>
                    /\ req'[r].pc \in {"resolve", "done", "dead"}
                    /\ req'[r].response = req[r].response /\ req'[r].id = req[r].id
                    /\ Calm' => req'[r].pc = req[r].pc
    PROVE  EffectInv'
<1>1. ASSUME NEW r \in effects
      PROVE  /\ r \in Requests /\ req'[r].pc \in {"resolve", "done", "dead"}
             /\ req[r].id \in 1 .. Len(acquired) /\ req'[r].id = req[r].id
             /\ req'[r].response = req[r].response
             /\ Calm' => req'[r].pc = req[r].pc
  BY <1>1 DEF EffectInv
<1>2. ASSUME Undisturbed', Lasting', NEW r \in effects PROVE Recorded(r)'
  <2>1. Calm' /\ Undisturbed
    BY <1>1, <1>2 DEF Undisturbed, Calm
  <2>2. Lasting
    <3>. SUFFICES ASSUME NEW q \in effects PROVE now < acquired[req[q].id].at + ttl
      BY DEF Lasting
    <3>1. now' < acquired[req[q].id].at + ttl
      BY <1>1, <1>2 DEF Lasting
    <3>2. acquired[req[q].id].at \in Nat /\ now \in Nat /\ ttl \in Nat
      <4>1. acquired[req[q].id] \in Acquisition
        BY <1>1 DEF IdemInv, Shapes
      <4>. QED  BY <4>1, IdempotencyAssumption DEF Acquisition, IdemInv, Shapes
    <3>. QED  BY <3>1, <3>2
  <2>3. Recorded(r)
    BY <2>1, <2>2 DEF EffectInv
  <2>. QED  BY <1>1, <2>1, <2>3 DEF Recorded
<1>. QED  BY <1>1, <1>2 DEF EffectInv

\* The work takes effect in the hands of a request that holds the record.
LEMMA WorkRecorded ==
    ASSUME IdemInv, EffectInv, NEW r \in Requests, NEW w \in WorkOutcome, Work(r, w)
    PROVE  EffectInv'
<1>. USE DEF Work
<1>1. /\ \A q \in Requests : q # r => req'[q] = req[q]
      /\ req'[r].pc = "resolve" /\ req'[r].id = req[r].id
  BY DEF IdemInv, Shapes, Handler
<1>2. req[r].id \in 1 .. Len(acquired)
  BY DEF IdemInv, Owned, AtWork
<1>3. \A q \in effects : q \in Requests /\ q # r /\ q \in effects' /\ req'[q] = req[q]
  BY <1>1 DEF EffectInv
<1>4. \A q \in effects' : q = r \/ q \in effects
  OBVIOUS
<1>5. ASSUME NEW q \in effects'
      PROVE  /\ q \in Requests /\ req'[q].pc \in {"resolve", "done", "dead"}
             /\ req'[q].id \in 1 .. Len(acquired)
  BY <1>1, <1>2, <1>3, <1>4 DEF EffectInv
<1>6. ASSUME Undisturbed', Lasting', NEW q \in effects' PROVE Recorded(q)'
  <2>1. CASE q = r
    BY <1>1, <2>1 DEF Recorded
  <2>2. CASE q \in effects
    <3>1. Undisturbed
      BY <1>3, <1>6 DEF Undisturbed
    <3>2. Lasting
      BY <1>3, <1>6 DEF Lasting
    <3>3. Recorded(q)
      BY <2>2, <3>1, <3>2 DEF EffectInv
    <3>. QED  BY <1>3, <2>2, <3>3 DEF Recorded
  <2>. QED  BY <1>4, <2>1, <2>2
<1>. QED  BY <1>5, <1>6 DEF EffectInv

\* A record that a live request holds, or that an effect completed, is not taken
\* over before it expires.
LEMMA AcquireRecorded ==
    ASSUME IdemInv, EffectInv, NEW r \in Requests,
           NEW o \in {"ok", "lost"}, Begin(r, o), Reclaimable
    PROVE  EffectInv'
<1>1. /\ Acquire(r) /\ UNCHANGED <<now, ttl, effects>> /\ req[r].pc = "begin"
      /\ \/ o = "ok" /\ req' = [req EXCEPT ![r].pc = "work", ![r].id = FreshId]
         \/ o = "lost" /\ Refuse(r, "error")
      /\ Charge(o)
  BY DEF Begin
<1>2. \A q \in Requests : q # r => req'[q] = req[q]
  BY <1>1 DEF IdemInv, Shapes, Handler, Refuse, Answer
<1>3. /\ \A k \in 1 .. Len(acquired) : acquired'[k] = acquired[k]
      /\ Len(acquired') = Len(acquired) + 1 /\ Len(acquired) \in Nat
  <2>1. acquired \in Seq(Acquisition)
    BY DEF IdemInv, Shapes
  <2>2. acquired' = Append(acquired, [by |-> r, at |-> now])
    BY <1>1 DEF Acquire
  <2>. QED  BY ONLY <2>1, <2>2
<1>4. ASSUME NEW q \in effects
      PROVE  /\ q \in Requests /\ q # r /\ req'[q] = req[q]
             /\ req[q].pc \in {"resolve", "done", "dead"}
             /\ req[q].id \in 1 .. Len(acquired)
             /\ acquired'[req[q].id] = acquired[req[q].id]
  BY <1>1, <1>2, <1>3 DEF EffectInv
<1>5. ASSUME NEW q \in effects PROVE req'[q].id \in 1 .. Len(acquired')
  BY <1>3, <1>4
<1>6. ASSUME Undisturbed', Lasting', NEW q \in effects PROVE FALSE
  <2>1. spent' = spent
    BY <1>1, <1>6, CalmBefore DEF Undisturbed, Calm, IdemInv, Shapes
  <2>2. Undisturbed
    BY <1>1, <1>4, <1>6, <2>1 DEF Undisturbed
  <2>3. Lasting
    BY <1>1, <1>4, <1>6 DEF Lasting
  <2>4. Recorded(q)
    BY <2>2, <2>3 DEF EffectInv
  <2>5. /\ acquired[req[q].id].at \in Nat /\ now \in Nat /\ ttl \in Nat
        /\ LockTTL \in Nat
    <3>1. acquired[req[q].id] \in Acquisition
      BY <1>4 DEF IdemInv, Shapes
    <3>. QED  BY <3>1, IdempotencyAssumption DEF Acquisition, IdemInv, Shapes
  <2>6. CASE req[q].pc = "resolve"
    <3>1. q \in AtWork /\ q \notin spent.overruns
      BY <1>4, <2>2, <2>6 DEF AtWork, Undisturbed
    <3>2. HoldsRecord(q)
      BY <3>1 DEF IdemInv, LockHeld
    <3>3. req[q].id = Len(acquired)
      BY <3>2 DEF HoldsRecord, IdemInv, RecordIsLast
    <3>4. rec.lock = Last.at + LockTTL /\ rec.expires = Last.at + ttl
      BY <3>2 DEF HoldsRecord, IdemInv, RecordIsLast
    <3>5. now < Last.at + (IF LockTTL < ttl THEN LockTTL ELSE ttl) /\ Last.at \in Nat
      BY <2>5, <3>2, <3>3 DEF HoldsRecord, Until, Last
    <3>6. ~(rec.lock <= now) /\ ~(rec.expires <= now)
      BY <2>5, <3>4, <3>5
    <3>. QED  BY <3>2, <3>6 DEF Reclaimable, HoldsRecord
  <2>7. CASE rec # NoRecord /\ rec.status = "completed" /\ rec.id = req[q].id
    <3>1. rec.expires = acquired[req[q].id].at + ttl
      BY <2>7 DEF IdemInv, RecordIsLast, Last
    <3>2. now < acquired[req[q].id].at + ttl
      BY <2>3 DEF Lasting
    <3>3. ~(rec.expires <= now)
      BY <2>5, <3>1, <3>2
    <3>. QED  BY <2>7, <3>3 DEF Reclaimable
  <2>. QED  BY <2>4, <2>6, <2>7 DEF Recorded
<1>. QED  BY <1>1, <1>4, <1>5, <1>6 DEF EffectInv

\* A definite outcome completes the record it holds.
LEMMA ResolveRecorded ==
    ASSUME IdemInv, EffectInv, NEW r \in Requests, NEW o \in CallOutcome, Resolve(r, o)
    PROVE  EffectInv'
<1>. DEFINE p == req[r].response
<1>1. /\ UNCHANGED <<now, ttl, effects, acquired>> /\ req[r].pc = "resolve" /\ Charge(o)
      /\ req' = [req EXCEPT ![r].pc = "done", ![r].answer = p]
  BY DEF Resolve, Answer
<1>2. AsJsonb(p) \in Response /\ AsJsonb(p).by = r
  <2>1. p \in Response /\ p.by = r
    BY <1>1 DEF IdemInv, Owned
  <2>. QED  BY <2>1 DEF Response, AsJsonb
<1>3. \/ rec' = rec /\ ~(o = "ok" /\ Mine(r))
      \/ rec' = NoRecord /\ Mine(r) /\ p.retryable
      \/ /\ rec' = [rec EXCEPT !.status = "completed", !.lock = 0,
                               !.response = AsJsonb(p)]
         /\ Mine(r)
  BY DEF Resolve, Release, Complete
<1>. HIDE DEF p
<1>4. /\ \A q \in Requests : q # r => req'[q] = req[q]
      /\ req'[r].pc = "done" /\ req'[r].response = req[r].response
      /\ req'[r].id = req[r].id
  BY <1>1 DEF IdemInv, Shapes, Handler
<1>5. ASSUME NEW q \in effects
      PROVE  /\ q \in Requests /\ req'[q].pc \in {"resolve", "done", "dead"}
             /\ req[q].id \in 1 .. Len(acquired) /\ req'[q].id = req[q].id
             /\ req'[q].response = req[q].response
  BY <1>4 DEF EffectInv
<1>6. ASSUME Undisturbed', Lasting', NEW q \in effects PROVE Recorded(q)'
  <2>1. o = "ok" /\ spent' = spent
    BY <1>1, <1>6, CalmBefore DEF Undisturbed, Calm, IdemInv, Shapes
  <2>2. Undisturbed
    BY <1>1, <1>5, <1>6, <2>1 DEF Undisturbed
  <2>3. Lasting
    BY <1>1, <1>5, <1>6 DEF Lasting
  <2>4. Recorded(q)
    BY <2>2, <2>3 DEF EffectInv
  <2>5. CASE q = r
    <3>1. ~p.retryable
      BY <2>2, <2>5 DEF Undisturbed, p
    <3>2. r \in AtWork /\ r \notin spent.overruns
      BY <1>1, <2>2 DEF AtWork, Undisturbed
    <3>3. Mine(r)
      BY <3>2 DEF IdemInv, LockHeld, HoldsRecord, Mine
    <3>4. rec' = [rec EXCEPT !.status = "completed", !.lock = 0, !.response = AsJsonb(p)]
      BY <1>3, <2>1, <3>1, <3>3
    <3>5. rec \in Record
      BY <3>3 DEF Mine, IdemInv, Shapes
    <3>6. /\ rec' \in Record /\ rec'.status = "completed"
          /\ rec'.response = AsJsonb(p) /\ rec'.id = rec.id
      BY ONLY <1>2, <3>4, <3>5 DEF Record
    <3>. QED  BY <1>2, <1>4, <2>5, <3>3, <3>6, NoRecordAssumption DEF Recorded, Mine
  <2>6. CASE q # r /\ req[q].pc = "resolve"
    BY <1>4, <1>5, <2>6 DEF Recorded
  <2>7. CASE q # r /\ req[q].pc # "resolve"
    <3>1. rec.status = "completed" /\ rec' = rec
      BY <1>3, <2>4, <2>7 DEF Recorded, Mine
    <3>. QED  BY <1>5, <2>4, <2>7, <3>1 DEF Recorded
  <2>. QED  BY <2>5, <2>6, <2>7
<1>. QED  BY <1>1, <1>5, <1>6 DEF EffectInv

\* Every step keeps the invariant of effects.
LEMMA EffectInvStep ==
    ASSUME IdemInv, EffectInv, [Next]_vars
    PROVE  EffectInv'
<1>0. spent \in Mishaps /\ now \in Nat /\ req \in [Requests -> Handler]
  BY DEF IdemInv, Shapes
<1>a. ASSUME NEW r \in Requests, NEW pc, pc \notin {"work", "resolve"}, Live(r),
             \/ \E a : req' = [req EXCEPT ![r].pc = pc, ![r].answer = a]
             \/ req' = [req EXCEPT ![r].pc = pc],
             UNCHANGED <<rec, ttl, effects, acquired, now>>,
             Calm' => Calm /\ req[r].pc # "resolve",
             req[r].pc = "resolve" => pc \in {"done", "dead"}
      PROVE  EffectInv'
  <2>1. \A q \in Requests : q # r => req'[q] = req[q]
    BY <1>0, <1>a DEF Handler
  <2>2. req'[r].pc = pc /\ req'[r].response = req[r].response /\ req'[r].id = req[r].id
    BY <1>0, <1>a DEF Handler
  <2>3. req[r].pc \notin {"done", "dead"}
    BY <1>a DEF Live
  <2> QED BY <1>0, <1>a, <2>1, <2>2, <2>3, EffectsAside
<1>b. ASSUME NEW o, Charge(o) PROVE Calm' => Calm
  BY <1>0, <1>b, CalmBefore DEF Calm
<1>1. CASE Tick
  <2>1. now' \in Nat /\ now <= now' /\ UNCHANGED <<ttl, rec, acquired, req, effects>>
    BY <1>0, <1>1 DEF Tick
  <2>2. Calm' => Calm
    BY <1>0, <1>1 DEF Tick, Calm, Mishaps
  <2> QED BY <2>1, <2>2, EffectsAside
<1>2. ASSUME NEW r \in Requests, Arrive(r) PROVE EffectInv'
  <2>1. \A q \in Requests : q # r => req'[q] = req[q]
    BY <1>0, <1>2 DEF Arrive, GoOn, Handler
  <2>2. req[r].pc = "new" /\ req'[r].pc = "check"
    BY <1>0, <1>2 DEF Arrive, GoOn, Handler
  <2> QED BY <1>0, <1>2, <2>1, <2>2, EffectsAside DEF Arrive, Calm
<1>3. ASSUME NEW r \in Requests, Panic(r) \/ Crash(r) PROVE EffectInv'
  <2>1. Live(r) /\ UNCHANGED <<now, ttl, rec, acquired, effects>>
    BY <1>3 DEF Panic, Crash, Live
  <2>2. ~Calm'
    <3>1. PICK f \in Nat, c \in Nat, n \in Nat, v \in SUBSET Requests :
             spent = [faults |-> f, crashes |-> c, panics |-> n, overruns |-> v]
      BY <1>0 DEF Mishaps
    <3>2. \/ spent' = [faults |-> f, crashes |-> c + 1, panics |-> n, overruns |-> v]
          \/ spent' = [faults |-> f, crashes |-> c, panics |-> n + 1, overruns |-> v]
      BY <1>3, <3>1 DEF Panic, Crash
    <3> QED BY <3>2 DEF Calm
  <2>3. CASE Panic(r)
    <3>1. \E a : req' = [req EXCEPT ![r].pc = "done", ![r].answer = a]
      BY <2>3 DEF Panic, Refuse, Answer
    <3>2. "done" \notin {"work", "resolve"} OBVIOUS
    <3> QED BY ONLY <1>a, <2>1, <2>2, <3>1, <3>2
  <2>4. CASE Crash(r)
    <3>1. req' = [req EXCEPT ![r].pc = "dead"]
      BY <2>4 DEF Crash, GoOn
    <3>2. "dead" \notin {"work", "resolve"} OBVIOUS
    <3> QED BY ONLY <1>a, <2>1, <2>2, <3>1, <3>2
  <2> QED BY <1>3, <2>3, <2>4
<1>4. ASSUME NEW r \in Requests, NEW w \in WorkOutcome, Work(r, w) PROVE EffectInv'
  BY <1>4, WorkRecorded
<1>5. ASSUME NEW r \in Requests, NEW o \in CallOutcome, Check(r, o) \/ Recheck(r, o)
      PROVE  EffectInv'
  <2>1. /\ Live(r) /\ UNCHANGED <<now, ttl, rec, acquired, effects>> /\ Charge(o)
        /\ req[r].pc # "resolve"
    BY <1>5 DEF Check, Recheck, Live
  <2>2. Calm' => Calm
    BY <1>b, <2>1
  <2>3. GoOn(r, "rate") \/ \E a : Answer(r, a)
    BY <1>5 DEF Check, Recheck, Decide, Refuse
  <2> QED BY <1>a, <2>1, <2>2, <2>3 DEF GoOn, Answer
<1>6. ASSUME NEW r \in Requests, NEW o \in RedisOutcome, AllowRate(r, o)
      PROVE  EffectInv'
  <2>1. /\ Live(r) /\ UNCHANGED <<now, ttl, rec, acquired, effects>> /\ Charge(o)
        /\ req[r].pc # "resolve"
    BY <1>6 DEF AllowRate, Live
  <2>2. Calm' => Calm
    BY <1>b, <2>1
  <2>3. GoOn(r, "begin") \/ GoOn(r, "rate") \/ \E a : Answer(r, a)
    BY <1>0, <1>6 DEF AllowRate, Refuse, GoOn, Handler
  <2> QED BY <1>a, <2>1, <2>2, <2>3 DEF GoOn, Answer
<1>7. ASSUME NEW r \in Requests, NEW o \in CallOutcome, Begin(r, o)
      PROVE  EffectInv'
  <2>1. CASE o # "failed" /\ Reclaimable
    BY <1>7, <2>1, AcquireRecorded DEF CallOutcome
  <2>2. CASE o = "failed" \/ ~Reclaimable
    <3>1. /\ Live(r) /\ UNCHANGED <<now, ttl, rec, acquired, effects>> /\ Charge(o)
          /\ req[r].pc # "resolve"
      BY <1>7, <2>2 DEF Begin, Live
    <3>2. Calm' => Calm
      BY <1>b, <3>1
    <3>3. GoOn(r, "recheck") \/ \E a : Answer(r, a)
      BY <1>7, <2>2 DEF Begin, Refuse
    <3> QED BY <1>a, <3>1, <3>2, <3>3 DEF GoOn, Answer
  <2> QED BY <2>1, <2>2
<1>8. ASSUME NEW r \in Requests, NEW o \in CallOutcome, Resolve(r, o)
      PROVE  EffectInv'
  BY <1>8, ResolveRecorded
<1>9. CASE UNCHANGED vars
  <2>1. UNCHANGED <<now, ttl, rec, acquired, req, effects, spent>>
    BY <1>9 DEF vars
  <2> QED BY <1>0, <2>1, EffectsAside DEF Calm
<1> QED
  BY <1>1, <1>2, <1>3, <1>4, <1>5, <1>6, <1>7, <1>8, <1>9 DEF Next

\* One key takes effect once until the record of that effect expires, if nothing
\* crashes, panics or fails and no handler outlives its lock: retries find the
\* record pending or completed (Coordinator.Begin).
THEOREM EffectOnce == Spec => []OneEffect
<1>1. Init => EffectInv
  BY DEF Init, EffectInv
<1>2. IdemInv /\ EffectInv => OneEffect
  <2> SUFFICES ASSUME IdemInv, EffectInv, Undisturbed, Lasting,
                      NEW q \in effects, NEW r \in effects
               PROVE  q = r
    BY AtMostOne DEF OneEffect, Lasting
  <2>1. q \in Requests /\ r \in Requests /\ Recorded(q) /\ Recorded(r)
    BY DEF EffectInv
  <2>2. \A p \in Requests : req[p].pc = "resolve" =>
           /\ rec # NoRecord /\ rec.status = "pending"
           /\ rec.id = req[p].id /\ acquired[req[p].id].by = p
    <3> SUFFICES ASSUME NEW p \in Requests, req[p].pc = "resolve"
                 PROVE  <2>2!(p)!2
      OBVIOUS
    <3>1. p \in AtWork /\ p \notin spent.overruns
      BY DEF AtWork, Undisturbed
    <3> QED BY <3>1 DEF IdemInv, LockHeld, HoldsRecord, Owned
  <2> QED BY <2>1, <2>2 DEF Recorded
<1>3. IdemInv /\ EffectInv /\ [Next]_vars => EffectInv'
  BY EffectInvStep
<1> QED BY <1>1, <1>2, <1>3, IdemInvAlways, PTL DEF Spec
=============================================================================
