------------------------ MODULE BatchPipelineProofs -------------------------
(***************************************************************************)
(* Proof that the batch pipeline loses no committed work when reclaiming   *)
(* is patient, for any number of workers, goroutines, jobs, items, faults  *)
(* and crashes.  The last conjunct of the inductive invariant IndInv says  *)
(* that every open item is answered for; the order of a pool is proved     *)
(* here too, the others in the module this one extends.                    *)
(***************************************************************************)
EXTENDS BatchPipelineTypes

\* A loop handles the same job as long as it handles the same message.
LEMMA JobOfMsgStays ==
    ASSUME TypeOK, [Next]_vars, NEW k \in Lanes, cur[k] # NoMsg, cur'[k] = cur[k]
    PROVE  JobOfMsg(k)' = JobOfMsg(k)
<1>1. cur[k] \in Msgs
  BY DEF TypeOK, QueueTypeOK, PassTypeOK, Msgs, NoMsg
<1> QED BY <1>1, StreamGrows DEF JobOfMsg

\* A step that leaves busy goroutines and their passes alone keeps PoolOrder.
LEMMA PoolFrame ==
    ASSUME TypeOK, TypeOK', Exclusive, PoolOrder, [Next]_vars, locks' = locks,
             \A l \in Lanes, t \in Pool :
                /\ thr'[l][t].st \in Busy \/ thr[l][t].st \in Busy
                      => thr'[l][t] = thr[l][t] /\ cur'[l] = cur[l]
                /\ thr'[l][t].st # "done" => pc'[l] = "pool"
      PROVE  PoolOrder'
<1> USE DEF TypeOK, QueueTypeOK, PassTypeOK
<1>e. \A l \in Lanes : cur[l] # NoMsg /\ cur'[l] = cur[l]
                           => JobOfMsg(l)' = JobOfMsg(l)
  BY JobOfMsgStays
<1>f. \A l \in Lanes, t \in Pool : thr[l][t].st # "done" => cur[l] # NoMsg
  BY DEF PoolOrder, InsidePool, Exclusive
  <1>1. ASSUME NEW l \in Lanes, NEW t \in Pool PROVE InsidePool(l, t)'
    BY <1>e, <1>f DEF PoolOrder, InsidePool, Busy
  <1>2. ASSUME NEW l \in Lanes, NEW t \in Pool, NEW i \in Items
        PROVE  Locks(l, t, i)' <=> Locks(l, t, i)
    BY DEF Locks, Busy
  <1>3. locks \subseteq Items BY DEF StoreTypeOK
  <1> HIDE DEF TypeOK
  <1>4. \A l \in Lanes, t \in Pool, i \in Items : Locks(l, t, i)' => i \in locks'
    BY <1>2 DEF PoolOrder
  <1>5. \A i \in locks' : \E l \in Lanes, t \in Pool : Locks(l, t, i)'
    BY <1>2, <1>3 DEF PoolOrder
  <1>6. \A k, l \in Lanes, s, t \in Pool, i \in Items :
          Locks(k, s, i)' /\ Locks(l, t, i)' => k = l /\ s = t
    BY <1>2 DEF PoolOrder
  <1> QED BY <1>1, <1>4, <1>5, <1>6 DEF PoolOrder

\* A goroutine that moves on gives up the row it has locked.
LEMMA PoolThread ==
    ASSUME TypeOK, TypeOK', Exclusive, PoolOrder, [Next]_vars,
           NEW l \in Lanes, NEW t \in Pool, NEW st, NEW i, pc[l] = "pool",
           pc' = pc, cur' = cur,
           thr' = [thr EXCEPT ![l][t] = [st |-> st, item |-> i]],
           locks' = IF thr[l][t].st = "lock" THEN locks \ {thr[l][t].item}
                                             ELSE locks,
           st # "lock",
           st \in Busy => i \in Items /\ JobOf[i] = JobOfMsg(l)
    PROVE  PoolOrder'
<1> USE DEF TypeOK, QueueTypeOK, PassTypeOK
<1>1. \A k \in Lanes : cur[k] # NoMsg /\ cur'[k] = cur[k]
                          => JobOfMsg(k)' = JobOfMsg(k)
  BY JobOfMsgStays
<1>2. \A k \in Lanes : pc[k] = "pool" => cur[k] # NoMsg
  BY DEF PoolOrder, InsidePool, Exclusive
<1>3. thr'[l][t] = [st |-> st, item |-> i]
  OBVIOUS
<1>4. \A k \in Lanes, s \in Pool : ~(k = l /\ s = t) => thr'[k][s] = thr[k][s]
  OBVIOUS
<1>5. InsidePool(l, t)'
  BY <1>1, <1>2, <1>3 DEF InsidePool
<1>6. ASSUME NEW k \in Lanes, NEW s \in Pool, ~(k = l /\ s = t)
      PROVE  InsidePool(k, s)'
  <2>1. InsidePool(k, s) /\ thr'[k][s] = thr[k][s] BY <1>4, <1>6 DEF PoolOrder
  <2> QED BY <1>1, <1>2, <2>1 DEF InsidePool, Busy
<1>7. ASSUME NEW k \in Lanes, NEW s \in Pool, NEW m \in Items
      PROVE  Locks(k, s, m)' <=> Locks(k, s, m) /\ ~(k = l /\ s = t)
  BY <1>3, <1>4 DEF Locks
<1>8. thr[l][t].st = "lock" => /\ thr[l][t].item \in Items
                               /\ Locks(l, t, thr[l][t].item)
                               /\ \A m : Locks(l, t, m) => m = thr[l][t].item
  BY DEF Locks, PoolOrder, InsidePool, Busy
<1>9. thr[l][t].st # "lock" => \A m : ~Locks(l, t, m)
  BY DEF Locks
<1>10. locks \subseteq Items BY DEF StoreTypeOK
<1> HIDE DEF TypeOK
<1>11. \A k \in Lanes, s \in Pool, m \in Items : Locks(k, s, m)' => m \in locks'
  BY <1>7, <1>8, <1>9 DEF PoolOrder
<1>12. \A m \in locks' : \E k \in Lanes, s \in Pool : Locks(k, s, m)'
  BY <1>7, <1>8, <1>9, <1>10 DEF PoolOrder
<1>13. \A k, n \in Lanes, s, u \in Pool, m \in Items :
        Locks(k, s, m)' /\ Locks(n, u, m)' => k = n /\ s = u
  BY <1>7 DEF PoolOrder
<1> QED BY <1>5, <1>6, <1>11, <1>12, <1>13 DEF PoolOrder

\* A claim locks a row that nobody has locked (FOR UPDATE SKIP LOCKED).
LEMMA PoolSelect ==
    ASSUME TypeOK, TypeOK', Exclusive, PoolOrder, [Next]_vars,
           NEW l \in Lanes, NEW t \in Pool, NEW i \in Items, SelectItem(l, t, i)
    PROVE  PoolOrder'
<1> USE DEF TypeOK, QueueTypeOK, PassTypeOK
<1>0. /\ pc[l] = "pool" /\ thr[l][t].st = "claim" /\ JobOf[i] = JobOfMsg(l)
      /\ i \notin locks /\ locks' = locks \cup {i}
      /\ thr' = [thr EXCEPT ![l][t] = [st |-> "lock", item |-> i]]
      /\ UNCHANGED <<pc, cur, stream>>
  BY DEF SelectItem, InPool, ClaimSelect, Claimable, WithStatus, ItemsOf, Thread, queueVars
<1>3. thr'[l][t] = [st |-> "lock", item |-> i]
  BY <1>0
<1>4. \A k \in Lanes, s \in Pool : ~(k = l /\ s = t) => thr'[k][s] = thr[k][s]
  BY <1>0
<1>5. InsidePool(l, t)'
  BY <1>0, <1>3 DEF InsidePool, JobOfMsg
<1>6. ASSUME NEW k \in Lanes, NEW s \in Pool, ~(k = l /\ s = t)
      PROVE  InsidePool(k, s)'
  <2>1. InsidePool(k, s) BY DEF PoolOrder
  <2>2. thr'[k][s] = thr[k][s] BY <1>4, <1>6
  <2>3. pc'[k] = pc[k] /\ JobOfMsg(k)' = JobOfMsg(k) BY <1>0 DEF JobOfMsg
  <2> HIDE DEF TypeOK
  <2> QED BY <2>1, <2>2, <2>3 DEF InsidePool
<1>7. ASSUME NEW k \in Lanes, NEW s \in Pool, NEW m \in Items
      PROVE  Locks(k, s, m)' <=> Locks(k, s, m) \/ (k = l /\ s = t /\ m = i)
  BY <1>0, <1>3, <1>4 DEF Locks
<1>10. locks \subseteq Items BY DEF StoreTypeOK
<1> HIDE DEF TypeOK
<1>11. \A k \in Lanes, s \in Pool, m \in Items : Locks(k, s, m)' => m \in locks'
  BY <1>0, <1>7 DEF PoolOrder
<1>12. \A m \in locks' : \E k \in Lanes, s \in Pool : Locks(k, s, m)'
  BY <1>0, <1>7, <1>10 DEF PoolOrder
<1>13. \A k, n \in Lanes, s, u \in Pool, m \in Items :
        Locks(k, s, m)' /\ Locks(n, u, m)' => k = n /\ s = u
  BY <1>0, <1>7 DEF PoolOrder
<1> QED BY <1>5, <1>6, <1>11, <1>12, <1>13 DEF PoolOrder

\* A crash rolls back the claims of that worker, and only those.
LEMMA PoolCrash ==
    ASSUME TypeOK, TypeOK', Exclusive, PoolOrder, [Next]_vars,
           NEW w \in Workers, Crash(w)
    PROVE  PoolOrder'
<1> USE DEF TypeOK, QueueTypeOK, PassTypeOK
<1> DEFINE Dead == {i \in locks : \E l \in LanesOf(w), t \in Pool :
                         thr[l][t] = [st |-> "lock", item |-> i]}
<1>0. \A k \in Lanes : k[1] # w => pc'[k] = pc[k] /\ cur'[k] = cur[k] /\ thr'[k] = thr[k]
  BY DEF Crash
<1>1. \A k \in Lanes, s \in Pool : k[1] = w => thr'[k][s] = [st |-> "done", item |-> NoItem]
  BY DEF Crash, Parked
<1>2. locks' = locks \ Dead /\ stream' = stream
  BY DEF Crash, ClaimRollback, queueVars
<1>3. \A k \in Lanes : k[1] = w <=> k \in LanesOf(w)
  BY DEF Lanes, LanesOf
<1>31. LanesOf(w) \subseteq Lanes
  BY DEF Lanes, LanesOf
<1>4. \A k \in Lanes, s \in Pool, i \in Items :
         thr[k][s] = [st |-> "lock", item |-> i] <=> Locks(k, s, i)
  BY DEF Locks
<1>5. ASSUME NEW k \in Lanes, NEW s \in Pool
      PROVE  InsidePool(k, s)'
  <2>1. CASE k[1] = w
    BY <1>1, <2>1 DEF InsidePool, Busy
  <2>2. CASE k[1] # w
    <3>1. InsidePool(k, s) BY DEF PoolOrder
    <3> QED BY <1>0, <1>2, <2>2, <3>1 DEF InsidePool, JobOfMsg
  <2> QED BY <2>1, <2>2
<1>7. ASSUME NEW k \in Lanes, NEW s \in Pool, NEW m \in Items
      PROVE  Locks(k, s, m)' <=> Locks(k, s, m) /\ k[1] # w
  BY <1>0, <1>1 DEF Locks
<1>10. locks \subseteq Items BY DEF StoreTypeOK
<1>8. \A i \in Items : i \in Dead <=> i \in locks /\ \E l \in Lanes, t \in Pool : l[1] = w /\ Locks(l, t, i)
  <2> SUFFICES ASSUME NEW i \in Items
               PROVE  i \in Dead <=> i \in locks /\ \E l \in Lanes, t \in Pool : l[1] = w /\ Locks(l, t, i)
    OBVIOUS
  <2>1. i \in Dead <=> i \in locks /\ \E l \in LanesOf(w), t \in Pool : thr[l][t] = [st |-> "lock", item |-> i]
    OBVIOUS
  <2> HIDE DEF Dead, TypeOK
  <2>2. ASSUME i \in Dead
        PROVE  i \in locks /\ \E l \in Lanes, t \in Pool : l[1] = w /\ Locks(l, t, i)
    <3>1. PICK l \in LanesOf(w), t \in Pool : thr[l][t] = [st |-> "lock", item |-> i]
      BY <2>1, <2>2
    <3>2. l \in Lanes /\ l[1] = w BY <1>3, <1>31
    <3>3. Locks(l, t, i) BY <1>4, <3>1, <3>2
    <3> QED BY <2>1, <2>2, <3>2, <3>3
  <2>3. ASSUME i \in locks, NEW l \in Lanes, NEW t \in Pool, l[1] = w, Locks(l, t, i)
        PROVE  i \in Dead
    BY <1>3, <1>4, <2>1, <2>3
  <2> QED BY <2>2, <2>3
<1> HIDE DEF TypeOK, Dead
<1>11. \A k \in Lanes, s \in Pool, m \in Items : Locks(k, s, m)' => m \in locks'
  BY <1>2, <1>7, <1>8 DEF PoolOrder
<1>12. \A m \in locks' : \E k \in Lanes, s \in Pool : Locks(k, s, m)'
  BY <1>2, <1>7, <1>8, <1>10 DEF PoolOrder
<1>13. \A k, n \in Lanes, s, u \in Pool, m \in Items :
        Locks(k, s, m)' /\ Locks(n, u, m)' => k = n /\ s = u
  BY <1>7 DEF PoolOrder
<1> QED BY <1>5, <1>11, <1>12, <1>13 DEF PoolOrder
\* A pass whose goroutines are all parked may move on, end, or start them.
LEMMA PoolPass ==
    ASSUME TypeOK, TypeOK', Exclusive, PoolOrder, [Next]_vars, locks' = locks,
           NEW l \in Lanes,
           \A t \in Pool :
              /\ thr[l][t].st = "done"
              /\ \/ thr'[l][t].st = "done"
                 \/ thr'[l][t].st = "claim" /\ pc'[l] = "pool",
           \A k \in Lanes : k # l => /\ thr'[k] = thr[k]
                                     /\ pc'[k] = pc[k] /\ cur'[k] = cur[k]
    PROVE  PoolOrder'
<1>1. ASSUME NEW k \in Lanes, NEW t \in Pool
      PROVE  /\ thr'[k][t].st \in Busy \/ thr[k][t].st \in Busy
                  => thr'[k][t] = thr[k][t] /\ cur'[k] = cur[k]
             /\ thr'[k][t].st # "done" => pc'[k] = "pool"
  BY DEF PoolOrder, InsidePool, Busy
<1> QED BY <1>1, PoolFrame

\* Outside the pool no goroutine runs.
LEMMA ParkedOutside ==
    ASSUME PoolOrder, NEW l \in Lanes, pc[l] # "pool"
    PROVE  \A t \in Pool : thr[l][t].st = "done"
BY DEF PoolOrder, InsidePool

\* A pass ends once its goroutines are parked.
LEMMA PoolEnd ==
    ASSUME TypeOK, TypeOK', Exclusive, PoolOrder, [Next]_vars, locks' = locks,
           NEW l \in Lanes, EndPass(l), \A t \in Pool : thr[l][t].st = "done"
    PROVE  PoolOrder'
<1>1. \A t \in Pool : thr'[l][t].st = "done"
  BY DEF EndPass, Parked, TypeOK, PassTypeOK
<1>2. \A k \in Lanes : k # l => /\ thr'[k] = thr[k]
                                /\ pc'[k] = pc[k] /\ cur'[k] = cur[k]
  BY DEF EndPass, TypeOK, PassTypeOK
<1> QED BY <1>1, <1>2, PoolPass

\* A pass moves on once its goroutines are parked.
LEMMA PoolGoTo ==
    ASSUME TypeOK, TypeOK', Exclusive, PoolOrder, [Next]_vars, locks' = locks,
           NEW l \in Lanes, \A t \in Pool : thr[l][t].st = "done",
           thr' = thr, \A k \in Lanes : k # l => pc'[k] = pc[k] /\ cur'[k] = cur[k]
    PROVE  PoolOrder'
BY PoolPass

\* The goroutines of a pool: they stop before the pass goes on, and a row lock
\* has exactly one goroutine behind it.
LEMMA PoolOrderStep ==
    ASSUME TypeOK, TypeOK', Exclusive, PoolOrder, [Next]_vars
    PROVE  PoolOrder'
<1> USE DEF TypeOK, QueueTypeOK, PassTypeOK
<1>1. ASSUME NEW j \in Jobs, NEW o \in Outcome, CreateBatchJob(j, o)
      PROVE  PoolOrder'
  BY PoolFrame, <1>1 DEF CreateBatchJob, PoolOrder, InsidePool, storeVars, passVars, CreateWithItemsAndOutbox
<1>2. ASSUME NEW j \in Jobs, NEW o \in SendOutcome, ApiPublish(j, o)
      PROVE  PoolOrder'
  BY PoolFrame, <1>2 DEF ApiPublish, PoolOrder, InsidePool, storeVars, passVars
<1>3. ASSUME NEW j \in Jobs, NEW o \in Outcome, ApiMark(j, o)
      PROVE  PoolOrder'
  BY PoolFrame, <1>3 DEF ApiMark, PoolOrder, InsidePool, storeVars, passVars, MarkOutboxPublished
<1>4. ASSUME NEW j \in Jobs, ApiCrash(j)
      PROVE  PoolOrder'
  BY PoolFrame, <1>4 DEF ApiCrash, PoolOrder, InsidePool, storeVars, passVars
<1>5. ASSUME NEW j \in Jobs, DeleteJob(j)
      PROVE  PoolOrder'
  BY PoolFrame, <1>5 DEF DeleteJob, PoolOrder, InsidePool, storeVars, passVars, CascadeDelete
<1>6. ASSUME NEW w \in Workers, DrainRead(w)
      PROVE  PoolOrder'
  BY PoolFrame, <1>6 DEF DrainRead, PoolOrder, InsidePool, storeVars, passVars
<1>7. ASSUME NEW w \in Workers, NEW j \in Jobs, NEW o \in SendOutcome,
             DrainPublish(w, j, o)
      PROVE  PoolOrder'
  BY PoolFrame, <1>7 DEF DrainPublish, PoolOrder, InsidePool, storeVars, passVars
<1>8. ASSUME NEW w \in Workers, NEW o \in Outcome, DrainMark(w, o)
      PROVE  PoolOrder'
  BY PoolFrame, <1>8 DEF DrainMark, PoolOrder, InsidePool, storeVars, passVars, MarkOutboxPublished
<1>9. ASSUME NEW w \in Workers, Crash(w)
      PROVE  PoolOrder'
  BY PoolCrash, <1>9
<1>10. ASSUME NEW l \in Lanes, NEW o \in Outcome, Consume(l, o)
      PROVE  PoolOrder'
  BY PoolFrame, <1>10 DEF Consume, PoolOrder, InsidePool, storeVars, passVars
<1>11. ASSUME NEW l \in Lanes, Claim(l)
      PROVE  PoolOrder'
  BY PoolFrame, <1>11 DEF Claim, PoolOrder, InsidePool, storeVars, passVars
<1>12. ASSUME NEW l \in Lanes, StartMessage(l)
      PROVE  PoolOrder'
  <2>1. /\ pc[l] # "pool" /\ locks' = locks /\ thr' = thr
        /\ \A k \in Lanes : k # l => pc'[k] = pc[k] /\ cur'[k] = cur[k]
    BY <1>12 DEF StartMessage, passVars, storeVars
  <2> QED BY <2>1, ParkedOutside, PoolGoTo
<1>13. ASSUME NEW l \in Lanes, NEW o \in Outcome, MarkRunning(l, o)
      PROVE  PoolOrder'
  <2>1. pc[l] # "pool" /\ locks' = locks
    BY <1>13 DEF MarkRunning, storeVars, MarkJobRunning
  <2>2. EndPass(l) \/ (pc' = [pc EXCEPT ![l] = "requeue"] /\ thr' = thr /\ cur' = cur)
    BY <1>13 DEF MarkRunning, GoTo
  <2> QED BY <2>1, <2>2, ParkedOutside, PoolGoTo, PoolEnd
<1>14. ASSUME NEW l \in Lanes, NEW o \in Outcome, RequeueRunning(l, o)
      PROVE  PoolOrder'
  <2>1. pc[l] # "pool" /\ locks' = locks
    BY <1>14 DEF RequeueRunning, RequeueRunningItems, storeVars
  <2>2. CASE EndPass(l)
    BY <2>1, <2>2, ParkedOutside, PoolEnd
  <2>3. CASE ~EndPass(l)
    <3>1. /\ \A t \in Pool : thr'[l][t].st = "claim"
          /\ pc'[l] = "pool"
          /\ \A k \in Lanes : k # l => /\ thr'[k] = thr[k]
                                       /\ pc'[k] = pc[k] /\ cur'[k] = cur[k]
      BY <1>14, <2>3 DEF RequeueRunning, Started
    <3> QED BY <2>1, <3>1, ParkedOutside, PoolPass
  <2> QED BY <2>2, <2>3
<1>15. ASSUME NEW l \in Lanes, JoinPool(l)
      PROVE  PoolOrder'
  <2>1. locks' = locks /\ \A t \in Pool : thr[l][t].st = "done"
    BY <1>15 DEF JoinPool, storeVars
  <2>2. EndPass(l) \/ (pc' = [pc EXCEPT ![l] = "recount"] /\ thr' = thr /\ cur' = cur)
    BY <1>15 DEF JoinPool, GoTo
  <2> QED BY <2>1, <2>2, PoolGoTo, PoolEnd
<1>16. ASSUME NEW l \in Lanes, Recount(l)
      PROVE  PoolOrder'
  <2>1. pc[l] # "pool" /\ locks' = locks
    BY <1>16 DEF Recount, storeVars
  <2>2. EndPass(l) \/ (pc' = [pc EXCEPT ![l] = "rewrite"] /\ thr' = thr /\ cur' = cur)
    BY <1>16 DEF Recount, GoTo
  <2> QED BY <2>1, <2>2, ParkedOutside, PoolGoTo, PoolEnd
<1>17. ASSUME NEW l \in Lanes, NEW o \in Outcome, Rewrite(l, o)
      PROVE  PoolOrder'
  <2>1. pc[l] # "pool" /\ locks' = locks
    BY <1>17 DEF Rewrite, storeVars, RecomputeWrite
  <2>2. EndPass(l) \/ ((\E p : pc' = [pc EXCEPT ![l] = p]) /\ thr' = thr /\ cur' = cur)
    BY <1>17 DEF Rewrite, GoTo
  <2> QED BY <2>1, <2>2, ParkedOutside, PoolGoTo, PoolEnd
<1>18. ASSUME NEW l \in Lanes, NEW o \in Outcome, DropMessage(l, o)
      PROVE  PoolOrder'
  <2>1. pc[l] # "pool" /\ locks' = locks
    BY <1>18 DEF DropMessage, storeVars
  <2>2. EndPass(l) \/ (pc' = [pc EXCEPT ![l] = "ack"] /\ thr' = thr /\ cur' = cur)
    BY <1>18 DEF DropMessage, GoTo
  <2> QED BY <2>1, <2>2, ParkedOutside, PoolGoTo, PoolEnd
<1>19. ASSUME NEW l \in Lanes, NEW o \in Outcome, AckMessage(l, o)
      PROVE  PoolOrder'
  <2>1. pc[l] # "pool" /\ locks' = locks
    BY <1>19 DEF AckMessage, storeVars
  <2>2. EndPass(l) \/ (pc' = [pc EXCEPT ![l] = "ack"] /\ thr' = thr /\ cur' = cur)
    BY <1>19 DEF AckMessage, GoTo
  <2> QED BY <2>1, <2>2, ParkedOutside, PoolGoTo, PoolEnd
<1>20. ASSUME NEW l \in Lanes, NEW t \in Pool, NEW i \in Items, SelectItem(l,
             t, i)
      PROVE  PoolOrder'
  BY PoolSelect, <1>20
<1>21. ASSUME NEW l \in Lanes, NEW t \in Pool, SelectNone(l, t)
      PROVE  PoolOrder'
  BY PoolThread, <1>21 DEF SelectNone, InPool, Thread, BreakOff, Busy, storeVars
<1>22. ASSUME NEW l \in Lanes, NEW t \in Pool, SelectError(l, t)
      PROVE  PoolOrder'
  BY PoolThread, <1>22 DEF SelectError, InPool, Thread, BreakOff, Busy, storeVars
<1>23. ASSUME NEW l \in Lanes, NEW t \in Pool, NEW o \in Outcome,
             CommitClaim(l, t, o)
      PROVE  PoolOrder'
  <2>1. /\ pc[l] = "pool" /\ pc' = pc /\ cur' = cur /\ thr[l][t].st = "lock"
        /\ locks' = locks \ {thr[l][t].item}
    BY <1>23 DEF CommitClaim, InPool, Thread, BreakOff, ClaimCommit, ClaimRollback
  <2>2. thr[l][t].item \in Items /\ JobOf[thr[l][t].item] = JobOfMsg(l)
    BY <2>1 DEF PoolOrder, InsidePool, Busy
  <2>3. CASE thr' = [thr EXCEPT ![l][t] = [st |-> "dlq", item |-> thr[l][t].item]]
    BY <2>1, <2>2, <2>3, PoolThread
  <2>4. CASE thr' = [thr EXCEPT ![l][t] = [st |-> "work", item |-> thr[l][t].item]]
    BY <2>1, <2>2, <2>4, PoolThread
  <2>5. CASE thr' = [thr EXCEPT ![l][t] = [st |-> "done", item |-> NoItem]]
    BY <2>1, <2>5, PoolThread DEF Busy
  <2> QED BY <1>23, <2>3, <2>4, <2>5 DEF CommitClaim, Thread, BreakOff
<1>24. ASSUME NEW l \in Lanes, NEW t \in Pool, NEW o \in SendOutcome,
             DeadLetterItem(l, t, o)
      PROVE  PoolOrder'
  <2>1. /\ pc[l] = "pool" /\ pc' = pc /\ cur' = cur /\ locks' = locks
        /\ thr[l][t].st \in {"dlq", "resend"}
    BY <1>24 DEF DeadLetterItem, InPool, Thread, storeVars
  <2>2. thr[l][t].item \in Items /\ JobOf[thr[l][t].item] = JobOfMsg(l)
    BY <2>1 DEF PoolOrder, InsidePool, Busy
  <2>3. CASE thr' = [thr EXCEPT ![l][t] = [st |-> "resend", item |-> thr[l][t].item]]
    BY <2>1, <2>2, <2>3, PoolThread
  <2>4. CASE thr' = [thr EXCEPT ![l][t] = [st |-> "claim", item |-> NoItem]]
    BY <2>1, <2>4, PoolThread DEF Busy
  <2> QED BY <1>24, <2>3, <2>4 DEF DeadLetterItem, Thread
<1>25. ASSUME NEW l \in Lanes, NEW t \in Pool, NEW status \in TerminalItem,
             NEW o \in Outcome, FinishItem(l, t, status, o)
      PROVE  PoolOrder'
  <2>1. /\ pc[l] = "pool" /\ pc' = pc /\ cur' = cur /\ thr[l][t].st = "work"
        /\ locks' = locks
    BY <1>25 DEF FinishItem, InPool, Thread, BreakOff, UpdateItemTerminal, storeVars
  <2>2. CASE thr' = [thr EXCEPT ![l][t] = [st |-> "claim", item |-> NoItem]]
    BY <2>1, <2>2, PoolThread DEF Busy
  <2>3. CASE thr' = [thr EXCEPT ![l][t] = [st |-> "done", item |-> NoItem]]
    BY <2>1, <2>3, PoolThread DEF Busy
  <2> QED BY <1>25, <2>2, <2>3 DEF FinishItem, Thread, BreakOff
<1>26. ASSUME ForeignMessage
      PROVE  PoolOrder'
  BY PoolFrame, <1>26 DEF ForeignMessage, PoolOrder, InsidePool, storeVars, passVars
<1>27. CASE UNCHANGED vars
  BY PoolFrame, <1>27 DEF vars, PoolOrder, InsidePool, storeVars, passVars
<1>28. QED
  BY <1>1, <1>2, <1>3, <1>4, <1>5, <1>6, <1>7, <1>8, <1>9, <1>10, <1>11,
     <1>12, <1>13, <1>14, <1>15, <1>16, <1>17, <1>18, <1>19, <1>20, <1>21,
     <1>22, <1>23, <1>24, <1>25, <1>26, <1>27
     DEF Next, ApiStep, DrainStep, LaneStep, ThreadStep

-----------------------------------------------------------------------------
\* A stream that nothing was published on has no message (Publish numbers them).
LEMMA NoMessages ==
    ASSUME NEW s, s = <<>> PROVE DOMAIN s = {}
OBVIOUS

\* Before anything is created the invariant holds: no job, no message, no lock.
LEMMA IndInvInit ==
    ASSUME Init PROVE IndInv
<1> USE PipelineAssumption DEF Init, StoreInit
<1>1. OutboxOrder
  <2>0. stream = <<>> OBVIOUS
  <2>1. Msgs = {}
    BY ONLY <2>0, NoMessages DEF Msgs
  <2>2. \A j \in Jobs : outbox[j] = "absent" /\ api[j] = "create" /\ ~Sent(j)
    BY <2>1 DEF Sent
  <2>3. \A w \in Workers : rows[w] = {} /\ marking[w] = NoJob OBVIOUS
  <2> HIDE DEF Init
  <2> QED BY <2>2, <2>3 DEF OutboxOrder
<1>2. Exclusive
  BY DEF Exclusive, NoMsg
<1>3. PoolOrder
  BY DEF PoolOrder, InsidePool, Locks, Parked, Busy
<1>4. LockedIsQueued /\ Answerable
  BY DEF LockedIsQueued, Answerable, OpenItem
<1> QED BY <1>1, <1>2, <1>3, <1>4 DEF IndInv

-----------------------------------------------------------------------------
(* An open item stays answered for.                                        *)

\* Unacked messages are in the stream.
LEMMA UnackedMsgs ==
    ASSUME TypeOK PROVE Unacked \subseteq Msgs
<1>1. ASSUME NEW m \in pel PROVE m \in Msgs
  BY DEF TypeOK, QueueTypeOK, Msgs
<1> QED BY <1>1 DEF Unacked, Unread

\* A step that publishes nothing keeps an open item answered if every message
\* that answered for it is succeeded by one that does.
LEMMA AnsweredKept ==
    ASSUME stream' = stream, NEW i \in Items, Answered(i),
           ~Sent(JobOf[i]) => outbox'[JobOf[i]] = outbox[JobOf[i]],
           \A m \in Unacked : Answers(m, i) => \E n \in Unacked' : Answers(n, i)'
    PROVE  Answered(i)'
<1>1. Sent(JobOf[i])' <=> Sent(JobOf[i])
  BY DEF Sent, Msgs
<1> QED BY <1>1 DEF Answered

\* Passes that a step leaves alone keep what they will handle.
LEMMA WillHandleKept ==
    ASSUME NEW k \in Lanes, NEW i \in Items, WillHandle(k, i),
           pc'[k] = pc[k], thr'[k] = thr[k], broken'[k] = broken[k],
           item'[i].status = item[i].status \/ item'[i].status = "queued"
    PROVE  WillHandle(k, i)'
BY DEF WillHandle

\* A step of one loop keeps an item answered if that loop still handles the
\* message it has, and acks no message that answers for the item.
LEMMA LaneKeepsAnswered ==
    ASSUME stream' = stream, outbox' = outbox, NEW i \in Items, Answered(i),
           NEW l \in Lanes,
           \A k \in Lanes \ {l} : /\ pc'[k] = pc[k] /\ cur'[k] = cur[k]
                                  /\ thr'[k] = thr[k] /\ broken'[k] = broken[k],
           item'[i].status = item[i].status \/ item'[i].status = "queued",
           \A m \in Unacked : Answers(m, i) =>
               m \in Unacked' /\ (cur'[l] = m => WillHandle(l, i)')
    PROVE  Answered(i)'
<1>1. ASSUME NEW m \in Unacked, Answers(m, i)
      PROVE  \E n \in Unacked' : Answers(n, i)'
  <2>1. ASSUME NEW k \in Lanes, cur'[k] = m
        PROVE  WillHandle(k, i)'
    <3>1. CASE k = l BY <1>1, <2>1, <3>1
    <3>2. CASE k # l BY <1>1, <2>1, <3>2, WillHandleKept DEF Answers
    <3> QED BY <3>1, <3>2
  <2>2. Answers(m, i)'
    BY <1>1, <2>1 DEF Answers
  <2> QED BY <1>1, <2>2
<1> QED BY <1>1, AnsweredKept

\* The message that a pass handles answers for an item its pass will handle.
LEMMA HandlerAnswers ==
    ASSUME TypeOK, TypeOK', Exclusive', NEW l \in Lanes, NEW i \in Items, stream' = stream,
           pc'[l] # "idle", JobOfMsg(l)' = JobOf[i], WillHandle(l, i)', Sent(JobOf[i])
    PROVE  Answered(i)'
<1>1. cur'[l] \in Unacked'
  BY DEF Exclusive, Unacked
<1>2. \A k \in Lanes : cur'[k] = cur'[l] => k = l
  BY DEF Exclusive
<1>3. Answers(cur[l], i)'
  BY <1>2 DEF Answers, JobOfMsg
<1>4. Sent(JobOf[i])'
  BY DEF Sent, Msgs
<1> QED BY <1>1, <1>3, <1>4 DEF Answered

\* A publication: the new message answers for the items of its job.
LEMMA PublishKeepsAnswered ==
    ASSUME TypeOK, TypeOK', OutboxOrder, Answerable, [Next]_vars, NEW i \in Items,
           item'[i].status \in OpenItem,
           NEW c \in Jobs \cup {NoJob}, stream' = Append(stream, c), UNCHANGED <<item, outbox, cursor, pel, cur, pc, thr, broken>>
    PROVE  Answered(i)'
<1> USE DEF TypeOK, QueueTypeOK, PassTypeOK
<1>n. PICK n \in Nat : n = Len(stream) + 1 OBVIOUS
<1>0. Answered(i) BY DEF Answerable
<1>s. stream \in Seq(Jobs \cup {NoJob}) /\ cursor \in 0..Len(stream)
  OBVIOUS
<1>3. \A l \in Lanes : cur'[l] # n
  <2> SUFFICES ASSUME NEW l \in Lanes PROVE cur'[l] # n OBVIOUS
  <2>1. cur[l] \in 0..cursor OBVIOUS
  <2> HIDE DEF TypeOK
  <2> QED BY <1>n, <1>s, <2>1
<1> HIDE DEF TypeOK
<1>1. /\ Msgs' = Msgs \cup {n} /\ n \notin Msgs
      /\ stream'[n] = c /\ \A m \in Msgs : stream'[m] = stream[m]
  <2>1. Len(stream') = n BY <1>n, <1>s
  <2>2. Msgs = 1..Len(stream) BY <1>s DEF Msgs
  <2>3. Msgs' = 1..n BY <1>n, <1>s, <2>1 DEF Msgs
  <2>4. stream'[n] = c BY <1>n, <1>s
  <2>5. \A m \in 1..Len(stream) : stream'[m] = stream[m] BY <1>s
  <2>6. Len(stream) \in Nat BY <1>s
  <2>7. 1..n = (1..Len(stream)) \cup {n} /\ n \notin 1..Len(stream) BY <1>n, <2>6
  <2> QED BY <2>2, <2>3, <2>4, <2>5, <2>7
<1>2. Unacked' = Unacked \cup {n}
  BY <1>1, <1>n, <1>s DEF Unacked, Unread
<1>31. \A l \in Lanes : WillHandle(l, i) => WillHandle(l, i)'
  BY DEF WillHandle
<1>4. \A m \in Unacked : Answers(m, i) => Answers(m, i)'
  BY <1>1, <1>31, UnackedMsgs DEF Answers
<1>5. CASE Sent(JobOf[i])
  BY <1>0, <1>2, <1>4, <1>5, StreamGrows DEF Answered
<1>6. CASE ~Sent(JobOf[i]) /\ c = JobOf[i]
  <2>1. Answers(n, i)'
    BY <1>1, <1>3, <1>6 DEF Answers
  <2>2. Sent(JobOf[i])'
    BY <1>1, <1>6 DEF Sent
  <2> QED BY <1>2, <2>1, <2>2 DEF Answered
<1>7. CASE ~Sent(JobOf[i]) /\ c # JobOf[i]
  <2>2. ~Sent(JobOf[i])'
    BY <1>1, <1>7 DEF Sent
  <2> QED BY <1>0, <1>7, <2>2 DEF Answered
<1> QED BY <1>5, <1>6, <1>7

\* A step that touches no message and no pass.
LEMMA QuietKeepsAnswered ==
    ASSUME UNCHANGED <<stream, cursor, pel, cur, pc, thr, broken>>,
           NEW x \in Items, Answered(x), item'[x].status = item[x].status,
           ~Sent(JobOf[x]) => outbox'[JobOf[x]] = outbox[JobOf[x]]
    PROVE  Answered(x)'
<1>1. \A l \in Lanes : WillHandle(l, x) => WillHandle(l, x)'
  BY WillHandleKept
<1>2. Unacked' = Unacked
  BY DEF Unacked, Unread, Msgs
<1>3. \A m \in Unacked : Answers(m, x) => Answers(m, x)'
  BY <1>1 DEF Answers
<1> QED BY <1>2, <1>3, AnsweredKept

\* A pass past its pool answers for nothing any more.
LEMMA PastPool ==
    ASSUME NEW l \in Lanes, NEW x, NEW m, Answers(m, x),
           pc[l] \in {"recount", "rewrite", "drop", "ack"}
    PROVE  cur[l] # m
BY DEF Answers, WillHandle

\* The end of a pass: its message is pending again.
LEMMA EndKeepsAnswered ==
    ASSUME TypeOK, stream' = stream, outbox' = outbox, NEW x \in Items,
           Answered(x), NEW l \in Lanes, EndPass(l),
           item'[x].status = item[x].status \/ item'[x].status = "queued",
           \A m \in Unacked : Answers(m, x) => m \in Unacked'
    PROVE  Answered(x)'
<1>1. \A k \in Lanes \ {l} : /\ pc'[k] = pc[k] /\ cur'[k] = cur[k]
                             /\ thr'[k] = thr[k] /\ broken'[k] = broken[k]
  BY DEF EndPass, TypeOK, PassTypeOK
<1>2. cur'[l] = NoMsg
  BY DEF EndPass, TypeOK, PassTypeOK
<1>3. NoMsg \notin Unacked
  BY UnackedMsgs DEF NoMsg, Msgs, TypeOK, QueueTypeOK
<1> QED BY <1>1, <1>2, <1>3, LaneKeepsAnswered

\* A pass moves on, past its pool only when its message answers for nothing.
LEMMA GoKeepsAnswered ==
    ASSUME TypeOK, UNCHANGED <<stream, outbox, cursor, pel, cur, thr, broken>>,
           NEW x \in Items, Answered(x), item'[x].status = item[x].status,
           NEW l \in Lanes, NEW p, pc' = [pc EXCEPT ![l] = p],
           p = "requeue" \/ \A m : Answers(m, x) => cur[l] # m
    PROVE  Answered(x)'
<1>1. \A k \in Lanes \ {l} : /\ pc'[k] = pc[k] /\ cur'[k] = cur[k]
                             /\ thr'[k] = thr[k] /\ broken'[k] = broken[k]
  BY DEF TypeOK, PassTypeOK
<1>2. Unacked' = Unacked
  BY DEF Unacked, Unread, Msgs
<1>3. p = "requeue" => WillHandle(l, x)'
  BY DEF WillHandle, TypeOK, PassTypeOK
<1> QED BY <1>1, <1>2, <1>3, LaneKeepsAnswered

\* A goroutine of a pool moves: its pass still deals with the item, or the
\* goroutine leaves it broken.
LEMMA ThreadKeepsAnswered ==
    ASSUME TypeOK, UNCHANGED <<stream, outbox, cursor, pel, cur, pc>>,
           NEW x \in Items, Answered(x),
           item'[x].status = item[x].status \/ item'[x].status = "queued",
           NEW l \in Lanes, NEW t \in Pool, pc[l] = "pool", NEW st, NEW e,
           thr' = [thr EXCEPT ![l][t] = [st |-> st, item |-> e]],
           \/ broken' = [broken EXCEPT ![l] = TRUE]
           \/ /\ broken' = broken /\ st # "done"
              /\ \/ thr[l][t].st # "work" \/ thr[l][t].item # x
                 \/ item'[x].status = "queued"
    PROVE  Answered(x)'
<1>1. \A k \in Lanes \ {l} : /\ pc'[k] = pc[k] /\ cur'[k] = cur[k]
                             /\ thr'[k] = thr[k] /\ broken'[k] = broken[k]
  BY DEF TypeOK, PassTypeOK
<1>2. Unacked' = Unacked
  BY DEF Unacked, Unread, Msgs
<1>3. /\ thr'[l][t] = [st |-> st, item |-> e]
      /\ \A s \in Pool \ {t} : thr'[l][s] = thr[l][s]
  BY DEF TypeOK, PassTypeOK
<1>4. WillHandle(l, x) => WillHandle(l, x)'
  <2>1. CASE broken'[l]
    BY <2>1 DEF WillHandle
  <2>2. CASE ~broken'[l]
    <3>1. /\ broken'[l] = broken[l] /\ st # "done"
          /\ \/ thr[l][t].st # "work" \/ thr[l][t].item # x
             \/ item'[x].status = "queued"
      BY <2>2 DEF TypeOK, PassTypeOK
    <3> QED BY <1>3, <2>2, <3>1 DEF WillHandle
  <2> QED BY <2>1, <2>2
<1>5. \A m \in Unacked : Answers(m, x) =>
          m \in Unacked' /\ (cur'[l] = m => WillHandle(l, x)')
  BY <1>2, <1>4 DEF Answers
<1> QED BY <1>1, <1>5, LaneKeepsAnswered

\* Every open item stays answered: the argument of NoLostWork.
LEMMA AnswerableStep ==
    ASSUME TypeOK, TypeOK', OutboxOrder, Exclusive, Exclusive', PoolOrder,
           LockedIsQueued, Answerable, [Next]_vars
    PROVE  Answerable'
<1> SUFFICES ASSUME NEW x \in Items, item'[x].status \in OpenItem
             PROVE  Answered(x)'
  BY DEF Answerable
<1>a. item[x].status \in OpenItem => Answered(x)
  BY DEF Answerable
<1>b. ASSUME UNCHANGED <<storeVars, queueVars, pc, cur, thr, broken>> PROVE Answered(x)'
  BY <1>a, <1>b, QuietKeepsAnswered DEF storeVars, queueVars
<1>c. ASSUME NEW c \in Jobs \cup {NoJob}, Publish(c), UNCHANGED <<storeVars, passVars>>
      PROVE  Answered(x)'
  BY <1>c, PublishKeepsAnswered DEF Publish, storeVars, passVars
<1>d. \A l \in Lanes : pc[l] # "idle" => Sent(JobOfMsg(l)) /\ cur[l] \in Unacked
  BY UnackedMsgs DEF Exclusive, Sent, JobOfMsg, Unacked
<1>e. JobOf[x] \in Jobs
  BY StoreAssumption
<1>1. ASSUME NEW j \in Jobs, NEW o \in Outcome, CreateBatchJob(j, o)
      PROVE  Answered(x)'
  <2>1. ~Sent(j) BY <1>1 DEF CreateBatchJob, CreateWithItemsAndOutbox, OutboxOrder
  <2>2. /\ UNCHANGED <<stream, cursor, pel, cur, pc, thr, broken>>
        /\ CreateWithItemsAndOutbox(j)
    BY <1>1 DEF CreateBatchJob, queueVars, passVars
  <2>3. CASE JobOf[x] = j
    <3>1. outbox'[JobOf[x]] = "pending"
      BY <2>2, <2>3 DEF CreateWithItemsAndOutbox, TypeOK, StoreTypeOK
    <3>2. ~Sent(JobOf[x])'
      BY <2>1, <2>2, <2>3 DEF Sent, Msgs
    <3> QED BY <3>1, <3>2 DEF Answered
  <2>4. CASE JobOf[x] # j
    <3>1. item'[x] = item[x] /\ outbox'[JobOf[x]] = outbox[JobOf[x]]
      BY <2>2, <2>4, <1>e DEF CreateWithItemsAndOutbox, TypeOK, StoreTypeOK
    <3> QED BY <1>a, <2>2, <3>1, QuietKeepsAnswered
  <2> QED BY <2>3, <2>4
<1>2. ASSUME NEW j \in Jobs, NEW o \in SendOutcome, ApiPublish(j, o)
      PROVE  Answered(x)'
  BY <1>b, <1>c, <1>2 DEF ApiPublish, passVars
<1>3. ASSUME NEW j \in Jobs, NEW o \in Outcome, ApiMark(j, o)
      PROVE  Answered(x)'
  <2>1. Sent(j) BY <1>3 DEF ApiMark, OutboxOrder
  <2>2. /\ UNCHANGED <<stream, cursor, pel, cur, pc, thr, broken, item>>
        /\ outbox' = outbox \/ outbox' = [outbox EXCEPT ![j] = "published"]
    BY <1>3 DEF ApiMark, MarkOutboxPublished, queueVars, passVars, storeVars
  <2>3. ~Sent(JobOf[x]) => outbox'[JobOf[x]] = outbox[JobOf[x]]
    BY <2>1, <2>2, <1>e DEF TypeOK, StoreTypeOK
  <2> QED BY <1>a, <2>2, <2>3, QuietKeepsAnswered
<1>4. ASSUME NEW j \in Jobs, ApiCrash(j)
      PROVE  Answered(x)'
  BY <1>b, <1>4 DEF ApiCrash, passVars
<1>5. ASSUME NEW j \in Jobs, DeleteJob(j)
      PROVE  Answered(x)'
  <2>1. /\ UNCHANGED <<stream, cursor, pel, cur, pc, thr, broken>>
        /\ CascadeDelete(j)
    BY <1>5 DEF DeleteJob, queueVars, passVars
  <2>2. JobOf[x] # j
    BY <2>1 DEF CascadeDelete, OpenItem, TypeOK, StoreTypeOK
  <2>3. item'[x] = item[x] /\ outbox'[JobOf[x]] = outbox[JobOf[x]]
    BY <2>1, <2>2, <1>e DEF CascadeDelete, TypeOK, StoreTypeOK
  <2> QED BY <1>a, <2>1, <2>3, QuietKeepsAnswered
<1>6. ASSUME NEW w \in Workers, DrainRead(w)
      PROVE  Answered(x)'
  BY <1>b, <1>6 DEF DrainRead, passVars
<1>7. ASSUME NEW w \in Workers, NEW j \in Jobs, NEW o \in SendOutcome,
             DrainPublish(w, j, o)
      PROVE  Answered(x)'
  BY <1>b, <1>c, <1>7 DEF DrainPublish, passVars
<1>8. ASSUME NEW w \in Workers, NEW o \in Outcome, DrainMark(w, o)
      PROVE  Answered(x)'
  <2>1. Sent(marking[w]) BY <1>8 DEF DrainMark, OutboxOrder
  <2>2. /\ UNCHANGED <<stream, cursor, pel, cur, pc, thr, broken, item>>
        /\ \/ outbox' = outbox
           \/ outbox' = [outbox EXCEPT ![marking[w]] = "published"]
    BY <1>8 DEF DrainMark, MarkOutboxPublished, queueVars, passVars, storeVars
  <2>3. ~Sent(JobOf[x]) => outbox'[JobOf[x]] = outbox[JobOf[x]]
    BY <2>1, <2>2, <1>e DEF TypeOK, StoreTypeOK
  <2> QED BY <1>a, <2>2, <2>3, QuietKeepsAnswered
<1>9. ASSUME NEW w \in Workers, Crash(w)
      PROVE  Answered(x)'
  <2>1. /\ UNCHANGED <<stream, cursor, pel, item, outbox>>
        /\ \A l \in Lanes :
              \/ cur'[l] = NoMsg
              \/ /\ pc'[l] = pc[l] /\ cur'[l] = cur[l]
                 /\ thr'[l] = thr[l] /\ broken'[l] = broken[l]
    BY <1>9 DEF Crash, ClaimRollback, queueVars
  <2>2. Unacked' = Unacked /\ NoMsg \notin Unacked
    <3>1. Unacked' = Unacked
      BY ONLY <2>1 DEF Unacked, Unread, Msgs
    <3>2. stream \in Seq(Jobs \cup {NoJob})
      BY DEF TypeOK, QueueTypeOK
    <3>3. NoMsg \notin Msgs
      BY ONLY <3>2 DEF Msgs, NoMsg
    <3> QED BY <3>1, <3>3, UnackedMsgs
  <2>3. ASSUME NEW m \in Unacked, Answers(m, x) PROVE Answers(m, x)'
    BY <2>1, <2>2, <2>3, WillHandleKept DEF Answers
  <2> QED BY <1>a, <2>1, <2>2, <2>3, AnsweredKept
<1>10. ASSUME NEW l \in Lanes, NEW o \in Outcome, Consume(l, o)
      PROVE  Answered(x)'
  <2>1. UNCHANGED <<stream, item, outbox, cur, pc, thr, broken>>
    BY <1>10 DEF Consume, ReadGroup, passVars, storeVars
  <2>2. ASSUME NEW m \in Unacked PROVE m \in Unacked'
    <3>1. CASE m \in pel
      BY <1>10, <3>1 DEF Consume, ReadGroup, Unacked
    <3>2. CASE m \in NextBatch
      BY <1>10, <3>2 DEF Consume, ReadGroup, Unacked
    <3>3. CASE m \in Unread \ NextBatch
      <4>1. m \in Msgs' /\ m > cursor + ReadCount
        BY <2>1, <3>3, ReadCountAssumption
           DEF NextBatch, Unread, Msgs, TypeOK, QueueTypeOK
      <4>2. cursor' = cursor + ReadCount
        <5>1. /\ stream \in Seq(Jobs \cup {NoJob}) /\ cursor \in 0..Len(stream)
              /\ stream' = stream /\ ReadCount \in Nat
          BY <2>1, ReadCountAssumption DEF TypeOK, QueueTypeOK
        <5>2. m \in 1..Len(stream)
          BY ONLY <4>1, <5>1 DEF Msgs
        <5>3. cursor + ReadCount < Len(stream)
          BY ONLY <4>1, <5>1, <5>2
        <5> QED BY <1>10, <5>3 DEF Consume, ReadGroup
      <4> QED BY <4>1, <4>2 DEF Unacked, Unread
    <3> QED BY <3>1, <3>2, <3>3 DEF Unacked
  <2>3. ASSUME NEW m \in Unacked, Answers(m, x) PROVE Answers(m, x)'
    BY <2>1, <2>3, WillHandleKept DEF Answers
  <2> QED BY <1>a, <2>1, <2>2, <2>3, AnsweredKept
<1>11. ASSUME NEW l \in Lanes, Claim(l)
      PROVE  Answered(x)'
  BY <1>b, <1>11 DEF Claim, passVars
<1>12. ASSUME NEW l \in Lanes, StartMessage(l)
      PROVE  Answered(x)'
  <2>0. UNCHANGED <<stream, cursor, pel, item, outbox>> /\ pc[l] = "idle"
    BY <1>12 DEF StartMessage, queueVars, storeVars
  <2>1. CASE UNCHANGED passVars
    BY <1>a, <2>0, <2>1, QuietKeepsAnswered DEF passVars
  <2>2. CASE ~UNCHANGED passVars
    <3>1. PICK n \in batch[l] :
             /\ cur' = [cur EXCEPT ![l] = n]
             /\ pc' = [pc EXCEPT ![l] = IF stream[n] = NoJob THEN "drop" ELSE "mark"]
             /\ UNCHANGED <<thr, broken>>
      BY <1>12, <2>2 DEF StartMessage
    <3>2. \A k \in Lanes \ {l} : /\ pc'[k] = pc[k] /\ cur'[k] = cur[k]
                                 /\ thr'[k] = thr[k] /\ broken'[k] = broken[k]
      BY <3>1 DEF TypeOK, PassTypeOK
    <3>3. Unacked' = Unacked
      BY <2>0 DEF Unacked, Unread, Msgs
    <3>41. pc'[l] = IF stream[n] = NoJob THEN "drop" ELSE "mark"
      BY <3>1 DEF TypeOK, PassTypeOK
    <3>4. stream[n] = JobOf[x] => WillHandle(l, x)'
      BY <3>41, <1>e, PipelineAssumption DEF WillHandle
    <3>5. cur'[l] = n
      BY <3>1 DEF TypeOK, PassTypeOK
    <3>6. \A m \in Unacked : Answers(m, x) =>
              m \in Unacked' /\ (cur'[l] = m => WillHandle(l, x)')
      BY <3>3, <3>4, <3>5 DEF Answers
    <3> QED BY <1>a, <2>0, <3>2, <3>6, LaneKeepsAnswered
  <2> QED BY <2>1, <2>2
<1>13. ASSUME NEW l \in Lanes, NEW o \in Outcome, MarkRunning(l, o)
      PROVE  Answered(x)'
  <2>1. UNCHANGED <<stream, cursor, pel, item, outbox>>
    BY <1>13 DEF MarkRunning, MarkJobRunning, queueVars, storeVars
  <2>2. Unacked' = Unacked
    BY <2>1 DEF Unacked, Unread, Msgs
  <2>3. CASE GoTo(l, "requeue")
    BY <1>a, <2>1, <2>3, GoKeepsAnswered DEF GoTo
  <2>4. CASE EndPass(l)
    BY <1>a, <2>1, <2>2, <2>4, EndKeepsAnswered
  <2> QED BY <1>13, <2>3, <2>4 DEF MarkRunning
<1>14. ASSUME NEW l \in Lanes, NEW o \in Outcome, RequeueRunning(l, o)
      PROVE  Answered(x)'
  <2>1. UNCHANGED <<stream, cursor, pel, outbox>>
    BY <1>14 DEF RequeueRunning, RequeueRunningItems, queueVars, storeVars
  <2>2. Unacked' = Unacked
    BY <2>1 DEF Unacked, Unread, Msgs
  <2>3. /\ item[x].status \in OpenItem
        /\ item'[x].status = item[x].status \/ item'[x].status = "queued"
    BY <1>14 DEF RequeueRunning, RequeueRunningItems, WithStatus, OpenItem, storeVars,
       TypeOK, StoreTypeOK
  <2>4. CASE EndPass(l)
    BY <1>a, <2>1, <2>2, <2>3, <2>4, EndKeepsAnswered
  <2>5. CASE o = "ok"
    <3>1. /\ pc' = [pc EXCEPT ![l] = "pool"]
          /\ thr' = [thr EXCEPT ![l] = Started]
          /\ UNCHANGED <<cur, broken>>
          /\ RequeueRunningItems(JobOfMsg(l))
      BY <1>14, <2>5 DEF RequeueRunning
    <3>2. \A k \in Lanes \ {l} : /\ pc'[k] = pc[k] /\ cur'[k] = cur[k]
                                 /\ thr'[k] = thr[k] /\ broken'[k] = broken[k]
      BY <3>1 DEF TypeOK, PassTypeOK
    <3>3. JobOfMsg(l) = JobOf[x] => item'[x].status = "queued"
      BY <3>1, <2>3 DEF RequeueRunningItems, WithStatus, ItemsOf, OpenItem,
         TypeOK, StoreTypeOK
    <3>41. thr'[l] = Started /\ pc'[l] = "pool"
      BY <3>1 DEF TypeOK, PassTypeOK
    <3>42. 1 \in Pool
      BY PipelineAssumption DEF Pool
    <3>4. 1 \in Pool /\ thr'[l][1].st = "claim" /\ pc'[l] = "pool"
      BY <3>41, <3>42 DEF Started
    <3>5. JobOfMsg(l) = JobOf[x] => WillHandle(l, x)'
      BY <3>3, <3>4 DEF WillHandle
    <3>6. \A m \in Unacked : Answers(m, x) =>
              m \in Unacked' /\ (cur'[l] = m => WillHandle(l, x)')
      BY <2>2, <3>1, <3>5 DEF Answers, JobOfMsg
    <3> QED BY <1>a, <2>1, <2>3, <3>2, <3>6, LaneKeepsAnswered
  <2> QED BY <1>14, <2>4, <2>5 DEF RequeueRunning
<1>15. ASSUME NEW l \in Lanes, JoinPool(l)
      PROVE  Answered(x)'
  <2>1. UNCHANGED <<stream, cursor, pel, item, outbox>>
    BY <1>15 DEF JoinPool, queueVars, storeVars
  <2>2. Unacked' = Unacked
    BY <2>1 DEF Unacked, Unread, Msgs
  <2>3. CASE broken[l]
    <3>1. EndPass(l) BY <1>15, <2>3 DEF JoinPool
    <3> QED BY <1>a, <2>1, <2>2, <3>1, EndKeepsAnswered
  <2>4. CASE ~broken[l]
    <3>1. \A m : Answers(m, x) => cur[l] # m
      BY <1>15, <2>4 DEF JoinPool, Answers, WillHandle
    <3>2. GoTo(l, "recount") BY <1>15, <2>4 DEF JoinPool
    <3> QED BY <1>a, <2>1, <3>1, <3>2, GoKeepsAnswered DEF GoTo
  <2> QED BY <2>3, <2>4
<1>16. ASSUME NEW l \in Lanes, Recount(l)
      PROVE  Answered(x)'
  <2>1. \A m : Answers(m, x) => cur[l] # m
    BY <1>16, PastPool DEF Recount
  <2> QED BY <1>a, <1>16, <2>1, GoKeepsAnswered DEF Recount, queueVars, storeVars
<1>17. ASSUME NEW l \in Lanes, NEW o \in Outcome, Rewrite(l, o)
      PROVE  Answered(x)'
  <2>1. \A m : Answers(m, x) => cur[l] # m
    BY <1>17, PastPool DEF Rewrite
  <2>2. UNCHANGED <<stream, cursor, pel, item, outbox>>
    BY <1>17 DEF Rewrite, RecomputeWrite, queueVars, storeVars
  <2>3. Unacked' = Unacked
    BY <2>2 DEF Unacked, Unread, Msgs
  <2>4. CASE EndPass(l)
    BY <1>a, <2>2, <2>3, <2>4, EndKeepsAnswered
  <2>5. CASE GoTo(l, IF Exists(JobOfMsg(l)) THEN "ack" ELSE "drop")
    BY <1>a, <2>1, <2>2, <2>5, GoKeepsAnswered DEF GoTo
  <2> QED BY <1>17, <2>4, <2>5 DEF Rewrite
<1>18. ASSUME NEW l \in Lanes, NEW o \in Outcome, DropMessage(l, o)
      PROVE  Answered(x)'
  <2>1. \A m : Answers(m, x) => cur[l] # m
    BY <1>18, PastPool DEF DropMessage
  <2>2. UNCHANGED <<stream, cursor, pel, item, outbox>>
    BY <1>18 DEF DropMessage, PublishDLQMsg, queueVars, storeVars
  <2>3. Unacked' = Unacked
    BY <2>2 DEF Unacked, Unread, Msgs
  <2>4. CASE EndPass(l)
    BY <1>a, <2>2, <2>3, <2>4, EndKeepsAnswered
  <2>5. CASE GoTo(l, "ack")
    BY <1>a, <2>1, <2>2, <2>5, GoKeepsAnswered DEF GoTo
  <2> QED BY <1>18, <2>4, <2>5 DEF DropMessage
<1>19. ASSUME NEW l \in Lanes, NEW o \in Outcome, AckMessage(l, o)
      PROVE  Answered(x)'
  <2>1. \A m : Answers(m, x) => cur[l] # m
    BY <1>19, PastPool DEF AckMessage
  <2>2. UNCHANGED <<stream, cursor, item, outbox>> /\ EndPass(l)
    BY <1>19 DEF AckMessage, Ack, queueVars, storeVars
  <2>3. pel \ {cur[l]} \subseteq pel'
    BY <1>19 DEF AckMessage, Ack, queueVars
  <2>4. \A m \in Unacked : m # cur[l] => m \in Unacked'
    BY <2>2, <2>3 DEF Unacked, Unread, Msgs
  <2> QED BY <1>a, <2>1, <2>2, <2>4, EndKeepsAnswered
<1>20. ASSUME NEW l \in Lanes, NEW t \in Pool, NEW i \in Items, SelectItem(l,
             t, i)
      PROVE  Answered(x)'
  <2>1. /\ UNCHANGED <<stream, cursor, pel, cur, pc, item, outbox, broken>>
        /\ pc[l] = "pool" /\ thr[l][t].st = "claim"
        /\ thr' = [thr EXCEPT ![l][t] = [st |-> "lock", item |-> i]]
    BY <1>20 DEF SelectItem, InPool, ClaimSelect, Thread, queueVars
  <2> QED BY <1>a, <2>1, ThreadKeepsAnswered
<1>21. ASSUME NEW l \in Lanes, NEW t \in Pool, SelectNone(l, t)
      PROVE  Answered(x)'
  <2>1. /\ UNCHANGED <<stream, cursor, pel, cur, pc, item, outbox, broken>>
        /\ pc[l] = "pool" /\ thr[l][t].st = "claim"
        /\ thr' = [thr EXCEPT ![l][t] = [st |-> "done", item |-> NoItem]]
        /\ Claimable(JobOfMsg(l)) = {}
    BY <1>21 DEF SelectNone, InPool, Thread, queueVars, storeVars
  <2>2. /\ thr'[l][t].st = "done"
        /\ \A s \in Pool \ {t} : thr'[l][s] = thr[l][s]
        /\ \A k \in Lanes \ {l} : /\ pc'[k] = pc[k] /\ cur'[k] = cur[k]
                                /\ thr'[k] = thr[k] /\ broken'[k] = broken[k]
    BY <2>1 DEF TypeOK, PassTypeOK
  <2>3. Unacked' = Unacked
    BY <2>1 DEF Unacked, Unread, Msgs
  <2>4. CASE JobOf[x] = JobOfMsg(l) /\ item[x].status = "queued"
    <3>1. x \in locks
      BY <2>1, <2>4 DEF Claimable, WithStatus, ItemsOf
    <3>2. PICK k \in Lanes, s \in Pool : Locks(k, s, x)
      BY <3>1 DEF PoolOrder
    <3>3. thr[k][s].st = "lock" /\ pc[k] = "pool" /\ JobOfMsg(k) = JobOf[x]
      BY <3>2 DEF Locks, PoolOrder, InsidePool, Busy
    <3>4. thr'[k][s].st = "lock"
      BY <2>1, <2>2, <3>3
    <3>5. WillHandle(k, x)'
      BY <2>1, <2>4, <3>3, <3>4 DEF WillHandle
    <3>6. pc'[k] # "idle" /\ JobOfMsg(k)' = JobOf[x] /\ Sent(JobOf[x])
      BY <2>1, <3>3, <1>d DEF JobOfMsg
    <3> QED BY <2>1, <3>5, <3>6, HandlerAnswers
  <2>5. CASE ~(JobOf[x] = JobOfMsg(l) /\ item[x].status = "queued")
    <3>1. JobOf[x] = JobOfMsg(l) /\ WillHandle(l, x) => WillHandle(l, x)'
      BY <2>1, <2>2, <2>5 DEF WillHandle
    <3>2. \A m \in Unacked : Answers(m, x) =>
              m \in Unacked' /\ (cur'[l] = m => WillHandle(l, x)')
      BY <2>1, <2>3, <3>1 DEF Answers, JobOfMsg
    <3> QED BY <1>a, <2>1, <2>2, <3>2, LaneKeepsAnswered
  <2> QED BY <2>4, <2>5
<1>22. ASSUME NEW l \in Lanes, NEW t \in Pool, SelectError(l, t)
      PROVE  Answered(x)'
  <2>1. /\ UNCHANGED <<stream, cursor, pel, cur, pc, item, outbox>>
        /\ pc[l] = "pool"
        /\ thr' = [thr EXCEPT ![l][t] = [st |-> "done", item |-> NoItem]]
        /\ broken' = [broken EXCEPT ![l] = TRUE]
    BY <1>22 DEF SelectError, InPool, BreakOff, queueVars, storeVars
  <2> QED BY <1>a, <2>1, ThreadKeepsAnswered
<1>23. ASSUME NEW l \in Lanes, NEW t \in Pool, NEW o \in Outcome,
             CommitClaim(l, t, o)
      PROVE  Answered(x)'
  <2>1. /\ UNCHANGED <<stream, cursor, pel, cur, pc, outbox>>
        /\ pc[l] = "pool" /\ thr[l][t].st = "lock"
    BY <1>23 DEF CommitClaim, InPool, ClaimCommit, ClaimRollback, Thread, BreakOff,
       queueVars
  <2>2. PICK st \in ThreadState, e \in Items \cup {NoItem} :
           /\ thr' = [thr EXCEPT ![l][t] = [st |-> st, item |-> e]]
           /\ \/ broken' = [broken EXCEPT ![l] = TRUE]
              \/ /\ broken' = broken /\ st \in {"dlq", "work"}
                 /\ e = thr[l][t].item
                 /\ Exhausted(e) <=> st = "dlq"
    <3>1. thr[l][t].item \in Items \cup {NoItem}
      BY DEF TypeOK, PassTypeOK
    <3>2. CASE BreakOff(l, t)
      BY <3>2 DEF BreakOff, ThreadState
    <3>3. CASE ~BreakOff(l, t) /\ Exhausted(thr[l][t].item)
      <4>1. Thread(l, t, "dlq", thr[l][t].item)
        BY <1>23, <3>3 DEF CommitClaim
      <4> QED BY <3>1, <3>3, <4>1 DEF Thread, ThreadState
    <3>4. CASE ~BreakOff(l, t) /\ ~Exhausted(thr[l][t].item)
      <4>1. Thread(l, t, "work", thr[l][t].item)
        BY <1>23, <3>4 DEF CommitClaim
      <4> QED BY <3>1, <3>4, <4>1 DEF Thread, ThreadState
    <3> QED BY <3>2, <3>3, <3>4
  <2>3. CASE item'[x].status = item[x].status
    BY <1>a, <2>1, <2>2, <2>3, ThreadKeepsAnswered
  <2>4. CASE item'[x].status # item[x].status
    <3>1. /\ x = thr[l][t].item /\ item'[x].status = "running" /\ ~Exhausted(x)
      BY <1>23, <2>4 DEF CommitClaim, ClaimCommit, ClaimRollback, OpenItem, TypeOK, StoreTypeOK
    <3>2. JobOfMsg(l) = JobOf[x]
      BY <2>1, <3>1 DEF PoolOrder, InsidePool, Busy
    <3>3. thr'[l][t] = [st |-> st, item |-> e]
      BY <2>2 DEF TypeOK, PassTypeOK
    <3>4. WillHandle(l, x)'
      <4>1. CASE broken' = [broken EXCEPT ![l] = TRUE]
        BY <2>1, <4>1 DEF WillHandle, TypeOK, PassTypeOK
      <4>2. CASE broken' # [broken EXCEPT ![l] = TRUE]
        BY <2>1, <2>2, <3>1, <3>3, <4>2 DEF WillHandle
      <4> QED BY <4>1, <4>2
    <3>5. pc'[l] # "idle" /\ JobOfMsg(l)' = JobOf[x] /\ Sent(JobOf[x])
      BY <2>1, <3>2, <1>d DEF JobOfMsg
    <3> QED BY <2>1, <3>4, <3>5, HandlerAnswers
  <2> QED BY <2>3, <2>4
<1>24. ASSUME NEW l \in Lanes, NEW t \in Pool, NEW o \in SendOutcome,
             DeadLetterItem(l, t, o)
      PROVE  Answered(x)'
  <2>1. /\ UNCHANGED <<stream, cursor, pel, cur, pc, item, outbox, broken>>
        /\ pc[l] = "pool" /\ thr[l][t].st # "work"
    BY <1>24 DEF DeadLetterItem, InPool, PublishDLQItem, Thread, queueVars, storeVars
  <2>2. PICK st \in {"resend", "claim"}, e \in {NoItem, thr[l][t].item} :
           thr' = [thr EXCEPT ![l][t] = [st |-> st, item |-> e]]
    BY <1>24 DEF DeadLetterItem, Thread
  <2> QED BY <1>a, <2>1, <2>2, ThreadKeepsAnswered
<1>25. ASSUME NEW l \in Lanes, NEW t \in Pool, NEW status \in TerminalItem,
             NEW o \in Outcome, FinishItem(l, t, status, o)
      PROVE  Answered(x)'
  <2>1. /\ UNCHANGED <<stream, cursor, pel, cur, pc, outbox>>
        /\ pc[l] = "pool" /\ item'[x].status = item[x].status
    BY <1>25 DEF FinishItem, InPool, UpdateItemTerminal, Thread, BreakOff, OpenItem,
       TerminalItem, queueVars, storeVars, TypeOK, StoreTypeOK
  <2>2. CASE BreakOff(l, t)
    BY <1>a, <2>1, <2>2, ThreadKeepsAnswered DEF BreakOff
  <2>3. CASE o = "ok"
    <3>1. /\ thr' = [thr EXCEPT ![l][t] = [st |-> "claim", item |-> NoItem]]
          /\ broken' = broken
      BY <1>25, <2>3 DEF FinishItem, Thread
    <3>2. thr[l][t].item # x \/ item'[x].status = "queued"
      BY <1>25, <2>1, <2>3 DEF FinishItem, UpdateItemTerminal, OpenItem, TerminalItem,
         TypeOK, StoreTypeOK
    <3> QED BY <1>a, <2>1, <3>1, <3>2, ThreadKeepsAnswered
  <2> QED BY <1>25, <2>2, <2>3 DEF FinishItem
<1>26. ASSUME ForeignMessage
      PROVE  Answered(x)'
  BY <1>c, <1>26 DEF ForeignMessage
<1>27. CASE UNCHANGED vars
  BY <1>b, <1>27 DEF vars, passVars
<1>28. QED
  BY <1>1, <1>2, <1>3, <1>4, <1>5, <1>6, <1>7, <1>8, <1>9, <1>10, <1>11,
     <1>12, <1>13, <1>14, <1>15, <1>16, <1>17, <1>18, <1>19, <1>20, <1>21,
     <1>22, <1>23, <1>24, <1>25, <1>26, <1>27
     DEF Next, ApiStep, DrainStep, LaneStep, ThreadStep

-----------------------------------------------------------------------------
\* The inductive invariant is one: every message a loop has fetched is pending
\* and its alone, every row lock belongs to one goroutine, and every open item
\* is answered for (handleMessage and drainOutboxOnce, when reclaiming is
\* patient).
THEOREM Invariance ==
    ASSUME Patient PROVE Spec => [](TypeOK /\ IndInv)
<1>1. Init => IndInv
  BY IndInvInit
<1>2. ASSUME TypeOK, TypeOK', IndInv, [Next]_vars PROVE IndInv'
  BY <1>2, OutboxOrderStep, ExclusiveStep, PoolOrderStep, LockedIsQueuedStep,
     AnswerableStep DEF IndInv
<1> QED BY <1>1, <1>2, TypeCorrect, PTL DEF Spec

\* No committed work is lost when reclaiming is patient: an open item always
\* has a pending outbox row or an unacked message (worker.go: the order "is
\* what makes a crash at any point recoverable instead of lossy").
THEOREM NothingLost ==
    ASSUME Patient PROVE Spec => []NoLostWork
<1>1. IndInv => NoLostWork
  BY DEF IndInv, Answerable, Answered, Answers, NoLostWork
<1> QED BY <1>1, Invariance, PTL
=============================================================================
