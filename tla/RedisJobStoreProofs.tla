------------------------ MODULE RedisJobStoreProofs -------------------------
(***************************************************************************)
(* The keys of the Redis driver agree with each other after every script   *)
(* (IndexInv) and hold values of their types (TypeOK), for every value of  *)
(* the constants.                                                          *)
(*                                                                         *)
(* KeysInv is the inductive invariant.  It says that the keys are Right    *)
(* (RedisJobStoreKeys) and, of a worker in the middle of a fan-out ack,    *)
(* that the rows it still has to stage are not there while it holds the    *)
(* job: without that a second chunk could write over a settled row and     *)
(* leave it in p:flowcascade.  Most actions are calm: they hand out no     *)
(* token, change no holder of an active job, and add no row, so they       *)
(* cannot disturb that part; only claim and the chunks of a fan-out do.    *)
(***************************************************************************)
EXTENDS RedisJobStoreKeys

-----------------------------------------------------------------------------
(* The head of claim                                                       *)

\* The members of the zsets of the queue.
LEMMA QueueIs ==
    ASSUME NEW db, Right(db), NEW q \in Queues
    PROVE  /\ \A x \in DOMAIN db.delayed[q] :
                 x \in JobIds /\ At(db.job[x], "delayed") /\ db.job[x].queue = q
           /\ \A m \in DOMAIN db.waiting[q] : \E n \in Nat, x \in JobIds :
                 /\ m = <<n, x>> /\ At(db.job[x], "waiting")
                 /\ db.job[x].queue = q /\ db.job[x].seq = n
<1>0. db \in Keys /\ Settled(db)
  BY DEF Right, JobsRight
<1>1. db.delayed[q] \in Zset(JobIds, Nat) /\ db.waiting[q] \in Zset(Nat \X JobIds, Int)
  BY <1>0, KeysAre DEF DelayedZsets, WaitingZsets
<1>2. /\ \A x \in DOMAIN db.delayed[q] : x \in JobIds
      /\ \A m \in DOMAIN db.waiting[q] : m \in Nat \X JobIds
  BY <1>1 DEF Zset
<1>3. \A x \in JobIds : InDelayed(db.delayed, x, db.job[x])
                        /\ InWaiting(db.waiting, x, db.job[x])
  BY <1>0 DEF Settled, Where
<1>4. ASSUME NEW m \in DOMAIN db.waiting[q]
      PROVE  \E n \in Nat, x \in JobIds :
                 /\ m = <<n, x>> /\ At(db.job[x], "waiting")
                 /\ db.job[x].queue = q /\ db.job[x].seq = n
  <2>1. PICK n \in Nat, x \in JobIds : m = <<n, x>>
    BY <1>2
  <2> QED
    BY <1>3, <2>1 DEF InWaiting
<1> QED
  BY <1>2, <1>3, <1>4 DEF InDelayed

Undue(db, queue, id) == [db EXCEPT !.delayed[queue] = ZRem(@, {id})]
Promoted(queue, id, db) ==
    Enter(Undue(db, queue, id), id, [db.job[id] EXCEPT !.state = "waiting"])

LEMMA UndueIs ==
    ASSUME NEW db, Right(db), NEW id \in JobIds, At(db.job[id], "delayed"),
           NEW q, q = db.job[id].queue, NEW d, d = Undue(db, q, id)
    PROVE  RightBut(d, id) /\ d.job = db.job /\ SameRest(db, d)
BY LeaveDelayedIs DEF Undue

\* The hash of a job that becomes waiting, or stays so.
LEMMA WaitsIs ==
    ASSUME NEW j \in JobHash
    PROVE  LET i == [j EXCEPT !.state = "waiting"]
           IN  /\ i \in JobHash /\ i.state = "waiting"
               /\ i.queue = j.queue /\ i.name = j.name
BY DEF JobHash, JobStates

LEMMA PromotedIs ==
    ASSUME NEW db, Right(db), NEW id \in JobIds, At(db.job[id], "delayed"),
           NEW q, q = db.job[id].queue, NEW d, d = Promoted(q, id, db)
    PROVE  /\ Right(d) /\ Calm(db, d) /\ OnlyAt(db.job, d.job, id)
<1> DEFINE e == Undue(db, q, id)  j == [db.job[id] EXCEPT !.state = "waiting"]
<1>1. db.job[id] \in JobHash /\ db.job[id] # None
  BY HashOf DEF Right, At
<1>2. /\ j \in JobHash /\ j.state = "waiting"
      /\ j.queue = db.job[id].queue /\ j.name = db.job[id].name
  BY <1>1, WaitsIs
<1>3. RightBut(e, id) /\ e.job = db.job /\ SameRest(db, e)
  BY UndueIs
<1>4. d = Enter(e, id, j)
  BY DEF Promoted
<1> HIDE DEF e, j
<1>5. Right(d) /\ OnlyAt(e.job, d.job, id) /\ d.job[id] = j /\ SameFlows(e, d)
  <2>1. e.job[id] # None /\ j.queue = e.job[id].queue /\ j.name = e.job[id].name
        /\ j.state \in {"waiting", "delayed"}
    BY <1>1, <1>2, <1>3
  <2> QED
    BY <1>2, <1>3, <1>4, <2>1, EnterIs
<1>6. NoNewRows(db, d) /\ OnlyAt(db.job, d.job, id) /\ ~ At(d.job[id], "active")
  BY <1>2, <1>3, <1>5 DEF SameRest, SameFlows, NoNewRows, At
<1> QED
  BY <1>5, <1>6, OneCalms

\* A fold that has taken the members of s.
Advanced(a, b, s) ==
    /\ Right(b) /\ Calm(a, b)
    /\ \A x \in JobIds : x \notin s => b.job[x] = a.job[x]

LEMMA PromoteDueIs ==
    ASSUME NEW db, Right(db), NEW q \in Queues, NEW d, d = PromoteDue(db, q)
    PROVE  Right(d) /\ Calm(db, d)
<1> DEFINE ids == ZRangeByScore(db.delayed[q], now)
           F == [s \in SUBSET ids |-> {e \in Keys : Advanced(db, e, s)}]
           Op == [p \in ids \X Keys |-> Promoted(q, p[1], p[2])]
           C == CHOOSE it : it = [s \in SUBSET ids |->
                    IF s = {} THEN db
                    ELSE Promoted(q, CHOOSE x \in s : TRUE,
                                  it[s \ {CHOOSE x \in s : TRUE}])]
<1>1. d = C[ids]
  BY DEF PromoteDue, FoldSet, MapThenFoldSet, Promoted, Undue
<1>2. /\ \A x \in ids : x \in JobIds /\ At(db.job[x], "delayed")
                        /\ db.job[x].queue = q
      /\ IsFiniteSet(ids)
  <2>1. \A x \in ids : x \in DOMAIN db.delayed[q]
    BY DEF ZRangeByScore, Members
  <2> HIDE DEF ids
  <2>2. \A x \in ids : x \in JobIds /\ At(db.job[x], "delayed")
                       /\ db.job[x].queue = q
    BY <2>1, QueueIs
  <2> QED
    BY <2>2, ConstantsAssumption, FS_Subset
<1> HIDE DEF ids
<1>20. F \in [SUBSET ids -> SUBSET Keys]
  OBVIOUS
<1>3. db \in F[{}]
  <2>1. db \in Keys /\ Advanced(db, db, {})
    BY SameCalms DEF Right, Advanced, NoNewRows
  <2> QED
    BY <2>1
<1>4. ASSUME NEW s \in SUBSET ids, NEW x \in ids \ s, NEW e \in F[s]
      PROVE  Op[<<x, e>>] \in F[s \cup {x}]
  <2>1. e \in Keys /\ Advanced(db, e, s) /\ x \in JobIds /\ x \notin s
    BY <1>2
  <2>2. At(e.job[x], "delayed") /\ q = e.job[x].queue /\ Right(e)
    BY <1>2, <2>1 DEF Advanced
  <2>3. /\ Right(Promoted(q, x, e)) /\ Calm(e, Promoted(q, x, e))
        /\ OnlyAt(e.job, Promoted(q, x, e).job, x)
    BY <2>1, <2>2, PromotedIs
  <2>4. Advanced(db, Promoted(q, x, e), s \cup {x})
    BY <2>1, <2>3, CalmTwice DEF Advanced, OnlyAt
  <2>5. Promoted(q, x, e) \in Keys
    BY <2>3 DEF Right
  <2>6. Op[<<x, e>>] = Promoted(q, x, e) /\ s \cup {x} \in SUBSET ids
    BY <2>1
  <2> QED
    BY <2>4, <2>5, <2>6
<1>5. PICK it \in [SUBSET ids -> Keys] :
         FoldOf(it, ids, db, Op) /\ \A s \in SUBSET ids : it[s] \in F[s]
  <2> HIDE DEF F, Op
  <2> QED
    BY <1>2, <1>20, <1>3, <1>4, FoldWithin
<1>6. ASSUME NEW s \in SUBSET ids, s # {}
      PROVE  /\ it[s] = Promoted(q, First(s), it[s \ {First(s)}])
             /\ s \ {First(s)} \in SUBSET ids
  <2>1. First(s) \in ids /\ s \ {First(s)} \in SUBSET ids
    BY <1>6, FirstIn
  <2>2. it[s] = Op[<<First(s), it[s \ {First(s)}]>>]
    BY <1>5, <1>6 DEF FoldOf
  <2> QED
    BY <2>1, <2>2
<1>7. it = [s \in SUBSET ids |->
               IF s = {} THEN db
               ELSE Promoted(q, CHOOSE x \in s : TRUE,
                             it[s \ {CHOOSE x \in s : TRUE}])]
  <2>1. it[{}] = db
    BY <1>5 DEF FoldOf
  <2> HIDE DEF F, Op
  <2> QED
    BY <1>5, <1>6, <2>1 DEF First
<1>8. C = [s \in SUBSET ids |->
               IF s = {} THEN db
               ELSE Promoted(q, CHOOSE x \in s : TRUE,
                             C[s \ {CHOOSE x \in s : TRUE}])]
  BY <1>7
<1> HIDE DEF C
<1> DEFINE T == {s \in SUBSET ids : C[s] = it[s]}
<1>9. {} \in T
  BY <1>7, <1>8
<1>10. ASSUME NEW s \in SUBSET ids, s # {}, s \ {First(s)} \in T PROVE s \in T
  <2>1. C[s] = Promoted(q, First(s), C[s \ {First(s)}])
    BY <1>8, <1>10 DEF First
  <2> QED
    BY <1>6, <1>10, <2>1
<1>11. ids \in T
  <2> HIDE DEF T
  <2> QED
    BY <1>2, <1>9, <1>10, FoldInduction
<1> QED
  BY <1>1, <1>5, <1>11 DEF Advanced

-----------------------------------------------------------------------------
(* recoverStalled                                                          *)

Stalled(j) ==
    [ClearLock(j) EXCEPT !.stalledCount = @ + 1, !.attempts = Append(@, "stalled")]
StallFailed(j, t) ==
    [Stalled(j) EXCEPT !.state = "failed", !.finishedAt = t, !.failedReason = TRUE]
StallWaits(j) == [Stalled(j) EXCEPT !.state = "waiting"]

LEMMA StalledIs ==
    ASSUME NEW j \in JobHash, NEW t \in Nat
    PROVE  /\ StallFailed(j, t) \in JobHash /\ StallFailed(j, t).state = "failed"
           /\ StallFailed(j, t).finishedAt = t
           /\ StallFailed(j, t).queue = j.queue /\ StallFailed(j, t).name = j.name
           /\ StallWaits(j) \in JobHash /\ StallWaits(j).state = "waiting"
           /\ StallWaits(j).queue = j.queue /\ StallWaits(j).name = j.name
<1> DEFINE c == ClearLock(j)  s == Stalled(j)
           n == c.stalledCount + 1  a == Append(c.attempts, "stalled")
<1>1. c \in JobHash /\ c.queue = j.queue /\ c.name = j.name
  BY DEF JobHash, ClearLock, Opt
<1>2. s = [c EXCEPT !.stalledCount = n, !.attempts = a]
  BY DEF Stalled
<1> HIDE DEF c
<1>3. n \in Nat
  BY <1>1 DEF JobHash
<1>4. a \in Seq(Mem!AttemptOutcomes)
  <2>1. c.attempts \in Seq(Mem!AttemptOutcomes) /\ "stalled" \in Mem!AttemptOutcomes
    BY <1>1 DEF JobHash, Mem!AttemptOutcomes
  <2> QED
    BY <2>1
<1> HIDE DEF n, a
<1>5. s \in JobHash /\ s.queue = j.queue /\ s.name = j.name
  <2> HIDE DEF s
  <2>1. s \in JobHash
    BY <1>1, <1>2, <1>3, <1>4 DEF JobHash
  <2>2. s.queue = c.queue /\ s.name = c.name
    BY <1>1, <1>2 DEF JobHash
  <2> QED
    BY <1>1, <2>1, <2>2
<1>6. /\ StallFailed(j, t) = [s EXCEPT !.state = "failed", !.finishedAt = t,
                                       !.failedReason = TRUE]
      /\ StallWaits(j) = [s EXCEPT !.state = "waiting"]
  BY DEF StallFailed, StallWaits
<1> HIDE DEF s
<1>7. /\ StallFailed(j, t) \in JobHash /\ StallFailed(j, t).state = "failed"
      /\ StallFailed(j, t).finishedAt = t
      /\ StallFailed(j, t).queue = s.queue /\ StallFailed(j, t).name = s.name
  <2> DEFINE f == StallFailed(j, t)
  <2>1. "failed" \in JobStates /\ t \in Opt(Nat)
    BY DEF JobStates, TerminalStates, Opt
  <2>2. f = [s EXCEPT !.state = "failed", !.finishedAt = t, !.failedReason = TRUE]
    BY <1>6
  <2> HIDE DEF f
  <2>3. f \in JobHash
    BY <1>5, <2>1, <2>2 DEF JobHash
  <2>4. f.state = "failed" /\ f.finishedAt = t /\ f.queue = s.queue /\ f.name = s.name
    BY <1>5, <2>2 DEF JobHash
  <2> QED
    BY <2>3, <2>4 DEF f
<1>8. /\ StallWaits(j) \in JobHash /\ StallWaits(j).state = "waiting"
      /\ StallWaits(j).queue = s.queue /\ StallWaits(j).name = s.name
  BY <1>5, <1>6, WaitsIs
<1> QED
  BY <1>5, <1>7, <1>8

\* The other active jobs have their hashes.
OthersHeld(a, b, id) ==
    \A x \in JobIds : x # id /\ At(a.job[x], "active") => b.job[x] = a.job[x]

Recovered(db, id, j) ==
    IF j.cancelRequested THEN FinishCancelled(db, id, now)
    ELSE IF Stalled(j).stalledCount > MaxStalledCount
    THEN ReleaseDedupe(AppendOutbox(Filed(PutJob(db, id, StallFailed(j, now)),
             id, j.name, "failed", now), id), id, now)
    ELSE Enter(db, id, StallWaits(j))

LEMMA RecoverIs ==
    ASSUME NEW db, Right(db), NEW id \in JobIds, At(db.job[id], "active"),
           now \in Nat, NEW d, d = Recover(id, db)
    PROVE  Right(d) /\ Calm(db, d) /\ OthersHeld(db, d, id)
<1> DEFINE e == Off(db, id)  j == db.job[id]
<1>1. j \in JobHash /\ j # None
  BY HashOf DEF Right, At
<1>2. RightBut(e, id) /\ e.job = db.job /\ SameRest(db, e)
  BY LeftActiveIs
<1>3. e.job[id] = j /\ e.job[id] # None
  BY <1>1, <1>2
<1>4. d = Recovered(e, id, e.job[id])
  BY DEF Recover, Off, Recovered, Filed, Stalled, StallFailed, StallWaits
<1> HIDE DEF e, j
<1>5. Calm(db, e) /\ OthersHeld(db, e, id)
  BY <1>2, SameCalms, SameFlowsNoNewRows DEF SameRest, OthersHeld
<1>6. d = Recovered(e, id, j)
  BY <1>3, <1>4
<1>7. Right(d) /\ Calm(e, d) /\ OthersHeld(e, d, id)
  <2>1. CASE j.cancelRequested
    <3>1. d = FinishCancelled(e, id, now)
      BY <1>6, <2>1 DEF Recovered
    <3> QED
      BY <1>2, <1>3, <3>1, FinishCancelledIs DEF OthersHeld
  <2>2. CASE ~j.cancelRequested /\ Stalled(j).stalledCount > MaxStalledCount
    <3> DEFINE f == StallFailed(j, now)  n == j.name
    <3>1. d = ReleaseDedupe(AppendOutbox(Filed(PutJob(e, id, f),
                                id, n, "failed", now), id), id, now)
      BY <1>6, <2>2 DEF Recovered
    <3>2. /\ f \in JobHash /\ f.state = "failed" /\ f.finishedAt = now
          /\ f.queue = e.job[id].queue /\ f.name = n /\ n = e.job[id].name
          /\ "failed" \in TerminalStates
      BY <1>1, <1>3, StalledIs DEF TerminalStates
    <3> HIDE DEF f, n
    <3>3. /\ Right(d) /\ OnlyAt(e.job, d.job, id) /\ d.job[id] = f
          /\ SameFlows(e, d)
      BY <1>2, <1>3, <3>1, <3>2, EndIs
    <3>4. ~ At(d.job[id], "active")
      BY <3>2, <3>3 DEF At
    <3> QED
      BY <3>3, <3>4, OneCalms, SameFlowsNoNewRows DEF OnlyAt, OthersHeld
  <2>3. CASE ~j.cancelRequested /\ ~ (Stalled(j).stalledCount > MaxStalledCount)
    <3> DEFINE w == StallWaits(j)
    <3>1. d = Enter(e, id, w)
      BY <1>6, <2>3 DEF Recovered
    <3>2. /\ w \in JobHash /\ w.state = "waiting"
          /\ w.queue = e.job[id].queue /\ w.name = e.job[id].name
          /\ w.state \in {"waiting", "delayed"}
      BY <1>1, <1>3, StalledIs
    <3> HIDE DEF w
    <3>3. /\ Right(d) /\ OnlyAt(e.job, d.job, id) /\ d.job[id] = w
          /\ SameFlows(e, d)
      BY <1>2, <1>3, <3>1, <3>2, EnterIs
    <3>4. ~ At(d.job[id], "active")
      BY <3>2, <3>3 DEF At
    <3> QED
      BY <3>3, <3>4, OneCalms, SameFlowsNoNewRows DEF OnlyAt, OthersHeld
  <2> QED
    BY <2>1, <2>2, <2>3
<1>8. Calm(db, d)
  BY <1>5, <1>7, CalmTwice
<1>9. OthersHeld(db, d, id)
  BY <1>2, <1>7 DEF OthersHeld
<1> QED
  BY <1>7, <1>8, <1>9

LEMMA ActiveIs ==
    ASSUME NEW db, Right(db)
    PROVE  \A x \in DOMAIN db.active : x \in JobIds /\ At(db.job[x], "active")
<1>0. db \in Keys /\ Settled(db)
  BY DEF Right, JobsRight
<1>1. \A x \in DOMAIN db.active : x \in JobIds
  BY <1>0, KeysAre DEF ActiveZset, Zset
<1> QED
  BY <1>0, <1>1 DEF Settled, Where, InActive

\* A fold that has taken the members of s, all of them active before.
Swept(a, b, s) ==
    /\ Right(b) /\ Calm(a, b)
    /\ \A x \in JobIds : x \notin s /\ At(a.job[x], "active") => b.job[x] = a.job[x]

LEMMA RecoverAllIs ==
    ASSUME NEW db, Right(db), now \in Nat,
           NEW d, d = FoldSet(Recover, db, ZRangeByScore(db.active, now))
    PROVE  Right(d) /\ Calm(db, d)
<1> DEFINE ids == ZRangeByScore(db.active, now)
           F == [s \in SUBSET ids |-> {e \in Keys : Swept(db, e, s)}]
           Op == [p \in ids \X Keys |-> Recover(p[1], p[2])]
           C == CHOOSE it : it = [s \in SUBSET ids |->
                    IF s = {} THEN db
                    ELSE Recover(CHOOSE x \in s : TRUE,
                                 it[s \ {CHOOSE x \in s : TRUE}])]
<1>1. d = C[ids]
  BY DEF FoldSet, MapThenFoldSet
<1>2. /\ \A x \in ids : x \in JobIds /\ At(db.job[x], "active")
      /\ IsFiniteSet(ids)
  <2>1. \A x \in ids : x \in DOMAIN db.active
    BY DEF ZRangeByScore, Members
  <2> HIDE DEF ids
  <2>2. \A x \in ids : x \in JobIds /\ At(db.job[x], "active")
    BY <2>1, ActiveIs
  <2> QED
    BY <2>2, ConstantsAssumption, FS_Subset
<1> HIDE DEF ids
<1>20. F \in [SUBSET ids -> SUBSET Keys]
  OBVIOUS
<1>3. db \in F[{}]
  <2>1. db \in Keys /\ Swept(db, db, {})
    BY SameCalms DEF Right, Swept, NoNewRows
  <2> QED
    BY <2>1
<1>4. ASSUME NEW s \in SUBSET ids, NEW x \in ids \ s, NEW e \in F[s]
      PROVE  Op[<<x, e>>] \in F[s \cup {x}]
  <2>1. e \in Keys /\ Swept(db, e, s) /\ x \in JobIds /\ x \notin s
    BY <1>2
  <2>2. At(e.job[x], "active") /\ Right(e)
    BY <1>2, <2>1 DEF Swept
  <2>3. /\ Right(Recover(x, e)) /\ Calm(e, Recover(x, e))
        /\ OthersHeld(e, Recover(x, e), x)
    BY <2>1, <2>2, RecoverIs
  <2>4. Swept(db, Recover(x, e), s \cup {x})
    BY <2>1, <2>3, CalmTwice DEF Swept, OthersHeld
  <2>5. Recover(x, e) \in Keys
    BY <2>3 DEF Right
  <2>6. Op[<<x, e>>] = Recover(x, e) /\ s \cup {x} \in SUBSET ids
    BY <2>1
  <2> QED
    BY <2>4, <2>5, <2>6
<1>5. PICK it \in [SUBSET ids -> Keys] :
         FoldOf(it, ids, db, Op) /\ \A s \in SUBSET ids : it[s] \in F[s]
  <2> HIDE DEF F, Op
  <2> QED
    BY <1>2, <1>20, <1>3, <1>4, FoldWithin
<1>6. ASSUME NEW s \in SUBSET ids, s # {}
      PROVE  /\ it[s] = Recover(First(s), it[s \ {First(s)}])
             /\ s \ {First(s)} \in SUBSET ids
  <2>1. First(s) \in ids /\ s \ {First(s)} \in SUBSET ids
    BY <1>6, FirstIn
  <2>2. it[s] = Op[<<First(s), it[s \ {First(s)}]>>]
    BY <1>5, <1>6 DEF FoldOf
  <2> QED
    BY <2>1, <2>2
<1>7. it = [s \in SUBSET ids |->
               IF s = {} THEN db
               ELSE Recover(CHOOSE x \in s : TRUE,
                            it[s \ {CHOOSE x \in s : TRUE}])]
  <2>1. it[{}] = db
    BY <1>5 DEF FoldOf
  <2> HIDE DEF F, Op
  <2> QED
    BY <1>5, <1>6, <2>1 DEF First
<1>8. C = [s \in SUBSET ids |->
               IF s = {} THEN db
               ELSE Recover(CHOOSE x \in s : TRUE,
                            C[s \ {CHOOSE x \in s : TRUE}])]
  BY <1>7
<1> HIDE DEF C
<1> DEFINE T == {s \in SUBSET ids : C[s] = it[s]}
<1>9. {} \in T
  BY <1>7, <1>8
<1>10. ASSUME NEW s \in SUBSET ids, s # {}, s \ {First(s)} \in T PROVE s \in T
  <2>1. C[s] = Recover(First(s), C[s \ {First(s)}])
    BY <1>8, <1>10 DEF First
  <2> QED
    BY <1>6, <1>10, <2>1
<1>11. ids \in T
  <2>1. IsFiniteSet(ids)
    BY <1>2
  <2>2. \A s \in SUBSET ids : s # {} /\ s \ {First(s)} \in T => s \in T
    BY <1>10
  <2> HIDE DEF T
  <2> QED
    BY <1>9, <2>1, <2>2, FoldInduction
<1> QED
  BY <1>1, <1>5, <1>11 DEF Swept

-----------------------------------------------------------------------------
(* flowSweepWork                                                           *)

\* Some rows may have gone; those but m are pending as they were.
OtherPending(a, b, m) ==
    \A r \in Rows : r # m =>
        /\ r \in DOMAIN b.flowpending <=> r \in DOMAIN a.flowpending
        /\ r \in DOMAIN a.flowpending => b.flowpending[r] = a.flowpending[r]

SinceWhen(row, t) == [row EXCEPT !.pendingSince = t]

Rearm(db, m, p) ==
    [db EXCEPT !.flowpending = ZAdd(@, m, now),
               !.flowchild = [db.flowchild EXCEPT ![m] =
                                 SinceWhen(db.flowchild[m], p)]]

LEMMA RearmedIs ==
    ASSUME NEW db, Right(db), now \in Nat, NEW id \in JobIds, NEW k \in ChildKeys,
           NEW m, m = <<id, k>>, m \in DOMAIN db.flowpending,
           db.flowpending[m] <= now, NEW p \in Nat,
           p = now \/ p = db.flowchild[m].pendingSince,
           NEW d, d = Rearm(db, m, p)
    PROVE  /\ Right(d) /\ d.job = db.job /\ NoNewRows(db, d)
           /\ OtherPending(db, d, m)
<1> DEFINE row == db.flowchild[m]  new == SinceWhen(row, p)
           p2 == ZAdd(db.flowpending, m, now)
           c2 == [db.flowchild EXCEPT ![m] = new]
<1>0. db \in Keys /\ FlowsRight(db) /\ DedupesRight(db) /\ JobsRight(db)
  BY DEF Right
<1>1. /\ db.flowchild \in [Rows -> Opt(Mem!MemFlowChild)] /\ m \in Rows
      /\ db.flowpending \in Zset(Rows, Nat)
  BY <1>0, KeysAre DEF Rows
<1>2. RowRight(db, id, k)
  BY <1>0 DEF FlowsRight
<1>3. /\ row # None /\ row.status = "pending" /\ db.flowpending[m] >= row.pendingSince
      /\ m \notin db.flowcascade /\ k \in db.flowchildren[id]
  BY <1>2 DEF RowRight
<1>4. row \in Mem!MemFlowChild
  BY <1>1, <1>3 DEF Opt
<1>5. new \in Mem!MemFlowChild /\ new.status = "pending" /\ new.pendingSince = p
  BY <1>3, <1>4 DEF Mem!MemFlowChild, SinceWhen
<1>6. new # None
  BY <1>5, NoneAssumption
<1>7. now >= p
  <2>1. row.pendingSince \in Nat /\ db.flowpending[m] \in Nat
    BY <1>1, <1>4, ZsetIs DEF Mem!MemFlowChild
  <2> QED
    BY <1>3, <2>1
<1>8. d = [db EXCEPT !.flowpending = p2, !.flowchild = c2]
  BY DEF Rearm
<1> HIDE DEF row, new
<1>9. /\ c2 \in [Rows -> Opt(Mem!MemFlowChild)] /\ c2[m] = new
      /\ \A r \in Rows : r # m => c2[r] = db.flowchild[r]
  BY <1>1, <1>5 DEF Opt
<1>10. /\ p2 \in Zset(Rows, Nat)
       /\ \A r : r \in DOMAIN p2 <=> r \in DOMAIN db.flowpending \/ r = m
       /\ p2[m] = now
       /\ \A r \in DOMAIN db.flowpending : r # m => p2[r] = db.flowpending[r]
  BY <1>1, ZAddIs
<1> HIDE DEF c2, p2
<1>11. d \in Keys
  <2>1. /\ db \in Keys /\ c2 \in [Rows -> Opt(Mem!MemFlowChild)]
        /\ p2 \in Zset(Rows, Nat)
    BY <1>0, <1>9, <1>10
  <2> DEFINE e == [db EXCEPT !.flowpending = p2]
  <2>2. e \in Keys
    BY <2>1 DEF Keys
  <2>3. d = [e EXCEPT !.flowchild = c2]
    BY <1>8, <2>1 DEF Keys
  <2> HIDE DEF e
  <2> QED
    BY <2>1, <2>2, <2>3 DEF Keys
<1>12. /\ d.flowpending = p2 /\ d.flowchild = c2 /\ d.flowchildren = db.flowchildren
       /\ d.flowcascade = db.flowcascade /\ SameJobs(db, d) /\ SameDedupes(db, d)
  BY <1>0, <1>8 DEF Keys, SameJobs, SamePlaces, SameLists, SameDedupes
<1>13. FlowsRight(d)
  <2> SUFFICES ASSUME NEW x \in JobIds, NEW y \in ChildKeys PROVE RowRight(d, x, y)
    BY DEF FlowsRight
  <2>1. RowRight(db, x, y) /\ <<x, y>> \in Rows
    BY <1>0 DEF FlowsRight, Rows
  <2>2. CASE <<x, y>> = m
    <3>1. x = id /\ y = k
      BY <2>2
    <3> QED
      BY <1>3, <1>5, <1>6, <1>7, <1>9, <1>10, <1>12, <3>1 DEF RowRight
  <2>3. CASE <<x, y>> # m
    BY <1>9, <1>10, <1>12, <2>1, <2>3 DEF RowRight
  <2> QED
    BY <2>2, <2>3
<1>14. JobsRight(d) /\ DedupesRight(d) /\ d.job = db.job
  BY <1>0, <1>12, JobsKept, DedupesKept DEF SameJobs
<1>15. NoNewRows(db, d)
  BY <1>3, <1>9, <1>12 DEF NoNewRows, row
<1>16. OtherPending(db, d, m)
  BY <1>10, <1>12 DEF OtherPending
<1> QED
  BY <1>11, <1>13, <1>14, <1>15, <1>16 DEF Right

LEMMA SweepMemberIs ==
    ASSUME NEW db, Right(db), now \in Nat, NEW m \in Rows,
           m \in DOMAIN db.flowpending, db.flowpending[m] <= now,
           NEW d, d = SweepMember(m, db)
    PROVE  /\ Right(d) /\ d.job = db.job /\ NoNewRows(db, d)
           /\ OtherPending(db, d, m)
<1>0. db \in Keys /\ FlowsRight(db) /\ DedupesRight(db) /\ JobsRight(db)
  BY DEF Right
<1>1. PICK id \in JobIds, k \in ChildKeys : m = <<id, k>>
  BY DEF Rows
<1>2. m[1] = id /\ m[2] = k
  BY <1>1
<1>3. RowRight(db, id, k) /\ db.flowchild \in [Rows -> Opt(Mem!MemFlowChild)]
  BY <1>0, KeysAre DEF FlowsRight
<1>4. /\ db.flowchild[m] # None /\ db.flowchild[m].status = "pending"
      /\ db.flowchild[m] \in Mem!MemFlowChild
  BY <1>1, <1>3 DEF RowRight, Opt
<1>5. m \in PendingRows(db, id)
  BY <1>0, <1>1, <1>4, PendingRowsAre
<1>6. CASE Orphaned(db, m)
  <2> DEFINE keys == {k}
  <2>1. d = DropRows(db, id, keys)
    BY <1>2, <1>6 DEF SweepMember
  <2>2. keys \in SUBSET ChildKeys /\ \A y : y \in keys <=> y = k
    OBVIOUS
  <2> HIDE DEF keys
  <2>3. /\ d \in Keys /\ SameJobs(db, d) /\ SameDedupes(db, d) /\ FlowsRight(d)
        /\ NoNewRows(db, d)
        /\ \A x \in JobIds, y \in ChildKeys : x # id \/ y \notin keys =>
              /\ <<x, y>> \in DOMAIN d.flowpending <=>
                    <<x, y>> \in DOMAIN db.flowpending
              /\ <<x, y>> \in DOMAIN db.flowpending =>
                    d.flowpending[<<x, y>>] = db.flowpending[<<x, y>>]
    BY <1>0, <2>1, <2>2, DropRowsIs
  <2>4. Right(d) /\ d.job = db.job
    BY <1>0, <2>3, JobsKept, DedupesKept DEF Right, SameJobs
  <2>5. ASSUME NEW r \in Rows, r # m
        PROVE  /\ r \in DOMAIN d.flowpending <=> r \in DOMAIN db.flowpending
               /\ r \in DOMAIN db.flowpending => d.flowpending[r] = db.flowpending[r]
    <3>1. PICK x \in JobIds, y \in ChildKeys : r = <<x, y>>
      BY DEF Rows
    <3>2. x # id \/ y \notin keys
      BY <1>1, <2>2, <2>5, <3>1
    <3> QED
      BY <2>3, <3>1, <3>2
  <2> QED
    BY <2>3, <2>4, <2>5 DEF OtherPending
<1>7. CASE ~Orphaned(db, m)
  <2> DEFINE p == IF db.job[id].state = "waiting-children" THEN now
                  ELSE db.flowchild[m].pendingSince
  <2>1. d = [db EXCEPT !.flowpending = ZAdd(@, m, now),
                       !.flowchild[m].pendingSince = p]
    BY <1>2, <1>5, <1>7 DEF SweepMember
  <2>2. p \in Nat /\ (p = now \/ p = db.flowchild[m].pendingSince)
    BY <1>4 DEF Mem!MemFlowChild
  <2> HIDE DEF p
  <2>3. d = Rearm(db, m, p)
    BY <2>1 DEF SinceWhen, Rearm
  <2> QED
    BY <1>1, <2>2, <2>3, RearmedIs
<1> QED
  BY <1>6, <1>7

\* A fold that has taken the members of s of a page of due ones.
Rearming(a, b, page, s) ==
    /\ Right(b) /\ b.job = a.job /\ NoNewRows(a, b)
    /\ \A m \in page \ s : m \in DOMAIN b.flowpending /\ b.flowpending[m] <= now

LEMMA SweepWorkIs ==
    ASSUME NEW db, Right(db), now \in Nat, NEW page \in SUBSET Rows,
           \A m \in page : m \in DOMAIN db.flowpending /\ db.flowpending[m] <= now,
           NEW d, d = FoldSet(SweepMember, db, page)
    PROVE  Right(d) /\ d.job = db.job /\ NoNewRows(db, d)
<1> DEFINE F == [s \in SUBSET page |-> {e \in Keys : Rearming(db, e, page, s)}]
           Op == [p \in page \X Keys |-> SweepMember(p[1], p[2])]
           C == CHOOSE it : it = [s \in SUBSET page |->
                    IF s = {} THEN db
                    ELSE SweepMember(CHOOSE x \in s : TRUE,
                                     it[s \ {CHOOSE x \in s : TRUE}])]
<1>1. d = C[page]
  BY DEF FoldSet, MapThenFoldSet
<1>2. IsFiniteSet(page)
  <2>1. IsFiniteSet(Rows)
    BY ConstantsAssumption, FS_Product DEF Rows
  <2> QED
    BY <2>1, FS_Subset
<1>20. F \in [SUBSET page -> SUBSET Keys]
  OBVIOUS
<1>3. db \in F[{}]
  <2>1. db \in Keys /\ Rearming(db, db, page, {})
    BY DEF Right, Rearming, NoNewRows
  <2> QED
    BY <2>1
<1>4. ASSUME NEW s \in SUBSET page, NEW x \in page \ s, NEW e \in F[s]
      PROVE  Op[<<x, e>>] \in F[s \cup {x}]
  <2>1. e \in Keys /\ Rearming(db, e, page, s) /\ x \in Rows /\ x \in page \ s
    OBVIOUS
  <2>2. x \in DOMAIN e.flowpending /\ e.flowpending[x] <= now /\ Right(e)
    BY <2>1 DEF Rearming
  <2> DEFINE g == SweepMember(x, e)
  <2>3. /\ Right(g) /\ g.job = e.job /\ NoNewRows(e, g)
        /\ OtherPending(e, g, x)
    BY <2>1, <2>2, SweepMemberIs
  <2>6. Op[<<x, e>>] = g /\ s \cup {x} \in SUBSET page
    BY <2>1
  <2> HIDE DEF g, F, Op
  <2>4. Rearming(db, g, page, s \cup {x})
    <3>1. g.job = db.job /\ NoNewRows(db, g)
      BY <2>1, <2>3 DEF Rearming, NoNewRows
    <3>2. ASSUME NEW m \in page \ (s \cup {x})
          PROVE  m \in DOMAIN g.flowpending /\ g.flowpending[m] <= now
      <4>1. m \in page \ s /\ m # x /\ m \in Rows
        OBVIOUS
      <4> QED
        BY <2>1, <2>3, <4>1 DEF Rearming, OtherPending
    <3> QED
      BY <2>3, <3>1, <3>2 DEF Rearming
  <2>5. g \in Keys
    BY <2>3 DEF Right
  <2> QED
    BY <2>4, <2>5, <2>6 DEF F
<1>5. PICK it \in [SUBSET page -> Keys] :
         FoldOf(it, page, db, Op) /\ \A s \in SUBSET page : it[s] \in F[s]
  <2> HIDE DEF F, Op
  <2> QED
    BY <1>2, <1>20, <1>3, <1>4, FoldWithin
<1>6. ASSUME NEW s \in SUBSET page, s # {}
      PROVE  /\ it[s] = SweepMember(First(s), it[s \ {First(s)}])
             /\ s \ {First(s)} \in SUBSET page
  <2>1. First(s) \in page /\ s \ {First(s)} \in SUBSET page
    BY <1>6, FirstIn
  <2>2. it[s] = Op[<<First(s), it[s \ {First(s)}]>>]
    BY <1>5, <1>6 DEF FoldOf
  <2> QED
    BY <2>1, <2>2
<1>7. it = [s \in SUBSET page |->
               IF s = {} THEN db
               ELSE SweepMember(CHOOSE x \in s : TRUE,
                                it[s \ {CHOOSE x \in s : TRUE}])]
  <2>1. it[{}] = db
    BY <1>5 DEF FoldOf
  <2> HIDE DEF F, Op
  <2> QED
    BY <1>5, <1>6, <2>1 DEF First
<1>8. C = [s \in SUBSET page |->
               IF s = {} THEN db
               ELSE SweepMember(CHOOSE x \in s : TRUE,
                                C[s \ {CHOOSE x \in s : TRUE}])]
  BY <1>7
<1> HIDE DEF C
<1> DEFINE T == {s \in SUBSET page : C[s] = it[s]}
<1>9. {} \in T
  BY <1>7, <1>8
<1>10. ASSUME NEW s \in SUBSET page, s # {}, s \ {First(s)} \in T PROVE s \in T
  <2>1. C[s] = SweepMember(First(s), C[s \ {First(s)}])
    BY <1>8, <1>10 DEF First
  <2> QED
    BY <1>6, <1>10, <2>1
<1>11. page \in T
  <2>2. \A s \in SUBSET page : s # {} /\ s \ {First(s)} \in T => s \in T
    BY <1>10
  <2> HIDE DEF T
  <2> QED
    BY <1>2, <1>9, <2>2, FoldInduction
<1> QED
  BY <1>1, <1>5, <1>11 DEF Rearming

-----------------------------------------------------------------------------
(* Reports and cascades                                                    *)

WithJob(db, id, j) == [db EXCEPT !.job = [db.job EXCEPT ![id] = j]]

\* The same look to workers that hold a lock.
SameHold(i, j) ==
    /\ SameLook(i, j) /\ j.lockToken = i.lockToken
    /\ i.flow # None => j.flow # None

LEMMA HoldCalms ==
    ASSUME NEW a, NEW b, NEW id \in JobIds, NoNewRows(a, b),
           OnlyAt(a.job, b.job, id), a.job[id] # None, SameHold(a.job[id], b.job[id])
    PROVE  Calm(a, b)
BY DEF Calm, OnlyAt, At, SameHold, SameLook

LEMMA WithJobIs ==
    ASSUME NEW db, Right(db), NEW id \in JobIds, db.job[id] # None,
           NEW j \in JobHash, SameHold(db.job[id], j), NEW d, d = WithJob(db, id, j)
    PROVE  /\ Right(d) /\ OnlyAt(db.job, d.job, id) /\ d.job[id] = j
           /\ SameFlows(db, d) /\ Calm(db, d)
<1> DEFINE h2 == [db.job EXCEPT ![id] = j]
<1>0. /\ db \in Keys /\ FlowsRight(db) /\ DedupesRight(db)
      /\ db.job[id] \in JobHash
  BY HashOf DEF Right
<1>1. h2 \in [JobIds -> Opt(JobHash)] /\ h2[id] = j /\ OnlyAt(db.job, h2, id)
  BY <1>0, KeysAre DEF Opt, OnlyAt
<1>2. d = [db EXCEPT !.job = h2]
  BY DEF WithJob
<1> HIDE DEF h2
<1>3. d \in Keys
  BY <1>0, <1>1, <1>2 DEF Keys
<1>4. /\ SamePlaces(db, d) /\ SameLists(db, d) /\ d.counts = db.counts
      /\ SameFlows(db, d) /\ SameDedupes(db, d) /\ d.job = h2
  BY <1>0, <1>2 DEF Keys, SamePlaces, SameLists, SameFlows, SameDedupes
<1>5. FlowsRight(d) /\ DedupesRight(d)
  BY <1>0, <1>4, FlowsKept, DedupesKept
<1>6. SameLook(db.job[id], d.job[id]) /\ OnlyAt(db.job, d.job, id) /\ d.job[id] = j
  BY <1>1, <1>4 DEF SameHold
<1>7. Right(d)
  BY <1>0, <1>3, <1>4, <1>5, <1>6, HashRight
<1>8. Calm(db, d)
  BY <1>4, <1>6, HoldCalms, SameFlowsNoNewRows
<1> QED
  BY <1>4, <1>6, <1>7, <1>8

LEMMA MaxOf0 ==
    ASSUME NEW n \in Int PROVE Max({0, n}) \in Nat
<1>1. CASE n >= 0
  <2>1. n \in {0, n} /\ \A y \in {0, n} : n >= y
    BY <1>1
  <2>2. \A x \in {0, n} : (\A y \in {0, n} : x >= y) => x = n
    BY <1>1
  <2> QED
    BY <1>1, <2>1, <2>2 DEF Max
<1>2. CASE ~ (n >= 0)
  <2>1. 0 \in {0, n} /\ \A y \in {0, n} : 0 >= y
    BY <1>2
  <2>2. \A x \in {0, n} : (\A y \in {0, n} : x >= y) => x = 0
    BY <1>2
  <2> QED
    BY <2>1, <2>2 DEF Max
<1> QED
  BY <1>1, <1>2

LEMMA CountReportsIs ==
    ASSUME NEW f \in Mem!FlowState, NEW reports, IsFiniteSet(DOMAIN reports)
    PROVE  CountReports(f, reports) \in Mem!FlowState
<1> DEFINE N(o) == Cardinality({k \in DOMAIN reports : reports[k] = o})
           p == Max({0, f.pending - Cardinality(DOMAIN reports)})
           c == f.completed + N("completed")
           g == f.failed + N("failed")
           x == f.cancelled + N("cancelled")
<1>1. \A o : N(o) \in Nat
  BY FS_Subset, FS_CardinalityType
<1>2. Cardinality(DOMAIN reports) \in Nat
  BY FS_CardinalityType
<1>3. /\ f.pending \in Nat /\ f.completed \in Nat /\ f.failed \in Nat
      /\ f.cancelled \in Nat
  BY DEF Mem!FlowState
<1>4. p \in Nat
  BY <1>2, <1>3, MaxOf0
<1> HIDE DEF N
<1>5. c \in Nat /\ g \in Nat /\ x \in Nat
  BY <1>1, <1>3
<1>6. CountReports(f, reports) =
          [f EXCEPT !.pending = p, !.completed = c, !.failed = g, !.cancelled = x]
  BY DEF CountReports, N
<1> HIDE DEF p, c, g, x
<1> QED
  BY <1>4, <1>5, <1>6 DEF Mem!FlowState

Reported(r, rows, old, reports) ==
    IF r \in rows THEN [old EXCEPT !.status = reports[r[2]], !.cascaded = TRUE]
    ELSE old

ReportRows(db, rows, reports) ==
    [db EXCEPT
        !.flowchild = [r \in DOMAIN @ |-> Reported(r, rows, db.flowchild[r], reports)],
        !.flowpending = ZRem(@, rows)]

(* A settled row is not pending any more and owes no cascade.              *)
LEMMA ReportRowsIs ==
    ASSUME NEW db, Right(db), NEW id \in JobIds, NEW rows \in SUBSET Rows,
           NEW reports,
           \A r \in rows : /\ db.flowchild[r] # None
                           /\ db.flowchild[r].status = "pending"
                           /\ reports[r[2]] \in TerminalStates,
           NEW d, d = ReportRows(db, rows, reports)
    PROVE  Right(d) /\ d.job = db.job /\ NoNewRows(db, d)
<1> DEFINE c2 == [r \in DOMAIN db.flowchild |->
                     Reported(r, rows, db.flowchild[r], reports)]
           p2 == ZRem(db.flowpending, rows)
<1>0. db \in Keys /\ FlowsRight(db) /\ DedupesRight(db) /\ JobsRight(db)
  BY DEF Right
<1>1. /\ db.flowchild \in [Rows -> Opt(Mem!MemFlowChild)]
      /\ db.flowpending \in Zset(Rows, Nat)
  BY <1>0, KeysAre
<1>2. d = [db EXCEPT !.flowchild = c2, !.flowpending = p2]
  BY DEF ReportRows
<1>3. ASSUME NEW r \in Rows
      PROVE  /\ Reported(r, rows, db.flowchild[r], reports) \in Opt(Mem!MemFlowChild)
             /\ r \in rows =>
                  /\ Reported(r, rows, db.flowchild[r], reports) # None
                  /\ Reported(r, rows, db.flowchild[r], reports).status # "pending"
                  /\ Reported(r, rows, db.flowchild[r], reports).cascaded
             /\ r \notin rows =>
                  Reported(r, rows, db.flowchild[r], reports) = db.flowchild[r]
  <2>1. CASE r \in rows
    <3> DEFINE new == Reported(r, rows, db.flowchild[r], reports)
               old == db.flowchild[r]
    <3>1. old \in Mem!MemFlowChild
      BY <1>1, <2>1 DEF Opt
    <3>2. reports[r[2]] \in TerminalStates /\ Mem!TerminalStates = TerminalStates
      BY <2>1 DEF TerminalStates, Mem!TerminalStates
    <3>3. new = [old EXCEPT !.status = reports[r[2]], !.cascaded = TRUE]
      BY <2>1 DEF Reported
    <3> DEFINE s == reports[r[2]]
    <3> HIDE DEF new, old
    <3>4. s \in TerminalStates /\ s # "pending"
      BY <3>2 DEF TerminalStates
    <3>5. new = [old EXCEPT !.status = s, !.cascaded = TRUE]
      BY <3>3
    <3> HIDE DEF s
    <3>6. new \in Mem!MemFlowChild /\ new.status = s /\ new.cascaded = TRUE
      BY <3>1, <3>2, <3>4, <3>5 DEF Mem!MemFlowChild
    <3>7. new # None
      BY <3>6, NoneAssumption
    <3> QED
      BY <2>1, <3>4, <3>6, <3>7 DEF Opt, new
  <2>2. CASE r \notin rows
    BY <1>1, <2>2 DEF Reported
  <2> QED
    BY <2>1, <2>2
<1>4. /\ c2 \in [Rows -> Opt(Mem!MemFlowChild)]
      /\ \A r \in Rows : c2[r] = Reported(r, rows, db.flowchild[r], reports)
  BY <1>1, <1>3
<1>5. /\ p2 \in Zset(Rows, Nat)
      /\ \A r : r \in DOMAIN p2 <=> r \in DOMAIN db.flowpending /\ r \notin rows
      /\ \A r \in DOMAIN db.flowpending : r \notin rows => p2[r] = db.flowpending[r]
  BY <1>1, ZRemIs
<1> HIDE DEF c2, p2
<1>6. d \in Keys
  <2>1. db \in Keys /\ p2 \in Zset(Rows, Nat)
    BY <1>0, <1>5
  <2>2. c2 \in [Rows -> Opt(Mem!MemFlowChild)]
    BY <1>4
  <2> DEFINE e == [db EXCEPT !.flowchild = c2]
  <2>3. e \in Keys
    BY <1>0, <2>2 DEF Keys
  <2>4. d = [e EXCEPT !.flowpending = p2]
    BY <1>0, <1>2 DEF Keys
  <2> HIDE DEF e
  <2> QED
    BY <2>1, <2>3, <2>4 DEF Keys
<1>7. /\ d.flowpending = p2 /\ d.flowchild = c2 /\ d.flowchildren = db.flowchildren
      /\ d.flowcascade = db.flowcascade /\ SameJobs(db, d) /\ SameDedupes(db, d)
  BY <1>0, <1>2 DEF Keys, SameJobs, SamePlaces, SameLists, SameDedupes
<1>8. FlowsRight(d)
  <2> SUFFICES ASSUME NEW x \in JobIds, NEW y \in ChildKeys PROVE RowRight(d, x, y)
    BY DEF FlowsRight
  <2> DEFINE r == <<x, y>>
  <2>1. RowRight(db, x, y) /\ r \in Rows
    BY <1>0 DEF FlowsRight, Rows
  <2>2. CASE r \in rows
    <3>1. db.flowchild[r] # None /\ db.flowchild[r].status = "pending"
      BY <2>2
    <3>2. /\ d.flowchild[r] # None /\ d.flowchild[r].status # "pending"
          /\ d.flowchild[r].cascaded
      BY <1>3, <1>4, <1>7, <2>1, <2>2
    <3>3. r \notin db.flowcascade /\ y \in db.flowchildren[x]
      BY <2>1, <3>1 DEF RowRight
    <3> QED
      BY <1>5, <1>7, <2>2, <3>2, <3>3 DEF RowRight
  <2>3. CASE r \notin rows
    <3>1. d.flowchild[r] = db.flowchild[r]
      BY <1>3, <1>4, <1>7, <2>1, <2>3
    <3> QED
      BY <1>5, <1>7, <2>1, <2>3, <3>1 DEF RowRight
  <2> QED
    BY <2>2, <2>3
<1>9. JobsRight(d) /\ DedupesRight(d) /\ d.job = db.job
  BY <1>0, <1>7, JobsKept, DedupesKept DEF SameJobs
<1>10. NoNewRows(db, d)
  <2> SUFFICES ASSUME NEW r \in Rows, db.flowchild[r] = None
               PROVE  d.flowchild[r] = None
    BY DEF NoNewRows
  <2>1. r \notin rows
    OBVIOUS
  <2> QED
    BY <1>3, <1>4, <1>7, <2>1
<1> QED
  BY <1>6, <1>8, <1>9, <1>10 DEF Right

Told(r, rows, old) ==
    IF r \in rows /\ old # None THEN [old EXCEPT !.cascaded = TRUE] ELSE old

TellRows(db, rows) ==
    [db EXCEPT !.flowchild = [r \in DOMAIN @ |-> Told(r, rows, db.flowchild[r])],
               !.flowcascade = @ \ rows]

LEMMA TellRowsIs ==
    ASSUME NEW db, Right(db), NEW rows, NEW d, d = TellRows(db, rows)
    PROVE  Right(d) /\ d.job = db.job /\ NoNewRows(db, d)
<1> DEFINE c2 == [r \in DOMAIN db.flowchild |-> Told(r, rows, db.flowchild[r])]
           a2 == db.flowcascade \ rows
<1>0. db \in Keys /\ FlowsRight(db) /\ DedupesRight(db) /\ JobsRight(db)
  BY DEF Right
<1>1. /\ db.flowchild \in [Rows -> Opt(Mem!MemFlowChild)]
      /\ db.flowcascade \in SUBSET Rows
  BY <1>0, KeysAre
<1>2. d = [db EXCEPT !.flowchild = c2, !.flowcascade = a2]
  BY DEF TellRows
<1>3. ASSUME NEW r \in Rows
      PROVE  /\ Told(r, rows, db.flowchild[r]) \in Opt(Mem!MemFlowChild)
             /\ Told(r, rows, db.flowchild[r]) = None <=> db.flowchild[r] = None
             /\ db.flowchild[r] # None =>
                  /\ Told(r, rows, db.flowchild[r]).status = db.flowchild[r].status
                  /\ Told(r, rows, db.flowchild[r]).pendingSince =
                        db.flowchild[r].pendingSince
                  /\ r \in rows => Told(r, rows, db.flowchild[r]).cascaded
                  /\ r \notin rows => Told(r, rows, db.flowchild[r]) = db.flowchild[r]
  <2>1. CASE r \in rows /\ db.flowchild[r] # None
    <3> DEFINE old == db.flowchild[r]  new == Told(r, rows, old)
    <3>1. old \in Mem!MemFlowChild
      BY <1>1, <2>1 DEF Opt
    <3>2. new = [old EXCEPT !.cascaded = TRUE]
      BY <2>1 DEF Told
    <3> HIDE DEF new, old
    <3>3. /\ new \in Mem!MemFlowChild /\ new.status = old.status
          /\ new.pendingSince = old.pendingSince /\ new.cascaded = TRUE
      BY <3>1, <3>2 DEF Mem!MemFlowChild
    <3>4. new # None
      BY <3>3, NoneAssumption
    <3> QED
      BY <2>1, <3>3, <3>4 DEF Opt, new, old
  <2>2. CASE ~ (r \in rows /\ db.flowchild[r] # None)
    BY <1>1, <2>2 DEF Told
  <2> QED
    BY <2>1, <2>2
<1>4. /\ c2 \in [Rows -> Opt(Mem!MemFlowChild)]
      /\ \A r \in Rows : c2[r] = Told(r, rows, db.flowchild[r])
  BY <1>1, <1>3
<1>5. a2 \in SUBSET Rows /\ \A r : r \in a2 <=> r \in db.flowcascade /\ r \notin rows
  BY <1>1
<1> HIDE DEF c2, a2
<1>6. d \in Keys
  BY <1>0, <1>2, <1>4, <1>5 DEF Keys
<1>7. /\ d.flowpending = db.flowpending /\ d.flowchild = c2
      /\ d.flowchildren = db.flowchildren
      /\ d.flowcascade = a2 /\ SameJobs(db, d) /\ SameDedupes(db, d)
  BY <1>0, <1>2 DEF Keys, SameJobs, SamePlaces, SameLists, SameDedupes
<1>8. FlowsRight(d)
  <2> SUFFICES ASSUME NEW x \in JobIds, NEW y \in ChildKeys PROVE RowRight(d, x, y)
    BY DEF FlowsRight
  <2> DEFINE r == <<x, y>>
  <2>1. RowRight(db, x, y) /\ r \in Rows
    BY <1>0 DEF FlowsRight, Rows
  <2>2. /\ d.flowchild[r] = None <=> db.flowchild[r] = None
        /\ db.flowchild[r] # None =>
             /\ d.flowchild[r].status = db.flowchild[r].status
             /\ d.flowchild[r].pendingSince = db.flowchild[r].pendingSince
             /\ r \in rows => d.flowchild[r].cascaded
             /\ r \notin rows => d.flowchild[r] = db.flowchild[r]
    BY <1>3, <1>4, <1>7, <2>1
  <2> HIDE DEF r
  <2>3. CASE r \in rows
    BY <1>5, <1>7, <2>1, <2>2, <2>3 DEF RowRight, r
  <2>4. CASE r \notin rows
    BY <1>5, <1>7, <2>1, <2>2, <2>4 DEF RowRight, r
  <2> QED
    BY <2>3, <2>4
<1>9. JobsRight(d) /\ DedupesRight(d) /\ d.job = db.job
  BY <1>0, <1>7, JobsKept, DedupesKept DEF SameJobs
<1>10. NoNewRows(db, d)
  BY <1>3, <1>4, <1>7 DEF NoNewRows
<1> QED
  BY <1>6, <1>8, <1>9, <1>10 DEF Right

-----------------------------------------------------------------------------
(* Dedup keys                                                              *)

SetKey(db, k, e) ==
    [db EXCEPT !.dedupe = [db.dedupe EXCEPT ![k] = e],
               !.dedupes = ZAdd(@, k, e.expiresAt)]

LEMMA SetKeyIs ==
    ASSUME NEW db, Right(db), NEW k \in DedupeMapKeys, NEW e \in Mem!DedupeEntry,
           NEW d, d = SetKey(db, k, e)
    PROVE  Right(d) /\ d.job = db.job /\ SameFlows(db, d)
<1> DEFINE m2 == [db.dedupe EXCEPT ![k] = e]  t == e.expiresAt
           z2 == ZAdd(db.dedupes, k, t)
<1>0. db \in Keys /\ FlowsRight(db) /\ DedupesRight(db) /\ JobsRight(db)
  BY DEF Right
<1>1. e # None /\ t \in Opt(Nat)
  BY NoneAssumption DEF Mem!DedupeEntry, Mem!Opt, Opt
<1>2. /\ m2 \in [DedupeMapKeys -> Opt(Mem!DedupeEntry)] /\ m2[k] = e
      /\ \A x \in DedupeMapKeys : x # k => m2[x] = db.dedupe[x]
  BY <1>0, KeysAre DEF Opt
<1>3. d = [db EXCEPT !.dedupe = m2, !.dedupes = z2]
  BY DEF SetKey
<1> HIDE DEF m2, t
<1>4. /\ z2 \in Zset(DedupeMapKeys, Opt(Nat))
      /\ \A m : m \in DOMAIN z2 <=> m \in DOMAIN db.dedupes \/ m = k
      /\ z2[k] = t
      /\ \A m \in DOMAIN db.dedupes : m # k => z2[m] = db.dedupes[m]
  <2>1. db.dedupes \in Zset(DedupeMapKeys, Opt(Nat))
    BY <1>0, KeysAre
  <2> QED
    BY <1>1, <2>1, ZAddIs
<1> HIDE DEF z2
<1>5. d \in Keys
  BY <1>0, <1>2, <1>3, <1>4 DEF Keys
<1>6. /\ d.dedupe = m2 /\ d.dedupes = z2 /\ SameJobs(db, d) /\ SameFlows(db, d)
  BY <1>0, <1>3 DEF Keys, SameJobs, SamePlaces, SameLists, SameFlows
<1>7. DedupesRight(d)
  BY <1>0, <1>1, <1>2, <1>4, <1>6 DEF DedupesRight, t
<1>8. JobsRight(d) /\ FlowsRight(d) /\ d.job = db.job
  BY <1>0, <1>6, JobsKept, FlowsKept DEF SameJobs
<1> QED
  BY <1>5, <1>6, <1>7, <1>8 DEF Right

Freed(db, dead) ==
    [db EXCEPT !.dedupe = [k \in DOMAIN @ |-> IF k \in dead THEN None ELSE @[k]],
               !.dedupes = ZRem(@, dead)]

LEMMA FreedIs ==
    ASSUME NEW db, Right(db), NEW dead, NEW d, d = Freed(db, dead)
    PROVE  Right(d) /\ d.job = db.job /\ SameFlows(db, d)
<1> DEFINE m2 == [k \in DOMAIN db.dedupe |-> IF k \in dead THEN None ELSE db.dedupe[k]]
           z2 == ZRem(db.dedupes, dead)
<1>0. db \in Keys /\ FlowsRight(db) /\ DedupesRight(db) /\ JobsRight(db)
  BY DEF Right
<1>1. db.dedupe \in [DedupeMapKeys -> Opt(Mem!DedupeEntry)]
      /\ db.dedupes \in Zset(DedupeMapKeys, Opt(Nat))
  BY <1>0, KeysAre
<1>2. /\ m2 \in [DedupeMapKeys -> Opt(Mem!DedupeEntry)]
      /\ \A x \in DedupeMapKeys : m2[x] = IF x \in dead THEN None ELSE db.dedupe[x]
  BY <1>1 DEF Opt
<1>3. d = [db EXCEPT !.dedupe = m2, !.dedupes = z2]
  BY DEF Freed
<1> HIDE DEF m2
<1>4. /\ z2 \in Zset(DedupeMapKeys, Opt(Nat))
      /\ \A m : m \in DOMAIN z2 <=> m \in DOMAIN db.dedupes /\ m \notin dead
      /\ \A m \in DOMAIN db.dedupes : m \notin dead => z2[m] = db.dedupes[m]
  BY <1>1, ZRemIs
<1> HIDE DEF z2
<1>5. d \in Keys
  BY <1>0, <1>2, <1>3, <1>4 DEF Keys
<1>6. /\ d.dedupe = m2 /\ d.dedupes = z2 /\ SameJobs(db, d) /\ SameFlows(db, d)
  BY <1>0, <1>3 DEF Keys, SameJobs, SamePlaces, SameLists, SameFlows
<1>7. DedupesRight(d)
  BY <1>0, <1>2, <1>4, <1>6 DEF DedupesRight
<1>8. JobsRight(d) /\ FlowsRight(d) /\ d.job = db.job
  BY <1>0, <1>6, JobsKept, FlowsKept DEF SameJobs
<1> QED
  BY <1>5, <1>6, <1>7, <1>8 DEF Right

-----------------------------------------------------------------------------
(* Steps                                                                   *)

Typed ==
    /\ now \in Nat /\ lastToken \in 0..MaxTokens /\ wake \subseteq Queues
    /\ fanOuts \in [1..MaxTokens -> Opt(FanOut)]
    /\ sweep \in Opt(Sweep)
    /\ scenario \in Scenarios

\* What all scripts but claim and the chunks of a fan-out ack do.
CalmStep ==
    /\ Right(redis') /\ Calm(redis, redis') /\ wake' \subseteq Queues
    /\ UNCHANGED <<now, lastToken, fanOuts, sweep, scenario>>

(* An action that replies with keys that are right.                        *)
LEMMA Replied ==
    ASSUME NEW db, NEW qs, Reply(db, qs), UNCHANGED lastToken, Right(db),
           Calm(redis, db), qs \subseteq Queues
    PROVE  CalmStep
BY DEF Reply, CalmStep

LEMMA RequestIs ==
    ASSUME NEW r \in Requests
    PROVE  /\ r.name \in Names /\ r.queue \in Queues /\ r.payload \in Payloads
           /\ r.priority \in Int /\ r.attemptsMax \in Nat
           /\ r.keep \in Opt(Mem!KeepPolicy) /\ r.delayMs \in Nat
           /\ r.dedupe # None =>
                /\ KeyOf(r) \in DedupeMapKeys
                /\ r.dedupe.ttlMs # None => r.dedupe.ttlMs \in Nat
<1>1. r \in Request
  BY ConstantsAssumption
<1>2. /\ r.name \in Names /\ r.queue \in Queues /\ r.payload \in Payloads
      /\ r.priority \in Int /\ r.attemptsMax \in Nat
      /\ r.keep \in Opt(Mem!KeepPolicy) /\ r.dedupe \in Opt(Mem!DedupePolicy)
      /\ r.delayMs \in Nat
  BY <1>1 DEF Request
<1>3. ASSUME r.dedupe # None
      PROVE  /\ KeyOf(r) \in DedupeMapKeys
             /\ r.dedupe.ttlMs # None => r.dedupe.ttlMs \in Nat
  <2>1. r.dedupe \in Mem!DedupePolicy
    BY <1>2, <1>3 DEF Opt
  <2>2. r.dedupe.key \in DedupeKeys
        /\ (r.dedupe.ttlMs # None => r.dedupe.ttlMs \in Nat)
    BY <2>1 DEF Mem!DedupePolicy, Mem!Opt
  <2> QED
    BY <1>2, <2>2 DEF KeyOf, DedupeMapKeys
<1> QED
  BY <1>2, <1>3

LEMMA InsertCalms ==
    ASSUME NEW db, Right(db), NEW id \in JobIds, db.job[id] = None,
           NEW r \in Requests, now \in Nat, NEW d, d = InsertJobRow(db, id, r, now)
    PROVE  Right(d) /\ Calm(db, d)
<1>1. /\ Right(d) /\ OnlyAt(db.job, d.job, id)
      /\ d.job[id].state \in {"waiting", "delayed"} /\ SameFlows(db, d)
  BY InsertJobRowIs
<1>2. ~ At(d.job[id], "active")
  BY <1>1 DEF At
<1> QED
  BY <1>1, <1>2, OneCalms, SameFlowsNoNewRows

LEMMA EnqueueIs ==
    ASSUME Right(redis), now \in Nat, NEW r \in Requests, NEW id \in JobIds,
           Enqueue(r, id)
    PROVE  CalmStep
<1> DEFINE d == InsertJobRow(redis, id, r, now)
           end == IF r.dedupe = None \/ r.dedupe.ttlMs = None THEN None
                  ELSE now + r.dedupe.ttlMs
           e == [jobId |-> id, expiresAt |-> end]
           k == KeyOf(r)
           db == IF r.dedupe = None THEN d
                 ELSE [d EXCEPT !.dedupe[k] = e, !.dedupes = ZAdd(@, k, end)]
           qs == {r.queue}
<1>1. Reply(db, qs) /\ UNCHANGED lastToken /\ redis.job[id] = None
  BY DEF Enqueue, Has
<1>2. Right(d) /\ Calm(redis, d)
  BY <1>1, InsertCalms
<1>3. qs \subseteq Queues
  BY RequestIs
<1> HIDE DEF d, qs
<1>4. Right(db) /\ Calm(redis, db)
  <2>1. CASE r.dedupe = None
    BY <1>2, <2>1
  <2>2. CASE r.dedupe # None
    <3>1. k \in DedupeMapKeys /\ end \in Opt(Nat)
      BY <2>2, RequestIs DEF Opt
    <3>2. e \in Mem!DedupeEntry /\ e.expiresAt = end
      BY <3>1 DEF Mem!DedupeEntry, Mem!Opt, Opt
    <3>3. db = [d EXCEPT !.dedupe[k] = e, !.dedupes = ZAdd(@, k, end)]
      BY <2>2
    <3> HIDE DEF db, e, end, k
    <3>4. db = SetKey(d, k, e)
      BY <3>2, <3>3 DEF SetKey
    <3>5. Right(db) /\ db.job = d.job /\ SameFlows(d, db)
      BY <1>2, <3>1, <3>2, <3>4, SetKeyIs
    <3> QED
      BY <1>2, <3>5, SameCalms, SameFlowsNoNewRows, CalmTwice
  <2> QED
    BY <2>1, <2>2
<1> HIDE DEF db
<1> QED
  BY <1>1, <1>3, <1>4, Replied

LEMMA WindowIs ==
    ASSUME NEW db, Right(db), now \in Nat, NEW r \in Requests, r.dedupe # None,
           db.dedupe[KeyOf(r)] # None, r.dedupe.ttlMs # None,
           NEW d, d = SetWindow(db, r)
    PROVE  Right(d) /\ d.job = db.job /\ SameFlows(db, d)
<1> DEFINE k == KeyOf(r)  t == now + r.dedupe.ttlMs  i == db.dedupe[k]
           e == [i EXCEPT !.expiresAt = t]
<1>1. k \in DedupeMapKeys /\ t \in Nat
  BY RequestIs
<1>2. i \in Mem!DedupeEntry
  BY <1>1, KeysAre DEF Right, Opt
<1>3. d = [db EXCEPT !.dedupe[k].expiresAt = t, !.dedupes = ZAdd(@, k, t)]
  BY DEF SetWindow
<1> HIDE DEF k, t, i
<1>4. e \in Mem!DedupeEntry /\ e.expiresAt = t
  BY <1>1, <1>2 DEF Mem!DedupeEntry, Mem!Opt
<1>5. d = SetKey(db, k, e)
  BY <1>3, <1>4 DEF SetKey, i
<1> HIDE DEF e
<1> QED
  BY <1>1, <1>4, <1>5, SetKeyIs

LEMMA EnqueueBumpIs ==
    ASSUME Right(redis), now \in Nat, NEW r \in Requests, EnqueueBump(r)
    PROVE  CalmStep
<1> DEFINE d == SetWindow(redis, r)
<1>1. /\ Reply(d, {}) /\ UNCHANGED lastToken /\ r.dedupe.ttlMs # None
      /\ r.dedupe # None /\ redis.dedupe[KeyOf(r)] # None
  BY DEF EnqueueBump, WindowLive, EntryOf
<1>2. Right(d) /\ d.job = redis.job /\ SameFlows(redis, d)
  BY <1>1, WindowIs
<1> HIDE DEF d
<1>3. Calm(redis, d)
  BY <1>2, SameCalms, SameFlowsNoNewRows
<1> QED
  BY <1>1, <1>2, <1>3, Replied

\* The hash that latest-wins leaves.
Latest(j, r, t) ==
    [j EXCEPT !.payload = r.payload, !.priority = r.priority,
              !.attemptsMax = r.attemptsMax, !.keep = r.keep, !.runAt = t]

LEMMA LatestIs ==
    ASSUME NEW j \in JobHash, NEW r \in Requests, NEW t \in Nat
    PROVE  /\ Latest(j, r, t) \in JobHash /\ Latest(j, r, t).state = j.state
           /\ Latest(j, r, t).queue = j.queue /\ Latest(j, r, t).name = j.name
<1> DEFINE p == r.payload  q == r.priority  a == r.attemptsMax  k == r.keep
           i == [j EXCEPT !.payload = p, !.priority = q]
           l == Latest(j, r, t)
<1>1. p \in Payloads /\ q \in Int /\ a \in Nat /\ k \in Opt(Mem!KeepPolicy)
  BY RequestIs
<1>2. l = [j EXCEPT !.payload = p, !.priority = q, !.attemptsMax = a,
                    !.keep = k, !.runAt = t]
  BY DEF Latest
<1> HIDE DEF p, q, a, k, l
<1>3. i \in JobHash
  BY <1>1 DEF JobHash
<1>4. l = [i EXCEPT !.attemptsMax = a, !.keep = k, !.runAt = t]
  BY <1>2 DEF JobHash
<1>5. i.state = j.state /\ i.queue = j.queue /\ i.name = j.name
  BY DEF JobHash
<1> HIDE DEF i
<1>6. l \in JobHash
  BY <1>1, <1>3, <1>4 DEF JobHash
<1>7. l.state = i.state /\ l.queue = i.queue /\ l.name = i.name
  BY <1>3, <1>4 DEF JobHash
<1> QED
  BY <1>5, <1>6, <1>7 DEF l

LEMMA EnqueueReplaceIs ==
    ASSUME Right(redis), now \in Nat, NEW r \in Requests, EnqueueReplace(r)
    PROVE  CalmStep
<1> DEFINE k == KeyOf(r)  id == EntryOf(r).jobId  i == redis.job[id]
           t == now + r.delayMs  j == Latest(i, r, t)
           db == Deferred(redis, id, j)
           d == IF r.dedupe.ttlMs = None THEN db ELSE SetWindow(db, r)
           qs == {j.queue}
<1>1. /\ r.dedupe # None /\ redis.dedupe[k] # None /\ i # None
      /\ i.state = "delayed" /\ Reply(d, qs) /\ UNCHANGED lastToken
  <2>1. EntryOf(r) # None /\ KeyedState(r) = "delayed"
    BY DEF EnqueueReplace, Replaces
  <2>2. KeyedState(r) # None
    BY <2>1, NoneAssumption DEF JobStates
  <2>3. i # None /\ i.state = "delayed"
    BY <2>1, <2>2 DEF KeyedState, Has
  <2>4. r.dedupe # None /\ redis.dedupe[k] # None
    BY <2>1 DEF EntryOf
  <2>5. Reply(d, qs) /\ UNCHANGED lastToken
    BY DEF EnqueueReplace, Deferred, Latest
  <2> QED
    BY <2>3, <2>4, <2>5
<1>2. redis \in Keys /\ t \in Nat /\ k \in DedupeMapKeys
  BY <1>1, RequestIs DEF Right
<1>3. id \in JobIds
  <2>1. redis.dedupe[k] \in Mem!DedupeEntry /\ id = redis.dedupe[k].jobId
    BY <1>1, <1>2, KeysAre DEF Opt, EntryOf
  <2> QED
    BY <2>1 DEF Mem!DedupeEntry
<1>4. i \in JobHash /\ At(i, "delayed")
  BY <1>1, <1>2, <1>3, HashOf DEF At
<1>5. j \in JobHash /\ j.state = "delayed" /\ j.queue = i.queue /\ j.name = i.name
  BY <1>1, <1>2, <1>4, LatestIs
<1>6. qs \subseteq Queues
  BY <1>5, JobIs
<1> HIDE DEF t, j, qs
<1>7. /\ Right(db) /\ db.job[id] = j /\ OnlyAt(redis.job, db.job, id)
      /\ SameRest(redis, db)
  <2>1. At(redis.job[id], "delayed") /\ j.queue = redis.job[id].queue
        /\ j.name = redis.job[id].name
    BY <1>4, <1>5
  <2> HIDE DEF id
  <2> QED
    BY <1>3, <1>5, <2>1, PutDelayedIs
<1> HIDE DEF db
<1>8. Calm(redis, db)
  <2>1. ~ At(db.job[id], "active")
    BY <1>5, <1>7 DEF At
  <2>2. NoNewRows(redis, db)
    BY <1>7, SameFlowsNoNewRows DEF SameRest
  <2> QED
    BY <1>3, <1>7, <2>1, <2>2, OneCalms
<1>9. Right(d) /\ Calm(redis, d)
  <2>1. CASE r.dedupe.ttlMs = None
    BY <1>7, <1>8, <2>1
  <2>2. CASE r.dedupe.ttlMs # None
    <3>1. db.dedupe[KeyOf(r)] # None
      BY <1>1, <1>7 DEF SameRest, SameDedupes
    <3>2. d = SetWindow(db, r)
      BY <2>2
    <3> HIDE DEF d
    <3>3. Right(d) /\ d.job = db.job /\ SameFlows(db, d)
      BY <1>1, <1>7, <2>2, <3>1, <3>2, WindowIs
    <3> QED
      BY <1>8, <3>3, SameCalms, SameFlowsNoNewRows, CalmTwice
  <2> QED
    BY <2>1, <2>2
<1> HIDE DEF d
<1> QED
  BY <1>1, <1>6, <1>9, Replied

-----------------------------------------------------------------------------
(* The rows that are left to a fan-out ack                                 *)

Holds(db, id, token) == At(db.job[id], "active") /\ db.job[id].lockToken = token

\* A worker in the middle of a fan-out ack has a token that was handed out;
\* while it holds its job, and the manifest is not there, none of the rows it
\* still has to stage is: no script of the ack writes over a row.
RestIsNew(db, acks, last) ==
    \A token \in 1..MaxTokens :
        acks[token] # None =>
            /\ token <= last
            /\ Holds(db, acks[token].id, token) /\ db.job[acks[token].id].flow = None
               => \A k \in acks[token].rest :
                     db.flowchild[<<acks[token].id, k>>] = None

Acks == [1..MaxTokens -> Opt(FanOut)]

LEMMA AckIs ==
    ASSUME NEW acks \in Acks, NEW token \in 1..MaxTokens, acks[token] # None
    PROVE  /\ acks[token] \in FanOut /\ acks[token].id \in JobIds
           /\ acks[token].at \in Nat /\ acks[token].rest \in SUBSET ChildKeys
           /\ acks[token].total \in Nat /\ acks[token].failFast \in BOOLEAN
<1>1. acks[token] \in FanOut
  BY DEF Acks, Opt
<1> QED
  BY <1>1 DEF FanOut

LEMMA CalmKeepsRest ==
    ASSUME NEW acks \in Acks, NEW last, NEW a, NEW b, Calm(a, b),
           RestIsNew(a, acks, last)
    PROVE  RestIsNew(b, acks, last)
<1> SUFFICES ASSUME NEW token \in 1..MaxTokens, acks[token] # None,
                    NEW id, id = acks[token].id, Holds(b, id, token),
                    b.job[id].flow = None,
                    NEW k \in acks[token].rest
             PROVE  b.flowchild[<<id, k>>] = None
  BY DEF RestIsNew
<1>1. id \in JobIds /\ k \in ChildKeys
  BY AckIs
<1>2. Holds(a, id, token) /\ a.job[id].flow = None
  BY <1>1 DEF Calm, Holds
<1>3. a.flowchild[<<id, k>>] = None
  BY <1>2 DEF RestIsNew
<1> QED
  BY <1>1, <1>3 DEF Calm, NoNewRows, Rows

\* The inductive invariant.
KeysInv == Typed /\ Right(redis) /\ RestIsNew(redis, fanOuts, lastToken)

LEMMA AcksAre == ASSUME Typed PROVE fanOuts \in Acks
BY DEF Typed, Acks

LEMMA CalmSteps ==
    ASSUME KeysInv, CalmStep PROVE KeysInv'
<1>1. RestIsNew(redis', fanOuts, lastToken)
  BY CalmKeepsRest, AcksAre DEF KeysInv, CalmStep
<1>2. Typed'
  BY DEF KeysInv, CalmStep, Typed
<1> QED
  BY <1>1, <1>2 DEF KeysInv, CalmStep

-----------------------------------------------------------------------------
(* claim                                                                   *)

ClaimedHash(j, token, t) ==
    [j EXCEPT !.state = "active", !.lockToken = token, !.lockExpiresAt = t]

LEMMA ClaimedHashIs ==
    ASSUME NEW j \in JobHash, NEW token \in Nat, NEW t \in Nat
    PROVE  /\ ClaimedHash(j, token, t) \in JobHash
           /\ ClaimedHash(j, token, t).state = "active"
           /\ ClaimedHash(j, token, t).lockToken = token
           /\ ClaimedHash(j, token, t).lockExpiresAt = t
           /\ ClaimedHash(j, token, t).queue = j.queue
           /\ ClaimedHash(j, token, t).name = j.name
BY DEF ClaimedHash, JobHash, Opt, JobStates

\* Out of p:waiting:<queue>, into p:active.
Taken(db, q, m, id, j, t) ==
    [PutJob(db, id, j) EXCEPT !.waiting[q] = ZRem(@, {m}), !.active = ZAdd(@, id, t)]

LEMMA TakenIs ==
    ASSUME NEW db, Right(db), NEW id \in JobIds, At(db.job[id], "waiting"),
           NEW q, q = db.job[id].queue, NEW m, m = <<db.job[id].seq, id>>,
           NEW token \in Nat, NEW t \in Nat,
           NEW j \in JobHash, j.state = "active", j.lockToken = token,
           j.lockExpiresAt = t, j.queue = q, j.name = db.job[id].name,
           NEW d, d = Taken(db, q, m, id, j, t)
    PROVE  /\ Right(d) /\ OnlyAt(db.job, d.job, id) /\ d.job[id].lockToken = token
           /\ NoNewRows(db, d)
<1> DEFINE w2 == [db.waiting EXCEPT ![q] = ZRem(@, {m})]
           e == [db EXCEPT !.waiting = w2]
           f == PutJob(e, id, j)
<1>1. db \in Keys /\ db.job[id] \in JobHash
  BY HashOf DEF Right, At
<1>2. /\ j \in JobHash /\ j.state = "active" /\ j.lockToken = token
      /\ j.lockExpiresAt = t /\ j.queue = q /\ j.name = db.job[id].name
  OBVIOUS
<1>3. RightBut(e, id) /\ e.job = db.job /\ SameRest(db, e)
  <2>1. e = Unplaced(db, q, m)
    BY DEF Unplaced
  <2> HIDE DEF e
  <2> QED
    BY <2>1, LeaveWaitingIs
<1>4. d = Locked(f, id, j, t)
  <2> DEFINE c2 == CountsMove(db.counts, j.queue, db.job[id].state, j.state)
             h2 == [db.job EXCEPT ![id] = j]  a2 == ZAdd(db.active, id, t)
  <2>1. PutJob(db, id, j) = [db EXCEPT !.job = h2, !.counts = c2]
    BY <1>1 DEF PutJob, Keys
  <2>2. d = [db EXCEPT !.job = h2, !.counts = c2, !.waiting = w2, !.active = a2]
    BY <1>1, <2>1 DEF Taken, Keys
  <2>3. f = [db EXCEPT !.waiting = w2, !.job = h2, !.counts = c2]
    BY <1>1, <1>3 DEF PutJob, Keys
  <2>4. f.job = h2 /\ f.active = db.active
    BY <1>1, <2>3 DEF Keys
  <2>5. [f.job EXCEPT ![id] = j] = h2
    BY <1>1, <2>4 DEF Keys
  <2>6. Locked(f, id, j, t) = [f EXCEPT !.job = h2, !.active = a2]
    <3>1. a2 = ZAdd(f.active, id, t)
      BY <2>4
    <3> HIDE DEF f, h2, a2
    <3> QED
      BY <2>5, <3>1 DEF Locked
  <2> HIDE DEF c2, h2, a2, w2, f
  <2>7. d = [f EXCEPT !.active = a2]
    BY <1>1, <2>2, <2>3 DEF Keys
  <2>8. f = [f EXCEPT !.job = h2]
    BY <1>1, <2>3 DEF Keys
  <2>9. d = [[f EXCEPT !.job = h2] EXCEPT !.active = a2]
    BY <2>7, <2>8
  <2>10. [[f EXCEPT !.job = h2] EXCEPT !.active = a2] = [f EXCEPT !.job = h2, !.active = a2]
    OBVIOUS
  <2> QED
    BY <2>6, <2>9, <2>10
<1> HIDE DEF e, f, w2
<1>5. /\ RightBut(f, id) /\ OnlyAt(e.job, f.job, id) /\ f.job[id] = j
      /\ SameFlows(e, f)
  <2>1. e.job[id] # None /\ j.queue = e.job[id].queue /\ j.name = e.job[id].name
    BY <1>2, <1>3 DEF At
  <2> QED
    BY <1>2, <1>3, <2>1, PutJobIs DEF f
<1>6. /\ Right(d) /\ d.job[id] = j /\ OnlyAt(f.job, d.job, id) /\ SameRest(f, d)
  <2>1. At(f.job[id], "active") /\ j.queue = f.job[id].queue
        /\ j.name = f.job[id].name /\ NearlyRight(f, id)
    BY <1>2, <1>5, JobIs DEF At, NearlyRight
  <2> QED
    BY <1>2, <1>4, <2>1, PutActiveIs
<1>7. OnlyAt(db.job, d.job, id)
  BY <1>3, <1>5, <1>6 DEF OnlyAt
<1>8. NoNewRows(db, d)
  <2>1. SameFlows(db, d)
    BY <1>3, <1>5, <1>6 DEF SameRest, SameFlows
  <2> QED
    BY <2>1, SameFlowsNoNewRows
<1> QED
  BY <1>2, <1>6, <1>7, <1>8

LEMMA ClaimIs ==
    ASSUME Right(redis), Typed, NEW queue \in Queues, NEW names,
           NEW lockMs \in LockDurations, Claim(queue, names, lockMs)
    PROVE  /\ \E id \in JobIds : \E db :
              /\ Right(redis') /\ Right(db) /\ Calm(redis, db)
              /\ OnlyAt(db.job, redis'.job, id)
              /\ redis'.job[id].lockToken = lastToken + 1 /\ NoNewRows(db, redis')
           /\ lastToken' = lastToken + 1 /\ lastToken + 1 <= MaxTokens
           /\ wake' \subseteq Queues /\ UNCHANGED <<now, fanOuts, sweep, scenario>>
<1> DEFINE db == PromoteDue(redis, queue)  zset == db.waiting[queue]
           matching == {m \in Members(zset) : db.job[m[2]].name \in names}
           token == lastToken + 1  t == now + lockMs
<1>1. PICK m \in matching :
        Reply([PutJob(db, m[2], ClaimedHash(db.job[m[2]], token, t)) EXCEPT
                  !.waiting[queue] = ZRem(@, {m}),
                  !.active = ZAdd(@, m[2], t)], {})
  BY Zenon DEF Claim, ClaimedHash
<1>2. lastToken' = token /\ token <= scenario.tokens
  BY DEF Claim
<1>3. scenario.tokens <= MaxTokens /\ scenario.tokens \in Nat
      /\ MaxTokens \in Nat /\ now \in Nat /\ lastToken \in Nat
  BY ScenariosAssumption, ConstantsAssumption DEF Typed
<1>4. t \in Nat /\ token \in Nat /\ token <= MaxTokens
  BY <1>2, <1>3, ConstantsAssumption
<1>5. Right(db) /\ Calm(redis, db)
  BY PromoteDueIs
<1>6. m \in DOMAIN db.waiting[queue]
  BY DEF Members
<1> HIDE DEF db, token, t
<1>7. PICK n \in Nat, x \in JobIds :
         /\ m = <<n, x>> /\ At(db.job[x], "waiting")
         /\ db.job[x].queue = queue /\ db.job[x].seq = n
  BY <1>5, <1>6, QueueIs
<1> DEFINE i == db.job[x]  j == ClaimedHash(i, token, t)
<1>8. i \in JobHash
  BY <1>5, <1>7, HashOf DEF Right, At
<1> HIDE DEF i
<1>9. /\ j \in JobHash /\ j.state = "active" /\ j.lockToken = token
      /\ j.lockExpiresAt = t /\ j.queue = i.queue /\ j.name = i.name
  BY <1>4, <1>8, ClaimedHashIs
<1>10. m[2] = x /\ m = <<db.job[x].seq, x>> /\ i = db.job[x]
  BY <1>7 DEF i
<1>11. Reply(Taken(db, queue, m, x, j, t), {})
  BY <1>1, <1>10 DEF Taken
<1> HIDE DEF j
<1> DEFINE d == Taken(db, queue, m, x, j, t)
<1>12. redis' = d /\ wake' = {} /\ UNCHANGED <<now, fanOuts, sweep, scenario>>
  BY <1>11 DEF Reply
<1> HIDE DEF d
<1>13. /\ Right(d) /\ OnlyAt(db.job, d.job, x) /\ d.job[x].lockToken = token
       /\ NoNewRows(db, d)
  <2>1. /\ queue = db.job[x].queue /\ j.name = db.job[x].name /\ j.queue = queue
    BY <1>7, <1>9, <1>10
  <2>2. d = Taken(db, queue, m, x, j, t)
    BY DEF d
  <2> QED
    BY <1>4, <1>5, <1>7, <1>9, <1>10, <2>1, <2>2, TakenIs
<1> QED
  BY <1>2, <1>4, <1>5, <1>12, <1>13 DEF token

(* A claimed job has a token of its own: whoever was in the middle of a    *)
(* fan-out ack of it does not hold it.                                     *)
LEMMA ClaimKeeps ==
    ASSUME KeysInv, NEW queue \in Queues, NEW names,
           NEW lockMs \in LockDurations, Claim(queue, names, lockMs)
    PROVE  KeysInv'
<1>1. Right(redis) /\ Typed /\ RestIsNew(redis, fanOuts, lastToken)
  BY DEF KeysInv
<1>2. PICK id \in JobIds : \E db :
         /\ Right(redis') /\ Right(db) /\ Calm(redis, db)
         /\ OnlyAt(db.job, redis'.job, id)
         /\ redis'.job[id].lockToken = lastToken + 1 /\ NoNewRows(db, redis')
  BY <1>1, ClaimIs
<1> PICK db :
         /\ Right(redis') /\ Right(db) /\ Calm(redis, db)
         /\ OnlyAt(db.job, redis'.job, id)
         /\ redis'.job[id].lockToken = lastToken + 1 /\ NoNewRows(db, redis')
  BY <1>2
<1>3. /\ lastToken' = lastToken + 1 /\ lastToken + 1 <= MaxTokens
      /\ wake' \subseteq Queues /\ UNCHANGED <<now, fanOuts, sweep, scenario>>
  BY <1>1, ClaimIs
<1>4. Typed'
  BY <1>1, <1>3, ConstantsAssumption DEF Typed
<1>5. RestIsNew(db, fanOuts, lastToken)
  BY <1>1, <1>2, CalmKeepsRest, AcksAre
<1> DEFINE d == redis'
<1>6. RestIsNew(d, fanOuts, lastToken + 1)
  <2> HIDE DEF d
  <2> SUFFICES ASSUME NEW token \in 1..MaxTokens, fanOuts[token] # None
               PROVE  /\ token <= lastToken + 1
                      /\ \A x : x = fanOuts[token].id /\ Holds(d, x, token)
                                 /\ d.job[x].flow = None
                           => \A k \in fanOuts[token].rest :
                                 d.flowchild[<<x, k>>] = None
    BY DEF RestIsNew
  <2>1. token <= lastToken /\ lastToken \in Nat
    BY <1>1 DEF RestIsNew, Typed
  <2>2. ASSUME NEW x, x = fanOuts[token].id, Holds(d, x, token),
               d.job[x].flow = None, NEW k \in fanOuts[token].rest
        PROVE  d.flowchild[<<x, k>>] = None
    <3>1. x \in JobIds /\ k \in ChildKeys
      BY <1>1, <2>2, AckIs, AcksAre
    <3>2. d.job[id].lockToken = lastToken + 1 /\ OnlyAt(db.job, d.job, id)
          /\ NoNewRows(db, d)
      BY <1>2 DEF d
    <3>3. x # id
      BY <2>1, <2>2, <3>2 DEF Holds
    <3>4. d.job[x] = db.job[x]
      BY <3>1, <3>2, <3>3 DEF OnlyAt
    <3>5. db.flowchild[<<x, k>>] = None
      BY <1>5, <2>2, <3>4 DEF RestIsNew, Holds
    <3> QED
      BY <3>1, <3>2, <3>5 DEF NoNewRows, Rows
  <2> QED
    BY <2>1, <2>2
<1> QED
  BY <1>2, <1>3, <1>4, <1>6 DEF KeysInv

LEMMA ClaimEmptyIs ==
    ASSUME Right(redis), NEW queue \in Queues, NEW names, ClaimEmpty(queue, names)
    PROVE  CalmStep
<1> DEFINE db == PromoteDue(redis, queue)
<1>1. Right(db) /\ Calm(redis, db)
  BY PromoteDueIs
<1>2. Reply(db, {}) /\ UNCHANGED lastToken
  BY DEF ClaimEmpty
<1> HIDE DEF db
<1> QED
  BY <1>1, <1>2, Replied

-----------------------------------------------------------------------------
(* The scripts of workers                                                  *)

LEMMA EndsCalmly ==
    ASSUME NEW a, NEW b, NEW c, NEW id \in JobIds, OnlyAt(a.job, b.job, id),
           NoNewRows(a, b), Calm(b, c), ~ At(c.job[id], "active")
    PROVE  Calm(a, c)
BY DEF Calm, NoNewRows, OnlyAt

LEMMA EndedCalms ==
    ASSUME NEW a, NEW b, NEW c, NEW id \in JobIds, OnlyAt(a.job, b.job, id),
           NoNewRows(a, b), Calm(b, c), NEW state \in TerminalStates,
           c.job[id] = None \/ c.job[id].state = state
    PROVE  Calm(a, c)
<1>1. ~ At(c.job[id], "active")
  BY DEF At, TerminalStates
<1> QED
  BY <1>1, EndsCalmly

LEMMA EnteredCalms ==
    ASSUME NEW a, NEW b, NEW c, NEW id \in JobIds, OnlyAt(a.job, b.job, id),
           SameRest(a, b), OnlyAt(b.job, c.job, id), SameFlows(b, c),
           c.job[id].state \in {"waiting", "delayed", "waiting-children"}
    PROVE  Calm(a, c)
<1>1. OnlyAt(a.job, c.job, id) /\ NoNewRows(a, c)
  BY DEF OnlyAt, SameRest, SameFlows, NoNewRows
<1>2. ~ At(c.job[id], "active")
  BY DEF At
<1> QED
  BY <1>1, <1>2, OneCalms

LEMMA HeldIs ==
    ASSUME Right(redis), NEW id \in JobIds, NEW token, Held(id, token)
    PROVE  /\ At(redis.job[id], "active") /\ redis.job[id] \in JobHash
           /\ redis.job[id].lockToken = token
BY HashOf DEF Held, Has, At, Right

\* The two ways in which a script that ends a job replies.
LEMMA FinishReplied ==
    ASSUME NEW db, NEW id \in JobIds, NEW j \in JobHash, RightBut(db, id),
           db.job[id] # None, j.queue = db.job[id].queue, j.name = db.job[id].name,
           NEW state \in TerminalStates, now \in Nat,
           OnlyAt(redis.job, db.job, id), NoNewRows(redis, db),
           NEW d, d = FinishAndKeep(db, id, j, state, now), Reply(d, {}),
           UNCHANGED lastToken
    PROVE  CalmStep
<1>1. Right(d) /\ Calm(db, d) /\ (d.job[id] = None \/ d.job[id].state = state)
  BY FinishAndKeepIs
<1>2. Calm(redis, d)
  BY <1>1, EndedCalms
<1> QED
  BY <1>1, <1>2, Replied

LEMMA FinishCancelledReplied ==
    ASSUME NEW db, NEW id \in JobIds, RightBut(db, id), db.job[id] # None,
           now \in Nat, OnlyAt(redis.job, db.job, id), NoNewRows(redis, db),
           NEW d, d = FinishCancelled(db, id, now), Reply(d, {}),
           UNCHANGED lastToken
    PROVE  CalmStep
<1>1. /\ Right(d) /\ Calm(db, d)
      /\ d.job[id] = None \/ d.job[id].state = "cancelled"
  BY FinishCancelledIs
<1>2. Calm(redis, d)
  <2>1. "cancelled" \in TerminalStates
    BY DEF TerminalStates
  <2> QED
    BY <1>1, <2>1, EndedCalms
<1> QED
  BY <1>1, <1>2, Replied

LEMMA EnterReplied ==
    ASSUME NEW db, NEW id \in JobIds, NEW j \in JobHash, RightBut(db, id),
           db.job[id] # None, j.queue = db.job[id].queue, j.name = db.job[id].name,
           j.state \in {"waiting", "delayed"}, OnlyAt(redis.job, db.job, id),
           NoNewRows(redis, db), NEW d, d = Enter(db, id, j), NEW qs,
           Reply(d, qs), qs \subseteq Queues, UNCHANGED lastToken
    PROVE  CalmStep
<1>1. Right(d) /\ OnlyAt(db.job, d.job, id) /\ d.job[id] = j /\ SameFlows(db, d)
  BY EnterIs
<1>2. Calm(db, d)
  <2>1. ~ At(d.job[id], "active")
    BY <1>1 DEF At
  <2> QED
    BY <1>1, <2>1, OneCalms, SameFlowsNoNewRows
<1>3. Calm(redis, d)
  <2>1. ~ At(d.job[id], "active")
    BY <1>1 DEF At
  <2> QED
    BY <1>2, <2>1, EndsCalmly
<1> QED
  BY <1>1, <1>3, Replied

AckedHash(j) == [j EXCEPT !.attemptsMade = @ + 1]

LEMMA AckedIs ==
    ASSUME Right(redis), NEW id \in JobIds, NEW token, Held(id, token),
           NEW db, db = Acked(id)
    PROVE  /\ RightBut(db, id) /\ db.job[id] \in JobHash /\ db.job[id] # None
           /\ OnlyAt(redis.job, db.job, id) /\ SameRest(redis, db)
           /\ NoNewRows(redis, db)
<1> DEFINE i == redis.job[id]  j == AckedHash(i)
<1>1. At(redis.job[id], "active") /\ i \in JobHash /\ redis \in Keys
  BY HeldIs DEF Right
<1>2. db = Idle(redis, id, j)
  <2>1. Acked(id) = [redis EXCEPT !.job = [redis.job EXCEPT ![id] = j],
                                  !.active = ZRem(@, {id})]
    BY <1>1 DEF Acked, AckedHash, Keys
  <2> QED
    BY <2>1 DEF Idle
<1>3. j \in JobHash /\ SameLook(i, j)
  <2> HIDE DEF i
  <2> QED
    BY <1>1 DEF AckedHash, JobHash, SameLook
<1>4. SameLook(redis.job[id], j)
  BY <1>3
<1> HIDE DEF i, j
<1>5. /\ RightBut(db, id) /\ db.job[id] = j /\ OnlyAt(redis.job, db.job, id)
      /\ SameRest(redis, db)
  BY <1>1, <1>2, <1>3, <1>4, LeaveActiveIs
<1>6. NoNewRows(redis, db)
  BY <1>5, SameFlowsNoNewRows DEF SameRest
<1> QED
  BY <1>3, <1>5, <1>6, JobIs

LEMMA AckTerminalIs ==
    ASSUME Right(redis), now \in Nat, NEW id \in JobIds, NEW token,
           NEW state \in TerminalStates, NEW exit \in BOOLEAN,
           AckTerminal(id, token, state, exit)
    PROVE  CalmStep
<1> DEFINE db == Acked(id)  i == db.job[id]
           x == IF state = "cancelled" THEN i.exit ELSE exit
           j == [i EXCEPT !.exit = x]
           d == FinishAndKeep(db, id, j, state, now)
<1>1. Held(id, token) /\ Reply(d, {}) /\ UNCHANGED lastToken
  BY DEF AckTerminal
<1>2. /\ RightBut(db, id) /\ i \in JobHash /\ db.job[id] # None
      /\ OnlyAt(redis.job, db.job, id) /\ NoNewRows(redis, db)
  BY <1>1, AckedIs
<1> HIDE DEF db
<1>3. j \in JobHash /\ j.queue = i.queue /\ j.name = i.name
  <2>1. x \in BOOLEAN
    BY <1>2 DEF JobHash
  <2> HIDE DEF i, x
  <2> QED
    BY <1>2, <2>1 DEF JobHash
<1> HIDE DEF j
<1>4. d = FinishAndKeep(db, id, j, state, now)
  OBVIOUS
<1> HIDE DEF d
<1> QED
  BY <1>1, <1>2, <1>3, <1>4, FinishReplied

\* The hash that a retry or a release leaves.
Again(j, n, t, state) ==
    AppendAttempt([ClearLock(j) EXCEPT !.seq = n, !.runAt = t, !.state = state],
                  "retried")

LEMMA AgainIs ==
    ASSUME NEW j \in JobHash, NEW n \in Nat, NEW t \in Nat, NEW state \in JobStates
    PROVE  /\ Again(j, n, t, state) \in JobHash
           /\ Again(j, n, t, state).state = state
           /\ Again(j, n, t, state).queue = j.queue
           /\ Again(j, n, t, state).name = j.name
<1> DEFINE i == [j EXCEPT !.lockToken = None, !.lockExpiresAt = None]
           k == [i EXCEPT !.seq = n, !.runAt = t, !.state = state]
           a == Append(k.attempts, "retried")
<1>1. i \in JobHash /\ i.queue = j.queue /\ i.name = j.name
  BY DEF JobHash, Opt
<1> HIDE DEF i
<1>2. k \in JobHash /\ k.queue = i.queue /\ k.name = i.name /\ k.state = state
  BY <1>1 DEF JobHash
<1> HIDE DEF k
<1>3. a \in Seq(Mem!AttemptOutcomes)
  <2>1. k.attempts \in Seq(Mem!AttemptOutcomes)
    BY <1>2 DEF JobHash
  <2>2. "retried" \in Mem!AttemptOutcomes
    BY DEF Mem!AttemptOutcomes
  <2> QED
    BY <2>1, <2>2
<1> HIDE DEF a
<1>4. [k EXCEPT !.attempts = a] \in JobHash
  BY <1>2, <1>3 DEF JobHash
<1>5. /\ [k EXCEPT !.attempts = a].state = k.state
      /\ [k EXCEPT !.attempts = a].queue = k.queue
      /\ [k EXCEPT !.attempts = a].name = k.name
  BY <1>2 DEF JobHash
<1>6. Again(j, n, t, state) = [k EXCEPT !.attempts = a]
  BY DEF Again, ClearLock, AppendAttempt, i, k, a
<1> QED
  BY <1>1, <1>2, <1>4, <1>5, <1>6

LEMMA AckRetryIs ==
    ASSUME Right(redis), now \in Nat, NEW id \in JobIds, NEW token,
           NEW delayMs \in RetryDelays, AckRetry(id, token, delayMs)
    PROVE  CalmStep
<1> DEFINE db == Acked(id)  i == db.job[id]  n == db.seq + 1
           t == now + delayMs
           state == IF delayMs > 0 THEN "delayed" ELSE "waiting"
           j == Again(i, n, t, state)
           db2 == [db EXCEPT !.seq = @ + 1]
           d == IF i.cancelRequested THEN FinishCancelled(db, id, now)
                ELSE Enter(db2, id, j)
           qs == IF i.cancelRequested THEN {} ELSE {i.queue}
<1>1. Held(id, token) /\ Reply(d, qs) /\ UNCHANGED lastToken
  BY DEF AckRetry, Again
<1>2. /\ RightBut(db, id) /\ i \in JobHash /\ db.job[id] # None
      /\ OnlyAt(redis.job, db.job, id) /\ NoNewRows(redis, db) /\ db \in Keys
  BY <1>1, AckedIs DEF RightBut
<1> HIDE DEF db
<1>3. CASE i.cancelRequested
  <2>1. d = FinishCancelled(db, id, now) /\ qs = {}
    BY <1>3
  <2> HIDE DEF d
  <2> QED
    BY <1>1, <1>2, <2>1, FinishCancelledReplied
<1>4. CASE ~ i.cancelRequested
  <2>1. d = Enter(db2, id, j) /\ qs = {i.queue}
    BY <1>4
  <2>2. n \in Nat /\ t \in Nat /\ state \in {"waiting", "delayed"}
    BY <1>2, KeysAre, ConstantsAssumption
  <2>3. RightBut(db2, id) /\ db2.job = db.job /\ SameFlows(db, db2)
    <3> HIDE DEF db2
    <3>1. db2 = [db EXCEPT !.seq = @ + 1]
      BY DEF db2
    <3> QED
      BY <1>2, <3>1, SeqIs
  <2>4. i = db2.job[id] /\ db2.job[id] # None
    BY <1>2, <2>3
  <2>5. state \in JobStates
    BY <2>2 DEF JobStates
  <2> HIDE DEF d, db2, i, n, t, state
  <2>6. j \in JobHash /\ j.state = state /\ j.queue = i.queue /\ j.name = i.name
    BY <1>2, <2>2, <2>5, AgainIs
  <2>7. qs \subseteq Queues
    BY <1>2, <2>1, JobIs
  <2> HIDE DEF j, qs
  <2>8. OnlyAt(redis.job, db2.job, id)
    BY <1>2, <2>3 DEF OnlyAt
  <2>9. NoNewRows(redis, db2)
    BY <1>2, <2>3 DEF NoNewRows, SameFlows
  <2>10. /\ j.queue = db2.job[id].queue /\ j.name = db2.job[id].name
         /\ j.state \in {"waiting", "delayed"}
    BY <2>2, <2>4, <2>6
  <2> QED
    BY <1>1, <2>1, <2>3, <2>4, <2>6, <2>7, <2>8, <2>9, <2>10, EnterReplied
<1> QED
  BY <1>3, <1>4

Unlocked(j) == [ClearLock(j) EXCEPT !.state = "waiting"]

LEMMA UnlockedIs ==
    ASSUME NEW j \in JobHash
    PROVE  /\ Unlocked(j) \in JobHash /\ Unlocked(j).state = "waiting"
           /\ Unlocked(j).queue = j.queue /\ Unlocked(j).name = j.name
<1>1. "waiting" \in JobStates
  BY DEF JobStates
<1> QED
  BY <1>1 DEF Unlocked, ClearLock, JobHash, Opt

LEMMA ReleaseIs ==
    ASSUME Right(redis), now \in Nat, NEW id \in JobIds, NEW token,
           Release(id, token)
    PROVE  CalmStep
<1> DEFINE db == Off(redis, id)  i == db.job[id]  j == Unlocked(i)
           d == IF i.cancelRequested THEN FinishCancelled(db, id, now)
                ELSE Enter(db, id, j)
           qs == IF i.cancelRequested THEN {} ELSE {i.queue}
<1>1. Held(id, token) /\ Reply(d, qs) /\ UNCHANGED lastToken
  BY DEF Release, Unlocked, Off
<1>2. At(redis.job[id], "active") /\ redis.job[id] \in JobHash
  BY <1>1, HeldIs
<1>3. RightBut(db, id) /\ db.job = redis.job /\ SameRest(redis, db)
  <2> HIDE DEF db
  <2>1. db = Off(redis, id)
    BY DEF db
  <2> QED
    BY <1>2, <2>1, LeftActiveIs
<1>4. /\ i \in JobHash /\ db.job[id] # None
      /\ OnlyAt(redis.job, db.job, id) /\ NoNewRows(redis, db)
  BY <1>2, <1>3, SameFlowsNoNewRows, JobIs DEF SameRest, OnlyAt
<1> HIDE DEF db
<1>5. CASE i.cancelRequested
  <2>1. d = FinishCancelled(db, id, now) /\ qs = {}
    BY <1>5
  <2> HIDE DEF d
  <2> QED
    BY <1>1, <1>3, <1>4, <2>1, FinishCancelledReplied
<1>6. CASE ~ i.cancelRequested
  <2>1. d = Enter(db, id, j) /\ qs = {i.queue}
    BY <1>6
  <2> HIDE DEF d
  <2>2. i = db.job[id]
    OBVIOUS
  <2> HIDE DEF i
  <2>3. j \in JobHash /\ j.state = "waiting" /\ j.queue = i.queue /\ j.name = i.name
    BY <1>4, UnlockedIs
  <2>4. qs \subseteq Queues
    BY <1>4, <2>1, JobIs
  <2> HIDE DEF j, qs
  <2>5. /\ j.queue = db.job[id].queue /\ j.name = db.job[id].name
        /\ j.state \in {"waiting", "delayed"}
    BY <2>2, <2>3
  <2> QED
    BY <1>1, <1>3, <1>4, <2>1, <2>3, <2>4, <2>5, EnterReplied
<1> QED
  BY <1>5, <1>6

LEMMA ExtendLocksIs ==
    ASSUME Right(redis), now \in Nat, NEW id \in JobIds, NEW token,
           NEW lockMs \in LockDurations, ExtendLocks(id, token, lockMs)
    PROVE  CalmStep
<1> DEFINE i == redis.job[id]  t == now + lockMs
           j == [i EXCEPT !.lockExpiresAt = t]
           d == Locked(redis, id, j, t)
<1>1. At(redis.job[id], "active") /\ i \in JobHash /\ redis \in Keys
  BY HeldIs DEF Right, ExtendLocks
<1>2. Reply(d, {}) /\ UNCHANGED lastToken
  <2>1. d = [redis EXCEPT !.job[id].lockExpiresAt = t, !.active = ZAdd(@, id, t)]
    BY <1>1 DEF Locked, Keys
  <2> HIDE DEF d
  <2> QED
    BY <2>1 DEF ExtendLocks
<1>3. t \in Nat
  BY ConstantsAssumption
<1> HIDE DEF t, d
<1>4. /\ j \in JobHash /\ j.state = "active" /\ j.lockExpiresAt = t
      /\ j.queue = i.queue /\ j.name = i.name /\ j.lockToken = i.lockToken
      /\ j.flow = i.flow
  <2>1. i.state = "active"
    BY <1>1 DEF At
  <2> HIDE DEF i
  <2> QED
    BY <1>1, <1>3, <2>1 DEF JobHash, Opt
<1> HIDE DEF j
<1>5. Right(d) /\ d.job[id] = j /\ OnlyAt(redis.job, d.job, id) /\ SameRest(redis, d)
  <2>1. NearlyRight(redis, id) /\ d = Locked(redis, id, j, t)
    BY DEF NearlyRight, d
  <2> QED
    BY <1>1, <1>3, <1>4, <2>1, PutActiveIs
<1>6. NoNewRows(redis, d)
  BY <1>5, SameFlowsNoNewRows DEF SameRest
<1>7. Calm(redis, d)
  <2> HIDE DEF i
  <2>1. i = redis.job[id]
    BY DEF i
  <2> QED
    BY <1>1, <1>4, <1>5, <1>6, <2>1 DEF Calm, OnlyAt
<1> QED
  BY <1>2, <1>5, <1>7, Replied

LEMMA RecoverStalledIs ==
    ASSUME Right(redis), now \in Nat, RecoverStalled PROVE CalmStep
<1> DEFINE expired == ZRangeByScore(redis.active, now)
           d == FoldSet(Recover, redis, expired)
           qs == IF \E id \in expired : Has(d, id) /\ d.job[id].state = "waiting"
                 THEN Queues ELSE {}
<1>1. Right(d) /\ Calm(redis, d)
  BY RecoverAllIs
<1>2. Reply(d, qs) /\ UNCHANGED lastToken
  BY DEF RecoverStalled
<1>3. qs \subseteq Queues
  OBVIOUS
<1> HIDE DEF d, qs
<1> QED
  BY <1>1, <1>2, <1>3, Replied

-----------------------------------------------------------------------------
(* The scripts of operators                                                *)

LEMMA RemoveIs ==
    ASSUME Right(redis), NEW id \in JobIds, Remove(id) PROVE CalmStep
<1> DEFINE d == DeleteJob(id, redis)
<1>1. redis.job[id] # None /\ Reply(d, {}) /\ UNCHANGED lastToken
  BY DEF Remove, Has
<1>2. Right(d) /\ OnlyAt(redis.job, d.job, id) /\ d.job[id] = None /\ NoNewRows(redis, d)
  BY <1>1, DeleteJobIs
<1> HIDE DEF d
<1>3. Calm(redis, d)
  BY <1>2, OneCalms DEF At
<1> QED
  BY <1>1, <1>2, <1>3, Replied

Retried(j, n, t) ==
    [j EXCEPT !.state = "waiting", !.attemptsMade = 0, !.stalledCount = 0,
              !.cancelRequested = FALSE, !.exit = FALSE, !.failedReason = FALSE,
              !.finishedAt = None, !.runAt = t, !.seq = n]

LEMMA RetriedIs ==
    ASSUME NEW j \in JobHash, NEW n \in Nat, NEW t \in Nat
    PROVE  /\ Retried(j, n, t) \in JobHash /\ Retried(j, n, t).state = "waiting"
           /\ Retried(j, n, t).queue = j.queue /\ Retried(j, n, t).name = j.name
<1> DEFINE i == [j EXCEPT !.state = "waiting", !.attemptsMade = 0, !.stalledCount = 0]
           k == [i EXCEPT !.cancelRequested = FALSE, !.exit = FALSE,
                          !.failedReason = FALSE]
           l == [k EXCEPT !.finishedAt = None]
           m == [l EXCEPT !.runAt = t, !.seq = n]
<1>1. Retried(j, n, t) = m
  BY DEF Retried
<1>2. i \in JobHash /\ i.state = "waiting" /\ i.queue = j.queue /\ i.name = j.name
  BY DEF JobHash, JobStates
<1> HIDE DEF i
<1>3. k \in JobHash /\ k.state = i.state /\ k.queue = i.queue /\ k.name = i.name
  BY <1>2 DEF JobHash
<1> HIDE DEF k
<1>4. l \in JobHash /\ l.state = k.state /\ l.queue = k.queue /\ l.name = k.name
  <2>1. None \in Opt(Nat)
    BY DEF Opt
  <2> QED
    BY <1>3, <2>1 DEF JobHash
<1> HIDE DEF l
<1>5. m \in JobHash /\ m.state = l.state /\ m.queue = l.queue /\ m.name = l.name
  BY <1>4 DEF JobHash
<1> HIDE DEF m
<1> QED
  BY <1>1, <1>2, <1>3, <1>4, <1>5

LEMMA RetryIs ==
    ASSUME Right(redis), now \in Nat, NEW id \in JobIds, Retry(id) PROVE CalmStep
<1> DEFINE i == redis.job[id]  name == i.name  db == Unfailed(redis, id, name)
           n == db.seq  j == Retried(i, n, now)  d == Enter(db, id, j)
           qs == {i.queue}
<1>1. Reply(d, qs) /\ UNCHANGED lastToken /\ redis.job[id] # None
      /\ At(redis.job[id], "failed")
  BY DEF Retry, Unfailed, Retried, Has, At
<1>2. i \in JobHash /\ redis \in Keys
  BY <1>1, HashOf DEF Right
<1>3. RightBut(db, id) /\ db.job = redis.job /\ SameRest(redis, db)
  <2>1. name = redis.job[id].name /\ db = Unfailed(redis, id, name)
    OBVIOUS
  <2> HIDE DEF db, name
  <2> QED
    BY <1>1, <2>1, LeaveFailedIs
<1>4. n \in Nat
  BY <1>3, KeysAre DEF RightBut
<1>5. qs \subseteq Queues
  BY <1>2, JobIs
<1>6. d = Enter(db, id, j) /\ i = redis.job[id]
  OBVIOUS
<1> HIDE DEF d, qs, n, db, i
<1>7. j \in JobHash /\ j.state = "waiting" /\ j.queue = i.queue /\ j.name = i.name
  BY <1>2, <1>4, RetriedIs
<1> HIDE DEF j
<1>8. /\ j.queue = db.job[id].queue /\ j.name = db.job[id].name
      /\ j.state \in {"waiting", "delayed"} /\ db.job[id] # None
      /\ OnlyAt(redis.job, db.job, id)
  BY <1>1, <1>3, <1>6, <1>7 DEF OnlyAt
<1>9. NoNewRows(redis, db)
  BY <1>3, SameFlowsNoNewRows DEF SameRest
<1> QED
  BY <1>1, <1>3, <1>5, <1>6, <1>7, <1>8, <1>9, EnterReplied

Hastened(j, t) == [j EXCEPT !.state = "waiting", !.runAt = t]

LEMMA HastenedIs ==
    ASSUME NEW j \in JobHash, NEW t \in Nat
    PROVE  /\ Hastened(j, t) \in JobHash /\ Hastened(j, t).state = "waiting"
           /\ Hastened(j, t).queue = j.queue /\ Hastened(j, t).name = j.name
BY DEF Hastened, JobHash, JobStates

LEMMA PromoteIs ==
    ASSUME Right(redis), now \in Nat, NEW id \in JobIds, Promote(id) PROVE CalmStep
<1> DEFINE i == redis.job[id]  q == i.queue  db == Undue(redis, q, id)
           j == Hastened(i, now)  d == Enter(db, id, j)
           qs == {q}
<1>1. Reply(d, qs) /\ UNCHANGED lastToken /\ redis.job[id] # None
      /\ At(redis.job[id], "delayed")
  BY DEF Promote, Undue, Hastened, Has, At
<1>2. i \in JobHash /\ redis \in Keys
  BY <1>1, HashOf DEF Right
<1>3. RightBut(db, id) /\ db.job = redis.job /\ SameRest(redis, db)
  <2>1. q = redis.job[id].queue /\ db = Undue(redis, q, id)
    OBVIOUS
  <2> HIDE DEF db, q
  <2> QED
    BY <1>1, <2>1, UndueIs
<1>5. qs \subseteq Queues
  BY <1>2, JobIs
<1>6. d = Enter(db, id, j) /\ i = redis.job[id]
  OBVIOUS
<1> HIDE DEF d, qs, db, i
<1>7. j \in JobHash /\ j.state = "waiting" /\ j.queue = i.queue /\ j.name = i.name
  BY <1>2, HastenedIs
<1> HIDE DEF j
<1>8. /\ j.queue = db.job[id].queue /\ j.name = db.job[id].name
      /\ j.state \in {"waiting", "delayed"} /\ db.job[id] # None
      /\ OnlyAt(redis.job, db.job, id)
  BY <1>1, <1>3, <1>6, <1>7 DEF OnlyAt
<1>9. NoNewRows(redis, db)
  BY <1>3, SameFlowsNoNewRows DEF SameRest
<1> QED
  BY <1>1, <1>3, <1>5, <1>6, <1>7, <1>8, <1>9, EnterReplied

LEMMA PausedIs ==
    ASSUME Right(redis), NEW queues \in SUBSET Queues,
           NEW d, d = [redis EXCEPT !.paused = queues]
    PROVE  Right(d) /\ Calm(redis, d)
<1>1. redis \in Keys
  BY DEF Right
<1>2. d \in Keys
  BY <1>1 DEF Keys
<1>3. SameJobs(redis, d) /\ SameFlows(redis, d) /\ SameDedupes(redis, d)
  BY <1>1 DEF Keys, SameJobs, SamePlaces, SameLists, SameFlows, SameDedupes
<1>4. Right(d)
  BY <1>2, <1>3, RestChanged
<1>5. d.job = redis.job
  BY <1>3 DEF SameJobs
<1> QED
  BY <1>3, <1>4, <1>5, SameCalms, SameFlowsNoNewRows

LEMMA PauseIs ==
    ASSUME Right(redis), NEW queue \in Queues, Pause(queue) PROVE CalmStep
<1> DEFINE queues == redis.paused \cup {queue}  d == [redis EXCEPT !.paused = queues]
<1>1. queues \in SUBSET Queues
  BY KeysAre DEF Right
<1>2. Reply(d, {}) /\ UNCHANGED lastToken
  BY DEF Pause
<1> HIDE DEF queues
<1>3. Right(d) /\ Calm(redis, d)
  BY <1>1, PausedIs
<1> HIDE DEF d
<1> QED
  BY <1>2, <1>3, Replied

LEMMA ResumeIs ==
    ASSUME Right(redis), NEW queue \in Queues, Resume(queue) PROVE CalmStep
<1> DEFINE queues == redis.paused \ {queue}  d == [redis EXCEPT !.paused = queues]
           qs == {queue}
<1>1. queues \in SUBSET Queues /\ qs \subseteq Queues
  BY KeysAre DEF Right
<1>2. Reply(d, qs) /\ UNCHANGED lastToken
  BY DEF Resume
<1> HIDE DEF queues, qs
<1>3. Right(d) /\ Calm(redis, d)
  BY <1>1, PausedIs
<1> HIDE DEF d
<1> QED
  BY <1>1, <1>2, <1>3, Replied

LEMMA DeleteOutboxIs ==
    ASSUME Right(redis), NEW entries, DeleteOutbox(entries) PROVE CalmStep
<1> DEFINE o == redis.outbox \ entries  d == [redis EXCEPT !.outbox = o]
<1>1. redis \in Keys /\ o \in SUBSET OutboxEntry
  BY KeysAre DEF Right
<1>2. Reply(d, {}) /\ UNCHANGED lastToken
  BY DEF DeleteOutbox
<1> HIDE DEF o
<1>3. d \in Keys
  BY <1>1 DEF Keys
<1>4. SameJobs(redis, d) /\ SameFlows(redis, d) /\ SameDedupes(redis, d)
  BY <1>1 DEF Keys, SameJobs, SamePlaces, SameLists, SameFlows, SameDedupes
<1> HIDE DEF d
<1>5. Right(d)
  BY <1>3, <1>4, RestChanged
<1>6. d.job = redis.job
  BY <1>4 DEF SameJobs
<1>7. Calm(redis, d)
  BY <1>4, <1>6, SameCalms, SameFlowsNoNewRows
<1> QED
  BY <1>2, <1>5, <1>7, Replied

LEMMA CancelIs ==
    ASSUME Right(redis), now \in Nat, NEW id \in JobIds, Cancel(id) PROVE CalmStep
<1> DEFINE i == redis.job[id]  q == i.queue
           settled == IF i.state = "waiting-children" THEN SettleMarkRows(redis, id)
                      ELSE redis
           db == OffQueue(settled, id, q)
           j == [i EXCEPT !.cancelRequested = TRUE]
           d == IF i.state = "active" THEN WithJob(redis, id, j)
                ELSE FinishAndKeep(db, id, db.job[id], "cancelled", now)
<1>1. redis \in Keys /\ i # None /\ i.state \notin TerminalStates
  BY DEF Right, Cancel, Has
<1>2. i \in JobHash
  BY <1>1, HashOf
<1>3. Reply(d, {}) /\ UNCHANGED lastToken
  <2>1. WithJob(redis, id, j) = [redis EXCEPT !.job[id].cancelRequested = TRUE]
    BY <1>1 DEF WithJob, Keys
  <2> HIDE DEF j
  <2> QED
    BY <2>1 DEF Cancel, OffQueue
<1>4. CASE i.state = "active"
  <2>1. j \in JobHash /\ SameHold(i, j)
    <3> HIDE DEF i
    <3> QED
      BY <1>2 DEF JobHash, SameHold, SameLook
  <2>2. d = WithJob(redis, id, j)
    BY <1>4
  <2> HIDE DEF d, j
  <2>3. SameHold(redis.job[id], j) /\ redis.job[id] # None
    BY <1>1, <2>1
  <2> HIDE DEF i
  <2>4. Right(d) /\ Calm(redis, d)
    BY <2>1, <2>2, <2>3, WithJobIs
  <2> QED
    BY <1>3, <2>4, Replied
<1>5. CASE i.state # "active"
  <2>1. /\ Right(settled) /\ OnlyAt(redis.job, settled.job, id)
        /\ NoNewRows(redis, settled) /\ settled.job[id] \in JobHash
        /\ SameLook(i, settled.job[id])
    <3>1. CASE i.state = "waiting-children"
      <4>1. settled = SettleMarkRows(redis, id) /\ NearlyRight(redis, id)
        BY <3>1 DEF NearlyRight
      <4> HIDE DEF settled
      <4> QED
        BY <1>1, <4>1, SettledIs
    <3>2. CASE i.state # "waiting-children"
      <4>1. settled = redis
        BY <3>2
      <4> QED
        BY <1>2, <4>1 DEF OnlyAt, NoNewRows, SameLook
    <3> QED
      BY <3>1, <3>2
  <2>2. /\ settled.job[id] # None /\ q = settled.job[id].queue
        /\ settled.job[id].state \in {"waiting", "delayed", "waiting-children"}
    <3>1. i.state \in {"waiting", "delayed", "waiting-children"}
      BY <1>1, <1>2, <1>5, JobIs DEF JobStates
    <3>2. settled.job[id].state = i.state /\ settled.job[id].queue = i.queue
      BY <2>1 DEF SameLook
    <3> QED
      BY <2>1, <3>1, <3>2, JobIs
  <2>3. db = OffQueue(settled, id, q)
    OBVIOUS
  <2>4. d = FinishAndKeep(db, id, db.job[id], "cancelled", now)
    BY <1>5
  <2> HIDE DEF d, db, settled, q
  <2>5. RightBut(db, id) /\ db.job = settled.job /\ SameRest(settled, db)
    BY <2>1, <2>2, <2>3, LeaveQueueIs
  <2>6. NoNewRows(redis, db)
    BY <2>1, <2>5 DEF NoNewRows, SameRest, SameFlows
  <2> DEFINE k == db.job[id]
  <2>7. /\ k \in JobHash /\ db.job[id] # None /\ k.queue = db.job[id].queue
        /\ k.name = db.job[id].name /\ OnlyAt(redis.job, db.job, id)
        /\ d = FinishAndKeep(db, id, k, "cancelled", now)
        /\ "cancelled" \in TerminalStates
    BY <2>1, <2>2, <2>4, <2>5 DEF TerminalStates, OnlyAt
  <2> HIDE DEF k
  <2> QED
    BY <1>3, <2>5, <2>6, <2>7, FinishReplied
<1> QED
  BY <1>4, <1>5

-----------------------------------------------------------------------------
(* The scripts of the flow runtime                                         *)

LEMMA RowsReplied ==
    ASSUME NEW d, Right(d), d.job = redis.job, NoNewRows(redis, d), Reply(d, {}),
           UNCHANGED lastToken
    PROVE  CalmStep
<1> DEFINE qs == {}
<1>1. Calm(redis, d)
  BY SameCalms
<1>2. Reply(d, qs) /\ qs \subseteq Queues
  OBVIOUS
<1> HIDE DEF qs
<1> QED
  BY <1>1, <1>2, Replied

LEMMA FlowSweepWorkIs ==
    ASSUME Right(redis), now \in Nat, NEW page, FlowSweepWork(page) PROVE CalmStep
<1> DEFINE d == FoldSet(SweepMember, redis, page)  z == redis.flowpending
<1>1. Reply(d, {}) /\ UNCHANGED lastToken /\ DuePage(page)
  BY DEF FlowSweepWork
<1>2. z \in Zset(Rows, Nat)
  BY KeysAre DEF Right
<1>3. DOMAIN z \subseteq Rows /\ \A m \in DOMAIN z : z[m] \in Nat
  <2> HIDE DEF z
  <2>1. DOMAIN z \subseteq Rows /\ z \in [DOMAIN z -> Nat]
    BY <1>2, ZsetIs
  <2> QED
    BY <2>1
<1>4. \A m \in page : m \in DOMAIN z /\ z[m] <= now - PendingAgeMs
  BY <1>1 DEF DuePage, ZRangeByScore, Members
<1>5. \A m \in page : m \in DOMAIN z /\ z[m] <= now
  <2>1. PendingAgeMs \in Nat
    BY ConstantsAssumption
  <2> HIDE DEF z
  <2> QED
    BY <1>3, <1>4, <2>1
<1>6. page \in SUBSET Rows
  BY <1>3, <1>5
<1>7. Right(d) /\ d.job = redis.job /\ NoNewRows(redis, d)
  BY <1>5, <1>6, SweepWorkIs
<1> HIDE DEF d
<1> QED
  BY <1>1, <1>7, RowsReplied

LEMMA MarkChildrenCascadedIs ==
    ASSUME Right(redis), NEW flowId, NEW keys, MarkChildrenCascaded(flowId, keys)
    PROVE  CalmStep
<1> DEFINE rows == RowKeys(flowId, keys)  d == TellRows(redis, rows)
<1>1. Reply(d, {}) /\ UNCHANGED lastToken
  <2> HIDE DEF rows
  <2>1. d = [redis EXCEPT
                 !.flowchild = [r \in DOMAIN @ |->
                     IF r \in rows /\ @[r] # None
                     THEN [@[r] EXCEPT !.cascaded = TRUE] ELSE @[r]],
                 !.flowcascade = @ \ rows]
    BY DEF TellRows, Told
  <2> HIDE DEF d
  <2> QED
    BY <2>1 DEF MarkChildrenCascaded, rows
<1>2. Right(d) /\ d.job = redis.job /\ NoNewRows(redis, d)
  <2>1. d = TellRows(redis, rows)
    OBVIOUS
  <2> HIDE DEF rows, d
  <2> QED
    BY <2>1, TellRowsIs
<1> HIDE DEF d
<1> QED
  BY <1>1, <1>2, RowsReplied

\* The manifest with some of its children reported.
Counted(db, id, reports) ==
    IF db.job[id] # None /\ db.job[id].flow # None
    THEN WithJob(db, id, WithFlow(db.job[id], CountReports(db.job[id].flow, reports)))
    ELSE db

LEMMA CountedIs ==
    ASSUME NEW db, Right(db), NEW id \in JobIds, NEW reports,
           IsFiniteSet(DOMAIN reports), NEW d, d = Counted(db, id, reports)
    PROVE  /\ Right(d) /\ OnlyAt(db.job, d.job, id) /\ NoNewRows(db, d)
           /\ Calm(db, d) /\ SameFlows(db, d)
<1>1. CASE db.job[id] # None /\ db.job[id].flow # None
  <2> DEFINE i == db.job[id]  f == CountReports(i.flow, reports)  j == WithFlow(i, f)
  <2>1. i \in JobHash /\ i.flow \in Mem!FlowState
    <3>1. i \in JobHash
      BY <1>1, HashOf DEF Right
    <3> HIDE DEF i
    <3>2. i.flow \in Opt(Mem!FlowState)
      BY <3>1 DEF JobHash
    <3>3. i.flow # None
      BY <1>1 DEF i
    <3> QED
      BY <3>1, <3>2, <3>3 DEF Opt
  <2>2. f \in Mem!FlowState
    BY <2>1, CountReportsIs
  <2>3. d = WithJob(db, id, j)
    BY <1>1 DEF Counted
  <2> HIDE DEF f
  <2>4. f \in Opt(Mem!FlowState) /\ f # None
    BY <2>2, NoneAssumption DEF Opt
  <2>5. j \in JobHash /\ SameLook(i, j) /\ j.flow = f /\ j.lockToken = i.lockToken
    BY <2>1, <2>4, WithFlowIs
  <2> HIDE DEF j
  <2>6. SameHold(i, j)
    BY <2>4, <2>5 DEF SameHold
  <2>7. /\ Right(d) /\ OnlyAt(db.job, d.job, id) /\ SameFlows(db, d) /\ Calm(db, d)
    BY <1>1, <2>3, <2>5, <2>6, WithJobIs
  <2> QED
    BY <2>7, SameFlowsNoNewRows
<1>2. CASE ~ (db.job[id] # None /\ db.job[id].flow # None)
  <2>1. d = db
    BY <1>2 DEF Counted
  <2>2. OnlyAt(db.job, db.job, id) /\ NoNewRows(db, db) /\ SameFlows(db, db)
    BY DEF OnlyAt, NoNewRows, SameFlows
  <2> QED
    BY <2>1, <2>2, SameCalms
<1> QED
  BY <1>1, <1>2

Resumed(j, t, n) == [j EXCEPT !.state = "waiting", !.runAt = t, !.seq = n]

LEMMA ResumedIs ==
    ASSUME NEW j \in JobHash, NEW n \in Nat, NEW t \in Nat
    PROVE  /\ Resumed(j, t, n) \in JobHash /\ Resumed(j, t, n).state = "waiting"
           /\ Resumed(j, t, n).queue = j.queue /\ Resumed(j, t, n).name = j.name
<1>1. "waiting" \in JobStates
  BY DEF JobStates
<1> QED
  BY <1>1 DEF Resumed, JobHash

\* What a report does to the job of a flow.
FlowFails(db, id) ==
    LET settled == SettleMarkRows(db, id)
    IN  FinishAndKeep(settled, id, [settled.job[id] EXCEPT !.failedReason = TRUE],
                      "failed", now)
FlowResumes(db, id) ==
    Enter([db EXCEPT !.seq = @ + 1], id, Resumed(db.job[id], now, db.seq + 1))

LEMMA FlowFailsIs ==
    ASSUME NEW db, Right(db), NEW id \in JobIds, At(db.job[id], "waiting-children"),
           now \in Nat, OnlyAt(redis.job, db.job, id), NoNewRows(redis, db),
           Reply(FlowFails(db, id), {}), UNCHANGED lastToken
    PROVE  CalmStep
<1> DEFINE e == SettleMarkRows(db, id)  i == e.job[id]
           j == [i EXCEPT !.failedReason = TRUE]
           d == FinishAndKeep(e, id, j, "failed", now)
<1>1. Reply(d, {})
  BY DEF FlowFails
<1>2. /\ Right(e) /\ NoNewRows(db, e) /\ OnlyAt(db.job, e.job, id)
      /\ i \in JobHash /\ SameLook(db.job[id], i)
  <2>1. NearlyRight(db, id) /\ db.job[id] # None
    BY DEF NearlyRight, At
  <2> HIDE DEF e
  <2>2. e = SettleMarkRows(db, id)
    BY DEF e
  <2> QED
    BY <2>1, <2>2, SettledIs
<1> HIDE DEF e
<1>3. At(e.job[id], "waiting-children") /\ e.job[id] # None
  BY <1>2, JobIs DEF At, SameLook
<1>4. RightBut(e, id)
  BY <1>2, <1>3, ParkedIs
<1>5. j \in JobHash /\ j.queue = i.queue /\ j.name = i.name
  <2> HIDE DEF i
  <2> QED
    BY <1>2 DEF JobHash
<1> HIDE DEF j
<1>6. d = FinishAndKeep(e, id, j, "failed", now) /\ "failed" \in TerminalStates
  BY DEF TerminalStates
<1> HIDE DEF d
<1>7. OnlyAt(redis.job, e.job, id) /\ NoNewRows(redis, e)
  BY <1>2 DEF OnlyAt, NoNewRows
<1> QED
  BY <1>1, <1>3, <1>4, <1>5, <1>6, <1>7, FinishReplied

LEMMA FlowResumesIs ==
    ASSUME NEW db, Right(db), NEW id \in JobIds, At(db.job[id], "waiting-children"),
           now \in Nat, OnlyAt(redis.job, db.job, id), NoNewRows(redis, db),
           NEW qs, qs \subseteq Queues, Reply(FlowResumes(db, id), qs),
           UNCHANGED lastToken
    PROVE  CalmStep
<1> DEFINE e == [db EXCEPT !.seq = @ + 1]  i == db.job[id]  n == db.seq + 1
           j == Resumed(i, now, n)  d == Enter(e, id, j)
<1>1. Reply(d, qs)
  BY DEF FlowResumes
<1>2. i \in JobHash /\ n \in Nat /\ db \in Keys
  BY HashOf, KeysAre DEF Right, At
<1>3. RightBut(db, id)
  BY ParkedIs
<1>4. RightBut(e, id) /\ e.job = db.job /\ SameFlows(db, e)
  <2> HIDE DEF e
  <2>1. e = [db EXCEPT !.seq = @ + 1]
    BY DEF e
  <2> QED
    BY <1>2, <1>3, <2>1, SeqIs
<1>5. d = Enter(e, id, j) /\ i = e.job[id] /\ e.job[id] # None
  BY <1>4 DEF At
<1> HIDE DEF d, e, i, n
<1>6. j \in JobHash /\ j.state = "waiting" /\ j.queue = i.queue /\ j.name = i.name
  BY <1>2, ResumedIs
<1> HIDE DEF j
<1>7. /\ j.queue = e.job[id].queue /\ j.name = e.job[id].name
      /\ j.state \in {"waiting", "delayed"}
  BY <1>5, <1>6
<1>8. OnlyAt(redis.job, e.job, id)
  BY <1>4 DEF OnlyAt
<1>9. NoNewRows(redis, e)
  BY <1>4 DEF NoNewRows, SameFlows
<1> QED
  BY <1>1, <1>4, <1>5, <1>6, <1>7, <1>8, <1>9, EnterReplied

LEMMA RecordChildResultsIs ==
    ASSUME Right(redis), now \in Nat, NEW id \in JobIds,
           NEW keys \in SUBSET ChildKeys, NEW reports \in [keys -> TerminalStates],
           RecordChildResults(id, reports)
    PROVE  CalmStep
<1> DEFINE applied == {k \in DOMAIN reports : <<id, k>> \in PendingRows(redis, id)}
           R == RowKeys(id, applied)  taken == Restrict(reports, applied)
           rows == ReportRows(redis, R, reports)
           db == Counted(rows, id, taken)
           i == db.job[id]
           parked == HasManifest(db, id) /\ i.state = "waiting-children"
           qs == {i.queue}
<1>1. redis \in Keys /\ FlowsRight(redis)
  BY DEF Right
<1>2. /\ applied \in SUBSET ChildKeys
      /\ \A k \in applied : /\ redis.flowchild[<<id, k>>] # None
                            /\ redis.flowchild[<<id, k>>].status = "pending"
                            /\ reports[k] \in TerminalStates
  <2>1. \A k \in applied : k \in ChildKeys /\ <<id, k>> \in PendingRows(redis, id)
                           /\ reports[k] \in TerminalStates
    OBVIOUS
  <2> HIDE DEF applied
  <2>2. ASSUME NEW k \in applied
        PROVE  /\ redis.flowchild[<<id, k>>] # None
               /\ redis.flowchild[<<id, k>>].status = "pending"
    <3>1. k \in ChildKeys /\ <<id, k>> \in PendingRows(redis, id)
      BY <2>1
    <3> QED
      BY <1>1, <3>1, PendingRowsAre
  <2>3. applied \subseteq ChildKeys
    BY <2>1
  <2> QED
    BY <2>1, <2>2, <2>3
<1>3. IsFiniteSet(DOMAIN taken)
  <2>1. DOMAIN taken \subseteq ChildKeys
    BY DEF Restrict
  <2> HIDE DEF taken
  <2> QED
    BY <2>1, FS_Subset, ConstantsAssumption
<1>4. rows.job = redis.job
  <2> HIDE DEF R
  <2> QED
    BY <1>1 DEF ReportRows, Keys
<1>5. /\ \/ /\ parked /\ Reply(FlowFails(db, id), {})
         \/ /\ parked /\ Reply(FlowResumes(db, id), qs)
         \/ Reply(db, {})
      /\ UNCHANGED lastToken
  <2> DEFINE rows0 == [redis EXCEPT
                 !.flowchild = [r \in DOMAIN @ |->
                    IF r \in R THEN [@[r] EXCEPT !.status = reports[r[2]], !.cascaded = TRUE]
                    ELSE @[r]],
                 !.flowpending = ZRem(@, R)]
             db0 == IF ~HasManifest(redis, id) THEN rows0
                    ELSE [rows0 EXCEPT !.job[id].flow = CountReports(@, taken)]
  <2>1. rows0 = rows
    BY DEF ReportRows, Reported
  <2>2. db0 = db
    <3> HIDE DEF rows, rows0, taken
    <3>1. HasManifest(redis, id) <=> rows.job[id] # None /\ rows.job[id].flow # None
      BY <1>4 DEF HasManifest, Has
    <3>2. WithJob(rows, id, WithFlow(rows.job[id], CountReports(rows.job[id].flow, taken)))
            = [rows EXCEPT !.job[id].flow = CountReports(@, taken)]
      BY DEF WithJob, WithFlow
    <3> QED
      BY <2>1, <3>1, <3>2 DEF Counted
  <2> DEFINE j0 == db0.job[id]
             parked0 == HasManifest(db0, id) /\ j0.state = "waiting-children"
             fails == /\ parked0 /\ j0.flow.failFast
                      /\ \E k \in applied : reports[k] = "failed"
  <2>3. /\ \/ /\ fails
              /\ Reply(FlowFails(db0, id), {})
           \/ /\ parked0 /\ ~fails /\ j0.flow.pending = 0
              /\ db0.seq < scenario.seq
              /\ Reply(FlowResumes(db0, id), {j0.queue})
           \/ /\ parked0 => ~fails /\ j0.flow.pending > 0
              /\ Reply(db0, {})
        /\ UNCHANGED lastToken
    BY Zenon DEF RecordChildResults, FlowFails, FlowResumes, Resumed
  <2> HIDE DEF db0, db
  <2> QED
    BY <2>2, <2>3
<1>6. Right(rows) /\ rows.job = redis.job /\ NoNewRows(redis, rows)
  <2>1. R \in SUBSET Rows
    <3> HIDE DEF applied
    <3>1. applied \in SUBSET ChildKeys
      BY <1>2
    <3> QED
      BY <3>1, RowKeysAre
  <2>2. \A r \in R : /\ redis.flowchild[r] # None
                     /\ redis.flowchild[r].status = "pending"
                     /\ reports[r[2]] \in TerminalStates
    <3> HIDE DEF applied
    <3> QED
      BY <1>2 DEF RowKeys
  <2>3. rows = ReportRows(redis, R, reports)
    OBVIOUS
  <2> HIDE DEF R, rows, applied
  <2> QED
    BY <2>1, <2>2, <2>3, ReportRowsIs
<1> HIDE DEF rows, taken, R, applied
<1>7. /\ Right(db) /\ OnlyAt(rows.job, db.job, id) /\ NoNewRows(rows, db)
      /\ Calm(rows, db)
  BY <1>3, <1>6, CountedIs
<1> HIDE DEF db
<1>8. OnlyAt(redis.job, db.job, id) /\ NoNewRows(redis, db)
  BY <1>6, <1>7 DEF OnlyAt, NoNewRows
<1>9. parked => At(db.job[id], "waiting-children")
  BY DEF HasManifest, Has, At
<1>10. CASE parked /\ Reply(FlowFails(db, id), {})
  BY <1>5, <1>7, <1>8, <1>9, <1>10, FlowFailsIs
<1>11. CASE parked /\ Reply(FlowResumes(db, id), qs)
  <2>1. qs \subseteq Queues
    <3>1. i \in JobHash
      BY <1>7, <1>9, <1>11, HashOf DEF Right, At
    <3> QED
      BY <3>1, JobIs
  <2>2. Reply(FlowResumes(db, id), qs) /\ At(db.job[id], "waiting-children")
    BY <1>9, <1>11
  <2> HIDE DEF qs
  <2> QED
    BY <1>5, <1>7, <1>8, <2>1, <2>2, FlowResumesIs
<1>12. CASE Reply(db, {})
  <2>1. Calm(redis, db)
    BY <1>6, <1>7, SameCalms, CalmTwice
  <2> DEFINE none == {}
  <2>2. Reply(db, none) /\ none \subseteq Queues
    BY <1>12
  <2> HIDE DEF none
  <2> QED
    BY <1>5, <1>7, <2>1, <2>2, Replied
<1> QED
  BY <1>5, <1>10, <1>11, <1>12

-----------------------------------------------------------------------------
(* The history sweep                                                       *)

LEMMA SweepIs ==
    ASSUME KeysInv, sweep # None
    PROVE  /\ sweep \in Sweep /\ sweep.at \in Nat /\ sweep.offset \in Nat
           /\ sweep.state \in TerminalStates \cup {"dedupes"}
<1>1. sweep \in Sweep
  BY DEF KeysInv, Typed, Opt
<1> QED
  BY <1>1 DEF Sweep, TerminalStates

\* A script of the sweep: the driver's cursor moves.
LEMMA SweepSteps ==
    ASSUME KeysInv, NEW d, redis' = d, Right(d), Calm(redis, d),
           NEW s, sweep' = s, s \in Opt(Sweep),
           UNCHANGED <<now, lastToken, fanOuts, wake, scenario>>
    PROVE  KeysInv'
<1>1. RestIsNew(d, fanOuts, lastToken)
  BY CalmKeepsRest, AcksAre DEF KeysInv
<1>2. Typed'
  BY DEF KeysInv, Typed
<1> QED
  BY <1>1, <1>2 DEF KeysInv

LEMMA SweepBeginIs == ASSUME KeysInv, SweepBegin PROVE KeysInv'
<1> DEFINE s == [at |-> now, state |-> "completed", offset |-> 0]
<1>1. s \in Sweep
  BY DEF KeysInv, Typed, Sweep
<1> HIDE DEF s
<1>2. s \in Opt(Sweep) /\ sweep' = s /\ redis' = redis
      /\ UNCHANGED <<now, lastToken, fanOuts, wake, scenario>>
  BY <1>1 DEF SweepBegin, Opt, s
<1>3. Calm(redis, redis)
  BY SameCalms DEF NoNewRows
<1> QED
  BY <1>2, <1>3, SweepSteps DEF KeysInv

LEMMA SweepStateIs == ASSUME KeysInv, SweepState PROVE KeysInv'
<1> DEFINE batch == Page(redis.finished[sweep.state], sweep.at, sweep.offset, PageSize)
           victims == SweepVictims(redis, batch, sweep.at)
           d == DeleteJobs(redis, victims)
           on == sweep.offset + Cardinality(batch) - Cardinality(victims)
           s == IF Cardinality(batch) < PageSize
                THEN [sweep EXCEPT !.state = NextState(@), !.offset = 0]
                ELSE [sweep EXCEPT !.offset = on]
<1>1. /\ redis' = d /\ sweep' = s /\ UNCHANGED <<now, lastToken, fanOuts, wake, scenario>>
      /\ sweep # None /\ sweep.state # "dedupes"
  <2>1. on = sweep.offset + Cardinality(batch) - Cardinality(victims)
    OBVIOUS
  <2> QED
    BY DEF SweepState
<1>2. /\ sweep \in Sweep /\ sweep.at \in Nat /\ sweep.offset \in Nat
      /\ sweep.state \in TerminalStates /\ Right(redis)
  BY <1>1, SweepIs DEF KeysInv
<1>3. /\ batch \subseteq DOMAIN redis.finished[sweep.state] /\ victims \subseteq batch
  BY DEF Page, ZRangeByScore, Members, SweepVictims
<1>4. \A x \in batch : x \in JobIds /\ redis.job[x] # None
  BY <1>2, <1>3, HistoryIs DEF At
<1> HIDE DEF batch, victims
<1>5. batch \in SUBSET JobIds /\ victims \in SUBSET JobIds
      /\ \A x \in victims : redis.job[x] # None
  BY <1>3, <1>4
<1>6. Deleted(redis, d, victims)
  BY <1>2, <1>5, DeleteJobsIs
<1> HIDE DEF d
<1>7. Right(d) /\ Calm(redis, d)
  BY <1>6, DeletedCalms DEF Deleted
<1>8. on \in Nat
  <2>1. IsFiniteSet(batch)
    BY <1>5, FS_Subset, ConstantsAssumption
  <2>2. /\ Cardinality(batch) \in Nat /\ Cardinality(victims) \in Nat
        /\ Cardinality(victims) <= Cardinality(batch)
    BY <1>3, <2>1, FS_Subset, FS_CardinalityType
  <2> QED
    BY <1>2, <2>2
<1> HIDE DEF on
<1>9. s \in Opt(Sweep)
  <2> DEFINE n == NextState(sweep.state)
  <2>1. n \in {"completed", "failed", "cancelled", "dedupes"}
    BY <1>2 DEF NextState, TerminalStates
  <2>2. s = IF Cardinality(batch) < PageSize
            THEN [sweep EXCEPT !.state = n, !.offset = 0]
            ELSE [sweep EXCEPT !.offset = on]
    OBVIOUS
  <2> HIDE DEF n, s
  <2>3. s \in Sweep
    BY <1>2, <1>8, <2>1, <2>2 DEF Sweep
  <2> QED
    BY <2>3 DEF Opt
<1> HIDE DEF s
<1> QED
  BY <1>1, <1>7, <1>9, SweepSteps

LEMMA SweepDedupesIs == ASSUME KeysInv, SweepDedupes PROVE KeysInv'
<1> DEFINE dead == DeadKeys(redis, sweep.at)  d == Freed(redis, dead)
<1>1. redis' = d /\ sweep' = None /\ UNCHANGED <<now, lastToken, fanOuts, wake, scenario>>
  BY DEF SweepDedupes, Freed
<1>2. Right(d) /\ d.job = redis.job /\ SameFlows(redis, d)
  BY FreedIs DEF KeysInv
<1>3. Calm(redis, d)
  BY <1>2, SameCalms, SameFlowsNoNewRows
<1>4. None \in Opt(Sweep)
  BY DEF Opt
<1> HIDE DEF d
<1> QED
  BY <1>1, <1>2, <1>3, <1>4, SweepSteps

LEMMA TickIs == ASSUME KeysInv, Tick PROVE KeysInv'
<1>1. redis' = redis /\ now' = now + 1 /\ wake' = {}
      /\ UNCHANGED <<lastToken, fanOuts, sweep, scenario>>
  BY DEF Tick
<1>2. Typed'
  BY <1>1 DEF KeysInv, Typed
<1> QED
  BY <1>1, <1>2 DEF KeysInv

-----------------------------------------------------------------------------
(* The fan-out ack                                                         *)

Manifest(failFast, total) ==
    [failFast |-> failFast, pending |-> total, completed |-> 0, failed |-> 0,
     cancelled |-> 0]
FannedOut(j, failFast, total) ==
    AppendAttempt([j EXCEPT !.flow = IF @ # None THEN @ ELSE Manifest(failFast, total)],
                  "fanned-out")

LEMMA FannedOutIs ==
    ASSUME NEW j \in JobHash, NEW failFast \in BOOLEAN, NEW total \in Nat
    PROVE  /\ FannedOut(j, failFast, total) \in JobHash
           /\ SameLook(j, FannedOut(j, failFast, total))
           /\ FannedOut(j, failFast, total).flow # None
<1> DEFINE f == IF j.flow # None THEN j.flow ELSE Manifest(failFast, total)
           i == WithFlow(j, f)
           a == Append(i.attempts, "fanned-out")
           k == [i EXCEPT !.attempts = a]
<1>1. f \in Opt(Mem!FlowState) /\ f # None
  <2>1. Manifest(failFast, total) \in Mem!FlowState
    BY DEF Manifest, Mem!FlowState
  <2>2. j.flow \in Opt(Mem!FlowState)
    BY DEF JobHash
  <2> QED
    BY <2>1, <2>2, NoneAssumption DEF Opt
<1>2. FannedOut(j, failFast, total) = k
  BY DEF FannedOut, AppendAttempt, WithFlow
<1> HIDE DEF f
<1>3. i \in JobHash /\ SameLook(j, i) /\ i.flow = f
  BY <1>1, WithFlowIs
<1> HIDE DEF i
<1>4. a \in Seq(Mem!AttemptOutcomes)
  <2>1. i.attempts \in Seq(Mem!AttemptOutcomes)
    BY <1>3 DEF JobHash
  <2>2. "fanned-out" \in Mem!AttemptOutcomes
    BY DEF Mem!AttemptOutcomes
  <2> QED
    BY <2>1, <2>2
<1> HIDE DEF a
<1>5. k \in JobHash /\ SameLook(i, k) /\ k.flow = i.flow
  BY <1>3, <1>4 DEF JobHash, SameLook
<1> HIDE DEF k
<1>6. SameLook(j, k)
  BY <1>3, <1>5 DEF SameLook
<1> QED
  BY <1>1, <1>2, <1>3, <1>5, <1>6

ParkedHash(j) == [ClearLock(j) EXCEPT !.state = "waiting-children"]

LEMMA ParkedHashIs ==
    ASSUME NEW j \in JobHash
    PROVE  /\ ParkedHash(j) \in JobHash /\ ParkedHash(j).state = "waiting-children"
           /\ ParkedHash(j).queue = j.queue /\ ParkedHash(j).name = j.name
<1>1. "waiting-children" \in JobStates
  BY DEF JobStates
<1> QED
  BY <1>1 DEF ParkedHash, ClearLock, JobHash, Opt

NothingPends(j, t, n) ==
    [ClearLock(j) EXCEPT !.state = "waiting", !.runAt = t, !.seq = n]

LEMMA NothingPendsIs ==
    ASSUME NEW j \in JobHash, NEW n \in Nat, NEW t \in Nat
    PROVE  /\ NothingPends(j, t, n) \in JobHash
           /\ NothingPends(j, t, n).state = "waiting"
           /\ NothingPends(j, t, n).queue = j.queue
           /\ NothingPends(j, t, n).name = j.name
<1> DEFINE i == Unlocked(j)
<1>1. NothingPends(j, t, n) = [i EXCEPT !.runAt = t, !.seq = n]
  BY DEF NothingPends, Unlocked, ClearLock
<1>2. i \in JobHash /\ i.state = "waiting" /\ i.queue = j.queue /\ i.name = j.name
  BY UnlockedIs
<1> HIDE DEF i
<1> DEFINE k == [i EXCEPT !.runAt = t]  l == [k EXCEPT !.seq = n]
<1>3. k \in JobHash /\ k.state = i.state /\ k.queue = i.queue /\ k.name = i.name
  BY <1>2 DEF JobHash
<1>4. NothingPends(j, t, n) = l
  BY <1>1
<1> HIDE DEF k
<1>5. l \in JobHash /\ l.state = k.state /\ l.queue = k.queue /\ l.name = k.name
  BY <1>3 DEF JobHash
<1> HIDE DEF l
<1> QED
  BY <1>2, <1>3, <1>4, <1>5

LEMMA FinalCancelled ==
    ASSUME NEW a, NEW db, NEW id \in JobIds, RightBut(db, id), db.job[id] # None,
           OnlyAt(a.job, db.job, id), NoNewRows(a, db), NEW t \in Nat,
           NEW d, d = FinishCancelled(SettleMarkRows(db, id), id, t)
    PROVE  Right(d) /\ Calm(a, d)
<1> DEFINE e == SettleMarkRows(db, id)
<1>1. /\ RightBut(e, id) /\ NoNewRows(db, e) /\ OnlyAt(db.job, e.job, id)
      /\ e.job[id] # None
  <2> HIDE DEF e
  <2>1. NearlyRight(db, id) /\ e = SettleMarkRows(db, id)
    BY DEF NearlyRight, e
  <2>2. /\ RightBut(e, id) /\ NoNewRows(db, e) /\ OnlyAt(db.job, e.job, id)
        /\ e.job[id] \in JobHash
    BY <2>1, SettledIs
  <2> QED
    BY <2>2, JobIs
<1> HIDE DEF e
<1>2. d = FinishCancelled(e, id, t)
  BY DEF e
<1>3. /\ Right(d) /\ Calm(e, d)
      /\ d.job[id] = None \/ d.job[id].state = "cancelled"
  BY <1>1, <1>2, FinishCancelledIs
<1>4. OnlyAt(a.job, e.job, id) /\ NoNewRows(a, e) /\ "cancelled" \in TerminalStates
  BY <1>1 DEF OnlyAt, NoNewRows, TerminalStates
<1>5. Calm(a, d)
  BY <1>3, <1>4, EndedCalms
<1> QED
  BY <1>3, <1>5

LEMMA FinalParked ==
    ASSUME NEW a, NEW db, NEW id \in JobIds, RightBut(db, id), db.job[id] \in JobHash,
           OnlyAt(a.job, db.job, id), NoNewRows(a, db),
           NEW d, d = PutJob(db, id, ParkedHash(db.job[id]))
    PROVE  Right(d) /\ Calm(a, d)
<1> DEFINE i == db.job[id]  j == ParkedHash(i)
<1>1. /\ j \in JobHash /\ j.state = "waiting-children" /\ j.queue = i.queue
      /\ j.name = i.name
  BY ParkedHashIs
<1>2. db.job[id] # None /\ d = PutJob(db, id, j)
  BY JobIs
<1> HIDE DEF j
<1>3. /\ RightBut(d, id) /\ OnlyAt(db.job, d.job, id) /\ d.job[id] = j
      /\ SameFlows(db, d)
  BY <1>1, <1>2, PutJobIs
<1>4. At(d.job[id], "waiting-children")
  BY <1>1, <1>3, JobIs DEF At
<1>5. Right(d)
  BY <1>3, <1>4, ParkedIs
<1>6. OnlyAt(a.job, d.job, id) /\ NoNewRows(a, d) /\ ~ At(d.job[id], "active")
  BY <1>3, <1>4 DEF OnlyAt, NoNewRows, SameFlows, At
<1> QED
  BY <1>5, <1>6, OneCalms

LEMMA FinalWaits ==
    ASSUME NEW a, NEW db, NEW id \in JobIds, RightBut(db, id), db.job[id] \in JobHash,
           OnlyAt(a.job, db.job, id), NoNewRows(a, db), NEW t \in Nat,
           NEW d, d = Enter([db EXCEPT !.seq = @ + 1], id,
                            NothingPends(db.job[id], t, db.seq + 1))
    PROVE  Right(d) /\ Calm(a, d)
<1> DEFINE e == [db EXCEPT !.seq = @ + 1]  i == db.job[id]  n == db.seq + 1
           j == NothingPends(i, t, n)
<1>1. n \in Nat /\ db \in Keys
  BY KeysAre DEF RightBut
<1>2. RightBut(e, id) /\ e.job = db.job /\ SameFlows(db, e)
  <2> HIDE DEF e
  <2>1. e = [db EXCEPT !.seq = @ + 1]
    BY DEF e
  <2> QED
    BY <1>1, <2>1, SeqIs
<1>3. d = Enter(e, id, j) /\ i = e.job[id] /\ e.job[id] # None
  BY <1>2, JobIs
<1> HIDE DEF e, n
<1>4. j \in JobHash /\ j.state = "waiting" /\ j.queue = i.queue /\ j.name = i.name
  BY <1>1, NothingPendsIs
<1> HIDE DEF j, i
<1>5. /\ j.queue = e.job[id].queue /\ j.name = e.job[id].name
      /\ j.state \in {"waiting", "delayed"}
  BY <1>3, <1>4
<1>6. Right(d) /\ OnlyAt(e.job, d.job, id) /\ d.job[id] = j /\ SameFlows(e, d)
  BY <1>2, <1>3, <1>4, <1>5, EnterIs
<1>7. OnlyAt(a.job, d.job, id) /\ NoNewRows(a, d) /\ ~ At(d.job[id], "active")
  BY <1>2, <1>4, <1>6 DEF OnlyAt, NoNewRows, SameFlows, At
<1> QED
  BY <1>6, <1>7, OneCalms

(* The last chunk's second half: the job leaves p:active with its manifest.*)
LEMMA FanOutFinalIs ==
    ASSUME NEW s, Right(s), NEW id \in JobIds, At(s.job[id], "active"),
           NEW failFast \in BOOLEAN, NEW total \in Nat, NEW t \in Nat,
           NEW d, d = FanOutFinal(s, id, failFast, total, t)
    PROVE  Right(d) /\ Calm(s, d)
<1> DEFINE i == s.job[id]  j == FannedOut(i, failFast, total)  db == Idle(s, id, j)
<1>1. i \in JobHash /\ s \in Keys
  BY HashOf DEF Right, At
<1>2. d = IF j.cancelRequested THEN FinishCancelled(SettleMarkRows(db, id), id, t)
          ELSE IF j.flow.pending > 0 THEN PutJob(db, id, ParkedHash(j))
          ELSE Enter([db EXCEPT !.seq = @ + 1], id, NothingPends(j, t, db.seq + 1))
  <2> DEFINE e == [s EXCEPT !.job[id] = j, !.active = ZRem(@, {id})]
  <2>1. e = db
    BY <1>1 DEF Idle, Keys
  <2>2. d = IF j.cancelRequested THEN FinishCancelled(SettleMarkRows(e, id), id, t)
            ELSE IF j.flow.pending > 0 THEN PutJob(e, id, ParkedHash(j))
            ELSE Enter([e EXCEPT !.seq = @ + 1], id, NothingPends(j, t, e.seq + 1))
    BY Zenon DEF FanOutFinal, FannedOut, ParkedHash, NothingPends, Manifest
  <2> HIDE DEF e, db, j
  <2> QED
    BY <2>1, <2>2
<1>3. j \in JobHash /\ SameLook(i, j)
  BY <1>1, FannedOutIs
<1> HIDE DEF j
<1>4. /\ RightBut(db, id) /\ db.job[id] = j /\ OnlyAt(s.job, db.job, id)
      /\ SameRest(s, db)
  <2>1. SameLook(s.job[id], j) /\ db = Idle(s, id, j)
    BY <1>3
  <2> HIDE DEF db
  <2> QED
    BY <1>3, <2>1, LeaveActiveIs
<1> HIDE DEF db
<1>5. NoNewRows(s, db) /\ db.job[id] \in JobHash /\ db.job[id] # None
  BY <1>3, <1>4, SameFlowsNoNewRows, JobIs DEF SameRest
<1>6. CASE j.cancelRequested
  <2>1. d = FinishCancelled(SettleMarkRows(db, id), id, t)
    BY <1>2, <1>6
  <2> QED
    BY <1>4, <1>5, <2>1, FinalCancelled
<1>7. CASE ~ j.cancelRequested /\ j.flow.pending > 0
  <2>1. d = PutJob(db, id, ParkedHash(db.job[id]))
    BY <1>2, <1>4, <1>7
  <2> QED
    BY <1>4, <1>5, <2>1, FinalParked
<1>8. CASE ~ j.cancelRequested /\ ~ (j.flow.pending > 0)
  <2>1. d = Enter([db EXCEPT !.seq = @ + 1], id, NothingPends(db.job[id], t, db.seq + 1))
    BY <1>2, <1>4, <1>8
  <2> QED
    BY <1>4, <1>5, <2>1, FinalWaits
<1> QED
  BY <1>6, <1>7, <1>8

\* What the driver still has to stage of the ack a, if it goes on.
Remaining(a, chunk) == [a EXCEPT !.rest = @ \ chunk]
NextAcks(acks, token, a, chunk) ==
    [acks EXCEPT ![token] = IF chunk = a.rest THEN None ELSE Remaining(a, chunk)]

LEMMA RemainingIs ==
    ASSUME NEW a \in FanOut, NEW chunk
    PROVE  /\ Remaining(a, chunk) \in FanOut /\ Remaining(a, chunk).id = a.id
           /\ Remaining(a, chunk).rest = a.rest \ chunk
BY DEF Remaining, FanOut

LEMMA NextAcksAre ==
    ASSUME NEW acks \in Acks, NEW token \in 1..MaxTokens, NEW a \in FanOut, NEW chunk
    PROVE  /\ NextAcks(acks, token, a, chunk) \in Acks
           /\ NextAcks(acks, token, a, chunk)[token] =
                 IF chunk = a.rest THEN None ELSE Remaining(a, chunk)
           /\ \A other \in 1..MaxTokens : other # token =>
                 NextAcks(acks, token, a, chunk)[other] = acks[other]
<1> DEFINE n == IF chunk = a.rest THEN None ELSE Remaining(a, chunk)
<1>1. n \in Opt(FanOut)
  BY RemainingIs DEF Opt
<1>2. NextAcks(acks, token, a, chunk) = [acks EXCEPT ![token] = n]
  BY DEF NextAcks
<1> HIDE DEF n
<1>3. [acks EXCEPT ![token] = n] \in Acks
  BY <1>1 DEF Acks
<1>4. /\ [acks EXCEPT ![token] = n][token] = n
      /\ \A other \in 1..MaxTokens : other # token =>
            [acks EXCEPT ![token] = n][other] = acks[other]
  BY DEF Acks
<1> QED
  BY <1>2, <1>3, <1>4 DEF n

(* One chunk: its rows are staged, those it leaves are still new, and no   *)
(* other ack is touched, for no other worker holds the job.                *)
LEMMA StagedRest ==
    ASSUME KeysInv, NEW token \in 1..MaxTokens, token <= lastToken,
           NEW a \in FanOut, Holds(redis, a.id, token), NEW chunk,
           NEW s, s.job = redis.job,
           \A x \in JobIds, k \in ChildKeys :
              (x # a.id \/ k \notin chunk) /\ redis.flowchild[<<x, k>>] = None
                 => s.flowchild[<<x, k>>] = None,
           redis.job[a.id].flow = None =>
              \A k \in a.rest \ chunk : s.flowchild[<<a.id, k>>] = None,
           NEW acks, acks = NextAcks(fanOuts, token, a, chunk)
    PROVE  RestIsNew(s, acks, lastToken)
<1>1. fanOuts \in Acks /\ RestIsNew(redis, fanOuts, lastToken)
  BY AcksAre DEF KeysInv
<1>2. /\ acks \in Acks
      /\ acks[token] = IF chunk = a.rest THEN None ELSE Remaining(a, chunk)
      /\ \A other \in 1..MaxTokens : other # token => acks[other] = fanOuts[other]
  BY <1>1, NextAcksAre
<1> SUFFICES ASSUME NEW u \in 1..MaxTokens, acks[u] # None
             PROVE  /\ u <= lastToken
                    /\ \A x : x = acks[u].id /\ Holds(s, x, u) /\ s.job[x].flow = None
                         => \A k \in acks[u].rest : s.flowchild[<<x, k>>] = None
  BY DEF RestIsNew
<1>3. CASE u = token
  <2>1. acks[u] = Remaining(a, chunk)
    BY <1>2, <1>3
  <2>2. acks[u].id = a.id /\ acks[u].rest = a.rest \ chunk
    BY <2>1, RemainingIs
  <2> QED
    BY <1>3, <2>2
<1>4. CASE u # token
  <2>1. acks[u] = fanOuts[u] /\ fanOuts[u] # None
    BY <1>2, <1>4
  <2>2. u <= lastToken
    BY <1>1, <2>1 DEF RestIsNew
  <2>3. ASSUME NEW x, x = fanOuts[u].id, Holds(s, x, u), s.job[x].flow = None,
               NEW k \in fanOuts[u].rest
        PROVE  s.flowchild[<<x, k>>] = None
    <3>1. x \in JobIds /\ k \in ChildKeys
      BY <1>1, <2>1, <2>3, AckIs
    <3>2. Holds(redis, x, u) /\ redis.job[x].flow = None
      BY <2>3 DEF Holds
    <3>3. x # a.id
      BY <1>4, <3>2 DEF Holds
    <3>4. redis.flowchild[<<x, k>>] = None
      BY <1>1, <2>1, <2>3, <3>2 DEF RestIsNew
    <3> QED
      BY <3>1, <3>3, <3>4
  <2> QED
    BY <2>1, <2>2, <2>3
<1> QED
  BY <1>3, <1>4

LEMMA FanOutChunkIs ==
    ASSUME KeysInv, NEW token \in 1..MaxTokens, token <= lastToken,
           NEW a \in FanOut, Holds(redis, a.id, token), NEW chunk,
           NEW first,
           ~first /\ redis.job[a.id].flow = None =>
              \A k \in a.rest : redis.flowchild[<<a.id, k>>] = None,
           FanOutChunk(a, token, chunk, first)
    PROVE  KeysInv'
<1> DEFINE id == a.id  s == Stage(redis, id, chunk, first, a.at)
           db == FanOutFinal(s, id, a.failFast, a.total, a.at)
           acks == NextAcks(fanOuts, token, a, chunk)
<1>1. /\ id \in JobIds /\ a.at \in Nat /\ a.rest \in SUBSET ChildKeys
      /\ a.failFast \in BOOLEAN /\ a.total \in Nat
  BY DEF FanOut
<1>2. /\ chunk \subseteq a.rest
      /\ redis' = IF chunk = a.rest THEN db ELSE s
      /\ fanOuts' = acks
      /\ wake' = IF chunk # a.rest THEN wake
                 ELSE IF db.seq > redis.seq THEN {redis.job[id].queue} ELSE {}
      /\ UNCHANGED <<now, lastToken, sweep, scenario>>
  BY DEF FanOutChunk, NextAcks, Remaining
<1>3. /\ Right(redis) /\ Typed /\ fanOuts \in Acks /\ At(redis.job[id], "active")
      /\ redis.job[id] # None
  BY AcksAre DEF KeysInv, Holds, At
<1>4. chunk \in SUBSET ChildKeys
  BY <1>1, <1>2
<1>5. HasManifest(redis, id) <=> redis.job[id].flow # None
  BY <1>3 DEF HasManifest, Has
<1>6. /\ Right(s) /\ s.job = redis.job
      /\ \A x \in JobIds, k \in ChildKeys :
            /\ x # id \/ k \notin chunk
            /\ redis.flowchild[<<x, k>>] = None
            => s.flowchild[<<x, k>>] = None
      /\ first /\ ~HasManifest(redis, id) =>
            \A k \in ChildKeys \ chunk : s.flowchild[<<id, k>>] = None
  <2>1. MayStage(redis, id, chunk, first)
    BY <1>2, <1>5 DEF MayStage
  <2> DEFINE t == a.at
  <2>2. s = Stage(redis, id, chunk, first, t)
    OBVIOUS
  <2>3. Right(redis) /\ id \in JobIds /\ t \in Nat
    BY <1>1, <1>3
  <2> HIDE DEF s, id, t
  <2>4. StagedWell(redis, s, id, chunk, first)
    BY <1>4, <2>1, <2>2, <2>3, StageIs
  <2> QED
    BY <2>4 DEF StagedWell
<1> HIDE DEF s
<1>7. redis.job[id].flow = None =>
         \A k \in a.rest \ chunk : s.flowchild[<<id, k>>] = None
  <2> SUFFICES ASSUME redis.job[id].flow = None, NEW k \in a.rest \ chunk
               PROVE  s.flowchild[<<id, k>>] = None
    OBVIOUS
  <2>1. k \in ChildKeys \ chunk /\ k \in a.rest
    BY <1>1
  <2>2. CASE first
    BY <1>5, <1>6, <2>1, <2>2
  <2>3. CASE ~first
    <3>1. redis.flowchild[<<id, k>>] = None
      BY <2>1, <2>3
    <3> QED
      BY <1>1, <1>6, <2>1, <3>1
  <2> QED
    BY <2>2, <2>3
<1>8. acks \in Acks
  BY <1>3, NextAcksAre
<1>9. RestIsNew(s, acks, lastToken)
  <2>1. acks = NextAcks(fanOuts, token, a, chunk)
    OBVIOUS
  <2> HIDE DEF acks
  <2> QED
    BY <1>6, <1>7, <2>1, StagedRest
<1> HIDE DEF acks
<1>10. wake' \subseteq Queues
  <2>1. redis.job[id].queue \in Queues
    BY <1>1, <1>3, HashOf, JobIs DEF Right
  <2>2. wake \subseteq Queues
    BY <1>3 DEF Typed
  <2> HIDE DEF id, db
  <2> QED
    BY <1>2, <2>1, <2>2
<1>11. Typed'
  BY <1>2, <1>3, <1>8, <1>10 DEF Typed, Acks
<1>12. CASE chunk # a.rest
  BY <1>2, <1>6, <1>9, <1>11, <1>12 DEF KeysInv
<1>13. CASE chunk = a.rest
  <2>1. Right(db) /\ Calm(s, db)
    <3>1. At(s.job[id], "active")
      BY <1>3, <1>6
    <3>2. db = FanOutFinal(s, id, a.failFast, a.total, a.at)
      OBVIOUS
    <3> HIDE DEF db, id
    <3> QED
      BY <1>1, <1>6, <3>1, <3>2, FanOutFinalIs
  <2> HIDE DEF db
  <2>2. RestIsNew(db, acks, lastToken)
    BY <1>8, <1>9, <2>1, CalmKeepsRest
  <2> QED
    BY <1>2, <1>11, <1>13, <2>1, <2>2 DEF KeysInv
<1> QED
  BY <1>12, <1>13

LEMMA FanOutBeginIs ==
    ASSUME KeysInv, NEW token \in 1..lastToken, NEW id \in JobIds,
           NEW children \in SUBSET ChildKeys, NEW failFast \in BOOLEAN, NEW chunk,
           FanOutBegin(id, token, children, failFast, chunk)
    PROVE  KeysInv'
<1> DEFINE a == [id |-> id, at |-> now, rest |-> children,
                 total |-> Cardinality(children), failFast |-> failFast]
<1>1. FanOutChunk(a, token, chunk, TRUE) /\ Held(id, token)
  BY DEF FanOutBegin
<1>2. a \in FanOut /\ a.id = id
  <2>1. Cardinality(children) \in Nat
    BY FS_Subset, FS_CardinalityType, ConstantsAssumption
  <2>2. now \in Nat
    BY DEF KeysInv, Typed
  <2> QED
    BY <2>1, <2>2 DEF FanOut
<1> HIDE DEF a
<1>3. token \in 1..MaxTokens /\ token <= lastToken
  BY ConstantsAssumption DEF KeysInv, Typed
<1>4. Holds(redis, a.id, token)
  BY <1>1, <1>2, HeldIs DEF KeysInv, Holds
<1> QED
  BY <1>1, <1>2, <1>3, <1>4, FanOutChunkIs

LEMMA FanOutContinueIs ==
    ASSUME KeysInv, NEW token \in 1..lastToken, NEW chunk,
           FanOutContinue(token, chunk)
    PROVE  KeysInv'
<1> DEFINE a == fanOuts[token]
<1>1. FanOutChunk(a, token, chunk, FALSE) /\ Held(a.id, token) /\ a # None
  BY DEF FanOutContinue
<1>2. token \in 1..MaxTokens /\ token <= lastToken
  BY ConstantsAssumption DEF KeysInv, Typed
<1>3. a \in FanOut /\ a.id \in JobIds
  BY <1>1, <1>2, AckIs, AcksAre DEF KeysInv
<1>4. Holds(redis, a.id, token)
  BY <1>1, <1>3, HeldIs DEF KeysInv, Holds
<1>5. redis.job[a.id].flow = None =>
         \A k \in a.rest : redis.flowchild[<<a.id, k>>] = None
  BY <1>1, <1>2, <1>4 DEF KeysInv, RestIsNew
<1> HIDE DEF a
<1> QED
  BY <1>1, <1>2, <1>3, <1>4, <1>5, FanOutChunkIs

LEMMA FanOutLostIs ==
    ASSUME KeysInv, NEW token \in 1..lastToken, FanOutLost(token) PROVE KeysInv'
<1> DEFINE acks == [fanOuts EXCEPT ![token] = None]
<1>1. fanOuts' = acks /\ UNCHANGED <<now, redis, lastToken, sweep, wake, scenario>>
  BY DEF FanOutLost
<1>2. fanOuts \in Acks /\ token \in 1..MaxTokens
  BY AcksAre, ConstantsAssumption DEF KeysInv, Typed
<1>3. /\ acks \in Acks
      /\ \A u \in 1..MaxTokens : acks[u] # None => acks[u] = fanOuts[u]
  BY <1>2 DEF Acks, Opt
<1> HIDE DEF acks
<1>4. RestIsNew(redis, acks, lastToken)
  BY <1>3 DEF KeysInv, RestIsNew
<1>5. Typed'
  BY <1>1, <1>3 DEF KeysInv, Typed, Acks
<1> QED
  BY <1>1, <1>4, <1>5 DEF KeysInv

-----------------------------------------------------------------------------
(* The first state                                                         *)

LEMMA NoMembersIs == \A S, V : NoMembers \in Zset(S, V)
<1> TAKE S, V
<1>1. DOMAIN NoMembers = {} /\ NoMembers \in [DOMAIN NoMembers -> V]
  BY DEF NoMembers
<1> QED
  BY <1>1, ZsetIs

LEMMA EmptyIs == Empty \in Keys
<1>1. NoMembers \in Zset(JobIds, Nat)
  BY NoMembersIs
<1>2. /\ NoMembers \in Zset(Nat \X JobIds, Int)
      /\ NoMembers \in Zset(DedupeMapKeys, Opt(Nat))
      /\ NoMembers \in Zset(Rows, Nat)
  BY NoMembersIs
<1> QED
  BY <1>1, <1>2 DEF Empty, Keys, Opt, Groups, Counters, DedupeMapKeys, Rows

LEMMA NoneCounted ==
    ASSUME NEW c, NEW h, \A q \in Queues, s \in JobStates : c[<<q, s>>] = 0,
           \A x \in JobIds : h[x] = None
    PROVE  CountsRight(c, h)
<1> SUFFICES ASSUME NEW q \in Queues, NEW s \in JobStates
             PROVE  c[<<q, s>>] = Cardinality(InState(h, q, s))
  BY Zenon DEF CountsRight
<1>1. InState(h, q, s) = {}
  BY DEF InState
<1>2. Cardinality({}) = 0
  BY FS_EmptySet
<1> QED
  BY <1>1, <1>2

LEMMA EmptyRight == Right(Empty)
<1>1. \A m : m \notin DOMAIN NoMembers
  BY DEF NoMembers
<1>2. Settled(Empty)
  BY <1>1 DEF Settled, Where, InWaiting, InDelayed, InActive, InFinished,
              InTerminal, At, Empty, Groups
<1>3. Listed(Empty)
  BY <1>1 DEF Listed, ListedAs, Empty
<1>4. CountsRight(Empty.counts, Empty.job)
  <2>1. /\ \A q \in Queues, s \in JobStates : Empty.counts[<<q, s>>] = 0
        /\ \A x \in JobIds : Empty.job[x] = None
    BY DEF Empty
  <2> QED
    BY <2>1, NoneCounted
<1>5. DedupesRight(Empty)
  BY <1>1 DEF DedupesRight, Empty, DedupeMapKeys
<1>6. FlowsRight(Empty)
  BY <1>1 DEF FlowsRight, RowRight, Empty
<1> QED
  BY <1>2, <1>3, <1>4, <1>5, <1>6, EmptyIs DEF Right, JobsRight

LEMMA InitKeys == Init => KeysInv
<1> SUFFICES ASSUME Init PROVE KeysInv
  OBVIOUS
<1>1. Right(redis)
  BY EmptyRight DEF Init
<1>2. \A token \in 1..MaxTokens : fanOuts[token] = None
  BY DEF Init
<1>3. RestIsNew(redis, fanOuts, lastToken)
  BY <1>2 DEF RestIsNew
<1>4. fanOuts \in [1..MaxTokens -> Opt(FanOut)] /\ sweep \in Opt(Sweep)
  BY DEF Init, Opt
<1>5. Typed
  BY <1>4, ConstantsAssumption DEF Typed, Init
<1> QED
  BY <1>1, <1>3, <1>5 DEF KeysInv

-----------------------------------------------------------------------------
(* Every step                                                              *)

LEMMA ProducerKeeps == ASSUME KeysInv, ProducerNext PROVE KeysInv'
<1>1. Right(redis) /\ now \in Nat /\ scenario.requests \subseteq Requests
  BY ScenariosAssumption DEF KeysInv, Typed
<1>2. PICK r \in scenario.requests :
         \/ \E id \in JobIds : Enqueue(r, id)
         \/ EnqueueReplace(r)
         \/ EnqueueBump(r)
  BY Zenon DEF ProducerNext
<1>3. r \in Requests
  BY <1>1
<1>4. CASE \E id \in JobIds : Enqueue(r, id)
  BY <1>1, <1>3, <1>4, EnqueueIs, CalmSteps
<1>5. CASE EnqueueReplace(r)
  BY <1>1, <1>3, <1>5, EnqueueReplaceIs, CalmSteps
<1>6. CASE EnqueueBump(r)
  BY <1>1, <1>3, <1>6, EnqueueBumpIs, CalmSteps
<1> QED
  BY <1>2, <1>4, <1>5, <1>6

LEMMA WorkerKeeps == ASSUME KeysInv, WorkerNext PROVE KeysInv'
<1>1. Right(redis) /\ now \in Nat
  BY DEF KeysInv, Typed
<1>2. CASE \E queue \in Queues, names \in SUBSET Names :
              \E lockMs \in LockDurations : Claim(queue, names, lockMs)
  BY <1>2, ClaimKeeps
<1>3. CASE \E queue \in Queues, names \in SUBSET Names : ClaimEmpty(queue, names)
  BY <1>1, <1>3, ClaimEmptyIs, CalmSteps
<1>4. CASE \E id \in JobIds, token \in 1..lastToken :
              \E state \in TerminalStates, exit \in BOOLEAN :
                 AckTerminal(id, token, state, exit)
  BY <1>1, <1>4, AckTerminalIs, CalmSteps
<1>5. CASE \E id \in JobIds, token \in 1..lastToken :
              \E delayMs \in RetryDelays : AckRetry(id, token, delayMs)
  BY <1>1, <1>5, AckRetryIs, CalmSteps
<1>6. CASE \E id \in JobIds, token \in 1..lastToken : Release(id, token)
  BY <1>1, <1>6, ReleaseIs, CalmSteps
<1>7. CASE \E id \in JobIds, token \in 1..lastToken :
              \E lockMs \in LockDurations : ExtendLocks(id, token, lockMs)
  BY <1>1, <1>7, ExtendLocksIs, CalmSteps
<1>8. CASE RecoverStalled
  BY <1>1, <1>8, RecoverStalledIs, CalmSteps
<1> QED
  BY Zenon, <1>2, <1>3, <1>4, <1>5, <1>6, <1>7, <1>8 DEF WorkerNext

LEMMA FanOutKeeps == ASSUME KeysInv, FanOutNext PROVE KeysInv'
<1>1. PICK token \in 1..lastToken, chunk \in SUBSET ChildKeys :
         \/ \E id \in JobIds, children \in SUBSET ChildKeys, failFast \in BOOLEAN :
               FanOutBegin(id, token, children, failFast, chunk)
         \/ FanOutContinue(token, chunk)
         \/ FanOutLost(token)
  BY Zenon DEF FanOutNext
<1>2. CASE \E id \in JobIds, children \in SUBSET ChildKeys, failFast \in BOOLEAN :
              FanOutBegin(id, token, children, failFast, chunk)
  BY <1>2, FanOutBeginIs
<1>3. CASE FanOutContinue(token, chunk)
  BY <1>3, FanOutContinueIs
<1>4. CASE FanOutLost(token)
  BY <1>4, FanOutLostIs
<1> QED
  BY <1>1, <1>2, <1>3, <1>4

LEMMA FlowKeeps == ASSUME KeysInv, FlowNext PROVE KeysInv'
<1>1. Right(redis) /\ now \in Nat
  BY DEF KeysInv, Typed
<1>2. CASE \E flowId \in JobIds, keys \in SUBSET ChildKeys :
              \E reports \in [keys -> TerminalStates] :
                 RecordChildResults(flowId, reports)
  BY <1>1, <1>2, RecordChildResultsIs, CalmSteps
<1>3. CASE \E flowId \in JobIds, keys \in SUBSET ChildKeys :
              MarkChildrenCascaded(flowId, keys)
  BY <1>1, <1>3, MarkChildrenCascadedIs, CalmSteps
<1>4. CASE \E entries \in SUBSET redis.outbox : DeleteOutbox(entries)
  BY <1>1, <1>4, DeleteOutboxIs, CalmSteps
<1>5. CASE \E page \in SUBSET Members(redis.flowpending) : FlowSweepWork(page)
  BY <1>1, <1>5, FlowSweepWorkIs, CalmSteps
<1> QED
  BY Zenon, <1>2, <1>3, <1>4, <1>5 DEF FlowNext

LEMMA AdminKeeps == ASSUME KeysInv, AdminNext PROVE KeysInv'
<1>1. Right(redis) /\ now \in Nat
  BY DEF KeysInv, Typed
<1>2. CASE \E id \in JobIds : Cancel(id)
  BY <1>1, <1>2, CancelIs, CalmSteps
<1>3. CASE \E id \in JobIds : Retry(id)
  BY <1>1, <1>3, RetryIs, CalmSteps
<1>4. CASE \E id \in JobIds : Promote(id)
  BY <1>1, <1>4, PromoteIs, CalmSteps
<1>5. CASE \E id \in JobIds : Remove(id)
  BY <1>1, <1>5, RemoveIs, CalmSteps
<1>6. CASE \E queue \in Queues : Pause(queue)
  BY <1>1, <1>6, PauseIs, CalmSteps
<1>7. CASE \E queue \in Queues : Resume(queue)
  BY <1>1, <1>7, ResumeIs, CalmSteps
<1>8. CASE SweepBegin \/ SweepState \/ SweepDedupes
  BY <1>8, SweepBeginIs, SweepStateIs, SweepDedupesIs
<1> QED
  BY Zenon, <1>2, <1>3, <1>4, <1>5, <1>6, <1>7, <1>8 DEF AdminNext

LEMMA NextKeeps == KeysInv /\ [Next]_vars => KeysInv'
<1> SUFFICES ASSUME KeysInv, [Next]_vars PROVE KeysInv'
  OBVIOUS
<1>1. CASE Next
  BY <1>1, ProducerKeeps, WorkerKeeps, FanOutKeeps, FlowKeeps, AdminKeeps, TickIs
  DEF Next
<1>2. CASE UNCHANGED vars
  BY <1>2 DEF vars, KeysInv, Typed
<1> QED
  BY <1>1, <1>2

-----------------------------------------------------------------------------
(* What the invariant says of the keys                                     *)

LEMMA TypesFollow == ASSUME KeysInv PROVE TypeOK
<1>1. Typed /\ Right(redis) /\ redis \in Keys
  BY DEF KeysInv, Right
<1>2. ASSUME NEW S, NEW V, NEW z \in Zset(S, V) PROVE IsZset(z, S, V)
  <2>1. DOMAIN z \subseteq S /\ z \in [DOMAIN z -> V]
    BY ZsetIs
  <2> QED
    BY <2>1 DEF IsZset, Members
<1>3. /\ redis.job \in [JobIds -> Opt(JobHash)]
      /\ redis.dedupe \in [Names \X DedupeKeys -> Opt(Mem!DedupeEntry)]
      /\ redis.flowchild \in [JobIds \X ChildKeys -> Opt(Mem!MemFlowChild)]
      /\ redis.flowchildren \in [JobIds -> SUBSET ChildKeys]
      /\ redis.flowcascade \subseteq JobIds \X ChildKeys
      /\ redis.outbox \subseteq OutboxEntry
      /\ redis.outboxSeq \in Nat /\ redis.seq \in Nat /\ redis.paused \subseteq Queues
  BY <1>1, KeysAre DEF DedupeMapKeys, Rows
<1>4. IsZset(redis.all, JobIds, Nat) /\ IsZset(redis.active, JobIds, Nat)
  BY <1>1, <1>2, KeysAre DEF ActiveZset
<1>5. IsZset(redis.dedupes, Names \X DedupeKeys, Opt(Nat))
      /\ IsZset(redis.flowpending, JobIds \X ChildKeys, Nat)
  BY <1>1, <1>2, KeysAre DEF DedupeMapKeys, Rows
<1>6. ASSUME NEW n \in Names PROVE IsZset(redis.byname[n], JobIds, Nat)
  BY <1>1, <1>2, KeysAre
<1>7. ASSUME NEW q \in Queues
      PROVE  /\ IsZset(redis.byqueue[q], JobIds, Nat)
             /\ IsZset(redis.waiting[q], Nat \X JobIds, Int)
             /\ IsZset(redis.delayed[q], JobIds, Nat)
  <2>1. /\ redis.byqueue[q] \in Zset(JobIds, Nat)
        /\ redis.waiting[q] \in Zset(Nat \X JobIds, Int)
        /\ redis.delayed[q] \in Zset(JobIds, Nat)
    BY <1>1, KeysAre DEF WaitingZsets, DelayedZsets
  <2> QED
    BY <1>2, <2>1
<1>8. ASSUME NEW s \in TerminalStates
      PROVE  /\ IsZset(redis.finished[s], JobIds, Nat)
             /\ \A n \in Names : IsZset(redis.terminal[<<n, s>>], JobIds, Nat)
  <2>1. /\ redis.finished[s] \in Zset(JobIds, Nat)
        /\ \A n \in Names : redis.terminal[<<n, s>>] \in Zset(JobIds, Nat)
    BY <1>1, KeysAre DEF FinishedZsets, TerminalZsets, Groups
  <2> QED
    BY <1>2, <2>1
<1>9. redis.counts \in [Queues \X JobStates -> Nat]
  <2>1. redis.counts \in [Queues \X JobStates -> Int]
    BY <1>1, KeysAre DEF Counters
  <2>2. ASSUME NEW q \in Queues, NEW s \in JobStates
        PROVE  redis.counts[<<q, s>>] \in Nat
    <3>1. redis.counts[<<q, s>>] = Cardinality(InState(redis.job, q, s))
      BY <1>1 DEF Right, JobsRight, CountsRight
    <3>2. InState(redis.job, q, s) \subseteq JobIds
      BY DEF InState
    <3>3. Cardinality(InState(redis.job, q, s)) \in Nat
      BY <3>2, FS_Subset, FS_CardinalityType, ConstantsAssumption
    <3> QED
      BY <3>1, <3>3
  <2> QED
    BY <2>1, <2>2
<1> QED
  BY <1>1, <1>3, <1>4, <1>5, <1>6, <1>7, <1>8, <1>9 DEF TypeOK, Typed

\* A zset with these members and scores is this function.
LEMMA ZsetEquals ==
    ASSUME NEW S, NEW V, NEW z \in Zset(S, V), NEW f, f = [m \in DOMAIN f |-> f[m]],
           \A m : m \in DOMAIN z <=> m \in DOMAIN f,
           \A m \in DOMAIN z : z[m] = f[m]
    PROVE  z = f
<1>1. z = [m \in DOMAIN z |-> z[m]]
  BY ZsetIs
<1>2. DOMAIN z = DOMAIN f
  OBVIOUS
<1> QED
  BY <1>1, <1>2

LEMMA WaitingAgrees ==
    ASSUME Right(redis), NEW q \in Queues
    PROVE  redis.waiting[q] =
              [m \in {<<redis.job[id].seq, id>> : id \in JobsWhere(
                         LAMBDA j : j.queue = q /\ j.state = "waiting")} |->
                  -redis.job[m[2]].priority]
<1> DEFINE X == {<<redis.job[id].seq, id>> : id \in JobsWhere(
                    LAMBDA j : j.queue = q /\ j.state = "waiting")}
           f == [m \in X |-> -redis.job[m[2]].priority]
           z == redis.waiting[q]
<1>1. z \in Zset(Nat \X JobIds, Int) /\ redis \in Keys
  BY KeysAre DEF Right, WaitingZsets
<1>2. DOMAIN z \subseteq Nat \X JobIds
  <2> HIDE DEF z
  <2> QED
    BY <1>1, ZsetIs
<1>3. ASSUME NEW n \in Nat, NEW id \in JobIds
      PROVE  /\ <<n, id>> \in DOMAIN z <=> At(redis.job[id], "waiting")
                   /\ redis.job[id].queue = q /\ redis.job[id].seq = n
             /\ <<n, id>> \in DOMAIN z => z[<<n, id>>] = -redis.job[id].priority
  BY DEF Right, JobsRight, Settled, Where, InWaiting
<1>4. \A m : m \in X <=> \E id \in JobIds :
         /\ m = <<redis.job[id].seq, id>> /\ At(redis.job[id], "waiting")
         /\ redis.job[id].queue = q
  BY DEF JobsWhere, Has, At
<1>5. \A id \in JobIds : redis.job[id] # None => redis.job[id].seq \in Nat
  BY <1>1, HashOf, JobIs
<1>6. DOMAIN f = X /\ f = [m \in DOMAIN f |-> f[m]]
  OBVIOUS
<1>7. \A m : m \in DOMAIN z <=> m \in DOMAIN f
  <2> HIDE DEF z, X
  <2>1. ASSUME NEW m \in DOMAIN z PROVE m \in X
    <3>1. PICK n \in Nat, id \in JobIds : m = <<n, id>>
      BY <1>2
    <3> QED
      BY <1>3, <1>4, <3>1
  <2>2. ASSUME NEW m \in X PROVE m \in DOMAIN z
    BY <1>3, <1>4, <1>5 DEF At
  <2> QED
    BY <1>6, <2>1, <2>2
<1>8. ASSUME NEW m \in DOMAIN z PROVE z[m] = f[m]
  <2> HIDE DEF z, X
  <2>1. PICK n \in Nat, id \in JobIds : m = <<n, id>>
    BY <1>2
  <2>2. m \in X /\ m[2] = id
    BY <1>6, <1>7, <2>1
  <2> QED
    BY <1>3, <2>1, <2>2
<1> HIDE DEF X, f, z
<1>9. \A m \in DOMAIN z : z[m] = f[m]
  BY <1>8
<1> DEFINE S == Nat \X JobIds
<1>10. z \in Zset(S, Int)
  BY <1>1
<1> HIDE DEF S
<1>11. z = f
  BY <1>6, <1>7, <1>9, <1>10, ZsetEquals
<1> QED
  BY <1>11 DEF f, z, X

LEMMA DelayedAgrees ==
    ASSUME Right(redis), NEW q \in Queues
    PROVE  redis.delayed[q] =
              [id \in JobsWhere(LAMBDA j : j.queue = q /\ j.state = "delayed")
                  |-> redis.job[id].runAt]
<1> DEFINE X == JobsWhere(LAMBDA j : j.queue = q /\ j.state = "delayed")
           f == [id \in X |-> redis.job[id].runAt]
           z == redis.delayed[q]
<1>1. z \in Zset(JobIds, Nat)
  BY KeysAre DEF Right, DelayedZsets
<1>2. DOMAIN z \subseteq JobIds
  <2> HIDE DEF z
  <2> QED
    BY <1>1, ZsetIs
<1>3. ASSUME NEW id \in JobIds
      PROVE  /\ id \in DOMAIN z <=> At(redis.job[id], "delayed") /\ redis.job[id].queue = q
             /\ id \in DOMAIN z => z[id] = redis.job[id].runAt
  BY DEF Right, JobsRight, Settled, Where, InDelayed
<1>4. \A id : id \in X <=> /\ id \in JobIds /\ At(redis.job[id], "delayed")
                           /\ redis.job[id].queue = q
  BY DEF JobsWhere, Has, At
<1> HIDE DEF X, z
<1>5. DOMAIN f = X /\ f = [m \in DOMAIN f |-> f[m]]
  OBVIOUS
<1>6. \A m : m \in DOMAIN z <=> m \in DOMAIN f
  BY <1>2, <1>3, <1>4, <1>5
<1>7. \A m \in DOMAIN z : z[m] = f[m]
  BY <1>2, <1>3, <1>4
<1> HIDE DEF f
<1>8. z = f
  BY <1>1, <1>5, <1>6, <1>7, ZsetEquals
<1> QED
  BY <1>8 DEF f, z, X

LEMMA ActiveAgrees ==
    ASSUME Right(redis)
    PROVE  redis.active = [id \in JobsWhere(LAMBDA j : j.state = "active") |->
                              redis.job[id].lockExpiresAt]
<1> DEFINE X == JobsWhere(LAMBDA j : j.state = "active")
           f == [id \in X |-> redis.job[id].lockExpiresAt]
           z == redis.active
<1>1. z \in Zset(JobIds, Nat)
  BY KeysAre DEF Right, ActiveZset
<1>2. DOMAIN z \subseteq JobIds
  <2> HIDE DEF z
  <2> QED
    BY <1>1, ZsetIs
<1>3. ASSUME NEW id \in JobIds
      PROVE  /\ id \in DOMAIN z <=> At(redis.job[id], "active")
             /\ id \in DOMAIN z => z[id] = redis.job[id].lockExpiresAt
  BY DEF Right, JobsRight, Settled, Where, InActive
<1>4. \A id : id \in X <=> id \in JobIds /\ At(redis.job[id], "active")
  BY DEF JobsWhere, Has, At
<1> HIDE DEF X, z
<1>5. DOMAIN f = X /\ f = [m \in DOMAIN f |-> f[m]]
  OBVIOUS
<1>6. \A m : m \in DOMAIN z <=> m \in DOMAIN f
  BY <1>2, <1>3, <1>4, <1>5
<1>7. \A m \in DOMAIN z : z[m] = f[m]
  BY <1>2, <1>3, <1>4
<1> HIDE DEF f
<1>8. z = f
  BY <1>1, <1>5, <1>6, <1>7, ZsetEquals
<1> QED
  BY <1>8 DEF f, z, X

LEMMA FinishedAgrees ==
    ASSUME Right(redis), NEW s \in TerminalStates
    PROVE  redis.finished[s] = [id \in JobsWhere(LAMBDA j : j.state = s) |->
                                   redis.job[id].finishedAt]
<1> DEFINE X == JobsWhere(LAMBDA j : j.state = s)
           f == [id \in X |-> redis.job[id].finishedAt]
           z == redis.finished[s]
<1>1. z \in Zset(JobIds, Nat)
  BY KeysAre DEF Right, FinishedZsets
<1>2. DOMAIN z \subseteq JobIds
  <2> HIDE DEF z
  <2> QED
    BY <1>1, ZsetIs
<1>3. ASSUME NEW id \in JobIds
      PROVE  /\ id \in DOMAIN z <=> At(redis.job[id], s)
             /\ id \in DOMAIN z => z[id] = redis.job[id].finishedAt
  BY DEF Right, JobsRight, Settled, Where, InFinished
<1>4. \A id : id \in X <=> id \in JobIds /\ At(redis.job[id], s)
  BY DEF JobsWhere, Has, At
<1> HIDE DEF X, z
<1>5. DOMAIN f = X /\ f = [m \in DOMAIN f |-> f[m]]
  OBVIOUS
<1>6. \A m : m \in DOMAIN z <=> m \in DOMAIN f
  BY <1>2, <1>3, <1>4, <1>5
<1>7. \A m \in DOMAIN z : z[m] = f[m]
  BY <1>2, <1>3, <1>4
<1> HIDE DEF f
<1>8. z = f
  BY <1>1, <1>5, <1>6, <1>7, ZsetEquals
<1> QED
  BY <1>8 DEF f, z, X

LEMMA TerminalAgrees ==
    ASSUME Right(redis), NEW s \in TerminalStates, NEW n \in Names
    PROVE  redis.terminal[<<n, s>>] =
              [id \in JobsWhere(LAMBDA j : j.state = s /\ j.name = n) |->
                  redis.job[id].finishedAt]
<1> DEFINE X == JobsWhere(LAMBDA j : j.state = s /\ j.name = n)
           f == [id \in X |-> redis.job[id].finishedAt]
           z == redis.terminal[<<n, s>>]
<1>1. z \in Zset(JobIds, Nat)
  BY KeysAre DEF Right, TerminalZsets, Groups
<1>2. DOMAIN z \subseteq JobIds
  <2> HIDE DEF z
  <2> QED
    BY <1>1, ZsetIs
<1>3. ASSUME NEW id \in JobIds
      PROVE  /\ id \in DOMAIN z <=> At(redis.job[id], s) /\ redis.job[id].name = n
             /\ id \in DOMAIN z => z[id] = redis.job[id].finishedAt
  BY DEF Right, JobsRight, Settled, Where, InTerminal
<1>4. \A id : id \in X <=> /\ id \in JobIds /\ At(redis.job[id], s)
                           /\ redis.job[id].name = n
  BY DEF JobsWhere, Has, At
<1> HIDE DEF X, z
<1>5. DOMAIN f = X /\ f = [m \in DOMAIN f |-> f[m]]
  OBVIOUS
<1>6. \A m : m \in DOMAIN z <=> m \in DOMAIN f
  BY <1>2, <1>3, <1>4, <1>5
<1>7. \A m \in DOMAIN z : z[m] = f[m]
  BY <1>2, <1>3, <1>4
<1> HIDE DEF f
<1>8. z = f
  BY <1>1, <1>5, <1>6, <1>7, ZsetEquals
<1> QED
  BY <1>8 DEF f, z, X

LEMMA PlacesFollow == ASSUME Right(redis) PROVE PlacesAgree
BY WaitingAgrees, DelayedAgrees, ActiveAgrees, FinishedAgrees, TerminalAgrees
DEF PlacesAgree

LEMMA NamesFollow ==
    ASSUME Right(redis), NEW n \in Names
    PROVE  redis.byname[n] = Restrict(redis.all, JobsWhere(LAMBDA j : j.name = n))
<1> DEFINE X == JobsWhere(LAMBDA j : j.name = n)
           f == Restrict(redis.all, X)
           z == redis.byname[n]
<1>1. z \in Zset(JobIds, Nat)
  BY KeysAre DEF Right
<1>2. DOMAIN z \subseteq JobIds
  <2> HIDE DEF z
  <2> QED
    BY <1>1, ZsetIs
<1>3. ASSUME NEW id \in JobIds
      PROVE  /\ id \in DOMAIN z <=> redis.job[id] # None /\ redis.job[id].name = n
             /\ id \in DOMAIN z => z[id] = redis.all[id]
  BY DEF Right, JobsRight, Listed, ListedAs
<1>4. \A id : id \in X <=> /\ id \in JobIds /\ redis.job[id] # None
                           /\ redis.job[id].name = n
  BY DEF JobsWhere, Has
<1> HIDE DEF X, z
<1>5. /\ DOMAIN f = X /\ f = [m \in DOMAIN f |-> f[m]]
      /\ \A m \in X : f[m] = redis.all[m]
  BY DEF Restrict
<1> HIDE DEF f
<1>6. \A m : m \in DOMAIN z <=> m \in DOMAIN f
  BY <1>2, <1>3, <1>4, <1>5
<1>7. \A m \in DOMAIN z : z[m] = f[m]
  BY <1>2, <1>3, <1>4, <1>5
<1>8. z = f
  BY <1>1, <1>5, <1>6, <1>7, ZsetEquals
<1> QED
  BY <1>8 DEF f, z, X

LEMMA QueuesFollow ==
    ASSUME Right(redis), NEW q \in Queues
    PROVE  redis.byqueue[q] = Restrict(redis.all, JobsWhere(LAMBDA j : j.queue = q))
<1> DEFINE X == JobsWhere(LAMBDA j : j.queue = q)
           f == Restrict(redis.all, X)
           z == redis.byqueue[q]
<1>1. z \in Zset(JobIds, Nat)
  BY KeysAre DEF Right
<1>2. DOMAIN z \subseteq JobIds
  <2> HIDE DEF z
  <2> QED
    BY <1>1, ZsetIs
<1>3. ASSUME NEW id \in JobIds
      PROVE  /\ id \in DOMAIN z <=> redis.job[id] # None /\ redis.job[id].queue = q
             /\ id \in DOMAIN z => z[id] = redis.all[id]
  BY DEF Right, JobsRight, Listed, ListedAs
<1>4. \A id : id \in X <=> /\ id \in JobIds /\ redis.job[id] # None
                           /\ redis.job[id].queue = q
  BY DEF JobsWhere, Has
<1> HIDE DEF X, z
<1>5. /\ DOMAIN f = X /\ f = [m \in DOMAIN f |-> f[m]]
      /\ \A m \in X : f[m] = redis.all[m]
  BY DEF Restrict
<1> HIDE DEF f
<1>6. \A m : m \in DOMAIN z <=> m \in DOMAIN f
  BY <1>2, <1>3, <1>4, <1>5
<1>7. \A m \in DOMAIN z : z[m] = f[m]
  BY <1>2, <1>3, <1>4, <1>5
<1>8. z = f
  BY <1>1, <1>5, <1>6, <1>7, ZsetEquals
<1> QED
  BY <1>8 DEF f, z, X

LEMMA ListsFollow == ASSUME Right(redis) PROVE IndexesAgree
<1>1. Members(redis.all) = JobsWhere(LAMBDA j : TRUE)
  <2> DEFINE X == JobsWhere(LAMBDA j : TRUE)  z == redis.all
  <2>1. z \in Zset(JobIds, Nat)
    BY KeysAre DEF Right
  <2>2. \A id : id \in X <=> id \in JobIds /\ redis.job[id] # None
    BY DEF JobsWhere, Has
  <2>3. \A id \in JobIds : id \in DOMAIN z <=> redis.job[id] # None
    BY DEF Right, JobsRight, Listed, ListedAs
  <2> HIDE DEF X, z
  <2>4. DOMAIN z \subseteq JobIds
    BY <2>1, ZsetIs
  <2>5. DOMAIN z = X
    BY <2>2, <2>3, <2>4
  <2> QED
    BY <2>5 DEF Members, X, z
<1>2. ASSUME NEW q \in Queues, NEW s \in JobStates
      PROVE  redis.counts[<<q, s>>] =
                Cardinality(JobsWhere(LAMBDA j : j.queue = q /\ j.state = s))
  <2>1. JobsWhere(LAMBDA j : j.queue = q /\ j.state = s) = InState(redis.job, q, s)
    BY DEF JobsWhere, Has, InState
  <2> QED
    BY <2>1 DEF Right, JobsRight, CountsRight
<1> QED
  BY <1>1, <1>2, NamesFollow, QueuesFollow DEF IndexesAgree

LEMMA DedupesFollow == ASSUME Right(redis) PROVE DedupesAgree
<1> DEFINE X == {d \in DOMAIN redis.dedupe : redis.dedupe[d] # None}
           f == [k \in X |-> redis.dedupe[k].expiresAt]
           z == redis.dedupes
<1>1. z \in Zset(DedupeMapKeys, Opt(Nat)) /\ DOMAIN redis.dedupe = DedupeMapKeys
  BY KeysAre DEF Right
<1>2. DOMAIN z \subseteq DedupeMapKeys
  <2> HIDE DEF z
  <2> QED
    BY <1>1, ZsetIs
<1>3. ASSUME NEW k \in DedupeMapKeys
      PROVE  /\ k \in DOMAIN z <=> redis.dedupe[k] # None
             /\ k \in DOMAIN z => z[k] = redis.dedupe[k].expiresAt
  BY DEF Right, DedupesRight
<1>4. \A k : k \in X <=> k \in DedupeMapKeys /\ redis.dedupe[k] # None
  BY <1>1
<1> HIDE DEF X, z
<1>5. DOMAIN f = X /\ f = [m \in DOMAIN f |-> f[m]]
  OBVIOUS
<1>6. \A m : m \in DOMAIN z <=> m \in DOMAIN f
  BY <1>2, <1>3, <1>4, <1>5
<1>7. \A m \in DOMAIN z : z[m] = f[m]
  BY <1>2, <1>3, <1>4
<1> HIDE DEF f
<1>8. z = f
  BY <1>1, <1>5, <1>6, <1>7, ZsetEquals
<1> QED
  BY <1>8 DEF f, z, X, DedupesAgree

LEMMA RowsFollow == ASSUME Right(redis) PROVE FlowIndexesAgree
<1> DEFINE rows == {r \in DOMAIN redis.flowchild : redis.flowchild[r] # None}
<1>1. /\ DOMAIN redis.flowchild = Rows /\ redis.flowpending \in Zset(Rows, Nat)
      /\ redis.flowcascade \subseteq Rows
  BY KeysAre DEF Right
<1>2. DOMAIN redis.flowpending \subseteq Rows
  <2> DEFINE z == redis.flowpending
  <2>1. z \in Zset(Rows, Nat)
    BY <1>1
  <2> HIDE DEF z
  <2>2. DOMAIN z \subseteq Rows
    BY <2>1, ZsetIs
  <2> QED
    BY <2>2 DEF z
<1>3. ASSUME NEW r \in Rows
      PROVE  /\ redis.flowchild[r] # None <=> r[2] \in redis.flowchildren[r[1]]
             /\ r \in DOMAIN redis.flowpending <=>
                   redis.flowchild[r] # None /\ redis.flowchild[r].status = "pending"
             /\ r \in DOMAIN redis.flowpending =>
                   redis.flowpending[r] >= redis.flowchild[r].pendingSince
             /\ r \in redis.flowcascade <=>
                   redis.flowchild[r] # None /\ redis.flowchild[r].status = "cancelled"
                   /\ ~redis.flowchild[r].cascaded
  <2>1. PICK id \in JobIds, k \in ChildKeys : r = <<id, k>>
    BY DEF Rows
  <2>2. RowRight(redis, id, k)
    BY DEF Right, FlowsRight
  <2> QED
    BY <2>1, <2>2 DEF RowRight
<1>4. \A r : r \in rows <=> r \in Rows /\ redis.flowchild[r] # None
  BY <1>1
<1>5. rows = {r \in JobIds \X ChildKeys : r[2] \in redis.flowchildren[r[1]]}
  BY <1>3, <1>4 DEF Rows
<1>6. Members(redis.flowpending) = {r \in rows : redis.flowchild[r].status = "pending"}
  <2> HIDE DEF rows
  <2> QED
    BY <1>2, <1>3, <1>4 DEF Members
<1>7. \A r \in Members(redis.flowpending) :
         redis.flowpending[r] >= redis.flowchild[r].pendingSince
  BY <1>2, <1>3 DEF Members
<1>8. redis.flowcascade = {r \in rows : /\ redis.flowchild[r].status = "cancelled"
                                       /\ ~redis.flowchild[r].cascaded}
  <2> HIDE DEF rows
  <2> QED
    BY <1>1, <1>3, <1>4
<1> QED
  BY <1>5, <1>6, <1>7, <1>8 DEF FlowIndexesAgree

-----------------------------------------------------------------------------
(* The theorems                                                            *)

LEMMA KeysHold == Spec => []KeysInv
<1> QED
  BY InitKeys, NextKeeps, PTL DEF Spec

(* Every script leaves each key of the store a value of the type the other *)
(* scripts read there: job hashes have all their fields, zsets score only  *)
(* ids they may hold, and no counter of a queue goes below zero.           *)
THEOREM TypeCorrect == Spec => []TypeOK
<1>1. KeysInv => TypeOK
  BY TypesFollow
<1> QED
  BY <1>1, KeysHold, PTL

(* After any number of script calls by any number of workers, producers    *)
(* and sweepers, every zset, counter and sweep index says of each job, row *)
(* and dedup key what its hash says: no script leaves a member behind,     *)
(* counts a job twice, or removes with a stale sequence number or score.   *)
THEOREM IndexesCorrect == Spec => []IndexInv
<1>1. KeysInv => IndexInv
  BY PlacesFollow, ListsFollow, DedupesFollow, RowsFollow DEF KeysInv, IndexInv
<1> QED
  BY <1>1, KeysHold, PTL

=============================================================================
