--------------------------- MODULE RedisJobStore ---------------------------
(***************************************************************************)
(* The Redis driver of the JobStore seam: the keys it keeps on the server  *)
(* (redis/scripts.ts) and the calls the driver makes (RedisJobStore.ts).   *)
(*                                                                         *)
(* A script runs alone on the server, so each is one action over the       *)
(* server's keys, written as an operator from keys to keys.  Calls of more *)
(* than one script are several actions: the chunked fan-out and the paged  *)
(* history sweep.  Their driver reads the clock once, before the first     *)
(* script; all other calls read it immediately before their only script.   *)
(*                                                                         *)
(* A zset is a function from its members to their scores.  Payload-like    *)
(* data, requests, records and constants are those of MemoryJobStore, the  *)
(* reference driver, which this module is checked against.                 *)
(***************************************************************************)
EXTENDS Integers, Sequences, FiniteSets, FiniteSetsExt, Functions, TLC

CONSTANTS
    JobIds,          \* ids, as numbers: Redis orders members by id
    Names, Queues, DedupeKeys, ChildKeys, Payloads, Requests,
    LockDurations, RetryDelays, MaxStalledCount, PendingAgeMs, SweepLimit,
    HistoryTtl, None,
    Scenarios,       \* what callers do: requests they submit, verbs they use,
                     \* how far clock, sequence numbers and lock tokens get
    ChunkSize,       \* rows per fan-out script (500 in the code)
    PageSize,        \* rows per sweep script (200 in the code)
    ReusedFlowIds,   \* whether calls meant for an earlier job with the flow's
                     \* id may reach rows that are only staged
    MaxTime, MaxSeq, MaxTokens  \* bounds, as in MemoryJobStore

VARIABLES
    now,       \* Clock.currentTimeMillis
    redis,     \* the keys under the store's prefix
    lastToken, \* last lock token a worker generated
    fanOuts,   \* per lock token, the fan-out ack its worker is in the middle of
    sweep,     \* the history sweep the driver is in the middle of
    wake,      \* queues the last reply told the driver to wake
    scenario   \* what the callers of this behaviour do (bound; never changes)

vars == <<now, redis, lastToken, fanOuts, sweep, wake, scenario>>

Verbs == {"cancel", "retry", "promote", "remove", "pause", "extendLocks",
          "historySweep", "fanOut", "report"}

ASSUME ScenariosAssumption ==
    Scenarios \subseteq [requests : SUBSET Requests, verbs : SUBSET Verbs,
                         time : 0..MaxTime, seq : 0..MaxSeq,
                         tokens : 0..MaxTokens]

\* What a driver call of several scripts holds between two of them.
FanOut == [id : JobIds, at : Nat, rest : SUBSET ChildKeys, total : Nat,
           failFast : BOOLEAN]
Sweep == [at : Nat, state : {"completed", "failed", "cancelled", "dedupes"},
          offset : Nat]

-----------------------------------------------------------------------------
(* Keys                                                                    *)

TerminalStates == {"completed", "failed", "cancelled"}
JobStates == {"waiting", "delayed", "active", "waiting-children"}
                 \cup TerminalStates
NoMembers == [m \in {} |-> 0]
Members(zset) == DOMAIN zset
ZAddAll(zset, members, score) ==
    [m \in Members(zset) \cup members |-> IF m \in members THEN score ELSE zset[m]]
ZAdd(zset, member, score) == ZAddAll(zset, {member}, score)
ZRem(zset, members) == Restrict(zset, Members(zset) \ members)
ZRangeByScore(zset, max) == {m \in Members(zset) : zset[m] <= max}

Empty ==
    [job |-> [id \in JobIds |-> None],               \* p:job:<id>, p:attempts:<id>
     all |-> NoMembers,                              \* p:all, by enqueuedAt
     byname |-> [n \in Names |-> NoMembers],         \* p:byname:<name>
     byqueue |-> [q \in Queues |-> NoMembers],       \* p:byqueue:<queue>
     waiting |-> [q \in Queues |-> NoMembers],       \* p:waiting:<queue>, by -priority
     delayed |-> [q \in Queues |-> NoMembers],       \* p:delayed:<queue>, by runAt
     active |-> NoMembers,                           \* p:active, by lockExpiresAt
     finished |-> [s \in TerminalStates |-> NoMembers],
     terminal |-> [g \in Names \X TerminalStates |-> NoMembers],
     counts |-> [c \in Queues \X JobStates |-> 0],
     dedupe |-> [k \in Names \X DedupeKeys |-> None], \* p:dedupe:<name>\0<key>
     dedupes |-> NoMembers,                          \* p:dedupes, None for +inf
     flowchild |-> [r \in JobIds \X ChildKeys |-> None],
     flowchildren |-> [id \in JobIds |-> {}],        \* p:flowchildren:<flowId>
     flowpending |-> NoMembers,                      \* p:flowpending
     flowcascade |-> {},                             \* p:flowcascade
     outbox |-> {}, outboxSeq |-> 0, paused |-> {}, seq |-> 0]

Has(db, id) == db.job[id] # None
HasManifest(db, id) == Has(db, id) /\ db.job[id].flow # None

-----------------------------------------------------------------------------
(* Helpers prepended to every script: operators from keys to keys.  t is   *)
(* the clock reading the driver passed in.                                 *)

Fault_CountsMoveBack(counts, queue, from, to) ==
    [counts EXCEPT ![<<queue, from>>] = @ + 1, ![<<queue, to>>] = @ - 1]

CountsMove(counts, queue, from, to) ==
    [counts EXCEPT ![<<queue, from>>] = @ - 1, ![<<queue, to>>] = @ + 1]

WaitingMember(j, id) == <<j.seq, id>>

AddWaiting(db, id) ==
    LET j == db.job[id]
    IN  [db EXCEPT !.waiting[j.queue] =
                       ZAdd(@, WaitingMember(j, id), -j.priority)]

Fault_RemWaitingNextSeq(db, id) ==
    LET j == db.job[id]
    IN  [db EXCEPT !.waiting[j.queue] =
                       ZRem(@, {WaitingMember([j EXCEPT !.seq = @ + 1], id)})]

RemWaiting(db, id) ==
    LET j == db.job[id]
    IN  [db EXCEPT !.waiting[j.queue] = ZRem(@, {WaitingMember(j, id)})]

\* The job's hash says j by now; its counters follow.
PutJob(db, id, j) ==
    [db EXCEPT !.job[id] = j,
               !.counts = CountsMove(@, j.queue, db.job[id].state, j.state)]

ClearLock(j) == [j EXCEPT !.lockToken = None, !.lockExpiresAt = None]
AppendAttempt(j, outcome) == [j EXCEPT !.attempts = Append(@, outcome)]

\* A job that becomes runnable or delayed again: its hash, counters, and
\* the zset that holds it.
Enter(db, id, j) ==
    LET db1 == PutJob(db, id, j)
    IN  IF j.state = "waiting" THEN AddWaiting(db1, id)
        ELSE [db1 EXCEPT !.delayed[j.queue] = ZAdd(@, id, j.runAt)]

AppendOutbox(db, id) ==
    LET j == db.job[id]
    IN  IF j.parent = None THEN db
        ELSE [db EXCEPT
                 !.outboxSeq = @ + 1,
                 !.outbox = @ \cup
                    {[stamp |-> db.outboxSeq + 1, flowId |-> j.parent.flowId,
                      childKey |-> j.parent.childKey, outcome |-> j.state,
                      exit |-> j.exit, failedReason |-> j.failedReason]}]

RowKeys(id, keys) == {<<id, k>> : k \in keys}

PendingRows(db, id) ==
    {r \in RowKeys(id, db.flowchildren[id]) :
        db.flowchild[r] # None /\ db.flowchild[r].status = "pending"}

CountMarked(flow, n) == [flow EXCEPT !.pending = 0, !.cancelled = @ + n]

\* markPendingRowsCancelled and the manifest counters.
SettleMarkRows(db, id) ==
    LET marked == PendingRows(db, id)
        db1 == [db EXCEPT
                   !.flowchild = [r \in DOMAIN @ |->
                       IF r \in marked
                       THEN [@[r] EXCEPT !.status = "cancelled",
                                         !.cascaded = FALSE]
                       ELSE @[r]],
                   !.flowpending = ZRem(@, marked),
                   !.flowcascade = @ \cup marked]
    IN  IF ~HasManifest(db, id) THEN db1
        ELSE [db1 EXCEPT !.job[id].flow = CountMarked(@, Cardinality(marked))]

Fault_OwesNothing(db, id) == FALSE

OwesCascades(db, id) ==
    \E r \in RowKeys(id, db.flowchildren[id]) :
        /\ db.flowchild[r] # None
        /\ db.flowchild[r].status = "cancelled"
        /\ ~db.flowchild[r].cascaded

\* Dependency rows of flow id with their index members.
DropRows(db, id, keys) ==
    LET rows == RowKeys(id, keys)
    IN  [db EXCEPT
            !.flowchild = [r \in DOMAIN @ |-> IF r \in rows THEN None ELSE @[r]],
            !.flowchildren[id] = @ \ keys,
            !.flowpending = ZRem(@, rows),
            !.flowcascade = @ \ rows]

\* deleteJob: the job and every index entry that references it; a flow
\* parent takes its dependency rows with it.
DeleteJob(id, db) ==
    LET j == db.job[id]
        db1 == DropRows(RemWaiting(db, id), id, db.flowchildren[id])
        Gone(zset) == ZRem(zset, {id})
    IN  [db1 EXCEPT
            !.job[id] = None,
            !.counts[<<j.queue, j.state>>] = @ - 1,
            !.all = Gone(@),
            !.byname[j.name] = Gone(@),
            !.byqueue[j.queue] = Gone(@),
            !.finished = [s \in TerminalStates |->
                             IF s = j.state THEN Gone(@[s]) ELSE @[s]],
            !.terminal = [g \in DOMAIN @ |->
                             IF g = <<j.name, j.state>> THEN Gone(@[g])
                             ELSE @[g]],
            !.active = Gone(@),
            !.delayed[j.queue] = Gone(@)]

DeleteJobs(db, ids) == FoldSet(DeleteJob, db, ids)

\* The count rule of applyKeep: members of the group behind `count` newer
\* ones, by finishedAt and then enqueue order.
BeyondCount(db, group, count) ==
    LET Newer(p, q) == \/ group[q] > group[p]
                       \/ /\ group[q] = group[p]
                          /\ db.job[q].seq > db.job[p].seq
    IN  {p \in Members(group) :
            Cardinality({q \in Members(group) : Newer(p, q)}) >= count}

\* applyKeep: drop what is too old, then what the count leaves no room for,
\* sparing parents that still owe cascades.
ApplyKeep(db, id, t) ==
    LET j == db.job[id]
        group == <<j.name, j.state>>
        policy == IF j.keep = None THEN None ELSE j.keep[j.state]
        Spared(db0, ids) == {p \in ids : ~OwesCascades(db0, p)}
        db1 == IF policy = None \/ policy.ageMs = None THEN db
               ELSE DeleteJobs(db, Spared(db, ZRangeByScore(
                                  db.terminal[group], t - policy.ageMs)))
    IN  IF policy = None \/ policy.count = None THEN db1
        ELSE DeleteJobs(db1, Spared(db1, BeyondCount(
                           db1, db1.terminal[group], policy.count)))

ReleaseDedupe(db, id, t) ==
    LET k == <<db.job[id].name, db.job[id].dedupeKey>>
    IN  IF /\ db.job[id].dedupeKey # None
           /\ db.dedupe[k] # None /\ db.dedupe[k].jobId = id
           /\ db.dedupe[k].expiresAt = None \/ db.dedupe[k].expiresAt <= t
        THEN [db EXCEPT !.dedupe[k] = None, !.dedupes = ZRem(@, {k})]
        ELSE db

\* What every script that ends a job does once it has left its old place:
\* terminal fields, counters, history, ledger, report, freed key.
FinishJob(db, id, j, state, t) ==
    LET done == AppendAttempt([ClearLock(j) EXCEPT !.state = state,
                                                   !.finishedAt = t,
                                                   !.cancelRequested = FALSE],
                              state)
        db1 == [PutJob(db, id, done) EXCEPT
                   !.finished[state] = ZAdd(@, id, t),
                   !.terminal[<<j.name, state>>] = ZAdd(@, id, t)]
    IN  ReleaseDedupe(AppendOutbox(db1, id), id, t)

FinishAndKeep(db, id, j, state, t) ==
    ApplyKeep(FinishJob(db, id, j, state, t), id, t)

\* finishCancelled, for a job that is active by its hash.
FinishCancelled(db, id, t) ==
    FinishAndKeep(db, id, db.job[id], "cancelled", t)

NewJob(r, n, t) ==
    [name |-> r.name, queue |-> r.queue, payload |-> r.payload,
     priority |-> r.priority, attemptsMax |-> r.attemptsMax,
     keep |-> r.keep,
     dedupeKey |-> IF r.dedupe = None THEN None ELSE r.dedupe.key,
     parent |-> r.parent,
     state |-> IF r.delayMs > 0 THEN "delayed" ELSE "waiting",
     attemptsMade |-> 0, stalledCount |-> 0, cancelRequested |-> FALSE,
     flow |-> None, runAt |-> t + r.delayMs, finishedAt |-> None,
     exit |-> FALSE, failedReason |-> FALSE, attempts |-> <<>>,
     seq |-> n, lockToken |-> None, lockExpiresAt |-> None]

\* insertJobRow, with both list indexes enabled (the default).
InsertJobRow(db, id, r, t) ==
    LET j == NewJob(r, db.seq + 1, t)
        db1 == [db EXCEPT
                   !.seq = @ + 1,
                   !.job[id] = j,
                   !.all = ZAdd(@, id, t),
                   !.byname[r.name] = ZAdd(@, id, t),
                   !.byqueue[r.queue] = ZAdd(@, id, t),
                   !.counts[<<r.queue, j.state>>] = @ + 1]
    IN  IF j.state = "waiting" THEN AddWaiting(db1, id)
        ELSE [db1 EXCEPT !.delayed[r.queue] = ZAdd(@, id, j.runAt)]

-----------------------------------------------------------------------------
(* Scripts with the driver call around them                                *)

\* The script left db behind and its reply made the driver wake qs.
Reply(db, qs) ==
    /\ redis' = db
    /\ wake' = qs
    /\ UNCHANGED <<now, fanOuts, sweep, scenario>>

KeyOf(r) == <<r.name, r.dedupe.key>>
EntryOf(r) == IF r.dedupe = None THEN None ELSE redis.dedupe[KeyOf(r)]
IdTaken(r) == r.id # None /\ Has(redis, r.id)
KeyedState(r) == IF ~Has(redis, EntryOf(r).jobId) THEN None
                 ELSE redis.job[EntryOf(r).jobId].state

\* windowEnd: the key's entry lives until then, also in the sweep's index.
SetWindow(db, r) ==
    [db EXCEPT !.dedupe[KeyOf(r)].expiresAt = now + r.dedupe.ttlMs,
               !.dedupes = ZAdd(@, KeyOf(r), now + r.dedupe.ttlMs)]

Replaces(r) ==
    EntryOf(r) # None /\ r.dedupe.replace /\ KeyedState(r) = "delayed"
WindowLive(r) ==
    /\ EntryOf(r) # None
    /\ EntryOf(r).expiresAt # None /\ EntryOf(r).expiresAt > now
KeyedPending(r) ==
    /\ EntryOf(r) # None /\ EntryOf(r).expiresAt = None
    /\ KeyedState(r) # None /\ KeyedState(r) \notin TerminalStates

\* enqueue, latest-wins while the keyed job is delayed.
EnqueueReplace(r) ==
    /\ ~IdTaken(r)
    /\ Replaces(r)
    /\ LET id == EntryOf(r).jobId
           j == [redis.job[id] EXCEPT
                    !.payload = r.payload, !.priority = r.priority,
                    !.attemptsMax = r.attemptsMax, !.keep = r.keep,
                    !.runAt = now + r.delayMs]
           db == [redis EXCEPT !.job[id] = j,
                               !.delayed[j.queue] = ZAdd(@, id, j.runAt)]
       IN  Reply(IF r.dedupe.ttlMs = None THEN db ELSE SetWindow(db, r),
                 {j.queue})
    /\ UNCHANGED lastToken

\* enqueue, a duplicate that bumps the window.
EnqueueBump(r) ==
    /\ ~IdTaken(r)
    /\ ~Replaces(r) /\ WindowLive(r)
    /\ r.dedupe.extend /\ r.dedupe.ttlMs # None
    /\ Reply(SetWindow(redis, r), {})
    /\ UNCHANGED lastToken

\* enqueue and the items of enqueueMany, the path that inserts.  A
\* generated id is any id not in use; the last write of the key is a +inf
\* member for pending mode.
Enqueue(r, id) ==
    /\ ~Has(redis, id)
    /\ r.id # None => id = r.id
    /\ ~Replaces(r) /\ ~WindowLive(r) /\ ~KeyedPending(r)
    /\ redis.seq < scenario.seq
    /\ LET db == InsertJobRow(redis, id, r, now)
           end == IF r.dedupe = None \/ r.dedupe.ttlMs = None THEN None
                  ELSE now + r.dedupe.ttlMs
       IN  Reply(IF r.dedupe = None THEN db
                 ELSE [db EXCEPT
                          !.dedupe[KeyOf(r)] = [jobId |-> id, expiresAt |-> end],
                          !.dedupes = ZAdd(@, KeyOf(r), end)],
                 {r.queue})
    /\ UNCHANGED lastToken

\* The head of claim: due delayed jobs of the queue become waiting, also
\* while it is paused.
PromoteDue(db, queue) ==
    LET Promote1(id, db0) ==
            Enter([db0 EXCEPT !.delayed[queue] = ZRem(@, {id})], id,
                  [db0.job[id] EXCEPT !.state = "waiting"])
    IN  FoldSet(Promote1, db, ZRangeByScore(db.delayed[queue], now))

\* claim: the first member of the waiting zset whose name matches.
Claim(queue, names, lockMs) ==
    LET db == PromoteDue(redis, queue)
        zset == db.waiting[queue]
        matching == {m \in Members(zset) : db.job[m[2]].name \in names}
        Before(m, n) == \/ zset[m] < zset[n]
                        \/ zset[m] = zset[n] /\ m[1] < n[1]
        token == lastToken + 1
    IN  /\ queue \notin redis.paused
        /\ token <= scenario.tokens
        /\ \E m \in matching :
              /\ \A n \in matching \ {m} : Before(m, n)
              /\ LET id == m[2]
                     j == [db.job[id] EXCEPT !.state = "active",
                                             !.lockToken = token,
                                             !.lockExpiresAt = now + lockMs]
                 IN  Reply([PutJob(db, id, j) EXCEPT
                               !.waiting[queue] = ZRem(@, {m}),
                               !.active = ZAdd(@, id, now + lockMs)], {})
        /\ lastToken' = token

ClaimEmpty(queue, names) ==
    LET db == PromoteDue(redis, queue)
    IN  /\ db # redis
        /\ \/ queue \in redis.paused
           \/ \A m \in Members(db.waiting[queue]) :
                 db.job[m[2]].name \notin names
        /\ Reply(db, {})
        /\ UNCHANGED lastToken

\* The guard of ack, release, extendLocks and fanOut.
Held(id, token) ==
    /\ Has(redis, id)
    /\ redis.job[id].state = "active"
    /\ redis.job[id].lockToken = token

\* What ack writes before it looks at the outcome.
Acked(id) ==
    [redis EXCEPT !.job[id].attemptsMade = @ + 1, !.active = ZRem(@, {id})]

AckTerminal(id, token, state, exit) ==
    /\ Held(id, token)
    /\ state = "completed" => exit
    /\ state = "cancelled" => ~exit
    /\ LET j == [Acked(id).job[id] EXCEPT
                    !.exit = IF state = "cancelled" THEN @ ELSE exit]
       IN  Reply(FinishAndKeep(Acked(id), id, j, state, now), {})
    /\ UNCHANGED lastToken

\* ack Retry: a pending cancel wins over the revival.
AckRetry(id, token, delayMs) ==
    /\ Held(id, token)
    /\ LET db == Acked(id)
           j == db.job[id]
       IN  IF j.cancelRequested
           THEN Reply(FinishCancelled(db, id, now), {})
           ELSE /\ db.seq < scenario.seq
                /\ Reply(Enter([db EXCEPT !.seq = @ + 1], id,
                           AppendAttempt([ClearLock(j) EXCEPT
                               !.seq = db.seq + 1, !.runAt = now + delayMs,
                               !.state = IF delayMs > 0 THEN "delayed"
                                         ELSE "waiting"], "retried")),
                         {j.queue})
    /\ UNCHANGED lastToken

Release(id, token) ==
    /\ Held(id, token)
    /\ LET db == [redis EXCEPT !.active = ZRem(@, {id})]
           j == db.job[id]
       IN  IF j.cancelRequested
           THEN Reply(FinishCancelled(db, id, now), {})
           ELSE Reply(Enter(db, id, [ClearLock(j) EXCEPT !.state = "waiting"]),
                      {j.queue})
    /\ UNCHANGED lastToken

\* The part of extendLocks that writes, per lock.
ExtendLocks(id, token, lockMs) ==
    /\ Held(id, token) /\ ~redis.job[id].cancelRequested
    /\ Reply([redis EXCEPT !.job[id].lockExpiresAt = now + lockMs,
                           !.active = ZAdd(@, id, now + lockMs)], {})
    /\ UNCHANGED lastToken

\* recoverStalled for one expired member of p:active.
Recover(id, db0) ==
    LET db == [db0 EXCEPT !.active = ZRem(@, {id})]
        j == db.job[id]
        stalled == [ClearLock(j) EXCEPT !.stalledCount = @ + 1,
                                        !.attempts = Append(@, "stalled")]
        failed == [stalled EXCEPT !.state = "failed", !.finishedAt = now,
                                  !.failedReason = TRUE]
    IN  IF j.cancelRequested THEN FinishCancelled(db, id, now)
        ELSE IF stalled.stalledCount > MaxStalledCount
        THEN ReleaseDedupe(AppendOutbox(
                [PutJob(db, id, failed) EXCEPT
                    !.finished["failed"] = ZAdd(@, id, now),
                    !.terminal[<<j.name, "failed">>] = ZAdd(@, id, now)],
                id), id, now)
        ELSE Enter(db, id, [stalled EXCEPT !.state = "waiting"])

RecoverStalled ==
    LET expired == ZRangeByScore(redis.active, now)
        db == FoldSet(Recover, redis, expired)
    IN  /\ expired # {}
        /\ Reply(db, IF \E id \in expired : Has(db, id)
                                            /\ db.job[id].state = "waiting"
                     THEN Queues ELSE {})
        /\ UNCHANGED lastToken

Remove(id) ==
    /\ Has(redis, id)
    /\ redis.job[id].state \notin {"active", "waiting-children"}
    /\ Reply(DeleteJob(id, redis), {})
    /\ UNCHANGED lastToken

Retry(id) ==
    /\ Has(redis, id) /\ redis.job[id].state = "failed"
    /\ redis.seq < scenario.seq
    /\ LET j == redis.job[id]
           db == [redis EXCEPT !.seq = @ + 1,
                               !.finished["failed"] = ZRem(@, {id}),
                               !.terminal[<<j.name, "failed">>] = ZRem(@, {id})]
       IN  Reply(Enter(db, id, [j EXCEPT
                    !.state = "waiting", !.attemptsMade = 0,
                    !.stalledCount = 0, !.cancelRequested = FALSE,
                    !.exit = FALSE, !.failedReason = FALSE,
                    !.finishedAt = None, !.runAt = now, !.seq = db.seq]),
                 {j.queue})
    /\ UNCHANGED lastToken

\* cancel, and cancelByDedupe with the id it read from the key before.
Cancel(id) ==
    /\ Has(redis, id)
    /\ redis.job[id].state \notin TerminalStates
    /\ LET j == redis.job[id]
           settled == IF j.state = "waiting-children"
                      THEN SettleMarkRows(redis, id) ELSE redis
           db == [RemWaiting(settled, id) EXCEPT
                     !.delayed[j.queue] = ZRem(@, {id})]
       IN  Reply(IF j.state = "active"
                 THEN [redis EXCEPT !.job[id].cancelRequested = TRUE]
                 ELSE FinishAndKeep(db, id, db.job[id], "cancelled", now), {})
    /\ UNCHANGED lastToken

Promote(id) ==
    /\ Has(redis, id) /\ redis.job[id].state = "delayed"
    /\ LET j == redis.job[id]
       IN  Reply(Enter([redis EXCEPT !.delayed[j.queue] = ZRem(@, {id})], id,
                       [j EXCEPT !.state = "waiting", !.runAt = now]),
                 {j.queue})
    /\ UNCHANGED lastToken

Pause(queue) ==
    /\ queue \notin redis.paused
    /\ Reply([redis EXCEPT !.paused = @ \cup {queue}], {})
    /\ UNCHANGED lastToken

Resume(queue) ==
    /\ queue \in redis.paused
    /\ Reply([redis EXCEPT !.paused = @ \ {queue}], {queue})
    /\ UNCHANGED lastToken

-----------------------------------------------------------------------------
(* The fan-out ack: rows in chunks, the manifest with the last one         *)

Fault_StageOverLeftovers(db, id, keys, clearStaged, t) ==
    IF HasManifest(db, id) THEN db
    ELSE LET rows == RowKeys(id, keys)
         IN  [db EXCEPT
                 !.flowchild = [r \in DOMAIN @ |->
                     IF r \in rows
                     THEN [status |-> "pending", cascaded |-> FALSE,
                           pendingSince |-> t]
                     ELSE @[r]],
                 !.flowchildren[id] = @ \cup keys,
                 !.flowpending = ZAddAll(@, rows, t)]

\* Staging: without a manifest the first chunk clears what a crashed
\* attempt left, and every chunk writes its rows.  (A row's pendingSince is
\* here when it was staged or last returned by the sweep, which is what the
\* reference driver's row remembers; no script reads the hash field.)
Stage(db, id, keys, clearStaged, t) ==
    IF HasManifest(db, id) THEN db
    ELSE LET db1 == IF clearStaged THEN DropRows(db, id, db.flowchildren[id])
                    ELSE db
             rows == RowKeys(id, keys)
         IN  [db1 EXCEPT
                 !.flowchild = [r \in DOMAIN @ |->
                     IF r \in rows
                     THEN [status |-> "pending", cascaded |-> FALSE,
                           pendingSince |-> t]
                     ELSE @[r]],
                 !.flowchildren[id] = @ \cup keys,
                 !.flowpending = ZAddAll(@, rows, t)]

\* The final chunk's second half: ledger, manifest, transition.
FanOutFinal(staged, id, failFast, total, t) ==
    LET j == AppendAttempt(
                [staged.job[id] EXCEPT
                    !.flow = IF @ # None THEN @
                             ELSE [failFast |-> failFast, pending |-> total,
                                   completed |-> 0, failed |-> 0,
                                   cancelled |-> 0]], "fanned-out")
        db == [staged EXCEPT !.job[id] = j, !.active = ZRem(@, {id})]
    IN  IF j.cancelRequested THEN FinishCancelled(SettleMarkRows(db, id), id, t)
        ELSE IF j.flow.pending > 0
        THEN PutJob(db, id, [ClearLock(j) EXCEPT !.state = "waiting-children"])
        ELSE Enter([db EXCEPT !.seq = @ + 1], id,
                   [ClearLock(j) EXCEPT !.state = "waiting", !.runAt = t,
                                        !.seq = db.seq + 1])

\* One fanOut script of the ack a of token; `final` when no row is left.
FanOutChunk(a, token, chunk, first) ==
    LET staged == Stage(redis, a.id, chunk, first, a.at)
        final == chunk = a.rest
        db == FanOutFinal(staged, a.id, a.failFast, a.total, a.at)
    IN  /\ chunk \subseteq a.rest
        /\ \/ Cardinality(chunk) = ChunkSize
           \/ final /\ Cardinality(chunk) < ChunkSize
        /\ redis' = IF final THEN db ELSE staged
        /\ fanOuts' = [fanOuts EXCEPT ![token] =
                          IF final THEN None ELSE [a EXCEPT !.rest = @ \ chunk]]
        /\ redis'.seq <= scenario.seq
        /\ wake' = IF ~final THEN wake
                   ELSE IF db.seq > redis.seq THEN {redis.job[a.id].queue}
                   ELSE {}
        /\ UNCHANGED <<now, lastToken, sweep, scenario>>

\* The ack begins: the driver reads the clock and runs the first chunk.  A
\* worker whose chunk failed retries the ack with the same token and the
\* same children, and begins again.
FanOutBegin(id, token, children, failFast, chunk) ==
    /\ Held(id, token)
    /\ fanOuts[token] # None =>
          /\ fanOuts[token].rest \subseteq children
          /\ fanOuts[token].total = Cardinality(children)
          /\ fanOuts[token].failFast = failFast
    /\ FanOutChunk([id |-> id, at |-> now, rest |-> children,
                    total |-> Cardinality(children), failFast |-> failFast],
                   token, chunk, TRUE)

\* Later chunks, unless the lock was lost since: the ack then fails.  A
\* worker that dies in between never runs them.
FanOutContinue(token, chunk) ==
    /\ fanOuts[token] # None
    /\ Held(fanOuts[token].id, token)
    /\ FanOutChunk(fanOuts[token], token, chunk, FALSE)

FanOutLost(token) ==
    /\ fanOuts[token] # None
    /\ ~Held(fanOuts[token].id, token)
    /\ fanOuts' = [fanOuts EXCEPT ![token] = None]
    /\ UNCHANGED <<now, redis, lastToken, sweep, wake, scenario>>

-----------------------------------------------------------------------------
(* Reports, reconciliation, cascades                                       *)

CountReports(flow, reports) ==
    LET Count(outcome) ==
            Cardinality({k \in DOMAIN reports : reports[k] = outcome})
    IN  [flow EXCEPT !.pending = Max({0, @ - Cardinality(DOMAIN reports)}),
                     !.completed = @ + Count("completed"),
                     !.failed = @ + Count("failed"),
                     !.cancelled = @ + Count("cancelled")]

\* recordChildResults for the reports of one flow.
RecordChildResults(flowId, reports) ==
    LET applied == {k \in DOMAIN reports : <<flowId, k>> \in PendingRows(redis, flowId)}
        rows == [redis EXCEPT
            !.flowchild = [r \in DOMAIN @ |->
                IF r \in RowKeys(flowId, applied)
                THEN [@[r] EXCEPT !.status = reports[r[2]], !.cascaded = TRUE]
                ELSE @[r]],
            !.flowpending = ZRem(@, RowKeys(flowId, applied))]
        db == IF ~HasManifest(redis, flowId) THEN rows
              ELSE [rows EXCEPT
                  !.job[flowId].flow = CountReports(@, Restrict(reports, applied))]
        j == db.job[flowId]
        parked == HasManifest(db, flowId) /\ j.state = "waiting-children"
        failsFast == /\ parked /\ j.flow.failFast
                     /\ \E k \in applied : reports[k] = "failed"
        settled == SettleMarkRows(db, flowId)
    IN  /\ applied # {}
        /\ ReusedFlowIds \/ HasManifest(redis, flowId)
        /\ \/ /\ failsFast
              /\ Reply(FinishAndKeep(settled, flowId,
                           [settled.job[flowId] EXCEPT !.failedReason = TRUE],
                           "failed", now), {})
           \/ /\ parked /\ ~failsFast /\ j.flow.pending = 0
              /\ db.seq < scenario.seq
              /\ Reply(Enter([db EXCEPT !.seq = @ + 1], flowId,
                             [j EXCEPT !.state = "waiting", !.runAt = now,
                                       !.seq = db.seq + 1]), {j.queue})
           \/ /\ parked => ~failsFast /\ j.flow.pending > 0
              /\ Reply(db, {})
        /\ UNCHANGED lastToken

DeleteOutbox(entries) ==
    /\ Reply([redis EXCEPT !.outbox = @ \ entries], {})
    /\ UNCHANGED lastToken

\* The first SweepLimit due members of flowpending, ties in any order.
DuePage(page) ==
    LET due == ZRangeByScore(redis.flowpending, now - PendingAgeMs)
    IN  /\ page \subseteq due
        /\ Cardinality(page) = Min({SweepLimit, Cardinality(due)})
        /\ \A m \in page, n \in due \ page :
              redis.flowpending[m] <= redis.flowpending[n]

Orphaned(db, member) ==
    LET id == member[1]
    IN  ~Has(db, id) \/ (db.job[id].state \in TerminalStates /\ ~HasManifest(db, id))

\* flowSweepWork for one scanned member: purge, self-heal, or re-arm.
SweepMember(member, db) ==
    IF Orphaned(db, member) THEN DropRows(db, member[1], {member[2]})
    ELSE IF /\ db.job[member[1]].state = "waiting-children"
            /\ member \notin PendingRows(db, member[1])
    THEN [db EXCEPT !.flowpending = ZRem(@, {member})]
    ELSE [db EXCEPT !.flowpending = ZAdd(@, member, now),
                    !.flowchild[member].pendingSince =
                        IF db.job[member[1]].state = "waiting-children" THEN now
                        ELSE @]

FlowSweepWork(page) ==
    /\ DuePage(page) /\ page # {}
    /\ Reply(FoldSet(SweepMember, redis, page), {})
    /\ UNCHANGED lastToken

MarkChildrenCascaded(flowId, keys) ==
    /\ keys # {}
    /\ ReusedFlowIds \/ HasManifest(redis, flowId)
    /\ Reply([redis EXCEPT
                 !.flowchild = [r \in DOMAIN @ |->
                     IF r \in RowKeys(flowId, keys) /\ @[r] # None
                     THEN [@[r] EXCEPT !.cascaded = TRUE] ELSE @[r]],
                 !.flowcascade = @ \ RowKeys(flowId, keys)], {})
    /\ UNCHANGED lastToken

-----------------------------------------------------------------------------
(* The history sweep, page by page                                         *)

NextState(state) == CASE state = "completed" -> "failed"
                      [] state = "failed" -> "cancelled"
                      [] state = "cancelled" -> "dedupes"

SweepBegin ==
    /\ sweep = None
    /\ \E s \in TerminalStates : HistoryTtl[s] # None
    /\ sweep' = [at |-> now, state |-> "completed", offset |-> 0]
    /\ UNCHANGED <<now, redis, lastToken, fanOuts, wake, scenario>>

\* The stricter of the store's ceiling and the row's own keep age.
CutoffAge(j) ==
    LET ttl == HistoryTtl[j.state]
        age == IF j.keep = None \/ j.keep[j.state] = None THEN None
               ELSE j.keep[j.state].ageMs
    IN  IF age # None /\ (ttl = None \/ age < ttl) THEN age ELSE ttl

\* ZRANGEBYSCORE -inf t LIMIT offset limit: members by score, then by id.
Page(zset, t, offset, limit) ==
    LET before(m) == {n \in ZRangeByScore(zset, t) :
                         zset[n] < zset[m] \/ (zset[n] = zset[m] /\ n < m)}
    IN  {m \in ZRangeByScore(zset, t) :
            Cardinality(before(m)) \in offset..(offset + limit - 1)}

SweepVictims(db, batch, t) ==
    {id \in batch : /\ CutoffAge(db.job[id]) # None
                    /\ db.job[id].finishedAt <= t - CutoffAge(db.job[id])
                    /\ ~OwesCascades(db, id)}

\* sweepState with the driver's cursor: on by what was scanned and stayed.
SweepState ==
    /\ sweep # None /\ sweep.state # "dedupes"
    /\ LET batch == Page(redis.finished[sweep.state], sweep.at, sweep.offset,
                         PageSize)
           victims == SweepVictims(redis, batch, sweep.at)
       IN  /\ redis' = DeleteJobs(redis, victims)
           /\ sweep' = IF Cardinality(batch) < PageSize
                       THEN [sweep EXCEPT !.state = NextState(@), !.offset = 0]
                       ELSE [sweep EXCEPT !.offset =
                                @ + Cardinality(batch) - Cardinality(victims)]
    /\ UNCHANGED <<now, lastToken, fanOuts, wake, scenario>>

DeadKeys(db, t) ==
    {k \in Members(db.dedupes) :
        IF db.dedupes[k] # None THEN db.dedupes[k] <= t
        ELSE \/ ~Has(db, db.dedupe[k].jobId)
             \/ db.job[db.dedupe[k].jobId].state \in TerminalStates}

\* sweepDedupes; one batch holds every dead key of an instance.
SweepDedupes ==
    /\ sweep # None /\ sweep.state = "dedupes"
    /\ LET dead == DeadKeys(redis, sweep.at)
       IN  redis' = [redis EXCEPT
                        !.dedupe = [k \in DOMAIN @ |->
                                       IF k \in dead THEN None ELSE @[k]],
                        !.dedupes = ZRem(@, dead)]
    /\ sweep' = None
    /\ UNCHANGED <<now, lastToken, fanOuts, wake, scenario>>

-----------------------------------------------------------------------------
Tick ==
    /\ now < scenario.time
    /\ now' = now + 1
    /\ wake' = {}
    /\ UNCHANGED <<redis, lastToken, fanOuts, sweep, scenario>>

Init ==
    /\ now = 0
    /\ redis = Empty
    /\ lastToken = 0
    /\ fanOuts = [token \in 1..MaxTokens |-> None]
    /\ sweep = None
    /\ wake = {}
    /\ scenario \in Scenarios

Use(verb) == verb \in scenario.verbs

ProducerNext ==
    \E r \in scenario.requests :
        \/ \E id \in JobIds : Enqueue(r, id)
        \/ EnqueueReplace(r)
        \/ EnqueueBump(r)

WorkerNext ==
    \/ \E queue \in Queues, names \in SUBSET Names :
          \/ \E lockMs \in LockDurations : Claim(queue, names, lockMs)
          \/ ClaimEmpty(queue, names)
    \/ \E id \in JobIds, token \in 1..lastToken :
          \/ \E state \in TerminalStates, exit \in BOOLEAN :
                AckTerminal(id, token, state, exit)
          \/ \E delayMs \in RetryDelays : AckRetry(id, token, delayMs)
          \/ Release(id, token)
          \/ /\ Use("extendLocks")
             /\ \E lockMs \in LockDurations : ExtendLocks(id, token, lockMs)
    \/ RecoverStalled

FanOutNext ==
    \E token \in 1..lastToken, chunk \in SUBSET ChildKeys :
        \/ /\ Use("fanOut")
           /\ \E id \in JobIds, children \in SUBSET ChildKeys,
                failFast \in BOOLEAN :
                    FanOutBegin(id, token, children, failFast, chunk)
        \/ FanOutContinue(token, chunk)
        \/ FanOutLost(token)

FlowNext ==
    \/ \E flowId \in JobIds, keys \in SUBSET ChildKeys :
          \/ /\ Use("report")
             /\ \E reports \in [keys -> TerminalStates] :
                   RecordChildResults(flowId, reports)
          \/ MarkChildrenCascaded(flowId, keys)
    \/ /\ Use("report")
       /\ \E entries \in SUBSET redis.outbox : DeleteOutbox(entries)
    \/ \E page \in SUBSET Members(redis.flowpending) : FlowSweepWork(page)

AdminNext ==
    \/ \E id \in JobIds :
          \/ Use("cancel") /\ Cancel(id)
          \/ Use("retry") /\ Retry(id)
          \/ Use("promote") /\ Promote(id)
          \/ Use("remove") /\ Remove(id)
    \/ \E queue \in Queues : Use("pause") /\ (Pause(queue) \/ Resume(queue))
    \/ Use("historySweep") /\ (SweepBegin \/ SweepState \/ SweepDedupes)

Next ==
    ProducerNext \/ WorkerNext \/ FanOutNext \/ FlowNext \/ AdminNext \/ Tick

Spec == Init /\ [][Next]_vars

-----------------------------------------------------------------------------
(* Invariants                                                              *)

JobsWhere(Test(_)) ==
    {id \in JobIds : Has(redis, id) /\ Test(redis.job[id])}

\* The lifecycle zsets: each job is where its hash says, with that score.
PlacesAgree ==
    /\ \A q \in Queues :
        /\ redis.waiting[q] =
              [m \in {<<redis.job[id].seq, id>> : id \in JobsWhere(
                         LAMBDA j : j.queue = q /\ j.state = "waiting")} |->
                  -redis.job[m[2]].priority]
        /\ redis.delayed[q] =
              [id \in JobsWhere(LAMBDA j : j.queue = q /\ j.state = "delayed")
                  |-> redis.job[id].runAt]
    /\ redis.active = [id \in JobsWhere(LAMBDA j : j.state = "active") |->
                          redis.job[id].lockExpiresAt]
    /\ \A s \in TerminalStates :
        /\ redis.finished[s] = [id \in JobsWhere(LAMBDA j : j.state = s) |->
                                   redis.job[id].finishedAt]
        /\ \A n \in Names : redis.terminal[<<n, s>>] =
              [id \in JobsWhere(LAMBDA j : j.state = s /\ j.name = n) |->
                  redis.job[id].finishedAt]

\* The list indexes and the counters.
IndexesAgree ==
    /\ Members(redis.all) = JobsWhere(LAMBDA j : TRUE)
    /\ \A n \in Names : redis.byname[n] =
          Restrict(redis.all, JobsWhere(LAMBDA j : j.name = n))
    /\ \A q \in Queues : redis.byqueue[q] =
          Restrict(redis.all, JobsWhere(LAMBDA j : j.queue = q))
    /\ \A q \in Queues, s \in JobStates : redis.counts[<<q, s>>] =
          Cardinality(JobsWhere(LAMBDA j : j.queue = q /\ j.state = s))

\* The dedup index: every key the sweep must be able to find.
DedupesAgree ==
    redis.dedupes = [k \in {d \in DOMAIN redis.dedupe : redis.dedupe[d] # None}
                        |-> redis.dedupe[k].expiresAt]

\* The flow indexes: rows, pending rows no sooner than they were last
\* returned, and every cancel still owed.
FlowIndexesAgree ==
    LET rows == {r \in DOMAIN redis.flowchild : redis.flowchild[r] # None}
        Rows(Test(_)) == {r \in rows : Test(redis.flowchild[r])}
    IN  /\ rows = {r \in JobIds \X ChildKeys : r[2] \in redis.flowchildren[r[1]]}
        /\ Members(redis.flowpending) =
              Rows(LAMBDA row : row.status = "pending")
        /\ \A r \in Members(redis.flowpending) :
              redis.flowpending[r] >= redis.flowchild[r].pendingSince
        /\ redis.flowcascade =
              Rows(LAMBDA row : row.status = "cancelled" /\ ~row.cascaded)

(* Whatever path a job took (ack, stall, cancel, settle, replace, retry,   *)
(* retention, staging), every zset, counter and sweep index that refers to *)
(* it says what its hash says: no script leaves a member behind, counts    *)
(* twice, or removes with a stale sequence number or score.                *)
IndexInv == PlacesAgree /\ IndexesAgree /\ DedupesAgree /\ FlowIndexesAgree

-----------------------------------------------------------------------------
(* Implementation of the reference driver                                  *)

\* The dependency rows callers can see: staged rows have no manifest yet.
VisibleRows ==
    [id \in JobIds |-> [k \in ChildKeys |->
        IF HasManifest(redis, id) THEN redis.flowchild[<<id, k>>] ELSE None]]

\* The reference driver at clock reading t.
MemAt(t) == INSTANCE MemoryJobStore WITH
    ParentIds <- JobIds,
    now <- t, jobs <- redis.job, flowChildren <- VisibleRows,
    dedupes <- redis.dedupe, outbox <- redis.outbox, paused <- redis.paused,
    seq <- redis.seq, outboxSeq <- redis.outboxSeq, woken <- wake

Mem == INSTANCE MemoryJobStore WITH
    ParentIds <- JobIds,
    jobs <- redis.job, flowChildren <- VisibleRows,
    dedupes <- redis.dedupe, outbox <- redis.outbox, paused <- redis.paused,
    seq <- redis.seq, outboxSeq <- redis.outboxSeq, woken <- wake

-----------------------------------------------------------------------------
(* Types                                                                   *)

Opt(S) == S \cup {None}

\* The envelopes of requests that are children of flows; the flow may live
\* in another store.
Envelopes == {r.parent : r \in Requests} \ {None}

Request ==
    [id : Opt(JobIds), name : Names, queue : Queues, payload : Payloads,
     priority : Int, attemptsMax : Nat, keep : Opt(Mem!KeepPolicy),
     dedupe : Opt(Mem!DedupePolicy), parent : Opt(Envelopes), delayMs : Nat]

JobHash ==
    [name : Names, queue : Queues, payload : Payloads, priority : Int,
     attemptsMax : Nat, keep : Opt(Mem!KeepPolicy),
     dedupeKey : Opt(DedupeKeys), parent : Opt(Envelopes),
     state : JobStates, attemptsMade : Nat, stalledCount : Nat,
     cancelRequested : BOOLEAN, flow : Opt(Mem!FlowState), runAt : Nat,
     finishedAt : Opt(Nat), exit : BOOLEAN, failedReason : BOOLEAN,
     attempts : Seq(Mem!AttemptOutcomes), seq : Nat, lockToken : Opt(Nat),
     lockExpiresAt : Opt(Nat)]

OutboxEntry ==
    [stamp : Nat, flowId : {e.flowId : e \in Envelopes},
     childKey : {e.childKey : e \in Envelopes},
     outcome : TerminalStates, exit : BOOLEAN, failedReason : BOOLEAN]

ASSUME ConstantsAssumption ==
    /\ IsFiniteSet(JobIds) /\ IsFiniteSet(ChildKeys)
    /\ Requests \subseteq Request
    /\ LockDurations \subseteq Nat /\ RetryDelays \subseteq Nat
    /\ MaxStalledCount \in Nat /\ PendingAgeMs \in Nat
    /\ HistoryTtl \in [TerminalStates -> Opt(Nat)]
    /\ MaxTime \in Nat /\ MaxSeq \in Nat /\ MaxTokens \in Nat

(* `undefined` is none of the values it stands in for.                     *)
ASSUME NoneAssumption ==
    /\ None \notin JobIds /\ None \notin DedupeKeys /\ None \notin Nat
    /\ None \notin JobStates
    /\ None \notin JobHash /\ None \notin Mem!FlowState
    /\ None \notin Mem!DedupeEntry /\ None \notin Mem!MemFlowChild
    /\ None \notin Mem!DedupePolicy
    /\ None \notin Mem!KeepStatePolicy /\ None \notin Mem!KeepPolicy
    /\ None \notin FanOut /\ None \notin Sweep

IsZset(zset, S, Scores) ==
    Members(zset) \subseteq S /\ zset \in [Members(zset) -> Scores]

\* Every key holds what its scripts expect to read there: a hash of a job
\* has all its fields, a counter is a number, a zset scores the ids it may.
TypeOK ==
    /\ now \in Nat /\ lastToken \in 0..MaxTokens /\ wake \subseteq Queues
    /\ fanOuts \in [1..MaxTokens -> Opt(FanOut)]
    /\ sweep \in Opt(Sweep)
    /\ scenario \in Scenarios
    /\ redis.job \in [JobIds -> Opt(JobHash)]
    /\ IsZset(redis.all, JobIds, Nat)
    /\ \A n \in Names : IsZset(redis.byname[n], JobIds, Nat)
    /\ \A q \in Queues :
          /\ IsZset(redis.byqueue[q], JobIds, Nat)
          /\ IsZset(redis.waiting[q], Nat \X JobIds, Int)
          /\ IsZset(redis.delayed[q], JobIds, Nat)
    /\ IsZset(redis.active, JobIds, Nat)
    /\ \A s \in TerminalStates :
          /\ IsZset(redis.finished[s], JobIds, Nat)
          /\ \A n \in Names : IsZset(redis.terminal[<<n, s>>], JobIds, Nat)
    /\ redis.counts \in [Queues \X JobStates -> Nat]
    /\ redis.dedupe \in [Names \X DedupeKeys -> Opt(Mem!DedupeEntry)]
    /\ IsZset(redis.dedupes, Names \X DedupeKeys, Opt(Nat))
    /\ redis.flowchild \in [JobIds \X ChildKeys -> Opt(Mem!MemFlowChild)]
    /\ redis.flowchildren \in [JobIds -> SUBSET ChildKeys]
    /\ IsZset(redis.flowpending, JobIds \X ChildKeys, Nat)
    /\ redis.flowcascade \subseteq JobIds \X ChildKeys
    /\ redis.outbox \subseteq OutboxEntry
    /\ redis.outboxSeq \in Nat /\ redis.seq \in Nat
    /\ redis.paused \subseteq Queues

-----------------------------------------------------------------------------
(* The operations                                                          *)

\* A chunked fan-out ack takes effect at its last chunk, with the clock it
\* read at its first.
LateFanOut ==
    /\ now' = now
    /\ \E t \in 0..now, id \in JobIds, token \in 1..lastToken,
          children \in SUBSET ChildKeys, failFast \in BOOLEAN :
             MemAt(t)!AckFanOut(id, token, children, failFast)

\* A page of the history sweep deletes some of the jobs that are due and
\* owe nothing, or frees some of the keys whose window or job is over.
RetentionPage ==
    LET gone == {id \in JobIds : Has(redis, id) /\ redis.job'[id] = None}
        freed == {k \in DOMAIN redis.dedupe :
                     redis.dedupe[k] # None /\ redis.dedupe'[k] = None}
    IN  /\ \A id \in gone :
              /\ redis.job[id].state \in TerminalStates
              /\ CutoffAge(redis.job[id]) # None
              /\ redis.job[id].finishedAt <= now - CutoffAge(redis.job[id])
              /\ ~Mem!OwesCascades(VisibleRows[id])
        /\ redis.job' = [id \in JobIds |->
                            IF id \in gone THEN None ELSE redis.job[id]]
        /\ VisibleRows' = [id \in JobIds |->
                              IF id \in gone THEN [k \in ChildKeys |-> None]
                              ELSE VisibleRows[id]]
        /\ \A k \in freed :
              LET e == redis.dedupe[k]
              IN  IF e.expiresAt # None THEN e.expiresAt <= now
                  ELSE Has(redis, e.jobId) =>
                          redis.job[e.jobId].state \in TerminalStates
        /\ redis.dedupe' = [k \in DOMAIN redis.dedupe |->
                               IF k \in freed THEN None ELSE redis.dedupe[k]]
        /\ UNCHANGED <<now, redis.outbox, redis.paused, redis.seq,
                       redis.outboxSeq, lastToken, wake>>

\* A page of the flow sweep may be shorter than the limit: members it
\* purged or put off took up room.
ReconcilePage ==
    \E page \in SUBSET Mem!Reconcilable :
        /\ VisibleRows' = [f \in JobIds |-> [k \in ChildKeys |->
              IF [flowId |-> f, childKey |-> k] \in page
              THEN [VisibleRows[f][k] EXCEPT !.pendingSince = now]
              ELSE VisibleRows[f][k]]]
        /\ wake' = {}
        /\ UNCHANGED <<now, redis.job, redis.dedupe, redis.outbox,
                       redis.paused, redis.seq, redis.outboxSeq, lastToken>>

OperatorRemoved == \E id \in JobIds : Mem!Remove(id)

(* Every script does to the jobs, the visible rows, the keys and the       *)
(* outbox what one operation of the reference driver does; a fan-out ack   *)
(* of many scripts, with workers that die or are fenced between two of     *)
(* them, is one operation that happens at its last script or not at all.   *)
(* The sweeps are the exception the paging makes: a page does a part of    *)
(* the reference driver's pass, and never more.                            *)
ImplementsReference ==
    /\ Mem!Init
    /\ [][\/ LateFanOut \/ RetentionPage \/ ReconcilePage
          \/ Mem!Next /\ (Use("remove") \/ ~OperatorRemoved)]_(Mem!vars)

=============================================================================
