-------------------------- MODULE DrizzleJobStore --------------------------
(***************************************************************************)
(* The Postgres driver of the JobStore seam (DrizzleJobStore.ts): its SQL  *)
(* transactions under READ COMMITTED, interleaved statement by statement.  *)
(*                                                                         *)
(* A statement sees the last committed version of every row and its own    *)
(* transaction's writes.  Written rows stay locked until the transaction   *)
(* ends; a statement that needs a row another transaction holds waits, and *)
(* then evaluates its condition on the version that was committed: here it *)
(* is disabled until the row is free.  Statements are separate steps where *)
(* one can wait for a row or acts on something read earlier; calls of one  *)
(* statement, and claim, which never waits once it has begun, are one step.*)
(* An open transaction may be rolled back at any moment: its process or    *)
(* connection dies, or Postgres picks it as the victim of a deadlock.      *)
(*                                                                         *)
(* The clock is read once, with the first statement.  Order numbers and    *)
(* outbox ids are taken at commit (the sequences are drawn a little        *)
(* earlier, which only orders concurrent calls).  Requests, records and    *)
(* constants are those of MemoryJobStore, the reference driver, which this *)
(* module is checked against.                                              *)
(***************************************************************************)
EXTENDS Integers, Sequences, FiniteSets, Functions, TLC

CONSTANTS
    Calls,           \* calls that may have a transaction open at a time
    JobIds, Names, Queues, DedupeKeys, ChildKeys, Payloads, Requests,
    LockDurations, RetryDelays, MaxStalledCount, PendingAgeMs, SweepLimit,
    HistoryTtl, None,
    Scenarios,       \* what callers do: requests they submit, verbs they use,
                     \* how far clock, sequence numbers and lock tokens get
    MaxTime, MaxSeq, MaxTokens  \* bounds, as in MemoryJobStore

VARIABLES
    now,       \* Clock.currentTimeMillis
    db,        \* the tables, as committed
    txs,       \* per call, its open transaction with what it wrote so far
    lastToken, \* last lock token a worker generated
    sweep,     \* the history sweep the driver is in the middle of
    wake,      \* queues woken after the last commit
    scenario   \* what the callers of this behaviour do (bound; never changes)

vars == <<now, db, txs, lastToken, sweep, wake, scenario>>

Verbs == {"cancel", "retry", "promote", "remove", "pause", "extendLocks",
          "historySweep", "fanOut", "report"}

ASSUME ScenariosAssumption ==
    Scenarios \subseteq [requests : SUBSET Requests, verbs : SUBSET Verbs,
                         time : 0..MaxTime, seq : 0..MaxSeq,
                         tokens : 0..MaxTokens]

-----------------------------------------------------------------------------
(* Tables and transactions                                                 *)

TerminalStates == {"completed", "failed", "cancelled"}
KeyRows == Names \X DedupeKeys
ChildRows == JobIds \X ChildKeys

\* The row an enqueue inserts only to hold its lock (job_id = '').
Placeholder == [jobId |-> None, expiresAt |-> None]

NoWrites == [jobs |-> <<>>, rows |-> <<>>, keys |-> <<>>]

\* A transaction of a call: where it is, the clock it read, its writes,
\* the jobs it ended and has not retired, and the one whose turn it is, the
\* reports it appended, the jobs whose order number it drew, and the queues
\* to wake once it commits.
Transaction(call, pc, writes) ==
    [call |-> call, pc |-> pc, at |-> now, jobs |-> writes.jobs,
     rows |-> writes.rows, keys |-> writes.keys, ended |-> <<>>,
     turn |-> None, reports |-> {},
     fresh |-> {}, wakes |-> {}]

Open == {c \in Calls : txs[c] # None}
Others(c) == Open \ {c}
JobsHeld(c) == UNION {DOMAIN txs[d].jobs : d \in Others(c)}
RowsHeld(c) == UNION {DOMAIN txs[d].rows : d \in Others(c)}
KeysHeld(c) == UNION {DOMAIN txs[d].keys : d \in Others(c)}

\* What the statements of call c see.
Jobs(c) == txs[c].jobs @@ db.jobs
Rows(c) == txs[c].rows @@ db.rows

Has(js, id) == js[id] # None
Terminal(j) == j.state \in TerminalStates
Held(id, token) ==
    /\ Has(db.jobs, id)
    /\ db.jobs[id].state = "active" /\ db.jobs[id].lockToken = token

At(c, pc) == c \in Open /\ txs[c].pc = pc

Step(c, tx) ==
    /\ txs' = [txs EXCEPT ![c] = tx]
    /\ UNCHANGED <<now, db, lastToken, sweep, wake, scenario>>

Rollback(c) == c \in Open /\ Step(c, None)

\* nextval of the job table's sequence still has a number for one more job.
SeqLeft == db.seq + Cardinality(UNION {txs[c].fresh : c \in Open})
               < scenario.seq

Numbered(js, fresh) ==
    [id \in DOMAIN js |-> IF id \in fresh /\ js[id] # None
                          THEN [js[id] EXCEPT !.seq = db.seq + 1]
                          ELSE js[id]]

Commit(c) ==
    /\ At(c, "commit")
    /\ LET tx == txs[c] IN
        /\ db' = [db EXCEPT
                     !.jobs = Numbered(tx.jobs, tx.fresh) @@ @,
                     !.rows = tx.rows @@ @,
                     !.keys = tx.keys @@ @,
                     !.seq = @ + Cardinality(tx.fresh),
                     !.outbox = @ \cup
                         {[stamp |-> db.outboxSeq + 1] @@ r : r \in tx.reports},
                     !.outboxSeq = IF tx.reports = {} THEN @ ELSE @ + 1]
        /\ wake' = tx.wakes
    /\ txs' = [txs EXCEPT ![c] = None]
    /\ UNCHANGED <<now, lastToken, sweep, scenario>>

\* A statement with a transaction of its own.
Autocommit(tables, queues) ==
    /\ db' = tables
    /\ wake' = queues
    /\ UNCHANGED <<now, txs, sweep, scenario>>

-----------------------------------------------------------------------------
(* Helpers                                                                 *)

ClearLock(j) == [j EXCEPT !.lockToken = None, !.lockExpiresAt = None]
InsertAttempt(j, outcome) == [j EXCEPT !.attempts = Append(@, outcome)]

Finish(j, state, at) ==
    InsertAttempt([ClearLock(j) EXCEPT !.state = state, !.finishedAt = at,
                                       !.cancelRequested = FALSE], state)

PendingRows(rs, id) ==
    {r \in ChildRows : r[1] = id /\ rs[r] # None /\ rs[r].status = "pending"}

\* cancelPendingChildren
CancelledRows(rs, marked) ==
    [r \in marked |-> [rs[r] EXCEPT !.status = "cancelled",
                                    !.cascaded = FALSE]]

OwesCascades(rs, id) ==
    \E r \in ChildRows : /\ r[1] = id /\ rs[r] # None
                         /\ rs[r].status = "cancelled" /\ ~rs[r].cascaded

\* The statement that ended these jobs returned their rows.
Ending(tx) ==
    LET done == {id \in DOMAIN tx.jobs : Terminal(tx.jobs[id])}
    IN  [tx EXCEPT !.ended = Restrict(tx.jobs, done),
                   !.pc = IF done = {} THEN "commit" ELSE "retire"]

\* purgeJobsWhere: the jobs and, in the same statement, their rows.
NoJobs(ids) == [id \in ids |-> None]
NoRows(rs, ids) ==
    [r \in {x \in ChildRows : x[1] \in ids /\ rs[x] # None} |-> None]

\* applyKeep
KeepVictims(js, rs, j, at) ==
    LET policy == IF j.keep = None THEN None ELSE j.keep[j.state]
        Group == {p \in JobIds : /\ Has(js, p) /\ js[p].name = j.name
                                 /\ js[p].state = j.state}
        Newer(p, q) == \/ js[q].finishedAt > js[p].finishedAt
                       \/ /\ js[q].finishedAt = js[p].finishedAt
                          /\ js[q].seq > js[p].seq
    IN  IF policy = None THEN {}
        ELSE {p \in Group :
                 /\ \/ /\ policy.ageMs # None
                       /\ js[p].finishedAt <= at - policy.ageMs
                    \/ /\ policy.count # None
                       /\ Cardinality({q \in Group : Newer(p, q)})
                              >= policy.count
                 /\ ~OwesCascades(rs, p)}

\* releaseDedupe: the key row, if any, that job id frees as it ends.
FreedKeys(id, j, at) ==
    {k \in KeyRows :
        /\ k = <<j.name, j.dedupeKey>>
        /\ db.keys[k] # None /\ db.keys[k].jobId = id
        /\ db.keys[k].expiresAt = None \/ db.keys[k].expiresAt <= at}

\* appendOutbox; the id is drawn at commit.
ReportOf(j) ==
    [flowId |-> j.parent.flowId, childKey |-> j.parent.childKey,
     outcome |-> j.state, exit |-> j.exit, failedReason |-> j.failedReason]

\* Every transaction that ended jobs takes their turns, one after another: it
\* appends the job's report and frees its key, in a statement that waits for
\* the key's row ...
ReleaseDedupe(c, id) ==
    LET tx == txs[c]
        j == tx.ended[id]
        freed == FreedKeys(id, j, tx.at)
    IN  /\ At(c, "retire") /\ id \in DOMAIN tx.ended
        /\ freed \cap KeysHeld(c) = {}
        /\ Step(c, [tx EXCEPT
                       !.keys = [k \in freed |-> None] @@ @,
                       !.reports = IF j.parent = None THEN @
                                   ELSE @ \cup {ReportOf(j)},
                       !.turn = id,
                       !.pc = "keep"])

\* ... and then applies its retention policy, which waits for the rows it
\* deletes.  Stall exhaustion applies none.
ApplyKeep(c) ==
    LET tx == txs[c]
        j == tx.ended[tx.turn]
        victims == IF tx.call.op = "recoverStalled" /\ j.state = "failed" THEN {}
                   ELSE KeepVictims(Jobs(c), Rows(c), j, tx.at)
        rows == NoRows(Rows(c), victims)
        left == Restrict(tx.ended, DOMAIN tx.ended \ {tx.turn})
    IN  /\ At(c, "keep")
        /\ victims \cap JobsHeld(c) = {}
        /\ DOMAIN rows \cap RowsHeld(c) = {}
        /\ Step(c, [tx EXCEPT
                       !.jobs = NoJobs(victims) @@ @,
                       !.rows = rows @@ @,
                       !.ended = left, !.turn = None,
                       !.pc = IF left = <<>> THEN "commit" ELSE "retire"])

-----------------------------------------------------------------------------
(* Enqueue                                                                 *)

KeyOf(r) == <<r.name, r.dedupe.key>>

\* insertJob
NewJob(r, at) ==
    [name |-> r.name, queue |-> r.queue, payload |-> r.payload,
     priority |-> r.priority, attemptsMax |-> r.attemptsMax,
     keep |-> r.keep,
     dedupeKey |-> IF r.dedupe = None THEN None ELSE r.dedupe.key,
     parent |-> r.parent,
     state |-> IF r.delayMs > 0 THEN "delayed" ELSE "waiting",
     attemptsMade |-> 0, stalledCount |-> 0, cancelRequested |-> FALSE,
     flow |-> None, runAt |-> at + r.delayMs, finishedAt |-> None,
     exit |-> FALSE, failedReason |-> FALSE, attempts |-> <<>>,
     seq |-> 0, lockToken |-> None, lockExpiresAt |-> None]

Expiry(r, at) == IF r.dedupe.ttlMs = None THEN None ELSE at + r.dedupe.ttlMs

\* enqueueOne without a policy, and insertBatch: one INSERT ... ON CONFLICT
\* DO NOTHING that waits for an uncommitted row with that id.
Enqueue(r, id) ==
    /\ r.dedupe = None
    /\ r.id # None => id = r.id
    /\ ~Has(db.jobs, id) /\ id \notin JobsHeld(None)
    /\ SeqLeft
    /\ Autocommit([db EXCEPT !.seq = @ + 1,
                             !.jobs[id] = [NewJob(r, now) EXCEPT
                                              !.seq = db.seq + 1]],
                  {r.queue})
    /\ UNCHANGED lastToken

\* enqueueDeduped: clock, and the check for the caller's own id.
EnqueueBegin(c, r) ==
    /\ c \notin Open
    /\ r.dedupe # None
    /\ r.id # None => ~Has(db.jobs, r.id)
    /\ Step(c, Transaction([op |-> "enqueue", request |-> r], "upsert",
                           NoWrites))

\* The no-op upsert that always takes the key's row lock.
EnqueueUpsert(c) ==
    LET k == KeyOf(txs[c].call.request)
        entry == IF db.keys[k] = None THEN Placeholder ELSE db.keys[k]
    IN  /\ At(c, "upsert")
        /\ k \notin KeysHeld(c)
        /\ Step(c, [txs[c] EXCEPT !.keys = k :> entry,
                                  !.pc = IF entry.jobId = None THEN "insert"
                                         ELSE "read"])

Fault_WindowEndsLate(entry, at) ==
    entry.expiresAt # None /\ entry.expiresAt >= at

WindowLive(entry, at) == entry.expiresAt # None /\ entry.expiresAt > at

\* The plain read of the keyed job's state, which decides what is next.
EnqueueRead(c) ==
    LET tx == txs[c]
        r == tx.call.request
        entry == tx.keys[KeyOf(r)]
        saw == IF Has(db.jobs, entry.jobId) THEN db.jobs[entry.jobId].state
               ELSE None
        replaces == r.dedupe.replace /\ saw = "delayed"
        live == WindowLive(entry, tx.at)
        pending == /\ entry.expiresAt = None
                   /\ saw # None /\ saw \notin TerminalStates
        bumped == IF r.dedupe.extend /\ r.dedupe.ttlMs # None
                  THEN [entry EXCEPT !.expiresAt = Expiry(r, tx.at)]
                  ELSE entry
    IN  /\ At(c, "read")
        /\ \/ replaces /\ Step(c, [tx EXCEPT !.pc = "replace"])
           \/ /\ ~replaces /\ live
              /\ Step(c, [tx EXCEPT !.keys[KeyOf(r)] = bumped,
                                    !.pc = "commit"])
           \/ ~replaces /\ pending /\ Step(c, [tx EXCEPT !.pc = "commit"])
           \/ /\ ~replaces /\ ~live /\ ~pending
              /\ Step(c, [tx EXCEPT !.pc = "insert"])

Fault_ReplaceUnconditional(c) ==
    LET tx == txs[c]
        r == tx.call.request
        id == tx.keys[KeyOf(r)].jobId
    IN  /\ At(c, "replace")
        /\ id \notin JobsHeld(c)
        /\ Has(db.jobs, id)
        /\ Step(c, [tx EXCEPT
                !.jobs = id :> [db.jobs[id] EXCEPT
                             !.payload = r.payload, !.priority = r.priority,
                             !.attemptsMax = r.attemptsMax, !.keep = r.keep,
                             !.runAt = tx.at + r.delayMs],
                !.keys[KeyOf(r)].expiresAt =
                    IF r.dedupe.ttlMs = None THEN @ ELSE Expiry(r, tx.at),
                !.wakes = {db.jobs[id].queue},
                !.pc = "commit"])

\* Latest-wins: an UPDATE that checks the state again, as the job may have
\* been claimed or cancelled since it was read.
EnqueueReplace(c) ==
    LET tx == txs[c]
        r == tx.call.request
        id == tx.keys[KeyOf(r)].jobId
    IN  /\ At(c, "replace")
        /\ id \notin JobsHeld(c)
        /\ IF Has(db.jobs, id) /\ db.jobs[id].state = "delayed"
           THEN Step(c, [tx EXCEPT
                    !.jobs = id :> [db.jobs[id] EXCEPT
                                 !.payload = r.payload, !.priority = r.priority,
                                 !.attemptsMax = r.attemptsMax, !.keep = r.keep,
                                 !.runAt = tx.at + r.delayMs],
                    !.keys[KeyOf(r)].expiresAt =
                        IF r.dedupe.ttlMs = None THEN @ ELSE Expiry(r, tx.at),
                    !.wakes = {db.jobs[id].queue},
                    !.pc = "commit"])
           ELSE Step(c, [tx EXCEPT !.pc = "commit"])

\* No entry, or a dead one: insert the job and take the key over.  When the
\* id was taken meanwhile, the placeholder is what gets committed.
EnqueueInsert(c, id) ==
    LET tx == txs[c]
        r == tx.call.request
    IN  /\ At(c, "insert")
        /\ r.id # None => id = r.id
        /\ id \notin JobsHeld(c)
        /\ \/ /\ ~Has(db.jobs, id)
              /\ SeqLeft
              /\ Step(c, [tx EXCEPT
                      !.jobs = id :> NewJob(r, tx.at),
                      !.keys[KeyOf(r)] = [jobId |-> id,
                                          expiresAt |-> Expiry(r, tx.at)],
                      !.fresh = {id}, !.wakes = {r.queue}, !.pc = "commit"])
           \/ /\ Has(db.jobs, id) /\ r.id # None
              /\ Step(c, [tx EXCEPT !.pc = "commit"])

-----------------------------------------------------------------------------
(* Claim, ack, release, locks                                              *)

DueJobs(queue) ==
    {id \in JobIds : /\ Has(db.jobs, id)
                     /\ db.jobs[id].queue = queue
                     /\ db.jobs[id].state = "delayed"
                     /\ db.jobs[id].runAt <= now}

Promoted(queue) ==
    [id \in JobIds |-> IF id \in DueJobs(queue)
                       THEN [db.jobs[id] EXCEPT !.state = "waiting"]
                       ELSE db.jobs[id]]

\* FOR UPDATE SKIP LOCKED: rows of open transactions are passed over.
Candidates(js, queue, names) ==
    {id \in JobIds \ JobsHeld(None) :
        /\ Has(js, id) /\ js[id].state = "waiting"
        /\ js[id].queue = queue /\ js[id].name \in names}

Precedes(a, b) ==
    a.priority > b.priority \/ (a.priority = b.priority /\ a.seq < b.seq)

Claim(queue, names, lockMs) ==
    LET js == Promoted(queue)
        ids == Candidates(js, queue, names)
        token == lastToken + 1
    IN  /\ DueJobs(queue) \cap JobsHeld(None) = {}
        /\ queue \notin db.paused
        /\ token <= scenario.tokens
        /\ lastToken' = token
        /\ \E best \in ids :
              /\ \A id \in ids \ {best} : Precedes(js[best], js[id])
              /\ Autocommit([db EXCEPT !.jobs =
                     [js EXCEPT ![best].state = "active",
                                ![best].lockToken = token,
                                ![best].lockExpiresAt = now + lockMs]], {})

ClaimEmpty(queue, names) ==
    /\ DueJobs(queue) # {} /\ DueJobs(queue) \cap JobsHeld(None) = {}
    /\ queue \in db.paused \/ Candidates(Promoted(queue), queue, names) = {}
    /\ Autocommit([db EXCEPT !.jobs = Promoted(queue)], {})
    /\ UNCHANGED lastToken

\* A call whose first statement updates the one job it names: j is the row
\* it leaves behind.
FirstUpdate(call, id, j) ==
    Transaction(call, "commit", [NoWrites EXCEPT !.jobs = id :> j])

Acked(id) == [ClearLock(db.jobs[id]) EXCEPT !.attemptsMade = @ + 1]

\* ack Complete, Fail, Cancelled.
AckTerminal(c, id, token, state, exit) ==
    LET j == [Acked(id) EXCEPT !.exit = IF state = "cancelled" THEN @ ELSE exit]
    IN  /\ c \notin Open
        /\ Held(id, token) /\ id \notin JobsHeld(c)
        /\ state = "completed" => exit
        /\ state = "cancelled" => ~exit
        /\ Step(c, Ending(FirstUpdate([op |-> "ackTerminal", id |-> id,
                                          token |-> token, state |-> state,
                                          exit |-> exit],
                                      id, Finish(j, state, now))))

\* ack Retry: one UPDATE decides between revival and a pending cancel.
AckRetry(c, id, token, delayMs) ==
    LET call == [op |-> "ackRetry", id |-> id, token |-> token,
                 delayMs |-> delayMs]
        revived == [InsertAttempt(Acked(id), "retried") EXCEPT
                       !.state = IF delayMs > 0 THEN "delayed" ELSE "waiting",
                       !.runAt = now + delayMs]
    IN  /\ c \notin Open
        /\ Held(id, token) /\ id \notin JobsHeld(c)
        /\ \/ /\ db.jobs[id].cancelRequested
              /\ Step(c, Ending(FirstUpdate(call, id,
                             Finish(Acked(id), "cancelled", now))))
           \/ /\ ~db.jobs[id].cancelRequested
              /\ SeqLeft
              /\ Step(c, [FirstUpdate(call, id, revived) EXCEPT
                             !.fresh = {id}, !.wakes = {db.jobs[id].queue}])

\* release: shutdown hands the job back, unless a cancel is pending.
Release(c, id, token) ==
    LET call == [op |-> "release", id |-> id, token |-> token]
        j == db.jobs[id]
    IN  /\ c \notin Open
        /\ Held(id, token) /\ id \notin JobsHeld(c)
        /\ \/ /\ j.cancelRequested
              /\ Step(c, Ending(FirstUpdate(call, id,
                                            Finish(j, "cancelled", now))))
           \/ /\ ~j.cancelRequested
              /\ Step(c, [FirstUpdate(call, id,
                              [ClearLock(j) EXCEPT !.state = "waiting"])
                             EXCEPT !.wakes = {j.queue}])

\* extendLocks, per lock.
ExtendLocks(id, token, lockMs) ==
    /\ Held(id, token) /\ id \notin JobsHeld(None)
    /\ ~db.jobs[id].cancelRequested
    /\ Autocommit([db EXCEPT !.jobs[id].lockExpiresAt = now + lockMs], {})
    /\ UNCHANGED lastToken

Stalled == {id \in JobIds : /\ Has(db.jobs, id)
                            /\ db.jobs[id].state = "active"
                            /\ db.jobs[id].lockExpiresAt <= now}

RecoveredJob(j) ==
    LET stalled == [InsertAttempt(ClearLock(j), "stalled")
                       EXCEPT !.stalledCount = @ + 1]
    IN  IF j.cancelRequested THEN Finish(j, "cancelled", now)
        ELSE IF j.stalledCount + 1 > MaxStalledCount
        THEN [stalled EXCEPT !.state = "failed", !.finishedAt = now,
                             !.failedReason = TRUE]
        ELSE [stalled EXCEPT !.state = "waiting"]

\* recoverStalled: one UPDATE of every expired job, then row by row.
RecoverStalled(c) ==
    LET js == [id \in Stalled |-> RecoveredJob(db.jobs[id])]
        revives == \E id \in Stalled : js[id].state = "waiting"
    IN  /\ c \notin Open
        /\ Stalled # {} /\ Stalled \cap JobsHeld(c) = {}
        /\ Step(c, [Ending(Transaction([op |-> "recoverStalled"], "commit",
                                       [NoWrites EXCEPT !.jobs = js]))
                       EXCEPT !.wakes = IF revives THEN Queues ELSE {}])

-----------------------------------------------------------------------------
(* Cancel                                                                  *)

\* cancelJob: the first marking pass, dependency rows before their parent.
CancelMark(c, id) ==
    LET marked == PendingRows(db.rows, id)
    IN  /\ c \notin Open
        /\ Has(db.jobs, id)
        /\ marked \cap RowsHeld(c) = {}
        /\ Step(c, Transaction([op |-> "cancel", id |-> id], "flip",
                    [NoWrites EXCEPT !.rows = CancelledRows(db.rows, marked)]))

\* The guarded UPDATE of the job.
CancelFlip(c) ==
    LET tx == txs[c]
        id == tx.call.id
        j == db.jobs[id]
        settled == IF j.state = "waiting-children"
                   THEN [j EXCEPT !.flow.pending = 0] ELSE j
    IN  /\ At(c, "flip")
        /\ id \notin JobsHeld(c)
        /\ \/ /\ Has(db.jobs, id)
              /\ j.state \in {"waiting", "delayed", "waiting-children"}
              /\ LET flipped == [tx EXCEPT !.jobs =
                                     id :> Finish(settled, "cancelled", tx.at)]
                 IN  Step(c, IF j.flow = None THEN Ending(flipped)
                             ELSE [flipped EXCEPT !.pc = "mark"])
           \/ /\ Has(db.jobs, id) /\ j.state = "active"
              /\ Step(c, [tx EXCEPT
                      !.jobs = id :> [j EXCEPT !.cancelRequested = TRUE],
                      !.pc = "commit"])
           \/ /\ Has(db.jobs, id) => Terminal(j)
              /\ Rollback(c)

Fault_CancelMarksOnce(c) ==
    LET tx == txs[c]
    IN  /\ At(c, "mark")
        /\ Step(c, Ending([tx EXCEPT
                       !.jobs[tx.call.id].flow.cancelled =
                           @ + Cardinality(DOMAIN tx.rows)]))

\* The second marking pass, now that the job's row is held: a fan-out that
\* committed between the two statements left rows the first did not see.
CancelMarkAgain(c) ==
    LET tx == txs[c]
        marked == PendingRows(Rows(c), tx.call.id)
    IN  /\ At(c, "mark")
        /\ marked \cap RowsHeld(c) = {}
        /\ Step(c, Ending([tx EXCEPT
                       !.rows = CancelledRows(db.rows, marked) @@ @,
                       !.jobs[tx.call.id].flow.cancelled =
                           @ + Cardinality(DOMAIN tx.rows)
                             + Cardinality(marked)]))

-----------------------------------------------------------------------------
(* Flows                                                                   *)

Manifest(children, failFast) ==
    [failFast |-> failFast, pending |-> Cardinality(children),
     completed |-> 0, failed |-> 0, cancelled |-> 0]

Landed(id, children) ==
    [r \in {<<id, k>> : k \in children} |->
        [status |-> "pending", cascaded |-> FALSE, pendingSince |-> now]]

\* ackFanOut: the guarded UPDATE that drops the lock holds the parent's row
\* from then on, so the statements after it are one step with it.
FanOut(c, id, token, children, failFast) ==
    LET call == [op |-> "fanOut", id |-> id, token |-> token,
                 children |-> children, failFast |-> failFast]
        first == db.jobs[id].flow = None
        flow == IF first THEN Manifest(children, failFast) ELSE db.jobs[id].flow
        rows == IF first THEN Landed(id, children) ELSE <<>>
        marked == PendingRows(rows @@ db.rows, id)
        j == InsertAttempt([ClearLock(db.jobs[id]) EXCEPT !.flow = flow],
                           "fanned-out")
        Leave(j2) == [FirstUpdate(call, id, j2) EXCEPT !.rows = rows]
    IN  /\ c \notin Open
        /\ Held(id, token) /\ id \notin JobsHeld(c)
        /\ marked \cap RowsHeld(c) = {}
        /\ \/ /\ j.cancelRequested
              /\ Step(c, [Ending(Leave(Finish(
                              [j EXCEPT !.flow.pending = 0,
                                        !.flow.cancelled =
                                            @ + Cardinality(marked)],
                              "cancelled", now)))
                         EXCEPT !.rows =
                             CancelledRows(rows @@ db.rows, marked) @@ @])
           \/ /\ ~j.cancelRequested /\ flow.pending > 0
              /\ Step(c, Leave([j EXCEPT !.state = "waiting-children"]))
           \/ /\ ~j.cancelRequested /\ flow.pending = 0
              /\ SeqLeft
              /\ Step(c, [Leave([j EXCEPT !.state = "waiting", !.runAt = now])
                             EXCEPT !.fresh = {id}, !.wakes = {j.queue}])

\* recordChildResults for the reports of one flow, row updates first.  A
\* batch in which nothing applies changes nothing.
RecordApply(c, flowId, reports) ==
    LET rows == {<<flowId, k>> : k \in DOMAIN reports}
        applied == rows \cap PendingRows(db.rows, flowId)
    IN  /\ c \notin Open
        /\ rows \cap RowsHeld(c) = {}
        /\ applied # {}
        /\ Step(c, Transaction(
               [op |-> "record", flowId |-> flowId, reports |-> reports],
               "parent",
               [NoWrites EXCEPT !.rows = [r \in applied |->
                   [db.rows[r] EXCEPT !.status = reports[r[2]],
                                      !.cascaded = TRUE]]]))

\* The parent's counters, and the one settle decision.  (The parent is there:
\* whoever deletes it deletes its rows too, and those are held.)
RecordParent(c) ==
    LET tx == txs[c]
        id == tx.call.flowId
        Count(outcome) ==
            Cardinality({r \in DOMAIN tx.rows : tx.rows[r].status = outcome})
        left == db.jobs[id].flow.pending - Cardinality(DOMAIN tx.rows)
        j == [db.jobs[id] EXCEPT
                 !.flow.pending = IF left > 0 THEN left ELSE 0,
                 !.flow.completed = @ + Count("completed"),
                 !.flow.failed = @ + Count("failed"),
                 !.flow.cancelled = @ + Count("cancelled")]
        parked == j.state = "waiting-children"
        failsFast == j.flow.failFast /\ Count("failed") > 0
        Leave(pc, j2) == [tx EXCEPT !.jobs = id :> j2, !.pc = pc]
    IN  /\ At(c, "parent")
        /\ id \notin JobsHeld(c)
        /\ \/ parked /\ failsFast /\ Step(c, Leave("settle", j))
           \/ /\ parked /\ ~failsFast /\ j.flow.pending = 0
              /\ SeqLeft
              /\ Step(c, [Leave("commit", [j EXCEPT !.state = "waiting",
                                                   !.runAt = tx.at])
                             EXCEPT !.fresh = {id}, !.wakes = {j.queue}])
           \/ /\ ~parked \/ (~failsFast /\ j.flow.pending > 0)
              /\ Step(c, Leave("commit", j))

\* Fail-fast: the parent fails and its remaining rows are marked.
RecordSettle(c) ==
    LET tx == txs[c]
        id == tx.call.flowId
        marked == PendingRows(Rows(c), id)
    IN  /\ At(c, "settle")
        /\ marked \cap RowsHeld(c) = {}
        /\ Step(c, Ending([tx EXCEPT
                !.rows = CancelledRows(db.rows, marked) @@ @,
                !.jobs[id] = Finish(
                    [@ EXCEPT !.failedReason = TRUE, !.flow.pending = 0,
                              !.flow.cancelled = @ + Cardinality(marked)],
                    "failed", tx.at)]))

DeleteOutbox(entries) ==
    /\ entries # {}
    /\ Autocommit([db EXCEPT !.outbox = @ \ entries], {})
    /\ UNCHANGED lastToken

\* flowSweepWork: reconcile rows no transaction holds, re-armed as they are
\* returned.
FlowSweepWork(page) ==
    LET due == {r \in ChildRows \ RowsHeld(None) :
                   /\ Has(db.jobs, r[1])
                   /\ db.jobs[r[1]].state = "waiting-children"
                   /\ r \in PendingRows(db.rows, r[1])
                   /\ db.rows[r].pendingSince <= now - PendingAgeMs}
    IN  /\ page \subseteq due /\ page # {}
        /\ page = due \/ Cardinality(page) = SweepLimit
        /\ Cardinality(page) <= SweepLimit
        /\ Autocommit([db EXCEPT !.rows =
               [r \in page |-> [db.rows[r] EXCEPT !.pendingSince = now]] @@ @],
               {})
        /\ UNCHANGED lastToken

MarkChildrenCascaded(flowId, keys) ==
    LET rows == {r \in ChildRows : /\ r[1] = flowId /\ r[2] \in keys
                                   /\ db.rows[r] # None}
    IN  /\ rows # {} /\ rows \cap RowsHeld(None) = {}
        /\ Autocommit([db EXCEPT !.rows =
               [r \in rows |-> [db.rows[r] EXCEPT !.cascaded = TRUE]] @@ @], {})
        /\ UNCHANGED lastToken

-----------------------------------------------------------------------------
(* Admin verbs of one statement                                            *)

Retry(id) ==
    /\ Has(db.jobs, id) /\ id \notin JobsHeld(None)
    /\ db.jobs[id].state = "failed"
    /\ SeqLeft
    /\ Autocommit([db EXCEPT !.seq = @ + 1,
           !.jobs[id] = [@ EXCEPT !.state = "waiting", !.attemptsMade = 0,
                                  !.stalledCount = 0, !.cancelRequested = FALSE,
                                  !.exit = FALSE, !.failedReason = FALSE,
                                  !.finishedAt = None, !.runAt = now,
                                  !.seq = db.seq + 1]],
           {db.jobs[id].queue})
    /\ UNCHANGED lastToken

Promote(id) ==
    /\ Has(db.jobs, id) /\ id \notin JobsHeld(None)
    /\ db.jobs[id].state = "delayed"
    /\ Autocommit([db EXCEPT !.jobs[id].state = "waiting",
                             !.jobs[id].runAt = now], {db.jobs[id].queue})
    /\ UNCHANGED lastToken

Pause(queue) ==
    /\ queue \notin db.paused
    /\ Autocommit([db EXCEPT !.paused = @ \cup {queue}], {})
    /\ UNCHANGED lastToken

Resume(queue) ==
    /\ queue \in db.paused
    /\ Autocommit([db EXCEPT !.paused = @ \ {queue}], {queue})
    /\ UNCHANGED lastToken

\* remove, and every purge: the jobs with their dependency rows.
Purged(ids) == [db EXCEPT !.jobs = NoJobs(ids) @@ @,
                          !.rows = NoRows(db.rows, ids) @@ @]

Free(ids) ==
    /\ ids \cap JobsHeld(None) = {}
    /\ DOMAIN NoRows(db.rows, ids) \cap RowsHeld(None) = {}

Remove(id) ==
    /\ Has(db.jobs, id) /\ Free({id})
    /\ db.jobs[id].state \notin {"active", "waiting-children"}
    /\ Autocommit(Purged({id}), {})
    /\ UNCHANGED lastToken

-----------------------------------------------------------------------------
(* The history sweep, statement by statement, with one clock reading       *)

NextState(state) == CASE state = "completed" -> "failed"
                      [] state = "failed" -> "cancelled"
                      [] state = "cancelled" -> "dedupe"

SweepBegin ==
    /\ sweep = None
    /\ \E s \in TerminalStates : HistoryTtl[s] # None
    /\ sweep' = [at |-> now, state |-> "completed"]
    /\ UNCHANGED <<now, db, txs, lastToken, wake, scenario>>

\* The ceiling, or a stricter age of the row's own.
Overdue(j, at) ==
    LET ttl == HistoryTtl[j.state]
        age == IF j.keep = None \/ j.keep[j.state] = None THEN None
               ELSE j.keep[j.state].ageMs
    IN  \/ ttl # None /\ j.finishedAt <= at - ttl
        \/ age # None /\ j.finishedAt <= at - age

SweepPurge ==
    /\ sweep # None /\ sweep.state \in TerminalStates
    /\ LET victims == {id \in JobIds :
                          /\ Has(db.jobs, id)
                          /\ db.jobs[id].state = sweep.state
                          /\ Overdue(db.jobs[id], sweep.at)
                          /\ ~OwesCascades(db.rows, id)}
       IN  Free(victims) /\ db' = Purged(victims)
    /\ sweep' = [sweep EXCEPT !.state = NextState(@)]
    /\ UNCHANGED <<now, txs, lastToken, wake, scenario>>

Pending(id) == Has(db.jobs, id) /\ ~Terminal(db.jobs[id])

DeadEntry(entry, alive, at) ==
    IF entry.expiresAt # None THEN entry.expiresAt <= at
    ELSE entry.jobId \notin alive

\* The DELETE of dead key rows takes its snapshot ...
SweepKeysSnapshot ==
    LET alive == {id \in JobIds : Pending(id)}
    IN  /\ sweep # None /\ sweep.state = "dedupe"
        /\ sweep' = [at |-> sweep.at, state |-> "delete", alive |-> alive,
                     dead |-> {k \in KeyRows :
                                  /\ db.keys[k] # None
                                  /\ DeadEntry(db.keys[k], alive, sweep.at)}]
        /\ UNCHANGED <<now, db, txs, lastToken, wake, scenario>>

\* ... and, when it gets hold of a row that changed since, checks the new
\* row version again, with the jobs of that snapshot.
SweepKeysDelete ==
    LET freed == {k \in sweep.dead :
                     /\ db.keys[k] # None
                     /\ DeadEntry(db.keys[k], sweep.alive, sweep.at)}
    IN  /\ sweep # None /\ sweep.state = "delete"
        /\ freed \cap KeysHeld(None) = {}
        /\ db' = [db EXCEPT !.keys = [k \in freed |-> None] @@ @]
        /\ sweep' = None
        /\ UNCHANGED <<now, txs, lastToken, wake, scenario>>

-----------------------------------------------------------------------------
Tick ==
    /\ now < scenario.time
    /\ now' = now + 1
    /\ wake' = {}
    /\ UNCHANGED <<db, txs, lastToken, sweep, scenario>>

Init ==
    /\ now = 0
    /\ db = [jobs |-> [id \in JobIds |-> None],
             rows |-> [r \in ChildRows |-> None],
             keys |-> [k \in KeyRows |-> None],
             outbox |-> {}, outboxSeq |-> 0, paused |-> {}, seq |-> 0]
    /\ txs = [c \in Calls |-> None]
    /\ lastToken = 0
    /\ sweep = None
    /\ wake = {}
    /\ scenario \in Scenarios

Use(verb) == verb \in scenario.verbs

ProducerNext ==
    \/ \E r \in scenario.requests :
          \/ \E id \in JobIds : Enqueue(r, id)
          \/ \E c \in Calls : EnqueueBegin(c, r)
    \/ \E c \in Calls :
          \/ EnqueueUpsert(c)
          \/ EnqueueRead(c)
          \/ EnqueueReplace(c)
          \/ \E id \in JobIds : EnqueueInsert(c, id)

WorkerNext ==
    \/ \E queue \in Queues, names \in SUBSET Names :
          \/ \E lockMs \in LockDurations : Claim(queue, names, lockMs)
          \/ ClaimEmpty(queue, names)
    \/ \E c \in Calls, id \in JobIds, token \in 1..lastToken :
          \/ \E state \in TerminalStates, exit \in BOOLEAN :
                AckTerminal(c, id, token, state, exit)
          \/ \E delayMs \in RetryDelays : AckRetry(c, id, token, delayMs)
          \/ /\ Use("fanOut")
             /\ \E children \in SUBSET ChildKeys, failFast \in BOOLEAN :
                   FanOut(c, id, token, children, failFast)
          \/ Release(c, id, token)
    \/ /\ Use("extendLocks")
       /\ \E id \in JobIds, token \in 1..lastToken, lockMs \in LockDurations :
             ExtendLocks(id, token, lockMs)
    \/ \E c \in Calls : RecoverStalled(c)

FlowNext ==
    \/ /\ Use("report")
       /\ \E c \in Calls, flowId \in JobIds, keys \in SUBSET ChildKeys :
             \E reports \in [keys -> TerminalStates] :
                RecordApply(c, flowId, reports)
    \/ \E c \in Calls : RecordParent(c) \/ RecordSettle(c)
    \/ /\ Use("report")
       /\ \E entries \in SUBSET db.outbox : DeleteOutbox(entries)
    \/ \E page \in SUBSET ChildRows : FlowSweepWork(page)
    \/ \E flowId \in JobIds, keys \in SUBSET ChildKeys :
          MarkChildrenCascaded(flowId, keys)

AdminNext ==
    \/ \E c \in Calls :
          \/ /\ Use("cancel")
             /\ \E id \in JobIds : CancelMark(c, id)
          \/ CancelFlip(c)
          \/ CancelMarkAgain(c)
    \/ \E id \in JobIds :
          \/ Use("retry") /\ Retry(id)
          \/ Use("promote") /\ Promote(id)
          \/ Use("remove") /\ Remove(id)
    \/ \E queue \in Queues : Use("pause") /\ (Pause(queue) \/ Resume(queue))
    \/ /\ Use("historySweep")
       /\ SweepBegin \/ SweepPurge \/ SweepKeysSnapshot \/ SweepKeysDelete

EndNext ==
    \E c \in Calls :
       \/ \E id \in JobIds : ReleaseDedupe(c, id)
       \/ ApplyKeep(c) \/ Commit(c) \/ Rollback(c)

Next ==
    ProducerNext \/ WorkerNext \/ FlowNext \/ AdminNext \/ EndNext \/ Tick

Spec == Init /\ [][Next]_vars

-----------------------------------------------------------------------------
(* Implementation of the reference driver                                  *)

\* What callers see of the tables: a placeholder reads as no entry.
Entries ==
    [k \in KeyRows |->
        IF db.keys[k] # None /\ db.keys[k].jobId = None THEN None
        ELSE db.keys[k]]
ChildrenOf(rs) == [id \in JobIds |-> [k \in ChildKeys |-> rs[<<id, k>>]]]

\* The reference driver at clock reading t, and at the current time.
MemAt(t) == INSTANCE MemoryJobStore WITH
    ParentIds <- JobIds,
    now <- t, jobs <- db.jobs, flowChildren <- ChildrenOf(db.rows),
    dedupes <- Entries, outbox <- db.outbox, paused <- db.paused,
    seq <- db.seq, outboxSeq <- db.outboxSeq, woken <- wake

Mem == INSTANCE MemoryJobStore WITH
    ParentIds <- JobIds,
    jobs <- db.jobs, flowChildren <- ChildrenOf(db.rows),
    dedupes <- Entries, outbox <- db.outbox, paused <- db.paused,
    seq <- db.seq, outboxSeq <- db.outboxSeq, woken <- wake

Committing(c) == At(c, "commit") /\ txs'[c] = None /\ db' # db

\* A duplicate enqueue: nothing but, possibly, a placeholder.  (That it had
\* reason to do nothing is JustDuplicate, at the step that decides it.)
Duplicate ==
    UNCHANGED <<now, db.jobs, db.rows, Entries, db.outbox, db.paused,
                lastToken>>

\* A request whose own id was free when the call began; that it was taken
\* since only stops the insert.
IdChecked(r) == [r EXCEPT !.id = None]

\* The operation a call promises, with the clock it read at its start.
Promised(c) ==
    \E call \in {txs[c].call}, at \in {txs[c].at} :
       CASE call.op = "enqueue" ->
                \/ \E id \in JobIds : MemAt(at)!Enqueue(call.request, id)
                \/ MemAt(at)!EnqueueReplace(IdChecked(call.request))
                \/ MemAt(at)!EnqueueExtend(IdChecked(call.request))
                \/ Duplicate
         [] call.op = "ackTerminal" ->
                MemAt(at)!AckTerminal(call.id, call.token, call.state, call.exit)
         [] call.op = "ackRetry" ->
                MemAt(at)!AckRetry(call.id, call.token, call.delayMs)
         [] call.op = "release" -> MemAt(at)!Release(call.id, call.token)
         [] call.op = "fanOut" ->
                MemAt(at)!AckFanOut(call.id, call.token, call.children,
                                    call.failFast)
         [] call.op = "recoverStalled" -> MemAt(at)!RecoverStalled
         [] call.op = "cancel" -> MemAt(at)!Cancel(call.id)
         [] call.op = "record" ->
                MemAt(at)!RecordChildResults(call.flowId, call.reports)

\* A claim that passed over jobs whose rows were held.
SkipLockedClaim ==
    \E queue \in Queues, names \in SUBSET Names :
        LET js == Mem!PromoteDue(db.jobs)
            Skipped(id) == id \in JobsHeld(None)
        IN  \/ /\ \E best \in Mem!Claimable(js, queue, names),
                     lockMs \in LockDurations :
                     /\ \A id \in Mem!Claimable(js, queue, names) \ {best} :
                           Skipped(id) \/ Mem!Precedes(js[best], js[id])
                     /\ db.jobs' = [js EXCEPT ![best] =
                           Mem!Claimed(js[best], lastToken', lockMs)]
               /\ queue \notin db.paused /\ lastToken' = lastToken + 1
               /\ UNCHANGED <<now, db.rows, db.keys, db.outbox, db.paused, db.seq>>
            \/ /\ \A id \in Mem!Claimable(js, queue, names) : Skipped(id)
               /\ db.jobs' = js /\ lastToken' = lastToken
               /\ UNCHANGED <<now, db.rows, db.keys, db.outbox, db.paused, db.seq>>

\* A page of the flow sweep without the rows that were held.
SkipLockedPage ==
    \E page \in SUBSET Mem!Reconcilable :
        /\ db.rows' = [r \in ChildRows |->
              IF [flowId |-> r[1], childKey |-> r[2]] \in page
              THEN [db.rows[r] EXCEPT !.pendingSince = now] ELSE db.rows[r]]
        /\ UNCHANGED <<now, db.jobs, db.keys, db.outbox, db.paused, db.seq,
                       lastToken>>

Freed == {k \in KeyRows : db.keys[k] # None /\ db.keys'[k] = None}

\* The entry's window is over, or the job it points at is: nobody relies on
\* it any more.
Dead(entry) ==
    IF entry.expiresAt # None THEN entry.expiresAt <= now
    ELSE entry.jobId = None \/ ~Pending(entry.jobId)

\* A statement of the history sweep does part of the reference driver's
\* pass, and never more: it deletes jobs that are overdue and owe nothing,
\* with their rows, or frees dead keys.
RetentionStatement ==
    LET gone == {id \in JobIds : Has(db.jobs, id) /\ db.jobs'[id] = None}
    IN  /\ sweep' # sweep
        /\ \A id \in gone : /\ Terminal(db.jobs[id])
                            /\ Overdue(db.jobs[id], now)
                            /\ ~OwesCascades(db.rows, id)
        /\ db' = [Purged(gone) EXCEPT !.keys = [k \in Freed |-> None] @@ @]
        /\ \A k \in Freed : Dead(db.keys[k])
        /\ UNCHANGED <<now, lastToken, wake>>

\* Calls of one statement.
Statement ==
    \/ Mem!Tick
    \/ \E r \in scenario.requests, id \in JobIds : Mem!Enqueue(r, id)
    \/ \E id \in JobIds :
          \/ Mem!Retry(id) \/ Mem!Promote(id)
          \/ Use("remove") /\ Mem!Remove(id)
          \/ \E token \in 1..lastToken, lockMs \in LockDurations :
                Mem!ExtendLocks(id, token, lockMs)
          \/ \E keys \in SUBSET ChildKeys : Mem!MarkChildrenCascaded(id, keys)
    \/ \E entries \in SUBSET db.outbox : Mem!DeleteOutbox(entries)
    \/ \E queue \in Queues : Mem!Pause(queue) \/ Mem!Resume(queue)
    \/ SkipLockedClaim \/ SkipLockedPage \/ RetentionStatement

\* An enqueue decides to insert and replace nothing.
Deduplicates(c) ==
    /\ c \in Open /\ txs[c].call.op = "enqueue" /\ txs[c].pc # "commit"
    /\ txs'[c] # None /\ txs'[c].pc = "commit" /\ txs'[c].jobs = <<>>

\* Then the reference driver would not have inserted one either, given the
\* tables as they are at that step; it would have replaced the job only where
\* the driver was about to, and found it no longer delayed.
JustDuplicate(c) ==
    \E r \in {txs[c].call.request}, at \in {txs[c].at} :
        \/ MemAt(at)!IdTaken(r)
        \/ /\ ~MemAt(at)!Replaces(r)
           /\ \/ MemAt(at)!WindowLive(r) \/ MemAt(at)!KeyedJobPending(r)
              \/ txs[c].pc = "replace"

(* However the statements of concurrent calls interleave, wait, or are     *)
(* rolled back, every commit is the whole operation its call promised, at  *)
(* the clock reading of that call, done in one step by the reference       *)
(* driver to the jobs, rows, keys and outbox as they are then; an enqueue  *)
(* that does nothing has the reason to that the reference driver would     *)
(* have.  Claims and the flow sweep may pass over what others hold; the    *)
(* history sweep does its pass in parts.                                   *)
ImplementsReference ==
    /\ Mem!Init
    /\ [][IF \E c \in Calls : Committing(c)
          THEN \E c \in Calls : Committing(c) /\ Promised(c)
          ELSE Statement]_(Mem!vars)
    /\ [][\A c \in Calls : Deduplicates(c) => JustDuplicate(c)]_txs

(* "Dead dedup rows: expired windows, or pointers at vanished jobs"        *)
(* (DrizzleJobStore.ts): the history sweep frees no key that a pending job *)
(* holds.                                                                  *)
SweepFreesDeadKeysStep ==
    sweep' # sweep => \A k \in Freed : Dead(db.keys[k])
SweepFreesDeadKeys == [][SweepFreesDeadKeysStep]_vars

=============================================================================
