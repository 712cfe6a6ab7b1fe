-------------------------- MODULE MemoryJobStore --------------------------
(***************************************************************************)
(* The reference driver of the JobStore seam (MemoryJobStore.ts): job      *)
(* records with their lifecycle, lock and run ledger, the dedup registry,  *)
(* queue pauses, retention, and the parent's side of a flow (dependency    *)
(* rows, manifest counters, outbox).                                       *)
(*                                                                         *)
(* Every operation of the driver reads the clock once and then runs in one *)
(* synchronous block, so each is one action.  A call that returns early or *)
(* fails without writing anything (unknown id, lost lock, wrong state,     *)
(* duplicate enqueue) is not a step here.  Callers are arbitrary: any      *)
(* number of workers, producers, sweepers and operators may call any       *)
(* operation at any time.                                                  *)
(*                                                                         *)
(* Payload, metadata, backoff, timeout, trace, enqueuedAt and processedAt  *)
(* are data that no decision of the store reads; the payload stands for    *)
(* all of them (what a `replace` overwrites).  Exits are "present" or not. *)
(***************************************************************************)
EXTENDS Integers, Sequences, FiniteSets

CONSTANTS
    JobIds,          \* ids a caller or the id generator may produce
    ParentIds,       \* ids of flows, in whatever store, that jobs are children of
    Names,           \* job names
    Queues,          \* queue names
    DedupeKeys,      \* dedup key strings
    ChildKeys,       \* child keys of a flow
    Payloads,        \* encoded payloads
    Requests,        \* the enqueue requests producers and flows submit
    LockDurations,   \* lockDurationMs of the workers on this store
    RetryDelays,     \* backoff delays workers compute
    MaxStalledCount, \* recoverStalled's tolerance
    PendingAgeMs,    \* age at which a pending row is reconciled
    SweepLimit,      \* rows flowSweepWork returns per class
    HistoryTtl,      \* store-level retention ceiling per terminal state
    None,            \* JavaScript's undefined
    MaxTime,         \* bound: the clock stops here
    MaxSeq,          \* bound: enqueue-order numbers handed out
    MaxTokens        \* bound: lock tokens handed out

VARIABLES
    now,          \* Clock.currentTimeMillis
    jobs,         \* jobs: id -> MemJob, None when the Map has no such key
    flowChildren, \* flowChildren: parent id -> child key -> row
    dedupes,      \* dedupes: (name, key) -> entry
    outbox,       \* undelivered child reports
    paused,       \* paused queues
    seq,          \* last enqueue-order number
    outboxSeq,    \* last outbox stamp
    lastToken,    \* last lock token a worker generated
    woken         \* queues whose waiters the last operation signalled

vars == <<now, jobs, flowChildren, dedupes, outbox, paused, seq, outboxSeq,
          lastToken, woken>>

-----------------------------------------------------------------------------
(* Types                                                                   *)

TerminalStates == {"completed", "failed", "cancelled"}
JobStates == {"waiting", "delayed", "active", "waiting-children"}
                 \cup TerminalStates
AttemptOutcomes == {"completed", "retried", "failed", "stalled", "cancelled",
                    "fanned-out"}
Opt(S) == S \cup {None}

KeepStatePolicy == [count : Opt(Nat), ageMs : Opt(Nat)]
KeepPolicy == [TerminalStates -> Opt(KeepStatePolicy)]
DedupePolicy == [key : DedupeKeys, ttlMs : Opt(Nat), extend : BOOLEAN,
                 replace : BOOLEAN]
ParentEnvelope == [flowId : ParentIds, childKey : ChildKeys]
FlowState == [failFast : BOOLEAN, pending : Nat, completed : Nat,
              failed : Nat, cancelled : Nat]

EnqueueRequest ==
    [id : Opt(JobIds), name : Names, queue : Queues, payload : Payloads,
     priority : Int, attemptsMax : Nat, keep : Opt(KeepPolicy),
     dedupe : Opt(DedupePolicy), parent : Opt(ParentEnvelope),
     delayMs : Nat]

MemJob ==
    [name : Names, queue : Queues, payload : Payloads, priority : Int,
     attemptsMax : Nat, keep : Opt(KeepPolicy), dedupeKey : Opt(DedupeKeys),
     parent : Opt(ParentEnvelope), state : JobStates, attemptsMade : Nat,
     stalledCount : Nat, cancelRequested : BOOLEAN, flow : Opt(FlowState),
     runAt : Nat, finishedAt : Opt(Nat), exit : BOOLEAN,
     failedReason : BOOLEAN, attempts : Seq(AttemptOutcomes), seq : Nat,
     lockToken : Opt(Nat), lockExpiresAt : Opt(Nat)]

MemFlowChild ==
    [status : {"pending"} \cup TerminalStates, cascaded : BOOLEAN,
     pendingSince : Nat]

DedupeEntry == [jobId : JobIds, expiresAt : Opt(Nat)]

OutboxEntry ==
    [stamp : Nat, flowId : ParentIds, childKey : ChildKeys,
     outcome : TerminalStates, exit : BOOLEAN, failedReason : BOOLEAN]

ASSUME ConstantsAssumption ==
    /\ IsFiniteSet(JobIds) /\ IsFiniteSet(ChildKeys)
    /\ Requests \subseteq EnqueueRequest
    /\ LockDurations \subseteq Nat \ {0}
    /\ RetryDelays \subseteq Nat
    /\ MaxStalledCount \in Nat /\ PendingAgeMs \in Nat
    /\ SweepLimit \in Nat \ {0}
    /\ HistoryTtl \in [TerminalStates -> Opt(Nat)]
    /\ MaxTime \in Nat /\ MaxSeq \in Nat /\ MaxTokens \in Nat

(* `undefined` is none of the values it stands in for.                     *)
ASSUME NoneAssumption ==
    /\ None \notin JobIds /\ None \notin DedupeKeys /\ None \notin Nat
    /\ None \notin MemJob /\ None \notin FlowState /\ None \notin DedupeEntry
    /\ None \notin MemFlowChild /\ None \notin ParentEnvelope
    /\ None \notin DedupePolicy /\ None \notin KeepStatePolicy
    /\ None \notin KeepPolicy

(* The id of a flow's child is computed from the flow's id and the child's *)
(* key (childJobId, Flow.ts).                                              *)
ASSUME ChildIdPerParent ==
    \A r1, r2 \in Requests :
        r1.parent # None /\ r1.parent = r2.parent =>
            r1.id # None /\ r1.id = r2.id

DedupeMapKeys == Names \X DedupeKeys
NoRows == [k \in ChildKeys |-> None]

Max0(n) == IF n > 0 THEN n ELSE 0
Has(js, id) == js[id] # None
Terminal(j) == j.state \in TerminalStates

-----------------------------------------------------------------------------
(* Helpers of makeStoreUnsafe, as operators on a copy js of the jobs map   *)
(* and rs of the dependency rows.                                          *)

\* promoteDue: delayed jobs whose time has come become waiting.
PromoteDue(js) ==
    [id \in JobIds |->
        IF Has(js, id) /\ js[id].state = "delayed" /\ js[id].runAt <= now
        THEN [js[id] EXCEPT !.state = "waiting"]
        ELSE js[id]]

Fault_ClearLockKeepsExpiry(j) == [j EXCEPT !.lockToken = None]

ClearLock(j) == [j EXCEPT !.lockToken = None, !.lockExpiresAt = None]

Fault_RecordAttemptOfOldState(j, outcome) ==
    [j EXCEPT !.attempts = Append(@, j.state)]

RecordAttempt(j, outcome) == [j EXCEPT !.attempts = Append(@, outcome)]

\* The Complete, Fail and cancelled cases set the same terminal fields.
Finish(j, state) ==
    RecordAttempt([ClearLock(j) EXCEPT !.cancelRequested = FALSE,
                                       !.state = state,
                                       !.finishedAt = now], state)

WithStatus(row, status) ==
    {k \in ChildKeys : row[k] # None /\ row[k].status = status}

\* markPendingRowsCancelled: the sweeper still owes the child stores the
\* real cancels, so the rows are not cascaded.
MarkPendingRowsCancelled(row) ==
    [k \in ChildKeys |->
        IF k \in WithStatus(row, "pending")
        THEN [row[k] EXCEPT !.status = "cancelled", !.cascaded = FALSE]
        ELSE row[k]]

Fault_SettleFlowUncounted(flow, row) ==
    IF flow = None THEN None ELSE [flow EXCEPT !.pending = 0]

\* settleMarkRows: what the marking does to the parent's counters.
SettleFlow(flow, row) ==
    IF flow = None THEN None
    ELSE [flow EXCEPT !.pending = 0,
                      !.cancelled =
                          @ + Cardinality(WithStatus(row, "pending"))]

Fault_OwesNothing(row) == FALSE

OwesCascades(row) == \E k \in WithStatus(row, "cancelled") : ~row[k].cascaded

\* The flat {count, ageMs} record of older versions is the policy with that
\* same entry for every state.
KeepPolicyFor(keep, state) == IF keep = None THEN None ELSE keep[state]

Peers(js, id) == {p \in JobIds : /\ Has(js, p)
                                  /\ js[p].name = js[id].name
                                  /\ js[p].state = js[id].state}

NewerPeers(js, id) ==
    {p \in Peers(js, id) : \/ js[p].finishedAt > js[id].finishedAt
                           \/ /\ js[p].finishedAt = js[id].finishedAt
                              /\ js[p].seq > js[id].seq}

Fault_BeyondCountOffByOne(js, p, count) ==
    Cardinality(NewerPeers(js, p)) > count

BeyondCount(js, p, count) == Cardinality(NewerPeers(js, p)) >= count

\* applyKeep: the terminal jobs of the same name and state that the policy
\* of job id drops: too old, or behind `count` newer ones.
KeepVictims(js, rs, id) ==
    LET policy == KeepPolicyFor(js[id].keep, js[id].state)
    IN  IF policy = None THEN {}
        ELSE {p \in Peers(js, id) :
                 /\ \/ /\ policy.ageMs # None
                       /\ js[p].finishedAt <= now - policy.ageMs
                    \/ /\ policy.count # None
                       /\ BeyondCount(js, p, policy.count)
                 /\ ~OwesCascades(rs[p])}

\* deleteJob: a pruned parent takes its dependency rows with it.
Without(f, ids, absent) ==
    [id \in JobIds |-> IF id \in ids THEN absent ELSE f[id]]

Fault_ReleaseIgnoresWindow(js, ids) ==
    [k \in DedupeMapKeys |->
        IF dedupes[k] # None /\ dedupes[k].jobId \in ids THEN None
        ELSE dedupes[k]]

Fault_ReleaseOnlyExpired(js, ids) ==
    [k \in DedupeMapKeys |->
        IF /\ dedupes[k] # None
           /\ dedupes[k].jobId \in ids
           /\ dedupes[k].expiresAt # None /\ dedupes[k].expiresAt <= now
        THEN None
        ELSE dedupes[k]]

\* releaseDedupe: a finished job frees its key unless a window is still live.
ReleaseDedupe(js, ids) ==
    [k \in DedupeMapKeys |->
        IF /\ dedupes[k] # None
           /\ dedupes[k].jobId \in ids
           /\ k = <<js[dedupes[k].jobId].name, js[dedupes[k].jobId].dedupeKey>>
           /\ dedupes[k].expiresAt = None \/ dedupes[k].expiresAt <= now
        THEN None
        ELSE dedupes[k]]

\* appendOutbox: the report of a job that just became terminal.
Report(j) ==
    [stamp |-> outboxSeq + 1, flowId |-> j.parent.flowId,
     childKey |-> j.parent.childKey, outcome |-> j.state, exit |-> j.exit,
     failedReason |-> j.failedReason]

Fault_ReportOnlyExits(js, done) ==
    {Report(js[id]) : id \in {d \in done : js[d].parent # None /\ js[d].exit}}

Reports(js, done) ==
    {Report(js[id]) : id \in {d \in done : js[d].parent # None}}

\* The order in which one call ends the jobs `kept` (a Map's insertion
\* order, which the state does not show).
Turns(kept) ==
    {turn \in [kept -> 1..Cardinality(kept)] :
        \A a, b \in kept : turn[a] = turn[b] => a = b}

\* The records applyKeep finds at the turn of job id: those whose turn is
\* still to come have not ended, and what went before took its drops along.
AtTurn(js, turn, drops, id) ==
    LET later == {p \in DOMAIN turn : turn[p] > turn[id]}
        dropped == UNION {drops[p] : p \in {q \in DOMAIN turn :
                                               turn[q] < turn[id]}}
    IN  Without(js, (later \cup dropped) \ {id}, None)

\* What every terminal transition runs after it wrote the record: append
\* the report, release the dedup entry, apply retention.  `done` are the
\* jobs that became terminal, `kept` those whose keep policy is applied,
\* one after the other; `drops` is what each of these policies drops.
Retire(js, rs, done, kept) ==
    \E turn \in Turns(kept), drops \in [kept -> SUBSET JobIds] :
        LET victims == UNION {drops[id] : id \in kept}
            reports == Reports(js, done)
        IN  /\ \A id \in kept :
                  drops[id] = KeepVictims(AtTurn(js, turn, drops, id), rs, id)
            /\ jobs' = Without(js, victims, None)
            /\ flowChildren' = Without(rs, victims, NoRows)
            /\ outbox' = outbox \cup reports
            /\ outboxSeq' = IF reports = {} THEN outboxSeq ELSE outboxSeq + 1
            /\ dedupes' = ReleaseDedupe(js, done)

\* markCancelled on a job whose record is j by now.
MarkCancelled(id, j) ==
    LET parked == j.state = "waiting-children"
        row == flowChildren[id]
    IN  Retire([jobs EXCEPT ![id] =
                   Finish([j EXCEPT !.flow = IF parked THEN SettleFlow(@, row)
                                             ELSE @], "cancelled")],
               [flowChildren EXCEPT ![id] =
                   IF parked THEN MarkPendingRowsCancelled(row) ELSE row],
               {id}, {id})

\* signalWake: wakes the waiters of the queues qs (all for a broadcast).
SignalWake(qs) == woken' = qs

-----------------------------------------------------------------------------
(* Enqueue                                                                 *)

KeyOf(r) == <<r.name, r.dedupe.key>>
EntryOf(r) == IF r.dedupe = None THEN None ELSE dedupes[KeyOf(r)]
IdTaken(r) == r.id # None /\ Has(jobs, r.id)

Replaces(r) ==
    /\ EntryOf(r) # None
    /\ r.dedupe.replace
    /\ Has(jobs, EntryOf(r).jobId)
    /\ jobs[EntryOf(r).jobId].state = "delayed"

WindowLive(r) ==
    /\ EntryOf(r) # None
    /\ EntryOf(r).expiresAt # None
    /\ now < EntryOf(r).expiresAt

Fault_PendingForgetsActive(r) ==
    /\ EntryOf(r) # None
    /\ EntryOf(r).expiresAt = None
    /\ Has(jobs, EntryOf(r).jobId)
    /\ jobs[EntryOf(r).jobId].state \in {"waiting", "delayed"}

KeyedJobPending(r) ==
    /\ EntryOf(r) # None
    /\ EntryOf(r).expiresAt = None
    /\ Has(jobs, EntryOf(r).jobId)
    /\ ~Terminal(jobs[EntryOf(r).jobId])

\* insertJobRecord
NewJob(r) ==
    [name |-> r.name, queue |-> r.queue, payload |-> r.payload,
     priority |-> r.priority, attemptsMax |-> r.attemptsMax,
     keep |-> r.keep,
     dedupeKey |-> IF r.dedupe = None THEN None ELSE r.dedupe.key,
     parent |-> r.parent,
     state |-> IF r.delayMs > 0 THEN "delayed" ELSE "waiting",
     attemptsMade |-> 0, stalledCount |-> 0, cancelRequested |-> FALSE,
     flow |-> None, runAt |-> now + r.delayMs, finishedAt |-> None,
     exit |-> FALSE, failedReason |-> FALSE, attempts |-> <<>>,
     seq |-> seq + 1, lockToken |-> None, lockExpiresAt |-> None]

Expiry(r) == IF r.dedupe.ttlMs = None THEN None ELSE now + r.dedupe.ttlMs

\* enqueueOne, the path that inserts.  An id the store assigns is any id
\* that is not in use (the counter and custom generators both skip those).
Enqueue(r, id) ==
    /\ IF r.id = None THEN ~Has(jobs, id) ELSE id = r.id /\ ~IdTaken(r)
    /\ ~Replaces(r) /\ ~WindowLive(r) /\ ~KeyedJobPending(r)
    /\ seq < MaxSeq
    /\ seq' = seq + 1
    /\ jobs' = [jobs EXCEPT ![id] = NewJob(r)]
    /\ dedupes' = IF r.dedupe = None THEN dedupes
                  ELSE [dedupes EXCEPT ![KeyOf(r)] =
                           [jobId |-> id, expiresAt |-> Expiry(r)]]
    /\ SignalWake({r.queue})
    /\ UNCHANGED <<now, flowChildren, outbox, paused, outboxSeq, lastToken>>

\* enqueueOne, latest-wins while the keyed job is delayed: id, queue, name
\* and ledger stay.
EnqueueReplace(r) ==
    /\ ~IdTaken(r)
    /\ Replaces(r)
    /\ LET id == EntryOf(r).jobId IN
        /\ jobs' = [jobs EXCEPT
                       ![id].payload = r.payload,
                       ![id].priority = r.priority,
                       ![id].attemptsMax = r.attemptsMax,
                       ![id].keep = r.keep,
                       ![id].runAt = now + r.delayMs]
        /\ dedupes' = IF r.dedupe.ttlMs = None THEN dedupes
                      ELSE [dedupes EXCEPT ![KeyOf(r)].expiresAt = Expiry(r)]
        /\ SignalWake({jobs[id].queue})
    /\ UNCHANGED <<now, flowChildren, outbox, paused, seq, outboxSeq,
                   lastToken>>

\* enqueueOne, a deduplicated enqueue that pushes the window out.
EnqueueExtend(r) ==
    /\ ~IdTaken(r) /\ ~Replaces(r) /\ WindowLive(r)
    /\ r.dedupe.extend /\ r.dedupe.ttlMs # None
    /\ dedupes' = [dedupes EXCEPT ![KeyOf(r)].expiresAt = Expiry(r)]
    /\ SignalWake({})
    /\ UNCHANGED <<now, jobs, flowChildren, outbox, paused, seq, outboxSeq,
                   lastToken>>

-----------------------------------------------------------------------------
(* Claim, lock renewal, release, stall recovery                            *)

Claimable(js, queue, names) ==
    {id \in JobIds : /\ Has(js, id)
                     /\ js[id].queue = queue
                     /\ js[id].name \in names
                     /\ js[id].state = "waiting"}

\* Highest priority first, enqueue order within a priority.
Precedes(a, b) ==
    a.priority > b.priority \/ (a.priority = b.priority /\ a.seq < b.seq)

Claimed(j, token, lockMs) ==
    [j EXCEPT !.state = "active", !.lockToken = token,
              !.lockExpiresAt = now + lockMs]

Claim(queue, names, lockMs) ==
    LET js == PromoteDue(jobs)
        ids == Claimable(js, queue, names)
        token == lastToken + 1
    IN  /\ queue \notin paused
        /\ token <= MaxTokens
        /\ \E best \in ids :
              /\ \A id \in ids \ {best} : Precedes(js[best], js[id])
              /\ jobs' = [js EXCEPT ![best] = Claimed(js[best], token, lockMs)]
        /\ lastToken' = token
        /\ SignalWake({})
        /\ UNCHANGED <<now, flowChildren, dedupes, outbox, paused, seq,
                       outboxSeq>>

\* An Empty claim still promotes due jobs.
ClaimEmpty(queue, names) ==
    LET js == PromoteDue(jobs)
    IN  /\ js # jobs
        /\ queue \in paused \/ Claimable(js, queue, names) = {}
        /\ jobs' = js
        /\ SignalWake({})
        /\ UNCHANGED <<now, flowChildren, dedupes, outbox, paused, seq,
                       outboxSeq, lastToken>>

Fault_HeldByAnyToken(id, token) ==
    Has(jobs, id) /\ jobs[id].state = "active"

Held(id, token) ==
    /\ Has(jobs, id)
    /\ jobs[id].state = "active"
    /\ jobs[id].lockToken = token

\* extendLocks: the heartbeat of a worker for its in-flight jobs.  Lost
\* locks and jobs with a pending cancel are only reported.  The locks of a
\* batch are independent, so a batch is one step per lock.
ExtendLocks(id, token, lockMs) ==
    /\ Held(id, token)
    /\ ~jobs[id].cancelRequested
    /\ jobs' = [jobs EXCEPT ![id].lockExpiresAt = now + lockMs]
    /\ SignalWake({})
    /\ UNCHANGED <<now, flowChildren, dedupes, outbox, paused, seq, outboxSeq,
                   lastToken>>

Fault_ReleaseRevivesCancelled(id, token) ==
    /\ Held(id, token)
    /\ jobs' = [jobs EXCEPT ![id] =
                   [ClearLock(@) EXCEPT !.state = "waiting",
                                        !.cancelRequested = FALSE]]
    /\ SignalWake({jobs[id].queue})
    /\ UNCHANGED <<now, flowChildren, dedupes, outbox, paused, seq, outboxSeq,
                   lastToken>>

\* release: shutdown hands the job back, unless a cancel is pending.
Release(id, token) ==
    /\ Held(id, token)
    /\ IF jobs[id].cancelRequested
       THEN MarkCancelled(id, jobs[id]) /\ SignalWake({})
       ELSE /\ jobs' = [jobs EXCEPT ![id] =
                           [ClearLock(@) EXCEPT !.state = "waiting"]]
            /\ SignalWake({jobs[id].queue})
            /\ UNCHANGED <<flowChildren, dedupes, outbox, outboxSeq>>
    /\ UNCHANGED <<now, paused, seq, lastToken>>

Stalled == {id \in JobIds : /\ Has(jobs, id)
                            /\ jobs[id].state = "active"
                            /\ jobs[id].lockExpiresAt # None
                            /\ jobs[id].lockExpiresAt <= now}

Fault_StallOffByOne(j) == j.stalledCount > MaxStalledCount

StallsExhausted(j) == j.stalledCount + 1 > MaxStalledCount

\* What recoverStalled makes of a stalled job: finish a cancel its owner
\* died over, fail a job that stalled too often, requeue any other.
RecoveredJob(j) ==
    LET stalled == [RecordAttempt(ClearLock(j), "stalled")
                       EXCEPT !.stalledCount = @ + 1]
    IN  IF j.cancelRequested THEN Finish(j, "cancelled")
        ELSE IF StallsExhausted(j)
        THEN [stalled EXCEPT !.state = "failed", !.finishedAt = now,
                             !.failedReason = TRUE]
        ELSE [stalled EXCEPT !.state = "waiting"]

\* recoverStalled: one pass over every active job with an expired lock.
\* Stall exhaustion fails the job without applying its keep policy.
RecoverStalled ==
    LET js == [id \in JobIds |->
                 IF id \in Stalled THEN RecoveredJob(jobs[id]) ELSE jobs[id]]
        done == {id \in Stalled : Terminal(js[id])}
    IN  /\ Stalled # {}
        /\ Retire(js, flowChildren, done,
                  {id \in done : jobs[id].cancelRequested})
        /\ SignalWake(IF done # Stalled THEN Queues ELSE {})
        /\ UNCHANGED <<now, paused, seq, lastToken>>

-----------------------------------------------------------------------------
(* Ack                                                                     *)

\* clearLock and the attempt count every outcome but FanOut consumes.
Acked(id) == [ClearLock(jobs[id]) EXCEPT !.attemptsMade = @ + 1]

\* ack Complete, Fail and Cancelled.  An exit that could not be encoded is
\* absent.
AckTerminal(id, token, state, exit) ==
    /\ Held(id, token)
    /\ state = "completed" => exit
    /\ state = "cancelled" => ~exit
    /\ Retire([jobs EXCEPT ![id] =
                  Finish([Acked(id) EXCEPT
                             !.exit = IF state = "cancelled" THEN @ ELSE exit],
                         state)],
              flowChildren, {id}, {id})
    /\ SignalWake({})
    /\ UNCHANGED <<now, paused, seq, lastToken>>

\* ack Retry: a cancel that raced the failure wins over the revival.
AckRetry(id, token, delayMs) ==
    /\ Held(id, token)
    /\ IF jobs[id].cancelRequested
       THEN /\ MarkCancelled(id, Acked(id))
            /\ SignalWake({})
            /\ seq' = seq
       ELSE /\ seq < MaxSeq
            /\ seq' = seq + 1
            /\ jobs' = [jobs EXCEPT ![id] =
                  [RecordAttempt(Acked(id), "retried") EXCEPT
                      !.runAt = now + delayMs,
                      !.state = IF delayMs > 0 THEN "delayed" ELSE "waiting",
                      !.seq = seq + 1]]
            /\ SignalWake({jobs[id].queue})
            /\ UNCHANGED <<flowChildren, dedupes, outbox, outboxSeq>>
    /\ UNCHANGED <<now, paused, lastToken>>

Manifest(children, failFast) ==
    [failFast |-> failFast, pending |-> Cardinality(children),
     completed |-> 0, failed |-> 0, cancelled |-> 0]

PendingRows(children) ==
    [k \in ChildKeys |->
        IF k \in children
        THEN [status |-> "pending", cascaded |-> FALSE, pendingSince |-> now]
        ELSE None]

Fault_AlwaysFirstFanOut(id) == TRUE

FirstFanOut(id) == jobs[id].flow = None

\* ack FanOut: persist the manifest once, then park the parent, or make it
\* runnable when nothing is pending.  A cancel that raced the fan-out wins:
\* the fresh rows are marked and the parent is cancelled.
AckFanOut(id, token, children, failFast) ==
    LET first == FirstFanOut(id)
        flow == IF first THEN Manifest(children, failFast) ELSE jobs[id].flow
        row == IF first THEN PendingRows(children) ELSE flowChildren[id]
        j == RecordAttempt([ClearLock(jobs[id]) EXCEPT !.flow = flow],
                           "fanned-out")
    IN  /\ Held(id, token)
        /\ IF j.cancelRequested
           THEN /\ Retire([jobs EXCEPT ![id] =
                              Finish([j EXCEPT !.flow = SettleFlow(@, row)],
                                     "cancelled")],
                          [flowChildren EXCEPT ![id] =
                              MarkPendingRowsCancelled(row)],
                          {id}, {id})
                /\ SignalWake({})
                /\ seq' = seq
           ELSE /\ flowChildren' = [flowChildren EXCEPT ![id] = row]
                /\ \/ /\ flow.pending > 0
                      /\ jobs' = [jobs EXCEPT ![id] =
                                     [j EXCEPT !.state = "waiting-children"]]
                      /\ SignalWake({})
                      /\ seq' = seq
                   \/ /\ flow.pending = 0
                      /\ seq < MaxSeq
                      /\ seq' = seq + 1
                      /\ jobs' = [jobs EXCEPT ![id] =
                                     [j EXCEPT !.state = "waiting",
                                               !.runAt = now,
                                               !.seq = seq + 1]]
                      /\ SignalWake({j.queue})
                /\ UNCHANGED <<dedupes, outbox, outboxSeq>>
        /\ UNCHANGED <<now, paused, lastToken>>

-----------------------------------------------------------------------------
(* Admin verbs                                                             *)

\* cancelJob: terminal at once, or flagged for the owner's heartbeat.
Cancel(id) ==
    /\ Has(jobs, id)
    /\ \/ /\ jobs[id].state \in {"waiting", "delayed", "waiting-children"}
          /\ MarkCancelled(id, jobs[id])
       \/ /\ jobs[id].state = "active"
          /\ jobs' = [jobs EXCEPT ![id].cancelRequested = TRUE]
          /\ UNCHANGED <<flowChildren, dedupes, outbox, outboxSeq>>
    /\ SignalWake({})
    /\ UNCHANGED <<now, paused, seq, lastToken>>

\* cancelByDedupe: cancel whatever job the key's entry points at.
CancelByDedupe(k) ==
    /\ dedupes[k] # None
    /\ Cancel(dedupes[k].jobId)

Fault_ReviveKeepsReason(j) ==
    [j EXCEPT !.state = "waiting", !.attemptsMade = 0, !.stalledCount = 0,
              !.exit = FALSE, !.finishedAt = None, !.runAt = now,
              !.seq = seq + 1]

Revive(j) ==
    [j EXCEPT !.state = "waiting", !.attemptsMade = 0, !.stalledCount = 0,
              !.cancelRequested = FALSE, !.exit = FALSE,
              !.failedReason = FALSE, !.finishedAt = None, !.runAt = now,
              !.seq = seq + 1]

\* retry: a failed job gets a fresh budget; its ledger, manifest and rows
\* survive, its dedup entry does not come back.
Retry(id) ==
    /\ Has(jobs, id)
    /\ jobs[id].state = "failed"
    /\ seq < MaxSeq
    /\ seq' = seq + 1
    /\ jobs' = [jobs EXCEPT ![id] = Revive(jobs[id])]
    /\ SignalWake({jobs[id].queue})
    /\ UNCHANGED <<now, flowChildren, dedupes, outbox, paused, outboxSeq,
                   lastToken>>

Promote(id) ==
    /\ Has(jobs, id)
    /\ jobs[id].state = "delayed"
    /\ jobs' = [jobs EXCEPT ![id].state = "waiting", ![id].runAt = now]
    /\ SignalWake({jobs[id].queue})
    /\ UNCHANGED <<now, flowChildren, dedupes, outbox, paused, seq, outboxSeq,
                   lastToken>>

Pause(queue) ==
    /\ queue \notin paused
    /\ paused' = paused \cup {queue}
    /\ SignalWake({})
    /\ UNCHANGED <<now, jobs, flowChildren, dedupes, outbox, seq, outboxSeq,
                   lastToken>>

Fault_ResumeSilently(queue) ==
    /\ queue \in paused
    /\ paused' = paused \ {queue}
    /\ SignalWake({})
    /\ UNCHANGED <<now, jobs, flowChildren, dedupes, outbox, seq, outboxSeq,
                   lastToken>>

Resume(queue) ==
    /\ queue \in paused
    /\ paused' = paused \ {queue}
    /\ SignalWake({queue})
    /\ UNCHANGED <<now, jobs, flowChildren, dedupes, outbox, seq, outboxSeq,
                   lastToken>>

\* remove: the operator override; it ignores what the rows still owe.
Remove(id) ==
    /\ Has(jobs, id)
    /\ jobs[id].state \notin {"active", "waiting-children"}
    /\ jobs' = Without(jobs, {id}, None)
    /\ flowChildren' = Without(flowChildren, {id}, NoRows)
    /\ SignalWake({})
    /\ UNCHANGED <<now, dedupes, outbox, paused, seq, outboxSeq, lastToken>>

\* sweepHistory: the retention timer (only a store with a ceiling runs it).
SweepHistory ==
    LET KeepAge(j) == LET p == KeepPolicyFor(j.keep, j.state)
                      IN  IF p = None THEN None ELSE p.ageMs
        Effective(j) ==
            LET ttl == HistoryTtl[j.state]
                age == KeepAge(j)
            IN  IF age # None /\ (ttl = None \/ age < ttl) THEN age ELSE ttl
        victims == {id \in JobIds :
                       /\ Has(jobs, id) /\ Terminal(jobs[id])
                       /\ jobs[id].finishedAt # None
                       /\ Effective(jobs[id]) # None
                       /\ jobs[id].finishedAt <= now - Effective(jobs[id])
                       /\ ~OwesCascades(flowChildren[id])}
        js == Without(jobs, victims, None)
        Alive(e) == IF e.expiresAt # None THEN e.expiresAt > now
                    ELSE Has(js, e.jobId) /\ ~Terminal(js[e.jobId])
    IN  /\ \E s \in TerminalStates : HistoryTtl[s] # None
        /\ jobs' = js
        /\ flowChildren' = Without(flowChildren, victims, NoRows)
        /\ dedupes' = [k \in DedupeMapKeys |->
                          IF dedupes[k] # None /\ Alive(dedupes[k])
                          THEN dedupes[k] ELSE None]
        /\ SignalWake({})
        /\ UNCHANGED <<now, outbox, paused, seq, outboxSeq, lastToken>>

-----------------------------------------------------------------------------
(* Flows: the parent's side and the outbox                                 *)

Fault_AppliesToAnyRow(row, reports) ==
    {k \in DOMAIN reports : row[k] # None}

\* Only a pending row takes a report; anything else is a late duplicate.
AppliedKeys(row, reports) == DOMAIN reports \cap WithStatus(row, "pending")

\* A reported outcome came from the child's store: no cancel to deliver.
ReportedRow(row, reports) ==
    [k \in ChildKeys |->
        IF k \in AppliedKeys(row, reports)
        THEN [row[k] EXCEPT !.status = reports[k], !.cascaded = TRUE]
        ELSE row[k]]

Counted(flow, row, reports) ==
    LET applied == AppliedKeys(row, reports)
        Count(outcome) == Cardinality({k \in applied : reports[k] = outcome})
    IN  [flow EXCEPT !.pending = Max0(@ - Cardinality(applied)),
                     !.completed = @ + Count("completed"),
                     !.failed = @ + Count("failed"),
                     !.cancelled = @ + Count("cancelled")]

Fault_ResumesOnTie(flow, row, reports) ==
    /\ flow.failFast /\ flow.pending > 0
    /\ \E k \in AppliedKeys(row, reports) : reports[k] = "failed"

FailsFast(flow, row, reports) ==
    flow.failFast /\ \E k \in AppliedKeys(row, reports) : reports[k] = "failed"

\* recordChildResults for the reports of one flow in a batch: `reports`
\* maps child keys to the first outcome the batch carries for them.  Rows
\* apply first, then at most one settle decision; fail-fast wins ties.
\* Flows of a batch share no state, so a batch over several flows is one
\* such step per flow.
RecordChildResults(flowId, reports) ==
    LET row == flowChildren[flowId]
        row1 == ReportedRow(row, reports)
        j == [jobs[flowId] EXCEPT !.flow = Counted(@, row, reports)]
        parked == j.state = "waiting-children"
        failsFast == FailsFast(j.flow, row, reports)
    IN  /\ Has(jobs, flowId) /\ jobs[flowId].flow # None
        /\ AppliedKeys(row, reports) # {}
        /\ \/ /\ parked /\ failsFast
              /\ Retire([jobs EXCEPT ![flowId] =
                            Finish([j EXCEPT !.flow = SettleFlow(@, row1),
                                             !.failedReason = TRUE],
                                   "failed")],
                        [flowChildren EXCEPT ![flowId] =
                            MarkPendingRowsCancelled(row1)],
                        {flowId}, {flowId})
              /\ SignalWake({})
              /\ seq' = seq
           \/ /\ parked /\ ~failsFast /\ j.flow.pending = 0
              /\ seq < MaxSeq
              /\ seq' = seq + 1
              /\ jobs' = [jobs EXCEPT ![flowId] =
                            [j EXCEPT !.state = "waiting", !.runAt = now,
                                      !.seq = seq + 1]]
              /\ flowChildren' = [flowChildren EXCEPT ![flowId] = row1]
              /\ SignalWake({j.queue})
              /\ UNCHANGED <<dedupes, outbox, outboxSeq>>
           \/ /\ ~parked \/ (~failsFast /\ j.flow.pending > 0)
              /\ jobs' = [jobs EXCEPT ![flowId] = j]
              /\ flowChildren' = [flowChildren EXCEPT ![flowId] = row1]
              /\ SignalWake({})
              /\ UNCHANGED <<dedupes, outbox, outboxSeq, seq>>
        /\ UNCHANGED <<now, paused, lastToken>>

\* deleteOutbox: the relay deletes what it delivered.
DeleteOutbox(entries) ==
    /\ outbox' = outbox \ entries
    /\ SignalWake({})
    /\ UNCHANGED <<now, jobs, flowChildren, dedupes, paused, seq, outboxSeq,
                   lastToken>>

Reconcilable ==
    {r \in [flowId : JobIds, childKey : ChildKeys] :
        /\ Has(jobs, r.flowId)
        /\ jobs[r.flowId].state = "waiting-children"
        /\ r.childKey \in WithStatus(flowChildren[r.flowId], "pending")
        /\ flowChildren[r.flowId][r.childKey].pendingSince
               <= now - PendingAgeMs}

\* flowSweepWork: the rows it returns for reconciliation are re-armed, so a
\* full page rotates.
FlowSweepWork(page) ==
    /\ page \subseteq Reconcilable /\ page # {}
    /\ \/ page = Reconcilable /\ Cardinality(page) <= SweepLimit
       \/ Cardinality(page) = SweepLimit
    /\ flowChildren' = [f \in JobIds |-> [k \in ChildKeys |->
          IF [flowId |-> f, childKey |-> k] \in page
          THEN [flowChildren[f][k] EXCEPT !.pendingSince = now]
          ELSE flowChildren[f][k]]]
    /\ SignalWake({})
    /\ UNCHANGED <<now, jobs, dedupes, outbox, paused, seq, outboxSeq,
                   lastToken>>

Cascaded(row, keys) ==
    [k \in ChildKeys |->
        IF k \in keys /\ row[k] # None THEN [row[k] EXCEPT !.cascaded = TRUE]
        ELSE row[k]]

\* markChildrenCascaded
MarkChildrenCascaded(flowId, keys) ==
    /\ flowChildren' = [flowChildren EXCEPT ![flowId] = Cascaded(@, keys)]
    /\ SignalWake({})
    /\ UNCHANGED <<now, jobs, dedupes, outbox, paused, seq, outboxSeq,
                   lastToken>>

-----------------------------------------------------------------------------
Tick ==
    /\ now < MaxTime
    /\ now' = now + 1
    /\ SignalWake({})
    /\ UNCHANGED <<jobs, flowChildren, dedupes, outbox, paused, seq, outboxSeq,
                   lastToken>>

Init ==
    /\ now = 0
    /\ jobs = [id \in JobIds |-> None]
    /\ flowChildren = [id \in JobIds |-> NoRows]
    /\ dedupes = [k \in DedupeMapKeys |-> None]
    /\ outbox = {}
    /\ paused = {}
    /\ seq = 0
    /\ outboxSeq = 0
    /\ lastToken = 0
    /\ woken = {}

Tokens == 1..lastToken

ProducerNext ==
    \E r \in Requests :
        \/ \E id \in JobIds : Enqueue(r, id)
        \/ EnqueueReplace(r)
        \/ EnqueueExtend(r)

WorkerNext ==
    \/ \E queue \in Queues, names \in SUBSET Names :
          \/ \E lockMs \in LockDurations : Claim(queue, names, lockMs)
          \/ ClaimEmpty(queue, names)
    \/ \E id \in JobIds, token \in Tokens :
          \/ \E state \in TerminalStates, exit \in BOOLEAN :
                AckTerminal(id, token, state, exit)
          \/ \E delayMs \in RetryDelays : AckRetry(id, token, delayMs)
          \/ \E children \in SUBSET ChildKeys, failFast \in BOOLEAN :
                AckFanOut(id, token, children, failFast)
          \/ Release(id, token)
          \/ \E lockMs \in LockDurations : ExtendLocks(id, token, lockMs)
    \/ RecoverStalled

FlowNext ==
    \/ \E flowId \in JobIds :
          \/ \E keys \in SUBSET ChildKeys :
                \E reports \in [keys -> TerminalStates] :
                    RecordChildResults(flowId, reports)
          \/ \E keys \in SUBSET ChildKeys : MarkChildrenCascaded(flowId, keys)
    \/ \E entries \in SUBSET outbox : DeleteOutbox(entries)
    \/ \E page \in SUBSET [flowId : JobIds, childKey : ChildKeys] :
          FlowSweepWork(page)

AdminNext ==
    \/ \E id \in JobIds : Cancel(id) \/ Retry(id) \/ Promote(id) \/ Remove(id)
    \/ \E k \in DedupeMapKeys : CancelByDedupe(k)
    \/ \E queue \in Queues : Pause(queue) \/ Resume(queue)
    \/ SweepHistory

Next == ProducerNext \/ WorkerNext \/ FlowNext \/ AdminNext \/ Tick

Spec == Init /\ [][Next]_vars

-----------------------------------------------------------------------------
(* Invariants                                                              *)

(* Every variable keeps its type in every reachable state.                 *)
TypeOK ==
    /\ now \in Nat
    /\ jobs \in [JobIds -> Opt(MemJob)]
    /\ flowChildren \in [JobIds -> [ChildKeys -> Opt(MemFlowChild)]]
    /\ dedupes \in [DedupeMapKeys -> Opt(DedupeEntry)]
    /\ outbox \subseteq OutboxEntry
    /\ paused \subseteq Queues
    /\ seq \in Nat /\ outboxSeq \in Nat /\ lastToken \in Nat
    /\ woken \subseteq Queues

LockedIffActive ==
    \A id \in JobIds : Has(jobs, id) =>
        /\ jobs[id].state = "active" <=> jobs[id].lockToken # None
        /\ jobs[id].state = "active" <=> jobs[id].lockExpiresAt # None
        /\ jobs[id].cancelRequested => jobs[id].state = "active"

TokensIssued ==
    \A id \in JobIds : Has(jobs, id) /\ jobs[id].lockToken # None =>
        jobs[id].lockToken <= lastToken

TokensDistinct ==
    \A id1, id2 \in JobIds :
        /\ Has(jobs, id1) /\ Has(jobs, id2)
        /\ jobs[id1].lockToken # None
        /\ jobs[id1].lockToken = jobs[id2].lockToken
        => id1 = id2

(* A job is locked exactly while it is active, no lock token is on two     *)
(* jobs, and a cancel request is pending only on an active job.  This is   *)
(* what makes the `state !== "active" || lockToken !== token` test of ack, *)
(* release and extendLocks a fence: whichever way a run ends (ack, shut-   *)
(* down, stall, cancel, settle), its token is worthless afterwards.        *)
LockInv == LockedIffActive /\ TokensIssued /\ TokensDistinct

LastOutcome(j) == j.attempts[Len(j.attempts)]

(* Terminal fields and run ledger tell the same story: a job is terminal   *)
(* exactly when finishedAt is set; its last ledger entry is the terminal   *)
(* state (or the stall that exhausted it); a result (exit) and a store-    *)
(* written reason never coexist; a pending job has neither, also after     *)
(* retry revived it.                                                       *)
ResultInv ==
    \A id \in JobIds : Has(jobs, id) =>
        LET j == jobs[id] IN
        /\ Terminal(j) <=> j.finishedAt # None
        /\ Terminal(j) => /\ j.attempts # <<>>
                          /\ \/ LastOutcome(j) = j.state
                             \/ /\ LastOutcome(j) = "stalled"
                                /\ j.state = "failed" /\ j.failedReason
        /\ j.exit => j.state \in {"completed", "failed"} /\ ~j.failedReason
        /\ j.failedReason => j.state = "failed"

Runs(j, outcome) == {i \in DOMAIN j.attempts : j.attempts[i] = outcome}

\* The job failed at some time.  Its ledger survives `retry`.
Revived(j) ==
    \/ Runs(j, "failed") # {}
    \/ Cardinality(Runs(j, "stalled")) > MaxStalledCount

(* recoverStalled never hands a job out again once it stalled more than    *)
(* maxStalledCount times: only a job that failed with the stall reason has *)
(* a higher count.  Until the job failed, the count is the number of       *)
(* stalls in its ledger: no requeue, release, retry of an attempt or       *)
(* settlement resets it or counts one twice.                               *)
StallBudget ==
    \A id \in JobIds : Has(jobs, id) =>
        /\ \/ jobs[id].stalledCount <= MaxStalledCount
           \/ /\ jobs[id].stalledCount = MaxStalledCount + 1
              /\ jobs[id].state = "failed" /\ jobs[id].failedReason
        /\ \/ Revived(jobs[id])
           \/ jobs[id].stalledCount = Cardinality(Runs(jobs[id], "stalled"))

CountersMatch(flow, row) ==
    /\ flow = None => row = NoRows
    /\ flow # None =>
        /\ flow.pending = Cardinality(WithStatus(row, "pending"))
        /\ flow.completed = Cardinality(WithStatus(row, "completed"))
        /\ flow.failed = Cardinality(WithStatus(row, "failed"))
        /\ flow.cancelled = Cardinality(WithStatus(row, "cancelled"))

(* The counters on a flow parent are exactly the statuses of its rows, and *)
(* the parent is parked exactly while a row is pending: it is neither      *)
(* stuck in waiting-children with nothing to wait for, nor runnable or     *)
(* finished while a child is still awaited.  Rows never outlive the job.   *)
FlowInv ==
    \A id \in JobIds :
        /\ ~Has(jobs, id) => flowChildren[id] = NoRows
        /\ Has(jobs, id) =>
            /\ CountersMatch(jobs[id].flow, flowChildren[id])
            /\ jobs[id].state = "waiting-children" <=>
                   jobs[id].flow # None /\ jobs[id].flow.pending > 0

(* Fail-fast wins ties: a parent whose manifest asks for it and of whose   *)
(* children one failed has been failed itself (its ledger says so), also   *)
(* when that report was the last one awaited or came in one batch with     *)
(* others; it was not resumed as if all had gone well.                     *)
FailFastWins ==
    \A id \in JobIds :
        /\ Has(jobs, id)
        /\ jobs[id].flow # None /\ jobs[id].flow.failFast
        /\ jobs[id].flow.failed > 0
        => Runs(jobs[id], "failed") # {}

(* A pending-mode key never stays taken by a job that has finished         *)
(* (releaseDedupe runs on every way to a terminal state): the next enqueue *)
(* of that key creates a job.                                              *)
KeyFreedWhenDone ==
    \A k \in DedupeMapKeys :
        /\ dedupes[k] # None
        /\ dedupes[k].expiresAt = None
        /\ Has(jobs, dedupes[k].jobId)
        /\ k = <<jobs[dedupes[k].jobId].name, jobs[dedupes[k].jobId].dedupeKey>>
        => ~Terminal(jobs[dedupes[k].jobId])

\* The count of the policy that record j carries for the state it is in.
KeepCount(j) ==
    LET policy == KeepPolicyFor(j.keep, j.state)
    IN  IF policy = None THEN None ELSE policy.count

\* Record q was there when a policy like that of p was last applied: it
\* carries that policy too, or it finished before p did.
Judged(js, p, q) ==
    js[q].keep = js[p].keep \/ js[q].finishedAt < js[p].finishedAt

(* Retention by count, with a policy of its own for each job: of the       *)
(* completed, or cancelled, records of a name that were there when a       *)
(* policy with a count was last applied, no more are left than it counts.  *)
(* With one policy for the name, that bounds all its records.  (Flow       *)
(* parents may exceed it while they owe cascades; stall exhaustion is not  *)
(* an ack and applies no policy, so the failed group is not bounded.)      *)
KeepCountHolds ==
    \A p \in JobIds :
        /\ Has(jobs, p)
        /\ jobs[p].state \in {"completed", "cancelled"}
        /\ KeepCount(jobs[p]) # None
        => \A q \in Peers(jobs, p) :
              jobs[q].flow = None /\ Judged(jobs, p, q) =>
                 Cardinality({r \in NewerPeers(jobs, q) : Judged(jobs, p, r)})
                     < KeepCount(jobs[p])

InFlight(id) == Has(jobs, id) /\ ~Terminal(jobs[id])
\* Keys that no request opens a window on.
PendingKeys ==
    {k \in DedupeKeys : \A r \in Requests :
        r.dedupe # None /\ r.dedupe.key = k => r.dedupe.ttlMs = None}

SameKey(id1, id2) ==
    /\ jobs[id1].name = jobs[id2].name
    /\ jobs[id1].dedupeKey \in PendingKeys
    /\ jobs[id1].dedupeKey = jobs[id2].dedupeKey

(* "at most one sync per account is ever queued or running"                *)
(* (docs/guide/deduplication.md): two pending jobs never share a           *)
(* pending-mode dedup key.                                                 *)
OneInFlightPerKey ==
    \A id1, id2 \in JobIds :
        InFlight(id1) /\ InFlight(id2) /\ SameKey(id1, id2) => id1 = id2

(* What the dedup tree does guarantee: of two pending jobs with one        *)
(* pending-mode key, one came back through `retry` after it had failed.    *)
OneEnqueuedPerKey ==
    \A id1, id2 \in JobIds :
        InFlight(id1) /\ InFlight(id2) /\ SameKey(id1, id2) =>
            id1 = id2 \/ Revived(jobs[id1]) \/ Revived(jobs[id2])

-----------------------------------------------------------------------------
(* Action properties                                                       *)

(* A cancel that reached an active job is never overtaken by a revival:    *)
(* until the job is terminal it stays active and flagged, whatever the     *)
(* worker reports (Retry, FanOut), releases or loses to a stall.           *)
CancelSticksStep ==
    \A id \in JobIds :
        Has(jobs, id) /\ jobs[id].cancelRequested /\ Has(jobs', id) =>
            \/ jobs'[id].state \in TerminalStates
            \/ jobs'[id].state = "active" /\ jobs'[id].cancelRequested
CancelSticks == [][CancelSticksStep]_vars

\* When a taker of the queue could next claim the job; None for never.
ReadyAt(js, p, t, id) ==
    IF ~Has(js, id) THEN None
    ELSE IF js[id].queue \in p \/ js[id].state \notin {"waiting", "delayed"}
    THEN None
    ELSE IF js[id].state = "waiting" \/ js[id].runAt <= t THEN 0
    ELSE js[id].runAt

(* No lost wake-up at the source: an operation after which some job can be *)
(* claimed earlier than a parked taker was told signals the job's queue in *)
(* the same step (enqueue, replace, retry, release, stall recovery,        *)
(* promote, resume, flow settlement).                                      *)
WakeOnReadyStep ==
    \A id \in JobIds :
        LET before == ReadyAt(jobs, paused, now, id)
            after == ReadyAt(jobs', paused', now', id)
        IN  now' = now /\ after # None /\ (before = None \/ after < before)
                => jobs'[id].queue \in woken'
WakeOnReady == [][WakeOnReadyStep]_vars

ReportsOf(entries, id) ==
    {e \in entries : /\ e.flowId = jobs[id].parent.flowId
                     /\ e.childKey = jobs[id].parent.childKey}

\* This step delivers the report of child k of flow id.
ReportedNow(id, k) ==
    \E keys \in SUBSET ChildKeys :
        /\ k \in keys
        /\ \E reports \in [keys -> TerminalStates] :
               RecordChildResults(id, reports)

\* The call that this step is was a cancel of job id, or honoured one.
CancelledNow(id) ==
    \/ Cancel(id)
    \/ /\ jobs[id].cancelRequested
       /\ \/ RecoverStalled /\ id \in Stalled
          \/ \E token \in Tokens :
                \/ Release(id, token)
                \/ \E delayMs \in RetryDelays : AckRetry(id, token, delayMs)
                \/ \E children \in SUBSET ChildKeys, failFast \in BOOLEAN :
                      AckFanOut(id, token, children, failFast)

\* The call that this step is ends a job id that ends in it in that state,
\* with an exit or without.
EndsAs(id, state, exit) ==
    \/ \E token \in Tokens : AckTerminal(id, token, state, exit)
    \/ state = "cancelled" /\ ~exit /\ CancelledNow(id)
    \/ /\ state = "failed" /\ ~exit
       /\ \/ \E k \in ChildKeys : ReportedNow(id, k)
          \/ RecoverStalled /\ id \in Stalled /\ ~jobs[id].cancelRequested

\* Record id is over, or gone, after a step before which it was not.
EndsNow(id) ==
    /\ Has(jobs, id) /\ ~Terminal(jobs[id])
    /\ Has(jobs', id) => Terminal(jobs'[id])

(* Whichever call ends a child of a flow (ack, cancel, release, stall      *)
(* recovery, fail-fast), it appends exactly one report in the same step,   *)
(* which tells the parent the outcome of that call.  Retention may drop    *)
(* the record in the very same step, and then the report is all there is;  *)
(* if the record is left, it says the same.  Only an operator's `remove`   *)
(* takes a pending child away unreported; and an undelivered report goes   *)
(* only when the relay deletes it.                                         *)
ReportWithTransitionStep ==
    /\ \A id \in JobIds :
         EndsNow(id) /\ jobs[id].parent # None /\ ~Remove(id) =>
            \E e \in outbox' \ outbox :
               /\ ReportsOf(outbox' \ outbox, id) = {e}
               /\ \A state \in TerminalStates, exit \in BOOLEAN :
                     EndsAs(id, state, exit) <=>
                         e.outcome = state /\ e.exit = exit
               /\ Has(jobs', id) =>
                     /\ e.outcome = jobs'[id].state /\ e.exit = jobs'[id].exit
                     /\ e.failedReason = jobs'[id].failedReason
    /\ outbox \subseteq outbox' \/ jobs' = jobs
ReportWithTransition == [][ReportWithTransitionStep]_vars

\* Child k is awaited, or its store is owed a real cancel.
Owed(id, k) ==
    \/ k \in WithStatus(flowChildren[id], "pending") /\ ~ReportedNow(id, k)
    \/ /\ k \in WithStatus(flowChildren[id], "cancelled")
       /\ ~flowChildren[id][k].cascaded

(* Automatic retention never deletes a flow parent whose children are      *)
(* still awaited or still owed a real cancel; only `remove` does.  (A      *)
(* parent that fails fast on the report of its last child may go at once.) *)
CascadesKeptStep ==
    \A id \in JobIds :
        /\ Has(jobs, id) /\ ~Has(jobs', id)
        /\ \E k \in ChildKeys : Owed(id, k)
        => Remove(id)
CascadesKept == [][CascadesKeptStep]_vars

(* A settled dependency row is final while its parent exists: late,        *)
(* duplicated or reordered reports, settles and sweeps change neither its  *)
(* outcome nor the fact that it was cascaded.                              *)
RowsFinalStep ==
    \A id \in JobIds, k \in ChildKeys :
        /\ flowChildren[id][k] # None
        /\ flowChildren[id][k].status # "pending"
        /\ Has(jobs', id)
        => /\ flowChildren'[id][k] # None
           /\ flowChildren'[id][k].status = flowChildren[id][k].status
           /\ flowChildren[id][k].cascaded => flowChildren'[id][k].cascaded
RowsFinal == [][RowsFinalStep]_vars

(* A flow fans out once: after its children settled it never waits for     *)
(* children again, not even when `retry` revives it ("it can never fan out *)
(* twice", JobStore.ts).                                                   *)
FansOutOnceStep ==
    \A id \in JobIds :
        /\ Has(jobs, id) /\ jobs[id].flow # None
        /\ jobs[id].state # "waiting-children"
        /\ Has(jobs', id)
        => jobs'[id].flow # None /\ jobs'[id].state # "waiting-children"
FansOutOnce == [][FansOutOnceStep]_vars

(* A live throttle window holds its key for the job it was opened by until *)
(* it runs out, also when that job finishes, is removed or is pruned.      *)
LiveWindowKeptStep ==
    \A k \in DedupeMapKeys :
        /\ dedupes[k] # None /\ dedupes[k].expiresAt # None
        /\ dedupes[k].expiresAt > now
        => /\ dedupes'[k] # None
           /\ dedupes'[k].jobId = dedupes[k].jobId
           /\ dedupes'[k].expiresAt # None
LiveWindowKept == [][LiveWindowKeptStep]_vars

=============================================================================
