------------------------------- MODULE Worker -------------------------------
(***************************************************************************)
(* The workers (Worker.ts) of one queue of one store: takers that claim a  *)
(* job, run its handler in a child fiber and ack how it ended; the         *)
(* heartbeat, which renews the locks of the in-flight runs and delivers    *)
(* cancel requests; the stalled loop; shutdown and crash.                  *)
(*                                                                         *)
(* The store is an instance of MemoryJobStore; each call into it is a      *)
(* step.  A worker's own bookkeeping (inflight, cancelling) is keyed by    *)
(* job id, and a worker may come to run one job twice at a time: when the  *)
(* lock of a run expires, the job is recovered, and another taker of the   *)
(* same worker claims it while the first handler is still running.         *)
(*                                                                         *)
(* Takers poll: waking up is left out, and so are schedules and flows.     *)
(***************************************************************************)
EXTENDS Integers, Sequences, FiniteSets

CONSTANTS
    JobIds,          \* jobs of the queue
    Workers,         \* worker processes
    Slots,           \* takers of a worker
    AttemptsMax,     \* attempt budget of every job
    MaxStalledCount,
    Deployments,     \* how the workers may be deployed, see deployment
    MaxTime, MaxSeq, MaxTokens, \* bounds of the store
    MaxInterventions, \* bound: shutdowns, unregistrations, operator retries
    None

VARIABLES
    now, woken, jobs, seq, lastToken, \* the store
    status,      \* per worker: up, stopping or down
    registered,  \* per worker: its handler is registered
    takers,      \* per worker and slot: the run it is in
    inflight,    \* per worker: job id -> the run to renew
    cancelling,  \* per worker: job ids interrupted for a cancel request
    beats,       \* per worker: the heartbeat it is in
    deployment,  \* what runs, and never changes: see Deployment
    faults,
    interventions

\* The reply of a store call takes time to arrive (remote), the takers of each
\* worker (slots: its concurrency), and bounds: claims, and how many of crashes,
\* dropped acks and lost claims.
Deployment ==
    [remote : BOOLEAN, slots : SUBSET Slots, claims : Nat, faults : Nat]

storeVars == <<now, woken, jobs, seq, lastToken>>
workerVars == <<status, registered, takers, inflight, cancelling, beats>>
bounds == <<deployment, faults, interventions>>
vars == <<storeVars, workerVars, bounds>>

-----------------------------------------------------------------------------
(* The store                                                               *)

Request(id) ==
    [id |-> id, name |-> "job", queue |-> "work", payload |-> "payload",
     priority |-> 0, attemptsMax |-> AttemptsMax, keep |-> None,
     dedupe |-> None, parent |-> None, delayMs |-> 0]

S == INSTANCE MemoryJobStore WITH
        ParentIds <- {}, Names <- {"job"}, Queues <- {"work"},
        DedupeKeys <- {}, ChildKeys <- {}, Payloads <- {"payload"},
        Requests <- {Request(id) : id \in JobIds},
        LockDurations <- {1}, RetryDelays <- {0}, PendingAgeMs <- 0,
        SweepLimit <- 1,
        HistoryTtl <- [s \in {"completed", "failed", "cancelled"} |-> None],
        flowChildren <- [id \in JobIds |-> <<>>], dedupes <- <<>>,
        outbox <- {}, outboxSeq <- 0, paused <- {}

LockMs == 1

ASSUME ConstantsAssumption ==
    /\ IsFiniteSet(JobIds) /\ IsFiniteSet(Slots)
    /\ Deployments \subseteq Deployment
    /\ AttemptsMax \in Nat /\ MaxStalledCount \in Nat
    /\ MaxTime \in Nat /\ MaxSeq \in Nat /\ MaxTokens \in Nat

(* `undefined` is none of the values it stands in for.                     *)
ASSUME NoneAssumption ==
    /\ None \notin JobIds /\ None \notin Nat
    /\ None \notin {"completed", "failed", "retry", "cancelled", "release"}
    /\ None \notin [token : 1..MaxTokens, slot : Slots]
    /\ None \notin S!MemJob /\ None \notin S!FlowState
    /\ None \notin S!DedupeEntry /\ None \notin S!MemFlowChild
    /\ None \notin S!KeepStatePolicy /\ None \notin S!KeepPolicy

Intervention ==
    /\ interventions < MaxInterventions
    /\ interventions' = interventions + 1
    /\ UNCHANGED <<deployment, faults>>

Enqueue(id) ==
    /\ S!Enqueue(Request(id), id)
    /\ UNCHANGED <<workerVars, bounds>>

Cancel(id) ==
    /\ S!Cancel(id)
    /\ UNCHANGED <<workerVars, bounds>>

Retry(id) ==
    /\ Intervention
    /\ S!Retry(id)
    /\ UNCHANGED workerVars

-----------------------------------------------------------------------------
(* Takers (takerIteration, processJob)                                     *)

Idle == [stage |-> "idle", job |-> None, token |-> None, outcome |-> None,
         interrupted |-> FALSE]

SetTaker(w, s, run) == takers' = [takers EXCEPT ![w][s] = run]

\* The job and token a claim step handed out.
ClaimedNow(id) == jobs'[id].lockToken = lastToken'

\* A taker of this deployment that asks for a job; deployment.claims bounds
\* how many claims a run of the model makes.
MayClaim(w, s) ==
    /\ status[w] = "up" /\ registered[w]
    /\ s \in deployment.slots /\ lastToken < deployment.claims

\* claim, which runs uninterruptibly together with all that follows.
TakerClaims(w, s) ==
    /\ MayClaim(w, s)
    /\ takers[w][s] = Idle
    /\ S!Claim("work", {"job"}, LockMs)
    /\ \E id \in JobIds :
          /\ jobs'[id] # None /\ ClaimedNow(id)
          /\ SetTaker(w, s, [Idle EXCEPT !.stage = "claimed", !.job = id,
                                         !.token = lastToken'])
    /\ UNCHANGED <<status, registered, inflight, cancelling, beats, bounds>>

\* The handler is forked and put in flight; a job whose handler is gone is
\* handed back.
TakerStarts(w, s) ==
    LET run == takers[w][s]
    IN  /\ run.stage = "claimed"
        /\ IF registered[w]
           THEN /\ SetTaker(w, s, [run EXCEPT !.stage = "running"])
                /\ inflight' = [inflight EXCEPT ![w][run.job] =
                                   [token |-> run.token, slot |-> s]]
           ELSE /\ SetTaker(w, s, [run EXCEPT !.stage = "ack",
                                              !.outcome = "release"])
                /\ UNCHANGED inflight
        /\ UNCHANGED <<storeVars, status, registered, cancelling, beats,
                   bounds>>

Exits == {"success", "failure", "interrupted"}

AttemptsLeft(run) ==
    S!Held(run.job, run.token) => jobs[run.job].attemptsMade + 1 < AttemptsMax

\* As a worker that does not tell why its handler was interrupted.
Fault_AckAnyInterruptCancelled(w, run, exit) ==
    IF exit = "interrupted" THEN {"cancelled"}
    ELSE IF status[w] = "stopping" THEN {"release"}
    ELSE IF exit = "success" THEN {"completed", "failed"}
    ELSE IF AttemptsLeft(run) THEN {"failed", "retry"} ELSE {"failed"}

\* How a run that ended with `exit` is acked: a cancel request's interrupt,
\* a shutdown, a result, a failure.  An interrupt nobody asked for is a
\* failure; unrecoverable failures, and successes that cannot be encoded, end
\* the job with attempts left.
AckFor(w, run, exit) ==
    IF run.job \in cancelling[w] /\ exit = "interrupted" THEN {"cancelled"}
    ELSE IF status[w] = "stopping" THEN {"release"}
    ELSE IF exit = "success" THEN {"completed", "failed"}
    ELSE IF AttemptsLeft(run) THEN {"failed", "retry"} ELSE {"failed"}

\* The join returns: the run leaves the books, whatever they say by now.
RunEnds(w, s, exit) ==
    LET run == takers[w][s]
    IN  /\ run.stage = "running"
        /\ \E outcome \in AckFor(w, run, exit) :
              SetTaker(w, s, [run EXCEPT !.stage = "ack",
                                         !.outcome = outcome])
        /\ inflight' = [inflight EXCEPT ![w][run.job] = None]
        /\ cancelling' = [cancelling EXCEPT ![w] = @ \ {run.job}]
        /\ UNCHANGED <<storeVars, status, registered, beats, bounds>>

\* ack or release; a lost lock is logged and the outcome dropped.
TakerAcks(w, s) ==
    LET run == takers[w][s]
    IN  /\ run.stage = "ack"
        /\ IF ~S!Held(run.job, run.token)
           THEN UNCHANGED storeVars
           ELSE \/ /\ run.outcome = "release"
                   /\ S!Release(run.job, run.token)
                \/ /\ run.outcome = "retry"
                   /\ S!AckRetry(run.job, run.token, 0)
                \/ /\ run.outcome \in {"completed", "failed", "cancelled"}
                   /\ S!AckTerminal(run.job, run.token, run.outcome,
                                    run.outcome # "cancelled")
        /\ SetTaker(w, s, Idle)
        /\ UNCHANGED <<status, registered, inflight, cancelling, beats,
                   bounds>>

-----------------------------------------------------------------------------
(* The heartbeat (renewalLoop)                                             *)

NoBeat == [stage |-> "sleep", todo |-> {}, lost |-> {}, cancels |-> {}]

BeatBegins(w) ==
    /\ status[w] = "up"
    /\ beats[w] = NoBeat
    /\ \E id \in JobIds : inflight[w][id] # None
    /\ beats' = [beats EXCEPT ![w] =
          [NoBeat EXCEPT !.stage = "extend",
              !.todo = {[job |-> id, token |-> inflight[w][id].token] :
                           id \in {i \in JobIds : inflight[w][i] # None}}]]
    /\ UNCHANGED <<storeVars, status, registered, takers, inflight,
                   cancelling, bounds>>

\* As a heartbeat that renews the lock of a job it should report.
Fault_ExtendsCancelled(w, lock) ==
    /\ lock \in beats[w].todo
    /\ IF S!Held(lock.job, lock.token)
       THEN /\ beats' = [beats EXCEPT ![w].todo = @ \ {lock}]
            /\ jobs' = [jobs EXCEPT ![lock.job].lockExpiresAt = now + LockMs]
            /\ UNCHANGED <<now, woken, seq, lastToken>>
       ELSE /\ beats' = [beats EXCEPT ![w].todo = @ \ {lock},
                                      ![w].lost = @ \cup {lock.job}]
            /\ UNCHANGED storeVars
    /\ UNCHANGED <<status, registered, takers, inflight, cancelling, bounds>>

\* extendLocks, one lock of the snapshot at a time.
BeatExtends(w, lock) ==
    /\ lock \in beats[w].todo
    /\ LET beat == [beats[w] EXCEPT !.todo = @ \ {lock}]
       IN  IF ~S!Held(lock.job, lock.token)
           THEN /\ beats' = [beats EXCEPT ![w] =
                                [beat EXCEPT !.lost = @ \cup {lock.job}]]
                /\ UNCHANGED storeVars
           ELSE IF jobs[lock.job].cancelRequested
           THEN /\ beats' = [beats EXCEPT ![w] =
                                [beat EXCEPT !.cancels = @ \cup {lock.job}]]
                /\ UNCHANGED storeVars
           ELSE /\ beats' = [beats EXCEPT ![w] = beat]
                /\ S!ExtendLocks(lock.job, lock.token, LockMs)
    /\ UNCHANGED <<status, registered, takers, inflight, cancelling, bounds>>

Fault_DeliversBlindly(w, beat) == beat.cancels

\* A lost flight is dropped, and with it what could be interrupted.
Delivered(w, beat) ==
    {id \in beat.cancels \ beat.lost : inflight[w][id] # None}

Fault_DropsCancelled(w, beat) ==
    [id \in JobIds |-> IF id \in beat.lost \cup beat.cancels THEN None
                       ELSE inflight[w][id]]

KeptFlights(w, beat) ==
    [id \in JobIds |-> IF id \in beat.lost THEN None ELSE inflight[w][id]]

\* The result is applied to whatever runs under these ids by now.
BeatApplies(w) ==
    LET beat == beats[w]
        delivered == Delivered(w, beat)
    IN  /\ beat.stage = "extend" /\ beat.todo = {}
        /\ inflight' = [inflight EXCEPT ![w] = KeptFlights(w, beat)]
        /\ cancelling' = [cancelling EXCEPT ![w] = @ \cup delivered]
        /\ takers' = [takers EXCEPT ![w] = [s \in Slots |->
              IF \E id \in delivered :
                    inflight[w][id] # None /\ inflight[w][id].slot = s
              THEN [takers[w][s] EXCEPT !.interrupted = TRUE]
              ELSE takers[w][s]]]
        /\ beats' = [beats EXCEPT ![w] = NoBeat]
        /\ UNCHANGED <<storeVars, status, registered, bounds>>

-----------------------------------------------------------------------------
(* Recovery, shutdown, crash, time                                         *)

\* As a worker that looks for stalled jobs only beside jobs of its own.
Fault_RecoverIdleSkips ==
    /\ \E w \in Workers, id \in JobIds :
          status[w] = "up" /\ inflight[w][id] # None
    /\ S!RecoverStalled
    /\ UNCHANGED <<workerVars, bounds>>

\* The stalled loop of any worker that is up.
Recover ==
    /\ \E w \in Workers : status[w] = "up"
    /\ S!RecoverStalled
    /\ UNCHANGED <<workerVars, bounds>>

Fault_StopDropsClaims(w) ==
    /\ IF registered[w] THEN Intervention ELSE UNCHANGED bounds
    /\ status[w] = "up"
    /\ status' = [status EXCEPT ![w] = "stopping"]
    /\ beats' = [beats EXCEPT ![w] = NoBeat]
    /\ takers' = [takers EXCEPT ![w] = [s \in Slots |->
          IF takers[w][s].stage = "claimed" THEN Idle ELSE takers[w][s]]]
    /\ UNCHANGED <<storeVars, registered, inflight, cancelling>>

\* The layer's scope closes: the loops and the handlers are interrupted.
\* After an unregistration the shutdown needs no further cause.
Stop(w) ==
    /\ IF registered[w] THEN Intervention ELSE UNCHANGED bounds
    /\ status[w] = "up"
    /\ status' = [status EXCEPT ![w] = "stopping"]
    /\ beats' = [beats EXCEPT ![w] = NoBeat]
    /\ UNCHANGED <<storeVars, registered, takers, inflight, cancelling>>

Fault_StopsEarly(w) ==
    /\ status[w] = "stopping"
    /\ status' = [status EXCEPT ![w] = "down"]
    /\ UNCHANGED <<storeVars, registered, takers, inflight, cancelling, beats,
                   bounds>>

\* The process exits once its takers have acked or released.
Stopped(w) ==
    /\ status[w] = "stopping"
    /\ \A s \in Slots : takers[w][s] = Idle
    /\ status' = [status EXCEPT ![w] = "down"]
    /\ UNCHANGED <<storeVars, registered, takers, inflight, cancelling, beats,
                   bounds>>

\* The registration's scope closes before the worker's.
Unregister(w) ==
    /\ Intervention
    /\ status[w] # "down" /\ registered[w]
    /\ registered' = [registered EXCEPT ![w] = FALSE]
    /\ UNCHANGED <<storeVars, status, takers, inflight, cancelling, beats>>

NoFlights == [id \in JobIds |-> None]

\* A new process under the same configuration.
Restart(w) ==
    /\ status[w] = "down"
    /\ status' = [status EXCEPT ![w] = "up"]
    /\ registered' = [registered EXCEPT ![w] = TRUE]
    /\ UNCHANGED <<storeVars, takers, inflight, cancelling, beats, bounds>>

\* A fault leaves the clock time for the lease to run out.
Fault ==
    /\ faults < deployment.faults /\ now < MaxTime
    /\ faults' = faults + 1
    /\ UNCHANGED <<deployment, interventions>>

Crash(w) ==
    /\ Fault
    /\ status[w] # "down"
    /\ status' = [status EXCEPT ![w] = "down"]
    /\ takers' = [takers EXCEPT ![w] = [s \in Slots |-> Idle]]
    /\ inflight' = [inflight EXCEPT ![w] = NoFlights]
    /\ cancelling' = [cancelling EXCEPT ![w] = {}]
    /\ beats' = [beats EXCEPT ![w] = NoBeat]
    /\ UNCHANGED <<storeVars, registered>>

\* The driver fails until ackSafely gives the outcome up.
AckDropped(w, s) ==
    /\ Fault
    /\ takers[w][s].stage = "ack"
    /\ SetTaker(w, s, Idle)
    /\ UNCHANGED <<storeVars, status, registered, inflight, cancelling, beats>>

\* The reply of a claim is lost: the job is locked and nobody runs it.
ClaimLost(w, s) ==
    /\ Fault
    /\ MayClaim(w, s) /\ takers[w][s] = Idle
    /\ S!Claim("work", {"job"}, LockMs)
    /\ UNCHANGED workerVars

Tick ==
    /\ now < MaxTime
    /\ now' = now + 1
    /\ woken' = {}
    /\ UNCHANGED <<jobs, seq, lastToken, workerVars, bounds>>

-----------------------------------------------------------------------------
Init ==
    /\ now = 0 /\ woken = {}
    /\ jobs = [id \in JobIds |-> None]
    /\ seq = 0 /\ lastToken = 0
    /\ status = [w \in Workers |-> "up"]
    /\ registered = [w \in Workers |-> TRUE]
    /\ takers = [w \in Workers |-> [s \in Slots |-> Idle]]
    /\ inflight = [w \in Workers |-> NoFlights]
    /\ cancelling = [w \in Workers |-> {}]
    /\ beats = [w \in Workers |-> NoBeat]
    /\ deployment \in Deployments
    /\ faults = 0 /\ interventions = 0

TakerNext(w, s) ==
    \/ TakerClaims(w, s) \/ TakerStarts(w, s) \/ TakerAcks(w, s)
    \/ \E exit \in Exits : RunEnds(w, s, exit)

Locks == [job : JobIds, token : 1..MaxTokens]

BeatReplies(w) == BeatApplies(w) \/ \E lock \in Locks : BeatExtends(w, lock)

\* The in-memory driver answers within the same run of the fiber.
Replying == ~deployment.remote /\ \E w \in Workers : beats[w] # NoBeat

Environment ==
    \/ \E id \in JobIds : Enqueue(id) \/ Cancel(id) \/ Retry(id)
    \/ \E w \in Workers :
          \/ Stop(w) \/ Stopped(w) \/ Unregister(w) \/ Restart(w) \/ Crash(w)
          \/ \E s \in Slots : AckDropped(w, s) \/ ClaimLost(w, s)
    \/ Recover \/ Tick

Next ==
    \/ \E w \in Workers : BeatReplies(w)
    \/ /\ ~Replying
       /\ \/ \E w \in Workers : BeatBegins(w) \/ \E s \in Slots : TakerNext(w, s)
          \/ Environment

Spec == Init /\ [][Next]_vars

\* An interrupted handler ends; others may run for ever.
InterruptedRunEnds(w, s) ==
    /\ takers[w][s].interrupted \/ status[w] = "stopping"
    /\ \E exit \in Exits : RunEnds(w, s, exit)

TakerGoesOn(w, s) ==
    TakerStarts(w, s) \/ TakerAcks(w, s) \/ InterruptedRunEnds(w, s)

ProcessGoesOn(w) == Stopped(w) \/ Restart(w)

\* The clock and the stalled loop go on and what stopped is started again.
\* Fairness is strong where a heartbeat on the in-memory driver comes between.
SystemFairness ==
    /\ \A w \in Workers :
          WF_vars(BeatReplies(w)) /\ SF_vars(~Replying /\ ProcessGoesOn(w))
    /\ SF_vars(~Replying /\ Recover)
    /\ SF_vars(~Replying /\ Tick)

\* Every taker and heartbeat goes on, but claims and handlers need not.
FairSpec ==
    /\ Spec
    /\ SystemFairness
    /\ \A w \in Workers :
          /\ SF_vars(~Replying /\ BeatBegins(w))
          /\ \A s \in Slots : SF_vars(~Replying /\ TakerGoesOn(w, s))

\* Moreover takers claim, handlers end, and a process that lost its
\* registration is replaced.
Busy ==
    \A w \in Workers :
        /\ SF_vars(~Replying /\ ~registered[w] /\ Stop(w))
        /\ \A s \in Slots : SF_vars(~Replying /\ TakerNext(w, s))

-----------------------------------------------------------------------------
(* Properties                                                              *)

Run == [stage : {"idle", "claimed", "running", "ack"},
        job : JobIds \cup {None}, token : 1..MaxTokens \cup {None},
        outcome : {None, "completed", "failed", "retry", "cancelled",
                   "release"},
        interrupted : BOOLEAN]
Flight == [token : 1..MaxTokens, slot : Slots]
Beat == [stage : {"sleep", "extend"}, todo : SUBSET Locks,
         lost : SUBSET JobIds, cancels : SUBSET JobIds]

(* The types of the workers' state; an outcome is there exactly while it   *)
(* is being acked, and a worker that is down has no state.                 *)
TypeOK ==
    /\ status \in [Workers -> {"up", "stopping", "down"}]
    /\ registered \in [Workers -> BOOLEAN]
    /\ takers \in [Workers -> [Slots -> Run]]
    /\ inflight \in [Workers -> [JobIds -> Flight \cup {None}]]
    /\ cancelling \in [Workers -> SUBSET JobIds]
    /\ beats \in [Workers -> Beat]
    /\ deployment \in Deployment
    /\ \A w \in Workers, s \in Slots :
          /\ takers[w][s].outcome # None <=> takers[w][s].stage = "ack"
          /\ status[w] = "down" => takers[w][s] = Idle

Runs(w, s, id, token) ==
    takers[w][s].job = id /\ takers[w][s].token = token

(* The books of a worker are about runs it has: every flight is a handler  *)
(* that runs under that token, and a job is marked cancelling only while a *)
(* handler interrupted for it has not ended.  A mark left behind would     *)
(* make the next run of the job end as cancelled.                          *)
BooksInOrder ==
    \A w \in Workers, id \in JobIds :
        /\ inflight[w][id] # None =>
              LET s == inflight[w][id].slot
              IN  /\ takers[w][s].stage = "running"
                  /\ Runs(w, s, id, inflight[w][id].token)
        /\ id \in cancelling[w] =>
              \E s \in Slots : /\ takers[w][s].stage = "running"
                               /\ takers[w][s].job = id
                               /\ takers[w][s].interrupted

(* No job is left locked with nobody to run it, unless a fault leaves it:  *)
(* claim and all that follows are uninterruptible, "so shutdown can never  *)
(* orphan a just-claimed job" (Worker.ts), and a job whose registration    *)
(* went away is handed back.                                               *)
Attended ==
    \A id \in JobIds :
        faults = 0 /\ jobs[id] # None /\ jobs[id].state = "active" =>
            \E w \in Workers, s \in Slots :
                Runs(w, s, id, jobs[id].lockToken)

(* As long as a lease has not run out, only the run that holds it ends it: *)
(* a run that lost the job, to stall recovery and another claim, and acks  *)
(* or releases it late takes nothing from the run that has it now.         *)
LeaseIsOwnStep ==
    \A id \in JobIds :
        /\ jobs[id] # None /\ jobs[id].state = "active"
        /\ jobs[id].lockExpiresAt > now
        /\ jobs'[id] = None \/ jobs'[id].lockToken # jobs[id].lockToken
        => \E w \in Workers, s \in Slots :
              /\ Runs(w, s, id, jobs[id].lockToken)
              /\ takers[w][s].stage = "ack" /\ takers'[w][s] = Idle
LeaseIsOwn == [][LeaseIsOwnStep]_vars

(* The heartbeat renews the lock of every run that still holds it: "every  *)
(* lockRenewInterval the worker extends the locks of all in-flight jobs"   *)
(* (docs/guide/workers.md).                                                *)
HeartbeatCovers ==
    \A w \in Workers, s \in Slots :
        LET run == takers[w][s]
        IN  run.stage = "running" /\ S!Held(run.job, run.token) =>
                inflight[w][run.job] = [token |-> run.token, slot |-> s]

\* One taker on the in-memory driver.  Where a run may lose its lock and go on
\* beside the next one, the books mix them up (HeartbeatCovers).
OneTaker == ~deployment.remote /\ Cardinality(deployment.slots) = 1

(* A worker ends a run as cancelled only for a cancel request made while   *)
(* the job was running: not for a shutdown, not for a handler that         *)
(* interrupts itself, not for what an earlier run left behind.             *)
CancelWantedStep ==
    \A id \in JobIds :
        /\ jobs[id] # None /\ jobs[id].state = "active"
        /\ jobs'[id] # None /\ jobs'[id].state = "cancelled"
        => jobs[id].cancelRequested
CancelWanted == [][OneTaker => CancelWantedStep]_vars

CancelPending(id) == jobs[id] # None /\ jobs[id].cancelRequested

(* A cancel request reaches a running job, however long its handler would  *)
(* go on and whatever becomes of its worker: the heartbeat interrupts the  *)
(* handler, or the release or the stall recovery honours the request.      *)
CancelArrives ==
    OneTaker => \A id \in JobIds : CancelPending(id) ~> ~CancelPending(id)

Open(id) == jobs[id] # None /\ jobs[id].state \notin S!TerminalStates

(* While takers claim and handlers end, every job ends, although workers   *)
(* crash, are restarted, lose claims and drop acks: what is locked with    *)
(* nobody to run it is recovered.                                          *)
JobsEnd ==
    OneTaker /\ Busy => \A id \in JobIds : Open(id) ~> ~Open(id)

=============================================================================
