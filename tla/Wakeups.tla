------------------------------ MODULE Wakeups ------------------------------
(***************************************************************************)
(* How a job that became runnable comes to the notice of the workers: the  *)
(* wake protocol of the three drivers (signalWake, awaitWake) and the      *)
(* takers that depend on it (Worker.ts, takerIteration).                   *)
(*                                                                         *)
(* The processes share one store.  A store call that makes a job runnable  *)
(* and the announcement of its queue are two steps: the call's own process *)
(* signals its waiters and publishes the queue to the other processes,     *)
(* which signal theirs when the message arrives.  Messages and             *)
(* announcements get lost with a connection or a process; a taker that     *)
(* hears nothing polls.  In the in-memory driver there is one process and  *)
(* the two steps are one, which is among the behaviours below.             *)
(*                                                                         *)
(* Two unordered announcements of one queue by one process (and two such   *)
(* messages to one process) are one: the first signals for both.  A        *)
(* process's echo of its own message finds nothing left to signal.         *)
(***************************************************************************)
EXTENDS Integers, FiniteSets, FiniteSetsExt

CONSTANTS
    Procs,        \* processes: workers and producers over one store
    Takers,       \* taker fibers
    ProcOf,       \* [Takers -> Procs]
    Queues,
    QueueOf,      \* [Takers -> Queues]
    JobIds,
    AttemptsMax,
    Delays,       \* delays of requests and of retries
    MaxTime,      \* bound of the clock
    Scenarios,    \* which fibers and faults to combine, see Scenario
    None

ASSUME TakersAssumption ==
    /\ ProcOf \in [Takers -> Procs] /\ QueueOf \in [Takers -> Queues]
    /\ AttemptsMax \in Nat \ {0} /\ Delays \subseteq Nat /\ MaxTime \in Nat

VARIABLES
    now,
    jobs,         \* the store: job id -> record or None
    paused,       \* the store: paused queues
    up,           \* processes that run
    takers,       \* per taker: where it is in its iteration
    announcing,   \* <<process, queue>>: store calls that have yet to wakeUp
    channel,      \* per process: queues named by messages on their way to it
    lost,         \* an announcement or a message was lost
    faults,
    scenario      \* what this run is about, and never changes

storeVars == <<jobs, paused>>
wakeVars == <<announcing, channel>>
bounds == <<lost, faults, scenario>>
wakeupVars == <<now, storeVars, up, takers, wakeVars, bounds>>

\* The "*" that names every queue in a message, and in a call of wakeUp().
Everyone == "*"

\* The jobs that are enqueued; the takers and, for Schedules, the callers that
\* run; the admin verbs in use; bounds: how often each caller runs, crashes and
\* lost messages, the clock.
Scenario == [jobs : SUBSET JobIds, takers : SUBSET Takers,
             callers : SUBSET STRING,
             verbs : SUBSET {"promote", "pause", "unschedule"},
             calls : Nat, faults : Nat, time : 0..MaxTime]

ASSUME ScenariosAssumption == Scenarios \subseteq Scenario

-----------------------------------------------------------------------------
(* The store                                                               *)

Job == [state : {"waiting", "delayed", "active", "done"}, queue : Queues,
        runAt : Nat, attemptsMade : 0..AttemptsMax]

ASSUME NoneAssumption == None \notin JobIds /\ None \notin Nat /\ None \notin Job

NewJob(q, delay) ==
    [state |-> IF delay > 0 THEN "delayed" ELSE "waiting", queue |-> q,
     runAt |-> now + delay, attemptsMade |-> 0]

InState(state) == {id \in JobIds : jobs[id] # None /\ jobs[id].state = state}

Due(q) == {id \in InState("delayed") : jobs[id].queue = q /\ jobs[id].runAt <= now}

\* A claim would hand out a job of the queue.
Runnable(q) ==
    {id \in InState("waiting") : jobs[id].queue = q} \cup Due(q)

-----------------------------------------------------------------------------
(* The waiters' registry of a process                                      *)

\* A run of takerIteration.  signalled: its queue was signalled since it took
\* its token, that is, lastWakeFor(queue) > wakeToken.
Idle == [stage |-> "idle", signalled |-> FALSE, deadline |-> None, job |-> None]

Hears(t, p, q) == ProcOf[t] = p /\ q \in {QueueOf[t], Everyone}

\* As a registry of waiters without versions.
Fault_SignalsParkedOnly(p, q) ==
    [t \in Takers |-> IF Hears(t, p, q) /\ takers[t].stage = "parked" THEN Idle
                      ELSE takers[t]]

\* signalWake: the waiters of the queue go on, and the takers that are on their
\* way to awaitWake will not wait there.
Signalled(p, q) ==
    [t \in Takers |->
        IF ~Hears(t, p, q) THEN takers[t]
        ELSE IF takers[t].stage = "parked" THEN Idle
        ELSE IF takers[t].stage \in {"claiming", "emptied"}
        THEN [takers[t] EXCEPT !.signalled = TRUE]
        ELSE takers[t]]

\* The processes that have takers to tell; messages to the others are left out.
Listening == {p \in Procs : up[p] /\ \E t \in scenario.takers : ProcOf[t] = p}

\* The store call of process p is to be followed by wakeUp(q).
WillAnnounce(p, q) ==
    announcing' = IF scenario.takers = {} THEN {} ELSE announcing \cup {<<p, q>>}

\* wakeUp: signal here, publish to the others.
Announce(p, q) ==
    /\ <<p, q>> \in announcing
    /\ announcing' = announcing \ {<<p, q>>}
    /\ takers' = Signalled(p, q)
    /\ channel' = [r \in Procs |-> IF r \in Listening \ {p}
                                   THEN channel[r] \cup {q} ELSE channel[r]]
    /\ UNCHANGED <<now, storeVars, up, bounds>>

\* The pump of the subscription takes a message.
Deliver(p, q) ==
    /\ q \in channel[p]
    /\ channel' = [channel EXCEPT ![p] = @ \ {q}]
    /\ takers' = Signalled(p, q)
    /\ UNCHANGED <<now, storeVars, up, announcing, bounds>>

-----------------------------------------------------------------------------
(* Store calls that make a job runnable, or may                            *)

Enqueue(p, id, q, delay) ==
    /\ up[p] /\ jobs[id] = None
    /\ jobs' = [jobs EXCEPT ![id] = NewJob(q, delay)]
    /\ WillAnnounce(p, q)
    /\ UNCHANGED <<now, paused, up, takers, channel, bounds>>

Promote(p, id) ==
    /\ "promote" \in scenario.verbs
    /\ up[p] /\ id \in InState("delayed")
    /\ jobs' = [jobs EXCEPT ![id].state = "waiting", ![id].runAt = now]
    /\ WillAnnounce(p, jobs[id].queue)
    /\ UNCHANGED <<now, paused, up, takers, channel, bounds>>

Pause(p, q) ==
    /\ "pause" \in scenario.verbs
    /\ up[p] /\ q \notin paused
    /\ paused' = paused \cup {q}
    /\ UNCHANGED <<now, jobs, up, takers, wakeVars, bounds>>

Resume(p, q) ==
    /\ up[p] /\ q \in paused
    /\ paused' = paused \ {q}
    /\ WillAnnounce(p, q)
    /\ UNCHANGED <<now, jobs, up, takers, channel, bounds>>

\* Locked jobs that nobody runs.
Abandoned == {id \in InState("active") : \A t \in Takers : takers[t].job # id}

\* The lock of a job whose worker is gone has expired; recoverStalled names no
\* queue.
RecoverStalled(p) ==
    /\ up[p] /\ Abandoned # {}
    /\ jobs' = [id \in JobIds |-> IF id \in Abandoned
                                  THEN [jobs[id] EXCEPT !.state = "waiting"]
                                  ELSE jobs[id]]
    /\ WillAnnounce(p, Everyone)
    /\ UNCHANGED <<now, paused, up, takers, channel, bounds>>

\* The run ends for good.
FinishJob(t) ==
    /\ takers[t].stage = "busy"
    /\ jobs' = [jobs EXCEPT ![takers[t].job].state = "done"]
    /\ takers' = [takers EXCEPT ![t] = Idle]
    /\ UNCHANGED <<now, paused, up, wakeVars, bounds>>

Fault_RetryUnbounded(t, delay) ==
    LET job == jobs[takers[t].job]
    IN  /\ takers[t].stage = "busy"
        /\ jobs' = [jobs EXCEPT ![takers[t].job] =
                       [NewJob(job.queue, delay) EXCEPT
                           !.attemptsMade = job.attemptsMade + 1]]
        /\ WillAnnounce(ProcOf[t], job.queue)
        /\ takers' = [takers EXCEPT ![t] = Idle]
        /\ UNCHANGED <<now, paused, up, channel, bounds>>

\* The run failed and attempts are left.
RetryJob(t, delay) ==
    LET job == jobs[takers[t].job]
    IN  /\ takers[t].stage = "busy"
        /\ job.attemptsMade + 1 < AttemptsMax
        /\ jobs' = [jobs EXCEPT ![takers[t].job] =
                       [NewJob(job.queue, delay) EXCEPT
                           !.attemptsMade = job.attemptsMade + 1]]
        /\ WillAnnounce(ProcOf[t], job.queue)
        /\ takers' = [takers EXCEPT ![t] = Idle]
        /\ UNCHANGED <<now, paused, up, channel, bounds>>

\* Retention deletes the record of a job that is done.  (The jobs of the
\* scenario have generated ids, which are not used again.)
Prune(id) ==
    /\ id \in InState("done") \ scenario.jobs
    /\ jobs' = [jobs EXCEPT ![id] = None]
    /\ UNCHANGED <<now, paused, up, takers, wakeVars, bounds>>

-----------------------------------------------------------------------------
(* Takers (takerIteration)                                                 *)

SetTaker(t, iteration) == takers' = [takers EXCEPT ![t] = iteration]

\* The token is taken before the claim's script or transaction runs.
TakeToken(t) ==
    /\ up[ProcOf[t]] /\ t \in scenario.takers
    /\ takers[t] = Idle
    /\ SetTaker(t, [Idle EXCEPT !.stage = "claiming"])
    /\ UNCHANGED <<now, storeVars, up, wakeVars, bounds>>

\* nextRunAt of an empty claim, once the due jobs are promoted.
Deadline(t) ==
    LET later == {id \in InState("delayed") : /\ jobs[id].queue = QueueOf[t]
                                              /\ jobs[id].runAt > now}
    IN  IF later = {} THEN None ELSE Min({jobs[id].runAt : id \in later})

\* What an empty claim leaves behind.
Emptied(t) ==
    [takers[t] EXCEPT !.stage = "emptied", !.deadline = Deadline(t)]

\* claim: due jobs are promoted, and some waiting job is handed out (which,
\* is for the models of the drivers).
Claim(t) ==
    LET q == QueueOf[t]
        Promoted == [id \in JobIds |-> IF id \in Due(q)
                                       THEN [jobs[id] EXCEPT !.state = "waiting"]
                                       ELSE jobs[id]]
    IN  /\ takers[t].stage = "claiming"
        /\ IF Runnable(q) = {} \/ q \in paused
           THEN /\ jobs' = Promoted
                /\ SetTaker(t, Emptied(t))
           ELSE \E id \in Runnable(q) :
                   /\ jobs' = [Promoted EXCEPT ![id].state = "active"]
                   /\ SetTaker(t, [Idle EXCEPT !.stage = "busy", !.job = id])
        /\ UNCHANGED <<now, paused, up, wakeVars, bounds>>

\* awaitWake: only if nothing was signalled since the token.
Park(t) ==
    /\ takers[t].stage = "emptied"
    /\ SetTaker(t, IF takers[t].signalled THEN Idle
                   ELSE [takers[t] EXCEPT !.stage = "parked"])
    /\ UNCHANGED <<now, storeVars, up, wakeVars, bounds>>

PastDeadline(t) == takers[t].deadline # None /\ takers[t].deadline <= now

\* The sleep until nextRunAt is over.
TimerFires(t) ==
    /\ takers[t].stage = "parked" /\ PastDeadline(t)
    /\ SetTaker(t, Idle)
    /\ UNCHANGED <<now, storeVars, up, wakeVars, bounds>>

\* As a taker that sleeps until nextRunAt when there is one.
Fault_PollsWithoutDeadline(t) ==
    /\ takers[t].stage = "parked" /\ takers[t].deadline = None
    /\ SetTaker(t, Idle)
    /\ UNCHANGED <<now, storeVars, up, wakeVars, bounds>>

\* The sleep of pollMs is over, sooner or later.
PollFires(t) ==
    /\ takers[t].stage = "parked"
    /\ SetTaker(t, Idle)
    /\ UNCHANGED <<now, storeVars, up, wakeVars, bounds>>

-----------------------------------------------------------------------------
(* Faults and time                                                         *)

Fault ==
    /\ faults < scenario.faults
    /\ faults' = faults + 1
    /\ UNCHANGED scenario

\* With the process go its fibers and what was to be announced.
Crash(p) ==
    /\ Fault
    /\ up[p]
    /\ up' = [up EXCEPT ![p] = FALSE]
    /\ takers' = [t \in Takers |-> IF ProcOf[t] = p THEN Idle ELSE takers[t]]
    /\ announcing' = {a \in announcing : a[1] # p}
    /\ channel' = [channel EXCEPT ![p] = {}]
    /\ lost' = (lost \/ announcing' # announcing)
    /\ UNCHANGED <<now, storeVars>>

Restart(p) ==
    /\ ~up[p]
    /\ up' = [up EXCEPT ![p] = TRUE]
    /\ UNCHANGED <<now, storeVars, takers, wakeVars, bounds>>

\* The subscription is down when the message comes, or PUBLISH failed.
LoseMessage(p, q) ==
    /\ Fault
    /\ q \in channel[p]
    /\ channel' = [channel EXCEPT ![p] = @ \ {q}]
    /\ lost' = TRUE
    /\ UNCHANGED <<now, storeVars, up, takers, announcing>>

Tick ==
    /\ now < scenario.time
    /\ now' = now + 1
    /\ UNCHANGED <<storeVars, up, takers, wakeVars, bounds>>

-----------------------------------------------------------------------------
WakeupsInit ==
    /\ now = 0
    /\ jobs = [id \in JobIds |-> None] /\ paused = {}
    /\ up = [p \in Procs |-> TRUE]
    /\ takers = [t \in Takers |-> Idle]
    /\ announcing = {} /\ channel = [p \in Procs |-> {}]
    /\ lost = FALSE /\ faults = 0
    /\ scenario \in Scenarios

TakerRuns(t) == FinishJob(t) \/ \E delay \in Delays : RetryJob(t, delay)

TakerNext(t) == TakeToken(t) \/ Claim(t) \/ Park(t) \/ TakerRuns(t)

Names == Queues \cup {Everyone}

ProcessNext(p) ==
    \/ \E q \in Names : Announce(p, q) \/ Deliver(p, q) \/ LoseMessage(p, q)
    \/ \E id \in scenario.jobs, q \in Queues, delay \in Delays :
          Enqueue(p, id, q, delay)
    \/ \E id \in JobIds : Promote(p, id)
    \/ \E q \in Queues : Pause(p, q) \/ Resume(p, q)
    \/ RecoverStalled(p) \/ Crash(p) \/ Restart(p)

WakeupsNext ==
    \/ \E t \in Takers : TakerNext(t) \/ TimerFires(t) \/ PollFires(t)
    \/ \E p \in Procs : ProcessNext(p)
    \/ \E id \in JobIds : Prune(id)
    \/ Tick

-----------------------------------------------------------------------------
(* Properties                                                              *)

\* The taker will claim again without being told.
Attentive(t) ==
    \/ takers[t].stage \in {"idle", "claiming", "busy"}
    \/ takers[t].stage = "emptied" /\ takers[t].signalled
    \/ PastDeadline(t)

\* Word of the queue is on its way to the taker.
WordComes(t, q) ==
    \/ \E n \in {q, Everyone} : n \in channel[ProcOf[t]]
    \/ \E a \in announcing : a[2] \in {q, Everyone}

(* No wake-up is lost between a taker's empty claim and its awaitWake, nor *)
(* between two processes: while a claim would find a job, a taker of its   *)
(* queue is about to claim, or word is on its way to it, unless a fault    *)
(* took the word away.  ("spurious wake-ups are allowed; lost ones are     *)
(* not", DrizzleJobStore.ts)                                               *)
JobsNoticed ==
    \A q \in Queues \ paused :
        LET watching == {t \in scenario.takers : /\ QueueOf[t] = q
                                                 /\ up[ProcOf[t]]}
        IN  Runnable(q) # {} /\ watching # {} /\ ~lost =>
                \E t \in watching : Attentive(t) \/ WordComes(t, q)

(* No job that a claim would find stays unclaimed: whatever is lost, the   *)
(* polls of the takers empty the queue, unless it is paused.               *)
QueuesDrain ==
    scenario.takers # {} =>
        \A q \in Queues :
            LET waits == Runnable(q) # {} /\ q \notin paused
            IN  waits ~> ~waits

=============================================================================
