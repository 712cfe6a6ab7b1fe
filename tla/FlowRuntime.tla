---------------------------- MODULE FlowRuntime ----------------------------
(***************************************************************************)
(* The flow runtime of the worker (Worker.ts, Flow.ts) over two stores: a  *)
(* flow parent lives in store P, its children in store C.  A worker of P   *)
(* fans the parent out and then enqueues the children (the fast path); a   *)
(* relay of C's workers carries the children's reports from C's outbox to  *)
(* P; and the sweepers of P's workers reconcile rows that stay pending and *)
(* cascade the cancels a settled parent still owes.                        *)
(*                                                                         *)
(* Each call into a store is one step (the stores are MemoryJobStore), and *)
(* everything else interleaves between two calls of one fiber.  A worker   *)
(* may crash between any two calls: what its fiber knew is gone.  A call   *)
(* that keeps failing ends its fiber's pass in the same way (retryStore,   *)
(* then the loop's catchCause).                                            *)
(*                                                                         *)
(* Dedup keys, queue pauses, retention and nested flows play no part here: *)
(* those parts of the two stores keep their initial values.                *)
(***************************************************************************)
EXTENDS Integers, Sequences, FiniteSets

CONSTANTS
    FlowIds,         \* flow parents' job ids
    ChildKeys,       \* child keys a fanOut handler may produce
    Sweepers,        \* one flow sweeper per worker of P
    Relays,          \* one outbox relay per worker of C
    PendingAgeMs,    \* flowSweepMs: age at which a row is reconciled
    SweepLimit,      \* rows of one class per sweep
    MaxStalledCount,
    MaxTime, MaxTokens, \* bounds, per store
    Scenarios,       \* which fibers and faults to combine, see Scenario
    None

VARIABLES
    now,         \* the clock the two stores share
    pJobs, pRows, pSeq, pToken,               \* store P
    cJobs, cOutbox, cSeq, cOutboxSeq, cToken, \* store C
    pWoken, cWoken, \* queues the last call of the store signalled
    fanouts,     \* per parent: its worker after the FanOut ack
    relays,      \* per relay: the page it holds
    sweeps,      \* per sweeper: the pass it is in
    crashes,
    scenario     \* what this run is about, and never changes

\* onChildFailure is "fail" (failFast); workers survive their FanOut ack
\* (fastPath); the child keys a fanOut handler may produce; the sweepers and
\* relays that run; bounds on the operator's retries of children, on crashes
\* of fan-outs, relays and sweepers, and on the clock.
Scenario == [failFast : BOOLEAN, fastPath : BOOLEAN, keys : SUBSET ChildKeys,
             sweepers : SUBSET Sweepers, relays : SUBSET Relays,
             retries : Nat, crashes : Nat, time : 0..MaxTime]

pVars == <<pJobs, pRows, pSeq, pToken, pWoken>>
cVars == <<cJobs, cOutbox, cSeq, cOutboxSeq, cToken, cWoken>>
bounds == <<crashes, scenario>>
procVars == <<fanouts, relays, sweeps, bounds>>
vars == <<now, pVars, cVars, procVars>>

-----------------------------------------------------------------------------
(* The two stores                                                          *)

Outcomes == {"completed", "failed", "cancelled"}
NoTtl == [s \in Outcomes |-> None]

\* Flow.ts derives a child's job id from the parent's id and the child key.
ChildIds == FlowIds \X ChildKeys

Request(id, name, queue, parent) ==
    [id |-> id, name |-> name, queue |-> queue, payload |-> "spec",
     priority |-> 0, attemptsMax |-> 1, keep |-> None, dedupe |-> None,
     parent |-> parent, delayMs |-> 0]

ParentRequest(f) == Request(f, "parent", "flows", None)

\* buildSpecs: deterministic id, parent envelope, no dedup, no delay.
ChildRequest(c) ==
    Request(c, "child", "children", [flowId |-> c[1], childKey |-> c[2]])

P == INSTANCE MemoryJobStore WITH
        JobIds <- FlowIds, ParentIds <- {}, Names <- {"parent"},
        Queues <- {"flows"}, DedupeKeys <- {}, Payloads <- {"spec"},
        Requests <- {ParentRequest(f) : f \in FlowIds},
        LockDurations <- {1}, RetryDelays <- {}, HistoryTtl <- NoTtl,
        MaxSeq <- 2 * Cardinality(FlowIds),
        jobs <- pJobs, flowChildren <- pRows, seq <- pSeq,
        lastToken <- pToken, outbox <- {}, outboxSeq <- 0, paused <- {},
        dedupes <- <<>>, woken <- pWoken

C == INSTANCE MemoryJobStore WITH
        JobIds <- ChildIds, ParentIds <- FlowIds, Names <- {"child"},
        Queues <- {"children"}, DedupeKeys <- {}, Payloads <- {"spec"},
        Requests <- {ChildRequest(c) : c \in ChildIds},
        LockDurations <- {1}, RetryDelays <- {}, HistoryTtl <- NoTtl,
        MaxSeq <- Cardinality(ChildIds) + 1,
        jobs <- cJobs,
        flowChildren <- [c \in ChildIds |-> [k \in ChildKeys |-> None]],
        seq <- cSeq, lastToken <- cToken, outbox <- cOutbox,
        outboxSeq <- cOutboxSeq, paused <- {}, dedupes <- <<>>,
        woken <- cWoken

ASSUME ConstantsAssumption ==
    /\ IsFiniteSet(FlowIds) /\ IsFiniteSet(ChildKeys)
    /\ Scenarios \subseteq Scenario
    /\ MaxStalledCount \in Nat /\ PendingAgeMs \in Nat
    /\ SweepLimit \in Nat \ {0}
    /\ MaxTime \in Nat /\ MaxTokens \in Nat

(* `undefined` is none of the values it stands in for.                     *)
ASSUME NoneAssumption ==
    /\ None \notin FlowIds /\ None \notin ChildIds /\ None \notin Nat
    /\ None \notin P!MemJob /\ None \notin C!MemJob
    /\ None \notin P!FlowState /\ None \notin P!MemFlowChild
    /\ None \notin P!DedupeEntry /\ None \notin C!DedupeEntry
    /\ None \notin C!ParentEnvelope
    /\ None \notin P!KeepStatePolicy /\ None \notin P!KeepPolicy

Parked(f) == pJobs[f] # None /\ pJobs[f].state = "waiting-children"

Unfinished(c) == cJobs[c] # None /\ cJobs[c].state \notin Outcomes

\* enqueue of a child: a no-op when the deterministic id is taken.
EnqueueChild(c) ==
    IF cJobs[c] = None THEN C!Enqueue(ChildRequest(c), c)
    ELSE UNCHANGED <<now, cVars>>

\* cancel of a child, not-found and not-cancellable swallowed.
CancelChild(c) ==
    IF Unfinished(c) THEN C!Cancel(c) ELSE UNCHANGED <<now, cVars>>

\* recordChildResults with one outcome per child key of flow f.
RecordReports(f, reports) ==
    IF P!AppliedKeys(pRows[f], reports) # {}
    THEN P!RecordChildResults(f, reports)
    ELSE UNCHANGED <<now, pVars>>

-----------------------------------------------------------------------------
(* Producers, operators and workers as callers of the stores               *)

EnqueueParent(f) ==
    /\ P!Enqueue(ParentRequest(f), f)
    /\ UNCHANGED <<cVars, procVars>>

ClaimParent ==
    /\ P!Claim("flows", {"parent"}, 1)
    /\ UNCHANGED <<cVars, procVars>>

CancelParent(f) ==
    /\ P!Cancel(f)
    /\ UNCHANGED <<cVars, procVars>>

\* The run of a claimed parent ends in a terminal ack: fanOut failed or
\* collect (a manifest is there) returned; Cancelled only after a cancel.
FinishParent(f, token, outcome) ==
    /\ P!Held(f, token)
    /\ outcome = "completed" => pJobs[f].flow # None
    /\ outcome = "cancelled" => pJobs[f].cancelRequested
    /\ P!AckTerminal(f, token, outcome, outcome # "cancelled")
    /\ UNCHANGED <<cVars, procVars>>

RecoverParents ==
    /\ P!RecoverStalled
    /\ UNCHANGED <<cVars, procVars>>

ClaimChild ==
    /\ C!Claim("children", {"child"}, 1)
    /\ UNCHANGED <<pVars, procVars>>

FinishChild(c, token, outcome) ==
    /\ C!Held(c, token)
    /\ outcome = "cancelled" => cJobs[c].cancelRequested
    /\ C!AckTerminal(c, token, outcome, outcome # "cancelled")
    /\ UNCHANGED <<pVars, procVars>>

RecoverChildren ==
    /\ C!RecoverStalled
    /\ UNCHANGED <<pVars, procVars>>

\* An operator cancels or retries a child behind the flow's back.
OperatorCancelsChild(c) ==
    /\ C!Cancel(c)
    /\ UNCHANGED <<pVars, procVars>>

OperatorRetriesChild(c) ==
    /\ cSeq - Cardinality({d \in ChildIds : cJobs[d] # None})
           < scenario.retries
    /\ C!Retry(c)
    /\ UNCHANGED <<pVars, procVars>>

-----------------------------------------------------------------------------
(* The worker that fans a parent out (processJob, enqueueChildren)         *)

NoFanOut == [stage |-> "idle", todo |-> {}]

\* fanOut returned the specs of `children` and its ack landed.  FanOut is
\* run only when the claimed record carries no manifest.
AckFanOut(f, token, children) ==
    /\ P!Held(f, token)
    /\ pJobs[f].flow = None
    /\ P!AckFanOut(f, token, children, scenario.failFast)
    /\ fanouts' = [fanouts EXCEPT ![f] =
                      IF scenario.fastPath /\ children # {}
                      THEN [stage |-> "check", todo |-> children]
                      ELSE NoFanOut]
    /\ UNCHANGED <<cVars, relays, sweeps, bounds>>

\* getJob: a cancel may have settled the parent instead of parking it.
CheckParked(f) ==
    /\ fanouts[f].stage = "check"
    /\ fanouts' = [fanouts EXCEPT ![f] = IF Parked(f)
                                         THEN [@ EXCEPT !.stage = "enqueue"]
                                         ELSE NoFanOut]
    /\ UNCHANGED <<now, pVars, cVars, relays, sweeps, bounds>>

\* enqueueMany, one request at a time.
FastEnqueue(f, k) ==
    /\ fanouts[f].stage = "enqueue" /\ k \in fanouts[f].todo
    /\ EnqueueChild(<<f, k>>)
    /\ fanouts' = IF fanouts[f].todo = {k}
                  THEN [fanouts EXCEPT ![f] = NoFanOut]
                  ELSE [fanouts EXCEPT ![f].todo = @ \ {k}]
    /\ UNCHANGED <<pVars, relays, sweeps, bounds>>

-----------------------------------------------------------------------------
(* The outbox relay (relayDrain)                                           *)

NoPage == [page |-> {}, flows |-> {}]

\* peekOutbox: a page of entries, grouped by the flow they report to.
RelayPeek(r) ==
    /\ r \in scenario.relays
    /\ relays[r] = NoPage
    /\ cOutbox # {}
    /\ relays' = [relays EXCEPT ![r] = [page |-> cOutbox,
                                        flows |-> {e.flowId : e \in cOutbox}]]
    /\ UNCHANGED <<now, pVars, cVars, fanouts, sweeps, bounds>>

\* What recordChildResults makes of a batch: the first report of each key
\* applies, later ones find the row settled.
FirstOutcomes(page, f) ==
    LET mine == {e \in page : e.flowId = f}
        First(k) == CHOOSE e \in mine :
                       /\ e.childKey = k
                       /\ \A d \in mine : d.childKey = k => e.stamp <= d.stamp
    IN  [k \in {e.childKey : e \in mine} |-> First(k).outcome]

RelayDeliver(r, f) ==
    /\ f \in relays[r].flows
    /\ RecordReports(f, FirstOutcomes(relays[r].page, f))
    /\ relays' = [relays EXCEPT ![r].flows = @ \ {f}]
    /\ UNCHANGED <<cVars, fanouts, sweeps, bounds>>

RelayDelete(r) ==
    /\ relays[r].page # {} /\ relays[r].flows = {}
    /\ C!DeleteOutbox(relays[r].page)
    /\ relays' = [relays EXCEPT ![r] = NoPage]
    /\ UNCHANGED <<pVars, fanouts, sweeps, bounds>>

-----------------------------------------------------------------------------
(* The flow sweeper (flowSweepLoop, reconcileChild, cascadeChildren)       *)

\* A pass: rows left to reconcile, rows left to cascade, the stage of the
\* row in hand (child), the cascades done so far.
NoSweep == [stage |-> "idle", child |-> None, outcome |-> None,
            reconcile |-> {}, cascade |-> {}, done |-> {}]

FullPage(S) == {page \in SUBSET S :
                   \/ page = S /\ Cardinality(S) <= SweepLimit
                   \/ Cardinality(page) = SweepLimit}

OwedCascades ==
    {c \in ChildIds : /\ pRows[c[1]][c[2]] # None
                      /\ pRows[c[1]][c[2]].status = "cancelled"
                      /\ ~pRows[c[1]][c[2]].cascaded}

SweepBegin(s) ==
    /\ s \in scenario.sweepers
    /\ sweeps[s] = NoSweep
    /\ \E page \in FullPage(P!Reconcilable), owed \in FullPage(OwedCascades) :
          /\ page \cup owed # {}
          /\ IF page = {} THEN UNCHANGED <<now, pVars>>
             ELSE P!FlowSweepWork(page)
          /\ sweeps' = [sweeps EXCEPT ![s] =
                [@ EXCEPT !.stage = "next",
                          !.reconcile = {<<r.flowId, r.childKey>> : r \in page},
                          !.cascade = owed]]
    /\ UNCHANGED <<cVars, fanouts, relays, bounds>>

\* The sweeper moves on to stage `stage` of child c.
Stage(s, stage) == sweeps' = [sweeps EXCEPT ![s].stage = stage]
Fault_KeepsOutcome(s) ==
    sweeps' = [sweeps EXCEPT ![s] =
                  [@ EXCEPT !.stage = "next", !.child = None]]

\* The row in hand is dealt with.
NextChild(s) ==
    sweeps' = [sweeps EXCEPT ![s] =
                  [@ EXCEPT !.stage = "next", !.child = None,
                            !.outcome = None]]

SweepOnly == UNCHANGED <<now, pVars, cVars, fanouts, relays, bounds>>

Fault_ReportsLiveChild(s, c) ==
    /\ sweeps[s].stage = "next" /\ c \in sweeps[s].reconcile
    /\ LET pass == [sweeps[s] EXCEPT !.reconcile = @ \ {c}] IN
        sweeps' = [sweeps EXCEPT ![s] =
           IF cJobs[c] = None
           THEN [pass EXCEPT !.stage = "before", !.child = c]
           ELSE [pass EXCEPT !.stage = "report", !.child = c,
                             !.outcome = IF cJobs[c].state \in Outcomes
                                         THEN cJobs[c].state ELSE "failed"]]
    /\ SweepOnly

Fault_NeverRedrives(s, c) ==
    /\ sweeps[s].stage = "next" /\ c \in sweeps[s].reconcile
    /\ LET pass == [sweeps[s] EXCEPT !.reconcile = @ \ {c}] IN
        sweeps' = [sweeps EXCEPT ![s] =
           IF cJobs[c] # None /\ cJobs[c].state \in Outcomes
           THEN [pass EXCEPT !.stage = "report", !.child = c,
                             !.outcome = cJobs[c].state]
           ELSE pass]
    /\ SweepOnly

\* reconcileChild, first getJob: missing, in flight, or terminal.
ReconcileRead(s, c) ==
    /\ sweeps[s].stage = "next" /\ c \in sweeps[s].reconcile
    /\ LET pass == [sweeps[s] EXCEPT !.reconcile = @ \ {c}] IN
        sweeps' = [sweeps EXCEPT ![s] =
           IF cJobs[c] = None
           THEN [pass EXCEPT !.stage = "before", !.child = c]
           ELSE IF cJobs[c].state \in Outcomes
           THEN [pass EXCEPT !.stage = "report", !.child = c,
                             !.outcome = cJobs[c].state]
           ELSE pass]
    /\ SweepOnly

\* The parent is read again around the enqueue: before ...
ReconcileBefore(s) ==
    /\ sweeps[s].stage = "before"
    /\ IF Parked(sweeps[s].child[1]) THEN Stage(s, "enqueue") ELSE NextChild(s)
    /\ SweepOnly

ReconcileEnqueue(s) ==
    /\ sweeps[s].stage = "enqueue"
    /\ EnqueueChild(sweeps[s].child)
    /\ Stage(s, "after")
    /\ UNCHANGED <<pVars, fanouts, relays, bounds>>

Fault_NoSecondLook(s) ==
    /\ sweeps[s].stage = "after"
    /\ NextChild(s)
    /\ SweepOnly

\* ... and after.
ReconcileAfter(s) ==
    /\ sweeps[s].stage = "after"
    /\ IF Parked(sweeps[s].child[1]) THEN NextChild(s) ELSE Stage(s, "cancel")
    /\ SweepOnly

ReconcileCancel(s) ==
    /\ sweeps[s].stage = "cancel"
    /\ CancelChild(sweeps[s].child)
    /\ NextChild(s)
    /\ UNCHANGED <<pVars, fanouts, relays, bounds>>

\* A terminal child whose report did not arrive: synthesize it.
ReconcileReport(s) ==
    /\ sweeps[s].stage = "report"
    /\ LET c == sweeps[s].child
       IN  RecordReports(c[1], [k \in {c[2]} |-> sweeps[s].outcome])
    /\ NextChild(s)
    /\ UNCHANGED <<cVars, fanouts, relays, bounds>>

\* cascadeChildren, one flow after the other.
CascadeCancel(s, c) ==
    /\ sweeps[s].stage = "next" /\ sweeps[s].reconcile = {}
    /\ c \in sweeps[s].cascade
    /\ \A d \in sweeps[s].done : d[1] = c[1]
    /\ CancelChild(c)
    /\ sweeps' = [sweeps EXCEPT ![s].cascade = @ \ {c},
                                ![s].done = @ \cup {c}]
    /\ UNCHANGED <<pVars, fanouts, relays, bounds>>

Fault_MarksNothing(s, f) ==
    LET done == {c \in sweeps[s].done : c[1] = f}
    IN  /\ done # {}
        /\ \A c \in sweeps[s].cascade : c[1] # f
        /\ P!MarkChildrenCascaded(f, {})
        /\ sweeps' = [sweeps EXCEPT ![s].done = @ \ done]
        /\ UNCHANGED <<cVars, fanouts, relays, bounds>>

\* markChildrenCascaded, once the last child of the flow was cancelled.
CascadeMark(s, f) ==
    LET done == {c \in sweeps[s].done : c[1] = f}
    IN  /\ done # {}
        /\ \A c \in sweeps[s].cascade : c[1] # f
        /\ P!MarkChildrenCascaded(f, {c[2] : c \in done})
        /\ sweeps' = [sweeps EXCEPT ![s].done = @ \ done]
        /\ UNCHANGED <<cVars, fanouts, relays, bounds>>

SweepEnd(s) ==
    /\ sweeps[s] = [NoSweep EXCEPT !.stage = "next"]
    /\ sweeps' = [sweeps EXCEPT ![s] = NoSweep]
    /\ SweepOnly

-----------------------------------------------------------------------------
(* Crashes and time                                                        *)

Crash ==
    /\ crashes < scenario.crashes
    /\ crashes' = crashes + 1
    /\ UNCHANGED scenario
    /\ \/ \E f \in FlowIds :
             /\ fanouts[f] # NoFanOut
             /\ fanouts' = [fanouts EXCEPT ![f] = NoFanOut]
             /\ UNCHANGED <<relays, sweeps>>
       \/ \E r \in Relays :
             /\ relays[r] # NoPage
             /\ relays' = [relays EXCEPT ![r] = NoPage]
             /\ UNCHANGED <<fanouts, sweeps>>
       \/ \E s \in Sweepers :
             /\ sweeps[s] # NoSweep
             /\ sweeps' = [sweeps EXCEPT ![s] = NoSweep]
             /\ UNCHANGED <<fanouts, relays>>
    /\ UNCHANGED <<now, pVars, cVars>>

Tick ==
    /\ now < scenario.time
    /\ now' = now + 1
    /\ pWoken' = {} /\ cWoken' = {}
    /\ UNCHANGED <<pJobs, pRows, pSeq, pToken>>
    /\ UNCHANGED <<cJobs, cOutbox, cSeq, cOutboxSeq, cToken>>
    /\ UNCHANGED procVars

-----------------------------------------------------------------------------
Init ==
    /\ now = 0 /\ pWoken = {} /\ cWoken = {}
    /\ pJobs = [f \in FlowIds |-> None]
    /\ pRows = [f \in FlowIds |-> [k \in ChildKeys |-> None]]
    /\ pSeq = 0 /\ pToken = 0
    /\ cJobs = [c \in ChildIds |-> None]
    /\ cOutbox = {}
    /\ cSeq = 0 /\ cOutboxSeq = 0 /\ cToken = 0
    /\ fanouts = [f \in FlowIds |-> NoFanOut]
    /\ relays = [r \in Relays |-> NoPage]
    /\ sweeps = [s \in Sweepers |-> NoSweep]
    /\ crashes = 0 /\ scenario \in Scenarios

ParentRuns ==
    \/ ClaimParent
    \/ \E f \in FlowIds, token \in 1..pToken :
          \/ \E outcome \in Outcomes : FinishParent(f, token, outcome)
          \/ \E children \in SUBSET scenario.keys : AckFanOut(f, token, children)

ChildRuns ==
    \/ ClaimChild
    \/ \E c \in ChildIds, token \in 1..cToken, outcome \in Outcomes :
          FinishChild(c, token, outcome)

FanOutNext ==
    \E f \in FlowIds :
        CheckParked(f) \/ \E k \in ChildKeys : FastEnqueue(f, k)

RelayNext(r) ==
    RelayPeek(r) \/ RelayDelete(r) \/ \E f \in FlowIds : RelayDeliver(r, f)

SweepNext(s) ==
    \/ SweepBegin(s) \/ SweepEnd(s)
    \/ ReconcileBefore(s) \/ ReconcileEnqueue(s) \/ ReconcileAfter(s)
    \/ ReconcileCancel(s) \/ ReconcileReport(s)
    \/ \E c \in ChildIds : ReconcileRead(s, c) \/ CascadeCancel(s, c)
    \/ \E f \in FlowIds : CascadeMark(s, f)

Environment ==
    \/ \E f \in FlowIds : EnqueueParent(f) \/ CancelParent(f)
    \/ \E c \in ChildIds : OperatorCancelsChild(c) \/ OperatorRetriesChild(c)
    \/ RecoverParents \/ RecoverChildren
    \/ Crash \/ Tick

Next ==
    \/ ParentRuns \/ ChildRuns \/ FanOutNext \/ Environment
    \/ \E r \in Relays : RelayNext(r)
    \/ \E s \in Sweepers : SweepNext(s)

Spec == Init /\ [][Next]_vars

\* Workers of C keep claiming and every handler run ends; every sweeper loop
\* goes on.  Neither the relays nor the fast path are relied upon.
Fairness ==
    /\ WF_vars(ClaimChild)
    /\ \A c \in ChildIds :
          WF_vars(\E token \in 1..cToken, outcome \in Outcomes :
                      FinishChild(c, token, outcome))
    /\ \A s \in Sweepers : WF_vars(SweepNext(s))

FairSpec == Spec /\ Fairness

-----------------------------------------------------------------------------
(* Properties                                                              *)

(* The types of the fibers' state: a child is in hand exactly while its     *)
(* row is reconciled, an outcome exactly while it is being reported.       *)
TypeOK ==
    /\ fanouts \in [FlowIds -> [stage : {"idle", "check", "enqueue"},
                                todo : SUBSET ChildKeys]]
    /\ \A r \in Relays : relays[r].flows \subseteq FlowIds
    /\ \A s \in Sweepers :
          /\ sweeps[s].stage \in {"idle", "next", "before", "enqueue",
                                  "after", "cancel", "report"}
          /\ sweeps[s].child \in
                IF sweeps[s].stage \in {"idle", "next"} THEN {None}
                ELSE ChildIds
          /\ sweeps[s].outcome \in
                IF sweeps[s].stage = "report" THEN Outcomes ELSE {None}
          /\ sweeps[s].reconcile \cup sweeps[s].cascade \cup sweeps[s].done
                 \subseteq ChildIds
    /\ crashes \in 0..scenario.crashes
    /\ scenario \in Scenario

Row(c) == pRows[c[1]][c[2]]

\* Some sweeper will still cancel the child.
CancelComing(c) ==
    \E s \in Sweepers :
        \/ sweeps[s].child = c /\ sweeps[s].stage \in {"after", "cancel"}
        \/ c \in sweeps[s].cascade

\* The child is still to run, or running, although its row says that it was
\* cancelled and the cancel delivered, and nobody will cancel it any more.
Orphan(c) ==
    /\ Unfinished(c) /\ ~cJobs[c].cancelRequested /\ ~CancelComing(c)
    /\ Row(c) # None /\ Row(c).status = "cancelled" /\ Row(c).cascaded

(* "children of a settled flow must not start" (Worker.ts): a settled flow *)
(* leaves no orphan.                                                       *)
NoOrphan == \A c \in ChildIds : ~Orphan(c)

(* The sweepers leave no orphan: the parent is read before and after the   *)
(* enqueue, and whoever settles it in between, one of them cancels.  A     *)
(* sweeper that dies before its second look, the fast path, which takes    *)
(* only one, and an operator who revives a cancelled child do leave one.   *)
SweepersLeaveNoOrphan ==
    ~scenario.fastPath /\ scenario.crashes = 0 /\ scenario.retries = 0
    => NoOrphan

Ended(c, outcomes) ==
    cJobs[c] # None /\ \E i \in DOMAIN cJobs[c].attempts :
                           cJobs[c].attempts[i] \in outcomes

(* Rows tell collect the truth, whoever reported and however often: a row  *)
(* says completed or failed only of a child whose ledger has that ending,  *)
(* and says cancelled only of a child that was, or of a settled flow.      *)
RowsTruthful ==
    \A c \in ChildIds :
        Row(c) # None =>
            /\ Row(c).status = "completed" => Ended(c, {"completed"})
            /\ Row(c).status = "failed" => Ended(c, {"failed", "stalled"})
            /\ Row(c).status = "cancelled" =>
                   \/ Ended(c, {"cancelled"})
                   \/ pJobs[c[1]].state \in Outcomes

(* A parent waiting for its children does not wait forever: whatever was   *)
(* lost with a crashed worker or relay (children never enqueued, reports   *)
(* never delivered), the sweeper makes up for from the persisted rows.     *)
FlowSettles == \A f \in FlowIds : Parked(f) ~> ~Parked(f)

(* Every cancel a settled flow owes its children is delivered.             *)
CascadesDelivered ==
    \A c \in ChildIds : c \in OwedCascades ~> c \notin OwedCascades

=============================================================================
