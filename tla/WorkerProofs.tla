---------------------------- MODULE WorkerProofs ----------------------------
(***************************************************************************)
(* The workers, proved for every value of the constants: whatever a worker *)
(* does to the store is a step of the store's specification, so everything *)
(* proved of the store holds of the workers' store; the workers' state     *)
(* keeps its type (TypeOK), their books are about runs they have           *)
(* (BooksInOrder), no job is left locked with nobody to run it (Attended), *)
(* and one taker on the in-memory driver ends a run as cancelled only for  *)
(* a cancel request (CancelWanted).                                        *)
(***************************************************************************)
EXTENDS Worker, FiniteSetTheorems, TLAPS

-----------------------------------------------------------------------------
(* The store                                                               *)

\* The store of Worker, with what is proved of it.
ST == INSTANCE MemoryJobStoreProofs WITH
        ParentIds <- {}, Names <- {"job"}, Queues <- {"work"},
        DedupeKeys <- {}, ChildKeys <- {}, Payloads <- {"payload"},
        Requests <- {Request(id) : id \in JobIds},
        LockDurations <- {1}, RetryDelays <- {0}, PendingAgeMs <- 0,
        SweepLimit <- 1,
        HistoryTtl <- [s \in {"completed", "failed", "cancelled"} |-> None],
        flowChildren <- [id \in JobIds |-> <<>>], dedupes <- <<>>,
        outbox <- {}, outboxSeq <- 0, paused <- {}

(* The requests of the workers' store are enqueue requests.                *)
LEMMA RequestType ==
    ASSUME NEW id \in JobIds
    PROVE  Request(id) \in ST!EnqueueRequest
BY ConstantsAssumption DEF Request, ST!EnqueueRequest, ST!Opt

(* The workers' store meets the assumptions on a store's constants.        *)
LEMMA StoreConstants ==
    /\ ST!IsFiniteSet(JobIds) /\ ST!IsFiniteSet({})
    /\ {Request(id) : id \in JobIds} \subseteq ST!EnqueueRequest
    /\ {1} \subseteq Nat \ {0}
    /\ {0} \subseteq Nat
    /\ MaxStalledCount \in Nat /\ 0 \in Nat
    /\ 1 \in Nat \ {0}
    /\ [s \in {"completed", "failed", "cancelled"} |-> None]
           \in [ST!TerminalStates -> ST!Opt(Nat)]
    /\ MaxTime \in Nat /\ MaxSeq \in Nat /\ MaxTokens \in Nat
<1>1. ST!IsFiniteSet(JobIds) /\ ST!IsFiniteSet({})
  BY ConstantsAssumption, FS_EmptySet DEF ST!IsFiniteSet, IsFiniteSet
<1>2. {Request(id) : id \in JobIds} \subseteq ST!EnqueueRequest
  BY RequestType
<1>3. [s \in {"completed", "failed", "cancelled"} |-> None]
           \in [ST!TerminalStates -> ST!Opt(Nat)]
  BY DEF ST!TerminalStates, ST!Opt
<1> QED
  BY <1>1, <1>2, <1>3, ConstantsAssumption

LEMMA StoreNone ==
    /\ None \notin JobIds /\ None \notin {} /\ None \notin Nat
    /\ None \notin ST!MemJob /\ None \notin ST!FlowState
    /\ None \notin ST!DedupeEntry /\ None \notin ST!MemFlowChild
    /\ None \notin ST!ParentEnvelope /\ None \notin ST!DedupePolicy
    /\ None \notin ST!KeepStatePolicy /\ None \notin ST!KeepPolicy
BY NoneAssumption
   DEF ST!MemJob, S!MemJob, ST!FlowState, S!FlowState, ST!DedupeEntry,
       S!DedupeEntry, ST!MemFlowChild, S!MemFlowChild, ST!ParentEnvelope,
       S!ParentEnvelope, ST!DedupePolicy, ST!KeepStatePolicy,
       S!KeepStatePolicy, ST!KeepPolicy, S!KeepPolicy, ST!Opt, S!Opt,
       ST!TerminalStates, S!TerminalStates, ST!JobStates, S!JobStates,
       ST!AttemptOutcomes, S!AttemptOutcomes

LEMMA StoreRequests ==
    \A r1, r2 \in {Request(id) : id \in JobIds} :
        r1.parent # None /\ r1.parent = r2.parent =>
            r1.id # None /\ r1.id = r2.id
BY DEF Request

-----------------------------------------------------------------------------
(* S and ST name the same operations                                       *)

(* enqueue                                                                 *)
LEMMA EnqueueSame ==
    ASSUME NEW id
    PROVE  S!Enqueue(Request(id), id) <=> ST!Enqueue(Request(id), id)
BY DEF S!Enqueue, ST!Enqueue, S!IdTaken, ST!IdTaken, S!EntryOf, ST!EntryOf,
       S!KeyOf, ST!KeyOf, S!Replaces, ST!Replaces, S!WindowLive,
       ST!WindowLive, S!KeyedJobPending, ST!KeyedJobPending, S!NewJob,
       ST!NewJob, S!Expiry, ST!Expiry, S!Has, ST!Has, S!Terminal,
       ST!Terminal, S!TerminalStates, ST!TerminalStates, S!DedupeMapKeys,
       ST!DedupeMapKeys, S!SignalWake, ST!SignalWake

(* what every terminal transition does with reports, keys and history      *)
LEMMA RetireSame ==
    \A js, rs, done, kept :
        S!Retire(js, rs, done, kept) <=> ST!Retire(js, rs, done, kept)
BY DEF S!Retire, ST!Retire, S!Turns, ST!Turns, S!AtTurn, ST!AtTurn,
       S!KeepVictims, ST!KeepVictims, S!Reports, ST!Reports, S!Report,
       ST!Report, S!ReleaseDedupe, ST!ReleaseDedupe, S!Without, ST!Without,
       S!KeepPolicyFor, ST!KeepPolicyFor, S!Peers, ST!Peers, S!NewerPeers,
       ST!NewerPeers, S!BeyondCount, ST!BeyondCount, S!OwesCascades,
       ST!OwesCascades, S!WithStatus, ST!WithStatus, S!Has, ST!Has,
       S!DedupeMapKeys, ST!DedupeMapKeys, S!NoRows, ST!NoRows,
       S!Cardinality, ST!Cardinality

(* cancel                                                                  *)
LEMMA CancelSame ==
    ASSUME NEW id
    PROVE  S!Cancel(id) <=> ST!Cancel(id)
BY RetireSame
   DEF S!Cancel, ST!Cancel, S!MarkCancelled, ST!MarkCancelled,
       S!SettleFlow, ST!SettleFlow, S!MarkPendingRowsCancelled,
       ST!MarkPendingRowsCancelled, S!Finish, ST!Finish, S!RecordAttempt,
       ST!RecordAttempt, S!ClearLock, ST!ClearLock, S!WithStatus,
       ST!WithStatus, S!Cardinality, ST!Cardinality, S!Has, ST!Has,
       S!Terminal, ST!Terminal, S!TerminalStates, ST!TerminalStates,
       S!SignalWake, ST!SignalWake

(* retry                                                                   *)
LEMMA RetrySame ==
    ASSUME NEW id
    PROVE  S!Retry(id) <=> ST!Retry(id)
BY DEF S!Retry, ST!Retry, S!Revive, ST!Revive, S!Has, ST!Has, S!SignalWake,
       ST!SignalWake

(* claim                                                                   *)
LEMMA ClaimSame ==
    S!Claim("work", {"job"}, LockMs) <=> ST!Claim("work", {"job"}, LockMs)
BY DEF S!Claim, ST!Claim, S!PromoteDue, ST!PromoteDue, S!Claimable,
       ST!Claimable, S!Precedes, ST!Precedes, S!Claimed, ST!Claimed, S!Has,
       ST!Has, S!SignalWake, ST!SignalWake

(* extendLocks                                                             *)
LEMMA ExtendLocksSame ==
    ASSUME NEW id, NEW token
    PROVE  S!ExtendLocks(id, token, LockMs) <=>
              ST!ExtendLocks(id, token, LockMs)
BY DEF S!ExtendLocks, ST!ExtendLocks, S!Held, ST!Held, S!Has, ST!Has,
       S!SignalWake, ST!SignalWake

(* release                                                                 *)
LEMMA ReleaseSame ==
    ASSUME NEW id, NEW token
    PROVE  S!Release(id, token) <=> ST!Release(id, token)
BY RetireSame
   DEF S!Release, ST!Release, S!Held, ST!Held, S!MarkCancelled,
       ST!MarkCancelled, S!SettleFlow, ST!SettleFlow,
       S!MarkPendingRowsCancelled, ST!MarkPendingRowsCancelled, S!Finish,
       ST!Finish, S!RecordAttempt, ST!RecordAttempt, S!ClearLock,
       ST!ClearLock, S!WithStatus, ST!WithStatus, S!Cardinality,
       ST!Cardinality, S!Has, ST!Has, S!Terminal, ST!Terminal,
       S!TerminalStates, ST!TerminalStates, S!SignalWake, ST!SignalWake

(* recoverStalled                                                          *)
LEMMA RecoverStalledSame ==
    S!RecoverStalled <=> ST!RecoverStalled
BY RetireSame
   DEF S!RecoverStalled, ST!RecoverStalled, S!Stalled, ST!Stalled,
       S!RecoveredJob, ST!RecoveredJob, S!StallsExhausted,
       ST!StallsExhausted, S!Finish, ST!Finish, S!RecordAttempt,
       ST!RecordAttempt, S!ClearLock, ST!ClearLock, S!WithStatus,
       ST!WithStatus, S!Cardinality, ST!Cardinality, S!Has, ST!Has,
       S!Terminal, ST!Terminal, S!TerminalStates, ST!TerminalStates,
       S!SignalWake, ST!SignalWake

(* ack Complete, Fail and Cancelled                                        *)
LEMMA AckTerminalSame ==
    ASSUME NEW id, NEW token, NEW state, NEW exit
    PROVE  S!AckTerminal(id, token, state, exit) <=>
              ST!AckTerminal(id, token, state, exit)
BY RetireSame
   DEF S!AckTerminal, ST!AckTerminal, S!Held, ST!Held, S!Acked, ST!Acked,
       S!Finish, ST!Finish, S!RecordAttempt, ST!RecordAttempt, S!ClearLock,
       ST!ClearLock, S!WithStatus, ST!WithStatus, S!Cardinality,
       ST!Cardinality, S!Has, ST!Has, S!Terminal, ST!Terminal,
       S!TerminalStates, ST!TerminalStates, S!SignalWake, ST!SignalWake

(* ack Retry                                                               *)
LEMMA AckRetrySame ==
    ASSUME NEW id, NEW token
    PROVE  S!AckRetry(id, token, 0) <=> ST!AckRetry(id, token, 0)
BY RetireSame
   DEF S!AckRetry, ST!AckRetry, S!Held, ST!Held, S!Acked, ST!Acked,
       S!MarkCancelled, ST!MarkCancelled, S!SettleFlow, ST!SettleFlow,
       S!MarkPendingRowsCancelled, ST!MarkPendingRowsCancelled, S!Finish,
       ST!Finish, S!RecordAttempt, ST!RecordAttempt, S!ClearLock,
       ST!ClearLock, S!WithStatus, ST!WithStatus, S!Cardinality,
       ST!Cardinality, S!Has, ST!Has, S!Terminal, ST!Terminal,
       S!TerminalStates, ST!TerminalStates, S!SignalWake, ST!SignalWake

(* Held                                                                    *)
LEMMA HeldSame ==
    ASSUME NEW id, NEW token
    PROVE  S!Held(id, token) <=> ST!Held(id, token)
BY DEF S!Held, ST!Held, S!Has, ST!Has

-----------------------------------------------------------------------------
(* The steps of the workers                                                *)

\* A step that leaves every worker's state alone.
StoreOnly == UNCHANGED <<workerVars, deployment>>

TakerStep ==
    \E w \in Workers, s \in Slots :
        \/ TakerClaims(w, s) \/ TakerStarts(w, s) \/ TakerAcks(w, s)
        \/ AckDropped(w, s) \/ \E exit \in Exits : RunEnds(w, s, exit)

BeatStep ==
    \E w \in Workers :
        \/ BeatBegins(w) \/ BeatApplies(w)
        \/ \E lock \in Locks : BeatExtends(w, lock)

ProcessStep ==
    \E w \in Workers :
        Stop(w) \/ Stopped(w) \/ Unregister(w) \/ Restart(w) \/ Crash(w)

(* Every step is a taker's, a heartbeat's, a process's or the store's own. *)
LEMMA Steps ==
    ASSUME [Next]_vars
    PROVE  TakerStep \/ BeatStep \/ ProcessStep \/ StoreOnly
<1>1. CASE UNCHANGED vars
  BY <1>1 DEF vars, bounds, StoreOnly
<1>2. CASE \E w \in Workers : BeatReplies(w)
  BY <1>2 DEF BeatReplies, BeatStep
<1>3. CASE \E w \in Workers : BeatBegins(w) \/ \E s \in Slots : TakerNext(w, s)
  BY <1>3 DEF BeatStep, TakerNext, TakerStep
<1>4. CASE Environment
  <2>1. ASSUME NEW id \in JobIds, Enqueue(id) \/ Cancel(id) \/ Retry(id)
        PROVE  StoreOnly
    BY <2>1 DEF Enqueue, Cancel, Retry, Intervention, bounds, StoreOnly
  <2>2. ASSUME NEW w \in Workers, NEW s \in Slots, ClaimLost(w, s)
        PROVE  StoreOnly
    BY <2>2 DEF ClaimLost, Fault, StoreOnly
  <2>3. ASSUME Recover \/ Tick
        PROVE  StoreOnly
    BY <2>3 DEF Recover, Tick, bounds, StoreOnly
  <2> QED
    BY <1>4, <2>1, <2>2, <2>3 DEF Environment, ProcessStep, TakerStep
<1> QED
  BY <1>1, <1>2, <1>3, <1>4 DEF Next

-----------------------------------------------------------------------------
(* The workers' store is the store                                         *)

StoreInv == ST!TypeOK /\ ST!LockInv

\* A taker that is not idle has a job and the token of a claim, and is one of
\* the deployment's.
RunsKnown ==
    \A w \in Workers, s \in Slots :
        takers[w][s].stage # "idle" =>
            /\ takers[w][s].job \in JobIds
            /\ takers[w][s].token \in 1..lastToken
            /\ s \in deployment.slots

\* The renewal loop ends with the worker's scope.
BeatsUp == \A w \in Workers : status[w] # "up" => beats[w] = NoBeat

Typed == TypeOK /\ RunsKnown /\ BeatsUp /\ faults \in Nat

(* Untouched, the store stutters.                                          *)
LEMMA StoreStutters ==
    ASSUME UNCHANGED storeVars
    PROVE  UNCHANGED ST!vars
BY DEF storeVars, ST!vars

(* The token of a held lock was handed out.                                *)
LEMMA HeldToken ==
    ASSUME StoreInv, NEW id \in JobIds, NEW token, ST!Held(id, token)
    PROVE  token \in Nat /\ token <= lastToken
<1>1. ST!Has(jobs, id) /\ jobs[id].lockToken = token /\ token # None
  BY DEF StoreInv, ST!LockInv, ST!LockedIffActive, ST!Held, ST!Has
<1>2. jobs[id] \in ST!MemJob
  BY <1>1 DEF StoreInv, ST!TypeOK, ST!Opt, ST!Has
<1> QED
  BY <1>1, <1>2
     DEF StoreInv, ST!LockInv, ST!TokensIssued, ST!MemJob, ST!Opt

(* An ack or a release by a taker that holds the lock.                     *)
LEMMA TakerAcksStore ==
    ASSUME Typed, NEW w \in Workers, NEW s \in Slots, TakerAcks(w, s)
    PROVE  [ST!Next]_(ST!vars)
<1> DEFINE run == takers[w][s]
<1>1. CASE UNCHANGED storeVars
  BY <1>1, StoreStutters
<1>2. run.job \in JobIds /\ run.token \in 1..lastToken
  BY DEF Typed, RunsKnown, TakerAcks
<1>3. ASSUME S!Release(run.job, run.token) PROVE ST!Next
  BY <1>2, <1>3, ReleaseSame DEF ST!Next, ST!WorkerNext, ST!Tokens
<1>4. ASSUME S!AckRetry(run.job, run.token, 0) PROVE ST!Next
  BY <1>2, <1>4, AckRetrySame DEF ST!Next, ST!WorkerNext, ST!Tokens
<1>5. ASSUME NEW state \in {"completed", "failed", "cancelled"},
             NEW exit \in BOOLEAN,
             S!AckTerminal(run.job, run.token, state, exit)
      PROVE  ST!Next
  <2>1. ST!AckTerminal(run.job, run.token, state, exit)
    BY <1>5, AckTerminalSame
  <2> QED
    BY <1>2, <2>1 DEF ST!Next, ST!WorkerNext, ST!Tokens, ST!TerminalStates
<1> QED
  BY <1>1, <1>3, <1>4, <1>5 DEF TakerAcks

(* Whatever the workers do, their store takes a step of its specification  *)
(* or none.                                                                *)
LEMMA StoreUse ==
    ASSUME StoreInv, Typed, [Next]_vars
    PROVE  [ST!Next]_(ST!vars)
<1>1. CASE UNCHANGED vars
  BY <1>1, StoreStutters DEF vars
<1>2. ASSUME NEW id \in JobIds, Enqueue(id) \/ Cancel(id) \/ Retry(id)
      PROVE  ST!Next
  <2>1. CASE S!Enqueue(Request(id), id)
    BY <2>1, EnqueueSame DEF ST!Next, ST!ProducerNext
  <2>2. CASE S!Cancel(id)
    BY <2>2, CancelSame DEF ST!Next, ST!AdminNext
  <2>3. CASE S!Retry(id)
    BY <2>3, RetrySame DEF ST!Next, ST!AdminNext
  <2> QED
    BY <1>2, <2>1, <2>2, <2>3 DEF Enqueue, Cancel, Retry
<1>3. ASSUME S!Claim("work", {"job"}, LockMs)
      PROVE  ST!Next
  <2>1. ST!Claim("work", {"job"}, LockMs)
    BY <1>3, ClaimSame
  <2>2. LockMs \in {1}
    BY DEF LockMs
  <2> QED
    BY <2>1, <2>2 DEF ST!Next, ST!WorkerNext
<1>4. ASSUME S!RecoverStalled
      PROVE  ST!Next
  BY <1>4, RecoverStalledSame DEF ST!Next, ST!WorkerNext
<1>5. ASSUME NEW w \in Workers, NEW lock \in Locks, BeatExtends(w, lock)
      PROVE  [ST!Next]_(ST!vars)
  <2>1. CASE UNCHANGED storeVars
    BY <2>1, StoreStutters
  <2>2. CASE S!ExtendLocks(lock.job, lock.token, LockMs)
    <3>1. ST!ExtendLocks(lock.job, lock.token, LockMs) /\ lock.job \in JobIds
      BY <2>2, ExtendLocksSame DEF Locks
    <3>2. lock.token \in 1..lastToken
      <4>1. ST!Held(lock.job, lock.token)
        BY <3>1 DEF ST!ExtendLocks
      <4>2. lock.token \in 1..MaxTokens
        BY DEF Locks
      <4> QED
        BY <3>1, <4>1, <4>2, HeldToken, ConstantsAssumption
           DEF StoreInv, ST!TypeOK
    <3>3. LockMs \in {1}
      BY DEF LockMs
    <3> QED
      BY <3>1, <3>2, <3>3 DEF ST!Next, ST!WorkerNext, ST!Tokens
  <2> QED
    BY <1>5, <2>1, <2>2 DEF BeatExtends
<1>6. ASSUME NEW w \in Workers, NEW s \in Slots,
             \/ TakerStarts(w, s) \/ AckDropped(w, s)
             \/ \E exit \in Exits : RunEnds(w, s, exit)
      PROVE  UNCHANGED ST!vars
  BY <1>6, StoreStutters DEF TakerStarts, AckDropped, RunEnds
<1>7. ASSUME NEW w \in Workers, BeatBegins(w) \/ BeatApplies(w)
      PROVE  UNCHANGED ST!vars
  BY <1>7, StoreStutters DEF BeatBegins, BeatApplies
<1>8. ASSUME NEW w \in Workers,
             Stop(w) \/ Stopped(w) \/ Unregister(w) \/ Restart(w) \/ Crash(w)
      PROVE  UNCHANGED ST!vars
  BY <1>8, StoreStutters DEF Stop, Stopped, Unregister, Restart, Crash
<1>9. CASE Tick
  <2>1. ST!Tick
    BY <1>9 DEF Tick, ST!Tick, ST!SignalWake
  <2> QED
    BY <2>1 DEF ST!Next
<1>10. CASE \E w \in Workers : BeatReplies(w)
  BY <1>5, <1>7, <1>10 DEF BeatReplies
<1>11. CASE \E w \in Workers : BeatBegins(w) \/ \E s \in Slots : TakerNext(w, s)
  BY <1>3, <1>6, <1>7, <1>11, TakerAcksStore DEF TakerNext, TakerClaims
<1>12. CASE Environment
  BY <1>2, <1>3, <1>4, <1>6, <1>8, <1>9, <1>12
     DEF Environment, Recover, ClaimLost
<1> QED
  BY <1>1, <1>10, <1>11, <1>12 DEF Next

\* Tokens are only ever handed out.
Grown == lastToken \in Nat /\ lastToken' \in Nat /\ lastToken <= lastToken'

(* No step takes a token back.                                             *)
LEMMA TokensGrow ==
    ASSUME StoreInv, Typed, [Next]_vars
    PROVE  Grown
<1>1. lastToken \in Nat
  BY DEF StoreInv, ST!TypeOK
<1>2. ST!LockStep \/ ST!ClaimStep
  BY StoreUse, ST!LockEffects, StoreConstants, StoreNone, StoreRequests
     DEF StoreInv
<1> QED
  BY <1>1, <1>2 DEF ST!LockStep, ST!ClaimStep, Grown

(* The store's invariants hold of the workers' store.                      *)
LEMMA StoreStep ==
    ASSUME StoreInv, Typed, [Next]_vars
    PROVE  StoreInv'
<1>1. [ST!Next]_(ST!vars)
  BY StoreUse
<1>2. ST!TypeOK'
  BY <1>1, ST!TypeStep, StoreConstants, StoreNone, StoreRequests DEF StoreInv
<1>3. ST!LockInv'
  BY <1>1, ST!LockNext, StoreConstants, StoreNone, StoreRequests DEF StoreInv
<1> QED
  BY <1>2, <1>3 DEF StoreInv

-----------------------------------------------------------------------------
(* Types                                                                   *)

(* What a taker's state becomes.                                           *)
LEMMA SetTakerType ==
    ASSUME takers \in [Workers -> [Slots -> Run]],
           NEW w \in Workers, NEW s \in Slots, NEW run \in Run,
           SetTaker(w, s, run)
    PROVE  /\ takers' \in [Workers -> [Slots -> Run]]
           /\ \A v \in Workers, u \in Slots :
                 takers'[v][u] = IF v = w /\ u = s THEN run ELSE takers[v][u]
BY DEF SetTaker

(* The idle taker and the sleeping heartbeat.                              *)
LEMMA RestType ==
    /\ Idle \in Run /\ Idle.stage = "idle" /\ Idle.outcome = None
    /\ NoBeat \in Beat
    /\ NoFlights \in [JobIds -> Flight \cup {None}]
BY DEF Idle, Run, NoBeat, Beat, NoFlights

(* How a run is acked.                                                     *)
LEMMA AckForType ==
    ASSUME NEW w, NEW run, NEW exit
    PROVE  AckFor(w, run, exit) \subseteq
               {"completed", "failed", "retry", "cancelled", "release"}
BY DEF AckFor

(* Only one taker moves.                                                   *)
LEMMA SetTakerIs ==
    ASSUME Typed, NEW w \in Workers, NEW s \in Slots, NEW run,
           SetTaker(w, s, run)
    PROVE  \A v \in Workers, u \in Slots :
              takers'[v][u] = IF v = w /\ u = s THEN run ELSE takers[v][u]
BY DEF SetTaker, Typed, TypeOK

\* The runs of a worker are what they were: they may have been interrupted.
RunsKept ==
    \A w \in Workers, s \in Slots :
        /\ takers'[w][s].stage = takers[w][s].stage
        /\ takers'[w][s].job = takers[w][s].job
        /\ takers'[w][s].token = takers[w][s].token

(* One taker moves on; nobody is down who runs a job.                      *)
LEMMA TakerTyped ==
    ASSUME Typed, NEW w \in Workers, NEW s \in Slots, NEW run \in Run,
           SetTaker(w, s, run),
           UNCHANGED <<status, registered, beats, deployment>>,
           run.outcome # None <=> run.stage = "ack",
           status[w] = "down" => run = Idle,
           inflight' \in [Workers -> [JobIds -> Flight \cup {None}]],
           cancelling' \in [Workers -> SUBSET JobIds],
           Grown,
           run.stage # "idle" =>
              /\ run.job \in JobIds /\ run.token \in 1..lastToken'
              /\ s \in deployment.slots,
           faults' \in Nat
    PROVE  Typed'
<1>1. /\ takers' \in [Workers -> [Slots -> Run]]
      /\ \A v \in Workers, u \in Slots :
            takers'[v][u] = IF v = w /\ u = s THEN run ELSE takers[v][u]
  BY SetTakerType DEF Typed, TypeOK
<1>2. TypeOK'
  <2>1. ASSUME NEW v \in Workers, NEW u \in Slots
        PROVE  /\ takers'[v][u].outcome # None <=> takers'[v][u].stage = "ack"
               /\ status'[v] = "down" => takers'[v][u] = Idle
    <3>1. status' = status
      OBVIOUS
    <3>2. CASE v = w /\ u = s
      BY <1>1, <3>1, <3>2
    <3>3. CASE ~(v = w /\ u = s)
      <4>1. takers'[v][u] = takers[v][u]
        BY <1>1, <3>3
      <4>2. /\ takers[v][u].outcome # None <=> takers[v][u].stage = "ack"
            /\ status[v] = "down" => takers[v][u] = Idle
        BY DEF Typed, TypeOK
      <4> QED
        BY <3>1, <4>1, <4>2
    <3> QED
      BY <3>2, <3>3
  <2>2. beats' \in [Workers -> Beat] /\ deployment' \in Deployment
    BY DEF Typed, TypeOK
  <2>3. /\ status' \in [Workers -> {"up", "stopping", "down"}]
        /\ registered' \in [Workers -> BOOLEAN]
    BY DEF Typed, TypeOK
  <2> QED
    BY <1>1, <2>1, <2>2, <2>3 DEF TypeOK
<1>3. RunsKnown'
  <2>1. ASSUME NEW v \in Workers, NEW u \in Slots,
               takers'[v][u].stage # "idle"
        PROVE  /\ takers'[v][u].job \in JobIds
               /\ takers'[v][u].token \in 1..lastToken'
               /\ u \in deployment'.slots
    BY <1>1, <2>1 DEF Typed, RunsKnown, Grown
  <2> QED
    BY <2>1 DEF RunsKnown
<1>4. BeatsUp'
  BY DEF Typed, BeatsUp
<1> QED
  BY <1>2, <1>3, <1>4 DEF Typed

(* The runs stay what they are while the rest of a worker changes.         *)
LEMMA RestTyped ==
    ASSUME Typed, RunsKept, UNCHANGED deployment,
           status' \in [Workers -> {"up", "stopping", "down"}],
           registered' \in [Workers -> BOOLEAN],
           takers' \in [Workers -> [Slots -> Run]],
           inflight' \in [Workers -> [JobIds -> Flight \cup {None}]],
           cancelling' \in [Workers -> SUBSET JobIds],
           beats' \in [Workers -> Beat],
           \A w \in Workers, s \in Slots :
              /\ takers'[w][s].outcome = takers[w][s].outcome
              /\ status'[w] = "down" => takers'[w][s] = Idle,
           Grown,
           BeatsUp', faults' \in Nat
    PROVE  Typed'
<1>1. ASSUME NEW w \in Workers, NEW s \in Slots
      PROVE  /\ takers'[w][s].outcome # None <=> takers'[w][s].stage = "ack"
             /\ status'[w] = "down" => takers'[w][s] = Idle
             /\ takers'[w][s].stage # "idle" =>
                   /\ takers'[w][s].job \in JobIds
                   /\ takers'[w][s].token \in 1..lastToken'
                   /\ s \in deployment'.slots
  <2>1. /\ takers[w][s].outcome # None <=> takers[w][s].stage = "ack"
        /\ takers[w][s].stage # "idle" =>
              /\ takers[w][s].job \in JobIds
              /\ takers[w][s].token \in 1..lastToken
              /\ s \in deployment.slots
    BY DEF Typed, TypeOK, RunsKnown
  <2>2. /\ takers'[w][s].stage = takers[w][s].stage
        /\ takers'[w][s].job = takers[w][s].job
        /\ takers'[w][s].token = takers[w][s].token
    BY DEF RunsKept
  <2>3. 1..lastToken \subseteq 1..lastToken'
    BY DEF Grown
  <2> QED
    BY <2>1, <2>2, <2>3
<1>2. TypeOK'
  <2>1. deployment' \in Deployment
    BY DEF Typed, TypeOK
  <2> QED
    BY <1>1, <2>1 DEF TypeOK
<1>3. RunsKnown'
  BY <1>1 DEF RunsKnown
<1> QED
  BY <1>2, <1>3 DEF Typed

(* claim                                                                   *)
LEMMA TakerClaimsTyped ==
    ASSUME Typed, ST!TypeOK, Grown, NEW w \in Workers, NEW s \in Slots,
           TakerClaims(w, s)
    PROVE  Typed'
<1>1. PICK id \in JobIds :
          SetTaker(w, s, [Idle EXCEPT !.stage = "claimed", !.job = id,
                                      !.token = lastToken'])
  BY DEF TakerClaims
<1>2. lastToken' \in 1..MaxTokens
  BY ConstantsAssumption DEF TakerClaims, S!Claim, ST!TypeOK
<1> DEFINE run == [Idle EXCEPT !.stage = "claimed", !.job = id,
                               !.token = lastToken']
<1>3. /\ run \in Run /\ run.outcome = None /\ run.stage = "claimed"
      /\ run.job = id /\ run.token = lastToken'
  BY <1>2 DEF Idle, Run
<1>4. status[w] # "down" /\ s \in deployment.slots
  BY DEF TakerClaims, MayClaim
<1>5. SetTaker(w, s, run)
  BY <1>1
<1>6. UNCHANGED <<status, registered, beats, deployment, faults, inflight,
                  cancelling>>
  BY DEF TakerClaims, bounds
<1>7. inflight' \in [Workers -> [JobIds -> Flight \cup {None}]]
        /\ cancelling' \in [Workers -> SUBSET JobIds] /\ faults' \in Nat
  BY <1>6 DEF Typed, TypeOK
<1> HIDE DEF run
<1>8. run.token \in 1..lastToken'
  BY <1>2, <1>3
<1> QED
  BY <1>3, <1>4, <1>5, <1>6, <1>7, <1>8, TakerTyped

(* The handler is forked, or the job handed back.                          *)
LEMMA TakerStartsTyped ==
    ASSUME Typed, Grown, NEW w \in Workers, NEW s \in Slots,
           TakerStarts(w, s)
    PROVE  Typed'
<1> DEFINE run == takers[w][s]
<1>1. /\ run \in Run /\ run.stage = "claimed" /\ run.outcome = None
      /\ status[w] # "down"
  <2>1. run \in Run /\ run.stage = "claimed"
    BY DEF Typed, TypeOK, TakerStarts
  <2>2. run # Idle
    BY <2>1 DEF Idle
  <2> QED
    BY <2>1, <2>2 DEF Typed, TypeOK
<1>2. /\ UNCHANGED <<status, registered, beats, deployment, cancelling, faults>>
      /\ cancelling' \in [Workers -> SUBSET JobIds] /\ faults' \in Nat
  BY DEF TakerStarts, bounds, Typed, TypeOK
<1>3. /\ run.job \in JobIds /\ run.token \in 1..lastToken
      /\ run.token \in 1..lastToken' /\ s \in deployment.slots
  BY <1>1 DEF Typed, RunsKnown, Grown
<1>4. CASE registered[w]
  <2> DEFINE next == [run EXCEPT !.stage = "running"]
             flight == [token |-> run.token, slot |-> s]
  <2>1. /\ next \in Run /\ next.outcome = None /\ next.stage = "running"
        /\ next.job = run.job /\ next.token = run.token
    BY <1>1 DEF Run
  <2>2. SetTaker(w, s, next)
          /\ inflight' = [inflight EXCEPT ![w][run.job] = flight]
    BY <1>4 DEF TakerStarts
  <2>3. inflight' \in [Workers -> [JobIds -> Flight \cup {None}]]
    <3>1. run.token \in 1..MaxTokens
      BY <1>1, <1>3, NoneAssumption DEF Run, Grown
    <3>2. flight \in Flight
      BY <3>1 DEF Flight
    <3> HIDE DEF flight
    <3> QED
      BY <1>3, <2>2, <3>2 DEF Typed, TypeOK
  <2> HIDE DEF next
  <2> QED
    BY <1>1, <1>2, <1>3, <2>1, <2>2, <2>3, TakerTyped
<1>5. CASE ~registered[w]
  <2> DEFINE next == [run EXCEPT !.stage = "ack", !.outcome = "release"]
  <2>1. /\ next \in Run /\ next.outcome # None /\ next.stage = "ack"
        /\ next.job = run.job /\ next.token = run.token
    BY <1>1, NoneAssumption DEF Run
  <2>2. SetTaker(w, s, next) /\ inflight' = inflight
    BY <1>5 DEF TakerStarts
  <2>3. inflight' \in [Workers -> [JobIds -> Flight \cup {None}]]
    BY <2>2 DEF Typed, TypeOK
  <2> HIDE DEF next
  <2> QED
    BY <1>1, <1>2, <1>3, <2>1, <2>2, <2>3, TakerTyped
<1> QED
  BY <1>4, <1>5

(* The join returns.                                                       *)
LEMMA RunEndsTyped ==
    ASSUME Typed, Grown, NEW w \in Workers, NEW s \in Slots, NEW exit,
           RunEnds(w, s, exit)
    PROVE  Typed'
<1> DEFINE run == takers[w][s]
<1>1. /\ run \in Run /\ run.stage = "running" /\ status[w] # "down"
  <2>1. run \in Run /\ run.stage = "running"
    BY DEF Typed, TypeOK, RunEnds
  <2>2. run # Idle
    BY <2>1 DEF Idle
  <2> QED
    BY <2>1, <2>2 DEF Typed, TypeOK
<1>2. PICK outcome \in AckFor(w, run, exit) :
          SetTaker(w, s, [run EXCEPT !.stage = "ack", !.outcome = outcome])
  BY DEF RunEnds
<1> DEFINE next == [run EXCEPT !.stage = "ack", !.outcome = outcome]
<1>3. outcome \in {"completed", "failed", "retry", "cancelled", "release"}
  BY AckForType
<1>4. /\ next \in Run /\ next.outcome # None /\ next.stage = "ack"
      /\ next.job = run.job /\ next.token = run.token
  BY <1>1, <1>3, NoneAssumption DEF Run
<1>5. /\ run.job \in JobIds /\ run.token \in 1..lastToken
      /\ run.token \in 1..lastToken' /\ s \in deployment.slots
  BY <1>1 DEF Typed, RunsKnown, Grown
<1>6. /\ UNCHANGED <<status, registered, beats, deployment, faults>>
      /\ inflight' = [inflight EXCEPT ![w][run.job] = None]
      /\ cancelling' = [cancelling EXCEPT ![w] = @ \ {run.job}]
  BY DEF RunEnds, bounds
<1>7. /\ inflight' \in [Workers -> [JobIds -> Flight \cup {None}]]
      /\ cancelling' \in [Workers -> SUBSET JobIds] /\ faults' \in Nat
  BY <1>5, <1>6 DEF Typed, TypeOK
<1>8. SetTaker(w, s, next)
  BY <1>2
<1> HIDE DEF next
<1> QED
  BY <1>1, <1>4, <1>5, <1>6, <1>7, <1>8, TakerTyped

(* The taker is idle again: its run is acked, or the ack given up.         *)
LEMMA TakerRestsTyped ==
    ASSUME Typed, Grown, NEW w \in Workers, NEW s \in Slots,
           TakerAcks(w, s) \/ AckDropped(w, s)
    PROVE  Typed'
<1>1. UNCHANGED <<status, registered, beats, deployment, inflight, cancelling>>
      /\ SetTaker(w, s, Idle)
  BY DEF TakerAcks, AckDropped, Fault, bounds
<1>2. faults' \in Nat
  BY DEF TakerAcks, AckDropped, Fault, bounds, Typed
<1>3. /\ inflight' \in [Workers -> [JobIds -> Flight \cup {None}]]
      /\ cancelling' \in [Workers -> SUBSET JobIds]
  BY <1>1 DEF Typed, TypeOK
<1> QED
  BY <1>1, <1>2, <1>3, RestType, TakerTyped

(* What the heartbeat works through.                                       *)
LEMMA BeatType ==
    ASSUME NEW beat \in Beat, NEW lock \in Locks
    PROVE  /\ [beat EXCEPT !.todo = @ \ {lock}] \in Beat
           /\ [beat EXCEPT !.lost = @ \cup {lock.job}] \in Beat
           /\ [beat EXCEPT !.cancels = @ \cup {lock.job}] \in Beat
BY DEF Beat, Locks

(* A step that leaves the workers' runs and books alone.                   *)
LEMMA BooksUntouchedTyped ==
    ASSUME Typed, Grown,
           UNCHANGED <<status, takers, inflight, cancelling, deployment>>,
           registered' \in [Workers -> BOOLEAN],
           beats' \in [Workers -> Beat], BeatsUp', faults' \in Nat
    PROVE  Typed'
<1>1. RunsKept
  BY DEF RunsKept
<1>2. /\ status' \in [Workers -> {"up", "stopping", "down"}]
      /\ takers' \in [Workers -> [Slots -> Run]]
      /\ inflight' \in [Workers -> [JobIds -> Flight \cup {None}]]
      /\ cancelling' \in [Workers -> SUBSET JobIds]
      /\ \A w \in Workers, s \in Slots :
            /\ takers'[w][s].outcome = takers[w][s].outcome
            /\ status'[w] = "down" => takers'[w][s] = Idle
  BY DEF Typed, TypeOK
<1> QED
  BY <1>1, <1>2, RestTyped

(* The heartbeat takes its snapshot.                                       *)
LEMMA BeatBeginsTyped ==
    ASSUME Typed, Grown, NEW w \in Workers, BeatBegins(w)
    PROVE  Typed'
<1> DEFINE todo == {[job |-> id, token |-> inflight[w][id].token] :
                       id \in {i \in JobIds : inflight[w][i] # None}}
           beat == [NoBeat EXCEPT !.stage = "extend", !.todo = todo]
<1>1. todo \subseteq Locks
  <2>1. ASSUME NEW id \in JobIds, inflight[w][id] # None
        PROVE  inflight[w][id] \in Flight
    BY <2>1 DEF Typed, TypeOK
  <2> QED
    BY <2>1 DEF Locks, Flight
<1>2. beats' = [beats EXCEPT ![w] = beat]
  BY DEF BeatBegins
<1>3. beat \in Beat
  BY <1>1 DEF NoBeat, Beat
<1> HIDE DEF beat
<1>4. beats' \in [Workers -> Beat]
  BY <1>2, <1>3 DEF Typed, TypeOK
<1>5. registered' \in [Workers -> BOOLEAN] /\ faults' \in Nat
        /\ UNCHANGED <<status, takers, inflight, cancelling, deployment>>
  BY DEF BeatBegins, bounds, Typed, TypeOK
<1>6. BeatsUp'
  BY <1>2 DEF BeatBegins, Typed, TypeOK, BeatsUp
<1> QED
  BY <1>4, <1>5, <1>6, BooksUntouchedTyped

(* The heartbeat renews one lock, or learns that it need not.              *)
LEMMA BeatExtendsTyped ==
    ASSUME Typed, Grown, NEW w \in Workers, NEW lock \in Locks,
           BeatExtends(w, lock)
    PROVE  Typed'
<1> DEFINE beat == [beats[w] EXCEPT !.todo = @ \ {lock}]
<1>1. beats[w] \in Beat
  BY DEF Typed, TypeOK
<1>2. beat \in Beat
  BY <1>1, BeatType
<1>3. \/ beats' = [beats EXCEPT ![w] =
                      [beat EXCEPT !.lost = @ \cup {lock.job}]]
      \/ beats' = [beats EXCEPT ![w] =
                      [beat EXCEPT !.cancels = @ \cup {lock.job}]]
      \/ beats' = [beats EXCEPT ![w] = beat]
  BY DEF BeatExtends
<1> HIDE DEF beat
<1>4. beats' \in [Workers -> Beat]
  <2>1. /\ [beat EXCEPT !.lost = @ \cup {lock.job}] \in Beat
        /\ [beat EXCEPT !.cancels = @ \cup {lock.job}] \in Beat
    BY <1>2, BeatType
  <2>2. PICK next \in Beat : beats' = [beats EXCEPT ![w] = next]
    BY <1>2, <1>3, <2>1
  <2> QED
    BY <2>2 DEF Typed, TypeOK
<1>5. registered' \in [Workers -> BOOLEAN] /\ faults' \in Nat
        /\ UNCHANGED <<status, takers, inflight, cancelling, deployment>>
  BY DEF BeatExtends, bounds, Typed, TypeOK
<1>6. BeatsUp'
  <2>1. status[w] = "up"
    BY DEF BeatExtends, Typed, BeatsUp, NoBeat
  <2> QED
    BY <1>3, <1>5, <2>1 DEF Typed, TypeOK, BeatsUp
<1> QED
  BY <1>4, <1>5, <1>6, BooksUntouchedTyped

(* The heartbeat interrupts what it was told to cancel.                    *)
LEMMA BeatAppliesTyped ==
    ASSUME Typed, Grown, NEW w \in Workers, BeatApplies(w)
    PROVE  Typed' /\ RunsKept
<1> DEFINE beat == beats[w]
           hit(s) == \E id \in Delivered(w, beat) :
                        inflight[w][id] # None /\ inflight[w][id].slot = s
           next == [s \in Slots |->
                      IF hit(s) THEN [takers[w][s] EXCEPT !.interrupted = TRUE]
                      ELSE takers[w][s]]
<1>1. /\ takers' = [takers EXCEPT ![w] = next]
      /\ inflight' = [inflight EXCEPT ![w] = KeptFlights(w, beat)]
      /\ cancelling' = [cancelling EXCEPT ![w] = @ \cup Delivered(w, beat)]
      /\ beats' = [beats EXCEPT ![w] = NoBeat]
      /\ UNCHANGED <<status, registered, deployment, faults>>
  BY DEF BeatApplies, bounds
<1> HIDE DEF hit
<1>2. ASSUME NEW s \in Slots
      PROVE  /\ next[s] \in Run /\ next[s].stage = takers[w][s].stage
             /\ next[s].job = takers[w][s].job
             /\ next[s].token = takers[w][s].token
             /\ next[s].outcome = takers[w][s].outcome
  <2>1. takers[w][s] \in Run
    BY DEF Typed, TypeOK
  <2> QED
    BY <2>1 DEF Run
<1>3. /\ takers' \in [Workers -> [Slots -> Run]]
      /\ RunsKept
      /\ \A v \in Workers, s \in Slots :
            takers'[v][s].outcome = takers[v][s].outcome
  <2>1. next \in [Slots -> Run]
    BY <1>2
  <2> HIDE DEF next
  <2> QED
    BY <1>1, <1>2, <2>1 DEF Typed, TypeOK, RunsKept
<1>4. status[w] = "up"
  BY DEF BeatApplies, NoBeat, Typed, BeatsUp
<1>5. \A v \in Workers, s \in Slots :
         status'[v] = "down" => takers'[v][s] = Idle
  BY <1>1, <1>4 DEF Typed, TypeOK
<1>6. /\ inflight' \in [Workers -> [JobIds -> Flight \cup {None}]]
      /\ cancelling' \in [Workers -> SUBSET JobIds]
      /\ beats' \in [Workers -> Beat]
  <2>1. KeptFlights(w, beat) \in [JobIds -> Flight \cup {None}]
    BY DEF Typed, TypeOK, KeptFlights
  <2>2. Delivered(w, beat) \subseteq JobIds
    BY DEF Typed, TypeOK, Delivered, Beat
  <2> HIDE DEF beat
  <2> QED
    BY <1>1, <2>1, <2>2, RestType DEF Typed, TypeOK
<1>7. /\ status' \in [Workers -> {"up", "stopping", "down"}]
      /\ registered' \in [Workers -> BOOLEAN] /\ faults' \in Nat
  BY <1>1 DEF Typed, TypeOK
<1>8. BeatsUp'
  BY <1>1, <1>4 DEF Typed, TypeOK, BeatsUp
<1> QED
  BY <1>1, <1>3, <1>5, <1>6, <1>7, <1>8, RestTyped

(* The process stops, goes down, loses its registration or comes back.     *)
LEMMA ProcessTyped ==
    ASSUME Typed, Grown, NEW w \in Workers,
           Stop(w) \/ Stopped(w) \/ Unregister(w) \/ Restart(w)
    PROVE  Typed' /\ RunsKept
<1>1. /\ UNCHANGED <<takers, inflight, cancelling, deployment, faults>>
      /\ RunsKept
  BY DEF Stop, Stopped, Unregister, Restart, Intervention, bounds, RunsKept
<1>2. \/ UNCHANGED status
      \/ /\ \/ status' = [status EXCEPT ![w] = "stopping"]
            \/ status' = [status EXCEPT ![w] = "up"]
            \/ /\ status' = [status EXCEPT ![w] = "down"]
               /\ \A s \in Slots : takers[w][s] = Idle
  BY DEF Stop, Stopped, Unregister, Restart
<1>3. status' \in [Workers -> {"up", "stopping", "down"}]
  BY <1>2 DEF Typed, TypeOK
<1>4. registered' \in [Workers -> BOOLEAN]
  BY DEF Typed, TypeOK, Stop, Stopped, Unregister, Restart
<1>5. beats' = beats \/ beats' = [beats EXCEPT ![w] = NoBeat]
  BY DEF Stop, Stopped, Unregister, Restart
<1>6. beats' \in [Workers -> Beat]
  BY <1>5, RestType DEF Typed, TypeOK
<1>7. BeatsUp'
  <2>1. CASE Stop(w)
    BY <2>1 DEF Stop, Typed, TypeOK, BeatsUp
  <2>2. CASE Stopped(w)
    BY <2>2 DEF Stopped, Typed, TypeOK, BeatsUp
  <2>3. CASE Unregister(w)
    BY <2>3 DEF Unregister, Typed, TypeOK, BeatsUp
  <2>4. CASE Restart(w)
    BY <2>4 DEF Restart, Typed, TypeOK, BeatsUp
  <2> QED
    BY <2>1, <2>2, <2>3, <2>4
<1>8. /\ takers' \in [Workers -> [Slots -> Run]]
      /\ inflight' \in [Workers -> [JobIds -> Flight \cup {None}]]
      /\ cancelling' \in [Workers -> SUBSET JobIds] /\ faults' \in Nat
  BY <1>1 DEF Typed, TypeOK
<1>9. \A v \in Workers, s \in Slots :
         /\ takers'[v][s].outcome = takers[v][s].outcome
         /\ status'[v] = "down" => takers'[v][s] = Idle
  BY <1>1, <1>2 DEF Typed, TypeOK
<1> QED
  BY <1>1, <1>3, <1>4, <1>6, <1>7, <1>8, <1>9, RestTyped

(* A crash takes the process's state with it.                              *)
LEMMA CrashTyped ==
    ASSUME Typed, Grown, NEW w \in Workers, Crash(w)
    PROVE  Typed'
<1>1. /\ status' = [status EXCEPT ![w] = "down"]
      /\ takers' = [takers EXCEPT ![w] = [s \in Slots |-> Idle]]
      /\ inflight' = [inflight EXCEPT ![w] = NoFlights]
      /\ cancelling' = [cancelling EXCEPT ![w] = {}]
      /\ beats' = [beats EXCEPT ![w] = NoBeat]
      /\ faults' = faults + 1 /\ UNCHANGED <<registered, deployment>>
  BY DEF Crash, Fault
<1>2. [s \in Slots |-> Idle] \in [Slots -> Run]
  BY RestType
<1>3. \A v \in Workers, s \in Slots :
         \/ takers'[v][s] = Idle
         \/ takers'[v][s] = takers[v][s] /\ status'[v] = status[v]
  BY <1>1 DEF Typed, TypeOK
<1>4. TypeOK'
  <2>1. /\ status' \in [Workers -> {"up", "stopping", "down"}]
        /\ registered' \in [Workers -> BOOLEAN]
        /\ takers' \in [Workers -> [Slots -> Run]]
        /\ cancelling' \in [Workers -> SUBSET JobIds]
    BY <1>1, <1>2 DEF Typed, TypeOK
  <2>2. /\ inflight' \in [Workers -> [JobIds -> Flight \cup {None}]]
        /\ beats' \in [Workers -> Beat]
        /\ deployment' \in Deployment
    BY <1>1, RestType DEF Typed, TypeOK
  <2>3. ASSUME NEW v \in Workers, NEW s \in Slots
        PROVE  /\ takers'[v][s].outcome # None <=> takers'[v][s].stage = "ack"
               /\ status'[v] = "down" => takers'[v][s] = Idle
    <3>1. CASE takers'[v][s] = Idle
      BY <3>1, RestType
    <3>2. CASE takers'[v][s] = takers[v][s] /\ status'[v] = status[v]
      <4>1. /\ takers[v][s].outcome # None <=> takers[v][s].stage = "ack"
            /\ status[v] = "down" => takers[v][s] = Idle
        BY DEF Typed, TypeOK
      <4> QED
        BY <3>2, <4>1
    <3> QED
      BY <1>3, <3>1, <3>2
  <2> QED
    BY <2>1, <2>2, <2>3 DEF TypeOK
<1>5. RunsKnown'
  <2>1. \A v \in Workers, s \in Slots :
           takers'[v][s].stage # "idle" => takers'[v][s] = takers[v][s]
    BY <1>3, RestType
  <2> QED
    BY <1>1, <2>1 DEF Typed, RunsKnown, Grown
<1>6. BeatsUp'
  BY <1>1 DEF Typed, TypeOK, BeatsUp
<1> QED
  BY <1>1, <1>4, <1>5, <1>6 DEF Typed

(* The store's own steps.                                                  *)
LEMMA StoreOnlyTyped ==
    ASSUME Typed, Grown, StoreOnly, faults' \in Nat
    PROVE  Typed'
<1>1. /\ registered' \in [Workers -> BOOLEAN]
      /\ beats' \in [Workers -> Beat] /\ BeatsUp'
      /\ UNCHANGED <<status, takers, inflight, cancelling, deployment>>
  BY DEF StoreOnly, workerVars, Typed, TypeOK, BeatsUp
<1> QED
  BY <1>1, BooksUntouchedTyped

(* Faults are counted.                                                     *)
LEMMA FaultsCounted ==
    ASSUME [Next]_vars, faults \in Nat
    PROVE  faults' = faults \/ faults' = faults + 1
BY DEF Next, vars, bounds, BeatReplies, BeatApplies, BeatExtends, BeatBegins,
       TakerNext, TakerClaims, TakerStarts, TakerAcks, RunEnds, Environment,
       Enqueue, Cancel, Retry, Intervention, Stop, Stopped, Unregister,
       Restart, Crash, AckDropped, ClaimLost, Fault, Recover, Tick

(* The types are kept.                                                     *)
LEMMA TypedStep ==
    ASSUME StoreInv, Typed, [Next]_vars
    PROVE  Typed'
<1>1. Grown /\ ST!TypeOK
  BY TokensGrow DEF StoreInv
<1>2. faults' \in Nat
  BY FaultsCounted DEF Typed
<1>3. CASE TakerStep
  BY <1>1, <1>3, TakerClaimsTyped, TakerStartsTyped, TakerRestsTyped,
     RunEndsTyped DEF TakerStep
<1>4. CASE BeatStep
  BY <1>1, <1>4, BeatBeginsTyped, BeatAppliesTyped, BeatExtendsTyped
     DEF BeatStep
<1>5. CASE ProcessStep
  BY <1>1, <1>5, ProcessTyped, CrashTyped DEF ProcessStep
<1>6. CASE StoreOnly
  BY <1>1, <1>2, <1>6, StoreOnlyTyped
<1> QED
  BY <1>3, <1>4, <1>5, <1>6, Steps

(* Everybody is up and idle on an empty store.                             *)
LEMMA InitTyped == Init => StoreInv /\ Typed
<1> SUFFICES ASSUME Init PROVE StoreInv /\ Typed
  OBVIOUS
<1>1. ST!Init
  BY DEF Init, ST!Init, ST!NoRows, ST!DedupeMapKeys
<1>2. StoreInv
  BY <1>1, ST!TypeInit, ST!LockInit, StoreConstants, StoreNone, StoreRequests
     DEF StoreInv
<1>3. TypeOK
  BY ConstantsAssumption, RestType DEF Init, TypeOK
<1>4. RunsKnown /\ BeatsUp /\ faults \in Nat
  BY RestType DEF Init, RunsKnown, BeatsUp
<1> QED
  BY <1>2, <1>3, <1>4 DEF Typed

(* The workers' state keeps its type, whatever their number, deployment    *)
(* and faults; an outcome is there exactly while it is being acked, and a  *)
(* worker that is down has no state.                                       *)
THEOREM TypeCorrect == Spec => []TypeOK
<1>1. Init => StoreInv /\ Typed
  BY InitTyped
<1>2. StoreInv /\ Typed /\ [Next]_vars => StoreInv' /\ Typed'
  BY StoreStep, TypedStep
<1>3. Typed => TypeOK
  BY DEF Typed
<1> QED
  BY <1>1, <1>2, <1>3, PTL DEF Spec

(* Whatever the workers do with it, the store runs as its own              *)
(* specification says, so what is proved of the store's locks, retries and *)
(* cancels holds of the store the workers share.                           *)
THEOREM StoreOfWorkers == Spec => ST!Spec
<1>1. Init => StoreInv /\ Typed /\ ST!Init
  <2>1. Init => ST!Init
    BY DEF Init, ST!Init, ST!NoRows, ST!DedupeMapKeys
  <2> QED
    BY <2>1, InitTyped
<1>2. StoreInv /\ Typed /\ [Next]_vars =>
         StoreInv' /\ Typed' /\ [ST!Next]_(ST!vars)
  BY StoreStep, TypedStep, StoreUse
<1> QED
  BY <1>1, <1>2, PTL DEF Spec, ST!Spec

-----------------------------------------------------------------------------
(* The books                                                               *)

\* A flight is a handler that runs under its token.
FlightInOrder(w, id) ==
    inflight[w][id] # None =>
        /\ takers[w][inflight[w][id].slot].stage = "running"
        /\ Runs(w, inflight[w][id].slot, id, inflight[w][id].token)

\* A handler interrupted for a mark has not ended.
MarkInOrder(w, id) ==
    id \in cancelling[w] =>
        \E s \in Slots : /\ takers[w][s].stage = "running"
                         /\ takers[w][s].job = id
                         /\ takers[w][s].interrupted

(* BooksInOrder, book by book; a flight names a taker.                     *)
LEMMA BooksParts ==
    ASSUME Typed, BooksInOrder, NEW w \in Workers, NEW id \in JobIds
    PROVE  /\ FlightInOrder(w, id) /\ MarkInOrder(w, id)
           /\ inflight[w][id] # None => inflight[w][id].slot \in Slots
<1>1. FlightInOrder(w, id) /\ MarkInOrder(w, id)
  BY DEF BooksInOrder, FlightInOrder, MarkInOrder
<1>2. inflight[w][id] # None => inflight[w][id] \in Flight
  BY DEF Typed, TypeOK
<1> QED
  BY <1>1, <1>2 DEF Flight

(* The books are in order when each of them is.                            *)
LEMMA BooksWhole ==
    ASSUME \A w \in Workers, id \in JobIds :
              FlightInOrder(w, id)' /\ MarkInOrder(w, id)'
    PROVE  BooksInOrder'
BY DEF BooksInOrder, FlightInOrder, MarkInOrder

(* A taker that runs no handler moves on: the books say nothing of it.     *)
LEMMA RestingTakerBooks ==
    ASSUME Typed, Typed', BooksInOrder,
           NEW w \in Workers, NEW s \in Slots, NEW run, SetTaker(w, s, run),
           takers[w][s].stage # "running", UNCHANGED <<inflight, cancelling>>
    PROVE  BooksInOrder'
<1>1. \A v \in Workers, u \in Slots :
         takers[v][u].stage = "running" => takers'[v][u] = takers[v][u]
  BY SetTakerIs
<1>2. ASSUME NEW v \in Workers, NEW id \in JobIds
      PROVE  FlightInOrder(v, id)' /\ MarkInOrder(v, id)'
  <2>1. FlightInOrder(v, id) /\ MarkInOrder(v, id)
          /\ (inflight[v][id] # None => inflight[v][id].slot \in Slots)
    BY BooksParts
  <2>2. FlightInOrder(v, id)'
    BY <1>1, <2>1 DEF FlightInOrder, Runs
  <2>3. MarkInOrder(v, id)'
    BY <1>1, <2>1 DEF MarkInOrder
  <2> QED
    BY <2>2, <2>3
<1> QED
  BY <1>2, BooksWhole

(* A handler is put in flight.                                             *)
LEMMA TakerStartsBooks ==
    ASSUME Typed, Typed', BooksInOrder, NEW w \in Workers, NEW s \in Slots,
           TakerStarts(w, s)
    PROVE  BooksInOrder'
<1> DEFINE run == takers[w][s]
           next == [run EXCEPT !.stage = "running"]
           flight == [token |-> run.token, slot |-> s]
<1>1. run.stage = "claimed" /\ run \in Run /\ run.job \in JobIds
  BY DEF TakerStarts, Typed, TypeOK, RunsKnown
<1>2. CASE registered[w]
  <2>1. /\ inflight' = [inflight EXCEPT ![w][run.job] = flight]
        /\ SetTaker(w, s, next) /\ cancelling' = cancelling
    BY <1>2 DEF TakerStarts
  <2>2. /\ \A v \in Workers, u \in Slots :
              takers[v][u].stage = "running" => takers'[v][u] = takers[v][u]
        /\ takers'[w][s] = next
    BY <1>1, <2>1, SetTakerIs
  <2>3. next.stage = "running" /\ next.job = run.job /\ next.token = run.token
    BY <1>1 DEF Run
  <2>4. flight.slot = s /\ flight.token = run.token
    OBVIOUS
  <2> HIDE DEF next, flight
  <2>5. ASSUME NEW v \in Workers, NEW id \in JobIds
        PROVE  FlightInOrder(v, id)' /\ MarkInOrder(v, id)'
    <3>1. FlightInOrder(v, id) /\ MarkInOrder(v, id)
            /\ (inflight[v][id] # None => inflight[v][id].slot \in Slots)
      BY BooksParts
    <3>2. CASE v = w /\ id = run.job
      <4>1. inflight'[v][id] = flight
        BY <1>1, <2>1, <3>2 DEF Typed, TypeOK
      <4> QED
        BY <2>2, <2>3, <2>4, <3>1, <3>2, <4>1, <2>1
           DEF FlightInOrder, MarkInOrder, Runs
    <3>3. CASE ~(v = w /\ id = run.job)
      <4>1. inflight'[v][id] = inflight[v][id]
        BY <1>1, <2>1, <3>3 DEF Typed, TypeOK
      <4> QED
        BY <2>1, <2>2, <3>1, <4>1 DEF FlightInOrder, MarkInOrder, Runs
    <3> QED
      BY <3>2, <3>3
  <2> QED
    BY <2>5, BooksWhole
<1>3. CASE ~registered[w]
  <2>1. /\ UNCHANGED <<inflight, cancelling>>
        /\ SetTaker(w, s, [run EXCEPT !.stage = "ack", !.outcome = "release"])
    BY <1>3 DEF TakerStarts
  <2> QED
    BY <1>1, <2>1, RestingTakerBooks
<1> QED
  BY <1>2, <1>3

(* A run that ended leaves the books: no flight and no mark is left of it, *)
(* and those of other jobs are about other takers.                         *)
LEMMA RunEndsBooks ==
    ASSUME Typed, Typed', BooksInOrder, NEW w \in Workers, NEW s \in Slots,
           NEW exit, RunEnds(w, s, exit)
    PROVE  BooksInOrder'
<1> DEFINE run == takers[w][s]
<1>1. PICK next : SetTaker(w, s, next)
  BY DEF RunEnds
<1>2. /\ inflight' = [inflight EXCEPT ![w][run.job] = None]
      /\ cancelling' = [cancelling EXCEPT ![w] = @ \ {run.job}]
      /\ run.stage = "running" /\ run.job \in JobIds
  BY DEF RunEnds, Typed, RunsKnown
<1>3. \A v \in Workers, u \in Slots :
         ~(v = w /\ u = s) => takers'[v][u] = takers[v][u]
  BY <1>1, SetTakerIs
<1>4. ASSUME NEW v \in Workers, NEW id \in JobIds
      PROVE  FlightInOrder(v, id)' /\ MarkInOrder(v, id)'
  <2>1. FlightInOrder(v, id) /\ MarkInOrder(v, id)
          /\ (inflight[v][id] # None => inflight[v][id].slot \in Slots)
    BY BooksParts
  <2>2. CASE v = w /\ id = run.job
    <3>1. inflight'[v][id] = None /\ id \notin cancelling'[v]
      BY <1>2, <2>2 DEF Typed, TypeOK
    <3> QED
      BY <3>1 DEF FlightInOrder, MarkInOrder
  <2>3. CASE ~(v = w /\ id = run.job)
    <3>1. inflight'[v][id] = inflight[v][id]
            /\ (id \in cancelling'[v] => id \in cancelling[v])
      BY <1>2, <2>3 DEF Typed, TypeOK
    <3>2. \A u \in Slots :
             takers[v][u].stage = "running" /\ takers[v][u].job = id =>
                 takers'[v][u] = takers[v][u]
      BY <1>3, <2>3
    <3> QED
      BY <2>1, <3>1, <3>2 DEF FlightInOrder, MarkInOrder, Runs
  <2> QED
    BY <2>2, <2>3
<1> QED
  BY <1>4, BooksWhole

(* A heartbeat's result marks only jobs whose handler it interrupts.       *)
LEMMA BeatAppliesBooks ==
    ASSUME Typed, Typed', Grown, BooksInOrder, NEW w \in Workers,
           BeatApplies(w)
    PROVE  BooksInOrder'
<1> DEFINE beat == beats[w]
           hit(s) == \E id \in Delivered(w, beat) :
                        inflight[w][id] # None /\ inflight[w][id].slot = s
           next == [s \in Slots |->
                      IF hit(s) THEN [takers[w][s] EXCEPT !.interrupted = TRUE]
                      ELSE takers[w][s]]
<1>1. /\ takers' = [takers EXCEPT ![w] = next]
      /\ inflight' = [inflight EXCEPT ![w] = KeptFlights(w, beat)]
      /\ cancelling' = [cancelling EXCEPT ![w] = @ \cup Delivered(w, beat)]
  BY DEF BeatApplies
<1>2. RunsKept
  BY BeatAppliesTyped
<1>3. ASSUME NEW v \in Workers, NEW id \in JobIds
      PROVE  FlightInOrder(v, id)'
  <2>1. FlightInOrder(v, id)
          /\ (inflight[v][id] # None => inflight[v][id].slot \in Slots)
    BY BooksParts
  <2>2. inflight'[v][id] # None => inflight'[v][id] = inflight[v][id]
    BY <1>1 DEF KeptFlights, Typed, TypeOK
  <2> QED
    BY <1>2, <2>1, <2>2 DEF FlightInOrder, RunsKept, Runs
<1>4. ASSUME NEW v \in Workers, NEW u \in Slots
      PROVE  /\ takers[v][u].interrupted => takers'[v][u].interrupted
             /\ v = w /\ hit(u) => takers'[v][u].interrupted
  <2>1. takers[v][u] \in Run
    BY DEF Typed, TypeOK
  <2> HIDE DEF hit
  <2>2. CASE v = w
    <3>1. takers'[v][u] = next[u]
      BY <1>1, <2>2 DEF Typed, TypeOK
    <3> QED
      BY <2>1, <2>2, <3>1 DEF Run
  <2>3. CASE v # w
    BY <1>1, <2>3 DEF Typed, TypeOK
  <2> QED
    BY <2>2, <2>3
<1>5. ASSUME NEW v \in Workers, NEW id \in JobIds
      PROVE  MarkInOrder(v, id)'
  <2>1. MarkInOrder(v, id) /\ FlightInOrder(v, id)
          /\ (inflight[v][id] # None => inflight[v][id].slot \in Slots)
    BY BooksParts
  <2>2. CASE id \in cancelling[v]
    BY <1>2, <1>4, <2>1, <2>2 DEF MarkInOrder, RunsKept
  <2>3. CASE v = w /\ id \in Delivered(w, beat)
    <3> DEFINE u == inflight[w][id].slot
    <3>1. inflight[w][id] # None
      BY <2>3 DEF Delivered
    <3>2. u \in Slots /\ takers[w][u].stage = "running" /\ takers[w][u].job = id
      BY <2>1, <2>3, <3>1 DEF FlightInOrder, Runs
    <3>3. hit(u)
      BY <2>3, <3>1
    <3> HIDE DEF hit, u
    <3> QED
      BY <1>2, <1>4, <2>3, <3>2, <3>3 DEF MarkInOrder, RunsKept
  <2>4. CASE ~(id \in cancelling[v]) /\ ~(v = w /\ id \in Delivered(w, beat))
    <3>1. id \notin cancelling'[v]
      BY <1>1, <2>4 DEF Typed, TypeOK
    <3> QED
      BY <3>1 DEF MarkInOrder
  <2> QED
    BY <2>2, <2>3, <2>4
<1> QED
  BY <1>3, <1>5, BooksWhole

(* Runs and books untouched.                                               *)
LEMMA UntouchedBooks ==
    ASSUME BooksInOrder, UNCHANGED <<takers, inflight, cancelling>>
    PROVE  BooksInOrder'
BY DEF BooksInOrder, Runs

(* A crash empties the books.                                              *)
LEMMA CrashBooks ==
    ASSUME Typed, Typed', BooksInOrder, NEW w \in Workers, Crash(w)
    PROVE  BooksInOrder'
<1>1. ASSUME NEW v \in Workers, NEW id \in JobIds
      PROVE  FlightInOrder(v, id)' /\ MarkInOrder(v, id)'
  <2>1. CASE v = w
    <3>1. inflight'[v][id] = None /\ id \notin cancelling'[v]
      BY <2>1 DEF Crash, NoFlights, Typed, TypeOK
    <3> QED
      BY <3>1 DEF FlightInOrder, MarkInOrder
  <2>2. CASE v # w
    <3>1. /\ inflight'[v] = inflight[v] /\ cancelling'[v] = cancelling[v]
          /\ takers'[v] = takers[v]
      BY <2>2 DEF Crash, Typed, TypeOK
    <3>2. FlightInOrder(v, id) /\ MarkInOrder(v, id)
            /\ (inflight[v][id] # None => inflight[v][id].slot \in Slots)
      BY BooksParts
    <3> QED
      BY <3>1, <3>2 DEF FlightInOrder, MarkInOrder, Runs
  <2> QED
    BY <2>1, <2>2
<1> QED
  BY <1>1, BooksWhole

(* Every step keeps the books in order.                                    *)
LEMMA BooksStep ==
    ASSUME Typed, Typed', Grown, BooksInOrder, [Next]_vars
    PROVE  BooksInOrder'
<1>1. CASE TakerStep
  <2>1. ASSUME NEW w \in Workers, NEW s \in Slots, TakerClaims(w, s)
        PROVE  BooksInOrder'
    BY <2>1, RestingTakerBooks, RestType DEF TakerClaims
  <2>2. ASSUME NEW w \in Workers, NEW s \in Slots,
               TakerAcks(w, s) \/ AckDropped(w, s)
        PROVE  BooksInOrder'
    BY <2>2, RestingTakerBooks DEF TakerAcks, AckDropped
  <2> QED
    BY <1>1, <2>1, <2>2, TakerStartsBooks, RunEndsBooks DEF TakerStep
<1>2. CASE BeatStep
  BY <1>2, BeatAppliesBooks, UntouchedBooks
     DEF BeatStep, BeatBegins, BeatExtends
<1>3. CASE ProcessStep
  BY <1>3, CrashBooks, UntouchedBooks
     DEF ProcessStep, Stop, Stopped, Unregister, Restart
<1>4. CASE StoreOnly
  BY <1>4, UntouchedBooks DEF StoreOnly, workerVars
<1> QED
  BY <1>1, <1>2, <1>3, <1>4, Steps

(* Books that are about runs the worker has, for every way to interleave   *)
(* takers, the heartbeat, shutdowns and crashes: every flight is a handler *)
(* that runs under that token, and no mark outlives the handler that was   *)
(* interrupted for it.                                                     *)
THEOREM BooksCorrect == Spec => []BooksInOrder
<1>1. Init => StoreInv /\ Typed /\ BooksInOrder
  BY InitTyped DEF Init, BooksInOrder, NoFlights
<1>2. StoreInv /\ Typed /\ BooksInOrder /\ [Next]_vars =>
         StoreInv' /\ Typed' /\ BooksInOrder'
  BY StoreStep, TypedStep, BooksStep, TokensGrow
<1> QED
  BY <1>1, <1>2, PTL DEF Spec

-----------------------------------------------------------------------------
(* Nobody is left behind                                                   *)

(* Only a claim hands out a token; a claim whose reply is lost is a fault. *)
LEMMA TokenSteps ==
    ASSUME Typed, [Next]_vars
    PROVE  \/ lastToken' = lastToken
           \/ \E w \in Workers, s \in Slots : TakerClaims(w, s)
           \/ faults' # 0
<1>1. CASE UNCHANGED storeVars
  BY <1>1 DEF storeVars
<1>2. ASSUME NEW id \in JobIds, Enqueue(id) \/ Cancel(id) \/ Retry(id)
      PROVE  lastToken' = lastToken
  BY <1>2 DEF Enqueue, Cancel, Retry, S!Enqueue, S!Cancel, S!Retry
<1>3. ASSUME NEW w \in Workers, NEW s \in Slots, TakerAcks(w, s)
      PROVE  lastToken' = lastToken
  BY <1>3 DEF TakerAcks, S!Release, S!AckRetry, S!AckTerminal, storeVars
<1>4. ASSUME NEW w \in Workers, NEW lock \in Locks, BeatExtends(w, lock)
      PROVE  lastToken' = lastToken
  BY <1>4 DEF BeatExtends, S!ExtendLocks, storeVars
<1>5. ASSUME NEW w \in Workers, NEW s \in Slots,
             \/ TakerStarts(w, s) \/ AckDropped(w, s)
             \/ \E exit \in Exits : RunEnds(w, s, exit)
      PROVE  UNCHANGED storeVars
  BY <1>5 DEF TakerStarts, AckDropped, RunEnds
<1>6. ASSUME NEW w \in Workers, BeatBegins(w) \/ BeatApplies(w)
      PROVE  UNCHANGED storeVars
  BY <1>6 DEF BeatBegins, BeatApplies
<1>7. ASSUME NEW w \in Workers,
             Stop(w) \/ Stopped(w) \/ Unregister(w) \/ Restart(w) \/ Crash(w)
      PROVE  UNCHANGED storeVars
  BY <1>7 DEF Stop, Stopped, Unregister, Restart, Crash
<1>8. ASSUME NEW w \in Workers, NEW s \in Slots, ClaimLost(w, s)
      PROVE  faults' # 0
  BY <1>8 DEF ClaimLost, Fault, Typed
<1>9. CASE Recover \/ Tick
  BY <1>9 DEF Recover, Tick, S!RecoverStalled
<1>10. CASE \E w \in Workers : BeatReplies(w)
  BY <1>1, <1>4, <1>6, <1>10 DEF BeatReplies
<1>11. CASE \E w \in Workers : BeatBegins(w) \/ \E s \in Slots : TakerNext(w, s)
  BY <1>1, <1>3, <1>5, <1>6, <1>11 DEF TakerNext
<1>12. CASE Environment
  BY <1>1, <1>2, <1>5, <1>7, <1>8, <1>9, <1>12 DEF Environment
<1> QED
  BY <1>1, <1>10, <1>11, <1>12 DEF Next, vars

(* Without a claim, locks are kept or given up.                            *)
LEMMA NoClaim ==
    ASSUME StoreInv, Typed, [Next]_vars, lastToken' = lastToken
    PROVE  ST!LockStep
<1>1. ST!LockStep \/ ST!ClaimStep
  BY StoreUse, ST!LockEffects, StoreConstants, StoreNone, StoreRequests
     DEF StoreInv
<1> QED
  BY <1>1 DEF ST!ClaimStep, StoreInv, ST!TypeOK

(* A lock that is kept was there before, under the same token, and a       *)
(* cancel request on it stays.                                             *)
LEMMA KeptLock ==
    ASSUME StoreInv, NEW id \in JobIds, ST!LockEffect(jobs[id], jobs'[id]),
           jobs'[id] # None, jobs'[id].state = "active"
    PROVE  /\ jobs[id] # None /\ jobs[id].state = "active"
           /\ jobs[id].lockToken = jobs'[id].lockToken
           /\ jobs[id].lockToken \in Nat /\ jobs[id].lockToken <= lastToken
           /\ jobs[id].cancelRequested => jobs'[id].cancelRequested
<1>1. /\ jobs[id] # None /\ jobs[id].state = "active"
      /\ jobs[id].lockToken = jobs'[id].lockToken
      /\ jobs[id].cancelRequested => jobs'[id].cancelRequested
  BY DEF ST!LockEffect, ST!Releases, ST!Unlocked, ST!KeepsLock
<1>2. ST!Held(id, jobs[id].lockToken)
  BY <1>1 DEF ST!Held, ST!Has
<1> QED
  BY <1>1, <1>2, HeldToken

(* A claim locks one job, the one its taker goes on with.                  *)
LEMMA ClaimedIs ==
    ASSUME StoreInv, NEW id \in JobIds, jobs'[id] # None, ClaimedNow(id),
           S!Claim("work", {"job"}, LockMs)
    PROVE  /\ lastToken' = lastToken + 1
           /\ \A i \in JobIds \ {id} : ST!LockEffect(jobs[i], jobs'[i])
<1>1. ST!ClaimStep
  <2>1. ST!Claim("work", {"job"}, LockMs) /\ LockMs \in {1}
    BY ClaimSame DEF LockMs
  <2> QED
    BY <2>1, ST!ClaimLock, StoreConstants, StoreNone, StoreRequests
       DEF StoreInv
<1>2. PICK best \in JobIds :
          /\ lastToken' = lastToken + 1
          /\ \A i \in JobIds \ {best} : ST!LockEffect(jobs[i], jobs'[i])
  BY <1>1 DEF ST!ClaimStep
<1>3. CASE id # best
  <2>1. ST!LockEffect(jobs[id], jobs'[id])
    BY <1>2, <1>3
  <2>2. lastToken \in Nat /\ jobs'[id].lockToken = lastToken + 1
    BY <1>2 DEF ClaimedNow, StoreInv, ST!TypeOK
  <2>3. jobs'[id].lockToken # None
    BY <2>2, NoneAssumption
  <2>4. jobs[id] # None /\ jobs[id].lockToken = jobs'[id].lockToken
    BY <2>1, <2>3 DEF ST!LockEffect, ST!Releases, ST!Unlocked, ST!KeepsLock
  <2>5. jobs[id].lockToken <= lastToken
    BY <2>3, <2>4 DEF StoreInv, ST!LockInv, ST!TokensIssued, ST!Has
  <2> QED
    BY <2>2, <2>4, <2>5
<1> QED
  BY <1>2, <1>3

(* Locks are kept or given up, and no run that holds one goes away.        *)
LEMMA AttendedKept ==
    ASSUME StoreInv, Attended, ST!LockStep, faults' = 0 => faults = 0,
           \A w \in Workers, s \in Slots :
              LET run == takers[w][s]
              IN  \/ /\ takers'[w][s].job = run.job
                     /\ takers'[w][s].token = run.token
                  \/ ~ST!Held(run.job, run.token)
                  \/ ST!RunOver(run.job)
    PROVE  Attended'
<1> SUFFICES ASSUME NEW id \in JobIds, faults' = 0, jobs'[id] # None,
                    jobs'[id].state = "active"
             PROVE  \E w \in Workers, s \in Slots :
                       Runs(w, s, id, jobs[id].lockToken)'
  BY DEF Attended
<1>1. /\ jobs[id] # None /\ jobs[id].state = "active"
      /\ jobs[id].lockToken = jobs'[id].lockToken
  BY KeptLock DEF ST!LockStep
<1>2. PICK w \in Workers, s \in Slots : Runs(w, s, id, jobs[id].lockToken)
  BY <1>1 DEF Attended
<1>3. ST!Held(id, jobs[id].lockToken) /\ ~ST!RunOver(id)
  BY <1>1 DEF ST!Held, ST!Has, ST!RunOver
<1>4. Runs(w, s, id, jobs[id].lockToken)'
  BY <1>1, <1>2, <1>3 DEF Runs
<1> QED
  BY <1>4

(* The taker of a claim attends to the claimed job.                        *)
LEMMA TakerClaimsAttended ==
    ASSUME StoreInv, Typed, Attended, NEW w \in Workers, NEW s \in Slots,
           TakerClaims(w, s)
    PROVE  Attended'
<1>1. PICK id \in JobIds :
          /\ jobs'[id] # None /\ ClaimedNow(id)
          /\ SetTaker(w, s, [Idle EXCEPT !.stage = "claimed", !.job = id,
                                         !.token = lastToken'])
  BY DEF TakerClaims
<1> DEFINE run == [Idle EXCEPT !.stage = "claimed", !.job = id,
                               !.token = lastToken']
<1>2. \A v \in Workers, u \in Slots :
         takers'[v][u] = IF v = w /\ u = s THEN run ELSE takers[v][u]
  BY <1>1, SetTakerIs
<1>3. run.job = id /\ run.token = lastToken'
  BY DEF Idle
<1> HIDE DEF run
<1>4. \A i \in JobIds \ {id} : ST!LockEffect(jobs[i], jobs'[i])
  BY <1>1, ClaimedIs DEF TakerClaims
<1>5. ASSUME NEW i \in JobIds, faults = 0, jobs'[i] # None,
             jobs'[i].state = "active"
      PROVE  \E v \in Workers, u \in Slots :
                takers'[v][u].job = i
                  /\ takers'[v][u].token = jobs'[i].lockToken
  <2>1. CASE i = id
    BY <1>1, <1>2, <1>3, <2>1 DEF ClaimedNow
  <2>2. CASE i # id
    <3>1. /\ jobs[i] # None /\ jobs[i].state = "active"
          /\ jobs[i].lockToken = jobs'[i].lockToken
      BY <1>4, <1>5, <2>2, KeptLock
    <3>2. PICK v \in Workers, u \in Slots : Runs(v, u, i, jobs[i].lockToken)
      BY <1>5, <3>1 DEF Attended
    <3>3. ~(v = w /\ u = s)
      BY <3>2, NoneAssumption DEF Runs, TakerClaims, Idle
    <3> QED
      BY <1>2, <3>1, <3>2, <3>3 DEF Runs
  <2> QED
    BY <2>1, <2>2
<1>6. faults' = faults
  BY DEF TakerClaims, bounds
<1> QED
  BY <1>5, <1>6 DEF Attended, Runs

(* An ack ends the run whose lock it gives up.                             *)
LEMMA TakerAcksEnds ==
    ASSUME StoreInv, Typed, NEW w \in Workers, NEW s \in Slots,
           TakerAcks(w, s), ST!Held(takers[w][s].job, takers[w][s].token)
    PROVE  ST!RunOver(takers[w][s].job)
<1> DEFINE id == takers[w][s].job
           token == takers[w][s].token
<1>1. id \in JobIds
  BY DEF TakerAcks, Typed, RunsKnown
<1>2. ASSUME ST!Release(id, token)
      PROVE  ST!RunOver(id)
  BY <1>1, <1>2, ST!ReleaseEnds, StoreConstants, StoreNone, StoreRequests
     DEF StoreInv
<1>3. ASSUME ST!AckRetry(id, token, 0)
      PROVE  ST!RunOver(id)
  BY <1>1, <1>3, ST!AckRetryEnds, StoreConstants, StoreNone, StoreRequests
     DEF StoreInv
<1>4. ASSUME NEW state \in {"completed", "failed", "cancelled"},
             NEW exit \in BOOLEAN, ST!AckTerminal(id, token, state, exit)
      PROVE  ST!RunOver(id)
  BY <1>1, <1>4, ST!AckTerminalEnds, StoreConstants, StoreNone, StoreRequests
     DEF StoreInv, ST!TerminalStates
<1> QED
  BY <1>2, <1>3, <1>4, HeldSame, ReleaseSame, AckRetrySame, AckTerminalSame
     DEF TakerAcks

(* Every step leaves every locked job with a run, but for a fault.         *)
LEMMA AttendedStep ==
    ASSUME StoreInv, Typed, Typed', Attended, [Next]_vars
    PROVE  Attended'
<1>1. CASE faults' # 0
  BY <1>1 DEF Attended
<1>2. CASE \E w \in Workers, s \in Slots : TakerClaims(w, s)
  BY <1>2, TakerClaimsAttended
<1>3. CASE faults' = 0 /\ lastToken' = lastToken
  <2>1. ST!LockStep /\ faults = 0
    BY <1>3, NoClaim, FaultsCounted DEF Typed
  <2>2. CASE RunsKept
    BY <2>1, <2>2, AttendedKept DEF RunsKept
  <2>3. ASSUME NEW w \in Workers, NEW s \in Slots, TakerAcks(w, s)
        PROVE  Attended'
    <3>1. \A v \in Workers, u \in Slots :
             takers'[v][u] = IF v = w /\ u = s THEN Idle ELSE takers[v][u]
      BY <2>3, SetTakerIs DEF TakerAcks
    <3>2. \/ ~ST!Held(takers[w][s].job, takers[w][s].token)
          \/ ST!RunOver(takers[w][s].job)
      BY <2>3, TakerAcksEnds
    <3> QED
      BY <2>1, <3>1, <3>2, AttendedKept
  <2>4. ASSUME NEW w \in Workers, NEW s \in Slots,
               TakerStarts(w, s) \/ \E exit \in Exits : RunEnds(w, s, exit)
        PROVE  Attended'
    <3>1. takers[w][s] \in Run
      BY DEF Typed, TypeOK
    <3>2. PICK stage, outcome :
              SetTaker(w, s, [takers[w][s] EXCEPT !.stage = stage,
                                                  !.outcome = outcome])
      <4>1. CASE TakerStarts(w, s) /\ registered[w]
        <5>1. [takers[w][s] EXCEPT !.stage = "running"] =
                 [takers[w][s] EXCEPT !.stage = "running",
                                      !.outcome = takers[w][s].outcome]
          BY <3>1 DEF Run
        <5> QED
          BY <4>1, <5>1 DEF TakerStarts
      <4> QED
        BY <2>4, <4>1 DEF TakerStarts, RunEnds
    <3>3. \A v \in Workers, u \in Slots :
             /\ takers'[v][u].job = takers[v][u].job
             /\ takers'[v][u].token = takers[v][u].token
      <4> DEFINE next == [takers[w][s] EXCEPT !.stage = stage,
                                              !.outcome = outcome]
      <4>1. next.job = takers[w][s].job /\ next.token = takers[w][s].token
        BY <3>1 DEF Run
      <4>2. \A v \in Workers, u \in Slots :
               takers'[v][u] = IF v = w /\ u = s THEN next ELSE takers[v][u]
        BY <3>2, SetTakerIs
      <4> HIDE DEF next
      <4> QED
        BY <4>1, <4>2
    <3> QED
      BY <2>1, <3>3, AttendedKept
  <2>5. CASE UNCHANGED takers
    BY <2>1, <2>2, <2>5 DEF RunsKept
  <2>6. CASE TakerStep
    <3>1. \A w \in Workers, s \in Slots : ~AckDropped(w, s)
      BY <1>3, <2>1 DEF AckDropped, Fault
    <3> QED
      BY <1>2, <2>3, <2>4, <2>6, <3>1 DEF TakerStep
  <2>7. CASE BeatStep
    <3>1. ASSUME NEW w \in Workers, BeatApplies(w) PROVE Attended'
      BY <2>2, <3>1, BeatAppliesTyped, TokensGrow
    <3> QED
      BY <2>5, <2>7, <3>1 DEF BeatStep, BeatBegins, BeatExtends
  <2>8. CASE ProcessStep
    <3>1. \A w \in Workers : ~Crash(w)
      BY <1>3, <2>1 DEF Crash, Fault
    <3> QED
      BY <2>5, <2>8, <3>1
         DEF ProcessStep, Stop, Stopped, Unregister, Restart
  <2>9. CASE StoreOnly
    BY <2>5, <2>9 DEF StoreOnly, workerVars
  <2> QED
    BY <2>6, <2>7, <2>8, <2>9, Steps
<1> QED
  BY <1>1, <1>2, <1>3, TokenSteps

(* No job is left locked with nobody to run it, for any number of workers, *)
(* takers and jobs and any interleaving of claims, shutdowns, lost         *)
(* registrations, expired leases and recoveries, unless a crash, a dropped *)
(* ack or a lost reply leaves it.                                          *)
THEOREM AttendedCorrect == Spec => []Attended
<1>1. Init => StoreInv /\ Typed /\ Attended
  BY InitTyped DEF Init, Attended
<1>2. StoreInv /\ Typed /\ Attended /\ [Next]_vars =>
         StoreInv' /\ Typed' /\ Attended'
  BY StoreStep, TypedStep, AttendedStep
<1> QED
  BY <1>1, <1>2, PTL DEF Spec

-----------------------------------------------------------------------------
(* Cancels that are wanted                                                 *)

\* Whoever holds the job's lock under this token was asked to cancel.
Requested(js, id, token) ==
    js[id] # None /\ js[id].state = "active" /\ js[id].lockToken = token =>
        js[id].cancelRequested

CancelPrepared(w, s) ==
    \/ takers[w][s].stage = "ack" /\ takers[w][s].outcome = "cancelled"
    \/ takers[w][s].stage = "running" /\ takers[w][s].job \in cancelling[w]

\* What is about to end as cancelled was asked to.
CancelsWanted ==
    \A w \in Workers, s \in Slots :
        CancelPrepared(w, s) =>
            Requested(jobs, takers[w][s].job, takers[w][s].token)

\* A heartbeat is about the flights of now.
BeatCurrent(w) ==
    /\ \A lock \in beats[w].todo :
          /\ inflight[w][lock.job] # None
          /\ inflight[w][lock.job].token = lock.token
    /\ \A id \in beats[w].cancels :
          inflight[w][id] # None =>
              Requested(jobs, id, inflight[w][id].token)

OneTakerInv ==
    OneTaker => CancelsWanted /\ \A w \in Workers : BeatCurrent(w)

(* The one taker of a worker.                                              *)
LEMMA OneSlot ==
    ASSUME Typed, OneTaker, NEW s \in deployment.slots,
           NEW u \in deployment.slots
    PROVE  s = u
<1>1. deployment.slots \in SUBSET Slots
  BY DEF Typed, TypeOK, Deployment
<1>2. IsFiniteSet(deployment.slots) /\ Cardinality(deployment.slots) = 1
  BY <1>1, FS_Subset, ConstantsAssumption DEF OneTaker
<1> QED
  BY <1>2, FS_Singleton

(* Under a token handed out before, a request stays with its lock.         *)
LEMMA RequestStays ==
    ASSUME StoreInv, Typed, [Next]_vars, NEW id \in JobIds,
           NEW token \in 1..lastToken, Requested(jobs, id, token)
    PROVE  Requested(jobs', id, token)
<1> SUFFICES ASSUME jobs'[id] # None, jobs'[id].state = "active",
                    jobs'[id].lockToken = token
             PROVE  jobs'[id].cancelRequested
  BY DEF Requested
<1>1. ST!LockStep \/ ST!ClaimStep
  BY StoreUse, ST!LockEffects, StoreConstants, StoreNone, StoreRequests
     DEF StoreInv
<1>2. ST!LockEffect(jobs[id], jobs'[id])
  <2>1. lastToken \in Nat
    BY DEF StoreInv, ST!TypeOK
  <2> QED
    BY <1>1, <2>1 DEF ST!LockStep, ST!ClaimStep
<1> QED
  BY <1>2, KeptLock DEF Requested

(* A run that is prepared as before, or not at all.                        *)
LEMMA PreparedKept ==
    ASSUME StoreInv, Typed, CancelsWanted, [Next]_vars,
           NEW w \in Workers, NEW s \in Slots,
           CancelPrepared(w, s)' => /\ CancelPrepared(w, s)
                                    /\ takers'[w][s].job = takers[w][s].job
                                    /\ takers'[w][s].token = takers[w][s].token
    PROVE  CancelPrepared(w, s)' =>
              Requested(jobs', takers'[w][s].job, takers'[w][s].token)
<1> SUFFICES ASSUME CancelPrepared(w, s), CancelPrepared(w, s)'
             PROVE  Requested(jobs', takers[w][s].job, takers[w][s].token)
  OBVIOUS
<1>1. /\ takers[w][s].job \in JobIds
      /\ takers[w][s].token \in 1..lastToken
  BY DEF CancelPrepared, Typed, RunsKnown
<1>2. Requested(jobs, takers[w][s].job, takers[w][s].token)
  BY DEF CancelsWanted
<1> QED
  BY <1>1, <1>2, RequestStays

(* A taker that moves on is prepared only if it was before.                *)
LEMMA TakerPrepared ==
    ASSUME StoreInv, Typed, Typed', CancelsWanted, [Next]_vars,
           NEW w \in Workers, NEW s \in Slots, NEW run, SetTaker(w, s, run),
           \A v \in Workers : cancelling'[v] \subseteq cancelling[v],
           \/ run.stage # "ack" /\ run.stage # "running"
           \/ /\ run.job = takers[w][s].job /\ run.token = takers[w][s].token
              /\ CancelPrepared(w, s)' => CancelPrepared(w, s)
    PROVE  CancelsWanted'
<1>1. \A v \in Workers, u \in Slots :
         takers'[v][u] = IF v = w /\ u = s THEN run ELSE takers[v][u]
  BY SetTakerIs
<1>2. ASSUME NEW v \in Workers, NEW u \in Slots
      PROVE  CancelPrepared(v, u)' =>
                Requested(jobs', takers'[v][u].job, takers'[v][u].token)
  <2>1. CASE v = w /\ u = s
    <3>1. takers'[v][u] = run
      BY <1>1, <2>1
    <3>2. CASE run.stage # "ack" /\ run.stage # "running"
      BY <3>1, <3>2 DEF CancelPrepared
    <3>3. CASE /\ run.job = takers[w][s].job /\ run.token = takers[w][s].token
               /\ CancelPrepared(w, s)' => CancelPrepared(w, s)
      BY <2>1, <3>1, <3>3, PreparedKept
    <3> QED
      BY <3>2, <3>3
  <2>2. CASE ~(v = w /\ u = s)
    <3>1. takers'[v][u] = takers[v][u]
      BY <1>1, <2>2
    <3>2. CancelPrepared(v, u)' => CancelPrepared(v, u)
      BY <3>1 DEF CancelPrepared
    <3> QED
      BY <3>1, <3>2, PreparedKept
  <2> QED
    BY <2>1, <2>2
<1> QED
  BY <1>2 DEF CancelsWanted

(* A job is not started with a mark on it: the marked run would have to    *)
(* be another taker's.                                                     *)
LEMMA TakerStartsUnmarked ==
    ASSUME Typed, BooksInOrder, OneTaker, NEW w \in Workers, NEW s \in Slots,
           TakerStarts(w, s)
    PROVE  takers[w][s].job \notin cancelling[w]
<1> SUFFICES ASSUME takers[w][s].job \in cancelling[w] PROVE FALSE
  OBVIOUS
<1>1. takers[w][s].stage = "claimed"
  BY DEF TakerStarts
<1>2. takers[w][s].job \in JobIds /\ s \in deployment.slots
  BY <1>1 DEF Typed, RunsKnown
<1>3. PICK u \in Slots : takers[w][u].stage = "running"
  BY <1>2 DEF BooksInOrder
<1>4. u \in deployment.slots
  BY <1>3 DEF Typed, RunsKnown
<1> QED
  BY <1>1, <1>2, <1>3, <1>4, OneSlot

(* What the heartbeat marks was asked to cancel.                           *)
LEMMA BeatAppliesWanted ==
    ASSUME StoreInv, Typed, Typed', BooksInOrder, OneTaker, CancelsWanted,
           [Next]_vars, NEW w \in Workers, BeatCurrent(w), BeatApplies(w)
    PROVE  CancelsWanted'
<1>1. RunsKept
  BY BeatAppliesTyped, TokensGrow
<1>2. /\ cancelling' = [cancelling EXCEPT ![w] =
                           @ \cup Delivered(w, beats[w])]
      /\ \A v \in Workers, u \in Slots :
            takers'[v][u].outcome = takers[v][u].outcome
  <2>1. \A u \in Slots : [takers[w][u] EXCEPT !.interrupted = TRUE].outcome
                            = takers[w][u].outcome
    BY DEF Typed, TypeOK, Run
  <2> QED
    BY <2>1 DEF BeatApplies, Typed, TypeOK
<1>3. ASSUME NEW v \in Workers, NEW u \in Slots, CancelPrepared(v, u)'
      PROVE  Requested(jobs', takers'[v][u].job, takers'[v][u].token)
  <2> DEFINE id == takers[v][u].job
             token == takers[v][u].token
  <2>1. takers'[v][u].job = id /\ takers'[v][u].token = token
    BY <1>1 DEF RunsKept
  <2>2. CASE CancelPrepared(v, u)
    BY <1>3, <2>1, <2>2, PreparedKept
  <2>3. CASE ~CancelPrepared(v, u)
    <3>1. v = w /\ id \in Delivered(w, beats[w])
            /\ takers[v][u].stage = "running"
      BY <1>1, <1>2, <1>3, <2>1, <2>3
         DEF CancelPrepared, RunsKept, Typed, TypeOK
    <3>2. /\ id \in JobIds /\ token \in 1..lastToken
          /\ u \in deployment.slots
      BY <3>1 DEF Typed, RunsKnown
    <3>3. id \in beats[w].cancels /\ inflight[w][id] # None
      BY <3>1 DEF Delivered
    <3> DEFINE slot == inflight[w][id].slot
    <3>4. /\ slot \in Slots /\ takers[w][slot].stage = "running"
          /\ takers[w][slot].token = inflight[w][id].token
      BY <3>2, <3>3, BooksParts DEF FlightInOrder, Runs
    <3>5. slot \in deployment.slots
      BY <3>4 DEF Typed, RunsKnown
    <3>6. slot = u
      BY <3>2, <3>5, OneSlot
    <3>7. Requested(jobs, id, token)
      BY <3>1, <3>3, <3>4, <3>6 DEF BeatCurrent
    <3> QED
      BY <2>1, <3>2, <3>7, RequestStays
  <2> QED
    BY <2>2, <2>3
<1> QED
  BY <1>3 DEF CancelsWanted

(* No step of one taker's worker prepares a cancel nobody asked for.       *)
LEMMA CancelsWantedStep ==
    ASSUME StoreInv, Typed, Typed', BooksInOrder, OneTaker, CancelsWanted,
           \A w \in Workers : BeatCurrent(w), [Next]_vars
    PROVE  CancelsWanted'
<1>1. ASSUME RunsKept,
             \A v \in Workers : cancelling'[v] \subseteq cancelling[v],
             \A v \in Workers, u \in Slots :
                takers'[v][u].outcome = takers[v][u].outcome
      PROVE  CancelsWanted'
  <2>1. ASSUME NEW v \in Workers, NEW u \in Slots
        PROVE  CancelPrepared(v, u)' =>
                  Requested(jobs', takers'[v][u].job, takers'[v][u].token)
    BY <1>1, PreparedKept DEF RunsKept, CancelPrepared
  <2> QED
    BY <2>1 DEF CancelsWanted
<1>2. CASE UNCHANGED <<takers, cancelling>>
  BY <1>1, <1>2 DEF RunsKept
<1>3. CASE TakerStep
  <2> SUFFICES ASSUME NEW w \in Workers, NEW s \in Slots,
                      \/ TakerClaims(w, s) \/ TakerStarts(w, s)
                      \/ TakerAcks(w, s) \/ AckDropped(w, s)
                      \/ \E exit \in Exits : RunEnds(w, s, exit)
               PROVE  CancelsWanted'
    BY <1>3 DEF TakerStep
  <2> DEFINE run == takers[w][s]
  <2>1. run \in Run /\ \A v \in Workers : cancelling'[v] \subseteq cancelling[v]
    <3>1. \/ cancelling' = cancelling
          \/ cancelling' = [cancelling EXCEPT ![w] = @ \ {run.job}]
      BY DEF TakerClaims, TakerStarts, TakerAcks, AckDropped, RunEnds
    <3>2. run \in Run /\ cancelling \in [Workers -> SUBSET JobIds]
      BY DEF Typed, TypeOK
    <3> HIDE DEF run
    <3> QED
      BY <3>1, <3>2
  <2>2. CASE TakerClaims(w, s)
    <3>1. PICK next : SetTaker(w, s, next) /\ next.stage = "claimed"
      <4>1. \A id, token : [Idle EXCEPT !.stage = "claimed", !.job = id,
                                        !.token = token].stage = "claimed"
        BY DEF Idle
      <4> QED
        BY <2>2, <4>1 DEF TakerClaims
    <3> QED
      BY <2>1, <3>1, TakerPrepared
  <2>3. CASE TakerAcks(w, s) \/ AckDropped(w, s)
    BY <2>1, <2>3, RestType, TakerPrepared DEF TakerAcks, AckDropped
  <2>4. CASE TakerStarts(w, s)
    <3>1. PICK next :
              /\ SetTaker(w, s, next)
              /\ next.job = run.job /\ next.token = run.token
              /\ next.stage = "ack" => next.outcome = "release"
      <4>1. LET next == [run EXCEPT !.stage = "running"]
            IN  /\ next.job = run.job /\ next.token = run.token
                /\ next.stage = "running"
        BY <2>1 DEF Run
      <4>2. LET next == [run EXCEPT !.stage = "ack", !.outcome = "release"]
            IN  /\ next.job = run.job /\ next.token = run.token
                /\ next.outcome = "release"
        BY <2>1 DEF Run
      <4> QED
        BY <2>4, <4>1, <4>2 DEF TakerStarts
    <3>2. takers'[w][s] = next
      BY <3>1, SetTakerIs
    <3>3. ~CancelPrepared(w, s)'
      BY <2>1, <2>4, <3>1, <3>2, TakerStartsUnmarked DEF CancelPrepared
    <3> QED
      BY <2>1, <3>1, <3>3, TakerPrepared
  <2>5. ASSUME NEW exit \in Exits, RunEnds(w, s, exit)
        PROVE  CancelsWanted'
    <3>1. PICK outcome \in AckFor(w, run, exit) :
              SetTaker(w, s, [run EXCEPT !.stage = "ack",
                                         !.outcome = outcome])
      BY <2>5 DEF RunEnds
    <3> DEFINE next == [run EXCEPT !.stage = "ack", !.outcome = outcome]
    <3>2. /\ next.job = run.job /\ next.token = run.token
          /\ next.stage = "ack" /\ next.outcome = outcome
      BY <2>1 DEF Run
    <3>3. SetTaker(w, s, next)
      BY <3>1
    <3> HIDE DEF next
    <3>4. takers'[w][s] = next
      BY <3>3, SetTakerIs
    <3>5. outcome = "cancelled" => run.job \in cancelling[w]
      BY <3>1 DEF AckFor
    <3>6. CancelPrepared(w, s)' => CancelPrepared(w, s)
      BY <2>5, <3>2, <3>4, <3>5 DEF CancelPrepared, RunEnds
    <3> QED
      BY <2>1, <3>2, <3>3, <3>6, TakerPrepared
  <2> QED
    BY <2>2, <2>3, <2>4, <2>5
<1>4. CASE BeatStep
  BY <1>2, <1>4, BeatAppliesWanted DEF BeatStep, BeatBegins, BeatExtends
<1>5. CASE ProcessStep
  <2>1. ASSUME NEW w \in Workers, Crash(w) PROVE CancelsWanted'
    <3>1. \A v \in Workers, u \in Slots :
             \/ takers'[v][u] = Idle
             \/ takers'[v][u] = takers[v][u]
      BY <2>1 DEF Crash, Typed, TypeOK
    <3>2. \A v \in Workers : cancelling'[v] \subseteq cancelling[v]
      BY <2>1 DEF Crash, Typed, TypeOK
    <3>3. ASSUME NEW v \in Workers, NEW u \in Slots
          PROVE  CancelPrepared(v, u)' =>
                    Requested(jobs', takers'[v][u].job, takers'[v][u].token)
      BY <3>1, <3>2, RestType, PreparedKept DEF CancelPrepared
    <3> QED
      BY <3>3 DEF CancelsWanted
  <2> QED
    BY <1>2, <1>5, <2>1
       DEF ProcessStep, Stop, Stopped, Unregister, Restart
<1>6. CASE StoreOnly
  BY <1>2, <1>6 DEF StoreOnly, workerVars
<1> QED
  BY <1>3, <1>4, <1>5, <1>6, Steps

(* A flight is under a token that was handed out.                          *)
LEMMA FlightToken ==
    ASSUME Typed, BooksInOrder, NEW w \in Workers, NEW id \in JobIds,
           inflight[w][id] # None
    PROVE  inflight[w][id].token \in 1..lastToken
<1> DEFINE slot == inflight[w][id].slot
<1>1. /\ slot \in Slots /\ takers[w][slot].stage = "running"
      /\ takers[w][slot].token = inflight[w][id].token
  BY BooksParts DEF FlightInOrder, Runs
<1> QED
  BY <1>1 DEF Typed, RunsKnown

(* On the in-memory driver nothing comes between a heartbeat's call and    *)
(* its result but the heartbeat itself.                                    *)
LEMMA BeatsAlone ==
    ASSUME OneTaker, [Next]_vars, NEW v \in Workers, beats[v] # NoBeat
    PROVE  UNCHANGED vars \/ \E w \in Workers : BeatReplies(w)
BY DEF OneTaker, Next, Replying

(* A heartbeat's snapshot stays about the flights of now.                  *)
LEMMA BeatCurrentStep ==
    ASSUME StoreInv, Typed, BooksInOrder, OneTaker, [Next]_vars,
           NEW v \in Workers, BeatCurrent(v)
    PROVE  BeatCurrent(v)'
<1>1. beats[v] \in Beat
  BY DEF Typed, TypeOK
<1>2. ASSUME beats'[v] = NoBeat
      PROVE  BeatCurrent(v)'
  BY <1>2 DEF BeatCurrent, NoBeat
<1>3. ASSUME inflight'[v] = inflight[v], NEW id \in JobIds,
             inflight[v][id] # None,
             Requested(jobs, id, inflight[v][id].token)
      PROVE  Requested(jobs', id, inflight'[v][id].token)
  BY <1>3, FlightToken, RequestStays
<1>4. ASSUME inflight'[v] = inflight[v], beats'[v] = beats[v]
      PROVE  BeatCurrent(v)'
  <2>1. beats[v].cancels \subseteq JobIds
    BY <1>1 DEF Beat
  <2> QED
    BY <1>3, <1>4, <2>1 DEF BeatCurrent
<1>5. CASE beats[v] # NoBeat
  <2>1. CASE UNCHANGED vars
    BY <1>4, <2>1 DEF vars, workerVars
  <2>2. ASSUME NEW w \in Workers, BeatApplies(w)
        PROVE  BeatCurrent(v)'
    <3>1. CASE w = v
      BY <1>2, <2>2, <3>1 DEF BeatApplies, Typed, TypeOK
    <3>2. CASE w # v
      BY <1>4, <2>2, <3>2 DEF BeatApplies, Typed, TypeOK
    <3> QED
      BY <3>1, <3>2
  <2>3. ASSUME NEW w \in Workers, NEW lock \in Locks, BeatExtends(w, lock)
        PROVE  BeatCurrent(v)'
    <3>1. inflight' = inflight
      BY <2>3 DEF BeatExtends
    <3>2. CASE w # v
      <4>1. beats'[v] = beats[v]
        BY <2>3, <3>2 DEF BeatExtends, Typed, TypeOK
      <4> QED
        BY <1>4, <3>1, <4>1
    <3>3. CASE w = v
      <4>1. /\ lock \in beats[v].todo /\ lock.job \in JobIds
            /\ beats'[v].todo \subseteq beats[v].todo
            /\ \/ beats'[v].cancels = beats[v].cancels
               \/ /\ beats'[v].cancels = beats[v].cancels \cup {lock.job}
                  /\ jobs[lock.job].cancelRequested
        <5> DEFINE beat == [beats[v] EXCEPT !.todo = @ \ {lock}]
        <5>1. /\ lock \in beats[v].todo /\ lock.job \in JobIds
              /\ beats \in [Workers -> Beat]
          BY <2>3, <3>3 DEF BeatExtends, Locks, Typed, TypeOK
        <5>2. \/ beats' = [beats EXCEPT ![v] =
                              [beat EXCEPT !.lost = @ \cup {lock.job}]]
              \/ /\ jobs[lock.job].cancelRequested
                 /\ beats' = [beats EXCEPT ![v] =
                                 [beat EXCEPT !.cancels = @ \cup {lock.job}]]
              \/ beats' = [beats EXCEPT ![v] = beat]
          BY <2>3, <3>3 DEF BeatExtends
        <5>3. /\ beat.todo = beats[v].todo \ {lock}
              /\ beat.cancels = beats[v].cancels /\ beat \in Beat
          BY <1>1, BeatType DEF Beat
        <5> HIDE DEF beat
        <5>4. /\ [beat EXCEPT !.lost = @ \cup {lock.job}].todo = beat.todo
              /\ [beat EXCEPT !.lost = @ \cup {lock.job}].cancels =
                     beat.cancels
              /\ [beat EXCEPT !.cancels = @ \cup {lock.job}].todo = beat.todo
              /\ [beat EXCEPT !.cancels = @ \cup {lock.job}].cancels =
                     beat.cancels \cup {lock.job}
          BY <5>3 DEF Beat
        <5> QED
          BY <5>1, <5>2, <5>3, <5>4
      <4>2. ASSUME NEW l \in beats'[v].todo
            PROVE  /\ inflight'[v][l.job] # None
                   /\ inflight'[v][l.job].token = l.token
        BY <3>1, <4>1 DEF BeatCurrent
      <4>3. ASSUME NEW id \in beats'[v].cancels, inflight'[v][id] # None
            PROVE  Requested(jobs', id, inflight'[v][id].token)
        <5>1. id \in JobIds /\ Requested(jobs, id, inflight[v][id].token)
          BY <1>1, <3>1, <4>1, <4>3 DEF BeatCurrent, Beat, Requested
        <5> QED
          BY <1>3, <3>1, <4>3, <5>1
      <4> QED
        BY <4>2, <4>3 DEF BeatCurrent
    <3> QED
      BY <3>2, <3>3
  <2> QED
    BY <1>5, <2>1, <2>2, <2>3, BeatsAlone DEF BeatReplies
<1>6. CASE beats[v] = NoBeat
  <2>1. ASSUME NEW w \in Workers, BeatBegins(w)
        PROVE  BeatCurrent(v)'
    <3>1. CASE w # v
      BY <1>2, <1>6, <2>1, <3>1 DEF BeatBegins, Typed, TypeOK
    <3>2. CASE w = v
      <4>1. beats'[v] = [NoBeat EXCEPT !.stage = "extend",
                !.todo = {[job |-> id, token |-> inflight[v][id].token] :
                             id \in {i \in JobIds : inflight[v][i] # None}}]
        BY <2>1, <3>2 DEF BeatBegins, Typed, TypeOK
      <4>2. /\ beats'[v].cancels = {}
            /\ beats'[v].todo =
                  {[job |-> id, token |-> inflight[v][id].token] :
                      id \in {i \in JobIds : inflight[v][i] # None}}
        BY <4>1 DEF NoBeat
      <4>3. inflight' = inflight
        BY <2>1 DEF BeatBegins
      <4> QED
        BY <4>2, <4>3 DEF BeatCurrent
    <3> QED
      BY <3>1, <3>2
  <2>2. ASSUME NEW w \in Workers, BeatApplies(w)
        PROVE  beats'[v] = NoBeat
    BY <1>6, <2>2 DEF BeatApplies, Typed, TypeOK
  <2>3. ASSUME NEW w \in Workers, NEW lock \in Locks, BeatExtends(w, lock)
        PROVE  beats'[v] = NoBeat
    <3>1. w # v
      BY <1>6, <2>3 DEF BeatExtends, NoBeat
    <3> QED
      BY <1>6, <2>3, <3>1 DEF BeatExtends, Typed, TypeOK
  <2>4. CASE UNCHANGED beats
    BY <1>2, <1>6, <2>4
  <2>5. ASSUME NEW w \in Workers, Stop(w) \/ Crash(w)
        PROVE  beats'[v] = NoBeat
    BY <1>6, <2>5 DEF Stop, Crash, Typed, TypeOK
  <2>6. CASE TakerStep
    BY <2>4, <2>6 DEF TakerStep, TakerClaims, TakerStarts, TakerAcks,
                      AckDropped, RunEnds
  <2>7. CASE BeatStep
    BY <1>2, <2>1, <2>2, <2>3, <2>7 DEF BeatStep
  <2>8. CASE ProcessStep
    BY <1>2, <2>4, <2>5, <2>8
       DEF ProcessStep, Stopped, Unregister, Restart
  <2>9. CASE StoreOnly
    BY <2>4, <2>9 DEF StoreOnly, workerVars
  <2> QED
    BY <2>6, <2>7, <2>8, <2>9, Steps
<1> QED
  BY <1>5, <1>6

(* Whatever the workers do to the store, a running job is cancelled only   *)
(* if that was asked for: the store sees to it by itself everywhere but    *)
(* where a worker acks a run as cancelled.                                 *)
LEMMA StoreWanted ==
    ASSUME StoreInv, Typed, CancelsWanted, [Next]_vars
    PROVE  ST!CancelledOnRequest
<1> USE StoreConstants, StoreNone, StoreRequests
<1>0. ST!TypeOK
  BY DEF StoreInv
<1>1. CASE UNCHANGED storeVars
  <2>1. UNCHANGED jobs
    BY <1>1 DEF storeVars
  <2> QED
    BY <1>0, <2>1, ST!OthersOnRequest
<1>2. ASSUME NEW id \in JobIds, Enqueue(id) \/ Cancel(id) \/ Retry(id)
      PROVE  ST!CancelledOnRequest
  <2>1. CASE S!Enqueue(Request(id), id)
    BY <1>0, <2>1, EnqueueSame, ST!OthersOnRequest
  <2>2. CASE S!Cancel(id)
    BY <1>0, <2>2, CancelSame, ST!CancelOnRequest
  <2>3. CASE S!Retry(id)
    BY <1>0, <2>3, RetrySame, ST!OthersOnRequest
  <2> QED
    BY <1>2, <2>1, <2>2, <2>3 DEF Enqueue, Cancel, Retry
<1>3. ASSUME S!Claim("work", {"job"}, LockMs)
      PROVE  ST!CancelledOnRequest
  BY <1>0, <1>3, ClaimSame, ST!OthersOnRequest
<1>4. ASSUME S!RecoverStalled
      PROVE  ST!CancelledOnRequest
  BY <1>0, <1>4, RecoverStalledSame, ST!RecoverStalledEnds
<1>5. ASSUME NEW w \in Workers, NEW lock \in Locks, BeatExtends(w, lock)
      PROVE  ST!CancelledOnRequest
  <2>1. CASE S!ExtendLocks(lock.job, lock.token, LockMs)
    BY <1>0, <2>1, ExtendLocksSame, ST!OthersOnRequest DEF Locks
  <2> QED
    BY <1>1, <1>5, <2>1 DEF BeatExtends
<1>6. ASSUME NEW w \in Workers, NEW s \in Slots, TakerAcks(w, s)
      PROVE  ST!CancelledOnRequest
  <2> DEFINE id == takers[w][s].job
             token == takers[w][s].token
  <2>1. id \in JobIds
    BY <1>6 DEF TakerAcks, Typed, RunsKnown
  <2>2. ASSUME ST!Release(id, token)
        PROVE  ST!CancelledOnRequest
    BY <1>0, <2>1, <2>2, ST!ReleaseEnds
  <2>3. ASSUME ST!AckRetry(id, token, 0)
        PROVE  ST!CancelledOnRequest
    BY <1>0, <2>1, <2>3, ST!AckRetryEnds
  <2>4. ASSUME NEW state \in {"completed", "failed", "cancelled"},
               takers[w][s].outcome = state,
               NEW exit \in BOOLEAN, ST!AckTerminal(id, token, state, exit)
        PROVE  ST!CancelledOnRequest
    <3>1. state = "cancelled" => jobs[id].cancelRequested
      <4>1. jobs[id] # None /\ jobs[id].state = "active"
              /\ jobs[id].lockToken = token
        BY <2>4 DEF ST!AckTerminal, ST!Held, ST!Has
      <4>2. takers[w][s].stage = "ack"
        BY <1>6 DEF TakerAcks
      <4> QED
        BY <2>4, <4>1, <4>2 DEF CancelsWanted, CancelPrepared, Requested
    <3> QED
      BY <1>0, <2>1, <2>4, <3>1, ST!AckTerminalEnds DEF ST!TerminalStates
  <2>5. \/ UNCHANGED storeVars
        \/ ST!Release(id, token) \/ ST!AckRetry(id, token, 0)
        \/ \E state \in {"completed", "failed", "cancelled"},
              exit \in BOOLEAN :
              takers[w][s].outcome = state
                /\ ST!AckTerminal(id, token, state, exit)
    BY <1>6, ReleaseSame, AckRetrySame, AckTerminalSame DEF TakerAcks
  <2> QED
    BY <1>1, <2>2, <2>3, <2>4, <2>5
<1>7. CASE \E w \in Workers : BeatReplies(w)
  BY <1>1, <1>5, <1>7 DEF BeatReplies, BeatApplies
<1>8. CASE \E w \in Workers : BeatBegins(w) \/ \E s \in Slots : TakerNext(w, s)
  BY <1>1, <1>3, <1>6, <1>8
     DEF BeatBegins, TakerNext, TakerClaims, TakerStarts, RunEnds
<1>9. CASE Environment
  <2>1. ASSUME NEW w \in Workers, NEW s \in Slots, AckDropped(w, s)
        PROVE  UNCHANGED storeVars
    BY <2>1 DEF AckDropped
  <2>2. CASE Tick
    <3>1. UNCHANGED jobs
      BY <2>2 DEF Tick
    <3> QED
      BY <1>0, <3>1, ST!OthersOnRequest
  <2>3. ASSUME NEW w \in Workers,
               Stop(w) \/ Stopped(w) \/ Unregister(w) \/ Restart(w) \/ Crash(w)
        PROVE  UNCHANGED storeVars
    BY <2>3 DEF Stop, Stopped, Unregister, Restart, Crash
  <2> QED
    BY <1>1, <1>2, <1>3, <1>4, <1>9, <2>1, <2>2, <2>3
       DEF Environment, ClaimLost, Recover
<1> QED
  BY <1>1, <1>7, <1>8, <1>9 DEF Next, vars

(* The invariant behind CancelWanted is kept.                              *)
LEMMA OneTakerStep ==
    ASSUME StoreInv, Typed, Typed', BooksInOrder, OneTakerInv, [Next]_vars
    PROVE  OneTakerInv'
<1>1. OneTaker' => OneTaker
  <2>1. deployment' = deployment
    <3>1. CASE TakerStep
      BY <3>1 DEF TakerStep, TakerClaims, TakerStarts, TakerAcks, AckDropped,
                  RunEnds, Fault, bounds
    <3>2. CASE BeatStep
      BY <3>2 DEF BeatStep, BeatBegins, BeatApplies, BeatExtends, bounds
    <3>3. CASE ProcessStep
      BY <3>3 DEF ProcessStep, Stop, Stopped, Unregister, Restart, Crash,
                  Intervention, Fault, bounds
    <3>4. CASE StoreOnly
      BY <3>4 DEF StoreOnly
    <3> QED
      BY <3>1, <3>2, <3>3, <3>4, Steps
  <2> QED
    BY <2>1 DEF OneTaker
<1> SUFFICES ASSUME OneTaker
             PROVE  CancelsWanted' /\ \A w \in Workers : BeatCurrent(w)'
  BY <1>1 DEF OneTakerInv
<1>2. CancelsWanted /\ \A w \in Workers : BeatCurrent(w)
  BY DEF OneTakerInv
<1>3. CancelsWanted'
  BY <1>2, CancelsWantedStep
<1>4. ASSUME NEW w \in Workers PROVE BeatCurrent(w)'
  BY <1>2, BeatCurrentStep
<1> QED
  BY <1>3, <1>4

(* A worker with one taker on the in-memory driver ends a run as cancelled *)
(* only for a cancel request made while the job was running, however       *)
(* heartbeats, shutdowns, crashes, recoveries and later runs of the job    *)
(* interleave: no mark is left over, and no ack is another run's.          *)
THEOREM CancelsAreWanted == Spec => CancelWanted
<1> DEFINE Inv == StoreInv /\ Typed /\ BooksInOrder /\ OneTakerInv
<1>1. Init => Inv
  <2> SUFFICES ASSUME Init PROVE OneTakerInv
    BY InitTyped DEF Init, BooksInOrder, NoFlights
  <2> QED
    BY RestType DEF Init, OneTakerInv, CancelsWanted, CancelPrepared,
                    BeatCurrent, NoBeat
<1>2. Inv /\ [Next]_vars => Inv'
  BY StoreStep, TypedStep, BooksStep, TokensGrow, OneTakerStep
<1>3. Inv /\ [Next]_vars => [OneTaker => CancelWantedStep]_vars
  BY StoreWanted
     DEF OneTakerInv, CancelWantedStep, ST!CancelledOnRequest, ST!OnRequest
<1> QED
  BY <1>1, <1>2, <1>3, PTL DEF Spec, CancelWanted

=============================================================================
