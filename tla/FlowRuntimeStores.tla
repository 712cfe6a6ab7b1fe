------------------------- MODULE FlowRuntimeStores -------------------------
(***************************************************************************)
(* The two stores of the flow runtime, for every value of the constants:   *)
(* whatever workers, relays and sweepers do with them are steps of the     *)
(* stores' specification, so everything proved of the store holds of both  *)
(* (StoresOfFlows), and the fibers' state keeps its type (TypeCorrect).    *)
(***************************************************************************)
EXTENDS FlowRuntime, FiniteSetTheorems, WellFoundedInduction, TLAPS

-----------------------------------------------------------------------------
(* The two stores, with what is proved of them                             *)

PT == INSTANCE MemoryJobStoreFlows WITH
        JobIds <- FlowIds, ParentIds <- {}, Names <- {"parent"},
        Queues <- {"flows"}, DedupeKeys <- {}, Payloads <- {"spec"},
        Requests <- {ParentRequest(f) : f \in FlowIds},
        LockDurations <- {1}, RetryDelays <- {}, HistoryTtl <- NoTtl,
        MaxSeq <- 2 * Cardinality(FlowIds),
        jobs <- pJobs, flowChildren <- pRows, seq <- pSeq,
        lastToken <- pToken, outbox <- {}, outboxSeq <- 0, paused <- {},
        dedupes <- <<>>, woken <- pWoken

CT == INSTANCE MemoryJobStoreProofs WITH
        JobIds <- ChildIds, ParentIds <- FlowIds, Names <- {"child"},
        Queues <- {"children"}, DedupeKeys <- {}, Payloads <- {"spec"},
        Requests <- {ChildRequest(c) : c \in ChildIds},
        LockDurations <- {1}, RetryDelays <- {}, HistoryTtl <- NoTtl,
        MaxSeq <- Cardinality(ChildIds) + 1,
        jobs <- cJobs,
        flowChildren <- [c \in ChildIds |-> [k \in ChildKeys |-> None]],
        seq <- cSeq, lastToken <- cToken, outbox <- cOutbox,
        outboxSeq <- cOutboxSeq, paused <- {}, dedupes <- <<>>,
        woken <- cWoken

(* There are finitely many children.                                       *)
LEMMA ChildrenFinite == IsFiniteSet(ChildIds)
BY ConstantsAssumption, FS_Product DEF ChildIds

(* The parents' store meets the assumptions on a store's constants.        *)
LEMMA ParentConstants ==
    /\ PT!IsFiniteSet(FlowIds) /\ PT!IsFiniteSet(ChildKeys)
    /\ {ParentRequest(f) : f \in FlowIds} \subseteq PT!EnqueueRequest
    /\ {1} \subseteq Nat \ {0}
    /\ {} \subseteq Nat
    /\ MaxStalledCount \in Nat /\ PendingAgeMs \in Nat
    /\ SweepLimit \in Nat \ {0}
    /\ NoTtl \in [PT!TerminalStates -> PT!Opt(Nat)]
    /\ MaxTime \in Nat /\ 2 * Cardinality(FlowIds) \in Nat /\ MaxTokens \in Nat
<1>1. PT!IsFiniteSet(FlowIds) /\ PT!IsFiniteSet(ChildKeys)
  BY ConstantsAssumption DEF PT!IsFiniteSet, IsFiniteSet
<1>2. \A f \in FlowIds : ParentRequest(f) \in PT!EnqueueRequest
  BY DEF ParentRequest, Request, PT!EnqueueRequest, PT!Opt
<1>3. NoTtl \in [PT!TerminalStates -> PT!Opt(Nat)]
  BY DEF NoTtl, Outcomes, PT!TerminalStates, PT!Opt
<1>4. 2 * Cardinality(FlowIds) \in Nat
  BY ConstantsAssumption, FS_CardinalityType
<1> QED
  BY <1>1, <1>2, <1>3, <1>4, ConstantsAssumption

LEMMA ParentNone ==
    /\ None \notin FlowIds /\ None \notin {} /\ None \notin Nat
    /\ None \notin PT!MemJob /\ None \notin PT!FlowState
    /\ None \notin PT!DedupeEntry /\ None \notin PT!MemFlowChild
    /\ None \notin PT!ParentEnvelope /\ None \notin PT!DedupePolicy
    /\ None \notin PT!KeepStatePolicy /\ None \notin PT!KeepPolicy
BY NoneAssumption
   DEF PT!MemJob, P!MemJob, PT!FlowState, P!FlowState, PT!DedupeEntry,
       P!DedupeEntry, PT!MemFlowChild, P!MemFlowChild, PT!ParentEnvelope,
       P!ParentEnvelope, PT!DedupePolicy, PT!KeepStatePolicy,
       P!KeepStatePolicy, PT!KeepPolicy, P!KeepPolicy, PT!Opt, P!Opt,
       PT!TerminalStates, P!TerminalStates, PT!JobStates, P!JobStates,
       PT!AttemptOutcomes, P!AttemptOutcomes

LEMMA ParentRequests ==
    \A r1, r2 \in {ParentRequest(f) : f \in FlowIds} :
        r1.parent # None /\ r1.parent = r2.parent =>
            r1.id # None /\ r1.id = r2.id
BY DEF ParentRequest, Request

(* So does the children's store.                                           *)
LEMMA ChildConstants ==
    /\ CT!IsFiniteSet(ChildIds) /\ CT!IsFiniteSet(ChildKeys)
    /\ {ChildRequest(c) : c \in ChildIds} \subseteq CT!EnqueueRequest
    /\ {1} \subseteq Nat \ {0}
    /\ {} \subseteq Nat
    /\ MaxStalledCount \in Nat /\ PendingAgeMs \in Nat
    /\ SweepLimit \in Nat \ {0}
    /\ NoTtl \in [CT!TerminalStates -> CT!Opt(Nat)]
    /\ MaxTime \in Nat /\ Cardinality(ChildIds) + 1 \in Nat
    /\ MaxTokens \in Nat
<1>1. CT!IsFiniteSet(ChildIds) /\ CT!IsFiniteSet(ChildKeys)
  BY ConstantsAssumption, ChildrenFinite DEF CT!IsFiniteSet, IsFiniteSet
<1>2. \A c \in ChildIds : ChildRequest(c) \in CT!EnqueueRequest
  BY DEF ChildRequest, Request, ChildIds, CT!EnqueueRequest, CT!Opt,
         CT!ParentEnvelope
<1>3. NoTtl \in [CT!TerminalStates -> CT!Opt(Nat)]
  BY DEF NoTtl, Outcomes, CT!TerminalStates, CT!Opt
<1>4. Cardinality(ChildIds) + 1 \in Nat
  BY ChildrenFinite, FS_CardinalityType
<1> QED
  BY <1>1, <1>2, <1>3, <1>4, ConstantsAssumption

LEMMA ChildNone ==
    /\ None \notin ChildIds /\ None \notin {} /\ None \notin Nat
    /\ None \notin CT!MemJob /\ None \notin CT!FlowState
    /\ None \notin CT!DedupeEntry /\ None \notin CT!MemFlowChild
    /\ None \notin CT!ParentEnvelope /\ None \notin CT!DedupePolicy
    /\ None \notin CT!KeepStatePolicy /\ None \notin CT!KeepPolicy
BY NoneAssumption
   DEF CT!MemJob, C!MemJob, CT!FlowState, P!FlowState, CT!DedupeEntry,
       C!DedupeEntry, CT!MemFlowChild, P!MemFlowChild, CT!ParentEnvelope,
       C!ParentEnvelope, CT!DedupePolicy, CT!KeepStatePolicy,
       P!KeepStatePolicy, CT!KeepPolicy, P!KeepPolicy, CT!Opt, P!Opt,
       C!Opt, C!FlowState, C!KeepPolicy, C!KeepStatePolicy,
       CT!TerminalStates, P!TerminalStates, C!TerminalStates,
       CT!JobStates, C!JobStates, CT!AttemptOutcomes, C!AttemptOutcomes

LEMMA ChildRequests ==
    \A r1, r2 \in {ChildRequest(c) : c \in ChildIds} :
        r1.parent # None /\ r1.parent = r2.parent =>
            r1.id # None /\ r1.id = r2.id
<1>1. ASSUME NEW c \in ChildIds, NEW d \in ChildIds,
             ChildRequest(c).parent = ChildRequest(d).parent
      PROVE  c = d
  BY <1>1 DEF ChildRequest, Request, ChildIds
<1> QED
  BY <1>1, NoneAssumption DEF ChildRequest, Request

(* What is proved of the reference driver holds of both stores.            *)
LEMMA ParentsKnown ==
    PT!Spec => []PT!TypeOK /\ []PT!FlowInv /\ PT!RowsFinal
BY PT!TypeCorrect, PT!FlowsCounted, PT!RowsAreFinal, ParentConstants,
   ParentNone, ParentRequests, PTL

LEMMA ChildrenKnown ==
    CT!Spec => []CT!TypeOK /\ []CT!ResultInv /\ CT!CancelSticks
BY CT!TypeCorrect, CT!ResultsAgree, CT!CancellationSticks, ChildConstants,
   ChildNone, ChildRequests, PTL

-----------------------------------------------------------------------------
(* P and PT, C and CT name the same operations                             *)

(* enqueue                                                                 *)
LEMMA ParentEnqueueSame ==
    ASSUME NEW f
    PROVE  P!Enqueue(ParentRequest(f), f) <=> PT!Enqueue(ParentRequest(f), f)
BY DEF P!Enqueue, PT!Enqueue, P!IdTaken, PT!IdTaken, P!EntryOf, PT!EntryOf,
       P!KeyOf, PT!KeyOf, P!Replaces, PT!Replaces, P!WindowLive, PT!WindowLive,
       P!KeyedJobPending, PT!KeyedJobPending, P!NewJob, PT!NewJob, P!Expiry,
       PT!Expiry, P!Has, PT!Has, P!Terminal, PT!Terminal, P!TerminalStates,
       PT!TerminalStates, P!DedupeMapKeys, PT!DedupeMapKeys, P!SignalWake,
       PT!SignalWake

(* claim                                                                   *)
LEMMA ParentClaimSame ==
    P!Claim("flows", {"parent"}, 1) <=> PT!Claim("flows", {"parent"}, 1)
BY DEF P!Claim, PT!Claim, P!PromoteDue, PT!PromoteDue, P!Claimable,
       PT!Claimable, P!Precedes, PT!Precedes, P!Claimed, PT!Claimed, P!Has,
       PT!Has, P!SignalWake, PT!SignalWake

(* what every terminal settlement does with the rows, reports and history  *)
LEMMA ParentRetireSame ==
    \A js, rs, done, kept :
        P!Retire(js, rs, done, kept) <=> PT!Retire(js, rs, done, kept)
BY DEF P!Retire, PT!Retire, P!Turns, PT!Turns, P!AtTurn, PT!AtTurn,
       P!KeepVictims, PT!KeepVictims, P!Reports, PT!Reports, P!Report,
       PT!Report, P!ReleaseDedupe, PT!ReleaseDedupe, P!Without, PT!Without,
       P!KeepPolicyFor, PT!KeepPolicyFor, P!Peers, PT!Peers, P!NewerPeers,
       PT!NewerPeers, P!BeyondCount, PT!BeyondCount, P!OwesCascades,
       PT!OwesCascades, P!WithStatus, PT!WithStatus, P!Has, PT!Has,
       P!DedupeMapKeys, PT!DedupeMapKeys, P!NoRows, PT!NoRows,
       P!Cardinality, PT!Cardinality

(* cancel                                                                  *)
LEMMA ParentCancelSame ==
    ASSUME NEW f
    PROVE  P!Cancel(f) <=> PT!Cancel(f)
BY ParentRetireSame
   DEF P!Cancel, PT!Cancel, P!MarkCancelled, PT!MarkCancelled, P!SettleFlow,
       PT!SettleFlow, P!MarkPendingRowsCancelled, PT!MarkPendingRowsCancelled,
       P!Finish, PT!Finish, P!RecordAttempt, PT!RecordAttempt, P!ClearLock,
       PT!ClearLock, P!WithStatus, PT!WithStatus, P!Has, PT!Has, P!Terminal,
       PT!Terminal, P!TerminalStates, PT!TerminalStates, P!SignalWake,
       PT!SignalWake, P!Cardinality, PT!Cardinality

(* ack Complete, Fail and Cancelled                                        *)
LEMMA ParentAckSame ==
    ASSUME NEW f, NEW token, NEW state, NEW exit
    PROVE  P!AckTerminal(f, token, state, exit) <=>
              PT!AckTerminal(f, token, state, exit)
BY ParentRetireSame
   DEF P!AckTerminal, PT!AckTerminal, P!Held, PT!Held, P!Acked, PT!Acked,
       P!Finish, PT!Finish, P!RecordAttempt, PT!RecordAttempt, P!ClearLock,
       PT!ClearLock, P!WithStatus, PT!WithStatus, P!Has, PT!Has, P!Terminal,
       PT!Terminal, P!TerminalStates, PT!TerminalStates, P!SignalWake,
       PT!SignalWake, P!Cardinality, PT!Cardinality

(* ack FanOut                                                              *)
LEMMA ParentFanOutSame ==
    ASSUME NEW f, NEW token, NEW children, NEW failFast
    PROVE  P!AckFanOut(f, token, children, failFast) <=>
              PT!AckFanOut(f, token, children, failFast)
BY ParentRetireSame
   DEF P!AckFanOut, PT!AckFanOut, P!Held, PT!Held, P!FirstFanOut,
       PT!FirstFanOut, P!Manifest, PT!Manifest, P!PendingRows, PT!PendingRows,
       P!SettleFlow, PT!SettleFlow, P!MarkPendingRowsCancelled,
       PT!MarkPendingRowsCancelled, P!Finish, PT!Finish, P!RecordAttempt,
       PT!RecordAttempt, P!ClearLock, PT!ClearLock, P!WithStatus,
       PT!WithStatus, P!Has, PT!Has, P!SignalWake, PT!SignalWake,
       P!Cardinality, PT!Cardinality

(* recoverStalled                                                          *)
LEMMA ParentRecoverSame ==
    P!RecoverStalled <=> PT!RecoverStalled
BY ParentRetireSame
   DEF P!RecoverStalled, PT!RecoverStalled, P!Stalled, PT!Stalled,
       P!RecoveredJob, PT!RecoveredJob, P!StallsExhausted, PT!StallsExhausted,
       P!Finish, PT!Finish, P!RecordAttempt, PT!RecordAttempt, P!ClearLock,
       PT!ClearLock, P!WithStatus, PT!WithStatus, P!Has, PT!Has, P!Terminal,
       PT!Terminal, P!TerminalStates, PT!TerminalStates, P!SignalWake,
       PT!SignalWake, P!Cardinality, PT!Cardinality

(* recordChildResults                                                      *)
LEMMA RecordSame ==
    ASSUME NEW f, NEW reports
    PROVE  P!RecordChildResults(f, reports) <=>
              PT!RecordChildResults(f, reports)
<1>1. \A js, rs, done, kept :
          P!Retire(js, rs, done, kept) <=> PT!Retire(js, rs, done, kept)
  BY ParentRetireSame
<1>2. ASSUME NEW row
      PROVE  /\ P!AppliedKeys(row, reports) = PT!AppliedKeys(row, reports)
             /\ P!ReportedRow(row, reports) = PT!ReportedRow(row, reports)
             /\ P!MarkPendingRowsCancelled(row)
                    = PT!MarkPendingRowsCancelled(row)
  BY DEF P!AppliedKeys, PT!AppliedKeys, P!ReportedRow, PT!ReportedRow,
         P!MarkPendingRowsCancelled, PT!MarkPendingRowsCancelled,
         P!WithStatus, PT!WithStatus
<1>3. ASSUME NEW flow, NEW row
      PROVE  /\ P!Counted(flow, row, reports) = PT!Counted(flow, row, reports)
             /\ P!FailsFast(flow, row, reports)
                    <=> PT!FailsFast(flow, row, reports)
             /\ P!SettleFlow(flow, row) = PT!SettleFlow(flow, row)
  <2>1. /\ \A S : P!Cardinality(S) = PT!Cardinality(S)
        /\ P!AppliedKeys(row, reports) = PT!AppliedKeys(row, reports)
        /\ P!WithStatus(row, "pending") = PT!WithStatus(row, "pending")
        /\ \A n : P!Max0(n) = PT!Max0(n)
    BY <1>2 DEF P!Cardinality, PT!Cardinality, P!WithStatus, PT!WithStatus,
                P!Max0, PT!Max0
  <2>2. P!Counted(flow, row, reports) = PT!Counted(flow, row, reports)
    BY <2>1 DEF P!Counted, PT!Counted
  <2>3. P!SettleFlow(flow, row) = PT!SettleFlow(flow, row)
    BY <2>1 DEF P!SettleFlow, PT!SettleFlow
  <2>4. P!FailsFast(flow, row, reports) <=> PT!FailsFast(flow, row, reports)
    BY <2>1 DEF P!FailsFast, PT!FailsFast
  <2> QED
    BY <2>2, <2>3, <2>4
<1>4. ASSUME NEW j, NEW state
      PROVE  P!Finish(j, state) = PT!Finish(j, state)
  BY DEF P!Finish, PT!Finish, P!RecordAttempt, PT!RecordAttempt, P!ClearLock,
         PT!ClearLock
<1> QED
  BY <1>1, <1>2, <1>3, <1>4
     DEF P!RecordChildResults, PT!RecordChildResults, P!Has, PT!Has,
         P!SignalWake, PT!SignalWake

(* flowSweepWork                                                           *)
LEMMA SweepWorkSame ==
    ASSUME NEW page
    PROVE  P!FlowSweepWork(page) <=> PT!FlowSweepWork(page)
BY DEF P!FlowSweepWork, PT!FlowSweepWork, P!Reconcilable, PT!Reconcilable,
       P!WithStatus, PT!WithStatus, P!Has, PT!Has, P!SignalWake, PT!SignalWake,
       P!Cardinality, PT!Cardinality

(* markChildrenCascaded                                                    *)
LEMMA MarkCascadedSame ==
    ASSUME NEW f, NEW keys
    PROVE  P!MarkChildrenCascaded(f, keys) <=> PT!MarkChildrenCascaded(f, keys)
BY DEF P!MarkChildrenCascaded, PT!MarkChildrenCascaded, P!Cascaded,
       PT!Cascaded, P!SignalWake, PT!SignalWake

(* enqueue of a child                                                      *)
LEMMA ChildEnqueueSame ==
    ASSUME NEW c
    PROVE  C!Enqueue(ChildRequest(c), c) <=> CT!Enqueue(ChildRequest(c), c)
BY DEF C!Enqueue, CT!Enqueue, C!IdTaken, CT!IdTaken, C!EntryOf, CT!EntryOf,
       C!KeyOf, CT!KeyOf, C!Replaces, CT!Replaces, C!WindowLive, CT!WindowLive,
       C!KeyedJobPending, CT!KeyedJobPending, C!NewJob, CT!NewJob, C!Expiry,
       CT!Expiry, C!Has, CT!Has, C!Terminal, CT!Terminal, C!TerminalStates,
       CT!TerminalStates, C!DedupeMapKeys, CT!DedupeMapKeys, C!SignalWake,
       CT!SignalWake

(* claim of a child                                                        *)
LEMMA ChildClaimSame ==
    C!Claim("children", {"child"}, 1) <=>
              CT!Claim("children", {"child"}, 1)
BY DEF C!Claim, CT!Claim, C!PromoteDue, CT!PromoteDue, C!Claimable,
       CT!Claimable, C!Precedes, CT!Precedes, C!Claimed, CT!Claimed, C!Has,
       CT!Has, C!SignalWake, CT!SignalWake

(* the same of the children                                                *)
LEMMA ChildRetireSame ==
    \A js, rs, done, kept :
        C!Retire(js, rs, done, kept) <=> CT!Retire(js, rs, done, kept)
BY DEF C!Retire, CT!Retire, C!Turns, CT!Turns, C!AtTurn, CT!AtTurn,
       C!KeepVictims, CT!KeepVictims, C!Reports, CT!Reports, C!Report,
       CT!Report, C!ReleaseDedupe, CT!ReleaseDedupe, C!Without, CT!Without,
       C!KeepPolicyFor, CT!KeepPolicyFor, C!Peers, CT!Peers, C!NewerPeers,
       CT!NewerPeers, C!BeyondCount, CT!BeyondCount, C!OwesCascades,
       CT!OwesCascades, C!WithStatus, CT!WithStatus, C!Has, CT!Has,
       C!DedupeMapKeys, CT!DedupeMapKeys, C!NoRows, CT!NoRows,
       C!Cardinality, CT!Cardinality

(* cancel of a child                                                       *)
LEMMA ChildCancelSame ==
    ASSUME NEW c
    PROVE  C!Cancel(c) <=> CT!Cancel(c)
BY ChildRetireSame
   DEF C!Cancel, CT!Cancel, C!MarkCancelled, CT!MarkCancelled, C!SettleFlow,
       CT!SettleFlow, C!MarkPendingRowsCancelled, CT!MarkPendingRowsCancelled,
       C!Finish, CT!Finish, C!RecordAttempt, CT!RecordAttempt, C!ClearLock,
       CT!ClearLock, C!WithStatus, CT!WithStatus, C!Has, CT!Has, C!Terminal,
       CT!Terminal, C!TerminalStates, CT!TerminalStates, C!SignalWake,
       CT!SignalWake, C!Cardinality, CT!Cardinality

(* ack of a child                                                          *)
LEMMA ChildAckSame ==
    ASSUME NEW c, NEW token, NEW state, NEW exit
    PROVE  C!AckTerminal(c, token, state, exit) <=>
              CT!AckTerminal(c, token, state, exit)
BY ChildRetireSame
   DEF C!AckTerminal, CT!AckTerminal, C!Held, CT!Held, C!Acked, CT!Acked,
       C!Finish, CT!Finish, C!RecordAttempt, CT!RecordAttempt, C!ClearLock,
       CT!ClearLock, C!WithStatus, CT!WithStatus, C!Has, CT!Has, C!Terminal,
       CT!Terminal, C!TerminalStates, CT!TerminalStates, C!SignalWake,
       CT!SignalWake, C!Cardinality, CT!Cardinality

(* recoverStalled of the children                                          *)
LEMMA ChildRecoverSame ==
    C!RecoverStalled <=> CT!RecoverStalled
BY ChildRetireSame
   DEF C!RecoverStalled, CT!RecoverStalled, C!Stalled, CT!Stalled,
       C!RecoveredJob, CT!RecoveredJob, C!StallsExhausted, CT!StallsExhausted,
       C!Finish, CT!Finish, C!RecordAttempt, CT!RecordAttempt, C!ClearLock,
       CT!ClearLock, C!WithStatus, CT!WithStatus, C!Has, CT!Has, C!Terminal,
       CT!Terminal, C!TerminalStates, CT!TerminalStates, C!SignalWake,
       CT!SignalWake, C!Cardinality, CT!Cardinality

(* retry of a child                                                        *)
LEMMA ChildRetrySame ==
    ASSUME NEW c
    PROVE  C!Retry(c) <=> CT!Retry(c)
BY DEF C!Retry, CT!Retry, C!Revive, CT!Revive, C!Has, CT!Has, C!SignalWake,
       CT!SignalWake

(* deleteOutbox                                                            *)
LEMMA DeleteOutboxSame ==
    ASSUME NEW entries
    PROVE  C!DeleteOutbox(entries) <=> CT!DeleteOutbox(entries)
BY DEF C!DeleteOutbox, CT!DeleteOutbox, C!SignalWake, CT!SignalWake

-----------------------------------------------------------------------------
(* The types of the fibers                                                 *)

Stages == {"idle", "next", "before", "enqueue", "after", "cancel", "report"}

\* A sweeper's pass, as TypeOK has it.
Pass ==
    {w \in [stage : Stages, child : ChildIds \cup {None},
            outcome : Outcomes \cup {None}, reconcile : SUBSET ChildIds,
            cascade : SUBSET ChildIds, done : SUBSET ChildIds] :
        /\ w.child \in IF w.stage \in {"idle", "next"} THEN {None}
                       ELSE ChildIds
        /\ w.outcome \in IF w.stage = "report" THEN Outcomes ELSE {None}}

SweepsTyped == sweeps \in [Sweepers -> Pass]

FanOutsTyped ==
    /\ fanouts \in [FlowIds -> [stage : {"idle", "check", "enqueue"},
                                todo : SUBSET ChildKeys]]
    /\ crashes \in 0..scenario.crashes
    /\ scenario \in Scenario

(* The idle pass is one, and a pass is a record.                           *)
LEMMA NoSweepType == NoSweep \in Pass
BY DEF NoSweep, Pass, Stages

LEMMA PassType ==
    ASSUME SweepsTyped, NEW s \in Sweepers
    PROVE  sweeps[s] \in Pass
BY DEF SweepsTyped

(* The pages of a sweep are children.                                      *)
LEMMA PagesType ==
    ASSUME NEW page \in FullPage(P!Reconcilable),
           NEW owed \in FullPage(OwedCascades)
    PROVE  /\ {<<r.flowId, r.childKey>> : r \in page} \subseteq ChildIds
           /\ owed \subseteq ChildIds
<1>1. \A r \in page : r.flowId \in FlowIds /\ r.childKey \in ChildKeys
  BY DEF FullPage, P!Reconcilable
<1>2. owed \subseteq ChildIds
  BY DEF FullPage, OwedCascades
<1> QED
  BY <1>1, <1>2 DEF ChildIds

(* A sweeper's steps keep the type of its pass.                            *)
LEMMA SweepBeginType ==
    ASSUME SweepsTyped, NEW s \in Sweepers, SweepBegin(s)
    PROVE  SweepsTyped'
<1>1. PICK page \in FullPage(P!Reconcilable),
           owed \in FullPage(OwedCascades) :
              sweeps' = [sweeps EXCEPT ![s] =
                 [@ EXCEPT !.stage = "next",
                           !.reconcile = {<<r.flowId, r.childKey>> : r \in page},
                           !.cascade = owed]]
  BY DEF SweepBegin
<1> DEFINE rows == {<<r.flowId, r.childKey>> : r \in page}
           w == [NoSweep EXCEPT !.stage = "next", !.reconcile = rows,
                                !.cascade = owed]
<1>2. rows \subseteq ChildIds /\ owed \subseteq ChildIds
  BY PagesType
<1> HIDE DEF rows
<1>3. w \in Pass
  BY <1>2 DEF NoSweep, Pass, Stages
<1>4. sweeps' = [sweeps EXCEPT ![s] = w]
  BY <1>1 DEF SweepBegin, rows
<1> QED
  BY <1>3, <1>4 DEF SweepsTyped

LEMMA StageType ==
    ASSUME SweepsTyped, NEW s \in Sweepers, NEW stage \in Stages,
           stage \notin {"idle", "next", "report"},
           sweeps[s].stage \notin {"idle", "next", "report"},
           Stage(s, stage)
    PROVE  SweepsTyped'
<1>1. [sweeps[s] EXCEPT !.stage = stage] \in Pass
  BY PassType DEF Pass
<1> QED
  BY <1>1 DEF Stage, SweepsTyped

LEMMA NextChildType ==
    ASSUME SweepsTyped, NEW s \in Sweepers, NextChild(s)
    PROVE  SweepsTyped'
<1>1. [sweeps[s] EXCEPT !.stage = "next", !.child = None, !.outcome = None]
         \in Pass
  BY PassType DEF Pass, Stages
<1> QED
  BY <1>1 DEF NextChild, SweepsTyped

LEMMA ReconcileReadType ==
    ASSUME SweepsTyped, NEW s \in Sweepers, NEW c \in ChildIds,
           ReconcileRead(s, c)
    PROVE  SweepsTyped'
<1> DEFINE pass == [sweeps[s] EXCEPT !.reconcile = @ \ {c}]
<1>1. pass \in Pass /\ pass.stage = "next"
  BY PassType DEF Pass, ReconcileRead
<1> HIDE DEF pass
<1>2. [pass EXCEPT !.stage = "before", !.child = c] \in Pass
  BY <1>1 DEF Pass, Stages
<1>3. cJobs[c].state \in Outcomes =>
         [pass EXCEPT !.stage = "report", !.child = c,
                      !.outcome = cJobs[c].state] \in Pass
  BY <1>1 DEF Pass, Stages
<1> DEFINE w == IF cJobs[c] = None
                THEN [pass EXCEPT !.stage = "before", !.child = c]
                ELSE IF cJobs[c].state \in Outcomes
                THEN [pass EXCEPT !.stage = "report", !.child = c,
                                  !.outcome = cJobs[c].state]
                ELSE pass
<1>4. w \in Pass
  BY <1>1, <1>2, <1>3
<1>5. sweeps' = [sweeps EXCEPT ![s] = w]
  BY DEF ReconcileRead, pass
<1> QED
  BY <1>4, <1>5 DEF SweepsTyped

LEMMA CascadeType ==
    ASSUME SweepsTyped, NEW s \in Sweepers,
           \/ \E c \in ChildIds : CascadeCancel(s, c)
           \/ \E f \in FlowIds : CascadeMark(s, f)
    PROVE  SweepsTyped'
<1>1. ASSUME NEW c \in ChildIds, CascadeCancel(s, c)
      PROVE  SweepsTyped'
  <2>1. [sweeps[s] EXCEPT !.cascade = @ \ {c}, !.done = @ \cup {c}] \in Pass
    BY PassType DEF Pass
  <2> QED
    BY <1>1, <2>1 DEF CascadeCancel, SweepsTyped
<1>2. ASSUME NEW f \in FlowIds, CascadeMark(s, f)
      PROVE  SweepsTyped'
  <2> DEFINE gone == {c \in sweeps[s].done : c[1] = f}
  <2>1. [sweeps[s] EXCEPT !.done = @ \ gone] \in Pass
    BY PassType DEF Pass
  <2>2. sweeps' = [sweeps EXCEPT ![s].done = @ \ gone]
    BY <1>2 DEF CascadeMark
  <2> QED
    BY <2>1, <2>2 DEF SweepsTyped
<1> QED
  BY <1>1, <1>2

LEMMA SweepNextType ==
    ASSUME SweepsTyped, NEW s \in Sweepers, SweepNext(s)
    PROVE  SweepsTyped'
<1>1. CASE SweepBegin(s) \/ SweepEnd(s)
  BY <1>1, SweepBeginType, NoSweepType DEF SweepEnd, SweepsTyped
<1>2. CASE ReconcileBefore(s)
  BY <1>2, StageType, NextChildType DEF ReconcileBefore, Stages
<1>3. CASE ReconcileEnqueue(s)
  BY <1>3, StageType DEF ReconcileEnqueue, Stages
<1>4. CASE ReconcileAfter(s)
  BY <1>4, StageType, NextChildType DEF ReconcileAfter, Stages
<1>5. CASE ReconcileCancel(s) \/ ReconcileReport(s)
  BY <1>5, NextChildType DEF ReconcileCancel, ReconcileReport
<1> QED
  BY <1>1, <1>2, <1>3, <1>4, <1>5, ReconcileReadType, CascadeType
     DEF SweepNext

(* Nobody but a sweeper, or its crash, touches its pass.                   *)
LEMMA SweepsSteps ==
    ASSUME [Next]_vars
    PROVE  \/ UNCHANGED sweeps
           \/ \E s \in Sweepers : SweepNext(s)
           \/ Crash
BY DEF Next, vars, procVars, bounds, ParentRuns, ClaimParent, FinishParent,
       AckFanOut, ChildRuns, ClaimChild, FinishChild, FanOutNext,
       CheckParked, FastEnqueue, Environment, EnqueueParent, CancelParent,
       OperatorCancelsChild, OperatorRetriesChild, RecoverParents,
       RecoverChildren, Tick, RelayNext, RelayPeek, RelayDelete, RelayDeliver

LEMMA SweepsStep ==
    ASSUME SweepsTyped, [Next]_vars
    PROVE  SweepsTyped'
<1>1. CASE UNCHANGED sweeps
  BY <1>1 DEF SweepsTyped
<1>2. CASE Crash
  BY <1>2, NoSweepType DEF Crash, SweepsTyped
<1> QED
  BY <1>1, <1>2, SweepsSteps, SweepNextType

(* The fan-outs after a step.                                              *)
LEMMA FanOutsStep ==
    ASSUME FanOutsTyped, [Next]_vars
    PROVE  FanOutsTyped'
<1> DEFINE Fan == [stage : {"idle", "check", "enqueue"},
                   todo : SUBSET ChildKeys]
<1>1. /\ NoFanOut \in Fan
      /\ \A f \in FlowIds : fanouts[f] \in Fan
      /\ scenario.keys \subseteq ChildKeys /\ scenario.crashes \in Nat
  BY DEF FanOutsTyped, NoFanOut, Scenario
<1>2. CASE UNCHANGED <<fanouts, crashes, scenario>>
  BY <1>2 DEF FanOutsTyped
<1>3. CASE \E f \in FlowIds, token \in 1..pToken :
              \E children \in SUBSET scenario.keys :
                 AckFanOut(f, token, children)
  BY <1>1, <1>3 DEF AckFanOut, FanOutsTyped, bounds
<1>4. CASE \E f \in FlowIds : CheckParked(f)
  BY <1>1, <1>4 DEF CheckParked, FanOutsTyped, bounds
<1>5. ASSUME NEW f \in FlowIds, NEW k \in ChildKeys, FastEnqueue(f, k)
      PROVE  FanOutsTyped'
  <2>1. [fanouts[f] EXCEPT !.todo = @ \ {k}] \in Fan
    BY <1>1
  <2>2. UNCHANGED <<crashes, scenario>>
    BY <1>5 DEF FastEnqueue, bounds
  <2> QED
    BY <1>1, <1>5, <2>1, <2>2 DEF FastEnqueue, FanOutsTyped
<1>6. CASE Crash
  BY <1>1, <1>6 DEF Crash, FanOutsTyped
<1> QED
  BY <1>2, <1>3, <1>4, <1>5, <1>6
     DEF Next, vars, procVars, bounds, ParentRuns, ClaimParent, FinishParent,
         ChildRuns, ClaimChild, FinishChild, FanOutNext, Environment,
         EnqueueParent, CancelParent, OperatorCancelsChild,
         OperatorRetriesChild, RecoverParents, RecoverChildren, Tick,
         RelayNext, RelayPeek, RelayDelete, RelayDeliver, SweepNext,
         SweepBegin, SweepEnd, SweepOnly, ReconcileBefore, ReconcileEnqueue,
         ReconcileAfter, ReconcileCancel, ReconcileReport, ReconcileRead,
         CascadeCancel, CascadeMark

-----------------------------------------------------------------------------
(* The children's store runs as its specification says                     *)

(* No call into the parents' store moves the clock.                        *)
LEMMA ParentCallsTime ==
    /\ \A f \in FlowIds :
          PT!Enqueue(ParentRequest(f), f) \/ PT!Cancel(f) => now' = now
    /\ PT!Claim("flows", {"parent"}, 1) \/ PT!RecoverStalled => now' = now
    /\ \A f, token, x, y : PT!AckTerminal(f, token, x, y) => now' = now
    /\ \A f, token, x, y : PT!AckFanOut(f, token, x, y) => now' = now
    /\ \A f, x : PT!RecordChildResults(f, x) => now' = now
    /\ \A page : PT!FlowSweepWork(page) => now' = now
    /\ \A f, keys : PT!MarkChildrenCascaded(f, keys) => now' = now
<1>1. \A f \in FlowIds :
         PT!Enqueue(ParentRequest(f), f) \/ PT!Cancel(f) => now' = now
  BY DEF PT!Enqueue, PT!Cancel
<1>2. PT!Claim("flows", {"parent"}, 1) \/ PT!RecoverStalled => now' = now
  BY DEF PT!Claim, PT!RecoverStalled
<1>3. \A f, token, x, y : PT!AckTerminal(f, token, x, y) => now' = now
  BY DEF PT!AckTerminal
<1>4. \A f, token, x, y : PT!AckFanOut(f, token, x, y) => now' = now
  BY DEF PT!AckFanOut
<1>5. \A f, x : PT!RecordChildResults(f, x) => now' = now
  BY DEF PT!RecordChildResults
<1>6. /\ \A page : PT!FlowSweepWork(page) => now' = now
      /\ \A f, keys : PT!MarkChildrenCascaded(f, keys) => now' = now
  BY DEF PT!FlowSweepWork, PT!MarkChildrenCascaded
<1> QED
  BY <1>1, <1>2, <1>3, <1>4, <1>5, <1>6

(* Nor does any into the children's.                                       *)
LEMMA ChildCallsTime ==
    /\ \A c \in ChildIds :
          CT!Enqueue(ChildRequest(c), c) \/ CT!Cancel(c) \/ CT!Retry(c)
              => now' = now
    /\ CT!Claim("children", {"child"}, 1) \/ CT!RecoverStalled => now' = now
    /\ \A c, token, x, y : CT!AckTerminal(c, token, x, y) => now' = now
    /\ \A page : CT!DeleteOutbox(page) => now' = now
<1>1. \A c \in ChildIds :
         CT!Enqueue(ChildRequest(c), c) \/ CT!Cancel(c) \/ CT!Retry(c)
             => now' = now
  BY DEF CT!Enqueue, CT!Cancel, CT!Retry
<1>2. CT!Claim("children", {"child"}, 1) \/ CT!RecoverStalled => now' = now
  BY DEF CT!Claim, CT!RecoverStalled
<1>3. \A c, token, x, y : CT!AckTerminal(c, token, x, y) => now' = now
  BY DEF CT!AckTerminal
<1>4. \A page : CT!DeleteOutbox(page) => now' = now
  BY DEF CT!DeleteOutbox
<1> QED
  BY <1>1, <1>2, <1>3, <1>4

(* What the runtime calls of the children's store are steps of the store.  *)
LEMMA ChildCalls ==
    /\ \A c \in ChildIds :
          CT!Enqueue(ChildRequest(c), c) \/ CT!Cancel(c) \/ CT!Retry(c) => CT!Next
    /\ CT!Claim("children", {"child"}, 1) \/ CT!RecoverStalled => CT!Next
    /\ \A c \in ChildIds, token \in 1..cToken, outcome \in Outcomes :
          CT!AckTerminal(c, token, outcome, outcome # "cancelled") => CT!Next
    /\ \A page : CT!DeleteOutbox(page) => CT!Next
<1>1. ASSUME NEW c \in ChildIds,
             CT!Enqueue(ChildRequest(c), c) \/ CT!Cancel(c) \/ CT!Retry(c)
      PROVE  CT!Next
  BY <1>1 DEF CT!Next, CT!ProducerNext, CT!AdminNext
<1>2. CT!Claim("children", {"child"}, 1) \/ CT!RecoverStalled => CT!Next
  BY DEF CT!Next, CT!WorkerNext
<1>3. ASSUME NEW c \in ChildIds, NEW token \in 1..cToken,
             NEW outcome \in Outcomes,
             CT!AckTerminal(c, token, outcome, outcome # "cancelled")
      PROVE  CT!Next
  <2>1. outcome \in CT!TerminalStates /\ (outcome # "cancelled") \in BOOLEAN
    BY DEF Outcomes, CT!TerminalStates
  <2> QED
    BY <1>3, <2>1 DEF CT!Next, CT!WorkerNext, CT!Tokens
<1>4. ASSUME NEW page, CT!DeleteOutbox(page)
      PROVE  CT!Next
  <2>1. CT!DeleteOutbox(page \cap cOutbox)
    BY <1>4 DEF CT!DeleteOutbox
  <2>2. page \cap cOutbox \in SUBSET cOutbox
    OBVIOUS
  <2> QED
    BY <2>1, <2>2 DEF CT!Next, CT!FlowNext
<1> QED
  BY <1>1, <1>2, <1>3, <1>4

\* The children's store is left alone.
ChildrenAlone == UNCHANGED <<now, cVars>>

\* A worker on the fast path, or a sweeper that has the child in hand.
EnqueuedBySomeone(c) ==
    \/ fanouts[c[1]] # NoFanOut
    \/ \E s \in Sweepers : ReconcileEnqueue(s) /\ sweeps[s].child = c

(* The steps as seen by the children's store: which call is made, if any.  *)
ChildSteps ==
    \/ ChildrenAlone
    \/ \E c \in ChildIds :
          \/ CT!Enqueue(ChildRequest(c), c) /\ EnqueuedBySomeone(c)
          \/ CT!Cancel(c)
          \/ CT!Retry(c) /\ OperatorRetriesChild(c)
          \/ \E token \in 1..cToken, outcome \in Outcomes :
                CT!AckTerminal(c, token, outcome, outcome # "cancelled")
    \/ CT!Claim("children", {"child"}, 1)
    \/ CT!RecoverStalled
    \/ \E page : CT!DeleteOutbox(page)
    \/ Tick

LEMMA ParentStepsAlone ==
    ASSUME ParentRuns \/ RecoverParents
              \/ \E f \in FlowIds : EnqueueParent(f) \/ CancelParent(f)
    PROVE  ChildrenAlone
BY ParentCallsTime, ParentEnqueueSame, ParentClaimSame, ParentCancelSame,
   ParentAckSame, ParentFanOutSame, ParentRecoverSame
   DEF ParentRuns, ClaimParent, FinishParent, AckFanOut, RecoverParents,
       EnqueueParent, CancelParent, ChildrenAlone

LEMMA ReportsAlone ==
    ASSUME NEW f, NEW reports, RecordReports(f, reports), UNCHANGED cVars
    PROVE  ChildrenAlone
BY ParentCallsTime, RecordSame DEF RecordReports, ChildrenAlone

LEMMA ChildCallSteps ==
    ASSUME NEW c \in ChildIds,
           (EnqueueChild(c) /\ EnqueuedBySomeone(c)) \/ CancelChild(c)
    PROVE  ChildSteps
BY ChildEnqueueSame, ChildCancelSame
   DEF EnqueueChild, CancelChild, ChildSteps, ChildrenAlone

LEMMA SweepChildSteps ==
    ASSUME SweepsTyped, NEW s \in Sweepers, SweepNext(s)
    PROVE  ChildSteps
<1>1. CASE SweepBegin(s)
  BY <1>1, ParentCallsTime, SweepWorkSame
     DEF SweepBegin, ChildSteps, ChildrenAlone
<1>2. CASE \/ SweepEnd(s) \/ ReconcileBefore(s) \/ ReconcileAfter(s)
           \/ \E c \in ChildIds : ReconcileRead(s, c)
  BY <1>2 DEF SweepEnd, ReconcileBefore, ReconcileAfter, ReconcileRead,
              SweepOnly, ChildSteps, ChildrenAlone
<1>3. ASSUME ReconcileEnqueue(s) \/ ReconcileCancel(s)
      PROVE  ChildSteps
  <2>1. sweeps[s].child \in ChildIds
    BY <1>3, PassType DEF ReconcileEnqueue, ReconcileCancel, Pass
  <2> QED
    BY <1>3, <2>1, ChildCallSteps
       DEF ReconcileEnqueue, ReconcileCancel, EnqueuedBySomeone
<1>4. CASE ReconcileReport(s)
  BY <1>4, ReportsAlone DEF ReconcileReport, ChildSteps
<1>5. CASE \E c \in ChildIds : CascadeCancel(s, c)
  BY <1>5, ChildCallSteps DEF CascadeCancel
<1>6. CASE \E f \in FlowIds : CascadeMark(s, f)
  BY <1>6, ParentCallsTime, MarkCascadedSame
     DEF CascadeMark, ChildSteps, ChildrenAlone
<1> QED
  BY <1>1, <1>2, <1>3, <1>4, <1>5, <1>6 DEF SweepNext

LEMMA TickSame ==
    ASSUME FanOutsTyped, now \in Nat, Tick
    PROVE  PT!Tick /\ CT!Tick
<1>1. scenario.time \in 0..MaxTime
  BY DEF FanOutsTyped, Scenario
<1>2. now < MaxTime
  BY <1>1, ConstantsAssumption DEF Tick
<1> QED
  BY <1>2 DEF Tick, PT!Tick, CT!Tick, PT!SignalWake, CT!SignalWake

LEMMA ChildUse ==
    ASSUME SweepsTyped, FanOutsTyped, [Next]_vars
    PROVE  ChildSteps
<1>1. CASE ParentRuns
  BY <1>1, ParentStepsAlone DEF ChildSteps
<1>2. CASE ChildRuns
  BY <1>2, ChildClaimSame, ChildAckSame
     DEF ChildRuns, ClaimChild, FinishChild, ChildSteps
<1>3. CASE FanOutNext
  <2>1. CASE \E f \in FlowIds : CheckParked(f)
    BY <2>1 DEF CheckParked, ChildSteps, ChildrenAlone
  <2>2. CASE \E f \in FlowIds, k \in ChildKeys : FastEnqueue(f, k)
    BY <2>2, ChildCallSteps
       DEF FastEnqueue, ChildIds, EnqueuedBySomeone, NoFanOut
  <2> QED
    BY <1>3, <2>1, <2>2 DEF FanOutNext
<1>4. CASE Environment
  <2>1. CASE RecoverParents
                \/ \E f \in FlowIds : EnqueueParent(f) \/ CancelParent(f)
    BY <2>1, ParentStepsAlone DEF ChildSteps
  <2>2. CASE \E c \in ChildIds :
                OperatorCancelsChild(c) \/ OperatorRetriesChild(c)
    BY <2>2, ChildCancelSame, ChildRetrySame
       DEF OperatorCancelsChild, OperatorRetriesChild, ChildSteps
  <2>3. CASE RecoverChildren
    BY <2>3, ChildRecoverSame DEF RecoverChildren, ChildSteps
  <2>4. CASE Crash
    BY <2>4 DEF Crash, ChildSteps, ChildrenAlone
  <2>5. CASE Tick
    BY <2>5 DEF ChildSteps
  <2> QED
    BY <1>4, <2>1, <2>2, <2>3, <2>4, <2>5 DEF Environment
<1>5. CASE \E r \in Relays : RelayNext(r)
  <2> PICK r \in Relays : RelayNext(r)
    BY <1>5
  <2>1. CASE RelayPeek(r)
    BY <2>1 DEF RelayPeek, ChildSteps, ChildrenAlone
  <2>2. CASE RelayDelete(r)
    BY <2>2, DeleteOutboxSame DEF RelayDelete, ChildSteps
  <2>3. CASE \E f \in FlowIds : RelayDeliver(r, f)
    BY <2>3, ReportsAlone DEF RelayDeliver, ChildSteps
  <2> QED
    BY <2>1, <2>2, <2>3 DEF RelayNext
<1>6. CASE \E s \in Sweepers : SweepNext(s)
  BY <1>6, SweepChildSteps
<1>7. CASE UNCHANGED vars
  BY <1>7 DEF vars, ChildSteps, ChildrenAlone
<1> QED
  BY <1>1, <1>2, <1>3, <1>4, <1>5, <1>6, <1>7 DEF Next

LEMMA ChildStepsStore ==
    ASSUME FanOutsTyped, now \in Nat, ChildSteps
    PROVE  [CT!Next]_(CT!vars) /\ now' \in Nat
<1>1. CASE ChildrenAlone
  BY <1>1 DEF ChildrenAlone, cVars, CT!vars
<1>2. CASE Tick
  BY <1>2, TickSame DEF CT!Next, CT!Tick
<1> QED
  BY <1>1, <1>2, ChildCalls, ChildCallsTime DEF ChildSteps

\* The clock and the fibers' state have their types.
Typed == SweepsTyped /\ FanOutsTyped /\ now \in Nat

(* They are typed from the start ...                                       *)
LEMMA InitTyped == Init => Typed
<1> SUFFICES ASSUME Init PROVE Typed
  OBVIOUS
<1>1. SweepsTyped
  BY NoSweepType DEF Init, SweepsTyped
<1>2. scenario \in Scenario /\ scenario.crashes \in Nat
  BY ConstantsAssumption DEF Init, Scenario
<1> QED
  BY <1>1, <1>2 DEF Init, FanOutsTyped, NoFanOut, Typed

(* ... and stay so.                                                        *)
LEMMA TypedStep ==
    ASSUME Typed, [Next]_vars
    PROVE  Typed' /\ [CT!Next]_(CT!vars)
BY SweepsStep, FanOutsStep, ChildUse, ChildStepsStore DEF Typed

LEMMA FibersTyped == Spec => []Typed
BY InitTyped, TypedStep, PTL DEF Spec

LEMMA ChildInit == Init => CT!Init
BY DEF Init, CT!Init, CT!NoRows, CT!DedupeMapKeys

LEMMA ChildrenRun == Spec => CT!Spec
BY TypedStep, ChildInit, FibersTyped, PTL DEF Spec, CT!Spec

-----------------------------------------------------------------------------
(* The pages of the relays                                                 *)

RelaysTyped ==
    relays \in [Relays -> [page : SUBSET CT!OutboxEntry,
                           flows : SUBSET FlowIds]]

(* Reports of children are of flows, of child keys, and terminal.          *)
LEMMA EntryType ==
    ASSUME NEW e \in CT!OutboxEntry
    PROVE  /\ e.flowId \in FlowIds /\ e.childKey \in ChildKeys
           /\ e.outcome \in Outcomes /\ e.stamp \in Nat
BY DEF CT!OutboxEntry, CT!TerminalStates, Outcomes

(* Only a relay, or its crash, touches its page.                           *)
LEMMA RelaysSteps ==
    ASSUME [Next]_vars
    PROVE  \/ UNCHANGED relays
           \/ \E r \in Relays : RelayNext(r)
           \/ Crash
BY DEF Next, vars, procVars, bounds, ParentRuns, ClaimParent, FinishParent,
       AckFanOut, ChildRuns, ClaimChild, FinishChild, FanOutNext,
       CheckParked, FastEnqueue, Environment, EnqueueParent, CancelParent,
       OperatorCancelsChild, OperatorRetriesChild, RecoverParents,
       RecoverChildren, Tick, SweepNext, SweepBegin, SweepEnd, SweepOnly,
       ReconcileBefore, ReconcileEnqueue, ReconcileAfter, ReconcileCancel,
       ReconcileReport, ReconcileRead, CascadeCancel, CascadeMark

LEMMA RelaysStep ==
    ASSUME RelaysTyped, cOutbox \subseteq CT!OutboxEntry, [Next]_vars
    PROVE  RelaysTyped'
<1> DEFINE Held == [page : SUBSET CT!OutboxEntry, flows : SUBSET FlowIds]
<1>1. NoPage \in Held
  BY DEF NoPage
<1>2. CASE UNCHANGED relays
  BY <1>2 DEF RelaysTyped
<1>3. CASE Crash
  BY <1>1, <1>3 DEF Crash, RelaysTyped
<1>4. ASSUME NEW r \in Relays, RelayNext(r)
      PROVE  RelaysTyped'
  <2>1. CASE RelayPeek(r)
    <3>1. {e.flowId : e \in cOutbox} \subseteq FlowIds
      BY EntryType
    <3> DEFINE flows == {e.flowId : e \in cOutbox}
    <3>2. [page |-> cOutbox, flows |-> flows] \in Held
      BY <3>1
    <3>3. relays' = [relays EXCEPT ![r] = [page |-> cOutbox, flows |-> flows]]
      BY <2>1 DEF RelayPeek
    <3> HIDE DEF flows
    <3> QED
      BY <3>2, <3>3 DEF RelaysTyped
  <2>2. CASE RelayDelete(r)
    BY <1>1, <2>2 DEF RelayDelete, RelaysTyped
  <2>3. CASE \E f \in FlowIds : RelayDeliver(r, f)
    BY <2>3 DEF RelayDeliver, RelaysTyped
  <2> QED
    BY <1>4, <2>1, <2>2, <2>3 DEF RelayNext
<1> QED
  BY <1>2, <1>3, <1>4, RelaysSteps

\* The reports of a batch are those of a relay's page.
FromPage(page, f, reports) ==
    \A k \in DOMAIN reports :
        \E e \in page : /\ e.flowId = f /\ e.childKey = k
                        /\ e.outcome = reports[k]

(* A non-empty set of entries has one of the least stamp.                  *)
LEMMA LeastStamp ==
    ASSUME NEW T \in SUBSET CT!OutboxEntry, T # {}
    PROVE  \E e \in T : \A d \in T : e.stamp <= d.stamp
<1> DEFINE R == OpToRel(<, Nat)
           stamps == {e.stamp : e \in T}
<1>1. IsWellFoundedOn(R, Nat)
  BY NatLessThanWellFounded
<1>2. stamps \subseteq Nat /\ stamps # {}
  BY EntryType
<1>3. PICK n \in stamps : \A m \in stamps : <<m, n>> \notin R
  <2> HIDE DEF R, stamps
  <2> QED
    BY <1>1, <1>2, WFMin
<1>4. PICK e \in T : n = e.stamp
  BY <1>3
<1>5. ASSUME NEW d \in T
      PROVE  e.stamp <= d.stamp
  <2>1. d.stamp \in stamps /\ e.stamp \in Nat /\ d.stamp \in Nat
    BY <1>5, EntryType
  <2>2. <<d.stamp, e.stamp>> \notin R
    BY <1>3, <1>4, <2>1
  <2>3. ~(d.stamp < e.stamp)
    BY <2>1, <2>2, Zenon DEF OpToRel
  <2> QED
    BY <2>1, <2>3
<1> QED
  BY <1>5

(* What a relay delivers to one flow: the page's first report of each of   *)
(* the flow's children it has a report of.                                 *)
LEMMA FirstOutcomesType ==
    ASSUME NEW page \in SUBSET CT!OutboxEntry, NEW f
    PROVE  /\ \E keys \in SUBSET ChildKeys :
                 FirstOutcomes(page, f) \in [keys -> Outcomes]
           /\ FromPage(page, f, FirstOutcomes(page, f))
<1> DEFINE mine == {e \in page : e.flowId = f}
           keys == {e.childKey : e \in mine}
           IsFirst(k, e) == /\ e.childKey = k
                            /\ \A d \in mine :
                                  d.childKey = k => e.stamp <= d.stamp
           First(k) == CHOOSE e \in mine : IsFirst(k, e)
<1>1. FirstOutcomes(page, f) = [k \in keys |-> First(k).outcome]
  BY DEF FirstOutcomes
<1>2. ASSUME NEW k \in keys
      PROVE  First(k) \in page /\ First(k).flowId = f /\ First(k).childKey = k
  <2> DEFINE T == {e \in mine : e.childKey = k}
  <2>1. T \in SUBSET CT!OutboxEntry /\ T # {}
    BY <1>2
  <2>2. PICK e \in T : \A d \in T : e.stamp <= d.stamp
    BY <2>1, LeastStamp
  <2>3. e \in mine /\ IsFirst(k, e)
    BY <2>2
  <2>4. First(k) \in mine /\ IsFirst(k, First(k))
    BY <2>3
  <2> QED
    BY <2>4
<1>3. keys \in SUBSET ChildKeys
  BY EntryType
<1>4. \A k \in keys : First(k).outcome \in Outcomes
  BY <1>2, EntryType
<1> HIDE DEF keys, First
<1>5. FirstOutcomes(page, f) \in [keys -> Outcomes]
  BY <1>1, <1>4
<1> QED
  BY <1>1, <1>2, <1>3, <1>5 DEF FromPage

-----------------------------------------------------------------------------
(* The parents' store runs as its specification says                       *)

\* The parents' store is left alone.
ParentsAlone == UNCHANGED <<now, pVars>>

\* A sweeper reports the child it has in hand.
FromSweep(s, f, reports) ==
    /\ sweeps[s].stage = "report"
    /\ sweeps[s].child[1] = f
    /\ reports = [k \in {sweeps[s].child[2]} |-> sweeps[s].outcome]

\* recordChildResults, and where the reports come from.
Recording(f, reports) ==
    /\ PT!RecordChildResults(f, reports)
    /\ \E keys \in SUBSET ChildKeys : reports \in [keys -> Outcomes]
    /\ \/ \E r \in Relays : FromPage(relays[r].page, f, reports)
       \/ \E s \in Sweepers : FromSweep(s, f, reports)

\* markChildrenCascaded, of children a sweeper has dealt with.
Marking(f, keys) ==
    /\ PT!MarkChildrenCascaded(f, keys)
    /\ keys \in SUBSET ChildKeys
    /\ \E s \in Sweepers : \A k \in keys : <<f, k>> \in sweeps[s].done

\* The first FanOut of a parent.
FanningOut(f, token, children) ==
    /\ children \in SUBSET ChildKeys
    /\ pJobs[f].flow = None
    /\ PT!AckFanOut(f, token, children, scenario.failFast)

(* The steps as seen by the parents' store.                                *)
ParentSteps ==
    \/ ParentsAlone
    \/ \E f \in FlowIds :
          \/ PT!Enqueue(ParentRequest(f), f)
          \/ PT!Cancel(f)
          \/ \E token \in 1..pToken :
                \/ \E outcome \in Outcomes :
                      PT!AckTerminal(f, token, outcome, outcome # "cancelled")
                \/ \E children : FanningOut(f, token, children)
          \/ \E reports : Recording(f, reports)
          \/ \E keys : Marking(f, keys)
    \/ PT!Claim("flows", {"parent"}, 1)
    \/ PT!RecoverStalled
    \/ \E page : PT!FlowSweepWork(page)
    \/ Tick

LEMMA ChildStepsAlone ==
    ASSUME \/ ChildRuns \/ RecoverChildren
           \/ \E c \in ChildIds :
                 OperatorCancelsChild(c) \/ OperatorRetriesChild(c)
    PROVE  ParentsAlone
BY ChildCallsTime, ChildClaimSame, ChildCancelSame, ChildAckSame,
   ChildRecoverSame, ChildRetrySame
   DEF ChildRuns, ClaimChild, FinishChild, RecoverChildren,
       OperatorCancelsChild, OperatorRetriesChild, ParentsAlone

LEMMA ChildCallsAlone ==
    ASSUME NEW c \in ChildIds, EnqueueChild(c) \/ CancelChild(c),
           UNCHANGED pVars
    PROVE  ParentsAlone
BY ChildCallsTime, ChildEnqueueSame, ChildCancelSame
   DEF EnqueueChild, CancelChild, ParentsAlone

LEMMA RecordingSteps ==
    ASSUME NEW f \in FlowIds, NEW reports, RecordReports(f, reports),
           \E keys \in SUBSET ChildKeys : reports \in [keys -> Outcomes],
           \/ \E r \in Relays : FromPage(relays[r].page, f, reports)
           \/ \E s \in Sweepers : FromSweep(s, f, reports)
    PROVE  ParentSteps
BY RecordSame DEF RecordReports, ParentSteps, ParentsAlone, Recording

LEMMA SweepParentSteps ==
    ASSUME SweepsTyped, NEW s \in Sweepers, SweepNext(s)
    PROVE  ParentSteps
<1>1. CASE SweepBegin(s)
  BY <1>1, SweepWorkSame DEF SweepBegin, ParentSteps, ParentsAlone
<1>2. CASE \/ SweepEnd(s) \/ ReconcileBefore(s) \/ ReconcileAfter(s)
           \/ \E c \in ChildIds : ReconcileRead(s, c)
  BY <1>2 DEF SweepEnd, ReconcileBefore, ReconcileAfter, ReconcileRead,
              SweepOnly, ParentSteps, ParentsAlone
<1>3. ASSUME ReconcileEnqueue(s) \/ ReconcileCancel(s)
      PROVE  ParentSteps
  <2>1. sweeps[s].child \in ChildIds
    BY <1>3, PassType DEF ReconcileEnqueue, ReconcileCancel, Pass
  <2> QED
    BY <1>3, <2>1, ChildCallsAlone
       DEF ReconcileEnqueue, ReconcileCancel, ParentSteps
<1>4. ASSUME ReconcileReport(s)
      PROVE  ParentSteps
  <2> DEFINE c == sweeps[s].child
             reports == [k \in {c[2]} |-> sweeps[s].outcome]
  <2>1. sweeps[s].stage = "report" /\ RecordReports(c[1], reports)
    BY <1>4 DEF ReconcileReport
  <2>2. c \in ChildIds /\ sweeps[s].outcome \in Outcomes
    BY <2>1, PassType DEF Pass
  <2>3. /\ c[1] \in FlowIds /\ {c[2]} \in SUBSET ChildKeys
        /\ reports \in [{c[2]} -> Outcomes]
    BY <2>2 DEF ChildIds
  <2>4. FromSweep(s, c[1], reports)
    BY <2>1 DEF FromSweep
  <2> QED
    BY <2>1, <2>3, <2>4, RecordingSteps
<1>5. CASE \E c \in ChildIds : CascadeCancel(s, c)
  BY <1>5, ChildCallsAlone DEF CascadeCancel, ParentSteps
<1>6. ASSUME NEW f \in FlowIds, CascadeMark(s, f)
      PROVE  ParentSteps
  <2> DEFINE gone == {c \in sweeps[s].done : c[1] = f}
             keys == {c[2] : c \in gone}
  <2>1. PT!MarkChildrenCascaded(f, keys)
    BY <1>6, MarkCascadedSame DEF CascadeMark
  <2>2. \A c \in gone : c = <<f, c[2]>> /\ c[2] \in ChildKeys
    BY PassType DEF Pass, ChildIds
  <2>3. keys \in SUBSET ChildKeys /\ \A k \in keys : <<f, k>> \in sweeps[s].done
    BY <2>2
  <2> QED
    BY <2>1, <2>3 DEF Marking, ParentSteps
<1> QED
  BY <1>1, <1>2, <1>3, <1>4, <1>5, <1>6 DEF SweepNext

LEMMA ParentRunSteps ==
    ASSUME FanOutsTyped, ParentRuns
    PROVE  ParentSteps
<1>1. CASE ClaimParent
  BY <1>1, ParentClaimSame DEF ClaimParent, ParentSteps
<1>2. ASSUME NEW f \in FlowIds, NEW token \in 1..pToken,
             NEW outcome \in Outcomes, FinishParent(f, token, outcome)
      PROVE  ParentSteps
  BY <1>2, ParentAckSame DEF FinishParent, ParentSteps
<1>3. ASSUME NEW f \in FlowIds, NEW token \in 1..pToken,
             NEW children \in SUBSET scenario.keys,
             AckFanOut(f, token, children)
      PROVE  ParentSteps
  <2>1. children \in SUBSET ChildKeys
    BY DEF FanOutsTyped, Scenario
  <2>2. FanningOut(f, token, children)
    BY <1>3, <2>1, ParentFanOutSame DEF AckFanOut, FanningOut
  <2> QED
    BY <2>2 DEF ParentSteps
<1> QED
  BY <1>1, <1>2, <1>3 DEF ParentRuns

LEMMA ParentUse ==
    ASSUME Typed, RelaysTyped, [Next]_vars
    PROVE  ParentSteps
<1>1. CASE ParentRuns
  BY <1>1, ParentRunSteps DEF Typed
<1>2. CASE ChildRuns
  BY <1>2, ChildStepsAlone DEF ParentSteps
<1>3. CASE FanOutNext
  <2>1. CASE \E f \in FlowIds : CheckParked(f)
    BY <2>1 DEF CheckParked, ParentSteps, ParentsAlone
  <2>2. CASE \E f \in FlowIds, k \in ChildKeys : FastEnqueue(f, k)
    BY <2>2, ChildCallsAlone DEF FastEnqueue, ChildIds, ParentSteps
  <2> QED
    BY <1>3, <2>1, <2>2 DEF FanOutNext
<1>4. CASE Environment
  <2>1. CASE RecoverParents
                \/ \E f \in FlowIds : EnqueueParent(f) \/ CancelParent(f)
    BY <2>1, ParentEnqueueSame, ParentCancelSame, ParentRecoverSame
       DEF RecoverParents, EnqueueParent, CancelParent, ParentSteps
  <2>2. CASE RecoverChildren
                \/ \E c \in ChildIds :
                      OperatorCancelsChild(c) \/ OperatorRetriesChild(c)
    BY <2>2, ChildStepsAlone DEF ParentSteps
  <2>3. CASE Crash
    BY <2>3 DEF Crash, ParentSteps, ParentsAlone
  <2>4. CASE Tick
    BY <2>4 DEF ParentSteps
  <2> QED
    BY <1>4, <2>1, <2>2, <2>3, <2>4 DEF Environment
<1>5. ASSUME NEW r \in Relays, RelayNext(r)
      PROVE  ParentSteps
  <2>1. CASE RelayPeek(r)
    BY <2>1 DEF RelayPeek, ParentSteps, ParentsAlone
  <2>2. CASE RelayDelete(r)
    BY <2>2, DeleteOutboxSame, ChildCallsTime
       DEF RelayDelete, ParentSteps, ParentsAlone
  <2>3. ASSUME NEW f \in FlowIds, RelayDeliver(r, f)
        PROVE  ParentSteps
    <3>1. relays[r].page \in SUBSET CT!OutboxEntry
      BY DEF RelaysTyped
    <3>2. RecordReports(f, FirstOutcomes(relays[r].page, f))
      BY <2>3 DEF RelayDeliver
    <3> QED
      BY <3>1, <3>2, FirstOutcomesType, RecordingSteps
  <2> QED
    BY <1>5, <2>1, <2>2, <2>3 DEF RelayNext
<1>6. CASE \E s \in Sweepers : SweepNext(s)
  BY <1>6, SweepParentSteps DEF Typed
<1>7. CASE UNCHANGED vars
  BY <1>7 DEF vars, ParentSteps, ParentsAlone
<1> QED
  BY <1>1, <1>2, <1>3, <1>4, <1>5, <1>6, <1>7 DEF Next

LEMMA ParentStepsStore ==
    ASSUME Typed, ParentSteps
    PROVE  [PT!Next]_(PT!vars)
<1>1. CASE ParentsAlone
  BY <1>1 DEF ParentsAlone, pVars, PT!vars
<1>2. CASE Tick
  BY <1>2, TickSame DEF PT!Next, Typed
<1>3. ASSUME NEW f \in FlowIds,
             PT!Enqueue(ParentRequest(f), f) \/ PT!Cancel(f)
      PROVE  PT!Next
  BY <1>3 DEF PT!Next, PT!ProducerNext, PT!AdminNext
<1>4. ASSUME NEW f \in FlowIds, NEW token \in 1..pToken,
             NEW outcome \in Outcomes,
             PT!AckTerminal(f, token, outcome, outcome # "cancelled")
      PROVE  PT!Next
  <2>1. outcome \in PT!TerminalStates /\ (outcome # "cancelled") \in BOOLEAN
    BY DEF Outcomes, PT!TerminalStates
  <2> QED
    BY <1>4, <2>1 DEF PT!Next, PT!WorkerNext, PT!Tokens
<1>5. ASSUME NEW f \in FlowIds, NEW token \in 1..pToken, NEW children,
             FanningOut(f, token, children)
      PROVE  PT!Next
  <2>1. children \in SUBSET ChildKeys /\ scenario.failFast \in BOOLEAN
    BY <1>5 DEF FanningOut, Typed, FanOutsTyped, Scenario
  <2> QED
    BY <1>5, <2>1 DEF FanningOut, PT!Next, PT!WorkerNext, PT!Tokens
<1>6. ASSUME NEW f \in FlowIds, NEW reports, Recording(f, reports)
      PROVE  PT!Next
  <2>1. Outcomes = PT!TerminalStates
    BY DEF Outcomes, PT!TerminalStates
  <2> QED
    BY <1>6, <2>1 DEF Recording, PT!Next, PT!FlowNext
<1>7. ASSUME NEW f \in FlowIds, NEW keys, Marking(f, keys)
      PROVE  PT!Next
  BY <1>7 DEF Marking, PT!Next, PT!FlowNext
<1>8. PT!Claim("flows", {"parent"}, 1) \/ PT!RecoverStalled => PT!Next
  BY DEF PT!Next, PT!WorkerNext
<1>9. ASSUME NEW page, PT!FlowSweepWork(page)
      PROVE  PT!Next
  <2>1. page \in SUBSET [flowId : FlowIds, childKey : ChildKeys]
    BY <1>9 DEF PT!FlowSweepWork, PT!Reconcilable
  <2> QED
    BY <1>9, <2>1 DEF PT!Next, PT!FlowNext
<1> QED
  BY <1>1, <1>2, <1>3, <1>4, <1>5, <1>6, <1>7, <1>8, <1>9 DEF ParentSteps

LEMMA ParentInit == Init => PT!Init
BY DEF Init, PT!Init, PT!NoRows, PT!DedupeMapKeys

LEMMA RelaysInit == Init => RelaysTyped
BY DEF Init, RelaysTyped, NoPage

LEMMA PagesTyped == Spec => []RelaysTyped
<1>1. CT!TypeOK => cOutbox \subseteq CT!OutboxEntry
  BY DEF CT!TypeOK
<1>2. RelaysTyped /\ CT!TypeOK /\ [Next]_vars => RelaysTyped'
  BY <1>1, RelaysStep
<1> QED
  BY <1>2, RelaysInit, ChildrenRun, ChildrenKnown, PTL DEF Spec

(* Whatever workers, relays and sweepers do with them, each of the two     *)
(* stores runs as the store's own specification says: what is proved of    *)
(* the store's locks, cancels, flow counters and rows holds of both.       *)
THEOREM StoresOfFlows == Spec => PT!Spec /\ CT!Spec
<1>1. Typed /\ RelaysTyped /\ [Next]_vars => [PT!Next]_(PT!vars)
  BY ParentUse, ParentStepsStore
<1> QED
  BY <1>1, ParentInit, FibersTyped, PagesTyped, ChildrenRun, PTL
     DEF Spec, PT!Spec

(* The fibers' state keeps its type: a child is in hand exactly while its  *)
(* row is reconciled, an outcome exactly while it is being reported, and   *)
(* relays deliver to flows.                                                *)
THEOREM TypeCorrect == Spec => []TypeOK
<1>1. Typed /\ RelaysTyped => TypeOK
  <2> SUFFICES ASSUME Typed, RelaysTyped PROVE TypeOK
    OBVIOUS
  <2>1. \A s \in Sweepers : sweeps[s] \in Pass
    BY PassType DEF Typed
  <2>2. \A r \in Relays : relays[r].flows \subseteq FlowIds
    BY DEF RelaysTyped
  <2> QED
    BY <2>1, <2>2 DEF Typed, FanOutsTyped, Pass, Stages, TypeOK
<1> QED
  BY <1>1, FibersTyped, PagesTyped, PTL

=============================================================================
