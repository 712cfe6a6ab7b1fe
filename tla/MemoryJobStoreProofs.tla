----------------------- MODULE MemoryJobStoreProofs -----------------------
(***************************************************************************)
(* Proofs about MemoryJobStore, for every value of its constants: its      *)
(* types, and the lock discipline.  LockInv is inductive relative to       *)
(* TypeOK, and a cancel that reached an active job sticks.                 *)
(*                                                                         *)
(* The argument about locks: every operation but a successful claim either *)
(* drops a record, or releases its lock (and then, if a cancel was         *)
(* pending, the record is terminal), or leaves its lock alone.  A claim    *)
(* puts a fresh token on a job that was not active.                        *)
(*                                                                         *)
(* The second half is about how jobs end and what that does to their dedup *)
(* keys: ResultInv, StallBudget, KeyFreedWhenDone, OneEnqueuedPerKey,      *)
(* LiveWindowKept.                                                         *)
(***************************************************************************)
EXTENDS MemoryJobStore, FiniteSetTheorems, TLAPS

-----------------------------------------------------------------------------
(* Types of the helpers                                                    *)

JobMap == [JobIds -> Opt(MemJob)]
Row == [ChildKeys -> Opt(MemFlowChild)]

(* A lookup that is not None is a record.                                  *)
LEMMA HasType ==
    ASSUME NEW js \in JobMap, NEW id \in JobIds, Has(js, id)
    PROVE  js[id] \in MemJob
BY DEF JobMap, Has, Opt

(* Storing a record keeps the map a map of records.                        *)
LEMMA PutType ==
    ASSUME NEW js \in JobMap, NEW id \in JobIds, NEW j \in MemJob
    PROVE  [js EXCEPT ![id] = j] \in JobMap
BY DEF JobMap, Opt

(* Updating one field with a value of its type keeps a record a record.    *)
LEMMA FieldTypes ==
    ASSUME NEW j \in MemJob
    PROVE  /\ \A x \in JobStates : [j EXCEPT !.state = x] \in MemJob
           /\ \A x \in BOOLEAN : [j EXCEPT !.cancelRequested = x] \in MemJob
           /\ \A x \in BOOLEAN : [j EXCEPT !.exit = x] \in MemJob
           /\ \A x \in BOOLEAN : [j EXCEPT !.failedReason = x] \in MemJob
           /\ \A x \in Nat : [j EXCEPT !.attemptsMade = x] \in MemJob
           /\ \A x \in Nat : [j EXCEPT !.stalledCount = x] \in MemJob
           /\ \A x \in Nat : [j EXCEPT !.runAt = x] \in MemJob
           /\ \A x \in Nat : [j EXCEPT !.seq = x] \in MemJob
           /\ \A x \in Opt(Nat) : [j EXCEPT !.finishedAt = x] \in MemJob
           /\ \A x \in Opt(Nat) : [j EXCEPT !.lockToken = x] \in MemJob
           /\ \A x \in Opt(Nat) : [j EXCEPT !.lockExpiresAt = x] \in MemJob
           /\ \A x \in Opt(FlowState) : [j EXCEPT !.flow = x] \in MemJob
<1>1. ASSUME NEW x \in JobStates PROVE [j EXCEPT !.state = x] \in MemJob
  BY DEF MemJob
<1>2. ASSUME NEW x \in BOOLEAN PROVE [j EXCEPT !.cancelRequested = x] \in MemJob
  BY DEF MemJob
<1>3. ASSUME NEW x \in BOOLEAN PROVE [j EXCEPT !.exit = x] \in MemJob
  BY DEF MemJob
<1>4. ASSUME NEW x \in BOOLEAN PROVE [j EXCEPT !.failedReason = x] \in MemJob
  BY DEF MemJob
<1>5. ASSUME NEW x \in Nat PROVE [j EXCEPT !.attemptsMade = x] \in MemJob
  BY DEF MemJob
<1>6. ASSUME NEW x \in Nat PROVE [j EXCEPT !.stalledCount = x] \in MemJob
  BY DEF MemJob
<1>7. ASSUME NEW x \in Nat PROVE [j EXCEPT !.runAt = x] \in MemJob
  BY DEF MemJob
<1>8. ASSUME NEW x \in Nat PROVE [j EXCEPT !.seq = x] \in MemJob
  BY DEF MemJob
<1>9. ASSUME NEW x \in Opt(Nat) PROVE [j EXCEPT !.finishedAt = x] \in MemJob
  BY DEF MemJob
<1>10. ASSUME NEW x \in Opt(Nat) PROVE [j EXCEPT !.lockToken = x] \in MemJob
  BY DEF MemJob
<1>11. ASSUME NEW x \in Opt(Nat) PROVE [j EXCEPT !.lockExpiresAt = x] \in MemJob
  BY DEF MemJob
<1>12. ASSUME NEW x \in Opt(FlowState) PROVE [j EXCEPT !.flow = x] \in MemJob
  BY DEF MemJob
<1> QED
  BY <1>1, <1>2, <1>3, <1>4, <1>5, <1>6, <1>7, <1>8, <1>9, <1>10, <1>11, <1>12

(* clearLock keeps a record a record.                                      *)
LEMMA ClearLockType ==
    ASSUME NEW j \in MemJob
    PROVE  ClearLock(j) \in MemJob
BY DEF ClearLock, MemJob, Opt

(* recordAttempt keeps a record a record.                                  *)
LEMMA RecordAttemptType ==
    ASSUME NEW j \in MemJob, NEW outcome \in AttemptOutcomes
    PROVE  RecordAttempt(j, outcome) \in MemJob
<1>1. j.attempts \in Seq(AttemptOutcomes)
  BY DEF MemJob
<1>2. Append(j.attempts, outcome) \in Seq(AttemptOutcomes)
  BY <1>1
<1>3. ASSUME NEW a \in Seq(AttemptOutcomes)
      PROVE  [j EXCEPT !.attempts = a] \in MemJob
  BY DEF MemJob
<1> QED
  BY <1>2, <1>3 DEF RecordAttempt

(* The terminal fields keep a record a record.                             *)
LEMMA FinishType ==
    ASSUME NEW j \in MemJob, NEW state \in TerminalStates, now \in Nat
    PROVE  Finish(j, state) \in MemJob
<1>1. ASSUME NEW c \in MemJob
      PROVE  [c EXCEPT !.cancelRequested = FALSE, !.state = state,
                       !.finishedAt = now] \in MemJob
  <2>1. [c EXCEPT !.cancelRequested = FALSE] \in MemJob
    BY FieldTypes
  <2>2. [c EXCEPT !.cancelRequested = FALSE, !.state = state] \in MemJob
    BY <2>1, FieldTypes DEF JobStates
  <2> QED
    BY <2>2, FieldTypes DEF Opt
<1>2. state \in AttemptOutcomes
  BY DEF TerminalStates, AttemptOutcomes
<1>3. ClearLock(j) \in MemJob
  BY ClearLockType
<1>4. [ClearLock(j) EXCEPT !.cancelRequested = FALSE, !.state = state,
                           !.finishedAt = now] \in MemJob
  BY <1>1, <1>3
<1> QED
  BY <1>2, <1>4, RecordAttemptType DEF Finish

(* What Finish sets.                                                       *)
LEMMA FinishState ==
    ASSUME NEW j \in MemJob, NEW state
    PROVE  /\ Finish(j, state).state = state
           /\ Finish(j, state).lockToken = None
           /\ Finish(j, state).lockExpiresAt = None
           /\ Finish(j, state).cancelRequested = FALSE
BY DEF Finish, RecordAttempt, ClearLock, MemJob

(* insertJobRecord builds a record.                                        *)
LEMMA NewJobType ==
    ASSUME NEW r \in EnqueueRequest, now \in Nat, seq \in Nat
    PROVE  NewJob(r) \in MemJob
BY DEF NewJob, MemJob, EnqueueRequest, Opt, JobStates, DedupePolicy

(* promoteDue changes states only.                                         *)
LEMMA PromoteDueType ==
    ASSUME NEW js \in JobMap
    PROVE  PromoteDue(js) \in JobMap
<1>1. ASSUME NEW j \in MemJob
      PROVE  [j EXCEPT !.state = "waiting"] \in MemJob
  BY DEF MemJob, JobStates
<1>2. ASSUME NEW id \in JobIds
      PROVE  PromoteDue(js)[id] \in Opt(MemJob)
  <2>1. CASE Has(js, id) /\ js[id].state = "delayed" /\ js[id].runAt <= now
    <3>1. PromoteDue(js)[id] = [js[id] EXCEPT !.state = "waiting"]
      BY <2>1 DEF PromoteDue
    <3> QED
      BY <2>1, <3>1, <1>1, HasType DEF Opt
  <2>2. CASE ~(Has(js, id) /\ js[id].state = "delayed" /\ js[id].runAt <= now)
    BY <2>2 DEF PromoteDue, JobMap
  <2> QED
    BY <2>1, <2>2
<1> QED
  BY <1>2 DEF PromoteDue, JobMap

(* Deleting entries keeps a map's type when `absent` is allowed.           *)
LEMMA WithoutType ==
    ASSUME NEW S, NEW f \in [JobIds -> S], NEW ids, NEW absent \in S
    PROVE  Without(f, ids, absent) \in [JobIds -> S]
BY DEF Without

(* The keys of one status are finitely many.                               *)
LEMMA WithStatusFinite ==
    ASSUME NEW row, NEW status
    PROVE  /\ WithStatus(row, status) \subseteq ChildKeys
           /\ IsFiniteSet(WithStatus(row, status))
           /\ Cardinality(WithStatus(row, status)) \in Nat
<1>1. WithStatus(row, status) \subseteq ChildKeys
  BY DEF WithStatus
<1>2. IsFiniteSet(ChildKeys)
  BY ConstantsAssumption
<1> QED
  BY <1>1, <1>2, FS_Subset, FS_CardinalityType

(* settleMarkRows keeps rows and counters well-typed.                      *)
LEMMA MarkType ==
    ASSUME NEW row \in Row
    PROVE  MarkPendingRowsCancelled(row) \in Row
BY DEF MarkPendingRowsCancelled, Row, WithStatus, MemFlowChild, Opt,
       TerminalStates

(* The counters stay numbers when the pending rows are settled.            *)
LEMMA SettleFlowType ==
    ASSUME NEW flow \in Opt(FlowState), NEW row
    PROVE  SettleFlow(flow, row) \in Opt(FlowState)
<1>1. Cardinality(WithStatus(row, "pending")) \in Nat
  BY WithStatusFinite
<1>2. ASSUME NEW f \in FlowState, NEW n \in Nat
      PROVE  [f EXCEPT !.pending = 0, !.cancelled = @ + n] \in FlowState
  <2>1. [f EXCEPT !.pending = 0] \in FlowState
    BY DEF FlowState
  <2>2. f.cancelled + n \in Nat
    BY DEF FlowState
  <2>3. ASSUME NEW g \in FlowState, NEW m \in Nat
        PROVE  [g EXCEPT !.cancelled = m] \in FlowState
    BY DEF FlowState
  <2> QED
    BY <2>1, <2>2, <2>3
<1> QED
  BY <1>1, <1>2 DEF SettleFlow, Opt

(* The variables a terminal transition rewrites.                           *)
RetiredTypeOK ==
    /\ jobs \in JobMap
    /\ flowChildren \in [JobIds -> Row]
    /\ dedupes \in [DedupeMapKeys -> Opt(DedupeEntry)]
    /\ outbox \subseteq OutboxEntry
    /\ outboxSeq \in Nat

(* Report, release and retention keep the types.                           *)
LEMMA RetireType ==
    ASSUME TypeOK,
           NEW js \in JobMap, NEW rs \in [JobIds -> Row],
           NEW done \in SUBSET JobIds, NEW kept \in SUBSET JobIds,
           \A d \in done : Has(js, d) /\ Terminal(js[d]),
           Retire(js, rs, done, kept)
    PROVE  RetiredTypeOK'
<1>1. jobs' \in JobMap
  <2>1. PICK victims : jobs' = Without(js, victims, None)
    BY DEF Retire
  <2> QED
    BY <2>1, WithoutType DEF JobMap, Opt
<1>2. flowChildren' \in [JobIds -> Row]
  <2>1. NoRows \in Row
    BY DEF NoRows, Row, Opt
  <2>2. PICK victims : flowChildren' = Without(rs, victims, NoRows)
    BY DEF Retire
  <2> QED
    BY <2>1, <2>2, WithoutType
<1>3. dedupes' \in [DedupeMapKeys -> Opt(DedupeEntry)]
  BY DEF Retire, ReleaseDedupe, TypeOK, Opt
<1>4. outboxSeq \in Nat /\ outboxSeq + 1 \in Nat
  BY DEF TypeOK
<1>5. Reports(js, done) \subseteq OutboxEntry
  <2> SUFFICES ASSUME NEW d \in done, js[d].parent # None
               PROVE  Report(js[d]) \in OutboxEntry
    BY DEF Reports
  <2>1. js[d] \in MemJob /\ js[d].state \in TerminalStates
    BY HasType DEF Terminal
  <2>2. js[d].parent \in ParentEnvelope /\ js[d].exit \in BOOLEAN
            /\ js[d].failedReason \in BOOLEAN
    BY <2>1 DEF MemJob, Opt
  <2> QED
    BY <2>1, <2>2, <1>4 DEF Report, OutboxEntry, ParentEnvelope
<1>6. outbox' \subseteq OutboxEntry
  BY <1>5 DEF Retire, TypeOK
<1>7. outboxSeq' \in Nat
  BY <1>4 DEF Retire
<1> QED
  BY <1>1, <1>2, <1>3, <1>6, <1>7 DEF RetiredTypeOK

(* markCancelled keeps the types.                                          *)
LEMMA MarkCancelledType ==
    ASSUME TypeOK, NEW id \in JobIds, NEW j \in MemJob, MarkCancelled(id, j)
    PROVE  RetiredTypeOK'
<1> DEFINE parked == j.state = "waiting-children"
           row == flowChildren[id]
           j1 == [j EXCEPT !.flow = IF parked THEN SettleFlow(@, row) ELSE @]
           js == [jobs EXCEPT ![id] = Finish(j1, "cancelled")]
           rs == [flowChildren EXCEPT ![id] =
                     IF parked THEN MarkPendingRowsCancelled(row) ELSE row]
<1>1. j.flow \in Opt(FlowState)
  BY DEF MemJob
<1>2. (IF parked THEN SettleFlow(j.flow, row) ELSE j.flow) \in Opt(FlowState)
  BY <1>1, SettleFlowType
<1>3. j1 \in MemJob
  BY <1>2, FieldTypes
<1>4. Finish(j1, "cancelled") \in MemJob
  BY <1>3, FinishType DEF TypeOK, TerminalStates
<1>5. js \in JobMap
  BY <1>4, PutType DEF TypeOK, JobMap
<1>6. rs \in [JobIds -> Row]
  <2>1. row \in Row
    BY DEF TypeOK, Row
  <2> QED
    BY <2>1, MarkType DEF TypeOK, Row
<1>7. Has(js, id) /\ Terminal(js[id])
  <2>1. js[id] = Finish(j1, "cancelled")
    BY DEF TypeOK
  <2>2. Finish(j1, "cancelled").state = "cancelled"
    BY <1>3, FinishState DEF TerminalStates
  <2> QED
    BY <2>1, <2>2, <1>4, NoneAssumption DEF Has, Terminal, TerminalStates
<1>8. Retire(js, rs, {id}, {id})
  BY DEF MarkCancelled
<1> HIDE DEF js, rs
<1> QED
  BY <1>5, <1>6, <1>7, <1>8, RetireType

(* Types of the records the operations write.                              *)
LEMMA AckedType ==
    ASSUME TypeOK, NEW id \in JobIds, Has(jobs, id)
    PROVE  Acked(id) \in MemJob
<1>1. ClearLock(jobs[id]) \in MemJob
  BY HasType, ClearLockType DEF TypeOK, JobMap
<1>2. ASSUME NEW c \in MemJob
      PROVE  [c EXCEPT !.attemptsMade = @ + 1] \in MemJob
  BY FieldTypes DEF MemJob
<1> QED
  BY <1>1, <1>2 DEF Acked

(* A record revived by retry is a record.                                  *)
LEMMA ReviveType ==
    ASSUME NEW j \in MemJob, now \in Nat, seq \in Nat
    PROVE  Revive(j) \in MemJob
<1> DEFINE a == [j EXCEPT !.state = "waiting", !.attemptsMade = 0]
           b == [a EXCEPT !.stalledCount = 0, !.cancelRequested = FALSE]
           c == [b EXCEPT !.exit = FALSE, !.failedReason = FALSE]
           d == [c EXCEPT !.finishedAt = None, !.runAt = now]
<1>1. [j EXCEPT !.state = "waiting"] \in MemJob
  BY FieldTypes DEF JobStates
<1>2. a \in MemJob
  BY <1>1, FieldTypes
<1>3. [a EXCEPT !.stalledCount = 0] \in MemJob
  BY <1>2, FieldTypes
<1>4. b \in MemJob
  BY <1>3, FieldTypes
<1>5. [b EXCEPT !.exit = FALSE] \in MemJob
  BY <1>4, FieldTypes
<1>6. c \in MemJob
  BY <1>5, FieldTypes
<1>7. [c EXCEPT !.finishedAt = None] \in MemJob
  BY <1>6, FieldTypes DEF Opt
<1>8. d \in MemJob
  BY <1>7, FieldTypes
<1>9. [d EXCEPT !.seq = seq + 1] \in MemJob
  <2>1. seq + 1 \in Nat
    OBVIOUS
  <2> QED
    BY <2>1, <1>8, FieldTypes
<1> QED
  BY <1>9 DEF Revive

(* What recoverStalled writes for a stalled job is a record.               *)
LEMMA RecoveredJobType ==
    ASSUME NEW j \in MemJob, now \in Nat
    PROVE  RecoveredJob(j) \in MemJob
<1> DEFINE a == RecordAttempt(ClearLock(j), "stalled")
<1>1. a \in MemJob
  BY ClearLockType, RecordAttemptType DEF AttemptOutcomes
<1>2. [a EXCEPT !.stalledCount = @ + 1] \in MemJob
  <2>1. a.stalledCount + 1 \in Nat
    BY <1>1 DEF MemJob
  <2> HIDE DEF a
  <2> QED
    BY <1>1, <2>1, FieldTypes
<1>3. ASSUME NEW c \in MemJob
      PROVE  /\ [c EXCEPT !.state = "failed", !.finishedAt = now,
                          !.failedReason = TRUE] \in MemJob
             /\ [c EXCEPT !.state = "waiting"] \in MemJob
  <2>1. [c EXCEPT !.state = "failed"] \in MemJob
            /\ [c EXCEPT !.state = "waiting"] \in MemJob
    BY FieldTypes DEF JobStates, TerminalStates
  <2>2. [c EXCEPT !.state = "failed", !.finishedAt = now] \in MemJob
    BY <2>1, FieldTypes DEF Opt
  <2> QED
    BY <2>1, <2>2, FieldTypes
<1>4. Finish(j, "cancelled") \in MemJob
  BY FinishType DEF TerminalStates
<1> HIDE DEF a
<1> QED
  BY <1>2, <1>3, <1>4 DEF RecoveredJob, a

(* A batch applies to finitely many rows.                                  *)
LEMMA AppliedKeysFinite ==
    ASSUME NEW row, NEW reports, NEW S \in SUBSET AppliedKeys(row, reports)
    PROVE  Cardinality(S) \in Nat
<1>1. AppliedKeys(row, reports) \subseteq ChildKeys
  BY DEF AppliedKeys, WithStatus
<1>2. IsFiniteSet(ChildKeys)
  BY ConstantsAssumption
<1> QED
  BY <1>1, <1>2, FS_Subset, FS_CardinalityType

(* Reported rows are rows.                                                 *)
LEMMA ReportedRowType ==
    ASSUME NEW row \in Row, NEW reports,
           \A k \in DOMAIN reports : reports[k] \in TerminalStates
    PROVE  ReportedRow(row, reports) \in Row
<1>1. ASSUME NEW k \in AppliedKeys(row, reports)
      PROVE  row[k] \in MemFlowChild /\ reports[k] \in TerminalStates
  BY <1>1 DEF AppliedKeys, WithStatus, Row, Opt
<1>2. ASSUME NEW c \in MemFlowChild, NEW status \in TerminalStates
      PROVE  [c EXCEPT !.status = status, !.cascaded = TRUE] \in MemFlowChild
  BY DEF MemFlowChild
<1>3. ASSUME NEW k \in ChildKeys
      PROVE  ReportedRow(row, reports)[k] \in Opt(MemFlowChild)
  BY <1>1, <1>2 DEF ReportedRow, Row, Opt
<1> QED
  BY <1>3 DEF ReportedRow, Row

(* The counters stay numbers when a batch of reports is counted.           *)
LEMMA CountedType ==
    ASSUME NEW flow \in FlowState, NEW row, NEW reports
    PROVE  Counted(flow, row, reports) \in FlowState
<1> DEFINE applied == AppliedKeys(row, reports)
           Count(outcome) == Cardinality({k \in applied : reports[k] = outcome})
           a == [flow EXCEPT !.pending = Max0(@ - Cardinality(applied))]
           b == [a EXCEPT !.completed = @ + Count("completed")]
           c == [b EXCEPT !.failed = @ + Count("failed")]
           d == [c EXCEPT !.cancelled = @ + Count("cancelled")]
<1>1. Cardinality(applied) \in Nat
  BY AppliedKeysFinite
<1>2. ASSUME NEW outcome PROVE Count(outcome) \in Nat
  <2>1. {k \in applied : reports[k] = outcome} \subseteq applied
    OBVIOUS
  <2> QED
    BY <2>1, AppliedKeysFinite
<1>3. ASSUME NEW g \in FlowState, NEW n \in Nat
      PROVE  /\ [g EXCEPT !.pending = n] \in FlowState
             /\ [g EXCEPT !.completed = n] \in FlowState
             /\ [g EXCEPT !.failed = n] \in FlowState
             /\ [g EXCEPT !.cancelled = n] \in FlowState
             /\ g.pending \in Nat /\ g.completed + n \in Nat
             /\ g.failed + n \in Nat /\ g.cancelled + n \in Nat
  <2>1. [g EXCEPT !.pending = n] \in FlowState BY DEF FlowState
  <2>2. [g EXCEPT !.completed = n] \in FlowState BY DEF FlowState
  <2>3. [g EXCEPT !.failed = n] \in FlowState BY DEF FlowState
  <2>4. [g EXCEPT !.cancelled = n] \in FlowState BY DEF FlowState
  <2>5. /\ g.pending \in Nat /\ g.completed + n \in Nat
        /\ g.failed + n \in Nat /\ g.cancelled + n \in Nat
    BY DEF FlowState
  <2> QED
    BY <2>1, <2>2, <2>3, <2>4, <2>5
<1>4. Counted(flow, row, reports) = d
  BY DEF Counted
<1> HIDE DEF applied, Count
<1>5. a \in FlowState
  <2>1. Max0(flow.pending - Cardinality(applied)) \in Nat
    <3>1. flow.pending \in Nat
      BY DEF FlowState
    <3> QED
      BY <1>1, <3>1 DEF Max0
  <2> QED
    BY <2>1, <1>3
<1> HIDE DEF a
<1>6. b \in FlowState
  BY <1>2, <1>3, <1>5
<1> HIDE DEF b
<1>7. c \in FlowState
  BY <1>2, <1>3, <1>6
<1> HIDE DEF c
<1>8. d \in FlowState
  BY <1>2, <1>3, <1>7
<1> QED
  BY <1>4, <1>8

-----------------------------------------------------------------------------
(* Type correctness, action by action                                      *)

(* enqueueOne inserts a well-typed record and dedup entry.                 *)
LEMMA EnqueueType ==
    ASSUME TypeOK, NEW r \in Requests, NEW id \in JobIds, Enqueue(r, id)
    PROVE  TypeOK'
<1>1. r \in EnqueueRequest
  BY ConstantsAssumption
<1>2. NewJob(r) \in MemJob
  BY <1>1, NewJobType DEF TypeOK
<1>3. jobs' \in [JobIds -> Opt(MemJob)]
  BY <1>2, PutType DEF Enqueue, TypeOK, JobMap
<1>4. dedupes' \in [DedupeMapKeys -> Opt(DedupeEntry)]
  <2>1. CASE r.dedupe = None
    BY <2>1 DEF Enqueue, TypeOK
  <2>2. CASE r.dedupe # None
    <3>1. r.dedupe \in DedupePolicy /\ r.name \in Names
      BY <1>1, <2>2 DEF EnqueueRequest, Opt
    <3>2. Expiry(r) \in Opt(Nat)
      BY <3>1 DEF Expiry, DedupePolicy, Opt, TypeOK
    <3>3. [jobId |-> id, expiresAt |-> Expiry(r)] \in Opt(DedupeEntry)
      BY <3>2 DEF DedupeEntry, Opt
    <3> QED
      BY <2>2, <3>3 DEF Enqueue, TypeOK
  <2> QED
    BY <2>1, <2>2
<1>5. seq' \in Nat /\ woken' \subseteq Queues
  BY <1>1 DEF Enqueue, TypeOK, SignalWake, EnqueueRequest
<1> QED
  BY <1>3, <1>4, <1>5 DEF Enqueue, TypeOK

(* A latest-wins replacement keeps the types.                              *)
LEMMA EnqueueReplaceType ==
    ASSUME TypeOK, NEW r \in Requests, EnqueueReplace(r)
    PROVE  TypeOK'
<1> DEFINE id == EntryOf(r).jobId
           j == jobs[id]
           a == [j EXCEPT !.payload = r.payload, !.priority = r.priority]
           b == [a EXCEPT !.attemptsMax = r.attemptsMax, !.keep = r.keep]
           c == [b EXCEPT !.runAt = now + r.delayMs]
<1>1. /\ r \in EnqueueRequest
      /\ now + r.delayMs \in Nat
  BY ConstantsAssumption DEF EnqueueRequest, TypeOK
<1>2. /\ r.dedupe \in DedupePolicy
      /\ KeyOf(r) \in DedupeMapKeys
      /\ dedupes[KeyOf(r)] \in DedupeEntry
      /\ EntryOf(r) = dedupes[KeyOf(r)]
  <2>1. r.dedupe \in DedupePolicy /\ EntryOf(r) = dedupes[KeyOf(r)]
            /\ dedupes[KeyOf(r)] # None
    BY <1>1 DEF EnqueueReplace, Replaces, EntryOf, EnqueueRequest, Opt
  <2>2. KeyOf(r) \in DedupeMapKeys
    BY <1>1, <2>1 DEF KeyOf, DedupeMapKeys, EnqueueRequest, DedupePolicy
  <2> QED
    BY <2>1, <2>2 DEF TypeOK, Opt
<1>3. id \in JobIds
  BY <1>2 DEF DedupeEntry
<1>4. j \in MemJob
  BY <1>3, HasType DEF EnqueueReplace, Replaces, TypeOK, JobMap
<1>5. c \in MemJob
  <2> HIDE DEF j
  <2>1. [j EXCEPT !.payload = r.payload] \in MemJob
    BY <1>1, <1>4 DEF MemJob, EnqueueRequest
  <2>2. a \in MemJob
    BY <1>1, <2>1 DEF MemJob, EnqueueRequest
  <2> HIDE DEF a
  <2>3. [a EXCEPT !.attemptsMax = r.attemptsMax] \in MemJob
    BY <1>1, <2>2 DEF MemJob, EnqueueRequest
  <2>4. b \in MemJob
    BY <1>1, <2>3 DEF MemJob, EnqueueRequest
  <2> HIDE DEF b
  <2> QED
    BY <1>1, <2>4, FieldTypes
<1>6. jobs' = [jobs EXCEPT ![id] = c]
  BY <1>3 DEF EnqueueReplace, TypeOK
<1>7. jobs' \in [JobIds -> Opt(MemJob)]
  <2> HIDE DEF c, id
  <2> QED
    BY <1>3, <1>5, <1>6, PutType DEF TypeOK, JobMap
<1>8. dedupes' \in [DedupeMapKeys -> Opt(DedupeEntry)]
  <2>1. CASE r.dedupe.ttlMs = None
    BY <2>1 DEF EnqueueReplace, TypeOK
  <2>2. CASE r.dedupe.ttlMs # None
    <3>1. Expiry(r) \in Nat
      BY <1>2, <2>2 DEF Expiry, DedupePolicy, Opt, TypeOK
    <3>2. [dedupes[KeyOf(r)] EXCEPT !.expiresAt = Expiry(r)] \in DedupeEntry
      BY <1>2, <3>1 DEF DedupeEntry, Opt
    <3> QED
      BY <2>2, <3>2, <1>2 DEF EnqueueReplace, TypeOK, Opt
  <2> QED
    BY <2>1, <2>2
<1>9. woken' \subseteq Queues
  BY <1>4 DEF EnqueueReplace, SignalWake, MemJob
<1> QED
  BY <1>7, <1>8, <1>9 DEF EnqueueReplace, TypeOK

(* Extending a dedup window keeps the types.                               *)
LEMMA EnqueueExtendType ==
    ASSUME TypeOK, NEW r \in Requests, EnqueueExtend(r)
    PROVE  TypeOK'
<1>1. r \in EnqueueRequest
  BY ConstantsAssumption
<1>2. r.dedupe \in DedupePolicy /\ EntryOf(r) = dedupes[KeyOf(r)]
          /\ dedupes[KeyOf(r)] # None
  BY <1>1 DEF EnqueueExtend, WindowLive, EntryOf, EnqueueRequest, Opt
<1>3. KeyOf(r) \in DedupeMapKeys
  BY <1>1, <1>2 DEF KeyOf, DedupeMapKeys, EnqueueRequest, DedupePolicy
<1>4. dedupes[KeyOf(r)] \in DedupeEntry
  BY <1>2, <1>3 DEF TypeOK, Opt
<1>5. Expiry(r) \in Nat
  BY <1>2 DEF EnqueueExtend, Expiry, DedupePolicy, Opt, TypeOK
<1>6. [dedupes[KeyOf(r)] EXCEPT !.expiresAt = Expiry(r)] \in DedupeEntry
  BY <1>4, <1>5 DEF DedupeEntry, Opt
<1>7. dedupes' \in [DedupeMapKeys -> Opt(DedupeEntry)]
  BY <1>3, <1>6 DEF EnqueueExtend, TypeOK, Opt
<1> QED
  BY <1>7 DEF EnqueueExtend, TypeOK, SignalWake

(* A claimed record, locked until now + lockMs, is a record.               *)
LEMMA ClaimedType ==
    ASSUME NEW j \in MemJob, NEW token \in Nat, NEW lockMs \in Nat, now \in Nat
    PROVE  Claimed(j, token, lockMs) \in MemJob
<1>1. [j EXCEPT !.state = "active"] \in MemJob
  BY FieldTypes DEF JobStates
<1>2. [j EXCEPT !.state = "active", !.lockToken = token] \in MemJob
  BY <1>1, FieldTypes DEF Opt
<1>3. now + lockMs \in Opt(Nat)
  BY DEF Opt
<1> QED
  BY <1>2, <1>3, FieldTypes DEF Claimed

(* claim keeps the types.                                                  *)
LEMMA ClaimType ==
    ASSUME TypeOK, NEW queue, NEW names, NEW lockMs \in LockDurations,
           Claim(queue, names, lockMs)
    PROVE  TypeOK'
<1> DEFINE js == PromoteDue(jobs)
<1>1. js \in JobMap
  BY PromoteDueType DEF TypeOK, JobMap
<1>2. lastToken + 1 \in Nat /\ lockMs \in Nat
  BY ConstantsAssumption DEF TypeOK
<1>3. PICK best \in Claimable(js, queue, names) :
          jobs' = [js EXCEPT ![best] = Claimed(js[best], lastToken + 1, lockMs)]
  BY DEF Claim
<1> HIDE DEF js
<1>4. best \in JobIds /\ Has(js, best)
  BY DEF Claimable
<1>5. Claimed(js[best], lastToken + 1, lockMs) \in MemJob
  BY <1>1, <1>2, <1>4, HasType, ClaimedType DEF TypeOK
<1>6. jobs' \in [JobIds -> Opt(MemJob)]
  BY <1>1, <1>3, <1>4, <1>5, PutType DEF JobMap
<1> QED
  BY <1>2, <1>6 DEF Claim, TypeOK, SignalWake

(* An empty claim keeps the types.                                         *)
LEMMA ClaimEmptyType ==
    ASSUME TypeOK, NEW queue, NEW names, ClaimEmpty(queue, names)
    PROVE  TypeOK'
<1>1. PromoteDue(jobs) \in JobMap
  BY PromoteDueType DEF TypeOK, JobMap
<1> QED
  BY <1>1 DEF ClaimEmpty, TypeOK, SignalWake, JobMap

(* The other variables are untouched by a terminal transition.             *)
LEMMA RetiredType ==
    ASSUME TypeOK, RetiredTypeOK', woken' \subseteq Queues, seq' \in Nat,
           UNCHANGED <<now, paused, lastToken>>
    PROVE  TypeOK'
BY DEF TypeOK, RetiredTypeOK, JobMap, Row

(* extendLocks keeps the types.                                            *)
LEMMA ExtendLocksType ==
    ASSUME TypeOK, NEW id \in JobIds, NEW token, NEW lockMs \in LockDurations,
           ExtendLocks(id, token, lockMs)
    PROVE  TypeOK'
<1>1. now + lockMs \in Opt(Nat)
  BY ConstantsAssumption DEF TypeOK, Opt
<1>2. jobs[id] \in MemJob
  BY HasType DEF ExtendLocks, Held, TypeOK, JobMap
<1>3. [jobs[id] EXCEPT !.lockExpiresAt = now + lockMs] \in MemJob
  BY <1>1, <1>2, FieldTypes
<1>4. jobs' \in [JobIds -> Opt(MemJob)]
  BY <1>3, PutType DEF ExtendLocks, TypeOK, JobMap
<1> QED
  BY <1>4 DEF ExtendLocks, TypeOK, SignalWake

(* release keeps the types.                                                *)
LEMMA ReleaseType ==
    ASSUME TypeOK, NEW id \in JobIds, NEW token, Release(id, token)
    PROVE  TypeOK'
<1>1. jobs[id] \in MemJob
  BY HasType DEF Release, Held, TypeOK, JobMap
<1>2. CASE jobs[id].cancelRequested
  <2>1. RetiredTypeOK'
    BY <1>1, <1>2, MarkCancelledType DEF Release
  <2> QED
    BY <1>2, <2>1, RetiredType DEF Release, SignalWake, TypeOK
<1>3. CASE ~jobs[id].cancelRequested
  <2>1. ClearLock(jobs[id]) \in MemJob
    BY <1>1, ClearLockType
  <2>2. [ClearLock(jobs[id]) EXCEPT !.state = "waiting"] \in MemJob
    BY <2>1, FieldTypes DEF JobStates
  <2>3. jobs' = [jobs EXCEPT ![id] =
                    [ClearLock(jobs[id]) EXCEPT !.state = "waiting"]]
    BY <1>3 DEF Release
  <2>4. jobs' \in [JobIds -> Opt(MemJob)]
    BY <2>2, <2>3, PutType DEF TypeOK, JobMap
  <2>5. jobs[id].queue \in Queues
    BY <1>1 DEF MemJob
  <2> QED
    BY <1>3, <2>4, <2>5 DEF Release, TypeOK, SignalWake
<1> QED
  BY <1>2, <1>3

(* recoverStalled keeps the types.                                         *)
LEMMA RecoverStalledType ==
    ASSUME TypeOK, RecoverStalled
    PROVE  TypeOK'
<1> DEFINE js == [id \in JobIds |-> IF id \in Stalled
                                    THEN RecoveredJob(jobs[id]) ELSE jobs[id]]
           done == {id \in Stalled : Terminal(js[id])}
           kept == {id \in done : jobs[id].cancelRequested}
<1>1. Retire(js, flowChildren, done, kept)
  BY DEF RecoverStalled
<1>2. ASSUME NEW id \in Stalled
      PROVE  id \in JobIds /\ js[id] \in MemJob
  BY HasType, RecoveredJobType DEF Stalled, TypeOK, JobMap
<1>3. js \in JobMap
  BY <1>2 DEF JobMap, TypeOK, Opt
<1>4. done \in SUBSET JobIds /\ kept \in SUBSET JobIds
  BY DEF Stalled
<1>5. \A d \in done : Has(js, d) /\ Terminal(js[d])
  BY <1>2, NoneAssumption DEF Has
<1>6. flowChildren \in [JobIds -> Row]
  BY DEF TypeOK, Row
<1> HIDE DEF js, done, kept
<1>7. RetiredTypeOK'
  BY <1>1, <1>3, <1>4, <1>5, <1>6, RetireType
<1> QED
  BY <1>7, RetiredType DEF RecoverStalled, SignalWake, TypeOK

(* One job becomes terminal.                                               *)
LEMMA FinishOneType ==
    ASSUME TypeOK, NEW id \in JobIds, NEW j \in MemJob,
           NEW state \in TerminalStates, NEW rs \in [JobIds -> Row],
           Retire([jobs EXCEPT ![id] = Finish(j, state)], rs, {id}, {id})
    PROVE  RetiredTypeOK'
<1> DEFINE js == [jobs EXCEPT ![id] = Finish(j, state)]
<1>1. Finish(j, state) \in MemJob
  BY FinishType DEF TypeOK
<1>2. js \in JobMap
  BY <1>1, PutType DEF TypeOK, JobMap
<1>3. js[id] = Finish(j, state)
  BY DEF TypeOK
<1>4. Has(js, id) /\ Terminal(js[id])
  <2>1. Finish(j, state).state = state
    BY FinishState
  <2>2. js[id] # None
    BY <1>1, <1>3, NoneAssumption
  <2> QED
    BY <1>3, <2>1, <2>2 DEF Has, Terminal
<1>5. Retire(js, rs, {id}, {id})
  OBVIOUS
<1> HIDE DEF js
<1> QED
  BY <1>2, <1>4, <1>5, RetireType

(* ack Complete, Fail and Cancelled keep the types.                        *)
LEMMA AckTerminalType ==
    ASSUME TypeOK, NEW id \in JobIds, NEW token, NEW state \in TerminalStates,
           NEW exit \in BOOLEAN, AckTerminal(id, token, state, exit)
    PROVE  TypeOK'
<1> DEFINE a == Acked(id)
           e == IF state = "cancelled" THEN a.exit ELSE exit
           j == [a EXCEPT !.exit = e]
<1>1. a \in MemJob
  BY AckedType DEF AckTerminal, Held
<1>2. e \in BOOLEAN
  BY <1>1 DEF MemJob
<1>3. j \in MemJob
  <2> HIDE DEF a, e
  <2> QED
    BY <1>1, <1>2, FieldTypes
<1>4. Retire([jobs EXCEPT ![id] = Finish(j, state)], flowChildren, {id}, {id})
  BY DEF AckTerminal
<1>5. flowChildren \in [JobIds -> Row]
  BY DEF TypeOK, Row
<1> HIDE DEF j
<1>6. RetiredTypeOK'
  BY <1>3, <1>4, <1>5, FinishOneType
<1> QED
  BY <1>6, RetiredType DEF AckTerminal, SignalWake, TypeOK

(* A job made runnable (or delayed) at time t with a fresh order number.   *)
LEMMA RequeuedType ==
    ASSUME NEW j \in MemJob, NEW t \in Nat, NEW state \in JobStates,
           seq \in Nat
    PROVE  /\ [j EXCEPT !.runAt = t, !.state = state, !.seq = seq + 1]
                  \in MemJob
           /\ [j EXCEPT !.state = state, !.runAt = t, !.seq = seq + 1]
                  \in MemJob
           /\ [j EXCEPT !.state = state, !.runAt = t] \in MemJob
<1>1. seq + 1 \in Nat
  OBVIOUS
<1>2. [j EXCEPT !.runAt = t] \in MemJob /\ [j EXCEPT !.state = state] \in MemJob
  BY FieldTypes
<1>3. [j EXCEPT !.runAt = t, !.state = state] \in MemJob
  BY <1>2, FieldTypes
<1>4. [j EXCEPT !.state = state, !.runAt = t] \in MemJob
  BY <1>2, FieldTypes
<1>5. [j EXCEPT !.runAt = t, !.state = state, !.seq = seq + 1] \in MemJob
  BY <1>1, <1>3, FieldTypes
<1>6. [j EXCEPT !.state = state, !.runAt = t, !.seq = seq + 1] \in MemJob
  BY <1>1, <1>4, FieldTypes
<1> QED
  BY <1>4, <1>5, <1>6

(* ack Retry keeps the types.                                              *)
LEMMA AckRetryType ==
    ASSUME TypeOK, NEW id \in JobIds, NEW token, NEW delayMs \in RetryDelays,
           AckRetry(id, token, delayMs)
    PROVE  TypeOK'
<1>1. Acked(id) \in MemJob /\ jobs[id] \in MemJob
  BY AckedType, HasType DEF AckRetry, Held, TypeOK, JobMap
<1>2. CASE jobs[id].cancelRequested
  <2>1. RetiredTypeOK'
    BY <1>1, <1>2, MarkCancelledType DEF AckRetry
  <2> QED
    BY <1>2, <2>1, RetiredType DEF AckRetry, SignalWake, TypeOK
<1>3. CASE ~jobs[id].cancelRequested
  <2> DEFINE a == RecordAttempt(Acked(id), "retried")
             s == IF delayMs > 0 THEN "delayed" ELSE "waiting"
             j == [a EXCEPT !.runAt = now + delayMs, !.state = s,
                            !.seq = seq + 1]
  <2>1. a \in MemJob
    BY <1>1, RecordAttemptType DEF AttemptOutcomes
  <2>2. now + delayMs \in Nat /\ s \in JobStates /\ seq \in Nat
    BY ConstantsAssumption DEF TypeOK, JobStates
  <2>3. jobs' = [jobs EXCEPT ![id] = j]
    BY <1>3 DEF AckRetry
  <2> HIDE DEF a, s
  <2>4. j \in MemJob
    BY <2>1, <2>2, RequeuedType
  <2> HIDE DEF j
  <2>5. jobs' \in [JobIds -> Opt(MemJob)]
    BY <2>3, <2>4, PutType DEF TypeOK, JobMap
  <2>6. jobs[id].queue \in Queues
    BY <1>1 DEF MemJob
  <2> QED
    BY <1>3, <2>5, <2>6 DEF AckRetry, TypeOK, SignalWake
<1> QED
  BY <1>2, <1>3

(* What a FanOut ack persists.                                             *)
LEMMA ManifestType ==
    ASSUME NEW children \in SUBSET ChildKeys, NEW failFast \in BOOLEAN,
           now \in Nat
    PROVE  /\ Manifest(children, failFast) \in FlowState
           /\ PendingRows(children) \in Row
<1>1. Cardinality(children) \in Nat
  BY ConstantsAssumption, FS_Subset, FS_CardinalityType
<1>2. Manifest(children, failFast) \in FlowState
  BY <1>1 DEF Manifest, FlowState
<1>3. [status |-> "pending", cascaded |-> FALSE, pendingSince |-> now]
          \in MemFlowChild
  BY DEF MemFlowChild
<1>4. PendingRows(children) \in Row
  BY <1>3 DEF PendingRows, Row, Opt
<1> QED
  BY <1>2, <1>4

(* ack FanOut keeps the types.                                             *)
LEMMA AckFanOutType ==
    ASSUME TypeOK, NEW id \in JobIds, NEW token,
           NEW children \in SUBSET ChildKeys, NEW failFast \in BOOLEAN,
           AckFanOut(id, token, children, failFast)
    PROVE  TypeOK'
<1> DEFINE first == FirstFanOut(id)
           flow == IF first THEN Manifest(children, failFast)
                   ELSE jobs[id].flow
           row == IF first THEN PendingRows(children) ELSE flowChildren[id]
           b == [ClearLock(jobs[id]) EXCEPT !.flow = flow]
           j == RecordAttempt(b, "fanned-out")
           s == [j EXCEPT !.flow = SettleFlow(@, row)]
<1>1. jobs[id] \in MemJob
  BY HasType DEF AckFanOut, Held, TypeOK, JobMap
<1>2. flow \in Opt(FlowState)
  BY <1>1, ManifestType DEF TypeOK, MemJob, Opt
<1>3. row \in Row
  BY ManifestType DEF TypeOK, Row
<1>4. b \in MemJob
  <2>1. ClearLock(jobs[id]) \in MemJob
    BY <1>1, ClearLockType
  <2> HIDE DEF flow
  <2> QED
    BY <1>2, <2>1, FieldTypes
<1>5. j \in MemJob
  <2> HIDE DEF b
  <2> QED
    BY <1>4, RecordAttemptType DEF AttemptOutcomes
<1>6. s \in MemJob
  <2> HIDE DEF j, row
  <2>1. SettleFlow(j.flow, row) \in Opt(FlowState)
    BY <1>5, SettleFlowType DEF MemJob
  <2> QED
    BY <1>5, <2>1, FieldTypes
<1>7. CASE j.cancelRequested
  <2> DEFINE rs == [flowChildren EXCEPT ![id] = MarkPendingRowsCancelled(row)]
  <2>1. Retire([jobs EXCEPT ![id] = Finish(s, "cancelled")], rs, {id}, {id})
    BY <1>7 DEF AckFanOut
  <2>2. woken' = {} /\ seq' = seq /\ UNCHANGED <<now, paused, lastToken>>
    BY <1>7 DEF AckFanOut, SignalWake
  <2>3. rs \in [JobIds -> Row]
    <3> HIDE DEF row
    <3> QED
      BY <1>3, MarkType DEF TypeOK, Row
  <2> HIDE DEF s, rs
  <2>4. RetiredTypeOK'
    BY <2>1, <2>3, <1>6, FinishOneType DEF TerminalStates
  <2> QED
    BY <2>2, <2>4, RetiredType DEF TypeOK
<1>8. CASE ~j.cancelRequested
  <2> DEFINE parked == [j EXCEPT !.state = "waiting-children"]
             ready == [j EXCEPT !.state = "waiting", !.runAt = now,
                                !.seq = seq + 1]
  <2>1. /\ flowChildren' = [flowChildren EXCEPT ![id] = row]
        /\ UNCHANGED <<dedupes, outbox, outboxSeq, now, paused, lastToken>>
        /\ \/ jobs' = [jobs EXCEPT ![id] = parked] /\ woken' = {}
                  /\ seq' = seq
           \/ jobs' = [jobs EXCEPT ![id] = ready] /\ woken' = {j.queue}
                  /\ seq' = seq + 1
    BY <1>8 DEF AckFanOut, SignalWake
  <2> HIDE DEF j
  <2>2. parked \in MemJob
    BY <1>5, FieldTypes DEF JobStates
  <2>3. ready \in MemJob
    BY <1>5, RequeuedType DEF TypeOK, JobStates
  <2>4. j.queue \in Queues
    BY <1>5 DEF MemJob
  <2> HIDE DEF parked, ready
  <2>5. jobs' \in [JobIds -> Opt(MemJob)]
    BY <2>1, <2>2, <2>3, PutType DEF TypeOK, JobMap
  <2>6. flowChildren' \in [JobIds -> [ChildKeys -> Opt(MemFlowChild)]]
    <3> HIDE DEF row
    <3> QED
      BY <1>3, <2>1 DEF TypeOK, Row
  <2> QED
    BY <2>1, <2>4, <2>5, <2>6 DEF TypeOK
<1> QED
  BY <1>7, <1>8

(* cancelJob keeps the types.                                              *)
LEMMA CancelType ==
    ASSUME TypeOK, NEW id \in JobIds, Cancel(id)
    PROVE  TypeOK'
<1>1. jobs[id] \in MemJob
  BY HasType DEF Cancel, TypeOK, JobMap
<1>2. CASE MarkCancelled(id, jobs[id])
  <2>1. RetiredTypeOK'
    BY <1>1, <1>2, MarkCancelledType
  <2> QED
    BY <2>1, RetiredType DEF Cancel, SignalWake, TypeOK
<1>3. CASE /\ jobs' = [jobs EXCEPT ![id].cancelRequested = TRUE]
           /\ UNCHANGED <<flowChildren, dedupes, outbox, outboxSeq>>
  <2>1. [jobs[id] EXCEPT !.cancelRequested = TRUE] \in MemJob
    BY <1>1, FieldTypes
  <2>2. jobs' \in [JobIds -> Opt(MemJob)]
    BY <1>3, <2>1, PutType DEF TypeOK, JobMap
  <2> QED
    BY <1>3, <2>2 DEF Cancel, SignalWake, TypeOK
<1> QED
  BY <1>2, <1>3 DEF Cancel

(* cancelByDedupe keeps the types.                                         *)
LEMMA CancelByDedupeType ==
    ASSUME TypeOK, NEW k \in DedupeMapKeys, CancelByDedupe(k)
    PROVE  TypeOK'
<1>1. dedupes[k].jobId \in JobIds
  BY DEF CancelByDedupe, TypeOK, DedupeEntry, Opt
<1> QED
  BY <1>1, CancelType DEF CancelByDedupe

(* retry keeps the types.                                                  *)
LEMMA RetryType ==
    ASSUME TypeOK, NEW id \in JobIds, Retry(id)
    PROVE  TypeOK'
<1>1. jobs[id] \in MemJob /\ jobs[id].queue \in Queues
  <2>1. jobs[id] \in MemJob
    BY HasType DEF Retry, TypeOK, JobMap
  <2> QED
    BY <2>1 DEF MemJob
<1>2. Revive(jobs[id]) \in MemJob
  BY <1>1, ReviveType DEF TypeOK
<1>3. jobs' \in [JobIds -> Opt(MemJob)]
  BY <1>2, PutType DEF Retry, TypeOK, JobMap
<1> QED
  BY <1>1, <1>3 DEF Retry, TypeOK, SignalWake

(* promote keeps the types.                                                *)
LEMMA PromoteType ==
    ASSUME TypeOK, NEW id \in JobIds, Promote(id)
    PROVE  TypeOK'
<1>1. jobs[id] \in MemJob /\ jobs[id].queue \in Queues
  <2>1. jobs[id] \in MemJob
    BY HasType DEF Promote, TypeOK, JobMap
  <2> QED
    BY <2>1 DEF MemJob
<1>2. [jobs[id] EXCEPT !.state = "waiting", !.runAt = now] \in MemJob
  BY <1>1, RequeuedType DEF TypeOK, JobStates
<1>3. jobs' = [jobs EXCEPT ![id] =
                  [jobs[id] EXCEPT !.state = "waiting", !.runAt = now]]
  BY DEF Promote, TypeOK
<1>4. jobs' \in [JobIds -> Opt(MemJob)]
  BY <1>2, <1>3, PutType DEF TypeOK, JobMap
<1> QED
  BY <1>1, <1>4 DEF Promote, TypeOK, SignalWake

(* remove keeps the types.                                                 *)
LEMMA RemoveType ==
    ASSUME TypeOK, NEW id \in JobIds, Remove(id)
    PROVE  TypeOK'
<1>1. NoRows \in Row
  BY DEF NoRows, Row, Opt
<1>2. jobs' \in [JobIds -> Opt(MemJob)]
  BY WithoutType DEF Remove, TypeOK, Opt
<1>3. flowChildren' \in [JobIds -> Row]
  BY <1>1, WithoutType DEF Remove, TypeOK, Row
<1> QED
  BY <1>2, <1>3 DEF Remove, TypeOK, Row, SignalWake

(* sweepHistory keeps the types.                                           *)
LEMMA SweepHistoryType ==
    ASSUME TypeOK, SweepHistory
    PROVE  TypeOK'
<1>1. NoRows \in Row
  BY DEF NoRows, Row, Opt
<1>2. PICK victims :
          /\ jobs' = Without(jobs, victims, None)
          /\ flowChildren' = Without(flowChildren, victims, NoRows)
  BY DEF SweepHistory
<1>3. jobs' \in [JobIds -> Opt(MemJob)]
  BY <1>2, WithoutType DEF TypeOK, Opt
<1>4. flowChildren' \in [JobIds -> Row]
  BY <1>1, <1>2, WithoutType DEF TypeOK, Row
<1>5. dedupes' \in [DedupeMapKeys -> Opt(DedupeEntry)]
  BY DEF SweepHistory, TypeOK, Opt
<1> QED
  BY <1>3, <1>4, <1>5 DEF SweepHistory, TypeOK, Row, SignalWake

(* recordChildResults keeps the types.                                     *)
LEMMA RecordChildResultsType ==
    ASSUME TypeOK, NEW flowId \in JobIds, NEW reports,
           \A k \in DOMAIN reports : reports[k] \in TerminalStates,
           RecordChildResults(flowId, reports)
    PROVE  TypeOK'
<1> DEFINE row == flowChildren[flowId]
           row1 == ReportedRow(row, reports)
           j == [jobs[flowId] EXCEPT !.flow = Counted(@, row, reports)]
           a == [j EXCEPT !.flow = SettleFlow(@, row1)]
           s == [a EXCEPT !.failedReason = TRUE]
           ready == [j EXCEPT !.state = "waiting", !.runAt = now,
                              !.seq = seq + 1]
           rs == [flowChildren EXCEPT ![flowId] =
                     MarkPendingRowsCancelled(row1)]
<1>1. jobs[flowId] \in MemJob
  BY HasType DEF RecordChildResults, TypeOK, JobMap
<1>2. jobs[flowId].flow \in FlowState
  BY <1>1 DEF RecordChildResults, MemJob, Opt
<1>3. row \in Row /\ row1 \in Row
  <2>1. row \in Row
    BY DEF TypeOK, Row
  <2> QED
    BY <2>1, ReportedRowType
<1>4. j \in MemJob
  <2>1. Counted(jobs[flowId].flow, row, reports) \in Opt(FlowState)
    BY <1>2, CountedType DEF Opt
  <2> QED
    BY <1>1, <2>1, FieldTypes
<1>5. \/ /\ Retire([jobs EXCEPT ![flowId] = Finish(s, "failed")], rs,
                   {flowId}, {flowId})
         /\ woken' = {} /\ seq' = seq
      \/ /\ jobs' = [jobs EXCEPT ![flowId] = ready]
         /\ flowChildren' = [flowChildren EXCEPT ![flowId] = row1]
         /\ woken' = {j.queue} /\ seq' = seq + 1
         /\ UNCHANGED <<dedupes, outbox, outboxSeq>>
      \/ /\ jobs' = [jobs EXCEPT ![flowId] = j]
         /\ flowChildren' = [flowChildren EXCEPT ![flowId] = row1]
         /\ woken' = {} /\ seq' = seq
         /\ UNCHANGED <<dedupes, outbox, outboxSeq>>
  BY DEF RecordChildResults, SignalWake
<1>6. UNCHANGED <<now, paused, lastToken>>
  BY DEF RecordChildResults
<1> HIDE DEF j, row1, row
<1>7. s \in MemJob
  <2>1. SettleFlow(j.flow, row1) \in Opt(FlowState)
    BY <1>4, SettleFlowType DEF MemJob
  <2>2. a \in MemJob
    BY <1>4, <2>1, FieldTypes
  <2> HIDE DEF a
  <2> QED
    BY <2>2, FieldTypes
<1>8. ready \in MemJob /\ j.queue \in Queues
  <2>1. ready \in MemJob
    BY <1>4, RequeuedType DEF TypeOK, JobStates
  <2> QED
    BY <2>1, <1>4 DEF MemJob
<1>9. rs \in [JobIds -> Row]
  BY <1>3, MarkType DEF TypeOK, Row
<1> HIDE DEF s, ready, rs
<1>10. CASE /\ Retire([jobs EXCEPT ![flowId] = Finish(s, "failed")], rs,
                      {flowId}, {flowId})
            /\ woken' = {} /\ seq' = seq
  <2>1. RetiredTypeOK'
    BY <1>7, <1>9, <1>10, FinishOneType DEF TerminalStates
  <2> QED
    BY <2>1, <1>6, <1>10, RetiredType DEF TypeOK
<1>11. CASE /\ jobs' = [jobs EXCEPT ![flowId] = ready]
            /\ flowChildren' = [flowChildren EXCEPT ![flowId] = row1]
            /\ woken' = {j.queue} /\ seq' = seq + 1
            /\ UNCHANGED <<dedupes, outbox, outboxSeq>>
  <2>1. jobs' \in [JobIds -> Opt(MemJob)]
    BY <1>8, <1>11, PutType DEF TypeOK, JobMap
  <2> QED
    BY <2>1, <1>3, <1>6, <1>8, <1>11 DEF TypeOK, Row
<1>12. CASE /\ jobs' = [jobs EXCEPT ![flowId] = j]
            /\ flowChildren' = [flowChildren EXCEPT ![flowId] = row1]
            /\ woken' = {} /\ seq' = seq
            /\ UNCHANGED <<dedupes, outbox, outboxSeq>>
  <2>1. jobs' \in [JobIds -> Opt(MemJob)]
    BY <1>4, <1>12, PutType DEF TypeOK, JobMap
  <2> QED
    BY <2>1, <1>3, <1>6, <1>12 DEF TypeOK, Row
<1> QED
  BY <1>5, <1>10, <1>11, <1>12

(* flowSweepWork keeps the types.                                          *)
LEMMA FlowSweepWorkType ==
    ASSUME TypeOK, NEW page, FlowSweepWork(page)
    PROVE  TypeOK'
<1>1. ASSUME NEW f \in JobIds, NEW k \in ChildKeys,
             [flowId |-> f, childKey |-> k] \in page
      PROVE  [flowChildren[f][k] EXCEPT !.pendingSince = now] \in MemFlowChild
  <2>1. flowChildren[f][k] \in MemFlowChild
    BY <1>1 DEF FlowSweepWork, Reconcilable, WithStatus, TypeOK, Opt
  <2> QED
    BY <2>1 DEF MemFlowChild, TypeOK
<1>2. flowChildren' \in [JobIds -> [ChildKeys -> Opt(MemFlowChild)]]
  BY <1>1 DEF FlowSweepWork, TypeOK, Opt
<1> QED
  BY <1>2 DEF FlowSweepWork, TypeOK, SignalWake

(* markChildrenCascaded keeps the types.                                   *)
LEMMA MarkChildrenCascadedType ==
    ASSUME TypeOK, NEW flowId \in JobIds, NEW keys \in SUBSET ChildKeys,
           MarkChildrenCascaded(flowId, keys)
    PROVE  TypeOK'
<1>1. ASSUME NEW r \in MemFlowChild
      PROVE  [r EXCEPT !.cascaded = TRUE] \in MemFlowChild
  BY <1>1 DEF MemFlowChild
<1>2. flowChildren[flowId] \in Row
  BY DEF TypeOK, Row
<1>3. Cascaded(flowChildren[flowId], keys) \in Row
  BY <1>1, <1>2 DEF Cascaded, Row, Opt
<1>4. flowChildren' \in [JobIds -> Row]
  BY <1>3 DEF MarkChildrenCascaded, TypeOK, Row
<1> QED
  BY <1>4 DEF MarkChildrenCascaded, TypeOK, Row, SignalWake

-----------------------------------------------------------------------------
(* Every variable keeps its type under every operation of the driver.      *)
LEMMA TypeStep == TypeOK /\ [Next]_vars => TypeOK'
<1> SUFFICES ASSUME TypeOK, [Next]_vars PROVE TypeOK'
  OBVIOUS
<1>1. CASE UNCHANGED vars
  BY <1>1 DEF vars, TypeOK
<1>2. CASE ProducerNext
  BY <1>2, EnqueueType, EnqueueReplaceType, EnqueueExtendType
     DEF ProducerNext
<1>3. CASE WorkerNext
  BY <1>3, ClaimType, ClaimEmptyType, AckTerminalType, AckRetryType,
     AckFanOutType, ReleaseType, ExtendLocksType, RecoverStalledType
     DEF WorkerNext
<1>4. CASE FlowNext
  <2>1. ASSUME NEW flowId \in JobIds, NEW keys \in SUBSET ChildKeys,
               NEW reports \in [keys -> TerminalStates],
               RecordChildResults(flowId, reports)
        PROVE  TypeOK'
    BY <2>1, RecordChildResultsType
  <2>2. ASSUME NEW entries \in SUBSET outbox, DeleteOutbox(entries)
        PROVE  TypeOK'
    BY <2>2 DEF DeleteOutbox, TypeOK, SignalWake
  <2> QED
    BY <1>4, <2>1, <2>2, MarkChildrenCascadedType, FlowSweepWorkType
       DEF FlowNext
<1>5. CASE AdminNext
  <2>1. ASSUME NEW queue \in Queues, Pause(queue) \/ Resume(queue)
        PROVE  TypeOK'
    BY <2>1 DEF Pause, Resume, TypeOK, SignalWake
  <2> QED
    BY <1>5, <2>1, CancelType, RetryType, PromoteType, RemoveType,
       CancelByDedupeType, SweepHistoryType DEF AdminNext
<1>6. CASE Tick
  BY <1>6 DEF Tick, TypeOK, SignalWake
<1> QED
  BY <1>1, <1>2, <1>3, <1>4, <1>5, <1>6 DEF Next

(* The empty store has the right types.                                    *)
LEMMA TypeInit == Init => TypeOK
BY DEF Init, TypeOK, NoRows, Opt

(* Type correctness of the driver, whatever the constants and however the  *)
(* callers interleave.                                                     *)
THEOREM TypeCorrect == Spec => []TypeOK
BY TypeInit, TypeStep, PTL DEF Spec

-----------------------------------------------------------------------------
(* Locks                                                                   *)

Unlocked(j) ==
    /\ j.lockToken = None /\ j.lockExpiresAt = None
    /\ ~j.cancelRequested /\ j.state # "active"

\* Record i becomes j and is not locked any more.
Releases(i, j) ==
    Unlocked(j) /\ (i # None => (i.cancelRequested => Terminal(j)))

\* Record i becomes j and its lock is what it was.
KeepsLock(i, j) ==
    /\ i # None
    /\ j.lockToken = i.lockToken
    /\ j.lockExpiresAt = None <=> i.lockExpiresAt = None
    /\ j.state = "active" <=> i.state = "active"
    /\ i.cancelRequested /\ i.state = "active" => j.cancelRequested
    /\ j.cancelRequested => i.cancelRequested \/ i.state = "active"

LockEffect(i, j) == j = None \/ Releases(i, j) \/ KeepsLock(i, j)

LockStep ==
    /\ lastToken' = lastToken
    /\ \A id \in JobIds : LockEffect(jobs[id], jobs'[id])

-----------------------------------------------------------------------------
(* Lock fields of the records the operations write                         *)

(* What clearLock sets and what it leaves alone.                           *)
LEMMA ClearLockFields ==
    ASSUME NEW j \in MemJob
    PROVE  /\ ClearLock(j).lockToken = None
           /\ ClearLock(j).lockExpiresAt = None
           /\ ClearLock(j).cancelRequested = j.cancelRequested
           /\ ClearLock(j).state = j.state
BY DEF ClearLock, MemJob

(* recordAttempt leaves state and lock alone.                              *)
LEMMA RecordAttemptFields ==
    ASSUME NEW j \in MemJob, NEW outcome
    PROVE  /\ RecordAttempt(j, outcome).lockToken = j.lockToken
           /\ RecordAttempt(j, outcome).lockExpiresAt = j.lockExpiresAt
           /\ RecordAttempt(j, outcome).cancelRequested = j.cancelRequested
           /\ RecordAttempt(j, outcome).state = j.state
BY DEF RecordAttempt, MemJob

(* A terminal transition releases the lock.                                *)
LEMMA FinishReleases ==
    ASSUME NEW i, NEW j \in MemJob, NEW state \in TerminalStates
    PROVE  Releases(i, Finish(j, state))
BY FinishState DEF Releases, Unlocked, Terminal, TerminalStates

(* A job written back as runnable, with its lock cleared.                  *)
LEMMA RequeueReleases ==
    ASSUME NEW i, NEW j \in MemJob, i # None => ~i.cancelRequested,
           j.lockToken = None, j.lockExpiresAt = None, ~j.cancelRequested,
           NEW state \in {"waiting", "delayed", "waiting-children"},
           NEW t, NEW n
    PROVE  /\ Releases(i, [j EXCEPT !.state = state])
           /\ Releases(i, [j EXCEPT !.runAt = t, !.state = state, !.seq = n])
           /\ Releases(i, [j EXCEPT !.state = state, !.runAt = t, !.seq = n])
BY DEF Releases, Unlocked, MemJob

(* recoverStalled releases the expired lock of each job it handles.        *)
LEMMA RecoveredReleases ==
    ASSUME NEW j \in MemJob, now \in Nat
    PROVE  Releases(j, RecoveredJob(j))
<1> DEFINE c == RecordAttempt(ClearLock(j), "stalled")
<1>1. c \in MemJob
  BY ClearLockType, RecordAttemptType DEF AttemptOutcomes
<1>2. /\ c.lockToken = None /\ c.lockExpiresAt = None
      /\ c.cancelRequested = j.cancelRequested
  <2>1. ClearLock(j) \in MemJob
    BY ClearLockType
  <2> QED
    BY <2>1, ClearLockFields, RecordAttemptFields
<1>3. CASE j.cancelRequested
  BY <1>3, FinishReleases DEF RecoveredJob, TerminalStates
<1>4. CASE ~j.cancelRequested /\ StallsExhausted(j)
  <2>1. RecoveredJob(j) = [c EXCEPT !.stalledCount = @ + 1, !.state = "failed",
                             !.finishedAt = now, !.failedReason = TRUE]
    BY <1>4 DEF RecoveredJob
  <2> HIDE DEF c
  <2> QED
    BY <1>1, <1>2, <1>4, <2>1 DEF Releases, Unlocked, MemJob
<1>5. CASE ~j.cancelRequested /\ ~StallsExhausted(j)
  <2>1. RecoveredJob(j) = [c EXCEPT !.stalledCount = @ + 1,
                                    !.state = "waiting"]
    BY <1>5 DEF RecoveredJob
  <2> HIDE DEF c
  <2> QED
    BY <1>1, <1>2, <1>5, <2>1 DEF Releases, Unlocked, MemJob
<1> QED
  BY <1>3, <1>4, <1>5

(* An untouched record keeps its lock.                                     *)
LEMMA SameEffect ==
    ASSUME NEW j
    PROVE  LockEffect(j, j)
BY DEF LockEffect, KeepsLock

(* Rewriting one record.                                                   *)
LEMMA PutLock ==
    ASSUME jobs \in JobMap, NEW id \in JobIds, NEW j,
           LockEffect(jobs[id], j), jobs' = [jobs EXCEPT ![id] = j],
           lastToken' = lastToken
    PROVE  LockStep
BY SameEffect DEF LockStep, JobMap

(* Retention only drops records of the map it is given.                    *)
LEMMA RetireLock ==
    ASSUME NEW js, NEW rs, NEW done, NEW kept, Retire(js, rs, done, kept),
           \A id \in JobIds : LockEffect(jobs[id], js[id]),
           lastToken' = lastToken
    PROVE  LockStep
<1>1. PICK victims : jobs' = Without(js, victims, None)
  BY DEF Retire
<1>2. \A id \in JobIds : jobs'[id] = None \/ jobs'[id] = js[id]
  BY <1>1 DEF Without
<1> QED
  BY <1>2 DEF LockStep, LockEffect

(* One job becomes terminal.                                               *)
LEMMA FinishLock ==
    ASSUME jobs \in JobMap, NEW id \in JobIds, NEW j \in MemJob,
           NEW state \in TerminalStates, NEW rs, NEW done, NEW kept,
           Retire([jobs EXCEPT ![id] = Finish(j, state)], rs, done, kept),
           lastToken' = lastToken
    PROVE  LockStep
<1> DEFINE js == [jobs EXCEPT ![id] = Finish(j, state)]
<1>1. Releases(jobs[id], Finish(j, state))
  BY FinishReleases
<1>2. \A i \in JobIds : LockEffect(jobs[i], js[i])
  BY <1>1, SameEffect DEF LockEffect, JobMap
<1>3. Retire(js, rs, done, kept)
  OBVIOUS
<1> HIDE DEF js
<1> QED
  BY <1>2, <1>3, RetireLock

(* markCancelled makes the job terminal.                                   *)
LEMMA MarkCancelledLock ==
    ASSUME TypeOK, NEW id \in JobIds, NEW j \in MemJob,
           MarkCancelled(id, j), lastToken' = lastToken
    PROVE  LockStep
<1> DEFINE f == IF j.state = "waiting-children"
                THEN SettleFlow(j.flow, flowChildren[id]) ELSE j.flow
           c == [j EXCEPT !.flow = f]
<1>1. c \in MemJob
  <2>1. f \in Opt(FlowState)
    BY SettleFlowType DEF MemJob
  <2> HIDE DEF f
  <2> QED
    BY <2>1, FieldTypes
<1>2. PICK rs : Retire([jobs EXCEPT ![id] = Finish(c, "cancelled")], rs,
                       {id}, {id})
  BY DEF MarkCancelled
<1> HIDE DEF c
<1> QED
  BY <1>1, <1>2, FinishLock DEF TypeOK, JobMap, TerminalStates

-----------------------------------------------------------------------------
(* The effect of each operation on locks                                   *)

(* Enqueues never touch a lock.                                            *)
LEMMA ProducerLock ==
    ASSUME TypeOK, ProducerNext
    PROVE  LockStep
<1>1. ASSUME NEW r \in Requests, NEW id \in JobIds, Enqueue(r, id)
      PROVE  LockStep
  <2>1. jobs[id] = None /\ jobs' = [jobs EXCEPT ![id] = NewJob(r)]
            /\ lastToken' = lastToken
    BY <1>1 DEF Enqueue, Has, IdTaken
  <2>2. Unlocked(NewJob(r))
    BY DEF Unlocked, NewJob
  <2> QED
    BY <2>1, <2>2, PutLock DEF LockEffect, Releases, TypeOK, JobMap
<1>2. ASSUME NEW r \in Requests, EnqueueReplace(r)
      PROVE  LockStep
  <2> DEFINE id == EntryOf(r).jobId
  <2>1. jobs' = [jobs EXCEPT ![id] = [jobs[id] EXCEPT
                     !.payload = r.payload, !.priority = r.priority,
                     !.attemptsMax = r.attemptsMax, !.keep = r.keep,
                     !.runAt = now + r.delayMs]] /\ lastToken' = lastToken
    BY <1>2 DEF EnqueueReplace, TypeOK
  <2>2. Has(jobs, id)
    BY <1>2 DEF EnqueueReplace, Replaces
  <2> HIDE DEF id
  <2>3. ASSUME NEW i \in JobIds PROVE LockEffect(jobs[i], jobs'[i])
    <3>1. CASE i = id
      <4>1. jobs[id] \in MemJob
        BY <2>2, <3>1, HasType DEF TypeOK, JobMap
      <4>2. KeepsLock(jobs[id], [jobs[id] EXCEPT
                     !.payload = r.payload, !.priority = r.priority,
                     !.attemptsMax = r.attemptsMax, !.keep = r.keep,
                     !.runAt = now + r.delayMs])
        BY <4>1, <2>2 DEF KeepsLock, MemJob, Has
      <4> QED
        BY <3>1, <2>1, <4>2 DEF LockEffect, TypeOK
    <3>2. CASE i # id
      BY <3>2, <2>1, SameEffect DEF TypeOK
    <3> QED
      BY <3>1, <3>2
  <2> QED
    BY <2>1, <2>3 DEF LockStep
<1>3. ASSUME NEW r \in Requests, EnqueueExtend(r)
      PROVE  LockStep
  BY <1>3, SameEffect DEF EnqueueExtend, LockStep
<1> QED
  BY <1>1, <1>2, <1>3 DEF ProducerNext

(* promoteDue leaves locks alone.                                          *)
LEMMA PromoteDueLock ==
    ASSUME TypeOK, NEW id \in JobIds
    PROVE  LockEffect(jobs[id], PromoteDue(jobs)[id])
<1>1. CASE Has(jobs, id) /\ jobs[id].state = "delayed" /\ jobs[id].runAt <= now
  <2>1. jobs[id] \in MemJob
    BY <1>1, HasType DEF TypeOK, JobMap
  <2>2. KeepsLock(jobs[id], [jobs[id] EXCEPT !.state = "waiting"])
    BY <1>1, <2>1 DEF KeepsLock, MemJob, Has
  <2> QED
    BY <1>1, <2>2 DEF PromoteDue, LockEffect
<1>2. CASE ~(Has(jobs, id) /\ jobs[id].state = "delayed"
                 /\ jobs[id].runAt <= now)
  BY <1>2, SameEffect DEF PromoteDue
<1> QED
  BY <1>1, <1>2

(* extendLocks moves the expiry only; token and state stay.                *)
LEMMA ExtendLocksLock ==
    ASSUME TypeOK, LockInv, NEW id \in JobIds, NEW token,
           NEW lockMs \in LockDurations, ExtendLocks(id, token, lockMs)
    PROVE  LockStep
<1> DEFINE t == now + lockMs
           j == [jobs[id] EXCEPT !.lockExpiresAt = t]
<1>1. jobs[id] \in MemJob /\ jobs[id].lockExpiresAt # None /\ jobs[id] # None
  BY HasType DEF ExtendLocks, Held, TypeOK, JobMap, LockInv,
                 LockedIffActive, Has
<1>2. t # None
  <2>1. t \in Nat
    BY ConstantsAssumption DEF TypeOK
  <2> QED
    BY <2>1, NoneAssumption
<1>3. jobs' = [jobs EXCEPT ![id] = j] /\ lastToken' = lastToken
  BY DEF ExtendLocks
<1> HIDE DEF t
<1>4. KeepsLock(jobs[id], j)
  BY <1>1, <1>2 DEF KeepsLock, MemJob
<1> HIDE DEF j
<1> QED
  BY <1>3, <1>4, PutLock DEF LockEffect, TypeOK, JobMap

(* release gives up the lock.                                              *)
LEMMA ReleaseLock ==
    ASSUME TypeOK, NEW id \in JobIds, NEW token, Release(id, token)
    PROVE  LockStep
<1>1. jobs[id] \in MemJob
  BY HasType DEF Release, Held, TypeOK, JobMap
<1>2. CASE jobs[id].cancelRequested
  BY <1>1, <1>2, MarkCancelledLock DEF Release
<1>3. CASE ~jobs[id].cancelRequested
  <2> DEFINE c == ClearLock(jobs[id])
  <2>1. c \in MemJob
    BY <1>1, ClearLockType
  <2>2. c.lockToken = None /\ c.lockExpiresAt = None /\ ~c.cancelRequested
    BY <1>1, <1>3, ClearLockFields
  <2>3. jobs' = [jobs EXCEPT ![id] = [c EXCEPT !.state = "waiting"]]
            /\ lastToken' = lastToken
    BY <1>3 DEF Release
  <2> HIDE DEF c
  <2>4. Releases(jobs[id], [c EXCEPT !.state = "waiting"])
    BY <1>3, <2>1, <2>2, RequeueReleases
  <2> QED
    BY <2>3, <2>4, PutLock DEF LockEffect, TypeOK, JobMap
<1> QED
  BY <1>2, <1>3

(* recoverStalled gives up every expired lock.                             *)
LEMMA RecoverStalledLock ==
    ASSUME TypeOK, RecoverStalled
    PROVE  LockStep
<1> DEFINE js == [id \in JobIds |-> IF id \in Stalled
                                    THEN RecoveredJob(jobs[id]) ELSE jobs[id]]
<1>1. PICK done, kept : Retire(js, flowChildren, done, kept)
  BY DEF RecoverStalled
<1>2. ASSUME NEW id \in JobIds PROVE LockEffect(jobs[id], js[id])
  <2>1. CASE id \in Stalled
    <3>1. jobs[id] \in MemJob
      BY <2>1, HasType DEF Stalled, TypeOK, JobMap
    <3>2. Releases(jobs[id], RecoveredJob(jobs[id]))
      BY <3>1, RecoveredReleases DEF TypeOK
    <3> QED
      BY <2>1, <3>2 DEF LockEffect
  <2>2. CASE id \notin Stalled
    BY <2>2, SameEffect
  <2> QED
    BY <2>1, <2>2
<1>3. lastToken' = lastToken
  BY DEF RecoverStalled
<1> HIDE DEF js
<1> QED
  BY <1>1, <1>2, <1>3, RetireLock

(* An acknowledged record is unlocked.                                     *)
LEMMA AckedFields ==
    ASSUME TypeOK, NEW id \in JobIds, Has(jobs, id)
    PROVE  /\ Acked(id).lockToken = None
           /\ Acked(id).lockExpiresAt = None
           /\ Acked(id).cancelRequested = jobs[id].cancelRequested
<1> DEFINE c == ClearLock(jobs[id])
<1>1. jobs[id] \in MemJob
  BY HasType DEF TypeOK, JobMap
<1>2. c \in MemJob /\ c.lockToken = None /\ c.lockExpiresAt = None
          /\ c.cancelRequested = jobs[id].cancelRequested
  BY <1>1, ClearLockType, ClearLockFields
<1>3. Acked(id) = [c EXCEPT !.attemptsMade = @ + 1]
  BY DEF Acked
<1> HIDE DEF c
<1> QED
  BY <1>2, <1>3 DEF MemJob

(* A terminal ack gives up the lock.                                       *)
LEMMA AckTerminalLock ==
    ASSUME TypeOK, NEW id \in JobIds, NEW token, NEW state \in TerminalStates,
           NEW exit \in BOOLEAN, AckTerminal(id, token, state, exit)
    PROVE  LockStep
<1> DEFINE e == IF state = "cancelled" THEN Acked(id).exit ELSE exit
           j == [Acked(id) EXCEPT !.exit = e]
<1>1. Acked(id) \in MemJob
  BY AckedType DEF AckTerminal, Held
<1>2. e \in BOOLEAN
  BY <1>1 DEF MemJob
<1>3. Retire([jobs EXCEPT ![id] = Finish(j, state)], flowChildren, {id}, {id})
          /\ lastToken' = lastToken
  BY DEF AckTerminal
<1> HIDE DEF e
<1>4. j \in MemJob
  BY <1>1, <1>2, FieldTypes
<1> HIDE DEF j
<1> QED
  BY <1>3, <1>4, FinishLock DEF TypeOK, JobMap

(* ack Retry gives up the lock.                                            *)
LEMMA AckRetryLock ==
    ASSUME TypeOK, NEW id \in JobIds, NEW token, NEW delayMs \in RetryDelays,
           AckRetry(id, token, delayMs)
    PROVE  LockStep
<1>1. Acked(id) \in MemJob /\ Has(jobs, id)
  BY AckedType DEF AckRetry, Held
<1>2. CASE jobs[id].cancelRequested
  BY <1>1, <1>2, MarkCancelledLock DEF AckRetry
<1>3. CASE ~jobs[id].cancelRequested
  <2> DEFINE c == RecordAttempt(Acked(id), "retried")
             s == IF delayMs > 0 THEN "delayed" ELSE "waiting"
             j == [c EXCEPT !.runAt = now + delayMs, !.state = s,
                            !.seq = seq + 1]
  <2>1. c \in MemJob
    BY <1>1, RecordAttemptType DEF AttemptOutcomes
  <2>2. c.lockToken = None /\ c.lockExpiresAt = None /\ ~c.cancelRequested
    BY <1>1, <1>3, AckedFields, RecordAttemptFields
  <2>3. jobs' = [jobs EXCEPT ![id] = j] /\ lastToken' = lastToken
    BY <1>3 DEF AckRetry
  <2>4. s \in {"waiting", "delayed", "waiting-children"}
    OBVIOUS
  <2> HIDE DEF c, s
  <2>5. Releases(jobs[id], j)
    BY <1>3, <2>1, <2>2, <2>4, RequeueReleases
  <2> HIDE DEF j
  <2> QED
    BY <2>3, <2>5, PutLock DEF LockEffect, TypeOK, JobMap
<1> QED
  BY <1>2, <1>3

(* ack FanOut gives up the lock.                                           *)
LEMMA AckFanOutLock ==
    ASSUME TypeOK, NEW id \in JobIds, NEW token,
           NEW children \in SUBSET ChildKeys, NEW failFast \in BOOLEAN,
           AckFanOut(id, token, children, failFast)
    PROVE  LockStep
<1> DEFINE first == FirstFanOut(id)
           flow == IF first THEN Manifest(children, failFast)
                   ELSE jobs[id].flow
           row == IF first THEN PendingRows(children) ELSE flowChildren[id]
           c == ClearLock(jobs[id])
           b == [c EXCEPT !.flow = flow]
           j == RecordAttempt(b, "fanned-out")
           s == [j EXCEPT !.flow = SettleFlow(@, row)]
<1>1. jobs[id] \in MemJob
  BY HasType DEF AckFanOut, Held, TypeOK, JobMap
<1>2. flow \in Opt(FlowState)
  BY <1>1, ManifestType DEF TypeOK, MemJob, Opt
<1>3. c \in MemJob /\ c.lockToken = None /\ c.lockExpiresAt = None
          /\ c.cancelRequested = jobs[id].cancelRequested
  BY <1>1, ClearLockType, ClearLockFields
<1>4. b \in MemJob /\ b.lockToken = None /\ b.lockExpiresAt = None
          /\ b.cancelRequested = jobs[id].cancelRequested
  <2> HIDE DEF flow, c
  <2>1. b \in MemJob
    BY <1>2, <1>3, FieldTypes
  <2> QED
    BY <1>3, <2>1 DEF MemJob
<1>5. j \in MemJob /\ j.lockToken = None /\ j.lockExpiresAt = None
          /\ j.cancelRequested = jobs[id].cancelRequested
  <2> HIDE DEF b
  <2> QED
    BY <1>4, RecordAttemptType, RecordAttemptFields DEF AttemptOutcomes
<1>6. s \in MemJob
  <2> HIDE DEF j, row
  <2>1. SettleFlow(j.flow, row) \in Opt(FlowState)
    BY <1>5, SettleFlowType DEF MemJob
  <2> QED
    BY <1>5, <2>1, FieldTypes
<1>7. lastToken' = lastToken
  BY DEF AckFanOut
<1>8. CASE j.cancelRequested
  <2>1. PICK rs : Retire([jobs EXCEPT ![id] = Finish(s, "cancelled")], rs,
                         {id}, {id})
    BY <1>8 DEF AckFanOut
  <2> HIDE DEF s
  <2> QED
    BY <1>6, <1>7, <2>1, FinishLock DEF TypeOK, JobMap, TerminalStates
<1>9. CASE ~j.cancelRequested
  <2> DEFINE parked == [j EXCEPT !.state = "waiting-children"]
             ready == [j EXCEPT !.state = "waiting", !.runAt = now,
                                !.seq = seq + 1]
  <2>1. jobs' = [jobs EXCEPT ![id] = parked]
            \/ jobs' = [jobs EXCEPT ![id] = ready]
    BY <1>9 DEF AckFanOut
  <2> HIDE DEF j
  <2>2. Releases(jobs[id], parked) /\ Releases(jobs[id], ready)
    BY <1>5, <1>9, RequeueReleases
  <2> HIDE DEF parked, ready
  <2> QED
    BY <1>7, <2>1, <2>2, PutLock DEF LockEffect, TypeOK, JobMap
<1> QED
  BY <1>8, <1>9

(* cancelJob flags an active job and finishes any other.                   *)
LEMMA CancelLock ==
    ASSUME TypeOK, NEW id \in JobIds, Cancel(id)
    PROVE  LockStep
<1>1. jobs[id] \in MemJob /\ jobs[id] # None
  BY HasType DEF Cancel, TypeOK, JobMap, Has
<1>2. lastToken' = lastToken
  BY DEF Cancel
<1>3. CASE MarkCancelled(id, jobs[id])
  BY <1>1, <1>2, <1>3, MarkCancelledLock
<1>4. CASE /\ jobs[id].state = "active"
           /\ jobs' = [jobs EXCEPT ![id].cancelRequested = TRUE]
  <2>1. KeepsLock(jobs[id], [jobs[id] EXCEPT !.cancelRequested = TRUE])
    BY <1>1, <1>4 DEF KeepsLock, MemJob
  <2> QED
    BY <1>2, <1>4, <2>1, PutLock DEF LockEffect, TypeOK, JobMap
<1> QED
  BY <1>3, <1>4 DEF Cancel

(* A job that was not active, rewritten to a state that is not active.     *)
LEMMA RewriteKeeps ==
    ASSUME NEW j \in MemJob, j.state # "active",
           NEW state \in JobStates, state # "active", NEW t, NEW n
    PROVE  /\ KeepsLock(j, [j EXCEPT !.state = state, !.runAt = t])
           /\ KeepsLock(j, [j EXCEPT !.state = state, !.runAt = t, !.seq = n])
<1>1. j # None
  BY NoneAssumption
<1> QED
  BY <1>1 DEF KeepsLock, MemJob

(* retry touches failed jobs only, which hold no lock.                     *)
LEMMA RetryLock ==
    ASSUME TypeOK, NEW id \in JobIds, Retry(id)
    PROVE  LockStep
<1>1. jobs[id] \in MemJob /\ jobs[id] # None /\ jobs[id].state = "failed"
  BY HasType DEF Retry, TypeOK, JobMap, Has
<1>2. ASSUME NEW j \in MemJob, j.state = "failed", j # None
      PROVE  KeepsLock(j, Revive(j))
  BY <1>2 DEF KeepsLock, Revive, MemJob
<1>3. KeepsLock(jobs[id], Revive(jobs[id]))
  BY <1>1, <1>2
<1> QED
  BY <1>3, PutLock DEF Retry, LockEffect, TypeOK, JobMap

(* promote touches delayed jobs only, which hold no lock.                  *)
LEMMA PromoteLock ==
    ASSUME TypeOK, NEW id \in JobIds, Promote(id)
    PROVE  LockStep
<1>1. jobs[id] \in MemJob /\ jobs[id].state = "delayed"
  BY HasType DEF Promote, TypeOK, JobMap
<1>2. KeepsLock(jobs[id],
                [jobs[id] EXCEPT !.state = "waiting", !.runAt = now])
  BY <1>1, RewriteKeeps DEF JobStates
<1>3. jobs' = [jobs EXCEPT ![id] =
                  [jobs[id] EXCEPT !.state = "waiting", !.runAt = now]]
          /\ lastToken' = lastToken
  BY DEF Promote, TypeOK
<1> QED
  BY <1>2, <1>3, PutLock DEF LockEffect, TypeOK, JobMap

(* Deleting records leaves the other locks alone.                          *)
LEMMA WithoutLock ==
    ASSUME NEW victims, jobs' = Without(jobs, victims, None),
           lastToken' = lastToken
    PROVE  LockStep
BY SameEffect DEF LockStep, LockEffect, Without

(* recordChildResults settles parked parents only, which hold no lock.     *)
LEMMA RecordChildResultsLock ==
    ASSUME TypeOK, NEW flowId \in JobIds, NEW reports,
           \A k \in DOMAIN reports : reports[k] \in TerminalStates,
           RecordChildResults(flowId, reports)
    PROVE  LockStep
<1> DEFINE i == jobs[flowId]
           row == flowChildren[flowId]
           row1 == ReportedRow(row, reports)
           f == Counted(i.flow, row, reports)
           j == [i EXCEPT !.flow = f]
           a == [j EXCEPT !.flow = SettleFlow(@, row1)]
           s == [a EXCEPT !.failedReason = TRUE]
           ready == [j EXCEPT !.state = "waiting", !.runAt = now,
                              !.seq = seq + 1]
<1>1. i \in MemJob /\ i # None
  BY HasType DEF RecordChildResults, TypeOK, JobMap, Has
<1>2. i.flow \in FlowState
  BY <1>1 DEF RecordChildResults, MemJob, Opt
<1>3. f \in Opt(FlowState)
  BY <1>2, CountedType DEF Opt
<1>4. j \in MemJob
  <2> HIDE DEF f, i
  <2> QED
    BY <1>1, <1>3, FieldTypes
<1>5. KeepsLock(i, j) /\ j.state = i.state
  <2> HIDE DEF f, i
  <2> QED
    BY <1>1 DEF KeepsLock, MemJob
<1>6. lastToken' = lastToken
  BY DEF RecordChildResults
<1>7. \/ \E rs : Retire([jobs EXCEPT ![flowId] = Finish(s, "failed")], rs,
                        {flowId}, {flowId})
      \/ jobs' = [jobs EXCEPT ![flowId] = ready]
             /\ j.state = "waiting-children"
      \/ jobs' = [jobs EXCEPT ![flowId] = j]
  BY DEF RecordChildResults
<1> HIDE DEF j, row1
<1>8. CASE \E rs : Retire([jobs EXCEPT ![flowId] = Finish(s, "failed")], rs,
                          {flowId}, {flowId})
  <2>1. SettleFlow(j.flow, row1) \in Opt(FlowState)
    BY <1>4, SettleFlowType DEF MemJob
  <2>2. a \in MemJob
    BY <1>4, <2>1, FieldTypes
  <2>3. s \in MemJob
    <3> HIDE DEF a
    <3> QED
      BY <2>2, FieldTypes
  <2> HIDE DEF s
  <2> QED
    BY <1>6, <1>8, <2>3, FinishLock DEF TypeOK, JobMap, TerminalStates
<1>9. CASE jobs' = [jobs EXCEPT ![flowId] = ready]
               /\ j.state = "waiting-children"
  <2>1. KeepsLock(j, ready)
    BY <1>4, <1>9, RewriteKeeps DEF JobStates
  <2>2. KeepsLock(i, ready)
    BY <1>5, <1>9, <2>1 DEF KeepsLock
  <2> HIDE DEF ready
  <2> QED
    BY <1>6, <1>9, <2>2, PutLock DEF LockEffect, TypeOK, JobMap
<1>10. CASE jobs' = [jobs EXCEPT ![flowId] = j]
  BY <1>5, <1>6, <1>10, PutLock DEF LockEffect, TypeOK, JobMap
<1> QED
  BY <1>7, <1>8, <1>9, <1>10

(* Operations that touch no record.                                        *)
LEMMA UnchangedLock ==
    ASSUME UNCHANGED <<jobs, lastToken>>
    PROVE  LockStep
BY SameEffect DEF LockStep

-----------------------------------------------------------------------------
(* What a successful claim does to locks: a token never issued before goes *)
(* on a job that was waiting; all other locks stay.                        *)
ClaimStep ==
    \E best \in JobIds :
        /\ lastToken' = lastToken + 1
        /\ jobs[best] # None /\ jobs[best].state # "active"
        /\ jobs'[best] # None
        /\ jobs'[best].state = "active"
        /\ jobs'[best].lockToken = lastToken + 1
        /\ jobs'[best].lockExpiresAt # None
        /\ \A id \in JobIds \ {best} : LockEffect(jobs[id], jobs'[id])

(* claim is the one operation that puts a lock on a job.                   *)
LEMMA ClaimLock ==
    ASSUME TypeOK, NEW queue, NEW names, NEW lockMs \in LockDurations,
           Claim(queue, names, lockMs)
    PROVE  ClaimStep
<1> DEFINE js == PromoteDue(jobs)
           token == lastToken + 1
<1>1. js \in JobMap
  BY PromoteDueType DEF TypeOK, JobMap
<1>2. PICK best \in Claimable(js, queue, names) :
          jobs' = [js EXCEPT ![best] = Claimed(js[best], token, lockMs)]
  BY DEF Claim
<1>3. /\ best \in JobIds /\ js[best] \in MemJob
      /\ js[best].state = "waiting"
  <2> HIDE DEF js
  <2>1. best \in JobIds /\ Has(js, best) /\ js[best].state = "waiting"
    BY <1>2 DEF Claimable
  <2> QED
    BY <1>1, <2>1, HasType
<1>4. jobs[best] # None /\ jobs[best].state # "active"
  BY <1>3, NoneAssumption DEF PromoteDue, Has
<1>5. token \in Nat /\ lockMs \in Nat /\ now + lockMs \in Nat
  BY ConstantsAssumption DEF TypeOK
<1>6. \A id \in JobIds \ {best} : LockEffect(jobs[id], jobs'[id])
  <2>1. \A id \in JobIds : LockEffect(jobs[id], js[id])
    BY PromoteDueLock
  <2> HIDE DEF js
  <2> QED
    BY <1>1, <1>2, <2>1 DEF JobMap
<1> HIDE DEF js, token
<1>7. Claimed(js[best], token, lockMs) \in MemJob
  BY <1>3, <1>5, ClaimedType DEF TypeOK
<1>8. LET j == Claimed(js[best], token, lockMs)
      IN  /\ j.state = "active" /\ j.lockToken = token
          /\ j.lockExpiresAt = now + lockMs
  BY <1>3 DEF Claimed, MemJob
<1>9. jobs'[best] = Claimed(js[best], token, lockMs)
  BY <1>1, <1>2, <1>3 DEF JobMap
<1>10. jobs'[best] # None /\ jobs'[best].lockExpiresAt # None
  BY <1>5, <1>7, <1>8, <1>9, NoneAssumption
<1>11. lastToken' = token
  BY DEF Claim, token
<1> QED
  BY <1>3, <1>4, <1>6, <1>8, <1>9, <1>10, <1>11 DEF ClaimStep, token

(* Every step of the driver is one of the two.                             *)
LEMMA LockEffects ==
    ASSUME TypeOK, LockInv, [Next]_vars
    PROVE  LockStep \/ ClaimStep
<1>1. CASE UNCHANGED vars
  BY <1>1, UnchangedLock DEF vars
<1>2. CASE ProducerNext
  BY <1>2, ProducerLock
<1>3. CASE WorkerNext
  <2>1. ASSUME NEW queue \in Queues, NEW names \in SUBSET Names,
               ClaimEmpty(queue, names)
        PROVE  LockStep
    BY <2>1, PromoteDueLock DEF ClaimEmpty, LockStep
  <2> QED
    BY <1>3, <2>1, ClaimLock, AckTerminalLock, AckRetryLock, AckFanOutLock,
       ReleaseLock, ExtendLocksLock, RecoverStalledLock DEF WorkerNext
<1>4. CASE FlowNext
  <2>1. ASSUME NEW flowId \in JobIds, NEW keys \in SUBSET ChildKeys,
               NEW reports \in [keys -> TerminalStates],
               RecordChildResults(flowId, reports)
        PROVE  LockStep
    BY <2>1, RecordChildResultsLock
  <2>2. ASSUME \/ \E flowId \in JobIds, keys \in SUBSET ChildKeys :
                      MarkChildrenCascaded(flowId, keys)
               \/ \E entries \in SUBSET outbox : DeleteOutbox(entries)
               \/ \E page \in SUBSET [flowId : JobIds, childKey : ChildKeys] :
                     FlowSweepWork(page)
        PROVE  LockStep
    BY <2>2, UnchangedLock
       DEF MarkChildrenCascaded, DeleteOutbox, FlowSweepWork
  <2> QED
    BY <1>4, <2>1, <2>2 DEF FlowNext
<1>5. CASE AdminNext
  <2>1. ASSUME NEW queue \in Queues, Pause(queue) \/ Resume(queue)
        PROVE  LockStep
    BY <2>1, UnchangedLock DEF Pause, Resume
  <2>2. ASSUME NEW id \in JobIds, Remove(id)
        PROVE  LockStep
    BY <2>2, WithoutLock DEF Remove
  <2>3. ASSUME SweepHistory PROVE LockStep
    <3>1. PICK victims : jobs' = Without(jobs, victims, None)
      BY <2>3 DEF SweepHistory
    <3> QED
      BY <2>3, <3>1, WithoutLock DEF SweepHistory
  <2>4. ASSUME NEW k \in DedupeMapKeys, CancelByDedupe(k)
        PROVE  LockStep
    <3>1. dedupes[k].jobId \in JobIds
      BY <2>4 DEF CancelByDedupe, TypeOK, DedupeEntry, Opt
    <3> QED
      BY <2>4, <3>1, CancelLock DEF CancelByDedupe
  <2> QED
    BY <1>5, <2>1, <2>2, <2>3, <2>4, CancelLock, RetryLock, PromoteLock
       DEF AdminNext
<1>6. CASE Tick
  BY <1>6, UnchangedLock DEF Tick
<1> QED
  BY <1>1, <1>2, <1>3, <1>4, <1>5, <1>6 DEF Next

-----------------------------------------------------------------------------
(* LockInv is preserved                                                    *)

(* Steps that only keep or give up locks preserve LockInv.                 *)
LEMMA LockStepPreserves ==
    ASSUME TypeOK, LockInv, LockStep, TypeOK'
    PROVE  LockInv'
<1>1. ASSUME NEW id \in JobIds, Has(jobs', id)
      PROVE  \/ Unlocked(jobs'[id])
             \/ Has(jobs, id) /\ KeepsLock(jobs[id], jobs'[id])
  BY <1>1 DEF LockStep, LockEffect, Releases, KeepsLock, Has
<1>2. LockedIffActive'
  BY <1>1 DEF LockInv, LockedIffActive, KeepsLock, Unlocked, Has
<1>3. TokensIssued'
  BY <1>1 DEF LockInv, TokensIssued, KeepsLock, Unlocked, Has, LockStep
<1>4. TokensDistinct'
  BY <1>1 DEF LockInv, TokensDistinct, KeepsLock, Unlocked, Has
<1> QED
  BY <1>2, <1>3, <1>4 DEF LockInv

(* A claim preserves LockInv: its token is fresh.                          *)
LEMMA ClaimStepPreserves ==
    ASSUME TypeOK, LockInv, ClaimStep, TypeOK'
    PROVE  LockInv'
<1>1. PICK best \in JobIds :
          /\ lastToken' = lastToken + 1
          /\ jobs[best] # None /\ jobs[best].state # "active"
          /\ jobs'[best] # None
          /\ jobs'[best].state = "active"
          /\ jobs'[best].lockToken = lastToken + 1
          /\ jobs'[best].lockExpiresAt # None
          /\ \A id \in JobIds \ {best} : LockEffect(jobs[id], jobs'[id])
  BY DEF ClaimStep
<1>2. ASSUME NEW id \in JobIds \ {best}, Has(jobs', id)
      PROVE  \/ Unlocked(jobs'[id])
             \/ Has(jobs, id) /\ KeepsLock(jobs[id], jobs'[id])
  BY <1>1, <1>2 DEF LockEffect, Releases, KeepsLock, Has
<1>3. lastToken \in Nat /\ lastToken + 1 \in Nat /\ lastToken + 1 # None
  BY NoneAssumption DEF TypeOK
<1>4. LockedIffActive'
  BY <1>1, <1>2, <1>3 DEF LockInv, LockedIffActive, KeepsLock, Unlocked, Has
<1>5. ASSUME NEW id \in JobIds \ {best}, Has(jobs', id),
             jobs'[id].lockToken # None
      PROVE  /\ Has(jobs, id) /\ jobs[id].lockToken = jobs'[id].lockToken
             /\ jobs[id].lockToken \in Nat
             /\ jobs[id].lockToken <= lastToken
  <2>1. Has(jobs, id) /\ jobs[id].lockToken = jobs'[id].lockToken
    BY <1>2, <1>5 DEF KeepsLock, Unlocked
  <2>2. jobs[id] \in MemJob
    BY <2>1, HasType DEF TypeOK, JobMap
  <2> QED
    BY <2>1, <2>2, <1>5 DEF LockInv, TokensIssued, MemJob, Opt
<1>6. TokensIssued'
  BY <1>1, <1>3, <1>5 DEF TokensIssued
<1>7. TokensDistinct'
  <2> SUFFICES ASSUME NEW a \in JobIds, NEW b \in JobIds,
                      Has(jobs', a), Has(jobs', b),
                      jobs'[a].lockToken # None,
                      jobs'[a].lockToken = jobs'[b].lockToken
               PROVE  a = b
    BY DEF TokensDistinct
  <2>1. CASE a = best /\ b # best
    BY <1>1, <1>3, <1>5, <2>1
  <2>2. CASE a # best /\ b = best
    BY <1>1, <1>3, <1>5, <2>2
  <2>3. CASE a # best /\ b # best
    BY <1>5, <2>3 DEF LockInv, TokensDistinct
  <2> QED
    BY <2>1, <2>2, <2>3
<1> QED
  BY <1>4, <1>6, <1>7 DEF LockInv

(* No job, no lock.                                                        *)
LEMMA LockInit == Init => LockInv
BY DEF Init, LockInv, LockedIffActive, TokensIssued, TokensDistinct, Has

(* LockInv is inductive relative to TypeOK.                                *)
LEMMA LockNext == TypeOK /\ LockInv /\ [Next]_vars => LockInv'
<1> SUFFICES ASSUME TypeOK, LockInv, [Next]_vars PROVE LockInv'
  OBVIOUS
<1>1. TypeOK'
  BY TypeStep
<1>2. LockStep \/ ClaimStep
  BY LockEffects
<1> QED
  BY <1>1, <1>2, LockStepPreserves, ClaimStepPreserves

(* The lock discipline holds for any number of jobs, callers and lock      *)
(* durations: a job is locked exactly while active, under a token no other *)
(* job carries, so a run that ended in any way cannot write any more.      *)
THEOREM LocksCorrect == Spec => []LockInv
<1>1. Init => TypeOK /\ LockInv
  BY TypeInit, LockInit
<1>2. TypeOK /\ LockInv /\ [Next]_vars => TypeOK' /\ LockInv'
  BY TypeStep, LockNext
<1> QED
  BY <1>1, <1>2, PTL DEF Spec

-----------------------------------------------------------------------------
(* Cancellation wins                                                       *)

(* A flagged job either stays active and flagged or becomes terminal.      *)
LEMMA CancelSticksOnStep ==
    TypeOK /\ LockInv /\ [Next]_vars => CancelSticksStep \/ UNCHANGED vars
<1> SUFFICES ASSUME TypeOK, LockInv, [Next]_vars,
                    NEW id \in JobIds, Has(jobs, id),
                    jobs[id].cancelRequested, Has(jobs', id)
             PROVE  \/ jobs'[id].state \in TerminalStates
                    \/ jobs'[id].state = "active" /\ jobs'[id].cancelRequested
  BY DEF CancelSticksStep
<1>1. jobs[id].state = "active"
  BY DEF LockInv, LockedIffActive
<1>2. LockEffect(jobs[id], jobs'[id])
  BY <1>1, LockEffects DEF LockStep, ClaimStep
<1> QED
  BY <1>1, <1>2 DEF LockEffect, Releases, KeepsLock, Terminal, Has

(* For every interleaving of workers, sweepers and operators: a job whose  *)
(* cancel was accepted while it ran goes to a terminal state next, never   *)
(* back to waiting, delayed or waiting-children.                           *)
THEOREM CancellationSticks == Spec => CancelSticks
<1>1. Spec => [](TypeOK /\ LockInv)
  BY TypeCorrect, LocksCorrect, PTL
<1>2. TypeOK /\ LockInv /\ [Next]_vars => [CancelSticksStep]_vars
  BY CancelSticksOnStep
<1> QED
  BY <1>1, <1>2, PTL DEF Spec, CancelSticks

-----------------------------------------------------------------------------
(* How a running job ends                                                  *)

\* Whatever else becomes of them, running jobs are cancelled on request only.
OnRequest(i, j) ==
    i # None /\ i.state = "active" /\ j # None /\ j.state = "cancelled" =>
        i.cancelRequested

CancelledOnRequest == \A id \in JobIds : OnRequest(jobs[id], jobs'[id])

\* The job's run is over.
RunOver(id) == jobs'[id] = None \/ jobs'[id].state # "active"

(* An untouched record is not cancelled.                                   *)
LEMMA SameOnRequest ==
    ASSUME NEW j
    PROVE  OnRequest(j, j)
BY DEF OnRequest

(* Rewriting one record, with or without retention.                        *)
LEMMA PutOnRequest ==
    ASSUME jobs \in JobMap, NEW id \in JobIds, NEW j,
           OnRequest(jobs[id], j), j.state # "active",
           \/ jobs' = [jobs EXCEPT ![id] = j]
           \/ \E rs, done, kept :
                 Retire([jobs EXCEPT ![id] = j], rs, done, kept)
    PROVE  CancelledOnRequest /\ RunOver(id)
<1> DEFINE js == [jobs EXCEPT ![id] = j]
<1>1. \A i \in JobIds : jobs'[i] = None \/ jobs'[i] = js[i]
  BY DEF Retire, Without
<1>2. js[id] = j /\ \A i \in JobIds \ {id} : js[i] = jobs[i]
  BY DEF JobMap
<1> HIDE DEF js
<1>3. ASSUME NEW i \in JobIds PROVE OnRequest(jobs[i], jobs'[i])
  BY <1>1, <1>2, SameOnRequest DEF OnRequest
<1>4. RunOver(id)
  BY <1>1, <1>2 DEF RunOver
<1> QED
  BY <1>3, <1>4 DEF CancelledOnRequest

(* markCancelled ends whatever the job was doing.                          *)
LEMMA MarkCancelledEnds ==
    ASSUME TypeOK, NEW id \in JobIds, NEW j \in MemJob, MarkCancelled(id, j),
           jobs[id].state = "active" => jobs[id].cancelRequested
    PROVE  CancelledOnRequest /\ RunOver(id)
<1> DEFINE f == IF j.state = "waiting-children"
                THEN SettleFlow(j.flow, flowChildren[id]) ELSE j.flow
           c == [j EXCEPT !.flow = f]
<1>1. c \in MemJob
  <2>1. f \in Opt(FlowState)
    BY SettleFlowType DEF MemJob
  <2> HIDE DEF f
  <2> QED
    BY <2>1, FieldTypes
<1>2. PICK rs : Retire([jobs EXCEPT ![id] = Finish(c, "cancelled")], rs,
                       {id}, {id})
  BY DEF MarkCancelled
<1> HIDE DEF c
<1>3. Finish(c, "cancelled").state = "cancelled"
  BY <1>1, FinishState
<1> QED
  BY <1>2, <1>3, PutOnRequest DEF TypeOK, JobMap, OnRequest

(* release.                                                                *)
LEMMA ReleaseEnds ==
    ASSUME TypeOK, NEW id \in JobIds, NEW token, Release(id, token)
    PROVE  CancelledOnRequest /\ RunOver(id)
<1>1. jobs[id] \in MemJob
  BY HasType DEF Release, Held, TypeOK, JobMap
<1>2. CASE jobs[id].cancelRequested
  BY <1>1, <1>2, MarkCancelledEnds DEF Release
<1>3. CASE ~jobs[id].cancelRequested
  <2> DEFINE c == ClearLock(jobs[id])
             j == [c EXCEPT !.state = "waiting"]
  <2>1. c \in MemJob
    BY <1>1, ClearLockType
  <2>2. jobs' = [jobs EXCEPT ![id] = j]
    BY <1>3 DEF Release
  <2> HIDE DEF c
  <2>3. j.state = "waiting"
    BY <2>1 DEF MemJob
  <2> HIDE DEF j
  <2> QED
    BY <2>2, <2>3, PutOnRequest DEF OnRequest, TypeOK, JobMap
<1> QED
  BY <1>2, <1>3

(* ack Retry.                                                              *)
LEMMA AckRetryEnds ==
    ASSUME TypeOK, NEW id \in JobIds, NEW token, NEW delayMs \in RetryDelays,
           AckRetry(id, token, delayMs)
    PROVE  CancelledOnRequest /\ RunOver(id)
<1>1. Acked(id) \in MemJob
  BY AckedType DEF AckRetry, Held
<1>2. CASE jobs[id].cancelRequested
  BY <1>1, <1>2, MarkCancelledEnds DEF AckRetry
<1>3. CASE ~jobs[id].cancelRequested
  <2> DEFINE c == RecordAttempt(Acked(id), "retried")
             s == IF delayMs > 0 THEN "delayed" ELSE "waiting"
             j == [c EXCEPT !.runAt = now + delayMs, !.state = s,
                            !.seq = seq + 1]
  <2>1. c \in MemJob
    BY <1>1, RecordAttemptType DEF AttemptOutcomes
  <2>2. jobs' = [jobs EXCEPT ![id] = j]
    BY <1>3 DEF AckRetry
  <2>3. s \in {"waiting", "delayed"}
    OBVIOUS
  <2> HIDE DEF c, s
  <2>4. j.state \in {"waiting", "delayed"}
    BY <2>1, <2>3 DEF MemJob
  <2> HIDE DEF j
  <2> QED
    BY <2>2, <2>4, PutOnRequest DEF OnRequest, TypeOK, JobMap
<1> QED
  BY <1>2, <1>3

(* ack Complete, Fail and Cancelled: the last one is the worker's word.    *)
LEMMA AckTerminalEnds ==
    ASSUME TypeOK, NEW id \in JobIds, NEW token, NEW state \in TerminalStates,
           NEW exit \in BOOLEAN, AckTerminal(id, token, state, exit)
    PROVE  /\ RunOver(id)
           /\ (state = "cancelled" => jobs[id].cancelRequested) =>
                 CancelledOnRequest
           /\ \A i \in JobIds \ {id} : OnRequest(jobs[i], jobs'[i])
<1> DEFINE e == IF state = "cancelled" THEN Acked(id).exit ELSE exit
           j == [Acked(id) EXCEPT !.exit = e]
<1>1. Acked(id) \in MemJob
  BY AckedType DEF AckTerminal, Held
<1>2. e \in BOOLEAN
  BY <1>1 DEF MemJob
<1>3. Retire([jobs EXCEPT ![id] = Finish(j, state)], flowChildren, {id}, {id})
  BY DEF AckTerminal
<1> HIDE DEF e
<1>4. j \in MemJob
  BY <1>1, <1>2, FieldTypes
<1> HIDE DEF j
<1> DEFINE f == Finish(j, state)
           js == [jobs EXCEPT ![id] = f]
<1>5. f.state = state
  BY <1>4, FinishState
<1>6. Retire(js, flowChildren, {id}, {id})
  BY <1>3
<1> HIDE DEF f
<1>7. js[id] = f /\ \A i \in JobIds \ {id} : js[i] = jobs[i]
  BY DEF TypeOK, JobMap
<1> HIDE DEF js
<1>8. \A i \in JobIds : jobs'[i] = None \/ jobs'[i] = js[i]
  BY <1>6 DEF Retire, Without
<1>9. \A i \in JobIds \ {id} : OnRequest(jobs[i], jobs'[i])
  BY <1>7, <1>8, SameOnRequest DEF OnRequest
<1>10. RunOver(id)
  BY <1>5, <1>7, <1>8 DEF RunOver, TerminalStates
<1>11. (state = "cancelled" => jobs[id].cancelRequested) =>
          OnRequest(jobs[id], jobs'[id])
  BY <1>5, <1>7, <1>8 DEF OnRequest
<1> QED
  BY <1>9, <1>10, <1>11 DEF CancelledOnRequest

(* recoverStalled cancels only what it was asked to.                       *)
LEMMA RecoverStalledEnds ==
    ASSUME TypeOK, RecoverStalled
    PROVE  CancelledOnRequest
<1> DEFINE js == [id \in JobIds |-> IF id \in Stalled
                                    THEN RecoveredJob(jobs[id]) ELSE jobs[id]]
<1>1. PICK done, kept : Retire(js, flowChildren, done, kept)
  BY DEF RecoverStalled
<1>2. ASSUME NEW id \in JobIds PROVE OnRequest(jobs[id], js[id])
  <2>1. CASE id \in Stalled /\ ~jobs[id].cancelRequested
    <3> DEFINE c == RecordAttempt(ClearLock(jobs[id]), "stalled")
    <3>1. jobs[id] \in MemJob
      BY <2>1, HasType DEF Stalled, TypeOK, JobMap
    <3>2. c \in MemJob
      BY <3>1, ClearLockType, RecordAttemptType DEF AttemptOutcomes
    <3>3. \/ js[id] = [c EXCEPT !.stalledCount = @ + 1, !.state = "failed",
                                !.finishedAt = now, !.failedReason = TRUE]
          \/ js[id] = [c EXCEPT !.stalledCount = @ + 1, !.state = "waiting"]
      BY <2>1 DEF RecoveredJob
    <3> HIDE DEF c, js
    <3>4. js[id].state \in {"failed", "waiting"}
      BY <3>2, <3>3 DEF MemJob
    <3> QED
      BY <3>4 DEF OnRequest
  <2>2. CASE id \in Stalled /\ jobs[id].cancelRequested
    BY <2>2 DEF OnRequest
  <2>3. CASE id \notin Stalled
    BY <2>3, SameOnRequest
  <2> QED
    BY <2>1, <2>2, <2>3
<1> HIDE DEF js
<1>3. \A id \in JobIds : jobs'[id] = None \/ jobs'[id] = js[id]
  BY <1>1 DEF Retire, Without
<1> QED
  BY <1>2, <1>3 DEF CancelledOnRequest, OnRequest

(* cancelJob flags an active job.                                          *)
LEMMA CancelOnRequest ==
    ASSUME TypeOK, NEW id \in JobIds, Cancel(id)
    PROVE  CancelledOnRequest
<1>1. jobs[id] \in MemJob
  BY HasType DEF Cancel, TypeOK, JobMap
<1>2. CASE jobs[id].state # "active" /\ MarkCancelled(id, jobs[id])
  BY <1>1, <1>2, MarkCancelledEnds
<1>3. CASE jobs' = [jobs EXCEPT ![id].cancelRequested = TRUE]
  BY <1>1, <1>3, SameOnRequest
     DEF CancelledOnRequest, OnRequest, TypeOK, JobMap, MemJob
<1> QED
  BY <1>2, <1>3 DEF Cancel

(* The other operations leave the states of running jobs alone.            *)
LEMMA OthersOnRequest ==
    ASSUME TypeOK,
           \/ \E r \in Requests, id \in JobIds : Enqueue(r, id)
           \/ \E id \in JobIds : Retry(id)
           \/ \E queue, names, lockMs : Claim(queue, names, lockMs)
           \/ \E id \in JobIds : \E token, lockMs : ExtendLocks(id, token, lockMs)
           \/ UNCHANGED jobs
    PROVE  CancelledOnRequest
<1>1. ASSUME NEW id \in JobIds, NEW j, jobs' = [jobs EXCEPT ![id] = j],
             OnRequest(jobs[id], j)
      PROVE  CancelledOnRequest
  BY <1>1, SameOnRequest DEF CancelledOnRequest, TypeOK, JobMap
<1>2. ASSUME NEW r \in Requests, NEW id \in JobIds, Enqueue(r, id)
      PROVE  CancelledOnRequest
  <2>1. jobs[id] = None /\ jobs' = [jobs EXCEPT ![id] = NewJob(r)]
    BY <1>2 DEF Enqueue, Has, IdTaken
  <2> QED
    BY <1>1, <2>1 DEF OnRequest
<1>3. ASSUME NEW id \in JobIds, Retry(id)
      PROVE  CancelledOnRequest
  BY <1>1, <1>3 DEF OnRequest, Retry
<1>4. ASSUME NEW queue, NEW names, NEW lockMs, Claim(queue, names, lockMs)
      PROVE  CancelledOnRequest
  <2> DEFINE js == PromoteDue(jobs)
  <2>1. js \in JobMap
    BY PromoteDueType DEF TypeOK, JobMap
  <2>2. PICK best \in Claimable(js, queue, names) :
            jobs' = [js EXCEPT ![best] =
                        Claimed(js[best], lastToken + 1, lockMs)]
    BY <1>4 DEF Claim
  <2>3. \A id \in JobIds :
           /\ js[id] # jobs[id] => js[id].state = "waiting"
           /\ id \in Claimable(js, queue, names) => js[id].state = "waiting"
    <3>1. ASSUME NEW id \in JobIds, js[id] # jobs[id]
          PROVE  js[id].state = "waiting"
      <4>1. Has(jobs, id) /\ js[id] = [jobs[id] EXCEPT !.state = "waiting"]
        BY <3>1 DEF PromoteDue
      <4>2. jobs[id] \in MemJob
        BY <4>1, HasType DEF TypeOK, JobMap
      <4> QED
        BY <4>1, <4>2 DEF MemJob
    <3> QED
      BY <3>1 DEF Claimable
  <2>4. best \in JobIds /\ js[best] \in MemJob
    BY <2>1, <2>2, HasType DEF Claimable
  <2> HIDE DEF js
  <2>5. Claimed(js[best], lastToken + 1, lockMs).state = "active"
    BY <2>4 DEF Claimed, MemJob
  <2> QED
    BY <2>1, <2>2, <2>3, <2>4, <2>5
       DEF CancelledOnRequest, OnRequest, JobMap
<1>5. ASSUME NEW id \in JobIds, NEW token, NEW lockMs,
             ExtendLocks(id, token, lockMs)
      PROVE  CancelledOnRequest
  <2>1. jobs[id] \in MemJob /\ jobs[id].state = "active"
    BY <1>5, HasType DEF ExtendLocks, Held, TypeOK, JobMap
  <2>2. jobs' = [jobs EXCEPT ![id] = [jobs[id] EXCEPT
                                         !.lockExpiresAt = now + lockMs]]
    BY <1>5 DEF ExtendLocks, TypeOK, JobMap
  <2>3. [jobs[id] EXCEPT !.lockExpiresAt = now + lockMs].state = "active"
    BY <2>1 DEF MemJob
  <2> QED
    BY <1>1, <2>2, <2>3 DEF OnRequest
<1>6. CASE UNCHANGED jobs
  BY <1>6, SameOnRequest DEF CancelledOnRequest
<1> QED
  BY <1>2, <1>3, <1>4, <1>5, <1>6

-----------------------------------------------------------------------------
(* How jobs of MemoryJobStore end and what that does to their dedup keys,  *)
(* proved for every value of the constants: terminal fields and ledger     *)
(* agree (ResultInv), the stall budget holds (StallBudget), a finished job *)
(* holds no pending-mode key (KeyFreedWhenDone), two enqueued jobs never   *)
(* share one (OneEnqueuedPerKey), and a live window keeps its key          *)
(* (LiveWindowKept).                                                       *)
(*                                                                         *)
(* The argument: every operation but an inserting enqueue is classified    *)
(* once.  Each record is dropped, left alone, or followed by one that is   *)
(* right again and whose ledger extends the old one; each dedup entry      *)
(* stays, is released by a job that is over or a window that ran out, or   *)
(* has its window moved; and a job that becomes terminal leaves no         *)
(* pending-mode entry behind.                                              *)

-----------------------------------------------------------------------------
(* Ledgers                                                                 *)

Ledger == Seq(AttemptOutcomes)

StallsOf(s) == {n \in DOMAIN s : s[n] = "stalled"}

\* Ledger t continues ledger s.
Continues(s, t) ==
    /\ Len(s) <= Len(t)
    /\ \A n \in 1..Len(s) : t[n] = s[n]

\* Ledger t continues ledger s without a stall.
Grows(s, t) == Continues(s, t) /\ StallsOf(t) = StallsOf(s)

(* Appending continues a ledger.                                           *)
LEMMA GrowsAppend ==
    ASSUME NEW s \in Ledger, NEW outcome \in AttemptOutcomes
    PROVE  /\ Append(s, outcome) \in Ledger
           /\ Continues(s, Append(s, outcome))
           /\ outcome # "stalled" => Grows(s, Append(s, outcome))
           /\ Append(s, outcome) # <<>>
           /\ Append(s, outcome)[Len(Append(s, outcome))] = outcome
           /\ Len(s) + 1 \in DOMAIN Append(s, outcome)
           /\ Append(s, outcome)[Len(s) + 1] = outcome
BY DEF Grows, Continues, StallsOf, Ledger

(* Continuing twice is continuing.                                         *)
LEMMA GrowsTransitive ==
    ASSUME NEW s \in Ledger, NEW t \in Ledger, NEW u \in Ledger,
           Grows(s, t), Grows(t, u)
    PROVE  Grows(s, u)
BY DEF Grows, Continues, Ledger

(* A ledger continues itself.                                              *)
LEMMA GrowsReflexive ==
    ASSUME NEW s \in Ledger
    PROVE  Grows(s, s)
BY DEF Grows, Continues, Ledger

(* The stalls of a ledger are finitely many and never become fewer.        *)
LEMMA StallsGrow ==
    ASSUME NEW s \in Ledger, NEW t \in Ledger, Continues(s, t)
    PROVE  /\ IsFiniteSet(StallsOf(s)) /\ Cardinality(StallsOf(s)) \in Nat
           /\ StallsOf(s) \subseteq StallsOf(t)
           /\ Cardinality(StallsOf(s)) <= Cardinality(StallsOf(t))
<1>1. ASSUME NEW u \in Ledger PROVE IsFiniteSet(StallsOf(u))
  <2>1. IsFiniteSet(1..Len(u)) /\ StallsOf(u) \subseteq 1..Len(u)
    BY FS_Interval DEF StallsOf, Ledger
  <2> QED
    BY <2>1, FS_Subset
<1>2. StallsOf(s) \subseteq StallsOf(t)
  BY DEF StallsOf, Continues, Ledger
<1> QED
  BY <1>1, <1>2, FS_Subset, FS_CardinalityType

(* The stalls of a ledger are finitely many.                               *)
LEMMA StallsFinite ==
    ASSUME NEW s \in Ledger
    PROVE  IsFiniteSet(StallsOf(s)) /\ Cardinality(StallsOf(s)) \in Nat
BY GrowsReflexive, StallsGrow DEF Grows

(* A recorded stall is one more.                                           *)
LEMMA StallRecorded ==
    ASSUME NEW s \in Ledger
    PROVE  Cardinality(StallsOf(Append(s, "stalled")))
               = Cardinality(StallsOf(s)) + 1
<1> DEFINE t == Append(s, "stalled")
<1>1. Len(s) + 1 \notin StallsOf(s)
  BY DEF StallsOf, Ledger
<1>2. StallsOf(t) = StallsOf(s) \cup {Len(s) + 1}
  BY DEF StallsOf, Ledger
<1>3. IsFiniteSet(StallsOf(s))
  BY StallsFinite
<1> QED
  BY <1>1, <1>2, <1>3, FS_AddElement

-----------------------------------------------------------------------------
(* Records                                                                 *)

\* ResultInv, StallBudget and what the ledger shows, for one record.
ResultOK(j) ==
    /\ Terminal(j) <=> j.finishedAt # None
    /\ Terminal(j) => /\ j.attempts # <<>>
                      /\ \/ LastOutcome(j) = j.state
                         \/ /\ LastOutcome(j) = "stalled"
                            /\ j.state = "failed" /\ j.failedReason
    /\ j.exit => j.state \in {"completed", "failed"} /\ ~j.failedReason
    /\ j.failedReason => j.state = "failed"

StallOK(j) ==
    \/ j.stalledCount <= MaxStalledCount
    \/ /\ j.stalledCount = MaxStalledCount + 1
       /\ j.state = "failed" /\ j.failedReason

\* The ledger explains the stall count and shows every failure.
LedgerOK(j) ==
    /\ Revived(j) \/ j.stalledCount = Cardinality(StallsOf(j.attempts))
    /\ j.stalledCount <= Cardinality(StallsOf(j.attempts))
    /\ j.state = "failed" => Revived(j)

RecordOK(j) == ResultOK(j) /\ StallOK(j) /\ LedgerOK(j)

\* What RecordOK means for a job that is not terminal.
PendingOK(j) ==
    /\ j.finishedAt = None /\ ~j.exit /\ ~j.failedReason
    /\ j.stalledCount <= MaxStalledCount
    /\ Revived(j) \/ j.stalledCount = Cardinality(StallsOf(j.attempts))
    /\ j.stalledCount <= Cardinality(StallsOf(j.attempts))

\* Record j is a legal successor of record i.
Follows(i, j) ==
    /\ i # None /\ j # None
    /\ RecordOK(j)
    /\ j.name = i.name /\ j.dedupeKey = i.dedupeKey
    /\ Revived(i) => Revived(j)
    /\ Terminal(i) => Terminal(j) \/ Revived(j)

SameOutcome(i, j) ==
    /\ j.finishedAt = i.finishedAt /\ j.exit = i.exit
    /\ j.failedReason = i.failedReason /\ j.stalledCount = i.stalledCount
    /\ j.name = i.name /\ j.dedupeKey = i.dedupeKey

(* Pending records are right exactly when they carry no outcome.           *)
LEMMA PendingRecord ==
    ASSUME NEW j \in MemJob, ~Terminal(j)
    PROVE  RecordOK(j) <=> PendingOK(j)
<1>1. j.stalledCount \in Nat /\ MaxStalledCount \in Nat
  BY ConstantsAssumption DEF MemJob
<1>2. j.exit \in BOOLEAN /\ j.failedReason \in BOOLEAN
  BY DEF MemJob
<1>3. j.state \notin {"completed", "failed", "cancelled"}
  BY DEF Terminal, TerminalStates
<1> QED
  BY <1>1, <1>2, <1>3
     DEF RecordOK, PendingOK, ResultOK, StallOK, LedgerOK, Terminal

(* A failure once in the ledger stays in it.                               *)
LEMMA RevivedGrows ==
    ASSUME NEW i \in MemJob, NEW j \in MemJob,
           Continues(i.attempts, j.attempts), Revived(i)
    PROVE  Revived(j)
<1>1. i.attempts \in Ledger /\ j.attempts \in Ledger
  BY DEF MemJob, Ledger
<1>2. CASE \E n \in DOMAIN i.attempts : i.attempts[n] = "failed"
  <2>1. \E n \in DOMAIN j.attempts : j.attempts[n] = "failed"
    BY <1>1, <1>2 DEF Continues, Ledger
  <2> QED
    BY <2>1 DEF Revived, Runs
<1>3. CASE Cardinality(StallsOf(i.attempts)) > MaxStalledCount
  <2>1. /\ Cardinality(StallsOf(i.attempts))
               <= Cardinality(StallsOf(j.attempts))
        /\ Cardinality(StallsOf(i.attempts)) \in Nat
    BY <1>1, StallsGrow
  <2>2. Cardinality(StallsOf(j.attempts)) \in Nat /\ MaxStalledCount \in Nat
    BY <1>1, StallsFinite, ConstantsAssumption
  <2>3. Cardinality(StallsOf(j.attempts)) > MaxStalledCount
    BY <1>3, <2>1, <2>2
  <2> QED
    BY <2>3 DEF Revived, Runs, StallsOf
<1> QED
  BY <1>2, <1>3 DEF Revived, Runs, StallsOf

(* A pending record rewritten without an outcome.                          *)
LEMMA StaysPending ==
    ASSUME NEW i \in MemJob, NEW j \in MemJob, RecordOK(i),
           ~Terminal(i), ~Terminal(j),
           SameOutcome(i, j), Grows(i.attempts, j.attempts)
    PROVE  Follows(i, j)
<1>1. i.attempts \in Ledger /\ j.attempts \in Ledger
  BY DEF MemJob, Ledger
<1>2. Cardinality(StallsOf(i.attempts)) = Cardinality(StallsOf(j.attempts))
  BY DEF Grows
<1>3. PendingOK(i)
  BY PendingRecord
<1>4. i.stalledCount \in Nat
  BY DEF MemJob
<1>5. Revived(i) => Revived(j)
  BY RevivedGrows DEF Grows
<1>6. PendingOK(j)
  BY <1>2, <1>3, <1>4, <1>5 DEF PendingOK, SameOutcome
<1>7. RecordOK(j)
  BY <1>6, PendingRecord
<1> QED
  BY <1>5, <1>7, NoneAssumption DEF Follows, SameOutcome

(* What clearLock leaves alone.                                            *)
LEMMA ClearLockOutcome ==
    ASSUME NEW j \in MemJob
    PROVE  LET c == ClearLock(j)
           IN  /\ c \in MemJob /\ SameOutcome(j, c) /\ c.attempts = j.attempts
               /\ c.state = j.state /\ c.cancelRequested = j.cancelRequested
<1>1. ClearLock(j) \in MemJob
  BY ClearLockType
<1> QED
  BY <1>1 DEF ClearLock, MemJob, SameOutcome

(* What recordAttempt does.                                                *)
LEMMA RecordAttemptOutcome ==
    ASSUME NEW j \in MemJob, NEW outcome \in AttemptOutcomes
    PROVE  LET c == RecordAttempt(j, outcome)
           IN  /\ c \in MemJob /\ SameOutcome(j, c)
               /\ c.attempts = Append(j.attempts, outcome)
               /\ Continues(j.attempts, c.attempts)
               /\ outcome # "stalled" => Grows(j.attempts, c.attempts)
               /\ c.state = j.state /\ c.cancelRequested = j.cancelRequested
<1> DEFINE a == Append(j.attempts, outcome)
<1>1. RecordAttempt(j, outcome) \in MemJob
  BY RecordAttemptType
<1>2. /\ Continues(j.attempts, a)
      /\ outcome # "stalled" => Grows(j.attempts, a)
  BY GrowsAppend DEF MemJob, Ledger
<1>3. RecordAttempt(j, outcome) = [j EXCEPT !.attempts = a]
  BY DEF RecordAttempt
<1> HIDE DEF a
<1>4. /\ SameOutcome(j, [j EXCEPT !.attempts = a])
      /\ [j EXCEPT !.attempts = a].attempts = a
      /\ [j EXCEPT !.attempts = a].state = j.state
      /\ [j EXCEPT !.attempts = a].cancelRequested = j.cancelRequested
  BY DEF MemJob, SameOutcome
<1> QED
  BY <1>1, <1>2, <1>3, <1>4 DEF a

(* A terminal transition: the last ledger entry is the state, and a result *)
(* and a store-written reason exclude each other.                          *)
LEMMA FinishFollows ==
    ASSUME NEW i \in MemJob, NEW j \in MemJob, NEW state \in TerminalStates,
           now \in Nat, RecordOK(i), ~Terminal(i),
           j.name = i.name, j.dedupeKey = i.dedupeKey,
           j.stalledCount = i.stalledCount, Grows(i.attempts, j.attempts),
           j.exit => state \in {"completed", "failed"} /\ ~j.failedReason,
           j.failedReason => state = "failed"
    PROVE  Follows(i, Finish(j, state)) /\ Terminal(Finish(j, state))
<1> DEFINE c == ClearLock(j)
           a == Append(j.attempts, state)
           d == Finish(j, state)
<1>1. state \in AttemptOutcomes /\ state # "stalled"
  BY DEF TerminalStates, AttemptOutcomes
<1>2. c \in MemJob /\ SameOutcome(j, c) /\ c.attempts = j.attempts
  BY ClearLockOutcome
<1>3. /\ d \in MemJob
      /\ d.state = state /\ d.finishedAt = now /\ d.attempts = a
      /\ d.exit = j.exit /\ d.failedReason = j.failedReason
      /\ d.stalledCount = j.stalledCount
      /\ d.name = j.name /\ d.dedupeKey = j.dedupeKey
  <2>1. d \in MemJob
    BY FinishType
  <2>2. d = [[c EXCEPT !.cancelRequested = FALSE, !.state = state,
                       !.finishedAt = now] EXCEPT !.attempts = a]
    BY <1>2 DEF Finish, RecordAttempt, MemJob
  <2> HIDE DEF c, a, d
  <2> QED
    BY <1>2, <2>1, <2>2 DEF MemJob, SameOutcome
<1>4. i.attempts \in Ledger /\ j.attempts \in Ledger
  BY DEF MemJob, Ledger
<1>5. /\ a \in Ledger /\ Grows(j.attempts, a) /\ a # <<>>
      /\ a[Len(a)] = state
      /\ \E n \in DOMAIN a : a[n] = state
  BY <1>1, <1>4, GrowsAppend
<1> HIDE DEF a, c, d
<1>6. Grows(i.attempts, a)
  BY <1>4, <1>5, GrowsTransitive
<1>7. Terminal(d)
  BY <1>3 DEF Terminal
<1>8. ResultOK(d)
  <2>1. d.finishedAt # None
    BY <1>3, NoneAssumption
  <2> QED
    BY <1>3, <1>5, <1>7, <2>1 DEF ResultOK, LastOutcome
<1>9. PendingOK(i)
  BY PendingRecord
<1>10. StallOK(d)
  BY <1>3, <1>9 DEF PendingOK, StallOK
<1>11. Revived(i) => Revived(d)
  BY <1>3, <1>6, RevivedGrows DEF Grows
<1>12. LedgerOK(d)
  <2>1. Cardinality(StallsOf(i.attempts)) = Cardinality(StallsOf(d.attempts))
    BY <1>3, <1>6 DEF Grows
  <2>2. d.state = "failed" => Revived(d)
    BY <1>3, <1>5 DEF Revived, Runs
  <2> QED
    BY <1>3, <1>9, <1>11, <2>1, <2>2 DEF LedgerOK, PendingOK
<1>13. d # None /\ i # None
  BY <1>3, NoneAssumption
<1> QED
  BY <1>3, <1>7, <1>8, <1>10, <1>11, <1>12, <1>13 DEF Follows, RecordOK, d

(* recoverStalled: the stall is recorded before it is counted.             *)
LEMMA RecoveredFollows ==
    ASSUME NEW i \in MemJob, now \in Nat, RecordOK(i), i.state = "active"
    PROVE  Follows(i, RecoveredJob(i))
<1> DEFINE c == ClearLock(i)
           b == RecordAttempt(c, "stalled")
           d == RecoveredJob(i)
<1>1. ~Terminal(i)
  BY DEF Terminal, TerminalStates
<1>2. PendingOK(i)
  BY <1>1, PendingRecord
<1>3. c \in MemJob /\ SameOutcome(i, c) /\ c.attempts = i.attempts
  BY ClearLockOutcome
<1>4. i.attempts \in Ledger
  BY DEF MemJob, Ledger
<1> HIDE DEF c
<1>5. b \in MemJob /\ SameOutcome(i, b)
          /\ b.attempts = Append(i.attempts, "stalled")
          /\ Continues(i.attempts, b.attempts)
  BY <1>3, RecordAttemptOutcome DEF AttemptOutcomes, SameOutcome
<1> HIDE DEF b
<1>6. /\ b.attempts # <<>> /\ LastOutcome(b) = "stalled"
      /\ Cardinality(StallsOf(b.attempts))
             = Cardinality(StallsOf(i.attempts)) + 1
  <2>1. "stalled" \in AttemptOutcomes
    BY DEF AttemptOutcomes
  <2>2. b.attempts # <<>> /\ LastOutcome(b) = "stalled"
    BY <1>4, <1>5, <2>1, GrowsAppend DEF LastOutcome
  <2>3. Cardinality(StallsOf(b.attempts))
            = Cardinality(StallsOf(i.attempts)) + 1
    BY <1>4, <1>5, StallRecorded
  <2> QED
    BY <2>2, <2>3
<1>7. /\ i.stalledCount \in Nat /\ MaxStalledCount \in Nat
      /\ Cardinality(StallsOf(i.attempts)) \in Nat
      /\ i.stalledCount <= MaxStalledCount
      /\ i.stalledCount <= Cardinality(StallsOf(i.attempts))
  BY <1>2, <1>4, StallsFinite, ConstantsAssumption DEF PendingOK, MemJob
<1>8. CASE i.cancelRequested
  <2>1. Follows(i, Finish(i, "cancelled"))
    BY <1>1, <1>2, <1>4, FinishFollows, GrowsReflexive
       DEF PendingOK, TerminalStates
  <2> QED
    BY <1>8, <2>1 DEF RecoveredJob
<1>9. CASE ~i.cancelRequested /\ StallsExhausted(i)
  <2>1. d = [b EXCEPT !.stalledCount = @ + 1, !.state = "failed",
                      !.finishedAt = now, !.failedReason = TRUE]
    BY <1>9 DEF RecoveredJob, b, c
  <2>2. /\ d \in MemJob /\ d.state = "failed" /\ d.finishedAt = now
        /\ d.failedReason /\ d.exit = b.exit /\ d.attempts = b.attempts
        /\ d.stalledCount = i.stalledCount + 1
        /\ d.name = i.name /\ d.dedupeKey = i.dedupeKey
    <3>1. d \in MemJob
      BY RecoveredJobType
    <3> HIDE DEF d
    <3> QED
      BY <1>5, <2>1, <3>1 DEF MemJob, SameOutcome
  <2> HIDE DEF d
  <2>3. i.stalledCount = MaxStalledCount
    BY <1>7, <1>9 DEF StallsExhausted
  <2>4. ResultOK(d)
    <3>1. ~d.exit
      BY <1>2, <1>5, <2>2 DEF PendingOK, SameOutcome
    <3>2. d.finishedAt # None
      BY <2>2, NoneAssumption
    <3> QED
      BY <1>6, <2>2, <3>1, <3>2
         DEF ResultOK, Terminal, TerminalStates, LastOutcome
  <2>5. StallOK(d)
    BY <2>2, <2>3 DEF StallOK
  <2>6. LedgerOK(d)
    <3>1. Cardinality(StallsOf(d.attempts)) > MaxStalledCount
              /\ d.stalledCount <= Cardinality(StallsOf(d.attempts))
      BY <1>6, <1>7, <2>2, <2>3
    <3>2. Revived(d)
      BY <3>1 DEF Revived, Runs, StallsOf
    <3> QED
      BY <3>1, <3>2 DEF LedgerOK
  <2>7. Revived(d)
    BY <2>2, <2>6 DEF LedgerOK
  <2> QED
    BY <2>2, <2>4, <2>5, <2>6, <2>7, NoneAssumption DEF Follows, RecordOK, d
<1>10. CASE ~i.cancelRequested /\ ~StallsExhausted(i)
  <2>1. d = [b EXCEPT !.stalledCount = @ + 1, !.state = "waiting"]
    BY <1>10 DEF RecoveredJob, b, c
  <2>2. /\ d \in MemJob /\ d.state = "waiting"
        /\ d.finishedAt = i.finishedAt /\ d.exit = i.exit
        /\ d.failedReason = i.failedReason /\ d.attempts = b.attempts
        /\ d.stalledCount = i.stalledCount + 1
        /\ d.name = i.name /\ d.dedupeKey = i.dedupeKey
    <3>1. d \in MemJob
      BY RecoveredJobType
    <3> HIDE DEF d
    <3> QED
      BY <1>5, <2>1, <3>1 DEF MemJob, SameOutcome
  <2> HIDE DEF d
  <2>3. i.stalledCount + 1 <= MaxStalledCount
    BY <1>7, <1>10 DEF StallsExhausted
  <2>4. Revived(i) => Revived(d)
    BY <1>5, <2>2, RevivedGrows
  <2>5. PendingOK(d)
    BY <1>2, <1>6, <1>7, <2>2, <2>3, <2>4 DEF PendingOK
  <2>6. ~Terminal(d)
    BY <2>2 DEF Terminal, TerminalStates
  <2>7. RecordOK(d)
    BY <2>2, <2>5, <2>6, PendingRecord
  <2> QED
    BY <1>1, <2>2, <2>4, <2>7, NoneAssumption DEF Follows, d
<1> QED
  BY <1>8, <1>9, <1>10

(* retry: the ledger keeps the failure the job is revived from.            *)
LEMMA ReviveFollows ==
    ASSUME NEW i \in MemJob, now \in Nat, seq \in Nat,
           RecordOK(i), i.state = "failed"
    PROVE  Follows(i, Revive(i)) /\ ~Terminal(Revive(i))
<1> DEFINE d == Revive(i)
<1>1. d \in MemJob
  BY ReviveType
<1>2. /\ d.state = "waiting" /\ d.finishedAt = None /\ ~d.exit
      /\ ~d.failedReason /\ d.stalledCount = 0 /\ d.attempts = i.attempts
      /\ d.name = i.name /\ d.dedupeKey = i.dedupeKey
  BY DEF Revive, MemJob
<1> HIDE DEF d
<1>3. i.attempts \in Ledger
  BY DEF MemJob, Ledger
<1>4. Cardinality(StallsOf(i.attempts)) \in Nat /\ MaxStalledCount \in Nat
  BY <1>3, StallsFinite, ConstantsAssumption
<1>5. Revived(d)
  BY <1>2 DEF RecordOK, LedgerOK, Revived, Runs
<1>6. PendingOK(d)
  BY <1>2, <1>4, <1>5 DEF PendingOK
<1>7. ~Terminal(d)
  BY <1>2 DEF Terminal, TerminalStates
<1>8. RecordOK(d)
  BY <1>1, <1>6, <1>7, PendingRecord
<1> QED
  BY <1>1, <1>2, <1>7, <1>8, <1>5, NoneAssumption DEF Follows, d

-----------------------------------------------------------------------------
(* Steps                                                                   *)

RecordsOK == \A id \in JobIds : Has(jobs, id) => RecordOK(jobs[id])

\* What a step may do to record id.
RecordKept(id) ==
    \/ jobs'[id] = jobs[id]
    \/ jobs'[id] = None
    \/ Follows(jobs[id], jobs'[id])

\* The entry of k is released: its job is over, or its window ran out.
Released(k) ==
    /\ dedupes[k] # None /\ dedupes'[k] = None
    /\ IF dedupes[k].expiresAt = None
       THEN \/ jobs'[dedupes[k].jobId] = None
            \/ Terminal(jobs'[dedupes[k].jobId])
       ELSE dedupes[k].expiresAt <= now

\* The window of k is moved; only a request with a window does that.
Rewindowed(k) ==
    /\ dedupes[k] # None /\ dedupes'[k] # None
    /\ dedupes'[k].jobId = dedupes[k].jobId
    /\ dedupes'[k].expiresAt # None
    /\ k[2] \notin PendingKeys

\* No pending-mode entry of its own key is left to the job.
KeyFreed(id) ==
    \A k \in DedupeMapKeys :
        /\ dedupes'[k] # None /\ dedupes'[k].jobId = id
        /\ k = <<jobs'[id].name, jobs'[id].dedupeKey>>
        => dedupes'[k].expiresAt # None

BecomesDone(id) ==
    /\ Has(jobs', id) /\ Terminal(jobs'[id])
    /\ ~(Has(jobs, id) /\ Terminal(jobs[id]))

OutcomeStep ==
    /\ \A id \in JobIds : RecordKept(id)
    /\ \A k \in DedupeMapKeys :
          dedupes'[k] = dedupes[k] \/ Released(k) \/ Rewindowed(k)
    /\ \A id \in JobIds : BecomesDone(id) => KeyFreed(id)

(* Steps after which no more jobs are terminal and the entries are left.   *)
LEMMA CarriedOutcome ==
    ASSUME dedupes' = dedupes,
           \A id \in JobIds :
               \/ jobs'[id] = jobs[id] \/ jobs'[id] = None
               \/ /\ Follows(jobs[id], jobs'[id])
                  /\ Terminal(jobs'[id]) => Terminal(jobs[id])
    PROVE  OutcomeStep
<1>1. \A id \in JobIds : RecordKept(id)
  BY DEF RecordKept
<1>2. \A id \in JobIds : ~BecomesDone(id)
  BY DEF BecomesDone, Follows, Has
<1> QED
  BY <1>1, <1>2 DEF OutcomeStep

(* One record rewritten without becoming terminal.                         *)
LEMMA PutOutcome ==
    ASSUME TypeOK, NEW id \in JobIds, NEW j,
           Follows(jobs[id], j), Terminal(j) => Terminal(jobs[id]),
           jobs' = [jobs EXCEPT ![id] = j], dedupes' = dedupes
    PROVE  OutcomeStep
<1>1. \A i \in JobIds : jobs'[i] = IF i = id THEN j ELSE jobs[i]
  BY DEF TypeOK
<1> QED
  BY <1>1, CarriedOutcome

(* Report, release, retention: the keys of the finished jobs come free.    *)
LEMMA RetireOutcome ==
    ASSUME TypeOK, NEW js, NEW rs, NEW done \in SUBSET JobIds, NEW kept,
           Retire(js, rs, done, kept),
           \A id \in JobIds : js[id] = jobs[id] \/ Follows(jobs[id], js[id]),
           \A id \in done : Has(js, id) /\ Terminal(js[id]),
           \A id \in JobIds \ done :
               Has(js, id) /\ Terminal(js[id]) =>
                   Has(jobs, id) /\ Terminal(jobs[id])
    PROVE  OutcomeStep
<1>1. PICK victims : jobs' = Without(js, victims, None)
  BY DEF Retire
<1>2. \A id \in JobIds : jobs'[id] = None \/ jobs'[id] = js[id]
  BY <1>1 DEF Without
<1>3. \A id \in JobIds : RecordKept(id)
  BY <1>2 DEF RecordKept
<1>4. ASSUME NEW k \in DedupeMapKeys
      PROVE  \/ dedupes'[k] = dedupes[k]
             \/ /\ dedupes[k] # None /\ dedupes'[k] = None
                /\ dedupes[k].jobId \in done
                /\ dedupes[k].expiresAt = None \/ dedupes[k].expiresAt <= now
  BY DEF Retire, ReleaseDedupe
<1>5. ASSUME NEW k \in DedupeMapKeys
      PROVE  dedupes'[k] = dedupes[k] \/ Released(k)
  <2>1. CASE /\ dedupes[k] # None /\ dedupes'[k] = None
             /\ dedupes[k].jobId \in done
             /\ dedupes[k].expiresAt = None \/ dedupes[k].expiresAt <= now
    BY <1>2, <2>1 DEF Released
  <2> QED
    BY <1>4, <2>1
<1>6. ASSUME NEW id \in JobIds, BecomesDone(id)
      PROVE  KeyFreed(id)
  <2>1. id \in done /\ jobs'[id] = js[id]
    BY <1>2, <1>6 DEF BecomesDone, Has
  <2> SUFFICES ASSUME NEW k \in DedupeMapKeys,
                      dedupes'[k] # None, dedupes'[k].jobId = id,
                      k = <<jobs'[id].name, jobs'[id].dedupeKey>>,
                      dedupes'[k].expiresAt = None
               PROVE  FALSE
    BY DEF KeyFreed
  <2>2. dedupes'[k] = dedupes[k]
    BY <1>4
  <2>3. dedupes' = ReleaseDedupe(js, done)
    BY DEF Retire
  <2>4. dedupes'[k] = None
    BY <2>1, <2>2, <2>3 DEF ReleaseDedupe
  <2> QED
    BY <2>4
<1> QED
  BY <1>3, <1>5, <1>6 DEF OutcomeStep

(* One job becomes terminal.                                               *)
LEMMA FinishOutcome ==
    ASSUME TypeOK, NEW id \in JobIds, NEW j, NEW rs, NEW kept,
           Follows(jobs[id], j), Terminal(j),
           Retire([jobs EXCEPT ![id] = j], rs, {id}, kept)
    PROVE  OutcomeStep
<1> DEFINE js == [jobs EXCEPT ![id] = j]
<1>1. \A i \in JobIds : js[i] = IF i = id THEN j ELSE jobs[i]
  BY DEF TypeOK
<1>2. j # None
  BY DEF Follows
<1> HIDE DEF js
<1>3. /\ \A i \in JobIds : js[i] = jobs[i] \/ Follows(jobs[i], js[i])
      /\ \A i \in {id} : Has(js, i) /\ Terminal(js[i])
      /\ \A i \in JobIds \ {id} :
            Has(js, i) /\ Terminal(js[i]) => Has(jobs, i) /\ Terminal(jobs[i])
  BY <1>1, <1>2 DEF Has
<1>4. Retire(js, rs, {id}, kept)
  BY DEF js
<1> QED
  BY <1>3, <1>4, RetireOutcome

(* markCancelled                                                           *)
LEMMA MarkCancelledOutcome ==
    ASSUME TypeOK, RecordsOK, NEW id \in JobIds, NEW j \in MemJob,
           Has(jobs, id), ~Terminal(jobs[id]),
           SameOutcome(jobs[id], j), Grows(jobs[id].attempts, j.attempts),
           MarkCancelled(id, j)
    PROVE  OutcomeStep
<1> DEFINE f == IF j.state = "waiting-children"
                THEN SettleFlow(j.flow, flowChildren[id]) ELSE j.flow
           c == [j EXCEPT !.flow = f]
<1>1. jobs[id] \in MemJob /\ RecordOK(jobs[id]) /\ now \in Nat
  BY HasType DEF TypeOK, JobMap, RecordsOK
<1>2. PendingOK(jobs[id])
  BY <1>1, PendingRecord
<1>3. PICK rs : Retire([jobs EXCEPT ![id] = Finish(c, "cancelled")], rs,
                       {id}, {id})
  BY DEF MarkCancelled
<1>4. f \in Opt(FlowState)
  BY SettleFlowType DEF MemJob
<1> HIDE DEF f
<1>5. c \in MemJob /\ SameOutcome(j, c) /\ c.attempts = j.attempts
  BY <1>4, FieldTypes DEF MemJob, SameOutcome
<1> HIDE DEF c
<1>6. Follows(jobs[id], Finish(c, "cancelled"))
          /\ Terminal(Finish(c, "cancelled"))
  BY <1>1, <1>2, <1>5, FinishFollows DEF SameOutcome, PendingOK, TerminalStates
<1> QED
  BY <1>3, <1>6, FinishOutcome

-----------------------------------------------------------------------------
(* The effect of each operation                                            *)

(* A request that moves a window opens one: its key is not pending-mode.   *)
LEMMA MovedWindow ==
    ASSUME TypeOK, NEW r \in Requests, EntryOf(r) # None,
           r.dedupe.ttlMs # None,
           dedupes' = [dedupes EXCEPT ![KeyOf(r)].expiresAt = Expiry(r)]
    PROVE  \A k \in DedupeMapKeys :
               dedupes'[k] = dedupes[k] \/ Rewindowed(k)
<1>1. r \in EnqueueRequest
  BY ConstantsAssumption
<1>2. r.dedupe \in DedupePolicy /\ r.dedupe # None
          /\ EntryOf(r) = dedupes[KeyOf(r)]
  BY <1>1 DEF EntryOf, EnqueueRequest, Opt
<1>3. KeyOf(r) \in DedupeMapKeys /\ KeyOf(r)[2] = r.dedupe.key
  BY <1>1, <1>2 DEF KeyOf, DedupeMapKeys, EnqueueRequest, DedupePolicy
<1>4. dedupes[KeyOf(r)] \in DedupeEntry
  BY <1>2, <1>3 DEF TypeOK, Opt
<1>5. Expiry(r) \in Nat
  BY <1>2 DEF Expiry, DedupePolicy, Opt, TypeOK
<1>6. KeyOf(r)[2] \notin PendingKeys
  BY <1>2, <1>3 DEF PendingKeys
<1>7. \A k \in DedupeMapKeys \ {KeyOf(r)} : dedupes'[k] = dedupes[k]
  BY DEF TypeOK
<1> DEFINE e == [dedupes[KeyOf(r)] EXCEPT !.expiresAt = Expiry(r)]
<1>8. dedupes'[KeyOf(r)] = e
  BY <1>3 DEF TypeOK
<1>9. e \in DedupeEntry /\ e.jobId = dedupes[KeyOf(r)].jobId
          /\ e.expiresAt = Expiry(r)
  BY <1>4, <1>5 DEF DedupeEntry, Opt
<1> HIDE DEF e
<1>10. Rewindowed(KeyOf(r))
  BY <1>2, <1>5, <1>6, <1>8, <1>9, NoneAssumption DEF Rewindowed
<1> QED
  BY <1>7, <1>10

(* A replace rewrites a delayed job and may open a window on its key.      *)
LEMMA EnqueueReplaceOutcome ==
    ASSUME TypeOK, RecordsOK, NEW r \in Requests, EnqueueReplace(r)
    PROVE  OutcomeStep
<1> DEFINE id == EntryOf(r).jobId
           j == [jobs[id] EXCEPT
                     !.payload = r.payload, !.priority = r.priority,
                     !.attemptsMax = r.attemptsMax, !.keep = r.keep,
                     !.runAt = now + r.delayMs]
<1>1. /\ jobs' = [jobs EXCEPT ![id] = j]
      /\ Has(jobs, id) /\ jobs[id].state = "delayed"
      /\ EntryOf(r) # None
  BY DEF EnqueueReplace, TypeOK, Replaces
<1>2. id \in JobIds
  <2>1. r \in EnqueueRequest
    BY ConstantsAssumption
  <2>2. EntryOf(r) = dedupes[KeyOf(r)] /\ KeyOf(r) \in DedupeMapKeys
    BY <1>1, <2>1 DEF EntryOf, KeyOf, DedupeMapKeys, EnqueueRequest,
                      DedupePolicy, Opt
  <2> QED
    BY <1>1, <2>2 DEF TypeOK, Opt, DedupeEntry
<1>3. jobs[id] \in MemJob
  BY <1>1, <1>2, HasType DEF TypeOK, JobMap
<1> HIDE DEF id
<1>4. /\ j \in MemJob /\ SameOutcome(jobs[id], j)
      /\ j.state = "delayed" /\ j.attempts = jobs[id].attempts
  <2>1. /\ r.payload \in Payloads /\ r.priority \in Int
        /\ r.attemptsMax \in Nat /\ r.keep \in Opt(KeepPolicy)
        /\ now + r.delayMs \in Nat
    BY ConstantsAssumption DEF EnqueueRequest, TypeOK
  <2> QED
    BY <1>1, <1>3, <2>1 DEF MemJob, SameOutcome
<1> HIDE DEF j
<1>5. ~Terminal(j) /\ ~Terminal(jobs[id])
  BY <1>1, <1>4 DEF Terminal, TerminalStates
<1>6. Follows(jobs[id], j)
  <2>1. Grows(jobs[id].attempts, j.attempts)
    BY <1>3, <1>4, GrowsReflexive DEF MemJob, Ledger
  <2> QED
    BY <1>1, <1>2, <1>3, <1>4, <1>5, <2>1, StaysPending DEF RecordsOK
<1>7. \A i \in JobIds : jobs'[i] = IF i = id THEN j ELSE jobs[i]
  BY <1>1 DEF TypeOK
<1>8. \A i \in JobIds : RecordKept(i) /\ ~BecomesDone(i)
  BY <1>5, <1>6, <1>7 DEF RecordKept, BecomesDone, Has
<1>9. \A k \in DedupeMapKeys : dedupes'[k] = dedupes[k] \/ Rewindowed(k)
  BY <1>1, MovedWindow DEF EnqueueReplace
<1> QED
  BY <1>8, <1>9 DEF OutcomeStep

(* An extended window moves its expiry only.                               *)
LEMMA EnqueueExtendOutcome ==
    ASSUME TypeOK, NEW r \in Requests, EnqueueExtend(r)
    PROVE  OutcomeStep
<1>1. jobs' = jobs
  BY DEF EnqueueExtend
<1>2. \A i \in JobIds : RecordKept(i) /\ ~BecomesDone(i)
  BY <1>1 DEF RecordKept, BecomesDone
<1>3. \A k \in DedupeMapKeys : dedupes'[k] = dedupes[k] \/ Rewindowed(k)
  BY MovedWindow DEF EnqueueExtend, WindowLive
<1> QED
  BY <1>2, <1>3 DEF OutcomeStep

(* promoteDue makes delayed jobs waiting.                                  *)
LEMMA PromoteDueOutcome ==
    ASSUME TypeOK, RecordsOK, NEW id \in JobIds
    PROVE  LET j == PromoteDue(jobs)[id]
           IN  \/ j = jobs[id]
               \/ /\ Follows(jobs[id], j) /\ ~Terminal(j)
                  /\ jobs[id] \in MemJob /\ ~Terminal(jobs[id]) /\ j \in MemJob
                  /\ SameOutcome(jobs[id], j) /\ j.attempts = jobs[id].attempts
<1> DEFINE j == [jobs[id] EXCEPT !.state = "waiting"]
<1>1. CASE Has(jobs, id) /\ jobs[id].state = "delayed" /\ jobs[id].runAt <= now
  <2>1. jobs[id] \in MemJob
    BY <1>1, HasType DEF TypeOK, JobMap
  <2>2. /\ j \in MemJob /\ SameOutcome(jobs[id], j)
        /\ j.attempts = jobs[id].attempts /\ j.state = "waiting"
    <3>1. j \in MemJob
      BY <2>1, FieldTypes DEF JobStates
    <3> QED
      BY <2>1, <3>1 DEF MemJob, SameOutcome
  <2>3. PromoteDue(jobs)[id] = j
    BY <1>1 DEF PromoteDue
  <2> HIDE DEF j
  <2>4. ~Terminal(jobs[id]) /\ ~Terminal(j)
    BY <1>1, <2>2 DEF Terminal, TerminalStates
  <2>5. Grows(jobs[id].attempts, j.attempts)
    BY <2>1, <2>2, GrowsReflexive DEF MemJob, Ledger
  <2>6. Follows(jobs[id], j)
    BY <1>1, <2>1, <2>2, <2>4, <2>5, StaysPending DEF RecordsOK
  <2> QED
    BY <2>1, <2>2, <2>3, <2>4, <2>6
<1>2. CASE ~(Has(jobs, id) /\ jobs[id].state = "delayed"
                 /\ jobs[id].runAt <= now)
  BY <1>2 DEF PromoteDue
<1> QED
  BY <1>1, <1>2

(* claim                                                                   *)
LEMMA ClaimOutcome ==
    ASSUME TypeOK, RecordsOK, NEW queue, NEW names,
           NEW lockMs \in LockDurations, Claim(queue, names, lockMs)
    PROVE  OutcomeStep
<1> DEFINE js == PromoteDue(jobs)
           token == lastToken + 1
<1>1. js \in JobMap
  BY PromoteDueType DEF TypeOK, JobMap
<1>2. PICK best \in Claimable(js, queue, names) :
          jobs' = [js EXCEPT ![best] = Claimed(js[best], token, lockMs)]
  BY DEF Claim
<1>3. \A id \in JobIds :
          \/ js[id] = jobs[id]
          \/ /\ Follows(jobs[id], js[id]) /\ ~Terminal(js[id])
             /\ jobs[id] \in MemJob /\ ~Terminal(jobs[id]) /\ js[id] \in MemJob
             /\ SameOutcome(jobs[id], js[id])
             /\ js[id].attempts = jobs[id].attempts
  BY PromoteDueOutcome
<1>4. token \in Nat /\ lockMs \in Nat
  BY ConstantsAssumption DEF TypeOK
<1>5. dedupes' = dedupes
  BY DEF Claim
<1> HIDE DEF js, token
<1> DEFINE j == Claimed(js[best], token, lockMs)
<1>6. /\ best \in JobIds /\ js[best] \in MemJob
      /\ js[best].state = "waiting"
  <2>1. best \in JobIds /\ Has(js, best) /\ js[best].state = "waiting"
    BY <1>2 DEF Claimable
  <2> QED
    BY <1>1, <2>1, HasType
<1>7. /\ j \in MemJob /\ SameOutcome(js[best], j)
      /\ j.attempts = js[best].attempts /\ j.state = "active"
  <2>1. j \in MemJob
    BY <1>4, <1>6, ClaimedType DEF TypeOK
  <2> QED
    BY <1>6, <2>1 DEF Claimed, MemJob, SameOutcome
<1>8. \A id \in JobIds : jobs'[id] = IF id = best THEN j ELSE js[id]
  BY <1>1, <1>2 DEF JobMap
<1> HIDE DEF j
<1>9. ~Terminal(j) /\ ~Terminal(js[best])
  BY <1>6, <1>7 DEF Terminal, TerminalStates
<1>10. jobs[best] \in MemJob /\ ~Terminal(jobs[best])
           /\ SameOutcome(jobs[best], j) /\ j.attempts = jobs[best].attempts
  BY <1>3, <1>6, <1>7, <1>9 DEF SameOutcome
<1>11. Follows(jobs[best], j)
  <2>1. Grows(jobs[best].attempts, j.attempts)
    BY <1>10, GrowsReflexive DEF MemJob, Ledger
  <2>2. RecordOK(jobs[best])
    BY <1>6, <1>10, NoneAssumption DEF RecordsOK, Has
  <2> QED
    BY <1>7, <1>9, <1>10, <2>1, <2>2, StaysPending
<1> QED
  BY <1>3, <1>5, <1>8, <1>9, <1>11, CarriedOutcome

(* An empty claim only promotes.                                           *)
LEMMA ClaimEmptyOutcome ==
    ASSUME TypeOK, RecordsOK, NEW queue, NEW names, ClaimEmpty(queue, names)
    PROVE  OutcomeStep
<1>1. jobs' = PromoteDue(jobs) /\ dedupes' = dedupes
  BY DEF ClaimEmpty
<1> QED
  BY <1>1, PromoteDueOutcome, CarriedOutcome

(* A held job has no outcome yet.                                          *)
LEMMA HeldOutcome ==
    ASSUME TypeOK, RecordsOK, NEW id \in JobIds, NEW token, Held(id, token)
    PROVE  /\ jobs[id] \in MemJob /\ Has(jobs, id) /\ jobs[id].state = "active"
           /\ ~Terminal(jobs[id]) /\ RecordOK(jobs[id]) /\ PendingOK(jobs[id])
           /\ jobs[id].attempts \in Ledger
           /\ Grows(jobs[id].attempts, jobs[id].attempts)
           /\ SameOutcome(jobs[id], jobs[id])
<1>1. jobs[id] \in MemJob /\ Has(jobs, id) /\ jobs[id].state = "active"
  BY HasType DEF Held, TypeOK, JobMap
<1>2. ~Terminal(jobs[id]) /\ RecordOK(jobs[id])
  BY <1>1 DEF Terminal, TerminalStates, RecordsOK
<1>3. jobs[id].attempts \in Ledger
  BY <1>1 DEF MemJob, Ledger
<1> QED
  BY <1>1, <1>2, <1>3, PendingRecord, GrowsReflexive DEF SameOutcome

(* A pending job is written back pending.                                  *)
LEMMA PutPending ==
    ASSUME TypeOK, RecordsOK, NEW id \in JobIds, NEW j \in MemJob,
           Has(jobs, id), ~Terminal(jobs[id]), ~Terminal(j),
           SameOutcome(jobs[id], j), Grows(jobs[id].attempts, j.attempts),
           jobs' = [jobs EXCEPT ![id] = j], dedupes' = dedupes
    PROVE  OutcomeStep
<1>1. jobs[id] \in MemJob /\ RecordOK(jobs[id])
  BY HasType DEF TypeOK, JobMap, RecordsOK
<1>2. Follows(jobs[id], j)
  BY <1>1, StaysPending
<1> QED
  BY <1>2, PutOutcome

(* extendLocks                                                             *)
LEMMA ExtendLocksOutcome ==
    ASSUME TypeOK, RecordsOK, NEW id \in JobIds, NEW token,
           NEW lockMs \in LockDurations, ExtendLocks(id, token, lockMs)
    PROVE  OutcomeStep
<1> DEFINE t == now + lockMs
           i == jobs[id]
           j == [i EXCEPT !.lockExpiresAt = t]
<1>1. /\ i \in MemJob /\ Has(jobs, id) /\ i.state = "active"
      /\ ~Terminal(i) /\ Grows(i.attempts, i.attempts)
  BY HeldOutcome DEF ExtendLocks
<1>2. t \in Opt(Nat)
  BY ConstantsAssumption DEF TypeOK, Opt
<1>3. jobs' = [jobs EXCEPT ![id] = j] /\ dedupes' = dedupes
  BY DEF ExtendLocks
<1> HIDE DEF t, i
<1>4. j \in MemJob
  BY <1>1, <1>2, FieldTypes
<1>5. SameOutcome(i, j) /\ j.attempts = i.attempts /\ j.state = i.state
  BY <1>1 DEF MemJob, SameOutcome
<1> HIDE DEF j
<1>6. ~Terminal(j)
  BY <1>1, <1>5 DEF Terminal
<1> QED
  BY <1>1, <1>3, <1>4, <1>5, <1>6, PutPending DEF i

(* release                                                                 *)
LEMMA ReleaseOutcome ==
    ASSUME TypeOK, RecordsOK, NEW id \in JobIds, NEW token, Release(id, token)
    PROVE  OutcomeStep
<1>1. /\ jobs[id] \in MemJob /\ Has(jobs, id) /\ ~Terminal(jobs[id])
      /\ Grows(jobs[id].attempts, jobs[id].attempts)
      /\ SameOutcome(jobs[id], jobs[id])
  BY HeldOutcome DEF Release
<1>2. CASE jobs[id].cancelRequested
  BY <1>1, <1>2, MarkCancelledOutcome DEF Release
<1>3. CASE ~jobs[id].cancelRequested
  <2> DEFINE c == ClearLock(jobs[id])
             j == [c EXCEPT !.state = "waiting"]
  <2>1. c \in MemJob /\ SameOutcome(jobs[id], c)
            /\ c.attempts = jobs[id].attempts
    BY <1>1, ClearLockOutcome
  <2>2. jobs' = [jobs EXCEPT ![id] = j] /\ dedupes' = dedupes
    BY <1>3 DEF Release
  <2> HIDE DEF c
  <2>3. j \in MemJob /\ SameOutcome(c, j) /\ j.attempts = c.attempts
            /\ j.state = "waiting"
    <3>1. j \in MemJob
      BY <2>1, FieldTypes DEF JobStates
    <3> QED
      BY <2>1, <3>1 DEF MemJob, SameOutcome
  <2> HIDE DEF j
  <2>4. ~Terminal(j) /\ SameOutcome(jobs[id], j)
    BY <2>1, <2>3 DEF Terminal, TerminalStates, SameOutcome
  <2> QED
    BY <1>1, <2>1, <2>2, <2>3, <2>4, PutPending
<1> QED
  BY <1>2, <1>3

(* recoverStalled                                                          *)
LEMMA RecoverStalledOutcome ==
    ASSUME TypeOK, RecordsOK, RecoverStalled
    PROVE  OutcomeStep
<1> DEFINE js == [id \in JobIds |-> IF id \in Stalled
                                    THEN RecoveredJob(jobs[id]) ELSE jobs[id]]
           done == {id \in Stalled : Terminal(js[id])}
<1>1. PICK kept : Retire(js, flowChildren, done, kept)
  BY DEF RecoverStalled
<1>2. ASSUME NEW id \in Stalled
      PROVE  Follows(jobs[id], js[id])
  <2>1. /\ id \in JobIds /\ jobs[id] \in MemJob /\ jobs[id].state = "active"
        /\ RecordOK(jobs[id])
    BY HasType DEF Stalled, TypeOK, JobMap, RecordsOK
  <2> QED
    BY <2>1, RecoveredFollows DEF TypeOK
<1>3. \A id \in JobIds : js[id] = jobs[id] \/ Follows(jobs[id], js[id])
  BY <1>2
<1>4. \A id \in done : Has(js, id) /\ Terminal(js[id])
  BY <1>2 DEF Follows, Has
<1>5. \A id \in JobIds \ done : Has(js, id) /\ Terminal(js[id]) =>
          Has(jobs, id) /\ Terminal(jobs[id])
  BY DEF Has
<1>6. done \subseteq JobIds
  BY DEF Stalled
<1> HIDE DEF js, done
<1> QED
  BY <1>1, <1>3, <1>4, <1>5, <1>6, RetireOutcome

(* The acknowledged record carries the outcome fields of the job.          *)
LEMMA AckedOutcome ==
    ASSUME TypeOK, NEW id \in JobIds, Has(jobs, id)
    PROVE  /\ Acked(id) \in MemJob /\ SameOutcome(jobs[id], Acked(id))
           /\ Acked(id).attempts = jobs[id].attempts
           /\ Acked(id).state = jobs[id].state
           /\ Grows(jobs[id].attempts, Acked(id).attempts)
<1> DEFINE c == ClearLock(jobs[id])
<1>1. jobs[id] \in MemJob
  BY HasType DEF TypeOK, JobMap
<1>2. /\ c \in MemJob /\ SameOutcome(jobs[id], c)
      /\ c.attempts = jobs[id].attempts /\ c.state = jobs[id].state
  BY <1>1, ClearLockOutcome
<1>3. Acked(id) = [c EXCEPT !.attemptsMade = @ + 1]
  BY DEF Acked
<1>4. Acked(id) \in MemJob
  BY AckedType
<1> HIDE DEF c
<1>5. /\ SameOutcome(jobs[id], Acked(id))
      /\ Acked(id).attempts = jobs[id].attempts
      /\ Acked(id).state = jobs[id].state
  BY <1>2, <1>3 DEF MemJob, SameOutcome
<1>6. Grows(jobs[id].attempts, jobs[id].attempts)
  BY <1>1, GrowsReflexive DEF MemJob, Ledger
<1> QED
  BY <1>4, <1>5, <1>6

(* ack Complete, Fail, Cancelled                                           *)
LEMMA AckTerminalOutcome ==
    ASSUME TypeOK, RecordsOK, NEW id \in JobIds, NEW token,
           NEW state \in TerminalStates, NEW exit \in BOOLEAN,
           AckTerminal(id, token, state, exit)
    PROVE  OutcomeStep
<1> DEFINE e == IF state = "cancelled" THEN Acked(id).exit ELSE exit
           j == [Acked(id) EXCEPT !.exit = e]
<1>1. /\ jobs[id] \in MemJob /\ Has(jobs, id) /\ ~Terminal(jobs[id])
      /\ RecordOK(jobs[id]) /\ PendingOK(jobs[id])
  BY HeldOutcome DEF AckTerminal
<1>2. /\ Acked(id) \in MemJob /\ SameOutcome(jobs[id], Acked(id))
      /\ Grows(jobs[id].attempts, Acked(id).attempts)
  BY <1>1, AckedOutcome
<1>3. /\ e \in BOOLEAN
      /\ e => state \in {"completed", "failed"}
  <2>1. ~Acked(id).exit /\ Acked(id).exit \in BOOLEAN
    BY <1>1, <1>2 DEF PendingOK, SameOutcome, MemJob
  <2> QED
    BY <2>1 DEF TerminalStates
<1>4. Retire([jobs EXCEPT ![id] = Finish(j, state)], flowChildren, {id}, {id})
  BY DEF AckTerminal
<1> HIDE DEF e
<1>5. /\ j \in MemJob /\ j.exit = e /\ j.attempts = Acked(id).attempts
      /\ j.failedReason = Acked(id).failedReason
      /\ j.stalledCount = Acked(id).stalledCount
      /\ j.name = Acked(id).name /\ j.dedupeKey = Acked(id).dedupeKey
  BY <1>2, <1>3, FieldTypes DEF MemJob
<1> HIDE DEF j
<1>6. Follows(jobs[id], Finish(j, state)) /\ Terminal(Finish(j, state))
  <2>1. ~j.failedReason
    BY <1>1, <1>2, <1>5 DEF PendingOK, SameOutcome
  <2>2. /\ j.name = jobs[id].name /\ j.dedupeKey = jobs[id].dedupeKey
        /\ j.stalledCount = jobs[id].stalledCount
        /\ Grows(jobs[id].attempts, j.attempts)
    BY <1>2, <1>5 DEF SameOutcome
  <2> QED
    BY <1>1, <1>3, <1>5, <2>1, <2>2, FinishFollows DEF TypeOK
<1> QED
  BY <1>4, <1>6, FinishOutcome

(* ack Retry                                                               *)
LEMMA AckRetryOutcome ==
    ASSUME TypeOK, RecordsOK, NEW id \in JobIds, NEW token,
           NEW delayMs \in RetryDelays, AckRetry(id, token, delayMs)
    PROVE  OutcomeStep
<1>1. jobs[id] \in MemJob /\ Has(jobs, id) /\ ~Terminal(jobs[id])
  BY HeldOutcome DEF AckRetry
<1>2. /\ Acked(id) \in MemJob /\ SameOutcome(jobs[id], Acked(id))
      /\ Acked(id).attempts = jobs[id].attempts
      /\ Grows(jobs[id].attempts, Acked(id).attempts)
  BY <1>1, AckedOutcome
<1>3. CASE jobs[id].cancelRequested
  BY <1>1, <1>2, <1>3, MarkCancelledOutcome DEF AckRetry
<1>4. CASE ~jobs[id].cancelRequested
  <2> DEFINE c == RecordAttempt(Acked(id), "retried")
             s == IF delayMs > 0 THEN "delayed" ELSE "waiting"
             j == [c EXCEPT !.runAt = now + delayMs, !.state = s,
                            !.seq = seq + 1]
  <2>1. /\ c \in MemJob /\ SameOutcome(Acked(id), c)
        /\ Grows(Acked(id).attempts, c.attempts)
    BY <1>2, RecordAttemptOutcome DEF AttemptOutcomes
  <2>2. jobs' = [jobs EXCEPT ![id] = j] /\ dedupes' = dedupes
    BY <1>4 DEF AckRetry
  <2>3. s \in JobStates /\ s \notin TerminalStates
    BY DEF JobStates, TerminalStates
  <2>4. now + delayMs \in Nat /\ seq + 1 \in Nat
    BY ConstantsAssumption DEF TypeOK
  <2> HIDE DEF c, s
  <2>5. /\ j \in MemJob /\ SameOutcome(c, j) /\ j.state = s
        /\ j.attempts = c.attempts
    BY <2>1, <2>3, <2>4 DEF MemJob, SameOutcome
  <2> HIDE DEF j
  <2>6. SameOutcome(jobs[id], j) /\ ~Terminal(j)
    BY <1>2, <2>1, <2>3, <2>5 DEF SameOutcome, Terminal
  <2> QED
    BY <1>1, <1>2, <2>1, <2>2, <2>5, <2>6, PutPending
<1> QED
  BY <1>3, <1>4

(* ack FanOut                                                              *)
LEMMA AckFanOutOutcome ==
    ASSUME TypeOK, RecordsOK, NEW id \in JobIds, NEW token,
           NEW children \in SUBSET ChildKeys, NEW failFast \in BOOLEAN,
           AckFanOut(id, token, children, failFast)
    PROVE  OutcomeStep
<1> DEFINE first == FirstFanOut(id)
           flow == IF first THEN Manifest(children, failFast)
                   ELSE jobs[id].flow
           row == IF first THEN PendingRows(children) ELSE flowChildren[id]
           c == ClearLock(jobs[id])
           b == [c EXCEPT !.flow = flow]
           j == RecordAttempt(b, "fanned-out")
           s == [j EXCEPT !.flow = SettleFlow(@, row)]
<1>1. /\ jobs[id] \in MemJob /\ Has(jobs, id) /\ ~Terminal(jobs[id])
      /\ RecordOK(jobs[id]) /\ PendingOK(jobs[id])
  BY HeldOutcome DEF AckFanOut
<1>2. flow \in Opt(FlowState)
  BY <1>1, ManifestType DEF TypeOK, MemJob, Opt
<1>3. c \in MemJob /\ SameOutcome(jobs[id], c)
          /\ c.attempts = jobs[id].attempts
  BY <1>1, ClearLockOutcome
<1> HIDE DEF flow, c
<1>4. b \in MemJob /\ SameOutcome(c, b) /\ b.attempts = c.attempts
  <2>1. b \in MemJob
    BY <1>2, <1>3, FieldTypes
  <2> QED
    BY <1>3, <2>1 DEF MemJob, SameOutcome
<1> HIDE DEF b
<1>5. j \in MemJob /\ SameOutcome(b, j) /\ Grows(b.attempts, j.attempts)
  BY <1>4, RecordAttemptOutcome DEF AttemptOutcomes
<1>6. SameOutcome(jobs[id], j) /\ Grows(jobs[id].attempts, j.attempts)
  BY <1>3, <1>4, <1>5 DEF SameOutcome
<1>7. CASE j.cancelRequested
  <2>1. PICK rs : Retire([jobs EXCEPT ![id] = Finish(s, "cancelled")], rs,
                         {id}, {id})
    BY <1>7 DEF AckFanOut, b, c, flow
  <2> HIDE DEF j, row
  <2>2. SettleFlow(j.flow, row) \in Opt(FlowState)
    BY <1>5, SettleFlowType DEF MemJob
  <2>3. s \in MemJob /\ SameOutcome(j, s) /\ s.attempts = j.attempts
    <3>1. s \in MemJob
      BY <1>5, <2>2, FieldTypes
    <3> QED
      BY <1>5, <3>1 DEF MemJob, SameOutcome
  <2> HIDE DEF s
  <2>4. Follows(jobs[id], Finish(s, "cancelled"))
            /\ Terminal(Finish(s, "cancelled"))
    <3>1. /\ s.name = jobs[id].name /\ s.dedupeKey = jobs[id].dedupeKey
          /\ s.stalledCount = jobs[id].stalledCount
          /\ ~s.exit /\ ~s.failedReason
          /\ Grows(jobs[id].attempts, s.attempts)
      BY <1>1, <1>6, <2>3 DEF SameOutcome, PendingOK
    <3>2. "cancelled" \in TerminalStates
      BY DEF TerminalStates
    <3> QED
      BY <1>1, <2>3, <3>1, <3>2, FinishFollows DEF TypeOK
  <2> QED
    BY <2>1, <2>4, FinishOutcome
<1>8. CASE ~j.cancelRequested
  <2> DEFINE parked == [j EXCEPT !.state = "waiting-children"]
             ready == [j EXCEPT !.state = "waiting", !.runAt = now,
                                !.seq = seq + 1]
  <2>1. /\ dedupes' = dedupes
        /\ \/ jobs' = [jobs EXCEPT ![id] = parked]
           \/ jobs' = [jobs EXCEPT ![id] = ready]
    BY <1>8 DEF AckFanOut, b, c, flow
  <2> HIDE DEF j
  <2>2. /\ parked \in MemJob /\ SameOutcome(j, parked)
        /\ parked.attempts = j.attempts /\ parked.state = "waiting-children"
        /\ ready \in MemJob /\ SameOutcome(j, ready)
        /\ ready.attempts = j.attempts /\ ready.state = "waiting"
    <3>1. now \in Nat /\ seq + 1 \in Nat
      BY DEF TypeOK
    <3> QED
      BY <1>5, <3>1 DEF MemJob, JobStates, SameOutcome
  <2> HIDE DEF parked, ready
  <2>3. /\ ~Terminal(parked) /\ ~Terminal(ready)
        /\ SameOutcome(jobs[id], parked) /\ SameOutcome(jobs[id], ready)
    BY <1>6, <2>2 DEF Terminal, TerminalStates, SameOutcome
  <2> QED
    BY <1>1, <1>6, <2>1, <2>2, <2>3, PutPending
<1> QED
  BY <1>7, <1>8

(* cancelJob                                                               *)
LEMMA CancelOutcome ==
    ASSUME TypeOK, RecordsOK, NEW id \in JobIds, Cancel(id)
    PROVE  OutcomeStep
<1> DEFINE i == jobs[id]
<1>1. /\ i \in MemJob /\ Has(jobs, id) /\ ~Terminal(i)
      /\ Grows(i.attempts, i.attempts) /\ SameOutcome(i, i)
  <2>1. i \in MemJob /\ Has(jobs, id)
    BY HasType DEF Cancel, TypeOK, JobMap
  <2>2. ~Terminal(i)
    BY DEF Cancel, Terminal, TerminalStates
  <2>3. i.attempts \in Ledger
    BY <2>1 DEF MemJob, Ledger
  <2> QED
    BY <2>1, <2>2, <2>3, GrowsReflexive DEF SameOutcome
<1>2. CASE MarkCancelled(id, i)
  BY <1>1, <1>2, MarkCancelledOutcome
<1>3. CASE /\ jobs' = [jobs EXCEPT ![id].cancelRequested = TRUE]
           /\ dedupes' = dedupes
  <2> DEFINE j == [i EXCEPT !.cancelRequested = TRUE]
  <2>1. jobs' = [jobs EXCEPT ![id] = j]
    BY <1>3
  <2> HIDE DEF i
  <2>2. j \in MemJob
    BY <1>1, FieldTypes
  <2>3. SameOutcome(i, j) /\ j.attempts = i.attempts /\ j.state = i.state
    BY <1>1 DEF MemJob, SameOutcome
  <2> HIDE DEF j
  <2>4. ~Terminal(j)
    BY <1>1, <2>3 DEF Terminal
  <2> QED
    BY <1>1, <1>3, <2>1, <2>2, <2>3, <2>4, PutPending DEF i
<1> QED
  BY <1>2, <1>3 DEF Cancel

(* retry                                                                   *)
LEMMA RetryOutcome ==
    ASSUME TypeOK, RecordsOK, NEW id \in JobIds, Retry(id)
    PROVE  OutcomeStep
<1>1. jobs[id] \in MemJob /\ jobs[id].state = "failed" /\ RecordOK(jobs[id])
  BY HasType DEF Retry, TypeOK, JobMap, RecordsOK
<1>2. Follows(jobs[id], Revive(jobs[id])) /\ ~Terminal(Revive(jobs[id]))
  BY <1>1, ReviveFollows DEF TypeOK
<1> QED
  BY <1>2, PutOutcome DEF Retry

(* promote                                                                 *)
LEMMA PromoteOutcome ==
    ASSUME TypeOK, RecordsOK, NEW id \in JobIds, Promote(id)
    PROVE  OutcomeStep
<1> DEFINE i == jobs[id]
           j == [i EXCEPT !.state = "waiting", !.runAt = now]
<1>1. i \in MemJob /\ Has(jobs, id) /\ ~Terminal(i)
  BY HasType DEF Promote, TypeOK, JobMap, Terminal, TerminalStates
<1>2. jobs' = [jobs EXCEPT ![id] = j] /\ dedupes' = dedupes
  BY DEF Promote, TypeOK
<1> HIDE DEF i
<1>3. /\ j \in MemJob /\ SameOutcome(i, j) /\ j.attempts = i.attempts
      /\ j.state = "waiting"
  BY <1>1 DEF MemJob, JobStates, TypeOK, SameOutcome
<1>4. Grows(i.attempts, i.attempts)
  BY <1>1, GrowsReflexive DEF MemJob, Ledger
<1> HIDE DEF j
<1>5. ~Terminal(j)
  BY <1>3 DEF Terminal, TerminalStates
<1> QED
  BY <1>1, <1>2, <1>3, <1>4, <1>5, PutPending DEF i

(* remove leaves the entry of the removed job where it is.                 *)
LEMMA RemoveOutcome ==
    ASSUME TypeOK, NEW id \in JobIds, Remove(id)
    PROVE  OutcomeStep
<1>1. jobs' = Without(jobs, {id}, None) /\ dedupes' = dedupes
  BY DEF Remove
<1>2. \A i \in JobIds : jobs'[i] = jobs[i] \/ jobs'[i] = None
  BY <1>1 DEF Without
<1> QED
  BY <1>1, <1>2, CarriedOutcome

(* sweepHistory drops the entries of jobs that are gone or over, and the   *)
(* windows that ran out.                                                   *)
LEMMA SweepHistoryOutcome ==
    ASSUME TypeOK, SweepHistory
    PROVE  OutcomeStep
<1>1. PICK victims :
          /\ jobs' = Without(jobs, victims, None)
          /\ \A k \in DedupeMapKeys :
                dedupes'[k] =
                    IF /\ dedupes[k] # None
                       /\ IF dedupes[k].expiresAt # None
                          THEN dedupes[k].expiresAt > now
                          ELSE /\ Has(jobs', dedupes[k].jobId)
                               /\ ~Terminal(jobs'[dedupes[k].jobId])
                    THEN dedupes[k] ELSE None
  BY DEF SweepHistory
<1>2. \A i \in JobIds : jobs'[i] = jobs[i] \/ jobs'[i] = None
  BY <1>1 DEF Without
<1>3. \A i \in JobIds : RecordKept(i) /\ ~BecomesDone(i)
  BY <1>2 DEF RecordKept, BecomesDone, Has
<1>4. ASSUME NEW k \in DedupeMapKeys
      PROVE  dedupes'[k] = dedupes[k] \/ Released(k)
  <2>1. CASE dedupes[k] = None
    BY <1>1, <2>1
  <2>2. CASE dedupes[k] # None
    <3>1. dedupes[k] \in DedupeEntry
      BY <2>2 DEF TypeOK, Opt
    <3>2. dedupes[k].expiresAt # None => dedupes[k].expiresAt \in Nat
      BY <3>1 DEF DedupeEntry, Opt
    <3> QED
      BY <1>1, <2>2, <3>2 DEF Released, Has, TypeOK
  <2> QED
    BY <2>1, <2>2
<1> QED
  BY <1>3, <1>4 DEF OutcomeStep

(* recordChildResults: fail-fast fails the parent with a store reason.     *)
LEMMA RecordChildResultsOutcome ==
    ASSUME TypeOK, RecordsOK, NEW flowId \in JobIds, NEW reports,
           \A k \in DOMAIN reports : reports[k] \in TerminalStates,
           RecordChildResults(flowId, reports)
    PROVE  OutcomeStep
<1> DEFINE i == jobs[flowId]
           row == flowChildren[flowId]
           row1 == ReportedRow(row, reports)
           f == Counted(i.flow, row, reports)
           j == [i EXCEPT !.flow = f]
           parked == j.state = "waiting-children"
           g == SettleFlow(j.flow, row1)
           a == [j EXCEPT !.flow = g]
           s == [a EXCEPT !.failedReason = TRUE]
           ready == [j EXCEPT !.state = "waiting", !.runAt = now,
                              !.seq = seq + 1]
<1>1. i \in MemJob /\ Has(jobs, flowId) /\ i.flow # None /\ RecordOK(i)
  BY HasType DEF RecordChildResults, TypeOK, JobMap, RecordsOK
<1>2. f \in FlowState
  <2>1. i.flow \in FlowState
    BY <1>1 DEF MemJob, Opt
  <2> QED
    BY <2>1, CountedType
<1>3. i.attempts \in Ledger /\ Grows(i.attempts, i.attempts)
  BY <1>1, GrowsReflexive DEF MemJob, Ledger
<1>4. \/ /\ parked
         /\ \E rs : Retire([jobs EXCEPT ![flowId] = Finish(s, "failed")], rs,
                           {flowId}, {flowId})
      \/ /\ parked /\ dedupes' = dedupes
         /\ jobs' = [jobs EXCEPT ![flowId] = ready]
      \/ jobs' = [jobs EXCEPT ![flowId] = j] /\ dedupes' = dedupes
  BY DEF RecordChildResults
<1> HIDE DEF f, row1, i
<1>5. /\ j \in MemJob /\ SameOutcome(i, j) /\ j.attempts = i.attempts
      /\ j.state = i.state
  <2>1. j \in MemJob
    BY <1>1, <1>2, FieldTypes DEF Opt
  <2> QED
    BY <1>1, <2>1 DEF MemJob, SameOutcome
<1> HIDE DEF j
<1>6. parked => ~Terminal(i) /\ PendingOK(i)
  BY <1>1, <1>5, PendingRecord DEF Terminal, TerminalStates
<1>7. CASE /\ parked
           /\ \E rs : Retire([jobs EXCEPT ![flowId] = Finish(s, "failed")],
                             rs, {flowId}, {flowId})
  <2>1. g \in Opt(FlowState)
    BY <1>5, SettleFlowType DEF MemJob
  <2> HIDE DEF g
  <2>2. a \in MemJob /\ SameOutcome(j, a) /\ a.attempts = j.attempts
    <3>1. a \in MemJob
      BY <1>5, <2>1, FieldTypes
    <3> QED
      BY <1>5, <3>1 DEF MemJob, SameOutcome
  <2> HIDE DEF a
  <2>3. /\ s \in MemJob /\ s.attempts = a.attempts /\ s.exit = a.exit
        /\ s.stalledCount = a.stalledCount /\ s.name = a.name
        /\ s.dedupeKey = a.dedupeKey
    <3>1. s \in MemJob
      BY <2>2, FieldTypes
    <3> QED
      BY <2>2, <3>1 DEF MemJob
  <2> HIDE DEF s
  <2>4. /\ s.name = i.name /\ s.dedupeKey = i.dedupeKey
        /\ s.stalledCount = i.stalledCount /\ ~s.exit
        /\ Grows(i.attempts, s.attempts)
    BY <1>3, <1>5, <1>6, <1>7, <2>2, <2>3 DEF SameOutcome, PendingOK
  <2>5. "failed" \in TerminalStates
    BY DEF TerminalStates
  <2>6. Follows(i, Finish(s, "failed")) /\ Terminal(Finish(s, "failed"))
    BY <1>1, <1>6, <1>7, <2>3, <2>4, <2>5, FinishFollows DEF TypeOK
  <2> QED
    BY <1>7, <2>6, FinishOutcome DEF i
<1>8. CASE /\ parked /\ dedupes' = dedupes
           /\ jobs' = [jobs EXCEPT ![flowId] = ready]
  <2>1. /\ ready \in MemJob /\ SameOutcome(j, ready)
        /\ ready.attempts = j.attempts /\ ready.state = "waiting"
    <3>1. now \in Nat /\ seq + 1 \in Nat
      BY DEF TypeOK
    <3> QED
      BY <1>5, <3>1 DEF MemJob, JobStates, SameOutcome
  <2> HIDE DEF ready
  <2>2. ~Terminal(ready) /\ SameOutcome(i, ready)
            /\ Grows(i.attempts, ready.attempts)
    BY <1>3, <1>5, <2>1 DEF Terminal, TerminalStates, SameOutcome
  <2> QED
    BY <1>1, <1>6, <1>8, <2>1, <2>2, PutPending DEF i
<1>9. CASE jobs' = [jobs EXCEPT ![flowId] = j] /\ dedupes' = dedupes
  <2>1. RecordOK(j) /\ (Terminal(j) <=> Terminal(i)) /\ (Revived(i) <=> Revived(j))
    BY <1>1, <1>5 DEF RecordOK, ResultOK, StallOK, LedgerOK, Terminal,
                      SameOutcome, LastOutcome, Revived, Runs
  <2>2. Follows(i, j)
    BY <1>1, <1>5, <2>1, NoneAssumption DEF Follows, SameOutcome, Has
  <2> QED
    BY <1>9, <2>1, <2>2, PutOutcome DEF i
<1> QED
  BY <1>4, <1>7, <1>8, <1>9

(* Every step is one of these, or an enqueue that inserts a job.           *)
LEMMA OutcomeEffects ==
    ASSUME TypeOK, RecordsOK, [Next]_vars
    PROVE  \/ OutcomeStep
           \/ \E r \in Requests, id \in JobIds : Enqueue(r, id)
<1>1. ASSUME UNCHANGED <<jobs, dedupes>> PROVE OutcomeStep
  BY <1>1, CarriedOutcome
<1>2. CASE UNCHANGED vars \/ Tick
  BY <1>1, <1>2 DEF vars, Tick
<1>3. CASE ProducerNext
  BY <1>3, EnqueueReplaceOutcome, EnqueueExtendOutcome DEF ProducerNext
<1>4. CASE WorkerNext
  BY <1>4, ClaimOutcome, ClaimEmptyOutcome, AckTerminalOutcome,
     AckRetryOutcome, AckFanOutOutcome, ReleaseOutcome, ExtendLocksOutcome,
     RecoverStalledOutcome DEF WorkerNext
<1>5. CASE FlowNext
  <2>1. ASSUME NEW flowId \in JobIds, NEW keys \in SUBSET ChildKeys,
               NEW reports \in [keys -> TerminalStates],
               RecordChildResults(flowId, reports)
        PROVE  OutcomeStep
    BY <2>1, RecordChildResultsOutcome
  <2>2. ASSUME \/ \E flowId \in JobIds, keys \in SUBSET ChildKeys :
                      MarkChildrenCascaded(flowId, keys)
               \/ \E entries \in SUBSET outbox : DeleteOutbox(entries)
               \/ \E page \in SUBSET [flowId : JobIds, childKey : ChildKeys] :
                     FlowSweepWork(page)
        PROVE  OutcomeStep
    BY <1>1, <2>2 DEF MarkChildrenCascaded, DeleteOutbox, FlowSweepWork
  <2> QED
    BY <1>5, <2>1, <2>2 DEF FlowNext
<1>6. CASE AdminNext
  <2>1. ASSUME NEW queue \in Queues, Pause(queue) \/ Resume(queue)
        PROVE  OutcomeStep
    BY <1>1, <2>1 DEF Pause, Resume
  <2>2. ASSUME NEW k \in DedupeMapKeys, CancelByDedupe(k)
        PROVE  OutcomeStep
    <3>1. dedupes[k].jobId \in JobIds
      BY <2>2 DEF CancelByDedupe, TypeOK, DedupeEntry, Opt
    <3> QED
      BY <2>2, <3>1, CancelOutcome DEF CancelByDedupe
  <2> QED
    BY <1>6, <2>1, <2>2, CancelOutcome, RetryOutcome, PromoteOutcome,
       RemoveOutcome, SweepHistoryOutcome DEF AdminNext
<1> QED
  BY <1>2, <1>3, <1>4, <1>5, <1>6 DEF Next

-----------------------------------------------------------------------------
(* The invariant                                                           *)

\* A pending-mode entry has no expiry.
KeysUnwindowed ==
    \A k \in DedupeMapKeys :
        k[2] \in PendingKeys /\ dedupes[k] # None =>
            dedupes[k].expiresAt = None

\* A job in flight that never failed is the one its pending-mode key is
\* registered to.
KeysPointBack ==
    \A id \in JobIds :
        /\ InFlight(id) /\ jobs[id].dedupeKey \in PendingKeys
        /\ ~Revived(jobs[id])
        => LET e == dedupes[<<jobs[id].name, jobs[id].dedupeKey>>]
           IN  e # None /\ e.jobId = id

OutcomeInv == RecordsOK /\ KeyFreedWhenDone /\ KeysUnwindowed /\ KeysPointBack

(* The key of a keyed record is a key of the registry.                     *)
LEMMA KeyOfRecord ==
    ASSUME TypeOK, NEW id \in JobIds, Has(jobs, id),
           jobs[id].dedupeKey \in DedupeKeys
    PROVE  <<jobs[id].name, jobs[id].dedupeKey>> \in DedupeMapKeys
<1>1. jobs[id] \in MemJob
  BY HasType DEF TypeOK, JobMap
<1> QED
  BY <1>1 DEF MemJob, DedupeMapKeys

(* The classified steps preserve the invariant.                            *)
LEMMA OutcomeStepPreserves ==
    ASSUME TypeOK, OutcomeInv, OutcomeStep
    PROVE  OutcomeInv'
<1>1. ASSUME NEW id \in JobIds, Has(jobs', id)
      PROVE  /\ Has(jobs, id) /\ RecordOK(jobs'[id])
             /\ jobs'[id].name = jobs[id].name
             /\ jobs'[id].dedupeKey = jobs[id].dedupeKey
             /\ ~Revived(jobs'[id]) => ~Revived(jobs[id])
             /\ Terminal(jobs[id]) /\ ~Revived(jobs'[id]) => Terminal(jobs'[id])
  <2>1. RecordKept(id)
    BY DEF OutcomeStep
  <2>2. CASE jobs'[id] = jobs[id]
    BY <1>1, <2>2 DEF OutcomeInv, RecordsOK, Has
  <2>3. CASE Follows(jobs[id], jobs'[id])
    BY <2>3 DEF Follows, Has
  <2> QED
    BY <1>1, <2>1, <2>2, <2>3 DEF RecordKept, Has
<1>2. ASSUME NEW k \in DedupeMapKeys, dedupes'[k] # None
      PROVE  dedupes'[k] = dedupes[k] \/ Rewindowed(k)
  BY <1>2 DEF OutcomeStep, Released
<1>3. RecordsOK'
  BY <1>1 DEF RecordsOK
<1>4. KeyFreedWhenDone'
  <2> SUFFICES ASSUME NEW k \in DedupeMapKeys,
                      dedupes'[k] # None, dedupes'[k].expiresAt = None,
                      Has(jobs', dedupes'[k].jobId),
                      k = <<jobs'[dedupes'[k].jobId].name,
                            jobs'[dedupes'[k].jobId].dedupeKey>>,
                      Terminal(jobs'[dedupes'[k].jobId])
               PROVE  FALSE
    BY DEF KeyFreedWhenDone
  <2> DEFINE id == dedupes'[k].jobId
  <2>1. dedupes'[k] = dedupes[k]
    BY <1>2 DEF Rewindowed
  <2>2. id \in JobIds
    BY <2>1 DEF TypeOK, Opt, DedupeEntry
  <2>3. ~BecomesDone(id)
    BY <2>2 DEF OutcomeStep, KeyFreed
  <2>4. Has(jobs, id) /\ Terminal(jobs[id])
    BY <2>3 DEF BecomesDone
  <2>5. k = <<jobs[id].name, jobs[id].dedupeKey>>
    BY <1>1, <2>2
  <2> QED
    BY <2>1, <2>4, <2>5 DEF OutcomeInv, KeyFreedWhenDone
<1>5. KeysUnwindowed'
  BY <1>2 DEF KeysUnwindowed, OutcomeInv, Rewindowed
<1>6. KeysPointBack'
  <2> SUFFICES ASSUME NEW id \in JobIds,
                      Has(jobs', id), ~Terminal(jobs'[id]),
                      jobs'[id].dedupeKey \in PendingKeys,
                      ~Revived(jobs'[id])
               PROVE  LET k == <<jobs'[id].name, jobs'[id].dedupeKey>>
                      IN  dedupes'[k] # None /\ dedupes'[k].jobId = id
    BY DEF KeysPointBack, InFlight
  <2> DEFINE k == <<jobs[id].name, jobs[id].dedupeKey>>
  <2>1. /\ Has(jobs, id) /\ ~Terminal(jobs[id]) /\ ~Revived(jobs[id])
        /\ jobs[id].dedupeKey \in PendingKeys
        /\ k = <<jobs'[id].name, jobs'[id].dedupeKey>>
    BY <1>1
  <2>2. k \in DedupeMapKeys /\ k[2] \in PendingKeys
    BY <2>1, KeyOfRecord DEF PendingKeys
  <2>3. dedupes[k] # None /\ dedupes[k].jobId = id
    BY <2>1 DEF OutcomeInv, KeysPointBack, InFlight
  <2>4. dedupes[k].expiresAt = None
    BY <2>2, <2>3 DEF OutcomeInv, KeysUnwindowed
  <2> HIDE DEF k
  <2>5. ~Released(k)
    BY <2>3, <2>4 DEF Released, Has
  <2>6. dedupes'[k] = dedupes[k]
    BY <2>2, <2>5 DEF OutcomeStep, Rewindowed
  <2> QED
    BY <2>1, <2>3, <2>6
<1> QED
  BY <1>3, <1>4, <1>5, <1>6 DEF OutcomeInv

(* A new job is right and pending.                                         *)
LEMMA NewJobOutcome ==
    ASSUME TypeOK, NEW r \in Requests
    PROVE  LET j == NewJob(r)
           IN  /\ j # None /\ RecordOK(j) /\ ~Terminal(j) /\ ~Revived(j)
               /\ j.name = r.name
               /\ j.dedupeKey =
                      IF r.dedupe = None THEN None ELSE r.dedupe.key
<1> DEFINE j == NewJob(r)
<1>1. j \in MemJob
  BY NewJobType, ConstantsAssumption DEF TypeOK
<1>2. /\ j.finishedAt = None /\ ~j.exit /\ ~j.failedReason
      /\ j.stalledCount = 0 /\ j.attempts = <<>>
      /\ j.state \in {"delayed", "waiting"} /\ j.name = r.name
      /\ j.dedupeKey = IF r.dedupe = None THEN None ELSE r.dedupe.key
  BY DEF NewJob
<1> HIDE DEF j
<1>3. ~Terminal(j)
  BY <1>2 DEF Terminal, TerminalStates
<1>4. StallsOf(j.attempts) = {} /\ Cardinality(StallsOf(j.attempts)) = 0
  BY <1>2, FS_EmptySet DEF StallsOf
<1>5. MaxStalledCount \in Nat
  BY ConstantsAssumption
<1>6. PendingOK(j)
  BY <1>2, <1>4, <1>5 DEF PendingOK
<1>7. ~Revived(j)
  <2>1. {n \in DOMAIN j.attempts : j.attempts[n] = "failed"} = {}
    BY <1>2
  <2>2. Cardinality({n \in DOMAIN j.attempts : j.attempts[n] = "stalled"}) = 0
    BY <1>4 DEF StallsOf
  <2> QED
    BY <1>5, <2>1, <2>2 DEF Revived, Runs
<1> QED
  BY <1>1, <1>2, <1>3, <1>6, <1>7, PendingRecord, NoneAssumption DEF j

(* An enqueue that inserts finds no job in flight that its pending-mode    *)
(* key is registered to.                                                   *)
LEMMA EnqueuePreserves ==
    ASSUME TypeOK, OutcomeInv, NEW r \in Requests, NEW id \in JobIds,
           Enqueue(r, id)
    PROVE  OutcomeInv'
<1> DEFINE n == NewJob(r)
           key == KeyOf(r)
           keyed == r.dedupe # None
<1>1. jobs[id] = None
  BY DEF Enqueue, IdTaken, Has
<1>2. \A i \in JobIds : jobs'[i] = IF i = id THEN n ELSE jobs[i]
  BY DEF Enqueue, TypeOK
<1>3. /\ n # None /\ RecordOK(n) /\ ~Terminal(n)
      /\ n.name = r.name
      /\ n.dedupeKey = IF r.dedupe = None THEN None ELSE r.dedupe.key
  BY NewJobOutcome
<1>4. r \in EnqueueRequest
  BY ConstantsAssumption
<1>5. keyed => /\ key \in DedupeMapKeys /\ r.dedupe \in DedupePolicy
               /\ key = <<r.name, r.dedupe.key>> /\ key[2] = r.dedupe.key
  BY <1>4 DEF KeyOf, DedupeMapKeys, EnqueueRequest, DedupePolicy, Opt
<1> DEFINE e == [jobId |-> id, expiresAt |-> Expiry(r)]
<1>6. \A k \in DedupeMapKeys :
          dedupes'[k] = IF keyed /\ k = key THEN e ELSE dedupes[k]
  BY DEF Enqueue, TypeOK
<1>7. keyed => e \in DedupeEntry /\ e # None
  <2> SUFFICES ASSUME keyed PROVE e \in DedupeEntry
    BY NoneAssumption
  <2>1. Expiry(r) \in Opt(Nat)
    BY <1>5 DEF Expiry, DedupePolicy, Opt, TypeOK
  <2> QED
    BY <2>1 DEF DedupeEntry
<1>8. e.jobId = id /\ e.expiresAt = Expiry(r)
  OBVIOUS
<1> HIDE DEF n, key, e
<1>9. RecordsOK'
  BY <1>2, <1>3 DEF RecordsOK, OutcomeInv, Has
<1>10. KeyFreedWhenDone'
  <2> SUFFICES ASSUME NEW k \in DedupeMapKeys,
                      dedupes'[k] # None, dedupes'[k].expiresAt = None,
                      Has(jobs', dedupes'[k].jobId),
                      k = <<jobs'[dedupes'[k].jobId].name,
                            jobs'[dedupes'[k].jobId].dedupeKey>>,
                      Terminal(jobs'[dedupes'[k].jobId])
               PROVE  FALSE
    BY DEF KeyFreedWhenDone
  <2>1. dedupes'[k].jobId # id
    BY <1>2, <1>3
  <2>2. dedupes'[k] = dedupes[k]
    BY <1>6, <1>8, <2>1
  <2>3. dedupes[k].jobId \in JobIds
    BY <2>2 DEF TypeOK, Opt, DedupeEntry
  <2>4. jobs'[dedupes[k].jobId] = jobs[dedupes[k].jobId]
    BY <1>2, <2>1, <2>2, <2>3
  <2> QED
    BY <2>2, <2>4 DEF OutcomeInv, KeyFreedWhenDone, Has
<1>11. KeysUnwindowed'
  <2> SUFFICES ASSUME NEW k \in DedupeMapKeys, k[2] \in PendingKeys,
                      dedupes'[k] # None
               PROVE  dedupes'[k].expiresAt = None
    BY DEF KeysUnwindowed
  <2>1. CASE keyed /\ k = key
    <3>1. r.dedupe.ttlMs = None
      BY <1>5, <2>1 DEF PendingKeys
    <3> QED
      BY <1>6, <1>8, <2>1, <3>1 DEF Expiry
  <2>2. CASE ~(keyed /\ k = key)
    BY <1>6, <2>2 DEF OutcomeInv, KeysUnwindowed
  <2> QED
    BY <2>1, <2>2
<1>12. KeysPointBack'
  <2> SUFFICES ASSUME NEW i \in JobIds,
                      Has(jobs', i), ~Terminal(jobs'[i]),
                      jobs'[i].dedupeKey \in PendingKeys,
                      ~Revived(jobs'[i])
               PROVE  LET k == <<jobs'[i].name, jobs'[i].dedupeKey>>
                      IN  dedupes'[k] # None /\ dedupes'[k].jobId = i
    BY DEF KeysPointBack, InFlight
  <2>1. CASE i = id
    <3>1. keyed
      BY <1>2, <1>3, <2>1, NoneAssumption DEF PendingKeys
    <3>2. <<jobs'[i].name, jobs'[i].dedupeKey>> = key
      BY <1>2, <1>3, <1>5, <2>1, <3>1
    <3>3. dedupes'[key] = e
      BY <1>5, <1>6, <3>1
    <3> QED
      BY <1>7, <1>8, <2>1, <3>1, <3>2, <3>3
  <2>2. CASE i # id
    <3> DEFINE k == <<jobs[i].name, jobs[i].dedupeKey>>
    <3>1. jobs'[i] = jobs[i]
      BY <1>2, <2>2
    <3>2. /\ k \in DedupeMapKeys /\ k[2] \in PendingKeys
      BY <3>1, KeyOfRecord DEF PendingKeys, Has
    <3>3. dedupes[k] # None /\ dedupes[k].jobId = i
              /\ dedupes[k].expiresAt = None
      <4>1. dedupes[k] # None /\ dedupes[k].jobId = i
        BY <3>1 DEF OutcomeInv, KeysPointBack, InFlight, Has
      <4> QED
        BY <3>2, <4>1 DEF OutcomeInv, KeysUnwindowed
    <3> HIDE DEF k
    <3>4. ~(keyed /\ k = key)
      <4> SUFFICES ASSUME keyed, k = key PROVE FALSE
        OBVIOUS
      <4>1. EntryOf(r) = dedupes[k]
        BY DEF EntryOf, key
      <4>2. KeyedJobPending(r)
        BY <3>1, <3>3, <4>1 DEF KeyedJobPending, Has
      <4> QED
        BY <4>2 DEF Enqueue
    <3>5. dedupes'[k] = dedupes[k]
      BY <1>6, <3>2, <3>4
    <3> QED
      BY <3>1, <3>3, <3>5 DEF k
  <2> QED
    BY <2>1, <2>2
<1> QED
  BY <1>9, <1>10, <1>11, <1>12 DEF OutcomeInv

(* No job, no outcome.                                                     *)
LEMMA OutcomeInit == Init => OutcomeInv
BY DEF Init, OutcomeInv, RecordsOK, KeyFreedWhenDone, KeysUnwindowed,
       KeysPointBack, InFlight, Has

(* OutcomeInv is inductive relative to TypeOK.                             *)
LEMMA OutcomeNext == TypeOK /\ OutcomeInv /\ [Next]_vars => OutcomeInv'
<1> SUFFICES ASSUME TypeOK, OutcomeInv, [Next]_vars PROVE OutcomeInv'
  OBVIOUS
<1>1. \/ OutcomeStep
      \/ \E r \in Requests, id \in JobIds : Enqueue(r, id)
  BY OutcomeEffects DEF OutcomeInv
<1> QED
  BY <1>1, OutcomeStepPreserves, EnqueuePreserves

(* The invariant holds in every reachable state.                           *)
THEOREM OutcomesInvariant == Spec => []OutcomeInv
<1>1. Init => TypeOK /\ OutcomeInv
  BY TypeInit, OutcomeInit
<1>2. TypeOK /\ OutcomeInv /\ [Next]_vars => TypeOK' /\ OutcomeInv'
  BY TypeStep, OutcomeNext
<1> QED
  BY <1>1, <1>2, PTL DEF Spec

-----------------------------------------------------------------------------
(* Theorems                                                                *)

(* Terminal state, finish time, result, reason and ledger of a job agree,  *)
(* whichever way it ended and however often it was revived.                *)
THEOREM ResultsAgree == Spec => []ResultInv
<1>1. OutcomeInv => ResultInv
  BY DEF OutcomeInv, RecordsOK, RecordOK, ResultOK, ResultInv
<1> QED
  BY <1>1, OutcomesInvariant, PTL

(* No job is handed out again after more than MaxStalledCount stalls,      *)
(* whatever that limit is; and until a job failed, its stall count is the  *)
(* number of stalls in its ledger.                                         *)
THEOREM StallsBounded == Spec => []StallBudget
<1>1. OutcomeInv => StallBudget
  BY DEF OutcomeInv, RecordsOK, RecordOK, StallOK, LedgerOK, StallBudget,
         Runs, StallsOf
<1> QED
  BY <1>1, OutcomesInvariant, PTL

(* A finished job holds no pending-mode key, so the key can be enqueued.   *)
THEOREM KeysFreed == Spec => []KeyFreedWhenDone
<1>1. OutcomeInv => KeyFreedWhenDone
  BY DEF OutcomeInv
<1> QED
  BY <1>1, OutcomesInvariant, PTL

(* Of two jobs in flight with one pending-mode key, at least one came back *)
(* through retry after a failure: enqueueing alone never makes two.        *)
THEOREM OneEnqueued == Spec => []OneEnqueuedPerKey
<1>1. OutcomeInv => OneEnqueuedPerKey
  BY DEF OutcomeInv, KeysPointBack, OneEnqueuedPerKey, SameKey
<1> QED
  BY <1>1, OutcomesInvariant, PTL

(* A step that finds a window live leaves it with its job.                 *)
LEMMA LiveWindowOnStep ==
    TypeOK /\ OutcomeInv /\ [Next]_vars => LiveWindowKeptStep
<1> SUFFICES ASSUME TypeOK, OutcomeInv, [Next]_vars,
                    NEW k \in DedupeMapKeys,
                    dedupes[k] # None, dedupes[k].expiresAt # None,
                    dedupes[k].expiresAt > now
             PROVE  /\ dedupes'[k] # None
                    /\ dedupes'[k].jobId = dedupes[k].jobId
                    /\ dedupes'[k].expiresAt # None
  BY DEF LiveWindowKeptStep
<1>1. now \in Nat /\ dedupes[k].expiresAt \in Nat
  BY DEF TypeOK, DedupeEntry, Opt
<1>2. CASE OutcomeStep
  <2>1. ~Released(k)
    BY <1>1 DEF Released
  <2>2. dedupes'[k] = dedupes[k] \/ Rewindowed(k)
    BY <1>2, <2>1 DEF OutcomeStep
  <2> QED
    BY <2>2 DEF Rewindowed
<1>3. ASSUME NEW r \in Requests, NEW id \in JobIds, Enqueue(r, id)
      PROVE  dedupes'[k] = dedupes[k]
  <2>1. ~(r.dedupe # None /\ k = KeyOf(r))
    <3> SUFFICES ASSUME r.dedupe # None, k = KeyOf(r) PROVE FALSE
      OBVIOUS
    <3>1. EntryOf(r) = dedupes[k]
      BY DEF EntryOf
    <3>2. WindowLive(r)
      BY <1>1, <3>1 DEF WindowLive
    <3> QED
      BY <1>3, <3>2 DEF Enqueue
  <2> QED
    BY <1>3, <2>1 DEF Enqueue, TypeOK
<1> QED
  BY <1>2, <1>3, OutcomeEffects DEF OutcomeInv

(* A throttle window keeps its key for the job it was opened by, whatever  *)
(* becomes of that job and whoever enqueues, sweeps or removes meanwhile.  *)
THEOREM WindowsKept == Spec => LiveWindowKept
<1>1. Spec => [](TypeOK /\ OutcomeInv)
  BY TypeCorrect, OutcomesInvariant, PTL
<1>2. TypeOK /\ OutcomeInv /\ [Next]_vars => [LiveWindowKeptStep]_vars
  BY LiveWindowOnStep
<1> QED
  BY <1>1, <1>2, PTL DEF Spec, LiveWindowKept

=============================================================================
