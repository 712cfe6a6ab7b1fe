------------------------ MODULE MemoryJobStoreFlows ------------------------
(***************************************************************************)
(* Flows in MemoryJobStore, proved for every value of the constants.       *)
(*                                                                         *)
(* First the parent's side: the counters are the statuses of the rows and  *)
(* decide whether the parent is parked (FlowInv), a settled row is final   *)
(* (RowsFinal), and a flow fans out once (FansOutOnce).  FlowInv speaks of *)
(* one record and its rows at a time, so each operation is classified once *)
(* by its effect on such a pair: both disappear, or a pair that agrees     *)
(* again takes their place, in which no settled row has changed and no     *)
(* counter of pending rows has grown.                                      *)
(*                                                                         *)
(* Then what an operation tells others and what its retention leaves:      *)
(* WakeOnReady, CascadesKept, ReportWithTransition, KeepCountHolds.        *)
(***************************************************************************)
EXTENDS MemoryJobStoreProofs, WellFoundedInduction

\* FlowInv for one record (or None) and its rows.
FlowOK(i, row) ==
    /\ i = None => row = NoRows
    /\ i # None =>
        /\ CountersMatch(i.flow, row)
        /\ i.state = "waiting-children" <=> i.flow # None /\ i.flow.pending > 0

\* What may happen to the dependency row c.
RowKept(c, d) ==
    c # None /\ c.status # "pending" =>
        d # None /\ d.status = c.status /\ (c.cascaded => d.cascaded)

RowsKept(row, row2) == \A k \in ChildKeys : RowKept(row[k], row2[k])

\* A manifest stays, and its pending rows only become fewer.
FlowKept(i, j) ==
    i # None /\ i.flow # None =>
        j.flow # None /\ j.flow.pending <= i.flow.pending

FlowEffect(i, row, j, row2) ==
    \/ j = None /\ row2 = NoRows
    \/ j # None /\ FlowOK(j, row2) /\ RowsKept(row, row2) /\ FlowKept(i, j)

FlowStep ==
    \A id \in JobIds :
        FlowEffect(jobs[id], flowChildren[id], jobs'[id], flowChildren'[id])

-----------------------------------------------------------------------------
(* Counting rows                                                           *)

(* Two disjoint sets of child keys count as their sum.                     *)
LEMMA DisjointCounts ==
    ASSUME NEW A \in SUBSET ChildKeys, NEW B \in SUBSET ChildKeys,
           A \cap B = {}
    PROVE  Cardinality(A \cup B) = Cardinality(A) + Cardinality(B)
<1>1. IsFiniteSet(A) /\ IsFiniteSet(B)
  BY ConstantsAssumption, FS_Subset
<1>2. Cardinality(A \cap B) = 0
  BY FS_EmptySet
<1>3. Cardinality(A) \in Nat /\ Cardinality(B) \in Nat
  BY <1>1, FS_CardinalityType
<1>4. Cardinality(A \cup B)
          = Cardinality(A) + Cardinality(B) - Cardinality(A \cap B)
  BY <1>1, FS_Union
<1> QED
  BY <1>2, <1>3, <1>4

(* Taking some of a set of child keys away.                                *)
LEMMA DifferenceCounts ==
    ASSUME NEW A \in SUBSET ChildKeys, NEW B \in SUBSET A
    PROVE  /\ Cardinality(A \ B) = Cardinality(A) - Cardinality(B)
           /\ Cardinality(B) <= Cardinality(A)
<1>1. A = (A \ B) \cup B /\ (A \ B) \cap B = {}
  OBVIOUS
<1>2. Cardinality(A) = Cardinality(A \ B) + Cardinality(B)
  BY <1>1, DisjointCounts
<1>3. IsFiniteSet(A) /\ IsFiniteSet(A \ B) /\ IsFiniteSet(B)
  BY ConstantsAssumption, FS_Subset
<1>4. /\ Cardinality(A) \in Nat /\ Cardinality(A \ B) \in Nat
      /\ Cardinality(B) \in Nat
  BY <1>3, FS_CardinalityType
<1> QED
  BY <1>2, <1>4

(* Rows that keep their statuses keep the counters right.                  *)
LEMMA SameStatuses ==
    ASSUME NEW row \in Row, NEW row2 \in Row, NEW flow,
           \A k \in ChildKeys :
               /\ row2[k] = None <=> row[k] = None
               /\ row[k] # None =>
                      /\ row2[k].status = row[k].status
                      /\ row[k].cascaded => row2[k].cascaded,
           CountersMatch(flow, row)
    PROVE  CountersMatch(flow, row2) /\ RowsKept(row, row2)
<1>1. \A status : WithStatus(row2, status) = WithStatus(row, status)
  BY DEF WithStatus
<1>2. row = NoRows => row2 = NoRows
  BY DEF NoRows, Row
<1>3. RowsKept(row, row2)
  BY DEF RowsKept, RowKept
<1> QED
  BY <1>1, <1>2, <1>3 DEF CountersMatch

(* What settleMarkRows does to the sets of keys.                           *)
LEMMA MarkedStatuses ==
    ASSUME NEW row \in Row
    PROVE  LET row2 == MarkPendingRowsCancelled(row)
           IN  /\ WithStatus(row2, "pending") = {}
               /\ WithStatus(row2, "completed") = WithStatus(row, "completed")
               /\ WithStatus(row2, "failed") = WithStatus(row, "failed")
               /\ WithStatus(row2, "cancelled") =
                      WithStatus(row, "cancelled")
                          \cup WithStatus(row, "pending")
               /\ RowsKept(row, row2)
<1> DEFINE row2 == MarkPendingRowsCancelled(row)
<1>1. row2 \in Row
  BY MarkType
<1>2. ASSUME NEW k \in ChildKeys
      PROVE  /\ row[k] = None => row2[k] = None
             /\ row[k] # None /\ row[k].status # "pending" => row2[k] = row[k]
             /\ row[k] # None /\ row[k].status = "pending" =>
                    row2[k] # None /\ row2[k].status = "cancelled"
  <2>1. CASE row[k] # None /\ row[k].status = "pending"
    <3>1. row2[k] = [row[k] EXCEPT !.status = "cancelled", !.cascaded = FALSE]
      BY <2>1 DEF MarkPendingRowsCancelled, WithStatus
    <3>2. row[k] \in MemFlowChild
      BY <2>1 DEF Row, Opt
    <3>3. row2[k] \in MemFlowChild /\ row2[k].status = "cancelled"
      BY <3>1, <3>2 DEF MemFlowChild, TerminalStates
    <3> QED
      BY <2>1, <3>3, NoneAssumption
  <2>2. CASE ~(row[k] # None /\ row[k].status = "pending")
    <3>1. row2[k] = row[k]
      BY <2>2 DEF MarkPendingRowsCancelled, WithStatus
    <3> QED
      BY <2>2, <3>1
  <2> QED
    BY <2>1, <2>2
<1> HIDE DEF row2
<1>3. ASSUME NEW s
      PROVE  WithStatus(row2, s) =
                 {k \in ChildKeys :
                     \/ k \in WithStatus(row, s) /\ s # "pending"
                     \/ k \in WithStatus(row, "pending") /\ s = "cancelled"}
  BY <1>2 DEF WithStatus
<1>4. WithStatus(row2, "pending") = {}
  BY <1>3
<1>5. WithStatus(row2, "completed") = WithStatus(row, "completed")
  BY <1>3 DEF WithStatus
<1>6. WithStatus(row2, "failed") = WithStatus(row, "failed")
  BY <1>3 DEF WithStatus
<1>7. WithStatus(row2, "cancelled") =
          WithStatus(row, "cancelled") \cup WithStatus(row, "pending")
  BY <1>3 DEF WithStatus
<1>8. RowsKept(row, row2)
  BY <1>2 DEF RowsKept, RowKept
<1> QED
  BY <1>4, <1>5, <1>6, <1>7, <1>8 DEF row2

(* settleMarkRows keeps counters and rows in agreement.                    *)
LEMMA SettledCounts ==
    ASSUME NEW row \in Row, NEW flow \in FlowState, CountersMatch(flow, row)
    PROVE  LET flow2 == SettleFlow(flow, row)
               row2 == MarkPendingRowsCancelled(row)
           IN  /\ flow2 # None /\ flow2.pending = 0
               /\ CountersMatch(flow2, row2) /\ RowsKept(row, row2)
<1> DEFINE flow2 == SettleFlow(flow, row)
           row2 == MarkPendingRowsCancelled(row)
           n == Cardinality(WithStatus(row, "pending"))
<1>1. flow # None
  BY NoneAssumption
<1>2. flow2 = [flow EXCEPT !.pending = 0, !.cancelled = @ + n]
  BY <1>1 DEF SettleFlow
<1>3. flow2.pending = 0 /\ flow2.completed = flow.completed
          /\ flow2.failed = flow.failed
          /\ flow2.cancelled = flow.cancelled + n
  BY <1>2 DEF FlowState
<1>4. flow2 # None
  <2>1. flow \in Opt(FlowState)
    BY DEF Opt
  <2>2. flow2 \in Opt(FlowState)
    BY <2>1, SettleFlowType
  <2>3. flow2 = [failFast |-> flow.failFast, pending |-> 0,
                 completed |-> flow.completed, failed |-> flow.failed,
                 cancelled |-> flow.cancelled + n]
    BY <1>2 DEF FlowState
  <2>4. n \in Nat
    BY WithStatusFinite
  <2>5. flow2 \in FlowState
    BY <2>3, <2>4 DEF FlowState
  <2> QED
    BY <2>5, NoneAssumption
<1>5. Cardinality(WithStatus(row, "cancelled") \cup WithStatus(row, "pending"))
          = Cardinality(WithStatus(row, "cancelled")) + n
  <2>1. WithStatus(row, "cancelled") \cap WithStatus(row, "pending") = {}
    BY DEF WithStatus
  <2> QED
    BY <2>1, DisjointCounts, WithStatusFinite
<1>6. /\ WithStatus(row2, "pending") = {}
      /\ WithStatus(row2, "completed") = WithStatus(row, "completed")
      /\ WithStatus(row2, "failed") = WithStatus(row, "failed")
      /\ WithStatus(row2, "cancelled") =
             WithStatus(row, "cancelled") \cup WithStatus(row, "pending")
      /\ RowsKept(row, row2)
  BY MarkedStatuses
<1> HIDE DEF flow2, row2, n
<1>7. Cardinality({}) = 0
  BY FS_EmptySet
<1>8. CountersMatch(flow2, row2)
  BY <1>1, <1>3, <1>4, <1>5, <1>6, <1>7 DEF CountersMatch
<1> QED
  BY <1>3, <1>4, <1>6, <1>8 DEF flow2, row2

(* A fresh manifest counts its rows.                                       *)
LEMMA ManifestCounts ==
    ASSUME TypeOK, NEW children \in SUBSET ChildKeys, NEW failFast \in BOOLEAN
    PROVE  /\ Manifest(children, failFast) \in FlowState
           /\ PendingRows(children) \in Row
           /\ CountersMatch(Manifest(children, failFast),
                            PendingRows(children))
<1> DEFINE flow == Manifest(children, failFast)
           row == PendingRows(children)
<1>1. IsFiniteSet(children) /\ Cardinality(children) \in Nat
  BY ConstantsAssumption, FS_Subset, FS_CardinalityType
<1>2. flow \in FlowState /\ flow # None
  <2>1. flow \in FlowState
    BY <1>1 DEF Manifest, FlowState
  <2> QED
    BY <2>1, NoneAssumption
<1> DEFINE fresh == [status |-> "pending", cascaded |-> FALSE,
                     pendingSince |-> now]
<1>3. fresh \in MemFlowChild /\ fresh # None /\ fresh.status = "pending"
  <2>1. fresh \in MemFlowChild
    BY DEF MemFlowChild, TypeOK
  <2> QED
    BY <2>1, NoneAssumption
<1>4. row = [k \in ChildKeys |-> IF k \in children THEN fresh ELSE None]
  BY DEF PendingRows
<1> HIDE DEF fresh, row
<1>5. row \in Row
  BY <1>3, <1>4 DEF Row, Opt
<1>6. WithStatus(row, "pending") = children
  BY <1>3, <1>4 DEF WithStatus
<1>7. /\ WithStatus(row, "completed") = {} /\ WithStatus(row, "failed") = {}
      /\ WithStatus(row, "cancelled") = {}
  BY <1>3, <1>4 DEF WithStatus
<1>8. /\ flow.pending = Cardinality(children) /\ flow.completed = 0
      /\ flow.failed = 0 /\ flow.cancelled = 0
  BY DEF Manifest
<1> HIDE DEF flow
<1>9. CountersMatch(flow, row)
  BY <1>2, <1>6, <1>7, <1>8, FS_EmptySet DEF CountersMatch
<1> QED
  BY <1>2, <1>5, <1>9 DEF flow, row

(* What a batch of reports does to the sets of keys.                       *)
LEMMA ReportedStatuses ==
    ASSUME NEW row \in Row, NEW reports,
           \A k \in DOMAIN reports : reports[k] \in TerminalStates
    PROVE  LET row2 == ReportedRow(row, reports)
               applied == AppliedKeys(row, reports)
           IN  /\ applied \subseteq WithStatus(row, "pending")
               /\ WithStatus(row2, "pending") =
                      WithStatus(row, "pending") \ applied
               /\ \A s \in TerminalStates :
                     WithStatus(row2, s) = WithStatus(row, s)
                         \cup {k \in applied : reports[k] = s}
               /\ RowsKept(row, row2)
<1> DEFINE row2 == ReportedRow(row, reports)
           applied == AppliedKeys(row, reports)
<1>1. /\ applied \subseteq WithStatus(row, "pending")
      /\ applied \subseteq ChildKeys
      /\ \A k \in applied : reports[k] \in TerminalStates
  BY DEF AppliedKeys, WithStatus
<1>2. ASSUME NEW k \in ChildKeys
      PROVE  /\ k \notin applied => row2[k] = row[k]
             /\ k \in applied =>
                    /\ row[k] # None /\ row[k].status = "pending"
                    /\ row2[k] # None /\ row2[k].status = reports[k]
  <2>1. CASE k \in applied
    <3>1. row2[k] = [row[k] EXCEPT !.status = reports[k], !.cascaded = TRUE]
      BY <2>1 DEF ReportedRow
    <3>2. row[k] \in MemFlowChild /\ row[k].status = "pending"
      BY <1>1, <2>1 DEF WithStatus, Row, Opt
    <3>3. row2[k] \in MemFlowChild /\ row2[k].status = reports[k]
      BY <1>1, <2>1, <3>1, <3>2 DEF MemFlowChild
    <3> QED
      BY <2>1, <3>2, <3>3, NoneAssumption
  <2>2. CASE k \notin applied
    BY <2>2 DEF ReportedRow
  <2> QED
    BY <2>1, <2>2
<1> HIDE DEF row2, applied
<1>3. WithStatus(row2, "pending") = WithStatus(row, "pending") \ applied
  BY <1>1, <1>2 DEF WithStatus, TerminalStates
<1>4. ASSUME NEW s \in TerminalStates
      PROVE  WithStatus(row2, s) = WithStatus(row, s)
                 \cup {k \in applied : reports[k] = s}
  BY <1>1, <1>2 DEF WithStatus, TerminalStates
<1>5. RowsKept(row, row2)
  BY <1>2 DEF RowsKept, RowKept
<1> QED
  BY <1>1, <1>3, <1>4, <1>5 DEF row2, applied

(* Counting a batch keeps counters and rows in agreement: a report that is *)
(* applied moves one key from pending to its outcome, whatever the batch.  *)
LEMMA ReportedCounts ==
    ASSUME NEW row \in Row, NEW flow \in FlowState, NEW reports,
           \A k \in DOMAIN reports : reports[k] \in TerminalStates,
           CountersMatch(flow, row)
    PROVE  LET flow2 == Counted(flow, row, reports)
               row2 == ReportedRow(row, reports)
           IN  /\ flow2.pending <= flow.pending
               /\ CountersMatch(flow2, row2) /\ RowsKept(row, row2)
<1> DEFINE flow2 == Counted(flow, row, reports)
           row2 == ReportedRow(row, reports)
           applied == AppliedKeys(row, reports)
           Count(s) == Cardinality({k \in applied : reports[k] = s})
<1>1. flow # None /\ flow2 # None
  BY CountedType, NoneAssumption
<1>2. /\ applied \subseteq WithStatus(row, "pending")
      /\ WithStatus(row2, "pending") = WithStatus(row, "pending") \ applied
      /\ \A s \in TerminalStates :
            WithStatus(row2, s) = WithStatus(row, s)
                \cup {k \in applied : reports[k] = s}
      /\ RowsKept(row, row2)
  BY ReportedStatuses
<1>3. /\ flow2.pending = Max0(flow.pending - Cardinality(applied))
      /\ flow2.completed = flow.completed + Count("completed")
      /\ flow2.failed = flow.failed + Count("failed")
      /\ flow2.cancelled = flow.cancelled + Count("cancelled")
  BY DEF Counted, FlowState
<1> HIDE DEF flow2, row2, applied
<1>4. WithStatus(row, "pending") \subseteq ChildKeys
  BY WithStatusFinite
<1>5. flow.pending = Cardinality(WithStatus(row, "pending"))
  BY <1>1 DEF CountersMatch
<1>6. /\ Cardinality(WithStatus(row2, "pending"))
             = flow.pending - Cardinality(applied)
      /\ Cardinality(applied) <= flow.pending
      /\ Cardinality(applied) \in Nat
  <2>1. Cardinality(applied) \in Nat
    BY AppliedKeysFinite DEF applied
  <2> QED
    BY <1>2, <1>4, <1>5, <2>1, DifferenceCounts
<1>7. /\ flow2.pending = Cardinality(WithStatus(row2, "pending"))
      /\ flow2.pending <= flow.pending
  <2>1. flow.pending \in Nat
    BY DEF FlowState
  <2> QED
    BY <1>3, <1>6, <2>1 DEF Max0
<1>8. ASSUME NEW s \in TerminalStates
      PROVE  Cardinality(WithStatus(row2, s))
                 = Cardinality(WithStatus(row, s)) + Count(s)
  <2> DEFINE A == WithStatus(row, s)
             B == {k \in applied : reports[k] = s}
  <2>1. A \cap B = {} /\ A \subseteq ChildKeys /\ B \subseteq ChildKeys
    <3>1. \A k \in B : row[k].status = "pending"
      BY <1>2 DEF WithStatus
    <3>2. \A k \in A : row[k].status = s /\ s # "pending"
      BY DEF WithStatus, TerminalStates
    <3> QED
      BY <1>2, <1>4, <3>1, <3>2, WithStatusFinite
  <2>2. Cardinality(A \cup B) = Cardinality(A) + Cardinality(B)
    BY <2>1, DisjointCounts
  <2> QED
    BY <1>2, <2>2
<1> HIDE DEF Count
<1>9. CountersMatch(flow2, row2)
  BY <1>1, <1>3, <1>7, <1>8 DEF CountersMatch, TerminalStates
<1> QED
  BY <1>2, <1>7, <1>9 DEF flow2, row2

-----------------------------------------------------------------------------
(* Effects on one record and its rows                                      *)

(* A pair that is left alone.                                              *)
LEMMA SameFlow ==
    ASSUME NEW i \in Opt(MemJob), NEW row, FlowOK(i, row)
    PROVE  FlowEffect(i, row, i, row)
<1>1. i # None /\ i.flow # None => i.flow.pending \in Nat
  BY DEF Opt, MemJob, FlowState
<1> QED
  BY <1>1 DEF FlowEffect, FlowOK, RowsKept, RowKept, FlowKept

(* A record rewritten with its manifest, and parked or not as before.      *)
LEMMA CarriedFlow ==
    ASSUME NEW i \in MemJob, NEW j, NEW row, FlowOK(i, row),
           j # None, j.flow = i.flow,
           j.state = "waiting-children" <=> i.state = "waiting-children"
    PROVE  FlowEffect(i, row, j, row)
<1>1. i # None
  BY NoneAssumption
<1>2. i.flow # None => i.flow.pending \in Nat
  BY DEF Opt, MemJob, FlowState
<1> QED
  BY <1>1, <1>2 DEF FlowEffect, FlowOK, RowsKept, RowKept, FlowKept

(* An invariant pair per job is what FlowInv says.                         *)
LEMMA FlowInvIsFlowOK ==
    FlowInv <=> \A id \in JobIds : FlowOK(jobs[id], flowChildren[id])
BY DEF FlowInv, FlowOK, Has

(* Rewriting one record and its rows.                                      *)
LEMMA PutFlow ==
    ASSUME TypeOK, FlowInv, NEW id \in JobIds, NEW j, NEW row,
           FlowEffect(jobs[id], flowChildren[id], j, row),
           jobs' = [jobs EXCEPT ![id] = j],
           flowChildren' = [flowChildren EXCEPT ![id] = row]
    PROVE  FlowStep
<1>1. \A i \in JobIds :
          FlowEffect(jobs[i], flowChildren[i], jobs[i], flowChildren[i])
  BY SameFlow, FlowInvIsFlowOK DEF TypeOK
<1> QED
  BY <1>1 DEF FlowStep, TypeOK

(* Rewriting one record only.                                              *)
LEMMA PutRecordFlow ==
    ASSUME TypeOK, FlowInv, NEW id \in JobIds, NEW j,
           FlowEffect(jobs[id], flowChildren[id], j, flowChildren[id]),
           jobs' = [jobs EXCEPT ![id] = j],
           flowChildren' = flowChildren
    PROVE  FlowStep
<1>1. flowChildren' = [flowChildren EXCEPT ![id] = flowChildren[id]]
  BY DEF TypeOK
<1> QED
  BY <1>1, PutFlow

(* Retention drops records together with their rows.                       *)
LEMMA RetireFlow ==
    ASSUME NEW js, NEW rs, NEW done, NEW kept, Retire(js, rs, done, kept),
           \A id \in JobIds :
               FlowEffect(jobs[id], flowChildren[id], js[id], rs[id])
    PROVE  FlowStep
<1>1. PICK victims : jobs' = Without(js, victims, None)
                         /\ flowChildren' = Without(rs, victims, NoRows)
  BY DEF Retire
<1> QED
  BY <1>1 DEF Without, FlowStep, FlowEffect

(* One job becomes terminal and its rows are what they should be.          *)
LEMMA FinishFlow ==
    ASSUME TypeOK, FlowInv, NEW id \in JobIds, NEW j \in MemJob, NEW row,
           NEW state \in TerminalStates, NEW done, NEW kept,
           jobs[id] # None,
           CountersMatch(j.flow, row), j.flow # None => j.flow.pending = 0,
           RowsKept(flowChildren[id], row), FlowKept(jobs[id], j),
           Retire([jobs EXCEPT ![id] = Finish(j, state)],
                  [flowChildren EXCEPT ![id] = row], done, kept)
    PROVE  FlowStep
<1> DEFINE c == Finish(j, state)
           js == [jobs EXCEPT ![id] = c]
           rs == [flowChildren EXCEPT ![id] = row]
<1>1. c \in MemJob /\ c # None /\ c.state = state /\ c.flow = j.flow
  <2>1. c \in MemJob
    BY FinishType DEF TypeOK
  <2>2. c.flow = j.flow
    BY DEF Finish, RecordAttempt, ClearLock, MemJob
  <2> QED
    BY <2>1, <2>2, FinishState, NoneAssumption
<1> HIDE DEF c
<1>2. FlowEffect(jobs[id], flowChildren[id], c, row)
  <2>1. FlowOK(c, row)
    BY <1>1 DEF FlowOK, TerminalStates
  <2>2. FlowKept(jobs[id], c)
    BY <1>1 DEF FlowKept
  <2> QED
    BY <1>1, <2>1, <2>2 DEF FlowEffect
<1>3. \A i \in JobIds :
          FlowEffect(jobs[i], flowChildren[i], js[i], rs[i])
  <2>1. \A i \in JobIds :
            FlowEffect(jobs[i], flowChildren[i], jobs[i], flowChildren[i])
    BY SameFlow, FlowInvIsFlowOK DEF TypeOK
  <2> QED
    BY <1>2, <2>1 DEF TypeOK
<1>4. Retire(js, rs, done, kept)
  BY DEF c
<1> HIDE DEF js, rs
<1> QED
  BY <1>3, <1>4, RetireFlow

(* Operations that write records without touching a manifest or parking.   *)
LEMMA CarriedFlows ==
    ASSUME TypeOK, FlowInv, flowChildren' = flowChildren,
           \A id \in JobIds :
               \/ jobs'[id] = jobs[id]
               \/ /\ jobs[id] # None /\ jobs'[id] # None
                  /\ jobs'[id].flow = jobs[id].flow
                  /\ jobs'[id].state = "waiting-children"
                         <=> jobs[id].state = "waiting-children"
    PROVE  FlowStep
<1> SUFFICES ASSUME NEW id \in JobIds
             PROVE  FlowEffect(jobs[id], flowChildren[id], jobs'[id],
                               flowChildren[id])
  BY DEF FlowStep
<1>1. jobs[id] \in Opt(MemJob) /\ FlowOK(jobs[id], flowChildren[id])
  BY FlowInvIsFlowOK DEF TypeOK
<1>2. CASE jobs'[id] = jobs[id]
  BY <1>1, <1>2, SameFlow
<1>3. CASE jobs'[id] # jobs[id]
  BY <1>1, <1>3, CarriedFlow DEF Opt
<1> QED
  BY <1>2, <1>3

(* markCancelled settles what a parked parent still waits for.             *)
LEMMA MarkCancelledFlow ==
    ASSUME TypeOK, FlowInv, NEW id \in JobIds, NEW j \in MemJob,
           jobs[id] # None, j.flow = jobs[id].flow,
           j.state = "waiting-children" <=>
               jobs[id].state = "waiting-children",
           MarkCancelled(id, j)
    PROVE  FlowStep
<1> DEFINE row == flowChildren[id]
           parked == j.state = "waiting-children"
           f == IF parked THEN SettleFlow(j.flow, row) ELSE j.flow
           row2 == IF parked THEN MarkPendingRowsCancelled(row) ELSE row
           c == [j EXCEPT !.flow = f]
<1>1. /\ FlowOK(jobs[id], row) /\ row \in Row
      /\ j.flow \in Opt(FlowState)
  BY FlowInvIsFlowOK DEF TypeOK, Row, MemJob
<1>2. Retire([jobs EXCEPT ![id] = Finish(c, "cancelled")],
             [flowChildren EXCEPT ![id] = row2], {id}, {id})
  BY DEF MarkCancelled
<1>3. f \in Opt(FlowState)
  BY <1>1, SettleFlowType
<1>4. /\ CountersMatch(f, row2) /\ (f # None => f.pending = 0)
      /\ RowsKept(row, row2)
      /\ j.flow # None => f # None /\ f.pending <= j.flow.pending
  <2>1. CASE parked
    <3>1. j.flow # None /\ j.flow \in FlowState /\ CountersMatch(j.flow, row)
      BY <1>1, <2>1 DEF FlowOK, Opt
    <3>2. /\ SettleFlow(j.flow, row) # None
          /\ SettleFlow(j.flow, row).pending = 0
          /\ CountersMatch(SettleFlow(j.flow, row),
                           MarkPendingRowsCancelled(row))
          /\ RowsKept(row, MarkPendingRowsCancelled(row))
      BY <1>1, <3>1, SettledCounts
    <3>3. j.flow.pending \in Nat
      BY <3>1 DEF FlowState
    <3> QED
      BY <2>1, <3>2, <3>3
  <2>2. CASE ~parked
    <3>1. j.flow # None => j.flow.pending \in Nat
      BY <1>1 DEF Opt, FlowState
    <3> QED
      BY <1>1, <2>2, <3>1 DEF FlowOK, RowsKept, RowKept
  <2> QED
    BY <2>1, <2>2
<1> HIDE DEF f, row2
<1>5. c \in MemJob /\ c.flow = f
  BY <1>3, FieldTypes DEF MemJob
<1> HIDE DEF c
<1>6. FlowKept(jobs[id], c)
  BY <1>4, <1>5 DEF FlowKept
<1> QED
  BY <1>2, <1>4, <1>5, <1>6, FinishFlow DEF TerminalStates

-----------------------------------------------------------------------------
(* The effect of each operation                                            *)

(* Enqueues do not touch a flow; a new job has none.                       *)
LEMMA ProducerFlow ==
    ASSUME TypeOK, FlowInv, ProducerNext
    PROVE  FlowStep
<1>1. ASSUME NEW r \in Requests, NEW id \in JobIds, Enqueue(r, id)
      PROVE  FlowStep
  <2>1. /\ jobs[id] = None /\ jobs' = [jobs EXCEPT ![id] = NewJob(r)]
        /\ flowChildren' = flowChildren
    BY <1>1 DEF Enqueue, Has, IdTaken
  <2>2. NewJob(r) # None
    BY NewJobType, ConstantsAssumption, NoneAssumption DEF TypeOK
  <2>3. NewJob(r).flow = None /\ NewJob(r).state # "waiting-children"
    BY DEF NewJob
  <2>4. flowChildren[id] = NoRows
    BY <2>1, FlowInvIsFlowOK DEF FlowOK
  <2>5. FlowOK(NewJob(r), flowChildren[id])
    BY <2>2, <2>3, <2>4 DEF FlowOK, CountersMatch
  <2>6. FlowEffect(jobs[id], flowChildren[id], NewJob(r), flowChildren[id])
    BY <2>1, <2>2, <2>4, <2>5
       DEF FlowEffect, FlowKept, RowsKept, RowKept, NoRows
  <2> QED
    BY <2>1, <2>6, PutRecordFlow
<1>2. ASSUME NEW r \in Requests, EnqueueReplace(r)
      PROVE  FlowStep
  <2> DEFINE id == EntryOf(r).jobId
             j == [jobs[id] EXCEPT
                     !.payload = r.payload, !.priority = r.priority,
                     !.attemptsMax = r.attemptsMax, !.keep = r.keep,
                     !.runAt = now + r.delayMs]
  <2>1. /\ jobs' = [jobs EXCEPT ![id] = j] /\ flowChildren' = flowChildren
        /\ Has(jobs, id)
    BY <1>2 DEF EnqueueReplace, TypeOK, Replaces
  <2> HIDE DEF id
  <2>2. ASSUME NEW i \in JobIds, i = id
        PROVE  /\ jobs[i] # None /\ j # None
               /\ j.flow = jobs[i].flow /\ j.state = jobs[i].state
    <3>1. jobs[id] \in MemJob
      BY <2>1, <2>2, HasType DEF TypeOK, JobMap
    <3>2. j.flow = jobs[id].flow /\ j.state = jobs[id].state
      BY <3>1 DEF MemJob
    <3>3. j \in MemJob
      <4>1. /\ r.payload \in Payloads /\ r.priority \in Int
            /\ r.attemptsMax \in Nat /\ r.keep \in Opt(KeepPolicy)
            /\ now + r.delayMs \in Nat
        BY ConstantsAssumption DEF EnqueueRequest, TypeOK
      <4> QED
        BY <3>1, <4>1 DEF MemJob
    <3> QED
      BY <2>1, <2>2, <3>2, <3>3, NoneAssumption DEF Has
  <2> HIDE DEF j
  <2>3. \A i \in JobIds : jobs'[i] = IF i = id THEN j ELSE jobs[i]
    BY <2>1 DEF TypeOK
  <2> QED
    BY <2>1, <2>2, <2>3, CarriedFlows
<1>3. ASSUME NEW r \in Requests, EnqueueExtend(r)
      PROVE  FlowStep
  BY <1>3, CarriedFlows DEF EnqueueExtend
<1> QED
  BY <1>1, <1>2, <1>3 DEF ProducerNext

(* promoteDue touches delayed jobs only, which are not parked.             *)
LEMMA PromoteDueFlow ==
    ASSUME TypeOK, NEW id \in JobIds
    PROVE  LET j == PromoteDue(jobs)[id]
           IN  \/ j = jobs[id]
               \/ /\ jobs[id] # None /\ j # None /\ j.flow = jobs[id].flow
                  /\ j.state # "waiting-children"
                  /\ jobs[id].state # "waiting-children"
<1>1. CASE Has(jobs, id) /\ jobs[id].state = "delayed" /\ jobs[id].runAt <= now
  <2>1. jobs[id] \in MemJob
    BY <1>1, HasType DEF TypeOK, JobMap
  <2>2. [jobs[id] EXCEPT !.state = "waiting"] \in MemJob
    BY <2>1, FieldTypes DEF JobStates
  <2>3. PromoteDue(jobs)[id] = [jobs[id] EXCEPT !.state = "waiting"]
    BY <1>1 DEF PromoteDue
  <2> QED
    BY <1>1, <2>1, <2>2, <2>3, NoneAssumption DEF MemJob, Has
<1>2. CASE ~(Has(jobs, id) /\ jobs[id].state = "delayed"
                 /\ jobs[id].runAt <= now)
  BY <1>2 DEF PromoteDue
<1> QED
  BY <1>1, <1>2

(* claim takes a waiting job, which is not parked.                         *)
LEMMA ClaimFlow ==
    ASSUME TypeOK, FlowInv, NEW queue, NEW names, NEW lockMs \in LockDurations,
           Claim(queue, names, lockMs)
    PROVE  FlowStep
<1> DEFINE js == PromoteDue(jobs)
           token == lastToken + 1
<1>1. js \in JobMap
  BY PromoteDueType DEF TypeOK, JobMap
<1>2. PICK best \in Claimable(js, queue, names) :
          jobs' = [js EXCEPT ![best] = Claimed(js[best], token, lockMs)]
  BY DEF Claim
<1>3. \A id \in JobIds :
          \/ js[id] = jobs[id]
          \/ /\ jobs[id] # None /\ js[id] # None /\ js[id].flow = jobs[id].flow
             /\ js[id].state # "waiting-children"
             /\ jobs[id].state # "waiting-children"
  BY PromoteDueFlow
<1>4. token \in Nat /\ lockMs \in Nat
  BY ConstantsAssumption DEF TypeOK
<1> HIDE DEF js, token
<1>5. /\ best \in JobIds /\ js[best] \in MemJob
      /\ js[best].state = "waiting"
  <2>1. best \in JobIds /\ Has(js, best) /\ js[best].state = "waiting"
    BY <1>2 DEF Claimable
  <2> QED
    BY <1>1, <2>1, HasType
<1>6. LET j == Claimed(js[best], token, lockMs)
      IN  j # None /\ j.flow = js[best].flow /\ j.state = "active"
  <2>1. Claimed(js[best], token, lockMs) # None
    BY <1>4, <1>5, ClaimedType, NoneAssumption DEF TypeOK
  <2> QED
    BY <1>5, <2>1 DEF Claimed, MemJob
<1>7. \A id \in JobIds : jobs'[id] =
          IF id = best THEN Claimed(js[best], token, lockMs) ELSE js[id]
  BY <1>1, <1>2 DEF JobMap
<1>8. flowChildren' = flowChildren
  BY DEF Claim
<1>9. js[best] # None
  BY <1>5, NoneAssumption
<1> QED
  BY <1>3, <1>5, <1>6, <1>7, <1>8, <1>9, CarriedFlows

(* An empty claim only promotes.                                           *)
LEMMA ClaimEmptyFlow ==
    ASSUME TypeOK, FlowInv, NEW queue, NEW names, ClaimEmpty(queue, names)
    PROVE  FlowStep
<1>1. jobs' = PromoteDue(jobs) /\ flowChildren' = flowChildren
  BY DEF ClaimEmpty
<1> QED
  BY <1>1, PromoteDueFlow, CarriedFlows

(* A held job is active, so it is not parked and waits for no child.       *)
LEMMA HeldFlow ==
    ASSUME TypeOK, FlowInv, NEW id \in JobIds, NEW token, Held(id, token)
    PROVE  /\ jobs[id] \in MemJob /\ jobs[id] # None
           /\ jobs[id].state = "active"
           /\ CountersMatch(jobs[id].flow, flowChildren[id])
           /\ jobs[id].flow \in Opt(FlowState)
           /\ jobs[id].flow # None => jobs[id].flow.pending = 0
<1>1. jobs[id] \in MemJob /\ jobs[id] # None /\ jobs[id].state = "active"
  BY HasType DEF Held, TypeOK, JobMap, Has
<1>2. FlowOK(jobs[id], flowChildren[id])
  BY FlowInvIsFlowOK
<1>3. jobs[id].flow # None => jobs[id].flow.pending \in Nat
  BY <1>1 DEF MemJob, FlowState, Opt
<1>4. jobs[id].flow \in Opt(FlowState)
  BY <1>1 DEF MemJob
<1> QED
  BY <1>1, <1>2, <1>3, <1>4 DEF FlowOK

(* A record whose state is not the parked one takes another's place.       *)
LEMMA PutCarried ==
    ASSUME TypeOK, FlowInv, NEW id \in JobIds, NEW j \in MemJob,
           jobs[id] # None, j.flow = jobs[id].flow,
           j.state = "waiting-children" <=>
               jobs[id].state = "waiting-children",
           jobs' = [jobs EXCEPT ![id] = j], flowChildren' = flowChildren
    PROVE  FlowStep
<1>1. j # None
  BY NoneAssumption
<1>2. \A i \in JobIds : jobs'[i] = IF i = id THEN j ELSE jobs[i]
  BY DEF TypeOK
<1> QED
  BY <1>1, <1>2, CarriedFlows

(* extendLocks                                                             *)
LEMMA ExtendLocksFlow ==
    ASSUME TypeOK, FlowInv, NEW id \in JobIds, NEW token,
           NEW lockMs \in LockDurations, ExtendLocks(id, token, lockMs)
    PROVE  FlowStep
<1> DEFINE t == now + lockMs
           j == [jobs[id] EXCEPT !.lockExpiresAt = t]
<1>1. jobs[id] \in MemJob /\ jobs[id] # None
  BY HeldFlow DEF ExtendLocks
<1>2. t \in Opt(Nat)
  BY ConstantsAssumption DEF TypeOK, Opt
<1>3. jobs' = [jobs EXCEPT ![id] = j] /\ flowChildren' = flowChildren
  BY DEF ExtendLocks
<1> HIDE DEF t
<1>4. j \in MemJob
  BY <1>1, <1>2, FieldTypes
<1>5. j.flow = jobs[id].flow /\ j.state = jobs[id].state
  BY <1>1 DEF MemJob
<1> HIDE DEF j
<1> QED
  BY <1>1, <1>3, <1>4, <1>5, PutCarried

(* What clearLock leaves alone.                                            *)
LEMMA ClearLockFlow ==
    ASSUME NEW j \in MemJob
    PROVE  ClearLock(j).flow = j.flow /\ ClearLock(j).state = j.state
               /\ ClearLock(j).cancelRequested = j.cancelRequested
BY DEF ClearLock, MemJob

(* What recordAttempt leaves alone.                                        *)
LEMMA RecordAttemptFlow ==
    ASSUME NEW j \in MemJob, NEW outcome
    PROVE  /\ RecordAttempt(j, outcome).flow = j.flow
           /\ RecordAttempt(j, outcome).state = j.state
           /\ RecordAttempt(j, outcome).cancelRequested = j.cancelRequested
BY DEF RecordAttempt, MemJob

(* release                                                                 *)
LEMMA ReleaseFlow ==
    ASSUME TypeOK, FlowInv, NEW id \in JobIds, NEW token, Release(id, token)
    PROVE  FlowStep
<1>1. jobs[id] \in MemJob /\ jobs[id] # None /\ jobs[id].state = "active"
  BY HeldFlow DEF Release
<1>2. CASE jobs[id].cancelRequested
  BY <1>1, <1>2, MarkCancelledFlow DEF Release
<1>3. CASE ~jobs[id].cancelRequested
  <2> DEFINE c == ClearLock(jobs[id])
             j == [c EXCEPT !.state = "waiting"]
  <2>1. c \in MemJob /\ c.flow = jobs[id].flow
    BY <1>1, ClearLockType, ClearLockFlow
  <2>2. jobs' = [jobs EXCEPT ![id] = j] /\ flowChildren' = flowChildren
    BY <1>3 DEF Release
  <2> HIDE DEF c
  <2>3. j \in MemJob /\ j.flow = c.flow /\ j.state = "waiting"
    <3>1. j \in MemJob
      BY <2>1, FieldTypes DEF JobStates
    <3> QED
      BY <2>1, <3>1 DEF MemJob
  <2> HIDE DEF j
  <2> QED
    BY <1>1, <2>1, <2>2, <2>3, PutCarried
<1> QED
  BY <1>2, <1>3

(* recoverStalled: an active job becomes terminal or waiting.              *)
LEMMA RecoverStalledFlow ==
    ASSUME TypeOK, FlowInv, RecoverStalled
    PROVE  FlowStep
<1> DEFINE js == [id \in JobIds |-> IF id \in Stalled
                                    THEN RecoveredJob(jobs[id]) ELSE jobs[id]]
<1>1. PICK done, kept : Retire(js, flowChildren, done, kept)
  BY DEF RecoverStalled
<1>2. ASSUME NEW j \in MemJob, j.state = "active"
      PROVE  /\ RecoveredJob(j).flow = j.flow
             /\ RecoveredJob(j).state # "waiting-children"
  <2> DEFINE c == RecordAttempt(ClearLock(j), "stalled")
  <2>1. c \in MemJob /\ c.flow = j.flow
    BY ClearLockType, RecordAttemptType, ClearLockFlow, RecordAttemptFlow
       DEF AttemptOutcomes
  <2>2. Finish(j, "cancelled").flow = j.flow
            /\ Finish(j, "cancelled").state = "cancelled"
    BY FinishState DEF Finish, RecordAttempt, ClearLock, MemJob
  <2>3. RecoveredJob(j) =
            IF j.cancelRequested THEN Finish(j, "cancelled")
            ELSE IF StallsExhausted(j)
            THEN [c EXCEPT !.stalledCount = @ + 1, !.state = "failed",
                           !.finishedAt = now, !.failedReason = TRUE]
            ELSE [c EXCEPT !.stalledCount = @ + 1, !.state = "waiting"]
    BY DEF RecoveredJob
  <2> HIDE DEF c
  <2> QED
    BY <2>1, <2>2, <2>3 DEF MemJob
<1>3. ASSUME NEW id \in JobIds
      PROVE  FlowEffect(jobs[id], flowChildren[id], js[id], flowChildren[id])
  <2>1. jobs[id] \in Opt(MemJob) /\ FlowOK(jobs[id], flowChildren[id])
    BY FlowInvIsFlowOK DEF TypeOK
  <2>2. CASE id \in Stalled
    <3>1. jobs[id] \in MemJob /\ jobs[id].state = "active"
      BY <2>2, HasType DEF Stalled, TypeOK, JobMap
    <3>2. RecoveredJob(jobs[id]) \in MemJob
      BY <3>1, RecoveredJobType DEF TypeOK
    <3>3. FlowEffect(jobs[id], flowChildren[id], RecoveredJob(jobs[id]),
                     flowChildren[id])
      BY <1>2, <2>1, <3>1, <3>2, CarriedFlow, NoneAssumption
    <3> QED
      BY <2>2, <3>3
  <2>3. CASE id \notin Stalled
    BY <2>1, <2>3, SameFlow
  <2> QED
    BY <2>2, <2>3
<1> HIDE DEF js
<1> QED
  BY <1>1, <1>3, RetireFlow

(* The acknowledged record keeps its manifest.                             *)
LEMMA AckedFlow ==
    ASSUME TypeOK, NEW id \in JobIds, Has(jobs, id)
    PROVE  /\ Acked(id) \in MemJob /\ Acked(id).flow = jobs[id].flow
           /\ Acked(id).state = jobs[id].state
<1> DEFINE c == ClearLock(jobs[id])
<1>1. jobs[id] \in MemJob
  BY HasType DEF TypeOK, JobMap
<1>2. c \in MemJob /\ c.flow = jobs[id].flow /\ c.state = jobs[id].state
  BY <1>1, ClearLockType, ClearLockFlow
<1>3. Acked(id) = [c EXCEPT !.attemptsMade = @ + 1]
  BY DEF Acked
<1> HIDE DEF c
<1> QED
  BY <1>2, <1>3, AckedType DEF MemJob

(* ack Complete, Fail, Cancelled: the rows of a finished parent stay.      *)
LEMMA AckTerminalFlow ==
    ASSUME TypeOK, FlowInv, NEW id \in JobIds, NEW token,
           NEW state \in TerminalStates, NEW exit \in BOOLEAN,
           AckTerminal(id, token, state, exit)
    PROVE  FlowStep
<1> DEFINE e == IF state = "cancelled" THEN Acked(id).exit ELSE exit
           j == [Acked(id) EXCEPT !.exit = e]
<1>1. /\ jobs[id] \in MemJob /\ jobs[id] # None
      /\ CountersMatch(jobs[id].flow, flowChildren[id])
      /\ jobs[id].flow \in Opt(FlowState)
      /\ jobs[id].flow # None => jobs[id].flow.pending = 0
  BY HeldFlow DEF AckTerminal
<1>2. Acked(id) \in MemJob /\ Acked(id).flow = jobs[id].flow
  BY AckedFlow DEF AckTerminal, Held
<1>3. e \in BOOLEAN
  BY <1>2 DEF MemJob
<1>4. Retire([jobs EXCEPT ![id] = Finish(j, state)], flowChildren, {id}, {id})
  BY DEF AckTerminal
<1> HIDE DEF e
<1>5. j \in MemJob /\ j.flow = jobs[id].flow
  BY <1>2, <1>3, FieldTypes DEF MemJob
<1> HIDE DEF j
<1>6. flowChildren = [flowChildren EXCEPT ![id] = flowChildren[id]]
  BY DEF TypeOK
<1>7. /\ RowsKept(flowChildren[id], flowChildren[id])
      /\ FlowKept(jobs[id], j)
  BY <1>1, <1>5 DEF RowsKept, RowKept, FlowKept
<1>8. Retire([jobs EXCEPT ![id] = Finish(j, state)],
             [flowChildren EXCEPT ![id] = flowChildren[id]], {id}, {id})
  BY <1>4, <1>6
<1> QED
  BY <1>1, <1>5, <1>7, <1>8, FinishFlow

(* ack Retry                                                               *)
LEMMA AckRetryFlow ==
    ASSUME TypeOK, FlowInv, NEW id \in JobIds, NEW token,
           NEW delayMs \in RetryDelays, AckRetry(id, token, delayMs)
    PROVE  FlowStep
<1>1. jobs[id] \in MemJob /\ jobs[id] # None /\ jobs[id].state = "active"
  BY HeldFlow DEF AckRetry
<1>2. Acked(id) \in MemJob /\ Acked(id).flow = jobs[id].flow
          /\ Acked(id).state = "active"
  BY <1>1, AckedFlow DEF AckRetry, Held
<1>3. CASE jobs[id].cancelRequested
  BY <1>1, <1>2, <1>3, MarkCancelledFlow DEF AckRetry
<1>4. CASE ~jobs[id].cancelRequested
  <2> DEFINE c == RecordAttempt(Acked(id), "retried")
             s == IF delayMs > 0 THEN "delayed" ELSE "waiting"
             j == [c EXCEPT !.runAt = now + delayMs, !.state = s,
                            !.seq = seq + 1]
  <2>1. c \in MemJob /\ c.flow = jobs[id].flow
    BY <1>2, RecordAttemptType, RecordAttemptFlow DEF AttemptOutcomes
  <2>2. jobs' = [jobs EXCEPT ![id] = j] /\ flowChildren' = flowChildren
    BY <1>4 DEF AckRetry
  <2>3. s \in JobStates /\ s # "waiting-children"
    BY DEF JobStates
  <2>4. now + delayMs \in Nat /\ seq + 1 \in Nat
    BY ConstantsAssumption DEF TypeOK
  <2> HIDE DEF c, s
  <2>5. j \in MemJob /\ j.flow = c.flow /\ j.state = s
    BY <2>1, <2>3, <2>4 DEF MemJob
  <2> HIDE DEF j
  <2> QED
    BY <1>1, <2>1, <2>2, <2>3, <2>5, PutCarried
<1> QED
  BY <1>3, <1>4

(* ack FanOut: the first one writes manifest and rows together; a later    *)
(* one finds no pending row and cannot park the parent again.              *)
LEMMA AckFanOutFlow ==
    ASSUME TypeOK, FlowInv, NEW id \in JobIds, NEW token,
           NEW children \in SUBSET ChildKeys, NEW failFast \in BOOLEAN,
           AckFanOut(id, token, children, failFast)
    PROVE  FlowStep
<1> DEFINE first == FirstFanOut(id)
           flow == IF first THEN Manifest(children, failFast)
                   ELSE jobs[id].flow
           row == IF first THEN PendingRows(children) ELSE flowChildren[id]
           c == ClearLock(jobs[id])
           b == [c EXCEPT !.flow = flow]
           j == RecordAttempt(b, "fanned-out")
           s == [j EXCEPT !.flow = SettleFlow(@, row)]
<1>1. /\ jobs[id] \in MemJob /\ jobs[id] # None
      /\ CountersMatch(jobs[id].flow, flowChildren[id])
      /\ jobs[id].flow \in Opt(FlowState)
      /\ jobs[id].flow # None => jobs[id].flow.pending = 0
  BY HeldFlow DEF AckFanOut
<1>2. /\ flow \in FlowState /\ row \in Row /\ CountersMatch(flow, row)
      /\ RowsKept(flowChildren[id], row)
      /\ jobs[id].flow # None => flow = jobs[id].flow
  <2>1. CASE first
    <3>1. flow \in FlowState /\ row \in Row /\ CountersMatch(flow, row)
      BY <2>1, ManifestCounts
    <3>2. jobs[id].flow = None /\ flowChildren[id] = NoRows
      BY <1>1, <2>1 DEF FirstFanOut, CountersMatch
    <3> QED
      BY <3>1, <3>2 DEF RowsKept, RowKept, NoRows
  <2>2. CASE ~first
    BY <1>1, <2>2 DEF FirstFanOut, TypeOK, Row, RowsKept, RowKept, Opt
  <2> QED
    BY <2>1, <2>2
<1>3. c \in MemJob
  BY <1>1, ClearLockType
<1> HIDE DEF flow, c
<1>4. b \in MemJob /\ b.flow = flow
  BY <1>2, <1>3, FieldTypes DEF MemJob, Opt
<1> HIDE DEF b
<1>5. j \in MemJob /\ j.flow = flow
  BY <1>4, RecordAttemptType, RecordAttemptFlow DEF AttemptOutcomes
<1>6. flow # None /\ flow.pending \in Nat
  BY <1>2, NoneAssumption DEF FlowState
<1>7. CASE j.cancelRequested
  <2>1. Retire([jobs EXCEPT ![id] = Finish(s, "cancelled")],
               [flowChildren EXCEPT ![id] = MarkPendingRowsCancelled(row)],
               {id}, {id})
    BY <1>7 DEF AckFanOut, b, c, flow
  <2> HIDE DEF j, row
  <2>2. SettleFlow(flow, row) \in Opt(FlowState)
    BY <1>2, SettleFlowType DEF Opt
  <2>3. s \in MemJob /\ s.flow = SettleFlow(flow, row)
    BY <1>5, <2>2, FieldTypes DEF MemJob
  <2>4. /\ SettleFlow(flow, row) # None
        /\ SettleFlow(flow, row).pending = 0
        /\ CountersMatch(SettleFlow(flow, row), MarkPendingRowsCancelled(row))
        /\ RowsKept(row, MarkPendingRowsCancelled(row))
    BY <1>2, SettledCounts
  <2>5. RowsKept(flowChildren[id], MarkPendingRowsCancelled(row))
    BY <1>2, <2>4 DEF RowsKept, RowKept
  <2> HIDE DEF s
  <2>6. FlowKept(jobs[id], s)
    BY <1>1, <2>3, <2>4 DEF FlowKept
  <2> QED
    BY <1>1, <2>1, <2>3, <2>4, <2>5, <2>6, FinishFlow DEF TerminalStates
<1>8. CASE ~j.cancelRequested
  <2> DEFINE parked == [j EXCEPT !.state = "waiting-children"]
             ready == [j EXCEPT !.state = "waiting", !.runAt = now,
                                !.seq = seq + 1]
  <2>1. /\ flowChildren' = [flowChildren EXCEPT ![id] = row]
        /\ \/ flow.pending > 0 /\ jobs' = [jobs EXCEPT ![id] = parked]
           \/ flow.pending = 0 /\ jobs' = [jobs EXCEPT ![id] = ready]
    BY <1>8 DEF AckFanOut, b, c, flow
  <2> HIDE DEF j, row
  <2>2. /\ parked \in MemJob /\ parked.flow = flow
        /\ parked.state = "waiting-children"
        /\ ready \in MemJob /\ ready.flow = flow /\ ready.state = "waiting"
    <3>1. now \in Nat /\ seq + 1 \in Nat
      BY DEF TypeOK
    <3> QED
      BY <1>5, <3>1 DEF MemJob, JobStates
  <2> HIDE DEF parked, ready
  <2>3. FlowKept(jobs[id], parked) /\ FlowKept(jobs[id], ready)
    BY <1>1, <1>2, <1>6, <2>2 DEF FlowKept
  <2>4. CASE flow.pending > 0 /\ jobs' = [jobs EXCEPT ![id] = parked]
    <3>1. FlowEffect(jobs[id], flowChildren[id], parked, row)
      BY <1>2, <1>6, <2>2, <2>3, <2>4, NoneAssumption DEF FlowEffect, FlowOK
    <3> QED
      BY <2>1, <2>4, <3>1, PutFlow
  <2>5. CASE flow.pending = 0 /\ jobs' = [jobs EXCEPT ![id] = ready]
    <3>1. FlowEffect(jobs[id], flowChildren[id], ready, row)
      BY <1>2, <1>6, <2>2, <2>3, <2>5, NoneAssumption DEF FlowEffect, FlowOK
    <3> QED
      BY <2>1, <2>5, <3>1, PutFlow
  <2> QED
    BY <2>1, <2>4, <2>5
<1> QED
  BY <1>7, <1>8

(* cancelJob                                                               *)
LEMMA CancelFlow ==
    ASSUME TypeOK, FlowInv, NEW id \in JobIds, Cancel(id)
    PROVE  FlowStep
<1>1. jobs[id] \in MemJob /\ jobs[id] # None
  BY HasType DEF Cancel, TypeOK, JobMap, Has
<1>2. CASE MarkCancelled(id, jobs[id])
  BY <1>1, <1>2, MarkCancelledFlow
<1>3. CASE /\ jobs' = [jobs EXCEPT ![id].cancelRequested = TRUE]
           /\ flowChildren' = flowChildren
  <2> DEFINE j == [jobs[id] EXCEPT !.cancelRequested = TRUE]
  <2>1. j \in MemJob /\ j.flow = jobs[id].flow /\ j.state = jobs[id].state
    <3>1. j \in MemJob
      BY <1>1, FieldTypes
    <3> QED
      BY <1>1, <3>1 DEF MemJob
  <2>2. jobs' = [jobs EXCEPT ![id] = j]
    BY <1>3
  <2> HIDE DEF j
  <2> QED
    BY <1>1, <1>3, <2>1, <2>2, PutCarried
<1> QED
  BY <1>2, <1>3 DEF Cancel

(* retry: manifest and rows of a failed parent survive.                    *)
LEMMA RetryFlow ==
    ASSUME TypeOK, FlowInv, NEW id \in JobIds, Retry(id)
    PROVE  FlowStep
<1>1. jobs[id] \in MemJob /\ jobs[id] # None /\ jobs[id].state = "failed"
  BY HasType DEF Retry, TypeOK, JobMap, Has
<1>2. Revive(jobs[id]) \in MemJob
  BY <1>1, ReviveType DEF TypeOK
<1>3. Revive(jobs[id]).flow = jobs[id].flow
          /\ Revive(jobs[id]).state = "waiting"
  BY <1>1 DEF Revive, MemJob
<1> QED
  BY <1>1, <1>2, <1>3, PutCarried DEF Retry

(* promote                                                                 *)
LEMMA PromoteFlow ==
    ASSUME TypeOK, FlowInv, NEW id \in JobIds, Promote(id)
    PROVE  FlowStep
<1> DEFINE j == [jobs[id] EXCEPT !.state = "waiting", !.runAt = now]
<1>1. jobs[id] \in MemJob /\ jobs[id] # None /\ jobs[id].state = "delayed"
  BY HasType DEF Promote, TypeOK, JobMap, Has
<1>2. jobs' = [jobs EXCEPT ![id] = j] /\ flowChildren' = flowChildren
  BY DEF Promote, TypeOK
<1>3. j \in MemJob /\ j.flow = jobs[id].flow /\ j.state = "waiting"
  BY <1>1 DEF MemJob, JobStates, TypeOK
<1> HIDE DEF j
<1> QED
  BY <1>1, <1>2, <1>3, PutCarried

(* remove and the retention sweep drop records with their rows.            *)
LEMMA WithoutFlow ==
    ASSUME TypeOK, FlowInv, NEW victims,
           jobs' = Without(jobs, victims, None),
           flowChildren' = Without(flowChildren, victims, NoRows)
    PROVE  FlowStep
<1>1. \A id \in JobIds :
          FlowEffect(jobs[id], flowChildren[id], jobs[id], flowChildren[id])
  BY SameFlow, FlowInvIsFlowOK DEF TypeOK
<1> QED
  BY <1>1 DEF FlowStep, FlowEffect, Without

(* recordChildResults: rows, counters and the settle decision agree.       *)
LEMMA RecordChildResultsFlow ==
    ASSUME TypeOK, FlowInv, NEW flowId \in JobIds, NEW reports,
           \A k \in DOMAIN reports : reports[k] \in TerminalStates,
           RecordChildResults(flowId, reports)
    PROVE  FlowStep
<1> DEFINE i == jobs[flowId]
           row == flowChildren[flowId]
           row1 == ReportedRow(row, reports)
           f == Counted(i.flow, row, reports)
           j == [i EXCEPT !.flow = f]
           parked == j.state = "waiting-children"
           ff == FailsFast(j.flow, row, reports)
           g == SettleFlow(j.flow, row1)
           a == [j EXCEPT !.flow = g]
           s == [a EXCEPT !.failedReason = TRUE]
           row2 == MarkPendingRowsCancelled(row1)
           ready == [j EXCEPT !.state = "waiting", !.runAt = now,
                              !.seq = seq + 1]
<1>1. i \in MemJob /\ i # None /\ i.flow # None /\ row \in Row
  BY HasType DEF RecordChildResults, TypeOK, JobMap, Has, Row
<1>2. i.flow \in FlowState
  BY <1>1 DEF MemJob, Opt
<1>3. /\ CountersMatch(i.flow, row)
      /\ i.state = "waiting-children" <=> i.flow.pending > 0
  BY <1>1, FlowInvIsFlowOK DEF FlowOK
<1>4. /\ f \in FlowState /\ f.pending <= i.flow.pending
      /\ CountersMatch(f, row1) /\ RowsKept(row, row1)
  BY <1>1, <1>2, <1>3, CountedType, ReportedCounts
<1>5. f # None /\ f.pending \in Nat /\ i.flow.pending \in Nat
  BY <1>2, <1>4, NoneAssumption DEF FlowState
<1>6. row1 \in Row
  BY <1>1, ReportedRowType
<1>7. i.state = "waiting-children"
  <2>1. WithStatus(row, "pending") # {}
    BY DEF RecordChildResults, AppliedKeys
  <2>2. Cardinality(WithStatus(row, "pending")) # 0
    BY <2>1, WithStatusFinite, FS_EmptySet
  <2>3. i.flow.pending # 0
    BY <1>1, <1>3, <2>2 DEF CountersMatch
  <2> QED
    BY <1>3, <1>5, <2>3
<1>8. \/ /\ Retire([jobs EXCEPT ![flowId] = Finish(s, "failed")],
                   [flowChildren EXCEPT ![flowId] = row2],
                   {flowId}, {flowId})
      \/ /\ j.flow.pending = 0
         /\ jobs' = [jobs EXCEPT ![flowId] = ready]
         /\ flowChildren' = [flowChildren EXCEPT ![flowId] = row1]
      \/ /\ ~parked \/ (~ff /\ j.flow.pending > 0)
         /\ jobs' = [jobs EXCEPT ![flowId] = j]
         /\ flowChildren' = [flowChildren EXCEPT ![flowId] = row1]
  BY DEF RecordChildResults
<1> HIDE DEF f, row1, row2
<1>9. j \in MemJob /\ j.flow = f /\ j.state = i.state
  <2> HIDE DEF i
  <2>1. f \in Opt(FlowState)
    BY <1>4 DEF Opt
  <2>2. j \in MemJob
    BY <1>1, <2>1, FieldTypes
  <2> QED
    BY <1>1, <2>2 DEF MemJob
<1>10. j # None
  BY <1>9, NoneAssumption
<1> HIDE DEF j
<1>11. CASE Retire([jobs EXCEPT ![flowId] = Finish(s, "failed")],
                   [flowChildren EXCEPT ![flowId] = row2],
                   {flowId}, {flowId})
  <2>1. /\ g # None /\ g.pending = 0 /\ CountersMatch(g, row2)
        /\ RowsKept(row1, row2)
    BY <1>4, <1>6, <1>9, SettledCounts DEF row2
  <2>2. g \in Opt(FlowState)
    BY <1>4, <1>9, SettleFlowType DEF Opt
  <2> HIDE DEF g
  <2>3. a \in MemJob /\ a.flow = g
    BY <1>9, <2>2, FieldTypes DEF MemJob
  <2> HIDE DEF a
  <2>4. s \in MemJob /\ s.flow = g
    <3>1. s \in MemJob
      BY <2>3, FieldTypes
    <3>2. s.flow = a.flow
      BY <2>3 DEF MemJob
    <3> QED
      BY <2>3, <3>1, <3>2
  <2> HIDE DEF s
  <2>5. RowsKept(row, row2)
    BY <1>4, <2>1 DEF RowsKept, RowKept
  <2>6. FlowKept(i, s)
    BY <1>5, <2>1, <2>4 DEF FlowKept
  <2> QED
    BY <1>1, <1>11, <2>1, <2>4, <2>5, <2>6, FinishFlow DEF TerminalStates
<1>12. CASE /\ j.flow.pending = 0
            /\ jobs' = [jobs EXCEPT ![flowId] = ready]
            /\ flowChildren' = [flowChildren EXCEPT ![flowId] = row1]
  <2>1. ready \in MemJob /\ ready.flow = f /\ ready.state = "waiting"
    <3>1. now \in Nat /\ seq + 1 \in Nat
      BY DEF TypeOK
    <3> QED
      BY <1>9, <3>1 DEF MemJob, JobStates
  <2>2. ready # None
    BY <2>1, NoneAssumption
  <2> HIDE DEF ready
  <2>3. FlowOK(ready, row1) /\ FlowKept(i, ready)
    BY <1>4, <1>5, <1>9, <1>12, <2>1, <2>2 DEF FlowOK, FlowKept
  <2>4. FlowEffect(i, row, ready, row1)
    BY <1>4, <2>2, <2>3 DEF FlowEffect
  <2> QED
    BY <1>12, <2>4, PutFlow
<1>13. CASE /\ ~parked \/ (~ff /\ j.flow.pending > 0)
            /\ jobs' = [jobs EXCEPT ![flowId] = j]
            /\ flowChildren' = [flowChildren EXCEPT ![flowId] = row1]
  <2>1. FlowOK(j, row1) /\ FlowKept(i, j)
    BY <1>4, <1>5, <1>7, <1>9, <1>10, <1>13 DEF FlowOK, FlowKept
  <2>2. FlowEffect(i, row, j, row1)
    BY <1>4, <1>10, <2>1 DEF FlowEffect
  <2> QED
    BY <1>13, <2>2, PutFlow
<1> QED
  BY <1>8, <1>11, <1>12, <1>13

(* Operations that rewrite rows without a status.                          *)
LEMMA RearmedFlow ==
    ASSUME TypeOK, TypeOK', FlowInv, jobs' = jobs,
           \A id \in JobIds, k \in ChildKeys :
               LET c == flowChildren[id][k]
                   d == flowChildren'[id][k]
               IN  /\ d = None <=> c = None
                   /\ c # None => /\ d.status = c.status
                                  /\ c.cascaded => d.cascaded
    PROVE  FlowStep
<1> SUFFICES ASSUME NEW id \in JobIds
             PROVE  FlowEffect(jobs[id], flowChildren[id], jobs[id],
                               flowChildren'[id])
  BY DEF FlowStep
<1>1. /\ jobs[id] \in Opt(MemJob) /\ FlowOK(jobs[id], flowChildren[id])
      /\ flowChildren[id] \in Row /\ flowChildren'[id] \in Row
  BY FlowInvIsFlowOK DEF TypeOK, Row
<1>2. CASE jobs[id] = None
  <2>1. flowChildren[id] = NoRows
    BY <1>1, <1>2 DEF FlowOK
  <2>2. flowChildren'[id] = NoRows
    BY <1>1, <2>1 DEF NoRows, Row
  <2> QED
    BY <1>2, <2>2 DEF FlowEffect
<1>3. CASE jobs[id] # None
  <2>1. /\ CountersMatch(jobs[id].flow, flowChildren'[id])
        /\ RowsKept(flowChildren[id], flowChildren'[id])
    BY <1>1, <1>3, SameStatuses DEF FlowOK
  <2>2. jobs[id].flow # None => jobs[id].flow.pending \in Nat
    BY <1>1, <1>3 DEF Opt, MemJob, FlowState
  <2> QED
    BY <1>1, <1>3, <2>1, <2>2 DEF FlowEffect, FlowOK, FlowKept
<1> QED
  BY <1>2, <1>3

(* flowSweepWork re-arms pendingSince only.                                *)
LEMMA FlowSweepWorkFlow ==
    ASSUME TypeOK, FlowInv, NEW page, FlowSweepWork(page)
    PROVE  FlowStep
<1>1. TypeOK' /\ jobs' = jobs
  BY FlowSweepWorkType DEF FlowSweepWork
<1>2. ASSUME NEW id \in JobIds, NEW k \in ChildKeys
      PROVE  LET c == flowChildren[id][k]
                 d == flowChildren'[id][k]
             IN  /\ d = None <=> c = None
                 /\ c # None => d.status = c.status /\ d.cascaded = c.cascaded
  <2>1. CASE [flowId |-> id, childKey |-> k] \in page
    <3>1. [flowId |-> id, childKey |-> k] \in Reconcilable
      BY <2>1 DEF FlowSweepWork
    <3>2. flowChildren[id][k] # None
      BY <3>1 DEF Reconcilable, WithStatus
    <3>3. flowChildren[id][k] \in MemFlowChild
      BY <3>2 DEF TypeOK, Opt
    <3>4. flowChildren'[id][k] =
              [flowChildren[id][k] EXCEPT !.pendingSince = now]
      BY <2>1 DEF FlowSweepWork
    <3>5. flowChildren'[id][k] \in MemFlowChild
              /\ flowChildren'[id][k].status = flowChildren[id][k].status
              /\ flowChildren'[id][k].cascaded = flowChildren[id][k].cascaded
      BY <3>3, <3>4 DEF MemFlowChild, TypeOK
    <3> QED
      BY <3>2, <3>5, NoneAssumption
  <2>2. CASE [flowId |-> id, childKey |-> k] \notin page
    BY <2>2 DEF FlowSweepWork
  <2> QED
    BY <2>1, <2>2
<1> QED
  BY <1>1, <1>2, RearmedFlow

(* markChildrenCascaded raises the cascaded flag only.                     *)
LEMMA MarkChildrenCascadedFlow ==
    ASSUME TypeOK, FlowInv, NEW flowId \in JobIds,
           NEW keys \in SUBSET ChildKeys, MarkChildrenCascaded(flowId, keys)
    PROVE  FlowStep
<1>1. TypeOK' /\ jobs' = jobs
  BY MarkChildrenCascadedType DEF MarkChildrenCascaded
<1>2. ASSUME NEW id \in JobIds, NEW k \in ChildKeys
      PROVE  LET c == flowChildren[id][k]
                 d == flowChildren'[id][k]
             IN  /\ d = None <=> c = None
                 /\ c # None => /\ d.status = c.status
                                /\ c.cascaded => d.cascaded
  <2>1. \/ flowChildren'[id][k] = flowChildren[id][k]
        \/ /\ flowChildren[id][k] # None
           /\ flowChildren'[id][k] =
                  [flowChildren[id][k] EXCEPT !.cascaded = TRUE]
    BY DEF MarkChildrenCascaded, Cascaded, TypeOK
  <2>2. CASE /\ flowChildren[id][k] # None
             /\ flowChildren'[id][k] =
                    [flowChildren[id][k] EXCEPT !.cascaded = TRUE]
    <3>1. flowChildren[id][k] \in MemFlowChild
      BY <2>2 DEF TypeOK, Opt
    <3>2. flowChildren'[id][k] \in MemFlowChild
              /\ flowChildren'[id][k].status = flowChildren[id][k].status
              /\ flowChildren'[id][k].cascaded = TRUE
      BY <2>2, <3>1 DEF MemFlowChild
    <3> QED
      BY <2>2, <3>2, NoneAssumption
  <2> QED
    BY <2>1, <2>2
<1> QED
  BY <1>1, <1>2, RearmedFlow

(* Every step of the driver has one of the effects.                        *)
LEMMA FlowEffects ==
    ASSUME TypeOK, FlowInv, [Next]_vars
    PROVE  FlowStep
<1>1. CASE UNCHANGED vars
  BY <1>1, CarriedFlows DEF vars
<1>2. CASE ProducerNext
  BY <1>2, ProducerFlow
<1>3. CASE WorkerNext
  BY <1>3, ClaimFlow, ClaimEmptyFlow, AckTerminalFlow, AckRetryFlow,
     AckFanOutFlow, ReleaseFlow, ExtendLocksFlow, RecoverStalledFlow
     DEF WorkerNext
<1>4. CASE FlowNext
  <2>1. ASSUME NEW flowId \in JobIds, NEW keys \in SUBSET ChildKeys,
               NEW reports \in [keys -> TerminalStates],
               RecordChildResults(flowId, reports)
        PROVE  FlowStep
    BY <2>1, RecordChildResultsFlow
  <2>2. ASSUME NEW entries, DeleteOutbox(entries) PROVE FlowStep
    BY <2>2, CarriedFlows DEF DeleteOutbox
  <2> QED
    BY <1>4, <2>1, <2>2, FlowSweepWorkFlow, MarkChildrenCascadedFlow
       DEF FlowNext
<1>5. CASE AdminNext
  <2>1. ASSUME NEW queue \in Queues, Pause(queue) \/ Resume(queue)
        PROVE  FlowStep
    BY <2>1, CarriedFlows DEF Pause, Resume
  <2>2. ASSUME NEW id \in JobIds, Remove(id)
        PROVE  FlowStep
    BY <2>2, WithoutFlow DEF Remove
  <2>3. ASSUME SweepHistory PROVE FlowStep
    <3>1. PICK victims :
              /\ jobs' = Without(jobs, victims, None)
              /\ flowChildren' = Without(flowChildren, victims, NoRows)
      BY <2>3 DEF SweepHistory
    <3> QED
      BY <3>1, WithoutFlow
  <2>4. ASSUME NEW k \in DedupeMapKeys, CancelByDedupe(k)
        PROVE  FlowStep
    <3>1. dedupes[k].jobId \in JobIds
      BY <2>4 DEF CancelByDedupe, TypeOK, DedupeEntry, Opt
    <3> QED
      BY <2>4, <3>1, CancelFlow DEF CancelByDedupe
  <2> QED
    BY <1>5, <2>1, <2>2, <2>3, <2>4, CancelFlow, RetryFlow, PromoteFlow
       DEF AdminNext
<1>6. CASE Tick
  BY <1>6, CarriedFlows DEF Tick
<1> QED
  BY <1>1, <1>2, <1>3, <1>4, <1>5, <1>6 DEF Next

-----------------------------------------------------------------------------
(* Theorems                                                                *)

(* No job, no flow.                                                        *)
LEMMA FlowInit == Init => FlowInv
BY DEF Init, FlowInv, Has

(* FlowInv is inductive relative to TypeOK.                                *)
LEMMA FlowNextPreserves == TypeOK /\ FlowInv /\ [Next]_vars => FlowInv'
<1> SUFFICES ASSUME TypeOK, FlowInv, [Next]_vars PROVE FlowInv'
  OBVIOUS
<1>1. \A id \in JobIds : FlowOK(jobs'[id], flowChildren'[id])
  BY FlowEffects DEF FlowStep, FlowEffect, FlowOK
<1> QED
  BY <1>1 DEF FlowInv, FlowOK, Has

(* For any set of child keys, any batches of reports in any order and any  *)
(* number of sweepers and operators: the counters of a parent are the      *)
(* statuses of its rows, and the parent is parked exactly while a row is   *)
(* pending, so it is neither stuck nor resumed too early.                  *)
THEOREM FlowsCounted == Spec => []FlowInv
<1>1. Init => TypeOK /\ FlowInv
  BY TypeInit, FlowInit
<1>2. TypeOK /\ FlowInv /\ [Next]_vars => TypeOK' /\ FlowInv'
  BY TypeStep, FlowNextPreserves
<1> QED
  BY <1>1, <1>2, PTL DEF Spec

(* A settled row of a parent that lives on is as it was.                   *)
LEMMA RowsFinalOnStep ==
    TypeOK /\ FlowInv /\ [Next]_vars => RowsFinalStep
<1> SUFFICES ASSUME TypeOK, FlowInv, [Next]_vars,
                    NEW id \in JobIds, NEW k \in ChildKeys,
                    flowChildren[id][k] # None,
                    flowChildren[id][k].status # "pending", Has(jobs', id)
             PROVE  /\ flowChildren'[id][k] # None
                    /\ flowChildren'[id][k].status = flowChildren[id][k].status
                    /\ flowChildren[id][k].cascaded =>
                           flowChildren'[id][k].cascaded
  BY DEF RowsFinalStep
<1>1. FlowEffect(jobs[id], flowChildren[id], jobs'[id], flowChildren'[id])
  BY FlowEffects DEF FlowStep
<1>2. RowKept(flowChildren[id][k], flowChildren'[id][k])
  BY <1>1 DEF FlowEffect, RowsKept, Has
<1> QED
  BY <1>2 DEF RowKept

(* Reports that are late, duplicated or reordered never change an outcome  *)
(* a parent has recorded, whoever delivers them.                           *)
THEOREM RowsAreFinal == Spec => RowsFinal
<1>1. Spec => [](TypeOK /\ FlowInv)
  BY TypeCorrect, FlowsCounted, PTL
<1>2. TypeOK /\ FlowInv /\ [Next]_vars => [RowsFinalStep]_vars
  BY RowsFinalOnStep
<1> QED
  BY <1>1, <1>2, PTL DEF Spec, RowsFinal

(* A parent that left waiting-children does not enter it again.            *)
LEMMA FansOutOnceOnStep ==
    TypeOK /\ FlowInv /\ [Next]_vars => FansOutOnceStep
<1> SUFFICES ASSUME TypeOK, FlowInv, [Next]_vars,
                    NEW id \in JobIds,
                    Has(jobs, id), jobs[id].flow # None,
                    jobs[id].state # "waiting-children", Has(jobs', id)
             PROVE  /\ jobs'[id].flow # None
                    /\ jobs'[id].state # "waiting-children"
  BY DEF FansOutOnceStep
<1>1. FlowOK(jobs[id], flowChildren[id])
  BY FlowInvIsFlowOK
<1>2. FlowEffect(jobs[id], flowChildren[id], jobs'[id], flowChildren'[id])
  BY FlowEffects DEF FlowStep
<1>3. jobs'[id].flow # None /\ jobs'[id].flow.pending <= jobs[id].flow.pending
  BY <1>2 DEF FlowEffect, FlowKept, Has
<1>4. ~(jobs[id].flow.pending > 0)
  BY <1>1 DEF FlowOK, Has
<1>5. jobs[id].flow.pending \in Nat /\ jobs'[id].flow.pending \in Nat
  <2>1. jobs[id] \in MemJob
    BY HasType DEF TypeOK, JobMap
  <2>2. TypeOK'
    BY TypeStep
  <2>3. jobs'[id] \in MemJob
    BY <2>2 DEF TypeOK, Opt, Has
  <2> QED
    BY <1>3, <2>1, <2>3 DEF MemJob, FlowState, Opt
<1>6. jobs'[id].state # "waiting-children"
  BY <1>2, <1>3, <1>4, <1>5 DEF FlowEffect, FlowOK, Has
<1> QED
  BY <1>3, <1>6

(* "it can never fan out twice": neither a second fan-out nor a retry      *)
(* makes a parent wait for children it has already waited for.             *)
THEOREM FlowsFanOutOnce == Spec => FansOutOnce
<1>1. Spec => [](TypeOK /\ FlowInv)
  BY TypeCorrect, FlowsCounted, PTL
<1>2. TypeOK /\ FlowInv /\ [Next]_vars => [FansOutOnceStep]_vars
  BY FansOutOnceOnStep
<1> QED
  BY <1>1, <1>2, PTL DEF Spec, FansOutOnce

-----------------------------------------------------------------------------
(* What an operation of MemoryJobStore tells others, and what its          *)
(* retention leaves, proved for every value of the constants: takers learn *)
(* of every job that became ready (WakeOnReady), a parent of every child   *)
(* that ended, once (ReportWithTransition); retention forgets no cancel    *)
(* that a child's store is still owed (CascadesKept), and leaves no more   *)
(* records than the policy counts (KeepCountHolds).                        *)
(*                                                                         *)
(* The argument: each operation is classified once.  It announces what it  *)
(* makes ready (Announced), and it ends no job, inserts one, drops         *)
(* records, delivers reports, or retires the jobs it ended (Effect).       *)

\* Record j makes nobody ready earlier than record i did.
ReadyKept(i, j) ==
    \/ j = None
    \/ j.state \notin {"waiting", "delayed"}
    \/ /\ i # None /\ i.queue = j.queue /\ i.runAt = j.runAt
       /\ i.state \in {"waiting", "delayed"}
       /\ j.state = i.state \/ (j.state = "waiting" /\ i.runAt <= now)

Announced ==
    \A id \in JobIds :
        \/ jobs'[id] # None /\ jobs'[id].queue \in woken'
        \/ ReadyKept(jobs[id], jobs'[id])

\* Record j is of the same job as record i.
Akin(j, i) == j.parent = i.parent /\ j.name = i.name

\* Record j may take the place of record i.
SameJob(i, j) == i # None /\ j # None /\ Akin(j, i)

\* No job ends or disappears, and who ended is left alone.
QuietStep ==
    /\ UNCHANGED <<outbox, outboxSeq>>
    /\ \A id \in JobIds :
          \/ jobs'[id] = jobs[id]
          \/ SameJob(jobs[id], jobs'[id]) /\ ~Terminal(jobs'[id])

InsertStep ==
    /\ UNCHANGED <<outbox, outboxSeq>>
    /\ \E r \in Requests, id \in JobIds :
          /\ jobs[id] = None
          /\ r.id # None => r.id = id
          /\ jobs' = [jobs EXCEPT ![id] = NewJob(r)]

DropStep ==
    /\ UNCHANGED <<outbox, outboxSeq>>
    /\ \A id \in JobIds :
          \/ jobs'[id] = jobs[id]
          \/ /\ jobs'[id] = None
             /\ (\E k \in ChildKeys : Owed(id, k)) => Remove(id)
             /\ Terminal(jobs[id]) \/ Remove(id)

DeliverStep ==
    jobs' = jobs /\ outbox' \subseteq outbox /\ outboxSeq' = outboxSeq

\* The jobs `done` end, others go on, and what is owed stays owed.
Ended(js, rs, done, id) ==
    /\ id \in done =>
          /\ SameJob(jobs[id], js[id])
          /\ Terminal(js[id]) /\ ~Terminal(jobs[id])
          /\ js[id].finishedAt = now
          /\ EndsAs(id, js[id].state, js[id].exit)
    /\ id \notin done =>
          \/ js[id] = jobs[id]
          \/ SameJob(jobs[id], js[id]) /\ ~Terminal(js[id])
    /\ /\ js[id] # None /\ Terminal(js[id])
       /\ \E k \in ChildKeys : Owed(id, k)
       => OwesCascades(rs[id])

RetireStep ==
    \E js, rs, done, kept :
        /\ done \subseteq JobIds /\ kept \subseteq done
        /\ \A id \in done : js[id].state # "failed" => id \in kept
        /\ \A id \in JobIds : Ended(js, rs, done, id)
        /\ Retire(js, rs, done, kept)

\* Job id is retired in this state, with or without an exit.
Finished(id, state, exit) ==
    \E js, rs, done, kept :
        /\ Retire(js, rs, done, kept) /\ id \in done
        /\ Akin(js[id], jobs[id])
        /\ js[id].state = state /\ js[id].exit = exit

Effect ==
    /\ Announced
    /\ QuietStep \/ InsertStep \/ DropStep \/ DeliverStep \/ RetireStep

-----------------------------------------------------------------------------
(* Rows and what they owe                                                  *)

(* Who is not parked awaits no child, so what it owes are cancels.         *)
LEMMA SettledOwes ==
    ASSUME TypeOK, FlowInv, NEW id \in JobIds, jobs[id] # None,
           jobs[id].state # "waiting-children",
           NEW k \in ChildKeys, Owed(id, k)
    PROVE  OwesCascades(flowChildren[id])
<1>1. WithStatus(flowChildren[id], "pending") = {}
  <2>1. /\ CountersMatch(jobs[id].flow, flowChildren[id])
        /\ ~(jobs[id].flow # None /\ jobs[id].flow.pending > 0)
    BY FlowInvIsFlowOK DEF FlowOK
  <2>2. CASE jobs[id].flow = None
    BY <2>1, <2>2 DEF CountersMatch, NoRows, WithStatus
  <2>3. CASE jobs[id].flow # None
    <3>1. jobs[id].flow.pending \in Nat
      <4>1. jobs[id] \in MemJob
        BY DEF TypeOK, Opt
      <4> QED
        BY <2>3, <4>1 DEF MemJob, FlowState, Opt
    <3>2. Cardinality(WithStatus(flowChildren[id], "pending")) = 0
      BY <2>1, <2>3, <3>1 DEF CountersMatch
    <3> QED
      BY <3>2, WithStatusFinite, FS_EmptySet
  <2> QED
    BY <2>2, <2>3
<1> QED
  BY <1>1 DEF Owed, OwesCascades

(* Marking turns what is awaited into what is owed.                        *)
LEMMA MarkOwes ==
    ASSUME NEW row \in Row, NEW k \in ChildKeys,
           \/ k \in WithStatus(row, "pending")
           \/ k \in WithStatus(row, "cancelled") /\ ~row[k].cascaded
    PROVE  OwesCascades(MarkPendingRowsCancelled(row))
<1> DEFINE row2 == MarkPendingRowsCancelled(row)
<1>1. CASE k \in WithStatus(row, "pending")
  <2>1. row[k] \in MemFlowChild
    BY <1>1 DEF Row, Opt, WithStatus
  <2>2. row2[k] = [row[k] EXCEPT !.status = "cancelled", !.cascaded = FALSE]
    BY <1>1 DEF MarkPendingRowsCancelled
  <2>3. row2[k] \in MemFlowChild /\ row2[k].status = "cancelled"
            /\ row2[k].cascaded = FALSE
    BY <2>1, <2>2 DEF MemFlowChild, TerminalStates
  <2>4. row2[k] # None
    BY <2>3, NoneAssumption
  <2> QED
    BY <2>3, <2>4 DEF OwesCascades, WithStatus
<1>2. CASE k \in WithStatus(row, "cancelled") /\ ~row[k].cascaded
  <2>1. k \notin WithStatus(row, "pending")
    BY <1>2 DEF WithStatus
  <2>2. row2[k] = row[k]
    BY <2>1 DEF MarkPendingRowsCancelled
  <2> QED
    BY <1>2, <2>2 DEF OwesCascades, WithStatus
<1> QED
  BY <1>1, <1>2

-----------------------------------------------------------------------------
(* Common shapes of operations                                             *)

LEMMA AkinSame ==
    ASSUME NEW i, NEW j \in MemJob, i # None, Akin(j, i)
    PROVE  SameJob(i, j)
BY NoneAssumption DEF SameJob

(* Who is pending has no result.                                           *)
LEMMA PendingExit ==
    ASSUME TypeOK, ResultInv, NEW id \in JobIds, jobs[id] # None,
           ~Terminal(jobs[id])
    PROVE  jobs[id].exit = FALSE
<1>1. jobs[id] \in MemJob
  BY DEF TypeOK, Opt
<1>2. jobs[id].exit \in BOOLEAN
  BY <1>1 DEF MemJob
<1> QED
  BY <1>2 DEF ResultInv, Has, Terminal, TerminalStates

(* One record is rewritten, and its job does not end.                      *)
LEMMA PutEffect ==
    ASSUME TypeOK, NEW id \in JobIds, NEW j \in MemJob, jobs[id] # None,
           SameJob(jobs[id], j), ~Terminal(j),
           jobs' = [jobs EXCEPT ![id] = j], UNCHANGED <<outbox, outboxSeq>>,
           j.queue \in woken' \/ ReadyKept(jobs[id], j)
    PROVE  Effect /\ ~EndsNow(id)
<1>1. j # None
  BY NoneAssumption
<1>2. \A i \in JobIds : jobs'[i] = IF i = id THEN j ELSE jobs[i]
  BY DEF TypeOK
<1>3. \A i \in JobIds : ReadyKept(jobs[i], jobs[i])
  BY DEF ReadyKept
<1>4. Announced
  BY <1>1, <1>2, <1>3 DEF Announced
<1>5. QuietStep
  BY <1>2 DEF QuietStep
<1> QED
  BY <1>1, <1>2, <1>4, <1>5 DEF Effect, EndsNow, Has

(* Retention drops records that had ended and owed nothing.                *)
LEMMA RetireDrops ==
    ASSUME NEW js, NEW rs, NEW done, NEW kept \in SUBSET JobIds,
           Retire(js, rs, done, kept),
           \A d \in kept : js[d] # None /\ Terminal(js[d]),
           NEW id \in JobIds, jobs'[id] # js[id]
    PROVE  jobs'[id] = None /\ Terminal(js[id]) /\ ~OwesCascades(rs[id])
<1>1. PICK turn \in Turns(kept), drops \in [kept -> SUBSET JobIds] :
          /\ \A d \in kept :
                drops[d] = KeepVictims(AtTurn(js, turn, drops, d), rs, d)
          /\ jobs' = Without(js, UNION {drops[d] : d \in kept}, None)
  BY DEF Retire
<1>2. PICK d \in kept : id \in drops[d]
  BY <1>1 DEF Without
<1> DEFINE at == AtTurn(js, turn, drops, d)
<1>3. /\ at[id] # None /\ at[id].state = at[d].state
      /\ ~OwesCascades(rs[id])
  BY <1>1, <1>2 DEF KeepVictims, Peers, Has
<1>4. at[d] = js[d] /\ (at[id] # None => at[id] = js[id])
  BY DEF AtTurn, Without
<1>5. jobs'[id] = None
  BY <1>1, <1>2 DEF Without
<1> HIDE DEF at
<1> QED
  BY <1>3, <1>4, <1>5 DEF Terminal

(* What retirement leaves of the records makes nobody ready.               *)
LEMMA RetireAnnounced ==
    ASSUME NEW js, NEW rs, NEW done, NEW kept, Retire(js, rs, done, kept),
           \A id \in JobIds :
               \/ js[id] # None /\ js[id].queue \in woken'
               \/ ReadyKept(jobs[id], js[id])
    PROVE  Announced
<1>1. \A id \in JobIds : jobs'[id] = js[id] \/ jobs'[id] = None
  BY DEF Retire, Without
<1> QED
  BY <1>1 DEF Announced, ReadyKept

(* Who ended already and is not touched owes what its rows say.            *)
LEMMA UntouchedEnded ==
    ASSUME TypeOK, FlowInv, NEW js, NEW rs, NEW done, NEW id \in JobIds,
           id \notin done, js[id] = jobs[id], rs[id] = flowChildren[id]
    PROVE  Ended(js, rs, done, id)
<1>1. ASSUME js[id] # None, Terminal(js[id]), NEW k \in ChildKeys, Owed(id, k)
      PROVE  OwesCascades(rs[id])
  <2>1. jobs[id].state # "waiting-children"
    BY <1>1 DEF Terminal, TerminalStates
  <2> QED
    BY <1>1, <2>1, SettledOwes
<1> QED
  BY <1>1 DEF Ended

(* One job ends, and its rows owe what they owed.                          *)
LEMMA FinishEffect ==
    ASSUME TypeOK, FlowInv, NEW id \in JobIds, NEW j \in MemJob, NEW row,
           NEW state \in TerminalStates, jobs[id] # None,
           ~Terminal(jobs[id]), Akin(j, jobs[id]),
           \A k \in ChildKeys : Owed(id, k) => OwesCascades(row),
           EndsAs(id, state, j.exit),
           Retire([jobs EXCEPT ![id] = Finish(j, state)],
                  [flowChildren EXCEPT ![id] = row], {id}, {id})
    PROVE  Effect /\ Finished(id, state, j.exit)
<1> DEFINE c == Finish(j, state)
           js == [jobs EXCEPT ![id] = c]
           rs == [flowChildren EXCEPT ![id] = row]
<1>1. /\ c \in MemJob /\ c # None /\ c.state = state /\ Akin(c, j)
      /\ c.finishedAt = now /\ c.exit = j.exit
  <2>1. c \in MemJob
    BY FinishType DEF TypeOK
  <2>2. Akin(c, j) /\ c.finishedAt = now /\ c.exit = j.exit
    BY DEF Finish, RecordAttempt, ClearLock, Akin, MemJob
  <2> QED
    BY <2>1, <2>2, FinishState, NoneAssumption
<1> HIDE DEF c
<1>2. \A i \in JobIds : /\ js[i] = IF i = id THEN c ELSE jobs[i]
                        /\ rs[i] = IF i = id THEN row ELSE flowChildren[i]
  BY DEF TypeOK
<1>3. Retire(js, rs, {id}, {id})
  BY DEF c
<1> HIDE DEF js, rs
<1>4. ASSUME NEW i \in JobIds PROVE Ended(js, rs, {id}, i)
  <2>1. CASE i = id
    BY <1>1, <1>2, <2>1 DEF Ended, Akin, SameJob, Terminal
  <2>2. CASE i # id
    BY <1>2, <2>2, UntouchedEnded
  <2> QED
    BY <2>1, <2>2
<1>5. RetireStep
  BY <1>3, <1>4 DEF RetireStep
<1>6. \A i \in JobIds : ReadyKept(jobs[i], js[i])
  BY <1>1, <1>2 DEF ReadyKept, TerminalStates
<1>7. Announced
  BY <1>3, <1>6, RetireAnnounced
<1>8. Finished(id, state, j.exit)
  <2>1. Akin(js[id], jobs[id]) /\ js[id].state = state /\ js[id].exit = j.exit
    BY <1>1, <1>2 DEF Akin
  <2> QED
    BY <1>3, <2>1 DEF Finished
<1> QED
  BY <1>5, <1>7, <1>8 DEF Effect

(* markCancelled                                                           *)
LEMMA MarkCancelledEffect ==
    ASSUME TypeOK, FlowInv, NEW id \in JobIds, NEW j \in MemJob,
           jobs[id] # None, ~Terminal(jobs[id]),
           Akin(j, jobs[id]), j.flow = jobs[id].flow,
           j.state = "waiting-children" <=>
               jobs[id].state = "waiting-children",
           EndsAs(id, "cancelled", j.exit),
           MarkCancelled(id, j)
    PROVE  Effect /\ Finished(id, "cancelled", j.exit)
<1> DEFINE row == flowChildren[id]
           parked == j.state = "waiting-children"
           f == IF parked THEN SettleFlow(j.flow, row) ELSE j.flow
           row2 == IF parked THEN MarkPendingRowsCancelled(row) ELSE row
           c == [j EXCEPT !.flow = f]
<1>1. row \in Row /\ j.flow \in Opt(FlowState)
  BY DEF TypeOK, Row, MemJob
<1>2. Retire([jobs EXCEPT ![id] = Finish(c, "cancelled")],
             [flowChildren EXCEPT ![id] = row2], {id}, {id})
  BY DEF MarkCancelled
<1>3. f \in Opt(FlowState)
  BY <1>1, SettleFlowType
<1>4. ASSUME NEW k \in ChildKeys, Owed(id, k)
      PROVE  OwesCascades(row2)
  <2>1. CASE parked
    BY <1>1, <1>4, <2>1, MarkOwes DEF Owed
  <2>2. CASE ~parked
    BY <1>4, <2>2, SettledOwes
  <2> QED
    BY <2>1, <2>2
<1> HIDE DEF f, row2
<1>5. c \in MemJob /\ Akin(c, j) /\ c.exit = j.exit
  <2>1. c \in MemJob
    BY <1>3, FieldTypes
  <2> QED
    BY <2>1 DEF Akin, MemJob
<1> HIDE DEF c
<1> QED
  BY <1>2, <1>4, <1>5, FinishEffect DEF TerminalStates, Akin

-----------------------------------------------------------------------------
(* The effect of each operation                                            *)

(* enqueue signals the queue of what it inserts or rewrites.               *)
LEMMA ProducerEffect ==
    ASSUME TypeOK, ProducerNext
    PROVE  Effect
<1>1. ASSUME NEW r \in Requests, NEW id \in JobIds, Enqueue(r, id)
      PROVE  Effect
  <2>1. /\ jobs[id] = None /\ jobs' = [jobs EXCEPT ![id] = NewJob(r)]
        /\ r.id # None => r.id = id
        /\ woken' = {r.queue} /\ UNCHANGED <<outbox, outboxSeq>>
    BY <1>1 DEF Enqueue, Has, IdTaken, SignalWake
  <2>2. NewJob(r) # None /\ NewJob(r).queue = r.queue
    BY NewJobType, ConstantsAssumption, NoneAssumption DEF TypeOK, NewJob
  <2>3. \A i \in JobIds : jobs'[i] = IF i = id THEN NewJob(r) ELSE jobs[i]
    BY <2>1 DEF TypeOK
  <2>4. Announced
    BY <2>1, <2>2, <2>3 DEF Announced, ReadyKept
  <2> QED
    BY <2>1, <2>4 DEF Effect, InsertStep
<1>2. ASSUME NEW r \in Requests, EnqueueReplace(r)
      PROVE  Effect
  <2> DEFINE id == EntryOf(r).jobId
             j == [jobs[id] EXCEPT
                     !.payload = r.payload, !.priority = r.priority,
                     !.attemptsMax = r.attemptsMax, !.keep = r.keep,
                     !.runAt = now + r.delayMs]
  <2>1. /\ jobs' = [jobs EXCEPT ![id] = j] /\ Has(jobs, id)
        /\ woken' = {jobs[id].queue} /\ UNCHANGED <<outbox, outboxSeq>>
    BY <1>2 DEF EnqueueReplace, TypeOK, Replaces, SignalWake
  <2>2. id \in JobIds
    <3>1. r \in EnqueueRequest
      BY ConstantsAssumption
    <3>2. r.dedupe # None /\ EntryOf(r) = dedupes[KeyOf(r)]
              /\ dedupes[KeyOf(r)] # None
      BY <1>2 DEF EnqueueReplace, Replaces, EntryOf
    <3>3. KeyOf(r) \in DedupeMapKeys
      BY <3>1, <3>2 DEF KeyOf, DedupeMapKeys, EnqueueRequest, DedupePolicy, Opt
    <3> QED
      BY <3>2, <3>3 DEF TypeOK, DedupeEntry, Opt
  <2> HIDE DEF id
  <2>3. jobs[id] \in MemJob
    BY <2>1, <2>2, HasType DEF TypeOK, JobMap
  <2>4. /\ r.payload \in Payloads /\ r.priority \in Int
        /\ r.attemptsMax \in Nat /\ r.keep \in Opt(KeepPolicy)
        /\ now + r.delayMs \in Nat
    BY <1>2, ConstantsAssumption DEF EnqueueRequest, TypeOK
  <2>5. /\ j \in MemJob /\ Akin(j, jobs[id])
        /\ j.state = jobs[id].state /\ j.queue = jobs[id].queue
    BY <2>3, <2>4 DEF MemJob, Akin
  <2> HIDE DEF j
  <2>6. jobs[id].state = "delayed"
    BY <1>2 DEF EnqueueReplace, Replaces, EntryOf, id
  <2>7. j # None
    BY <2>5, NoneAssumption
  <2> QED
    BY <2>1, <2>2, <2>5, <2>6, <2>7, PutEffect
       DEF Has, Terminal, TerminalStates, SameJob
<1>3. ASSUME NEW r \in Requests, EnqueueExtend(r)
      PROVE  Effect
  BY <1>3 DEF EnqueueExtend, Effect, Announced, ReadyKept, QuietStep
<1> QED
  BY <1>1, <1>2, <1>3 DEF ProducerNext

(* promoteDue makes no job ready that was not due.                         *)
LEMMA PromoteDueEffect ==
    ASSUME TypeOK, NEW id \in JobIds
    PROVE  LET j == PromoteDue(jobs)[id]
           IN  /\ ReadyKept(jobs[id], j)
               /\ \/ j = jobs[id]
                  \/ SameJob(jobs[id], j) /\ ~Terminal(j)
<1>1. CASE Has(jobs, id) /\ jobs[id].state = "delayed" /\ jobs[id].runAt <= now
  <2> DEFINE j == [jobs[id] EXCEPT !.state = "waiting"]
  <2>1. jobs[id] \in MemJob
    BY <1>1, HasType DEF TypeOK, JobMap
  <2>2. j \in MemJob
    BY <2>1, FieldTypes DEF JobStates
  <2>3. PromoteDue(jobs)[id] = j
    BY <1>1 DEF PromoteDue
  <2>4. /\ j.state = "waiting" /\ j.queue = jobs[id].queue
        /\ j.runAt = jobs[id].runAt /\ Akin(j, jobs[id])
    BY <2>1 DEF Akin, MemJob
  <2>5. j # None
    BY <2>2, NoneAssumption
  <2> HIDE DEF j
  <2> QED
    BY <1>1, <2>3, <2>4, <2>5
       DEF ReadyKept, Akin, SameJob, Has, Terminal, TerminalStates
<1>2. CASE ~(Has(jobs, id) /\ jobs[id].state = "delayed"
                 /\ jobs[id].runAt <= now)
  BY <1>2 DEF PromoteDue, ReadyKept
<1> QED
  BY <1>1, <1>2

(* claim                                                                   *)
LEMMA ClaimEffect ==
    ASSUME TypeOK, NEW queue, NEW names, NEW lockMs \in LockDurations,
           Claim(queue, names, lockMs)
    PROVE  Effect
<1> DEFINE js == PromoteDue(jobs)
           token == lastToken + 1
<1>1. js \in JobMap
  BY PromoteDueType DEF TypeOK, JobMap
<1>2. PICK best \in Claimable(js, queue, names) :
          jobs' = [js EXCEPT ![best] = Claimed(js[best], token, lockMs)]
  BY DEF Claim
<1>3. \A id \in JobIds :
          /\ ReadyKept(jobs[id], js[id])
          /\ \/ js[id] = jobs[id]
             \/ SameJob(jobs[id], js[id]) /\ ~Terminal(js[id])
  BY PromoteDueEffect
<1>4. token \in Nat /\ lockMs \in Nat
  BY ConstantsAssumption DEF TypeOK
<1> HIDE DEF js, token
<1>5. /\ best \in JobIds /\ js[best] \in MemJob /\ js[best] # None
      /\ js[best].state = "waiting"
  <2>1. best \in JobIds /\ Has(js, best) /\ js[best].state = "waiting"
    BY <1>2 DEF Claimable
  <2> QED
    BY <1>1, <2>1, HasType DEF Has
<1>6. LET j == Claimed(js[best], token, lockMs)
      IN  j # None /\ Akin(j, js[best]) /\ j.state = "active"
  <2>1. Claimed(js[best], token, lockMs) # None
    BY <1>4, <1>5, ClaimedType, NoneAssumption DEF TypeOK
  <2> QED
    BY <1>5, <2>1 DEF Claimed, Akin, MemJob
<1>7. \A id \in JobIds : jobs'[id] =
          IF id = best THEN Claimed(js[best], token, lockMs) ELSE js[id]
  BY <1>1, <1>2 DEF JobMap
<1>8. UNCHANGED <<outbox, outboxSeq>>
  BY DEF Claim
<1>9. Announced
  BY <1>3, <1>6, <1>7 DEF Announced, ReadyKept
<1>10. SameJob(jobs[best], jobs'[best]) /\ ~Terminal(jobs'[best])
  BY <1>3, <1>5, <1>6, <1>7 DEF Akin, SameJob, Terminal, TerminalStates
<1>11. QuietStep
  BY <1>3, <1>7, <1>8, <1>10 DEF QuietStep
<1> QED
  BY <1>9, <1>11 DEF Effect

(* An empty claim only promotes.                                           *)
LEMMA ClaimEmptyEffect ==
    ASSUME TypeOK, NEW queue, NEW names, ClaimEmpty(queue, names)
    PROVE  Effect
<1>1. jobs' = PromoteDue(jobs) /\ UNCHANGED <<outbox, outboxSeq>>
  BY DEF ClaimEmpty
<1>2. Announced /\ QuietStep
  BY <1>1, PromoteDueEffect DEF Announced, QuietStep
<1> QED
  BY <1>2 DEF Effect

(* What a held record is.                                                  *)
LEMMA HeldRecord ==
    ASSUME TypeOK, NEW id \in JobIds, NEW token, Held(id, token)
    PROVE  /\ jobs[id] \in MemJob /\ jobs[id] # None
           /\ jobs[id].state = "active" /\ ~Terminal(jobs[id])
BY HasType DEF Held, TypeOK, JobMap, Has, Terminal, TerminalStates

(* extendLocks                                                             *)
LEMMA ExtendLocksEffect ==
    ASSUME TypeOK, NEW id \in JobIds, NEW token,
           NEW lockMs \in LockDurations, ExtendLocks(id, token, lockMs)
    PROVE  Effect
<1> DEFINE t == now + lockMs
           j == [jobs[id] EXCEPT !.lockExpiresAt = t]
<1>1. jobs[id] \in MemJob /\ jobs[id] # None /\ jobs[id].state = "active"
  BY HeldRecord DEF ExtendLocks
<1>2. t \in Opt(Nat)
  BY ConstantsAssumption DEF TypeOK, Opt
<1>3. jobs' = [jobs EXCEPT ![id] = j] /\ UNCHANGED <<outbox, outboxSeq>>
  BY DEF ExtendLocks
<1> HIDE DEF t
<1>4. j \in MemJob
  BY <1>1, <1>2, FieldTypes
<1>5. Akin(j, jobs[id]) /\ j.state = "active"
  BY <1>1 DEF Akin, MemJob
<1> HIDE DEF j
<1>6. ~Terminal(j) /\ ReadyKept(jobs[id], j)
  BY <1>5 DEF Terminal, TerminalStates, ReadyKept
<1> QED
  BY <1>1, <1>3, <1>4, <1>5, <1>6, AkinSame, PutEffect DEF Akin

(* What clearLock and recordAttempt leave alone.                           *)
LEMMA UnlockedRecord ==
    ASSUME NEW j \in MemJob
    PROVE  /\ ClearLock(j) \in MemJob
           /\ Akin(ClearLock(j), j) /\ ClearLock(j).queue = j.queue
           /\ ClearLock(j).state = j.state /\ ClearLock(j).flow = j.flow
           /\ ClearLock(j).exit = j.exit
           /\ ClearLock(j).cancelRequested = j.cancelRequested
           /\ \A o \in AttemptOutcomes :
                 /\ RecordAttempt(j, o) \in MemJob
                 /\ Akin(RecordAttempt(j, o), j)
                 /\ RecordAttempt(j, o).queue = j.queue
                 /\ RecordAttempt(j, o).state = j.state
                 /\ RecordAttempt(j, o).flow = j.flow
                 /\ RecordAttempt(j, o).exit = j.exit
                 /\ RecordAttempt(j, o).cancelRequested = j.cancelRequested
<1>1. ClearLock(j) \in MemJob
          /\ \A o \in AttemptOutcomes : RecordAttempt(j, o) \in MemJob
  BY ClearLockType, RecordAttemptType
<1> QED
  BY <1>1 DEF ClearLock, RecordAttempt, Akin, MemJob

(* release                                                                 *)
LEMMA ReleaseEffect ==
    ASSUME TypeOK, FlowInv, ResultInv, NEW id \in JobIds,
           NEW token \in Tokens, Release(id, token)
    PROVE  Effect /\ (EndsNow(id) => Finished(id, "cancelled", FALSE))
<1>1. /\ jobs[id] \in MemJob /\ jobs[id] # None
      /\ jobs[id].state = "active" /\ ~Terminal(jobs[id])
  BY HeldRecord DEF Release
<1>2. CASE jobs[id].cancelRequested
  <2>1. EndsAs(id, "cancelled", jobs[id].exit) /\ jobs[id].exit = FALSE
    BY <1>1, <1>2, PendingExit DEF EndsAs, CancelledNow
  <2> QED
    BY <1>1, <1>2, <2>1, MarkCancelledEffect DEF Release, Akin
<1>3. CASE ~jobs[id].cancelRequested
  <2> DEFINE c == ClearLock(jobs[id])
             j == [c EXCEPT !.state = "waiting"]
  <2>1. /\ c \in MemJob /\ Akin(c, jobs[id])
        /\ c.queue = jobs[id].queue
    BY <1>1, UnlockedRecord
  <2>2. /\ jobs' = [jobs EXCEPT ![id] = j] /\ UNCHANGED <<outbox, outboxSeq>>
        /\ woken' = {jobs[id].queue}
    BY <1>3 DEF Release, SignalWake
  <2> HIDE DEF c
  <2>3. j \in MemJob
    BY <2>1, FieldTypes DEF JobStates
  <2>4. Akin(j, c) /\ j.queue = c.queue /\ j.state = "waiting"
    BY <2>1 DEF Akin, MemJob
  <2> HIDE DEF j
  <2>5. ~Terminal(j)
    BY <2>4 DEF Terminal, TerminalStates
  <2> QED
    BY <1>1, <2>1, <2>2, <2>3, <2>4, <2>5, AkinSame, PutEffect DEF Akin
<1> QED
  BY <1>2, <1>3

(* What recoverStalled makes of an active job.                             *)
LEMMA RecoveredRecord ==
    ASSUME TypeOK, NEW j \in MemJob, j.state = "active"
    PROVE  LET i == RecoveredJob(j)
           IN  /\ i # None /\ Akin(i, j) /\ i.queue = j.queue
               /\ Terminal(i) \/ i.state = "waiting"
               /\ Terminal(i) =>
                     /\ i.finishedAt = now /\ i.exit = j.exit
                     /\ i.state = IF j.cancelRequested THEN "cancelled"
                                  ELSE "failed"
<1> DEFINE c == RecordAttempt(ClearLock(j), "stalled")
<1>1. c \in MemJob /\ Akin(c, j) /\ c.queue = j.queue /\ c.exit = j.exit
  BY UnlockedRecord DEF AttemptOutcomes, Akin
<1>2. /\ Akin(Finish(j, "cancelled"), j)
      /\ Finish(j, "cancelled").finishedAt = now
      /\ Finish(j, "cancelled").exit = j.exit
      /\ Finish(j, "cancelled").queue = j.queue
      /\ Finish(j, "cancelled").state = "cancelled"
  BY FinishState DEF Finish, RecordAttempt, ClearLock, Akin, MemJob
<1>3. RecoveredJob(j) =
          IF j.cancelRequested THEN Finish(j, "cancelled")
          ELSE IF StallsExhausted(j)
          THEN [c EXCEPT !.stalledCount = @ + 1, !.state = "failed",
                         !.finishedAt = now, !.failedReason = TRUE]
          ELSE [c EXCEPT !.stalledCount = @ + 1, !.state = "waiting"]
  BY DEF RecoveredJob
<1>4. RecoveredJob(j) # None
  BY RecoveredJobType, NoneAssumption DEF TypeOK
<1> HIDE DEF c
<1> QED
  BY <1>1, <1>2, <1>3, <1>4 DEF Akin, MemJob, Terminal, TerminalStates

(* recoverStalled: whom it fails or cancels it reports, and for whom it    *)
(* requeues it signals every queue.                                        *)
LEMMA RecoverStalledEffect ==
    ASSUME TypeOK, FlowInv, ResultInv, RecoverStalled
    PROVE  /\ Effect
           /\ \A id \in Stalled : EndsNow(id) =>
                 Finished(id, IF jobs[id].cancelRequested THEN "cancelled"
                              ELSE "failed", FALSE)
<1> DEFINE js == [id \in JobIds |-> IF id \in Stalled
                                    THEN RecoveredJob(jobs[id]) ELSE jobs[id]]
           done == {id \in Stalled : Terminal(js[id])}
           kept == {id \in done : jobs[id].cancelRequested}
<1>1. /\ Retire(js, flowChildren, done, kept)
      /\ woken' = IF done # Stalled THEN Queues ELSE {}
  BY DEF RecoverStalled, SignalWake
<1>2. ASSUME NEW id \in Stalled
      PROVE  /\ id \in JobIds /\ jobs[id] \in MemJob /\ jobs[id] # None
             /\ jobs[id].state = "active" /\ js[id] = RecoveredJob(jobs[id])
             /\ js[id] # None /\ Akin(js[id], jobs[id])
             /\ js[id].queue = jobs[id].queue
             /\ Terminal(js[id]) \/ js[id].state = "waiting"
             /\ Terminal(js[id]) =>
                   /\ js[id].finishedAt = now /\ js[id].exit = jobs[id].exit
                   /\ js[id].state = IF jobs[id].cancelRequested
                                     THEN "cancelled" ELSE "failed"
  <2>1. id \in JobIds /\ Has(jobs, id) /\ jobs[id].state = "active"
    BY DEF Stalled
  <2>2. jobs[id] \in MemJob
    BY <2>1, HasType DEF TypeOK, JobMap
  <2> QED
    BY <2>1, <2>2, RecoveredRecord DEF Has
<1>3. \A id \in JobIds : id \notin Stalled => js[id] = jobs[id]
  OBVIOUS
<1>4. /\ done \subseteq Stalled /\ kept \subseteq done
      /\ \A id \in Stalled : id \in done <=> Terminal(js[id])
      /\ \A id \in done : id \in kept <=> jobs[id].cancelRequested
  OBVIOUS
<1> HIDE DEF js, done, kept
<1>5. ASSUME NEW id \in JobIds
      PROVE  Ended(js, flowChildren, done, id)
  <2>1. CASE id \in Stalled
    <3>1. ASSUME NEW k \in ChildKeys, Owed(id, k)
          PROVE  OwesCascades(flowChildren[id])
      BY <1>2, <2>1, <3>1, SettledOwes
    <3>2. ~Terminal(jobs[id])
      BY <1>2, <2>1 DEF Terminal, TerminalStates
    <3>3. jobs[id].exit = FALSE
      BY <1>2, <2>1, <3>2, PendingExit
    <3>4. Terminal(js[id]) => EndsAs(id, js[id].state, js[id].exit)
      BY <1>2, <2>1, <3>3 DEF EndsAs, CancelledNow
    <3> QED
      BY <1>2, <1>4, <2>1, <3>1, <3>2, <3>4 DEF Ended, SameJob
  <2>2. CASE id \notin Stalled
    BY <1>3, <1>4, <2>2, UntouchedEnded
  <2> QED
    BY <2>1, <2>2
<1>6. done \subseteq JobIds
  BY <1>2, <1>4
<1>7. \A id \in done : js[id].state # "failed" => id \in kept
  BY <1>2, <1>4 DEF Terminal
<1>8. RetireStep
  BY <1>1, <1>4, <1>5, <1>6, <1>7 DEF RetireStep
<1>9. ASSUME NEW id \in JobIds
      PROVE  \/ js[id] # None /\ js[id].queue \in woken'
             \/ ReadyKept(jobs[id], js[id])
  <2>1. CASE id \notin Stalled
    BY <1>3, <2>1 DEF ReadyKept
  <2>2. CASE id \in done
    BY <2>2, <1>2, <1>4 DEF ReadyKept, Terminal, TerminalStates
  <2>3. CASE id \in Stalled /\ id \notin done
    <3>1. woken' = Queues
      BY <1>1, <2>3
    <3>2. js[id].queue \in Queues
      BY <1>2, <2>3 DEF MemJob
    <3> QED
      BY <1>2, <2>3, <3>1, <3>2
  <2> QED
    BY <2>1, <2>2, <2>3
<1>10. Announced
  BY <1>1, <1>9, RetireAnnounced
<1>11. ASSUME NEW id \in Stalled, EndsNow(id)
       PROVE  Finished(id, IF jobs[id].cancelRequested THEN "cancelled"
                           ELSE "failed", FALSE)
  <2>1. \A d \in kept : js[d] # None /\ Terminal(js[d])
    BY <1>2, <1>4
  <2>2. kept \in SUBSET JobIds
    BY <1>4, <1>6
  <2>3. Terminal(js[id])
    BY <1>1, <1>2, <1>11, <2>1, <2>2, RetireDrops DEF EndsNow, Has
  <2>4. jobs[id].exit = FALSE
    BY <1>2, <1>11, PendingExit DEF EndsNow
  <2> QED
    BY <1>1, <1>2, <1>4, <2>3, <2>4 DEF Finished
<1> QED
  BY <1>8, <1>10, <1>11 DEF Effect

(* The acknowledged record.                                                *)
LEMMA AckedRecord ==
    ASSUME TypeOK, NEW id \in JobIds, Has(jobs, id)
    PROVE  /\ Acked(id) \in MemJob /\ Akin(Acked(id), jobs[id])
           /\ Acked(id).queue = jobs[id].queue
           /\ Acked(id).flow = jobs[id].flow
           /\ Acked(id).state = jobs[id].state
           /\ Acked(id).exit = jobs[id].exit
<1> DEFINE c == ClearLock(jobs[id])
<1>1. jobs[id] \in MemJob
  BY HasType DEF TypeOK, JobMap
<1>2. /\ c \in MemJob /\ Akin(c, jobs[id])
      /\ c.queue = jobs[id].queue /\ c.flow = jobs[id].flow
      /\ c.state = jobs[id].state /\ c.exit = jobs[id].exit
  BY <1>1, UnlockedRecord
<1>3. Acked(id) = [c EXCEPT !.attemptsMade = @ + 1]
  BY DEF Acked
<1> HIDE DEF c
<1> QED
  BY <1>2, <1>3, AckedType DEF Akin, MemJob

(* ack Complete, Fail, Cancelled                                           *)
LEMMA AckTerminalEffect ==
    ASSUME TypeOK, FlowInv, ResultInv, NEW id \in JobIds,
           NEW token \in Tokens,
           NEW state \in TerminalStates, NEW exit \in BOOLEAN,
           AckTerminal(id, token, state, exit)
    PROVE  Effect /\ Finished(id, state, exit)
<1> DEFINE e == IF state = "cancelled" THEN Acked(id).exit ELSE exit
           j == [Acked(id) EXCEPT !.exit = e]
<1>1. /\ jobs[id] \in MemJob /\ jobs[id] # None
      /\ jobs[id].state = "active" /\ ~Terminal(jobs[id])
  BY HeldRecord DEF AckTerminal
<1>2. Acked(id) \in MemJob /\ Akin(Acked(id), jobs[id])
  BY AckedRecord DEF AckTerminal, Held
<1>3. e \in BOOLEAN /\ e = exit
  <2>1. Acked(id).exit = FALSE
    BY <1>1, AckedRecord, PendingExit DEF Has
  <2> QED
    BY <2>1 DEF AckTerminal
<1>4. Retire([jobs EXCEPT ![id] = Finish(j, state)], flowChildren, {id}, {id})
  BY DEF AckTerminal
<1> HIDE DEF e
<1>5. j \in MemJob
  BY <1>2, <1>3, FieldTypes
<1>6. Akin(j, jobs[id]) /\ j.exit = exit
  BY <1>2, <1>3 DEF Akin, MemJob
<1> HIDE DEF j
<1>7. flowChildren = [flowChildren EXCEPT ![id] = flowChildren[id]]
  BY DEF TypeOK
<1>8. \A k \in ChildKeys : Owed(id, k) => OwesCascades(flowChildren[id])
  BY <1>1, SettledOwes
<1>9. Retire([jobs EXCEPT ![id] = Finish(j, state)],
             [flowChildren EXCEPT ![id] = flowChildren[id]], {id}, {id})
  BY <1>4, <1>7
<1>10. EndsAs(id, state, exit)
  BY DEF EndsAs
<1> QED
  BY <1>1, <1>5, <1>6, <1>8, <1>9, <1>10, FinishEffect

(* ack Retry                                                               *)
LEMMA AckRetryEffect ==
    ASSUME TypeOK, FlowInv, ResultInv, NEW id \in JobIds,
           NEW token \in Tokens, NEW delayMs \in RetryDelays, AckRetry(id, token, delayMs)
    PROVE  Effect /\ (EndsNow(id) => Finished(id, "cancelled", FALSE))
<1>1. /\ jobs[id] \in MemJob /\ jobs[id] # None
      /\ jobs[id].state = "active" /\ ~Terminal(jobs[id])
  BY HeldRecord DEF AckRetry
<1>2. /\ Acked(id) \in MemJob /\ Akin(Acked(id), jobs[id])
      /\ Acked(id).queue = jobs[id].queue /\ Acked(id).flow = jobs[id].flow
      /\ Acked(id).state = jobs[id].state
      /\ Acked(id).exit = jobs[id].exit
  BY AckedRecord DEF AckRetry, Held
<1>3. CASE jobs[id].cancelRequested
  <2>1. EndsAs(id, "cancelled", Acked(id).exit) /\ Acked(id).exit = FALSE
    BY <1>1, <1>2, <1>3, PendingExit DEF EndsAs, CancelledNow
  <2> QED
    BY <1>1, <1>2, <1>3, <2>1, MarkCancelledEffect DEF AckRetry
<1>4. CASE ~jobs[id].cancelRequested
  <2> DEFINE c == RecordAttempt(Acked(id), "retried")
             s == IF delayMs > 0 THEN "delayed" ELSE "waiting"
             j == [c EXCEPT !.runAt = now + delayMs, !.state = s,
                            !.seq = seq + 1]
  <2>1. /\ c \in MemJob /\ Akin(c, jobs[id])
        /\ c.queue = jobs[id].queue
    BY <1>2, UnlockedRecord DEF AttemptOutcomes, Akin
  <2>2. /\ jobs' = [jobs EXCEPT ![id] = j] /\ UNCHANGED <<outbox, outboxSeq>>
        /\ woken' = {jobs[id].queue}
    BY <1>4 DEF AckRetry, SignalWake
  <2>3. s \in JobStates /\ s \notin TerminalStates
    BY DEF JobStates, TerminalStates
  <2>4. now + delayMs \in Nat /\ seq + 1 \in Nat
    BY ConstantsAssumption DEF TypeOK
  <2> HIDE DEF c, s
  <2>5. /\ j \in MemJob /\ Akin(j, c) /\ j.queue = c.queue
        /\ j.state = s
    BY <2>1, <2>3, <2>4 DEF Akin, MemJob
  <2> HIDE DEF j
  <2>6. ~Terminal(j)
    BY <2>3, <2>5 DEF Terminal
  <2> QED
    BY <1>1, <2>1, <2>2, <2>5, <2>6, AkinSame, PutEffect DEF Akin
<1> QED
  BY <1>3, <1>4

(* ack FanOut: parks the parent, signals its queue, or cancels it with its *)
(* fresh rows marked.                                                      *)
LEMMA AckFanOutEffect ==
    ASSUME TypeOK, FlowInv, ResultInv, NEW id \in JobIds,
           NEW token \in Tokens,
           NEW children \in SUBSET ChildKeys, NEW failFast \in BOOLEAN,
           AckFanOut(id, token, children, failFast)
    PROVE  Effect /\ (EndsNow(id) => Finished(id, "cancelled", FALSE))
<1> DEFINE first == FirstFanOut(id)
           flow == IF first THEN Manifest(children, failFast)
                   ELSE jobs[id].flow
           row == IF first THEN PendingRows(children) ELSE flowChildren[id]
           c == ClearLock(jobs[id])
           b == [c EXCEPT !.flow = flow]
           j == RecordAttempt(b, "fanned-out")
           s == [j EXCEPT !.flow = SettleFlow(@, row)]
<1>1. /\ jobs[id] \in MemJob /\ jobs[id] # None
      /\ jobs[id].state = "active" /\ ~Terminal(jobs[id])
      /\ CountersMatch(jobs[id].flow, flowChildren[id])
      /\ jobs[id].flow \in Opt(FlowState)
  BY HeldFlow, HeldRecord DEF AckFanOut
<1>2. /\ flow \in FlowState /\ row \in Row
      /\ flow # None
  <2>1. flowChildren[id] \in Row
    BY DEF TypeOK, Row
  <2>2. /\ Manifest(children, failFast) \in FlowState
        /\ PendingRows(children) \in Row
    BY ManifestCounts
  <2>3. first <=> jobs[id].flow = None
    BY DEF FirstFanOut
  <2> HIDE DEF first
  <2> QED
    BY <1>1, <2>1, <2>2, <2>3, NoneAssumption DEF Opt
<1>3. ASSUME NEW k \in ChildKeys, Owed(id, k)
      PROVE  OwesCascades(MarkPendingRowsCancelled(row))
  <2>1. CASE first
    <3>1. flowChildren[id] = NoRows
      BY <1>1, <2>1 DEF FirstFanOut, CountersMatch
    <3> QED
      BY <1>3, <3>1 DEF Owed, WithStatus, NoRows
  <2>2. CASE ~first
    BY <1>2, <1>3, <2>2, MarkOwes DEF Owed
  <2> QED
    BY <2>1, <2>2
<1>4. /\ c \in MemJob /\ Akin(c, jobs[id]) /\ c.queue = jobs[id].queue
      /\ c.exit = jobs[id].exit
      /\ c.cancelRequested = jobs[id].cancelRequested
  BY <1>1, UnlockedRecord
<1> HIDE DEF flow, c
<1>5. /\ b \in MemJob /\ Akin(b, c) /\ b.queue = c.queue /\ b.flow = flow
      /\ b.exit = c.exit /\ b.cancelRequested = c.cancelRequested
  BY <1>2, <1>4, FieldTypes DEF Akin, MemJob, Opt
<1> HIDE DEF b
<1>6. /\ j \in MemJob /\ Akin(j, b) /\ j.queue = b.queue /\ j.flow = flow
      /\ j.exit = b.exit /\ j.cancelRequested = b.cancelRequested
  BY <1>5, UnlockedRecord DEF AttemptOutcomes
<1>7. CASE j.cancelRequested
  <2>1. Retire([jobs EXCEPT ![id] = Finish(s, "cancelled")],
               [flowChildren EXCEPT ![id] = MarkPendingRowsCancelled(row)],
               {id}, {id})
    BY <1>7 DEF AckFanOut, b, c, flow
  <2> HIDE DEF j, row
  <2>2. SettleFlow(flow, row) \in Opt(FlowState)
    BY <1>2, SettleFlowType DEF Opt
  <2>3. s \in MemJob /\ Akin(s, j) /\ s.exit = j.exit
    BY <1>6, <2>2, FieldTypes DEF Akin, MemJob
  <2> HIDE DEF s
  <2>4. s.exit = FALSE /\ jobs[id].cancelRequested
    BY <1>1, <1>4, <1>5, <1>6, <1>7, <2>3, PendingExit
  <2>5. EndsAs(id, "cancelled", s.exit)
    BY <2>4 DEF EndsAs, CancelledNow
  <2> QED
    BY <1>1, <1>3, <1>4, <1>5, <1>6, <2>1, <2>3, <2>4, <2>5, FinishEffect
       DEF TerminalStates, Akin
<1>8. CASE ~j.cancelRequested
  <2> DEFINE parked == [j EXCEPT !.state = "waiting-children"]
             ready == [j EXCEPT !.state = "waiting", !.runAt = now,
                                !.seq = seq + 1]
  <2>1. /\ UNCHANGED <<outbox, outboxSeq>>
        /\ \/ jobs' = [jobs EXCEPT ![id] = parked]
           \/ jobs' = [jobs EXCEPT ![id] = ready] /\ woken' = {j.queue}
    BY <1>8 DEF AckFanOut, b, c, flow, SignalWake
  <2> HIDE DEF j, row
  <2>2. /\ parked \in MemJob /\ Akin(parked, j)
        /\ parked.state = "waiting-children"
        /\ ready \in MemJob /\ Akin(ready, j)
        /\ ready.queue = j.queue /\ ready.state = "waiting"
    <3>1. now \in Nat /\ seq + 1 \in Nat
      BY DEF TypeOK
    <3> QED
      BY <1>6, <3>1 DEF Akin, MemJob, JobStates
  <2> HIDE DEF parked, ready
  <2>3. ~Terminal(parked) /\ ~Terminal(ready) /\ ReadyKept(jobs[id], parked)
    BY <2>2 DEF Terminal, TerminalStates, ReadyKept
  <2>4. Akin(parked, jobs[id]) /\ Akin(ready, jobs[id])
    BY <1>4, <1>5, <1>6, <2>2 DEF Akin
  <2>5. CASE jobs' = [jobs EXCEPT ![id] = parked]
    BY <1>1, <2>1, <2>2, <2>3, <2>4, <2>5, AkinSame, PutEffect DEF Akin
  <2>6. CASE jobs' = [jobs EXCEPT ![id] = ready] /\ woken' = {j.queue}
    BY <1>1, <2>1, <2>2, <2>3, <2>4, <2>6, AkinSame, PutEffect DEF Akin
  <2> QED
    BY <2>1, <2>5, <2>6
<1> QED
  BY <1>7, <1>8

(* cancelJob                                                               *)
LEMMA CancelEffect ==
    ASSUME TypeOK, FlowInv, ResultInv, NEW id \in JobIds, Cancel(id)
    PROVE  Effect /\ (EndsNow(id) => Finished(id, "cancelled", FALSE))
<1>1. jobs[id] \in MemJob /\ jobs[id] # None
  BY HasType DEF Cancel, TypeOK, JobMap, Has
<1>2. CASE /\ jobs[id].state \in {"waiting", "delayed", "waiting-children"}
           /\ MarkCancelled(id, jobs[id])
  <2>1. ~Terminal(jobs[id])
    BY <1>2 DEF Terminal, TerminalStates
  <2>2. EndsAs(id, "cancelled", jobs[id].exit) /\ jobs[id].exit = FALSE
    BY <1>1, <2>1, PendingExit DEF EndsAs, CancelledNow
  <2> QED
    BY <1>1, <1>2, <2>1, <2>2, MarkCancelledEffect DEF Akin
<1>3. CASE /\ jobs[id].state = "active"
           /\ jobs' = [jobs EXCEPT ![id].cancelRequested = TRUE]
           /\ UNCHANGED <<outbox, outboxSeq>>
  <2> DEFINE j == [jobs[id] EXCEPT !.cancelRequested = TRUE]
  <2>1. j \in MemJob
    BY <1>1, FieldTypes
  <2>2. Akin(j, jobs[id]) /\ j.state = "active"
    BY <1>1, <1>3 DEF Akin, MemJob
  <2>3. jobs' = [jobs EXCEPT ![id] = j]
    BY <1>3
  <2> HIDE DEF j
  <2>4. ~Terminal(j) /\ ReadyKept(jobs[id], j)
    BY <2>2 DEF Terminal, TerminalStates, ReadyKept
  <2> QED
    BY <1>1, <1>3, <2>1, <2>2, <2>3, <2>4, AkinSame, PutEffect DEF Akin
<1> QED
  BY <1>2, <1>3 DEF Cancel

(* retry                                                                   *)
LEMMA RetryEffect ==
    ASSUME TypeOK, NEW id \in JobIds, Retry(id)
    PROVE  Effect
<1>1. jobs[id] \in MemJob /\ jobs[id] # None
  BY HasType DEF Retry, TypeOK, JobMap, Has
<1>2. Revive(jobs[id]) \in MemJob
  BY <1>1, ReviveType DEF TypeOK
<1>3. /\ Akin(Revive(jobs[id]), jobs[id])
      /\ Revive(jobs[id]).queue = jobs[id].queue
      /\ Revive(jobs[id]).state = "waiting"
  BY <1>1 DEF Revive, Akin, MemJob
<1>4. ~Terminal(Revive(jobs[id]))
  BY <1>3 DEF Terminal, TerminalStates
<1>5. /\ jobs' = [jobs EXCEPT ![id] = Revive(jobs[id])]
      /\ woken' = {jobs[id].queue} /\ UNCHANGED <<outbox, outboxSeq>>
  BY DEF Retry, SignalWake
<1> QED
  BY <1>1, <1>2, <1>3, <1>4, <1>5, AkinSame, PutEffect DEF Akin

(* promote                                                                 *)
LEMMA PromoteEffect ==
    ASSUME TypeOK, NEW id \in JobIds, Promote(id)
    PROVE  Effect
<1> DEFINE j == [jobs[id] EXCEPT !.state = "waiting", !.runAt = now]
<1>1. jobs[id] \in MemJob /\ jobs[id] # None
  BY HasType DEF Promote, TypeOK, JobMap, Has
<1>2. /\ jobs' = [jobs EXCEPT ![id] = j]
      /\ woken' = {jobs[id].queue} /\ UNCHANGED <<outbox, outboxSeq>>
  BY DEF Promote, TypeOK, SignalWake
<1>3. /\ j \in MemJob /\ Akin(j, jobs[id])
      /\ j.queue = jobs[id].queue /\ j.state = "waiting"
  BY <1>1 DEF Akin, MemJob, JobStates, TypeOK
<1> HIDE DEF j
<1>4. ~Terminal(j)
  BY <1>3 DEF Terminal, TerminalStates
<1> QED
  BY <1>1, <1>2, <1>3, <1>4, AkinSame, PutEffect DEF Akin

(* remove is the operator's right; the history sweep spares who owes.      *)
LEMMA DropEffect ==
    ASSUME TypeOK, NEW victims, jobs' = Without(jobs, victims, None),
           UNCHANGED <<outbox, outboxSeq>>,
           \A id \in JobIds \cap victims :
               Remove(id) \/ (/\ Terminal(jobs[id])
                              /\ \A k \in ChildKeys : ~Owed(id, k))
    PROVE  Effect
<1>1. \A id \in JobIds :
          jobs'[id] = IF id \in victims THEN None ELSE jobs[id]
  BY DEF Without
<1>2. Announced
  BY <1>1 DEF Announced, ReadyKept
<1>3. DropStep
  BY <1>1 DEF DropStep
<1> QED
  BY <1>2, <1>3 DEF Effect

(* sweepHistory                                                            *)
LEMMA SweepHistoryEffect ==
    ASSUME TypeOK, FlowInv, SweepHistory
    PROVE  Effect
<1> DEFINE KeepAge(j) == LET p == KeepPolicyFor(j.keep, j.state)
                         IN  IF p = None THEN None ELSE p.ageMs
           Effective(j) ==
               LET ttl == HistoryTtl[j.state]
                   age == KeepAge(j)
               IN  IF age # None /\ (ttl = None \/ age < ttl) THEN age ELSE ttl
           victims == {id \in JobIds :
                          /\ Has(jobs, id) /\ Terminal(jobs[id])
                          /\ jobs[id].finishedAt # None
                          /\ Effective(jobs[id]) # None
                          /\ jobs[id].finishedAt <= now - Effective(jobs[id])
                          /\ ~OwesCascades(flowChildren[id])}
<1>1. /\ jobs' = Without(jobs, victims, None)
      /\ UNCHANGED <<outbox, outboxSeq>>
  BY DEF SweepHistory
<1>2. ASSUME NEW id \in victims
      PROVE  /\ id \in JobIds /\ jobs[id] # None /\ Terminal(jobs[id])
             /\ ~OwesCascades(flowChildren[id])
  BY DEF Has
<1> HIDE DEF victims
<1>3. ASSUME NEW id \in victims, NEW k \in ChildKeys, Owed(id, k)
      PROVE  FALSE
  <2>1. jobs[id].state # "waiting-children"
    BY <1>2 DEF Terminal, TerminalStates
  <2> QED
    BY <1>2, <1>3, <2>1, SettledOwes
<1> QED
  BY <1>1, <1>2, <1>3, DropEffect

(* Operations that write neither a record nor the outbox.                  *)
LEMMA SilentEffect ==
    ASSUME UNCHANGED <<jobs, outbox, outboxSeq>>
    PROVE  Effect
BY DEF Effect, Announced, ReadyKept, QuietStep

(* recordChildResults: a row that took no report is marked when the parent *)
(* fails fast, and a parent that can be resumed is announced.              *)
LEMMA RecordChildResultsEffect ==
    ASSUME TypeOK, FlowInv, ResultInv, NEW flowId \in JobIds,
           NEW keys \in SUBSET ChildKeys,
           NEW reports \in [keys -> TerminalStates],
           RecordChildResults(flowId, reports)
    PROVE  Effect /\ (EndsNow(flowId) => Finished(flowId, "failed", FALSE))
<1> DEFINE i == jobs[flowId]
           row == flowChildren[flowId]
           row1 == ReportedRow(row, reports)
           f == Counted(i.flow, row, reports)
           j == [i EXCEPT !.flow = f]
           g == SettleFlow(j.flow, row1)
           a == [j EXCEPT !.flow = g]
           s == [a EXCEPT !.failedReason = TRUE]
           row2 == MarkPendingRowsCancelled(row1)
           ready == [j EXCEPT !.state = "waiting", !.runAt = now,
                              !.seq = seq + 1]
<1>1. i \in MemJob /\ i # None /\ i.flow # None /\ row \in Row
  BY HasType DEF RecordChildResults, TypeOK, JobMap, Has, Row
<1>2. i.flow \in FlowState
  BY <1>1 DEF Akin, MemJob, Opt
<1>3. i.state = "waiting-children" /\ ~Terminal(i)
  <2>1. WithStatus(row, "pending") # {}
    BY DEF RecordChildResults, AppliedKeys
  <2>2. Cardinality(WithStatus(row, "pending")) \in Nat \ {0}
    BY <2>1, WithStatusFinite, FS_EmptySet
  <2>3. i.flow.pending > 0
    BY <1>1, <2>2, FlowInvIsFlowOK DEF FlowOK, CountersMatch
  <2> QED
    BY <1>1, <2>3, FlowInvIsFlowOK DEF FlowOK, Terminal, TerminalStates
<1>4. row1 \in Row
  BY <1>1, ReportedRowType
<1>5. ASSUME NEW k \in ChildKeys, Owed(flowId, k)
      PROVE  OwesCascades(row2)
  <2>1. k \in keys => ReportedNow(flowId, k)
    BY DEF ReportedNow
  <2>2. k \notin AppliedKeys(row, reports)
    BY <1>5, <2>1 DEF Owed, AppliedKeys, WithStatus
  <2>3. row1[k] = row[k]
    BY <2>2 DEF ReportedRow
  <2> QED
    BY <1>4, <1>5, <2>3, MarkOwes DEF Owed, WithStatus
<1>6. \/ Retire([jobs EXCEPT ![flowId] = Finish(s, "failed")],
                [flowChildren EXCEPT ![flowId] = row2], {flowId}, {flowId})
      \/ /\ jobs' = [jobs EXCEPT ![flowId] = ready]
         /\ woken' = {j.queue} /\ UNCHANGED <<outbox, outboxSeq>>
      \/ /\ jobs' = [jobs EXCEPT ![flowId] = j]
         /\ UNCHANGED <<outbox, outboxSeq>>
  BY DEF RecordChildResults, SignalWake
<1>7. f \in FlowState
  BY <1>2, CountedType
<1> HIDE DEF f, row1, row2
<1>8. j \in MemJob
  <2> HIDE DEF i
  <2> QED
    BY <1>1, <1>7, FieldTypes DEF Opt
<1>9. Akin(j, i) /\ j.state = i.state /\ j.flow = f /\ j.exit = i.exit
  BY <1>1 DEF Akin, MemJob
<1>10. ~Terminal(j) /\ ReadyKept(i, j)
  BY <1>3, <1>9 DEF Terminal, ReadyKept
<1> HIDE DEF j
<1>11. CASE Retire([jobs EXCEPT ![flowId] = Finish(s, "failed")],
                   [flowChildren EXCEPT ![flowId] = row2],
                   {flowId}, {flowId})
  <2>1. g \in Opt(FlowState)
    BY <1>7, <1>9, SettleFlowType DEF Opt
  <2> HIDE DEF g
  <2>2. a \in MemJob /\ Akin(a, j) /\ a.exit = j.exit
    BY <1>8, <2>1, FieldTypes DEF Akin, MemJob
  <2> HIDE DEF a
  <2>3. s \in MemJob /\ Akin(s, a) /\ s.exit = a.exit
    <3>1. s \in MemJob
      BY <2>2, FieldTypes
    <3>2. Akin(s, a) /\ s.exit = a.exit
      BY <2>2 DEF Akin, MemJob
    <3> QED
      BY <3>1, <3>2
  <2> HIDE DEF s
  <2>4. s.exit = FALSE
    BY <1>1, <1>3, <1>9, <2>2, <2>3, PendingExit
  <2>5. EndsAs(flowId, "failed", s.exit)
    <3>1. PICK k \in keys : TRUE
      BY DEF RecordChildResults, AppliedKeys
    <3>2. ReportedNow(flowId, k)
      BY <3>1 DEF ReportedNow
    <3> QED
      BY <2>4, <3>1, <3>2 DEF EndsAs
  <2> QED
    BY <1>1, <1>3, <1>5, <1>9, <1>11, <2>2, <2>3, <2>4, <2>5,
       FinishEffect
       DEF TerminalStates, Akin
<1>12. CASE /\ jobs' = [jobs EXCEPT ![flowId] = ready]
            /\ woken' = {j.queue} /\ UNCHANGED <<outbox, outboxSeq>>
  <2>1. /\ ready \in MemJob /\ Akin(ready, j)
        /\ ready.queue = j.queue /\ ready.state = "waiting"
    <3>1. now \in Nat /\ seq + 1 \in Nat
      BY DEF TypeOK
    <3> QED
      BY <1>8, <3>1 DEF Akin, MemJob, JobStates
  <2> HIDE DEF ready
  <2>2. ~Terminal(ready)
    BY <2>1 DEF Terminal, TerminalStates
  <2> QED
    BY <1>1, <1>9, <1>12, <2>1, <2>2, AkinSame, PutEffect DEF Akin
<1>13. CASE /\ jobs' = [jobs EXCEPT ![flowId] = j]
            /\ UNCHANGED <<outbox, outboxSeq>>
  BY <1>1, <1>8, <1>9, <1>10, <1>13, AkinSame, PutEffect DEF Akin
<1> QED
  BY <1>6, <1>11, <1>12, <1>13

(* Every step of the driver has one of the effects.                        *)
LEMMA Effects ==
    ASSUME TypeOK, FlowInv, ResultInv, [Next]_vars
    PROVE  Effect
<1>1. CASE UNCHANGED vars
  BY <1>1, SilentEffect DEF vars
<1>2. CASE ProducerNext
  BY <1>2, ProducerEffect
<1>3. CASE WorkerNext
  BY <1>3, ClaimEffect, ClaimEmptyEffect, AckTerminalEffect, AckRetryEffect,
     AckFanOutEffect, ReleaseEffect, ExtendLocksEffect, RecoverStalledEffect
     DEF WorkerNext
<1>4. CASE FlowNext
  <2>1. ASSUME NEW flowId \in JobIds, NEW keys \in SUBSET ChildKeys,
               MarkChildrenCascaded(flowId, keys)
        PROVE  Effect
    BY <2>1, SilentEffect DEF MarkChildrenCascaded
  <2>2. ASSUME NEW entries, DeleteOutbox(entries) PROVE Effect
    BY <2>2 DEF DeleteOutbox, Effect, Announced, ReadyKept, DeliverStep
  <2>3. ASSUME NEW page, FlowSweepWork(page) PROVE Effect
    BY <2>3, SilentEffect DEF FlowSweepWork
  <2> QED
    BY <1>4, <2>1, <2>2, <2>3, RecordChildResultsEffect DEF FlowNext
<1>5. CASE AdminNext
  <2>1. ASSUME NEW queue \in Queues, Pause(queue) \/ Resume(queue)
        PROVE  Effect
    BY <2>1, SilentEffect DEF Pause, Resume
  <2>2. ASSUME NEW id \in JobIds, Remove(id) PROVE Effect
    <3>1. jobs' = Without(jobs, {id}, None) /\ UNCHANGED <<outbox, outboxSeq>>
      BY <2>2 DEF Remove
    <3> QED
      BY <2>2, <3>1, DropEffect
  <2>3. ASSUME NEW k \in DedupeMapKeys, CancelByDedupe(k)
        PROVE  Effect
    <3>1. dedupes[k].jobId \in JobIds
      BY <2>3 DEF CancelByDedupe, TypeOK, DedupeEntry, Opt
    <3> QED
      BY <2>3, <3>1, CancelEffect DEF CancelByDedupe
  <2> QED
    BY <1>5, <2>1, <2>2, <2>3, CancelEffect, RetryEffect, PromoteEffect,
       SweepHistoryEffect DEF AdminNext
<1>6. CASE Tick
  BY <1>6, SilentEffect DEF Tick
<1> QED
  BY <1>1, <1>2, <1>3, <1>4, <1>5, <1>6 DEF Next

-----------------------------------------------------------------------------
(* Who waits                                                               *)

(* A queue is resumed with a signal.                                       *)
LEMMA ResumedAloud ==
    ASSUME [Next]_vars
    PROVE  \A queue \in paused : queue \in paused' \/ queue \in woken'
<1>1. CASE UNCHANGED vars
  BY <1>1 DEF vars
<1>2. CASE ProducerNext
  BY <1>2 DEF ProducerNext, Enqueue, EnqueueReplace, EnqueueExtend
<1>3. CASE WorkerNext
  <2>1. ASSUME NEW queue, NEW names, NEW lockMs, Claim(queue, names, lockMs)
        PROVE  paused' = paused
    BY <2>1 DEF Claim
  <2>2. ASSUME NEW queue, NEW names, ClaimEmpty(queue, names)
        PROVE  paused' = paused
    BY <2>2 DEF ClaimEmpty
  <2>3. ASSUME NEW id, NEW token, NEW state, NEW exit,
               AckTerminal(id, token, state, exit)
        PROVE  paused' = paused
    BY <2>3 DEF AckTerminal
  <2>4. ASSUME NEW id, NEW token, NEW delayMs, AckRetry(id, token, delayMs)
        PROVE  paused' = paused
    BY <2>4 DEF AckRetry
  <2>5. ASSUME NEW id, NEW token, NEW children, NEW failFast,
               AckFanOut(id, token, children, failFast)
        PROVE  paused' = paused
    BY <2>5 DEF AckFanOut
  <2>6. ASSUME NEW id, NEW token, Release(id, token) PROVE paused' = paused
    BY <2>6 DEF Release
  <2>7. ASSUME NEW id, NEW token, NEW lockMs, ExtendLocks(id, token, lockMs)
        PROVE  paused' = paused
    BY <2>7 DEF ExtendLocks
  <2>8. ASSUME RecoverStalled PROVE paused' = paused
    BY <2>8 DEF RecoverStalled
  <2>9. paused' = paused
    BY <1>3, <2>1, <2>2, <2>3, <2>4, <2>5, <2>6, <2>7, <2>8 DEF WorkerNext
  <2> QED
    BY <2>9
<1>4. CASE FlowNext
  BY <1>4 DEF FlowNext, RecordChildResults, MarkChildrenCascaded,
     DeleteOutbox, FlowSweepWork
<1>5. CASE AdminNext
  BY <1>5 DEF AdminNext, Cancel, CancelByDedupe, Retry, Promote, Remove,
     Pause, Resume, SweepHistory, SignalWake
<1>6. CASE Tick
  BY <1>6 DEF Tick
<1> QED
  BY <1>1, <1>2, <1>3, <1>4, <1>5, <1>6 DEF Next

(* Whoever becomes ready earlier is announced.                             *)
LEMMA WakeOnReadyOnStep ==
    TypeOK /\ FlowInv /\ ResultInv /\ [Next]_vars => WakeOnReadyStep
<1> SUFFICES ASSUME TypeOK, FlowInv, ResultInv, [Next]_vars, NEW id \in JobIds,
                    now' = now,
                    ReadyAt(jobs', paused', now, id) # None,
                    \/ ReadyAt(jobs, paused, now, id) = None
                    \/ ReadyAt(jobs', paused', now, id)
                           < ReadyAt(jobs, paused, now, id)
             PROVE  jobs'[id].queue \in woken'
  BY DEF WakeOnReadyStep
<1>1. /\ jobs'[id] # None /\ jobs'[id].queue \notin paused'
      /\ jobs'[id].state \in {"waiting", "delayed"}
  BY DEF ReadyAt, Has
<1>2. CASE ReadyKept(jobs[id], jobs'[id]) /\ jobs'[id].queue \notin woken'
  <2>1. /\ jobs[id] # None /\ jobs[id].queue = jobs'[id].queue
        /\ jobs[id].runAt = jobs'[id].runAt
        /\ jobs[id].state \in {"waiting", "delayed"}
        /\ \/ jobs'[id].state = jobs[id].state
           \/ jobs'[id].state = "waiting" /\ jobs[id].runAt <= now
    BY <1>1, <1>2 DEF ReadyKept
  <2>2. jobs[id].queue \notin paused
    BY <1>1, <1>2, <2>1, ResumedAloud
  <2>3. jobs[id].runAt \in Nat
    BY <2>1 DEF TypeOK, MemJob, Opt
  <2>4. ReadyAt(jobs, paused, now, id) =
            IF jobs[id].state = "waiting" \/ jobs[id].runAt <= now THEN 0
            ELSE jobs[id].runAt
    BY <2>1, <2>2 DEF ReadyAt, Has
  <2>5. ReadyAt(jobs', paused', now, id) =
            IF jobs'[id].state = "waiting" \/ jobs'[id].runAt <= now THEN 0
            ELSE jobs'[id].runAt
    BY <1>1 DEF ReadyAt, Has
  <2>6. ReadyAt(jobs', paused', now, id) = ReadyAt(jobs, paused, now, id)
    BY <1>1, <2>1, <2>4, <2>5
  <2>7. ReadyAt(jobs, paused, now, id) \in Nat
    BY <2>3, <2>4
  <2> QED
    BY <2>6, <2>7, NoneAssumption
<1> QED
  BY <1>2, Effects DEF Effect, Announced

(* Whatever makes a job claimable earlier than a parked taker was told     *)
(* signals that taker's queue in the same step.                            *)
THEOREM ReadyIsSignalled == Spec => WakeOnReady
<1>1. Spec => [](TypeOK /\ FlowInv /\ ResultInv)
  BY TypeCorrect, FlowsCounted, ResultsAgree, PTL
<1>2. TypeOK /\ FlowInv /\ ResultInv /\ [Next]_vars =>
          [WakeOnReadyStep]_vars
  BY WakeOnReadyOnStep
<1> QED
  BY <1>1, <1>2, PTL DEF Spec, WakeOnReady

-----------------------------------------------------------------------------
(* What is owed                                                            *)

(* Retention takes only who owes nothing.                                  *)
LEMMA CascadesKeptOnStep ==
    TypeOK /\ FlowInv /\ ResultInv /\ [Next]_vars => CascadesKeptStep
<1> SUFFICES ASSUME TypeOK, FlowInv, ResultInv, [Next]_vars, NEW id \in JobIds,
                    jobs[id] # None, jobs'[id] = None,
                    NEW k \in ChildKeys, Owed(id, k)
             PROVE  Remove(id)
  BY DEF CascadesKeptStep, Has
<1>1. CASE QuietStep
  BY <1>1 DEF QuietStep, SameJob
<1>2. CASE InsertStep
  <2>1. PICK r \in Requests, i \in JobIds :
            jobs' = [jobs EXCEPT ![i] = NewJob(r)] /\ jobs[i] = None
    BY <1>2 DEF InsertStep
  <2> QED
    BY <2>1 DEF TypeOK
<1>3. CASE DropStep
  BY <1>3 DEF DropStep
<1>4. CASE DeliverStep
  BY <1>4 DEF DeliverStep
<1>5. CASE RetireStep
  <2>1. PICK js, rs, done, kept :
            /\ done \subseteq JobIds /\ kept \subseteq done
            /\ \A i \in JobIds : Ended(js, rs, done, i)
            /\ Retire(js, rs, done, kept)
    BY <1>5 DEF RetireStep
  <2>2. js[id] # None /\ \A d \in kept : js[d] # None /\ Terminal(js[d])
    BY <2>1 DEF Ended, SameJob
  <2>3. Terminal(js[id]) /\ ~OwesCascades(rs[id])
    BY <2>1, <2>2, RetireDrops
  <2> QED
    BY <2>1, <2>2, <2>3 DEF Ended
<1> QED
  BY <1>1, <1>2, <1>3, <1>4, <1>5, Effects DEF Effect

(* No retention policy makes a flow forget a child that still has to be    *)
(* cancelled or awaited.                                                   *)
THEOREM CascadesSurvive == Spec => CascadesKept
<1>1. Spec => [](TypeOK /\ FlowInv /\ ResultInv)
  BY TypeCorrect, FlowsCounted, ResultsAgree, PTL
<1>2. TypeOK /\ FlowInv /\ ResultInv /\ [Next]_vars =>
          [CascadesKeptStep]_vars
  BY CascadesKeptOnStep
<1> QED
  BY <1>1, <1>2, PTL DEF Spec, CascadesKept

-----------------------------------------------------------------------------
(* Reports                                                                 *)

StampsBehind == \A e \in outbox : e.stamp <= outboxSeq

ChildrenOwnIds ==
    \A id \in JobIds : jobs[id] # None /\ jobs[id].parent # None =>
        \E r \in Requests : r.parent = jobs[id].parent /\ r.id = id

ReportInv == StampsBehind /\ ChildrenOwnIds

(* Two children of one flow and key are one job.                           *)
LEMMA OneChildPerParent ==
    ASSUME ChildrenOwnIds, NEW id1 \in JobIds, NEW id2 \in JobIds,
           jobs[id1] # None, jobs[id2] # None,
           jobs[id1].parent # None, jobs[id1].parent = jobs[id2].parent
    PROVE  id1 = id2
<1>1. PICK r1 \in Requests : r1.parent = jobs[id1].parent /\ r1.id = id1
  BY DEF ChildrenOwnIds
<1>2. PICK r2 \in Requests : r2.parent = jobs[id2].parent /\ r2.id = id2
  BY DEF ChildrenOwnIds
<1> QED
  BY <1>1, <1>2, ChildIdPerParent

(* Every step keeps the ids of children and the order of stamps.           *)
LEMMA ReportNext ==
    ASSUME TypeOK, FlowInv, ResultInv, ReportInv, [Next]_vars
    PROVE  ReportInv'
<1>1. \A id \in JobIds :
          \/ jobs'[id] = None
          \/ jobs[id] # None /\ jobs'[id].parent = jobs[id].parent
          \/ \E r \in Requests :
                /\ r.id # None => r.id = id
                /\ jobs'[id].parent = r.parent
  <2>1. CASE QuietStep
    BY <2>1 DEF QuietStep, SameJob, Akin
  <2>2. CASE InsertStep
    <3>1. PICK r \in Requests, i \in JobIds :
              /\ r.id # None => r.id = i
              /\ jobs' = [jobs EXCEPT ![i] = NewJob(r)]
      BY <2>2 DEF InsertStep
    <3>2. NewJob(r).parent = r.parent
      BY DEF NewJob
    <3> QED
      BY <3>1, <3>2 DEF TypeOK
  <2>3. CASE DropStep
    BY <2>3 DEF DropStep
  <2>4. CASE DeliverStep
    BY <2>4 DEF DeliverStep
  <2>5. CASE RetireStep
    <3>1. PICK js, rs, done, kept :
              /\ \A i \in JobIds : Ended(js, rs, done, i)
              /\ Retire(js, rs, done, kept)
      BY <2>5 DEF RetireStep
    <3>2. \A id \in JobIds : jobs'[id] = None \/ jobs'[id] = js[id]
      BY <3>1 DEF Retire, Without
    <3> QED
      BY <3>1, <3>2 DEF Ended, SameJob, Akin
  <2> QED
    BY <2>1, <2>2, <2>3, <2>4, <2>5, Effects DEF Effect
<1>2. ChildrenOwnIds'
  BY <1>1, ChildIdPerParent DEF ReportInv, ChildrenOwnIds
<1>3. StampsBehind'
  <2>1. CASE outbox' \subseteq outbox /\ outboxSeq' = outboxSeq
    BY <2>1 DEF ReportInv, StampsBehind
  <2>2. CASE RetireStep
    <3>1. PICK js, rs, done, kept : Retire(js, rs, done, kept)
      BY <2>2 DEF RetireStep
    <3>2. \A e \in Reports(js, done) : e.stamp = outboxSeq + 1
      BY DEF Reports, Report
    <3>3. \A e \in outbox : e.stamp \in Nat
      BY DEF TypeOK, OutboxEntry
    <3>4. /\ outbox' = outbox \cup Reports(js, done)
          /\ outboxSeq' = IF Reports(js, done) = {} THEN outboxSeq
                          ELSE outboxSeq + 1
      BY <3>1 DEF Retire
    <3>5. \A e \in outbox : e.stamp <= outboxSeq + 1
      BY <3>3 DEF ReportInv, StampsBehind, TypeOK
    <3> QED
      BY <3>2, <3>4, <3>5 DEF ReportInv, StampsBehind, TypeOK
  <2> QED
    BY <2>1, <2>2, Effects
       DEF Effect, QuietStep, InsertStep, DropStep, DeliverStep
<1> QED
  BY <1>2, <1>3 DEF ReportInv

(* Nothing is reported at first.                                           *)
LEMMA ReportInit == Init => ReportInv
BY DEF Init, ReportInv, StampsBehind, ChildrenOwnIds

(* The invariant holds in every reachable state.                           *)
THEOREM ReportsInvariant ==
    Spec => [](TypeOK /\ FlowInv /\ ResultInv /\ ReportInv)
<1>1. Init => ReportInv
  BY ReportInit
<1>2. TypeOK /\ FlowInv /\ ResultInv /\ ReportInv /\ [Next]_vars => ReportInv'
  BY ReportNext
<1> QED
  BY <1>1, <1>2, TypeCorrect, FlowsCounted, ResultsAgree, PTL DEF Spec

(* What is new in the outbox after a retirement.                           *)
LEMMA NewReports ==
    ASSUME TypeOK, ReportInv, NEW js, NEW rs, NEW done, NEW kept,
           Retire(js, rs, done, kept)
    PROVE  outbox' \ outbox = Reports(js, done)
<1>1. outbox' = outbox \cup Reports(js, done)
  BY DEF Retire
<1>2. \A x \in Reports(js, done) : x.stamp = outboxSeq + 1
  BY DEF Reports, Report
<1>3. \A x \in outbox : x.stamp \in Nat /\ x.stamp <= outboxSeq
  BY DEF ReportInv, StampsBehind, TypeOK, OutboxEntry
<1>4. outboxSeq \in Nat
  BY DEF TypeOK
<1> QED
  BY <1>1, <1>2, <1>3, <1>4

(* Who is retired is reported as what it ended as.                         *)
LEMMA ReportedAs ==
    ASSUME TypeOK, ReportInv, NEW js, NEW rs, NEW done, NEW kept,
           Retire(js, rs, done, kept),
           NEW id \in done, Akin(js[id], jobs[id]), jobs[id].parent # None
    PROVE  Report(js[id]) \in ReportsOf(outbox' \ outbox, id)
<1>1. Report(js[id]) \in outbox' \ outbox
  BY NewReports DEF Reports, Akin
<1> QED
  BY <1>1 DEF ReportsOf, Report, Akin

(* Nobody else is reported as the child of that flow and key.              *)
LEMMA OneReport ==
    ASSUME TypeOK, ReportInv, NEW js, NEW rs, NEW done \in SUBSET JobIds,
           NEW kept, Retire(js, rs, done, kept),
           \A d \in done : SameJob(jobs[d], js[d]),
           NEW id \in done, jobs[id].parent # None
    PROVE  ReportsOf(outbox' \ outbox, id) = {Report(js[id])}
<1> SUFFICES ASSUME NEW x \in ReportsOf(outbox' \ outbox, id)
             PROVE  x = Report(js[id])
  BY ReportedAs DEF SameJob
<1>1. PICK d \in done : js[d].parent # None /\ x = Report(js[d])
  BY NewReports DEF ReportsOf, Reports
<1>2. d \in JobIds /\ jobs[d] # None /\ jobs[d].parent = js[d].parent
  BY <1>1 DEF SameJob, Akin
<1>3. jobs[d].parent \in ParentEnvelope /\ jobs[id].parent \in ParentEnvelope
  BY <1>1, <1>2 DEF SameJob, TypeOK, MemJob, Opt
<1>4. /\ jobs[d].parent.flowId = jobs[id].parent.flowId
      /\ jobs[d].parent.childKey = jobs[id].parent.childKey
  BY <1>1, <1>2 DEF ReportsOf, Report
<1>5. \A p, q \in ParentEnvelope :
          p.flowId = q.flowId /\ p.childKey = q.childKey => p = q
  BY DEF ParentEnvelope
<1>6. jobs[d].parent = jobs[id].parent
  BY <1>3, <1>4, <1>5
<1>7. d = id
  BY <1>2, <1>6, OneChildPerParent DEF SameJob, ReportInv
<1> QED
  BY <1>1, <1>7

(* The call that ends a job retires it in the state the call is about.     *)
LEMMA EndsFinished ==
    ASSUME TypeOK, FlowInv, ResultInv, NEW id \in JobIds, EndsNow(id),
           NEW state \in TerminalStates, NEW exit \in BOOLEAN,
           EndsAs(id, state, exit)
    PROVE  Finished(id, state, exit)
<1>1. CASE \E token \in Tokens : AckTerminal(id, token, state, exit)
  BY <1>1, AckTerminalEffect
<1>2. CASE state = "cancelled" /\ ~exit /\ CancelledNow(id)
  <2>1. CASE jobs[id].cancelRequested /\ RecoverStalled /\ id \in Stalled
    BY <1>2, <2>1, RecoverStalledEffect
  <2> QED
    BY <1>2, <2>1, CancelEffect, ReleaseEffect, AckRetryEffect,
       AckFanOutEffect DEF CancelledNow
<1>3. CASE /\ state = "failed" /\ ~exit
           /\ RecoverStalled /\ id \in Stalled /\ ~jobs[id].cancelRequested
  BY <1>3, RecoverStalledEffect
<1>4. CASE /\ state = "failed" /\ ~exit
           /\ \E k \in ChildKeys : ReportedNow(id, k)
  BY <1>4, RecordChildResultsEffect DEF ReportedNow
<1> QED
  BY <1>1, <1>2, <1>3, <1>4 DEF EndsAs

(* A child that ends is reported in that step, once, as what it ended as.  *)
LEMMA ReportOnStep ==
    TypeOK /\ FlowInv /\ ResultInv /\ ReportInv /\ [Next]_vars =>
        ReportWithTransitionStep
<1> SUFFICES ASSUME TypeOK, FlowInv, ResultInv, ReportInv, [Next]_vars
             PROVE  ReportWithTransitionStep
  OBVIOUS
<1>1. outbox \subseteq outbox' \/ jobs' = jobs
  BY Effects DEF Effect, QuietStep, InsertStep, DropStep, DeliverStep,
     RetireStep, Retire
<1>2. ASSUME NEW id \in JobIds, EndsNow(id), jobs[id].parent # None,
             ~Remove(id)
      PROVE  \E e \in outbox' \ outbox :
               /\ ReportsOf(outbox' \ outbox, id) = {e}
               /\ \A state \in TerminalStates, exit \in BOOLEAN :
                     EndsAs(id, state, exit) <=>
                         e.outcome = state /\ e.exit = exit
               /\ Has(jobs', id) =>
                     /\ e.outcome = jobs'[id].state /\ e.exit = jobs'[id].exit
                     /\ e.failedReason = jobs'[id].failedReason
  <2>1. /\ jobs[id] # None /\ ~Terminal(jobs[id])
        /\ jobs'[id] # None => Terminal(jobs'[id])
    BY <1>2 DEF EndsNow, Has
  <2>2. RetireStep
    <3>1. ~QuietStep /\ ~DropStep /\ ~DeliverStep
      BY <1>2, <2>1 DEF QuietStep, DropStep, DeliverStep, SameJob
    <3>2. ~InsertStep
      BY <2>1 DEF InsertStep, TypeOK
    <3> QED
      BY <3>1, <3>2, Effects DEF Effect
  <2>3. PICK js, rs, done, kept :
            /\ done \subseteq JobIds /\ kept \subseteq done
            /\ \A i \in JobIds : Ended(js, rs, done, i)
            /\ Retire(js, rs, done, kept)
    BY <2>2 DEF RetireStep
  <2>4. jobs'[id] = js[id] \/ (jobs'[id] = None /\ Terminal(js[id]))
    <3>1. \A d \in kept : js[d] # None /\ Terminal(js[d])
      BY <2>3 DEF Ended, SameJob
    <3> QED
      BY <2>3, <3>1, RetireDrops
  <2>5. id \in done
    BY <2>1, <2>3, <2>4 DEF Ended, SameJob
  <2> DEFINE e == Report(js[id])
  <2>6. ReportsOf(outbox' \ outbox, id) = {e}
    BY <1>2, <2>3, <2>5, OneReport DEF Ended
  <2>7. /\ e.outcome = js[id].state /\ e.exit = js[id].exit
        /\ e.failedReason = js[id].failedReason
    BY DEF Report
  <2> HIDE DEF e
  <2>8. ASSUME NEW state \in TerminalStates, NEW exit \in BOOLEAN,
               EndsAs(id, state, exit)
        PROVE  e.outcome = state /\ e.exit = exit
    <3>1. PICK js2, rs2, done2, kept2 :
              /\ Retire(js2, rs2, done2, kept2) /\ id \in done2
              /\ Akin(js2[id], jobs[id])
              /\ js2[id].state = state /\ js2[id].exit = exit
      BY <1>2, <2>8, EndsFinished DEF Finished
    <3>2. Report(js2[id]) = e
      BY <1>2, <2>6, <3>1, ReportedAs
    <3> QED
      BY <3>1, <3>2 DEF Report
  <2>9. EndsAs(id, e.outcome, e.exit)
    BY <2>3, <2>5, <2>7 DEF Ended
  <2>10. Has(jobs', id) => jobs'[id] = js[id]
    BY <2>4 DEF Has
  <2>11. e \in outbox' \ outbox
    BY <2>6 DEF ReportsOf
  <2>12. \A state \in TerminalStates, exit \in BOOLEAN :
             EndsAs(id, state, exit) <=> e.outcome = state /\ e.exit = exit
    BY <2>8, <2>9
  <2> QED
    BY <2>6, <2>7, <2>10, <2>11, <2>12
<1> QED
  BY <1>1, <1>2 DEF ReportWithTransitionStep

(* Whichever call ends a child of a flow, exactly one report of the        *)
(* outcome of that call is left for the relay in the same step, also when  *)
(* retention drops the record at once.                                     *)
THEOREM EndsAreReported == Spec => ReportWithTransition
<1>1. TypeOK /\ FlowInv /\ ResultInv /\ ReportInv /\ [Next]_vars =>
          [ReportWithTransitionStep]_vars
  BY ReportOnStep
<1> QED
  BY <1>1, ReportsInvariant, PTL DEF Spec, ReportWithTransition

-----------------------------------------------------------------------------
(* Retention by count                                                      *)

\* Who is over has been so since a time that has come.
FinishedBehind ==
    \A id \in JobIds : jobs[id] # None /\ Terminal(jobs[id]) =>
        jobs[id].finishedAt \in Nat /\ jobs[id].finishedAt <= now

(* The clock does not go back.                                             *)
LEMMA TimeForward ==
    ASSUME TypeOK, [Next]_vars
    PROVE  now' \in Nat /\ now <= now'
<1> SUFFICES now' = now \/ now' = now + 1
  BY DEF TypeOK
<1>1. CASE UNCHANGED vars
  BY <1>1 DEF vars
<1>2. CASE ProducerNext
  BY <1>2 DEF ProducerNext, Enqueue, EnqueueReplace, EnqueueExtend
<1>3. CASE WorkerNext
  <2>1. ASSUME NEW queue, NEW names, NEW lockMs, Claim(queue, names, lockMs)
        PROVE  now' = now
    BY <2>1 DEF Claim
  <2>2. ASSUME NEW queue, NEW names, ClaimEmpty(queue, names)
        PROVE  now' = now
    BY <2>2 DEF ClaimEmpty
  <2>3. ASSUME NEW id, NEW token, NEW state, NEW exit,
               AckTerminal(id, token, state, exit)
        PROVE  now' = now
    BY <2>3 DEF AckTerminal
  <2>4. ASSUME NEW id, NEW token, NEW delayMs, AckRetry(id, token, delayMs)
        PROVE  now' = now
    BY <2>4 DEF AckRetry
  <2>5. ASSUME NEW id, NEW token, NEW children, NEW failFast,
               AckFanOut(id, token, children, failFast)
        PROVE  now' = now
    BY <2>5 DEF AckFanOut
  <2>6. ASSUME NEW id, NEW token, Release(id, token) PROVE now' = now
    BY <2>6 DEF Release
  <2>7. ASSUME NEW id, NEW token, NEW lockMs, ExtendLocks(id, token, lockMs)
        PROVE  now' = now
    BY <2>7 DEF ExtendLocks
  <2>8. ASSUME RecoverStalled PROVE now' = now
    BY <2>8 DEF RecoverStalled
  <2>9. now' = now
    BY <1>3, <2>1, <2>2, <2>3, <2>4, <2>5, <2>6, <2>7, <2>8 DEF WorkerNext
  <2> QED
    BY <2>9
<1>4. CASE FlowNext
  BY <1>4 DEF FlowNext, RecordChildResults, MarkChildrenCascaded,
     DeleteOutbox, FlowSweepWork
<1>5. CASE AdminNext
  BY <1>5 DEF AdminNext, Cancel, CancelByDedupe, Retry, Promote, Remove,
     Pause, Resume, SweepHistory
<1>6. CASE Tick
  BY <1>6 DEF Tick
<1> QED
  BY <1>1, <1>2, <1>3, <1>4, <1>5, <1>6 DEF Next

(* A step that retires nobody ends nobody.                                 *)
LEMMA NobodyEnds ==
    ASSUME TypeOK, FlowInv, ResultInv, [Next]_vars, ~RetireStep,
           NEW id \in JobIds
    PROVE  \/ jobs'[id] = jobs[id]
           \/ jobs'[id] = None
           \/ ~Terminal(jobs'[id])
<1>1. CASE InsertStep
  <2>1. PICK r \in Requests, i \in JobIds :
            jobs' = [jobs EXCEPT ![i] = NewJob(r)]
    BY <1>1 DEF InsertStep
  <2>2. ~Terminal(NewJob(r))
    BY DEF NewJob, Terminal, TerminalStates
  <2> QED
    BY <2>1, <2>2 DEF TypeOK
<1> QED
  BY <1>1, Effects DEF Effect, QuietStep, DropStep, DeliverStep

(* Who ends in a step ends at the present.                                 *)
LEMMA FinishedBehindStep ==
    ASSUME TypeOK, FlowInv, ResultInv, FinishedBehind, [Next]_vars
    PROVE  FinishedBehind'
<1> SUFFICES ASSUME NEW id \in JobIds, jobs'[id] # None, Terminal(jobs'[id])
             PROVE  jobs'[id].finishedAt \in Nat /\ jobs'[id].finishedAt <= now'
  BY DEF FinishedBehind
<1>1. now \in Nat /\ now' \in Nat /\ now <= now'
  BY TimeForward DEF TypeOK
<1>2. jobs'[id] = jobs[id] \/ jobs'[id].finishedAt = now
  <2>1. CASE RetireStep
    <3>1. PICK js, rs, done, kept :
              Ended(js, rs, done, id) /\ Retire(js, rs, done, kept)
      BY <2>1 DEF RetireStep
    <3>2. jobs'[id] = js[id]
      BY <3>1 DEF Retire, Without
    <3> QED
      BY <3>1, <3>2 DEF Ended
  <2> QED
    BY <2>1, NobodyEnds
<1> QED
  BY <1>1, <1>2 DEF FinishedBehind

\* The records of the group of q, newer than q, that the policy of p judged.
JudgedPeers(js, p, q) == {r \in NewerPeers(js, q) : Judged(js, p, r)}

\* KeepCountHolds for the policy of p and a record q of its group.
Bounded(js, p, q) ==
    Cardinality(JudgedPeers(js, p, q)) < KeepCount(js[p])

(* A policy counts in natural numbers.                                     *)
LEMMA CountType ==
    ASSUME NEW j \in MemJob, Terminal(j), KeepCount(j) # None
    PROVE  KeepCount(j) \in Nat
<1>1. j.keep \in Opt(KeepPolicy)
  BY DEF MemJob
<1>2. KeepPolicyFor(j.keep, j.state) \in Opt(KeepStatePolicy)
  BY <1>1 DEF KeepPolicyFor, KeepPolicy, Opt, Terminal
<1> QED
  BY <1>2 DEF KeepCount, KeepStatePolicy, Opt

(* Fewer ids count less.                                                   *)
LEMMA FewerCount ==
    ASSUME NEW S \in SUBSET JobIds, NEW T \in SUBSET S
    PROVE  /\ Cardinality(S) \in Nat /\ Cardinality(T) \in Nat
           /\ Cardinality(T) <= Cardinality(S)
<1>1. IsFiniteSet(S)
  BY ConstantsAssumption, FS_Subset
<1> QED
  BY <1>1, FS_Subset, FS_CardinalityType

(* Some turn is the last.                                                  *)
LEMMA LastTurn ==
    ASSUME NEW kept, IsFiniteSet(kept), NEW turn \in Turns(kept),
           NEW S \in SUBSET kept, S # {}
    PROVE  \E d \in S : \A e \in S : ~(turn[e] > turn[d])
<1> DEFINE n == Cardinality(kept)
           R == OpToRel(<, Nat)
           left == {n - turn[e] : e \in S}
<1>1. n \in Nat /\ \A e \in kept : turn[e] \in 1..n
  BY FS_CardinalityType DEF Turns
<1> HIDE DEF n
<1>2. left \subseteq Nat /\ left # {}
  BY <1>1
<1>3. IsWellFoundedOn(R, Nat)
  BY NatLessThanWellFounded
<1>4. PICK m \in left : \A l \in left : <<l, m>> \notin R
  <2> HIDE DEF R, left
  <2> QED
    BY <1>2, <1>3, WFMin
<1>5. PICK d \in S : m = n - turn[d]
  BY <1>4
<1>6. ASSUME NEW e \in S PROVE ~(turn[e] > turn[d])
  <2>1. n - turn[e] \in left /\ n - turn[e] \in Nat /\ n - turn[d] \in Nat
    BY <1>1
  <2>2. <<n - turn[e], n - turn[d]>> \notin R
    BY <1>4, <1>5, <2>1
  <2>3. ~(n - turn[e] < n - turn[d])
    BY <2>1, <2>2, Zenon DEF OpToRel
  <2>4. turn[e] \in Int /\ turn[d] \in Int
    BY <1>1
  <2> QED
    BY <1>1, <2>3, <2>4
<1> QED
  BY <1>6

(* A bound stands while nobody joins the group.                            *)
LEMMA CountOfUntouched ==
    ASSUME KeepCountHolds, NEW p \in JobIds, NEW q \in JobIds,
           jobs'[p] = jobs[p], jobs'[q] = jobs[q],
           jobs[p] # None, jobs[p] \in MemJob,
           jobs[p].state \in {"completed", "cancelled"},
           KeepCount(jobs[p]) # None,
           q \in Peers(jobs, p), jobs[q].flow = None, Judged(jobs, p, q),
           \A r \in JudgedPeers(jobs', p, q) : jobs'[r] = jobs[r]
    PROVE  Bounded(jobs', p, q)
<1>1. JudgedPeers(jobs', p, q) \subseteq JudgedPeers(jobs, p, q)
  BY DEF JudgedPeers, NewerPeers, Peers, Judged, Has
<1>2. JudgedPeers(jobs, p, q) \subseteq JobIds
  BY DEF JudgedPeers, NewerPeers, Peers
<1>3. Bounded(jobs, p, q)
  BY DEF KeepCountHolds, Bounded, JudgedPeers, Has
<1>4. KeepCount(jobs[p]) \in Nat
  BY CountType DEF Terminal, TerminalStates
<1> HIDE DEF KeepCountHolds
<1>5. /\ Cardinality(JudgedPeers(jobs', p, q)) \in Nat
      /\ Cardinality(JudgedPeers(jobs, p, q)) \in Nat
      /\ Cardinality(JudgedPeers(jobs', p, q))
             <= Cardinality(JudgedPeers(jobs, p, q))
  BY <1>1, <1>2, FewerCount
<1> QED
  BY <1>3, <1>4, <1>5 DEF Bounded

(* Retirement leaves the group of p within its count: who applied that     *)
(* policy last saw every record of the group that is left.                 *)
LEMMA CountOfRetired ==
    ASSUME TypeOK, FlowInv, ResultInv, FinishedBehind, KeepCountHolds,
           TypeOK', FlowInv', RetireStep,
           NEW p \in JobIds, jobs'[p] # None,
           jobs'[p].state \in {"completed", "cancelled"},
           KeepCount(jobs'[p]) # None,
           NEW q \in Peers(jobs', p), jobs'[q].flow = None,
           Judged(jobs', p, q)
    PROVE  Bounded(jobs', p, q)
<1>1. PICK js, rs, done, kept :
          /\ done \subseteq JobIds /\ kept \subseteq done
          /\ \A i \in done : js[i].state # "failed" => i \in kept
          /\ \A i \in JobIds : Ended(js, rs, done, i)
          /\ Retire(js, rs, done, kept)
  BY DEF RetireStep
<1>2. PICK turn \in Turns(kept), drops \in [kept -> SUBSET JobIds] :
          /\ \A d \in kept :
                drops[d] = KeepVictims(AtTurn(js, turn, drops, d), rs, d)
          /\ jobs' = Without(js, UNION {drops[d] : d \in kept}, None)
          /\ flowChildren' = Without(rs, UNION {drops[d] : d \in kept}, NoRows)
  BY <1>1 DEF Retire
<1> DEFINE group == {r \in Peers(jobs', p) : Judged(jobs', p, r)}
           like == {d \in kept : /\ js[d].name = js[p].name
                                 /\ js[d].state = js[p].state
                                 /\ js[d].keep = js[p].keep}
<1>3. /\ q \in group /\ q \in JobIds /\ JudgedPeers(jobs', p, q) \subseteq group
      /\ group \subseteq JobIds
  BY DEF Peers, JudgedPeers, NewerPeers
<1>4. \A x \in JobIds : jobs'[x] # None =>
          /\ jobs'[x] = js[x] /\ flowChildren'[x] = rs[x]
          /\ \A d \in kept : x \notin drops[d]
  BY <1>2 DEF Without
<1>5. /\ js[p] = jobs'[p] /\ js[p].state \in {"completed", "cancelled"}
      /\ jobs'[p] \in MemJob /\ KeepCount(js[p]) \in Nat
  <2>1. jobs'[p] \in MemJob
    BY DEF TypeOK, Opt
  <2> QED
    BY <1>4, <2>1, CountType DEF Terminal, TerminalStates
<1>6. \A x \in group :
          /\ jobs'[x] # None /\ js[x] = jobs'[x]
          /\ js[x].name = js[p].name /\ js[x].state = js[p].state
          /\ js[x].keep = js[p].keep \/ js[x].finishedAt < js[p].finishedAt
  BY <1>3, <1>4, <1>5 DEF Peers, Judged, Has
<1>7. ASSUME NEW x \in JobIds, jobs'[x] # None, Terminal(js[x]), x \notin done
      PROVE  js[x] = jobs[x]
  BY <1>1, <1>7 DEF Ended
<1>8. /\ now \in Nat /\ js[p].finishedAt \in Nat /\ js[p].finishedAt <= now
  <2>1. now \in Nat
    BY DEF TypeOK
  <2>2. CASE p \in done
    BY <1>1, <2>1, <2>2 DEF Ended
  <2>3. CASE p \notin done
    <3>1. js[p] = jobs[p] /\ Terminal(jobs[p])
      BY <1>5, <1>7, <2>3 DEF Terminal, TerminalStates
    <3> QED
      BY <1>5, <2>1, <3>1 DEF FinishedBehind
  <2> QED
    BY <2>2, <2>3
<1>9. ASSUME NEW x \in group, x \in done PROVE x \in like
  <2>1. x \in kept
    BY <1>1, <1>5, <1>6, <1>9
  <2>2. js[x].finishedAt = now
    BY <1>1, <1>9 DEF Ended
  <2>3. js[x].keep = js[p].keep
    BY <1>6, <1>8, <1>9, <2>2
  <2> QED
    BY <1>6, <1>9, <2>1, <2>3
<1> HIDE DEF group
<1>10. p \in group
  BY DEF group, Peers, Judged, Has
<1>11. CASE like = {}
  <2>1. \A x \in group : jobs'[x] = jobs[x]
    <3> SUFFICES ASSUME NEW x \in group PROVE jobs'[x] = jobs[x]
      OBVIOUS
    <3>1. x \in JobIds /\ x \notin done /\ Terminal(js[x])
      BY <1>3, <1>5, <1>6, <1>9, <1>11 DEF Terminal, TerminalStates
    <3> QED
      BY <1>6, <1>7, <3>1
  <2>2. jobs'[p] = jobs[p] /\ jobs'[q] = jobs[q]
    BY <1>3, <1>10, <2>1
  <2>3. /\ q \in Peers(jobs, p) /\ jobs[q].flow = None /\ Judged(jobs, p, q)
        /\ jobs[p] # None /\ jobs[p] \in MemJob
        /\ jobs[p].state \in {"completed", "cancelled"}
        /\ KeepCount(jobs[p]) # None
    BY <1>5, <2>2 DEF Peers, Judged, Has
  <2>4. \A r \in JudgedPeers(jobs', p, q) : jobs'[r] = jobs[r]
    BY <1>3, <2>1
  <2> QED
    BY <1>3, <2>2, <2>3, <2>4, CountOfUntouched
<1>12. CASE like # {}
  <2>1. IsFiniteSet(kept)
    BY <1>1, ConstantsAssumption, FS_Subset
  <2>2. PICK d \in like : \A e \in like : ~(turn[e] > turn[d])
    BY <1>12, <2>1, LastTurn
  <2> DEFINE at == AtTurn(js, turn, drops, d)
  <2>3. d \in kept /\ d \in JobIds /\ js[d] # None /\ DOMAIN turn = kept
    BY <1>1, <2>2 DEF Ended, SameJob, Turns
  <2>4. ASSUME NEW x \in group PROVE at[x] = js[x]
    <3>1. x \in JobIds /\ jobs'[x] # None
      BY <1>3, <1>6
    <3>2. ~(x \in kept /\ turn[x] > turn[d])
      BY <1>1, <1>9, <2>2
    <3>3. \A e \in kept : x \notin drops[e]
      BY <1>4, <3>1
    <3> QED
      BY <2>3, <3>1, <3>2, <3>3 DEF AtTurn, Without
  <2>5. at[d] = js[d]
    BY <2>3 DEF AtTurn, Without
  <2> HIDE DEF at
  <2>6. KeepPolicyFor(at[d].keep, at[d].state) =
            KeepPolicyFor(js[p].keep, js[p].state)
    BY <2>2, <2>5
  <2>7. /\ KeepPolicyFor(js[p].keep, js[p].state) # None
        /\ KeepPolicyFor(js[p].keep, js[p].state).count = KeepCount(js[p])
        /\ KeepCount(js[p]) # None
    BY <1>5 DEF KeepCount
  <2>8. q \in Peers(at, d)
    BY <1>3, <1>6, <2>2, <2>4, <2>5 DEF Peers, Has
  <2>9. ~OwesCascades(rs[q])
    <3>1. CountersMatch(jobs'[q].flow, flowChildren'[q])
      BY <1>3, <1>6 DEF FlowInv, Has
    <3>2. rs[q] = NoRows
      BY <1>3, <1>4, <1>6, <3>1 DEF CountersMatch
    <3> QED
      BY <3>2 DEF OwesCascades, WithStatus, NoRows
  <2>10. q \notin KeepVictims(at, rs, d)
    BY <1>2, <1>3, <1>4, <1>6, <2>3 DEF at
  <2>11. ~BeyondCount(at, q, KeepCount(js[p]))
    BY <2>6, <2>7, <2>8, <2>9, <2>10 DEF KeepVictims
  <2>12. JudgedPeers(jobs', p, q) \subseteq NewerPeers(at, q)
    <3> SUFFICES ASSUME NEW r \in JudgedPeers(jobs', p, q)
                 PROVE  r \in NewerPeers(at, q)
      OBVIOUS
    <3>1. /\ r \in group /\ at[r] = jobs'[r] /\ at[q] = jobs'[q]
          /\ jobs'[r] # None
      BY <1>3, <1>6, <2>4
    <3> QED
      BY <3>1 DEF JudgedPeers, NewerPeers, Peers, Has
  <2>13. NewerPeers(at, q) \subseteq JobIds
    BY DEF NewerPeers, Peers
  <2>14. /\ Cardinality(JudgedPeers(jobs', p, q)) \in Nat
         /\ Cardinality(NewerPeers(at, q)) \in Nat
         /\ Cardinality(JudgedPeers(jobs', p, q))
                <= Cardinality(NewerPeers(at, q))
    BY <2>12, <2>13, FewerCount
  <2> QED
    BY <1>5, <2>11, <2>14 DEF Bounded, BeyondCount
<1> QED
  BY <1>11, <1>12

(* Every step leaves each policy's group of records within its count.      *)
LEMMA CountStep ==
    ASSUME TypeOK, FlowInv, ResultInv, FinishedBehind, KeepCountHolds,
           TypeOK', FlowInv', [Next]_vars
    PROVE  KeepCountHolds'
<1> SUFFICES ASSUME NEW p \in JobIds, jobs'[p] # None,
                    jobs'[p].state \in {"completed", "cancelled"},
                    KeepCount(jobs'[p]) # None,
                    NEW q \in Peers(jobs', p), jobs'[q].flow = None,
                    Judged(jobs', p, q)
             PROVE  Bounded(jobs', p, q)
  BY DEF KeepCountHolds, Bounded, JudgedPeers, Has
<1>1. CASE RetireStep
  BY <1>1, CountOfRetired
<1>2. CASE ~RetireStep
  <2>1. \A x \in JobIds :
            jobs'[x] # None /\ Terminal(jobs'[x]) => jobs'[x] = jobs[x]
    BY <1>2, NobodyEnds
  <2>2. \A x \in Peers(jobs', p) : x \in JobIds /\ jobs'[x] = jobs[x]
    BY <2>1 DEF Peers, Has, Terminal, TerminalStates
  <2>3. p \in Peers(jobs', p) /\ JudgedPeers(jobs', p, q) \subseteq Peers(jobs', p)
    BY DEF Peers, JudgedPeers, NewerPeers, Has
  <2>4. jobs'[p] = jobs[p] /\ jobs'[q] = jobs[q] /\ q \in JobIds
    BY <2>2, <2>3
  <2>5. jobs[p] \in MemJob
    BY <2>4 DEF TypeOK, Opt
  <2>6. /\ q \in Peers(jobs, p) /\ jobs[q].flow = None /\ Judged(jobs, p, q)
        /\ jobs[p] # None
        /\ jobs[p].state \in {"completed", "cancelled"}
        /\ KeepCount(jobs[p]) # None
    BY <2>4 DEF Peers, Judged, Has
  <2>7. \A r \in JudgedPeers(jobs', p, q) : jobs'[r] = jobs[r]
    BY <2>2, <2>3
  <2> QED
    BY <2>4, <2>5, <2>6, <2>7, CountOfUntouched
<1> QED
  BY <1>1, <1>2

(* Whatever policies the jobs of a name carry: of the completed, or        *)
(* cancelled, records that a policy with a count found when it was last    *)
(* applied, no more are left than it counts (flow parents apart).          *)
THEOREM CountsKept == Spec => []KeepCountHolds
<1>1. Spec => [](TypeOK /\ FlowInv /\ ResultInv)
  BY TypeCorrect, FlowsCounted, ResultsAgree, PTL
<1>2. Init => FinishedBehind /\ KeepCountHolds
  BY DEF Init, FinishedBehind, KeepCountHolds, Has
<1>3. TypeOK /\ FlowInv /\ ResultInv /\ TypeOK' /\ FlowInv'
          /\ FinishedBehind /\ KeepCountHolds /\ [Next]_vars
          => FinishedBehind' /\ KeepCountHolds'
  BY FinishedBehindStep, CountStep
<1> QED
  BY <1>1, <1>2, <1>3, PTL DEF Spec

=============================================================================
