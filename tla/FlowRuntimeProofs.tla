------------------------- MODULE FlowRuntimeProofs -------------------------
(***************************************************************************)
(* The flow runtime's rows and cancels, for every value of the constants:  *)
(* what a row says of a child is what the child's store has recorded       *)
(* (RowsTruthful), and sweepers that do not crash leave no orphan behind   *)
(* (SweepersLeaveNoOrphan).                                                *)
(***************************************************************************)
EXTENDS FlowRuntimeStores

-----------------------------------------------------------------------------
(* What a step makes of the children's records                             *)

\* The job runs or may still run, and nobody asked for its cancellation.
Lives(j) == j # None /\ j.state \notin Outcomes /\ ~j.cancelRequested

\* Record j may take the place of record i.
Carried(i, j) ==
    /\ i # None /\ j # None
    /\ j.keep = i.keep /\ j.parent = i.parent
    /\ \/ j.attempts = i.attempts
       \/ \E outcome \in CT!AttemptOutcomes :
             /\ j.attempts = Append(i.attempts, outcome)
             /\ outcome = "cancelled" => j.state = "cancelled"
    /\ i.state = "cancelled" => j.state = "cancelled"
    /\ Lives(j) => Lives(i)

\* Entry e is the report of the end of child c.
ReportOfEnd(c, e) ==
    /\ e.flowId = c[1] /\ e.childKey = c[2]
    /\ cJobs'[c] # None /\ cJobs'[c].state \in Outcomes
    /\ e.outcome = cJobs'[c].state

Inserted(c) ==
    /\ cJobs[c] = None
    /\ cJobs' = [cJobs EXCEPT ![c] = CT!NewJob(ChildRequest(c))]
    /\ cSeq' = cSeq + 1 /\ cOutbox' = cOutbox
    /\ EnqueuedBySomeone(c)

Revived(c) ==
    /\ cJobs[c] # None /\ cJobs[c].state = "failed"
    /\ cJobs' = [cJobs EXCEPT ![c] = CT!Revive(cJobs[c])]
    /\ cSeq' = cSeq + 1 /\ cOutbox' = cOutbox
    /\ OperatorRetriesChild(c)

CarriedOn ==
    /\ cSeq' = cSeq
    /\ \A c \in ChildIds :
          cJobs'[c] = cJobs[c] \/ Carried(cJobs[c], cJobs'[c])
    /\ \A e \in cOutbox' \ cOutbox : \E c \in ChildIds : ReportOfEnd(c, e)

ChildEffect ==
    (\E c \in ChildIds : Inserted(c) \/ Revived(c)) \/ CarriedOn

\* Children have no retention policy and know their parent.
FreshChildren ==
    \A c \in ChildIds : cJobs[c] # None =>
        /\ cJobs[c].keep = None
        /\ cJobs[c].parent = [flowId |-> c[1], childKey |-> c[2]]

LEMMA ChildRecord ==
    ASSUME CT!TypeOK, NEW c \in ChildIds, cJobs[c] # None
    PROVE  cJobs[c] \in CT!MemJob
BY DEF CT!TypeOK, CT!Opt

(* A child that is finished is carried on, and is over.                    *)
LEMMA FinishCarries ==
    ASSUME NEW i \in CT!MemJob, i.state \notin Outcomes,
           NEW j \in CT!MemJob, j.keep = i.keep, j.parent = i.parent,
           j.attempts = i.attempts, NEW state \in Outcomes, now \in Nat
    PROVE  /\ Carried(i, CT!Finish(j, state))
           /\ CT!Finish(j, state).state = state
<1> DEFINE k == CT!Finish(j, state)
<1>1. state \in CT!TerminalStates /\ state \in CT!AttemptOutcomes
  BY DEF Outcomes, CT!TerminalStates, CT!AttemptOutcomes
<1>2. k \in CT!MemJob
  BY <1>1, CT!FinishType, ChildConstants, ChildNone, ChildRequests
<1>3. /\ k.keep = j.keep /\ k.parent = j.parent /\ k.state = state
      /\ k.attempts = Append(j.attempts, state)
  BY DEF CT!Finish, CT!RecordAttempt, CT!ClearLock, CT!MemJob
<1>4. i # None /\ k # None
  BY <1>2, ChildNone
<1> HIDE DEF k
<1>5. ~Lives(k)
  BY <1>3 DEF Lives
<1>6. \E outcome \in CT!AttemptOutcomes :
         /\ k.attempts = Append(i.attempts, outcome)
         /\ outcome = "cancelled" => k.state = "cancelled"
  BY <1>1, <1>3
<1>7. i.state # "cancelled"
  BY DEF Outcomes
<1> QED
  BY <1>3, <1>4, <1>5, <1>6, <1>7 DEF Carried, k

(* Nothing is pruned: no child has a retention policy.                     *)
LEMMA RetireKeepsChildren ==
    ASSUME NEW js, js = [c \in ChildIds |-> js[c]], NEW rs, NEW done,
           NEW kept \in SUBSET ChildIds, \A c \in kept : js[c].keep = None,
           CT!Retire(js, rs, done, kept)
    PROVE  cJobs' = js /\ cOutbox' = cOutbox \cup CT!Reports(js, done)
<1>1. PICK turn \in CT!Turns(kept), drops \in [kept -> SUBSET ChildIds] :
          /\ \A c \in kept :
                drops[c] =
                    CT!KeepVictims(CT!AtTurn(js, turn, drops, c), rs, c)
          /\ cJobs' = CT!Without(js, UNION {drops[c] : c \in kept}, None)
          /\ cOutbox' = cOutbox \cup CT!Reports(js, done)
  BY DEF CT!Retire
<1>2. ASSUME NEW c \in kept PROVE drops[c] = {}
  <2> DEFINE at == CT!AtTurn(js, turn, drops, c)
  <2>1. at[c] = js[c]
    BY DEF CT!AtTurn, CT!Without
  <2>2. at[c].keep = None
    BY <2>1
  <2>3. drops[c] = CT!KeepVictims(at, rs, c)
    BY <1>1
  <2> HIDE DEF at
  <2> QED
    BY <2>2, <2>3 DEF CT!KeepVictims, CT!KeepPolicyFor
<1>3. UNION {drops[c] : c \in kept} = {}
  BY <1>2
<1>4. cJobs' = [c \in ChildIds |-> js[c]]
  BY <1>1, <1>3 DEF CT!Without
<1> QED
  BY <1>1, <1>4

(* What is reported are the ends of the children that end.                 *)
LEMMA ReportsOfEnds ==
    ASSUME NEW js, NEW done \in SUBSET ChildIds, cJobs' = js,
           \A c \in done : /\ js[c] # None /\ js[c].state \in Outcomes
                           /\ js[c].parent = [flowId |-> c[1],
                                              childKey |-> c[2]],
           cOutbox' = cOutbox \cup CT!Reports(js, done)
    PROVE  \A e \in cOutbox' \ cOutbox : \E c \in ChildIds : ReportOfEnd(c, e)
<1> SUFFICES ASSUME NEW e \in CT!Reports(js, done)
             PROVE  \E c \in ChildIds : ReportOfEnd(c, e)
  OBVIOUS
<1>1. PICK c \in done : e = CT!Report(js[c])
  BY DEF CT!Reports
<1>2. /\ e.flowId = js[c].parent.flowId /\ e.childKey = js[c].parent.childKey
      /\ e.outcome = js[c].state
  BY <1>1 DEF CT!Report
<1>3. js[c].parent = [flowId |-> c[1], childKey |-> c[2]]
  OBVIOUS
<1>4. e.flowId = c[1] /\ e.childKey = c[2]
  BY <1>2, <1>3
<1> QED
  BY <1>2, <1>4 DEF ReportOfEnd

(* A child that is not over is carried on by a change of its state.        *)
LEMMA RestateCarries ==
    ASSUME NEW i \in CT!MemJob, i.state \notin Outcomes, NEW j \in CT!MemJob,
           j.keep = i.keep, j.parent = i.parent, j.attempts = i.attempts,
           i.cancelRequested => j.cancelRequested
    PROVE  Carried(i, j)
BY ChildNone DEF Carried, Lives, Outcomes

(* claim                                                                   *)
LEMMA ClaimCarries ==
    ASSUME CT!TypeOK, CT!Claim("children", {"child"}, 1)
    PROVE  CarriedOn
<1> DEFINE js == CT!PromoteDue(cJobs)
<1>1. ASSUME NEW c \in ChildIds, cJobs[c] # None
      PROVE  /\ js[c] \in CT!MemJob
             /\ js[c].keep = cJobs[c].keep /\ js[c].parent = cJobs[c].parent
             /\ js[c].attempts = cJobs[c].attempts
             /\ js[c].cancelRequested = cJobs[c].cancelRequested
             /\ js[c] = cJobs[c] \/ cJobs[c].state \notin Outcomes
  <2>1. cJobs[c] \in CT!MemJob
    BY <1>1, ChildRecord
  <2>2. [cJobs[c] EXCEPT !.state = "waiting"] \in CT!MemJob
    BY <2>1 DEF CT!MemJob, CT!JobStates
  <2> QED
    BY <2>1, <2>2 DEF CT!PromoteDue, CT!Has, Outcomes, CT!MemJob
<1>2. \A c \in ChildIds : cJobs[c] = None => js[c] = None
  BY DEF CT!PromoteDue, CT!Has
<1>3. \A c \in ChildIds : js[c] = cJobs[c] \/ Carried(cJobs[c], js[c])
  BY <1>1, <1>2, ChildRecord, RestateCarries
<1>4. PICK best \in ChildIds :
         /\ js[best] # None /\ js[best].state = "waiting"
         /\ cJobs' = [js EXCEPT
                         ![best] = CT!Claimed(js[best], cToken + 1, 1)]
  BY DEF CT!Claim, CT!Claimable, CT!Has
<1>5. js = [c \in ChildIds |-> js[c]]
  BY DEF CT!PromoteDue
<1>6. now \in Nat /\ cToken \in Nat
  BY DEF CT!TypeOK
<1> HIDE DEF js
<1>7. Carried(cJobs[best], cJobs'[best])
  <2>1. cJobs[best] # None
    BY <1>2, <1>4
  <2>2. cJobs[best].state \notin Outcomes
    BY <1>1, <1>4, <2>1 DEF Outcomes
  <2> DEFINE j == CT!Claimed(js[best], cToken + 1, 1)
  <2>3. cJobs'[best] = j
    BY <1>4, <1>5
  <2>4. j \in CT!MemJob
    BY <1>1, <1>6, <2>1, CT!ClaimedType, ChildConstants, ChildNone,
       ChildRequests
  <2>5. /\ j.keep = js[best].keep /\ j.parent = js[best].parent
        /\ j.attempts = js[best].attempts
        /\ j.cancelRequested = js[best].cancelRequested
    BY <1>1, <2>1 DEF CT!Claimed, CT!MemJob
  <2> HIDE DEF j
  <2> QED
    BY <1>1, <2>1, <2>2, <2>3, <2>4, <2>5, ChildRecord, RestateCarries
<1>8. \A c \in ChildIds : cJobs'[c] = cJobs[c] \/ Carried(cJobs[c], cJobs'[c])
  BY <1>3, <1>4, <1>5, <1>7
<1> QED
  BY <1>8 DEF CT!Claim, CarriedOn

(* A child ends.                                                           *)
LEMMA EndCarries ==
    ASSUME CT!TypeOK, FreshChildren, NEW c \in ChildIds,
           cJobs[c] # None, cJobs[c].state \notin Outcomes,
           NEW j \in CT!MemJob, j.keep = cJobs[c].keep,
           j.parent = cJobs[c].parent, j.attempts = cJobs[c].attempts,
           NEW state \in Outcomes, NEW rs, cSeq' = cSeq,
           CT!Retire([cJobs EXCEPT ![c] = CT!Finish(j, state)], rs, {c}, {c})
    PROVE  /\ CarriedOn
           /\ cJobs' = [cJobs EXCEPT ![c] = CT!Finish(j, state)]
           /\ cJobs'[c].state = state
<1> DEFINE k == CT!Finish(j, state)
           js == [cJobs EXCEPT ![c] = k]
<1>1. Carried(cJobs[c], k) /\ k.state = state
  BY ChildRecord, FinishCarries DEF CT!TypeOK
<1> HIDE DEF k
<1>2. js = [d \in ChildIds |-> IF d = c THEN k ELSE cJobs[d]]
  BY DEF CT!TypeOK
<1>3. js = [d \in ChildIds |-> js[d]] /\ js[c] = k
  BY <1>2
<1>4. k # None /\ k.keep = None
      /\ k.parent = [flowId |-> c[1], childKey |-> c[2]]
  BY <1>1 DEF Carried, FreshChildren
<1>5. CT!Retire(js, rs, {c}, {c})
  BY DEF k
<1> HIDE DEF js
<1>6. cJobs' = js /\ cOutbox' = cOutbox \cup CT!Reports(js, {c})
  BY <1>3, <1>4, <1>5, RetireKeepsChildren
<1>7. \A e \in cOutbox' \ cOutbox : \E d \in ChildIds : ReportOfEnd(d, e)
  <2>1. {c} \in SUBSET ChildIds /\ js[c].state \in Outcomes
    BY <1>1, <1>3
  <2>2. js[c] # None /\ js[c].parent = [flowId |-> c[1], childKey |-> c[2]]
    BY <1>3, <1>4
  <2> QED
    BY <1>6, <2>1, <2>2, ReportsOfEnds
<1>8. \A d \in ChildIds : cJobs'[d] = cJobs[d] \/ Carried(cJobs[d], cJobs'[d])
  BY <1>1, <1>2, <1>6 DEF js
<1> QED
  BY <1>1, <1>3, <1>6, <1>7, <1>8 DEF CarriedOn, js, k

(* ack                                                                     *)
LEMMA AckCarries ==
    ASSUME CT!TypeOK, FreshChildren, NEW c \in ChildIds, NEW token,
           NEW state \in Outcomes, NEW exit \in BOOLEAN,
           CT!AckTerminal(c, token, state, exit)
    PROVE  CarriedOn
<1> DEFINE i == cJobs[c]
           a == [CT!ClearLock(i) EXCEPT !.attemptsMade = @ + 1]
           j == [a EXCEPT !.exit = IF state = "cancelled" THEN @ ELSE exit]
<1>1. i \in CT!MemJob /\ i # None /\ i.state = "active"
  BY ChildRecord DEF CT!AckTerminal, CT!Held, CT!Has
<1>2. a \in CT!MemJob
  <2>1. CT!Has(cJobs, c)
    BY <1>1 DEF CT!Has
  <2>2. CT!Acked(c) \in CT!MemJob
    BY <2>1, CT!AckedType, ChildConstants, ChildNone, ChildRequests
  <2> QED
    BY <2>2 DEF CT!Acked
<1>3. a.keep = i.keep /\ a.parent = i.parent /\ a.attempts = i.attempts
  BY <1>1 DEF CT!ClearLock, CT!MemJob
<1>4. a.exit \in BOOLEAN
  BY <1>2 DEF CT!MemJob
<1> HIDE DEF a
<1>5. j \in CT!MemJob
  BY <1>2, <1>4 DEF CT!MemJob
<1>6. j.keep = i.keep /\ j.parent = i.parent /\ j.attempts = i.attempts
  BY <1>2, <1>3 DEF CT!MemJob
<1>7. CT!Acked(c) = a
  BY DEF CT!Acked, a
<1>8. \E rs : CT!Retire([cJobs EXCEPT ![c] = CT!Finish(j, state)], rs, {c}, {c})
  BY <1>7 DEF CT!AckTerminal
<1>9. cSeq' = cSeq
  BY DEF CT!AckTerminal
<1> HIDE DEF j
<1> QED
  BY <1>1, <1>5, <1>6, <1>8, <1>9, EndCarries DEF Outcomes

(* cancel: the child is over, or flagged.                                  *)
LEMMA CancelCarries ==
    ASSUME CT!TypeOK, FreshChildren, NEW c \in ChildIds, CT!Cancel(c)
    PROVE  CarriedOn /\ ~Lives(cJobs'[c])
<1> DEFINE i == cJobs[c]
<1>1. i \in CT!MemJob /\ i # None
  BY ChildRecord DEF CT!Cancel, CT!Has
<1>2. cSeq' = cSeq
  BY DEF CT!Cancel
<1>3. ASSUME i.state \in {"waiting", "delayed", "waiting-children"},
             CT!MarkCancelled(c, i)
      PROVE  CarriedOn /\ ~Lives(cJobs'[c])
  <2> PICK flow, rs :
         /\ flow = IF i.state = "waiting-children"
                   THEN CT!SettleFlow(i.flow, [k \in ChildKeys |-> None])
                   ELSE i.flow
         /\ CT!Retire([cJobs EXCEPT ![c] =
                          CT!Finish([i EXCEPT !.flow = flow], "cancelled")],
                      rs, {c}, {c})
    BY <1>3 DEF CT!MarkCancelled
  <2>1. flow \in CT!Opt(CT!FlowState)
    BY <1>1, CT!SettleFlowType, ChildConstants, ChildNone, ChildRequests
       DEF CT!MemJob
  <2> DEFINE j == [i EXCEPT !.flow = flow]
  <2>2. /\ j \in CT!MemJob /\ j.keep = i.keep /\ j.parent = i.parent
        /\ j.attempts = i.attempts
    BY <1>1, <2>1 DEF CT!MemJob
  <2>3. i.state \notin Outcomes /\ "cancelled" \in Outcomes
    BY <1>3 DEF Outcomes
  <2> HIDE DEF j
  <2>4. CarriedOn /\ cJobs'[c].state = "cancelled"
    BY <1>1, <1>2, <2>2, <2>3, EndCarries DEF j
  <2> QED
    BY <2>3, <2>4 DEF Lives
<1>4. ASSUME i.state = "active",
             cJobs' = [cJobs EXCEPT ![c].cancelRequested = TRUE],
             cOutbox' = cOutbox
      PROVE  CarriedOn /\ ~Lives(cJobs'[c])
  <2> DEFINE j == [i EXCEPT !.cancelRequested = TRUE]
  <2>1. /\ j \in CT!MemJob /\ j.keep = i.keep /\ j.parent = i.parent
        /\ j.attempts = i.attempts /\ j.cancelRequested = TRUE
    BY <1>1 DEF CT!MemJob
  <2>2. Carried(i, j)
    BY <1>1, <1>4, <2>1, RestateCarries DEF Outcomes
  <2>3. \A d \in ChildIds : cJobs'[d] = IF d = c THEN j ELSE cJobs[d]
    BY <1>4 DEF CT!TypeOK
  <2> QED
    BY <1>2, <1>4, <2>1, <2>2, <2>3 DEF CarriedOn, Lives
<1> QED
  BY <1>3, <1>4 DEF CT!Cancel

(* recoverStalled, one record.                                             *)
LEMMA RecoveredCarries ==
    ASSUME NEW i \in CT!MemJob, i.state = "active", now \in Nat
    PROVE  Carried(i, CT!RecoveredJob(i))
<1> DEFINE a == CT!RecordAttempt(CT!ClearLock(i), "stalled")
           j == CT!RecoveredJob(i)
<1>1. CASE i.cancelRequested
  <2>1. i.state \notin Outcomes /\ "cancelled" \in Outcomes
    BY DEF Outcomes
  <2> QED
    BY <1>1, <2>1, FinishCarries DEF CT!RecoveredJob
<1>2. CASE ~i.cancelRequested
  <2>1. /\ a.keep = i.keep /\ a.parent = i.parent
        /\ a.attempts = Append(i.attempts, "stalled")
    BY DEF CT!RecordAttempt, CT!ClearLock, CT!MemJob
  <2>2. a \in CT!MemJob
    <3>1. CT!ClearLock(i) \in CT!MemJob /\ "stalled" \in CT!AttemptOutcomes
      BY CT!ClearLockType, ChildConstants, ChildNone, ChildRequests
         DEF CT!AttemptOutcomes
    <3> QED
      BY <3>1, CT!RecordAttemptType, ChildConstants, ChildNone, ChildRequests
  <2> HIDE DEF a
  <2>3. /\ j.keep = a.keep /\ j.parent = a.parent /\ j.attempts = a.attempts
    BY <1>2, <2>2 DEF CT!RecoveredJob, CT!MemJob, a
  <2>4. j \in CT!MemJob
    BY CT!RecoveredJobType, ChildConstants, ChildNone, ChildRequests
  <2>5. j # None /\ i # None
    BY <2>4, ChildNone
  <2> HIDE DEF j
  <2>6. j.attempts = Append(i.attempts, "stalled")
    BY <2>1, <2>3
  <2> QED
    BY <1>2, <2>1, <2>3, <2>5, <2>6
       DEF Carried, Lives, CT!AttemptOutcomes, Outcomes, j
<1> QED
  BY <1>1, <1>2 DEF CT!MemJob

(* recoverStalled                                                          *)
LEMMA RecoverCarries ==
    ASSUME CT!TypeOK, FreshChildren, CT!RecoverStalled
    PROVE  CarriedOn
<1> DEFINE js == [c \in ChildIds |-> IF c \in CT!Stalled
                                     THEN CT!RecoveredJob(cJobs[c])
                                     ELSE cJobs[c]]
           done == {c \in CT!Stalled : CT!Terminal(js[c])}
           kept == {c \in done : cJobs[c].cancelRequested}
           rs == [c \in ChildIds |-> [k \in ChildKeys |-> None]]
<1>1. CT!Stalled \subseteq ChildIds
      /\ \A c \in CT!Stalled : cJobs[c] # None /\ cJobs[c].state = "active"
  BY DEF CT!Stalled, CT!Has
<1>2. \A c \in CT!Stalled : Carried(cJobs[c], js[c])
  BY <1>1, ChildRecord, RecoveredCarries DEF CT!TypeOK
<1>3. \A c \in ChildIds : js[c] = cJobs[c] \/ Carried(cJobs[c], js[c])
  BY <1>2
<1>4. \A c \in done : /\ js[c] # None /\ js[c].state \in Outcomes
                      /\ js[c].keep = None
                      /\ js[c].parent = [flowId |-> c[1], childKey |-> c[2]]
  BY <1>1, <1>2
     DEF FreshChildren, Carried, CT!Terminal, CT!TerminalStates, Outcomes
<1>5. CT!Retire(js, rs, done, kept)
  BY DEF CT!RecoverStalled
<1>6. js = [c \in ChildIds |-> js[c]] /\ done \in SUBSET ChildIds
      /\ kept \subseteq done
  BY <1>1
<1> HIDE DEF js, done, kept, rs
<1>7. cJobs' = js /\ cOutbox' = cOutbox \cup CT!Reports(js, done)
  BY <1>4, <1>5, <1>6, RetireKeepsChildren
<1>8. \A e \in cOutbox' \ cOutbox : \E c \in ChildIds : ReportOfEnd(c, e)
  BY <1>4, <1>6, <1>7, ReportsOfEnds
<1> QED
  BY <1>3, <1>7, <1>8 DEF CT!RecoverStalled, CarriedOn

(* Every step carries the children on, inserts one or revives one.         *)
LEMMA ChildEffects ==
    ASSUME CT!TypeOK, FreshChildren, ChildSteps
    PROVE  ChildEffect
<1>1. ASSUME cJobs' = cJobs, cSeq' = cSeq, cOutbox' \subseteq cOutbox
      PROVE  ChildEffect
  BY <1>1 DEF ChildEffect, CarriedOn
<1>2. ASSUME ChildrenAlone \/ Tick \/ \E page : CT!DeleteOutbox(page)
      PROVE  ChildEffect
  BY <1>1, <1>2 DEF ChildrenAlone, cVars, Tick, CT!DeleteOutbox
<1>3. ASSUME NEW c \in ChildIds, CT!Enqueue(ChildRequest(c), c),
             EnqueuedBySomeone(c)
      PROVE  Inserted(c)
  <2>1. ChildRequest(c).id = c
    BY DEF ChildRequest, Request
  <2> QED
    BY <1>3, <2>1, ChildNone
       DEF CT!Enqueue, CT!IdTaken, CT!Has, Inserted
<1>4. ASSUME NEW c \in ChildIds, CT!Retry(c), OperatorRetriesChild(c)
      PROVE  Revived(c)
  BY <1>4 DEF CT!Retry, CT!Has, Revived
<1>5. ASSUME NEW c \in ChildIds, NEW token, NEW outcome \in Outcomes,
             CT!AckTerminal(c, token, outcome, outcome # "cancelled")
      PROVE  CarriedOn
  BY <1>5, AckCarries
<1> QED
  BY <1>2, <1>3, <1>4, <1>5, ClaimCarries, CancelCarries, RecoverCarries
     DEF ChildSteps, ChildEffect

(* No child is forgotten, and whatever became of it, its ledger shows.     *)
LEMMA ChildrenKept ==
    ASSUME CT!TypeOK, FreshChildren, ChildEffect
    PROVE  /\ FreshChildren'
           /\ \A c \in ChildIds : cJobs[c] # None => cJobs'[c] # None
           /\ \A outcomes : \A c \in ChildIds :
                 Ended(c, outcomes) => Ended(c, outcomes)'
<1>1. ASSUME NEW c \in ChildIds, Inserted(c)
      PROVE  /\ \A d \in ChildIds : d # c => cJobs'[d] = cJobs[d]
             /\ cJobs'[c].keep = None
             /\ cJobs'[c].parent = [flowId |-> c[1], childKey |-> c[2]]
  BY <1>1 DEF Inserted, CT!TypeOK, CT!NewJob, ChildRequest, Request
<1>2. ASSUME NEW c \in ChildIds, Revived(c)
      PROVE  \A d \in ChildIds :
                \/ cJobs'[d] = cJobs[d]
                \/ /\ cJobs[d] # None /\ cJobs'[d] # None
                   /\ cJobs'[d].keep = cJobs[d].keep
                   /\ cJobs'[d].parent = cJobs[d].parent
                   /\ cJobs'[d].attempts = cJobs[d].attempts
  <2>1. \A d \in ChildIds :
           cJobs'[d] = IF d = c THEN CT!Revive(cJobs[c]) ELSE cJobs[d]
    BY <1>2 DEF Revived, CT!TypeOK
  <2>2. cJobs[c] \in CT!MemJob
    BY <1>2, ChildRecord DEF Revived
  <2>3. CT!Revive(cJobs[c]) \in CT!MemJob
    BY <2>2, CT!ReviveType, ChildConstants, ChildNone, ChildRequests
       DEF CT!TypeOK
  <2>4. /\ CT!Revive(cJobs[c]).keep = cJobs[c].keep
        /\ CT!Revive(cJobs[c]).parent = cJobs[c].parent
        /\ CT!Revive(cJobs[c]).attempts = cJobs[c].attempts
    BY <2>2 DEF CT!Revive, CT!MemJob
  <2> QED
    BY <2>1, <2>2, <2>3, <2>4, ChildNone
<1>3. ASSUME NEW c \in ChildIds
      PROVE  \/ cJobs'[c] = cJobs[c]
             \/ /\ cJobs[c] = None
                /\ cJobs'[c].keep = None
                /\ cJobs'[c].parent = [flowId |-> c[1], childKey |-> c[2]]
             \/ /\ cJobs[c] # None /\ cJobs'[c] # None
                /\ cJobs'[c].keep = cJobs[c].keep
                /\ cJobs'[c].parent = cJobs[c].parent
                /\ \/ cJobs'[c].attempts = cJobs[c].attempts
                   \/ \E outcome \in CT!AttemptOutcomes :
                         cJobs'[c].attempts = Append(cJobs[c].attempts, outcome)
  <2>1. CASE CarriedOn
    BY <2>1 DEF CarriedOn, Carried
  <2>2. CASE \E d \in ChildIds : Inserted(d)
    BY <2>2, <1>1 DEF Inserted
  <2>3. CASE \E d \in ChildIds : Revived(d)
    BY <2>3, <1>2
  <2> QED
    BY <2>1, <2>2, <2>3 DEF ChildEffect
<1>4. FreshChildren'
  BY <1>3 DEF FreshChildren
<1>5. \A c \in ChildIds : cJobs[c] # None => cJobs'[c] # None
  BY <1>3
<1>6. ASSUME NEW c \in ChildIds, NEW outcomes, Ended(c, outcomes)
      PROVE  Ended(c, outcomes)'
  <2>1. PICK n \in DOMAIN cJobs[c].attempts : cJobs[c].attempts[n] \in outcomes
    BY <1>6 DEF Ended
  <2>2. cJobs[c] # None /\ cJobs[c].attempts \in Seq(CT!AttemptOutcomes)
    BY <1>6, ChildRecord DEF Ended, CT!MemJob
  <2>3. /\ n \in DOMAIN cJobs'[c].attempts
        /\ cJobs'[c].attempts[n] = cJobs[c].attempts[n]
    <3>1. ASSUME NEW s \in Seq(CT!AttemptOutcomes), n \in DOMAIN s,
                 NEW outcome \in CT!AttemptOutcomes
          PROVE  /\ n \in DOMAIN Append(s, outcome)
                 /\ Append(s, outcome)[n] = s[n]
      BY <3>1
    <3>2. \/ cJobs'[c].attempts = cJobs[c].attempts
          \/ \E outcome \in CT!AttemptOutcomes :
                cJobs'[c].attempts = Append(cJobs[c].attempts, outcome)
      BY <1>3, <2>2
    <3> QED
      BY <2>1, <2>2, <3>1, <3>2
  <2> QED
    BY <1>5, <2>1, <2>2, <2>3 DEF Ended
<1> QED
  BY <1>4, <1>5, <1>6

-----------------------------------------------------------------------------
(* What a step makes of a sweeper's pass                                   *)

\* The child in hand, as read: missing or in flight, or over.
Reads(v, w) ==
    /\ v.stage = "next"
    /\ \/ w.stage # "report"
       \/ /\ w.child \in ChildIds /\ cJobs[w.child] # None
          /\ cJobs[w.child].state \in Outcomes
          /\ w.outcome = cJobs[w.child].state

\* The next stage of the child in hand, or the last.
MovesOn(v, w) ==
    \/ /\ w.child = v.child
       /\ <<v.stage, w.stage>> \in {<<"before", "enqueue">>,
                                    <<"enqueue", "after">>,
                                    <<"after", "cancel">>}
    \/ /\ w.stage = "next"
       /\ \/ v.stage \in {"before", "report"}
          \/ v.stage = "after" /\ Parked(v.child[1])
          \/ v.stage = "cancel" /\ CancelChild(v.child)

\* What a step of sweeper s makes of its pass v: it becomes w.
PassStep(v, w) ==
    \/ v = NoSweep /\ w.stage = "next" /\ w.done = {}
          /\ w.cascade \subseteq OwedCascades
    \/ w = NoSweep /\ v.stage = "next" /\ v.done = {} /\ v.cascade = {}
    \/ /\ w.cascade = v.cascade /\ w.done = v.done
       /\ Reads(v, w) \/ MovesOn(v, w)
    \/ /\ w.stage = v.stage /\ w.child = v.child /\ w.outcome = v.outcome
       /\ \/ \E c \in v.cascade : /\ CancelChild(c)
                                  /\ w.cascade = v.cascade \ {c}
                                  /\ w.done = v.done \cup {c}
          \/ w.cascade = v.cascade /\ w.done \subseteq v.done

(* A pass rewritten.                                                       *)
LEMMA PutPass ==
    ASSUME SweepsTyped, NEW s \in Sweepers, NEW w,
           sweeps' = [sweeps EXCEPT ![s] = w]
    PROVE  sweeps'[s] = w /\ \A t \in Sweepers \ {s} : sweeps'[t] = sweeps[t]
BY DEF SweepsTyped

LEMMA StageFields ==
    ASSUME SweepsTyped, NEW s \in Sweepers, NEW stage, Stage(s, stage)
    PROVE  /\ \A t \in Sweepers \ {s} : sweeps'[t] = sweeps[t]
           /\ sweeps'[s].stage = stage /\ sweeps'[s].child = sweeps[s].child
           /\ sweeps'[s].cascade = sweeps[s].cascade
           /\ sweeps'[s].done = sweeps[s].done
<1> DEFINE w == [sweeps[s] EXCEPT !.stage = stage]
<1>1. /\ w.stage = stage /\ w.child = sweeps[s].child
      /\ w.cascade = sweeps[s].cascade /\ w.done = sweeps[s].done
  BY PassType DEF Pass
<1>2. sweeps' = [sweeps EXCEPT ![s] = w]
  BY DEF Stage
<1> HIDE DEF w
<1> QED
  BY <1>1, <1>2, PutPass

LEMMA NextChildFields ==
    ASSUME SweepsTyped, NEW s \in Sweepers, NextChild(s)
    PROVE  /\ \A t \in Sweepers \ {s} : sweeps'[t] = sweeps[t]
           /\ sweeps'[s].stage = "next"
           /\ sweeps'[s].cascade = sweeps[s].cascade
           /\ sweeps'[s].done = sweeps[s].done
<1> DEFINE w == [sweeps[s] EXCEPT !.stage = "next", !.child = None,
                                  !.outcome = None]
<1>1. /\ w.stage = "next"
      /\ w.cascade = sweeps[s].cascade /\ w.done = sweeps[s].done
  BY PassType DEF Pass
<1>2. sweeps' = [sweeps EXCEPT ![s] = w]
  BY DEF NextChild
<1> HIDE DEF w
<1> QED
  BY <1>1, <1>2, PutPass

LEMMA BeginFields ==
    ASSUME SweepsTyped, NEW s \in Sweepers, SweepBegin(s)
    PROVE  /\ \A t \in Sweepers \ {s} : sweeps'[t] = sweeps[t]
           /\ PassStep(sweeps[s], sweeps'[s])
<1>1. PICK page \in FullPage(P!Reconcilable),
           owed \in FullPage(OwedCascades) :
              sweeps' = [sweeps EXCEPT ![s] =
                 [@ EXCEPT !.stage = "next",
                           !.reconcile = {<<r.flowId, r.childKey>> : r \in page},
                           !.cascade = owed]]
  BY DEF SweepBegin
<1> DEFINE rows == {<<r.flowId, r.childKey>> : r \in page}
           w == [NoSweep EXCEPT !.stage = "next", !.reconcile = rows,
                                !.cascade = owed]
<1>2. sweeps' = [sweeps EXCEPT ![s] = w]
  BY <1>1 DEF SweepBegin
<1>3. w.stage = "next" /\ w.cascade = owed /\ w.done = {}
  BY DEF NoSweep
<1>4. owed \subseteq OwedCascades
  BY DEF FullPage
<1> HIDE DEF w
<1>5. sweeps'[s] = w /\ \A t \in Sweepers \ {s} : sweeps'[t] = sweeps[t]
  BY <1>2, PutPass
<1>6. sweeps[s] = NoSweep
  BY DEF SweepBegin
<1> QED
  BY <1>3, <1>4, <1>5, <1>6 DEF PassStep

LEMMA ReadFields ==
    ASSUME SweepsTyped, NEW s \in Sweepers, NEW c \in ChildIds,
           ReconcileRead(s, c)
    PROVE  /\ \A t \in Sweepers \ {s} : sweeps'[t] = sweeps[t]
           /\ PassStep(sweeps[s], sweeps'[s])
<1> DEFINE pass == [sweeps[s] EXCEPT !.reconcile = @ \ {c}]
           over == [pass EXCEPT !.stage = "report", !.child = c,
                                !.outcome = cJobs[c].state]
           w == IF cJobs[c] = None
                THEN [pass EXCEPT !.stage = "before", !.child = c]
                ELSE IF cJobs[c].state \in Outcomes THEN over
                ELSE pass
<1>1. /\ pass \in Pass /\ pass.stage = "next" /\ sweeps[s].stage = "next"
      /\ pass.cascade = sweeps[s].cascade /\ pass.done = sweeps[s].done
  BY PassType DEF Pass, ReconcileRead
<1>2. sweeps' = [sweeps EXCEPT ![s] = w]
  BY DEF ReconcileRead
<1> HIDE DEF pass
<1>3. w.cascade = pass.cascade /\ w.done = pass.done
  BY <1>1 DEF Pass
<1>4. /\ over.child = c /\ over.outcome = cJobs[c].state
      /\ w.stage = "report" => w = over /\ cJobs[c] # None
                                /\ cJobs[c].state \in Outcomes
  BY <1>1 DEF Pass
<1> HIDE DEF w, over
<1>5. Reads(sweeps[s], w)
  BY <1>1, <1>4 DEF Reads
<1> QED
  BY <1>1, <1>2, <1>3, <1>5, PutPass DEF PassStep

LEMMA CascadeFields ==
    ASSUME SweepsTyped, NEW s \in Sweepers,
           \/ \E c \in ChildIds : CascadeCancel(s, c)
           \/ \E f \in FlowIds : CascadeMark(s, f)
    PROVE  /\ \A t \in Sweepers \ {s} : sweeps'[t] = sweeps[t]
           /\ PassStep(sweeps[s], sweeps'[s])
<1>1. ASSUME NEW c \in ChildIds, CascadeCancel(s, c)
      PROVE  /\ \A t \in Sweepers \ {s} : sweeps'[t] = sweeps[t]
             /\ PassStep(sweeps[s], sweeps'[s])
  <2> DEFINE w == [sweeps[s] EXCEPT !.cascade = @ \ {c}, !.done = @ \cup {c}]
  <2>1. sweeps' = [sweeps EXCEPT ![s] = w]
    BY <1>1, PassType DEF CascadeCancel, SweepsTyped, Pass
  <2>2. /\ w.stage = sweeps[s].stage /\ w.child = sweeps[s].child
        /\ w.outcome = sweeps[s].outcome
        /\ w.cascade = sweeps[s].cascade \ {c}
        /\ w.done = sweeps[s].done \cup {c}
    BY PassType DEF Pass
  <2>3. c \in sweeps[s].cascade /\ CancelChild(c)
    BY <1>1 DEF CascadeCancel
  <2> HIDE DEF w
  <2> QED
    BY <2>1, <2>2, <2>3, PutPass DEF PassStep
<1>2. ASSUME NEW f \in FlowIds, CascadeMark(s, f)
      PROVE  /\ \A t \in Sweepers \ {s} : sweeps'[t] = sweeps[t]
             /\ PassStep(sweeps[s], sweeps'[s])
  <2> DEFINE gone == {c \in sweeps[s].done : c[1] = f}
             w == [sweeps[s] EXCEPT !.done = @ \ gone]
  <2>1. sweeps' = [sweeps EXCEPT ![s].done = @ \ gone]
    BY <1>2 DEF CascadeMark
  <2>2. sweeps' = [sweeps EXCEPT ![s] = w]
    BY <2>1 DEF SweepsTyped
  <2>3. /\ w.stage = sweeps[s].stage /\ w.child = sweeps[s].child
        /\ w.outcome = sweeps[s].outcome /\ w.cascade = sweeps[s].cascade
        /\ w.done \subseteq sweeps[s].done
    BY PassType DEF Pass
  <2> HIDE DEF w
  <2> QED
    BY <2>2, <2>3, PutPass DEF PassStep
<1> QED
  BY <1>1, <1>2

LEMMA PassSteps ==
    ASSUME SweepsTyped, NEW s \in Sweepers, SweepNext(s)
    PROVE  /\ \A t \in Sweepers \ {s} : sweeps'[t] = sweeps[t]
           /\ PassStep(sweeps[s], sweeps'[s])
<1>1. CASE SweepEnd(s)
  BY <1>1, PutPass DEF SweepEnd, NoSweep, PassStep
<1>2. CASE ReconcileBefore(s)
  BY <1>2, StageFields, NextChildFields
     DEF ReconcileBefore, PassStep, MovesOn
<1>3. CASE ReconcileEnqueue(s)
  BY <1>3, StageFields DEF ReconcileEnqueue, PassStep, MovesOn
<1>4. CASE ReconcileAfter(s)
  BY <1>4, StageFields, NextChildFields DEF ReconcileAfter, PassStep, MovesOn
<1>5. CASE ReconcileCancel(s)
  BY <1>5, NextChildFields DEF ReconcileCancel, PassStep, MovesOn
<1>6. CASE ReconcileReport(s)
  BY <1>6, NextChildFields DEF ReconcileReport, PassStep, MovesOn
<1> QED
  BY <1>1, <1>2, <1>3, <1>4, <1>5, <1>6, BeginFields, ReadFields,
     CascadeFields DEF SweepNext

-----------------------------------------------------------------------------
(* What is said of the children is true                                    *)

\* The outcome is in the ledger of the child.
Told(c, outcome) ==
    Ended(c, IF outcome = "failed" THEN {"failed", "stalled"} ELSE {outcome})

EntriesTold == \A e \in cOutbox : Told(<<e.flowId, e.childKey>>, e.outcome)

PagesTold ==
    \A r \in Relays : \A e \in relays[r].page :
        Told(<<e.flowId, e.childKey>>, e.outcome)

SweepsTold ==
    \A s \in Sweepers :
        sweeps[s].stage = "report" => Told(sweeps[s].child, sweeps[s].outcome)

\* `retry` revives no cancelled job.
CancelsFinal ==
    \A c \in ChildIds :
        Ended(c, {"cancelled"}) => cJobs[c].state = "cancelled"

ToldInv == EntriesTold /\ PagesTold /\ SweepsTold /\ CancelsFinal

(* A child that is over has its outcome in its ledger.                     *)
LEMMA EndIsTold ==
    ASSUME CT!TypeOK, CT!ResultInv, NEW c \in ChildIds, cJobs[c] # None,
           cJobs[c].state \in Outcomes
    PROVE  Told(c, cJobs[c].state)
<1> DEFINE j == cJobs[c]
<1>1. /\ j.attempts # <<>>
      /\ \/ CT!LastOutcome(j) = j.state
         \/ CT!LastOutcome(j) = "stalled" /\ j.state = "failed"
  BY DEF CT!ResultInv, CT!Has, CT!Terminal, CT!TerminalStates, Outcomes
<1>2. j.attempts \in Seq(CT!AttemptOutcomes)
  BY ChildRecord DEF CT!MemJob
<1>3. Len(j.attempts) \in DOMAIN j.attempts
  BY <1>1, <1>2
<1> QED
  BY <1>1, <1>3 DEF CT!LastOutcome, Told, Ended

(* Once told, always told.                                                 *)
LEMMA ToldStays ==
    ASSUME CT!TypeOK, FreshChildren, ChildEffect,
           NEW c \in ChildIds, NEW outcome, Told(c, outcome)
    PROVE  Told(c, outcome)'
BY ChildrenKept DEF Told

LEMMA EntriesStep ==
    ASSUME CT!TypeOK, CT!TypeOK', CT!ResultInv', FreshChildren, ChildEffect,
           EntriesTold
    PROVE  EntriesTold'
<1> SUFFICES ASSUME NEW e \in cOutbox'
             PROVE  Told(<<e.flowId, e.childKey>>, e.outcome)'
  BY DEF EntriesTold
<1>1. e \in CT!OutboxEntry
  BY DEF CT!TypeOK
<1>2. CASE e \in cOutbox
  <2>1. <<e.flowId, e.childKey>> \in ChildIds
    BY <1>1, EntryType DEF ChildIds
  <2>2. Told(<<e.flowId, e.childKey>>, e.outcome)
    BY <1>2 DEF EntriesTold
  <2> QED
    BY <2>1, <2>2, ToldStays
<1>3. CASE e \notin cOutbox
  <2>1. PICK c \in ChildIds : ReportOfEnd(c, e)
    BY <1>3 DEF ChildEffect, CarriedOn, Inserted, Revived
  <2>2. c = <<e.flowId, e.childKey>>
    BY <2>1 DEF ReportOfEnd, ChildIds
  <2>3. /\ cJobs'[c] # None /\ cJobs'[c].state \in Outcomes
        /\ e.outcome = cJobs'[c].state
    BY <2>1 DEF ReportOfEnd
  <2>4. Told(c, cJobs[c].state)'
    <3>1. (CT!TypeOK /\ CT!ResultInv /\ cJobs[c] # None
              /\ cJobs[c].state \in Outcomes => Told(c, cJobs[c].state))'
      BY EndIsTold, PTL
    <3> QED
      BY <2>3, <3>1
  <2> QED
    BY <2>2, <2>3, <2>4
<1> QED
  BY <1>2, <1>3

LEMMA PagesStep ==
    ASSUME CT!TypeOK, FreshChildren, ChildEffect, RelaysTyped, [Next]_vars,
           EntriesTold, PagesTold
    PROVE  PagesTold'
<1> SUFFICES ASSUME NEW r \in Relays, NEW e \in relays'[r].page
             PROVE  Told(<<e.flowId, e.childKey>>, e.outcome)'
  BY DEF PagesTold
<1>1. e \in relays[r].page \cup cOutbox
  <2>1. CASE UNCHANGED relays
    BY <2>1
  <2>2. CASE Crash
    BY <2>2 DEF Crash, RelaysTyped, NoPage
  <2>3. CASE \E t \in Relays : RelayNext(t)
    BY <2>3 DEF RelayNext, RelayPeek, RelayDelete, RelayDeliver, RelaysTyped,
                NoPage
  <2> QED
    BY <2>1, <2>2, <2>3, RelaysSteps
<1>2. e \in CT!OutboxEntry
  BY <1>1 DEF CT!TypeOK, RelaysTyped
<1>3. <<e.flowId, e.childKey>> \in ChildIds
  BY <1>2, EntryType DEF ChildIds
<1>4. Told(<<e.flowId, e.childKey>>, e.outcome)
  BY <1>1 DEF EntriesTold, PagesTold
<1> QED
  BY <1>3, <1>4, ToldStays

LEMMA SweepsToldStep ==
    ASSUME CT!TypeOK, CT!ResultInv, FreshChildren, ChildEffect, SweepsTyped,
           [Next]_vars, SweepsTold
    PROVE  SweepsTold'
<1> SUFFICES ASSUME NEW t \in Sweepers, sweeps'[t].stage = "report",
                    NEW c, c = sweeps'[t].child,
                    NEW outcome, outcome = sweeps'[t].outcome
             PROVE  Told(c, outcome)'
  BY DEF SweepsTold, Told, Ended
<1>1. c \in ChildIds /\ Told(c, outcome)
  <2>1. ASSUME sweeps'[t] = sweeps[t]
        PROVE  c \in ChildIds /\ Told(c, outcome)
    BY <2>1, PassType DEF SweepsTold, Pass
  <2>2. ASSUME SweepNext(t)
        PROVE  c \in ChildIds /\ Told(c, outcome)
    <3>1. PassStep(sweeps[t], sweeps'[t])
      BY <2>2, PassSteps
    <3>2. \/ Reads(sweeps[t], sweeps'[t])
          \/ /\ sweeps'[t].stage = sweeps[t].stage
             /\ sweeps'[t].child = sweeps[t].child
             /\ sweeps'[t].outcome = sweeps[t].outcome
      BY <3>1 DEF PassStep, MovesOn, NoSweep
    <3>3. CASE Reads(sweeps[t], sweeps'[t])
      BY <3>3, EndIsTold DEF Reads
    <3>4. CASE /\ sweeps'[t].stage = sweeps[t].stage
               /\ sweeps'[t].child = sweeps[t].child
               /\ sweeps'[t].outcome = sweeps[t].outcome
      BY <3>4, PassType DEF SweepsTold, Pass
    <3> QED
      BY <3>2, <3>3, <3>4
  <2>3. CASE Crash
    <3>1. sweeps'[t] = sweeps[t] \/ sweeps'[t] = NoSweep
      BY <2>3 DEF Crash, SweepsTyped
    <3> QED
      BY <2>1, <3>1 DEF NoSweep
  <2> QED
    BY <2>1, <2>2, <2>3, SweepsSteps, PassSteps
<1> QED
  BY <1>1, ToldStays

LEMMA CancelsFinalStep ==
    ASSUME CT!TypeOK, FreshChildren, ChildEffect, CancelsFinal
    PROVE  CancelsFinal'
<1> SUFFICES ASSUME NEW c \in ChildIds, Ended(c, {"cancelled"})'
             PROVE  cJobs'[c].state = "cancelled"
  BY DEF CancelsFinal
<1>1. PICK n \in DOMAIN cJobs'[c].attempts : cJobs'[c].attempts[n] = "cancelled"
  BY DEF Ended
<1>2. CASE cJobs'[c] = cJobs[c]
  BY <1>1, <1>2 DEF CancelsFinal, Ended
<1>3. CASE Carried(cJobs[c], cJobs'[c])
  <2>1. CASE cJobs'[c].attempts = cJobs[c].attempts
    BY <1>1, <1>3, <2>1 DEF CancelsFinal, Ended, Carried
  <2>2. ASSUME NEW outcome \in CT!AttemptOutcomes,
               cJobs'[c].attempts = Append(cJobs[c].attempts, outcome),
               outcome = "cancelled" => cJobs'[c].state = "cancelled"
        PROVE  cJobs'[c].state = "cancelled"
    <3>1. cJobs[c] # None /\ cJobs[c].attempts \in Seq(CT!AttemptOutcomes)
      BY <1>3, ChildRecord DEF Carried, CT!MemJob
    <3>2. \/ outcome = "cancelled"
          \/ n \in DOMAIN cJobs[c].attempts /\ cJobs[c].attempts[n] = "cancelled"
      BY <1>1, <2>2, <3>1
    <3> QED
      BY <1>3, <2>2, <3>1, <3>2 DEF CancelsFinal, Ended, Carried
  <2> QED
    BY <1>3, <2>1, <2>2 DEF Carried
<1>4. ASSUME NEW d \in ChildIds, Inserted(d)
      PROVE  cJobs'[c] = cJobs[c]
  <2>1. CT!NewJob(ChildRequest(d)).attempts = <<>>
    BY DEF CT!NewJob
  <2> QED
    BY <1>1, <1>4, <2>1 DEF Inserted, CT!TypeOK
<1>5. ASSUME NEW d \in ChildIds, Revived(d)
      PROVE  cJobs'[c] = cJobs[c]
  <2>1. CASE c # d
    BY <1>5, <2>1 DEF Revived, CT!TypeOK
  <2>2. CASE c = d
    <3>1. cJobs'[c] = CT!Revive(cJobs[c]) /\ cJobs[c] \in CT!MemJob
      BY <1>5, <2>2, ChildRecord DEF Revived, CT!TypeOK
    <3>2. cJobs'[c].attempts = cJobs[c].attempts
      BY <3>1 DEF CT!Revive, CT!MemJob
    <3> QED
      BY <1>1, <1>5, <2>2, <3>2 DEF CancelsFinal, Ended, Revived
  <2> QED
    BY <2>1, <2>2
<1> QED
  BY <1>2, <1>3, <1>4, <1>5 DEF ChildEffect, CarriedOn

LEMMA ToldStep ==
    ASSUME CT!TypeOK, CT!TypeOK', CT!ResultInv, CT!ResultInv', Typed,
           RelaysTyped, FreshChildren, ToldInv, [Next]_vars
    PROVE  FreshChildren' /\ ToldInv'
<1>1. ChildEffect
  BY ChildUse, ChildEffects DEF Typed
<1> QED
  BY <1>1, ChildrenKept, EntriesStep, PagesStep, SweepsToldStep,
     CancelsFinalStep DEF ToldInv, Typed

LEMMA ToldInit == Init => FreshChildren /\ ToldInv
BY DEF Init, FreshChildren, ToldInv, EntriesTold, PagesTold, SweepsTold,
       CancelsFinal, NoPage, NoSweep, Ended

(* What is on its way to a flow's rows is in the ledger of the child.      *)
LEMMA ChildrenTold == Spec => [](FreshChildren /\ ToldInv)
<1>1. /\ CT!TypeOK /\ CT!TypeOK' /\ CT!ResultInv /\ CT!ResultInv' /\ Typed
      /\ RelaysTyped /\ FreshChildren /\ ToldInv /\ [Next]_vars
      => (FreshChildren /\ ToldInv)'
  BY ToldStep
<1> QED
  BY <1>1, ToldInit, FibersTyped, PagesTyped, ChildrenRun, ChildrenKnown, PTL
     DEF Spec

-----------------------------------------------------------------------------
(* What a step makes of the parents and their rows                         *)

\* Parents have no retention policy.
FreshParents == \A f \in FlowIds : pJobs[f] # None => pJobs[f].keep = None

\* Nobody revives a parent.
ParentKept(f) ==
    pJobs[f] # None /\ pJobs[f].state \in Outcomes
        => pJobs'[f].state \in Outcomes

RowSame(v, w) ==
    w = v \/ (v # None /\ w # None /\ w.status = v.status
                 /\ w.cascaded = v.cascaded)

Opened(v, w) == v = None /\ w # None /\ w.status = "pending"

\* The parent settled, and owes the child a cancel.
SettledRow(f, v, w) ==
    /\ v = None \/ v.status = "pending"
    /\ w # None /\ w.status = "cancelled" /\ ~w.cascaded
    /\ pJobs'[f].state \in Outcomes

ReportedToRow(f, k, v, w) ==
    /\ v # None /\ v.status = "pending" /\ w # None
    /\ \E reports : /\ Recording(f, reports) /\ k \in DOMAIN reports
                    /\ w.status = reports[k]

CascadedRow(f, k, v, w) ==
    /\ v # None /\ w # None /\ w.status = v.status
    /\ \E s \in Sweepers : <<f, k>> \in sweeps[s].done

RowStep(f, k, v, w) ==
    RowSame(v, w) \/ Opened(v, w) \/ SettledRow(f, v, w)
        \/ ReportedToRow(f, k, v, w) \/ CascadedRow(f, k, v, w)

ParentEffect ==
    /\ FreshParents'
    /\ \A f \in FlowIds : ParentKept(f)
    /\ \A f \in FlowIds, k \in ChildKeys :
          RowStep(f, k, pRows[f][k], pRows'[f][k])

FlowRow == [ChildKeys -> PT!Opt(PT!MemFlowChild)]

LEMMA ParentRecord ==
    ASSUME PT!TypeOK, NEW f \in FlowIds
    PROVE  /\ pRows[f] \in FlowRow
           /\ pJobs[f] # None => pJobs[f] \in PT!MemJob
BY DEF PT!TypeOK, PT!Opt, FlowRow

(* Marked, reported and cascaded rows.                                     *)
LEMMA MarkedRow ==
    ASSUME NEW row \in FlowRow, NEW k \in ChildKeys
    PROVE  LET w == PT!MarkPendingRowsCancelled(row)[k]
           IN  \/ w = row[k] /\ ~(row[k] # None /\ row[k].status = "pending")
               \/ /\ row[k] # None /\ row[k].status = "pending"
                  /\ w # None /\ w.status = "cancelled" /\ ~w.cascaded
<1>1. CASE k \in PT!WithStatus(row, "pending")
  <2> DEFINE w == [row[k] EXCEPT !.status = "cancelled", !.cascaded = FALSE]
  <2>1. row[k] # None /\ row[k].status = "pending"
    BY <1>1 DEF PT!WithStatus
  <2>2. row[k] \in PT!MemFlowChild
    BY <2>1 DEF FlowRow, PT!Opt
  <2>3. w \in PT!MemFlowChild /\ w.status = "cancelled" /\ w.cascaded = FALSE
    BY <2>2 DEF PT!MemFlowChild, PT!TerminalStates
  <2>4. PT!MarkPendingRowsCancelled(row)[k] = w
    BY <1>1 DEF PT!MarkPendingRowsCancelled
  <2> QED
    BY <2>1, <2>3, <2>4, ParentNone
<1>2. CASE k \notin PT!WithStatus(row, "pending")
  BY <1>2 DEF PT!MarkPendingRowsCancelled, PT!WithStatus
<1> QED
  BY <1>1, <1>2

LEMMA ReportedRowFields ==
    ASSUME NEW row \in FlowRow, NEW k \in ChildKeys,
           NEW keys \in SUBSET ChildKeys, NEW reports \in [keys -> Outcomes]
    PROVE  LET w == PT!ReportedRow(row, reports)[k]
           IN  \/ w = row[k]
               \/ /\ row[k] # None /\ row[k].status = "pending"
                  /\ k \in DOMAIN reports
                  /\ w \in PT!MemFlowChild
                  /\ w.status = reports[k] /\ w.cascaded
<1>1. CASE k \in PT!AppliedKeys(row, reports)
  <2> DEFINE w == [row[k] EXCEPT !.status = reports[k], !.cascaded = TRUE]
  <2>1. row[k] # None /\ row[k].status = "pending" /\ k \in DOMAIN reports
    BY <1>1 DEF PT!WithStatus, PT!AppliedKeys
  <2>2. row[k] \in PT!MemFlowChild /\ reports[k] \in Outcomes
    BY <2>1 DEF FlowRow, PT!Opt
  <2>3. w \in PT!MemFlowChild /\ w.status = reports[k] /\ w.cascaded = TRUE
    BY <2>2 DEF PT!MemFlowChild, PT!TerminalStates, Outcomes
  <2>4. PT!ReportedRow(row, reports)[k] = w
    BY <1>1 DEF PT!ReportedRow
  <2> QED
    BY <2>1, <2>3, <2>4
<1>2. CASE k \notin PT!AppliedKeys(row, reports)
  BY <1>2 DEF PT!ReportedRow
<1> QED
  BY <1>1, <1>2

LEMMA RowMarked ==
    ASSUME PT!TypeOK, NEW f \in FlowIds, NEW k \in ChildKeys,
           pJobs'[f].state \in Outcomes
    PROVE  RowStep(f, k, pRows[f][k],
                   PT!MarkPendingRowsCancelled(pRows[f])[k])
BY ParentRecord, MarkedRow DEF RowStep, SettledRow, RowSame

(* Nothing is pruned: no parent has a retention policy.                    *)
LEMMA RetireKeepsParents ==
    ASSUME NEW js, js = [f \in FlowIds |-> js[f]],
           NEW rs, rs = [f \in FlowIds |-> rs[f]], NEW done,
           NEW kept \in SUBSET FlowIds, \A f \in kept : js[f].keep = None,
           PT!Retire(js, rs, done, kept)
    PROVE  pJobs' = js /\ pRows' = rs
<1>1. PICK turn \in PT!Turns(kept), drops \in [kept -> SUBSET FlowIds] :
          /\ \A f \in kept :
                drops[f] =
                    PT!KeepVictims(PT!AtTurn(js, turn, drops, f), rs, f)
          /\ pJobs' = PT!Without(js, UNION {drops[f] : f \in kept}, None)
          /\ pRows' = PT!Without(rs, UNION {drops[f] : f \in kept}, PT!NoRows)
  BY DEF PT!Retire
<1>2. ASSUME NEW f \in kept PROVE drops[f] = {}
  <2> DEFINE at == PT!AtTurn(js, turn, drops, f)
  <2>1. at[f] = js[f]
    BY DEF PT!AtTurn, PT!Without
  <2>2. at[f].keep = None
    BY <2>1
  <2>3. drops[f] = PT!KeepVictims(at, rs, f)
    BY <1>1
  <2> HIDE DEF at
  <2> QED
    BY <2>2, <2>3 DEF PT!KeepVictims, PT!KeepPolicyFor
<1>3. UNION {drops[f] : f \in kept} = {}
  BY <1>2
<1>4. pJobs' = [f \in FlowIds |-> js[f]] /\ pRows' = [f \in FlowIds |-> rs[f]]
  BY <1>1, <1>3 DEF PT!Without
<1> QED
  BY <1>4

(* One parent's record is rewritten, and perhaps its rows.                 *)
LEMMA PutParent ==
    ASSUME PT!TypeOK, FreshParents, NEW f \in FlowIds, NEW j, j.keep = None,
           pJobs[f] # None /\ pJobs[f].state \in Outcomes
               => j.state \in Outcomes,
           pJobs' = [pJobs EXCEPT ![f] = j],
           NEW row, pRows' = [pRows EXCEPT ![f] = row],
           \A k \in ChildKeys : RowStep(f, k, pRows[f][k], row[k])
    PROVE  ParentEffect
<1>1. \A g \in FlowIds : /\ pJobs'[g] = IF g = f THEN j ELSE pJobs[g]
                         /\ pRows'[g] = IF g = f THEN row ELSE pRows[g]
  BY DEF PT!TypeOK
<1>2. \A g \in FlowIds, k \in ChildKeys :
         g # f => RowStep(g, k, pRows[g][k], pRows'[g][k])
  BY <1>1 DEF RowStep, RowSame
<1>3. \A k \in ChildKeys : RowStep(f, k, pRows[f][k], pRows'[f][k])
  BY <1>1
<1> QED
  BY <1>1, <1>2, <1>3 DEF ParentEffect, ParentKept, FreshParents

LEMMA PutParentRecord ==
    ASSUME PT!TypeOK, FreshParents, NEW f \in FlowIds, NEW j, j.keep = None,
           pJobs[f] # None /\ pJobs[f].state \in Outcomes
               => j.state \in Outcomes,
           pJobs' = [pJobs EXCEPT ![f] = j], pRows' = pRows
    PROVE  ParentEffect
<1>1. pRows' = [pRows EXCEPT ![f] = pRows[f]]
  BY DEF PT!TypeOK
<1>2. \A k \in ChildKeys : RowStep(f, k, pRows[f][k], pRows[f][k])
  BY DEF RowStep, RowSame
<1> QED
  BY <1>1, <1>2, PutParent

(* A parent ends.                                                          *)
LEMMA EndParent ==
    ASSUME PT!TypeOK, FreshParents, NEW f \in FlowIds,
           NEW j, j.keep = None, j.state \in Outcomes, NEW row,
           pJobs'[f].state \in Outcomes
               => \A k \in ChildKeys : RowStep(f, k, pRows[f][k], row[k]),
           PT!Retire([pJobs EXCEPT ![f] = j], [pRows EXCEPT ![f] = row],
                     {f}, {f})
    PROVE  ParentEffect
<1> DEFINE js == [pJobs EXCEPT ![f] = j]
           rs == [pRows EXCEPT ![f] = row]
<1>1. js = [g \in FlowIds |-> js[g]] /\ rs = [g \in FlowIds |-> rs[g]]
      /\ js[f] = j
  BY DEF PT!TypeOK
<1> HIDE DEF js, rs
<1>2. pJobs' = js /\ pRows' = rs
  BY <1>1, RetireKeepsParents DEF js, rs
<1>3. \A k \in ChildKeys : RowStep(f, k, pRows[f][k], row[k])
  BY <1>1, <1>2
<1> QED
  BY <1>2, <1>3, PutParent DEF js, rs

\* All that is needed to know of a record that is rewritten.
Fields(j) == {"keep", "state"} \subseteq DOMAIN j

LEMMA RecordFields == ASSUME NEW j \in PT!MemJob PROVE Fields(j)
BY DEF Fields, PT!MemJob

LEMMA FinishFields ==
    ASSUME NEW j, Fields(j), NEW state
    PROVE  /\ PT!Finish(j, state).keep = j.keep
           /\ PT!Finish(j, state).state = state
BY DEF Fields, PT!Finish, PT!RecordAttempt, PT!ClearLock

LEMMA FlowFields ==
    ASSUME NEW j, Fields(j), NEW flow, NEW b
    PROVE  /\ Fields([j EXCEPT !.flow = flow])
           /\ [j EXCEPT !.flow = flow].keep = j.keep
           /\ [j EXCEPT !.flow = flow].state = j.state
           /\ Fields([j EXCEPT !.failedReason = b])
           /\ [j EXCEPT !.failedReason = b].keep = j.keep
           /\ [j EXCEPT !.failedReason = b].state = j.state
BY DEF Fields

LEMMA LogFields ==
    ASSUME NEW j, Fields(j), NEW outcome
    PROVE  /\ Fields(PT!RecordAttempt(j, outcome))
           /\ PT!RecordAttempt(j, outcome).keep = j.keep
           /\ PT!RecordAttempt(j, outcome).state = j.state
           /\ Fields(PT!ClearLock(j))
           /\ PT!ClearLock(j).keep = j.keep
           /\ PT!ClearLock(j).state = j.state
BY DEF Fields, PT!RecordAttempt, PT!ClearLock

LEMMA RequeueFields ==
    ASSUME NEW j, Fields(j), NEW state, NEW t, NEW n
    PROVE  /\ [j EXCEPT !.state = state, !.runAt = t, !.seq = n].keep = j.keep
           /\ [j EXCEPT !.state = state].keep = j.keep
           /\ [j EXCEPT !.state = state].state = state
BY DEF Fields

(* enqueue of a parent                                                     *)
LEMMA EnqueueEffect ==
    ASSUME PT!TypeOK, FreshParents, NEW f \in FlowIds,
           PT!Enqueue(ParentRequest(f), f)
    PROVE  ParentEffect
<1> DEFINE j == PT!NewJob(ParentRequest(f))
<1>1. pJobs' = [pJobs EXCEPT ![f] = j] /\ pRows' = pRows
  BY DEF PT!Enqueue
<1>2. j.keep = None
  BY DEF PT!NewJob, ParentRequest, Request
<1>3. pJobs[f] = None
  BY ParentNone DEF PT!Enqueue, PT!IdTaken, PT!Has, ParentRequest, Request
<1> HIDE DEF j
<1> QED
  BY <1>1, <1>2, <1>3, PutParentRecord

(* cancel of a parent                                                      *)
LEMMA CancelEffect ==
    ASSUME PT!TypeOK, FreshParents, NEW f \in FlowIds, PT!Cancel(f)
    PROVE  ParentEffect
<1> DEFINE i == pJobs[f]
<1>1. i \in PT!MemJob /\ i.keep = None /\ Fields(i)
  BY ParentRecord, RecordFields DEF FreshParents, PT!Cancel, PT!Has
<1>2. ASSUME PT!MarkCancelled(f, i)
      PROVE  ParentEffect
  <2> PICK flow, row :
         /\ row = pRows[f] \/ row = PT!MarkPendingRowsCancelled(pRows[f])
         /\ PT!Retire([pJobs EXCEPT ![f] =
                          PT!Finish([i EXCEPT !.flow = flow], "cancelled")],
                      [pRows EXCEPT ![f] = row], {f}, {f})
    <3> DEFINE parked == i.state = "waiting-children"
               flow == IF parked THEN PT!SettleFlow(i.flow, pRows[f])
                       ELSE i.flow
               row == IF parked THEN PT!MarkPendingRowsCancelled(pRows[f])
                      ELSE pRows[f]
    <3>1. PT!Retire([pJobs EXCEPT ![f] =
                        PT!Finish([i EXCEPT !.flow = flow], "cancelled")],
                    [pRows EXCEPT ![f] = row], {f}, {f})
      BY <1>2 DEF PT!MarkCancelled
    <3> QED
      BY <3>1
  <2> DEFINE j == PT!Finish([i EXCEPT !.flow = flow], "cancelled")
  <2>1. j.keep = None /\ j.state \in Outcomes
    <3>1. /\ Fields([i EXCEPT !.flow = flow])
          /\ [i EXCEPT !.flow = flow].keep = None
      BY <1>1, FlowFields
    <3> QED
      BY <3>1, FinishFields DEF Outcomes
  <2>2. pJobs'[f].state \in Outcomes
            => \A k \in ChildKeys : RowStep(f, k, pRows[f][k], row[k])
    BY RowMarked DEF RowStep, RowSame
  <2> HIDE DEF j
  <2> QED
    BY <2>1, <2>2, EndParent DEF j
<1>3. ASSUME i.state = "active",
             pJobs' = [pJobs EXCEPT ![f].cancelRequested = TRUE],
             pRows' = pRows
      PROVE  ParentEffect
  <2> DEFINE j == [i EXCEPT !.cancelRequested = TRUE]
  <2>1. j.keep = None /\ j.state = i.state
    BY <1>1 DEF PT!MemJob
  <2>2. pJobs' = [pJobs EXCEPT ![f] = j]
    BY <1>3 DEF PT!TypeOK
  <2> HIDE DEF j
  <2> QED
    BY <1>3, <2>1, <2>2, PutParentRecord DEF Outcomes
<1> QED
  BY <1>2, <1>3 DEF PT!Cancel

(* The run of a parent ends.                                               *)
LEMMA AckEffect ==
    ASSUME PT!TypeOK, FreshParents, NEW f \in FlowIds, NEW token,
           NEW outcome \in Outcomes, NEW exit,
           PT!AckTerminal(f, token, outcome, exit)
    PROVE  ParentEffect
<1> DEFINE i == pJobs[f]
           a == PT!Acked(f)
           e == IF outcome = "cancelled" THEN a.exit ELSE exit
           j == PT!Finish([a EXCEPT !.exit = e], outcome)
<1>1. i \in PT!MemJob /\ i.keep = None /\ Fields(i)
  BY ParentRecord, RecordFields DEF FreshParents, PT!AckTerminal, PT!Held, PT!Has
<1>2. Fields(PT!ClearLock(i)) /\ PT!ClearLock(i).keep = None
  BY <1>1, LogFields
<1>3. Fields(a) /\ a.keep = None
  BY <1>2 DEF PT!Acked, Fields
<1> HIDE DEF a
<1>4. Fields([a EXCEPT !.exit = e]) /\ [a EXCEPT !.exit = e].keep = None
  BY <1>3 DEF Fields
<1>5. j.keep = None /\ j.state \in Outcomes
  BY <1>4, FinishFields
<1>6. PT!Retire([pJobs EXCEPT ![f] = j], pRows, {f}, {f})
  BY DEF PT!AckTerminal, a
<1>7. pRows = [pRows EXCEPT ![f] = pRows[f]]
  BY DEF PT!TypeOK
<1>8. \A k \in ChildKeys : RowStep(f, k, pRows[f][k], pRows[f][k])
  BY DEF RowStep, RowSame
<1> HIDE DEF j
<1> QED
  BY <1>5, <1>6, <1>7, <1>8, EndParent

(* A parent fans out for the first time: it has no rows yet.               *)
LEMMA FanOutEffect ==
    ASSUME PT!TypeOK, PT!FlowInv, FreshParents, NEW f \in FlowIds, NEW token,
           NEW children, FanningOut(f, token, children)
    PROVE  ParentEffect
<1> DEFINE i == pJobs[f]
           flow == PT!Manifest(children, scenario.failFast)
           row == PT!PendingRows(children)
           a == [PT!ClearLock(i) EXCEPT !.flow = flow]
           j == PT!RecordAttempt(a, "fanned-out")
<1>1. /\ i # None /\ i.state = "active" /\ i.flow = None
      /\ children \in SUBSET ChildKeys
      /\ PT!AckFanOut(f, token, children, scenario.failFast)
  BY DEF FanningOut, PT!AckFanOut, PT!Held, PT!Has
<1>2. i \in PT!MemJob /\ i.keep = None /\ Fields(i)
  BY <1>1, ParentRecord, RecordFields DEF FreshParents
<1>3. \A k \in ChildKeys : pRows[f][k] = None
  BY <1>1 DEF PT!FlowInv, PT!CountersMatch, PT!NoRows, PT!Has
<1>4. Fields(j) /\ j.keep = None
  <2>1. Fields(a) /\ a.keep = None
    <3>1. Fields(PT!ClearLock(i)) /\ PT!ClearLock(i).keep = None
      BY <1>2, LogFields
    <3> QED
      BY <3>1, FlowFields
  <2> HIDE DEF a
  <2> QED
    BY <2>1, LogFields
<1>5. /\ row \in FlowRow
      /\ \A k \in ChildKeys :
            row[k] = None \/ (row[k] # None /\ row[k].status = "pending")
  <2>1. \A k \in ChildKeys :
           \/ row[k] = None
           \/ row[k] \in PT!MemFlowChild /\ row[k].status = "pending"
    BY DEF PT!PendingRows, PT!MemFlowChild, PT!TypeOK
  <2>2. row = [k \in ChildKeys |-> row[k]]
    BY DEF PT!PendingRows
  <2> HIDE DEF row
  <2> QED
    BY <2>1, <2>2, ParentNone DEF FlowRow, PT!Opt
<1>6. PT!FirstFanOut(f)
  BY <1>1 DEF PT!FirstFanOut
<1>7. ASSUME NEW final,
             PT!Retire([pJobs EXCEPT ![f] =
                           PT!Finish([j EXCEPT !.flow = final], "cancelled")],
                       [pRows EXCEPT ![f] = PT!MarkPendingRowsCancelled(row)],
                       {f}, {f})
      PROVE  ParentEffect
  <2> DEFINE ended == PT!Finish([j EXCEPT !.flow = final], "cancelled")
             marked == PT!MarkPendingRowsCancelled(row)
  <2>1. ended.keep = None /\ ended.state \in Outcomes
    <3> HIDE DEF j
    <3>1. Fields([j EXCEPT !.flow = final]) /\ [j EXCEPT !.flow = final].keep = None
      BY <1>4, FlowFields
    <3> QED
      BY <3>1, FinishFields DEF Outcomes
  <2> HIDE DEF row
  <2>2. ASSUME pJobs'[f].state \in Outcomes, NEW k \in ChildKeys
        PROVE  RowStep(f, k, pRows[f][k], marked[k])
    <3>1. \/ marked[k] = row[k] /\ ~(row[k] # None /\ row[k].status = "pending")
          \/ /\ row[k] # None /\ row[k].status = "pending"
             /\ marked[k] # None /\ marked[k].status = "cancelled"
             /\ ~marked[k].cascaded
      BY <1>5, MarkedRow
    <3> HIDE DEF marked
    <3> QED
      BY <1>3, <1>5, <2>2, <3>1 DEF RowStep, RowSame, SettledRow
  <2> HIDE DEF ended, marked
  <2> QED
    BY <1>7, <2>1, <2>2, EndParent DEF ended, marked
<1>8. ASSUME NEW state, NEW n,
             \/ pJobs' = [pJobs EXCEPT ![f] = [j EXCEPT !.state = state]]
             \/ pJobs' = [pJobs EXCEPT ![f] =
                   [j EXCEPT !.state = state, !.runAt = now, !.seq = n]],
             pRows' = [pRows EXCEPT ![f] = row]
      PROVE  ParentEffect
  <2>1. PICK w : pJobs' = [pJobs EXCEPT ![f] = w] /\ w.keep = None
    <3> HIDE DEF j
    <3>1. /\ [j EXCEPT !.state = state].keep = None
          /\ [j EXCEPT !.state = state, !.runAt = now, !.seq = n].keep = None
      BY <1>4, RequeueFields
    <3> QED
      BY <1>8, <3>1
  <2>2. \A k \in ChildKeys : RowStep(f, k, pRows[f][k], row[k])
    BY <1>3, <1>5 DEF RowStep, RowSame, Opened
  <2> HIDE DEF row
  <2>3. i.state \notin Outcomes
    BY <1>1 DEF Outcomes
  <2> QED
    BY <1>8, <2>1, <2>2, <2>3, PutParent
<1> HIDE DEF a, row
<1> QED
  BY <1>1, <1>6, <1>7, <1>8 DEF PT!AckFanOut, a, row

(* A parent's rows take reports.                                           *)
LEMMA RecordEffect ==
    ASSUME PT!TypeOK, FreshParents, NEW f \in FlowIds, NEW reports,
           Recording(f, reports)
    PROVE  ParentEffect
<1> DEFINE i == pJobs[f]
           flow == PT!Counted(i.flow, pRows[f], reports)
           row == PT!ReportedRow(pRows[f], reports)
           j == [i EXCEPT !.flow = flow]
<1>1. i \in PT!MemJob /\ i.keep = None /\ Fields(i) /\ pRows[f] \in FlowRow
  BY ParentRecord, RecordFields
     DEF FreshParents, Recording, PT!RecordChildResults, PT!Has
<1>2. PICK keys \in SUBSET ChildKeys : reports \in [keys -> Outcomes]
  BY DEF Recording
<1>3. Fields(j) /\ j.keep = None /\ j.state = i.state
  BY <1>1, FlowFields
<1>4. ASSUME NEW k \in ChildKeys
      PROVE  \/ row[k] = pRows[f][k]
             \/ /\ ReportedToRow(f, k, pRows[f][k], row[k])
                /\ row[k] \in PT!MemFlowChild
                /\ row[k].status \in Outcomes
  <2>1. \/ row[k] = pRows[f][k]
        \/ /\ pRows[f][k] # None /\ pRows[f][k].status = "pending"
           /\ k \in DOMAIN reports
           /\ row[k] \in PT!MemFlowChild
           /\ row[k].status = reports[k] /\ row[k].cascaded
    BY <1>1, <1>2, ReportedRowFields
  <2> HIDE DEF row
  <2> QED
    BY <1>2, <2>1, ParentNone DEF ReportedToRow
<1>5. row \in FlowRow
  <2>1. row = [k \in ChildKeys |-> row[k]]
    BY DEF PT!ReportedRow
  <2> HIDE DEF row
  <2> QED
    BY <1>1, <1>4, <2>1 DEF FlowRow, PT!Opt
<1>6. \A k \in ChildKeys : RowStep(f, k, pRows[f][k], row[k])
  <2> HIDE DEF row
  <2> QED
    BY <1>4 DEF RowStep, RowSame
<1>7. ASSUME NEW final,
             PT!Retire([pJobs EXCEPT ![f] =
                           PT!Finish([j EXCEPT !.flow = final,
                                               !.failedReason = TRUE],
                                     "failed")],
                       [pRows EXCEPT ![f] = PT!MarkPendingRowsCancelled(row)],
                       {f}, {f})
      PROVE  ParentEffect
  <2> DEFINE b == [j EXCEPT !.flow = final, !.failedReason = TRUE]
             ended == PT!Finish(b, "failed")
             marked == PT!MarkPendingRowsCancelled(row)
  <2>1. ended.keep = None /\ ended.state \in Outcomes
    <3> HIDE DEF j
    <3>1. Fields(b) /\ b.keep = None
      BY <1>3 DEF Fields
    <3> HIDE DEF b
    <3> QED
      BY <3>1, FinishFields DEF Outcomes
  <2> HIDE DEF row
  <2>2. ASSUME pJobs'[f].state \in Outcomes, NEW k \in ChildKeys
        PROVE  RowStep(f, k, pRows[f][k], marked[k])
    <3>1. \/ marked[k] = row[k]
          \/ /\ row[k] # None /\ row[k].status = "pending"
             /\ marked[k] # None /\ marked[k].status = "cancelled"
             /\ ~marked[k].cascaded
      BY <1>5, MarkedRow
    <3>2. row[k] # None /\ row[k].status = "pending" => row[k] = pRows[f][k]
      BY <1>4 DEF Outcomes
    <3> HIDE DEF marked
    <3> QED
      BY <1>6, <2>2, <3>1, <3>2 DEF RowStep, SettledRow
  <2> HIDE DEF ended, marked
  <2> QED
    BY <1>7, <2>1, <2>2, EndParent DEF ended, marked
<1>8. ASSUME NEW w, w.keep = None,
             w.state = i.state \/ i.state = "waiting-children",
             pJobs' = [pJobs EXCEPT ![f] = w],
             pRows' = [pRows EXCEPT ![f] = row]
      PROVE  ParentEffect
  <2> HIDE DEF row
  <2>1. i.state \in Outcomes => w.state \in Outcomes
    BY <1>8 DEF Outcomes
  <2> QED
    BY <1>6, <1>8, <2>1, PutParent
<1>9. CASE pJobs' = [pJobs EXCEPT ![f] = j]
              /\ pRows' = [pRows EXCEPT ![f] = row]
  <2> HIDE DEF j, row
  <2> QED
    BY <1>3, <1>8, <1>9
<1>10. ASSUME j.state = "waiting-children",
              NEW n, pJobs' = [pJobs EXCEPT ![f] =
                 [j EXCEPT !.state = "waiting", !.runAt = now, !.seq = n]],
              pRows' = [pRows EXCEPT ![f] = row]
       PROVE  ParentEffect
  <2> DEFINE w == [j EXCEPT !.state = "waiting", !.runAt = now, !.seq = n]
  <2> HIDE DEF j, row
  <2>1. w.keep = None
    BY <1>3, RequeueFields
  <2> HIDE DEF w
  <2> QED
    BY <1>3, <1>8, <1>10, <2>1 DEF w
<1> HIDE DEF flow, row
<1> QED
  BY <1>7, <1>9, <1>10 DEF Recording, PT!RecordChildResults, flow, row

(* Children are marked cascaded.                                           *)
LEMMA MarkEffect ==
    ASSUME PT!TypeOK, FreshParents, NEW f \in FlowIds, NEW keys,
           Marking(f, keys)
    PROVE  ParentEffect
<1> DEFINE row == PT!Cascaded(pRows[f], keys)
<1>1. pJobs' = pJobs /\ pRows' = [pRows EXCEPT ![f] = row]
  BY DEF Marking, PT!MarkChildrenCascaded, PT!TypeOK
<1>2. ASSUME NEW k \in ChildKeys
      PROVE  RowStep(f, k, pRows[f][k], row[k])
  <2> DEFINE w == [pRows[f][k] EXCEPT !.cascaded = TRUE]
  <2>1. CASE k \in keys /\ pRows[f][k] # None
    <3>1. row[k] = w
      BY <2>1 DEF PT!Cascaded
    <3>2. pRows[f][k] \in PT!MemFlowChild
      BY <2>1, ParentRecord DEF FlowRow, PT!Opt
    <3>3. w \in PT!MemFlowChild /\ w.status = pRows[f][k].status
      BY <3>2 DEF PT!MemFlowChild
    <3>4. \E s \in Sweepers : <<f, k>> \in sweeps[s].done
      BY <2>1 DEF Marking
    <3> HIDE DEF row, w
    <3> QED
      BY <2>1, <3>1, <3>3, <3>4, ParentNone DEF RowStep, CascadedRow
  <2>2. CASE ~(k \in keys /\ pRows[f][k] # None)
    BY <2>2 DEF PT!Cascaded, RowStep, RowSame
  <2> QED
    BY <2>1, <2>2
<1> HIDE DEF row
<1>3. \A g \in FlowIds : pRows'[g] = IF g = f THEN row ELSE pRows[g]
  BY <1>1 DEF PT!TypeOK
<1>4. \A g \in FlowIds, k \in ChildKeys :
         RowStep(g, k, pRows[g][k], pRows'[g][k])
  BY <1>2, <1>3 DEF RowStep, RowSame
<1> QED
  BY <1>1, <1>4 DEF ParentEffect, ParentKept, FreshParents

(* Only records change, and none of a settled parent.                      *)
LEMMA RecordsOnly ==
    ASSUME FreshParents, pRows' = pRows,
           \A f \in FlowIds : \/ pJobs'[f] = pJobs[f]
                              \/ /\ pJobs[f] # None
                                 /\ pJobs[f].state \notin Outcomes
                                 /\ pJobs'[f].keep = None
    PROVE  ParentEffect
BY DEF ParentEffect, ParentKept, FreshParents, RowStep, RowSame

(* claim of a parent                                                       *)
LEMMA ClaimEffect ==
    ASSUME PT!TypeOK, FreshParents, PT!Claim("flows", {"parent"}, 1)
    PROVE  ParentEffect
<1> DEFINE js == PT!PromoteDue(pJobs)
           token == pToken + 1
<1>1. ASSUME NEW f \in FlowIds
      PROVE  \/ js[f] = pJobs[f]
             \/ /\ pJobs[f] # None /\ pJobs[f].state = "delayed"
                /\ js[f].keep = None /\ js[f] \in PT!MemJob
                /\ js[f].state = "waiting"
  <2>1. CASE pJobs[f] # None /\ pJobs[f].state = "delayed"
    <3>1. pJobs[f] \in PT!MemJob /\ pJobs[f].keep = None
      BY <2>1, ParentRecord DEF FreshParents
    <3> QED
      BY <2>1, <3>1 DEF PT!PromoteDue, PT!MemJob, PT!JobStates
  <2>2. CASE ~(pJobs[f] # None /\ pJobs[f].state = "delayed")
    BY <2>2 DEF PT!PromoteDue, PT!Has
  <2> QED
    BY <2>1, <2>2
<1>2. PICK best \in FlowIds :
         /\ js[best] # None /\ js[best].state = "waiting"
         /\ pJobs' = [js EXCEPT ![best] =
                         PT!Claimed(js[best], token, 1)]
  BY DEF PT!Claim, PT!Claimable, PT!Has
<1>3. js = [f \in FlowIds |-> js[f]]
  BY DEF PT!PromoteDue
<1> HIDE DEF js
<1>4. js[best] \in PT!MemJob /\ js[best].keep = None
  BY <1>1, <1>2, ParentRecord DEF FreshParents
<1>5. PT!Claimed(js[best], token, 1).keep = None
  BY <1>4 DEF PT!Claimed, PT!MemJob
<1>6. pJobs[best] # None /\ pJobs[best].state \notin Outcomes
  BY <1>1, <1>2 DEF Outcomes
<1>7. pRows' = pRows
  BY DEF PT!Claim
<1>8. \A f \in FlowIds :
         pJobs'[f] = IF f = best THEN PT!Claimed(js[best], token, 1) ELSE js[f]
  BY <1>2, <1>3
<1> QED
  BY <1>1, <1>5, <1>6, <1>7, <1>8, RecordsOnly DEF Outcomes

(* recoverStalled                                                          *)
LEMMA RecoverEffect ==
    ASSUME PT!TypeOK, FreshParents, PT!RecoverStalled
    PROVE  ParentEffect
<1> DEFINE js == [f \in FlowIds |-> IF f \in PT!Stalled
                                    THEN PT!RecoveredJob(pJobs[f])
                                    ELSE pJobs[f]]
           done == {f \in PT!Stalled : PT!Terminal(js[f])}
           kept == {f \in done : pJobs[f].cancelRequested}
<1>1. ASSUME NEW f \in PT!Stalled
      PROVE  /\ f \in FlowIds /\ pJobs[f] # None /\ pJobs[f].state = "active"
             /\ PT!RecoveredJob(pJobs[f]).keep = None
  <2> DEFINE i == pJobs[f]
             a == PT!RecordAttempt(PT!ClearLock(i), "stalled")
  <2>1. f \in FlowIds /\ i # None /\ i.state = "active"
    BY DEF PT!Stalled, PT!Has
  <2>2. i \in PT!MemJob /\ i.keep = None /\ Fields(i)
    BY <2>1, ParentRecord, RecordFields DEF FreshParents
  <2>3. PT!Finish(i, "cancelled").keep = None
    BY <2>2, FinishFields
  <2>4. Fields(a) /\ a.keep = None
    <3>1. Fields(PT!ClearLock(i)) /\ PT!ClearLock(i).keep = None
      BY <2>2, LogFields
    <3> QED
      BY <3>1, LogFields
  <2> HIDE DEF a
  <2>5. PT!RecoveredJob(i).keep = None
    BY <2>3, <2>4 DEF PT!RecoveredJob, a, Fields
  <2> QED
    BY <2>1, <2>5
<1>2. PT!Retire(js, pRows, done, kept) /\ kept \subseteq PT!Stalled
  BY DEF PT!RecoverStalled
<1>3. js = [f \in FlowIds |-> js[f]] /\ pRows = [f \in FlowIds |-> pRows[f]]
  BY DEF PT!TypeOK
<1>4. \A f \in FlowIds :
         \/ js[f] = pJobs[f]
         \/ /\ pJobs[f] # None /\ pJobs[f].state \notin Outcomes
            /\ js[f].keep = None
  BY <1>1 DEF Outcomes
<1>5. kept \in SUBSET FlowIds /\ \A f \in kept : js[f].keep = None
  BY <1>1, <1>2 DEF PT!Stalled
<1> HIDE DEF js, done, kept
<1>6. pJobs' = js /\ pRows' = pRows
  BY <1>2, <1>3, <1>5, RetireKeepsParents
<1> QED
  BY <1>4, <1>6, RecordsOnly

(* flowSweepWork                                                           *)
LEMMA SweepWorkEffect ==
    ASSUME PT!TypeOK, FreshParents, NEW page, PT!FlowSweepWork(page)
    PROVE  ParentEffect
<1>1. ASSUME NEW f \in FlowIds, NEW k \in ChildKeys
      PROVE  RowStep(f, k, pRows[f][k], pRows'[f][k])
  <2> DEFINE w == [pRows[f][k] EXCEPT !.pendingSince = now]
  <2>1. CASE [flowId |-> f, childKey |-> k] \in page
    <3>1. pRows[f][k] # None
      BY <2>1 DEF PT!FlowSweepWork, PT!Reconcilable, PT!WithStatus
    <3>2. pRows[f][k] \in PT!MemFlowChild /\ now \in Nat
      BY <3>1, ParentRecord DEF FlowRow, PT!Opt, PT!TypeOK
    <3>3. /\ w \in PT!MemFlowChild /\ w.status = pRows[f][k].status
          /\ w.cascaded = pRows[f][k].cascaded
      BY <3>2 DEF PT!MemFlowChild
    <3>4. pRows'[f][k] = w
      BY <2>1 DEF PT!FlowSweepWork
    <3> HIDE DEF w
    <3> QED
      BY <3>1, <3>3, <3>4, ParentNone DEF RowStep, RowSame
  <2>2. CASE [flowId |-> f, childKey |-> k] \notin page
    BY <2>2 DEF PT!FlowSweepWork, RowStep, RowSame
  <2> QED
    BY <2>1, <2>2
<1>2. pJobs' = pJobs
  BY DEF PT!FlowSweepWork
<1> QED
  BY <1>1, <1>2 DEF ParentEffect, ParentKept, FreshParents

(* No parent is forgotten, and its rows change in these ways only.         *)
LEMMA ParentEffects ==
    ASSUME PT!TypeOK, PT!FlowInv, FreshParents, ParentSteps
    PROVE  ParentEffect
<1>1. CASE ParentsAlone \/ Tick
  BY <1>1, RecordsOnly DEF ParentsAlone, pVars, Tick
<1> QED
  BY <1>1, EnqueueEffect, CancelEffect, AckEffect, FanOutEffect, RecordEffect,
     MarkEffect, ClaimEffect, RecoverEffect, SweepWorkEffect DEF ParentSteps

-----------------------------------------------------------------------------
(* Rows tell collect the truth                                             *)

\* What is known by now of every reachable state.
Known == /\ PT!TypeOK /\ PT!FlowInv /\ CT!TypeOK /\ CT!ResultInv
         /\ Typed /\ RelaysTyped /\ FreshChildren /\ ToldInv

\* What is known by now of every step between two such states.
StepKnown == Known /\ Known' /\ ChildEffect /\ ParentEffect /\ [Next]_vars

LEMMA AlwaysKnown == Spec => []Known
<1>1. /\ PT!TypeOK /\ PT!FlowInv /\ CT!TypeOK /\ CT!ResultInv /\ Typed
      /\ RelaysTyped /\ FreshChildren /\ ToldInv
      => Known
  BY DEF Known
<1> QED
  BY <1>1, StoresOfFlows, ParentsKnown, ChildrenKnown, FibersTyped,
     PagesTyped, ChildrenTold, PTL

LEMMA KnownStep ==
    ASSUME Known, Known', FreshParents, [Next]_vars
    PROVE  StepKnown /\ FreshParents'
<1>1. ChildEffect
  BY ChildUse, ChildEffects DEF Known, Typed
<1>2. ParentEffect
  BY ParentUse, ParentEffects DEF Known
<1> QED
  BY <1>1, <1>2 DEF StepKnown, ParentEffect

LEMMA ParentsStayFresh == Spec => []FreshParents
<1>1. Init => FreshParents
  BY DEF Init, FreshParents
<1>2. Known /\ Known' /\ FreshParents /\ [Next]_vars => FreshParents'
  BY KnownStep
<1> QED
  BY <1>1, <1>2, AlwaysKnown, PTL DEF Spec

(* The outcomes that reach a row are in the children's ledgers.            *)
LEMMA ReportIsTold ==
    ASSUME Known, NEW c \in ChildIds, NEW reports, Recording(c[1], reports),
           c[2] \in DOMAIN reports
    PROVE  Told(c, reports[c[2]])
<1>1. c = <<c[1], c[2]>>
  BY DEF ChildIds
<1>2. ASSUME NEW r \in Relays, FromPage(relays[r].page, c[1], reports)
      PROVE  Told(c, reports[c[2]])
  <2>1. PICK e \in relays[r].page : /\ e.flowId = c[1] /\ e.childKey = c[2]
                                    /\ e.outcome = reports[c[2]]
    BY <1>2 DEF FromPage
  <2>2. Told(<<e.flowId, e.childKey>>, e.outcome)
    BY DEF Known, ToldInv, PagesTold
  <2> QED
    BY <1>1, <2>1, <2>2
<1>3. ASSUME NEW s \in Sweepers, FromSweep(s, c[1], reports)
      PROVE  Told(c, reports[c[2]])
  <2>1. sweeps[s].child \in ChildIds
    BY <1>3, PassType DEF Known, Typed, Pass, FromSweep
  <2>2. sweeps[s].child = c
    BY <1>1, <1>3, <2>1 DEF FromSweep, ChildIds
  <2>3. reports[c[2]] = sweeps[s].outcome
    BY <1>3, <2>2 DEF FromSweep
  <2> QED
    BY <1>3, <2>2, <2>3 DEF Known, ToldInv, SweepsTold, FromSweep
<1> QED
  BY <1>2, <1>3 DEF Recording

\* What a row's status claims of the child and its flow.
RowTrue(c, status) ==
    /\ status = "completed" => Ended(c, {"completed"})
    /\ status = "failed" => Ended(c, {"failed", "stalled"})
    /\ status = "cancelled" =>
           Ended(c, {"cancelled"}) \/ pJobs[c[1]].state \in Outcomes

(* A row belongs to a parent that is there.                                *)
LEMMA RowOfParent ==
    ASSUME Known, NEW c \in ChildIds, Row(c) # None
    PROVE  c[1] \in FlowIds /\ c[2] \in ChildKeys /\ pJobs[c[1]] # None
BY DEF Known, PT!FlowInv, PT!NoRows, PT!Has, Row, ChildIds

(* The truth about a child and its flow stays true.                        *)
LEMMA RowTrueStays ==
    ASSUME StepKnown, NEW c \in ChildIds, Row(c) # None, NEW status,
           RowTrue(c, status)
    PROVE  RowTrue(c, status)'
<1>1. \A outcomes : Ended(c, outcomes) => Ended(c, outcomes)'
  BY ChildrenKept DEF StepKnown, Known
<1>2. pJobs[c[1]].state \in Outcomes => pJobs'[c[1]].state \in Outcomes
  BY RowOfParent DEF StepKnown, ParentEffect, ParentKept
<1> QED
  BY <1>1, <1>2 DEF RowTrue

LEMMA RowsTruthfulStep ==
    ASSUME StepKnown, RowsTruthful
    PROVE  RowsTruthful'
<1> SUFFICES ASSUME NEW c \in ChildIds, Row(c)' # None,
                    NEW status, status = Row(c)'.status
             PROVE  RowTrue(c, status)'
  BY DEF RowsTruthful, RowTrue
<1> DEFINE f == c[1]
           k == c[2]
           v == pRows[f][k]
           w == pRows'[f][k]
<1>1. RowStep(f, k, v, w) /\ v = Row(c) /\ w = Row(c)' /\ w # None
  BY DEF StepKnown, ParentEffect, ChildIds, Row
<1>2. CASE v # None /\ w.status = v.status
  <2>1. RowTrue(c, v.status)
    BY <1>1, <1>2 DEF RowsTruthful, RowTrue
  <2> QED
    BY <1>1, <1>2, <2>1, RowTrueStays
<1>3. CASE Opened(v, w)
  BY <1>1, <1>3 DEF Opened, RowTrue
<1>4. CASE SettledRow(f, v, w)
  BY <1>1, <1>4 DEF SettledRow, RowTrue
<1>5. CASE ReportedToRow(f, k, v, w)
  <2>1. PICK reports : /\ Recording(f, reports) /\ k \in DOMAIN reports
                       /\ w.status = reports[k]
    BY <1>5 DEF ReportedToRow
  <2>2. Told(c, w.status)
    BY <2>1, ReportIsTold DEF StepKnown
  <2>3. RowTrue(c, w.status)
    BY <2>2 DEF Told, RowTrue
  <2> QED
    BY <1>1, <1>5, <2>3, RowTrueStays DEF ReportedToRow
<1> QED
  BY <1>1, <1>2, <1>3, <1>4, <1>5 DEF RowStep, RowSame, CascadedRow

(* Rows tell collect the truth, whoever reported and however often: a row  *)
(* says completed or failed only of a child whose ledger has that ending,  *)
(* and says cancelled only of a child that was, or of a settled flow.      *)
THEOREM RowsAreTruthful == Spec => []RowsTruthful
<1>1. Init => RowsTruthful
  BY DEF Init, RowsTruthful, Row, ChildIds
<1>2. /\ Known /\ Known' /\ FreshParents /\ RowsTruthful /\ [Next]_vars
      => RowsTruthful'
  BY KnownStep, RowsTruthfulStep
<1> QED
  BY <1>1, <1>2, AlwaysKnown, ParentsStayFresh, PTL DEF Spec

-----------------------------------------------------------------------------
(* Sweepers leave no orphan                                                *)

\* Only the fast path lets a worker enqueue children.
Quiet == ~scenario.fastPath => \A f \in FlowIds : fanouts[f] = NoFanOut

Existing == {c \in ChildIds : cJobs[c] # None}

\* Every child took an enqueue-order number; the others went to retries.
Numbered == Cardinality(Existing) <= cSeq

CancelledRow(c) == Row(c) # None /\ Row(c).status = "cancelled"

\* A sweeper cascades cancels of cancelled rows.
CascadesOwed ==
    \A s \in Sweepers : \A c \in sweeps[s].cascade \cup sweeps[s].done :
        CancelledRow(c)

\* The cancel owed to the child was delivered, or counts as delivered.
Settled(c) ==
    /\ CancelledRow(c)
    /\ Row(c).cascaded \/ \E s \in Sweepers : c \in sweeps[s].done

\* A child that lives on after its cancel was delivered is one that a
\* sweeper has just enqueued, or is about to cancel.
NoLoose ==
    ~scenario.fastPath /\ scenario.crashes = 0 /\ scenario.retries = 0 =>
        \A c \in ChildIds :
            Settled(c) /\ Lives(cJobs[c]) => CancelComing(c)

OrphanInv == Quiet /\ Numbered /\ CascadesOwed /\ NoLoose

LEMMA ScenarioStays ==
    ASSUME [Next]_vars
    PROVE  scenario' = scenario
BY DEF Next, vars, procVars, bounds, ParentRuns, ClaimParent, FinishParent,
       AckFanOut, ChildRuns, ClaimChild, FinishChild, FanOutNext,
       CheckParked, FastEnqueue, Environment, EnqueueParent, CancelParent,
       OperatorCancelsChild, OperatorRetriesChild, RecoverParents,
       RecoverChildren, Tick, Crash, RelayNext, RelayPeek, RelayDelete,
       RelayDeliver, SweepNext, SweepBegin, SweepEnd, SweepOnly,
       ReconcileBefore, ReconcileEnqueue, ReconcileAfter, ReconcileCancel,
       ReconcileReport, ReconcileRead, CascadeCancel, CascadeMark

LEMMA QuietStep ==
    ASSUME Typed, Quiet, [Next]_vars
    PROVE  Quiet'
<1> SUFFICES ASSUME ~scenario.fastPath
             PROVE  \A f \in FlowIds : fanouts'[f] = NoFanOut
  BY ScenarioStays DEF Quiet
<1>1. \A f \in FlowIds : fanouts[f] = NoFanOut
  BY DEF Quiet
<1>2. CASE UNCHANGED fanouts
  BY <1>1, <1>2
<1>3. CASE \E f \in FlowIds, token \in 1..pToken :
              \E children \in SUBSET scenario.keys :
                 AckFanOut(f, token, children)
  BY <1>1, <1>3 DEF AckFanOut, Typed, FanOutsTyped
<1>4. ASSUME NEW f \in FlowIds,
             CheckParked(f) \/ \E k \in ChildKeys : FastEnqueue(f, k)
      PROVE  FALSE
  <2>1. fanouts[f].stage = "idle"
    BY <1>1 DEF NoFanOut
  <2> QED
    BY <1>4, <2>1 DEF CheckParked, FastEnqueue
<1>5. CASE Crash
  BY <1>1, <1>5 DEF Crash
<1> QED
  BY <1>2, <1>3, <1>4, <1>5
     DEF Next, vars, procVars, ParentRuns, ClaimParent, FinishParent,
         ChildRuns, ClaimChild, FinishChild, FanOutNext, Environment,
         EnqueueParent, CancelParent, OperatorCancelsChild,
         OperatorRetriesChild, RecoverParents, RecoverChildren, Tick,
         RelayNext, RelayPeek, RelayDelete, RelayDeliver, SweepNext,
         SweepBegin, SweepEnd, SweepOnly, ReconcileBefore, ReconcileEnqueue,
         ReconcileAfter, ReconcileCancel, ReconcileReport, ReconcileRead,
         CascadeCancel, CascadeMark

LEMMA NumberedStep ==
    ASSUME CT!TypeOK, Numbered, ChildEffect
    PROVE  Numbered'
<1>1. IsFiniteSet(Existing) /\ Cardinality(Existing) \in Nat /\ cSeq \in Nat
  BY ChildrenFinite, FS_Subset, FS_CardinalityType DEF Existing, CT!TypeOK
<1>2. ASSUME NEW c \in ChildIds, Inserted(c)
      PROVE  Numbered'
  <2>1. CT!NewJob(ChildRequest(c)) # None
    BY ChildNone, CT!NewJobType, ChildConstants, ChildRequests DEF CT!TypeOK
  <2>2. Existing' = Existing \cup {c} /\ c \notin Existing
    BY <1>2, <2>1 DEF Inserted, Existing, CT!TypeOK
  <2>3. Cardinality(Existing') = Cardinality(Existing) + 1
    BY <1>1, <2>2, FS_AddElement
  <2> QED
    BY <1>1, <1>2, <2>3 DEF Inserted, Numbered
<1>3. ASSUME Existing' = Existing, cSeq' = cSeq \/ cSeq' = cSeq + 1
      PROVE  Numbered'
  BY <1>1, <1>3 DEF Numbered
<1>4. ASSUME NEW c \in ChildIds, Revived(c)
      PROVE  Numbered'
  <2>1. CT!Revive(cJobs[c]) # None
    BY <1>4, ChildRecord, CT!ReviveType, ChildConstants, ChildNone,
       ChildRequests DEF Revived, CT!TypeOK
  <2>2. Existing' = Existing
    BY <1>4, <2>1 DEF Revived, Existing, CT!TypeOK
  <2> QED
    BY <1>3, <1>4, <2>2 DEF Revived
<1>5. ASSUME CarriedOn
      PROVE  Numbered'
  <2>1. Existing' = Existing
    BY <1>5 DEF CarriedOn, Carried, Existing
  <2> QED
    BY <1>3, <1>5, <2>1 DEF CarriedOn
<1> QED
  BY <1>2, <1>4, <1>5 DEF ChildEffect

(* A cancelled row stays one.                                              *)
LEMMA CancelledRowStays ==
    ASSUME ParentEffect, NEW c \in ChildIds, CancelledRow(c)
    PROVE  CancelledRow(c)'
<1> DEFINE v == pRows[c[1]][c[2]]
           w == pRows'[c[1]][c[2]]
<1>1. RowStep(c[1], c[2], v, w) /\ v # None /\ v.status = "cancelled"
  BY DEF ParentEffect, ChildIds, CancelledRow, Row
<1>2. w # None /\ w.status = "cancelled"
  BY <1>1 DEF RowStep, RowSame, Opened, SettledRow, ReportedToRow, CascadedRow
<1> QED
  BY <1>2 DEF CancelledRow, Row

(* What is left to cascade was there before, or is owed; what is done was  *)
(* done before, or is cancelled now.                                       *)
LEMMA PassChildren ==
    ASSUME Typed, [Next]_vars, NEW s \in Sweepers
    PROVE  /\ sweeps'[s].cascade \subseteq sweeps[s].cascade \cup OwedCascades
           /\ \A c \in sweeps'[s].done :
                 \/ c \in sweeps[s].done
                 \/ c \in sweeps[s].cascade /\ CancelChild(c)
<1>1. CASE sweeps'[s] = sweeps[s]
  BY <1>1
<1>2. CASE Crash
  <2>1. sweeps'[s] = sweeps[s] \/ sweeps'[s] = NoSweep
    BY <1>2 DEF Crash, Typed, SweepsTyped
  <2> QED
    BY <1>1, <2>1 DEF NoSweep
<1>3. CASE SweepNext(s)
  <2>1. PassStep(sweeps[s], sweeps'[s])
    BY <1>3, PassSteps DEF Typed
  <2> QED
    BY <2>1 DEF PassStep, NoSweep
<1> QED
  BY <1>1, <1>2, <1>3, SweepsSteps, PassSteps DEF Typed

LEMMA CascadesOwedStep ==
    ASSUME Typed, Typed', ParentEffect, CascadesOwed, [Next]_vars
    PROVE  CascadesOwed'
<1> SUFFICES ASSUME NEW s \in Sweepers,
                    NEW c \in sweeps'[s].cascade \cup sweeps'[s].done
             PROVE  CancelledRow(c)'
  BY DEF CascadesOwed
<1>1. c \in ChildIds
  BY DEF Typed, SweepsTyped, Pass
<1>2. c \in sweeps[s].cascade \cup sweeps[s].done \cup OwedCascades
  BY PassChildren
<1>3. CancelledRow(c)
  BY <1>2 DEF CascadesOwed, OwedCascades, CancelledRow, Row
<1> QED
  BY <1>1, <1>3, CancelledRowStays

(* cancel of a child by a sweeper: the child does not live on.             *)
LEMMA CancelChildEnds ==
    ASSUME CT!TypeOK, FreshChildren, NEW c \in ChildIds, CancelChild(c)
    PROVE  ~Lives(cJobs'[c])
<1>1. CASE Unfinished(c)
  BY <1>1, ChildCancelSame, CancelCarries DEF CancelChild
<1>2. CASE ~Unfinished(c)
  BY <1>2 DEF CancelChild, cVars, Lives, Unfinished
<1> QED
  BY <1>1, <1>2

(* A child that was cancelled does not live, and a flow that cancelled a   *)
(* child is settled.                                                       *)
LEMMA CancelledRowSettled ==
    ASSUME Known, RowsTruthful, NEW c \in ChildIds, CancelledRow(c),
           Lives(cJobs[c])
    PROVE  ~Parked(c[1])
<1>1. CASE Ended(c, {"cancelled"})
  BY <1>1 DEF Known, ToldInv, CancelsFinal, Lives, Outcomes
<1>2. CASE pJobs[c[1]].state \in Outcomes
  BY <1>2 DEF Parked, Outcomes
<1> QED
  BY <1>1, <1>2 DEF RowsTruthful, CancelledRow

(* Without revivals, a child that lives was enqueued or lived before.      *)
LEMMA LivesStep ==
    ASSUME CT!TypeOK, Numbered, ChildEffect, scenario.retries = 0,
           NEW c \in ChildIds, Lives(cJobs'[c])
    PROVE  Lives(cJobs[c]) \/ Inserted(c)
<1>1. CASE CarriedOn
  BY <1>1 DEF CarriedOn, Carried
<1>2. ASSUME NEW d \in ChildIds, Inserted(d)
      PROVE  Lives(cJobs[c]) \/ Inserted(c)
  BY <1>2 DEF Inserted, CT!TypeOK
<1>3. ASSUME NEW d \in ChildIds, Revived(d)
      PROVE  FALSE
  <2>1. Cardinality(Existing) \in Nat /\ cSeq \in Nat
    BY ChildrenFinite, FS_Subset, FS_CardinalityType DEF Existing, CT!TypeOK
  <2>2. cSeq - Cardinality(Existing) < 0
    BY <1>3 DEF Revived, OperatorRetriesChild, Existing
  <2> QED
    BY <2>1, <2>2 DEF Numbered
<1> QED
  BY <1>1, <1>2, <1>3 DEF ChildEffect

(* A sweeper that enqueues a child takes a second look.                    *)
LEMMA InsertedIsWatched ==
    ASSUME Typed, Quiet, ~scenario.fastPath, NEW c \in ChildIds, Inserted(c)
    PROVE  CancelComing(c)'
<1>1. fanouts[c[1]] = NoFanOut
  BY DEF Quiet, ChildIds
<1>2. PICK s \in Sweepers : ReconcileEnqueue(s) /\ sweeps[s].child = c
  BY <1>1 DEF Inserted, EnqueuedBySomeone
<1>3. sweeps'[s].stage = "after" /\ sweeps'[s].child = c
  BY <1>2, StageFields DEF ReconcileEnqueue, Typed
<1> QED
  BY <1>3 DEF CancelComing

(* A coming cancel comes, or is still coming.                              *)
LEMMA ComingStays ==
    ASSUME StepKnown, RowsTruthful, scenario.crashes = 0,
           NEW c \in ChildIds, CancelledRow(c), Lives(cJobs[c]),
           Lives(cJobs'[c]), CancelComing(c)
    PROVE  CancelComing(c)'
<1>1. PICK s \in Sweepers :
         \/ sweeps[s].child = c /\ sweeps[s].stage \in {"after", "cancel"}
         \/ c \in sweeps[s].cascade
  BY DEF CancelComing
<1> DEFINE v == sweeps[s]
           w == sweeps'[s]
<1>2. SUFFICES \/ w.child = c /\ w.stage \in {"after", "cancel"}
               \/ c \in w.cascade
  BY DEF CancelComing
<1>3. ~CancelChild(c)
  BY CancelChildEnds DEF StepKnown, Known
<1>4. ~Parked(c[1])
  BY CancelledRowSettled DEF StepKnown
<1>5. CASE w = v
  BY <1>1, <1>5
<1>6. ~Crash
  BY DEF Crash, StepKnown, Known, Typed, FanOutsTyped
<1>7. CASE SweepNext(s)
  <2>1. PassStep(v, w)
    BY <1>7, PassSteps DEF StepKnown, Known, Typed
  <2> HIDE DEF v, w
  <2>2. \/ v.child = c /\ v.stage \in {"after", "cancel"}
        \/ c \in v.cascade
    BY <1>1 DEF v
  <2>3. v # NoSweep
    BY <2>2 DEF NoSweep
  <2>4. ~(v.stage = "next" /\ v.cascade = {})
    BY <2>2
  <2>5. CASE w.cascade = v.cascade /\ (Reads(v, w) \/ MovesOn(v, w))
    BY <1>3, <1>4, <2>2, <2>5 DEF Reads, MovesOn
  <2>6. CASE /\ w.stage = v.stage /\ w.child = v.child
             /\ \/ \E d \in v.cascade : CancelChild(d)
                                           /\ w.cascade = v.cascade \ {d}
                \/ w.cascade = v.cascade
    BY <1>3, <2>2, <2>6
  <2>7. \/ w.child = c /\ w.stage \in {"after", "cancel"}
        \/ c \in w.cascade
    BY <2>1, <2>3, <2>4, <2>5, <2>6 DEF PassStep
  <2> QED
    BY <2>7 DEF w
<1>8. sweeps' = sweeps \/ \E t \in Sweepers : SweepNext(t)
  BY <1>6, SweepsSteps DEF StepKnown
<1>9. \A t \in Sweepers : SweepNext(t) => s = t \/ w = v
  BY PassSteps DEF StepKnown, Known, Typed
<1> QED
  BY <1>5, <1>7, <1>8, <1>9

(* How a child's cancel gets to count as delivered.                        *)
LEMMA SettledStep ==
    ASSUME StepKnown, CascadesOwed, NEW c \in ChildIds, Settled(c)',
           Lives(cJobs[c]), Lives(cJobs'[c])
    PROVE  Settled(c)
<1> DEFINE f == c[1]
           k == c[2]
           v == pRows[f][k]
           w == pRows'[f][k]
<1>1. \A s \in Sweepers : c \in sweeps[s].done => Settled(c)
  BY DEF CascadesOwed, Settled
<1>2. ASSUME NEW s \in Sweepers, c \in sweeps'[s].done
      PROVE  Settled(c)
  <2>1. ~CancelChild(c)
    BY CancelChildEnds DEF StepKnown, Known
  <2>2. c \in sweeps[s].done
    BY <1>2, <2>1, PassChildren DEF StepKnown, Known
  <2> QED
    BY <1>1, <2>2
<1>3. ASSUME w.cascaded
      PROVE  Settled(c)
  <2>1. RowStep(f, k, v, w) /\ w # None /\ w.status = "cancelled"
    BY DEF StepKnown, ParentEffect, ChildIds, Settled, CancelledRow, Row
  <2>2. CASE RowSame(v, w)
    BY <1>3, <2>1, <2>2 DEF RowSame, Settled, CancelledRow, Row
  <2>3. CASE ReportedToRow(f, k, v, w)
    <3>1. Told(c, "cancelled")
      BY <2>1, <2>3, ReportIsTold DEF ReportedToRow, StepKnown
    <3>2. cJobs[c].state = "cancelled"
      BY <3>1 DEF Told, StepKnown, Known, ToldInv, CancelsFinal
    <3> QED
      BY <3>2 DEF Lives, Outcomes
  <2>4. CASE CascadedRow(f, k, v, w)
    <3>1. c = <<f, k>>
      BY DEF ChildIds
    <3> QED
      BY <1>1, <2>4, <3>1 DEF CascadedRow
  <2> QED
    BY <1>3, <2>1, <2>2, <2>3, <2>4 DEF RowStep, Opened, SettledRow
<1> QED
  BY <1>2, <1>3 DEF Settled, Row

LEMMA NoLooseStep ==
    ASSUME StepKnown, RowsTruthful, OrphanInv
    PROVE  NoLoose'
<1>1. scenario' = scenario
  BY ScenarioStays DEF StepKnown
<1> SUFFICES ASSUME ~scenario.fastPath, scenario.crashes = 0,
                    scenario.retries = 0, NEW c \in ChildIds,
                    Settled(c)', Lives(cJobs'[c])
             PROVE  CancelComing(c)'
  BY <1>1 DEF NoLoose
<1>2. CASE Inserted(c)
  BY <1>2, InsertedIsWatched DEF StepKnown, Known, OrphanInv
<1>3. CASE Lives(cJobs[c])
  <2>1. Settled(c)
    BY <1>3, SettledStep DEF OrphanInv
  <2>2. CancelComing(c) /\ CancelledRow(c)
    BY <1>3, <2>1 DEF OrphanInv, NoLoose, Settled
  <2> QED
    BY <1>3, <2>2, ComingStays
<1> QED
  BY <1>2, <1>3, LivesStep DEF StepKnown, Known, OrphanInv

LEMMA OrphanInit == Init => OrphanInv
<1> SUFFICES ASSUME Init PROVE OrphanInv
  OBVIOUS
<1>1. Quiet
  BY DEF Init, Quiet
<1>2. Numbered
  <2>1. Existing = {}
    BY DEF Init, Existing
  <2> QED
    BY <2>1, FS_EmptySet DEF Init, Numbered
<1>3. CascadesOwed
  BY DEF Init, CascadesOwed, NoSweep
<1>4. NoLoose
  BY DEF Init, NoLoose, Settled, CancelledRow, Row, ChildIds
<1> QED
  BY <1>1, <1>2, <1>3, <1>4 DEF OrphanInv

LEMMA OrphanStep ==
    ASSUME Known, Known', FreshParents, RowsTruthful, OrphanInv, [Next]_vars
    PROVE  OrphanInv'
<1>1. StepKnown
  BY KnownStep
<1> QED
  BY <1>1, QuietStep, NumberedStep, CascadesOwedStep, NoLooseStep
     DEF OrphanInv, StepKnown, Known

(* Sweepers leave no orphan: the parent is read before and after the       *)
(* enqueue of a missing child, and whoever settles it in between, one of   *)
(* them cancels the child; provided that no sweeper dies before its second *)
(* look, and that nobody takes the fast path or revives the child.         *)
THEOREM NoOrphanLeft == Spec => []SweepersLeaveNoOrphan
<1>1. ASSUME NoLoose
      PROVE  SweepersLeaveNoOrphan
  <2> SUFFICES ASSUME ~scenario.fastPath, scenario.crashes = 0,
                      scenario.retries = 0, NEW c \in ChildIds, Orphan(c)
               PROVE  FALSE
    BY DEF SweepersLeaveNoOrphan, NoOrphan
  <2>1. Settled(c) /\ Lives(cJobs[c]) /\ ~CancelComing(c)
    BY DEF Orphan, Settled, CancelledRow, Lives, Unfinished
  <2> QED
    BY <1>1, <2>1 DEF NoLoose
<1>2. OrphanInv => SweepersLeaveNoOrphan
  BY <1>1 DEF OrphanInv
<1>3. /\ Known /\ Known' /\ FreshParents /\ RowsTruthful /\ OrphanInv
      /\ [Next]_vars
      => OrphanInv'
  BY OrphanStep
<1> QED
  BY <1>2, <1>3, OrphanInit, AlwaysKnown, ParentsStayFresh, RowsAreTruthful,
     PTL DEF Spec

=============================================================================
