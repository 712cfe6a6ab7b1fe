--------------------------- MODULE SchedulesProofs --------------------------
(***************************************************************************)
(* Schedules over the wake protocol, proved for every number of processes, *)
(* takers, queues, jobs, callers and keys: as long as no message and no    *)
(* process is lost no wake-up is, a slot fires once and is not dropped,    *)
(* and a layer prunes its own group.                                       *)
(*                                                                         *)
(* The argument for wake-ups looks at one taker at a time.  A taker that   *)
(* is not attentive and that no word is on its way to sleeps well: its     *)
(* queue has nothing for it, or nothing before its own deadline            *)
(* (SleepsWell).  A step leaves it undisturbed, or sends word to it, or    *)
(* wakes it, or is its own claim, which looks at the whole queue           *)
(* (Noticed).                                                              *)
(*                                                                         *)
(* A sweeper's rows may be stale in every way but one: the slot it is      *)
(* about to tick lies before the occurrence it would advance to, which is  *)
(* not beyond the clock's next one (TicksAhead).  What fired therefore     *)
(* lies behind the row (FiredBehind).                                      *)
(***************************************************************************)
EXTENDS Schedules, WellFoundedInduction, TLAPS

-----------------------------------------------------------------------------
(* The steps of the wake protocol                                          *)

Stages == {"idle", "claiming", "emptied", "parked", "busy"}
Taker == [stage : Stages, signalled : BOOLEAN, deadline : Nat \cup {None},
          job : JobIds \cup {None}]

Typed ==
    /\ now \in Nat
    /\ jobs \in [JobIds -> Job \cup {None}]
    /\ up \in [Procs -> BOOLEAN]
    /\ takers \in [Takers -> Taker]
    /\ announcing \subseteq Procs \X Names
    /\ channel \in [Procs -> SUBSET Names]
    /\ lost \in BOOLEAN
    /\ scenario \in Scenarios
    /\ \A t \in Takers : takers[t].job # None <=> takers[t].stage = "busy"

\* A busy taker runs a job of its own.
RunsOwnJob ==
    /\ \A t \in Takers : takers[t].stage = "busy" =>
          jobs[takers[t].job] # None /\ jobs[takers[t].job].state = "active"
    /\ \A t, u \in Takers :
          takers[t].stage = "busy" /\ takers[u].job = takers[t].job => t = u

DownIdle == \A t \in Takers : ~up[ProcOf[t]] => takers[t] = Idle

Base == Typed /\ RunsOwnJob /\ DownIdle

Word(t) == WordComes(t, QueueOf[t])

\* What a claim of the queue makes of the jobs before it hands one out.
DuePromoted(q) ==
    [id \in JobIds |-> IF id \in Due(q)
                       THEN [jobs[id] EXCEPT !.state = "waiting"] ELSE jobs[id]]

\* Nothing for a claim, before the deadline.
SleepsWell(t) ==
    \A id \in JobIds : jobs[id] # None /\ jobs[id].queue = QueueOf[t] =>
        /\ jobs[id].state = "waiting" => QueueOf[t] \in paused
        /\ jobs[id].state = "delayed" => /\ takers[t].deadline \in Nat
                                         /\ takers[t].deadline <= jobs[id].runAt

Vigilant ==
    \A t \in scenario.takers :
        up[ProcOf[t]] /\ ~lost /\ ~Attentive(t) /\ ~Word(t) => SleepsWell(t)

\* A step that brings the queue nothing but jobs that became due.
NothingNew(q) ==
    /\ q \in paused => q \in paused'
    /\ \A id \in JobIds : jobs'[id] # None /\ jobs'[id].queue = q =>
          /\ jobs'[id].state = "waiting" =>
                /\ jobs[id] # None /\ jobs[id].queue = q
                /\ \/ jobs[id].state = "waiting"
                   \/ jobs[id].state = "delayed" /\ jobs[id].runAt <= now
          /\ jobs'[id].state = "delayed" => jobs'[id] = jobs[id]

\* The taker stays where it is, or goes on to park.
Undisturbed(t) ==
    /\ \/ takers'[t] = takers[t]
       \/ /\ takers[t].stage = "emptied" /\ ~takers[t].signalled
          /\ takers'[t].deadline = takers[t].deadline
    /\ Word(t) => Word(t)'
    /\ NothingNew(QueueOf[t])

Noticed(t) ==
    \/ Undisturbed(t) \/ lost' \/ ~up'[ProcOf[t]]
    \/ Word(t)' \/ Attentive(t)' \/ SleepsWell(t)'

\* What every step does.
Watchful ==
    /\ now' \in Nat /\ now <= now'
    /\ scenario' = scenario
    /\ lost => lost'
    /\ \A t \in scenario.takers : Noticed(t)

Good == Base' /\ Watchful

-----------------------------------------------------------------------------
(* Helpers                                                                 *)

(* A non-empty set of naturals has a least element.                        *)
LEMMA MinOfNats ==
    ASSUME NEW S, S \subseteq Nat, S # {}
    PROVE  Min(S) \in S /\ \A y \in S : Min(S) <= y
<1> DEFINE R == OpToRel(<, Nat)
<1>1. IsWellFoundedOn(R, Nat)
  BY NatLessThanWellFounded
<1>2. PICK x \in S : \A y \in S : <<y, x>> \notin R
  <2> HIDE DEF R
  <2> QED
    BY <1>1, WFMin
<1>3. R = {ss \in Nat \X Nat : ss[1] < ss[2]}
  BY Zenon DEF OpToRel
<1> HIDE DEF R
<1>4. ASSUME NEW y \in S PROVE <<y, x>> \in R <=> y < x
  BY <1>3
<1>5. ASSUME NEW y \in S PROVE ~(y < x)
  BY <1>2, <1>4
<1>6. \A y \in S : x <= y
  BY <1>5
<1> QED
  BY <1>2, <1>6 DEF Min

(* A new job is a job.                                                     *)
LEMMA NewJobType ==
    ASSUME now \in Nat, NEW q \in Queues, NEW delay \in Nat
    PROVE  /\ NewJob(q, delay) \in Job /\ NewJob(q, delay).queue = q
           /\ NewJob(q, delay).attemptsMade = 0
BY TakersAssumption DEF NewJob, Job

(* Idle takers have the type of takers.                                    *)
LEMMA IdleType == Idle \in Taker /\ Idle.job = None /\ Idle.stage = "idle"
BY DEF Idle, Taker, Stages

(* A transition changes the state of a job and nothing else.               *)
LEMMA StateType ==
    ASSUME NEW j \in Job, NEW s \in {"waiting", "delayed", "active", "done"}
    PROVE  /\ [j EXCEPT !.state = s] \in Job
           /\ [j EXCEPT !.state = s].state = s
           /\ [j EXCEPT !.state = s].queue = j.queue
           /\ [j EXCEPT !.state = s].runAt = j.runAt
BY DEF Job

(* The takers of a scenario.                                               *)
LEMMA ScenarioTakers ==
    ASSUME Typed
    PROVE  scenario \in Scenario /\ scenario.takers \subseteq Takers
           /\ scenario.jobs \subseteq JobIds
BY ScenariosAssumption DEF Typed, Scenario

(* signalWake wakes the takers of the queue, and the claims that are under *)
(* way will not park.                                                      *)
LEMMA SignalledEffect ==
    ASSUME Base, NEW p \in Procs, NEW q \in Names
    PROVE  /\ Signalled(p, q) \in [Takers -> Taker]
           /\ \A t \in Takers :
                 /\ ~Hears(t, p, q) => Signalled(p, q)[t] = takers[t]
                 /\ Signalled(p, q)[t].job = takers[t].job
                 /\ Signalled(p, q)[t].stage = "busy"
                        <=> takers[t].stage = "busy"
                 /\ takers[t] = Idle => Signalled(p, q)[t] = Idle
                 /\ Hears(t, p, q) =>
                       \/ Signalled(p, q)[t].stage \in {"idle", "claiming", "busy"}
                       \/ /\ Signalled(p, q)[t].stage = "emptied"
                          /\ Signalled(p, q)[t].signalled
<1> SUFFICES ASSUME NEW t \in Takers
             PROVE  /\ Signalled(p, q)[t] \in Taker
                    /\ ~Hears(t, p, q) => Signalled(p, q)[t] = takers[t]
                    /\ Signalled(p, q)[t].job = takers[t].job
                    /\ Signalled(p, q)[t].stage = "busy"
                           <=> takers[t].stage = "busy"
                    /\ takers[t] = Idle => Signalled(p, q)[t] = Idle
                    /\ Hears(t, p, q) =>
                          \/ Signalled(p, q)[t].stage
                                 \in {"idle", "claiming", "busy"}
                          \/ /\ Signalled(p, q)[t].stage = "emptied"
                             /\ Signalled(p, q)[t].signalled
  BY DEF Signalled
<1>1. takers[t] \in Taker /\ (takers[t].job # None <=> takers[t].stage = "busy")
  BY DEF Base, Typed
<1>2. Signalled(p, q)[t] =
        IF ~Hears(t, p, q) THEN takers[t]
        ELSE IF takers[t].stage = "parked" THEN Idle
        ELSE IF takers[t].stage \in {"claiming", "emptied"}
        THEN [takers[t] EXCEPT !.signalled = TRUE]
        ELSE takers[t]
  BY DEF Signalled
<1> QED
  BY <1>1, <1>2, IdleType DEF Taker, Stages

(* Word of the queue is on its way after an announcing call, and no word   *)
(* is taken back.                                                          *)
LEMMA AnnouncedWord ==
    ASSUME Base, NEW p \in Procs, NEW q \in Names, WillAnnounce(p, q),
           channel' = channel
    PROVE  /\ announcing' \subseteq Procs \X Names
           /\ \A t \in scenario.takers :
                 /\ q \in {QueueOf[t], Everyone} => Word(t)'
                 /\ Word(t) => Word(t)'
<1>1. announcing' = announcing \cup {<<p, q>>} \/ scenario.takers = {}
  BY DEF WillAnnounce
<1>2. announcing' \subseteq Procs \X Names
  BY DEF WillAnnounce, Base, Typed
<1>3. ASSUME NEW t \in scenario.takers
      PROVE  /\ q \in {QueueOf[t], Everyone} => Word(t)'
             /\ Word(t) => Word(t)'
  <2>1. announcing' = announcing \cup {<<p, q>>}
    BY <1>1
  <2>2. announcing \subseteq announcing' /\ <<p, q>> \in announcing'
    BY <2>1
  <2>3. q \in {QueueOf[t], Everyone} => Word(t)'
    <3>1. <<p, q>>[2] = q
      OBVIOUS
    <3> QED
      BY <2>2, <3>1, Zenon DEF Word, WordComes
  <2>4. Word(t) => Word(t)'
    BY <2>2, Zenon DEF Word, WordComes
  <2> QED
    BY <2>3, <2>4
<1> QED
  BY <1>2, <1>3

(* A step that leaves the store and the fibers alone.                      *)
LEMMA StutterGood ==
    ASSUME Base, UNCHANGED wakeupVars
    PROVE  Good
<1>1. Base'
  BY DEF Base, Typed, RunsOwnJob, DownIdle, wakeupVars, storeVars, wakeVars,
         bounds
<1>2. \A t \in scenario.takers : Undisturbed(t)
  BY DEF Undisturbed, NothingNew, Word, WordComes, wakeupVars, storeVars,
         wakeVars, bounds
<1> QED
  BY <1>1, <1>2 DEF Good, Watchful, Noticed, Base, Typed, wakeupVars, bounds

-----------------------------------------------------------------------------
(* Announcements and messages                                              *)

(* wakeUp wakes its own takers and sends word to the others.               *)
LEMMA AnnounceGood ==
    ASSUME Base, NEW p \in Procs, NEW q \in Names, Announce(p, q)
    PROVE  Good
<1>1. /\ takers' = Signalled(p, q) /\ announcing' = announcing \ {<<p, q>>}
      /\ channel' = [r \in Procs |-> IF r \in Listening \ {p}
                                     THEN channel[r] \cup {q} ELSE channel[r]]
      /\ UNCHANGED <<now, jobs, paused, up, lost, faults, scenario>>
  BY DEF Announce, storeVars, bounds
<1>2. Typed'
  BY <1>1, SignalledEffect DEF Base, Typed
<1>3. RunsOwnJob'
  BY <1>1, SignalledEffect DEF Base, RunsOwnJob
<1>4. DownIdle'
  BY <1>1, SignalledEffect DEF Base, DownIdle
<1>5. ASSUME NEW t \in scenario.takers PROVE Noticed(t)
  <2>1. t \in Takers /\ ProcOf[t] \in Procs
    BY ScenarioTakers, TakersAssumption DEF Base
  <2>2. CASE Hears(t, p, q)
    BY <1>1, <2>1, <2>2, SignalledEffect DEF Noticed, Attentive
  <2>3. CASE ~Hears(t, p, q) /\ q \in {QueueOf[t], Everyone}
    <3>1. ProcOf[t] # p
      BY <2>3 DEF Hears
    <3>2. up[ProcOf[t]] => ProcOf[t] \in Listening
      BY <2>1 DEF Listening
    <3>3. up[ProcOf[t]] => q \in channel'[ProcOf[t]]
      BY <1>1, <2>1, <3>1, <3>2
    <3> QED
      BY <1>1, <2>3, <3>3 DEF Noticed, Word, WordComes
  <2>4. CASE q \notin {QueueOf[t], Everyone}
    <3>1. takers'[t] = takers[t]
      BY <1>1, <2>1, <2>4, SignalledEffect DEF Hears
    <3>2. Word(t) => Word(t)'
      BY <1>1, <2>1, <2>4 DEF Word, WordComes
    <3> QED
      BY <1>1, <3>1, <3>2 DEF Noticed, Undisturbed, NothingNew
  <2> QED
    BY <2>2, <2>3, <2>4
<1> QED
  BY <1>1, <1>2, <1>3, <1>4, <1>5 DEF Good, Base, Watchful, Typed

(* A message wakes the takers it was sent for.                             *)
LEMMA DeliverGood ==
    ASSUME Base, NEW p \in Procs, NEW q \in Names, Deliver(p, q)
    PROVE  Good
<1>1. /\ takers' = Signalled(p, q)
      /\ channel' = [channel EXCEPT ![p] = @ \ {q}]
      /\ UNCHANGED <<now, jobs, paused, up, announcing, lost, faults, scenario>>
  BY DEF Deliver, storeVars, bounds
<1>2. Typed'
  BY <1>1, SignalledEffect DEF Base, Typed
<1>3. RunsOwnJob'
  BY <1>1, SignalledEffect DEF Base, RunsOwnJob
<1>4. DownIdle'
  BY <1>1, SignalledEffect DEF Base, DownIdle
<1>5. ASSUME NEW t \in scenario.takers PROVE Noticed(t)
  <2>1. t \in Takers /\ ProcOf[t] \in Procs
    BY ScenarioTakers, TakersAssumption DEF Base
  <2>2. CASE Hears(t, p, q)
    BY <1>1, <2>1, <2>2, SignalledEffect DEF Noticed, Attentive
  <2>3. CASE ~Hears(t, p, q)
    <3>1. takers'[t] = takers[t]
      BY <1>1, <2>1, <2>3, SignalledEffect
    <3>2. Word(t) => Word(t)'
      BY <1>1, <2>1, <2>3 DEF Word, WordComes, Hears, Base, Typed
    <3> QED
      BY <1>1, <3>1, <3>2 DEF Noticed, Undisturbed, NothingNew
  <2> QED
    BY <2>2, <2>3
<1> QED
  BY <1>1, <1>2, <1>3, <1>4, <1>5 DEF Good, Base, Watchful, Typed

-----------------------------------------------------------------------------
(* Store calls                                                             *)

(* A job that is put into the store, or made runnable, by a call that      *)
(* announces its queue.  No taker runs it.                                 *)
LEMMA PutGood ==
    ASSUME Base, NEW p \in Procs, NEW id \in JobIds, NEW j \in Job,
           j.state \in {"waiting", "delayed"},
           \A t \in Takers : takers[t].job # id,
           jobs' = [jobs EXCEPT ![id] = j], WillAnnounce(p, j.queue),
           UNCHANGED <<now, paused, up, takers, channel, lost, scenario>>
    PROVE  Good
<1>1. j.queue \in Names
  BY DEF Job, Names
<1>2. Typed'
  BY <1>1, AnnouncedWord DEF Base, Typed
<1>3. RunsOwnJob'
  BY DEF Base, RunsOwnJob, Typed, Taker
<1>4. DownIdle'
  BY DEF Base, DownIdle
<1>5. ASSUME NEW t \in scenario.takers PROVE Noticed(t)
  <2>1. CASE j.queue = QueueOf[t]
    BY <1>1, <2>1, AnnouncedWord DEF Noticed
  <2>2. CASE j.queue # QueueOf[t]
    <3>1. NothingNew(QueueOf[t])
      BY <2>2 DEF NothingNew, Base, Typed
    <3> QED
      BY <1>1, <3>1, AnnouncedWord DEF Noticed, Undisturbed
  <2> QED
    BY <2>1, <2>2
<1> QED
  BY <1>2, <1>3, <1>4, <1>5 DEF Good, Base, Watchful, Typed

(* enqueue                                                                 *)
LEMMA EnqueueGood ==
    ASSUME Base, NEW p \in Procs, NEW id \in JobIds, NEW q \in Queues,
           NEW delay \in Delays, Enqueue(p, id, q, delay)
    PROVE  Good
<1> DEFINE j == NewJob(q, delay)
<1>1. j \in Job /\ j.queue = q /\ j.state \in {"waiting", "delayed"}
  BY NewJobType, TakersAssumption DEF Base, Typed, NewJob
<1>2. \A t \in Takers : takers[t].job # id
  BY NoneAssumption DEF Enqueue, Base, Typed, RunsOwnJob
<1>3. /\ jobs' = [jobs EXCEPT ![id] = j] /\ WillAnnounce(p, q)
      /\ UNCHANGED <<now, paused, up, takers, channel, lost, scenario>>
  BY DEF Enqueue, bounds
<1> HIDE DEF j
<1> QED
  BY <1>1, <1>2, <1>3, PutGood

(* promote                                                                 *)
LEMMA PromoteGood ==
    ASSUME Base, NEW p \in Procs, NEW id \in JobIds, Promote(p, id)
    PROVE  Good
<1> DEFINE j == [jobs[id] EXCEPT !.state = "waiting", !.runAt = now]
<1>1. jobs[id] \in Job /\ jobs[id].state = "delayed"
  BY DEF Promote, InState, Base, Typed
<1>2. j \in Job /\ j.state = "waiting" /\ j.queue = jobs[id].queue
  BY <1>1 DEF Job, Base, Typed
<1>3. \A t \in Takers : takers[t].job # id
  BY <1>1, NoneAssumption DEF Base, Typed, RunsOwnJob
<1>4. /\ jobs' = [jobs EXCEPT ![id] = j] /\ WillAnnounce(p, jobs[id].queue)
      /\ UNCHANGED <<now, paused, up, takers, channel, lost, scenario>>
  BY DEF Promote, bounds, Base, Typed
<1> HIDE DEF j
<1> QED
  BY <1>2, <1>3, <1>4, PutGood

(* pause                                                                   *)
LEMMA PauseGood ==
    ASSUME Base, NEW p \in Procs, NEW q \in Queues, Pause(p, q)
    PROVE  Good
<1>1. q \notin paused /\ paused' = paused \cup {q}
      /\ UNCHANGED <<now, jobs, up, takers, announcing, channel, lost, scenario>>
  BY DEF Pause, wakeVars, bounds
<1>2. Base'
  BY <1>1 DEF Base, Typed, RunsOwnJob, DownIdle
<1>3. \A t \in scenario.takers : Undisturbed(t)
  BY <1>1 DEF Undisturbed, NothingNew, Word, WordComes
<1> QED
  BY <1>1, <1>2, <1>3 DEF Good, Watchful, Noticed, Base, Typed

(* resume                                                                  *)
LEMMA ResumeGood ==
    ASSUME Base, NEW p \in Procs, NEW q \in Queues, Resume(p, q)
    PROVE  Good
<1>1. /\ paused' = paused \ {q} /\ WillAnnounce(p, q) /\ q \in Names
      /\ UNCHANGED <<now, jobs, up, takers, channel, lost, scenario>>
  BY DEF Resume, bounds, Names
<1>2. Base'
  BY <1>1, AnnouncedWord DEF Base, Typed, RunsOwnJob, DownIdle
<1>3. ASSUME NEW t \in scenario.takers PROVE Noticed(t)
  <2>1. CASE q = QueueOf[t]
    BY <1>1, <2>1, AnnouncedWord DEF Noticed
  <2>2. CASE q # QueueOf[t]
    BY <1>1, <2>2, AnnouncedWord DEF Noticed, Undisturbed, NothingNew
  <2> QED
    BY <2>1, <2>2
<1> QED
  BY <1>1, <1>2, <1>3 DEF Good, Watchful, Base, Typed

(* recoverStalled names no queue.                                          *)
LEMMA RecoverStalledGood ==
    ASSUME Base, NEW p \in Procs, RecoverStalled(p)
    PROVE  Good
<1>1. /\ jobs' = [id \in JobIds |-> IF id \in Abandoned
                                    THEN [jobs[id] EXCEPT !.state = "waiting"]
                                    ELSE jobs[id]]
      /\ WillAnnounce(p, Everyone) /\ Everyone \in Names
      /\ UNCHANGED <<now, paused, up, takers, channel, lost, scenario>>
  BY DEF RecoverStalled, bounds, Names
<1>2. ASSUME NEW id \in Abandoned PROVE jobs[id] \in Job
  BY DEF Abandoned, InState, Base, Typed
<1>3. jobs' \in [JobIds -> Job \cup {None}]
  BY <1>1, <1>2, StateType DEF Base, Typed
<1>4. Typed'
  BY <1>1, <1>3, AnnouncedWord DEF Base, Typed
<1>5. ASSUME NEW t \in Takers, takers[t].stage = "busy"
      PROVE  takers[t].job \in JobIds /\ jobs'[takers[t].job] = jobs[takers[t].job]
  <2>1. takers[t].job \in JobIds
    BY <1>5 DEF Base, Typed, Taker
  <2>2. takers[t].job \notin Abandoned
    BY DEF Abandoned
  <2> QED
    BY <1>1, <2>1, <2>2
<1>6. RunsOwnJob'
  BY <1>1, <1>5 DEF Base, RunsOwnJob
<1>7. DownIdle'
  BY <1>1 DEF Base, DownIdle
<1>8. \A t \in scenario.takers : Noticed(t)
  BY <1>1, AnnouncedWord DEF Noticed
<1> QED
  BY <1>1, <1>4, <1>6, <1>7, <1>8 DEF Good, Base, Watchful, Typed

-----------------------------------------------------------------------------
(* The runs of jobs                                                        *)

(* A run ends, and its job is done or goes back to the store as j.         *)
LEMMA RunEnds ==
    ASSUME Base, NEW t \in Takers, takers[t].stage = "busy", NEW j \in Job,
           j.state # "active",
           jobs' = [jobs EXCEPT ![takers[t].job] = j],
           takers' = [takers EXCEPT ![t] = Idle],
           announcing' \subseteq Procs \X Names,
           \A u \in scenario.takers :
              /\ Word(u) => Word(u)'
              /\ j.state \in {"waiting", "delayed"} /\ j.queue = QueueOf[u]
                    => Word(u)',
           UNCHANGED <<now, paused, up, channel, lost, scenario>>
    PROVE  Good
<1> DEFINE id == takers[t].job
<1>1. id \in JobIds
  BY DEF Base, Typed, Taker
<1>2. \A u \in Takers : u # t => takers[u].job # id
  BY DEF Base, RunsOwnJob
<1>3. Typed'
  BY <1>1, IdleType DEF Base, Typed
<1>4. RunsOwnJob'
  <2>1. ASSUME NEW u \in Takers, takers'[u].stage = "busy"
        PROVE  /\ u # t /\ takers'[u] = takers[u]
               /\ takers[u].job \in JobIds /\ jobs'[takers[u].job] = jobs[takers[u].job]
    <3>1. u # t
      BY <2>1, IdleType DEF Base, Typed
    <3>2. takers'[u] = takers[u] /\ takers[u].job \in JobIds
      BY <2>1, <3>1 DEF Base, Typed, Taker
    <3> QED
      BY <1>1, <1>2, <3>1, <3>2 DEF Base, Typed
  <2>2. \A u \in Takers : takers'[u].job = takers[u].job \/ takers'[u].job = None
    BY IdleType DEF Base, Typed
  <2>3. ASSUME NEW u \in Takers, NEW v \in Takers, takers'[u].stage = "busy",
               takers'[v].job = takers'[u].job
        PROVE  u = v
    <3>1. takers[u].stage = "busy" /\ takers'[u].job = takers[u].job
          /\ takers[u].job # None
      BY <2>1, <2>3, NoneAssumption
    <3>2. takers'[v].job = takers[v].job
      BY <2>2, <2>3, <3>1
    <3> QED
      BY <2>3, <3>1, <3>2 DEF Base, RunsOwnJob
  <2> QED
    BY <2>1, <2>3 DEF Base, RunsOwnJob
<1>5. DownIdle'
  BY DEF Base, DownIdle, Typed
<1>6. ASSUME NEW u \in scenario.takers PROVE Noticed(u)
  <2>1. u \in Takers
    BY ScenarioTakers DEF Base
  <2>2. CASE u = t
    BY <2>1, <2>2, IdleType DEF Noticed, Attentive, Base, Typed
  <2>3. CASE j.state \in {"waiting", "delayed"} /\ j.queue = QueueOf[u]
    BY <2>3 DEF Noticed
  <2>4. CASE u # t /\ ~(j.state \in {"waiting", "delayed"} /\ j.queue = QueueOf[u])
    <3>1. takers'[u] = takers[u]
      BY <2>1, <2>4 DEF Base, Typed
    <3>2. NothingNew(QueueOf[u])
      BY <1>1, <2>4 DEF NothingNew, Base, Typed
    <3> QED
      BY <3>1, <3>2 DEF Noticed, Undisturbed
  <2> QED
    BY <2>2, <2>3, <2>4
<1> QED
  BY <1>3, <1>4, <1>5, <1>6 DEF Good, Base, Watchful, Typed

(* The job of a busy taker.                                                *)
LEMMA RunningJob ==
    ASSUME Base, NEW t \in Takers, takers[t].stage = "busy"
    PROVE  takers[t].job \in JobIds /\ jobs[takers[t].job] \in Job
           /\ jobs[takers[t].job].state = "active"
<1>1. takers[t].job \in JobIds
  BY DEF Base, Typed, Taker
<1> QED
  BY <1>1 DEF Base, Typed, RunsOwnJob

(* complete, or fail for good                                              *)
LEMMA FinishJobGood ==
    ASSUME Base, NEW t \in Takers, FinishJob(t)
    PROVE  Good
<1> DEFINE j == [jobs[takers[t].job] EXCEPT !.state = "done"]
<1>1. takers[t].stage = "busy"
      /\ jobs' = [jobs EXCEPT ![takers[t].job] = j]
      /\ takers' = [takers EXCEPT ![t] = Idle]
      /\ UNCHANGED <<now, paused, up, announcing, channel, lost, scenario>>
  BY DEF FinishJob, wakeVars, bounds
<1>2. j \in Job /\ j.state = "done"
  BY <1>1, RunningJob, StateType
<1>3. announcing' \subseteq Procs \X Names
  BY <1>1 DEF Base, Typed
<1>4. \A u \in scenario.takers : Word(u) => Word(u)'
  BY <1>1 DEF Word, WordComes
<1> HIDE DEF j
<1> QED
  BY <1>1, <1>2, <1>3, <1>4, RunEnds

(* fail, with attempts left                                                *)
LEMMA RetryJobGood ==
    ASSUME Base, NEW t \in Takers, NEW delay \in Delays, RetryJob(t, delay)
    PROVE  Good
<1> DEFINE job == jobs[takers[t].job]
           j == [NewJob(job.queue, delay) EXCEPT
                    !.attemptsMade = job.attemptsMade + 1]
<1>1. takers[t].stage = "busy" /\ job.attemptsMade + 1 < AttemptsMax
      /\ jobs' = [jobs EXCEPT ![takers[t].job] = j]
      /\ WillAnnounce(ProcOf[t], job.queue)
      /\ takers' = [takers EXCEPT ![t] = Idle]
      /\ UNCHANGED <<now, paused, up, channel, lost, scenario>>
  BY DEF RetryJob, bounds
<1>2. job \in Job
  BY <1>1, RunningJob
<1>3. job.queue \in Queues /\ job.attemptsMade + 1 \in 0..AttemptsMax
  BY <1>1, <1>2, TakersAssumption DEF Job
<1>4. j \in Job /\ j.state # "active" /\ j.queue = job.queue
  BY <1>3, TakersAssumption DEF NewJob, Job, Base, Typed
<1>5. ProcOf[t] \in Procs /\ job.queue \in Names
  BY <1>3, TakersAssumption DEF Names
<1> HIDE DEF j, job
<1>6. /\ announcing' \subseteq Procs \X Names
      /\ \A u \in scenario.takers :
            /\ Word(u) => Word(u)'
            /\ j.queue = QueueOf[u] => Word(u)'
  BY <1>1, <1>4, <1>5, AnnouncedWord
<1> QED
  BY <1>1, <1>4, <1>6, RunEnds

(* Retention                                                               *)
LEMMA PruneGood ==
    ASSUME Base, NEW id \in JobIds, Prune(id)
    PROVE  Good
<1>1. /\ jobs[id] # None /\ jobs[id].state = "done"
      /\ jobs' = [jobs EXCEPT ![id] = None]
      /\ UNCHANGED <<now, paused, up, takers, announcing, channel, lost, scenario>>
  BY DEF Prune, InState, wakeVars, bounds
<1>2. Base'
  BY <1>1, RunningJob DEF Base, Typed, RunsOwnJob, DownIdle
<1>3. \A t \in scenario.takers : Undisturbed(t)
  BY <1>1 DEF Undisturbed, NothingNew, Word, WordComes, Base, Typed
<1> QED
  BY <1>1, <1>2, <1>3 DEF Good, Watchful, Noticed, Base, Typed

-----------------------------------------------------------------------------
(* Takers                                                                  *)

(* A step of a taker that runs no job and touches no job.                  *)
LEMMA TakerStep ==
    ASSUME Base, NEW t \in Takers, NEW x \in Taker, takers[t].stage # "busy",
           x.stage # "busy", x.job = None, up[ProcOf[t]] \/ x = Idle,
           takers' = [takers EXCEPT ![t] = x], Noticed(t),
           UNCHANGED <<now, jobs, paused, up, announcing, channel, lost, scenario>>
    PROVE  Good
<1>1. Typed'
  BY DEF Base, Typed
<1>2. \A u \in Takers : \/ takers'[u] = takers[u]
                        \/ takers'[u].stage # "busy" /\ takers'[u].job = None
  BY DEF Base, Typed
<1>3. RunsOwnJob'
  BY <1>2, RunningJob, NoneAssumption DEF Base, RunsOwnJob
<1>4. DownIdle'
  BY DEF Base, DownIdle, Typed
<1>5. ASSUME NEW u \in scenario.takers, u # t PROVE Undisturbed(u)
  BY <1>5, ScenarioTakers DEF Undisturbed, NothingNew, Word, WordComes, Base, Typed
<1> QED
  BY <1>1, <1>3, <1>4, <1>5 DEF Good, Base, Watchful, Typed, Noticed

(* A taker that has begun an iteration lives in a process that is up.      *)
LEMMA AwakeIsUp ==
    ASSUME Base, NEW t \in Takers, takers[t].stage # "idle"
    PROVE  up[ProcOf[t]] /\ (takers[t].stage # "busy" => takers[t].job = None)
BY IdleType DEF Base, DownIdle, Typed

(* A taker's iteration ends, or begins.                                    *)
LEMMA AttentiveStep ==
    ASSUME Base, NEW t \in Takers, NEW x \in Taker, takers[t].stage # "busy",
           x.stage \in {"idle", "claiming"}, x.job = None,
           up[ProcOf[t]] \/ x = Idle,
           takers' = [takers EXCEPT ![t] = x],
           UNCHANGED <<now, jobs, paused, up, announcing, channel, lost, scenario>>
    PROVE  Good
<1>1. Noticed(t)
  BY DEF Noticed, Attentive, Base, Typed
<1> QED
  BY <1>1, TakerStep

(* The token                                                               *)
LEMMA TakeTokenGood ==
    ASSUME Base, NEW t \in Takers, TakeToken(t)
    PROVE  Good
<1> DEFINE x == [Idle EXCEPT !.stage = "claiming"]
<1>1. x \in Taker /\ x.stage = "claiming" /\ x.job = None
  BY DEF Idle, Taker, Stages
<1>2. /\ up[ProcOf[t]] /\ takers[t].stage = "idle"
      /\ takers' = [takers EXCEPT ![t] = x]
      /\ UNCHANGED <<now, jobs, paused, up, announcing, channel, lost, scenario>>
  BY IdleType DEF TakeToken, SetTaker, storeVars, wakeVars, bounds
<1> HIDE DEF x
<1> QED
  BY <1>1, <1>2, AttentiveStep

(* The timers                                                              *)
LEMMA PollGood ==
    ASSUME Base, NEW t \in Takers, TimerFires(t) \/ PollFires(t)
    PROVE  Good
<1>1. /\ takers[t].stage = "parked" /\ takers' = [takers EXCEPT ![t] = Idle]
      /\ UNCHANGED <<now, jobs, paused, up, announcing, channel, lost, scenario>>
  BY DEF TimerFires, PollFires, SetTaker, storeVars, wakeVars, bounds
<1> QED
  BY <1>1, IdleType, AttentiveStep

(* awaitWake                                                               *)
LEMMA ParkGood ==
    ASSUME Base, NEW t \in Takers, Park(t)
    PROVE  Good
<1>1. /\ takers[t].stage = "emptied"
      /\ UNCHANGED <<now, jobs, paused, up, announcing, channel, lost, scenario>>
  BY DEF Park, storeVars, wakeVars, bounds
<1>2. CASE takers[t].signalled
  <2>1. takers' = [takers EXCEPT ![t] = Idle]
    BY <1>2 DEF Park, SetTaker
  <2> QED
    BY <1>1, <2>1, IdleType, AttentiveStep
<1>3. CASE ~takers[t].signalled
  <2> DEFINE x == [takers[t] EXCEPT !.stage = "parked"]
  <2>1. takers[t] \in Taker /\ takers[t].job = None /\ up[ProcOf[t]]
    BY <1>1, AwakeIsUp DEF Base, Typed
  <2>2. /\ x \in Taker /\ x.stage = "parked" /\ x.job = None
        /\ x.deadline = takers[t].deadline
    BY <2>1 DEF Taker, Stages
  <2>3. takers' = [takers EXCEPT ![t] = x]
    BY <1>3 DEF Park, SetTaker
  <2> HIDE DEF x
  <2>4. Undisturbed(t)
    BY <1>1, <1>3, <2>2, <2>3
    DEF Undisturbed, NothingNew, Word, WordComes, Base, Typed
  <2> QED
    BY <1>1, <2>1, <2>2, <2>3, <2>4, TakerStep DEF Noticed
<1> QED
  BY <1>2, <1>3

-----------------------------------------------------------------------------
(* The claim                                                               *)

(* Due jobs are promoted, which changes their state only.                  *)
LEMMA PromotedJobs ==
    ASSUME Base, NEW q \in Queues
    PROVE  /\ DuePromoted(q) \in [JobIds -> Job \cup {None}]
           /\ \A id \in JobIds :
                 /\ DuePromoted(q)[id] # None =>
                       jobs[id] # None /\ DuePromoted(q)[id].queue = jobs[id].queue
                 /\ id \notin Due(q) => DuePromoted(q)[id] = jobs[id]
                 /\ id \in Due(q) => DuePromoted(q)[id] # None
                                     /\ DuePromoted(q)[id].state = "waiting"
<1>1. ASSUME NEW id \in Due(q)
      PROVE  jobs[id] \in Job /\ id \in JobIds
  BY DEF Due, InState, Base, Typed
<1>2. \A id \in JobIds : jobs[id] \in Job \cup {None}
  BY DEF Base, Typed
<1>3. DuePromoted(q) =
        [id \in JobIds |-> IF id \in Due(q)
                           THEN [jobs[id] EXCEPT !.state = "waiting"]
                           ELSE jobs[id]]
  BY DEF DuePromoted
<1>4. ASSUME NEW id \in JobIds
      PROVE  DuePromoted(q)[id] = IF id \in Due(q)
                                  THEN [jobs[id] EXCEPT !.state = "waiting"]
                                  ELSE jobs[id]
  BY <1>3
<1>5. ASSUME NEW id \in JobIds
      PROVE  DuePromoted(q)[id] \in Job \cup {None}
  BY <1>1, <1>2, <1>4, StateType
<1>6. DuePromoted(q) \in [JobIds -> Job \cup {None}]
  BY <1>3, <1>5
<1>7. ASSUME NEW id \in JobIds, id \in Due(q)
      PROVE  /\ jobs[id] \in Job /\ DuePromoted(q)[id] \in Job
             /\ DuePromoted(q)[id].queue = jobs[id].queue
             /\ DuePromoted(q)[id].state = "waiting"
  <2>1. DuePromoted(q)[id] = [jobs[id] EXCEPT !.state = "waiting"]
    BY <1>4, <1>7
  <2> QED
    BY <1>1, <1>7, <2>1 DEF Job
<1>8. ASSUME NEW id \in JobIds, id \notin Due(q)
      PROVE  DuePromoted(q)[id] = jobs[id]
  BY <1>4, <1>8
<1> QED
  BY <1>6, <1>7, <1>8, NoneAssumption

(* The promotion is nothing new to the takers, of any queue.               *)
LEMMA PromotionNothingNew ==
    ASSUME Base, NEW q \in Queues, NEW r \in Queues, paused' = paused,
           \A id \in JobIds : jobs'[id] # None =>
              \/ jobs'[id] = jobs[id]
              \/ jobs'[id].state = "active"
              \/ /\ id \in Due(q) /\ jobs'[id].state = "waiting"
                 /\ jobs'[id].queue = jobs[id].queue
    PROVE  NothingNew(r)
BY DEF NothingNew, Due, InState

(* An empty claim has looked at the whole queue.                           *)
LEMMA EmptyClaimSleepsWell ==
    ASSUME Base, NEW t \in Takers,
           Runnable(QueueOf[t]) = {} \/ QueueOf[t] \in paused,
           \A id \in JobIds :
              /\ id \notin Due(QueueOf[t]) => jobs'[id] = jobs[id]
              /\ id \in Due(QueueOf[t]) => jobs'[id].state = "waiting",
           takers'[t].deadline = Deadline(t), paused' = paused
    PROVE  SleepsWell(t)'
<1> DEFINE q == QueueOf[t]
           later == {id \in InState("delayed") : /\ jobs[id].queue = q
                                                 /\ jobs[id].runAt > now}
           times == {jobs[id].runAt : id \in later}
<1>1. ASSUME NEW id \in JobIds, jobs'[id] # None, jobs'[id].queue = q,
             jobs'[id].state = "waiting"
      PROVE  q \in paused'
  <2>1. CASE id \in Due(q)
    BY <2>1 DEF Runnable
  <2>2. CASE id \notin Due(q)
    <3>1. id \in Runnable(q)
      BY <1>1, <2>2 DEF Runnable, InState
    <3> QED
      BY <3>1
  <2> QED
    BY <2>1, <2>2
<1>2. ASSUME NEW id \in JobIds, jobs'[id] # None, jobs'[id].queue = q,
             jobs'[id].state = "delayed"
      PROVE  takers'[t].deadline \in Nat /\ takers'[t].deadline <= jobs'[id].runAt
  <2>1. id \notin Due(q) /\ jobs'[id] = jobs[id]
    BY <1>2
  <2>2. jobs[id] \in Job /\ now \in Nat
    BY <1>2, <2>1 DEF Base, Typed
  <2>3. id \in later
    BY <1>2, <2>1, <2>2 DEF Due, InState, Job
  <2>4. times \subseteq Nat /\ jobs[id].runAt \in times
    BY <2>3 DEF InState, Base, Typed, Job
  <2> HIDE DEF times
  <2>5. Min(times) \in times /\ Min(times) <= jobs[id].runAt
    BY <2>4, MinOfNats
  <2>6. Deadline(t) = Min(times)
    BY <2>3 DEF Deadline, times
  <2> QED
    BY <2>1, <2>4, <2>5, <2>6
<1> QED
  BY <1>1, <1>2 DEF SleepsWell

(* claim                                                                   *)
LEMMA ClaimGood ==
    ASSUME Base, NEW t \in Takers, Claim(t)
    PROVE  Good
<1> DEFINE q == QueueOf[t]
           Promoted == DuePromoted(q)
<1>1. /\ takers[t].stage = "claiming"
      /\ UNCHANGED <<now, paused, up, announcing, channel, lost, scenario>>
  BY DEF Claim, wakeVars, bounds
<1>2. q \in Queues /\ takers[t] \in Taker /\ up[ProcOf[t]] /\ takers[t].job = None
  BY <1>1, AwakeIsUp, TakersAssumption DEF Base, Typed
<1>3. /\ Promoted \in [JobIds -> Job \cup {None}]
      /\ \A id \in JobIds :
            /\ Promoted[id] # None => jobs[id] # None
                                      /\ Promoted[id].queue = jobs[id].queue
            /\ id \notin Due(q) => Promoted[id] = jobs[id]
            /\ id \in Due(q) => Promoted[id] # None
                                /\ Promoted[id].state = "waiting"
  BY <1>2, PromotedJobs
<1>4. \A u \in Takers : takers[u].stage = "busy" =>
         /\ takers[u].job \in JobIds
         /\ takers[u].job \notin Runnable(q) /\ takers[u].job \notin Due(q)
  BY RunningJob DEF Runnable, Due, InState
<1>5. \A u \in scenario.takers : QueueOf[u] \in Queues /\ u \in Takers
  BY ScenarioTakers, TakersAssumption DEF Base
<1>6. CASE (Runnable(q) = {} \/ q \in paused)
           /\ jobs' = Promoted /\ takers' = [takers EXCEPT ![t] = Emptied(t)]
  <2> HIDE DEF Promoted, q
  <2> DEFINE x == Emptied(t)
  <2>1. Deadline(t) \in Nat \cup {None}
    <3> DEFINE times == {jobs[id].runAt : id \in
                  {i \in InState("delayed") : /\ jobs[i].queue = QueueOf[t]
                                              /\ jobs[i].runAt > now}}
    <3>1. times \subseteq Nat
      BY DEF InState, Base, Typed, Job
    <3>2. Deadline(t) = None \/ (Deadline(t) = Min(times) /\ times # {})
      BY DEF Deadline
    <3> HIDE DEF times
    <3> QED
      BY <3>1, <3>2, MinOfNats
  <2>2. /\ x \in Taker /\ x.stage = "emptied" /\ x.job = None
        /\ x.deadline = Deadline(t)
    BY <1>2, <2>1 DEF Emptied, Taker, Stages
  <2> HIDE DEF x
  <2>3. takers' = [takers EXCEPT ![t] = x]
    BY <1>6 DEF x
  <2>4. takers'[t] = x /\ \A u \in Takers : u # t => takers'[u] = takers[u]
    BY <2>3 DEF Base, Typed
  <2>5. Typed'
    BY <1>1, <1>3, <1>6, <2>2, <2>3 DEF Base, Typed
  <2>6. RunsOwnJob'
    BY <1>3, <1>4, <1>6, <2>2, <2>4, NoneAssumption DEF Base, RunsOwnJob
  <2>7. DownIdle'
    BY <1>1, <1>2, <2>4 DEF Base, DownIdle
  <2>8. \A r \in Queues : NothingNew(r)
    BY <1>1, <1>2, <1>3, <1>6, PromotionNothingNew
  <2>9. SleepsWell(t)'
    BY <1>1, <1>3, <1>6, <2>2, <2>4, EmptyClaimSleepsWell DEF q
  <2>10. \A u \in scenario.takers : Noticed(u)
    BY <1>1, <1>5, <2>4, <2>8, <2>9 DEF Noticed, Undisturbed, Word, WordComes
  <2> QED
    BY <1>1, <2>5, <2>6, <2>7, <2>10 DEF Good, Base, Watchful, Typed
<1>7. ASSUME NEW i \in Runnable(q),
             jobs' = [Promoted EXCEPT ![i].state = "active"],
             takers' = [takers EXCEPT ![t] = [Idle EXCEPT !.stage = "busy",
                                                          !.job = i]]
      PROVE  Good
  <2> HIDE DEF Promoted, q
  <2> DEFINE x == [Idle EXCEPT !.stage = "busy", !.job = i]
             j == [Promoted[i] EXCEPT !.state = "active"]
  <2>1. i \in JobIds /\ jobs[i] # None
    BY DEF Runnable, Due, InState
  <2>2. Promoted[i] \in Job
    BY <1>3, <2>1 DEF Base, Typed
  <2>3. j \in Job /\ j.state = "active"
    BY <2>2, StateType
  <2>4. x \in Taker /\ x.stage = "busy" /\ x.job = i
    BY <2>1 DEF Idle, Taker, Stages
  <2> HIDE DEF x, j
  <2>5. takers' = [takers EXCEPT ![t] = x] /\ jobs' = [Promoted EXCEPT ![i] = j]
    BY <1>7 DEF x, j
  <2>6. takers'[t] = x /\ \A u \in Takers : u # t => takers'[u] = takers[u]
    BY <2>5 DEF Base, Typed
  <2>7. jobs'[i] = j /\ \A id \in JobIds : id # i => jobs'[id] = Promoted[id]
    BY <1>3, <2>1, <2>5
  <2>8. Typed'
    BY <1>1, <1>3, <2>1, <2>3, <2>4, <2>5, NoneAssumption DEF Base, Typed
  <2>9. RunsOwnJob'
    <3>1. \A u \in Takers : u # t => takers[u].job # i
      BY <1>4, <2>1, NoneAssumption DEF Base, Typed
    <3>2. ASSUME NEW u \in Takers, takers'[u].stage = "busy"
          PROVE  jobs'[takers'[u].job] # None
                 /\ jobs'[takers'[u].job].state = "active"
      <4>1. CASE u = t
        BY <2>3, <2>4, <2>6, <2>7, <4>1, NoneAssumption
      <4>2. CASE u # t
        BY <1>3, <1>4, <2>6, <2>7, <3>1, <3>2, <4>2 DEF Base, RunsOwnJob
      <4> QED
        BY <4>1, <4>2
    <3>3. ASSUME NEW u \in Takers, NEW v \in Takers, takers'[u].stage = "busy",
                 takers'[v].job = takers'[u].job
          PROVE  u = v
      BY <2>4, <2>6, <3>1, <3>3 DEF Base, RunsOwnJob
    <3> QED
      BY <3>2, <3>3 DEF RunsOwnJob
  <2>10. DownIdle'
    BY <1>1, <1>2, <2>6 DEF Base, DownIdle
  <2>11. \A r \in Queues : NothingNew(r)
    BY <1>1, <1>2, <1>3, <2>3, <2>7, PromotionNothingNew
  <2>12. Attentive(t)'
    BY <2>4, <2>6 DEF Attentive
  <2>13. \A u \in scenario.takers : Noticed(u)
    BY <1>1, <1>5, <2>6, <2>11, <2>12 DEF Noticed, Undisturbed, Word, WordComes
  <2> QED
    BY <1>1, <2>8, <2>9, <2>10, <2>13 DEF Good, Base, Watchful, Typed
<1> QED
  BY <1>6, <1>7 DEF Claim, SetTaker, DuePromoted

-----------------------------------------------------------------------------
(* Faults and time                                                         *)

(* A crash loses what its process was to announce, or leaves the takers of *)
(* the others undisturbed.                                                 *)
LEMMA CrashGood ==
    ASSUME Base, NEW p \in Procs, Crash(p)
    PROVE  Good
<1>1. /\ up' = [up EXCEPT ![p] = FALSE]
      /\ takers' = [t \in Takers |-> IF ProcOf[t] = p THEN Idle ELSE takers[t]]
      /\ announcing' = {a \in announcing : a[1] # p}
      /\ channel' = [channel EXCEPT ![p] = {}]
      /\ lost' = (lost \/ announcing' # announcing)
      /\ UNCHANGED <<now, jobs, paused, scenario>>
  BY DEF Crash, Fault, storeVars
<1>2. lost' \in BOOLEAN /\ (lost => lost')
      /\ (lost' \/ announcing' = announcing)
  BY <1>1 DEF Base, Typed
<1>3. \A t \in Takers : \/ takers'[t] = takers[t]
                        \/ takers'[t].stage = "idle" /\ takers'[t].job = None
  BY <1>1, IdleType
<1>4. Typed'
  BY <1>1, <1>2, IdleType DEF Base, Typed
<1>5. RunsOwnJob'
  BY <1>1, <1>3, RunningJob, NoneAssumption DEF Base, RunsOwnJob
<1>6. DownIdle'
  BY <1>1, TakersAssumption DEF Base, Typed, DownIdle
<1>7. ASSUME NEW t \in scenario.takers PROVE Noticed(t)
  <2>1. t \in Takers /\ ProcOf[t] \in Procs
    BY ScenarioTakers, TakersAssumption DEF Base
  <2>2. CASE ProcOf[t] = p
    BY <1>1, <2>1, <2>2 DEF Noticed, Base, Typed
  <2>3. CASE lost'
    BY <2>3 DEF Noticed
  <2>4. CASE ProcOf[t] # p /\ announcing' = announcing
    BY <1>1, <2>1, <2>4
    DEF Noticed, Undisturbed, NothingNew, Word, WordComes, Base, Typed
  <2> QED
    BY <1>2, <2>2, <2>3, <2>4
<1> QED
  BY <1>1, <1>2, <1>4, <1>5, <1>6, <1>7 DEF Good, Base, Watchful, Typed

(* A process starts again with idle takers.                                *)
LEMMA RestartGood ==
    ASSUME Base, NEW p \in Procs, Restart(p)
    PROVE  Good
<1>1. /\ ~up[p] /\ up' = [up EXCEPT ![p] = TRUE]
      /\ UNCHANGED <<now, jobs, paused, takers, announcing, channel, lost, scenario>>
  BY DEF Restart, storeVars, wakeVars, bounds
<1>2. Base'
  BY <1>1, TakersAssumption DEF Base, Typed, RunsOwnJob, DownIdle
<1>3. \A t \in scenario.takers : Undisturbed(t)
  BY <1>1 DEF Undisturbed, NothingNew, Word, WordComes
<1> QED
  BY <1>1, <1>2, <1>3 DEF Good, Watchful, Noticed, Base, Typed

(* A lost message is a loss.                                               *)
LEMMA LoseMessageGood ==
    ASSUME Base, NEW p \in Procs, NEW q \in Names, LoseMessage(p, q)
    PROVE  Good
<1>1. /\ channel' = [channel EXCEPT ![p] = @ \ {q}] /\ lost' = TRUE
      /\ UNCHANGED <<now, jobs, paused, up, takers, announcing, scenario>>
  BY DEF LoseMessage, Fault, storeVars
<1>2. Base'
  BY <1>1 DEF Base, Typed, RunsOwnJob, DownIdle
<1> QED
  BY <1>1, <1>2 DEF Good, Watchful, Noticed, Base, Typed

(* Time passes, and jobs become due: the takers' deadlines see to them.    *)
LEMMA TickGood ==
    ASSUME Base, Tick
    PROVE  Good
<1>1. /\ now' = now + 1
      /\ UNCHANGED <<jobs, paused, up, takers, announcing, channel, lost, scenario>>
  BY DEF Tick, storeVars, wakeVars, bounds
<1>2. Base'
  BY <1>1 DEF Base, Typed, RunsOwnJob, DownIdle
<1>3. \A t \in scenario.takers : Undisturbed(t)
  BY <1>1 DEF Undisturbed, NothingNew, Word, WordComes
<1> QED
  BY <1>1, <1>2, <1>3 DEF Good, Watchful, Noticed, Base, Typed

-----------------------------------------------------------------------------
(* All steps                                                               *)

(* Every step of the wake protocol is noticed by every taker it concerns.  *)
LEMMA WakeupsGood ==
    ASSUME Base, WakeupsNext
    PROVE  Good
<1>1. ASSUME NEW t \in Takers, TakerNext(t)
      PROVE  Good
  BY <1>1, TakeTokenGood, ClaimGood, ParkGood, FinishJobGood, RetryJobGood
  DEF TakerNext, TakerRuns
<1>2. ASSUME NEW t \in Takers, TimerFires(t) \/ PollFires(t)
      PROVE  Good
  BY <1>2, PollGood
<1>3. ASSUME NEW p \in Procs, ProcessNext(p)
      PROVE  Good
  <2>1. \A q \in Queues : q \in Names
    BY DEF Names
  <2>2. CASE \E q \in Names : Announce(p, q) \/ Deliver(p, q) \/ LoseMessage(p, q)
    BY <2>2, AnnounceGood, DeliverGood, LoseMessageGood
  <2>3. CASE \E id \in scenario.jobs, q \in Queues, delay \in Delays :
                Enqueue(p, id, q, delay)
    BY <2>3, EnqueueGood, ScenarioTakers DEF Base
  <2>4. CASE \/ \E id \in JobIds : Promote(p, id)
             \/ \E q \in Queues : Pause(p, q) \/ Resume(p, q)
    BY <2>4, PromoteGood, PauseGood, ResumeGood
  <2>5. CASE RecoverStalled(p) \/ Crash(p) \/ Restart(p)
    BY <2>5, RecoverStalledGood, CrashGood, RestartGood
  <2> QED
    BY <1>3, <2>2, <2>3, <2>4, <2>5 DEF ProcessNext
<1>4. ASSUME NEW id \in JobIds, Prune(id)
      PROVE  Good
  BY <1>4, PruneGood
<1>5. CASE Tick
  BY <1>5, TickGood
<1> QED
  BY <1>1, <1>2, <1>3, <1>4, <1>5 DEF WakeupsNext

(* It starts well.                                                         *)
LEMMA WakeupsInitGood ==
    ASSUME WakeupsInit
    PROVE  Base /\ Vigilant
<1>1. Base
  BY IdleType, TakersAssumption, NoneAssumption
  DEF WakeupsInit, Base, Typed, RunsOwnJob, DownIdle
<1>2. Vigilant
  BY <1>1, ScenarioTakers, IdleType
  DEF WakeupsInit, Vigilant, Attentive, Base
<1> QED
  BY <1>1, <1>2

(* A sleep that a step noticed stays a good one.                           *)
LEMMA VigilantStep ==
    ASSUME Base, Vigilant, Good
    PROVE  Vigilant'
<1> SUFFICES ASSUME NEW t \in scenario.takers, up'[ProcOf[t]], ~lost',
                    ~Attentive(t)', ~Word(t)'
             PROVE  SleepsWell(t)'
  BY DEF Vigilant, Good, Watchful
<1>1. t \in Takers /\ takers[t] \in Taker /\ now \in Nat /\ now' \in Nat
      /\ now <= now' /\ ~lost
  BY ScenarioTakers DEF Base, Typed, Good, Watchful
<1>2. CASE SleepsWell(t)'
  BY <1>2
<1>3. CASE Undisturbed(t)
  <2>1. takers'[t].deadline = takers[t].deadline
    BY <1>3 DEF Undisturbed
  <2>2. ~PastDeadline(t)' /\ ~PastDeadline(t)
    BY <1>1, <2>1 DEF Attentive, PastDeadline, Taker
  <2>3. ~Attentive(t)
    BY <1>3, <2>2 DEF Undisturbed, Attentive
  <2>4. up[ProcOf[t]]
    BY <1>1, <2>3, IdleType DEF Base, DownIdle, Attentive
  <2>5. SleepsWell(t)
    BY <1>1, <1>3, <2>3, <2>4 DEF Undisturbed, Vigilant
  <2>6. \A id \in JobIds : jobs[id] # None => jobs[id] \in Job
    BY DEF Base, Typed
  <2>7. NothingNew(QueueOf[t])
    BY <1>3 DEF Undisturbed
  <2>8. \A id \in JobIds :
           jobs[id] # None /\ jobs[id].queue = QueueOf[t]
              /\ jobs[id].state = "delayed" => ~(jobs[id].runAt <= now)
    <3> SUFFICES ASSUME NEW id \in JobIds, jobs[id] # None,
                        jobs[id].queue = QueueOf[t], jobs[id].state = "delayed",
                        jobs[id].runAt <= now
                 PROVE  FALSE
      OBVIOUS
    <3>1. takers[t].deadline \in Nat /\ takers[t].deadline <= jobs[id].runAt
      BY <2>5 DEF SleepsWell
    <3> QED
      BY <1>1, <2>2, <2>6, <3>1, NoneAssumption DEF PastDeadline, Job
  <2> SUFFICES ASSUME NEW id \in JobIds, jobs'[id] # None,
                      jobs'[id].queue = QueueOf[t]
               PROVE  /\ jobs'[id].state = "waiting" => QueueOf[t] \in paused'
                      /\ jobs'[id].state = "delayed" =>
                            /\ takers'[t].deadline \in Nat
                            /\ takers'[t].deadline <= jobs'[id].runAt
    BY DEF SleepsWell
  <2>9. CASE jobs'[id].state = "waiting"
    BY <2>5, <2>7, <2>8, <2>9 DEF NothingNew, SleepsWell
  <2>10. CASE jobs'[id].state = "delayed"
    BY <2>1, <2>5, <2>7, <2>10 DEF NothingNew, SleepsWell
  <2> QED
    BY <2>9, <2>10
<1> QED
  BY <1>2, <1>3 DEF Good, Watchful, Noticed

(* Sleepers that sleep well have no job to claim.                          *)
LEMMA VigilantNotices ==
    ASSUME Base, Vigilant
    PROVE  JobsNoticed
<1> SUFFICES ASSUME NEW q \in Queues \ paused, Runnable(q) # {}, ~lost,
                    NEW t \in scenario.takers, QueueOf[t] = q, up[ProcOf[t]]
             PROVE  Attentive(t) \/ WordComes(t, q)
  BY DEF JobsNoticed
<1> SUFFICES ASSUME ~Attentive(t), ~Word(t)
             PROVE  FALSE
  BY DEF Word
<1>1. SleepsWell(t)
  BY DEF Vigilant
<1>2. PICK id \in JobIds : /\ jobs[id] # None /\ jobs[id].queue = q
                           /\ \/ jobs[id].state = "waiting"
                              \/ jobs[id].state = "delayed" /\ jobs[id].runAt <= now
  BY DEF Runnable, Due, InState
<1>3. jobs[id] \in Job /\ now \in Nat
  BY <1>2 DEF Base, Typed
<1>4. jobs[id].state = "delayed" /\ takers[t].deadline \in Nat
      /\ takers[t].deadline <= jobs[id].runAt
  BY <1>1, <1>2 DEF SleepsWell
<1>5. PastDeadline(t)
  BY <1>2, <1>3, <1>4, NoneAssumption DEF PastDeadline, Job
<1> QED
  BY <1>5 DEF Attentive

-----------------------------------------------------------------------------
(* The steps of schedules                                                  *)

Live == [cadence : Cadence, group : {Group[c] : c \in Callers},
         nextRunAt : Nat \ {0}]
Row == [key : Keys, slot : 1..MaxTime, cadence : Cadence]
Ticking == [key : Keys, slot : 1..MaxTime, cadence : Cadence, next : Nat \ {0}]
Sweep == [todo : SUBSET Row, tick : Ticking \cup {None}]
Hand == [key : Keys, record : Live]
Call == [stage : {"idle", "upsert", "remove"}, todo : SUBSET Keys,
         hand : Hand \cup {None}, victims : SUBSET Keys, changed : SUBSET Keys,
         calls : Nat]

SchedTyped ==
    /\ now <= scenario.time
    /\ schedules \in [Keys -> Live \cup {None}]
    /\ sweepers \in [Procs -> Sweep]
    /\ callers \in [Callers -> Call]

TicksAhead ==
    \A p \in Procs :
        LET tick == sweepers[p].tick
        IN  tick # None =>
               /\ tick.slot < tick.next
               /\ tick.next <= NextOccurrence(tick.cadence, tick.slot, now)

FiredBehind ==
    \A k \in Keys, slot \in 1..MaxTime :
        <<k, slot>> \in fired =>
            schedules[k] # None /\ slot < schedules[k].nextRunAt

\* What a layer has listed for removal and nobody wrote since is still of its
\* group and undeclared.
Listed(x, c, rows) ==
    /\ x.todo \subseteq Declared(c)
    /\ x.victims # {} => x.stage = "remove"
    /\ x.stage = "remove" => x.hand = None /\ x.todo = {}
    /\ x.changed \subseteq x.victims
    /\ \A k \in x.victims \ x.changed :
          /\ Declares[c][k] = None
          /\ rows[k] # None => rows[k].group = Group[c]
VictimsListed == \A c \in Callers : Listed(callers[c], c, schedules)

SchedInv == SchedTyped /\ TicksAhead /\ FiredBehind /\ VictimsListed
Inv == Base /\ Vigilant /\ SchedInv

-----------------------------------------------------------------------------
(* Occurrences                                                             *)

(* The larger of two numbers.                                              *)
LEMMA MaxOfTwo ==
    ASSUME NEW a \in Int, NEW b \in Int
    PROVE  Max({a, b}) = IF a >= b THEN a ELSE b
<1> DEFINE m == IF a >= b THEN a ELSE b
<1>1. m \in {a, b} /\ \A y \in {a, b} : m >= y
  OBVIOUS
<1>2. \A x \in {a, b} : (\A y \in {a, b} : x >= y) => x = m
  OBVIOUS
<1> QED
  BY <1>1, <1>2 DEF Max

(* Multiplication keeps the order.                                         *)
LEMMA TimesMonotone ==
    ASSUME NEW m \in Nat, NEW n \in Nat, NEW b \in Nat, m <= n
    PROVE  m * b <= n * b
OBVIOUS

(* The next point of a grid lies ahead, and further for a later time.      *)
LEMMA GridAhead ==
    ASSUME NEW b \in Nat \ {0}, NEW a \in Nat
    PROVE  /\ (a \div b + 1) * b \in Nat /\ a < (a \div b + 1) * b
           /\ a \div b \in Nat /\ (a \div b) * b <= a
OBVIOUS

LEMMA GridMonotone ==
    ASSUME NEW b \in Nat \ {0}, NEW a \in Nat, NEW c \in Nat, a <= c
    PROVE  (a \div b + 1) * b <= (c \div b + 1) * b
<1> DEFINE x == a \div b
           y == c \div b
<1>1. x \in Nat /\ x * b <= a /\ y \in Nat /\ c < (y + 1) * b
  BY GridAhead
<1> HIDE DEF x, y
<1>2. x <= y
  <2> SUFFICES ASSUME y + 1 <= x PROVE FALSE
    BY <1>1
  <2>1. (y + 1) * b <= x * b
    BY <1>1, TimesMonotone
  <2>2. (y + 1) * b \in Nat /\ x * b \in Nat
    BY <1>1
  <2> QED
    BY <1>1, <2>1, <2>2
<1>3. x + 1 \in Nat /\ y + 1 \in Nat /\ x + 1 <= y + 1
  BY <1>1, <1>2
<1>4. (x + 1) * b <= (y + 1) * b
  BY <1>3, TimesMonotone
<1> QED
  BY <1>4 DEF x, y

(* The next occurrence lies after the slot and after the clock's time.     *)
LEMMA NextOccurrenceAhead ==
    ASSUME NEW cadence \in Cadence, NEW slot \in Nat, NEW at \in Nat
    PROVE  /\ NextOccurrence(cadence, slot, at) \in Nat \ {0}
           /\ slot < NextOccurrence(cadence, slot, at)
<1>1. cadence.ms \in Nat \ {0}
  BY DEF Cadence
<1>2. CASE cadence.kind = "cron"
  <2> DEFINE a == Max({slot, at})
  <2>1. a \in Nat /\ slot <= a
    BY MaxOfTwo
  <2> HIDE DEF a
  <2>2. (a \div cadence.ms + 1) * cadence.ms \in Nat
        /\ a < (a \div cadence.ms + 1) * cadence.ms
    BY <1>1, <2>1, GridAhead
  <2>3. NextOccurrence(cadence, slot, at) = (a \div cadence.ms + 1) * cadence.ms
    BY <1>2 DEF NextOccurrence, a
  <2> QED
    BY <2>1, <2>2, <2>3
<1>3. CASE cadence.kind # "cron"
  <2> DEFINE a == Max({0, at - slot})
  <2>1. a \in Nat
    BY MaxOfTwo
  <2> HIDE DEF a
  <2>2. (a \div cadence.ms + 1) * cadence.ms \in Nat
        /\ a < (a \div cadence.ms + 1) * cadence.ms
    BY <1>1, <2>1, GridAhead
  <2>3. NextOccurrence(cadence, slot, at)
          = slot + (a \div cadence.ms + 1) * cadence.ms
    BY <1>3 DEF NextOccurrence, a
  <2> QED
    BY <2>1, <2>2, <2>3
<1> QED
  BY <1>2, <1>3

(* A later clock gives a later occurrence, or the same.                    *)
LEMMA NextOccurrenceMonotone ==
    ASSUME NEW cadence \in Cadence, NEW slot \in Nat, NEW at \in Nat,
           NEW later \in Nat, at <= later
    PROVE  NextOccurrence(cadence, slot, at) <= NextOccurrence(cadence, slot, later)
<1>1. cadence.ms \in Nat \ {0}
  BY DEF Cadence
<1>2. CASE cadence.kind = "cron"
  <2> DEFINE a == Max({slot, at})
             b == Max({slot, later})
  <2>1. a \in Nat /\ b \in Nat /\ a <= b
    BY MaxOfTwo
  <2>2. /\ NextOccurrence(cadence, slot, at) = (a \div cadence.ms + 1) * cadence.ms
        /\ NextOccurrence(cadence, slot, later) = (b \div cadence.ms + 1) * cadence.ms
    BY <1>2 DEF NextOccurrence
  <2> HIDE DEF a, b
  <2> QED
    BY <1>1, <2>1, <2>2, GridMonotone
<1>3. CASE cadence.kind # "cron"
  <2> DEFINE a == Max({0, at - slot})
             b == Max({0, later - slot})
             x == (a \div cadence.ms + 1) * cadence.ms
             y == (b \div cadence.ms + 1) * cadence.ms
  <2>1. a \in Nat /\ b \in Nat /\ a <= b
    BY MaxOfTwo
  <2>2. /\ NextOccurrence(cadence, slot, at) = slot + x
        /\ NextOccurrence(cadence, slot, later) = slot + y
    BY <1>3 DEF NextOccurrence
  <2> HIDE DEF a, b
  <2>3. x \in Nat /\ y \in Nat /\ x <= y
    BY <1>1, <2>1, GridAhead, GridMonotone
  <2> HIDE DEF x, y
  <2> QED
    BY <2>2, <2>3
<1> QED
  BY <1>2, <1>3

-----------------------------------------------------------------------------
(* Types                                                                   *)

(* The records of schedules.                                               *)
LEMMA LiveType ==
    /\ Live \subseteq ScheduleRecord /\ None \notin Live
    /\ \A j \in Live : j.nextRunAt \in Nat \ {0} /\ j.cadence \in Cadence
    /\ \A j \in Live, n \in Nat \ {0} :
          /\ [j EXCEPT !.nextRunAt = n] \in Live
          /\ [j EXCEPT !.nextRunAt = n].nextRunAt = n
          /\ [j EXCEPT !.nextRunAt = n].cadence = j.cadence
          /\ [j EXCEPT !.nextRunAt = n].group = j.group
BY DeclaresAssumption DEF Live, ScheduleRecord

(* The clock stays within the scenario's, and the scenario's within bounds. *)
LEMMA ClockInBounds ==
    ASSUME Base
    PROVE  scenario.time \in Nat /\ scenario.time <= MaxTime /\ now \in Nat
BY ScenarioTakers, TakersAssumption DEF Base, Typed, Scenario

(* The clock advances by itself, up to the end of the scenario.            *)
LEMMA ClockStep ==
    ASSUME Base, WakeupsNext
    PROVE  now' = now \/ (now < scenario.time /\ now' = now + 1)
<1>1. ASSUME NEW t \in Takers,
             TakerNext(t) \/ TimerFires(t) \/ PollFires(t)
      PROVE  now' = now
  BY <1>1 DEF TakerNext, TakerRuns, TakeToken, Claim, Park, FinishJob, RetryJob,
              TimerFires, PollFires
<1>2. ASSUME NEW p \in Procs, ProcessNext(p)
      PROVE  now' = now
  BY <1>2 DEF ProcessNext, Announce, Deliver, LoseMessage, Enqueue, Promote,
              Pause, Resume, RecoverStalled, Crash, Restart
<1> QED
  BY <1>1, <1>2 DEF WakeupsNext, Prune, Tick

(* A call begins as, and falls back to, no call.                           *)
LEMMA NoCallType ==
    ASSUME NEW n \in Nat
    PROVE  /\ NoCall(n) \in Call /\ NoCall(n).victims = {}
           /\ NoCall(n).changed = {} /\ NoCall(n).stage = "idle"
           /\ NoCall(n).hand = None /\ NoCall(n).todo = {}
BY DEF NoCall, Call

(* A row that is due.                                                      *)
LEMMA DueRows ==
    ASSUME Base, SchedTyped
    PROVE  DueSchedules \subseteq Row
<1> SUFFICES ASSUME NEW k \in Keys, schedules[k] # None,
                    schedules[k].nextRunAt <= now
             PROVE  [key |-> k, slot |-> schedules[k].nextRunAt,
                     cadence |-> schedules[k].cadence] \in Row
  BY DEF DueSchedules
<1>1. schedules[k] \in Live
  BY DEF SchedTyped
<1>2. schedules[k].nextRunAt \in 1..MaxTime /\ schedules[k].cadence \in Cadence
  BY <1>1, LiveType, ClockInBounds, TakersAssumption DEF SchedTyped
<1> QED
  BY <1>2 DEF Row

-----------------------------------------------------------------------------
(* The steps of Wakeups                                                    *)

(* Fibers go on or stop with their process, and rows stay.                 *)
LEMMA StopsFibersInv ==
    ASSUME Inv, WakeupsNext, StopsFibers
    PROVE  Good /\ SchedInv'
<1>1. Good
  BY WakeupsGood DEF Inv
<1>2. /\ now \in Nat /\ now' \in Nat /\ now <= now' /\ scenario' = scenario
      /\ now' <= scenario'.time
  BY <1>1, ClockStep, ClockInBounds DEF Good, Watchful, Inv, SchedInv, SchedTyped
<1>3. /\ schedules' = schedules /\ fired' = fired
      /\ sweepers' \in [Procs -> Sweep] /\ callers' \in [Callers -> Call]
      /\ \A p \in Procs : sweepers'[p] = sweepers[p] \/ sweepers'[p].tick = None
      /\ \A c \in Callers : callers'[c] = callers[c] \/ callers'[c] = Over(c)
  <2>1. \A c \in Callers : callers[c].calls \in Nat /\ Over(c) \in Call
    BY NoCallType DEF Over, Inv, SchedInv, SchedTyped, Call
  <2>2. NoSweep \in Sweep /\ NoSweep.tick = None
    BY DEF NoSweep, Sweep
  <2> QED
    BY <2>1, <2>2 DEF StopsFibers, Inv, SchedInv, SchedTyped
<1>4. SchedTyped'
  BY <1>2, <1>3 DEF Inv, SchedInv, SchedTyped
<1>5. TicksAhead'
  <2> SUFFICES ASSUME NEW p \in Procs, sweepers'[p].tick # None,
                      sweepers'[p] = sweepers[p]
               PROVE  /\ sweepers[p].tick.slot < sweepers[p].tick.next
                      /\ sweepers[p].tick.next
                            <= NextOccurrence(sweepers[p].tick.cadence,
                                              sweepers[p].tick.slot, now')
    BY <1>3 DEF TicksAhead, NextOccurrence
  <2> DEFINE tick == sweepers[p].tick
             before == NextOccurrence(tick.cadence, tick.slot, now)
             after == NextOccurrence(tick.cadence, tick.slot, now')
  <2>1. tick.slot < tick.next /\ tick.next <= before
    BY DEF Inv, SchedInv, TicksAhead
  <2>2. tick.slot \in Nat /\ tick.cadence \in Cadence /\ tick.next \in Nat
    BY DEF Inv, SchedInv, SchedTyped, Sweep, Ticking
  <2>3. before <= after /\ before \in Nat /\ after \in Nat
    BY <1>2, <2>2, NextOccurrenceMonotone, NextOccurrenceAhead
  <2> HIDE DEF before, after, tick
  <2>4. tick.slot < tick.next /\ tick.next <= after
    BY <2>1, <2>2, <2>3
  <2> QED
    BY <2>4 DEF after, tick
<1>6. FiredBehind'
  BY <1>3 DEF Inv, SchedInv, FiredBehind
<1>7. VictimsListed'
  <2> SUFFICES ASSUME NEW c \in Callers
               PROVE  Listed(callers'[c], c, schedules')
    BY DEF VictimsListed, Listed
  <2>1. CASE callers'[c] = callers[c]
    BY <1>3, <2>1 DEF Inv, SchedInv, VictimsListed, Listed
  <2>2. CASE callers'[c] = Over(c)
    BY <2>2, NoCallType DEF Over, Inv, SchedInv, SchedTyped, Call, Listed
  <2> QED
    BY <1>3, <2>1, <2>2
<1> QED
  BY <1>1, <1>4, <1>5, <1>6, <1>7 DEF SchedInv

(* Nothing happens.                                                        *)
LEMMA StutterInv ==
    ASSUME Inv, UNCHANGED vars
    PROVE  Good /\ SchedInv'
<1>1. UNCHANGED wakeupVars /\ now' = now /\ scenario' = scenario
      /\ UNCHANGED <<schedules, sweepers, callers, fired>>
  BY DEF vars, schedVars, wakeupVars, bounds
<1>2. Good
  BY <1>1, StutterGood DEF Inv
<1>3. SchedInv'
  BY <1>1 DEF Inv, SchedInv, SchedTyped, TicksAhead, FiredBehind, VictimsListed, Listed,
              NextOccurrence
<1> QED
  BY <1>2, <1>3

-----------------------------------------------------------------------------
(* The sweepers                                                            *)

(* The due rows are read.                                                  *)
LEMMA SweepBeginInv ==
    ASSUME Inv, NEW p \in Procs, SweepBegin(p)
    PROVE  Good /\ SchedInv'
<1> DEFINE s == [sweepers[p] EXCEPT !.todo = DueSchedules]
<1>1. /\ sweepers[p] = NoSweep /\ sweepers' = [sweepers EXCEPT ![p] = s]
      /\ UNCHANGED wakeupVars /\ now' = now /\ scenario' = scenario
      /\ UNCHANGED <<schedules, callers, fired>>
  BY DEF SweepBegin, wakeupVars, bounds
<1>2. s \in Sweep /\ s.tick = None
  BY <1>1, DueRows DEF NoSweep, Sweep, Inv, SchedInv
<1>3. Good
  BY <1>1, StutterGood DEF Inv
<1> HIDE DEF s
<1>4. \A r \in Procs : sweepers'[r] = sweepers[r] \/ sweepers'[r].tick = None
  BY <1>1, <1>2 DEF Inv, SchedInv, SchedTyped
<1>5. SchedTyped' /\ FiredBehind' /\ VictimsListed'
  BY <1>1, <1>2 DEF Inv, SchedInv, SchedTyped, FiredBehind, VictimsListed, Listed
<1>6. TicksAhead'
  BY <1>1, <1>4 DEF Inv, SchedInv, TicksAhead, NextOccurrence
<1> QED
  BY <1>3, <1>5, <1>6 DEF SchedInv

(* The clock is read, and the next occurrence is computed.                 *)
LEMMA SweepNextRowInv ==
    ASSUME Inv, NEW p \in Procs, NEW row, SweepNextRow(p, row)
    PROVE  Good /\ SchedInv'
<1> DEFINE next == NextOccurrence(row.cadence, row.slot, now)
           tick == [key |-> row.key, slot |-> row.slot, cadence |-> row.cadence,
                    next |-> next]
           s == [todo |-> sweepers[p].todo \ {row}, tick |-> tick]
<1>1. /\ row \in sweepers[p].todo /\ sweepers' = [sweepers EXCEPT ![p] = s]
      /\ UNCHANGED wakeupVars /\ now' = now /\ scenario' = scenario
      /\ UNCHANGED <<schedules, callers, fired>>
  BY DEF SweepNextRow, wakeupVars, bounds
<1>2. row \in Row /\ sweepers[p].todo \subseteq Row
  BY <1>1 DEF Inv, SchedInv, SchedTyped, Sweep
<1>3. next \in Nat \ {0} /\ row.slot < next
  BY <1>2, NextOccurrenceAhead, ClockInBounds DEF Row, Inv
<1>4. tick.next <= NextOccurrence(tick.cadence, tick.slot, now)
  BY <1>3
<1> HIDE DEF next
<1>5. /\ tick \in Ticking /\ tick.slot < tick.next
      /\ s \in Sweep /\ s.tick = tick
  BY <1>2, <1>3 DEF Sweep, Row, Ticking
<1>6. Good
  BY <1>1, StutterGood DEF Inv
<1> HIDE DEF s, tick
<1>7. \A r \in Procs : sweepers'[r] = sweepers[r] \/ sweepers'[r].tick = tick
  BY <1>1, <1>5 DEF Inv, SchedInv, SchedTyped
<1>8. SchedTyped' /\ FiredBehind' /\ VictimsListed'
  BY <1>1, <1>5 DEF Inv, SchedInv, SchedTyped, FiredBehind, VictimsListed, Listed
<1>9. TicksAhead'
  BY <1>1, <1>4, <1>5, <1>7 DEF Inv, SchedInv, TicksAhead, NextOccurrence
<1> QED
  BY <1>6, <1>8, <1>9 DEF SchedInv

(* What a tick that wins its compare-and-set may rely on.                  *)
LEMMA TickFacts ==
    ASSUME Inv, NEW p \in Procs, sweepers[p].tick # None
    PROVE  LET tick == sweepers[p].tick
           IN  /\ tick.key \in Keys /\ tick.slot \in 1..MaxTime
               /\ tick.cadence \in Cadence /\ tick.next \in Nat \ {0}
               /\ tick.slot < tick.next
               /\ SlotId(tick.key, tick.slot) \in JobIds
               /\ SlotId(tick.key, tick.slot) = <<tick.key, tick.slot>>
               /\ SlotCurrent(tick.key, tick.slot) =>
                     /\ schedules[tick.key] \in Live
                     /\ schedules[tick.key].nextRunAt = tick.slot
<1> DEFINE tick == sweepers[p].tick
<1>1. tick \in Ticking
  BY DEF Inv, SchedInv, SchedTyped, Sweep
<1>2. tick.slot < tick.next
  BY DEF Inv, SchedInv, TicksAhead
<1>3. /\ tick.key \in Keys /\ tick.slot \in 1..MaxTime
      /\ tick.cadence \in Cadence /\ tick.next \in Nat \ {0}
  BY <1>1 DEF Ticking
<1>4. /\ SlotId(tick.key, tick.slot) \in JobIds
      /\ SlotId(tick.key, tick.slot) = <<tick.key, tick.slot>>
  BY <1>3, SchedulesAssumption DEF SlotId
<1>5. SlotCurrent(tick.key, tick.slot) =>
         /\ schedules[tick.key] \in Live
         /\ schedules[tick.key].nextRunAt = tick.slot
  BY <1>3 DEF SlotCurrent, Inv, SchedInv, SchedTyped
<1> QED
  BY <1>2, <1>3, <1>4, <1>5

(* The tick's job is put into the store and announced, or nothing is.      *)
LEMMA SweepTickGood ==
    ASSUME Inv, NEW p \in Procs, SweepTick(p)
    PROVE  Good
<1> DEFINE tick == sweepers[p].tick
           id == SlotId(tick.key, tick.slot)
           j == NewJob(Queue, 0)
<1>1. /\ tick # None /\ id \in JobIds
      /\ UNCHANGED <<now, paused, up, takers, channel, lost, faults, scenario>>
  BY TickFacts DEF SweepTick, bounds
<1>2. CASE UNCHANGED <<jobs, announcing>>
  <2>1. UNCHANGED wakeupVars
    BY <1>1, <1>2 DEF wakeupVars, storeVars, wakeVars, bounds
  <2> QED
    BY <2>1, StutterGood DEF Inv
<1>3. CASE /\ jobs[id] = None /\ jobs' = [jobs EXCEPT ![id] = j]
           /\ WillAnnounce(p, Queue)
  <2>1. j \in Job /\ j.queue = Queue
    BY NewJobType, SchedulesAssumption DEF Inv, Base, Typed
  <2>2. j.state \in {"waiting", "delayed"}
    BY DEF NewJob
  <2>3. \A t \in Takers : takers[t].job # id
    BY <1>1, <1>3, NoneAssumption DEF Inv, Base, Typed, RunsOwnJob
  <2> HIDE DEF j, id
  <2> QED
    BY <1>1, <1>3, <2>1, <2>2, <2>3, PutGood DEF Inv
<1>4. \/ UNCHANGED <<jobs, announcing>>
      \/ /\ jobs[id] = None /\ jobs' = [jobs EXCEPT ![id] = j]
         /\ WillAnnounce(p, Queue)
  BY DEF SweepTick, TickSchedule
<1> QED
  BY <1>2, <1>3, <1>4

(* The slot's row advances beyond what fired.                              *)
LEMMA SweepTickInv ==
    ASSUME Inv, NEW p \in Procs, SweepTick(p)
    PROVE  SchedInv'
<1> DEFINE tick == sweepers[p].tick
           k == tick.key
           s == [sweepers[p] EXCEPT !.tick = None]
           row == [schedules[k] EXCEPT !.nextRunAt = tick.next]
<1>1. /\ tick # None /\ sweepers' = [sweepers EXCEPT ![p] = s]
      /\ TickSchedule(p, k, tick.slot, tick.next)
      /\ UNCHANGED <<now, scenario, callers>>
  BY DEF SweepTick, bounds
<1>2. /\ k \in Keys /\ tick.slot \in 1..MaxTime /\ tick.slot < tick.next
      /\ tick.next \in Nat \ {0}
      /\ SlotCurrent(k, tick.slot) =>
            schedules[k] \in Live /\ schedules[k].nextRunAt = tick.slot
  BY <1>1, TickFacts
<1>3. s \in Sweep /\ s.tick = None
  BY DEF Sweep, Inv, SchedInv, SchedTyped
<1>4. \/ UNCHANGED <<schedules, fired>>
      \/ /\ schedules[k] \in Live /\ schedules[k].nextRunAt = tick.slot
         /\ schedules' = [schedules EXCEPT ![k] = row]
         /\ fired' = fired \/ fired' = fired \cup {<<k, tick.slot>>}
  BY <1>1, <1>2 DEF TickSchedule, SlotId
<1>5. schedules[k] \in Live =>
         /\ row \in Live /\ row # None /\ row.nextRunAt = tick.next
         /\ row.group = schedules[k].group
  BY <1>2, LiveType
<1> HIDE DEF s, row
<1>6. \A r \in Procs : sweepers'[r] = sweepers[r] \/ sweepers'[r].tick = None
  BY <1>1, <1>3 DEF Inv, SchedInv, SchedTyped
<1> HIDE DEF tick, k
<1>7. SchedTyped'
  BY <1>1, <1>2, <1>3, <1>4, <1>5 DEF Inv, SchedInv, SchedTyped
<1>8. TicksAhead'
  BY <1>1, <1>6 DEF Inv, SchedInv, TicksAhead, NextOccurrence
<1>9. FiredBehind'
  <2> SUFFICES ASSUME NEW i \in Keys, NEW slot \in 1..MaxTime,
                      <<i, slot>> \in fired'
               PROVE  schedules'[i] # None /\ slot < schedules'[i].nextRunAt
    BY DEF FiredBehind
  <2>1. CASE UNCHANGED <<schedules, fired>>
    BY <2>1 DEF Inv, SchedInv, FiredBehind
  <2>2. CASE /\ schedules[k] \in Live /\ schedules[k].nextRunAt = tick.slot
             /\ schedules' = [schedules EXCEPT ![k] = row]
             /\ fired' = fired \/ fired' = fired \cup {<<k, tick.slot>>}
    <3>1. \/ <<i, slot>> \in fired
          \/ i = k /\ slot = tick.slot
      BY <2>2
    <3>2. CASE i = k
      <4>1. schedules'[i] = row
        BY <1>2, <2>2, <3>2 DEF Inv, SchedInv, SchedTyped
      <4>2. slot < tick.next
        BY <1>2, <2>2, <3>1, <3>2 DEF Inv, SchedInv, FiredBehind
      <4> QED
        BY <1>5, <2>2, <4>1, <4>2
    <3>3. CASE i # k
      <4>1. schedules'[i] = schedules[i]
        BY <2>2, <3>3 DEF Inv, SchedInv, SchedTyped
      <4> QED
        BY <3>1, <3>3, <4>1 DEF Inv, SchedInv, FiredBehind
    <3> QED
      BY <3>2, <3>3
  <2> QED
    BY <1>4, <2>1, <2>2
<1>10. VictimsListed'
  <2>1. \A i \in Keys : \/ schedules'[i] = schedules[i]
                        \/ /\ schedules[i] # None
                           /\ schedules'[i].group = schedules[i].group
    BY <1>2, <1>4, <1>5, LiveType DEF Inv, SchedInv, SchedTyped
  <2>2. \A c \in Callers : callers[c].victims \subseteq Keys
    BY DEF Inv, SchedInv, SchedTyped, Call
  <2> QED
    BY <1>1, <2>1, <2>2 DEF Inv, SchedInv, VictimsListed, Listed
<1> QED
  BY <1>7, <1>8, <1>9, <1>10 DEF SchedInv

-----------------------------------------------------------------------------
(* The callers                                                             *)

(* A caller's own step.                                                    *)
LEMMA CallerStep ==
    ASSUME Inv, NEW c \in Callers, NEW x \in Call, Listed(x, c, schedules),
           callers' = [callers EXCEPT ![c] = x],
           UNCHANGED <<wakeupVars, schedules, sweepers, fired>>
    PROVE  Good /\ SchedInv'
<1>1. UNCHANGED wakeupVars /\ now' = now /\ scenario' = scenario
      /\ UNCHANGED <<schedules, sweepers, fired>>
  BY DEF wakeupVars, bounds
<1>2. Good
  BY <1>1, StutterGood DEF Inv
<1>3. SchedTyped' /\ FiredBehind' /\ TicksAhead'
  BY <1>1 DEF Inv, SchedInv, SchedTyped, FiredBehind, TicksAhead, NextOccurrence
<1>4. VictimsListed'
  BY <1>1 DEF Inv, SchedInv, SchedTyped, VictimsListed, Listed
<1> QED
  BY <1>2, <1>3, <1>4 DEF SchedInv

(* A caller that is over holds nothing.                                    *)
LEMMA OverListed ==
    ASSUME Inv, NEW c \in Callers
    PROVE  Over(c) \in Call /\ Listed(Over(c), c, schedules)
BY NoCallType DEF Over, Listed, Inv, SchedInv, SchedTyped, Call

(* It begins.                                                              *)
LEMMA CallBeginInv ==
    ASSUME Inv, NEW c \in Callers, CallBegin(c)
    PROVE  Good /\ SchedInv'
<1> DEFINE x == [callers[c] EXCEPT !.stage = "upsert", !.todo = Declared(c),
                                   !.calls = callers[c].calls + 1]
<1>1. /\ callers[c] = Over(c) /\ callers' = [callers EXCEPT ![c] = x]
      /\ UNCHANGED <<wakeupVars, schedules, sweepers, fired>>
  BY DEF CallBegin
<1>2. callers[c] \in Call /\ callers[c].victims = {} /\ callers[c].changed = {}
  <2>1. callers[c] \in Call /\ callers[c].calls \in Nat
    BY DEF Inv, SchedInv, SchedTyped, Call
  <2> QED
    BY <1>1, <2>1, NoCallType DEF Over
<1>3. /\ x \in Call /\ x.victims = {} /\ x.stage = "upsert" /\ x.changed = {}
      /\ x.todo = Declared(c)
  <2>1. Declared(c) \subseteq Keys
    BY DEF Declared
  <2>2. callers[c].calls + 1 \in Nat
    BY <1>2 DEF Call
  <2> QED
    BY <1>2, <2>1, <2>2 DEF Call
<1> HIDE DEF x
<1>4. Listed(x, c, schedules)
  BY <1>3 DEF Listed
<1> QED
  BY <1>1, <1>3, <1>4, CallerStep

(* The clock is read for one of its schedules.                             *)
LEMMA CallReadsClockInv ==
    ASSUME Inv, NEW c \in Callers, NEW k \in Keys, CallReadsClock(c, k)
    PROVE  Good /\ SchedInv'
<1> DEFINE hand == [key |-> k, record |->
                      [cadence |-> Declares[c][k], group |-> Group[c],
                       nextRunAt |-> NextOccurrence(Declares[c][k], now, now)]]
           x == [callers[c] EXCEPT !.todo = callers[c].todo \ {k}, !.hand = hand]
<1>1. /\ k \in callers[c].todo
      /\ callers' = [callers EXCEPT ![c] = x]
      /\ UNCHANGED <<wakeupVars, schedules, sweepers, fired>>
  BY DEF CallReadsClock
<1>2. CASE Declares[c][k] # None
  <2>1. Declares[c][k] \in Cadence
    BY <1>2, DeclaresAssumption
  <2>2. NextOccurrence(Declares[c][k], now, now) \in Nat \ {0}
    BY <2>1, NextOccurrenceAhead, ClockInBounds DEF Inv
  <2>3. hand \in Hand
    BY <2>1, <2>2 DEF Hand, Live
  <2> HIDE DEF hand
  <2>4. x \in Call /\ x.victims = callers[c].victims /\ x.stage = callers[c].stage
        /\ x.changed = callers[c].changed /\ x.todo \subseteq callers[c].todo
    BY <2>3 DEF Inv, SchedInv, SchedTyped, Call
  <2>5. callers[c].stage # "remove" /\ callers[c].victims = {}
    BY <1>1 DEF Inv, SchedInv, VictimsListed, Listed
  <2> HIDE DEF x
  <2>6. Listed(x, c, schedules)
    BY <2>4, <2>5 DEF Listed, Inv, SchedInv, VictimsListed
  <2> QED
    BY <1>1, <2>4, <2>6, CallerStep
<1>3. Declares[c][k] # None
  BY <1>1 DEF Inv, SchedInv, VictimsListed, Listed, Declared
<1> QED
  BY <1>2, <1>3

(* The row is written, and the key is nobody's victim any more.            *)
LEMMA CallUpsertsInv ==
    ASSUME Inv, NEW c \in Callers, CallUpserts(c)
    PROVE  Good /\ SchedInv'
<1> DEFINE hand == callers[c].hand
           k == hand.key
           kept == [hand.record EXCEPT !.nextRunAt = schedules[k].nextRunAt]
           row == IF SameCadence(k, hand.record) THEN kept ELSE hand.record
           x == [callers[c] EXCEPT !.hand = None]
<1>1. /\ hand # None /\ UpsertSchedule(k, hand.record)
      /\ WillAnnounce(CallerProc[c], Queue)
      /\ callers' = [d \in Callers |->
              IF d = c THEN x
              ELSE IF k \in callers[d].victims
              THEN [callers[d] EXCEPT !.changed = @ \cup {k}]
              ELSE callers[d]]
      /\ UNCHANGED <<now, jobs, paused, up, takers, channel, lost, faults,
                     scenario, sweepers>>
  BY DEF CallUpserts, storeVars, bounds
<1>2. callers[c] \in Call /\ hand \in Hand /\ k \in Keys /\ hand.record \in Live
  BY <1>1 DEF Inv, SchedInv, SchedTyped, Call, Hand
<1>3. CallerProc[c] \in Procs /\ Queue \in Names
  BY SchedulesAssumption DEF Names
<1>4. Good
  <2>1. Base'
    BY <1>1, <1>3, AnnouncedWord DEF Inv, Base, Typed, RunsOwnJob, DownIdle
  <2>2. \A t \in scenario.takers : Undisturbed(t)
    BY <1>1, <1>3, AnnouncedWord DEF Undisturbed, NothingNew, Inv
  <2> QED
    BY <1>1, <2>1, <2>2 DEF Good, Watchful, Noticed, Inv, Base, Typed
<1>5. /\ schedules' = [schedules EXCEPT ![k] = row]
      /\ \/ /\ schedules[k] # None /\ row.nextRunAt = schedules[k].nextRunAt
            /\ fired' = fired
         \/ fired' = {f \in fired : f[1] # k}
      /\ row \in Live /\ row # None
  <2>1. CASE SameCadence(k, hand.record)
    <3>1. schedules[k] \in Live
      BY <1>2, <2>1 DEF SameCadence, Inv, SchedInv, SchedTyped
    <3>2. row = kept /\ kept \in Live
          /\ kept.nextRunAt = schedules[k].nextRunAt
      BY <1>2, <2>1, <3>1, LiveType
    <3>3. schedules' = [schedules EXCEPT ![k] = kept] /\ fired' = fired
      BY <1>1, <2>1 DEF UpsertSchedule
    <3> HIDE DEF row, kept, hand, k
    <3>4. row \in Live /\ row # None
      BY <3>2, LiveType
    <3>5. schedules[k] # None
      BY <3>1, LiveType
    <3> QED
      BY <3>2, <3>3, <3>4, <3>5
  <2>2. CASE ~SameCadence(k, hand.record)
    <3>1. row = hand.record
      BY <2>2
    <3>2. schedules' = [schedules EXCEPT ![k] = hand.record]
          /\ fired' = {f \in fired : f[1] # k}
      BY <1>1, <2>2 DEF UpsertSchedule, Anchor
    <3> QED
      BY <1>2, <3>1, <3>2, LiveType
  <2> QED
    BY <2>1, <2>2
<1>6. /\ x \in Call /\ x.todo = callers[c].todo /\ x.victims = callers[c].victims
      /\ x.changed = callers[c].changed /\ x.stage = callers[c].stage
      /\ x.hand = None
  BY <1>2 DEF Call
<1>7. callers[c].stage # "remove" /\ callers[c].victims = {}
  BY <1>1 DEF Inv, SchedInv, VictimsListed, Listed
<1> HIDE DEF x, row, hand, k
<1>8. ASSUME NEW d \in Callers
      PROVE  callers'[d] \in Call /\ Listed(callers'[d], d, schedules')
  <2>1. callers[d] \in Call /\ Listed(callers[d], d, schedules)
    BY DEF Inv, SchedInv, SchedTyped, VictimsListed
  <2>2. \A i \in Keys : i # k => schedules'[i] = schedules[i]
    BY <1>5 DEF Inv, SchedInv, SchedTyped
  <2>3. CASE d = c
    BY <1>1, <1>6, <1>7, <2>1, <2>3 DEF Listed
  <2>4. CASE d # c /\ k \notin callers[d].victims
    <3>1. callers'[d] = callers[d]
      BY <1>1, <2>4
    <3> QED
      BY <2>1, <2>2, <2>4, <3>1 DEF Listed, Call
  <2>5. CASE d # c /\ k \in callers[d].victims
    <3>1. callers'[d] = [callers[d] EXCEPT !.changed = @ \cup {k}]
      BY <1>1, <2>5
    <3>2. /\ callers'[d] \in Call /\ callers'[d].todo = callers[d].todo
          /\ callers'[d].victims = callers[d].victims
          /\ callers'[d].stage = callers[d].stage
          /\ callers'[d].hand = callers[d].hand
          /\ callers'[d].changed = callers[d].changed \cup {k}
      BY <1>2, <2>1, <3>1 DEF Call
    <3> QED
      BY <2>1, <2>2, <2>5, <3>2 DEF Listed, Call
  <2> QED
    BY <2>3, <2>4, <2>5
<1>9. SchedTyped'
  BY <1>1, <1>5, <1>8 DEF Inv, SchedInv, SchedTyped
<1>10. TicksAhead'
  BY <1>1 DEF Inv, SchedInv, TicksAhead, NextOccurrence
<1>11. FiredBehind'
  <2> SUFFICES ASSUME NEW i \in Keys, NEW slot \in 1..MaxTime,
                      <<i, slot>> \in fired'
               PROVE  schedules'[i] # None /\ slot < schedules'[i].nextRunAt
    BY DEF FiredBehind
  <2>1. <<i, slot>> \in fired /\ schedules[i] # None
        /\ slot < schedules[i].nextRunAt
    BY <1>5 DEF Inv, SchedInv, FiredBehind
  <2>2. CASE i # k
    BY <1>5, <2>1, <2>2 DEF Inv, SchedInv, SchedTyped
  <2>3. CASE i = k
    BY <1>2, <1>5, <2>1, <2>3 DEF Inv, SchedInv, SchedTyped
  <2> QED
    BY <2>2, <2>3
<1>12. VictimsListed'
  BY <1>8 DEF VictimsListed, Listed
<1> QED
  BY <1>4, <1>9, <1>10, <1>11, <1>12 DEF SchedInv

(* Plain calls are over.                                                   *)
LEMMA CallEndsInv ==
    ASSUME Inv, NEW c \in Callers, CallEnds(c)
    PROVE  Good /\ SchedInv'
BY OverListed, CallerStep DEF CallEnds

(* The layer lists the undeclared members of its group.                    *)
LEMMA CallListsInv ==
    ASSUME Inv, NEW c \in Callers, CallLists(c)
    PROVE  Good /\ SchedInv'
<1> DEFINE x == [Over(c) EXCEPT !.stage = "remove",
                                !.victims = Members(c) \ Declared(c)]
<1>1. /\ callers' = [callers EXCEPT ![c] = Over(c)]
         \/ callers' = [callers EXCEPT ![c] = x]
      /\ UNCHANGED <<wakeupVars, schedules, sweepers, fired>>
  BY DEF CallLists
<1>2. /\ Over(c) \in Call /\ Over(c).hand = None /\ Over(c).todo = {}
      /\ Over(c).changed = {}
  BY NoCallType DEF Over, Inv, SchedInv, SchedTyped, Call
<1>3. Members(c) \ Declared(c) \subseteq Keys
  BY DEF Members
<1>4. /\ x \in Call /\ x.stage = "remove" /\ x.victims = Members(c) \ Declared(c)
      /\ x.hand = None /\ x.todo = {} /\ x.changed = {}
  BY <1>2, <1>3 DEF Call
<1> HIDE DEF x
<1>5. Listed(x, c, schedules)
  BY <1>4 DEF Listed, Members, Declared
<1> QED
  BY <1>1, <1>4, <1>5, OverListed, CallerStep

(* A removed row has no slot that fired.                                   *)
LEMMA RemovedRow ==
    ASSUME Inv, NEW k \in Keys, RemoveSchedule(k), UNCHANGED <<now, scenario, sweepers>>
    PROVE  /\ schedules' \in [Keys -> Live \cup {None}]
           /\ TicksAhead' /\ FiredBehind'
           /\ \A i \in Keys : schedules'[i] \in {schedules[i], None}
<1>1. /\ schedules' = [schedules EXCEPT ![k] = None]
      /\ fired' = {f \in fired : f[1] # k}
  BY DEF RemoveSchedule, Anchor
<1>2. FiredBehind'
  BY <1>1 DEF Inv, SchedInv, SchedTyped, FiredBehind
<1>3. TicksAhead'
  BY DEF Inv, SchedInv, TicksAhead, NextOccurrence
<1> QED
  BY <1>1, <1>2, <1>3 DEF Inv, SchedInv, SchedTyped

(* Another row is removed.                                                 *)
LEMMA CallRemovesInv ==
    ASSUME Inv, NEW c \in Callers, NEW k \in Keys, CallRemoves(c, k)
    PROVE  Good /\ SchedInv'
<1> DEFINE rest == [callers[c] EXCEPT !.victims = callers[c].victims \ {k},
                                      !.changed = callers[c].changed \ {k}]
           x == IF callers[c].victims = {k} THEN Over(c) ELSE rest
<1>1. /\ k \in callers[c].victims /\ RemoveSchedule(k)
      /\ callers' = [callers EXCEPT ![c] = x]
      /\ UNCHANGED wakeupVars /\ now' = now /\ scenario' = scenario
      /\ UNCHANGED sweepers
  BY DEF CallRemoves, wakeupVars, bounds
<1>2. Good
  BY <1>1, StutterGood DEF Inv
<1>3. /\ schedules' \in [Keys -> Live \cup {None}]
      /\ TicksAhead' /\ FiredBehind'
      /\ \A i \in Keys : schedules'[i] \in {schedules[i], None}
  BY <1>1, RemovedRow
<1>4. callers[c] \in Call /\ Listed(callers[c], c, schedules)
  BY DEF Inv, SchedInv, SchedTyped, VictimsListed
<1>5. /\ rest \in Call /\ rest.victims = callers[c].victims \ {k}
      /\ rest.changed = callers[c].changed \ {k} /\ rest.todo = callers[c].todo
      /\ rest.stage = callers[c].stage /\ rest.hand = callers[c].hand
  BY <1>4 DEF Call
<1> HIDE DEF rest
<1>6. Listed(rest, c, schedules)
  BY <1>1, <1>4, <1>5 DEF Listed
<1>7. x \in Call /\ Listed(x, c, schedules)
  BY <1>5, <1>6, OverListed
<1> HIDE DEF x
<1>8. SchedTyped'
  BY <1>1, <1>3, <1>7 DEF Inv, SchedInv, SchedTyped
<1>9. ASSUME NEW d \in Callers PROVE Listed(callers'[d], d, schedules')
  <2>1. callers'[d] \in Call /\ Listed(callers'[d], d, schedules)
    BY <1>1, <1>7 DEF Inv, SchedInv, SchedTyped, VictimsListed
  <2> QED
    BY <1>3, <2>1 DEF Listed, Call
<1>10. VictimsListed'
  BY <1>9 DEF VictimsListed, Listed
<1> QED
  BY <1>2, <1>3, <1>8, <1>10 DEF SchedInv

(* unschedule                                                              *)
LEMMA UnscheduleInv ==
    ASSUME Inv, NEW k \in Keys, Unschedule(k)
    PROVE  Good /\ SchedInv'
<1>1. /\ RemoveSchedule(k) /\ callers' = callers
      /\ UNCHANGED wakeupVars /\ now' = now /\ scenario' = scenario
      /\ UNCHANGED sweepers
  BY DEF Unschedule, wakeupVars, bounds
<1>2. Good
  BY <1>1, StutterGood DEF Inv
<1>3. /\ schedules' \in [Keys -> Live \cup {None}]
      /\ TicksAhead' /\ FiredBehind'
      /\ \A i \in Keys : schedules'[i] \in {schedules[i], None}
  BY <1>1, RemovedRow
<1>4. SchedTyped'
  BY <1>1, <1>3 DEF Inv, SchedInv, SchedTyped
<1>5. VictimsListed'
  BY <1>1, <1>3 DEF Inv, SchedInv, SchedTyped, Call, VictimsListed, Listed
<1> QED
  BY <1>2, <1>3, <1>4, <1>5 DEF SchedInv

-----------------------------------------------------------------------------
(* The invariant                                                           *)

(* Every step keeps the invariant.                                         *)
LEMMA InvStep ==
    ASSUME Inv, [Next]_vars
    PROVE  Inv'
<1>1. Good /\ SchedInv'
  <2>1. CASE WakeupsNext /\ StopsFibers
    BY <2>1, StopsFibersInv
  <2>2. ASSUME NEW p \in Procs, SweepBegin(p) \/ SweeperNext(p)
        PROVE  Good /\ SchedInv'
    BY <2>2, SweepBeginInv, SweepNextRowInv, SweepTickGood, SweepTickInv
    DEF SweeperNext
  <2>3. ASSUME NEW c \in Callers, CallBegin(c) \/ CallerNext(c)
        PROVE  Good /\ SchedInv'
    BY <2>3, CallBeginInv, CallReadsClockInv, CallUpsertsInv, CallListsInv,
       CallEndsInv
    DEF CallerNext
  <2>4. ASSUME NEW c \in Callers, NEW k \in Keys, CallRemoves(c, k)
        PROVE  Good /\ SchedInv'
    BY <2>4, CallRemovesInv
  <2>5. ASSUME NEW k \in Keys, Unschedule(k)
        PROVE  Good /\ SchedInv'
    BY <2>5, UnscheduleInv
  <2>6. CASE UNCHANGED vars
    BY <2>6, StutterInv
  <2> QED
    BY <2>1, <2>2, <2>3, <2>4, <2>5, <2>6 DEF Next
<1>2. Vigilant'
  BY <1>1, VigilantStep DEF Inv
<1> QED
  BY <1>1, <1>2 DEF Inv, Good

(* The invariant holds at the start.                                       *)
LEMMA InvInit ==
    ASSUME Init
    PROVE  Inv
<1>1. Base /\ Vigilant
  BY WakeupsInitGood DEF Init
<1>2. SchedTyped
  <2>1. now <= scenario.time
    BY <1>1, ClockInBounds DEF Init, WakeupsInit
  <2>2. NoSweep \in Sweep /\ NoCall(0) \in Call
    BY NoCallType DEF NoSweep, Sweep
  <2> QED
    BY <2>1, <2>2 DEF Init, SchedTyped
<1>3. TicksAhead /\ FiredBehind
  BY DEF Init, TicksAhead, NoSweep, FiredBehind
<1>4. VictimsListed
  BY NoCallType DEF Init, VictimsListed, Listed
<1> QED
  BY <1>1, <1>2, <1>3, <1>4 DEF Inv, SchedInv

(* The invariant holds in every state.                                     *)
LEMMA AlwaysInv == Spec => []Inv
<1>1. Init => Inv
  BY InvInit
<1>2. Inv /\ [Next]_vars => Inv'
  BY InvStep
<1> QED
  BY <1>1, <1>2, PTL DEF Spec

-----------------------------------------------------------------------------
(* The theorems                                                            *)

(* What the fibers hold and what the store keeps has its types             *)
(* (schedules, jobs and the takers' iterations).                           *)
THEOREM TypeCorrect == Spec => []TypeOK
<1>1. Inv => TypeOK
  <2> SUFFICES ASSUME Inv PROVE TypeOK
    OBVIOUS
  <2>1. scenario \in Scenario
    BY ScenarioTakers DEF Inv, Base
  <2>2. \A k \in Keys : schedules[k] = None \/ schedules[k] \in ScheduleRecord
    BY LiveType DEF Inv, SchedInv, SchedTyped
  <2>3. \A c \in Callers : callers[c].changed \subseteq callers[c].victims
    BY DEF Inv, SchedInv, VictimsListed, Listed
  <2>4. /\ \A id \in JobIds : jobs[id] = None \/ jobs[id] \in Job
        /\ \A t \in Takers :
              /\ takers[t].stage \in {"idle", "claiming", "emptied", "parked", "busy"}
              /\ takers[t].job # None <=> takers[t].stage = "busy"
    BY DEF Inv, Base, Typed, Taker, Stages
  <2> QED
    BY <2>1, <2>2, <2>3, <2>4 DEF TypeOK
<1> QED
  BY <1>1, AlwaysInv, PTL

(* No wake-up is lost between an empty claim and its awaitWake, nor        *)
(* between processes, unless a message or a process is (signalWake,        *)
(* awaitWake, and the announcements of every call that makes a job         *)
(* runnable, the sweepers' ticks among them).                              *)
THEOREM NoWakeupLost == Spec => []JobsNoticed
<1>1. Inv => JobsNoticed
  BY VigilantNotices DEF Inv
<1> QED
  BY <1>1, AlwaysInv, PTL

(* A claim, a retry and the other steps of Wakeups create no job but those *)
(* of enqueue.                                                             *)
LEMMA EnqueuesOwnIds ==
    ASSUME Base, WakeupsNext, NEW id \in JobIds, jobs[id] = None,
           jobs'[id] # None
    PROVE  id \in scenario.jobs
<1>1. jobs \in [JobIds -> Job \cup {None}]
  BY DEF Base, Typed
<1>2. ASSUME NEW t \in Takers, TakerNext(t) PROVE FALSE
  <2>1. CASE UNCHANGED jobs
    BY <2>1
  <2>2. CASE Claim(t)
    <3>1. \A i \in Runnable(QueueOf[t]) : i # id
      BY DEF Runnable, Due, InState
    <3>2. id \notin Due(QueueOf[t])
      BY DEF Due, InState
    <3> QED
      BY <2>2, <3>1, <3>2 DEF Claim
  <2>3. CASE TakerRuns(t)
    <3>1. takers[t].stage = "busy"
      BY <2>3 DEF TakerRuns, FinishJob, RetryJob
    <3>2. takers[t].job # id
      BY <3>1, RunningJob, NoneAssumption
    <3> QED
      BY <1>1, <2>3, <3>2 DEF TakerRuns, FinishJob, RetryJob
  <2> QED
    BY <1>2, <2>1, <2>2, <2>3 DEF TakerNext, TakeToken, Park, storeVars
<1>3. ASSUME NEW p \in Procs, ProcessNext(p) PROVE id \in scenario.jobs
  <2>1. CASE UNCHANGED jobs
    BY <2>1
  <2>2. CASE \E i \in scenario.jobs, q \in Queues, delay \in Delays :
                Enqueue(p, i, q, delay)
    BY <1>1, <2>2 DEF Enqueue
  <2>3. CASE \E i \in JobIds : Promote(p, i)
    BY <1>1, <2>3 DEF Promote, InState
  <2>4. CASE RecoverStalled(p)
    <3>1. id \notin Abandoned
      BY DEF Abandoned, InState
    <3> QED
      BY <2>4, <3>1 DEF RecoverStalled
  <2> QED
    BY <1>3, <2>1, <2>2, <2>3, <2>4
    DEF ProcessNext, Announce, Deliver, LoseMessage, Pause, Resume, Crash,
        Restart, storeVars
<1>4. ASSUME NEW i \in JobIds, Prune(i) PROVE FALSE
  BY <1>1, <1>4 DEF Prune
<1>5. ASSUME NEW t \in Takers, TimerFires(t) \/ PollFires(t) PROVE FALSE
  BY <1>5 DEF TimerFires, PollFires, storeVars
<1>6. CASE Tick
  BY <1>6 DEF Tick, storeVars
<1> QED
  BY <1>2, <1>3, <1>4, <1>5, <1>6 DEF WakeupsNext

(* The steps that touch the store's jobs or schedules.                     *)
LEMMA StepKinds ==
    ASSUME [Next]_vars
    PROVE  \/ WakeupsNext /\ StopsFibers
           \/ \E p \in Procs : SweepTick(p)
           \/ \E c \in Callers : CallUpserts(c)
           \/ \E c \in Callers, k \in Keys : CallRemoves(c, k)
           \/ \E k \in Keys : Unschedule(k)
           \/ UNCHANGED <<wakeupVars, schedules, fired>>
<1>1. ASSUME NEW p \in Procs, SweepBegin(p) \/ SweeperNext(p)
      PROVE  SweepTick(p) \/ UNCHANGED <<wakeupVars, schedules, fired>>
  BY <1>1 DEF SweepBegin, SweeperNext, SweepNextRow
<1>2. ASSUME NEW c \in Callers, CallBegin(c) \/ CallerNext(c)
      PROVE  CallUpserts(c) \/ UNCHANGED <<wakeupVars, schedules, fired>>
  BY <1>2 DEF CallBegin, CallerNext, CallReadsClock, CallLists, CallEnds
<1>3. CASE UNCHANGED vars
  BY <1>3 DEF vars, schedVars
<1> QED
  BY <1>1, <1>2, <1>3 DEF Next

(* The jobs of slots are made by ticks, of slots that are current.         *)
LEMMA FiresOnceHolds ==
    ASSUME Inv, [Next]_vars
    PROVE  FiresOnceStep
<1> SUFFICES ASSUME NEW k \in Keys, NEW slot \in 1..MaxTime,
                    jobs[<<k, slot>>] = None, jobs'[<<k, slot>>] # None
             PROVE  <<k, slot>> \notin fired
  BY DEF FiresOnceStep
<1> DEFINE id == <<k, slot>>
<1>1. id \in JobIds /\ id \in Keys \X Nat
  BY SchedulesAssumption, TakersAssumption
<1>2. CASE WakeupsNext
  <2>1. id \in scenario.jobs
    BY <1>1, <1>2, EnqueuesOwnIds DEF Inv
  <2>2. scenario.jobs \subseteq PlainIds
    BY SchedulesAssumption DEF Inv, Base, Typed
  <2> QED
    BY <1>1, <2>1, <2>2, SchedulesAssumption
<1>3. ASSUME NEW p \in Procs, SweepTick(p)
      PROVE  <<k, slot>> \notin fired
  <2> DEFINE tick == sweepers[p].tick
  <2>1. tick # None /\ TickSchedule(p, tick.key, tick.slot, tick.next)
    BY <1>3 DEF SweepTick
  <2>2. /\ tick.key \in Keys /\ tick.slot \in 1..MaxTime
        /\ SlotId(tick.key, tick.slot) = <<tick.key, tick.slot>>
        /\ SlotCurrent(tick.key, tick.slot) =>
              schedules[tick.key] \in Live
              /\ schedules[tick.key].nextRunAt = tick.slot
    BY <2>1, TickFacts
  <2> HIDE DEF tick
  <2>3. \A i \in JobIds : i # <<tick.key, tick.slot>> => jobs'[i] = jobs[i]
    BY <2>1, <2>2 DEF TickSchedule, Inv, Base, Typed
  <2>4. id = <<tick.key, tick.slot>>
    BY <1>1, <2>3
  <2>5. tick.key = k /\ tick.slot = slot
    BY <2>4
  <2>6. SlotCurrent(k, slot)
    BY <2>1, <2>5 DEF TickSchedule
  <2>7. schedules[k].nextRunAt = slot
    BY <2>2, <2>5, <2>6
  <2> QED
    BY <2>7 DEF Inv, SchedInv, FiredBehind
<1>4. jobs' # jobs
  OBVIOUS
<1>5. ASSUME NEW c \in Callers PROVE ~CallUpserts(c)
  BY <1>4 DEF CallUpserts, storeVars
<1>6. ~UNCHANGED wakeupVars
  BY <1>4 DEF wakeupVars, storeVars
<1>7. /\ \A c \in Callers, i \in Keys : ~CallRemoves(c, i)
      /\ \A i \in Keys : ~Unschedule(i)
  BY <1>6 DEF CallRemoves, Unschedule
<1> QED
  BY <1>2, <1>3, <1>5, <1>6, <1>7, StepKinds

(* A slot fires at most once, however many sweepers hold it as due         *)
(* (tickSchedule's compare-and-set), although retention may have pruned    *)
(* its job.                                                                *)
THEOREM SlotsFireOnce == Spec => FiresOnce
<1>1. Inv /\ [Next]_vars => FiresOnceStep
  BY FiresOnceHolds
<1> QED
  BY <1>1, AlwaysInv, PTL DEF Spec, FiresOnce

(* Only a tick moves a row that keeps its cadence.                         *)
LEMMA NoSlotDroppedHolds ==
    ASSUME Inv, [Next]_vars
    PROVE  NoSlotDroppedStep
<1> SUFFICES ASSUME NEW k \in Keys, schedules[k] # None, schedules'[k] # None,
                    schedules'[k].cadence = schedules[k].cadence,
                    schedules'[k].nextRunAt # schedules[k].nextRunAt
             PROVE  /\ schedules'[k].nextRunAt > schedules[k].nextRunAt
                    /\ \/ <<k, schedules[k].nextRunAt>> \in fired'
                       \/ jobs[<<k, schedules[k].nextRunAt>>] # None
                    /\ \/ schedules'[k].nextRunAt <=
                             NextOccurrence(schedules[k].cadence,
                                            schedules[k].nextRunAt, now)
                       \/ TicksStaleCadence(k)
  BY DEF NoSlotDroppedStep
<1>1. schedules[k] \in Live /\ schedules \in [Keys -> Live \cup {None}]
  BY DEF Inv, SchedInv, SchedTyped
<1>2. ASSUME NEW p \in Procs, SweepTick(p)
      PROVE  /\ schedules'[k].nextRunAt > schedules[k].nextRunAt
             /\ \/ <<k, schedules[k].nextRunAt>> \in fired'
                \/ jobs[<<k, schedules[k].nextRunAt>>] # None
             /\ \/ schedules'[k].nextRunAt <=
                      NextOccurrence(schedules[k].cadence,
                                     schedules[k].nextRunAt, now)
                \/ TicksStaleCadence(k)
  <2> DEFINE tick == sweepers[p].tick
             row == [schedules[k] EXCEPT !.nextRunAt = tick.next]
  <2>1. tick # None /\ TickSchedule(p, tick.key, tick.slot, tick.next)
    BY <1>2 DEF SweepTick
  <2>2. /\ tick.key \in Keys /\ tick.slot \in 1..MaxTime
        /\ tick.slot < tick.next /\ tick.next \in Nat \ {0}
        /\ SlotId(tick.key, tick.slot) = <<tick.key, tick.slot>>
        /\ SlotCurrent(tick.key, tick.slot) =>
              schedules[tick.key].nextRunAt = tick.slot
    BY <2>1, TickFacts
  <2>3. tick.key = k /\ SlotCurrent(k, tick.slot)
        /\ schedules' = [schedules EXCEPT ![k] = row]
    <3>1. /\ SlotCurrent(tick.key, tick.slot)
          /\ schedules' = [schedules EXCEPT ![tick.key].nextRunAt = tick.next]
      BY <2>1 DEF TickSchedule
    <3>2. tick.key = k
      BY <1>1, <3>1
    <3> QED
      BY <3>1, <3>2
  <2>4. schedules[k].nextRunAt = tick.slot
    BY <2>2, <2>3
  <2>5. schedules'[k].nextRunAt = tick.next
    <3>1. row.nextRunAt = tick.next
      BY <1>1, <2>2, LiveType
    <3> QED
      BY <1>1, <2>3, <3>1
  <2>6. \/ <<k, tick.slot>> \in fired'
        \/ jobs[<<k, tick.slot>>] # None
    BY <2>1, <2>2, <2>3 DEF TickSchedule
  <2>7. tick.next <= NextOccurrence(tick.cadence, tick.slot, now)
    BY <2>1 DEF Inv, SchedInv, TicksAhead
  <2>8. tick.cadence # schedules[k].cadence => TicksStaleCadence(k)
    BY <2>1, <2>3, <2>4 DEF TicksStaleCadence
  <2> HIDE DEF tick, row
  <2> QED
    BY <2>2, <2>4, <2>5, <2>6, <2>7, <2>8
<1>3. ASSUME NEW c \in Callers, CallUpserts(c) PROVE FALSE
  <2> DEFINE hand == callers[c].hand
  <2>1. /\ UpsertSchedule(hand.key, hand.record)
        /\ hand \in Hand
    BY <1>3 DEF CallUpserts, Inv, SchedInv, SchedTyped, Call
  <2>2. hand.record \in Live /\ hand.key \in Keys
    BY <2>1 DEF Hand
  <2> HIDE DEF hand
  <2>3. hand.key = k
    BY <1>1, <2>1, <2>2 DEF UpsertSchedule
  <2>4. CASE SameCadence(k, hand.record)
    <3>1. [hand.record EXCEPT !.nextRunAt = schedules[k].nextRunAt].nextRunAt
             = schedules[k].nextRunAt
      BY <1>1, <2>2, LiveType
    <3> QED
      BY <1>1, <2>1, <2>3, <2>4, <3>1 DEF UpsertSchedule
  <2>5. CASE ~SameCadence(k, hand.record)
    <3>1. schedules'[k] = hand.record
      BY <1>1, <2>1, <2>3, <2>5 DEF UpsertSchedule
    <3> QED
      BY <2>5, <3>1 DEF SameCadence
  <2> QED
    BY <2>4, <2>5
<1>4. ASSUME NEW i \in Keys, RemoveSchedule(i) PROVE FALSE
  BY <1>1, <1>4 DEF RemoveSchedule
<1>5. /\ \A c \in Callers, i \in Keys : ~CallRemoves(c, i)
      /\ \A i \in Keys : ~Unschedule(i)
  BY <1>4 DEF CallRemoves, Unschedule
<1>6. ~UNCHANGED schedules
  OBVIOUS
<1>7. ~StopsFibers
  BY <1>6 DEF StopsFibers
<1> QED
  BY <1>2, <1>3, <1>5, <1>6, <1>7, StepKinds

(* No occurrence is dropped: a row that keeps its cadence leaves a slot    *)
(* forwards, with the slot's job, and not beyond the clock's next          *)
(* occurrence (sweepSchedule, upsertSchedule), however old the sweepers'   *)
(* rows and clocks are.                                                    *)
THEOREM SlotsNotDropped == Spec => NoSlotDropped
<1>1. Inv /\ [Next]_vars => NoSlotDroppedStep
  BY NoSlotDroppedHolds
<1> QED
  BY <1>1, AlwaysInv, PTL DEF Spec, NoSlotDropped

(* A victim leaves the list by its removal, or with the process.           *)
LEMMA VictimsLeave ==
    ASSUME Inv, [Next]_vars, NEW c \in Callers, NEW k \in Keys,
           k \in callers[c].victims, k \notin callers'[c].victims,
           up'[CallerProc[c]]
    PROVE  CallRemoves(c, k)
<1>1. /\ callers \in [Callers -> Call] /\ callers[c].stage = "remove"
      /\ callers[c].hand = None /\ callers[c].todo = {}
  BY DEF Inv, SchedInv, SchedTyped, VictimsListed, Listed
<1>2. callers' # callers
  OBVIOUS
<1>3. ~StopsFibers
  BY DEF StopsFibers
<1>4. \A p \in Procs : ~SweepBegin(p) /\ ~SweeperNext(p)
  BY <1>2 DEF SweepBegin, SweeperNext, SweepTick, SweepNextRow
<1>5. ASSUME NEW d \in Callers, d # c,
             \/ CallBegin(d) \/ CallLists(d) \/ CallEnds(d)
             \/ \E i \in Keys : CallReadsClock(d, i) \/ CallRemoves(d, i)
      PROVE  FALSE
  BY <1>1, <1>5 DEF CallBegin, CallLists, CallEnds, CallReadsClock, CallRemoves
<1>6. ASSUME NEW d \in Callers, CallUpserts(d) PROVE FALSE
  <2>1. d # c
    BY <1>1, <1>6 DEF CallUpserts
  <2>2. callers'[c].victims = callers[c].victims
    BY <1>1, <1>6, <2>1 DEF CallUpserts, Call
  <2> QED
    BY <2>2
<1>7. ~CallBegin(c)
  BY <1>1, NoCallType DEF CallBegin, Over, Call
<1>8. ~CallLists(c) /\ ~CallEnds(c) /\ \A i \in Keys : ~CallReadsClock(c, i)
  BY <1>1 DEF CallLists, CallEnds, CallReadsClock, Upserted
<1>9. ASSUME NEW i \in Keys, CallRemoves(c, i) PROVE i = k
  <2>1. CASE callers[c].victims = {i}
    BY <2>1
  <2>2. CASE callers[c].victims # {i}
    <3>1. callers'[c] = [callers[c] EXCEPT
                            !.victims = callers[c].victims \ {i},
                            !.changed = callers[c].changed \ {i}]
      BY <1>1, <1>9, <2>2 DEF CallRemoves
    <3>2. callers[c] \in Call
      BY <1>1
    <3>3. callers'[c].victims = callers[c].victims \ {i}
      BY <3>1, <3>2 DEF Call
    <3> QED
      BY <3>3
  <2> QED
    BY <2>1, <2>2
<1>10. \A i \in Keys : ~Unschedule(i)
  BY <1>2 DEF Unschedule
<1>11. ~UNCHANGED vars
  BY <1>2 DEF vars, schedVars
<1> QED
  BY <1>3, <1>4, <1>5, <1>6, <1>7, <1>8, <1>9, <1>10, <1>11 DEF Next, CallerNext

(* A layer removes what is of its group and undeclared, if nobody wrote    *)
(* the row since the layer listed it (JobSchedules.reconcile).             *)
THEOREM LayersPruneTheirOwn == Spec => PrunesOwnGroup
<1>1. Inv /\ [Next]_vars => PrunesOwnGroupStep
  BY VictimsLeave DEF PrunesOwnGroupStep, Inv, SchedInv, VictimsListed, Listed
<1> QED
  BY <1>1, AlwaysInv, PTL DEF Spec, PrunesOwnGroup

=============================================================================
