----------------------------- MODULE Schedules -----------------------------
(***************************************************************************)
(* Repeatable jobs: the schedules a store keeps, the callers that declare  *)
(* them (Job.schedule, JobSchedules.layer), and the workers' sweepers      *)
(* (Worker.ts, scheduleLoop), which turn due occurrences (slots) into      *)
(* jobs.  It runs over Wakeups: ticks and upserts announce their queue,    *)
(* and takers run the jobs.                                                *)
(*                                                                         *)
(* Each store call is atomic in all three drivers (a synchronous block, a  *)
(* script, a statement or transaction with a compare-and-set); everything  *)
(* else interleaves: the clock is read before the call that uses it, a     *)
(* sweeper works through rows it read earlier, and a reconciling layer     *)
(* upserts, lists and removes one by one.                                  *)
(*                                                                         *)
(* A schedule's payload and options play no part here; a row whose cadence *)
(* is invalid is only skipped, and left out.                               *)
(***************************************************************************)
EXTENDS Wakeups

CONSTANTS
    Keys,         \* schedule keys
    Queue,        \* the queue of their jobs
    PlainIds,     \* ids of jobs that are enqueued otherwise
    Callers,      \* processes' start-up code that declares schedules
    CallerProc,   \* [Callers -> Procs]
    Warns,        \* the layers with removal: "warn"
    Group,        \* [Callers -> its group, or None for plain schedule calls]
    Declares      \* [Callers -> [Keys -> cadence or None]]

ASSUME SchedulesAssumption ==
    /\ Queue \in Queues /\ PlainIds \subseteq JobIds
    /\ Keys \X (1..MaxTime) \subseteq JobIds
    /\ PlainIds \cap (Keys \X Nat) = {}
    /\ CallerProc \in [Callers -> Procs] /\ Warns \subseteq Callers
    /\ \A sc \in Scenarios : sc.jobs \subseteq PlainIds /\ sc.callers \subseteq Callers

VARIABLES
    schedules,    \* the store: key -> record or None
    sweepers,     \* per process: its schedule loop
    callers,      \* per caller: where it is in declaring its schedules
    fired         \* the slots each schedule fired since it was last anchored

schedVars == <<schedules, sweepers, callers, fired>>
vars == <<wakeupVars, schedVars>>

-----------------------------------------------------------------------------
(* Occurrences                                                             *)

Cadence == [kind : {"every", "cron"}, ms : Nat \ {0}]
ScheduleRecord == [cadence : Cadence, group : {Group[c] : c \in Callers},
                   nextRunAt : Nat]

ASSUME DeclaresAssumption ==
    /\ Declares \in [Callers -> [Keys -> Cadence \cup {None}]]
    /\ None \notin ScheduleRecord /\ None \notin Cadence

\* nextOccurrence: the first occurrence after `at`, on the grid of the slots
\* (every) or of the calendar (cron, here the multiples of ms).
NextOccurrence(cadence, fromSlot, at) ==
    IF cadence.kind = "cron"
    THEN (Max({fromSlot, at}) \div cadence.ms + 1) * cadence.ms
    ELSE fromSlot + (Max({0, at - fromSlot}) \div cadence.ms + 1) * cadence.ms

-----------------------------------------------------------------------------
(* The store's schedule operations                                         *)

SlotId(k, slot) == <<k, slot>>

Anchor(k) == fired' = {f \in fired : f[1] # k}

Fault_AlwaysReanchors(k, record) == FALSE

\* An unchanged cadence keeps its next occurrence.
SameCadence(k, record) ==
    schedules[k] # None /\ schedules[k].cadence = record.cadence

UpsertSchedule(k, record) ==
    IF SameCadence(k, record)
    THEN /\ schedules' = [schedules EXCEPT ![k] =
                [record EXCEPT !.nextRunAt = schedules[k].nextRunAt]]
         /\ UNCHANGED fired
    ELSE /\ schedules' = [schedules EXCEPT ![k] = record]
         /\ Anchor(k)

RemoveSchedule(k) ==
    /\ schedules' = [schedules EXCEPT ![k] = None]
    /\ Anchor(k)

Fault_SlotMayBeOlder(k, slot) ==
    schedules[k] # None /\ schedules[k].nextRunAt >= slot

\* The compare-and-set of tickSchedule.
SlotCurrent(k, slot) ==
    schedules[k] # None /\ schedules[k].nextRunAt = slot

Fault_TakenSlotStays(p, k, slot, next) ==
    IF ~SlotCurrent(k, slot) \/ jobs[SlotId(k, slot)] # None
    THEN UNCHANGED <<jobs, schedules, fired, announcing>>
    ELSE /\ schedules' = [schedules EXCEPT ![k].nextRunAt = next]
         /\ jobs' = [jobs EXCEPT ![SlotId(k, slot)] = NewJob(Queue, 0)]
         /\ fired' = fired \cup {<<k, slot>>}
         /\ WillAnnounce(p, Queue)

\* tickSchedule by process p: claim the slot, insert its job, advance.  A row
\* with the slot's id already there only advances.
TickSchedule(p, k, slot, next) ==
    IF ~SlotCurrent(k, slot)
    THEN UNCHANGED <<jobs, schedules, fired, announcing>>
    ELSE /\ schedules' = [schedules EXCEPT ![k].nextRunAt = next]
         /\ IF jobs[SlotId(k, slot)] # None
            THEN UNCHANGED <<jobs, fired, announcing>>
            ELSE /\ jobs' = [jobs EXCEPT ![SlotId(k, slot)] = NewJob(Queue, 0)]
                 /\ fired' = fired \cup {<<k, slot>>}
                 /\ WillAnnounce(p, Queue)

Unschedule(k) ==
    /\ "unschedule" \in scenario.verbs
    /\ schedules[k] # None
    /\ RemoveSchedule(k)
    /\ UNCHANGED <<wakeupVars, sweepers, callers>>

-----------------------------------------------------------------------------
(* The sweepers (scheduleLoop, sweepSchedule)                              *)

NoSweep == [todo |-> {}, tick |-> None]

DueSchedules ==
    {[key |-> k, slot |-> schedules[k].nextRunAt,
      cadence |-> schedules[k].cadence] :
        k \in {i \in Keys : schedules[i] # None /\ schedules[i].nextRunAt <= now}}

SweepBegin(p) ==
    /\ up[p] /\ scenario.callers # {}
    /\ sweepers[p] = NoSweep
    /\ DueSchedules # {}
    /\ sweepers' = [sweepers EXCEPT ![p].todo = DueSchedules]
    /\ UNCHANGED <<wakeupVars, schedules, callers, fired>>

\* sweepSchedule: the clock is read, the next occurrence computed, ...
SweepNextRow(p, row) ==
    /\ row \in sweepers[p].todo /\ sweepers[p].tick = None
    /\ \A other \in sweepers[p].todo : row.slot <= other.slot
    /\ sweepers' = [sweepers EXCEPT ![p] =
          [todo |-> @.todo \ {row},
           tick |-> [key |-> row.key, slot |-> row.slot, cadence |-> row.cadence,
                     next |-> NextOccurrence(row.cadence, row.slot, now)]]]
    /\ UNCHANGED <<wakeupVars, schedules, callers, fired>>

\* ... and then the store is called.
SweepTick(p) ==
    LET tick == sweepers[p].tick
    IN  /\ tick # None
        /\ TickSchedule(p, tick.key, tick.slot, tick.next)
        /\ sweepers' = [sweepers EXCEPT ![p].tick = None]
        /\ UNCHANGED <<now, paused, up, takers, channel, bounds, callers>>

-----------------------------------------------------------------------------
(* Declaring schedules (Job.schedule, JobSchedules.reconcile)              *)

\* todo: keys to upsert; record: the one about to be; victims: keys to remove,
\* those of them that somebody upserted since they were listed in `changed`.
\* calls: how often it ran.
NoCall(calls) == [stage |-> "idle", todo |-> {}, hand |-> None, victims |-> {},
                  changed |-> {}, calls |-> calls]
Over(c) == NoCall(callers[c].calls)

Declared(c) == {k \in Keys : Declares[c][k] # None}

CallBegin(c) ==
    /\ c \in scenario.callers /\ up[CallerProc[c]]
    /\ callers[c] = Over(c) /\ callers[c].calls < scenario.calls
    /\ callers' = [callers EXCEPT ![c] =
          [callers[c] EXCEPT !.stage = "upsert", !.todo = Declared(c),
                             !.calls = callers[c].calls + 1]]
    /\ UNCHANGED <<wakeupVars, schedules, sweepers, fired>>

\* schedule: the clock is read and the first occurrence computed, ...
CallReadsClock(c, k) ==
    /\ k \in callers[c].todo /\ callers[c].hand = None
    /\ callers' = [callers EXCEPT ![c] =
          [callers[c] EXCEPT
             !.todo = callers[c].todo \ {k},
             !.hand = [key |-> k, record |->
                [cadence |-> Declares[c][k], group |-> Group[c],
                 nextRunAt |-> NextOccurrence(Declares[c][k], now, now)]]]]
    /\ UNCHANGED <<wakeupVars, schedules, sweepers, fired>>

\* ... and then the row is written.
CallUpserts(c) ==
    LET hand == callers[c].hand
    IN  /\ hand # None
        /\ UpsertSchedule(hand.key, hand.record)
        /\ WillAnnounce(CallerProc[c], Queue)
        /\ callers' = [d \in Callers |->
              IF d = c THEN [callers[c] EXCEPT !.hand = None]
              ELSE IF hand.key \in callers[d].victims
              THEN [callers[d] EXCEPT !.changed = @ \cup {hand.key}]
              ELSE callers[d]]
        /\ UNCHANGED <<now, storeVars, up, takers, channel, bounds, sweepers>>

Upserted(c) ==
    callers[c].stage = "upsert" /\ callers[c].todo = {} /\ callers[c].hand = None

\* Plain schedule calls are done.
CallEnds(c) ==
    /\ Upserted(c) /\ Group[c] = None
    /\ callers' = [callers EXCEPT ![c] = Over(c)]
    /\ UNCHANGED <<wakeupVars, schedules, sweepers, fired>>

Fault_MembersOfAnyGroup(c) == {k \in Keys : schedules[k] # None}

\* listSchedules({ group })
Members(c) ==
    {k \in Keys : schedules[k] # None /\ schedules[k].group = Group[c]}

\* The layer lists its group, after removeAfter or at once, and warns of what it
\* does not declare or goes on to remove it.
CallLists(c) ==
    /\ Upserted(c) /\ Group[c] # None
    /\ callers' = [callers EXCEPT ![c] =
          IF c \in Warns \/ Members(c) \subseteq Declared(c)
          THEN Over(c)
          ELSE [Over(c) EXCEPT !.stage = "remove",
                              !.victims = Members(c) \ Declared(c)]]
    /\ UNCHANGED <<wakeupVars, schedules, sweepers, fired>>

\* removeSchedule of one undeclared member.
CallRemoves(c, k) ==
    /\ k \in callers[c].victims
    /\ RemoveSchedule(k)
    /\ callers' = [callers EXCEPT ![c] =
          IF callers[c].victims = {k} THEN Over(c)
          ELSE [callers[c] EXCEPT !.victims = callers[c].victims \ {k},
                                  !.changed = callers[c].changed \ {k}]]
    /\ UNCHANGED <<wakeupVars, sweepers>>

-----------------------------------------------------------------------------
\* A process takes its schedule loop and its callers with it.
StopsFibers ==
    LET Down(p) == up[p] /\ ~up'[p]
    IN  /\ sweepers' = [p \in Procs |-> IF Down(p) THEN NoSweep ELSE sweepers[p]]
        /\ callers' = [c \in Callers |-> IF Down(CallerProc[c]) THEN Over(c)
                                         ELSE callers[c]]
        /\ UNCHANGED <<schedules, fired>>

Init ==
    /\ WakeupsInit
    /\ schedules = [k \in Keys |-> None]
    /\ sweepers = [p \in Procs |-> NoSweep]
    /\ callers = [c \in Callers |-> NoCall(0)]
    /\ fired = {}

SweeperNext(p) ==
    SweepTick(p) \/ \E row \in sweepers[p].todo : SweepNextRow(p, row)

CallerNext(c) ==
    \/ \E k \in Keys : CallReadsClock(c, k)
    \/ CallUpserts(c) \/ CallLists(c) \/ CallEnds(c)

Next ==
    \/ WakeupsNext /\ StopsFibers
    \/ \E p \in Procs : SweepBegin(p) \/ SweeperNext(p)
    \/ \E c \in Callers : CallBegin(c) \/ CallerNext(c)
    \/ \E c \in Callers, k \in Keys : CallRemoves(c, k)
    \/ \E k \in Keys : Unschedule(k)

Spec == Init /\ [][Next]_vars

\* Takers go on, with their polls, and the runs of jobs end; processes are
\* restarted, with their stalled and schedule loops.  Announcements, messages and
\* the callers are not relied upon.
FairSpec ==
    /\ Spec
    /\ \A t \in Takers : WF_vars(TakerNext(t) /\ StopsFibers)
                         /\ WF_vars(PollFires(t) /\ StopsFibers)
    /\ \A p \in Procs :
          /\ WF_vars(Restart(p) /\ StopsFibers)
          /\ WF_vars(RecoverStalled(p) /\ StopsFibers)
          /\ WF_vars(SweepBegin(p)) /\ WF_vars(SweeperNext(p))

-----------------------------------------------------------------------------
(* Properties                                                              *)

(* The types of what the fibers hold and of what the store keeps.          *)
TypeOK ==
    /\ \A id \in JobIds : jobs[id] = None \/ jobs[id] \in Job
    /\ \A k \in Keys : schedules[k] = None \/ schedules[k] \in ScheduleRecord
    /\ \A t \in Takers :
          /\ takers[t].stage \in {"idle", "claiming", "emptied", "parked", "busy"}
          /\ takers[t].job # None <=> takers[t].stage = "busy"
    /\ \A c \in Callers : callers[c].changed \subseteq callers[c].victims
    /\ scenario \in Scenario

(* A slot fires at most once, however many sweepers hold it as due and     *)
(* although retention may have pruned its job: "concurrent sweepers lose   *)
(* the CAS, so each occurrence fires exactly once" (JobStore.ts).  A new   *)
(* cadence, or a removed and re-created schedule, starts a grid anew.      *)
FiresOnceStep ==
    \A k \in Keys, slot \in 1..MaxTime :
        jobs[<<k, slot>>] = None /\ jobs'[<<k, slot>>] # None
        => <<k, slot>> \notin fired
FiresOnce == [][FiresOnceStep]_vars

\* A sweeper that read the slot under another cadence is about to tick it:
\* tickSchedule compares the slot only.
TicksStaleCadence(k) ==
    \E p \in Procs : LET tick == sweepers[p].tick
                     IN  /\ tick # None /\ tick.key = k
                         /\ tick.slot = schedules[k].nextRunAt
                         /\ tick.cadence # schedules[k].cadence

(* No occurrence is dropped: while the cadence stays, whatever layers      *)
(* re-declare and sweepers race, a schedule leaves a slot only forwards,   *)
(* past that slot's job, and not beyond the next occurrence of the clock   *)
(* by which it was late (or, after a change of the cadence, by which it    *)
(* would have been late under the other cadence).                          *)
NoSlotDroppedStep ==
    \A k \in Keys :
        LET old == schedules[k]
            new == schedules'[k]
        IN  /\ old # None /\ new # None /\ new.cadence = old.cadence
            /\ new.nextRunAt # old.nextRunAt
            => /\ new.nextRunAt > old.nextRunAt
               /\ \/ <<k, old.nextRunAt>> \in fired'
                  \/ jobs[<<k, old.nextRunAt>>] # None
               /\ \/ new.nextRunAt <=
                         NextOccurrence(old.cadence, old.nextRunAt, now)
                  \/ TicksStaleCadence(k)
NoSlotDropped == [][NoSlotDroppedStep]_vars

(* "a reconciler only ever prunes schedules carrying ITS group"            *)
(* (JobStore.ts): what a layer removes was of its group and undeclared, if *)
(* nobody wrote the row since the layer listed it.                         *)
PrunesOwnGroupStep ==
    \A c \in Callers, k \in Keys :
        /\ k \in callers[c].victims \ callers[c].changed
        /\ k \notin callers'[c].victims /\ up'[CallerProc[c]]
        /\ schedules[k] # None
        => schedules[k].group = Group[c] /\ Declares[c][k] = None
PrunesOwnGroup == [][PrunesOwnGroupStep]_vars

(* A schedule that is behind catches up: some sweeper ticks what is due,   *)
(* although other schedules are due too and processes crash.               *)
SchedulesCatchUp ==
    \A k \in Keys :
        LET due == schedules[k] # None /\ schedules[k].nextRunAt <= now
        IN  due ~> ~due

=============================================================================
