---------------------------- MODULE MCSchedules ----------------------------
(***************************************************************************)
(* Instances of Schedules for TLC: two processes with a taker each.        *)
(***************************************************************************)
EXTENDS Schedules, TLC

CONSTANTS p1, p2, t1, t2, j1, j2

MCProcOf == t1 :> p1 @@ t2 :> p2
MCQueueOf == t1 :> "q" @@ t2 :> "q"
MCJobIds == PlainIds \cup (Keys \X (1..MaxTime))

Every(n) == [kind |-> "every", ms |-> n]
Cron(n) == [kind |-> "cron", ms |-> n]

\* Two releases of one service's layer, the second of which drops "b"; and a
\* plain schedule calls for "b", one with another cadence.
MCCallers == {"old", "new", "plain", "cron"}
MCCallerProc == "old" :> p1 @@ "new" :> p2 @@ "plain" :> p2 @@ "cron" :> p1
MCGroup == "old" :> "g" @@ "new" :> "g" @@ "plain" :> None @@ "cron" :> None
MCDeclares ==
    "old" :> ("a" :> Every(1) @@ "b" :> Cron(2)) @@
    "new" :> ("a" :> Every(1) @@ "b" :> None) @@
    "plain" :> ("a" :> None @@ "b" :> Every(1)) @@
    "cron" :> ("a" :> None @@ "b" :> Cron(2))

NoScenario == [jobs |-> {}, takers |-> {}, callers |-> {}, verbs |-> {},
               calls |-> 0, faults |-> 0, time |-> MaxTime]

\* Takers of two processes, and pauses.
TwoTakers == [NoScenario EXCEPT !.jobs = {j1}, !.takers = Takers,
                                !.verbs = {"pause", "promote"}, !.time = 1]

\* One taker, crashes and lost messages.
TwoJobs == [NoScenario EXCEPT !.jobs = {j1, j2}, !.takers = {t2}, !.faults = 1,
                              !.time = 1]

\* The layers and the plain call at once.
Declaring == [NoScenario EXCEPT !.callers = {"old", "new", "plain"},
                                !.calls = 1, !.time = 1]

\* Two releases declare one schedule, an operator removes it.
Removing == [NoScenario EXCEPT !.callers = {"old", "new"}, !.calls = 1,
                               !.verbs = {"unschedule"}, !.time = 1]

\* Two plain calls that disagree on the cadence.
Changing == [NoScenario EXCEPT !.callers = {"plain", "cron"}, !.calls = 1]

\* One schedule whose jobs run and are pruned.
Firing == [NoScenario EXCEPT !.takers = {t1}, !.callers = {"plain"},
                             !.calls = 1]

MCScenarios == {TwoTakers, TwoJobs, Declaring, Removing, Changing, Firing}

=============================================================================
