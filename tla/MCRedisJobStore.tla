-------------------------- MODULE MCRedisJobStore --------------------------
(***************************************************************************)
(* Instances of RedisJobStore for TLC.                                     *)
(***************************************************************************)
EXTENDS RedisJobStore

CONSTANTS k1, k2

Basic == [id |-> None, name |-> "n", queue |-> "q", payload |-> "a",
          priority |-> 0, attemptsMax |-> 2, keep |-> None, dedupe |-> None,
          parent |-> None, delayMs |-> 0]

KeepTwo == [s \in TerminalStates |->
               IF s = "failed" THEN [count |-> None, ageMs |-> 0]
               ELSE [count |-> 1, ageMs |-> None]]

\* A flow parent.
Flow == [Basic EXCEPT !.id = 1, !.name = "f"]

\* An urgent, delayed, latest-wins job, and one that opens a window and is
\* the child of a flow elsewhere.  (One id carries the envelope: jobs that
\* one stall pass ends get one outbox stamp each here and a common one in
\* the reference driver.)
Keyed == [Basic EXCEPT !.priority = 1, !.delayMs = 1, !.keep = KeepTwo,
                       !.dedupe = [key |-> "d", ttlMs |-> None,
                                   extend |-> FALSE, replace |-> TRUE]]
Windowed == [Basic EXCEPT !.id = 2, !.keep = KeepTwo,
                          !.parent = [flowId |-> 2, childKey |-> "x"],
                          !.dedupe = [key |-> "d", ttlMs |-> 1,
                                      extend |-> TRUE, replace |-> FALSE]]
\* A keyed job with neither a keep policy nor a flow.
Pruned == [Basic EXCEPT !.id = 2, !.name = "f",
                        !.dedupe = [key |-> "d", ttlMs |-> 1,
                                    extend |-> FALSE, replace |-> FALSE]]
AllRequests == {Flow, Keyed, Windowed, Pruned}

\* A flow whose id may be used again after a removal.
FlowScenario ==
    [requests |-> {Flow}, verbs |-> {"fanOut", "report", "cancel", "remove"},
     time |-> 1, seq |-> 2,
     tokens |-> 2]
\* Dedup keys and keep policies under every operator verb.
KeyScenario ==
    [requests |-> {Keyed, Windowed},
     verbs |-> {"cancel", "retry", "promote", "remove", "extendLocks"},
     time |-> 2, seq |-> 3,
     tokens |-> 2]
\* The history sweep over a flow parent and a keyed job.
HistoryScenario ==
    [requests |-> {Flow, Pruned}, verbs |-> {"fanOut", "cancel", "historySweep"},
     time |-> 1, seq |-> 2, tokens |-> 1]
PauseScenario ==
    [requests |-> {Keyed}, verbs |-> {"pause"}, time |-> 1, seq |-> 2,
     tokens |-> 2]

AllScenarios == {FlowScenario, KeyScenario, HistoryScenario, PauseScenario}
Symmetry == Permutations({k1, k2})

NoTtl == [s \in TerminalStates |-> None]
SomeTtl == [s \in TerminalStates |-> IF s = "completed" THEN None ELSE 1]

=============================================================================
