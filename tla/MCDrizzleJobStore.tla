------------------------- MODULE MCDrizzleJobStore -------------------------
(***************************************************************************)
(* Instances of DrizzleJobStore for TLC.                                   *)
(***************************************************************************)
EXTENDS DrizzleJobStore

CONSTANTS c1, c2, k1, k2

Basic == [id |-> None, name |-> "n", queue |-> "q", payload |-> "a",
          priority |-> 0, attemptsMax |-> 2, keep |-> None, dedupe |-> None,
          parent |-> None, delayMs |-> 0]

\* Records of completed and cancelled jobs go as soon as they are written.
\* (Larger counts are kept only approximately: two transactions that finish
\* a job each do not see one another's record when they prune.)
KeepNone == [s \in TerminalStates |->
                IF s = "failed" THEN None ELSE [count |-> 0, ageMs |-> None]]

\* A flow parent.
Flow == [Basic EXCEPT !.id = 1, !.name = "f"]

\* A job that waits, delayed, to be replaced by a later request of its key.
Keyed == [Basic EXCEPT !.priority = 1, !.delayMs = 1, !.keep = KeepNone,
                       !.dedupe = [key |-> "d", ttlMs |-> None,
                                   extend |-> FALSE, replace |-> TRUE]]
\* One that opens a window on that key and is the child of a flow elsewhere.
Windowed == [Basic EXCEPT !.id = 2, !.keep = KeepNone,
                          !.parent = [flowId |-> 2, childKey |-> k1],
                          !.dedupe = [key |-> "d", ttlMs |-> 1,
                                      extend |-> FALSE, replace |-> FALSE]]
\* One whose duplicates push that window out.  (The window outlasts every
\* clock reading of the instance: an older reading moves it back, and an ack
\* that had found it open then leaves an entry that is merely dead.)
Extended == [Windowed EXCEPT !.dedupe.ttlMs = 2, !.dedupe.extend = TRUE]
Plain == [Basic EXCEPT !.id = 2]
AllRequests == {Flow, Keyed, Windowed, Extended, Plain}

\* A flow: fan-out, reports, cancels, stalls.
FlowScenario ==
    [requests |-> {Flow}, verbs |-> {"fanOut", "report", "cancel"},
     time |-> 1, seq |-> 2, tokens |-> 2]
KeyScenario ==
    [requests |-> {Keyed, Extended}, verbs |-> {"cancel"},
     time |-> 1, seq |-> 2, tokens |-> 1]
WindowScenario ==
    [requests |-> {Keyed, Windowed}, verbs |-> {"retry", "promote"},
     time |-> 1, seq |-> 2, tokens |-> 1]
\* Queue pauses, lock extension and removal.
AdminScenario ==
    [requests |-> {Plain}, verbs |-> {"pause", "extendLocks", "remove"},
     time |-> 2, seq |-> 2, tokens |-> 2]
\* The history sweep beside windows that open and expire.
SweepScenario ==
    [requests |-> {Windowed}, verbs |-> {"historySweep", "report"},
     time |-> 2, seq |-> 2, tokens |-> 1]
AllScenarios == {FlowScenario, KeyScenario, WindowScenario, AdminScenario,
                 SweepScenario}
\* A job is removed, which leaves its key's entry behind, and the next request
\* takes the dead entry over while the history sweep deletes such entries.
TakeOver == {[requests |-> {Keyed}, verbs |-> {"remove", "historySweep"},
              time |-> 1, seq |-> 2, tokens |-> 0]}
Symmetry == Permutations({c1, c2})
SomeTtl == [s \in TerminalStates |-> IF s = "completed" THEN None ELSE 1]

=============================================================================
