------------------------- MODULE MCMemoryJobStore -------------------------
(***************************************************************************)
(* Instances of MemoryJobStore for TLC.  Each cfg picks one of the request *)
(* sets below, so that each run exercises one concern of the store.        *)
(***************************************************************************)
EXTENDS MemoryJobStore, TLC

CONSTANTS j1, j2, j3, k1, k2

Basic == [id |-> None, name |-> "n", queue |-> "q", payload |-> "a",
          priority |-> 0, attemptsMax |-> 2, keep |-> None, dedupe |-> None,
          parent |-> None, delayMs |-> 0]

\* One completed and one cancelled record, failed and cancelled ones for a while.
KeepOne == [s \in TerminalStates |->
               CASE s = "completed" -> [count |-> 1, ageMs |-> None]
                 [] s = "failed"    -> [count |-> None, ageMs |-> 1]
                 [] s = "cancelled" -> [count |-> 1, ageMs |-> 2]]

\* No completed record, cancelled ones for a while, and any failed one.
KeepCancelled == [s \in TerminalStates |->
                     CASE s = "completed" -> [count |-> 0, ageMs |-> None]
                       [] s = "failed"    -> None
                       [] s = "cancelled" -> [count |-> 2, ageMs |-> 1]]

\* A plain job and one that is delayed and urgent, with a policy each.
LifecycleRequests ==
    {[Basic EXCEPT !.keep = KeepOne],
     [Basic EXCEPT !.keep = KeepCancelled, !.priority = 1, !.delayMs = 1]}

\* No record is kept, but failed ones for a while.
KeepNone == [s \in TerminalStates |->
                IF s = "failed" THEN [count |-> None, ageMs |-> 1]
                ELSE [count |-> 0, ageMs |-> None]]

\* A flow parent that is itself the child of a flow j3 elsewhere; a failed
\* one is kept for a while, or not at all.
FlowRequests ==
    {[Basic EXCEPT !.id = j1, !.keep = KeepNone,
                   !.parent = [flowId |-> j3, childKey |-> k]] :
        k \in ChildKeys}
    \cup {[Basic EXCEPT !.id = j1, !.name = "m",
                        !.keep = [s \in TerminalStates |->
                                     [count |-> 0, ageMs |-> None]]]}

Dedupe(k, ttl, ext, repl) ==
    [key |-> k, ttlMs |-> ttl, extend |-> ext, replace |-> repl]

\* Pending mode, plain and latest-wins, without and with a delay.
PendingRequests ==
    {[Basic EXCEPT !.dedupe = Dedupe("d", None, FALSE, FALSE)],
     [Basic EXCEPT !.dedupe = Dedupe("d", None, FALSE, TRUE), !.delayMs = 1,
                   !.payload = "b"]}

\* Throttle, debounce, and a latest-wins request that opens a window.
WindowRequests ==
    {[Basic EXCEPT !.dedupe = Dedupe("w", 2, FALSE, FALSE)],
     [Basic EXCEPT !.dedupe = Dedupe("w", 1, TRUE, FALSE)],
     [Basic EXCEPT !.dedupe = Dedupe("w", 2, FALSE, TRUE), !.delayMs = 1]}

DedupeRequests == PendingRequests \cup WindowRequests

NoTtl == [s \in TerminalStates |-> None]
FailedTtl == [s \in TerminalStates |-> IF s = "completed" THEN None ELSE 1]

JobSymmetry == Permutations(JobIds)
ChildSymmetry == Permutations(ChildKeys)

=============================================================================
