--------------------------- MODULE MCFlowRuntime ---------------------------
(***************************************************************************)
(* Instances of FlowRuntime for TLC.                                       *)
(***************************************************************************)
EXTENDS FlowRuntime, TLC

CONSTANTS k1, s1

\* Two children of a fail-fast flow; their reports come from a relay and from
\* the sweeper.
Reports ==
    [failFast |-> TRUE, fastPath |-> FALSE, keys |-> ChildKeys,
     sweepers |-> {s1}, relays |-> Relays,
     retries |-> 0, crashes |-> 0, time |-> 0]

\* Two sweepers that do not crash, stalls, and workers that die right after
\* their FanOut ack.
TwoSweepers ==
    [failFast |-> FALSE, fastPath |-> FALSE, keys |-> {k1},
     sweepers |-> Sweepers, relays |-> {},
     retries |-> 0, crashes |-> 0, time |-> 1]

\* The fast path, a relay and a sweeper, any of which crashes once.
Crashes ==
    [failFast |-> FALSE, fastPath |-> TRUE, keys |-> {k1},
     sweepers |-> {s1}, relays |-> Relays,
     retries |-> 1, crashes |-> 1, time |-> 0]

\* One sweeper beside a worker that enqueues the children itself.
FastPathOnly ==
    [failFast |-> FALSE, fastPath |-> TRUE, keys |-> {k1},
     sweepers |-> {s1}, relays |-> {},
     retries |-> 0, crashes |-> 0, time |-> 0]

AllScenarios == {Reports, TwoSweepers, Crashes}
OnlyFastPath == {FastPathOnly}

=============================================================================
