------------------------------ MODULE MCWorker ------------------------------
(***************************************************************************)
(* Instances of Worker for TLC.                                            *)
(***************************************************************************)
EXTENDS Worker, TLC

CONSTANT s1

PoolSymmetry == Permutations(Workers) \cup Permutations(Slots)

\* Two takers that may come to run one job twice at a time.
Pair(isRemote) ==
    [remote |-> isRemote, slots |-> Slots, claims |-> 2, faults |-> 0]

\* One taker on the in-memory driver, with room for every retry and stall.
Single ==
    [remote |-> FALSE, slots |-> {s1}, claims |-> MaxTokens, faults |-> 1]

Pools == {Pair(TRUE), Single}
LocalPair == {Pair(FALSE)}

=============================================================================
