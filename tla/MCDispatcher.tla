---------------------------- MODULE MCDispatcher ----------------------------
(***************************************************************************)
(* Instances of Dispatcher.  Jobs a, b and c; a and b share a task name    *)
(* wherever the conflict policy matters.                                   *)
(***************************************************************************)
EXTENDS Dispatcher

CONSTANTS a, b, c, w1, w2, client, none

MCOne == {a}
MCPair == {a, b}
MCTriple == {a, b, c}
MCWorkers == {w1, w2}
MCOneWorker == {w1}

MCSameName == [j \in Jobs |-> "n"]

\* Only a retries, once.
MCRetryA == [j \in Jobs |-> IF j = a THEN 1 ELSE 0]
MCNoRetry == [j \in Jobs |-> 0]

MCNone == {}
MCOnlyA == {a}
MCOnlyB == {b}
MCOnlyC == {c}

\* Workers are interchangeable; used where only invariants are checked.
MCSymmetry == Permutations(MCWorkers)
=============================================================================
