------------------------------ MODULE MCRestart ------------------------------
(***************************************************************************)
(* Two jobs of one name under ConflictSkip: a is immediate and retries     *)
(* once; b is delayed, and the program that starts after a crash may have  *)
(* no handler for it.  With a queue of one, Restore waits for the worker;  *)
(* the second crash may hit Restore itself.                                *)
(***************************************************************************)
EXTENDS Restart

CONSTANTS a, b, w1, client, none

MCJobs == {a, b}
MCWorkers == {w1}
MCSameName == [j \in Jobs |-> "n"]
MCRetryA == [j \in Jobs |-> IF j = a THEN 1 ELSE 0]
MCNone == {}
MCOnlyB == {b}
=============================================================================
