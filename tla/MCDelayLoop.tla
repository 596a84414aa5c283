---------------------------- MODULE MCDelayLoop ----------------------------
(***************************************************************************)
(* DelayLoop with two jobs: one can be pushed in front of the other, or    *)
(* cancelled, while the loop is on its way to sleep.                       *)
(***************************************************************************)
EXTENDS DelayLoop

CONSTANTS a, b

MCJobs == {a, b}
MCDelays == {1, 2}
MCOnlyA == {a}
=============================================================================
