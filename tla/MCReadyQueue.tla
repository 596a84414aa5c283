---------------------------- MODULE MCReadyQueue ----------------------------
(***************************************************************************)
(* ReadyQueue with three pushes, two workers and a queue of one place:     *)
(* enough for a push and a worker to sleep on notify together, which is    *)
(* where wake-ups meet, and for an entry to be pushed after close.         *)
(* Temporal properties are checked, so no symmetry is used.                *)
(***************************************************************************)
EXTENDS ReadyQueue

CONSTANTS e1, e2, e3, w1, w2, main

MCEntries == {e1, e2, e3}
MCWorkers == {w1, w2}

\* QueueFullBlock: nobody drops.  QueueFullDrop: two submissions drop, and the
\* third push is one that waits all the same, of the delay loop or of Restore.
MCSubmitted == {e1, e2}

\* One caller's ctx may end (for Restore it may), two ids may be cancelled.
MCNone == {}
MCSomeCtx == {e3}
MCSomeIds == {e1, e2}
=============================================================================
