---------------------------- MODULE MCScheduler ----------------------------
(***************************************************************************)
(* An instance of Scheduler: a cron entry and a one-shot, one Stop call    *)
(* and two Shutdown calls, one of which has a ctx that may end.            *)
(***************************************************************************)
EXTENDS Scheduler

CONSTANTS cron, once, s1, d1, d2, none

MCEntries == {cron, once}
MCKind == [e \in Entries |-> IF e = cron THEN "cron" ELSE "once"]
MCNoSolution == {cron}
MCStoppers == {s1}
MCClosers == {d1, d2}
MCImpatient == {d2}
=============================================================================
