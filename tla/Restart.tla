------------------------------ MODULE Restart ------------------------------
(***************************************************************************)
(* A dispatcher with a store whose process may end at any moment, by a     *)
(* crash or after Shutdown, and is started again: Restore (dispatcher.go)  *)
(* runs on a new Dispatcher before anything is submitted to it, beside its *)
(* workers and its delay loop.                                             *)
(*                                                                         *)
(* A crash forgets every variable of the dispatcher but the rows.  Each    *)
(* step of Dispatcher writes the store at most once, so a crash between    *)
(* two writes is a crash between two steps.                                *)
(***************************************************************************)
EXTENDS Dispatcher

CONSTANTS
  MayOrphan,    \* jobs for whose name the next program may have no handler
  RestoreCtx,   \* the ctx of Restore may end
  MaxCrashes

ASSUME RestartAssumption ==
  /\ HasStore
  /\ MayOrphan \subseteq Jobs
  /\ RestoreCtx \in BOOLEAN
  /\ MaxCrashes \in Nat

VARIABLES
  rs,       \* Restore: where it is; "off" when it has returned (or never ran)
  todo,     \* [Jobs -> Attempt of the row List returned, or NoRow], not yet done
  rjob,     \* the job Restore is queueing
  crashes,
  ended,    \* jobs with an attempt that returned, drained or orphaned (history)
  cut       \* [Jobs -> crashes that hit an attempt] (history)

restoreVars == <<rs, todo, rjob>>
historyVars == <<crashes, ended, cut>>
allVars == <<vars, restoreVars, historyVars>>

NoRows == [j \in Jobs |-> NoRow]

RInit ==
  /\ Init
  /\ rs = "off"
  /\ todo = NoRows
  /\ rjob = NoJob
  /\ crashes = 0
  /\ ended = {}
  /\ cut = [j \in Jobs |-> 0]

\* A worker is in the handler of j, or has yet to clean up after it.
Attempting(j) == \E w \in Workers :
  wjob[w] = j /\ wpc[w] \in {"run", "succeed", "fail", "retry", "release", "erase"}

-----------------------------------------------------------------------------
\* Mutations: wrong versions of the actions below, one plausible bug each,
\* that the properties at the end of the module must tell from the code.
RestoreOrphanReturn(j) ==        \* return for continue: the rest is forgotten
  /\ rs = "next"
  /\ todo[j] # NoRow
  /\ j \in MayOrphan
  /\ Erase(j)
  /\ todo' = NoRows
  /\ ended' = ended \cup {j}
  /\ UNCHANGED <<submitVars, queueVars, workerVars, delayVars, cancelVars,
                 shutdownVars, table, rs, rjob, crashes, cut>>

RestoreTakeNoName(j) ==          \* addInFlightForRestore is missing
  /\ rs = "next"
  /\ todo[j] # NoRow
  /\ rs' = "place"
  /\ rjob' = j
  /\ todo' = [todo EXCEPT ![j] = NoRow]
  /\ attempt' = [attempt EXCEPT ![j] = todo[j]]
  /\ UNCHANGED <<submitVars, ready, heap, workerVars, delayVars, cancelVars,
                 shutdownVars, row, table, historyVars>>

RestoreTakeAnew(j) ==            \* the entry starts at Attempt 0 again
  /\ rs = "next"
  /\ todo[j] # NoRow
  /\ rs' = "place"
  /\ rjob' = j
  /\ todo' = [todo EXCEPT ![j] = NoRow]
  /\ inFlight' = IF Policy = "allow" THEN inFlight ELSE inFlight \cup {j}
  /\ attempt' = [attempt EXCEPT ![j] = 0]
  /\ UNCHANGED <<spc, ready, heap, workerVars, delayVars, cancelVars,
                 shutdownVars, row, table, historyVars>>

RestoreLaterTwice ==             \* the else is missing: delayed and queued
  /\ rs = "place"
  /\ rjob \in Later \/ attempt[rjob] > 0
  /\ Len(ready) < QueueCap
  /\ heap' = heap \cup {rjob}
  /\ ready' = Append(ready, rjob)
  /\ rs' = "delayed"
  /\ UNCHANGED <<submitVars, attempt, workerVars, delayVars, cancelVars,
                 shutdownVars, row, table, todo, rjob, historyVars>>

RestoreMarkReturn ==             \* return restored, nil inside the loop
  /\ rs \in {"delayed", "queued"}
  /\ MarkStatus(rjob, rs)
  /\ rs' = "off"
  /\ rjob' = NoJob
  /\ UNCHANGED <<submitVars, queueVars, workerVars, delayVars, cancelVars,
                 shutdownVars, row, todo, historyVars>>

-----------------------------------------------------------------------------
\* The program runs.  Nobody submits to a dispatcher while Restore is at work,
\* or after it has failed.
Run ==
  /\ Next
  /\ rs = "off" \/ spc' = spc
  /\ ended' = ended
       \cup {wjob[w] : w \in {v \in Workers : wpc[v] = "run" /\ wpc'[v] # "run"}}
       \cup (IF dpc = "drain" THEN heap \ heap' ELSE {})
  /\ UNCHANGED <<restoreVars, crashes, cut>>

\* The process ends and a new one has called NewDispatcher, Handle and Restore.
\* Submit calls that had not returned are lost: their callers are gone too.
Crash ==
  /\ crashes < MaxCrashes
  /\ crashes' = crashes + 1
  /\ cut' = [j \in Jobs |-> IF Attempting(j) THEN cut[j] + 1 ELSE cut[j]]
  /\ spc' = [j \in Jobs |-> IF spc[j] \in {"idle", "accepted"} \cup Refusals
                            THEN spc[j] ELSE "lost"]
  /\ inFlight' = {}
  /\ ready' = <<>>
  /\ heap' = {}
  /\ attempt' = [j \in Jobs |-> 0]
  /\ status' = [j \in Jobs |-> "unknown"]
  /\ statusOrder' = <<>>
  /\ cancelled' = {}
  /\ executing' = [j \in Jobs |-> NoJob]
  /\ ctxDone' = {}
  /\ wpc' = [w \in Workers |-> "pop"]
  /\ wjob' = [w \in Workers |-> NoJob]
  /\ dpc' = "wait"
  /\ djob' = NoJob
  /\ victims' = [a \in Agents |-> {}]
  /\ cpc' = [a \in Agents |-> "heap"]
  /\ cjob' = [a \in Agents |-> NoJob]
  /\ sh' = "idle"
  /\ rs' = "list"
  /\ todo' = NoRows
  /\ rjob' = NoJob
  /\ UNCHANGED <<row, asked, starts, late, early, ended>>

-----------------------------------------------------------------------------
\* Restore: read the rows, then queue one job after the other.
RestoreList ==
  /\ rs = "list"
  /\ rs' = "next"
  /\ todo' = row
  /\ UNCHANGED <<vars, rjob, historyVars>>

RestoreOrphan(j) ==
  /\ rs = "next"
  /\ todo[j] # NoRow
  /\ j \in MayOrphan
  /\ Erase(j)
  /\ todo' = [todo EXCEPT ![j] = NoRow]
  /\ ended' = ended \cup {j}
  /\ UNCHANGED <<submitVars, queueVars, workerVars, delayVars, cancelVars,
                 shutdownVars, table, rs, rjob, crashes, cut>>

RestoreTake(j) ==
  /\ rs = "next"
  /\ todo[j] # NoRow
  /\ rs' = "place"
  /\ rjob' = j
  /\ todo' = [todo EXCEPT ![j] = NoRow]
  /\ inFlight' = IF Policy = "allow" THEN inFlight ELSE inFlight \cup {j}
  /\ attempt' = [attempt EXCEPT ![j] = todo[j]]
  /\ UNCHANGED <<spc, ready, heap, workerVars, delayVars, cancelVars,
                 shutdownVars, row, table, historyVars>>

\* RunAt of a delayed job, or of a retry, may still lie ahead or have passed.
RestoreLater ==
  /\ rs = "place"
  /\ rjob \in Later \/ attempt[rjob] > 0
  /\ heap' = heap \cup {rjob}
  /\ rs' = "delayed"
  /\ UNCHANGED <<submitVars, ready, attempt, workerVars, delayVars, cancelVars,
                 shutdownVars, row, table, todo, rjob, historyVars>>

RestoreNow ==
  /\ rs = "place"
  /\ Len(ready) < QueueCap
  /\ ready' = Append(ready, rjob)
  /\ rs' = "queued"
  /\ UNCHANGED <<submitVars, heap, attempt, workerVars, delayVars, cancelVars,
                 shutdownVars, row, table, todo, rjob, historyVars>>

\* The push, which waits for space, fails when the queue is closed or the ctx
\* ends; so may List.  The rows that are left stay for the next process.
RestoreFail ==
  /\ \/ rs = "list"
     \/ rs = "place" /\ Len(ready) >= QueueCap /\ (Closed \/ RestoreCtx)
  /\ rs' = "failed"
  /\ UNCHANGED <<vars, todo, rjob, historyVars>>

RestoreMark ==
  /\ rs \in {"delayed", "queued"}
  /\ MarkStatus(rjob, rs)
  /\ rs' = "next"
  /\ rjob' = NoJob
  /\ UNCHANGED <<submitVars, queueVars, workerVars, delayVars, cancelVars,
                 shutdownVars, row, todo, historyVars>>

RestoreDone ==
  /\ rs = "next"
  /\ todo = NoRows
  /\ rs' = "off"
  /\ UNCHANGED <<vars, todo, rjob, historyVars>>

RestoreStep ==
  \/ RestoreList
  \/ \E j \in Jobs : RestoreOrphan(j) \/ RestoreTake(j)
  \/ RestoreLater
  \/ RestoreNow
  \/ RestoreFail
  \/ RestoreMark
  \/ RestoreDone

RNext == Run \/ Crash \/ RestoreStep

RSpec == RInit /\ [][RNext]_allVars

-----------------------------------------------------------------------------
\* Restore has yet to queue the job (or cannot: it has failed).
Pending(j) == todo[j] # NoRow \/ (rjob = j /\ rs \in {"place", "failed"})

\* A restart keeps the types of the dispatcher, and every variable Restore adds
\* has its type.  Restore holds a job while it queues that job, and returns
\* without an error only when it has seen to every row that List returned.
RTypeOK ==
  /\ TypeOK
  /\ rs \in {"off", "list", "next", "place", "delayed", "queued", "failed"}
  /\ todo \in [Jobs -> Nat \cup {NoRow}]
  /\ todo # NoRows => rs \notin {"off", "list"}
  /\ rjob \in Jobs \cup {NoJob}
  /\ rs \in {"place", "delayed", "queued"} => rjob # NoJob
  /\ rs \in {"off", "list", "next"} => rjob = NoJob
  /\ crashes \in 0 .. MaxCrashes
  /\ ended \subseteq Jobs
  /\ cut \in [Jobs -> 0 .. crashes]

\* What Submit has accepted and nobody has cancelled is not lost, however often
\* the process ends: until an attempt of the job has returned it has a row, and it
\* is either queued, delayed or running, or Restore is about to see to it ("what
\* was executed was stored first", CHANGELOG v0.5.0).  A closed dispatcher may
\* lose sight of it, but does not delete its row, except for delayed jobs, which
\* it drops.
NothingLost ==
  \A j \in Jobs :
    spc[j] = "accepted" /\ j \notin ended \cup asked =>
      /\ row[j] # NoRow
      /\ Live(j) \/ Pending(j) \/ Closed \/ rs \in {"list", "failed"}

\* Restore does not queue what is queued: after any number of restarts a job is
\* in one place, counting the snapshot Restore works through.
SingleCopy ==
  \A j \in Jobs :
    Cardinality(Places(j)) + (IF Pending(j) THEN 1 ELSE 0) <= 1

\* The in-flight sets are rebuilt: as before the restart, no job of the same name
\* is admitted beside a job that waits for, or is in, its first attempt, unless
\* that job is being cancelled.
NameHeld ==
  Policy # "allow" =>
    \A j \in Jobs : Live(j) /\ attempt[j] = 0 => Displaced(j) \/ j \in inFlight

\* A handler runs again only for a reason: a retry, or a crash that came before
\* the attempt was cleaned up.  Restore gives no attempts away.
AttemptsBounded == \A j \in Jobs : starts[j] <= MaxRetries[j] + 1 + cut[j]
=============================================================================
