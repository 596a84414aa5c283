----------------------------- MODULE Dispatcher -----------------------------
(***************************************************************************)
(* The dispatcher of internal/core (dispatcher.go, worker.go): concurrent  *)
(* Submit calls, the worker pool, the delay loop, cancellation (by a       *)
(* client or by ConflictReplace) and Shutdown.                             *)
(*                                                                         *)
(* A step is one critical section, one operation on a sync.Map, a channel  *)
(* or the store, or several of them in a row when nobody can tell the      *)
(* states in between apart.  The ready queue is used through what          *)
(* ReadyQueue shows it to implement (BoundedQueue).  Time is abstracted:   *)
(* any delayed job may be the next one due.                                *)
(***************************************************************************)
EXTENDS Integers, SequencesExt

CONSTANTS
  Jobs,          \* one Submit call each; also the job's ID
  NameOf,        \* [Jobs -> names]: the task name
  Workers,
  Client,        \* the goroutine that calls Cancel
  NoJob,
  Policy,        \* conflict policy: "skip", "replace" or "allow"
  QueueCap,      \* queueSize
  DropWhenFull,  \* queuePolicy = QueueFullDrop
  MaxRetries,    \* [Jobs -> Nat]
  HasStore,      \* a Store is configured
  StoreFails,    \* jobs whose first Save fails
  Later,         \* jobs submitted with a RunAt in the future
  Impatient,     \* jobs whose Submit has a ctx that may end
  Cancellable,   \* jobs the client may cancel
  MayTimeOut,    \* the ctx of Shutdown may end
  MaxStatus      \* maxStatusCount

ASSUME DispatcherAssumption ==
  /\ Policy \in {"skip", "replace", "allow"}
  /\ QueueCap \in Nat \ {0}
  /\ DropWhenFull \in BOOLEAN
  /\ HasStore \in BOOLEAN
  /\ MayTimeOut \in BOOLEAN
  /\ MaxRetries \in [Jobs -> Nat]
  /\ StoreFails \subseteq Jobs
  /\ Later \subseteq Jobs
  /\ Impatient \subseteq Jobs
  /\ Cancellable \subseteq Jobs
  /\ NoJob \notin Jobs
  /\ MaxStatus \in Nat \ {0}
  /\ Client \notin Jobs

VARIABLES
  spc,        \* [Jobs -> where the Submit call is, or its result; "lost" when
              \* its process has ended (Restart)]
  inFlight,   \* jobs in the inFlight sets (each under its own name)
  ready,      \* items of the ready queue, as job IDs
  heap,       \* jobs in delayHeap
  attempt,    \* Attempt of a job's newest entry
  row,        \* [Jobs -> Attempt of the stored row, or NoRow]
  status,     \* the status table: [Jobs -> status, or "unknown"]
  statusOrder, \* ... and its list of ids, oldest first
  cancelled,  \* the cancelled set
  executing,  \* [Jobs -> worker whose cancel func is registered, or NoJob]
  ctxDone,    \* workers whose current handler context is cancelled
  wpc, wjob,  \* each worker: where in runEntry, and with which job
  dpc, djob,  \* the delay loop, likewise
  victims,    \* [Agents -> jobs this agent still has to cancel]
  cpc, cjob,  \* each agent in cancelByIDLocked, likewise
  asked,      \* jobs the client has cancelled (history; one Cancel each)
  sh,         \* Shutdown
  starts,     \* [Jobs -> handler invocations] (history)
  late,       \* [Jobs -> those that began after Cancel returned] (history)
  early       \* jobs whose Submit returned before Shutdown (history)

submitVars == <<spc, inFlight>>
queueVars == <<ready, heap, attempt>>
workerVars == <<wpc, wjob, executing, ctxDone, starts, late>>
delayVars == <<dpc, djob>>
cancelVars == <<cancelled, victims, cpc, cjob, asked>>
shutdownVars == <<sh, early>>

table == <<status, statusOrder>>

vars == <<submitVars, queueVars, workerVars, delayVars, cancelVars,
          shutdownVars, row, table>>

Agents == Jobs \cup {Client}
NoRow == -1
Refusals == {"skipped", "shutdown", "storeError", "full", "ctx"}

\* markStatus and what it guarantees are defined in a module of their own.
Table == INSTANCE StatusTable WITH
  Ids <- Jobs, MaxStatusCount <- MaxStatus, statuses <- status

\* running; stopCh and the ready queue are closed together by Shutdown.
Running == sh = "idle"
Closed == sh \in {"waiting", "done", "timeout"}

Init ==
  /\ spc = [j \in Jobs |-> "idle"]
  /\ inFlight = {}
  /\ ready = <<>>
  /\ heap = {}
  /\ attempt = [j \in Jobs |-> 0]
  /\ row = [j \in Jobs |-> NoRow]
  /\ Table!Init
  /\ cancelled = {}
  /\ executing = [j \in Jobs |-> NoJob]
  /\ ctxDone = {}
  /\ wpc = [w \in Workers |-> "pop"]
  /\ wjob = [w \in Workers |-> NoJob]
  /\ dpc = "wait"
  /\ djob = NoJob
  /\ victims = [a \in Agents |-> {}]
  /\ cpc = [a \in Agents |-> "heap"]
  /\ cjob = [a \in Agents |-> NoJob]
  /\ asked = {}
  /\ sh = "idle"
  /\ starts = [j \in Jobs |-> 0]
  /\ late = [j \in Jobs |-> 0]
  /\ early = {}

-----------------------------------------------------------------------------
\* Helpers shared by the operations.
SubmitAt(j, l) == spc' = [spc EXCEPT ![j] = l]
WorkerAt(w, l) == wpc' = [wpc EXCEPT ![w] = l]
MarkStatus(j, s) == Table!Mark(j, s)

\* releaseInFlight does nothing under ConflictAllow, nor here: the set is empty.
Release(j) == inFlight' = inFlight \ {j}

Save(j, n) == row' = IF HasStore THEN [row EXCEPT ![j] = n] ELSE row
Erase(j) == row' = [row EXCEPT ![j] = NoRow]

\* Some agent has chosen to cancel j and has not finished.
BeingCancelled(j) == \E a \in Agents : j \in victims[a]

\* Jobs in flight under the name of j.
Rivals(j) == {k \in inFlight : NameOf[k] = NameOf[j]}

-----------------------------------------------------------------------------
\* Mutations: wrong versions of the actions below, one plausible bug each,
\* that the properties at the end of the module must tell from the code.
SubmitAdmitNoCancel(j) ==        \* Replace takes the name, cancels nobody
  /\ spc[j] = "idle"
  /\ Policy = "skip" => Rivals(j) = {}
  /\ inFlight' = (inFlight \ Rivals(j)) \cup {j}
  /\ SubmitAt(j, "gate")
  /\ UNCHANGED <<queueVars, workerVars, delayVars, cancelVars, shutdownVars,
                 row, table>>

SubmitFullNoRelease(j) ==        \* the rollback forgets releaseJob
  /\ spc[j] \in {"place", "blocked"}
  /\ j \notin Later
  /\ Len(ready) >= QueueCap
  /\ DropWhenFull \/ Closed
  /\ SubmitAt(j, IF DropWhenFull THEN "full" ELSE "shutdown")
  /\ Erase(j)
  /\ UNCHANGED <<inFlight, queueVars, workerVars, delayVars, cancelVars,
                 shutdownVars, table>>

SubmitFullOpen(j) ==             \* a full push does not look at closed
  /\ spc[j] \in {"place", "blocked"}
  /\ j \notin Later
  /\ Len(ready) >= QueueCap
  /\ DropWhenFull
  /\ SubmitAt(j, "full")
  /\ Erase(j)
  /\ Release(j)
  /\ UNCHANGED <<queueVars, workerVars, delayVars, cancelVars, shutdownVars,
                 table>>

DelayTakePeek ==                 \* the due entry is read, not popped
  /\ dpc = "wait"
  /\ \E j \in heap : djob' = j
  /\ dpc' = "check"
  /\ UNCHANGED <<submitVars, queueVars, workerVars, cancelVars, shutdownVars,
                 row, table>>

WorkerExitNil(w) ==              \* the ok of pop is not looked at
  /\ wpc[w] = "pop"
  /\ ready = <<>>
  /\ Closed
  /\ WorkerAt(w, "check")
  /\ UNCHANGED <<submitVars, queueVars, wjob, executing, ctxDone, starts, late,
                 delayVars, cancelVars, shutdownVars, row, table>>

WorkerExitEarly(w) ==            \* a closed queue is not drained
  /\ wpc[w] = "pop"
  /\ Closed
  /\ WorkerAt(w, "exited")
  /\ UNCHANGED <<submitVars, queueVars, wjob, executing, ctxDone, starts, late,
                 delayVars, cancelVars, shutdownVars, row, table>>

WorkerExitAfterHeap(w) ==        \* workers outlive the delayed jobs
  /\ wpc[w] = "pop"
  /\ ready = <<>>
  /\ heap = {}
  /\ Closed
  /\ WorkerAt(w, "exited")
  /\ UNCHANGED <<submitVars, queueVars, wjob, executing, ctxDone, starts, late,
                 delayVars, cancelVars, shutdownVars, row, table>>

WorkerStartRelease(w) ==         \* the name is freed when the handler begins
  /\ wpc[w] = "register"
  /\ executing' = [executing EXCEPT ![wjob[w]] = w]
  /\ starts' = [starts EXCEPT ![wjob[w]] = @ + 1]
  /\ Release(wjob[w])
  /\ WorkerAt(w, "run")
  /\ UNCHANGED <<spc, queueVars, wjob, ctxDone, late, delayVars, cancelVars,
                 shutdownVars, row, table>>

WorkerReturnOffByOne(w) ==       \* <= for < in the retry test
  /\ wpc[w] = "run"
  /\ LET j == wjob[w] IN
     \/ /\ j \in cancelled
        /\ MarkStatus(j, "cancelled")
        /\ WorkerAt(w, "release")
     \/ /\ j \notin cancelled
        /\ \/ WorkerAt(w, "succeed")
           \/ attempt[j] <= MaxRetries[j] /\ WorkerAt(w, "retry")
        /\ UNCHANGED table
  /\ UNCHANGED <<submitVars, queueVars, wjob, executing, ctxDone, starts, late,
                 delayVars, cancelVars, shutdownVars, row>>

WorkerRetryNoReturn(w) ==        \* falls through to markStatus(Failed)
  /\ wpc[w] = "retry"
  /\ LET j == wjob[w] IN
     /\ Save(j, attempt[j] + 1)
     /\ attempt' = [attempt EXCEPT ![j] = @ + 1]
     /\ heap' = heap \cup {j}
  /\ WorkerAt(w, "fail")
  /\ UNCHANGED <<submitVars, ready, wjob, executing, ctxDone, starts, late,
                 delayVars, cancelVars, shutdownVars, table>>

WorkerReleaseKeepName(w) ==      \* the deferred function forgets releaseJob
  /\ wpc[w] = "release"
  /\ executing' = [executing EXCEPT ![wjob[w]] = NoJob]
  /\ WorkerAt(w, "erase")
  /\ UNCHANGED <<submitVars, queueVars, wjob, ctxDone, starts, late, delayVars,
                 cancelVars, shutdownVars, row, table>>

WorkerEraseKeepRow(w) ==         \* ... or store.Delete
  /\ wpc[w] = "erase"
  /\ WorkerAt(w, "pop")
  /\ wjob' = [wjob EXCEPT ![w] = NoJob]
  /\ UNCHANGED <<submitVars, queueVars, executing, ctxDone, starts, late,
                 delayVars, cancelVars, shutdownVars, row, table>>

CancelQueueNoMark(a) ==          \* cancelled.Store is missing
  /\ cpc[a] = "queue"
  /\ LET j == cjob[a] IN
     /\ \/ \E i \in DOMAIN ready : ready[i] = j /\ ready' = RemoveAt(ready, i)
        \/ j \notin ToSet(ready) /\ UNCHANGED ready
     /\ Release(j)
  /\ cpc' = [cpc EXCEPT ![a] = "erase"]
  /\ UNCHANGED <<spc, heap, attempt, workerVars, delayVars, cancelled, victims,
                 cjob, asked, shutdownVars, row, table>>

-----------------------------------------------------------------------------
\* SubmitWithOptions(j).  applyConflict is one critical section of inFlightMu;
\* the jobs it displaces are cancelled by this goroutine afterwards.
SubmitSkip(j) ==
  /\ spc[j] = "idle"
  /\ Policy = "skip"
  /\ Rivals(j) # {}
  /\ SubmitAt(j, "skipped")
  /\ UNCHANGED <<inFlight, queueVars, workerVars, delayVars, cancelVars,
                 shutdownVars, row, table>>

SubmitAdmit(j) ==
  /\ spc[j] = "idle"
  /\ Policy = "skip" => Rivals(j) = {}
  /\ inFlight' = IF Policy = "allow" THEN inFlight
                 ELSE (inFlight \ Rivals(j)) \cup {j}
  /\ victims' = [victims EXCEPT ![j] = Rivals(j)]
  /\ SubmitAt(j, "gate")
  /\ UNCHANGED <<queueVars, workerVars, delayVars, cancelled, cpc, cjob, asked,
                 shutdownVars, row, table>>

SubmitGate(j) ==
  /\ spc[j] = "gate"
  /\ victims[j] = {}
  /\ \/ Running /\ SubmitAt(j, "persist") /\ UNCHANGED inFlight
     \/ ~Running /\ SubmitAt(j, "shutdown") /\ Release(j)
  /\ UNCHANGED <<queueVars, workerVars, delayVars, cancelVars, shutdownVars,
                 row, table>>

SubmitPersist(j) ==
  /\ spc[j] = "persist"
  /\ \/ /\ HasStore /\ j \in StoreFails
        /\ SubmitAt(j, "storeError")
        /\ Release(j)
        /\ UNCHANGED row
     \/ /\ ~(HasStore /\ j \in StoreFails)
        /\ SubmitAt(j, "place")
        /\ Save(j, 0)
        /\ UNCHANGED inFlight
  /\ UNCHANGED <<queueVars, workerVars, delayVars, cancelVars, shutdownVars,
                 table>>

SubmitDelayed(j) ==
  /\ spc[j] = "place"
  /\ j \in Later
  /\ heap' = heap \cup {j}
  /\ SubmitAt(j, "mark")
  /\ UNCHANGED <<inFlight, ready, attempt, workerVars, delayVars, cancelVars,
                 shutdownVars, row, table>>

\* enqueueReady: append, wait for space, or fail and roll back.
SubmitReady(j) ==
  /\ spc[j] \in {"place", "blocked"}
  /\ j \notin Later
  /\ Len(ready) < QueueCap
  /\ ready' = Append(ready, j)
  /\ SubmitAt(j, "mark")
  /\ UNCHANGED <<inFlight, heap, attempt, workerVars, delayVars, cancelVars,
                 shutdownVars, row, table>>

SubmitBlock(j) ==
  /\ spc[j] = "place"
  /\ j \notin Later
  /\ Len(ready) >= QueueCap
  /\ ~DropWhenFull
  /\ ~Closed
  /\ SubmitAt(j, "blocked")
  /\ UNCHANGED <<inFlight, queueVars, workerVars, delayVars, cancelVars,
                 shutdownVars, row, table>>

SubmitFull(j) ==
  /\ spc[j] \in {"place", "blocked"}
  /\ j \notin Later
  /\ Len(ready) >= QueueCap
  /\ DropWhenFull \/ Closed
  /\ SubmitAt(j, IF DropWhenFull THEN "full" ELSE "shutdown")
  /\ Erase(j)
  /\ Release(j)
  /\ UNCHANGED <<queueVars, workerVars, delayVars, cancelVars, shutdownVars,
                 table>>

\* The ctx of a blocked Submit ends.  The rollback calls Delete with that same
\* ctx: a store that honours it may leave the row.
SubmitCtx(j) ==
  /\ spc[j] = "blocked"
  /\ j \in Impatient
  /\ SubmitAt(j, "ctx")
  /\ Erase(j) \/ UNCHANGED row
  /\ Release(j)
  /\ UNCHANGED <<queueVars, workerVars, delayVars, cancelVars, shutdownVars,
                 table>>

SubmitMark(j) ==
  /\ spc[j] = "mark"
  /\ MarkStatus(j, IF j \in Later THEN "delayed" ELSE "queued")
  /\ SubmitAt(j, "accepted")
  /\ UNCHANGED <<inFlight, queueVars, workerVars, delayVars, cancelVars,
                 shutdownVars, row>>

\* The steps of a Submit call once made; SubmitCtx is its caller's doing.
SubmitStep(j) ==
  \/ SubmitGate(j)
  \/ SubmitPersist(j)
  \/ SubmitDelayed(j)
  \/ SubmitReady(j)
  \/ SubmitBlock(j)
  \/ SubmitFull(j)
  \/ SubmitMark(j)

-----------------------------------------------------------------------------
\* delayLoop, popDue and drainDelayed.  The loop takes a due job out of the
\* heap, checks the cancelled set and pushes it with QueueFullBlock semantics;
\* an error of that push (queue full and closed) is ignored.
DelayTake ==
  /\ dpc = "wait"
  /\ \E j \in heap : djob' = j /\ heap' = heap \ {j}
  /\ dpc' = "check"
  /\ UNCHANGED <<submitVars, ready, attempt, workerVars, cancelVars,
                 shutdownVars, row, table>>

DelayCheck ==
  /\ dpc = "check"
  /\ \/ /\ djob \in cancelled
        /\ MarkStatus(djob, "cancelled")
        /\ Release(djob)
        /\ dpc' = "wait"
        /\ djob' = NoJob
     \/ /\ djob \notin cancelled
        /\ dpc' = "push"
        /\ UNCHANGED <<table, inFlight, djob>>
  /\ UNCHANGED <<spc, queueVars, workerVars, cancelVars, shutdownVars, row>>

DelayPush ==
  /\ dpc = "push"
  /\ \/ Len(ready) < QueueCap /\ ready' = Append(ready, djob)
     \/ Len(ready) >= QueueCap /\ Closed /\ UNCHANGED ready
  /\ dpc' = "mark"
  /\ UNCHANGED <<submitVars, heap, attempt, workerVars, djob, cancelVars,
                 shutdownVars, row, table>>

DelayMark ==
  /\ dpc = "mark"
  /\ MarkStatus(djob, "queued")
  /\ dpc' = "wait"
  /\ djob' = NoJob
  /\ UNCHANGED <<submitVars, queueVars, workerVars, cancelVars, shutdownVars,
                 row>>

DelayStop ==
  /\ dpc = "wait"
  /\ Closed
  /\ dpc' = "drain"
  /\ UNCHANGED <<submitVars, queueVars, workerVars, djob, cancelVars,
                 shutdownVars, row, table>>

DelayDrain ==
  /\ dpc = "drain"
  /\ \E j \in heap :
       /\ heap' = heap \ {j}
       /\ Erase(j)
       /\ MarkStatus(j, "cancelled")
       /\ Release(j)
  /\ UNCHANGED <<spc, ready, attempt, workerVars, delayVars, cancelVars,
                 shutdownVars>>

DelayExit ==
  /\ dpc = "drain"
  /\ heap = {}
  /\ dpc' = "exited"
  /\ UNCHANGED <<submitVars, queueVars, workerVars, djob, cancelVars,
                 shutdownVars, row, table>>

DelayStep == DelayTake \/ DelayCheck \/ DelayPush \/ DelayMark \/ DelayStop
             \/ DelayDrain \/ DelayExit

-----------------------------------------------------------------------------
\* worker and runEntry.
WorkerPop(w) ==
  /\ wpc[w] = "pop"
  /\ ready # <<>>
  /\ ready' = Tail(ready)
  /\ wjob' = [wjob EXCEPT ![w] = Head(ready)]
  /\ WorkerAt(w, "check")
  /\ UNCHANGED <<submitVars, heap, attempt, executing, ctxDone, starts, late,
                 delayVars, cancelVars, shutdownVars, row, table>>

WorkerExit(w) ==
  /\ wpc[w] = "pop"
  /\ ready = <<>>
  /\ Closed
  /\ WorkerAt(w, "exited")
  /\ UNCHANGED <<submitVars, queueVars, wjob, executing, ctxDone, starts, late,
                 delayVars, cancelVars, shutdownVars, row, table>>

WorkerCheck(w) ==
  /\ wpc[w] = "check"
  /\ LET j == wjob[w] IN
     \/ /\ j \in cancelled
        /\ MarkStatus(j, "cancelled")
        /\ Release(j)
        /\ WorkerAt(w, "pop")
        /\ wjob' = [wjob EXCEPT ![w] = NoJob]
     \/ /\ j \notin cancelled
        /\ MarkStatus(j, "running")
        /\ WorkerAt(w, "register")
        /\ UNCHANGED <<inFlight, wjob>>
  /\ UNCHANGED <<spc, queueVars, executing, ctxDone, starts, late, delayVars,
                 cancelVars, shutdownVars, row>>

\* executing.Store, then the handler begins under a fresh context.
WorkerStart(w) ==
  /\ wpc[w] = "register"
  /\ LET j == wjob[w] IN
     /\ executing' = [executing EXCEPT ![j] = w]
     /\ starts' = [starts EXCEPT ![j] = @ + 1]
     /\ late' = [late EXCEPT ![j] =
                   IF j \in asked /\ ~BeingCancelled(j) THEN @ + 1 ELSE @]
  /\ ctxDone' = ctxDone \ {w}
  /\ WorkerAt(w, "run")
  /\ UNCHANGED <<submitVars, queueVars, wjob, delayVars, cancelVars,
                 shutdownVars, row, table>>

\* The handler returns (or panics) and the cancelled set is read again.
WorkerReturn(w) ==
  /\ wpc[w] = "run"
  /\ LET j == wjob[w] IN
     \/ /\ j \in cancelled
        /\ MarkStatus(j, "cancelled")
        /\ WorkerAt(w, "release")
     \/ /\ j \notin cancelled
        /\ \/ WorkerAt(w, "succeed")
           \/ attempt[j] < MaxRetries[j] /\ WorkerAt(w, "retry")
           \/ attempt[j] >= MaxRetries[j] /\ WorkerAt(w, "fail")
        /\ UNCHANGED table
  /\ UNCHANGED <<submitVars, queueVars, wjob, executing, ctxDone, starts, late,
                 delayVars, cancelVars, shutdownVars, row>>

WorkerMark(w) ==
  /\ \/ wpc[w] = "succeed" /\ MarkStatus(wjob[w], "succeeded")
     \/ wpc[w] = "fail" /\ MarkStatus(wjob[w], "failed")
     \/ wpc[w] = "retried" /\ MarkStatus(wjob[w], "delayed")
  /\ WorkerAt(w, "release")
  /\ UNCHANGED <<submitVars, queueVars, wjob, executing, ctxDone, starts, late,
                 delayVars, cancelVars, shutdownVars, row>>

\* scheduleRetry up to pushDelayed: save the next attempt, then queue it.
WorkerRetry(w) ==
  /\ wpc[w] = "retry"
  /\ LET j == wjob[w] IN
     /\ Save(j, attempt[j] + 1)
     /\ attempt' = [attempt EXCEPT ![j] = @ + 1]
     /\ heap' = heap \cup {j}
  /\ WorkerAt(w, "retried")
  /\ UNCHANGED <<submitVars, ready, wjob, executing, ctxDone, starts, late,
                 delayVars, cancelVars, shutdownVars, table>>

\* The deferred function of runEntry, on every path after executing.Store: the
\* name is freed first and the row deleted afterwards.
WorkerRelease(w) ==
  /\ wpc[w] = "release"
  /\ executing' = [executing EXCEPT ![wjob[w]] = NoJob]
  /\ Release(wjob[w])
  /\ ctxDone' = ctxDone \ {w}
  /\ WorkerAt(w, "erase")
  /\ UNCHANGED <<spc, queueVars, wjob, starts, late, delayVars, cancelVars,
                 shutdownVars, row, table>>

WorkerErase(w) ==
  /\ wpc[w] = "erase"
  /\ Erase(wjob[w])
  /\ WorkerAt(w, "pop")
  /\ wjob' = [wjob EXCEPT ![w] = NoJob]
  /\ UNCHANGED <<submitVars, queueVars, executing, ctxDone, starts, late,
                 delayVars, cancelVars, shutdownVars, table>>

WorkerStep(w) ==
  \/ WorkerPop(w)
  \/ WorkerExit(w)
  \/ WorkerCheck(w)
  \/ WorkerStart(w)
  \/ WorkerReturn(w)
  \/ WorkerMark(w)
  \/ WorkerRetry(w)
  \/ WorkerRelease(w)
  \/ WorkerErase(w)

-----------------------------------------------------------------------------
\* Cancel(j) by the client, which knows the ID once Submit has returned it, and
\* cancelByIDLocked, which Submit also runs for the jobs it displaces.
ClientCancel(j) ==
  /\ j \in Cancellable \ asked
  /\ victims[Client] = {}
  /\ spc[j] = "accepted"
  /\ status[j] # "unknown"
  /\ asked' = asked \cup {j}
  /\ victims' = [victims EXCEPT ![Client] = {j}]
  /\ UNCHANGED <<submitVars, queueVars, workerVars, delayVars, cancelled, cpc,
                 cjob, shutdownVars, row, table>>

CancelHeap(a) ==
  /\ cpc[a] = "heap"
  /\ \E j \in victims[a] :
       /\ heap' = heap \ {j}
       /\ cjob' = [cjob EXCEPT ![a] = j]
  /\ cpc' = [cpc EXCEPT ![a] = "queue"]
  /\ UNCHANGED <<submitVars, ready, attempt, workerVars, delayVars, cancelled,
                 victims, asked, shutdownVars, row, table>>

\* ready.remove, cancelled.Store and releaseJob.
CancelQueue(a) ==
  /\ cpc[a] = "queue"
  /\ LET j == cjob[a] IN
     /\ \/ \E i \in DOMAIN ready : ready[i] = j /\ ready' = RemoveAt(ready, i)
        \/ j \notin ToSet(ready) /\ UNCHANGED ready
     /\ cancelled' = cancelled \cup {j}
     /\ Release(j)
  /\ cpc' = [cpc EXCEPT ![a] = "erase"]
  /\ UNCHANGED <<spc, heap, attempt, workerVars, delayVars, victims, cjob,
                 asked, shutdownVars, row, table>>

\* store.Delete, cancel() of the running attempt if one is registered, status.
CancelErase(a) ==
  /\ cpc[a] = "erase"
  /\ LET j == cjob[a] IN
     /\ Erase(j)
     /\ ctxDone' = ctxDone \cup ({executing[j]} \ {NoJob})
     /\ MarkStatus(j, "cancelled")
     /\ victims' = [victims EXCEPT ![a] = @ \ {j}]
  /\ cpc' = [cpc EXCEPT ![a] = "heap"]
  /\ cjob' = [cjob EXCEPT ![a] = NoJob]
  /\ UNCHANGED <<submitVars, queueVars, wpc, wjob, executing, starts, late,
                 delayVars, cancelled, asked, shutdownVars>>

CancelStep(a) == CancelHeap(a) \/ CancelQueue(a) \/ CancelErase(a)

-----------------------------------------------------------------------------
\* Shutdown: stop admitting, close stopCh and the queue, wait for the workers
\* and the delay loop, or cancel what still runs when ctx ends first.
ShutdownBegin ==
  /\ sh = "idle"
  /\ sh' = "stopping"
  /\ early' = {j \in Jobs : spc[j] = "accepted"}
  /\ UNCHANGED <<submitVars, queueVars, workerVars, delayVars, cancelVars, row,
                 table>>

ShutdownClose ==
  /\ sh = "stopping"
  /\ sh' = "waiting"
  /\ UNCHANGED <<submitVars, queueVars, workerVars, delayVars, cancelVars,
                 early, row, table>>

ShutdownDone ==
  /\ sh = "waiting"
  /\ \A w \in Workers : wpc[w] = "exited"
  /\ dpc = "exited"
  /\ sh' = "done"
  /\ UNCHANGED <<submitVars, queueVars, workerVars, delayVars, cancelVars,
                 early, row, table>>

ShutdownTimeout ==
  /\ sh = "waiting"
  /\ MayTimeOut
  /\ sh' = "timeout"
  /\ ctxDone' = ctxDone \cup ({executing[j] : j \in Jobs} \ {NoJob})
  /\ UNCHANGED <<submitVars, queueVars, wpc, wjob, executing, starts, late,
                 delayVars, cancelVars, early, row, table>>

-----------------------------------------------------------------------------
Next ==
  \/ \E j \in Jobs : SubmitSkip(j) \/ SubmitAdmit(j) \/ SubmitStep(j)
                     \/ SubmitCtx(j) \/ ClientCancel(j)
  \/ DelayStep
  \/ \E w \in Workers : WorkerStep(w)
  \/ \E a \in Agents : CancelStep(a)
  \/ ShutdownBegin \/ ShutdownClose \/ ShutdownDone \/ ShutdownTimeout

\* Every goroutine that can run does, timers fire and handlers return.  Nobody
\* has to submit, cancel or shut down, and no ctx has to end.
Fairness ==
  /\ \A j \in Jobs : WF_vars(SubmitStep(j))
  /\ WF_vars(DelayStep)
  /\ \A w \in Workers : WF_vars(WorkerStep(w))
  /\ \A a \in Agents : WF_vars(CancelStep(a))
  /\ WF_vars(ShutdownClose)
  /\ WF_vars(ShutdownDone)

Spec == Init /\ [][Next]_vars /\ Fairness

-----------------------------------------------------------------------------
\* Where a job is.  A worker holds it from pop until the attempt is decided.
HeldBefore(j) == \E w \in Workers : wjob[w] = j /\ wpc[w] \in {"check", "register"}
HeldRunning(j) ==
  \E w \in Workers : wjob[w] = j /\ wpc[w] \in {"run", "succeed", "fail", "retry"}
InDelayHand(j) == djob = j /\ dpc \in {"check", "push"}
Waiting(j) == j \in heap \/ j \in ToSet(ready) \/ InDelayHand(j) \/ HeldBefore(j)
Live(j) == Waiting(j) \/ HeldRunning(j)

\* Nobody is working on the job, and its Submit has returned or not begun.
Touched(j) == (\E w \in Workers : wjob[w] = j) \/ djob = j \/ BeingCancelled(j)
Settled(j) ==
  /\ spc[j] \in Refusals \cup {"accepted"}
  /\ ~Live(j)
  /\ ~Touched(j)

\* Every variable has its type.
TypeOK ==
  /\ spc \in [Jobs -> {"idle", "gate", "persist", "place", "blocked", "mark",
                       "accepted", "lost"} \cup Refusals]
  /\ inFlight \subseteq Jobs
  /\ ready \in Seq(Jobs)
  /\ heap \subseteq Jobs
  /\ attempt \in [Jobs -> Nat]
  /\ row \in [Jobs -> Nat \cup {NoRow}]
  /\ status \in [Jobs -> {"unknown", "queued", "delayed", "running",
                          "succeeded", "failed", "cancelled"}]
  /\ statusOrder \in Seq(Jobs)
  /\ cancelled \subseteq Jobs
  /\ executing \in [Jobs -> Workers \cup {NoJob}]
  /\ ctxDone \subseteq Workers
  /\ wpc \in [Workers -> {"pop", "check", "register", "run", "succeed", "fail",
                          "retry", "retried", "release", "erase", "exited"}]
  /\ wjob \in [Workers -> Jobs \cup {NoJob}]
  /\ \A w \in Workers : wjob[w] = NoJob <=> wpc[w] \in {"pop", "exited"}
  /\ dpc \in {"wait", "check", "push", "mark", "drain", "exited"}
  /\ djob \in Jobs \cup {NoJob}
  /\ djob = NoJob <=> dpc \in {"wait", "drain", "exited"}
  /\ victims \in [Agents -> SUBSET Jobs]
  /\ cpc \in [Agents -> {"heap", "queue", "erase"}]
  /\ cjob \in [Agents -> Jobs \cup {NoJob}]
  /\ \A a \in Agents : IF cpc[a] = "heap" THEN cjob[a] = NoJob
                                          ELSE cjob[a] \in victims[a]
  /\ asked \subseteq Cancellable
  /\ sh \in {"idle", "stopping", "waiting", "done", "timeout"}
  /\ starts \in [Jobs -> Nat]
  /\ late \in [Jobs -> Nat]
  /\ early \subseteq Jobs

-----------------------------------------------------------------------------
\* A job's entry is in one place at a time: the heap, one slot of the queue,
\* the hand of the delay loop, or one worker.  Retries re-queue a copy of the
\* entry, and cancellation, popDue and the workers all move entries; none of
\* them ever leaves two copies behind.
Places(j) ==
  {<<"heap", h>> : h \in heap \cap {j}}
  \cup {<<"ready", i>> : i \in {n \in DOMAIN ready : ready[n] = j}}
  \cup {<<"delayLoop", d>> : d \in {djob} \cap {k \in {j} : InDelayHand(k)}}
  \cup {<<"worker", w>> : w \in {v \in Workers :
          wjob[v] = j /\ wpc[v] \notin {"retried", "release", "erase"}}}

OneCustody == \A j \in Jobs : Cardinality(Places(j)) <= 1

\* Whatever goroutines carry it, each job has the life JobLifecycle describes:
\* attempts never overlap, never exceed MaxRetries + 1, and nothing brings a
\* job back that is over or was refused.
LifeState(j) ==
  IF HeldRunning(j) THEN "running"
  ELSE IF Waiting(j) THEN "waiting"
  ELSE IF spc[j] \in Refusals THEN "refused"
  ELSE IF spc[j] \in {"mark", "accepted"} THEN "over"
  ELSE "new"

Life == INSTANCE JobLifecycle WITH state <- [j \in Jobs |-> LifeState(j)]

ImplementsLifecycle == Life!Spec

\* Cancellation is best effort, and this is the effort: after Cancel has
\* returned, the handler begins at most once more (by a worker that had read
\* the cancelled set just before), however many retries are left.
LateStartsBounded == \A j \in Jobs : late[j] <= 1

\* Cancelled, or about to be by an agent that has already chosen it.
Displaced(j) == j \in cancelled \/ BeingCancelled(j)

\* Skip and Replace keep same-name jobs from being live together, as long as
\* neither has been retried and neither is being cancelled.
SameNameExclusive ==
  \A j, k \in Jobs :
    /\ j # k
    /\ NameOf[j] = NameOf[k]
    /\ Live(j) /\ Live(k)
    /\ attempt[j] = 0 /\ attempt[k] = 0
    => Displaced(j) \/ Displaced(k)

\* A name is never blocked by a job nobody will finish: once a job is settled
\* it has left the in-flight set (on every path: success, failure, retry,
\* cancel, replace, refusal).  A job lost by popDue at close is the exception.
NoInFlightLeak == \A j \in inFlight : Settled(j) => Closed

\* A settled job has no row, so Restore cannot run it again (store.go:9,
\* "deleted on a final state or a cancellation").
NoGhostRow == \A j \in Jobs : Settled(j) /\ row[j] # NoRow => Closed

\* "succeeded" and "failed" are only shown for jobs that will not run again.
FinalMeansFinal ==
  \A j \in Jobs : status[j] \in {"succeeded", "failed"} => ~Live(j)

\* The status table keeps its shape, and it knows every job whose Submit has
\* returned, until it is full: only then do JobStatus and Cancel answer
\* ErrJobNotFound for a job that was accepted.
StatusTableOK ==
  /\ Table!Consistent
  /\ \A j \in Jobs :
       spc[j] = "accepted" => j \in Table!Known \/ Len(statusOrder) = MaxStatus

\* When Shutdown returns nil, every immediate job whose Submit had returned
\* before Shutdown was called has run, or was cancelled (TestShutdownDrain).
EarlyJobsRun ==
  sh = "done" => \A j \in early \ Later : starts[j] > 0 \/ j \in cancelled

\* Shutdown always returns: nobody keeps a worker, the delay loop or a pushed
\* entry waiting for ever.
ShutdownTerminates == sh # "idle" ~> sh \in {"done", "timeout"}

\* Shutdown frees every caller blocked in Submit.
SubmitsReturn ==
  Closed ~> \A j \in Jobs : spc[j] \in {"idle", "accepted"} \cup Refusals

-----------------------------------------------------------------------------
\* dispatcher.go:240, "running ones through their context": once Cancel has
\* returned, a handler that began before that has its context cancelled.  Those
\* that began later (late) are left out.
CancelReachesHandler ==
  \A w \in Workers, j \in asked :
    wpc[w] = "run" /\ wjob[w] = j /\ ~BeingCancelled(j) /\ late[j] = 0
      => w \in ctxDone
=============================================================================
