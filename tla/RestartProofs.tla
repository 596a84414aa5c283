--------------------------- MODULE RestartProofs ---------------------------
(***************************************************************************)
(* What a store keeps over crashes and restarts (Restart), for every set   *)
(* of jobs and workers, every configuration and any number of crashes.     *)
(***************************************************************************)
EXTENDS Restart, DispatcherJobProofs

\* What every step of the dispatcher keeps, however its process began.
Based == Base /\ CancelMarked

\* Restore queues what has a row, and only after the crash has emptied the
\* dispatcher: a job that it still has to queue is in nobody's hands.
Untouched(j) ==
  /\ Past(j)
  /\ ~Placed(j)
  /\ \A w \in Workers : wjob[w] # j

Saved(j) == Past(j) \/ spc[j] \in {"place", "blocked"}

Restoring ==
  /\ rs # "off" => \A j \in Jobs : ~Submitting(j) /\ spc[j] # "mark"
  /\ rs = "list" => \A j \in Jobs : ~Placed(j)
  /\ rs = "list" => \A w \in Workers : wjob[w] = NoJob
  /\ rs \in {"place", "failed"} /\ rjob # NoJob => todo[rjob] = NoRow
  /\ \A j \in Jobs : Pending(j) => Untouched(j)
  /\ \A j \in Jobs : row[j] # NoRow => Saved(j)

\* The invariant that the theorems below rest on.
Restarted == Based /\ RTypeOK /\ Restoring

-----------------------------------------------------------------------------
\* What Restore leaves alone.
LEMMA RestoreFrame ==
  ASSUME RestoreStep
  PROVE  /\ UNCHANGED <<spc, wpc, wjob, executing, ctxDone, starts, late, dpc, djob,
                        cancelled, victims, cpc, cjob, asked, sh, early>>
         /\ UNCHANGED <<crashes, cut>>
BY DEF RestoreStep, RestoreList, RestoreOrphan, RestoreTake, RestoreLater,
       RestoreNow, RestoreFail, RestoreMark, RestoreDone, vars, submitVars,
       workerVars, delayVars, cancelVars, shutdownVars, historyVars

\* Restore keeps the types of the dispatcher.
LEMMA RestoreType ==
  ASSUME RTypeOK, RestoreStep
  PROVE  TypeOK'
<1>0. TypeOK /\ rjob \in Jobs \cup {NoJob} /\ todo \in [Jobs -> Nat \cup {NoRow}]
  BY DEF RTypeOK
<1> USE DispatcherAssumption
    DEF TypeOK, Erase, Refusals, Agents, NoRow, vars, table, submitVars, queueVars,
        workerVars, delayVars, cancelVars, shutdownVars
<1>1. CASE RestoreList \/ RestoreFail \/ RestoreDone
  BY <1>0, <1>1 DEF RestoreList, RestoreFail, RestoreDone
<1>2. ASSUME NEW j \in Jobs, RestoreOrphan(j) PROVE TypeOK'
  BY <1>0, <1>2 DEF RestoreOrphan
<1>3. ASSUME NEW j \in Jobs, RestoreTake(j) PROVE TypeOK'
  <2>1. attempt' \in [Jobs -> Nat]
    <3>1. todo[j] \in Nat
      BY <1>0, <1>3 DEF RestoreTake
    <3> QED BY <1>0, <1>3, <3>1 DEF RestoreTake
  <2>2. inFlight' \subseteq Jobs
    BY <1>0, <1>3 DEF RestoreTake
  <2> QED BY <1>0, <1>3, <2>1, <2>2 DEF RestoreTake
<1>4. CASE RestoreLater
  <2>1. rjob \in Jobs
    BY <1>4 DEF RTypeOK, RestoreLater
  <2> QED BY <1>0, <1>4, <2>1 DEF RestoreLater
<1>5. CASE RestoreNow
  <2>1. rjob \in Jobs
    BY <1>5 DEF RTypeOK, RestoreNow
  <2>2. ready' \in Seq(Jobs)
    BY <1>0, <1>5, <2>1, AppendSet DEF RestoreNow
  <2> QED BY <1>0, <1>5, <2>2 DEF RestoreNow
<1>6. CASE RestoreMark
  <2>1. rjob \in Jobs /\ rs \in Statuses
    BY <1>6 DEF RTypeOK, RestoreMark, Statuses
  <2>2. TableType'
    BY <1>0, <1>6, <2>1, MarkType DEF RestoreMark, TableType, Statuses
  <2> QED BY <1>0, <1>6, <2>2 DEF RestoreMark, TableType, Statuses
<1> QED BY <1>1, <1>2, <1>3, <1>4, <1>5, <1>6 DEF RestoreStep

\* Restore puts its job where nothing of it is.
LEMMA RestoreCustody ==
  ASSUME Restarted, RestoreStep
  PROVE  Custody'
<1> USE DEF InDelayHand, Busy, Placed, queueVars
<1>0. /\ TypeOK /\ Custody /\ ready \in Seq(Jobs)
      /\ UNCHANGED <<spc, dpc, djob, wpc, wjob>>
  BY RestoreFrame DEF Restarted, Based, Base, RTypeOK, TypeOK
<1>1. ASSUME UNCHANGED <<ready, heap>> PROVE Custody'
  BY <1>0, <1>1 DEF Custody, Past, Submitting
<1>2. ASSUME rs = "place" PROVE rjob \in Jobs /\ Untouched(rjob)
  BY <1>2 DEF Restarted, Restoring, RTypeOK, Pending
<1>3. CASE RestoreLater
  <2>1. rjob \in Jobs /\ Untouched(rjob) /\ heap' = heap \cup {rjob} /\ ready' = ready
    BY <1>2, <1>3 DEF RestoreLater
  <2> QED BY <1>0, <2>1 DEF Untouched, Custody, Past, Submitting
<1>4. CASE RestoreNow
  <2>1. rjob \in Jobs /\ Untouched(rjob) /\ heap' = heap
    BY <1>2, <1>4 DEF RestoreNow
  <2>2. IsInjective(ready') /\ ToSet(ready') = ToSet(ready) \cup {rjob}
    <3>1. ready' = Append(ready, rjob) /\ rjob \notin ToSet(ready)
      BY <1>4, <2>1 DEF RestoreNow, Untouched
    <3> QED BY <1>0, <2>1, <3>1, AppendSet, AppendDistinct DEF Custody
  <2> QED BY <1>0, <2>1, <2>2 DEF Untouched, Custody, Past, Submitting
<1>5. RestoreLater \/ RestoreNow \/ UNCHANGED <<ready, heap>>
  BY DEF RestoreStep, RestoreList, RestoreOrphan, RestoreTake, RestoreFail,
         RestoreMark, RestoreDone, vars
<1> QED BY <1>1, <1>3, <1>4, <1>5

\* A new process knows no job: it has its types, and no entry.
LEMMA CrashEmpty ==
  ASSUME TypeOK, Crash
  PROVE  /\ Based'
         /\ \A j \in Jobs : ~Placed(j)' /\ ~Submitting(j)' /\ spc'[j] # "mark"
         /\ \A j \in Jobs : Saved(j) => Past(j)'
         /\ \A j \in Jobs : spc'[j] \in {spc[j], "lost"}
<1> USE DispatcherAssumption
<1>0. spc \in [Jobs -> {"idle", "gate", "persist", "place", "blocked", "mark",
                        "accepted", "lost"} \cup Refusals]
  BY DEF TypeOK
<1>1. TypeOK'
  BY DEF Crash, TypeOK, Agents, Refusals
<1>2. /\ \A j \in Jobs : spc'[j] \in {spc[j], "lost"} /\ ~Submitting(j)' /\ spc'[j] # "mark"
      /\ \A j \in Jobs : Saved(j) => Past(j)'
  BY <1>0 DEF Crash, Submitting, Past, Saved, Refusals
<1>3. \A j \in Jobs : ~Placed(j)'
  <2>1. ToSet(ready') = {}
    BY DEF Crash, ToSet
  <2> QED BY <2>1 DEF Crash, Placed, InDelayHand, Busy
<1>4. Custody'
  <2>1. ToSet(ready') = {} /\ IsInjective(ready')
    BY DEF Crash, ToSet, IsInjective
  <2> QED BY <1>3, <2>1 DEF Crash, Custody, Busy, InDelayHand
<1>5. IdleCancelsNone' /\ CancelMarked'
  BY DEF Crash, IdleCancelsNone, CancelMarked, Agents
<1> QED BY <1>1, <1>2, <1>3, <1>4, <1>5 DEF Based, Base

LEMMA BasedStep ==
  ASSUME Restarted, [RNext]_allVars
  PROVE  Based'
<1> USE DEF Restarted, Based, Base
<1>1. ASSUME [Next]_vars PROVE Based'
  BY <1>1, TypeStep, IdleCancelsNoneStep, CustodyStep, CancelMarkedStep
<1>2. CASE Crash
  BY <1>2, CrashEmpty
<1>3. CASE RestoreStep
  <2>1. IdleCancelsNone' /\ CancelMarked'
    BY <1>3, RestoreFrame DEF IdleCancelsNone, CancelMarked
  <2> QED BY <1>3, <2>1, RestoreType, RestoreCustody
<1> QED BY <1>1, <1>2, <1>3 DEF RNext, Run, allVars

\* The variables of Restore, its history and its place, keep their types.
LEMMA RTypeStep ==
  ASSUME Restarted, Based', [RNext]_allVars
  PROVE  RTypeOK'
<1>0. TypeOK' /\ TypeOK /\ RTypeOK
  BY DEF Based, Base, Restarted
<1> USE RestartAssumption, DispatcherAssumption
<1>1. CASE Run
  <2>1. {wjob[w] : w \in {v \in Workers : wpc[v] = "run" /\ wpc'[v] # "run"}} \subseteq Jobs
    <3>1. \A v \in Workers : wpc[v] = "run" => wjob[v] \in Jobs
      BY <1>0 DEF TypeOK
    <3> QED BY <3>1
  <2>2. heap \subseteq Jobs
    BY <1>0 DEF TypeOK
  <2>3. ended' \subseteq Jobs
    BY <1>0, <1>1, <2>1, <2>2 DEF Run, RTypeOK
  <2> QED BY <1>0, <1>1, <2>3 DEF Run, RTypeOK, restoreVars, NoRows
<1>2. CASE Crash
  <2>1. /\ crashes \in 0 .. MaxCrashes /\ crashes < MaxCrashes
        /\ crashes' = crashes + 1 /\ crashes' \in 0 .. MaxCrashes
    BY <1>0, <1>2 DEF Crash, RTypeOK
  <2>2. cut' \in [Jobs -> 0 .. crashes']
    BY <1>0, <1>2, <2>1 DEF Crash, RTypeOK
  <2> QED BY <1>0, <1>2, <2>1, <2>2 DEF Crash, RTypeOK, NoRows, NoRow
<1>3. CASE RestoreStep
  <2>0. UNCHANGED <<crashes, cut>>
    BY <1>3, RestoreFrame
  <2>1. CASE RestoreList
    BY <1>0, <2>0, <2>1 DEF RestoreList, RTypeOK, TypeOK, historyVars
  <2>2. ASSUME NEW j \in Jobs, RestoreOrphan(j) PROVE RTypeOK'
    BY <1>0, <2>0, <2>2 DEF RestoreOrphan, RTypeOK, NoRow
  <2>3. ASSUME NEW j \in Jobs, RestoreTake(j) PROVE RTypeOK'
    BY <1>0, <2>0, <2>3 DEF RestoreTake, RTypeOK, NoRow, historyVars
  <2>4. CASE RestoreLater \/ RestoreNow \/ RestoreFail \/ RestoreMark \/ RestoreDone
    BY <1>0, <2>0, <2>4 DEF RestoreLater, RestoreNow, RestoreFail, RestoreMark,
                            RestoreDone, RTypeOK, historyVars
  <2> QED BY <1>3, <2>1, <2>2, <2>3, <2>4 DEF RestoreStep
<1>4. CASE UNCHANGED allVars
  BY <1>0, <1>4 DEF allVars, restoreVars, historyVars, RTypeOK, NoRows
<1> QED BY <1>1, <1>2, <1>3, <1>4 DEF RNext

-----------------------------------------------------------------------------
\* A worker has what it had, nothing, or an entry that was there.
LEMMA HandsFrom ==
  ASSUME TypeOK, [Next]_vars, NEW w \in Workers
  PROVE  wjob'[w] \in {NoJob, wjob[w]} \/ (wjob'[w] \in Jobs /\ Placed(wjob'[w]))
<1> USE DEF workerVars
<1>0. /\ wjob \in [Workers -> Jobs \cup {NoJob}] /\ ready \in Seq(Jobs)
  BY DEF TypeOK
<1>1. CASE WorkerPop(w)
  <2>1. wjob'[w] = Head(ready) /\ Head(ready) \in Jobs /\ Head(ready) \in ToSet(ready)
    BY <1>0, <1>1, TailSet DEF WorkerPop
  <2> QED BY <2>1 DEF Placed
<1>2. CASE WorkerStep(w) /\ ~WorkerPop(w)
  BY <1>0, <1>2 DEF WorkerStep, WorkerExit, WorkerCheck, WorkerStart, WorkerReturn,
                    WorkerMark, WorkerRetry, WorkerRelease, WorkerErase
<1> QED BY <1>1, <1>2, WorkersAlone

\* A submission that has saved its row has done so for good.
LEMMA SavedStays ==
  ASSUME TypeOK, [Next]_vars, NEW j \in Jobs, Saved(j)
  PROVE  Saved(j)'
<1>0. spc \in [Jobs -> {"idle", "gate", "persist", "place", "blocked", "mark",
                        "accepted", "lost"} \cup Refusals]
  BY DEF TypeOK
<1>1. ASSUME NEW k \in Jobs, Submits(k) \/ SubmitAdmit(k) PROVE Saved(j)'
  BY <1>0, <1>1
     DEF Saved, Past, Submitting, Submits, SubmitAdmit, SubmitStep, SubmitSkip,
         SubmitCtx, SubmitGate, SubmitPersist, SubmitDelayed, SubmitReady, SubmitBlock,
         SubmitFull, SubmitMark, SubmitAt, Refusals
<1> QED BY <1>1, SubmitsAlone DEF Saved, Past, Submitting

LEMMA RestoringRun ==
  ASSUME Restarted, Run \/ UNCHANGED allVars
  PROVE  Restoring'
<1>0. /\ TypeOK /\ [Next]_vars /\ UNCHANGED restoreVars
      /\ rs = "off" \/ spc' = spc
      /\ Restoring /\ Custody
  BY DEF Restarted, Based, Base, Run, allVars, restoreVars, vars, submitVars
<1> USE DEF restoreVars
<1>1. rs # "off" => \A j \in Jobs : ~Submitting(j)' /\ spc'[j] # "mark"
  BY <1>0 DEF Restoring, Submitting
<1>2. \A j \in Jobs : ~Placed(j) /\ (Past(j) \/ rs = "list") => ~Placed(j)'
  BY <1>0, EntriesFrom DEF Past, Restoring, Submitting
<1>3. rs = "list" => \A w \in Workers : wjob'[w] = NoJob
  <2> SUFFICES ASSUME rs = "list", NEW w \in Workers PROVE wjob'[w] = NoJob
    OBVIOUS
  <2> QED BY <1>0, HandsFrom DEF Restoring
<1>4. ASSUME NEW j \in Jobs, Pending(j) PROVE Untouched(j)'
  <2>1. Untouched(j)
    BY <1>0, <1>4 DEF Restoring
  <2>2. Past(j)' /\ ~Placed(j)'
    BY <1>0, <1>2, <2>1, PastStays DEF Untouched
  <2>3. ASSUME NEW w \in Workers PROVE wjob'[w] # j
    BY <1>0, <2>1, <2>3, HandsFrom, DispatcherAssumption DEF Untouched
  <2> QED BY <2>2, <2>3 DEF Untouched
<1>5. \A j \in Jobs : Pending(j)' <=> Pending(j)
  BY <1>0 DEF Pending
<1>6. ASSUME NEW j \in Jobs, row'[j] # NoRow PROVE Saved(j)'
  <2>1. CASE row[j] # NoRow
    BY <1>0, <2>1, SavedStays DEF Restoring
  <2>2. CASE SubmitPersist(j) /\ spc'[j] = "place"
    BY <2>2 DEF Saved
  <2>3. ASSUME NEW w \in Workers, WorkerRetry(w), wjob[w] = j PROVE Saved(j)'
    <3>1. Past(j)
      BY <1>0, <2>3, DispatcherAssumption DEF Custody
    <3> QED BY <1>0, <3>1, PastStays DEF Saved
  <2> QED BY <1>0, <1>6, <2>1, <2>2, <2>3, RowFrom
<1>7. rs \in {"place", "failed"} /\ rjob # NoJob => todo[rjob] = NoRow
  BY <1>0 DEF Restoring
<1> QED BY <1>0, <1>1, <1>2, <1>3, <1>4, <1>5, <1>6, <1>7 DEF Restoring

LEMMA RestoringCrash ==
  ASSUME Restarted, Crash
  PROVE  Restoring'
<1>1. rs' = "list" /\ rjob' = NoJob /\ todo' = NoRows /\ UNCHANGED row
      /\ \A w \in Workers : wjob'[w] = NoJob
  BY DEF Crash
<1>2. \A j \in Jobs : ~Pending(j)'
  BY <1>1, DispatcherAssumption DEF Pending, NoRows
<1> QED BY <1>1, <1>2, CrashEmpty DEF Restarted, Restoring, Based, Base, Saved

\* What a step of Restore does to the jobs it has yet to queue.
LEMMA PendingGoes ==
  ASSUME Restarted, RestoreStep, NEW j \in Jobs
  PROVE  /\ Pending(j)' => Pending(j) \/ (RestoreList /\ row[j] # NoRow)
         /\ Placed(j)' => Placed(j) \/ (Pending(j) /\ ~Pending(j)')
<1>0. RTypeOK /\ Restoring
  BY DEF Restarted
<1> USE DEF Pending, RTypeOK
<1>1. ASSUME UNCHANGED <<heap, ready>> PROVE Placed(j)' => Placed(j)
  BY <1>1, RestoreFrame DEF Placed, Busy, InDelayHand
<1>2. CASE RestoreList
  BY <1>0, <1>1, <1>2, DispatcherAssumption DEF RestoreList, vars, queueVars
<1>3. ASSUME NEW k \in Jobs, RestoreOrphan(k)
      PROVE  (Pending(j)' => Pending(j)) /\ (Placed(j)' => Placed(j))
  BY <1>0, <1>1, <1>3 DEF RestoreOrphan, queueVars
<1>4. ASSUME NEW k \in Jobs, RestoreTake(k)
      PROVE  (Pending(j)' => Pending(j)) /\ (Placed(j)' => Placed(j))
  BY <1>0, <1>1, <1>4 DEF RestoreTake
<1>5. CASE RestoreLater \/ RestoreNow
  <2>1. /\ rs = "place" /\ rjob \in Jobs /\ rs' \in {"delayed", "queued"}
        /\ UNCHANGED <<todo, rjob>> /\ todo[rjob] = NoRow
    BY <1>0, <1>5 DEF RestoreLater, RestoreNow, Restoring
  <2>2. Placed(j)' => Placed(j) \/ j = rjob
    <3>1. heap' \subseteq heap \cup {rjob} /\ (ready' = ready \/ ready' = Append(ready, rjob))
      BY <1>5 DEF RestoreLater, RestoreNow
    <3>2. ToSet(Append(ready, rjob)) = ToSet(ready) \cup {rjob}
      BY <1>0, <2>1, AppendSet DEF TypeOK
    <3>3. ToSet(ready') \subseteq ToSet(ready) \cup {rjob}
      <4>1. CASE ready' = ready
        BY <4>1
      <4>2. CASE ready' = Append(ready, rjob)
        BY <3>2, <4>2
      <4> QED BY <3>1, <4>1, <4>2
    <3> QED BY <3>1, <3>3, RestoreFrame DEF Placed, Busy, InDelayHand
  <2> QED BY <2>1, <2>2
<1>6. CASE RestoreFail \/ RestoreMark \/ RestoreDone
  BY <1>0, <1>1, <1>6, DispatcherAssumption
     DEF RestoreFail, RestoreMark, RestoreDone, vars, queueVars
<1> QED BY <1>2, <1>3, <1>4, <1>5, <1>6 DEF RestoreStep

LEMMA RestoringRestore ==
  ASSUME Restarted, RestoreStep
  PROVE  Restoring'
<1>0. /\ RTypeOK /\ TypeOK /\ Restoring
      /\ UNCHANGED <<spc, wjob>>
  BY RestoreFrame DEF Restarted, RTypeOK
<1>1. rs # "off" /\ rs' # "list"
  BY DEF RestoreStep, RestoreList, RestoreOrphan, RestoreTake, RestoreLater,
         RestoreNow, RestoreFail, RestoreMark, RestoreDone
<1>2. \A j \in Jobs : ~Submitting(j)' /\ spc'[j] # "mark"
  BY <1>0, <1>1 DEF Restoring, Submitting
<1>3. rs' \in {"place", "failed"} /\ rjob' # NoJob => todo'[rjob'] = NoRow
  BY <1>0, DispatcherAssumption
     DEF Restoring, RTypeOK, RestoreStep, RestoreList, RestoreOrphan, RestoreTake,
         RestoreLater, RestoreNow, RestoreFail, RestoreMark, RestoreDone
<1>4. ASSUME NEW j \in Jobs, Pending(j)' PROVE Untouched(j)'
  <2>1. Past(j) /\ ~Placed(j) /\ \A w \in Workers : wjob[w] # j
    <3>1. CASE Pending(j)
      BY <1>0, <3>1 DEF Restoring, Untouched
    <3>2. CASE RestoreList /\ row[j] # NoRow
      BY <1>0, <1>1, <3>2, DispatcherAssumption
         DEF Restoring, RestoreList, Saved, Submitting
    <3> QED BY <1>4, <3>1, <3>2, PendingGoes
  <2>2. ~Placed(j)'
    BY <1>4, <2>1, PendingGoes
  <2> QED BY <1>0, <2>1, <2>2 DEF Untouched, Past, Submitting
<1>5. ASSUME NEW j \in Jobs, row'[j] # NoRow PROVE Saved(j)'
  <2>1. row[j] # NoRow
    BY <1>0, <1>5 DEF TypeOK, RestoreStep, RestoreList, RestoreOrphan, RestoreTake,
         RestoreLater, RestoreNow, RestoreFail, RestoreMark, RestoreDone, Erase, vars
  <2> QED BY <1>0, <2>1 DEF Restoring, Saved, Past, Submitting
<1> QED BY <1>1, <1>2, <1>3, <1>4, <1>5 DEF Restoring

LEMMA InitRestarted == RInit => Restarted
<1> SUFFICES ASSUME RInit PROVE Restarted
  OBVIOUS
<1>1. Base /\ CancelMarked
  BY InitType, InitCustody DEF RInit, Base, Init, CancelMarked
<1>2. RTypeOK
  BY <1>1, RestartAssumption, DispatcherAssumption
     DEF RInit, RTypeOK, Base, NoRows, NoRow
<1>3. \A j \in Jobs : ~Pending(j) /\ row[j] = NoRow
  BY DispatcherAssumption DEF RInit, Init, Pending, NoRows
<1> QED BY <1>1, <1>2, <1>3 DEF Restarted, Based, Restoring, RInit

\* In every reachable state, whatever crashes led to it, the dispatcher has its
\* types and one place for each entry, and Restore only works on rows of jobs
\* that are nowhere else.
THEOREM RestartInvariant == RSpec => []Restarted
<1>1. Restarted /\ [RNext]_allVars => Restarted'
  <2> SUFFICES ASSUME Restarted, [RNext]_allVars PROVE Restarted'
    OBVIOUS
  <2>1. Based' /\ RTypeOK'
    BY BasedStep, RTypeStep
  <2>2. Restoring'
    BY RestoringRun, RestoringCrash, RestoringRestore DEF RNext
  <2> QED BY <2>1, <2>2 DEF Restarted
<1> QED BY <1>1, InitRestarted, PTL DEF RSpec

\* A restart keeps the types of every variable, Restore's own included.
THEOREM RestartTypeCorrect == RSpec => []RTypeOK
<1>1. Restarted => RTypeOK
  BY DEF Restarted
<1> QED BY <1>1, RestartInvariant, PTL

-----------------------------------------------------------------------------
LEMMA NowhereEmpty ==
  ASSUME TypeOK, NEW j \in Jobs, ~Placed(j)
  PROVE  Places(j) = {}
<1> USE DEF Placed, Busy
<1>1. \A w \in Workers : wjob[w] = j => wpc[w] \in {"retried", "release", "erase"}
  BY DispatcherAssumption DEF TypeOK
<1>2. \A i \in DOMAIN ready : ready[i] # j
  BY DEF ToSet
<1> QED BY <1>1, <1>2 DEF Places

\* However often Restore runs, it queues no job that is queued, delayed, running
\* or waiting to be restored already.
THEOREM RestartSingleCopy == RSpec => []SingleCopy
<1>1. ASSUME Restarted PROVE SingleCopy
  <2> SUFFICES ASSUME NEW j \in Jobs
               PROVE  Cardinality(Places(j)) + (IF Pending(j) THEN 1 ELSE 0) <= 1
    BY DEF SingleCopy
  <2>1. TypeOK /\ Custody /\ (Pending(j) => ~Placed(j))
    BY <1>1 DEF Restarted, Based, Base, Restoring, Untouched
  <2>2. CASE Pending(j)
    BY <2>1, <2>2, NowhereEmpty, FS_EmptySet
  <2>3. CASE ~Pending(j)
    <3>1. Cardinality(Places(j)) <= 1
      BY <2>1, CustodySuffices DEF OneCustody
    <3>2. Cardinality(Places(j)) \in Int
      <4>1. CASE Places(j) = {}
        BY <4>1, FS_EmptySet
      <4>2. CASE Places(j) # {}
        <5>1. PICK p : p \in Places(j)
          BY <4>2
        <5>2. Places(j) = {p}
          BY <2>1, <5>1, PlaceUnique
        <5> QED BY <5>2, FS_Singleton
      <4> QED BY <4>1, <4>2
    <3> QED BY <2>3, <3>1, <3>2
  <2> QED BY <2>2, <2>3
<1> QED BY <1>1, RestartInvariant, PTL

-----------------------------------------------------------------------------
\* Under ConflictSkip and ConflictReplace: the job that Restore is queueing holds
\* its name, as every job with an entry does.
PlacingNamed ==
  rs = "place" /\ attempt[rjob] = 0 => Displaced(rjob) \/ rjob \in inFlight

Named == EngagedNamed /\ ReleasesRight /\ PlacingNamed

\* While the others run, the job k that Restore is queueing keeps its name.
LEMMA PlacingNamedRun ==
  ASSUME Policy # "allow", Restarted, Named, [Next]_vars,
         NEW k \in Jobs, rjob = k, rs = "place", attempt'[k] = 0
  PROVE  Displaced(k)' \/ k \in inFlight'
<1>0. /\ TypeOK /\ IdleCancelsNone /\ Custody /\ CancelMarked /\ Restoring
      /\ ReleasesRight /\ PlacingNamed
  BY DEF Restarted, Based, Base, Named
<1>1. Untouched(k) /\ attempt \in [Jobs -> Nat]
  BY <1>0 DEF Restoring, Pending, TypeOK
<1>2. attempt[k] = 0
  BY <1>0, <1>1, AttemptGrows
<1>3. Displaced(k) \/ k \in inFlight
  BY <1>0, <1>2 DEF PlacingNamed
<1>4. ~Engaged(k) /\ \A w \in Workers : wjob[w] # k
  BY <1>1 DEF Untouched, Engaged, Past
<1>5. CASE Displaced(k)
  BY <1>0, <1>5, DisplacedStays
<1>6. CASE k \in inFlight /\ k \notin inFlight'
  BY <1>0, <1>2, <1>4, <1>6, WhoReleases
<1> QED BY <1>3, <1>5, <1>6

LEMMA NamedRun ==
  ASSUME Policy # "allow", Restarted, Named, Run \/ UNCHANGED allVars
  PROVE  Named'
<1>0. /\ TypeOK /\ IdleCancelsNone /\ Custody /\ CancelMarked /\ Base
      /\ RTypeOK /\ Restoring
      /\ EngagedNamed /\ ReleasesRight /\ PlacingNamed
      /\ [Next]_vars /\ UNCHANGED <<rs, rjob>>
  BY DEF Restarted, Based, Base, Named, Run, allVars, restoreVars
<1>1. EngagedNamed' /\ ReleasesRight'
  BY <1>0, EngagedNamedStep, ReleasesRightStep
<1>2. ASSUME rs = "place", attempt'[rjob] = 0
      PROVE  Displaced(rjob)' \/ rjob \in inFlight'
  <2>1. PICK k \in Jobs : k = rjob
    BY <1>0, <1>2 DEF RTypeOK
  <2>2. Displaced(k)' \/ k \in inFlight'
    BY <1>0, <1>2, <2>1, PlacingNamedRun DEF Named, Restarted
  <2>3. Displaced(k)' <=> Displaced(rjob)'
    BY <1>0, <2>1 DEF Displaced, BeingCancelled
  <2> QED BY <2>1, <2>2, <2>3
<1>3. PlacingNamed'
  BY <1>0, <1>2 DEF PlacingNamed
<1> QED BY <1>1, <1>3 DEF Named

LEMMA NamedCrash ==
  ASSUME Restarted, Crash
  PROVE  Named'
<1>1. EngagedNamed'
  BY CrashEmpty DEF Restarted, Based, Base, EngagedNamed, Engaged
<1>2. ReleasesRight' /\ PlacingNamed'
  BY DEF Crash, ReleasesRight, PlacingNamed
<1> QED BY <1>1, <1>2 DEF Named

LEMMA NamedRestore ==
  ASSUME Policy # "allow", Restarted, Named, RestoreStep
  PROVE  Named'
<1>0. /\ TypeOK /\ Custody /\ RTypeOK /\ Restoring /\ EngagedNamed
      /\ ReleasesRight /\ PlacingNamed
      /\ UNCHANGED <<spc, wjob, wpc, cancelled, victims>>
  BY RestoreFrame DEF Restarted, Based, Base, Named
<1>1. /\ inFlight \subseteq inFlight'
      /\ \A j \in Jobs : attempt'[j] = attempt[j] \/ RestoreTake(j)
  BY <1>0 DEF TypeOK, RestoreStep, RestoreList, RestoreOrphan, RestoreTake,
              RestoreLater, RestoreNow, RestoreFail, RestoreMark, RestoreDone, vars,
              submitVars, queueVars
<1>2. ASSUME NEW j \in Jobs, RestoreTake(j) PROVE Pending(j) /\ j \in inFlight'
  BY <1>2 DEF RestoreTake, Pending
<1>3. \A j \in Jobs : Pending(j) => Untouched(j)
  BY <1>0 DEF Restoring
<1>4. EngagedNamed'
  <2> SUFFICES ASSUME NEW j \in Jobs, Engaged(j)', attempt'[j] = 0
               PROVE  Displaced(j)' \/ j \in inFlight'
    BY DEF EngagedNamed
  <2>1. CASE RestoreTake(j)
    BY <1>2, <2>1
  <2>2. CASE ~RestoreTake(j) /\ Engaged(j)
    BY <1>0, <1>1, <2>2 DEF EngagedNamed, Displaced, BeingCancelled
  <2>3. CASE ~Engaged(j)
    <3>1. Placed(j)' /\ ~Placed(j)
      BY <1>0, <2>3 DEF Engaged, Submitting
    <3>2. Pending(j) /\ ~Pending(j)'
      BY <3>1, PendingGoes
    <3>3. rs = "place" /\ rjob = j
      BY <1>0, <3>1, <3>2 DEF Pending, RestoreStep, RestoreList, RestoreOrphan,
              RestoreTake, RestoreLater, RestoreNow, RestoreFail, RestoreMark, RestoreDone,
              vars, queueVars, Placed, InDelayHand, Busy, delayVars, RTypeOK
    <3>4. ~RestoreTake(j)
      BY <3>3 DEF RestoreTake
    <3> QED BY <1>0, <1>1, <3>3, <3>4 DEF PlacingNamed, Displaced, BeingCancelled
  <2> QED BY <2>1, <2>2, <2>3
<1>5. ReleasesRight'
  <2> SUFFICES ASSUME NEW w \in Workers, wpc[w] \in {"retried", "release"}
               PROVE  MayRelease(w)'
    BY <1>0 DEF ReleasesRight
  <2>1. PICK j \in Jobs : j = wjob[w]
    BY <1>0 DEF TypeOK
  <2>2. MayRelease(w) /\ ~Pending(j)
    BY <1>0, <1>3, <2>1 DEF ReleasesRight, Untouched
  <2>3. attempt'[j] = attempt[j]
    BY <1>1, <1>2, <2>2
  <2>4. ~Placed(j) => ~Placed(j)'
    BY <2>2, PendingGoes
  <2>5. ~Placed(wjob[w]) => ~Placed(wjob[w])'
    BY <1>0, <2>1, <2>4 DEF Placed, InDelayHand
  <2> QED BY <1>0, <2>1, <2>2, <2>3, <2>5 DEF MayRelease
<1>6. PlacingNamed'
  <2> SUFFICES ASSUME rs' = "place" PROVE rjob' \in inFlight'
    BY DEF PlacingNamed
  <2>1. PICK j \in Jobs : RestoreTake(j)
    BY <1>0 DEF RestoreStep, RestoreList, RestoreOrphan, RestoreTake,
              RestoreLater, RestoreNow, RestoreFail, RestoreMark, RestoreDone
  <2> QED BY <1>2, <2>1 DEF RestoreTake
<1> QED BY <1>4, <1>5, <1>6 DEF Named

\* The in-flight sets that Restore rebuilds name every job that waits for, or is
\* in, its first attempt, as they did before the crash.
THEOREM RestartNameHeld == RSpec => []NameHeld
<1>1. CASE Policy = "allow"
  <2>1. NameHeld
    BY <1>1 DEF NameHeld
  <2> QED BY <2>1, PTL
<1>2. CASE Policy # "allow"
  <2>1. RInit => Named
    <3> SUFFICES ASSUME RInit PROVE Named
      OBVIOUS
    <3>1. Init /\ Custody
      BY InitCustody DEF RInit
    <3> QED BY <3>1 DEF RInit, Init, Named, EngagedNamed, ReleasesRight, PlacingNamed,
                        Engaged, Submitting, Custody, Past
  <2>2. Restarted /\ Named /\ [RNext]_allVars => Named'
    BY <1>2, NamedRun, NamedCrash, NamedRestore DEF RNext
  <2>3. Restarted /\ Named => NameHeld
    BY PlacedLive DEF Restarted, Based, Base, Named, EngagedNamed, Engaged, NameHeld
  <2> QED BY <2>1, <2>2, <2>3, RestartInvariant, PTL DEF RSpec
<1> QED BY <1>1, <1>2

-----------------------------------------------------------------------------
\* What becomes of a row: it stays, it goes, or one of two steps saves it.
LEMMA RowGoes ==
  ASSUME TypeOK, [Next]_vars, NEW j \in Jobs, row'[j] \notin {row[j], NoRow}
  PROVE  \/ SubmitPersist(j) /\ row'[j] = 0
         \/ \E w \in Workers : WorkerRetry(w) /\ wjob[w] = j /\ row'[j] = attempt[j] + 1
<1> USE DEF Save, Erase
<1>0. row \in [Jobs -> Nat \cup {NoRow}]
  BY DEF TypeOK
<1>1. ASSUME NEW k \in Jobs, Submits(k) \/ SubmitAdmit(k)
      PROVE  SubmitPersist(j) /\ row'[j] = 0
  BY <1>0, <1>1
     DEF Submits, SubmitAdmit, SubmitStep, SubmitSkip, SubmitCtx, SubmitGate,
         SubmitPersist, SubmitDelayed, SubmitReady, SubmitBlock, SubmitFull, SubmitMark
<1>2. ~DelayStep
  BY <1>0 DEF DelayStep, DelayTake, DelayCheck, DelayPush, DelayMark, DelayStop,
              DelayDrain, DelayExit
<1>3. ASSUME NEW w \in Workers, WorkerStep(w)
      PROVE  WorkerRetry(w) /\ wjob[w] = j /\ row'[j] = attempt[j] + 1
  BY <1>0, <1>3
     DEF WorkerStep, WorkerPop, WorkerExit, WorkerCheck, WorkerStart, WorkerReturn,
         WorkerMark, WorkerRetry, WorkerRelease, WorkerErase
<1>4. \A k \in Jobs : ~ClientCancel(k)
  BY DEF ClientCancel
<1>5. \A a \in Agents : ~CancelStep(a)
  BY <1>0 DEF CancelStep, CancelHeap, CancelQueue, CancelErase
<1>6. ~(ShutdownStep \/ UNCHANGED vars)
  BY DEF ShutdownStep, ShutdownBegin, ShutdownClose, ShutdownDone, ShutdownTimeout, vars
<1> QED BY <1>1, <1>2, <1>3, <1>4, <1>5, <1>6 DEF Next, Submits, ShutdownStep

\* A handler is entered by WorkerStart only.
LEMMA RunningFrom ==
  ASSUME TypeOK, [Next]_vars, NEW j \in Jobs, HeldRunning(j)',
         ~\E w \in Workers : WorkerStart(w) /\ wjob[w] = j
  PROVE  HeldRunning(j)
<1>0. wpc \in [Workers -> WorkerLabels] /\ wjob \in [Workers -> Jobs \cup {NoJob}]
  BY DEF TypeOK, WorkerLabels
<1>1. PICK w \in Workers : wjob'[w] = j /\ wpc'[w] \in {"run", "succeed", "fail", "retry"}
  BY DEF HeldRunning
<1>2. CASE wpc'[w] = wpc[w] /\ wjob'[w] = wjob[w]
  BY <1>1, <1>2 DEF HeldRunning
<1>3. CASE WorkerStep(w)
  <2>1. wjob' = wjob /\ (WorkerReturn(w) \/ WorkerStart(w))
    BY <1>0, <1>1, <1>3
       DEF WorkerStep, WorkerPop, WorkerExit, WorkerCheck, WorkerStart, WorkerReturn,
           WorkerMark, WorkerRetry, WorkerRelease, WorkerErase, WorkerAt
  <2> QED BY <1>1, <2>1 DEF WorkerReturn, HeldRunning
<1> QED BY <1>2, <1>3, WorkersAlone

\* An attempt lasts until the row is deleted, or saved for the next one.
LEMMA AttemptingStays ==
  ASSUME TypeOK, [Next]_vars, NEW j \in Jobs, Attempting(j), row'[j] # NoRow,
         ~\E w \in Workers : WorkerRetry(w) /\ wjob[w] = j
  PROVE  Attempting(j)'
<1>0. /\ wpc \in [Workers -> WorkerLabels] /\ wjob \in [Workers -> Jobs \cup {NoJob}]
      /\ row \in [Jobs -> Nat \cup {NoRow}]
  BY DEF TypeOK, WorkerLabels
<1>1. PICK w \in Workers :
        wjob[w] = j /\ wpc[w] \in {"run", "succeed", "fail", "retry", "release", "erase"}
  BY DEF Attempting
<1>2. CASE wpc'[w] = wpc[w] /\ wjob'[w] = wjob[w]
  BY <1>1, <1>2 DEF Attempting
<1>3. CASE WorkerStep(w)
  <2>1. ~WorkerErase(w)
    BY <1>0, <1>1 DEF WorkerErase, Erase
  <2>2. wjob'[w] = j /\ wpc'[w] \in {"succeed", "fail", "retry", "release", "erase"}
    BY <1>0, <1>1, <1>3, <2>1
       DEF WorkerStep, WorkerPop, WorkerExit, WorkerCheck, WorkerStart, WorkerReturn,
           WorkerMark, WorkerRetry, WorkerRelease, WorkerAt
  <2> QED BY <2>2 DEF Attempting
<1> QED BY <1>2, <1>3, WorkersAlone

\* The attempt a row carries is the one its entry will begin, or has begun; the
\* handler has run at most once for each attempt before it, and once more for each
\* attempt that a crash has hit.
Due(j) == IF todo[j] # NoRow THEN todo[j] ELSE attempt[j]

RowsFit == \A j \in Jobs :
  /\ row[j] # NoRow /\ Placed(j) => row[j] = attempt[j]
  /\ row[j] # NoRow /\ Pending(j) => row[j] = Due(j)
  /\ ~Past(j) => starts[j] = 0 /\ attempt[j] = 0 /\ row[j] \in {NoRow, 0}

WithinRetries == \A j \in Jobs :
  attempt[j] <= MaxRetries[j] /\ row[j] <= MaxRetries[j] /\ todo[j] <= MaxRetries[j]

StartsFit == \A j \in Jobs :
  /\ starts[j] <= MaxRetries[j] + 1 + cut[j]
  /\ Waiting(j) => starts[j] <= attempt[j] + cut[j]
  /\ HeldRunning(j) => starts[j] <= attempt[j] + 1 + cut[j]
  /\ Pending(j) => starts[j] <= Due(j) + cut[j]
  /\ row[j] # NoRow => \/ starts[j] <= row[j] + cut[j]
                       \/ Attempting(j) /\ starts[j] <= row[j] + 1 + cut[j]

Fit == RetryAllowed /\ RowsFit /\ WithinRetries /\ StartsFit

\* The types of the numbers that Fit compares.
LEMMA FitTypes ==
  ASSUME RTypeOK, NEW j \in Jobs
  PROVE  /\ attempt[j] \in Nat /\ starts[j] \in Nat /\ cut[j] \in Nat
         /\ MaxRetries[j] \in Nat
         /\ row[j] \in Nat \cup {-1} /\ todo[j] \in Nat \cup {-1} /\ NoRow = -1
BY DispatcherAssumption DEF RTypeOK, TypeOK, NoRow

LEMMA FitRun ==
  ASSUME Restarted, Restarted', Fit, Run \/ UNCHANGED allVars
  PROVE  Fit'
<1>0. /\ TypeOK /\ TypeOK' /\ Custody /\ Custody' /\ RTypeOK /\ RTypeOK'
      /\ [Next]_vars /\ UNCHANGED <<todo, rjob, rs, cut>>
      /\ RetryAllowed /\ RowsFit /\ WithinRetries /\ StartsFit
      /\ Restoring /\ Restoring'
  BY DEF Restarted, Based, Base, Fit, Run, allVars, restoreVars, historyVars
<1>1. RetryAllowed'
  BY <1>0, RetryAllowedStep
<1> SUFFICES ASSUME NEW j \in Jobs
             PROVE  /\ row'[j] # NoRow /\ Placed(j)' => row'[j] = attempt'[j]
                    /\ row'[j] # NoRow /\ Pending(j)' => row'[j] = Due(j)'
                    /\ ~Past(j)' => starts'[j] = 0 /\ attempt'[j] = 0 /\ row'[j] \in {NoRow, 0}
                    /\ attempt'[j] <= MaxRetries[j] /\ row'[j] <= MaxRetries[j]
                    /\ todo'[j] <= MaxRetries[j]
                    /\ starts'[j] <= MaxRetries[j] + 1 + cut'[j]
                    /\ Waiting(j)' => starts'[j] <= attempt'[j] + cut'[j]
                    /\ HeldRunning(j)' => starts'[j] <= attempt'[j] + 1 + cut'[j]
                    /\ Pending(j)' => starts'[j] <= Due(j)' + cut'[j]
                    /\ row'[j] # NoRow => \/ starts'[j] <= row'[j] + cut'[j]
                                          \/ Attempting(j)' /\ starts'[j] <= row'[j] + 1 + cut'[j]
  BY <1>1 DEF Fit, RowsFit, WithinRetries, StartsFit
<1>2. /\ attempt[j] \in Nat /\ starts[j] \in Nat /\ cut[j] \in Nat
      /\ MaxRetries[j] \in Nat
      /\ row[j] \in Nat \cup {-1} /\ todo[j] \in Nat \cup {-1} /\ NoRow = -1
      /\ row'[j] \in Nat \cup {-1}
  BY <1>0, FitTypes DEF RTypeOK, TypeOK, NoRow
<1>3. /\ Past(j) => Past(j)'
      /\ Pending(j)' <=> Pending(j)
      /\ Pending(j)' => Past(j)' /\ ~Placed(j)' /\ ~Waiting(j)' /\ ~HeldRunning(j)'
  <2>1. Pending(j)' => Past(j)' /\ ~Placed(j)' /\ \A w \in Workers : wjob'[w] # j
    BY <1>0 DEF Restoring, Untouched
  <2> QED BY <1>0, <2>1, PastStays
          DEF Pending, Waiting, HeldRunning, HeldBefore, Placed, InDelayHand
<1>4. ASSUME NEW w \in Workers, wjob[w] = j
      PROVE  Past(j) /\ ~Pending(j)
  BY <1>0, <1>4, DispatcherAssumption DEF Custody, Restoring, Untouched
<1> USE DEF Due
<1>5. CASE \E w \in Workers : WorkerStart(w) /\ wjob[w] = j
  <2>1. PICK w \in Workers : WorkerStart(w) /\ wjob[w] = j
    BY <1>5
  <2>2. /\ UNCHANGED <<attempt, row>> /\ wpc'[w] = "run" /\ wjob'[w] = j
        /\ wpc[w] = "register" /\ starts'[j] = starts[j] + 1
    BY <1>0, <2>1 DEF WorkerStart, queueVars, WorkerAt, TypeOK
  <2>3. Waiting(j) /\ Placed(j)
    BY <2>1, <2>2 DEF Waiting, HeldBefore, Placed, Busy
  <2>4. ~Waiting(j)' /\ Attempting(j)'
    BY <1>0, <2>2 DEF Custody, Waiting, HeldBefore, Busy, InDelayHand, Attempting
  <2>5. starts[j] <= attempt[j] + cut[j] /\ attempt[j] <= MaxRetries[j]
        /\ row[j] <= MaxRetries[j] /\ todo[j] <= MaxRetries[j]
        /\ (row[j] # NoRow => row[j] = attempt[j])
    BY <1>0, <2>3 DEF StartsFit, WithinRetries, RowsFit
  <2>6. Past(j)' /\ ~Pending(j)'
    BY <1>3, <1>4, <2>1
  <2> QED BY <1>0, <1>2, <2>2, <2>4, <2>5, <2>6
<1>6. CASE \E w \in Workers : WorkerRetry(w) /\ wjob[w] = j
  <2>1. PICK w \in Workers : WorkerRetry(w) /\ wjob[w] = j
    BY <1>6
  <2>2. /\ attempt'[j] = attempt[j] + 1 /\ UNCHANGED starts /\ wpc[w] = "retry"
        /\ row'[j] = attempt[j] + 1
    BY <1>0, <2>1, RestartAssumption DEF WorkerRetry, Save, TypeOK
  <2>3. attempt[j] < MaxRetries[j] /\ todo[j] <= MaxRetries[j] /\ HeldRunning(j)
    BY <1>0, <2>1, <2>2 DEF RetryAllowed, WithinRetries, HeldRunning
  <2>4. starts[j] <= attempt[j] + 1 + cut[j]
    BY <1>0, <2>3 DEF StartsFit
  <2>5. Past(j)' /\ ~Pending(j)'
    BY <1>3, <1>4, <2>1
  <2> QED BY <1>0, <1>2, <2>2, <2>3, <2>4, <2>5
<1>7. CASE /\ ~\E w \in Workers : WorkerStart(w) /\ wjob[w] = j
           /\ ~\E w \in Workers : WorkerRetry(w) /\ wjob[w] = j
  <2>1. starts'[j] = starts[j]
    <3>1. ASSUME NEW w \in Workers, WorkerStart(w), wjob[w] \in Jobs,
                 starts' = [starts EXCEPT ![wjob[w]] = @ + 1]
          PROVE  starts'[j] = starts[j]
      BY <1>0, <1>7, <3>1 DEF TypeOK
    <3> QED BY <1>0, <3>1, StartsCount
  <2>2. attempt'[j] = attempt[j]
    <3>1. ASSUME NEW w \in Workers, WorkerRetry(w), wjob[w] \in Jobs,
                 attempt' = [attempt EXCEPT ![wjob[w]] = @ + 1]
          PROVE  attempt'[j] = attempt[j]
      BY <1>0, <1>7, <3>1 DEF TypeOK
    <3> QED BY <1>0, <3>1, AttemptGrows
  <2>3. Placed(j)' => Placed(j) \/ ~Past(j)
    BY <1>0, EntriesFrom DEF Past, Submitting
  <2>4. Waiting(j)' => Waiting(j) \/ ~Past(j)
    <3>1. Waiting(j)' => Placed(j)'
      BY DEF Waiting, Placed, HeldBefore, Busy, InDelayHand
    <3>2. Placed(j) => Waiting(j) \/ HeldRunning(j)
      BY <1>0, PlacedLive DEF Live
    <3> QED BY <1>0, <1>7, <2>3, <3>1, <3>2, RunningStays
  <2>5. HeldRunning(j)' => HeldRunning(j)
    BY <1>0, <1>7, RunningFrom
  <2>6. row'[j] # NoRow /\ Attempting(j) => Attempting(j)'
    BY <1>0, <1>7, AttemptingStays
  <2>7. row'[j] \in {row[j], NoRow} \/ (SubmitPersist(j) /\ row'[j] = 0)
    BY <1>0, <1>7, RowGoes
  <2>8. ASSUME SubmitPersist(j) PROVE ~Past(j) /\ (row' = row \/ ~Past(j)')
    BY <1>0, <2>8 DEF SubmitPersist, SubmitAt, Past, Submitting, TypeOK, Refusals
  <2> QED BY <1>0, <1>2, <1>3, <2>1, <2>2, <2>3, <2>4, <2>5, <2>6, <2>7, <2>8
          DEF RowsFit, WithinRetries, StartsFit
<1> QED BY <1>5, <1>6, <1>7

LEMMA FitCrash ==
  ASSUME Restarted, Fit, Crash
  PROVE  Fit'
<1>0. /\ TypeOK /\ RTypeOK /\ RowsFit /\ WithinRetries /\ StartsFit
  BY DEF Restarted, Based, Base, Fit
<1>1. RetryAllowed'
  BY DEF Crash, RetryAllowed
<1>2. ASSUME NEW j \in Jobs
      PROVE  /\ ~Placed(j)' /\ ~Pending(j)' /\ ~Waiting(j)' /\ ~HeldRunning(j)'
             /\ attempt'[j] = 0 /\ todo'[j] = NoRow /\ UNCHANGED <<row, starts>>
             /\ cut'[j] = IF Attempting(j) THEN cut[j] + 1 ELSE cut[j]
             /\ ~Past(j)' => ~Past(j)
  <2>1. ~Placed(j)' /\ ~Submitting(j)' /\ spc'[j] \in {spc[j], "lost"}
    BY <1>0, CrashEmpty
  <2>2. rs' = "list" /\ rjob' = NoJob /\ todo'[j] = NoRow
        /\ \A w \in Workers : wjob'[w] = NoJob
    BY DEF Crash, NoRows
  <2>3. ~Waiting(j)' /\ ~HeldRunning(j)' /\ ~Pending(j)'
    BY <2>1, <2>2, DispatcherAssumption
       DEF Waiting, HeldRunning, HeldBefore, Pending, Placed, InDelayHand
  <2>4. ~Past(j)' => ~Past(j)
    BY <2>1 DEF Past, Submitting
  <2> QED BY <2>1, <2>2, <2>3, <2>4 DEF Crash
<1>3. ASSUME NEW j \in Jobs
      PROVE  /\ attempt[j] \in Nat /\ starts[j] \in Nat /\ cut[j] \in Nat
             /\ MaxRetries[j] \in Nat
             /\ row[j] \in Nat \cup {-1} /\ todo[j] \in Nat \cup {-1} /\ NoRow = -1
  BY <1>0, FitTypes
<1>4. RowsFit'
  BY <1>0, <1>2 DEF RowsFit
<1>5. WithinRetries'
  BY <1>0, <1>2, <1>3 DEF WithinRetries
<1>6. StartsFit'
  BY <1>0, <1>2, <1>3 DEF StartsFit
<1> QED BY <1>1, <1>4, <1>5, <1>6 DEF Fit

LEMMA FitRestore ==
  ASSUME Restarted, Restarted', Fit, RestoreStep
  PROVE  Fit'
<1>0. /\ TypeOK /\ RTypeOK /\ RTypeOK' /\ Restoring /\ Restoring'
      /\ RetryAllowed /\ RowsFit /\ WithinRetries /\ StartsFit
      /\ UNCHANGED <<spc, wjob, wpc, starts, cut, dpc, djob>> /\ Custody'
  BY RestoreFrame DEF Restarted, Based, Base, Fit
<1>1. ASSUME NEW j \in Jobs
      PROVE  /\ attempt'[j] = attempt[j] \/ RestoreTake(j)
             /\ row'[j] \in {row[j], NoRow}
             /\ todo'[j] \in {todo[j], NoRow} \/ (RestoreList /\ todo'[j] = row[j])
  <2> USE <1>0, <1>1 DEF RestoreStep, RestoreList, RestoreOrphan, RestoreTake, RestoreLater,
              RestoreNow, RestoreFail, RestoreMark, RestoreDone, vars, queueVars
  <2>1. attempt'[j] = attempt[j] \/ RestoreTake(j)
    BY DEF TypeOK
  <2>2. row'[j] \in {row[j], NoRow}
    BY DEF TypeOK, Erase
  <2>3. todo'[j] \in {todo[j], NoRow} \/ (RestoreList /\ todo'[j] = row[j])
    BY DEF RTypeOK, NoRows
  <2> QED BY <2>1, <2>2, <2>3
<1>2. ASSUME NEW j \in Jobs, RestoreTake(j)
      PROVE  /\ Pending(j) /\ Pending(j)' /\ todo'[j] = NoRow
             /\ attempt'[j] = todo[j] /\ todo[j] # NoRow /\ UNCHANGED row
  BY <1>0, <1>2 DEF RestoreTake, Pending, RTypeOK, TypeOK
<1>3. ASSUME NEW j \in Jobs, Pending(j)' \/ Pending(j)
      PROVE  Past(j) /\ ~Attempting(j) /\ ~HeldRunning(j) /\ \A w \in Workers : wjob[w] # j
  BY <1>0, <1>3 DEF Restoring, Untouched, Attempting, HeldRunning, Past, Submitting
<1>4. RetryAllowed'
  <2> SUFFICES ASSUME NEW w \in Workers, wpc[w] = "retry"
               PROVE  attempt'[wjob[w]] < MaxRetries[wjob[w]]
    BY <1>0 DEF RetryAllowed
  <2>1. wjob[w] \in Jobs
    BY <1>0 DEF TypeOK
  <2>2. attempt'[wjob[w]] = attempt[wjob[w]]
    BY <1>1, <1>2, <1>3, <2>1
  <2> QED BY <1>0, <2>2 DEF RetryAllowed
<1> SUFFICES ASSUME NEW j \in Jobs
             PROVE  /\ row'[j] # NoRow /\ Placed(j)' => row'[j] = attempt'[j]
                    /\ row'[j] # NoRow /\ Pending(j)' => row'[j] = Due(j)'
                    /\ ~Past(j)' => starts'[j] = 0 /\ attempt'[j] = 0 /\ row'[j] \in {NoRow, 0}
                    /\ attempt'[j] <= MaxRetries[j] /\ row'[j] <= MaxRetries[j]
                    /\ todo'[j] <= MaxRetries[j]
                    /\ starts'[j] <= MaxRetries[j] + 1 + cut'[j]
                    /\ Waiting(j)' => starts'[j] <= attempt'[j] + cut'[j]
                    /\ HeldRunning(j)' => starts'[j] <= attempt'[j] + 1 + cut'[j]
                    /\ Pending(j)' => starts'[j] <= Due(j)' + cut'[j]
                    /\ row'[j] # NoRow => \/ starts'[j] <= row'[j] + cut'[j]
                                          \/ Attempting(j)' /\ starts'[j] <= row'[j] + 1 + cut'[j]
  BY <1>4 DEF Fit, RowsFit, WithinRetries, StartsFit
<1>5. /\ attempt[j] \in Nat /\ starts[j] \in Nat /\ cut[j] \in Nat
      /\ MaxRetries[j] \in Nat
      /\ row[j] \in Nat \cup {-1} /\ todo[j] \in Nat \cup {-1} /\ NoRow = -1
  BY <1>0, FitTypes
<1>6. /\ starts'[j] = starts[j] /\ cut'[j] = cut[j]
      /\ Past(j)' <=> Past(j)
      /\ Attempting(j)' <=> Attempting(j)
      /\ HeldRunning(j)' <=> HeldRunning(j)
      /\ HeldBefore(j)' <=> HeldBefore(j)
  BY <1>0 DEF Past, Submitting, Attempting, HeldRunning, HeldBefore
<1>7. Placed(j)' => Placed(j) \/ (Pending(j) /\ ~Pending(j)')
  BY PendingGoes
<1>8. Pending(j)' => Pending(j) \/ (RestoreList /\ row[j] # NoRow)
  BY PendingGoes
<1>9. Pending(j) => ~Placed(j) /\ ~Waiting(j)
  <2>1. Pending(j) => ~Placed(j) /\ \A w \in Workers : wjob[w] # j
    BY <1>0 DEF Restoring, Untouched
  <2> QED BY <2>1 DEF Waiting, HeldBefore, Placed
<1>10. Waiting(j)' => Placed(j)' /\ (Waiting(j) \/ Pending(j))
  <2>1. Waiting(j)' => Placed(j)'
    BY DEF Waiting, Placed, HeldBefore, Busy, InDelayHand
  <2>2. Placed(j) => Waiting(j) \/ HeldRunning(j)
    BY <1>0, PlacedLive DEF Live
  <2>3. HeldRunning(j) => ~Waiting(j)'
    BY <1>0 DEF Custody, HeldRunning, Waiting, HeldBefore, Busy, InDelayHand
  <2> QED BY <1>7, <2>1, <2>2, <2>3
<1>11. Placed(j)' /\ ~Placed(j) => todo[j] = NoRow
  <2> SUFFICES ASSUME Pending(j), ~Pending(j)', Placed(j)', ~Placed(j) PROVE todo[j] = NoRow
    BY <1>7
  <2> QED BY <1>0 DEF RestoreStep, RestoreList, RestoreOrphan, RestoreTake, RestoreLater,
              RestoreNow, RestoreFail, RestoreMark, RestoreDone, vars, queueVars,
              delayVars, Pending, Restoring, Placed, InDelayHand, Busy
<1>12. Pending(j)' /\ ~RestoreTake(j) /\ ~RestoreList => todo'[j] = todo[j]
  BY <1>0 DEF RTypeOK, RestoreStep, RestoreList, RestoreOrphan, RestoreTake, RestoreLater,
              RestoreNow, RestoreFail, RestoreMark, RestoreDone, Pending, NoRows
<1> USE DEF Due
<1>13. CASE RestoreTake(j)
  <2>1. ~Waiting(j)' /\ ~HeldRunning(j)' /\ ~Placed(j)' /\ Past(j)'
    BY <1>2, <1>3, <1>6, <1>7, <1>9, <1>10, <1>13
  <2> QED BY <1>0, <1>2, <1>5, <1>6, <1>13, <2>1 DEF RowsFit, WithinRetries, StartsFit
<1>14. CASE RestoreList
  <2>1. /\ UNCHANGED <<attempt, row>> /\ todo' = row
        /\ Placed(j)' <=> Placed(j)
        /\ Waiting(j)' <=> Waiting(j)
    BY <1>14 DEF RestoreList, vars, queueVars, workerVars, delayVars, Placed, Waiting,
                 HeldBefore, Busy, InDelayHand
  <2>2. ~Attempting(j) /\ (Pending(j)' => row[j] # NoRow)
    BY <1>0, <1>8, <1>14, DispatcherAssumption
       DEF RestoreList, Restoring, Attempting, RTypeOK, Pending
  <2> QED BY <1>0, <1>5, <1>6, <2>1, <2>2 DEF RowsFit, WithinRetries, StartsFit
<1>15. CASE ~RestoreTake(j) /\ ~RestoreList
  <2>1. attempt'[j] = attempt[j] /\ row'[j] \in {row[j], NoRow}
        /\ todo'[j] \in {todo[j], NoRow}
    BY <1>1, <1>15
  <2> QED BY <1>0, <1>3, <1>5, <1>6, <1>7, <1>8, <1>9, <1>10, <1>11, <1>12, <1>15, <2>1
          DEF RowsFit, WithinRetries, StartsFit
<1> QED BY <1>13, <1>14, <1>15

LEMMA InitFit == RInit => Fit
<1> SUFFICES ASSUME RInit PROVE Fit
  OBVIOUS
<1>1. Custody /\ RTypeOK
  BY InitCustody, InitRestarted DEF RInit, Restarted
<1>2. ASSUME NEW j \in Jobs
      PROVE  /\ ~Placed(j) /\ ~Pending(j) /\ ~Waiting(j) /\ ~HeldRunning(j)
             /\ attempt[j] = 0 /\ row[j] = NoRow /\ todo[j] = NoRow
             /\ starts[j] = 0 /\ cut[j] = 0 /\ MaxRetries[j] \in Nat /\ NoRow = -1
  <2>1. ~Past(j)
    BY DEF RInit, Init, Past
  <2>2. ~Placed(j) /\ \A w \in Workers : wjob[w] # j
    BY <1>1, <2>1, DispatcherAssumption DEF Custody
  <2> QED BY <1>1, <2>2, FitTypes
          DEF RInit, Init, NoRows, Pending, Waiting, HeldRunning, HeldBefore, Placed,
              InDelayHand
<1>3. RowsFit /\ WithinRetries /\ StartsFit
  BY <1>2 DEF RowsFit, WithinRetries, StartsFit
<1> QED BY <1>3 DEF Fit, RetryAllowed, RInit, Init

\* However often the process ends, a handler runs once for each attempt that the
\* retry policy grants, and once more for each crash that hit an attempt: Restore
\* queues a row with the attempt number it was saved with.
THEOREM RestartAttemptsBounded == RSpec => []AttemptsBounded
<1>1. Restarted /\ Fit /\ Restarted' /\ [RNext]_allVars => Fit'
  BY FitRun, FitCrash, FitRestore DEF RNext
<1>2. Fit => AttemptsBounded
  BY DEF Fit, StartsFit, AttemptsBounded
<1> QED BY <1>1, <1>2, InitFit, RestartInvariant, PTL DEF RSpec

-----------------------------------------------------------------------------
\* Who deletes the row of j.
LEMMA RowLeaves ==
  ASSUME TypeOK, [Next]_vars, NEW j \in Jobs, row[j] # NoRow, row'[j] = NoRow
  PROVE  \/ SubmitFull(j) \/ SubmitCtx(j)
         \/ dpc = "drain" /\ j \in heap \ heap'
         \/ \E w \in Workers : wpc[w] = "erase" /\ wjob[w] = j
         \/ \E a \in Agents : cpc[a] = "erase" /\ cjob[a] = j
<1> USE DEF Save, Erase
<1>0. row \in [Jobs -> Nat \cup {NoRow}] /\ attempt \in [Jobs -> Nat]
  BY DEF TypeOK
<1>1. ASSUME NEW k \in Jobs, Submits(k) \/ SubmitAdmit(k)
      PROVE  SubmitFull(j) \/ SubmitCtx(j)
  <2>1. ~SubmitPersist(k)
    BY <1>0 DEF SubmitPersist, NoRow
  <2> QED BY <1>0, <1>1, <2>1
     DEF Submits, SubmitAdmit, SubmitStep, SubmitSkip, SubmitCtx, SubmitGate,
         SubmitDelayed, SubmitReady, SubmitBlock, SubmitFull, SubmitMark
<1>2. DelayStep => dpc = "drain" /\ j \in heap \ heap'
  BY <1>0 DEF DelayStep, DelayTake, DelayCheck, DelayPush, DelayMark, DelayStop,
              DelayDrain, DelayExit
<1>3. ASSUME NEW w \in Workers, WorkerStep(w) PROVE wpc[w] = "erase" /\ wjob[w] = j
  <2>1. ~WorkerRetry(w)
    BY <1>0 DEF WorkerRetry, NoRow
  <2> QED BY <1>0, <1>3, <2>1
     DEF WorkerStep, WorkerPop, WorkerExit, WorkerCheck, WorkerStart, WorkerReturn,
         WorkerMark, WorkerRelease, WorkerErase
<1>4. \A k \in Jobs : ~ClientCancel(k)
  BY DEF ClientCancel
<1>5. \A a \in Agents : CancelStep(a) => cpc[a] = "erase" /\ cjob[a] = j
  BY <1>0 DEF CancelStep, CancelHeap, CancelQueue, CancelErase
<1>6. ~(ShutdownStep \/ UNCHANGED vars)
  BY DEF ShutdownStep, ShutdownBegin, ShutdownClose, ShutdownDone, ShutdownTimeout, vars
<1> QED BY <1>1, <1>2, <1>3, <1>4, <1>5, <1>6 DEF Next, Submits, ShutdownStep

\* Without ConflictReplace, only the client cancels, and it cancels what it was told
\* is accepted.
CancelsAsked ==
  /\ \A a \in Agents : victims[a] \subseteq asked
  /\ cancelled \subseteq asked
  /\ \A j \in asked : spc[j] = "accepted"
  /\ Policy = "allow" => inFlight = {}

LEMMA CancelsAskedRun ==
  ASSUME Policy # "replace", TypeOK, CancelsAsked, [Next]_vars
  PROVE  CancelsAsked'
<1> USE DEF submitVars, cancelVars, Release
<1>0. /\ victims \in [Agents -> SUBSET Jobs] /\ Client \in Agents /\ Jobs \subseteq Agents
      /\ cancelled \subseteq Jobs /\ asked \subseteq Jobs
      /\ \A a \in Agents : cpc[a] # "heap" => cjob[a] \in victims[a]
  BY DispatcherAssumption DEF TypeOK, Agents
<1>1. ASSUME NEW j \in asked PROVE spc'[j] = "accepted"
  <2>1. spc[j] = "accepted" /\ j \in Jobs
    BY <1>0 DEF CancelsAsked
  <2>2. ASSUME NEW k \in Jobs, Submits(k) \/ SubmitAdmit(k) PROVE spc'[j] = spc[j]
    BY <2>1, <2>2, SubmitGoes DEF Entered
  <2> QED BY <2>1, <2>2, SubmitsAlone
<1>2. ASSUME NEW j \in Jobs, SubmitAdmit(j) PROVE CancelsAsked'
  <2>1. Rivals(j) = {}
    BY <1>2, DispatcherAssumption DEF SubmitAdmit, CancelsAsked, Rivals
  <2>2. \A a \in Agents : victims'[a] \subseteq asked
    BY <1>0, <1>2, <2>1 DEF SubmitAdmit, CancelsAsked
  <2> QED BY <1>1, <1>2, <2>2 DEF SubmitAdmit, CancelsAsked
<1>3. ASSUME UNCHANGED <<victims, cancelled, asked>>, inFlight' \subseteq inFlight
      PROVE  CancelsAsked'
  BY <1>1, <1>3 DEF CancelsAsked
<1>4. ASSUME NEW j \in Jobs, Submits(j) PROVE CancelsAsked'
  BY <1>3, <1>4 DEF Submits, SubmitStep, SubmitSkip, SubmitCtx, SubmitGate, SubmitPersist,
                    SubmitDelayed, SubmitReady, SubmitBlock, SubmitFull, SubmitMark
<1>5. CASE DelayStep
  BY <1>3, <1>5 DEF DelayStep, DelayTake, DelayCheck, DelayPush, DelayMark, DelayStop,
                    DelayDrain, DelayExit
<1>6. ASSUME NEW w \in Workers, WorkerStep(w) PROVE CancelsAsked'
  BY <1>3, <1>6 DEF WorkerStep, WorkerPop, WorkerExit, WorkerCheck, WorkerStart,
                    WorkerReturn, WorkerMark, WorkerRetry, WorkerRelease, WorkerErase
<1>7. ASSUME NEW j \in Jobs, ClientCancel(j) PROVE CancelsAsked'
  <2>1. /\ asked' = asked \cup {j} /\ spc' = spc /\ spc[j] = "accepted"
        /\ victims' = [victims EXCEPT ![Client] = {j}]
        /\ UNCHANGED <<cancelled, inFlight>>
    BY <1>7 DEF ClientCancel
  <2> QED BY <1>0, <2>1 DEF CancelsAsked
<1>8. ASSUME NEW a \in Agents, CancelStep(a) PROVE CancelsAsked'
  <2>1. UNCHANGED <<asked, spc>> /\ inFlight' \subseteq inFlight
    BY <1>8 DEF CancelStep, CancelHeap, CancelQueue, CancelErase
  <2>2. \A b \in Agents : victims'[b] \subseteq victims[b]
    BY <1>0, <1>8 DEF CancelStep, CancelHeap, CancelQueue, CancelErase
  <2>3. cancelled' \subseteq cancelled \cup victims[a]
    BY <1>0, <1>8 DEF CancelStep, CancelHeap, CancelQueue, CancelErase
  <2> QED BY <2>1, <2>2, <2>3 DEF CancelsAsked
<1>9. CASE ShutdownStep \/ UNCHANGED vars
  BY <1>3, <1>9 DEF ShutdownStep, ShutdownBegin, ShutdownClose, ShutdownDone,
                    ShutdownTimeout, vars
<1> QED BY <1>2, <1>4, <1>5, <1>6, <1>7, <1>8, <1>9 DEF Next, Submits, ShutdownStep

\* A job that Submit has entered, that nobody has cancelled and of which no attempt
\* has returned: the dispatcher owes it one.
Owing(j) == Entered(j) /\ j \notin ended \cup asked
InSight(j) == Placed(j) \/ Pending(j) \/ Closed \/ rs \in {"list", "failed"}

Safe ==
  /\ CancelsAsked
  /\ \A w \in Workers :
       wpc[w] \in {"succeed", "fail", "retry", "retried", "release", "erase"} =>
         wjob[w] \in ended
  /\ \A j \in Jobs : spc[j] \in {"place", "blocked"} => row[j] # NoRow
  /\ \A j \in Jobs : Owing(j) => row[j] # NoRow /\ InSight(j)

LEMMA AskedGrows == [Next]_vars => asked \subseteq asked'
BY DEF Next, vars, cancelVars, DelayStep, DelayTake, DelayCheck,
       DelayPush, DelayMark, DelayStop, DelayDrain, DelayExit, WorkerStep,
       WorkerPop, WorkerExit, WorkerCheck, WorkerStart, WorkerReturn,
       WorkerMark, WorkerRetry, WorkerRelease, WorkerErase, ClientCancel,
       CancelStep, CancelHeap, CancelQueue, CancelErase, ShutdownBegin,
       ShutdownClose, ShutdownDone, ShutdownTimeout, SubmitAdmit, SubmitStep,
       SubmitSkip, SubmitCtx, SubmitGate, SubmitPersist, SubmitDelayed,
       SubmitReady, SubmitBlock, SubmitFull, SubmitMark

LEMMA ClosedStays == [Next]_vars /\ Closed => Closed'
BY DEF Closed, Next, vars, shutdownVars, DelayStep, DelayTake, DelayCheck,
       DelayPush, DelayMark, DelayStop, DelayDrain, DelayExit, WorkerStep,
       WorkerPop, WorkerExit, WorkerCheck, WorkerStart, WorkerReturn,
       WorkerMark, WorkerRetry, WorkerRelease, WorkerErase, ClientCancel,
       CancelStep, CancelHeap, CancelQueue, CancelErase, ShutdownBegin,
       ShutdownClose, ShutdownDone, ShutdownTimeout, SubmitAdmit, SubmitStep,
       SubmitSkip, SubmitCtx, SubmitGate, SubmitPersist, SubmitDelayed,
       SubmitReady, SubmitBlock, SubmitFull, SubmitMark

LEMMA SafeRun ==
  ASSUME Policy # "replace", Restarted, Restarted', Safe, Run \/ UNCHANGED allVars
  PROVE  Safe'
<1>0. /\ TypeOK /\ TypeOK' /\ Custody /\ [Next]_vars /\ UNCHANGED <<todo, rjob, rs>>
      /\ ended \subseteq ended' /\ Restoring
      /\ CancelsAsked
  BY DEF Restarted, Based, Base, Safe, Run, allVars, restoreVars, historyVars
<1>a. /\ wpc \in [Workers -> WorkerLabels] /\ wjob \in [Workers -> Jobs \cup {NoJob}]
      /\ spc \in [Jobs -> {"idle", "gate", "persist", "place", "blocked", "mark",
                           "accepted", "lost"} \cup Refusals]
  BY <1>0 DEF TypeOK, WorkerLabels
<1>1. CancelsAsked'
  BY <1>0, CancelsAskedRun
<1>2. /\ \A w \in Workers : wpc[w] = "run" /\ wpc'[w] # "run" => wjob[w] \in ended'
      /\ \A j \in Jobs : dpc = "drain" /\ j \in heap \ heap' => j \in ended'
  <2>1. CASE Run
    BY <2>1 DEF Run
  <2>2. CASE UNCHANGED allVars
    BY <2>2 DEF allVars, vars, workerVars, queueVars
  <2> QED BY <2>1, <2>2
<1>3. ASSUME NEW w \in Workers,
             wpc'[w] \in {"succeed", "fail", "retry", "retried", "release", "erase"}
      PROVE  wjob'[w] \in ended'
  <2>1. CASE wpc'[w] = wpc[w] /\ wjob'[w] = wjob[w]
    BY <1>0, <1>3, <2>1 DEF Safe
  <2>2. CASE WorkerStep(w)
    <3>1. wjob' = wjob /\ wpc[w] \in {"run", "succeed", "fail", "retry", "retried", "release"}
      BY <1>a, <1>3, <2>2
         DEF WorkerStep, WorkerPop, WorkerExit, WorkerCheck, WorkerStart, WorkerReturn,
             WorkerMark, WorkerRetry, WorkerRelease, WorkerErase, WorkerAt
    <3> QED BY <1>0, <1>2, <1>3, <3>1 DEF Safe
  <2> QED BY <1>0, <2>1, <2>2, WorkersAlone
<1>4. ASSUME NEW j \in Jobs, row[j] # NoRow, row'[j] = NoRow, j \notin ended',
             spc'[j] \in {"place", "blocked"} \/ Entered(j)'
      PROVE  j \in asked
  <2>1. ~SubmitFull(j) /\ ~SubmitCtx(j)
    BY <1>a, <1>4 DEF SubmitFull, SubmitCtx, SubmitAt, Entered
  <2>2. \A w \in Workers : wpc[w] = "erase" => wjob[w] # j
    BY <1>0, <1>4 DEF Safe
  <2>3. PICK a \in Agents : cpc[a] = "erase" /\ cjob[a] = j
    BY <1>0, <1>2, <1>4, <2>1, <2>2, RowLeaves
  <2> QED BY <1>0, <2>3 DEF TypeOK, CancelsAsked
<1>5. ASSUME NEW j \in Jobs, spc'[j] \in {"place", "blocked"} PROVE row'[j] # NoRow
  <2>1. CASE spc[j] \in {"place", "blocked"}
    <3>1. row[j] # NoRow /\ j \notin asked
      BY <2>1 DEF Safe, CancelsAsked
    <3>2. ~Past(j)
      BY <2>1 DEF Past, Submitting
    <3>3. ~SubmitFull(j) /\ ~SubmitCtx(j)
      BY <1>a, <1>5 DEF SubmitFull, SubmitCtx, SubmitAt
    <3>4. j \notin heap /\ \A w \in Workers : wjob[w] # j
      BY <1>0, <3>2, DispatcherAssumption DEF Custody, Placed
    <3>5. \A a \in Agents : cpc[a] = "erase" => cjob[a] # j
      BY <1>0, <3>1 DEF TypeOK, CancelsAsked
    <3> QED BY <1>0, <3>1, <3>3, <3>4, <3>5, RowLeaves
  <2>2. CASE spc[j] \notin {"place", "blocked"}
    <3>1. SubmitPersist(j)
      <4>1. PICK k \in Jobs : Submits(k) \/ SubmitAdmit(k)
        BY <1>5, <2>2, SubmitsAlone, <1>0
      <4>2. k = j
        BY <1>0, <1>5, <2>2, <4>1, SubmitGoes
      <4> QED BY <1>a, <1>5, <2>2, <4>1, <4>2
            DEF Submits, SubmitAdmit, SubmitStep, SubmitSkip, SubmitCtx, SubmitGate,
                SubmitPersist, SubmitDelayed, SubmitReady, SubmitBlock, SubmitFull,
                SubmitMark, SubmitAt, Refusals
    <3>2. spc'[j] = "place" /\ row' = [row EXCEPT ![j] = 0]
      BY <1>a, <1>5, <3>1, RestartAssumption DEF SubmitPersist, SubmitAt, Save
    <3> QED BY <1>0, <3>2 DEF TypeOK, NoRow
  <2> QED BY <2>1, <2>2
<1>6. ASSUME NEW j \in Jobs, Owing(j)' PROVE row'[j] # NoRow /\ InSight(j)'
  <2>0. Entered(j)' /\ j \notin ended' /\ j \notin asked' /\ j \notin ended
    BY <1>0, <1>6 DEF Owing
  <2>1. asked \subseteq asked'
    BY <1>0, AskedGrows
  <2>2. CASE ~Entered(j)
    <3>1. spc[j] \in {"place", "blocked"} /\ Placed(j)'
      <4>1. PICK k \in Jobs : Submits(k) \/ SubmitAdmit(k)
        BY <1>0, <2>0, <2>2, SubmitsAlone DEF Entered
      <4>2. k = j
        BY <1>0, <2>0, <2>2, <4>1, SubmitGoes DEF Entered
      <4>3. spc[j] \in {"place", "blocked"}
        BY <1>a, <2>0, <2>2, <4>1, <4>2
           DEF Submits, SubmitAdmit, SubmitStep, SubmitSkip, SubmitCtx, SubmitGate,
               SubmitPersist, SubmitDelayed, SubmitReady, SubmitBlock, SubmitFull,
               SubmitMark, SubmitAt, Refusals, Entered
      <4> QED BY <1>0, <2>0, <2>2, <4>1, <4>2, <4>3, SubmitGoes
    <3>2. row'[j] # NoRow
      BY <1>4, <2>0, <2>1, <3>1 DEF Safe
    <3> QED BY <3>1, <3>2 DEF InSight
  <2>3. CASE Entered(j)
    <3>1. row[j] # NoRow /\ InSight(j)
      BY <2>0, <2>1, <2>3 DEF Safe, Owing
    <3>2. row'[j] # NoRow
      BY <1>4, <2>0, <2>1, <3>1
    <3>3. CASE Placed(j)
      <4>1. j \notin cancelled
        BY <1>0, <2>0, <2>1 DEF CancelsAsked
      <4>2. ~AgentOwes(j)' /\ ~InCancel(j)'
        <5>1. \A a \in Agents : cpc'[a] # "heap" => cjob'[a] \in asked'
          BY <1>0, <1>1 DEF CancelsAsked, TypeOK
        <5> QED BY <2>0, <5>1 DEF AgentOwes, InCancel
      <4>3. WorkerOwes(j)' => Placed(j)'
        BY <1>3, <2>0 DEF WorkerOwes, Placed, Busy
      <4> QED BY <1>0, <3>2, <3>3, <4>1, <4>2, <4>3, LeavesOwed, ClosedStays DEF InSight
    <3>4. CASE ~Placed(j)
      BY <1>0, <3>1, <3>2, <3>4, ClosedStays DEF InSight, Pending
    <3> QED BY <3>3, <3>4
  <2> QED BY <2>2, <2>3
<1> QED BY <1>1, <1>3, <1>5, <1>6 DEF Safe

LEMMA SafeCrash ==
  ASSUME Restarted, Safe, Crash
  PROVE  Safe'
<1>0. TypeOK
  BY DEF Restarted, Based, Base
<1>1. /\ UNCHANGED <<asked, ended, row>> /\ rs' = "list" /\ inFlight' = {} /\ cancelled' = {}
      /\ \A a \in Agents : victims'[a] = {}
      /\ \A w \in Workers : wpc'[w] = "pop"
  BY DEF Crash
<1>2. \A j \in Jobs : /\ spc'[j] \in {spc[j], "lost"} /\ ~Submitting(j)' /\ spc'[j] # "mark"
                      /\ spc[j] = "accepted" => spc'[j] = "accepted"
  BY <1>0, CrashEmpty DEF Crash
<1>3. CancelsAsked'
  BY <1>0, <1>1, <1>2, DispatcherAssumption DEF Safe, CancelsAsked, TypeOK
<1>4. \A j \in Jobs : spc'[j] \notin {"place", "blocked"}
  BY <1>2 DEF Submitting
<1>5. ASSUME NEW j \in Jobs, Owing(j)' PROVE row'[j] # NoRow /\ InSight(j)'
  <2>1. Owing(j)
    BY <1>1, <1>2, <1>5 DEF Owing, Entered
  <2> QED BY <1>1, <2>1 DEF Safe, InSight
<1> QED BY <1>1, <1>3, <1>4, <1>5 DEF Safe

LEMMA SafeRestore ==
  ASSUME Restarted, Safe, RestoreStep
  PROVE  Safe'
<1>0. /\ TypeOK /\ RTypeOK /\ Restoring
      /\ UNCHANGED <<spc, wpc, wjob, cancelled, victims, asked, sh>>
  BY RestoreFrame DEF Restarted, Based, Base
<1>1. ended \subseteq ended' /\ (Policy = "allow" => inFlight' = inFlight)
  BY DEF RestoreStep, RestoreList, RestoreOrphan, RestoreTake, RestoreLater,
       RestoreNow, RestoreFail, RestoreMark, RestoreDone, vars, submitVars, historyVars
<1>2. CancelsAsked'
  BY <1>0, <1>1 DEF Safe, CancelsAsked
<1>3. ASSUME NEW j \in Jobs, row'[j] # row[j] PROVE Past(j) /\ j \in ended'
  <2>1. RestoreOrphan(j)
    BY <1>0, <1>3 DEF Erase, TypeOK, RestoreStep, RestoreList, RestoreOrphan, RestoreTake, RestoreLater,
       RestoreNow, RestoreFail, RestoreMark, RestoreDone, vars
  <2> QED BY <1>0, <2>1 DEF Restoring, Pending, Untouched, RestoreOrphan
<1>4. ASSUME NEW j \in Jobs, Owing(j)' PROVE row'[j] # NoRow /\ InSight(j)'
  <2>1. Owing(j) /\ j \notin ended'
    BY <1>0, <1>1, <1>4 DEF Owing, Entered
  <2>2. row[j] # NoRow /\ InSight(j) /\ row'[j] # NoRow
    BY <1>3, <2>1 DEF Safe
  <2>3. CASE Placed(j)
    <3>1. /\ heap \subseteq heap' /\ UNCHANGED <<dpc, djob, wpc, wjob>>
          /\ ready' = ready \/ (ready' = Append(ready, rjob) /\ rjob \in Jobs)
      BY <1>0, RestoreFrame DEF queueVars, RTypeOK, RestoreStep, RestoreList, RestoreOrphan, RestoreTake, RestoreLater,
                  RestoreNow, RestoreFail, RestoreMark, RestoreDone, vars
    <3>2. j \in ToSet(ready) => j \in ToSet(ready')
      <4>1. CASE ready' = ready
        BY <4>1
      <4>2. CASE ready' = Append(ready, rjob) /\ rjob \in Jobs
        BY <1>0, <4>2, AppendSet DEF TypeOK
      <4> QED BY <3>1, <4>1, <4>2
    <3> QED BY <2>2, <2>3, <3>1, <3>2 DEF InSight, Placed, InDelayHand, Busy
  <2>4. CASE Pending(j)
    <3>1. ASSUME RestoreLater \/ RestoreNow, rjob = j PROVE Placed(j)'
      <4>1. j \in heap' \/ ready' = Append(ready, j)
        BY <3>1 DEF RestoreLater, RestoreNow
      <4> QED BY <1>0, <4>1, AppendSet DEF Placed, TypeOK
    <3>2. CASE RestoreLater \/ RestoreNow
      BY <2>2, <2>4, <3>1, <3>2 DEF InSight, Pending, RestoreLater, RestoreNow
    <3>3. ASSUME NEW k \in Jobs, RestoreOrphan(k) \/ RestoreTake(k) PROVE InSight(j)'
      BY <1>0, <2>1, <2>4, <3>3 DEF InSight, Pending, RTypeOK, RestoreOrphan, RestoreTake
    <3>4. CASE RestoreList \/ RestoreFail \/ RestoreMark \/ RestoreDone
      BY <1>0, <2>2, <2>4, <3>4
         DEF InSight, Pending, RTypeOK, NoRows, RestoreList, RestoreFail, RestoreMark, RestoreDone
    <3> QED BY <2>2, <3>2, <3>3, <3>4 DEF RestoreStep
  <2>5. CASE Closed
    BY <1>0, <2>2, <2>5 DEF InSight, Closed
  <2>6. CASE rs \in {"list", "failed"}
    <3>1. RestoreList \/ RestoreFail
      BY <2>6 DEF RestoreStep, RestoreOrphan, RestoreTake, RestoreLater, RestoreNow,
                  RestoreMark, RestoreDone
    <3> QED BY <2>2, <3>1 DEF InSight, Pending, RestoreList, RestoreFail
  <2> QED BY <2>2, <2>3, <2>4, <2>5, <2>6 DEF InSight
<1>5. \A j \in Jobs : spc[j] \in {"place", "blocked"} => row'[j] # NoRow
  BY <1>3 DEF Safe, Past, Submitting
<1> QED BY <1>0, <1>1, <1>2, <1>4, <1>5 DEF Safe

\* What Submit accepted and nobody cancelled is never lost over any number of crashes,
\* except by Replace: until an attempt has returned there is a row, and an entry, a
\* worker or Restore that will see to the job, unless the dispatcher is closed.
THEOREM RestartNothingLost ==
  ASSUME Policy # "replace"
  PROVE  RSpec => []NothingLost
<1>1. RInit => Safe
  <2> SUFFICES ASSUME RInit PROVE Safe
    OBVIOUS
  <2> QED BY DispatcherAssumption
          DEF RInit, Init, Safe, CancelsAsked, Owing, Entered
<1>2. Restarted /\ Safe /\ Restarted' /\ [RNext]_allVars => Safe'
  BY SafeRun, SafeCrash, SafeRestore DEF RNext
<1>3. Restarted /\ Safe => NothingLost
  BY PlacedLive DEF Restarted, Based, Base, Safe, Owing, Entered, InSight, NothingLost
<1> QED BY <1>1, <1>2, <1>3, RestartInvariant, PTL DEF RSpec
=============================================================================
