-------------------------- MODULE DispatcherProofs --------------------------
(***************************************************************************)
(* Theorems about Dispatcher for every set of jobs and workers and every   *)
(* configuration.                                                          *)
(***************************************************************************)
EXTENDS Dispatcher, QueueLemmas, FiniteSetTheorems

Statuses == {"unknown", "queued", "delayed", "running", "succeeded", "failed",
             "cancelled"}

TableType == status \in [Jobs -> Statuses] /\ statusOrder \in Seq(Jobs)

\* markStatus keeps the types of the table.
LEMMA MarkType ==
  ASSUME TableType, NEW j \in Jobs, NEW s \in Statuses, MarkStatus(j, s)
  PROVE  TableType'
<1> USE DispatcherAssumption DEF TableType
<1>1. CASE Table!Overwrite(j, s)
  BY <1>1 DEF Table!Overwrite, Statuses
<1>2. CASE Table!Insert(j, s)
  BY <1>2, AppendSet DEF Table!Insert, Statuses
<1>3. CASE Table!Evict(j, s)
  <2>1. statusOrder # <<>>
    BY <1>3 DEF Table!Evict
  <2>2. Tail(statusOrder) \in Seq(Jobs)
    BY <2>1, TailSet
  <2> QED BY <1>3, <2>2, AppendSet DEF Table!Evict, Statuses
<1> QED BY <1>1, <1>2, <1>3 DEF MarkStatus, Table!Mark

\* So do the other steps that write a row, the queue and the label of a worker.
LEMMA SaveType ==
  ASSUME row \in [Jobs -> Nat \cup {NoRow}], NEW j \in Jobs, NEW n \in Nat,
         Save(j, n) \/ UNCHANGED row
  PROVE  row' \in [Jobs -> Nat \cup {NoRow}]
BY DEF Save

LEMMA PushType ==
  ASSUME ready \in Seq(Jobs), NEW j \in Jobs,
         ready' = Append(ready, j) \/ UNCHANGED ready
  PROVE  ready' \in Seq(Jobs)
BY AppendSet

WorkerLabels == {"pop", "check", "register", "run", "succeed", "fail", "retry",
                 "retried", "release", "erase", "exited"}

WorkerLabelType ==
  /\ wpc \in [Workers -> WorkerLabels]
  /\ wjob \in [Workers -> Jobs \cup {NoJob}]
  /\ \A w \in Workers : wjob[w] = NoJob <=> wpc[w] \in {"pop", "exited"}

LEMMA WorkerMoves ==
  ASSUME WorkerLabelType, NEW w \in Workers, NEW l \in WorkerLabels, WorkerAt(w, l),
         \/ UNCHANGED wjob /\ (l \in {"pop", "exited"} <=> wjob[w] = NoJob)
         \/ wjob' = [wjob EXCEPT ![w] = NoJob] /\ l \in {"pop", "exited"}
  PROVE  WorkerLabelType'
BY DEF WorkerLabelType, WorkerAt, WorkerLabels

\* A Submit call that has not begun cancels nobody.
IdleCancelsNone == \A j \in Jobs : spc[j] = "idle" => victims[j] = {}

LEMMA InitType == Init => TypeOK /\ IdleCancelsNone
BY DispatcherAssumption
   DEF Init, TypeOK, IdleCancelsNone, Table!Init, Agents, NoRow, Refusals

LEMMA IdleCancelsNoneStep ==
  TypeOK /\ IdleCancelsNone /\ [Next]_vars => IdleCancelsNone'
<1> SUFFICES ASSUME TypeOK, IdleCancelsNone, [Next]_vars,
                    NEW k \in Jobs, spc'[k] = "idle"
             PROVE  victims'[k] = {}
  BY DEF IdleCancelsNone
<1> USE DispatcherAssumption
    DEF TypeOK, IdleCancelsNone, Agents, SubmitAt, Refusals, submitVars, cancelVars
<1>1. ASSUME NEW j \in Jobs, SubmitSkip(j) \/ SubmitStep(j) \/ SubmitCtx(j)
      PROVE  victims'[k] = {}
  <2>1. /\ \E l \in Refusals \cup {"persist", "place", "blocked", "mark", "accepted"} :
             SubmitAt(j, l)
        /\ UNCHANGED victims
    BY <1>1 DEF SubmitStep, SubmitSkip, SubmitCtx, SubmitGate, SubmitPersist,
                SubmitDelayed, SubmitReady, SubmitBlock, SubmitFull, SubmitMark
  <2> QED BY <2>1
<1>2. ASSUME NEW j \in Jobs, SubmitAdmit(j) PROVE victims'[k] = {}
  BY <1>2 DEF SubmitAdmit
<1>3. CASE DelayStep
  BY <1>3 DEF DelayStep, DelayTake, DelayCheck, DelayPush, DelayMark, DelayStop,
              DelayDrain, DelayExit
<1>4. ASSUME NEW w \in Workers, WorkerStep(w) PROVE victims'[k] = {}
  BY <1>4 DEF WorkerStep, WorkerPop, WorkerExit, WorkerCheck, WorkerStart,
              WorkerReturn, WorkerMark, WorkerRetry, WorkerRelease, WorkerErase
<1>5. ASSUME NEW j \in Jobs, ClientCancel(j) PROVE victims'[k] = {}
  BY <1>5 DEF ClientCancel
<1>6. ASSUME NEW a \in Agents, CancelStep(a) PROVE victims'[k] = {}
  <2>1. spc' = spc
    BY <1>6 DEF CancelStep, CancelHeap, CancelQueue, CancelErase
  <2>2. victims' = victims \/ victims' = [victims EXCEPT ![a] = @ \ {cjob[a]}]
    BY <1>6 DEF CancelStep, CancelHeap, CancelQueue, CancelErase
  <2>3. victims'[k] \subseteq victims[k]
    <3>1. victims'[k] = victims[k] \/ victims'[k] = victims[k] \ {cjob[a]}
      BY <2>2
    <3> QED BY <3>1
  <2> QED BY <2>1, <2>3
<1>7. CASE ShutdownBegin \/ ShutdownClose \/ ShutdownDone \/ ShutdownTimeout
  BY <1>7 DEF ShutdownBegin, ShutdownClose, ShutdownDone, ShutdownTimeout
<1>8. CASE UNCHANGED vars
  BY <1>8 DEF vars
<1> QED BY <1>1, <1>2, <1>3, <1>4, <1>5, <1>6, <1>7, <1>8 DEF Next

-----------------------------------------------------------------------------

\* Every action of a submission keeps the types.
LEMMA SubmitType ==
  ASSUME TypeOK, IdleCancelsNone, NEW j \in Jobs,
         SubmitSkip(j) \/ SubmitAdmit(j) \/ SubmitStep(j) \/ SubmitCtx(j)
  PROVE  TypeOK'
<1> USE DispatcherAssumption
    DEF TypeOK, SubmitAt, Release, Erase, Save, Refusals, Agents, NoRow, table,
        submitVars, queueVars, workerVars, delayVars, cancelVars, shutdownVars
<1>1. CASE SubmitSkip(j)
  BY <1>1 DEF SubmitSkip
<1>2. CASE SubmitAdmit(j)
  <2>1. inFlight' \subseteq Jobs /\ Rivals(j) \subseteq Jobs
    BY <1>2 DEF SubmitAdmit, Rivals
  <2>2. victims' \in [Agents -> SUBSET Jobs]
    BY <1>2, <2>1 DEF SubmitAdmit
  <2>3. \A a \in Agents : IF cpc[a] = "heap" THEN cjob[a] = NoJob
                                           ELSE cjob[a] \in victims'[a]
    BY <1>2 DEF SubmitAdmit, IdleCancelsNone
  <2> QED BY <1>2, <2>1, <2>2, <2>3 DEF SubmitAdmit
<1>3. CASE SubmitGate(j)
  BY <1>3 DEF SubmitGate
<1>4. CASE SubmitPersist(j)
  <2>1. row' \in [Jobs -> Nat \cup {NoRow}]
    BY <1>4, SaveType DEF SubmitPersist
  <2>2. inFlight' \subseteq Jobs
    BY <1>4 DEF SubmitPersist
  <2> QED BY <1>4, <2>1, <2>2 DEF SubmitPersist
<1>5. CASE SubmitDelayed(j)
  BY <1>5 DEF SubmitDelayed
<1>6. CASE SubmitReady(j)
  BY <1>6, AppendSet DEF SubmitReady
<1>7. CASE SubmitBlock(j)
  BY <1>7 DEF SubmitBlock
<1>8. CASE SubmitFull(j)
  BY <1>8 DEF SubmitFull
<1>9. CASE SubmitCtx(j)
  BY <1>9 DEF SubmitCtx
<1>10. CASE SubmitMark(j)
  <2>1. TableType'
    BY <1>10, MarkType DEF SubmitMark, TableType, Statuses
  <2> QED BY <1>10, <2>1 DEF SubmitMark, TableType, Statuses
<1> QED BY <1>1, <1>2, <1>3, <1>4, <1>5, <1>6, <1>7, <1>8, <1>9, <1>10
           DEF SubmitStep

\* Every action of the delay loop keeps the types.
LEMMA DelayType ==
  ASSUME TypeOK, DelayStep
  PROVE  TypeOK'
<1> USE DispatcherAssumption
    DEF TypeOK, Release, Erase, Refusals, Agents, NoRow, table,
        submitVars, queueVars, workerVars, delayVars, cancelVars, shutdownVars
<1>1. CASE DelayTake
  BY <1>1 DEF DelayTake
<1>2. CASE DelayCheck
  <2>1. TableType'
    BY <1>2, MarkType DEF DelayCheck, TableType, Statuses
  <2> QED BY <1>2, <2>1 DEF DelayCheck, TableType, Statuses
<1>3. CASE DelayPush
  <2>1. djob \in Jobs
    BY <1>3 DEF DelayPush
  <2>2. ready' \in Seq(Jobs)
    BY <1>3, <2>1, PushType DEF DelayPush
  <2> QED BY <1>3, <2>2 DEF DelayPush
<1>4. CASE DelayMark
  <2>1. TableType'
    BY <1>4, MarkType DEF DelayMark, TableType, Statuses
  <2> QED BY <1>4, <2>1 DEF DelayMark, TableType, Statuses
<1>5. CASE DelayStop
  BY <1>5 DEF DelayStop
<1>6. CASE DelayDrain
  <2>1. TableType'
    BY <1>6, MarkType DEF DelayDrain, TableType, Statuses
  <2> QED BY <1>6, <2>1 DEF DelayDrain, TableType, Statuses
<1>7. CASE DelayExit
  BY <1>7 DEF DelayExit
<1> QED BY <1>1, <1>2, <1>3, <1>4, <1>5, <1>6, <1>7 DEF DelayStep

\* Every action of a worker keeps the types.
LEMMA WorkerType ==
  ASSUME TypeOK, NEW w \in Workers, WorkerStep(w)
  PROVE  TypeOK'
<1> USE DispatcherAssumption
    DEF TypeOK, WorkerAt, Release, Erase, Save, Refusals, Agents, NoRow, table,
        submitVars, queueVars, workerVars, delayVars, cancelVars, shutdownVars
<1>1. CASE WorkerPop(w)
  <2>1. ready' \in Seq(Jobs) /\ Head(ready) \in Jobs
    BY <1>1, TailSet DEF WorkerPop
  <2> QED BY <1>1, <2>1 DEF WorkerPop
<1>2. CASE WorkerExit(w)
  BY <1>2 DEF WorkerExit
<1>3. CASE WorkerCheck(w)
  <2>1. TableType'
    BY <1>3, MarkType DEF WorkerCheck, TableType, Statuses
  <2>2. inFlight' \subseteq Jobs
    BY <1>3 DEF WorkerCheck
  <2>3. WorkerLabelType'
    BY <1>3, WorkerMoves DEF WorkerCheck, WorkerLabelType, WorkerLabels
  <2> QED BY <1>3, <2>1, <2>2, <2>3
          DEF WorkerCheck, TableType, Statuses, WorkerLabelType, WorkerLabels
<1>4. CASE WorkerStart(w)
  <2>1. wjob[w] \in Jobs
    BY <1>4 DEF WorkerStart
  <2>2. starts' \in [Jobs -> Nat] /\ late' \in [Jobs -> Nat]
    BY <1>4, <2>1 DEF WorkerStart
  <2>3. executing' \in [Jobs -> Workers \cup {NoJob}]
    BY <1>4, <2>1 DEF WorkerStart
  <2>4. WorkerLabelType'
    BY <1>4, WorkerMoves DEF WorkerStart, WorkerLabelType, WorkerLabels
  <2> QED BY <1>4, <2>2, <2>3, <2>4 DEF WorkerStart, WorkerLabelType, WorkerLabels
<1>5. CASE WorkerReturn(w)
  <2>1. TableType'
    BY <1>5, MarkType DEF WorkerReturn, TableType, Statuses
  <2>2. \E l \in {"succeed", "fail", "retry", "release"} : WorkerAt(w, l)
    BY <1>5 DEF WorkerReturn
  <2>3. /\ wpc' \in [Workers -> {"pop", "check", "register", "run", "succeed",
              "fail", "retry", "retried", "release", "erase", "exited"}]
        /\ \A v \in Workers : wjob[v] = NoJob <=> wpc'[v] \in {"pop", "exited"}
    BY <1>5, <2>2 DEF WorkerReturn
  <2> QED BY <1>5, <2>1, <2>3 DEF WorkerReturn, TableType, Statuses
<1>6. CASE WorkerMark(w)
  <2>1. TableType'
    BY <1>6, MarkType DEF WorkerMark, TableType, Statuses
  <2> QED BY <1>6, <2>1 DEF WorkerMark, TableType, Statuses
<1>7. CASE WorkerRetry(w)
  <2>1. wjob[w] \in Jobs
    BY <1>7 DEF WorkerRetry
  <2>2. attempt' \in [Jobs -> Nat] /\ heap' \subseteq Jobs
    BY <1>7, <2>1 DEF WorkerRetry
  <2>3. row' \in [Jobs -> Nat \cup {NoRow}]
    <3>1. Save(wjob[w], attempt[wjob[w]] + 1) /\ attempt[wjob[w]] + 1 \in Nat
      BY <1>7, <2>1 DEF WorkerRetry
    <3> QED BY <2>1, <3>1, SaveType
  <2> QED BY <1>7, <2>2, <2>3 DEF WorkerRetry
<1>8. CASE WorkerRelease(w)
  BY <1>8 DEF WorkerRelease
<1>9. CASE WorkerErase(w)
  BY <1>9 DEF WorkerErase
<1> QED BY <1>1, <1>2, <1>3, <1>4, <1>5, <1>6, <1>7, <1>8, <1>9 DEF WorkerStep

\* Cancellation keeps the types.
LEMMA CancelType ==
  ASSUME TypeOK,
         \/ \E j \in Jobs : ClientCancel(j)
         \/ \E a \in Agents : CancelStep(a)
  PROVE  TypeOK'
<1> USE DispatcherAssumption
    DEF TypeOK, Release, Erase, Refusals, NoRow, table,
        submitVars, queueVars, workerVars, delayVars, cancelVars, shutdownVars
<1>1. ASSUME NEW j \in Jobs, ClientCancel(j) PROVE TypeOK'
  BY <1>1 DEF ClientCancel, Agents
<1>2. ASSUME NEW a \in Agents, CancelHeap(a) PROVE TypeOK'
  <2>1. PICK j \in victims[a] : heap' = heap \ {j} /\ cjob' = [cjob EXCEPT ![a] = j]
    BY <1>2 DEF CancelHeap
  <2> QED BY <1>2, <2>1 DEF CancelHeap
<1>3. ASSUME NEW a \in Agents, CancelQueue(a) PROVE TypeOK'
  <2>1. ready' \in Seq(Jobs)
    BY <1>3, RemoveAtSet DEF CancelQueue
  <2> QED BY <1>3, <2>1 DEF CancelQueue
<1>4. ASSUME NEW a \in Agents, CancelErase(a) PROVE TypeOK'
  <2>1. TableType'
    BY <1>4, MarkType DEF CancelErase, TableType, Statuses
  <2> QED BY <1>4, <2>1 DEF CancelErase, TableType, Statuses
<1> QED BY <1>1, <1>2, <1>3, <1>4 DEF CancelStep

LEMMA ShutdownType ==
  ASSUME TypeOK,
         ShutdownBegin \/ ShutdownClose \/ ShutdownDone \/ ShutdownTimeout
  PROVE  TypeOK'
BY DispatcherAssumption
   DEF TypeOK, Refusals, Agents, NoRow, table, submitVars, queueVars, workerVars,
       delayVars, cancelVars, shutdownVars, ShutdownBegin, ShutdownClose,
       ShutdownDone, ShutdownTimeout

LEMMA TypeStep == TypeOK /\ IdleCancelsNone /\ [Next]_vars => TypeOK'
<1> SUFFICES ASSUME TypeOK, IdleCancelsNone, [Next]_vars PROVE TypeOK'
  OBVIOUS
<1>1. CASE Next
  BY <1>1, SubmitType, DelayType, WorkerType, CancelType, ShutdownType DEF Next
<1>2. CASE UNCHANGED vars
  BY <1>2 DEF TypeOK, vars, table, submitVars, queueVars, workerVars, delayVars,
              cancelVars, shutdownVars
<1> QED BY <1>1, <1>2

\* Every variable of the dispatcher has its type, and every goroutine holds a job
\* exactly where its code has one in hand.
THEOREM TypeCorrect == Spec => []TypeOK
<1>1. Spec => [](TypeOK /\ IdleCancelsNone)
  BY InitType, TypeStep, IdleCancelsNoneStep, PTL DEF Spec
<1> QED BY <1>1, PTL

-----------------------------------------------------------------------------
\* Where a Submit call is: admitted but not queued yet, past that with success,
\* or past that in any way.
Submitting(j) == spc[j] \in {"gate", "persist", "place", "blocked"}
Entered(j) == spc[j] \in {"mark", "accepted"}
Past(j) == spc[j] # "idle" /\ ~Submitting(j)

\* Every entry has one keeper, and no entry exists of a job whose submission will
\* still queue one.
Busy(w) == wpc[w] \in {"check", "register", "run", "succeed", "fail", "retry"}

Placed(j) ==
  \/ j \in heap
  \/ j \in ToSet(ready)
  \/ InDelayHand(j)
  \/ \E w \in Workers : Busy(w) /\ wjob[w] = j

Custody ==
  /\ IsInjective(ready)
  /\ \A j \in heap : j \notin ToSet(ready) /\ ~InDelayHand(j)
  /\ \A j \in ToSet(ready) : ~InDelayHand(j)
  /\ \A w \in Workers : Busy(w) =>
       /\ wjob[w] \notin heap
       /\ wjob[w] \notin ToSet(ready)
       /\ ~InDelayHand(wjob[w])
  /\ \A v, w \in Workers : Busy(v) /\ Busy(w) /\ wjob[v] = wjob[w] => v = w
  /\ \A j \in Jobs : Placed(j) => Past(j)
  /\ \A w \in Workers : wjob[w] # NoJob => Past(wjob[w])

\* A step that moves no entry, or only loses some.
Quiet ==
  /\ heap' \subseteq heap
  /\ IsInjective(ready') /\ ToSet(ready') \subseteq ToSet(ready)
  /\ \A j \in Jobs : InDelayHand(j)' => InDelayHand(j)
  /\ \A w \in Workers :
       /\ Busy(w)' => Busy(w) /\ wjob'[w] = wjob[w]
       /\ wjob'[w] \in {NoJob, wjob[w]}
  /\ \A j \in Jobs : Past(j) => Past(j)'

LEMMA QuietCustody ==
  ASSUME TypeOK, TypeOK', Custody, Quiet
  PROVE  Custody'
<1>1. \A j \in Jobs : Placed(j)' => Placed(j)
  BY DEF Quiet, Placed
<1>2. /\ \A j \in heap : j \in Jobs
      /\ \A w \in Workers : Busy(w) => wjob[w] \in Jobs
  BY DEF TypeOK, Busy
<1>3. ToSet(ready) \subseteq Jobs
  BY DEF TypeOK, ToSet
<1>4. \A j \in Jobs : Placed(j)' => Past(j)'
  BY <1>1 DEF Quiet, Custody
<1>5. \A w \in Workers : wjob'[w] # NoJob => Past(wjob[w])'
  <2> SUFFICES ASSUME NEW w \in Workers, wjob'[w] # NoJob PROVE Past(wjob[w])'
    OBVIOUS
  <2>1. wjob'[w] = wjob[w] /\ wjob[w] \in Jobs /\ wjob[w] # NoJob
    BY DEF Quiet, TypeOK
  <2>2. Past(wjob[w])
    BY <2>1 DEF Custody
  <2> QED BY <2>1, <2>2 DEF Quiet, Past, Submitting
<1>6. /\ \A j \in heap' : j \notin ToSet(ready') /\ ~InDelayHand(j)'
      /\ \A j \in ToSet(ready') : ~InDelayHand(j)'
  BY <1>2, <1>3 DEF Quiet, Custody
<1>7. \A w \in Workers : Busy(w)' =>
        wjob'[w] \notin heap' /\ wjob'[w] \notin ToSet(ready') /\ ~InDelayHand(wjob[w])'
  BY <1>2 DEF Quiet, Custody
<1>8. \A v, w \in Workers : Busy(v)' /\ Busy(w)' /\ wjob'[v] = wjob'[w] => v = w
  BY DEF Quiet, Custody
<1> QED BY <1>4, <1>5, <1>6, <1>7, <1>8 DEF Quiet, Custody

LEMMA InitCustody == Init => Custody
<1> SUFFICES ASSUME Init PROVE Custody
  OBVIOUS
<1>1. ToSet(ready) = {} /\ IsInjective(ready)
  BY DEF Init, ToSet, IsInjective
<1> QED BY <1>1 DEF Init, Custody, Placed, Busy, InDelayHand

\* The steps that put an entry somewhere, from somewhere else.
Moves ==
  \/ \E j \in Jobs : SubmitDelayed(j) \/ SubmitReady(j)
  \/ DelayTake
  \/ DelayPush
  \/ \E w \in Workers : WorkerPop(w) \/ WorkerRetry(w)

LEMMA QuietSteps ==
  ASSUME TypeOK, Custody, [Next]_vars, ~Moves
  PROVE  Quiet
<1> USE DEF Quiet, InDelayHand, Busy, Past, Submitting, Refusals, SubmitAt,
        WorkerAt, submitVars, queueVars, workerVars, delayVars, cancelVars, shutdownVars
<1>0. /\ IsInjective(ready)
      /\ spc \in [Jobs -> {"idle", "gate", "persist", "place", "blocked", "mark",
                           "accepted", "lost"} \cup Refusals]
      /\ \A w \in Workers : wpc[w] \in WorkerLabels
      /\ wpc \in [Workers -> WorkerLabels] /\ wjob \in [Workers -> Jobs \cup {NoJob}]
  BY DEF Custody, TypeOK, WorkerLabels
<1>1. ASSUME NEW j \in Jobs, ~SubmitDelayed(j), ~SubmitReady(j),
             SubmitSkip(j) \/ SubmitAdmit(j) \/ SubmitStep(j) \/ SubmitCtx(j)
      PROVE  Quiet
  <2> USE DEF SubmitStep, SubmitSkip, SubmitAdmit, SubmitCtx, SubmitGate,
              SubmitPersist, SubmitBlock, SubmitFull, SubmitMark
  <2>1. UNCHANGED <<ready, heap, dpc, djob, wpc, wjob>>
    BY <1>1
  <2>2. \A k \in Jobs : k # j => spc'[k] = spc[k]
    BY <1>0, <1>1
  <2>3. Past(j) => Past(j)'
    BY <1>0, <1>1 DEF Past, Submitting
  <2> HIDE DEF SubmitStep, SubmitSkip, SubmitAdmit, SubmitCtx, SubmitGate,
               SubmitPersist, SubmitBlock, SubmitFull, SubmitMark
  <2> QED BY <1>0, <2>1, <2>2, <2>3
<1>2. ASSUME DelayStep, ~DelayTake, ~DelayPush PROVE Quiet
  BY <1>0, <1>2 DEF DelayStep, DelayCheck, DelayMark, DelayStop, DelayDrain,
                    DelayExit
<1>3. ASSUME NEW w \in Workers, WorkerStep(w), ~WorkerPop(w), ~WorkerRetry(w)
      PROVE  Quiet
  <2>1. /\ UNCHANGED <<ready, heap, dpc, djob, spc>>
        /\ \E l : WorkerAt(w, l) /\ (Busy(w)' => Busy(w) /\ wjob'[w] = wjob[w])
        /\ wjob'[w] \in {NoJob, wjob[w]}
        /\ \A v \in Workers : v # w => wjob'[v] = wjob[v]
    BY <1>0, <1>3 DEF WorkerStep, WorkerExit, WorkerCheck, WorkerStart,
                WorkerReturn, WorkerMark, WorkerRelease, WorkerErase
  <2> QED BY <1>0, <2>1
<1>4. ASSUME NEW j \in Jobs, ClientCancel(j) PROVE Quiet
  BY <1>0, <1>4 DEF ClientCancel
<1>5. ASSUME NEW a \in Agents, CancelStep(a) PROVE Quiet
  <2>1. IsInjective(ready') /\ ToSet(ready') \subseteq ToSet(ready)
    <3>1. ready' = ready \/ \E i \in DOMAIN ready : ready' = RemoveAt(ready, i)
      BY <1>5 DEF CancelStep, CancelHeap, CancelQueue, CancelErase
    <3> QED BY <1>0, <3>1, RemoveAtDistinct DEF TypeOK
  <2>2. heap' \subseteq heap /\ UNCHANGED <<spc, dpc, djob, wpc, wjob>>
    BY <1>5 DEF CancelStep, CancelHeap, CancelQueue, CancelErase
  <2> QED BY <2>1, <2>2
<1>6. CASE ShutdownBegin \/ ShutdownClose \/ ShutdownDone \/ ShutdownTimeout
  BY <1>0, <1>6 DEF ShutdownBegin, ShutdownClose, ShutdownDone, ShutdownTimeout
<1>7. CASE UNCHANGED vars
  BY <1>0, <1>7 DEF vars
<1> QED BY <1>1, <1>2, <1>3, <1>4, <1>5, <1>6, <1>7 DEF Next, Moves

LEMMA MoveCustody ==
  ASSUME TypeOK, TypeOK', Custody, Moves
  PROVE  Custody'
<1> USE DEF InDelayHand, Busy, Placed, Past, Submitting, SubmitAt, WorkerAt,
        submitVars, queueVars, workerVars, delayVars, cancelVars, shutdownVars
<1>0. /\ ready \in Seq(Jobs) /\ IsInjective(ready) /\ ToSet(ready) \subseteq Jobs
      /\ heap \subseteq Jobs
      /\ spc \in [Jobs -> {"idle", "gate", "persist", "place", "blocked", "mark",
                           "accepted", "lost"} \cup Refusals]
      /\ wpc \in [Workers -> WorkerLabels] /\ wjob \in [Workers -> Jobs \cup {NoJob}]
      /\ \A w \in Workers : Busy(w) => wjob[w] \in Jobs
      /\ dpc \in {"check", "push"} => djob \in Jobs
  <2>1. ToSet(ready) \subseteq Jobs
    BY DEF TypeOK, ToSet
  <2>2. \A w \in Workers : Busy(w) => wjob[w] \in Jobs
    BY DEF TypeOK
  <2>3. dpc \in {"check", "push"} => djob \in Jobs
    BY DEF TypeOK
  <2> QED BY <2>1, <2>2, <2>3 DEF Custody, TypeOK, WorkerLabels
<1>1. ASSUME NEW j \in Jobs, SubmitDelayed(j) PROVE Custody'
  <2>1. ~Placed(j)
    BY <1>1 DEF SubmitDelayed, Custody
  <2> QED BY <1>0, <1>1, <2>1 DEF SubmitDelayed, Custody
<1>2. ASSUME NEW j \in Jobs, SubmitReady(j) PROVE Custody'
  <2>1. ~Placed(j)
    BY <1>2 DEF SubmitReady, Custody
  <2>2. IsInjective(ready') /\ ToSet(ready') = ToSet(ready) \cup {j}
    BY <1>0, <1>2, <2>1, AppendSet, AppendDistinct DEF SubmitReady
  <2> QED BY <1>0, <1>2, <2>1, <2>2 DEF SubmitReady, Custody
<1>3. CASE DelayTake
  <2>1. PICK j \in heap : djob' = j /\ heap' = heap \ {j}
    BY <1>3 DEF DelayTake
  <2>2. ~InDelayHand(djob) /\ dpc' = "check" /\ dpc = "wait"
    BY <1>3 DEF DelayTake
  <2>3. UNCHANGED <<ready, wpc, wjob, spc>>
    BY <1>3 DEF DelayTake
  <2> QED BY <1>0, <2>1, <2>2, <2>3 DEF Custody
<1>4. CASE DelayPush
  <2>1. djob \in Jobs /\ InDelayHand(djob) /\ djob \notin ToSet(ready)
    BY <1>0, <1>4 DEF DelayPush, Custody
  <2>2. /\ IsInjective(ready')
        /\ ToSet(ready') \subseteq ToSet(ready) \cup {djob}
        /\ ready' = ready \/ ToSet(ready') = ToSet(ready) \cup {djob}
    <3>1. ready' = ready \/ ready' = Append(ready, djob)
      BY <1>4 DEF DelayPush
    <3>2. CASE ready' = ready
      BY <1>0, <3>2
    <3>3. CASE ready' = Append(ready, djob)
      <4>1. IsInjective(Append(ready, djob))
        BY <1>0, <2>1, AppendDistinct
      <4>2. ToSet(Append(ready, djob)) = ToSet(ready) \cup {djob}
        BY <1>0, <2>1, AppendSet
      <4> QED BY <3>3, <4>1, <4>2
    <3> QED BY <3>1, <3>2, <3>3
  <2>3. UNCHANGED <<heap, djob, wpc, wjob, spc>> /\ dpc' = "mark"
    BY <1>4 DEF DelayPush
  <2> QED BY <1>0, <2>1, <2>2, <2>3 DEF Custody
<1>5. ASSUME NEW w \in Workers, WorkerPop(w) PROVE Custody'
  <2>1. /\ ready # <<>> /\ Head(ready) \in ToSet(ready)
        /\ IsInjective(ready') /\ ToSet(ready') = ToSet(ready) \ {Head(ready)}
    BY <1>0, <1>5, TailSet, TailDistinct DEF WorkerPop
  <2>2. ~Busy(w)
    BY <1>5 DEF WorkerPop
  <2>3. /\ UNCHANGED <<heap, djob, dpc, spc>>
        /\ wjob' = [wjob EXCEPT ![w] = Head(ready)]
        /\ wpc' = [wpc EXCEPT ![w] = "check"]
    BY <1>5 DEF WorkerPop
  <2> QED BY <1>0, <2>1, <2>2, <2>3 DEF Custody
<1>6. ASSUME NEW w \in Workers, WorkerRetry(w) PROVE Custody'
  <2>1. Busy(w) /\ wjob[w] \in Jobs
    BY <1>0, <1>6 DEF WorkerRetry
  <2>2. /\ UNCHANGED <<ready, wjob, djob, dpc, spc>>
        /\ heap' = heap \cup {wjob[w]}
        /\ wpc' = [wpc EXCEPT ![w] = "retried"]
    BY <1>6 DEF WorkerRetry
  <2> QED BY <1>0, <2>1, <2>2 DEF Custody
<1> QED BY <1>1, <1>2, <1>3, <1>4, <1>5, <1>6 DEF Moves

LEMMA CustodyStep ==
  TypeOK /\ TypeOK' /\ Custody /\ [Next]_vars => Custody'
<1> SUFFICES ASSUME TypeOK, TypeOK', Custody, [Next]_vars PROVE Custody'
  OBVIOUS
<1>1. CASE Moves
  BY <1>1, MoveCustody
<1>2. CASE ~Moves
  <2>1. Quiet
    BY <1>2, QuietSteps
  <2> QED BY <2>1, QuietCustody
<1> QED BY <1>1, <1>2

\* The invariant that the theorems below rest on.
Base == TypeOK /\ IdleCancelsNone /\ Custody

\* In every reachable state the variables have their types, a Submit call that has
\* not begun displaces nobody, and each entry is in one place.
THEOREM BaseInvariant == Spec => []Base
<1>1. Init => Base
  BY InitType, InitCustody DEF Base
<1>2. Base /\ [Next]_vars => Base'
  BY TypeStep, IdleCancelsNoneStep, CustodyStep DEF Base
<1> QED BY <1>1, <1>2, PTL DEF Spec

\* Two places of one job are the same place.
LEMMA PlaceUnique ==
  ASSUME TypeOK, Custody, NEW j \in Jobs, NEW p \in Places(j), NEW q \in Places(j)
  PROVE  p = q
<1> DEFINE InHeap == j \in heap
           At(i) == i \in DOMAIN ready /\ ready[i] = j
           With(w) == w \in Workers /\ Busy(w) /\ wjob[w] = j
           Tagged(r) == \/ InHeap /\ r = <<"heap", j>>
                        \/ \E i : At(i) /\ r = <<"ready", i>>
                        \/ InDelayHand(j) /\ r = <<"delayLoop", j>>
                        \/ \E w : With(w) /\ r = <<"worker", w>>
<1>1. ASSUME NEW r \in Places(j) PROVE Tagged(r)
  <2>1. CASE r \in {<<"heap", h>> : h \in heap \cap {j}}
    BY <2>1
  <2>2. CASE r \in {<<"ready", i>> : i \in {n \in DOMAIN ready : ready[n] = j}}
    BY <2>2
  <2>3. CASE r \in {<<"delayLoop", d>> : d \in {djob} \cap {k \in {j} : InDelayHand(k)}}
    BY <2>3
  <2>4. CASE r \in {<<"worker", w>> : w \in {v \in Workers :
              wjob[v] = j /\ wpc[v] \notin {"retried", "release", "erase"}}}
    <3>1. PICK w \in Workers : /\ wjob[w] = j /\ r = <<"worker", w>>
                               /\ wpc[w] \notin {"retried", "release", "erase"}
      BY <2>4
    <3>2. j # NoJob
      BY DispatcherAssumption
    <3>3. Busy(w)
      BY <3>1, <3>2 DEF TypeOK, Busy
    <3> QED BY <3>1, <3>3
  <2> QED BY <1>1, <2>1, <2>2, <2>3, <2>4 DEF Places
<1>2. \A i : At(i) => j \in ToSet(ready)
  BY DEF ToSet
<1>3. \A i, k : At(i) /\ At(k) => i = k
  BY DEF Custody, IsInjective
<1>4. \A v, w : With(v) /\ With(w) => v = w
  BY DEF Custody
<1>5. /\ InHeap => j \notin ToSet(ready) /\ ~InDelayHand(j)
      /\ j \in ToSet(ready) => ~InDelayHand(j)
      /\ \A w : With(w) => ~InHeap /\ j \notin ToSet(ready) /\ ~InDelayHand(j)
  BY DEF Custody
<1>6. Tagged(p) /\ Tagged(q)
  BY <1>1
<1> HIDE DEF InHeap, At, With
<1> QED BY <1>2, <1>3, <1>4, <1>5, <1>6

LEMMA CustodySuffices ==
  ASSUME TypeOK, Custody
  PROVE  OneCustody
<1> SUFFICES ASSUME NEW j \in Jobs PROVE Cardinality(Places(j)) <= 1
  BY DEF OneCustody
<1>1. CASE Places(j) = {}
  BY <1>1, FS_EmptySet
<1>2. CASE Places(j) # {}
  <2>1. PICK p : p \in Places(j)
    BY <1>2
  <2>2. ASSUME NEW q \in Places(j) PROVE q = p
    BY <2>1, PlaceUnique
  <2>3. Places(j) = {p}
    BY <2>1, <2>2
  <2>4. Cardinality({p}) = 1
    BY FS_Singleton
  <2> QED BY <2>3, <2>4
<1> QED BY <1>1, <1>2

\* A job's entry is never in two places, and in no place twice: the heap, the
\* ready queue, the hand of the delay loop, or one worker (pushDelayed, popDue,
\* push, pop and remove only ever hand it over).
THEOREM OneCustodyAlways == Spec => []OneCustody
<1>1. Base => OneCustody
  BY CustodySuffices DEF Base
<1> QED BY <1>1, BaseInvariant, PTL

-----------------------------------------------------------------------------
\* Cancellation and the status table: how late a handler may begin, when a status
\* is final, and what the table knows.

\* The actions that are not told apart below, by what they all leave alone.
Submits(j) == SubmitSkip(j) \/ SubmitStep(j) \/ SubmitCtx(j)

ShutdownStep == ShutdownBegin \/ ShutdownClose \/ ShutdownDone \/ ShutdownTimeout

-----------------------------------------------------------------------------
\* Whoever has been chosen for cancellation is, or will be, in the cancelled
\* set, and a handler that began late belongs to a job nobody will start again.
CancelMarked == \A a \in Agents : cpc[a] = "erase" => cjob[a] \in cancelled
AskedMarked == \A j \in asked : j \in cancelled \/ BeingCancelled(j)

LateOnce ==
  \A j \in Jobs :
    /\ late[j] <= 1
    /\ late[j] = 1 =>
         /\ j \in cancelled
         /\ \A w \in Workers : wjob[w] = j => wpc[w] # "register"

LEMMA CancelMarkedStep ==
  ASSUME TypeOK, IdleCancelsNone, CancelMarked, [Next]_vars
  PROVE  CancelMarked' /\ (AskedMarked => AskedMarked')
<1> DEFINE Goal == CancelMarked' /\ (AskedMarked => AskedMarked')
<1> USE DEF CancelMarked, AskedMarked, BeingCancelled, cancelVars
<1>0. /\ victims \in [Agents -> SUBSET Jobs]
      /\ cpc \in [Agents -> {"heap", "queue", "erase"}]
      /\ cjob \in [Agents -> Jobs \cup {NoJob}]
      /\ Client \in Agents /\ Jobs \subseteq Agents
  BY DEF TypeOK, Agents
<1>1. ASSUME NEW j \in Jobs, Submits(j) PROVE Goal
  <2>1. UNCHANGED cancelVars
    BY <1>1 DEF Submits, SubmitStep, SubmitSkip, SubmitCtx, SubmitGate,
                SubmitPersist, SubmitDelayed, SubmitReady, SubmitBlock,
                SubmitFull, SubmitMark
  <2> QED BY <2>1
<1>2. ASSUME NEW j \in Jobs, SubmitAdmit(j) PROVE Goal
  <2>1. victims[j] = {} /\ victims' = [victims EXCEPT ![j] = Rivals(j)]
    BY <1>2 DEF SubmitAdmit, IdleCancelsNone
  <2>2. UNCHANGED <<cancelled, cpc, cjob, asked>>
    BY <1>2 DEF SubmitAdmit
  <2>3. \A k : BeingCancelled(k) => BeingCancelled(k)'
    BY <1>0, <2>1
  <2> QED BY <2>2, <2>3
<1>3. CASE DelayStep
  <2>1. UNCHANGED cancelVars
    BY <1>3 DEF DelayStep, DelayTake, DelayCheck, DelayPush, DelayMark,
                DelayStop, DelayDrain, DelayExit
  <2> QED BY <2>1
<1>4. ASSUME NEW w \in Workers, WorkerStep(w) PROVE Goal
  <2>1. UNCHANGED cancelVars
    BY <1>4 DEF WorkerStep, WorkerPop, WorkerExit, WorkerCheck, WorkerStart,
                WorkerReturn, WorkerMark, WorkerRetry, WorkerRelease, WorkerErase
  <2> QED BY <2>1
<1>5. ASSUME NEW j \in Jobs, ClientCancel(j) PROVE Goal
  <2>1. /\ victims[Client] = {} /\ victims' = [victims EXCEPT ![Client] = {j}]
        /\ asked' = asked \cup {j}
        /\ UNCHANGED <<cancelled, cpc, cjob>>
    BY <1>5 DEF ClientCancel
  <2>2. \A k : BeingCancelled(k) \/ k = j => BeingCancelled(k)'
    BY <1>0, <2>1
  <2> QED BY <2>1, <2>2
<1>6. ASSUME NEW a \in Agents, CancelHeap(a) PROVE Goal
  <2>1. /\ cpc' = [cpc EXCEPT ![a] = "queue"]
        /\ UNCHANGED <<cancelled, victims, asked>>
    BY <1>6 DEF CancelHeap
  <2>2. \A b \in Agents : b # a => cjob'[b] = cjob[b]
    BY <1>0, <1>6 DEF CancelHeap
  <2> QED BY <1>0, <2>1, <2>2
<1>7. ASSUME NEW a \in Agents, CancelQueue(a) PROVE Goal
  <2>1. /\ cpc' = [cpc EXCEPT ![a] = "erase"]
        /\ cancelled' = cancelled \cup {cjob[a]}
        /\ UNCHANGED <<victims, asked, cjob>>
    BY <1>7 DEF CancelQueue
  <2> QED BY <1>0, <2>1
<1>8. ASSUME NEW a \in Agents, CancelErase(a) PROVE Goal
  <2>1. /\ cpc[a] = "erase" /\ cpc' = [cpc EXCEPT ![a] = "heap"]
        /\ victims' = [victims EXCEPT ![a] = @ \ {cjob[a]}]
        /\ cjob' = [cjob EXCEPT ![a] = NoJob]
        /\ UNCHANGED <<cancelled, asked>>
    BY <1>8 DEF CancelErase
  <2>2. \A k : BeingCancelled(k) /\ k # cjob[a] => BeingCancelled(k)'
    BY <1>0, <2>1
  <2>3. cjob[a] \in cancelled
    BY <2>1
  <2> QED BY <1>0, <2>1, <2>2, <2>3
<1>9. CASE ShutdownStep
  BY <1>9 DEF ShutdownStep, ShutdownBegin, ShutdownClose, ShutdownDone, ShutdownTimeout
<1>10. CASE UNCHANGED vars
  BY <1>10 DEF vars
<1> QED BY <1>1, <1>2, <1>3, <1>4, <1>5, <1>6, <1>7, <1>8, <1>9, <1>10
           DEF Next, Submits, ShutdownStep, CancelStep

LEMMA LateOnceStep ==
  Base /\ CancelMarked /\ AskedMarked /\ LateOnce /\ [Next]_vars => LateOnce'
<1> SUFFICES ASSUME TypeOK, Custody, CancelMarked, AskedMarked, LateOnce, [Next]_vars
             PROVE  LateOnce'
  BY DEF Base
<1> USE DEF LateOnce, submitVars, queueVars, workerVars, delayVars, cancelVars,
            shutdownVars
<1>0. /\ wpc \in [Workers -> WorkerLabels]
      /\ wjob \in [Workers -> Jobs \cup {NoJob}]
      /\ late \in [Jobs -> Nat]
  BY DEF TypeOK, WorkerLabels
<1>1. ASSUME UNCHANGED <<late, wpc, wjob>>, cancelled \subseteq cancelled'
      PROVE  LateOnce'
  BY <1>1
<1>2. ASSUME NEW j \in Jobs, Submits(j) \/ SubmitAdmit(j) PROVE LateOnce'
  <2>1. UNCHANGED <<late, wpc, wjob, cancelled>>
    BY <1>2 DEF Submits, SubmitAdmit, SubmitStep, SubmitSkip, SubmitCtx, SubmitGate,
                SubmitPersist, SubmitDelayed, SubmitReady, SubmitBlock,
                SubmitFull, SubmitMark
  <2> QED BY <1>1, <2>1
<1>3. CASE DelayStep
  <2>1. UNCHANGED <<late, wpc, wjob, cancelled>>
    BY <1>3 DEF DelayStep, DelayTake, DelayCheck, DelayPush, DelayMark,
                DelayStop, DelayDrain, DelayExit
  <2> QED BY <1>1, <2>1
<1>4. ASSUME NEW w \in Workers, WorkerStep(w), ~WorkerCheck(w), ~WorkerStart(w)
      PROVE  LateOnce'
  <2>1. UNCHANGED <<late, cancelled>>
    BY <1>4 DEF WorkerStep, WorkerPop, WorkerExit, WorkerReturn, WorkerMark,
                WorkerRetry, WorkerRelease, WorkerErase
  <2>2. /\ wpc'[w] # "register"
        /\ \A v \in Workers : v # w => wpc'[v] = wpc[v] /\ wjob'[v] = wjob[v]
    BY <1>0, <1>4
       DEF WorkerStep, WorkerPop, WorkerExit, WorkerReturn, WorkerMark,
           WorkerRetry, WorkerRelease, WorkerErase, WorkerAt
  <2> QED BY <2>1, <2>2
<1>5. ASSUME NEW w \in Workers, WorkerCheck(w) PROVE LateOnce'
  <2>1. UNCHANGED <<late, cancelled>>
    BY <1>5 DEF WorkerCheck
  <2>2. /\ wpc'[w] = "register" => wjob'[w] \notin cancelled
        /\ \A v \in Workers : v # w => wpc'[v] = wpc[v] /\ wjob'[v] = wjob[v]
    BY <1>0, <1>5 DEF WorkerCheck, WorkerAt
  <2> QED BY <2>1, <2>2
<1>6. ASSUME NEW w \in Workers, WorkerStart(w) PROVE LateOnce'
  <2> DEFINE j == wjob[w]
  <2>1. /\ wpc[w] = "register" /\ Busy(w) /\ j \in Jobs
        /\ wpc' = [wpc EXCEPT ![w] = "run"]
        /\ UNCHANGED <<wjob, cancelled>>
    BY <1>6 DEF WorkerStart, WorkerAt, Busy, TypeOK
  <2>2. late' = [late EXCEPT ![j] =
                   IF j \in asked /\ ~BeingCancelled(j) THEN @ + 1 ELSE @]
    BY <1>6 DEF WorkerStart
  <2>3. late[j] = 0
    BY <1>0, <2>1
  <2>4. \A v \in Workers : v # w /\ wjob[v] = j => wpc[v] # "register"
    BY <2>1 DEF Custody, Busy
  <2>5. late'[j] \in {0, 1} /\ (late'[j] = 1 => j \in cancelled)
    BY <1>0, <2>1, <2>2, <2>3 DEF CancelMarked, AskedMarked
  <2>6. \A v \in Workers : wjob'[v] = j => wpc'[v] # "register"
    BY <1>0, <2>1, <2>4
  <2>7. ASSUME NEW k \in Jobs, k # j
        PROVE  late'[k] = late[k] /\ \A v \in Workers : wjob'[v] = k => wpc'[v] = wpc[v]
    BY <1>0, <2>1, <2>2, <2>7
  <2> HIDE DEF j
  <2> QED BY <2>1, <2>5, <2>6, <2>7
<1>7. ASSUME NEW j \in Jobs, ClientCancel(j) PROVE LateOnce'
  BY <1>1, <1>7 DEF ClientCancel
<1>8. ASSUME NEW a \in Agents, CancelStep(a) PROVE LateOnce'
  <2>1. UNCHANGED <<late, wpc, wjob>> /\ cancelled \subseteq cancelled'
    BY <1>8 DEF CancelStep, CancelHeap, CancelQueue, CancelErase
  <2> QED BY <1>1, <2>1
<1>9. CASE ShutdownStep
  BY <1>1, <1>9 DEF ShutdownStep, ShutdownBegin, ShutdownClose, ShutdownDone,
                    ShutdownTimeout
<1>10. CASE UNCHANGED vars
  BY <1>1, <1>10 DEF vars
<1> QED BY <1>2, <1>3, <1>4, <1>5, <1>6, <1>7, <1>8, <1>9, <1>10
           DEF Next, Submits, ShutdownStep

\* The cancelled set and the agents that fill it, as an invariant of every run.
THEOREM CancelInvariant == Spec => [](Base /\ CancelMarked /\ AskedMarked)
<1>1. Init => CancelMarked /\ AskedMarked
  BY DEF Init, CancelMarked, AskedMarked
<1>2. /\ Base /\ CancelMarked /\ AskedMarked /\ [Next]_vars
      => CancelMarked' /\ AskedMarked'
  BY CancelMarkedStep DEF Base
<1> QED BY <1>1, <1>2, BaseInvariant, PTL DEF Spec

\* After Cancel has returned the handler begins at most once more, whatever the
\* number of retries left: Cancel, runEntry's first test of the cancelled set and
\* executing.Store may interleave in every way.
THEOREM LateStartsAlwaysBounded == Spec => []LateStartsBounded
<1>1. Init => LateOnce
  BY DEF Init, LateOnce
<1>2. Base /\ CancelMarked /\ AskedMarked /\ LateOnce /\ [Next]_vars => LateOnce'
  BY LateOnceStep
<1>3. LateOnce => LateStartsBounded
  BY DEF LateOnce, LateStartsBounded
<1> QED BY <1>1, <1>2, <1>3, CancelInvariant, PTL DEF Spec

-----------------------------------------------------------------------------
\* Entries come from submissions only, and whatever has one, or is held by a
\* worker, was accepted.
HoldsEntered ==
  /\ \A j \in Jobs : Placed(j) => Entered(j)
  /\ \A w \in Workers : wjob[w] # NoJob => Entered(wjob[w])

LEMMA EntriesFrom ==
  ASSUME TypeOK, Custody, [Next]_vars, NEW j \in Jobs, Placed(j)'
  PROVE  Placed(j) \/ (spc[j] \in {"place", "blocked"} /\ spc'[j] = "mark")
<1> USE DEF Placed, Busy, InDelayHand, WorkerAt, submitVars, queueVars, workerVars,
            delayVars, cancelVars, shutdownVars
<1>0. /\ ready \in Seq(Jobs)
      /\ wpc \in [Workers -> WorkerLabels] /\ wjob \in [Workers -> Jobs \cup {NoJob}]
      /\ spc \in [Jobs -> {"idle", "gate", "persist", "place", "blocked", "mark",
                           "accepted", "lost"} \cup Refusals]
  BY DEF TypeOK, WorkerLabels
<1>1. CASE ~Moves
  <2>1. Quiet
    BY <1>1, QuietSteps
  <2> QED BY <2>1 DEF Quiet
<1>2. ASSUME NEW k \in Jobs, SubmitDelayed(k) \/ SubmitReady(k)
      PROVE  Placed(j) \/ (spc[j] \in {"place", "blocked"} /\ spc'[j] = "mark")
  <2>1. ready' = ready \/ ready' = Append(ready, k)
    BY <1>2 DEF SubmitDelayed, SubmitReady
  <2>2. ToSet(ready') \subseteq ToSet(ready) \cup {k}
    <3>1. CASE ready' = ready
      BY <3>1
    <3>2. CASE ready' = Append(ready, k)
      <4>1. ToSet(Append(ready, k)) = ToSet(ready) \cup {k}
        BY <1>0, AppendSet
      <4> QED BY <3>2, <4>1
    <3> QED BY <2>1, <3>1, <3>2
  <2>3. /\ heap' \subseteq heap \cup {k}
        /\ spc[k] \in {"place", "blocked"} /\ spc'[k] = "mark"
        /\ UNCHANGED <<wpc, wjob, dpc, djob>>
    BY <1>0, <1>2 DEF SubmitDelayed, SubmitReady, SubmitAt
  <2> QED BY <2>2, <2>3
<1>3. CASE DelayTake
  BY <1>3 DEF DelayTake
<1>4. CASE DelayPush
  <2>1. djob \in Jobs /\ InDelayHand(djob)
    BY <1>4 DEF DelayPush, TypeOK
  <2>2. ToSet(ready') \subseteq ToSet(ready) \cup {djob}
    <3>1. CASE ready' = ready
      BY <3>1
    <3>2. CASE ready' = Append(ready, djob)
      <4>1. ToSet(Append(ready, djob)) = ToSet(ready) \cup {djob}
        BY <1>0, <2>1, AppendSet
      <4> QED BY <3>2, <4>1
    <3> QED BY <1>4, <3>1, <3>2 DEF DelayPush
  <2>3. UNCHANGED <<heap, djob, wpc, wjob>> /\ dpc' = "mark"
    BY <1>4 DEF DelayPush
  <2> QED BY <2>1, <2>2, <2>3
<1>5. ASSUME NEW w \in Workers, WorkerPop(w)
      PROVE  Placed(j)
  <2>1. Head(ready) \in ToSet(ready) /\ ToSet(ready') \subseteq ToSet(ready)
    BY <1>0, <1>5, TailSet DEF WorkerPop
  <2>2. /\ UNCHANGED <<heap, djob, dpc>>
        /\ wjob' = [wjob EXCEPT ![w] = Head(ready)]
        /\ wpc' = [wpc EXCEPT ![w] = "check"]
    BY <1>5 DEF WorkerPop
  <2> QED BY <1>0, <2>1, <2>2
<1>6. ASSUME NEW w \in Workers, WorkerRetry(w)
      PROVE  Placed(j)
  <2>1. /\ UNCHANGED <<ready, wjob, djob, dpc>> /\ Busy(w)
        /\ heap' = heap \cup {wjob[w]}
        /\ wpc' = [wpc EXCEPT ![w] = "retried"]
    BY <1>6 DEF WorkerRetry
  <2> QED BY <1>0, <2>1
<1> QED BY <1>1, <1>2, <1>3, <1>4, <1>5, <1>6 DEF Moves

\* Only submissions move a submission.
LEMMA SubmitsAlone ==
  ASSUME [Next]_vars
  PROVE  UNCHANGED spc \/ \E j \in Jobs : Submits(j) \/ SubmitAdmit(j)
<1> USE DEF submitVars
<1>1. DelayStep => UNCHANGED spc
  BY DEF DelayStep, DelayTake, DelayCheck, DelayPush, DelayMark, DelayStop,
         DelayDrain, DelayExit
<1>2. \A w \in Workers : WorkerStep(w) => UNCHANGED spc
  BY DEF WorkerStep, WorkerPop, WorkerExit, WorkerCheck, WorkerStart,
         WorkerReturn, WorkerMark, WorkerRetry, WorkerRelease, WorkerErase
<1>3. /\ \A j \in Jobs : ClientCancel(j) => UNCHANGED spc
      /\ \A a \in Agents : CancelStep(a) => UNCHANGED spc
  BY DEF ClientCancel, CancelStep, CancelHeap, CancelQueue, CancelErase
<1>4. ShutdownStep \/ UNCHANGED vars => UNCHANGED spc
  BY DEF ShutdownStep, ShutdownBegin, ShutdownClose, ShutdownDone,
         ShutdownTimeout, vars
<1> QED BY <1>1, <1>2, <1>3, <1>4 DEF Next, Submits, ShutdownStep

LEMMA EnteredStays ==
  ASSUME TypeOK, Custody, [Next]_vars, NEW j \in Jobs, Entered(j)
  PROVE  Entered(j)'
<1> USE DEF Entered, submitVars
<1>0. spc \in [Jobs -> {"idle", "gate", "persist", "place", "blocked", "mark",
                        "accepted", "lost"} \cup Refusals]
  BY DEF TypeOK
<1>1. ASSUME NEW k \in Jobs, Submits(k) \/ SubmitAdmit(k)
      PROVE  spc'[j] \in {"mark", "accepted"}
  BY <1>0, <1>1
     DEF Submits, SubmitAdmit, SubmitStep, SubmitSkip, SubmitCtx, SubmitGate,
         SubmitPersist, SubmitDelayed, SubmitReady, SubmitBlock, SubmitFull,
         SubmitMark, SubmitAt
<1> QED BY <1>1, SubmitsAlone

LEMMA PastStays ==
  ASSUME TypeOK, [Next]_vars, NEW j \in Jobs, Past(j)
  PROVE  Past(j)'
<1> USE DEF Past, Submitting
<1>0. spc \in [Jobs -> {"idle", "gate", "persist", "place", "blocked", "mark",
                        "accepted", "lost"} \cup Refusals]
  BY DEF TypeOK
<1>1. ASSUME NEW k \in Jobs, Submits(k) \/ SubmitAdmit(k)
      PROVE  Past(j)'
  BY <1>0, <1>1
     DEF Submits, SubmitAdmit, SubmitStep, SubmitSkip, SubmitCtx, SubmitGate,
         SubmitPersist, SubmitDelayed, SubmitReady, SubmitBlock, SubmitFull,
         SubmitMark, SubmitAt, Refusals
<1> QED BY <1>1, SubmitsAlone

LEMMA InitHolds == Init => HoldsEntered
<1>1. Init => ToSet(ready) = {}
  BY DEF Init, ToSet
<1> QED BY <1>1 DEF Init, HoldsEntered, Placed, Busy, InDelayHand

LEMMA HoldsEnteredStep ==
  Base /\ HoldsEntered /\ [Next]_vars => HoldsEntered'
<1> SUFFICES ASSUME TypeOK, Custody, HoldsEntered, [Next]_vars
             PROVE  HoldsEntered'
  BY DEF Base
<1>a. \A j \in Jobs : Placed(j)' => Entered(j)'
  BY EntriesFrom, EnteredStays DEF HoldsEntered, Entered
<1> SUFFICES ASSUME NEW w \in Workers, wjob'[w] # NoJob
             PROVE  spc'[wjob'[w]] \in {"mark", "accepted"}
  BY <1>a DEF HoldsEntered, Entered
<1> USE DEF queueVars, workerVars, delayVars, cancelVars, shutdownVars
<1>0. wjob \in [Workers -> Jobs \cup {NoJob}]
  BY DEF TypeOK
<1>1. CASE wjob'[w] = wjob[w]
  <2>1. wjob[w] \in Jobs /\ Entered(wjob[w])
    BY <1>0, <1>1 DEF HoldsEntered
  <2> QED BY <1>1, <2>1, EnteredStays DEF Entered
<1>2. CASE WorkerPop(w)
  <2>1. Head(ready) \in Jobs /\ Head(ready) \in ToSet(ready)
    BY <1>2, TailSet DEF WorkerPop, TypeOK
  <2>2. Entered(Head(ready))
    BY <2>1 DEF HoldsEntered, Placed
  <2>3. wjob'[w] = Head(ready)
    BY <1>0, <1>2 DEF WorkerPop
  <2> QED BY <2>1, <2>2, <2>3, EnteredStays DEF Entered
<1>3. ~WorkerPop(w) => wjob'[w] = wjob[w]
  <2> SUFFICES ASSUME ~WorkerPop(w) PROVE wjob'[w] = wjob[w]
    OBVIOUS
  <2>1. ASSUME NEW j \in Jobs, Submits(j) \/ SubmitAdmit(j) PROVE wjob' = wjob
    BY <2>1 DEF Submits, SubmitAdmit, SubmitStep, SubmitSkip, SubmitCtx, SubmitGate,
                SubmitPersist, SubmitDelayed, SubmitReady, SubmitBlock,
                SubmitFull, SubmitMark
  <2>2. CASE DelayStep
    BY <2>2 DEF DelayStep, DelayTake, DelayCheck, DelayPush, DelayMark,
                DelayStop, DelayDrain, DelayExit
  <2>3. ASSUME NEW v \in Workers, WorkerStep(v) PROVE wjob'[w] = wjob[w]
    BY <1>0, <2>3
       DEF WorkerStep, WorkerPop, WorkerExit, WorkerCheck, WorkerStart,
           WorkerReturn, WorkerMark, WorkerRetry, WorkerRelease, WorkerErase
  <2>4. ASSUME NEW j \in Jobs, ClientCancel(j) PROVE wjob' = wjob
    BY <2>4 DEF ClientCancel
  <2>5. ASSUME NEW a \in Agents, CancelStep(a) PROVE wjob' = wjob
    BY <2>5 DEF CancelStep, CancelHeap, CancelQueue, CancelErase
  <2>6. CASE ShutdownStep
    BY <2>6 DEF ShutdownStep, ShutdownBegin, ShutdownClose, ShutdownDone,
                ShutdownTimeout
  <2>7. CASE UNCHANGED vars
    BY <2>7 DEF vars
  <2> QED BY <2>1, <2>2, <2>3, <2>4, <2>5, <2>6, <2>7 DEF Next, Submits, ShutdownStep
<1> QED BY <1>1, <1>2, <1>3

\* What the remaining theorems build on.
Core == Base /\ CancelMarked /\ HoldsEntered

\* In every reachable state an entry is in one place, was submitted, and is marked
\* cancelled once cancelByIDLocked has dealt with the queue.
THEOREM CoreInvariant == Spec => []Core
<1>1. Init => HoldsEntered
  BY InitHolds
<1>2. Base /\ HoldsEntered /\ [Next]_vars => HoldsEntered'
  BY HoldsEnteredStep
<1> QED BY <1>1, <1>2, CancelInvariant, PTL DEF Spec, Core

-----------------------------------------------------------------------------
\* The handler of the worker that last had the job has decided: it has no entry.
LEMMA DecidedLeaves ==
  ASSUME TypeOK, Custody, NEW w \in Workers, wpc[w] \in {"succeed", "fail"},
         WorkerMark(w), NEW j \in Jobs, wjob[w] = j
  PROVE  ~Placed(j)'
<1> USE DEF Busy, InDelayHand
<1>1. /\ Busy(w) /\ wpc \in [Workers -> WorkerLabels]
      /\ UNCHANGED <<heap, ready, dpc, djob, wjob>>
      /\ wpc' = [wpc EXCEPT ![w] = "release"]
  BY DEF WorkerMark, WorkerAt, queueVars, delayVars, TypeOK, WorkerLabels
<1>2. /\ j \notin heap /\ j \notin ToSet(ready) /\ ~InDelayHand(j)
      /\ \A v \in Workers : v # w /\ Busy(v) => wjob[v] # j
  BY <1>1 DEF Custody
<1> QED BY <1>1, <1>2 DEF Placed

LEMMA MarkEffect ==
  ASSUME TypeOK, NEW j \in Jobs, NEW s, MarkStatus(j, s)
  PROVE  /\ status'[j] = s
         /\ \A k \in Jobs \ {j} : status'[k] \in {status[k], "unknown"}
<1> USE DEF TypeOK
<1>1. CASE Table!Overwrite(j, s)
  BY <1>1 DEF Table!Overwrite
<1>2. CASE Table!Insert(j, s)
  BY <1>2 DEF Table!Insert
<1>3. CASE Table!Evict(j, s)
  BY <1>3 DEF Table!Evict
<1> QED BY <1>1, <1>2, <1>3 DEF MarkStatus, Table!Mark

LEMMA PlacedLive ==
  ASSUME TypeOK, NEW j \in Jobs
  PROVE  Live(j) <=> Placed(j)
<1>1. HeldBefore(j) \/ HeldRunning(j) <=> \E w \in Workers : Busy(w) /\ wjob[w] = j
  BY DEF HeldBefore, HeldRunning, Busy
<1> QED BY <1>1 DEF Live, Waiting, Placed

\* A final status is the status of a job that is over.
Final == {"succeeded", "failed"}

FinalOver == \A j \in Jobs : status[j] \in Final => Entered(j) /\ ~Placed(j)

\* Only the worker that decides the job writes a final status.
LEMMA FinalMark ==
  ASSUME TypeOK, [Next]_vars, NEW j \in Jobs,
         status[j] \notin Final, status'[j] \in Final
  PROVE  \E w \in Workers :
           WorkerMark(w) /\ wpc[w] \in {"succeed", "fail"} /\ wjob[w] = j
<1> USE DEF Final, table
<1>0. /\ \A w \in Workers : wpc[w] \notin {"pop", "exited"} => wjob[w] \in Jobs
      /\ dpc \in {"check", "push", "mark"} => djob \in Jobs
      /\ \A a \in Agents : cpc[a] = "erase" => cjob[a] \in Jobs
  BY DEF TypeOK
<1>1. ASSUME NEW k \in Jobs, NEW s, MarkStatus(k, s), s \notin Final PROVE FALSE
  BY <1>1, MarkEffect
<1>2. ASSUME UNCHANGED status PROVE FALSE
  BY <1>2
<1>3. ASSUME NEW k \in Jobs, Submits(k) \/ SubmitAdmit(k) PROVE FALSE
  BY <1>1, <1>2, <1>3
     DEF Submits, SubmitAdmit, SubmitStep, SubmitSkip, SubmitCtx, SubmitGate,
         SubmitPersist, SubmitDelayed, SubmitReady, SubmitBlock, SubmitFull, SubmitMark
<1>4. CASE DelayStep
  <2>1. UNCHANGED status \/ \E k \in Jobs, s \in {"cancelled", "queued"} : MarkStatus(k, s)
    BY <1>0, <1>4
       DEF DelayStep, DelayTake, DelayCheck, DelayPush, DelayMark, DelayStop,
           DelayDrain, DelayExit, TypeOK
  <2> QED BY <1>1, <1>2, <2>1
<1>5. ASSUME NEW w \in Workers, WorkerStep(w), ~(WorkerMark(w) /\ wpc[w] \in {"succeed", "fail"})
      PROVE  FALSE
  <2>1. \/ UNCHANGED status
        \/ \E s \in {"cancelled", "running", "delayed"} :
             wjob[w] \in Jobs /\ MarkStatus(wjob[w], s)
    BY <1>0, <1>5
       DEF WorkerStep, WorkerPop, WorkerExit, WorkerCheck, WorkerStart,
           WorkerReturn, WorkerMark, WorkerRetry, WorkerRelease, WorkerErase
  <2> QED BY <1>1, <1>2, <2>1
<1>6. ASSUME NEW k \in Jobs, ClientCancel(k) PROVE FALSE
  BY <1>2, <1>6 DEF ClientCancel
<1>7. ASSUME NEW a \in Agents, CancelStep(a) PROVE FALSE
  <2>1. UNCHANGED status \/ \E k \in Jobs : MarkStatus(k, "cancelled")
    BY <1>0, <1>7 DEF CancelStep, CancelHeap, CancelQueue, CancelErase
  <2> QED BY <1>1, <1>2, <2>1
<1>8. CASE ShutdownStep
  BY <1>2, <1>8 DEF ShutdownStep, ShutdownBegin, ShutdownClose, ShutdownDone,
                    ShutdownTimeout
<1>9. CASE UNCHANGED vars
  BY <1>2, <1>9 DEF vars
<1>10. PICK w \in Workers : WorkerMark(w) /\ wpc[w] \in {"succeed", "fail"}
  BY <1>3, <1>4, <1>5, <1>6, <1>7, <1>8, <1>9 DEF Next, Submits, ShutdownStep
<1>11. \E s : wjob[w] \in Jobs /\ MarkStatus(wjob[w], s)
  BY <1>0, <1>10 DEF WorkerMark
<1>12. wjob[w] = j
  BY <1>11, MarkEffect
<1> QED BY <1>10, <1>12

LEMMA FinalOverStep ==
  Core /\ FinalOver /\ [Next]_vars => FinalOver'
<1> SUFFICES ASSUME TypeOK, Custody, HoldsEntered, FinalOver, [Next]_vars,
                    NEW j \in Jobs, status'[j] \in Final
             PROVE  Entered(j)' /\ ~Placed(j)'
  BY DEF Core, Base, FinalOver
<1>1. CASE status[j] \in Final
  <2>1. Entered(j) /\ ~Placed(j)
    BY <1>1 DEF FinalOver
  <2>2. ~(spc[j] \in {"place", "blocked"})
    BY <2>1 DEF Entered
  <2> QED BY <2>1, <2>2, EnteredStays, EntriesFrom
<1>2. CASE status[j] \notin Final
  <2>1. PICK w \in Workers :
          WorkerMark(w) /\ wpc[w] \in {"succeed", "fail"} /\ wjob[w] = j
    BY <1>2, FinalMark
  <2>2. ~Placed(j)'
    BY <2>1, DecidedLeaves
  <2>3. Entered(j)
    BY <2>1, DispatcherAssumption DEF HoldsEntered
  <2> QED BY <2>2, <2>3, EnteredStays
<1> QED BY <1>1, <1>2

\* JobStatus answers "succeeded" or "failed" only for a job that will not run
\* again: no retry, copy or late entry of it is left anywhere.
THEOREM FinalStatusIsFinal == Spec => []FinalMeansFinal
<1>1. Init => FinalOver
  BY DEF Init, FinalOver, Final, Table!Init
<1>2. Core /\ FinalOver /\ [Next]_vars => FinalOver'
  BY FinalOverStep
<1>3. Core /\ FinalOver => FinalMeansFinal
  BY PlacedLive DEF Core, Base, FinalOver, Final, FinalMeansFinal
<1> QED BY <1>1, <1>2, <1>3, CoreInvariant, PTL DEF Spec

-----------------------------------------------------------------------------
\* StatusTable counts and lists as this module does.
LEMMA TableOperators ==
  /\ \A s : Table!ToSet(s) = ToSet(s)
  /\ \A S : Table!Cardinality(S) = Cardinality(S)
BY DEF Table!ToSet, ToSet, Table!Cardinality, Cardinality

\* The list of the status table has every known id once.
TableKept ==
  /\ IsInjective(statusOrder)
  /\ IsFiniteSet(Table!Known)
  /\ Table!Consistent

LEMMA TableMark ==
  ASSUME TypeOK, TableKept, NEW j \in Jobs, NEW s, s # "unknown", MarkStatus(j, s)
  PROVE  /\ TableKept'
         /\ j \in Table!Known'
         /\ Len(statusOrder) <= Len(statusOrder')
         /\ \/ Table!Known \subseteq Table!Known'
            \/ Len(statusOrder') = MaxStatus
<1>0. /\ status \in [Jobs -> Statuses] /\ statusOrder \in Seq(Jobs)
      /\ MaxStatus \in Nat \ {0}
      /\ Len(statusOrder) \in Nat
  BY DispatcherAssumption, LenProperties DEF TypeOK, Statuses
<1>1. /\ IsInjective(statusOrder) /\ IsFiniteSet(Table!Known)
      /\ ToSet(statusOrder) = Table!Known
      /\ Len(statusOrder) = Cardinality(Table!Known)
      /\ Len(statusOrder) <= MaxStatus
  BY TableOperators DEF TableKept, Table!Consistent
<1>2. ASSUME NEW K, NEW o, Table!Known' = K, statusOrder' = o,
             IsInjective(o), IsFiniteSet(K), ToSet(o) = K,
             Len(o) = Cardinality(K), Len(o) <= MaxStatus
      PROVE  TableKept'
  BY <1>2, TableOperators DEF TableKept, Table!Consistent
<1>3. CASE Table!Overwrite(j, s)
  <2>1. Table!Known' = Table!Known /\ j \in Table!Known /\ UNCHANGED statusOrder
    BY <1>0, <1>3 DEF Table!Overwrite, Table!Known
  <2>2. TableKept'
    BY <1>1, <1>2, <2>1
  <2> QED BY <1>0, <2>1, <2>2
<1>4. CASE Table!Insert(j, s)
  <2>1. Table!Known' = Table!Known \cup {j} /\ j \notin Table!Known
    BY <1>0, <1>4 DEF Table!Insert, Table!Known
  <2>2. statusOrder' = Append(statusOrder, j) /\ Len(statusOrder) < MaxStatus
    BY <1>4 DEF Table!Insert
  <2>3. Len(Append(statusOrder, j)) = Len(statusOrder) + 1
    BY <1>0, AppendProperties
  <2>4. ToSet(Append(statusOrder, j)) = Table!Known \cup {j}
    BY <1>0, <1>1, AppendSet
  <2>5. IsInjective(Append(statusOrder, j))
    BY <1>0, <1>1, <2>1, AppendDistinct
  <2>6. /\ IsFiniteSet(Table!Known \cup {j})
        /\ Cardinality(Table!Known \cup {j}) = Cardinality(Table!Known) + 1
    BY <1>1, <2>1, FS_AddElement
  <2>7. /\ Len(Append(statusOrder, j)) = Cardinality(Table!Known \cup {j})
        /\ Len(Append(statusOrder, j)) <= MaxStatus
    BY <1>0, <1>1, <2>2, <2>3, <2>6
  <2>8. TableKept'
    BY <1>2, <2>1, <2>2, <2>4, <2>5, <2>6, <2>7
  <2> QED BY <1>0, <2>1, <2>2, <2>3, <2>8
<1>5. CASE Table!Evict(j, s)
  <2>1. j \notin Table!Known /\ Len(statusOrder) = MaxStatus
    BY <1>0, <1>1, <1>5 DEF Table!Evict
  <2>2. statusOrder # <<>>
    BY <1>0, <2>1
  <2>3. PICK h \in Jobs : h = Head(statusOrder) /\ h \in Table!Known
    BY <1>0, <1>1, <2>2, TailSet
  <2>4. PICK rest \in Seq(Jobs) : rest = Tail(statusOrder)
    BY <1>0, <2>2, TailSet
  <2>5. IsInjective(rest) /\ ToSet(rest) = Table!Known \ {h}
    BY <1>0, <1>1, <2>2, <2>3, <2>4, TailDistinct
  <2>6. Table!Known' = (Table!Known \ {h}) \cup {j}
    BY <1>0, <1>5, <2>1, <2>3 DEF Table!Evict, Table!Known
  <2>7. statusOrder' = Append(rest, j)
    BY <1>5, <2>4 DEF Table!Evict
  <2>8. Len(Append(rest, j)) = Len(statusOrder)
    BY <1>0, <2>2, <2>4, AppendProperties, HeadTailProperties
  <2>9. ToSet(Append(rest, j)) = (Table!Known \ {h}) \cup {j}
    BY <2>5, AppendSet
  <2>10. IsInjective(Append(rest, j))
    <3>1. j \notin ToSet(rest)
      BY <2>1, <2>5
    <3> QED BY <2>5, <3>1, AppendDistinct
  <2>11. /\ IsFiniteSet(Table!Known \ {h})
         /\ Cardinality(Table!Known \ {h}) = Cardinality(Table!Known) - 1
    BY <1>1, <2>3, FS_RemoveElement
  <2>12. j \notin Table!Known \ {h}
    BY <2>1
  <2>13. /\ IsFiniteSet((Table!Known \ {h}) \cup {j})
         /\ Cardinality((Table!Known \ {h}) \cup {j}) = Cardinality(Table!Known \ {h}) + 1
    BY <2>11, <2>12, FS_AddElement
  <2>14. Len(Append(rest, j)) = Cardinality((Table!Known \ {h}) \cup {j})
    BY <1>0, <1>1, <2>8, <2>11, <2>13
  <2>15. TableKept'
    BY <1>1, <1>2, <2>6, <2>7, <2>8, <2>9, <2>10, <2>13, <2>14
  <2> QED BY <1>0, <2>1, <2>6, <2>7, <2>8, <2>15
<1> QED BY <1>3, <1>4, <1>5 DEF MarkStatus, Table!Mark

\* What one step does to the table.
LEMMA TableStep ==
  ASSUME TypeOK, [Next]_vars
  PROVE  \/ UNCHANGED <<status, statusOrder>>
         \/ \E j \in Jobs, s \in Statuses \ {"unknown"} : MarkStatus(j, s)
<1> USE DEF table, Statuses
<1>0. /\ \A w \in Workers : wpc[w] \notin {"pop", "exited"} => wjob[w] \in Jobs
      /\ dpc \in {"check", "push", "mark"} => djob \in Jobs
      /\ \A a \in Agents : cpc[a] = "erase" => cjob[a] \in Jobs
  BY DEF TypeOK
<1>1. ASSUME NEW k \in Jobs, Submits(k) \/ SubmitAdmit(k)
      PROVE  \/ UNCHANGED <<status, statusOrder>>
             \/ \E s \in {"delayed", "queued"} : MarkStatus(k, s)
  BY <1>1 DEF Submits, SubmitAdmit, SubmitStep, SubmitSkip, SubmitCtx, SubmitGate,
         SubmitPersist, SubmitDelayed, SubmitReady, SubmitBlock, SubmitFull, SubmitMark
<1>2. CASE DelayStep
  <2>1. \/ UNCHANGED <<status, statusOrder>>
        \/ \E k \in Jobs, s \in {"cancelled", "queued"} : MarkStatus(k, s)
    BY <1>0, <1>2
       DEF DelayStep, DelayTake, DelayCheck, DelayPush, DelayMark, DelayStop,
           DelayDrain, DelayExit, TypeOK
  <2> QED BY <2>1
<1>3. ASSUME NEW w \in Workers, WorkerStep(w)
      PROVE  \/ UNCHANGED <<status, statusOrder>>
             \/ \E s \in Statuses \ {"unknown"} : wjob[w] \in Jobs /\ MarkStatus(wjob[w], s)
  BY <1>0, <1>3
     DEF WorkerStep, WorkerPop, WorkerExit, WorkerCheck, WorkerStart,
         WorkerReturn, WorkerMark, WorkerRetry, WorkerRelease, WorkerErase
<1>4. ASSUME NEW k \in Jobs, ClientCancel(k) PROVE UNCHANGED <<status, statusOrder>>
  BY <1>4 DEF ClientCancel
<1>5. ASSUME NEW a \in Agents, CancelStep(a)
      PROVE  \/ UNCHANGED <<status, statusOrder>>
             \/ cjob[a] \in Jobs /\ MarkStatus(cjob[a], "cancelled")
  BY <1>0, <1>5 DEF CancelStep, CancelHeap, CancelQueue, CancelErase
<1>6. CASE ShutdownStep
  BY <1>6 DEF ShutdownStep, ShutdownBegin, ShutdownClose, ShutdownDone, ShutdownTimeout
<1>7. CASE UNCHANGED vars
  BY <1>7 DEF vars
<1> QED BY <1>1, <1>2, <1>3, <1>4, <1>5, <1>6, <1>7 DEF Next, Submits, ShutdownStep

AcceptedKnown ==
  \A j \in Jobs :
    spc[j] = "accepted" => j \in Table!Known \/ Len(statusOrder) = MaxStatus

\* Submit returns only after it has marked the job.
LEMMA AcceptedMarked ==
  ASSUME TypeOK, [Next]_vars, NEW j \in Jobs, spc'[j] = "accepted", spc[j] # "accepted"
  PROVE  \E s \in Statuses \ {"unknown"} : MarkStatus(j, s)
<1> USE DEF submitVars
<1>1. ASSUME NEW k \in Jobs, Submits(k) \/ SubmitAdmit(k)
      PROVE  k = j /\ SubmitMark(j)
  BY <1>1 DEF TypeOK, Submits, SubmitAdmit, SubmitStep, SubmitSkip, SubmitCtx,
         SubmitGate, SubmitPersist, SubmitDelayed, SubmitReady, SubmitBlock,
         SubmitFull, SubmitMark, SubmitAt, Refusals
<1>2. UNCHANGED spc \/ \E k \in Jobs : Submits(k) \/ SubmitAdmit(k)
  BY DEF Next, Submits, vars, DelayStep, DelayTake, DelayCheck, DelayPush, DelayMark,
         DelayStop, DelayDrain, DelayExit, WorkerStep, WorkerPop, WorkerExit,
         WorkerCheck, WorkerStart, WorkerReturn, WorkerMark, WorkerRetry,
         WorkerRelease, WorkerErase, ClientCancel, CancelStep, CancelHeap,
         CancelQueue, CancelErase, ShutdownBegin, ShutdownClose, ShutdownDone,
         ShutdownTimeout
<1>3. SubmitMark(j)
  BY <1>1, <1>2
<1> QED BY <1>3 DEF SubmitMark, Statuses

LEMMA TableKeptStep ==
  ASSUME TypeOK, TypeOK', TableKept, AcceptedKnown, [Next]_vars
  PROVE  TableKept' /\ AcceptedKnown'
<1>0. Len(statusOrder') \in Nat /\ Len(statusOrder) \in Nat
  BY LenProperties DEF TypeOK
<1>1. CASE UNCHANGED <<status, statusOrder>>
  <2>1. TableKept' /\ Table!Known' = Table!Known
    BY <1>1 DEF TableKept, Table!Consistent, Table!Known
  <2>2. ASSUME NEW j \in Jobs, spc'[j] = "accepted", spc[j] # "accepted"
        PROVE  j \in Table!Known'
    <3>1. PICK s \in Statuses \ {"unknown"} : MarkStatus(j, s)
      BY <2>2, AcceptedMarked
    <3>2. status'[j] = s
      BY <3>1, MarkEffect
    <3> QED BY <3>2 DEF Table!Known
  <2> QED BY <1>1, <2>1, <2>2 DEF AcceptedKnown
<1>2. ASSUME NEW k \in Jobs, NEW s \in Statuses \ {"unknown"}, MarkStatus(k, s)
      PROVE  TableKept' /\ AcceptedKnown'
  <2>1. /\ TableKept' /\ k \in Table!Known'
        /\ Len(statusOrder) <= Len(statusOrder')
        /\ \/ Table!Known \subseteq Table!Known'
           \/ Len(statusOrder') = MaxStatus
    BY <1>2, TableMark
  <2>2. Len(statusOrder') <= MaxStatus /\ MaxStatus \in Nat
    BY <2>1, DispatcherAssumption DEF TableKept, Table!Consistent
  <2>3. ASSUME NEW j \in Jobs, spc'[j] = "accepted"
        PROVE  j \in Table!Known' \/ Len(statusOrder') = MaxStatus
    <3>1. CASE spc[j] = "accepted"
      BY <1>0, <2>1, <2>2, <3>1 DEF AcceptedKnown
    <3>2. CASE spc[j] # "accepted"
      <4>1. PICK t \in Statuses \ {"unknown"} : MarkStatus(j, t)
        BY <2>3, <3>2, AcceptedMarked
      <4>2. status'[j] = t
        BY <4>1, MarkEffect
      <4> QED BY <4>2 DEF Table!Known
    <3> QED BY <3>1, <3>2
  <2> QED BY <2>1, <2>3 DEF AcceptedKnown
<1> QED BY <1>1, <1>2, TableStep

\* The map and the eviction list of the status table agree and stay within
\* maxStatusCount, whatever goroutines call markStatus in whatever order, and
\* until the table is full it knows every job whose Submit has returned.
THEOREM StatusTableAlwaysOK == Spec => []StatusTableOK
<1>1. Init => TableKept /\ AcceptedKnown
  <2> SUFFICES ASSUME Init PROVE TableKept /\ AcceptedKnown
    OBVIOUS
  <2>1. statusOrder = <<>> /\ Table!Known = {} /\ MaxStatus \in Nat
    BY DispatcherAssumption DEF Init, Table!Init, Table!Known
  <2>2. IsInjective(<<>>) /\ ToSet(<<>>) = {} /\ Len(<<>>) = 0
    BY DEF IsInjective, ToSet
  <2>3. IsFiniteSet({}) /\ Cardinality({}) = 0
    BY FS_EmptySet
  <2>4. /\ IsInjective(statusOrder) /\ ToSet(statusOrder) = {} /\ Len(statusOrder) = 0
        /\ IsFiniteSet(Table!Known) /\ Cardinality(Table!Known) = 0
    BY <2>1, <2>2, <2>3
  <2>5. TableKept
    BY <2>1, <2>4, DispatcherAssumption, TableOperators DEF TableKept, Table!Consistent
  <2> QED BY <2>5 DEF Init, AcceptedKnown
<1>2. TypeOK /\ TypeOK' /\ TableKept /\ AcceptedKnown /\ [Next]_vars
        => TableKept' /\ AcceptedKnown'
  BY TableKeptStep
<1>3. TableKept /\ AcceptedKnown => StatusTableOK
  BY DEF TableKept, AcceptedKnown, StatusTableOK
<1> QED BY <1>1, <1>2, <1>3, TypeCorrect, PTL DEF Spec
=============================================================================
