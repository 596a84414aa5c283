------------------------ MODULE DispatcherJobProofs -------------------------
(***************************************************************************)
(* What Dispatcher owes a job at its end, for every configuration: its     *)
(* name is held as long as the job needs it and no longer, Shutdown waits  *)
(* for it, and its row goes with it.                                       *)
(***************************************************************************)
EXTENDS DispatcherProofs

\* A step of a submission loses no entry.
LEMMA SubmitPlaced ==
  ASSUME TypeOK, NEW j \in Jobs, Submits(j) \/ SubmitAdmit(j)
  PROVE  \A k \in Jobs : Placed(k) => Placed(k)'
<1> USE DEF queueVars, workerVars, delayVars
<1>1. heap \subseteq heap' /\ UNCHANGED <<wpc, wjob, dpc, djob>>
  BY DEF Submits, SubmitAdmit, SubmitStep, SubmitSkip, SubmitCtx, SubmitGate,
         SubmitPersist, SubmitDelayed, SubmitReady, SubmitBlock, SubmitFull, SubmitMark
<1>2. ready' = ready \/ ready' = Append(ready, j)
  BY DEF Submits, SubmitAdmit, SubmitStep, SubmitSkip, SubmitCtx, SubmitGate,
         SubmitPersist, SubmitDelayed, SubmitReady, SubmitBlock, SubmitFull, SubmitMark
<1>3. ToSet(Append(ready, j)) = ToSet(ready) \cup {j}
  BY AppendSet DEF TypeOK
<1>4. ToSet(ready) \subseteq ToSet(ready')
  <2>1. CASE ready' = ready
    BY <2>1
  <2>2. CASE ready' = Append(ready, j)
    BY <2>2, <1>3
  <2> QED BY <1>2, <2>1, <2>2
<1> QED BY <1>1, <1>4 DEF Placed, Busy, InDelayHand

\* Where a submission goes.
LEMMA SubmitGoes ==
  ASSUME TypeOK, NEW j \in Jobs, Submits(j) \/ SubmitAdmit(j)
  PROVE  /\ \A k \in Jobs \ {j} : spc'[k] = spc[k]
         /\ Submitting(j)' => Submitting(j) \/ SubmitAdmit(j)
         /\ Entered(j) => spc[j] = "mark" /\ spc'[j] = "accepted"
         /\ Entered(j)' /\ ~Entered(j) => Placed(j)'
<1> USE DEF Submitting, Entered, Refusals
<1>0. spc \in [Jobs -> {"idle", "gate", "persist", "place", "blocked", "mark",
                        "accepted", "lost"} \cup Refusals]
  BY DEF TypeOK
<1>1. ASSUME SubmitReady(j) PROVE Placed(j)'
  <2>1. j \in ToSet(ready')
    BY <1>1, AppendSet DEF SubmitReady, TypeOK
  <2> QED BY <2>1 DEF Placed
<1>2. ASSUME SubmitDelayed(j) PROVE Placed(j)'
  BY <1>2 DEF SubmitDelayed, Placed
<1>3. \E l \in {"gate", "persist", "place", "blocked", "mark", "accepted"} \cup Refusals :
        SubmitAt(j, l)
  BY DEF Submits, SubmitAdmit, SubmitStep, SubmitSkip, SubmitCtx, SubmitGate,
         SubmitPersist, SubmitDelayed, SubmitReady, SubmitBlock, SubmitFull, SubmitMark
<1>4. \A k \in Jobs \ {j} : spc'[k] = spc[k]
  BY <1>0, <1>3 DEF SubmitAt
<1>5. Submitting(j)' => Submitting(j) \/ SubmitAdmit(j)
  BY <1>0 DEF Submits, SubmitAdmit, SubmitStep, SubmitSkip, SubmitCtx, SubmitGate,
         SubmitPersist, SubmitDelayed, SubmitReady, SubmitBlock, SubmitFull,
         SubmitMark, SubmitAt
<1>6. Entered(j) => spc[j] = "mark" /\ spc'[j] = "accepted"
  BY <1>0 DEF Submits, SubmitAdmit, SubmitStep, SubmitSkip, SubmitCtx, SubmitGate,
         SubmitPersist, SubmitDelayed, SubmitReady, SubmitBlock, SubmitFull,
         SubmitMark, SubmitAt
<1>7. Entered(j)' /\ ~Entered(j) => SubmitReady(j) \/ SubmitDelayed(j)
  BY <1>0 DEF Submits, SubmitAdmit, SubmitStep, SubmitSkip, SubmitCtx, SubmitGate,
         SubmitPersist, SubmitDelayed, SubmitReady, SubmitBlock, SubmitFull,
         SubmitMark, SubmitAt
<1> QED BY <1>1, <1>2, <1>4, <1>5, <1>6, <1>7

-----------------------------------------------------------------------------
\* Whoever holds a name is being submitted, has an entry, is in the hands of the
\* worker or of the agent that will free the name, or was lost at the close.
HeldLate(j) == \E w \in Workers : wjob[w] = j /\ wpc[w] \in {"retried", "release"}
InCancel(j) == \E a \in Agents : cpc[a] = "queue" /\ cjob[a] = j
Kept(j) == Placed(j) \/ HeldLate(j) \/ InCancel(j) \/ Closed

NameKept == \A j \in inFlight : Submitting(j) \/ (Entered(j) /\ Kept(j))

LEMMA NameKeptSubmit ==
  ASSUME TypeOK, NameKept, NEW j \in Jobs, Submits(j) \/ SubmitAdmit(j)
  PROVE  NameKept'
<1> SUFFICES ASSUME NEW k \in inFlight' PROVE Submitting(k)' \/ (Entered(k)' /\ Kept(k)')
  BY DEF NameKept
<1>0. k \in Jobs /\ spc \in [Jobs -> {"idle", "gate", "persist", "place", "blocked",
                                      "mark", "accepted", "lost"} \cup Refusals]
  BY DEF TypeOK, Release, Rivals, submitVars, Submits, SubmitAdmit, SubmitStep,
         SubmitSkip, SubmitCtx, SubmitGate, SubmitPersist, SubmitDelayed,
         SubmitReady, SubmitBlock, SubmitFull, SubmitMark
<1>1. UNCHANGED <<wpc, wjob, cpc, cjob, sh>>
  BY DEF workerVars, cancelVars, shutdownVars, Submits, SubmitAdmit, SubmitStep,
         SubmitSkip, SubmitCtx, SubmitGate, SubmitPersist, SubmitDelayed,
         SubmitReady, SubmitBlock, SubmitFull, SubmitMark
<1>2. Kept(k) => Kept(k)'
  BY <1>0, <1>1, SubmitPlaced DEF Kept, HeldLate, InCancel, Closed
<1>3. CASE k # j
  <2>1. k \in inFlight
    BY <1>3 DEF Release, Rivals, submitVars, Submits, SubmitAdmit, SubmitStep,
         SubmitSkip, SubmitCtx, SubmitGate, SubmitPersist, SubmitDelayed,
         SubmitReady, SubmitBlock, SubmitFull, SubmitMark
  <2>2. spc'[k] = spc[k]
    BY <1>0, <1>3, SubmitGoes
  <2> QED BY <1>2, <2>1, <2>2 DEF NameKept, Submitting, Entered
<1>4. CASE k = j
  <2>1. Submitting(j)' \/ Entered(j)'
    BY <1>0, <1>4
       DEF NameKept, Submitting, Entered, SubmitAt, Release, Refusals, Submits,
           SubmitAdmit, SubmitStep, SubmitSkip, SubmitCtx, SubmitGate,
           SubmitPersist, SubmitDelayed, SubmitReady, SubmitBlock, SubmitFull,
           SubmitMark
  <2>2. CASE Entered(j)
    <3>1. j \in inFlight
      BY <1>4, <2>2
         DEF Entered, SubmitAt, Release, Refusals, Submits, submitVars,
           SubmitAdmit, SubmitStep, SubmitSkip, SubmitCtx, SubmitGate,
           SubmitPersist, SubmitDelayed, SubmitReady, SubmitBlock, SubmitFull,
           SubmitMark
    <3>2. Kept(j)
      BY <3>1, <2>2 DEF NameKept, Submitting, Entered
    <3>3. Entered(j)'
      BY <2>2, SubmitGoes DEF Entered
    <3> QED BY <1>2, <1>4, <3>2, <3>3
  <2>3. CASE ~Entered(j) /\ Entered(j)'
    BY <1>4, <2>3, SubmitGoes DEF Kept
  <2> QED BY <1>4, <2>1, <2>2, <2>3
<1> QED BY <1>3, <1>4

LEMMA NameKeptDelay ==
  ASSUME TypeOK, Custody, NameKept, DelayStep
  PROVE  NameKept'
<1> SUFFICES ASSUME NEW k \in inFlight' PROVE Submitting(k)' \/ (Entered(k)' /\ Kept(k)')
  BY DEF NameKept
<1> USE DEF submitVars, queueVars, workerVars, cancelVars, shutdownVars
<1>1. /\ UNCHANGED <<spc, wpc, wjob, cpc, cjob, sh>> /\ inFlight' \subseteq inFlight
  BY DEF DelayStep, DelayTake, DelayCheck, DelayPush, DelayMark, DelayStop,
         DelayDrain, DelayExit, Release
<1>2. k \in Jobs /\ k \in inFlight
  BY <1>1 DEF TypeOK
<1>3. Placed(k) => Placed(k)' \/ Closed
  <2> SUFFICES ASSUME Placed(k) PROVE Placed(k)' \/ Closed
    OBVIOUS
  <2> USE <1>1, <1>2 DEF Placed, Busy, InDelayHand
  <2>1. CASE DelayTake
    BY <2>1 DEF DelayTake
  <2>2. CASE DelayCheck
    <3>1. CASE djob \in cancelled
      <4>1. inFlight' = inFlight \ {djob} /\ UNCHANGED <<ready, heap>>
        BY <2>2, <3>1 DEF DelayCheck, Release
      <4> QED BY <4>1
    <3>2. CASE djob \notin cancelled
      BY <2>2, <3>2 DEF DelayCheck
    <3> QED BY <3>1, <3>2
  <2>3. CASE DelayPush
    <3>1. CASE ready' = Append(ready, djob)
      <4>1. ToSet(Append(ready, djob)) = ToSet(ready) \cup {djob}
        BY <2>3, AppendSet DEF DelayPush, TypeOK
      <4>2. UNCHANGED heap
        BY <2>3 DEF DelayPush
      <4> QED BY <3>1, <4>1, <4>2
    <3>2. CASE Closed
      BY <3>2
    <3> QED BY <2>3, <3>1, <3>2 DEF DelayPush
  <2>4. CASE DelayMark
    BY <2>4 DEF DelayMark
  <2>5. CASE DelayStop \/ DelayExit
    BY <2>5 DEF DelayStop, DelayExit
  <2>6. CASE DelayDrain
    <3>1. PICK j \in heap : heap' = heap \ {j} /\ inFlight' = inFlight \ {j}
      BY <2>6 DEF DelayDrain, Release
    <3> QED BY <2>6, <3>1 DEF DelayDrain, delayVars
  <2> QED BY <2>1, <2>2, <2>3, <2>4, <2>5, <2>6 DEF DelayStep
<1>4. Kept(k) => Kept(k)'
  BY <1>1, <1>3 DEF Kept, HeldLate, InCancel, Closed
<1> QED BY <1>1, <1>2, <1>4 DEF NameKept, Submitting, Entered

LEMMA NameKeptWorker ==
  ASSUME TypeOK, Custody, NameKept, NEW w \in Workers, WorkerStep(w)
  PROVE  NameKept'
<1> SUFFICES ASSUME NEW k \in inFlight' PROVE Submitting(k)' \/ (Entered(k)' /\ Kept(k)')
  BY DEF NameKept
<1> USE DEF submitVars, queueVars, workerVars, delayVars, cancelVars, shutdownVars
<1>1. /\ UNCHANGED <<spc, cpc, cjob, sh, dpc, djob>> /\ inFlight' \subseteq inFlight
      /\ heap \subseteq heap'
  BY DEF WorkerStep, WorkerPop, WorkerExit, WorkerCheck, WorkerStart, WorkerReturn,
         WorkerMark, WorkerRetry, WorkerRelease, WorkerErase, Release
<1>2. /\ k \in Jobs /\ k \in inFlight
      /\ wpc \in [Workers -> WorkerLabels] /\ wjob \in [Workers -> Jobs \cup {NoJob}]
  BY <1>1 DEF TypeOK, WorkerLabels
<1>3. Placed(k) \/ HeldLate(k) => Placed(k)' \/ HeldLate(k)'
  <2> SUFFICES ASSUME Placed(k) \/ HeldLate(k) PROVE Placed(k)' \/ HeldLate(k)'
    OBVIOUS
  <2> USE <1>1, <1>2 DEF Placed, HeldLate, Busy, InDelayHand, WorkerAt
  <2>1. CASE WorkerPop(w)
    <3>1. ToSet(ready) = ToSet(ready') \cup {Head(ready)}
      <4>1. ready \in Seq(Jobs) /\ ready # <<>> /\ IsInjective(ready)
        BY <2>1 DEF WorkerPop, TypeOK, Custody
      <4>2. Head(ready) \in ToSet(ready)
        BY <4>1, TailSet
      <4>3. ToSet(Tail(ready)) = ToSet(ready) \ {Head(ready)}
        BY <4>1, TailDistinct
      <4> QED BY <2>1, <4>2, <4>3 DEF WorkerPop
    <3>2. /\ wpc[w] = "pop" /\ wpc' = [wpc EXCEPT ![w] = "check"]
          /\ wjob' = [wjob EXCEPT ![w] = Head(ready)]
      BY <2>1 DEF WorkerPop
    <3> QED BY <3>1, <3>2
  <2>2. CASE WorkerExit(w)
    BY <2>2 DEF WorkerExit
  <2>3. CASE WorkerCheck(w)
    <3>1. CASE wjob[w] \in cancelled
      <4>1. /\ inFlight' = inFlight \ {wjob[w]} /\ UNCHANGED ready
            /\ wpc[w] = "check" /\ wpc' = [wpc EXCEPT ![w] = "pop"]
            /\ wjob' = [wjob EXCEPT ![w] = NoJob]
        BY <2>3, <3>1 DEF WorkerCheck, Release
      <4> QED BY <4>1
    <3>2. CASE wjob[w] \notin cancelled
      BY <2>3, <3>2 DEF WorkerCheck
    <3> QED BY <3>1, <3>2
  <2>4. CASE WorkerStart(w)
    BY <2>4 DEF WorkerStart
  <2>5. CASE WorkerReturn(w)
    <3>1. /\ wpc[w] = "run" /\ UNCHANGED <<ready, wjob>>
          /\ \E l \in {"release", "succeed", "fail", "retry"} :
               wpc' = [wpc EXCEPT ![w] = l]
      BY <2>5 DEF WorkerReturn
    <3> QED BY <3>1
  <2>6. CASE WorkerMark(w)
    BY <2>6 DEF WorkerMark
  <2>7. CASE WorkerRetry(w)
    BY <2>7 DEF WorkerRetry
  <2>8. CASE WorkerRelease(w)
    BY <2>8 DEF WorkerRelease, Release
  <2>9. CASE WorkerErase(w)
    BY <2>9 DEF WorkerErase
  <2> QED BY <2>1, <2>2, <2>3, <2>4, <2>5, <2>6, <2>7, <2>8, <2>9 DEF WorkerStep
<1>4. Kept(k) => Kept(k)'
  BY <1>1, <1>3 DEF Kept, InCancel, Closed
<1> QED BY <1>1, <1>2, <1>4 DEF NameKept, Submitting, Entered

LEMMA NameKeptCancel ==
  ASSUME TypeOK, Custody, NameKept,
         \/ \E j \in Jobs : ClientCancel(j)
         \/ \E a \in Agents : CancelStep(a)
         \/ ShutdownStep
         \/ UNCHANGED vars
  PROVE  NameKept'
<1> SUFFICES ASSUME NEW k \in inFlight' PROVE Submitting(k)' \/ (Entered(k)' /\ Kept(k)')
  BY DEF NameKept
<1> USE DEF submitVars, queueVars, workerVars, delayVars, cancelVars, shutdownVars
<1>0. /\ inFlight \subseteq Jobs /\ ready \in Seq(Jobs)
      /\ cpc \in [Agents -> {"heap", "queue", "erase"}]
      /\ cjob \in [Agents -> Jobs \cup {NoJob}]
  BY DEF TypeOK
<1>1. ASSUME UNCHANGED <<spc, inFlight, ready, heap, wpc, wjob, dpc, djob, cpc, cjob>>,
             Closed => Closed'
      PROVE  Submitting(k)' \/ (Entered(k)' /\ Kept(k)')
  BY <1>1 DEF NameKept, Submitting, Entered, Kept, Placed, HeldLate, InCancel, Busy,
              InDelayHand
<1>2. ASSUME NEW j \in Jobs, ClientCancel(j)
      PROVE  Submitting(k)' \/ (Entered(k)' /\ Kept(k)')
  BY <1>1, <1>2 DEF ClientCancel, Closed
<1>3. CASE ShutdownStep
  BY <1>1, <1>3 DEF ShutdownStep, ShutdownBegin, ShutdownClose, ShutdownDone,
                    ShutdownTimeout, Closed
<1>4. CASE UNCHANGED vars
  BY <1>1, <1>4 DEF vars, Closed
<1>5. ASSUME NEW a \in Agents, CancelStep(a)
      PROVE  Submitting(k)' \/ (Entered(k)' /\ Kept(k)')
  <2>1. UNCHANGED <<spc, wpc, wjob, dpc, djob, sh>> /\ inFlight' \subseteq inFlight
    BY <1>5 DEF CancelStep, CancelHeap, CancelQueue, CancelErase, Release
  <2>2. k \in Jobs /\ k \in inFlight
    BY <1>0, <2>1
  <2>3. Placed(k) \/ InCancel(k) => Placed(k)' \/ InCancel(k)'
    <3> USE <1>0, <2>1, <2>2 DEF Placed, InCancel, Busy, InDelayHand
    <3>1. CASE CancelHeap(a)
      <4>1. PICK j \in victims[a] : heap' = heap \ {j} /\ cjob' = [cjob EXCEPT ![a] = j]
        BY <3>1 DEF CancelHeap
      <4>2. cpc[a] = "heap" /\ cpc' = [cpc EXCEPT ![a] = "queue"] /\ UNCHANGED ready
        BY <3>1 DEF CancelHeap
      <4>3. InCancel(k) => InCancel(k)'
        BY <4>1, <4>2
      <4>4. cjob'[a] = j /\ cpc'[a] = "queue"
        BY <4>1, <4>2
      <4>5. k = j => InCancel(k)'
        BY <4>4
      <4>6. k # j /\ Placed(k) => Placed(k)'
        BY <4>1, <4>2
      <4> QED BY <4>3, <4>5, <4>6
    <3>2. CASE CancelQueue(a)
      <4>1. /\ cpc[a] = "queue" /\ cpc' = [cpc EXCEPT ![a] = "erase"]
            /\ UNCHANGED <<heap, cjob>> /\ k # cjob[a]
        BY <3>2 DEF CancelQueue, Release
      <4>2. k \in ToSet(ready) => k \in ToSet(ready')
        <5>1. CASE UNCHANGED ready
          BY <5>1
        <5>2. ASSUME NEW i \in DOMAIN ready, ready[i] = cjob[a],
                     ready' = RemoveAt(ready, i)
              PROVE  k \in ToSet(ready) => k \in ToSet(ready')
          <6>1. ToSet(RemoveAt(ready, i)) = ToSet(ready) \ {ready[i]}
            BY RemoveAtDistinct DEF Custody
          <6> QED BY <4>1, <5>2, <6>1
        <5> QED BY <3>2, <5>1, <5>2 DEF CancelQueue
      <4> QED BY <4>1, <4>2
    <3>3. CASE CancelErase(a)
      <4>1. /\ cpc[a] = "erase" /\ cpc' = [cpc EXCEPT ![a] = "heap"]
            /\ cjob' = [cjob EXCEPT ![a] = NoJob] /\ UNCHANGED <<heap, ready>>
        BY <3>3 DEF CancelErase
      <4> QED BY <4>1
    <3> QED BY <1>5, <3>1, <3>2, <3>3 DEF CancelStep
  <2>4. Kept(k) => Kept(k)'
    BY <2>1, <2>3 DEF Kept, HeldLate, Closed
  <2> QED BY <2>1, <2>2, <2>4 DEF NameKept, Submitting, Entered
<1> QED BY <1>2, <1>3, <1>4, <1>5

LEMMA NameKeptStep == Base /\ NameKept /\ [Next]_vars => NameKept'
BY NameKeptSubmit, NameKeptDelay, NameKeptWorker, NameKeptCancel
   DEF Base, Next, Submits, ShutdownStep

\* A name is blocked only by a job somebody will still finish: on every path, of
\* success, failure, retry, cancellation, replacement and refusal, whoever
\* settles the job has released it.  Jobs that popDue loses to a full, closed
\* queue are the exception.
THEOREM NoInFlightLeakAlways == Spec => []NoInFlightLeak
<1>1. Init => NameKept
  BY DEF Init, NameKept
<1>2. Base /\ NameKept => NoInFlightLeak
  <2> SUFFICES ASSUME TypeOK, NameKept, NEW j \in inFlight, Settled(j) PROVE Closed
    BY DEF Base, NoInFlightLeak
  <2>1. j \in Jobs
    BY DEF TypeOK
  <2>2. ~Placed(j)
    BY <2>1, PlacedLive DEF Settled
  <2>3. ~HeldLate(j)
    BY DEF Settled, Touched, HeldLate
  <2>4. ~InCancel(j)
    BY DEF Settled, Touched, BeingCancelled, InCancel, TypeOK
  <2>5. ~Submitting(j)
    BY DEF Settled, Submitting, Refusals
  <2> QED BY <2>2, <2>3, <2>4, <2>5 DEF NameKept, Kept
<1> QED BY <1>1, <1>2, NameKeptStep, BaseInvariant, PTL DEF Spec

-----------------------------------------------------------------------------
\* Under ConflictSkip and ConflictReplace: the in-flight set has one job of a
\* name, and every job with an entry or about to have one is in it, unless it
\* has been retried or displaced.  A worker that is about to free a name leaves
\* behind no such job.
Engaged(j) == Submitting(j) \/ Placed(j)

OneName == \A j, k \in inFlight : NameOf[j] = NameOf[k] => j = k

EngagedNamed ==
  \A j \in Jobs : Engaged(j) /\ attempt[j] = 0 => Displaced(j) \/ j \in inFlight

\* The jobs whose name w may free.
MayRelease(w) ==
  \/ wpc[w] = "retried" /\ attempt[wjob[w]] > 0
  \/ /\ wpc[w] = "release"
     /\ attempt[wjob[w]] > 0 \/ wjob[w] \in cancelled \/ ~Placed(wjob[w])

ReleasesRight ==
  \A w \in Workers : wpc[w] \in {"retried", "release"} => MayRelease(w)

\* Cancellation is never called off.
LEMMA DisplacedStays ==
  ASSUME TypeOK, IdleCancelsNone, CancelMarked, [Next]_vars, NEW k \in Jobs, Displaced(k)
  PROVE  Displaced(k)'
<1> USE DEF Displaced, BeingCancelled, cancelVars
<1>0. /\ victims \in [Agents -> SUBSET Jobs] /\ Client \in Agents /\ Jobs \subseteq Agents
      /\ cjob \in [Agents -> Jobs \cup {NoJob}]
  BY DEF TypeOK, Agents
<1>1. ASSUME UNCHANGED victims, cancelled \subseteq cancelled' PROVE Displaced(k)'
  BY <1>1
<1>2. ASSUME NEW j \in Jobs, Submits(j) PROVE Displaced(k)'
  <2>1. UNCHANGED <<victims, cancelled>>
    BY <1>2 DEF Submits, SubmitStep, SubmitSkip, SubmitCtx, SubmitGate,
                SubmitPersist, SubmitDelayed, SubmitReady, SubmitBlock,
                SubmitFull, SubmitMark
  <2> QED BY <1>1, <2>1
<1>3. ASSUME NEW j \in Jobs, SubmitAdmit(j) PROVE Displaced(k)'
  <2>1. /\ victims[j] = {} /\ victims' = [victims EXCEPT ![j] = Rivals(j)]
        /\ UNCHANGED cancelled
    BY <1>3 DEF SubmitAdmit, IdleCancelsNone
  <2> QED BY <1>0, <2>1
<1>4. CASE DelayStep
  <2>1. UNCHANGED <<victims, cancelled>>
    BY <1>4 DEF DelayStep, DelayTake, DelayCheck, DelayPush, DelayMark,
                DelayStop, DelayDrain, DelayExit
  <2> QED BY <1>1, <2>1
<1>5. ASSUME NEW w \in Workers, WorkerStep(w) PROVE Displaced(k)'
  <2>1. UNCHANGED <<victims, cancelled>>
    BY <1>5 DEF WorkerStep, WorkerPop, WorkerExit, WorkerCheck, WorkerStart,
                WorkerReturn, WorkerMark, WorkerRetry, WorkerRelease, WorkerErase
  <2> QED BY <1>1, <2>1
<1>6. ASSUME NEW j \in Jobs, ClientCancel(j) PROVE Displaced(k)'
  <2>1. /\ victims[Client] = {} /\ victims' = [victims EXCEPT ![Client] = {j}]
        /\ UNCHANGED cancelled
    BY <1>6 DEF ClientCancel
  <2> QED BY <1>0, <2>1
<1>7. ASSUME NEW a \in Agents, CancelHeap(a) \/ CancelQueue(a) PROVE Displaced(k)'
  <2>1. UNCHANGED victims /\ cancelled \subseteq cancelled'
    BY <1>7 DEF CancelHeap, CancelQueue
  <2> QED BY <1>1, <2>1
<1>8. ASSUME NEW a \in Agents, CancelErase(a) PROVE Displaced(k)'
  <2>1. /\ victims' = [victims EXCEPT ![a] = @ \ {cjob[a]}]
        /\ UNCHANGED cancelled /\ cjob[a] \in cancelled
    BY <1>8 DEF CancelErase, CancelMarked
  <2> QED BY <1>0, <2>1
<1>9. CASE ShutdownStep
  BY <1>1, <1>9 DEF ShutdownStep, ShutdownBegin, ShutdownClose, ShutdownDone,
                    ShutdownTimeout
<1>10. CASE UNCHANGED vars
  BY <1>1, <1>10 DEF vars
<1> QED BY <1>2, <1>3, <1>4, <1>5, <1>6, <1>7, <1>8, <1>9, <1>10
           DEF Next, Submits, ShutdownStep, CancelStep

\* The attempt number of an entry only goes up, and up from what it is.
LEMMA AttemptGrows ==
  ASSUME TypeOK, [Next]_vars
  PROVE  \/ UNCHANGED attempt
         \/ \E w \in Workers : /\ WorkerRetry(w) /\ wjob[w] \in Jobs
                               /\ attempt' = [attempt EXCEPT ![wjob[w]] = @ + 1]
<1> USE DEF queueVars
<1>1. ASSUME NEW j \in Jobs, Submits(j) \/ SubmitAdmit(j) PROVE UNCHANGED attempt
  BY <1>1 DEF Submits, SubmitAdmit, SubmitStep, SubmitSkip, SubmitCtx, SubmitGate,
              SubmitPersist, SubmitDelayed, SubmitReady, SubmitBlock,
              SubmitFull, SubmitMark
<1>2. CASE DelayStep
  BY <1>2 DEF DelayStep, DelayTake, DelayCheck, DelayPush, DelayMark, DelayStop,
              DelayDrain, DelayExit
<1>3. ASSUME NEW w \in Workers, WorkerStep(w), ~WorkerRetry(w) PROVE UNCHANGED attempt
  BY <1>3 DEF WorkerStep, WorkerPop, WorkerExit, WorkerCheck, WorkerStart,
              WorkerReturn, WorkerMark, WorkerRelease, WorkerErase
<1>4. ASSUME NEW w \in Workers, WorkerRetry(w)
      PROVE  wjob[w] \in Jobs /\ attempt' = [attempt EXCEPT ![wjob[w]] = @ + 1]
  BY <1>4 DEF WorkerRetry, TypeOK
<1>5. ASSUME NEW j \in Jobs, ClientCancel(j) PROVE UNCHANGED attempt
  BY <1>5 DEF ClientCancel
<1>6. ASSUME NEW a \in Agents, CancelStep(a) PROVE UNCHANGED attempt
  BY <1>6 DEF CancelStep, CancelHeap, CancelQueue, CancelErase
<1>7. CASE ShutdownStep
  BY <1>7 DEF ShutdownStep, ShutdownBegin, ShutdownClose, ShutdownDone, ShutdownTimeout
<1>8. CASE UNCHANGED vars
  BY <1>8 DEF vars
<1> QED BY <1>1, <1>2, <1>3, <1>4, <1>5, <1>6, <1>7, <1>8 DEF Next, Submits, ShutdownStep

LEMMA WorkersAlone ==
  ASSUME TypeOK, [Next]_vars, NEW v \in Workers
  PROVE  (wpc'[v] = wpc[v] /\ wjob'[v] = wjob[v]) \/ WorkerStep(v)
<1> USE DEF workerVars, WorkerAt
<1>0. /\ wpc \in [Workers -> WorkerLabels] /\ wjob \in [Workers -> Jobs \cup {NoJob}]
  BY DEF TypeOK, WorkerLabels
<1>1. ASSUME UNCHANGED <<wpc, wjob>> PROVE wpc'[v] = wpc[v] /\ wjob'[v] = wjob[v]
  BY <1>1
<1>2. ASSUME NEW j \in Jobs, Submits(j) \/ SubmitAdmit(j) PROVE UNCHANGED <<wpc, wjob>>
  BY <1>2 DEF Submits, SubmitAdmit, SubmitStep, SubmitSkip, SubmitCtx, SubmitGate,
              SubmitPersist, SubmitDelayed, SubmitReady, SubmitBlock,
              SubmitFull, SubmitMark
<1>3. CASE DelayStep
  BY <1>3 DEF DelayStep, DelayTake, DelayCheck, DelayPush, DelayMark, DelayStop,
              DelayDrain, DelayExit
<1>4. ASSUME NEW w \in Workers, WorkerStep(w), w # v
      PROVE  wpc'[v] = wpc[v] /\ wjob'[v] = wjob[v]
  BY <1>0, <1>4
     DEF WorkerStep, WorkerPop, WorkerExit, WorkerCheck, WorkerStart, WorkerReturn,
         WorkerMark, WorkerRetry, WorkerRelease, WorkerErase
<1>5. ASSUME NEW j \in Jobs, ClientCancel(j) PROVE UNCHANGED <<wpc, wjob>>
  BY <1>5 DEF ClientCancel
<1>6. ASSUME NEW a \in Agents, CancelStep(a) PROVE UNCHANGED <<wpc, wjob>>
  BY <1>6 DEF CancelStep, CancelHeap, CancelQueue, CancelErase
<1>7. CASE ShutdownStep
  BY <1>7 DEF ShutdownStep, ShutdownBegin, ShutdownClose, ShutdownDone, ShutdownTimeout
<1>8. CASE UNCHANGED vars
  BY <1>8 DEF vars
<1> QED BY <1>1, <1>2, <1>3, <1>4, <1>5, <1>6, <1>7, <1>8 DEF Next, Submits, ShutdownStep

LEMMA CancelledGrows == [Next]_vars => cancelled \subseteq cancelled'
<1> SUFFICES ASSUME [Next]_vars PROVE cancelled \subseteq cancelled'
  OBVIOUS
<1> USE DEF cancelVars
<1>1. ASSUME NEW j \in Jobs, Submits(j) \/ SubmitAdmit(j) PROVE UNCHANGED cancelled
  BY <1>1 DEF Submits, SubmitAdmit, SubmitStep, SubmitSkip, SubmitCtx, SubmitGate,
              SubmitPersist, SubmitDelayed, SubmitReady, SubmitBlock,
              SubmitFull, SubmitMark
<1>2. CASE DelayStep
  BY <1>2 DEF DelayStep, DelayTake, DelayCheck, DelayPush, DelayMark, DelayStop,
              DelayDrain, DelayExit
<1>3. ASSUME NEW w \in Workers, WorkerStep(w) PROVE UNCHANGED cancelled
  BY <1>3 DEF WorkerStep, WorkerPop, WorkerExit, WorkerCheck, WorkerStart, WorkerReturn,
         WorkerMark, WorkerRetry, WorkerRelease, WorkerErase
<1>4. ASSUME NEW j \in Jobs, ClientCancel(j) PROVE UNCHANGED cancelled
  BY <1>4 DEF ClientCancel
<1>5. ASSUME NEW a \in Agents, CancelStep(a) PROVE cancelled \subseteq cancelled'
  BY <1>5 DEF CancelStep, CancelHeap, CancelQueue, CancelErase
<1>6. CASE ShutdownStep
  BY <1>6 DEF ShutdownStep, ShutdownBegin, ShutdownClose, ShutdownDone, ShutdownTimeout
<1>7. CASE UNCHANGED vars
  BY <1>7 DEF vars
<1> QED BY <1>1, <1>2, <1>3, <1>4, <1>5, <1>6, <1>7 DEF Next, Submits, ShutdownStep

LEMMA ReleasesRightStep ==
  Base /\ ReleasesRight /\ [Next]_vars => ReleasesRight'
<1> SUFFICES ASSUME TypeOK, Custody, ReleasesRight, [Next]_vars,
                    NEW v \in Workers, wpc'[v] \in {"retried", "release"}
             PROVE  MayRelease(v)'
  BY DEF Base, ReleasesRight
<1>0. /\ wpc \in [Workers -> WorkerLabels] /\ attempt \in [Jobs -> Nat]
      /\ wpc[v] \notin {"pop", "exited"} => wjob[v] \in Jobs
  BY DEF TypeOK, WorkerLabels
<1>1. \A j \in Jobs : attempt'[j] >= attempt[j] /\ attempt'[j] \in Nat
  BY <1>0, AttemptGrows
<1>2. \A j \in Jobs : Past(j) /\ ~Placed(j) => ~Placed(j)'
  BY EntriesFrom DEF Past, Submitting
<1>3. CASE wpc'[v] = wpc[v] /\ wjob'[v] = wjob[v]
  <2>1. wjob[v] \in Jobs /\ Past(wjob[v]) /\ MayRelease(v)
    BY <1>0, <1>3, DispatcherAssumption DEF Custody, ReleasesRight
  <2>2. PICK j \in Jobs : j = wjob[v]
    BY <2>1
  <2>3. ~Placed(j) => ~Placed(j)'
    BY <1>2, <2>1, <2>2
  <2>4. ~Placed(wjob[v]) => ~Placed(wjob[v])'
    BY <1>3, <2>2, <2>3 DEF Placed, InDelayHand
  <2>5. attempt'[wjob'[v]] >= attempt[wjob[v]]
    BY <1>1, <1>3, <2>1
  <2>6. attempt[wjob[v]] > 0 => attempt'[wjob'[v]] > 0
    BY <1>0, <1>1, <1>3, <2>1, <2>5
  <2> QED BY <1>3, <2>1, <2>4, <2>6, CancelledGrows DEF MayRelease
<1>4. CASE WorkerStep(v) /\ ~(wpc'[v] = wpc[v] /\ wjob'[v] = wjob[v])
  <2>1. CASE WorkerRetry(v)
    <3>1. wjob[v] \in Jobs /\ wjob' = wjob /\ wpc'[v] = "retried"
      BY <1>0, <2>1 DEF WorkerRetry, WorkerAt
    <3>2. attempt'[wjob[v]] = attempt[wjob[v]] + 1
      BY <1>0, <2>1, <3>1 DEF WorkerRetry
    <3> QED BY <1>0, <3>1, <3>2 DEF MayRelease
  <2>2. CASE WorkerReturn(v)
    <3>1. wjob' = wjob /\ wpc'[v] = "release" /\ wjob[v] \in cancelled
      BY <1>0, <2>2 DEF WorkerReturn, WorkerAt
    <3> QED BY <3>1, CancelledGrows DEF MayRelease
  <2>3. CASE WorkerMark(v)
    <3>1. wjob[v] \in Jobs /\ wjob' = wjob /\ wpc'[v] = "release" /\ UNCHANGED attempt
      BY <1>0, <2>3 DEF WorkerMark, WorkerAt, queueVars
    <3>2. CASE wpc[v] = "retried"
      BY <3>1, <3>2 DEF ReleasesRight, MayRelease
    <3>3. CASE wpc[v] \in {"succeed", "fail"}
      <4>1. ASSUME NEW j \in Jobs, j = wjob[v] PROVE ~Placed(j)'
        BY <2>3, <3>3, <4>1, DecidedLeaves
      <4>2. ~Placed(wjob[v])'
        BY <3>1, <4>1 DEF Placed, InDelayHand
      <4> QED BY <3>1, <4>2 DEF MayRelease
    <3> QED BY <2>3, <3>2, <3>3 DEF WorkerMark
  <2>4. WorkerRetry(v) \/ WorkerReturn(v) \/ WorkerMark(v)
    BY <1>0, <1>4 DEF WorkerStep, WorkerPop, WorkerExit, WorkerCheck, WorkerStart,
                      WorkerRelease, WorkerErase, WorkerAt
  <2> QED BY <2>1, <2>2, <2>3, <2>4
<1> QED BY <1>3, <1>4, WorkersAlone

\* Who takes k out of the in-flight set, and what is then known of k.
LEMMA WhoReleases ==
  ASSUME TypeOK, Custody, ReleasesRight, Policy # "allow", [Next]_vars,
         NEW k \in Jobs, k \in inFlight, k \notin inFlight', attempt[k] = 0
  PROVE  \/ Displaced(k)'
         \/ ~Engaged(k)' /\ (Engaged(k) \/ \E w \in Workers : wjob[w] = k)
<1> DEFINE Goal == \/ Displaced(k)'
                   \/ ~Engaged(k)' /\ (Engaged(k) \/ \E w \in Workers : wjob[w] = k)
<1> USE DEF submitVars, cancelVars, queueVars, workerVars, delayVars
<1>0. /\ spc \in [Jobs -> {"idle", "gate", "persist", "place", "blocked", "mark",
                           "accepted", "lost"} \cup Refusals]
      /\ wpc \in [Workers -> WorkerLabels] /\ wjob \in [Workers -> Jobs \cup {NoJob}]
      /\ \A w \in Workers : wpc[w] \notin {"pop", "exited"} => wjob[w] \in Jobs
  BY DEF TypeOK, WorkerLabels
<1>1. ASSUME k \in cancelled' PROVE Displaced(k)'
  BY <1>1 DEF Displaced
<1>2. ASSUME Past(k), ~Placed(k) PROVE ~Engaged(k)'
  <2>1. Past(k)' /\ ~Placed(k)'
    BY <1>2, PastStays, EntriesFrom DEF Past, Submitting
  <2> QED BY <2>1 DEF Engaged, Past
<1>3. ASSUME NEW j \in Jobs, SubmitAdmit(j) PROVE Displaced(k)'
  <2>1. j \in Agents /\ k \in Rivals(j) /\ victims' = [victims EXCEPT ![j] = Rivals(j)]
    BY <1>3 DEF SubmitAdmit, Agents
  <2>2. k \in victims'[j]
    BY <2>1 DEF TypeOK
  <2> QED BY <2>1, <2>2 DEF Displaced, BeingCancelled
<1>4. ASSUME NEW j \in Jobs, Submits(j) PROVE Goal
  <2>1. j = k /\ spc'[k] \in Refusals /\ Submitting(k)
    BY <1>0, <1>4
       DEF Submits, SubmitStep, SubmitSkip, SubmitCtx, SubmitGate, SubmitPersist,
           SubmitDelayed, SubmitReady, SubmitBlock, SubmitFull, SubmitMark,
           Release, SubmitAt, Refusals, Submitting
  <2>2. ~Placed(k)
    BY <2>1 DEF Custody, Past
  <2>3. UNCHANGED <<heap, ready, dpc, djob, wpc, wjob>>
    BY <1>0, <1>4, <2>1
       DEF Submits, SubmitStep, SubmitSkip, SubmitCtx, SubmitGate, SubmitPersist,
           SubmitDelayed, SubmitReady, SubmitBlock, SubmitFull, SubmitMark,
           SubmitAt, Refusals
  <2> QED BY <2>1, <2>2, <2>3 DEF Engaged, Placed, Submitting, Busy, InDelayHand, Refusals
<1>5. CASE DelayStep
  <2>1. CASE DelayDrain
    <3>1. k \in heap /\ heap' = heap \ {k} /\ dpc = "drain"
          /\ UNCHANGED <<ready, dpc, djob, wpc, wjob, spc>>
      BY <2>1 DEF DelayDrain, Release
    <3>2. Past(k) /\ k \notin ToSet(ready)
          /\ \A w \in Workers : Busy(w) => wjob[w] # k
      BY <3>1 DEF Custody, Placed
    <3> QED BY <3>1, <3>2 DEF Engaged, Placed, Submitting, Past, Busy, InDelayHand
  <2>2. CASE ~DelayDrain
    <3>1. k \in cancelled'
      BY <1>5, <2>2
         DEF DelayStep, DelayTake, DelayCheck, DelayPush, DelayMark, DelayStop,
             DelayExit, Release
    <3> QED BY <1>1, <3>1
  <2> QED BY <2>1, <2>2
<1>6. ASSUME NEW w \in Workers, WorkerStep(w), ~WorkerRelease(w) PROVE k \in cancelled'
  BY <1>6 DEF WorkerStep, WorkerPop, WorkerExit, WorkerCheck, WorkerStart,
              WorkerReturn, WorkerMark, WorkerRetry, WorkerErase, Release
<1>7. ASSUME NEW w \in Workers, WorkerRelease(w) PROVE Goal
  <2>1. wjob[w] = k /\ wpc[w] = "release"
    BY <1>7 DEF WorkerRelease, Release
  <2>2. MayRelease(w) /\ Past(k)
    BY <2>1, DispatcherAssumption DEF ReleasesRight, Custody
  <2>3. k \in cancelled \/ ~Placed(k)
    BY <2>1, <2>2 DEF MayRelease
  <2> QED BY <1>1, <1>2, <2>1, <2>2, <2>3, CancelledGrows
<1>8. ASSUME NEW j \in Jobs, ClientCancel(j) PROVE FALSE
  BY <1>8 DEF ClientCancel
<1>9. ASSUME NEW a \in Agents, CancelStep(a) PROVE k \in cancelled'
  BY <1>9 DEF CancelStep, CancelHeap, CancelQueue, CancelErase, Release
<1>10. CASE ShutdownStep
  BY <1>10 DEF ShutdownStep, ShutdownBegin, ShutdownClose, ShutdownDone, ShutdownTimeout
<1>11. CASE UNCHANGED vars
  BY <1>11 DEF vars
<1> QED BY <1>1, <1>3, <1>4, <1>5, <1>6, <1>7, <1>8, <1>9, <1>10, <1>11
           DEF Next, Submits, ShutdownStep

LEMMA InFlightGrows ==
  ASSUME TypeOK, Policy # "allow", [Next]_vars
  PROVE  \/ inFlight' \subseteq inFlight
         \/ \E j \in Jobs : SubmitAdmit(j) /\ inFlight' = (inFlight \ Rivals(j)) \cup {j}
<1> USE DEF submitVars, Release
<1>1. ASSUME NEW j \in Jobs, Submits(j) PROVE inFlight' \subseteq inFlight
  BY <1>1 DEF Submits, SubmitStep, SubmitSkip, SubmitCtx, SubmitGate, SubmitPersist,
              SubmitDelayed, SubmitReady, SubmitBlock, SubmitFull, SubmitMark
<1>2. ASSUME NEW j \in Jobs, SubmitAdmit(j)
      PROVE  inFlight' = (inFlight \ Rivals(j)) \cup {j}
  BY <1>2 DEF SubmitAdmit
<1>3. CASE DelayStep
  BY <1>3 DEF DelayStep, DelayTake, DelayCheck, DelayPush, DelayMark, DelayStop,
              DelayDrain, DelayExit
<1>4. ASSUME NEW w \in Workers, WorkerStep(w) PROVE inFlight' \subseteq inFlight
  BY <1>4 DEF WorkerStep, WorkerPop, WorkerExit, WorkerCheck, WorkerStart, WorkerReturn,
         WorkerMark, WorkerRetry, WorkerRelease, WorkerErase
<1>5. ASSUME NEW j \in Jobs, ClientCancel(j) PROVE inFlight' \subseteq inFlight
  BY <1>5 DEF ClientCancel
<1>6. ASSUME NEW a \in Agents, CancelStep(a) PROVE inFlight' \subseteq inFlight
  BY <1>6 DEF CancelStep, CancelHeap, CancelQueue, CancelErase
<1>7. CASE ShutdownStep
  BY <1>7 DEF ShutdownStep, ShutdownBegin, ShutdownClose, ShutdownDone, ShutdownTimeout
<1>8. CASE UNCHANGED vars
  BY <1>8 DEF vars
<1> QED BY <1>1, <1>2, <1>3, <1>4, <1>5, <1>6, <1>7, <1>8 DEF Next, Submits, ShutdownStep

LEMMA OneNameStep ==
  ASSUME Policy # "allow", Core, OneName, [Next]_vars
  PROVE  OneName'
<1>1. CASE inFlight' \subseteq inFlight
  BY <1>1 DEF OneName
<1>2. ASSUME NEW j \in Jobs, inFlight' = (inFlight \ Rivals(j)) \cup {j} PROVE OneName'
  BY <1>2 DEF OneName, Rivals
<1> QED BY <1>1, <1>2, InFlightGrows DEF Core, Base

LEMMA EngagedNamedStep ==
  ASSUME Policy # "allow", Base, CancelMarked, ReleasesRight, EngagedNamed,
         [Next]_vars
  PROVE  EngagedNamed'
<1> USE DEF Base
<1> SUFFICES ASSUME NEW k \in Jobs, Engaged(k)', attempt'[k] = 0, ~Displaced(k)'
             PROVE  k \in inFlight'
  BY DEF EngagedNamed
<1>1. attempt[k] = 0
  <2>1. attempt \in [Jobs -> Nat]
    BY DEF TypeOK
  <2> QED BY <2>1, AttemptGrows
<1>2. ~Displaced(k)
  BY DisplacedStays
<1>3. CASE SubmitAdmit(k)
  BY <1>3 DEF SubmitAdmit
<1>4. CASE ~SubmitAdmit(k)
  <2>1. Engaged(k)
    <3>1. CASE Placed(k)'
      BY <3>1, EntriesFrom DEF Engaged, Submitting
    <3>2. CASE Submitting(k)'
      <4>1. CASE \E j \in Jobs : Submits(j) \/ SubmitAdmit(j)
        BY <1>4, <3>2, <4>1, SubmitGoes DEF Engaged, Submitting
      <4>2. CASE ~(\E j \in Jobs : Submits(j) \/ SubmitAdmit(j))
        <5>1. UNCHANGED spc
          BY <4>2
             DEF Next, Submits, vars, submitVars, DelayStep, DelayTake, DelayCheck,
                 DelayPush, DelayMark, DelayStop, DelayDrain, DelayExit, WorkerStep,
                 WorkerPop, WorkerExit, WorkerCheck, WorkerStart, WorkerReturn,
                 WorkerMark, WorkerRetry, WorkerRelease, WorkerErase, ClientCancel,
                 CancelStep, CancelHeap, CancelQueue, CancelErase, ShutdownBegin,
                 ShutdownClose, ShutdownDone, ShutdownTimeout
        <5> QED BY <3>2, <5>1 DEF Engaged, Submitting
      <4> QED BY <4>1, <4>2
    <3> QED BY <3>1, <3>2 DEF Engaged
  <2>2. k \in inFlight
    BY <1>1, <1>2, <2>1 DEF EngagedNamed
  <2> QED BY <1>1, <2>2, WhoReleases
<1> QED BY <1>3, <1>4

\* Under ConflictSkip and ConflictReplace no two jobs of a name are live together,
\* unless one of them has been retried or is being cancelled: applyConflict, the
\* rollbacks of Submit, popDue, runEntry and cancelByIDLocked all keep to it.
THEOREM SameNameAlwaysExclusive ==
  ASSUME Policy # "allow"
  PROVE  Spec => []SameNameExclusive
<1>1. Init => OneName /\ EngagedNamed /\ ReleasesRight
  <2> SUFFICES ASSUME Init PROVE OneName /\ EngagedNamed /\ ReleasesRight
    OBVIOUS
  <2>1. Custody
    BY InitCustody
  <2> QED BY <2>1 DEF Init, OneName, EngagedNamed, ReleasesRight, Engaged, Submitting,
                    Custody, Past
<1>2. /\ Core /\ OneName /\ EngagedNamed /\ ReleasesRight
      /\ [Next]_vars
      => OneName' /\ EngagedNamed' /\ ReleasesRight'
  BY OneNameStep, EngagedNamedStep, ReleasesRightStep DEF Core
<1>3. Core /\ OneName /\ EngagedNamed => SameNameExclusive
  <2> SUFFICES ASSUME TypeOK, OneName, EngagedNamed PROVE SameNameExclusive
    BY DEF Core, Base
  <2>1. \A j \in Jobs : Live(j) => Engaged(j)
    BY PlacedLive DEF Engaged
  <2> QED BY <2>1 DEF OneName, EngagedNamed, SameNameExclusive
<1> QED BY <1>1, <1>2, <1>3, CoreInvariant, PTL DEF Spec

-----------------------------------------------------------------------------
\* An immediate job that was accepted and has neither run nor been cancelled is in
\* the ready queue or with a worker that is about to run it; once a worker has
\* left, with the queue closed and empty, only the latter.
Unrun(j) == starts[j] = 0 /\ j \notin cancelled

FrontKept ==
  \A j \in Jobs \ Later :
    Entered(j) /\ Unrun(j) => j \in ToSet(ready) \/ HeldBefore(j)

ExitKept ==
  /\ \A j \in early : j \in Jobs /\ Entered(j)
  /\ sh = "done" => \A w \in Workers : wpc[w] = "exited"
  /\ \A w \in Workers : wpc[w] = "exited" =>
       /\ Closed
       /\ \A j \in early \ Later : Unrun(j) => HeldBefore(j)

LEMMA StartsCount ==
  ASSUME TypeOK, [Next]_vars
  PROVE  \/ UNCHANGED starts
         \/ \E w \in Workers : /\ WorkerStart(w) /\ wjob[w] \in Jobs
                               /\ starts' = [starts EXCEPT ![wjob[w]] = @ + 1]
<1> USE DEF workerVars
<1>1. ASSUME NEW k \in Jobs, Submits(k) \/ SubmitAdmit(k) PROVE UNCHANGED starts
  BY <1>1 DEF Submits, SubmitAdmit, SubmitStep, SubmitSkip, SubmitCtx, SubmitGate,
              SubmitPersist, SubmitDelayed, SubmitReady, SubmitBlock,
              SubmitFull, SubmitMark
<1>2. CASE DelayStep
  BY <1>2 DEF DelayStep, DelayTake, DelayCheck, DelayPush, DelayMark, DelayStop,
              DelayDrain, DelayExit
<1>3. ASSUME NEW w \in Workers, WorkerStep(w), ~WorkerStart(w) PROVE UNCHANGED starts
  BY <1>3 DEF WorkerStep, WorkerPop, WorkerExit, WorkerCheck, WorkerReturn,
              WorkerMark, WorkerRetry, WorkerRelease, WorkerErase
<1>4. ASSUME NEW w \in Workers, WorkerStart(w)
      PROVE  wjob[w] \in Jobs /\ starts' = [starts EXCEPT ![wjob[w]] = @ + 1]
  BY <1>4 DEF WorkerStart, TypeOK
<1>5. ASSUME NEW k \in Jobs, ClientCancel(k) PROVE UNCHANGED starts
  BY <1>5 DEF ClientCancel
<1>6. ASSUME NEW a \in Agents, CancelStep(a) PROVE UNCHANGED starts
  BY <1>6 DEF CancelStep, CancelHeap, CancelQueue, CancelErase
<1>7. CASE ShutdownStep
  BY <1>7 DEF ShutdownStep, ShutdownBegin, ShutdownClose, ShutdownDone, ShutdownTimeout
<1>8. CASE UNCHANGED vars
  BY <1>8 DEF vars
<1> QED BY <1>1, <1>2, <1>3, <1>4, <1>5, <1>6, <1>7, <1>8 DEF Next, Submits, ShutdownStep

LEMMA UnrunBefore ==
  ASSUME TypeOK, [Next]_vars, NEW j \in Jobs, Unrun(j)'
  PROVE  Unrun(j)
<1>1. starts[j] \in Nat /\ starts'[j] >= starts[j]
  <2>1. starts \in [Jobs -> Nat]
    BY DEF TypeOK
  <2>2. ASSUME NEW w \in Workers, starts' = [starts EXCEPT ![wjob[w]] = @ + 1]
        PROVE  starts'[j] >= starts[j]
    BY <2>1, <2>2
  <2> QED BY <2>1, <2>2, StartsCount
<1> QED BY <1>1, CancelledGrows DEF Unrun

LEMMA HeldStays ==
  ASSUME TypeOK, [Next]_vars, NEW j \in Jobs, HeldBefore(j), Unrun(j)'
  PROVE  HeldBefore(j)'
<1>1. PICK w \in Workers : wjob[w] = j /\ wpc[w] \in {"check", "register"}
  BY DEF HeldBefore
<1>2. CASE wpc'[w] = wpc[w] /\ wjob'[w] = wjob[w]
  BY <1>1, <1>2 DEF HeldBefore
<1>3. CASE WorkerStep(w)
  <2>1. j \notin cancelled /\ starts'[j] = 0 /\ starts[j] = 0
    BY CancelledGrows, UnrunBefore DEF Unrun
  <2>2. ~WorkerStart(w)
    BY <1>1, <2>1 DEF WorkerStart, TypeOK
  <2>3. WorkerCheck(w)
    BY <1>1, <1>3, <2>2
       DEF WorkerStep, WorkerPop, WorkerExit, WorkerReturn, WorkerMark,
           WorkerRetry, WorkerRelease, WorkerErase
  <2>4. wjob'[w] = j /\ wpc'[w] = "register"
    BY <1>1, <2>1, <2>3 DEF WorkerCheck, WorkerAt, TypeOK
  <2> QED BY <2>4 DEF HeldBefore
<1> QED BY <1>2, <1>3, WorkersAlone

LEMMA ReadyStays ==
  ASSUME TypeOK, Custody, [Next]_vars, NEW j \in ToSet(ready), Unrun(j)'
  PROVE  j \in ToSet(ready') \/ HeldBefore(j)'
<1> USE DEF queueVars
<1>0. /\ ready \in Seq(Jobs) /\ IsInjective(ready)
      /\ wpc \in [Workers -> WorkerLabels] /\ wjob \in [Workers -> Jobs \cup {NoJob}]
  BY DEF TypeOK, Custody, WorkerLabels
<1>1. ASSUME NEW x \in Jobs, ready' = Append(ready, x) PROVE j \in ToSet(ready')
  <2>1. ToSet(Append(ready, x)) = ToSet(ready) \cup {x}
    BY <1>0, AppendSet
  <2> QED BY <1>1, <2>1
<1>2. ASSUME NEW k \in Jobs, Submits(k) \/ SubmitAdmit(k) PROVE j \in ToSet(ready')
  <2>1. ready' = ready \/ ready' = Append(ready, k)
    BY <1>2 DEF Submits, SubmitAdmit, SubmitStep, SubmitSkip, SubmitCtx, SubmitGate,
                SubmitPersist, SubmitDelayed, SubmitReady, SubmitBlock,
                SubmitFull, SubmitMark
  <2> QED BY <1>1, <2>1
<1>3. CASE DelayStep
  <2>1. ready' = ready \/ (djob \in Jobs /\ ready' = Append(ready, djob))
    BY <1>3 DEF DelayStep, DelayTake, DelayCheck, DelayPush, DelayMark, DelayStop,
                DelayDrain, DelayExit, TypeOK
  <2> QED BY <1>1, <2>1
<1>4. ASSUME NEW w \in Workers, WorkerStep(w) PROVE j \in ToSet(ready') \/ HeldBefore(j)'
  <2>1. CASE WorkerPop(w)
    <3>1. ready # <<>> /\ ready' = Tail(ready)
          /\ wjob'[w] = Head(ready) /\ wpc'[w] = "check"
      BY <1>0, <2>1 DEF WorkerPop, WorkerAt
    <3>2. ToSet(Tail(ready)) = ToSet(ready) \ {Head(ready)}
      BY <1>0, <3>1, TailDistinct
    <3>3. j = Head(ready) => HeldBefore(j)'
      BY <3>1 DEF HeldBefore
    <3> QED BY <3>1, <3>2, <3>3
  <2>2. CASE ~WorkerPop(w)
    BY <1>4, <2>2
       DEF WorkerStep, WorkerExit, WorkerCheck, WorkerStart, WorkerReturn,
           WorkerMark, WorkerRetry, WorkerRelease, WorkerErase
  <2> QED BY <2>1, <2>2
<1>5. ASSUME NEW k \in Jobs, ClientCancel(k) PROVE j \in ToSet(ready')
  BY <1>5 DEF ClientCancel
<1>6. ASSUME NEW a \in Agents, CancelStep(a) PROVE j \in ToSet(ready')
  <2>1. CASE UNCHANGED ready
    BY <2>1
  <2>2. CASE ~UNCHANGED ready
    <3>1. CancelQueue(a)
      BY <1>6, <2>2 DEF CancelStep, CancelHeap, CancelQueue, CancelErase
    <3>2. PICK i \in DOMAIN ready : ready[i] = cjob[a] /\ ready' = RemoveAt(ready, i)
      BY <2>2, <3>1 DEF CancelQueue
    <3>3. ToSet(RemoveAt(ready, i)) = ToSet(ready) \ {ready[i]}
      BY <1>0, RemoveAtDistinct
    <3>4. j # cjob[a]
      BY <3>1 DEF CancelQueue, Unrun
    <3> QED BY <3>2, <3>3, <3>4
  <2> QED BY <2>1, <2>2
<1>7. CASE ShutdownStep
  BY <1>7 DEF ShutdownStep, ShutdownBegin, ShutdownClose, ShutdownDone, ShutdownTimeout
<1>8. CASE UNCHANGED vars
  BY <1>8 DEF vars
<1> QED BY <1>2, <1>3, <1>4, <1>5, <1>6, <1>7, <1>8 DEF Next, Submits, ShutdownStep

LEMMA FrontKeptStep ==
  ASSUME Base, FrontKept, [Next]_vars
  PROVE  FrontKept'
<1> USE DEF Base
<1> SUFFICES ASSUME NEW j \in Jobs \ Later, Entered(j)', Unrun(j)'
             PROVE  j \in ToSet(ready') \/ HeldBefore(j)'
  BY DEF FrontKept
<1>1. Unrun(j)
  BY UnrunBefore
<1>2. CASE Entered(j)
  BY <1>1, <1>2, HeldStays, ReadyStays DEF FrontKept
<1>3. CASE ~Entered(j)
  <2>1. PICK k \in Jobs : Submits(k) \/ SubmitAdmit(k)
    <3>1. CASE UNCHANGED spc
      BY <1>3, <3>1 DEF Entered
    <3>2. CASE ~UNCHANGED spc
      BY <3>2
         DEF Next, Submits, vars, submitVars, DelayStep, DelayTake, DelayCheck,
             DelayPush, DelayMark, DelayStop, DelayDrain, DelayExit, WorkerStep,
             WorkerPop, WorkerExit, WorkerCheck, WorkerStart, WorkerReturn,
             WorkerMark, WorkerRetry, WorkerRelease, WorkerErase, ClientCancel,
             CancelStep, CancelHeap, CancelQueue, CancelErase, ShutdownBegin,
             ShutdownClose, ShutdownDone, ShutdownTimeout
    <3> QED BY <3>1, <3>2
  <2>2. k = j
    BY <1>3, <2>1, SubmitGoes DEF Entered
  <2>3. SubmitReady(j)
    BY <1>3, <2>1, <2>2
       DEF TypeOK, Entered, Submits, SubmitAdmit, SubmitStep, SubmitSkip, SubmitCtx,
           SubmitGate, SubmitPersist, SubmitDelayed, SubmitBlock, SubmitFull,
           SubmitMark, SubmitAt, Refusals
  <2> QED BY <2>3, AppendSet DEF SubmitReady, TypeOK
<1> QED BY <1>2, <1>3

LEMMA ExitKeptStep ==
  ASSUME Base, FrontKept, ExitKept, [Next]_vars
  PROVE  ExitKept'
<1> USE DEF Base, shutdownVars
<1>0. sh \in {"idle", "stopping", "waiting", "done", "timeout"}
      /\ wpc \in [Workers -> WorkerLabels]
  BY DEF TypeOK, WorkerLabels
<1>1. \/ UNCHANGED <<sh, early>>
      \/ ShutdownStep
  BY DEF Next, ShutdownStep, vars, SubmitAdmit, SubmitStep, SubmitSkip, SubmitCtx,
         SubmitGate, SubmitPersist, SubmitDelayed, SubmitReady, SubmitBlock,
         SubmitFull, SubmitMark, DelayStep, DelayTake, DelayCheck, DelayPush,
         DelayMark, DelayStop, DelayDrain, DelayExit, WorkerStep, WorkerPop,
         WorkerExit, WorkerCheck, WorkerStart, WorkerReturn, WorkerMark,
         WorkerRetry, WorkerRelease, WorkerErase, ClientCancel, CancelStep,
         CancelHeap, CancelQueue, CancelErase
<1>2. Closed => Closed' /\ UNCHANGED early
  BY <1>1 DEF Closed, ShutdownStep, ShutdownBegin, ShutdownClose, ShutdownDone,
              ShutdownTimeout
<1>3. \A j \in early' : j \in Jobs /\ Entered(j)'
  <2>1. \A j \in early' : j \in Jobs /\ Entered(j)
    BY <1>1 DEF ExitKept, Entered, ShutdownStep, ShutdownBegin, ShutdownClose,
                ShutdownDone, ShutdownTimeout
  <2> QED BY <2>1, EnteredStays
<1>4. ASSUME NEW w \in Workers
      PROVE  /\ wpc[w] = "exited" => wpc'[w] = "exited"
             /\ wpc'[w] = "exited" => wpc[w] = "exited" \/ WorkerExit(w)
  BY <1>0, WorkersAlone
     DEF WorkerStep, WorkerPop, WorkerExit, WorkerCheck, WorkerStart, WorkerReturn,
         WorkerMark, WorkerRetry, WorkerRelease, WorkerErase, WorkerAt
<1>5. sh' = "done" => \A w \in Workers : wpc'[w] = "exited"
  <2> SUFFICES ASSUME sh' = "done" PROVE \A w \in Workers : wpc[w] = "exited"
    BY <1>4
  <2>1. sh = "done" \/ ShutdownDone
    BY <1>1 DEF ShutdownStep, ShutdownBegin, ShutdownClose, ShutdownTimeout
  <2> QED BY <2>1 DEF ExitKept, ShutdownDone
<1>6. ASSUME NEW w \in Workers, wpc'[w] = "exited"
      PROVE  /\ Closed'
             /\ \A j \in early' \ Later : Unrun(j)' => HeldBefore(j)'
  <2>1. Closed
    BY <1>4, <1>6 DEF ExitKept, WorkerExit
  <2>2. ASSUME NEW j \in early \ Later, Unrun(j)' PROVE HeldBefore(j)'
    <3>1. j \in Jobs /\ Entered(j)
      BY DEF ExitKept
    <3>2. Unrun(j)
      BY <2>2, <3>1, UnrunBefore
    <3>3. HeldBefore(j)
      <4>1. CASE wpc[w] = "exited"
        BY <3>2, <4>1 DEF ExitKept
      <4>2. CASE WorkerExit(w)
        <5>1. ToSet(ready) = {}
          BY <4>2 DEF WorkerExit, ToSet
        <5> QED BY <3>1, <3>2, <5>1 DEF FrontKept
      <4> QED BY <1>4, <1>6, <4>1, <4>2
    <3> QED BY <2>2, <3>1, <3>3, HeldStays
  <2> QED BY <1>2, <2>1, <2>2
<1> QED BY <1>3, <1>5, <1>6 DEF ExitKept

\* When Shutdown returns nil, every immediate job whose Submit had returned before
\* Shutdown was called has run or was cancelled: a worker leaves only once the
\* closed queue is empty.  WithWorkers makes sure that there is a worker.
THEOREM EarlyJobsAlwaysRun ==
  ASSUME Workers # {}
  PROVE  Spec => []EarlyJobsRun
<1>1. Init => FrontKept /\ ExitKept
  BY DEF Init, FrontKept, ExitKept, Entered
<1>2. Base /\ FrontKept /\ ExitKept /\ [Next]_vars => FrontKept' /\ ExitKept'
  BY FrontKeptStep, ExitKeptStep
<1>3. Base /\ ExitKept => EarlyJobsRun
  <2> SUFFICES ASSUME TypeOK, ExitKept, sh = "done", NEW j \in early \ Later
               PROVE  starts[j] > 0 \/ j \in cancelled
    BY DEF Base, EarlyJobsRun
  <2>1. \A w \in Workers : wpc[w] = "exited"
    BY DEF ExitKept
  <2>2. ~HeldBefore(j)
    BY <2>1 DEF HeldBefore
  <2>3. j \in Jobs /\ ~Unrun(j)
    BY <2>1, <2>2 DEF ExitKept
  <2>4. starts[j] \in Nat
    BY <2>3 DEF TypeOK
  <2> QED BY <2>3, <2>4 DEF Unrun
<1> QED BY <1>1, <1>2, <1>3, BaseInvariant, PTL DEF Spec

-----------------------------------------------------------------------------
\* Without ConflictReplace only the client cancels, and it cancels what has been
\* accepted: an entry is never ahead of the row of its job.
OnlyAccepted ==
  /\ \A a \in Agents : \A j \in victims[a] : Entered(j)
  /\ \A j \in cancelled : Entered(j)
  /\ Policy = "allow" => inFlight = {}

LEMMA OnlyAcceptedStep ==
  ASSUME Policy # "replace", Base, OnlyAccepted, [Next]_vars
  PROVE  OnlyAccepted'
<1> USE DEF Base, submitVars, cancelVars, Release
<1>0. /\ victims \in [Agents -> SUBSET Jobs] /\ Client \in Agents /\ Jobs \subseteq Agents
      /\ cancelled \subseteq Jobs
      /\ \A a \in Agents : cpc[a] # "heap" => cjob[a] \in victims[a]
  BY DEF TypeOK, Agents
<1>1. \A j \in Jobs : Entered(j) => Entered(j)'
  BY EnteredStays
<1>2. ASSUME \A a \in Agents : victims'[a] \subseteq victims[a],
             cancelled' = cancelled, inFlight' \subseteq inFlight
      PROVE  OnlyAccepted'
  BY <1>0, <1>1, <1>2 DEF OnlyAccepted
<1>3. ASSUME NEW j \in Jobs, Submits(j) PROVE OnlyAccepted'
  <2>1. UNCHANGED <<victims, cancelled>> /\ inFlight' \subseteq inFlight
    BY <1>3 DEF Submits, SubmitStep, SubmitSkip, SubmitCtx, SubmitGate,
                SubmitPersist, SubmitDelayed, SubmitReady, SubmitBlock,
                SubmitFull, SubmitMark
  <2> QED BY <1>2, <2>1
<1>4. ASSUME NEW j \in Jobs, SubmitAdmit(j) PROVE OnlyAccepted'
  <2>1. Rivals(j) = {}
    BY <1>4, DispatcherAssumption DEF SubmitAdmit, Rivals, OnlyAccepted
  <2>2. \A a \in Agents : victims'[a] \subseteq victims[a]
    BY <1>0, <1>4, <2>1 DEF SubmitAdmit
  <2>3. UNCHANGED cancelled /\ (Policy = "allow" => UNCHANGED inFlight)
    BY <1>4 DEF SubmitAdmit
  <2> QED BY <1>0, <1>1, <2>2, <2>3 DEF OnlyAccepted
<1>5. CASE DelayStep
  <2>1. UNCHANGED <<victims, cancelled>> /\ inFlight' \subseteq inFlight
    BY <1>5 DEF DelayStep, DelayTake, DelayCheck, DelayPush, DelayMark,
                DelayStop, DelayDrain, DelayExit
  <2> QED BY <1>2, <2>1
<1>6. ASSUME NEW w \in Workers, WorkerStep(w) PROVE OnlyAccepted'
  <2>1. UNCHANGED <<victims, cancelled>> /\ inFlight' \subseteq inFlight
    BY <1>6 DEF WorkerStep, WorkerPop, WorkerExit, WorkerCheck, WorkerStart,
                WorkerReturn, WorkerMark, WorkerRetry, WorkerRelease, WorkerErase
  <2> QED BY <1>2, <2>1
<1>7. ASSUME NEW j \in Jobs, ClientCancel(j) PROVE OnlyAccepted'
  <2>1. /\ victims' = [victims EXCEPT ![Client] = {j}] /\ Entered(j)
        /\ UNCHANGED <<cancelled, inFlight>>
    BY <1>7 DEF ClientCancel, Entered
  <2> QED BY <1>0, <1>1, <2>1 DEF OnlyAccepted
<1>8. ASSUME NEW a \in Agents, CancelHeap(a) \/ CancelErase(a) PROVE OnlyAccepted'
  <2>1. /\ victims' = victims \/ victims' = [victims EXCEPT ![a] = @ \ {cjob[a]}]
        /\ UNCHANGED <<cancelled, inFlight>>
    BY <1>8 DEF CancelHeap, CancelErase
  <2>2. \A b \in Agents : victims'[b] \subseteq victims[b]
    BY <1>0, <2>1
  <2> QED BY <1>2, <2>1, <2>2
<1>9. ASSUME NEW a \in Agents, CancelQueue(a) PROVE OnlyAccepted'
  <2>1. /\ cancelled' = cancelled \cup {cjob[a]} /\ cjob[a] \in victims[a]
        /\ UNCHANGED victims /\ inFlight' \subseteq inFlight
    BY <1>0, <1>9 DEF CancelQueue
  <2>2. cjob[a] \in Jobs
    BY <1>0, <2>1
  <2> QED BY <1>0, <1>1, <2>1, <2>2 DEF OnlyAccepted
<1>10. CASE ShutdownStep
  BY <1>2, <1>10 DEF ShutdownStep, ShutdownBegin, ShutdownClose, ShutdownDone,
                     ShutdownTimeout
<1>11. CASE UNCHANGED vars
  BY <1>2, <1>11 DEF vars
<1> QED BY <1>3, <1>4, <1>5, <1>6, <1>7, <1>8, <1>9, <1>10, <1>11
           DEF Next, Submits, ShutdownStep, CancelStep

\* Who will still delete a row: the worker that has begun an attempt of the job, or
\* the agent that is cancelling it; and whose row may stay.
WorkerOwes(j) ==
  \E w \in Workers :
    wjob[w] = j /\ wpc[w] \in {"run", "succeed", "fail", "retry", "retried",
                               "release", "erase"}
AgentOwes(j) == \E a \in Agents : cpc[a] = "erase" /\ cjob[a] = j

RowOwed(j) ==
  \/ spc[j] \in {"place", "blocked"}
  \/ Entered(j) /\ (Placed(j) \/ WorkerOwes(j) \/ InCancel(j) \/ AgentOwes(j) \/ Closed)

RowsOwed ==
  \A j \in Jobs : row[j] # NoRow =>
    /\ RowOwed(j)
    /\ j \in cancelled => WorkerOwes(j) \/ AgentOwes(j)

\* A step that writes no row.
LEMMA OwesStays ==
  ASSUME TypeOK, [Next]_vars, NEW j \in Jobs, row'[j] # NoRow
  PROVE  /\ WorkerOwes(j) => WorkerOwes(j)'
         /\ AgentOwes(j) => AgentOwes(j)'
         /\ InCancel(j) => InCancel(j)' \/ AgentOwes(j)'
<1>0. /\ wpc \in [Workers -> WorkerLabels] /\ wjob \in [Workers -> Jobs \cup {NoJob}]
      /\ row \in [Jobs -> Nat \cup {NoRow}]
      /\ cpc \in [Agents -> {"heap", "queue", "erase"}]
      /\ cjob \in [Agents -> Jobs \cup {NoJob}]
  BY DEF TypeOK, WorkerLabels
<1>1. ASSUME NEW w \in Workers, wjob[w] = j,
             wpc[w] \in {"run", "succeed", "fail", "retry", "retried", "release", "erase"}
      PROVE  WorkerOwes(j)'
  <2>1. CASE wpc'[w] = wpc[w] /\ wjob'[w] = wjob[w]
    BY <1>1, <2>1 DEF WorkerOwes
  <2>2. CASE WorkerStep(w)
    <3>1. ~WorkerErase(w)
      BY <1>0, <1>1 DEF WorkerErase, Erase
    <3>2. /\ wjob'[w] = j
          /\ wpc'[w] \in {"run", "succeed", "fail", "retry", "retried", "release", "erase"}
      BY <1>0, <1>1, <2>2, <3>1
         DEF WorkerStep, WorkerPop, WorkerExit, WorkerCheck, WorkerStart,
             WorkerReturn, WorkerMark, WorkerRetry, WorkerRelease, WorkerAt
    <3> QED BY <3>2 DEF WorkerOwes
  <2> QED BY <2>1, <2>2, WorkersAlone
<1>2. ASSUME NEW a \in Agents,
             ~(cpc'[a] = cpc[a] /\ cjob'[a] = cjob[a])
      PROVE  CancelStep(a)
  <2> USE DEF cancelVars
  <2>1. ASSUME NEW k \in Jobs, Submits(k) \/ SubmitAdmit(k) PROVE UNCHANGED <<cpc, cjob>>
    BY <2>1 DEF Submits, SubmitAdmit, SubmitStep, SubmitSkip, SubmitCtx, SubmitGate,
                SubmitPersist, SubmitDelayed, SubmitReady, SubmitBlock,
                SubmitFull, SubmitMark
  <2>2. DelayStep => UNCHANGED <<cpc, cjob>>
    BY DEF DelayStep, DelayTake, DelayCheck, DelayPush, DelayMark, DelayStop,
           DelayDrain, DelayExit
  <2>3. ASSUME NEW w \in Workers, WorkerStep(w) PROVE UNCHANGED <<cpc, cjob>>
    BY <2>3 DEF WorkerStep, WorkerPop, WorkerExit, WorkerCheck, WorkerStart,
                WorkerReturn, WorkerMark, WorkerRetry, WorkerRelease, WorkerErase
  <2>4. ASSUME NEW k \in Jobs, ClientCancel(k) PROVE UNCHANGED <<cpc, cjob>>
    BY <2>4 DEF ClientCancel
  <2>5. ASSUME NEW b \in Agents, b # a, CancelStep(b)
        PROVE  cpc'[a] = cpc[a] /\ cjob'[a] = cjob[a]
    BY <1>0, <2>5 DEF CancelStep, CancelHeap, CancelQueue, CancelErase
  <2>6. ShutdownStep \/ UNCHANGED vars => UNCHANGED <<cpc, cjob>>
    BY DEF ShutdownStep, ShutdownBegin, ShutdownClose, ShutdownDone, ShutdownTimeout, vars
  <2> QED BY <1>2, <2>1, <2>2, <2>3, <2>4, <2>5, <2>6 DEF Next, Submits, ShutdownStep
<1>3. ASSUME NEW a \in Agents, cpc[a] = "erase", cjob[a] = j PROVE AgentOwes(j)'
  <2>1. ~CancelStep(a)
    BY <1>0, <1>3 DEF CancelStep, CancelHeap, CancelQueue, CancelErase, Erase
  <2> QED BY <1>2, <1>3, <2>1 DEF AgentOwes
<1>4. ASSUME NEW a \in Agents, cpc[a] = "queue", cjob[a] = j
      PROVE  InCancel(j)' \/ AgentOwes(j)'
  <2>1. CASE CancelStep(a)
    <3>1. cpc'[a] = "erase" /\ cjob'[a] = j
      BY <1>0, <1>4, <2>1 DEF CancelStep, CancelHeap, CancelQueue, CancelErase
    <3> QED BY <3>1 DEF AgentOwes
  <2>2. CASE ~CancelStep(a)
    BY <1>2, <1>4, <2>2 DEF InCancel
  <2> QED BY <2>1, <2>2
<1> QED BY <1>1, <1>3, <1>4 DEF WorkerOwes, AgentOwes, InCancel

LEMMA LeavesOwed ==
  ASSUME TypeOK, Custody, [Next]_vars, NEW j \in Jobs, Placed(j), row'[j] # NoRow
  PROVE  Placed(j)' \/ WorkerOwes(j)' \/ AgentOwes(j)' \/ InCancel(j)' \/ Closed
         \/ j \in cancelled
<1> DEFINE Goal == Placed(j)' \/ WorkerOwes(j)' \/ AgentOwes(j)' \/ InCancel(j)' \/ Closed
                   \/ j \in cancelled
<1> USE DEF queueVars, workerVars, delayVars
<1>0. /\ wpc \in [Workers -> WorkerLabels] /\ wjob \in [Workers -> Jobs \cup {NoJob}]
      /\ row \in [Jobs -> Nat \cup {NoRow}] /\ ready \in Seq(Jobs) /\ IsInjective(ready)
      /\ cpc \in [Agents -> {"heap", "queue", "erase"}]
      /\ cjob \in [Agents -> Jobs \cup {NoJob}]
  BY DEF TypeOK, WorkerLabels, Custody
<1>1. ASSUME NEW k \in Jobs, Submits(k) \/ SubmitAdmit(k) PROVE Goal
  BY <1>1, SubmitPlaced
<1>2. CASE DelayStep
  <2> USE DEF Placed, Busy, InDelayHand
  <2>1. UNCHANGED <<wpc, wjob>>
    BY <1>2 DEF DelayStep, DelayTake, DelayCheck, DelayPush, DelayMark, DelayStop,
                DelayDrain, DelayExit
  <2>2. CASE DelayTake
    BY <2>1, <2>2 DEF DelayTake
  <2>3. CASE DelayCheck
    BY <2>1, <2>3 DEF DelayCheck
  <2>4. CASE DelayPush
    <3>1. ToSet(Append(ready, djob)) = ToSet(ready) \cup {djob}
      BY <1>0, <2>4, AppendSet DEF DelayPush, TypeOK
    <3> QED BY <2>1, <2>4, <3>1 DEF DelayPush
  <2>5. CASE DelayMark \/ DelayStop \/ DelayExit
    BY <2>1, <2>5 DEF DelayMark, DelayStop, DelayExit
  <2>6. CASE DelayDrain
    <3>1. PICK k \in heap : heap' = heap \ {k} /\ row' = [row EXCEPT ![k] = NoRow]
      BY <2>6 DEF DelayDrain, Erase
    <3>2. k # j
      BY <1>0, <3>1
    <3>3. UNCHANGED <<ready, dpc, djob>>
      BY <2>6 DEF DelayDrain
    <3> QED BY <2>1, <3>1, <3>2, <3>3
  <2> QED BY <1>2, <2>2, <2>3, <2>4, <2>5, <2>6 DEF DelayStep
<1>3. ASSUME NEW w \in Workers, WorkerStep(w) PROVE Goal
  <2>1. UNCHANGED <<dpc, djob>> /\ heap \subseteq heap'
    BY <1>3 DEF WorkerStep, WorkerPop, WorkerExit, WorkerCheck, WorkerStart,
                WorkerReturn, WorkerMark, WorkerRetry, WorkerRelease, WorkerErase
  <2>2. \A v \in Workers : v # w => wpc'[v] = wpc[v] /\ wjob'[v] = wjob[v]
    BY <1>0, <1>3 DEF WorkerStep, WorkerPop, WorkerExit, WorkerCheck, WorkerStart,
                WorkerReturn, WorkerMark, WorkerRetry, WorkerRelease, WorkerErase,
                WorkerAt
  <2>3. CASE WorkerPop(w)
    <3>1. ready # <<>> /\ wjob'[w] = Head(ready) /\ wpc'[w] = "check"
          /\ ~Busy(w)
      BY <1>0, <2>3 DEF WorkerPop, WorkerAt, Busy
    <3>2. ToSet(ready') = ToSet(ready) \ {Head(ready)}
      BY <1>0, <2>3, <3>1, TailDistinct DEF WorkerPop
    <3>3. j = Head(ready) => Placed(j)'
      BY <3>1 DEF Placed, Busy
    <3>4. j # Head(ready) => Placed(j)'
      BY <2>1, <2>2, <3>1, <3>2 DEF Placed, Busy, InDelayHand
    <3> QED BY <3>3, <3>4
  <2>4. CASE ~WorkerPop(w)
    <3>1. UNCHANGED ready
      BY <1>3, <2>4 DEF WorkerStep, WorkerExit, WorkerCheck, WorkerStart,
                WorkerReturn, WorkerMark, WorkerRetry, WorkerRelease, WorkerErase
    <3>2. CASE ~(Busy(w) /\ wjob[w] = j)
      BY <2>1, <2>2, <3>1, <3>2 DEF Placed, Busy, InDelayHand
    <3>3. CASE Busy(w) /\ wjob[w] = j
      <4>1. CASE WorkerCheck(w)
        <5>1. j \in cancelled \/ (wpc'[w] = "register" /\ wjob'[w] = j)
          BY <1>0, <3>3, <4>1 DEF WorkerCheck, WorkerAt
        <5> QED BY <5>1 DEF Placed, Busy
      <4>2. CASE ~WorkerCheck(w)
        <5>1. /\ wjob'[w] = j
              /\ wpc'[w] \in {"run", "succeed", "fail", "retry", "retried", "release"}
          BY <1>0, <1>3, <2>4, <3>3, <4>2
             DEF WorkerStep, WorkerExit, WorkerStart, WorkerReturn, WorkerMark,
                 WorkerRetry, WorkerRelease, WorkerErase, WorkerAt, Busy
        <5> QED BY <5>1 DEF WorkerOwes
      <4> QED BY <4>1, <4>2
    <3> QED BY <3>2, <3>3
  <2> QED BY <2>3, <2>4
<1>4. ASSUME NEW a \in Agents, CancelStep(a) PROVE Goal
  <2>1. UNCHANGED <<wpc, wjob, dpc, djob>>
    BY <1>4 DEF CancelStep, CancelHeap, CancelQueue, CancelErase
  <2>2. CASE CancelHeap(a)
    <3>1. PICK k \in victims[a] : heap' = heap \ {k} /\ cjob' = [cjob EXCEPT ![a] = k]
      BY <2>2 DEF CancelHeap
    <3>2. cpc'[a] = "queue" /\ cjob'[a] = k /\ UNCHANGED ready
      BY <1>0, <2>2, <3>1 DEF CancelHeap
    <3>3. k = j => InCancel(j)'
      BY <3>2 DEF InCancel
    <3>4. k # j => Placed(j)'
      BY <2>1, <3>1, <3>2 DEF Placed, Busy, InDelayHand
    <3> QED BY <3>3, <3>4
  <2>3. CASE CancelQueue(a)
    <3>1. cpc'[a] = "erase" /\ UNCHANGED <<heap, cjob>>
      BY <1>0, <2>3 DEF CancelQueue
    <3>2. CASE cjob[a] = j
      BY <3>1, <3>2 DEF AgentOwes
    <3>3. CASE cjob[a] # j
      <4>1. j \in ToSet(ready) => j \in ToSet(ready')
        <5>1. CASE UNCHANGED ready
          BY <5>1
        <5>2. ASSUME NEW i \in DOMAIN ready, ready[i] = cjob[a],
                     ready' = RemoveAt(ready, i)
              PROVE  j \in ToSet(ready) => j \in ToSet(ready')
          <6>1. ToSet(RemoveAt(ready, i)) = ToSet(ready) \ {ready[i]}
            BY <1>0, RemoveAtDistinct
          <6> QED BY <3>3, <5>2, <6>1
        <5> QED BY <2>3, <5>1, <5>2 DEF CancelQueue
      <4> QED BY <2>1, <3>1, <4>1 DEF Placed, Busy, InDelayHand
    <3> QED BY <3>2, <3>3
  <2>4. CASE CancelErase(a)
    BY <2>1, <2>4 DEF CancelErase, Placed, Busy, InDelayHand
  <2> QED BY <1>4, <2>2, <2>3, <2>4 DEF CancelStep
<1>5. CASE (\E k \in Jobs : ClientCancel(k)) \/ ShutdownStep \/ UNCHANGED vars
  <2>1. UNCHANGED <<heap, ready, wpc, wjob, dpc, djob>>
    BY <1>5 DEF ClientCancel, ShutdownStep, ShutdownBegin, ShutdownClose, ShutdownDone,
                ShutdownTimeout, vars
  <2> QED BY <2>1 DEF Placed, Busy, InDelayHand
<1> QED BY <1>1, <1>2, <1>3, <1>4, <1>5 DEF Next, Submits, ShutdownStep

\* Rows are written by persist and by scheduleRetry only.
LEMMA RowFrom ==
  ASSUME TypeOK, [Next]_vars, NEW j \in Jobs, row'[j] # NoRow
  PROVE  \/ row[j] # NoRow
         \/ SubmitPersist(j) /\ spc'[j] = "place"
         \/ \E w \in Workers : WorkerRetry(w) /\ wjob[w] = j
<1> USE DEF Save, Erase
<1>0. row \in [Jobs -> Nat \cup {NoRow}] /\ spc \in [Jobs ->
        {"idle", "gate", "persist", "place", "blocked", "mark", "accepted", "lost"} \cup Refusals]
  BY DEF TypeOK
<1>1. ASSUME NEW k \in Jobs, Submits(k) \/ SubmitAdmit(k)
      PROVE  row[j] # NoRow \/ (SubmitPersist(j) /\ spc'[j] = "place")
  BY <1>0, <1>1
     DEF Submits, SubmitAdmit, SubmitStep, SubmitSkip, SubmitCtx, SubmitGate,
         SubmitPersist, SubmitDelayed, SubmitReady, SubmitBlock, SubmitFull,
         SubmitMark, SubmitAt
<1>2. CASE DelayStep
  BY <1>0, <1>2 DEF DelayStep, DelayTake, DelayCheck, DelayPush, DelayMark, DelayStop,
              DelayDrain, DelayExit
<1>3. ASSUME NEW w \in Workers, WorkerStep(w)
      PROVE  row[j] # NoRow \/ (WorkerRetry(w) /\ wjob[w] = j)
  <2>1. CASE WorkerRetry(w)
    BY <1>0, <2>1 DEF WorkerRetry
  <2>2. CASE ~WorkerRetry(w)
    BY <1>0, <1>3, <2>2
       DEF WorkerStep, WorkerPop, WorkerExit, WorkerCheck, WorkerStart, WorkerReturn,
           WorkerMark, WorkerRelease, WorkerErase
  <2> QED BY <2>1, <2>2
<1>4. ASSUME NEW k \in Jobs, ClientCancel(k) PROVE UNCHANGED row
  BY <1>4 DEF ClientCancel
<1>5. ASSUME NEW a \in Agents, CancelStep(a) PROVE row[j] # NoRow
  BY <1>0, <1>5 DEF CancelStep, CancelHeap, CancelQueue, CancelErase
<1>6. ShutdownStep \/ UNCHANGED vars => UNCHANGED row
  BY DEF ShutdownStep, ShutdownBegin, ShutdownClose, ShutdownDone, ShutdownTimeout, vars
<1> QED BY <1>1, <1>2, <1>3, <1>4, <1>5, <1>6 DEF Next, Submits, ShutdownStep

\* A submission that has saved its row and not queued its entry yet.
LEMMA SavedGoes ==
  ASSUME Impatient = {}, TypeOK, [Next]_vars, NEW j \in Jobs,
         spc[j] \in {"place", "blocked"}, row'[j] # NoRow
  PROVE  spc'[j] \in {"place", "blocked"} \/ (Entered(j)' /\ Placed(j)')
<1>0. row \in [Jobs -> Nat \cup {NoRow}] /\ spc \in [Jobs ->
        {"idle", "gate", "persist", "place", "blocked", "mark", "accepted", "lost"} \cup Refusals]
  BY DEF TypeOK
<1>1. UNCHANGED spc \/ \E k \in Jobs : Submits(k) \/ SubmitAdmit(k)
  BY DEF Next, Submits, vars, submitVars, DelayStep, DelayTake, DelayCheck, DelayPush,
         DelayMark, DelayStop, DelayDrain, DelayExit, WorkerStep, WorkerPop,
         WorkerExit, WorkerCheck, WorkerStart, WorkerReturn, WorkerMark,
         WorkerRetry, WorkerRelease, WorkerErase, ClientCancel, CancelStep,
         CancelHeap, CancelQueue, CancelErase, ShutdownBegin, ShutdownClose,
         ShutdownDone, ShutdownTimeout
<1>2. ASSUME NEW k \in Jobs, Submits(k) \/ SubmitAdmit(k), k # j
      PROVE  spc'[j] = spc[j]
  BY <1>2, SubmitGoes
<1>3. ASSUME Submits(j) \/ SubmitAdmit(j)
      PROVE  spc'[j] \in {"place", "blocked"} \/ (Entered(j)' /\ Placed(j)')
  <2>1. SubmitBlock(j) \/ SubmitReady(j) \/ SubmitDelayed(j)
    BY <1>0, <1>3
       DEF Submits, SubmitAdmit, SubmitStep, SubmitSkip, SubmitCtx, SubmitGate,
           SubmitPersist, SubmitFull, SubmitMark, Erase
  <2>2. spc'[j] \in {"blocked", "mark"}
    BY <1>0, <2>1 DEF SubmitBlock, SubmitReady, SubmitDelayed, SubmitAt
  <2> QED BY <1>3, <2>2, SubmitGoes DEF Entered
<1> QED BY <1>1, <1>2, <1>3

LEMMA RowsOwedStep ==
  ASSUME Policy # "replace", Impatient = {}, Core, OnlyAccepted, RowsOwed, [Next]_vars
  PROVE  RowsOwed'
<1> USE DEF Core, Base
<1> SUFFICES ASSUME NEW j \in Jobs, row'[j] # NoRow
             PROVE  /\ RowOwed(j)'
                    /\ j \in cancelled' => WorkerOwes(j)' \/ AgentOwes(j)'
  BY DEF RowsOwed
<1>1. CASE SubmitPersist(j) /\ spc'[j] = "place"
  <2>1. spc[j] = "persist" /\ UNCHANGED cancelled
    BY <1>1 DEF SubmitPersist, cancelVars
  <2> QED BY <1>1, <2>1 DEF RowOwed, OnlyAccepted, Entered
<1>2. CASE \E w \in Workers : WorkerRetry(w) /\ wjob[w] = j
  <2>1. PICK w \in Workers : WorkerRetry(w) /\ wjob[w] = j
    BY <1>2
  <2>2. wjob'[w] = j /\ wpc'[w] = "retried"
    BY <2>1 DEF WorkerRetry, WorkerAt, TypeOK
  <2>3. WorkerOwes(j)'
    BY <2>2 DEF WorkerOwes
  <2>4. Entered(j)'
    BY <2>1, EnteredStays, DispatcherAssumption DEF HoldsEntered
  <2> QED BY <2>3, <2>4 DEF RowOwed
<1>3. CASE row[j] # NoRow
  <2>1. /\ RowOwed(j)
        /\ j \in cancelled => WorkerOwes(j) \/ AgentOwes(j)
    BY <1>3 DEF RowsOwed
  <2>2. j \in cancelled' => WorkerOwes(j)' \/ AgentOwes(j)'
    <3>1. CASE j \in cancelled
      BY <2>1, <3>1, OwesStays
    <3>2. CASE j \in cancelled' /\ j \notin cancelled
      <4>1. PICK a \in Agents : CancelQueue(a) /\ cjob[a] = j
        BY <3>2 DEF Next, vars, cancelVars, DelayStep, DelayTake, DelayCheck, DelayPush,
             DelayMark, DelayStop, DelayDrain, DelayExit, WorkerStep, WorkerPop,
             WorkerExit, WorkerCheck, WorkerStart, WorkerReturn, WorkerMark,
             WorkerRetry, WorkerRelease, WorkerErase, ClientCancel, CancelStep,
             CancelHeap, CancelQueue, CancelErase, ShutdownBegin, ShutdownClose,
             ShutdownDone, ShutdownTimeout, SubmitAdmit, SubmitStep, SubmitSkip,
             SubmitCtx, SubmitGate, SubmitPersist, SubmitDelayed, SubmitReady,
             SubmitBlock, SubmitFull, SubmitMark
      <4>2. cpc'[a] = "erase" /\ cjob'[a] = j
        BY <4>1 DEF CancelQueue, TypeOK
      <4> QED BY <4>2 DEF AgentOwes
    <3> QED BY <3>1, <3>2
  <2>3. RowOwed(j)'
    <3>1. CASE spc[j] \in {"place", "blocked"}
      BY <3>1, SavedGoes DEF RowOwed
    <3>2. CASE Entered(j)
      <4>1. Entered(j)'
        BY <3>2, EnteredStays
      <4>2. Closed => Closed'
        BY DEF Closed, Next, vars, shutdownVars, DelayStep, DelayTake, DelayCheck,
             DelayPush, DelayMark, DelayStop, DelayDrain, DelayExit, WorkerStep,
             WorkerPop, WorkerExit, WorkerCheck, WorkerStart, WorkerReturn,
             WorkerMark, WorkerRetry, WorkerRelease, WorkerErase, ClientCancel,
             CancelStep, CancelHeap, CancelQueue, CancelErase, ShutdownBegin,
             ShutdownClose, ShutdownDone, ShutdownTimeout, SubmitAdmit, SubmitStep,
             SubmitSkip, SubmitCtx, SubmitGate, SubmitPersist, SubmitDelayed,
             SubmitReady, SubmitBlock, SubmitFull, SubmitMark
      <4>3. Placed(j) \/ WorkerOwes(j) \/ InCancel(j) \/ AgentOwes(j) \/ Closed
        BY <2>1, <3>2 DEF RowOwed, Entered
      <4>4. Placed(j)' \/ WorkerOwes(j)' \/ InCancel(j)' \/ AgentOwes(j)' \/ Closed'
        BY <2>2, <4>2, <4>3, OwesStays, LeavesOwed, CancelledGrows
      <4> QED BY <4>1, <4>4 DEF RowOwed
    <3> QED BY <2>1, <3>1, <3>2 DEF RowOwed
  <2> QED BY <2>2, <2>3
<1> QED BY <1>1, <1>2, <1>3, RowFrom

\* Unless Submit displaces jobs or gives up with its ctx, a job that is settled has
\* no row left for Restore to run again (store.go:9, "deleted on a final state or a
\* cancellation"): every path ends with somebody deleting it.
THEOREM NoGhostRowAlways ==
  ASSUME Policy # "replace", Impatient = {}
  PROVE  Spec => []NoGhostRow
<1>1. Init => OnlyAccepted /\ RowsOwed
  BY DEF Init, OnlyAccepted, RowsOwed, Agents
<1>2. Core /\ OnlyAccepted /\ RowsOwed /\ [Next]_vars => OnlyAccepted' /\ RowsOwed'
  BY OnlyAcceptedStep, RowsOwedStep DEF Core
<1>3. Core /\ RowsOwed => NoGhostRow
  <2> SUFFICES ASSUME TypeOK, RowsOwed, NEW j \in Jobs, Settled(j), row[j] # NoRow
               PROVE  Closed
    BY DEF Core, Base, NoGhostRow
  <2>1. ~Placed(j)
    BY PlacedLive DEF Settled
  <2>2. ~WorkerOwes(j)
    BY DEF Settled, Touched, WorkerOwes
  <2>3. ~InCancel(j) /\ ~AgentOwes(j)
    BY DEF Settled, Touched, BeingCancelled, InCancel, AgentOwes, TypeOK
  <2>4. spc[j] \notin {"place", "blocked"}
    BY DEF Settled, Refusals
  <2> QED BY <2>1, <2>2, <2>3, <2>4 DEF RowsOwed, RowOwed
<1> QED BY <1>1, <1>2, <1>3, CoreInvariant, PTL DEF Spec

-----------------------------------------------------------------------------
\* The dispatcher implements JobLifecycle.

\* The attempt number of an entry counts the handler invocations: one more has
\* begun exactly while the entry is not waiting for one.
AttemptsCount ==
  \A j \in Jobs :
    /\ attempt[j] <= MaxRetries[j]
    /\ starts[j] <= attempt[j] + 1
    /\ Waiting(j) => starts[j] <= attempt[j]
    /\ ~Entered(j) => starts[j] = 0

RetryAllowed ==
  \A w \in Workers : wpc[w] = "retry" => attempt[wjob[w]] < MaxRetries[wjob[w]]

\* An attempt that is running goes on, is decided, or is queued again.
LEMMA RunningStays ==
  ASSUME TypeOK, TypeOK', Custody, Custody', [Next]_vars, NEW j \in Jobs,
         HeldRunning(j), Waiting(j)'
  PROVE  \E w \in Workers : WorkerRetry(w) /\ wjob[w] = j
<1> USE DEF queueVars, workerVars, delayVars, WorkerAt
<1>0. /\ wpc \in [Workers -> WorkerLabels] /\ wjob \in [Workers -> Jobs \cup {NoJob}]
  BY DEF TypeOK, WorkerLabels
<1>1. PICK w \in Workers : wjob[w] = j /\ wpc[w] \in {"run", "succeed", "fail", "retry"}
  BY DEF HeldRunning
<1>2. Busy(w) /\ ~Waiting(j)
  BY <1>1 DEF Custody, Waiting, HeldBefore, Busy
<1>3. CASE wpc'[w] \in {"run", "succeed", "fail", "retry"} /\ wjob'[w] = j
  <2>1. Busy(w)'
    BY <1>3 DEF Busy
  <2>2. ~Waiting(j)'
    BY <1>3, <2>1 DEF Custody, Waiting, HeldBefore, Busy, InDelayHand
  <2> QED BY <2>2
<1>4. CASE WorkerStep(w) /\ ~(wpc'[w] \in {"run", "succeed", "fail", "retry"} /\ wjob'[w] = j)
  <2>1. WorkerReturn(w) \/ WorkerMark(w) \/ WorkerRetry(w)
    BY <1>1, <1>4 DEF WorkerStep, WorkerPop, WorkerExit, WorkerCheck, WorkerStart,
                      WorkerRelease, WorkerErase
  <2>2. CASE WorkerReturn(w) \/ WorkerMark(w)
    <3>1. UNCHANGED <<heap, ready, dpc, djob, wjob>>
          /\ \A v \in Workers : v # w => wpc'[v] = wpc[v]
      BY <1>0, <2>2 DEF WorkerReturn, WorkerMark
    <3>2. wpc'[w] \notin {"check", "register"}
      BY <1>0, <2>2 DEF WorkerReturn, WorkerMark
    <3> QED BY <1>2, <3>1, <3>2 DEF Waiting, HeldBefore, InDelayHand
  <2> QED BY <1>1, <2>1, <2>2
<1> QED BY <1>1, <1>3, <1>4, WorkersAlone

LEMMA RetryAllowedStep ==
  ASSUME TypeOK, Custody, RetryAllowed, [Next]_vars
  PROVE  RetryAllowed'
<1> SUFFICES ASSUME NEW w \in Workers, wpc'[w] = "retry"
             PROVE  attempt'[wjob'[w]] < MaxRetries[wjob'[w]]
  BY DEF RetryAllowed
<1> USE DEF queueVars, workerVars, WorkerAt
<1>0. /\ wpc \in [Workers -> WorkerLabels] /\ wjob \in [Workers -> Jobs \cup {NoJob}]
      /\ attempt \in [Jobs -> Nat] /\ MaxRetries \in [Jobs -> Nat]
      /\ wpc[w] \notin {"pop", "exited"} => wjob[w] \in Jobs
  BY DispatcherAssumption DEF TypeOK, WorkerLabels
<1>1. CASE wpc'[w] = wpc[w] /\ wjob'[w] = wjob[w]
  <2>1. wpc[w] = "retry" /\ Busy(w) /\ wjob[w] \in Jobs
    BY <1>0, <1>1 DEF Busy
  <2>2. attempt'[wjob[w]] = attempt[wjob[w]]
    <3>1. CASE UNCHANGED attempt
      BY <3>1
    <3>2. ASSUME NEW v \in Workers, WorkerRetry(v), wjob[v] \in Jobs,
                 attempt' = [attempt EXCEPT ![wjob[v]] = @ + 1]
          PROVE  attempt'[wjob[w]] = attempt[wjob[w]]
      <4>1. v # w
        BY <1>0, <1>1, <2>1, <3>2 DEF WorkerRetry
      <4>2. Busy(v)
        BY <3>2 DEF WorkerRetry, Busy
      <4>3. wjob[v] # wjob[w]
        BY <2>1, <4>1, <4>2 DEF Custody
      <4> QED BY <1>0, <2>1, <3>2, <4>3
    <3> QED BY <3>1, <3>2, AttemptGrows
  <2> QED BY <1>1, <2>1, <2>2 DEF RetryAllowed
<1>2. CASE WorkerStep(w) /\ ~(wpc'[w] = wpc[w] /\ wjob'[w] = wjob[w])
  <2>1. WorkerReturn(w)
    BY <1>0, <1>2 DEF WorkerStep, WorkerPop, WorkerExit, WorkerCheck, WorkerStart,
                      WorkerMark, WorkerRetry, WorkerRelease, WorkerErase
  <2> QED BY <1>0, <2>1 DEF WorkerReturn
<1> QED BY <1>1, <1>2, WorkersAlone

LEMMA AttemptsCountStep ==
  ASSUME TypeOK, TypeOK', Custody, Custody', HoldsEntered, AttemptsCount,
         RetryAllowed, [Next]_vars
  PROVE  AttemptsCount'
<1> SUFFICES ASSUME NEW j \in Jobs
             PROVE  /\ attempt'[j] <= MaxRetries[j]
                    /\ starts'[j] <= attempt'[j] + 1
                    /\ Waiting(j)' => starts'[j] <= attempt'[j]
                    /\ ~Entered(j)' => starts'[j] = 0
  BY DEF AttemptsCount
<1>0. /\ attempt \in [Jobs -> Nat] /\ MaxRetries \in [Jobs -> Nat]
      /\ starts \in [Jobs -> Nat]
      /\ attempt[j] <= MaxRetries[j]
      /\ starts[j] <= attempt[j] + 1
      /\ Waiting(j) => starts[j] <= attempt[j]
      /\ ~Entered(j) => starts[j] = 0
  BY DispatcherAssumption DEF TypeOK, AttemptsCount
<1>1. Entered(j) => Entered(j)'
  BY EnteredStays
<1>2. ASSUME NEW w \in Workers, WorkerStart(w), wjob[w] = j,
             starts' = [starts EXCEPT ![j] = @ + 1]
      PROVE  /\ UNCHANGED attempt /\ starts'[j] <= attempt[j] + 1
             /\ ~Waiting(j)' /\ Entered(j)
  <2>1. UNCHANGED attempt /\ wpc'[w] = "run" /\ wjob'[w] = j /\ wpc[w] = "register"
    BY <1>2 DEF WorkerStart, queueVars, WorkerAt, TypeOK
  <2>2. Waiting(j)
    BY <1>2, <2>1 DEF Waiting, HeldBefore
  <2>3. ~Waiting(j)'
    BY <2>1 DEF Custody, Waiting, HeldBefore, Busy, InDelayHand
  <2>4. Entered(j)
    BY <1>2, DispatcherAssumption DEF HoldsEntered
  <2>5. starts'[j] = starts[j] + 1
    BY <1>0, <1>2
  <2> QED BY <1>0, <2>1, <2>2, <2>3, <2>4, <2>5
<1>3. ASSUME NEW w \in Workers, WorkerRetry(w), wjob[w] = j
      PROVE  /\ attempt'[j] = attempt[j] + 1 /\ attempt[j] < MaxRetries[j]
             /\ UNCHANGED starts /\ Entered(j)
  <2>1. attempt' = [attempt EXCEPT ![j] = @ + 1] /\ UNCHANGED starts /\ wpc[w] = "retry"
    BY <1>3 DEF WorkerRetry
  <2> QED BY <1>0, <1>3, <2>1, DispatcherAssumption DEF RetryAllowed, HoldsEntered
<1>4. CASE \E w \in Workers : WorkerStart(w) /\ wjob[w] = j
  <2>1. PICK w \in Workers : WorkerStart(w) /\ wjob[w] = j
    BY <1>4
  <2>2. starts' = [starts EXCEPT ![j] = @ + 1]
    BY <2>1 DEF WorkerStart
  <2>3. /\ UNCHANGED attempt /\ starts'[j] <= attempt[j] + 1
        /\ ~Waiting(j)' /\ Entered(j)
    BY <1>2, <2>1, <2>2
  <2> QED BY <1>0, <1>1, <2>3
<1>5. CASE \E w \in Workers : WorkerRetry(w) /\ wjob[w] = j
  <2>1. /\ attempt'[j] = attempt[j] + 1 /\ attempt[j] < MaxRetries[j]
        /\ UNCHANGED starts /\ Entered(j)
    BY <1>3, <1>5
  <2> QED BY <1>0, <1>1, <2>1
<1>6. CASE /\ ~\E w \in Workers : WorkerStart(w) /\ wjob[w] = j
           /\ ~\E w \in Workers : WorkerRetry(w) /\ wjob[w] = j
  <2>1. starts'[j] = starts[j]
    <3>1. ASSUME NEW w \in Workers, WorkerStart(w), wjob[w] \in Jobs,
                 starts' = [starts EXCEPT ![wjob[w]] = @ + 1]
          PROVE  starts'[j] = starts[j]
      BY <1>0, <1>6, <3>1
    <3> QED BY <3>1, StartsCount
  <2>2. attempt'[j] = attempt[j]
    <3>1. ASSUME NEW w \in Workers, WorkerRetry(w), wjob[w] \in Jobs,
                 attempt' = [attempt EXCEPT ![wjob[w]] = @ + 1]
          PROVE  attempt'[j] = attempt[j]
      BY <1>0, <1>6, <3>1
    <3> QED BY <3>1, AttemptGrows
  <2>3. Waiting(j)' => Waiting(j) \/ spc[j] \in {"place", "blocked"}
    <3>1. Waiting(j)' => Placed(j)'
      BY DEF Waiting, Placed, HeldBefore, Busy, InDelayHand
    <3>2. Placed(j) => Waiting(j) \/ HeldRunning(j)
      BY PlacedLive DEF Live
    <3> QED BY <1>6, <3>1, <3>2, EntriesFrom, RunningStays
  <2> QED BY <1>0, <1>1, <2>1, <2>2, <2>3 DEF Entered
<1> QED BY <1>4, <1>5, <1>6

-----------------------------------------------------------------------------
\* A step of the dispatcher moves at most one job on, and as JobLifecycle allows.
Same(i) ==
  /\ HeldRunning(i)' <=> HeldRunning(i)
  /\ Waiting(i)' <=> Waiting(i)
  /\ (spc'[i] \in Refusals) <=> (spc[i] \in Refusals)
  /\ Entered(i)' <=> Entered(i)

\* j goes from one stage of its life to the next, and nobody else moves.
Moved(j, from, to) ==
  /\ LifeState(j) = from
  /\ LifeState(j)' = to
  /\ \A i \in Jobs \ {j} : Same(i)

LEMMA SameLife ==
  ASSUME NEW i \in Jobs, Same(i)
  PROVE  LifeState(i)' = LifeState(i)
BY DEF Same, LifeState, Entered

LEMMA LifeStutter ==
  ASSUME \A i \in Jobs : Same(i), UNCHANGED starts
  PROVE  UNCHANGED Life!vars
BY SameLife DEF Life!vars

LEMMA LifeMove ==
  ASSUME NEW j \in Jobs, NEW from, NEW to, Moved(j, from, to)
  PROVE  Life!Move(j, from, to)
<1>1. \A i \in Jobs \ {j} : LifeState(i)' = LifeState(i)
  BY SameLife DEF Moved
<1> QED BY <1>1 DEF Life!Move, Moved

\* The stages of a job, by where its entry is.
LEMMA StageOf ==
  ASSUME TypeOK, Custody, HoldsEntered, NEW j \in Jobs
  PROVE  /\ HeldRunning(j) => LifeState(j) = "running"
         /\ Waiting(j) => LifeState(j) = "waiting" /\ ~HeldRunning(j)
         /\ ~Placed(j) /\ Entered(j) => LifeState(j) = "over"
         /\ ~Placed(j) /\ spc[j] \in Refusals => LifeState(j) = "refused"
         /\ ~Entered(j) => ~Placed(j)
         /\ ~Entered(j) /\ spc[j] \notin Refusals => LifeState(j) = "new"
<1>1. Placed(j) <=> Waiting(j) \/ HeldRunning(j)
  BY PlacedLive DEF Live
<1>2. ~Entered(j) => ~Placed(j)
  BY DEF HoldsEntered
<1>3. Waiting(j) => ~HeldRunning(j)
  BY DEF Custody, Waiting, HeldBefore, HeldRunning, Busy, InDelayHand
<1>4. Entered(j) => spc[j] \notin Refusals
  BY DEF Entered, Refusals
<1> QED BY <1>1, <1>2, <1>3, <1>4 DEF LifeState, Entered

LEMMA SubmitLife ==
  ASSUME TypeOK, TypeOK', Custody, Custody', HoldsEntered, HoldsEntered',
         NEW j \in Jobs, Submits(j) \/ SubmitAdmit(j)
  PROVE  /\ UNCHANGED starts
         /\ \/ \A i \in Jobs : Same(i)
            \/ Moved(j, "new", "waiting")
            \/ Moved(j, "new", "refused")
<1> USE DEF queueVars, workerVars, delayVars
<1>0. spc \in [Jobs -> {"idle", "gate", "persist", "place", "blocked", "mark",
                        "accepted", "lost"} \cup Refusals]
  BY DEF TypeOK
<1>1. UNCHANGED <<starts, wpc, wjob, dpc, djob>>
  BY DEF Submits, SubmitAdmit, SubmitStep, SubmitSkip, SubmitCtx, SubmitGate,
         SubmitPersist, SubmitDelayed, SubmitReady, SubmitBlock, SubmitFull, SubmitMark
<1>2. ToSet(ready) \subseteq ToSet(ready') /\ ToSet(ready') \subseteq ToSet(ready) \cup {j}
  <2>1. ready' = ready \/ ready' = Append(ready, j)
    BY DEF Submits, SubmitAdmit, SubmitStep, SubmitSkip, SubmitCtx, SubmitGate,
           SubmitPersist, SubmitDelayed, SubmitReady, SubmitBlock, SubmitFull, SubmitMark
  <2>2. ToSet(Append(ready, j)) = ToSet(ready) \cup {j}
    BY AppendSet DEF TypeOK
  <2>3. CASE ready' = ready
    BY <2>3
  <2>4. CASE ready' = Append(ready, j)
    BY <2>2, <2>4
  <2> QED BY <2>1, <2>3, <2>4
<1>3. heap' = heap \/ heap' = heap \cup {j}
  BY DEF Submits, SubmitAdmit, SubmitStep, SubmitSkip, SubmitCtx, SubmitGate,
         SubmitPersist, SubmitDelayed, SubmitReady, SubmitBlock, SubmitFull, SubmitMark
<1>4. \A i \in Jobs \ {j} : spc'[i] = spc[i]
  BY SubmitGoes
<1>5. ASSUME NEW i \in Jobs, i # j PROVE Same(i)
  BY <1>1, <1>2, <1>3, <1>4, <1>5
     DEF Same, HeldRunning, Waiting, HeldBefore, InDelayHand, Entered
<1>6. HeldRunning(j)' <=> HeldRunning(j)
  BY <1>1 DEF HeldRunning
<1>7. CASE SubmitReady(j) \/ SubmitDelayed(j)
  <2>1. ~Entered(j) /\ spc[j] \notin Refusals
    BY <1>7 DEF SubmitReady, SubmitDelayed, Entered, Refusals
  <2>2. j \in ToSet(ready') \/ j \in heap'
    <3>1. CASE SubmitReady(j)
      <4>1. ToSet(Append(ready, j)) = ToSet(ready) \cup {j}
        BY AppendSet DEF TypeOK
      <4> QED BY <3>1, <4>1 DEF SubmitReady
    <3>2. CASE SubmitDelayed(j)
      BY <3>2 DEF SubmitDelayed
    <3> QED BY <1>7, <3>1, <3>2
  <2>3. Waiting(j)' /\ ~HeldRunning(j)
    BY <2>1, <2>2, StageOf, PlacedLive DEF Waiting, Live
  <2>4. LifeState(j)' = "waiting"
    BY <1>6, <2>3 DEF LifeState
  <2> QED BY <1>1, <1>5, <2>1, <2>4, StageOf DEF Moved
<1>8. CASE ~(SubmitReady(j) \/ SubmitDelayed(j))
  <2>1. UNCHANGED <<ready, heap>>
    BY <1>8 DEF Submits, SubmitAdmit, SubmitStep, SubmitSkip, SubmitCtx, SubmitGate,
           SubmitPersist, SubmitBlock, SubmitFull, SubmitMark
  <2>2. Waiting(j)' <=> Waiting(j)
    BY <1>1, <2>1 DEF Waiting, HeldBefore, InDelayHand
  <2>3. /\ spc[j] \notin Refusals
        /\ Entered(j)' <=> Entered(j)
        /\ spc'[j] \in Refusals => ~Entered(j)
    BY <1>0, <1>8
       DEF Entered, Refusals, Submits, SubmitAdmit, SubmitStep, SubmitSkip, SubmitCtx,
           SubmitGate, SubmitPersist, SubmitBlock, SubmitFull, SubmitMark, SubmitAt
  <2>4. CASE spc'[j] \in Refusals
    <3>1. LifeState(j) = "new" /\ ~Placed(j)
      BY <2>3, <2>4, StageOf
    <3>2. ~Waiting(j)' /\ ~HeldRunning(j)'
      BY <1>6, <2>2, <3>1, PlacedLive DEF Live
    <3>3. LifeState(j)' = "refused"
      BY <2>4, <3>2 DEF LifeState
    <3> QED BY <1>1, <1>5, <3>1, <3>3 DEF Moved
  <2>5. CASE spc'[j] \notin Refusals
    <3>1. Same(j)
      BY <1>6, <2>2, <2>3, <2>5 DEF Same
    <3> QED BY <1>1, <1>5, <3>1
  <2> QED BY <2>4, <2>5
<1> QED BY <1>7, <1>8

LEMMA DelayLife ==
  ASSUME TypeOK, TypeOK', Custody, Custody', HoldsEntered, HoldsEntered',
         DelayStep
  PROVE  /\ UNCHANGED starts
         /\ \/ \A i \in Jobs : Same(i)
            \/ \E j \in Jobs : Moved(j, "waiting", "over")
<1> USE DEF submitVars, queueVars, workerVars, delayVars
<1>1. UNCHANGED <<starts, wpc, wjob, spc>>
  BY DEF DelayStep, DelayTake, DelayCheck, DelayPush, DelayMark, DelayStop,
         DelayDrain, DelayExit
<1>2. \A i \in Jobs : /\ HeldRunning(i)' <=> HeldRunning(i)
                      /\ HeldBefore(i)' <=> HeldBefore(i)
                      /\ Entered(i)' <=> Entered(i)
  BY <1>1 DEF HeldRunning, HeldBefore, Entered
<1>3. ASSUME \A i \in Jobs : Waiting(i)' <=> Waiting(i) PROVE \A i \in Jobs : Same(i)
  BY <1>1, <1>2, <1>3 DEF Same
<1>4. ASSUME NEW j \in Jobs, Waiting(j), ~Waiting(j)',
             \A i \in Jobs \ {j} : Waiting(i)' <=> Waiting(i)
      PROVE  Moved(j, "waiting", "over")
  <2>1. \A i \in Jobs \ {j} : Same(i)
    BY <1>1, <1>2, <1>4 DEF Same
  <2>2. LifeState(j) = "waiting" /\ ~HeldRunning(j) /\ Entered(j)
    BY <1>4, StageOf, PlacedLive DEF Live
  <2>3. LifeState(j)' = "over"
    BY <1>2, <1>4, <2>2 DEF LifeState, Entered, Refusals
  <2> QED BY <2>1, <2>2, <2>3 DEF Moved
<1>5. CASE DelayTake
  <2>1. \A i \in Jobs : Waiting(i)' <=> Waiting(i)
    BY <1>2, <1>5 DEF DelayTake, Waiting, InDelayHand
  <2> QED BY <1>1, <1>3, <2>1
<1>6. CASE DelayCheck /\ djob \in cancelled
  <2>1. dpc = "check" /\ dpc' = "wait" /\ UNCHANGED <<heap, ready>> /\ djob \in Jobs
    BY <1>6 DEF DelayCheck, TypeOK
  <2>2. PICK j \in Jobs : j = djob
    BY <2>1
  <2>3. Waiting(j) /\ j \notin heap /\ j \notin ToSet(ready) /\ ~HeldBefore(j)
    BY <2>1, <2>2 DEF Custody, Waiting, InDelayHand, HeldBefore, Busy
  <2>4. ~Waiting(j)' /\ \A i \in Jobs \ {j} : Waiting(i)' <=> Waiting(i)
    BY <1>2, <2>1, <2>2, <2>3 DEF Waiting, InDelayHand
  <2> QED BY <1>1, <1>4, <2>3, <2>4
<1>7. CASE DelayCheck /\ djob \notin cancelled
  <2>1. \A i \in Jobs : Waiting(i)' <=> Waiting(i)
    BY <1>2, <1>7 DEF DelayCheck, Waiting, InDelayHand
  <2> QED BY <1>1, <1>3, <2>1
<1>8. CASE DelayPush
  <2>1. dpc = "push" /\ dpc' = "mark" /\ UNCHANGED <<heap, djob>> /\ djob \in Jobs
    BY <1>8 DEF DelayPush, TypeOK
  <2>2. CASE ready' = Append(ready, djob)
    <3>1. ToSet(Append(ready, djob)) = ToSet(ready) \cup {djob}
      BY <2>1, AppendSet DEF TypeOK
    <3>2. \A i \in Jobs : Waiting(i)' <=> Waiting(i)
      BY <1>2, <2>1, <2>2, <3>1 DEF Waiting, InDelayHand
    <3> QED BY <1>1, <1>3, <3>2
  <2>3. CASE UNCHANGED ready
    <3>1. PICK j \in Jobs : j = djob
      BY <2>1
    <3>2. Waiting(j) /\ j \notin heap /\ j \notin ToSet(ready) /\ ~HeldBefore(j)
      BY <2>1, <3>1 DEF Custody, Waiting, InDelayHand, HeldBefore, Busy
    <3>3. ~Waiting(j)' /\ \A i \in Jobs \ {j} : Waiting(i)' <=> Waiting(i)
      BY <1>2, <2>1, <2>3, <3>1, <3>2 DEF Waiting, InDelayHand
    <3> QED BY <1>1, <1>4, <3>2, <3>3
  <2> QED BY <1>8, <2>2, <2>3 DEF DelayPush
<1>9. CASE DelayMark \/ DelayStop \/ DelayExit
  <2>1. \A i \in Jobs : Waiting(i)' <=> Waiting(i)
    BY <1>2, <1>9 DEF DelayMark, DelayStop, DelayExit, Waiting, InDelayHand
  <2> QED BY <1>1, <1>3, <2>1
<1>10. CASE DelayDrain
  <2>1. PICK j \in heap : heap' = heap \ {j}
    BY <1>10 DEF DelayDrain
  <2>2. j \in Jobs /\ dpc = "drain" /\ UNCHANGED <<ready, dpc, djob>>
    BY <1>10, <2>1 DEF DelayDrain, TypeOK
  <2>3. Waiting(j) /\ j \notin ToSet(ready) /\ ~InDelayHand(j) /\ ~HeldBefore(j)
    BY <2>1 DEF Custody, Waiting, HeldBefore, Busy
  <2>4. ~Waiting(j)' /\ \A i \in Jobs \ {j} : Waiting(i)' <=> Waiting(i)
    BY <1>2, <2>1, <2>2, <2>3 DEF Waiting, InDelayHand
  <2> QED BY <1>1, <1>4, <2>2, <2>3, <2>4
<1> QED BY <1>5, <1>6, <1>7, <1>8, <1>9, <1>10 DEF DelayStep

\* The job of w, and nobody else's, is what a step of w moves on.
LEMMA WorkerLife ==
  ASSUME TypeOK, TypeOK', Custody, Custody', HoldsEntered, HoldsEntered',
         NEW w \in Workers,
         WorkerStep(w)
  PROVE  \/ UNCHANGED starts /\ \A i \in Jobs : Same(i)
         \/ \E j \in Jobs :
              /\ j = wjob[w]
              /\ \/ UNCHANGED starts /\ Moved(j, "waiting", "over")
                 \/ UNCHANGED starts /\ Moved(j, "running", "over")
                 \/ WorkerStart(w) /\ Moved(j, "waiting", "running")
                 \/ WorkerRetry(w) /\ Moved(j, "running", "waiting")
<1> USE DEF submitVars, queueVars, workerVars, delayVars, WorkerAt
<1>0. /\ wpc \in [Workers -> WorkerLabels] /\ wjob \in [Workers -> Jobs \cup {NoJob}]
      /\ ready \in Seq(Jobs)
      /\ wpc[w] \notin {"pop", "exited"} => wjob[w] \in Jobs
  BY DEF TypeOK, WorkerLabels
<1>1. UNCHANGED <<spc, dpc, djob>>
  BY DEF WorkerStep, WorkerPop, WorkerExit, WorkerCheck, WorkerStart, WorkerReturn,
         WorkerMark, WorkerRetry, WorkerRelease, WorkerErase
<1>2. CASE WorkerPop(w)
  <2>1. ready # <<>> /\ Head(ready) \in ToSet(ready) /\ wpc[w] = "pop"
        /\ wjob' = [wjob EXCEPT ![w] = Head(ready)]
        /\ wpc' = [wpc EXCEPT ![w] = "check"]
        /\ UNCHANGED <<heap, starts>>
    BY <1>0, <1>2, TailSet DEF WorkerPop
  <2>2. ToSet(ready) = ToSet(ready') \cup {Head(ready)}
    <3>1. ToSet(Tail(ready)) = ToSet(ready) \ {Head(ready)}
      BY <1>0, <2>1, TailDistinct DEF Custody
    <3> QED BY <1>2, <2>1, <3>1 DEF WorkerPop
  <2>3. ASSUME NEW i \in Jobs PROVE Same(i)
    <3>1. HeldRunning(i)' <=> HeldRunning(i)
      BY <1>0, <2>1 DEF HeldRunning
    <3>2. HeldBefore(i)' <=> HeldBefore(i) \/ i = Head(ready)
      <4>1. wjob'[w] = Head(ready) /\ wpc'[w] = "check"
        BY <1>0, <2>1
      <4>2. \A v \in Workers : v # w => wjob'[v] = wjob[v] /\ wpc'[v] = wpc[v]
        BY <1>0, <2>1
      <4> QED BY <2>1, <4>1, <4>2 DEF HeldBefore
    <3>3. Waiting(i)' <=> Waiting(i)
      BY <1>1, <2>1, <2>2, <3>2 DEF Waiting, InDelayHand
    <3> QED BY <1>1, <3>1, <3>3 DEF Same, Entered
  <2> QED BY <2>1, <2>3
<1>3. CASE WorkerExit(w) \/ WorkerRelease(w) \/ WorkerErase(w)
  <2>1. /\ UNCHANGED <<heap, ready, starts>> /\ ~Busy(w) /\ ~Busy(w)'
        /\ \A v \in Workers : v # w => wjob'[v] = wjob[v] /\ wpc'[v] = wpc[v]
    BY <1>0, <1>3 DEF WorkerExit, WorkerRelease, WorkerErase, Busy
  <2>2. \A i \in Jobs : /\ HeldRunning(i)' <=> HeldRunning(i)
                        /\ HeldBefore(i)' <=> HeldBefore(i)
    BY <2>1 DEF HeldRunning, HeldBefore, Busy
  <2> QED BY <1>1, <2>1, <2>2 DEF Same, Waiting, InDelayHand, Entered
<1>4. CASE wpc[w] \notin {"pop", "exited", "release", "erase"}
  <2>1. PICK j \in Jobs : j = wjob[w]
    BY <1>0, <1>4
  <2>2. /\ UNCHANGED ready /\ heap' \in {heap, heap \cup {j}}
        /\ \A v \in Workers : v # w => wjob'[v] = wjob[v] /\ wpc'[v] = wpc[v]
        /\ wjob'[w] \in {j, NoJob}
    BY <1>0, <1>4, <2>1
       DEF WorkerStep, WorkerPop, WorkerExit, WorkerCheck, WorkerStart, WorkerReturn,
           WorkerMark, WorkerRetry, WorkerRelease, WorkerErase
  <2>3. ASSUME NEW i \in Jobs, i # j PROVE Same(i)
    <3>1. i # wjob[w] /\ i # wjob'[w]
      BY <2>1, <2>2, <2>3, DispatcherAssumption
    <3>2. HeldRunning(i)' <=> HeldRunning(i)
      BY <2>2, <3>1 DEF HeldRunning
    <3>3. HeldBefore(i)' <=> HeldBefore(i)
      BY <2>2, <3>1 DEF HeldBefore
    <3> QED BY <1>1, <2>2, <2>3, <3>2, <3>3 DEF Same, Waiting, InDelayHand, Entered
  <2>4. Entered(j) /\ Entered(j)'
    BY <1>1, <2>1, DispatcherAssumption DEF HoldsEntered, Entered
  <2>5. \A v \in Workers : v # w /\ Busy(w) /\ Busy(v) => wjob[v] # j
    BY <2>1 DEF Custody
  <2>6. Busy(w) => j \notin heap /\ j \notin ToSet(ready) /\ ~InDelayHand(j)
    BY <2>1 DEF Custody
  <2>7. wpc[w] \in {"check", "register"} => LifeState(j) = "waiting"
    BY <2>1, StageOf DEF Waiting, HeldBefore
  <2>8. wpc[w] \in {"run", "succeed", "fail", "retry"} => LifeState(j) = "running"
    BY <2>1, StageOf DEF HeldRunning
  <2>9. wpc'[w] \in {"check", "register"} /\ wjob'[w] = j => LifeState(j)' = "waiting"
    <3> SUFFICES ASSUME wpc'[w] \in {"check", "register"}, wjob'[w] = j
                 PROVE  LifeState(j)' = "waiting"
      OBVIOUS
    <3>1. Waiting(j)'
      BY DEF Waiting, HeldBefore
    <3>2. ~HeldRunning(j)'
      BY DEF Custody, HeldRunning, Busy
    <3> QED BY <3>1, <3>2 DEF LifeState
  <2>10. wpc'[w] \in {"run", "succeed", "fail", "retry"} /\ wjob'[w] = j
           => LifeState(j)' = "running"
    <3> SUFFICES ASSUME wpc'[w] \in {"run", "succeed", "fail", "retry"}, wjob'[w] = j
                 PROVE  LifeState(j)' = "running"
      OBVIOUS
    <3>1. HeldRunning(j)'
      BY DEF HeldRunning
    <3> QED BY <3>1 DEF LifeState
  <2>11. Busy(w) /\ ~Busy(w)' /\ heap' = heap => LifeState(j)' = "over"
    <3> SUFFICES ASSUME Busy(w), ~Busy(w)', heap' = heap
                 PROVE  LifeState(j)' = "over"
      OBVIOUS
    <3>1. ~HeldRunning(j)' /\ ~HeldBefore(j)'
      BY <2>2, <2>5 DEF HeldRunning, HeldBefore, Busy
    <3>2. ~Waiting(j)'
      BY <1>1, <2>2, <2>6, <3>1 DEF Waiting, InDelayHand
    <3> QED BY <2>4, <3>1, <3>2 DEF LifeState, Entered, Refusals
  <2>12. CASE WorkerCheck(w)
    <3>1. wpc[w] = "check" /\ UNCHANGED <<heap, starts>>
      BY <2>12 DEF WorkerCheck
    <3>2. CASE j \in cancelled
      <4>1. wpc'[w] = "pop"
        BY <1>0, <2>1, <2>12, <3>2 DEF WorkerCheck
      <4>2. Busy(w) /\ ~Busy(w)'
        BY <3>1, <4>1 DEF Busy
      <4> QED BY <2>1, <2>3, <2>7, <2>11, <3>1, <4>2 DEF Moved
    <3>3. CASE j \notin cancelled
      <4>1. wpc'[w] = "register" /\ wjob'[w] = j
        BY <1>0, <2>1, <2>12, <3>3 DEF WorkerCheck
      <4>2. Same(j)
        <5>1. Waiting(j) /\ Waiting(j)'
          BY <2>1, <3>1, <4>1 DEF Waiting, HeldBefore
        <5>2. ~HeldRunning(j) /\ ~HeldRunning(j)'
          BY <2>1, <3>1, <4>1 DEF Custody, HeldRunning, Busy
        <5> QED BY <1>1, <2>4, <5>1, <5>2 DEF Same
      <4> QED BY <2>3, <3>1, <4>2
    <3> QED BY <3>2, <3>3
  <2>13. CASE WorkerStart(w)
    <3>1. wpc[w] = "register" /\ wpc'[w] = "run" /\ wjob'[w] = j
      BY <1>0, <2>1, <2>13 DEF WorkerStart
    <3> QED BY <2>1, <2>3, <2>7, <2>10, <2>13, <3>1 DEF Moved
  <2>14. CASE WorkerReturn(w)
    <3>1. wpc[w] = "run" /\ UNCHANGED <<heap, starts>> /\ wjob'[w] = j
      BY <2>1, <2>14 DEF WorkerReturn
    <3>2. wpc'[w] \in {"release", "succeed", "fail", "retry"}
      BY <1>0, <2>14 DEF WorkerReturn
    <3>3. CASE wpc'[w] = "release"
      <4>1. Busy(w) /\ ~Busy(w)'
        BY <3>1, <3>3 DEF Busy
      <4> QED BY <2>1, <2>3, <2>8, <2>11, <3>1, <4>1 DEF Moved
    <3>4. CASE wpc'[w] # "release"
      <4>1. HeldRunning(j) /\ HeldRunning(j)'
        BY <2>1, <3>1, <3>2, <3>4 DEF HeldRunning
      <4>2. Busy(w) /\ Busy(w)'
        BY <3>1, <3>2, <3>4 DEF Busy
      <4>3. ~Waiting(j) /\ ~Waiting(j)'
        BY <2>1, <3>1, <3>2, <4>2
           DEF Custody, Waiting, HeldBefore, Busy, InDelayHand
      <4>4. Same(j)
        BY <1>1, <2>4, <4>1, <4>3 DEF Same
      <4> QED BY <2>3, <3>1, <4>4
    <3> QED BY <3>3, <3>4
  <2>15. CASE WorkerMark(w)
    <3>1. wpc[w] \in {"succeed", "fail", "retried"} /\ wpc'[w] = "release"
          /\ UNCHANGED <<heap, starts, wjob>>
      BY <1>0, <2>15 DEF WorkerMark
    <3>2. CASE wpc[w] = "retried"
      <4>1. ~Busy(w) /\ ~Busy(w)'
        BY <3>1, <3>2 DEF Busy
      <4>2. \A i \in Jobs : /\ HeldRunning(i)' <=> HeldRunning(i)
                            /\ HeldBefore(i)' <=> HeldBefore(i)
        BY <2>2, <4>1 DEF HeldRunning, HeldBefore, Busy
      <4> QED BY <1>1, <2>2, <3>1, <4>2 DEF Same, Waiting, InDelayHand, Entered
    <3>3. CASE wpc[w] \in {"succeed", "fail"}
      <4>1. Busy(w) /\ ~Busy(w)'
        BY <3>1, <3>3 DEF Busy
      <4> QED BY <2>1, <2>3, <2>8, <2>11, <3>1, <3>3, <4>1 DEF Moved
    <3> QED BY <3>1, <3>2, <3>3
  <2>16. CASE WorkerRetry(w)
    <3>1. wpc[w] = "retry" /\ wpc'[w] = "retried" /\ j \in heap'
      BY <1>0, <2>1, <2>16 DEF WorkerRetry
    <3>2. Waiting(j)'
      BY <3>1 DEF Waiting
    <3>3. ~HeldRunning(j)'
      BY <3>1 DEF Custody, HeldRunning, Busy
    <3>4. LifeState(j)' = "waiting"
      BY <3>2, <3>3 DEF LifeState
    <3> QED BY <2>1, <2>3, <2>8, <2>16, <3>1, <3>4 DEF Moved
  <2> QED BY <1>4, <2>12, <2>13, <2>14, <2>15, <2>16
          DEF WorkerStep, WorkerPop, WorkerExit, WorkerRelease, WorkerErase
<1>5. CASE wpc[w] \in {"pop", "exited", "release", "erase"}
  BY <1>2, <1>3, <1>5 DEF WorkerStep, WorkerCheck, WorkerStart, WorkerReturn,
                          WorkerMark, WorkerRetry
<1> QED BY <1>4, <1>5

LEMMA CancelLife ==
  ASSUME TypeOK, TypeOK', Custody, Custody', HoldsEntered, HoldsEntered',
         NEW a \in Agents, CancelStep(a)
  PROVE  /\ UNCHANGED starts
         /\ \/ \A i \in Jobs : Same(i)
            \/ \E j \in Jobs : Moved(j, "waiting", "over")
<1> USE DEF submitVars, queueVars, workerVars, delayVars
<1>1. UNCHANGED <<starts, wpc, wjob, spc, dpc, djob>>
  BY DEF CancelStep, CancelHeap, CancelQueue, CancelErase
<1>2. \A i \in Jobs : /\ HeldRunning(i)' <=> HeldRunning(i)
                      /\ HeldBefore(i)' <=> HeldBefore(i)
                      /\ InDelayHand(i)' <=> InDelayHand(i)
                      /\ Entered(i)' <=> Entered(i)
  BY <1>1 DEF HeldRunning, HeldBefore, Entered, InDelayHand
<1>3. ASSUME UNCHANGED <<heap, ready>> PROVE \A i \in Jobs : Same(i)
  BY <1>1, <1>2, <1>3 DEF Same, Waiting
<1>4. ASSUME NEW j \in Jobs, Waiting(j), ~Waiting(j)',
             \A i \in Jobs \ {j} : Waiting(i)' <=> Waiting(i)
      PROVE  Moved(j, "waiting", "over")
  <2>1. \A i \in Jobs \ {j} : Same(i)
    BY <1>1, <1>2, <1>4 DEF Same
  <2>2. LifeState(j) = "waiting" /\ ~HeldRunning(j) /\ Entered(j)
    BY <1>4, StageOf, PlacedLive DEF Live
  <2>3. LifeState(j)' = "over"
    BY <1>2, <1>4, <2>2 DEF LifeState, Entered, Refusals
  <2> QED BY <2>1, <2>2, <2>3 DEF Moved
<1>5. CASE CancelHeap(a)
  <2>1. PICK j \in victims[a] : heap' = heap \ {j}
    BY <1>5 DEF CancelHeap
  <2>2. j \in Jobs /\ UNCHANGED ready
    BY <1>5, <2>1 DEF CancelHeap, TypeOK
  <2>3. CASE j \in heap
    <3>1. Waiting(j) /\ j \notin ToSet(ready) /\ ~InDelayHand(j) /\ ~HeldBefore(j)
      BY <2>3 DEF Custody, Waiting, HeldBefore, Busy
    <3>2. ~Waiting(j)' /\ \A i \in Jobs \ {j} : Waiting(i)' <=> Waiting(i)
      BY <1>2, <2>1, <2>2, <3>1 DEF Waiting
    <3> QED BY <1>1, <1>4, <2>2, <3>1, <3>2
  <2>4. CASE j \notin heap
    BY <1>1, <1>3, <2>1, <2>2, <2>4
  <2> QED BY <2>3, <2>4
<1>6. CASE CancelQueue(a)
  <2>1. CASE UNCHANGED ready
    BY <1>1, <1>3, <1>6, <2>1 DEF CancelQueue
  <2>2. ASSUME NEW i \in DOMAIN ready, ready[i] = cjob[a], ready' = RemoveAt(ready, i)
        PROVE  \E j \in Jobs : Moved(j, "waiting", "over")
    <3>1. /\ ToSet(RemoveAt(ready, i)) = ToSet(ready) \ {ready[i]}
          /\ ready[i] \in ToSet(ready) /\ ready[i] \in Jobs
      <4>1. ready \in Seq(Jobs) /\ IsInjective(ready)
        BY DEF Custody, TypeOK
      <4>2. ToSet(RemoveAt(ready, i)) = ToSet(ready) \ {ready[i]}
        BY <4>1, RemoveAtDistinct
      <4>3. ready[i] \in ToSet(ready) /\ ready[i] \in Jobs
        BY <4>1, RemoveAtSet
      <4> QED BY <4>2, <4>3
    <3>2. PICK j \in Jobs : j = ready[i]
      BY <3>1
    <3>3. Waiting(j) /\ j \notin heap /\ ~InDelayHand(j) /\ ~HeldBefore(j)
      BY <3>1, <3>2 DEF Custody, Waiting, HeldBefore, Busy
    <3>4. UNCHANGED heap /\ ToSet(ready') = ToSet(ready) \ {j}
      BY <1>6, <2>2, <3>1, <3>2 DEF CancelQueue
    <3>5. ~Waiting(j)' /\ \A k \in Jobs \ {j} : Waiting(k)' <=> Waiting(k)
      BY <1>2, <3>3, <3>4 DEF Waiting
    <3> QED BY <1>4, <3>3, <3>5
  <2> QED BY <1>1, <1>6, <2>1, <2>2 DEF CancelQueue
<1>7. CASE CancelErase(a)
  BY <1>1, <1>3, <1>7 DEF CancelErase
<1> QED BY <1>5, <1>6, <1>7 DEF CancelStep

LEMMA OtherLife ==
  ASSUME (\E j \in Jobs : ClientCancel(j)) \/ ShutdownStep \/ UNCHANGED vars
  PROVE  UNCHANGED starts /\ \A i \in Jobs : Same(i)
<1> USE DEF submitVars, queueVars, workerVars, delayVars
<1>1. UNCHANGED <<starts, wpc, wjob, spc, dpc, djob, heap, ready>>
  BY DEF ClientCancel, ShutdownStep, ShutdownBegin, ShutdownClose, ShutdownDone,
         ShutdownTimeout, vars
<1> QED BY <1>1 DEF Same, HeldRunning, Waiting, HeldBefore, InDelayHand, Entered

Counted == Core /\ AttemptsCount /\ RetryAllowed

LEMMA LifeStep ==
  ASSUME Counted, Counted', [Next]_vars
  PROVE  [Life!Next]_(Life!vars)
<1> USE DEF Counted, Core, Base
<1>1. CASE UNCHANGED starts /\ \A i \in Jobs : Same(i)
  BY <1>1, LifeStutter
<1>2. ASSUME NEW j \in Jobs, UNCHANGED starts,
             \/ Moved(j, "new", "waiting") \/ Moved(j, "new", "refused")
             \/ Moved(j, "waiting", "over") \/ Moved(j, "running", "over")
      PROVE  Life!Next
  BY <1>2, LifeMove DEF Life!Next, Life!Accept, Life!Refuse, Life!Drop, Life!End
<1>3. ASSUME NEW w \in Workers, NEW j \in Jobs, j = wjob[w], WorkerStart(w),
             Moved(j, "waiting", "running")
      PROVE  Life!Next
  <2>1. starts' = [starts EXCEPT ![j] = @ + 1]
    BY <1>3 DEF WorkerStart
  <2>2. Waiting(j)
    BY <1>3 DEF WorkerStart, Waiting, HeldBefore
  <2>3. starts[j] <= MaxRetries[j]
    BY <2>2, DispatcherAssumption DEF AttemptsCount, TypeOK
  <2>4. Life!Move(j, "waiting", "running")
    BY <1>3, LifeMove
  <2> QED BY <2>1, <2>3, <2>4 DEF Life!Next, Life!Start
<1>4. ASSUME NEW w \in Workers, NEW j \in Jobs, j = wjob[w], WorkerRetry(w),
             Moved(j, "running", "waiting")
      PROVE  Life!Next
  <2>1. UNCHANGED starts /\ wpc[w] = "retry"
    BY <1>4 DEF WorkerRetry
  <2>2. starts[j] <= MaxRetries[j]
    BY <1>4, <2>1, DispatcherAssumption DEF AttemptsCount, RetryAllowed, TypeOK
  <2>3. Life!Move(j, "running", "waiting")
    BY <1>4, LifeMove
  <2> QED BY <2>1, <2>2, <2>3 DEF Life!Next, Life!Retry
<1>5. ASSUME NEW j \in Jobs, Submits(j) \/ SubmitAdmit(j) PROVE [Life!Next]_(Life!vars)
  BY <1>1, <1>2, <1>5, SubmitLife
<1>6. CASE DelayStep
  BY <1>1, <1>2, <1>6, DelayLife
<1>7. ASSUME NEW w \in Workers, WorkerStep(w) PROVE [Life!Next]_(Life!vars)
  BY <1>1, <1>2, <1>3, <1>4, <1>7, WorkerLife
<1>8. ASSUME NEW a \in Agents, CancelStep(a) PROVE [Life!Next]_(Life!vars)
  BY <1>1, <1>2, <1>8, CancelLife
<1>9. CASE (\E j \in Jobs : ClientCancel(j)) \/ ShutdownStep \/ UNCHANGED vars
  BY <1>1, <1>9, OtherLife
<1> QED BY <1>5, <1>6, <1>7, <1>8, <1>9 DEF Next, Submits, ShutdownStep

LEMMA InitLife == Init => AttemptsCount /\ RetryAllowed /\ Life!Init
<1> SUFFICES ASSUME Init PROVE AttemptsCount /\ RetryAllowed /\ Life!Init
  OBVIOUS
<1>1. MaxRetries \in [Jobs -> Nat]
  BY DispatcherAssumption
<1>2. AttemptsCount /\ RetryAllowed
  BY <1>1 DEF Init, AttemptsCount, RetryAllowed
<1>3. Base
  BY InitType, InitCustody DEF Base
<1>4. ASSUME NEW j \in Jobs PROVE LifeState(j) = "new"
  BY <1>3, InitHolds, StageOf DEF Base, Init, Entered, Refusals
<1> QED BY <1>2, <1>4 DEF Life!Init, Init

\* Whatever goroutines carry a job, by whatever interleaving of submission, delay
\* loop, workers, cancellation and shutdown, it has the life JobLifecycle
\* describes: attempts do not overlap and are at most MaxRetries + 1, and nothing
\* brings back a job that is over or was refused.
THEOREM DispatcherImplementsLifecycle == Spec => ImplementsLifecycle
<1>1. Init => AttemptsCount /\ RetryAllowed /\ Life!Init
  BY InitLife
<1>2. /\ Core /\ Core' /\ AttemptsCount /\ RetryAllowed
      /\ [Next]_vars
      => AttemptsCount' /\ RetryAllowed'
  BY AttemptsCountStep, RetryAllowedStep DEF Core, Base
<1>3. Spec => []Counted
  BY <1>1, <1>2, CoreInvariant, PTL DEF Spec, Counted
<1>4. Counted /\ Counted' /\ [Next]_vars => [Life!Next]_(Life!vars)
  BY LifeStep
<1> QED BY <1>1, <1>3, <1>4, PTL DEF Spec, ImplementsLifecycle, Life!Spec
=============================================================================
