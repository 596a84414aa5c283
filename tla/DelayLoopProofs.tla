-------------------------- MODULE DelayLoopProofs --------------------------
(***************************************************************************)
(* Theorems about DelayLoop for every set of jobs, all delays and any      *)
(* clock: its types, that the loop never sleeps past an entry, and that no *)
(* entry leaves the heap for the ready queue before its RunAt.             *)
(***************************************************************************)
EXTENDS DelayLoop, TLAPS

\* popDue's snapshot of the clock is never ahead of the clock.
DuePast == due <= now

IInv == TypeOK /\ NeverOversleeps /\ DuePast

-----------------------------------------------------------------------------
LEMMA InitIInv == Init => IInv
<1> SUFFICES ASSUME Init PROVE IInv
  OBVIOUS
<1>1. attempt \in [Jobs -> 0 .. MaxRetries] /\ runAt \in [Jobs -> Nat]
  BY DelayLoopAssumption DEF Init
<1>2. TypeOK
  BY <1>1 DEF Init, TypeOK, Places, InHand, Off
<1> QED
  BY <1>2 DEF Init, IInv, NeverOversleeps, DuePast

LEMMA TypeStep == TypeOK /\ [Next]_vars => TypeOK'
<1> SUFFICES ASSUME TypeOK, [Next]_vars PROVE TypeOK'
  OBVIOUS
<1> USE DelayLoopAssumption DEF TypeOK, Places, InHand, MoveTo, Goto, Off,
        cancelVars, jobVars, loopVars
<1>1. CASE Tick
  BY <1>1 DEF Tick
<1>2. ASSUME NEW j \in Jobs, Submit(j) PROVE TypeOK'
  BY <1>2 DEF Submit
<1>3. ASSUME NEW j \in Jobs, Retry(j) PROVE TypeOK'
  <2>1. Backoff(attempt[j]) \in Nat
    BY BackoffAssumption
  <2>2. attempt' \in [Jobs -> 0 .. MaxRetries] /\ runAt' \in [Jobs -> Nat]
    BY <1>3, <2>1 DEF Retry
  <2> QED
    BY <1>3, <2>2 DEF Retry
<1>4. ASSUME NEW j \in Jobs, Push(j) PROVE TypeOK'
  BY <1>4 DEF Push
<1>5. ASSUME NEW j \in Jobs, CancelHeap(j) PROVE TypeOK'
  BY <1>5 DEF CancelHeap
<1>6. ASSUME NEW j \in Jobs, CancelMark(j) PROVE TypeOK'
  BY <1>6 DEF CancelMark
<1>7. CASE Send
  BY <1>7 DEF Send
<1>8. CASE Stop
  BY <1>8 DEF Stop
<1>9. CASE LookEmpty \/ LookFirst
  BY <1>9 DEF LookEmpty, LookFirst, First, Heap
<1>10. CASE Measure \/ Arm
  BY <1>10 DEF Measure, Arm
<1>11. CASE TimerFires
  BY <1>11 DEF TimerFires
<1>12. CASE SelectSignal
  BY <1>12 DEF SelectSignal
<1>13. CASE SelectStop
  BY <1>13 DEF SelectStop
<1>14. CASE PopTake
  <2>1. PICK j \in Jobs : where' = [where EXCEPT ![j] = "hand"]
    BY <1>14 DEF PopTake
  <2>2. InHand = {} /\ InHand' = {j}
    BY <1>14, <2>1 DEF PopTake
  <2> QED
    BY <1>14, <2>1, <2>2 DEF PopTake
<1>15. CASE PopDone
  BY <1>15 DEF PopDone
<1>16. CASE PopCheck
  BY <1>16 DEF PopCheck
<1>17. CASE PopPush
  BY <1>17 DEF PopPush
<1>18. CASE Drain \/ DrainDone
  BY <1>18 DEF Drain, DrainDone, First, Heap
<1>19. CASE UNCHANGED vars
  BY <1>19 DEF vars
<1> QED
  BY <1>1, <1>2, <1>3, <1>4, <1>5, <1>6, <1>7, <1>8, <1>9, <1>10, <1>11, <1>12,
     <1>13, <1>14, <1>15, <1>16, <1>17, <1>18, <1>19 DEF Next, LoopStep

\* due is read off the clock, which never goes back.
LEMMA DuePastStep == TypeOK /\ DuePast /\ [Next]_vars => DuePast'
<1> SUFFICES ASSUME TypeOK, DuePast, [Next]_vars PROVE DuePast'
  OBVIOUS
<1>1. due' \in {due, now, 0} /\ now' \in {now, now + 1}
  BY DEF Next, LoopStep, Tick, Submit, Retry, Push, Send, CancelHeap, CancelMark,
         Stop, LookEmpty, LookFirst, Measure, Arm, TimerFires, SelectSignal,
         SelectStop, PopTake, PopDone, PopCheck, PopPush, Drain, DrainDone, vars,
         loopVars
<1> QED
  BY <1>1 DEF DuePast, TypeOK

\* A step either leaves the loop in front of the heap it has seen, or announces
\* itself by a wake-up.
LEMMA OversleepStep == TypeOK /\ NeverOversleeps /\ [Next]_vars => NeverOversleeps'
<1> SUFFICES ASSUME TypeOK, NeverOversleeps, [Next]_vars PROVE NeverOversleeps'
  OBVIOUS
<1> USE DEF NeverOversleeps, WakeUp, Heap, MoveTo, Goto, cancelVars, jobVars,
        loopVars
\* What neither adds to the heap nor takes a wake-up away cannot disturb it.
<1>1. ASSUME Heap' \subseteq Heap, UNCHANGED <<runAt, lpc, next, token, senders>>
      PROVE  NeverOversleeps'
  BY <1>1
<1>2. CASE Tick \/ Stop \/ UNCHANGED vars
  BY <1>1, <1>2 DEF Tick, Stop, vars
<1>3. ASSUME NEW j \in Jobs, Submit(j) \/ Retry(j) PROVE NeverOversleeps'
  <2>1. where[j] # "heap" /\ where' = [where EXCEPT ![j] = "coming"]
    BY <1>3 DEF Submit, Retry
  <2>2. \A k \in Jobs : k # j => runAt'[k] = runAt[k]
    BY <1>3 DEF Submit, Retry, TypeOK
  <2>3. Heap' = Heap
    BY <2>1 DEF TypeOK
  <2> QED
    BY <1>3, <2>1, <2>2, <2>3 DEF Submit, Retry
<1>4. ASSUME NEW j \in Jobs, Push(j) PROVE NeverOversleeps'
  BY <1>4 DEF Push, TypeOK
<1>5. ASSUME NEW j \in Jobs, CancelHeap(j) \/ CancelMark(j)
      PROVE  NeverOversleeps'
  <2>1. Heap' \subseteq Heap
    BY <1>5 DEF CancelHeap, CancelMark, TypeOK
  <2> QED
    BY <1>1, <1>5, <2>1 DEF CancelHeap, CancelMark
<1>6. CASE Send
  BY <1>6 DEF Send
<1>7. CASE LookEmpty \/ LookFirst
  BY <1>7 DEF LookEmpty, LookFirst, First
<1>8. CASE Measure \/ Arm
  BY <1>8 DEF Measure, Arm
<1>9. CASE TimerFires \/ SelectSignal \/ SelectStop
  BY <1>9 DEF TimerFires, SelectSignal, SelectStop
<1>10. CASE PopTake \/ PopDone \/ PopCheck \/ PopPush
  BY <1>10 DEF PopTake, PopDone, PopCheck, PopPush
<1>11. CASE Drain \/ DrainDone
  BY <1>11 DEF Drain, DrainDone
<1> QED
  BY <1>2, <1>3, <1>4, <1>5, <1>6, <1>7, <1>8, <1>9, <1>10, <1>11
     DEF Next, LoopStep

\* The inductive invariant holds in every reachable state.
THEOREM Invariance == Spec => []IInv
<1>1. IInv /\ [Next]_vars => IInv'
  BY TypeStep, DuePastStep, OversleepStep DEF IInv
<1> QED
  BY InitIInv, <1>1, PTL DEF Spec

\* Every variable of the delay loop has its type, and the loop holds one entry
\* at most.
THEOREM TypeCorrect == Spec => []TypeOK
BY Invariance, PTL DEF IInv

\* The loop never sleeps past the earliest entry without a wake-up on its way.
THEOREM NeverOversleepsAlways == Spec => []NeverOversleeps
BY Invariance, PTL DEF IInv

\* No entry is handed over before its RunAt: popDue compares with a snapshot of
\* the clock that is not ahead of it.
THEOREM NeverEarlyAlways == Spec => NeverEarly
<1> DEFINE Step == \A j \in Jobs :
             where[j] = "heap" /\ where'[j] = "hand" => runAt[j] <= now
<1>1. IInv /\ [Next]_vars => Step \/ UNCHANGED vars
  <2> SUFFICES ASSUME IInv, Next, NEW j \in Jobs, where[j] = "heap",
                      where'[j] = "hand"
               PROVE  runAt[j] <= now
    BY DEF vars
  <2>1. PopTake
    BY DEF Next, LoopStep, IInv, TypeOK, Tick, Submit, Retry, Push, Send, CancelHeap,
           CancelMark, Stop, LookEmpty, LookFirst, Measure, Arm, TimerFires,
           SelectSignal, SelectStop, PopDone, PopCheck, PopPush, Drain, DrainDone,
           MoveTo, jobVars
  <2>2. runAt[j] <= due
    BY <2>1 DEF PopTake, MoveTo, IInv, TypeOK
  <2> QED
    BY <2>2 DEF IInv, DuePast, TypeOK
<1> QED
  BY Invariance, <1>1, PTL DEF Spec, NeverEarly
=============================================================================
