-------------------------- MODULE SchedulerProofs --------------------------
(***************************************************************************)
(* Theorems about Scheduler for every finite set of entries and any number *)
(* of Stop and Shutdown calls: its types (with the WaitGroup never below   *)
(* zero), that no stop channel is closed twice, that an entry is quiet     *)
(* once Stop has returned, what a nil from the first call of Shutdown or   *)
(* from a later one says of the entries, and that no straggler is left     *)
(* running without having been told to stop.                               *)
(***************************************************************************)
EXTENDS Scheduler, FiniteSetTheorems, TLAPS

\* Goroutines between wg.Add and wg.Done.
Running == {e \in Entries : gpc[e] \notin {"none", "gone"}}

\* An entry that has not been registered is unknown to everybody, and one
\* whose goroutine has not been started has not been launched.
Fresh ==
  \A e \in Entries :
    /\ gpc[e] = "none" <=> rpc[e] # "returned"
    /\ rpc[e] \in {"idle", "refused"} =>
         e \notin entries /\ e \notin stop /\ Stopping(e) = {}

\* wg counts the goroutines.
Counted == wg = Cardinality(Running)

\* done is closed just before a goroutine is gone, and a Stop that has returned
\* saw it; what Shutdown waits for has been launched.
Signalled ==
  /\ \A e \in Entries : e \in done <=> gpc[e] = "gone"
  /\ \A x \in Stoppers : tpc[x] = "returned" => target[x] \in done
  /\ \A e \in known : rpc[e] = "returned"

\* Exactly one Shutdown has got past s.stopped once it is set, the others come
\* after it, and only while it closes channels does it hold entries.
Taken == {"close", "wait", "returned", "timeout"}

OneTaker ==
  /\ \A c \in Closers : hpc[c] # "idle" => stopped
  /\ stopped => \E c \in Closers : hpc[c] \in Taken
  /\ \A c, d \in Closers : hpc[c] \in Taken /\ hpc[d] \in Taken => c = d
  /\ \A c \in Closers : batch[c] # {} => hpc[c] = "close"

\* A registered entry that has not ended is listed, being stopped, or told.
Reachable ==
  \A e \in Entries :
    rpc[e] \in {"registered", "returned"} /\ gpc[e] \notin Ended =>
      e \in entries \/ e \in stop \/ Stopping(e) # {}

\* The Shutdown that waited to the end found every known goroutine gone.
QuietWhenWaited ==
  \A c \in Closers : hpc[c] = "returned" => \A e \in known : gpc[e] = "gone"

IInv ==
  /\ TypeOK
  /\ Fresh
  /\ Counted
  /\ Signalled
  /\ OneTaker
  /\ Reachable
  /\ ClosedOnce
  /\ ListIsLive
  /\ QuietWhenWaited

-----------------------------------------------------------------------------
\* The invariant holds before anything is registered: no goroutine runs.
LEMMA InitIInv == Init => IInv
<1> SUFFICES ASSUME Init PROVE IInv
  OBVIOUS
<1> USE SchedulerAssumption DEF Init
<1>1. TypeOK
  BY DEF TypeOK
<1>2. \A e \in Entries : Stopping(e) = {}
  BY DEF Stopping
<1>3. Fresh /\ OneTaker /\ Reachable
  BY <1>2 DEF Fresh, OneTaker, Reachable, Taken
<1>4. Counted /\ Signalled
  <2>1. Running = {}
    BY DEF Running
  <2> QED
    BY <2>1, FS_EmptySet DEF Counted, Signalled
<1>5. ClosedOnce /\ ListIsLive /\ QuietWhenWaited
  BY <1>2 DEF ClosedOnce, ListIsLive, QuietWhenWaited
<1> QED
  BY <1>1, <1>3, <1>4, <1>5 DEF IInv

\* wg is the number of running goroutines across Launch (wg.Add) and GoClose
\* (wg.Done), and no other action starts or ends one; so wg.Done never takes
\* the counter below zero.
LEMMA CountStep ==
  ASSUME IsFiniteSet(Entries), IInv, Next
  PROVE  wg' \in Nat /\ wg' = Cardinality(Running')
<1> USE DEF IInv
<1>1. IsFiniteSet(Running)
  BY FS_Subset DEF Running
<1>2. wg \in Nat /\ wg = Cardinality(Running)
  BY DEF TypeOK, Counted
<1>3. ASSUME NEW e \in Entries, Launch(e)
      PROVE  wg' \in Nat /\ wg' = Cardinality(Running')
  <2>1. e \notin Running
    BY <1>3 DEF Launch, Running, Fresh
  <2>2. Running' = Running \cup {e}
    BY <1>3 DEF Launch, GoAt, Running, TypeOK
  <2>3. wg' = wg + 1
    BY <1>3 DEF Launch
  <2>4. Cardinality(Running') = Cardinality(Running) + 1
    BY <1>1, <2>1, <2>2, FS_AddElement
  <2> QED
    BY <1>2, <2>3, <2>4
<1>4. ASSUME NEW e \in Entries, GoClose(e)
      PROVE  wg' \in Nat /\ wg' = Cardinality(Running')
  <2>1. e \in Running
    BY <1>4 DEF GoClose, Running
  <2>2. Running' = Running \ {e}
    BY <1>4 DEF GoClose, GoAt, Running, TypeOK
  <2>3. wg' = wg - 1
    BY <1>4 DEF GoClose
  <2>4. Cardinality(Running') = Cardinality(Running) - 1
        /\ IsFiniteSet(Running')
    BY <1>1, <2>1, <2>2, FS_RemoveElement
  <2> QED
    BY <1>2, <2>3, <2>4, FS_CardinalityType
<1>5. ASSUME NEW e \in Entries,
             GoUnsolvable(e) \/ GoTimer(e) \/ GoStopped(e) \/ GoFire(e)
               \/ GoFireFails(e) \/ GoRemove(e)
      PROVE  wg' \in Nat /\ wg' = Cardinality(Running')
  <2>1. wg' = wg
    BY <1>5 DEF GoUnsolvable, GoTimer, GoStopped, GoFire, GoFireFails, GoRemove
  <2>2. Running' = Running
    BY <1>5 DEF GoUnsolvable, GoTimer, GoStopped, GoFire, GoFireFails, GoRemove,
                GoAt, Running, TypeOK
  <2> QED
    BY <1>2, <2>1, <2>2
<1>6. CASE UNCHANGED <<wg, gpc>>
  BY <1>2, <1>6 DEF Running
<1>7. CASE \E x \in Stoppers : StopMissing(x) \/ StopClose(x) \/ StopReturn(x)
                         \/ \E e \in Entries : StopFind(x, e)
  BY <1>6, <1>7 DEF StopMissing, StopClose, StopReturn, StopFind, goVars
<1>8. CASE \E c \in Closers : ShutdownAgain(c) \/ ShutdownTake(c)
             \/ ShutdownClose(c) \/ ShutdownWait(c) \/ ShutdownDone(c)
             \/ ShutdownTimeout(c)
  BY <1>6, <1>8 DEF ShutdownAgain, ShutdownTake, ShutdownClose, ShutdownWait,
                    ShutdownDone, ShutdownTimeout, goVars
<1>9. CASE DispatcherCloses \/ \E e \in Entries : Register(e) \/ JobEnds(e)
  BY <1>6, <1>9 DEF DispatcherCloses, Register, JobEnds, goVars
<1> QED
  BY <1>3, <1>4, <1>5, <1>7, <1>8, <1>9 DEF Next, GoStep

\* Types, given that the counter stays a natural number.
LEMMA TypeStep ==
  ASSUME IsFiniteSet(Entries), IInv, Next
  PROVE  TypeOK'
<1> USE SchedulerAssumption DEF IInv, TypeOK, Ended, GoAt, tableVars, goVars,
                                stopVars, shutdownVars, dispatcherVars
<1>0. wg' \in Nat
  BY CountStep
<1>1. ASSUME NEW e \in Entries, Register(e)
      PROVE  TypeOK'
  BY <1>1 DEF Register
<1>2. ASSUME NEW e \in Entries, Launch(e)
      PROVE  TypeOK'
  BY <1>2 DEF Launch
<1>3. ASSUME NEW e \in Entries, GoUnsolvable(e) \/ GoTimer(e) \/ GoStopped(e)
      PROVE  TypeOK'
  BY <1>3 DEF GoUnsolvable, GoTimer, GoStopped
<1>4. ASSUME NEW e \in Entries, GoFire(e) \/ GoFireFails(e)
      PROVE  TypeOK'
  BY <1>4 DEF GoFire, GoFireFails
<1>5. ASSUME NEW e \in Entries, GoRemove(e) \/ GoClose(e)
      PROVE  TypeOK'
  BY <1>5, <1>0 DEF GoRemove, GoClose
<1>6. ASSUME NEW x \in Stoppers, StopMissing(x) \/ StopClose(x) \/
             StopReturn(x)
      PROVE  TypeOK'
  BY <1>6 DEF StopMissing, StopClose, StopReturn
<1>7. ASSUME NEW x \in Stoppers, NEW e \in Entries, StopFind(x, e)
      PROVE  TypeOK'
  BY <1>7 DEF StopFind
<1>8. ASSUME NEW c \in Closers, ShutdownTake(c) \/ ShutdownClose(c)
      PROVE  TypeOK'
  <2>1. CASE ShutdownTake(c)
    BY <2>1 DEF ShutdownTake
  <2>2. CASE ShutdownClose(c)
    BY <2>2 DEF ShutdownClose
  <2> QED
    BY <1>8, <2>1, <2>2
<1>9. ASSUME NEW c \in Closers, ShutdownAgain(c) \/ ShutdownWait(c) \/
             ShutdownDone(c) \/ ShutdownTimeout(c)
      PROVE  TypeOK'
  BY <1>9 DEF ShutdownAgain, ShutdownWait, ShutdownDone, ShutdownTimeout
<1>10. CASE DispatcherCloses \/ \E e \in Entries : JobEnds(e)
  BY <1>10 DEF DispatcherCloses, JobEnds
<1> QED
  BY <1>1, <1>2, <1>3, <1>4, <1>5, <1>6, <1>7, <1>8, <1>9, <1>10 DEF Next,
     GoStep

\* No action but Register makes an unregistered entry known to anybody: a Stop
\* or a Shutdown finds it in s.entries only after register has put it there.
LEMMA FreshStep ==
  ASSUME IsFiniteSet(Entries), IInv, Next
  PROVE  Fresh'
<1> USE SchedulerAssumption DEF IInv, TypeOK, Fresh, ListIsLive, Stopping,
                                GoAt, tableVars, goVars, stopVars,
                                shutdownVars, dispatcherVars
<1>1. ASSUME NEW e \in Entries, Register(e)
      PROVE  Fresh'
  BY <1>1 DEF Register
<1>2. ASSUME NEW e \in Entries, Launch(e)
      PROVE  Fresh'
  BY <1>2 DEF Launch
<1>3. ASSUME NEW e \in Entries, GoUnsolvable(e) \/ GoTimer(e) \/ GoStopped(e)
      PROVE  Fresh'
  BY <1>3 DEF GoUnsolvable, GoTimer, GoStopped
<1>4. ASSUME NEW e \in Entries, GoFire(e) \/ GoFireFails(e)
      PROVE  Fresh'
  BY <1>4 DEF GoFire, GoFireFails
<1>5. ASSUME NEW e \in Entries, GoRemove(e) \/ GoClose(e)
      PROVE  Fresh'
  BY <1>5 DEF GoRemove, GoClose
<1>6. ASSUME NEW x \in Stoppers, StopMissing(x) \/ StopClose(x) \/
             StopReturn(x)
      PROVE  Fresh'
  BY <1>6 DEF StopMissing, StopClose, StopReturn
<1>7. ASSUME NEW x \in Stoppers, NEW e \in Entries, StopFind(x, e)
      PROVE  Fresh'
  BY <1>7 DEF StopFind
<1>8. ASSUME NEW c \in Closers, ShutdownTake(c) \/ ShutdownClose(c)
      PROVE  Fresh'
  BY <1>8 DEF ShutdownTake, ShutdownClose
<1>9. ASSUME NEW c \in Closers, ShutdownAgain(c) \/ ShutdownWait(c) \/
             ShutdownDone(c) \/ ShutdownTimeout(c)
      PROVE  Fresh'
  BY <1>9 DEF ShutdownAgain, ShutdownWait, ShutdownDone, ShutdownTimeout
<1>10. CASE DispatcherCloses \/ \E e \in Entries : JobEnds(e)
  BY <1>10 DEF DispatcherCloses, JobEnds
<1> QED
  BY <1>1, <1>2, <1>3, <1>4, <1>5, <1>6, <1>7, <1>8, <1>9, <1>10 DEF Next,
     GoStep

\* close(done) is the last thing before a goroutine is gone, Stop returns after
\* it, and Shutdown counts on entries that have been launched.
LEMMA SignalledStep ==
  ASSUME IsFiniteSet(Entries), IInv, Next
  PROVE  Signalled'
<1> USE SchedulerAssumption DEF IInv, TypeOK, Signalled, GoAt, tableVars,
                                goVars, stopVars, shutdownVars, dispatcherVars
<1>1. ASSUME NEW e \in Entries, Register(e)
      PROVE  Signalled'
  BY <1>1 DEF Register
<1>2. ASSUME NEW e \in Entries, Launch(e)
      PROVE  Signalled'
  BY <1>2 DEF Launch, Fresh
<1>3. ASSUME NEW e \in Entries, GoUnsolvable(e) \/ GoTimer(e) \/ GoStopped(e)
      PROVE  Signalled'
  BY <1>3 DEF GoUnsolvable, GoTimer, GoStopped
<1>4. ASSUME NEW e \in Entries, GoFire(e) \/ GoFireFails(e)
      PROVE  Signalled'
  BY <1>4 DEF GoFire, GoFireFails
<1>5. ASSUME NEW e \in Entries, GoRemove(e) \/ GoClose(e)
      PROVE  Signalled'
  BY <1>5 DEF GoRemove, GoClose
<1>6. ASSUME NEW x \in Stoppers, StopMissing(x) \/ StopClose(x) \/
             StopReturn(x)
      PROVE  Signalled'
  BY <1>6 DEF StopMissing, StopClose, StopReturn
<1>7. ASSUME NEW x \in Stoppers, NEW e \in Entries, StopFind(x, e)
      PROVE  Signalled'
  BY <1>7 DEF StopFind
<1>8. ASSUME NEW c \in Closers, ShutdownTake(c) \/ ShutdownClose(c)
      PROVE  Signalled'
  BY <1>8 DEF ShutdownTake, ShutdownClose
<1>9. ASSUME NEW c \in Closers, ShutdownAgain(c) \/ ShutdownWait(c) \/
             ShutdownDone(c) \/ ShutdownTimeout(c)
      PROVE  Signalled'
  BY <1>9 DEF ShutdownAgain, ShutdownWait, ShutdownDone, ShutdownTimeout
<1>10. CASE DispatcherCloses \/ \E e \in Entries : JobEnds(e)
  BY <1>10 DEF DispatcherCloses, JobEnds
<1> QED
  BY <1>1, <1>2, <1>3, <1>4, <1>5, <1>6, <1>7, <1>8, <1>9, <1>10 DEF Next,
     GoStep

\* s.stopped lets one Shutdown through: the others return.
LEMMA OneTakerStep ==
  ASSUME IsFiniteSet(Entries), IInv, Next
  PROVE  OneTaker'
<1> USE SchedulerAssumption DEF IInv, TypeOK, OneTaker, Taken, GoAt,
                                tableVars, goVars, stopVars, shutdownVars,
                                dispatcherVars
<1>1. ASSUME NEW e \in Entries, Register(e)
      PROVE  OneTaker'
  BY <1>1 DEF Register
<1>2. ASSUME NEW e \in Entries, Launch(e)
      PROVE  OneTaker'
  BY <1>2 DEF Launch
<1>3. ASSUME NEW e \in Entries, GoUnsolvable(e) \/ GoTimer(e) \/ GoStopped(e)
      PROVE  OneTaker'
  BY <1>3 DEF GoUnsolvable, GoTimer, GoStopped
<1>4. ASSUME NEW e \in Entries, GoFire(e) \/ GoFireFails(e)
      PROVE  OneTaker'
  BY <1>4 DEF GoFire, GoFireFails
<1>5. ASSUME NEW e \in Entries, GoRemove(e) \/ GoClose(e)
      PROVE  OneTaker'
  BY <1>5 DEF GoRemove, GoClose
<1>6. ASSUME NEW x \in Stoppers, StopMissing(x) \/ StopClose(x) \/
             StopReturn(x)
      PROVE  OneTaker'
  BY <1>6 DEF StopMissing, StopClose, StopReturn
<1>7. ASSUME NEW x \in Stoppers, NEW e \in Entries, StopFind(x, e)
      PROVE  OneTaker'
  BY <1>7 DEF StopFind
<1>8. ASSUME NEW c \in Closers, ShutdownTake(c) \/ ShutdownClose(c)
      PROVE  OneTaker'
  BY <1>8 DEF ShutdownTake, ShutdownClose
<1>9. ASSUME NEW c \in Closers, ShutdownAgain(c) \/ ShutdownWait(c) \/
             ShutdownDone(c) \/ ShutdownTimeout(c)
      PROVE  OneTaker'
  BY <1>9 DEF ShutdownAgain, ShutdownWait, ShutdownDone, ShutdownTimeout
<1>10. CASE DispatcherCloses \/ \E e \in Entries : JobEnds(e)
  BY <1>10 DEF DispatcherCloses, JobEnds
<1> QED
  BY <1>1, <1>2, <1>3, <1>4, <1>5, <1>6, <1>7, <1>8, <1>9, <1>10 DEF Next,
     GoStep

\* An entry that leaves s.entries while its goroutine may still run is in the
\* hands of the call that took it, until that call closes its stop channel.
LEMMA ReachableStep ==
  ASSUME IsFiniteSet(Entries), IInv, Next
  PROVE  Reachable'
<1> USE SchedulerAssumption DEF IInv, TypeOK, Reachable, OneTaker, ClosedOnce,
                                Fresh, Taken, Ended, Stopping, GoAt,
                                tableVars, goVars, stopVars, shutdownVars,
                                dispatcherVars
<1>1. ASSUME NEW e \in Entries, Register(e)
      PROVE  Reachable'
  BY <1>1 DEF Register
<1>2. ASSUME NEW e \in Entries, Launch(e)
      PROVE  Reachable'
  BY <1>2 DEF Launch
<1>3. ASSUME NEW e \in Entries, GoUnsolvable(e) \/ GoTimer(e) \/ GoStopped(e)
      PROVE  Reachable'
  BY <1>3 DEF GoUnsolvable, GoTimer, GoStopped
<1>4. ASSUME NEW e \in Entries, GoFire(e) \/ GoFireFails(e)
      PROVE  Reachable'
  BY <1>4 DEF GoFire, GoFireFails
<1>5. ASSUME NEW e \in Entries, GoRemove(e) \/ GoClose(e)
      PROVE  Reachable'
  BY <1>5 DEF GoRemove, GoClose
<1>6. ASSUME NEW x \in Stoppers, StopMissing(x) \/ StopClose(x) \/
             StopReturn(x)
      PROVE  Reachable'
  BY <1>6 DEF StopMissing, StopClose, StopReturn
<1>7. ASSUME NEW x \in Stoppers, NEW e \in Entries, StopFind(x, e)
      PROVE  Reachable'
  BY <1>7 DEF StopFind
<1>8. ASSUME NEW c \in Closers, ShutdownTake(c) \/ ShutdownClose(c)
      PROVE  Reachable'
  BY <1>8 DEF ShutdownTake, ShutdownClose
<1>9. ASSUME NEW c \in Closers, ShutdownAgain(c) \/ ShutdownWait(c) \/
             ShutdownDone(c) \/ ShutdownTimeout(c)
      PROVE  Reachable'
  BY <1>9 DEF ShutdownAgain, ShutdownWait, ShutdownDone, ShutdownTimeout
<1>10. CASE DispatcherCloses \/ \E e \in Entries : JobEnds(e)
  BY <1>10 DEF DispatcherCloses, JobEnds
<1> QED
  BY <1>1, <1>2, <1>3, <1>4, <1>5, <1>6, <1>7, <1>8, <1>9, <1>10 DEF Next,
     GoStep

\* Whoever takes an entry out of s.entries is alone with it: only one call can
\* take it, for it is no longer there for the next.
LEMMA ClosedOnceStep ==
  ASSUME IsFiniteSet(Entries), IInv, Next
  PROVE  ClosedOnce'
<1> USE SchedulerAssumption DEF IInv, TypeOK, ClosedOnce, Fresh, Stopping,
                                GoAt, tableVars, goVars, stopVars,
                                shutdownVars, dispatcherVars
<1>1. ASSUME NEW e \in Entries, Register(e)
      PROVE  ClosedOnce'
  BY <1>1 DEF Register
<1>2. ASSUME NEW e \in Entries, Launch(e)
      PROVE  ClosedOnce'
  BY <1>2 DEF Launch
<1>3. ASSUME NEW e \in Entries, GoUnsolvable(e) \/ GoTimer(e) \/ GoStopped(e)
      PROVE  ClosedOnce'
  BY <1>3 DEF GoUnsolvable, GoTimer, GoStopped
<1>4. ASSUME NEW e \in Entries, GoFire(e) \/ GoFireFails(e)
      PROVE  ClosedOnce'
  BY <1>4 DEF GoFire, GoFireFails
<1>5. ASSUME NEW e \in Entries, GoRemove(e) \/ GoClose(e)
      PROVE  ClosedOnce'
  BY <1>5 DEF GoRemove, GoClose
<1>6. ASSUME NEW x \in Stoppers, StopMissing(x) \/ StopClose(x) \/
             StopReturn(x)
      PROVE  ClosedOnce'
  BY <1>6 DEF StopMissing, StopClose, StopReturn
<1>7. ASSUME NEW x \in Stoppers, NEW e \in Entries, StopFind(x, e)
      PROVE  ClosedOnce'
  BY <1>7 DEF StopFind
<1>8. ASSUME NEW c \in Closers, ShutdownTake(c) \/ ShutdownClose(c)
      PROVE  ClosedOnce'
  BY <1>8 DEF ShutdownTake, ShutdownClose
<1>9. ASSUME NEW c \in Closers, ShutdownAgain(c) \/ ShutdownWait(c) \/
             ShutdownDone(c) \/ ShutdownTimeout(c)
      PROVE  ClosedOnce'
  BY <1>9 DEF ShutdownAgain, ShutdownWait, ShutdownDone, ShutdownTimeout
<1>10. CASE DispatcherCloses \/ \E e \in Entries : JobEnds(e)
  BY <1>10 DEF DispatcherCloses, JobEnds
<1> QED
  BY <1>1, <1>2, <1>3, <1>4, <1>5, <1>6, <1>7, <1>8, <1>9, <1>10 DEF Next,
     GoStep

\* An entry enters s.entries before its goroutine exists and only while the
\* scheduler is not stopped, and it leaves before the goroutine has ended.
LEMMA ListIsLiveStep ==
  ASSUME IsFiniteSet(Entries), IInv, Next
  PROVE  ListIsLive'
<1> USE SchedulerAssumption DEF IInv, TypeOK, ListIsLive, Fresh, GoAt,
                                tableVars, goVars, stopVars, shutdownVars,
                                dispatcherVars
<1>1. ASSUME NEW e \in Entries, Register(e)
      PROVE  ListIsLive'
  BY <1>1 DEF Register
<1>2. ASSUME NEW e \in Entries, Launch(e)
      PROVE  ListIsLive'
  BY <1>2 DEF Launch
<1>3. ASSUME NEW e \in Entries, GoUnsolvable(e) \/ GoTimer(e) \/ GoStopped(e)
      PROVE  ListIsLive'
  BY <1>3 DEF GoUnsolvable, GoTimer, GoStopped
<1>4. ASSUME NEW e \in Entries, GoFire(e) \/ GoFireFails(e)
      PROVE  ListIsLive'
  BY <1>4 DEF GoFire, GoFireFails
<1>5. ASSUME NEW e \in Entries, GoRemove(e) \/ GoClose(e)
      PROVE  ListIsLive'
  BY <1>5 DEF GoRemove, GoClose
<1>6. ASSUME NEW x \in Stoppers, StopMissing(x) \/ StopClose(x) \/
             StopReturn(x)
      PROVE  ListIsLive'
  BY <1>6 DEF StopMissing, StopClose, StopReturn
<1>7. ASSUME NEW x \in Stoppers, NEW e \in Entries, StopFind(x, e)
      PROVE  ListIsLive'
  BY <1>7 DEF StopFind
<1>8. ASSUME NEW c \in Closers, ShutdownTake(c) \/ ShutdownClose(c)
      PROVE  ListIsLive'
  BY <1>8 DEF ShutdownTake, ShutdownClose
<1>9. ASSUME NEW c \in Closers, ShutdownAgain(c) \/ ShutdownWait(c) \/
             ShutdownDone(c) \/ ShutdownTimeout(c)
      PROVE  ListIsLive'
  BY <1>9 DEF ShutdownAgain, ShutdownWait, ShutdownDone, ShutdownTimeout
<1>10. CASE DispatcherCloses \/ \E e \in Entries : JobEnds(e)
  BY <1>10 DEF DispatcherCloses, JobEnds
<1> QED
  BY <1>1, <1>2, <1>3, <1>4, <1>5, <1>6, <1>7, <1>8, <1>9, <1>10 DEF Next,
     GoStep

\* When wg.Wait returns no goroutine runs, so every launched one is gone; and
\* what is gone stays gone.
LEMMA QuietStep ==
  ASSUME IsFiniteSet(Entries), IInv, Next
  PROVE  QuietWhenWaited'
<1> USE SchedulerAssumption
    DEF IInv, TypeOK, QuietWhenWaited, OneTaker, Taken, GoAt, tableVars,
        goVars, stopVars, shutdownVars, dispatcherVars
<1>1. ASSUME NEW c \in Closers, ShutdownDone(c)
      PROVE  QuietWhenWaited'
  <2>1. Running = {}
    <3>1. IsFiniteSet(Running)
      BY FS_Subset DEF Running
    <3>2. Cardinality(Running) = 0
      BY <1>1 DEF ShutdownDone, Counted
    <3> QED
      BY <3>1, <3>2, FS_EmptySet
  <2>2. \A e \in known : gpc[e] = "gone"
    BY <2>1 DEF Running, Signalled, Fresh
  <2>3. known' = known /\ gpc' = gpc
    BY <1>1 DEF ShutdownDone
  <2> QED
    BY <2>2, <2>3
<1>2. ASSUME NEW c \in Closers,
             ShutdownAgain(c) \/ ShutdownTake(c) \/ ShutdownClose(c)
               \/ ShutdownWait(c) \/ ShutdownTimeout(c)
      PROVE  QuietWhenWaited'
  BY <1>2 DEF ShutdownAgain, ShutdownTake, ShutdownClose, ShutdownWait,
              ShutdownTimeout
<1>3. ASSUME NEW e \in Entries, Launch(e)
      PROVE  QuietWhenWaited'
  BY <1>3 DEF Launch, Signalled
<1>4. ASSUME NEW e \in Entries,
             GoUnsolvable(e) \/ GoTimer(e) \/ GoStopped(e) \/ GoStep(e)
      PROVE  QuietWhenWaited'
  BY <1>4 DEF GoUnsolvable, GoTimer, GoStopped, GoStep, GoFire, GoFireFails,
              GoRemove, GoClose
<1>5. CASE DispatcherCloses \/ \E e \in Entries : Register(e) \/ JobEnds(e)
  BY <1>5 DEF DispatcherCloses, Register, JobEnds
<1>6. CASE \E x \in Stoppers : StopMissing(x) \/ StopClose(x) \/ StopReturn(x)
                         \/ \E e \in Entries : StopFind(x, e)
  BY <1>6 DEF StopMissing, StopClose, StopReturn, StopFind
<1> QED
  BY <1>1, <1>2, <1>3, <1>4, <1>5, <1>6 DEF Next

-----------------------------------------------------------------------------
\* A stutter changes nothing the invariant speaks of.
LEMMA StutterStep == ASSUME IInv, UNCHANGED vars PROVE IInv'
<1>1. \A e \in Entries : Stopping(e)' = Stopping(e)
  BY DEF vars, stopVars, shutdownVars, Stopping
<1>2. Running' = Running
  BY DEF vars, goVars, Running
<1> USE DEF IInv, vars, tableVars, goVars, stopVars, shutdownVars, dispatcherVars
<1>3. TypeOK' /\ Signalled' /\ OneTaker' /\ ListIsLive' /\ QuietWhenWaited'
  BY DEF TypeOK, Signalled, OneTaker, ListIsLive, QuietWhenWaited
<1>4. Counted'
  BY <1>2 DEF Counted
<1>5. Fresh' /\ Reachable' /\ ClosedOnce'
  BY <1>1 DEF Fresh, Reachable, ClosedOnce
<1> QED
  BY <1>3, <1>4, <1>5

\* The invariant of the scheduler, for a finite set of entries.
THEOREM Invariance ==
  ASSUME IsFiniteSet(Entries)
  PROVE  Spec => []IInv
<1>1. IInv /\ [Next]_vars => IInv'
  <2> SUFFICES ASSUME IInv, [Next]_vars PROVE IInv'
    OBVIOUS
  <2>1. CASE Next
    <3>1. Counted'
      BY <2>1, CountStep DEF Counted
    <3> QED
      BY <2>1, <3>1, TypeStep, FreshStep, SignalledStep, OneTakerStep,
         ReachableStep, ClosedOnceStep, ListIsLiveStep, QuietStep DEF IInv
  <2>2. CASE UNCHANGED vars
    BY <2>2, StutterStep
  <2> QED
    BY <2>1, <2>2
<1> QED
  BY InitIInv, <1>1, PTL DEF Spec

\* Every variable keeps its type; in particular no wg.Done of an entry that
\* ends can make the counter of the WaitGroup negative, which would panic.
THEOREM TypeCorrect ==
  ASSUME IsFiniteSet(Entries)
  PROVE  Spec => []TypeOK
<1>1. IInv => TypeOK
  BY DEF IInv
<1> QED
  BY <1>1, Invariance, PTL

\* No stop channel is closed twice, by any number of concurrent calls of Stop
\* and Shutdown and entries that end by themselves.
THEOREM ClosedOnceAlways ==
  ASSUME IsFiniteSet(Entries)
  PROVE  Spec => []ClosedOnce
<1>1. IInv => ClosedOnce
  BY DEF IInv
<1> QED
  BY <1>1, Invariance, PTL

\* List shows only entries whose goroutine has not ended, and none at all after
\* Shutdown.
THEOREM ListIsLiveAlways ==
  ASSUME IsFiniteSet(Entries)
  PROVE  Spec => []ListIsLive
<1>1. IInv => ListIsLive
  BY DEF IInv
<1> QED
  BY <1>1, Invariance, PTL

\* When Stop has returned, the goroutine of its entry has ended.
THEOREM QuietAfterStopAlways ==
  ASSUME IsFiniteSet(Entries)
  PROVE  Spec => []QuietAfterStop
<1>1. IInv => QuietAfterStop
  BY DEF IInv, TypeOK, Signalled, QuietAfterStop
<1> QED
  BY <1>1, Invariance, PTL

\* A nil from Shutdown: the call that waited leaves no goroutine of an entry
\* registered before; a later or concurrent call may return with such goroutines
\* running, but only while the first has not waited to the end, and every one
\* of them that may still fire has been told to stop or is about to be.
THEOREM QuietAfterShutdownAlways ==
  ASSUME IsFiniteSet(Entries)
  PROVE  Spec => []QuietAfterShutdown
<1>1. IInv => QuietAfterShutdown
  <2> SUFFICES ASSUME IInv,
                      NEW c \in Closers, hpc[c] \in {"returned", "again"},
                      NEW e \in known, gpc[e] # "gone"
               PROVE  /\ hpc[c] = "again"
                      /\ \E d \in Closers : hpc[d] \in {"close", "wait", "timeout"}
                      /\ gpc[e] \in {"select", "fire"} =>
                           e \in stop \/ Stopping(e) # {}
    BY DEF QuietAfterShutdown
  <2> USE DEF IInv
  <2>1. \A d \in Closers : hpc[d] # "returned"
    BY DEF QuietWhenWaited
  <2>2. hpc[c] = "again" /\ stopped
    BY <2>1 DEF OneTaker
  <2>3. \E d \in Closers : hpc[d] \in {"close", "wait", "timeout"}
    BY <2>1, <2>2 DEF OneTaker, Taken
  <2>4. e \in Entries /\ rpc[e] = "returned" /\ e \notin entries
    BY <2>2 DEF TypeOK, Signalled, ListIsLive
  <2>5. gpc[e] \in {"select", "fire"} => e \in stop \/ Stopping(e) # {}
    BY <2>4 DEF Reachable, Ended
  <2> QED
    BY <2>2, <2>3, <2>5
<1> QED
  BY <1>1, Invariance, PTL

\* Once Shutdown waits, every goroutine that may still fire has been told to
\* stop or is about to be by a Stop, however late its registration started it.
THEOREM StragglersToldAlways ==
  ASSUME IsFiniteSet(Entries)
  PROVE  Spec => []StragglersTold
<1>1. IInv => StragglersTold
  <2> SUFFICES ASSUME IInv,
                      NEW c \in Closers,
                      hpc[c] \in {"wait", "returned", "timeout"},
                      NEW e \in Entries, gpc[e] \in {"select", "fire"}
               PROVE  e \in stop
                      \/ \E x \in Stoppers : tpc[x] = "close" /\ target[x] = e
    BY DEF StragglersTold
  <2> USE DEF IInv
  <2>1. e \notin entries
    BY DEF OneTaker, Taken, ListIsLive
  <2>2. \A d \in Closers : batch[d] = {}
    BY DEF OneTaker, Taken
  <2>3. rpc[e] = "returned"
    BY DEF Fresh
  <2> QED
    BY <2>1, <2>2, <2>3 DEF Reachable, Stopping, Ended
<1> QED
  BY <1>1, Invariance, PTL
=============================================================================
