-------------------------- MODULE ReadyQueueProofs --------------------------
(***************************************************************************)
(* Theorems about ReadyQueue for every number of pushes and workers, every *)
(* capacity and every mix of pushes that drop and pushes that wait: its    *)
(* types, its refinement of BoundedQueue, and that an entry is stranded    *)
(* beside a sleeping worker only when a waiting push took its wake-up.     *)
(***************************************************************************)
EXTENDS ReadyQueue, QueueLemmas

-----------------------------------------------------------------------------
\* Goroutines are of one kind each.
LEMMA Kinds ==
  /\ Closer \in Procs
  /\ \A e \in Entries : e \in Procs /\ e \notin Workers /\ e # Closer
  /\ \A w \in Workers : w \in Procs /\ w \notin Entries /\ w # Closer
BY ReadyQueueAssumption DEF Procs, ReadyQueueAssumption

\* Every sleeper is a push or a worker, and a signal leaves the types alone.
LEMMA SignalTypes ==
  ASSUME TypeOK, NEW g \in Procs, NEW l, Signal(g, l),
         g \in Entries => l \in PushPCs,
         g \in Workers => l \in WorkerPCs,
         g = Closer => l = "done"
  PROVE  TypeOK'
<1>1. Parked \subseteq Entries \cup Workers
  BY Kinds DEF Parked, Procs, TypeOK
<1>2. /\ pc' \in [Procs -> PushPCs \cup WorkerPCs \cup {"done"}]
      /\ token' \in BOOLEAN
      /\ \A e \in Entries : pc'[e] \in PushPCs
      /\ \A w \in Workers : pc'[w] \in WorkerPCs
      /\ pc'[Closer] \in {"idle", "signal", "done"}
  <2>0. l \in PushPCs \cup WorkerPCs \cup {"done"}
    BY Kinds DEF Procs
  <2>1. CASE SignalParked(g, l)
    <3>1. PICK p \in Parked : pc' = [pc EXCEPT ![g] = l, ![p] = "lock"]
      BY <2>1 DEF SignalParked
    <3>2. p \in Entries \cup Workers /\ p # Closer
      BY <1>1, Kinds
    <3> QED BY <2>0, <2>1, <3>1, <3>2, Kinds
            DEF SignalParked, TypeOK, PushPCs, WorkerPCs
  <2>2. CASE SignalBuffer(g, l)
    BY <2>0, <2>2, Kinds DEF SignalBuffer, Goto, TypeOK
  <2> QED BY <2>1, <2>2 DEF Signal
<1> QED BY <1>2 DEF Signal, TypeOK

\* The steps of the select shared by push and pop keep the types.
LEMMA SelectTypes ==
  ASSUME TypeOK, NEW g \in Entries \cup Workers,
         SelectNotify(g) \/ SelectClosed(g) \/ Park(g)
  PROVE  TypeOK'
BY Kinds DEF SelectNotify, SelectClosed, Park, Goto, TypeOK, PushPCs, WorkerPCs

\* Types: the variables of the queue always hold what ready_queue.go declares,
\* and each goroutine is only where its own code can be.
LEMMA TypeInit == Init => TypeOK
<1> SUFFICES ASSUME Init PROVE TypeOK
  OBVIOUS
<1>1. \A g \in Procs : pc[g] = IF g \in Workers THEN "lock" ELSE "idle"
  BY DEF Init
<1>2. pc \in [Procs -> PushPCs \cup WorkerPCs \cup {"done"}]
  BY DEF Init, PushPCs, WorkerPCs
<1>3. items \in Seq(Entries)
  BY EmptySeq DEF Init
<1> QED BY <1>1, <1>2, <1>3, Kinds DEF Init, TypeOK, PushPCs, WorkerPCs

\* Every step of push, pop, remove, close and signal keeps the types.
LEMMA TypeStep == TypeOK /\ [Next]_vars => TypeOK'
<1> SUFFICES ASSUME TypeOK, [Next]_vars PROVE TypeOK'
  OBVIOUS
<1>1. ASSUME NEW e \in Entries,
             PushCall(e) \/ PushStep(e) \/ PushCtx(e) \/ RemoveEntry(e)
      PROVE  TypeOK'
  <2>1. CASE PushCall(e)
    BY <2>1, Kinds DEF PushCall, Goto, TypeOK, PushPCs
  <2>2. CASE PushAppend(e)
    BY <2>2, Kinds, AppendSet DEF PushAppend, Goto, TypeOK, PushPCs
  <2>3. CASE PushFull(e)
    BY <2>3, Kinds DEF PushFull, Goto, TypeOK, PushPCs, Refusals
  <2>4. CASE SelectNotify(e) \/ SelectClosed(e) \/ Park(e)
    BY <2>4, SelectTypes
  <2>5. CASE Signal(e, "accepted")
    BY <2>5, Kinds, SignalTypes DEF PushPCs
  <2>6. CASE PushCtx(e)
    BY <2>6, Kinds DEF PushCtx, Goto, TypeOK, PushPCs, Refusals
  <2>7. CASE RemoveEntry(e)
    <3>1. PICK i \in DOMAIN items : items' = RemoveAt(items, i)
      BY <2>7 DEF RemoveEntry
    <3>2. items' \in Seq(Entries)
      BY <3>1, RemoveAtSet DEF TypeOK
    <3> QED BY <2>7, <3>2 DEF RemoveEntry, TypeOK
  <2> QED BY <1>1, <2>1, <2>2, <2>3, <2>4, <2>5, <2>6, <2>7 DEF PushStep
<1>2. ASSUME NEW w \in Workers, WorkerStep(w)
      PROVE  TypeOK'
  <2>1. CASE PopTake(w)
    <3>1. items' \in Seq(Entries) /\ Head(items) \in Entries
      BY <2>1, TailSet DEF PopTake, TypeOK
    <3> QED BY <2>1, <3>1, Kinds DEF PopTake, Goto, TypeOK, WorkerPCs
  <2>2. CASE PopEmpty(w)
    BY <2>2, Kinds DEF PopEmpty, Goto, TypeOK, WorkerPCs
  <2>3. CASE SelectNotify(w) \/ SelectClosed(w) \/ Park(w)
    BY <2>3, SelectTypes
  <2>4. CASE Signal(w, "busy")
    BY <2>4, Kinds, SignalTypes DEF WorkerPCs
  <2>5. CASE WorkerLoop(w)
    BY <2>5, Kinds DEF WorkerLoop, Goto, TypeOK, WorkerPCs
  <2> QED BY <1>2, <2>1, <2>2, <2>3, <2>4, <2>5 DEF WorkerStep
<1>3. CASE Close
  BY <1>3, Kinds DEF Close, TypeOK, PushPCs, WorkerPCs
<1>4. CASE Signal(Closer, "done")
  BY <1>4, Kinds, SignalTypes
<1>5. CASE UNCHANGED vars
  BY <1>5 DEF vars, TypeOK
<1> QED BY <1>1, <1>2, <1>3, <1>4, <1>5 DEF Next

\* Type correctness of the ready queue and its goroutines.
THEOREM TypeCorrect == Spec => []TypeOK
BY TypeInit, TypeStep, PTL DEF Spec

-----------------------------------------------------------------------------
\* Entries are in one place: one whose push has not appended it yet, or was
\* refused, is not in the queue and was never popped or removed.
Custody ==
  \A e \in Entries :
    pc[e] \in {"idle", "lock", "select", "parked"} \cup Refusals
      => e \notin ToSet(items) \cup popped \cup removed

\* Steps that only move goroutines around, into the queue's waiting places or
\* out of a push that has appended its entry, leave Custody alone.
LEMMA CustodyMove ==
  ASSUME Custody, UNCHANGED <<items, popped, removed>>,
         \A e \in Entries :
           pc'[e] \in {"idle", "lock", "select", "parked"} \cup Refusals
             => pc[e] \in {"idle", "lock", "select", "parked"} \cup Refusals
  PROVE  Custody'
BY DEF Custody

\* What a signal does to the goroutines: the sender goes on, and at most one
\* sleeper becomes able to run.
LEMMA SignalMoves ==
  ASSUME TypeOK, NEW g \in Procs, NEW l, Signal(g, l)
  PROVE  /\ pc[g] = "signal" /\ pc'[g] = l
         /\ \A h \in Procs \ {g} :
              pc'[h] = pc[h] \/ (pc[h] = "parked" /\ pc'[h] = "lock")
         /\ UNCHANGED <<items, closed, popped, removed>>
<1>1. CASE SignalParked(g, l)
  <2>1. PICK p \in Parked : pc' = [pc EXCEPT ![g] = l, ![p] = "lock"]
    BY <1>1 DEF SignalParked
  <2>2. p \in Procs /\ pc[p] = "parked" /\ p # g
    BY <2>1 DEF Parked, Signal
  <2> QED BY <2>1, <2>2 DEF Signal, TypeOK
<1>2. CASE SignalBuffer(g, l)
  BY <1>2 DEF SignalBuffer, Signal, Goto, TypeOK
<1> QED BY <1>1, <1>2 DEF Signal

\* Nothing has been pushed yet.
LEMMA CustodyInit == Init => Custody
BY Kinds DEF Init, Custody, ToSet

\* Custody is inductive: only push moves an entry from its call to the queue,
\* and only once.
LEMMA CustodyStep == TypeOK /\ Custody /\ [Next]_vars => Custody'
<1> SUFFICES ASSUME TypeOK, Custody, [Next]_vars PROVE Custody'
  OBVIOUS
<1>1. ASSUME NEW e \in Entries,
             PushCall(e) \/ PushStep(e) \/ PushCtx(e) \/ RemoveEntry(e)
      PROVE  Custody'
  <2>1. CASE PushCall(e)
    BY <2>1, CustodyMove, Kinds DEF PushCall, Goto, TypeOK
  <2>2. CASE PushAppend(e)
    <3>1. ToSet(items') = ToSet(items) \cup {e}
      BY <2>2, AppendSet DEF PushAppend, TypeOK
    <3>2. pc'[e] = "signal" /\ \A f \in Entries \ {e} : pc'[f] = pc[f]
      BY <2>2, Kinds DEF PushAppend, Goto, TypeOK
    <3> QED BY <2>2, <3>1, <3>2 DEF PushAppend, Custody, Refusals
  <2>3. CASE PushFull(e)
    BY <2>3, CustodyMove, Kinds DEF PushFull, Goto, TypeOK
  <2>4. CASE SelectNotify(e) \/ SelectClosed(e) \/ Park(e)
    BY <2>4, CustodyMove, Kinds
       DEF SelectNotify, SelectClosed, Park, Goto, TypeOK
  <2>5. CASE Signal(e, "accepted")
    BY <2>5, SignalMoves, CustodyMove, Kinds DEF Refusals
  <2>6. CASE PushCtx(e)
    BY <2>6, CustodyMove, Kinds DEF PushCtx, Goto, TypeOK
  <2>7. CASE RemoveEntry(e)
    <3>1. PICK i \in DOMAIN items : items[i] = e /\ items' = RemoveAt(items, i)
      BY <2>7 DEF RemoveEntry
    <3>2. e \in ToSet(items) /\ ToSet(items') \subseteq ToSet(items)
      BY <3>1, RemoveAtSet DEF TypeOK
    <3> QED BY <2>7, <3>2 DEF RemoveEntry, Custody
  <2> QED BY <1>1, <2>1, <2>2, <2>3, <2>4, <2>5, <2>6, <2>7 DEF PushStep
<1>2. ASSUME NEW w \in Workers, WorkerStep(w)
      PROVE  Custody'
  <2>1. CASE PopTake(w)
    <3>1. Head(items) \in ToSet(items) /\ ToSet(items') \subseteq ToSet(items)
      BY <2>1, TailSet DEF PopTake, TypeOK
    <3>2. \A e \in Entries : pc'[e] = pc[e]
      BY <2>1, Kinds DEF PopTake, Goto, TypeOK
    <3> QED BY <2>1, <3>1, <3>2 DEF PopTake, Custody
  <2>2. CASE PopEmpty(w)
    BY <2>2, CustodyMove, Kinds DEF PopEmpty, Goto, TypeOK
  <2>3. CASE SelectNotify(w) \/ SelectClosed(w) \/ Park(w)
    BY <2>3, CustodyMove, Kinds
       DEF SelectNotify, SelectClosed, Park, Goto, TypeOK
  <2>4. CASE Signal(w, "busy")
    BY <2>4, SignalMoves, CustodyMove, Kinds
  <2>5. CASE WorkerLoop(w)
    BY <2>5, CustodyMove, Kinds DEF WorkerLoop, Goto, TypeOK
  <2> QED BY <1>2, <2>1, <2>2, <2>3, <2>4, <2>5 DEF WorkerStep
<1>3. CASE Close
  <2>1. \A e \in Entries : pc'[e] = pc[e] \/ pc[e] = "parked"
    BY <1>3, Kinds DEF Close
  <2> QED BY <1>3, <2>1, CustodyMove DEF Close
<1>4. CASE Signal(Closer, "done")
  BY <1>4, SignalMoves, CustodyMove, Kinds
<1>5. CASE UNCHANGED vars
  BY <1>5 DEF vars, Custody
<1> QED BY <1>1, <1>2, <1>3, <1>4, <1>5 DEF Next

-----------------------------------------------------------------------------
\* The refinement of BoundedQueue.
LEMMA QueueInit == Init => Queue!Init
BY Kinds DEF Init, Queue!Init, Refusals

\* Steps that change neither the queue nor who was refused are stutters.
LEMMA QueueStutter ==
  ASSUME UNCHANGED <<items, closed, popped, removed>>,
         \A e \in Entries : pc[e] \in Refusals <=> pc'[e] \in Refusals
  PROVE  UNCHANGED Queue!vars
BY DEF Queue!vars

\* Where an entry is in the custody of its own push, the abstract queue has
\* not seen it.
LEMMA Unseen ==
  ASSUME Custody, NEW e \in Entries, pc[e] \in {"lock", "select", "parked"}
  PROVE  e \notin Queue!Seen
<1>1. e \notin ToSet(items) \cup popped \cup removed
  BY DEF Custody
<1>2. e \notin {f \in Entries : pc[f] \in Refusals}
  BY DEF Refusals
<1> QED BY <1>1, <1>2 DEF Queue!Seen, ToSet, Queue!ToSet

\* Each step of the goroutines is a step of BoundedQueue or a stutter.
LEMMA QueueStep == TypeOK /\ Custody /\ [Next]_vars => [Queue!Next]_(Queue!vars)
<1> SUFFICES ASSUME TypeOK, Custody, [Next]_vars
             PROVE  Queue!Next \/ UNCHANGED Queue!vars
  OBVIOUS
<1>1. ASSUME NEW e \in Entries,
             PushCall(e) \/ PushStep(e) \/ PushCtx(e) \/ RemoveEntry(e)
      PROVE  Queue!Next \/ UNCHANGED Queue!vars
  <2>1. CASE PushCall(e)
    BY <2>1, QueueStutter, Kinds DEF PushCall, Goto, TypeOK, Refusals
  <2>2. CASE PushAppend(e)
    <3>1. e \notin Queue!Seen
      BY <2>2, Unseen DEF PushAppend
    <3>2. \A f \in Entries : pc[f] \in Refusals <=> pc'[f] \in Refusals
      BY <2>2, Kinds DEF PushAppend, Goto, TypeOK, Refusals
    <3>3. Queue!Push(e)
      BY <2>2, <3>1, <3>2 DEF PushAppend, Queue!Push
    <3> QED BY <3>3 DEF Queue!Next
  <2>3. CASE PushFull(e)
    <3>1. CASE pc'[e] = "select"
      BY <2>3, <3>1, QueueStutter, Kinds DEF PushFull, Goto, TypeOK, Refusals
    <3>2. CASE pc'[e] # "select"
      <4>1. e \notin Queue!Seen /\ Len(items) >= Cap
        BY <2>3, Unseen DEF PushFull
      <4>2. pc'[e] \in Refusals /\ \A f \in Entries \ {e} : pc'[f] = pc[f]
        BY <2>3, <3>2, Kinds DEF PushFull, Goto, TypeOK, Refusals
      <4>3. Queue!Refuse(e)
        BY <2>3, <4>1, <4>2 DEF PushFull, Queue!Refuse
      <4> QED BY <4>3 DEF Queue!Next
    <3> QED BY <3>1, <3>2
  <2>4. CASE SelectNotify(e) \/ SelectClosed(e) \/ Park(e)
    BY <2>4, QueueStutter, Kinds
       DEF SelectNotify, SelectClosed, Park, Goto, TypeOK, Refusals
  <2>5. CASE Signal(e, "accepted")
    BY <2>5, SignalMoves, QueueStutter, Kinds DEF Refusals
  <2>6. CASE PushCtx(e)
    <3>1. e \notin Queue!Seen /\ e \in Cancellable
      BY <2>6, Unseen DEF PushCtx
    <3>2. pc'[e] \in Refusals /\ \A f \in Entries \ {e} : pc'[f] = pc[f]
      BY <2>6, Kinds DEF PushCtx, Goto, TypeOK, Refusals
    <3>3. Queue!Refuse(e)
      BY <2>6, <3>1, <3>2 DEF PushCtx, Queue!Refuse
    <3> QED BY <3>3 DEF Queue!Next
  <2>7. CASE RemoveEntry(e)
    <3>0. {f \in Entries : pc'[f] \in Refusals} = {f \in Entries : pc[f] \in Refusals}
      BY <2>7 DEF RemoveEntry
    <3>1. Queue!RemoveEntry(e)
      BY <2>7, <3>0
         DEF RemoveEntry, Queue!RemoveEntry, RemoveAt, Queue!RemoveAt
    <3> QED BY <3>1 DEF Queue!Next
  <2> QED BY <1>1, <2>1, <2>2, <2>3, <2>4, <2>5, <2>6, <2>7 DEF PushStep
<1>2. ASSUME NEW w \in Workers, WorkerStep(w)
      PROVE  Queue!Next \/ UNCHANGED Queue!vars
  <2>1. CASE PopTake(w)
    <3>1. \A e \in Entries : pc'[e] = pc[e]
      BY <2>1, Kinds DEF PopTake, Goto, TypeOK
    <3>2. Queue!Pop
      BY <2>1, <3>1 DEF PopTake, Queue!Pop
    <3> QED BY <3>2 DEF Queue!Next
  <2>2. CASE PopEmpty(w)
    BY <2>2, QueueStutter, Kinds DEF PopEmpty, Goto, TypeOK
  <2>3. CASE SelectNotify(w) \/ SelectClosed(w) \/ Park(w)
    BY <2>3, QueueStutter, Kinds
       DEF SelectNotify, SelectClosed, Park, Goto, TypeOK
  <2>4. CASE Signal(w, "busy")
    BY <2>4, SignalMoves, QueueStutter, Kinds DEF Refusals
  <2>5. CASE WorkerLoop(w)
    BY <2>5, QueueStutter, Kinds DEF WorkerLoop, Goto, TypeOK
  <2> QED BY <1>2, <2>1, <2>2, <2>3, <2>4, <2>5 DEF WorkerStep
<1>3. CASE Close
  <2>1. \A e \in Entries : pc[e] \in Refusals <=> pc'[e] \in Refusals
    BY <1>3, Kinds DEF Close, Refusals
  <2>2. Queue!Close
    BY <1>3, <2>1 DEF Close, Queue!Close
  <2> QED BY <2>2 DEF Queue!Next
<1>4. CASE Signal(Closer, "done")
  BY <1>4, SignalMoves, QueueStutter, Kinds DEF Refusals
<1>5. CASE UNCHANGED vars
  BY <1>5, QueueStutter DEF vars
<1> QED BY <1>1, <1>2, <1>3, <1>4, <1>5 DEF Next

\* The queue implements BoundedQueue, for any number of goroutines.
THEOREM QueueCorrect == Spec => ImplementsBoundedQueue
<1>1. Init => TypeOK /\ Custody
  BY TypeInit, CustodyInit
<1>2. TypeOK /\ Custody /\ [Next]_vars => (TypeOK /\ Custody)'
  BY TypeStep, CustodyStep
<1>3. Spec => [](TypeOK /\ Custody)
  BY <1>1, <1>2, PTL DEF Spec
<1> QED
  BY <1>3, QueueInit, QueueStep, PTL DEF Spec, ImplementsBoundedQueue, Queue!Spec

-----------------------------------------------------------------------------
\* Beside the property: the queue is within its capacity, and a push that drops
\* never waits, so it cannot take a wake-up.
WakeInv ==
  /\ StrandedOnlyByPush
  /\ Len(items) <= Cap
  /\ \A e \in Dropping : pc[e] \notin {"select", "parked", "ctx"}

\* A step after which a wake-up is on its way, the queue is empty or it is
\* closed, strands nobody.
LEMMA WakeFromComing ==
  ASSUME WakeUpComing' \/ items' = <<>> \/ closed',
         Len(items') <= Cap,
         \A e \in Dropping : pc'[e] \notin {"select", "parked", "ctx"},
         token' => Parked' = {}
  PROVE  WakeInv'
BY DEF WakeInv, StrandedOnlyByPush, Stranded

\* A step that leaves the queue alone and strands nobody anew keeps WakeInv, as
\* long as the pushes that waited are still counted as such.
LEMMA WakeFromSame ==
  ASSUME WakeInv, UNCHANGED <<items, removed>>,
         \A e \in Dropping : pc'[e] \notin {"select", "parked", "ctx"},
         token' => Parked' = {},
         Stranded' => Stranded,
         Waited \subseteq Waited'
  PROVE  WakeInv'
BY DEF WakeInv, StrandedOnlyByPush

\* No push waits and nothing is queued at first.
LEMMA WakeInit == Init => WakeInv
BY Kinds, ReadyQueueAssumption, EmptySeq
   DEF Init, WakeInv, StrandedOnlyByPush, Stranded, Parked, ReadyQueueAssumption

\* A signal always leaves a wake-up: the token, or somebody about to look.
LEMMA WakeSignal ==
  ASSUME TypeOK, WakeInv, NEW g \in Procs, NEW l \in {"accepted", "busy", "done"},
         Signal(g, l)
  PROVE  WakeInv'
<1>1. /\ Len(items') <= Cap
      /\ \A e \in Dropping : pc'[e] \notin {"select", "parked", "ctx"}
  BY SignalMoves, Kinds, ReadyQueueAssumption DEF WakeInv, ReadyQueueAssumption
<1>2. CASE SignalParked(g, l)
  <2>1. PICK p \in Parked : pc' = [pc EXCEPT ![g] = l, ![p] = "lock"]
    BY <1>2 DEF SignalParked
  <2>2. p \in Procs \ Dropping /\ pc'[p] = "lock"
    BY <2>1 DEF Parked, WakeInv, TypeOK
  <2>3. ~token'
    BY <1>2, <2>1 DEF SignalParked, WakeInv, StrandedOnlyByPush
  <2> QED BY <1>1, <2>2, <2>3, WakeFromComing DEF WakeUpComing
<1>3. CASE SignalBuffer(g, l)
  <2>1. Parked' = {}
    BY <1>3, SignalMoves DEF SignalBuffer, Parked
  <2> QED BY <1>1, <1>3, <2>1, WakeFromComing DEF SignalBuffer, WakeUpComing
<1> QED BY <1>2, <1>3 DEF Signal

\* The steps of the select, by a worker or by a push that may wait.
LEMMA WakeSelect ==
  ASSUME TypeOK, WakeInv, NEW g \in Procs,
         SelectNotify(g) \/ SelectClosed(g) \/ Park(g)
  PROVE  WakeInv'
<1>1. /\ UNCHANGED <<items, closed, removed>>
      /\ pc[g] = "select"
      /\ pc'[g] \in {"lock", "parked"}
      /\ \A h \in Procs \ {g} : pc'[h] = pc[h]
  BY DEF SelectNotify, SelectClosed, Park, Goto, TypeOK
<1>2. g \notin Dropping
  BY <1>1 DEF WakeInv
<1>3. \A e \in Dropping : pc'[e] \notin {"select", "parked", "ctx"}
  BY <1>1, <1>2, Kinds, ReadyQueueAssumption DEF WakeInv, ReadyQueueAssumption
<1>4. CASE SelectNotify(g) \/ SelectClosed(g)
  <2>1. pc'[g] = "lock" /\ (token' => token)
    BY <1>4 DEF SelectNotify, SelectClosed, Goto, TypeOK
  <2>2. Parked' \subseteq Parked
    BY <1>1, <2>1 DEF Parked
  <2> QED BY <1>1, <1>2, <1>3, <2>1, <2>2, WakeFromComing
          DEF WakeUpComing, WakeInv, StrandedOnlyByPush
<1>5. CASE Park(g)
  <2>1. pc'[g] = "parked" /\ ~token /\ ~token'
    BY <1>5 DEF Park, Goto, TypeOK
  <2>2. \A h \in Procs : Waiting(h)' <=> Waiting(h)
    BY <1>1, <2>1 DEF Waiting
  <2>3. WakeUpComing => WakeUpComing'
    BY <1>1, <2>1 DEF WakeUpComing
  <2>4. Stranded' => Stranded
    BY <1>1, <2>2, <2>3, Kinds DEF Stranded
  <2>5. Waited \subseteq Waited'
    BY <1>1, <2>1, <2>2, Kinds DEF Waited
  <2> QED BY <1>1, <1>3, <2>1, <2>4, <2>5, WakeFromSame
<1> QED BY <1>4, <1>5

\* WakeInv is inductive, whatever mix of pushes drop or wait.
LEMMA WakeStep == TypeOK /\ WakeInv /\ [Next]_vars => WakeInv'
<1> SUFFICES ASSUME TypeOK, WakeInv, [Next]_vars PROVE WakeInv'
  OBVIOUS
<1> USE ReadyQueueAssumption DEF ReadyQueueAssumption
<1>1. ASSUME NEW e \in Entries,
             PushCall(e) \/ PushStep(e) \/ PushCtx(e) \/ RemoveEntry(e)
      PROVE  WakeInv'
  <2>1. CASE PushCall(e) \/ PushCtx(e) \/ PushFull(e)
    <3>1. /\ UNCHANGED <<items, token, removed, closed>>
          /\ pc[e] \in {"idle", "lock", "select", "parked"}
          /\ pc'[e] \in {"lock", "select"} \cup Refusals
          /\ Waiting(e) => pc'[e] = "ctx"
          /\ \A h \in Procs \ {e} : pc'[h] = pc[h]
      BY <2>1, Kinds DEF PushCall, PushCtx, PushFull, Goto, TypeOK, Waiting, Refusals
    <3>2. e \in Dropping => pc'[e] \notin {"select", "parked", "ctx"}
      BY <2>1, Kinds DEF PushCall, PushCtx, PushFull, Goto, TypeOK, WakeInv
    <3>3. \A f \in Dropping : pc'[f] \notin {"select", "parked", "ctx"}
      BY <3>1, <3>2, Kinds DEF WakeInv
    <3>4. token' => Parked' = {}
      BY <3>1 DEF WakeInv, StrandedOnlyByPush, Parked, Refusals
    <3>5. CASE PushCall(e) \/ PushCtx(e)
      <4>1. WakeUpComing => WakeUpComing'
        BY <3>1, <3>5 DEF WakeUpComing, PushCall, PushCtx
      <4>2. Stranded' => Stranded
        BY <3>1, <4>1, Kinds DEF Stranded, Waiting
      <4>3. Waited \subseteq Waited'
        BY <3>1, <3>5, Kinds DEF Waited, Waiting, PushCall, PushCtx
      <4> QED BY <3>1, <3>3, <3>4, <4>2, <4>3, WakeFromSame
    <3>6. CASE PushFull(e) /\ (e \in Dropping \/ closed)
      <4>1. CASE closed
        BY <3>1, <3>3, <3>4, <4>1, WakeFromComing DEF WakeInv
      <4>2. CASE e \in Dropping
        <5>1. WakeUpComing => WakeUpComing'
          BY <3>1, <3>6, <4>2, Kinds DEF WakeUpComing, PushFull
        <5>2. Stranded' => Stranded
          BY <3>1, <5>1, Kinds DEF Stranded, Waiting
        <5>3. Waited \subseteq Waited'
          BY <3>1, <4>2, Kinds DEF Waited, Waiting
        <5> QED BY <3>1, <3>3, <3>4, <5>2, <5>3, WakeFromSame
      <4> QED BY <3>6, <4>1, <4>2
    <3>7. CASE PushFull(e) /\ e \notin Dropping /\ ~closed
      <4>1. Waiting(e)' /\ Len(items) >= Cap
        BY <3>7, Kinds DEF PushFull, Goto, TypeOK, Waiting
      <4>2. e \in Waited'
        BY <3>7, <4>1 DEF Waited
      <4>3. Len(items') = Cap
        BY <3>1, <4>1 DEF WakeInv, TypeOK
      <4> QED BY <3>1, <3>3, <3>4, <4>2, <4>3 DEF WakeInv, StrandedOnlyByPush
    <3> QED BY <2>1, <3>5, <3>6, <3>7
  <2>2. CASE PushAppend(e)
    <3>1. /\ pc'[e] = "signal"
          /\ \A g \in Procs \ {e} : pc'[g] = pc[g]
          /\ UNCHANGED token
      BY <2>2, Kinds DEF PushAppend, Goto, TypeOK
    <3>2. Parked' \subseteq Parked
      BY <3>1 DEF Parked
    <3>3. \A f \in Dropping : pc'[f] \notin {"select", "parked", "ctx"}
      BY <3>1, Kinds DEF WakeInv
    <3>4. Len(items') <= Cap
      BY <2>2 DEF PushAppend, TypeOK
    <3> QED BY <3>1, <3>2, <3>3, <3>4, Kinds, WakeFromComing
            DEF WakeUpComing, WakeInv, StrandedOnlyByPush
  <2>3. CASE SelectNotify(e) \/ SelectClosed(e) \/ Park(e)
    BY <2>3, Kinds, WakeSelect
  <2>4. CASE Signal(e, "accepted")
    BY <2>4, Kinds, WakeSignal
  <2>5. CASE RemoveEntry(e)
    <3>1. items # <<>> /\ UNCHANGED <<pc, token, closed>> /\ removed' # {}
      BY <2>5 DEF RemoveEntry
    <3>2. Len(items') <= Cap
      <4>1. PICK i \in DOMAIN items : items' = RemoveAt(items, i)
        BY <2>5 DEF RemoveEntry
      <4>2. items' \in Seq(Entries) /\ DOMAIN items' = 1 .. Len(items) - 1
        BY <4>1, RemoveAtPlaces DEF TypeOK
      <4>3. /\ DOMAIN items' = 1 .. Len(items') /\ Len(items') \in Nat
            /\ Len(items) \in Nat
        BY <4>2, LenProperties DEF TypeOK
      <4>4. Len(items') <= Len(items)
        BY <4>2, <4>3, SMT
      <4> QED BY <4>3, <4>4 DEF WakeInv
    <3>3. Stranded' => Stranded
      BY <3>1 DEF Stranded, WakeUpComing, Waiting
    <3>4. Waited' = Waited /\ Parked' = Parked
      BY <3>1 DEF Waited, Waiting, Parked
    <3> QED BY <3>1, <3>2, <3>3, <3>4 DEF WakeInv, StrandedOnlyByPush
  <2> QED BY <1>1, <2>1, <2>2, <2>3, <2>4, <2>5 DEF PushStep
<1>2. ASSUME NEW w \in Workers, WorkerStep(w)
      PROVE  WakeInv'
  <2>1. CASE PopTake(w) \/ WorkerLoop(w) \/ PopEmpty(w)
    <3>1. /\ pc'[w] # "parked"
          /\ \A g \in Procs \ {w} : pc'[g] = pc[g]
          /\ UNCHANGED token
          /\ pc'[w] \in {"signal", "lock"} \/ items' = <<>>
      BY <2>1, Kinds DEF PopTake, WorkerLoop, PopEmpty, Goto, TypeOK
    <3>2. Parked' \subseteq Parked
      BY <3>1 DEF Parked
    <3>3. \A f \in Dropping : pc'[f] \notin {"select", "parked", "ctx"}
      BY <3>1, Kinds DEF WakeInv
    <3>4. Len(items') <= Cap
      BY <2>1 DEF PopTake, WorkerLoop, PopEmpty, WakeInv, TypeOK
    <3>5. WakeUpComing' \/ items' = <<>>
      BY <3>1, Kinds DEF WakeUpComing
    <3> QED BY <3>1, <3>2, <3>3, <3>4, <3>5, WakeFromComing
            DEF WakeInv, StrandedOnlyByPush
  <2>2. CASE SelectNotify(w) \/ SelectClosed(w) \/ Park(w)
    BY <2>2, Kinds, WakeSelect
  <2>3. CASE Signal(w, "busy")
    BY <2>3, Kinds, WakeSignal
  <2> QED BY <1>2, <2>1, <2>2, <2>3 DEF WorkerStep
<1>3. CASE Close
  <2>1. /\ closed'
        /\ Parked' = {}
        /\ items' = items
        /\ \A e \in Dropping : pc'[e] \notin {"select", "parked", "ctx"}
    BY <1>3, Kinds DEF Close, Parked, WakeInv
  <2> QED BY <2>1, WakeFromComing DEF WakeInv
<1>4. CASE Signal(Closer, "done")
  BY <1>4, Kinds, WakeSignal
<1>5. CASE UNCHANGED vars
  BY <1>5 DEF vars, WakeInv, StrandedOnlyByPush, Stranded, WakeUpComing,
              Waited, Waiting, Parked
<1> QED BY <1>1, <1>2, <1>3, <1>4, <1>5 DEF Next

\* With any mix of pushes that drop and pushes that wait, an entry is stranded
\* beside a sleeping worker only in a queue that is full, or that remove has
\* made room in, and only by a push that waits or has waited.
THEOREM StrandedOnlyByPushAlways == Spec => []StrandedOnlyByPush
<1>1. Init => TypeOK /\ WakeInv
  BY TypeInit, WakeInit
<1>2. TypeOK /\ WakeInv /\ [Next]_vars => (TypeOK /\ WakeInv)'
  BY TypeStep, WakeStep
<1>3. WakeInv => StrandedOnlyByPush
  BY DEF WakeInv
<1> QED BY <1>1, <1>2, <1>3, PTL DEF Spec
=============================================================================
