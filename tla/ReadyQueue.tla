----------------------------- MODULE ReadyQueue -----------------------------
(***************************************************************************)
(* The ready queue of internal/core/ready_queue.go with the goroutines     *)
(* that use it: one per push call, the worker pool in pop, and the one     *)
(* that closes the queue.  A step is one critical section of q.mu, one     *)
(* channel operation, or one call; everything in between may interleave.   *)
(*                                                                         *)
(* notify is a channel of capacity 1 shared by every waiter, pushers and   *)
(* workers alike.  A send finds either a goroutine parked in its select    *)
(* (and is handed to it) or the empty buffer (and is kept as the token) or *)
(* a full buffer (and is dropped).  The order in which the runtime picks   *)
(* among parked goroutines is left open.                                   *)
(***************************************************************************)
EXTENDS Naturals, SequencesExt

CONSTANTS Entries,       \* one push call (a goroutine) per entry
          Workers,       \* goroutines running Dispatcher.worker
          Closer,        \* the goroutine that runs Shutdown
          Cap,           \* queueSize
          Dropping,      \* entries pushed with drop = true
          Cancellable,   \* entries whose push has a ctx that may end
          Removable      \* entries whose id may be passed to remove

ASSUME ReadyQueueAssumption ==
  /\ Cap \in Nat \ {0}
  /\ Dropping \subseteq Entries
  /\ Cancellable \subseteq Entries
  /\ Removable \subseteq Entries
  /\ Entries \cap Workers = {}
  /\ Closer \notin Entries \cup Workers

VARIABLES
  items,     \* q.items
  closed,    \* q.closed, and closedCh being closed
  token,     \* the one-place buffer of q.notify holds a value
  pc,        \* where each goroutine is; a push ends in its result
  popped,    \* entries pop has returned (history)
  removed    \* entries remove has taken out (history)

vars == <<items, closed, token, pc, popped, removed>>

Procs == Entries \cup Workers \cup {Closer}

Refusals == {"full", "shutdown", "ctx"}

\* Goroutines asleep in a select on notify and closedCh.
Parked == {g \in Procs : pc[g] = "parked"}

Init ==
  /\ items = <<>>
  /\ closed = FALSE
  /\ token = FALSE
  /\ pc = [g \in Procs |-> IF g \in Workers THEN "lock" ELSE "idle"]
  /\ popped = {}
  /\ removed = {}

Goto(g, l) == pc' = [pc EXCEPT ![g] = l]

-----------------------------------------------------------------------------
\* signal(): a non-blocking send on notify, then on to label l.
SignalParked(g, l) ==
  /\ \E p \in Parked : pc' = [pc EXCEPT ![g] = l, ![p] = "lock"]
  /\ UNCHANGED token

SignalBuffer(g, l) ==
  /\ Parked = {}
  /\ token' = TRUE
  /\ Goto(g, l)

Signal(g, l) ==
  /\ pc[g] = "signal"
  /\ SignalParked(g, l) \/ SignalBuffer(g, l)
  /\ UNCHANGED <<items, closed, popped, removed>>

\* The select shared by push and pop: take the token, see the queue closed,
\* or go to sleep when neither is possible.
SelectNotify(g) ==
  /\ pc[g] = "select"
  /\ token
  /\ token' = FALSE
  /\ Goto(g, "lock")
  /\ UNCHANGED <<items, closed, popped, removed>>

SelectClosed(g) ==
  /\ pc[g] = "select"
  /\ closed
  /\ Goto(g, "lock")
  /\ UNCHANGED <<items, closed, token, popped, removed>>

Park(g) ==
  /\ pc[g] = "select"
  /\ ~token
  /\ ~closed
  /\ Goto(g, "parked")
  /\ UNCHANGED <<items, closed, token, popped, removed>>

-----------------------------------------------------------------------------
\* Mutations: wrong versions of the actions below, one plausible bug each,
\* that the properties at the end of the module must tell from the code.
PushAppendNoSignal(e) ==         \* push forgets q.signal()
  /\ pc[e] = "lock"
  /\ Len(items) < Cap
  /\ items' = Append(items, e)
  /\ Goto(e, "accepted")
  /\ UNCHANGED <<closed, token, popped, removed>>

PushAppendOverfull(e) ==         \* <= for <
  /\ pc[e] = "lock"
  /\ Len(items) <= Cap
  /\ items' = Append(items, e)
  /\ Goto(e, "signal")
  /\ UNCHANGED <<closed, token, popped, removed>>

PushFullAsPop(e) ==              \* the closed branch of pop in push
  /\ pc[e] = "lock"
  /\ Len(items) >= Cap
  /\ Goto(e, IF closed THEN "exited" ELSE "select")
  /\ UNCHANGED <<items, closed, token, popped, removed>>

PopTakeNoSignal(w) ==            \* pop forgets q.signal()
  /\ pc[w] = "lock"
  /\ items # <<>>
  /\ popped' = popped \cup {Head(items)}
  /\ items' = Tail(items)
  /\ Goto(w, "busy")
  /\ UNCHANGED <<closed, token, removed>>

PopEmptyClosedFirst(w) ==        \* closed tested before the length
  /\ pc[w] = "lock"
  /\ items = <<>> \/ closed
  /\ Goto(w, IF closed THEN "exited" ELSE "select")
  /\ UNCHANGED <<items, closed, token, popped, removed>>

CloseOneWakeup ==                \* signal() only, closedCh left open
  /\ pc[Closer] = "idle"
  /\ closed' = TRUE
  /\ Goto(Closer, "signal")
  /\ UNCHANGED <<items, token, popped, removed>>

-----------------------------------------------------------------------------
\* push(ctx, entry, drop)
PushCall(e) ==
  /\ pc[e] = "idle"
  /\ Goto(e, "lock")
  /\ UNCHANGED <<items, closed, token, popped, removed>>

PushAppend(e) ==
  /\ pc[e] = "lock"
  /\ Len(items) < Cap
  /\ items' = Append(items, e)
  /\ Goto(e, "signal")
  /\ UNCHANGED <<closed, token, popped, removed>>

PushFull(e) ==
  /\ pc[e] = "lock"
  /\ Len(items) >= Cap
  /\ \/ e \in Dropping /\ Goto(e, "full")
     \/ e \notin Dropping /\ closed /\ Goto(e, "shutdown")
     \/ e \notin Dropping /\ ~closed /\ Goto(e, "select")
  /\ UNCHANGED <<items, closed, token, popped, removed>>

\* ctx.Done() fires while the push is in its select, asleep or not.
PushCtx(e) ==
  /\ e \in Cancellable
  /\ pc[e] \in {"select", "parked"}
  /\ Goto(e, "ctx")
  /\ UNCHANGED <<items, closed, token, popped, removed>>

\* What the Go scheduler runs for a push that has been called.
PushStep(e) ==
  \/ PushAppend(e)
  \/ PushFull(e)
  \/ SelectNotify(e)
  \/ SelectClosed(e)
  \/ Park(e)
  \/ Signal(e, "accepted")

-----------------------------------------------------------------------------
\* pop(), called in a loop by each worker; "busy" is runEntry.
PopTake(w) ==
  /\ pc[w] = "lock"
  /\ items # <<>>
  /\ popped' = popped \cup {Head(items)}
  /\ items' = Tail(items)
  /\ Goto(w, "signal")
  /\ UNCHANGED <<closed, token, removed>>

PopEmpty(w) ==
  /\ pc[w] = "lock"
  /\ items = <<>>
  /\ Goto(w, IF closed THEN "exited" ELSE "select")
  /\ UNCHANGED <<items, closed, token, popped, removed>>

WorkerLoop(w) ==
  /\ pc[w] = "busy"
  /\ Goto(w, "lock")
  /\ UNCHANGED <<items, closed, token, popped, removed>>

WorkerStep(w) ==
  \/ PopTake(w)
  \/ PopEmpty(w)
  \/ SelectNotify(w)
  \/ SelectClosed(w)
  \/ Park(w)
  \/ Signal(w, "busy")
  \/ WorkerLoop(w)

-----------------------------------------------------------------------------
\* remove(id): one critical section, and no signal.
RemoveEntry(e) ==
  /\ e \in Removable
  /\ \E i \in DOMAIN items : items[i] = e /\ items' = RemoveAt(items, i)
  /\ removed' = removed \cup {e}
  /\ UNCHANGED <<closed, token, pc, popped>>

\* close(): closing closedCh wakes every sleeper; then one signal.
Close ==
  /\ pc[Closer] = "idle"
  /\ closed' = TRUE
  /\ pc' = [g \in Procs |-> IF g = Closer THEN "signal"
                            ELSE IF pc[g] = "parked" THEN "lock"
                            ELSE pc[g]]
  /\ UNCHANGED <<items, token, popped, removed>>

-----------------------------------------------------------------------------
Next ==
  \/ \E e \in Entries : PushCall(e) \/ PushStep(e) \/ PushCtx(e) \/ RemoveEntry(e)
  \/ \E w \in Workers : WorkerStep(w)
  \/ Close
  \/ Signal(Closer, "done")

\* The Go scheduler runs every goroutine that can run, and handlers return
\* (WorkerLoop).  Nothing obliges a client to push, cancel or shut down.
Fairness ==
  /\ \A e \in Entries : WF_vars(PushStep(e))
  /\ \A w \in Workers : WF_vars(WorkerStep(w))
  /\ WF_vars(Signal(Closer, "done"))

Spec == Init /\ [][Next]_vars /\ Fairness

-----------------------------------------------------------------------------
\* Every variable has its type, and each kind of goroutine only ever is
\* where its own code can be.
PushPCs == {"idle", "lock", "signal", "select", "parked", "accepted"} \cup Refusals
WorkerPCs == {"lock", "signal", "select", "parked", "busy", "exited"}

TypeOK ==
  /\ items \in Seq(Entries)
  /\ closed \in BOOLEAN
  /\ token \in BOOLEAN
  /\ pc \in [Procs -> PushPCs \cup WorkerPCs \cup {"done"}]
  /\ \A e \in Entries : pc[e] \in PushPCs
  /\ \A w \in Workers : pc[w] \in WorkerPCs
  /\ pc[Closer] \in {"idle", "signal", "done"}
  /\ popped \subseteq Entries
  /\ removed \subseteq Entries

\* The queue with its goroutines does what BoundedQueue promises: FIFO,
\* never more than Cap entries, each entry in one place, and a push refused
\* only for lack of space or because its ctx ended.
Queue == INSTANCE BoundedQueue
           WITH refused <- {e \in Entries : pc[e] \in Refusals}

ImplementsBoundedQueue == Queue!Spec

\* Pushes and workers wait on the same one-place channel, so a wake-up may reach
\* a push that can do nothing with it.  That is possible under QueueFullDrop
\* too, where the delay loop (dispatcher.go:464) and Restore (218) push with
\* drop = false beside submissions that drop.
Waiting(g) == pc[g] \in {"select", "parked"}

\* A wake-up is kept as the token, about to be sent, or held by a goroutine
\* that will look at the queue again.
WakeUpComing ==
  \/ token
  \/ \E g \in Procs : pc[g] = "signal"
  \/ \E g \in Procs \ Dropping : pc[g] = "lock"

\* An entry is queued beside a worker that waits, and nothing will wake it.
Stranded ==
  /\ ~closed
  /\ items # <<>>
  /\ \E w \in Workers : Waiting(w)
  /\ ~WakeUpComing

\* Pushes that wait, or that gave up waiting when their ctx ended.
Waited == {e \in Entries \ Dropping : Waiting(e) \/ pc[e] = "ctx"}

\* A wake-up is lost in one way only: to a push that waits on a full queue.  An
\* entry is never stranded unless such a push waits, or waited until its ctx
\* ended; the queue is then still full, unless remove, which signals nobody,
\* has made room.  A kept token never coexists with a sleeper it should wake.
StrandedOnlyByPush ==
  /\ token => Parked = {}
  /\ Stranded => /\ Waited # {}
                 /\ removed = {} => Len(items) = Cap

\* Seen over time: an entry that stays queued for good in an open queue does so
\* behind a push that is itself asleep for good, or has given up.
StarvedOnlyByPush ==
  \A e \in Entries :
    <>[](e \in ToSet(items) /\ ~closed) =>
      <>[](\E f \in Waited : pc[f] # "select")

\* A queued entry is always served, unless the queue is closed in the
\* meantime: signal, pop and push lose no wake-up.  This is what options.go:14
\* says of QueueFullBlock ("the default, guarantees that no job is lost").
EntriesServed ==
  \A e \in Entries : e \in ToSet(items) ~> (e \notin ToSet(items) \/ closed)

\* Close wakes everybody: workers drain and exit, and no push stays blocked
\* (TestReadyQueueClose, Shutdown waiting for wg).
CloseReleasesAll ==
  closed ~> /\ \A w \in Workers : pc[w] = "exited"
            /\ \A e \in Entries : pc[e] \notin {"lock", "signal", "select", "parked"}

\* A closed queue still hands out what it holds as long as one worker has not
\* exited: close never makes pop give up on a non-empty queue.
DrainedByLastWorker ==
  \A e \in Entries :
    (/\ closed
     /\ e \in ToSet(items)
     /\ \E w \in Workers : pc[w] # "exited") ~> e \notin ToSet(items)
=============================================================================
