----------------------------- MODULE Scheduler -----------------------------
(***************************************************************************)
(* The scheduler of internal/core/scheduler.go: registrations, the         *)
(* goroutine of each entry, Stop and Shutdown, called concurrently.        *)
(*                                                                         *)
(* The dispatcher appears through what a fire can see of it: whether it is *)
(* still open, and whether the job of the entry's last fire is in flight.  *)
(* A Submit that waits for space in the queue is a fire that takes long.   *)
(* Time is abstracted: a timer may expire whenever its select is reached,  *)
(* also when the stop channel is closed already.                           *)
(***************************************************************************)
EXTENDS Integers

CONSTANTS
  Entries,     \* one call of Every, Cron or OneShot each
  Kind,        \* [Entries -> {"every", "cron", "once"}]
  NoSolution,  \* cron entries whose expression may run out of instants
  Stoppers,    \* one call of Stop each
  Closers,     \* one call of Shutdown each
  Impatient,   \* calls of Shutdown whose ctx may end
  Skipping,    \* the dispatcher's conflict policy is ConflictSkip
  MayRefuse,   \* it may refuse a job for want of space or of its store
  NoEntry

ASSUME SchedulerAssumption ==
  /\ Kind \in [Entries -> {"every", "cron", "once"}]
  /\ NoSolution \subseteq {e \in Entries : Kind[e] = "cron"}
  /\ Impatient \subseteq Closers
  /\ Skipping \in BOOLEAN
  /\ MayRefuse \in BOOLEAN
  /\ Stoppers \cap Closers = {}
  /\ NoEntry \notin Entries

VARIABLES
  entries,     \* s.entries
  stopped,     \* s.stopped
  wg,          \* the counter of s.wg
  stop, done,  \* entries whose stop (done) channel is closed
  rpc,         \* [Entries -> where the registration is, or its result]
  gpc,         \* [Entries -> where the entry's goroutine is]
  tpc, target, \* each Stop call, and the entry it stops
  hpc, batch,  \* each Shutdown call, and the entries it has yet to stop
  known,       \* entries registered before the first Shutdown (history)
  open,        \* the dispatcher accepts submissions
  inFlight     \* entries whose last fire is in flight in the dispatcher

tableVars == <<entries, stopped>>
goVars == <<wg, done, gpc>>
stopVars == <<tpc, target>>
shutdownVars == <<hpc, batch, known>>
dispatcherVars == <<open, inFlight>>

vars == <<tableVars, goVars, stop, rpc, stopVars, shutdownVars, dispatcherVars>>

Init ==
  /\ entries = {}
  /\ stopped = FALSE
  /\ wg = 0
  /\ stop = {}
  /\ done = {}
  /\ rpc = [e \in Entries |-> "idle"]
  /\ gpc = [e \in Entries |-> "none"]
  /\ tpc = [x \in Stoppers |-> "idle"]
  /\ target = [x \in Stoppers |-> NoEntry]
  /\ hpc = [c \in Closers |-> "idle"]
  /\ batch = [c \in Closers |-> {}]
  /\ known = {}
  /\ open = TRUE
  /\ inFlight = {}

GoAt(e, l) == gpc' = [gpc EXCEPT ![e] = l]

-----------------------------------------------------------------------------
\* Mutations: wrong versions of the actions below, one plausible bug each,
\* that the properties at the end of the module must tell from the code.
RegisterLate(e) ==               \* s.stopped is not looked at
  /\ rpc[e] = "idle"
  /\ rpc' = [rpc EXCEPT ![e] = "registered"]
  /\ entries' = entries \cup {e}
  /\ UNCHANGED <<stopped, goVars, stop, stopVars, shutdownVars, dispatcherVars>>

LaunchNoAdd(e) ==                \* wg.Add(1) is missing
  /\ rpc[e] = "registered"
  /\ rpc' = [rpc EXCEPT ![e] = "returned"]
  /\ GoAt(e, "select")
  /\ UNCHANGED <<tableVars, wg, done, stop, stopVars, shutdownVars,
                 dispatcherVars>>

RemoveKeep(e) ==                 \* defer s.remove(entry.id) is missing
  /\ gpc[e] = "remove"
  /\ GoAt(e, "close")
  /\ UNCHANGED <<tableVars, wg, done, stop, rpc, stopVars, shutdownVars,
                 dispatcherVars>>

StopFindKeep(x, e) ==            \* delete(s.entries, id) is missing
  /\ tpc[x] = "idle"
  /\ e \in entries
  /\ tpc' = [tpc EXCEPT ![x] = "close"]
  /\ target' = [target EXCEPT ![x] = e]
  /\ UNCHANGED <<tableVars, goVars, stop, rpc, shutdownVars, dispatcherVars>>

StopCloseNoWait(x) ==            \* <-entry.done is missing
  /\ tpc[x] = "close"
  /\ stop' = stop \cup {target[x]}
  /\ tpc' = [tpc EXCEPT ![x] = "returned"]
  /\ UNCHANGED <<tableVars, goVars, rpc, target, shutdownVars, dispatcherVars>>

StopCloseNothing(x) ==           \* close(entry.stop) is missing
  /\ tpc[x] = "close"
  /\ tpc' = [tpc EXCEPT ![x] = "wait"]
  /\ UNCHANGED <<tableVars, goVars, stop, rpc, target, shutdownVars,
                 dispatcherVars>>

ShutdownTakeNothing(c) ==        \* the map is replaced before it is copied
  /\ hpc[c] = "idle"
  /\ ~stopped
  /\ stopped' = TRUE
  /\ entries' = {}
  /\ known' = {e \in Entries : rpc[e] = "returned"}
  /\ hpc' = [hpc EXCEPT ![c] = "close"]
  /\ UNCHANGED <<goVars, stop, rpc, stopVars, batch, dispatcherVars>>

ShutdownDoneNoWait(c) ==         \* wg.Wait() is missing
  /\ hpc[c] = "wait"
  /\ hpc' = [hpc EXCEPT ![c] = "returned"]
  /\ UNCHANGED <<tableVars, goVars, stop, rpc, stopVars, batch, known,
                 dispatcherVars>>

-----------------------------------------------------------------------------
\* Every, Cron and OneShot: register under s.mu, then wg.Add and the go
\* statement, with nothing held in between.
Register(e) ==
  /\ rpc[e] = "idle"
  /\ \/ /\ stopped
        /\ rpc' = [rpc EXCEPT ![e] = "refused"]
        /\ UNCHANGED entries
     \/ /\ ~stopped
        /\ rpc' = [rpc EXCEPT ![e] = "registered"]
        /\ entries' = entries \cup {e}
  /\ UNCHANGED <<stopped, goVars, stop, stopVars, shutdownVars, dispatcherVars>>

Launch(e) ==
  /\ rpc[e] = "registered"
  /\ rpc' = [rpc EXCEPT ![e] = "returned"]
  /\ wg' = wg + 1
  /\ GoAt(e, "select")
  /\ UNCHANGED <<tableVars, done, stop, stopVars, shutdownVars, dispatcherVars>>

-----------------------------------------------------------------------------
\* The goroutine of an entry.  Each round computes the next instant, arms a
\* timer and selects; a cron expression may have no instant within five years.
GoUnsolvable(e) ==
  /\ gpc[e] = "select"
  /\ e \in NoSolution
  /\ GoAt(e, "remove")
  /\ UNCHANGED <<tableVars, wg, done, stop, rpc, stopVars, shutdownVars,
                 dispatcherVars>>

GoTimer(e) ==
  /\ gpc[e] = "select"
  /\ GoAt(e, "fire")
  /\ UNCHANGED <<tableVars, wg, done, stop, rpc, stopVars, shutdownVars,
                 dispatcherVars>>

GoStopped(e) ==
  /\ gpc[e] = "select"
  /\ e \in stop
  /\ GoAt(e, "remove")
  /\ UNCHANGED <<tableVars, wg, done, stop, rpc, stopVars, shutdownVars,
                 dispatcherVars>>

\* fire: a submission that succeeds; OneShot ends all the same.
GoFire(e) ==
  /\ gpc[e] = "fire"
  /\ open
  /\ Skipping => e \notin inFlight
  /\ inFlight' = IF Skipping THEN inFlight \cup {e} ELSE inFlight
  /\ GoAt(e, IF Kind[e] = "once" THEN "remove" ELSE "select")
  /\ UNCHANGED <<tableVars, wg, done, stop, rpc, stopVars, shutdownVars, open>>

\* fire: ErrShuttingDown, ErrSkipped or another refusal.  The entry ends.
GoFireFails(e) ==
  /\ gpc[e] = "fire"
  /\ ~open \/ (Skipping /\ e \in inFlight) \/ MayRefuse
  /\ GoAt(e, "remove")
  /\ UNCHANGED <<tableVars, wg, done, stop, rpc, stopVars, shutdownVars,
                 dispatcherVars>>

\* The deferred calls, last one first: s.remove, then close(done) and wg.Done.
GoRemove(e) ==
  /\ gpc[e] = "remove"
  /\ entries' = entries \ {e}
  /\ GoAt(e, "close")
  /\ UNCHANGED <<stopped, wg, done, stop, rpc, stopVars, shutdownVars,
                 dispatcherVars>>

GoClose(e) ==
  /\ gpc[e] = "close"
  /\ done' = done \cup {e}
  /\ wg' = wg - 1
  /\ GoAt(e, "gone")
  /\ UNCHANGED <<tableVars, stop, rpc, stopVars, shutdownVars, dispatcherVars>>

GoStep(e) == GoFire(e) \/ GoFireFails(e) \/ GoRemove(e) \/ GoClose(e)

-----------------------------------------------------------------------------
\* Stop(id), for any id that List may have shown.
StopMissing(x) ==
  /\ tpc[x] = "idle"
  /\ entries # Entries
  /\ tpc' = [tpc EXCEPT ![x] = "notFound"]
  /\ UNCHANGED <<tableVars, goVars, stop, rpc, target, shutdownVars,
                 dispatcherVars>>

StopFind(x, e) ==
  /\ tpc[x] = "idle"
  /\ e \in entries
  /\ entries' = entries \ {e}
  /\ tpc' = [tpc EXCEPT ![x] = "close"]
  /\ target' = [target EXCEPT ![x] = e]
  /\ UNCHANGED <<stopped, goVars, stop, rpc, shutdownVars, dispatcherVars>>

StopClose(x) ==
  /\ tpc[x] = "close"
  /\ stop' = stop \cup {target[x]}
  /\ tpc' = [tpc EXCEPT ![x] = "wait"]
  /\ UNCHANGED <<tableVars, goVars, rpc, target, shutdownVars, dispatcherVars>>

StopReturn(x) ==
  /\ tpc[x] = "wait"
  /\ target[x] \in done
  /\ tpc' = [tpc EXCEPT ![x] = "returned"]
  /\ UNCHANGED <<tableVars, goVars, stop, rpc, target, shutdownVars,
                 dispatcherVars>>

-----------------------------------------------------------------------------
\* Shutdown(ctx).  Only the first call waits; a later one returns at once.
ShutdownAgain(c) ==
  /\ hpc[c] = "idle"
  /\ stopped
  /\ hpc' = [hpc EXCEPT ![c] = "again"]
  /\ UNCHANGED <<tableVars, goVars, stop, rpc, stopVars, batch, known,
                 dispatcherVars>>

ShutdownTake(c) ==
  /\ hpc[c] = "idle"
  /\ ~stopped
  /\ stopped' = TRUE
  /\ batch' = [batch EXCEPT ![c] = entries]
  /\ entries' = {}
  /\ known' = {e \in Entries : rpc[e] = "returned"}
  /\ hpc' = [hpc EXCEPT ![c] = "close"]
  /\ UNCHANGED <<goVars, stop, rpc, stopVars, dispatcherVars>>

ShutdownClose(c) ==
  /\ hpc[c] = "close"
  /\ \E e \in batch[c] :
       /\ stop' = stop \cup {e}
       /\ batch' = [batch EXCEPT ![c] = @ \ {e}]
  /\ UNCHANGED <<tableVars, goVars, rpc, stopVars, hpc, known, dispatcherVars>>

ShutdownWait(c) ==
  /\ hpc[c] = "close"
  /\ batch[c] = {}
  /\ hpc' = [hpc EXCEPT ![c] = "wait"]
  /\ UNCHANGED <<tableVars, goVars, stop, rpc, stopVars, batch, known,
                 dispatcherVars>>

ShutdownDone(c) ==
  /\ hpc[c] = "wait"
  /\ wg = 0
  /\ hpc' = [hpc EXCEPT ![c] = "returned"]
  /\ UNCHANGED <<tableVars, goVars, stop, rpc, stopVars, batch, known,
                 dispatcherVars>>

ShutdownTimeout(c) ==
  /\ hpc[c] = "wait"
  /\ c \in Impatient
  /\ hpc' = [hpc EXCEPT ![c] = "timeout"]
  /\ UNCHANGED <<tableVars, goVars, stop, rpc, stopVars, batch, known,
                 dispatcherVars>>

-----------------------------------------------------------------------------
\* The dispatcher: a job of an entry ends; Dispatcher.Shutdown.
JobEnds(e) ==
  /\ e \in inFlight
  /\ inFlight' = inFlight \ {e}
  /\ UNCHANGED <<tableVars, goVars, stop, rpc, stopVars, shutdownVars, open>>

DispatcherCloses ==
  /\ open
  /\ open' = FALSE
  /\ UNCHANGED <<tableVars, goVars, stop, rpc, stopVars, shutdownVars, inFlight>>

-----------------------------------------------------------------------------
Next ==
  \/ \E e \in Entries : Register(e) \/ Launch(e) \/ GoStep(e) \/ GoTimer(e)
                        \/ GoStopped(e) \/ GoUnsolvable(e) \/ JobEnds(e)
  \/ \E x \in Stoppers : StopMissing(x) \/ StopClose(x) \/ StopReturn(x)
                         \/ \E e \in Entries : StopFind(x, e)
  \/ \E c \in Closers : ShutdownAgain(c) \/ ShutdownTake(c) \/ ShutdownClose(c)
                        \/ ShutdownWait(c) \/ ShutdownDone(c)
                        \/ ShutdownTimeout(c)
  \/ DispatcherCloses

\* Goroutines that can run do, and a submission returns.  Go's select picks at
\* random among the ready cases, so a closed stop channel is not passed over
\* for ever.  No timer has to expire, no job to end, and no client to call.
Fairness ==
  /\ \A e \in Entries : /\ WF_vars(Launch(e))
                        /\ WF_vars(GoStep(e))
                        /\ SF_vars(GoStopped(e))
  /\ \A x \in Stoppers : WF_vars(StopClose(x)) /\ WF_vars(StopReturn(x))
  /\ \A c \in Closers : WF_vars(ShutdownClose(c) \/ ShutdownWait(c)
                                \/ ShutdownDone(c))

Spec == Init /\ [][Next]_vars /\ Fairness

-----------------------------------------------------------------------------
Ended == {"remove", "close", "gone"}

\* Every variable has its type; a negative wg would panic in the code.
TypeOK ==
  /\ entries \subseteq Entries
  /\ stopped \in BOOLEAN
  /\ wg \in Nat
  /\ stop \subseteq Entries
  /\ done \subseteq Entries
  /\ rpc \in [Entries -> {"idle", "registered", "returned", "refused"}]
  /\ gpc \in [Entries -> {"none", "select", "fire"} \cup Ended]
  /\ tpc \in [Stoppers -> {"idle", "notFound", "close", "wait", "returned"}]
  /\ target \in [Stoppers -> Entries \cup {NoEntry}]
  /\ \A x \in Stoppers :
       tpc[x] \in {"close", "wait", "returned"} => target[x] \in Entries
  /\ hpc \in [Closers -> {"idle", "again", "close", "wait", "returned", "timeout"}]
  /\ batch \in [Closers -> SUBSET Entries]
  /\ known \subseteq Entries
  /\ open \in BOOLEAN
  /\ inFlight \subseteq Entries

\* The calls that hold an entry they are going to stop.
Stopping(e) ==
  {x \in Stoppers : tpc[x] = "close" /\ target[x] = e}
  \cup {c \in Closers : e \in batch[c]}

\* Closing a closed channel panics.  Concurrent Stops, Shutdown and the end of
\* an entry never let two calls close the same stop channel: whoever takes the
\* entry out of s.entries is the only one to do it.
ClosedOnce ==
  \A e \in Entries :
    /\ \A p, q \in Stopping(e) : p = q
    /\ e \in entries => Stopping(e) = {} /\ e \notin stop
    /\ e \in stop => Stopping(e) = {}

\* Once Stop has returned, the entry never fires again (TestStop), also when
\* its timer had expired when Stop was called.
QuietAfterStop ==
  \A x \in Stoppers : tpc[x] = "returned" => gpc[target[x]] = "gone"

\* List shows no entry whose goroutine has ended (TestOneShot, TestFireFailure,
\* TestCronNoSolution), and after Shutdown nothing: an entry that registers
\* late is refused, and one that ends late does not come back.
ListIsLive ==
  /\ \A e \in entries : gpc[e] \notin {"close", "gone"}
  /\ stopped => entries = {}

\* What a nil from Shutdown says of the entries registered before the first
\* call.  The call that waited found their goroutines gone.  A second call does
\* not wait: it returns nil at once, with goroutines running, but only while
\* the first is closing the channels or waiting, or after its ctx has ended;
\* and what still runs has been told to stop or is about to be.  (An entry whose
\* registration is between register and wg.Add may start after either return;
\* StragglersTold is about those.)
QuietAfterShutdown ==
  \A c \in Closers : hpc[c] \in {"returned", "again"} =>
    \A e \in known :
      \/ gpc[e] = "gone"
      \/ /\ hpc[c] = "again"
         /\ \E d \in Closers : hpc[d] \in {"close", "wait", "timeout"}
         /\ gpc[e] \in {"select", "fire"} => e \in stop \/ Stopping(e) # {}

\* Nothing that starts late can go unnoticed by Shutdown: after it has closed
\* the channels, every goroutine that still runs has been told to stop.
StragglersTold ==
  \A c \in Closers :
    hpc[c] \in {"wait", "returned", "timeout"} =>
      \A e \in Entries :
        gpc[e] \in {"select", "fire"} =>
          e \in stop \/ \E x \in Stoppers : tpc[x] = "close" /\ target[x] = e

\* Stop and Shutdown return, with the entry firing, blocked in a submission, or
\* not started yet.
StopReturns == \A x \in Stoppers : tpc[x] \in {"close", "wait"} ~> tpc[x] = "returned"

ShutdownReturns ==
  \A c \in Closers : hpc[c] \in {"close", "wait"} ~> hpc[c] \in {"returned", "timeout"}
=============================================================================
