----------------------------- MODULE DelayLoop -----------------------------
(***************************************************************************)
(* The delay loop of internal/core/dispatcher.go with time: delayHeap,     *)
(* the timer, the one-place channel signal, popDue and drainDelayed, and   *)
(* the goroutines that push entries (Submit, scheduleRetry), cancel them   *)
(* and close stopCh.  Dispatcher abstracts all this to "some delayed job   *)
(* is taken"; here a step is one critical section of delayMu, one reading  *)
(* of the clock or one channel operation, and time may pass in between.    *)
(*                                                                         *)
(* An entry is in one place at a time (OneCustody of Dispatcher), so one   *)
(* function says where the entry of each job is.                           *)
(*                                                                         *)
(* The code has two clocks: RunAt is computed with d.cfg.now(), which      *)
(* WithClock may replace, and the loop uses time.Until and time.Now.  Here *)
(* they are one, as they are by default.                                   *)
(***************************************************************************)
EXTENDS Integers, FiniteSets

CONSTANTS
  Jobs,
  Delays,      \* what Submit asks for: RunAt is the clock plus one of these
  RetryDelay,
  MaxRetries,
  Cancellable, \* jobs that may be cancelled
  Horizon      \* the clock is counted up to here, and no RunAt lies beyond

ASSUME DelayLoopAssumption ==
  /\ Delays \subseteq Nat
  /\ RetryDelay \in Nat
  /\ MaxRetries \in Nat
  /\ Cancellable \subseteq Jobs
  /\ Horizon \in Nat

\* RetryDelay << Attempt.  That int64 does not overflow needs no more than time:
\* the waits before it would have taken a century.
Backoff(n) == RetryDelay * 2 ^ n

ASSUME BackoffAssumption == \A n \in 0 .. MaxRetries : Backoff(n) \in Nat

VARIABLES
  now,        \* the clock
  where,      \* [Jobs -> where the entry is]
  runAt,      \* [Jobs -> RunAt of the newest entry]
  attempt,    \* [Jobs -> its Attempt]
  senders,    \* goroutines between heap.Push and the send on signal
  token,      \* the one-place buffer of signal holds a value
  stopped,    \* stopCh is closed
  asked,      \* jobs whose Cancel has searched the heap
  cancelled,  \* the cancelled set
  lpc,        \* where delayLoop is
  next,       \* its local next: RunAt of the first entry, when it looked
  wait,       \* its local wait
  timer,      \* the instant the timer fires, or Off
  due         \* the local now of popDue (a local out of scope is 0)

jobVars == <<where, runAt, attempt>>
cancelVars == <<asked, cancelled>>
loopVars == <<lpc, next, wait, timer, due>>
vars == <<now, jobVars, senders, token, stopped, cancelVars, loopVars>>

Off == -1

\* delayHeap, and the entries container/heap may have at its root.
Heap == {j \in Jobs : where[j] = "heap"}
First(j) == j \in Heap /\ \A k \in Heap : runAt[j] <= runAt[k]

Init ==
  /\ now = 0
  /\ where = [j \in Jobs |-> "new"]
  /\ runAt = [j \in Jobs |-> 0]
  /\ attempt = [j \in Jobs |-> 0]
  /\ senders = 0
  /\ token = FALSE
  /\ stopped = FALSE
  /\ asked = {}
  /\ cancelled = {}
  /\ lpc = "look"
  /\ next = 0
  /\ wait = 0
  /\ timer = Off
  /\ due = 0

Goto(l) == lpc' = l
MoveTo(j, p) == where' = [where EXCEPT ![j] = p]

-----------------------------------------------------------------------------
\* Mutations: wrong versions of the actions below, one plausible bug each,
\* that the properties at the end of the module must tell from the code.
PushNoSignal(j) ==               \* pushDelayed does not wake the loop
  /\ where[j] = "coming"
  /\ MoveTo(j, "heap")
  /\ UNCHANGED <<now, runAt, attempt, senders, token, stopped, cancelVars,
                 loopVars>>

SelectSignalStay ==              \* the loop stops its timer and waits on
  /\ lpc \in {"sleep", "empty"}
  /\ token
  /\ token' = FALSE
  /\ timer' = Off
  /\ UNCHANGED <<now, jobVars, senders, stopped, cancelVars, lpc, next, wait,
                 due>>

PopTakeNotDue ==                 \* popDue trusts the timer
  /\ lpc = "pop"
  /\ \E j \in Jobs : First(j) /\ MoveTo(j, "hand")
  /\ Goto("check")
  /\ UNCHANGED <<now, runAt, attempt, senders, token, stopped, cancelVars,
                 next, wait, timer, due>>

RetryOffByOne(j) ==              \* the last attempt is retried, too
  /\ where[j] = "ready"
  /\ attempt[j] <= MaxRetries
  /\ now + Backoff(attempt[j]) <= Horizon
  /\ runAt' = [runAt EXCEPT ![j] = now + Backoff(attempt[j])]
  /\ attempt' = [attempt EXCEPT ![j] = @ + 1]
  /\ MoveTo(j, "coming")
  /\ UNCHANGED <<now, senders, token, stopped, cancelVars, loopVars>>

-----------------------------------------------------------------------------
\* Time passes, whatever the goroutines do.
Tick ==
  /\ now < Horizon
  /\ now' = now + 1
  /\ UNCHANGED <<jobVars, senders, token, stopped, cancelVars, loopVars>>

\* Submit with a RunAt in the future: the instant is fixed first, and the entry
\* reaches the heap later.
Submit(j) ==
  /\ where[j] = "new"
  /\ \E d \in Delays :
       /\ now + d <= Horizon
       /\ runAt' = [runAt EXCEPT ![j] = now + d]
  /\ MoveTo(j, "coming")
  /\ UNCHANGED <<now, attempt, senders, token, stopped, cancelVars, loopVars>>

\* scheduleRetry: the next attempt comes Backoff from now.
Retry(j) ==
  /\ where[j] = "ready"
  /\ attempt[j] < MaxRetries
  /\ now + Backoff(attempt[j]) <= Horizon
  /\ runAt' = [runAt EXCEPT ![j] = now + Backoff(attempt[j])]
  /\ attempt' = [attempt EXCEPT ![j] = @ + 1]
  /\ MoveTo(j, "coming")
  /\ UNCHANGED <<now, senders, token, stopped, cancelVars, loopVars>>

\* pushDelayed: heap.Push under delayMu, and then a send that never blocks.
Push(j) ==
  /\ where[j] = "coming"
  /\ MoveTo(j, "heap")
  /\ senders' = senders + 1
  /\ UNCHANGED <<now, runAt, attempt, token, stopped, cancelVars, loopVars>>

Send ==
  /\ senders > 0
  /\ senders' = senders - 1
  /\ token' = TRUE
  /\ UNCHANGED <<now, jobVars, stopped, cancelVars, loopVars>>

\* cancelByIDLocked: heap.Remove; then ready.remove and the cancelled set.
CancelHeap(j) ==
  /\ j \in Cancellable \ asked
  /\ where[j] # "new"
  /\ asked' = asked \cup {j}
  /\ where' = [where EXCEPT ![j] = IF @ = "heap" THEN "gone" ELSE @]
  /\ UNCHANGED <<now, runAt, attempt, senders, token, stopped, cancelled,
                 loopVars>>

CancelMark(j) ==
  /\ j \in asked \ cancelled
  /\ cancelled' = cancelled \cup {j}
  /\ where' = [where EXCEPT ![j] = IF @ = "ready" THEN "gone" ELSE @]
  /\ UNCHANGED <<now, runAt, attempt, senders, token, stopped, asked, loopVars>>

Stop ==
  /\ ~stopped
  /\ stopped' = TRUE
  /\ UNCHANGED <<now, jobVars, senders, token, cancelVars, loopVars>>

-----------------------------------------------------------------------------
\* delayLoop: look at the heap under the lock, measure, arm the timer, sleep.
LookEmpty ==
  /\ lpc = "look"
  /\ Heap = {}
  /\ Goto("empty")
  /\ UNCHANGED <<now, jobVars, senders, token, stopped, cancelVars, next, wait,
                 timer, due>>

LookFirst ==
  /\ lpc = "look"
  /\ \E j \in Jobs : First(j) /\ next' = runAt[j]
  /\ Goto("measure")
  /\ UNCHANGED <<now, jobVars, senders, token, stopped, cancelVars, wait, timer,
                 due>>

Measure ==
  /\ lpc = "measure"
  /\ wait' = IF next < now THEN 0 ELSE next - now
  /\ Goto("arm")
  /\ UNCHANGED <<now, jobVars, senders, token, stopped, cancelVars, next, timer,
                 due>>

Arm ==
  /\ lpc = "arm"
  /\ timer' = now + wait
  /\ wait' = 0
  /\ Goto("sleep")
  /\ UNCHANGED <<now, jobVars, senders, token, stopped, cancelVars, next, due>>

\* The three cases of the select.  Past Horizon time goes on uncounted, so that
\* every timer that is armed fires in the end.
TimerFires ==
  /\ lpc = "sleep"
  /\ timer # Off
  /\ timer <= now \/ now = Horizon
  /\ timer' = Off
  /\ next' = 0
  /\ due' = now
  /\ Goto("pop")
  /\ UNCHANGED <<now, jobVars, senders, token, stopped, cancelVars, wait>>

SelectSignal ==
  /\ lpc \in {"sleep", "empty"}
  /\ token
  /\ token' = FALSE
  /\ timer' = Off
  /\ next' = 0
  /\ Goto("look")
  /\ UNCHANGED <<now, jobVars, senders, stopped, cancelVars, wait, due>>

SelectStop ==
  /\ lpc \in {"sleep", "empty"}
  /\ stopped
  /\ timer' = Off
  /\ next' = 0
  /\ Goto("drain")
  /\ UNCHANGED <<now, jobVars, senders, token, stopped, cancelVars, wait, due>>

\* popDue: take the first entry while it is due, hand it to the ready queue
\* (which may take its time) unless it was cancelled.
PopTake ==
  /\ lpc = "pop"
  /\ \E j \in Jobs : First(j) /\ runAt[j] <= due /\ MoveTo(j, "hand")
  /\ Goto("check")
  /\ UNCHANGED <<now, runAt, attempt, senders, token, stopped, cancelVars,
                 next, wait, timer, due>>

PopDone ==
  /\ lpc = "pop"
  /\ \A j \in Heap : runAt[j] > due
  /\ due' = 0
  /\ Goto("look")
  /\ UNCHANGED <<now, jobVars, senders, token, stopped, cancelVars, next, wait,
                 timer>>

PopCheck ==
  /\ lpc = "check"
  /\ \E j \in Jobs :
       /\ where[j] = "hand"
       /\ \/ j \in cancelled /\ MoveTo(j, "gone") /\ Goto("pop")
          \/ j \notin cancelled /\ Goto("push") /\ UNCHANGED where
  /\ UNCHANGED <<now, runAt, attempt, senders, token, stopped, cancelVars,
                 next, wait, timer, due>>

PopPush ==
  /\ lpc = "push"
  /\ \E j \in Jobs : where[j] = "hand" /\ MoveTo(j, "ready")
  /\ Goto("pop")
  /\ UNCHANGED <<now, runAt, attempt, senders, token, stopped, cancelVars,
                 next, wait, timer, due>>

\* drainDelayed
Drain ==
  /\ lpc = "drain"
  /\ \E j \in Jobs : First(j) /\ MoveTo(j, "gone")
  /\ UNCHANGED <<now, runAt, attempt, senders, token, stopped, cancelVars,
                 loopVars>>

DrainDone ==
  /\ lpc = "drain"
  /\ Heap = {}
  /\ Goto("exited")
  /\ UNCHANGED <<now, jobVars, senders, token, stopped, cancelVars, next, wait,
                 timer, due>>

LoopStep ==
  \/ LookEmpty \/ LookFirst \/ Measure \/ Arm
  \/ TimerFires \/ SelectSignal \/ SelectStop
  \/ PopTake \/ PopDone \/ PopCheck \/ PopPush
  \/ Drain \/ DrainDone

-----------------------------------------------------------------------------
Next ==
  \/ Tick
  \/ \E j \in Jobs : Submit(j) \/ Retry(j) \/ Push(j) \/ CancelHeap(j)
                     \/ CancelMark(j)
  \/ Send
  \/ Stop
  \/ LoopStep

\* Time passes, the loop runs when it can (the ready queue finds room for what
\* it hands over), and who has pushed also sends.
Fairness == WF_vars(Tick) /\ WF_vars(Send) /\ WF_vars(LoopStep)

Spec == Init /\ [][Next]_vars /\ Fairness

-----------------------------------------------------------------------------
\* Every variable has its type, with no attempt beyond MaxRetries; the loop holds
\* an entry exactly while it checks and pushes it, and then one only.
Places == {"new", "coming", "heap", "hand", "ready", "gone"}
InHand == {j \in Jobs : where[j] = "hand"}

TypeOK ==
  /\ now \in Nat
  /\ where \in [Jobs -> Places]
  /\ runAt \in [Jobs -> Nat]
  /\ attempt \in [Jobs -> 0 .. MaxRetries]
  /\ senders \in Nat
  /\ token \in BOOLEAN
  /\ stopped \in BOOLEAN
  /\ cancelled \subseteq asked
  /\ asked \subseteq Cancellable
  /\ lpc \in {"look", "empty", "measure", "arm", "sleep", "pop", "check", "push",
              "drain", "exited"}
  /\ next \in Nat
  /\ wait \in Nat
  /\ timer \in Nat \cup {Off}
  /\ due \in Nat
  /\ InHand # {} <=> lpc \in {"check", "push"}
  /\ \A j, k \in InHand : j = k

\* The loop never sleeps past an entry: once it has looked at the heap, no entry
\* is due before the instant it looked up, unless a wake-up is on its way (kept
\* in the channel, or about to be sent).  A push that comes between the look and
\* the select must not be lost, although signal has one place only.
WakeUp == token \/ senders > 0

NeverOversleeps ==
  WakeUp \/ /\ lpc = "empty" => Heap = {}
            /\ lpc \in {"measure", "arm", "sleep"} =>
                 \A j \in Heap : next <= runAt[j]

\* No job leaves the heap for the ready queue before its RunAt, also when the
\* entry the timer was armed for has been cancelled meanwhile.
NeverEarly ==
  [][\A j \in Jobs :
       where[j] = "heap" /\ where'[j] = "hand" => runAt[j] <= now]_vars

\* Every delayed job leaves the heap, unless the dispatcher is shut down.
DelayedServed == \A j \in Jobs : where[j] = "heap" ~> where[j] # "heap" \/ stopped
=============================================================================
