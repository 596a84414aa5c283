---------------------------- MODULE JobLifecycle ----------------------------
(***************************************************************************)
(* What the dispatcher promises about one job, whatever goroutines carry   *)
(* it: a submission is accepted or refused once; the attempts of a job     *)
(* never overlap and are at most MaxRetries[j] + 1; a job that is over, or *)
(* was refused, never runs again.                                          *)
(***************************************************************************)
EXTENDS Naturals

CONSTANTS Jobs, MaxRetries

VARIABLES state,     \* [Jobs -> "new", "refused", "waiting", "running", "over"]
          starts     \* [Jobs -> Nat], handler invocations so far

vars == <<state, starts>>

Init ==
  /\ state = [j \in Jobs |-> "new"]
  /\ starts = [j \in Jobs |-> 0]

Move(j, from, to) ==
  /\ state[j] = from
  /\ state' = [state EXCEPT ![j] = to]

Accept(j) == Move(j, "new", "waiting") /\ UNCHANGED starts

Refuse(j) == Move(j, "new", "refused") /\ UNCHANGED starts

Start(j) ==
  /\ Move(j, "waiting", "running")
  /\ starts[j] <= MaxRetries[j]
  /\ starts' = [starts EXCEPT ![j] = @ + 1]

\* The attempt failed and another one is due later.
Retry(j) ==
  /\ Move(j, "running", "waiting")
  /\ starts[j] <= MaxRetries[j]
  /\ UNCHANGED starts

End(j) == Move(j, "running", "over") /\ UNCHANGED starts

\* Cancelled, replaced or dropped before (or between) its attempts.
Drop(j) == Move(j, "waiting", "over") /\ UNCHANGED starts

Next == \E j \in Jobs :
  Accept(j) \/ Refuse(j) \/ Start(j) \/ Retry(j) \/ End(j) \/ Drop(j)

Spec == Init /\ [][Next]_vars
=============================================================================
