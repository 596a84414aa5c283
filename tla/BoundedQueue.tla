---------------------------- MODULE BoundedQueue ----------------------------
(***************************************************************************)
(* What the ready queue promises to the rest of the dispatcher: a FIFO of  *)
(* at most Cap entries that also supports removal by identity.  Every      *)
(* entry is pushed at most once, is in one place at a time, and leaves the *)
(* queue once: popped by a worker or removed by a cancellation.  A push is *)
(* turned down only while there is no space, or because the caller gave    *)
(* up.  There are no goroutines, locks or wake-ups at this level.          *)
(***************************************************************************)
EXTENDS Naturals, SequencesExt

CONSTANTS Entries,       \* the jobEntry values handed to push
          Cap,           \* capacity
          Cancellable,   \* entries whose caller may give up waiting
          Removable      \* entries that may be cancelled by identity

VARIABLES items, closed, popped, removed, refused

vars == <<items, closed, popped, removed, refused>>

\* Entries the queue has seen, wherever they are now.
Seen == ToSet(items) \cup popped \cup removed \cup refused

Init ==
  /\ items = <<>>
  /\ closed = FALSE
  /\ popped = {}
  /\ removed = {}
  /\ refused = {}

Push(e) ==
  /\ e \notin Seen
  /\ Len(items) < Cap
  /\ items' = Append(items, e)
  /\ UNCHANGED <<closed, popped, removed, refused>>

Refuse(e) ==
  /\ e \notin Seen
  /\ Len(items) >= Cap \/ e \in Cancellable
  /\ refused' = refused \cup {e}
  /\ UNCHANGED <<items, closed, popped, removed>>

Pop ==
  /\ items # <<>>
  /\ popped' = popped \cup {Head(items)}
  /\ items' = Tail(items)
  /\ UNCHANGED <<closed, removed, refused>>

RemoveEntry(e) ==
  /\ e \in Removable
  /\ \E i \in DOMAIN items : items[i] = e /\ items' = RemoveAt(items, i)
  /\ removed' = removed \cup {e}
  /\ UNCHANGED <<closed, popped, refused>>

\* Closing twice is closing once.
Close ==
  /\ closed' = TRUE
  /\ UNCHANGED <<items, popped, removed, refused>>

Next ==
  \/ \E e \in Entries : Push(e) \/ Refuse(e) \/ RemoveEntry(e)
  \/ Pop
  \/ Close

Spec == Init /\ [][Next]_vars
=============================================================================
