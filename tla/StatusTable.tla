---------------------------- MODULE StatusTable ----------------------------
(***************************************************************************)
(* The status table of a dispatcher (statuses and statusOrder, written by  *)
(* markStatus under statusMu): a map of at most MaxStatusCount ids that    *)
(* forgets the id it met first when a new one finds it full, whatever the  *)
(* status of either.  An id that was forgotten and is marked again counts  *)
(* as new.                                                                 *)
(***************************************************************************)
EXTENDS Naturals, SequencesExt

CONSTANTS Ids,
          MaxStatusCount   \* positive; 10000 in the code

VARIABLES statuses,     \* [Ids -> a status, or "unknown" for a missing key]
          statusOrder   \* known ids, in the order of their first mark

vars == <<statuses, statusOrder>>

Known == {i \in Ids : statuses[i] # "unknown"}

Init ==
  /\ statuses = [i \in Ids |-> "unknown"]
  /\ statusOrder = <<>>

\* Mutation: a wrong version of Overwrite, which lists a known id once more.
OverwriteListed(i, s) ==
  /\ i \in Known
  /\ statuses' = [statuses EXCEPT ![i] = s]
  /\ statusOrder' = Append(statusOrder, i)

\* markStatus(i, s): overwrite, insert, or insert in the place of the oldest.
Overwrite(i, s) ==
  /\ i \in Known
  /\ statuses' = [statuses EXCEPT ![i] = s]
  /\ UNCHANGED statusOrder

Insert(i, s) ==
  /\ i \notin Known
  /\ Len(statusOrder) < MaxStatusCount
  /\ statuses' = [statuses EXCEPT ![i] = s]
  /\ statusOrder' = Append(statusOrder, i)

Evict(i, s) ==
  /\ i \notin Known
  /\ Len(statusOrder) >= MaxStatusCount
  /\ statuses' = [statuses EXCEPT ![Head(statusOrder)] = "unknown", ![i] = s]
  /\ statusOrder' = Append(Tail(statusOrder), i)

Mark(i, s) == Overwrite(i, s) \/ Insert(i, s) \/ Evict(i, s)

\* The map and the list speak of the same ids, each of which is listed once:
\* neither of the two ever grows past the limit.
Consistent ==
  /\ ToSet(statusOrder) = Known
  /\ Len(statusOrder) = Cardinality(Known)
  /\ Len(statusOrder) <= MaxStatusCount
=============================================================================
