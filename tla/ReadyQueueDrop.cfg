CONSTANTS
  e1 = e1
  e2 = e2
  e3 = e3
  w1 = w1
  w2 = w2
  main = main
  Entries <- MCEntries
  Workers <- MCWorkers
  Closer = main
  Cap = 2
  Dropping <- MCSubmitted
  Cancellable <- MCSomeCtx
  Removable <- MCSomeIds
SPECIFICATION Spec
INVARIANT StrandedOnlyByPush
PROPERTY StarvedOnlyByPush
\* Idle workers wait for ever when no client acts.
CHECK_DEADLOCK FALSE
