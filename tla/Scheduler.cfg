CONSTANTS
  cron = cron
  once = once
  s1 = s1
  d1 = d1
  d2 = d2
  none = none
  Entries <- MCEntries
  Kind <- MCKind
  NoSolution <- MCNoSolution
  Stoppers <- MCStoppers
  Closers <- MCClosers
  Impatient <- MCImpatient
  Skipping = TRUE
  MayRefuse = TRUE
  NoEntry = none
SPECIFICATION Spec
INVARIANTS
  TypeOK
  ClosedOnce
  QuietAfterStop
  ListIsLive
  QuietAfterShutdown
  StragglersTold
PROPERTIES
  StopReturns
  ShutdownReturns
\* After Shutdown, and when no client acts, nothing has to happen.
CHECK_DEADLOCK FALSE
