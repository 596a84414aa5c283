CONSTANTS
  a = a
  b = b
  w1 = w1
  client = client
  none = none
  Jobs <- MCJobs
  NameOf <- MCSameName
  Workers <- MCWorkers
  Client = client
  NoJob = none
  Policy = "skip"
  QueueCap = 1
  DropWhenFull = FALSE
  MaxRetries <- MCRetryA
  HasStore = TRUE
  StoreFails <- MCNone
  Later <- MCOnlyB
  Impatient <- MCNone
  Cancellable <- MCNone
  MaxStatus = 3
  MayTimeOut = FALSE
  MayOrphan <- MCOnlyB
  RestoreCtx = TRUE
  MaxCrashes = 2
SPECIFICATION RSpec
INVARIANTS
  RTypeOK
  NothingLost
  SingleCopy
  NameHeld
  AttemptsBounded
\* The dispatcher rests when no client acts, and stops after Shutdown.
CHECK_DEADLOCK FALSE
