CONSTANTS
  a = a
  b = b
  c = c
  w1 = w1
  w2 = w2
  client = client
  none = none
  Jobs <- MCOne
  NameOf <- MCSameName
  Workers <- MCWorkers
  Client = client
  NoJob = none
  Policy = "skip"
  QueueCap = 1
  DropWhenFull = FALSE
  MaxRetries <- MCRetryA
  HasStore = FALSE
  StoreFails <- MCNone
  Later <- MCNone
  Impatient <- MCNone
  Cancellable <- MCOnlyA
  MaxStatus = 3
  MayTimeOut = FALSE
SPECIFICATION Spec
INVARIANT CancelReachesHandler
\* The dispatcher rests when no client acts, and stops after Shutdown.
CHECK_DEADLOCK FALSE
