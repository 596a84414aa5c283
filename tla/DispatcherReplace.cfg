CONSTANTS
  a = a
  b = b
  c = c
  w1 = w1
  w2 = w2
  client = client
  none = none
  Jobs <- MCTriple
  NameOf <- MCSameName
  Workers <- MCWorkers
  Client = client
  NoJob = none
  Policy = "replace"
  QueueCap = 1
  DropWhenFull = TRUE
  MaxRetries <- MCNoRetry
  HasStore = TRUE
  StoreFails <- MCOnlyC
  Later <- MCNone
  Impatient <- MCNone
  Cancellable <- MCNone
  MaxStatus = 2
  MayTimeOut = FALSE
SPECIFICATION Spec
SYMMETRY MCSymmetry
INVARIANTS
  SameNameExclusive
  NoInFlightLeak
  StatusTableOK
\* The dispatcher rests when no client acts, and stops after Shutdown.
CHECK_DEADLOCK FALSE
