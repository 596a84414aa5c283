CONSTANTS
  a = a
  b = b
  c = c
  w1 = w1
  w2 = w2
  client = client
  none = none
  Jobs <- MCPair
  NameOf <- MCSameName
  Workers <- MCWorkers
  Client = client
  NoJob = none
  Policy = "skip"
  QueueCap = 1
  DropWhenFull = FALSE
  MaxRetries <- MCRetryA
  HasStore = TRUE
  StoreFails <- MCNone
  Later <- MCOnlyB
  Impatient <- MCNone
  Cancellable <- MCOnlyA
  MaxStatus = 3
  MayTimeOut = FALSE
SPECIFICATION Spec
SYMMETRY MCSymmetry
INVARIANTS
  TypeOK
  OneCustody
  LateStartsBounded
  SameNameExclusive
  NoInFlightLeak
  NoGhostRow
  FinalMeansFinal
  EarlyJobsRun
PROPERTY ImplementsLifecycle
\* The dispatcher rests when no client acts, and stops after Shutdown.
CHECK_DEADLOCK FALSE
