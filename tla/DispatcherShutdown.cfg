CONSTANTS
  a = a
  b = b
  c = c
  w1 = w1
  w2 = w2
  client = client
  none = none
  Jobs <- MCPair
  NameOf <- MCSameName
  Workers <- MCOneWorker
  Client = client
  NoJob = none
  Policy = "allow"
  QueueCap = 1
  DropWhenFull = FALSE
  MaxRetries <- MCRetryA
  HasStore = FALSE
  StoreFails <- MCNone
  Later <- MCOnlyA
  Impatient <- MCOnlyB
  Cancellable <- MCNone
  MaxStatus = 3
  MayTimeOut = TRUE
SPECIFICATION Spec
PROPERTY 
  ShutdownTerminates
  SubmitsReturn
\* The dispatcher rests when no client acts, and stops after Shutdown.
CHECK_DEADLOCK FALSE
