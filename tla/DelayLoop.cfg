CONSTANTS
  a = a
  b = b
  Jobs <- MCJobs
  Delays <- MCDelays
  RetryDelay = 1
  MaxRetries = 1
  Cancellable <- MCOnlyA
  Horizon = 4
SPECIFICATION Spec
INVARIANTS
  TypeOK
  NeverOversleeps
PROPERTIES
  NeverEarly
  DelayedServed
\* The loop sleeps for ever on an empty heap, and ends after Stop.
CHECK_DEADLOCK FALSE
