CONSTANTS
  e1 = e1
  e2 = e2
  e3 = e3
  q1 = q1
  x1 = x1
  close = close
  i1 = i1
  i2 = i2
  i3 = i3
  Executions = {e1, e2}
  Inquiries = {}
  Cancels = {}
  Close = close
  Invocations = {i1, i2, i3}
  InvocationOf <- MCReused
  MaxActions = 2
  MaxInFlight = 2
  MaxPendingReplies = 3
  DeferredSink = TRUE
  Faults <- MCAllFaults
CHECK_DEADLOCK FALSE
SPECIFICATION Spec
INVARIANTS NoRepeatedRequest WorkerWorksForPending
PROPERTY ImplementsContract
