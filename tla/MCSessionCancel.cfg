CONSTANTS
  e1 = e1
  e2 = e2
  e3 = e3
  q1 = q1
  x1 = x1
  close = close
  i1 = i1
  i2 = i2
  i3 = i3
  Executions = {e1}
  Inquiries = {}
  Cancels = {x1}
  Close = close
  Invocations = {i1, i2, i3}
  InvocationOf <- MCDistinct
  MaxActions = 1
  MaxInFlight = 1
  MaxPendingReplies = 3
  DeferredSink = FALSE
  Faults <- MCNoFaults
CHECK_DEADLOCK FALSE
SPECIFICATION SpecPatient
INVARIANT AcceptedCancelKeepsResult
