CONSTANTS
  e1 = e1
  e2 = e2
  c1 = c1
  Executions = {e1, e2}
  Cancels = {c1}
  InvocationOf <- MCInvocationOf
  CancelOf <- MCCancelOf
  MaxActions = 2
SPECIFICATION Spec
INVARIANTS FactsMatchHost AnsweredIsOver
PROPERTY CloseNeedsNoHost
CHECK_DEADLOCK FALSE
