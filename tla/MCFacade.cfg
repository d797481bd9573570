CONSTANTS
  e1 = e1
  e2 = e2
  c1 = c1
  q1 = q1
  k1 = k1
  Executions = {e1, e2}
  Calls <- MCCalls
  HostCalls = 2
  HasHook = TRUE
  InvocationOf <- MCInvocationOf
  Keys = {k1}
  KeyOf <- MCKeyOf
  Cancels = {c1}
  CancelOf <- MCCancelOf
  Inquiries = {q1}
SPECIFICATION Spec
INVARIANTS
  SerialDispatch
  CloseAbortsInvocations
PROPERTIES
  SharedLoadSurvivesCancel
  NoHandlerAfterAbort
  NothingStartsAfterClose
  CloseResolves
CHECK_DEADLOCK FALSE
