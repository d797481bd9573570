CONSTANTS
  Callers = {c1, c2, c3}
  MaxStarts = 2
SPECIFICATION SpecTransportCloses
INVARIANT OneWorker
PROPERTIES EveryCallReturns CloseReleasesWorker
CHECK_DEADLOCK FALSE
