SPECIFICATION Spec
CONSTANTS
  Hosts <- MCHosts
  Workers <- MCWorkers
  ForeignWelcomes <- MCForeign
  Ceiling <- MCCeiling
  Release = "0.7.0"
  None = None
INVARIANTS ReadyPeersAgree ReadyLimits
CHECK_DEADLOCK FALSE
