\* Three requests, or destructions, of the service, two of them at once.
CONSTANTS
  Callers = {1, 2, 3}
  Sessions = {1, 2, 3}
  AtOnce = 2
  PortTaken = FALSE
  None = None
SPECIFICATION FairVpnSpec
INVARIANT RunningMeansUp
INVARIANT NotRunningMeansDown
PROPERTY JobsEnd
CHECK_DEADLOCK FALSE
