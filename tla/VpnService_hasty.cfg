\* A disconnect, or the end of the service, while a connect is under way.
CONSTANTS
  Callers = {1, 2}
  Sessions = {1, 2}
  AtOnce = 2
  PortTaken = FALSE
  None = None
SPECIFICATION VpnSpec
INVARIANT ConnectedIsConnected
CHECK_DEADLOCK FALSE
