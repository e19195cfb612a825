\* Two threads start and stop two sessions.
CONSTANTS
  Callers = {t1, t2}
  Sessions = {s1, s2}
  PortTaken = TRUE
  None = None
SPECIFICATION FairClientSpec
INVARIANT RunningIsServing
INVARIANT CanBeStopped
PROPERTY StopReturns
PROPERTY CancelledEnds
CHECK_DEADLOCK FALSE
