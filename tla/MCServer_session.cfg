\* One connection of every kind, with data in both directions, from Accept to its end.
CONSTANTS
  Conns = {c1}
  Names = {alice}
  Scrapers = {}
  MaxBytes = 2
  None = None
  Kinds <- Anyone
  SocksPort = TRUE
  Window = 1
  DoneCap = 2
SPECIFICATION FairServerSpec
INVARIANT EndsOnlyForCause
INVARIANT ActiveIsRelays
INVARIANT TrafficExact
PROPERTY StatsSpec
PROPERTY HandshakeBounded
PROPERTY NoGoroutineLeak
PROPERTY StopEndsSession
CHECK_DEADLOCK FALSE
