\* A SOCKS5 relay of the main port: the deadline of Accept ends it while it works.
CONSTANTS
  Conns = {c1}
  Names = {alice}
  Scrapers = {}
  MaxBytes = 1
  None = None
  Kinds <- SocksOnly
  SocksPort = FALSE
  Window = 1
  DoneCap = 2
SPECIFICATION ServerSpec
PROPERTY OnlyIdleTimesOut
CHECK_DEADLOCK FALSE
