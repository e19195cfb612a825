\* Two connections of two secrets, one scrape after another.
CONSTANTS
  Conns = {c1, c2}
  Names = {alice, bob}
  Scrapers = {s1}
  MaxBytes = 0
  None = None
SPECIFICATION FairStatsSpec
INVARIANT CountersExact
INVARIANT QuietPageAgrees
PROPERTY CallsReturn
CHECK_DEADLOCK FALSE
