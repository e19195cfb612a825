\* Two connections of the device, two SYNs handled, repeated segments, stop.
CONSTANTS
  Flows = {f1, f2}
  Writers = {w1}
  MaxConns = 2
  MaxSegs = 1
  None = None
SPECIFICATION FairTunSpec
INVARIANT EntryWorks
PROPERTY StaleEntryGoes
PROPERTY SynAnswered
PROPERTY StopEmpties
PROPERTY ClosedEnds
CHECK_DEADLOCK FALSE
