\* Two segments written by coroutines of their own.
CONSTANTS
  Flows = {f1}
  Writers = {w1, w2}
  MaxConns = 1
  MaxSegs = 2
  None = None
SPECIFICATION TunSpec
PROPERTY NextSeqExpected
CHECK_DEADLOCK FALSE
