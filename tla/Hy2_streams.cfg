\* Two flows, room for one stream beside that of the authentication; no dial succeeds.
CONSTANTS
  Flows = {f1, f2}
  MaxStreams = 2
  MaxBytes = 0
  Window = 1
  DoneCap = 2
  Dials = {"fail"}
  MaxFaults = 0
SPECIFICATION FairHy2Spec
PROPERTY EveryConnectionGetsAStream
CHECK_DEADLOCK FALSE
