\* One flow over one connection, from the authentication to its last goroutine.
CONSTANTS
  Flows = {f1}
  MaxStreams = 2
  MaxBytes = 2
  Window = 1
  DoneCap = 2
  Dials = {"ok", "fail"}
  MaxFaults = 1
SPECIFICATION FairHy2Spec
INVARIANT Hy2TypeOK
INVARIANT SuccessIsEarned
INVARIANT SlotLostForCause
PROPERTY StopEndsFlow
PROPERTY AnswerArrives
PROPERTY RequestArrives
PROPERTY AuthReturns
CHECK_DEADLOCK FALSE
