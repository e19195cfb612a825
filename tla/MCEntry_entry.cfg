\* One connection of each client; three bytes each way in records of up to three.
CONSTANTS
  InitLen = 8
  MaxRecord = 1
  BufLen = 2
  MaxBytes = 3
  Clients <- AllClients
  Secrets <- TwoKinds
SPECIFICATION EntrySpec
INVARIANT EntryTypeOK
INVARIANT AcceptsWhatWasAsked
INVARIANT RejectsForCause
INVARIANT EndLosesOnlyTheCut
PROPERTY UpIsStream
PROPERTY DownIsStream
CHECK_DEADLOCK FALSE
