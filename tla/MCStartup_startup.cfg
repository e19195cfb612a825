\* Every list of up to two parts, and every machine with one secret.
CONSTANTS
  KeyLen = 2
  NameLen = 3
  Environments <- AllEnvironments
SPECIFICATION FairStartupSpec
INVARIANT StartupTypeOK
INVARIANT LoadsWhatIsMeant
INVARIANT DiesForCause
INVARIANT LinkIsSecret
PROPERTY SettlesAsAsked
CHECK_DEADLOCK FALSE
