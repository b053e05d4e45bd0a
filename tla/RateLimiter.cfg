SPECIFICATION FairSpec
CONSTANTS
  Threads = {t1, t2, t3}
  MinInterval = 1
  MaxInterval = 5
  RetryAfterCap = 5
  RecoveryQuiet = 1
  BackoffTicks <- Backoffs
  MaxRetries = 1
  RetryAfters = {6}
  NoHeader = NoHeader
INVARIANTS TypeOK SlotsApart
PROPERTIES SlotsAfterCoolOff RequestsEnd
