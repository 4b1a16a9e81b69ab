\* Three batches with any two of pause, resume, restart and failure, two in progress at once.
SPECIFICATION FairSpec
CONSTANTS
  LastBatch = 2
  MaxActs = 2
  MaxRuns = 2
INVARIANTS TypeOK SentIsMailed MailedOnce
PROPERTIES PauseHonoured RampSettles
CHECK_DEADLOCK FALSE
