\* Two nodes, a quota that grows to two mails and a seed, four moves from outside.
SPECIFICATION FairSpec
CONSTANTS
  Nodes = {1, 2}
  Step = 1
  DailyLimit <- Limits
  SeedsEach = 2
  MaxAttempts = 2
  Limit = 6
  MaxDay = 2
  MaxMoves = 4
  MaxFaults = 1
INVARIANTS TypeOK MailAccounted DayCapHolds
PROPERTIES SilentWhenHeld QueueSettles
