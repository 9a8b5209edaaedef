SPECIFICATION FairSpec
CONSTANTS
  MaxUID = 2
  Chandler = {2}
  Batches = {1, 2}
  MaxQueue = 0
  MaxExits = 2
CHECK_DEADLOCK FALSE
INVARIANTS TypeOK NothingSkipped BlocksUntilDone
PROPERTIES MailGoesOn ShutdownReturns
