SPECIFICATION FairSyncSpec
CONSTANTS
  Thread = {t1, t2}
  Runner = {r1}
  None = None
  Calls = {"run_once", "reschedule"}
  Answers = {TRUE}
  Durable = FALSE
  MaxRequests = 1
  MaxShares = 1
INVARIANTS SyncTypeOK RunsExclusive IdleMeansIdle RequestsNotDropped NeverRaises
PROPERTIES DownBetweenJobs SyncsForever
CHECK_DEADLOCK FALSE
