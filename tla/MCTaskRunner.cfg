SPECIFICATION MCSpec
CONSTANTS
  Thread = {t1, t2}
  Runner = {r1, r2, r3}
  None = None
  Calls = {"run_once", "stop", "reschedule"}
  Answers = {TRUE, FALSE}
  Durable = FALSE
  MaxRequests = 3
INVARIANTS TypeOK OneTimer LiveRunsExclusive
PROPERTIES RequestsRun StopSettles RunsForever
CHECK_DEADLOCK FALSE
