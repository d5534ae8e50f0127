CONSTANTS
  t1 = t1
  t2 = t2
  w1 = w1
  w2 = w2
  Tasks = {t1, t2}
  Oversized = {t2}
  Workers = {w1, w2}
  MaxAttempts = 3
  Batch = 2
  Concurrency = 1
  Timeout = 1
  Lease = 2
  MaxDelay = 1
  BackoffCap = 1
SPECIFICATION FairSpec
INVARIANTS TypeOK OneWorkerPerTask BudgetKept
PROPERTIES FinalStays Settles
