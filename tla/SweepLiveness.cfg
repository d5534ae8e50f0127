CONSTANTS
  r1 = r1
  r2 = r2
  NoRun = NoRun
  Runs = {r1, r2}
  Ops = {"delete", "cancel", "sweep", "purge", "retention"}
  BackupsConfigured = TRUE
  LeaseMayBeLost = FALSE
  Grace = 1
  Retention = 1
  MaxTime = 2
  MaxCrashes = 1
SPECIFICATION SweptSpec
PROPERTIES LeaseComesBack ScheduledEnds ContractKept
