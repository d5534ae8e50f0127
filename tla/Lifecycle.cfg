CONSTANTS
  r1 = r1
  r2 = r2
  NoRun = NoRun
  Runs = {r1, r2}
  Ops = {"pause", "resume", "delete", "cancel", "sweep", "protect"}
  BackupsConfigured = TRUE
  LeaseMayBeLost = FALSE
  Grace = 1
  Retention = 1
  MaxTime = 2
  MaxCrashes = 1
SYMMETRY RunSymmetry
SPECIFICATION Spec
INVARIANTS TypeOK OneOperationAtATime PausedMeansStopped GoneMeansClean
PROPERTIES ResumedMeansServing GraceHonoured
