CONSTANTS
  r1 = r1
  r2 = r2
  NoRun = NoRun
  Runs = {r1, r2}
  Ops = {"resume", "protect", "force", "retention"}
  BackupsConfigured = TRUE
  LeaseMayBeLost = TRUE
  Grace = 1
  Retention = 1
  MaxTime = 2
  MaxCrashes = 1
SYMMETRY RunSymmetry
SPECIFICATION Spec
INVARIANTS GoneMeansClean KeptBackupsAreDated
PROPERTIES OneWayDoor ConfirmedPurgeStands
