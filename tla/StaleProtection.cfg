CONSTANTS
  r1 = r1
  r2 = r2
  NoRun = NoRun
  Runs = {r1, r2}
  Ops = {"pause", "protect"}
  BackupsConfigured = FALSE
  LeaseMayBeLost = FALSE
  Grace = 1
  Retention = 1
  MaxTime = 1
  MaxCrashes = 0
SYMMETRY RunSymmetry
SPECIFICATION Spec
PROPERTIES ProtectionKept
