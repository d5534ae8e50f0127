CONSTANTS
  r1 = r1
  r2 = r2
  f = f
  g = g
  None = None
  Missing = Missing
  Replicas = {r1, r2}
  Functions = {f}
  Modules = {f}
  Names = {1, 2, 3}
  Schedules <- MCSchedules
  Bundles <- MCBundles
  Day = 4
  Hour = 2
  MinInterval = 2
  MaxJobs = 2
  SweepTimeout = 1
  MinBackoff = 2
  MaxBackoff = 3
  Word = 8
  MidTickLoss = TRUE
  MaxFaults = 1
SPECIFICATION Spec
INVARIANTS Cadence
