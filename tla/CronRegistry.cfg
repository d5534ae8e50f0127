CONSTANTS
  r1 = r1
  r2 = r2
  f = f
  g = g
  None = None
  Missing = Missing
  Replicas = {r1, r2}
  Functions = {f, g}
  Modules = {f}
  Names = {1, 2, 3}
  Schedules <- MCSchedules
  Bundles <- MCBundles
  Day = 4
  Hour = 2
  MinInterval = 2
  MaxJobs = 2
  SweepTimeout = 1
  MinBackoff = 1
  MaxBackoff = 1
  Word = 8
  MidTickLoss = FALSE
  MaxFaults = 1
SPECIFICATION FairSpec
INVARIANTS TypeOK OneWalker Cadence BookkeepingMatches NextSlot
PROPERTIES KeepsRunning
