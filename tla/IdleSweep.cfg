SPECIFICATION FairSpec
CONSTANTS
  Day = 1
  PauseAfterDays = 3
  ResumeGrace = 1
  StuckAfter = 1
  BackoffBase = 1
  BackoffCeiling = 2
  Budget = 1
  Window = 1
  MaxWork = 1
  MaxFaults = 1
  Unread = Unread
INVARIANTS TypeOK WarnedOnce
PROPERTIES PausedWhenUnused StuckEnds IdleEnds
