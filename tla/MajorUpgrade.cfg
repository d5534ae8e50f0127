CONSTANTS
  MaxActors = 3
  MaxFaults = 2
  MaxWrites = 2
  RecordAnswered = TRUE
SPECIFICATION FairSpec
INVARIANTS TypeOK DataKept ActiveHasAll OutcomeTrue
PROPERTIES OnlyOwnerActs RunEnds
