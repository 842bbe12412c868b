SPECIFICATION FairSpec
CONSTANTS
  MaxTexts = 7
  BatchSize = 2
  MaxParallel = 3
INVARIANTS
  VectorsMatchTexts
  FailureIsRaised
  NothingLeftRunning
PROPERTIES
  CallEnds
