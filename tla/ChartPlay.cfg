SPECIFICATION FairSpec
CONSTANTS
  p1 = p1
  p2 = p2
  Players <- MCPlayers
  Kinds <- MCKinds
  Stages = 3
  MaxFaults = 3
  MaxCovers = 2
  MaxChoices = 1
INVARIANTS
  TypeOK
  SavedOnceIfPlayed
PROPERTIES
  StartsAsAsked
  FlowNeverStalls
CHECK_DEADLOCK FALSE
