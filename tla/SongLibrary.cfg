SPECIFICATION FairSpec
CONSTANTS
  outer = outer
  inner = inner
  other = other
  c1 = c1
  c2 = c2
  Roots <- MCRoots
  Charts <- MCCharts
  Below <- MCBelow
  MaxAdds <- MCMaxAdds
  MaxScans = 1
  MaxCancels = 1
  MaxFaults = 1
  MaxExits = 1
INVARIANTS
  TypeOK
  ScannedIsComplete
  NothingOutlivesItsRoot
  ToldOfEveryChange
  NothingIsForgotten
PROPERTIES
  QueueDrains
CHECK_DEADLOCK FALSE
