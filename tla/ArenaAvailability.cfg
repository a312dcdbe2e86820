CONSTANTS
    Charts = {c1, c2}
    MaxRevisions = 2
    MaxCuts = 2
    MaxFaults = 2
SPECIFICATION FairSpec
INVARIANTS
    TypeOK
    IndexIsOfItsRevision
PROPERTIES
    BecomesCurrent
CHECK_DEADLOCK FALSE
