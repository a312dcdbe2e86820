CONSTANTS
    MaxChanges = 2
    MaxCuts = 2
    MaxSeats = 2
    MaxFaults = 1
SPECIFICATION FairSpec
INVARIANTS
    TypeOK
    PublishedIsHeld
    RequestIsServed
PROPERTIES
    Converges
CHECK_DEADLOCK FALSE
