CONSTANTS
    Profiles = {alice, bob}
    Nobody = nobody
    Anonymous = anonymous
    ReconnectGrace = 3
    AttemptTimeout = 2
    InitialBackoff = 1
    MaximumBackoff = 2
    MaxDisruptions = 5
    MaxGenerations = 4
SPECIFICATION FairSpec
INVARIANTS
    TypeOK
    SeatBelongsToActiveIdentity
    NeverStranded

PROPERTIES
    ReconnectingEnds
    SeatKept
CHECK_DEADLOCK FALSE
