CONSTANTS
    MaxRounds = 2
    MaxCuts = 2
    MaxSeats = 1
SPECIFICATION FairSpec
INVARIANTS
    TypeOK
    RunnersAreOwned
    OneTerminal
    AgreesWithRoom
PROPERTIES
    StartsOnlySeated
    TerminalSettles
CHECK_DEADLOCK FALSE
