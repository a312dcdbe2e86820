CONSTANTS
    MaxRounds = 2
    MaxCuts = 0
    MaxSeats = 1
SPECIFICATION Spec
INVARIANTS
    NoOtherIsRetained
CHECK_DEADLOCK FALSE
