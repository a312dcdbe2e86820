CONSTANTS
    Charts = {c1, c2}
    MaxRevisions = 2
    MaxCuts = 0
    MaxFaults = 0
SPECIFICATION Spec
PROPERTIES
    GaplessDeltaApplies
CHECK_DEADLOCK FALSE
