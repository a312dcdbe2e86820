SPECIFICATION JudgingSpec
CONSTANTS
    NoteKeys = {up, down}
    NoKey = NoKey
    Charts <- MCCharts
    Good = 1
    Bad = 2
    Early = 4
    LastTick = 9
    MaxKeyEvents = 4
    MaxStalls = 0
INVARIANTS
    ReplayReproducesScore
SYMMETRY KeySymmetry
CHECK_DEADLOCK FALSE
