SPECIFICATION JudgingSpec
CONSTANTS
    NoteKeys = {up, down}
    NoKey = NoKey
    Charts <- MCCharts
    Good = 1
    Bad = 2
    Early = 4
    LastTick = 9
    MaxKeyEvents = 4
    MaxStalls = 1
INVARIANTS
    JudgingTypeOK
    AllNotesJudged
    PunctualPlayIsReproduced
PROPERTIES
    JudgedForGood
SYMMETRY KeySymmetry
CHECK_DEADLOCK FALSE
