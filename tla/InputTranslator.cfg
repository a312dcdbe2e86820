SPECIFICATION InputSpec
CONSTANTS
    k = k
    white = white
    scratchUp = scratchUp
    scratchDown = scratchDown
    Keys = {k}
    Wheels = {"axis", "bend"}
    Buttons = {white, scratchUp, scratchDown}
    NoButton = none
    Inverted <- MCInverted
    StartConfig <- MCStartConfig
    Intervals = {0, 1, 2}
    AxisTimeout = 1
    LastEvent = 2
    MaxDelay = 1
    Horizon = 5
    MaxEvents = 3
    MaxBinds = 1
    MaxChanges = 1
INVARIANTS
    InputTypeOK
    ButtonsFollowKeys
    ReleaseOutlastsItsInterval
PROPERTIES
    NoHitIsSwallowed
CHECK_DEADLOCK FALSE
