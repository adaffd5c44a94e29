CONSTANTS
    TextSize <- LongPassword
    Leftover = 20
    SENSORS = 2
    NUMBERS = 2
    MaxForms = 2
    MaxCuts = 1
SPECIFICATION Spec
INVARIANT Kept
CHECK_DEADLOCK FALSE
