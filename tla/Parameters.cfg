CONSTANTS
    TextSize <- SlotSize
    Leftover = 20
    SENSORS = 2
    NUMBERS = 2
    MaxForms = 2
    MaxCuts = 1
SPECIFICATION Spec
INVARIANTS Kept MirrorsAgree UnsetOnlyIfTorn
CHECK_DEADLOCK FALSE
