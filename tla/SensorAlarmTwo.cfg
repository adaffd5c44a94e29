SPECIFICATION Spec
CONSTANTS
    N = 2
    Temps <- TwoTemps
    Settings <- TwoSettings
    ONEWIRE_ERROR_COUNT = 2
    NVMOD = 5
    MaxResets = 1
PROPERTY TestsCurrentReading
