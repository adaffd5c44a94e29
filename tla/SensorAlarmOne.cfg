SPECIFICATION FairSpec
CONSTANTS
    N = 1
    Temps <- BandTemps
    Settings <- OneSettings
    ONEWIRE_ERROR_COUNT = 2
    NVMOD = 6
    MaxResets = 2
INVARIANTS NoSilentAlarm AlarmIsLogged
PROPERTIES KeepsContract HighAlarmReported FaultReported
