SPECIFICATION FairSpec
CONSTANTS
    ScanSetups <- AllPeriods
    StartTimes <- Midnight
    SetTimes <- Critical
    MaxDisturb = 1
INVARIANTS NoRestartLoop NoDoubleRow
PROPERTIES KeepsTimetable SamplingGoesOn
