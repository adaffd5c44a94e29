SPECIFICATION Spec
CONSTANTS
    N = 2
    M = 2
    MaxReadings = 5
    MaxSaves = 5
    MaxForms = 1
    MaxRestarts = 1
INVARIANTS MktIsRecent MeansAreTrue EachReadingOnce MeanOfPeriod
CHECK_DEADLOCK FALSE
