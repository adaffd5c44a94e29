SPECIFICATION FairSpec
CONSTANTS
    Delays <- ShortAndLong
    NVMOD = 6
    MaxFlips = 6
    MaxForms = 2
    MaxRestarts = 1
INVARIANT CountdownMeansAlarm
PROPERTIES OneCountdownPerPress InputKeepsContract PressReported
