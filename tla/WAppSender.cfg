SPECIFICATION WAppFairSpec
CONSTANTS
    R = 2
    MaxAlarms = 3
INVARIANT AllSent
PROPERTIES ChannelDrains NoRepeat
CHECK_DEADLOCK FALSE
