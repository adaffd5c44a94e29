SPECIFICATION FairSpec
CONSTANTS
    SOURCES = 3
    R = 2
    G = 2
    WAppOn <- TheWAppOn
    SMSOn <- TheSMSOn
    DELAY <- TheDelay
    MaxAlarms = 2
    MaxRequests = 2
    MaxCredits = 0
    MaxRestarts = 1
INVARIANTS TypeOK RightRecipients LastOfSecondSent NoMoreThanRaised
PROPERTIES CalmIsSent
CHECK_DEADLOCK FALSE
