SPECIFICATION Spec
CONSTANTS
    N = 2
    KANAL <- OneBridge
    BYTES = 3
    Telling <- FirstAndLast
    Conversions = {1, 2, 3, 4, 5, 6}
    MaxGlitches = 3
INVARIANTS QuietBusReads OwnUnlessUnread No85
PROPERTIES ReadingsResume
