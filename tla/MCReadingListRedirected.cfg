CONSTANTS
    u1 = u1
    u2 = u2
    URLs <- MCURLs
    NoURL = NoURL
    MaxLoads = 2
    NumberOfFailsBeforeWifiOnly = 2
    NumberOfFailsBeforeStop = 3
    MaxEvents = 3
SPECIFICATION Spec
INVARIANT SavesForOriginal
CHECK_DEADLOCK FALSE
