CONSTANTS
    u1 = u1
    u2 = u2
    URLs <- MCURLs
    NoURL = NoURL
    MaxLoads = 1
    NumberOfFailsBeforeWifiOnly = 2
    NumberOfFailsBeforeStop = 3
    MaxEvents = 3
SPECIFICATION Spec
PROPERTY ExistsIsNoFailure
CHECK_DEADLOCK FALSE
