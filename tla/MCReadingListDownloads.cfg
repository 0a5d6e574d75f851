CONSTANTS
    u1 = u1
    u2 = u2
    URLs <- MCURLs
    NoURL = NoURL
    MaxLoads = 2
    NumberOfFailsBeforeWifiOnly = 1
    NumberOfFailsBeforeStop = 2
    MaxEvents = 3
SPECIFICATION Spec
INVARIANTS
    TypeOK
    QueueServed
    NoOrphans
PROPERTIES
    PartialNotFound
    SaverAlone
    ProcessedWithCopy
    EntrySettles
CHECK_DEADLOCK FALSE
