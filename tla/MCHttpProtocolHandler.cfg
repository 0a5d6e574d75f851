CONSTANTS
    MaxChunks = 3
    MaxPauses = 3
SPECIFICATION Spec
INVARIANTS
    StreamIntact
    CancelReleases
    NoStaleCounts
PROPERTIES
    ClientContract
    LoadEnds
CHECK_DEADLOCK FALSE
