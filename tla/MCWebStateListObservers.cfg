CONSTANTS
    WebStates = {w1, w2, w3}
    NoWebState = NoWebState
    MaxItems = 0
    BatchSize = 2
SYMMETRY MCSymmetry
SPECIFICATION ObsSpec
INVARIANTS
    ConsumerMirrorsList
PROPERTIES
    EnumerationInOrder
    SavedIffActiveClosed
