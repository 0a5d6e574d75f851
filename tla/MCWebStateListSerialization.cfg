CONSTANTS
    WebStates = {w1, w2, w3}
    NoWebState = NoWebState
    MaxItems = 1
    MaxSavedTabs = 2
SYMMETRY MCSymmetry
SPECIFICATION SerSpec
PROPERTIES
    RoundTrip
    RestoredApart
    SelectionRestored
