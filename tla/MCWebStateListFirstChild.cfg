CONSTANTS
    WebStates = {w1, w2, w3, w4}
    NoWebState = NoWebState
    MaxItems = 0
SYMMETRY MCSymmetry
SPECIFICATION Spec
PROPERTIES
    FirstChildSelected
