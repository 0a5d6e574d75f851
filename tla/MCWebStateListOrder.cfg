CONSTANTS
    WebStates = {w1, w2, w3}
    NoWebState = NoWebState
    MaxItems = 2
SYMMETRY MCSymmetry
SPECIFICATION Spec
INVARIANTS
    ActiveIndexValid
    OpenersInList
PROPERTIES
    SelectionKept
    ActiveChangeNotified
    NewTabJoinsGroup
