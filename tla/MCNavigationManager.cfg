CONSTANTS
    a = a
    b = b
    URLs <- MCURLs
    Transitions = {"LINK", "RELOAD"}
    Options = {"INHERIT", "DESKTOP"}
    NoItem = NoItem
    MaxItems = 4
    MaxRestored = 1
SPECIFICATION Spec
CONSTRAINT MCBound
INVARIANTS
    IndicesValid
    OnePendingItem
    BackButtonMatchesList
    ForwardThenBack
PROPERTIES
    CommittedPageKept
    NewPageEndsHistory
