CONSTANTS
    t1 = t1
    t2 = t2
    Tabs <- MCTabs
    MaxEvents = 5
SPECIFICATION Spec
CHECK_DEADLOCK FALSE
INVARIANTS
    TypeOK
    NoSaveLost
    IncognitoGone
    InfobarHonest
PROPERTIES
    RestartKeepsTabs
    SavedEventually
