CONSTANTS
    w1 = w1
    Count = 3
    Workers <- MCWorkers
    MaxPosts = 2
SPECIFICATION Spec
CHECK_DEADLOCK FALSE
INVARIANT PostTaskSafe
