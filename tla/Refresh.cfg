\* Requests merged while a worker refreshes.
SPECIFICATION FairSpec
CONSTANTS
    l1 = l1
    l2 = l2
    w1 = w1
    w2 = w2
    All = All
    Libraries <- TwoLibraries
    Workers <- TwoWorkers
    Events = {"request", "dbfails"}
    MaxEvents = 4
PROPERTIES KeepsPromise EveryChangeIsPickedUp
CHECK_DEADLOCK FALSE
