\* Requests against runs, other holders, failures and restarts.
SPECIFICATION FairSpec
CONSTANTS
    None = None
    scanNow = scanNow
    apiScan = apiScan
    settingsSaved = settingsSaved
    Triggered <- TwoTriggers
    Silent <- OneChange
    Interval = TRUE
    Events = {"request", "other", "dbfails", "restart"}
    MaxEvents = 5
INVARIANTS NoLostWakeup
PROPERTIES QueuedUntilRun EveryRequestRuns
CHECK_DEADLOCK FALSE
