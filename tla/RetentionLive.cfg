\* What must happen in the end.
SPECIFICATION FairSpec
CONSTANTS
    t1 = t1
    t2 = t2
    i1 = i1
    i2 = i2
    None = None
    Torrents <- SoloTorrents
    Issues <- SoloIssues
    Items <- SoloItems
    IssueDate <- SoloIssueDate
    Days <- SoloDays
    Initially <- Present
    Grace = 1
    TorrentCap = 1
    IssueCapMultiplier = 2
    ApprovalTime = 1
    Events = {"keep", "unkeep", "arm", "disarm", "settings", "now", "restore", "damage",
              "category", "recheck", "undeletable", "outage", "fails", "restart"}
    MaxEvents = 2
    MaxTime = 4
PROPERTIES DueIsDecided DisarmEmptiesQueue
