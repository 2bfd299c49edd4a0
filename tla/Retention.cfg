\* A pack and a second download of one of its issues, under all that may happen.
SPECIFICATION Spec
CONSTANTS
    t1 = t1
    t2 = t2
    i1 = i1
    i2 = i2
    None = None
    Torrents <- PackTorrents
    Issues <- PackIssues
    Items <- PackItems
    IssueDate <- PackIssueDate
    Days <- PackDays
    Initially <- Present
    Grace = 1
    TorrentCap = 1
    IssueCapMultiplier = 2
    ApprovalTime = 1
    Events = {"keep", "now", "gone", "extra", "issuekeep", "issueremove", "restore",
              "manual", "add", "category", "recheck", "restart", "outage", "approve", "arm", "disarm"}
    MaxEvents = 2
    MaxTime = 4
INVARIANTS OneDeleter
PROPERTIES GraceIsWaited KeptIsSafe OnlyExpiredPacks RemovedIsGone BatchesAreApproved
