\* A torrent kept in Pending while a run deletes.
SPECIFICATION Spec
CONSTANTS
    t1 = t1
    t2 = t2
    i1 = i1
    i2 = i2
    None = None
    Torrents <- PackTorrents
    Issues <- PackIssues
    Items <- PackItems
    IssueDate <- PackIssueDate
    Days <- PackDays
    Initially <- Present
    Grace = 1
    TorrentCap = 2
    IssueCapMultiplier = 2
    ApprovalTime = 1
    Events = {"keep"}
    MaxEvents = 1
    MaxTime = 4
PROPERTIES KeepProtects
