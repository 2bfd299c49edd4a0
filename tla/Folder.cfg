\* Two libraries with a download each; one of them has a file nobody can read.
SPECIFICATION FairSpec
CONSTANTS
    None = None
    pack = pack
    single = single
    news = news
    comics = comics
    Downloads <- TwoDownloads
    Libraries <- TwoLibraries
    LibraryOf <- OneEach
    Files <- ThreeFiles
    Path <- Paths
    Written <- NewsWritten
    MaxPatterns = 2
    Events = {"appear", "vanish", "api", "ignore", "unignore", "teach", "forget", "unreadable", "restart"}
    MaxEvents = 4
INVARIANTS LinkedIsFinished WarnedOnce
PROPERTIES FinishedIsLinked RowsFollowChoices ReadingsStay MarksAreForgotten
CHECK_DEADLOCK FALSE
