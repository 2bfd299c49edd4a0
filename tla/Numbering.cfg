\* Five downloads and four of anything the user or the world outside may do.
SPECIFICATION FairSpec
CONSTANTS
    None = None
    jan1 = jan1
    jan2 = jan2
    sep = sep
    late = late
    high = high
    Downloads <- FiveDownloads
    NameOf <- NamesOfDownloads
    RefOf <- MonthsOfDownloads
    Events = {"arrive", "leave", "choose", "remove", "restore", "fix", "lose", "stop"}
    MaxEvents = 4
INVARIANTS DetectedForAReason OneReading LinkedOnce BooksBearTheirLabel SecondLabelShows
PROPERTIES RelabelledInTheEnd
