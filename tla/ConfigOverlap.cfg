\* A copy of the settings that is confirmed late writes old folders back.
SPECIFICATION Spec
CONSTANTS
    None = None
    NoCategory = NoCategory
    anna = anna
    ben = ben
    news = news
    comics = comics
    left = left
    right = right
    Users <- TwoUsers
    Categories <- AnyCategory
    Folders <- TwoFolders
    Days <- TwoTerms
    MaxId = 2
    Events = {"client", "create", "library"}
    MaxEvents = 3
SYMMETRY Alike
INVARIANTS NoOverlap
CHECK_DEADLOCK FALSE
