\* Two users and up to two libraries, with scans in between.
SPECIFICATION Spec
CONSTANTS
    None = None
    NoCategory = NoCategory
    anna = anna
    ben = ben
    news = news
    comics = comics
    left = left
    right = right
    Users <- TwoUsers
    Categories <- AnyCategory
    Folders <- TwoFolders
    Days <- TwoTerms
    MaxId = 2
    Events = {"retention", "client", "arm", "disarm", "api", "switch", "create", "library", "delete", "scan"}
    MaxEvents = 4
SYMMETRY Alike
INVARIANTS NoOverlapUnlessOverwritten
PROPERTIES ArmedAsReviewed RepointedIsCancelled RiskyIsConfirmed
CHECK_DEADLOCK FALSE
