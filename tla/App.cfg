\* Two images, three migrations apart; a window of four first locks.
SPECIFICATION Spec
CONSTANTS
    None = None
    owner = owner
    home = home
    away = away
    first = first
    second = second
    Images = {1, 3}
    Keep = 2
    NoRows <- NewRows
    Tokens <- TwoTokens
    Addresses <- TwoAddresses
    Owner = owner
    Window = 4
    Free = 2
    MaxLock = 4
    Idle = 2
    Absolute = 4
    Touch = 1
    MaxTime = 5
    Events = {"setup", "login", "fail", "logout", "password", "stop", "image", "restore"}
    MaxEvents = 5
SYMMETRY Symmetric
INVARIANTS SchemaIsServed Recoverable TriesAreBounded SessionsFollowPassword
CHECK_DEADLOCK FALSE
