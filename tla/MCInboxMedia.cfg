SPECIFICATION Spec
CONSTANTS
    MediaId = {x1}
    Call = {c1, c2, cron}
    MaxCount = 2
    NoRow = NoRow
    NoMedia = NoMedia
    Message = {m1, m2}
    Target = {default}
    DefaultDevice = default
    ViewOnce = {m1}
    Ephemeral = {m2}
    Attached <- AllAttached
    Cron = cron
    RowId = {1, 2}
    InboxMax = 2
    PushEnabled = FALSE
    NullMatches = TRUE
    MaxCrashes = 2
    NoMessage = NoMessage
    NoKey = 0
SYMMETRY CallSymmetry
CONSTRAINT Uncontended
INVARIANTS
    RefCountExact
    MediaOfStoredIsKept
CHECK_DEADLOCK FALSE
