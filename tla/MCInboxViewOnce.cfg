SPECIFICATION InboxSpec
CONSTANTS
    MediaId = {}
    Call = {c1, c2, cron}
    MaxCount = 0
    NoRow = NoRow
    NoMedia = NoMedia
    Message = {m1}
    Target = {d1, d2}
    DefaultDevice = default
    ViewOnce = {m1}
    Ephemeral = {}
    Attached <- NoneAttached
    Cron = cron
    RowId = {1, 2}
    InboxMax = 2
    PushEnabled = TRUE
    NullMatches = FALSE
    MaxCrashes = 0
    NoMessage = NoMessage
    NoKey = 0
INVARIANT
    ViewOnceIsDeleted
CHECK_DEADLOCK FALSE
