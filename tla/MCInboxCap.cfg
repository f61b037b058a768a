SPECIFICATION LiveInboxSpec
CONSTANTS
    MediaId = {}
    Call = {c1, c2, cron}
    MaxCount = 0
    NoRow = NoRow
    NoMedia = NoMedia
    Message = {m1}
    Target = {default}
    DefaultDevice = default
    ViewOnce = {}
    Ephemeral = {m1}
    Attached <- NoneAttached
    Cron = cron
    RowId = {1, 2, 3}
    InboxMax = 1
    PushEnabled = FALSE
    NullMatches = FALSE
    MaxCrashes = 0
    NoMessage = NoMessage
    NoKey = 0
INVARIANT
    CapOvershoot
PROPERTY
    ExpiredIsPruned
CHECK_DEADLOCK FALSE
