SPECIFICATION ServicesSpec
CONSTANTS
    a = a
    b = b
    c = c
    d1 = d1
    Relay = {r1, r2}
    Here = r1
    Person = {a}
    Device = {d1}
    NoDevice = NoDevice
    Direct <- directMessages
    Socket = {s1, s2}
    HourLimit = 1
    DayLimit = 1
    MaxSends = 2
    MaxDrops = 1
    MaxMoves = 1
    None = None
    Member = {a, b, c}
    Creator = a
    Gadget = {g1, g2}
    NoGadget = NoGadget
    Text = {t1}
    Sender <- textSender
    MaxJoins = 2
    Nobody = Nobody
    Post = {1, 2}
    Author <- postAuthor
    Visitor = {a, b, c}
    ListMax = 1
    Nonce = {n1, n2}
    Attempt = {l1, l2, l3}
    NoNonce = NoNonce
    Upload = {1, 2, 3, 4}
    Size <- uploadSize
    MaxSize = 2
    CountLimit = 2
    BytesLimit = 3
    MaxGets = 2
    MaxCrashes = 1
    MaxAttempts = 3
    Ghost = {x1, x2}
    Flush = {f1, f2}
INVARIANTS
    ServicesTypeOK
    LimitsHold
    RoutedHome
    OnlyFailedMissed
    InOnePlace
    SpentOnce
    CacheSound
    KeptUntilDeleted
PROPERTIES
    CallsEnd
CHECK_DEADLOCK FALSE
