SPECIFICATION Spec
CONSTANTS
    Message = {m1, m2}
    Attachment = {m1}
    Ghost = {m2}
    System = {}
    Device = {d1, d2}
    OwnDevice = {}
    NoDevice = NoDevice
    MaxFaults = 2
    NoMessage = NoMessage
INVARIANTS
    SendTypeOK
    NothingLost
    InOrder
PROPERTIES
    TicksStay
    IsOutbox
    RunDrainsQueue
CHECK_DEADLOCK FALSE
