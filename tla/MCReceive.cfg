SPECIFICATION Spec
CONSTANTS
    Message = {1, 2}
    Run = {1, 2}
    Kinds <- MixedKinds
    PushEnabled = TRUE
    MaxFaults = 1
    NoMessage = 0
INVARIANTS
    ReceiveTypeOK
    AckedIsHandled
    ProcessedIsSaved
    
PROPERTIES
    EventuallyHandled
    SeenIsSaved
CHECK_DEADLOCK FALSE
