SPECIFICATION MCSpec
CONSTANTS
    MediaId = {x1}
    Call = {c1, c2}
    Counting = {c2}
    MaxCount = 2
    NoRow = NoRow
    NoMedia = NoMedia
INVARIANTS
    MediaTypeOK
    CountedIsKept
    UploadedIsReal
PROPERTY
    DueIsSwept
