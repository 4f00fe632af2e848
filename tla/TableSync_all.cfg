\* Five rows over two bytes of marks with two rows to a bit.
CONSTANTS
    MaxRows = 5
    ByteBits = 2
    DataLen = 2
    MaxNum = 8
    Pages <- SomePages
    MaxCrash = 1
    Strict = TRUE
SPECIFICATION SyncSpec
INVARIANTS
    Tracked
    MarksExact
