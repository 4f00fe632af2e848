\* Rings that keep a row of room, and tables that are no ring; restarts.
CONSTANTS
    MaxNum = 4
    MaxTime = 1
    MaxCrash = 1
    Overrun = FALSE
SPECIFICATION FairSpec
INVARIANTS
    DueServed
PROPERTIES
    OpenKept
    CycleEnds
