\* Two sessions at a time, through sweeps and changes of the clock.
CONSTANTS
    Wide = 4
    Lows <- SmallLows
    Data = {d1, d2}
    Times <- SmallTimes
    Ages <- SmallAges
    MaxSessions = 2
SPECIFICATION Spec
INVARIANTS
    MapsSound
PROPERTIES
    ImplementsCache
