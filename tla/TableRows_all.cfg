\* Two rows, four ids: rows are written, fail half way, are deleted and
\* loaded again.  A sorted table that is full refuses everything.
CONSTANTS
    MaxId = 4
    MaxRows = 2
    Values = {u, v}
    Blank = Blank
    Base = 256
    TwoIds = {0}
    MaxCrash = 1
    AnyId = FALSE
    Careless = FALSE
SPECIFICATION Spec
SYMMETRY Symmetry
INVARIANTS
    RowsIndexed
    SortSeeks
    Saved
PROPERTIES
    NeverReused
    OthersKept
CHECK_DEADLOCK FALSE
