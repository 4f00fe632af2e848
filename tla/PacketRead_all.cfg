\* Packets with a length or an end, routing packets, handshakes, junk.
CONSTANTS
    Confs <- AllConfs
    LenAt = 3
    AtMark = 12
    MatchMark = 13
    EndMark = 14
    ReadMax = 7
    IntWidth = 32
    SizeWidth = 1024
    NaN = 20
    MaxReloads = 2
SPECIFICATION FairRead
CHECK_DEADLOCK FALSE
INVARIANTS
    Exact
    Prompt
PROPERTIES
    Returns
