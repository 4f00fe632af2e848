\* Two requests, connections that come and go; everything ends.
CONSTANTS
    Gateways <- Row
    Links <- RowLinks
    Paths <- RowPaths
    NoAct = NoAct
    Acts <- TwoActs
    KnownActs <- GetOnly
    SendAct <- ToA
    MaxReq = 2
SPECIFICATION FairSpec
INVARIANTS
    AtItsPlace
    
    OneEnd
    
PROPERTIES
    Settles
