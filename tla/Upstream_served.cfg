\* One upstream, another connection whose scripts use it, one client.
CONSTANTS
    Conns = {c1, c2}
    NoConn = NoConn
    Timers = {t1}
    NoTimer = NoTimer
    Slots <- HubSlot
    ListenNames = {}
    UserNames = {}
    NoName = ""
    TimedNodes = {"hub"}
    MaxAccepts = 1
    RestartTimers = FALSE
    Clients = {ann}
    NameOf <- OwnNames
    MaxReq = 2
    UpName = "hub.1"
    Careless = FALSE
SPECIFICATION UpFairSpec
INVARIANTS
    QueueHasConn
PROPERTIES
    Served
    Reconnects
