\* Connections of both directions and their timers, under every script.
CONSTANTS
    Conns = {c1, c2, c3}
    NoConn = NoConn
    Timers = {t1, t2}
    NoTimer = NoTimer
    Slots <- ThreadsAndPlain
    ListenNames = {"web"}
    UserNames = {"user"}
    NoName = ""
    TimedNodes = {"hub", "web"}
    MaxAccepts = 2
    RestartTimers = FALSE
SPECIFICATION Spec
SYMMETRY Symmetry
INVARIANTS
    CountsAgree
    OneConnPerThread
    
    TimersOwned
PROPERTIES
    ConnectingLeavesByEvent
