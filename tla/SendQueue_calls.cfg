\* Two clients that come and go, three requests, every nesting of scripts.
CONSTANTS
    Clients = {ann, bob}
    NameOf <- OwnNames
    MaxReq = 3
SPECIFICATION Spec
SYMMETRY ClientSymmetry
INVARIANTS
    
    CallsLive
PROPERTIES
    AnswerBelongs
    TimeoutHitsExpired
