\* Two main tasks with sons of every kind; lost, empty and failed answers.
CONSTANTS
    Num = 6
    MainOf <- TwoGroups
    Cloud = {1, 3, 4}
    Block = {1, 4}
    MayFail = {0, 2, 3, 5}
    Switched = {0, 2}
    Punctual = TRUE
SPECIFICATION FairSpec
INVARIANTS
    InOrder
PROPERTIES
    OneTrip
    Rotates
