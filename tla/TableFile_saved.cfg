\* Every operation, a crash or a failure at every write, objects deleted and created again.
CONSTANTS
    Values = {a, b}
    Garbage = Garbage
    None = None
    MaxRows = 3
SPECIFICATION Spec
SYMMETRY Symmetry
INVARIANTS
    FileCurrent
PROPERTIES
    Recovered
