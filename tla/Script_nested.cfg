SPECIFICATION ScriptFairSpec
CONSTANTS
    f1 = f1
    f2 = f2
    g1 = g1
    cb = cb
    F = F
    G = G
    None = None
    Calls <- MCCalls
    FuncOf <- MCFuncOf
    Anon = None
    Args = {1, 2}
    Steps = {1}
    MaxTo = 2
    Packets <- MCPackets
    MaxDepth = 4
    MaxActs = 4
    Careless = FALSE
INVARIANTS OwnParas CutOnce
PROPERTY Ends
