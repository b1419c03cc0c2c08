SPECIFICATION FairSpec
CONSTANTS
    k1 = k1
    k2 = k2
    n1 = n1
    w1 = w1
    w2 = w2
    None = None
    Conts = {k1, k2}
    Names = {n1}
    NsOf <- MCNsOf
    Watchers = {w1, w2}
    BufferSize = 2
    Scenarios <- MCScenarios
INVARIANTS CountsRight ClientKnowsNamespaces
PROPERTIES PushesEnd
CHECK_DEADLOCK FALSE
