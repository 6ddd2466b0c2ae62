SPECIFICATION Spec
CONSTANTS
    t1 = t1
    t2 = t2
    v1 = v1
    v2 = v2
    Threads <- MCThreads
    NumPages = 3
    NumPagesCode = 3
    NumPagesInitData = 0
    NumPhysPages = 3
    TLBSize = 2
    Versions = {v1, v2}
INVARIANTS FramesOwned
 
SYMMETRY Symmetry
VIEW View
CHECK_DEADLOCK FALSE
