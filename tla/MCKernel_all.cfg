SPECIFICATION KernelSpec
CONSTANTS
    HeapSize = 12
    Hdr = 2
    Sizes = {1, 2}
    MaxLive = 3
    Slots = {1, 2}
    HeapPages = 3
    Requests = {1, 2, 3}
    Blocks = {b1, b2, b3}
    LedgerSize = 2
    MaxFiles = 2
    Cap = 2
    MaxPos = 3
    p1 = p1
    p2 = p2
    Procs <- TwoProcs
    FdMax = 4
    Sessions <- MCSessions
    MaxEntries = 4
    n1 = n1
    n2 = n2
    Names <- TwoNames
    Parents = {0, 1}
    CommandSets <- MCCommandSets
SYMMETRY KernelSymmetry
INVARIANTS
    HeapSound
    LiveKept
    
    
    GrowsAsTree
    CallsKeepNamesUnique
    CallsKeepFiles
 
CHECK_DEADLOCK FALSE
