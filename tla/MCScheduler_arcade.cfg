SPECIFICATION Spec
CONSTANTS
    MaxThreads = 3
    VmMaxProc = 2
    Boot = Boot
    NoStack = NoStack
    b1 = b1
    b2 = b2
    b3 = b3
    b4 = b4
    Stacks <- FourBlocks
    Commands <- AllCommands
SYMMETRY StackSymmetry
INVARIANT RunningStackKept

