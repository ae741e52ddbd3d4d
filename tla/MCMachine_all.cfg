SPECIFICATION MachineSpec
CONSTANTS
    NBlocks = 2
    MaxEdits = 3
    MaxBoots = 3
    Editors = {"gui", "shell", "process"}
    Faults = {"power", "read", "write"}
    HOURS = 2
    MINS = 2
    SECS = 2
    FirstDates <- MCDates
    JiffyRange = 4
    MaxSeconds = 5
    MaxJiffies = 6
    MaxLeaves = 3
    MaxDraws = 1
    LimbBits = 3
    EcCurves <- MCCurves
    Scalars = {1, 3, 42, 61}
    Digests = {0, 60}
    RsaKeys <- MCRsa
    MinPad = 1
    DigestInfo = 5
    BLOCK = 4
    LENGTH = 1
    BLOCK384 = 5
    LENGTH384 = 2
    DIGEST = 2
    SEED_MAX = 6
    Bytes <- MCBytes
    MaxText = 8
    Secrets <- MCSecrets
    Seeds <- MCSeeds
    IV = 2
    CTR = 2
    Tail128 <- MCTail
    Cipher <- MCCipher
    CipherKeys = {1, 2}
    Plains <- MCPlains
    Aads <- MCAads
    LIMB = 8
    LIMBS = 2
    FOLD = 38
    A24 = 301
    BaseU = 9
    MaskLow = 8
    Privates = {0, 1, 5000, 12345, 32767}
    Programs <- MCPrograms
    BuiltinName = "blackjack.elf"
    Builtin <- MCBuiltin
    Names = {"blackjack.elf", "a"}
    MEM = 15
    KBASE = 2
    MAP_LIMIT = 6
    HEAP = 6
    RootList = 1
    BinList = 1
    MaxEntries = 2
    MaxLoads = 2
    Papers <- MCPapers
    KeyLen <- MCKeyLen
    Fixed <- MCFixed
    BYTE = 3
    MAX_BITS = 4
    LENS <- MCLens
    DISTS <- MCDists
    FixedLit <- MCFixedLit
    FixedDist <- MCFixedDist
    CLC_ORDER <- MCOrder
    Fields <- MCFields
    CLC_MIN = 4
    Repeats <- MCRepeats
    METHOD = 2
    CHECK = 3
    FDICT = 4
    ADLER = 61
    MAX_SIDE = 4
    MAX_PIXELS = 12
    MAX_IDAT = 60
    Background <- MCBackground
    Pictures <- MCPictures
    DynamicCode <- MCDyn
INVARIANTS
    CleanUnlessGap
    SavedIsOnDisk
    

    
    
CHECK_DEADLOCK FALSE
