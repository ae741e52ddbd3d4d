SPECIFICATION KeyboardSpec
CONSTANTS
    w1 = w1
    w2 = w2
    w3 = w3
    Ids <- ThreeIds
    Null = Null
    Ambient = Ambient
    Apps = {"terminal", "files", "casino", "tool"}
    ContentW = 40
    TextCap = 12
    MaxFrags = 4
    MaxLinks = 1
    WordCap = 4
    MaxTokens = 6
    ImgSizes <- MCImgSizes
    Documents <- MCDocuments
    Addresses = {"p", "q", "i", "gopher", "tel"}
    Typed = {"gopher", "i"}
    Unsupported = {"gopher"}
    Dead = {"tel"}
    Web <- MCWeb
    ImgAnswers <- MCImgAnswers
    Home = "greg://home"
    About = "greg://about"
    HomeDoc <- MCHomeDoc
    AboutDoc <- MCAboutDoc
    ErrorDoc <- MCErrorDoc
    HistMax = 2
    MaxImgs = 1
    Widths = {40, 60}
    MaxVisits = 3
    Codes = {"c"}
    RingSize = 3
    Slots = {"s1", "s2"}
    MaxBytes = 6
    MaxLaunches = 2
    Motions <- MCMotions
    Presses = {0, 1}
    Strays = {4, 250}
    ScreenW = 20
    ScreenH = 10
    EventMax = 1
    MaxPackets = 3
    Objs = {"o1", "o2"}
    InitialCapacity = 1
    MaxCells = 4
    MapKeys = {"j", "k", "m"}
    MapValues = {"v", "w"}
    Hashes <- MCHashes
    InitialCap = 2
    MaxBuckets = 8
    BufferCap = 3
    MaxEvents = 5
    Chars = {"a", "nul"}
    MaxLength = 4
    Bits = 7
SYMMETRY IdSymmetry
PROPERTY KeysReachGame
CHECK_DEADLOCK FALSE
