SPECIFICATION NetSpec
CONSTANTS
    QueueN = 3
    HwCap = 3
    Guard = 2
    MaxFrames = 6
    Total = 4
    RxCap = 3
    Mod = 8
    Isn = 6
    Chunks = 2
    MaxResend = 1
    Static <- MCStatic
    Offers <- MCOffers
    Others = {9}
    ArpTries = 2
    UdpTries = 2
    MaxCalls = 2
    CertRoots <- MCRoots
    Labels = {"a", "b", "x", "*"}
    MaxChain = 10
    Urls <- MCUrls
    Targets <- MCTargets
    Chains <- MCChains
    Randoms = {1, 2}
    Keys = {1, 2}
    Signers = {5, 6}
    Clock = {0, 3, 9}
    HsMax = 4
    FinishTries = 2
    MaxHops = 2
    RawCap = 1
    MaxIgnored = 1
INVARIANTS
    FramesKept
    BytesInOrder
    AckedIsStored
    
    AnswersMatch
    FetchRight
PROPERTIES
    NoFrameForgotten
    StreamArrives
    CallsReturn
CHECK_DEADLOCK FALSE
