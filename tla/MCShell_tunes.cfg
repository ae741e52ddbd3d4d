SPECIFICATION TuneSpec
CONSTANTS
    Scripts <- MCScripts
    HoldsFor <- MCHoldsFor
    MaxIter = 4
    CommandLines <- MCCommandLines
    ExitOf <- MCExit
    SubstOf <- MCSubst
    AliasTables <- MCAliasTables
    MaxAliasDepth = 3
    Texts <- MCTexts
    NumberTexts <- MCNumberTexts
    ShortTexts <- MCShortTexts
    LineCap = 3
    Patterns <- MCPatterns
    Counts = {0, 1, 2}
    Sums <- MCSums
    Letters = {"a"}
    Cap = 5
    Rows = 2
    Cols = 2
    Wide = 4
    High = 4
    TabStop = 3
    ScrollbackLines = 2
    Pieces <- MCPieces
    MaxPieces = 6
    HISTORY_SIZE = 2
    BUFFER_SIZE = 5
    Names <- MCNames
    Keys = {"x", "y"}
    MaxKeys = 7
    Typings <- MCTypings
    FieldCap = 3
    LoginCap = 2
    FirstPassword <- MCPassword
    Gate <- MCGate
    Users = {"root", "guest"}
    EnvKeys = {"HOME", "PATH", "USER"}
    EnvValues = {"one", "two"}
    MAX_ENV_VARS = 2
    AliasNames = {"ll", "la"}
    MAX_ALIASES = 2
    SoundThreads = {"t1", "t2"}
    Songs <- MCSongs
    NoteHz <- MCNoteHz
    White <- MCWhite
    Black <- MCBlack
    WKW = 30
    WKH = 11
    BKW = 18
    BKH = 6
    BtnW = 4
    BtnGap = 1
    MaxCalls = 3
    Bits = 6
    MAX_EXPR = 11
    StackCap = 6
    Formulas <- MCFormulas
    CalcKeys = {"1", "-", "*", "(", "=", "C", "<", "S", "V", "I", "N", "M", "R", "P", "Q"}
    MaxPresses = 4
    FirstTable <- MCTable
    NameChars = {"a"}
    NameCap = 2
    MAX_ENTRIES = 3
    ShownRows = 2
    RowsTyping = 1
    Page = 2
    MaxDeeds = 5
    COLS = 7
    ROWS = 6
    RoomWidths = {2, 3}
    RoomHeights = {2}
    RoomCounts = {1, 2, 3}
    PlayRooms <- MCPlayRooms
    Spots <- MCSpots
    MAX_MON = 2
    MAX_FLOOR = 2
    FOV_R = 2
    WakeR = 3
    HeroHp = 4
    HeroAtk = 4
    Luck = {0, 2}
    Kinds <- MCKinds
    DrakkarHp = 6
    DrakkarAtk = 2
    Healing = 2
    MaxTurns = 7
    CANVAS_W = 4
    CANVAS_H = 3
    Paper = "white"
    Inks = {"white", "black"}
    Sizes = {1, 3}
    MaxRuns = 4
    MaxRun = 5
    MaxActs = 4
INVARIANT LastTuneSounds
CHECK_DEADLOCK FALSE
