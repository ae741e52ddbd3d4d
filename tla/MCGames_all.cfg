SPECIFICATION GamesSpec
CONSTANTS
    StartBalance = 2
    Step = 1
    OpeningBet = 2
    Gift = 1
    PokerBets = {1}
    Cards = {1, 10}
    Odds = {2}
    Factors = {2}
    MaxMoney = 2
    SnakeW = 5
    SnakeH = 3
    SnakeMax = 5
    StartLen = 3
    FoodAhead = 2
    BoardW = 4
    BoardH = 5
    MaxPieces = 4
    Tetrominoes <- MCTetrominoes
    Side = 2
    WinTile = 8
    MaxScore = 20
    FieldW = 4
    FieldH = 2
    MineCount = 1
    Buttons = {1, 2}
    SimonMax = 4
    MaxRounds = 9
    PongW = 20
    PongH = 20
    PadH = 9
    PadW = 2
    Ball = 2
    PlayerStep = 8
    WinAt = 2
    LagCycle = 4
    Rows = 2
    Columns = 2
    Lives = 3
    MaxShots = 3
    Descents = 2
    MaxUfos = 1
    HnSize = 5
    MaxPlies = 3
    AttackersAt <- MCAttackers
    DefendersAt <- MCDefenders
    ONE = 8
    SPEED = 2
    RAD = 2
    AIMTAN = 1
    WIDETAN = 4
    WallsAt <- MCWalls
    MapW = 6
    MapH = 5
    StartCell <- MCStart
    PedestalCell <- MCPedestal
    EnemyCells <- MCEnemies
    PickupCells <- MCPickups
    MaxHp = 2
    DrakHp = 2
    GregHp = 1
    MAXPROJ = 2
    MAXENEM = 3
    MaxFrames = 5
    MaxSounds = 12
CONSTRAINT SmallPurse
INVARIANTS
    
    GameRules
CHECK_DEADLOCK FALSE
