----------------------------- MODULE BoardGames -----------------------------
(***************************************************************************)
(* The arcade's games of boards and memory: 2048 and its slides,           *)
(* minesweeper, simon and hnefatafl, each with its own state.              *)
(***************************************************************************)
EXTENDS Integers, SequencesExt, FiniteSets, Sequences

(***************************************************************************)
(* 2048 in text mode (kernel.c, start_2048 with g48_slide_left, g48_spawn, *)
(* g48_can_move) and on the framebuffer (gg_2048).  The text game ends     *)
(* with the winning tile, the other goes on.                               *)
(***************************************************************************)
CONSTANTS
    Side,      \* G48_SZ, GG48_SZ
    WinTile,   \* 2048
    MaxScore   \* bound on the score of a game

ASSUME TilesAssumption ==
    Side \in Nat /\ Side >= 2 /\ {WinTile, MaxScore} \subseteq Nat

VARIABLES
    tiGame, tiPhase,   \* "none", "text" or "gg"; "play", "won" or "over"
    grid,             \* a sequence of rows
    tilePoints,            \* score
    spawned, fours     \* history: the sum of the tiles that came, and how many were 4

tilesVars == <<tiGame, tiPhase, grid, tilePoints, spawned, fours>>

TileSquares == (1 .. Side) \X (1 .. Side)
Empty   == [r \in 1 .. Side |-> [c \in 1 .. Side |-> 0]]
TileAt(b, q) == b[q[1]][q[2]]

Squeeze(row) ==
    LET tiles == SelectSeq(row, LAMBDA v : v # 0) IN
    [i \in 1 .. Side |-> IF i <= Len(tiles) THEN tiles[i] ELSE 0]

\* A pair becomes one tile.
Merged(row, i) == [j \in 1 .. Side |-> IF j = i THEN 2 * row[i]
                                       ELSE IF j = i + 1 THEN 0 ELSE row[j]]
IsPair(row, i) == row[i] # 0 /\ row[i] = row[i + 1]
Merging(s, row, i) == [row |-> row, got |-> s.got + 2 * s.row[i]]
Pairs == [i \in 1 .. (Side - 1) |-> i]
Alone(row) == [row |-> Squeeze(row), got |-> 0]

\* g48_slide_left: a merged pair moves the rest of the row up, then the next
\* pair is looked at.
TextSlide(row) ==
    FoldLeft(LAMBDA s, i : IF IsPair(s.row, i)
                           THEN Merging(s, Squeeze(Merged(s.row, i)), i)
                           ELSE s, Alone(row), Pairs)

\* gg_2048's slide: all pairs first, then the gaps go.
GgSlide(row) ==
    LET all == FoldLeft(LAMBDA s, i : IF IsPair(s.row, i)
                                      THEN Merging(s, Merged(s.row, i), i)
                                      ELSE s, Alone(row), Pairs)
    IN [row |-> Squeeze(all.row), got |-> all.got]

Slide(row) == IF tiGame = "text" THEN TextSlide(row) ELSE GgSlide(row)

\* A key turns the board so that it slides to the left, and back.
Transposed(b) == [r \in 1 .. Side |-> [c \in 1 .. Side |-> b[c][r]]]
Mirrored(b)   == [r \in 1 .. Side |-> Reverse(b[r])]
Keys == {"left", "right", "up", "down"}
RowsRead(b, k) == CASE k = "left"  -> b
                [] k = "right" -> Mirrored(b)
                [] k = "up"    -> Transposed(b)
                [] k = "down"  -> Mirrored(Transposed(b))
TurnBack(b, k) == CASE k = "left"  -> b
                    [] k = "right" -> Mirrored(b)
                    [] k = "up"    -> Transposed(b)
                    [] k = "down"  -> Transposed(Mirrored(b))

SlidRows(b, k) == [r \in 1 .. Side |-> Slide(RowsRead(b, k)[r])]
Slid(b, k) == TurnBack([r \in 1 .. Side |-> SlidRows(b, k)[r].row], k)
Gain(b, k) == FoldLeft(LAMBDA n, s : n + s.got, 0, SlidRows(b, k))

\* g48_spawn, spawn48: one of the empty squares gets a 2 or a 4.
SpawnTile(b) ==
    {<<[r \in 1 .. Side |-> [c \in 1 .. Side |-> IF <<r, c>> = q THEN v ELSE b[r][c]]], v>> :
        q \in {p \in TileSquares : TileAt(b, p) = 0}, v \in {2, 4}}

\* g48_can_move, and the loop at the end of gg_2048.
\* Mutant: only pairs side by side count.
CanMoveAcross(b) == \E r, c \in 1 .. Side : b[r][c] = 0 \/ (c < Side /\ b[r][c] = b[r][c + 1])
CanMove(b) ==
    \E r, c \in 1 .. Side :
      \/ b[r][c] = 0
      \/ c < Side /\ b[r][c] = b[r][c + 1]
      \/ r < Side /\ b[r][c] = b[r + 1][c]

PhaseOf(b) ==
    IF tiGame = "text" /\ \E q \in TileSquares : TileAt(b, q) = WinTile THEN "won"
    ELSE IF CanMove(b) THEN "play" ELSE "over"

TilesInit ==
    /\ tiGame = "none" /\ tiPhase = "over"
    /\ grid = Empty /\ tilePoints = 0 /\ spawned = 0 /\ fours = 0

\* Two tiles to begin with; also after a game that ended, or was left with ESC.
TilesStart(g) ==
    /\ tiGame' = g /\ tiPhase' = "play" /\ tilePoints' = 0
    /\ \E s \in SpawnTile(Empty) : \E t \in SpawnTile(s[1]) :
         /\ grid' = t[1] /\ spawned' = s[2] + t[2]
         /\ fours' = (IF s[2] = 4 THEN 1 ELSE 0) + (IF t[2] = 4 THEN 1 ELSE 0)

\* A key that moves nothing brings no tile.
Press(k) ==
    /\ tiGame # "none" /\ tiPhase = "play" /\ tilePoints <= MaxScore
    /\ tilePoints' = tilePoints + Gain(grid, k)
    /\ IF Slid(grid, k) = grid
       THEN UNCHANGED <<grid, spawned, fours>>
       ELSE \E s \in SpawnTile(Slid(grid, k)) :
              /\ grid' = s[1] /\ spawned' = spawned + s[2]
              /\ fours' = fours + (IF s[2] = 4 THEN 1 ELSE 0)
    /\ tiPhase' = PhaseOf(grid')
    /\ UNCHANGED tiGame

TilesNext ==
    \/ \E g \in {"text", "gg"} : TilesStart(g)
    \/ \E k \in Keys : Press(k)

TilesSpec == TilesInit /\ [][TilesNext]_tilesVars

-----------------------------------------------------------------------------

\* How often two tiles were merged to make v out of twos.
Worth[v \in Nat] == IF v <= 2 THEN 0 ELSE v + 2 * Worth[v \div 2]

OverBoard(Op(_)) ==
    FoldLeft(LAMBDA n, row : FoldLeft(LAMBDA m, v : m + Op(v), n, row), 0, grid)

\* No tile is lost or made from nothing; the tilePoints are what it takes to make
\* the tiles on the board (a tile that came as a 4 was not made), so that no
\* pair counts twice and no tile merges twice in one move; and a game is over
\* just when no key would move anything.
TilesRules ==
    /\ OverBoard(LAMBDA v : v) = spawned
    /\ tilePoints = OverBoard(LAMBDA v : Worth[v]) - 4 * fours
    /\ tiGame # "none" =>
         (tiPhase = "over" <=> /\ \A k \in Keys : Slid(grid, k) = grid
                               /\ tiPhase # "won")

-----------------------------------------------------------------------------
(***************************************************************************)
(* The three minesweepers: in text mode (kernel.c, start_minesweeper), on  *)
(* the framebuffer (gg_minesweeper) and in a window (MinesweeperWindow).   *)
(* Mines are laid with the first cell that is opened.  A cell without      *)
(* mines around it opens its neighbours; the order in which the queue or   *)
(* the stack of the code visits them makes no difference to the result.    *)
(***************************************************************************)
CONSTANTS
    FieldW, FieldH,    \* MS_W, MS_H and the like
    MineCount          \* MS_MINES, GGM_MINES, MINES

ASSUME MinesAssumption ==
    /\ {FieldW, FieldH} \subseteq Nat \ {0} /\ MineCount \in Nat \ {0}
    /\ MineCount < FieldW * FieldH

VARIABLES
    miGame,        \* "none", "text", "gg" or "window"
    miPhase,       \* "play", "won" or "lost"
    mines,         \* ms_mine, mine, m_mine; empty until they are laid
    opened,        \* ms_rev, rev, REVEALED
    flags,         \* ms_flag, flag, FLAGGED
    flagsLeft      \* flags_left, MINES - m_flags

minesVars == <<miGame, miPhase, mines, opened, flags, flagsLeft>>

Cells == (1 .. FieldW) \X (1 .. FieldH)

Around == [c \in Cells |-> {d \in Cells : /\ d # c
                                         /\ d[1] \in (c[1] - 1) .. (c[1] + 1)
                                         /\ d[2] \in (c[2] - 1) .. (c[2] + 1)}]
Adjacent(m, c) == Cardinality(Around[c] \intersect m)

MinesInit ==
    /\ miGame = "none" /\ miPhase = "lost"
    /\ mines = {} /\ opened = {} /\ flags = {} /\ flagsLeft = MineCount

\* A new game: in the window also in the middle of one (crest, N, R); the
\* others when one has ended or was left with ESC.
MinesStart(g) ==
    /\ miGame' = g /\ miPhase' = "play"
    /\ mines' = {} /\ opened' = {} /\ flags' = {} /\ flagsLeft' = MineCount

\* Where mines may be laid when c is opened first: the window keeps its
\* neighbours free, too.
Layouts(c) ==
    LET free == IF miGame = "window" THEN Cells \ (Around[c] \union {c}) ELSE Cells \ {c}
    IN {m \in SUBSET free : Cardinality(m) = MineCount}

\* What a cell opens.  The text and framebuffer games open flagged cells, too;
\* the flag stays, and cannot be taken back.
CanOpen(o, d) == d \notin o /\ (miGame = "window" => d \notin flags)
Opens(o, from) == {d \in Cells : CanOpen(o, d) /\ \E c \in from : d \in Around[c]}

\* The cells that are reached from c over cells of q: no set closed under steps leaves one out.
Closed(q, s) == \A d \in s : Around[d] \intersect q \subseteq s
Reached(q, c) ==
    LET closed == {s \in {{c} \union t : t \in SUBSET (q \ {c})} : Closed(q, s)}
    IN  {d \in q : \A s \in closed : d \in s}

\* ms_flood and the loops of the other two, from the cell c: every cell without mines
\* around that is reached over such cells opens its neighbours.
\* Mutant: the cells that open are not put into the queue.
FloodOnce(m, o, c) == IF Adjacent(m, c) = 0 THEN o \union Opens(o, {c}) ELSE o
Quiet(m, o, c) == {d \in Cells : Adjacent(m, d) = 0 /\ (d = c \/ CanOpen(o, d))}
Flood(m, o, c) == IF Adjacent(m, c) = 0 THEN o \union Opens(o, Reached(Quiet(m, o, c), c)) ELSE o

Reveal(c) ==
    /\ miGame # "none" /\ miPhase = "play" /\ c \notin flags
    /\ miGame # "gg" => c \notin opened
    /\ \E m \in (IF mines = {} THEN Layouts(c) ELSE {mines}) :
         /\ mines' = m
         /\ IF c \in m
            THEN /\ miPhase' = "lost"
                 /\ opened' = opened \union m
                 /\ flags' = IF miGame = "window" THEN flags \ m ELSE flags
                 /\ UNCHANGED flagsLeft
            ELSE LET o == Flood(m, opened \union {c}, c)
                     won == Cells \ m \subseteq o IN
                 /\ opened' = o
                 /\ miPhase' = IF won THEN "won" ELSE "play"
                 /\ IF won /\ miGame = "window"
                    THEN flags' = m /\ flagsLeft' = flagsLeft - Cardinality(m \ flags)
                    ELSE UNCHANGED <<flags, flagsLeft>>
    /\ UNCHANGED miGame

\* The framebuffer game stops at MineCount flags, the others count below zero.
Flag(c) ==
    /\ miGame # "none" /\ miPhase = "play" /\ c \notin opened
    /\ \/ /\ c \notin flags /\ (miGame = "gg" => flagsLeft > 0)
          /\ flags' = flags \union {c} /\ flagsLeft' = flagsLeft - 1
       \/ /\ c \in flags
          /\ flags' = flags \ {c} /\ flagsLeft' = flagsLeft + 1
    /\ UNCHANGED <<miGame, miPhase, mines, opened>>

MinesNext ==
    \/ \E g \in {"text", "gg", "window"} : MinesStart(g)
    \/ \E c \in Cells : Reveal(c) \/ Flag(c)

MinesSpec == MinesInit /\ [][MinesNext]_minesVars

-----------------------------------------------------------------------------

\* No mine is open before the game is lost, and the first cell never holds
\* one; around an open cell without mines every cell is open, so that no number
\* is missing (but in the window, where a flag stops the flood and may be taken
\* back afterwards); the game is won as soon as all other cells are open, and
\* the number of flags left is right, also when an opened area swallowed some.
MinesRules ==
    /\ miPhase # "lost" => opened \intersect mines = {}
    /\ mines # {} => Cardinality(mines) = MineCount /\ opened # {}
    /\ miPhase # "lost" /\ miGame # "window" =>
         \A c \in opened : Adjacent(mines, c) = 0 => Around[c] \subseteq opened
    /\ miPhase = "won" <=> mines # {} /\ miPhase # "lost" /\ Cells \ mines \subseteq opened
    /\ miPhase # "lost" => flagsLeft = MineCount - Cardinality(flags)

-----------------------------------------------------------------------------
(***************************************************************************)
(* Simon in text mode (kernel.c, start_simon) and on the framebuffer       *)
(* (gg_simon).  A round shows the sequence and has the player repeat it.   *)
(* The text game counts the keys and ends with a full sequence; the other  *)
(* counts the rounds and plays on with the longest sequence it can keep.   *)
(***************************************************************************)
CONSTANTS
    Buttons,      \* the four buttons
    SimonMax,     \* SIMON_MAX, and the entries of gg_simon's seq
    MaxRounds     \* bound: rounds of gg_simon's game without an end

ASSUME SimonAssumption == SimonMax \in Nat \ {0, 1} /\ MaxRounds \in Nat

VARIABLES
    siGame,       \* "none", "text" or "gg"
    siPhase,      \* "show", "repeat" or "over"
    tones,        \* seq[0 .. level - 1]
    repeated,     \* i: how much of it the player has repeated
    siScore

simonVars == <<siGame, siPhase, tones, repeated, siScore>>

SimonInit == siGame = "none" /\ siPhase = "over"
             /\ tones = <<>> /\ repeated = 0 /\ siScore = 0

\* A game starts with one tone; again with ESPACE in gg_simon.
SimonStart(g) ==
    /\ siPhase = "over"
    /\ siGame' = g /\ siPhase' = "show"
    /\ \E b \in Buttons : tones' = <<b>>
    /\ repeated' = 0 /\ siScore' = 0

\* simon_btn, simon_flash: the computer plays the whole sequence.
Show ==
    /\ siPhase = "show" /\ siPhase' = "repeat"
    /\ UNCHANGED <<siGame, tones, repeated, siScore>>

\* The sequence of the next round.  gg_simon drops the tone that fills its
\* array; the text game ends instead.
\* Mutant: the tone is kept.
LongerKept(b) == Append(tones, b)
Longer(b) == IF siGame = "gg" /\ Len(tones) + 1 >= SimonMax THEN tones ELSE Append(tones, b)

\* The right button.
Right ==
    /\ siPhase = "repeat" /\ siScore <= MaxRounds
    /\ siScore' = siScore + (IF siGame = "text" \/ repeated + 1 = Len(tones) THEN 1 ELSE 0)
    /\ IF repeated + 1 < Len(tones)
       THEN repeated' = repeated + 1 /\ UNCHANGED <<siPhase, tones>>
       ELSE IF siGame = "text" /\ Len(tones) = SimonMax
       THEN siPhase' = "over" /\ repeated' = repeated + 1 /\ UNCHANGED tones
       ELSE /\ siPhase' = "show" /\ repeated' = 0
            /\ \E b \in Buttons : tones' = Longer(b)
    /\ UNCHANGED siGame

\* Another button, in gg_simon any other key, or ESC.  The text game ignores
\* other keys.
Wrong ==
    /\ siPhase = "repeat" /\ siPhase' = "over"
    /\ UNCHANGED <<siGame, tones, repeated, siScore>>

SimonNext == (\E g \in {"text", "gg"} : SimonStart(g)) \/ Show \/ Right \/ Wrong

SimonSpec == SimonInit /\ [][SimonNext]_simonVars

-----------------------------------------------------------------------------

\* The sequence stays inside its array, and the score tells how far the player
\* got: every key of the rounds before and of this one in the text game, every
\* complete round in the other, until its sequence has its full length.
SimonRules ==
    siGame # "none" =>
    /\ Len(tones) <= SimonMax /\ repeated <= Len(tones)
    /\ siGame = "text" => 2 * siScore = Len(tones) * (Len(tones) - 1) + 2 * repeated
    /\ siGame = "gg" => /\ Len(tones) < SimonMax
                        /\ Len(tones) < SimonMax - 1 => siScore + 1 = Len(tones)
                        /\ siScore + 1 >= Len(tones)

-----------------------------------------------------------------------------
(***************************************************************************)
(* The king's game: its rules (hnefatafl_core.c) and the window that plays *)
(* it (HnefataflWindow.cpp).  The person plays one side; the computer      *)
(* answers inside the handler of the click, with some legal move (which    *)
(* one, the search of hn_ai_move and its node budget, is abstracted).      *)
(***************************************************************************)
CONSTANTS
    HnSize,          \* 9; odd
    AttackersAt, DefendersAt,  \* the initial position, as squares <<x, y>>
    MaxPlies         \* bound: moves in a game

ASSUME HnefataflAssumption ==
    /\ HnSize \in Nat /\ HnSize % 2 = 1 /\ HnSize >= 5 /\ MaxPlies \in Nat
    /\ AttackersAt \union DefendersAt \subseteq (0 .. HnSize - 1) \X (0 .. HnSize - 1)
    /\ AttackersAt \intersect DefendersAt = {}

VARIABLES
    hnPhase,     \* "choose", "play" or "over"
    human, turn, \* "att" or "def"
    board,       \* m_board
    legal,       \* m_legal: the moves the clicks are compared with
    selected,    \* m_sel: {} or {square}
    lostAtt, lostDef,
    winner,      \* "none", "att" or "def"
    plies        \* moves played, at most MaxPlies

hnVars == <<hnPhase, human, turn, board, legal, selected, lostAtt, lostDef, winner, plies>>

Squares == (0 .. HnSize - 1) \X (0 .. HnSize - 1)
Throne  == <<HnSize \div 2, HnSize \div 2>>
Corner(c) == c[1] \in {0, HnSize - 1} /\ c[2] \in {0, HnSize - 1}
Restricted(c) == c = Throne \/ Corner(c)

Other(s) == IF s = "att" THEN "def" ELSE "att"
HnDirs == {<<1, 0>>, <<-1, 0>>, <<0, 1>>, <<0, -1>>}
Far(c, d, n) == <<c[1] + n * d[1], c[2] + n * d[2]>>

\* A board is the squares of its pieces.
InitialBoard == [att |-> AttackersAt, def |-> DefendersAt, king |-> {Throne}]
Own(b, side) == IF side = "att" THEN b.att ELSE b.def \union b.king
Occupied(b)  == b.att \union b.def \union b.king

-----------------------------------------------------------------------------

\* hn_gen_moves: like rooks; soldiers neither stop on nor cross the throne and
\* the corners.
Clear(b, c, q) == q \in Squares /\ q \notin Occupied(b) /\ (c \in b.king \/ ~Restricted(q))
MovesOf(b, c) ==
    {<<c, Far(c, r[1], r[2])>> : r \in {s \in HnDirs \X (1 .. (HnSize - 1)) :
        \A k \in 1 .. s[2] : Clear(b, c, Far(c, s[1], k))}}
GenMoves(b, side) == UNION {MovesOf(b, c) : c \in Own(b, side)}

\* hn_init: no soldier begins where none may stop, and the attackers, who make
\* the first move, have one.
ASSUME FairStart ==
    /\ \A c \in AttackersAt \union DefendersAt : ~Restricted(c)
    /\ GenMoves(InitialBoard, "att") # {}

\* assists: square f helps side to capture.
Assists(b, f, side) ==
    Corner(f) \/ (f = Throne /\ f \notin Occupied(b)) \/ f \in Own(b, side)

\* The soldiers among cs that a piece of the other side arriving at t captures.
Custodian(b, t, side, cs) ==
    {c \in cs : \E d \in HnDirs :
        c = Far(t, d, 1) /\ Far(t, d, 2) \in Squares /\ Assists(b, Far(t, d, 2), side)}

\* The king falls when its four neighbours exist and are attackers or the throne.
Encircled(b) == {k \in b.king : \A d \in HnDirs :
    Far(k, d, 1) \in Squares /\ Far(k, d, 1) \in b.att \union {Throne}}

\* hn_apply
Arrived(b, m) ==
    LET at(s) == IF m[1] \in s THEN (s \ {m[1]}) \union {m[2]} ELSE s
    IN  [att |-> at(b.att), def |-> at(b.def), king |-> at(b.king)]
Apply(b, m) ==
    LET a == Arrived(b, m) IN
    IF m[1] \in b.att
    THEN LET c == [a EXCEPT !.def = @ \ Custodian(a, m[2], "att", a.def)]
         IN  [c EXCEPT !.king = @ \ Encircled(c)]
    ELSE [a EXCEPT !.att = @ \ Custodian(a, m[2], "def", a.att)]

\* hn_winner
WinnerOf(b, side) ==
    IF b.king = {} THEN "att"
    ELSE IF \E k \in b.king : Corner(k) THEN "def"
    ELSE IF GenMoves(b, side) = {} THEN Other(side) ELSE "none"

-----------------------------------------------------------------------------

ToChoice ==
    /\ hnPhase' = "choose" /\ human' = "def" /\ turn' = "att"
    /\ board' = InitialBoard /\ legal' = {} /\ selected' = {}
    /\ lostAtt' = 0 /\ lostDef' = 0 /\ winner' = "none" /\ plies' = 0

HnInit ==
    /\ hnPhase = "choose" /\ human = "def" /\ turn = "att"
    /\ board = InitialBoard /\ legal = {} /\ selected = {}
    /\ lostAtt = 0 /\ lostDef = 0 /\ winner = "none" /\ plies = 0

\* refresh_legal
\* Mutant: it runs before the computer's answer.
RefreshedEarly(b, t) == GenMoves(board, t)
Refreshed(b, t) == GenMoves(b, t)

\* play_move for the moves ms one after the other, by side first; the game may
\* end with either.  Losses are soldiers only.
Played(ms, first) ==
    LET b1 == Apply(board, ms[1])
        w1 == WinnerOf(b1, Other(first))
        answered == w1 = "none" /\ Len(ms) = 2
        b  == IF answered THEN Apply(b1, ms[2]) ELSE b1
        t  == IF answered THEN first ELSE Other(first)
        w  == IF answered THEN WinnerOf(b, t) ELSE w1
        gone(before, after) == Cardinality(before) - Cardinality(after) IN
    /\ board' = b /\ turn' = t /\ winner' = w
    /\ hnPhase' = IF w = "none" THEN "play" ELSE "over"
    /\ legal' = IF w1 # "none" THEN legal ELSE Refreshed(b, t)
    /\ lostAtt' = lostAtt + gone(board.att, b.att) /\ lostDef' = lostDef + gone(board.def, b.def)
    /\ plies' = plies + (IF answered THEN 2 ELSE 1)
    /\ selected' = {}

StartGame(side) ==
    /\ hnPhase = "choose" /\ human' = side
    /\ IF side = "att"
       THEN /\ hnPhase' = "play" /\ legal' = GenMoves(board, "att")
            /\ UNCHANGED <<turn, board, selected, lostAtt, lostDef, winner, plies>>
       ELSE \E m \in GenMoves(board, "att") : Played(<<m>>, "att")

\* A click on an own piece selects it ...
ClickOwn(c) ==
    /\ hnPhase = "play" /\ turn = human
    /\ c \in Own(board, human)
    /\ selected' = {c}
    /\ UNCHANGED <<hnPhase, human, turn, board, legal, lostAtt, lostDef, winner, plies>>

\* ... on a square the selected piece can reach moves it, and the computer
\* answers ...
ClickTarget(c) ==
    /\ hnPhase = "play" /\ turn = human /\ plies < MaxPlies
    /\ c \notin Own(board, human)
    /\ \E f \in selected :
         /\ <<f, c>> \in legal
         /\ LET b == Apply(board, <<f, c>>) IN
            IF WinnerOf(b, Other(human)) # "none" THEN Played(<<<<f, c>>>>, human)
            ELSE \E m \in GenMoves(b, Other(human)) : Played(<<<<f, c>>, m>>, human)
    /\ UNCHANGED human

\* ... and on any other square takes the selection back.
ClickElsewhere ==
    /\ hnPhase = "play" /\ turn = human /\ selected # {}
    /\ selected' = {}
    /\ UNCHANGED <<hnPhase, human, turn, board, legal, lostAtt, lostDef, winner, plies>>

HnNext ==
    \/ ToChoice \/ ClickElsewhere
    \/ \E s \in {"att", "def"} : StartGame(s)
    \/ \E c \in Squares : ClickOwn(c) \/ ClickTarget(c)

HnSpec == HnInit /\ [][HnNext]_hnVars

-----------------------------------------------------------------------------

\* When the person may move, the list the clicks are compared with is that of
\* the board on the screen and is not empty, and the selected square holds a
\* piece of theirs; no soldier ever stands on the throne or in a corner; the
\* losses on the status line account for every soldier that is gone, the king
\* not counted; and the game is over as soon as the king is gone.
BoardKept ==
    /\ hnPhase = "play" =>
         /\ turn = human /\ legal # {} /\ legal = GenMoves(board, turn)
         /\ selected \subseteq Own(board, human)
         /\ Cardinality(board.king) = 1
    /\ \A c \in board.att \union board.def : ~Restricted(c)
    /\ lostAtt + Cardinality(board.att) = Cardinality(AttackersAt)
    /\ lostDef + Cardinality(board.def) = Cardinality(DefendersAt)
    /\ (winner # "none") = (hnPhase = "over")
    /\ board.king = {} => winner = "att"
=============================================================================
