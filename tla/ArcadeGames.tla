---------------------------- MODULE ArcadeGames -----------------------------
(***************************************************************************)
(* The arcade's action games: snake, tetris, pong and the two shooters,    *)
(* each with its own state; only one of them runs at a time.               *)
(***************************************************************************)
EXTENDS Integers, FiniteSets, SequencesExt, FiniteSetsExt

(***************************************************************************)
(* Snake in text mode (kernel.c, start_snake) and on the framebuffer       *)
(* (gg_snake).  The text game reads one key and moves with every turn of   *)
(* its loop; the other polls keys between two moves.  The cells live in a  *)
(* static array: a snake that grows takes over whatever an earlier move or *)
(* an earlier game left in the next entry.  High scores are left out.      *)
(***************************************************************************)
CONSTANTS
    SnakeW, SnakeH,   \* SN_W x SN_H, GGS_W x GGS_H
    SnakeMax,         \* SN_MAX, GGS_MAX: entries of the array
    StartLen,         \* 4 in the code
    FoodAhead         \* the first food: 6 (text) or 8 cells from the middle

ASSUME SnakeAssumption ==
    /\ {SnakeW, SnakeH, SnakeMax, StartLen} \subseteq Nat \ {0}
    /\ 3 <= StartLen /\ StartLen < SnakeMax
    /\ StartLen - 1 <= SnakeW \div 2
    /\ FoodAhead \in 1 .. (SnakeW - SnakeW \div 2 - 1)

VARIABLES
    snGame,      \* "none", "text" or "gg"
    snPhase,     \* "play", "paused" or "over"
    seg,         \* sx, sy
    slen,
    dir, ndir,   \* <<dx, dy>>, <<ndx, ndy>>
    food,        \* <<fx, fy>>
    score

snakeVars == <<snGame, snPhase, seg, slen, dir, ndir, food, score>>

Directions == {<<1, 0>>, <<-1, 0>>, <<0, 1>>, <<0, -1>>}
Field      == (0 .. (SnakeW - 1)) \X (0 .. (SnakeH - 1))
Moved(c, d)  == <<c[1] + d[1], c[2] + d[2]>>
Opposite(d)  == <<-d[1], -d[2]>>

SnakeInit ==
    /\ snGame = "none" /\ snPhase = "over"
    /\ seg = [i \in 0 .. (SnakeMax - 1) |-> <<0, 0>>]
    /\ slen = StartLen /\ dir = <<1, 0>> /\ ndir = <<1, 0>>
    /\ food = <<0, 0>> /\ score = 0

\* A game starts over, or another one is chosen.
SnakeStart(g) ==
    /\ snPhase = "over"
    /\ snGame' = g /\ snPhase' = "play"
    /\ LET middle == <<SnakeW \div 2, SnakeH \div 2>> IN
       /\ seg' = [i \in DOMAIN seg |-> IF i < StartLen
                                       THEN Moved(middle, <<-i, 0>>) ELSE seg[i]]
       /\ food' = Moved(middle, <<FoodAhead, 0>>)
    /\ slen' = StartLen /\ dir' = <<1, 0>> /\ ndir' = <<1, 0>> /\ score' = 0

\* ESC.
SnakeLeave ==
    /\ snGame # "none" /\ snPhase # "over"
    /\ snPhase' = "over"
    /\ UNCHANGED <<snGame, seg, slen, dir, ndir, food, score>>

-----------------------------------------------------------------------------

\* The snake cannot turn back: the framebuffer game compares with the
\* direction of the last move, also when two keys are pressed before the next.
\* Mutant: it compares with the direction chosen last.
MayTurnFromChosen(d) == IF snGame = "text" THEN (dir[1] = 0) # (d[1] = 0)
                                           ELSE ndir # Opposite(d)
MayTurn(d) == IF snGame = "text" THEN (dir[1] = 0) # (d[1] = 0)
                                 ELSE dir # Opposite(d)

\* The loop that shifts the cells, and the new head.
Shifted(d) == [i \in DOMAIN seg |-> IF i = 0 THEN Moved(seg[0], d)
                                    ELSE IF i < slen THEN seg[i - 1] ELSE seg[i]]

Crash(s) == s[0] \notin Field \/ \E i \in 1 .. (slen - 1) : s[i] = s[0]

Grown == IF slen < SnakeMax - 1 THEN slen + 1 ELSE slen

\* Where the next food may be.  The text game gives up after 500 attempts.
FreshFood(s, n) == IF snGame = "gg" THEN Field \ {s[0]}
                   ELSE (Field \ {s[i] : i \in 0 .. (n - 1)}) \union {food}

\* One move in direction d.  A text game that is lost does not look at the
\* food any more; the other may eat and die at once.
Move(d) ==
    LET s    == Shifted(d)
        lost == Crash(s)
        eats == s[0] = food /\ (snGame = "gg" \/ ~lost) IN
    /\ score <= 10 * (SnakeMax - StartLen)   \* bound: one meal too many
    /\ seg' = s /\ dir' = d /\ ndir' = d
    /\ snPhase' = IF lost THEN "over" ELSE "play"
    /\ slen' = IF eats THEN Grown ELSE slen
    /\ score' = IF eats THEN score + 10 ELSE score
    /\ IF eats THEN food' \in FreshFood(s, slen') ELSE food' = food
    /\ UNCHANGED snGame

\* One turn of start_snake's loop while it runs, with or without a key.
TextTick ==
    /\ snGame = "text" /\ snPhase = "play"
    /\ \E d \in {dir} \union {e \in Directions : MayTurn(e)} : Move(d)

\* Key P: a text game that goes on moves in the same turn.
TextResume == snGame = "text" /\ snPhase = "paused" /\ Move(dir)

SnakePause ==
    /\ snGame # "none" /\ snPhase \in {"play", "paused"}
    /\ snPhase' = "paused" \/ (snGame = "gg" /\ snPhase' = "play")
    /\ snPhase' # snPhase
    /\ UNCHANGED <<snGame, seg, slen, dir, ndir, food, score>>

\* gg_snake polls a key ...
Turn ==
    /\ snGame = "gg" /\ snPhase = "play"
    /\ \E d \in Directions : MayTurn(d) /\ ndir' = d
    /\ UNCHANGED <<snGame, snPhase, seg, slen, dir, food, score>>

\* ... and moves when the time has come.
GgMove == snGame = "gg" /\ snPhase = "play" /\ Move(ndir)

SnakeNext ==
    \/ \E g \in {"text", "gg"} : SnakeStart(g)
    \/ SnakeLeave \/ SnakePause \/ TextTick \/ TextResume \/ Turn \/ GgMove

SnakeSpec == SnakeInit /\ [][SnakeNext]_snakeVars

-----------------------------------------------------------------------------

\* The snake is a path through the field that does not cross itself (its last
\* cell aside, which after a meal is a leftover until the next move); its
\* length tells what it has eaten; and it never dies by turning into its own
\* neck, whatever keys are pressed between two moves.
SnakeRules ==
    snGame # "none" =>
    /\ snPhase # "over" =>
         /\ \A i \in 0 .. (slen - 2) : seg[i] \in Field
         /\ \A i, j \in 0 .. (slen - 2) : i # j => seg[i] # seg[j]
         /\ \A i \in 0 .. (slen - 3) :
              \E d \in Directions : Moved(seg[i + 1], d) = seg[i]
    /\ score >= 10 * (slen - StartLen)
    /\ slen < SnakeMax - 1 => score = 10 * (slen - StartLen)
    /\ seg[0] # seg[2]

-----------------------------------------------------------------------------
(***************************************************************************)
(* Tetris in text mode (kernel.c, start_tetris) and on the                 *)
(* framebuffer (gg_tetris): one board, falling pieces, full rows.          *)
(* Colours, points and the preview of the next piece are left out; the     *)
(* timers that let a piece fall become a choice in every turn of the loop. *)
(***************************************************************************)
CONSTANTS
    BoardW, BoardH,  \* TBOARD_W, TBOARD_H
    Tetrominoes,     \* the pieces: sets of <<row, column>> in a box of 4 x 4
    MaxPieces        \* bound: pieces locked in one game

ASSUME TetrisAssumption ==
    /\ BoardW \in Nat /\ BoardW >= 4 /\ BoardH \in Nat /\ BoardH >= 4
    /\ \A p \in Tetrominoes : p \subseteq (0 .. 3) \X (0 .. 3) /\ Cardinality(p) = 4
    /\ MaxPieces \in Nat

VARIABLES
    teGame,       \* "none", "text" or "gg"
    tePhase,      \* "play", "paused" or "over"
    rows,         \* tboard, ggt_board: the filled columns of each row from the top
    piece, turns, \* the falling piece and how often it was turned
    pr, pc,       \* where its box is
    nextPiece,
    lines, level,
    locked        \* history: pieces locked in this game

tetrisVars == <<teGame, tePhase, rows, piece, turns, pr, pc, nextPiece, lines,
                level, locked>>

EmptyBoard == [r \in 1 .. BoardH |-> {}]

\* A quarter turn in the box: t_get_cells, and ggt_rotate_cw; ggt_rotate_ccw
\* is three of them.
Quarter(cells) == {<<c[2], 3 - c[1]>> : c \in cells}
Turned == [n \in 0 .. 3 |-> [p \in Tetrominoes |->
             CASE n = 0 -> p
               [] n = 1 -> Quarter(p)
               [] n = 2 -> Quarter(Quarter(p))
               [] n = 3 -> Quarter(Quarter(Quarter(p)))]]

\* The cells of a piece on the board, rows counted from 0.
CellsAt(p, n, r, c) == {<<r + x[1], c + x[2]>> : x \in Turned[n][p]}

\* t_valid; ggt_valid2 would also allow cells above the board, where no piece
\* can be: boxes start in row 0 and never go up.
Fits(b, cells) ==
    \A x \in cells : /\ x[1] \in 0 .. (BoardH - 1) /\ x[2] \in 0 .. (BoardW - 1)
                     /\ x[2] \notin b[x[1] + 1]

TetrisInit ==
    /\ teGame = "none" /\ tePhase = "over" /\ rows = EmptyBoard
    /\ piece = {} /\ nextPiece = {}
    /\ turns = 0 /\ pr = 0 /\ pc = BoardW \div 2 - 2
    /\ lines = 0 /\ level = 1 /\ locked = 0

TetrisStart(g) ==
    /\ tePhase = "over"
    /\ teGame' = g /\ tePhase' = "play" /\ rows' = EmptyBoard
    /\ piece' \in Tetrominoes /\ nextPiece' \in Tetrominoes
    /\ turns' = 0 /\ pr' = 0 /\ pc' = BoardW \div 2 - 2
    /\ lines' = 0 /\ level' = 1 /\ locked' = 0

TetrisLeave ==
    /\ teGame # "none" /\ tePhase # "over"
    /\ tePhase' = "over"
    /\ UNCHANGED <<teGame, rows, piece, turns, pr, pc, nextPiece, lines, level, locked>>

TetrisPause ==
    /\ teGame = "text" /\ tePhase \in {"play", "paused"}
    /\ tePhase' = IF tePhase = "play" THEN "paused" ELSE "play"
    /\ UNCHANGED <<teGame, rows, piece, turns, pr, pc, nextPiece, lines, level, locked>>

-----------------------------------------------------------------------------

\* t_clear_lines, ggt_clear_lines: a full row goes, those above it come down,
\* and the row that came into its place is looked at again.
\* Mutant: it is not, so of two full rows above each other the upper one stays.
ClearLinesOnce(b) ==
    LET full(i) == b[i] = 0 .. (BoardW - 1)
        kept == SelectSeq([i \in 1 .. BoardH |-> i],
                          LAMBDA i : ~full(i) \/ (i < BoardH /\ full(i + 1))) IN
    [r \in 1 .. BoardH |-> IF r <= BoardH - Len(kept) THEN {}
                           ELSE b[kept[r - (BoardH - Len(kept))]]]
ClearLines(b) ==
    LET kept == SelectSeq(b, LAMBDA row : row # 0 .. (BoardW - 1)) IN
    [r \in 1 .. BoardH |-> IF r <= BoardH - Len(kept) THEN {}
                           ELSE kept[r - (BoardH - Len(kept))]]

\* t_lock, ggt_stamp2.
Stamped(b, cells) ==
    [r \in 1 .. BoardH |-> b[r] \union {x[2] : x \in {y \in cells : y[1] = r - 1}}]

FullRows(b) == Cardinality({r \in 1 .. BoardH : b[r] = 0 .. (BoardW - 1)})

\* The piece falls by a row, or is locked and the next one comes.
Fall(r, c, n) ==
    /\ IF Fits(rows, CellsAt(piece, n, r + 1, c))
       THEN /\ pr' = r + 1 /\ pc' = c /\ turns' = n
            /\ UNCHANGED <<tePhase, rows, piece, nextPiece, lines, level, locked>>
       ELSE LET full == Stamped(rows, CellsAt(piece, n, r, c)) IN
            /\ locked < MaxPieces /\ locked' = locked + 1
            /\ rows' = ClearLines(full)
            /\ lines' = lines + FullRows(full) /\ level' = 1 + lines' \div 10
            /\ piece' = nextPiece /\ nextPiece' \in Tetrominoes
            /\ turns' = 0 /\ pr' = 0 /\ pc' = BoardW \div 2 - 2
            /\ tePhase' = IF Fits(rows', CellsAt(piece', 0, pr', pc'))
                          THEN "play" ELSE "over"
    /\ UNCHANGED teGame

Rest(r, c, n) ==
    /\ pr' = r /\ pc' = c /\ turns' = n
    /\ UNCHANGED <<teGame, tePhase, rows, piece, nextPiece, lines, level, locked>>

\* Where a key puts the piece: aside, turned, down, or where it was.
KeyPlaces ==
    {<<pr, pc, turns>>} \union
    {k \in {<<pr, pc - 1, turns>>, <<pr, pc + 1, turns>>, <<pr + 1, pc, turns>>,
            <<pr, pc, (turns + 1) % 4>>}
           \union (IF teGame = "gg" THEN {<<pr, pc, (turns + 3) % 4>>} ELSE {}) :
         Fits(rows, CellsAt(piece, k[3], k[1], k[2]))}

\* One turn of the loop: a key, and perhaps the piece falls.
Tick ==
    /\ teGame # "none" /\ tePhase = "play"
    /\ \E k \in KeyPlaces : Fall(k[1], k[2], k[3]) \/ Rest(k[1], k[2], k[3])

\* SPACE: down as far as it goes, and gravity at once.
HardDrop ==
    /\ teGame # "none" /\ tePhase = "play"
    /\ LET landing == CHOOSE r \in pr .. BoardH :
                        /\ \A q \in pr .. r : Fits(rows, CellsAt(piece, turns, q, pc))
                        /\ ~Fits(rows, CellsAt(piece, turns, r + 1, pc)) IN
       Fall(landing, pc, turns)

TetrisNext ==
    \/ \E g \in {"text", "gg"} : TetrisStart(g)
    \/ TetrisLeave \/ TetrisPause \/ Tick \/ HardDrop

TetrisSpec == TetrisInit /\ [][TetrisNext]_tetrisVars

-----------------------------------------------------------------------------

Filled == FoldSet(LAMBDA r, n : n + Cardinality(rows[r]), 0, 1 .. BoardH)

\* The board holds the four cells of every piece that was locked but for the
\* rows that were cleared, none of its rows is full, and the falling piece
\* lies in free cells of the board: no turn, shift or drop writes over another
\* piece or loses a cell at the edge.
TetrisRules ==
    /\ Filled = 4 * locked - BoardW * lines
    /\ \A r \in 1 .. BoardH : rows[r] # 0 .. (BoardW - 1)
    /\ teGame # "none" /\ tePhase # "over" => Fits(rows, CellsAt(piece, turns, pr, pc))
    /\ level = 1 + lines \div 10

-----------------------------------------------------------------------------
(***************************************************************************)
(* Pong in text mode (kernel.c, start_pong) and on the framebuffer         *)
(* (gg_pong).  One action is one turn of the game's loop: the key, the     *)
(* computer's paddle, the ball with its walls and paddles, the points.     *)
(* The computer plays left in text mode and right on the framebuffer.      *)
(***************************************************************************)
CONSTANTS
    PongW, PongH,     \* the field: PONG_W x PONG_H, gw x gh
    PadH, PadW, Ball, \* pad_h, padh; padw; bsz
    PlayerStep,       \* 20: how far a key moves the paddle of gg_pong
    WinAt,            \* 7
    LagCycle          \* bound: a common multiple of the lags of the computer's paddle

ASSUME PongAssumption ==
    /\ {PongW, PongH, PadH, PadW, Ball, PlayerStep, WinAt, LagCycle} \subseteq Nat \ {0}
    /\ PadH + Ball < PongH /\ 2 * PadW + Ball + 6 < PongW
    /\ PongH \div 2 - 2 \in 0 .. (PongH - PadH) /\ PongH \div 2 + Ball < PongH

VARIABLES
    poGame,      \* "none", "text" or "gg"
    poPhase,     \* "play", "paused" or "over"
    left, right, \* lpad, rpad; p1y, p2y
    ball, fly,   \* <<bx, by>>, <<bdx, bdy>>
    points,      \* <<lscore, rscore>>, <<sc1, sc2>>
    frame        \* frame % LagCycle

pongVars == <<poGame, poPhase, left, right, ball, fly, points, frame>>

Middle == <<PongW \div 2, PongH \div 2>>
Clip(y) == IF y < 0 THEN 0 ELSE IF y > PongH - PadH THEN PongH - PadH ELSE y
Size(v) == IF v < 0 THEN -v ELSE v

PongInit ==
    /\ poGame = "none" /\ poPhase = "over" /\ left = 0 /\ right = 0
    /\ ball = Middle /\ fly = <<1, 1>> /\ points = <<0, 0>> /\ frame = 0

PongStart(g) ==
    /\ poPhase = "over" /\ poGame' = g /\ poPhase' = "play"
    /\ left' = IF g = "gg" THEN (PongH - PadH) \div 2 ELSE PongH \div 2 - 2
    /\ right' = left'
    /\ ball' = Middle /\ fly' = IF g = "gg" THEN <<3, 2>> ELSE <<1, 1>>
    /\ points' = <<0, 0>> /\ frame' = 0

PongPause ==
    /\ poGame = "text" /\ poPhase = "play" /\ poPhase' = "paused"
    /\ UNCHANGED <<poGame, left, right, ball, fly, points, frame>>

PongLeave ==
    /\ poPhase # "over" /\ poPhase' = "over"
    /\ UNCHANGED <<poGame, left, right, ball, fly, points, frame>>

-----------------------------------------------------------------------------

\* How many turns the computer waits between two moves: the more it leads the
\* longer.
Halved(n) == IF n < 0 THEN -((-n) \div 2) ELSE n \div 2
Lag == LET lag == 4 - Halved(points[1] - points[2]) IN IF lag < 1 THEN 1 ELSE lag

Chase(y) == IF frame % Lag # 0 THEN y
            ELSE IF ball[2] > y + PadH \div 2 /\ y + PadH < PongH THEN y + 1
            ELSE IF ball[2] < y + PadH \div 2 /\ y > 0 THEN y - 1 ELSE y

\* Where a paddle sends the ball: up, down, or as it came.
Angle(rel, dy) == IF rel < PadH \div 3 THEN -1
                  ELSE IF rel >= (2 * PadH) \div 3 THEN 1 ELSE dy

\* The ball of the text game, with the paddles l and r.
TextBall(l, r) ==
    LET x  == ball[1] + fly[1]
        y0 == ball[2] + fly[2]
        y  == IF y0 <= 0 THEN 0 ELSE IF y0 >= PongH - 1 THEN PongH - 1 ELSE y0
        dy == IF y0 <= 0 THEN 1 ELSE IF y0 >= PongH - 1 THEN -1 ELSE fly[2] IN
    IF x >= PongW - 1 /\ y \in r .. (r + PadH - 1)
    THEN [at |-> <<PongW - 2, y>>, to |-> <<-1, Angle(y - r, dy)>>, by |-> 0]
    ELSE IF x <= 0 /\ y \in l .. (l + PadH - 1)
    THEN [at |-> <<1, y>>, to |-> <<1, Angle(y - l, dy)>>, by |-> 0]
    ELSE IF x >= PongW THEN [at |-> Middle, to |-> <<-1, dy>>, by |-> 1]
    ELSE IF x < 0      THEN [at |-> Middle, to |-> <<1, dy>>, by |-> 2]
    ELSE [at |-> <<x, y>>, to |-> <<fly[1], dy>>, by |-> 0]

Meets(y, pad) == y + Ball >= pad /\ y <= pad + PadH

\* The ball of the framebuffer game.
GgBall(l, r) ==
    LET x  == ball[1] + fly[1]
        y  == ball[2] + fly[2]
        dy == IF y <= 0 \/ y >= PongH - Ball THEN -fly[2] ELSE fly[2]
        hitL == x <= PadW /\ Meets(y, l)
        hitR == ~hitL /\ x + Ball >= PongW - PadW /\ Meets(y, r)
        nx == IF hitL THEN PadW + 1 ELSE IF hitR THEN PongW - PadW - Ball - 1 ELSE x
        dx == IF hitL THEN Size(fly[1]) ELSE IF hitR THEN -Size(fly[1]) ELSE fly[1]
    IN  IF nx < 0 THEN [at |-> Middle, to |-> <<3, 2>>, by |-> 2]
        ELSE IF nx > PongW THEN [at |-> Middle, to |-> <<-3, 2>>, by |-> 1]
        ELSE [at |-> <<nx, y>>, to |-> <<dx, dy>>, by |-> 0]

Play(l, r, b) ==
    /\ left' = l /\ right' = r /\ ball' = b.at /\ fly' = b.to
    /\ points' = <<points[1] + (IF b.by = 1 THEN 1 ELSE 0),
                   points[2] + (IF b.by = 2 THEN 1 ELSE 0)>>
    /\ poPhase' = IF \E i \in 1 .. 2 : points'[i] >= WinAt THEN "over" ELSE "play"
    /\ UNCHANGED poGame

\* One turn of start_pong; a key that ends the pause plays on at once.
TextTurn ==
    /\ poGame = "text" /\ poPhase \in {"play", "paused"}
    /\ \E k \in {-1, 0, 1} :
         /\ poPhase = "paused" => k = 0
         /\ LET r == Clip(right + k)
                l == Chase(left) IN
            Play(l, r, TextBall(l, r))
    /\ frame' = (frame + 1) % LagCycle

\* The computer's paddle there.
\* Mutant: it walks one cell a turn, as in the text game.
FollowSlowly(y) == Clip(IF y + PadH \div 2 < ball[2] THEN y + 1
                        ELSE IF y + PadH \div 2 > ball[2] THEN y - 1 ELSE y)
Follow(y) == Clip(IF y + PadH \div 2 < ball[2] THEN y + 4
                  ELSE IF y + PadH \div 2 > ball[2] THEN y - 4 ELSE y)

\* One turn of gg_pong.
GgTurn ==
    /\ poGame = "gg" /\ poPhase = "play"
    /\ \E k \in {-1, 0, 1} :
         LET l == Clip(left + k * PlayerStep)
             r == Follow(right) IN
         Play(l, r, GgBall(l, r))
    /\ UNCHANGED frame

PongNext == (\E g \in {"text", "gg"} : PongStart(g))
            \/ PongPause \/ PongLeave \/ TextTurn \/ GgTurn

PongSpec == PongInit /\ [][PongNext]_pongVars

-----------------------------------------------------------------------------

\* The ball never leaves the field for good and does not rattle inside a wall:
\* on the framebuffer it flies away from the one it has passed.
StaysInField ==
    /\ poGame = "text" => ball[1] \in 0 .. (PongW - 1) /\ ball[2] \in 0 .. (PongH - 1)
    /\ poGame # "none" => /\ left \in 0 .. (PongH - PadH)
                          /\ right \in 0 .. (PongH - PadH)
    /\ poGame = "gg" => /\ ball[2] \in -1 .. (PongH - Ball + 1)
                        /\ ball[2] <= 0 => fly[2] > 0
                        /\ ball[2] >= PongH - Ball => fly[2] < 0
    /\ poPhase # "over" => \A i \in 1 .. 2 : points[i] < WinAt
\* The computer's paddle there is twice as fast as the ball and never misses:
\* only it can win.
NeverMisses == poGame = "gg" => points[1] = 0
PongRules == StaysInField /\ NeverMisses

-----------------------------------------------------------------------------
(***************************************************************************)
(* Breakout and Space Invaders, in text mode (kernel.c, start_breakout,    *)
(* start_invaders) and on the framebuffer (gg_breakout, gg_invaders).      *)
(* Positions on the screen are abstracted: which brick the ball meets,     *)
(* which invader the bullet meets and whether a shot meets the player is   *)
(* any choice, one turn of the game's loop being one action.               *)
(***************************************************************************)
CONSTANTS
    Rows, Columns,  \* of bricks or invaders
    Lives,          \* 3
    MaxShots,       \* SI_MAX_BUL; 3 in gg_invaders
    Descents,       \* the formation reaches the player after so many steps down
    MaxUfos         \* bound: saucers hit in a game

ASSUME ShootersAssumption ==
    /\ {Rows, Columns, Lives, MaxShots, Descents, MaxUfos} \subseteq Nat
    /\ Rows > 0 /\ Columns > 0 /\ Lives > 0

VARIABLES
    shGame,      \* "none", "breakout", "gg_breakout", "invaders" or "gg_invaders"
    shPhase,     \* "play", "serve" (the ball waits for ESPACE), "paused" or "over"
    targets,     \* bricks, inv: those that stand
    lives,
    shScore,
    bullet,      \* pbx # -1: the player's bullet flies
    shots,       \* how many of ebx are not -1
    depth,       \* gy, form_y
    ufos         \* history: saucers hit

shooterVars == <<shGame, shPhase, targets, lives, shScore, bullet, shots, depth, ufos>>

Targets == (0 .. (Rows - 1)) \X (0 .. (Columns - 1))
ShooterGames == {"breakout", "gg_breakout", "invaders", "gg_invaders"}
Framebuffer == shGame \in {"gg_breakout", "gg_invaders"}
Invading    == shGame \in {"invaders", "gg_invaders"}

\* The loop's condition.
Running(t, l) == IF l > 0 /\ t # {} THEN "play" ELSE "over"

ShootersInit ==
    /\ shGame = "none" /\ shPhase = "over" /\ targets = {} /\ lives = Lives
    /\ shScore = 0 /\ bullet = FALSE /\ shots = 0 /\ depth = 0 /\ ufos = 0

\* The field of a new game.
NewField == targets' = Targets /\ shScore' = 0 /\ bullet' = FALSE
         /\ shots' = 0 /\ depth' = 0 /\ ufos' = 0

\* A game is chosen.
ShooterStart(g) ==
    /\ shPhase = "over" /\ NewField
    /\ shGame' = g /\ lives' = Lives /\ shPhase' = "play"

\* ESPACE after a game on the framebuffer: the jump to restart leaves the
\* lives as they are.
Replay ==
    /\ shPhase = "over" /\ Framebuffer /\ NewField
    /\ shPhase' = Running(Targets, lives)
    /\ UNCHANGED <<shGame, lives>>

\* ESC leaves the game.
ShooterLeave ==
    /\ shPhase # "over" /\ shPhase' = "over" /\ shGame' = "none"
    /\ UNCHANGED <<targets, lives, shScore, bullet, shots, depth, ufos>>

\* Key P in text mode.
ShooterPause ==
    /\ ~Framebuffer
    /\ \/ shPhase = "play" /\ shPhase' = "paused"
       \/ shPhase = "paused" /\ shPhase' = "play"
    /\ UNCHANGED <<shGame, targets, lives, shScore, bullet, shots, depth, ufos>>

-----------------------------------------------------------------------------

\* What the target in row r earns, when n of them stand afterwards.
\* Mutant: the bonus of the text game counts those that still stand.
EarnsByStanding(r, n) ==
    CASE shGame = "invaders"    -> (Rows - r) * 10 + n
      [] shGame = "gg_invaders" -> IF r = 0 THEN 30 ELSE IF r <= 2 THEN 20 ELSE 10
      [] shGame = "gg_breakout" -> 10 * (Rows - r + 1)
      [] OTHER                  -> 10 * (Rows - r)
Earns(r, n) ==
    CASE shGame = "invaders"    -> (Rows - r) * 10 + (Rows * Columns - n)
      [] shGame = "gg_invaders" -> IF r = 0 THEN 30 ELSE IF r <= 2 THEN 20 ELSE 10
      [] shGame = "gg_breakout" -> 10 * (Rows - r + 1)
      [] OTHER                  -> 10 * (Rows - r)

HitTarget(t) ==
    /\ targets' = targets \ {t}
    /\ shScore' = shScore + Earns(t[1], Cardinality(targets) - 1)

\* One turn of a Breakout: the ball meets one brick, falls below the paddle,
\* or flies.  The text game has the player serve, and then plays on.
BreakoutTurn ==
    /\ shGame \in {"breakout", "gg_breakout"} /\ shPhase = "play"
    /\ \/ \E t \in targets : HitTarget(t) /\ lives' = lives /\ shPhase' = Running(targets', lives)
       \/ /\ lives' = lives - 1
          /\ shPhase' = IF lives' = 0 THEN "over"
                        ELSE IF shGame = "breakout" THEN "serve" ELSE "play"
          /\ UNCHANGED <<targets, shScore>>
    /\ UNCHANGED <<shGame, bullet, shots, depth, ufos>>

Serve ==
    /\ shPhase = "serve" /\ shPhase' = "play"
    /\ UNCHANGED <<shGame, targets, lives, shScore, bullet, shots, depth, ufos>>

\* The player's bullet: it flies on, leaves the screen, hits an invader, or the
\* saucer of gg_invaders.  A new one can be fired when none flies.
BulletMoves ==
    \/ bullet' = bullet /\ UNCHANGED <<targets, shScore, ufos>>
    \/ bullet' = ~bullet /\ UNCHANGED <<targets, shScore, ufos>>
    \/ bullet /\ bullet' = FALSE /\ UNCHANGED ufos /\ \E t \in targets : HitTarget(t)
    \/ /\ bullet /\ shGame = "gg_invaders" /\ ufos < MaxUfos
       /\ bullet' = FALSE /\ ufos' = ufos + 1
       /\ shScore' = shScore + 200 /\ UNCHANGED targets

\* The invaders' shots: some land, some of these on the player.  In gg_invaders
\* the first that does clears the screen of shots; in text mode all of them
\* count.
ShotsLand(landed, met) ==
    /\ met <= landed /\ landed <= shots
    /\ IF shGame = "gg_invaders" /\ met > 0
       THEN shots' = 0 ELSE shots' \in {shots - landed, shots - landed + 1}
    /\ shots' <= MaxShots

\* One turn of an Invaders.
InvadersTurn ==
    /\ Invading /\ shPhase = "play"
    /\ BulletMoves
    /\ \E landed \in 0 .. shots, met \in 0 .. shots :
         /\ ShotsLand(landed, met)
         /\ depth' \in {depth, depth + 1}
         /\ targets' = {} => shots' <= shots /\ (depth' = depth \/ shGame = "gg_invaders")
         /\ lives' = IF depth' = Descents /\ targets' # {} THEN 0
                     ELSE IF shGame = "gg_invaders" /\ met > 0 THEN lives - 1
                     ELSE lives - met
    /\ shPhase' = Running(targets', lives')
    /\ UNCHANGED shGame

ShootersNext ==
    \/ \E g \in ShooterGames : ShooterStart(g)
    \/ Replay \/ ShooterLeave \/ ShooterPause \/ BreakoutTurn \/ Serve \/ InvadersTurn

ShootersSpec == ShootersInit /\ [][ShootersNext]_shooterVars

-----------------------------------------------------------------------------

\* The score is that of the targets that are gone, in whatever order they were
\* hit (in the text Invaders the k-th hit earns k more); and only the text
\* Invaders can end below zero lives, several shots landing in one turn.
ShooterRules ==
    LET gone == Targets \ targets
        n    == Cardinality(gone) IN
    shGame # "none" =>
    /\ shScore = CASE shGame = "invaders" ->
                        MapThenSumSet(LAMBDA t : 10 * (Rows - t[1]), gone) + (n * (n + 1)) \div 2
                   [] shGame = "gg_invaders" ->
                        200 * ufos + MapThenSumSet(LAMBDA t : Earns(t[1], 0), gone)
                   [] OTHER -> MapThenSumSet(LAMBDA t : Earns(t[1], 0), gone)
    /\ lives < 0 => shGame = "invaders" /\ shPhase = "over" /\ lives >= 1 - MaxShots
    /\ shPhase \in {"play", "serve", "paused"} => lives > 0 /\ targets # {}

=============================================================================
