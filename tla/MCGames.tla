------------------------------ MODULE MCGames ------------------------------
(***************************************************************************)
(* One title at a time, as in the menus: each game is checked from its own *)
(* start, the others standing still.                                       *)
(***************************************************************************)
EXTENDS Casino, ArcadeGames, BoardGames, Doom

MCTetrominoes == {{<<1, 0>>, <<1, 1>>, <<1, 2>>, <<1, 3>>}, {<<1, 1>>, <<1, 2>>, <<2, 1>>, <<2, 2>>}}
MCAttackers == {<<2, 0>>, <<0, 2>>, <<4, 1>>}
MCDefenders == {<<2, 1>>}

MCWalls == {<<x, y>> \in (0 .. 5) \X (0 .. 4) : x \in {0, 5} \/ y \in {0, 4}} \union {<<2, 2>>}
MCStart == <<1, 1>>
MCPedestal == <<2, 1>>
MCEnemies == <<<<3, 1>>, <<1, 3>>>>
MCPickups == {[kind |-> "health", at |-> <<2, 1>>], [kind |-> "ammo", at |-> <<4, 1>>]}

VARIABLE title

\* Bound: a purse that once held more is not followed.
BEST == 4
SmallPurse == best <= BEST /\ hiscore <= BEST

Titles == {"casino", "snake", "tetris", "2048", "mines", "simon", "pong", "shooters", "hnefatafl", "doom", "sounds"}

gamesVars == <<title, casinoVars, snakeVars, tetrisVars, tilesVars, minesVars, simonVars,
               pongVars, shooterVars, hnVars, doomVars>>

GamesInit ==
    /\ CasinoInit /\ SnakeInit /\ TetrisInit /\ TilesInit /\ MinesInit /\ SimonInit
    /\ PongInit /\ ShootersInit /\ HnInit
    /\ title \in Titles
    /\ IF title = "doom" THEN DoomInit ELSE fight = 0 /\ frames = 0 /\ sfx = NoSound

GamesNext ==
    /\ \/ title = "casino"    /\ CasinoNext
       \/ title = "snake"     /\ SnakeNext
       \/ title = "tetris"    /\ TetrisNext
       \/ title = "2048"      /\ TilesNext
       \/ title = "mines"     /\ MinesNext
       \/ title = "simon"     /\ SimonNext
       \/ title = "pong"      /\ PongNext
       \/ title = "shooters"  /\ ShootersNext
       \/ title = "hnefatafl" /\ HnNext
       \/ title = "doom"      /\ DoomNext
       \/ title = "sounds"    /\ SoundNext
    /\ title # "casino"    => UNCHANGED casinoVars
    /\ title # "snake"     => UNCHANGED snakeVars
    /\ title # "tetris"    => UNCHANGED tetrisVars
    /\ title # "2048"      => UNCHANGED tilesVars
    /\ title # "mines"     => UNCHANGED minesVars
    /\ title # "simon"     => UNCHANGED simonVars
    /\ title # "pong"      => UNCHANGED pongVars
    /\ title # "shooters"  => UNCHANGED shooterVars
    /\ title # "hnefatafl" => UNCHANGED hnVars
    /\ title \notin {"doom", "sounds"} => UNCHANGED doomVars
    /\ UNCHANGED title

GamesSpec == GamesInit /\ [][GamesNext]_gamesVars

\* Every game keeps its field and its score in step, and is lost and won as its
\* own rules say.
GameRules == /\ title = "snake"     => SnakeRules
             /\ title = "tetris"    => TetrisRules
             /\ title = "simon"     => SimonRules
             /\ title = "pong"      => PongRules
             /\ title = "shooters"  => ShooterRules
             /\ title = "2048"      => TilesRules
             /\ title = "mines"     => MinesRules
             /\ title = "hnefatafl" => BoardKept
             /\ title = "doom"      => DoomRules
             /\ title = "sounds"    => SpeakerTrue
=============================================================================
