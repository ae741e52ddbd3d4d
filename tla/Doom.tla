-------------------------------- MODULE Doom --------------------------------
(***************************************************************************)
(* KERNEL PANIC (doom.c): the rules of a frame, and its sounds.            *)
(*                                                                         *)
(* A frame polls the keys, turns, moves, fires, steals, picks up, moves    *)
(* the bosses, the enemies and the bolts; fight is what it changes.        *)
(* Lengths are fixed-point, ONE to a cell; there are four directions, so   *)
(* the pellets of one shot fly the same way.  Drawing is DoomView's.       *)
(***************************************************************************)
EXTENDS Integers, Sequences, SequencesExt, FiniteSets

CONSTANTS
    ONE, SPEED, RAD, AIMTAN, WIDETAN,
    WallsAt, MapW, MapH,        \* the small map played on
    StartCell, PedestalCell, EnemyCells, PickupCells,
    MaxHp, DrakHp, GregHp,
    MAXPROJ, MAXENEM,
    MaxFrames, MaxSounds        \* bounds: frames played, sounds played

ASSUME DoomAssumption ==
    /\ ONE > 0 /\ SPEED \in 1 .. RAD /\ 2 * RAD < ONE
    /\ MaxHp \in Nat \ {0} /\ DrakHp \in Nat \ {0} /\ GregHp \in Nat \ {0}

VARIABLES
    fight,       \* everything a frames changes
    frames,      \* frames played
    sfx         \* s_sfx_*: the sound that plays, its segment, what is left of it; the speaker
doomVars == <<fight, frames, sfx>>

-----------------------------------------------------------------------------
(* Fixed-point arithmetic, the map *)

FixMul(a, b) == (a * b) \div ONE
FixDiv(a, b) == IF a >= 0 THEN (a * ONE) \div b ELSE -(((-a) * ONE) \div b)
Truncated(a, n) == IF a >= 0 THEN a \div n ELSE -((-a) \div n)
Magnitude(a) == IF a < 0 THEN -a ELSE a
Greater(a, b) == IF a > b THEN a ELSE b
Lesser(a, b) == IF a < b THEN a ELSE b
\* The larger difference and half of the smaller.
Distance(dx, dy) == Greater(Magnitude(dx), Magnitude(dy)) + Lesser(Magnitude(dx), Magnitude(dy)) \div 2

Cell(v) == v \div ONE
IsWall(cx, cy) == cx \notin 0 .. MapW - 1 \/ cy \notin 0 .. MapH - 1 \/ <<cx, cy>> \in WallsAt
Centre(c) == c * ONE + ONE \div 2
DirX(a) == CASE a = 0 -> ONE [] a = 2 -> -ONE [] OTHER -> 0
DirY(a) == CASE a = 1 -> ONE [] a = 3 -> -ONE [] OTHER -> 0

\* Sampled every quarter of a cell.
Sees(x0, y0, x1, y1) ==
    LET steps == Greater(Magnitude(x1 - x0), Magnitude(y1 - y0)) \div (ONE \div 4)
    IN  \A i \in 1 .. steps :
            ~IsWall(Cell(x0 + i * Truncated(x1 - x0, steps)), Cell(y0 + i * Truncated(y1 - y0, steps)))

\* LAME, DECOMP, FORK, RAFALE, RMRF
WeaponKeys == <<"k1", "k2", "k3", "k4", "k5">>
AmmoOf(w) == CASE w \in {2, 4} -> "bullet" [] w = 3 -> "shell" [] w = 5 -> "charge" [] OTHER -> "none"
Rate(w) == IF w = 4 THEN 1 ELSE 2
Harm(w) == IF w \in {1, 5} THEN 3 ELSE 1

Foe(cell, ranged, hp) == [x |-> Centre(cell[1]), y |-> Centre(cell[2]), hp |-> hp, alive |-> TRUE, cool |-> 0, ranged |-> ranged]
SpawnEnemy(g, foe) == IF Len(g.enem) >= MAXENEM THEN g ELSE [g EXCEPT !.enem = Append(@, foe)]
NoBoss == [x |-> 0, y |-> 0, hp |-> 0, cool |-> 0]

NewGame ==
    [px |-> Centre(StartCell[1]), py |-> Centre(StartCell[2]), pa |-> 0,
     hp |-> MaxHp, dead |-> FALSE, won |-> FALSE, kills |-> 0,
     weap |-> 2, wcool |-> 0, prevfire |-> FALSE,
     ammo |-> [bullet |-> 4, shell |-> 1, charge |-> 1],
     enem |-> [i \in DOMAIN EnemyCells |-> Foe(EnemyCells[i], i % 2 = 0, 2)],
     proj |-> {}, pick |-> PickupCells,
     stolen |-> FALSE, bphase |-> 0, drak |-> NoBoss, greg |-> NoBoss]

-----------------------------------------------------------------------------
(* The player: try_move, hitscan, fire_weapon, steal_kernel, update_pickups *)

\* Mutant of TryMove: both axes are tested from where the player stands.
TryMoveAtOnce(g, dx, dy) ==
    LET side(d) == IF d > 0 THEN RAD ELSE -RAD
    IN  [g EXCEPT !.px = IF IsWall(Cell(g.px + dx + side(dx)), Cell(g.py)) THEN @ ELSE @ + dx,
                  !.py = IF IsWall(Cell(g.px), Cell(g.py + dy + side(dy))) THEN @ ELSE @ + dy]
TryMove(g, dx, dy) ==
    LET side(d) == IF d > 0 THEN RAD ELSE -RAD
        x == IF IsWall(Cell(g.px + dx + side(dx)), Cell(g.py)) THEN g.px ELSE g.px + dx
    IN  [g EXCEPT !.px = x,
                  !.py = IF IsWall(Cell(x), Cell(g.py + dy + side(dy))) THEN @ ELSE @ + dy]

DamageEnemy(g, i, dmg) ==
    LET hp == g.enem[i].hp - dmg
    IN  [g EXCEPT !.enem[i] = [@ EXCEPT !.hp = hp, !.alive = hp > 0],
                  !.kills = IF hp <= 0 THEN @ + 1 ELSE @]

\* The boss that can be hurt: Drakkar, and once he is down Greg.
Hurtable(g) == CASE g.bphase = 1 /\ g.drak.hp > 0 -> "drak" [] g.bphase = 2 /\ g.greg.hp > 0 -> "greg" [] OTHER -> "none"
DamageBoss(g, dmg) == IF g.bphase = 1 THEN [g EXCEPT !.drak.hp = @ - dmg] ELSE [g EXCEPT !.greg.hp = @ - dmg]

Ahead(g, x, y) == FixMul(x - g.px, DirX(g.pa)) + FixMul(y - g.py, DirY(g.pa))
Aside(g, x, y) == Magnitude(FixMul(x - g.px, -DirY(g.pa)) + FixMul(y - g.py, DirX(g.pa)))
InCone(g, x, y, cone, reach) ==
    LET fwd == Ahead(g, x, y)
    IN  fwd \in 1 .. reach /\ Aside(g, x, y) <= FixMul(fwd, cone) /\ Sees(g.px, g.py, x, y)
\* The nearest in the cone, the boss only if nearer than every enemy.
HitScan(g, dmg, cone, reach) ==
    LET near == {i \in DOMAIN g.enem : g.enem[i].alive /\ InCone(g, g.enem[i].x, g.enem[i].y, cone, reach)}
        fwd(i) == Ahead(g, g.enem[i].x, g.enem[i].y)
        best == CHOOSE i \in near : \A j \in near : fwd(i) < fwd(j) \/ (fwd(i) = fwd(j) /\ i <= j)
        boss == IF g.bphase = 1 THEN g.drak ELSE g.greg
    IN  IF /\ Hurtable(g) # "none" /\ InCone(g, boss.x, boss.y, cone + ONE \div 8, reach)
           /\ near = {} \/ Ahead(g, boss.x, boss.y) < fwd(best)
        THEN DamageBoss(g, dmg)
        ELSE IF near = {} THEN g ELSE DamageEnemy(g, best, dmg)

Within(g, x, y, r) == (g.px - x) * (g.px - x) + (g.py - y) * (g.py - y) < r * r
Blast(g) ==
    LET hit(s, i) == IF s.enem[i].alive /\ Within(s, s.enem[i].x, s.enem[i].y, 5 * ONE)
                        /\ Sees(s.px, s.py, s.enem[i].x, s.enem[i].y)
                     THEN DamageEnemy(s, i, Harm(5)) ELSE s
        cleared == FoldLeft(hit, g, [i \in DOMAIN g.enem |-> i])
        boss == IF g.bphase = 1 THEN g.drak ELSE g.greg
    IN  IF Hurtable(g) # "none" /\ Within(g, boss.x, boss.y, 5 * ONE) THEN DamageBoss(cleared, Harm(5)) ELSE cleared

FireWeapon(g) ==
    LET a == AmmoOf(g.weap)
        fired == [g EXCEPT !.wcool = Rate(g.weap), !.ammo = IF a = "none" THEN @ ELSE [@ EXCEPT ![a] = @ - 1]]
        pellet(s, p) == HitScan(s, Harm(3), AIMTAN, 40 * ONE)
    IN  IF g.wcool > 0 \/ (a # "none" /\ g.ammo[a] <= 0) THEN g
        ELSE CASE g.weap = 1 -> HitScan(fired, Harm(1), WIDETAN, (ONE * 3) \div 2)
               [] g.weap = 3 -> FoldLeft(pellet, fired, [p \in 1 .. 7 |-> p])
               [] g.weap = 5 -> Blast(fired)
               [] OTHER -> HitScan(fired, Harm(g.weap), AIMTAN, 64 * ONE)

\* The guardians come, and two more enemies.
StealKernel(g) ==
    LET at(boss, cool) == [boss EXCEPT !.x = Centre(PedestalCell[1]), !.y = Centre(PedestalCell[2]), !.cool = cool]
        stolen == [g EXCEPT !.stolen = TRUE, !.bphase = 1, !.drak = at([@ EXCEPT !.hp = DrakHp], 1),
                            !.greg = at([@ EXCEPT !.hp = GregHp], 2)]
    IN  IF g.stolen THEN g ELSE SpawnEnemy(stolen, Foe(PedestalCell, FALSE, 1))

UpdatePickups(g) ==
    LET taken == {p \in g.pick : Magnitude(g.px - Centre(p.at[1])) < (ONE * 3) \div 5 /\ Magnitude(g.py - Centre(p.at[2])) < (ONE * 3) \div 5}
        take(s, p) == IF p.kind = "health" THEN [s EXCEPT !.hp = Lesser(@ + 1, MaxHp)]
                      ELSE [s EXCEPT !.ammo = [@ EXCEPT !.bullet = @ + 1, !.shell = @ + 1]]
    IN  FoldLeft(take, [g EXCEPT !.pick = @ \ taken], SetToSeq(taken))

-----------------------------------------------------------------------------
(* The others: update_proj, enemy_ai, boss_update *)

\* A bolt takes a free place, if there is one.
SpawnProj(g, x, y, tx, ty, dmg) ==
    LET dist == Greater(Distance(tx - x, ty - y), ONE)
        bolt == [x |-> x, y |-> y, vx |-> FixMul(FixDiv(tx - x, dist), ONE \div 2),
                 vy |-> FixMul(FixDiv(ty - y, dist), ONE \div 2), dmg |-> dmg, at |-> CHOOSE i \in 1 .. MAXPROJ : i \notin {p.at : p \in g.proj}]
    IN  IF Cardinality(g.proj) >= MAXPROJ THEN g ELSE [g EXCEPT !.proj = @ \union {bolt}]

UpdateProj(g) ==
    LET moved == {[p EXCEPT !.x = @ + p.vx, !.y = @ + p.vy] : p \in g.proj}
        flying == {p \in moved : ~IsWall(Cell(p.x), Cell(p.y))}
        hits == {p \in flying : 3 * Magnitude(g.px - p.x) < ONE /\ 3 * Magnitude(g.py - p.y) < ONE}
    IN  [g EXCEPT !.proj = flying \ hits, !.hp = FoldLeft(LAMBDA h, p : h - p.dmg, @, SetToSeq(hits))]

\* One enemy: it comes, or keeps away and shoots, and strikes when it is near.
EnemyTurn(g, i) ==
    LET e == g.enem[i]
        dx == g.px - e.x
        dy == g.py - e.y
        dist == Distance(dx, dy)
        away == IF e.ranged /\ dist < 2 * ONE THEN -1 ELSE 1
        sx == away * FixMul(FixDiv(dx, dist), SPEED)
        sy == away * FixMul(FixDiv(dy, dist), SPEED)
        x == IF IsWall(Cell(e.x + sx), Cell(e.y)) THEN e.x ELSE e.x + sx
        y == IF IsWall(Cell(x), Cell(e.y + sy)) THEN e.y ELSE e.y + sy
        sees == 2 * dist > ONE /\ dist < 10 * ONE /\ Sees(e.x, e.y, g.px, g.py)
        acts == sees /\ e.cool <= 0 /\ (e.ranged \/ 4 * dist < 3 * ONE)
        done == IF ~acts THEN g
                ELSE IF e.ranged THEN SpawnProj(g, x, y, g.px, g.py, 1) ELSE [g EXCEPT !.hp = @ - 1]
    IN  IF ~e.alive THEN g
        ELSE [done EXCEPT !.enem[i] = [e EXCEPT !.x = IF sees THEN x ELSE @, !.y = IF sees THEN y ELSE @,
                                                !.cool = IF acts THEN 1 ELSE IF @ > 0 THEN @ - 1 ELSE @]]
\* Mutant of EnemyAi: who has won can still die.
EnemyAiStern(g) ==
    LET after == UpdateProj(FoldLeft(EnemyTurn, g, [i \in DOMAIN g.enem |-> i]))
    IN  IF after.hp <= 0 THEN [after EXCEPT !.hp = 0, !.dead = TRUE] ELSE after
EnemyAi(g) ==
    LET after == UpdateProj(FoldLeft(EnemyTurn, g, [i \in DOMAIN g.enem |-> i]))
    IN  IF after.hp <= 0 /\ ~g.won THEN [after EXCEPT !.hp = 0, !.dead = TRUE] ELSE after

BossMoveToward(b, g, speed, standoff) ==
    LET dist == Greater(Distance(g.px - b.x, g.py - b.y), ONE)
    IN  IF dist <= standoff THEN b
        ELSE [b EXCEPT !.x = @ + FixMul(FixDiv(g.px - b.x, dist), speed), !.y = @ + FixMul(FixDiv(g.py - b.y, dist), speed)]
Fan(g, b, n, spread) ==
    FoldLeft(LAMBDA s, k : SpawnProj(s, b.x, b.y, g.px + k * spread, g.py + k * spread, 1), g, [i \in 1 .. 2 * n + 1 |-> i - 1 - n])
Waited(b, sees, again, wait) == [b EXCEPT !.cool = (IF @ > 0 THEN @ ELSE IF sees THEN again ELSE wait) - 1]

\* aura: whether this tick is one in eight, when Greg burns who stands near.
BossUpdate(g, aura) ==
    LET drak == BossMoveToward(g.drak, g, SPEED, (ONE * 5) \div 2)
        greg1 == BossMoveToward(g.greg, g, SPEED, ONE * 4)
        greg2 == BossMoveToward(g.greg, g, SPEED, ONE * 2)
        sees(b) == Sees(b.x, b.y, g.px, g.py)
        breath == IF drak.cool <= 0 /\ sees(drak) THEN Fan(g, drak, 2, ONE \div 2) ELSE g
        volley == IF greg2.cool <= 0 /\ sees(greg2) THEN Fan(g, greg2, 1, ONE) ELSE g
        near == 2 * Distance(g.px - greg2.x, g.py - greg2.y) < 3 * ONE
    IN  CASE g.bphase = 1 ->
               LET down == drak.hp <= 0
               IN  [breath EXCEPT !.drak = Waited(drak, sees(drak), 2, 1), !.bphase = IF down THEN 2 ELSE @,
                                  !.greg = IF down THEN [greg1 EXCEPT !.cool = 1] ELSE greg1]
          [] g.bphase = 2 ->
               LET down == greg2.hp <= 0
               IN  [volley EXCEPT !.greg = Waited(greg2, sees(greg2), 2, 1), !.hp = IF near /\ aura THEN @ - 1 ELSE @,
                                  !.bphase = IF down THEN 3 ELSE @, !.won = @ \/ down]
          [] OTHER -> g

-----------------------------------------------------------------------------
(* A frames: gg_kernel_panic *)

TurnedHead(g, keys) == [g EXCEPT !.pa = (@ + (IF "LEFT" \in keys THEN 3 ELSE 0) + (IF "RIGHT" \in keys THEN 1 ELSE 0)) % 4]
Walked(g, keys) ==
    LET way(yes, no) == (IF yes \in keys THEN SPEED ELSE 0) - (IF no \in keys THEN SPEED ELSE 0)
        mv == way("Z", "S")
        sv == way("D", "Q")
    IN  IF mv = 0 /\ sv = 0 THEN g
        ELSE TryMove(g, FixMul(DirX(g.pa), mv) + FixMul(-DirY(g.pa), sv), FixMul(DirY(g.pa), mv) + FixMul(DirX(g.pa), sv))
Armed(g, keys) ==
    LET chosen == {w \in DOMAIN WeaponKeys : WeaponKeys[w] \in keys}
    IN  [g EXCEPT !.weap = IF chosen = {} THEN @ ELSE CHOOSE w \in chosen : \A v \in chosen : v <= w]
\* Only RAFALE fires on while the key is held.
Fired(g, keys) ==
    LET now == "SPACE" \in keys
        shot == IF now /\ (g.weap = 4 \/ ~g.prevfire) THEN FireWeapon(g) ELSE g
    IN  [shot EXCEPT !.prevfire = now, !.wcool = IF @ > 0 THEN @ - 1 ELSE @]
Interacted(g, keys) ==
    IF "E" \in keys /\ 2 * Magnitude(g.px - Centre(PedestalCell[1])) < 3 * ONE /\ 2 * Magnitude(g.py - Centre(PedestalCell[2])) < 3 * ONE
    THEN StealKernel(g) ELSE g

Frame(keys, aura) ==
    LET acted == UpdatePickups(Interacted(Fired(Armed(Walked(TurnedHead(fight, keys), keys), keys), keys), keys))
    IN  /\ frames < MaxFrames /\ frames' = frames + 1
        /\ fight' = IF fight.dead \/ fight.won THEN fight ELSE EnemyAi(BossUpdate(acted, aura))

-----------------------------------------------------------------------------
(* Sounds: sfx_play, sfx_tick, sfx_stop *)

\* Segments are pairs of a tone, 0 for silence, and its frames.
Sounds == [fire |-> [seq |-> <<<<760, 1>>, <<360, 1>>>>, prio |-> 1], kill |-> [seq |-> <<<<300, 1>>, <<120, 2>>>>, prio |-> 2],
           alarm |-> [seq |-> <<<<880, 3>>, <<440, 3>>>>, prio |-> 4], death |-> [seq |-> <<<<420, 3>>, <<120, 7>>>>, prio |-> 5]]
NoSound == [id |-> "none", i |-> 0, t |-> 0, prio |-> 0, speaker |-> 0]
Begun(id) == [id |-> id, i |-> 1, t |-> Sounds[id].seq[1][2], prio |-> Sounds[id].prio, speaker |-> Sounds[id].seq[1][1]]
SfxPlay(id) == sfx' = IF sfx.id # "none" /\ Sounds[id].prio < sfx.prio THEN sfx ELSE Begun(id)
SfxTick ==
    LET seq == Sounds[sfx.id].seq
    IN  sfx' = CASE sfx.id = "none" -> sfx
                 [] sfx.id # "none" /\ sfx.t > 1 -> [sfx EXCEPT !.t = @ - 1]
                 [] sfx.id # "none" /\ sfx.t <= 1 /\ sfx.i = Len(seq) -> NoSound
                 [] OTHER -> [sfx EXCEPT !.i = @ + 1, !.t = seq[sfx.i + 1][2], !.speaker = seq[sfx.i + 1][1]]

-----------------------------------------------------------------------------
DoomInit == fight = NewGame /\ frames = 0 /\ sfx = NoSound
HeldKeys == {{}} \union {{k} : k \in {"RIGHT", "Z", "Q", "SPACE", "E"}}
            \union {{"Z", "D"}, {"Z", "E"}} \union {{k, "SPACE"} : k \in {"k1", "k3", "k4", "k5"}}
DoomNext == \E keys \in HeldKeys, aura \in BOOLEAN : Frame(keys, aura) /\ UNCHANGED sfx
SoundNext == /\ frames < MaxSounds /\ frames' = frames + 1 /\ UNCHANGED fight
             /\ SfxTick \/ \E id \in DOMAIN Sounds : SfxPlay(id)

-----------------------------------------------------------------------------
(* Properties *)

\* Nobody walks or flies in a wall, however moves and corners are combined.
OutsideWalls ==
    /\ ~IsWall(Cell(fight.px), Cell(fight.py))
    /\ \A i \in DOMAIN fight.enem : ~IsWall(Cell(fight.enem[i].x), Cell(fight.enem[i].y))
    /\ \A p \in fight.proj : ~IsWall(Cell(p.x), Cell(p.y))
\* Every kill is counted once, whatever weapon and however many pellets hit; no shot without ammunition.
KillsCounted ==
    /\ fight.kills = Cardinality({i \in DOMAIN fight.enem : ~fight.enem[i].alive})
    /\ \A i \in DOMAIN fight.enem : fight.enem[i].alive <=> fight.enem[i].hp > 0
    /\ \A a \in DOMAIN fight.ammo : fight.ammo[a] >= 0
\* doom.c: "never win AND die", and never heal a corpse; who has no life left is dead or has won.
WinOrDie == /\ ~(fight.won /\ fight.dead) /\ (fight.dead => fight.hp = 0) /\ fight.hp <= MaxHp
            /\ fight.hp <= 0 => fight.dead \/ fight.won
\* The bosses come when the kernel is stolen, Greg is safe while Drakkar lives, and
\* the fight is won when both are down.
BossesInTurn ==
    /\ fight.stolen <=> fight.bphase > 0
    /\ fight.bphase = 1 => fight.greg.hp = GregHp
    /\ fight.bphase \in {2, 3} => fight.drak.hp <= 0
    /\ fight.won <=> fight.bphase = 3
    /\ fight.won => fight.greg.hp <= 0
DoomRules == OutsideWalls /\ KillsCounted /\ WinOrDie /\ BossesInTurn

\* The speaker is on exactly while a sound plays, at the tone of its segment.
SpeakerTrue ==
    /\ sfx.id = "none" <=> sfx.speaker = 0
    /\ sfx.id # "none" => sfx.speaker = Sounds[sfx.id].seq[sfx.i][1] /\ sfx.t \in 1 .. Sounds[sfx.id].seq[sfx.i][2]
=============================================================================
