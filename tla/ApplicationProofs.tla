------------------------- MODULE ApplicationProofs -------------------------
(***************************************************************************)
(* Theorems about applications.  Casino.tla: through every game of the two  *)
(* casinos, left in the middle or played to its end, the money of the       *)
(* player is what the rules of the games give.  The graphical games take a  *)
(* stake when a hand is dealt, the text games only when it is lost; the     *)
(* invariant counts the stake taken (Taken) and says why a text game can    *)
(* still pay (Covered).                                                     *)
(* RuneChant.tla: in every interleaving of the window's calls with the      *)
(* threads they spawn, at most one tune sounds, and it is the window's.     *)
(* ArcadeGames.tla: the snake stays in one piece inside its field, and its  *)
(* score is what it has eaten; the ball of pong stays in the field, and the *)
(* computer's paddle never misses it.                                       *)
(* BoardGames.tla: the sequence of simon, the field of minesweeper and the  *)
(* board of hnefatafl are kept by every action of their games.              *)
(***************************************************************************)
EXTENDS Casino, ArcadeGames, BoardGames, RuneChant, TLAPS, FiniteSetTheorems

-----------------------------------------------------------------------------
(* The invariant *)

AllGames == {"none"} \union TextGames \union GraphicGames

MoneyTyped ==
    /\ balance \in Nat /\ best \in Nat /\ hiscore \in Nat /\ saved \in Nat
    /\ bal \in Nat /\ top \in Nat /\ bet \in Nat /\ pokerBet \in Nat
    /\ fair \in Int /\ booted \in BOOLEAN
    /\ game \in AllGames /\ (game = "none" <=> phase = "none")

\* What the player has is what the rules give, with the stake of a hand that is
\* being played.
Balanced == IF game = "none" THEN balance = fair ELSE bal + Taken = fair

\* A text game's own record keeps up with its balance; a graphical one has none.
Records ==
    /\ game = "none" => top = 0
    /\ game \in GraphicGames => top = best
    /\ game \in TextGames /\ ~booted => top >= bal
    /\ hiscore <= Larger(best, top)
    /\ ~booted => best >= balance

\* A text game takes the stake at the end: it must still be there.
Covered ==
    /\ game = "plinko" => bal = 0 \/ bet <= bal
    /\ game = "blackjack" /\ phase # "bet" => bet <= bal
    /\ phase \notin {"none", "bet", "over"} => game \in {"blackjack", "cg_blackjack"}

CasinoInv == MoneyTyped /\ Balanced /\ Records /\ Covered

\* Three halves, the whole and the loss of a stake, as Settle computes them.
LEMMA Halves ==
    ASSUME NEW b \in Nat
    PROVE  /\ (b * 3) \div 2 = b + b \div 2 /\ b \div 2 \in Nat
           /\ (b * 2) \div 2 = b /\ (b * 0) \div 2 = 0 /\ (b * (-2)) \div 2 = -b
  OBVIOUS

\* What a stake brings at odds of t to one, with and without the stake itself.
LEMMA Times ==
    ASSUME NEW b \in Nat, NEW t \in Nat
    PROVE  b * t \in Nat /\ b * (t - 1) = b * t - b /\ b * (t + 1) = b * t + b
  OBVIOUS

\* A hand ends in one of four ways, a natural only in a win at 3:2 or a draw.
LEMMA ResultIs ==
    /\ Result \in {3, 2, 0, -2}
    /\ phase = "natural" => Result \in {0, 3}
    /\ phase # "natural" => Result \in {2, 0, -2}
<1>1. PICK p, d : p = Value(player) /\ d = Value(dealer)
  OBVIOUS
<1>2. CASE phase = "natural"
  <2>1. Result \in {0, 3}
    BY <1>2 DEF Result
  <2> QED
    BY <1>2, <2>1
<1>3. CASE phase = "over21"
  BY <1>1, <1>3 DEF Result
<1>4. CASE phase \notin {"natural", "over21"}
  <2>1. CASE d > 21 \/ p > d
    BY <1>1, <1>4, <2>1 DEF Result
  <2>2. CASE ~(d > 21 \/ p > d)
    BY <1>1, <1>4, <2>2 DEF Result
  <2> QED
    BY <1>4, <2>1, <2>2
<1> QED
  BY <1>2, <1>3, <1>4

\* The invariant holds when the machine starts.
LEMMA CasinoStart == CasinoInit => CasinoInv
<1> SUFFICES ASSUME CasinoInit
             PROVE  CasinoInv
  OBVIOUS
<1>1. StartBalance \in Nat
  BY CasinoAssumption
<1>2. MoneyTyped
  <2>1. booted \in BOOLEAN
    BY Zenon DEF CasinoInit
  <2> QED
    BY <1>1, <2>1 DEF CasinoInit, MoneyTyped, AllGames
<1>3. Balanced /\ Records /\ Covered
  BY <1>1 DEF CasinoInit, Balanced, Records, Covered, TextGames, GraphicGames, Larger
<1> QED
  BY <1>2, <1>3 DEF CasinoInv

\* The lobby.
LEMMA LobbyKeeps ==
    ASSUME CasinoInv, Receive \/ PokerClose \/ SaveBalance
    PROVE  CasinoInv'
<1>1. CASE Receive
  BY <1>1, CasinoAssumption DEF CasinoInv, MoneyTyped, Balanced, Records, Covered,
     AllGames,
     TextGames, GraphicGames, Larger, Receive, table, Taken
<1>2. CASE PokerClose
  BY <1>2 DEF CasinoInv, MoneyTyped, Balanced, Records, Covered, AllGames,
     TextGames, GraphicGames, Larger, PokerClose, table, money, Taken
<1>3. CASE SaveBalance
  BY <1>3 DEF CasinoInv, MoneyTyped, Balanced, Records, Covered, AllGames,
     TextGames, GraphicGames, Larger, SaveBalance, table, Taken
<1> QED
  BY <1>1, <1>2, <1>3

\* The balance comes from disk, the record does not.
LEMMA RebootKeeps ==
    ASSUME CasinoInv, Reboot
    PROVE  CasinoInv'
<1>1. StartBalance \in Nat /\ saved \in Nat
  BY CasinoAssumption DEF CasinoInv, MoneyTyped
<1>2. MoneyTyped'
  BY <1>1 DEF Reboot, MoneyTyped, AllGames
<1>3. (Balanced /\ Records /\ Covered)'
  BY <1>1 DEF Reboot, Balanced, Records, Covered, TextGames, GraphicGames, Larger
<1> QED
  BY <1>2, <1>3 DEF CasinoInv

\* Video poker of the casino window: the stake is taken at the deal, a multiple
\* of it comes back at the draw.
LEMMA PokerKeeps ==
    ASSUME CasinoInv, PokerDeal \/ PokerDraw
    PROVE  CasinoInv'
<1>1. CASE PokerDeal
  BY <1>1, CasinoAssumption DEF CasinoInv, MoneyTyped, Balanced, Records, Covered,
     AllGames,
     TextGames, GraphicGames, Larger, PokerDeal, table, Taken
<1>2. CASE PokerDraw
  <2>1. PICK times \in {0} \union Factors :
          balance' = balance + times * pokerBet /\ fair' = fair + times * pokerBet
    BY <1>2 DEF PokerDraw
  <2>2. PICK n \in Nat : n = times * pokerBet
    BY CasinoAssumption, Times DEF CasinoInv, MoneyTyped
  <2>3. balance' = balance + n /\ fair' = fair + n
    BY <2>1, <2>2
  <2> QED
    BY <1>2, <2>3, CasinoAssumption DEF CasinoInv, MoneyTyped, Balanced, Records,
       Covered, AllGames,
       TextGames, GraphicGames, Larger, PokerDraw, table, Taken
<1> QED
  BY <1>1, <1>2

\* A game starts with the whole balance as its own.
LEMMA EnterKeeps ==
    ASSUME CasinoInv, NEW g \in TextGames \union GraphicGames, Enter(g)
    PROVE  CasinoInv'
  BY CasinoAssumption DEF CasinoInv, MoneyTyped, Balanced, Records, Covered, AllGames,
     FirstBet,
     TextGames, GraphicGames, Larger, Enter, money, Taken

\* A game left hands its balance back; what a hand had taken is settled.
LEMMA LeaveKeeps ==
    ASSUME CasinoInv, Leave
    PROVE  CasinoInv'
  BY CasinoAssumption DEF CasinoInv, MoneyTyped, Balanced, Records, Covered, AllGames,
     Scored,
     TextGames, GraphicGames, Larger, Leave, Taken, TextBest, GraphicBest

\* The stake is changed within the balance.
LEMMA ChangeBetKeeps ==
    ASSUME CasinoInv, ChangeBet
    PROVE  CasinoInv'
  BY CasinoAssumption DEF CasinoInv, MoneyTyped, Balanced, Records, Covered, AllGames,
     TextGames, GraphicGames, Larger, ChangeBet, money, Taken, TextRaise, TextLower

\* A gain that the balance covers is paid exactly.
LEMMA PayKeeps ==
    ASSUME CasinoInv, NEW gain \in Int, bal + gain >= 0, Pay(gain),
           game \in TextGames, game' = game, booted' = booted, fair' = fair + gain,
           saved' = saved, pokerBet' = pokerBet, bet' \in Nat, phase' \in {"bet", phase},
           game = "blackjack" => phase' = "bet",
           \/ balance' = balance /\ best' = best
           \/ balance' = bal' /\ best' = Larger(best, top'),
           game = "plinko" => bal' = 0 \/ bet' <= bal'
    PROVE  CasinoInv'
<1>1. bal' = bal + gain /\ top' = Larger(top, bal') /\ hiscore' = Larger(hiscore, top')
  BY DEF CasinoInv, MoneyTyped, TextGames, Pay, Scored
<1>2. phase' # "none" /\ game # "none" /\ game \notin GraphicGames
  BY DEF CasinoInv, MoneyTyped, TextGames, GraphicGames
<1>3. bal' \in Nat /\ top' \in Nat /\ hiscore' \in Nat /\ best' \in Nat /\ balance' \in Nat
  BY <1>1 DEF CasinoInv, MoneyTyped, Larger
<1>4. MoneyTyped'
  BY <1>2, <1>3 DEF CasinoInv, MoneyTyped
<1>5. Balanced'
  <2>1. Taken = 0 /\ Taken' = 0
    BY DEF Taken, TextGames
  <2>2. bal + gain = fair'
    BY <1>2, <2>1 DEF CasinoInv, MoneyTyped, Balanced
  <2>3. bal' + 0 = fair'
    BY <1>1, <1>3, <2>2 DEF CasinoInv, MoneyTyped
  <2> QED
    BY <1>2, <2>1, <2>3 DEF Balanced
<1>6. Records'
  BY <1>1, <1>2, <1>3 DEF CasinoInv, MoneyTyped, Records, Larger
<1>7. Covered'
  BY <1>2 DEF CasinoInv, Covered
<1> QED
  BY <1>4, <1>5, <1>6, <1>7 DEF CasinoInv

\* start_roulette.
LEMMA RouletteKeeps ==
    ASSUME CasinoInv, Roulette
    PROVE  CasinoInv'
<1>1. PICK mise \in Stakes, odds \in Odds, won \in BOOLEAN :
        LET gain == IF won THEN mise * odds ELSE -mise IN
        Pay(gain) /\ fair' = fair + gain
  BY DEF Roulette
<1>2. mise \in 1 .. bal /\ bal \in Nat /\ bet \in Nat
  BY DEF Stakes, CasinoInv, MoneyTyped
<1>3. PICK n \in Nat : n = mise * odds
  BY <1>2, Times, CasinoAssumption
<1>4. PICK gain \in Int : gain = IF won THEN n ELSE -mise
  BY <1>2
<1>5. Pay(gain) /\ fair' = fair + gain
  BY <1>1, <1>3, <1>4
<1>6. bal + gain >= 0
  BY <1>2, <1>4
<1>7. phase' = phase
  BY DEF Roulette, CasinoInv, MoneyTyped
<1> QED
  BY <1>2, <1>5, <1>6, <1>7, PayKeeps DEF Roulette, TextGames

\* cg_roulette takes the stake and pays it back with the gain.
LEMMA CgRouletteKeeps ==
    ASSUME CasinoInv, CgRoulette
    PROVE  CasinoInv'
<1>1. PICK odds \in Odds, won \in BOOLEAN :
        /\ bal' = bal - bet + (IF won THEN CgPayout(odds) ELSE 0)
        /\ fair' = fair + (IF won THEN bet * odds ELSE -bet)
  BY DEF CgRoulette
<1>2. bal \in Nat /\ bet \in Nat /\ bet <= bal /\ fair \in Int
  BY DEF CgRoulette, CasinoInv, MoneyTyped
<1>3. PICK n \in Nat : n = bet * odds
  BY <1>2, Times, CasinoAssumption
<1>4. CgPayout(odds) = n + bet
  BY <1>2, <1>3, Times, CasinoAssumption DEF CgPayout
<1>5. bal' \in Nat /\ bal' - bal = fair' - fair /\ fair' \in Int
  <2>1. CASE won
    BY <1>1, <1>2, <1>3, <1>4, <2>1
  <2>2. CASE ~won
    BY <1>1, <1>2, <2>2
  <2> QED
    BY <2>1, <2>2
<1> QED
  BY <1>2, <1>5 DEF CgRoulette, CasinoInv, MoneyTyped, Balanced, Records, Covered,
     AllGames,
     TextGames, GraphicGames, Larger, money, Taken

\* start_slots.
LEMMA SlotsKeep ==
    ASSUME CasinoInv, Slots
    PROVE  CasinoInv'
<1>1. PICK alike \in 1 .. 3, pay \in Factors :
        LET mise == IF bet > bal THEN bal ELSE bet
            gain == SlotGain(mise, alike, pay) IN
        /\ PayAndKeep(gain) /\ fair' = fair + gain
        /\ bet' = IF bal' # 0 /\ mise > bal' THEN bal' ELSE mise
  BY DEF Slots
<1>2. bal \in Nat /\ bet \in Nat
  BY DEF CasinoInv, MoneyTyped
<1>3. PICK mise \in Nat : mise = (IF bet > bal THEN bal ELSE bet) /\ mise <= bal
  BY <1>2
<1>4. PICK n \in Nat : n = mise * pay
  BY <1>3, Times, CasinoAssumption
<1>5. SlotGain(mise, alike, pay) \in {n, mise, -mise}
  BY <1>4 DEF SlotGain
<1>6. PICK gain \in Int : gain = SlotGain(mise, alike, pay) /\ bal + gain >= 0
  BY <1>2, <1>3, <1>5
<1>7. /\ PayAndKeep(gain) /\ fair' = fair + gain
      /\ bet' = IF bal' # 0 /\ mise > bal' THEN bal' ELSE mise
  BY <1>1, <1>3, <1>6
<1>8. bet' \in Nat
  BY <1>2, <1>3, <1>6, <1>7 DEF PayAndKeep, Pay
<1>9. /\ phase' = phase /\ game' = game /\ game = "slots"
      /\ booted' = booted /\ saved' = saved /\ pokerBet' = pokerBet
  BY DEF Slots, CasinoInv, MoneyTyped
<1> QED
  BY <1>6, <1>7, <1>8, <1>9, PayKeeps DEF TextGames, PayAndKeep

\* cg_slots takes the stake and gives back a multiple of it.
LEMMA CgSlotsKeep ==
    ASSUME CasinoInv, CgSlots
    PROVE  CasinoInv'
<1>1. PICK times \in {0} \union Factors :
        bal' = bal - bet + bet * times /\ fair' = fair + bet * (times - 1)
  BY DEF CgSlots
<1>2. bal \in Nat /\ bet \in Nat /\ bet <= bal /\ fair \in Int
  BY DEF CgSlots, CasinoInv, MoneyTyped
<1>3. times \in Nat
  BY CasinoAssumption
<1>4. PICK n \in Nat : n = bet * times /\ bet * (times - 1) = n - bet
  BY <1>2, <1>3, Times
<1>5. bal' \in Nat /\ bal' - bal = fair' - fair /\ fair' \in Int
  BY <1>1, <1>2, <1>4
<1> QED
  BY <1>2, <1>5 DEF CgSlots, CasinoInv, MoneyTyped, Balanced, Records, Covered, AllGames,
     TextGames, GraphicGames, Larger, money, Taken

\* start_plinko.
LEMMA PlinkoKeeps ==
    ASSUME CasinoInv, Plinko
    PROVE  CasinoInv'
<1>1. PICK times \in {0} \union Factors :
        LET gain == IF times > 0 THEN bet * times ELSE -bet IN
        PayAndKeep(gain) /\ fair' = fair + gain
  BY DEF Plinko
<1>2. bal \in Nat /\ bet \in Nat /\ bet <= bal /\ times \in Nat
  BY CasinoAssumption DEF Plinko, CasinoInv, MoneyTyped, Covered
<1>3. PICK n \in Nat : n = bet * times
  BY <1>2, Times
<1>4. PICK gain \in Int : gain = (IF times > 0 THEN n ELSE -bet) /\ bal + gain >= 0
  BY <1>2
<1>5. PayAndKeep(gain) /\ fair' = fair + gain
  BY <1>1, <1>3, <1>4
<1>6. bal' \in Nat
  BY <1>2, <1>4, <1>5 DEF PayAndKeep, Pay
<1>7. bet' \in Nat /\ (bal' = 0 \/ bet' <= bal')
  BY <1>2, <1>6 DEF Plinko
<1>8. /\ phase' = phase /\ game' = game /\ game = "plinko"
      /\ booted' = booted /\ saved' = saved /\ pokerBet' = pokerBet
  BY DEF Plinko, CasinoInv, MoneyTyped
<1> QED
  BY <1>4, <1>5, <1>7, <1>8, PayKeeps DEF TextGames, PayAndKeep

\* Blackjack: the stake of a graphical hand is taken when it is dealt.
LEMMA DealKeeps ==
    ASSUME CasinoInv, Deal
    PROVE  CasinoInv'
<1>1. PICK b \in (IF game = "blackjack" THEN Stakes ELSE {bet}) :
        b <= bal /\ bet' = b /\ Stake(b)
  BY DEF Deal
<1>2. b \in Nat /\ b <= bal /\ bet' = b
  BY <1>1 DEF Stakes, CasinoInv, MoneyTyped
<1>3. phase' \in {"natural", "play"}
  BY DEF Deal
<1>4. Taken = 0
  BY DEF Deal, Taken
<1>5. bal' = IF game = "cg_blackjack" THEN bal - b ELSE bal
  BY <1>1 DEF Stake
<1> QED
  BY <1>2, <1>3, <1>4, <1>5 DEF Deal, CasinoInv, MoneyTyped, Balanced, Records, Covered,
     AllGames,
     TextGames, GraphicGames, Larger, money, Taken

\* The cards of a hand move no money.
LEMMA HandKeeps ==
    ASSUME CasinoInv, Hit \/ Stand \/ DealerDraws
    PROVE  CasinoInv'
<1>1. /\ phase \in {"play", "dealer"} /\ phase' \in {"over21", "dealer", "play"}
      /\ game' = game /\ bal' = bal /\ top' = top /\ bet' = bet /\ pokerBet' = pokerBet
      /\ fair' = fair /\ booted' = booted
      /\ balance' = balance /\ best' = best /\ hiscore' = hiscore /\ saved' = saved
  BY DEF Hit, Stand, DealerDraws, money
<1> QED
  BY <1>1 DEF CasinoInv, MoneyTyped, Balanced, Records, Covered, Taken

\* A stake is doubled only as far as the balance reaches.
LEMMA DoubleKeeps ==
    ASSUME CasinoInv, Double
    PROVE  CasinoInv'
<1>1. phase' \in {"over21", "dealer"} /\ phase = "play"
  BY DEF Double
<1>2. /\ bet' = bet * 2 /\ bet \in Nat /\ bal \in Nat
      /\ game = "cg_blackjack" => bal' = bal - bet /\ bet <= bal
      /\ game # "cg_blackjack" => game = "blackjack" /\ bal' = bal /\ bet * 2 <= bal
  BY DEF Double, CanDouble, CasinoInv, MoneyTyped
<1> QED
  BY <1>1, <1>2 DEF Double, CasinoInv, MoneyTyped, Balanced, Records, Covered, AllGames,
     TextGames, GraphicGames, Larger, money, Taken

\* The end of a hand: what the graphical game gives back is the stake and the
\* gain of the text game.
LEMMA SettleKeeps ==
    ASSUME CasinoInv, Settle
    PROVE  CasinoInv'
<1>1. bet \in Nat /\ bal \in Nat /\ fair \in Int /\ phase \in {"natural", "over21", "dealer"}
  BY DEF Settle, CasinoInv, MoneyTyped
<1>2. PICK h \in Nat : h = bet \div 2
  BY <1>1, Halves
<1>3. PICK r \in {3, 2, 0, -2} : r = Result
  BY ResultIs
<1>4. PICK gain \in Int : gain = CASE r = 3 -> bet + h [] r = 2 -> bet [] r = 0 -> 0 [] OTHER -> -bet
  BY <1>1
<1>5. (bet * Result) \div 2 = gain
  BY <1>1, <1>2, <1>3, <1>4, Halves
<1>6. fair' = fair + gain
  BY <1>5 DEF Settle
<1>7. CASE game = "cg_blackjack"
  <2>1. CgReturn = bet + gain
    BY <1>1, <1>2, <1>3, <1>4 DEF CgReturn
  <2>2. bal' = bal + bet + gain /\ bet + gain >= 0 /\ phase' = "over"
    BY <1>1, <1>2, <1>4, <1>7, <2>1 DEF Settle
  <2>3. bal + bet = fair
    BY <1>1, <1>7 DEF CasinoInv, Balanced, Taken
  <2> QED
    BY <1>1, <1>6, <1>7, <2>2, <2>3 DEF Settle, CasinoInv, MoneyTyped, Balanced,
       Records, Covered,
       AllGames, TextGames, GraphicGames, Larger, Taken
<1>8. CASE game = "blackjack"
  <2>1. TextGain = gain
    BY <1>1, <1>2, <1>3, <1>4, Halves DEF TextGain
  <2>2. bet <= bal /\ bal + gain >= 0
    BY <1>1, <1>2, <1>4, <1>8 DEF CasinoInv, Covered
  <2>3. CASE phase = "natural" /\ Result = 0
    BY <1>1, <1>3, <1>4, <1>6, <1>8, <2>3 DEF Settle, CasinoInv, MoneyTyped, Balanced,
       Records,
       Covered, AllGames, TextGames, GraphicGames, Larger, Taken
  <2>4. CASE ~(phase = "natural" /\ Result = 0)
    <3>1. Pay(gain)
      BY <1>8, <2>1, <2>4 DEF Settle
    <3> QED
      BY <1>6, <1>8, <2>2, <3>1, PayKeeps DEF Settle, TextGames, CasinoInv, MoneyTyped
  <2> QED
    BY <2>3, <2>4
<1>9. game \in {"blackjack", "cg_blackjack"}
  BY <1>1 DEF CasinoInv, Covered
<1> QED
  BY <1>7, <1>8, <1>9

\* The next round of a graphical game: a gift to the ruined, a stake on the step.
LEMMA NextRoundKeeps ==
    ASSUME CasinoInv, NextRound
    PROVE  CasinoInv'
<1>1. bal \in Nat /\ bet \in Nat /\ Gift \in Nat /\ Step \in Nat \ {0}
  BY CasinoAssumption DEF CasinoInv, MoneyTyped
<1>2. bal' \in Nat /\ bet' \in Nat
  <2>1. bal' \in Nat
    BY <1>1 DEF NextRound
  <2>2. (bal' \div Step) * Step \in Int
    BY <1>1, <2>1
  <2>3. PICK b \in Int : bet' = Larger(Step, b)
    BY <1>1, <2>2 DEF NextRound
  <2> QED
    BY <1>1, <2>1, <2>3 DEF Larger
<1> QED
  BY <1>1, <1>2 DEF NextRound, CasinoInv, MoneyTyped, Balanced, Records, Covered,
     AllGames,
     TextGames, GraphicGames, Larger, money, Taken

-----------------------------------------------------------------------------
(* The theorem *)

\* Every step keeps the invariant.
LEMMA CasinoStep == CasinoInv /\ [CasinoNext]_casinoVars => CasinoInv'
<1> SUFFICES ASSUME CasinoInv, [CasinoNext]_casinoVars
             PROVE  CasinoInv'
  OBVIOUS
<1>1. CASE UNCHANGED casinoVars
  BY <1>1 DEF casinoVars, money, table, CasinoInv, MoneyTyped, Balanced, Records,
     Covered, Taken
<1>2. CASE CasinoNext
  BY <1>2, EnterKeeps, LeaveKeeps, RouletteKeeps, CgRouletteKeeps, SlotsKeep, CgSlotsKeep,
     PlinkoKeeps, ChangeBetKeeps, DealKeeps, HandKeeps, DoubleKeeps, SettleKeeps, NextRoundKeeps,
     LobbyKeeps, PokerKeeps, RebootKeeps DEF CasinoNext
<1> QED
  BY <1>1, <1>2

\* For every stake, pay-out and gift: through every game, left or played to its
\* end, what the player has is what the rules give, and the record covers it
\* (kernel.c: start_blackjack and cg_blackjack settle one hand in two ways).
THEOREM BooksStayBalanced == CasinoSpec => []CasinoBooks
<1>1. CasinoInv => CasinoBooks
  BY DEF CasinoInv, MoneyTyped, Balanced, Records, CasinoBooks
<1> QED
  BY <1>1, CasinoStart, CasinoStep, PTL DEF CasinoSpec

\* A stake of a text game is never more than the balance when it falls due.
THEOREM StakesStayCovered == CasinoSpec => []Covered
<1>1. CasinoInv => Covered
  BY DEF CasinoInv
<1> QED
  BY <1>1, CasinoStart, CasinoStep, PTL DEF CasinoSpec

-----------------------------------------------------------------------------
(***************************************************************************)
(* The speaker of the rune chant.  The window's writes and the threads     *)
(* interleave; what keeps the speaker from being left on is that between   *)
(* the cancelling of what sounds and the new ticket nobody owns it, and    *)
(* that a ticket is taken by one thread only.                              *)
(***************************************************************************)

\* The ticket that waits is for the sound that is wanted.
Current == s_rc_ticket_gen = s_rc_gen /\ s_rc_gen # 0
Held == \E t \in SoundThreads : Owner(t)
Sounding == speaker # 0 \/ s_rc_playing # 0

\* What is left of the window's calls, by the next write.
SilenceForget == <<"forget", "quiet", "off">>
SilenceQuiet == <<"quiet", "off">>
SilenceOff == <<"off">>
NoteQuiet == <<"quiet", "off", "key", "ticket", "song", "spawn">>
NoteOff == <<"off", "key", "ticket", "song", "spawn">>
NoteKey == <<"key", "ticket", "song", "spawn">>
SongStatus == <<"status", "ticket", "song", "spawn">>
ToTicket == <<"ticket", "song", "spawn">>
ToSong == <<"song", "spawn">>
ToSpawn == <<"spawn">>
ToForget == <<"forget">>

Silencing == {SilenceForget, SilenceQuiet, SilenceOff}
\* After the cancelling and before the new ticket.
Between == Silencing \union {NoteQuiet, NoteOff, NoteKey, SongStatus, ToTicket}
Rests == {<<>>, Silence, PlayNote, StartSong, ToSong, ToSpawn, ToForget} \union Between

RuneTyped ==
    /\ s_rc_gen \in Nat /\ s_rc_ticket_gen \in 0 .. s_rc_gen
    /\ s_rc_ticket_song \in 0 .. KeyNote
    /\ sounds \in [SoundThreads -> [pc : {"free", "start", "check", "hold"}, my : Nat,
         idx : 0 .. KeyNote, n : Nat]]
    /\ \A t \in SoundThreads : sounds[t].pc \in {"check", "hold"} => sounds[t].my \in 1 .. s_rc_gen
    /\ s_rc_live \in BOOLEAN
    /\ doing \in [writes : Rests, song : 0 .. KeyNote, semi : DOMAIN NoteHz \union {0}]
    /\ doing.writes = <<>> => doing = Idle

\* One thread owns the speaker or the ticket for it waits, never both.
Single ==
    /\ \A t, u \in SoundThreads : Owner(t) /\ Owner(u) => t = u
    /\ Current => ~Held
\* How far the window's call is, and what it has made sure of.
Cancelling == doing.writes \in Between => ~Held /\ ~Current /\ s_rc_gen # 0
Quieting ==
    /\ doing.writes \in {NoteOff, SilenceOff} => s_rc_playing = 0
    /\ doing.writes = NoteKey => ~Sounding
    /\ doing.writes = ToTicket /\ doing.song = KeyNote => ~Sounding
    /\ doing.writes \in {PlayNote, NoteQuiet, NoteOff, NoteKey} => doing.song = KeyNote
    /\ doing.writes \in {StartSong, SongStatus} => doing.song # KeyNote
Asking ==
    /\ doing.writes = ToForget \/ (doing.writes \in {ToSong, ToSpawn} /\ doing.song = KeyNote)
         => s_rc_playing = 0 /\ (speaker # 0 => Held)
    /\ doing.writes \in {ToSong, ToSpawn, <<>>} /\ Sounding => Held \/ Current
    /\ doing.writes = <<>> /\ Current => \E t \in SoundThreads : sounds[t].pc = "start"
Closing ==
    ~s_rc_live => /\ doing.writes \in {<<>>, Silence} \union Silencing
                  /\ doing.writes = <<>> => ~Sounding /\ ~Current /\ ~Held
RuneInv == RuneTyped /\ Single /\ Cancelling /\ Quieting /\ Asking /\ Closing
\* The next write of what is left of a call, and what is left after it: the rests of
\* calls differ in their length or their next write.
LEMMA RestsAre ==
    /\ Len(<<>>) = 0
    /\ Len(Silence) = 4 /\ Head(Silence) = "bump" /\ Tail(Silence) = SilenceForget
    /\ Len(SilenceForget) = 3 /\ Head(SilenceForget) = "forget" /\ Tail(SilenceForget) = SilenceQuiet
    /\ Len(SilenceQuiet) = 2 /\ Head(SilenceQuiet) = "quiet" /\ Tail(SilenceQuiet) = SilenceOff
    /\ Len(SilenceOff) = 1 /\ Head(SilenceOff) = "off"
    /\ Len(PlayNote) = 7 /\ Head(PlayNote) = "bump" /\ Tail(PlayNote) = NoteQuiet
    /\ Len(NoteQuiet) = 6 /\ Head(NoteQuiet) = "quiet" /\ Tail(NoteQuiet) = NoteOff
    /\ Len(NoteOff) = 5 /\ Head(NoteOff) = "off" /\ Tail(NoteOff) = NoteKey
    /\ Len(NoteKey) = 4 /\ Head(NoteKey) = "key" /\ Tail(NoteKey) = ToTicket
    /\ Len(StartSong) = 5 /\ Head(StartSong) = "bump" /\ Tail(StartSong) = SongStatus
    /\ Len(SongStatus) = 4 /\ Head(SongStatus) = "status" /\ Tail(SongStatus) = ToTicket
    /\ Len(ToTicket) = 3 /\ Head(ToTicket) = "ticket" /\ Tail(ToTicket) = ToSong
    /\ Len(ToSong) = 2 /\ Head(ToSong) = "song" /\ Tail(ToSong) = ToSpawn
    /\ Len(ToSpawn) = 1 /\ Head(ToSpawn) = "spawn"
    /\ Len(ToForget) = 1 /\ Head(ToForget) = "forget"
<1>1. Len(Silence) = 4 /\ Head(Silence) = "bump" /\ Tail(Silence) = SilenceForget
  BY DEF Silence, SilenceForget
<1>2. Len(SilenceForget) = 3 /\ Head(SilenceForget) = "forget" /\ Tail(SilenceForget) = SilenceQuiet
  BY DEF SilenceForget, SilenceQuiet
<1>3. Len(SilenceQuiet) = 2 /\ Head(SilenceQuiet) = "quiet" /\ Tail(SilenceQuiet) = SilenceOff
  BY DEF SilenceQuiet, SilenceOff
<1>4. Len(SilenceOff) = 1 /\ Head(SilenceOff) = "off"
  BY DEF SilenceOff
<1>5. Len(PlayNote) = 7 /\ Head(PlayNote) = "bump" /\ Tail(PlayNote) = NoteQuiet
  BY DEF PlayNote, NoteQuiet
<1>6. Len(NoteQuiet) = 6 /\ Head(NoteQuiet) = "quiet" /\ Tail(NoteQuiet) = NoteOff
  BY DEF NoteQuiet, NoteOff
<1>7. Len(NoteOff) = 5 /\ Head(NoteOff) = "off" /\ Tail(NoteOff) = NoteKey
  BY DEF NoteOff, NoteKey
<1>8. Len(NoteKey) = 4 /\ Head(NoteKey) = "key" /\ Tail(NoteKey) = ToTicket
  BY DEF NoteKey, ToTicket
<1>9. Len(StartSong) = 5 /\ Head(StartSong) = "bump" /\ Tail(StartSong) = SongStatus
  BY DEF StartSong, SongStatus
<1>10. Len(SongStatus) = 4 /\ Head(SongStatus) = "status" /\ Tail(SongStatus) = ToTicket
  BY DEF SongStatus, ToTicket
<1>11. Len(ToTicket) = 3 /\ Head(ToTicket) = "ticket" /\ Tail(ToTicket) = ToSong
  BY DEF ToTicket, ToSong
<1>12. Len(ToSong) = 2 /\ Head(ToSong) = "song" /\ Tail(ToSong) = ToSpawn
  BY DEF ToSong, ToSpawn
<1>13. Len(ToSpawn) = 1 /\ Head(ToSpawn) = "spawn"
  BY DEF ToSpawn
<1>14. Len(ToForget) = 1 /\ Head(ToForget) = "forget"
  BY DEF ToForget
<1>0. Len(<<>>) = 0
  OBVIOUS
<1> QED BY <1>0, <1>1, <1>2, <1>3, <1>4, <1>5, <1>6, <1>7, <1>8, <1>9, <1>10, <1>11, <1>12, <1>13,
           <1>14, Zenon

\* What one write of the window's call does.
LEMMA WriteDoes ==
    ASSUME Write, NEW w, w = Head(doing.writes)
    PROVE  /\ s_rc_gen' = IF w = "bump" THEN s_rc_gen + 1 ELSE s_rc_gen
           /\ s_rc_ticket_gen' = IF w = "forget" THEN 0 ELSE IF w = "ticket" THEN s_rc_gen ELSE s_rc_ticket_gen
           /\ s_rc_ticket_song' = IF w = "song" THEN doing.song ELSE s_rc_ticket_song
           /\ s_rc_playing' = IF w = "quiet" THEN 0 ELSE IF w = "status" THEN doing.song ELSE s_rc_playing
           /\ speaker' = IF w = "off" THEN 0 ELSE speaker
           /\ IF w = "spawn" THEN Spawn
              ELSE /\ doing' = IF Len(doing.writes) = 1 THEN Idle ELSE [doing EXCEPT !.writes = Tail(@)]
                   /\ sounds' = sounds
           /\ s_rc_live' = s_rc_live /\ doing # Idle
  BY Zenon DEF Write

\* No two of them are equal.
LEMMA RestsDiffer ==
    /\ <<>> \notin {Silence, SilenceForget, SilenceQuiet, SilenceOff, PlayNote, NoteQuiet, NoteOff,
         NoteKey, StartSong, SongStatus, ToTicket, ToSong, ToSpawn, ToForget}
    /\ Silence \notin {SilenceForget, SilenceQuiet, SilenceOff, PlayNote, NoteQuiet, NoteOff, NoteKey,
         StartSong, SongStatus, ToTicket, ToSong, ToSpawn, ToForget}
    /\ SilenceForget \notin {SilenceQuiet, SilenceOff, PlayNote, NoteQuiet, NoteOff, NoteKey,
         StartSong, SongStatus, ToTicket, ToSong, ToSpawn, ToForget}
    /\ SilenceQuiet \notin {SilenceOff, PlayNote, NoteQuiet, NoteOff, NoteKey, StartSong, SongStatus,
         ToTicket, ToSong, ToSpawn, ToForget}
    /\ SilenceOff \notin {PlayNote, NoteQuiet, NoteOff, NoteKey, StartSong, SongStatus, ToTicket,
         ToSong, ToSpawn, ToForget}
    /\ PlayNote \notin {NoteQuiet, NoteOff, NoteKey, StartSong, SongStatus, ToTicket, ToSong, ToSpawn,
         ToForget}
    /\ NoteQuiet \notin {NoteOff, NoteKey, StartSong, SongStatus, ToTicket, ToSong, ToSpawn, ToForget}
    /\ NoteOff \notin {NoteKey, StartSong, SongStatus, ToTicket, ToSong, ToSpawn, ToForget}
    /\ NoteKey \notin {StartSong, SongStatus, ToTicket, ToSong, ToSpawn, ToForget}
    /\ StartSong \notin {SongStatus, ToTicket, ToSong, ToSpawn, ToForget}
    /\ SongStatus \notin {ToTicket, ToSong, ToSpawn, ToForget}
    /\ ToTicket \notin {ToSong, ToSpawn, ToForget}
    /\ ToSong \notin {ToSpawn, ToForget}
    /\ ToSpawn \notin {ToForget}
<1> DEFINE len(w) == Len(w)
           next(w) == Head(w)
<1>0. /\ len(<<>>) = 0
      /\ len(Silence) = 4 /\ next(Silence) = "bump"
      /\ len(SilenceForget) = 3 /\ next(SilenceForget) = "forget"
      /\ len(SilenceQuiet) = 2 /\ next(SilenceQuiet) = "quiet"
      /\ len(SilenceOff) = 1 /\ next(SilenceOff) = "off"
      /\ len(PlayNote) = 7 /\ next(PlayNote) = "bump"
      /\ len(NoteQuiet) = 6 /\ next(NoteQuiet) = "quiet"
      /\ len(NoteOff) = 5 /\ next(NoteOff) = "off"
      /\ len(NoteKey) = 4 /\ next(NoteKey) = "key"
      /\ len(StartSong) = 5 /\ next(StartSong) = "bump"
      /\ len(SongStatus) = 4 /\ next(SongStatus) = "status"
      /\ len(ToTicket) = 3 /\ next(ToTicket) = "ticket"
      /\ len(ToSong) = 2 /\ next(ToSong) = "song"
      /\ len(ToSpawn) = 1 /\ next(ToSpawn) = "spawn"
      /\ len(ToForget) = 1 /\ next(ToForget) = "forget"
  BY RestsAre, Zenon
<1> HIDE DEF len, next
<1>1. <<>> \notin {Silence, SilenceForget, SilenceQuiet, SilenceOff, PlayNote, NoteQuiet, NoteOff,
          NoteKey, StartSong, SongStatus, ToTicket, ToSong, ToSpawn, ToForget}
  BY <1>0
<1>2. Silence \notin {SilenceForget, SilenceQuiet, SilenceOff, PlayNote, NoteQuiet, NoteOff, NoteKey,
          StartSong, SongStatus, ToTicket, ToSong, ToSpawn, ToForget}
  BY <1>0
<1>3. SilenceForget \notin {SilenceQuiet, SilenceOff, PlayNote, NoteQuiet, NoteOff, NoteKey, StartSong,
          SongStatus, ToTicket, ToSong, ToSpawn, ToForget}
  BY <1>0
<1>4. SilenceQuiet \notin {SilenceOff, PlayNote, NoteQuiet, NoteOff, NoteKey, StartSong, SongStatus,
          ToTicket, ToSong, ToSpawn, ToForget}
  BY <1>0
<1>5. SilenceOff \notin {PlayNote, NoteQuiet, NoteOff, NoteKey, StartSong, SongStatus, ToTicket,
          ToSong, ToSpawn, ToForget}
  BY <1>0
<1>6. PlayNote \notin {NoteQuiet, NoteOff, NoteKey, StartSong, SongStatus, ToTicket, ToSong, ToSpawn,
          ToForget}
  BY <1>0
<1>7. NoteQuiet \notin {NoteOff, NoteKey, StartSong, SongStatus, ToTicket, ToSong, ToSpawn, ToForget}
  BY <1>0
<1>8. NoteOff \notin {NoteKey, StartSong, SongStatus, ToTicket, ToSong, ToSpawn, ToForget}
  BY <1>0
<1>9. NoteKey \notin {StartSong, SongStatus, ToTicket, ToSong, ToSpawn, ToForget}
  BY <1>0
<1>10. StartSong \notin {SongStatus, ToTicket, ToSong, ToSpawn, ToForget}
  BY <1>0
<1>11. SongStatus \notin {ToTicket, ToSong, ToSpawn, ToForget}
  BY <1>0
<1>12. ToTicket \notin {ToSong, ToSpawn, ToForget}
  BY <1>0
<1>13. ToSong \notin {ToSpawn, ToForget}
  BY <1>0
<1>14. ToSpawn \notin {ToForget}
  BY <1>0
<1> QED BY <1>1, <1>2, <1>3, <1>4, <1>5, <1>6, <1>7, <1>8, <1>9, <1>10, <1>11, <1>12, <1>13, <1>14, Zenon


LEMMA SongsAre == /\ Len(Songs) \in Nat /\ DOMAIN Songs = 1 .. Len(Songs)
                  /\ KeyNote \in Nat \ {0} /\ KeyNote \notin DOMAIN Songs
<1>1. Songs \in Seq(Seq(Nat))
  BY RuneAssumption
<1>2. Len(Songs) \in Nat /\ DOMAIN Songs = 1 .. Len(Songs)
  BY <1>1
<1> QED BY <1>2 DEF KeyNote

\* The rests that can be left.
LEMMA RestCases ==
    ASSUME RuneTyped
    PROVE  /\ doing \in [writes : Rests, song : 0 .. KeyNote, semi : DOMAIN NoteHz \union {0}]
           /\ doing.writes \in {<<>>, Silence, SilenceForget, SilenceQuiet, SilenceOff, PlayNote,
                NoteQuiet, NoteOff,
                                NoteKey, StartSong, SongStatus, ToTicket, ToSong, ToSpawn, ToForget}
<1>1. doing \in [writes : Rests, song : 0 .. KeyNote, semi : DOMAIN NoteHz \union {0}]
  BY DEF RuneTyped
<1>2. doing.writes \in Rests
  BY <1>1
<1> QED BY <1>1, <1>2 DEF Rests, Between, Silencing

LEMMA RuneStarts == RuneInit => RuneInv
<1> SUFFICES ASSUME RuneInit PROVE RuneInv
  OBVIOUS
<1>0. KeyNote \in Nat \ {0}
  BY SongsAre
<1>1. doing = Idle /\ doing.writes = <<>>
  BY DEF RuneInit, Idle
<1>2. /\ \A t \in SoundThreads : sounds[t].pc = "free"
      /\ sounds \in [SoundThreads -> [pc : {"free", "start", "check", "hold"}, my : Nat,
           idx : 0 .. KeyNote, n : Nat]]
  BY <1>0 DEF RuneInit, NoSound
<1>3. doing \in [writes : Rests, song : 0 .. KeyNote, semi : DOMAIN NoteHz \union {0}]
  BY <1>0 DEF RuneInit, Idle, Rests
<1>4. RuneTyped
  BY <1>0, <1>1, <1>2, <1>3 DEF RuneTyped, RuneInit
<1>5. ~Held /\ ~Current /\ ~Sounding /\ s_rc_playing = 0
  BY <1>2 DEF Held, Owner, Current, RuneInit, Sounding
<1>6. Single /\ Cancelling /\ Closing
  BY <1>5, <1>1, <1>2, RestsDiffer DEF Single, Cancelling, Closing, Held, RuneInit, Between, Silencing
<1>7. Quieting
  BY <1>1, <1>5, RestsDiffer DEF Quieting
<1>8. Asking
  BY <1>1, <1>5, RestsDiffer DEF Asking, Sounding
<1> QED BY <1>4, <1>6, <1>7, <1>8 DEF RuneInv

\* The window's calls write nothing yet.
LEMMA CallKeeps ==
    ASSUME RuneInv, NEW w \in {Silence, PlayNote, StartSong}, NEW song \in 0 .. KeyNote,
           NEW semi \in DOMAIN NoteHz \union {0}, Call(w, song, semi),
           w = PlayNote => song = KeyNote, w = StartSong => song # KeyNote,
           s_rc_live' \in BOOLEAN, w # Silence => s_rc_live' = s_rc_live
    PROVE  RuneInv'
<1>1. /\ doing = Idle /\ s_rc_live
      /\ doing' = [writes |-> w, song |-> song, semi |-> semi]
      /\ UNCHANGED <<s_rc_gen, s_rc_ticket_gen, s_rc_ticket_song, s_rc_playing, speaker, sounds>>
  BY DEF Call
<1>2. doing'.writes = w /\ doing'.song = song
  BY <1>1
<1>3. doing' \in [writes : Rests, song : 0 .. KeyNote, semi : DOMAIN NoteHz \union {0}]
  BY <1>1 DEF Rests
<1>4. w # <<>> /\ w \notin Between /\ w \notin {NoteOff, SilenceOff, NoteKey, ToTicket, NoteQuiet,
          ToForget, ToSong, ToSpawn, SongStatus}
  BY RestsDiffer DEF Between, Silencing
<1>5. RuneTyped'
  BY <1>1, <1>2, <1>3, <1>4 DEF RuneInv, RuneTyped
<1>6. (Held' <=> Held) /\ (Current' <=> Current)
  BY <1>1 DEF Held, Owner, Current
<1>7. Single'
  BY <1>1, <1>6 DEF RuneInv, Single, Owner
<1>8. Cancelling' /\ Quieting' /\ Asking'
  BY <1>2, <1>4 DEF Cancelling, Quieting, Asking
<1>9. Closing'
  BY <1>1, <1>2, <1>4, RestsAre DEF Closing
<1> QED BY <1>5, <1>7, <1>8, <1>9 DEF RuneInv

LEMMA OpenKeeps == RuneInv /\ Open => RuneInv'
<1> SUFFICES ASSUME RuneInv, Open PROVE RuneInv'
  OBVIOUS
<1>1. s_rc_live' /\ UNCHANGED <<s_rc_gen, s_rc_ticket_gen, s_rc_ticket_song, s_rc_playing,
          s_rc_keynote, speaker, sounds, doing>>
  BY DEF Open
<1>2. s_rc_live' = TRUE
  BY DEF Open
<1>3. RuneTyped'
  BY <1>1, <1>2 DEF RuneInv, RuneTyped
<1>4. (Held' <=> Held) /\ (Current' <=> Current) /\ (Sounding' <=> Sounding)
  BY <1>1 DEF Held, Owner, Current, Sounding
<1>5. Single'
  BY <1>1, <1>4 DEF RuneInv, Single, Owner
<1>6. Cancelling' /\ Quieting'
  BY <1>1, <1>4 DEF RuneInv, Cancelling, Quieting
<1>7. Asking'
  BY <1>1, <1>4 DEF RuneInv, Asking
<1>8. Closing'
  BY <1>1 DEF Closing
<1> QED BY <1>3, <1>5, <1>6, <1>7, <1>8 DEF RuneInv


\* A write of the window, whatever threads there are.
LEMMA WriteKeeps ==
    ASSUME RuneInv, Write, Head(doing.writes) # "spawn"
    PROVE  RuneInv'
<1> DEFINE rest == doing.writes
<1>0. KeyNote \in Nat \ {0}
  BY SongsAre
<1>t. /\ doing \in [writes : Rests, song : 0 .. KeyNote, semi : DOMAIN NoteHz \union {0}]
      /\ rest \in {<<>>, Silence, SilenceForget, SilenceQuiet, SilenceOff, PlayNote, NoteQuiet, NoteOff,
                   NoteKey, StartSong, SongStatus, ToTicket, ToSong, ToSpawn, ToForget}
  BY RestCases DEF RuneInv
<1>w. /\ rest # <<>> /\ s_rc_live' = s_rc_live /\ sounds' = sounds
      /\ doing' = IF Len(rest) = 1 THEN Idle ELSE [doing EXCEPT !.writes = Tail(@)]
  BY WriteDoes DEF RuneInv, RuneTyped
<1>r. rest \in {Silence, SilenceForget, SilenceQuiet, SilenceOff, PlayNote, NoteQuiet, NoteOff,
                NoteKey, StartSong, SongStatus, ToTicket, ToSong, ToForget}
  BY <1>t, <1>w, RestsAre, Zenon
<1>d. /\ doing' \in [writes : Rests, song : 0 .. KeyNote, semi : DOMAIN NoteHz \union {0}]
      /\ doing'.writes = <<>> => doing' = Idle
      /\ Len(rest) = 1 => doing' = Idle /\ doing'.writes = <<>>
      /\ Len(rest) # 1 => doing'.writes = Tail(rest) /\ doing'.song = doing.song
  <2>1. CASE Len(rest) = 1
    BY <2>1, <1>w, <1>0 DEF Idle, Rests
  <2>2. CASE Len(rest) # 1
    <3>1. Tail(rest) \in {SilenceForget, SilenceQuiet, SilenceOff, NoteQuiet, NoteOff, NoteKey, SongStatus,
                          ToTicket, ToSong, ToSpawn}
      BY <2>2, <1>r, RestsAre, Zenon
    <3>2. Tail(rest) \in Rests /\ Tail(rest) # <<>>
      BY <3>1, RestsDiffer DEF Rests, Between, Silencing
    <3> QED BY <2>2, <1>w, <1>t, <3>2
  <2> QED BY <2>1, <2>2
<1>g. /\ s_rc_gen \in Nat /\ s_rc_ticket_gen \in 0 .. s_rc_gen /\ s_rc_ticket_song \in 0 .. KeyNote
      /\ sounds \in [SoundThreads -> [pc : {"free", "start", "check", "hold"}, my : Nat,
           idx : 0 .. KeyNote, n : Nat]]
      /\ \A t \in SoundThreads : sounds[t].pc \in {"check", "hold"} => sounds[t].my \in 1 .. s_rc_gen
      /\ s_rc_live \in BOOLEAN
  BY DEF RuneInv, RuneTyped
<1>h. /\ s_rc_gen' = IF Head(rest) = "bump" THEN s_rc_gen + 1 ELSE s_rc_gen
      /\ s_rc_ticket_gen' = IF Head(rest) = "forget" THEN 0
                            ELSE IF Head(rest) = "ticket" THEN s_rc_gen ELSE s_rc_ticket_gen
      /\ s_rc_ticket_song' = IF Head(rest) = "song" THEN doing.song ELSE s_rc_ticket_song
      /\ s_rc_playing' = IF Head(rest) = "quiet" THEN 0 ELSE IF Head(rest) = "status" THEN doing.song ELSE s_rc_playing
      /\ speaker' = IF Head(rest) = "off" THEN 0 ELSE speaker
  BY WriteDoes
<1>1. RuneTyped'
  <2>1. doing.song \in 0 .. KeyNote
    BY <1>t
  <2>2. s_rc_gen' \in Nat /\ s_rc_ticket_gen' \in 0 .. s_rc_gen' /\ s_rc_ticket_song' \in 0 .. KeyNote
            /\ s_rc_gen' >= s_rc_gen
    BY <1>g, <1>h, <2>1
  <2>3. \A t \in SoundThreads : sounds'[t].pc \in {"check", "hold"} => sounds'[t].my \in 1 .. s_rc_gen'
    BY <1>g, <1>w, <2>2
  <2> QED BY <1>g, <1>w, <1>d, <2>2, <2>3 DEF RuneTyped
<1>k. s_rc_gen' = s_rc_gen => (\A t \in SoundThreads : Owner(t)' <=> Owner(t)) /\ (Held' <=> Held)
  BY <1>w DEF Owner, Held
<1>b. Head(rest) = "bump" => ~Held' /\ ~Current' /\ s_rc_gen' # 0
  BY <1>h, <1>g, <1>w DEF Held, Owner, Current
<1>f. Head(rest) = "forget" => ~Current'
  BY <1>h, <1>g DEF Current
<1>s. Head(rest) \notin {"bump", "forget", "ticket"} => (Current' <=> Current)
  BY <1>h DEF Current
<1>c. /\ Single /\ Cancelling /\ Quieting /\ Asking /\ Closing
  BY DEF RuneInv
<1>2. Single'
  <2>1. CASE Head(rest) = "bump"
    BY <1>b, <2>1 DEF Single, Held
  <2>2. CASE Head(rest) = "forget"
    BY <1>f, <1>k, <1>h, <1>c, <2>2 DEF Single
  <2>3. CASE Head(rest) = "ticket"
    <3>1. rest = ToTicket
      BY <2>3, <1>r, RestsAre, Zenon
    <3>2. ~Held
      BY <3>1, <1>c DEF Cancelling, Between
    <3> QED BY <3>2, <1>k, <1>h, <2>3, <1>c DEF Single
  <2>4. CASE Head(rest) \notin {"bump", "forget", "ticket"}
    BY <2>4, <1>s, <1>k, <1>h, <1>c DEF Single
  <2> QED BY <2>1, <2>2, <2>3, <2>4

<1>3. CASE rest = Silence
  <2>0. Len(rest) # 1 /\ Tail(rest) = SilenceForget
    BY <1>3, RestsAre
  <2>1. doing'.writes = SilenceForget /\ doing'.song = doing.song
    BY <1>3, <1>d, <2>0, Zenon
  <2>2. Head(rest) = "bump"
    BY <1>3, RestsAre, Zenon
  <2>3. Cancelling'
    BY <1>3, <2>1, <2>2, <1>b, <1>f, <1>s, <1>k, <1>h, <1>c, RestsDiffer DEF Cancelling, Between, Silencing
  <2>4. Quieting'
    BY <1>3, <2>1, <2>2, <1>h, <1>c, RestsDiffer DEF Quieting, Sounding
  <2>5. Asking'
    BY <1>3, <2>1, <2>2, <1>f, <1>k, <1>s, <1>h, <1>w, <1>c, RestsDiffer DEF Asking, Current, Sounding,
               Quieting, Cancelling, Between, Silencing
  <2>6. Closing'
    BY <1>3, <2>1, <2>2, <1>f, <1>k, <1>s, <1>h, <1>w, <1>c, RestsDiffer DEF Closing, Sounding,
               Silencing, Quieting, Cancelling, Between
  <2> QED BY <1>1, <1>2, <2>3, <2>4, <2>5, <2>6 DEF RuneInv
<1>4. CASE rest = SilenceForget
  <2>0. Len(rest) # 1 /\ Tail(rest) = SilenceQuiet
    BY <1>4, RestsAre
  <2>1. doing'.writes = SilenceQuiet /\ doing'.song = doing.song
    BY <1>4, <1>d, <2>0, Zenon
  <2>2. Head(rest) = "forget"
    BY <1>4, RestsAre, Zenon
  <2>3. Cancelling'
    BY <1>4, <2>1, <2>2, <1>b, <1>f, <1>s, <1>k, <1>h, <1>c, RestsDiffer DEF Cancelling, Between, Silencing
  <2>4. Quieting'
    BY <1>4, <2>1, <2>2, <1>h, <1>c, RestsDiffer DEF Quieting, Sounding
  <2>5. Asking'
    BY <1>4, <2>1, <2>2, <1>f, <1>k, <1>s, <1>h, <1>w, <1>c, RestsDiffer DEF Asking, Current, Sounding,
               Quieting, Cancelling, Between, Silencing
  <2>6. Closing'
    BY <1>4, <2>1, <2>2, <1>f, <1>k, <1>s, <1>h, <1>w, <1>c, RestsDiffer DEF Closing, Sounding,
               Silencing, Quieting, Cancelling, Between
  <2> QED BY <1>1, <1>2, <2>3, <2>4, <2>5, <2>6 DEF RuneInv
<1>5. CASE rest = SilenceQuiet
  <2>0. Len(rest) # 1 /\ Tail(rest) = SilenceOff
    BY <1>5, RestsAre
  <2>1. doing'.writes = SilenceOff /\ doing'.song = doing.song
    BY <1>5, <1>d, <2>0, Zenon
  <2>2. Head(rest) = "quiet"
    BY <1>5, RestsAre, Zenon
  <2>3. Cancelling'
    BY <1>5, <2>1, <2>2, <1>b, <1>f, <1>s, <1>k, <1>h, <1>c, RestsDiffer DEF Cancelling, Between, Silencing
  <2>4. Quieting'
    BY <1>5, <2>1, <2>2, <1>h, <1>c, RestsDiffer DEF Quieting, Sounding
  <2>5. Asking'
    BY <1>5, <2>1, <2>2, <1>f, <1>k, <1>s, <1>h, <1>w, <1>c, RestsDiffer DEF Asking, Current, Sounding,
               Quieting, Cancelling, Between, Silencing
  <2>6. Closing'
    BY <1>5, <2>1, <2>2, <1>f, <1>k, <1>s, <1>h, <1>w, <1>c, RestsDiffer DEF Closing, Sounding,
               Silencing, Quieting, Cancelling, Between
  <2> QED BY <1>1, <1>2, <2>3, <2>4, <2>5, <2>6 DEF RuneInv
<1>6. CASE rest = SilenceOff
  <2>1. doing'.writes = <<>>
    BY <1>6, <1>d, RestsAre, Zenon
  <2>2. Head(rest) = "off"
    BY <1>6, RestsAre, Zenon
  <2>3. Cancelling'
    BY <1>6, <2>1, <2>2, <1>b, <1>f, <1>s, <1>k, <1>h, <1>c, RestsDiffer DEF Cancelling, Between, Silencing
  <2>4. Quieting'
    BY <1>6, <2>1, <2>2, <1>h, <1>c, RestsDiffer DEF Quieting, Sounding
  <2>5. Asking'
    BY <1>6, <2>1, <2>2, <1>f, <1>k, <1>s, <1>h, <1>w, <1>c, RestsDiffer DEF Asking, Current, Sounding,
               Quieting, Cancelling, Between, Silencing
  <2>6. Closing'
    BY <1>6, <2>1, <2>2, <1>f, <1>k, <1>s, <1>h, <1>w, <1>c, RestsDiffer DEF Closing, Sounding,
               Silencing, Quieting, Cancelling, Between
  <2> QED BY <1>1, <1>2, <2>3, <2>4, <2>5, <2>6 DEF RuneInv
<1>7. CASE rest = PlayNote
  <2>0. Len(rest) # 1 /\ Tail(rest) = NoteQuiet
    BY <1>7, RestsAre
  <2>1. doing'.writes = NoteQuiet /\ doing'.song = doing.song
    BY <1>7, <1>d, <2>0, Zenon
  <2>2. Head(rest) = "bump"
    BY <1>7, RestsAre, Zenon
  <2>3. Cancelling'
    BY <1>7, <2>1, <2>2, <1>b, <1>f, <1>s, <1>k, <1>h, <1>c, RestsDiffer DEF Cancelling, Between, Silencing
  <2>4. Quieting'
    BY <1>7, <2>1, <2>2, <1>h, <1>c, RestsDiffer DEF Quieting, Sounding
  <2>5. Asking'
    BY <1>7, <2>1, <2>2, <1>f, <1>k, <1>s, <1>h, <1>w, <1>c, RestsDiffer DEF Asking, Current, Sounding,
               Quieting, Cancelling, Between, Silencing
  <2>6. Closing'
    BY <1>7, <2>1, <2>2, <1>f, <1>k, <1>s, <1>h, <1>w, <1>c, RestsDiffer DEF Closing, Sounding,
               Silencing, Quieting, Cancelling, Between
  <2> QED BY <1>1, <1>2, <2>3, <2>4, <2>5, <2>6 DEF RuneInv
<1>8. CASE rest = NoteQuiet
  <2>0. Len(rest) # 1 /\ Tail(rest) = NoteOff
    BY <1>8, RestsAre
  <2>1. doing'.writes = NoteOff /\ doing'.song = doing.song
    BY <1>8, <1>d, <2>0, Zenon
  <2>2. Head(rest) = "quiet"
    BY <1>8, RestsAre, Zenon
  <2>3. Cancelling'
    BY <1>8, <2>1, <2>2, <1>b, <1>f, <1>s, <1>k, <1>h, <1>c, RestsDiffer DEF Cancelling, Between, Silencing
  <2>4. Quieting'
    BY <1>8, <2>1, <2>2, <1>h, <1>c, RestsDiffer DEF Quieting, Sounding
  <2>5. Asking'
    BY <1>8, <2>1, <2>2, <1>f, <1>k, <1>s, <1>h, <1>w, <1>c, RestsDiffer DEF Asking, Current, Sounding,
               Quieting, Cancelling, Between, Silencing
  <2>6. Closing'
    BY <1>8, <2>1, <2>2, <1>f, <1>k, <1>s, <1>h, <1>w, <1>c, RestsDiffer DEF Closing, Sounding,
               Silencing, Quieting, Cancelling, Between
  <2> QED BY <1>1, <1>2, <2>3, <2>4, <2>5, <2>6 DEF RuneInv
<1>9. CASE rest = NoteOff
  <2>0. Len(rest) # 1 /\ Tail(rest) = NoteKey
    BY <1>9, RestsAre
  <2>1. doing'.writes = NoteKey /\ doing'.song = doing.song
    BY <1>9, <1>d, <2>0, Zenon
  <2>2. Head(rest) = "off"
    BY <1>9, RestsAre, Zenon
  <2>3. Cancelling'
    BY <1>9, <2>1, <2>2, <1>b, <1>f, <1>s, <1>k, <1>h, <1>c, RestsDiffer DEF Cancelling, Between, Silencing
  <2>4. Quieting'
    BY <1>9, <2>1, <2>2, <1>h, <1>c, RestsDiffer DEF Quieting, Sounding
  <2>5. Asking'
    BY <1>9, <2>1, <2>2, <1>f, <1>k, <1>s, <1>h, <1>w, <1>c, RestsDiffer DEF Asking, Current, Sounding,
               Quieting, Cancelling, Between, Silencing
  <2>6. Closing'
    BY <1>9, <2>1, <2>2, <1>f, <1>k, <1>s, <1>h, <1>w, <1>c, RestsDiffer DEF Closing, Sounding,
               Silencing, Quieting, Cancelling, Between
  <2> QED BY <1>1, <1>2, <2>3, <2>4, <2>5, <2>6 DEF RuneInv
<1>10. CASE rest = NoteKey
  <2>0. Len(rest) # 1 /\ Tail(rest) = ToTicket
    BY <1>10, RestsAre
  <2>1. doing'.writes = ToTicket /\ doing'.song = doing.song
    BY <1>10, <1>d, <2>0, Zenon
  <2>2. Head(rest) = "key"
    BY <1>10, RestsAre, Zenon
  <2>3. Cancelling'
    BY <1>10, <2>1, <2>2, <1>b, <1>f, <1>s, <1>k, <1>h, <1>c, RestsDiffer DEF Cancelling, Between, Silencing
  <2>4. Quieting'
    BY <1>10, <2>1, <2>2, <1>h, <1>c, RestsDiffer DEF Quieting, Sounding
  <2>5. Asking'
    BY <1>10, <2>1, <2>2, <1>f, <1>k, <1>s, <1>h, <1>w, <1>c, RestsDiffer DEF Asking, Current,
               Sounding, Quieting, Cancelling, Between, Silencing
  <2>6. Closing'
    BY <1>10, <2>1, <2>2, <1>f, <1>k, <1>s, <1>h, <1>w, <1>c, RestsDiffer DEF Closing, Sounding,
               Silencing, Quieting, Cancelling, Between
  <2> QED BY <1>1, <1>2, <2>3, <2>4, <2>5, <2>6 DEF RuneInv
<1>11. CASE rest = StartSong
  <2>0. Len(rest) # 1 /\ Tail(rest) = SongStatus
    BY <1>11, RestsAre
  <2>1. doing'.writes = SongStatus /\ doing'.song = doing.song
    BY <1>11, <1>d, <2>0, Zenon
  <2>2. Head(rest) = "bump"
    BY <1>11, RestsAre, Zenon
  <2>3. Cancelling'
    BY <1>11, <2>1, <2>2, <1>b, <1>f, <1>s, <1>k, <1>h, <1>c, RestsDiffer DEF Cancelling, Between, Silencing
  <2>4. Quieting'
    BY <1>11, <2>1, <2>2, <1>h, <1>c, RestsDiffer DEF Quieting, Sounding
  <2>5. Asking'
    BY <1>11, <2>1, <2>2, <1>f, <1>k, <1>s, <1>h, <1>w, <1>c, RestsDiffer DEF Asking, Current,
               Sounding, Quieting, Cancelling, Between, Silencing
  <2>6. Closing'
    BY <1>11, <2>1, <2>2, <1>f, <1>k, <1>s, <1>h, <1>w, <1>c, RestsDiffer DEF Closing, Sounding,
               Silencing, Quieting, Cancelling, Between
  <2> QED BY <1>1, <1>2, <2>3, <2>4, <2>5, <2>6 DEF RuneInv
<1>12. CASE rest = SongStatus
  <2>0. Len(rest) # 1 /\ Tail(rest) = ToTicket
    BY <1>12, RestsAre
  <2>1. doing'.writes = ToTicket /\ doing'.song = doing.song
    BY <1>12, <1>d, <2>0, Zenon
  <2>2. Head(rest) = "status"
    BY <1>12, RestsAre, Zenon
  <2>3. Cancelling'
    BY <1>12, <2>1, <2>2, <1>b, <1>f, <1>s, <1>k, <1>h, <1>c, RestsDiffer DEF Cancelling, Between, Silencing
  <2>4. Quieting'
    BY <1>12, <2>1, <2>2, <1>h, <1>c, RestsDiffer DEF Quieting, Sounding
  <2>5. Asking'
    BY <1>12, <2>1, <2>2, <1>f, <1>k, <1>s, <1>h, <1>w, <1>c, RestsDiffer DEF Asking, Current,
               Sounding, Quieting, Cancelling, Between, Silencing
  <2>6. Closing'
    BY <1>12, <2>1, <2>2, <1>f, <1>k, <1>s, <1>h, <1>w, <1>c, RestsDiffer DEF Closing, Sounding,
               Silencing, Quieting, Cancelling, Between
  <2> QED BY <1>1, <1>2, <2>3, <2>4, <2>5, <2>6 DEF RuneInv
<1>13. CASE rest = ToTicket
  <2>0. Len(rest) # 1 /\ Tail(rest) = ToSong
    BY <1>13, RestsAre
  <2>1. doing'.writes = ToSong /\ doing'.song = doing.song
    BY <1>13, <1>d, <2>0, Zenon
  <2>2. Head(rest) = "ticket"
    BY <1>13, RestsAre, Zenon
  <2>3. Cancelling'
    BY <1>13, <2>1, <2>2, <1>b, <1>f, <1>s, <1>k, <1>h, <1>c, RestsDiffer DEF Cancelling, Between, Silencing
  <2>4. Quieting'
    BY <1>13, <2>1, <2>2, <1>h, <1>c, RestsDiffer DEF Quieting, Sounding
  <2>5. Asking'
    BY <1>13, <2>1, <2>2, <1>f, <1>k, <1>s, <1>h, <1>w, <1>c, RestsDiffer DEF Asking, Current,
               Sounding, Quieting, Cancelling, Between, Silencing
  <2>6. Closing'
    BY <1>13, <2>1, <2>2, <1>f, <1>k, <1>s, <1>h, <1>w, <1>c, RestsDiffer DEF Closing, Sounding,
               Silencing, Quieting, Cancelling, Between
  <2> QED BY <1>1, <1>2, <2>3, <2>4, <2>5, <2>6 DEF RuneInv
<1>14. CASE rest = ToSong
  <2>0. Len(rest) # 1 /\ Tail(rest) = ToSpawn
    BY <1>14, RestsAre
  <2>1. doing'.writes = ToSpawn /\ doing'.song = doing.song
    BY <1>14, <1>d, <2>0, Zenon
  <2>2. Head(rest) = "song"
    BY <1>14, RestsAre, Zenon
  <2>3. Cancelling'
    BY <1>14, <2>1, <2>2, <1>b, <1>f, <1>s, <1>k, <1>h, <1>c, RestsDiffer DEF Cancelling, Between, Silencing
  <2>4. Quieting'
    BY <1>14, <2>1, <2>2, <1>h, <1>c, RestsDiffer DEF Quieting, Sounding
  <2>5. Asking'
    BY <1>14, <2>1, <2>2, <1>f, <1>k, <1>s, <1>h, <1>w, <1>c, RestsDiffer DEF Asking, Current,
               Sounding, Quieting, Cancelling, Between, Silencing
  <2>6. Closing'
    BY <1>14, <2>1, <2>2, <1>f, <1>k, <1>s, <1>h, <1>w, <1>c, RestsDiffer DEF Closing, Sounding,
               Silencing, Quieting, Cancelling, Between
  <2> QED BY <1>1, <1>2, <2>3, <2>4, <2>5, <2>6 DEF RuneInv
<1>15. CASE rest = ToForget
  <2>1. doing'.writes = <<>>
    BY <1>15, <1>d, RestsAre, Zenon
  <2>2. Head(rest) = "forget"
    BY <1>15, RestsAre, Zenon
  <2>3. Cancelling'
    BY <1>15, <2>1, <2>2, <1>b, <1>f, <1>s, <1>k, <1>h, <1>c, RestsDiffer DEF Cancelling, Between, Silencing
  <2>4. Quieting'
    BY <1>15, <2>1, <2>2, <1>h, <1>c, RestsDiffer DEF Quieting, Sounding
  <2>5. Asking'
    BY <1>15, <2>1, <2>2, <1>f, <1>k, <1>s, <1>h, <1>w, <1>c, RestsDiffer DEF Asking, Current,
               Sounding, Quieting, Cancelling, Between, Silencing
  <2>6. Closing'
    BY <1>15, <2>1, <2>2, <1>f, <1>k, <1>s, <1>h, <1>w, <1>c, RestsDiffer DEF Closing, Sounding,
               Silencing, Quieting, Cancelling, Between
  <2> QED BY <1>1, <1>2, <2>3, <2>4, <2>5, <2>6 DEF RuneInv
<1> QED BY <1>r, <1>3, <1>4, <1>5, <1>6, <1>7, <1>8, <1>9, <1>10, <1>11, <1>12, <1>13, <1>14, <1>15, Zenon


\* The last write of a call that starts a sound: a thread is there, or what was
\* asked for is taken back.
LEMMA SpawnKeeps ==
    ASSUME RuneInv, Write, Head(doing.writes) = "spawn"
    PROVE  RuneInv'
<1> DEFINE rest == doing.writes
<1>0. KeyNote \in Nat \ {0}
  BY SongsAre
<1>t. /\ doing \in [writes : Rests, song : 0 .. KeyNote, semi : DOMAIN NoteHz \union {0}]
      /\ rest \in {<<>>, Silence, SilenceForget, SilenceQuiet, SilenceOff, PlayNote, NoteQuiet, NoteOff,
                   NoteKey, StartSong, SongStatus, ToTicket, ToSong, ToSpawn, ToForget}
  BY RestCases DEF RuneInv
<1>w. /\ rest # <<>> /\ UNCHANGED <<s_rc_gen, s_rc_ticket_gen, s_rc_ticket_song, s_rc_playing, speaker,
           s_rc_live>>
      /\ Spawn
  BY WriteDoes DEF RuneInv, RuneTyped
<1>r. rest = ToSpawn
  BY <1>t, <1>w, RestsAre, Zenon
<1>g. /\ s_rc_gen \in Nat /\ s_rc_ticket_gen \in 0 .. s_rc_gen /\ s_rc_ticket_song \in 0 .. KeyNote
      /\ sounds \in [SoundThreads -> [pc : {"free", "start", "check", "hold"}, my : Nat,
           idx : 0 .. KeyNote, n : Nat]]
      /\ \A t \in SoundThreads : sounds[t].pc \in {"check", "hold"} => sounds[t].my \in 1 .. s_rc_gen
      /\ s_rc_live \in BOOLEAN
  BY DEF RuneInv, RuneTyped
<1>c. /\ Single /\ Cancelling /\ Quieting /\ Asking /\ Closing
  BY DEF RuneInv
<1>l. s_rc_live
  BY <1>c, <1>r, RestsDiffer DEF Closing, Silencing
<1>1. ASSUME NEW t \in SoundThreads, sounds[t].pc = "free",
             sounds' = [sounds EXCEPT ![t] = [NoSound EXCEPT !.pc = "start"]], doing' = Idle
      PROVE  RuneInv'
  <2>1. doing'.writes = <<>>
    BY <1>1 DEF Idle
  <2>2. doing' \in [writes : Rests, song : 0 .. KeyNote, semi : DOMAIN NoteHz \union {0}]
    BY <1>1, <1>0 DEF Idle, Rests
  <2>3. [NoSound EXCEPT !.pc = "start"] = [pc |-> "start", my |-> 0, idx |-> 0, n |-> 0]
    BY DEF NoSound
  <2>4. /\ sounds' \in [SoundThreads -> [pc : {"free", "start", "check", "hold"}, my : Nat,
             idx : 0 .. KeyNote, n : Nat]]
        /\ \A u \in SoundThreads : u # t => sounds'[u] = sounds[u]
        /\ sounds'[t].pc = "start"
    BY <1>1, <2>3, <1>g, <1>0
  <2>5. \A u \in SoundThreads : Owner(u)' <=> Owner(u)
    BY <2>4, <1>1, <1>w DEF Owner
  <2>6. (Held' <=> Held) /\ (Current' <=> Current) /\ (Sounding' <=> Sounding)
    BY <2>5, <1>w DEF Held, Current, Sounding
  <2>7. RuneTyped'
    <3>1. \A u \in SoundThreads : sounds'[u].pc \in {"check", "hold"} => sounds'[u].my \in 1 .. s_rc_gen
      BY <2>4, <1>g
    <3> QED BY <1>1, <1>w, <1>g, <2>2, <2>4, <3>1 DEF RuneTyped
  <2>8. Single'
    BY <2>5, <2>6, <1>c DEF Single
  <2>9. Cancelling' /\ Quieting'
    BY <2>1, RestsDiffer DEF Cancelling, Quieting, Between, Silencing
  <2>10. Asking'
    <3>1. Sounding => Held \/ Current
      BY <1>c, <1>r DEF Asking
    <3>2. \E u \in SoundThreads : sounds'[u].pc = "start"
      BY <2>4
    <3> QED BY <3>1, <3>2, <2>1, <2>6, RestsDiffer DEF Asking
  <2>11. Closing'
    BY <1>l, <1>w DEF Closing
  <2> QED BY <2>7, <2>8, <2>9, <2>10, <2>11 DEF RuneInv
<1>2. ASSUME UNCHANGED sounds,
             doing' = [doing EXCEPT !.writes = IF doing.song = KeyNote THEN ToForget ELSE Silence]
      PROVE  RuneInv'
  <2>1. /\ doing'.writes = IF doing.song = KeyNote THEN ToForget ELSE Silence
        /\ doing'.song = doing.song
        /\ doing' \in [writes : Rests, song : 0 .. KeyNote, semi : DOMAIN NoteHz \union {0}]
    BY <1>2, <1>t DEF Rests
  <2>2. doing'.writes # <<>> /\ doing'.writes \in {ToForget, Silence}
    BY <2>1, RestsDiffer
  <2>3. RuneTyped'
    BY <1>2, <1>w, <1>g, <2>1, <2>2 DEF RuneTyped
  <2>5. \A u \in SoundThreads : Owner(u)' <=> Owner(u)
    BY <1>2, <1>w DEF Owner
  <2>6. (Held' <=> Held) /\ (Current' <=> Current)
    BY <2>5, <1>w DEF Held, Current
  <2>7. Single'
    BY <2>5, <2>6, <1>c DEF Single
  <2>8. Cancelling' /\ Quieting'
    BY <2>2, RestsDiffer DEF Cancelling, Quieting, Between, Silencing
  <2>9. Asking'
    <3>1. doing.song = KeyNote => s_rc_playing = 0 /\ (speaker # 0 => Held)
      BY <1>c, <1>r DEF Asking
    <3>2. doing'.writes = ToForget => doing.song = KeyNote
      BY <2>1, RestsDiffer
    <3> QED BY <3>1, <3>2, <2>2, <2>6, <1>w, RestsDiffer DEF Asking
  <2>10. Closing'
    BY <1>l, <1>w DEF Closing
  <2> QED BY <2>3, <2>7, <2>8, <2>9, <2>10 DEF RuneInv
<1> QED BY <1>w, <1>1, <1>2 DEF Spawn, ToForget

\* A thread that does not start, own nor end anything for the window.
LEMMA ThreadTyped ==
    ASSUME RuneInv, NEW t \in SoundThreads,
           NEW s \in [pc : {"free", "start", "check", "hold"}, my : Nat, idx : 0 .. KeyNote, n : Nat],
           s.pc \in {"check", "hold"} => s.my \in 1 .. s_rc_gen,
           sounds' = [sounds EXCEPT ![t] = s], s_rc_ticket_gen' \in {0, s_rc_ticket_gen}, Window
    PROVE  /\ RuneTyped'
           /\ \A u \in SoundThreads : sounds'[u] = IF u = t THEN s ELSE sounds[u]
           /\ \A u \in SoundThreads : Owner(u)' <=> IF u = t THEN s.pc \in {"check", "hold"}
                /\ s.my = s_rc_gen ELSE Owner(u)
<1>g. /\ s_rc_gen \in Nat /\ s_rc_ticket_gen \in 0 .. s_rc_gen /\ s_rc_ticket_song \in 0 .. KeyNote
      /\ sounds \in [SoundThreads -> [pc : {"free", "start", "check", "hold"}, my : Nat,
           idx : 0 .. KeyNote, n : Nat]]
      /\ \A u \in SoundThreads : sounds[u].pc \in {"check", "hold"} => sounds[u].my \in 1 .. s_rc_gen
      /\ s_rc_live \in BOOLEAN
      /\ doing \in [writes : Rests, song : 0 .. KeyNote, semi : DOMAIN NoteHz \union {0}]
      /\ doing.writes = <<>> => doing = Idle
  BY DEF RuneInv, RuneTyped
<1>1. \A u \in SoundThreads : sounds'[u] = IF u = t THEN s ELSE sounds[u]
  BY <1>g
<1>2. sounds' \in [SoundThreads -> [pc : {"free", "start", "check", "hold"}, my : Nat,
          idx : 0 .. KeyNote, n : Nat]]
  BY <1>g
<1>3. UNCHANGED <<s_rc_gen, s_rc_ticket_song, s_rc_live, doing>>
  BY DEF Window
<1>4. \A u \in SoundThreads : sounds'[u].pc \in {"check", "hold"} => sounds'[u].my \in 1 .. s_rc_gen'
  BY <1>1, <1>3, <1>g
<1>5. RuneTyped'
  BY <1>2, <1>3, <1>4, <1>g DEF RuneTyped
<1>6. \A u \in SoundThreads : Owner(u)' <=> IF u = t THEN s.pc \in {"check", "hold"}
          /\ s.my = s_rc_gen ELSE Owner(u)
  BY <1>1, <1>3 DEF Owner
<1> QED BY <1>1, <1>5, <1>6

LEMMA ConsumeKeeps ==
    ASSUME RuneInv, NEW t \in SoundThreads, Consume(t)
    PROVE  RuneInv'
<1>0. KeyNote \in Nat \ {0}
  BY SongsAre
<1>1. /\ sounds[t].pc = "start" /\ s_rc_ticket_gen' = 0 /\ Window
      /\ UNCHANGED <<s_rc_playing, speaker>>
  BY DEF Consume
<1>g. /\ s_rc_gen \in Nat /\ s_rc_ticket_gen \in 0 .. s_rc_gen /\ s_rc_ticket_song \in 0 .. KeyNote
  BY DEF RuneInv, RuneTyped
<1>w. UNCHANGED <<s_rc_gen, s_rc_ticket_song, s_rc_live, doing>>
  BY <1>1 DEF Window
<1>c. /\ Single /\ Cancelling /\ Quieting /\ Asking /\ Closing
  BY DEF RuneInv
<1>2. ~Owner(t)
  BY <1>1 DEF Owner
<1>3. ~Current'
  BY <1>1, <1>w, <1>g DEF Current
<1>4. CASE ~Current
  <2>1. sounds' = [sounds EXCEPT ![t] = NoSound]
    BY <1>4, <1>g DEF Consume, Gone, Current
  <2>2. /\ NoSound \in [pc : {"free", "start", "check", "hold"}, my : Nat, idx : 0 .. KeyNote, n : Nat]
        /\ NoSound.pc = "free"
    BY <1>0 DEF NoSound
  <2>3. RuneTyped' /\ \A u \in SoundThreads : Owner(u)' <=> Owner(u)
    BY <2>1, <2>2, <1>1, <1>2, ThreadTyped
  <2>4. (Held' <=> Held) /\ (Sounding' <=> Sounding)
    BY <2>3, <1>1 DEF Held, Sounding
  <2>5. Single'
    BY <2>3, <1>3, <1>c DEF Single
  <2>6. Cancelling' /\ Quieting' /\ Closing'
    BY <2>4, <1>3, <1>1, <1>w, <1>c DEF Cancelling, Quieting, Closing
  <2>7. Asking'
    BY <2>4, <1>3, <1>4, <1>1, <1>w, <1>c DEF Asking
  <2> QED BY <2>3, <2>5, <2>6, <2>7 DEF RuneInv
<1>5. CASE Current
  <2> DEFINE s == [pc |-> "check", my |-> s_rc_ticket_gen, idx |-> s_rc_ticket_song, n |-> 1]
  <2>1. sounds' = [sounds EXCEPT ![t] = s]
    BY <1>5 DEF Consume, Current
  <2>2. /\ s \in [pc : {"free", "start", "check", "hold"}, my : Nat, idx : 0 .. KeyNote, n : Nat]
        /\ s.my \in 1 .. s_rc_gen /\ s.my = s_rc_gen /\ s.pc = "check"
    BY <1>g, <1>5 DEF Current
  <2>3. RuneTyped' /\ \A u \in SoundThreads : Owner(u)' <=> u = t \/ Owner(u)
    <3> HIDE DEF s
    <3> QED BY <2>1, <2>2, <1>1, ThreadTyped
  <2>4. Held' /\ ~Held /\ (Sounding' <=> Sounding)
    BY <2>3, <1>1, <1>5, <1>c DEF Held, Sounding, Single
  <2>5. Single'
    BY <2>3, <2>4, <1>3 DEF Single, Held
  <2>6. Cancelling' /\ Quieting' /\ Closing'
    BY <1>5, <2>4, <1>1, <1>w, <1>c DEF Cancelling, Quieting, Closing
  <2>7. Asking'
    BY <2>4, <1>3, <1>1, <1>w, <1>c DEF Asking
  <2> QED BY <2>3, <2>5, <2>6, <2>7 DEF RuneInv
<1> QED BY <1>4, <1>5

\* A thread that is not the owner goes, or the owner stays one.
LEMMA OwnersKept ==
    ASSUME RuneInv, NEW t \in SoundThreads,
           NEW s \in [pc : {"free", "start", "check", "hold"}, my : Nat, idx : 0 .. KeyNote, n : Nat],
           s.pc \in {"check", "hold"} => s.my \in 1 .. s_rc_gen,
           s.pc # "start", sounds[t].pc # "start",
           s.pc \in {"check", "hold"} /\ s.my = s_rc_gen <=> Owner(t),
           sounds' = [sounds EXCEPT ![t] = s], UNCHANGED <<s_rc_ticket_gen, s_rc_playing>>, Window,
           speaker' = speaker \/ Owner(t)
    PROVE  RuneInv'
<1>w. UNCHANGED <<s_rc_gen, s_rc_ticket_song, s_rc_live, doing>>
  BY DEF Window
<1>c. /\ Single /\ Cancelling /\ Quieting /\ Asking /\ Closing
  BY DEF RuneInv
<1>1. /\ RuneTyped'
      /\ \A u \in SoundThreads : sounds'[u] = IF u = t THEN s ELSE sounds[u]
      /\ \A u \in SoundThreads : Owner(u)' <=> Owner(u)
  <2>1. s_rc_ticket_gen' \in {0, s_rc_ticket_gen}
    OBVIOUS
  <2>2. /\ RuneTyped'
        /\ \A u \in SoundThreads : sounds'[u] = IF u = t THEN s ELSE sounds[u]
        /\ \A u \in SoundThreads : Owner(u)' <=> IF u = t THEN s.pc \in {"check", "hold"}
             /\ s.my = s_rc_gen ELSE Owner(u)
    BY <2>1, ThreadTyped, Zenon
  <2> QED BY <2>2
<1>2. (Held' <=> Held) /\ (Current' <=> Current)
  BY <1>1, <1>w DEF Held, Current
<1>3. Owner(t) => Held
  BY DEF Held
<1>4. Single'
  BY <1>1, <1>2, <1>c DEF Single
<1>5. Cancelling'
  BY <1>2, <1>w, <1>c DEF Cancelling
<1>6. Quieting'
  <2>1. doing.writes \in {NoteKey, ToTicket} => ~Held
    BY <1>c DEF Cancelling, Between
  <2>2. doing.writes \in {NoteKey, ToTicket} => speaker' = speaker
    BY <2>1, <1>3
  <2> QED BY <2>2, <1>w, <1>c DEF Quieting, Sounding
<1>7. Asking'
  <2>1. (\E u \in SoundThreads : sounds[u].pc = "start") => \E u \in SoundThreads : sounds'[u].pc = "start"
    BY <1>1
  <2> QED BY <2>1, <1>2, <1>3, <1>w, <1>c DEF Asking, Sounding
<1>8. Closing'
  <2>1. ~s_rc_live /\ doing.writes = <<>> => speaker' = speaker
    BY <1>3, <1>c DEF Closing
  <2> QED BY <2>1, <1>2, <1>w, <1>c DEF Closing, Sounding
<1> QED BY <1>1, <1>4, <1>5, <1>6, <1>7, <1>8 DEF RuneInv

LEMMA ProgramKeeps ==
    ASSUME RuneInv, NEW t \in SoundThreads, Program(t)
    PROVE  RuneInv'
<1>0. KeyNote \in Nat \ {0}
  BY SongsAre
<1>1. sounds[t].pc = "check" /\ UNCHANGED s_rc_ticket_gen /\ Window
  BY DEF Program
<1>g. /\ s_rc_gen \in Nat
      /\ sounds[t] \in [pc : {"free", "start", "check", "hold"}, my : Nat, idx : 0 .. KeyNote, n : Nat]
      /\ sounds[t].my \in 1 .. s_rc_gen
  BY <1>1 DEF RuneInv, RuneTyped
<1>n. /\ NoSound \in [pc : {"free", "start", "check", "hold"}, my : Nat, idx : 0 .. KeyNote, n : Nat]
      /\ NoSound.pc = "free"
  BY <1>0 DEF NoSound
<1>2. CASE s_rc_gen # sounds[t].my
  <2>1. sounds' = [sounds EXCEPT ![t] = NoSound] /\ UNCHANGED <<s_rc_playing, speaker>>
    BY <1>2 DEF Program, Gone
  <2>2. ~Owner(t)
    BY <1>2 DEF Owner
  <2> QED BY <1>1, <1>n, <2>1, <2>2, OwnersKept
<1>3. CASE s_rc_gen = sounds[t].my /\ sounds[t].n \in DOMAIN Notes(sounds[t].idx)
  <2> DEFINE s == [sounds[t] EXCEPT !.pc = "hold"]
  <2>1. sounds' = [sounds EXCEPT ![t] = s] /\ UNCHANGED s_rc_playing
    BY <1>3 DEF Program, At
  <2>2. /\ s \in [pc : {"free", "start", "check", "hold"}, my : Nat, idx : 0 .. KeyNote, n : Nat]
        /\ s.pc = "hold" /\ s.my = sounds[t].my
    BY <1>g
  <2>3. Owner(t)
    BY <1>1, <1>3 DEF Owner
  <2> HIDE DEF s
  <2> QED BY <1>1, <1>3, <1>g, <2>1, <2>2, <2>3, OwnersKept
<1>4. CASE s_rc_gen = sounds[t].my /\ sounds[t].n \notin DOMAIN Notes(sounds[t].idx)
  <2>1. sounds' = [sounds EXCEPT ![t] = NoSound] /\ speaker' = 0 /\ s_rc_playing' = 0
    BY <1>4 DEF Program, Gone
  <2>2. Owner(t) /\ Held
    BY <1>1, <1>4 DEF Owner, Held
  <2>c. /\ Single /\ Cancelling /\ Quieting /\ Asking /\ Closing
    BY DEF RuneInv
  <2>w. UNCHANGED <<s_rc_gen, s_rc_ticket_song, s_rc_live, doing>>
    BY <1>1 DEF Window
  <2>3. RuneTyped' /\ \A u \in SoundThreads : Owner(u)' => Owner(u)
    BY <2>1, <1>1, <1>n, ThreadTyped
  <2>4. ~Sounding' /\ ~Current' /\ ~Current
    BY <2>1, <2>2, <2>w, <1>1, <2>c DEF Sounding, Current, Single
  <2>5. Single'
    BY <2>3, <2>4, <2>c DEF Single
  <2>6. Cancelling'
    BY <2>2, <2>w, <2>c DEF Cancelling
  <2>7. Quieting'
    BY <2>1, <2>4, <2>w, <2>c DEF Quieting
  <2>8. Asking'
    BY <2>1, <2>4, <2>w, <2>c DEF Asking
  <2>9. Closing'
    BY <2>2, <2>w, <2>c DEF Closing
  <2> QED BY <2>3, <2>5, <2>6, <2>7, <2>8, <2>9 DEF RuneInv
<1> QED BY <1>2, <1>3, <1>4

LEMMA NextNote ==
    ASSUME NEW I, NEW r \in [pc : {"free", "start", "check", "hold"}, my : Nat, idx : I, n : Nat]
    PROVE  [r EXCEPT !.pc = "check", !.n = @ + 1] \in [pc : {"free", "start", "check", "hold"},
               my : Nat, idx : I, n : Nat]
<1> DEFINE q == [r EXCEPT !.pc = "check"]
<1>1. q \in [pc : {"free", "start", "check", "hold"}, my : Nat, idx : I, n : Nat]
  OBVIOUS
<1>3. [r EXCEPT !.pc = "check", !.n = @ + 1] = [q EXCEPT !.n = @ + 1]
  OBVIOUS
<1> HIDE DEF q
<1>4. [q EXCEPT !.n = @ + 1] \in [pc : {"free", "start", "check", "hold"}, my : Nat, idx : I, n : Nat]
  BY <1>1
<1> QED BY <1>3, <1>4

LEMMA HoldKeeps ==
    ASSUME RuneInv, NEW t \in SoundThreads, Cancelled(t) \/ NoteEnds(t)
    PROVE  RuneInv'
<1>0. KeyNote \in Nat \ {0}
  BY SongsAre
<1>1. sounds[t].pc = "hold" /\ UNCHANGED <<s_rc_ticket_gen, s_rc_playing, speaker>> /\ Window
  BY DEF Cancelled, NoteEnds
<1>g. /\ s_rc_gen \in Nat
      /\ sounds[t] \in [pc : {"free", "start", "check", "hold"}, my : Nat, idx : 0 .. KeyNote, n : Nat]
      /\ sounds[t].my \in 1 .. s_rc_gen
  BY <1>1 DEF RuneInv, RuneTyped
<1>2. CASE Cancelled(t)
  <2>1. sounds' = [sounds EXCEPT ![t] = NoSound]
    BY <1>2 DEF Cancelled, Gone
  <2>2. ~Owner(t)
    BY <1>2 DEF Owner, Cancelled
  <2>3. /\ NoSound \in [pc : {"free", "start", "check", "hold"}, my : Nat, idx : 0 .. KeyNote, n : Nat]
        /\ NoSound.pc = "free"
    BY <1>0 DEF NoSound
  <2> QED BY <1>1, <2>1, <2>2, <2>3, OwnersKept
<1>3. CASE NoteEnds(t)
  <2> DEFINE s == [sounds[t] EXCEPT !.pc = "check", !.n = @ + 1]
  <2>1. sounds' = [sounds EXCEPT ![t] = s]
    BY <1>3 DEF NoteEnds
  <2>2. /\ s \in [pc : {"free", "start", "check", "hold"}, my : Nat, idx : 0 .. KeyNote, n : Nat]
        /\ s.pc = "check" /\ s.my = sounds[t].my
    <3>1. s \in [pc : {"free", "start", "check", "hold"}, my : Nat, idx : 0 .. KeyNote, n : Nat]
      BY <1>g, NextNote
    <3>2. s.pc = "check" /\ s.my = sounds[t].my
      BY <1>g
    <3> QED BY <3>1, <3>2
  <2>3. Owner(t) <=> sounds[t].my = s_rc_gen
    BY <1>1 DEF Owner
  <2> HIDE DEF s
  <2> QED BY <1>1, <1>g, <2>1, <2>2, <2>3, OwnersKept
<1> QED BY <1>2, <1>3

LEMMA RuneSteps == RuneInv /\ [RuneNext]_runeVars => RuneInv'
<1> SUFFICES ASSUME RuneInv, [RuneNext]_runeVars PROVE RuneInv'
  OBVIOUS
<1>0. /\ Len(Songs) \in Nat /\ DOMAIN Songs = 1 .. Len(Songs) /\ KeyNote \in Nat \ {0}
           /\ KeyNote \notin DOMAIN Songs
  BY SongsAre
<1>d. Silence # PlayNote /\ Silence # StartSong /\ PlayNote # StartSong
  BY RestsDiffer
<1>1. ASSUME NEW k \in DOMAIN NoteHz, Key(k)
      PROVE  RuneInv'
  <2>1. Call(PlayNote, KeyNote, k) /\ s_rc_live' = s_rc_live
    BY <1>1 DEF Key
  <2>2. s_rc_live' \in BOOLEAN /\ KeyNote \in 0 .. KeyNote
    BY <1>0, <2>1 DEF RuneInv, RuneTyped
  <2> QED BY <2>1, <2>2, <1>d, CallKeeps
<1>2. ASSUME NEW i \in DOMAIN Songs, Song(i)
      PROVE  RuneInv'
  <2>1. Call(StartSong, i, 0) /\ s_rc_live' = s_rc_live
    BY <1>2 DEF Song
  <2>2. s_rc_live' \in BOOLEAN /\ i \in 0 .. KeyNote /\ i # KeyNote
    BY <1>0, <2>1 DEF RuneInv, RuneTyped, KeyNote
  <2> QED BY <2>1, <2>2, <1>d, CallKeeps
<1>3. CASE Escape \/ Close
  <2>1. Call(Silence, 0, 0) /\ s_rc_live' \in BOOLEAN
    BY <1>3 DEF Escape, Close, RuneInv, RuneTyped
  <2> QED BY <2>1, <1>0, <1>d, CallKeeps
<1>4. CASE Open
  BY <1>4, OpenKeeps
<1>5. CASE Write
  BY <1>5, WriteKeeps, SpawnKeeps
<1>6. ASSUME NEW t \in SoundThreads, Consume(t) \/ Program(t) \/ Cancelled(t) \/ NoteEnds(t)
      PROVE  RuneInv'
  BY <1>6, ConsumeKeeps, ProgramKeeps, HoldKeeps
<1>7. CASE UNCHANGED runeVars
  <2>1. UNCHANGED <<s_rc_gen, s_rc_ticket_gen, s_rc_ticket_song, s_rc_playing, speaker, sounds,
            s_rc_live, doing>>
    BY <1>7 DEF runeVars
  <2>2. (Held' <=> Held) /\ (Current' <=> Current) /\ (Sounding' <=> Sounding) /\ (Single' <=> Single)
    BY <2>1 DEF Held, Owner, Current, Sounding, Single
  <2>3. RuneTyped'
    BY <2>1 DEF RuneInv, RuneTyped
  <2> QED BY <2>1, <2>2, <2>3 DEF RuneInv, Cancelling, Quieting, Asking, Closing
<1> QED BY <1>1, <1>2, <1>3, <1>4, <1>5, <1>6, <1>7 DEF RuneNext

\* A set without two members has at most one.
LEMMA OneAtMost ==
    ASSUME NEW S, \A x, y \in S : x = y
    PROVE  Cardinality(S) <= 1
<1>1. CASE S = {}
  BY <1>1, FS_EmptySet
<1>2. CASE S # {}
  <2>1. PICK x \in S : TRUE
    BY <1>2
  <2>2. S = {x}
    BY <2>1
  <2> QED BY <2>2, FS_Singleton
<1> QED BY <1>1, <1>2

LEMMA RuneSafe == RuneInv => NeverStuck /\ OneVoice /\ StatusEnds /\ SilentClosed
<1> SUFFICES ASSUME RuneInv PROVE NeverStuck /\ OneVoice /\ StatusEnds /\ SilentClosed
  OBVIOUS
<1>1. doing = Idle => doing.writes = <<>>
  BY DEF Idle
<1>2. doing = Idle /\ Current => Coming
  BY <1>1 DEF RuneInv, Asking, Coming, Current
<1>3. doing = Idle /\ Sounding => Held \/ Coming
  BY <1>1, <1>2 DEF RuneInv, Asking
<1>4. NeverStuck /\ StatusEnds
  BY <1>3 DEF NeverStuck, StatusEnds, Sounding, Held
<1>5. OneVoice
  <2>1. \A x, y \in {t \in SoundThreads : Owner(t)} : x = y
    BY DEF RuneInv, Single
  <2> QED BY <2>1, OneAtMost DEF OneVoice
<1>6. SilentClosed
  BY <1>1 DEF RuneInv, Closing, SilentClosed, Sounding, Held
<1> QED BY <1>4, <1>5, <1>6

\* Chant Runique (RuneChantWindow.cpp): however keys, songs, Escape and the
\* closing of the window interleave with the sound threads, and whichever spawns
\* fail, one thread at most owns the speaker, a speaker that sounds has a thread that
\* will turn it off, the status names no song that has ended, and a closed window is
\* silent: for any number of threads, songs and calls.
THEOREM SpeakerStaysOwned == RuneSpec => [](NeverStuck /\ OneVoice /\ StatusEnds /\ SilentClosed)
<1>1. RuneInit => RuneInv
  BY RuneStarts
<1>2. RuneInv /\ [RuneNext]_runeVars => RuneInv'
  BY RuneSteps
<1>3. RuneInv => NeverStuck /\ OneVoice /\ StatusEnds /\ SilentClosed
  BY RuneSafe
<1> QED BY <1>1, <1>2, <1>3, PTL DEF RuneSpec

-----------------------------------------------------------------------------
(***************************************************************************)
(* Snake: a path that does not cross itself, whose head has left its neck  *)
(* in the direction of the last move.  The cells behind it are leftovers   *)
(* of moves and games before.                                              *)
(***************************************************************************)

SnakeTyped ==
    /\ snGame \in {"none", "text", "gg"} /\ snPhase \in {"play", "paused", "over"}
    /\ snGame = "none" => snPhase = "over"
    /\ seg \in [0 .. SnakeMax - 1 -> Int \X Int]
    /\ slen \in StartLen .. SnakeMax - 1
    /\ dir \in Directions /\ ndir \in Directions /\ score \in Nat
Fed == /\ score >= 10 * (slen - StartLen)
       /\ slen < SnakeMax - 1 => score = 10 * (slen - StartLen)
\* While a game goes on: the head came from its neck, and will not go back.
Heading == /\ \A i \in 0 .. slen - 2 : seg[i] \in Field
           /\ \A i, j \in 0 .. slen - 2 : i # j => seg[i] # seg[j]
           /\ \A i \in 0 .. slen - 3 : \E d \in Directions : Moved(seg[i + 1], d) = seg[i]
           /\ seg[0] = Moved(seg[1], dir) /\ ndir # Opposite(dir)
SnakeInv ==
    /\ SnakeTyped
    /\ snGame # "none" => Fed /\ seg[0] # seg[2]
    /\ snPhase # "over" => Heading

LEMMA SnakeConstants ==
    /\ SnakeW \in Nat \ {0} /\ SnakeH \in Nat \ {0} /\ SnakeMax \in Nat /\ StartLen \in Nat
    /\ 3 <= StartLen /\ StartLen < SnakeMax /\ StartLen - 1 <= SnakeW \div 2
  BY SnakeAssumption

LEMMA DirectionsAre ==
    /\ <<1, 0>> \in Directions
    /\ \A d \in Directions : d \in Int \X Int /\ Opposite(d) \in Directions
    /\ \A d \in Directions : d # Opposite(d)
<1>1. \A d \in Directions : d \in Int \X Int /\ Opposite(d) \in Directions
  BY DEF Directions, Opposite
<1>2. \A d \in Directions : d[1] # 0 \/ d[2] # 0
  BY DEF Directions
<1>3. ASSUME NEW d \in Directions, d = Opposite(d) PROVE FALSE
  <2>1. d[1] = -d[1] /\ d[2] = -d[2] /\ d[1] \in Int /\ d[2] \in Int
    BY <1>1, <1>3 DEF Opposite
  <2> QED BY <2>1, <1>2, <1>3
<1> QED BY <1>1, <1>3 DEF Directions

LEMMA MovedTyped == \A c \in Int \X Int, d \in Directions : Moved(c, d) \in Int \X Int
  BY DEF Directions, Moved

\* Two steps lead back only if the second is the opposite of the first.
LEMMA NotBack ==
    ASSUME NEW c \in Int \X Int, NEW d \in Directions, NEW e \in Directions, e # Opposite(d)
    PROVE  Moved(Moved(c, d), e) # c
  BY DEF Directions, Moved, Opposite

LEMMA TurnsAside ==
    \A d, e \in Directions : d = e \/ (d[1] = 0) # (e[1] = 0) => e # Opposite(d)
  BY DEF Directions, Opposite

LEMMA SnakeStarts == SnakeInit => SnakeInv
  BY SnakeConstants, DirectionsAre DEF SnakeInit, SnakeInv, SnakeTyped

\* A new snake lies straight, left of the middle of the field.
LEMMA StartKeeps ==
    ASSUME SnakeInv, NEW g \in {"text", "gg"}, SnakeStart(g)
    PROVE  SnakeInv'
<1> DEFINE middle == <<SnakeW \div 2, SnakeH \div 2>>
           w == SnakeW \div 2
           h == SnakeH \div 2
<1>c. /\ SnakeW \in Nat \ {0} /\ SnakeH \in Nat \ {0} /\ SnakeMax \in Nat /\ StartLen \in Nat
      /\ 3 <= StartLen /\ StartLen < SnakeMax /\ StartLen - 1 <= w
  BY SnakeConstants
<1>0. w \in 0 .. SnakeW - 1 /\ h \in 0 .. SnakeH - 1 /\ w \in Nat /\ h \in Nat
  BY <1>c
<1>1. /\ snGame' = g /\ snPhase' = "play" /\ slen' = StartLen /\ score' = 0
      /\ dir' = <<1, 0>> /\ ndir' = <<1, 0>>
      /\ seg' = [i \in DOMAIN seg |-> IF i < StartLen THEN Moved(middle, <<-i, 0>>) ELSE seg[i]]
  BY DEF SnakeStart
<1>2. seg \in [0 .. SnakeMax - 1 -> Int \X Int] /\ DOMAIN seg = 0 .. SnakeMax - 1
  BY DEF SnakeInv, SnakeTyped
<1> HIDE DEF w, h
<1>3. ASSUME NEW i \in 0 .. StartLen - 1 PROVE seg'[i] = <<w - i, h>>
  <2>1. i \in DOMAIN seg /\ i < StartLen /\ i \in Int
    BY <1>2, <1>3, <1>c
  <2>2. seg'[i] = Moved(middle, <<-i, 0>>)
    BY <1>1, <2>1
  <2> QED BY <2>1, <2>2, <1>0 DEF Moved, w, h
<1>4. ASSUME NEW i \in 0 .. SnakeMax - 1 PROVE seg'[i] \in Int \X Int
  <2>1. CASE i < StartLen
    BY <2>1, <1>3, <1>4, <1>0, <1>c
  <2>2. CASE ~(i < StartLen)
    BY <2>2, <1>1, <1>2
  <2> QED BY <2>1, <2>2
<1>5. SnakeTyped'
  <2>1. seg' \in [0 .. SnakeMax - 1 -> Int \X Int]
    BY <1>1, <1>2, <1>4
  <2>2. slen' \in StartLen .. SnakeMax - 1 /\ score' \in Nat
    <3>1. StartLen \in StartLen .. SnakeMax - 1 /\ 0 \in Nat
      BY <1>c
    <3> QED BY <3>1, <1>1
  <2>3. /\ snGame' \in {"none", "text", "gg"} /\ snPhase' \in {"play", "paused", "over"}
        /\ snGame' # "none" /\ dir' \in Directions /\ ndir' \in Directions
    BY <1>1, DirectionsAre
  <2> QED BY <2>1, <2>2, <2>3 DEF SnakeTyped
<1>6. Fed'
  BY <1>1, <1>c DEF Fed
<1>7. seg'[0] = <<w, h>> /\ seg'[1] = <<w - 1, h>> /\ seg'[2] = <<w - 2, h>>
  BY <1>3, <1>c, <1>0
<1>8. Heading'
  <2>1. \A i \in 0 .. StartLen - 2 : seg'[i] \in Field
    <3>1. ASSUME NEW i \in 0 .. StartLen - 2 PROVE <<w - i, h>> \in Field
      BY <3>1, <1>c, <1>0 DEF Field
    <3>2. \A i \in 0 .. StartLen - 2 : i \in 0 .. StartLen - 1
      BY <1>c
    <3> QED BY <3>1, <3>2, <1>3
  <2>2. \A i, j \in 0 .. StartLen - 2 : i # j => seg'[i] # seg'[j]
    BY <1>3, <1>c, <1>0
  <2>3. ASSUME NEW i \in 0 .. StartLen - 3 PROVE Moved(seg'[i + 1], <<1, 0>>) = seg'[i]
    <3>1. i + 1 \in 0 .. StartLen - 1 /\ i \in 0 .. StartLen - 1 /\ i \in Int
      BY <2>3, <1>c
    <3>2. seg'[i + 1] = <<w - (i + 1), h>> /\ seg'[i] = <<w - i, h>>
      BY <3>1, <1>3
    <3> QED BY <3>1, <3>2, <1>0 DEF Moved
  <2>4. seg'[0] = Moved(seg'[1], <<1, 0>>) /\ <<1, 0>> # Opposite(<<1, 0>>)
    BY <1>7, <1>0 DEF Moved, Opposite
  <2> QED BY <2>1, <2>2, <2>3, <2>4, <1>1, DirectionsAre DEF Heading
<1> QED BY <1>5, <1>6, <1>7, <1>8, <1>0 DEF SnakeInv

\* One move in a direction that does not lead back.
LEMMA SnakeMoves ==
    ASSUME SnakeInv, snGame # "none", snPhase # "over", NEW d \in Directions, d # Opposite(dir), Move(d)
    PROVE  SnakeInv'
<1> DEFINE s == Shifted(d)
<1>c. SnakeMax \in Nat /\ StartLen \in Nat /\ 3 <= StartLen /\ StartLen < SnakeMax
  BY SnakeConstants
<1>t. /\ seg \in [0 .. SnakeMax - 1 -> Int \X Int] /\ DOMAIN seg = 0 .. SnakeMax - 1
      /\ slen \in Nat /\ StartLen <= slen /\ slen <= SnakeMax - 1
      /\ dir \in Directions /\ score \in Nat /\ snGame \in {"text", "gg"}
      /\ Fed /\ Heading
  BY <1>c DEF SnakeInv, SnakeTyped
<1>1. /\ seg' = s /\ dir' = d /\ ndir' = d /\ snGame' = snGame
      /\ snPhase' = IF Crash(s) THEN "over" ELSE "play"
      /\ \/ slen' = Grown /\ score' = score + 10
         \/ slen' = slen /\ score' = score
  BY DEF Move
<1>2. /\ s[0] = Moved(seg[0], d) /\ DOMAIN s = 0 .. SnakeMax - 1
      /\ \A i \in 1 .. slen - 1 : s[i] = seg[i - 1]
      /\ \A i \in slen .. SnakeMax - 1 : s[i] = seg[i]
  BY <1>t, <1>c DEF Shifted
<1>3. seg[0] \in Int \X Int /\ seg[1] \in Int \X Int /\ s[0] \in Int \X Int
  <2>1. 0 \in 0 .. SnakeMax - 1 /\ 1 \in 0 .. SnakeMax - 1
    BY <1>c
  <2>2. seg[0] \in Int \X Int /\ seg[1] \in Int \X Int
    BY <2>1, <1>t
  <2>3. s[0] = Moved(seg[0], d)
    BY <1>2
  <2> HIDE DEF s
  <2> QED BY <2>2, <2>3, MovedTyped
<1>4. seg' \in [0 .. SnakeMax - 1 -> Int \X Int]
  <2>1. ASSUME NEW i \in 0 .. SnakeMax - 1 PROVE s[i] \in Int \X Int
    <3>1. CASE i = 0
      BY <3>1, <1>3
    <3>2. CASE i \in 1 .. slen - 1
      <4>1. i - 1 \in 0 .. SnakeMax - 1
        BY <3>2, <1>t, <1>c
      <4> QED BY <4>1, <3>2, <1>2, <1>t
    <3>3. CASE i \in slen .. SnakeMax - 1
      BY <3>3, <1>2, <1>t, <2>1
    <3>4. i = 0 \/ i \in 1 .. slen - 1 \/ i \in slen .. SnakeMax - 1
      BY <2>1, <1>t, <1>c
    <3> QED BY <3>1, <3>2, <3>3, <3>4
  <2>2. s = [i \in 0 .. SnakeMax - 1 |-> s[i]]
    BY <1>t DEF Shifted
  <2> HIDE DEF s
  <2>3. s \in [0 .. SnakeMax - 1 -> Int \X Int]
    BY <2>1, <2>2
  <2> QED BY <2>3, <1>1
<1>5. PICK n \in StartLen .. SnakeMax - 1, m \in Nat :
        /\ n \in slen .. slen + 1 /\ slen' = n /\ score' = m
        /\ m >= 10 * (n - StartLen)
        /\ n < SnakeMax - 1 => m = 10 * (n - StartLen)
  <2>1. /\ score >= 10 * (slen - StartLen)
        /\ slen < SnakeMax - 1 => score = 10 * (slen - StartLen)
    BY <1>t DEF Fed
  <2>2. CASE slen' = Grown /\ score' = score + 10 /\ slen < SnakeMax - 1
    <3>1. slen' = slen + 1
      BY <2>2 DEF Grown
    <3>2. /\ slen + 1 \in StartLen .. SnakeMax - 1 /\ score + 10 \in Nat
          /\ slen + 1 \in slen .. slen + 1 /\ score + 10 = 10 * ((slen + 1) - StartLen)
      BY <2>1, <2>2, <1>t, <1>c
    <3>3. score + 10 >= 10 * ((slen + 1) - StartLen)
      BY <3>2, <1>t, <1>c
    <3> QED BY <3>1, <3>2, <3>3, <2>2
  <2>3. CASE slen' = Grown /\ score' = score + 10 /\ ~(slen < SnakeMax - 1)
    <3>1. slen' = slen
      BY <2>3 DEF Grown
    <3>2. /\ slen \in StartLen .. SnakeMax - 1 /\ score + 10 \in Nat
          /\ slen \in slen .. slen + 1 /\ score + 10 >= 10 * (slen - StartLen)
      BY <2>1, <1>t, <1>c
    <3> QED BY <3>1, <3>2, <2>3
  <2>4. CASE slen' = slen /\ score' = score
    <3>1. slen \in StartLen .. SnakeMax - 1 /\ slen \in slen .. slen + 1
      BY <1>t, <1>c
    <3> QED BY <3>1, <2>4, <2>1, <1>t
  <2> QED BY <2>2, <2>3, <2>4, <1>1
<1>6. SnakeTyped'
  BY <1>1, <1>4, <1>5, <1>t DEF SnakeTyped
<1>7. Fed'
  BY <1>5 DEF Fed
<1>8. seg'[0] # seg'[2]
  <2>1. s[2] = seg[1]
    <3>1. 2 \in 1 .. slen - 1 /\ 2 - 1 = 1
      BY <1>t, <1>c
    <3> QED BY <3>1, <1>2
  <2>2. s[0] = Moved(Moved(seg[1], dir), d)
    BY <1>2, <1>t DEF Heading
  <2> HIDE DEF s
  <2> QED BY <2>1, <2>2, <1>1, <1>3, <1>t, NotBack
<1>9. ASSUME ~Crash(s) PROVE Heading'
  <2>1. s[0] \in Field /\ \A i \in 1 .. slen - 1 : s[i] # s[0]
    BY <1>9 DEF Crash
  <2>2. /\ \A i \in 0 .. slen - 2 : seg[i] \in Field
        /\ \A i, j \in 0 .. slen - 2 : i # j => seg[i] # seg[j]
        /\ \A i \in 0 .. slen - 3 : \E e \in Directions : Moved(seg[i + 1], e) = seg[i]
    BY <1>t DEF Heading
  <2>3. s[1] = seg[0]
    <3>1. 1 \in 1 .. slen - 1 /\ 1 - 1 = 0
      BY <1>t, <1>c
    <3> QED BY <3>1, <1>2
  <2>s. s[0] = Moved(seg[0], d) /\ \A i \in 1 .. slen - 1 : s[i] = seg[i - 1]
    BY <1>2
  <2> HIDE DEF s
  <2>4. \A i \in 0 .. slen - 1 : s[i] \in Field
    <3>1. ASSUME NEW i \in 1 .. slen - 1 PROVE s[i] \in Field
      <4>1. i - 1 \in 0 .. slen - 2
        BY <1>t
      <4> QED BY <4>1, <2>s, <2>2
    <3>2. \A i \in 0 .. slen - 1 : i = 0 \/ i \in 1 .. slen - 1
      BY <1>t
    <3> QED BY <3>1, <3>2, <2>1
  <2>5. \A i, j \in 0 .. slen - 1 : i # j => s[i] # s[j]
    <3>1. ASSUME NEW i \in 1 .. slen - 1, NEW j \in 1 .. slen - 1, i # j PROVE s[i] # s[j]
      <4>1. i - 1 \in 0 .. slen - 2 /\ j - 1 \in 0 .. slen - 2 /\ i - 1 # j - 1
        BY <1>t, <3>1
      <4>2. s[i] = seg[i - 1] /\ s[j] = seg[j - 1]
        BY <2>s
      <4> QED BY <4>1, <4>2, <2>2
    <3>2. \A i \in 0 .. slen - 1 : i = 0 \/ i \in 1 .. slen - 1
      BY <1>t
    <3> QED BY <3>1, <3>2, <2>1
  <2>6. ASSUME NEW i \in 0 .. slen - 2 PROVE \E e \in Directions : Moved(s[i + 1], e) = s[i]
    <3>1. CASE i = 0
      <4>1. i + 1 = 1
        BY <3>1
      <4> QED BY <4>1, <3>1, <2>3, <2>s
    <3>2. CASE i # 0
      <4>1. i - 1 \in 0 .. slen - 3 /\ i \in 1 .. slen - 1 /\ i + 1 \in 1 .. slen - 1
            /\ (i - 1) + 1 = i /\ (i + 1) - 1 = i
        BY <1>t, <1>c, <3>2
      <4>2. s[i] = seg[i - 1] /\ s[i + 1] = seg[i]
        BY <4>1, <2>s
      <4> QED BY <4>1, <4>2, <2>2
    <3> QED BY <3>1, <3>2
  <2>7. seg'[0] = Moved(seg'[1], dir') /\ ndir' # Opposite(dir')
    BY <1>1, <2>3, <2>s, DirectionsAre
  <2>8. /\ \A i \in 0 .. slen' - 2 : i \in 0 .. slen - 1
        /\ \A i \in 0 .. slen' - 3 : i \in 0 .. slen - 2
    <3>1. /\ \A i \in 0 .. n - 2 : i \in 0 .. slen - 1
          /\ \A i \in 0 .. n - 3 : i \in 0 .. slen - 2
      BY <1>5, <1>t, <1>c
    <3> QED BY <3>1, <1>5
  <2> QED BY <2>4, <2>5, <2>6, <2>7, <2>8, <1>1 DEF Heading
<1> QED BY <1>1, <1>6, <1>7, <1>8, <1>9 DEF SnakeInv

LEMMA SnakeSteps == SnakeInv /\ [SnakeNext]_snakeVars => SnakeInv'
<1> SUFFICES ASSUME SnakeInv, [SnakeNext]_snakeVars PROVE SnakeInv'
  OBVIOUS
<1>t. /\ dir \in Directions /\ ndir \in Directions
      /\ (snPhase # "over" => snGame # "none" /\ ndir # Opposite(dir))
  BY DEF SnakeInv, SnakeTyped, Heading
<1>1. CASE \E g \in {"text", "gg"} : SnakeStart(g)
  BY <1>1, StartKeeps
<1>2. CASE SnakeLeave \/ SnakePause
  <2>1. /\ UNCHANGED <<snGame, seg, slen, dir, ndir, score>>
        /\ snGame # "none" /\ snPhase' \in {"play", "paused", "over"}
        /\ snPhase' # "over" => snPhase # "over"
    BY <1>2 DEF SnakeLeave, SnakePause
  <2>2. SnakeTyped'
    BY <2>1 DEF SnakeInv, SnakeTyped
  <2>3. Fed' /\ seg'[0] # seg'[2]
    BY <2>1 DEF SnakeInv, Fed
  <2>4. snPhase' # "over" => Heading'
    BY <2>1 DEF SnakeInv, Heading
  <2> QED BY <2>2, <2>3, <2>4 DEF SnakeInv
<1>3. CASE TextTick
  <2>1. PICK d \in {dir} \union {e \in Directions : MayTurn(e)} : Move(d)
    BY <1>3 DEF TextTick
  <2>2. snGame = "text" /\ snPhase # "over"
    BY <1>3 DEF TextTick
  <2>3. d \in Directions /\ d # Opposite(dir)
    BY <2>2, <1>t, TurnsAside DEF MayTurn
  <2> QED BY <2>1, <2>2, <2>3, SnakeMoves
<1>4. CASE TextResume
  BY <1>4, <1>t, DirectionsAre, SnakeMoves DEF TextResume
<1>5. CASE GgMove
  BY <1>5, <1>t, SnakeMoves DEF GgMove
<1>6. CASE Turn
  <2>1. /\ UNCHANGED <<snGame, snPhase, seg, slen, dir, score>> /\ snGame = "gg"
        /\ \E d \in Directions : ndir' = d /\ dir # Opposite(d)
    BY <1>6 DEF Turn, MayTurn
  <2>2. ndir' \in Directions /\ ndir' # Opposite(dir)
    BY <2>1, <1>t DEF Directions, Opposite
  <2>3. SnakeTyped' /\ (snGame' # "none" => Fed' /\ seg'[0] # seg'[2])
    BY <2>1, <2>2 DEF SnakeInv, SnakeTyped, Fed
  <2>4. snPhase' # "over" => Heading'
    BY <2>1, <2>2 DEF SnakeInv, Heading
  <2> QED BY <2>3, <2>4 DEF SnakeInv
<1>7. CASE UNCHANGED snakeVars
  BY <1>7 DEF snakeVars, SnakeInv, SnakeTyped, Fed, Heading
<1> QED BY <1>1, <1>2, <1>3, <1>4, <1>5, <1>6, <1>7 DEF SnakeNext

\* In both snakes, whatever keys come between two moves: the snake is a path in
\* the field that does not cross itself, its length tells what it has eaten, and
\* it never dies by turning into its own neck.
THEOREM SnakeStaysWhole == SnakeSpec => []SnakeRules
<1>1. SnakeInv => SnakeRules
  BY DEF SnakeInv, SnakeTyped, SnakeRules, Fed, Heading
<1> QED BY SnakeStarts, SnakeSteps, <1>1, PTL DEF SnakeSpec

-----------------------------------------------------------------------------
(***************************************************************************)
(* Pong.  Flying says between which values the ball's speed changes and    *)
(* that it leaves a wall it has passed; Follows that the computer's paddle *)
(* is where the ball will be, or as far from there as it can still walk    *)
(* while the ball comes (it walks 4 while the ball flies 3 across and 2    *)
(* down, so it gains 2 with each 3).                                       *)
(***************************************************************************)

PongTyped ==
    /\ poGame \in {"none", "text", "gg"} /\ poPhase \in {"play", "paused", "over"}
    /\ poGame = "none" => poPhase = "over"
    /\ ball \in Int \X Int /\ fly \in Int \X Int /\ points \in Nat \X Nat
    /\ left \in Int /\ right \in Int

Flying ==
    /\ poGame = "text" => fly[1] \in {-1, 1} /\ fly[2] \in {-1, 1}
    /\ poGame = "gg" => /\ fly[1] \in {-3, 3} /\ fly[2] \in {-2, 2}
                        /\ fly[2] < 0 => ball[2] >= 1
                        /\ fly[2] > 0 => ball[2] <= PongH - Ball - 1

PongInv == PongTyped /\ Flying /\ StaysInField

\* The framebuffer's field is wide enough for the computer to get to the middle's height
\* while a ball comes from there, and its paddle high enough not to overshoot (gg_pong: 70
\* high and 12 wide, a ball of 10, a field of 720 by 492).
CanFollow == /\ PadH >= 9
             /\ PongW \div 2 + PadW + Ball < PongW
             /\ 3 * (PongH \div 2 - PadH) <= 2 * (PongW - PongW \div 2 - PadW - Ball)

RightEdge == PongW - PadW - Ball
ToGo(x) == IF x < RightEdge THEN RightEdge - x ELSE 0
Follows ==
    poGame = "gg" =>
      /\ points[1] = 0 /\ ball[1] < RightEdge
      /\ fly[1] < 0 => Meets(ball[2], right)
      /\ fly[1] > 0 => /\ ball[1] > PadW
                       /\ 3 * (ball[2] - right - PadH) <= 2 * ToGo(ball[1])
                       /\ 3 * (right - ball[2] - Ball) <= 2 * ToGo(ball[1])

PadRange == 0 .. (PongH - PadH)

LEMMA PongConstants ==
  /\ PongW \in Nat /\ PongH \in Nat /\ PadH \in Nat /\ PadW \in Nat /\ Ball \in Nat
  /\ PlayerStep \in Nat /\ WinAt \in Nat
  /\ PongW > 0 /\ PongH > 0 /\ PadH > 0 /\ PadW > 0 /\ Ball > 0 /\ WinAt > 0
  /\ PadH + Ball < PongH /\ 2 * PadW + Ball + 6 < PongW
  /\ PongH \div 2 - 2 \in PadRange /\ PongH \div 2 + Ball < PongH
  /\ PongH \div 2 \in Nat /\ 2 * (PongH \div 2) <= PongH /\ PongH <= 2 * (PongH \div 2) + 1
  /\ PongW \div 2 \in Nat /\ 2 * (PongW \div 2) <= PongW /\ PongW <= 2 * (PongW \div 2) + 1
  /\ PadH \div 2 \in Nat /\ 2 * (PadH \div 2) <= PadH /\ PadH <= 2 * (PadH \div 2) + 1
<1>1. \A n \in Nat : n \div 2 \in Nat /\ 2 * (n \div 2) <= n /\ n <= 2 * (n \div 2) + 1
  BY SMT
<1>2. PongW \in Nat \ {0} /\ PongH \in Nat \ {0} /\ PadH \in Nat \ {0} /\ PadW \in Nat \ {0}
      /\ Ball \in Nat \ {0} /\ PlayerStep \in Nat \ {0} /\ WinAt \in Nat \ {0}
  BY PongAssumption
<1> QED BY <1>1, <1>2, PongAssumption DEF PadRange

LEMMA ClipInRange ==
  ASSUME NEW y \in Int
  PROVE  Clip(y) \in PadRange
BY PongConstants DEF Clip, PadRange

LEMMA ChaseInRange ==
  ASSUME NEW y \in PadRange
  PROVE  Chase(y) \in PadRange
<1>1. Chase(y) \in {y, y + 1, y - 1}
  BY DEF Chase
<1>2. Chase(y) = y + 1 => y + PadH < PongH
  BY PongConstants DEF Chase, PadRange
<1>3. Chase(y) = y - 1 => y > 0
  BY PongConstants DEF Chase, PadRange
<1> QED BY <1>1, <1>2, <1>3, PongConstants DEF PadRange

LEMMA FollowInRange ==
  ASSUME NEW y \in PadRange, ball \in Int \X Int
  PROVE  Follow(y) \in PadRange
<1>1. y + 4 \in Int /\ y - 4 \in Int /\ y \in Int
  BY DEF PadRange
<1> QED BY <1>1, ClipInRange DEF Follow

\* The ball of the text game stays inside the frame.
LEMMA TextBallInField ==
  ASSUME ball \in Int \X Int, fly \in Int \X Int, NEW l \in PadRange, NEW r \in PadRange,
         ball[1] \in 0 .. (PongW - 1), ball[2] \in 0 .. (PongH - 1),
         fly[1] \in {-1, 1}, fly[2] \in {-1, 1}
  PROVE  /\ TextBall(l, r).at \in (0 .. (PongW - 1)) \X (0 .. (PongH - 1))
         /\ TextBall(l, r).to \in {-1, 1} \X {-1, 1} /\ TextBall(l, r).by \in 0 .. 2
<1> DEFINE x  == ball[1] + fly[1]
           y0 == ball[2] + fly[2]
           y  == IF y0 <= 0 THEN 0 ELSE IF y0 >= PongH - 1 THEN PongH - 1 ELSE y0
           dy == IF y0 <= 0 THEN 1 ELSE IF y0 >= PongH - 1 THEN -1 ELSE fly[2]
<1>1. x \in -1 .. PongW /\ y \in 0 .. (PongH - 1) /\ dy \in {-1, 1}
  BY PongConstants
<1>2. \A rel \in Int : Angle(rel, dy) \in {-1, 1}
  BY <1>1 DEF Angle
<1>3. y - r \in Int /\ y - l \in Int
  BY <1>1 DEF PadRange
<1>4. Middle[1] \in 0 .. (PongW - 1) /\ Middle[2] \in 0 .. (PongH - 1) /\ Middle = <<Middle[1], Middle[2]>>
  BY PongConstants DEF Middle
<1>5. TextBall(l, r) =
        IF x >= PongW - 1 /\ y \in r .. (r + PadH - 1)
        THEN [at |-> <<PongW - 2, y>>, to |-> <<-1, Angle(y - r, dy)>>, by |-> 0]
        ELSE IF x <= 0 /\ y \in l .. (l + PadH - 1)
        THEN [at |-> <<1, y>>, to |-> <<1, Angle(y - l, dy)>>, by |-> 0]
        ELSE IF x >= PongW THEN [at |-> Middle, to |-> <<-1, dy>>, by |-> 1]
        ELSE IF x < 0      THEN [at |-> Middle, to |-> <<1, dy>>, by |-> 2]
        ELSE [at |-> <<x, y>>, to |-> <<fly[1], dy>>, by |-> 0]
  BY DEF TextBall
<1> HIDE DEF x, y, dy
<1>6. PongW - 2 \in 0 .. (PongW - 1) /\ 1 \in 0 .. (PongW - 1) /\ {0, 1, 2} = 0 .. 2
  BY PongConstants
<1>7. Angle(y - r, dy) \in {-1, 1} /\ Angle(y - l, dy) \in {-1, 1}
  BY <1>2, <1>3
<1>8. CASE x >= PongW - 1 /\ y \in r .. (r + PadH - 1)
  BY <1>1, <1>5, <1>6, <1>7, <1>8
<1>9. CASE ~(x >= PongW - 1 /\ y \in r .. (r + PadH - 1)) /\ x <= 0 /\ y \in l .. (l + PadH - 1)
  BY <1>1, <1>5, <1>6, <1>7, <1>9
<1>10. CASE /\ ~(x >= PongW - 1 /\ y \in r .. (r + PadH - 1))
            /\ ~(x <= 0 /\ y \in l .. (l + PadH - 1)) /\ (x >= PongW \/ x < 0)
  <2> DEFINE mx == Middle[1]
             my == Middle[2]
  <2>1. Middle = <<mx, my>> /\ mx \in 0 .. (PongW - 1) /\ my \in 0 .. (PongH - 1)
    BY <1>4
  <2> HIDE DEF mx, my
  <2>2. CASE x >= PongW
    <3>1. TextBall(l, r) = [at |-> <<mx, my>>, to |-> <<-1, dy>>, by |-> 1]
      BY <1>5, <1>10, <2>1, <2>2
    <3> QED BY <3>1, <2>1, <1>1, <1>6
  <2>3. CASE ~(x >= PongW)
    <3>1. TextBall(l, r) = [at |-> <<mx, my>>, to |-> <<1, dy>>, by |-> 2]
      BY <1>5, <1>10, <2>1, <2>3
    <3> QED BY <3>1, <2>1, <1>1, <1>6
  <2> QED BY <2>2, <2>3
<1>11. CASE /\ ~(x >= PongW - 1 /\ y \in r .. (r + PadH - 1))
            /\ ~(x <= 0 /\ y \in l .. (l + PadH - 1)) /\ ~(x >= PongW) /\ ~(x < 0)
  <2>1. TextBall(l, r) = [at |-> <<x, y>>, to |-> <<fly[1], dy>>, by |-> 0]
    BY <1>5, <1>11
  <2>2. x \in 0 .. (PongW - 1)
    BY <1>1, <1>11, PongConstants
  <2> QED BY <2>1, <2>2, <1>1, <1>6
<1> QED BY <1>8, <1>9, <1>10, <1>11

\* The ball of the framebuffer game: where it gets, and whether a point was made.
LEMMA GgBallLeavesWall ==
  ASSUME ball \in Int \X Int, fly \in Int \X Int, NEW l \in PadRange, NEW r \in PadRange,
         fly[1] \in {-3, 3}, fly[2] \in {-2, 2},
         ball[2] \in -1 .. (PongH - Ball + 1),
         fly[2] < 0 => ball[2] >= 1, fly[2] > 0 => ball[2] <= PongH - Ball - 1
  PROVE  /\ GgBall(l, r).at \in Int \X (-1 .. (PongH - Ball + 1))
         /\ GgBall(l, r).to \in {-3, 3} \X {-2, 2} /\ GgBall(l, r).by \in 0 .. 2
         /\ GgBall(l, r).to[2] < 0 => GgBall(l, r).at[2] >= 1
         /\ GgBall(l, r).to[2] > 0 => GgBall(l, r).at[2] <= PongH - Ball - 1
<1> DEFINE x  == ball[1] + fly[1]
           y  == ball[2] + fly[2]
           dy == IF y <= 0 \/ y >= PongH - Ball THEN -fly[2] ELSE fly[2]
           hitL == x <= PadW /\ Meets(y, l)
           hitR == ~hitL /\ x + Ball >= PongW - PadW /\ Meets(y, r)
           nx == IF hitL THEN PadW + 1 ELSE IF hitR THEN PongW - PadW - Ball - 1 ELSE x
           dx == IF hitL THEN Size(fly[1]) ELSE IF hitR THEN -Size(fly[1]) ELSE fly[1]
<1>1. x \in Int /\ y \in -1 .. (PongH - Ball + 1) /\ dy \in {-2, 2}
      /\ (dy < 0 => y >= 1) /\ (dy > 0 => y <= PongH - Ball - 1)
  BY PongConstants
<1>2. Size(fly[1]) = 3
  BY DEF Size
<1>3. GgBall(l, r) = IF nx < 0 THEN [at |-> Middle, to |-> <<3, 2>>, by |-> 2]
                     ELSE IF nx > PongW THEN [at |-> Middle, to |-> <<-3, 2>>, by |-> 1]
                     ELSE [at |-> <<nx, y>>, to |-> <<dx, dy>>, by |-> 0]
  BY DEF GgBall
<1>4. nx \in Int /\ dx \in {-3, 3}
  <2> HIDE DEF x, hitL, hitR
  <2> QED BY <1>1, <1>2, PongConstants
<1> HIDE DEF x, y, dy, nx, dx
<1> DEFINE mx == PongW \div 2
           my == PongH \div 2
<1>5. Middle = <<mx, my>> /\ mx \in Int /\ my \in 1 .. (PongH - Ball - 1) /\ my \in -1 .. (PongH - Ball + 1)
  <2>1. my >= 1 /\ my <= PongH - Ball - 1
    BY PongConstants
  <2> QED BY <2>1, PongConstants DEF Middle
<1> HIDE DEF mx, my
<1>6. CASE nx < 0
  <2>1. GgBall(l, r) = [at |-> <<mx, my>>, to |-> <<3, 2>>, by |-> 2]
    BY <1>3, <1>5, <1>6
  <2> QED BY <2>1, <1>5
<1>7. CASE ~(nx < 0) /\ nx > PongW
  <2>1. GgBall(l, r) = [at |-> <<mx, my>>, to |-> <<-3, 2>>, by |-> 1]
    BY <1>3, <1>5, <1>7
  <2> QED BY <2>1, <1>5
<1>8. CASE ~(nx < 0) /\ ~(nx > PongW)
  <2>1. GgBall(l, r) = [at |-> <<nx, y>>, to |-> <<dx, dy>>, by |-> 0]
    BY <1>3, <1>8
  <2> QED BY <2>1, <1>1, <1>4
<1> QED BY <1>6, <1>7, <1>8

\* What Play does with the ball's new place and speed.
LEMMA PlayCounts ==
  ASSUME points \in Nat \X Nat, NEW l, NEW r, NEW b, b.by \in 0 .. 2, Play(l, r, b)
  PROVE  /\ points' \in Nat \X Nat /\ poPhase' \in {"play", "over"}
         /\ poPhase' # "over" => \A i \in 1 .. 2 : points'[i] < WinAt
         /\ poGame' = poGame /\ left' = l /\ right' = r /\ ball' = b.at /\ fly' = b.to
<1>1. points' = <<points[1] + (IF b.by = 1 THEN 1 ELSE 0), points[2] + (IF b.by = 2 THEN 1 ELSE 0)>>
  BY DEF Play
<1>2. points[1] + (IF b.by = 1 THEN 1 ELSE 0) \in Nat /\ points[2] + (IF b.by = 2 THEN 1 ELSE 0) \in Nat
  OBVIOUS
<1>3. points' \in Nat \X Nat
  BY <1>1, <1>2
<1>4. poPhase' = IF \E i \in 1 .. 2 : points'[i] >= WinAt THEN "over" ELSE "play"
  BY DEF Play
<1>5. \A i \in 1 .. 2 : points'[i] \in Nat
  BY <1>3
<1>6. poPhase' # "over" => \A i \in 1 .. 2 : points'[i] < WinAt
  BY <1>4, <1>5, PongConstants
<1>7. poGame' = poGame /\ left' = l /\ right' = r /\ ball' = b.at /\ fly' = b.to
  BY DEF Play
<1> QED BY <1>3, <1>4, <1>6, <1>7

LEMMA PongStarts ==
  ASSUME PongInv, NEW g \in {"text", "gg"}, PongStart(g)
  PROVE  PongInv'
<1>1. Middle \in Int \X Int /\ Middle[1] \in 0 .. (PongW - 1) /\ Middle[2] \in 1 .. (PongH - Ball - 1)
  <2>1. PongH \div 2 >= 1
    BY PongConstants
  <2> QED BY <2>1, PongConstants DEF Middle
<1>2. left' \in PadRange /\ right' = left'
  <2>1. (PongH - PadH) \div 2 \in PadRange
    <3> DEFINE n == PongH - PadH
    <3>1. n \in Nat
      BY PongConstants
    <3> HIDE DEF n
    <3>2. n \div 2 \in 0 .. n
      BY <3>1
    <3> QED BY <3>2 DEF PadRange, n
  <2>2. left' = (IF g = "gg" THEN (PongH - PadH) \div 2 ELSE PongH \div 2 - 2) /\ right' = left'
    BY DEF PongStart
  <2> QED BY <2>1, <2>2, PongConstants
<1>3. ball' = Middle /\ fly' = (IF g = "gg" THEN <<3, 2>> ELSE <<1, 1>>) /\ points' = <<0, 0>>
      /\ poGame' = g /\ poPhase' = "play"
  BY DEF PongStart
<1>4. PongTyped'
  BY <1>1, <1>2, <1>3 DEF PongTyped, PadRange
<1>5. Flying'
  BY <1>1, <1>3, PongConstants DEF Flying
<1>6. StaysInField'
  BY <1>1, <1>2, <1>3, PongConstants DEF StaysInField, PadRange
<1> QED BY <1>4, <1>5, <1>6 DEF PongInv

LEMMA TextTurnStays ==
  ASSUME PongInv, TextTurn
  PROVE  PongInv'
<1>1. poGame = "text" /\ ball \in Int \X Int /\ fly \in Int \X Int /\ points \in Nat \X Nat
      /\ left \in PadRange /\ right \in PadRange
      /\ ball[1] \in 0 .. (PongW - 1) /\ ball[2] \in 0 .. (PongH - 1)
      /\ fly[1] \in {-1, 1} /\ fly[2] \in {-1, 1}
  BY DEF PongInv, PongTyped, Flying, StaysInField, TextTurn, PadRange
<1>2. PICK k \in {-1, 0, 1} : Play(Chase(left), Clip(right + k), TextBall(Chase(left), Clip(right + k)))
  BY DEF TextTurn
<1> DEFINE l == Chase(left)
           r == Clip(right + k)
           b == TextBall(l, r)
<1>3. l \in PadRange /\ r \in PadRange
  <2>1. right + k \in Int
    BY <1>1 DEF PadRange
  <2> QED BY <1>1, <2>1, ClipInRange, ChaseInRange
<1>4. Play(l, r, b)
  BY <1>2
<1> HIDE DEF l, r
<1>5. b.at \in (0 .. (PongW - 1)) \X (0 .. (PongH - 1)) /\ b.to \in {-1, 1} \X {-1, 1} /\ b.by \in 0 .. 2
  BY <1>1, <1>3, TextBallInField
<1> HIDE DEF b
<1>6. /\ points' \in Nat \X Nat /\ poPhase' \in {"play", "over"}
      /\ poPhase' # "over" => \A i \in 1 .. 2 : points'[i] < WinAt
      /\ poGame' = poGame /\ left' = l /\ right' = r /\ ball' = b.at /\ fly' = b.to
  BY <1>1, <1>4, <1>5, PlayCounts
<1>7. PongTyped'
  BY <1>1, <1>3, <1>5, <1>6 DEF PongTyped, PadRange
<1>8. Flying'
  BY <1>1, <1>5, <1>6 DEF Flying
<1>9. StaysInField'
  BY <1>1, <1>3, <1>5, <1>6 DEF StaysInField, PadRange
<1> QED BY <1>7, <1>8, <1>9 DEF PongInv

LEMMA GgTurnStays ==
  ASSUME PongInv, GgTurn
  PROVE  PongInv'
<1>1. poGame = "gg" /\ ball \in Int \X Int /\ fly \in Int \X Int /\ points \in Nat \X Nat
      /\ left \in PadRange /\ right \in PadRange
      /\ fly[1] \in {-3, 3} /\ fly[2] \in {-2, 2}
      /\ ball[2] \in -1 .. (PongH - Ball + 1)
      /\ (fly[2] < 0 => ball[2] >= 1) /\ (fly[2] > 0 => ball[2] <= PongH - Ball - 1)
  BY DEF PongInv, PongTyped, Flying, StaysInField, GgTurn, PadRange
<1>2. PICK k \in {-1, 0, 1} : Play(Clip(left + k * PlayerStep), Follow(right),
                                   GgBall(Clip(left + k * PlayerStep), Follow(right)))
  BY DEF GgTurn
<1> DEFINE l == Clip(left + k * PlayerStep)
           r == Follow(right)
           b == GgBall(l, r)
<1>3. l \in PadRange /\ r \in PadRange
  <2>1. left + k * PlayerStep \in Int
    BY <1>1, PongConstants DEF PadRange
  <2> QED BY <1>1, <2>1, ClipInRange, FollowInRange
<1>4. Play(l, r, b)
  BY <1>2
<1> HIDE DEF l, r
<1>5. /\ b.at \in Int \X (-1 .. (PongH - Ball + 1)) /\ b.to \in {-3, 3} \X {-2, 2} /\ b.by \in 0 .. 2
      /\ b.to[2] < 0 => b.at[2] >= 1
      /\ b.to[2] > 0 => b.at[2] <= PongH - Ball - 1
  BY <1>1, <1>3, GgBallLeavesWall
<1> HIDE DEF b
<1>6. /\ points' \in Nat \X Nat /\ poPhase' \in {"play", "over"}
      /\ poPhase' # "over" => \A i \in 1 .. 2 : points'[i] < WinAt
      /\ poGame' = poGame /\ left' = l /\ right' = r /\ ball' = b.at /\ fly' = b.to
  BY <1>1, <1>4, <1>5, PlayCounts
<1>7. PongTyped'
  BY <1>1, <1>3, <1>5, <1>6, PongConstants DEF PongTyped, PadRange
<1>8. Flying'
  BY <1>1, <1>5, <1>6, PongConstants DEF Flying
<1>9. StaysInField'
  BY <1>1, <1>3, <1>5, <1>6, PongConstants DEF StaysInField, PadRange
<1> QED BY <1>7, <1>8, <1>9 DEF PongInv

LEMMA PongSteps ==
  ASSUME PongInv, [PongNext]_pongVars
  PROVE  PongInv'
<1>1. CASE PongPause
  BY <1>1 DEF PongPause, PongInv, PongTyped, Flying, StaysInField
<1>2. CASE PongLeave
  BY <1>2 DEF PongLeave, PongInv, PongTyped, Flying, StaysInField
<1>3. CASE UNCHANGED pongVars
  BY <1>3 DEF pongVars, PongInv, PongTyped, Flying, StaysInField
<1> QED BY <1>1, <1>2, <1>3, PongStarts, TextTurnStays, GgTurnStays DEF PongNext

LEMMA PongInvariant == PongSpec => []PongInv
<1>1. PongInit => PongInv
  BY PongConstants DEF PongInit, PongInv, PongTyped, Flying, StaysInField, Middle
<1> QED BY <1>1, PongSteps, PTL DEF PongSpec

\* In both pongs, whatever the player does: the ball stays in the field, leaves
\* the wall it has met, the paddles stay between the walls, and a game whose
\* points are made is over (start_pong, gg_pong).
THEOREM PongStaysInField == PongSpec => []StaysInField
BY PongInvariant, PTL DEF PongInv

\* The paddle gains two cells on the ball in the time it flies three across, until it is there.
LEMMA Chasing ==
  ASSUME CanFollow, NEW y \in Int, NEW r \in PadRange, NEW d \in {-2, 2}, NEW t \in Nat,
         y + d \in -1 .. (PongH - Ball + 1),
         3 * (y - r - PadH) <= 2 * t, 3 * (r - y - Ball) <= 2 * t,
         NEW q, q = Clip(IF r + PadH \div 2 < y THEN r + 4 ELSE IF r + PadH \div 2 > y THEN r - 4 ELSE r),
         NEW u, u = (IF t < 3 THEN 0 ELSE t - 3)
  PROVE  3 * ((y + d) - q - PadH) <= 2 * u /\ 3 * (q - (y + d) - Ball) <= 2 * u
<1> DEFINE h == PadH \div 2
           low == PongH - PadH
<1>1. h \in Nat /\ 2 * h <= PadH /\ PadH <= 2 * h + 1 /\ PadH >= 9 /\ PadH \in Nat
      /\ low \in Nat /\ Ball \in Nat /\ Ball > 0 /\ r \in 0 .. low /\ y + d <= low + PadH - Ball + 1 /\ y + d >= -1
  BY PongConstants DEF CanFollow, PadRange
<1>2. q = LET c == IF r + h < y THEN r + 4 ELSE IF r + h > y THEN r - 4 ELSE r
          IN  IF c < 0 THEN 0 ELSE IF c > low THEN low ELSE c
  BY DEF Clip
<1> HIDE DEF h, low
<1>3. CASE r + h < y
  <2>1. q = IF r + 4 > low THEN low ELSE r + 4
    BY <1>1, <1>2, <1>3
  <2> QED BY <1>1, <1>3, <2>1
<1>4. CASE r + h > y
  <2>1. q = IF r - 4 < 0 THEN 0 ELSE r - 4
    BY <1>1, <1>2, <1>4
  <2> QED BY <1>1, <1>4, <2>1
<1>5. CASE r + h = y
  <2>1. q = r
    BY <1>1, <1>2, <1>5
  <2> QED BY <1>1, <1>5, <2>1
<1> QED BY <1>1, <1>3, <1>4, <1>5

LEMMA GgTurnFollows ==
  ASSUME CanFollow, PongInv, Follows, GgTurn
  PROVE  Follows'
<1>1. poGame = "gg" /\ ball \in Int \X Int /\ fly \in Int \X Int /\ points \in Nat \X Nat
      /\ left \in PadRange /\ right \in PadRange
      /\ fly[1] \in {-3, 3} /\ fly[2] \in {-2, 2}
      /\ ball[2] \in -1 .. (PongH - Ball + 1)
      /\ (fly[2] < 0 => ball[2] >= 1) /\ (fly[2] > 0 => ball[2] <= PongH - Ball - 1)
  BY DEF PongInv, PongTyped, Flying, StaysInField, GgTurn, PadRange
<1>2. PICK k \in {-1, 0, 1} : Play(Clip(left + k * PlayerStep), Follow(right),
                                   GgBall(Clip(left + k * PlayerStep), Follow(right)))
  BY DEF GgTurn
<1> DEFINE l == Clip(left + k * PlayerStep)
           r == Follow(right)
           b == GgBall(l, r)
           x == ball[1] + fly[1]
           y == ball[2] + fly[2]
           dy == IF y <= 0 \/ y >= PongH - Ball THEN -fly[2] ELSE fly[2]
           hitL == x <= PadW /\ Meets(y, l)
           hitR == ~hitL /\ x + Ball >= PongW - PadW /\ Meets(y, r)
           nx == IF hitL THEN PadW + 1 ELSE IF hitR THEN PongW - PadW - Ball - 1 ELSE x
           dx == IF hitL THEN 3 ELSE IF hitR THEN -3 ELSE fly[1]
           u == IF fly[1] < 0 THEN 0 ELSE IF ToGo(ball[1]) < 3 THEN 0 ELSE ToGo(ball[1]) - 3
<1>3. l \in PadRange /\ r \in PadRange
  <2>1. left + k * PlayerStep \in Int
    BY <1>1, PongConstants DEF PadRange
  <2> QED BY <1>1, <2>1, ClipInRange, FollowInRange
<1>4. points'[1] = points[1] + (IF b.by = 1 THEN 1 ELSE 0) /\ poGame' = poGame
      /\ right' = r /\ ball' = b.at /\ fly' = b.to
  BY <1>2 DEF Play
<1>5. b = IF nx < 0 THEN [at |-> Middle, to |-> <<3, 2>>, by |-> 2]
          ELSE IF nx > PongW THEN [at |-> Middle, to |-> <<-3, 2>>, by |-> 1]
          ELSE [at |-> <<nx, y>>, to |-> <<dx, dy>>, by |-> 0]
  <2>1. Size(fly[1]) = 3
    BY <1>1 DEF Size
  <2> HIDE DEF l, r
  <2> QED BY <2>1 DEF GgBall
<1>6. x \in Int /\ y \in Int /\ y \in -1 .. (PongH - Ball + 1) /\ RightEdge \in Int
      /\ PadW + 1 < RightEdge /\ RightEdge < PongW /\ PadW \in Nat
  BY <1>1, PongConstants DEF RightEdge
<1>7. points[1] = 0 /\ ball[1] < RightEdge
      /\ (fly[1] < 0 => Meets(ball[2], right))
      /\ (fly[1] > 0 => /\ ball[1] > PadW
                        /\ 3 * (ball[2] - right - PadH) <= 2 * ToGo(ball[1])
                        /\ 3 * (right - ball[2] - Ball) <= 2 * ToGo(ball[1]))
  BY <1>1 DEF Follows
<1>8. u \in Nat /\ 3 * (y - r - PadH) <= 2 * u /\ 3 * (r - y - Ball) <= 2 * u
  <2>1. r = Clip(IF right + PadH \div 2 < ball[2] THEN right + 4
                 ELSE IF right + PadH \div 2 > ball[2] THEN right - 4 ELSE right)
    <3>1. right + 4 \in Int /\ right - 4 \in Int /\ PadH \div 2 \in Int /\ ball[2] \in Int
      BY <1>1, PongConstants DEF PadRange
    <3> QED BY <3>1 DEF Follow
  <2> DEFINE t == IF fly[1] < 0 THEN 0 ELSE ToGo(ball[1])
             v == IF t < 3 THEN 0 ELSE t - 3
  <2>2. t \in Nat /\ u = v /\ v \in Nat
    BY <1>1, <1>6 DEF ToGo
  <2>3. 3 * (ball[2] - right - PadH) <= 2 * t /\ 3 * (right - ball[2] - Ball) <= 2 * t
    BY <1>1, <1>7, PongConstants DEF Meets, PadRange
  <2> HIDE DEF t, r, u
  <2>4. 3 * ((ball[2] + fly[2]) - r - PadH) <= 2 * v /\ 3 * (r - (ball[2] + fly[2]) - Ball) <= 2 * v
    BY <1>1, <1>3, <1>6, <2>1, <2>2, <2>3, Chasing
  <2> QED BY <2>2, <2>4
<1> DEFINE Near(p, q) == 3 * (p - r - PadH) <= 2 * q /\ 3 * (r - p - Ball) <= 2 * q
<1>9. Near(PongH \div 2, ToGo(PongW \div 2)) /\ PongW \div 2 > PadW /\ PongW \div 2 < RightEdge
  <2> HIDE DEF r
  <2>1. PongW \div 2 > PadW /\ PongW \div 2 < RightEdge
    BY PongConstants DEF CanFollow, RightEdge
  <2>2. ToGo(PongW \div 2) = PongW - PadW - Ball - PongW \div 2
    BY <2>1 DEF ToGo, RightEdge
  <2> QED BY <1>3, <2>1, <2>2, PongConstants DEF CanFollow, PadRange
<1>10. u = 0 => Meets(y, r)
  <2> HIDE DEF r, u, y
  <2> QED BY <1>3, <1>6, <1>8, PongConstants DEF Meets, PadRange
<1> HIDE DEF r, l, b, u, y, dy
<1>11. CASE fly[1] < 0
  <2>1. u = 0 /\ fly[1] = -3 /\ x < RightEdge /\ ~hitR
    BY <1>1, <1>6, <1>7, <1>11, PongConstants DEF u, RightEdge
  <2>2. Meets(y, r)
    BY <2>1, <1>10
  <2> HIDE DEF x, hitR
  <2>3. CASE hitL
    <3>1. b = [at |-> <<PadW + 1, y>>, to |-> <<3, dy>>, by |-> 0]
      BY PongConstants, <1>5, <1>6, <2>3
    <3>2. ToGo(PadW + 1) \in Nat
      BY <1>6 DEF ToGo
    <3> DEFINE g == ToGo(PadW + 1)
    <3> HIDE DEF g
    <3>3. Near(y, g)
      BY <3>2, <2>1, <1>3, <1>6, <1>8, PongConstants DEF PadRange, g
    <3> QED BY <3>1, <3>2, <3>3, <1>4, <1>6, <1>7 DEF Follows, g, ToGo, RightEdge
  <2>4. CASE ~hitL /\ x < 0
    <3>1. b = [at |-> Middle, to |-> <<3, 2>>, by |-> 2]
      BY <1>5, <2>1, <2>4
    <3>2. ball'[1] = PongW \div 2 /\ ball'[2] = PongH \div 2 /\ fly'[1] = 3 /\ right' = r /\ points'[1] = 0
      BY <3>1, <1>4, <1>7 DEF Middle
    <3> QED BY <3>2, <1>9 DEF Follows, ToGo, RightEdge
  <2>5. CASE ~hitL /\ x >= 0
    <3>1. b = [at |-> <<x, y>>, to |-> <<-3, dy>>, by |-> 0]
      BY PongConstants, <1>5, <1>6, <2>1, <2>5
    <3>2. ball'[1] = x /\ ball'[2] = y /\ fly'[1] = -3 /\ right' = r /\ points'[1] = 0
      BY <3>1, <1>4, <1>7
    <3> QED BY <3>2, <2>1, <2>2 DEF Follows, RightEdge, Meets
  <2> QED BY <1>6, <2>3, <2>4, <2>5
<1>12. CASE fly[1] > 0
  <2>1. fly[1] = 3 /\ x > PadW /\ ~hitL /\ ToGo(ball[1]) = RightEdge - ball[1]
    BY <1>1, <1>6, <1>7, <1>12 DEF ToGo
  <2>2. CASE x >= RightEdge
    <3>1. u = 0
      BY <1>1, <1>6, <2>1, <2>2 DEF u
    <3>2. hitR /\ Meets(y, r)
      BY <3>1, <1>10, <1>6, <2>1, <2>2, PongConstants DEF RightEdge
    <3> HIDE DEF x, hitL, hitR
    <3>3. nx = RightEdge - 1
      BY <3>2, <2>1, PongConstants DEF RightEdge
    <3>4. b = [at |-> <<RightEdge - 1, y>>, to |-> <<-3, dy>>, by |-> 0]
      BY PongConstants, <1>5, <1>6, <2>1, <3>2, <3>3
    <3>5. ball'[1] = RightEdge - 1 /\ ball'[2] = y /\ fly'[1] = -3 /\ right' = r /\ points'[1] = 0
      BY <3>4, <1>4, <1>7
    <3> QED BY <3>5, <3>2, <1>6 DEF Follows, RightEdge, Meets
  <2>3. CASE x < RightEdge
    <3>1. ~hitR
      BY <1>6, <2>3, PongConstants DEF RightEdge
    <3>2. ToGo(x) \in Nat /\ u <= ToGo(x)
      BY <1>1, <1>6, <2>1, <2>3 DEF u, ToGo
    <3>3. x <= PongW /\ x >= 0
      BY PongConstants, <1>6, <2>1, <2>3
    <3> HIDE DEF x, hitL, hitR
    <3>4. b = [at |-> <<x, y>>, to |-> <<3, dy>>, by |-> 0]
      BY PongConstants, <1>5, <1>6, <2>1, <3>1, <3>3
    <3>5. ball'[1] = x /\ ball'[2] = y /\ fly'[1] = 3 /\ right' = r /\ points'[1] = 0
      BY <3>4, <1>4, <1>7
    <3> DEFINE g == ToGo(x)
    <3> HIDE DEF g
    <3>6. Near(y, g)
      BY <3>2, <1>3, <1>6, <1>8, PongConstants DEF PadRange, g
    <3> QED BY <3>5, <3>6, <2>1, <2>3 DEF Follows, g, ToGo, RightEdge
  <2> QED BY <1>6, <2>2, <2>3
<1> QED BY <1>1, <1>11, <1>12

LEMMA FollowsKept ==
  ASSUME CanFollow, PongInv, Follows, [PongNext]_pongVars
  PROVE  Follows'
<1>1. CASE \E g \in {"text", "gg"} : PongStart(g)
  <2>1. PICK g \in {"text", "gg"} : PongStart(g)
    BY <1>1
  <2>2. SUFFICES ASSUME g = "gg" PROVE Follows'
    BY <2>1 DEF PongStart, Follows
  <2> DEFINE n == PongH - PadH
             s == n \div 2
  <2>3. n \in Nat
    BY PongConstants
  <2>4. right' = s /\ ball' = Middle /\ fly' = <<3, 2>> /\ points' = <<0, 0>>
    BY <2>1, <2>2 DEF PongStart
  <2> HIDE DEF n
  <2>5. s \in Nat /\ 2 * s <= n /\ n <= 2 * s + 1
    BY <2>3
  <2> HIDE DEF s
  <2>6. PongW \div 2 > PadW /\ PongW \div 2 < RightEdge
    BY PongConstants DEF CanFollow, RightEdge
  <2> DEFINE t == ToGo(PongW \div 2)
  <2>7. t \in Nat
    BY <2>6, PongConstants DEF ToGo, RightEdge
  <2> HIDE DEF t
  <2>8. 3 * (PongH \div 2 - s - PadH) <= 2 * t /\ 3 * (s - PongH \div 2 - Ball) <= 2 * t
    BY <2>5, <2>7, PongConstants DEF n
  <2>9. ball'[1] = PongW \div 2 /\ ball'[2] = PongH \div 2 /\ fly'[1] = 3 /\ points'[1] = 0
    BY <2>4 DEF Middle
  <2> QED BY <2>4, <2>6, <2>8, <2>9 DEF Follows, t, ToGo, RightEdge
<1>2. CASE PongPause \/ PongLeave \/ UNCHANGED pongVars
  <2>1. UNCHANGED <<poGame, points, ball, fly, right>>
    BY <1>2 DEF PongPause, PongLeave, pongVars
  <2> QED BY <2>1 DEF Follows, ToGo, RightEdge, Meets
<1>3. CASE TextTurn
  <2>1. poGame' = "text"
    BY <1>3 DEF TextTurn, Play
  <2> QED BY <2>1 DEF Follows
<1> QED BY <1>1, <1>2, <1>3, GgTurnFollows DEF PongNext

\* gg_pong: where the computer's paddle can follow, it never misses a ball, so
\* that the player cannot win.
THEOREM ComputerNeverMisses ==
  ASSUME CanFollow PROVE PongSpec => []NeverMisses
<1>1. PongInit => Follows
  BY DEF PongInit, Follows
<1>2. PongInv /\ Follows /\ [PongNext]_pongVars => Follows'
  BY FollowsKept
<1>3. Follows => NeverMisses
  BY DEF Follows, NeverMisses
<1> QED BY <1>1, <1>2, <1>3, PongInvariant, PTL DEF PongSpec

-----------------------------------------------------------------------------
(* Simon *)

\* Only a round that is played has repeated anything, and never all of it.
SimonInv ==
    /\ siGame \in {"none", "text", "gg"} /\ siPhase \in {"show", "repeat", "over"}
    /\ tones \in Seq(Buttons) /\ repeated \in Nat /\ siScore \in Nat
    /\ siGame = "none" => siPhase = "over"
    /\ siGame # "none" => tones # <<>>
    /\ siPhase = "show" => repeated = 0
    /\ siPhase = "repeat" => repeated < Len(tones)
    /\ SimonRules

\* The key that completes a round of n tones scores what the first n tones are
\* worth.
LEMMA WholeRound ==
  ASSUME NEW n \in Nat \ {0}, NEW s \in Nat, 2 * s = n * (n - 1) + 2 * (n - 1)
  PROVE  /\ 2 * (s + 1) = (n + 1) * ((n + 1) - 1) + 2 * 0
         /\ 2 * (s + 1) = n * (n - 1) + 2 * n
<1>1. (n + 1) * ((n + 1) - 1) = n * (n - 1) + 2 * n
  OBVIOUS
<1> QED BY <1>1

LEMMA RightKeeps ==
  ASSUME SimonInv, Right
  PROVE  SimonInv'
<1> USE SimonAssumption
<1>1. /\ siGame \in {"text", "gg"} /\ tones \in Seq(Buttons) /\ repeated \in Nat /\ siScore \in Nat
      /\ Len(tones) \in Nat \ {0} /\ repeated < Len(tones) /\ siGame' = siGame
      /\ siScore' = siScore + (IF siGame = "text" \/ repeated + 1 = Len(tones) THEN 1 ELSE 0)
      /\ siPhase = "repeat"
  BY DEF SimonInv, Right
<1>2. CASE repeated + 1 < Len(tones)
  <2>1. repeated' = repeated + 1 /\ siPhase' = siPhase /\ tones' = tones
    BY <1>2 DEF Right
  <2> QED BY <1>1, <1>2, <2>1 DEF SimonInv, SimonRules
<1>3. CASE repeated + 1 = Len(tones) /\ siGame = "text" /\ Len(tones) = SimonMax
  <2>1. repeated' = repeated + 1 /\ siPhase' = "over" /\ tones' = tones /\ siScore' = siScore + 1
    BY <1>1, <1>3 DEF Right
  <2>2. 2 * siScore = Len(tones) * (Len(tones) - 1) + 2 * (Len(tones) - 1)
    BY <1>1, <1>3 DEF SimonInv, SimonRules
  <2>3. 2 * (siScore + 1) = Len(tones) * (Len(tones) - 1) + 2 * Len(tones)
    BY <1>1, <2>2, WholeRound
  <2> QED BY <1>1, <1>3, <2>1, <2>3 DEF SimonInv, SimonRules
<1>4. CASE repeated + 1 = Len(tones) /\ siGame = "text" /\ Len(tones) # SimonMax
  <2>1. PICK b \in Buttons : tones' = Append(tones, b)
    BY <1>1, <1>4 DEF Right, Longer
  <2>2. repeated' = 0 /\ siPhase' = "show" /\ siScore' = siScore + 1
    BY <1>1, <1>4 DEF Right
  <2>3. 2 * siScore = Len(tones) * (Len(tones) - 1) + 2 * (Len(tones) - 1) /\ Len(tones) < SimonMax
    BY <1>1, <1>4 DEF SimonInv, SimonRules
  <2>4. 2 * (siScore + 1) = (Len(tones) + 1) * ((Len(tones) + 1) - 1) + 2 * 0
    BY <1>1, <2>3, WholeRound
  <2>5. tones' \in Seq(Buttons) /\ Len(tones') = Len(tones) + 1 /\ tones' # <<>>
    BY <1>1, <2>1
  <2> QED BY <1>1, <1>4, <2>2, <2>3, <2>4, <2>5 DEF SimonInv, SimonRules
<1>5. CASE repeated + 1 = Len(tones) /\ siGame = "gg"
  <2>1. PICK b \in Buttons : tones' = Longer(b)
    BY <1>1, <1>5 DEF Right
  <2>2. repeated' = 0 /\ siPhase' = "show" /\ siScore' = siScore + 1
    BY <1>1, <1>5 DEF Right
  <2>3. /\ tones' \in Seq(Buttons) /\ tones' # <<>>
        /\ Len(tones') = (IF Len(tones) + 1 >= SimonMax THEN Len(tones) ELSE Len(tones) + 1)
    BY <1>1, <1>5, <2>1 DEF Longer
  <2> QED BY <1>1, <1>5, <2>2, <2>3 DEF SimonInv, SimonRules
<1> QED BY <1>1, <1>2, <1>3, <1>4, <1>5

LEMMA SimonSteps == SimonInv /\ [SimonNext]_simonVars => SimonInv'
<1> SUFFICES ASSUME SimonInv, [SimonNext]_simonVars PROVE SimonInv'
  OBVIOUS
<1>1. CASE \E g \in {"text", "gg"} : SimonStart(g)
  <2>1. PICK g \in {"text", "gg"} : SimonStart(g)
    BY <1>1
  <2>2. PICK b \in Buttons : tones' = <<b>>
    BY <2>1 DEF SimonStart
  <2>3. tones' \in Seq(Buttons) /\ Len(tones') = 1 /\ tones' # <<>>
    BY <2>2
  <2> QED BY <2>1, <2>3, SimonAssumption DEF SimonStart, SimonInv, SimonRules
<1>2. CASE Show
  BY <1>2 DEF Show, SimonInv, SimonRules
<1>3. CASE Wrong
  BY <1>3 DEF Wrong, SimonInv, SimonRules
<1>4. CASE UNCHANGED simonVars
  BY <1>4 DEF simonVars, SimonInv, SimonRules
<1> QED BY <1>1, <1>2, <1>3, <1>4, RightKeeps DEF SimonNext

\* start_simon, gg_simon: however long the game is played, the sequence stays
\* inside its array, and the score is what has been repeated of it.
THEOREM SimonKeepsCount == SimonSpec => []SimonRules
<1>1. SimonInit => SimonInv
  BY DEF SimonInit, SimonInv, SimonRules
<1>2. SimonInv => SimonRules
  BY DEF SimonInv
<1> QED BY <1>1, <1>2, SimonSteps, PTL DEF SimonSpec

-----------------------------------------------------------------------------
(* Minesweeper *)

\* What Reached stands for: the cell itself and with a cell its neighbours of q.
LEMMA ReachedIsClosed ==
  ASSUME NEW q \in SUBSET Cells, NEW c \in q
  PROVE  /\ c \in Reached(q, c) /\ Reached(q, c) \subseteq q
         /\ \A d \in Reached(q, c) : Around[d] \intersect q \subseteq Reached(q, c)
  BY DEF Reached, Closed

LEMMA CellsAreFinite ==
  ASSUME NEW s \in SUBSET Cells
  PROVE  IsFiniteSet(s) /\ Cardinality(s) \in Nat
<1>1. FieldW \in Int /\ FieldH \in Int /\ 1 \in Int
  BY MinesAssumption
<1>2. IsFiniteSet(1 .. FieldW) /\ IsFiniteSet(1 .. FieldH)
  BY <1>1, FS_Interval
<1>3. IsFiniteSet(Cells)
  BY <1>2, FS_Product DEF Cells
<1>4. IsFiniteSet(s)
  BY <1>3, FS_Subset
<1> QED BY <1>4, FS_CardinalityType

LEMMA AroundIn == \A c \in Cells : Around[c] \subseteq Cells
  BY DEF Around

LEMMA NoneAround ==
  ASSUME NEW m \in SUBSET Cells, NEW c \in Cells, Adjacent(m, c) = 0
  PROVE  Around[c] \intersect m = {}
<1>1. IsFiniteSet(Around[c] \intersect m)
  BY AroundIn, CellsAreFinite
<1> QED BY <1>1, FS_EmptySet DEF Adjacent

\* What a flood opens: no mine, no flag of the window's, and all around a cell
\* without mines.
LEMMA FloodOpens ==
  ASSUME NEW m \in SUBSET Cells, NEW o \in SUBSET Cells, NEW c \in o, o \intersect m = {}
  PROVE  /\ Flood(m, o, c) \in SUBSET Cells /\ o \subseteq Flood(m, o, c)
         /\ Flood(m, o, c) \intersect m = {}
         /\ miGame = "window" => (Flood(m, o, c) \ o) \intersect flags = {}
         /\ miGame # "window" =>
              \A x \in (Flood(m, o, c) \ o) \union {c} :
                 Adjacent(m, x) = 0 => Around[x] \subseteq Flood(m, o, c)
<1>1. CASE Adjacent(m, c) # 0
  BY <1>1 DEF Flood
<1>2. CASE Adjacent(m, c) = 0
  <2> DEFINE q == Quiet(m, o, c)
             r == Reached(q, c)
             f == Flood(m, o, c)
  <2>1. q \in SUBSET Cells /\ c \in q /\ \A d \in q : Adjacent(m, d) = 0
    BY <1>2 DEF Quiet
  <2>2. c \in r /\ r \subseteq q /\ \A d \in r : Around[d] \intersect q \subseteq r
    <3> HIDE DEF q
    <3> QED BY <2>1, ReachedIsClosed
  <2>3. f = o \union Opens(o, r)
    BY <1>2 DEF Flood
  <2> HIDE DEF q, r, f
  <2>4. f \in SUBSET Cells /\ o \subseteq f
    BY <2>3 DEF Opens
  <2>5. f \intersect m = {}
    <3>1. SUFFICES ASSUME NEW x \in Opens(o, r), x \in m PROVE FALSE
      BY <2>3
    <3>2. PICK d \in r : x \in Around[d]
      BY DEF Opens
    <3> QED BY <3>1, <3>2, <2>1, <2>2, NoneAround
  <2>6. miGame = "window" => (f \ o) \intersect flags = {}
    BY <2>3 DEF Opens, CanOpen
  <2>7. ASSUME miGame # "window", NEW x \in (f \ o) \union {c}, Adjacent(m, x) = 0
        PROVE  Around[x] \subseteq f
    <3>1. x \in r
      <4>1. CASE x = c
        BY <4>1, <2>2
      <4>2. CASE x # c
        <5>1. x \in Opens(o, r)
          BY <4>2, <2>3
        <5>2. PICK d \in r : x \in Around[d]
          BY <5>1 DEF Opens
        <5>3. x \in q
          BY <5>1, <2>7 DEF Opens, Quiet, q
        <5> QED BY <5>2, <5>3, <2>2
      <4> QED BY <4>1, <4>2
    <3>2. \A y \in Around[x] : y \in o \/ y \in Opens(o, r)
      <4> SUFFICES ASSUME NEW y \in Around[x], y \notin o PROVE y \in Opens(o, r)
        OBVIOUS
      <4>1. y \in Cells /\ CanOpen(o, y)
        BY <3>1, <2>1, <2>2, <2>7, AroundIn DEF CanOpen
      <4> QED BY <3>1, <4>1 DEF Opens
    <3> QED BY <3>2, <2>3
  <2> QED BY <2>4, <2>5, <2>6, <2>7 DEF f
<1> QED BY <1>1, <1>2

\* Nothing is opened before the mines are laid, and in the window no flag is on
\* an open cell.
MinesInv ==
    /\ miGame \in {"none", "text", "gg", "window"} /\ miPhase \in {"play", "won", "lost"}
    /\ mines \in SUBSET Cells /\ opened \in SUBSET Cells /\ flags \in SUBSET Cells
    /\ flagsLeft \in Int
    /\ mines = {} => opened = {}
    /\ miPhase = "play" /\ miGame = "window" => flags \intersect opened = {}
    /\ MinesRules

LEMMA LaidMines ==
  ASSUME MinesInv, NEW c \in Cells, miPhase = "play",
         NEW m \in (IF mines = {} THEN Layouts(c) ELSE {mines})
  PROVE  /\ m \in SUBSET Cells /\ m # {} /\ Cardinality(m) = MineCount
         /\ opened \intersect m = {}
         /\ miGame # "window" =>
              \A x \in opened : Adjacent(m, x) = 0 => Around[x] \subseteq opened
<1>1. CASE mines # {}
  BY <1>1 DEF MinesInv, MinesRules
<1>2. CASE mines = {}
  <2>1. m \in SUBSET Cells /\ Cardinality(m) = MineCount
    BY <1>2 DEF Layouts
  <2>2. m # {}
    BY <2>1, FS_EmptySet, MinesAssumption
  <2> QED BY <1>2, <2>1, <2>2 DEF MinesInv
<1> QED BY <1>1, <1>2

\* All flags of a window that is won are on mines.
LEMMA FlagsLeftRight ==
  ASSUME NEW m \in SUBSET Cells, NEW f \in SUBSET m
  PROVE  Cardinality(m) = Cardinality(f) + Cardinality(m \ f)
<1>1. IsFiniteSet(m) /\ IsFiniteSet(f) /\ IsFiniteSet(m \ f)
  BY CellsAreFinite
<1>2. f \intersect (m \ f) = {} /\ f \union (m \ f) = m
  OBVIOUS
<1>3. Cardinality(f \union (m \ f)) = Cardinality(f) + Cardinality(m \ f) - Cardinality(f \intersect (m \ f))
  BY <1>1, FS_Union
<1>4. Cardinality(f) \in Nat /\ Cardinality(m \ f) \in Nat /\ Cardinality({}) = 0
  BY CellsAreFinite, FS_EmptySet
<1>5. Cardinality(f \intersect (m \ f)) = 0 /\ Cardinality(f \union (m \ f)) = Cardinality(m)
  BY <1>2, <1>4, Zenon
<1> QED BY <1>3, <1>4, <1>5

LEMMA RevealKeeps ==
  ASSUME MinesInv, NEW c \in Cells, Reveal(c)
  PROVE  MinesInv'
<1>1. /\ miGame \in {"text", "gg", "window"} /\ miPhase = "play" /\ c \notin flags /\ miGame' = miGame
      /\ mines \in SUBSET Cells /\ opened \in SUBSET Cells /\ flags \in SUBSET Cells
      /\ flagsLeft \in Int /\ flagsLeft = MineCount - Cardinality(flags)
  BY DEF MinesInv, MinesRules, Reveal
<1>2. PICK m \in (IF mines = {} THEN Layouts(c) ELSE {mines}) :
         /\ mines' = m
         /\ IF c \in m
            THEN /\ miPhase' = "lost"
                 /\ opened' = opened \union m
                 /\ flags' = IF miGame = "window" THEN flags \ m ELSE flags
                 /\ UNCHANGED flagsLeft
            ELSE LET o == Flood(m, opened \union {c}, c)
                     won == Cells \ m \subseteq o IN
                 /\ opened' = o
                 /\ miPhase' = IF won THEN "won" ELSE "play"
                 /\ IF won /\ miGame = "window"
                    THEN flags' = m /\ flagsLeft' = flagsLeft - Cardinality(m \ flags)
                    ELSE UNCHANGED <<flags, flagsLeft>>
  BY DEF Reveal
<1>3. /\ m \in SUBSET Cells /\ m # {} /\ Cardinality(m) = MineCount
      /\ opened \intersect m = {}
      /\ miGame # "window" =>
           \A x \in opened : Adjacent(m, x) = 0 => Around[x] \subseteq opened
  BY <1>1, LaidMines
<1>4. CASE c \in m
  <2>1. /\ miPhase' = "lost" /\ mines' = m /\ opened' = opened \union m /\ flags' \in SUBSET Cells
        /\ flagsLeft' = flagsLeft
    BY <1>1, <1>2, <1>4
  <2> QED BY <1>1, <1>3, <1>4, <2>1 DEF MinesInv, MinesRules
<1>5. CASE c \notin m
  <2> DEFINE p == opened \union {c}
             o == Flood(m, p, c)
             won == Cells \ m \subseteq o
  <2>1. /\ mines' = m /\ opened' = o /\ miPhase' = (IF won THEN "won" ELSE "play")
        /\ IF won /\ miGame = "window"
           THEN flags' = m /\ flagsLeft' = flagsLeft - Cardinality(m \ flags)
           ELSE UNCHANGED <<flags, flagsLeft>>
    BY <1>2, <1>5
  <2>2. p \in SUBSET Cells /\ c \in p /\ p \intersect m = {}
    BY <1>1, <1>3, <1>5
  <2> HIDE DEF p
  <2>3. /\ o \in SUBSET Cells /\ p \subseteq o /\ o \intersect m = {}
        /\ miGame = "window" => (o \ p) \intersect flags = {}
        /\ miGame # "window" =>
              \A x \in (o \ p) \union {c} : Adjacent(m, x) = 0 => Around[x] \subseteq o
    BY <1>3, <2>2, FloodOpens
  <2> HIDE DEF o
  <2>4. miGame # "window" => \A x \in o : Adjacent(m, x) = 0 => Around[x] \subseteq o
    BY <1>3, <2>3 DEF p
  <2>5. miGame = "window" => flags \intersect o = {}
    BY <1>1, <2>3 DEF p, MinesInv
  <2>6. flags' \in SUBSET Cells /\ flagsLeft' \in Int /\ flagsLeft' = MineCount - Cardinality(flags')
    <3>1. CASE won /\ miGame = "window"
      <4>1. flags \in SUBSET m
        BY <1>1, <2>5, <3>1
      <4>2. Cardinality(m) = Cardinality(flags) + Cardinality(m \ flags)
        BY <1>3, <4>1, FlagsLeftRight
      <4>3. Cardinality(m \ flags) \in Nat /\ Cardinality(flags) \in Nat
        BY <1>1, <1>3, CellsAreFinite
      <4>4. flags' = m /\ flagsLeft' = flagsLeft - Cardinality(m \ flags)
        BY <2>1, <3>1
      <4>5. flagsLeft' = Cardinality(m) - Cardinality(flags) - Cardinality(m \ flags) /\ MineCount = Cardinality(m)
        BY <1>1, <1>3, <4>4
      <4> HIDE DEF won
      <4>6. Cardinality(m) \in Nat
        BY <1>3, CellsAreFinite
      <4>7. flagsLeft' = 0 /\ MineCount - Cardinality(m) = 0
        BY <4>2, <4>3, <4>5, <4>6
      <4> QED BY <1>3, <4>4, <4>7
    <3>2. CASE ~(won /\ miGame = "window")
      BY <1>1, <2>1, <3>2
    <3> QED BY <3>1, <3>2
  <2>7. miPhase' \in {"play", "won"} /\ (miPhase' = "won" <=> Cells \ m \subseteq o) /\ c \in o
    BY <2>1, <2>2, <2>3
  <2>8. MinesRules'
    BY <1>1, <1>3, <2>1, <2>3, <2>4, <2>6, <2>7 DEF MinesRules, Adjacent
  <2>9. miPhase' = "play" /\ miGame' = "window" => flags' \intersect opened' = {}
    BY <1>1, <2>1, <2>5
  <2> QED BY <1>1, <1>3, <2>1, <2>3, <2>6, <2>7, <2>8, <2>9 DEF MinesInv
<1> QED BY <1>4, <1>5

LEMMA FlagKeeps ==
  ASSUME MinesInv, NEW c \in Cells, Flag(c)
  PROVE  MinesInv'
<1>1. /\ flags \in SUBSET Cells /\ flagsLeft \in Int /\ flagsLeft = MineCount - Cardinality(flags)
      /\ miPhase = "play" /\ c \notin opened /\ UNCHANGED <<miGame, miPhase, mines, opened>>
  BY DEF MinesInv, MinesRules, Flag
<1>2. IsFiniteSet(flags) /\ Cardinality(flags) \in Nat /\ MineCount \in Nat
  BY <1>1, CellsAreFinite, MinesAssumption
<1>3. /\ flags' \in SUBSET Cells /\ flagsLeft' \in Int /\ flagsLeft' = MineCount - Cardinality(flags')
      /\ flags' \subseteq flags \union {c}
  <2>1. CASE c \notin flags
    <3>1. flags' = flags \union {c} /\ flagsLeft' = flagsLeft - 1
      BY <2>1 DEF Flag
    <3>2. Cardinality(flags \union {c}) = Cardinality(flags) + 1
      BY <1>2, <2>1, FS_AddElement
    <3> QED BY <1>1, <1>2, <3>1, <3>2
  <2>2. CASE c \in flags
    <3>1. flags' = flags \ {c} /\ flagsLeft' = flagsLeft + 1
      BY <2>2 DEF Flag
    <3>2. Cardinality(flags \ {c}) = Cardinality(flags) - 1
      BY <1>2, <2>2, FS_RemoveElement
    <3> QED BY <1>1, <1>2, <3>1, <3>2
  <2> QED BY <2>1, <2>2
<1>4. MinesRules'
  BY <1>1, <1>3 DEF MinesInv, MinesRules, Adjacent
<1> QED BY <1>1, <1>3, <1>4 DEF MinesInv

LEMMA MinesStarts ==
  /\ MinesInit => MinesInv
  /\ \A g \in {"text", "gg", "window"} : MinesStart(g) => MinesInv'
<1>1. Cardinality({}) = 0 /\ MineCount \in Nat \ {0} /\ Cells # {}
  <2>1. <<1, 1>> \in Cells
    BY MinesAssumption DEF Cells
  <2> QED BY <2>1, FS_EmptySet, MinesAssumption
<1>2. MinesInit => MinesInv
  BY <1>1 DEF MinesInit, MinesInv, MinesRules
<1>3. ASSUME NEW g \in {"text", "gg", "window"}, MinesStart(g) PROVE MinesInv'
  BY <1>1, <1>3 DEF MinesStart, MinesInv, MinesRules
<1> QED BY <1>2, <1>3

\* The three minesweepers, on every field and with any number of mines: the
\* first cell is never a mine, no number is missing in an open area, the game
\* is won just when all other cells are open, and the count of flags is right.
THEOREM FieldStaysRight == MinesSpec => []MinesRules
<1>1. MinesInv /\ [MinesNext]_minesVars => MinesInv'
  <2>1. MinesInv /\ UNCHANGED minesVars => MinesInv'
    BY DEF minesVars, MinesInv, MinesRules, Adjacent
  <2> QED BY <2>1, MinesStarts, RevealKeeps, FlagKeeps DEF MinesNext
<1>2. MinesInv => MinesRules
  BY DEF MinesInv
<1> QED BY <1>1, <1>2, MinesStarts, PTL DEF MinesSpec

-----------------------------------------------------------------------------
(* Hnefatafl *)

Sides == {"att", "def"}

\* Every square holds one piece at most, there is no second king, and no
\* soldier stands on the throne or in a corner.
GoodBoard(b) ==
    /\ b \in [att : SUBSET Squares, def : SUBSET Squares, king : SUBSET Squares]
    /\ b.att \intersect b.def = {} /\ b.att \intersect b.king = {} /\ b.def \intersect b.king = {}
    /\ \A k, l \in b.king : k = l
    /\ \A c \in b.att \union b.def : ~Restricted(c)

Accounted ==
    /\ lostAtt \in Int /\ lostAtt + Cardinality(board.att) = Cardinality(AttackersAt)
    /\ lostDef \in Int /\ lostDef + Cardinality(board.def) = Cardinality(DefendersAt)

\* The person to move: what the clicks are compared with, and what they chose.
InPlay ==
    hnPhase = "play" =>
      /\ turn = human /\ legal = GenMoves(board, turn) /\ legal # {}
      /\ selected \subseteq Own(board, human) /\ board.king # {}

HnInv ==
    /\ hnPhase \in {"choose", "play", "over"} /\ human \in Sides /\ turn \in Sides
    /\ winner \in {"none"} \union Sides
    /\ (winner # "none") = (hnPhase = "over")
    /\ board.king = {} => winner = "att"
    /\ hnPhase = "choose" => board = InitialBoard /\ turn = "att" /\ selected = {}
    /\ GoodBoard(board) /\ Accounted /\ InPlay

LEMMA SquaresAreFinite ==
  ASSUME NEW s \in SUBSET Squares
  PROVE  IsFiniteSet(s) /\ Cardinality(s) \in Nat
<1>1. HnSize - 1 \in Int /\ 0 \in Int
  BY HnefataflAssumption
<1>2. IsFiniteSet(0 .. HnSize - 1)
  BY <1>1, FS_Interval
<1>3. IsFiniteSet(Squares)
  BY <1>2, FS_Product DEF Squares
<1>4. IsFiniteSet(s)
  BY <1>3, FS_Subset
<1> QED BY <1>4, FS_CardinalityType

LEMMA StartsGood == GoodBoard(InitialBoard)
<1>1. Throne \in Squares /\ Restricted(Throne)
  BY HnefataflAssumption DEF Throne, Squares, Restricted
<1>2. AttackersAt \in SUBSET Squares /\ DefendersAt \in SUBSET Squares
  BY HnefataflAssumption DEF Squares
<1> QED BY <1>1, <1>2, HnefataflAssumption, FairStart DEF GoodBoard, InitialBoard

\* A move goes from an own piece to an empty square, which a soldier may enter.
LEMMA MovesAre ==
  ASSUME NEW b, NEW s \in Sides, NEW m \in GenMoves(b, s)
  PROVE  m[1] \in Own(b, s) /\ Clear(b, m[1], m[2])
<1>1. PICK c \in Own(b, s) : m \in MovesOf(b, c)
  BY DEF GenMoves
<1>2. PICK r \in HnDirs \X (1 .. (HnSize - 1)) :
        /\ \A k \in 1 .. r[2] : Clear(b, c, Far(c, r[1], k))
        /\ m = <<c, Far(c, r[1], r[2])>>
  BY <1>1 DEF MovesOf
<1>3. r[2] \in 1 .. r[2]
  BY <1>2
<1> QED BY <1>2, <1>3

LEMMA ApplyKeeps ==
  ASSUME NEW b, GoodBoard(b), NEW s \in Sides, NEW m \in GenMoves(b, s)
  PROVE  GoodBoard(Apply(b, m))
<1> DEFINE a == Arrived(b, m)
<1>1. /\ m[1] \in Own(b, s) /\ m[2] \in Squares /\ m[2] \notin Occupied(b)
      /\ (m[1] \in b.king \/ ~Restricted(m[2]))
  BY MovesAre DEF Clear
<1>2. GoodBoard(a)
  <2> DEFINE at(x) == IF m[1] \in x THEN (x \ {m[1]}) \union {m[2]} ELSE x
  <2>1. a = [att |-> at(b.att), def |-> at(b.def), king |-> at(b.king)]
    BY DEF Arrived
  <2>2. /\ b.att \in SUBSET Squares /\ b.def \in SUBSET Squares /\ b.king \in SUBSET Squares
        /\ b.att \intersect b.def = {} /\ b.att \intersect b.king = {} /\ b.def \intersect b.king = {}
        /\ \A k, l \in b.king : k = l
        /\ \A c \in b.att \union b.def : ~Restricted(c)
        /\ m[2] \notin b.att /\ m[2] \notin b.def /\ m[2] \notin b.king
    BY <1>1 DEF GoodBoard, Occupied
  <2>3. at(b.att) \in SUBSET Squares /\ at(b.def) \in SUBSET Squares /\ at(b.king) \in SUBSET Squares
    BY <1>1, <2>2
  <2>4. at(b.att) \intersect at(b.def) = {} /\ at(b.att) \intersect at(b.king) = {}
        /\ at(b.def) \intersect at(b.king) = {}
    BY <2>2
  <2>5. \A k, l \in at(b.king) : k = l
    BY <2>2
  <2>6. \A c \in at(b.att) \union at(b.def) : ~Restricted(c)
    BY <1>1, <2>2
  <2> HIDE DEF at
  <2> QED BY <2>1, <2>3, <2>4, <2>5, <2>6 DEF GoodBoard
<1> HIDE DEF a
<1>3. CASE m[1] \in b.att
  <2> DEFINE d == a.def \ Custodian(a, m[2], "att", a.def)
             c == [a EXCEPT !.def = d]
             k == a.king \ Encircled(c)
  <2>1. Apply(b, m) = [c EXCEPT !.king = @ \ Encircled(c)]
    BY <1>3 DEF Apply, a
  <2>2. c = [att |-> a.att, def |-> d, king |-> a.king]
    BY <1>2 DEF GoodBoard
  <2>3. d \in SUBSET a.def /\ k \in SUBSET a.king
    OBVIOUS
  <2>4. Apply(b, m) = [att |-> a.att, def |-> d, king |-> k]
    <3> HIDE DEF d
    <3> QED BY <2>1, <2>2
  <2> HIDE DEF d, c, k
  <2> QED BY <1>2, <2>3, <2>4 DEF GoodBoard
<1>4. CASE m[1] \notin b.att
  <2> DEFINE d == a.att \ Custodian(a, m[2], "def", a.att)
  <2>1. Apply(b, m) = [a EXCEPT !.att = d]
    BY <1>4 DEF Apply, a
  <2>2. d \in SUBSET a.att
    OBVIOUS
  <2> HIDE DEF d
  <2>3. Apply(b, m) = [att |-> d, def |-> a.def, king |-> a.king]
    BY <1>2, <2>1 DEF GoodBoard
  <2> QED BY <1>2, <2>2, <2>3 DEF GoodBoard
<1> QED BY <1>3, <1>4

LEMMA WinnersAre ==
  ASSUME NEW b, NEW s \in Sides
  PROVE  /\ WinnerOf(b, s) \in {"none"} \union Sides
         /\ b.king = {} => WinnerOf(b, s) = "att"
         /\ WinnerOf(b, s) = "none" => b.king # {} /\ GenMoves(b, s) # {}
  BY DEF WinnerOf, Sides, Other

\* A move of the side that is first, or with the answer of the other.
LEMMA PlayedKeeps ==
  ASSUME HnInv, NEW first \in Sides, NEW ms, Len(ms) \in {1, 2},
         ms[1] \in GenMoves(board, first),
         Len(ms) = 2 => ms[2] \in GenMoves(Apply(board, ms[1]), Other(first)),
         Played(ms, first), human' \in Sides,
         human' = (IF Len(ms) = 2 THEN first ELSE Other(first))
           \/ WinnerOf(Apply(board, ms[1]), Other(first)) # "none"
  PROVE  HnInv'
<1> DEFINE b1 == Apply(board, ms[1])
           w1 == WinnerOf(b1, Other(first))
           answered == w1 = "none" /\ Len(ms) = 2
           b2 == Apply(b1, ms[2])
           b == IF answered THEN b2 ELSE b1
           t == IF answered THEN first ELSE Other(first)
           w == IF answered THEN WinnerOf(b, t) ELSE w1
<1>1. /\ board' = b /\ turn' = t /\ winner' = w
      /\ hnPhase' = (IF w = "none" THEN "play" ELSE "over")
      /\ legal' = (IF w1 # "none" THEN legal ELSE GenMoves(b, t))
      /\ lostAtt' = lostAtt + (Cardinality(board.att) - Cardinality(b.att))
      /\ lostDef' = lostDef + (Cardinality(board.def) - Cardinality(b.def))
      /\ selected' = {}
  BY DEF Played, Refreshed
<1>2. Other(first) \in Sides /\ GoodBoard(board) /\ Accounted
  BY DEF Other, Sides, HnInv
<1>3. GoodBoard(b1)
  BY <1>2, ApplyKeeps
<1>4. GoodBoard(b) /\ t \in Sides
  <2>1. CASE answered
    <3>1. ms[2] \in GenMoves(b1, Other(first))
      BY <2>1
    <3> HIDE DEF b1
    <3>2. GoodBoard(b2)
      BY <1>2, <1>3, <3>1, ApplyKeeps
    <3> QED BY <2>1, <3>2
  <2>2. CASE ~answered
    BY <1>2, <1>3, <2>2
  <2> QED BY <2>1, <2>2
<1>5. w = WinnerOf(b, t)
  OBVIOUS
<1>6. w = "none" => w1 = "none" /\ human' = t
  OBVIOUS
<1> HIDE DEF b, t, w, w1
<1>7. /\ w \in {"none"} \union Sides /\ (b.king = {} => w = "att")
      /\ (w = "none" => b.king # {} /\ GenMoves(b, t) # {})
  BY <1>4, <1>5, WinnersAre
<1>8. Accounted'
  <2>1. /\ board.att \in SUBSET Squares /\ board.def \in SUBSET Squares
        /\ b.att \in SUBSET Squares /\ b.def \in SUBSET Squares
    BY <1>2, <1>4 DEF GoodBoard
  <2>2. /\ Cardinality(board.att) \in Nat /\ Cardinality(board.def) \in Nat
        /\ Cardinality(b.att) \in Nat /\ Cardinality(b.def) \in Nat
    BY <2>1, SquaresAreFinite
  <2> QED BY <1>1, <1>2, <2>2 DEF Accounted
<1>9. InPlay'
  BY <1>1, <1>6, <1>7 DEF InPlay
<1>10. GoodBoard(board)'
  BY <1>1, <1>4 DEF GoodBoard, Restricted, Corner, Throne, Squares
<1> QED BY <1>1, <1>4, <1>7, <1>8, <1>9, <1>10 DEF HnInv

LEMMA StartGameKeeps ==
  ASSUME HnInv, NEW side \in Sides, StartGame(side)
  PROVE  HnInv'
<1>1. /\ board = InitialBoard /\ turn = "att" /\ hnPhase = "choose" /\ human' = side
      /\ board.king # {} /\ selected = {}
  BY DEF HnInv, StartGame, InitialBoard
<1>2. CASE side = "att"
  <2>1. /\ hnPhase' = "play" /\ legal' = GenMoves(board, "att")
        /\ UNCHANGED <<turn, board, selected, lostAtt, lostDef, winner, plies>>
    BY <1>2 DEF StartGame
  <2>2. InPlay'
    BY <1>1, <1>2, <2>1, FairStart DEF InPlay
  <2>3. Accounted' /\ GoodBoard(board)'
    BY <2>1 DEF HnInv, Accounted, GoodBoard
  <2> QED BY <1>1, <1>2, <2>1, <2>2, <2>3 DEF HnInv
<1>3. CASE side = "def"
  <2>1. PICK m \in GenMoves(board, "att") : Played(<<m>>, "att")
    BY <1>3 DEF StartGame
  <2> QED BY <1>1, <1>3, <2>1, PlayedKeeps DEF Sides, Other
<1> QED BY <1>2, <1>3 DEF Sides

LEMMA TargetKeeps ==
  ASSUME HnInv, NEW c \in Squares, ClickTarget(c)
  PROVE  HnInv'
<1>1. /\ human \in Sides /\ hnPhase = "play" /\ turn = human /\ human' = human
      /\ legal = GenMoves(board, human)
  BY DEF HnInv, InPlay, ClickTarget
<1>2. PICK f \in selected :
        /\ <<f, c>> \in legal
        /\ LET b == Apply(board, <<f, c>>) IN
           IF WinnerOf(b, Other(human)) # "none" THEN Played(<<<<f, c>>>>, human)
           ELSE \E m \in GenMoves(b, Other(human)) : Played(<<<<f, c>>, m>>, human)
  BY DEF ClickTarget
<1> DEFINE b == Apply(board, <<f, c>>)
           o == Other(human)
<1>3. CASE WinnerOf(b, o) # "none"
  <2>1. Played(<<<<f, c>>>>, human)
    BY <1>2, <1>3
  <2> DEFINE ms == <<<<f, c>>>>
  <2>2. Len(ms) = 1 /\ ms[1] = <<f, c>>
    OBVIOUS
  <2> HIDE DEF ms
  <2> QED BY <1>1, <1>2, <1>3, <2>1, <2>2, PlayedKeeps DEF ms
<1>4. CASE WinnerOf(b, o) = "none"
  <2>1. PICK m \in GenMoves(b, o) : Played(<<<<f, c>>, m>>, human)
    BY <1>2, <1>4
  <2> DEFINE ms == <<<<f, c>>, m>>
  <2>2. Len(ms) = 2 /\ ms[1] = <<f, c>> /\ ms[2] = m
    OBVIOUS
  <2> HIDE DEF ms
  <2> QED BY <1>1, <1>2, <1>4, <2>1, <2>2, PlayedKeeps DEF ms
<1> QED BY <1>3, <1>4

LEMMA ChoiceKeeps ==
  /\ HnInit => HnInv
  /\ ToChoice => HnInv'
<1>1. InitialBoard.king # {} /\ InitialBoard.att = AttackersAt /\ InitialBoard.def = DefendersAt
  BY DEF InitialBoard
<1>2. AttackersAt \in SUBSET Squares /\ DefendersAt \in SUBSET Squares
  BY HnefataflAssumption DEF Squares
<1>3. Cardinality(AttackersAt) \in Nat /\ Cardinality(DefendersAt) \in Nat
  BY <1>2, SquaresAreFinite
<1>4. HnInit => HnInv
  BY <1>1, <1>3, StartsGood DEF HnInit, HnInv, Accounted, InPlay, Sides
<1>5. ASSUME ToChoice PROVE HnInv'
  <2>1. GoodBoard(board)'
    BY <1>5, StartsGood DEF ToChoice, GoodBoard, InitialBoard, Throne, Restricted, Corner, Squares
  <2> QED BY <1>1, <1>3, <1>5, <2>1 DEF ToChoice, HnInv, Accounted, InPlay, Sides, InitialBoard, Throne
<1> QED BY <1>4, <1>5

LEMMA HnSteps == HnInv /\ [HnNext]_hnVars => HnInv'
<1> SUFFICES ASSUME HnInv, [HnNext]_hnVars PROVE HnInv'
  OBVIOUS
<1>1. CASE \E c \in Squares : ClickOwn(c)
  <2>1. PICK c \in Squares : ClickOwn(c)
    BY <1>1
  <2> QED BY <2>1 DEF ClickOwn, HnInv, InPlay, Accounted
<1>2. CASE ClickElsewhere
  BY <1>2 DEF ClickElsewhere, HnInv, InPlay, Accounted
<1>3. CASE UNCHANGED hnVars
  BY <1>3 DEF hnVars, HnInv, InPlay, Accounted
<1> QED BY <1>1, <1>2, <1>3, StartGameKeeps, TargetKeeps, ChoiceKeeps DEF HnNext, Sides

\* hn_apply, play_move, refresh_legal: on boards of every size, the window's list
\* of moves is that of the board shown, no soldier is on a square it may not
\* enter, and every lost one is counted.
THEOREM BoardStaysKept == HnSpec => []BoardKept
<1>1. HnInv => BoardKept
  <2> SUFFICES ASSUME HnInv PROVE BoardKept
    OBVIOUS
  <2>1. ASSUME hnPhase = "play" PROVE Cardinality(board.king) = 1
    <3>1. PICK k \in board.king : TRUE
      BY <2>1 DEF HnInv, InPlay
    <3>2. board.king = {k}
      BY <3>1 DEF HnInv, GoodBoard
    <3> QED BY <3>2, FS_Singleton
  <2> QED BY <2>1 DEF HnInv, InPlay, GoodBoard, Accounted, BoardKept
<1> QED BY <1>1, HnSteps, ChoiceKeeps, PTL DEF HnSpec

=============================================================================
