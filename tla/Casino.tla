------------------------------- MODULE Casino -------------------------------
(***************************************************************************)
(* The casino of kernel/kernel.c: text games (start_roulette and others),  *)
(* graphical games (cg_slots, ...) and the poker window share a balance.    *)
(*                                                                         *)
(* A game copies the balance when it starts and writes it back when it     *)
(* ends; it blocks the main loop meanwhile.  The poker window stays open   *)
(* and changes the balance at once.  The balance goes to disk with the     *)
(* files, the record and the high scores do not.  A hand of blackjack is   *)
(* its hard total and whether it holds an ace.                             *)
(***************************************************************************)
EXTENDS Integers, FiniteSets

CONSTANTS
    StartBalance,   \* casino_balance and casino_best at boot
    Step,           \* a press of H or J changes a graphical bet by so much
    OpeningBet,     \* the bet a graphical game opens with
    Gift,           \* lobby key 5, and what a bankrupt graphical player gets
    PokerBets,      \* BET_LEVELS
    Cards,          \* card values, an ace is 1
    Odds,           \* what a bet of roulette may pay: 1, 2, 35
    Factors,        \* what slots (sl_pay3), plinko and poker may pay
    MaxMoney        \* bound: nobody bets or is given more beyond it

ASSUME CasinoAssumption ==
    /\ {StartBalance, Step, OpeningBet, Gift, MaxMoney} \subseteq Nat \ {0}
    /\ PokerBets \subseteq Nat \ {0} /\ Cards \subseteq 1 .. 10
    /\ Odds \subseteq Nat \ {0} /\ Factors \subseteq Nat \ {0}

VARIABLES
    balance, best,   \* casino_balance, casino_best
    hiscore,         \* the highest of the casino's entries of hs_scores
    saved,           \* the balance in the header on disk
    game, phase,     \* the game that runs and what it waits for
    bal, top, bet,   \* its locals: balance, best, mise or bet
    player, dealer,  \* its hands
    reels,           \* the last round of slots on the screen
    pokerBet,        \* the stake taken by the poker window, 0: betting
    fair,            \* history: the balance by the rules of the games
    booted           \* history: the balance came from disk

money == <<balance, best, hiscore, saved>>
table == <<game, phase, bal, top, bet, player, dealer, reels>>
casinoVars == <<money, table, pokerBet, fair, booted>>

TextGames    == {"roulette", "blackjack", "slots", "plinko"}
GraphicGames == {"cg_roulette", "cg_blackjack", "cg_slots"}
NoReels      == [alike |-> 0, gain |-> 0]
NoHand       == [hard |-> 0, ace |-> FALSE, many |-> FALSE]
Larger(a, b) == IF a > b THEN a ELSE b

\* hs_update, which cg_roulette does not call.
Scored(n) == IF game = "cg_roulette" THEN hiscore ELSE Larger(hiscore, n)

CasinoInit ==
    /\ balance = StartBalance /\ best = StartBalance
    /\ hiscore = 0 /\ saved = StartBalance
    /\ game = "none" /\ phase = "none" /\ bal = 0 /\ top = 0 /\ bet = 0
    /\ player = NoHand /\ dealer = NoHand /\ reels = NoReels
    /\ pokerBet = 0 /\ fair = StartBalance /\ booted = FALSE

-----------------------------------------------------------------------------
(* entering and leaving a game *)

\* The bet each game opens with.
FirstBet(g) ==
    CASE g \in GraphicGames -> IF OpeningBet <= balance THEN OpeningBet
                               ELSE IF g = "cg_blackjack" /\ balance < Step THEN Step
                               ELSE balance
      [] g = "plinko" -> IF balance = 0 THEN 1
                         ELSE IF Step > balance THEN balance ELSE Step
      [] g = "slots" -> Step
      [] OTHER -> 0

Enter(g) ==
    /\ game = "none"
    /\ game' = g /\ phase' = "bet"
    /\ bal' = balance /\ top' = best /\ bet' = FirstBet(g)
    /\ UNCHANGED <<money, player, dealer, pokerBet, fair, booted, reels>>

\* The end of a text game: it keeps a record of its own.
TextBest == Larger(best, top)
\* The end of a graphical game.
GraphicBest == Larger(best, bal)

\* The stake a graphical game has taken for the hand being played.
Taken == IF game = "cg_blackjack" /\ phase \notin {"bet", "over"} THEN bet ELSE 0

\* Leaving with ESC, also in a hand: a stake that was taken is lost.  A text
\* game ends by itself when nothing is left.
Leave ==
    /\ phase \in {"bet", "play", "over"}
    /\ fair' = fair - Taken
    /\ balance' = bal
    /\ best' = IF game \in TextGames THEN TextBest ELSE GraphicBest
    /\ hiscore' = Scored(best')
    /\ game' = "none" /\ phase' = "none" /\ bal' = 0 /\ top' = 0 /\ bet' = 0
    /\ player' = NoHand /\ dealer' = NoHand /\ reels' = NoReels
    /\ UNCHANGED <<saved, pokerBet, booted>>

\* What a round does to a text game: the stake is never taken beforehand.
Pay(gain) ==
    /\ bal' = IF bal + gain < 0 THEN 0 ELSE bal + gain
    /\ top' = Larger(top, bal')
    /\ hiscore' = Scored(top')

\* Slots and plinko write every round back.
PayAndKeep(gain) ==
    /\ Pay(gain)
    /\ balance' = bal' /\ best' = Larger(best, top')

-----------------------------------------------------------------------------
(* roulette *)

\* rl_read_mise, bj_read_mise: what may be staked.
Stakes == 1 .. bal

\* start_roulette
Roulette ==
    /\ game = "roulette" /\ bal \in 1 .. MaxMoney
    /\ \E mise \in Stakes, odds \in Odds, won \in BOOLEAN :
         LET gain == IF won THEN mise * odds ELSE -mise IN
         Pay(gain) /\ fair' = fair + gain
    /\ UNCHANGED <<balance, best, saved, game, phase, bet, player, dealer,
                   pokerBet, booted, reels>>

\* cg_roulette takes the stake first and pays it back with the gain.
CgPayout(odds) == bet * (odds + 1)

CgRoulette ==
    /\ game = "cg_roulette" /\ phase = "bet"
    /\ bet \in 1 .. bal /\ bal <= MaxMoney
    /\ \E odds \in Odds, won \in BOOLEAN :
         /\ bal' = bal - bet + (IF won THEN CgPayout(odds) ELSE 0)
         /\ fair' = fair + (IF won THEN bet * odds ELSE -bet)
    /\ phase' = "over"
    /\ UNCHANGED <<money, game, top, bet, player, dealer, pokerBet, booted, reels>>

-----------------------------------------------------------------------------
(* slots and plinko *)

\* Three alike pay a multiple; of two alike the code adds the stake, which it
\* never took.
SlotGain(mise, alike, pay) ==
    CASE alike = 3 -> mise * pay
      [] alike = 2 -> mise
      [] OTHER     -> -mise

\* start_slots: a stake above the balance is lowered, before and after.
Slots ==
    /\ game = "slots" /\ bal \in 1 .. MaxMoney
    /\ \E alike \in 1 .. 3, pay \in Factors :
         LET mise == IF bet > bal THEN bal ELSE bet
             gain == SlotGain(mise, alike, pay) IN
         /\ PayAndKeep(gain) /\ fair' = fair + gain
         /\ bet' = IF bal' # 0 /\ mise > bal' THEN bal' ELSE mise
         /\ reels' = [alike |-> alike, gain |-> gain]
    /\ UNCHANGED <<saved, game, phase, player, dealer, pokerBet, booted>>

CgSlots ==
    /\ game = "cg_slots" /\ bet \in 1 .. bal /\ bal <= MaxMoney
    /\ \E times \in {0} \union Factors :
         /\ bal' = bal - bet + bet * times
         /\ fair' = fair + bet * (times - 1)
    /\ UNCHANGED <<money, game, phase, top, bet, player, dealer, pokerBet, booted, reels>>

\* pl_mult: a slot of factor 0 loses the stake.
Plinko ==
    /\ game = "plinko" /\ bal \in 1 .. MaxMoney
    /\ \E times \in {0} \union Factors :
         LET gain == IF times > 0 THEN bet * times ELSE -bet IN
         PayAndKeep(gain) /\ fair' = fair + gain
    /\ bet' = IF bal' # 0 /\ bet > bal' THEN bal' ELSE bet
    /\ UNCHANGED <<saved, game, phase, player, dealer, pokerBet, booted, reels>>

\* The keys that change a bet before a round.
TextRaise == LET up == bet + Step IN IF up > bal THEN bal ELSE up
TextLower == IF bet - Step < 1 THEN 1 ELSE bet - Step

ChangeBet ==
    /\ phase = "bet"
    /\ \/ game \in {"slots", "plinko"} /\ bal > 0 /\ bet' \in {TextRaise, TextLower}
       \/ game \in GraphicGames /\ bet > Step /\ bet' = bet - Step
       \/ game \in GraphicGames /\ bet + Step <= bal /\ bet' = bet + Step
    /\ UNCHANGED <<money, game, phase, bal, top, player, dealer, pokerBet, fair,
                   booted, reels>>

-----------------------------------------------------------------------------
(* blackjack *)

\* bj_hand_val, cg_hval: aces count 11 and are lowered while the hand is bust.
Value(h) == IF h.ace /\ h.hard + 10 <= 21 THEN h.hard + 10 ELSE h.hard

With(h, c) == [hard |-> h.hard + c, ace |-> h.ace \/ c = 1, many |-> h.hard # 0]

TwoCards == {With(With(NoHand, c), d) : c, d \in Cards}
Pair(h)  == [h EXCEPT !.many = FALSE]

\* The stake of a hand that has begun: a graphical game has taken it.
Stake(b) == IF game = "cg_blackjack" THEN bal' = bal - b ELSE bal' = bal

Deal ==
    /\ game \in {"blackjack", "cg_blackjack"} /\ phase = "bet"
    /\ bal \in 1 .. MaxMoney
    /\ \E b \in (IF game = "blackjack" THEN Stakes ELSE {bet}) :
         b <= bal /\ bet' = b /\ Stake(b)
    /\ \E p, d \in TwoCards :
         /\ player' = Pair(p) /\ dealer' = Pair(d)
         /\ phase' = IF Value(p) = 21 THEN "natural" ELSE "play"
    /\ UNCHANGED <<money, game, top, pokerBet, fair, booted, reels>>

Hit ==
    /\ game \in {"blackjack", "cg_blackjack"} /\ phase = "play"
    /\ \E c \in Cards : player' = With(player, c)
    /\ phase' = IF Value(player') > 21 THEN "over21"
                ELSE IF Value(player') = 21 /\ game = "blackjack" THEN "dealer"
                ELSE "play"
    /\ UNCHANGED <<money, game, bal, top, bet, dealer, pokerBet, fair, booted, reels>>

Stand ==
    /\ game \in {"blackjack", "cg_blackjack"} /\ phase = "play"
    /\ phase' = "dealer"
    /\ UNCHANGED <<money, game, bal, top, bet, player, dealer, pokerBet, fair,
                   booted, reels>>

\* Mutant of CanDouble: what the hand has already staked is forgotten.
CanDoubleOnce == bet <= bal
CanDouble == IF game = "blackjack" THEN bet * 2 <= bal ELSE bet <= bal

Double ==
    /\ game \in {"blackjack", "cg_blackjack"} /\ phase = "play"
    /\ ~player.many /\ CanDouble
    /\ \E c \in Cards : player' = With(player, c)
    /\ bet' = bet * 2
    /\ IF game = "cg_blackjack" THEN bal' = bal - bet ELSE bal' = bal
    /\ phase' = IF Value(player') > 21 THEN "over21" ELSE "dealer"
    /\ UNCHANGED <<money, game, top, dealer, pokerBet, fair, booted, reels>>

DealerDraws ==
    /\ phase = "dealer" /\ Value(dealer) < 17
    /\ \E c \in Cards : dealer' = With(dealer, c)
    /\ UNCHANGED <<money, game, phase, bal, top, bet, player, pokerBet, fair, booted, reels>>

\* What a hand wins, in multiples of half the stake.
Result ==
    CASE phase = "natural" -> IF Value(dealer) = 21 THEN 0 ELSE 3
      [] phase = "over21"  -> -2
      [] OTHER -> IF Value(dealer) > 21 \/ Value(player) > Value(dealer) THEN 2
                  ELSE IF Value(player) = Value(dealer) THEN 0
                  ELSE -2

\* cg_blackjack gives the stake back with the gain: bet+bet+bet/2 for a
\* natural, bet*2 for a hand that wins, bet for a push.
CgReturn == CASE Result = 3 -> bet + bet + bet \div 2
              [] Result = 2 -> bet * 2
              [] Result = 0 -> bet
              [] OTHER      -> 0

\* start_blackjack adds or subtracts the bet, (mise*3)/2 for a natural.
TextGain == CASE Result = 3 -> (bet * 3) \div 2
              [] Result = 2 -> bet
              [] Result = 0 -> 0
              [] OTHER      -> -bet

Settle ==
    /\ \/ phase \in {"natural", "over21"}
       \/ phase = "dealer" /\ Value(dealer) >= 17
    /\ IF game = "cg_blackjack"
       THEN bal' = bal + CgReturn /\ phase' = "over" /\ UNCHANGED <<top, hiscore>>
       ELSE /\ phase' = "bet"
            /\ IF phase = "natural" /\ Result = 0 THEN UNCHANGED <<bal, top, hiscore>>
               ELSE Pay(TextGain)
    /\ fair' = fair + (bet * Result) \div 2
    /\ player' = NoHand /\ dealer' = NoHand
    /\ UNCHANGED <<balance, best, saved, game, bet, pokerBet, booted, reels>>

\* SPACE after a round of a graphical game: a bankrupt player gets a present.
\* (A text game asks for the next bet at once.)
NextRound ==
    /\ game \in {"cg_roulette", "cg_blackjack"} /\ phase = "over"
    /\ phase' = "bet"
    /\ bal' = IF bal <= 0 THEN Gift ELSE bal
    /\ fair' = IF bal <= 0 THEN fair + Gift ELSE fair
    /\ bet' = Larger(Step, IF bet > bal' THEN (bal' \div Step) * Step ELSE bet)
    /\ UNCHANGED <<money, game, top, player, dealer, pokerBet, booted, reels>>

-----------------------------------------------------------------------------
(* the lobby, the distributor, poker, the disk *)

\* Key 5 of the text lobby, and cmd_distributeur.
Receive ==
    /\ game = "none" /\ balance <= MaxMoney
    /\ \E n \in 1 .. Gift : balance' = balance + n /\ fair' = fair + n
    /\ best' = Larger(best, balance')
    /\ hiscore' \in {hiscore, Larger(hiscore, best')}
    /\ UNCHANGED <<saved, table, pokerBet, booted>>

\* PokerWindow::on_deal: the stake is taken with the first five cards.
PokerDeal ==
    /\ game = "none" /\ pokerBet = 0
    /\ \E b \in PokerBets :
         /\ b <= balance
         /\ pokerBet' = b /\ balance' = balance - b /\ fair' = fair - b
    /\ UNCHANGED <<best, hiscore, saved, table, booted>>

\* With the draw it is paid; a window that is closed pays nothing.
PokerDraw ==
    /\ game = "none" /\ pokerBet > 0 /\ balance <= MaxMoney
    /\ \E times \in {0} \union Factors :
         balance' = balance + times * pokerBet /\ fair' = fair + times * pokerBet
    /\ best' = Larger(best, balance')
    /\ pokerBet' = 0
    /\ UNCHANGED <<hiscore, saved, table, booted>>

PokerClose ==
    /\ game = "none" /\ pokerBet > 0
    /\ pokerBet' = 0
    /\ UNCHANGED <<money, table, fair, booted>>

\* fs_save writes the balance into the header.
SaveBalance ==
    /\ game = "none" /\ saved' = balance
    /\ UNCHANGED <<balance, best, hiscore, table, pokerBet, fair, booted>>

\* The machine restarts, perhaps in the middle of a game, and fs_load runs.
Reboot ==
    /\ balance' = saved /\ best' = StartBalance
    /\ hiscore' = 0
    /\ game' = "none" /\ phase' = "none" /\ bal' = 0 /\ top' = 0 /\ bet' = 0
    /\ player' = NoHand /\ dealer' = NoHand /\ reels' = NoReels
    /\ pokerBet' = 0 /\ fair' = saved /\ booted' = TRUE
    /\ UNCHANGED saved

CasinoNext ==
    \/ \E g \in TextGames \union GraphicGames : Enter(g)
    \/ Leave \/ Roulette \/ CgRoulette \/ Slots \/ CgSlots \/ Plinko
    \/ ChangeBet \/ Deal \/ Hit \/ Stand \/ Double \/ DealerDraws
    \/ Settle \/ NextRound
    \/ Receive \/ PokerDeal \/ PokerDraw \/ PokerClose \/ SaveBalance \/ Reboot

CasinoSpec == CasinoInit /\ [][CasinoNext]_casinoVars

-----------------------------------------------------------------------------
(* Properties *)

\* The books balance: through every game, in the text and in the graphical
\* version (which takes the stake first and must give it back), in the middle
\* of a hand and after a game was left, what the player has is what the rules
\* give; nobody plays with money that is not there; and since the last boot
\* the record is no less than the balance and than any high score.
CasinoBooks ==
    /\ balance >= 0 /\ bal >= 0 /\ saved >= 0
    /\ IF game = "none" THEN balance = fair ELSE bal + Taken = fair
    /\ hiscore <= Larger(best, top)
    /\ ~booted => best >= balance

\* Two alike on the reels pay back the stake: "2 pareils=1x (rembourse)"
\* (kernel.c:5576) and "2 pareils - mise remboursee" (kernel.c:5685).
TwoAlikeRefunded == reels.alike = 2 => reels.gain = 0
=============================================================================
