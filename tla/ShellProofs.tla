---------------------------- MODULE ShellProofs ----------------------------
(***************************************************************************)
(* Theorems about what the shell and the windows beside it keep.           *)
(* Console.tla: the history of the prompt tells the last commands.         *)
(* Session.tla: the tables of variables and aliases answer with what was   *)
(* set, and only the dialogue of passwd changes the password.              *)
(* Clock.tla: the stopwatch shows how long it ran whatever the width of    *)
(* its counter, the calendar shows the month leafed to, and the time read  *)
(* off the clock register by register is never ahead of it.                *)
(***************************************************************************)
EXTENDS Console, Session, Clock, TLAPS, SequenceTheorems

-----------------------------------------------------------------------------
(***************************************************************************)
(* The history of the prompt: a ring of HISTORY_SIZE lines.  Remembered    *)
(* says where in it the last commands are; the key up never goes further   *)
(* back than that (Reached), and no command is empty (Given).              *)
(***************************************************************************)

PromptTyped ==
    /\ history \in [0 .. HISTORY_SIZE - 1 -> Seq(Keys)]
    /\ history_count \in Nat /\ history_nav \in Nat \union {-1}
    /\ buf \in Seq(Keys)
    /\ commands \in Seq(Seq(Keys)) /\ Len(commands) = history_count
Remembered ==
    \A i \in 0 .. history_count - 1 :
        i + HISTORY_SIZE >= history_count => history[i % HISTORY_SIZE] = commands[i + 1]
Given == \A i \in 1 .. Len(commands) : commands[i] # <<>>
Reached == history_nav >= 0 => history_nav < history_count /\ history_nav < HISTORY_SIZE
PromptInv == PromptTyped /\ Remembered /\ Given /\ Reached

\* Two numbers less than b apart have different remainders.
LEMMA RemaindersDiffer ==
    ASSUME NEW b \in Nat \ {0}, NEW i \in Int, NEW j \in Int, i < j, j < i + b
    PROVE  i % b # j % b
<1> DEFINE p == i \div b
           q == j \div b
<1>1. p \in Int /\ q \in Int /\ i = b * p + (i % b) /\ j = b * q + (j % b)
  OBVIOUS
<1> HIDE DEF p, q
<1>2. SUFFICES ASSUME i % b = j % b PROVE FALSE
  OBVIOUS
<1>3. j - i = b * (q - p)
  BY <1>1, <1>2
<1>4. q - p >= 1 \/ q - p <= 0
  BY <1>1
<1>5. CASE q - p >= 1
  BY <1>5, <1>1, <1>3
<1>6. CASE q - p <= 0
  BY <1>6, <1>1, <1>3
<1> QED BY <1>4, <1>5, <1>6

LEMMA RemainderIn ==
    ASSUME NEW a \in Int, NEW b \in Nat \ {0}
    PROVE  a % b \in 0 .. b - 1
  OBVIOUS

LEMMA HistorySizeIs == HISTORY_SIZE \in Nat \ {0}
  BY PromptAssumption

\* What history_get returns.
LEMMA GetIs ==
    ASSUME PromptInv, NEW i \in Nat
    PROVE  HistoryGet(i) = IF i < history_count /\ i < HISTORY_SIZE
                           THEN commands[Len(commands) - i] ELSE <<>>
<1> DEFINE n == history_count
           j == n - 1 - i
<1>1. n \in Nat /\ HISTORY_SIZE \in Nat \ {0} /\ Len(commands) = n
  BY HistorySizeIs DEF PromptInv, PromptTyped
<1>2. CASE i < n /\ i < HISTORY_SIZE
  <2>1. j \in 0 .. n - 1 /\ j + HISTORY_SIZE >= n /\ j + 1 = n - i
    BY <1>1, <1>2
  <2>2. history[j % HISTORY_SIZE] = commands[j + 1]
    BY <2>1 DEF PromptInv, Remembered
  <2>3. ~(i < 0 \/ i >= n \/ i >= HISTORY_SIZE)
    BY <1>1, <1>2
  <2>4. HistoryGet(i) = history[j % HISTORY_SIZE]
    BY <2>3 DEF HistoryGet
  <2> QED BY <2>1, <2>2, <2>4, <1>1, <1>2
<1>3. CASE ~(i < n /\ i < HISTORY_SIZE)
  <2>1. i >= n \/ i >= HISTORY_SIZE
    BY <1>1, <1>3
  <2> QED BY <2>1, <1>3 DEF HistoryGet
<1> QED BY <1>2, <1>3

LEMMA GetTyped ==
    ASSUME PromptInv, NEW i \in Nat \union {-1}
    PROVE  HistoryGet(i) \in Seq(Keys)
<1>1. history \in [0 .. HISTORY_SIZE - 1 -> Seq(Keys)] /\ history_count - 1 - i \in Int
  BY DEF PromptInv, PromptTyped
<1>2. (history_count - 1 - i) % HISTORY_SIZE \in 0 .. HISTORY_SIZE - 1
  BY <1>1, HistorySizeIs, RemainderIn
<1>3. history[(history_count - 1 - i) % HISTORY_SIZE] \in Seq(Keys)
  BY <1>1, <1>2
<1>4. <<>> \in Seq(Keys)
  OBVIOUS
<1> QED BY <1>3, <1>4 DEF HistoryGet

LEMMA PromptStarts == PromptInit => PromptInv
<1> SUFFICES ASSUME PromptInit PROVE PromptInv
  OBVIOUS
<1>1. /\ buf = <<>> /\ history = [i \in 0 .. HISTORY_SIZE - 1 |-> <<>>]
      /\ history_count = 0 /\ history_nav = -1 /\ commands = <<>>
  BY DEF PromptInit
<1>2. <<>> \in Seq(Keys) /\ <<>> \in Seq(Seq(Keys)) /\ Len(<<>>) = 0
  OBVIOUS
<1>3. PromptTyped
  BY <1>1, <1>2 DEF PromptTyped
<1>4. Remembered /\ Given /\ Reached
  BY <1>1 DEF Remembered, Given, Reached
<1> QED BY <1>3, <1>4 DEF PromptInv

\* A key that gives no command.
LEMMA PastKeeps ==
    ASSUME PromptInv, Past, NEW line \in Seq(Keys), NEW nav \in Nat \union {-1},
           buf' = line, history_nav' = nav,
           nav >= 0 => nav < history_count /\ nav < HISTORY_SIZE
    PROVE  PromptInv'
<1>1. UNCHANGED <<history, history_count, commands>>
  BY DEF Past
<1>2. PromptTyped'
  BY <1>1 DEF PromptInv, PromptTyped
<1>3. Remembered' /\ Given'
  BY <1>1 DEF PromptInv, Remembered, Given
<1>4. Reached'
  BY <1>1 DEF Reached
<1> QED BY <1>2, <1>3, <1>4 DEF PromptInv

\* ... and leaves an empty line.
LEMMA PastEmpties ==
    ASSUME PromptInv, Past, buf' = <<>>, history_nav' = -1
    PROVE  PromptInv'
<1>0. <<>> \in Seq(Keys)
  OBVIOUS
<1>1. PICK line \in Seq(Keys) : line = <<>>
  BY <1>0
<1>2. PICK nav \in Nat \union {-1} : nav = -1 /\ ~(nav >= 0)
  OBVIOUS
<1> QED BY <1>1, <1>2, PastKeeps

\* A command takes the place of the oldest, unless it was just given.
LEMMA PushKeepsHistory ==
    ASSUME PromptInv, NEW cmd \in Seq(Keys), cmd # <<>>, HistoryPush(cmd),
           buf' = <<>>, history_nav' = -1
    PROVE  PromptInv'
<1> DEFINE n == history_count
           H == HISTORY_SIZE
<1>0. /\ H \in Nat \ {0} /\ n \in Nat /\ Len(commands) = n /\ commands \in Seq(Seq(Keys))
      /\ history \in [0 .. H - 1 -> Seq(Keys)] /\ <<>> \in Seq(Keys)
  BY HistorySizeIs DEF PromptInv, PromptTyped
<1>1. CASE UNCHANGED <<history, history_count, commands>>
  BY <1>1, PastEmpties DEF Past
<1>2. CASE /\ history' = [history EXCEPT ![n % H] = cmd]
           /\ history_count' = n + 1 /\ commands' = Append(commands, cmd)
  <2>1. n % H \in 0 .. H - 1
    <3>1. n \in Int
      BY <1>0
    <3> HIDE DEF n, H
    <3> QED BY <3>1, <1>0, RemainderIn
  <2>2. /\ commands' \in Seq(Seq(Keys)) /\ Len(commands') = n + 1
        /\ \A i \in 1 .. n : commands'[i] = commands[i]
        /\ commands'[n + 1] = cmd
    BY <1>2, <1>0
  <2>3. PromptTyped'
    <3>1. history' \in [0 .. H - 1 -> Seq(Keys)]
      BY <1>2, <1>0, <2>1
    <3>2. n + 1 \in Nat /\ -1 \in Nat \union {-1}
      BY <1>0
    <3> QED BY <3>1, <3>2, <2>2, <1>2, <1>0 DEF PromptTyped
  <2>4. Given'
    <3>1. ASSUME NEW i \in 1 .. n + 1 PROVE commands'[i] # <<>>
      <4>1. CASE i = n + 1
        BY <4>1, <2>2
      <4>2. CASE i # n + 1
        <5>1. i \in 1 .. n
          BY <4>2, <3>1, <1>0
        <5> QED BY <5>1, <2>2, <1>0 DEF PromptInv, Given
      <4> QED BY <4>1, <4>2
    <3> QED BY <3>1, <2>2 DEF Given
  <2>5. Remembered'
    <3>1. ASSUME NEW i \in 0 .. n, i + H >= n + 1
          PROVE  history'[i % H] = commands'[i + 1]
      <4>1. CASE i = n
        BY <4>1, <1>2, <1>0, <2>1, <2>2
      <4>2. CASE i # n
        <5>1. i \in 0 .. n - 1 /\ i \in Int /\ i + H >= n /\ i < n /\ n < i + H /\ i + 1 \in 1 .. n
          BY <4>2, <3>1, <1>0
        <5>2. i % H # n % H
          <6>1. n \in Int
            BY <1>0
          <6> HIDE DEF n, H
          <6> QED BY <6>1, <5>1, <1>0, RemaindersDiffer
        <5>3. i % H \in 0 .. H - 1
          BY <5>1, <1>0, RemainderIn
        <5>4. history'[i % H] = history[i % H]
          BY <5>2, <5>3, <1>2, <1>0
        <5>5. history[i % H] = commands[i + 1]
          BY <5>1 DEF PromptInv, Remembered
        <5> QED BY <5>1, <5>4, <5>5, <2>2
      <4> QED BY <4>1, <4>2
    <3>2. \A i \in 0 .. (n + 1) - 1 : i \in 0 .. n
      BY <1>0
    <3> QED BY <3>1, <3>2, <1>2 DEF Remembered
  <2>6. Reached'
    BY DEF Reached
  <2> QED BY <2>3, <2>4, <2>5, <2>6 DEF PromptInv
<1> QED BY <1>1, <1>2 DEF HistoryPush

LEMMA PromptSteps == PromptInv /\ [PromptNext]_promptVars => PromptInv'
<1> SUFFICES ASSUME PromptInv, [PromptNext]_promptVars PROVE PromptInv'
  OBVIOUS
<1>0. /\ history_count \in Nat /\ history_nav \in Nat \union {-1} /\ buf \in Seq(Keys)
      /\ HISTORY_SIZE \in Nat \ {0} /\ Reached /\ <<>> \in Seq(Keys) /\ -1 \in Nat \union {-1}
  BY HistorySizeIs DEF PromptInv, PromptTyped
<1>1. ASSUME NEW nav \in Nat \union {-1}, Recall(nav),
             nav >= 0 => nav < history_count /\ nav < HISTORY_SIZE
      PROVE  PromptInv'
  <2>1. HistoryGet(nav) \in Seq(Keys)
    BY <1>1, GetTyped
  <2> QED BY <1>1, <2>1, PastKeeps DEF Recall
<1>2. CASE KeyUp
  <2> DEFINE nav == IF history_nav < history_count - 1 /\ history_nav < HISTORY_SIZE - 1
                    THEN history_nav + 1 ELSE history_nav
  <2>1. nav \in Nat \union {-1} /\ (nav >= 0 => nav < history_count /\ nav < HISTORY_SIZE)
    BY <1>0 DEF Reached
  <2>2. Recall(nav)
    BY <1>2 DEF KeyUp
  <2> HIDE DEF nav
  <2> QED BY <2>1, <2>2, <1>1
<1>3. CASE KeyDown
  <2>1. CASE history_nav > 0
    <3>1. /\ history_nav - 1 \in Nat \union {-1}
          /\ history_nav - 1 < history_count /\ history_nav - 1 < HISTORY_SIZE
      BY <2>1, <1>0 DEF Reached
    <3>2. Recall(history_nav - 1)
      BY <2>1, <1>3 DEF KeyDown
    <3> QED BY <3>1, <3>2, <1>1
  <2>2. CASE ~(history_nav > 0)
    <3>1. history_nav' = -1 /\ buf' = <<>> /\ Past
      BY <2>2, <1>3 DEF KeyDown
    <3> QED BY <3>1, PastEmpties
  <2> QED BY <2>1, <2>2
<1>4. CASE KeyCtrlC
  <2>1. history_nav' = -1 /\ buf' = <<>> /\ Past
    BY <1>4 DEF KeyCtrlC, FreshPrompt
  <2> QED BY <2>1, PastEmpties
<1>5. CASE KeyEnter
  <2>1. /\ history_nav' = -1 /\ buf' = <<>>
        /\ (buf = <<>> /\ Past) \/ (buf # <<>> /\ HistoryPush(buf))
    BY <1>5 DEF KeyEnter, FreshPrompt
  <2>2. CASE buf = <<>> /\ Past
    BY <2>1, <2>2, PastEmpties
  <2>3. CASE buf # <<>> /\ HistoryPush(buf)
    BY <2>1, <2>3, <1>0, PushKeepsHistory
  <2> QED BY <2>1, <2>2, <2>3
<1>6. ASSUME NEW line \in Seq(Keys), buf' = line, UNCHANGED history_nav, Past
      PROVE  PromptInv'
  BY <1>6, <1>0, PastKeeps DEF Reached
<1>7. CASE KeyBackspace
  <2>1. Front(buf) \in Seq(Keys)
    <3>1. Len(buf) - 1 \in Int /\ 1 \in Int /\ \A i \in 1 .. Len(buf) - 1 : buf[i] \in Keys
      BY <1>0
    <3> QED BY <3>1, SubSeqProperties DEF Front
  <2> QED BY <1>7, <2>1, <1>6 DEF KeyBackspace
<1>8. CASE \E c \in Keys : KeyChar(c)
  <2>1. PICK c \in Keys : KeyChar(c)
    BY <1>8
  <2>2. Append(buf, c) \in Seq(Keys)
    BY <1>0
  <2> QED BY <2>1, <2>2, <1>6 DEF KeyChar
<1>9. CASE KeyTab
  <2>1. /\ \/ buf' = CHOOSE m \in Names : Begun(buf) = {m}
           \/ UNCHANGED buf
        /\ (\E m \in Names : Begun(buf) = {m}) \/ UNCHANGED buf
        /\ UNCHANGED history_nav /\ Past
    BY <1>9 DEF KeyTab
  <2>2. (\E m \in Names : Begun(buf) = {m}) => (CHOOSE m \in Names : Begun(buf) = {m}) \in Names
    OBVIOUS
  <2>3. buf' \in Names \/ buf' = buf
    BY <2>1, <2>2
  <2>4. buf' \in Seq(Keys)
    BY <2>3, <1>0, PromptAssumption
  <2>5. PICK line \in Seq(Keys) : buf' = line
    BY <2>4
  <2> QED BY <2>1, <2>5, <1>6
<1>10. CASE UNCHANGED promptVars
  BY <1>10, <1>0, <1>6 DEF promptVars, Past
<1> QED BY <1>2, <1>3, <1>4, <1>5, <1>7, <1>8, <1>9, <1>10 DEF PromptNext

\* The history of the prompt (history_push, history_get) holds the last commands,
\* the newest first and none that were overwritten, however often its ring went
\* round; the keys up and down recall only commands that were given.
THEOREM HistoryStaysTrue == PromptSpec => [](HistoryTrue /\ RecallsGiven)
<1>1. PromptInv => HistoryTrue /\ RecallsGiven
  <2> SUFFICES ASSUME PromptInv PROVE HistoryTrue /\ RecallsGiven
    OBVIOUS
  <2>0. history_count \in Nat /\ history_nav \in Nat \union {-1} /\ Len(commands) = history_count
    BY DEF PromptInv, PromptTyped
  <2>1. HistoryTrue
    BY <2>0, GetIs DEF HistoryTrue
  <2>2. ASSUME history_nav >= 0
        PROVE  history_nav < history_count /\ HistoryGet(history_nav) # <<>>
    <3>1. history_nav \in Nat /\ history_nav < history_count /\ history_nav < HISTORY_SIZE
      BY <2>2, <2>0 DEF PromptInv, Reached
    <3>2. HistoryGet(history_nav) = commands[Len(commands) - history_nav]
      BY <3>1, GetIs
    <3>3. Len(commands) - history_nav \in 1 .. Len(commands)
      BY <3>1, <2>0
    <3>4. commands[Len(commands) - history_nav] # <<>>
      BY <3>3 DEF PromptInv, Given
    <3> QED BY <3>1, <3>2, <3>4
  <2> QED BY <2>1, <2>2 DEF RecallsGiven
<1> QED BY PromptStarts, PromptSteps, <1>1, PTL DEF PromptSpec

-----------------------------------------------------------------------------
(***************************************************************************)
(* Variables and aliases: a table and the map of what was set.  Agreeing   *)
(* spells out Tells entry by entry.                                        *)
(***************************************************************************)

Entries(K, V) == [key : K, value : V]
Agreeing(table, map) ==
    /\ \A i \in 1 .. Len(table) : table[i].key \in DOMAIN map /\ table[i].value = map[table[i].key]
    /\ \A k \in DOMAIN map : \E i \in 1 .. Len(table) : table[i].key = k
    /\ \A i, j \in 1 .. Len(table) : table[i].key = table[j].key => i = j
TrueTable(table, map, K, V, max) ==
    table \in Seq(Entries(K, V)) /\ Len(table) <= max /\ Agreeing(table, map)
SessionInv ==
    /\ TrueTable(env, known, EnvKeys, EnvValues, MAX_ENV_VARS)
    /\ TrueTable(aliases_, kept, AliasNames, EnvValues, MAX_ALIASES)

LEMMA AgreeingTells ==
    ASSUME NEW K, NEW V, NEW table \in Seq(Entries(K, V)), NEW map, Agreeing(table, map)
    PROVE  Tells(table, map)
<1>1. DOMAIN table = 1 .. Len(table)
  OBVIOUS
<1>2. {table[i].key : i \in DOMAIN table} = DOMAIN map
  <2>1. \A x \in DOMAIN map : \E i \in DOMAIN table : table[i].key = x
    BY <1>1 DEF Agreeing
  <2>2. \A i \in DOMAIN table : table[i].key \in DOMAIN map
    BY <1>1 DEF Agreeing
  <2> QED BY <2>1, <2>2
<1> DEFINE f == [i \in DOMAIN table |-> table[i].key]
<1>3. DOMAIN f = 1 .. Len(table) /\ \A i \in 1 .. Len(table) : f[i] = table[i].key
  BY <1>1
<1> HIDE DEF f
<1>4. IsInjective(f)
  BY <1>3 DEF Agreeing, IsInjective
<1>5. \A i \in DOMAIN table : table[i].value = map[table[i].key]
  BY <1>1 DEF Agreeing
<1> QED BY <1>2, <1>4, <1>5 DEF Tells, f

\* Where the entry of a name is: no name has two.
LEMMA PlaceIs ==
    ASSUME NEW K, NEW V, NEW table \in Seq(Entries(K, V)), NEW map, Agreeing(table, map), NEW k
    PROVE  \/ /\ PlaceOf(table, k) = 0 /\ k \notin DOMAIN map
              /\ \A i \in 1 .. Len(table) : table[i].key # k
           \/ /\ PlaceOf(table, k) \in 1 .. Len(table) /\ PlaceOf(table, k) # 0
              /\ table[PlaceOf(table, k)].key = k /\ k \in DOMAIN map
<1> DEFINE I == {i \in 1 .. Len(table) : table[i].key = k}
<1>0. PlaceOf(table, k) = IF I # {} THEN Min(I) ELSE 0
  BY DEF PlaceOf, SelectInSeq
<1>1. CASE \E i \in 1 .. Len(table) : table[i].key = k
  <2>1. PICK p \in 1 .. Len(table) : table[p].key = k
    BY <1>1
  <2>2. I = {p}
    BY <2>1 DEF Agreeing
  <2>3. p \in Nat /\ p # 0
    BY <2>1
  <2>4. Min({p}) = p
    BY <2>3 DEF Min
  <2>5. PlaceOf(table, k) = p
    BY <1>0, <2>2, <2>4
  <2>6. k \in DOMAIN map
    BY <2>1 DEF Agreeing
  <2> QED BY <2>1, <2>3, <2>5, <2>6
<1>2. CASE ~ \E i \in 1 .. Len(table) : table[i].key = k
  <2>1. I = {}
    BY <1>2
  <2>2. PlaceOf(table, k) = 0
    BY <1>0, <2>1
  <2> QED BY <2>2, <1>2 DEF Agreeing
<1> QED BY <1>1, <1>2

\* An entry is changed, or added if there is room.
LEMMA StoredKeeps ==
    ASSUME NEW K, NEW V, NEW max \in Nat, NEW table, NEW map, TrueTable(table, map, K, V, max),
           NEW k \in K, NEW v \in V
    PROVE  TrueTable(Stored(table, k, v, max), Knowing(map, table, k, v, max), K, V, max)
<1> DEFINE e == [key |-> k, value |-> v]
           p == PlaceOf(table, k)
           n == Len(table)
           told == Knowing(map, table, k, v, max)
<1>1. table \in Seq(Entries(K, V)) /\ n <= max /\ Agreeing(table, map) /\ n \in Nat
  BY DEF TrueTable
<1>2. e \in Entries(K, V) /\ e.key = k /\ e.value = v
  BY DEF Entries
<1>3. /\ \A i \in 1 .. n : table[i].key \in DOMAIN map /\ table[i].value = map[table[i].key]
      /\ \A x \in DOMAIN map : \E i \in 1 .. n : table[i].key = x
      /\ \A i, j \in 1 .. n : table[i].key = table[j].key => i = j
  BY <1>1 DEF Agreeing
<1>4. k \in DOMAIN map \/ n # max => /\ DOMAIN told = DOMAIN map \union {k} /\ told[k] = v
                                    /\ \A x \in DOMAIN map : x # k => told[x] = map[x]
  BY DEF Knowing
<1>5. k \notin DOMAIN map /\ n = max => told = map
  BY DEF Knowing
<1> HIDE DEF told
<1>6. CASE p = 0 /\ k \notin DOMAIN map /\ \A i \in 1 .. n : table[i].key # k
  <2>1. CASE n < max
    <3>1. Stored(table, k, v, max) = Append(table, e)
      BY <1>6, <2>1 DEF Stored
    <3> DEFINE t == Append(table, e)
    <3>2. t \in Seq(Entries(K, V)) /\ Len(t) = n + 1 /\ t[n + 1] = e /\ \A i \in 1 .. n : t[i] = table[i]
      <4>1. PICK S : S = Entries(K, V)
        OBVIOUS
      <4>2. table \in Seq(S) /\ e \in S
        BY <1>1, <1>2, <4>1
      <4> HIDE DEF e
      <4>3. /\ t \in Seq(S) /\ Len(t) = Len(table) + 1 /\ t[Len(table) + 1] = e
            /\ \A i \in 1 .. Len(table) : t[i] = table[i]
        BY <4>2, AppendProperties
      <4> QED BY <4>1, <4>3
    <3> HIDE DEF t, e
    <3>3. DOMAIN told = DOMAIN map \union {k} /\ told[k] = v /\ \A x \in DOMAIN map : x # k => told[x] = map[x]
      BY <1>1, <1>4, <2>1
    <3>4. \A i \in 1 .. n + 1 : i \in 1 .. n \/ i = n + 1
      BY <1>1
    <3> HIDE DEF n
    <3>a. t[n + 1].key = k /\ t[n + 1].value = v
      BY <3>2, <1>2
    <3>b. \A i \in 1 .. n : t[i].key # k /\ t[i].key \in DOMAIN map /\ t[i].value = map[t[i].key]
      BY <3>2, <1>3, <1>6
    <3>5. \A i \in 1 .. n + 1 : t[i].key \in DOMAIN told /\ t[i].value = told[t[i].key]
      <4>1. \A i \in 1 .. n : t[i].key \in DOMAIN told /\ t[i].value = told[t[i].key]
        BY <3>3, <3>b
      <4>2. t[n + 1].key \in DOMAIN told /\ t[n + 1].value = told[t[n + 1].key]
        BY <3>3, <3>a
      <4> QED BY <4>1, <4>2, <3>4
    <3>6. \A x \in DOMAIN told : \E i \in 1 .. n + 1 : t[i].key = x
      <4>1. n + 1 \in 1 .. n + 1 /\ \A i \in 1 .. n : i \in 1 .. n + 1
        BY <1>1 DEF n
      <4>2. \E i \in 1 .. n + 1 : t[i].key = k
        BY <4>1, <3>a
      <4>3. ASSUME NEW x \in DOMAIN map PROVE \E i \in 1 .. n + 1 : t[i].key = x
        <5>1. PICK i \in 1 .. n : table[i].key = x
          BY <1>3
        <5> QED BY <5>1, <4>1, <3>2
      <4> QED BY <4>2, <4>3, <3>3
    <3>7. \A i, j \in 1 .. n + 1 : t[i].key = t[j].key => i = j
      <4>1. \A i, j \in 1 .. n : t[i].key = t[j].key => i = j
        BY <3>2, <1>3
      <4> QED BY <4>1, <3>a, <3>b, <3>4
    <3> USE DEF n
    <3>8. n + 1 <= max
      BY <2>1, <1>1
    <3>9. TrueTable(t, told, K, V, max)
      BY <3>2, <3>5, <3>6, <3>7, <3>8 DEF TrueTable, Agreeing
    <3> QED BY <3>1, <3>9 DEF t, told, e
  <2>2. CASE ~(n < max)
    <3>1. n = max
      BY <2>2, <1>1
    <3>2. Stored(table, k, v, max) = table
      BY <1>6, <2>2 DEF Stored
    <3>3. told = map
      BY <3>1, <1>5, <1>6
    <3> QED BY <3>2, <3>3 DEF told
  <2> QED BY <2>1, <2>2
<1>7. CASE p \in 1 .. n /\ p # 0 /\ table[p].key = k /\ k \in DOMAIN map
  <2> DEFINE t == [table EXCEPT ![p] = e]
  <2>1. Stored(table, k, v, max) = t
    BY <1>7 DEF Stored
  <2> HIDE DEF p, e
  <2>2. t \in Seq(Entries(K, V)) /\ Len(t) = n /\ t[p] = e /\ \A i \in 1 .. n : i # p => t[i] = table[i]
    BY <1>1, <1>2, <1>7
  <2> HIDE DEF t
  <2>3. DOMAIN told = DOMAIN map /\ told[k] = v /\ \A x \in DOMAIN map : x # k => told[x] = map[x]
    BY <1>4, <1>7
  <2>4. \A i \in 1 .. n : t[i].key = table[i].key
    BY <2>2, <1>2, <1>7
  <2>5. \A i \in 1 .. n : t[i].value = told[t[i].key]
    <3>1. ASSUME NEW i \in 1 .. n, i # p PROVE t[i].value = told[t[i].key]
      <4>1. table[i].key # k
        BY <3>1, <1>3, <1>7
      <4> QED BY <4>1, <3>1, <2>2, <2>3, <1>3
    <3>2. t[p].value = told[t[p].key]
      BY <2>2, <2>3, <1>2
    <3> QED BY <3>1, <3>2
  <2>6. Agreeing(t, told)
    <3>1. \A i \in 1 .. Len(t) : t[i].key \in DOMAIN told /\ t[i].value = told[t[i].key]
      BY <2>2, <2>3, <2>4, <2>5, <1>3
    <3>2. \A x \in DOMAIN told : \E i \in 1 .. Len(t) : t[i].key = x
      BY <2>2, <2>3, <2>4, <1>3
    <3>3. \A i, j \in 1 .. Len(t) : t[i].key = t[j].key => i = j
      BY <2>2, <2>4, <1>3
    <3> QED BY <3>1, <3>2, <3>3 DEF Agreeing
  <2>7. TrueTable(t, told, K, V, max)
    BY <2>2, <2>6, <1>1 DEF TrueTable
  <2> QED BY <2>1, <2>7 DEF told
<1> QED BY <1>1, <1>6, <1>7, PlaceIs

\* An entry goes, and those behind it move down.
LEMMA DroppedKeeps ==
    ASSUME NEW K, NEW V, NEW max \in Nat, NEW table, NEW map, TrueTable(table, map, K, V, max), NEW k
    PROVE  TrueTable(Dropped(table, k), Forgetting(map, k), K, V, max)
<1> DEFINE p == PlaceOf(table, k)
           n == Len(table)
           told == Forgetting(map, k)
<1>1. table \in Seq(Entries(K, V)) /\ n <= max /\ Agreeing(table, map) /\ n \in Nat
  BY DEF TrueTable
<1>3. /\ \A i \in 1 .. n : table[i].key \in DOMAIN map /\ table[i].value = map[table[i].key]
      /\ \A x \in DOMAIN map : \E i \in 1 .. n : table[i].key = x
      /\ \A i, j \in 1 .. n : table[i].key = table[j].key => i = j
  BY <1>1 DEF Agreeing
<1>4. DOMAIN told = DOMAIN map \ {k} /\ \A x \in DOMAIN map \ {k} : told[x] = map[x]
  BY DEF Forgetting
<1> HIDE DEF told
<1>6. CASE p = 0 /\ k \notin DOMAIN map /\ \A i \in 1 .. n : table[i].key # k
  <2>1. Dropped(table, k) = table
    BY <1>6 DEF Dropped
  <2>2. Agreeing(table, told)
    BY <1>3, <1>4, <1>6 DEF Agreeing
  <2>3. TrueTable(table, told, K, V, max)
    BY <2>2, <1>1 DEF TrueTable
  <2> QED BY <2>1, <2>3 DEF told
<1>7. CASE p \in 1 .. n /\ p # 0 /\ table[p].key = k /\ k \in DOMAIN map
  <2> DEFINE a == SubSeq(table, 1, p - 1)
             b == SubSeq(table, p + 1, n)
             t == a \o b
  <2>1. Dropped(table, k) = t
    BY <1>7 DEF Dropped, RemoveAt
  <2> HIDE DEF p
  <2>2. /\ 1 \in Int /\ p - 1 \in Int /\ p + 1 \in Int /\ n \in Int /\ p - 1 \in Nat /\ n - p \in Nat
        /\ \A i \in 1 .. p - 1 : table[i] \in Entries(K, V)
        /\ \A i \in p + 1 .. n : table[i] \in Entries(K, V)
    BY <1>1, <1>7
  <2>3. /\ a \in Seq(Entries(K, V)) /\ Len(a) = p - 1
        /\ \A i \in 1 .. p - 1 : a[i] = table[i]
    <3>1. /\ a \in Seq(Entries(K, V)) /\ Len(a) = IF 1 <= p - 1 THEN (p - 1) - 1 + 1 ELSE 0
          /\ \A i \in 1 .. (p - 1) - 1 + 1 : a[i] = table[1 + i - 1]
      BY <2>2, SubSeqProperties
    <3> HIDE DEF a
    <3> QED BY <3>1, <2>2, <1>7
  <2>4. /\ b \in Seq(Entries(K, V)) /\ Len(b) = n - p
        /\ \A i \in 1 .. n - p : b[i] = table[p + i]
    <3>1. /\ b \in Seq(Entries(K, V)) /\ Len(b) = IF p + 1 <= n THEN n - (p + 1) + 1 ELSE 0
          /\ \A i \in 1 .. n - (p + 1) + 1 : b[i] = table[(p + 1) + i - 1]
      BY <2>2, SubSeqProperties
    <3> HIDE DEF b
    <3> QED BY <3>1, <2>2, <1>1, <1>7
  <2> HIDE DEF a, b
  <2>5. /\ t \in Seq(Entries(K, V)) /\ Len(t) = Len(a) + Len(b)
        /\ \A i \in 1 .. Len(a) + Len(b) : t[i] = IF i <= Len(a) THEN a[i] ELSE b[i - Len(a)]
    BY <2>3, <2>4, ConcatProperties
  <2> HIDE DEF t
  <2>6. Len(t) = n - 1 /\ n - 1 \in Nat
    BY <2>2, <2>3, <2>4, <2>5, <1>1, <1>7
  <2>7. \A i \in 1 .. n - 1 : t[i] = table[IF i < p THEN i ELSE i + 1]
    <3>1. ASSUME NEW i \in 1 .. n - 1, i < p PROVE t[i] = table[i]
      <4>1. i \in 1 .. Len(a) + Len(b) /\ i <= Len(a) /\ i \in 1 .. p - 1
        BY <3>1, <2>3, <2>4, <1>1, <1>7
      <4> QED BY <4>1, <2>3, <2>5
    <3>2. ASSUME NEW i \in 1 .. n - 1, ~(i < p) PROVE t[i] = table[i + 1]
      <4>1. /\ i \in 1 .. Len(a) + Len(b) /\ ~(i <= Len(a)) /\ i - Len(a) \in 1 .. n - p
            /\ p + (i - Len(a)) = i + 1
        BY <3>2, <2>3, <2>4, <1>1, <1>7
      <4> QED BY <4>1, <2>4, <2>5
    <3> QED BY <3>1, <3>2
  <2> DEFINE from(i) == IF i < p THEN i ELSE i + 1
  <2>8. /\ \A i \in 1 .. n - 1 : from(i) \in 1 .. n /\ from(i) # p
        /\ \A i, j \in 1 .. n - 1 : from(i) = from(j) => i = j
        /\ \A j \in 1 .. n : j # p => \E i \in 1 .. n - 1 : from(i) = j
    <3>1. \A i \in 1 .. n - 1 : from(i) \in 1 .. n /\ from(i) # p
      BY <1>1, <1>7
    <3>2. \A i, j \in 1 .. n - 1 : from(i) = from(j) => i = j
      BY <1>1, <1>7
    <3>3. ASSUME NEW j \in 1 .. n, j # p PROVE \E i \in 1 .. n - 1 : from(i) = j
      <4>1. CASE j < p
        <5>1. j \in 1 .. n - 1 /\ from(j) = j
          BY <4>1, <1>1, <1>7
        <5> QED BY <5>1
      <4>2. CASE ~(j < p)
        <5>1. j - 1 \in 1 .. n - 1 /\ from(j - 1) = j
          BY <4>2, <3>3, <1>1, <1>7
        <5> QED BY <5>1
      <4> QED BY <4>1, <4>2
    <3> QED BY <3>1, <3>2, <3>3
  <2>9. \A i \in 1 .. n - 1 : t[i] = table[from(i)]
    BY <2>7
  <2> HIDE DEF from
  <2>10. \A i \in 1 .. n - 1 : t[i].key \in DOMAIN told /\ t[i].value = told[t[i].key]
    <3> SUFFICES ASSUME NEW i \in 1 .. n - 1
                 PROVE  t[i].key \in DOMAIN told /\ t[i].value = told[t[i].key]
      OBVIOUS
    <3>1. from(i) \in 1 .. n /\ from(i) # p /\ t[i] = table[from(i)]
      BY <2>8, <2>9
    <3>2. table[from(i)].key # k
      BY <3>1, <1>3, <1>7
    <3> QED BY <3>1, <3>2, <1>3, <1>4
  <2>11. \A x \in DOMAIN told : \E i \in 1 .. n - 1 : t[i].key = x
    <3> SUFFICES ASSUME NEW x \in DOMAIN told PROVE \E i \in 1 .. n - 1 : t[i].key = x
      OBVIOUS
    <3>1. PICK j \in 1 .. n : table[j].key = x
      BY <1>3, <1>4
    <3>2. j # p
      BY <3>1, <1>4, <1>7
    <3>3. PICK i \in 1 .. n - 1 : from(i) = j
      BY <3>2, <2>8
    <3> QED BY <3>1, <3>3, <2>9
  <2>12. \A i, j \in 1 .. n - 1 : t[i].key = t[j].key => i = j
    <3> SUFFICES ASSUME NEW i \in 1 .. n - 1, NEW j \in 1 .. n - 1, t[i].key = t[j].key PROVE i = j
      OBVIOUS
    <3>1. from(i) \in 1 .. n /\ from(j) \in 1 .. n
      BY <2>8
    <3>2. table[from(i)].key = table[from(j)].key
      BY <2>9
    <3>3. from(i) = from(j)
      BY <3>1, <3>2, <1>3
    <3> QED BY <3>3, <2>8
  <2>13. Agreeing(t, told)
    BY <2>6, <2>10, <2>11, <2>12 DEF Agreeing
  <2>14. Len(t) <= max
    BY <2>6, <1>1
  <2> QED BY <2>1, <2>5, <2>13, <2>14 DEF TrueTable, t, told
<1> QED BY <1>1, <1>6, <1>7, PlaceIs

LEMMA SessionStarts == SessionInit => SessionInv
<1> SUFFICES ASSUME SessionInit PROVE SessionInv
  OBVIOUS
<1>1. env = <<>> /\ aliases_ = <<>> /\ known = NoTable /\ kept = NoTable
  BY DEF SessionInit
<1>2. DOMAIN NoTable = {} /\ Len(<<>>) = 0
  BY DEF NoTable
<1>3. Agreeing(<<>>, NoTable)
  BY <1>2 DEF Agreeing
<1>4. MAX_ENV_VARS \in Nat /\ MAX_ALIASES \in Nat
  BY SessionAssumption
<1>5. \A K, V : <<>> \in Seq(Entries(K, V))
  OBVIOUS
<1> QED BY <1>1, <1>2, <1>3, <1>4, <1>5 DEF SessionInv, TrueTable

LEMMA SessionSteps == SessionInv /\ [SessionNext]_sessionVars => SessionInv'
<1> SUFFICES ASSUME SessionInv, [SessionNext]_sessionVars PROVE SessionInv'
  OBVIOUS
<1>0. MAX_ENV_VARS \in Nat /\ MAX_ALIASES \in Nat
  BY SessionAssumption
<1>e. TrueTable(env, known, EnvKeys, EnvValues, MAX_ENV_VARS)
  BY DEF SessionInv
<1>a. TrueTable(aliases_, kept, AliasNames, EnvValues, MAX_ALIASES)
  BY DEF SessionInv
<1>1. ASSUME NEW k \in EnvKeys, Unset(k) PROVE SessionInv'
  <2>1. TrueTable(Dropped(env, k), Forgetting(known, k), EnvKeys, EnvValues, MAX_ENV_VARS)
    BY <1>0, <1>e, DroppedKeeps
  <2> QED BY <2>1, <1>1, <1>a DEF Unset, SessionInv
<1>2. ASSUME NEW k \in EnvKeys, NEW v \in EnvValues, SetEnv(k, v) PROVE SessionInv'
  <2>1. TrueTable(Stored(env, k, v, MAX_ENV_VARS), Knowing(known, env, k, v, MAX_ENV_VARS),
              EnvKeys, EnvValues, MAX_ENV_VARS)
    BY <1>0, <1>e, StoredKeeps
  <2> QED BY <2>1, <1>2, <1>a DEF SetEnv, SessionInv
<1>3. ASSUME NEW k \in AliasNames, Unalias(k) PROVE SessionInv'
  <2>1. TrueTable(Dropped(aliases_, k), Forgetting(kept, k), AliasNames, EnvValues, MAX_ALIASES)
    BY <1>0, <1>a, DroppedKeeps
  <2> QED BY <2>1, <1>3, <1>e DEF Unalias, SessionInv
<1>4. ASSUME NEW k \in AliasNames, NEW v \in EnvValues, SetAlias(k, v) PROVE SessionInv'
  <2>1. TrueTable(Stored(aliases_, k, v, MAX_ALIASES), Knowing(kept, aliases_, k, v, MAX_ALIASES),
              AliasNames, EnvValues, MAX_ALIASES)
    BY <1>0, <1>a, StoredKeeps
  <2> QED BY <2>1, <1>4, <1>e DEF SetAlias, SessionInv
<1>5. CASE UNCHANGED <<env, aliases_, known, kept>>
  BY <1>5 DEF SessionInv, TrueTable, Agreeing
<1> QED BY <1>1, <1>2, <1>3, <1>4, <1>5 DEF SessionNext, Tables, sessionVars

\* Variables and aliases (setenv, export, unset, alias, unalias): each table answers
\* for every name with what it was last given, has no name twice and forgets what was
\* taken away, also when it is full and after entries have moved down.
THEOREM TablesStayRight == SessionSpec => []TablesRight
<1>1. SessionInv => TablesRight
  BY AgreeingTells DEF SessionInv, TrueTable, TablesRight
<1> QED BY SessionStarts, SessionSteps, <1>1, PTL DEF SessionSpec

-----------------------------------------------------------------------------
(***************************************************************************)
(* The password: a dialogue of passwd that goes on has been given the old  *)
(* one (Asking).                                                           *)
(***************************************************************************)

Asking ==
    answers.asked = "passwd" /\ ~answers.over =>
        /\ ~answers.worked
        /\ answers.got = <<answers.was>> \/ \E new : answers.got = <<answers.was, new>>
PasswordInv ==
    /\ answers = [asked |-> answers.asked, fields |-> answers.fields, got |-> answers.got, left |-> answers.left,
                  was |-> answers.was, over |-> answers.over, worked |-> answers.worked]
    /\ Asking /\ PasswordStays

LEMMA Appended ==
    ASSUME NEW x, NEW y, NEW z
    PROVE  Append(<<x>>, y) = <<x, y>> /\ Append(<<x, y>>, z) = <<x, y, z>>
<1> DEFINE S == {x, y, z}
<1>1. <<x>> \in Seq(S) /\ <<x, y>> \in Seq(S) /\ <<x, y, z>> \in Seq(S) /\ y \in S /\ z \in S
  OBVIOUS
<1>2. Len(<<x>>) = 1 /\ Len(<<x, y>>) = 2 /\ Len(<<x, y, z>>) = 3
  OBVIOUS
<1> DEFINE p == Append(<<x>>, y)
           q == Append(<<x, y>>, z)
<1>3. p \in Seq(S) /\ Len(p) = 2 /\ p[1] = x /\ p[2] = y
  <2> HIDE DEF S
  <2>1. /\ p \in Seq(S) /\ Len(p) = Len(<<x>>) + 1
        /\ \A i \in 1 .. Len(<<x>>) : p[i] = <<x>>[i]
        /\ p[Len(<<x>>) + 1] = y
    BY <1>1, AppendProperties
  <2> QED BY <2>1, <1>2
<1>4. q \in Seq(S) /\ Len(q) = 3 /\ q[1] = x /\ q[2] = y /\ q[3] = z
  <2> HIDE DEF S
  <2>1. /\ q \in Seq(S) /\ Len(q) = Len(<<x, y>>) + 1
        /\ \A i \in 1 .. Len(<<x, y>>) : q[i] = <<x, y>>[i]
        /\ q[Len(<<x, y>>) + 1] = z
    BY <1>1, AppendProperties
  <2>2. 1 \in 1 .. Len(<<x, y>>) /\ 2 \in 1 .. Len(<<x, y>>)
    BY <1>2
  <2> QED BY <2>1, <2>2, <1>2
<1> HIDE DEF p, q, S
<1>5. \A i \in 1 .. 2 : p[i] = <<x, y>>[i]
  <2>1. \A i \in 1 .. 2 : i = 1 \/ i = 2
    OBVIOUS
  <2> QED BY <1>3, <2>1
<1>6. \A i \in 1 .. 3 : q[i] = <<x, y, z>>[i]
  <2>1. \A i \in 1 .. 3 : i = 1 \/ i = 2 \/ i = 3
    OBVIOUS
  <2> QED BY <1>4, <2>1
<1>7. p = <<x, y>>
  BY <1>1, <1>2, <1>3, <1>5, SeqEqual
<1>8. q = <<x, y, z>>
  BY <1>1, <1>2, <1>4, <1>6, SeqEqual
<1> QED BY <1>7, <1>8 DEF p, q

\* A dialogue begins: the password is asked for and left alone.
LEMMA BeginKeeps ==
    ASSUME NEW asked, NEW typing, Begin(asked, typing), UNCHANGED gregos_passwd
    PROVE  PasswordInv'
<1> DEFINE a == ReadField(<<>>, typing)
           ended == asked # "passwd" \/ a.got # gregos_passwd
           worked == asked # "passwd" /\ a.got = gregos_passwd
<1>1. answers' = [asked |-> asked, fields |-> <<typing>>, got |-> <<a.got>>, left |-> a.left,
                  was |-> gregos_passwd, over |-> ended, worked |-> worked]
  BY DEF Begin
<1> HIDE DEF a
<1>2. /\ answers'.asked = asked /\ answers'.got = <<a.got>> /\ answers'.was = gregos_passwd
      /\ answers'.over = ended /\ answers'.worked = worked
  BY <1>1
<1>3. answers' = [asked |-> answers'.asked, fields |-> answers'.fields, got |-> answers'.got, left |-> answers'.left,
                  was |-> answers'.was, over |-> answers'.over, worked |-> answers'.worked]
  BY <1>1
<1>4. Asking'
  <2> SUFFICES ASSUME asked = "passwd", ~ended
               PROVE  ~worked /\ <<a.got>> = <<gregos_passwd>>
    BY <1>2, Zenon DEF Asking
  <2> QED OBVIOUS
<1>5. PasswordStays'
  <2>1. ~(asked = "passwd" /\ worked)
    OBVIOUS
  <2> QED BY <1>2, <2>1, Zenon DEF PasswordStays
<1> QED BY <1>3, <1>4, <1>5 DEF PasswordInv

\* The new password is given, once or twice.
LEMMA PasswdNewKeeps ==
    ASSUME PasswordInv, NEW typing, PasswdNew(typing)
    PROVE  PasswordInv'
<1> DEFINE a == ReadField(answers.left, typing)
           f == Append(answers.got, a.got)
           taken == Len(f) = 3 /\ f[2] = f[3] /\ f[2] # <<>>
           fields == Append(answers.fields, typing)
           ended == Len(f) = 3
<1>1. /\ ~Quiet
      /\ answers' = [answers EXCEPT !.fields = fields, !.got = f, !.left = a.left, !.over = ended, !.worked = taken]
      /\ gregos_passwd' = IF taken THEN f[2] ELSE gregos_passwd
  BY DEF PasswdNew
<1>2. PICK asked, given, was : answers.asked = asked /\ answers.got = given /\ answers.was = was
  OBVIOUS
<1>3. asked = "passwd" /\ (given = <<was>> \/ \E new : given = <<was, new>>) /\ ~answers.worked
  BY <1>1, <1>2 DEF Quiet, PasswordInv, Asking
<1>4. PICK new : new = a.got
  OBVIOUS
<1>5. f = <<was, new>> \/ \E mid : f = <<was, mid, new>>
  <2>1. \A x, y : Append(<<x>>, y) = <<x, y>>
    BY Appended
  <2>2. \A x, y, z : Append(<<x, y>>, z) = <<x, y, z>>
    BY Appended
  <2> HIDE DEF a
  <2>3. f = Append(given, new)
    BY <1>2, <1>4
  <2>4. CASE given = <<was>>
    BY <2>1, <2>3, <2>4, Zenon
  <2>5. CASE \E mid : given = <<was, mid>>
    BY <2>2, <2>3, <2>5, Zenon
  <2> QED BY <1>3, <2>4, <2>5, Zenon
<1> HIDE DEF a, f, fields
<1>6. /\ answers'.asked = asked /\ answers'.got = f /\ answers'.was = was
      /\ answers'.over = ended /\ answers'.worked = taken
      /\ answers' = [asked |-> answers'.asked, fields |-> answers'.fields, got |-> answers'.got, left |-> answers'.left,
                     was |-> answers'.was, over |-> answers'.over, worked |-> answers'.worked]
  BY <1>1, <1>2 DEF PasswordInv
<1>7. gregos_passwd = was
  BY <1>2, <1>3 DEF PasswordInv, PasswordStays
<1>8. CASE f = <<was, new>>
  <2>1. Len(f) = 2
    BY <1>8
  <2>2. ~ended /\ ~taken
    BY <2>1
  <2>3. gregos_passwd' = gregos_passwd
    BY <1>1, <2>2
  <2>4. Asking'
    BY <1>6, <1>8, <2>2, Zenon DEF Asking
  <2>5. PasswordStays'
    BY <1>6, <1>7, <2>2, <2>3, Zenon DEF PasswordStays
  <2> QED BY <1>6, <2>4, <2>5 DEF PasswordInv
<1>9. CASE \E mid : f = <<was, mid, new>>
  <2>1. PICK mid : f = <<was, mid, new>>
    BY <1>9
  <2>2. Len(f) = 3 /\ f[2] = mid /\ f[3] = new
    BY <2>1
  <2>3. Asking'
    BY <1>6, <2>2, Zenon DEF Asking
  <2>4. PasswordStays'
    <3>1. CASE taken
      <4>1. gregos_passwd' = mid /\ mid = new /\ mid # <<>>
        BY <3>1, <1>1, <2>2
      <4> QED BY <4>1, <3>1, <2>1, <1>6, <1>3, Zenon DEF PasswordStays
    <3>2. CASE ~taken
      <4>1. gregos_passwd' = was
        BY <3>2, <1>1, <1>7
      <4> QED BY <4>1, <3>2, <1>6, Zenon DEF PasswordStays
    <3> QED BY <3>1, <3>2
  <2> QED BY <1>6, <2>3, <2>4 DEF PasswordInv
<1> QED BY <1>5, <1>8, <1>9

\* login, cmd_passwd, cmd_su, cmd_sudo: only passwd changes the password, and only after it
\* was given the old one and then the new one twice, which is not empty.
THEOREM PasswordStaysGuarded == SessionSpec => []PasswordStays
<1>1. SessionInit => PasswordInv
  BY DEF SessionInit, NoAnswers, PasswordInv, Asking, PasswordStays
<1>2. PasswordInv /\ [SessionNext]_sessionVars => PasswordInv'
  <2> SUFFICES ASSUME PasswordInv, [SessionNext]_sessionVars PROVE PasswordInv'
    OBVIOUS
  <2>1. CASE UNCHANGED <<gregos_passwd, answers>>
    BY <2>1 DEF PasswordInv, Asking, PasswordStays
  <2>2. ASSUME NEW t \in Typings, NEW u \in Users, Su(u, t) PROVE PasswordInv'
    <3>1. UNCHANGED gregos_passwd /\ \E asked : Begin(asked, t)
      BY <2>2, Zenon DEF Su
    <3> QED BY <3>1, BeginKeeps
  <2>3. ASSUME NEW t \in Typings, PasswdOld(t) \/ Sudo(t) PROVE PasswordInv'
    <3>1. UNCHANGED gregos_passwd /\ \E asked : Begin(asked, t)
      BY <2>3, Zenon DEF PasswdOld, Sudo
    <3> QED BY <3>1, BeginKeeps
  <2>4. ASSUME NEW t \in Typings, PasswdNew(t) PROVE PasswordInv'
    BY <2>4, PasswdNewKeeps
  <2>5. ASSUME NEW t \in Typings, Login(t) PROVE PasswordInv'
    <3>1. /\ answers' = [asked |-> "login", fields |-> <<t>>, got |-> NoAnswers.got, left |-> NoAnswers.left,
                         was |-> gregos_passwd, over |-> NoAnswers.over,
                         worked |-> LoginField(t) = gregos_passwd]
          /\ UNCHANGED gregos_passwd
      BY <2>5 DEF Login, NoAnswers
    <3>2. answers'.asked = "login" /\ answers'.was = gregos_passwd
      BY <3>1
    <3>3. answers' = [asked |-> answers'.asked, fields |-> answers'.fields, got |-> answers'.got,
                      left |-> answers'.left, was |-> answers'.was, over |-> answers'.over,
                      worked |-> answers'.worked]
      BY <3>1
    <3> QED BY <3>1, <3>2, <3>3 DEF PasswordInv, Asking, PasswordStays
  <2>6. ASSUME matter = "tables", SessionNext PROVE UNCHANGED <<gregos_passwd, answers>>
    BY <2>6 DEF SessionNext, Unset, SetEnv, Unalias, SetAlias, Others
  <2> QED BY <2>1, <2>2, <2>3, <2>4, <2>5, <2>6 DEF SessionNext, sessionVars
<1>3. PasswordInv => PasswordStays
  BY DEF PasswordInv
<1> QED BY <1>1, <1>2, <1>3, PTL DEF SessionSpec

-----------------------------------------------------------------------------
(***************************************************************************)
(* The clock window.  The stopwatch: what it has added up and what has     *)
(* gone by since it was started are the jiffies it ran, up to whole rounds *)
(* of the counter (Counted).                                               *)
(***************************************************************************)

StopwatchTyped ==
    /\ sw.acc \in 0 .. JiffyRange - 1 /\ sw.start \in 0 .. JiffyRange - 1 /\ sw.run \in BOOLEAN
    /\ sw = [acc |-> sw.acc, start |-> sw.start, run |-> sw.run]
    /\ jiffies \in 0 .. JiffyRange - 1 /\ ran \in Nat
Counted ==
    \E q \in Int : sw.acc + (IF sw.run THEN jiffies - sw.start ELSE 0) = ran + JiffyRange * q
StopwatchInv == StopwatchTyped /\ Counted

LEMMA JiffyRangeIs == JiffyRange \in Nat \ {0} /\ JiffyRange > 1
  BY ClockAssumption

\* A remainder is reached by taking rounds away.
LEMMA RoundsOff ==
    ASSUME NEW W \in Nat \ {0}, NEW x \in Int
    PROVE  \E c \in Int : x % W = x + W * c /\ x % W \in 0 .. W - 1
<1>1. x \div W \in Int /\ x = W * (x \div W) + (x % W) /\ x % W \in 0 .. W - 1
  OBVIOUS
<1>2. -(x \div W) \in Int /\ x % W = x + W * (-(x \div W))
  BY <1>1
<1> QED BY <1>1, <1>2

\* Numbers that are whole rounds apart have the same remainder.
LEMMA SameRemainder ==
    ASSUME NEW W \in Nat \ {0}, NEW x \in Int, NEW y \in Int, NEW q \in Int, x = y + W * q
    PROVE  x % W = y % W
<1>1. PICK c \in Int : x % W = x + W * c /\ x % W \in 0 .. W - 1
  BY RoundsOff
<1>2. PICK d \in Int : y % W = y + W * d /\ y % W \in 0 .. W - 1
  BY RoundsOff
<1> DEFINE a == x % W
           b == y % W
           k == q + c - d
<1>3. a \in 0 .. W - 1 /\ b \in 0 .. W - 1 /\ k \in Int /\ a - b = W * k
  BY <1>1, <1>2
<1> HIDE DEF a, b, k
<1>4. CASE k >= 1
  BY <1>3, <1>4
<1>5. CASE k <= -1
  BY <1>3, <1>5
<1>6. CASE k = 0
  BY <1>3, <1>6 DEF a, b
<1> QED BY <1>3, <1>4, <1>5, <1>6

LEMMA RoundsAdd ==
    ASSUME NEW W \in Int, NEW a \in Int, NEW d \in Int, NEW r \in Int, NEW q \in Int, NEW c \in Int,
           a + d = r + W * q
    PROVE  a + (d + W * c) = r + W * (q + c)
  OBVIOUS

LEMMA StopwatchStarts == ClockInit => StopwatchInv
<1> SUFFICES ASSUME ClockInit PROVE StopwatchInv
  OBVIOUS
<1>1. sw = [acc |-> 0, start |-> 0, run |-> FALSE] /\ jiffies = JiffyRange - 2 /\ ran = 0
  BY DEF ClockInit
<1>2. StopwatchTyped
  BY <1>1, JiffyRangeIs DEF StopwatchTyped
<1>3. 0 \in Int /\ 0 + 0 = 0 + JiffyRange * 0
  BY JiffyRangeIs
<1>4. Counted
  BY <1>1, <1>3 DEF Counted
<1> QED BY <1>2, <1>4 DEF StopwatchInv

LEMMA StopwatchSteps == StopwatchInv /\ [ClockNext]_clockVars => StopwatchInv'
<1> SUFFICES ASSUME StopwatchInv, [ClockNext]_clockVars PROVE StopwatchInv'
  OBVIOUS
<1> DEFINE W == JiffyRange
           acc == sw.acc
           start == sw.start
           run == sw.run
<1>0. /\ W \in Nat \ {0} /\ W > 1 /\ acc \in 0 .. W - 1 /\ start \in 0 .. W - 1 /\ run \in BOOLEAN
      /\ jiffies \in 0 .. W - 1 /\ ran \in Nat /\ sw = [acc |-> acc, start |-> start, run |-> run]
  BY JiffyRangeIs DEF StopwatchInv, StopwatchTyped
<1>i. acc \in Int /\ start \in Int /\ jiffies \in Int /\ ran \in Int /\ W \in Int
  BY <1>0
<1>q. PICK q \in Int : acc + (IF run THEN jiffies - start ELSE 0) = ran + W * q
  BY DEF StopwatchInv, Counted
<1>1. CASE Jiffy
  <2>1. jiffies' = (jiffies + 1) % W /\ ran' = (IF run THEN ran + 1 ELSE ran) /\ UNCHANGED sw
    BY <1>1 DEF Jiffy
  <2>2. PICK c \in Int : (jiffies + 1) % W = jiffies + 1 + W * c /\ (jiffies + 1) % W \in 0 .. W - 1
    <3>1. jiffies + 1 \in Int
      BY <1>i
    <3> HIDE DEF W
    <3> QED BY <3>1, <1>0, RoundsOff
  <2>3. PICK j \in 0 .. W - 1 : jiffies' = j /\ j = jiffies + 1 + W * c
    BY <2>1, <2>2
  <2>4. StopwatchTyped'
    <3>1. PICK n \in Nat : ran' = n
      BY <2>1, <1>0
    <3> QED BY <3>1, <2>1, <2>3, <1>0 DEF StopwatchTyped
  <2>5. Counted'
    <3>1. CASE run
      <4>1. q + c \in Int /\ acc + (j - start) = (ran + 1) + W * (q + c)
        BY <3>1, <1>q, <1>i, <2>3
      <4>2. ran' = ran + 1
        BY <2>1, <3>1
      <4> QED BY <4>1, <4>2, <3>1, <2>1, <2>3 DEF Counted
    <3>2. CASE ~run
      BY <3>2, <1>q, <2>1 DEF Counted
    <3> QED BY <3>1, <3>2
  <2> QED BY <2>4, <2>5 DEF StopwatchInv
<1>2. CASE StartStop
  <2>0. UNCHANGED <<jiffies, ran>>
    BY <1>2 DEF StartStop
  <2>1. CASE run
    <3>1. sw' = [sw EXCEPT !.acc = (@ + Since(start)) % W, !.run = FALSE]
      BY <1>2, <2>1 DEF StartStop
    <3>2. PICK c \in Int : Since(start) = jiffies - start + W * c
      <4>1. jiffies - start \in Int
        BY <1>i
      <4> HIDE DEF W, start
      <4> QED BY <4>1, <1>0, RoundsOff DEF Since, W
    <3>3. PICK d \in Int : (acc + Since(start)) % W = acc + Since(start) + W * d
                           /\ (acc + Since(start)) % W \in 0 .. W - 1
      <4>1. acc + Since(start) \in Int
        BY <3>2, <1>i
      <4> HIDE DEF W, start, acc
      <4> QED BY <4>1, <1>0, RoundsOff
    <3>4. PICK a \in 0 .. W - 1 : a = (acc + Since(start)) % W
      BY <3>3
    <3>5. sw' = [acc |-> a, start |-> start, run |-> FALSE]
      BY <3>1, <3>4, <1>0
    <3>6. q + c + d \in Int /\ a + 0 = ran + W * (q + c + d)
      <4>1. acc + (jiffies - start) = ran + W * q
        BY <1>q, <2>1
      <4>2. a = acc + (jiffies - start + W * c) + W * d
        BY <3>2, <3>3, <3>4
      <4> HIDE DEF W, acc, start
      <4>3. a \in Int
        BY <3>4, <1>0
      <4> QED BY <4>1, <4>2, <4>3, <1>i
    <3>7. StopwatchTyped'
      BY <3>5, <2>0, <1>0 DEF StopwatchTyped
    <3>8. Counted'
      BY <3>5, <3>6, <2>0 DEF Counted
    <3> QED BY <3>7, <3>8 DEF StopwatchInv
  <2>2. CASE ~run
    <3>1. sw' = [sw EXCEPT !.start = jiffies, !.run = TRUE]
      BY <1>2, <2>2 DEF StartStop
    <3>2. sw' = [acc |-> acc, start |-> jiffies, run |-> TRUE]
      BY <3>1, <1>0
    <3>3. acc + (jiffies - jiffies) = ran + W * q
      BY <1>q, <2>2, <1>i
    <3>4. StopwatchTyped'
      BY <3>2, <2>0, <1>0 DEF StopwatchTyped
    <3>5. Counted'
      BY <3>2, <3>3, <2>0 DEF Counted
    <3> QED BY <3>4, <3>5 DEF StopwatchInv
  <2> QED BY <2>1, <2>2
<1>3. CASE Raz
  <2>1. sw' = [acc |-> 0, start |-> jiffies, run |-> FALSE] /\ ran' = 0 /\ UNCHANGED jiffies
    BY <1>3 DEF Raz
  <2>2. StopwatchTyped'
    BY <2>1, <1>0 DEF StopwatchTyped
  <2>3. 0 \in Int /\ 0 + 0 = 0 + W * 0
    BY <1>i
  <2>4. Counted'
    BY <2>1, <2>3 DEF Counted
  <2> QED BY <2>2, <2>4 DEF StopwatchInv
<1>4. CASE UNCHANGED <<sw, jiffies, ran>>
  BY <1>4 DEF StopwatchInv, StopwatchTyped, Counted
<1>5. ASSUME NEW by \in {1, -1}, Turn(by) PROVE UNCHANGED <<sw, jiffies, ran>>
  BY <1>5 DEF Turn
<1>6. Second \/ Draw \/ Read \/ Today => UNCHANGED <<sw, jiffies, ran>>
  BY DEF Second, Draw, Read, Today
<1> QED BY <1>1, <1>2, <1>3, <1>4, <1>5, <1>6 DEF ClockNext, clockVars

\* ClockWindow.cpp: over all starts and stops, and however often jiffies wraps, the
\* stopwatch shows how long it ran.
THEOREM StopwatchStaysTrue == ClockSpec => []StopwatchTrue
<1>1. StopwatchInv => StopwatchTrue
  <2> SUFFICES ASSUME StopwatchInv PROVE StopwatchTrue
    OBVIOUS
  <2> DEFINE W == JiffyRange
  <2>0. /\ W \in Nat \ {0} /\ W \in Int /\ sw.acc \in Int /\ sw.start \in Int
        /\ jiffies \in Int /\ ran \in Int
    BY JiffyRangeIs DEF StopwatchInv, StopwatchTyped
  <2>1. PICK q \in Int : sw.acc + (IF sw.run THEN jiffies - sw.start ELSE 0) = ran + W * q
    BY DEF StopwatchInv, Counted
  <2>2. CASE sw.run
    <3>1. PICK c \in Int : Since(sw.start) = jiffies - sw.start + W * c
      <4>1. jiffies - sw.start \in Int
        BY <2>0
      <4> HIDE DEF W
      <4> QED BY <4>1, <2>0, RoundsOff DEF Since, W
    <3>2. PICK x \in Int : x = sw.acc + Since(sw.start)
      BY <3>1, <2>0
    <3>3. q + c \in Int /\ x = ran + W * (q + c)
      <4>1. sw.acc + (jiffies - sw.start) = ran + W * q
        BY <2>1, <2>2
      <4>2. x = sw.acc + (jiffies - sw.start + W * c)
        BY <3>1, <3>2
      <4>3. q \in Int /\ c \in Int /\ jiffies - sw.start \in Int
        BY <2>0, <2>1, <3>1
      <4> HIDE DEF W
      <4>4. sw.acc + ((jiffies - sw.start) + W * c) = ran + W * (q + c)
        BY <4>1, <4>3, <2>0, RoundsAdd
      <4>5. q + c \in Int
        BY <4>3
      <4> QED BY <4>2, <4>4, <4>5, Zenon
    <3>4. x % W = ran % W
      <4> HIDE DEF W
      <4> QED BY <3>2, <3>3, <2>0, SameRemainder
    <3> QED BY <3>2, <3>4, <2>2 DEF StopwatchTrue, Shown
  <2>3. CASE ~sw.run
    <3>1. sw.acc + 0 = ran + W * q /\ sw.acc + 0 \in Int
      BY <2>1, <2>3, <2>0
    <3>2. (sw.acc + 0) % W = ran % W
      <4> HIDE DEF W
      <4> QED BY <3>1, <2>0, SameRemainder
    <3> QED BY <3>2, <2>3 DEF StopwatchTrue, Shown
  <2> QED BY <2>2, <2>3
<1> QED BY StopwatchStarts, StopwatchSteps, <1>1, PTL DEF ClockSpec

-----------------------------------------------------------------------------
(***************************************************************************)
(* The calendar and the dial.  A drawing asks for the hour, the minute and *)
(* the second in this order (Orderly): what has been read of them is at    *)
(* each moment a time the clock has passed since the drawing began         *)
(* (HourLags, MinuteLags, SecondLags), and what has been read of the date  *)
(* is the date until midnight (DateHolds).                                 *)
(***************************************************************************)

HourReg == <<"time", "h">>
MinuteReg == <<"time", "mi">>
SecondReg == <<"time", "s">>
MonthReg == <<"cal", "mo">>
YearReg == <<"cal", "y">>
Times == [h : 0 .. HOURS - 1, mi : 0 .. MINS - 1, s : 0 .. SECS - 1, d : 1 .. 31, mo : 1 .. 12, y : 0 .. 99]
Months == [y : Int, m : 1 .. 12]

ClockTyped ==
    /\ rtc \in Times /\ began \in Times /\ midnight \in BOOLEAN /\ draws \in Nat
    /\ reads \in Seq(Registers) /\ got \in [Registers -> Int]
    /\ anchor \in Months /\ cal \in Months /\ leafed \in Int
Pending(reg) == \E i \in 1 .. Len(reads) : reads[i] = reg
Orderly ==
    \A i \in 1 .. Len(reads) :
        /\ reads[i] = HourReg => i < Len(reads) /\ reads[i + 1] = MinuteReg
        /\ reads[i] = MinuteReg => i < Len(reads) /\ reads[i + 1] = SecondReg
Taken == Pending(YearReg) /\ reads[1] # MonthReg => got[MonthReg] \in 1 .. 12
Leafing == cal.y # 0 => (12 * cal.y) + cal.m = (12 * anchor.y) + anchor.m + leafed
HourLags == began.h <= rtc.h /\ (~Pending(HourReg) => got[HourReg] \in began.h .. rtc.h)
MinuteLags ==
    ~Pending(MinuteReg) =>
        got[MinuteReg] \in 0 .. MINS - 1 /\ (got[HourReg] = rtc.h => got[MinuteReg] <= rtc.mi)
SecondLags ==
    ~Pending(SecondReg) =>
        /\ got[SecondReg] \in 0 .. SECS - 1
        /\ got[HourReg] = rtc.h /\ got[MinuteReg] = rtc.mi => got[SecondReg] <= rtc.s
DateHolds ==
    \A reg \in {"d", "mo", "y"}, of \in {"date", "today"} :
        ~Pending(<<of, reg>>) => got[<<of, reg>>] = rtc[reg]
Lagging == draws > 0 /\ ~midnight => HourLags /\ MinuteLags /\ SecondLags /\ DateHolds
ClockInv == ClockTyped /\ Orderly /\ Taken /\ Leafing /\ Lagging

LEMMA RegistersAre ==
    Registers = {HourReg, MinuteReg, SecondReg, <<"date", "d">>, <<"date", "mo">>, <<"date", "y">>,
                 <<"today", "d">>, <<"today", "mo">>, <<"today", "y">>, MonthReg, YearReg}
  BY DEF Registers, DrawReads, SyncReads, ToSet, HourReg, MinuteReg, SecondReg, MonthReg, YearReg

LEMMA ClockSizes == HOURS \in Nat \ {0} /\ MINS \in Nat \ {0} /\ SECS \in Nat \ {0}
  BY ClockAssumption

LEMMA MonthsAreLong ==
    ASSUME NEW y \in Int, NEW m \in 1 .. 12
    PROVE  DaysInMonth(y, m) \in 28 .. 31
  BY DEF DaysInMonth

\* What a change of several fields comes to.
LEMMA Zeroed ==
    ASSUME NEW r \in Times
    PROVE  /\ [r EXCEPT !.s = 0, !.mi = @ + 1] =
                  [h |-> r.h, mi |-> r.mi + 1, s |-> 0, d |-> r.d, mo |-> r.mo, y |-> r.y]
           /\ [r EXCEPT !.s = 0, !.mi = 0, !.h = @ + 1] =
                  [h |-> r.h + 1, mi |-> 0, s |-> 0, d |-> r.d, mo |-> r.mo, y |-> r.y]
           /\ [r EXCEPT !.s = 0, !.mi = 0, !.h = 0] =
                  [h |-> 0, mi |-> 0, s |-> 0, d |-> r.d, mo |-> r.mo, y |-> r.y]
<1>1. /\ r = [h |-> r.h, mi |-> r.mi, s |-> r.s, d |-> r.d, mo |-> r.mo, y |-> r.y]
      /\ r.h \in Int /\ r.mi \in Int /\ r.s \in Int /\ r.d \in Int /\ r.mo \in Int /\ r.y \in Int
  BY ClockSizes DEF Times
<1>2. PICK h \in Int, mi \in Int, s \in Int, d \in Int, mo \in Int, y \in Int :
          h = r.h /\ mi = r.mi /\ s = r.s /\ d = r.d /\ mo = r.mo /\ y = r.y
  BY <1>1
<1>3. r = [h |-> h, mi |-> mi, s |-> s, d |-> d, mo |-> mo, y |-> y]
  BY <1>1, <1>2
<1> DEFINE p == [r EXCEPT !.s = 0]
           q == [p EXCEPT !.mi = 0]
<1>4. p = [h |-> h, mi |-> mi, s |-> 0, d |-> d, mo |-> mo, y |-> y]
  BY <1>3
<1>5. /\ [r EXCEPT !.s = 0, !.mi = @ + 1] = [p EXCEPT !.mi = @ + 1]
      /\ [r EXCEPT !.s = 0, !.mi = 0, !.h = @ + 1] = [q EXCEPT !.h = @ + 1]
      /\ [r EXCEPT !.s = 0, !.mi = 0, !.h = 0] = [q EXCEPT !.h = 0]
  OBVIOUS
<1> HIDE DEF p
<1>6. q = [h |-> h, mi |-> 0, s |-> 0, d |-> d, mo |-> mo, y |-> y]
  BY <1>4
<1> HIDE DEF q
<1>7. [p EXCEPT !.mi = @ + 1] = [h |-> h, mi |-> mi + 1, s |-> 0, d |-> d, mo |-> mo, y |-> y]
  BY <1>4
<1>8. [q EXCEPT !.h = @ + 1] = [h |-> h + 1, mi |-> 0, s |-> 0, d |-> d, mo |-> mo, y |-> y]
  BY <1>6
<1>9. [q EXCEPT !.h = 0] = [h |-> 0, mi |-> 0, s |-> 0, d |-> d, mo |-> mo, y |-> y]
  BY <1>6
<1> QED BY <1>2, <1>5, <1>7, <1>8, <1>9

\* A second later it is later on the same day, or another day.
LEMMA TickedIs ==
    ASSUME NEW r \in Times
    PROVE  /\ Ticked(r) \in Times
           /\ Ticked(r).d = r.d =>
                /\ Ticked(r).mo = r.mo /\ Ticked(r).y = r.y
                /\ \/ Ticked(r).h > r.h
                   \/ Ticked(r).h = r.h /\ Ticked(r).mi > r.mi
                   \/ Ticked(r).h = r.h /\ Ticked(r).mi = r.mi /\ Ticked(r).s > r.s
<1> DEFINE z == [r EXCEPT !.s = 0, !.mi = 0, !.h = 0]
<1>0. /\ r.h \in 0 .. HOURS - 1 /\ r.mi \in 0 .. MINS - 1 /\ r.s \in 0 .. SECS - 1
      /\ r.d \in 1 .. 31 /\ r.mo \in 1 .. 12 /\ r.y \in 0 .. 99
      /\ r = [h |-> r.h, mi |-> r.mi, s |-> r.s, d |-> r.d, mo |-> r.mo, y |-> r.y]
  BY DEF Times
<1>1. CASE r.s < SECS - 1
  <2>1. Ticked(r) = [r EXCEPT !.s = @ + 1]
    BY <1>1 DEF Ticked
  <2> QED BY <2>1, <1>0, <1>1, ClockSizes DEF Times
<1>2. CASE ~(r.s < SECS - 1) /\ r.mi < MINS - 1
  <2>1. Ticked(r) = [r EXCEPT !.s = 0, !.mi = @ + 1]
    BY <1>2 DEF Ticked
  <2>2. Ticked(r) = [h |-> r.h, mi |-> r.mi + 1, s |-> 0, d |-> r.d, mo |-> r.mo, y |-> r.y]
    BY <2>1, Zeroed
  <2> QED BY <2>2, <1>0, <1>2, ClockSizes DEF Times
<1>3. CASE ~(r.s < SECS - 1) /\ ~(r.mi < MINS - 1) /\ r.h < HOURS - 1
  <2>1. Ticked(r) = [r EXCEPT !.s = 0, !.mi = 0, !.h = @ + 1]
    BY <1>3 DEF Ticked
  <2>2. Ticked(r) = [h |-> r.h + 1, mi |-> 0, s |-> 0, d |-> r.d, mo |-> r.mo, y |-> r.y]
    BY <2>1, Zeroed
  <2> QED BY <2>2, <1>0, <1>3, ClockSizes DEF Times
<1>4. CASE ~(r.s < SECS - 1) /\ ~(r.mi < MINS - 1) /\ ~(r.h < HOURS - 1)
  <2>1. Ticked(r) = NextDay(z)
    BY <1>4 DEF Ticked
  <2>2. z = [h |-> 0, mi |-> 0, s |-> 0, d |-> r.d, mo |-> r.mo, y |-> r.y]
    BY Zeroed
  <2>3. PICK n \in 28 .. 31 : DaysInMonth(2000 + r.y, r.mo) = n
    BY <1>0, MonthsAreLong
  <2>4. PICK c \in 0 .. 99 : c = (r.y + 1) % 100
    BY <1>0
  <2>5. z.d = r.d /\ z.mo = r.mo /\ z.y = r.y
    BY <2>2
  <2> HIDE DEF z
  <2>6. CASE r.d < n
    <3>1. Ticked(r) = [z EXCEPT !.d = @ + 1]
      BY <2>1, <2>3, <2>5, <2>6 DEF NextDay
    <3>2. Ticked(r) = [h |-> 0, mi |-> 0, s |-> 0, d |-> r.d + 1, mo |-> r.mo, y |-> r.y]
      BY <3>1, <2>2
    <3> QED BY <3>2, <1>0, <2>6, ClockSizes DEF Times
  <2>7. CASE ~(r.d < n) /\ r.mo < 12
    <3>1. Ticked(r) = [z EXCEPT !.d = 1, !.mo = @ + 1]
      BY <2>1, <2>3, <2>5, <2>7 DEF NextDay
    <3>2. Ticked(r) = [h |-> 0, mi |-> 0, s |-> 0, d |-> 1, mo |-> r.mo + 1, y |-> r.y]
      BY <3>1, <2>2, <2>5
    <3> QED BY <3>2, <1>0, <2>7, ClockSizes DEF Times
  <2>8. CASE ~(r.d < n) /\ ~(r.mo < 12)
    <3>1. Ticked(r) = [z EXCEPT !.d = 1, !.mo = 1, !.y = (@ + 1) % 100]
      BY <2>1, <2>3, <2>5, <2>8 DEF NextDay
    <3>2. Ticked(r) = [h |-> 0, mi |-> 0, s |-> 0, d |-> 1, mo |-> 1, y |-> c]
      BY <3>1, <2>2, <2>4, <2>5
    <3> QED BY <3>2, <1>0, <2>8, ClockSizes DEF Times
  <2> QED BY <2>6, <2>7, <2>8
<1> QED BY <1>1, <1>2, <1>3, <1>4

LEMMA Multiplied ==
    ASSUME NEW a \in Int, NEW b \in Int, NEW c \in Nat, a <= b
    PROVE  a * c <= b * c
<1>1. b - a \in Nat /\ (b - a) * c >= 0 /\ (b - a) * c = b * c - a * c
  OBVIOUS
<1> QED BY <1>1

\* A time that is earlier from the hour down is earlier in seconds.
LEMMA LaterInSeconds ==
    ASSUME NEW M \in Nat \ {0}, NEW S \in Nat \ {0}, NEW h \in Int, NEW k \in Int,
           NEW mi \in 0 .. M - 1, NEW mj \in 0 .. M - 1, NEW s \in 0 .. S - 1, NEW t \in 0 .. S - 1,
           h < k \/ (h = k /\ mi < mj) \/ (h = k /\ mi = mj /\ s <= t)
    PROVE  (((h * M) + mi) * S) + s <= (((k * M) + mj) * S) + t
<1> DEFINE hm == h * M
           km == k * M
           a == hm + mi
           b == km + mj
<1>1. hm \in Int /\ km \in Int /\ (h = k => hm = km)
  OBVIOUS
<1>2. h < k => hm + M <= km
  <2>1. (h + 1) * M = hm + M
    OBVIOUS
  <2>2. h < k => (h + 1) * M <= k * M
    BY Multiplied
  <2> QED BY <2>1, <2>2
<1> HIDE DEF hm, km
<1>3. a \in Int /\ b \in Int /\ (a < b \/ (a = b /\ s <= t))
  BY <1>1, <1>2
<1> HIDE DEF a, b
<1>4. CASE a < b
  <2>1. (a + 1) * S = a * S + S
    BY <1>3
  <2>2. (a + 1) * S <= b * S
    BY <1>3, <1>4, Multiplied
  <2>3. a * S \in Int /\ b * S \in Int
    BY <1>3
  <2> QED BY <2>1, <2>2, <2>3 DEF a, b, hm, km
<1>5. CASE a = b /\ s <= t
  <2>1. a * S = b * S /\ a * S \in Int
    BY <1>3, <1>5
  <2> QED BY <2>1, <1>5 DEF a, b, hm, km
<1> QED BY <1>3, <1>4, <1>5

LEMMA ClockStarts == ClockInit => ClockInv
<1> SUFFICES ASSUME ClockInit PROVE ClockInv
  OBVIOUS
<1>1. PICK date \in FirstDates :
          rtc = [h |-> HOURS - 1, mi |-> MINS - 1, s |-> 0, d |-> date[1], mo |-> date[2], y |-> date[3]]
  BY DEF ClockInit
<1>2. date[1] \in 1 .. 31 /\ date[2] \in 1 .. 12 /\ date[3] \in 0 .. 99
  BY ClockAssumption
<1>3. rtc \in Times
  BY <1>1, <1>2, ClockSizes DEF Times
<1>4. /\ reads = <<>> /\ got = [r \in Registers |-> 0] /\ began = rtc /\ midnight = FALSE
      /\ cal = [y |-> 0, m |-> 1] /\ anchor = cal /\ leafed = 0 /\ draws = 0
  BY DEF ClockInit
<1>5. reads \in Seq(Registers) /\ Len(reads) = 0
  BY <1>4, EmptySeq
<1>6. ClockTyped
  <2>1. got \in [Registers -> Int]
    BY <1>4
  <2>2. cal \in Months /\ anchor \in Months
    BY <1>4 DEF Months
  <2>3. began \in Times /\ draws \in Nat /\ leafed \in Int
    BY <1>3, <1>4
  <2>4. midnight \in BOOLEAN
    BY <1>4, Zenon
  <2> QED BY <1>3, <1>5, <2>1, <2>2, <2>3, <2>4, Zenon DEF ClockTyped
<1>7. Orderly /\ Taken
  BY <1>5 DEF Orderly, Taken, Pending
<1>8. Leafing /\ Lagging
  BY <1>4 DEF Leafing, Lagging
<1> QED BY <1>6, <1>7, <1>8 DEF ClockInv

\* What is read for a drawing, in which order.
LEMMA DrawReadsAre ==
    ASSUME NEW rs, rs = DrawReads \/ rs = SyncReads \o DrawReads
    PROVE  /\ rs \in Seq(Registers)
           /\ \A i \in 1 .. Len(rs) :
                 /\ rs[i] = HourReg => i < Len(rs) /\ rs[i + 1] = MinuteReg
                 /\ rs[i] = MinuteReg => i < Len(rs) /\ rs[i + 1] = SecondReg
           /\ \A reg \in {HourReg, MinuteReg, SecondReg} : \E i \in 1 .. Len(rs) : rs[i] = reg
           /\ \A reg \in {"d", "mo", "y"}, of \in {"date", "today"} : \E i \in 1 .. Len(rs) : rs[i] = <<of, reg>>
           /\ rs = DrawReads => ~\E i \in 1 .. Len(rs) : rs[i] = YearReg
           /\ rs # DrawReads => rs[1] = MonthReg
<1>1. /\ Len(DrawReads) = 9 /\ DrawReads \in Seq(Registers)
      /\ DrawReads[1] = HourReg /\ DrawReads[2] = MinuteReg /\ DrawReads[3] = SecondReg
      /\ DrawReads[4] = <<"date", "d">> /\ DrawReads[5] = <<"date", "mo">> /\ DrawReads[6] = <<"date", "y">>
      /\ DrawReads[7] = <<"today", "d">> /\ DrawReads[8] = <<"today", "mo">> /\ DrawReads[9] = <<"today", "y">>
  BY RegistersAre DEF DrawReads, HourReg, MinuteReg, SecondReg
<1>2. /\ Len(SyncReads) = 2 /\ SyncReads \in Seq(Registers)
      /\ SyncReads[1] = MonthReg /\ SyncReads[2] = YearReg
  BY RegistersAre DEF SyncReads, MonthReg, YearReg
<1> DEFINE both == SyncReads \o DrawReads
<1>3. /\ both \in Seq(Registers) /\ Len(both) = 11
      /\ \A i \in 1 .. 11 : both[i] = IF i <= 2 THEN SyncReads[i] ELSE DrawReads[i - 2]
  <2>1. /\ both \in Seq(Registers) /\ Len(both) = Len(SyncReads) + Len(DrawReads)
        /\ \A i \in 1 .. Len(SyncReads) + Len(DrawReads) :
              both[i] = IF i <= Len(SyncReads) THEN SyncReads[i] ELSE DrawReads[i - Len(SyncReads)]
    BY <1>1, <1>2, ConcatProperties
  <2>2. Len(SyncReads) = 2 /\ Len(DrawReads) = 9 /\ 2 + 9 = 11
    BY <1>1, <1>2
  <2> HIDE DEF both
  <2> QED BY <2>1, <2>2, Zenon
<1> HIDE DEF both
<1>4. /\ HourReg \notin {MinuteReg, SecondReg, MonthReg, YearReg}
      /\ MinuteReg \notin {SecondReg, MonthReg, YearReg}
      /\ SecondReg \notin {MonthReg, YearReg} /\ MonthReg # YearReg
      /\ {<<"date", "d">>, <<"date", "mo">>, <<"date", "y">>, <<"today", "d">>, <<"today", "mo">>, <<"today", "y">>}
            \cap {HourReg, MinuteReg, SecondReg, MonthReg, YearReg} = {}
  BY DEF HourReg, MinuteReg, SecondReg, MonthReg, YearReg
<1>n. /\ \A i \in 4 .. 9 : DrawReads[i] \notin {HourReg, MinuteReg, SecondReg, MonthReg, YearReg}
  <2>1. \A i \in 4 .. 9 : i = 4 \/ i = 5 \/ i = 6 \/ i = 7 \/ i = 8 \/ i = 9
    OBVIOUS
  <2> QED BY <1>1, <1>4, <2>1
<1>d. \A reg \in {"d", "mo", "y"}, of \in {"date", "today"} : \E i \in 4 .. 9 : DrawReads[i] = <<of, reg>>
  <2>1. 4 \in 4 .. 9 /\ 5 \in 4 .. 9 /\ 6 \in 4 .. 9 /\ 7 \in 4 .. 9 /\ 8 \in 4 .. 9 /\ 9 \in 4 .. 9
    OBVIOUS
  <2> QED BY <1>1, <2>1
<1>5. CASE rs = DrawReads
  <2>2. rs \in Seq(Registers) /\ Len(rs) = 9
    BY <1>5, <1>1
  <2>3. \A i \in 1 .. 9 : i = 1 \/ i = 2 \/ i = 3 \/ i \in 4 .. 9
    OBVIOUS
  <2>4. \A i \in 1 .. 9 : /\ rs[i] = HourReg => i = 1
                          /\ rs[i] = MinuteReg => i = 2
                          /\ rs[i] # YearReg
    BY <1>1, <1>4, <1>5, <1>n, <2>3
  <2>5. 1 \in 1 .. 9 /\ 2 \in 1 .. 9 /\ 3 \in 1 .. 9 /\ 1 + 1 = 2 /\ 2 + 1 = 3
    OBVIOUS
  <2>6. \A i \in 1 .. 9 :
            /\ rs[i] = HourReg => i < 9 /\ rs[i + 1] = MinuteReg
            /\ rs[i] = MinuteReg => i < 9 /\ rs[i + 1] = SecondReg
    BY <1>1, <1>5, <2>4, <2>5
  <2>7. \A reg \in {HourReg, MinuteReg, SecondReg} : \E i \in 1 .. 9 : rs[i] = reg
    BY <1>1, <1>5, <2>5
  <2>8. \A reg \in {"d", "mo", "y"}, of \in {"date", "today"} : \E i \in 1 .. 9 : rs[i] = <<of, reg>>
    BY <1>d, <1>5
  <2> QED BY <1>5, <2>2, <2>4, <2>6, <2>7, <2>8
<1>6. CASE rs # DrawReads
  <2>1. rs = both
    BY <1>6 DEF both
  <2>2. rs \in Seq(Registers) /\ Len(rs) = 11
    BY <2>1, <1>3
  <2>3. /\ rs[1] = SyncReads[1] /\ rs[2] = SyncReads[2]
        /\ \A i \in 1 .. 9 : i + 2 \in 1 .. 11 /\ rs[i + 2] = DrawReads[i]
    <3>1. \A i \in 1 .. 11 : rs[i] = IF i <= 2 THEN SyncReads[i] ELSE DrawReads[i - 2]
      BY <2>1, <1>3
    <3>2. \A i \in 1 .. 9 : i + 2 \in 1 .. 11 /\ ~(i + 2 <= 2) /\ (i + 2) - 2 = i
      OBVIOUS
    <3>3. \A i \in 1 .. 9 : rs[i + 2] = DrawReads[(i + 2) - 2]
      BY <3>1, <3>2
    <3> QED BY <3>1, <3>2, <3>3
  <2>4. \A i \in 1 .. 11 : i = 1 \/ i = 2 \/ i = 3 \/ i = 4 \/ i = 5 \/ (i - 2 \in 4 .. 9 /\ (i - 2) + 2 = i)
    OBVIOUS
  <2>5. rs[3] = HourReg /\ rs[4] = MinuteReg /\ rs[5] = SecondReg
    <3>1. 1 + 2 = 3 /\ 2 + 2 = 4 /\ 3 + 2 = 5 /\ 1 \in 1 .. 9 /\ 2 \in 1 .. 9 /\ 3 \in 1 .. 9
      OBVIOUS
    <3> QED BY <3>1, <2>3, <1>1
  <2>6. \A i \in 4 .. 9 : rs[i + 2] \notin {HourReg, MinuteReg}
    <3>1. \A i \in 4 .. 9 : i \in 1 .. 9
      OBVIOUS
    <3> QED BY <3>1, <2>3, <1>n
  <2>7. \A i \in 1 .. 11 : /\ rs[i] = HourReg => i = 3
                           /\ rs[i] = MinuteReg => i = 4
    <3> SUFFICES ASSUME NEW i \in 1 .. 11
                 PROVE  /\ rs[i] = HourReg => i = 3
                        /\ rs[i] = MinuteReg => i = 4
      OBVIOUS
    <3>1. CASE i = 1 \/ i = 2
      <4>1. rs[i] \in {MonthReg, YearReg}
        BY <3>1, <2>3, <1>2
      <4> QED BY <4>1, <1>4
    <3>2. CASE i = 3 \/ i = 4 \/ i = 5
      BY <3>2, <2>5, <1>4
    <3>3. CASE i - 2 \in 4 .. 9 /\ (i - 2) + 2 = i
      <4>1. rs[(i - 2) + 2] \notin {HourReg, MinuteReg}
        BY <3>3, <2>6
      <4> QED BY <4>1, <3>3
    <3> QED BY <3>1, <3>2, <3>3, <2>4
  <2>8. 1 \in 1 .. 11 /\ 3 \in 1 .. 11 /\ 4 \in 1 .. 11 /\ 5 \in 1 .. 11 /\ 3 + 1 = 4 /\ 4 + 1 = 5
    OBVIOUS
  <2>9. \A i \in 1 .. 11 :
            /\ rs[i] = HourReg => i < 11 /\ rs[i + 1] = MinuteReg
            /\ rs[i] = MinuteReg => i < 11 /\ rs[i + 1] = SecondReg
    BY <2>5, <2>7, <2>8
  <2>10. \A reg \in {HourReg, MinuteReg, SecondReg} : \E i \in 1 .. 11 : rs[i] = reg
    BY <2>5, <2>8
  <2>11. \A reg \in {"d", "mo", "y"}, of \in {"date", "today"} : \E i \in 1 .. 11 : rs[i] = <<of, reg>>
    <3> SUFFICES ASSUME NEW reg \in {"d", "mo", "y"}, NEW of \in {"date", "today"}
                 PROVE  \E i \in 1 .. 11 : rs[i] = <<of, reg>>
      OBVIOUS
    <3>1. PICK i \in 4 .. 9 : DrawReads[i] = <<of, reg>>
      BY <1>d
    <3>2. i \in 1 .. 9 /\ i + 2 \in 1 .. 11 /\ rs[i + 2] = DrawReads[i]
      BY <2>3
    <3> QED BY <3>1, <3>2
  <2>12. rs[1] = MonthReg
    BY <1>2, <2>3
  <2> QED BY <1>6, <2>2, <2>9, <2>10, <2>11, <2>12
<1> QED BY <1>5, <1>6

\* What is read to set the calendar.
LEMMA SyncReadsAre ==
    ASSUME reads' = SyncReads
    PROVE  reads' \in Seq(Registers) /\ Orderly' /\ reads'[1] = MonthReg
<1>1. PICK rs : rs = SyncReads /\ reads' = rs
  OBVIOUS
<1>2. Len(rs) = 2 /\ rs \in Seq(Registers) /\ rs[1] = MonthReg /\ rs[2] = YearReg
  BY <1>1, RegistersAre DEF SyncReads, MonthReg, YearReg
<1>3. {MonthReg, YearReg} \cap {HourReg, MinuteReg} = {}
  BY DEF HourReg, MinuteReg, MonthReg, YearReg
<1>4. Orderly'
  <2>1. \A i \in 1 .. 2 : i = 1 \/ i = 2
    OBVIOUS
  <2>2. \A i \in 1 .. 2 : rs[i] # HourReg /\ rs[i] # MinuteReg
    BY <1>2, <1>3, <2>1
  <2> QED BY <1>1, <1>2, <2>2 DEF Orderly
<1>5. reads'[1] = MonthReg
  BY <1>1, <1>2
<1> QED BY <1>1, <1>2, <1>4, <1>5

\* One register less.
LEMMA TailIs ==
    ASSUME ClockInv, reads # <<>>, reads' = Tail(reads)
    PROVE  /\ reads[1] \in Registers /\ reads' \in Seq(Registers)
           /\ \A reg : ~Pending(reg)' /\ reg # reads[1] => ~Pending(reg)
           /\ \A reg : Pending(reg)' => Pending(reg)
           /\ Orderly'
           /\ reads[1] = HourReg => Pending(MinuteReg)' /\ Pending(SecondReg)'
           /\ reads[1] = MinuteReg => Pending(SecondReg)'
<1>0. reads \in Seq(Registers) /\ Orderly
  BY DEF ClockInv, ClockTyped
<1>1. PICK n \in Nat \ {0} : n = Len(reads)
  BY <1>0, EmptySeq
<1>2. PICK t \in Seq(Registers) : t = Tail(reads)
  BY <1>0, HeadTailProperties
<1>3. Len(t) = n - 1 /\ \A i \in 1 .. n - 1 : t[i] = reads[i + 1]
  BY <1>0, <1>1, <1>2, HeadTailProperties
<1>4. reads' = t
  BY <1>2
<1>5. reads[1] \in Registers
  BY <1>0, <1>1
<1>6. \A i \in 1 .. n : i # 1 => i - 1 \in 1 .. n - 1 /\ reads[i] = t[i - 1]
  BY <1>1, <1>3
<1>7. \A reg : ~Pending(reg)' /\ reg # reads[1] => ~Pending(reg)
  <2> SUFFICES ASSUME NEW reg, reg # reads[1], NEW i \in 1 .. n, reads[i] = reg
               PROVE  \E j \in 1 .. n - 1 : t[j] = reg
    BY <1>1, <1>3, <1>4 DEF Pending
  <2> QED BY <1>6
<1>8. \A reg : Pending(reg)' => Pending(reg)
  <2>1. \A i \in 1 .. n - 1 : i + 1 \in 1 .. n
    BY <1>1
  <2> QED BY <1>1, <1>3, <1>4, <2>1 DEF Pending
<1>9. Orderly'
  <2> SUFFICES ASSUME NEW i \in 1 .. n - 1
               PROVE  /\ t[i] = HourReg => i < n - 1 /\ t[i + 1] = MinuteReg
                      /\ t[i] = MinuteReg => i < n - 1 /\ t[i + 1] = SecondReg
    BY <1>3, <1>4 DEF Orderly
  <2>1. i + 1 \in 1 .. n /\ t[i] = reads[i + 1]
    BY <1>1, <1>3
  <2>2. /\ reads[i + 1] = HourReg => i + 1 < n /\ reads[(i + 1) + 1] = MinuteReg
        /\ reads[i + 1] = MinuteReg => i + 1 < n /\ reads[(i + 1) + 1] = SecondReg
    BY <1>0, <1>1, <2>1 DEF Orderly
  <2>3. i + 1 < n => i + 1 \in 1 .. n - 1 /\ t[i + 1] = reads[(i + 1) + 1]
    BY <1>1, <1>3
  <2> QED BY <1>1, <2>1, <2>2, <2>3
<1>10. /\ reads[1] = HourReg => 1 < n /\ reads[2] = MinuteReg
       /\ reads[1] = MinuteReg => 1 < n /\ reads[2] = SecondReg
       /\ 1 < n /\ reads[2] = MinuteReg => 2 < n /\ reads[3] = SecondReg
  <2>1. 1 \in 1 .. n /\ (1 < n => 2 \in 1 .. n) /\ 1 + 1 = 2 /\ 2 + 1 = 3
    BY <1>1
  <2> QED BY <1>0, <1>1, <2>1 DEF Orderly
<1>11. (1 < n => 1 \in 1 .. n - 1 /\ t[1] = reads[2]) /\ (2 < n => 2 \in 1 .. n - 1 /\ t[2] = reads[3])
  BY <1>1, <1>3
<1>12. /\ reads[1] = HourReg => Pending(MinuteReg)' /\ Pending(SecondReg)'
       /\ reads[1] = MinuteReg => Pending(SecondReg)'
  BY <1>3, <1>4, <1>10, <1>11 DEF Pending
<1> QED BY <1>2, <1>4, <1>5, <1>7, <1>8, <1>9, <1>12

\* Once the hour is read, the minute is not before; once the minute, not the second.
LEMMA InOrder ==
    ASSUME ClockInv
    PROVE  /\ Pending(HourReg) => Pending(MinuteReg)
           /\ Pending(MinuteReg) => Pending(SecondReg)
<1>0. reads \in Seq(Registers) /\ Orderly
  BY DEF ClockInv, ClockTyped
<1>1. PICK n \in Nat : n = Len(reads)
  BY <1>0, LenProperties
<1>2. \A i \in 1 .. n : i < n => i + 1 \in 1 .. n
  BY <1>1
<1> QED BY <1>0, <1>1, <1>2 DEF Orderly, Pending

\* A second goes by: what has been read is no later than before.
LEMMA SecondKeeps ==
    ASSUME ClockInv, Second
    PROVE  ClockInv'
<1>0. /\ rtc \in Times /\ reads \in Seq(Registers) /\ got \in [Registers -> Int] /\ began \in Times
      /\ midnight \in BOOLEAN /\ draws \in Nat
  BY DEF ClockInv, ClockTyped
<1>1. /\ rtc' = Ticked(rtc) /\ midnight' = (midnight \/ rtc'.d # rtc.d)
      /\ UNCHANGED <<reads, got, began, cal, anchor, leafed, draws>>
  BY DEF Second
<1>2. PICK r \in Times : r = Ticked(rtc)
  BY <1>0, TickedIs
<1>3. r.d = rtc.d =>
         /\ r.mo = rtc.mo /\ r.y = rtc.y
         /\ \/ r.h > rtc.h
            \/ r.h = rtc.h /\ r.mi > rtc.mi
            \/ r.h = rtc.h /\ r.mi = rtc.mi /\ r.s > rtc.s
  BY <1>0, <1>2, TickedIs
<1>4. rtc' = r
  BY <1>1, <1>2
<1>5. midnight' \in BOOLEAN
  BY <1>1, Zenon
<1>6. ClockTyped'
  BY <1>1, <1>4, <1>5 DEF ClockInv, ClockTyped
<1>7. Orderly' /\ Taken' /\ Leafing'
  BY <1>1 DEF ClockInv, Orderly, Taken, Leafing, Pending
<1>8. Lagging'
  <2> SUFFICES ASSUME draws > 0, ~midnight' PROVE HourLags' /\ MinuteLags' /\ SecondLags' /\ DateHolds'
    BY <1>1 DEF Lagging
  <2>1. ~midnight /\ r.d = rtc.d
    BY <1>1, <1>4
  <2>2. HourLags /\ MinuteLags /\ SecondLags /\ DateHolds
    BY <2>1 DEF ClockInv, Lagging
  <2>3. /\ r.h \in Int /\ rtc.h \in Int /\ r.mi \in Int /\ rtc.mi \in Int /\ r.s \in Int /\ rtc.s \in Int
        /\ began.h \in Int
    BY <1>0, ClockSizes DEF Times
  <2>4. got[HourReg] \in Int /\ got[MinuteReg] \in Int /\ got[SecondReg] \in Int
    BY <1>0, RegistersAre
  <2>5. \A reg : Pending(reg)' <=> Pending(reg)
    BY <1>1 DEF Pending
  <2>6. HourLags'
    <3>1. began.h <= r.h
      BY <2>1, <2>2, <2>3, <1>3 DEF HourLags
    <3>2. ~Pending(HourReg) => got[HourReg] \in began.h .. r.h
      BY <2>1, <2>2, <2>3, <2>4, <1>3 DEF HourLags
    <3> QED BY <3>1, <3>2, <1>1, <1>4, <2>5 DEF HourLags
  <2>7. MinuteLags'
    <3> SUFFICES ASSUME ~Pending(MinuteReg)
                 PROVE  /\ got[MinuteReg] \in 0 .. MINS - 1
                        /\ got[HourReg] = r.h => got[MinuteReg] <= r.mi
      BY <1>1, <1>4, <2>5 DEF MinuteLags
    <3>1. got[HourReg] \in began.h .. rtc.h
      BY <2>2, InOrder DEF HourLags
    <3> QED BY <3>1, <2>1, <2>2, <2>3, <2>4, <1>3 DEF MinuteLags
  <2>8. SecondLags'
    <3> SUFFICES ASSUME ~Pending(SecondReg)
                 PROVE  /\ got[SecondReg] \in 0 .. SECS - 1
                        /\ got[HourReg] = r.h /\ got[MinuteReg] = r.mi => got[SecondReg] <= r.s
      BY <1>1, <1>4, <2>5 DEF SecondLags
    <3>1. got[HourReg] \in began.h .. rtc.h
      BY <2>2, InOrder DEF HourLags
    <3>2. got[HourReg] = rtc.h => got[MinuteReg] <= rtc.mi
      BY <2>2, InOrder DEF MinuteLags
    <3> QED BY <3>1, <3>2, <2>1, <2>2, <2>3, <2>4, <1>3 DEF SecondLags
  <2>9. DateHolds'
    <3> SUFFICES ASSUME NEW reg \in {"d", "mo", "y"}, NEW of \in {"date", "today"}, ~Pending(<<of, reg>>)
                 PROVE  got[<<of, reg>>] = r[reg]
      BY <1>1, <1>4, <2>5 DEF DateHolds
    <3>1. got[<<of, reg>>] = rtc[reg]
      BY <2>2 DEF DateHolds
    <3> QED BY <3>1, <2>1, <1>3
  <2> QED BY <2>6, <2>7, <2>8, <2>9
<1> QED BY <1>6, <1>7, <1>8 DEF ClockInv

\* A drawing begins: nothing of it is read yet.
LEMMA DrawKeeps ==
    ASSUME ClockInv, Draw
    PROVE  ClockInv'
<1>0. /\ reads' = (IF cal.y = 0 THEN SyncReads ELSE <<>>) \o DrawReads
      /\ began' = rtc /\ midnight' = FALSE /\ draws' = draws + 1
      /\ UNCHANGED <<rtc, got, cal, anchor, leafed>>
  BY DEF Draw
<1>1. <<>> \o DrawReads = DrawReads
  BY DEF DrawReads
<1>2. PICK rs : reads' = rs /\ rs = (IF cal.y = 0 THEN SyncReads \o DrawReads ELSE DrawReads)
  BY <1>0, <1>1
<1>3. rs = DrawReads \/ rs = SyncReads \o DrawReads
  BY <1>2
<1>4. /\ rs \in Seq(Registers)
      /\ \A i \in 1 .. Len(rs) :
            /\ rs[i] = HourReg => i < Len(rs) /\ rs[i + 1] = MinuteReg
            /\ rs[i] = MinuteReg => i < Len(rs) /\ rs[i + 1] = SecondReg
      /\ \A reg \in {HourReg, MinuteReg, SecondReg} : \E i \in 1 .. Len(rs) : rs[i] = reg
      /\ \A reg \in {"d", "mo", "y"}, of \in {"date", "today"} : \E i \in 1 .. Len(rs) : rs[i] = <<of, reg>>
      /\ rs = DrawReads => ~\E i \in 1 .. Len(rs) : rs[i] = YearReg
      /\ rs # DrawReads => rs[1] = MonthReg
  BY <1>3, DrawReadsAre
<1>5. ClockTyped'
  <2>1. midnight' \in BOOLEAN
    BY <1>0, Zenon
  <2>2. PICK n \in Nat : draws' = n
    BY <1>0 DEF ClockInv, ClockTyped
  <2> QED BY <1>0, <1>2, <1>4, <2>1, <2>2 DEF ClockInv, ClockTyped
<1>6. Orderly'
  BY <1>2, <1>4 DEF Orderly
<1>7. Taken'
  BY <1>2, <1>4 DEF Taken, Pending
<1>8. Leafing'
  BY <1>0 DEF ClockInv, Leafing
<1>9. HourLags' /\ MinuteLags' /\ SecondLags'
  <2>1. \A reg \in {HourReg, MinuteReg, SecondReg} : Pending(reg)'
    BY <1>2, <1>4 DEF Pending
  <2>2. began'.h <= rtc'.h
    BY <1>0, ClockSizes DEF ClockInv, ClockTyped, Times
  <2> QED BY <2>1, <2>2 DEF HourLags, MinuteLags, SecondLags
<1>10. DateHolds'
  <2>1. \A reg \in {"d", "mo", "y"}, of \in {"date", "today"} : Pending(<<of, reg>>)'
    <3>1. \A reg \in {"d", "mo", "y"}, of \in {"date", "today"} :
              Pending(<<of, reg>>)' <=> \E i \in 1 .. Len(rs) : rs[i] = <<of, reg>>
      BY <1>2, Zenon DEF Pending
    <3> QED BY <3>1, <1>4, Zenon
  <2> QED BY <2>1 DEF DateHolds
<1> QED BY <1>5, <1>6, <1>7, <1>8, <1>9, <1>10 DEF ClockInv, Lagging

\* The value read off the clock for a register.
LEMMA ReadOff ==
    ASSUME NEW r \in Times
    PROVE  /\ r[HourReg[2]] = r.h /\ r[MinuteReg[2]] = r.mi /\ r[SecondReg[2]] = r.s
           /\ r[MonthReg[2]] = r.mo
           /\ \A reg \in {"d", "mo", "y"}, of \in {"date", "today"} : r[<<of, reg>>[2]] = r[reg]
           /\ \A reg \in Registers : r[reg[2]] \in Int
<1>1. /\ HourReg[2] = "h" /\ MinuteReg[2] = "mi" /\ SecondReg[2] = "s" /\ MonthReg[2] = "mo" /\ YearReg[2] = "y"
      /\ \A reg \in {"d", "mo", "y"}, of \in {"date", "today"} : <<of, reg>>[2] = reg
  BY DEF HourReg, MinuteReg, SecondReg, MonthReg, YearReg
<1>2. \A f \in {"h", "mi", "s", "d", "mo", "y"} : r[f] \in Int
  BY ClockSizes DEF Times
<1>3. \A reg \in Registers : reg[2] \in {"h", "mi", "s", "d", "mo", "y"}
  BY RegistersAre, <1>1
<1> QED BY <1>1, <1>2, <1>3

\* One register is read: it holds what the clock says now.
LEMMA ReadKeeps ==
    ASSUME ClockInv, Read
    PROVE  ClockInv'
<1>0. /\ rtc \in Times /\ reads \in Seq(Registers) /\ got \in [Registers -> Int] /\ began \in Times
      /\ cal \in Months /\ anchor \in Months /\ leafed \in Int
  BY DEF ClockInv, ClockTyped
<1> DEFINE r == reads[1]
<1>1. /\ reads # <<>> /\ reads' = Tail(reads) /\ got' = [got EXCEPT ![r] = rtc[r[2]]]
      /\ UNCHANGED <<rtc, began, midnight, draws>>
  BY DEF Read
<1>2. /\ r \in Registers /\ reads' \in Seq(Registers)
      /\ \A reg : ~Pending(reg)' /\ reg # r => ~Pending(reg)
      /\ \A reg : Pending(reg)' => Pending(reg)
      /\ Orderly'
      /\ r = HourReg => Pending(MinuteReg)' /\ Pending(SecondReg)'
      /\ r = MinuteReg => Pending(SecondReg)'
  BY <1>1, TailIs
<1>3. /\ \A reg \in Registers : reg # r => got'[reg] = got[reg]
      /\ got'[r] = rtc[r[2]]
  BY <1>0, <1>1, <1>2
<1>4. got' \in [Registers -> Int]
  <2>1. PICK v \in Int : v = rtc[r[2]]
    BY <1>0, <1>2, ReadOff
  <2> HIDE DEF r
  <2> QED BY <1>0, <1>1, <1>2, <2>1
<1>5. /\ HourReg # MinuteReg /\ HourReg # SecondReg /\ MinuteReg # SecondReg /\ MonthReg # YearReg
      /\ HourReg \in Registers /\ MinuteReg \in Registers /\ SecondReg \in Registers /\ MonthReg \in Registers
      /\ \A reg \in {"d", "mo", "y"}, of \in {"date", "today"} : <<of, reg>> \in Registers
  <2>1. HourReg # MinuteReg /\ HourReg # SecondReg /\ MinuteReg # SecondReg /\ MonthReg # YearReg
    BY DEF HourReg, MinuteReg, SecondReg, MonthReg, YearReg
  <2> QED BY RegistersAre, <2>1
<1>v. /\ rtc.h \in Int /\ rtc.mi \in 0 .. MINS - 1 /\ rtc.s \in 0 .. SECS - 1 /\ rtc.mo \in 1 .. 12
      /\ rtc.y \in Int /\ began.h \in Int
  <2>1. /\ rtc.h \in 0 .. HOURS - 1 /\ rtc.mi \in 0 .. MINS - 1 /\ rtc.s \in 0 .. SECS - 1
        /\ rtc.mo \in 1 .. 12 /\ rtc.y \in 0 .. 99
    BY <1>0 DEF Times
  <2>2. began.h \in 0 .. HOURS - 1
    BY <1>0 DEF Times
  <2> QED BY <2>1, <2>2, ClockSizes
<1>6. cal' \in Months /\ anchor' \in Months /\ leafed' \in Int /\ Leafing'
  <2>1. CASE r = YearReg
    <3>1. cal' = [y |-> 2000 + rtc.y, m |-> got[MonthReg]] /\ anchor' = cal' /\ leafed' = 0
      BY <2>1 DEF Read, YearReg, MonthReg
    <3>2. Pending(YearReg)
      <4>1. 1 \in 1 .. Len(reads)
        BY <1>0, <1>1, EmptySeq
      <4> QED BY <4>1, <2>1 DEF Pending
    <3>3. got[MonthReg] \in 1 .. 12
      BY <2>1, <3>2, <1>5 DEF ClockInv, Taken
    <3>4. PICK y \in Int : y = 2000 + rtc.y
      BY <1>v
    <3>5. PICK m \in 1 .. 12 : m = got[MonthReg]
      BY <3>3
    <3>6. cal' = [y |-> y, m |-> m] /\ anchor' = [y |-> y, m |-> m] /\ leafed' = 0
      BY <3>1, <3>4, <3>5
    <3> QED BY <3>6 DEF Months, Leafing
  <2>2. CASE r # YearReg
    <3>1. UNCHANGED <<cal, anchor, leafed>>
      BY <2>2 DEF Read, YearReg
    <3> QED BY <3>1, <1>0 DEF ClockInv, Leafing
  <2> QED BY <2>1, <2>2
<1>7. ClockTyped'
  BY <1>1, <1>2, <1>4, <1>6 DEF ClockInv, ClockTyped
<1>8. Taken'
  <2> SUFFICES ASSUME Pending(YearReg)' PROVE got'[MonthReg] \in 1 .. 12
    BY DEF Taken
  <2>1. CASE r = MonthReg
    BY <2>1, <1>0, <1>3, <1>v, ReadOff
  <2>2. CASE r # MonthReg
    <3>1. Pending(YearReg)
      BY <1>2
    <3> QED BY <3>1, <2>2, <1>3, <1>5 DEF ClockInv, Taken
  <2> QED BY <2>1, <2>2
<1>9. Lagging'
  <2> SUFFICES ASSUME draws > 0, ~midnight PROVE HourLags' /\ MinuteLags' /\ SecondLags' /\ DateHolds'
    BY <1>1 DEF Lagging
  <2>0. HourLags /\ MinuteLags /\ SecondLags /\ DateHolds
    BY DEF ClockInv, Lagging
  <2> HIDE DEF r
  <2>1. HourLags'
    <3>0. began.h <= rtc.h
      BY <2>0 DEF HourLags
    <3> SUFFICES ASSUME ~Pending(HourReg)' PROVE got'[HourReg] \in began.h .. rtc.h
      BY <1>1, <3>0 DEF HourLags
    <3>1. CASE r = HourReg
      <4>1. got'[HourReg] = rtc.h
        BY <3>1, <1>0, <1>3, ReadOff
      <4> QED BY <4>1, <3>0, <1>v
    <3>2. CASE r # HourReg
      BY <3>2, <2>0, <1>2, <1>3, <1>5 DEF HourLags
    <3> QED BY <3>1, <3>2
  <2>2. MinuteLags'
    <3> SUFFICES ASSUME ~Pending(MinuteReg)'
                 PROVE  /\ got'[MinuteReg] \in 0 .. MINS - 1
                        /\ got'[HourReg] = rtc.h => got'[MinuteReg] <= rtc.mi
      BY <1>1 DEF MinuteLags
    <3>1. CASE r = MinuteReg
      <4>1. got'[MinuteReg] = rtc.mi
        BY <3>1, <1>0, <1>3, ReadOff
      <4> QED BY <4>1, <1>v, ClockSizes
    <3>2. CASE r # MinuteReg
      <4>1. ~Pending(MinuteReg) /\ r # HourReg
        BY <3>2, <1>2
      <4>2. got'[MinuteReg] = got[MinuteReg] /\ got'[HourReg] = got[HourReg]
        BY <4>1, <3>2, <1>3, <1>5
      <4> QED BY <4>1, <4>2, <2>0 DEF MinuteLags
    <3> QED BY <3>1, <3>2
  <2>3. SecondLags'
    <3> SUFFICES ASSUME ~Pending(SecondReg)'
                 PROVE  /\ got'[SecondReg] \in 0 .. SECS - 1
                        /\ got'[HourReg] = rtc.h /\ got'[MinuteReg] = rtc.mi => got'[SecondReg] <= rtc.s
      BY <1>1 DEF SecondLags
    <3>1. CASE r = SecondReg
      <4>1. got'[SecondReg] = rtc.s
        BY <3>1, <1>0, <1>3, ReadOff
      <4> QED BY <4>1, <1>v, ClockSizes
    <3>2. CASE r # SecondReg
      <4>1. ~Pending(SecondReg) /\ r # HourReg /\ r # MinuteReg
        BY <3>2, <1>2
      <4>2. got'[SecondReg] = got[SecondReg] /\ got'[MinuteReg] = got[MinuteReg] /\ got'[HourReg] = got[HourReg]
        BY <4>1, <3>2, <1>3, <1>5
      <4> QED BY <4>1, <4>2, <2>0 DEF SecondLags
    <3> QED BY <3>1, <3>2
  <2>4. DateHolds'
    <3> SUFFICES ASSUME NEW reg \in {"d", "mo", "y"}, NEW of \in {"date", "today"}, ~Pending(<<of, reg>>)'
                 PROVE  got'[<<of, reg>>] = rtc[reg]
      BY <1>1 DEF DateHolds
    <3>1. CASE r = <<of, reg>>
      BY <3>1, <1>0, <1>3, ReadOff
    <3>2. CASE r # <<of, reg>>
      BY <3>2, <2>0, <1>2, <1>3, <1>5 DEF DateHolds
    <3> QED BY <3>1, <3>2
  <2> QED BY <2>1, <2>2, <2>3, <2>4
<1> QED BY <1>2, <1>6, <1>7, <1>8, <1>9 DEF ClockInv

\* The keys that turn the calendar: everything asked for has been read.
LEMMA KeysKeep ==
    ASSUME ClockInv, NEW by \in {1, -1}, Turn(by) \/ Today
    PROVE  ClockInv'
<1>0. reads = <<>> /\ UNCHANGED <<rtc, got, draws, began, midnight, anchor>>
  BY DEF Turn, Today, Leave
<1>1. Len(reads) = 0
  BY <1>0, EmptySeq
<1>2. \A reg : ~Pending(reg)
  BY <1>1 DEF Pending
<1>3. Lagging'
  BY <1>0, <1>2 DEF ClockInv, Lagging, HourLags, MinuteLags, SecondLags, DateHolds
<1>4. cal \in Months /\ cal.y \in Int /\ cal.m \in 1 .. 12 /\ leafed \in Int /\ anchor.y \in Int /\ anchor.m \in Int
      /\ cal = [y |-> cal.y, m |-> cal.m]
  BY DEF ClockInv, ClockTyped, Months
<1>5. CASE Turn(by)
  <2>1. cal.y # 0 /\ cal' = Leafed(cal, by) /\ leafed' = leafed + by /\ UNCHANGED reads
    BY <1>5 DEF Turn
  <2>2. PICK y \in Int, m \in 1 .. 12 : Leafed(cal, by) = [y |-> y, m |-> m] /\ 12 * y + m = 12 * cal.y + cal.m + by
    <3>1. CASE by = 1 /\ cal.m = 12
      <4>1. Leafed(cal, by) = [y |-> cal.y + 1, m |-> 1]
        BY <3>1 DEF Leafed
      <4>2. cal.y + 1 \in Int /\ 1 \in 1 .. 12 /\ 12 * (cal.y + 1) + 1 = 12 * cal.y + cal.m + by
        BY <3>1, <1>4
      <4> QED BY <4>1, <4>2, Zenon
    <3>2. CASE by = 1 /\ cal.m # 12
      <4>1. Leafed(cal, by) = [cal EXCEPT !.m = @ + 1]
        BY <3>2 DEF Leafed
      <4>2. Leafed(cal, by) = [y |-> cal.y, m |-> cal.m + 1]
        BY <4>1, <1>4
      <4> QED BY <4>2, <3>2, <1>4
    <3>3. CASE by = -1 /\ cal.m = 1
      <4>1. Leafed(cal, by) = [y |-> cal.y - 1, m |-> 12]
        BY <3>3 DEF Leafed
      <4>2. cal.y - 1 \in Int /\ 12 \in 1 .. 12 /\ 12 * (cal.y - 1) + 12 = 12 * cal.y + cal.m + by
        BY <3>3, <1>4
      <4> QED BY <4>1, <4>2, Zenon
    <3>4. CASE by = -1 /\ cal.m # 1
      <4>1. Leafed(cal, by) = [cal EXCEPT !.m = @ - 1]
        BY <3>4 DEF Leafed
      <4>2. Leafed(cal, by) = [y |-> cal.y, m |-> cal.m - 1]
        BY <4>1, <1>4
      <4> QED BY <4>2, <3>4, <1>4
    <3> QED BY <3>1, <3>2, <3>3, <3>4
  <2>3. PICK n \in Int : n = leafed + by
    BY <1>4
  <2>4. cal' = [y |-> y, m |-> m] /\ leafed' = n
    BY <2>1, <2>2, <2>3
  <2>5. ClockTyped'
    BY <1>0, <2>1, <2>4 DEF ClockInv, ClockTyped, Months
  <2>6. Leafing'
    <3>1. 12 * cal.y + cal.m = 12 * anchor.y + anchor.m + leafed
      BY <2>1 DEF ClockInv, Leafing
    <3>2. 12 * y + m = 12 * anchor.y + anchor.m + n
      BY <3>1, <2>2, <2>3, <1>4
    <3>3. cal'.y = y /\ cal'.m = m /\ UNCHANGED anchor /\ leafed' = n
      BY <2>4, <1>0
    <3> QED BY <3>2, <3>3, Zenon DEF Leafing
  <2>7. Orderly' /\ Taken'
    BY <1>0, <2>1 DEF ClockInv, Orderly, Taken, Pending
  <2> QED BY <1>3, <2>5, <2>6, <2>7 DEF ClockInv
<1>6. CASE Today
  <2>1. cal' = [cal EXCEPT !.y = 0] /\ reads' = SyncReads /\ UNCHANGED leafed
    BY <1>6 DEF Today
  <2>2. reads' \in Seq(Registers) /\ Orderly' /\ reads'[1] = MonthReg
    BY <2>1, SyncReadsAre
  <2>3. cal' = [y |-> 0, m |-> cal.m]
    BY <2>1, <1>4
  <2>4. cal' \in Months
    BY <2>3, <1>4 DEF Months
  <2>5. ClockTyped'
    BY <1>0, <2>1, <2>2, <2>4 DEF ClockInv, ClockTyped
  <2>6. Leafing' /\ Taken'
    BY <2>2, <2>3 DEF Leafing, Taken
  <2> QED BY <1>3, <2>2, <2>5, <2>6 DEF ClockInv
<1> QED BY <1>5, <1>6

LEMMA ClockSteps == ClockInv /\ [ClockNext]_clockVars => ClockInv'
<1> SUFFICES ASSUME ClockInv, [ClockNext]_clockVars PROVE ClockInv'
  OBVIOUS
<1>1. CASE UNCHANGED <<rtc, reads, got, began, midnight, cal, anchor, leafed, draws>>
  BY <1>1 DEF ClockInv, ClockTyped, Orderly, Taken, Leafing, Lagging, HourLags, MinuteLags, SecondLags, DateHolds,
              Pending
<1>2. Jiffy \/ StartStop \/ Raz => UNCHANGED <<rtc, reads, got, began, midnight, cal, anchor, leafed, draws>>
  BY DEF Jiffy, StartStop, Raz, Leave
<1>3. Second \/ Draw \/ Read => ClockInv'
  BY SecondKeeps, DrawKeeps, ReadKeeps
<1>4. ASSUME NEW by \in {1, -1}, Turn(by) PROVE ClockInv'
  BY <1>4, KeysKeep
<1>5. Today => ClockInv'
  BY KeysKeep
<1> QED BY <1>1, <1>2, <1>3, <1>4, <1>5 DEF ClockNext, clockVars

\* ClockWindow.cpp: whatever is asked for while the clock goes on, the calendar shows the
\* month that was taken from the clock and leafed from.
THEOREM CalendarStaysTrue == ClockSpec => []LeafsTrue
<1>1. ClockInv => LeafsTrue
  BY DEF ClockInv, ClockTyped, Leafing, LeafsTrue, Months
<1> QED BY ClockStarts, ClockSteps, <1>1, PTL DEF ClockSpec

\* ClockWindow.cpp: the time read register by register may lag behind the clock, but is
\* never ahead of it nor before the hour the drawing began in; on a day without midnight
\* the date is the day's.
THEOREM TimeStaysBehind == ClockSpec => []TimeNeverAhead
<1>1. ClockInv => TimeNeverAhead
  <2> SUFFICES ASSUME ClockInv, reads = <<>>, draws > 0, ~midnight
               PROVE  TimeNeverAhead
    BY Zenon DEF TimeNeverAhead
  <2>1. Len(reads) = 0
    BY EmptySeq
  <2>2. \A reg : ~Pending(reg)
    BY <2>1 DEF Pending
  <2> DEFINE h == got[HourReg]
             mi == got[MinuteReg]
             s == got[SecondReg]
  <2>3. /\ began.h <= rtc.h /\ h \in began.h .. rtc.h /\ mi \in 0 .. MINS - 1 /\ s \in 0 .. SECS - 1
        /\ h = rtc.h => mi <= rtc.mi
        /\ h = rtc.h /\ mi = rtc.mi => s <= rtc.s
    BY <2>2 DEF ClockInv, Lagging, HourLags, MinuteLags, SecondLags
  <2>4. /\ rtc.h \in Int /\ rtc.mi \in 0 .. MINS - 1 /\ rtc.s \in 0 .. SECS - 1 /\ began.h \in Int
        /\ began = [h |-> began.h, mi |-> began.mi, s |-> began.s, d |-> began.d, mo |-> began.mo, y |-> began.y]
    BY ClockSizes DEF ClockInv, ClockTyped, Times
  <2>5. h \in Int /\ 0 \in 0 .. MINS - 1 /\ 0 \in 0 .. SECS - 1
    BY <2>3, <2>4, ClockSizes
  <2>6. (((h * MINS) + mi) * SECS) + s <= (((rtc.h * MINS) + rtc.mi) * SECS) + rtc.s
    <3>1. h < rtc.h \/ (h = rtc.h /\ mi < rtc.mi) \/ (h = rtc.h /\ mi = rtc.mi /\ s <= rtc.s)
      BY <2>3, <2>4, <2>5
    <3> HIDE DEF h, mi, s
    <3> QED BY <3>1, <2>3, <2>4, <2>5, ClockSizes, LaterInSeconds
  <2>7. (((began.h * MINS) + 0) * SECS) + 0 <= (((h * MINS) + mi) * SECS) + s
    <3>1. began.h < h \/ (began.h = h /\ 0 < mi) \/ (began.h = h /\ 0 = mi /\ 0 <= s)
      BY <2>3, <2>4, <2>5
    <3> HIDE DEF h, mi, s
    <3> QED BY <3>1, <2>3, <2>4, <2>5, ClockSizes, LaterInSeconds
  <2> DEFINE b == [began EXCEPT !.mi = 0, !.s = 0]
  <2>8. b.h = began.h /\ b.mi = 0 /\ b.s = 0
    BY <2>4
  <2>9. \A reg \in {"d", "mo", "y"} : got[<<"date", reg>>] = rtc[reg] /\ got[<<"today", reg>>] = rtc[reg]
    BY <2>2 DEF ClockInv, Lagging, DateHolds
  <2>10. got[HourReg] = got[<<"time", "h">>] /\ got[MinuteReg] = got[<<"time", "mi">>]
         /\ got[SecondReg] = got[<<"time", "s">>]
    BY DEF HourReg, MinuteReg, SecondReg
  <2> DEFINE secs(q) == (((q.h * MINS) + q.mi) * SECS) + q.s
             seen == [h |-> got[<<"time", "h">>], mi |-> got[<<"time", "mi">>], s |-> got[<<"time", "s">>]]
  <2>11. seen.h = h /\ seen.mi = mi /\ seen.s = s
    BY <2>10
  <2>12. secs(seen) <= secs(rtc)
    BY <2>6, <2>11
  <2>13. secs(seen) >= secs(b)
    <3>1. secs(b) <= secs(seen)
      BY <2>7, <2>8, <2>11
    <3>2. secs(b) \in Int /\ secs(seen) \in Int
      <4>1. \A x \in Int, y \in Int, z \in Int : (((x * MINS) + y) * SECS) + z \in Int
        BY ClockSizes
      <4>2. mi \in Int /\ s \in Int /\ 0 \in Int
        BY <2>3, ClockSizes
      <4> HIDE DEF h, mi, s, b, seen
      <4> QED BY <4>1, <4>2, <2>4, <2>5, <2>8, <2>11, Zenon DEF secs
    <3> HIDE DEF secs, b, seen
    <3> QED BY <3>1, <3>2
  <2> HIDE DEF secs
  <2> QED BY <2>9, <2>12, <2>13 DEF TimeNeverAhead, secs
<1> QED BY ClockStarts, ClockSteps, <1>1, PTL DEF ClockSpec
=============================================================================
