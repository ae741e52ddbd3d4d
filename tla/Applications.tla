---------------------------- MODULE Applications ----------------------------
(***************************************************************************)
(* Windows of the desktop that keep a state of their own: calculator, file *)
(* manager, paint and the dungeon.                                         *)
(***************************************************************************)
EXTENDS Integers, Sequences, SequencesExt, FiniteSetsExt, FiniteSets

(***************************************************************************)
(* The calculator (CalcWindow.cpp): a line of characters, evaluated by a   *)
(* stack of operators and a stack of numbers, on integers of Bits bits     *)
(* (64 in the code) that wrap, divided without the compiler's help.        *)
(***************************************************************************)
CONSTANTS
    Bits,               \* width of a number
    MAX_EXPR,           \* characters of the line
    StackCap,           \* entries of the stacks
    Formulas,           \* what is typed at once: trees, see TreeValue
    CalcKeys,           \* keys pressed one by one
    MaxPresses          \* bound: keys pressed

ASSUME CalcAssumption == Bits \in 4 .. 15 /\ MAX_EXPR \in Nat \ {0} /\ StackCap \in Nat \ {0}

VARIABLES
    calc,               \* the line, the result and whether it is shown, the memory
    formula,            \* the tree typed at the start
    pressed, before,    \* history: the last key and what the window held before it
    presses             \* keys pressed
calcVars == <<calc, formula, pressed, before, presses>>

-----------------------------------------------------------------------------
(* Numbers *)

Span == 2 ^ Bits
Lowest == -(2 ^ (Bits - 1))
Highest == (2 ^ (Bits - 1)) - 1
Wrapped(v) == ((v - Lowest) % Span) + Lowest
Unsigned(v) == v % Span
Half == 2 ^ (Bits \div 2)

\* Mutant of UDiv: the divisor is compared before the next bit comes in.
UDivLate(a, b) ==
    FoldLeft(LAMBDA s, i : LET r == ((2 * s.r) + ((a \div (2 ^ i)) % 2)) % Span
                           IN  IF s.r >= b THEN [q |-> s.q + (2 ^ i), r |-> r - b] ELSE [s EXCEPT !.r = r],
             [q |-> 0, r |-> 0], [k \in 1 .. Bits |-> Bits - k])
\* cw_udiv64: by the machine if both are short, else bit by bit.
UDiv(a, b) ==
    IF b = 0 THEN [q |-> 0, r |-> 0]
    ELSE IF a < Half /\ b < Half THEN [q |-> a \div b, r |-> a % b]
    ELSE IF b > a THEN [q |-> 0, r |-> a]
    ELSE FoldLeft(LAMBDA s, i : LET r == ((2 * s.r) + ((a \div (2 ^ i)) % 2)) % Span
                                IN  IF r >= b THEN [q |-> s.q + (2 ^ i), r |-> r - b] ELSE [s EXCEPT !.r = r],
                  [q |-> 0, r |-> 0], [k \in 1 .. Bits |-> Bits - k])
Unsign(v) == IF v < 0 THEN Unsigned(-v) ELSE v
Div(a, b) == IF b = 0 THEN 0
             ELSE LET q == UDiv(Unsign(a), Unsign(b)).q IN Wrapped(IF (a < 0) # (b < 0) THEN -q ELSE q)
Mod(a, b) == IF b = 0 THEN 0
             ELSE LET r == UDiv(Unsign(a), Unsign(b)).r IN Wrapped(IF a < 0 THEN -r ELSE r)

\* cw_isqrt: Newton's steps from above.
RECURSIVE Newton(_, _, _)
Newton(n, x, y) == IF y < x THEN Newton(n, y, Div(Wrapped(y + Div(n, y)), 2)) ELSE x
Sqrt(n) == IF n <= 0 THEN 0 ELSE Newton(n, n, Div(Wrapped(n + 1), 2))

DigitChars == <<"0", "1", "2", "3", "4", "5", "6", "7", "8", "9">>
IsDigit(c) == \E i \in 1 .. 10 : DigitChars[i] = c
DigitValue(c) == (CHOOSE i \in 1 .. 10 : DigitChars[i] = c) - 1
RECURSIVE Digits(_)
Digits(n) == IF n <= 0 THEN <<>> ELSE Append(Digits(Div(n, 10)), DigitChars[Mod(n, 10) + 1])
\* cw_itos; the lowest number has no opposite and no digits.
Itos(v) == IF v = 0 THEN <<"0">> ELSE IF v < 0 THEN <<"-">> \o Digits(Wrapped(-v)) ELSE Digits(v)
\* parse_result: what is no number is 0.
ParseResult(s) ==
    LET n == FoldLeft(LAMBDA v, c : IF IsDigit(c) THEN Wrapped((v * 10) + DigitValue(c)) ELSE v, 0, s)
    IN  IF s # <<>> /\ s[1] = "-" THEN Wrapped(-n) ELSE n

-----------------------------------------------------------------------------
(* evaluate: to postfix, then on a stack *)

Signs == {"+", "-", "*", "/", "%", "^"}
Prec(op) == CASE op \in {"+", "-"} -> 1 [] op \in {"*", "/", "%"} -> 2 [] op = "^" -> 3 [] OTHER -> 0
Number(v) == [num |-> TRUE, v |-> v, op |-> ""]
Operation(op) == [num |-> FALSE, v |-> 0, op |-> op]

\* What stays on the stack when the operators on top that satisfy P are taken off.
Under(ops, P(_)) == SubSeq(ops, 1, Max({0} \union {i \in DOMAIN ops : ~P(ops[i])}))
Taken(ops, under) == [i \in 1 .. Len(ops) - Len(under) |-> Operation(ops[Len(ops) + 1 - i])]
\* Mutant of BindsFirst: a power is taken off by the next one.
BindsLeft(op, c) == op # "(" /\ Prec(op) >= Prec(c)
\* The operator on the stack comes before c, which is to its right.
BindsFirst(op, c) == op # "(" /\ (Prec(op) > Prec(c) \/ (Prec(op) = Prec(c) /\ c # "^"))
PushOp(ops, c) == IF Len(ops) < StackCap THEN Append(ops, c) ELSE ops

\* One character: a number goes on as long as digits come, and a minus behind an operator,
\* a parenthesis or nothing begins one.
Lexed(s, c) ==
    CASE c = "(" -> [s EXCEPT !.ops = PushOp(@, c), !.last_op = TRUE, !.reading = FALSE]
      [] c = ")" ->
           LET under == Under(s.ops, LAMBDA op : op # "(")
           IN  [s EXCEPT !.out = @ \o Taken(s.ops, under), !.last_op = FALSE, !.reading = FALSE,
                         !.ops = IF under = <<>> THEN under ELSE Front(under)]
      [] IsDigit(c) ->
           IF s.reading
           THEN [s EXCEPT !.out[Len(s.out)].v = Wrapped((@ * 10) + (s.sign * DigitValue(c)))]
           ELSE [s EXCEPT !.out = Append(@, Number(DigitValue(c))), !.last_op = FALSE, !.reading = TRUE, !.sign = 1]
      [] c = "-" /\ s.last_op ->
           [s EXCEPT !.out = Append(@, Number(0)), !.last_op = FALSE, !.reading = TRUE, !.sign = -1]
      [] c \in Signs /\ ~(c = "-" /\ s.last_op) ->
           LET under == Under(s.ops, LAMBDA op : BindsFirst(op, c))
           IN  [s EXCEPT !.out = @ \o Taken(s.ops, under), !.ops = PushOp(under, c), !.last_op = TRUE, !.reading = FALSE]
      [] OTHER -> [s EXCEPT !.reading = FALSE]
Postfix(expr) ==
    LET s == FoldLeft(Lexed, [out |-> <<>>, ops |-> <<>>, last_op |-> TRUE, reading |-> FALSE, sign |-> 1], expr)
    IN  s.out \o Taken(SelectSeq(s.ops, LAMBDA op : op # "("), <<>>)

Power(a, b) == IF b < 0 \/ b > Bits - 2 THEN 0 ELSE FoldLeft(LAMBDA r, i : Wrapped(r * a), 1, [i \in 1 .. b |-> i])
Arith(op, a, b) ==
    CASE op = "+" -> Wrapped(a + b) [] op = "-" -> Wrapped(a - b) [] op = "*" -> Wrapped(a * b)
      [] op = "^" -> Power(a, b) [] op = "/" -> Div(a, b) [] op = "%" -> Mod(a, b)
Compute(s, t) ==
    IF s.error THEN s
    ELSE IF t.num THEN [s EXCEPT !.stk = IF Len(@) < StackCap THEN Append(@, t.v) ELSE @]
    ELSE IF Len(s.stk) < 2 THEN [s EXCEPT !.error = TRUE]
    ELSE LET b == Last(s.stk)
             a == Last(Front(s.stk))
         IN  IF t.op \in {"/", "%"} /\ b = 0 THEN [s EXCEPT !.error = TRUE]
             ELSE [s EXCEPT !.stk = Append(Front(Front(@)), Arith(t.op, a, b))]
Computed(expr) == FoldLeft(Compute, [stk |-> <<>>, error |-> FALSE], Postfix(expr))

Err == <<"E", "r", "r">>
Fails(expr) == Computed(expr).error \/ Computed(expr).stk = <<>>
Worth(expr) == Computed(expr).stk[1]
Evaluate(c) ==
    IF Fails(c.expr) THEN [c EXCEPT !.result = Err, !.show = TRUE, !.expr = <<>>]
    ELSE [c EXCEPT !.result = Itos(Worth(c.expr)), !.show = TRUE]

-----------------------------------------------------------------------------
(* on_key *)

Cleared(c) == [c EXCEPT !.expr = <<>>, !.result = <<>>, !.show = FALSE]
Evaluated(c) == IF ~c.show /\ c.expr # <<>> THEN Evaluate(c) ELSE c
AppendExpr(expr, s) == SubSeq(expr \o s, 1, IF Len(expr \o s) > MAX_EXPR THEN MAX_EXPR ELSE Len(expr \o s))

\* instant_fn: the square, the root and the inverse of what is shown.
Instant(k, start) ==
    LET c == Evaluated(start)
        v == ParseResult(c.result)
    IN  IF ~c.show \/ c.result = <<>> THEN c
        ELSE IF (k = "V" /\ v < 0) \/ (k = "I" /\ v = 0) THEN [c EXCEPT !.result = Err]
        ELSE [c EXCEPT !.expr = <<>>,
                       !.result = Itos(CASE k = "S" -> Wrapped(v * v) [] k = "V" -> Sqrt(v) [] k = "I" -> Div(1, v))]
Remember(k, start) ==
    LET c == Evaluated(start)
    IN  IF c.show THEN [c EXCEPT !.memory = Wrapped(IF k = "P" THEN @ + ParseResult(c.result) ELSE @ - ParseResult(c.result))]
        ELSE c

\* Mutant of OnKey: an operator behind a result begins an empty line.
OnKeyFresh(k, c) ==
    IF k = "=" THEN IF c.expr # <<>> THEN Evaluate(c) ELSE c
    ELSE LET d == IF c.show THEN Cleared(c) ELSE c IN [d EXCEPT !.expr = AppendExpr(@, <<k>>)]
\* A result is gone on from by an operator, a function or the memory; C, the memory's keys,
\* = and backspace leave it, and any other key clears it first.
OnKey(k, start) ==
    LET c == IF start.show /\ k \notin {"M", "R", "C", "<", "=", "S", "V", "I", "P", "Q"} \union Signs
             THEN Cleared(start) ELSE start
    IN  CASE c.show /\ k \in Signs -> [Cleared(c) EXCEPT !.expr = AppendExpr(c.result, <<k>>)]
          [] k \in {"S", "V", "I"} -> Instant(k, c)
          [] k \in {"P", "Q"} -> Remember(k, c)
          [] k = "C" -> Cleared(c)
          [] k = "<" -> IF c.expr # <<>> THEN [c EXCEPT !.expr = Front(@), !.show = FALSE] ELSE c
          [] k = "=" -> IF c.expr # <<>> THEN Evaluate(c) ELSE c
          [] k = "N" -> IF c.expr = <<>> THEN c
                        ELSE IF c.expr[1] = "-" THEN [c EXCEPT !.expr = Tail(@)]
                        ELSE IF Len(c.expr) < MAX_EXPR THEN [c EXCEPT !.expr = <<"-">> \o @] ELSE c
          [] k = "M" -> [c EXCEPT !.memory = 0]
          [] k = "R" -> [Cleared(c) EXCEPT !.expr = AppendExpr(<<>>, Itos(c.memory))]
          [] OTHER -> [c EXCEPT !.expr = AppendExpr(@, <<k>>)]

-----------------------------------------------------------------------------
(* A formula is a number, or an operator between two formulas *)

Leaf(t) == t.op = ""
\* The line that says it, with no more parentheses than it needs.
RECURSIVE Written(_)
Written(t) ==
    LET Enclosed(u, needed) == IF needed THEN <<"(">> \o Written(u) \o <<")">> ELSE Written(u)
        left == ~Leaf(t) /\ ~Leaf(t.a) /\ (Prec(t.a.op) < Prec(t.op) \/ (Prec(t.a.op) = Prec(t.op) /\ t.op = "^"))
        right == ~Leaf(t) /\ ~Leaf(t.b) /\ (Prec(t.b.op) < Prec(t.op) \/ (Prec(t.b.op) = Prec(t.op) /\ t.op # "^"))
    IN  IF Leaf(t) THEN Itos(t.v) ELSE Enclosed(t.a, left) \o <<t.op>> \o Enclosed(t.b, right)
\* What it is worth; it fails where it divides by nothing.
RECURSIVE TreeValue(_)
TreeValue(t) ==
    IF Leaf(t) THEN [ok |-> TRUE, v |-> t.v]
    ELSE LET a == TreeValue(t.a)
             b == TreeValue(t.b)
         IN  IF ~a.ok \/ ~b.ok \/ (t.op \in {"/", "%"} /\ b.v = 0) THEN [ok |-> FALSE, v |-> 0]
             ELSE [ok |-> TRUE, v |-> Arith(t.op, a.v, b.v)]
NoFormula == [op |-> "", v |-> 0]

CalcInit ==
    /\ formula \in Formulas \union {NoFormula}
    /\ \E line \in IF formula = NoFormula THEN {<<>>, [i \in 1 .. MAX_EXPR - 1 |-> "1"]} ELSE {Written(formula)} :
          calc = [expr |-> line, result |-> <<>>, show |-> FALSE, memory |-> 0]
    /\ pressed = "" /\ before = calc /\ presses = 0

PressKey(k) ==
    /\ presses < MaxPresses /\ (formula # NoFormula => presses = 0 /\ k = "=")
    /\ calc' = OnKey(k, calc) /\ before' = calc /\ pressed' = k /\ presses' = presses + 1
    /\ UNCHANGED formula
CalcNext == \E k \in CalcKeys : PressKey(k)
CalcSpec == CalcInit /\ [][CalcNext]_calcVars

-----------------------------------------------------------------------------
(* Properties *)

\* Every formula shows what it is worth: precedence, powers from the right, the rest from
\* the left, signs of numbers; it fails only where it divides by nothing.
FormulasRight ==
    formula # NoFormula /\ pressed = "=" =>
        calc.result = (IF TreeValue(formula).ok THEN Itos(TreeValue(formula).v) ELSE Err)
\* Going on from a result counts with all of it, also when it is negative.
GoesOn ==
    pressed \in Signs /\ before.show /\ before.result \notin {Err, <<"-">>} /\ Len(before.result) < MAX_EXPR - 1 =>
        ~Fails(Append(calc.expr, "2")) /\ Worth(Append(calc.expr, "2")) = Arith(pressed, ParseResult(before.result), 2)
\* The root is the largest number whose square is not above; the memory comes back as it
\* was; changing the sign twice or negating a number does what it says.
FunctionsRight ==
    /\ pressed = "V" /\ before.show /\ calc.result # Err /\ ParseResult(before.result) # Highest =>
         LET r == ParseResult(calc.result)
             v == ParseResult(before.result)
         IN  r >= 0 /\ r * r <= v /\ v < (r + 1) * (r + 1)
    /\ pressed = "R" /\ calc.memory # Lowest => ~Fails(calc.expr) /\ Worth(calc.expr) = calc.memory
    /\ pressed = "N" /\ ~before.show /\ Len(before.expr) \in 1 .. MAX_EXPR - 1 /\ (\A i \in DOMAIN before.expr : IsDigit(before.expr[i])) =>
         ~Fails(calc.expr) /\ Worth(calc.expr) = Wrapped(-Worth(before.expr))
\* Division bit by bit is division, for all numbers of the width but the lowest divided
\* by -1; the digits of a number read back as the number, but for the lowest.
DivisionTrue ==
    \A a \in Lowest .. Highest : \A b \in (Lowest .. Highest) \ {0} :
        /\ Wrapped((Div(a, b) * b) + Mod(a, b)) = a
        /\ Unsign(Mod(a, b)) < Unsign(b) /\ (Mod(a, b) # 0 => (Mod(a, b) < 0) = (a < 0))
DigitsTrue == \A v \in Lowest + 1 .. Highest : ParseResult(Itos(v)) = v
CalculatorRight == FormulasRight /\ GoesOn /\ FunctionsRight /\ DivisionTrue /\ DigitsTrue

-----------------------------------------------------------------------------
(***************************************************************************)
(* The file manager (FileManagerWindow.cpp): a copy of a directory's       *)
(* entries, a selected row, an input bar for names, over the file table's  *)
(* vfs_* calls, which others (the shell, a second window) make too.        *)
(***************************************************************************)
CONSTANTS
    FirstTable,         \* file_system at the start: id -> entry; its domain are the slots
    NameChars, NameCap, \* what is typed into the input bar, VFS_MAX_NAME - 1
    MAX_ENTRIES,
    ShownRows, RowsTyping,   \* rows that fit the window, without and with the input bar
    Page,               \* rows of a page up or down
    MaxDeeds            \* bound: keys and clicks

ASSUME FilesAssumption ==
    /\ 1 <= RowsTyping /\ RowsTyping <= ShownRows /\ MAX_ENTRIES \in Nat \ {0, 1} /\ Page \in Nat \ {0}
    /\ \A id \in DOMAIN FirstTable : id \in Nat \ {0}

VARIABLES
    file_system,        \* id -> [exists, type, parent, name]
    fm,                 \* the window: m_dir_id, m_parent_id, m_entries, m_selected, m_scroll, ...
    stale,              \* history: others changed the table since it was read
    aim,                \* history: the row's id when renaming began, 0 if another was clicked since
    deed,               \* history: the id and name the last call was made for, and the table it found
    deeds
filesVars == <<file_system, fm, stale, aim, deed, deeds>>

TopDir == 0
NoEntry == [id |-> 0, type |-> "none", name |-> <<>>]
NoDeed == [what |-> "nothing", id |-> 0, name |-> <<>>]

-----------------------------------------------------------------------------
(* The vfs_* calls *)

Exists(table, id) == id \in DOMAIN table /\ table[id].exists
FreeSlots(table) == {i \in DOMAIN table : ~table[i].exists}
Listing(table, dir, room) ==
    LET ids == SetToSortSeq({i \in DOMAIN table : table[i].exists /\ table[i].parent = dir}, <)
    IN  [i \in 1 .. IF Len(ids) < room THEN Len(ids) ELSE room |->
           [id |-> ids[i], type |-> table[ids[i]].type, name |-> table[ids[i]].name]]
\* vfs_create_file, vfs_create_dir: the first free slot, whatever the directory holds.
Created(table, type, dir, name) ==
    IF name = <<>> \/ FreeSlots(table) = {} THEN table
    ELSE LET sl == CHOOSE i \in FreeSlots(table) : \A j \in FreeSlots(table) : i <= j
         IN  [table EXCEPT ![sl] = [exists |-> TRUE, type |-> type, parent |-> dir, name |-> name]]
Deleted(table, id) == IF Exists(table, id) THEN [table EXCEPT ![id].exists = FALSE] ELSE table
Renaming(table, id, name) == IF name # <<>> /\ Exists(table, id) THEN [table EXCEPT ![id].name = name] ELSE table

-----------------------------------------------------------------------------
(* Reading a directory; rows are counted from 0 *)

\* Mutant of InitFiles: the first entry of a directory with ".." is lost.
InitFilesOver(w, table, dir, parent) ==
    [w EXCEPT !.dir = dir, !.parent = parent, !.selected = 0, !.scroll = 0, !.last = -1,
              !.entries = IF parent < 0 THEN Listing(table, dir, MAX_ENTRIES)
                          ELSE LET l == Listing(table, dir, MAX_ENTRIES)
                               IN  <<[id |-> parent, type |-> "dir", name |-> <<".", ".">>]>> \o (IF l = <<>> THEN l ELSE Tail(l))]
InitFiles(w, table, dir, parent) ==
    [w EXCEPT !.dir = dir, !.parent = parent, !.selected = 0, !.scroll = 0, !.last = -1,
              !.entries = IF parent < 0 THEN Listing(table, dir, MAX_ENTRIES)
                          ELSE <<[id |-> parent, type |-> "dir", name |-> <<".", ".">>]>>
                               \o Listing(table, dir, MAX_ENTRIES - 1)]
HasDotDot(w) == w.parent >= 0
Count(w) == Len(w.entries)
Chosen(w) == w.selected \in 0 .. Count(w) - 1
IsDotDot(w) == HasDotDot(w) /\ w.selected = 0
Entry(w) == w.entries[w.selected + 1]
Cancel(w) == [w EXCEPT !.mode = "normal", !.input = <<>>]

FilesInit ==
    /\ file_system = FirstTable
    /\ fm = InitFiles([dir |-> TopDir, parent |-> -1, selected |-> 0, scroll |-> 0, last |-> -1, entries |-> <<>>,
                       mode |-> "normal", input |-> <<>>], FirstTable, TopDir, -1)
    /\ stale = FALSE /\ aim = 0 /\ deed = NoDeed /\ deeds = 0

-----------------------------------------------------------------------------
(* What keys and clicks do: the window, and the table *)

Doable == deeds < MaxDeeds /\ deeds' = deeds + 1
Unchanged == UNCHANGED <<file_system, stale, deed>>
Did(what, w) == deed' = [what |-> what, id |-> Entry(w).id, name |-> Entry(w).name]

\* A directory is entered, a file handed to the editor or the image viewer.
OpenSelected(w) ==
    IF ~Chosen(w) THEN fm' = w /\ UNCHANGED <<file_system, stale, deed>>
    ELSE IF Entry(w).type = "dir"
    THEN /\ fm' = IF IsDotDot(w) THEN InitFiles(w, file_system, w.parent, -1)
                  ELSE InitFiles(w, file_system, Entry(w).id, w.dir)
         /\ stale' = FALSE /\ UNCHANGED <<file_system, deed>>
    ELSE fm' = w /\ Did("open", w) /\ UNCHANGED <<file_system, stale>>
DeleteSelected(w) ==
    IF ~Chosen(w) \/ IsDotDot(w) THEN fm' = w /\ UNCHANGED <<file_system, stale, deed>>
    ELSE /\ file_system' = Deleted(file_system, Entry(w).id)
         /\ fm' = InitFiles(w, file_system', w.dir, w.parent)
         /\ stale' = FALSE /\ Did("delete", w)

\* The input bar begins empty, or for a new name with the old one.
Prompting(w, mode) ==
    IF mode # "rename" THEN [w EXCEPT !.mode = mode, !.input = <<>>]
    ELSE IF Chosen(w) /\ ~IsDotDot(w) THEN [w EXCEPT !.mode = mode, !.input = Entry(w).name] ELSE w
Aimed(w) == aim' = IF w.mode = "rename" /\ Chosen(w) THEN Entry(w).id ELSE 0

NameKey(mode) == Doable /\ fm.mode = "normal" /\ fm' = Prompting(fm, mode) /\ Aimed(fm') /\ Unchanged
\* A button of the bar switches its mode on and off; on ".." renaming is cancelled.
Button(mode) ==
    /\ Doable
    /\ fm' = IF mode = "rename" /\ (~Chosen(fm) \/ IsDotDot(fm)) THEN Cancel(fm)
             ELSE [Prompting(fm, mode) EXCEPT !.mode = IF fm.mode = mode THEN "normal" ELSE mode]
    /\ Aimed(fm') /\ Unchanged
DeleteButton == Doable /\ DeleteSelected(Cancel(fm)) /\ aim' = 0
DeleteKey == Doable /\ fm.mode = "normal" /\ DeleteSelected(fm) /\ UNCHANGED aim
OpenKey == Doable /\ fm.mode = "normal" /\ OpenSelected(fm) /\ UNCHANGED aim

\* Mutant of Moved: a page down may pass the end.
MovedPast(w, key) ==
    CASE key = "down" -> w.selected + 1 [] key = "pgdn" -> w.selected + Page [] OTHER -> 0
\* Where a key moves the selection.
Moved(w, key) ==
    CASE key = "up"   -> IF w.selected > 0 THEN w.selected - 1 ELSE w.selected
      [] key = "down" -> IF w.selected < Count(w) - 1 THEN w.selected + 1 ELSE w.selected
      [] key = "pgup" -> IF w.selected > Page THEN w.selected - Page ELSE 0
      [] key = "pgdn" -> IF w.selected + Page < Count(w) THEN w.selected + Page ELSE Count(w) - 1
      [] key = "home" -> 0
      [] key = "end"  -> Count(w) - 1
MoveTo(key) == Doable /\ fm.mode = "normal" /\ fm' = [fm EXCEPT !.selected = Moved(fm, key)] /\ UNCHANGED aim /\ Unchanged

\* Keys of the input bar.
TypeKey(c) ==
    /\ Doable /\ fm.mode # "normal" /\ UNCHANGED aim /\ Unchanged
    /\ fm' = [fm EXCEPT !.input = IF c = "BS" THEN (IF @ = <<>> THEN @ ELSE Front(@))
                                  ELSE IF Len(@) < NameCap THEN Append(@, c) ELSE @]
EscapeBar == Doable /\ fm.mode # "normal" /\ fm' = Cancel(fm) /\ aim' = 0 /\ Unchanged
\* Mutant of CommitInput: the directory is not read again.
CommitInputBlind ==
    /\ Doable /\ fm.mode # "normal" /\ aim' = 0
    /\ fm' = Cancel(fm) /\ UNCHANGED <<stale, deed>>
    /\ file_system' = IF fm.mode = "file" THEN Created(file_system, "file", fm.dir, fm.input) ELSE file_system
CommitInput ==
    /\ Doable /\ fm.mode # "normal" /\ aim' = 0
    /\ IF fm.input = <<>> THEN fm' = Cancel(fm) /\ Unchanged
       ELSE /\ file_system' = CASE fm.mode \in {"file", "dir"} -> Created(file_system, fm.mode, fm.dir, fm.input)
                                [] fm.mode = "rename" /\ Chosen(fm) -> Renaming(file_system, Entry(fm).id, fm.input)
                                [] OTHER -> file_system
            /\ IF fm.mode = "rename" /\ Chosen(fm)
               THEN deed' = [what |-> IF aim = 0 THEN "astray" ELSE "rename", id |-> Entry(fm).id, name |-> fm.input]
               ELSE UNCHANGED deed
            /\ fm' = InitFiles(Cancel(fm), file_system', fm.dir, fm.parent)
            /\ stale' = FALSE

\* A click into the list, the last row that shows being cut off; twice in time opens.
PickRow(r, twice) ==
    LET row == r + fm.scroll
    IN  /\ Doable /\ row < Count(fm)
        /\ IF twice /\ row = fm.last THEN OpenSelected([fm EXCEPT !.last = -1])
           ELSE fm' = [fm EXCEPT !.selected = row, !.last = row] /\ Unchanged
        /\ aim' = IF fm' # fm /\ (row # fm.selected \/ fm'.dir # fm.dir) THEN 0 ELSE aim

Fitting(w) == IF w.mode = "normal" THEN ShownRows ELSE RowsTyping
\* Mutant of ScrolledTo: scrolls down only.
ScrolledToLast(w) == IF w.selected - w.scroll >= Fitting(w) THEN w.selected - Fitting(w) + 1 ELSE w.scroll
ScrolledTo(w) ==
    LET down == IF w.selected - w.scroll >= Fitting(w) THEN w.selected - Fitting(w) + 1 ELSE w.scroll
        up == IF w.selected < down THEN w.selected ELSE down
    IN  IF up < 0 THEN 0 ELSE up
Draw == fm' = [fm EXCEPT !.scroll = ScrolledTo(fm)] /\ fm' # fm /\ UNCHANGED <<file_system, stale, aim, deed, deeds>>

\* The shell or another window makes or removes an entry.
ByTheShell ==
    /\ Doable /\ stale' = TRUE /\ UNCHANGED <<fm, aim, deed>>
    /\ \/ \E id \in DOMAIN file_system : file_system' = Deleted(file_system, id)
       \/ \E c \in NameChars : file_system' = Created(file_system, "file", TopDir, <<c>>)

FilesNext ==
    \/ \E m \in {"file", "dir", "rename"} : NameKey(m) \/ Button(m)
    \/ DeleteButton \/ DeleteKey \/ OpenKey
    \/ \E k \in {"up", "down", "pgup", "pgdn", "home", "end"} : MoveTo(k)
    \/ \E c \in NameChars \union {"BS"} : TypeKey(c)
    \/ EscapeBar \/ CommitInput
    \/ \E r \in 0 .. ShownRows, t \in BOOLEAN : PickRow(r, t)
    \/ Draw \/ ByTheShell
FilesSpec == FilesInit /\ [][FilesNext]_filesVars

-----------------------------------------------------------------------------
(* Properties *)

\* What the window lists is the directory, as long as nobody else changed it: every call
\* that changes the table reads it again.
ListsDirectory ==
    LET behind == IF HasDotDot(fm) THEN Tail(fm.entries) ELSE fm.entries
    IN  ~stale => behind = Listing(file_system, fm.dir, IF HasDotDot(fm) THEN MAX_ENTRIES - 1 ELSE MAX_ENTRIES)
\* The selection is on a row, or the list is empty; drawn, it is in sight.
SelectionInSight ==
    /\ Chosen(fm) \/ (Count(fm) = 0 /\ fm.selected \in {-1, 0})
    /\ LET s == ScrolledTo(fm) IN Chosen(fm) => fm.selected \in s .. s + Fitting(fm) - 1
    /\ fm.scroll >= 0
\* ".." leads to the directory the window came from, and is never deleted or renamed.
DotDotKept == HasDotDot(fm) => Count(fm) >= 1 /\ fm.entries[1] = [id |-> fm.parent, type |-> "dir", name |-> <<".", ".">>]
\* A name goes to the entry it was asked for, unless another row was clicked meanwhile.
RenamesAimed ==
    /\ fm.mode = "rename" /\ aim # 0 => Chosen(fm) /\ ~IsDotDot(fm) /\ Entry(fm).id = aim
    /\ deed.what \in {"delete", "open", "rename"} => deed.id # 0 /\ deed.name # <<".", ".">>
\* An entry that is there sits in the table once, with a name.
TableSound == \A id \in DOMAIN file_system : file_system[id].exists => file_system[id].name # <<>>
FilesRight == ListsDirectory /\ SelectionInSight /\ DotDotKept /\ RenamesAimed /\ TableSound

-----------------------------------------------------------------------------
(***************************************************************************)
(* GregPaint (PaintWindow.cpp): a canvas, tools that draw on it while the  *)
(* mouse is dragged, and the file it is saved to in runs of one colour.    *)
(***************************************************************************)
CONSTANTS
    CANVAS_W, CANVAS_H, Paper,      \* the colour of an empty canvas
    Inks,               \* colours of the palette
    Sizes,              \* brush sizes
    MaxRuns,            \* runs of a file: (GPI_MAX_ENCODED - 8) / 5
    MaxRun,             \* pixels of a run
    MaxActs             \* bound: presses, drags and keys

ASSUME PaintAssumption ==
    /\ CANVAS_W \in Nat \ {0} /\ CANVAS_H \in Nat \ {0} /\ MaxRuns \in Nat \ {0} /\ MaxRun \in Nat \ {0}
    /\ Sizes \subseteq 1 .. 5

VARIABLES
    m_canvas,           \* pixel -> colour
    brush,              \* m_tool, m_size, m_color
    drag,               \* m_dragging, m_sx.., m_lx.., m_cx..
    m_clear_arm,
    gpi,                \* paint.gpi: its runs, <<>> if it is not there
    saved_as,             \* history: the canvas last saved
    stroke,             \* history: points the pencil was led through since it was put down
    acts
paintVars == <<m_canvas, brush, drag, m_clear_arm, gpi, saved_as, stroke, acts>>

Pixels == (0 .. CANVAS_W - 1) \X (0 .. CANVAS_H - 1)
Sheet == [p \in Pixels |-> Paper]
Big(n) == IF n < 0 THEN -n ELSE n
Larger(a, b) == IF a >= b THEN a ELSE b
NoDrag == [on |-> FALSE, from |-> <<0, 0>>, last |-> <<0, 0>>, to |-> <<0, 0>>]

-----------------------------------------------------------------------------
(* Shapes: the pixels they are made of *)

RECURSIVE Steps(_, _, _, _)
\* line_c: where the nib goes from p to q; err is the code's err.
Steps(p, q, d, err) ==
    IF p = q THEN <<p>>
    ELSE LET sx == IF p[1] < q[1] THEN 1 ELSE -1
             sy == IF p[2] < q[2] THEN 1 ELSE -1
             along == 2 * err > -d[2]
             across == 2 * err < d[1]
         IN  <<p>> \o Steps(<<IF along THEN p[1] + sx ELSE p[1], IF across THEN p[2] + sy ELSE p[2]>>, q, d,
                            err - (IF along THEN d[2] ELSE 0) + (IF across THEN d[1] ELSE 0))
\* Mutant of Segment: only the larger difference is walked.
SegmentFlat(p, q) == [i \in 1 .. Big(q[1] - p[1]) + 1 |-> <<IF q[1] > p[1] THEN p[1] + i - 1 ELSE p[1] - i + 1, p[2]>>]
Segment(p, q) ==
    LET d == <<Big(q[1] - p[1]), Big(q[2] - p[2])>> IN Steps(p, q, d, d[1] - d[2])

\* What the nib of a size covers around a point, on the canvas.
Nib(p, size) ==
    LET h == IF size <= 1 THEN 0 ELSE size \div 2
    IN  ((p[1] - h .. p[1] + h) \X (p[2] - h .. p[2] + h)) \cap Pixels
Traced(points, size) == UNION {Nib(points[i], size) : i \in DOMAIN points}

RECURSIVE Octant(_, _, _)
Octant(x, y, err) ==
    IF x < y THEN <<>>
    ELSE LET e == IF err <= 0 THEN err + (2 * (y + 1)) + 1 ELSE err
         IN  <<<<x, y>>>> \o (IF e > 0 THEN Octant(x - 1, y + 1, e - ((2 * (x - 1)) + 1)) ELSE Octant(x, y + 1, e))
Root(n) == CHOOSE r \in 0 .. n : r * r <= n /\ n < (r + 1) * (r + 1)
Radius(p, q) == Root((q[1] - p[1]) * (q[1] - p[1]) + (q[2] - p[2]) * (q[2] - p[2]))
\* circle_c: each point of the octant eight times.
Circle(p, r) ==
    UNION {{<<p[1] + (s * o[1]), p[2] + (t * o[2])>> : s, t \in {1, -1}} \union
           {<<p[1] + (s * o[2]), p[2] + (t * o[1])>> : s, t \in {1, -1}} : o \in ToSet(Octant(r, 0, 0))}

Corners(p, q) == LET lo(a, b) == IF a < b THEN a ELSE b
                 IN  <<<<lo(p[1], q[1]), lo(p[2], q[2])>>, <<Larger(p[1], q[1]), Larger(p[2], q[2])>>>>
\* What a tool has drawn when the mouse is let go.
Shape(tool, p, q, size) ==
    LET a == Corners(p, q)[1]
        b == Corners(p, q)[2]
    IN  CASE tool = "line" -> Traced(Segment(p, q), size)
          [] tool = "rectf" -> ((a[1] .. b[1]) \X (a[2] .. b[2])) \cap Pixels
          [] tool = "rect" -> Traced(Segment(a, <<b[1], a[2]>>), size) \union Traced(Segment(<<a[1], b[2]>>, b), size)
                              \union Traced(Segment(a, <<a[1], b[2]>>), size) \union Traced(Segment(<<b[1], a[2]>>, b), size)
          [] tool = "circle" -> UNION {Nib(c, size) : c \in Circle(p, Radius(p, q))}
          [] OTHER -> {}
Filled(canvas, set, col) == [p \in Pixels |-> IF p \in set THEN col ELSE canvas[p]]

-----------------------------------------------------------------------------
(* flood: a stack of pixels; the run of each is filled, its neighbours pushed *)

RunOf(canvas, p, target) ==
    {<<x, p[2]>> : x \in {y \in 0 .. CANVAS_W - 1 :
        \A z \in (IF y < p[1] THEN y .. p[1] ELSE p[1] .. y) : canvas[<<z, p[2]>>] = target}}
Pushed(stack, canvas, run, target) ==
    FoldLeft(LAMBDA s, x :
               LET here == CHOOSE p \in run : TRUE
                   up == <<x, here[2] - 1>>
                   down == <<x, here[2] + 1>>
                   push(t, p) == IF p \in Pixels /\ canvas[p] = target /\ Len(t) < CANVAS_W * CANVAS_H THEN Append(t, p) ELSE t
               IN  IF <<x, here[2]>> \in run THEN push(push(s, up), down) ELSE s,
             stack, [i \in 1 .. CANVAS_W |-> i - 1])
RECURSIVE Flooded(_, _, _, _)
\* Mutant of Flooded: what is pushed over a run that is filled is not looked at again.
FloodedOnce(canvas, stack, target, col) ==
    IF stack = <<>> THEN canvas ELSE Filled(canvas, RunOf(canvas, Last(stack), target), col)
Flooded(canvas, stack, target, col) ==
    IF stack = <<>> THEN canvas
    ELSE IF canvas[Last(stack)] # target THEN Flooded(canvas, Front(stack), target, col)
    ELSE LET run == RunOf(canvas, Last(stack), target)
             c == Filled(canvas, run, col)
         IN  Flooded(c, Pushed(Front(stack), canvas, run, target), target, col)
Flood(canvas, p, col) == IF canvas[p] = col THEN canvas ELSE Flooded(canvas, <<p>>, canvas[p], col)

-----------------------------------------------------------------------------
(* save_canvas, load_canvas: row by row, in runs *)

PixelOrder == [i \in 1 .. CANVAS_W * CANVAS_H |-> <<(i - 1) % CANVAS_W, (i - 1) \div CANVAS_W>>]
\* Mutant of Encoded: a run may be longer than its count can say.
EncodedLong(canvas) ==
    FoldLeft(LAMBDA rs, p : IF rs # <<>> /\ Last(rs).col = canvas[p]
                            THEN [rs EXCEPT ![Len(rs)].n = (@ + 1) % (MaxRun + 1)] ELSE Append(rs, [n |-> 1, col |-> canvas[p]]),
             <<>>, PixelOrder)
Encoded(canvas) ==
    FoldLeft(LAMBDA rs, p : IF rs # <<>> /\ Last(rs).col = canvas[p] /\ Last(rs).n < MaxRun
                            THEN [rs EXCEPT ![Len(rs)].n = @ + 1] ELSE Append(rs, [n |-> 1, col |-> canvas[p]]),
             <<>>, PixelOrder)
\* Pixels behind the last run keep what they were.
Decoded(runs, canvas) ==
    LET all == FoldLeft(LAMBDA s, r : s \o [i \in 1 .. r.n |-> r.col], <<>>, runs)
    IN  [p \in Pixels |-> LET i == (p[2] * CANVAS_W) + p[1] + 1 IN IF i <= Len(all) THEN all[i] ELSE canvas[p]]

PaintInit ==
    /\ m_canvas = Sheet /\ brush = [tool |-> "pencil", size |-> 1, col |-> CHOOSE c \in Inks : c # Paper]
    /\ drag = NoDrag /\ m_clear_arm = FALSE /\ gpi = <<>> /\ saved_as = Sheet /\ stroke = <<>> /\ acts = 0

Act == acts < MaxActs /\ acts' = acts + 1
Fixed == UNCHANGED <<gpi, saved_as>>
\* A picture with too many runs is refused; the file it was in stays.
SaveCanvas ==
    IF Len(Encoded(m_canvas)) > MaxRuns THEN UNCHANGED <<gpi, saved_as>> ELSE gpi' = Encoded(m_canvas) /\ saved_as' = m_canvas
SaveKey == Act /\ SaveCanvas /\ UNCHANGED <<m_canvas, brush, drag, m_clear_arm, stroke>>
SaveButton == Act /\ SaveCanvas /\ m_clear_arm' = FALSE /\ UNCHANGED <<m_canvas, brush, drag, stroke>>
LoadKey ==
    /\ Act /\ gpi # <<>> /\ m_canvas' = Decoded(gpi, m_canvas) /\ stroke' = <<>>
    /\ Fixed /\ UNCHANGED <<brush, drag, m_clear_arm>>
ClearKey == Act /\ m_canvas' = Sheet /\ stroke' = <<>> /\ Fixed /\ UNCHANGED <<brush, drag, m_clear_arm>>
\* [Effacer] asks once more.
ClearButton ==
    /\ Act /\ m_clear_arm' = ~m_clear_arm /\ Fixed /\ UNCHANGED <<brush, drag>>
    /\ IF m_clear_arm THEN m_canvas' = Sheet /\ stroke' = <<>> ELSE UNCHANGED <<m_canvas, stroke>>
\* A tool, a size or a colour, also in the middle of a drag.
Choose(b, click) ==
    /\ Act /\ b # brush /\ brush' = b /\ (click => m_clear_arm' = FALSE) /\ (~click => UNCHANGED m_clear_arm)
    /\ stroke' = <<>> /\ Fixed /\ UNCHANGED <<m_canvas, drag>>

WidthOf(tool, size) == IF tool = "eraser" /\ size < 3 THEN 3 ELSE size
ColourOf(tool) == IF tool = "eraser" THEN Paper ELSE brush.col
PressAt(p) ==
    /\ Act /\ m_clear_arm' = FALSE /\ Fixed /\ UNCHANGED brush
    /\ IF brush.tool = "fill" THEN m_canvas' = Flood(m_canvas, p, brush.col) /\ stroke' = <<>> /\ UNCHANGED drag
       ELSE /\ drag' = [on |-> TRUE, from |-> p, last |-> p, to |-> p]
            /\ stroke' = IF brush.tool = "pencil" THEN <<p>> ELSE <<>>
            /\ m_canvas' = IF brush.tool \in {"pencil", "eraser"}
                           THEN Filled(m_canvas, Nib(p, brush.size), ColourOf(brush.tool)) ELSE m_canvas
\* Mutant of Clamped: the last column and row are left out.
ClampedShort(p) == <<IF p[1] < 0 THEN 0 ELSE p[1], IF p[2] < 0 THEN 0 ELSE p[2]>>
Clamped(p) ==
    LET to(v, n) == IF v < 0 THEN 0 ELSE IF v >= n THEN n - 1 ELSE v IN <<to(p[1], CANVAS_W), to(p[2], CANVAS_H)>>
DragTo(q) ==
    LET p == Clamped(q)
        draws == brush.tool \in {"pencil", "eraser"}
    IN  /\ Act /\ drag.on /\ Fixed /\ UNCHANGED <<brush, m_clear_arm>>
        /\ drag' = [drag EXCEPT !.to = p, !.last = IF draws THEN p ELSE @]
        /\ stroke' = IF brush.tool = "pencil" /\ stroke # <<>> THEN Append(stroke, p) ELSE <<>>
        /\ m_canvas' = IF draws THEN Filled(m_canvas, Traced(Segment(drag.last, p), WidthOf(brush.tool, brush.size)), ColourOf(brush.tool))
                       ELSE m_canvas
Release ==
    /\ drag.on /\ drag' = [drag EXCEPT !.on = FALSE] /\ stroke' = <<>>
    /\ m_canvas' = Filled(m_canvas, Shape(brush.tool, drag.from, drag.to, brush.size), brush.col)
    /\ Fixed /\ UNCHANGED <<brush, m_clear_arm, acts>>

Tools == {"pencil", "line", "rect", "rectf", "circle", "fill", "eraser"}
PaintNext ==
    \/ SaveKey \/ SaveButton \/ LoadKey \/ ClearKey \/ ClearButton \/ Release
    \/ \E t \in Tools, c \in BOOLEAN : Choose([brush EXCEPT !.tool = t], c)
    \/ \E s \in Sizes, c \in BOOLEAN : Choose([brush EXCEPT !.size = s], c)
    \/ \E i \in Inks : Choose([brush EXCEPT !.col = i], TRUE)
    \/ \E p \in {<<0, 0>>, <<1, 1>>, <<CANVAS_W - 1, 1>>} : PressAt(p)
    \/ \E q \in {<<2, 0>>, <<-3, 1>>, <<CANVAS_W + 2, CANVAS_H>>} : DragTo(q)
PaintSpec == PaintInit /\ [][PaintNext]_paintVars

-----------------------------------------------------------------------------
(* Properties *)

\* A line goes from one end to the other in steps to a neighbouring pixel, as many as the
\* longer side has, and never more than half a pixel from the straight line.
LinesTrue ==
    LET Field == (0 .. 4) \X (0 .. 4)
    IN  \A p, q \in Field :
        LET l == Segment(p, q)
            dx == q[1] - p[1]
            dy == q[2] - p[2]
            n == Larger(Big(dx), Big(dy))
        IN  /\ l[1] = p /\ Last(l) = q /\ Len(l) = n + 1
            /\ \A i \in 1 .. n : Big(l[i + 1][1] - l[i][1]) <= 1 /\ Big(l[i + 1][2] - l[i][2]) <= 1
            /\ \A i \in DOMAIN l : 2 * Big(((l[i][2] - p[2]) * dx) - ((l[i][1] - p[1]) * dy)) <= n
\* A circle has no gaps, is never outside of its radius and nowhere more than one pixel
\* and a half inside of it.
CirclesTrue ==
    \A r \in 1 .. 12 :
        LET o == Octant(r, 0, 0)
        IN  /\ \A i \in DOMAIN o : LET d == (o[i][1] * o[i][1]) + (o[i][2] * o[i][2])
                                   IN  d <= r * r /\ (r > 1 => 4 * d > ((2 * r) - 3) * ((2 * r) - 3))
            /\ \A i \in 1 .. Len(o) - 1 : Big(o[i + 1][1] - o[i][1]) <= 1 /\ o[i + 1][2] = o[i][2] + 1
            /\ Last(o)[1] - Last(o)[2] <= 1
\* All a pencil was led through since it was put down is on the canvas, in its colour, also
\* when the mouse left the window meanwhile.
PencilMarks ==
    drag.on => \A i \in DOMAIN stroke : stroke[i] \in Pixels /\ m_canvas[stroke[i]] = brush.col
\* Filling colours exactly what is connected to the pixel in its colour, on any picture.
RECURSIVE Spread(_, _)
Spread(canvas, set) ==
    LET more == {p \in Pixels : p \in set \/ \E q \in set :
                    Big(p[1] - q[1]) + Big(p[2] - q[2]) = 1 /\ canvas[p] = canvas[q]}
    IN  IF more = set THEN set ELSE Spread(canvas, more)
FloodExact ==
    \A p \in {<<0, 0>>, <<1, 1>>} : \A c \in Inks :
        Flood(m_canvas, p, c) = IF c = m_canvas[p] THEN m_canvas ELSE Filled(m_canvas, Spread(m_canvas, {p}), c)
\* What is loaded is what was saved, pixel for pixel, and fits the file.
LoadsSaved == gpi # <<>> => Decoded(gpi, m_canvas) = saved_as /\ Len(gpi) <= MaxRuns /\ \A i \in DOMAIN gpi : gpi[i].n \in 1 .. MaxRun
PaintRight == LinesTrue /\ CirclesTrue /\ PencilMarks /\ FloodExact /\ LoadsSaved

-----------------------------------------------------------------------------
(***************************************************************************)
(* Le Donjon de Drakkar (DungeonWindow.cpp): floors of rooms and L-shaped  *)
(* corridors, a player who strikes by walking into monsters, monsters that *)
(* take their turn after the player's, and Drakkar on the last floor.      *)
(*                                                                         *)
(* The random numbers are any numbers of their ranges.  Gold only counts   *)
(* up and is left out.                                                     *)
(***************************************************************************)
CONSTANTS
    COLS, ROWS, RoomWidths, RoomHeights, RoomCounts,
    PlayRooms,          \* the rooms of the floors that are played
    Spots,              \* cells free_floor finds on them
    MAX_MON, MAX_FLOOR, FOV_R, WakeR,
    HeroHp, HeroAtk, Luck,      \* Luck: what chance adds to a blow
    Kinds,              \* hp and atk of the monsters
    DrakkarHp, DrakkarAtk, Healing,
    MaxTurns            \* bound: keys pressed in a game

ASSUME DungeonAssumption ==
    /\ HeroHp > 0 /\ HeroAtk > 0 /\ MAX_MON \in Nat \ {0} /\ MAX_FLOOR \in Nat \ {0}
    /\ \A w \in RoomWidths : 0 < w /\ w + 2 < COLS
    /\ \A h \in RoomHeights : 0 < h /\ h + 2 < ROWS

VARIABLES
    delve,              \* "maps": floors are dug; "play": a floor is played
    dug,                \* m_tile, the player and the stairs
    hero,               \* m_px, m_py, m_hp, m_pot, m_floor, m_status, m_seen
    mons, items,        \* m_mon, m_item
    hurt,               \* history: the last turn cost life
    turns
dungeonVars == <<delve, dug, hero, mons, items, hurt, turns>>

Cells == (0 .. COLS - 1) \X (0 .. ROWS - 1)
Abs(n) == IF n < 0 THEN -n ELSE n
Between(a, b) == IF a <= b THEN a .. b ELSE b .. a

-----------------------------------------------------------------------------
(* gen_level: a room, and a corridor from the room before *)

RoomsOfSize(w, h) == {[x |-> x, y |-> y, w |-> w, h |-> h] : x \in 1 .. COLS - w - 2, y \in 1 .. ROWS - h - 2}
AllRooms == UNION {RoomsOfSize(w, h) : w \in RoomWidths, h \in RoomHeights}
Middle(r) == <<r.x + (r.w \div 2), r.y + (r.h \div 2)>>
Inside(r) == (r.x .. r.x + r.w - 1) \X (r.y .. r.y + r.h - 1)
\* Mutant of Corridor: the second leg starts from the new room's row only.
CorridorShort(p, q) == {<<x, p[2]>> : x \in Between(p[1], q[1]) \ {q[1]}}
Corridor(p, q) == {<<x, p[2]>> : x \in Between(p[1], q[1])} \union {<<q[1], y>> : y \in Between(p[2], q[2])}
Dug(rooms) ==
    [floor |-> UNION {Inside(rooms[i]) : i \in DOMAIN rooms}
               \union UNION {Corridor(Middle(rooms[i]), Middle(rooms[i + 1])) : i \in 1 .. Len(rooms) - 1},
     start |-> Middle(rooms[1]), end |-> Middle(Last(rooms))]

Monster(cell, hp, atk, dragon) == [at |-> cell, hp |-> hp, atk |-> atk, alive |-> TRUE, dragon |-> dragon]
MonsterAt(ms, c) == SelectInSeq(ms, LAMBDA m : m.alive /\ m.at = c)
Passable(c) == c \in dug.floor
View(c) == {d \in Cells : Abs(d[1] - c[1]) < FOV_R /\ Abs(d[2] - c[2]) < FOV_R}
HasStairs(c) == hero.level < MAX_FLOOR /\ c = dug.end
IsFinal(level) == level >= MAX_FLOOR

\* Monsters and items lie on free cells of the floor, each of its own.
Populated(d, level, where, kinds) ==
    [i \in 1 .. (IF IsFinal(level) THEN 1 ELSE 0) + Len(where) |->
        IF IsFinal(level) /\ i = 1 THEN Monster(d.end, DrakkarHp, DrakkarAtk, TRUE)
        ELSE LET k == i - (IF IsFinal(level) THEN 1 ELSE 0) IN Monster(where[k], kinds[k].hp, kinds[k].atk, FALSE)]
FreeFloor(d, level) == (d.floor \ {d.start, d.end}) \cap Spots
\* A new floor: dug from rooms, with monsters and a potion on it.
Level(rooms, level) ==
    /\ dug' = Dug(rooms)
    /\ \E where \in SeqOf(FreeFloor(Dug(rooms), level), MAX_MON - 1) :
         /\ IsInjective(where)
         /\ \E kinds \in [DOMAIN where -> Kinds] : mons' = Populated(Dug(rooms), level, where, kinds)
         /\ \E p \in SUBSET (FreeFloor(Dug(rooms), level) \ ToSet(where)) :
              Cardinality(p) <= 1 /\ items' = p

\* Drawn and dug only, or played from PlayRooms.
DungeonInit ==
    /\ delve \in {"maps", "play"} /\ turns = 0
    /\ dug = Dug(PlayRooms) /\ mons = <<>> /\ items = {}
    /\ hero = [at |-> dug.start, hp |-> HeroHp, pot |-> 1, level |-> 1, status |-> "closed", seen |-> View(dug.start)]
    /\ hurt = FALSE

Dig(rooms) == /\ delve = "maps" /\ turns = 0 /\ turns' = 1
              /\ dug' = Dug(rooms) /\ UNCHANGED <<delve, hero, mons, items, hurt>>

-----------------------------------------------------------------------------
(* A turn *)

Playing == /\ delve = "play" /\ turns < MaxTurns /\ UNCHANGED delve
           /\ turns' = IF hero.status = "closed" THEN 0 ELSE turns + 1
Signum(n) == IF n > 0 THEN 1 ELSE IF n < 0 THEN -1 ELSE 0

\* Mutant of Strikes: a monster strikes past a corner.
StrikesAskew(m, at) == Abs(at[1] - m.at[1]) <= 1 /\ Abs(at[2] - m.at[2]) <= 1
Strikes(m, at) == Abs(at[1] - m.at[1]) + Abs(at[2] - m.at[2]) = 1
Asleep(m, at) == Abs(at[1] - m.at[1]) > WakeR \/ Abs(at[2] - m.at[2]) > WakeR
\* Along the longer axis.
Towards(m, at) ==
    LET dx == at[1] - m.at[1]
        dy == at[2] - m.at[2]
    IN  IF Abs(dx) > Abs(dy) THEN <<m.at[1] + Signum(dx), m.at[2]>> ELSE <<m.at[1], m.at[2] + Signum(dy)>>

\* monsters_turn, one monster after the other; the first blow that kills ends it.
MonsterTurn(w, i) ==
    LET m == w.mons[i]
        to == Towards(m, w.hero.at)
    IN  CASE w.hero.status = "dead" \/ ~m.alive \/ Asleep(m, w.hero.at) -> w
          [] Strikes(m, w.hero.at) /\ w.hero.status # "dead" /\ m.alive ->
               IF w.hero.hp <= m.atk THEN [w EXCEPT !.hero.hp = 0, !.hero.status = "dead"]
               ELSE [w EXCEPT !.hero.hp = @ - m.atk]
          [] OTHER -> IF Passable(to) /\ MonsterAt(w.mons, to) = 0 /\ to # w.hero.at
                      THEN [w EXCEPT !.mons[i].at = to] ELSE w
MonstersTurn(h, ms) ==
    LET w == FoldLeft(MonsterTurn, [hero |-> h, mons |-> ms], [i \in DOMAIN ms |-> i])
    IN  hero' = w.hero /\ mons' = w.mons /\ hurt' = (w.hero.hp < h.hp)

\* Walking into a monster strikes it; killing Drakkar wins before any answer.
Strike(i, blow) ==
    LET hp == mons[i].hp - blow
        ms == [mons EXCEPT ![i] = [@ EXCEPT !.hp = hp, !.alive = hp > 0]]
    IN  IF hp <= 0 /\ mons[i].dragon THEN hero' = [hero EXCEPT !.status = "won"] /\ mons' = ms /\ hurt' = FALSE
        ELSE MonstersTurn(hero, ms)
\* Going there takes what lies there, and the stairs lead down at once.
Go(to) ==
    LET h == [hero EXCEPT !.at = to, !.pot = IF to \in items THEN @ + 1 ELSE @, !.seen = @ \union View(to)]
    IN  IF HasStairs(to)
        THEN /\ Level(PlayRooms, hero.level + 1)
             /\ hero' = [h EXCEPT !.level = @ + 1, !.at = dug'.start, !.seen = View(dug'.start)]
             /\ hurt' = FALSE
        ELSE items' = items \ {to} /\ MonstersTurn(h, mons) /\ UNCHANGED dug
Step(dx, dy) ==
    LET to == <<hero.at[1] + dx, hero.at[2] + dy>>
        i == MonsterAt(mons, to)
    IN  /\ Playing /\ hero.status = "playing"
        /\ IF i # 0 THEN (\E l \in Luck : Strike(i, HeroAtk + l)) /\ UNCHANGED <<items, dug>>
           ELSE IF Passable(to) THEN Go(to) ELSE UNCHANGED <<dug, hero, mons, items, hurt>>

\* Mutant of QuaffPotion: one more than there are.
QuaffPotionFree ==
    /\ Playing /\ hero.status = "playing" /\ UNCHANGED <<dug, items>>
    /\ MonstersTurn([hero EXCEPT !.pot = @ - 1, !.hp = Min({HeroHp, @ + Healing})], mons)
QuaffPotion ==
    /\ Playing /\ hero.status = "playing" /\ hero.pot > 0 /\ UNCHANGED <<dug, items>>
    /\ MonstersTurn([hero EXCEPT !.pot = @ - 1, !.hp = Min({HeroHp, @ + Healing})], mons)
NewGame ==
    /\ Playing /\ Level(PlayRooms, 1) /\ hurt' = FALSE
    /\ hero' = [at |-> dug'.start, hp |-> HeroHp, pot |-> 1, level |-> 1, status |-> "playing", seen |-> View(dug'.start)]

DungeonNext ==
    \/ \E n \in RoomCounts : \E rooms \in [1 .. n -> AllRooms] : Dig(rooms)
    \/ \E d \in {<<0, -1>>, <<0, 1>>, <<-1, 0>>, <<1, 0>>} : Step(d[1], d[2])
    \/ QuaffPotion \/ NewGame
DungeonSpec == DungeonInit /\ [][DungeonNext]_dungeonVars

-----------------------------------------------------------------------------
(* Properties *)

RECURSIVE Reached(_, _)
Reached(cells, floor) ==
    LET more == {c \in floor : c \in cells \/ \E d \in cells : Abs(c[1] - d[1]) + Abs(c[2] - d[2]) = 1}
    IN  IF more = cells THEN cells ELSE Reached(more, floor)

\* DungeonWindow.cpp:78, "rooms + L-corridors → guaranteed connected": every cell of the
\* floor, the stairs with it, is reached from the start, and rock surrounds it.
Connected ==
    /\ dug.end \in dug.floor /\ Reached({dug.start}, dug.floor) = dug.floor
    /\ dug.floor \subseteq (1 .. COLS - 2) \X (1 .. ROWS - 2)
\* Nobody stands in rock or on somebody else; Drakkar alone may lie under the player who
\* has just come down on him.
Standing ==
    LET living == {i \in DOMAIN mons : mons[i].alive}
    IN  /\ hero.at \in dug.floor
        /\ \A i \in living : mons[i].at \in dug.floor /\ mons[i].hp > 0
        /\ \A i, j \in living : mons[i].at = mons[j].at => i = j
        /\ \A i \in living : mons[i].at = hero.at => mons[i].dragon
\* A game ends in one way: without life, or with Drakkar dead on the last floor.
EndsOnce ==
    /\ hero.hp \in 0 .. HeroHp /\ hero.pot >= 0 /\ hero.level \in 1 .. MAX_FLOOR
    /\ hero.status = "dead" <=> hero.hp = 0
    /\ hero.status = "won" => hero.hp > 0 /\ hero.level = MAX_FLOOR
    /\ hero.status = "won" <=> \E i \in DOMAIN mons : mons[i].dragon /\ ~mons[i].alive
\* A turn costs life only if a living monster stands beside the player after it: those that
\* come nearer do not strike in the same turn, and not past a corner.
HurtBeside ==
    hurt => \E i \in DOMAIN mons :
        mons[i].alive /\ Abs(mons[i].at[1] - hero.at[1]) + Abs(mons[i].at[2] - hero.at[2]) = 1
DungeonRight ==
    /\ delve = "maps" => Connected
    /\ delve = "play" /\ hero.status # "closed" => Standing /\ EndsOnce /\ HurtBeside /\ View(hero.at) \subseteq hero.seen
=============================================================================
