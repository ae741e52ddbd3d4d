------------------------------ MODULE Console -------------------------------
(***************************************************************************)
(* The screen and the line under the cursor: the terminal emulator and the *)
(* text console, then the line editor of the prompt on top of them.        *)
(***************************************************************************)
EXTENDS Integers, Sequences, SequencesExt

(***************************************************************************)
(* Where text goes: the terminal emulator of a desktop window              *)
(* (TerminalEmulator.cpp) and the text console with its scrollback and its *)
(* capture of output (vga.c).  Both keep a grid of cells and a cursor, and *)
(* read escape sequences a character at a time.                            *)
(*                                                                         *)
(* They are compared with paper: the lines printed so far, none forgotten. *)
(* Programs print pieces: a character, or a whole escape sequence.         *)
(***************************************************************************)
CONSTANTS
    Wide, High,     \* columns; rows
    TabStop,        \* columns between tab stops
    ScrollbackLines,\* SB_LINES
    Pieces,         \* of "terminal" and "console": what programs print
    MaxPieces       \* bound on what is printed

ASSUME TerminalAssumption ==
    /\ Wide \in Nat \ {0} /\ High \in Nat /\ High >= 3 /\ TabStop \in Nat \ {0}
    /\ ScrollbackLines \in Nat \ {0} /\ MaxPieces \in Nat

VARIABLES
    device,         \* "terminal" or "console"
    screen,         \* its grid, cursor, colour and escape state
    back,           \* of the console: the lines scrolled away, and the view on them
    capture,        \* of the console: the output kept from the screen
    paper, pen,     \* history: the lines and the place on the last of them; the colour
    astray,         \* history: a program moved the cursor
    printed         \* pieces printed
terminalVars == <<device, screen, back, capture, paper, pen, astray, printed>>

DigitOf == [d \in {"0", "1", "2", "3"} |-> CASE d = "0" -> 0 [] d = "1" -> 1 [] d = "2" -> 2 [] d = "3" -> 3]
Control == {"\n", "BS", "\r", "\t"}
Clip(n, low, high) == IF n < low THEN low ELSE IF n > high THEN high ELSE n
MaxParams == 8

BlankCell(colour) == [ch |-> " ", colour |-> colour]
BlankRow(colour) == [x \in 1 .. Wide |-> BlankCell(colour)]
FreshScreen(top, bot) ==
    [cells |-> [y \in 1 .. High |-> BlankRow("plain")], col |-> 0, row |-> top, colour |-> "plain",
     state |-> "text", params |-> <<>>, cur |-> 0, private |-> FALSE, top |-> top, bot |-> bot]

\* Columns and rows are counted from 0, as in the code.
SetCell(s, col, row, cell) == [s EXCEPT !.cells[row + 1][col + 1] = cell]
PutCell(s, ch) == SetCell(s, s.col, s.row, [ch |-> ch, colour |-> s.colour])

-----------------------------------------------------------------------------
(* The terminal emulator *)

ScrollUp(s) == [s EXCEPT !.cells = Append(Tail(@), BlankRow(s.colour))]
\* A new row, with scrolling at the last.
NewRow(s) == IF s.row + 1 >= High THEN [ScrollUp(s) EXCEPT !.col = 0, !.row = High - 1]
             ELSE [s EXCEPT !.col = 0, !.row = @ + 1]
SetCursor(s, col, row) == [s EXCEPT !.col = Clip(col, 0, Wide - 1), !.row = Clip(row, 0, High - 1)]
ClearScreen(s) == [s EXCEPT !.cells = [y \in 1 .. High |-> BlankRow(s.colour)], !.col = 0, !.row = 0]

\* apply_sgr
Coloured(colour, p) == CASE p = 0 -> "plain" [] p \in 30 .. 37 -> "coloured" [] OTHER -> colour
ApplySgr(s) == [s EXCEPT !.colour = FoldLeft(Coloured, s.colour, s.params), !.params = <<>>]

\* The byte that ends a control sequence.
PushParam(s) == [s EXCEPT !.params = IF Len(@) < MaxParams THEN Append(@, s.cur) ELSE @, !.cur = 0]
Dispatch(s, c) ==
    LET p0 == s.params[1]
        p1 == IF Len(s.params) >= 2 THEN s.params[2] ELSE 0
        n == IF p0 > 0 THEN p0 ELSE 1
    IN  CASE c = "m" -> ApplySgr(s)
          [] c = "H" -> SetCursor(s, IF p1 > 0 THEN p1 - 1 ELSE 0, IF p0 > 0 THEN p0 - 1 ELSE 0)
          [] c = "J" /\ p0 = 2 -> ClearScreen(s)
          [] c = "K" -> [s EXCEPT !.cells[s.row + 1] =
                            [x \in 1 .. Wide |-> IF x > s.col THEN BlankCell(s.colour) ELSE @[x]]]
          [] c = "A" -> SetCursor(s, s.col, s.row - n)
          [] c = "B" -> SetCursor(s, s.col, s.row + n)
          [] c = "C" -> SetCursor(s, s.col + n, s.row)
          [] c = "D" -> SetCursor(s, s.col - n, s.row)
          [] OTHER -> s

ReadEscape(s, c) ==
    IF s.state = "esc"
    THEN IF c = "[" THEN [s EXCEPT !.state = "csi", !.params = <<>>, !.cur = 0] ELSE [s EXCEPT !.state = "text"]
    ELSE CASE c = "?" -> [s EXCEPT !.private = TRUE]
           [] c \in DOMAIN DigitOf -> [s EXCEPT !.cur = @ * 10 + DigitOf[c]]
           [] c = ";" -> PushParam(s)
           [] OTHER -> LET full == PushParam(s)
                       IN  [(IF s.private THEN full ELSE Dispatch(full, c)) EXCEPT !.private = FALSE, !.state = "text"]

TabTo(s) == Clip(((s.col \div TabStop) + 1) * TabStop, 0, Wide)
\* Mutant of Tabbed: a tab over the last column leaves the cursor there.
TabbedStaying(s) ==
    LET filled == FoldLeft(LAMBDA t, i : [PutCell(t, " ") EXCEPT !.col = @ + 1], s, [i \in 1 .. TabTo(s) - s.col |-> i])
    IN  IF filled.col >= Wide THEN [filled EXCEPT !.col = Wide - 1] ELSE filled
Tabbed(s) ==
    LET filled == FoldLeft(LAMBDA t, i : [PutCell(t, " ") EXCEPT !.col = @ + 1], s, [i \in 1 .. TabTo(s) - s.col |-> i])
    IN  IF filled.col >= Wide THEN NewRow(filled) ELSE filled

\* TerminalEmulator::put_char
PutChar(s, c) ==
    IF s.state # "text" THEN ReadEscape(s, c)
    ELSE CASE c = "ESC" -> [s EXCEPT !.state = "esc"]
           [] c = "\n" -> NewRow(s)
           [] c = "\r" -> [s EXCEPT !.col = 0]
           [] c = "BS" -> IF s.col > 0 THEN PutCell([s EXCEPT !.col = @ - 1], " ") ELSE s
           [] c = "\t" -> Tabbed(s)
           [] OTHER -> LET put == PutCell(s, c)
                       IN  IF s.col + 1 >= Wide THEN NewRow(put) ELSE [put EXCEPT !.col = @ + 1]
PutAll(s, piece) == FoldLeft(PutChar, s, piece)

-----------------------------------------------------------------------------
(* The text console: con is its screen, its scrollback and its capture *)

Console == [screen |-> screen, back |-> back, capture |-> capture]
FreshBack == [buf |-> [i \in 0 .. ScrollbackLines - 1 |-> BlankRow("plain")], head |-> 0, count |-> 0,
              offset |-> 0, saved |-> FreshScreen(1, High - 2)]
NoCapture == [on |-> FALSE, buf |-> <<>>, col |-> 0, row |-> 0]
\* draw_interface: a header row, a status row and between them the lines that scroll.
FreshConsole == [screen |-> FreshScreen(1, High - 2), back |-> FreshBack, capture |-> NoCapture]

SaveLine(b, line) == [b EXCEPT !.buf[b.head] = line, !.head = (@ + 1) % ScrollbackLines,
                           !.count = IF @ < ScrollbackLines THEN @ + 1 ELSE @]
TermScroll(con) ==
    LET s == con.screen
    IN  [con EXCEPT !.back = SaveLine(@, s.cells[s.top + 1]),
                    !.screen.cells = [y \in 1 .. High |-> IF y - 1 \in s.top .. s.bot - 1 THEN s.cells[y + 1]
                                                          ELSE IF y - 1 = s.bot THEN BlankRow(s.colour) ELSE s.cells[y]],
                    !.screen.row = s.bot, !.screen.col = 0]
ScrollIfBelow(con) == IF con.screen.row > con.screen.bot THEN TermScroll(con) ELSE con
WrapIfPast(con) == IF con.screen.col >= Wide THEN [con EXCEPT !.screen.col = 0, !.screen.row = @ + 1] ELSE con

\* The end of term_putc: a character that is no part of an escape sequence.
PutText(con, c) ==
    LET s == con.screen
    IN  IF con.capture.on
        THEN [con EXCEPT !.capture.buf = CASE c = "BS" -> IF @ = <<>> THEN @ ELSE Front(@)
                                           [] c = "\n" -> Append(@, c)
                                           [] OTHER -> IF c \in Control THEN @ ELSE Append(@, c)]
        ELSE CASE c = "BS" -> IF s.col > 0 THEN [con EXCEPT !.screen = PutCell([s EXCEPT !.col = @ - 1], " ")] ELSE con
               [] c = "\n" -> ScrollIfBelow([con EXCEPT !.screen.col = 0, !.screen.row = @ + 1])
               [] OTHER ->
                    LET at == ScrollIfBelow(WrapIfPast(con))
                    IN  ScrollIfBelow(WrapIfPast([at EXCEPT !.screen = [PutCell(@, c) EXCEPT !.col = @ + 1]]))

\* term_putc
TermPutc(con, c) ==
    LET s == con.screen
    IN  CASE s.state = "text" /\ c = "ESC" -> [con EXCEPT !.screen.state = "esc"]
          [] s.state = "esc" /\ c = "[" -> [con EXCEPT !.screen.state = "csi", !.screen.params = <<>>, !.screen.cur = 0]
          [] s.state = "csi" /\ c \in DOMAIN DigitOf -> [con EXCEPT !.screen.cur = @ * 10 + DigitOf[c]]
          [] s.state = "csi" /\ c = ";" -> [con EXCEPT !.screen = PushParam(@)]
          [] s.state = "csi" /\ c = "m" -> [con EXCEPT !.screen = [ApplySgr(PushParam(@)) EXCEPT !.state = "text"]]
          [] s.state = "csi" /\ c \notin DOMAIN DigitOf \union {";", "m"} -> [con EXCEPT !.screen.state = "text"]
          [] OTHER -> PutText([con EXCEPT !.screen.state = "text"], c)
TermPrint(con, piece) == FoldLeft(TermPutc, con, piece)
TermMoveCursor(con, col, row) ==
    IF con.capture.on THEN con ELSE [con EXCEPT !.screen = SetCursor(@, col, row)]

\* sb_redraw: the lines kept and then the saved screen, seen offset lines up.
RowsShown(s) == s.bot - s.top + 1
Kept(b, i) == b.buf[(b.head - b.count + i + ScrollbackLines * 4) % ScrollbackLines]
SbRow(con, b, r) ==
    LET s == con.screen
        vline == b.count - b.offset + r
    IN  IF vline < 0 THEN BlankRow("plain")
        ELSE IF vline < b.count THEN Kept(b, vline) ELSE b.saved.cells[s.top + vline - b.count + 1]
SbRedraw(con, b) ==
    LET s == con.screen
    IN  [con EXCEPT !.back = b,
                    !.screen.cells = [y \in 1 .. High |-> IF y - 1 \in s.top .. s.bot THEN SbRow(con, b, y - 1 - s.top)
                                                          ELSE IF y = High THEN BlankRow("plain") ELSE @[y]]]

\* Mutant of SbScrollUp: the screen is saved at every page.
SbScrollUpSaving(con) ==
    LET b == con.back
        most == b.count + RowsShown(con.screen) - 1
    IN  IF b.offset = 0 /\ b.count = 0 THEN con
        ELSE SbRedraw(con, [b EXCEPT !.saved = con.screen, !.offset = Clip(@ + RowsShown(con.screen), 0, most)])
SbScrollUp(con) ==
    LET b == con.back
        most == b.count + RowsShown(con.screen) - 1
    IN  IF b.offset = 0 /\ b.count = 0 THEN con
        ELSE SbRedraw(con, [b EXCEPT !.saved = IF b.offset = 0 THEN con.screen ELSE @,
                                     !.offset = Clip(@ + RowsShown(con.screen), 0, most)])
SbExit(con) ==
    IF con.back.offset = 0 THEN con
    ELSE LET was == con.back.saved
         IN  [con EXCEPT !.back.offset = 0,
                         !.screen = [@ EXCEPT !.cells = was.cells, !.col = was.col, !.row = was.row]]
SbScrollDown(con) ==
    LET left == con.back.offset - RowsShown(con.screen)
    IN  IF con.back.offset = 0 THEN con
        ELSE IF left <= 0 THEN SbExit(con)
        ELSE SbRedraw(con, [con.back EXCEPT !.offset = left])

TermCaptureStart(con) ==
    [con EXCEPT !.capture = [on |-> TRUE, buf |-> <<>>, col |-> con.screen.col, row |-> con.screen.row]]
TermCaptureEnd(con) ==
    [con EXCEPT !.capture.on = FALSE, !.screen.col = con.capture.col, !.screen.row = con.capture.row]

-----------------------------------------------------------------------------
(* What a piece means on paper: the last line is written at place at *)

BlankPaper == [lines |-> << <<>> >>, at |-> 0]
LastLine(p) == Last(p.lines)
WithLast(p, line, at) == [lines |-> Append(Front(p.lines), line), at |-> at]
NextLine(p) == [lines |-> Append(p.lines, <<>>), at |-> 0]
Inked(p, cell) ==
    LET line == IF p.at < Len(LastLine(p)) THEN [LastLine(p) EXCEPT ![p.at + 1] = cell] ELSE Append(LastLine(p), cell)
    IN  IF p.at + 1 = Wide THEN NextLine(WithLast(p, line, 0)) ELSE WithLast(p, line, p.at + 1)
Spaces(p, n) == FoldLeft(LAMBDA q, i : Inked(q, BlankCell("plain")), p, [i \in 1 .. n |-> i])

Means(p, piece) ==
    CASE piece = <<"\n">> -> NextLine(p)
      [] piece = <<"\r">> -> [p EXCEPT !.at = 0]
      [] piece = <<"BS">> /\ p.at > 0 ->
            WithLast(p, [LastLine(p) EXCEPT ![p.at] = BlankCell("plain")], p.at - 1)
      [] piece = <<"\t">> -> Spaces(p, Clip(TabStop - (p.at % TabStop), 0, Wide - p.at))
      [] piece = <<"ESC", "[", "2", "J">> -> BlankPaper
      [] piece = <<"ESC", "[", "K">> -> WithLast(p, SubSeq(LastLine(p), 1, p.at), p.at)
      [] piece = <<"ESC", "x">> /\ device = "console" -> Inked(p, [ch |-> "x", colour |-> pen])
      [] Len(piece) = 1 /\ piece[1] \notin Control -> Inked(p, [ch |-> piece[1], colour |-> pen])
      [] OTHER -> p
PenAfter(piece) ==
    CASE piece = <<"ESC", "[", "3", "1", "m">> -> "coloured"
      [] piece \in {<<"ESC", "[", "m">>, <<"ESC", "[", "3", "1", ";", "0", "m">>} -> "plain"
      [] OTHER -> pen
Moves(piece) == Len(piece) > 1 /\ Last(piece) \in {"A", "B", "C", "D", "H"}

-----------------------------------------------------------------------------
TerminalInit ==
    /\ device \in {"terminal", "console"}
    /\ screen = IF device = "terminal" THEN FreshScreen(0, High - 1) ELSE FreshConsole.screen
    /\ back = FreshBack /\ capture = NoCapture
    /\ paper = BlankPaper /\ pen = "plain" /\ astray = FALSE /\ printed = 0

BecomesConsole(con) == screen' = con.screen /\ back' = con.back /\ capture' = con.capture

Emit(piece) ==
    /\ printed < MaxPieces /\ printed' = printed + 1
    /\ IF device = "terminal" THEN screen' = PutAll(screen, piece) /\ UNCHANGED <<back, capture>>
       ELSE back.offset = 0 /\ BecomesConsole(TermPrint(Console, piece))
    /\ paper' = IF capture.on THEN paper ELSE Means(paper, piece)
    /\ pen' = PenAfter(piece)
    /\ astray' = (piece # <<"ESC", "[", "2", "J">> /\ (astray \/ Moves(piece)))

\* Page up, page down and any other key at the prompt.
PageKey ==
    /\ device = "console" /\ ~capture.on
    /\ \/ BecomesConsole(SbScrollUp(Console)) \/ BecomesConsole(SbScrollDown(Console))
       \/ BecomesConsole(SbExit(Console))
    /\ UNCHANGED <<paper, pen, astray, printed>>

\* The shell keeps the output of a command for the next one.
CaptureKey ==
    /\ device = "console" /\ back.offset = 0 /\ printed < MaxPieces
    /\ BecomesConsole(IF capture.on THEN TermCaptureEnd(Console) ELSE TermCaptureStart(Console))
    /\ UNCHANGED <<paper, pen, astray, printed>>

TerminalNext == (\/ \E piece \in Pieces[device] : Emit(piece)
                 \/ PageKey \/ CaptureKey) /\ UNCHANGED device
TerminalSpec == TerminalInit /\ [][TerminalNext]_terminalVars

-----------------------------------------------------------------------------
(* Properties *)

Look(cell) == IF cell.ch = " " THEN "blank" ELSE cell.ch \o cell.colour
Shows(row, line) == \A x \in 1 .. Wide : Look(row[x]) = IF x <= Len(line) THEN Look(line[x]) ELSE "blank"

\* A terminal shows the last of the lines printed, each character in its colour, with
\* the cursor where the next one goes, however they wrap, scroll and are overwritten.
TerminalShows ==
    LET above == Len(paper.lines) - 1 - screen.row
    IN  /\ screen.col \in 0 .. Wide - 1 /\ screen.row \in 0 .. High - 1
        /\ astray \/ /\ above >= 0 /\ screen.col = paper.at
                     /\ \A y \in 0 .. High - 1 :
                           Shows(screen.cells[y + 1], IF y <= screen.row THEN paper.lines[above + y + 1] ELSE <<>>)

\* The console's screen under the view, the lines above it, and the lines of both.
Underneath == IF back.offset = 0 THEN screen ELSE back.saved
LinesAbove == Len(paper.lines) - 1 - (Underneath.row - Underneath.top)
LineAt(i) == IF i \in 1 .. Len(paper.lines) THEN paper.lines[i] ELSE <<>>

\* Nothing printed on the console is lost but what is older than the scrollback: the
\* screen shows the last lines, scrolling back shows the lines before them in order,
\* leaving the view brings the screen back, and output that is captured leaves no trace.
ConsoleShows ==
    /\ LinesAbove >= 0 /\ Underneath.col = paper.at
    /\ back.count = Clip(LinesAbove, 0, ScrollbackLines)
    /\ \A i \in 0 .. back.count - 1 : Shows(Kept(back, i), LineAt(LinesAbove - back.count + i + 1))
    /\ \A r \in 0 .. RowsShown(Underneath) - 1 : Shows(Underneath.cells[Underneath.top + r + 1], LineAt(LinesAbove + r + 1))
    /\ \A r \in 0 .. RowsShown(screen) - 1 :
          LET i == LinesAbove - back.offset + r + 1
          IN  Shows(screen.cells[screen.top + r + 1], IF i > LinesAbove - back.count THEN LineAt(i) ELSE <<>>)
    /\ back.offset = 0 => Shows(screen.cells[High], <<>>)

TerminalRight == IF device = "terminal" THEN TerminalShows ELSE ConsoleShows

-----------------------------------------------------------------------------
(***************************************************************************)
(* The prompt of the shell in a terminal (kmain's loop, history_push,      *)
(* history_get, do_tab_complete).  What is typed is kept in a line and     *)
(* printed as it is typed; the terminal is the one above.                  *)
(***************************************************************************)
CONSTANTS
    Keys,           \* printable keys
    HISTORY_SIZE,   \* commands that are remembered
    BUFFER_SIZE,    \* characters a line may have, and one
    Names,          \* what tab completes: commands and files
    MaxKeys         \* bound on the keys typed

ASSUME PromptAssumption ==
    /\ HISTORY_SIZE \in Nat \ {0} /\ BUFFER_SIZE \in Nat \ {0} /\ MaxKeys \in Nat
    /\ Names \subseteq Seq(Keys)

VARIABLES
    vt,             \* the terminal the prompt is printed in
    buf, history, history_count, history_nav,
    commands,       \* history: the commands given, without immediate repeats
    over,           \* history: the line once came to the end of its row
    keys            \* keys typed
promptVars == <<vt, buf, history, history_count, history_nav, commands, over, keys>>

PromptSign == ">"
PrintPrompt(s) == PutChar(s, PromptSign)

PromptInit ==
    /\ vt = PrintPrompt(FreshScreen(0, High - 1)) /\ buf = <<>>
    /\ history = [i \in 0 .. HISTORY_SIZE - 1 |-> <<>>] /\ history_count = 0 /\ history_nav = -1
    /\ commands = <<>> /\ over = FALSE /\ keys = 0

-----------------------------------------------------------------------------
(* The prompt *)

\* Mutant of HistoryGet: the offset is not limited to what is kept.
HistoryGetAny(offset) ==
    IF offset < 0 \/ offset >= history_count THEN <<>> ELSE history[(history_count - 1 - offset) % HISTORY_SIZE]
HistoryGet(offset) ==
    IF offset < 0 \/ offset >= history_count \/ offset >= HISTORY_SIZE THEN <<>>
    ELSE history[(history_count - 1 - offset) % HISTORY_SIZE]

HistoryPush(cmd) ==
    IF history_count > 0 /\ history[(history_count - 1) % HISTORY_SIZE] = cmd
    THEN UNCHANGED <<history, history_count, commands>>
    ELSE /\ history' = [history EXCEPT ![history_count % HISTORY_SIZE] = cmd]
         /\ history_count' = history_count + 1 /\ commands' = Append(commands, cmd)

Erased(s, n) == PutAll(s, [i \in 1 .. n |-> "BS"])
Fits(line) == Len(line) + 1 < Wide
RowOver(line) == over' = (over \/ ~Fits(line))
Past == UNCHANGED <<history, history_count, commands>>

\* A line from the history takes the place of the line typed.
Recall(nav) ==
    /\ history_nav' = nav
    /\ buf' = HistoryGet(nav) /\ vt' = PutAll(Erased(vt, Len(buf)), HistoryGet(nav))
    /\ RowOver(HistoryGet(nav)) /\ Past
KeyUp ==
    /\ history_count > 0
    /\ Recall(IF history_nav < history_count - 1 /\ history_nav < HISTORY_SIZE - 1 THEN history_nav + 1 ELSE history_nav)
KeyDown ==
    IF history_nav > 0 THEN Recall(history_nav - 1)
    ELSE /\ history_nav' = -1 /\ buf' = <<>> /\ vt' = Erased(vt, Len(buf))
         /\ UNCHANGED over /\ Past

FreshPrompt(s) == vt' = PrintPrompt(s) /\ buf' = <<>> /\ history_nav' = -1 /\ over' = FALSE
KeyCtrlC == FreshPrompt(PutAll(vt, <<"^", "\n">>)) /\ Past
\* A command prints nothing, or a line.
KeyEnter ==
    \E out \in {<<>>, <<"x", "\n">>} :
        /\ FreshPrompt(PutAll(PutChar(vt, "\n"), out))
        /\ IF buf = <<>> THEN out = <<>> /\ Past ELSE HistoryPush(buf)

KeyBackspace ==
    /\ buf # <<>> /\ buf' = Front(buf) /\ vt' = PutChar(vt, "BS")
    /\ UNCHANGED <<history_nav, over>> /\ Past
KeyChar(c) ==
    /\ Len(buf) < BUFFER_SIZE - 1
    /\ buf' = Append(buf, c) /\ vt' = PutChar(vt, c)
    /\ RowOver(buf') /\ UNCHANGED history_nav /\ Past

\* do_tab_complete: the rest of the one name that begins so, or a list of the names
\* (a row) and the prompt again.
Begun(line) == {n \in Names : IsPrefix(line, n)}
KeyTab ==
    /\ buf # <<>> /\ Begun(buf) # {}
    /\ IF \E n \in Names : Begun(buf) = {n}
       THEN LET name == CHOOSE n \in Names : Begun(buf) = {n}
                rest == SubSeq(name, Len(buf) + 1, Len(name))
            IN  buf' = name /\ vt' = PutAll(vt, rest) /\ RowOver(name)
       ELSE /\ vt' = PutAll(PrintPrompt(PutAll(vt, <<"\n", "x", " ", "\n">>)), buf)
            /\ over' = ~Fits(buf) /\ UNCHANGED buf
    /\ UNCHANGED history_nav /\ Past

PromptNext ==
    /\ keys < MaxKeys /\ keys' = keys + 1
    /\ \/ KeyUp \/ KeyDown \/ KeyCtrlC \/ KeyEnter \/ KeyBackspace \/ KeyTab
       \/ \E c \in Keys : KeyChar(c)

PromptSpec == PromptInit /\ [][PromptNext]_promptVars

-----------------------------------------------------------------------------
(* Properties *)

\* The row of the prompt shows the line that return will run, with the cursor after it
\* and nothing behind it, whatever was recalled, completed, erased and typed, as long
\* as the line has not come to the end of the row.
LineIsShown ==
    over \/ /\ vt.col = Len(buf) + 1
            /\ \A x \in 1 .. Wide : vt.cells[vt.row + 1][x].ch =
                    IF x = 1 THEN PromptSign ELSE IF x <= Len(buf) + 1 THEN buf[x - 1] ELSE " "

\* The history holds the last commands, the newest first, a command repeated at once
\* only once, and none that were overwritten.
HistoryTrue ==
    \A i \in 0 .. history_count :
        HistoryGet(i) = IF i < history_count /\ i < HISTORY_SIZE THEN commands[Len(commands) - i] ELSE <<>>

\* A key up or down recalls a command that was given.
RecallsGiven == history_nav >= 0 => history_nav < history_count /\ HistoryGet(history_nav) # <<>>

PromptRight == LineIsShown /\ HistoryTrue /\ RecallsGiven
=============================================================================
