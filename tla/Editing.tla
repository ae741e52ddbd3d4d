------------------------------ MODULE Editing ------------------------------
(***************************************************************************)
(* The three editors: nano of the shell (kernel.c), the text editor window *)
(* and the one-line field of dialogs.  Each keeps its text in one array    *)
(* with a cursor, finds lines by searching for line ends, and scrolls so   *)
(* that the cursor is seen.                                                *)
(*                                                                         *)
(* They are compared with an editor that keeps a list of lines, a row and  *)
(* a column (doc, row, col): every key must do the same in both.           *)
(***************************************************************************)
EXTENDS Integers, Sequences, SequencesExt

CONSTANTS
    Letters,    \* printable characters
    Cap,        \* characters a text may have
    Rows, Cols  \* lines and columns that are seen

ASSUME EditingAssumption == Cap \in Nat /\ Rows \in Nat \ {0} /\ Cols \in Nat \ {0}

LineEnd == "\n"
Editors == {"nano", "window", "field"}

VARIABLES editor, chars, cur, top, left, modified, stored, doc, row, col
editVars == <<editor, chars, cur, top, left, modified, stored, doc, row, col>>

Lesser(a, b) == IF a < b THEN a ELSE b

EditInit ==
    /\ editor \in Editors
    /\ chars = <<>> /\ cur = 0 /\ top = 0 /\ left = 0 /\ modified = FALSE /\ stored = <<>>
    /\ doc = << <<>> >> /\ row = 1 /\ col = 0

-----------------------------------------------------------------------------
(* Where things are *)

\* row_of, col_of and nano's cur_line: line ends before a place, characters since.
RowOf(t, p) == Len(SelectSeq(SubSeq(t, 1, p), LAMBDA c : c = LineEnd))
LastEnd(t, p) == SelectLastInSubSeq(t, 1, p, LAMBDA c : c = LineEnd)
ColOf(t, p) == p - LastEnd(t, p)
TotalRows(t) == RowOf(t, Len(t)) + 1

\* row_start: the first place with that many line ends before it; row_end.
RowStart(t, r) == CHOOSE p \in 0 .. Len(t) :
                    /\ RowOf(t, p) = r
                    /\ \A q \in 0 .. p - 1 : RowOf(t, q) # r
RowEnd(t, r) == CHOOSE p \in RowStart(t, r) .. Len(t) :
                    /\ p = Len(t) \/ t[p + 1] = LineEnd
                    /\ \A q \in RowStart(t, r) .. p - 1 : t[q + 1] # LineEnd

\* Column c of a line of the window editor, or its end.
InRow(t, r, c) == RowStart(t, r) + Lesser(c, RowEnd(t, r) - RowStart(t, r))

\* nano, up: back over the line to its front, and over the one before.
NanoUp(t, p) ==
    LET front == LastEnd(t, p)                  \* the line end before this line
        before == LastEnd(t, front - 1)
    IN  IF front = 0 THEN p ELSE before + Lesser(p - front, front - 1 - before)

\* Mutant of NanoDown: the column is not cut to the length of the line.
NanoDownFar(t, p) ==
    LET ends == {i \in p + 1 .. Len(t) : t[i] = LineEnd}
        end == CHOOSE i \in ends : \A j \in ends : i <= j
    IN  IF ends = {} THEN p ELSE Lesser(end + ColOf(t, p), Len(t))

\* nano, down: on to the line end, and as far into the next line.
NanoDown(t, p) ==
    LET ends == {i \in p + 1 .. Len(t) : t[i] = LineEnd}
        end == CHOOSE i \in ends : \A j \in ends : i <= j
        over == {i \in end + 1 .. Len(t) : t[i] = LineEnd}
        stop == IF over = {} THEN Len(t) ELSE (CHOOSE i \in over : \A j \in over : i <= j) - 1
    IN  IF ends = {} THEN p ELSE Lesser(end + ColOf(t, p), stop)

-----------------------------------------------------------------------------
(* Scrolling *)

\* Mutant of Scrolled: one line too few.
ScrolledShort(at, first, seen) ==
    IF at < first THEN at ELSE IF at > first + seen THEN at - seen ELSE first

\* ensure_cursor_visible, update_scroll, and nano's view.
Scrolled(at, first, seen) ==
    IF at < first THEN at ELSE IF at >= first + seen THEN at - seen + 1 ELSE first

\* nano scrolls by lines, the window both ways, the field by characters.
Show(t, p) ==
    /\ chars' = t /\ cur' = p
    /\ top' = IF editor = "field" THEN top ELSE Scrolled(RowOf(t, p), top, Rows)
    /\ left' = CASE editor = "nano" -> left
                 [] editor = "window" -> Scrolled(ColOf(t, p), left, Cols)
                 [] editor = "field" -> Scrolled(p, left, Cols)

Move(p) == Show(chars, p) /\ UNCHANGED <<editor, modified, stored>>
Edit(t, p) == Show(t, p) /\ modified' = TRUE /\ UNCHANGED <<editor, stored>>

-----------------------------------------------------------------------------
(* The list of lines: what each key means *)

Doc(d, r, c) == doc' = d /\ row' = r /\ col' = c
Here == doc[row]
Put(d, r, line) == [d EXCEPT ![r] = line]
SameDoc == UNCHANGED <<doc, row, col>>
Goto_(r, c) == Doc(doc, r, Lesser(c, Len(doc[r])))

DocInsert(c) == Doc(Put(doc, row, InsertAt(Here, col + 1, c)), row, col + 1)
DocEnter == Doc(SubSeq(doc, 1, row - 1) \o <<SubSeq(Here, 1, col), SubSeq(Here, col + 1, Len(Here))>>
                \o SubSeq(doc, row + 1, Len(doc)), row + 1, 0)
\* Line r takes over the line behind it.
Joined_(r) == RemoveAt(Put(doc, r, doc[r] \o doc[r + 1]), r + 1)
DocBackspace == IF col > 0 THEN Doc(Put(doc, row, RemoveAt(Here, col)), row, col - 1)
                ELSE IF row > 1 THEN Doc(Joined_(row - 1), row - 1, Len(doc[row - 1]))
                ELSE SameDoc
DocDelete == IF col < Len(Here) THEN Doc(Put(doc, row, RemoveAt(Here, col + 1)), row, col)
             ELSE IF row < Len(doc) THEN Doc(Joined_(row), row, col)
             ELSE SameDoc
DocLeft == IF col > 0 THEN Doc(doc, row, col - 1)
           ELSE IF row > 1 THEN Doc(doc, row - 1, Len(doc[row - 1])) ELSE SameDoc
DocRight == IF col < Len(Here) THEN Doc(doc, row, col + 1)
            ELSE IF row < Len(doc) THEN Doc(doc, row + 1, 0) ELSE SameDoc

-----------------------------------------------------------------------------
(* The keys *)

Insert(c) == InsertAt(chars, cur + 1, c)

Type(c) == /\ Len(chars) < Cap
           /\ Edit(Insert(c), cur + 1) /\ DocInsert(c)
\* In a field the key reports the text instead.
EnterKey == /\ Len(chars) < Cap /\ editor # "field"
            /\ Edit(Insert(LineEnd), cur + 1) /\ DocEnter
Backspace == /\ cur > 0
             /\ Edit(RemoveAt(chars, cur), cur - 1) /\ DocBackspace
Delete == /\ cur < Len(chars)
          /\ Edit(RemoveAt(chars, cur + 1), cur) /\ DocDelete
Left == cur > 0 /\ Move(cur - 1) /\ DocLeft
Right == cur < Len(chars) /\ Move(cur + 1) /\ DocRight
Home_ ==
    /\ Move(CASE editor = "nano" -> LastEnd(chars, cur)
              [] editor = "window" -> RowStart(chars, RowOf(chars, cur))
              [] editor = "field" -> 0)
    /\ Doc(doc, row, 0)
End ==
    /\ Move(IF editor = "field" THEN Len(chars) ELSE RowEnd(chars, RowOf(chars, cur)))
    /\ Doc(doc, row, Len(Here))
Up ==
    /\ editor # "field"
    /\ LET r == RowOf(chars, cur)
       IN  Move(IF editor = "nano" THEN NanoUp(chars, cur)
                ELSE IF r > 0 THEN InRow(chars, r - 1, ColOf(chars, cur)) ELSE cur)
    /\ IF row > 1 THEN Goto_(row - 1, col) ELSE SameDoc
Down ==
    /\ editor # "field"
    /\ LET r == RowOf(chars, cur)
       IN  Move(IF editor = "nano" THEN NanoDown(chars, cur)
                ELSE IF r < TotalRows(chars) - 1 THEN InRow(chars, r + 1, ColOf(chars, cur)) ELSE cur)
    /\ IF row < Len(doc) THEN Goto_(row + 1, col) ELSE SameDoc
PageUp ==
    /\ editor = "window"
    /\ LET r == RowOf(chars, cur)
       IN  Move(InRow(chars, IF r >= Rows THEN r - Rows ELSE 0, ColOf(chars, cur)))
    /\ Goto_(IF row > Rows THEN row - Rows ELSE 1, col)
PageDown ==
    /\ editor = "window"
    /\ LET r == RowOf(chars, cur)  n == TotalRows(chars)
       IN  Move(InRow(chars, IF r + Rows < n THEN r + Rows ELSE n - 1, ColOf(chars, cur)))
    /\ Goto_(Lesser(row + Rows, Len(doc)), col)
\* A click into the field: the column that is seen there.
Click(x) ==
    /\ editor = "field"
    /\ LET p == Lesser(x + left, Len(chars)) IN Move(p) /\ Doc(doc, row, p)
Save ==
    /\ editor # "field" /\ modified
    /\ stored' = chars /\ modified' = FALSE
    /\ UNCHANGED <<editor, chars, cur, top, left>> /\ SameDoc

EditNext == \/ \E c \in Letters : Type(c)
            \/ \E x \in 0 .. Cols : Click(x)
            \/ EnterKey \/ Backspace \/ Delete \/ Left \/ Right \/ Home_ \/ End
            \/ Up \/ Down \/ PageUp \/ PageDown \/ Save

EditSpec == EditInit /\ [][EditNext]_editVars

-----------------------------------------------------------------------------
(* Properties *)

RECURSIVE Text(_)
Text(d) == IF Len(d) = 1 THEN d[1] ELSE d[1] \o <<LineEnd>> \o Text(Tail(d))

\* Every key does to the array and its cursor what it means for the lines: also
\* at the ends of lines, and in columns that the next line does not have.
LinesKept == /\ chars = Text(doc)
             /\ row = RowOf(chars, cur) + 1 /\ col = ColOf(chars, cur)

\* The cursor is on the screen after every key, and a text that is not marked as
\* modified is the one in the file.
CursorSeen == /\ editor # "field" => RowOf(chars, cur) \in top .. top + Rows - 1
              /\ editor = "window" => ColOf(chars, cur) \in left .. left + Cols - 1
              /\ editor = "field" => cur \in left .. left + Cols - 1
              /\ ~modified => stored = chars

EditingRight == LinesKept /\ CursorSeen
=============================================================================
