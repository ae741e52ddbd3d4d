----------------------------- MODULE TextTools -----------------------------
(***************************************************************************)
(* The filters of the shell: each reads a text (a file or the pipe) in one *)
(* call and prints another.  A text is a sequence of character codes.      *)
(* Each tool is one action that computes what its loop computes; the       *)
(* properties say what its output means.                                   *)
(*                                                                         *)
(* Texts have at most as many lines as the tools have room for (32 in the  *)
(* smallest): behind that they write past their tables, and the model says *)
(* nothing.                                                                *)
(***************************************************************************)
EXTENDS Integers, Sequences, SequencesExt, FiniteSets

CONSTANTS
    Texts,      \* texts of letters, blanks and line ends
    NumberTexts,\* texts of digits, signs and line ends
    ShortTexts, \* texts that diff and paste compare
    LineCap,    \* BUFFER_SIZE - 1: a line is cut there
    Patterns,   \* what grep looks for and sed replaces
    Counts,     \* the counts of head and tail, the fields of cut and awk
    Sums        \* expressions of bc: numbers and operators in turn

ASSUME TextToolsAssumption ==
    /\ LineCap \in Nat \ {0} /\ Counts \subseteq Nat
    /\ \A p \in Patterns : p # <<>> /\ Len(p) <= LineCap

NL == 10
Blank == 32
Tab == 9
Minus == 45

VARIABLES tool, text, arg, output
toolVars == <<tool, text, arg, output>>

None == <<>>

-----------------------------------------------------------------------------
(* Lines *)

\* One character of the loop that every line tool has.
NextChar(s, c) ==
    IF c = NL THEN [lines |-> Append(s.lines, s.line), line |-> <<>>]
    ELSE IF Len(s.line) < LineCap THEN [s EXCEPT !.line = Append(@, c)] ELSE s
Read(t) == FoldLeft(NextChar, [lines |-> <<>>, line |-> <<>>], t)

\* head, tail, tac, sort, diff and paste: what follows the last line end is a
\* line if there is something.
TextLines(t) == LET r == Read(t) IN IF r.line # <<>> THEN Append(r.lines, r.line) ELSE r.lines

\* grep, uniq, nl, cut and awk: the NUL ends a line as well, an empty one too.
AllTextLines(t) == LET r == Read(t) IN Append(r.lines, r.line)

\* term_print(line), term_putc('\n').
Printed(lines) == FlattenSeq([i \in DOMAIN lines |-> Append(lines[i], NL)])

Drop(s, n) == SubSeq(s, n + 1, Len(s))

-----------------------------------------------------------------------------
(* Order *)

\* strcmp: the first difference decides, the shorter string being the smaller.
StrLess(s, t) ==
    \E i \in 1 .. Len(t) : /\ \A j \in 1 .. i - 1 : j <= Len(s) /\ s[j] = t[j]
                           /\ i > Len(s) \/ s[i] < t[i]

Digit(c) == c \in 48 .. 57

\* atoi: a sign, and every digit of the string, whatever stands between.
Atoi(s) ==
    LET n == FoldLeft(LAMBDA v, c : IF Digit(c) THEN v * 10 + (c - 48) ELSE v, 0, s)
    IN  IF s # <<>> /\ s[1] = Minus THEN -n ELSE n

Above(numeric, s, t) == IF numeric THEN Atoi(s) > Atoi(t) ELSE StrLess(t, s)

\* Mutant of Inserted: an equal line is passed as well.
InsertedPassing(sorted, line, numeric) ==
    LET stays == {i \in DOMAIN sorted : Above(numeric, line, sorted[i])}
        at == IF stays = {} THEN 0 ELSE CHOOSE i \in stays : \A j \in stays : j <= i
    IN  SubSeq(sorted, 1, at) \o <<line>> \o Drop(sorted, at)

\* The insertion sort of sort: a line goes behind the last that is not above it.
Inserted(sorted, line, numeric) ==
    LET stays == {i \in DOMAIN sorted : ~Above(numeric, sorted[i], line)}
        at == IF stays = {} THEN 0 ELSE CHOOSE i \in stays : \A j \in stays : j <= i
    IN  SubSeq(sorted, 1, at) \o <<line>> \o Drop(sorted, at)
Sorted(lines, numeric) ==
    FoldLeft(LAMBDA sorted, line : Inserted(sorted, line, numeric), <<>>, lines)

\* A line like the one printed before is not printed: strcmp(lines[j], prev) == 0.
WithoutRepeats(lines) ==
    FoldLeft(LAMBDA s, l : IF s # <<>> /\ s[Len(s)] = l THEN s ELSE Append(s, l), <<>>, lines)

-----------------------------------------------------------------------------
(* Patterns and fields *)

StartsAt(t, p, i) == i + Len(p) - 1 <= Len(t) /\ SubSeq(t, i, i + Len(p) - 1) = p

\* strcontains.
HasPattern(l, p) == \E i \in DOMAIN l : StartsAt(l, p, i)

\* cut: the fields between single delimiters.
Cut(line, delim) ==
    LET step(s, c) == IF c = delim THEN Append(s, <<>>)
                                   ELSE [s EXCEPT ![Len(s)] = Append(@, c)]
    IN  FoldLeft(step, << <<>> >>, line)

\* awk: the words between any number of separators.
Words(line, sep) == SelectSeq(Cut(line, sep), LAMBDA f : f # <<>>)

\* uniq: runs of equal lines and their lengths.
Runs(lines) ==
    LET step(s, l) == IF s # <<>> /\ s[Len(s)].line = l
                      THEN [s EXCEPT ![Len(s)].count = @ + 1]
                      ELSE Append(s, [line |-> l, count |-> 1])
    IN  FoldLeft(step, <<>>, lines)

\* Mutant of SedStep: an occurrence is looked for in what was just replaced too.
SedStepOverlapping(t, old, new, global, s) ==
    IF StartsAt(t, old, s.k) /\ (global \/ s.left) THEN
        [k |-> s.k + 1, left |-> FALSE, out |-> s.out \o new]
    ELSE [s EXCEPT !.k = @ + 1, !.out = Append(@, t[s.k])]

\* sed s/old/new/ at position k: the occurrence is replaced, or a character copied.
SedStep(t, old, new, global, s) ==
    IF StartsAt(t, old, s.k) /\ (global \/ s.left) THEN
        [k |-> s.k + Len(old), left |-> FALSE, out |-> s.out \o new]
    ELSE [s EXCEPT !.k = @ + 1, !.out = Append(@, t[s.k])]
Sed(t, old, new, global) ==
    LET one(s, i) == IF s.k > Len(t) THEN s ELSE SedStep(t, old, new, global, s)
    IN  FoldLeft(one, [k |-> 1, left |-> TRUE, out |-> <<>>], [i \in 1 .. Len(t) |-> i]).out

-----------------------------------------------------------------------------
(* Codes: base64 in numbers of its alphabet, 64 being the padding *)

Pad == 64
Byte(t, i) == IF i <= Len(t) THEN t[i] ELSE 0
Encode(t) ==
    LET group(g) ==
            LET i == 3 * g - 2
                v == Byte(t, i) * 65536 + Byte(t, i + 1) * 256 + Byte(t, i + 2)
            IN  << v \div 262144, (v \div 4096) % 64,
                   IF i + 1 <= Len(t) THEN (v \div 64) % 64 ELSE Pad,
                   IF i + 2 <= Len(t) THEN v % 64 ELSE Pad >>
    IN  FlattenSeq([g \in 1 .. (Len(t) + 2) \div 3 |-> group(g)])

\* Mutant of Decode: the low bits of the third sign are lost.
DecodeShort(e) ==
    LET val(c) == IF c = Pad THEN 0 ELSE c
        group(g) ==
            LET v0 == e[4 * g - 3]  v1 == e[4 * g - 2]
                v2 == val(e[4 * g - 1])  v3 == val(e[4 * g])
            IN  <<((v0 * 4) + (v1 \div 16)) % 256>>
                \o (IF e[4 * g - 1] # Pad THEN <<((v1 % 16) * 16) + (v2 \div 4)>> ELSE <<>>)
                \o (IF e[4 * g] # Pad THEN <<v3>> ELSE <<>>)
    IN  FlattenSeq([g \in 1 .. Len(e) \div 4 |-> group(g)])

Decode(e) ==
    LET val(c) == IF c = Pad THEN 0 ELSE c
        group(g) ==
            LET v0 == e[4 * g - 3]  v1 == e[4 * g - 2]
                v2 == val(e[4 * g - 1])  v3 == val(e[4 * g])
            IN  <<((v0 * 4) + (v1 \div 16)) % 256>>
                \o (IF e[4 * g - 1] # Pad THEN <<((v1 % 16) * 16) + (v2 \div 4)>> ELSE <<>>)
                \o (IF e[4 * g] # Pad THEN <<((v2 % 4) * 64) + v3>> ELSE <<>>)
    IN  FlattenSeq([g \in 1 .. Len(e) \div 4 |-> group(g)])

Rot13(c) == IF c \in 97 .. 122 THEN 97 + ((c - 97 + 13) % 26)
            ELSE IF c \in 65 .. 90 THEN 65 + ((c - 65 + 13) % 26) ELSE c

-----------------------------------------------------------------------------
(* bc *)

Multiplies(op) == op \in {"*", "/", "%"}
Magnitude(n) == IF n < 0 THEN -n ELSE n
Sign(n) == IF n < 0 THEN -1 ELSE 1
\* Division of C: towards zero, and the remainder goes with it.
Quotient(a, b) == Sign(a) * Sign(b) * (Magnitude(a) \div Magnitude(b))
Apply(op, a, b) ==
    CASE op = "+" -> a + b [] op = "-" -> a - b [] op = "*" -> a * b
      [] op = "/" -> Quotient(a, b) [] op = "%" -> a - b * Quotient(a, b)

\* The scan: a '-' behind another operator is the sign of the number that follows.
Scan(sum) ==
    LET take(s, i) ==
            IF i % 2 = 0 THEN IF sum[i] = "-" /\ s.ops # <<>> THEN [s EXCEPT !.sign = -1]
                              ELSE [s EXCEPT !.ops = Append(@, sum[i])]
            ELSE [s EXCEPT !.vals = Append(@, s.sign * sum[i]), !.sign = 1]
    IN  FoldLeft(take, [vals |-> <<>>, ops |-> <<>>, sign |-> 1], [i \in DOMAIN sum |-> i])

\* The operators from the left; those of the pass take their two numbers' place.
Pass(q, of(_)) ==
    LET step(s, i) ==
            IF s.p <= Len(s.ops) /\ of(s.ops[s.p]) /\ s.p + 1 <= Len(s.vals)
            THEN [s EXCEPT !.vals = RemoveAt([@ EXCEPT ![s.p] =
                                        Apply(s.ops[s.p], @, s.vals[s.p + 1])], s.p + 1),
                           !.ops = RemoveAt(@, s.p)]
            ELSE [s EXCEPT !.p = @ + 1]
    IN  FoldLeft(step, [vals |-> q.vals, ops |-> q.ops, p |-> 1], [i \in 1 .. 2 * Len(q.ops) |-> i])

Bc(sum) == Pass(Pass(Scan(sum), Multiplies), LAMBDA op : TRUE).vals[1]

-----------------------------------------------------------------------------
(* The tools *)

ToolsInit ==
    /\ output = None
    /\ \/ /\ tool \in {"tac", "wc", "nl", "uniq", "rev", "rot13", "base64"}
          /\ text \in Texts /\ arg = None
       \/ tool \in {"head", "tail"} /\ text \in Texts /\ arg \in Counts
       \/ tool \in {"cut", "awk"} /\ text \in Texts /\ arg \in Counts \ {0}
       \/ tool \in {"grep", "sed"} /\ text \in Texts /\ arg \in Patterns \X BOOLEAN
       \/ tool = "sort" /\ text \in NumberTexts /\ arg \in BOOLEAN \X BOOLEAN \X BOOLEAN
       \/ tool \in {"diff", "paste"} /\ text \in ShortTexts /\ arg \in ShortTexts
       \/ tool = "bc" /\ text \in Sums /\ arg = None

Prints(t, out) == tool = t /\ output = None /\ output' = <<out>> /\ UNCHANGED <<tool, text, arg>>

Min2(a, b) == IF a < b THEN a ELSE b
Max2(a, b) == IF a > b THEN a ELSE b
Row(lines, i) == IF i <= Len(lines) THEN lines[i] ELSE <<>>

HeadTool == LET ls == TextLines(text) IN Prints("head", SubSeq(ls, 1, Min2(arg, Len(ls))))
TailTool == LET ls == TextLines(text) IN Prints("tail", Drop(ls, Max2(Len(ls) - arg, 0)))
Tac == Prints("tac", Reverse(TextLines(text)))

\* sort [-n] [-u] [-r].
Sort ==
    LET up == Sorted(TextLines(text), arg[1])
        ls == IF arg[3] THEN Reverse(up) ELSE up
    IN  Prints("sort", IF arg[2] THEN WithoutRepeats(ls) ELSE ls)

\* wc: a last line without its end counts; words are what blanks part.
Wc ==
    LET space(c) == c \in {Blank, NL, Tab}
        begins(i) == ~space(text[i]) /\ (i = 1 \/ space(text[i - 1]))
        ends == Cardinality({i \in DOMAIN text : text[i] = NL})
    IN  Prints("wc", [lines |-> IF text # <<>> /\ text[Len(text)] # NL THEN ends + 1 ELSE ends,
                      words |-> Cardinality({i \in DOMAIN text : begins(i)}),
                      chars |-> Len(text)])

Nl == LET ls == AllTextLines(text) IN Prints("nl", [i \in DOMAIN ls |-> <<i, ls[i]>>])
Uniq == Prints("uniq", Runs(AllTextLines(text)))

\* rev of a pipe: every line from its end, and a line end behind each.
Rev ==
    LET r == Cut(text, NL)
        ls == IF r[Len(r)] = <<>> THEN Front(r) ELSE r
    IN  Prints("rev", [i \in DOMAIN ls |-> Reverse(ls[i])])

\* grep [-v].
Grep ==
    Prints("grep", SelectSeq(AllTextLines(text), LAMBDA l : HasPattern(l, arg[1]) # arg[2]))

\* cut -d' ' -f: a line with fewer fields prints nothing.
CutField ==
    LET fields(l) == Cut(l, Blank)
        ls == SelectSeq(AllTextLines(text), LAMBDA l : Len(fields(l)) >= arg)
    IN  Prints("cut", [i \in DOMAIN ls |-> fields(ls[i])[arg]])

\* awk '{print $n}'; a line with a tab is never left when blanks are the separator.
Awk ==
    LET ls == SelectSeq(AllTextLines(text), LAMBDA l : Len(Words(l, Blank)) >= arg)
    IN  Prints("awk", [i \in DOMAIN ls |-> Words(ls[i], Blank)[arg]])

\* sed s/old/!/ and s/old/!/g, "!" standing for a text that the file does not have.
Mark == 33
SedTool == Prints("sed", Sed(text, arg[1], <<Mark>>, arg[2]))

\* diff: line by line; what one text has and the other not counts as empty.
Diff ==
    LET a == TextLines(text)  b == TextLines(arg)
    IN  Prints("diff", {i \in 1 .. Max2(Len(a), Len(b)) : Row(a, i) # Row(b, i)})
Paste ==
    LET a == TextLines(text)  b == TextLines(arg)
    IN  Prints("paste", [i \in 1 .. Max2(Len(a), Len(b)) |-> Row(a, i) \o <<Tab>> \o Row(b, i)])

Rot13Tool == Prints("rot13", [i \in DOMAIN text |-> Rot13(text[i])])
Base64 == Prints("base64", Encode(text))
BcTool == Prints("bc", Bc(text))

ToolsNext == \/ HeadTool \/ TailTool \/ Tac \/ Sort \/ Wc \/ Nl \/ Uniq \/ Rev \/ Grep \/ CutField \/ Awk
             \/ SedTool \/ Diff \/ Paste \/ Rot13Tool \/ Base64 \/ BcTool

ToolsSpec == ToolsInit /\ [][ToolsNext]_toolVars

-----------------------------------------------------------------------------
(* Properties *)

Done(t) == tool = t /\ output # None
Out == output[1]

\* Line i of a text: what stands between line end i - 1 and line end i.
Ends(t) == SetToSortSeq({0, Len(t) + 1} \union {i \in DOMAIN t : t[i] = NL}, <)
Line(t, i) == LET whole == SubSeq(t, Ends(t)[i] + 1, Ends(t)[i + 1] - 1)
              IN  SubSeq(whole, 1, Min2(LineCap, Len(whole)))
WholeLines(t) == LET n == Len(Ends(t)) - 1
                all == [i \in 1 .. n |-> Line(t, i)]
            IN  IF all[n] = <<>> THEN Front(all) ELSE all

\* head and tail show the first and the last lines, and tac all of them, last
\* first.
EndsShown ==
    /\ Done("head") => /\ IsPrefix(Out, WholeLines(text))
                       /\ Len(Out) = Min2(arg, Len(WholeLines(text)))
    /\ Done("tail") => /\ IsSuffix(Out, WholeLines(text))
                       /\ Len(Out) = Min2(arg, Len(WholeLines(text)))
    /\ Done("tac")  => Reverse(Out) = WholeLines(text)

\* sort prints the lines of the text, each as often as it is there (-u: once,
\* where strings are compared), in order (-r: backwards); equal numbers stay in the
\* order of the text.
SortedRight ==
    Done("sort") =>
        LET ls == WholeLines(text)  numeric == arg[1]
            up == IF arg[3] THEN Reverse(Out) ELSE Out
            times(s, l) == Cardinality({i \in DOMAIN s : s[i] = l})
            same(s, l) == SelectSeq(s, LAMBDA k : Atoi(k) = Atoi(l))
        IN  /\ ToSet(Out) = ToSet(ls)
            /\ \A i, j \in DOMAIN Out : i < j => ~Above(numeric, up[i], up[j])
            /\ ~arg[2] => \A l \in ToSet(ls) : times(Out, l) = times(ls, l)
            /\ (arg[2] /\ ~numeric) => IsInjective(Out)
            /\ (numeric /\ ~arg[2]) => \A l \in ToSet(ls) : same(up, l) = same(ls, l)

\* The lines that wc counts are the lines that head would show, its words are
\* those that awk parts; uniq keeps the lines and their order, without two
\* equal neighbours; nl numbers what grep would search.
CountsAgree ==
    /\ Done("wc") =>
          /\ Out.lines = Len(WholeLines(text))
          /\ (\A l \in ToSet(Cut(text, NL)) : Len(l) <= LineCap) =>
                Out.words = Len(FlattenSeq([i \in DOMAIN WholeLines(text) |-> Words(WholeLines(text)[i], Blank)]))
    /\ Done("uniq") =>
          /\ \A i \in 1 .. Len(Out) - 1 : Out[i].line # Out[i + 1].line
          /\ FlattenSeq([i \in DOMAIN Out |-> [n \in 1 .. Out[i].count |-> Out[i].line]])
                = AllTextLines(text)
    /\ Done("nl") => Len(Out) = Len(Ends(text)) - 1

\* grep prints exactly the lines with the pattern (-v: without it), and sed
\* replaces exactly the occurrences found from the left (the first only,
\* without g): put back, they give the text, and none is left between them.
PatternsRight ==
    /\ Done("grep") =>
          LET hit(l) == \E a, b \in DOMAIN l : SubSeq(l, a, b) = arg[1]
          IN  /\ \A l \in ToSet(Out) : hit(l) # arg[2]
              /\ Len(Out) = Cardinality({i \in 1 .. Len(Ends(text)) - 1 : hit(Line(text, i)) # arg[2]})
    /\ Done("sed") =>
          LET pieces == Cut(Out, Mark)
              back == FlattenSeq([i \in DOMAIN pieces |->
                                    IF i = 1 THEN pieces[1] ELSE arg[1] \o pieces[i]])
          IN  /\ back = text
              /\ ~arg[2] => Len(pieces) <= 2
              /\ HasPattern(text, arg[1]) => Len(pieces) >= 2
              /\ \A i \in 1 .. Len(pieces) - (IF arg[2] THEN 0 ELSE 1) : ~HasPattern(pieces[i], arg[1])

\* diff finds two texts alike exactly if they differ in empty lines at the end
\* alone; paste has a row for every line of either.
ComparedRight ==
    /\ Done("diff") =>
          LET short(ls) == {<<i, ls[i]>> : i \in {j \in DOMAIN ls : ls[j] # <<>>}}
          IN  (Out = {}) = (short(WholeLines(text)) = short(WholeLines(arg)))
    /\ Done("paste") => \A i \in DOMAIN Out :
          Cut(Out[i], Tab) = <<Row(WholeLines(text), i), Row(WholeLines(arg), i)>>

\* Field n of cut is what stands between blank n - 1 and blank n of its line, and
\* word n of awk the n-th run of other characters.
FieldsRight ==
    LET bounds(l) == SetToSortSeq({0, Len(l) + 1} \union {i \in DOMAIN l : l[i] = Blank}, <)
        field(l, n) == SubSeq(l, bounds(l)[n] + 1, bounds(l)[n + 1] - 1)
        starts(l) == SetToSortSeq({i \in DOMAIN l : l[i] # Blank /\ (i = 1 \/ l[i - 1] = Blank)}, <)
        all == [i \in 1 .. Len(Ends(text)) - 1 |-> Line(text, i)]
    IN  /\ Done("cut") =>
              LET has == SelectSeq(all, LAMBDA l : Len(bounds(l)) > arg)
              IN  Out = [i \in DOMAIN has |-> field(has[i], arg)]
        /\ Done("awk") =>
              LET has == SelectSeq(all, LAMBDA l : Len(starts(l)) >= arg)
              IN  /\ Len(Out) = Len(has)
                  /\ \A i \in DOMAIN has :
                        /\ StartsAt(has[i], Out[i], starts(has[i])[arg])
                        /\ Blank \notin ToSet(Out[i])

\* base64 -d gives back what base64 was given, four signs for three bytes, and
\* rot13 and rev undo themselves.
CodesReturn ==
    /\ Done("base64") => Decode(Out) = text /\ Len(Out) = 4 * ((Len(text) + 2) \div 3)
    /\ Done("rev") => FlattenSeq([i \in DOMAIN Out |-> Append(Reverse(Out[i]), NL)])
                        \in {text, Append(text, NL)}
    /\ Done("rot13") => [i \in DOMAIN Out |-> Rot13(Out[i])] = text

\* bc gives products before sums and each from the left, in sums that subtract
\* only first: a '-' behind another operator loses the number it should take
\* away (kernel.c:10545).
RECURSIVE Value(_)
Value(sum) ==
    LET last(ops) == {i \in DOMAIN sum : i % 2 = 0 /\ sum[i] \in ops}
        at == IF last({"+", "-"}) # {} THEN CHOOSE i \in last({"+", "-"}) : \A j \in last({"+", "-"}) : j <= i
              ELSE IF last({"*", "/", "%"}) # {} THEN Len(sum) - 1 ELSE 0
    IN  IF at = 0 THEN sum[1]
        ELSE Apply(sum[at], Value(SubSeq(sum, 1, at - 1)), Value(Drop(sum, at)))
SumsRight ==
    (Done("bc") /\ \A i \in DOMAIN text : i % 2 = 0 /\ text[i] = "-" => i = 2)
        => Out = Value(text)

\* What all of them say.
ToolsRight == /\ EndsShown /\ SortedRight /\ CountsAgree /\ PatternsRight
              /\ ComparedRight /\ FieldsRight /\ CodesReturn /\ SumsRight
=============================================================================
