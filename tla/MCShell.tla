------------------------------ MODULE MCShell ------------------------------
(***************************************************************************)
(* What a user does at the prompt and in the applications' windows, one    *)
(* kind of session at a time, the others standing still: scripts, command  *)
(* lines, text tools, editors, the terminal, the prompt, variables and     *)
(* passwords; tunes, sums, files, the dungeon and pictures.                *)
(***************************************************************************)
EXTENDS ShellLanguage, TextTools, Editing, Console, Session,
        RuneChant, Applications, TLC

VARIABLE part

Parts == {"script", "command", "tools", "editing", "terminal", "prompt", "session",
          "tunes", "sums", "files", "dungeon", "paint"}

-----------------------------------------------------------------------------
(* scripts: two constructs, one in the other *)

Simple == [op |-> "run"]
Constructs(bodies) ==
    {Simple}
    \union [op : {"if"}, yes : bodies, no : {<<>>, <<Simple>>}, tight : BOOLEAN]
    \union [op : {"while"}, body : bodies, tight : BOOLEAN]
    \union [op : {"for"}, words : {2}, body : bodies, tight : {TRUE}]
    \union {[op |-> "case", arms |-> <<[hit |-> h, body |-> b], [hit |-> TRUE, body |-> <<>>]>>] :
              h \in BOOLEAN, b \in bodies}
Bodies ==
    LET inner == Constructs({<<Simple>>})
    IN  {<<s>> : s \in inner} \union {<<s, Simple>> : s \in inner}
WithoutCase(bodies) == {b \in bodies : \A i \in DOMAIN b : b[i].op # "case"}
MCScripts ==
    {<<s, Simple>> : s \in Constructs(WithoutCase(Bodies))}
    \union {<<[op |-> "if", yes |-> b, no |-> <<Simple>>, tight |-> t]>> : b \in Bodies, t \in BOOLEAN}
MCHoldsFor == [0 .. 1 -> 0 .. 2]

-----------------------------------------------------------------------------
(* lines of up to three commands; x may be an alias, and of itself *)

CommandWords == {"fails", "succeeds", "quiet", "x"}
MCExit == [c \in CommandWords |-> CASE c \in {"fails", "x"} -> "fails"
                             [] c = "succeeds"       -> "true"
                             [] c = "quiet"          -> "quiet"]
MCSubst == [c \in {"$(fails)"} |-> "fails"]
Joined(lines) == {l \o <<op, w>> : l \in lines, op \in {"&&", "||", "|"}, w \in CommandWords}
OneWord == {<<w>> : w \in CommandWords}
MCCommandLines ==
    OneWord \union Joined(OneWord) \union Joined(Joined(OneWord))
    \union {<<w, "&">> : w \in CommandWords \ {"x"}}
    \union {<<"$(fails)">>} \union {<<"$(fails)", "&&", w>> : w \in CommandWords}
    \union {l \o <<"&&", "$(fails)">> : l \in Joined(OneWord)}
MCAliasTables ==
    {[a \in {} |-> <<>>]} \union
    {[a \in {"x"} |-> l] : l \in {<<"x">>, <<"quiet">>, <<"fails", "||", "x">>,
                                  <<"succeeds", "|", "quiet">>, <<"quiet", "&&", "$(fails)">>}}

-----------------------------------------------------------------------------
(* texts: letters, a blank and line ends; digits and signs *)

MCTexts == SeqOf({10, 32, 97, 98}, 4)
MCNumberTexts == SeqOf({10, 49, 50, 45}, 4)
MCShortTexts == SeqOf({10, 97, 98}, 3)
MCPatterns == {<<97>>, <<97, 97>>, <<97, 98>>, <<97, 98, 97>>}
MCSums ==
    LET n == {1, 2, 3}
        o == {"+", "-", "*", "/", "%"}
    IN  {<<a>> : a \in n} \union {<<a, p, b>> : a, b \in n, p \in o}
        \union {<<a, p, b, q, c>> : a, b, c \in n, p, q \in o}
        \union {<<7, p, 3, q, 2, r, 2>> : p, q, r \in o}

-----------------------------------------------------------------------------
(* characters and escape sequences; names with a common beginning *)

Characters == {<<"x">>, <<"\n">>, <<"BS">>, <<"ESC", "x">>, <<"ESC", "[", "m">>, <<"ESC", "[", "3", "1", "m">>}
Escapes ==
    {<<"ESC", "[">> \o s : s \in {<<"2", "J">>, <<"K">>, <<"?", "2", "J">>, <<"3", "1", ";", "0", "m">>,
                                 <<"2", ";", "2", "H">>, <<"A">>, <<"B">>, <<"C">>, <<"D">>}}
MCPieces == [d \in {"terminal", "console"} |->
               IF d = "console" THEN Characters ELSE Characters \union Escapes \union {<<"\r">>, <<"\t">>}]
MCNames == {<<"x", "x", "y">>, <<"x", "y">>, <<"y", "x">>}

-----------------------------------------------------------------------------
(* fields with and without corrections, up to and past the caps *)

MCTypings == SeqOf({"p", "q"}, 2) \union
    {<<"p", "BS", "q">>, <<"BS", "p">>, <<"q", "q", "q">>, <<"p", "q", "p", "q">>, <<"q", "q", "q", "q", "q">>}
MCPassword == <<"p">>
MCGate == <<"q", "p">>

-----------------------------------------------------------------------------
(* two tunes, one with a rest; sums of up to three numbers; two levels of  *)
(* directories; two rooms that a corner joins                              *)

MCSongs == <<<<220, 0>>, <<330>>>>
MCNoteHz == <<440>>
MCWhite == <<0, 2, 4, 5, 7>>
MCBlack == <<1, 3, 6>>

Num(n) == [op |-> "", v |-> n]
Leaves == {Num(n) : n \in {1, 2, 12, -3}}
Outer == {Num(n) : n \in {2, -3}}
Pairs == {[op |-> o, a |-> x, b |-> y] : o \in Signs, x, y \in Leaves}
MCFormulas == Leaves \union Pairs \union {[op |-> o, a |-> x, b |-> y] : o \in Signs, x \in Pairs, y \in Outer}
              \union {[op |-> o, a |-> x, b |-> y] : o \in Signs, x \in Outer, y \in Pairs}

Fresh(e, type, parent, name) == [exists |-> e, type |-> type, parent |-> parent, name |-> name]
MCTable == <<Fresh(TRUE, "dir", 0, <<"a">>), Fresh(TRUE, "file", 0, <<"b">>), Fresh(TRUE, "dir", 1, <<"b">>),
             Fresh(FALSE, "file", 0, <<>>), Fresh(TRUE, "file", 3, <<"a", "b">>)>>

MCPlayRooms == <<[x |-> 1, y |-> 1, w |-> 2, h |-> 2], [x |-> 3, y |-> 2, w |-> 2, h |-> 2]>>
MCSpots == {<<1, 1>>, <<3, 2>>, <<3, 3>>}
MCKinds == {[hp |-> 3, atk |-> 1], [hp |-> 6, atk |-> 2]}

-----------------------------------------------------------------------------
shellVars == <<part, scriptVars, commandVars, toolVars, editVars, terminalVars, promptVars, sessionVars,
               runeVars, calcVars, filesVars, dungeonVars, paintVars>>

ScriptAway == script = 0 /\ Holds = 0 /\ sc_lines = 0 /\ frames = 0 /\ trace = 0 /\ broken = 0
CommandAway == /\ line = 0 /\ aliases = 0 /\ todo = 0 /\ alias_depth = 0 /\ last_exit_code = 0
               /\ capture_mode = 0 /\ capture_buf = 0 /\ pipe_stdin = 0 /\ ran = 0
ToolsAway == tool = 0 /\ text = 0 /\ arg = 0 /\ output = 0
PromptAway == /\ vt = 0 /\ buf = 0 /\ history = 0 /\ history_count = 0 /\ history_nav = 0
              /\ commands = 0 /\ over = FALSE /\ keys = 0
CalcAway == calc = 0 /\ formula = 0 /\ pressed = "" /\ before = 0 /\ presses = 0
FilesAway == file_system = 0 /\ fm = 0 /\ stale = 0 /\ aim = 0 /\ deed = 0 /\ deeds = 0
DungeonAway == delve = 0 /\ dug = 0 /\ hero = 0 /\ mons = 0 /\ items = 0 /\ hurt = 0 /\ turns = 0
PaintAway == /\ m_canvas = 0 /\ brush = 0 /\ drag = 0 /\ m_clear_arm = 0 /\ gpi = 0 /\ saved_as = 0
             /\ stroke = 0 /\ acts = 0

ShellInit ==
    /\ part \in Parts
    /\ IF part = "script" THEN ScriptInit ELSE ScriptAway
    /\ IF part = "command" THEN CommandInit ELSE CommandAway
    /\ IF part = "tools" THEN ToolsInit ELSE ToolsAway
    /\ EditInit /\ (part # "editing" => editor = "nano")
    /\ TerminalInit /\ (part # "terminal" => device = "console")
    /\ IF part = "prompt" THEN PromptInit ELSE PromptAway
    /\ SessionInit /\ (part # "session" => matter = "tables")
    /\ RuneInit
    /\ IF part = "sums" THEN CalcInit ELSE CalcAway
    /\ IF part = "files" THEN FilesInit ELSE FilesAway
    /\ IF part = "dungeon" THEN DungeonInit ELSE DungeonAway
    /\ IF part = "paint" THEN PaintInit ELSE PaintAway

ShellNext ==
    /\ \/ part = "script"  /\ ScriptNext
       \/ part = "command" /\ CommandNext
       \/ part = "tools"   /\ ToolsNext
       \/ part = "editing" /\ EditNext
       \/ part = "terminal" /\ TerminalNext
       \/ part = "prompt"  /\ PromptNext
       \/ part = "session" /\ SessionNext
       \/ part = "tunes"   /\ RuneNext
       \/ part = "sums"    /\ CalcNext
       \/ part = "files"   /\ FilesNext
       \/ part = "dungeon" /\ DungeonNext
       \/ part = "paint"   /\ PaintNext
    /\ part # "script"  => UNCHANGED scriptVars
    /\ part # "command" => UNCHANGED commandVars
    /\ part # "tools"   => UNCHANGED toolVars
    /\ part # "editing" => UNCHANGED editVars
    /\ part # "terminal" => UNCHANGED terminalVars
    /\ part # "prompt"  => UNCHANGED promptVars
    /\ part # "session" => UNCHANGED sessionVars
    /\ part # "tunes"   => UNCHANGED runeVars
    /\ part # "sums"    => UNCHANGED calcVars
    /\ part # "files"   => UNCHANGED filesVars
    /\ part # "dungeon" => UNCHANGED dungeonVars
    /\ part # "paint"   => UNCHANGED paintVars
    /\ UNCHANGED part

ShellSpec == ShellInit /\ [][ShellNext]_shellVars
TuneSpec == part = "tunes" /\ ShellInit /\ [][ShellNext]_shellVars

\* A script runs as it is written, a line does what its operators say, filters
\* print what they say of a text, and editors keep it.
ShellRight == /\ part = "script"  => RunsAsWritten
              /\ part = "command" => CommandRight
              /\ part = "tools"   => ToolsRight
              /\ part = "editing" => EditingRight

\* What is printed is what is seen, what is typed is what is run, and variables,
\* aliases and the password are what they were last set to.
ConsoleRight == /\ part = "terminal" => TerminalRight
                /\ part = "prompt"   => PromptRight
                /\ part = "session"  => SessionRight

\* The windows of the applications show what they were told and keep it.
WindowsRight == /\ part = "tunes"   => RuneRight
                /\ part = "sums"    => CalculatorRight
                /\ part = "files"   => FilesRight
                /\ part = "dungeon" => DungeonRight
                /\ part = "paint"   => PaintRight

\* "Ownership is bound AT SPAWN TIME" (RuneChantWindow.cpp:12): what sounds is
\* what was asked for last.
LastTuneSounds == part = "tunes" => LastAskedSounds
=============================================================================
