--------------------------- MODULE ShellLanguage ----------------------------
(***************************************************************************)
(* What the shell makes of a line: the script interpreter, then the lists, *)
(* pipes, captures and redirections of one command line.                   *)
(***************************************************************************)
EXTENDS Integers, Sequences, SequencesExt

(***************************************************************************)
(* The script interpreter of kernel.c: sc_exec over the lines of a script, *)
(* against what the script means as written.                               *)
(*                                                                         *)
(* A script is a block, a sequence of statements:                          *)
(*   [op |-> "run"]                             a command                  *)
(*   [op |-> "if", yes, no, tight]              no = <<>>: no else branch  *)
(*   [op |-> "while", body, tight]                                         *)
(*   [op |-> "for", words, body, tight]                                    *)
(*   [op |-> "case", arms]                      arms: [hit, body] each     *)
(* tight: "then" or "do" ends the first line, after a semicolon.  What a   *)
(* command does is left out: a condition holds the first Holds[n] times it *)
(* is evaluated, n telling odd from even lines.                            *)
(***************************************************************************)
CONSTANTS
    Scripts,    \* the scripts to run
    HoldsFor,   \* possible values of Holds
    MaxIter     \* the bound of 5000 iterations of a while loop

VARIABLES
    script,     \* the script, as its author sees it
    Holds,      \* how often each condition holds
    sc_lines,   \* its lines
    frames,     \* the recursion of sc_exec: blocks, and loops in progress
    trace,      \* the lines executed and conditions evaluated, in order
    broken      \* a loop was interrupted from the keyboard

scriptVars == <<script, Holds, sc_lines, frames, trace, broken>>

-----------------------------------------------------------------------------
(* the lines of a script *)

Ln(w) == [op |-> w, tight |-> FALSE, words |-> 0, hit |-> FALSE, last |-> FALSE]
Concat(ss) == FoldLeft(LAMBDA acc, s : acc \o s, <<>>, ss)

RECURSIVE Lines(_)
LinesOf(s) ==
    CASE s.op = "run"   -> <<Ln("run")>>
      [] s.op = "if"    -> <<[Ln("if") EXCEPT !.tight = s.tight]>>
                           \o (IF s.tight THEN <<>> ELSE <<Ln("then")>>) \o Lines(s.yes)
                           \o (IF s.no = <<>> THEN <<>> ELSE <<Ln("else")>> \o Lines(s.no)) \o <<Ln("fi")>>
      [] s.op = "while" -> <<[Ln("while") EXCEPT !.tight = s.tight]>>
                           \o (IF s.tight THEN <<>> ELSE <<Ln("do")>>) \o Lines(s.body) \o <<Ln("done")>>
      [] s.op = "for"   -> <<[Ln("for") EXCEPT !.tight = s.tight, !.words = s.words]>>
                           \o (IF s.tight THEN <<>> ELSE <<Ln("do")>>) \o Lines(s.body) \o <<Ln("done")>>
      [] s.op = "case"  -> <<Ln("case")>>
                           \o Concat([n \in DOMAIN s.arms |->
                                <<[Ln("pattern") EXCEPT !.hit = s.arms[n].hit]>> \o Lines(s.arms[n].body)
                                \o <<[Ln("run") EXCEPT !.last = TRUE]>>])
                           \o <<Ln("esac")>>
Lines(block) == Concat([n \in DOMAIN block |-> LinesOf(block[n])])

\* sc_split: blank lines and comments do not count.
ScSplit(block) == Lines(block)

Opens == {"if", "while", "for", "case"}
Closes == {"fi", "done", "esac"}

\* Mutant of Depth: closing words end no construct.
DepthNoClose(from, i) == Len(SelectSeq(SubSeq(sc_lines, from, i), LAMBDA l : l.op \in Opens))

\* The nesting sc_find counts when it comes to line i: a closing word outside
\* any construct that opened after from leaves it at 0.
Depth(from, i) ==
    LET d[j \in (from - 1) .. i] ==
          IF j < from THEN 0
          ELSE LET before == d[j - 1] - (IF j > from /\ d[j - 1] > 0 /\ sc_lines[j - 1].op \in Closes
                                         THEN 1 ELSE 0)
               IN  before + (IF sc_lines[j].op \in Opens THEN 1 ELSE 0)
    IN  d[i]

\* sc_find: the first line from there on that is the word, outside the
\* constructs that open in between; 0 if there is none.
ScFind(from, word) ==
    LET found == {i \in from .. Len(sc_lines) : sc_lines[i].op = word /\ Depth(from, i) = 0}
    IN  IF found = {} THEN 0 ELSE CHOOSE i \in found : \A j \in found : i <= j

-----------------------------------------------------------------------------
(* sc_exec *)

Block(i, to) == [kind |-> "block", i |-> i, to |-> to, head |-> 0, times |-> 0]
Loop(kind, head, i, to, times) == [kind |-> kind, i |-> i, to |-> to, head |-> head, times |-> times]

Top == Last(frames)
Push(fs, f) == Append(fs, f)
\* The frames, the innermost one going on at line i.
Resume(i) == Append(Front(frames), [Top EXCEPT !.i = i])

\* Whether the condition on line i holds now.
Outcome(i, past) == Len(SelectSeq(past, LAMBDA j : j = i)) < Holds[i % 2]

AtLine(op) == /\ frames # <<>> /\ Top.kind = "block" /\ Top.i < Top.to
              /\ sc_lines[Top.i].op = op

\* "then", "do", "else", "fi" ... on their own are passed over.
Skip ==
    /\ frames # <<>> /\ Top.kind = "block" /\ Top.i < Top.to
    /\ sc_lines[Top.i].op \in {"then", "do", "fi", "done", "else", "esac"}
    /\ frames' = Resume(Top.i + 1)
    /\ UNCHANGED <<script, Holds, sc_lines, trace, broken>>

\* Any other line is a command; so is a pattern that comes to be executed.
Run ==
    /\ AtLine("run") \/ AtLine("pattern")
    /\ trace' = Append(trace, Top.i)
    /\ frames' = Resume(Top.i + 1)
    /\ UNCHANGED <<script, Holds, sc_lines, broken>>

\* Where the search for "else" and "fi" starts.
ElseFrom(i, then_i) == (IF then_i > 0 THEN then_i ELSE i) + 1

If ==
    /\ AtLine("if")
    /\ LET i      == Top.i
           then_i == ScFind(i + 1, "then")
           else_i == ScFind(ElseFrom(i, then_i), "else")
           fi_i   == ScFind(ElseFrom(i, then_i), "fi")
           bs     == IF then_i > 0 THEN then_i + 1 ELSE i + 1
           end    == IF fi_i > 0 THEN fi_i ELSE Top.to
           be     == IF else_i > 0 THEN else_i ELSE end
           after  == Resume(IF fi_i > 0 THEN fi_i + 1 ELSE Top.to)
       IN  frames' = IF Outcome(i, trace) THEN Push(after, Block(bs, be))
                     ELSE IF else_i > 0 THEN Push(after, Block(else_i + 1, end))
                     ELSE after
    /\ trace' = Append(trace, Top.i)
    /\ UNCHANGED <<script, Holds, sc_lines, broken>>

\* Where the body of the loop on line i starts, and the line that ends it.
BodyStart(i) == LET do_i == ScFind(i + 1, "do") IN IF do_i > 0 THEN do_i + 1 ELSE i + 1
BodyEnd(i, to) == LET done_i == ScFind(BodyStart(i), "done") IN IF done_i > 0 THEN done_i ELSE to
AfterLoop(i, to) == LET done_i == ScFind(BodyStart(i), "done") IN IF done_i > 0 THEN done_i + 1 ELSE to

\* A loop: its frame stays while the bodies run.
StartLoop(op, times) ==
    /\ AtLine(op)
    /\ LET i == Top.i
       IN  frames' = Push(Resume(AfterLoop(i, Top.to)),
                          Loop(op, i, BodyStart(i), BodyEnd(i, Top.to), times))
    /\ UNCHANGED <<script, Holds, sc_lines, trace, broken>>

While == StartLoop("while", MaxIter)
For == frames # <<>> /\ StartLoop("for", sc_lines[Top.i].words)

Looping(op) == frames # <<>> /\ Top.kind = op
Again == Push(Append(Front(frames), [Top EXCEPT !.times = @ - 1]), Block(Top.i, Top.to))

WhileIterate ==
    /\ Looping("while")
    /\ IF Top.times = 0 THEN frames' = Front(frames) /\ UNCHANGED trace
       ELSE /\ trace' = Append(trace, Top.head)
            /\ frames' = IF Outcome(Top.head, trace) THEN Again ELSE Front(frames)
    /\ UNCHANGED <<script, Holds, sc_lines, broken>>

\* A key pressed between two iterations ends the loop.
Interrupt ==
    /\ Looping("while") /\ frames' = Front(frames) /\ broken' = TRUE
    /\ UNCHANGED <<script, Holds, sc_lines, trace>>

\* sc_set_var, then the body.
ForIterate ==
    /\ Looping("for")
    /\ IF Top.times = 0 THEN frames' = Front(frames) /\ UNCHANGED trace
       ELSE trace' = Append(trace, Top.head) /\ frames' = Again
    /\ UNCHANGED <<script, Holds, sc_lines, broken>>

\* The first pattern that fits; its body ends with the line marked ";;", whose
\* command runs after the lines before it.
Case ==
    /\ AtLine("case")
    /\ LET i    == Top.i
           esac == ScFind(i + 1, "esac")
           end  == IF esac > 0 THEN esac ELSE Top.to
           hits == {n \in (i + 1) .. (end - 1) : sc_lines[n].op = "pattern" /\ sc_lines[n].hit}
           arm  == CHOOSE n \in hits : \A m \in hits : n <= m
           ends == {n \in (arm + 1) .. (end - 1) : sc_lines[n].last}
           last == CHOOSE n \in ends : \A m \in ends : n <= m
       IN  frames' = IF hits = {} THEN Resume(end + 1)
                     ELSE Push(Resume(end + 1), Block(arm + 1, IF ends = {} THEN end ELSE last + 1))
    /\ UNCHANGED <<script, Holds, sc_lines, trace, broken>>

Return ==
    /\ frames # <<>> /\ Top.kind = "block" /\ Top.i >= Top.to
    /\ frames' = Front(frames)
    /\ UNCHANGED <<script, Holds, sc_lines, trace, broken>>

\* run_script.
ScriptInit ==
    /\ script \in Scripts /\ Holds \in HoldsFor
    /\ sc_lines = ScSplit(script)
    /\ frames = <<Block(1, Len(sc_lines) + 1)>>
    /\ trace = <<>> /\ broken = FALSE

ScriptNext == Skip \/ Run \/ If \/ While \/ For \/ WhileIterate \/ Interrupt \/ ForIterate
              \/ Case \/ Return

ScriptSpec == ScriptInit /\ [][ScriptNext]_scriptVars

-----------------------------------------------------------------------------
(* what a script means *)

\* The trace after the block whose first line is number here, past being the
\* trace before it.
RECURSIVE Meaning(_, _, _)
RECURSIVE Repeated(_, _, _, _)
\* The loop s on line here, times more rounds.
Repeated(s, here, times, past) ==
    LET holds == IF s.op = "for" THEN times > 0 ELSE Outcome(here, past)
        seen  == IF s.op = "for" /\ ~holds THEN past ELSE Append(past, here)
    IN  IF ~holds THEN seen
        ELSE Repeated(s, here, times - 1, Meaning(s.body, here + (IF s.tight THEN 1 ELSE 2), seen))
Meaning(block, here, past) ==
    IF block = <<>> THEN past
    ELSE LET s    == Head(block)
             next == here + Len(LinesOf(s))
             body == here + (IF s.op \in {"if", "while", "for"} /\ ~s.tight THEN 2 ELSE 1)
             hits == {n \in DOMAIN s.arms : s.arms[n].hit}
             arm  == CHOOSE n \in hits : \A m \in hits : n <= m
             ArmAt(n) == here + 1 + Len(Lines(<<[op |-> "case", arms |-> SubSeq(s.arms, 1, n - 1)]>>)) - 1
             once ==
               CASE s.op = "run" -> Append(past, here)
                 [] s.op = "if" ->
                      IF Outcome(here, past) THEN Meaning(s.yes, body, Append(past, here))
                      ELSE Meaning(s.no, body + Len(Lines(s.yes)) + 1, Append(past, here))
                 [] s.op \in {"while", "for"} ->
                      Repeated(s, here, IF s.op = "for" THEN s.words ELSE 0, past)
                 [] s.op = "case" ->
                      IF hits = {} THEN past
                      ELSE LET first == ArmAt(arm)
                               inner == Meaning(s.arms[arm].body, first, past)
                           IN  Append(inner, first + Len(Lines(s.arms[arm].body)))
         IN  Meaning(Tail(block), next, once)

\* An if without else in the then branch of an if with else: sc_find takes the
\* outer else for its own, and the commands between run twice.
RECURSIVE Dangling(_, _)
Dangling(block, inYes) ==
    \E n \in DOMAIN block :
        LET s == block[n]
        IN  CASE s.op = "run" -> FALSE
              [] s.op = "if" -> \/ s.no = <<>> /\ inYes
                                \/ Dangling(s.yes, inYes \/ s.no # <<>>)
                                \/ Dangling(s.no, inYes)
              [] s.op \in {"while", "for"} -> Dangling(s.body, inYes)
              [] s.op = "case" -> \E m \in DOMAIN s.arms : Dangling(s.arms[m].body, inYes)

\* A script that runs to its end, and leaves no else to be mistaken, has
\* executed exactly the commands its author wrote, in the order its conditions
\* called for (kernel.c:1991).
RunsAsWritten ==
    (frames = <<>> /\ ~broken /\ ~Dangling(script, FALSE)) => trace = Meaning(script, 1, <<>>)

-----------------------------------------------------------------------------
(***************************************************************************)
(* execute_command of kernel.c, as a machine: how a line is taken apart at *)
(* "$(...)", aliases, "&&", "||", "&" and "|", in that order, and what     *)
(* each command is then given to read.                                     *)
(*                                                                         *)
(* A line is a sequence of tokens: names of commands, operators, and "$c", *)
(* which stands for the output of command c.  Of a command only its exit   *)
(* is kept: "fails" sets the exit code to 1, "true" sets it to 0, and most *)
(* commands, "quiet", leave it.  A command outputs its own name.           *)
(***************************************************************************)
CONSTANTS
    CommandLines,   \* the lines typed
    ExitOf,         \* the exit of each command: "fails", "true" or "quiet"
    SubstOf,        \* the command each "$c" stands for
    AliasTables,    \* the possible contents of alias_names and alias_cmds
    MaxAliasDepth   \* 8

VARIABLES
    line, aliases,
    todo,           \* what remains to be done, the next first: the recursion of execute_command
    alias_depth, last_exit_code,
    capture_mode, capture_buf,
    pipe_stdin,     \* whether it points to capture_buf: it points nowhere else
    ran             \* what was executed: [cmd, read] each, read being what it could read

commandVars == <<line, aliases, todo, alias_depth, last_exit_code, capture_mode, capture_buf,
                 pipe_stdin, ran>>

Operators == {"&&", "||", "|", "&"}
Exec(l) == [do |-> "exec", line |-> l]
Then(what, l) == [do |-> what, line |-> l]

CommandInit ==
    /\ line \in CommandLines /\ aliases \in AliasTables
    /\ todo = <<Exec(line)>>
    /\ alias_depth = 0 /\ last_exit_code \in {0, 1}    \* as the last line left it
    /\ capture_mode = FALSE /\ capture_buf = <<>> /\ pipe_stdin = FALSE
    /\ ran = <<>>

-----------------------------------------------------------------------------
(* the parts of execute_command, each for the line at the head of todo *)

Doing(what) == todo # <<>> /\ Head(todo).do = what
Now == Head(todo).line
Rest == Tail(todo)

Has(l, token) == \E i \in DOMAIN l : l[i] = token
Place(l, token) == CHOOSE i \in DOMAIN l : l[i] = token /\ \A j \in 1 .. (i - 1) : l[j] # token
Before(l, token) == SubSeq(l, 1, Place(l, token) - 1)
Behind(l, token) == SubSeq(l, Place(l, token) + 1, Len(l))

Substs == DOMAIN SubstOf
Dollars(l) == {i \in DOMAIN l : l[i] \in Substs}
IsAlias(l) == l # <<>> /\ Head(l) \in DOMAIN aliases

\* expand_env: every "$(...)" of the line is executed first, and captured.
FirstDollar(l) == CHOOSE j \in Dollars(l) : \A k \in Dollars(l) : j <= k
Substitute ==
    /\ Doing("exec") /\ Dollars(Now) # {}
    /\ todo' = <<Exec(<<SubstOf[Now[FirstDollar(Now)]]>>), Then("captured", Now)>> \o Rest
    /\ capture_mode' = TRUE /\ capture_buf' = <<>>
    /\ UNCHANGED <<line, aliases, alias_depth, last_exit_code, pipe_stdin, ran>>

\* The name of an alias at the start of the line is replaced, up to a depth.
Expand ==
    /\ Doing("exec") /\ Dollars(Now) = {} /\ IsAlias(Now)
    /\ IF alias_depth >= MaxAliasDepth
       THEN todo' = Rest /\ UNCHANGED alias_depth
       ELSE /\ alias_depth' = alias_depth + 1
            /\ todo' = <<Exec(aliases[Head(Now)] \o Tail(Now)), Then("expanded", <<>>)>> \o Rest
    /\ UNCHANGED <<line, aliases, last_exit_code, capture_mode, capture_buf, pipe_stdin, ran>>

Plain(l) == Dollars(l) = {} /\ ~IsAlias(l)

\* The line is split at the first "&&", or else at the first "||".
Split(op, l) == Has(l, op) /\ (op = "||" => ~Has(l, "&&"))

\* Mutant of ResetCode: what was left by an earlier command decides.
ResetCodeNot == last_exit_code
ResetCode == 0

Both(op) ==
    /\ Doing("exec") /\ Plain(Now) /\ Split(op, Now)
    /\ last_exit_code' = ResetCode
    /\ todo' = <<Exec(Before(Now, op)), Then(op, Behind(Now, op))>> \o Rest
    /\ UNCHANGED <<line, aliases, alias_depth, capture_mode, capture_buf, pipe_stdin, ran>>

Unlisted(l) == Plain(l) /\ ~Has(l, "&&") /\ ~Has(l, "||")

\* "cmd &" runs cmd to its end.
Background ==
    /\ Doing("exec") /\ Unlisted(Now) /\ Len(Now) > 1 /\ Last(Now) = "&"
    /\ todo' = <<Exec(Front(Now))>> \o Rest
    /\ UNCHANGED <<line, aliases, alias_depth, last_exit_code, capture_mode, capture_buf, pipe_stdin, ran>>

\* The line is split at the first "|"; the output of the left side is captured.
Pipe ==
    /\ Doing("exec") /\ Unlisted(Now) /\ Last(Now) # "&" /\ Has(Now, "|")
    /\ capture_mode' = TRUE /\ capture_buf' = <<>>
    /\ todo' = <<Exec(Before(Now, "|")), Then("|", Behind(Now, "|"))>> \o Rest
    /\ UNCHANGED <<line, aliases, alias_depth, last_exit_code, pipe_stdin, ran>>

\* One command: it reads what pipe_stdin points to, and outputs.
RunOne ==
    /\ Doing("exec") /\ Unlisted(Now) /\ Len(Now) = 1
    /\ todo' = Rest
    /\ LET c == Head(Now)
       IN  /\ ran' = Append(ran, [cmd |-> c, read |-> IF pipe_stdin THEN capture_buf ELSE <<>>])
           /\ last_exit_code' = CASE ExitOf[c] = "fails" -> 1
                                  [] ExitOf[c] = "true"  -> 0
                                  [] ExitOf[c] = "quiet" -> last_exit_code
           /\ capture_buf' = IF capture_mode THEN Append(capture_buf, c) ELSE capture_buf
    /\ UNCHANGED <<line, aliases, alias_depth, capture_mode, pipe_stdin>>

\* The left side is done: the right side runs if its exit code says so.
Decide(op) ==
    /\ Doing(op)
    /\ todo' = IF (last_exit_code = 0) = (op = "&&") THEN <<Exec(Now)>> \o Rest ELSE Rest
    /\ UNCHANGED <<line, aliases, alias_depth, last_exit_code, capture_mode, capture_buf, pipe_stdin, ran>>

Feed ==
    /\ Doing("|")
    /\ capture_mode' = FALSE /\ pipe_stdin' = TRUE
    /\ todo' = <<Exec(Now), Then("unpiped", <<>>)>> \o Rest
    /\ UNCHANGED <<line, aliases, alias_depth, last_exit_code, capture_buf, ran>>

\* Mutant of Unpipe: pipe_stdin goes on pointing to the captured text.
UnpipeKeeps ==
    /\ Doing("unpiped") /\ todo' = Rest /\ UNCHANGED pipe_stdin
    /\ UNCHANGED <<line, aliases, alias_depth, last_exit_code, capture_mode, capture_buf, ran>>
Unpipe ==
    /\ Doing("unpiped") /\ todo' = Rest /\ pipe_stdin' = FALSE
    /\ UNCHANGED <<line, aliases, alias_depth, last_exit_code, capture_mode, capture_buf, ran>>

\* What was captured takes the place of the "$(...)".
Captured ==
    /\ Doing("captured") /\ capture_mode' = FALSE
    /\ LET i == FirstDollar(Now)
       IN  todo' = <<Exec(SubSeq(Now, 1, i - 1) \o capture_buf \o SubSeq(Now, i + 1, Len(Now)))>> \o Rest
    /\ UNCHANGED <<line, aliases, alias_depth, last_exit_code, capture_buf, pipe_stdin, ran>>

Expanded ==
    /\ Doing("expanded") /\ todo' = Rest /\ alias_depth' = alias_depth - 1
    /\ UNCHANGED <<line, aliases, last_exit_code, capture_mode, capture_buf, pipe_stdin, ran>>

CommandNext ==
    \/ Substitute \/ Expand \/ Both("&&") \/ Both("||") \/ Background \/ Pipe \/ RunOne
    \/ Decide("&&") \/ Decide("||") \/ Feed \/ Unpipe \/ Captured \/ Expanded

CommandSpec == CommandInit /\ [][CommandNext]_commandVars

-----------------------------------------------------------------------------
(* Properties *)

Tokens(S) == \E i \in DOMAIN line : line[i] \in S
CommandNames(l) == SelectSeq(l, LAMBDA t : t \notin Operators)

\* What a list of commands joined by one operator runs: up to the first that
\* fails, or the first that does not.
Reaches(l, op) ==
    LET decisive == {i \in DOMAIN l : (ExitOf[l[i]] = "fails") = (op = "&&")}
    IN  IF decisive = {} THEN l ELSE SubSeq(l, 1, CHOOSE i \in decisive : \A j \in decisive : i <= j)

\* A line of plain commands joined by "&&" alone, or by "||" alone, runs "second
\* only if first succeeds", or only if it fails (README.md:667), whatever exit
\* code was left before.
ListsRun ==
    \A op \in {"&&", "||"} :
        (todo = <<>> /\ ~Tokens(Operators \ {op}) /\ ~Tokens(Substs) /\ ~Tokens(DOMAIN aliases) /\ Tokens({op}))
            => [i \in DOMAIN ran |-> ran[i].cmd] = Reaches(CommandNames(line), op)

\* A line that is done leaves nothing behind for the next one: output goes to
\* the screen, no command finds a pipe to read, and aliases may be used again
\* to their full depth, even if they called each other without end.
LineLeavesNothing ==
    todo = <<>> => ~capture_mode /\ ~pipe_stdin /\ alias_depth = 0

\* A pipe feeds a command with the output of the command before it, and with
\* nothing else: so for one pipe.
PipeFeeds(pipes) ==
    \A l \in {line} :
        (todo = <<>> /\ ~Tokens((Operators \ {"|"}) \union Substs \union DOMAIN aliases)
           /\ Len(CommandNames(l)) = pipes + 1)
        => \A i \in DOMAIN ran : ran[i].read = IF i = 1 THEN <<>> ELSE <<ran[i - 1].cmd>>

CommandRight == ListsRun /\ LineLeavesNothing /\ PipeFeeds(1)

\* "gregsh supports the | pipe operator to chain commands" (README.md:639).
PipesChain == PipeFeeds(2)
=============================================================================
