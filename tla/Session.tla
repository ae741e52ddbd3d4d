------------------------------ MODULE Session ------------------------------
(***************************************************************************)
(* What the shell keeps of a session: variables (setenv, export, unset),   *)
(* aliases, the password and the user (login, passwd, su, sudo).           *)
(*                                                                         *)
(* Keys wait in a stream.  A dialogue reads them: a field of passwd, su    *)
(* and sudo ends with return or when it is full, one of login only with    *)
(* return, further characters being dropped.                               *)
(***************************************************************************)
EXTENDS Integers, Sequences, SequencesExt, Functions

CONSTANTS
    Typings,        \* what is typed into a field before return
    FieldCap,       \* characters of a field of passwd, su and sudo
    LoginCap,       \* characters of a field of login
    FirstPassword, Gate,    \* gregos_passwd at the start; what the login window wants
    Users,
    EnvKeys, EnvValues, MAX_ENV_VARS,
    AliasNames, MAX_ALIASES

ASSUME SessionAssumption ==
    /\ FieldCap \in Nat \ {0} /\ LoginCap \in Nat \ {0}
    /\ MAX_ENV_VARS \in Nat /\ MAX_ALIASES \in Nat
    /\ Len(FirstPassword) \in 1 .. FieldCap

VARIABLES
    matter,             \* which part of the session changes: "tables", "password" or "gate"
    env, aliases_,      \* the tables, in order
    gregos_passwd, current_user,
    m_phase, m_pwd, g_login_done,   \* the login window
    known, kept,        \* history: what was set, of the variables and of the aliases
    typed,              \* history: keys of this line of the login window
    answers             \* history: the last dialogue, and what it did
sessionVars == <<matter, env, aliases_, gregos_passwd, current_user, m_phase, m_pwd, g_login_done, known, kept, typed, answers>>

NoTable == [k \in {} |-> 0]
NoAnswers == [asked |-> "nothing", fields |-> <<>>, got |-> <<>>, left |-> <<>>, was |-> FirstPassword,
              over |-> TRUE, worked |-> FALSE]

SessionInit ==
    /\ matter \in {"tables", "password", "gate"}
    /\ env = <<>> /\ aliases_ = <<>> /\ known = NoTable /\ kept = NoTable
    /\ gregos_passwd = FirstPassword /\ current_user = "root"
    /\ m_phase = "loading" /\ m_pwd = <<>> /\ g_login_done = FALSE /\ typed = <<>>
    /\ answers = NoAnswers

-----------------------------------------------------------------------------
(* Tables: variables and aliases are kept the same way *)

PlaceOf(table, k) == SelectInSeq(table, LAMBDA e : e.key = k)
\* The entry is changed, or one is added if there is room.
Stored(table, k, v, max) ==
    IF PlaceOf(table, k) # 0 THEN [table EXCEPT ![PlaceOf(table, k)] = [key |-> k, value |-> v]]
    ELSE IF Len(table) < max THEN Append(table, [key |-> k, value |-> v]) ELSE table
\* Mutant of Dropped: the entries behind are not moved down.
DroppedLast(table, k) == IF PlaceOf(table, k) = 0 THEN table ELSE Front(table)
Dropped(table, k) == IF PlaceOf(table, k) = 0 THEN table ELSE RemoveAt(table, PlaceOf(table, k))

Knowing(map, table, k, v, max) ==
    IF k \notin DOMAIN map /\ Len(table) = max THEN map
    ELSE [j \in DOMAIN map \union {k} |-> IF j = k THEN v ELSE map[j]]
Forgetting(map, k) == [j \in DOMAIN map \ {k} |-> map[j]]

Others == UNCHANGED <<gregos_passwd, current_user, m_phase, m_pwd, g_login_done, typed, answers>>

\* setenv and export.
SetEnv(k, v) == /\ env' = Stored(env, k, v, MAX_ENV_VARS) /\ known' = Knowing(known, env, k, v, MAX_ENV_VARS)
                /\ UNCHANGED <<aliases_, kept>> /\ Others
Unset(k) == env' = Dropped(env, k) /\ known' = Forgetting(known, k) /\ UNCHANGED <<aliases_, kept>> /\ Others
SetAlias(k, v) == /\ aliases_' = Stored(aliases_, k, v, MAX_ALIASES) /\ kept' = Knowing(kept, aliases_, k, v, MAX_ALIASES)
                  /\ UNCHANGED <<env, known>> /\ Others
Unalias(k) == aliases_' = Dropped(aliases_, k) /\ kept' = Forgetting(kept, k) /\ UNCHANGED <<env, known>> /\ Others

-----------------------------------------------------------------------------
(* Reading a field from the keys that wait *)

Edited(t, c) == IF c # "BS" THEN Append(t, c) ELSE IF t = <<>> THEN t ELSE Front(t)

NoField == [got |-> <<>>, left |-> <<>>, ended |-> FALSE]
\* Mutant of Field: a backspace in an empty field is taken as a character.
FieldRaw(stream) ==
    FoldLeft(LAMBDA f, c : IF f.ended \/ Len(f.got) = FieldCap THEN [f EXCEPT !.left = Append(@, c)]
                           ELSE IF c = "\n" THEN [f EXCEPT !.ended = TRUE]
                           ELSE [f EXCEPT !.got = IF @ = <<>> THEN <<c>> ELSE Edited(@, c)],
             NoField, stream)
\* passwd, su, sudo: the field and the keys that are left.
Field(stream) ==
    FoldLeft(LAMBDA f, c : IF f.ended \/ Len(f.got) = FieldCap THEN [f EXCEPT !.left = Append(@, c)]
                           ELSE IF c = "\n" THEN [f EXCEPT !.ended = TRUE]
                           ELSE [f EXCEPT !.got = Edited(@, c)],
             NoField, stream)

\* login: a whole line; a backspace in an empty field is taken as a character.
LoginField(typing) ==
    FoldLeft(LAMBDA t, c : IF c = "BS" /\ t # <<>> THEN Front(t)
                           ELSE IF Len(t) < LoginCap THEN Append(t, c) ELSE t,
             <<>>, typing)

Meant(typing) == FoldLeft(Edited, <<>>, typing)
Tables == UNCHANGED <<env, aliases_, known, kept>>
Door == UNCHANGED <<m_phase, m_pwd, g_login_done, typed>>
Quiet == answers.asked # "passwd" \/ answers.over

\* A field is read from the keys that are left and what is typed now, ended by return.
ReadField(left, typing) == Field(Append(left \o typing, "\n"))
Begin(asked, typing) ==
    LET a == ReadField(<<>>, typing)
    IN  answers' = [asked |-> asked, fields |-> <<typing>>, got |-> <<a.got>>, left |-> a.left, was |-> gregos_passwd,
                    over |-> asked # "passwd" \/ a.got # gregos_passwd,
                    worked |-> asked # "passwd" /\ a.got = gregos_passwd]

\* cmd_passwd: the old password, and if it is right the new one, twice.
PasswdOld(typing) == Quiet /\ Begin("passwd", typing) /\ UNCHANGED <<gregos_passwd, current_user>>
PasswdNew(typing) ==
    LET a == ReadField(answers.left, typing)
        f == Append(answers.got, a.got)
        taken == Len(f) = 3 /\ f[2] = f[3] /\ f[2] # <<>>
    IN  /\ ~Quiet
        /\ answers' = [answers EXCEPT !.fields = Append(@, typing), !.got = f, !.left = a.left,
                                      !.over = Len(f) = 3, !.worked = taken]
        /\ gregos_passwd' = IF taken THEN f[2] ELSE gregos_passwd
        /\ UNCHANGED current_user

\* cmd_su, and cmd_sudo, which runs a command and leaves the user.
Su(user, typing) ==
    /\ Quiet /\ Begin("su", typing)
    /\ current_user' = IF ReadField(<<>>, typing).got = gregos_passwd THEN user ELSE current_user
    /\ UNCHANGED gregos_passwd
Sudo(typing) == Quiet /\ Begin("sudo", typing) /\ UNCHANGED <<gregos_passwd, current_user>>

\* login_screen: one attempt.
Login(typing) ==
    /\ Quiet
    /\ answers' = [NoAnswers EXCEPT !.asked = "login", !.fields = <<typing>>, !.was = gregos_passwd,
                                    !.worked = LoginField(typing) = gregos_passwd]
    /\ UNCHANGED <<gregos_passwd, current_user>>

\* The login window: keys are swallowed while it loads.
Loaded == m_phase = "loading" /\ m_phase' = "login" /\ UNCHANGED <<m_pwd, g_login_done, typed>>
WindowKey(c) ==
    /\ ~g_login_done /\ Len(typed) <= FieldCap + 1 /\ UNCHANGED m_phase
    /\ IF m_phase = "loading" THEN UNCHANGED <<m_pwd, g_login_done, typed>>
       ELSE IF c = "\n"
            THEN IF m_pwd = Gate THEN g_login_done' = TRUE /\ UNCHANGED <<m_pwd, typed>>
                                 ELSE m_pwd' = <<>> /\ typed' = <<>> /\ UNCHANGED g_login_done
       ELSE /\ m_pwd' = IF c # "BS" /\ Len(m_pwd) = FieldCap THEN m_pwd ELSE Edited(m_pwd, c)
            /\ typed' = Append(typed, c)
            /\ UNCHANGED g_login_done

SessionNext ==
    /\ UNCHANGED matter
    /\ \/ /\ matter = "tables"
          /\ \/ \E k \in EnvKeys : Unset(k) \/ \E v \in EnvValues : SetEnv(k, v)
             \/ \E k \in AliasNames : Unalias(k) \/ \E v \in EnvValues : SetAlias(k, v)
       \/ /\ matter = "password"
          /\ \E t \in Typings : \/ PasswdOld(t) \/ PasswdNew(t) \/ Sudo(t) \/ Login(t)
                               \/ \E u \in Users : Su(u, t)
          /\ Tables /\ Door
       \/ /\ matter = "gate"
          /\ Loaded \/ \E c \in {"p", "q", "BS", "\n"} : WindowKey(c)
          /\ UNCHANGED <<gregos_passwd, current_user, answers>> /\ Tables
SessionSpec == SessionInit /\ [][SessionNext]_sessionVars

-----------------------------------------------------------------------------
(* Properties *)

\* A table answers for every name with what it was last given, has no name twice and
\* forgets what was unset, also when it is full and after entries moved down.
Tells(table, map) ==
    /\ {table[i].key : i \in DOMAIN table} = DOMAIN map /\ IsInjective([i \in DOMAIN table |-> table[i].key])
    /\ \A i \in DOMAIN table : table[i].value = map[table[i].key]
TablesRight == Tells(env, known) /\ Tells(aliases_, kept)

\* A dialogue whose fields stay below the cap does what was meant: passwd changes the
\* password if the old one and twice the same new one, not empty, were meant; su, sudo
\* and login let in who meant the password, however it was corrected while typed.
Short(typing) == Len(typing) < FieldCap
InOneGo(typing) == typing # <<>> => Head(typing) # "BS"
MeantRight ==
    LET f == answers.fields
        knows == Meant(f[1]) = answers.was
        short == \A i \in DOMAIN f : Short(f[i])
    IN  CASE answers.asked = "nothing" -> TRUE
          [] answers.asked = "passwd" /\ answers.over /\ short ->
               /\ Len(f) = 3 <=> knows
               /\ answers.worked <=> Len(f) = 3 /\ Meant(f[2]) = Meant(f[3]) /\ Meant(f[2]) # <<>>
          [] answers.asked \in {"su", "sudo"} /\ short -> answers.worked <=> knows
          [] answers.asked = "login" /\ Len(f[1]) <= LoginCap /\ InOneGo(f[1]) -> answers.worked <=> knows
          [] OTHER -> TRUE
\* Such a dialogue uses up the keys typed for it: none is left for the shell.
NothingLeft ==
    answers.over /\ (\A i \in DOMAIN answers.fields : Short(answers.fields[i])) => answers.left = <<>>
\* Only passwd changes the password, and only after it was given the old one and then the
\* new one twice, which is not empty.
PasswordStays ==
    /\ ~(answers.asked = "passwd" /\ answers.worked) => gregos_passwd = answers.was
    /\ answers.asked = "passwd" /\ answers.worked =>
         answers.got = <<answers.was, gregos_passwd, gregos_passwd>> /\ gregos_passwd # <<>>
\* The password is what the last dialogue found or what was meant by what it was given, and
\* can be given.
PasswordKept ==
    /\ Len(gregos_passwd) \in 1 .. FieldCap
    /\ PasswordStays
    /\ answers.asked = "passwd" /\ answers.worked /\ (\A i \in 1 .. 3 : Short(answers.fields[i]))
         => gregos_passwd = Meant(answers.fields[2])
PasswordsTrue == MeantRight /\ NothingLeft /\ PasswordKept
\* The login window opens when the line meant the word it wants, however it was corrected;
\* what was typed while it loaded does not count.
GateHolds == Len(typed) <= FieldCap => m_pwd = Meant(typed) /\ (g_login_done => Meant(typed) = Gate)
SessionRight == TablesRight /\ PasswordsTrue /\ GateHolds
=============================================================================
