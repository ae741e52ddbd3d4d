----------------------------- MODULE RuneChant -----------------------------
(***************************************************************************)
(* Chant Runique (RuneChantWindow.cpp): one speaker, a window that cancels *)
(* and starts sounds, and a thread for each sound.                         *)
(*                                                                         *)
(* A call of the window is the list of its writes; the timer may switch to *)
(* a sound thread between any two of them.  What a thread does under cli   *)
(* is one step.  A note may last any time.                                 *)
(***************************************************************************)
EXTENDS Integers, Sequences, FiniteSets

CONSTANTS
    SoundThreads,       \* free slots of the scheduler
    Songs,              \* melodies: a sequence of sequences of frequencies, 0 for a rest
    NoteHz,             \* frequency of every key
    White, Black,       \* RC_WHITE_SEMI and RC_BLACK_SEMI: the keys from left to right
    WKW, WKH, BKW, BKH, BtnW, BtnGap,   \* sizes of keys and buttons
    MaxCalls            \* bound: calls of the window

KeyNote == Len(Songs) + 1       \* RC_SONG_COUNT: a key, as a song of one note

ASSUME RuneAssumption ==
    /\ Songs \in Seq(Seq(Nat))
    /\ \A i \in DOMAIN Songs : Songs[i] # <<>>
    /\ \A k \in DOMAIN NoteHz : NoteHz[k] > 0
    /\ BKW < WKW /\ BKH < WKH

VARIABLES
    s_rc_gen, s_rc_ticket_gen, s_rc_ticket_song, s_rc_playing, s_rc_keynote,
    speaker,            \* the frequency it sounds, 0 when off
    sounds,             \* the sound threads: where each is, its generation, song and note
    s_rc_live,          \* the window is open
    doing,              \* writes the window's call has still to do, and their song and key
    asked,              \* history: the last sound asked for, 0 for silence
    calls               \* calls made
runeVars == <<s_rc_gen, s_rc_ticket_gen, s_rc_ticket_song, s_rc_playing, s_rc_keynote, speaker, sounds,
              s_rc_live, doing, asked, calls>>

NoSound == [pc |-> "free", my |-> 0, idx |-> 0, n |-> 0]
Idle == [writes |-> <<>>, song |-> 0, semi |-> 0]

RuneInit ==
    /\ s_rc_gen = 0 /\ s_rc_ticket_gen = 0 /\ s_rc_ticket_song = 0 /\ s_rc_playing = 0 /\ s_rc_keynote = 0
    /\ speaker = 0 /\ sounds = [t \in SoundThreads |-> NoSound]
    /\ s_rc_live = TRUE /\ doing = Idle /\ asked = 0 /\ calls = 0

-----------------------------------------------------------------------------
(* The window's calls *)

\* Mutant of Silence: stop_all does not invalidate the ticket nor what plays.
SilenceKeepsGen == <<"forget", "quiet", "off">>
Silence == <<"bump", "forget", "quiet", "off">>
\* Mutant of PlayNote: the speaker is turned off before the melody is cancelled.
PlayNoteOffFirst == <<"off", "quiet", "key", "bump", "ticket", "song", "spawn">>
PlayNote == <<"bump", "quiet", "off", "key", "ticket", "song", "spawn">>
StartSong == <<"bump", "status", "ticket", "song", "spawn">>

Call(writes, song, semi) ==
    /\ doing = Idle /\ s_rc_live /\ calls < MaxCalls /\ calls' = calls + 1
    /\ doing' = [writes |-> writes, song |-> song, semi |-> semi]
    /\ asked' = song
    /\ UNCHANGED <<s_rc_gen, s_rc_ticket_gen, s_rc_ticket_song, s_rc_playing, s_rc_keynote, speaker, sounds>>

Key(semi) == Call(PlayNote, KeyNote, semi) /\ UNCHANGED s_rc_live
Song(i) == Call(StartSong, i, 0) /\ UNCHANGED s_rc_live
\* Escape silences what plays; if nothing does it closes the window, and so does its button.
Escape == s_rc_playing # 0 /\ Call(Silence, 0, 0) /\ UNCHANGED s_rc_live
Close == Call(Silence, 0, 0) /\ s_rc_live' = FALSE
Open ==
    /\ ~s_rc_live /\ doing = Idle /\ s_rc_live' = TRUE
    /\ UNCHANGED <<s_rc_gen, s_rc_ticket_gen, s_rc_ticket_song, s_rc_playing, s_rc_keynote, speaker, sounds,
                   doing, asked, calls>>

Spawn ==
    \/ \E t \in SoundThreads :
          /\ sounds[t].pc = "free"
          /\ sounds' = [sounds EXCEPT ![t] = [NoSound EXCEPT !.pc = "start"]]
          /\ doing' = Idle /\ UNCHANGED asked
    \* no slot or no memory: a key is forgotten, a song is stopped
    \/ /\ UNCHANGED sounds
       /\ doing' = [doing EXCEPT !.writes = IF doing.song = KeyNote THEN <<"forget">> ELSE Silence]
       /\ asked' = 0

Write ==
    LET w == Head(doing.writes)
        at(what, new, old) == IF w = what THEN new ELSE old
    IN  /\ doing # Idle
        /\ s_rc_gen' = at("bump", s_rc_gen + 1, s_rc_gen)
        /\ s_rc_ticket_gen' = at("forget", 0, at("ticket", s_rc_gen, s_rc_ticket_gen))
        /\ s_rc_ticket_song' = at("song", doing.song, s_rc_ticket_song)
        /\ s_rc_playing' = at("quiet", 0, at("status", doing.song, s_rc_playing))
        /\ s_rc_keynote' = IF w = "key" THEN NoteHz[doing.semi] ELSE s_rc_keynote
        /\ speaker' = at("off", 0, speaker)
        /\ IF w = "spawn" THEN Spawn
           ELSE /\ doing' = IF Len(doing.writes) = 1 THEN Idle ELSE [doing EXCEPT !.writes = Tail(@)]
                /\ UNCHANGED <<sounds, asked>>
        /\ UNCHANGED <<s_rc_live, calls>>

-----------------------------------------------------------------------------
(* The sound threads *)

Notes(idx) == IF idx = KeyNote THEN <<s_rc_keynote>> ELSE Songs[idx]
Window == UNCHANGED <<s_rc_gen, s_rc_ticket_song, s_rc_keynote, s_rc_live, doing, asked, calls>>
Gone(t) == sounds' = [sounds EXCEPT ![t] = NoSound]
At(t, pc) == sounds' = [sounds EXCEPT ![t].pc = pc]

\* Mutant of Consume: the ticket is taken without looking whether it was cancelled.
ConsumeBlind(t) ==
    /\ sounds[t].pc = "start"
    /\ s_rc_ticket_gen' = 0
    /\ IF s_rc_ticket_gen = 0 THEN Gone(t)
       ELSE sounds' = [sounds EXCEPT ![t] = [pc |-> "check", my |-> s_rc_gen, idx |-> s_rc_ticket_song, n |-> 1]]
    /\ UNCHANGED <<s_rc_playing, speaker>> /\ Window
\* The ticket is taken, by one thread only, and dropped if it was cancelled.
Consume(t) ==
    /\ sounds[t].pc = "start"
    /\ s_rc_ticket_gen' = 0
    /\ IF s_rc_ticket_gen = 0 \/ s_rc_ticket_gen # s_rc_gen THEN Gone(t)
       ELSE sounds' = [sounds EXCEPT ![t] = [pc |-> "check", my |-> s_rc_ticket_gen, idx |-> s_rc_ticket_song, n |-> 1]]
    /\ UNCHANGED <<s_rc_playing, speaker>> /\ Window

\* Still the owner: the note is programmed, or after the last one the speaker turned off.
Program(t) ==
    /\ sounds[t].pc = "check"
    /\ IF s_rc_gen # sounds[t].my THEN Gone(t) /\ UNCHANGED <<s_rc_playing, speaker>>
       ELSE IF sounds[t].n \in DOMAIN Notes(sounds[t].idx)
       THEN speaker' = Notes(sounds[t].idx)[sounds[t].n] /\ At(t, "hold") /\ UNCHANGED s_rc_playing
       ELSE speaker' = 0 /\ s_rc_playing' = 0 /\ Gone(t)
    /\ UNCHANGED s_rc_ticket_gen /\ Window

\* While a note lasts its thread looks whether it was cancelled.
Cancelled(t) ==
    /\ sounds[t].pc = "hold" /\ s_rc_gen # sounds[t].my /\ Gone(t)
    /\ UNCHANGED <<s_rc_ticket_gen, s_rc_playing, speaker>> /\ Window
NoteEnds(t) ==
    /\ sounds[t].pc = "hold"
    /\ sounds' = [sounds EXCEPT ![t].pc = "check", ![t].n = @ + 1]
    /\ UNCHANGED <<s_rc_ticket_gen, s_rc_playing, speaker>> /\ Window

RuneNext ==
    \/ \E k \in DOMAIN NoteHz : Key(k)
    \/ \E i \in DOMAIN Songs : Song(i)
    \/ Escape \/ Close \/ Open \/ Write
    \/ \E t \in SoundThreads : Consume(t) \/ Program(t) \/ Cancelled(t) \/ NoteEnds(t)
RuneSpec == RuneInit /\ [][RuneNext]_runeVars

-----------------------------------------------------------------------------
(* Where a click falls: semi_at, btn_at, and what is drawn there *)

BlackLeft(b) == (CHOOSE i \in DOMAIN White : White[i] = Black[b] - 1) * WKW - (BKW \div 2)
OnBlack(b, x, y) == y < BKH /\ x \in BlackLeft(b) .. BlackLeft(b) + BKW - 1
\* Mutant of SemiAt: the black keys do not lie over the white ones.
SemiAtWhite(x, y) == IF x \notin 0 .. (Len(White) * WKW) - 1 \/ y \notin 0 .. WKH - 1 THEN -1 ELSE White[(x \div WKW) + 1]
\* -1 outside of the keys.
SemiAt(x, y) ==
    IF x \notin 0 .. (Len(White) * WKW) - 1 \/ y \notin 0 .. WKH - 1 THEN -1
    ELSE IF \E b \in DOMAIN Black : OnBlack(b, x, y)
    THEN Black[CHOOSE b \in DOMAIN Black : OnBlack(b, x, y)]
    ELSE White[(x \div WKW) + 1]
\* Keys painted over a point, the last one on top; a column separates white keys.
Drawn(x, y) ==
    {White[i] : i \in {j \in DOMAIN White : x \in (j - 1) * WKW .. (j * WKW) - 2 /\ y \in 0 .. WKH - 1}}
Over(x, y) == {Black[b] : b \in {c \in DOMAIN Black : x \in BlackLeft(c) .. BlackLeft(c) + BKW - 1 /\ y \in 0 .. BKH - 1}}

ButtonAt(x) == {i \in DOMAIN Songs : x \in (i - 1) * (BtnW + BtnGap) .. ((i - 1) * (BtnW + BtnGap)) + BtnW - 1}

-----------------------------------------------------------------------------
(* Properties *)

Owner(t) == sounds[t].pc \in {"check", "hold"} /\ sounds[t].my = s_rc_gen
Coming == s_rc_ticket_gen = s_rc_gen /\ s_rc_gen # 0 /\ \E t \in SoundThreads : sounds[t].pc = "start"

\* When the window is not inside a call, a speaker that sounds has a thread that will
\* turn it off: nothing leaves it stuck on, and a closed window is silent.
NeverStuck ==
    doing = Idle /\ speaker # 0 => (\E t \in SoundThreads : Owner(t)) \/ Coming
\* One thread at a time owns the speaker.
OneVoice == Cardinality({t \in SoundThreads : Owner(t)}) <= 1
\* The status names a song only while a thread sounds or is about to: it does not stay lit.
StatusEnds == doing = Idle /\ s_rc_playing # 0 => (\E t \in SoundThreads : Owner(t)) \/ Coming
SilentClosed == ~s_rc_live /\ doing = Idle => speaker = 0 /\ ~\E t \in SoundThreads : Owner(t)
\* A click strikes the key painted on top there, and one button at most.
ClicksTrue ==
    /\ \A x \in -1 .. Len(White) * WKW, y \in -1 .. WKH :
         /\ Over(x, y) # {} => SemiAt(x, y) \in Over(x, y)
         /\ Over(x, y) = {} /\ Drawn(x, y) # {} => SemiAt(x, y) \in Drawn(x, y)
         /\ SemiAt(x, y) # -1 \/ (Over(x, y) = {} /\ Drawn(x, y) = {})
    /\ \A x \in 0 .. Len(White) * WKW : Cardinality(ButtonAt(x)) <= 1
RuneRight == NeverStuck /\ OneVoice /\ StatusEnds /\ SilentClosed /\ ClicksTrue

\* RuneChantWindow.cpp:12-15, "Ownership is bound AT SPAWN TIME [...] two rapid spawns
\* leave a single consumer of the latest ticket": the sound that owns the speaker is the
\* one last asked for.
LastAskedSounds ==
    doing = Idle => \A t \in SoundThreads : Owner(t) => sounds[t].idx = asked
=============================================================================
