---------------------------- MODULE InputDevices ----------------------------
(***************************************************************************)
(* The keyboard's path from IRQ1 to the shell, the desktop and a running   *)
(* game, then the mouse's packets and the event queue.                     *)
(***************************************************************************)
EXTENDS Integers, Sequences

(***************************************************************************)
(* Where keystrokes go: the rings of PS2Keyboard.cpp, the flags that choose *)
(* among them, and the arcade launcher of kernel.c that changes the flags. *)
(*                                                                         *)
(* The keyboard interrupt, the main thread and the game threads interleave *)
(* between the statements that touch the shared flags and rings.  A byte   *)
(* in the event queue or in the raw ring is only counted: what it does is  *)
(* chosen when it is handled.  The bytes of the game ring are modelled,    *)
(* because the game keeps a map of the keys that are down.                 *)
(***************************************************************************)
CONSTANTS
    Codes,      \* scancodes: each is a plain key, and with the prefix E0 another key
    RingSize,   \* KB_BUF_SIZE
    Slots,      \* scheduler slots the game threads may take
    MaxBytes,   \* bound on the bytes the keyboard sends
    MaxLaunches \* bound on the games started

ASSUME InputAssumption ==
    /\ RingSize \in Nat /\ RingSize > 1
    /\ MaxBytes \in Nat /\ MaxLaunches \in Nat
    /\ "main" \notin Slots /\ "E0" \notin Codes

Keys == BOOLEAN \X Codes        \* <<extended, code>>
Threads == {"main"} \union Slots
NoGame == "none"
Games == {"classic", "doom"}    \* classic games read get_char; doom captures the keyboard

VARIABLES
    held, due, bytes,               \* keys held down, the key whose second byte is due, bytes sent
    is_gui_active, s_kbd_capture,
    queue, s_kb_head, s_kb_tail,    \* events waiting; the raw ring
    s_game_buf, s_key_down, s_ks_ext,
    pending, done,                  \* s_arcade_game_pending, s_arcade_game_done
    apps, games_window,             \* ArcadeApps registered; the window that starts games
    where, game,                    \* where each thread is; what a game thread runs
    launches, unspawned,            \* games started; a spawn found no slot
    since, whole                    \* keys pressed since the map was reset and not released, and
                                    \* whether the map was given every byte since

keyboard == <<held, due, bytes, since>>
flags == <<is_gui_active, s_kbd_capture>>
rings == <<queue, s_kb_head, s_kb_tail>>
keymap == <<s_game_buf, s_key_down, s_ks_ext>>
arcade == <<pending, done, unspawned>>
desktop == <<apps, games_window, launches>>
inputVars == <<keyboard, flags, rings, keymap, arcade, desktop, where, game, whole>>

InputInit ==
    /\ held = {} /\ due = {} /\ bytes = 0 /\ since = {}
    /\ is_gui_active = TRUE /\ s_kbd_capture = FALSE
    /\ queue = 0 /\ s_kb_head = 0 /\ s_kb_tail = 0
    /\ s_game_buf = <<>> /\ s_key_down = {} /\ s_ks_ext = FALSE
    /\ pending = NoGame /\ done = TRUE /\ unspawned = FALSE
    /\ apps = 0 /\ games_window = "closed" /\ launches = 0
    /\ where = [t \in Threads |-> IF t = "main" THEN "loop" ELSE "free"]
    /\ game = [s \in Slots |-> NoGame] /\ whole = FALSE

NextIndex(i) == (i + 1) % RingSize
Alive == {s \in Slots : where[s] # "free"}
Goto(t, spot) == where' = [where EXCEPT ![t] = spot]

-----------------------------------------------------------------------------
(* IRQ1 *)

\* PS2Keyboard::handle_irq: the flags choose the ring; a full ring drops the byte.
HandleIrq(b) ==
    \/ /\ s_kbd_capture
       /\ LET room == Len(s_game_buf) < RingSize - 1
          IN  /\ s_game_buf' = IF room THEN Append(s_game_buf, b) ELSE s_game_buf
              /\ whole' = (whole /\ room)
       /\ UNCHANGED rings
    \/ /\ ~s_kbd_capture /\ is_gui_active
       /\ queue' = queue + 1 /\ whole' = FALSE
       /\ UNCHANGED <<s_game_buf, s_kb_head, s_kb_tail>>
    \/ /\ ~s_kbd_capture /\ ~is_gui_active
       /\ s_kb_head' = IF NextIndex(s_kb_head) # s_kb_tail THEN NextIndex(s_kb_head) ELSE s_kb_head
       /\ whole' = FALSE
       /\ UNCHANGED <<s_game_buf, queue, s_kb_tail>>

Prefix == [code |-> "E0", up |-> FALSE]
Flipped(S, k) == IF k \in S THEN S \ {k} ELSE S \union {k}

\* Key k goes down or up: the byte of its code is sent.
SendCode(k) ==
    /\ HandleIrq([code |-> k[2], up |-> k \in held])
    /\ held' = Flipped(held, k)
    /\ since' = IF k \in held THEN since \ {k} ELSE since \union {k}

\* An extended key sends the prefix first, and its code next.
Strike(k) ==
    /\ bytes < MaxBytes /\ bytes' = bytes + 1
    /\ \/ /\ due = {} /\ k[1]
          /\ HandleIrq(Prefix) /\ due' = {k} /\ UNCHANGED <<held, since>>
       \/ /\ due = IF k[1] THEN {k} ELSE {}
          /\ SendCode(k) /\ due' = {}
    /\ UNCHANGED <<flags, s_key_down, s_ks_ext, arcade, desktop, where, game>>

-----------------------------------------------------------------------------
(* get_char, called by the main loop and by the classic games *)

Reading(t) == IF t = "main" THEN where[t] = "loop" ELSE where[t] = "play" /\ game[t] = "classic"
Pumping(t) == where[t] = "pump" \/ (Reading(t) /\ is_gui_active)
Back(t) == Goto(t, IF t = "main" THEN "loop" ELSE "play")

\* wm_pump_events: one queued event is dispatched.  It may open or close the
\* games window, or start a game from it, even when an event before it did:
\* keys go to a closing window that still has the focus.  The pump drains the
\* queue whatever the events do to is_gui_active.
Pump(t) ==
    /\ Pumping(t)
    /\ queue > 0 /\ queue' = queue - 1
    /\ \/ Goto(t, "pump") /\ UNCHANGED desktop
       \/ /\ games_window = "closed" /\ games_window' = "open"
          /\ Goto(t, "pump") /\ UNCHANGED <<apps, launches>>
       \/ /\ games_window # "closed" /\ launches < MaxLaunches
          /\ games_window' = "closing" /\ apps' = apps + 1 /\ launches' = launches + 1
          /\ Goto(t, "launch")
    /\ UNCHANGED <<keyboard, flags, s_kb_head, s_kb_tail, keymap, arcade, game, whole>>

\* The queue is empty.  The main loop then draws, if the desktop has the screen:
\* the closing window goes, and so do the applications that are done.
Idle(t) ==
    /\ Pumping(t) /\ queue = 0
    /\ Back(t)
    /\ IF t = "main" /\ is_gui_active
       THEN /\ games_window' = IF games_window = "closing" THEN "closed" ELSE games_window
            /\ apps' = IF done THEN 0 ELSE apps
       ELSE UNCHANGED <<games_window, apps>>
    /\ UNCHANGED <<keyboard, flags, rings, keymap, arcade, launches, game, whole>>

\* Without the desktop, get_char takes a scancode from the raw ring.
Look(t) ==
    /\ Reading(t) /\ ~is_gui_active /\ s_kb_head # s_kb_tail
    /\ Goto(t, "take")
    /\ UNCHANGED <<keyboard, flags, rings, keymap, arcade, desktop, game, whole>>

Take(t) ==
    /\ where[t] = "take"
    /\ s_kb_tail' = NextIndex(s_kb_tail)
    /\ Back(t)
    /\ UNCHANGED <<keyboard, flags, queue, s_kb_head, keymap, arcade, desktop, game, whole>>

-----------------------------------------------------------------------------
(* launch_arcade_game_async, statement by statement *)

Launch(t) ==
    /\ \/ /\ where[t] = "launch" /\ is_gui_active' = FALSE /\ Goto(t, "mark")
          /\ UNCHANGED <<arcade, game>>
       \/ /\ where[t] = "mark" /\ done' = FALSE /\ Goto(t, "choose")
          /\ UNCHANGED <<is_gui_active, pending, unspawned, game>>
       \/ /\ where[t] = "choose" /\ pending' \in Games /\ Goto(t, "spawn")
          /\ UNCHANGED <<is_gui_active, done, unspawned, game>>
    /\ UNCHANGED <<keyboard, s_kbd_capture, rings, keymap, desktop, whole>>

\* scheduler_spawn: the thread takes a free slot, or there is none.
Spawn(t) ==
    /\ where[t] = "spawn"
    /\ \/ \E s \in Slots \ Alive : /\ where' = [where EXCEPT ![t] = "pump", ![s] = "start"]
                                   /\ UNCHANGED unspawned
       \/ Alive = Slots /\ unspawned' = TRUE /\ Goto(t, "pump")
    /\ UNCHANGED <<keyboard, flags, rings, keymap, pending, done, desktop, game, whole>>

-----------------------------------------------------------------------------
(* arcade_game_thread *)

\* n = s_arcade_game_pending, then s_arcade_game_pending = -1, then the switch.
Begin(s) ==
    /\ \/ where[s] = "start" /\ game' = [game EXCEPT ![s] = pending] /\ Goto(s, "clear") /\ UNCHANGED pending
       \/ /\ where[s] = "clear" /\ pending' = NoGame /\ UNCHANGED game
          /\ Goto(s, CASE game[s] = "doom" -> "capture"
                       [] game[s] = "classic" -> "play"
                       [] game[s] = NoGame -> "restore")
    /\ UNCHANGED <<keyboard, flags, rings, keymap, done, unspawned, desktop, whole>>

\* kb_game_capture(1).
Capture(s) ==
    /\ where[s] = "capture" /\ Goto(s, "reset")
    /\ s_kbd_capture' = TRUE /\ s_game_buf' = <<>>
    /\ UNCHANGED <<keyboard, is_gui_active, rings, s_key_down, s_ks_ext, arcade, desktop, game, whole>>

\* Mutant of KeysReset: the bitmap is cleared but not the pending prefix.
KeysResetKeepsPrefix(s) ==
    /\ s_key_down' = {} /\ s_game_buf' = <<>> /\ UNCHANGED s_ks_ext
KeysReset(s) ==
    /\ s_key_down' = {} /\ s_ks_ext' = FALSE /\ s_game_buf' = <<>>

\* kb_keystate_reset.
Reset(s) ==
    /\ where[s] = "reset" /\ Goto(s, "play")
    /\ KeysReset(s)
    /\ since' = {} /\ whole' = (due = {} /\ s_kbd_capture)
    /\ UNCHANGED <<held, due, bytes, flags, rings, arcade, desktop, game>>

Processed(b) == b.code = "E0"

\* kb_poll_all, one byte of it: ks_process.
Poll(s) ==
    /\ where[s] = "play" /\ game[s] = "doom" /\ s_game_buf # <<>>
    /\ LET b == Head(s_game_buf)
           k == <<s_ks_ext, b.code>>
       IN  /\ s_ks_ext' = Processed(b)
           /\ s_key_down' = CASE b.code = "E0" -> s_key_down
                              [] b.up /\ b.code # "E0" -> s_key_down \ {k}
                              [] OTHER -> s_key_down \union {k}
    /\ s_game_buf' = Tail(s_game_buf)
    /\ UNCHANGED <<keyboard, flags, rings, arcade, desktop, where, game, whole>>

\* The player leaves; doom gives the keyboard back: kb_game_capture(0).
Quit(s) ==
    /\ where[s] = "play" /\ Goto(s, "restore")
    /\ IF game[s] = "doom" THEN s_kbd_capture' = FALSE /\ s_game_buf' = <<>> /\ whole' = FALSE
                           ELSE UNCHANGED <<s_kbd_capture, s_game_buf, whole>>
    /\ UNCHANGED <<keyboard, is_gui_active, rings, s_key_down, s_ks_ext, arcade, desktop, game>>

\* Mutant of Finish: the desktop gets its input back only if no game was marked done.
FinishIfUndone(s) ==
    /\ \/ /\ where[s] = "restore" /\ is_gui_active' = (is_gui_active \/ ~done) /\ Goto(s, "signal")
          /\ UNCHANGED done
       \/ /\ where[s] = "signal" /\ done' = TRUE /\ Goto(s, "free") /\ UNCHANGED is_gui_active
    /\ game' = [game EXCEPT ![s] = NoGame]
    /\ UNCHANGED <<keyboard, s_kbd_capture, rings, keymap, pending, unspawned, desktop, whole>>

\* is_gui_active = 1, then s_arcade_game_done = 1, and the thread ends.
Finish(s) ==
    /\ \/ where[s] = "restore" /\ is_gui_active' = TRUE /\ Goto(s, "signal") /\ UNCHANGED done
       \/ where[s] = "signal" /\ done' = TRUE /\ Goto(s, "free") /\ UNCHANGED is_gui_active
    /\ game' = [game EXCEPT ![s] = NoGame]
    /\ UNCHANGED <<keyboard, s_kbd_capture, rings, keymap, pending, unspawned, desktop, whole>>

-----------------------------------------------------------------------------
InputNext ==
    \/ \E k \in Keys : Strike(k)
    \/ \E t \in Threads : Pump(t) \/ Idle(t) \/ Look(t) \/ Take(t) \/ Launch(t) \/ Spawn(t)
    \/ \E s \in Slots : Begin(s) \/ Capture(s) \/ Reset(s) \/ Poll(s) \/ Quit(s) \/ Finish(s)

InputSpec == InputInit /\ [][InputNext]_inputVars

-----------------------------------------------------------------------------
(* Properties *)

\* When the games are over, input is the desktop's again and no game is marked
\* running, in whatever order launches and exits interleave, as long as every
\* launch found a slot (kernel.c:9693, 9703).
GuiReturned ==
    (Alive = {} /\ ~unspawned /\ \A t \in Threads : where[t] \in {"loop", "pump", "take", "free"})
        => is_gui_active /\ done /\ ~s_kbd_capture /\ pending = NoGame

\* A game that plays alone, and has read what its ring was given whole, sees
\* exactly the keys that are down of those pressed since it started.
KeysTrue ==
    \A s \in Slots :
        (Alive = {s} /\ game[s] = "doom" /\ where[s] = "play" /\ whole /\ s_game_buf = <<>>)
            => s_key_down = since

\* What both say.
InputRight == GuiReturned /\ KeysTrue

\* "Route IRQ1 directly to kb_buf so the game thread's get_monitor_char()
\* receives keypresses" (kernel.c:9700): while a classic game runs, the keys
\* of the raw ring are its own.
KeysReachGame ==
    [][where["main"] = "take" /\ where'["main"] = "loop" =>
        \A s \in Slots : ~(where[s] = "play" /\ game[s] = "classic")]_inputVars

-----------------------------------------------------------------------------
(***************************************************************************)
(* The mouse of PS2Mouse.cpp: three-byte packets arriving one byte per     *)
(* interrupt, the pointer and the relative motion they become, and the     *)
(* EventQueue (drivers/event.cpp) through which the desktop hears of them. *)
(* Bytes are the numbers on the wire, so that sign, overflow and framing   *)
(* are decoded as in the driver.                                           *)
(***************************************************************************)
CONSTANTS
    Motions,    \* what the hand does between packets: <<dx, dy>>
    Presses,    \* values of the three button bits
    Strays,     \* bytes a slow controller may leave before the first packet
    ScreenW, ScreenH,
    EventMax,   \* events EventQueue can hold
    MaxPackets  \* bound on the packets sent

ASSUME MouseAssumption ==
    /\ Motions \subseteq Int \X Int /\ Presses \subseteq 0 .. 7 /\ Strays \subseteq 0 .. 255
    /\ ScreenW \in Nat \ {0} /\ ScreenH \in Nat \ {0} /\ EventMax \in Nat /\ MaxPackets \in Nat

VARIABLES
    wire,                       \* bytes of the packet being sent
    motion, press,              \* the truth that packet tells
    s_pkt_byte, s_packet,
    s_gui_x, s_gui_y, s_col, s_row, s_buttons,
    s_capture, s_rel,
    mouse_gui,                  \* is_gui_active
    events, prev_buttons,       \* EventQueue: for each event, whether it is of a button, and the buttons
    seen, dropped,              \* buttons as of the last button event handled; an event found no room
    packets, aligned,           \* packets sent; no stray byte passed for the start of a packet
    pointer, moved, taken       \* the motion itself: where it puts the pointer, its sum since the
                                \* capture began, and what the game took of it

truth == <<wire, motion, press, packets, aligned>>
parser == <<s_pkt_byte, s_packet>>
cursor == <<s_gui_x, s_gui_y, s_col, s_row>>
looking == <<s_capture, s_rel, moved, taken>>
queueing == <<events, prev_buttons, dropped>>
mouseVars == <<truth, parser, cursor, s_buttons, looking, mouse_gui, queueing, seen, pointer>>

Within(x, lo, hi) == IF x < lo THEN lo ELSE IF x > hi THEN hi ELSE x
Size(x) == IF x < 0 THEN -x ELSE x
Plus(u, v) == <<u[1] + v[1], u[2] + v[2]>>

Overflows(m) == Size(m[1]) > 255 \/ Size(m[2]) > 255
Bit(b) == IF b THEN 1 ELSE 0
\* What the device sends for motion m with buttons b.
Packet(m, b) == << 8 + b + 16 * Bit(m[1] < 0) + 32 * Bit(m[2] < 0) + 64 * Bit(Overflows(m)),
                   m[1] % 256, m[2] % 256 >>

HasBit(data, bit) == (data \div bit) % 2 = 1

MouseInit ==
    /\ wire \in {<<>>} \union {<<s>> : s \in Strays}
    /\ aligned = \A i \in DOMAIN wire : ~HasBit(wire[i], 8)
    /\ motion = <<0, 0>> /\ press = 0 /\ packets = 0
    /\ s_pkt_byte = 0 /\ s_packet = <<0, 0, 0>>
    /\ s_gui_x = ScreenW \div 2 /\ s_gui_y = ScreenH \div 2
    /\ s_col = 40 /\ s_row = 12 /\ s_buttons = 0
    /\ s_capture = FALSE /\ s_rel = <<0, 0>> /\ moved = <<0, 0>> /\ taken = <<0, 0>>
    /\ mouse_gui \in BOOLEAN
    /\ events = <<>> /\ prev_buttons = 0 /\ dropped = FALSE /\ seen = 0
    /\ pointer = <<s_gui_x, s_gui_y>>

-----------------------------------------------------------------------------
(* decoding *)

\* Mutant of Delta: the sign bit is not extended.
DeltaUnsigned(header, sign, data) == data
Delta(header, sign, data) == IF HasBit(header, sign) THEN data - 256 ELSE data

\* The first byte of a packet always has bit 3 set.
Starts(data) == HasBit(data, 8)

Unreliable(header) == HasBit(header, 64) \/ HasBit(header, 128)

\* A fast motion counts twice.
Accelerated(m) == IF Size(m[1]) >= 6 \/ Size(m[2]) >= 6 THEN <<2 * m[1], 2 * m[2]>> ELSE m

\* The pixel the pointer p reaches by the accelerated motion a: y grows downwards.
Reached(p, a) == << Within(p[1] + a[1], 0, ScreenW - 1), Within(p[2] - a[2], 0, ScreenH - 1) >>

\* C division truncates towards zero.
Third(x) == IF x < 0 THEN -((-x) \div 3) ELSE x \div 3

\* event_push_mouse: the event tells whether the buttons changed since the last one.
PushMouse(b) ==
    /\ prev_buttons' = b
    /\ IF Len(events) < EventMax
       THEN events' = Append(events, [button |-> b # prev_buttons, buttons |-> b]) /\ UNCHANGED dropped
       ELSE dropped' = TRUE /\ UNCHANGED events

\* A whole packet p has arrived.
HandlePacket(p) ==
    LET d == << Delta(p[1], 16, p[2]), Delta(p[1], 32, p[3]) >>
        a == Accelerated(d)
        b == p[1] % 8
        to == Reached(<<s_gui_x, s_gui_y>>, a)
    IN  IF Unreliable(p[1]) THEN UNCHANGED <<cursor, s_buttons, s_rel, queueing>>
        ELSE /\ s_buttons' = b
             /\ IF s_capture
                THEN s_rel' = Plus(s_rel, d) /\ UNCHANGED <<cursor, queueing>>
                ELSE /\ s_gui_x' = to[1] /\ s_gui_y' = to[2]
                     /\ UNCHANGED s_rel
                     /\ IF mouse_gui
                        THEN PushMouse(b) /\ UNCHANGED <<s_col, s_row>>
                        ELSE /\ s_col' = Within(s_col + Third(a[1]), 0, 79)
                             /\ s_row' = Within(s_row - Third(a[2]), 3, 23)
                             /\ UNCHANGED queueing

\* PS2Mouse::handle_irq, for the next byte on the wire; with the last byte of a
\* packet the hand's motion has been told.
HandleByte ==
    /\ wire # <<>>
    /\ wire' = Tail(wire)
    /\ LET data == Head(wire)
           p == [s_packet EXCEPT ![s_pkt_byte + 1] = data]
       IN  IF s_pkt_byte = 0 /\ ~Starts(data)
           THEN UNCHANGED <<parser, cursor, s_buttons, s_rel, queueing>>
           ELSE /\ s_packet' = p
                /\ s_pkt_byte' = (s_pkt_byte + 1) % 3
                /\ IF s_pkt_byte < 2 THEN UNCHANGED <<cursor, s_buttons, s_rel, queueing>>
                                     ELSE HandlePacket(p)
    /\ IF Len(wire) > 1 \/ packets = 0 \/ Overflows(motion) THEN UNCHANGED <<moved, pointer>>
       ELSE IF s_capture THEN moved' = Plus(moved, motion) /\ UNCHANGED pointer
       ELSE pointer' = Reached(pointer, Accelerated(motion)) /\ UNCHANGED moved
    /\ UNCHANGED <<motion, press, packets, aligned, s_capture, taken, mouse_gui, seen>>

-----------------------------------------------------------------------------
(* the hand, the desktop and the game *)

Move(m, b) ==
    /\ wire = <<>> /\ packets < MaxPackets
    /\ wire' = Packet(m, b) /\ motion' = m /\ press' = b /\ packets' = packets + 1
    /\ UNCHANGED <<aligned, parser, cursor, s_buttons, looking, mouse_gui, queueing, seen, pointer>>

PopEvent ==
    /\ mouse_gui /\ events # <<>>
    /\ events' = Tail(events)
    /\ seen' = IF Head(events).button THEN Head(events).buttons ELSE seen
    /\ UNCHANGED <<truth, parser, cursor, s_buttons, looking, mouse_gui, prev_buttons, dropped, pointer>>

\* Games take the desktop's place and give it back.
SwitchGui ==
    /\ ~s_capture /\ mouse_gui' = ~mouse_gui
    /\ UNCHANGED <<truth, parser, cursor, s_buttons, looking, queueing, seen, pointer>>

\* game_mouse_capture(on).
SetCapture(on) ==
    /\ ~mouse_gui /\ s_capture # on
    /\ s_capture' = on /\ s_rel' = <<0, 0>> /\ moved' = <<0, 0>> /\ taken' = <<0, 0>>
    /\ UNCHANGED <<truth, parser, cursor, s_buttons, mouse_gui, queueing, seen, pointer>>

\* Mutant of TakeRel: the sum is read but not cleared.
TakeRelKeeps ==
    /\ s_capture /\ s_rel # <<0, 0>>
    /\ taken' = Plus(taken, s_rel) /\ UNCHANGED s_rel
    /\ UNCHANGED <<truth, parser, cursor, s_buttons, s_capture, moved, mouse_gui, queueing, seen, pointer>>

\* game_mouse_take_rel reads and clears the sum with interrupts off.
TakeRel ==
    /\ s_capture /\ s_rel # <<0, 0>>
    /\ taken' = Plus(taken, s_rel) /\ s_rel' = <<0, 0>>
    /\ UNCHANGED <<truth, parser, cursor, s_buttons, s_capture, moved, mouse_gui, queueing, seen, pointer>>

MouseNext ==
    \/ HandleByte
    \/ \E m \in Motions, b \in Presses : Move(m, b)
    \/ PopEvent \/ SwitchGui \/ TakeRel
    \/ \E on \in BOOLEAN : SetCapture(on)

MouseSpec == MouseInit /\ [][MouseNext]_mouseVars

-----------------------------------------------------------------------------
(* Properties *)

\* Between packets, unless a stray byte passed for the start of one, the pointer
\* is where the motions so far put it and a game that captures the mouse has
\* taken, or will take, their exact sum.  Motions too fast for a packet do not
\* count (PS2Mouse.cpp:178).
MotionExact ==
    (wire = <<>> /\ aligned) => /\ <<s_gui_x, s_gui_y>> = pointer
                                /\ s_pkt_byte = 0
                                /\ s_capture => Plus(taken, s_rel) = moved

\* Once the desktop has handled its events, and none was dropped, it has been
\* told of the buttons as they were when it was last told anything
\* (drivers/event.cpp:41).
ButtonsTold == (events = <<>> /\ ~dropped) => seen = prev_buttons

MouseRight == MotionExact /\ ButtonsTold

\* Key presses and motions arrive as they were made, at whom they are meant for.
DevicesRight == InputRight /\ MouseRight
=============================================================================
