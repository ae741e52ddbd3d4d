--------------------------- MODULE WindowManager ---------------------------
(***************************************************************************)
(* The window list of drivers/window_manager.cpp: order, focus, popups and *)
(* the deferred purge, with the windows that take part in it: login,       *)
(* terminals (which take over TTY0), the menus, the file manager and its   *)
(* viewers, the casino, and the rest, called tools.                        *)
(*                                                                         *)
(* The main thread dispatches one event after another and draws in         *)
(* between, also in the middle of a casino game, so an event and a draw    *)
(* are one action each.  The geometry of windows is not modelled: a click  *)
(* lands on any visible window, on the task bar, or on the bare desktop.   *)
(***************************************************************************)
EXTENDS Integers, FiniteSets

CONSTANTS
    Ids,        \* window objects, used again once freed
    Null,       \* a null pointer
    Ambient,    \* the emulator g_tty0, which no window owns
    Apps        \* the kinds of windows the user can open

ASSUME WindowAssumption ==
    /\ Null \notin Ids /\ Ambient \notin Ids \union {Null}
    /\ Apps \subseteq {"terminal", "files", "casino", "tool"}

Popups == {"start", "context"}
Titled == Apps \union {"terminal", "tool"}   \* menus and the login window have no title
Kinds == Titled \union Popups \union {"login", "free"}

\* The openers that call set_focused(true); of the tools some do.
FocusedAtFirst(kind) ==
    CASE kind \in {"login", "terminal"} -> {TRUE}
      [] kind = "tool" -> BOOLEAN
      [] OTHER -> {FALSE}

VARIABLES
    windows_,       \* the order of the list: <<i, j>> if i is j or comes before it
    win,            \* kind, _visible, focused_ and close_req_ of each object
    m_start_menu, m_context_menu,   \* raw pointers to the popups
    s_tty0,         \* the terminal the shell writes to: a window's, Ambient or Null
    g_login_done, gui_mode

popups == <<m_start_menu, m_context_menu>>
login == <<g_login_done, gui_mode>>
vars == <<windows_, win, popups, s_tty0, login>>

Free == [kind |-> "free", visible |-> FALSE, focused |-> FALSE, closing |-> FALSE]
New(k, f) == [kind |-> k, visible |-> TRUE, focused |-> f, closing |-> FALSE]
\* The Window objects in the list.
Open == {i \in Ids : <<i, i>> \in windows_}

\* Boot: the login window is the only one.
Init ==
    /\ \E i \in Ids : /\ windows_ = {<<i, i>>}
                      /\ win = [j \in Ids |-> IF j = i THEN New("login", TRUE) ELSE Free]
    /\ m_start_menu = Null /\ m_context_menu = Null
    /\ s_tty0 = Null
    /\ g_login_done = FALSE /\ gui_mode = FALSE

-----------------------------------------------------------------------------
(* what handlers do to windows; each is a function of the windows w *)

Closing(w, P) == [j \in Ids |-> IF j \in P THEN [w[j] EXCEPT !.closing = TRUE] ELSE w[j]]
Unfocused(w, i) == [j \in Ids |-> IF j = i THEN [w[j] EXCEPT !.focused = FALSE] ELSE w[j]]
\* Mutant of Minimized: the hidden window keeps the focus.
MinimizedFocused(w, i) ==
    [j \in Ids |-> IF j = i THEN [w[j] EXCEPT !.visible = FALSE] ELSE w[j]]
Minimized(w, i) == [j \in Ids |-> IF j = i THEN [w[j] EXCEPT !.visible = FALSE, !.focused = FALSE]
                                            ELSE w[j]]
OnlyFocus(w, i) == [j \in Ids |-> [w[j] EXCEPT !.focused = (j = i)]]
Restored(w, i) == [j \in Ids |-> IF j = i THEN [w[j] EXCEPT !.visible = TRUE] ELSE w[j]]
\* The list s without the windows P, and with i at its end (on top).
Without(s, P) == {q \in s : q[1] \notin P /\ q[2] \notin P}
Raised(s, i)  == Without(s, {i}) \union {<<j, i>> : j \in {k \in Ids : <<k, k>> \in s} \union {i}}

\* Mutant of Tracked: pointers are not cleared.
TrackedStale(p) == p
\* "Clear stale popup pointers": one whose window is about to go is forgotten.
Tracked(p) == IF p # Null /\ win[p].closing THEN Null ELSE p

\* The topmost focused window: it gets the keys, and Ctrl+Q closes it.
HasKeys(i) == win[i].focused /\ \A j \in Open : win[j].focused => <<j, i>> \in windows_

\* The list, the windows and the popups become those given.
Become(s, w, sm, cm) ==
    /\ windows_' = s /\ win' = w
    /\ m_start_menu' = sm /\ m_context_menu' = cm

\* A new window of kind k joins the list: open_*_window, add_window.
\* A terminal is installed as TTY0.
Opened(k, s, w, sm, cm) ==
    \E i \in Ids \ Open, f \in FocusedAtFirst(k) :
        /\ Become(Raised(s, i), [w EXCEPT ![i] = New(k, f)], sm, cm)
        /\ s_tty0' = IF k = "terminal" THEN i ELSE s_tty0

-----------------------------------------------------------------------------
(* WindowManager::dispatch_event *)

\* A window opens another: the casino its poker table; the file manager a
\* viewer or an editor, to which it gives the focus.
OpenFrom(i, s, w, sm, cm) ==
    \/ /\ w[i].kind = "casino"
       /\ Opened("tool", s, w, sm, cm)
    \/ /\ w[i].kind = "files"
       /\ \E j \in Ids \ Open :
            Become(Raised(s, j), [Unfocused(w, i) EXCEPT ![j] = New("tool", TRUE)], sm, cm)
       /\ UNCHANGED s_tty0

\* An item of a menu opens its window and closes the menu.
ChooseItem(i, s, w, sm, cm) ==
    /\ w[i].kind \in Popups
    /\ \E k \in Apps : Opened(k, s, Closing(w, {i}), sm, cm)

\* A click on a titled window: close it (games also start by closing their
\* window), minimize it, or something that stays inside.
UseFrame(i, s, w, sm, cm) ==
    /\ \E v \in {w} \union (IF w[i].kind \in Titled
                            THEN {Closing(w, {i}), Minimized(w, i)} ELSE {}) :
         Become(s, v, sm, cm)
    /\ UNCHANGED s_tty0

Above(i) == {j \in Open \ {i} : <<i, j>> \in windows_}

\* The login window fills the screen.
Locked(S) == \E j \in S : win[j].kind = "login" /\ win[j].visible

\* Whether a click on window i is also inside the popup p: always on the popup
\* itself, possibly where the window lies over it.
Inside(p, i) == {p = i} \union (IF p # Null /\ i \in Above(p) THEN {TRUE} ELSE {})

\* A left click on window i: popups it is outside of are dismissed, the window
\* gets the focus and is raised, then it handles the click.
ClickWindow(i) ==
    LET sm == Tracked(m_start_menu)
        cm == Tracked(m_context_menu)
    IN  /\ win[i].visible /\ ~Locked(Above(i))
        /\ \E inS \in Inside(sm, i), inC \in Inside(cm, i) :
             LET keptS == IF inS THEN sm ELSE Null
                 keptC == IF inC THEN cm ELSE Null
                 gone  == {sm, cm} \ {keptS, keptC}
                 w == OnlyFocus(Closing(win, gone), i)
                 s == Raised(windows_, i)
             IN  \/ OpenFrom(i, s, w, keptS, keptC)
                 \/ ChooseItem(i, s, w, keptS, keptC)
                 \/ UseFrame(i, s, w, keptS, keptC)
        /\ UNCHANGED login

\* A left click on the bare desktop dismisses the popups, and may open an
\* icon's window; focus stays where it was.
ClickDesktop ==
    LET w == Closing(win, {Tracked(m_start_menu), Tracked(m_context_menu)})
    IN  /\ ~Locked(Open)
        /\ \/ \E k \in Apps : Opened(k, windows_, w, Null, Null)
           \/ Become(windows_, w, Null, Null) /\ UNCHANGED s_tty0
        /\ UNCHANGED login

\* open_context_menu: an older one is dismissed, the start menu stays.
RightClickDesktop ==
    /\ ~Locked(Open)
    /\ \E i \in Ids \ Open :
         Become(Raised(windows_, i),
                [Closing(win, {Tracked(m_context_menu)}) EXCEPT ![i] = New("context", FALSE)],
                Tracked(m_start_menu), i)
    /\ UNCHANGED <<s_tty0, login>>

\* Mutant of Toggled: the open menu is not closed first.
ToggledOpen(w, sm) ==
    \E i \in Ids \ Open :
        Become(Raised(windows_, i), [w EXCEPT ![i] = New("start", FALSE)], i, Null)
\* toggle_start_menu.
Toggled(w, sm) ==
    \/ sm # Null /\ Become(windows_, Closing(w, {sm}), Null, Null)
    \/ /\ sm = Null
       /\ \E i \in Ids \ Open :
            Become(Raised(windows_, i), [w EXCEPT ![i] = New("start", FALSE)], i, Null)

\* taskbar_window_click: the button of a window that is shown and focused hides
\* it, any other button shows its window, focuses and raises it.
Button(w, i, sm) ==
    /\ w[i].kind \in Titled
    /\ IF w[i].visible /\ w[i].focused
       THEN Become(windows_, Minimized(w, i), sm, Null)
       ELSE Become(Raised(windows_, i), OnlyFocus(Restored(w, i), i), sm, Null)

\* A left click on the task bar: Start, a window's button, or beside them.
ClickTaskbar ==
    LET w  == Closing(win, {Tracked(m_context_menu)})
        sm == Tracked(m_start_menu)
    IN  /\ \/ Toggled(w, sm)
           \/ \E i \in Open : Button(w, i, sm)
           \/ Become(windows_, Closing(w, {sm}), Null, Null)
        /\ UNCHANGED <<s_tty0, login>>

\* cycle_focus: the search starts behind the lowest focused window, or behind
\* the lowest one, wraps around, and passes hidden and untitled windows by.
Eligible(i) == win[i].visible /\ win[i].kind \in Titled
FocusedAt == {i \in Open : win[i].focused}
Start == LET S == IF FocusedAt = {} THEN Open ELSE FocusedAt
         IN  CHOOSE i \in S : \A j \in S : <<i, j>> \in windows_
Sooner(i, j) == IF (i \in Above(Start)) = (j \in Above(Start)) THEN <<i, j>> \in windows_
                ELSE i \in Above(Start)

CycleFocus ==
    \E i \in Open :
        /\ Eligible(i) /\ \A j \in Open : Eligible(j) => Sooner(i, j)
        /\ windows_' = Raised(windows_, i)
        /\ win' = OnlyFocus(win, i)

AltTab ==
    /\ \/ CycleFocus
       \/ (\A i \in Open : ~Eligible(i)) /\ UNCHANGED <<windows_, win>>
    /\ m_start_menu' = Tracked(m_start_menu) /\ m_context_menu' = Tracked(m_context_menu)
    /\ UNCHANGED <<s_tty0, login>>

CtrlQ ==
    /\ \E w \in {Closing(win, {i}) : i \in {j \in Open : HasKeys(j)}}
                 \union (IF \A i \in Open : ~win[i].focused THEN {win} ELSE {}) :
         Become(windows_, w, Tracked(m_start_menu), Tracked(m_context_menu))
    /\ UNCHANGED <<s_tty0, login>>

\* route_key: handle_char of the window that has the keys.  All titled windows
\* but terminals close at Escape; the right password ends the login.
Key ==
    LET sm == Tracked(m_start_menu)
        cm == Tracked(m_context_menu)
    IN  \E i \in Open :
            /\ HasKeys(i)
            /\ \/ OpenFrom(i, windows_, win, sm, cm) /\ UNCHANGED login
               \/ /\ win[i].kind \in Titled \ {"terminal"}
                  /\ Become(windows_, Closing(win, {i}), sm, cm)
                  /\ UNCHANGED <<s_tty0, login>>
               \/ /\ win[i].kind = "login"
                  /\ g_login_done' = TRUE
                  /\ Become(windows_, Closing(win, {i}), sm, cm)
                  /\ UNCHANGED <<s_tty0, gui_mode>>

-----------------------------------------------------------------------------
(* the main loop *)

\* WindowManager::draw: on_removed and purge of the windows that asked for it;
\* a terminal that is TTY0 gives it back to the ambient emulator.
Draw ==
    LET gone == {i \in Open : win[i].closing}
    IN  /\ Become(Without(windows_, gone),
                  [i \in Ids |-> IF i \in gone THEN Free ELSE win[i]],
                  Tracked(m_start_menu), Tracked(m_context_menu))
        /\ s_tty0' = IF s_tty0 \in gone THEN Ambient ELSE s_tty0
        /\ UNCHANGED login

\* After the login the desktop is set up, once, with a terminal.
DesktopInit ==
    /\ g_login_done /\ ~gui_mode
    /\ gui_mode' = TRUE
    /\ Opened("terminal", windows_, win, m_start_menu, m_context_menu)
    /\ UNCHANGED g_login_done

\* A shell command opens a window.
Command ==
    /\ gui_mode /\ windows_ # {}
    /\ \E k \in Apps \ {"terminal"} : Opened(k, windows_, win, m_start_menu, m_context_menu)
    /\ UNCHANGED login

Dispatch == \/ \E i \in Open : ClickWindow(i)
            \/ ClickDesktop \/ RightClickDesktop \/ ClickTaskbar
            \/ AltTab \/ CtrlQ \/ Key

Next == Dispatch \/ Draw \/ DesktopInit \/ Command

Spec == Init /\ [][Next]_vars

-----------------------------------------------------------------------------
(* Properties *)

\* A window is in the list once, and only while it exists (WindowManager::raise).
TypeOK ==
    /\ windows_ \subseteq Open \X Open
    /\ \A i, j \in Open : <<i, j>> \in windows_ \/ <<j, i>> \in windows_
    /\ \A i, j \in Open : <<i, j>> \in windows_ /\ <<j, i>> \in windows_ => i = j
    /\ \A i, j, k \in Open : <<i, j>> \in windows_ /\ <<j, k>> \in windows_ => <<i, k>> \in windows_
    /\ win \in [Ids -> [kind : Kinds, visible : BOOLEAN, focused : BOOLEAN, closing : BOOLEAN]]
    /\ \A i \in Ids : IF i \in Open THEN win[i].kind # "free" ELSE win[i] = Free
    /\ {m_start_menu, m_context_menu} \subseteq Ids \union {Null}
    /\ s_tty0 \in Ids \union {Null, Ambient}
    /\ g_login_done \in BOOLEAN /\ gui_mode \in BOOLEAN

\* The raw pointers m_start_menu, m_context_menu and TTY0 never name a window
\* that was freed, or another object built in its place: draw and dispatch_event
\* forget the popups, and on_removed gives TTY0 back, before the purge
\* (window_manager.cpp:511, TerminalWindow.cpp:47).
PointersLive ==
    /\ m_start_menu # Null => win[m_start_menu].kind = "start"
    /\ m_context_menu # Null => win[m_context_menu].kind = "context"
    /\ s_tty0 \in Ids => win[s_tty0].kind = "terminal"

\* A menu that stays on the screen is one the manager tracks, so that the next
\* click outside dismisses it: no second menu is left behind
\* (window_manager.cpp:448, "only track it if it actually joined the list").
PopupsTracked ==
    \A i \in Open : win[i].kind \in Popups /\ ~win[i].closing
                      => i \in {m_start_menu, m_context_menu}

\* The manager's pointers and the popups name each other.
PopupsKnown == PointersLive /\ PopupsTracked

\* Keys never go to a hidden window: every way of hiding one takes its focus
\* away, and Alt+Tab passes hidden windows by.
KeysAreSeen == \A i \in Open : win[i].focused => win[i].visible

\* "Alt-Tab: focus + raise the next visible, non-popup window"
\* (WindowManager.hpp:64): while one window has the focus, the keys move to
\* another whenever there is one.  (With two focused windows, which openers
\* leave behind, the next one can be the one that had the keys.)
AltTabMoves ==
    [][AltTab /\ (\E i \in Open : FocusedAt = {i})
         => \/ \A i \in Open : HasKeys(i) => ~HasKeys(i)'
            \/ \A i \in Open : Eligible(i) => win[i].focused]_vars
=============================================================================
