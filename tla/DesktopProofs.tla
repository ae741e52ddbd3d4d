--------------------------- MODULE DesktopProofs ---------------------------
(***************************************************************************)
(* Proofs about the window manager: whatever is clicked, typed or opened,  *)
(* its list, its raw pointers and its windows agree.  What a handler does  *)
(* is a chain of few changes of the list and the windows; each of them     *)
(* keeps Good, and the lemmas about the handlers put them together.        *)
(* Then proofs about the keyboard and the mouse: the input comes back to   *)
(* the desktop, keys and motions arrive as they were made.  Then about the *)
(* library: the ring between an interrupt and the main loop, the blocks    *)
(* strings own.  Last about the browser: its buffers, its history, what is *)
(* on the screen.                                                          *)
(***************************************************************************)
EXTENDS WindowManager, InputDevices, GregLibrary, WebPages, TLAPS, SequenceTheorems,
        FiniteSetTheorems

-----------------------------------------------------------------------------
(* The order of the list *)

In(s) == {i \in Ids : <<i, i>> \in s}

\* s is a total order of the windows it names.
Ordered(s) ==
    /\ s \subseteq In(s) \X In(s)
    /\ \A i, j \in In(s) : <<i, j>> \in s \/ <<j, i>> \in s
    /\ \A i, j \in In(s) : <<i, j>> \in s /\ <<j, i>> \in s => i = j
    /\ \A i, j, k \in In(s) : <<i, j>> \in s /\ <<j, k>> \in s => <<i, k>> \in s

\* What is where after a window was raised or added.
LEMMA RaisedIs ==
    ASSUME NEW s, NEW x, NEW i, NEW j
    PROVE  <<i, j>> \in Raised(s, x) <=> \/ <<i, j>> \in s /\ i # x /\ j # x
                                         \/ j = x /\ (i = x \/ (i \in Ids /\ <<i, i>> \in s))
  BY DEF Raised, Without

\* A list stays in order when a window is raised or added.
LEMMA RaisedOrdered ==
    ASSUME NEW s, Ordered(s), NEW x \in Ids
    PROVE  Ordered(Raised(s, x)) /\ In(Raised(s, x)) = In(s) \union {x}
<1>1. \A i, j : <<i, j>> \in Raised(s, x) <=> \/ <<i, j>> \in s /\ i # x /\ j # x
                                              \/ j = x /\ (i = x \/ i \in In(s))
  BY RaisedIs DEF In
<1>2. In(Raised(s, x)) = In(s) \union {x}
  BY <1>1 DEF In
<1>3. PICK N : N = In(s) \union {x}
  OBVIOUS
<1>4. PICK r : r = Raised(s, x)
  OBVIOUS
<1>5. r \subseteq N \X N
  <2>1. ASSUME NEW q \in r
        PROVE  q \in N \X N
    <3>1. CASE q \in s
      BY <1>3, <3>1 DEF Ordered
    <3>2. CASE q \notin s
      <4>1. q \in {<<j, x>> : j \in {k \in Ids : <<k, k>> \in s} \union {x}}
        BY <1>4, <2>1, <3>2 DEF Raised, Without
      <4>2. PICK j \in N : q = <<j, x>>
        BY <1>3, <4>1 DEF In
      <4>3. x \in N
        BY <1>3
      <4> QED
        BY <4>2, <4>3
    <3> QED
      BY <3>1, <3>2
  <2> QED
    BY <2>1
<1>6. \A i, j \in N : <<i, j>> \in r \/ <<j, i>> \in r
  BY <1>1, <1>3, <1>4 DEF Ordered
<1>7. \A i, j \in N : <<i, j>> \in r /\ <<j, i>> \in r => i = j
  BY <1>1, <1>3, <1>4 DEF Ordered
<1>8. \A i, j, k \in N : <<i, j>> \in r /\ <<j, k>> \in r => <<i, k>> \in r
  BY <1>1, <1>3, <1>4 DEF Ordered
<1> QED
  BY <1>2, <1>3, <1>4, <1>5, <1>6, <1>7, <1>8 DEF Ordered

\* Nor do removals disturb it.
LEMMA WithoutOrdered ==
    ASSUME NEW s, Ordered(s), NEW P
    PROVE  Ordered(Without(s, P)) /\ In(Without(s, P)) = In(s) \ P
<1>1. \A i, j : <<i, j>> \in Without(s, P) <=> <<i, j>> \in s /\ i \notin P /\ j \notin P
  BY DEF Without
<1>2. In(Without(s, P)) = In(s) \ P
  BY <1>1 DEF In
<1>3. PICK N : N = In(s) \ P
  OBVIOUS
<1>4. PICK r : r = Without(s, P)
  OBVIOUS
<1>5. r \subseteq N \X N
  <2>1. ASSUME NEW q \in r
        PROVE  q \in N \X N
    <3>1. q \in In(s) \X In(s) /\ q[1] \notin P /\ q[2] \notin P
      BY <1>4, <2>1 DEF Without, Ordered
    <3> QED
      BY <1>3, <3>1
  <2> QED
    BY <2>1
<1>6. \A i, j \in N : <<i, j>> \in r \/ <<j, i>> \in r
  BY <1>1, <1>3, <1>4 DEF Ordered
<1>7. \A i, j \in N : <<i, j>> \in r /\ <<j, i>> \in r => i = j
  BY <1>1, <1>3, <1>4 DEF Ordered
<1>8. \A i, j, k \in N : <<i, j>> \in r /\ <<j, k>> \in r => <<i, k>> \in r
  BY <1>1, <1>3, <1>4 DEF Ordered
<1> QED
  BY <1>2, <1>3, <1>4, <1>5, <1>6, <1>7, <1>8 DEF Ordered

-----------------------------------------------------------------------------
(* The invariant, of any list, windows and popups *)

Window == [kind : Kinds, visible : BOOLEAN, focused : BOOLEAN, closing : BOOLEAN]

\* The list s shows the windows w that exist, and none that is hidden has the focus.
Shown(s, w) ==
    /\ Ordered(s)
    /\ w \in [Ids -> Window]
    /\ \A i \in In(s) : w[i].kind # "free" /\ (w[i].focused => w[i].visible)
    /\ \A i \in Ids \ In(s) : w[i] = Free

\* sm and cm are the popups among the windows w, and no other stays.
Menus(s, w, sm, cm) ==
    /\ sm \in Ids \union {Null} /\ cm \in Ids \union {Null}
    /\ sm # Null => w[sm].kind = "start"
    /\ cm # Null => w[cm].kind = "context"
    /\ \A i \in In(s) : w[i].kind \in Popups /\ ~w[i].closing => i = sm \/ i = cm

\* t is a terminal, or no window.
Writes(t, w) ==
    /\ t \in Ids \union {Null, Ambient}
    /\ t \in Ids => w[t].kind = "terminal"

Good(s, w, sm, cm, t) == Shown(s, w) /\ Menus(s, w, sm, cm) /\ Writes(t, w)

DesktopInv ==
    /\ Good(windows_, win, m_start_menu, m_context_menu, s_tty0)
    /\ g_login_done \in BOOLEAN /\ gui_mode \in BOOLEAN

\* The windows v are the windows w, some of them asked to close since.
Later(w, v) == \A i \in Ids : v[i].kind = w[i].kind /\ (w[i].closing => v[i].closing)

\* Whatever else happens to the windows, a popup is forgotten only when it is
\* about to go.
LEMMA LaterGood ==
    ASSUME NEW s, NEW w, NEW sm, NEW cm, NEW t, Good(s, w, sm, cm, t),
           NEW r, NEW v, Shown(r, v), In(r) = In(s), Later(w, v),
           NEW a \in {sm, Null}, sm # a => v[sm].closing,
           NEW b \in {cm, Null}, cm # b => v[cm].closing
    PROVE  Good(r, v, a, b, t)
<1>1. In(s) \subseteq Ids
  BY DEF In
<1>2. a \in Ids \union {Null} /\ b \in Ids \union {Null}
  BY DEF Good, Menus
<1>3. a # Null => v[a].kind = "start"
  BY <1>2 DEF Good, Menus, Later
<1>4. b # Null => v[b].kind = "context"
  BY <1>2 DEF Good, Menus, Later
<1>5. \A i \in In(r) : v[i].kind \in Popups /\ ~v[i].closing => i = a \/ i = b
  BY <1>1 DEF Good, Menus, Later
<1>6. Menus(r, v, a, b)
  BY <1>2, <1>3, <1>4, <1>5 DEF Menus
<1>7. Writes(t, v)
  BY DEF Good, Writes, Later
<1> QED
  BY <1>6, <1>7 DEF Good

\* request_close of some windows.
LEMMA ClosingShown ==
    ASSUME NEW s, NEW w, Shown(s, w), NEW P, P \subseteq In(s) \union {Null}
    PROVE  /\ Shown(s, Closing(w, P)) /\ Later(w, Closing(w, P))
           /\ \A i \in P : i # Null => Closing(w, P)[i].closing
           /\ \A i \in Ids : /\ Closing(w, P)[i].visible = w[i].visible
                             /\ Closing(w, P)[i].focused = w[i].focused
<1>1. PICK v : v = Closing(w, P)
  OBVIOUS
<1>2. \A i \in Ids : v[i] = IF i \in P THEN [w[i] EXCEPT !.closing = TRUE] ELSE w[i]
  BY <1>1 DEF Closing
<1>3. \A i \in Ids : w[i] \in Window
  BY DEF Shown
<1>4. \A i \in Ids : /\ v[i] \in Window /\ v[i].kind = w[i].kind
                     /\ v[i].visible = w[i].visible /\ v[i].focused = w[i].focused
  BY <1>2, <1>3 DEF Window
<1>5. \A i \in Ids : (i \in P => v[i].closing) /\ (i \notin P => v[i] = w[i])
  BY <1>2, <1>3 DEF Window
<1>6. v \in [Ids -> Window]
  <2>1. v = [j \in Ids |-> v[j]]
    BY <1>1 DEF Closing
  <2> QED
    BY <1>4, <2>1
<1>7. In(s) \subseteq Ids
  BY DEF In
<1>8. \A i \in Ids : i \in P => i \in In(s)
  BY WindowAssumption
<1>9. Shown(s, v)
  BY <1>4, <1>5, <1>6, <1>7, <1>8 DEF Shown
<1>10. Later(w, v)
  BY <1>4, <1>5 DEF Later
<1>11. \A i \in P : i # Null => v[i].closing
  BY <1>5, <1>7
<1> QED
  BY <1>1, <1>4, <1>9, <1>10, <1>11

\* minimize.
LEMMA MinimizedShown ==
    ASSUME NEW s, NEW w, Shown(s, w), NEW x \in In(s)
    PROVE  Shown(s, Minimized(w, x)) /\ Later(w, Minimized(w, x))
<1>1. PICK v : v = Minimized(w, x)
  OBVIOUS
<1>2. \A i \in Ids : v[i] = IF i = x THEN [w[i] EXCEPT !.visible = FALSE, !.focused = FALSE] ELSE w[i]
  BY <1>1 DEF Minimized
<1>3. \A i \in Ids : w[i] \in Window
  BY DEF Shown
<1>4. \A i \in Ids : v[i] \in Window /\ v[i].kind = w[i].kind /\ v[i].closing = w[i].closing
  BY <1>2, <1>3 DEF Window
<1>5. \A i \in Ids : (i = x => ~v[i].focused) /\ (i # x => v[i] = w[i])
  BY <1>2, <1>3 DEF Window
<1>6. v \in [Ids -> Window]
  <2>1. v = [j \in Ids |-> v[j]]
    BY <1>1 DEF Minimized
  <2> QED
    BY <1>4, <2>1
<1>7. In(s) \subseteq Ids
  BY DEF In
<1>8. Shown(s, v)
  BY <1>4, <1>5, <1>6, <1>7 DEF Shown
<1> QED
  BY <1>1, <1>4, <1>8 DEF Later

\* A window loses the focus to one it opens.
LEMMA UnfocusedShown ==
    ASSUME NEW s, NEW w, Shown(s, w), NEW x \in In(s)
    PROVE  Shown(s, Unfocused(w, x)) /\ Later(w, Unfocused(w, x))
<1>1. PICK v : v = Unfocused(w, x)
  OBVIOUS
<1>2. \A i \in Ids : v[i] = IF i = x THEN [w[i] EXCEPT !.focused = FALSE] ELSE w[i]
  BY <1>1 DEF Unfocused
<1>3. \A i \in Ids : w[i] \in Window
  BY DEF Shown
<1>4. \A i \in Ids : v[i] \in Window /\ v[i].kind = w[i].kind /\ v[i].closing = w[i].closing
  BY <1>2, <1>3 DEF Window
<1>5. \A i \in Ids : (i = x => ~v[i].focused) /\ (i # x => v[i] = w[i])
  BY <1>2, <1>3 DEF Window
<1>6. v \in [Ids -> Window]
  <2>1. v = [j \in Ids |-> v[j]]
    BY <1>1 DEF Unfocused
  <2> QED
    BY <1>4, <2>1
<1>7. In(s) \subseteq Ids
  BY DEF In
<1>8. Shown(s, v)
  BY <1>4, <1>5, <1>6, <1>7 DEF Shown
<1> QED
  BY <1>1, <1>4, <1>8 DEF Later

\* A window that was hidden is shown again.
LEMMA RestoredShown ==
    ASSUME NEW s, NEW w, Shown(s, w), NEW x \in In(s)
    PROVE  /\ Shown(s, Restored(w, x)) /\ Later(w, Restored(w, x))
           /\ Restored(w, x)[x].visible
<1>1. PICK v : v = Restored(w, x)
  OBVIOUS
<1>2. \A i \in Ids : v[i] = IF i = x THEN [w[i] EXCEPT !.visible = TRUE] ELSE w[i]
  BY <1>1 DEF Restored
<1>3. \A i \in Ids : w[i] \in Window
  BY DEF Shown
<1>4. \A i \in Ids : v[i] \in Window /\ v[i].kind = w[i].kind /\ v[i].closing = w[i].closing
  BY <1>2, <1>3 DEF Window
<1>5. \A i \in Ids : (i = x => v[i].visible) /\ (i # x => v[i] = w[i])
  BY <1>2, <1>3 DEF Window
<1>6. v \in [Ids -> Window]
  <2>1. v = [j \in Ids |-> v[j]]
    BY <1>1 DEF Restored
  <2> QED
    BY <1>4, <2>1
<1>7. In(s) \subseteq Ids
  BY DEF In
<1>8. Shown(s, v)
  BY <1>4, <1>5, <1>6, <1>7 DEF Shown
<1> QED
  BY <1>1, <1>4, <1>5, <1>7, <1>8 DEF Later

\* A window that is shown gets the focus, all others lose it.
LEMMA OnlyFocusShown ==
    ASSUME NEW s, NEW w, Shown(s, w), NEW x \in In(s), w[x].visible
    PROVE  Shown(s, OnlyFocus(w, x)) /\ Later(w, OnlyFocus(w, x))
<1>1. PICK v : v = OnlyFocus(w, x)
  OBVIOUS
<1>2. \A i \in Ids : \/ i = x /\ v[i] = [w[i] EXCEPT !.focused = TRUE]
                     \/ i # x /\ v[i] = [w[i] EXCEPT !.focused = FALSE]
  <2> SUFFICES ASSUME NEW i \in Ids
               PROVE  \/ i = x /\ v[i] = [w[i] EXCEPT !.focused = TRUE]
                      \/ i # x /\ v[i] = [w[i] EXCEPT !.focused = FALSE]
    OBVIOUS
  <2>1. v[i] = [w[i] EXCEPT !.focused = (i = x)]
    BY <1>1 DEF OnlyFocus
  <2>2. CASE i = x
    <3>1. (i = x) = TRUE
      BY <2>2, Zenon
    <3> QED
      BY <2>1, <2>2, <3>1, Zenon
  <2>3. CASE i # x
    <3>1. (i = x) = FALSE
      BY <2>3, Zenon
    <3> QED
      BY <2>1, <2>3, <3>1, Zenon
  <2> QED
    BY <2>2, <2>3
<1>3. \A i \in Ids : w[i] \in Window
  BY DEF Shown
<1>4. \A i \in Ids : v[i] \in Window /\ v[i].kind = w[i].kind /\ v[i].closing = w[i].closing
  <2> SUFFICES ASSUME NEW i \in Ids
               PROVE  v[i] \in Window /\ v[i].kind = w[i].kind /\ v[i].closing = w[i].closing
    OBVIOUS
  <2>1. PICK f \in BOOLEAN : v[i] = [w[i] EXCEPT !.focused = f]
    BY <1>2
  <2>2. w[i] \in Window
    BY <1>3
  <2> QED
    BY <2>1, <2>2 DEF Window
<1>5. \A i \in Ids : i # x => ~v[i].focused
  BY <1>2, <1>3 DEF Window
<1>6. v \in [Ids -> Window]
  <2>1. v = [j \in Ids |-> v[j]]
    BY <1>1 DEF OnlyFocus
  <2> QED
    BY <1>4, <2>1
<1>7. In(s) \subseteq Ids
  BY DEF In
<1>8. v[x].visible
  BY <1>2, <1>3, <1>7 DEF Window
<1>9. \A i \in Ids \ In(s) : v[i] = Free
  <2> SUFFICES ASSUME NEW i \in Ids \ In(s)
               PROVE  v[i] = Free
    OBVIOUS
  <2>1. w[i] = Free /\ i # x
    BY DEF Shown
  <2>2. v[i] = [Free EXCEPT !.focused = FALSE]
    BY <1>2, <2>1
  <2> QED
    BY <2>2 DEF Free
<1>10. Shown(s, v)
  BY <1>4, <1>5, <1>6, <1>7, <1>8, <1>9 DEF Shown
<1> QED
  BY <1>1, <1>4, <1>10 DEF Later

\* Another order of the same windows.
LEMMA Reordered ==
    ASSUME NEW s, NEW w, Shown(s, w), NEW x \in In(s)
    PROVE  Shown(Raised(s, x), w) /\ In(Raised(s, x)) = In(s)
<1>1. x \in Ids
  BY DEF In
<1>2. Ordered(Raised(s, x)) /\ In(Raised(s, x)) = In(s) \union {x}
  BY <1>1, RaisedOrdered DEF Shown
<1>3. In(s) \union {x} = In(s)
  OBVIOUS
<1> QED
  BY <1>2, <1>3 DEF Shown

\* A window joins the list on top; one that is no menu leaves the popups as
\* they are, and a terminal may take over TTY0.
LEMMA AddedGood ==
    ASSUME NEW s, NEW w, NEW sm, NEW cm, NEW t, Good(s, w, sm, cm, t),
           NEW x \in Ids \ In(s), NEW k \in Kinds \ (Popups \union {"free"}), NEW f \in BOOLEAN
    PROVE  /\ Good(Raised(s, x), [w EXCEPT ![x] = New(k, f)], sm, cm, t)
           /\ k = "terminal" => Good(Raised(s, x), [w EXCEPT ![x] = New(k, f)], sm, cm, x)
<1>1. PICK r : r = Raised(s, x)
  OBVIOUS
<1>2. PICK v : v = [w EXCEPT ![x] = New(k, f)]
  OBVIOUS
<1>3. Ordered(r) /\ In(r) = In(s) \union {x}
  BY <1>1, RaisedOrdered DEF Good, Shown
<1>4. w \in [Ids -> Window] /\ In(s) \subseteq Ids
  BY DEF Good, Shown, In
<1>5. v \in [Ids -> Window] /\ v[x] = New(k, f) /\ \A i \in Ids \ {x} : v[i] = w[i]
  <2>1. New(k, f) \in Window
    BY DEF New, Window
  <2> QED
    BY <1>2, <1>4, <2>1
<1>6. v[x].kind = k /\ v[x].visible
  BY <1>5 DEF New
<1>7. \A i \in In(s) : i # x
  OBVIOUS
<1>8. Shown(r, v)
  BY <1>3, <1>4, <1>5, <1>6, <1>7 DEF Good, Shown
<1>9. \A i \in Ids : w[i].kind \in Popups \union {"terminal"} => i # x
  BY DEF Good, Shown, Free, Popups
<1>10. Menus(r, v, sm, cm)
  <2>1. sm \in Ids \union {Null} /\ cm \in Ids \union {Null}
    BY DEF Good, Menus
  <2>2. (sm # Null => v[sm].kind = "start") /\ (cm # Null => v[cm].kind = "context")
    BY <1>5, <1>9, <2>1 DEF Good, Menus, Popups
  <2>3. \A i \in In(r) : v[i].kind \in Popups /\ ~v[i].closing => i = sm \/ i = cm
    BY <1>3, <1>4, <1>5, <1>6 DEF Good, Menus
  <2> QED
    BY <2>1, <2>2, <2>3 DEF Menus
<1>11. Writes(t, v)
  BY <1>5, <1>9 DEF Good, Writes
<1>12. k = "terminal" => Writes(x, v)
  BY <1>6 DEF Writes
<1> QED
  BY <1>1, <1>2, <1>8, <1>10, <1>11, <1>12 DEF Good

\* A menu joins it where none of its kind was tracked.
LEMMA MenuGood ==
    ASSUME NEW s, NEW w, NEW sm, NEW cm, NEW t, Good(s, w, sm, cm, t),
           NEW x \in Ids \ In(s), NEW k \in Popups
    PROVE  /\ k = "start" /\ sm = Null
                => Good(Raised(s, x), [w EXCEPT ![x] = New(k, FALSE)], x, cm, t)
           /\ k = "context" /\ cm = Null
                => Good(Raised(s, x), [w EXCEPT ![x] = New(k, FALSE)], sm, x, t)
<1>1. PICK r : r = Raised(s, x)
  OBVIOUS
<1>2. PICK v : v = [w EXCEPT ![x] = New(k, FALSE)]
  OBVIOUS
<1>3. Ordered(r) /\ In(r) = In(s) \union {x}
  BY <1>1, RaisedOrdered DEF Good, Shown
<1>4. w \in [Ids -> Window] /\ In(s) \subseteq Ids
  BY DEF Good, Shown, In
<1>5. v \in [Ids -> Window] /\ v[x] = New(k, FALSE) /\ \A i \in Ids \ {x} : v[i] = w[i]
  <2>1. New(k, FALSE) \in Window
    BY DEF New, Window, Kinds
  <2> QED
    BY <1>2, <1>4, <2>1
<1>6. v[x].kind = k /\ v[x].visible
  BY <1>5 DEF New
<1>7. \A i \in In(s) : i # x
  OBVIOUS
<1>8. Shown(r, v)
  BY <1>3, <1>4, <1>5, <1>6, <1>7 DEF Good, Shown, Popups
<1>9. \A i \in Ids : w[i].kind \in Popups \union {"terminal"} => i # x
  BY DEF Good, Shown, Free, Popups
<1>10. \A i \in Ids : w[i].kind \in Popups => v[i].kind = w[i].kind
  BY <1>5, <1>9
<1>11. \A i \in In(r) : v[i].kind \in Popups /\ ~v[i].closing => i \in {sm, cm, x}
  BY <1>3, <1>4, <1>5 DEF Good, Menus
<1>12. /\ sm \in Ids \union {Null} /\ cm \in Ids \union {Null}
       /\ (sm # Null => v[sm].kind = "start") /\ (cm # Null => v[cm].kind = "context")
  BY <1>10 DEF Good, Menus, Popups
<1>13. k = "start" /\ sm = Null => Menus(r, v, x, cm)
  BY <1>3, <1>4, <1>6, <1>11, <1>12, WindowAssumption DEF Menus
<1>14. k = "context" /\ cm = Null => Menus(r, v, sm, x)
  BY <1>3, <1>4, <1>6, <1>11, <1>12, WindowAssumption DEF Menus
<1>15. Writes(t, v)
  BY <1>5, <1>9 DEF Good, Writes
<1> QED
  BY <1>1, <1>2, <1>8, <1>13, <1>14, <1>15 DEF Good

-----------------------------------------------------------------------------
(* The steps *)

\* The pointers and windows after the step are as they should be.
GoodAfter == Good(windows_', win', m_start_menu', m_context_menu', s_tty0')

\* A window is opened from a list of the windows that are open.
LEMMA OpenedGood ==
    ASSUME NEW s, NEW w, NEW sm, NEW cm, Good(s, w, sm, cm, s_tty0), In(s) = Open,
           NEW k \in Titled, Opened(k, s, w, sm, cm)
    PROVE  GoodAfter
<1>1. PICK x \in Ids \ Open, f \in FocusedAtFirst(k) :
        /\ Become(Raised(s, x), [w EXCEPT ![x] = New(k, f)], sm, cm)
        /\ s_tty0' = IF k = "terminal" THEN x ELSE s_tty0
  BY DEF Opened
<1>2. k \in Kinds \ (Popups \union {"free"})
  BY WindowAssumption DEF Kinds, Titled, Popups
<1>3. f \in BOOLEAN
  BY <1>2 DEF FocusedAtFirst
<1>4. /\ Good(Raised(s, x), [w EXCEPT ![x] = New(k, f)], sm, cm, s_tty0)
      /\ k = "terminal" => Good(Raised(s, x), [w EXCEPT ![x] = New(k, f)], sm, cm, x)
  BY <1>2, <1>3, AddedGood
<1>5. CASE k = "terminal"
  BY <1>1, <1>4, <1>5 DEF Become, GoodAfter
<1>6. CASE k # "terminal"
  BY <1>1, <1>4, <1>6 DEF Become, GoodAfter
<1> QED
  BY <1>5, <1>6

\* The casino and the file manager open a window.
LEMMA OpenFromGood ==
    ASSUME NEW s, NEW w, NEW sm, NEW cm, Good(s, w, sm, cm, s_tty0), In(s) = Open,
           NEW x \in Open, OpenFrom(x, s, w, sm, cm)
    PROVE  GoodAfter
<1>1. CASE w[x].kind = "casino" /\ Opened("tool", s, w, sm, cm)
  BY <1>1, OpenedGood DEF Titled
<1>2. CASE /\ w[x].kind = "files"
           /\ \E j \in Ids \ Open :
                Become(Raised(s, j), [Unfocused(w, x) EXCEPT ![j] = New("tool", TRUE)], sm, cm)
           /\ UNCHANGED s_tty0
  <2>1. PICK j \in Ids \ Open :
          Become(Raised(s, j), [Unfocused(w, x) EXCEPT ![j] = New("tool", TRUE)], sm, cm)
    BY <1>2
  <2>2. Shown(s, Unfocused(w, x)) /\ Later(w, Unfocused(w, x))
    BY UnfocusedShown DEF Good
  <2>3. Good(s, Unfocused(w, x), sm, cm, s_tty0)
    BY <2>2, LaterGood
  <2>4. "tool" \in Kinds \ (Popups \union {"free"})
    BY DEF Kinds, Titled, Popups
  <2>5. Good(Raised(s, j), [Unfocused(w, x) EXCEPT ![j] = New("tool", TRUE)], sm, cm, s_tty0)
    BY <2>3, <2>4, AddedGood
  <2> QED
    BY <1>2, <2>1, <2>5 DEF Become, GoodAfter
<1> QED
  BY <1>1, <1>2 DEF OpenFrom

\* The popups the manager names are open.
LEMMA MenusOpen ==
    ASSUME NEW s, NEW w, NEW sm, NEW cm, NEW t, Good(s, w, sm, cm, t)
    PROVE  /\ sm \in In(s) \union {Null} /\ cm \in In(s) \union {Null}
           /\ sm # Null => sm # cm
<1>1. \A i \in Ids : w[i].kind \in Popups => i \in In(s)
  BY DEF Good, Shown, Free, Popups
<1> QED
  BY <1>1 DEF Good, Menus, Popups

\* Windows are asked to close.
LEMMA ClosingGood ==
    ASSUME NEW s, NEW w, NEW sm, NEW cm, NEW t, Good(s, w, sm, cm, t),
           NEW P, P \subseteq In(s) \union {Null},
           NEW a \in {sm, Null}, sm # a => sm \in P,
           NEW b \in {cm, Null}, cm # b => cm \in P
    PROVE  Good(s, Closing(w, P), a, b, t)
<1>1. /\ Shown(s, Closing(w, P)) /\ Later(w, Closing(w, P))
      /\ \A i \in P : i # Null => Closing(w, P)[i].closing
  BY ClosingShown DEF Good
<1>2. (sm # a => Closing(w, P)[sm].closing) /\ (cm # b => Closing(w, P)[cm].closing)
  BY <1>1
<1> QED
  BY <1>1, <1>2, LaterGood

\* Popups are dismissed, the other one may stay.
LEMMA DismissedGood ==
    ASSUME NEW s, NEW w, NEW sm, NEW cm, NEW t, Good(s, w, sm, cm, t)
    PROVE  /\ Good(s, Closing(w, {sm, cm}), Null, Null, t)
           /\ Good(s, Closing(w, {sm}), Null, cm, t)
           /\ Good(s, Closing(w, {cm}), sm, Null, t)
<1>1. sm \in In(s) \union {Null} /\ cm \in In(s) \union {Null}
  BY MenusOpen
<1>2. Good(s, Closing(w, {sm, cm}), Null, Null, t)
  BY <1>1, ClosingGood
<1>3. Good(s, Closing(w, {sm}), Null, cm, t)
  BY <1>1, ClosingGood
<1>4. Good(s, Closing(w, {cm}), sm, Null, t)
  BY <1>1, ClosingGood
<1> QED
  BY <1>2, <1>3, <1>4

\* Stale pointers are forgotten.
LEMMA TrackedGood ==
    ASSUME DesktopInv
    PROVE  /\ Good(windows_, win, Tracked(m_start_menu), Tracked(m_context_menu), s_tty0)
           /\ In(windows_) = Open
<1>1. Good(windows_, win, m_start_menu, m_context_menu, s_tty0) /\ Shown(windows_, win)
  BY DEF DesktopInv, Good
<1>2. Later(win, win)
  BY DEF Later
<1>3. /\ Tracked(m_start_menu) \in {m_start_menu, Null}
      /\ m_start_menu # Tracked(m_start_menu) => win[m_start_menu].closing
  BY DEF Tracked
<1>4. /\ Tracked(m_context_menu) \in {m_context_menu, Null}
      /\ m_context_menu # Tracked(m_context_menu) => win[m_context_menu].closing
  BY DEF Tracked
<1>5. Good(windows_, win, Tracked(m_start_menu), Tracked(m_context_menu), s_tty0)
  BY <1>1, <1>2, <1>3, <1>4, LaterGood
<1> QED
  BY <1>5 DEF In, Open

\* What a window does with a click or a key.
LEMMA UseFrameGood ==
    ASSUME NEW s, NEW w, NEW sm, NEW cm, Good(s, w, sm, cm, s_tty0), In(s) = Open,
           NEW x \in Open, UseFrame(x, s, w, sm, cm)
    PROVE  GoodAfter
<1>1. PICK v \in {w, Closing(w, {x}), Minimized(w, x)} : Become(s, v, sm, cm)
  BY DEF UseFrame
<1>2. CASE v = w
  BY <1>1, <1>2 DEF UseFrame, Become, GoodAfter
<1>3. CASE v = Closing(w, {x})
  <2>1. Good(s, Closing(w, {x}), sm, cm, s_tty0)
    BY ClosingGood
  <2> QED
    BY <1>1, <1>3, <2>1 DEF UseFrame, Become, GoodAfter
<1>4. CASE v = Minimized(w, x)
  <2>1. Shown(s, Minimized(w, x)) /\ Later(w, Minimized(w, x))
    BY MinimizedShown DEF Good
  <2>2. Good(s, Minimized(w, x), sm, cm, s_tty0)
    BY <2>1, LaterGood
  <2> QED
    BY <1>1, <1>4, <2>2 DEF UseFrame, Become, GoodAfter
<1> QED
  BY <1>2, <1>3, <1>4

\* An item of a menu is chosen.
LEMMA ChooseItemGood ==
    ASSUME NEW s, NEW w, NEW sm, NEW cm, Good(s, w, sm, cm, s_tty0), In(s) = Open,
           NEW x \in Open, ChooseItem(x, s, w, sm, cm)
    PROVE  GoodAfter
<1>1. PICK k \in Apps : Opened(k, s, Closing(w, {x}), sm, cm)
  BY DEF ChooseItem
<1>2. Good(s, Closing(w, {x}), sm, cm, s_tty0)
  BY ClosingGood
<1> QED
  BY <1>1, <1>2, OpenedGood DEF Titled

\* A window gets the focus and is raised.
LEMMA RaisedGood ==
    ASSUME NEW s, NEW w, NEW sm, NEW cm, NEW t, Good(s, w, sm, cm, t),
           NEW x \in In(s), w[x].visible
    PROVE  Good(Raised(s, x), OnlyFocus(w, x), sm, cm, t) /\ In(Raised(s, x)) = In(s)
<1>1. Shown(s, OnlyFocus(w, x)) /\ Later(w, OnlyFocus(w, x))
  BY OnlyFocusShown DEF Good
<1>2. Shown(Raised(s, x), OnlyFocus(w, x)) /\ In(Raised(s, x)) = In(s)
  BY <1>1, Reordered
<1> QED
  BY <1>1, <1>2, LaterGood

\* A click on a window: dismissed popups close, it gets the focus, is raised, and handles it.
LEMMA ClickWindowGood ==
    ASSUME DesktopInv, NEW x \in Open, ClickWindow(x)
    PROVE  GoodAfter
<1>1. PICK sm : sm = Tracked(m_start_menu)
  OBVIOUS
<1>2. PICK cm : cm = Tracked(m_context_menu)
  OBVIOUS
<1>3. Good(windows_, win, sm, cm, s_tty0) /\ In(windows_) = Open
  BY <1>1, <1>2, TrackedGood
<1>4. PICK a \in {sm, Null}, b \in {cm, Null} :
        \E s, w : /\ s = Raised(windows_, x)
                  /\ w = OnlyFocus(Closing(win, {sm, cm} \ {a, b}), x)
                  /\ \/ OpenFrom(x, s, w, a, b)
                     \/ ChooseItem(x, s, w, a, b)
                     \/ UseFrame(x, s, w, a, b)
  <2>1. PICK inS, inC :
          LET keptS == IF inS THEN sm ELSE Null
              keptC == IF inC THEN cm ELSE Null
              gone  == {sm, cm} \ {keptS, keptC}
              w == OnlyFocus(Closing(win, gone), x)
              s == Raised(windows_, x)
          IN  \/ OpenFrom(x, s, w, keptS, keptC)
              \/ ChooseItem(x, s, w, keptS, keptC)
              \/ UseFrame(x, s, w, keptS, keptC)
    BY <1>1, <1>2 DEF ClickWindow
  <2>2. PICK a : a = IF inS THEN sm ELSE Null
    OBVIOUS
  <2>3. PICK b : b = IF inC THEN cm ELSE Null
    OBVIOUS
  <2>4. a \in {sm, Null} /\ b \in {cm, Null}
    BY <2>2, <2>3
  <2>5. \/ OpenFrom(x, Raised(windows_, x), OnlyFocus(Closing(win, {sm, cm} \ {a, b}), x), a, b)
        \/ ChooseItem(x, Raised(windows_, x), OnlyFocus(Closing(win, {sm, cm} \ {a, b}), x), a, b)
        \/ UseFrame(x, Raised(windows_, x), OnlyFocus(Closing(win, {sm, cm} \ {a, b}), x), a, b)
    BY <2>1, <2>2, <2>3, Zenon
  <2> QED
    BY <2>4, <2>5
<1>5. PICK P : P = {sm, cm} \ {a, b}
  OBVIOUS
<1>6. Good(windows_, Closing(win, P), a, b, s_tty0)
  <2>1. /\ sm \in In(windows_) \union {Null} /\ cm \in In(windows_) \union {Null}
        /\ sm # Null => sm # cm
    BY <1>3, MenusOpen
  <2>2. P \subseteq In(windows_) \union {Null}
    BY <1>5, <2>1
  <2>3. (sm # a => sm \in P) /\ (cm # b => cm \in P)
    BY <1>5, <2>1
  <2> QED
    BY <1>3, <2>2, <2>3, ClosingGood
<1>7. Closing(win, P)[x].visible
  <2>1. win[x].visible
    BY DEF ClickWindow
  <2>2. /\ sm \in In(windows_) \union {Null} /\ cm \in In(windows_) \union {Null}
    BY <1>3, MenusOpen
  <2>3. x \in Ids
    BY DEF Open
  <2> QED
    BY <1>3, <1>5, <2>1, <2>2, <2>3, ClosingShown DEF Good
<1>8. PICK s, w : /\ s = Raised(windows_, x)
                  /\ w = OnlyFocus(Closing(win, P), x)
                  /\ \/ OpenFrom(x, s, w, a, b)
                     \/ ChooseItem(x, s, w, a, b)
                     \/ UseFrame(x, s, w, a, b)
  BY <1>4, <1>5
<1>9. Good(s, w, a, b, s_tty0) /\ In(s) = Open
  BY <1>3, <1>6, <1>7, <1>8, RaisedGood
<1> QED
  BY <1>8, <1>9, OpenFromGood, ChooseItemGood, UseFrameGood

\* A click on the bare desktop.
LEMMA ClickDesktopGood ==
    ASSUME DesktopInv, ClickDesktop
    PROVE  GoodAfter
<1>1. PICK w : w = Closing(win, {Tracked(m_start_menu), Tracked(m_context_menu)})
  OBVIOUS
<1>2. Good(windows_, w, Null, Null, s_tty0) /\ In(windows_) = Open
  BY <1>1, TrackedGood, DismissedGood
<1>3. CASE \E k \in Apps : Opened(k, windows_, w, Null, Null)
  BY <1>2, <1>3, OpenedGood DEF Titled
<1>4. CASE Become(windows_, w, Null, Null) /\ UNCHANGED s_tty0
  BY <1>2, <1>4 DEF Become, GoodAfter
<1> QED
  BY <1>1, <1>3, <1>4 DEF ClickDesktop

\* The context menu takes the place of an older one.
LEMMA RightClickGood ==
    ASSUME DesktopInv, RightClickDesktop
    PROVE  GoodAfter
<1>1. PICK w : w = Closing(win, {Tracked(m_context_menu)})
  OBVIOUS
<1>2. PICK sm : sm = Tracked(m_start_menu)
  OBVIOUS
<1>3. Good(windows_, w, sm, Null, s_tty0) /\ In(windows_) = Open
  BY <1>1, <1>2, TrackedGood, DismissedGood
<1>4. PICK i \in Ids \ Open :
        Become(Raised(windows_, i), [w EXCEPT ![i] = New("context", FALSE)], sm, i)
  BY <1>1, <1>2 DEF RightClickDesktop
<1>5. Good(Raised(windows_, i), [w EXCEPT ![i] = New("context", FALSE)], sm, i, s_tty0)
  BY <1>3, MenuGood DEF Popups
<1> QED
  BY <1>4, <1>5 DEF RightClickDesktop, Become, GoodAfter

\* A click on the task bar.
LEMMA ClickTaskbarGood ==
    ASSUME DesktopInv, ClickTaskbar
    PROVE  GoodAfter
<1>1. PICK w : w = Closing(win, {Tracked(m_context_menu)})
  OBVIOUS
<1>2. PICK sm : sm = Tracked(m_start_menu)
  OBVIOUS
<1>3. Good(windows_, w, sm, Null, s_tty0) /\ In(windows_) = Open /\ s_tty0' = s_tty0
  BY <1>1, <1>2, TrackedGood, DismissedGood DEF ClickTaskbar
<1>4. Good(windows_, Closing(w, {sm}), Null, Null, s_tty0)
  BY <1>3, DismissedGood
<1>5. CASE Toggled(w, sm)
  <2>1. CASE sm # Null /\ Become(windows_, Closing(w, {sm}), Null, Null)
    BY <1>3, <1>4, <2>1 DEF Become, GoodAfter
  <2>2. CASE /\ sm = Null
             /\ \E i \in Ids \ Open :
                  Become(Raised(windows_, i), [w EXCEPT ![i] = New("start", FALSE)], i, Null)
    <3>1. PICK i \in Ids \ Open :
            Become(Raised(windows_, i), [w EXCEPT ![i] = New("start", FALSE)], i, Null)
      BY <2>2
    <3>2. Good(Raised(windows_, i), [w EXCEPT ![i] = New("start", FALSE)], i, Null, s_tty0)
      BY <1>3, <2>2, MenuGood DEF Popups
    <3> QED
      BY <1>3, <3>1, <3>2 DEF Become, GoodAfter
  <2> QED
    BY <1>5, <2>1, <2>2 DEF Toggled
<1>6. CASE \E i \in Open : Button(w, i, sm)
  <2>1. PICK i \in Open : Button(w, i, sm)
    BY <1>6
  <2>2. CASE Become(windows_, Minimized(w, i), sm, Null)
    <3>1. Shown(windows_, Minimized(w, i)) /\ Later(w, Minimized(w, i))
      BY <1>3, MinimizedShown DEF Good
    <3>2. Good(windows_, Minimized(w, i), sm, Null, s_tty0)
      BY <1>3, <3>1, LaterGood
    <3> QED
      BY <1>3, <2>2, <3>2 DEF Become, GoodAfter
  <2>3. CASE Become(Raised(windows_, i), OnlyFocus(Restored(w, i), i), sm, Null)
    <3>1. /\ Shown(windows_, Restored(w, i)) /\ Later(w, Restored(w, i))
          /\ Restored(w, i)[i].visible
      BY <1>3, RestoredShown DEF Good
    <3>2. Good(windows_, Restored(w, i), sm, Null, s_tty0)
      BY <1>3, <3>1, LaterGood
    <3>3. Good(Raised(windows_, i), OnlyFocus(Restored(w, i), i), sm, Null, s_tty0)
      BY <1>3, <3>1, <3>2, RaisedGood
    <3> QED
      BY <1>3, <2>3, <3>3 DEF Become, GoodAfter
  <2> QED
    BY <2>1, <2>2, <2>3 DEF Button
<1>7. CASE Become(windows_, Closing(w, {sm}), Null, Null)
  BY <1>3, <1>4, <1>7 DEF Become, GoodAfter
<1> QED
  BY <1>1, <1>2, <1>5, <1>6, <1>7 DEF ClickTaskbar

\* Alt+Tab.
LEMMA AltTabGood ==
    ASSUME DesktopInv, AltTab
    PROVE  GoodAfter
<1>1. PICK sm : sm = Tracked(m_start_menu)
  OBVIOUS
<1>2. PICK cm : cm = Tracked(m_context_menu)
  OBVIOUS
<1>3. /\ Good(windows_, win, sm, cm, s_tty0) /\ In(windows_) = Open
      /\ m_start_menu' = sm /\ m_context_menu' = cm /\ s_tty0' = s_tty0
  BY <1>1, <1>2, TrackedGood DEF AltTab
<1>4. CASE CycleFocus
  <2>1. PICK i \in Open : /\ Eligible(i)
                          /\ windows_' = Raised(windows_, i) /\ win' = OnlyFocus(win, i)
    BY <1>4 DEF CycleFocus
  <2>2. Good(Raised(windows_, i), OnlyFocus(win, i), sm, cm, s_tty0)
    BY <1>3, <2>1, RaisedGood DEF Eligible
  <2> QED
    BY <1>3, <2>1, <2>2 DEF GoodAfter
<1>5. CASE UNCHANGED <<windows_, win>>
  BY <1>3, <1>5 DEF GoodAfter
<1> QED
  BY <1>4, <1>5 DEF AltTab

\* Ctrl+Q.
LEMMA CtrlQGood ==
    ASSUME DesktopInv, CtrlQ
    PROVE  GoodAfter
<1>1. PICK sm : sm = Tracked(m_start_menu)
  OBVIOUS
<1>2. PICK cm : cm = Tracked(m_context_menu)
  OBVIOUS
<1>3. /\ Good(windows_, win, sm, cm, s_tty0) /\ In(windows_) = Open /\ s_tty0' = s_tty0
  BY <1>1, <1>2, TrackedGood DEF CtrlQ
<1>4. PICK w : /\ w = win \/ \E i \in Open : w = Closing(win, {i})
               /\ Become(windows_, w, sm, cm)
  BY <1>1, <1>2 DEF CtrlQ
<1>5. CASE w = win
  BY <1>3, <1>4, <1>5 DEF Become, GoodAfter
<1>6. ASSUME NEW i \in Open, w = Closing(win, {i})
      PROVE  GoodAfter
  <2>1. Good(windows_, Closing(win, {i}), sm, cm, s_tty0)
    BY <1>3, ClosingGood
  <2> QED
    BY <1>3, <1>4, <1>6, <2>1 DEF Become, GoodAfter
<1> QED
  BY <1>4, <1>5, <1>6

\* A key that goes to a window.
LEMMA KeyGood ==
    ASSUME DesktopInv, Key
    PROVE  GoodAfter
<1>1. PICK sm : sm = Tracked(m_start_menu)
  OBVIOUS
<1>2. PICK cm : cm = Tracked(m_context_menu)
  OBVIOUS
<1>3. /\ Good(windows_, win, sm, cm, s_tty0) /\ In(windows_) = Open
  BY <1>1, <1>2, TrackedGood
<1>4. PICK i \in Open : \/ OpenFrom(i, windows_, win, sm, cm)
                        \/ Become(windows_, Closing(win, {i}), sm, cm) /\ s_tty0' = s_tty0
  BY <1>1, <1>2 DEF Key
<1>5. Good(windows_, Closing(win, {i}), sm, cm, s_tty0)
  BY <1>3, ClosingGood
<1>6. CASE OpenFrom(i, windows_, win, sm, cm)
  BY <1>3, <1>6, OpenFromGood
<1>7. CASE Become(windows_, Closing(win, {i}), sm, cm) /\ s_tty0' = s_tty0
  BY <1>5, <1>7 DEF Become, GoodAfter
<1> QED
  BY <1>4, <1>6, <1>7

\* The windows that asked to close go; the manager has forgotten them.
LEMMA DrawGood ==
    ASSUME DesktopInv, Draw
    PROVE  GoodAfter
<1>1. PICK gone : gone = {i \in Open : win[i].closing}
  OBVIOUS
<1>2. PICK r : r = Without(windows_, gone)
  OBVIOUS
<1>3. PICK v : v = [i \in Ids |-> IF i \in gone THEN Free ELSE win[i]]
  OBVIOUS
<1>4. PICK sm : sm = Tracked(m_start_menu)
  OBVIOUS
<1>5. PICK cm : cm = Tracked(m_context_menu)
  OBVIOUS
<1>6. Good(windows_, win, sm, cm, s_tty0) /\ In(windows_) = Open
  BY <1>4, <1>5, TrackedGood
<1>7. /\ windows_' = r /\ win' = v /\ m_start_menu' = sm /\ m_context_menu' = cm
      /\ s_tty0' = IF s_tty0 \in gone THEN Ambient ELSE s_tty0
  BY <1>1, <1>2, <1>3, <1>4, <1>5 DEF Draw, Become
<1>8. Ordered(r) /\ In(r) = Open \ gone
  BY <1>2, <1>6, WithoutOrdered DEF Good, Shown
<1>9. /\ \A i \in gone : v[i] = Free
      /\ \A i \in Ids \ gone : v[i] = win[i]
      /\ gone \subseteq Open /\ Open \subseteq Ids
  BY <1>1, <1>3 DEF Open
<1>10. v \in [Ids -> Window]
  <2>1. Free \in Window
    BY DEF Free, Window, Kinds
  <2>2. win \in [Ids -> Window]
    BY <1>6 DEF Good, Shown
  <2> QED
    BY <1>3, <2>1, <2>2
<1>11. Shown(r, v)
  BY <1>6, <1>8, <1>9, <1>10 DEF Good, Shown
<1>12. (sm # Null => ~win[sm].closing) /\ (cm # Null => ~win[cm].closing)
  BY <1>4, <1>5 DEF Tracked
<1>13. sm \notin gone /\ cm \notin gone
  BY <1>1, <1>9, <1>12, WindowAssumption
<1>14. Menus(r, v, sm, cm)
  BY <1>6, <1>8, <1>9, <1>13 DEF Good, Menus
<1>15. Writes(s_tty0', v)
  BY <1>6, <1>7, <1>9, WindowAssumption DEF Good, Writes
<1> QED
  BY <1>7, <1>11, <1>14, <1>15 DEF Good, GoodAfter

\* The desktop or a command opens a window.
LEMMA OpenerGood ==
    ASSUME DesktopInv, DesktopInit \/ Command
    PROVE  GoodAfter
<1>1. Good(windows_, win, m_start_menu, m_context_menu, s_tty0) /\ In(windows_) = Open
  BY DEF DesktopInv, In, Open
<1>2. PICK k \in Titled : Opened(k, windows_, win, m_start_menu, m_context_menu)
  BY DEF DesktopInit, Command, Titled
<1> QED
  BY <1>1, <1>2, OpenedGood

-----------------------------------------------------------------------------
(* The theorems *)

\* The login window alone.
LEMMA DesktopStart == Init => DesktopInv
<1> SUFFICES ASSUME Init
             PROVE  DesktopInv
  OBVIOUS
<1>1. PICK i \in Ids : /\ windows_ = {<<i, i>>}
                       /\ win = [j \in Ids |-> IF j = i THEN New("login", TRUE) ELSE Free]
  BY DEF Init
<1>2. In(windows_) = {i}
  BY <1>1 DEF In
<1>3. Ordered(windows_)
  BY <1>1, <1>2 DEF Ordered
<1>4. New("login", TRUE) \in Window /\ Free \in Window
  BY DEF New, Free, Window, Kinds
<1>5. win \in [Ids -> Window]
  BY <1>1, <1>4
<1>6. win[i] = New("login", TRUE) /\ \A j \in Ids \ {i} : win[j] = Free
  BY <1>1
<1>7. win[i].kind = "login" /\ win[i].visible
  BY <1>6 DEF New
<1>8. Shown(windows_, win)
  BY <1>2, <1>3, <1>5, <1>6, <1>7 DEF Shown
<1>9. Menus(windows_, win, m_start_menu, m_context_menu)
  BY <1>2, <1>7 DEF Menus, Init, Popups
<1>10. Writes(s_tty0, win)
  BY WindowAssumption DEF Writes, Init
<1> QED
  BY <1>8, <1>9, <1>10 DEF DesktopInv, Good, Init

\* Every step keeps the invariant.
LEMMA DesktopStep == DesktopInv /\ [Next]_vars => DesktopInv'
<1> SUFFICES ASSUME DesktopInv, [Next]_vars
             PROVE  DesktopInv'
  OBVIOUS
<1>1. GoodAfter
  <2>1. CASE Dispatch
    BY <2>1, ClickWindowGood, ClickDesktopGood, RightClickGood, ClickTaskbarGood,
       AltTabGood, CtrlQGood, KeyGood DEF Dispatch
  <2>2. CASE Draw
    BY <2>2, DrawGood
  <2>3. CASE DesktopInit \/ Command
    BY <2>3, OpenerGood
  <2>4. CASE UNCHANGED vars
    BY <2>4 DEF DesktopInv, GoodAfter, vars, popups
  <2> QED
    BY <2>1, <2>2, <2>3, <2>4 DEF Next
<1>2. g_login_done' \in BOOLEAN /\ gui_mode' \in BOOLEAN
  <2>1. CASE Dispatch
    BY <2>1, Zenon DEF Dispatch, ClickWindow, ClickDesktop, RightClickDesktop, ClickTaskbar,
       AltTab, CtrlQ, Key, login, DesktopInv
  <2>2. CASE Draw \/ DesktopInit \/ Command \/ UNCHANGED vars
    BY <2>2, Zenon DEF Draw, DesktopInit, Command, vars, login, DesktopInv
  <2> QED
    BY <2>1, <2>2 DEF Next
<1> QED
  BY <1>1, <1>2 DEF DesktopInv, GoodAfter

\* And so it holds always.
LEMMA DesktopKept == Spec => []DesktopInv
<1> QED
  BY DesktopStart, DesktopStep, PTL DEF Spec

\* The list is an order of exactly the windows that exist: raise and purge
\* (WindowManager::raise, draw) neither lose a window nor keep one twice.
THEOREM DesktopTypesKept == Spec => []TypeOK
<1>1. DesktopInv => TypeOK
  <2> SUFFICES ASSUME DesktopInv
               PROVE  TypeOK
    OBVIOUS
  <2>1. Good(windows_, win, m_start_menu, m_context_menu, s_tty0) /\ In(windows_) = Open
    BY DEF DesktopInv, In, Open
  <2>2. Ordered(windows_) /\ win \in [Ids -> Window]
    BY <2>1 DEF Good, Shown
  <2>3. /\ windows_ \subseteq Open \X Open
        /\ \A i, j \in Open : <<i, j>> \in windows_ \/ <<j, i>> \in windows_
        /\ \A i, j \in Open : <<i, j>> \in windows_ /\ <<j, i>> \in windows_ => i = j
        /\ \A i, j, k \in Open : <<i, j>> \in windows_ /\ <<j, k>> \in windows_ => <<i, k>> \in windows_
    BY <2>1, <2>2 DEF Ordered
  <2>4. \A i \in Ids : IF i \in Open THEN win[i].kind # "free" ELSE win[i] = Free
    BY <2>1 DEF Good, Shown
  <2> QED
    BY <2>1, <2>2, <2>3, <2>4 DEF TypeOK, DesktopInv, Good, Menus, Writes, Window
<1> QED
  BY <1>1, DesktopKept, PTL

\* The pointers to the popups and to TTY0 never dangle, and no menu is left on the
\* screen untracked (window_manager.cpp:448 and 511, TerminalWindow.cpp:47).
THEOREM PopupsStayKnown == Spec => []PopupsKnown
<1>1. DesktopInv => PopupsKnown
  BY DEF DesktopInv, Good, Menus, Writes, PopupsKnown, PointersLive, PopupsTracked, In, Open
<1> QED
  BY <1>1, DesktopKept, PTL

\* Keys never go to a hidden window (Window::minimize, cycle_focus).
THEOREM KeysStaySeen == Spec => []KeysAreSeen
<1>1. DesktopInv => KeysAreSeen
  BY DEF DesktopInv, Good, Shown, KeysAreSeen, In, Open
<1> QED
  BY <1>1, DesktopKept, PTL

\* While one window has the focus, Alt+Tab gives the keys to another if there is
\* one (WindowManager.hpp:64).
THEOREM AltTabAlwaysMoves == Spec => AltTabMoves
<1>1. ASSUME DesktopInv, AltTab, NEW x \in Open, FocusedAt = {x}
      PROVE  \/ \A i \in Open : HasKeys(i) => ~HasKeys(i)'
             \/ \A i \in Open : Eligible(i) => win[i].focused
  <2>1. Start = x
    <3>1. <<x, x>> \in windows_
      BY DEF Open
    <3> QED
      BY <1>1, <3>1 DEF Start
  <2>2. win[x].focused /\ \A i \in Open : HasKeys(i) => i = x
    BY <1>1 DEF FocusedAt, HasKeys
  <2>3. CASE \A i \in Open : ~Eligible(i)
    BY <2>3
  <2>4. ASSUME NEW i \in Open, Eligible(i), \A j \in Open : Eligible(j) => Sooner(i, j),
               win' = OnlyFocus(win, i)
        PROVE  \/ ~HasKeys(x)'
               \/ \A j \in Open : Eligible(j) => win[j].focused
    <3>1. CASE i = x
      <4>1. ASSUME NEW j \in Open, Eligible(j), j # x
            PROVE  FALSE
        <5>1. Sooner(x, j)
          BY <2>4, <3>1, <4>1
        <5>2. x \notin Above(x)
          BY DEF Above
        <5>3. CASE j \in Above(x)
          BY <2>1, <5>1, <5>2, <5>3 DEF Sooner
        <5>4. CASE j \notin Above(x)
          <6>1. <<x, j>> \in windows_
            BY <2>1, <5>1, <5>2, <5>4, Zenon DEF Sooner
          <6> QED
            BY <4>1, <5>4, <6>1 DEF Above
        <5> QED
          BY <5>3, <5>4
      <4> QED
        BY <2>2, <4>1
    <3>2. CASE i # x
      <4>1. x \in Ids
        BY DEF Open
      <4>2. win'[x] = [win[x] EXCEPT !.focused = (x = i)]
        BY <2>4, <4>1 DEF OnlyFocus
      <4>3. (x = i) = FALSE
        BY <3>2, Zenon
      <4>4. PICK v : v = win[x]
        OBVIOUS
      <4>5. v \in Window
        BY <1>1, <4>1, <4>4 DEF DesktopInv, Good, Shown
      <4>6. win'[x] = [v EXCEPT !.focused = FALSE]
        BY <4>2, <4>3, <4>4, Zenon
      <4>7. ~win'[x].focused
        BY <4>5, <4>6 DEF Window
      <4> QED
        BY <4>7 DEF HasKeys
    <3> QED
      BY <3>1, <3>2
  <2> QED
    BY <1>1, <2>2, <2>3, <2>4 DEF AltTab, CycleFocus
<1>2. DesktopInv /\ [Next]_vars
        => [AltTab /\ (\E i \in Open : FocusedAt = {i})
              => \/ \A i \in Open : HasKeys(i) => ~HasKeys(i)'
                 \/ \A i \in Open : Eligible(i) => win[i].focused]_vars
  BY <1>1
<1> QED
  BY <1>2, DesktopKept, PTL DEF Spec, AltTabMoves
-----------------------------------------------------------------------------
(* The keyboard and the arcade launcher *)

Spots == {"loop", "pump", "take", "launch", "mark", "choose", "spawn", "free", "start",
          "clear", "capture", "reset", "play", "restore", "signal"}

Bytes == [code : Codes \union {"E0"}, up : BOOLEAN]

InputTyped ==
    /\ where \in [Threads -> Spots] /\ game \in [Slots -> Games \union {NoGame}]
    /\ pending \in Games \union {NoGame}
    /\ s_game_buf \in Seq(Bytes) /\ s_ks_ext \in BOOLEAN /\ whole \in BOOLEAN
    /\ due = {} \/ \E k \in Keys : k[1] /\ due = {k}
    /\ \A s \in Slots : where[s] \in {"capture", "reset"} => game[s] = "doom"

\* Whoever took something from the desktop is still there to give it back.
Owed ==
    /\ ~is_gui_active => \/ unspawned
                         \/ \E t \in Threads : where[t] \in {"mark", "choose", "spawn"}
                         \/ \E s \in Slots : where[s] \notin {"free", "signal"}
    /\ ~done => \/ unspawned
                \/ \E t \in Threads : where[t] \in {"choose", "spawn"}
                \/ \E s \in Slots : where[s] # "free"
    /\ s_kbd_capture => \E s \in Slots : game[s] = "doom" /\ where[s] \in {"reset", "play"}
    /\ pending # NoGame => \/ unspawned
                           \/ \E t \in Threads : where[t] = "spawn"
                           \/ \E s \in Slots : where[s] \in {"start", "clear"}

\* What ks_process makes of the map for one byte, with or without the prefix.
Pressed(down, ext, b) ==
    IF b.code = "E0" THEN down
    ELSE IF b.up THEN down \ {<<ext, b.code>>} ELSE down \union {<<ext, b.code>>}

\* Whether a prefix came before byte i + 1 of the game ring.
Extended(i) == IF i = 0 THEN s_ks_ext ELSE s_game_buf[i].code = "E0"

\* d[i] is the map after i bytes of the game ring; after them all it is the truth.
Replays(d) ==
    /\ d[0] = s_key_down /\ d[Len(s_game_buf)] = since
    /\ \A i \in 1 .. Len(s_game_buf) : d[i] = Pressed(d[i - 1], Extended(i - 1), s_game_buf[i])

\* Between the capture and the reset of a new game the ring does not fit the map.
Faithful ==
    whole /\ (\A s \in Slots : where[s] # "reset") =>
        /\ Extended(Len(s_game_buf)) = (due # {})
        /\ \E d : Replays(d)

InputInv == InputTyped /\ Owed /\ Faithful

\* The invariant holds when the desktop starts.
LEMMA InputStart == InputInit => InputInv
<1> SUFFICES ASSUME InputInit
             PROVE  InputInv
  OBVIOUS
<1>1. InputTyped
  <2>1. \A s \in Slots : where[s] = "free"
    BY InputAssumption DEF InputInit, Threads
  <2> QED
    BY <2>1, EmptySeq DEF InputInit, InputTyped, Spots
<1>2. Owed /\ Faithful
  BY DEF InputInit, Owed, Faithful
<1> QED
  BY <1>1, <1>2 DEF InputInv

\* A step that moves threads about, not out of a reset, and leaves the keys alone.
LEMMA KeysUntouched ==
    ASSUME Faithful, UNCHANGED <<s_game_buf, s_key_down, s_ks_ext, since, whole, due>>,
           (\A s \in Slots : where'[s] # "reset") => \A s \in Slots : where[s] # "reset"
    PROVE  Faithful'
  BY DEF Faithful, Replays, Extended

\* A step that touches no flag and takes nobody away who still owes something.
LEMMA OwedUntouched ==
    ASSUME Owed, UNCHANGED <<is_gui_active, s_kbd_capture, pending, done, unspawned, game>>,
           \A u \in Threads : where[u] \in {"mark", "choose", "spawn"} => where'[u] = where[u],
           \A s \in Slots : where[s] \in {"start", "clear", "reset"} => where'[s] = where[s],
           \A s \in Slots : where[s] \notin {"free", "signal"} =>
                             where'[s] \notin {"free", "signal"},
           \A s \in Slots : where[s] # "free" => where'[s] # "free",
           \A s \in Slots : where[s] = "play" /\ game[s] = "doom" => where'[s] = "play"
    PROVE  Owed'
<1>1. ~is_gui_active => \/ unspawned
                        \/ \E t \in Threads : where'[t] \in {"mark", "choose", "spawn"}
                        \/ \E s \in Slots : where'[s] \notin {"free", "signal"}
  BY DEF Owed
<1>2. ~done => \/ unspawned
               \/ \E t \in Threads : where'[t] \in {"choose", "spawn"}
               \/ \E s \in Slots : where'[s] # "free"
  BY DEF Owed
<1>3. s_kbd_capture => \E s \in Slots : game[s] = "doom" /\ where'[s] \in {"reset", "play"}
  BY DEF Owed
<1>4. pending # NoGame => \/ unspawned
                          \/ \E t \in Threads : where'[t] = "spawn"
                          \/ \E s \in Slots : where'[s] \in {"start", "clear"}
  BY DEF Owed
<1> QED
  BY <1>1, <1>2, <1>3, <1>4 DEF Owed

\* get_char, of the main loop or of a classic game.
LEMMA GetCharKeeps ==
    ASSUME InputInv, NEW t \in Threads, Pump(t) \/ Idle(t) \/ Look(t) \/ Take(t)
    PROVE  InputInv'
<1>1. PICK spot \in {"loop", "pump", "take", "launch", "play"} :
        /\ where' = [where EXCEPT ![t] = spot]
        /\ t = "main" => spot # "play"
        /\ t # "main" => spot # "loop"
  BY DEF Pump, Idle, Look, Take, Goto, Back
<1>2. /\ UNCHANGED <<is_gui_active, s_kbd_capture, pending, done, unspawned, game>>
      /\ UNCHANGED <<s_game_buf, s_key_down, s_ks_ext, since, whole, due>>
  BY DEF Pump, Idle, Look, Take, keyboard, flags, rings, keymap, arcade
<1>3. /\ where[t] \in {"loop", "pump", "take", "play"}
      /\ t # "main" => ~(where[t] = "play" /\ game[t] = "doom")
  BY DEF Pump, Idle, Look, Take, Pumping, Reading
<1>4. InputTyped'
  BY <1>1, <1>2 DEF InputInv, InputTyped, Spots
<1>5. \A u \in Threads : u # t => where'[u] = where[u]
  BY <1>1 DEF InputInv, InputTyped
<1>6. where'[t] = spot
  BY <1>1 DEF InputInv, InputTyped
<1>7. Owed'
  <2>1. ASSUME NEW u \in Threads, where[u] \in {"mark", "choose", "spawn"}
        PROVE  where'[u] = where[u]
    BY <1>3, <1>5, <2>1
  <2>2. ASSUME NEW s \in Slots, where[s] # "free"
        PROVE  /\ where'[s] # "free"
               /\ where[s] # "signal" => where'[s] # "signal"
               /\ where[s] \in {"start", "clear", "reset"} => where'[s] = where[s]
               /\ where[s] = "play" /\ game[s] = "doom" => where'[s] = "play"
    <3>1. s \in Threads /\ s # "main"
      BY InputAssumption DEF Threads
    <3> QED
      BY <1>1, <1>3, <1>5, <1>6, <2>2, <3>1
  <2> QED
    BY <1>2, <2>1, <2>2, OwedUntouched DEF InputInv
<1>8. Faithful'
  <2>1. ASSUME NEW s \in Slots, where[s] = "reset"
        PROVE  where'[s] = "reset"
    BY <1>3, <1>5, <2>1 DEF Threads
  <2> QED
    BY <1>2, <2>1, KeysUntouched DEF InputInv
<1> QED
  BY <1>4, <1>7, <1>8 DEF InputInv

\* launch_arcade_game_async up to the spawn.
LEMMA LaunchKeeps ==
    ASSUME InputInv, NEW t \in Threads, Launch(t)
    PROVE  InputInv'
<1>1. PICK spot \in {"mark", "choose", "spawn"} :
        /\ where' = [where EXCEPT ![t] = spot]
        /\ where[t] = CASE spot = "mark" -> "launch" [] spot = "choose" -> "mark"
                        [] spot = "spawn" -> "choose"
  BY DEF Launch, Goto
<1>2. /\ UNCHANGED <<s_kbd_capture, unspawned, game>>
      /\ UNCHANGED <<s_game_buf, s_key_down, s_ks_ext, since, whole, due>>
      /\ spot # "mark" => UNCHANGED is_gui_active
      /\ spot # "choose" => UNCHANGED done
      /\ spot # "spawn" => UNCHANGED pending
  BY <1>1 DEF Launch, Goto, keyboard, rings, keymap, arcade
<1>3. \A u \in Threads : where'[u] = IF u = t THEN spot ELSE where[u]
  BY <1>1 DEF InputInv, InputTyped
<1>4. InputTyped'
  <2>1. \A s \in Slots : where'[s] \in {"capture", "reset"} => where[s] = where'[s]
    BY <1>3 DEF Threads
  <2>2. pending' \in Games \union {NoGame}
    BY DEF Launch, InputInv, InputTyped, arcade
  <2> QED
    BY <1>1, <1>2, <2>1, <2>2 DEF InputInv, InputTyped, Spots
<1>5. where[t] \in {"launch", "mark", "choose"}
  BY <1>1
<1>6. Owed'
  <2>1. ~is_gui_active' => \/ unspawned
                           \/ \E u \in Threads : where'[u] \in {"mark", "choose", "spawn"}
                           \/ \E s \in Slots : where'[s] \notin {"free", "signal"}
    BY <1>3
  <2>2. ~done' => \/ unspawned
                  \/ \E u \in Threads : where'[u] \in {"choose", "spawn"}
                  \/ \E s \in Slots : where'[s] # "free"
    <3>1. CASE spot = "mark"
      BY <1>1, <1>2, <1>3, <1>5, <3>1 DEF InputInv, Owed, Threads
    <3>2. CASE spot # "mark"
      BY <1>3, <3>2
    <3> QED
      BY <3>1, <3>2
  <2>3. s_kbd_capture => \E s \in Slots : game[s] = "doom" /\ where'[s] \in {"reset", "play"}
    BY <1>3, <1>5 DEF InputInv, Owed, Threads
  <2>4. pending' # NoGame => \/ unspawned
                             \/ \E u \in Threads : where'[u] = "spawn"
                             \/ \E s \in Slots : where'[s] \in {"start", "clear"}
    <3>1. CASE spot = "spawn"
      BY <1>3, <3>1
    <3>2. CASE spot # "spawn"
      BY <1>2, <1>3, <1>5, <3>2 DEF InputInv, Owed, Threads
    <3> QED
      BY <3>1, <3>2
  <2> QED
    BY <1>2, <2>1, <2>2, <2>3, <2>4 DEF Owed
<1>7. Faithful'
  BY <1>2, <1>3, <1>5, KeysUntouched DEF InputInv, Threads
<1> QED
  BY <1>4, <1>6, <1>7 DEF InputInv

\* scheduler_spawn.
LEMMA SpawnKeeps ==
    ASSUME InputInv, NEW t \in Threads, Spawn(t)
    PROVE  InputInv'
<1>1. /\ UNCHANGED <<is_gui_active, s_kbd_capture, pending, done, game>>
      /\ UNCHANGED <<s_game_buf, s_key_down, s_ks_ext, since, whole, due>>
      /\ where[t] = "spawn"
  BY DEF Spawn, keyboard, flags, rings, keymap, arcade
<1>2. CASE Alive = Slots /\ unspawned' = TRUE /\ Goto(t, "pump")
  <2>1. InputTyped'
    BY <1>1, <1>2 DEF InputInv, InputTyped, Spots, Goto
  <2>2. \A u \in Threads : where'[u] = IF u = t THEN "pump" ELSE where[u]
    BY <1>2 DEF InputInv, InputTyped, Goto
  <2>4. s_kbd_capture => \E s \in Slots : game[s] = "doom" /\ where'[s] \in {"reset", "play"}
    BY <1>1, <2>2 DEF InputInv, Owed, Threads
  <2>3. Owed'
    BY <1>1, <1>2, <2>4 DEF Owed
  <2>5. Faithful'
    BY <1>1, <2>2, KeysUntouched DEF InputInv, Threads
  <2> QED
    BY <2>1, <2>3, <2>5 DEF InputInv
<1>3. CASE \E s \in Slots \ Alive : /\ where' = [where EXCEPT ![t] = "pump", ![s] = "start"]
                                   /\ UNCHANGED unspawned
  <2>1. PICK s \in Slots \ Alive : /\ where' = [where EXCEPT ![t] = "pump", ![s] = "start"]
                                  /\ UNCHANGED unspawned
    BY <1>3
  <2>2. where[s] = "free" /\ s # t /\ s \in Threads
    BY <1>1 DEF Alive, Threads
  <2>3. \A u \in Threads :
          where'[u] = IF u = s THEN "start" ELSE IF u = t THEN "pump" ELSE where[u]
    BY <2>1, <2>2 DEF InputInv, InputTyped
  <2>4. InputTyped'
    <3>1. \A r \in Slots : where'[r] \in {"capture", "reset"} => where[r] = where'[r]
      BY <2>3 DEF Threads
    <3> QED
      BY <1>1, <2>1, <2>2, <3>1 DEF InputInv, InputTyped, Spots
  <2>5. s \in Slots /\ where'[s] = "start"
    BY <2>2, <2>3
  <2>6. s_kbd_capture => \E r \in Slots : game[r] = "doom" /\ where'[r] \in {"reset", "play"}
    BY <1>1, <2>2, <2>3 DEF InputInv, Owed, Threads
  <2>7. Owed'
    BY <1>1, <2>5, <2>6 DEF Owed
  <2>8. Faithful'
    BY <1>1, <2>2, <2>3, KeysUntouched DEF InputInv, Threads
  <2> QED
    BY <2>4, <2>7, <2>8 DEF InputInv
<1> QED
  BY <1>2, <1>3 DEF Spawn

\* arcade_game_thread: reading its number, clearing it.
LEMMA BeginKeeps ==
    ASSUME InputInv, NEW s \in Slots, Begin(s)
    PROVE  InputInv'
<1>1. /\ UNCHANGED <<is_gui_active, s_kbd_capture, done, unspawned>>
      /\ UNCHANGED <<s_game_buf, s_key_down, s_ks_ext, since, whole, due>>
      /\ s \in Threads
  BY DEF Begin, keyboard, flags, rings, keymap, Threads
<1>2. PICK spot \in {"clear", "capture", "play", "restore"} :
        /\ where' = [where EXCEPT ![s] = spot]
        /\ where[s] = IF spot = "clear" THEN "start" ELSE "clear"
  <2>1. CASE where[s] = "start"
    BY <2>1 DEF Begin, Goto
  <2>2. CASE where[s] = "clear"
    <3>1. game[s] \in {"doom", "classic", NoGame}
      BY DEF InputInv, InputTyped, Games
    <3>2. CASE game[s] = "doom"
      BY <2>2, <3>2 DEF Begin, Goto, NoGame
    <3>3. CASE game[s] = "classic"
      BY <2>2, <3>3 DEF Begin, Goto, NoGame
    <3>4. CASE game[s] = NoGame
      BY <2>2, <3>4 DEF Begin, Goto, NoGame
    <3> QED
      BY <3>1, <3>2, <3>3, <3>4
  <2> QED
    BY <2>1, <2>2 DEF Begin
<1>3. \A u \in Threads : where'[u] = IF u = s THEN spot ELSE where[u]
  BY <1>1, <1>2 DEF InputInv, InputTyped
<1>4. game' = game \/ (spot = "clear" /\ game' = [game EXCEPT ![s] = pending])
  BY <1>2 DEF Begin, Goto
<1>5. pending' = IF spot = "clear" THEN pending ELSE NoGame
  BY <1>2 DEF Begin, Goto
<1>6. \A r \in Slots : r # s => game'[r] = game[r]
  BY <1>4 DEF InputInv, InputTyped
<1>7. where[s] \in {"start", "clear"} /\ where'[s] = spot
  BY <1>1, <1>2, <1>3
<1>8. InputTyped'
  <2>1. spot = "capture" => game[s] = "doom" /\ game' = game
    <3>1. ASSUME spot = "capture"
          PROVE  game[s] = "doom" /\ game' = game
      <4>1. where[s] = "clear" /\ game' = game
        BY <1>2, <1>4, <3>1
      <4>2. where' = [where EXCEPT ![s] = CASE game[s] = "doom" -> "capture"
                       [] game[s] = "classic" -> "play"
                       [] game[s] = NoGame -> "restore"]
        BY <4>1 DEF Begin, Goto
      <4>3. where'[s] = CASE game[s] = "doom" -> "capture"
                       [] game[s] = "classic" -> "play"
                       [] game[s] = NoGame -> "restore"
        BY <1>1, <4>2 DEF InputInv, InputTyped
      <4>4. game[s] \in {"doom", "classic", "none"}
        BY DEF InputInv, InputTyped, Games, NoGame
      <4> QED
        BY <1>7, <3>1, <4>1, <4>3, <4>4 DEF NoGame
    <3> QED
      BY <3>1
  <2>2. \A r \in Slots : where'[r] \in {"capture", "reset"} => game'[r] = "doom"
    BY <1>1, <1>3, <1>6, <2>1 DEF InputInv, InputTyped, Threads
  <2> QED
    BY <1>1, <1>2, <1>4, <1>5, <2>2 DEF InputInv, InputTyped, Spots
<1>9. Owed'
  <2>1. \E r \in Slots : where'[r] \notin {"free", "signal"} /\ where'[r] # "free"
    BY <1>7
  <2>2. s_kbd_capture => \E r \in Slots : game'[r] = "doom" /\ where'[r] \in {"reset", "play"}
    <3>1. ASSUME s_kbd_capture
          PROVE  \E r \in Slots : game'[r] = "doom" /\ where'[r] \in {"reset", "play"}
      <4>1. PICK r \in Slots : game[r] = "doom" /\ where[r] \in {"reset", "play"}
        BY <3>1 DEF InputInv, Owed
      <4>2. r # s /\ r \in Threads
        BY <1>7, <4>1 DEF Threads
      <4> QED
        BY <1>3, <1>6, <4>1, <4>2
    <3> QED
      BY <3>1
  <2>3. pending' # NoGame => \E r \in Slots : where'[r] \in {"start", "clear"}
    BY <1>5, <1>7
  <2> QED
    BY <1>1, <2>1, <2>2, <2>3 DEF Owed
<1>10. Faithful'
  BY <1>1, <1>3, <1>7, KeysUntouched DEF InputInv, Threads
<1> QED
  BY <1>8, <1>9, <1>10 DEF InputInv

\* kb_game_capture(1): until the reset nothing is claimed of the map.
LEMMA CaptureKeeps ==
    ASSUME InputInv, NEW s \in Slots, Capture(s)
    PROVE  InputInv'
<1>1. /\ UNCHANGED <<is_gui_active, pending, done, unspawned, game, s_key_down, s_ks_ext>>
      /\ UNCHANGED <<whole, due, since>> /\ s_game_buf' = <<>> /\ where[s] = "capture"
      /\ where' = [where EXCEPT ![s] = "reset"] /\ s \in Threads
  BY DEF Capture, Goto, keyboard, arcade, Threads
<1>2. \A u \in Threads : where'[u] = IF u = s THEN "reset" ELSE where[u]
  BY <1>1 DEF InputInv, InputTyped
<1>3. InputTyped'
  BY <1>1, EmptySeq DEF InputInv, InputTyped, Spots
<1>4. where'[s] = "reset"
  BY <1>1, <1>2
<1>5. Owed'
  <2>1. game'[s] = "doom"
    BY <1>1 DEF InputInv, InputTyped
  <2>2. s_kbd_capture' => \E r \in Slots : game'[r] = "doom" /\ where'[r] \in {"reset", "play"}
    BY <1>4, <2>1
  <2>3. pending # NoGame => \/ unspawned
                            \/ \E t \in Threads : where'[t] = "spawn"
                            \/ \E r \in Slots : where'[r] \in {"start", "clear"}
    BY <1>1, <1>2 DEF InputInv, Owed, Threads
  <2>4. \E r \in Slots : where'[r] \notin {"free", "signal"} /\ where'[r] # "free"
    BY <1>4
  <2> QED
    BY <1>1, <2>2, <2>3, <2>4 DEF Owed
<1>6. Faithful'
  BY <1>4 DEF Faithful
<1> QED
  BY <1>3, <1>5, <1>6 DEF InputInv

\* kb_keystate_reset: map and ring are empty, and if no prefix is under way the
\* truth is too.
LEMMA ResetKeeps ==
    ASSUME InputInv, NEW s \in Slots, Reset(s)
    PROVE  InputInv'
<1>1. /\ UNCHANGED <<is_gui_active, s_kbd_capture, pending, done, unspawned, game, due>>
      /\ s_game_buf' = <<>> /\ s_key_down' = {} /\ s_ks_ext' = FALSE /\ since' = {}
      /\ whole' = (due = {} /\ s_kbd_capture) /\ where[s] = "reset"
      /\ where' = [where EXCEPT ![s] = "play"] /\ s \in Threads
  BY DEF Reset, KeysReset, Goto, flags, arcade, Threads
<1>2. \A u \in Threads : where'[u] = IF u = s THEN "play" ELSE where[u]
  BY <1>1 DEF InputInv, InputTyped
<1>3. InputTyped'
  <2>1. \A r \in Slots : where'[r] \in {"capture", "reset"} => game'[r] = "doom"
    BY <1>1, <1>2 DEF InputInv, InputTyped, Threads
  <2>2. whole' \in BOOLEAN
    BY <1>1, Zenon
  <2> QED
    BY <1>1, <2>1, <2>2, EmptySeq DEF InputInv, InputTyped, Spots
<1>4. where'[s] = "play"
  BY <1>1, <1>2
<1>5. Owed'
  <2>1. s_kbd_capture => \E r \in Slots : game[r] = "doom" /\ where'[r] \in {"reset", "play"}
    BY <1>2 DEF InputInv, Owed, Threads
  <2>2. pending # NoGame => \/ unspawned
                            \/ \E t \in Threads : where'[t] = "spawn"
                            \/ \E r \in Slots : where'[r] \in {"start", "clear"}
    BY <1>1, <1>2 DEF InputInv, Owed, Threads
  <2>3. \E r \in Slots : where'[r] \notin {"free", "signal"} /\ where'[r] # "free"
    BY <1>4
  <2> QED
    BY <1>1, <2>1, <2>2, <2>3 DEF Owed
<1>6. Faithful'
  <2>1. Len(s_game_buf') = 0
    BY <1>1, EmptySeq
  <2>2. PICK d : d = [i \in {0} |-> {}]
    OBVIOUS
  <2>3. Replays(d)'
    BY <1>1, <2>1, <2>2 DEF Replays
  <2>4. whole' => Extended(Len(s_game_buf))' = (due # {})'
    BY <1>1, <2>1, Zenon DEF Extended
  <2> QED
    BY <2>3, <2>4 DEF Faithful
<1> QED
  BY <1>3, <1>5, <1>6 DEF InputInv

\* ks_process takes the first byte of the ring and does what the replay says.
LEMMA PollKeeps ==
    ASSUME InputInv, NEW s \in Slots, Poll(s)
    PROVE  InputInv'
<1>1. /\ UNCHANGED <<is_gui_active, s_kbd_capture, pending, done, unspawned, game, where>>
      /\ UNCHANGED <<whole, due, since>>
      /\ s_game_buf # <<>> /\ s_game_buf' = Tail(s_game_buf)
  BY DEF Poll, keyboard, flags, arcade
<1>2. PICK n \in Nat \ {0} : Len(s_game_buf) = n
  BY <1>1, EmptySeq DEF InputInv, InputTyped
<1>3. /\ s_game_buf' \in Seq(Bytes) /\ Len(s_game_buf') = n - 1
      /\ \A i \in 1 .. n - 1 : s_game_buf'[i] = s_game_buf[i + 1]
  BY <1>1, <1>2, HeadTailProperties DEF InputInv, InputTyped
<1>4. Head(s_game_buf) = s_game_buf[1]
  BY <1>1 DEF InputInv, InputTyped
<1>5. /\ s_ks_ext' = (s_game_buf[1].code = "E0")
      /\ s_key_down' = Pressed(s_key_down, s_ks_ext, s_game_buf[1])
  BY <1>4 DEF Poll, Processed, Pressed
<1>6. InputTyped'
  <2>1. s_ks_ext' \in BOOLEAN
    BY <1>5, Zenon
  <2> QED
    BY <1>1, <1>3, <2>1 DEF InputInv, InputTyped
<1>7. Owed'
  BY <1>1 DEF InputInv, Owed
<1>8. \A i \in 0 .. n - 1 : Extended(i)' = Extended(i + 1)
  <2>1. ASSUME NEW i \in 0 .. n - 1
        PROVE  Extended(i)' = Extended(i + 1)
    <3>1. CASE i = 0
      <4>1. i + 1 = 1 /\ 1 # 0
        BY <3>1
      <4> QED
        BY <1>5, <3>1, <4>1, Zenon DEF Extended
    <3>2. CASE i # 0
      <4>1. i \in 1 .. n - 1 /\ i + 1 # 0
        BY <3>2
      <4>2. s_game_buf'[i] = s_game_buf[i + 1]
        BY <1>3, <4>1
      <4> QED
        BY <3>2, <4>1, <4>2, Zenon DEF Extended
    <3> QED
      BY <3>1, <3>2
  <2> QED
    BY <2>1
<1>9. Faithful'
  <2>1. SUFFICES ASSUME whole, \A r \in Slots : where[r] # "reset"
                 PROVE  Extended(n - 1)' = (due # {}) /\ \E d : Replays(d)'
    BY <1>1, <1>3 DEF Faithful
  <2>2. Extended(n) = (due # {})
    BY <1>2, <2>1 DEF InputInv, Faithful
  <2>3. PICK d : Replays(d)
    BY <2>1 DEF InputInv, Faithful
  <2>4. PICK e : e = [i \in 0 .. n - 1 |-> d[i + 1]]
    OBVIOUS
  <2>5. e[0] = s_key_down'
    BY <1>2, <1>5, <2>3, <2>4 DEF Replays, Extended
  <2>6. e[n - 1] = since
    BY <1>2, <2>3, <2>4 DEF Replays
  <2>7. ASSUME NEW i \in 1 .. n - 1
        PROVE  e[i] = Pressed(e[i - 1], Extended(i - 1)', s_game_buf'[i])
    <3>1. /\ i + 1 \in 1 .. n /\ (i + 1) - 1 = i /\ i - 1 \in 0 .. n - 1 /\ (i - 1) + 1 = i
          /\ i \in 0 .. n - 1
      OBVIOUS
    <3>2. d[i + 1] = Pressed(d[i], Extended(i), s_game_buf[i + 1])
      BY <1>2, <2>3, <3>1 DEF Replays
    <3>3. e[i] = d[i + 1] /\ e[i - 1] = d[i]
      BY <2>4, <3>1
    <3>4. Extended(i - 1)' = Extended(i)
      BY <1>8, <3>1
    <3>5. s_game_buf'[i] = s_game_buf[i + 1]
      BY <1>3
    <3> QED
      BY <3>2, <3>3, <3>4, <3>5, Zenon
  <2>8. Replays(e)'
    BY <1>1, <1>3, <2>5, <2>6, <2>7 DEF Replays
  <2>9. Extended(n - 1)' = Extended(n)
    BY <1>2, <1>8
  <2> QED
    BY <2>2, <2>8, <2>9
<1> QED
  BY <1>6, <1>7, <1>9 DEF InputInv

\* The player leaves the game.
LEMMA QuitKeeps ==
    ASSUME InputInv, NEW s \in Slots, Quit(s)
    PROVE  InputInv'
<1>1. /\ UNCHANGED <<is_gui_active, pending, done, unspawned, game, due>>
      /\ UNCHANGED <<s_key_down, s_ks_ext, since>>
      /\ where[s] = "play" /\ where' = [where EXCEPT ![s] = "restore"] /\ s \in Threads
      /\ IF game[s] = "doom"
         THEN ~s_kbd_capture' /\ s_game_buf' = <<>> /\ ~whole' /\ whole' \in BOOLEAN
         ELSE UNCHANGED <<s_kbd_capture, s_game_buf, whole>>
  BY DEF Quit, Goto, keyboard, arcade, Threads
<1>2. \A u \in Threads : where'[u] = IF u = s THEN "restore" ELSE where[u]
  BY <1>1 DEF InputInv, InputTyped
<1>3. InputTyped'
  <2>1. \A r \in Slots : where'[r] \in {"capture", "reset"} => where[r] = where'[r]
    BY <1>2 DEF Threads
  <2> QED
    BY <1>1, <2>1, EmptySeq DEF InputInv, InputTyped, Spots
<1>4. Owed'
  <2>1. s_kbd_capture' => \E r \in Slots : game[r] = "doom" /\ where'[r] \in {"reset", "play"}
    BY <1>1, <1>2 DEF InputInv, Owed, Threads
  <2>2. pending # NoGame => \/ unspawned
                            \/ \E t \in Threads : where'[t] = "spawn"
                            \/ \E r \in Slots : where'[r] \in {"start", "clear"}
    BY <1>1, <1>2 DEF InputInv, Owed, Threads
  <2>3. \E r \in Slots : where'[r] \notin {"free", "signal"} /\ where'[r] # "free"
    BY <1>1, <1>2
  <2> QED
    BY <1>1, <2>1, <2>2, <2>3 DEF Owed
<1>5. Faithful'
  <2>1. CASE game[s] = "doom"
    BY <1>1, <2>1 DEF Faithful
  <2>2. CASE game[s] # "doom"
    BY <1>1, <1>2, <2>2, KeysUntouched DEF InputInv, Threads
  <2> QED
    BY <2>1, <2>2
<1> QED
  BY <1>3, <1>4, <1>5 DEF InputInv

\* The game gives the desktop its input back, then says it is done.
LEMMA FinishKeeps ==
    ASSUME InputInv, NEW s \in Slots, Finish(s)
    PROVE  InputInv'
<1>1. /\ UNCHANGED <<s_kbd_capture, pending, unspawned>>
      /\ UNCHANGED <<s_game_buf, s_key_down, s_ks_ext, since, whole, due>>
      /\ game' = [game EXCEPT ![s] = NoGame] /\ s \in Threads
  BY DEF Finish, keyboard, rings, keymap, Threads
<1>2. PICK spot \in {"signal", "free"} :
        /\ where' = [where EXCEPT ![s] = spot]
        /\ spot = "signal" => where[s] = "restore" /\ is_gui_active' /\ UNCHANGED done
        /\ spot = "free" => where[s] = "signal" /\ done' /\ UNCHANGED is_gui_active
  BY DEF Finish, Goto
<1>3. \A u \in Threads : where'[u] = IF u = s THEN spot ELSE where[u]
  BY <1>1, <1>2 DEF InputInv, InputTyped
<1>4. \A r \in Slots : r # s => game'[r] = game[r]
  BY <1>1 DEF InputInv, InputTyped
<1>5. where[s] \in {"restore", "signal"}
  BY <1>2
<1>6. InputTyped'
  <2>1. \A r \in Slots : where'[r] \in {"capture", "reset"} => r # s /\ where[r] = where'[r]
    BY <1>3 DEF Threads
  <2> QED
    BY <1>1, <1>2, <1>4, <2>1 DEF InputInv, InputTyped, Spots
<1>7. Owed'
  <2>1. ~is_gui_active' => \/ unspawned
                           \/ \E t \in Threads : where'[t] \in {"mark", "choose", "spawn"}
                           \/ \E r \in Slots : where'[r] \notin {"free", "signal"}
    <3>1. ASSUME ~is_gui_active', ~unspawned
          PROVE  \/ \E t \in Threads : where'[t] \in {"mark", "choose", "spawn"}
                 \/ \E r \in Slots : where'[r] \notin {"free", "signal"}
      <4>1. ~is_gui_active /\ where[s] = "signal"
        BY <1>2, <3>1
      <4>2. CASE \E t \in Threads : where[t] \in {"mark", "choose", "spawn"}
        BY <1>3, <4>1, <4>2
      <4>3. CASE \E r \in Slots : where[r] \notin {"free", "signal"}
        BY <1>3, <4>1, <4>3 DEF Threads
      <4> QED
        BY <3>1, <4>1, <4>2, <4>3 DEF InputInv, Owed
    <3> QED
      BY <3>1
  <2>2. ~done' => \/ unspawned
                  \/ \E t \in Threads : where'[t] \in {"choose", "spawn"}
                  \/ \E r \in Slots : where'[r] # "free"
    BY <1>1, <1>2, <1>3
  <2>3. s_kbd_capture => \E r \in Slots : game'[r] = "doom" /\ where'[r] \in {"reset", "play"}
    <3>1. ASSUME s_kbd_capture
          PROVE  \E r \in Slots : game'[r] = "doom" /\ where'[r] \in {"reset", "play"}
      <4>1. PICK r \in Slots : game[r] = "doom" /\ where[r] \in {"reset", "play"}
        BY <3>1 DEF InputInv, Owed
      <4> QED
        BY <1>3, <1>4, <1>5, <4>1 DEF Threads
    <3> QED
      BY <3>1
  <2>4. pending # NoGame => \/ unspawned
                            \/ \E t \in Threads : where'[t] = "spawn"
                            \/ \E r \in Slots : where'[r] \in {"start", "clear"}
    BY <1>3, <1>5 DEF InputInv, Owed, Threads
  <2> QED
    BY <1>1, <2>1, <2>2, <2>3, <2>4 DEF Owed
<1>8. Faithful'
  BY <1>1, <1>3, <1>5, KeysUntouched DEF InputInv, Threads
<1> QED
  BY <1>6, <1>7, <1>8 DEF InputInv

\* A byte that says what happened to the keys keeps the replay, if it is stored.
LEMMA GivenKeeps ==
    ASSUME InputInv, NEW b \in Bytes, HandleIrq(b),
           UNCHANGED <<s_key_down, s_ks_ext, where>>,
           since' = Pressed(since, due # {}, b),
           (due' # {}) = (b.code = "E0")
    PROVE  Faithful' /\ s_game_buf' \in Seq(Bytes) /\ whole' \in BOOLEAN
<1>1. PICK n \in Nat : Len(s_game_buf) = n
  BY DEF InputInv, InputTyped
<1>2. /\ s_game_buf' = s_game_buf \/ s_game_buf' = Append(s_game_buf, b)
      /\ whole' => whole /\ s_game_buf' = Append(s_game_buf, b)
      /\ whole' \in BOOLEAN
  BY DEF HandleIrq, InputInv, InputTyped
<1>3. s_game_buf' \in Seq(Bytes)
  BY <1>2 DEF InputInv, InputTyped
<1>4. Faithful'
  <2>1. SUFFICES ASSUME whole', \A r \in Slots : where[r] # "reset"
                 PROVE  /\ Len(s_game_buf') = n + 1
                        /\ Extended(n + 1)' = (due' # {})
                        /\ \E d : Replays(d)'
    BY Zenon DEF Faithful
  <2>2. /\ Len(s_game_buf') = n + 1 /\ s_game_buf'[n + 1] = b
        /\ \A i \in 1 .. n : s_game_buf'[i] = s_game_buf[i]
    BY <1>1, <1>2, <2>1 DEF InputInv, InputTyped
  <2>3. \A i \in 0 .. n : Extended(i)' = Extended(i)
    <3>1. ASSUME NEW i \in 0 .. n
          PROVE  Extended(i)' = Extended(i)
      <4>1. CASE i = 0
        BY <4>1, Zenon DEF Extended
      <4>2. CASE i # 0
        <5>1. i \in 1 .. n
          BY <4>2
        <5> QED
          BY <2>2, <4>2, <5>1, Zenon DEF Extended
      <4> QED
        BY <4>1, <4>2
    <3> QED
      BY <3>1
  <2>4. Extended(n + 1)' = (due' # {})
    <3>1. n + 1 # 0
      OBVIOUS
    <3> QED
      BY <2>2, <3>1, Zenon DEF Extended
  <2>5. Extended(n) = (due # {})
    BY <1>1, <1>2, <2>1 DEF InputInv, Faithful
  <2>6. PICK d : Replays(d)
    BY <1>2, <2>1 DEF InputInv, Faithful
  <2>7. PICK e : e = [i \in 0 .. n + 1 |-> IF i = n + 1 THEN since' ELSE d[i]]
    OBVIOUS
  <2>8. e[n + 1] = since' /\ e[n] = since /\ e[0] = s_key_down'
    BY <1>1, <2>6, <2>7 DEF Replays
  <2>9. ASSUME NEW i \in 1 .. n + 1
        PROVE  e[i] = Pressed(e[i - 1], Extended(i - 1)', s_game_buf'[i])
    <3>1. CASE i = n + 1
      <4>1. i - 1 = n /\ n \in 0 .. n
        BY <3>1
      <4>2. e[i] = Pressed(since, due # {}, b)
        BY <2>8, <3>1
      <4>3. Extended(i - 1)' = (due # {})
        BY <2>3, <2>5, <4>1
      <4> QED
        BY <2>2, <2>8, <3>1, <4>1, <4>2, <4>3, Zenon
    <3>2. CASE i # n + 1
      <4>1. /\ i \in 1 .. n /\ i \in 0 .. n + 1
            /\ i - 1 \in 0 .. n /\ i - 1 # n + 1 /\ i - 1 \in 0 .. n + 1
        BY <3>2
      <4>2. d[i] = Pressed(d[i - 1], Extended(i - 1), s_game_buf[i])
        BY <1>1, <2>6, <4>1 DEF Replays
      <4>3. e[i] = d[i] /\ e[i - 1] = d[i - 1]
        BY <2>7, <3>2, <4>1
      <4>4. Extended(i - 1)' = Extended(i - 1)
        BY <2>3, <4>1
      <4>5. s_game_buf'[i] = s_game_buf[i]
        BY <2>2, <4>1
      <4> QED
        BY <4>2, <4>3, <4>4, <4>5, Zenon
    <3> QED
      BY <3>1, <3>2
  <2>10. Replays(e)'
    BY <2>2, <2>8, <2>9 DEF Replays
  <2> QED
    BY <2>2, <2>4, <2>10
<1> QED
  BY <1>2, <1>3, <1>4

\* IRQ1: one byte of a key that goes down or up.
LEMMA StrikeKeeps ==
    ASSUME InputInv, NEW k \in Keys, Strike(k)
    PROVE  InputInv'
<1>1. /\ UNCHANGED <<is_gui_active, s_kbd_capture, pending, done, unspawned, game, where>>
      /\ UNCHANGED <<s_key_down, s_ks_ext>>
  BY DEF Strike, flags, arcade
<1>2. k = <<k[1], k[2]>> /\ k[1] \in BOOLEAN /\ k[2] \in Codes /\ k[2] # "E0"
  BY InputAssumption DEF Keys
<1>3. /\ Faithful' /\ s_game_buf' \in Seq(Bytes) /\ whole' \in BOOLEAN
      /\ due' = {} \/ \E c \in Keys : c[1] /\ due' = {c}
  <2>1. CASE due = {} /\ k[1] /\ HandleIrq(Prefix) /\ due' = {k} /\ UNCHANGED <<held, since>>
    <3>1. Prefix \in Bytes /\ Prefix.code = "E0"
      BY DEF Prefix, Bytes
    <3>2. since' = Pressed(since, due # {}, Prefix)
      BY <2>1, <3>1 DEF Pressed
    <3>3. (due' # {}) = (Prefix.code = "E0")
      BY <2>1, <3>1
    <3> QED
      BY <1>1, <2>1, <3>1, <3>2, <3>3, GivenKeeps
  <2>2. CASE due = (IF k[1] THEN {k} ELSE {}) /\ SendCode(k) /\ due' = {}
    <3>1. PICK b \in Bytes : b = [code |-> k[2], up |-> k \in held]
      <4>1. (k \in held) \in BOOLEAN
        OBVIOUS
      <4> QED
        BY <1>2, <4>1 DEF Bytes
    <3>2. HandleIrq(b) /\ since' = IF b.up THEN since \ {k} ELSE since \union {k}
      BY <2>2, <3>1 DEF SendCode
    <3>3. b.code = k[2] /\ b.code # "E0"
      BY <1>2, <3>1
    <3>4. (due # {}) = k[1]
      BY <1>2, <2>2
    <3>5. since' = Pressed(since, due # {}, b)
      BY <1>2, <3>2, <3>3, <3>4, Zenon DEF Pressed
    <3>6. (due' # {}) = (b.code = "E0")
      BY <2>2, <3>3
    <3> QED
      BY <1>1, <2>2, <3>2, <3>5, <3>6, GivenKeeps
  <2> QED
    BY <2>1, <2>2 DEF Strike
<1>4. InputTyped'
  BY <1>1, <1>3 DEF InputInv, InputTyped
<1>5. Owed'
  BY <1>1 DEF InputInv, Owed
<1> QED
  BY <1>3, <1>4, <1>5 DEF InputInv

\* Every step keeps the invariant.
LEMMA InputStep == InputInv /\ [InputNext]_inputVars => InputInv'
<1> SUFFICES ASSUME InputInv, [InputNext]_inputVars
             PROVE  InputInv'
  OBVIOUS
<1>1. CASE UNCHANGED inputVars
  <2>1. /\ UNCHANGED <<where, game, s_game_buf, s_key_down, s_ks_ext, since, whole, due>>
        /\ UNCHANGED <<is_gui_active, s_kbd_capture, pending, done, unspawned>>
    BY <1>1 DEF inputVars, keyboard, flags, rings, keymap, arcade
  <2>2. InputTyped' /\ Owed'
    BY <2>1 DEF InputInv, InputTyped, Owed
  <2>3. Faithful'
    BY <2>1, KeysUntouched DEF InputInv
  <2> QED
    BY <2>2, <2>3 DEF InputInv
<1>2. CASE InputNext
  BY <1>2, StrikeKeeps, GetCharKeeps, LaunchKeeps, SpawnKeeps, BeginKeeps, CaptureKeeps,
     ResetKeeps, PollKeeps, QuitKeeps, FinishKeeps DEF InputNext
<1> QED
  BY <1>1, <1>2

\* What the invariant gives to the desktop and to a game.
LEMMA InputGives == InputInv => InputRight
<1> SUFFICES ASSUME InputInv
             PROVE  InputRight
  OBVIOUS
<1>1. GuiReturned
  BY DEF InputInv, Owed, GuiReturned, Alive
<1>2. KeysTrue
  <2>1. SUFFICES ASSUME NEW s \in Slots, Alive = {s}, where[s] = "play", whole, s_game_buf = <<>>
                 PROVE  s_key_down = since
    BY DEF KeysTrue
  <2>2. \A r \in Slots : where[r] # "reset"
    BY <2>1 DEF Alive
  <2>3. PICK d : Replays(d)
    BY <2>1, <2>2 DEF InputInv, Faithful
  <2> QED
    BY <2>1, <2>3, EmptySeq DEF Replays
<1> QED
  BY <1>1, <1>2 DEF InputRight
-----------------------------------------------------------------------------
(* The mouse: what a packet says. *)

\* The bits of a header stand where its sender put them.
LEMMA HeaderBits ==
    ASSUME NEW b \in 0 .. 7, NEW u \in 0 .. 1, NEW v \in 0 .. 1, NEW o \in 0 .. 1,
           NEW h, h = 8 + b + 16 * u + 32 * v + 64 * o
    PROVE  /\ HasBit(h, 8) /\ ~HasBit(h, 128)
           /\ HasBit(h, 16) <=> u = 1
           /\ HasBit(h, 32) <=> v = 1
           /\ HasBit(h, 64) <=> o = 1
           /\ h % 8 = b
<1>1. h \in Int
  OBVIOUS
<1>2. HasBit(h, 8)
  BY DEF HasBit
<1>3. ~HasBit(h, 128)
  BY DEF HasBit
<1>4. HasBit(h, 16) <=> u = 1
  BY DEF HasBit
<1>5. HasBit(h, 32) <=> v = 1
  BY DEF HasBit
<1>6. HasBit(h, 64) <=> o = 1
  BY DEF HasBit
<1>7. h % 8 = b
  OBVIOUS
<1> QED
  BY <1>2, <1>3, <1>4, <1>5, <1>6, <1>7

\* A byte and its sign bit give back a number that fits in them.
LEMMA DeltaTrue ==
    ASSUME NEW x \in Int, Size(x) <= 255, NEW h, NEW sign, HasBit(h, sign) <=> x < 0
    PROVE  Delta(h, sign, x % 256) = x
<1>1. CASE x < 0
  <2>1. x >= -255
    BY <1>1 DEF Size
  <2>2. x % 256 = x + 256
    BY <1>1, <2>1
  <2> QED
    BY <1>1, <2>2 DEF Delta
<1>2. CASE ~(x < 0)
  <2>1. x <= 255
    BY <1>2 DEF Size
  <2>2. x % 256 = x
    BY <1>2, <2>1
  <2> QED
    BY <1>2, <2>2 DEF Delta
<1> QED
  BY <1>1, <1>2

\* A packet starts with a byte that starts one, says whether the motion fits in
\* it, and if it does tells the motion; it always tells the buttons.
LEMMA PacketRead ==
    ASSUME NEW m \in Int \X Int, NEW b \in 0 .. 7, NEW p, p = Packet(m, b)
    PROVE  /\ p \in Seq(Int) /\ Len(p) = 3
           /\ Starts(p[1])
           /\ Unreliable(p[1]) <=> Overflows(m)
           /\ ~Overflows(m) => << Delta(p[1], 16, p[2]), Delta(p[1], 32, p[3]) >> = m
<1>1. PICK x \in Int, y \in Int : m = <<x, y>>
  OBVIOUS
<1>2. PICK u \in 0 .. 1 : u = Bit(x < 0)
  BY DEF Bit
<1>3. PICK v \in 0 .. 1 : v = Bit(y < 0)
  BY DEF Bit
<1>4. PICK o \in 0 .. 1 : o = Bit(Overflows(m))
  BY DEF Bit
<1>5. PICK h \in Int : h = 8 + b + 16 * u + 32 * v + 64 * o
  OBVIOUS
<1>6. p = <<h, x % 256, y % 256>>
  BY <1>1, <1>2, <1>3, <1>4, <1>5 DEF Packet
<1>7. x % 256 \in Int /\ y % 256 \in Int
  OBVIOUS
<1>8. /\ HasBit(h, 8) /\ ~HasBit(h, 128)
      /\ HasBit(h, 16) <=> u = 1
      /\ HasBit(h, 32) <=> v = 1
      /\ HasBit(h, 64) <=> o = 1
  BY <1>5, HeaderBits
<1>9. (u = 1 <=> x < 0) /\ (v = 1 <=> y < 0) /\ (o = 1 <=> Overflows(m))
  <2>1. u = 1 <=> x < 0
    BY <1>2 DEF Bit
  <2>2. v = 1 <=> y < 0
    BY <1>3 DEF Bit
  <2>3. o = 1 <=> Overflows(m)
    BY <1>4 DEF Bit
  <2> QED
    BY <2>1, <2>2, <2>3
<1>10. ASSUME ~Overflows(m)
       PROVE  << Delta(p[1], 16, p[2]), Delta(p[1], 32, p[3]) >> = m
  <2>1. Size(x) \in Int /\ Size(y) \in Int
    BY DEF Size
  <2>2. Size(x) <= 255 /\ Size(y) <= 255
    BY <1>1, <1>10, <2>1 DEF Overflows
  <2>3. Delta(h, 16, x % 256) = x
    BY <1>8, <1>9, <2>2, DeltaTrue
  <2>4. Delta(h, 32, y % 256) = y
    BY <1>8, <1>9, <2>2, DeltaTrue
  <2> QED
    BY <1>1, <1>6, <2>3, <2>4
<1> QED
  BY <1>6, <1>7, <1>8, <1>9, <1>10 DEF Starts, Unreliable
-----------------------------------------------------------------------------
(* The mouse: what holds between two bytes. *)

MouseTyped ==
    /\ motion \in Int \X Int /\ press \in 0 .. 7 /\ packets \in Nat
    /\ wire \in Seq(Int) /\ s_pkt_byte \in 0 .. 2 /\ s_packet \in [1 .. 3 -> Int]
    /\ s_rel \in Int \X Int /\ moved \in Int \X Int /\ taken \in Int \X Int
    /\ events \in Seq([button : BOOLEAN, buttons : Int])

\* What is on the wire is the rest of a packet whose start the driver has kept.
Framed ==
    IF packets = 0
    THEN /\ wire = <<>> \/ \E s : wire = <<s>> /\ ~HasBit(s, 8)
         /\ s_pkt_byte = 0
    ELSE /\ wire = <<>> => s_pkt_byte = 0
         /\ wire # <<>> => /\ Len(wire) = 3 - s_pkt_byte
                           /\ \A j \in 1 .. Len(wire) :
                                 wire[j] = Packet(motion, press)[s_pkt_byte + j]
                           /\ \A j \in 1 .. s_pkt_byte : s_packet[j] = Packet(motion, press)[j]

\* The pointer and the game's sum are those of the motions told so far.
Exact == /\ <<s_gui_x, s_gui_y>> = pointer
         /\ s_capture => Plus(taken, s_rel) = moved

\* Each waiting event tells how the buttons differ from the event before it.
Told ==
    /\ events = <<>> => seen = prev_buttons
    /\ events # <<>> => /\ events[1].button <=> events[1].buttons # seen
                        /\ events[Len(events)].buttons = prev_buttons
    /\ \A i \in 2 .. Len(events) : events[i].button <=> events[i].buttons # events[i - 1].buttons

MouseInv == MouseTyped /\ (aligned => Framed /\ Exact) /\ (~dropped => Told)

\* The mouse starts so.
LEMMA MouseStart == MouseInit => MouseInv
<1> SUFFICES ASSUME MouseInit
             PROVE  MouseInv
  OBVIOUS
<1>1. wire = <<>> \/ \E s \in Int : wire = <<s>>
  BY MouseAssumption DEF MouseInit
<1>2. MouseTyped
  <2>1. <<0, 0, 0>> \in [1 .. 3 -> Int] /\ <<0, 0>> \in Int \X Int
    OBVIOUS
  <2>2. wire \in Seq(Int)
    <3>1. CASE wire = <<>>
      BY <3>1, EmptySeq
    <3>2. CASE \E s \in Int : wire = <<s>>
      BY <3>2
    <3> QED
      BY <1>1, <3>1, <3>2
  <2>3. events \in Seq([button : BOOLEAN, buttons : Int])
    BY EmptySeq DEF MouseInit
  <2> QED
    BY <2>1, <2>2, <2>3 DEF MouseInit, MouseTyped
<1>3. Told
  BY DEF MouseInit, Told
<1>4. Exact
  BY DEF MouseInit, Exact
<1>5. ASSUME aligned
      PROVE  Framed
  <2>1. wire = <<>> \/ \E s : wire = <<s>> /\ ~HasBit(s, 8)
    <3>1. CASE wire = <<>>
      BY <3>1
    <3>2. CASE \E s \in Int : wire = <<s>>
      <4>1. PICK s \in Int : wire = <<s>>
        BY <3>2
      <4>2. 1 \in DOMAIN wire /\ wire[1] = s
        BY <4>1
      <4>3. \A i \in DOMAIN wire : ~HasBit(wire[i], 8)
        BY <1>5 DEF MouseInit
      <4> QED
        BY <4>1, <4>2, <4>3
    <3> QED
      BY <1>1, <3>1, <3>2
  <2> QED
    BY <2>1 DEF MouseInit, Framed
<1> QED
  BY <1>2, <1>3, <1>4, <1>5 DEF MouseInv

\* A move sends a whole packet.
LEMMA MoveKeeps ==
    ASSUME MouseInv, NEW m \in Motions, NEW b \in Presses, Move(m, b)
    PROVE  MouseInv'
<1>1. m \in Int \X Int /\ b \in 0 .. 7
  BY MouseAssumption
<1>2. PICK p : p = Packet(m, b)
  OBVIOUS
<1>3. p \in Seq(Int) /\ Len(p) = 3
  BY <1>1, <1>2, PacketRead
<1>4. MouseTyped'
  <2>1. wire' = p /\ motion' = m /\ press' = b /\ packets' = packets + 1
    BY <1>2 DEF Move
  <2>2. UNCHANGED <<s_pkt_byte, s_packet, s_rel, moved, taken, events>>
    BY DEF Move, parser, looking, queueing
  <2> QED
    BY <1>1, <1>3, <2>1, <2>2 DEF MouseInv, MouseTyped
<1>5. ASSUME aligned
      PROVE  Framed'
  <2>1. s_pkt_byte = 0
    BY <1>5 DEF Move, MouseInv, Framed
  <2>2. packets' # 0
    <3>1. packets' = packets + 1 /\ packets \in Nat
      BY DEF Move, MouseInv, MouseTyped
    <3> QED
      BY <3>1
  <2>3. \A j \in 1 .. 3 : wire'[j] = Packet(m, b)[s_pkt_byte + j]
    BY <2>1 DEF Move
  <2> QED
    BY <1>2, <1>3, <2>1, <2>2, <2>3 DEF Move, Framed, parser
<1>6. Exact' <=> Exact
  BY DEF Move, Exact, cursor, looking
<1>7. Told' <=> Told
  BY DEF Move, Told, queueing
<1> QED
  BY <1>4, <1>5, <1>6, <1>7 DEF MouseInv, Move, queueing

\* PushMouse keeps the events told apart.
LEMMA PushKeeps ==
    ASSUME events \in Seq([button : BOOLEAN, buttons : Int]), ~dropped => Told,
           NEW b \in Int, PushMouse(b), UNCHANGED seen
    PROVE  /\ events' \in Seq([button : BOOLEAN, buttons : Int])
           /\ ~dropped' => Told'
<1>1. (b # prev_buttons) \in BOOLEAN
  OBVIOUS
<1>2. PICK e : e = [button |-> b # prev_buttons, buttons |-> b]
  OBVIOUS
<1>3. e \in [button : BOOLEAN, buttons : Int] /\ e.buttons = b
  BY <1>1, <1>2
<1>4. e.button <=> b # prev_buttons
  BY <1>2
<1>5. CASE Len(events) < EventMax
  <2>1. events' = Append(events, e) /\ prev_buttons' = b /\ dropped' = dropped
    BY <1>2, <1>5 DEF PushMouse
  <2>2. PICK n \in Nat : Len(events) = n
    OBVIOUS
  <2>3. /\ Len(events') = n + 1 /\ events'[n + 1] = e
        /\ \A i \in 1 .. n : events'[i] = events[i]
        /\ events' \in Seq([button : BOOLEAN, buttons : Int])
    BY <1>3, <2>1, <2>2
  <2>4. ASSUME ~dropped
        PROVE  Told'
    <3>1. Told
      BY <2>4
    <3>2. events' # <<>>
      BY <2>3, EmptySeq
    <3>3. events'[Len(events')].buttons = prev_buttons'
      BY <1>3, <2>1, <2>3, Zenon
    <3>4. events'[1].button <=> events'[1].buttons # seen
      <4>1. CASE n = 0
        <5>1. events = <<>>
          BY <2>2, <4>1, EmptySeq
        <5>2. seen = prev_buttons
          BY <3>1, <5>1 DEF Told
        <5>3. events'[1] = e
          BY <2>3, <4>1
        <5> QED
          BY <1>3, <1>4, <5>2, <5>3
      <4>2. CASE n # 0
        <5>1. events # <<>> /\ events'[1] = events[1]
          BY <2>2, <2>3, <4>2, EmptySeq
        <5> QED
          BY <3>1, <5>1 DEF Told
      <4> QED
        BY <4>1, <4>2
    <3>5. ASSUME NEW i \in 2 .. n + 1
          PROVE  events'[i].button <=> events'[i].buttons # events'[i - 1].buttons
      <4>1. CASE i = n + 1
        <5>1. n # 0 /\ i - 1 = n /\ n \in 1 .. n
          BY <4>1
        <5>2. events'[i] = e /\ events'[i - 1] = events[n]
          BY <2>3, <4>1, <5>1
        <5>3. events[n].buttons = prev_buttons
          <6>1. events # <<>>
            BY <2>2, <5>1, EmptySeq
          <6> QED
            BY <2>2, <3>1, <6>1 DEF Told
        <5> QED
          BY <1>3, <1>4, <5>2, <5>3
      <4>2. CASE i # n + 1
        <5>1. i \in 2 .. n /\ i \in 1 .. n /\ i - 1 \in 1 .. n
          BY <4>2
        <5>2. events'[i] = events[i] /\ events'[i - 1] = events[i - 1]
          BY <2>3, <5>1
        <5> QED
          BY <2>2, <3>1, <5>1, <5>2 DEF Told
      <4> QED
        BY <4>1, <4>2
    <3> QED
      BY <2>3, <3>2, <3>3, <3>4, <3>5 DEF Told
  <2> QED
    BY <2>1, <2>3, <2>4
<1>6. CASE ~(Len(events) < EventMax)
  BY <1>6 DEF PushMouse
<1> QED
  BY <1>5, <1>6

\* Motions add up.
LEMMA PlusPairs ==
    ASSUME NEW t \in Int \X Int, NEW u \in Int \X Int, NEW v \in Int \X Int
    PROVE  Plus(u, v) \in Int \X Int /\ Plus(t, Plus(u, v)) = Plus(Plus(t, u), v)
BY DEF Plus

\* A packet that is dropped for its overflow changes nothing; another one moves
\* the pointer or adds to the game's sum.
LEMMA PacketKeeps ==
    ASSUME MouseInv, NEW p, p = Packet(motion, press), HandlePacket(p), UNCHANGED seen,
           UNCHANGED <<motion, s_capture, taken>>,
           IF Overflows(motion) THEN UNCHANGED <<moved, pointer>>
           ELSE IF s_capture THEN moved' = Plus(moved, motion) /\ UNCHANGED pointer
           ELSE pointer' = Reached(pointer, Accelerated(motion)) /\ UNCHANGED moved
    PROVE  Exact => Exact'
<1>1. Unreliable(p[1]) <=> Overflows(motion)
  BY PacketRead DEF MouseInv, MouseTyped
<1>2. CASE Overflows(motion)
  BY <1>1, <1>2 DEF HandlePacket, Exact, cursor
<1>3. CASE ~Overflows(motion)
  <2>1. << Delta(p[1], 16, p[2]), Delta(p[1], 32, p[3]) >> = motion
    BY <1>3, PacketRead DEF MouseInv, MouseTyped
  <2>2. PICK to : to = Reached(<<s_gui_x, s_gui_y>>, Accelerated(motion))
    OBVIOUS
  <2>3. CASE s_capture
    <3>1. s_rel' = Plus(s_rel, motion) /\ UNCHANGED <<s_gui_x, s_gui_y>>
      BY <1>1, <1>3, <2>1, <2>3 DEF HandlePacket, cursor
    <3>2. moved' = Plus(moved, motion) /\ UNCHANGED pointer
      BY <1>3, <2>3
    <3>3. Plus(taken, s_rel) = moved => Plus(taken, s_rel') = moved'
      BY <3>1, <3>2, PlusPairs DEF MouseInv, MouseTyped
    <3> QED
      BY <2>3, <3>1, <3>2, <3>3 DEF Exact
  <2>4. CASE ~s_capture
    <3>1. s_gui_x' = to[1] /\ s_gui_y' = to[2]
      BY <1>1, <1>3, <2>1, <2>2, <2>4 DEF HandlePacket
    <3>2. to = <<to[1], to[2]>>
      BY <2>2 DEF Reached
    <3>3. pointer' = Reached(pointer, Accelerated(motion))
      BY <1>3, <2>4
    <3>4. ASSUME Exact
          PROVE  <<s_gui_x', s_gui_y'>> = pointer'
      BY <2>2, <3>1, <3>2, <3>3, <3>4, Zenon DEF Exact
    <3> QED
      BY <2>4, <3>4 DEF Exact
  <2> QED
    BY <2>3, <2>4
<1> QED
  BY <1>2, <1>3

\* What a packet does to the rest.
LEMMA PacketTells ==
    ASSUME MouseInv, NEW p \in [1 .. 3 -> Int], HandlePacket(p), UNCHANGED seen
    PROVE  /\ s_rel' \in Int \X Int
           /\ events' \in Seq([button : BOOLEAN, buttons : Int])
           /\ ~dropped' => Told'
<1>1. p[1] \in Int /\ p[2] \in Int /\ p[3] \in Int
  OBVIOUS
<1>2. Delta(p[1], 16, p[2]) \in Int /\ Delta(p[1], 32, p[3]) \in Int
  BY <1>1 DEF Delta
<1>3. PICK b \in Int : b = p[1] % 8
  BY <1>1
<1>4. s_rel' \in Int \X Int
  <2>1. PICK d \in Int \X Int : d = << Delta(p[1], 16, p[2]), Delta(p[1], 32, p[3]) >>
    BY <1>2
  <2>2. s_rel' = s_rel \/ s_rel' = Plus(s_rel, d)
    BY <2>1 DEF HandlePacket
  <2>3. s_rel \in Int \X Int
    BY DEF MouseInv, MouseTyped
  <2>4. Plus(s_rel, d) \in Int \X Int
    BY <2>1, <2>3, PlusPairs
  <2> QED
    BY <2>2, <2>3, <2>4
<1>5. (UNCHANGED queueing) \/ PushMouse(b)
  BY <1>3 DEF HandlePacket
<1>6. CASE UNCHANGED queueing
  <2>1. UNCHANGED <<events, prev_buttons, dropped, seen>>
    BY <1>6 DEF queueing
  <2>2. Told' <=> Told
    BY <2>1 DEF Told
  <2> QED
    BY <1>4, <2>1, <2>2 DEF MouseInv, MouseTyped
<1>7. CASE PushMouse(b)
  <2>1. events \in Seq([button : BOOLEAN, buttons : Int]) /\ (~dropped => Told)
    BY DEF MouseInv, MouseTyped
  <2> QED
    BY <1>4, <1>7, <2>1, PushKeeps
<1> QED
  BY <1>5, <1>6, <1>7

\* The driver takes one byte.
LEMMA ByteKeeps ==
    ASSUME MouseInv, HandleByte
    PROVE  MouseInv'
<1>1. /\ wire # <<>> /\ wire' = Tail(wire)
      /\ UNCHANGED <<motion, press, packets, aligned, s_capture, taken, seen>>
  BY DEF HandleByte
<1>t. MouseTyped
  BY DEF MouseInv
<1>2. PICK data \in Int : data = Head(wire) /\ data = wire[1]
  <2>1. wire \in Seq(Int)
    BY <1>t DEF MouseTyped
  <2> QED BY <2>1, <1>1
<1>3. PICK n \in Nat : Len(wire) = n + 1
  <2>1. Len(wire) \in Nat /\ Len(wire) # 0
    BY <1>1, <1>t, EmptySeq DEF MouseTyped
  <2>2. Len(wire) - 1 \in Nat /\ Len(wire) = (Len(wire) - 1) + 1
    BY <2>1
  <2> QED
    BY <2>2, Zenon
<1>4. /\ wire' \in Seq(Int) /\ Len(wire') = n
      /\ \A j \in 1 .. n : wire'[j] = wire[j + 1]
  BY <1>1, <1>3 DEF MouseInv, MouseTyped
<1>5. PICK k \in 0 .. 2 : s_pkt_byte = k
  <2>1. s_pkt_byte \in 0 .. 2
    BY <1>t DEF MouseTyped
  <2> QED BY <2>1
<1>6. PICK p : p = [s_packet EXCEPT ![k + 1] = data]
  OBVIOUS
<1>7. /\ p \in [1 .. 3 -> Int] /\ p[k + 1] = data
      /\ \A j \in 1 .. k : p[j] = s_packet[j]
  <2>1. s_packet \in [1 .. 3 -> Int] /\ k + 1 \in 1 .. 3 /\ (\A j \in 1 .. k : j \in 1 .. 3 /\ j # k + 1)
    BY <1>5, <1>t DEF MouseTyped
  <2> QED BY <2>1, <1>6
<1>8. CASE k = 0 /\ ~Starts(data)
  <2>1. UNCHANGED <<s_pkt_byte, s_packet, s_gui_x, s_gui_y, s_rel, events, prev_buttons, dropped>>
    BY <1>2, <1>5, <1>8 DEF HandleByte, parser, cursor, queueing
  <2>2. moved' \in Int \X Int
    <3>1. moved' = moved \/ moved' = Plus(moved, motion)
      BY DEF HandleByte
    <3> QED
      BY <3>1, PlusPairs DEF MouseInv, MouseTyped
  <2>3. MouseTyped'
    BY <1>1, <1>4, <2>1, <2>2 DEF MouseInv, MouseTyped
  <2>4. ~dropped' => Told'
    BY <1>1, <2>1 DEF MouseInv, Told
  <2>5. ASSUME aligned
        PROVE  Framed' /\ Exact'
    <3>1. packets = 0
      <4>1. SUFFICES ASSUME packets # 0
                     PROVE  FALSE
        OBVIOUS
      <4>2. data = Packet(motion, press)[1]
        <5>1. wire[1] = Packet(motion, press)[s_pkt_byte + 1]
          BY <1>1, <1>3, <2>5, <4>1 DEF MouseInv, Framed
        <5> QED
          BY <1>2, <1>5, <1>8, <5>1
      <4> QED
        BY <1>8, <4>2, PacketRead DEF MouseInv, MouseTyped
    <3>2. UNCHANGED <<moved, pointer>>
      BY <3>1 DEF HandleByte
    <3>3. Exact'
      BY <1>1, <2>1, <2>5, <3>2 DEF MouseInv, Exact
    <3>4. n = 0
      <4>1. \E s : wire = <<s>>
        BY <1>1, <2>5, <3>1 DEF MouseInv, Framed
      <4> QED
        BY <1>3, <4>1
    <3>5. Framed'
      BY <1>1, <1>4, <1>5, <1>8, <2>1, <3>1, <3>4, EmptySeq DEF Framed
    <3> QED
      BY <3>3, <3>5
  <2> QED
    BY <1>1, <2>3, <2>4, <2>5 DEF MouseInv
<1>9. CASE ~(k = 0 /\ ~Starts(data))
  <2>1. /\ s_packet' = p /\ s_pkt_byte' = (k + 1) % 3
        /\ IF k < 2 THEN UNCHANGED <<cursor, s_buttons, s_rel, queueing>>
                    ELSE HandlePacket(p)
    BY <1>2, <1>5, <1>6, <1>9 DEF HandleByte
  <2>2. /\ s_rel' \in Int \X Int
        /\ events' \in Seq([button : BOOLEAN, buttons : Int])
        /\ ~dropped' => Told'
    <3>1. CASE k < 2
      BY <1>1, <2>1, <3>1 DEF queueing, MouseInv, MouseTyped, Told
    <3>2. CASE ~(k < 2)
      BY <1>1, <1>7, <2>1, <3>2, PacketTells
    <3> QED
      BY <3>1, <3>2
  <2>3. moved' \in Int \X Int
    <3>1. moved' = moved \/ moved' = Plus(moved, motion)
      BY DEF HandleByte
    <3> QED
      BY <3>1, PlusPairs DEF MouseInv, MouseTyped
  <2>4. s_pkt_byte' \in 0 .. 2
    BY <2>1
  <2>5. MouseTyped'
    BY <1>1, <1>4, <1>7, <2>1, <2>2, <2>3, <2>4 DEF MouseInv, MouseTyped
  <2>6. ASSUME aligned
        PROVE  Framed' /\ Exact'
    <3>1. packets # 0
      <4>1. SUFFICES ASSUME packets = 0
                     PROVE  FALSE
        OBVIOUS
      <4>2. s_pkt_byte = 0 /\ \E s : wire = <<s>> /\ ~HasBit(s, 8)
        BY <1>1, <2>6, <4>1 DEF MouseInv, Framed
      <4> QED
        BY <1>2, <1>5, <1>9, <4>2 DEF Starts
    <3>2. PICK q : q = Packet(motion, press) /\ q = Packet(motion, press)'
      BY <1>1 DEF Packet
    <3>3. /\ n + 1 = 3 - k
          /\ \A j \in 1 .. n + 1 : wire[j] = q[k + j]
          /\ \A j \in 1 .. k : s_packet[j] = q[j]
      BY <1>1, <1>3, <1>5, <2>6, <3>1, <3>2 DEF MouseInv, Framed
    <3>4. p[k + 1] = q[k + 1]
      BY <1>2, <1>7, <3>3
    <3>5. \A j \in 1 .. k + 1 : p[j] = q[j]
      BY <1>7, <3>3, <3>4
    <3>6. CASE k < 2
      <4>1. n = 2 - k /\ s_pkt_byte' = k + 1
        BY <2>1, <3>3, <3>6
      <4>2. wire' # <<>>
        BY <1>4, <3>6, <4>1, EmptySeq
      <4>3. \A j \in 1 .. n : wire'[j] = q[k + 1 + j]
        <5>1. ASSUME NEW j \in 1 .. n
              PROVE  wire'[j] = q[k + 1 + j]
          <6>1. wire'[j] = wire[j + 1] /\ j + 1 \in 1 .. n + 1
            BY <1>4
          <6>2. wire[j + 1] = q[k + (j + 1)] /\ k + (j + 1) = k + 1 + j
            BY <3>3, <6>1
          <6> QED
            BY <6>1, <6>2
        <5> QED
          BY <5>1
      <4>4. Framed'
        BY <1>1, <1>4, <2>1, <3>1, <3>2, <3>5, <4>1, <4>2, <4>3 DEF Framed
      <4>5. UNCHANGED <<moved, pointer>>
        BY <1>3, <3>6, <4>1 DEF HandleByte
      <4>6. Exact'
        BY <1>1, <2>1, <2>6, <3>6, <4>5 DEF MouseInv, Exact, cursor
      <4> QED
        BY <4>4, <4>6
    <3>7. CASE ~(k < 2)
      <4>1. k = 2 /\ n = 0 /\ s_pkt_byte' = 0
        BY <2>1, <3>3, <3>7
      <4>2. wire' = <<>>
        BY <1>4, <4>1, EmptySeq
      <4>3. Framed'
        BY <1>1, <3>1, <4>1, <4>2 DEF Framed
      <4>4. p = q
        <5>1. q \in Seq(Int) /\ Len(q) = 3
          BY <3>2, PacketRead DEF MouseInv, MouseTyped
        <5>2. q \in [1 .. 3 -> Int]
          BY <5>1, LenProperties
        <5> QED
          BY <1>7, <3>5, <4>1, <5>2
      <4>5. IF Overflows(motion) THEN UNCHANGED <<moved, pointer>>
            ELSE IF s_capture THEN moved' = Plus(moved, motion) /\ UNCHANGED pointer
            ELSE pointer' = Reached(pointer, Accelerated(motion)) /\ UNCHANGED moved
        BY <1>3, <3>1, <4>1 DEF HandleByte
      <4>6. Exact => Exact'
        BY <1>1, <2>1, <3>2, <3>7, <4>4, <4>5, PacketKeeps
      <4> QED
        BY <2>6, <4>3, <4>6 DEF MouseInv
    <3> QED
      BY <3>6, <3>7
  <2> QED
    BY <1>1, <2>2, <2>5, <2>6 DEF MouseInv
<1> QED
  BY <1>8, <1>9

\* The desktop handles an event: what it has seen is then what the event says.
LEMMA PopKeeps ==
    ASSUME MouseInv, PopEvent
    PROVE  MouseInv'
<1>1. /\ events # <<>> /\ events' = Tail(events)
      /\ seen' = IF events[1].button THEN events[1].buttons ELSE seen
      /\ UNCHANGED <<motion, press, packets, wire, aligned, s_pkt_byte, s_packet, s_gui_x, s_gui_y,
                     s_capture, s_rel, moved, taken, pointer, prev_buttons, dropped>>
  BY DEF PopEvent, truth, parser, cursor, looking
<1>2. PICK n \in Nat : Len(events) = n + 1
  <2>1. Len(events) \in Nat /\ Len(events) # 0
    BY <1>1, EmptySeq DEF MouseInv, MouseTyped
  <2>2. PICK n \in Nat : n = Len(events) - 1
    BY <2>1
  <2> QED
    BY <2>1, <2>2
<1>3. /\ events' \in Seq([button : BOOLEAN, buttons : Int]) /\ Len(events') = n
      /\ \A i \in 1 .. n : events'[i] = events[i + 1]
  BY <1>1, <1>2 DEF MouseInv, MouseTyped
<1>4. MouseTyped'
  BY <1>1, <1>3 DEF MouseInv, MouseTyped
<1>5. /\ Framed' <=> Framed
      /\ Exact' <=> Exact
  BY <1>1 DEF Framed, Exact, Packet
<1>6. ASSUME ~dropped
      PROVE  Told'
  <2>1. Told
    BY <1>6 DEF MouseInv
  <2>2. seen' = events[1].buttons
    BY <1>1, <2>1 DEF Told
  <2>3. ASSUME events' = <<>>
        PROVE  seen' = prev_buttons'
    <3>1. n = 0
      BY <1>3, <2>3, EmptySeq
    <3> QED
      BY <1>1, <1>2, <2>1, <2>2, <3>1 DEF Told
  <2>4. ASSUME events' # <<>>
        PROVE  /\ events'[1].button <=> events'[1].buttons # seen'
               /\ events'[Len(events')].buttons = prev_buttons'
    <3>1. n # 0
      BY <1>3, <2>4, EmptySeq
    <3>2. events'[1] = events[2] /\ 2 \in 2 .. n + 1
      BY <1>3, <3>1
    <3>3. events[2].button <=> events[2].buttons # events[2 - 1].buttons
      BY <1>2, <2>1, <3>2 DEF Told
    <3>4. 2 - 1 = 1
      OBVIOUS
    <3>5. events'[1].button <=> events'[1].buttons # seen'
      BY <2>2, <3>2, <3>3, <3>4
    <3>6. events'[n] = events[n + 1]
      BY <1>3, <3>1
    <3>7. events[n + 1].buttons = prev_buttons
      BY <1>1, <1>2, <2>1 DEF Told
    <3> QED
      BY <1>1, <1>3, <3>5, <3>6, <3>7
  <2>5. ASSUME NEW i \in 2 .. n
        PROVE  events'[i].button <=> events'[i].buttons # events'[i - 1].buttons
    <3>1. PICK k : k = i + 1
      OBVIOUS
    <3>2. k \in 2 .. n + 1 /\ k - 1 = i /\ i \in 1 .. n /\ i - 1 \in 1 .. n /\ (i - 1) + 1 = i
      BY <3>1
    <3>3. events'[i] = events[k] /\ events'[i - 1] = events[k - 1]
      BY <1>3, <3>1, <3>2
    <3>4. events[k].button <=> events[k].buttons # events[k - 1].buttons
      BY <1>2, <2>1, <3>2 DEF Told
    <3> QED
      BY <3>3, <3>4, Zenon
  <2> QED
    BY <1>3, <2>3, <2>4, <2>5 DEF Told
<1> QED
  BY <1>1, <1>4, <1>5, <1>6 DEF MouseInv

\* The game takes the sum, or the capture begins or ends.
LEMMA LookKeeps ==
    ASSUME MouseInv, TakeRel \/ \E on \in BOOLEAN : SetCapture(on)
    PROVE  MouseInv'
<1>1. UNCHANGED <<motion, press, packets, wire, aligned, s_pkt_byte, s_packet, s_gui_x, s_gui_y,
                  pointer, events, prev_buttons, dropped, seen>>
  BY DEF TakeRel, SetCapture, truth, parser, cursor, queueing
<1>2. /\ <<0, 0>> \in Int \X Int /\ Plus(<<0, 0>>, <<0, 0>>) = <<0, 0>>
      /\ \A t \in Int \X Int : Plus(t, <<0, 0>>) = t
  BY DEF Plus
<1>3. /\ s_rel' \in Int \X Int /\ moved' \in Int \X Int /\ taken' \in Int \X Int
      /\ (s_capture => Plus(taken, s_rel) = moved) => (s_capture' => Plus(taken', s_rel') = moved')
  <2>1. CASE TakeRel
    <3>1. /\ s_capture /\ taken' = Plus(taken, s_rel) /\ s_rel' = <<0, 0>>
          /\ UNCHANGED <<s_capture, moved>>
      BY <2>1 DEF TakeRel
    <3>2. Plus(taken, s_rel) \in Int \X Int
      BY PlusPairs DEF MouseInv, MouseTyped
    <3> QED
      BY <1>2, <3>1, <3>2 DEF MouseInv, MouseTyped
  <2>2. CASE \E on \in BOOLEAN : SetCapture(on)
    <3>1. s_rel' = <<0, 0>> /\ moved' = <<0, 0>> /\ taken' = <<0, 0>>
      BY <2>2 DEF SetCapture
    <3> QED
      BY <1>2, <3>1
  <2> QED
    BY <2>1, <2>2
<1>4. MouseTyped'
  BY <1>1, <1>3 DEF MouseInv, MouseTyped
<1>5. Exact => Exact'
  BY <1>1, <1>3 DEF Exact
<1>6. Framed' <=> Framed
  BY <1>1 DEF Framed, Packet
<1>7. Told' <=> Told
  BY <1>1 DEF Told
<1> QED
  BY <1>1, <1>4, <1>5, <1>6, <1>7 DEF MouseInv

\* Every step keeps the invariant.
LEMMA MouseStep == MouseInv /\ [MouseNext]_mouseVars => MouseInv'
<1> SUFFICES ASSUME MouseInv, [MouseNext]_mouseVars
             PROVE  MouseInv'
  OBVIOUS
<1>1. CASE UNCHANGED mouseVars \/ SwitchGui
  <2>1. UNCHANGED <<motion, press, packets, wire, aligned, s_pkt_byte, s_packet, s_gui_x, s_gui_y,
                    s_capture, s_rel, moved, taken, pointer, events, prev_buttons, dropped, seen>>
    BY <1>1 DEF mouseVars, SwitchGui, truth, parser, cursor, looking, queueing
  <2>2. MouseTyped' <=> MouseTyped
    BY <2>1 DEF MouseTyped
  <2>3. /\ Framed' <=> Framed
        /\ Exact' <=> Exact
        /\ Told' <=> Told
    BY <2>1 DEF Framed, Exact, Told, Packet
  <2> QED
    BY <2>1, <2>2, <2>3 DEF MouseInv
<1>2. CASE HandleByte
  BY <1>2, ByteKeeps
<1>3. CASE \E m \in Motions, b \in Presses : Move(m, b)
  BY <1>3, MoveKeeps
<1>4. CASE PopEvent
  BY <1>4, PopKeeps
<1>5. CASE TakeRel \/ \E on \in BOOLEAN : SetCapture(on)
  BY <1>5, LookKeeps
<1> QED
  BY <1>1, <1>2, <1>3, <1>4, <1>5 DEF MouseNext

\* The invariant says what the mouse promises.
LEMMA MouseGives == MouseInv => MouseRight
<1>1. ASSUME MouseInv, wire = <<>>, aligned
      PROVE  /\ <<s_gui_x, s_gui_y>> = pointer
             /\ s_pkt_byte = 0
             /\ s_capture => Plus(taken, s_rel) = moved
  BY <1>1 DEF MouseInv, Framed, Exact
<1>2. ASSUME MouseInv, events = <<>>, ~dropped
      PROVE  seen = prev_buttons
  BY <1>2 DEF MouseInv, Told
<1> QED
  BY <1>1, <1>2 DEF MouseRight, MotionExact, ButtonsTold

-----------------------------------------------------------------------------
(* What both devices promise. *)

\* The input goes back to the desktop when the games are over (kernel.c:9649-9760),
\* and a game that plays alone knows the keys that are down (PS2Keyboard.cpp).
THEOREM InputStaysRight == InputSpec => []InputRight
<1>1. InputSpec => []InputInv
  BY InputStart, InputStep, PTL DEF InputSpec
<1> QED
  BY <1>1, InputGives, PTL

\* The pointer is where the motions put it, a game takes their exact sum, and the
\* desktop is told of the buttons (PS2Mouse.cpp, drivers/event.cpp).
THEOREM MouseStaysRight == MouseSpec => []MouseRight
<1>1. MouseSpec => []MouseInv
  BY MouseStart, MouseStep, PTL DEF MouseSpec
<1> QED
  BY <1>1, MouseGives, PTL

\* Keys, motions and buttons arrive as they were made (PS2Keyboard.cpp, PS2Mouse.cpp).
THEOREM DevicesStayRight == InputSpec /\ MouseSpec => []DevicesRight
<1>1. InputRight /\ MouseRight => DevicesRight
  BY DEF DevicesRight
<1> QED
  BY <1>1, InputStaysRight, MouseStaysRight, PTL

-----------------------------------------------------------------------------
(***************************************************************************)
(* The CircularBuffer between an interrupt and the main loop: the values   *)
(* published and not yet released lie one after the other from m_head, and *)
(* the slot that the producer writes is behind all of them.                *)
(***************************************************************************)

Published == IF producer = "idle" THEN sent ELSE sent - 1
Released == IF consumer = "release" THEN Len(received) - 1 ELSE Len(received)
Waiting == Published - Released
\* The d-th slot from m_head.
SlotAt(d) == IF m_head + d < BufferCap THEN m_head + d ELSE m_head + d - BufferCap

RingTyped ==
    /\ m_storage \in [0 .. BufferCap - 1 -> Nat]
    /\ m_head \in 0 .. BufferCap - 1 /\ m_tail \in 0 .. BufferCap - 1
    /\ producer \in {"idle", "write", "publish"} /\ consumer \in {"idle", "read", "release"}
    /\ sent \in Nat /\ received \in Seq(Nat)
Roomy ==
    /\ Waiting \in 0 .. BufferCap - 1
    /\ producer # "idle" => Waiting < BufferCap - 1
    /\ consumer # "idle" => Waiting > 0
    /\ consumer = "release" => Len(received) > 0
    /\ m_tail = SlotAt(Waiting)
Stored ==
    /\ \A d \in 0 .. BufferCap - 1 : d < Waiting => m_storage[SlotAt(d)] = Released + 1 + d
    /\ producer = "publish" => m_storage[m_tail] = sent
Arrived == \A i \in 1 .. Len(received) : received[i] = i
RingInv == RingTyped /\ Roomy /\ Stored /\ Arrived

LEMMA BufferCapIs == BufferCap \in Nat /\ BufferCap > 1
  BY ContainersAssumption

\* The next index of the buffer.
LEMMA AdvanceIs ==
    ASSUME NEW i \in 0 .. BufferCap - 1
    PROVE  Advance(i) = IF i + 1 = BufferCap THEN 0 ELSE i + 1
<1>1. BufferCap \in Nat \ {0}
  BY BufferCapIs
<1>2. CASE i + 1 = BufferCap
  BY <1>1, <1>2 DEF Advance
<1>3. CASE i + 1 < BufferCap
  BY <1>1, <1>3 DEF Advance
<1> QED BY <1>1, <1>2, <1>3

\* Slots of different distances are different slots.
LEMMA SlotsDiffer ==
    ASSUME m_head \in 0 .. BufferCap - 1, NEW c \in 0 .. BufferCap - 1, NEW d \in 0 .. BufferCap - 1
    PROVE  /\ SlotAt(c) \in 0 .. BufferCap - 1
           /\ SlotAt(c) = SlotAt(d) => c = d
           /\ c + 1 < BufferCap => Advance(SlotAt(c)) = SlotAt(c + 1)
           /\ SlotAt(0) = m_head
<1>1. BufferCap \in Nat /\ BufferCap > 1
  BY BufferCapIs
<1>2. SlotAt(c) \in 0 .. BufferCap - 1
  BY <1>1 DEF SlotAt
<1>3. SlotAt(c) = SlotAt(d) => c = d
  BY <1>1 DEF SlotAt
<1>4. c + 1 < BufferCap => Advance(SlotAt(c)) = SlotAt(c + 1)
  <2>1. Advance(SlotAt(c)) = IF SlotAt(c) + 1 = BufferCap THEN 0 ELSE SlotAt(c) + 1
    BY <1>2, AdvanceIs
  <2> QED BY <1>1, <2>1 DEF SlotAt
<1>5. SlotAt(0) = m_head
  BY <1>1 DEF SlotAt
<1> QED BY <1>2, <1>3, <1>4, <1>5

LEMMA RingStarts == ContainersInit => RingInv
<1> SUFFICES ASSUME ContainersInit PROVE RingInv
  OBVIOUS
<1>1. BufferCap \in Nat /\ BufferCap > 1
  BY BufferCapIs
<1>2. /\ m_storage = [i \in 0 .. BufferCap - 1 |-> 0] /\ m_head = 0 /\ m_tail = 0
      /\ producer = "idle" /\ consumer = "idle" /\ sent = 0 /\ received = <<>>
  BY DEF ContainersInit
<1>3. Len(received) = 0 /\ received \in Seq(Nat)
  BY <1>2
<1>4. Published = 0 /\ Released = 0 /\ Waiting = 0
  <2>1. Published = 0
    BY <1>2 DEF Published
  <2>2. Released = 0
    BY <1>2, <1>3 DEF Released
  <2> QED BY <2>1, <2>2 DEF Waiting
<1>5. RingTyped
  BY <1>1, <1>2, <1>3 DEF RingTyped
<1>6. Roomy
  BY <1>1, <1>2, <1>4 DEF Roomy, SlotAt
<1>7. Stored /\ Arrived
  BY <1>1, <1>2, <1>3, <1>4 DEF Stored, Arrived
<1> QED BY <1>5, <1>6, <1>7 DEF RingInv

\* What RingInv says, in numbers.
LEMMA RingFacts ==
    ASSUME RingInv
    PROVE  /\ BufferCap \in Nat /\ BufferCap > 1
           /\ m_head \in 0 .. BufferCap - 1 /\ m_tail \in 0 .. BufferCap - 1
           /\ sent \in Nat /\ received \in Seq(Nat) /\ Len(received) \in Nat
           /\ Published \in Int /\ Released \in Int /\ Waiting = Published - Released
           /\ Waiting \in 0 .. BufferCap - 1
           /\ m_tail = SlotAt(Waiting) /\ SlotAt(0) = m_head
           /\ m_storage \in [0 .. BufferCap - 1 -> Nat]
<1>1. BufferCap \in Nat /\ BufferCap > 1
  BY BufferCapIs
<1>2. RingTyped /\ Roomy
  BY DEF RingInv
<1>3. Len(received) \in Nat
  BY <1>2 DEF RingTyped
<1> QED BY <1>1, <1>2, <1>3 DEF RingTyped, Roomy, Published, Released, Waiting, SlotAt

LEMMA EnqueueKeeps ==
    ASSUME RingInv, Enqueue, UNCHANGED <<m_head, consumer, received>>
    PROVE  RingInv'
<1> DEFINE C == BufferCap
           w == Waiting
<1>f. /\ C \in Nat /\ C > 1
      /\ m_head \in 0 .. C - 1 /\ m_tail \in 0 .. C - 1
      /\ sent \in Nat /\ received \in Seq(Nat) /\ Len(received) \in Nat
      /\ Published \in Int /\ Released \in Int /\ w = Published - Released
      /\ w \in 0 .. C - 1
      /\ m_tail = SlotAt(w) /\ SlotAt(0) = m_head
      /\ m_storage \in [0 .. C - 1 -> Nat]
  BY RingFacts
<1>i. RingTyped /\ Roomy /\ Stored /\ Arrived
  BY DEF RingInv
<1>u. /\ Released' = Released /\ Arrived'
      /\ \A d : SlotAt(d)' = SlotAt(d)
  BY <1>i DEF Released, Arrived, SlotAt
<1>1. ASSUME producer = "idle", sent < MaxEvents,
             IF Advance(m_tail) = m_head THEN UNCHANGED <<producer, sent>>
             ELSE producer' = "write" /\ sent' = sent + 1,
             UNCHANGED <<m_storage, m_tail>>
      PROVE  RingInv'
  <2>1. CASE Advance(m_tail) = m_head
    <3>1. UNCHANGED <<producer, sent, m_storage, m_tail>>
      BY <1>1, <2>1
    <3> QED BY <3>1, <1>i, <1>u DEF RingInv, RingTyped, Roomy, Stored, Published, Waiting
  <2>2. CASE Advance(m_tail) # m_head
    <3>1. producer' = "write" /\ sent' = sent + 1 /\ Published' = Published
      BY <1>1, <2>2, <1>f DEF Published
    <3>2. w < C - 1
      <4>1. ASSUME w = C - 1
            PROVE  FALSE
        <5>1. Advance(m_tail) = IF m_tail + 1 = C THEN 0 ELSE m_tail + 1
          BY <1>f, AdvanceIs
        <5> QED BY <1>f, <2>2, <4>1, <5>1 DEF SlotAt
      <4> QED BY <1>f, <4>1
    <3>3. Waiting' = Waiting
      BY <3>1, <1>u DEF Waiting
    <3>4. RingTyped'
      BY <3>1, <1>1, <1>i, <1>f DEF RingTyped
    <3>5. Roomy'
      BY <3>1, <3>2, <3>3, <1>1, <1>i, <1>u DEF Roomy
    <3>6. Stored'
      BY <3>1, <3>3, <1>1, <1>i, <1>u DEF Stored
    <3> QED BY <3>4, <3>5, <3>6, <1>u DEF RingInv
  <2> QED BY <2>1, <2>2
<1>2. ASSUME producer = "write", producer' = "publish",
             m_storage' = [m_storage EXCEPT ![m_tail] = sent], UNCHANGED <<m_tail, sent>>
      PROVE  RingInv'
  <2>1. Published' = Published /\ Waiting' = Waiting
    BY <1>2, <1>u DEF Published, Waiting
  <2>2. RingTyped'
    BY <1>2, <1>i, <1>f DEF RingTyped
  <2>3. Roomy'
    BY <2>1, <1>2, <1>i, <1>u DEF Roomy
  <2>4. m_storage'[m_tail] = sent
    BY <1>2, <1>f
  <2>5. ASSUME NEW d \in 0 .. C - 1, d < w
        PROVE  m_storage'[SlotAt(d)] = Released + 1 + d
    <3>1. SlotAt(d) # m_tail /\ SlotAt(d) \in 0 .. C - 1
      <4>1. SlotAt(d) = SlotAt(w) => d = w
        BY <1>f, SlotsDiffer
      <4>2. SlotAt(d) \in 0 .. C - 1
        BY <1>f, SlotsDiffer
      <4> QED BY <4>1, <4>2, <2>5, <1>f
    <3>2. m_storage[SlotAt(d)] = Released + 1 + d
      BY <2>5, <1>i DEF Stored
    <3> QED BY <3>1, <3>2, <1>2, <1>f
  <2>6. Stored'
    BY <2>1, <2>4, <2>5, <1>2, <1>u DEF Stored
  <2> QED BY <2>2, <2>3, <2>6, <1>u DEF RingInv
<1>3. ASSUME producer = "publish", producer' = "idle",
             m_tail' = Advance(m_tail), UNCHANGED <<m_storage, sent>>
      PROVE  RingInv'
  <2>1. Published' = Published + 1 /\ Waiting' = w + 1
    BY <1>3, <1>u, <1>f DEF Published, Waiting
  <2>2. w + 1 < C
    BY <1>3, <1>i, <1>f DEF Roomy
  <2>3. m_tail' = SlotAt(w + 1) /\ m_tail' \in 0 .. C - 1
    <3>1. w + 1 \in 0 .. C - 1
      BY <2>2, <1>f
    <3> QED BY <3>1, <2>2, <1>f, <1>3, SlotsDiffer
  <2>4. RingTyped'
    BY <2>3, <1>3, <1>i DEF RingTyped
  <2>5. Roomy'
    BY <2>1, <2>2, <2>3, <1>3, <1>i, <1>u, <1>f DEF Roomy
  <2>6. ASSUME NEW d \in 0 .. C - 1, d < w + 1
        PROVE  m_storage[SlotAt(d)] = Released + 1 + d
    <3>1. CASE d < w
      BY <3>1, <1>i DEF Stored
    <3>2. CASE d = w
      <4>1. m_storage[m_tail] = sent
        BY <1>3, <1>i DEF Stored
      <4>2. sent = Released + 1 + w
        BY <1>3, <1>f DEF Published
      <4> QED BY <3>2, <4>1, <4>2, <1>f
    <3> QED BY <2>6, <3>1, <3>2, <1>f
  <2>7. Stored'
    BY <2>1, <2>6, <1>3, <1>u DEF Stored
  <2> QED BY <2>4, <2>5, <2>7, <1>u DEF RingInv
<1> QED BY <1>1, <1>2, <1>3 DEF Enqueue

LEMMA DequeueKeeps ==
    ASSUME RingInv, Dequeue, UNCHANGED <<m_storage, m_tail, producer, sent>>
    PROVE  RingInv'
<1> DEFINE C == BufferCap
           w == Waiting
<1>f. /\ C \in Nat /\ C > 1
      /\ m_head \in 0 .. C - 1 /\ m_tail \in 0 .. C - 1
      /\ sent \in Nat /\ received \in Seq(Nat) /\ Len(received) \in Nat
      /\ Published \in Int /\ Released \in Int /\ w = Published - Released
      /\ w \in 0 .. C - 1
      /\ m_tail = SlotAt(w) /\ SlotAt(0) = m_head
      /\ m_storage \in [0 .. C - 1 -> Nat]
  BY RingFacts
<1>i. RingTyped /\ Roomy /\ Stored /\ Arrived
  BY DEF RingInv
<1>u. Published' = Published
  BY DEF Published
<1>1. ASSUME consumer = "idle", m_head # m_tail, consumer' = "read", UNCHANGED <<m_head, received>>
      PROVE  RingInv'
  <2>1. w > 0
    BY <1>1, <1>f
  <2>2. Released' = Released /\ Waiting' = Waiting /\ \A d : SlotAt(d)' = SlotAt(d)
    BY <1>1, <1>u DEF Released, Waiting, SlotAt
  <2> QED BY <2>1, <2>2, <1>1, <1>i DEF RingInv, RingTyped, Roomy, Stored, Arrived
<1>2. ASSUME consumer = "read", consumer' = "release",
             received' = Append(received, m_storage[m_head]), UNCHANGED m_head
      PROVE  RingInv'
  <2>1. /\ Len(received') = Len(received) + 1 /\ received' \in Seq(Nat)
        /\ \A i \in 1 .. Len(received) : received'[i] = received[i]
        /\ received'[Len(received) + 1] = m_storage[m_head]
    BY <1>2, <1>f
  <2>2. Released' = Released /\ Waiting' = Waiting /\ (\A d : SlotAt(d)' = SlotAt(d))
            /\ Released = Len(received)
    BY <1>2, <2>1, <1>u, <1>f DEF Released, Waiting, SlotAt
  <2>3. m_storage[m_head] = Len(received) + 1
    <3>1. 0 \in 0 .. C - 1 /\ 0 < w
      BY <1>2, <1>i, <1>f DEF Roomy
    <3>2. m_storage[SlotAt(0)] = Released + 1 + 0
      BY <3>1, <1>i DEF Stored
    <3>3. Released + 1 + 0 = Len(received) + 1
      <4>1. Released = Len(received) /\ Len(received) \in Nat
        BY <2>2, <1>f
      <4> QED BY <4>1
    <3> QED BY <3>2, <3>3, <1>f, Zenon
  <2>0. Len(received) \in Nat
    BY <1>f
  <2>4. Arrived'
    <3>1. ASSUME NEW i \in 1 .. Len(received) + 1
          PROVE  received'[i] = i
      <4>1. CASE i = Len(received) + 1
        BY <4>1, <2>1, <2>3
      <4>2. CASE i # Len(received) + 1
          <5>1. i \in 1 .. Len(received)
            BY <3>1, <4>2, <2>0
          <5>2. received[i] = i
            BY <5>1, <1>i DEF Arrived
          <5> QED BY <5>1, <5>2, <2>1
      <4> QED BY <4>1, <4>2
    <3> QED BY <3>1, <2>1 DEF Arrived
  <2>5. RingTyped'
    <3>1. /\ m_storage' \in [0 .. BufferCap - 1 -> Nat] /\ m_tail' \in 0 .. BufferCap - 1
          /\ m_head' \in 0 .. BufferCap - 1
          /\ producer' \in {"idle", "write", "publish"} /\ sent' \in Nat
      BY <1>2, <1>i DEF RingTyped
    <3> QED BY <3>1, <2>1, <1>2, Zenon DEF RingTyped
  <2>6. Roomy'
    <3>1. m_tail' = SlotAt(Waiting)' /\ Waiting' = w /\ w > 0
      BY <2>2, <1>2, <1>f, <1>i DEF Roomy
    <3>2. Len(received') > 0
      BY <2>1, <2>0
    <3> QED BY <3>1, <3>2, <1>2, <1>i DEF Roomy
  <2>7. Stored'
    BY <2>2, <1>i DEF Stored
  <2> QED BY <2>4, <2>5, <2>6, <2>7 DEF RingInv
<1>3. ASSUME consumer = "release", consumer' = "idle", m_head' = Advance(m_head), UNCHANGED received
      PROVE  RingInv'
  <2>1. Released' = Released + 1 /\ Waiting' = w - 1
    BY <1>3, <1>u, <1>f DEF Released, Waiting
  <2>2. w > 0
    BY <1>3, <1>i DEF Roomy
  <2>3. m_head' = (IF m_head + 1 = C THEN 0 ELSE m_head + 1) /\ m_head' \in 0 .. C - 1
    BY <1>3, <1>f, AdvanceIs
  <2>4. \A d \in 0 .. C - 2 : SlotAt(d)' = SlotAt(d + 1)
    BY <2>3, <1>f DEF SlotAt
  <2>5. RingTyped'
    <3>1. /\ m_storage' \in [0 .. BufferCap - 1 -> Nat] /\ m_tail' \in 0 .. BufferCap - 1
          /\ producer' \in {"idle", "write", "publish"} /\ sent' \in Nat
          /\ received' \in Seq(Nat)
      BY <1>3, <1>i DEF RingTyped
    <3>2. m_head' \in 0 .. BufferCap - 1 /\ consumer' \in {"idle", "read", "release"}
      BY <2>3, <1>3
    <3> QED BY <3>1, <3>2, Zenon DEF RingTyped
  <2>6. Roomy'
    <3>2. m_tail' = SlotAt(Waiting)'
      BY <2>1, <2>2, <2>3, <1>f DEF SlotAt
    <3> QED BY <3>2, <2>1, <2>2, <1>3, <1>i, <1>f DEF Roomy
  <2>7. ASSUME NEW d \in 0 .. C - 1, d < w - 1
        PROVE  m_storage[SlotAt(d)'] = Released + 1 + 1 + d
    <3>1. d + 1 \in 0 .. C - 1 /\ d + 1 < w /\ d \in 0 .. C - 2
      BY <2>7, <1>f
    <3>2. m_storage[SlotAt(d + 1)] = Released + 1 + (d + 1)
      BY <3>1, <1>i DEF Stored
    <3>3. SlotAt(d)' = SlotAt(d + 1)
      BY <3>1, <2>4
    <3>4. Released + 1 + (d + 1) = Released + 1 + 1 + d
      <4>1. Released \in Int /\ d \in Int
        BY <2>7, <1>f
      <4> QED BY <4>1
    <3> QED BY <3>2, <3>3, <3>4, Zenon
  <2>8. Stored'
    <3>1. \A d \in 0 .. C - 1 : d < Waiting' => m_storage[SlotAt(d)'] = Released' + 1 + d
      <4> SUFFICES ASSUME NEW d \in 0 .. C - 1, d < Waiting'
                   PROVE  m_storage[SlotAt(d)'] = Released' + 1 + d
        OBVIOUS
      <4>1. d < w - 1
        BY <2>1
      <4> QED BY <4>1, <2>1, <2>7
    <3> QED BY <3>1, <1>i DEF Stored
  <2>9. Arrived'
    BY <1>3, <1>i DEF Arrived
  <2> QED BY <2>5, <2>6, <2>8, <2>9 DEF RingInv
<1> QED BY <1>1, <1>2, <1>3 DEF Dequeue

LEMMA RingSteps == RingInv /\ [ContainersNext]_containerVars => RingInv'
<1> SUFFICES ASSUME RingInv, [ContainersNext]_containerVars PROVE RingInv'
  OBVIOUS
<1>1. CASE UNCHANGED ringVars
  BY <1>1 DEF ringVars, RingInv, RingTyped, Roomy, Stored, Arrived, Waiting, Published, Released, SlotAt
<1>2. CASE which = "ring" /\ RingNext
  BY <1>2, EnqueueKeeps, DequeueKeeps DEF RingNext
<1> QED BY <1>1, <1>2 DEF ContainersNext, containerVars

\* CircularBuffer (include/Greg/CircularBuffer.hpp): the values taken out are the
\* values put in, in order, each whole and once, however an interrupt and the main
\* loop interleave: for any capacity and any number of values.
THEOREM RingStaysTrue == ContainersSpec => []RingTrue
<1>1. ContainersInit => RingInv
  BY RingStarts
<1>2. RingInv /\ [ContainersNext]_containerVars => RingInv'
  BY RingSteps
<1>3. RingInv => RingTrue
  BY DEF RingInv, RingTyped, Arrived, RingTrue
<1> QED BY <1>1, <1>2, <1>3, PTL DEF ContainersSpec


-----------------------------------------------------------------------------
(* Strings *)

\* A String is null or has one block; no other block is allocated.
StringsInv ==
    /\ DOMAIN strings = {"s", "t"}
    /\ strings = [x \in {"s", "t"} |-> strings[x]]
    /\ \A x \in {"s", "t"} : Owned(strings[x]) = IF strings[x] = NullString THEN 0 ELSE 1
    /\ allocated = Owned(strings["s"]) + Owned(strings["t"])

LEMMA OwnedIs ==
    /\ Owned(NullString) = IF NullString = NullString THEN 0 ELSE 1
    /\ \A x : Owned(<<x>>) = (IF <<x>> = NullString THEN 0 ELSE 1) /\ Owned(<<x>>) = 1
<1>1. Len(<<>>) = 0 /\ \A x : Len(<<x>>) = 1
  OBVIOUS
<1>2. Owned(NullString) = 0 /\ \A x : Owned(<<x>>) = 1 /\ <<x>> # NullString
  BY <1>1 DEF Owned, NullString
<1> QED BY <1>2

\* One String changes, and its block with it.
LEMMA StringChanges ==
    ASSUME StringsInv, NEW s \in {"s", "t"}, NEW v,
           Owned(v) = IF v = NullString THEN 0 ELSE 1,
           strings' = [strings EXCEPT ![s] = v],
           allocated' = allocated + Owned(v) - Owned(strings[s])
    PROVE  StringsInv'
<1>1. /\ DOMAIN strings' = {"s", "t"} /\ strings' = [x \in {"s", "t"} |-> strings'[x]]
      /\ \A x \in {"s", "t"} : strings'[x] = IF x = s THEN v ELSE strings[x]
  BY DEF StringsInv
<1>2. /\ Owned(strings["s"]) \in {0, 1} /\ Owned(strings["t"]) \in {0, 1}
      /\ allocated = Owned(strings["s"]) + Owned(strings["t"])
      /\ \A x \in {"s", "t"} : Owned(strings[x]) = IF strings[x] = NullString THEN 0 ELSE 1
  BY DEF StringsInv
<1>3. allocated' = Owned(strings'["s"]) + Owned(strings'["t"])
  <2>1. CASE s = "s"
    <3>1. strings'["s"] = v /\ strings'["t"] = strings["t"]
      BY <1>1, <2>1
    <3> QED BY <3>1, <1>2, <2>1
  <2>2. CASE s = "t"
    <3>1. strings'["t"] = v /\ strings'["s"] = strings["s"]
      BY <1>1, <2>2
    <3> QED BY <3>1, <1>2, <2>2
  <2> QED BY <2>1, <2>2
<1>4. \A x \in {"s", "t"} : Owned(strings'[x]) = IF strings'[x] = NullString THEN 0 ELSE 1
  BY <1>1, <1>2
<1> QED BY <1>1, <1>3, <1>4 DEF StringsInv

LEMMA ReplacedKeeps ==
    ASSUME StringsInv, NEW s \in {"s", "t"}, NEW x, Replaced(s, x) \/ Rebuilt(s, x)
    PROVE  StringsInv'
<1>1. CASE strings' = [strings EXCEPT ![s] = <<x>>] /\ allocated' = allocated + 1 - Owned(strings[s])
  <2>1. allocated' = allocated + Owned(<<x>>) - Owned(strings[s])
    BY <1>1, OwnedIs DEF StringsInv
  <2>2. Owned(<<x>>) = IF <<x>> = NullString THEN 0 ELSE 1
    BY OwnedIs, Zenon
  <2> QED BY <1>1, <2>1, <2>2, StringChanges
<1>2. CASE strings' = [strings EXCEPT ![s] = NullString] /\ allocated' = allocated - Owned(strings[s])
  <2>1. allocated' = allocated + Owned(NullString) - Owned(strings[s])
    BY <1>2, OwnedIs DEF StringsInv
  <2> QED BY <1>2, <2>1, OwnedIs, StringChanges
<1>3. CASE UNCHANGED stringVars
  BY <1>3 DEF stringVars, StringsInv
<1> QED BY <1>1, <1>2, <1>3 DEF Replaced, Rebuilt

LEMMA ReseatKeeps ==
    ASSUME StringsInv, NEW s \in {"s", "t"}, NEW t \in {"s", "t"}, MoveString(s, t)
    PROVE  StringsInv'
<1>1. s # t /\ strings' = [strings EXCEPT ![s] = strings[t], ![t] = NullString]
          /\ allocated' = allocated - Owned(strings[s])
  BY DEF MoveString
<1>2. /\ DOMAIN strings' = {"s", "t"} /\ strings' = [x \in {"s", "t"} |-> strings'[x]]
      /\ strings'[s] = strings[t] /\ strings'[t] = NullString
  BY <1>1 DEF StringsInv
<1>3. {"s", "t"} = {s, t}
  BY <1>1
<1>4. \A x \in {"s", "t"} : Owned(strings'[x]) = IF strings'[x] = NullString THEN 0 ELSE 1
  BY <1>2, <1>3, OwnedIs DEF StringsInv
<1>5. allocated' = Owned(strings'["s"]) + Owned(strings'["t"])
  <2>1. /\ Owned(strings["s"]) \in {0, 1} /\ Owned(strings["t"]) \in {0, 1}
        /\ allocated = Owned(strings["s"]) + Owned(strings["t"])
    BY DEF StringsInv
  <2>2. CASE s = "s" /\ t = "t"
    <3>1. Owned(strings'["s"]) = Owned(strings["t"]) /\ Owned(strings'["t"]) = 0
      BY <1>2, <2>2, OwnedIs
    <3> QED BY <3>1, <2>1, <2>2, <1>1
  <2>3. CASE s = "t" /\ t = "s"
    <3>1. Owned(strings'["t"]) = Owned(strings["s"]) /\ Owned(strings'["s"]) = 0
      BY <1>2, <2>3, OwnedIs
    <3> QED BY <3>1, <2>1, <2>3, <1>1
  <2> QED BY <1>1, <2>2, <2>3
<1> QED BY <1>2, <1>4, <1>5 DEF StringsInv

LEMMA StringSteps == StringsInv /\ [ContainersNext]_containerVars => StringsInv'
<1> SUFFICES ASSUME StringsInv, [ContainersNext]_containerVars PROVE StringsInv'
  OBVIOUS
<1>1. CASE UNCHANGED stringVars
  BY <1>1 DEF stringVars, StringsInv
<1>2. CASE StringNext
  <2>0. DOMAIN strings = {"s", "t"}
    BY DEF StringsInv
  <2>1. PICK s \in {"s", "t"}, t \in {"s", "t"} :
          \/ AssignText(s) \/ AssignString(s, t) \/ MoveString(s, t)
          \/ \E x \in ShortStrings : Appended(s, CString(x)) \/ Prepended(s, CString(x))
          \/ Appended(s, CString(OfString(strings[t])))
    BY <1>2, <2>0, Zenon DEF StringNext
  <2>2. CASE AssignText(s)
    BY <2>2, ReplacedKeeps, Zenon DEF AssignText
  <2>3. CASE AssignString(s, t)
    <3>1. CASE strings[t] = NullString
      <4>1. strings' = [strings EXCEPT ![s] = NullString] /\ allocated' = allocated - Owned(strings[s])
        BY <2>3, <3>1 DEF AssignString
      <4>2. allocated' = allocated + Owned(NullString) - Owned(strings[s])
        BY <4>1, OwnedIs DEF StringsInv
      <4> QED BY <4>1, <4>2, OwnedIs, StringChanges
    <3>2. CASE strings[t] # NullString
      BY <2>3, <3>2, ReplacedKeeps, Zenon DEF AssignString
    <3> QED BY <3>1, <3>2
  <2>4. CASE MoveString(s, t)
    BY <2>4, ReseatKeeps
  <2>5. ASSUME NEW y, Appended(s, y) \/ Prepended(s, y)
        PROVE  StringsInv'
    <3>1. CASE UNCHANGED stringVars
      BY <3>1, <1>1
    <3>2. CASE ~UNCHANGED stringVars
      BY <2>5, <3>2, ReplacedKeeps, Zenon DEF Appended, Prepended
    <3> QED BY <3>1, <3>2
  <2> QED BY <2>1, <2>2, <2>3, <2>4, <2>5, Zenon
<1> QED BY <1>1, <1>2 DEF ContainersNext, containerVars

\* String (include/Greg/String.hpp): whatever is assigned, moved, appended or
\* prepended, a String to itself too, and whichever allocation fails, each String
\* that is not null owns one block and no block is lost or freed twice.
THEOREM BlocksStayOwned == ContainersSpec => []BlocksOwned
<1>1. ContainersInit => StringsInv
  BY OwnedIs DEF ContainersInit, StringsInv, Owned, NullString
<1>2. StringsInv /\ [ContainersNext]_containerVars => StringsInv'
  BY StringSteps
<1>3. StringsInv => BlocksOwned
  <2> SUFFICES ASSUME StringsInv PROVE BlocksOwned
    OBVIOUS
  <2> DEFINE S == {x \in DOMAIN strings : strings[x] # NullString}
  <2>1. /\ DOMAIN strings = {"s", "t"} /\ allocated = Owned(strings["s"]) + Owned(strings["t"])
        /\ Owned(strings["s"]) = IF strings["s"] = NullString THEN 0 ELSE 1
        /\ Owned(strings["t"]) = IF strings["t"] = NullString THEN 0 ELSE 1
    BY DEF StringsInv
  <2>2. Cardinality({}) = 0 /\ Cardinality({"s"}) = 1 /\ Cardinality({"t"}) = 1 /\ Cardinality({"s", "t"}) = 2
    BY FS_EmptySet, FS_Singleton, FS_AddElement
  <2>3. CASE strings["s"] = NullString /\ strings["t"] = NullString
    <3>1. S = {}
      BY <2>1, <2>3
    <3> QED BY <3>1, <2>1, <2>2, <2>3 DEF BlocksOwned
  <2>4. CASE strings["s"] # NullString /\ strings["t"] = NullString
    <3>1. S = {"s"}
      BY <2>1, <2>4
    <3> QED BY <3>1, <2>1, <2>2, <2>4 DEF BlocksOwned
  <2>5. CASE strings["s"] = NullString /\ strings["t"] # NullString
    <3>1. S = {"t"}
      BY <2>1, <2>5
    <3> QED BY <3>1, <2>1, <2>2, <2>5 DEF BlocksOwned
  <2>6. CASE strings["s"] # NullString /\ strings["t"] # NullString
    <3>1. S = {"s", "t"}
      BY <2>1, <2>6
    <3> QED BY <3>1, <2>1, <2>2, <2>6 DEF BlocksOwned
  <2> QED BY <2>3, <2>4, <2>5, <2>6
<1> QED BY <1>1, <1>2, <1>3, PTL DEF ContainersSpec

-----------------------------------------------------------------------------
(***************************************************************************)
(* The browser window: what m_last_src names, what is on the screen and    *)
(* where the user is in the history, through every way navigate ends.      *)
(***************************************************************************)

\* What navigate pushes: pages that are shown.
Pages == {Home, About} \union Fetched

WindowTyped ==
    /\ size \in [now : Widths, laid : Widths]
    /\ lastSrc \in {"home", "about", "error", "body", "none"}
    /\ IsDoc(shown.doc)
\* The history, entry by entry, against the pages visited.
HistTyped ==
    /\ hist \in Seq(Pages) /\ trail \in Seq(Pages)
    /\ histPos \in 0 .. Len(hist) /\ Len(hist) <= HistMax
    /\ hist # <<>> => histPos > 0
    /\ place \in Nat
Followed ==
    /\ place - histPos = Len(trail) - Len(hist) /\ place >= histPos
    /\ \A i \in 1 .. Len(hist) : hist[i] = trail[i + (Len(trail) - Len(hist))]
    /\ hist # <<>> /\ ~resent => url = hist[histPos]
BrowserInv == WindowTyped /\ HistTyped /\ Followed /\ SourceLives /\ ShownRight

LEMMA BrowserConstants ==
    /\ HistMax \in Nat \ {0} /\ Nowhere \notin Pages /\ Nowhere \notin Unsupported /\ Nowhere \notin Typed
    /\ Pages \intersect Unsupported = {} /\ {Home, About} \intersect Fetched = {}
    /\ IsDoc(HomeDoc) /\ IsDoc(AboutDoc) /\ IsDoc(ErrorDoc)
    /\ \A u \in Fetched : \A a \in Web[u] : a.at \in Fetched /\ IsDoc(a.doc) /\ a.doc # NoDoc
<1>1. /\ HistMax \in Nat \ {0} /\ Unsupported \union Dead \subseteq Addresses
      /\ {Home, About} \intersect Addresses = {}
  BY BrowserAssumption
<1>2. Nowhere \notin {Home, About} \union Addresses \union Typed
  BY WebAssumption
<1>3. /\ IsDoc(HomeDoc) /\ IsDoc(AboutDoc) /\ IsDoc(ErrorDoc)
      /\ \A u \in Fetched : \A a \in Web[u] : a.at \in Fetched /\ IsDoc(a.doc) /\ a.doc # NoDoc
  BY WebAssumption
<1>4. /\ Nowhere \notin Pages /\ Nowhere \notin Unsupported /\ Nowhere \notin Typed
      /\ Pages \intersect Unsupported = {} /\ {Home, About} \intersect Fetched = {}
  BY <1>1, <1>2 DEF Pages, Fetched
<1> QED BY <1>1, <1>3, <1>4

LEMMA NoDocIs == IsDoc(NoDoc) /\ NoDoc.height = [w \in Widths |-> 0]
  BY DEF IsDoc, NoDoc

LEMMA LayoutShows ==
    ASSUME NEW src, NEW doc, NEW at, NEW is, NEW bodyNow, Layout(src, doc, at, is, bodyNow)
    PROVE  /\ shown' = [doc |-> doc, base |-> at] /\ lastSrc' = src
           /\ size' = [size EXCEPT !.laid = size.now] /\ body' = bodyNow
  BY DEF Layout


\* A page that is laid out at its address, from its top.
LEMMA ShownAnew ==
    ASSUME WindowTyped, NEW src \in {"home", "about", "error", "body"}, NEW doc, NEW at, NEW is, NEW bodyNow,
           IsDoc(doc), Layout(src, doc, at, is, bodyNow),
           src = "home" => doc = HomeDoc, src = "about" => doc = AboutDoc, src = "error" => errbuf' = doc,
           src = "body" => bodyNow = doc /\ doc # NoDoc,
           url' = at, hover' = Nowhere, scroll' = 0
    PROVE  WindowTyped' /\ SourceLives' /\ ShownRight'
<1>1. /\ shown' = [doc |-> doc, base |-> at] /\ lastSrc' = src
      /\ size' = [size EXCEPT !.laid = size.now] /\ body' = bodyNow
  BY LayoutShows
<1>2. shown'.doc = doc /\ shown'.base = at
  BY <1>1
<1>3. size' \in [now : Widths, laid : Widths] /\ size'.laid \in Widths
  BY <1>1 DEF WindowTyped
<1>4. WindowTyped'
  BY <1>1, <1>2, <1>3 DEF WindowTyped
<1>5. SourceLives'
  BY <1>1, <1>2 DEF SourceLives, Source
<1>6. doc.height[size'.laid] \in Nat
  BY <1>3 DEF IsDoc
<1>7. ShownRight'
  BY <1>2, <1>6 DEF ShownRight, MaxScroll
<1> QED BY <1>4, <1>5, <1>7

\* What the ways of navigate that show a page have in common.
Shows(u, at, push) ==
    WindowTyped' /\ SourceLives' /\ ShownRight' /\ Arrive(u, at, push)
\* What the ways that keep the page have in common.
Stays ==
    WindowTyped' /\ SourceLives' /\ ShownRight' /\ UNCHANGED <<url, hist, trail, resent>>

LEMMA NavigateShows ==
    ASSUME BrowserInv, NEW u, NEW push, Navigate(u, push)
    PROVE  \/ u \in Pages /\ \E at \in Pages : Shows(u, at, push)
           \/ u \in Unsupported \union {Nowhere} /\ Stays
<1>c. /\ Nowhere \notin Pages /\ Nowhere \notin Unsupported
      /\ IsDoc(HomeDoc) /\ IsDoc(AboutDoc) /\ IsDoc(ErrorDoc)
      /\ \A v \in Fetched : \A a \in Web[v] : a.at \in Fetched /\ IsDoc(a.doc) /\ a.doc # NoDoc
  BY BrowserConstants
<1>i. WindowTyped /\ SourceLives /\ ShownRight
  BY DEF BrowserInv
<1>1. CASE Internal(u, push)
  <2>1. u \in {Home, About} /\ u \in Pages
    BY <1>1 DEF Internal, Pages
  <2> DEFINE src == IF u = About THEN "about" ELSE "home"
  <2>2. /\ Layout(src, InternalDoc(u), u, <<>>, NoDoc)
        /\ Arrive(u, u, push) /\ scroll' = 0
    BY <1>1 DEF Internal
  <2>3. url' = u /\ hover' = Nowhere
    BY <2>2 DEF Arrive
  <2>4. /\ src \in {"home", "about", "error", "body"} /\ src # "error" /\ src # "body"
        /\ src = "home" => InternalDoc(u) = HomeDoc
        /\ src = "about" => InternalDoc(u) = AboutDoc
        /\ IsDoc(InternalDoc(u))
    BY <1>c DEF InternalDoc
  <2> HIDE DEF src
  <2>5. WindowTyped' /\ SourceLives' /\ ShownRight'
    BY <2>2, <2>3, <2>4, <1>i, ShownAnew
  <2> QED BY <2>1, <2>2, <2>5 DEF Shows
<1>2. CASE Empty(u)
  <2>1. u = Nowhere /\ hover' = Nowhere
    BY <1>2 DEF Empty
  <2>2. UNCHANGED <<url, body, errbuf, lastSrc, shown, size, scroll, hist, trail, resent>>
    BY <1>2 DEF Empty, page
  <2>3. WindowTyped' /\ SourceLives'
    BY <2>2, <1>i DEF WindowTyped, SourceLives, Source
  <2>4. ShownRight'
    BY <2>1, <2>2, <1>i DEF ShownRight
  <2> QED BY <2>1, <2>2, <2>3, <2>4 DEF Stays
<1>3. CASE Refuse(u)
  <2>1. /\ u \in Unsupported /\ body' = NoDoc /\ lastSrc' = SrcAfterFree /\ hover' = Nowhere
        /\ UNCHANGED <<url, errbuf, shown, size, scroll, hist, trail, resent>>
    BY <1>3 DEF Refuse
  <2>2. WindowTyped'
    BY <2>1, <1>i DEF WindowTyped, SrcAfterFree
  <2>3. SourceLives'
    BY <2>1, <1>i DEF SourceLives, Source, SrcAfterFree, WindowTyped
  <2>4. ShownRight'
    BY <2>1, <1>i DEF ShownRight
  <2> QED BY <2>1, <2>2, <2>3, <2>4 DEF Stays
<1>4. ASSUME NEW at \in Pages, NEW doc, NEW is, NEW bodyNow, IsDoc(doc), ErrorPage(u, at, doc, is,
                 bodyNow, push)
      PROVE  Shows(u, at, push)
  <2>1. /\ errbuf' = doc /\ scroll' = 0
        /\ Layout("error", doc, at, is, bodyNow) /\ Arrive(u, at, push)
    BY <1>4 DEF ErrorPage
  <2>2. url' = at /\ hover' = Nowhere
    BY <2>1 DEF Arrive
  <2>3. WindowTyped' /\ SourceLives' /\ ShownRight'
    BY <2>1, <2>2, <1>4, <1>i, ShownAnew
  <2> QED BY <2>1, <2>3 DEF Shows
<1>5. CASE Fails(u, push)
  <2>1. u \in Fetched /\ u \in Pages /\ ErrorPage(u, u, ErrorDoc, <<>>, NoDoc, push)
    BY <1>5 DEF Fails, Pages
  <2> QED BY <2>1, <1>c, <1>4
<1>6. CASE Fetches(u, push)
  <2>1. PICK a \in Web[u] : \/ a.kind = "html" /\ ShowPage(u, a, push)
                            \/ a.kind \in {"png", "broken"} /\ ShowPng(u, a, push)
    BY <1>6 DEF Fetches
  <2>2. u \in Fetched /\ u \in Pages
    BY <1>6 DEF Fetches, Pages
  <2>3. a.at \in Pages /\ IsDoc(a.doc) /\ a.doc # NoDoc
    BY <2>2, <1>c DEF Pages
  <2>4. CASE ShowPage(u, a, push)
    <3>1. Layout("body", a.doc, a.at, <<>>, a.doc) /\ scroll' = 0 /\ Arrive(u, a.at, push)
      BY <2>4 DEF ShowPage
    <3>2. url' = a.at /\ hover' = Nowhere
      BY <3>1 DEF Arrive
    <3>3. WindowTyped' /\ SourceLives' /\ ShownRight'
      BY <3>1, <3>2, <2>3, <1>i, ShownAnew
    <3> QED BY <2>2, <2>3, <3>1, <3>3 DEF Shows
  <2>5. CASE ShowPng(u, a, push)
    <3>1. PICK is, doc, only : /\ doc = [ErrorDoc EXCEPT !.imgs = only]
                              /\ ErrorPage(u, a.at, doc, is, a.doc, push)
      BY <2>5 DEF ShowPng
    <3>2. IsDoc(doc)
      BY <3>1, <1>c DEF IsDoc
    <3>3. Shows(u, a.at, push)
      BY <3>1, <3>2, <2>3, <1>4
    <3> QED BY <2>2, <2>3, <3>3
  <2> QED BY <2>1, <2>4, <2>5
<1> QED BY <1>1, <1>2, <1>3, <1>5, <1>6 DEF Navigate

-----------------------------------------------------------------------------
(* The history *)

HistInv == HistTyped /\ Followed

\* A page pushed is behind the one the user is at; a full history loses its first.
LEMMA VisitedKeeps ==
    ASSUME HistInv, NEW u, NEW at \in Pages, Arrive(u, at, TRUE)
    PROVE  HistInv'
<1>c. HistMax \in Nat \ {0}
  BY BrowserConstants
<1>1. /\ url' = at /\ resent' = FALSE
      /\ hist' = Pushed(at).stack /\ histPos' = Pushed(at).pos
      /\ trail' = Append(SubSeq(trail, 1, place), at) /\ place' = place + 1
  BY DEF Arrive
<1> DEFINE n == Len(hist)
           m == Len(trail)
           off == m - n
<1>2. /\ hist \in Seq(Pages) /\ trail \in Seq(Pages) /\ n \in Nat /\ m \in Nat
      /\ histPos \in 0 .. n /\ n <= HistMax /\ place \in Nat /\ place - histPos = off /\ place >= histPos
      /\ \A i \in 1 .. n : hist[i] = trail[i + off]
  BY DEF HistInv, HistTyped, Followed
<1>3. place \in 0 .. m /\ off \in Nat
  BY <1>2
<1>4. /\ SubSeq(trail, 1, place) \in Seq(Pages) /\ Len(SubSeq(trail, 1, place)) = place
      /\ \A i \in 1 .. place : SubSeq(trail, 1, place)[i] = trail[i]
  <2>1. 1 \in Int /\ place \in Int /\ place <= m
    BY <1>3, <1>2
  <2> QED BY <1>2, <1>3, <2>1, SubSeqProperties
<1>5. /\ trail' \in Seq(Pages) /\ Len(trail') = place + 1
      /\ \A i \in 1 .. place : trail'[i] = trail[i]
      /\ trail'[place + 1] = at
  BY <1>1, <1>3, <1>4
<1>6. CASE histPos + 1 > HistMax
  <2>1. histPos = n /\ n = HistMax /\ n > 0 /\ place = m
    BY <1>6, <1>2, <1>c
  <2>2. hist' = Tail(hist) \o <<at>> /\ histPos' = HistMax
    BY <1>1, <1>6 DEF Pushed
  <2>3. hist # <<>>
    BY <2>1, <1>2
  <2>4. Tail(hist) \in Seq(Pages) /\ Len(Tail(hist)) = n - 1
            /\ \A i \in 1 .. n - 1 : Tail(hist)[i] = hist[i + 1]
    BY <1>2, <2>3, HeadTailProperties
  <2>5. /\ hist' \in Seq(Pages) /\ Len(hist') = n
        /\ \A i \in 1 .. n - 1 : hist'[i] = hist[i + 1]
        /\ hist'[n] = at
    <3>1. <<at>> \in Seq(Pages) /\ Len(<<at>>) = 1 /\ <<at>>[1] = at
      OBVIOUS
    <3>2. /\ Tail(hist) \o <<at>> \in Seq(Pages) /\ Len(Tail(hist) \o <<at>>) = (n - 1) + 1
          /\ \A i \in 1 .. (n - 1) + 1 : (Tail(hist) \o <<at>>)[i] = IF i <= n - 1 THEN Tail(hist)[i] ELSE <<at>>[i - (n - 1)]
      BY <2>4, <3>1, ConcatProperties
    <3> QED BY <2>1, <2>2, <2>4, <3>1, <3>2, <1>2
  <2>a. place' = place + 1 /\ place + 1 \in Nat
    BY <1>1, <1>2
  <2>6. HistTyped'
    <3>1. histPos' \in 0 .. Len(hist') /\ Len(hist') <= HistMax /\ histPos' > 0
      BY <2>1, <2>2, <2>5, <1>c
    <3> QED BY <3>1, <2>5, <1>5, <2>a DEF HistTyped
  <2>7. ASSUME NEW i \in 1 .. Len(hist')
        PROVE  hist'[i] = trail'[i + (Len(trail') - Len(hist'))]
    <3>1. n \in Nat /\ m \in Nat /\ Len(hist') = n /\ Len(trail') = m + 1 /\ off \in Nat
      BY <2>1, <2>5, <1>2, <1>3, <1>5
    <3>2. CASE i = n
      BY <3>1, <3>2, <2>5, <1>5, <2>1
    <3>3. CASE i # n
      <4>1. i \in 1 .. n - 1 /\ i + 1 \in 1 .. n /\ i + 1 + off \in 1 .. place
        BY <2>7, <3>1, <3>3, <2>1
      <4>2. hist'[i] = trail[i + 1 + off] /\ trail'[i + 1 + off] = trail[i + 1 + off]
        BY <4>1, <2>5, <1>2, <1>5
      <4>3. i + (Len(trail') - Len(hist')) = i + 1 + off
        BY <3>1, <4>1
      <4> QED BY <4>2, <4>3
    <3> QED BY <3>2, <3>3
  <2>8. place' - histPos' = Len(trail') - Len(hist') /\ place' >= histPos' /\ url' = hist'[histPos']
    <3>1. /\ histPos' = n /\ Len(hist') = n /\ Len(trail') = place + 1 /\ place' = place + 1
          /\ n \in Nat /\ place \in Nat /\ place >= n
      BY <2>1, <2>2, <2>5, <2>a, <1>5, <1>2
    <3>2. url' = hist'[histPos']
      BY <3>1, <2>5, <1>1
    <3>3. /\ (place + 1) - n = (place + 1) - n /\ place + 1 >= n
      BY <3>1
    <3> QED BY <3>1, <3>2, <3>3
  <2> QED BY <2>6, <2>7, <2>8 DEF HistInv, Followed
<1>7. CASE histPos + 1 <= HistMax
  <2>1. hist' = SubSeq(hist, 1, histPos) \o <<at>> /\ histPos' = histPos + 1
    <3>1. ~(histPos + 1 > HistMax) /\ (histPos + 1) - 1 = histPos
      BY <1>7, <1>2, <1>c
    <3> QED BY <1>1, <3>1 DEF Pushed
  <2>2. /\ SubSeq(hist, 1, histPos) \in Seq(Pages) /\ Len(SubSeq(hist, 1, histPos)) = histPos
        /\ \A i \in 1 .. histPos : SubSeq(hist, 1, histPos)[i] = hist[i]
    <3>1. 1 \in Int /\ histPos \in Int /\ histPos <= n
      BY <1>2
    <3> QED BY <1>2, <3>1, SubSeqProperties
  <2>3. /\ hist' \in Seq(Pages) /\ Len(hist') = histPos + 1
        /\ \A i \in 1 .. histPos : hist'[i] = hist[i]
        /\ hist'[histPos + 1] = at
    <3> DEFINE s == SubSeq(hist, 1, histPos)
               q == <<at>>
    <3>1. q \in Seq(Pages) /\ Len(q) = 1 /\ q[1] = at
      OBVIOUS
    <3>2. s \in Seq(Pages) /\ Len(s) = histPos /\ histPos \in Nat
          /\ \A i \in 1 .. histPos : s[i] = hist[i]
      BY <2>2, <1>2
    <3>3. hist' = s \o q
      BY <2>1
    <3> HIDE DEF s, q
    <3>4. s \o q \in Seq(Pages) /\ Len(s \o q) = Len(s) + Len(q)
      BY <3>1, <3>2, ConcatProperties
    <3>5. \A i \in 1 .. Len(s) + Len(q) :
              (s \o q)[i] = IF i <= Len(s) THEN s[i] ELSE q[i - Len(s)]
      BY <3>1, <3>2, ConcatProperties
    <3> QED BY <3>1, <3>2, <3>3, <3>4, <3>5
  <2>4. HistTyped'
    BY <2>1, <2>3, <1>5, <1>1, <1>2, <1>3, <1>7, <1>c DEF HistTyped
  <2>5. ASSUME NEW i \in 1 .. Len(hist')
        PROVE  hist'[i] = trail'[i + (Len(trail') - Len(hist'))]
    <3>1. Len(hist') = histPos + 1 /\ Len(trail') = place + 1 /\ place = histPos + off /\ off \in Nat
              /\ histPos \in Nat /\ n \in Nat /\ histPos <= n
      BY <2>3, <1>2, <1>3, <1>5
    <3>2. CASE i = histPos + 1
      BY <3>1, <3>2, <2>3, <1>5
    <3>3. CASE i # histPos + 1
      <4>1. i \in 1 .. histPos /\ i \in 1 .. n /\ i + off \in 1 .. place
        BY <2>5, <3>1, <3>3
      <4>2. hist'[i] = trail[i + off] /\ trail'[i + off] = trail[i + off]
        BY <4>1, <2>3, <1>2, <1>5
      <4>3. i + (Len(trail') - Len(hist')) = i + off
        BY <3>1, <4>1
      <4> QED BY <4>2, <4>3
    <3> QED BY <3>2, <3>3
  <2>6. place' - histPos' = Len(trail') - Len(hist') /\ place' >= histPos' /\ url' = hist'[histPos']
    BY <2>1, <2>3, <1>1, <1>5, <1>2, <1>3
  <2> QED BY <2>4, <2>5, <2>6 DEF HistInv, Followed
<1> QED BY <1>2, <1>c, <1>6, <1>7


\* Going to a page of the history, or to the one on the screen again: the pages
\* stay, the position moves with the user's.
Moves(u) ==
    /\ histPos' \in 0 .. Len(hist) /\ (hist # <<>> => histPos' > 0)
    /\ place' \in Nat /\ place' - histPos' = place - histPos
    /\ hist # <<>> /\ ~resent => u = hist[histPos']

LEMMA RevisitMoves ==
    ASSUME HistInv, NEW u, NEW at, Arrive(u, at, FALSE), Moves(u)
    PROVE  HistInv'
<1>1. url' = at /\ hist' = hist /\ trail' = trail /\ resent' = (resent \/ at # u)
  BY DEF Arrive
<1>2. /\ hist \in Seq(Pages) /\ trail \in Seq(Pages) /\ Len(hist) <= HistMax
      /\ histPos \in 0 .. Len(hist) /\ place \in Nat /\ Len(hist) \in Nat /\ Len(trail) \in Nat
      /\ place - histPos = Len(trail) - Len(hist) /\ place >= histPos
      /\ \A i \in 1 .. Len(hist) : hist[i] = trail[i + (Len(trail) - Len(hist))]
  BY DEF HistInv, HistTyped, Followed
<1>m. /\ histPos' \in 0 .. Len(hist) /\ (hist # <<>> => histPos' > 0)
      /\ place' \in Nat /\ place' - histPos' = place - histPos
  BY DEF Moves
<1>3. HistTyped'
  BY <1>1, <1>2, <1>m DEF HistTyped
<1>4. histPos' \in Nat /\ place' - histPos' = Len(trail) - Len(hist) /\ place' >= histPos'
  <2>1. histPos' \in Nat
    BY <1>2, <1>m
  <2>2. place' - histPos' = Len(trail) - Len(hist)
    BY <1>2, <1>m
  <2>3. place \in Nat /\ histPos \in Nat /\ place >= histPos
    BY <1>2
  <2>4. PICK p \in Nat, h \in Nat : place' = p /\ histPos' = h
    BY <1>m, <2>1
  <2>5. p - h = place - histPos
    BY <1>m, <2>4
  <2>6. p >= h
    BY <2>3, <2>5
  <2>7. place' >= histPos'
    BY <2>4, <2>6
  <2> QED BY <2>1, <2>2, <2>7
<1>5. hist # <<>> /\ ~resent' => url' = hist[histPos']
  <2>1. ASSUME hist # <<>>, ~resent' PROVE url' = hist[histPos']
    <3>1. ~resent /\ at = u
      BY <1>1, <2>1
    <3>2. u = hist[histPos']
      BY <2>1, <3>1 DEF Moves
    <3> QED BY <1>1, <3>1, <3>2
  <2> QED BY <2>1
<1>6. Followed'
  BY <1>1, <1>2, <1>4, <1>5 DEF Followed
<1> QED BY <1>3, <1>6 DEF HistInv

LEMMA RestKeeps ==
    ASSUME HistInv, UNCHANGED <<url, hist, histPos, trail, place, resent>>
    PROVE  HistInv'
  BY DEF HistInv, HistTyped, Followed

LEMMA InvIs == BrowserInv <=> WindowTyped /\ SourceLives /\ ShownRight /\ HistInv
  BY DEF BrowserInv, HistInv

LEMMA VisitKeeps ==
    ASSUME BrowserInv, NEW u, Navigate(u, TRUE),
           u \in Unsupported \union {Nowhere} => Unmoved
    PROVE  BrowserInv'
<1>1. HistInv
  BY InvIs
<1>2. CASE u \in Pages /\ \E at \in Pages : Shows(u, at, TRUE)
  <2>1. PICK at \in Pages : Shows(u, at, TRUE)
    BY <1>2
  <2>2. WindowTyped' /\ SourceLives' /\ ShownRight' /\ Arrive(u, at, TRUE)
    BY <2>1 DEF Shows
  <2>3. HistInv'
    BY <1>1, <2>2, VisitedKeeps
  <2> QED BY <2>2, <2>3 DEF BrowserInv, HistInv
<1>3. CASE u \in Unsupported \union {Nowhere} /\ Stays
  <2>1. HistInv'
    BY <1>1, <1>3, RestKeeps DEF Stays, Unmoved
  <2> QED BY <1>3, <2>1 DEF BrowserInv, HistInv, Stays
<1> QED BY <1>2, <1>3, NavigateShows

LEMMA RevisitKeeps ==
    ASSUME BrowserInv, NEW u \in Pages, Navigate(u, FALSE), Moves(u)
    PROVE  BrowserInv'
<1>1. HistInv /\ u \notin Unsupported \union {Nowhere}
  BY InvIs, BrowserConstants
<1>2. PICK at \in Pages : Shows(u, at, FALSE)
  BY <1>1, NavigateShows
<1>3. WindowTyped' /\ SourceLives' /\ ShownRight' /\ Arrive(u, at, FALSE)
  BY <1>2 DEF Shows
<1>4. HistInv'
  BY <1>1, <1>3, RevisitMoves
<1> QED BY <1>3, <1>4 DEF BrowserInv, HistInv

LEMMA ReloadKeeps == ASSUME BrowserInv, Reload PROVE BrowserInv'
<1>1. Navigate(url, FALSE) /\ UNCHANGED <<histPos, place>> /\ HistInv
  BY InvIs DEF Reload, Unmoved
<1>2. /\ histPos \in 0 .. Len(hist) /\ place \in Nat /\ (hist # <<>> => histPos > 0)
      /\ (hist # <<>> /\ ~resent => url = hist[histPos])
  BY <1>1 DEF HistInv, HistTyped, Followed
<1>3. CASE url \in Pages
  BY <1>1, <1>2, <1>3, RevisitKeeps DEF Moves
<1>4. CASE Stays
  <2>1. HistInv'
    BY <1>1, <1>4, RestKeeps DEF Stays
  <2> QED BY <1>4, <2>1 DEF BrowserInv, HistInv, Stays
<1> QED BY <1>1, <1>3, <1>4, NavigateShows

LEMMA GoBackKeeps == ASSUME BrowserInv, GoBack PROVE BrowserInv'
<1>1. /\ histPos > 1 /\ histPos' = histPos - 1 /\ place' = place - 1
      /\ Navigate(hist[histPos - 1], FALSE)
  BY DEF GoBack
<1>2. /\ hist \in Seq(Pages) /\ Len(hist) \in Nat /\ histPos \in 0 .. Len(hist)
      /\ place \in Nat /\ place >= histPos
  BY DEF BrowserInv, HistTyped, Followed
<1>3. histPos - 1 \in 1 .. Len(hist) /\ hist[histPos - 1] \in Pages
  BY <1>1, <1>2
<1>4. histPos' \in 0 .. Len(hist) /\ place' \in Nat /\ place' - histPos' = place - histPos /\ histPos' > 0
  BY <1>1, <1>2
<1> QED BY <1>1, <1>3, <1>4, RevisitKeeps DEF Moves

LEMMA GoForwardKeeps == ASSUME BrowserInv, GoForward PROVE BrowserInv'
<1>1. /\ histPos < Len(hist) /\ histPos' = histPos + 1 /\ place' = place + 1
      /\ Navigate(hist[histPos + 1], FALSE)
  BY DEF GoForward
<1>2. /\ hist \in Seq(Pages) /\ Len(hist) \in Nat /\ histPos \in 0 .. Len(hist)
      /\ place \in Nat
  BY DEF BrowserInv, HistTyped, Followed
<1>3. histPos + 1 \in 1 .. Len(hist) /\ hist[histPos + 1] \in Pages
  BY <1>1, <1>2
<1>4. histPos' \in 0 .. Len(hist) /\ place' \in Nat /\ place' - histPos' = place - histPos /\ histPos' > 0
  BY <1>1, <1>2
<1> QED BY <1>1, <1>3, <1>4, RevisitKeeps DEF Moves

-----------------------------------------------------------------------------
(* The rest of the window *)

LEMMA ClampStays ==
    ASSUME NEW s \in Int, NEW doc, NEW w \in Widths, IsDoc(doc)
    PROVE  Clamp(s, doc, w) \in 0 .. MaxScroll(doc, w)
<1>1. MaxScroll(doc, w) \in Nat
  BY DEF IsDoc, MaxScroll
<1> QED BY <1>1 DEF Clamp

\* Typing, pointing and clicking beside everything.
LEMMA SmallKeeps ==
    ASSUME BrowserInv, Focus \/ (\E u \in Typed : Type(u)) \/ Escape \/ ClickElsewhere \/ Hover
    PROVE  BrowserInv'
<1>1. /\ UNCHANGED <<url, body, errbuf, lastSrc, shown, size, scroll, hist, histPos, trail, place, resent>>
      /\ hover' = hover \/ hover' \in shown.doc.links \union {Nowhere}
  BY DEF Focus, Type, Escape, ClickElsewhere, Hover, page, history
<1>2. HistInv'
  BY <1>1, InvIs, RestKeeps
<1>3. WindowTyped' /\ SourceLives' /\ ShownRight'
  BY <1>1 DEF BrowserInv, WindowTyped, SourceLives, Source, ShownRight
<1> QED BY <1>2, <1>3 DEF BrowserInv, HistInv

LEMMA ScrollKeeps == ASSUME BrowserInv, Scroll PROVE BrowserInv'
<1>1. UNCHANGED <<url, hover, body, errbuf, lastSrc, shown, size, hist, histPos, trail, place, resent>>
  BY DEF Scroll, page, history
<1>2. IsDoc(shown.doc) /\ size.laid \in Widths /\ scroll \in 0 .. MaxScroll(shown.doc, size.laid)
  BY DEF BrowserInv, WindowTyped, ShownRight
<1>3. MaxScroll(shown.doc, size.laid) \in Nat
  BY <1>2 DEF IsDoc, MaxScroll
<1>4. scroll \in Int
  BY <1>2, <1>3
<1>5. scroll' \in 0 .. MaxScroll(shown.doc, size.laid)
  <2>1. PICK d \in {-1, 1} : scroll' = Clamp(scroll + d, shown.doc, size.laid)
    BY DEF Scroll
  <2>2. scroll + d \in Int
    BY <1>4
  <2> QED BY <2>1, <2>2, <1>2, ClampStays
<1>6. HistInv'
  BY <1>1, InvIs, RestKeeps
<1>7. WindowTyped' /\ SourceLives' /\ ShownRight'
  BY <1>1, <1>5 DEF BrowserInv, WindowTyped, SourceLives, Source, ShownRight
<1> QED BY <1>6, <1>7 DEF BrowserInv, HistInv

LEMMA ResizeKeeps == ASSUME BrowserInv, Resize PROVE BrowserInv'
<1>1. UNCHANGED <<url, hover, body, errbuf, lastSrc, shown, scroll, hist, histPos, trail, place, resent>>
  BY DEF Resize, page, history
<1>2. size' \in [now : Widths, laid : Widths] /\ size'.laid = size.laid
  BY DEF Resize, BrowserInv, WindowTyped
<1>3. HistInv'
  BY <1>1, InvIs, RestKeeps
<1>4. WindowTyped' /\ SourceLives' /\ ShownRight'
  BY <1>1, <1>2 DEF BrowserInv, WindowTyped, SourceLives, Source, ShownRight, MaxScroll
<1> QED BY <1>3, <1>4 DEF BrowserInv, HistInv

\* A window of another width: what m_last_src names is what was on the screen.
LEMMA RedrawKeeps == ASSUME BrowserInv, Redraw PROVE BrowserInv'
<1>1. /\ lastSrc # "none" /\ Layout(lastSrc, Source, url, imgs, body)
      /\ scroll' = Clamp(scroll, Source, size.now)
      /\ UNCHANGED <<url, hover, errbuf, hist, histPos, trail, place, resent>>
  BY DEF Redraw, history
<1>2. /\ shown' = [doc |-> Source, base |-> url] /\ lastSrc' = lastSrc
      /\ size' = [size EXCEPT !.laid = size.now] /\ body' = body
  BY <1>1, LayoutShows
<1>3. /\ WindowTyped /\ SourceLives /\ ShownRight /\ Source = shown.doc
  BY <1>1 DEF BrowserInv, SourceLives
<1>4. /\ shown'.doc = shown.doc /\ shown'.base = url
      /\ size' \in [now : Widths, laid : Widths] /\ size'.laid = size.now /\ size.now \in Widths
  BY <1>2, <1>3 DEF WindowTyped
<1>5. Source' = Source
  BY <1>1, <1>2 DEF Source
<1>6. scroll \in Int
  <2>1. MaxScroll(shown.doc, size.laid) \in Nat
    BY <1>3 DEF WindowTyped, IsDoc, MaxScroll
  <2> QED BY <2>1, <1>3 DEF ShownRight
<1>7. scroll' \in 0 .. MaxScroll(shown.doc, size.now)
  BY <1>1, <1>3, <1>4, <1>6, ClampStays DEF WindowTyped
<1>8. WindowTyped'
  BY <1>2, <1>3, <1>4 DEF WindowTyped
<1>9. SourceLives'
  BY <1>2, <1>3, <1>4, <1>5 DEF SourceLives
<1>10. ShownRight'
  BY <1>1, <1>3, <1>4, <1>7 DEF ShownRight, MaxScroll
<1>11. HistInv'
  BY <1>1, InvIs, RestKeeps
<1> QED BY <1>8, <1>9, <1>10, <1>11 DEF BrowserInv, HistInv

\* A window without a page yet.
LEMMA EmptyWindow ==
    ASSUME WindowTyped,
           size' = size, lastSrc' = "none", shown' = [doc |-> NoDoc, base |-> Nowhere],
           url' = Nowhere, hover' = Nowhere, scroll' = 0,
           hist' = <<>>, trail' = <<>>, histPos' = 0, place' = 0
    PROVE  BrowserInv'
<1>1. shown'.doc = NoDoc /\ shown'.base = Nowhere
  OBVIOUS
<1>2. WindowTyped'
  BY <1>1, NoDocIs DEF WindowTyped
<1>3. SourceLives'
  BY DEF SourceLives
<1>4. ShownRight'
  <2>1. size.laid \in Widths
    BY DEF WindowTyped
  <2>2. NoDoc.height[size.laid] = 0
    BY <2>1, NoDocIs
  <2> QED BY <1>1, <2>2 DEF ShownRight, MaxScroll
<1>5. HistInv'
  <2>1. hist' \in Seq(Pages) /\ trail' \in Seq(Pages) /\ Len(hist') = 0 /\ Len(trail') = 0
    BY EmptySeq
  <2> QED BY <2>1, BrowserConstants DEF HistInv, HistTyped, Followed
<1> QED BY <1>2, <1>3, <1>4, <1>5 DEF BrowserInv, HistInv

LEMMA BrowserInitInv == BrowserInit => BrowserInv
<1> SUFFICES ASSUME BrowserInit PROVE BrowserInv
  OBVIOUS
<1>1. shown.doc = NoDoc /\ shown.base = Nowhere
  BY DEF BrowserInit
<1>2. size \in [now : Widths, laid : Widths]
  BY DEF BrowserInit
<1>3. WindowTyped
  BY <1>1, <1>2, NoDocIs DEF WindowTyped, BrowserInit
<1>4. SourceLives
  BY DEF SourceLives, BrowserInit
<1>5. ShownRight
  <2>1. NoDoc.height[size.laid] = 0
    BY <1>2, NoDocIs
  <2> QED BY <1>1, <2>1 DEF ShownRight, MaxScroll, BrowserInit
<1>6. HistInv
  <2>1. hist \in Seq(Pages) /\ trail \in Seq(Pages) /\ Len(hist) = 0 /\ Len(trail) = 0
    BY EmptySeq DEF BrowserInit
  <2> QED BY <2>1, BrowserConstants DEF HistInv, HistTyped, Followed, BrowserInit
<1> QED BY <1>3, <1>4, <1>5, <1>6 DEF BrowserInv, HistInv

LEMMA BrowserStep ==
    ASSUME BrowserInv, [BrowserNext]_browserVars
    PROVE  BrowserInv'
<1>1. CASE ClickLink
  <2>1. PICK u \in shown.doc.links \ Dead : Visit(u)
    BY <1>1 DEF ClickLink
  <2> QED BY <2>1, VisitKeeps DEF Visit
<1>2. CASE Submit \/ Go
  <2>1. Visit(addr)
    BY <1>2 DEF Submit, Go
  <2> QED BY <2>1, VisitKeeps DEF Visit
<1>3. CASE Close
  <2>1. /\ size' = size /\ lastSrc' = "none" /\ shown' = [doc |-> NoDoc, base |-> Nowhere]
        /\ url' = Nowhere /\ hover' = Nowhere /\ scroll' = 0
        /\ hist' = <<>> /\ trail' = <<>> /\ histPos' = 0 /\ place' = 0
    BY <1>3 DEF Close, NewWindow
  <2>2. WindowTyped
    BY DEF BrowserInv
  <2> QED BY <2>1, <2>2, EmptyWindow
<1>4. ASSUME NEW u \in Typed \union {Home}, OpenUrl(u) PROVE BrowserInv'
  <2>1. Navigate(u, TRUE) /\ (u \in Unsupported => Unmoved)
    BY <1>4 DEF OpenUrl
  <2>2. u # Nowhere
    BY <1>4, BrowserConstants DEF Pages
  <2> QED BY <2>1, <2>2, VisitKeeps
<1>5. CASE UNCHANGED browserVars
  <2>1. UNCHANGED <<url, hover, body, errbuf, lastSrc, shown, size, scroll, hist, histPos, trail,
            place, resent>>
    BY <1>5 DEF browserVars, page, history
  <2>2. HistInv'
    BY <2>1, InvIs, RestKeeps
  <2>3. WindowTyped' /\ SourceLives' /\ ShownRight'
    BY <2>1 DEF BrowserInv, WindowTyped, SourceLives, Source, ShownRight
  <2> QED BY <2>2, <2>3 DEF BrowserInv, HistInv
<1> QED BY <1>1, <1>2, <1>3, <1>4, <1>5, ReloadKeeps, GoBackKeeps, GoForwardKeeps, SmallKeeps,
           ScrollKeeps, ResizeKeeps, RedrawKeeps DEF BrowserNext

\* The pages the history holds are the last of the user's way.
LEMMA HistoryFollows == BrowserInv => HistoryKept
<1> SUFFICES ASSUME BrowserInv PROVE HistoryKept
  OBVIOUS
<1> DEFINE n == Len(hist)
           m == Len(trail)
           last == SubSeq(trail, m - n + 1, m)
<1>1. /\ hist \in Seq(Pages) /\ trail \in Seq(Pages) /\ n \in Nat /\ m \in Nat
      /\ n <= HistMax /\ histPos \in 0 .. n /\ (hist # <<>> => histPos > 0) /\ place \in Nat
      /\ place - histPos = m - n /\ place >= histPos
      /\ \A i \in 1 .. n : hist[i] = trail[i + (m - n)]
      /\ (hist # <<>> /\ ~resent => url = hist[histPos])
  BY DEF BrowserInv, HistTyped, Followed
<1>2. n <= m /\ n - histPos = m - place
  BY <1>1
<1>3. hist = last
  <2>1. m - n + 1 \in 1 .. m + 1 /\ m \in (m - n + 1) - 1 .. m /\ m - (m - n + 1) + 1 = n
    BY <1>1, <1>2
  <2>2. /\ last \in Seq(Pages) /\ Len(last) = n
        /\ \A i \in 1 .. n : last[i] = trail[(m - n + 1) + i - 1]
    BY <1>1, <2>1, SubSeqProperties
  <2>3. \A i \in 1 .. n : last[i] = hist[i]
    <3>1. ASSUME NEW i \in 1 .. n PROVE last[i] = hist[i]
      <4>1. (m - n + 1) + i - 1 = i + (m - n)
        BY <1>1
      <4> QED BY <4>1, <2>2, <1>1
    <3> QED BY <3>1
  <2> HIDE DEF last
  <2> QED BY <1>1, <2>2, <2>3, SeqEqual
<1>4. hist # <<>> => histPos \in 1 .. n /\ (~resent => url = hist[histPos])
  BY <1>1
<1> QED BY <1>1, <1>2, <1>3, <1>4 DEF HistoryKept

\* Through every link, reload, way back, error page and refused address: the
\* buffer m_last_src names is alive and on the screen, the history is the last
\* of the user's way with the position on it, and links are resolved at the
\* address of the page that is shown.
THEOREM BrowserStaysRight == BrowserSpec => [](SourceLives /\ HistoryKept /\ ShownRight)
<1>1. BrowserInv => SourceLives /\ HistoryKept /\ ShownRight
  BY HistoryFollows DEF BrowserInv
<1> QED BY BrowserInitInv, BrowserStep, <1>1, PTL DEF BrowserSpec
=============================================================================
