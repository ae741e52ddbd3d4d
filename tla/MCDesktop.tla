----------------------------- MODULE MCDesktop -----------------------------
(***************************************************************************)
(* The desktop, one part at a time, the others standing still: the window  *)
(* manager, the browser and its layout, the keyboard with the arcade       *)
(* launcher, the mouse, and the handles and containers of the Greg library *)
(* it is written with.                                                     *)
(***************************************************************************)
EXTENDS WindowManager, WebPages, InputDevices, GregLibrary, TLC

CONSTANTS w1, w2, w3

VARIABLE part

Parts == {"windows", "layout", "browser", "input", "mouse", "owners", "containers"}

ThreeIds == {w1, w2, w3}
\* The allocator may return any block, so windows are interchangeable.
IdSymmetry == Permutations(Ids)

-----------------------------------------------------------------------------
(* layout: what a document is made of, besides letters and blanks *)

MCImgSizes == {<<30, 12>>}
MCDocuments == {{"a", "name", "b", "br"}, {"h1", "i", "p", "hr"}, {"ul", "li", "blockquote", "a"},
                {"pre", "img", "a"}, {"title", "head", "body", "h4"}}

-----------------------------------------------------------------------------
(* browser: two pages that link to each other, one of them sent on from the *)
(* other at times, and images that load or do not                           *)

Document(links, imgs_, h) == [links |-> links, imgs |-> imgs_, height |-> 40 :> h @@ 60 :> (IF h = 0 THEN 0 ELSE h - 1)]
MCHomeDoc  == Document({"p", "greg://about"}, <<>>, 1)
MCAboutDoc == Document({"greg://home"}, <<>>, 1)
MCErrorDoc == Document({"greg://home"}, <<>>, 1)
Answer(kind, from, doc) == [kind |-> kind, at |-> from, doc |-> doc]
MCWeb == [u \in {"p", "q", "i"} |->
    CASE u = "p" -> {Answer("html", "p", Document({"q", "tel"}, <<"i", "j", "i">>, 1)),
                     Answer("html", "q", Document({"i"}, <<"j", "k">>, 1))}
      [] u = "q" -> {Answer("html", "q", Document({"p"}, <<"k">>, 1))}
      [] u = "i" -> {Answer("png", "i", Document({}, <<"i">>, 0)),
                     Answer("broken", "i", Document({}, <<"j">>, 0))}]
MCImgAnswers == [u \in {"i", "j", "k"} |-> CASE u = "i" -> {"png"}
                                             [] u = "j" -> {"png", "broken"}
                                             [] u = "k" -> {"broken"}]

-----------------------------------------------------------------------------
(* mouse: right, left and down, up, and too far for a packet *)

MCMotions == {<<8, 0>>, <<-6, 3>>, <<2, -1>>, <<300, 0>>}

-----------------------------------------------------------------------------
(* containers: keys that meet in one bucket, or nearly *)

MCHashes == {[k \in {"j", "k", "m"} |-> IF k = "m" THEN 3 ELSE 0], [k \in {"j", "k", "m"} |-> 1]}

-----------------------------------------------------------------------------
desktopVars == <<part, vars, layoutVars, browserVars, inputVars, mouseVars, ownVars, containerVars>>

DesktopStart ==
    /\ part \in Parts
    /\ Init
    /\ LayoutInit  /\ (part # "layout" => "hr" \in tags)
    /\ BrowserInit /\ (part # "browser" => net /\ size.now = 40)
    /\ InputInit
    /\ MouseInit   /\ (part # "mouse" => mouse_gui /\ wire = <<>>)
    /\ OwnInit
    /\ ContainersInit /\ (part # "containers" => which = "ring" /\ hashOf["j"] = 1)

DesktopNext ==
    /\ \/ part = "windows" /\ Next
       \/ part = "layout"  /\ LayoutNext
       \/ part = "browser" /\ BrowserNext
       \/ part = "input"   /\ InputNext
       \/ part = "mouse"   /\ MouseNext
       \/ part = "owners"  /\ OwnNext
       \/ part = "containers" /\ ContainersNext
    /\ part # "windows" => UNCHANGED vars
    /\ part # "layout"  => UNCHANGED layoutVars
    /\ part # "browser" => UNCHANGED browserVars
    /\ part # "input"   => UNCHANGED inputVars
    /\ part # "mouse"   => UNCHANGED mouseVars
    /\ part # "owners"  => UNCHANGED ownVars
    /\ part # "containers" => UNCHANGED containerVars
    /\ UNCHANGED part

DesktopSpec == DesktopStart /\ [][DesktopNext]_desktopVars
\* The keyboard and the launcher alone.
KeyboardSpec == DesktopStart /\ part = "input" /\ [][DesktopNext]_desktopVars

\* Every handle is counted and in its place, and the containers hold what they
\* were given.
LibraryRight == /\ part = "owners" => OwnershipRight
                /\ part = "containers" => ContainersRight
=============================================================================
