------------------------------ MODULE WebPages ------------------------------
(***************************************************************************)
(* The browser: how a page's text becomes lines and boxes, then the window *)
(* with its history, its images and its errors.                            *)
(***************************************************************************)
EXTENDS Integers, Sequences, FiniteSets

(***************************************************************************)
(* The layout engine of the browser (BrowserWindow.cpp, layout): a pass    *)
(* over a document's tokens that fills the text arena and the list of      *)
(* positioned fragments.  The methods of the class change a pen; here each *)
(* is an operator from pen to pen.  A token is a tag, a letter, a blank;   *)
(* distances are the source's pixels.                                      *)
(***************************************************************************)
CONSTANTS
    ContentW,   \* content_w()
    TextCap,    \* TEXT_CAP
    MaxFrags,   \* MAX_FRAGS
    MaxLinks,   \* MAX_LINKS
    WordCap,    \* LINK_MAX, the size of the word buffer
    ImgSizes,   \* widths and heights of the images that load
    MaxTokens,  \* bound: tokens of a document
    Documents   \* the sets of tags a document is made of

ASSUME PageLayoutAssumption ==
    /\ {ContentW, MaxLinks, MaxTokens} \subseteq Nat
    /\ {TextCap, MaxFrags, WordCap} \subseteq Nat \ {0}
    /\ ImgSizes \subseteq Nat \X Nat

CW == 8
LH == 18
ParaGap == 9
ListInd == 22
QuoteInd == 20

VARIABLES
    pen,       \* the layout and pen state of the window
    tokens,    \* bound: tokens read
    tags       \* the tags of this document

layoutVars == <<pen, tokens, tags>>

NoLink == 0

\* What recompute_pen makes of the style in effect.
Style(p) == [link |-> p.curLink,
             bold |-> p.bold > 0 \/ p.heading \in 1 .. 3,
             color |-> IF p.curLink # NoLink THEN "link"
                       ELSE IF p.heading > 0 THEN "heading"
                       ELSE IF p.dim > 0 THEN "dim" ELSE "text"]

\* reset_layout.  text is m_text: of each character, the style it is written
\* in and whether the line has room for a character where it goes.
ResetLayout ==
    [text |-> <<>>, frags |-> <<>>, linkCount |-> 0, contentH |-> 0,
     penX |-> 0, penY |-> 0, indent |-> 0, fragX |-> 0, fragStart |-> 0,
     atLineStart |-> TRUE, anyContent |-> FALSE, gapDone |-> FALSE,
     pre |-> FALSE, inHead |-> FALSE, inTitle |-> FALSE,
     bold |-> 0, dim |-> 0, list |-> 0, quote |-> 0, heading |-> 0,
     curLink |-> NoLink, word |-> 0,
     penStyle |-> [link |-> NoLink, bold |-> FALSE, color |-> "text"]]

Indented(p) ==
    LET i == p.list * ListInd + p.quote * QuoteInd
    IN  [p EXCEPT !.indent = i, !.penX = IF p.atLineStart THEN i ELSE @,
                  !.fragX = IF p.atLineStart THEN i ELSE @]

Room(p) == LET a == ContentW - p.indent IN IF a < CW THEN ContentW ELSE a

AddFrag(fs, f) == IF Len(fs) >= MaxFrags THEN fs ELSE Append(fs, f)

Slice(p) == [kind |-> "text", x |-> p.fragX, y |-> p.penY, w |-> p.penX - p.fragX,
             h |-> LH, off |-> p.fragStart, len |-> Len(p.text) - p.fragStart,
             style |-> p.penStyle]

FlushFrag(p) ==
    [p EXCEPT !.frags = IF Len(p.text) > p.fragStart THEN AddFrag(@, Slice(p)) ELSE @,
              !.fragStart = Len(p.text), !.fragX = p.penX]

\* Mutant of Restyle: the pen changes before the fragment is closed.
RestyleEarly(p) == FlushFrag([p EXCEPT !.penStyle = Style(p)])
\* Every change of style closes the fragment drawn so far.
Restyle(p) == [FlushFrag(p) EXCEPT !.penStyle = Style(p)]

\* put_run
PutRun(p, n) ==
    LET stored == IF n < TextCap - 1 - Len(p.text) THEN n ELSE TextCap - 1 - Len(p.text)
        glyph  == [style |-> Style(p), flows |-> ~p.pre /\ ContentW - p.indent >= CW]
    IN  [p EXCEPT !.text = @ \o [i \in 1 .. stored |-> glyph],
                  !.penX = @ + stored * CW, !.atLineStart = FALSE,
                  !.anyContent = TRUE, !.gapDone = FALSE]

LineBreak(p) ==
    LET f == FlushFrag(p)
    IN  [f EXCEPT !.penY = @ + LH, !.penX = f.indent, !.fragX = f.indent,
                  !.atLineStart = TRUE]

EnsureBlock(p, gap) ==
    LET b == IF p.atLineStart THEN p ELSE LineBreak(p)
    IN  IF ~p.anyContent THEN p
        ELSE IF gap /\ ~b.gapDone THEN [b EXCEPT !.penY = @ + ParaGap, !.gapDone = TRUE]
        ELSE b

\* Mutant of Wraps: the blank in front of the word is not counted.
WrapsLate(p, n) == ~p.atLineStart /\ p.penX + n * CW > ContentW
Wraps(p, n)     == ~p.atLineStart /\ p.penX + CW + n * CW > ContentW

\* emit_word: a word wider than the line is broken into lines of `per`.
HardBreak(p, n) ==
    LET per    == Room(p) \div CW
        pieces == (n + per - 1) \div per
        Fresh(q) == IF q.atLineStart THEN q ELSE LineBreak(q)
        upTo[i \in 0 .. pieces] ==
            IF i = 0 THEN p
            ELSE LET take == IF i = pieces THEN n - per * (pieces - 1) ELSE per
                 IN  PutRun(Fresh(upTo[i - 1]), take)
    IN  upTo[pieces]

EmitWord(p, n) ==
    LET l == IF Wraps(p, n) THEN LineBreak(p) ELSE p
        s == IF l.atLineStart THEN l ELSE PutRun(l, 1)
    IN  IF n = 0 THEN p ELSE IF n * CW > Room(p) THEN HardBreak(p, n) ELSE PutRun(s, n)

FlushWord(p) == [EmitWord(p, p.word) EXCEPT !.word = 0]

\* add_hr, add_img_frag: a block of its own, as wide and high as given; the pen
\* goes on `next` below.
OwnLine(p) == IF p.atLineStart THEN FlushFrag(p) ELSE LineBreak(p)
AddBlock(p, kind, w, h, next) ==
    LET b == OwnLine(p)
    IN  [b EXCEPT !.frags = AddFrag(@, [kind |-> kind, x |-> b.indent, y |-> b.penY,
                                        w |-> w, h |-> h, off |-> 0, len |-> 0,
                                        style |-> [link |-> NoLink, bold |-> FALSE, color |-> "text"]]),
                  !.penY = @ + next, !.penX = b.indent, !.fragX = b.indent,
                  !.atLineStart = TRUE, !.anyContent = TRUE]

AddHr(p) == LET b == OwnLine(p) IN AddBlock(p, "hr", ContentW - b.indent, LH, LH)
AddImg(p, wh) ==
    [AddBlock(p, "img", wh[1], wh[2], wh[2] + 4) EXCEPT !.gapDone = FALSE]

-----------------------------------------------------------------------------
(* handle_tag *)

Less(n) == IF n > 0 THEN n - 1 ELSE 0

\* An <a> with an address while the table has room, or one without.
\* Mutant of Anchor: the link of a full table is the last one's.
AnchorLast(p, href) ==
    IF href /\ p.linkCount < MaxLinks
    THEN [p EXCEPT !.linkCount = @ + 1, !.curLink = p.linkCount + 1]
    ELSE [p EXCEPT !.curLink = p.linkCount + 1]
Anchor(p, href) ==
    IF href /\ p.linkCount < MaxLinks
    THEN [p EXCEPT !.linkCount = @ + 1, !.curLink = p.linkCount + 1]
    ELSE [p EXCEPT !.curLink = NoLink]

TagOpened(p, t) ==
    CASE t = "br" -> IF ~p.atLineStart THEN LineBreak(p)
                     ELSE [p EXCEPT !.penY = IF p.anyContent THEN @ + LH ELSE @]
      [] t = "p" -> EnsureBlock(p, TRUE)
      [] t \in {"h1", "h4"} ->
           Restyle([EnsureBlock(p, TRUE) EXCEPT !.heading = IF t = "h1" THEN 1 ELSE 4])
      [] t = "hr" -> AddHr(p)
      [] t = "ul" -> Indented([EnsureBlock(p, FALSE) EXCEPT !.list = @ + 1])
      [] t = "li" -> PutRun(IF p.atLineStart THEN p ELSE LineBreak(p), 1)
      [] t = "blockquote" -> Indented([EnsureBlock(p, FALSE) EXCEPT !.quote = @ + 1])
      [] t = "pre" -> [EnsureBlock(p, FALSE) EXCEPT !.pre = TRUE]
      [] t = "a" -> Restyle(Anchor(p, TRUE))
      [] t = "name" -> Restyle(Anchor(p, FALSE))
      [] t = "b" -> Restyle([p EXCEPT !.bold = @ + 1])
      [] t = "i" -> Restyle([p EXCEPT !.dim = @ + 1])
      [] t = "title" -> [p EXCEPT !.inTitle = TRUE]
      [] t = "head" -> [p EXCEPT !.inHead = TRUE]
      [] t = "body" -> [p EXCEPT !.inHead = FALSE]

TagClosed(p, t) ==
    CASE t = "p" -> EnsureBlock(p, TRUE)
      [] t \in {"h1", "h4"} -> EnsureBlock(Restyle([p EXCEPT !.heading = 0]), TRUE)
      [] t \in {"a", "name"} -> Restyle([p EXCEPT !.curLink = NoLink])
      [] t = "b" -> Restyle([p EXCEPT !.bold = Less(@)])
      [] t = "i" -> Restyle([p EXCEPT !.dim = Less(@)])
      [] t = "ul" -> EnsureBlock(Indented([p EXCEPT !.list = Less(@)]), FALSE)
      [] t = "blockquote" -> EnsureBlock(Indented([p EXCEPT !.quote = Less(@)]), FALSE)
      [] t = "pre" -> LineBreak([p EXCEPT !.pre = FALSE])
      [] t = "title" -> [p EXCEPT !.inTitle = FALSE]
      [] t = "head" -> [p EXCEPT !.inHead = FALSE]
      [] OTHER -> p

-----------------------------------------------------------------------------
(* layout *)

LayoutInit ==
    /\ pen = ResetLayout /\ tokens = 0
    /\ tags \in Documents

Token == tokens < MaxTokens /\ tokens' = tokens + 1 /\ UNCHANGED tags

OpenTag(t)  == Token /\ t \in tags /\ t # "img" /\ pen' = TagOpened(FlushWord(pen), t)
CloseTag(t) == Token /\ t \in tags /\ t # "img" /\ pen' = TagClosed(FlushWord(pen), t)

\* An image that loads is a block, another one shows its text.
ImgLoads == /\ Token /\ "img" \in tags
            /\ \E wh \in ImgSizes : pen' = AddImg(FlushWord(pen), wh)
ImgFails == Token /\ "img" \in tags /\ pen' = EmitWord(FlushWord(pen), 2)

Skipped == pen.inTitle \/ pen.inHead

\* A letter goes to the word, in <pre> straight to the page.
Letter ==
    /\ Token
    /\ pen' = IF Skipped THEN pen
              ELSE IF pen.pre THEN PutRun(pen, 1)
              ELSE [pen EXCEPT !.word = IF @ < WordCap - 1 THEN @ + 1 ELSE @]

\* A blank ends the word; a new line in <pre> ends the line.
Space ==
    /\ Token
    /\ pen' = IF Skipped THEN pen
              ELSE IF pen.pre THEN [LineBreak(pen) EXCEPT !.anyContent = TRUE]
              ELSE FlushWord(pen)

\* The end of the document.
EndOfPage ==
    /\ tokens <= MaxTokens /\ tokens' = MaxTokens + 1 /\ UNCHANGED tags
    /\ LET e == FlushFrag(FlushWord(pen))
       IN  pen' = [e EXCEPT !.contentH = e.penY + LH]

LayoutNext ==
    \/ \E t \in tags : OpenTag(t) \/ CloseTag(t)
    \/ ImgLoads \/ ImgFails \/ Letter \/ Space \/ EndOfPage

LayoutSpec == LayoutInit /\ [][LayoutNext]_layoutVars

-----------------------------------------------------------------------------
(* Properties *)

Frag(i) == pen.frags[i]
Texts   == {i \in DOMAIN pen.frags : Frag(i).kind = "text"}
Glyphs(f) == {pen.text[k] : k \in (f.off + 1) .. (f.off + f.len)}

\* Text is drawn in the style and with the link it was written in, although the
\* style is looked at only when a fragment is closed, some tags later
\* (BrowserWindow.cpp:433); a link names an entry of the table.
StyledAsWritten ==
    \A i \in Texts : /\ \A g \in Glyphs(Frag(i)) : g.style = Frag(i).style
                     /\ Frag(i).style.link \in 0 .. pen.linkCount

\* The fragments cut the arena up in order, without a character in two of them.
Cut == \A i, j \in Texts : i < j => Frag(i).off + Frag(i).len <= Frag(j).off

\* No two fragments lie over each other, so a click finds the one that is seen.
Apart ==
    \A i, j \in DOMAIN pen.frags : i < j =>
        \/ Frag(i).y + Frag(i).h <= Frag(j).y
        \/ Frag(i).y = Frag(j).y /\ Frag(i).x + Frag(i).w <= Frag(j).x

\* Text that flows stays left of the scroll bar while the indent leaves room for
\* one character; the page is as high as what is on it.
InsideWidth ==
    \A i \in Texts : (\A g \in Glyphs(Frag(i)) : g.flows)
                         => Frag(i).x + Frag(i).w <= ContentW
AsHigh == tokens > MaxTokens => \A i \in DOMAIN pen.frags : Frag(i).y + Frag(i).h <= pen.contentH

\* The page shows what the document says where a click and the eye expect it.
PageRight == StyledAsWritten /\ Cut /\ Apart /\ InsideWidth /\ AsHigh

-----------------------------------------------------------------------------
(***************************************************************************)
(* The browser window (BrowserWindow.cpp): addresses, history, the         *)
(* document's buffer, the cache of decoded images, and what the display    *)
(* list refers to.  Every event is handled to its end in the main thread,  *)
(* the fetch included (module WebFetch); the layout itself is module       *)
(* the layout above, here it yields a document's links and image fragments.  *)
(***************************************************************************)
CONSTANTS
    Addresses,   \* the addresses of the pages and links, Home and About apart
    Typed,       \* those a user types
    Unsupported, \* addresses with another scheme than http, https and greg
    Dead,        \* links of the kinds mailto:, javascript:, tel:
    Web,         \* of each other address, the answers a fetch may have
    ImgAnswers,  \* of the address of an image, what its load may come to
    Home, About, \* greg://home, greg://about
    HomeDoc, AboutDoc, ErrorDoc,   \* what those pages and the error page show
    HistMax,     \* HIST_MAX
    MaxImgs,     \* MAX_IMGS
    Widths,      \* the widths the window takes (content_w)
    MaxVisits    \* bound: pages pushed on the history

ASSUME BrowserAssumption ==
    /\ HistMax \in Nat \ {0} /\ {MaxImgs, MaxVisits} \subseteq Nat
    /\ Unsupported \union Dead \subseteq Addresses
    /\ {Home, About} \intersect Addresses = {}

VARIABLES
    url,        \* m_url
    addr,       \* m_addr
    addrFocus,  \* m_addr_focus
    hover,      \* m_hover
    body,       \* the document m_body holds, or NoDoc
    errbuf,     \* the document m_errbuf holds
    lastSrc,    \* m_last_src: which buffer was laid out
    shown,      \* the document on the screen and the address it was resolved at
    frags,      \* its image fragments: index of the image, address asked for
    imgs,       \* m_imgs
    size,       \* content_w() now, and m_layout_w
    scroll,     \* m_scroll
    hist, histPos,   \* m_hist, m_hist_pos
    net,        \* net_ready()
    open,       \* the window is in the list
    pixels,     \* history: image buffers allocated and not freed
    trail, place,   \* history: the pages visited, and where the user is
    resent       \* history: the page was sent on elsewhere since it was visited

page       == <<body, errbuf, lastSrc, shown, frags, imgs, pixels>>
history    == <<hist, histPos, trail, place>>
browserVars == <<url, addr, addrFocus, hover, page, size, scroll, history, net, open, resent>>

NoDoc == [links |-> {}, imgs |-> <<>>, height |-> [w \in Widths |-> 0]]
Nowhere == "nowhere"

Fetched == Addresses \ (Unsupported \union Dead)

\* Nowhere and NoDoc are no address and no document; a document has a height at
\* every width, and what is fetched came from an address that can be: redirects
\* are followed to http and https only.
IsDoc(d) == DOMAIN d = {"links", "imgs", "height"} /\ d.height \in [Widths -> Nat]
ASSUME WebAssumption ==
    /\ Nowhere \notin {Home, About} \union Addresses \union Typed
    /\ IsDoc(HomeDoc) /\ IsDoc(AboutDoc) /\ IsDoc(ErrorDoc)
    /\ DOMAIN Web = Fetched
    /\ \A u \in Fetched : \A a \in Web[u] : a.at \in Fetched /\ IsDoc(a.doc) /\ a.doc # NoDoc

InternalDoc(u) == IF u = About THEN AboutDoc ELSE HomeDoc

\* The document lastSrc points to.
Source == CASE lastSrc = "home"  -> HomeDoc
            [] lastSrc = "about" -> AboutDoc
            [] lastSrc = "error" -> errbuf
            [] OTHER             -> body

MaxScroll(doc, w) == doc.height[w]
Clamp(s, doc, w)  == IF s > MaxScroll(doc, w) THEN MaxScroll(doc, w) ELSE IF s < 0 THEN 0 ELSE s

-----------------------------------------------------------------------------
(* images *)

Pixels(is) == Cardinality({k \in DOMAIN is : ~is[k].failed})

\* Mutant of Freed: the table is emptied, its buffers are not freed.
FreedNone(is) == 0
\* free_images
Freed(is) == Pixels(is)

\* load_image: the cache, then the network; a failure is cached as well, an
\* address that is not http is neither.
Load(is, u, answer) ==
    IF \E k \in DOMAIN is : is[k].url = u
    THEN LET k == CHOOSE i \in DOMAIN is : is[i].url = u
         IN  <<is, IF is[k].failed THEN 0 ELSE k>>
    ELSE IF Len(is) >= MaxImgs \/ ~net \/ answer = "scheme" THEN <<is, 0>>
    ELSE <<Append(is, [url |-> u, failed |-> answer # "png"]),
           IF answer = "png" THEN Len(is) + 1 ELSE 0>>

\* The images of a document in the order of the layout.
Loaded(is, wanted, answers) ==
    LET after[k \in 0 .. Len(wanted)] ==
          IF k = 0 THEN [imgs |-> is, frags |-> {}]
          ELSE LET l == Load(after[k - 1].imgs, wanted[k], answers[wanted[k]])
               IN  [imgs |-> l[1],
                    frags |-> after[k - 1].frags
                                \union (IF l[2] = 0 THEN {} ELSE {<<l[2], wanted[k]>>})]
    IN  after[Len(wanted)]

AnswersTo(wanted) ==
    LET us == {wanted[k] : k \in DOMAIN wanted}
    IN  {f \in [us -> UNION {ImgAnswers[u] : u \in us}] : \A u \in us : f[u] \in ImgAnswers[u]}

-----------------------------------------------------------------------------
(* layout and the buffers *)

\* layout(src) of a document at an address, over the images already in the table
\* and the document m_body holds from now on.
Layout(src, doc, at, is, bodyNow) ==
    \E answers \in AnswersTo(doc.imgs) :
      LET l == Loaded(is, doc.imgs, answers)
      IN  /\ imgs' = l.imgs /\ frags' = l.frags
          /\ shown' = [doc |-> doc, base |-> at]
          /\ lastSrc' = src /\ size' = [size EXCEPT !.laid = size.now]
          /\ body' = bodyNow
          /\ pixels' = pixels + Pixels(l.imgs) - (IF is = imgs THEN Pixels(imgs) ELSE Freed(imgs))

\* Mutant of SrcAfterFree: the pointer to the freed document stays.
SrcAfterFreeKept == lastSrc
\* free_body
SrcAfterFree == IF lastSrc = "body" THEN "none" ELSE lastSrc

-----------------------------------------------------------------------------
(* history *)

\* Mutant of Pushed: in a full history the last page is overwritten.
PushedOver(u) ==
    LET p == histPos + 1
    IN  [stack |-> IF p > HistMax THEN SubSeq(hist, 1, HistMax - 1) \o <<u>>
                                  ELSE SubSeq(hist, 1, p - 1) \o <<u>>,
         pos |-> IF p > HistMax THEN HistMax ELSE p]

\* push_history
Pushed(u) ==
    LET p == histPos + 1
    IN  [stack |-> IF p > HistMax THEN Tail(hist) \o <<u>> ELSE SubSeq(hist, 1, p - 1) \o <<u>>,
         pos |-> IF p > HistMax THEN HistMax ELSE p]

\* How navigate ends: the address it came to is shown and pushed.
Arrive(asked, at, push) ==
    /\ url' = at /\ addr' = at /\ addrFocus' = FALSE /\ hover' = Nowhere
    /\ IF push
       THEN /\ Len(trail) < MaxVisits
            /\ hist' = Pushed(at).stack /\ histPos' = Pushed(at).pos
            /\ trail' = Append(SubSeq(trail, 1, place), at) /\ place' = place + 1
            /\ resent' = FALSE
       ELSE UNCHANGED <<hist, trail>> /\ resent' = (resent \/ at # asked)

-----------------------------------------------------------------------------
(* navigate *)

Internal(u, push) ==
    /\ u \in {Home, About}
    /\ Layout(IF u = About THEN "about" ELSE "home", InternalDoc(u), u, <<>>, NoDoc)
    /\ scroll' = 0 /\ Arrive(u, u, push) /\ UNCHANGED errbuf

\* An empty address, before anything is freed.
Empty(u) ==
    /\ u = Nowhere /\ hover' = Nowhere /\ addrFocus' = FALSE
    /\ UNCHANGED <<url, addr, page, size, scroll, hist, trail, resent>>

\* Another scheme: the old document is freed, its picture stays on the screen.
Refuse(u) ==
    /\ u \in Unsupported
    /\ body' = NoDoc /\ lastSrc' = SrcAfterFree /\ imgs' = <<>>
    /\ pixels' = pixels - Freed(imgs)
    /\ hover' = Nowhere /\ addrFocus' = FALSE
    /\ UNCHANGED <<url, addr, errbuf, shown, frags, size, scroll, hist, trail, resent>>

ErrorPage(u, at, doc, is, bodyNow, push) ==
    /\ errbuf' = doc /\ scroll' = 0
    /\ Layout("error", doc, at, is, bodyNow) /\ Arrive(u, at, push)

\* No network, or a fetch that fails: handshake, certificate, address, server.
Fails(u, push) == /\ u \in Fetched
                  /\ ErrorPage(u, u, ErrorDoc, <<>>, NoDoc, push)

\* A picture is put into the cache first, with a page around it.
ShowPng(u, a, push) ==
    LET decoded == a.kind = "png" /\ MaxImgs > 0
        is      == IF MaxImgs > 0 THEN <<[url |-> a.at, failed |-> ~decoded]>> ELSE <<>>
    IN  ErrorPage(u, a.at, [ErrorDoc EXCEPT !.imgs = IF decoded THEN <<a.at>> ELSE <<>>],
                  is, a.doc, push)

ShowPage(u, a, push) ==
    /\ Layout("body", a.doc, a.at, <<>>, a.doc) /\ scroll' = 0
    /\ Arrive(u, a.at, push) /\ UNCHANGED errbuf

Fetches(u, push) ==
    /\ net /\ u \in Fetched
    /\ \E a \in Web[u] : \/ a.kind = "html" /\ ShowPage(u, a, push)
                         \/ a.kind \in {"png", "broken"} /\ ShowPng(u, a, push)

Navigate(u, push) ==
    Internal(u, push) \/ Empty(u) \/ Refuse(u) \/ Fails(u, push) \/ Fetches(u, push)

Unmoved == UNCHANGED <<histPos, place>>

\* Ways to a new page: a link, the address bar.  What is linked to or typed is
\* pushed, unless the scheme is refused.
Visit(u) ==
    /\ Navigate(u, TRUE)
    /\ u \in Unsupported \union {Nowhere} => Unmoved
    /\ UNCHANGED <<net, open>>

\* Only a link's address is copied: a dead one changes the status line.
ClickLink == open /\ \E u \in shown.doc.links \ Dead : Visit(u)

Submit == open /\ addrFocus /\ Visit(addr)

Go == open /\ Visit(addr)

Reload ==
    /\ open /\ Navigate(url, FALSE) /\ Unmoved
    /\ UNCHANGED <<net, open>>

GoBack ==
    /\ open /\ histPos > 1
    /\ histPos' = histPos - 1 /\ place' = place - 1
    /\ Navigate(hist[histPos - 1], FALSE)
    /\ UNCHANGED <<net, open>>

GoForward ==
    /\ open /\ histPos < Len(hist)
    /\ histPos' = histPos + 1 /\ place' = place + 1
    /\ Navigate(hist[histPos + 1], FALSE)
    /\ UNCHANGED <<net, open>>

-----------------------------------------------------------------------------
(* the rest of the window *)

Focus == /\ open /\ addrFocus' = TRUE
         /\ UNCHANGED <<url, addr, hover, page, size, scroll, history, net, open, resent>>

\* Keys in the address bar, whole words at a time; Escape puts the page's back.
Type(u) == /\ open /\ addrFocus /\ addr' = u
           /\ UNCHANGED <<url, addrFocus, hover, page, size, scroll, history, net, open, resent>>
Escape == /\ open /\ addrFocus /\ addrFocus' = FALSE /\ addr' = url
          /\ UNCHANGED <<url, hover, page, size, scroll, history, net, open, resent>>

\* A dead link, or a click beside everything.
ClickElsewhere ==
    /\ open /\ addrFocus' = FALSE
    /\ UNCHANGED <<url, addr, hover, page, size, scroll, history, net, open, resent>>

Hover == /\ open /\ hover' \in shown.doc.links \union {Nowhere}
         /\ UNCHANGED <<url, addr, addrFocus, page, size, scroll, history, net, open, resent>>

Scroll == /\ open
          /\ \E d \in {-1, 1} : scroll' = Clamp(scroll + d, shown.doc, size.laid)
          /\ UNCHANGED <<url, addr, addrFocus, hover, page, size, history, net, open, resent>>

Resize == /\ open /\ \E w \in Widths : size' = [size EXCEPT !.now = w]
          /\ UNCHANGED <<url, addr, addrFocus, hover, page, scroll, history, net, open, resent>>

\* draw: a window of another width lays its source out again.
Redraw ==
    /\ open /\ lastSrc # "none" /\ size.now # size.laid
    /\ Layout(lastSrc, Source, url, imgs, body)
    /\ scroll' = Clamp(scroll, Source, size.now)
    /\ UNCHANGED <<url, addr, addrFocus, hover, errbuf, history, net, open, resent>>

\* A window as it is built.
NewWindow ==
    /\ url' = Nowhere /\ addr' = Nowhere /\ addrFocus' = FALSE /\ hover' = Nowhere
    /\ errbuf' = NoDoc /\ shown' = [doc |-> NoDoc, base |-> Nowhere] /\ frags' = {}
    /\ scroll' = 0 /\ hist' = <<>> /\ histPos' = 0
    /\ trail' = <<>> /\ place' = 0 /\ resent' = FALSE /\ UNCHANGED size

\* Escape or the title bar, then the purge: on_removed frees what is held.
Close ==
    /\ open /\ open' = FALSE /\ NewWindow
    /\ body' = NoDoc /\ lastSrc' = "none" /\ imgs' = <<>>
    /\ pixels' = pixels - Freed(imgs) /\ UNCHANGED net

\* open_browser_window_url: the home page, or what the terminal asks for.
OpenUrl(u) ==
    /\ ~open /\ open' = TRUE
    /\ Navigate(u, TRUE)
    /\ u \in Unsupported => Unmoved
    /\ UNCHANGED net

-----------------------------------------------------------------------------
BrowserInit ==
    /\ net \in BOOLEAN /\ open = FALSE
    /\ url = Nowhere /\ addr = Nowhere /\ addrFocus = FALSE /\ hover = Nowhere
    /\ body = NoDoc /\ errbuf = NoDoc /\ lastSrc = "none"
    /\ shown = [doc |-> NoDoc, base |-> Nowhere] /\ frags = {} /\ imgs = <<>>
    /\ \E w \in Widths : size = [now |-> w, laid |-> w]
    /\ scroll = 0 /\ hist = <<>> /\ histPos = 0 /\ pixels = 0
    /\ trail = <<>> /\ place = 0 /\ resent = FALSE

BrowserNext ==
    \/ ClickLink \/ Submit \/ Go \/ Reload \/ GoBack \/ GoForward
    \/ Focus \/ (\E u \in Typed : Type(u)) \/ Escape \/ ClickElsewhere
    \/ Hover \/ Scroll \/ Resize \/ Redraw \/ Close
    \/ \E u \in Typed \union {Home} : OpenUrl(u)

BrowserSpec == BrowserInit /\ [][BrowserNext]_browserVars

-----------------------------------------------------------------------------
(* Properties *)

\* A window that is made wider lays m_last_src out again: the pointer never
\* names a document that was freed, although navigate has early returns ("so a
\* later reflow in draw() can't read freed memory", BrowserWindow.cpp:691), and
\* what it names is what is on the screen.
SourceLives ==
    /\ lastSrc = "body" => body # NoDoc
    /\ lastSrc # "none" => Source = shown.doc

\* An image fragment shows the image its page asked for or nothing, never one
\* of another page; every decoded image is freed with its table.
ImagesBelong ==
    /\ \A f \in frags : f[1] \in DOMAIN imgs => imgs[f[1]] = [url |-> f[2], failed |-> FALSE]
    /\ pixels = Pixels(imgs)

\* The history holds the last pages of the user's way, and the position is where
\* the user is on it; unless a server sent a page seen before elsewhere, the
\* page of that position is on the screen.
HistoryKept ==
    /\ Len(hist) <= HistMax /\ Len(hist) <= Len(trail)
    /\ hist = SubSeq(trail, Len(trail) - Len(hist) + 1, Len(trail))
    /\ Len(hist) - histPos = Len(trail) - place
    /\ hist # <<>> => histPos \in 1 .. Len(hist) /\ (~resent => url = hist[histPos])

\* Links are resolved at the address of the page that is shown, the one pointed
\* at is one of its links, and the page is not scrolled past its end.
ShownRight ==
    /\ shown.base = url
    /\ hover # Nowhere => hover \in shown.doc.links
    /\ scroll \in 0 .. MaxScroll(shown.doc, size.laid)

\* The browser never shows one thing and goes by another.
BrowserRight == SourceLives /\ ImagesBelong /\ HistoryKept /\ ShownRight

\* A page is laid out as its document says, and the window shows that page.
WebPagesRight == PageRight /\ BrowserRight
=============================================================================
