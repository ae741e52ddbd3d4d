------------------------------ MODULE Decoders ------------------------------
(***************************************************************************)
(* Readers of files and messages the kernel did not write: ELF programs,   *)
(* PNG pictures and X.509 certificates.                                    *)
(***************************************************************************)
EXTENDS Integers, Sequences, FiniteSets, FiniteSetsExt, SequencesExt

(***************************************************************************)
(* The ELF32 loader (kernel/elf.cpp): where a name is looked for, what is  *)
(* put into memory, and the address that exec starts.  A program is        *)
(* another client of memory: it scribbles over its own segments while it   *)
(* runs.  A byte of memory is the name of what lies there.                 *)
(***************************************************************************)
CONSTANTS
    Programs,       \* ELF files: [fault, kind, entry, segments]; a segment has load, vaddr, paddr, bytes (the
                  \* number it has in the file), more (those it claims and the file lacks), memsz
                  \* id, and the size of the file
    BuiltinName, Builtin,  \* the name and the image linked into the kernel
    Names,        \* file names
    MEM,          \* addresses are 0 .. MEM - 1
    KBASE,        \* 1 MB: no entry below it
    MAP_LIMIT,    \* 48 MB: no ET_EXEC segment above it
    HEAP,         \* kmalloc's first address
    RootList, BinList,  \* 64 and 32: the entries elf_vfs_find looks at
    MaxEntries,   \* bound: files stored
    MaxLoads      \* bound: programs loaded

ASSUME ElfAssumption == KBASE <= HEAP /\ HEAP <= MEM /\ MAP_LIMIT <= MEM /\ RootList > 0 /\ BinList > 0

VARIABLES
    ram,          \* what each address holds
    brk,          \* what kmalloc gives next: nothing below is ever freed here
    root, bin,    \* the root directory's files, and those of /bin; [name, image]
    loads,        \* how many programs were loaded
    last          \* history: the last load, until its program runs, and what memory was before
elfVars == <<ram, brk, root, bin, loads, last>>

Addresses == 0 .. MEM - 1
\* Mutant of Zeroed: the tail of a segment is left as the last program left it.
ZeroedNot(m, from, n) == m
Zeroed(m, from, n) == [a \in DOMAIN m |-> IF a \in from .. from + n - 1 THEN <<"0">> ELSE m[a]]
Loadable(s) == s.load /\ s.memsz > 0

-----------------------------------------------------------------------------
(* elf_load_buf *)

\* Magic, class, machine, type and the program headers' number and size.
Accepted(image) == image.fault = "none"
Span(image) == LET ends == {image.segments[i].vaddr + image.segments[i].memsz : i \in {j \in DOMAIN image.segments : Loadable(image.segments[j])}}
               IN  IF ends = {} THEN 0 ELSE Max(ends)
\* The segments in the order of the file; those before a bad one stay where they were put.
Segments(image, m, base) ==
    LET put[i \in 0 .. Len(image.segments)] ==
          IF i = 0 THEN [ok |-> TRUE, ram |-> m, base |-> base]
          ELSE LET prev == put[i - 1]
                   s == image.segments[i]
                   dst == IF image.kind = "DYN" THEN base + s.vaddr ELSE s.paddr
                   copied == [a \in DOMAIN prev.ram |->
                                IF a \in dst .. dst + s.bytes - 1 THEN <<image.id, i, a - dst>> ELSE prev.ram[a]]
               IN  IF ~prev.ok \/ ~Loadable(s) THEN prev
                    ELSE IF s.more > 0 \/ (image.kind = "EXEC" /\ s.paddr + s.memsz > MAP_LIMIT) THEN [prev EXCEPT !.ok = FALSE]
                   ELSE [prev EXCEPT !.ram = Zeroed(copied, dst + s.bytes, s.memsz - s.bytes)]
    IN  put[Len(image.segments)]
Entry(image, base) == IF image.kind = "DYN" THEN base + image.entry ELSE image.entry

\* [answer, ram, brk, base]: the span of a position-independent program comes from kmalloc, zeroed.
LoadBuf(image, m, top) ==
    LET span == Span(image)
        pie == image.kind = "DYN"
        base == IF pie THEN top ELSE 0
        fails == ~Accepted(image) \/ (pie /\ (span = 0 \/ top + span > MEM))
        done == Segments(image, IF pie THEN Zeroed(m, top, span) ELSE m, base)
    IN  IF fails THEN [answer |-> 0, ram |-> m, brk |-> top, base |-> 0]
        ELSE [answer |-> IF done.ok /\ Entry(image, base) >= KBASE THEN Entry(image, base) ELSE 0,
              ram |-> done.ram, brk |-> IF pie THEN top + span ELSE top, base |-> base]

-----------------------------------------------------------------------------
(* elf_load and elf_execute *)

Taken(m, from, image) == [a \in DOMAIN m |-> IF a \in from .. from + image.size - 1 THEN <<"file", image.id>> ELSE m[a]]

\* The first of a name among the n entries that are listed, or none.
First(dir, n, name) == LET at == {i \in 1 .. Min({Len(dir), n}) : dir[i].name = name} IN IF at = {} THEN {} ELSE {dir[Min(at)].image}
\* Mutant of VfsFind: /bin first.
VfsFindBin(name) == IF First(bin, BinList, name) # {} THEN First(bin, BinList, name) ELSE First(root, RootList, name)
\* elf_vfs_find: the root, then /bin.
VfsFind(name) == IF First(root, RootList, name) # {} THEN First(root, RootList, name) ELSE First(bin, BinList, name)

\* elf_load: the built-in table goes first; a file is read into a block that nobody frees.
ElfLoad(name) ==
    LET own == name = BuiltinName
        found == IF own THEN {Builtin} ELSE VfsFind(name)
        image == CHOOSE i \in found : TRUE
        top == IF own THEN brk ELSE brk + image.size
        done == IF found = {} \/ top > MEM THEN [answer |-> 0, ram |-> ram, brk |-> brk, base |-> 0]
                ELSE LoadBuf(image, IF own THEN ram ELSE Taken(ram, brk, image), top)
    IN  /\ loads < MaxLoads /\ last.answer = 0
        /\ ram' = done.ram /\ brk' = done.brk /\ loads' = loads + 1
        /\ last' = [name |-> name, found |-> found, answer |-> done.answer, base |-> done.base, before |-> ram, top |-> brk]
        /\ UNCHANGED <<root, bin>>
Nothing == [name |-> "", found |-> {}, answer |-> 0, base |-> 0, before |-> <<>>, top |-> 0]
\* elf_execute; the program changes what it was given.
Extent(image, base) ==
    UNION {LET s == image.segments[i] IN IF ~Loadable(s) THEN {}
           ELSE LET from == IF image.kind = "DYN" THEN base + s.vaddr ELSE s.paddr IN from .. from + s.memsz - 1 :
           i \in DOMAIN image.segments}
ElfExecute ==
    /\ last.answer # 0
    /\ \E image \in last.found :
         ram' = [a \in Addresses |-> IF a \in Extent(image, last.base) THEN <<"used">> ELSE ram[a]]
    /\ last' = Nothing
    /\ UNCHANGED <<brk, root, bin, loads>>

ElfInit ==
    /\ ram = [a \in Addresses |-> <<"free">>] /\ brk = HEAP /\ root = <<>> /\ bin = <<>> /\ loads = 0 /\ last = Nothing
\* touch, cp: a file is stored in the root or in /bin; exec loads and starts in one command.
Put(name, image) ==
    /\ last.answer = 0 /\ last' = Nothing
    /\ Len(root) + Len(bin) < MaxEntries
    /\ \/ root' = Append(root, [name |-> name, image |-> image]) /\ UNCHANGED bin
       \/ bin' = Append(bin, [name |-> name, image |-> image]) /\ UNCHANGED root
    /\ UNCHANGED <<ram, brk, loads>>
ElfNext == (\E name \in Names : ElfLoad(name) \/ \E image \in Programs : Put(name, image)) \/ ElfExecute
ElfSpec == ElfInit /\ [][ElfNext]_elfVars

-----------------------------------------------------------------------------
(* Properties *)

\* A program starts with every byte of its file in place and zeros behind them, whatever
\* ran at that address before.
StartsFresh ==
    last.answer # 0 => \A image \in last.found : \A i \in DOMAIN image.segments :
      LET s == image.segments[i]
          from == IF image.kind = "DYN" THEN last.base + s.vaddr ELSE s.paddr
      IN  Loadable(s) => /\ \A k \in 0 .. s.bytes - 1 : ram[from + k] = <<image.id, i, k>>
                         /\ \A k \in s.bytes .. s.memsz - 1 : ram[from + k] = <<"0">>
\* Loading disturbs nothing of what was taken before: outside the program's own place and
\* the blocks of this load, memory is as it was; a refused load has no address.
LeavesOthers ==
    last.name # "" =>
      /\ \A a \in Addresses :
           (ram[a] # last.before[a]) => a \in last.top .. brk - 1 \/ \E image \in last.found : a \in Extent(image, last.base)
      /\ last.answer # 0 => /\ last.answer >= KBASE /\ last.found # {}
                            /\ \A image \in last.found : /\ image.fault = "none"
                                                         /\ image.kind = "DYN" => last.base >= last.top
\* What is started under a name is a file of that name, the oldest of the root's before any of /bin.
NameTrue ==
    last.found # {} /\ last.name # BuiltinName =>
      LET carries(d) == {i \in DOMAIN d : d[i].name = last.name}
      IN  \/ carries(root) # {} /\ last.found = {root[Min(carries(root))].image}
          \/ \A i \in carries(root) : i > RootList
             /\ carries(bin) # {} /\ last.found = {bin[Min(carries(bin))].image}
ElfRight == StartsFresh /\ LeavesOthers /\ NameTrue

-----------------------------------------------------------------------------
(***************************************************************************)
(* The PNG decoder (kernel/png.c): chunks, inflate, filters and the        *)
(* composition over the page's background.  A byte has BYTE bits, and the  *)
(* alphabets of the compressor shrink with it; the way through them does   *)
(* not.                                                                    *)
(***************************************************************************)
CONSTANTS
    BYTE,             \* 8 bits: a colour is 0 .. 255, and a literal of the compressor
    MAX_BITS,         \* 15: the longest code
    LENS, DISTS,      \* LEN_BASE, LEN_EXTRA and DST_BASE, DST_EXTRA, as sequences of <<base, extra bits>>
    FixedLit, FixedDist,   \* the lengths of the fixed codes, 288 and 32
    CLC_ORDER,        \* the order in which the lengths of the lengths' code come
    Fields,           \* bits of [hlit, hdist, hclen, clc]: 5, 5, 4, 3
    CLC_MIN,          \* 4
    Repeats,          \* <<3, 2>>, <<3, 3>>, <<11, 7>>: what symbols 16, 17 and 18 repeat
    METHOD, CHECK, FDICT,  \* 8, 31 and 0x20 of the zlib header
    ADLER,            \* 65521
    MAX_SIDE, MAX_PIXELS, MAX_IDAT,
    Background,       \* the page's colour
    Pictures,         \* pictures, and how their writers chose to encode them
    DynamicCode       \* a dynamic code: [lit, dist, clc, script] as a writer may choose it

VARIABLE picture      \* the picture on its way, how much of it came, and what was decoded
pngVars == <<picture>>

WHITE == (2 ^ BYTE) - 1
LITS == 2 ^ BYTE      \* 256, which is also the end of a block
Count(n) == [i \in 1 .. n |-> i]

-----------------------------------------------------------------------------
(* Bits, least significant first, and codes, most significant first *)

Ends(s, p, n) == p + n > Len(s)
\* br_bits
PngBits(s, p, n) == FoldLeft(LAMBDA v, i : v + (s[p + i] * (2 ^ (i - 1))), 0, Count(n))
\* br_align
Aligned(p) == ((p + BYTE - 1) \div BYTE) * BYTE
Coded(lens, l) == Cardinality({i \in DOMAIN lens : lens[i] = l})
\* huff_build: no code has too many words; its symbols in canonical order.
Builds(lens) == \A l \in 1 .. MAX_BITS : FoldLeft(LAMBDA left, k : (2 * left) - Coded(lens, k), 1, Count(l)) >= 0
Ordered(lens) == FlattenSeq([l \in 1 .. MAX_BITS |-> SelectSeq(Count(Len(lens)), LAMBDA i : lens[i] = l)])
\* huff_decode: [sym, pos], sym -1 when there is none.
RECURSIVE Walk(_, _, _, _, _, _, _)
Walk(s, p, lens, l, code, first, index) ==
    LET c == code + s[p + 1]
        n == Coded(lens, l)
    IN  IF l > MAX_BITS \/ Ends(s, p, 1) THEN [sym |-> -1, pos |-> p]
        ELSE IF c - first < n THEN [sym |-> Ordered(lens)[index + (c - first) + 1] - 1, pos |-> p + 1]
        ELSE Walk(s, p + 1, lens, l + 1, 2 * c, 2 * (first + n), index + n)
Decoded(s, p, lens) == Walk(s, p, lens, 1, 0, 0, 0)

-----------------------------------------------------------------------------
(* Inflate: [ok, pos, out] *)

Failed == [ok |-> FALSE, pos |-> 0, out |-> <<>>]
\* Mutant of CopyBack: the source ends where the copy began.
CopyBackStill(out, dist, n) == out \o [i \in 1 .. n |-> IF i <= dist THEN out[(Len(out) - dist) + i] ELSE 0]
\* A copy may run into what it has written itself.
CopyBack(out, dist, n) == FoldLeft(LAMBDA o, i : Append(o, o[(Len(o) - dist) + 1]), out, Count(n))
\* inflate_block_huff: d is the word just read; then what a copy's length and distance take.
RECURSIVE Block(_, _, _, _, _, _), Say(_, _, _, _, _, _), Copy(_, _, _, _, _, _, _, _)
Copy(s, p, out, room, lit, dist, n, back) ==
    IF back > Len(out) \/ Len(out) + n > room THEN Failed ELSE Block(s, p, CopyBack(out, back, n), room, lit, dist)
Back(s, e) == DISTS[e.sym + 1][1] + PngBits(s, e.pos, DISTS[e.sym + 1][2])
Reach(s, e, out, room, lit, dist, n) ==
    IF e.sym < 0 \/ e.sym + 1 \notin DOMAIN DISTS THEN Failed
    ELSE IF Ends(s, e.pos, DISTS[e.sym + 1][2]) THEN Failed
    ELSE Copy(s, e.pos + DISTS[e.sym + 1][2], out, room, lit, dist, n, Back(s, e))
Far(s, p, out, room, lit, dist, len) ==
    IF Ends(s, p, len[2]) THEN Failed
    ELSE Reach(s, Decoded(s, p + len[2], dist), out, room, lit, dist, len[1] + PngBits(s, p, len[2]))
Say(s, d, out, room, lit, dist) ==
    IF d.sym < 0 THEN Failed
    ELSE IF d.sym < LITS THEN IF Len(out) < room THEN Block(s, d.pos, Append(out, d.sym), room, lit, dist) ELSE Failed
    ELSE IF d.sym = LITS THEN [ok |-> TRUE, pos |-> d.pos, out |-> out]
    ELSE IF d.sym - LITS \notin DOMAIN LENS THEN Failed
    ELSE Far(s, d.pos, out, room, lit, dist, LENS[d.sym - LITS])
Block(s, p, out, room, lit, dist) == Say(s, Decoded(s, p, lit), out, room, lit, dist)
Stored(s, p, out, room) ==
    LET a == Aligned(p)
        n == PngBits(s, a, 2 * BYTE)
        at(i) == PngBits(s, a + (4 * BYTE) + (BYTE * (i - 1)), BYTE)
    IN  IF Ends(s, a, 4 * BYTE) \/ n + PngBits(s, a + (2 * BYTE), 2 * BYTE) # (2 ^ (2 * BYTE)) - 1 THEN Failed
        ELSE IF Len(out) + n > room \/ Ends(s, a + (4 * BYTE), BYTE * n) THEN Failed
        ELSE [ok |-> TRUE, pos |-> a + (4 * BYTE) + (BYTE * n), out |-> out \o [i \in 1 .. n |-> at(i)]]
\* The lengths of a dynamic code's words, themselves in a code: [pos, lens], no lens when it fails.
RECURSIVE Lengths(_, _, _, _, _), Lengthened(_, _, _, _, _)
Again(s, d, r, clc, n, lens, times) ==
    IF Ends(s, d.pos, r[2]) \/ (d.sym = MAX_BITS + 1 /\ lens = <<>>) \/ Len(lens) + times > n THEN [pos |-> d.pos, lens |-> <<>>]
    ELSE Lengths(s, d.pos + r[2], clc, n,
                 lens \o [i \in 1 .. times |-> IF d.sym = MAX_BITS + 1 THEN lens[Len(lens)] ELSE 0])
Lengthened(s, d, clc, n, lens) ==
    IF d.sym < 0 THEN [pos |-> d.pos, lens |-> <<>>]
    ELSE IF d.sym <= MAX_BITS THEN Lengths(s, d.pos, clc, n, Append(lens, d.sym))
    ELSE LET r == Repeats[d.sym - MAX_BITS] IN Again(s, d, r, clc, n, lens, r[1] + PngBits(s, d.pos, r[2]))
Lengths(s, p, clc, n, lens) ==
    IF Len(lens) = n THEN [pos |-> p, lens |-> lens] ELSE Lengthened(s, Decoded(s, p, clc), clc, n, lens)
Coding(s, pos, out, room, lit, dist) ==
    IF lit[LITS + 1] = 0 \/ ~Builds(lit) \/ ~Builds(dist) THEN Failed ELSE Block(s, pos, out, room, lit, dist)
Split(s, l, out, room, hlit) ==
    IF l.lens = <<>> THEN Failed
    ELSE Coding(s, l.pos, out, room, SubSeq(l.lens, 1, hlit), SubSeq(l.lens, hlit + 1, Len(l.lens)))
Described(s, q, out, room, hlit, hdist, hclen) ==
    LET place(i) == CHOOSE k \in DOMAIN CLC_ORDER : CLC_ORDER[k] = i - 1
        clc == [i \in 1 .. Len(CLC_ORDER) |-> IF place(i) <= hclen THEN PngBits(s, q + (Fields.clc * (place(i) - 1)), Fields.clc) ELSE 0]
    IN  IF hlit > Len(FixedLit) \/ hdist > Len(FixedDist) \/ Ends(s, q, Fields.clc * hclen) THEN Failed
        ELSE IF ~Builds(clc) THEN Failed
        ELSE Split(s, Lengths(s, q + (Fields.clc * hclen), clc, hlit + hdist, <<>>), out, room, hlit)
Dynamic(s, p, out, room) ==
    LET q == p + Fields.hlit + Fields.hdist + Fields.hclen
    IN  IF Ends(s, p, q - p) THEN Failed
        ELSE Described(s, q, out, room, PngBits(s, p, Fields.hlit) + LITS + 1, PngBits(s, p + Fields.hlit, Fields.hdist) + 1,
                       PngBits(s, p + Fields.hlit + Fields.hdist, Fields.hclen) + CLC_MIN)
\* inflate_all: block by block, to the one that says it is the last.
RECURSIVE Inflate(_, _, _, _), Onward(_, _, _, _)
OneBlock(s, p, out, room, type) ==
    CASE type = 0 -> Stored(s, p, out, room)
      [] type = 1 -> Block(s, p, out, room, FixedLit, FixedDist)
      [] type = 2 -> Dynamic(s, p, out, room)
      [] OTHER -> Failed
Onward(s, r, room, final) == IF ~r.ok \/ final = 1 THEN r ELSE Inflate(s, r.pos, r.out, room)
Inflate(s, p, out, room) ==
    IF Ends(s, p, 3) THEN Failed ELSE Onward(s, OneBlock(s, p + 3, out, room, PngBits(s, p + 1, 2)), room, s[p + 1])

\* s2 << 16 | s1, in two bytes each, the highest first.
Adler(bytes) ==
    LET sums == FoldLeft(LAMBDA s, b : LET s1 == (s[1] + b) % ADLER IN <<s1, (s[2] + s1) % ADLER>>, <<1, 0>>, bytes)
        two(x) == <<x \div (2 ^ BYTE), x % (2 ^ BYTE)>>
    IN  two(sums[2]) \o two(sums[1])

-----------------------------------------------------------------------------
(* png_parse: the chunks, up to IEND or to where the file ends *)

Channels == [grey |-> 1, rgb |-> 3, palette |-> 1, greyalpha |-> 2, rgba |-> 4]
NoPng == [ok |-> FALSE]
Chunk(info, c) ==
    IF ~info.ok \/ info.ended THEN info
    ELSE IF c.cut THEN [info EXCEPT !.ok = FALSE]         \* it says more than there is
    ELSE CASE c.type = "IHDR" -> [info EXCEPT !.head = c.head, !.ok = c.head.method = 0]
           [] c.type = "PLTE" -> [info EXCEPT !.plte = c.colours, !.coloured = TRUE]
           [] c.type = "tRNS" -> [info EXCEPT !.trns = c.alphas]
           [] c.type = "IDAT" -> IF info.nseg = MAX_IDAT THEN [info EXCEPT !.ok = FALSE]
                                 ELSE [info EXCEPT !.nseg = @ + 1, !.bits = @ \o c.bits]
           [] c.type = "IEND" -> [info EXCEPT !.ended = TRUE]
           [] OTHER -> info
PngParse(chunks) ==
    LET none == [w |-> 0, h |-> 0, depth |-> 0, ctype |-> "", interlace |-> 0, method |-> 0]
        i == FoldLeft(Chunk, [ok |-> TRUE, ended |-> FALSE, head |-> none, plte |-> <<>>, coloured |-> FALSE, trns |-> <<>>,
                              nseg |-> 0, bits |-> <<>>], chunks)
        good == /\ i.nseg > 0 /\ i.head.depth = 8 /\ i.head.interlace = 0 /\ i.head.ctype \in DOMAIN Channels
                /\ i.head.ctype = "palette" => i.coloured
                /\ i.head.w \in 1 .. MAX_SIDE /\ i.head.h \in 1 .. MAX_SIDE /\ i.head.w * i.head.h <= MAX_PIXELS
    IN  [i EXCEPT !.ok = @ /\ good]
\* png_dims, png_scratch_size
PngDims(chunks) == LET i == PngParse(chunks) IN IF i.ok THEN <<i.head.w, i.head.h>> ELSE <<>>
ScratchSize(w, h) == (((w * 4) + 1) * h) + 16

-----------------------------------------------------------------------------
(* png_decode *)

Distance(p, q) == IF p > q THEN p - q ELSE q - p
\* Mutant of Paeth: the corner wins a tie.
PaethCorner(a, b, c) ==
    LET p == (a + b) - c
    IN  IF Distance(p, a) <= Distance(p, b) /\ Distance(p, a) < Distance(p, c) THEN a
        ELSE IF Distance(p, b) < Distance(p, c) THEN b ELSE c
Paeth(a, b, c) ==
    LET p == (a + b) - c
    IN  IF Distance(p, a) <= Distance(p, b) /\ Distance(p, a) <= Distance(p, c) THEN a
        ELSE IF Distance(p, b) <= Distance(p, c) THEN b ELSE c
\* What a filter adds to the byte at x of a row, from what is left of it and above.
Predicted(f, row, prev, x, bpp) ==
    LET a == IF x > bpp THEN row[x - bpp] ELSE 0
        b == IF prev = <<>> THEN 0 ELSE prev[x]
        c == IF x > bpp /\ prev # <<>> THEN prev[x - bpp] ELSE 0
    IN  CASE f = 0 -> 0 [] f = 1 -> a [] f = 2 -> b [] f = 3 -> (a + b) \div 2 [] f = 4 -> Paeth(a, b, c)
Unfiltered(f, raw, prev, bpp) ==
    FoldLeft(LAMBDA row, x : Append(row, (raw[x] + Predicted(f, row, prev, x, bpp)) % (WHITE + 1)), <<>>, Count(Len(raw)))
Filters == 0 .. 4
Rows(raw, w, h, bpp) ==
    FoldLeft(LAMBDA rows, y :
               LET from == (y - 1) * ((w * bpp) + 1)
               IN  Append(rows, Unfiltered(raw[from + 1], SubSeq(raw, from + 2, from + 1 + (w * bpp)), IF y = 1 THEN <<>> ELSE rows[y - 1], bpp)),
             <<>>, Count(h))
\* r, g, b and alpha of a pixel; none when the palette has no such colour.
Colour(info, row, x) ==
    LET n == Channels[info.head.ctype]
        c(k) == row[((x - 1) * n) + k]
        grey == <<c(1), c(1), c(1)>>
    IN  CASE info.head.ctype = "grey" -> Append(grey, WHITE)
          [] info.head.ctype = "rgb" -> <<c(1), c(2), c(3), WHITE>>
          [] info.head.ctype = "palette" ->
               IF c(1) >= Len(info.plte) THEN <<>>
               ELSE Append(info.plte[c(1) + 1], IF c(1) < Len(info.trns) THEN info.trns[c(1) + 1] ELSE WHITE)
          [] info.head.ctype = "greyalpha" -> Append(grey, c(2))
          [] OTHER -> <<c(1), c(2), c(3), c(4)>>
Over(p) == [k \in 1 .. 3 |-> ((p[4] * p[k]) + ((WHITE - p[4]) * Background[k]) + (WHITE \div 2)) \div WHITE]

Blended(pixels) ==
    IF \E k \in DOMAIN pixels : pixels[k] = <<>> THEN NoPng
    ELSE [ok |-> TRUE, pixels |-> [k \in DOMAIN pixels |-> IF pixels[k][4] = WHITE THEN SubSeq(pixels[k], 1, 3) ELSE Over(pixels[k])]]
Pixels(i, rows) == FlattenSeq([y \in 1 .. i.head.h |-> [x \in 1 .. i.head.w |-> Colour(i, rows[y], x)]])
Inflated(i, z, bpp, a) ==
    LET filters == {z.out[((y - 1) * ((i.head.w * bpp) + 1)) + 1] : y \in 1 .. i.head.h}
    IN  IF Ends(i.bits, a, 4 * BYTE) \/ [k \in 1 .. 4 |-> PngBits(i.bits, a + (BYTE * (k - 1)), BYTE)] # Adler(z.out) THEN NoPng
        ELSE IF ~(filters \subseteq Filters) THEN NoPng
        ELSE Blended(Pixels(i, Rows(z.out, i.head.w, i.head.h, bpp)))
Unpacked(i, z, bpp, size) == IF ~z.ok \/ Len(z.out) # size THEN NoPng ELSE Inflated(i, z, bpp, Aligned(z.pos))
PngData(i, bpp, size, scratch) ==
    LET cmf == PngBits(i.bits, 0, BYTE)
        flg == PngBits(i.bits, BYTE, BYTE)
    IN  IF size + 8 > scratch \/ Ends(i.bits, 0, 2 * BYTE) \/ cmf # METHOD THEN NoPng
        ELSE IF ((cmf * (2 ^ BYTE)) + flg) % CHECK # 0 \/ (flg \div FDICT) % 2 = 1 THEN NoPng
        ELSE Unpacked(i, Inflate(i.bits, 2 * BYTE, <<>>, size), bpp, size)
PngOf(i, scratch) ==
    LET bpp == Channels[i.head.ctype]
    IN  IF i.ok THEN PngData(i, bpp, ((i.head.w * bpp) + 1) * i.head.h, scratch) ELSE NoPng
PngDecode(chunks, scratch) == PngOf(PngParse(chunks), scratch)

-----------------------------------------------------------------------------
(* A picture as other programs write it *)

Low(v, n) == [i \in 1 .. n |-> (v \div (2 ^ (i - 1))) % 2]
ByteBits(bytes) == FlattenSeq([i \in DOMAIN bytes |-> Low(bytes[i], BYTE)])
\* RFC 1951's code: the words of a length are numbered from twice what follows the last of the shorter ones.
Word(lens, sym) ==
    LET l == lens[sym + 1]
        base == FoldLeft(LAMBDA c, k : 2 * (c + Cardinality({i \in DOMAIN lens : lens[i] = k /\ k > 0})), 0, [k \in 1 .. l |-> k - 1])
        v == base + Cardinality({i \in 1 .. sym : lens[i] = l})
    IN  [i \in 1 .. l |-> (v \div (2 ^ (l - i))) % 2]
\* What a run of data may be said with: the longest copy that fits, or a literal.
Copies(data, w, to, lit, dist) ==
    {c \in {<<i, x, j, y>> : i \in DOMAIN LENS, x \in 0 .. 1, j \in DOMAIN DISTS, y \in 0 .. 1} :
       LET n == LENS[c[1]][1] + c[2]
           back == DISTS[c[3]][1] + c[4]
       IN  /\ lit[LITS + c[1] + 1] > 0 /\ dist[c[3]] > 0
           /\ c[2] < 2 ^ LENS[c[1]][2] /\ c[4] < 2 ^ DISTS[c[3]][2] /\ back < w /\ (w + n) - 1 <= to
           /\ \A k \in w .. (w + n) - 1 : data[k] = data[k - back]}
RECURSIVE Said(_, _, _, _, _), SaidBy(_, _, _, _, _, _)
SaidBy(c, data, w, to, lit, dist) ==
    Word(lit, LITS + c[1]) \o Low(c[2], LENS[c[1]][2]) \o Word(dist, c[3] - 1) \o Low(c[4], DISTS[c[3]][2])
    \o Said(data, w + LENS[c[1]][1] + c[2], to, lit, dist)
Longest(cs) == CHOOSE b \in cs : \A o \in cs : LENS[o[1]][1] + o[2] <= LENS[b[1]][1] + b[2]
Said(data, w, to, lit, dist) ==
    IF w > to THEN Word(lit, LITS)
    ELSE LET cs == Copies(data, w, to, lit, dist)
         IN  IF cs = {} THEN Word(lit, data[w]) \o Said(data, w + 1, to, lit, dist)
             ELSE SaidBy(Longest(cs), data, w, to, lit, dist)
Header ==
    LET d == DynamicCode
        said(k) == LET t == d.script[k]
                   IN  Word(d.clc, t[1]) \o (IF t[1] > MAX_BITS THEN Low(t[2], Repeats[t[1] - MAX_BITS][2]) ELSE <<>>)
        n == Max({k \in DOMAIN CLC_ORDER : d.clc[CLC_ORDER[k] + 1] > 0} \union {CLC_MIN})
    IN  Low(Len(d.lit) - LITS - 1, Fields.hlit) \o Low(Len(d.dist) - 1, Fields.hdist) \o Low(n - CLC_MIN, Fields.hclen)
        \o FlattenSeq([k \in 1 .. n |-> Low(d.clc[CLC_ORDER[k] + 1], Fields.clc)]) \o FlattenSeq([k \in DOMAIN d.script |-> said(k)])
Padding(bits) == [i \in 1 .. Aligned(Len(bits)) - Len(bits) |-> 0]
Begun(b, mode, data, from, to) ==
    LET n == (to - from) + 1
    IN  CASE mode = 0 -> b \o Padding(b) \o Low(n, 2 * BYTE) \o Low((2 ^ (2 * BYTE)) - 1 - n, 2 * BYTE) \o ByteBits(SubSeq(data, from, to))
          [] mode = 1 -> b \o Said(data, from, to, FixedLit, FixedDist)
          [] mode = 2 -> b \o Header \o Said(data, from, to, DynamicCode.lit, DynamicCode.dist)
Deflated(bits, mode, final, data, from, to) == Begun(bits \o <<final>> \o Low(mode, 2), mode, data, from, to)
\* The filters of the standard: the predictor nearest to a + b - c, the left one before the one above.
Nearest(a, b, c) ==
    LET far(v) == Distance((a + b) - c, v)
    IN  CHOOSE v \in {a, b, c} : /\ \A u \in {a, b, c} : far(v) <= far(u)
                                 /\ v # a => far(a) > far(v)
                                 /\ v = c /\ v # a /\ v # b => far(b) > far(v)
Filtered(p, y) ==
    LET bpp == Channels[p.ctype]
        at(r, x) == IF r >= 1 /\ x >= 1 THEN p.rows[r][x] ELSE 0
        guess(x) == CASE p.filters[y] = 0 -> 0 [] p.filters[y] = 1 -> at(y, x - bpp) [] p.filters[y] = 2 -> at(y - 1, x)
                      [] p.filters[y] = 3 -> (at(y, x - bpp) + at(y - 1, x)) \div 2
                      [] OTHER -> Nearest(at(y, x - bpp), at(y - 1, x), at(y - 1, x - bpp))
    IN  <<p.filters[y]>> \o [x \in DOMAIN p.rows[y] |-> (p.rows[y][x] - guess(x)) % (WHITE + 1)]
InChunks(p, all) ==
    LET part == p.split * BYTE
        idat(k) == [type |-> "IDAT", cut |-> FALSE, bits |-> SubSeq(all, (part * (k - 1)) + 1, Min({part * k, Len(all)}))]
        head == [w |-> p.w, h |-> Len(p.rows), depth |-> 8, ctype |-> p.ctype, interlace |-> 0, method |-> 0]
    IN  <<[type |-> "IHDR", cut |-> FALSE, head |-> head], [type |-> "tEXt", cut |-> FALSE]>>
        \o (IF p.plte = <<>> THEN <<>> ELSE <<[type |-> "PLTE", cut |-> FALSE, colours |-> p.plte]>>)
        \o (IF p.trns = <<>> THEN <<>> ELSE <<[type |-> "tRNS", cut |-> FALSE, alphas |-> p.trns]>>)
        \o [k \in 1 .. ((Len(all) + part) - 1) \div part |-> idat(k)] \o <<[type |-> "IEND", cut |-> FALSE]>>
Summed(bits, data) == bits \o Padding(bits) \o ByteBits(Adler(data))
\* In two blocks.
Zipped(p, data, half) ==
    LET flg == CHOOSE f \in 0 .. FDICT - 1 : ((METHOD * (2 ^ BYTE)) + f) % CHECK = 0
        one == Deflated(ByteBits(<<METHOD, flg>>), p.modes[1], 0, data, 1, half)
    IN  Summed(Deflated(one, p.modes[2], 1, data, half + 1, Len(data)), data)
Written(p, data) == InChunks(p, Zipped(p, data, Len(data) \div 2))
Chunks(p) == Written(p, FlattenSeq([y \in DOMAIN p.rows |-> Filtered(p, y)]))
Whole(chunks) == Len(chunks) - 1      \* without the end

\* A picture arrives, to the last chunk or to somewhere within one, and is drawn where a
\* block of png_scratch_size was found for it.
PngInit == \E p \in Pictures : \E file \in {Chunks(p)} : picture = [of |-> p, file |-> file, chunks |-> file, drawn |-> <<>>]
PngCut ==
    /\ picture.drawn = <<>> /\ picture.chunks = picture.file
    /\ \E n \in 1 .. Whole(picture.chunks), cut \in BOOLEAN :
         picture' = [picture EXCEPT !.chunks = [SubSeq(@, 1, n) EXCEPT ![n].cut = cut]]
DrawInto(dims) == IF dims = <<>> THEN NoPng ELSE PngDecode(picture.chunks, ScratchSize(dims[1], dims[2]))
PngDraw == picture.drawn = <<>> /\ picture' = [picture EXCEPT !.drawn = <<DrawInto(PngDims(picture.chunks))>>]
PngNext == PngCut \/ PngDraw
PngSpec == PngInit /\ [][PngNext]_pngVars

-----------------------------------------------------------------------------
(* Properties *)

\* The pixel of a picture, with its transparency.
Painted(p, k) ==
    LET y == ((k - 1) \div p.w) + 1
        x == (k - 1) % p.w
        n == Channels[p.ctype]
        at(c) == p.rows[y][(x * n) + c]
        alpha == IF at(1) + 1 \in DOMAIN p.trns THEN p.trns[at(1) + 1] ELSE WHITE
    IN  CASE p.ctype = "grey" -> <<at(1), at(1), at(1), WHITE>> [] p.ctype = "greyalpha" -> <<at(1), at(1), at(1), at(2)>>
          [] p.ctype = "rgb" -> <<at(1), at(2), at(3), WHITE>> [] p.ctype = "palette" -> Append(p.plte[at(1) + 1], alpha)
          [] OTHER -> <<at(1), at(2), at(3), at(4)>>
\* Whatever filters, codes and chunks its writer chose, a picture comes out with every
\* pixel the nearest colour to its own laid over the page's; it needs its last data chunk
\* and not its end; one that is cut short, or names a colour its palette has not, is not
\* drawn at all.
DrawnTrue ==
    picture.drawn # <<>> =>
      LET p == picture.of
          d == picture.drawn[1]
          all == picture.file
          arrived == Len(picture.chunks) >= Whole(all) /\ \A k \in DOMAIN picture.chunks : ~picture.chunks[k].cut
          named == p.ctype = "palette" => \A y \in DOMAIN p.rows : \A x \in DOMAIN p.rows[y] : p.rows[y][x] < Len(p.plte)
      IN  /\ d.ok <=> (arrived /\ named)
          /\ d.ok => /\ Len(d.pixels) = p.w * Len(p.rows)
                     /\ \A k \in DOMAIN d.pixels, c \in 1 .. 3 :
                          LET t == Painted(p, k)
                          IN  2 * Distance(WHITE * d.pixels[k][c], (t[4] * t[c]) + ((WHITE - t[4]) * Background[c])) <= WHITE
PngRight == DrawnTrue

-----------------------------------------------------------------------------
(***************************************************************************)
(* Reading a certificate (kernel/x509.c): DER elements inside elements,    *)
(* down to the fields that certverify.c decides by.  An object identifier  *)
(* is one byte, which is also its name, and the sizes of keys are KeyLen;  *)
(* everything else is the bytes of the certificate.                        *)
(***************************************************************************)
CONSTANTS
    Papers,       \* certificates, as their issuers meant them
    KeyLen,       \* bytes of an uncompressed EC point, by curve: [P256, P384]
    Fixed         \* bytes of r and s, by curve

ASSUME X509Assumption == \A c \in DOMAIN KeyLen : KeyLen[c] > 1 /\ Fixed[c] > 0

VARIABLE paper    \* the certificate being read, how many of its bytes came, and what was read
x509Vars == <<paper>>

-----------------------------------------------------------------------------
(* DER *)

\* der: the element at the front of v, or none; the length in its short form, or in one to three bytes.
NoElement == [ok |-> FALSE, tag |-> 0, full |-> <<>>, v |-> <<>>]
LongForm(v) == Len(v) >= 2 /\ v[2] >= 128
LengthBytes(v) == IF LongForm(v) THEN v[2] - 128 ELSE 0
LengthOf(bytes) == FoldLeft(LAMBDA l, b : (256 * l) + b, 0, bytes)
Cut(v, head, size) ==
    IF head + size > Len(v) THEN NoElement
    ELSE [ok |-> TRUE, tag |-> v[1], full |-> SubSeq(v, 1, head + size), v |-> SubSeq(v, head + 1, head + size)]
DerBehind(v, nb) ==
    IF (nb > 0 /\ nb \notin 1 .. 3) \/ Len(v) < 2 + nb \/ (nb = 0 /\ LongForm(v)) THEN NoElement
    ELSE Cut(v, 2 + nb, LengthOf(IF nb = 0 THEN <<v[2]>> ELSE SubSeq(v, 3, 2 + nb)))
Der(v) == IF Len(v) < 2 THEN NoElement ELSE DerBehind(v, LengthBytes(v))
\* The elements that one call after the other reads, up to the first that is none.
RECURSIVE Elements(_), After(_, _)
After(e, v) == IF e.ok THEN <<e>> \o Elements(SubSeq(v, Len(e.full) + 1, Len(v))) ELSE <<>>
Elements(v) == After(Der(v), v)
\* The first of them.
Inner(v) == Der(v)

SEQUENCE == 48
BOOLEAN_ == 1
INTEGER == 2
BITS == 3
OID == 6
UTC == 23

-----------------------------------------------------------------------------
(* The parts *)

SigAlgs == {"ecdsa256", "ecdsa384", "rsa256", "rsa384"}
Oid == [rsa |-> 1, ecpub |-> 2, P256 |-> 3, P384 |-> 4, ecdsa256 |-> 5, ecdsa384 |-> 6, rsa256 |-> 7, rsa384 |-> 8,
        san |-> 9, basic |-> 10, keyusage |-> 11, eku |-> 12, server |-> 13, anyuse |-> 14]
\* oid_eq
Is(v, name) == v = <<Oid[name]>>
\* parse_sig_alg
SigAlg(v) ==
    LET named == {a \in SigAlgs : Is(Inner(v).v, a)} IN IF named = {} THEN "unknown" ELSE CHOOSE a \in named : TRUE
\* Leading zeros, which DER puts before a byte whose top bit is set.
Stripped(v) == SelectInSeq(v, LAMBDA b : b # 0)
Unsigned(v) == IF Stripped(v) = 0 THEN <<>> ELSE SubSeq(v, Stripped(v), Len(v))
\* parse_spki: none, or the key's type and numbers.
NoSpki == [type |-> "unknown"]
EcKey(curves, key) == IF curves = {} THEN NoSpki ELSE [type |-> CHOOSE c \in curves : TRUE, point |-> key]
RsaKey(numbers) ==
    IF Len(numbers) < 2 THEN NoSpki ELSE [type |-> "rsa", n |-> Unsigned(numbers[1].v), e |-> Unsigned(numbers[2].v)]
KeyOf(alg, key) ==
    IF Len(alg) < 1 THEN NoSpki
    ELSE IF Is(alg[1].v, "ecpub") /\ Len(alg) >= 2
         THEN EcKey({c \in DOMAIN KeyLen : Is(alg[2].v, c) /\ Len(key) = KeyLen[c] /\ key[1] = 4}, key)
    ELSE IF Is(alg[1].v, "rsa") THEN RsaKey(Elements(Inner(key).v)) ELSE NoSpki
SpkiOf(e) ==
    IF Len(e) < 2 THEN NoSpki
    ELSE IF e[2].tag # BITS \/ e[2].v = <<>> THEN NoSpki
    ELSE KeyOf(Elements(e[1].v), Tail(e[2].v))
Spki(v) == SpkiOf(Elements(v))
\* Mutant of Century: the other half of the century.
CenturyLate(yy) == IF yy <= 50 THEN 2000 + yy ELSE 1900 + yy
Century(yy) == IF yy < 50 THEN 2000 + yy ELSE 1900 + yy
\* parse_time: year, month, day, hours, minutes, seconds; the digits of a time are bytes here.
Time(e) ==
    LET two(k) == (10 * e.v[k]) + e.v[k + 1]
    IN  IF e.tag = UTC
        THEN IF Len(e.v) < 12 THEN <<0>> ELSE <<Century(two(1)), two(3), two(5), two(7), two(9), two(11)>>
        ELSE IF Len(e.v) < 14 THEN <<0>> ELSE <<(100 * two(1)) + two(3), two(5), two(7), two(9), two(11), two(13)>>

-----------------------------------------------------------------------------
(* Extensions: parse_exts *)

NoExts == [ok |-> TRUE, san |-> <<>>, eku |-> FALSE, server |-> FALSE, ca |-> FALSE, path |-> -1, usage |-> FALSE, signs |-> FALSE]
Known == {"san", "basic", "keyusage", "eku"}
\* Mutant of Refuses: what is not understood is passed over.
RefusesNot(critical, id) == FALSE
\* An extension that is critical and not understood refuses the certificate.
Refuses(critical, id) == critical /\ \A k \in Known : ~Is(id, k)
Truth(u) == u.tag = BOOLEAN_ /\ u.v # <<>> /\ u.v[1] # 0
Basic(b, u) ==
    IF Truth(u) THEN [b EXCEPT !.ca = TRUE]
    ELSE IF u.tag = INTEGER THEN [b EXCEPT !.path = LengthOf(SubSeq(u.v, 1, IF Len(u.v) < 4 THEN Len(u.v) ELSE 4))]
    ELSE b
Serves(uses) == \E i \in DOMAIN uses : Is(uses[i].v, "server") \/ Is(uses[i].v, "anyuse")
ExtensionRead(c, id, value) ==
    IF Is(id, "eku") THEN [c EXCEPT !.eku = TRUE, !.server = @ \/ (value.tag = SEQUENCE /\ Serves(Elements(value.v)))]
    ELSE IF Is(id, "san") THEN IF value.ok THEN [c EXCEPT !.san = value.v] ELSE c
    ELSE IF Is(id, "basic") THEN IF value.tag = SEQUENCE THEN FoldLeft(Basic, c, Elements(value.v)) ELSE c
    ELSE IF Is(id, "keyusage") /\ value.tag = BITS /\ Len(value.v) >= 2
         THEN [c EXCEPT !.usage = TRUE, !.signs = @ \/ ((value.v[2] \div 4) % 2 = 1)]
    ELSE c
ExtensionOf(c, e, flagged) ==
    LET at == IF flagged THEN 3 ELSE 2
    IN  IF ~c.ok \/ Len(e) < at THEN c
        ELSE IF Refuses(flagged /\ Truth(e[2]), e[1].v) THEN [c EXCEPT !.ok = FALSE]
        ELSE ExtensionRead(c, e[1].v, Inner(e[at].v))
Flagged(e) == Len(e) >= 2 /\ e[2].tag = BOOLEAN_
Parsed(c, e) == ExtensionOf(c, e, Flagged(e))
Extension(c, ext) == Parsed(c, Elements(ext.v))
Exts(v) == FoldLeft(Extension, NoExts, Elements(Inner(v).v))

-----------------------------------------------------------------------------
(* x509_parse *)

NotRead == [ok |-> FALSE]
\* The fields of the body t, the serial number being its s-th element.
TbsFields(e, t, s, validity, key, exts) ==
    IF Len(validity) < 2 \/ key = NoSpki \/ ~exts.ok THEN NotRead
    ELSE [ok |-> TRUE, tbs |-> e[1].full, sig_alg |-> SigAlg(e[2].v), sig |-> Tail(e[3].v), issuer |-> t[s + 2].full,
          subject |-> t[s + 4].full, times |-> <<Time(validity[1]), Time(validity[2])>>, key |-> key, exts |-> exts]
ExtsAt(wrapped, t) == IF wrapped = {} THEN NoExts ELSE Exts(t[CHOOSE i \in wrapped : \A j \in wrapped : i <= j].v)
Body(e, t, s) ==
    IF Len(t) < s + 5 THEN NotRead
    ELSE IF \E k \in 2 .. 5 : t[s + k].tag # SEQUENCE THEN NotRead
    ELSE TbsFields(e, t, s, Elements(t[s + 3].v), Spki(t[s + 5].v), ExtsAt({i \in s + 6 .. Len(t) : t[i].tag = 163}, t))
BodyOf(e, t) == IF t = <<>> THEN NotRead ELSE Body(e, t, IF t[1].tag = 160 THEN 2 ELSE 1)
Certificate(e) ==
    IF Len(e) < 3 THEN NotRead
    ELSE IF e[1].tag # SEQUENCE \/ e[3].tag # BITS \/ e[3].v = <<>> THEN NotRead
    ELSE BodyOf(e, Elements(e[1].v))
X509Parse(d) == IF Inner(d).tag = SEQUENCE THEN Certificate(Elements(Inner(d).v)) ELSE NotRead

\* Mutant of IntToFixed: the padding goes behind.
IntToFixedLeft(v, w) ==
    LET u == Unsigned(v) IN IF Len(u) > w \/ u = <<>> THEN <<>> ELSE u \o [i \in 1 .. w - Len(u) |-> 0]
\* int_to_fixed: none, or w bytes.
IntToFixed(v, w) ==
    LET u == Unsigned(v) IN IF Len(u) > w \/ u = <<>> THEN <<>> ELSE [i \in 1 .. w - Len(u) |-> 0] \o u
\* x509_verify_sig's reading of an ECDSA signature, r and s.
Signature(sig, curve) ==
    LET outer == Elements(sig)
        e == Elements(outer[1].v)
    IN  IF Len(outer) < 1 THEN <<>>
        ELSE IF outer[1].tag # SEQUENCE \/ Len(e) < 2 THEN <<>>
        ELSE <<IntToFixed(e[1].v, Fixed[curve]), IntToFixed(e[2].v, Fixed[curve])>>

-----------------------------------------------------------------------------
(* A certificate as issuers write it *)

Tlv(tag, v) ==
    <<tag>> \o (IF Len(v) < 128 THEN <<Len(v)>> ELSE IF Len(v) < 256 THEN <<129, Len(v)>>
               ELSE <<130, Len(v) \div 256, Len(v) % 256>>) \o v
Seq1(v) == Tlv(SEQUENCE, v)
Number(v) == Tlv(INTEGER, IF v[1] >= 128 THEN <<0>> \o v ELSE v)
OidTlv(name) == Tlv(OID, <<IF name \in DOMAIN Oid THEN Oid[name] ELSE 99>>)
TwoDigits(n) == <<(n \div 10) % 10, n % 10>>
\* Until 2049 in two digits, from 2050 in four.
TimeTlv(t) ==
    LET rest == FlattenSeq([k \in 1 .. 5 |-> TwoDigits(t[k + 1])])
    IN  IF t[1] < 2050 THEN Tlv(UTC, TwoDigits(t[1] % 100) \o rest \o <<90>>)
        ELSE Tlv(24, TwoDigits(t[1] \div 100) \o TwoDigits(t[1] % 100) \o rest \o <<90>>)
ExtTlv(x) == Seq1(OidTlv(x.id) \o (IF x.critical THEN Tlv(BOOLEAN_, <<255>>) ELSE <<>>) \o Tlv(4, x.value))
KeyTlv(k) ==
    IF k.type = "rsa" THEN Seq1(Seq1(OidTlv("rsa") \o Tlv(5, <<>>)) \o Tlv(BITS, <<0>> \o Seq1(Number(k.n) \o Number(k.e))))
    ELSE Seq1(Seq1(OidTlv("ecpub") \o OidTlv(k.type)) \o Tlv(BITS, <<0>> \o k.point))
TbsTlv(c) ==
    Seq1((IF c.version THEN Tlv(160, Number(<<2>>)) ELSE <<>>) \o Number(<<c.serial>>) \o Seq1(OidTlv(c.alg)) \o Seq1(c.issuer)
         \o Seq1(TimeTlv(c.times[1]) \o TimeTlv(c.times[2])) \o Seq1(c.subject) \o KeyTlv(c.key)
         \o (IF c.exts = <<>> THEN <<>>
             ELSE Tlv(163, Seq1(FlattenSeq([i \in DOMAIN c.exts |-> ExtTlv(c.exts[i])])))))
SigTlv(c) == Seq1(Number(c.sig[1]) \o Number(c.sig[2]))
CertTlv(c) == Seq1(TbsTlv(c) \o Seq1(OidTlv(c.alg)) \o Tlv(BITS, <<0>> \o SigTlv(c)))

\* A certificate arrives, all of it or its first bytes.
X509Init == \E c \in Papers : \E n \in 0 .. Len(CertTlv(c)) : paper = [of |-> c, bytes |-> n, read |-> <<>>]
ReadPaper ==
    /\ paper.read = <<>>
    /\ paper' = [paper EXCEPT !.read = <<X509Parse(SubSeq(CertTlv(paper.of), 1, paper.bytes))>>]
X509Next == ReadPaper
X509Spec == X509Init /\ [][X509Next]_x509Vars

-----------------------------------------------------------------------------
(* Properties *)

\* Only what is understood may be critical.
Understood(c) == \A i \in DOMAIN c.exts : c.exts[i].critical => c.exts[i].id \in Known
Meant(c) == FoldLeft(LAMBDA m, x : [f \in DOMAIN m |-> IF f \in DOMAIN x.means THEN x.means[f] ELSE m[f]], NoExts, c.exts)
Plain(k) == IF k.type = "rsa" THEN [type |-> "rsa", n |-> Unsigned(k.n), e |-> Unsigned(k.e)] ELSE [type |-> k.type, point |-> k.point]
\* A certificate is read as its issuer meant it, whatever its lengths take and in which
\* order its extensions stand; one with a critical extension that is not understood, or
\* of which the end is missing, is not read at all.
ReadAsMeant ==
    paper.read # <<>> =>
      LET c == paper.of
          r == paper.read[1]
      IN  /\ r.ok <=> (paper.bytes = Len(CertTlv(c)) /\ Understood(c))
          /\ r.ok => /\ r.times = c.times /\ r.key = Plain(c.key) /\ r.exts = Meant(c)
                     /\ r.sig_alg = (IF c.alg \in SigAlgs THEN c.alg ELSE "unknown")
                     /\ r.issuer = Seq1(c.issuer) /\ r.subject = Seq1(c.subject) /\ r.tbs = TbsTlv(c)
                     /\ \A curve \in DOMAIN Fixed :
                          LET rs == Signature(r.sig, curve)
                          IN  \A i \in {1, 2} :
                                IF Len(Unsigned(c.sig[i])) > Fixed[curve] THEN rs[i] = <<>>
                                ELSE Len(rs[i]) = Fixed[curve] /\ Unsigned(rs[i]) = Unsigned(c.sig[i])
X509Right == ReadAsMeant
=============================================================================
