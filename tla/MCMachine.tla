----------------------------- MODULE MCMachine -----------------------------
(***************************************************************************)
(* Below the desktop, one matter at a time, the others standing still: the *)
(* disk, the clock, elliptic curves and RSA, hashes and sealed records,    *)
(* the two ciphers of numbers, programs, certificates and pictures.        *)
(***************************************************************************)
EXTENDS Persistence, Clock, Cryptography, Decoders

VARIABLE part

Parts == {"disk", "clock", "curves", "digests", "ciphers", "programs", "papers", "pictures"}

-----------------------------------------------------------------------------
(* the last day of a February and of a century; curves of 47 and 503 points' *)
(* fields, an RSA modulus of sixteen bits *)

MCDates == {<<28, 2, 24>>, <<31, 12, 99>>}

MCCurves ==
    {[p |-> 47, b |-> 22, n |-> 43, gx |-> 2, gy |-> 20, len |-> 2], [p |-> 47, b |-> 25, n |-> 53, gx |-> 0, gy |-> 5, len |-> 2],
     [p |-> 503, b |-> 172, n |-> 491, gx |-> 0, gy |-> 41, len |-> 3]}
MCRsa == {[n |-> 35741, e |-> 5, d |-> 14117, bits |-> <<1, 0, 1>>, len |-> 6]}

-----------------------------------------------------------------------------
(* hashes, keys and records *)

\* A block cipher of four bits: an odd multiple and a constant of the key.
BitsOf(x) == [i \in 1 .. 4 |-> (x \div (2 ^ (4 - i))) % 2]
Permuted == [k \in {1, 2} |-> [b \in [1 .. 4 -> {0, 1}] |->
                BitsOf(((((8 * b[1]) + (4 * b[2]) + (2 * b[3]) + b[4]) * (5 + (2 * k))) + 3 + k) % 16)]]
MCCipher(key, b) == Permuted[key][b]
MCTail == <<1, 1, 0, 0>>
MCBytes == {Byte(1), Byte(2)}
ByteText(s) == [i \in 1 .. Len(s) |-> Byte(s[i])]
MCSecrets == {ByteText(s) : s \in {<<1>>, <<1, 2, 1, 2>>, <<1, 2, 1, 2, 1>>}}
MCSeeds == {ByteText(s) : s \in {<<1>>, <<2, 1>>, <<1, 1, 1, 2, 2>>}}
MCPlains == UNION {[1 .. k -> {0, 1}] : k \in 0 .. 5} \union {[i \in 1 .. 9 |-> 0], [i \in 1 .. 12 |-> i % 2]}
MCAads == {<<>>, <<1>>, <<0, 1, 1, 0, 1>>}

-----------------------------------------------------------------------------
(* programs: two at the same address, and five that are refused *)

Seg(v, p, b, more, n) == [load |-> TRUE, vaddr |-> v, paddr |-> p, bytes |-> b, more |-> more, memsz |-> n]
Remark == [Seg(9, 0, 1, 0, 1) EXCEPT !.load = FALSE]
Image(id, fault, kind, entry, segs) ==
    [id |-> id, fault |-> fault, kind |-> kind, entry |-> entry, segments |-> segs, size |-> 1]
MCBuiltin == Image("pie", "none", "DYN", 1, <<Remark, Seg(0, 0, 1, 0, 1), Seg(1, 0, 1, 0, 3)>>)
MCPrograms ==
    {Image("exec", "none", "EXEC", 2, <<Seg(0, 2, 1, 0, 2), Seg(0, 4, 0, 0, 1)>>),
     Image("other", "none", "EXEC", 2, <<Seg(0, 2, 2, 0, 2)>>),
     Image("low", "none", "EXEC", 1, <<Seg(0, 1, 1, 0, 1)>>), Image("bad", "magic", "EXEC", 2, <<>>),
     Image("short", "none", "DYN", 0, <<Seg(0, 0, 1, 0, 1), Seg(1, 0, 1, 1, 2)>>),
     Image("high", "none", "EXEC", 2, <<Seg(0, 2, 1, 0, 1), Seg(0, 5, 1, 0, 2)>>), Image("empty", "none", "DYN", 0, <<Remark>>)}

-----------------------------------------------------------------------------
(* certificates *)

Ext(id, critical, value, means) == [id |-> id, critical |-> critical, value |-> value, means |-> means]
San(n) == Ext("san", FALSE, Seq1([i \in 1 .. n |-> i % 7]), [san |-> [i \in 1 .. n |-> i % 7]])
Ca(path) == Ext("basic", TRUE, Seq1(Tlv(BOOLEAN_, <<255>>) \o Tlv(INTEGER, path)),
                [ca |-> TRUE, path |-> IF Len(path) = 1 THEN path[1] ELSE (256 * path[1]) + path[2]])
NoCa == Ext("basic", TRUE, Seq1(<<>>), [ca |-> FALSE])
Usage(b) == Ext("keyusage", TRUE, Tlv(BITS, <<1, b>>), [usage |-> TRUE, signs |-> b \in {4, 6}])
Eku(ids) == Ext("eku", FALSE, Seq1(FlattenSeq([i \in DOMAIN ids |-> OidTlv(ids[i])])),
                [eku |-> TRUE, server |-> {"server", "anyuse"} \intersect {ids[i] : i \in DOMAIN ids} # {}])
Unknown(c) == Ext("names", c, Seq1(<<5, 0>>), <<>>)
Ec == [type |-> "P256", point |-> <<4, 200, 1>>]
Paper(alg, key, from, to, exts, sig) ==
    [version |-> TRUE, serial |-> 200, alg |-> alg, issuer |-> <<12, 1, 65>>, subject |-> <<12, 2, 66, 67>>,
     times |-> <<<<from, 12, 31, 23, 59, 7>>, <<to, 1, 1, 0, 0, 0>>>>, key |-> key, exts |-> exts, sig |-> sig]
MCPapers ==
    {Paper("ecdsa256", Ec, 1999, 2049, <<San(3), Ca(<<0>>), Usage(6)>>, <<<<200, 1>>, <<7>>>>),
     Paper("ecdsa384", [type |-> "P384", point |-> <<4, 1, 2, 3, 4>>], 1950, 2050,
           <<Ca(<<1, 3>>), Unknown(FALSE), Eku(<<"server", "names">>), San(130)>>, <<<<1, 2, 3>>, <<129>>>>),
     Paper("rsa256", [type |-> "rsa", n |-> <<200, 3>>, e |-> <<3>>], 2000, 2070,
           <<NoCa, Eku(<<"names">>), Usage(3), Unknown(TRUE), San(2)>>, <<<<1>>, <<2>>>>),
     [Paper("odd", [type |-> "rsa", n |-> <<100>>, e |-> <<129>>], 2024, 2025, <<>>, <<<<1>>, <<2>>>>) EXCEPT !.version = FALSE],
     Paper("rsa384", Ec, 2024, 2025, <<San(260), Eku(<<"anyuse">>)>>, <<<<1>>, <<2>>>>)}
MCKeyLen == [P256 |-> 3, P384 |-> 5]
MCFixed == [P256 |-> 2, P384 |-> 3]

-----------------------------------------------------------------------------
(* pictures *)

MCLens == <<<<3, 0>>, <<4, 1>>>>
MCDists == <<<<1, 0>>, <<2, 0>>, <<3, 1>>>>
MCFixedLit == <<3, 4, 4, 4, 4, 4, 4, 4, 3, 3, 4, 4, 4>>
MCFixedDist == <<2, 2, 2, 2>>
MCOrder == <<5, 6, 4, 2, 1, 3, 0, 7>>
MCFields == [hlit |-> 2, hdist |-> 2, hclen |-> 2, clc |-> 2]
MCRepeats == <<<<3, 1>>, <<3, 1>>, <<5, 1>>>>
MCBackground == <<0, 1, 3>>
Pic(w, t, rows, f, m, split, plte, trns) ==
    [w |-> w, ctype |-> t, rows |-> rows, filters |-> f, modes |-> m, split |-> split, plte |-> plte, trns |-> trns]
Rgb == <<<<1, 2, 7, 1, 2, 7>>, <<1, 5, 3, 3, 0, 6>>>>
MCDyn == [lit |-> <<3, 3, 4, 4, 4, 4, 4, 4, 2, 3, 0>>, dist |-> <<0, 0, 1>>, clc |-> <<0, 3, 3, 2, 2, 3, 3, 0>>,
   script |-> <<<<3, 0>>, <<3, 0>>, <<4, 0>>, <<5, 1>>, <<4, 0>>, <<2, 0>>, <<3, 0>>, <<6, 0>>, <<1, 0>>>>]
Rows2 == <<<<2, 3>>, <<0, 7>>>>
Fives == <<<<5, 5, 5, 5>>, <<5, 5, 5, 5>>>>
MCPictures ==
    {Pic(2, "rgb", Rgb, <<a, b>>, <<2, 1>>, 5, <<>>, <<>>) : a, b \in 0 .. 4}
    \union {Pic(3, "grey", <<<<0, 1, 3>>, <<3, 3, 3>>, <<3, 3, 3>>>>, <<4, 2, f>>, m, 60, <<>>, <<>>) :
               f \in {0, 2}, m \in {<<0, 2>>, <<1, 0>>, <<1, 1>>}}
    \union {Pic(2, "grey", Rows2, <<0, 4>>, <<0, 1>>, 60, <<>>, <<>>), Pic(4, "grey", Fives, <<0, 0>>, <<1, 2>>, 9, <<>>, <<>>),
             Pic(2, "greyalpha", <<<<1, 2, 3, 1>>, <<1, 0, 2, 3>>>>, <<4, 4>>, <<2, 2>>, 9, <<>>, <<>>),
             Pic(1, "rgba", <<<<1, 2, 7, 1>>, <<6, 0, 5, 4>>>>, <<1, 3>>, <<0, 1>>, 9, <<>>, <<>>),
             Pic(2, "palette", <<<<0, 1>>, <<2, 1>>>>, <<1, 4>>, <<0, 0>>, 60, <<<<1, 2, 3>>, <<3, 0, 3>>, <<2, 2, 0>>>>, <<1, 2>>),
             Pic(2, "palette", <<<<0, 1>>, <<2, 1>>>>, <<1, 4>>, <<0, 0>>, 60, <<<<1, 2, 3>>, <<3, 0, 3>>>>, <<>>)}

-----------------------------------------------------------------------------
machineVars == <<part, vars, clockVars, curveVars, digestVars, cipherVars, elfVars, x509Vars, pngVars>>

ClockAway == /\ half = "" /\ rtc = 0 /\ reads = 0 /\ got = 0 /\ began = 0 /\ midnight = FALSE /\ cal = 0 /\ anchor = 0
             /\ leafed = 0 /\ sw = 0 /\ jiffies = 0 /\ ran = 0 /\ elapsed = 0 /\ leaves = 0 /\ draws = 0
DigestAway == matter = "" /\ ctx = 0 /\ message = 0 /\ asked = 0 /\ out = 0
ElfAway == ram = 0 /\ brk = 0 /\ root = 0 /\ bin = 0 /\ loads = 0 /\ last = 0

MachineInit ==
    /\ part \in Parts
    /\ Init
    /\ IF part = "clock" THEN ClockInit ELSE ClockAway
    /\ IF part = "curves" THEN CurvesInit ELSE deal = 0 /\ answer = 0
    /\ IF part = "digests" THEN DigestInit ELSE DigestAway
    /\ IF part = "ciphers" THEN CiphersInit ELSE exchange = 0 /\ ladder = 0
    /\ IF part = "programs" THEN ElfInit ELSE ElfAway
    /\ IF part = "papers" THEN X509Init ELSE paper = 0
    /\ IF part = "pictures" THEN PngInit ELSE picture = 0

MachineNext ==
    /\ \/ part = "disk"     /\ Next
       \/ part = "clock"    /\ ClockNext
       \/ part = "curves"   /\ CurvesNext
       \/ part = "digests"  /\ DigestNext
       \/ part = "ciphers"  /\ CiphersNext
       \/ part = "programs" /\ ElfNext
       \/ part = "papers"   /\ X509Next
       \/ part = "pictures" /\ PngNext
    /\ part # "disk"     => UNCHANGED vars
    /\ part # "clock"    => UNCHANGED clockVars
    /\ part # "curves"   => UNCHANGED curveVars
    /\ part # "digests"  => UNCHANGED digestVars
    /\ part # "ciphers"  => UNCHANGED cipherVars
    /\ part # "programs" => UNCHANGED elfVars
    /\ part # "papers"   => UNCHANGED x509Vars
    /\ part # "pictures" => UNCHANGED pngVars
    /\ UNCHANGED part

MachineSpec == MachineInit /\ [][MachineNext]_machineVars /\ WF_vars(IdleFlush) /\ WF_vars(SaveStep)

\* The clock on the wall, the calendar and the stopwatch say what the machine's clock does;
\* a program starts as its file has it, and a picture is shown as it was drawn; what the
\* primitives of TLS compute is what they are named for, and a certificate says what its
\* issuer wrote.
MachineRight == /\ part = "clock"    => ClockRight
                /\ part = "programs" => ElfRight
                /\ part = "pictures" => PngRight
                /\ part = "curves"   => CurvesRight
                /\ part = "digests"  => DigestRight
                /\ part = "ciphers"  => CiphersRight
                /\ part = "papers"   => X509Right
=============================================================================
