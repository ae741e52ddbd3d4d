---------------------------- MODULE KernelProofs ----------------------------
(***************************************************************************)
(* Proofs about the memory the kernel hands out: the blocks of kmalloc and *)
(* kfree in kernel/kernel.c tile the heap, free neighbours are merged and  *)
(* no caller loses a block, as long as preemptible calls take turns; and a *)
(* process keeps every page sys_mmap gave it.                              *)
(***************************************************************************)
EXTENDS KHeap, UserHeap, TLAPS, FiniteSetTheorems, WellFoundedInduction

-----------------------------------------------------------------------------
(* The kernel heap: the inductive invariant *)

Tiles ==
    /\ 0 \in chain
    /\ \A a \in chain : Behind(a) \in chain \union {HeapSize}
    /\ \A a, c \in chain : a < c => Behind(a) <= c

Held ==
    /\ \A l \in live : l[1] \in chain /\ used[l[1]] /\ block_size[l[1]] >= l[2]
    /\ \A l, k \in live : l[1] = k[1] => l = k
    /\ \A a \in chain : used[a] => \E l \in live : l[1] = a

\* What a call in progress knows of the block it stands at.
CallSane ==
    /\ phase \in {"walk", "size", "used", "shrink", "take"} => asked \in Sizes
    /\ phase \in {"walk", "merge"} => b \in chain \union {HeapSize}
    /\ phase \in {"size", "used", "shrink", "take"} =>
         b \in chain /\ ~used[b] /\ block_size[b] >= asked
    /\ phase \in {"size", "used", "shrink"} => Splits(b, asked)
    /\ phase \in {"used", "shrink"} => block_size[Rest] = RestSize
    /\ phase = "shrink" => ~used[Rest]

\* No free block is behind the free block a.
Apart(a) == ~used[a] /\ Behind(a) \in chain => used[Behind(a)]

\* kfree has merged what it passed; kmalloc splits only the block it takes.
MergedSoFar ==
    \A a \in chain : (phase = "merge" => a < b) /\ (phase = "take" => a # b) => Apart(a)

HeapInv == TypeOK /\ (~raced => Tiles /\ Held /\ CallSane /\ MergedSoFar)

-----------------------------------------------------------------------------
(* Least and greatest elements *)

\* A set of numbers has a least element.
LEMMA LeastOf ==
    ASSUME NEW T \in SUBSET Nat, T # {}
    PROVE  \E m \in T : \A x \in T : m <= x
<1>1. PICK m \in T : \A x \in T : ~(<<x, m>> \in OpToRel(<, Nat))
  BY WFMin, NatLessThanWellFounded, Zenon
<1>2. ASSUME NEW x \in T
      PROVE  m <= x
  <2>1. x \in Nat /\ m \in Nat
    OBVIOUS
  <2>2. ~(x < m)
    <3>1. ASSUME x < m
          PROVE  <<x, m>> \in OpToRel(<, Nat)
      BY <2>1, <3>1 DEF OpToRel
    <3> QED
      BY <1>1, <3>1
  <2> QED
    BY <2>1, <2>2
<1> QED
  BY <1>2

\* A set of numbers up to N has a greatest element.
LEMMA GreatestOf ==
    ASSUME NEW N \in Nat, NEW T \in SUBSET (0 .. N), T # {}
    PROVE  \E m \in T : \A x \in T : x <= m
<1> DEFINE U == {N - x : x \in T}
<1>1. U \in SUBSET Nat /\ U # {}
  <2>1. ASSUME NEW x \in T
        PROVE  N - x \in Nat
    OBVIOUS
  <2> QED
    BY <2>1
<1>2. PICK u \in U : \A y \in U : u <= y
  BY <1>1, LeastOf
<1>3. PICK m \in T : u = N - m
  OBVIOUS
<1>4. ASSUME NEW x \in T
      PROVE  x <= m
  <2>1. N - x \in U
    OBVIOUS
  <2>2. N - m <= N - x
    BY <1>2, <1>3, <2>1
  <2> QED
    BY <2>2
<1> QED
  BY <1>4

-----------------------------------------------------------------------------
(* The chain of blocks *)

\* Where a block of the list ends.
LEMMA BehindIs ==
    ASSUME TypeOK, NEW a \in chain
    PROVE  /\ a \in Nat /\ a \in Addrs /\ a < HeapSize /\ block_size[a] \in Nat
           /\ Behind(a) \in Nat /\ Behind(a) = a + Hdr + block_size[a] /\ Behind(a) > a
<1>1. a \in Nat /\ a \in Addrs /\ a < HeapSize
  BY HeapAssumption DEF TypeOK, Addrs
<1>2. block_size[a] \in Nat
  BY <1>1, HeapAssumption DEF TypeOK
<1> QED
  BY <1>1, <1>2, HeapAssumption DEF Behind

\* A block behind another one ends where or after that one ends, and behind each block but the
\* first there is one in front.
LEMMA InFront ==
    ASSUME TypeOK, Tiles, NEW d \in chain, d # 0
    PROVE  \E a \in chain : Behind(a) = d /\ \A c \in chain : c < d => c <= a
<1> DEFINE T == {a \in chain : a < d}
<1>1. d \in Nat /\ d < HeapSize /\ chain \subseteq 0 .. HeapSize
  BY BehindIs, HeapAssumption DEF TypeOK, Addrs
<1>2. T # {} /\ T \in SUBSET (0 .. HeapSize)
  <2>1. 0 \in chain /\ 0 < d
    BY <1>1 DEF Tiles
  <2> QED
    BY <1>1, <2>1
<1>3. PICK a \in T : \A x \in T : x <= a
  BY <1>2, GreatestOf, HeapAssumption
<1>4. Behind(a) <= d /\ Behind(a) \in chain \union {HeapSize} /\ Behind(a) > a /\ Behind(a) \in Nat
      /\ a \in Nat
  BY BehindIs DEF Tiles
<1>5. Behind(a) \in chain
  BY <1>1, <1>4
<1>6. ~(Behind(a) < d)
  <2>1. ASSUME Behind(a) < d
        PROVE  FALSE
    BY <1>3, <1>4, <1>5, <2>1
  <2> QED
    BY <2>1
<1>7. Behind(a) = d
  BY <1>1, <1>4, <1>6
<1> QED
  BY <1>3, <1>7

\* Two blocks have no block behind them in common.
LEMMA BehindDiffers ==
    ASSUME TypeOK, Tiles, NEW a \in chain, NEW c \in chain, Behind(a) = Behind(c)
    PROVE  a = c
<1>1. a \in Nat /\ c \in Nat /\ Behind(a) > a /\ Behind(c) > c /\ Behind(a) \in Nat
  BY BehindIs
<1>2. ~(a < c) /\ ~(c < a)
  <2>1. ASSUME a < c
        PROVE  FALSE
    <3>1. Behind(a) <= c
      BY <2>1 DEF Tiles
    <3> QED
      BY <1>1, <3>1
  <2>2. ASSUME c < a
        PROVE  FALSE
    <3>1. Behind(c) <= a
      BY <2>2 DEF Tiles
    <3> QED
      BY <1>1, <3>1
  <2> QED
    BY <2>1, <2>2
<1> QED
  BY <1>1, <1>2

\* A run of free blocks has an end: the next used block or the end of the heap.
LEMMA RunEnds ==
    ASSUME TypeOK, Tiles, NEW a \in chain, NEW f
    PROVE  /\ RunEnd(a, f) \in chain \union {HeapSize}
           /\ RunEnd(a, f) > a
           /\ RunEnd(a, f) = HeapSize \/ (used[RunEnd(a, f)] /\ RunEnd(a, f) # f)
           /\ \A c \in chain : a < c /\ c < RunEnd(a, f) => ~used[c] \/ c = f
           /\ RunEnd(a, f) \in Nat /\ RunEnd(a, f) >= Behind(a) /\ RunEnd(a, f) <= HeapSize
<1> DEFINE Stops == {e \in chain \union {HeapSize} : e > a /\ (e = HeapSize \/ (used[e] /\ e # f))}
<1>1. a \in Nat /\ a < HeapSize /\ chain \subseteq Nat /\ HeapSize \in Nat
  BY BehindIs, HeapAssumption
<1>2. Stops \in SUBSET Nat /\ HeapSize \in Stops
  BY <1>1
<1>3. PICK m \in Stops : \A x \in Stops : m <= x
  BY <1>2, LeastOf
<1>4. ASSUME NEW c \in chain, a < c, c < m
      PROVE  ~used[c] \/ c = f
  <2>1. c \in Nat /\ m \in Nat
    BY <1>1, <1>2
  <2>2. c \notin Stops
    BY <1>3, <1>4, <2>1
  <2>3. c \in chain \union {HeapSize}
    OBVIOUS
  <2> QED
    BY <1>4, <2>2, <2>3
<1>5. \E e \in (chain \union {HeapSize}) :
        /\ e > a
        /\ e = HeapSize \/ (used[e] /\ e # f)
        /\ \A c \in chain : a < c /\ c < e => ~used[c] \/ c = f
  BY <1>4
<1>6. /\ RunEnd(a, f) \in chain \union {HeapSize}
      /\ RunEnd(a, f) > a
      /\ RunEnd(a, f) = HeapSize \/ (used[RunEnd(a, f)] /\ RunEnd(a, f) # f)
      /\ \A c \in chain : a < c /\ c < RunEnd(a, f) => ~used[c] \/ c = f
  BY <1>5 DEF RunEnd
<1> HIDE DEF RunEnd
<1>7. RunEnd(a, f) \in Nat /\ RunEnd(a, f) <= HeapSize
  <2>1. \A e \in chain \union {HeapSize} : e \in Nat /\ e <= HeapSize
    BY <1>1, BehindIs
  <2> QED
    BY <1>6, <2>1
<1>8. RunEnd(a, f) >= Behind(a)
  <2>1. Behind(a) \in chain \union {HeapSize} /\ \A c \in chain : a < c => Behind(a) <= c
    BY DEF Tiles
  <2> HIDE DEF Behind
  <2>2. CASE RunEnd(a, f) \in chain
    BY <1>6, <2>1, <2>2
  <2>3. CASE RunEnd(a, f) = HeapSize
    BY <1>1, <2>1, <2>3, BehindIs
  <2> QED
    BY <1>6, <2>2, <2>3
<1> QED
  BY <1>6, <1>7, <1>8

-----------------------------------------------------------------------------
(* kfree with interrupts masked *)

Opens(c, f) == ~used[c] \/ c = f

\* What is absorbed, and where the blocks that remain end.
LEMMA FreedRuns ==
    ASSUME TypeOK, Tiles, NEW f \in chain, NEW c \in chain \ Absorbed(f)
    PROVE  /\ \A d \in chain : Opens(c, f) /\ c < d /\ d < RunEnd(c, f) => d \in Absorbed(f)
           /\ Opens(c, f) => RunEnd(c, f) \in (chain \ Absorbed(f)) \union {HeapSize}
           /\ ~Opens(c, f) => Behind(c) \in (chain \ Absorbed(f)) \union {HeapSize}
<1>1. ASSUME NEW d \in chain, Opens(c, f), c < d, d < RunEnd(c, f)
      PROVE  d \in Absorbed(f)
  <2>1. c \in Nat /\ d \in Nat /\ d # 0
    BY <1>1, BehindIs
  <2>2. PICK a \in chain : Behind(a) = d /\ \A x \in chain : x < d => x <= a
    BY <2>1, InFront
  <2>3. a \in Nat /\ a < d /\ c <= a
    BY <1>1, <2>2, BehindIs
  <2>4. a = c \/ (c < a /\ a < RunEnd(c, f))
    <3>1. RunEnd(c, f) \in Nat
      BY RunEnds
    <3> HIDE DEF RunEnd
    <3> QED
      BY <1>1, <2>1, <2>3, <3>1
  <2>5. Opens(a, f) /\ Opens(d, f)
    BY <1>1, <2>4, RunEnds DEF Opens
  <2> QED
    BY <2>2, <2>5 DEF Absorbed, Opens
<1>2. ASSUME Opens(c, f)
      PROVE  RunEnd(c, f) \in (chain \ Absorbed(f)) \union {HeapSize}
  <2>1. RunEnd(c, f) \in chain \union {HeapSize}
        /\ (RunEnd(c, f) = HeapSize \/ (used[RunEnd(c, f)] /\ RunEnd(c, f) # f))
    BY RunEnds
  <2> HIDE DEF RunEnd
  <2> QED
    BY <2>1 DEF Absorbed
<1>3. ASSUME ~Opens(c, f)
      PROVE  Behind(c) \in (chain \ Absorbed(f)) \union {HeapSize}
  <2>1. Behind(c) \in chain \union {HeapSize}
    BY DEF Tiles
  <2>2. ASSUME Behind(c) \in Absorbed(f)
        PROVE  FALSE
    <3>1. PICK a \in chain : Behind(a) = Behind(c) /\ Opens(a, f)
      BY <2>2 DEF Absorbed, Opens
    <3>2. a = c
      BY <3>1, BehindDiffers
    <3> QED
      BY <1>3, <3>1, <3>2
  <2> QED
    BY <2>1, <2>2
<1> QED
  BY <1>1, <1>2, <1>3

\* kfree with interrupts masked: the whole walk in one step, which merges every run of free blocks.
LEMMA MaskedFreeKeeps ==
    ASSUME HeapInv, ~raced, NEW f \in Addrs, MaskedFree(f)
    PROVE  HeapInv'
<1>1. TypeOK /\ Tiles /\ Held /\ CallSane /\ MergedSoFar
  BY DEF HeapInv
<1>2. PICK n \in Sizes : <<f, n>> \in live
  BY DEF MaskedFree
<1>3. f \in chain /\ used[f]
  BY <1>1, <1>2 DEF Held
<1>4. /\ used' = [used EXCEPT ![f] = FALSE]
      /\ chain' = chain \ Absorbed(f)
      /\ block_size' = [c \in Addrs |->
                         IF c \in chain \ Absorbed(f) /\ Opens(c, f)
                         THEN RunEnd(c, f) - c - Hdr ELSE block_size[c]]
      /\ live' = {l \in live : l[1] # f}
      /\ raced' = (raced \/ phase # "idle")
      /\ UNCHANGED <<phase, b, asked>>
  BY DEF MaskedFree, Released, call, Opens
<1>5. chain \subseteq Addrs /\ used \in [Addrs -> BOOLEAN] /\ block_size \in [Addrs -> 0 .. HeapSize]
  BY <1>1 DEF TypeOK
<1>6. ASSUME NEW c \in chain
      PROVE  RunEnd(c, f) - c - Hdr \in 0 .. HeapSize
  <2>1. PICK e \in Nat : e = RunEnd(c, f) /\ e >= Behind(c) /\ e <= HeapSize
    BY <1>1, RunEnds
  <2>2. c \in Nat /\ block_size[c] \in Nat /\ Behind(c) = c + Hdr + block_size[c]
    BY <1>1, BehindIs
  <2>3. e - c - Hdr \in 0 .. HeapSize
    BY <2>1, <2>2, HeapAssumption
  <2> QED
    BY <2>1, <2>3
<1>7. TypeOK'
  <2>1. block_size' \in [Addrs -> 0 .. HeapSize]
    <3> HIDE DEF RunEnd
    <3> QED
      BY <1>4, <1>5, <1>6
  <2>2. used' \in [Addrs -> BOOLEAN] /\ chain' \subseteq Addrs
    BY <1>4, <1>5
  <2>3. live' \subseteq Addrs \X Sizes /\ raced' \in BOOLEAN
    BY <1>1, <1>4 DEF TypeOK
  <2> QED
    BY <1>1, <1>4, <2>1, <2>2, <2>3 DEF TypeOK
<1>8. ASSUME phase = "idle"
      PROVE  Tiles' /\ Held' /\ CallSane' /\ MergedSoFar'
  <2>1. ASSUME NEW c \in chain'
        PROVE  /\ c \in chain /\ c \in Nat /\ Behind(c) \in Nat
               /\ Opens(c, f) => Behind(c)' = RunEnd(c, f)
               /\ ~Opens(c, f) => Behind(c)' = Behind(c)
               /\ used'[c] = (used[c] /\ c # f)
    <3>1. c \in chain \ Absorbed(f) /\ c \in Addrs
      BY <1>4, <1>5
    <3>2. c \in Nat /\ Behind(c) \in Nat
      BY <1>1, <3>1, BehindIs
    <3>3. PICK e \in Nat : e = RunEnd(c, f)
      BY <1>1, <3>1, RunEnds
    <3>4. Opens(c, f) => block_size'[c] = e - c - Hdr
      BY <1>4, <3>1, <3>3
    <3>5. Opens(c, f) => Behind(c)' = e
      <4>1. Behind(c)' = c + Hdr + block_size'[c]
        BY DEF Behind
      <4>2. c + Hdr + (e - c - Hdr) = e
        BY <3>2, <3>3, HeapAssumption
      <4> QED
        BY <3>4, <4>1, <4>2
    <3>6. ~Opens(c, f) => block_size'[c] = block_size[c]
      BY <1>4, <3>1
    <3>7. ~Opens(c, f) => Behind(c)' = Behind(c)
      BY <3>6 DEF Behind
    <3>8. used'[c] = (used[c] /\ c # f)
      BY <1>4, <1>5, <3>1
    <3> HIDE DEF Behind
    <3> QED
      BY <3>1, <3>2, <3>3, <3>5, <3>7, <3>8
  <2>2. ASSUME NEW c \in chain'
        PROVE  Behind(c)' \in chain' \union {HeapSize}
    <3>1. c \in chain \ Absorbed(f)
      BY <1>4
    <3>2. /\ Opens(c, f) => RunEnd(c, f) \in (chain \ Absorbed(f)) \union {HeapSize}
          /\ ~Opens(c, f) => Behind(c) \in (chain \ Absorbed(f)) \union {HeapSize}
      BY <1>1, <1>3, <3>1, FreedRuns
    <3> HIDE DEF RunEnd, Behind, Opens, Absorbed
    <3> QED
      BY <1>4, <2>1, <3>2
  <2>3. ASSUME NEW a \in chain', NEW c \in chain', a < c
        PROVE  Behind(a)' <= c
    <3>1. a \in chain \ Absorbed(f) /\ c \in chain /\ c \notin Absorbed(f) /\ c \in Nat
      BY <1>4, <2>1
    <3>2. CASE Opens(a, f)
      <4>1. ~(c < RunEnd(a, f))
        BY <1>1, <1>3, <2>3, <3>1, <3>2, FreedRuns
      <4>2. RunEnd(a, f) \in Nat
        BY <1>1, <3>1, RunEnds
      <4>3. Behind(a)' = RunEnd(a, f)
        BY <2>1, <3>2
      <4> HIDE DEF RunEnd, Behind
      <4> QED
        BY <3>1, <4>1, <4>2, <4>3
    <3>3. CASE ~Opens(a, f)
      <4>1. Behind(a) <= c
        BY <1>1, <2>3, <3>1 DEF Tiles
      <4>2. Behind(a)' = Behind(a)
        BY <2>1, <3>3
      <4> HIDE DEF Behind
      <4> QED
        BY <4>1, <4>2
    <3> QED
      BY <3>2, <3>3
  <2>4. 0 \in chain'
    <3>1. ASSUME 0 \in Absorbed(f)
          PROVE  FALSE
      <4>1. PICK a \in chain : Behind(a) = 0
        BY <3>1 DEF Absorbed
      <4>2. a \in Nat /\ Behind(a) > a
        BY <1>1, BehindIs
      <4> QED
        BY <4>1, <4>2
    <3> QED
      BY <1>1, <1>4, <3>1 DEF Tiles
  <2>5. Tiles'
    BY <2>2, <2>3, <2>4 DEF Tiles
  <2>6. ASSUME NEW l \in live'
        PROVE  l[1] \in chain' /\ used'[l[1]] /\ block_size'[l[1]] >= l[2]
    <3>1. l \in live /\ l[1] # f
      BY <1>4
    <3>2. l[1] \in chain /\ used[l[1]] /\ block_size[l[1]] >= l[2]
      BY <1>1, <3>1 DEF Held
    <3>3. ~Opens(l[1], f) /\ l[1] \notin Absorbed(f)
      BY <3>1, <3>2 DEF Opens, Absorbed
    <3>4. block_size'[l[1]] = block_size[l[1]] /\ used'[l[1]]
      BY <1>4, <1>5, <3>1, <3>2, <3>3
    <3> QED
      BY <1>4, <3>2, <3>3, <3>4
  <2>7. Held'
    <3>1. \A l, k \in live' : l[1] = k[1] => l = k
      BY <1>1, <1>4 DEF Held
    <3>2. ASSUME NEW a \in chain', used'[a]
          PROVE  \E l \in live' : l[1] = a
      <4>1. used[a] /\ a # f /\ a \in chain
        BY <2>1, <3>2
      <4>2. PICK l \in live : l[1] = a
        BY <1>1, <4>1 DEF Held
      <4> QED
        BY <1>4, <4>1, <4>2
    <3> QED
      BY <2>6, <3>1, <3>2 DEF Held
  <2>8. CallSane'
    BY <1>4, <1>8 DEF CallSane
  <2>9. MergedSoFar'
    <3>1. ASSUME NEW a \in chain', ~used'[a], Behind(a)' \in chain'
          PROVE  used'[Behind(a)']
      <4>1. a \in chain /\ Opens(a, f)
        BY <2>1, <3>1 DEF Opens
      <4>2. Behind(a)' = RunEnd(a, f)
        BY <2>1, <4>1
      <4>3. Behind(a)' # HeapSize
        BY <1>5, <1>4, <3>1, HeapAssumption DEF Addrs
      <4>4. RunEnd(a, f) = HeapSize \/ (used[RunEnd(a, f)] /\ RunEnd(a, f) # f)
        BY <1>1, <4>1, RunEnds
      <4> HIDE DEF RunEnd, Behind
      <4>5. used[Behind(a)'] /\ Behind(a)' # f
        BY <4>2, <4>3, <4>4
      <4> QED
        BY <2>1, <3>1, <4>5
    <3> QED
      BY <1>4, <1>8, <3>1 DEF MergedSoFar, Apart
  <2> QED
    BY <2>5, <2>7, <2>8, <2>9
<1> QED
  BY <1>4, <1>7, <1>8 DEF HeapInv

-----------------------------------------------------------------------------
(* kmalloc *)

\* The remainder of a block that is split lies within that block.
LEMMA RemainderIs ==
    ASSUME TypeOK, Tiles, NEW a \in chain, NEW n \in Sizes, Splits(a, n)
    PROVE  /\ a + Hdr + n \in Addrs /\ a + Hdr + n \notin chain /\ a + Hdr + n \in Nat
           /\ a < a + Hdr + n /\ a + Hdr + n < Behind(a)
           /\ n \in 0 .. HeapSize /\ block_size[a] - n - Hdr \in 0 .. HeapSize
<1>1. n \in Nat \ {0} /\ a \in Nat /\ block_size[a] \in 0 .. HeapSize
      /\ Behind(a) = a + Hdr + block_size[a] /\ Behind(a) \in Nat
  <2>1. a \in Addrs
    BY BehindIs
  <2> QED
    BY <2>1, BehindIs, HeapAssumption DEF TypeOK
<1>2. PICK s \in 0 .. HeapSize : s = block_size[a] /\ s >= n + Hdr + 1
  BY <1>1 DEF Splits
<1>3. Behind(a) <= HeapSize
  <2>1. \A c \in chain : c <= HeapSize
    BY BehindIs, HeapAssumption
  <2>2. Behind(a) \in chain \union {HeapSize}
    BY DEF Tiles
  <2> HIDE DEF Behind
  <2> QED
    BY <2>1, <2>2, HeapAssumption
<1>4. PICK r \in Nat : r = a + Hdr + n
  BY <1>1, HeapAssumption
<1>5. a < r /\ r < Behind(a) /\ n \in 0 .. HeapSize /\ s - n - Hdr \in 0 .. HeapSize
  BY <1>1, <1>2, <1>4, HeapAssumption
<1>6. r \in Addrs
  BY <1>1, <1>3, <1>4, <1>5, HeapAssumption DEF Addrs
<1>7. r \notin chain
  <2>1. ASSUME r \in chain
        PROVE  FALSE
    <3>1. Behind(a) <= r
      BY <1>5, <2>1 DEF Tiles
    <3> QED
      BY <1>1, <1>4, <1>5, <3>1
  <2> QED
    BY <2>1
<1> QED
  BY <1>2, <1>4, <1>5, <1>6, <1>7

\* A split leaves a chain of one more block.
LEMMA SplitTiles ==
    ASSUME TypeOK, Tiles, NEW a \in chain, NEW n \in Sizes, Splits(a, n),
           NEW r, r = a + Hdr + n, chain' = chain \union {r},
           block_size'[a] = n, block_size'[r] = block_size[a] - n - Hdr,
           \A c \in chain \ {a} : block_size'[c] = block_size[c]
    PROVE  /\ Tiles'
           /\ Behind(a)' = r /\ Behind(r)' = Behind(a)
           /\ \A c \in chain \ {a} : Behind(c)' = Behind(c)
<1>1. n \in Nat /\ a \in Nat /\ block_size[a] \in Nat /\ Behind(a) = a + Hdr + block_size[a]
      /\ Behind(a) \in Nat
  BY BehindIs, HeapAssumption
<1>2. r \in Nat /\ r \notin chain /\ a < r /\ r < Behind(a)
  BY RemainderIs
<1>3. Behind(a)' = r
  BY DEF Behind
<1>4. Behind(r)' = Behind(a)
  <2>1. Behind(r)' = r + Hdr + (block_size[a] - n - Hdr)
    BY DEF Behind
  <2>2. r + Hdr + (block_size[a] - n - Hdr) = a + Hdr + block_size[a]
    BY <1>1, <1>2, HeapAssumption
  <2> QED
    BY <1>1, <2>1, <2>2
<1>5. \A c \in chain \ {a} : Behind(c)' = Behind(c)
  BY DEF Behind
<1> HIDE DEF Behind
<1>6. ASSUME NEW c \in chain'
      PROVE  Behind(c)' \in chain' \union {HeapSize}
  <2>1. \A x \in chain : Behind(x) \in chain \union {HeapSize}
    BY DEF Tiles
  <2> QED
    BY <1>3, <1>4, <1>5, <2>1
<1>7. ASSUME NEW c \in chain', NEW d \in chain', c < d
      PROVE  Behind(c)' <= d
  <2>1. \A x, y \in chain : x < y => Behind(x) <= y
    BY DEF Tiles
  <2>2. \A x \in chain : x \in Nat /\ Behind(x) \in Nat
    BY BehindIs
  <2>3. CASE c = a
    <3>1. CASE d = r
      BY <1>2, <1>3, <2>3, <3>1
    <3>2. CASE d \in chain
      BY <1>1, <1>2, <1>3, <1>7, <2>1, <2>2, <2>3, <3>2
    <3> QED
      BY <3>1, <3>2
  <2>4. CASE c = r
    <3>1. d \in chain /\ d \in Nat /\ a < d
      BY <1>1, <1>2, <1>7, <2>2, <2>4
    <3> QED
      BY <1>4, <2>1, <2>4, <3>1
  <2>5. CASE c \in chain \ {a}
    <3>1. CASE d = r
      <4>1. c \in Nat /\ Behind(c) \in Nat
        BY <2>2, <2>5
      <4>2. c < a
        <5>1. ASSUME a < c
              PROVE  FALSE
          <6>1. Behind(a) <= c
            BY <2>1, <2>5, <5>1
          <6> QED
            BY <1>1, <1>2, <1>7, <3>1, <4>1, <6>1
        <5> QED
          BY <1>1, <2>5, <4>1, <5>1
      <4>3. Behind(c) <= a
        BY <2>1, <2>5, <4>2
      <4> QED
        BY <1>1, <1>2, <1>5, <2>5, <3>1, <4>1, <4>3
    <3>2. CASE d \in chain
      BY <1>5, <1>7, <2>1, <2>5, <3>2
    <3> QED
      BY <3>1, <3>2
  <2> QED
    BY <2>3, <2>4, <2>5
<1>8. Tiles'
  BY <1>6, <1>7 DEF Tiles
<1> QED
  BY <1>3, <1>4, <1>5, <1>8

\* A free block taken whole.
LEMMA TakenHeld ==
    ASSUME Held, NEW a \in chain, ~used[a], NEW n \in Sizes, block_size[a] >= n,
           used \in [Addrs -> BOOLEAN], a \in Addrs, chain \subseteq Addrs,
           chain \subseteq chain', \A c \in chain' \ chain : ~used'[c],
           \A c \in chain : used'[c] = (used[c] \/ c = a),
           block_size'[a] >= n, \A c \in chain \ {a} : block_size'[c] = block_size[c],
           live' = live \union {<<a, n>>}
    PROVE  Held'
<1>1. \A l \in live : l[1] # a
  BY DEF Held
<1>2. ASSUME NEW l \in live'
      PROVE  l[1] \in chain' /\ used'[l[1]] /\ block_size'[l[1]] >= l[2]
  <2>1. CASE l \in live
    BY <1>1, <2>1 DEF Held
  <2>2. CASE l = <<a, n>>
    BY <2>2
  <2> QED
    BY <2>1, <2>2
<1>3. \A l, k \in live' : l[1] = k[1] => l = k
  BY <1>1 DEF Held
<1>4. ASSUME NEW c \in chain', used'[c]
      PROVE  \E l \in live' : l[1] = c
  <2>1. c \in chain /\ (used[c] \/ c = a)
    BY <1>4
  <2>2. CASE used[c]
    BY <2>1, <2>2 DEF Held
  <2>3. CASE c = a
    <3>1. <<a, n>> \in live' /\ <<a, n>>[1] = c
      BY <2>3
    <3> QED
      BY <3>1
  <2> QED
    BY <2>1, <2>2, <2>3
<1> QED
  BY <1>2, <1>3, <1>4 DEF Held

\* kmalloc with interrupts masked: the first free block that is large enough, split when the rest can
\* hold a header and a block.
LEMMA MaskedMallocKeeps ==
    ASSUME HeapInv, ~raced, NEW n \in Sizes, MaskedMalloc(n)
    PROVE  HeapInv'
<1>1. TypeOK /\ Tiles /\ Held /\ CallSane /\ MergedSoFar
  BY DEF HeapInv
<1>2. PICK a \in chain :
         /\ Fits(a, n)
         /\ used' = [c \in Addrs |-> IF c = a THEN TRUE
                       ELSE IF Splits(a, n) /\ c = a + Hdr + n THEN FALSE
                       ELSE used[c]]
         /\ block_size' = [c \in Addrs |-> IF ~Splits(a, n) THEN block_size[c]
                       ELSE IF c = a THEN n
                       ELSE IF c = a + Hdr + n THEN block_size[a] - n - Hdr
                       ELSE block_size[c]]
         /\ chain' = chain \union (IF Splits(a, n) THEN {a + Hdr + n} ELSE {})
         /\ live' = live \union {<<a, n>>}
  BY DEF MaskedMalloc
<1>3. raced' = (raced \/ phase # "idle") /\ UNCHANGED <<phase, b, asked>>
  BY DEF MaskedMalloc, call
<1>4. /\ chain \subseteq Addrs /\ used \in [Addrs -> BOOLEAN]
      /\ block_size \in [Addrs -> 0 .. HeapSize] /\ a \in Addrs
      /\ ~used[a] /\ block_size[a] >= n /\ n \in Nat
  BY <1>1, <1>2, HeapAssumption DEF TypeOK, Fits
<1>5. raced' \in BOOLEAN /\ live' \subseteq Addrs \X Sizes
  BY <1>1, <1>2, <1>3, <1>4 DEF TypeOK
<1>6. CASE ~Splits(a, n)
  <2>1. block_size' = block_size /\ chain' = chain /\ used' = [used EXCEPT ![a] = TRUE]
    BY <1>2, <1>4, <1>6
  <2>2. TypeOK'
    BY <1>1, <1>3, <1>4, <1>5, <2>1 DEF TypeOK
  <2>3. Tiles'
    BY <1>1, <2>1 DEF Tiles, Behind
  <2>4. \A c \in chain : used'[c] = (used[c] \/ c = a)
    BY <1>4, <2>1
  <2>5. Held'
    BY <1>1, <1>2, <1>4, <2>1, <2>4, TakenHeld
  <2>6. phase = "idle" => MergedSoFar'
    BY <1>1, <1>3, <2>1, <2>4 DEF MergedSoFar, Apart, Behind
  <2>7. phase = "idle" => CallSane'
    BY <1>3 DEF CallSane
  <2> QED
    BY <1>3, <2>2, <2>3, <2>5, <2>6, <2>7 DEF HeapInv
<1>7. CASE Splits(a, n)
  <2>1. PICK r \in Addrs : /\ r = a + Hdr + n /\ r \notin chain /\ r # a
                           /\ n \in 0 .. HeapSize /\ block_size[a] - n - Hdr \in 0 .. HeapSize
    BY <1>1, <1>7, RemainderIs
  <2>2. /\ block_size' = [c \in Addrs |-> IF c = a THEN n ELSE IF c = r THEN block_size[a] - n - Hdr
                                          ELSE block_size[c]]
        /\ chain' = chain \union {r}
        /\ used' = [c \in Addrs |-> IF c = a THEN TRUE ELSE IF c = r THEN FALSE ELSE used[c]]
    BY <1>2, <1>7, <2>1
  <2>3. /\ block_size'[a] = n /\ block_size'[r] = block_size[a] - n - Hdr
        /\ \A c \in chain \ {a} : block_size'[c] = block_size[c]
        /\ ~used'[r] /\ \A c \in chain : used'[c] = (used[c] \/ c = a)
    BY <1>4, <2>1, <2>2
  <2>4. TypeOK'
    <3>1. block_size' \in [Addrs -> 0 .. HeapSize] /\ used' \in [Addrs -> BOOLEAN]
      BY <1>4, <2>1, <2>2
    <3> QED
      BY <1>1, <1>3, <1>4, <1>5, <2>1, <2>2, <3>1 DEF TypeOK
  <2>5. /\ Tiles' /\ Behind(a)' = r /\ Behind(r)' = Behind(a)
        /\ \A c \in chain \ {a} : Behind(c)' = Behind(c)
    BY <1>1, <1>7, <2>1, <2>2, <2>3, SplitTiles
  <2>6. Held'
    <3>1. block_size'[a] >= n
      BY <1>4, <2>3
    <3> QED
      BY <1>1, <1>2, <1>4, <2>2, <2>3, <3>1, TakenHeld
  <2>7. ASSUME phase = "idle", NEW c \in chain', ~used'[c], Behind(c)' \in chain'
        PROVE  used'[Behind(c)']
    <3>1. Behind(a) \in chain => used[Behind(a)]
      BY <1>1, <1>4, <2>7 DEF MergedSoFar, Apart
    <3>2. c # a
      BY <2>3, <2>7
    <3>3. CASE c = r
      <4>1. Behind(a) \in chain
        <5>1. Behind(a) # r
          BY <1>1, <1>7, <2>1, RemainderIs
        <5> QED
          BY <2>2, <2>5, <2>7, <3>3, <5>1
      <4> QED
        BY <2>3, <2>5, <3>1, <3>3, <4>1
    <3>4. CASE c \in chain \ {a}
      <4>1. Behind(c) \in chain \union {HeapSize} /\ Behind(c)' = Behind(c)
        BY <1>1, <2>5, <3>4 DEF Tiles
      <4>2. r # HeapSize
        BY <2>1, HeapAssumption DEF Addrs
      <4>3. Behind(c) \in chain
        <5>1. HeapSize \notin chain /\ HeapSize # r
          BY <1>4, <4>2, HeapAssumption DEF Addrs
        <5> HIDE DEF Behind
        <5> QED
          BY <2>2, <2>7, <4>1, <5>1
      <4>4. ~used[c]
        BY <2>3, <2>7, <3>4
      <4>5. used[Behind(c)]
        BY <1>1, <2>7, <3>4, <4>3, <4>4 DEF MergedSoFar, Apart
      <4> QED
        BY <2>3, <4>1, <4>3, <4>5
    <3> QED
      BY <2>2, <3>2, <3>3, <3>4
  <2>8. phase = "idle" => MergedSoFar'
    BY <1>3, <2>7 DEF MergedSoFar, Apart
  <2>9. phase = "idle" => CallSane'
    BY <1>3 DEF CallSane
  <2> QED
    BY <1>3, <2>4, <2>5, <2>6, <2>8, <2>9 DEF HeapInv
<1> QED
  BY <1>6, <1>7

-----------------------------------------------------------------------------
(* The steps of a call of the main thread *)

\* A kmalloc that can be preempted, as far as it only reads.
LEMMA WalkKeeps ==
    ASSUME HeapInv, ~raced, (\E n \in Sizes : Malloc(n)) \/ Walk
    PROVE  HeapInv'
<1>1. TypeOK /\ Tiles /\ Held /\ CallSane /\ MergedSoFar
  BY DEF HeapInv
<1>2. UNCHANGED <<block_size, used, chain, live, raced>>
  BY DEF Malloc, Walk, headers
<1>3. Tiles' /\ Held'
  BY <1>1, <1>2 DEF Tiles, Held, Behind
<1>4. CASE \E n \in Sizes : Malloc(n)
  <2>1. phase' = "walk" /\ b' = 0 /\ asked' \in Sizes /\ phase = "idle"
    BY <1>4 DEF Malloc
  <2>2. TypeOK'
    BY <1>1, <1>2, <2>1, HeapAssumption DEF TypeOK
  <2>3. CallSane'
    BY <1>1, <1>2, <2>1 DEF CallSane, Tiles
  <2>4. MergedSoFar'
    BY <1>1, <1>2, <2>1 DEF MergedSoFar, Apart, Behind
  <2> QED
    BY <1>3, <2>2, <2>3, <2>4 DEF HeapInv
<1>5. CASE Walk
  <2>1. phase = "walk" /\ b \in chain \union {HeapSize} /\ asked \in Sizes
    BY <1>1, <1>5 DEF Walk, CallSane
  <2>2. chain \subseteq Addrs /\ \A c \in chain : c < HeapSize
    BY <1>1, BehindIs DEF TypeOK
  <2>3. \/ phase' = "idle" /\ b' = 0 /\ asked' = 0
        \/ b \in chain /\ phase' = "walk" /\ b' = Behind(b) /\ asked' = asked
        \/ /\ b \in chain /\ Fits(b, asked) /\ b' = b /\ asked' = asked
           /\ phase' = IF Splits(b, asked) THEN "size" ELSE "take"
    BY <1>5, <2>1, HeapAssumption DEF Walk, Return
  <2>4. Behind(b) \in chain \union {HeapSize} \/ b \notin chain
    BY <1>1 DEF Tiles
  <2> HIDE DEF Behind
  <2>5. TypeOK'
    <3>1. \A c \in chain \union {HeapSize} : c \in 0 .. HeapSize
      BY <2>2, HeapAssumption DEF Addrs
    <3>2. b' \in 0 .. HeapSize
      BY <2>1, <2>3, <2>4, <3>1, HeapAssumption
    <3>3. phase' \in {"idle", "walk", "size", "take"} /\ asked' \in Sizes \union {0}
      BY <2>1, <2>3
    <3>4. phase' \in {"idle", "walk", "size", "used", "shrink", "take", "merge"}
      BY <3>3
    <3> QED
      BY <1>1, <1>2, <3>2, <3>3, <3>4 DEF TypeOK
  <2>6. CallSane'
    BY <1>2, <2>1, <2>3, <2>4 DEF CallSane, Fits, Splits
  <2>7. MergedSoFar'
    <3>1. phase' # "merge" /\ \A a \in chain : Apart(a)
      BY <1>1, <2>1, <2>3 DEF MergedSoFar
    <3>2. \A a \in chain : Apart(a)'
      BY <1>2, <3>1 DEF Apart, Behind
    <3> QED
      BY <1>2, <3>1, <3>2 DEF MergedSoFar
  <2> QED
    BY <1>3, <2>5, <2>6, <2>7 DEF HeapInv
<1> QED
  BY <1>4, <1>5

\* The first two stores of a split write where no block is yet.
LEMMA SplitStoresKeep ==
    ASSUME HeapInv, ~raced, SplitSize \/ SplitUsed
    PROVE  HeapInv'
<1>1. TypeOK /\ Tiles /\ Held /\ CallSane /\ MergedSoFar
  BY DEF HeapInv
<1>2. b \in chain /\ asked \in Sizes /\ Splits(b, asked) /\ ~used[b] /\ block_size[b] >= asked
      /\ phase \in {"size", "used"}
  BY <1>1 DEF SplitSize, SplitUsed, CallSane
<1>3. PICK r \in Addrs : /\ r = Rest /\ r \notin chain /\ RestSize \in 0 .. HeapSize /\ r # b
  <2>1. RestSize = block_size[b] - asked - Hdr
    BY DEF RestSize
  <2>2. block_size[b] - asked - Hdr \in 0 .. HeapSize
    BY <1>1, <1>2, RemainderIs
  <2> QED
    BY <1>1, <1>2, <2>1, <2>2, RemainderIs DEF Rest
<1>4. /\ UNCHANGED <<chain, live, b, asked, raced>>
      /\ \A c \in chain : block_size'[c] = block_size[c] /\ used'[c] = used[c]
      /\ block_size' \in [Addrs -> 0 .. HeapSize] /\ used' \in [Addrs -> BOOLEAN]
      /\ phase' \in {"used", "shrink"}
      /\ block_size'[r] = RestSize
      /\ phase' = "shrink" => ~used'[r]
  <2>1. CASE SplitSize
    BY <1>1, <1>3, <2>1 DEF SplitSize, TypeOK
  <2>2. CASE SplitUsed
    BY <1>1, <1>3, <2>2 DEF SplitUsed, TypeOK, CallSane
  <2> QED
    BY <2>1, <2>2 DEF SplitSize, SplitUsed
<1>5. TypeOK'
  BY <1>1, <1>4 DEF TypeOK
<1>6. \A c \in chain : Behind(c)' = Behind(c)
  BY <1>4 DEF Behind
<1>7. Tiles'
  <2> HIDE DEF Behind
  <2> QED
    BY <1>1, <1>4, <1>6 DEF Tiles
<1>8. Held'
  BY <1>1, <1>4 DEF Held
<1>9. CallSane'
  <2>1. Rest' = r /\ RestSize' = RestSize
    BY <1>2, <1>3, <1>4 DEF Rest, RestSize
  <2> HIDE DEF Rest, RestSize
  <2> QED
    BY <1>2, <1>4, <2>1 DEF CallSane, Splits
<1>10. MergedSoFar'
  <2>1. \A a \in chain : Apart(a)
    BY <1>1, <1>2 DEF MergedSoFar
  <2>2. \A a \in chain : Apart(a)'
    <3> HIDE DEF Behind
    <3> QED
      BY <1>4, <1>6, <2>1 DEF Apart
  <2> QED
    BY <1>4, <2>2 DEF MergedSoFar
<1> QED
  BY <1>5, <1>7, <1>8, <1>9, <1>10 DEF HeapInv

\* The third store makes the remainder a block.
LEMMA SplitShrinkKeeps ==
    ASSUME HeapInv, ~raced, SplitShrink
    PROVE  HeapInv'
<1>1. TypeOK /\ Tiles /\ Held /\ CallSane /\ MergedSoFar
  BY DEF HeapInv
<1>2. /\ phase = "shrink" /\ phase' = "take" /\ block_size' = [block_size EXCEPT ![b] = asked]
      /\ chain' = chain \union {Rest} /\ UNCHANGED <<used, live, b, asked, raced>>
  BY DEF SplitShrink
<1>3. /\ b \in chain /\ asked \in Sizes /\ Splits(b, asked) /\ ~used[b] /\ block_size[b] >= asked
      /\ block_size[Rest] = RestSize /\ ~used[Rest]
  BY <1>1, <1>2 DEF CallSane
<1>4. PICK r \in Addrs : /\ r = Rest /\ r = b + Hdr + asked /\ r \notin chain /\ r # b
                         /\ asked \in 0 .. HeapSize /\ r # Behind(b)
  BY <1>1, <1>3, RemainderIs DEF Rest
<1>5. chain \subseteq Addrs /\ block_size \in [Addrs -> 0 .. HeapSize] /\ b \in Addrs
  BY <1>1, <1>3 DEF TypeOK
<1>6. /\ block_size'[b] = asked /\ block_size'[r] = block_size[b] - asked - Hdr
      /\ \A c \in chain \ {b} : block_size'[c] = block_size[c]
      /\ block_size' \in [Addrs -> 0 .. HeapSize]
  BY <1>2, <1>3, <1>4, <1>5 DEF RestSize
<1>7. /\ Tiles' /\ Behind(b)' = r /\ Behind(r)' = Behind(b)
      /\ \A c \in chain \ {b} : Behind(c)' = Behind(c)
  <2>1. chain' = chain \union {r}
    BY <1>2, <1>4
  <2> QED
    <3>1. PICK a \in chain : a = b
      BY <1>3
    <3>2. PICK n \in Sizes : n = asked
      BY <1>3
    <3>3. /\ Splits(a, n) /\ r = a + Hdr + n
          /\ block_size'[a] = n /\ block_size'[r] = block_size[a] - n - Hdr
          /\ \A c \in chain \ {a} : block_size'[c] = block_size[c]
      BY <1>3, <1>4, <1>6, <3>1, <3>2
    <3>4. /\ Tiles' /\ Behind(a)' = r /\ Behind(r)' = Behind(a)
          /\ \A c \in chain \ {a} : Behind(c)' = Behind(c)
      BY <1>1, <2>1, <3>3, SplitTiles
    <3>5. b' = a
      BY <1>2, <3>1
    <3> QED
      BY <3>1, <3>4, <3>5 DEF Behind
<1>8. TypeOK'
  BY <1>1, <1>2, <1>4, <1>6 DEF TypeOK
<1>9. Held'
  BY <1>1, <1>2, <1>3, <1>4, <1>6 DEF Held
<1>10. CallSane'
  <2>1. block_size'[b] >= asked
    BY <1>3, <1>6, HeapAssumption
  <2> QED
    BY <1>2, <1>3, <2>1 DEF CallSane
<1>11. MergedSoFar'
  <2>1. \A a \in chain : ~used[a] /\ Behind(a) \in chain => used[Behind(a)]
    BY <1>1, <1>2 DEF MergedSoFar, Apart
  <2>2. r # HeapSize /\ HeapSize \notin chain
    BY <1>5, HeapAssumption DEF Addrs
  <2>3. \A a \in chain : Behind(a) \in chain \union {HeapSize}
    BY <1>1 DEF Tiles
  <2> HIDE DEF Behind
  <2>4. ASSUME NEW a \in chain', a # b, ~used[a], Behind(a)' \in chain'
        PROVE  used[Behind(a)']
    <3>1. CASE a = r
      BY <1>2, <1>3, <1>4, <1>7, <2>1, <2>2, <2>3, <2>4, <3>1
    <3>2. CASE a \in chain \ {b}
      BY <1>2, <1>4, <1>7, <2>1, <2>2, <2>3, <2>4, <3>2
    <3> QED
      BY <1>2, <1>4, <2>4, <3>1, <3>2
  <2> QED
    BY <1>2, <2>4 DEF MergedSoFar, Apart
<1> QED
  BY <1>7, <1>8, <1>9, <1>10, <1>11 DEF HeapInv

\* The block is taken; only now does the caller own it.
LEMMA TakeKeeps ==
    ASSUME HeapInv, ~raced, Take
    PROVE  HeapInv'
<1>1. TypeOK /\ Tiles /\ Held /\ CallSane /\ MergedSoFar
  BY DEF HeapInv
<1>2. /\ phase = "take" /\ phase' = "idle" /\ b' = 0 /\ asked' = 0
      /\ used' = [used EXCEPT ![b] = TRUE] /\ live' = live \union {<<b, asked>>}
      /\ UNCHANGED <<block_size, chain, raced>>
  BY DEF Take, Return
<1>3. /\ b \in chain /\ asked \in Sizes /\ ~used[b] /\ block_size[b] >= asked
      /\ chain \subseteq Addrs /\ used \in [Addrs -> BOOLEAN] /\ b \in Addrs
  BY <1>1, <1>2 DEF CallSane, TypeOK
<1>4. \A c \in chain : used'[c] = (used[c] \/ c = b)
  BY <1>2, <1>3
<1>5. TypeOK'
  BY <1>1, <1>2, <1>3, HeapAssumption DEF TypeOK
<1>6. Tiles'
  BY <1>1, <1>2 DEF Tiles, Behind
<1>7. Held'
  BY <1>1, <1>2, <1>3, <1>4, TakenHeld
<1>8. MergedSoFar'
  <2>1. ASSUME NEW a \in chain
        PROVE  Apart(a)'
    BY <1>1, <1>2, <1>4 DEF MergedSoFar, Apart, Behind
  <2> QED
    BY <1>2, <2>1 DEF MergedSoFar
<1>9. CallSane'
  BY <1>2 DEF CallSane
<1> QED
  BY <1>5, <1>6, <1>7, <1>8, <1>9 DEF HeapInv

\* A kfree that can be preempted marks the block and begins its walk.
LEMMA FreeKeeps ==
    ASSUME HeapInv, ~raced, NEW f \in Addrs, Free(f)
    PROVE  HeapInv'
<1>1. TypeOK /\ Tiles /\ Held /\ CallSane /\ MergedSoFar
  BY DEF HeapInv
<1>2. /\ phase = "idle" /\ phase' = "merge" /\ b' = 0 /\ used' = [used EXCEPT ![f] = FALSE]
      /\ live' = {l \in live : l[1] # f} /\ UNCHANGED <<block_size, chain, asked, raced>>
  BY DEF Free, Released
<1>3. PICK n \in Sizes : <<f, n>> \in live
  BY DEF Free
<1>4. f \in chain /\ chain \subseteq Addrs /\ used \in [Addrs -> BOOLEAN]
  BY <1>1, <1>3 DEF Held, TypeOK
<1>5. \A c \in chain : used'[c] = (used[c] /\ c # f)
  BY <1>2, <1>4
<1>6. TypeOK'
  BY <1>1, <1>2, <1>4, HeapAssumption DEF TypeOK
<1>7. Tiles'
  BY <1>1, <1>2 DEF Tiles, Behind
<1>8. Held'
  BY <1>1, <1>2, <1>5 DEF Held
<1>9. CallSane'
  BY <1>1, <1>2 DEF CallSane, Tiles
<1>10. MergedSoFar'
  <2>1. \A a \in chain : ~(a < 0)
    BY <1>1, BehindIs
  <2> QED
    BY <1>2, <2>1 DEF MergedSoFar
<1> QED
  BY <1>6, <1>7, <1>8, <1>9, <1>10 DEF HeapInv

\* A free block takes in the free block behind it.
LEMMA MergeKeeps ==
    ASSUME HeapInv, ~raced, Merge
    PROVE  HeapInv'
<1>1. TypeOK /\ Tiles /\ Held /\ CallSane /\ MergedSoFar
  BY DEF HeapInv
<1>2. /\ phase = "merge" /\ UNCHANGED <<used, live, raced>> /\ b \in chain \union {HeapSize}
      /\ \A a \in chain : a < b => Apart(a)
  BY <1>1 DEF Merge, CallSane, MergedSoFar
<1>3. chain \subseteq Addrs /\ block_size \in [Addrs -> 0 .. HeapSize]
      /\ \A c \in chain : c < HeapSize /\ c \in Nat /\ Behind(c) \in Nat /\ Behind(c) > c
  BY <1>1, BehindIs DEF TypeOK
<1>4. \A c \in chain \union {HeapSize} : c \in 0 .. HeapSize
  BY <1>3, HeapAssumption
<1>5. CASE b >= HeapSize
  <2>1. phase' = "idle" /\ b' = 0 /\ asked' = 0 /\ UNCHANGED <<block_size, chain>>
    <3>1. ~(b < HeapSize)
      BY <1>2, <1>4, <1>5, HeapAssumption
    <3> QED
      BY <1>5, <3>1 DEF Merge, Return
  <2>2. b = HeapSize
    BY <1>2, <1>3, <1>5, HeapAssumption
  <2>3. \A a \in chain : Apart(a)
    BY <1>2, <1>3, <2>2
  <2>4. TypeOK'
    BY <1>1, <1>2, <2>1, HeapAssumption DEF TypeOK
  <2>5. Tiles' /\ Held'
    BY <1>1, <1>2, <2>1 DEF Tiles, Held, Behind
  <2>6. CallSane'
    BY <2>1 DEF CallSane
  <2>7. MergedSoFar'
    BY <1>2, <2>1, <2>3 DEF MergedSoFar, Apart, Behind
  <2> QED
    BY <2>4, <2>5, <2>6, <2>7 DEF HeapInv
<1>6. CASE b < HeapSize /\ ~Merges(b)
  <2>1. phase' = "merge" /\ b' = Behind(b) /\ UNCHANGED <<asked, block_size, chain>>
    <3>1. ~(b >= HeapSize)
      BY <1>2, <1>4, <1>6, HeapAssumption
    <3> QED
      BY <1>2, <1>6, <3>1 DEF Merge
  <2>2. b \in chain
    BY <1>2, <1>6, HeapAssumption
  <2>3. Behind(b) \in chain \union {HeapSize}
    BY <1>1, <2>2 DEF Tiles
  <2>4. TypeOK'
    <3>1. b' \in 0 .. HeapSize
      BY <1>4, <2>1, <2>3
    <3> QED
      BY <1>1, <1>2, <2>1, <3>1 DEF TypeOK
  <2>5. Tiles' /\ Held'
    BY <1>1, <1>2, <2>1 DEF Tiles, Held, Behind
  <2>6. CallSane'
    <3> HIDE DEF Behind
    <3> QED
      BY <2>1, <2>3 DEF CallSane
  <2>7. ASSUME NEW a \in chain, a < Behind(b)
        PROVE  Apart(a)
    <3>1. ~(b < a)
      <4>1. ASSUME b < a
            PROVE  FALSE
        <5>1. Behind(b) <= a
          BY <1>1, <2>2, <4>1 DEF Tiles
        <5>2. a \in Nat /\ Behind(b) \in Nat
          BY <1>3, <2>2
        <5> HIDE DEF Behind
        <5> QED
          BY <2>7, <5>1, <5>2
      <4> QED
        BY <4>1
    <3>2. CASE a < b
      BY <1>2, <3>2
    <3>3. CASE a = b
      <4>1. Behind(b) \in chain => Behind(b) < HeapSize
        BY <1>3
      <4> HIDE DEF Behind
      <4> QED
        BY <1>6, <3>3, <4>1 DEF Apart, Merges
    <3>4. a \in Nat /\ b \in Nat
      BY <1>3, <2>2
    <3> QED
      BY <3>1, <3>2, <3>3, <3>4
  <2>8. MergedSoFar'
    <3>1. \A a \in chain : Apart(a)' = Apart(a)
      BY <1>2, <2>1 DEF Apart, Behind
    <3> HIDE DEF Behind, Apart
    <3> QED
      BY <2>1, <2>7, <3>1 DEF MergedSoFar
  <2> QED
    BY <2>4, <2>5, <2>6, <2>8 DEF HeapInv
<1>7. CASE b < HeapSize /\ Merges(b)
  <2>1. b \in chain /\ b \in Addrs /\ b \in Nat
    BY <1>2, <1>3, <1>7, HeapAssumption
  <2>2. PICK d \in chain : d = Behind(b) /\ ~used[b] /\ ~used[d] /\ d > b /\ d \in Nat
    BY <1>1, <1>3, <1>7, <2>1, HeapAssumption DEF Merges, Tiles
  <2>3. /\ block_size' = [block_size EXCEPT ![b] = @ + Hdr + block_size[d]]
        /\ chain' = chain \ {d} /\ UNCHANGED <<phase, b, asked>>
    BY <1>2, <1>7, <2>2, HeapAssumption DEF Merge, call
  <2>4. /\ block_size[b] \in Nat /\ block_size[d] \in Nat /\ Behind(b) = b + Hdr + block_size[b]
        /\ Behind(d) = d + Hdr + block_size[d] /\ Behind(d) \in Nat /\ Behind(d) <= HeapSize
        /\ Behind(d) \in chain \union {HeapSize} /\ Behind(d) > d
    <3>1. Behind(d) \in chain \union {HeapSize}
      BY <1>1 DEF Tiles
    <3>2. Behind(d) <= HeapSize
      BY <1>4, <3>1
    <3> QED
      BY <1>1, <2>1, <3>1, <3>2, BehindIs
  <2>5. block_size[b] + Hdr + block_size[d] \in 0 .. HeapSize
    BY <2>1, <2>2, <2>4, HeapAssumption
  <2>6. block_size'[b] = block_size[b] + Hdr + block_size[d]
        /\ \A c \in chain \ {b} : block_size'[c] = block_size[c]
    BY <1>3, <2>1, <2>3
  <2>7. TypeOK'
    <3>1. block_size' \in [Addrs -> 0 .. HeapSize]
      BY <1>3, <2>1, <2>3, <2>5
    <3> QED
      BY <1>1, <1>2, <2>3, <3>1 DEF TypeOK
  <2>8. Behind(b)' = Behind(d)
    <3>1. Behind(b)' = b + Hdr + (block_size[b] + Hdr + block_size[d])
      BY <2>3, <2>6 DEF Behind
    <3>2. b + Hdr + (block_size[b] + Hdr + block_size[d]) = (b + Hdr + block_size[b]) + Hdr + block_size[d]
      BY <2>1, <2>4, HeapAssumption
    <3> QED
      BY <2>2, <2>4, <3>1, <3>2
  <2>9. \A c \in chain \ {b} : Behind(c)' = Behind(c)
    BY <2>6 DEF Behind
  <2>10. \A c \in chain : Behind(c) = d => c = b
    BY <1>1, <2>1, <2>2, BehindDiffers
  <2> HIDE DEF Behind
  <2>11. \A a, c \in chain : a < c => Behind(a) <= c
    BY <1>1 DEF Tiles
  <2>12. Tiles'
    <3>1. 0 \in chain'
      BY <1>1, <2>1, <2>2, <2>3 DEF Tiles
    <3>2. ASSUME NEW c \in chain'
          PROVE  Behind(c)' \in chain' \union {HeapSize}
      <4>1. Behind(c) \in chain \union {HeapSize}
        BY <1>1, <2>3 DEF Tiles
      <4>2. Behind(d) # d
        BY <2>2, <2>4
      <4> QED
        BY <2>3, <2>4, <2>8, <2>9, <2>10, <4>1, <4>2
    <3>3. ASSUME NEW a \in chain', NEW c \in chain', a < c
          PROVE  Behind(a)' <= c
      <4>1. a \in chain /\ c \in chain /\ c # d /\ c \in Nat /\ Behind(a) \in Nat
        BY <1>3, <2>3
      <4>2. CASE a = b
        <5>1. d <= c
          BY <2>2, <2>11, <3>3, <4>1, <4>2
        <5>2. d < c
          BY <2>2, <4>1, <5>1
        <5> QED
          <6>1. Behind(a)' = Behind(d)
            BY <2>3, <2>8, <4>2 DEF Behind
          <6>2. Behind(d) <= c
            BY <2>2, <2>11, <4>1, <5>2
          <6> QED
            BY <6>1, <6>2
      <4>3. CASE a # b
        BY <2>9, <2>11, <3>3, <4>1, <4>3
      <4> QED
        BY <4>2, <4>3
    <3> QED
      BY <3>1, <3>2, <3>3 DEF Tiles
  <2>13. Held'
    BY <1>1, <1>2, <2>2, <2>3, <2>6 DEF Held
  <2>14. CallSane'
    BY <1>2, <2>1, <2>2, <2>3 DEF CallSane
  <2>15. MergedSoFar'
    <3>1. ASSUME NEW a \in chain', a < b
          PROVE  Apart(a)'
      <4>1. a \in chain /\ a # b /\ Behind(a)' = Behind(a)
        BY <1>3, <2>1, <2>3, <2>9, <3>1
      <4> QED
        BY <1>2, <2>3, <3>1, <4>1 DEF Apart
    <3> QED
      BY <1>2, <2>3, <3>1 DEF MergedSoFar
  <2> QED
    BY <2>7, <2>12, <2>13, <2>14, <2>15 DEF HeapInv
<1>8. b \in Nat
  BY <1>4, <1>2
<1> QED
  BY <1>5, <1>6, <1>7, <1>8, HeapAssumption

\* Until two preemptible calls have met, every step keeps the invariant.
LEMMA HeapStep == HeapInv /\ [~raced /\ Next]_vars => HeapInv'
<1> SUFFICES ASSUME HeapInv, [~raced /\ Next]_vars
             PROVE  HeapInv'
  OBVIOUS
<1>1. CASE UNCHANGED vars
  BY <1>1 DEF vars, headers, call, HeapInv, TypeOK, Tiles, Held, CallSane, MergedSoFar, Apart,
     Behind, Rest, RestSize, Splits
<1>2. CASE ~raced /\ Next
  <2>1. ASSUME NEW n \in Sizes, Malloc(n)
        PROVE  HeapInv'
    BY <1>2, <2>1, WalkKeeps
  <2>2. ASSUME NEW n \in Sizes, MaskedMalloc(n)
        PROVE  HeapInv'
    BY <1>2, <2>2, MaskedMallocKeeps
  <2>3. ASSUME NEW f \in Addrs, Free(f) \/ MaskedFree(f)
        PROVE  HeapInv'
    BY <1>2, <2>3, FreeKeeps, MaskedFreeKeeps
  <2>4. CASE Walk
    BY <1>2, <2>4, WalkKeeps
  <2>5. CASE SplitSize \/ SplitUsed
    BY <1>2, <2>5, SplitStoresKeep
  <2>6. CASE SplitShrink
    BY <1>2, <2>6, SplitShrinkKeeps
  <2>7. CASE Take
    BY <1>2, <2>7, TakeKeeps
  <2>8. CASE Merge
    BY <1>2, <2>8, MergeKeeps
  <2> QED
    BY <1>2, <2>1, <2>2, <2>3, <2>4, <2>5, <2>6, <2>7, <2>8 DEF Next
<1> QED
  BY <1>1, <1>2

\* kheap_init: one free block that fills the heap.
LEMMA HeapStart == Init => HeapInv
<1> SUFFICES ASSUME Init
             PROVE  HeapInv
  OBVIOUS
<1>1. /\ 0 \in Addrs /\ chain = {0} /\ block_size[0] = HeapSize - Hdr /\ ~used[0]
      /\ phase = "idle" /\ live = {} /\ HeapSize - Hdr \in 0 .. HeapSize
  BY HeapAssumption DEF Init, Addrs
<1>2. TypeOK
  <2>1. block_size \in [Addrs -> 0 .. HeapSize] /\ used \in [Addrs -> BOOLEAN]
    <3>1. 0 \in 0 .. HeapSize
      BY HeapAssumption
    <3> QED
      BY <1>1, <3>1 DEF Init
  <2>2. b \in 0 .. HeapSize /\ asked \in Sizes \union {0} /\ raced \in BOOLEAN
    <3>1. b = 0 /\ asked = 0 /\ raced \in BOOLEAN
      BY DEF Init
    <3>2. 0 \in 0 .. HeapSize
      BY HeapAssumption
    <3> QED
      BY <3>1, <3>2
  <2>3. chain \subseteq Addrs /\ live \subseteq Addrs \X Sizes
    BY <1>1
  <2> QED
    BY <1>1, <2>1, <2>2, <2>3 DEF TypeOK
<1>3. Behind(0) = HeapSize
  <2>1. 0 + Hdr + (HeapSize - Hdr) = HeapSize
    BY HeapAssumption
  <2> QED
    BY <1>1, <2>1 DEF Behind
<1>4. HeapSize \notin chain
  BY <1>1, HeapAssumption
<1> HIDE DEF Behind
<1>5. Tiles
  BY <1>1, <1>3 DEF Tiles
<1>6. Held /\ CallSane
  BY <1>1 DEF Held, CallSane
<1>7. MergedSoFar
  BY <1>1, <1>3, <1>4 DEF MergedSoFar, Apart
<1> QED
  BY <1>2, <1>5, <1>6, <1>7 DEF HeapInv

\* HeapInv holds as long as the calls take turns.
LEMMA HeapKept == Spec => []HeapInv
  BY HeapStart, HeapStep, PTL DEF Spec

\* At every instant the blocks tile the heap, also between two stores of kmalloc or kfree, and
\* between calls no two free blocks are neighbours, whatever sizes are asked for and whatever is
\* freed in whatever order.
THEOREM HeapStaysSound == Spec => []HeapSound
<1>1. HeapInv => HeapSound
  BY DEF HeapInv, HeapSound, Tiled, Coalesced, Tiles, MergedSoFar, Apart
<1> QED
  BY <1>1, HeapKept, PTL

\* A block kmalloc returned stays a used block that is large enough, and its caller's alone, until
\* it is freed; and nothing else is used.
THEOREM LiveBlocksKept == Spec => []LiveKept
<1>1. HeapInv => LiveKept
  BY DEF HeapInv, LiveKept, Held
<1> QED
  BY <1>1, HeapKept, PTL

-----------------------------------------------------------------------------
(* The user heap: the inductive invariant *)

SpacesTyped ==
    /\ procUsed \subseteq Slots
    /\ heapNext \in [Slots -> 0 .. HeapPages] /\ heapPte \in [Slots -> SUBSET Pages]
    /\ heapPde \in [Slots -> BOOLEAN] /\ mine \in [Slots -> SUBSET Pages]

\* What the next process of a slot starts from.
FreshSpaces ==
    \A s \in Slots : /\ s \notin procUsed => heapNext[s] = 0 /\ mine[s] = {}
                     /\ ~heapPde[s] => heapNext[s] = 0

\* Entries above the bump pointer may be an earlier process's; below it they are the process's own.
OwnPages ==
    \A s \in procUsed : \A p \in Pages : p \in mine[s] <=> p < heapNext[s] /\ p \in heapPte[s]

LedgerTrue ==
    mmapped = ledger /\ IsFiniteSet(ledger) /\ Cardinality(ledger) <= LedgerSize

UserInv == SpacesTyped /\ FreshSpaces /\ OwnPages /\ LedgerTrue

\* No process has a space yet.
LEMMA UserStart == UserHeapInit => UserInv
<1> SUFFICES ASSUME UserHeapInit
             PROVE  UserInv
  OBVIOUS
<1>1. 0 \in 0 .. HeapPages
  BY UserHeapAssumption
<1>2. SpacesTyped /\ FreshSpaces
  BY <1>1 DEF UserHeapInit, SpacesTyped, FreshSpaces
<1>3. OwnPages
  BY DEF UserHeapInit, OwnPages
<1>4. LedgerTrue
  BY FS_EmptySet, UserHeapAssumption DEF UserHeapInit, LedgerTrue
<1> QED
  BY <1>2, <1>3, <1>4 DEF UserInv

\* vmm_create_space: the slot is taken, its heap empty.
LEMMA CreateKeeps ==
    ASSUME UserInv, NEW elf \in BOOLEAN, CreateSpace(elf)
    PROVE  UserInv'
<1>1. SpacesTyped /\ FreshSpaces /\ OwnPages /\ LedgerTrue
  BY DEF UserInv
<1>2. PICK s \in Slots \ procUsed :
         /\ procUsed' = procUsed \union {s} /\ heapPde' = [heapPde EXCEPT ![s] = FALSE]
         /\ heapNext' = IF elf THEN [heapNext EXCEPT ![s] = 0] ELSE heapNext
         /\ UNCHANGED <<heapPte, mine, kernelBlocks>>
  BY DEF CreateSpace
<1>3. heapNext[s] = 0 /\ mine[s] = {} /\ heapNext' = heapNext
  <2>1. heapNext[s] = 0 /\ mine[s] = {}
    BY <1>1 DEF FreshSpaces
  <2>2. [heapNext EXCEPT ![s] = 0] = heapNext
    BY <1>1, <2>1 DEF SpacesTyped
  <2> QED
    BY <1>2, <2>1, <2>2
<1>4. SpacesTyped'
  BY <1>1, <1>2, <1>3 DEF SpacesTyped
<1>5. FreshSpaces'
  BY <1>1, <1>2, <1>3 DEF FreshSpaces, SpacesTyped
<1>6. OwnPages'
  <2>1. \A p \in Pages : ~(p < heapNext[s])
    BY <1>3 DEF Pages
  <2> QED
    BY <1>1, <1>2, <1>3, <2>1 DEF OwnPages
<1>7. LedgerTrue'
  BY <1>1, <1>2 DEF LedgerTrue, kernelBlocks
<1> QED
  BY <1>4, <1>5, <1>6, <1>7 DEF UserInv

\* The space is released with the pages it holds.
LEMMA ReleaseKeeps ==
    ASSUME UserInv, NEW s \in Slots, ReleaseSpace(s)
    PROVE  UserInv'
<1>1. SpacesTyped /\ FreshSpaces /\ OwnPages /\ LedgerTrue
  BY DEF UserInv
<1>2. /\ procUsed' = procUsed \ {s} /\ heapNext' = [heapNext EXCEPT ![s] = 0]
      /\ mine' = [mine EXCEPT ![s] = {}] /\ UNCHANGED <<heapPte, heapPde, mmapped, ledger>>
  BY DEF ReleaseSpace, NextAfterRelease, kernelBlocks
<1>3. 0 \in 0 .. HeapPages
  BY UserHeapAssumption
<1>4. SpacesTyped'
  BY <1>1, <1>2, <1>3 DEF SpacesTyped
<1>5. FreshSpaces'
  BY <1>1, <1>2 DEF FreshSpaces, SpacesTyped
<1>6. OwnPages'
  BY <1>1, <1>2 DEF OwnPages, SpacesTyped
<1>7. LedgerTrue'
  BY <1>1, <1>2 DEF LedgerTrue
<1> QED
  BY <1>4, <1>5, <1>6, <1>7 DEF UserInv

\* sys_mmap in an isolated process: the pages behind heap_next.
LEMMA MmapPagesKeeps ==
    ASSUME UserInv, NEW n \in Requests, NEW s \in Slots, MmapPages(s, n)
    PROVE  UserInv'
<1>1. SpacesTyped /\ FreshSpaces /\ OwnPages /\ LedgerTrue
  BY DEF UserInv
<1>2. PICK h \in 0 .. HeapPages : h = heapNext[s]
  BY <1>1 DEF SpacesTyped
<1>3. n \in Nat \ {0} /\ h \in Nat /\ HeapPages \in Nat /\ h + n <= HeapPages
  BY <1>2, UserHeapAssumption DEF MmapPages, FitsHeap
<1>4. PICK q \in 0 .. HeapPages : q = h + n
  BY <1>3
<1>5. PICK fresh \in SUBSET Pages : /\ fresh = Fresh(s, n)
                                    /\ \A p \in Pages : p \in fresh <=> h <= p /\ p < q
  <2>1. Fresh(s, n) = h .. (q - 1)
    BY <1>2, <1>3, <1>4 DEF Fresh
  <2>2. h .. (q - 1) \subseteq Pages
    BY <1>3, <1>4 DEF Pages
  <2>3. \A p \in Pages : p \in h .. (q - 1) <=> h <= p /\ p < q
    BY <1>3, <1>4 DEF Pages
  <2> QED
    BY <2>1, <2>2, <2>3
<1>6. /\ s \in procUsed /\ heapPte' = [heapPte EXCEPT ![s] = @ \union fresh]
      /\ heapNext' = [heapNext EXCEPT ![s] = q] /\ heapPde' = [heapPde EXCEPT ![s] = TRUE]
      /\ mine' = [mine EXCEPT ![s] = @ \union fresh] /\ UNCHANGED <<procUsed, mmapped, ledger>>
  BY <1>2, <1>4, <1>5 DEF MmapPages, kernelBlocks
<1>7. SpacesTyped'
  BY <1>1, <1>4, <1>5, <1>6 DEF SpacesTyped
<1>8. FreshSpaces'
  BY <1>1, <1>6 DEF FreshSpaces, SpacesTyped
<1>9. OwnPages'
  <2> SUFFICES ASSUME NEW t \in procUsed, NEW p \in Pages
               PROVE  p \in mine'[t] <=> p < heapNext'[t] /\ p \in heapPte'[t]
    BY <1>6 DEF OwnPages
  <2>1. p \in mine[t] <=> p < heapNext[t] /\ p \in heapPte[t]
    BY <1>1 DEF OwnPages
  <2>2. CASE t # s
    BY <1>1, <1>6, <2>1, <2>2 DEF SpacesTyped
  <2>3. CASE t = s
    <3>1. p \in Nat /\ q \in Nat /\ h < q
      BY <1>3, <1>4 DEF Pages
    <3>2. heapNext'[t] = q /\ mine'[t] = mine[t] \union fresh /\ heapPte'[t] = heapPte[t] \union fresh
      BY <1>1, <1>6, <2>3 DEF SpacesTyped
    <3>3. p \in mine[t] <=> p < h /\ p \in heapPte[t]
      BY <1>2, <2>1, <2>3
    <3> QED
      BY <1>3, <1>5, <3>1, <3>2, <3>3
  <2> QED
    BY <2>2, <2>3
<1>10. LedgerTrue'
  BY <1>1, <1>6 DEF LedgerTrue
<1> QED
  BY <1>7, <1>8, <1>9, <1>10 DEF UserInv

\* sys_munmap in an isolated process clears one page table entry.
LEMMA MunmapPageKeeps ==
    ASSUME UserInv, NEW s \in Slots, NEW q \in Pages, MunmapPage(s, q)
    PROVE  UserInv'
<1>1. SpacesTyped /\ FreshSpaces /\ OwnPages /\ LedgerTrue
  BY DEF UserInv
<1>2. /\ s \in procUsed /\ heapPte' = [heapPte EXCEPT ![s] = @ \ {q}]
      /\ mine' = [mine EXCEPT ![s] = @ \ {q}]
      /\ UNCHANGED <<procUsed, heapNext, heapPde, mmapped, ledger>>
  BY DEF MunmapPage, kernelBlocks
<1>3. SpacesTyped'
  BY <1>1, <1>2 DEF SpacesTyped
<1>4. FreshSpaces'
  BY <1>1, <1>2 DEF FreshSpaces, SpacesTyped
<1>5. OwnPages'
  BY <1>1, <1>2 DEF OwnPages, SpacesTyped
<1>6. LedgerTrue'
  BY <1>1, <1>2 DEF LedgerTrue
<1> QED
  BY <1>3, <1>4, <1>5, <1>6 DEF UserInv

\* A request that falls through to the kernel heap leaves the spaces alone, and so does its end.
LEMMA BlocksKeep ==
    ASSUME UserInv, NEW k \in Blocks, MmapBlock(k) \/ MunmapBlock(k)
    PROVE  UserInv'
<1>1. SpacesTyped /\ FreshSpaces /\ OwnPages /\ LedgerTrue
  BY DEF UserInv
<1>2. UNCHANGED <<procUsed, heapNext, heapPte, heapPde, mine>>
  BY DEF MmapBlock, MunmapBlock, spaces
<1>3. (SpacesTyped /\ FreshSpaces /\ OwnPages)'
  BY <1>1, <1>2 DEF SpacesTyped, FreshSpaces, OwnPages
<1>4. PICK size \in Nat : size = Cardinality(ledger) /\ size <= LedgerSize
  BY <1>1, FS_CardinalityType DEF LedgerTrue
<1>5. LedgerTrue'
  <2>1. CASE MmapBlock(k)
    <3>1. CASE size < LedgerSize
      <4>1. ledger' = ledger \union {k} /\ mmapped' = mmapped \union {k}
        BY <1>4, <2>1, <3>1 DEF MmapBlock
      <4>2. k \notin ledger
        BY <1>1, <2>1 DEF MmapBlock, LedgerTrue
      <4>3. IsFiniteSet(ledger') /\ Cardinality(ledger') = size + 1
        BY <1>1, <1>4, <4>1, <4>2, FS_AddElement DEF LedgerTrue
      <4>4. size + 1 <= LedgerSize
        BY <1>4, <3>1, UserHeapAssumption
      <4> QED
        BY <1>1, <4>1, <4>3, <4>4 DEF LedgerTrue
    <3>2. CASE ~(size < LedgerSize)
      BY <1>1, <1>4, <2>1, <3>2 DEF MmapBlock, LedgerTrue, kernelBlocks
    <3> QED
      BY <3>1, <3>2
  <2>2. CASE MunmapBlock(k)
    <3>1. ledger' = ledger \ {k} /\ mmapped' = mmapped \ {k} /\ k \in ledger
      BY <2>2 DEF MunmapBlock
    <3>2. IsFiniteSet(ledger') /\ Cardinality(ledger') = size - 1
      BY <1>1, <1>4, <3>1, FS_RemoveElement DEF LedgerTrue
    <3>3. size - 1 <= LedgerSize
      BY <1>4, UserHeapAssumption
    <3> QED
      BY <1>1, <3>1, <3>2, <3>3 DEF LedgerTrue
  <2> QED
    BY <2>1, <2>2
<1> QED
  BY <1>3, <1>5 DEF UserInv

\* Every step keeps the invariant.
LEMMA UserStep == UserInv /\ [UserHeapNext]_userHeapVars => UserInv'
<1> SUFFICES ASSUME UserInv, [UserHeapNext]_userHeapVars
             PROVE  UserInv'
  OBVIOUS
<1>1. CASE UNCHANGED userHeapVars
  BY <1>1 DEF userHeapVars, spaces, kernelBlocks, UserInv, SpacesTyped, FreshSpaces, OwnPages, LedgerTrue
<1>2. CASE \E elf \in BOOLEAN : CreateSpace(elf)
  BY <1>2, CreateKeeps
<1>3. CASE \E s \in Slots : ReleaseSpace(s)
  BY <1>3, ReleaseKeeps
<1>4. CASE \E s \in Slots : \E p \in Pages : MunmapPage(s, p)
  BY <1>4, MunmapPageKeeps
<1>5. CASE \E n \in Requests : \E s \in Slots : MmapPages(s, n)
  BY <1>5, MmapPagesKeeps
<1>6. CASE \E k \in Blocks : MmapBlock(k) \/ MunmapBlock(k)
  BY <1>6, BlocksKeep
<1> QED
  BY <1>1, <1>2, <1>3, <1>4, <1>5, <1>6 DEF UserHeapNext, Mmap

\* Below its bump pointer a process can touch the pages it was given and has not unmapped, and no
\* page of the slot's earlier process; every block SYS_MMAP took from the kernel heap is in the
\* ledger SYS_MUNMAP frees from, whatever order of calls the processes make.
THEOREM UserMemoryStaysKept == UserHeapSpec => []UserMemoryKept
<1>1. UserInv => UserMemoryKept
  <2> SUFFICES ASSUME UserInv
               PROVE  UserMemoryKept
    OBVIOUS
  <2>1. SpacesTyped /\ FreshSpaces /\ OwnPages /\ LedgerTrue
    BY DEF UserInv
  <2>2. \A s \in Slots : heapNext[s] \in 0 .. HeapPages /\ heapPte[s] \subseteq Pages
    BY <2>1 DEF SpacesTyped
  <2>3. ASSUME NEW s \in procUsed
        PROVE  /\ mine[s] \subseteq 0 .. (heapNext[s] - 1)
               /\ \A p \in 0 .. (heapNext[s] - 1) : p \in mine[s] <=> p \in Accessible(s)
    <3>1. PICK h \in 0 .. HeapPages : h = heapNext[s]
      BY <2>1 DEF SpacesTyped
    <3>2. \A p : p \in Pages /\ p < h <=> p \in 0 .. (h - 1)
      BY UserHeapAssumption DEF Pages
    <3>3. mine[s] \subseteq Pages
      BY <2>1 DEF SpacesTyped
    <3>4. \A p \in Pages : p \in mine[s] <=> p < h /\ p \in heapPte[s]
      BY <2>1, <3>1 DEF OwnPages
    <3>5. ~heapPde[s] => h = 0
      BY <2>1, <3>1 DEF FreshSpaces, SpacesTyped
    <3>6. h = 0 => 0 .. (h - 1) = {}
      OBVIOUS
    <3>7. mine[s] \subseteq 0 .. (h - 1)
      BY <3>2, <3>3, <3>4
    <3>8. ASSUME NEW p \in 0 .. (h - 1)
          PROVE  p \in mine[s] <=> p \in Accessible(s)
      BY <3>2, <3>4, <3>5, <3>6, <3>8 DEF Accessible
    <3> QED
      BY <3>1, <3>7, <3>8
  <2> QED
    BY <2>1, <2>2, <2>3 DEF UserMemoryKept, LedgerTrue
<1> QED
  BY <1>1, UserStart, UserStep, PTL DEF UserHeapSpec
=============================================================================
