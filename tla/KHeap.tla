------------------------------- MODULE KHeap -------------------------------
(***************************************************************************)
(* The kernel heap of kernel/kernel.c: kmalloc and kfree over one array of *)
(* contiguous blocks, each behind a header with its size and a used flag.  *)
(*                                                                         *)
(* The main thread calls them with interrupts enabled, the reaper in the   *)
(* timer interrupt and SYS_MMAP / SYS_MUNMAP with interrupts masked.  A    *)
(* call of the main thread takes one action per loop iteration or store, a *)
(* masked call takes one.  Sizes and addresses count words of 4 bytes; a   *)
(* block is named by the address of its header.                            *)
(***************************************************************************)
EXTENDS Integers, FiniteSets

CONSTANTS
    HeapSize,   \* in words
    Hdr,        \* KBLOCK_HDR in words
    Sizes,      \* what callers ask for, in words
    MaxLive     \* bound: how many blocks are handed out at a time

ASSUME HeapAssumption ==
    /\ Hdr \in Nat \ {0} /\ HeapSize \in Nat /\ HeapSize > Hdr
    /\ Sizes \subseteq Nat \ {0} /\ MaxLive \in Nat

Addrs == 0 .. (HeapSize - 1)

VARIABLES
    block_size, used, \* the header fields stored at each address
    chain,            \* the blocks a walk from the start of the heap meets
    live,             \* history: the blocks handed out and not freed, with
                      \* the size asked for
    phase, b, asked,  \* a call in progress in the main thread
    raced             \* history: a masked call changed the heap during one

headers == <<block_size, used, chain>>
call    == <<phase, b, asked>>
vars    == <<headers, live, call, raced>>

TypeOK ==
    /\ block_size \in [Addrs -> 0 .. HeapSize] /\ used \in [Addrs -> BOOLEAN]
    /\ chain \subseteq Addrs
    /\ live \subseteq (Addrs \X Sizes)
    /\ phase \in {"idle", "walk", "size", "used", "shrink", "take", "merge"}
    /\ b \in 0 .. HeapSize /\ asked \in Sizes \union {0}
    /\ raced \in BOOLEAN

\* heap_init.
Init ==
    /\ block_size = [a \in Addrs |-> IF a = 0 THEN HeapSize - Hdr ELSE 0]
    /\ used = [a \in Addrs |-> FALSE]
    /\ chain = {0}
    /\ live = {} /\ phase = "idle" /\ b = 0 /\ asked = 0 /\ raced = FALSE

\* The block behind a, or HeapSize when a is the last one.
Behind(a) == a + Hdr + block_size[a]

-----------------------------------------------------------------------------
(* kmalloc *)

Fits(a, n) == ~used[a] /\ block_size[a] >= n

\* "Split only if the remainder fits a header + at least 4 bytes".
Splits(a, n) == block_size[a] >= n + Hdr + 1

Malloc(n) ==
    /\ phase = "idle" /\ Cardinality(live) < MaxLive
    /\ phase' = "walk" /\ b' = 0 /\ asked' = n
    /\ UNCHANGED <<headers, live, raced>>

\* kmalloc returns 0, or kfree is done.
Return == phase' = "idle" /\ b' = 0 /\ asked' = 0

Walk ==
    /\ phase = "walk"
    /\ \/ /\ b >= HeapSize
          /\ Return
       \/ /\ b < HeapSize /\ ~Fits(b, asked)
          /\ b' = Behind(b) /\ UNCHANGED <<phase, asked>>
       \/ /\ b < HeapSize /\ Fits(b, asked)
          /\ phase' = IF Splits(b, asked) THEN "size" ELSE "take"
          /\ UNCHANGED <<b, asked>>
    /\ UNCHANGED <<headers, live, raced>>

Rest == b + Hdr + asked      \* the header of the remainder

\* Mutant of RestSize: the header of the remainder is forgotten.
RestSizeNoHdr == block_size[b] - asked
RestSize == block_size[b] - asked - Hdr

SplitSize ==
    /\ phase = "size"
    /\ block_size' = [block_size EXCEPT ![Rest] = RestSize]
    /\ phase' = "used"
    /\ UNCHANGED <<used, chain, live, b, asked, raced>>

SplitUsed ==
    /\ phase = "used"
    /\ used' = [used EXCEPT ![Rest] = FALSE]
    /\ phase' = "shrink"
    /\ UNCHANGED <<block_size, chain, live, b, asked, raced>>

\* Only this store makes the remainder a block of the chain.
SplitShrink ==
    /\ phase = "shrink"
    /\ block_size' = [block_size EXCEPT ![b] = asked]
    /\ chain' = chain \union {Rest}
    /\ phase' = "take"
    /\ UNCHANGED <<used, live, b, asked, raced>>

Take ==
    /\ phase = "take"
    /\ used' = [used EXCEPT ![b] = TRUE]
    /\ live' = live \union {<<b, asked>>}
    /\ Return
    /\ UNCHANGED <<block_size, chain, raced>>

-----------------------------------------------------------------------------
(* kfree *)

Released(a) == [used EXCEPT ![a] = FALSE]

Free(a) ==
    /\ phase = "idle" /\ \E n \in Sizes : <<a, n>> \in live
    /\ used' = Released(a)
    /\ live' = {l \in live : l[1] # a}
    /\ phase' = "merge" /\ b' = 0
    /\ UNCHANGED <<block_size, chain, asked, raced>>

\* Mutants of Merges: the flag of the block behind is not looked at; the last
\* block is left out.
MergesAny(a) == ~used[a] /\ Behind(a) < HeapSize
MergesButLast(a) == /\ ~used[a] /\ Behind(a) < HeapSize /\ ~used[Behind(a)]
                    /\ Behind(Behind(a)) < HeapSize
Merges(a) == ~used[a] /\ Behind(a) < HeapSize /\ ~used[Behind(a)]

\* "Merge, don't advance".
Merge ==
    /\ phase = "merge"
    /\ \/ /\ b >= HeapSize
          /\ Return
          /\ UNCHANGED <<block_size, chain>>
       \/ /\ b < HeapSize /\ Merges(b)
          /\ block_size' = [block_size EXCEPT ![b] = @ + Hdr + block_size[Behind(b)]]
          /\ chain' = chain \ {Behind(b)}
          /\ UNCHANGED call
       \/ /\ b < HeapSize /\ ~Merges(b)
          /\ b' = Behind(b)
          /\ UNCHANGED <<phase, asked, block_size, chain>>
    /\ UNCHANGED <<used, live, raced>>

-----------------------------------------------------------------------------
(* the same calls with interrupts masked, as one step *)

\* First fit.
MaskedMalloc(n) ==
    /\ Cardinality(live) < MaxLive
    /\ \E a \in chain :
         /\ Fits(a, n) /\ \A c \in chain : Fits(c, n) => a <= c
         /\ used' = [c \in Addrs |-> IF c = a THEN TRUE
                       ELSE IF Splits(a, n) /\ c = a + Hdr + n THEN FALSE
                       ELSE used[c]]
         /\ block_size' = [c \in Addrs |-> IF ~Splits(a, n) THEN block_size[c]
                       ELSE IF c = a THEN n
                       ELSE IF c = a + Hdr + n THEN block_size[a] - n - Hdr
                       ELSE block_size[c]]
         /\ chain' = chain \union (IF Splits(a, n) THEN {a + Hdr + n} ELSE {})
         /\ live' = live \union {<<a, n>>}
    /\ raced' = (raced \/ phase # "idle")
    /\ UNCHANGED call

\* Where the run of free blocks from a ends, once f is free.
RunEnd(a, f) ==
    CHOOSE e \in (chain \union {HeapSize}) :
      /\ e > a
      /\ e = HeapSize \/ (used[e] /\ e # f)
      /\ \A c \in chain : a < c /\ c < e => ~used[c] \/ c = f

\* The blocks with a free block in front of them, once f is free.
Absorbed(f) ==
    {c \in chain : \E a \in chain :
        /\ Behind(a) = c
        /\ ~used[a] \/ a = f
        /\ ~used[c] \/ c = f}

\* The flag is cleared and one pass merges every run of free blocks.
MaskedFree(f) ==
    /\ \E n \in Sizes : <<f, n>> \in live
    /\ used' = Released(f)
    /\ chain' = chain \ Absorbed(f)
    /\ block_size' = [c \in Addrs |->
                  IF c \in chain \ Absorbed(f) /\ (~used[c] \/ c = f)
                  THEN RunEnd(c, f) - c - Hdr ELSE block_size[c]]
    /\ live' = {l \in live : l[1] # f}
    /\ raced' = (raced \/ phase # "idle")
    /\ UNCHANGED call

Next ==
    \/ \E n \in Sizes : Malloc(n) \/ MaskedMalloc(n)
    \/ \E a \in Addrs : Free(a) \/ MaskedFree(a)
    \/ Walk \/ SplitSize \/ SplitUsed \/ SplitShrink \/ Take \/ Merge

\* Once a call was raced the heap may be anything: nothing is said of what
\* follows.
Spec == Init /\ [][~raced /\ Next]_vars

-----------------------------------------------------------------------------
(* Properties.  They are about a heap whose calls did not overlap. *)

\* At every instant, also between two stores of a call, a walk from the start
\* goes from block to block and ends at the end of the heap ("Blocks are
\* contiguous; the next block is found by advancing (header + payload) bytes",
\* kernel.c:84-85): SYS_GET_HEAP walks it in the middle of a call.
Tiled ==
    /\ TypeOK
    /\ ~raced => /\ 0 \in chain
                 /\ \A a \in chain : Behind(a) \in chain \union {HeapSize}
                 /\ \A a, c \in chain : a < c => Behind(a) <= c

\* A block that was handed out stays a used block that is large enough until
\* it is freed, and no other caller has it; nothing else is used, so freed
\* memory is free again.
LiveKept ==
    ~raced => /\ \A l \in live : l[1] \in chain /\ used[l[1]] /\ block_size[l[1]] >= l[2]
              /\ \A l, k \in live : l[1] = k[1] => l = k
              /\ \A a \in chain : used[a] => \E l \in live : l[1] = a

\* Between calls no two free blocks are neighbours, so a request fails only if
\* no free space between two used blocks can hold it.
Coalesced ==
    ~raced /\ phase = "idle" =>
      \A a \in chain : ~used[a] /\ Behind(a) \in chain => used[Behind(a)]

\* The blocks tile the heap at every instant, and free ones are merged.
HeapSound == Tiled /\ Coalesced

=============================================================================
