---------------------------- MODULE GregLibrary -----------------------------
(***************************************************************************)
(* The kernel's C++ library (include/Greg): counted and owning pointers    *)
(* with the vectors that hold them, then the hash map, the ring and the    *)
(* string.                                                                 *)
(***************************************************************************)
EXTENDS Integers, Sequences, SequencesExt, FiniteSets

(***************************************************************************)
(* Who owns what in the C++ part of the kernel: reference-counted objects, *)
(* the RefPtr handles that count them, and the Vector and Optional that    *)
(* construct, move and destroy handles in raw memory.                      *)
(*                                                                         *)
(* A place is memory for one handle: a variable, the storage of an         *)
(* Optional, a cell of a Vector's block.  Growing a Vector moves its cells *)
(* from one block to another, so there are two banks of cells.             *)
(***************************************************************************)
CONSTANTS
    Objs,           \* objects that are ever made
    InitialCapacity,\* Vector::INITIAL_CAPACITY
    MaxCells        \* bound on a Vector's capacity

ASSUME OwnershipAssumption ==
    /\ InitialCapacity \in Nat \ {0} /\ MaxCells \in Nat /\ MaxCells >= InitialCapacity

Handles == {"a", "b"} \X {0}             \* variables of type RefPtr
Opt == <<"opt", 0>>                     \* the storage of the optional
Cells == {"block", "other block"} \X (1 .. MaxCells)
Places == Handles \union {Opt} \union Cells

Nobody == "nullptr"
Raw == "raw"                            \* nothing constructed there

VARIABLES
    mem,                        \* what each place holds
    m_ref_count, life,          \* of each object: unmade, alive or deleted
    m_data, m_capacity, m_size, \* the vector: its block, and how much of it is used
    m_has_value,                \* the optional
    wrong,      \* history: a destructor ran on raw memory, a constructor over an
                \* object, or a handle was used after its object was deleted
    items       \* history: what the vector holds, as a sequence

heapVars == <<mem, m_ref_count, life, wrong>>
ownVars == <<heapVars, m_data, m_capacity, m_size, m_has_value, items>>

OwnInit ==
    /\ mem = [p \in Places |-> IF p \in Handles THEN Nobody ELSE Raw]
    /\ m_ref_count = [o \in Objs |-> 0] /\ life = [o \in Objs |-> "unmade"]
    /\ m_data = "block" /\ m_capacity = 0 /\ m_size = 0 /\ m_has_value = FALSE
    /\ wrong = FALSE /\ items = <<>>

-----------------------------------------------------------------------------
(* What constructors and destructors do to the heap h *)

Heap == [mem |-> mem, m_ref_count |-> m_ref_count, life |-> life, wrong |-> wrong]
Set(h, p, v) == [h EXCEPT !.mem[p] = v]

\* RefCounted::ref, unref.
Ref(h, o) == IF o = Nobody THEN h
             ELSE [h EXCEPT !.m_ref_count[o] = @ + 1, !.wrong = @ \/ h.life[o] # "alive"]
Unref(h, o) ==
    IF o = Nobody THEN h
    ELSE [h EXCEPT !.m_ref_count[o] = @ - 1,
                   !.wrong = @ \/ h.life[o] # "alive" \/ h.m_ref_count[o] = 0,
                   !.life[o] = IF h.m_ref_count[o] = 1 THEN "deleted" ELSE @]

\* RefPtr(const RefPtr&), RefPtr(RefPtr&&) and ~RefPtr() at a place.
Built(h, p) == [h EXCEPT !.wrong = @ \/ h.mem[p] # Raw]
Copied(h, p, q) == LET o == h.mem[q] IN Ref(Set(Built(h, p), p, o), o)
Moved(h, p, q) == Set(Set([Built(h, p) EXCEPT !.wrong = @ \/ h.mem[q] = Raw], p, h.mem[q]), q, Nobody)
Destroyed(h, p) ==
    Set(Unref([h EXCEPT !.wrong = @ \/ h.mem[p] = Raw], IF h.mem[p] = Raw THEN Nobody ELSE h.mem[p]), p, Raw)
\* T must be moved on and its old place destroyed.
Shifted(h, to, from) == Destroyed(Moved(h, to, from), from)

\* Mutant of Assigned: assigning a handle to itself is not seen.
AssignedAlways(h, p, o) == Ref(Set(Unref(h, h.mem[p]), p, o), o)
\* RefPtr::operator=(const RefPtr&): the old object first, then the new.
Assigned(h, p, o) == IF h.mem[p] = o THEN h ELSE Ref(Set(Unref(h, h.mem[p]), p, o), o)
\* RefPtr::operator=(RefPtr&&).
MoveAssigned(h, p, q) == IF p = q THEN h ELSE Set(Set(Unref(h, h.mem[p]), p, h.mem[q]), q, Nobody)
Cleared(h, p) == Set(Unref(h, h.mem[p]), p, Nobody)

Becomes(h) == mem' = h.mem /\ m_ref_count' = h.m_ref_count /\ life' = h.life /\ wrong' = h.wrong
Outside == UNCHANGED <<m_data, m_capacity, m_size, m_has_value, items>>

-----------------------------------------------------------------------------
(* RefPtr *)

\* make_ref into a variable.
MakeRef(p) ==
    /\ \E o \in Objs :
          /\ life[o] = "unmade"
          /\ LET made == Ref([Heap EXCEPT !.life[o] = "alive"], o)
             IN  Becomes(Set(Unref(made, mem[p]), p, o))
    /\ Outside

Assign(p, q) == Becomes(Assigned(Heap, p, mem[q])) /\ Outside
MoveAssign(p, q) == Becomes(MoveAssigned(Heap, p, q)) /\ Outside
ClearRef(p) == Becomes(Cleared(Heap, p)) /\ Outside

-----------------------------------------------------------------------------
(* Vector *)

Cell(i) == <<m_data, i>>

\* ensure_capacity: the handles move to a block of twice the size.
OtherBank == IF m_data = "block" THEN "other block" ELSE "block"
NeedsRoom == m_size + 1 > m_capacity
Doubled == IF m_capacity = 0 THEN InitialCapacity ELSE 2 * m_capacity
Grown(h) == FoldLeft(LAMBDA g, i : Shifted(g, <<OtherBank, i>>, <<m_data, i>>), h, [i \in 1 .. m_size |-> i])

\* Room for one more is there or is made; kmalloc may fail, then nothing changes.
\* into(h, b) is what is done with a block b.
WithRoom(into(_, _), list) ==
    \/ /\ ~NeedsRoom
       /\ Becomes(into(Heap, m_data)) /\ UNCHANGED <<m_data, m_capacity>>
       /\ m_size' = m_size + 1 /\ items' = list
    \/ /\ NeedsRoom /\ Doubled <= MaxCells
       /\ Becomes(into(Grown(Heap), OtherBank)) /\ m_data' = OtherBank /\ m_capacity' = Doubled
       /\ m_size' = m_size + 1 /\ items' = list
    \/ NeedsRoom /\ UNCHANGED <<heapVars, m_data, m_capacity, m_size, items>>

\* The value appended lies outside the vector.
AppendCopy(p) ==
    /\ WithRoom(LAMBDA h, b : Copied(h, <<b, m_size + 1>>, p), items \o <<mem[p]>>)
    /\ UNCHANGED m_has_value
AppendMove(p) ==
    /\ WithRoom(LAMBDA h, b : Moved(h, <<b, m_size + 1>>, p), items \o <<mem[p]>>)
    /\ UNCHANGED m_has_value

\* prepend: the last handle moves up, then each one below it.
MadeWay(h, b) ==
    IF m_size = 0 THEN h
    ELSE Destroyed(FoldLeft(LAMBDA g, k : LET i == m_size + 1 - k
                                          IN  Moved(Destroyed(g, <<b, i>>), <<b, i>>, <<b, i - 1>>),
                            Moved(h, <<b, m_size + 1>>, <<b, m_size>>), [k \in 1 .. m_size - 1 |-> k]),
                   <<b, 1>>)
Prepend(p) ==
    /\ WithRoom(LAMBDA h, b : Moved(MadeWay(h, b), <<b, 1>>, p), <<mem[p]>> \o items)
    /\ UNCHANGED m_has_value

\* Mutant of Compacted: the cell that is moved away is not destroyed.
CompactedUnended(h, index) ==
    FoldLeft(LAMBDA g, k : Moved(g, Cell(index + k - 1), Cell(index + k)), h, [k \in 1 .. m_size - index |-> k])
\* The cells behind a destroyed one move down.
Compacted(h, index) ==
    FoldLeft(LAMBDA g, k : Shifted(g, Cell(index + k - 1), Cell(index + k)), h, [k \in 1 .. m_size - index |-> k])
Removed(h, index) == Compacted(Destroyed(h, Cell(index)), index)

Shorter(index) == m_size' = m_size - 1 /\ items' = RemoveAt(items, index) /\ UNCHANGED <<m_data, m_capacity, m_has_value>>

RemoveIndex(index) == index <= m_size /\ Becomes(Removed(Heap, index)) /\ Shorter(index)
\* remove_first_matching, the match being the object of p.
RemoveFirstMatching(p) ==
    LET hits == {i \in 1 .. m_size : mem[Cell(i)] = mem[p]}
    IN  hits # {} /\ RemoveIndex(CHOOSE i \in hits : \A j \in hits : i <= j)

\* take_last, take_first: the value is moved out and assigned to p.
TakeLast(p) ==
    /\ m_size > 0
    /\ Becomes(Destroyed(MoveAssigned(Heap, p, Cell(m_size)), Cell(m_size)))
    /\ Shorter(m_size)
TakeFirst(p) ==
    /\ m_size > 0
    /\ Becomes(Removed(MoveAssigned(Heap, p, Cell(1)), 1))
    /\ Shorter(1)

EmptyVector ==
    /\ Becomes(FoldLeft(LAMBDA g, i : Destroyed(g, Cell(i)), Heap, [i \in 1 .. m_size |-> i]))
    /\ m_size' = 0 /\ items' = <<>>
    /\ UNCHANGED <<m_data, m_capacity, m_has_value>>

-----------------------------------------------------------------------------
(* Optional *)

OptCleared(h) == IF m_has_value THEN Destroyed(h, Opt) ELSE h

\* operator=(const T&); from another Optional it is the same.
OptAssign(p) == Becomes(Copied(OptCleared(Heap), Opt, p)) /\ m_has_value' = TRUE /\ UNCHANGED <<m_data, m_capacity, m_size, items>>
OptReset == m_has_value /\ Becomes(OptCleared(Heap)) /\ m_has_value' = FALSE /\ UNCHANGED <<m_data, m_capacity, m_size, items>>
\* release_value into p; value() is only asked of an Optional that has one.
ReleaseValue(p) ==
    /\ m_has_value /\ m_has_value' = FALSE
    /\ Becomes(Destroyed(MoveAssigned(Heap, p, Opt), Opt))
    /\ UNCHANGED <<m_data, m_capacity, m_size, items>>

-----------------------------------------------------------------------------
OwnNext ==
    \/ \E p \in Handles : \/ MakeRef(p) \/ ClearRef(p)
                          \/ \E q \in Handles : Assign(p, q) \/ MoveAssign(p, q)
                          \/ AppendCopy(p) \/ AppendMove(p) \/ Prepend(p)
                          \/ RemoveFirstMatching(p) \/ TakeLast(p) \/ TakeFirst(p)
                          \/ OptAssign(p) \/ ReleaseValue(p)
    \/ \E i \in 1 .. MaxCells : RemoveIndex(i)
    \/ EmptyVector \/ OptReset

OwnSpec == OwnInit /\ [][OwnNext]_ownVars

-----------------------------------------------------------------------------
(* Properties *)

\* "Every copy of a RefPtr increments; every destruction decrements.  At 0 ->
\* delete" (RefCounted.hpp:15): a count is the number of handles, also of those
\* that vectors and optionals have moved about, and an object lives exactly as
\* long as there is one.
Counted ==
    \A o \in Objs :
        /\ m_ref_count[o] = Cardinality({p \in Places : mem[p] = o})
        /\ life[o] = "alive" <=> m_ref_count[o] > 0

\* Handles are constructed in the first m_size cells of the block and nowhere
\* else, in the order of the calls, and no destructor or constructor ever ran
\* where it must not.
InPlace ==
    /\ \A c \in Cells : mem[c] # Raw <=> (c[1] = m_data /\ c[2] <= m_size)
    /\ mem[Opt] # Raw <=> m_has_value
    /\ items = [i \in 1 .. m_size |-> mem[Cell(i)]]
    /\ m_size <= m_capacity /\ ~wrong

OwnershipRight == Counted /\ InPlace

-----------------------------------------------------------------------------
(***************************************************************************)
(* Three containers of the Greg library, one at a time (which): the        *)
(* open-addressing HashMap, the CircularBuffer between an interrupt and    *)
(* the main loop, and the String that owns a block of the heap.            *)
(* The map is modelled with memory enough for its buckets.                 *)
(***************************************************************************)
CONSTANTS
    MapKeys, MapValues,
    Hashes,         \* hash functions, MapKeys to Nat
    InitialCap,     \* HashMap::INITIAL_CAP
    MaxBuckets,     \* bound on the buckets
    BufferCap,      \* Capacity of the circular buffer
    MaxEvents,      \* bound on the values enqueued
    Chars, MaxLength,   \* characters, one of them the NUL; bound on a string
    Bits            \* width of an int

ASSUME ContainersAssumption ==
    /\ InitialCap \in Nat \ {0} /\ MaxBuckets \in Nat /\ BufferCap \in Nat /\ BufferCap > 1
    /\ MaxEvents \in Nat /\ MaxLength \in Nat /\ Bits \in Nat \ {0} /\ "nul" \in Chars

VARIABLES
    which,
    hashOf, m_buckets, m_count,                         \* HashMap
    table, removed,                     \* history: what it should hold, and whether a key
                                        \* was removed since it was last empty
    m_storage, m_head, m_tail, producer, consumer, sent, received,  \* CircularBuffer
    strings, allocated                                  \* Strings; blocks of the heap

mapVars == <<hashOf, m_buckets, m_count, table, removed>>
ringVars == <<m_storage, m_head, m_tail, producer, consumer, sent, received>>
stringVars == <<strings, allocated>>
containerVars == <<which, mapVars, ringVars, stringVars>>

Nothing == "nullptr"
NullString == <<>>
FreshBucket == [used |-> FALSE, deleted |-> FALSE, key |-> Nothing, value |-> Nothing]

ContainersInit ==
    /\ which \in {"map", "ring", "strings"}
    /\ hashOf \in Hashes /\ m_buckets = <<>> /\ m_count = 0 /\ table = [k \in {} |-> Nothing] /\ removed = FALSE
    /\ m_storage = [i \in 0 .. BufferCap - 1 |-> 0] /\ m_head = 0 /\ m_tail = 0
    /\ producer = "idle" /\ consumer = "idle" /\ sent = 0 /\ received = <<>>
    /\ strings = [s \in {"s", "t"} |-> NullString] /\ allocated = 0

-----------------------------------------------------------------------------
(* HashMap *)

Capacity(bs) == Len(bs)
\* The i-th bucket from where the key belongs; buckets are counted from 1.
Probed(bs, k, i) == ((hashOf[k] + i) % Capacity(bs)) + 1
HoldsKey(bs, b, k) == bs[b].used /\ bs[b].key = k
NeverUsed(bs, b) == ~bs[b].used /\ ~bs[b].deleted
FirstOf(bs, good(_)) ==
    LET hits == {i \in 0 .. Capacity(bs) - 1 : good(i)}
    IN  IF hits = {} THEN Capacity(bs) ELSE CHOOSE i \in hits : \A j \in hits : i <= j

\* find: up to the first bucket that was never used.
Find(bs, k) ==
    LET i == FirstOf(bs, LAMBDA j : HoldsKey(bs, Probed(bs, k, j), k) \/ NeverUsed(bs, Probed(bs, k, j)))
    IN  IF i < Capacity(bs) /\ HoldsKey(bs, Probed(bs, k, i), k) THEN Probed(bs, k, i) ELSE 0

\* probe: the key's bucket, or else the first marked deleted before a free one.
\* A bucket stays marked when it is used again.
ProbeFor(bs, k) ==
    LET stop == FirstOf(bs, LAMBDA j : HoldsKey(bs, Probed(bs, k, j), k) \/ NeverUsed(bs, Probed(bs, k, j)))
        marked == FirstOf(bs, LAMBDA j : bs[Probed(bs, k, j)].deleted)
    IN  IF stop < Capacity(bs) /\ HoldsKey(bs, Probed(bs, k, stop), k) THEN Probed(bs, k, stop)
        ELSE IF marked < stop THEN Probed(bs, k, marked)
        ELSE IF stop < Capacity(bs) THEN Probed(bs, k, stop)
        ELSE Probed(bs, k, 0)

StoredIn(bs, k, v) == [bs EXCEPT ![ProbeFor(bs, k)] = [@ EXCEPT !.used = TRUE, !.key = k, !.value = v]]
Buckets(n) == [i \in 1 .. n |-> FreshBucket]

\* rehash: used buckets, in order, into twice as many.
Rehashed(bs) == FoldLeft(LAMBDA new, b : IF b.used THEN StoredIn(new, b.key, b.value) ELSE new,
                         Buckets(2 * Capacity(bs)), bs)

\* Mutant of TooFull: the load is compared after the insertion is made.
TooFullLate(bs, n) == n > Capacity(bs)
TooFull(bs, n) == n * 10 >= Capacity(bs) * 7
Ensured(bs, n) == IF bs = <<>> THEN Buckets(InitialCap) ELSE IF TooFull(bs, n) THEN Rehashed(bs) ELSE bs

SetKey(k, v) ==
    LET bs == Ensured(m_buckets, m_count)
    IN  /\ Capacity(bs) <= MaxBuckets
        /\ m_buckets' = StoredIn(bs, k, v)
        /\ m_count' = IF bs[ProbeFor(bs, k)].used THEN m_count ELSE m_count + 1
        /\ table' = [j \in DOMAIN table \union {k} |-> IF j = k THEN v ELSE table[j]]
        /\ UNCHANGED <<hashOf, removed>>

RemoveKey(k) ==
    /\ m_buckets # <<>>
    /\ LET b == Find(m_buckets, k)
       IN  IF b = 0 THEN UNCHANGED <<m_buckets, m_count, removed>>
           ELSE /\ m_buckets' = [m_buckets EXCEPT ![b].used = FALSE, ![b].deleted = TRUE]
                /\ m_count' = m_count - 1 /\ removed' = TRUE
    /\ table' = [j \in DOMAIN table \ {k} |-> table[j]]
    /\ UNCHANGED hashOf

ClearMap == /\ m_buckets' = Buckets(Capacity(m_buckets)) /\ m_count' = 0
            /\ table' = [k \in {} |-> Nothing] /\ removed' = FALSE /\ UNCHANGED hashOf

MapNext == \/ \E k \in MapKeys : RemoveKey(k) \/ \E v \in MapValues : SetKey(k, v)
           \/ ClearMap

-----------------------------------------------------------------------------
(* CircularBuffer: the producer may interrupt the consumer between any two of *)
(* its statements, and runs to its end; so does another processor's           *)

Advance(i) == (i + 1) % BufferCap

\* Mutant of Enqueue: the slot is published before it is written.
EnqueueEarly ==
    \/ /\ producer = "idle" /\ sent < MaxEvents /\ Advance(m_tail) # m_head
       /\ producer' = "write" /\ sent' = sent + 1 /\ m_tail' = Advance(m_tail)
       /\ UNCHANGED m_storage
    \/ /\ producer = "write" /\ producer' = "idle"
       /\ m_storage' = [m_storage EXCEPT ![(m_tail + BufferCap - 1) % BufferCap] = sent]
       /\ UNCHANGED <<m_tail, sent>>
\* enqueue: test for room, write the slot, publish it.
Enqueue ==
    \/ /\ producer = "idle" /\ sent < MaxEvents
       /\ IF Advance(m_tail) = m_head THEN UNCHANGED <<producer, sent>>
          ELSE producer' = "write" /\ sent' = sent + 1
       /\ UNCHANGED <<m_storage, m_tail>>
    \/ /\ producer = "write" /\ producer' = "publish"
       /\ m_storage' = [m_storage EXCEPT ![m_tail] = sent] /\ UNCHANGED <<m_tail, sent>>
    \/ /\ producer = "publish" /\ producer' = "idle"
       /\ m_tail' = Advance(m_tail) /\ UNCHANGED <<m_storage, sent>>

\* dequeue: test for a value, read the slot, release it.
Dequeue ==
    \/ /\ consumer = "idle" /\ m_head # m_tail /\ consumer' = "read" /\ UNCHANGED <<m_head, received>>
    \/ /\ consumer = "read" /\ consumer' = "release"
       /\ received' = Append(received, m_storage[m_head]) /\ UNCHANGED m_head
    \/ /\ consumer = "release" /\ consumer' = "idle"
       /\ m_head' = Advance(m_head) /\ UNCHANGED received

RingNext == \/ Enqueue /\ UNCHANGED <<m_head, consumer, received>>
            \/ Dequeue /\ UNCHANGED <<m_storage, m_tail, producer, sent>>

-----------------------------------------------------------------------------
(* String: no block (null), or the characters of its one block *)

ShortStrings == UNION {[1 .. n -> Chars] : n \in 0 .. 2}
CString(x) == LET ends == {i \in DOMAIN x : x[i] = "nul"}
              IN  IF ends = {} THEN x ELSE SubSeq(x, 1, (CHOOSE i \in ends : \A j \in ends : i <= j) - 1)
OfString(x) == IF x = NullString THEN <<>> ELSE x[1]

Owned(x) == Len(x)

\* The value is built in a new block, if there is one; then the old block goes.
Rebuilt(s, x) ==
    \/ /\ Len(x) <= MaxLength
       /\ strings' = [strings EXCEPT ![s] = <<x>>] /\ allocated' = allocated + 1 - Owned(strings[s])
    \/ UNCHANGED stringVars
\* The old block goes first, and the value is null if there is no new one.
Replaced(s, x) ==
    \/ strings' = [strings EXCEPT ![s] = <<x>>] /\ allocated' = allocated + 1 - Owned(strings[s])
    \/ strings' = [strings EXCEPT ![s] = NullString] /\ allocated' = allocated - Owned(strings[s])

\* operator=(const char*) and the constructor with a length, moved in.
AssignText(s) == \E x \in ShortStrings : Replaced(s, CString(x)) \/ (x # <<>> /\ Replaced(s, x))
\* operator=(const String&), unless it is the same string.
AssignString(s, t) ==
    /\ s # t
    /\ IF strings[t] = NullString
       THEN strings' = [strings EXCEPT ![s] = NullString] /\ allocated' = allocated - Owned(strings[s])
       ELSE Replaced(s, strings[t][1])
\* Mutant of MoveString: the block that is overwritten is not freed.
MoveStringLeaks(s, t) ==
    s # t /\ strings' = [strings EXCEPT ![s] = strings[t], ![t] = NullString] /\ UNCHANGED allocated
MoveString(s, t) ==
    /\ s # t /\ strings' = [strings EXCEPT ![s] = strings[t], ![t] = NullString]
    /\ allocated' = allocated - Owned(strings[s])

\* append and prepend of a C string, of another String up to its NUL, or of itself.
Appended(s, x) == IF x = <<>> THEN UNCHANGED stringVars ELSE Rebuilt(s, OfString(strings[s]) \o x)
Prepended(s, x) == IF x = <<>> THEN UNCHANGED stringVars ELSE Rebuilt(s, x \o OfString(strings[s]))

StringNext ==
    \E s, t \in DOMAIN strings :
        \/ AssignText(s) \/ AssignString(s, t) \/ MoveString(s, t)
        \/ \E x \in ShortStrings : Appended(s, CString(x)) \/ Prepended(s, CString(x))
        \/ Appended(s, CString(OfString(strings[t])))

-----------------------------------------------------------------------------
(* Conversions, in an int of Bits bits *)

Modulus == 2 ^ Bits
Signed(n) == IF n % Modulus >= Modulus \div 2 THEN (n % Modulus) - Modulus ELSE n % Modulus
Ints == - (Modulus \div 2) .. (Modulus \div 2) - 1

\* uint_to_digits, and from_int with the sign apart.
DigitsOf[n \in Nat] == IF n < 10 THEN <<n>> ELSE Append(DigitsOf[n \div 10], n % 10)
FromInt(v) == [minus |-> v < 0, digits |-> DigitsOf[IF v < 0 THEN (-(v + 1)) + 1 ELSE v]]
ToInt(d) ==
    LET n == FoldLeft(LAMBDA r, c : Signed(r * 10 + c), 0, d.digits)
    IN  IF d.minus THEN Signed(-n) ELSE n

-----------------------------------------------------------------------------
ContainersNext ==
    /\ \/ which = "map" /\ MapNext
       \/ which = "ring" /\ RingNext
       \/ which = "strings" /\ StringNext
    /\ which # "map" => UNCHANGED mapVars
    /\ which # "ring" => UNCHANGED ringVars
    /\ which # "strings" => UNCHANGED stringVars
    /\ UNCHANGED which

ContainersSpec == ContainersInit /\ [][ContainersNext]_containerVars

-----------------------------------------------------------------------------
(* Properties *)

Got(k) == IF m_buckets = <<>> \/ Find(m_buckets, k) = 0 THEN Nothing ELSE m_buckets[Find(m_buckets, k)].value

\* What the map returns for a key is what was stored for it last, removed keys
\* are gone, no key is in two buckets, and the size counts the buckets used: also
\* when a full row of buckets is walked and after rehashing.  As long as no key was
\* removed, none is lost.
MapTrue ==
    /\ \A k \in MapKeys : Got(k) # Nothing => k \in DOMAIN table /\ Got(k) = table[k]
    /\ \A a, b \in DOMAIN m_buckets :
          (a # b /\ m_buckets[a].used /\ m_buckets[b].used) => m_buckets[a].key # m_buckets[b].key
    /\ m_count = Cardinality({b \in DOMAIN m_buckets : m_buckets[b].used})
    /\ ~removed => \A k \in DOMAIN table : Got(k) = table[k]

\* Values arrive in the order they were put in, each whole and once, however the
\* two sides interleave.
RingTrue == received = [i \in 1 .. Len(received) |-> i]

\* Every String owns one block and no block is lost, whatever allocation fails,
\* and every int comes back from its digits, the smallest too.
BlocksOwned == allocated = Cardinality({s \in DOMAIN strings : strings[s] # NullString})
StringsTrue ==
    /\ BlocksOwned
    /\ \A v \in Ints : ToInt(FromInt(v)) = v

ContainersRight == /\ which = "map" => MapTrue
                   /\ which = "ring" => RingTrue
                   /\ which = "strings" => StringsTrue
=============================================================================
