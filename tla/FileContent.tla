---------------------------- MODULE FileContent ----------------------------
(***************************************************************************)
(* The contents of the in-memory file system (file_system[] in             *)
(* kernel/kernel.c) and the per-process descriptor tables (fd_tab[]).      *)
(*                                                                         *)
(* Ring-3 processes reach them through INT 0x80, whose handlers run with   *)
(* interrupts masked: one action each.  The main thread (shell commands,   *)
(* text editor, paint) can be preempted by a process between two bytes it  *)
(* stores.  Names and directories are the subject of FileTable; here an    *)
(* operation picks any entry.                                              *)
(***************************************************************************)
EXTENDS Integers, FiniteSets

CONSTANTS
    MaxFiles,   \* MAX_FILES
    Cap,        \* FILE_CONTENT_SIZE - 1: the longest content, without its NUL
    MaxPos,     \* INT_MAX, the largest offset of a descriptor
    Procs,      \* thread ids of processes that make system calls
    FdMax,      \* FD_MAX
    Sessions    \* who is there: the processes, what the main thread may do

ASSUME ContentAssumption ==
    /\ MaxFiles \in Nat /\ Cap \in Nat
    /\ MaxPos \in Nat /\ MaxPos > Cap
    /\ FdMax \in Nat
    /\ \A u \in Sessions : u.procs \subseteq Procs /\ u.ops \subseteq {"create", "delete", "copy", "link", "save",
                                "paint", "append"}

Entries == 1 .. MaxFiles            \* entry ids: the index in file_system[], plus 1
Fds   == 3 .. (FdMax - 1)         \* 0, 1 and 2 are the standard streams

\* What the properties tell apart of a byte: NUL, a byte written to the file
\* the slot holds now, or one left over by an earlier file of the slot.
Bytes == {"nul", "data", "stale"}

VARIABLES
    exists, type, size, bytes,    \* the fields of file_system[]
    fd_tab,                       \* per process and descriptor
    session,                      \* one of Sessions
    pc, target, at, left, final,  \* a store in progress in the main thread
    done                          \* history: binary (a NUL may be inside a
                                  \* content), cut (ln or >> took a content
                                  \* for shorter or longer than its size)

entries == <<exists, type, size, bytes>>
store   == <<pc, target, at, left, final>>
contentVars    == <<entries, fd_tab, session, store, done>>

Closed == [used |-> FALSE, vfs_id |-> 0, pos |-> 0]
Descriptors == [used : BOOLEAN, vfs_id : Entries \union {0}, pos : 0 .. MaxPos]

ContentTypeOK ==
    /\ exists \in [Entries -> BOOLEAN]
    /\ type \in [Entries -> {"file", "dir"}]
    /\ size \in [Entries -> 0 .. Cap]
    /\ bytes \in [Entries -> [0 .. Cap -> Bytes]]
    /\ fd_tab \in [Procs -> [Fds -> Descriptors]]
    /\ session \in Sessions
    /\ pc \in {"idle", "copy", "nul", "size"}
    /\ target \in Entries \union {0}
    /\ at \in 0 .. Cap /\ left \in 0 .. Cap /\ final \in 0 .. Cap
    /\ done \subseteq {"binary", "cut"}

ContentInit ==
    /\ exists = [s \in Entries |-> FALSE]
    /\ type = [s \in Entries |-> "file"]
    /\ size = [s \in Entries |-> 0]
    /\ bytes = [s \in Entries |-> [i \in 0 .. Cap |-> "nul"]]
    /\ fd_tab = [p \in Procs |-> [d \in Fds |-> Closed]]
    /\ session \in Sessions
    /\ pc = "idle" /\ target = 0 /\ at = 0 /\ left = 0 /\ final = 0
    /\ done = {}

\* Mutant of Greatest: the file ends where the last write ended.
SecondOf(a, b) == b
Least(a, b)    == IF a <= b THEN a ELSE b
Greatest(a, b) == IF a <= b THEN b ELSE a

-----------------------------------------------------------------------------
(* the entries *)

\* next_free_slot.
IsNextFree(s) == /\ s \in Entries /\ ~exists[s]
                 /\ \A u \in Entries : ~exists[u] => s <= u

\* What a new file finds in its slot beyond what it initialises.
Leftover(b) == IF b = "nul" THEN "nul" ELSE "stale"

\* Mutant of Blank: the size of the deleted file stays.
BlankSizeKept(s, k) ==
    /\ exists' = [exists EXCEPT ![s] = TRUE]
    /\ type' = [type EXCEPT ![s] = k]
    /\ bytes' = [bytes EXCEPT ![s] =
                   [i \in 0 .. Cap |-> IF i = 0 THEN "nul"
                                       ELSE Leftover(bytes[s][i])]]
    /\ UNCHANGED size
\* vfs_create_file, vfs_create_dir, touch, mkdir: content[0] = 0, size = 0.
Blank(s, k) ==
    /\ exists' = [exists EXCEPT ![s] = TRUE]
    /\ type' = [type EXCEPT ![s] = k]
    /\ size' = [size EXCEPT ![s] = 0]
    /\ bytes' = [bytes EXCEPT ![s] =
                   [i \in 0 .. Cap |-> IF i = 0 THEN "nul"
                                       ELSE Leftover(bytes[s][i])]]

\* The content after vfs_write_at stored n bytes d at pos: the gap behind the
\* old end is zeroed, and a NUL follows the new end.
Written(b, old, pos, d, n) ==
    LET end == Greatest(old, pos + n)
    IN  [i \in 0 .. Cap |->
           IF i = end THEN "nul"
           ELSE IF i \in pos .. (pos + n - 1) THEN d
           ELSE IF i \in old .. (pos - 1) THEN "nul"
           ELSE b[i]]

-----------------------------------------------------------------------------
(* the system calls of a process *)

FreeFds(p) == {d \in Fds : ~fd_tab[p][d].used}

\* fd_open_id: the lowest free descriptor, or none.
OpenId(p, s) ==
    \/ \E d \in FreeFds(p) :
         /\ \A c \in FreeFds(p) : d <= c
         /\ fd_tab' = [fd_tab EXCEPT ![p][d] =
                         [used |-> TRUE, vfs_id |-> s, pos |-> 0]]
    \/ FreeFds(p) = {} /\ UNCHANGED fd_tab

\* SYS_OPEN: vfs_find also finds directories.
SysOpen(p) ==
    /\ \E s \in Entries : exists[s] /\ OpenId(p, s)
    /\ UNCHANGED <<entries, store, done>>

\* SYS_CREATE of a name that is not found.
SysCreate(p) ==
    /\ \E s \in Entries : IsNextFree(s) /\ Blank(s, "file") /\ OpenId(p, s)
    /\ UNCHANGED <<store, done>>

\* How many bytes vfs_read_at finds behind pos.
Readable(s, pos) == IF pos >= size[s] THEN 0 ELSE size[s] - pos

\* SYS_READ.
SysRead(p) ==
    /\ \E d \in Fds, len \in 1 .. Cap :
         LET e == fd_tab[p][d]
         IN  /\ e.used /\ exists[e.vfs_id] /\ type[e.vfs_id] = "file"
             /\ fd_tab' = [fd_tab EXCEPT ![p][d].pos =
                             @ + Least(len, Readable(e.vfs_id, e.pos))]
    /\ UNCHANGED <<entries, store, done>>

\* SYS_WRITE_FILE: at or behind the capacity nothing is written.  One call
\* stores one kind of byte; two calls mix them.
SysWriteFile(p) ==
    /\ \E d \in Fds, len \in 0 .. Cap :
         LET e == fd_tab[p][d]
             s == e.vfs_id
             n == Least(len, Cap - e.pos)
         IN  /\ e.used /\ exists[s] /\ type[s] = "file" /\ e.pos < Cap
             /\ \E b \in {"nul", "data"} :
                  bytes' = [bytes EXCEPT ![s] =
                              Written(@, size[s], e.pos, b, n)]
             /\ size' = [size EXCEPT ![s] = Greatest(@, e.pos + n)]
             /\ fd_tab' = [fd_tab EXCEPT ![p][d].pos = @ + n]
    /\ done' = done \union {"binary"}
    /\ UNCHANGED <<exists, type, store>>

\* From the start, the offset or the end (the size of the slot, whatever it
\* holds).
SeekSums(e) ==
    {base + off : base \in {0, e.pos, size[e.vfs_id]}, off \in (-MaxPos) .. MaxPos}

\* SYS_LSEEK: a sum beyond INT_MAX wraps to a negative one, and a negative one
\* is refused.
SysLseek(p) ==
    /\ \E d \in Fds :
         /\ fd_tab[p][d].used
         /\ \E pos \in SeekSums(fd_tab[p][d]) \intersect (0 .. MaxPos) :
              fd_tab' = [fd_tab EXCEPT ![p][d].pos = pos]
    /\ UNCHANGED <<entries, store, done>>

SysClose(p) ==
    /\ \E d \in Fds : /\ fd_tab[p][d].used
                      /\ fd_tab' = [fd_tab EXCEPT ![p][d] = Closed]
    /\ UNCHANGED <<entries, store, done>>

\* The process has ended and is reaped: fd_release_all.
Release(p) ==
    /\ fd_tab' = [fd_tab EXCEPT ![p] = [d \in Fds |-> Closed]]
    /\ UNCHANGED <<entries, store, done>>

-----------------------------------------------------------------------------
(* the main thread *)

Create(k) ==
    /\ pc = "idle" /\ "create" \in session.ops
    /\ \E s \in Entries : IsNextFree(s) /\ Blank(s, k)
    /\ UNCHANGED <<fd_tab, store, done>>

\* rm, vfs_delete: only the flag is cleared; descriptors stay as they are.
Delete ==
    /\ pc = "idle" /\ "delete" \in session.ops
    /\ \E s \in Entries : exists[s] /\ exists' = [exists EXCEPT ![s] = FALSE]
    /\ UNCHANGED <<type, size, bytes, fd_tab, store, done>>

\* cp: the whole record, the bytes behind the end included.
Copy ==
    /\ pc = "idle" /\ "copy" \in session.ops
    /\ \E s, new \in Entries :
         /\ exists[s] /\ IsNextFree(new)
         /\ exists' = [exists EXCEPT ![new] = TRUE]
         /\ type' = [type EXCEPT ![new] = type[s]]
         /\ size' = [size EXCEPT ![new] = size[s]]
         /\ bytes' = [bytes EXCEPT ![new] = bytes[s]]
    /\ UNCHANGED <<fd_tab, store, done>>

\* strlen: the index of the first NUL (the last byte of a content is one).
StrLen(b) == CHOOSE n \in 0 .. Cap :
               /\ b[n] = "nul"
               /\ \A i \in 0 .. (n - 1) : b[i] # "nul"

\* What a user of strlen and strcat adds to the history.
Cut(s) == IF StrLen(bytes[s]) = size[s] THEN {} ELSE {"cut"}

\* ln: the content up to its first NUL, but the size of the source.
Link ==
    /\ pc = "idle" /\ "link" \in session.ops
    /\ \E s, new \in Entries :
         LET k == StrLen(bytes[s])
         IN  /\ exists[s] /\ IsNextFree(new)
             /\ exists' = [exists EXCEPT ![new] = TRUE]
             /\ type' = [type EXCEPT ![new] = type[s]]
             /\ size' = [size EXCEPT ![new] = size[s]]
             /\ bytes' = [bytes EXCEPT ![new] =
                  [i \in 0 .. Cap |-> IF i < k THEN bytes[s][i]
                                      ELSE IF i = k THEN "nul"
                                      ELSE Leftover(bytes[new][i])]]
             /\ done' = done \union Cut(s)
    /\ UNCHANGED <<fd_tab, store>>

\* The main thread starts to store n bytes at index a of the file s, whose
\* size it will set to z.
Begin(s, a, n, z) ==
    /\ target' = s /\ at' = a /\ left' = n /\ final' = z
    /\ pc' = IF n > 0 THEN "copy" ELSE "nul"
    /\ UNCHANGED <<entries, fd_tab>>

\* vfs_write_file by the text editor ("save") or by paint ("paint");
\* echo >, write and tee store the same way.
Overwrite ==
    /\ pc = "idle" /\ session.ops \intersect {"save", "paint"} # {}
    /\ \E s \in Entries, n \in 0 .. Cap :
         exists[s] /\ type[s] = "file" /\ Begin(s, 0, n, n)
    /\ UNCHANGED done

\* Mutant of AppendAt: strcpy for strcat.
AppendAtStart(s) == 0
\* echo >>: strcat starts at the first NUL.
AppendAt(s) == StrLen(bytes[s])

\* echo >>: refused when the size would reach the capacity.  strcat past the
\* array, possible only once Terminated is broken, is not modelled.
EchoAppend ==
    /\ pc = "idle" /\ "append" \in session.ops
    /\ \E s \in Entries, n \in 1 .. Cap :
         /\ exists[s] /\ size[s] + n <= Cap
         /\ AppendAt(s) + n <= Cap
         /\ Begin(s, AppendAt(s), n, size[s] + n)
         /\ done' = done \union Cut(s)

\* Paint's images contain zero bytes; typed text does not.
StoreByte ==
    /\ pc = "copy"
    /\ \E b \in {"data"} \union (IF "paint" \in session.ops THEN {"nul"} ELSE {}) :
         /\ bytes' = [bytes EXCEPT ![target][at] = b]
         /\ done' = IF b = "nul" THEN done \union {"binary"} ELSE done
    /\ at' = at + 1 /\ left' = left - 1
    /\ pc' = IF left > 1 THEN "copy" ELSE "nul"
    /\ UNCHANGED <<exists, type, size, fd_tab, target, final>>

Ended(b) == [b EXCEPT ![at] = "nul"]

StoreNul ==
    /\ pc = "nul"
    /\ bytes' = [bytes EXCEPT ![target] = Ended(@)]
    /\ pc' = "size"
    /\ UNCHANGED <<exists, type, size, fd_tab, target, at, left, final, done>>

NewSize == final

StoreSize ==
    /\ pc = "size"
    /\ size' = [size EXCEPT ![target] = NewSize]
    /\ pc' = "idle" /\ target' = 0 /\ at' = 0 /\ left' = 0 /\ final' = 0
    /\ UNCHANGED <<exists, type, bytes, fd_tab, done>>

-----------------------------------------------------------------------------
SysCall(p) == \/ SysOpen(p) \/ SysCreate(p) \/ SysRead(p) \/ SysWriteFile(p)
              \/ SysLseek(p) \/ SysClose(p) \/ Release(p)

ContentNext ==
    /\ \/ \E p \in session.procs : SysCall(p)
       \/ \E k \in {"file", "dir"} : Create(k)
       \/ Delete \/ Copy \/ Link \/ Overwrite \/ EchoAppend
       \/ StoreByte \/ StoreNul \/ StoreSize
    /\ UNCHANGED session

ContentSpec == ContentInit /\ [][ContentNext /\ UNCHANGED session]_contentVars

-----------------------------------------------------------------------------
(* Properties *)

\* No byte of an earlier file of the slot is ever part of a file's content:
\* a gap made with lseek is zeroed (kernel.c:11891).
NoStaleBytes ==
    \A s \in Entries : exists[s] => \A i \in 0 .. (size[s] - 1) : bytes[s][i] # "stale"

\* With the shell, the editor and paint too, whatever they and the processes
\* store into one file at a time, until ln or echo >> meets a content whose
\* first NUL is not at its end: the size it then stores covers bytes that the
\* slot's earlier file left.
StaleOnlyByCut == "cut" \notin done => NoStaleBytes

\* Outside a store of the main thread a NUL follows every file's content:
\* "keep cat/strlen honest" (kernel.c:11894).
Terminated ==
    pc = "idle" => \A s \in Entries : exists[s] => bytes[s][size[s]] = "nul"

\* What the main thread stores ends where the file will end, so text added
\* with echo >> follows the old content.
StoreReachesEnd == pc = "copy" => at + left = final

\* Both hold of text, whatever the shell and the editor do with it.
TextStaysWhole == "binary" \notin done => Terminated /\ StoreReachesEnd

\* A file holds what was stored in it and nothing of its slot's past, and a text
\* ends where its size says.
ContentsTrue == StaleOnlyByCut /\ TextStaysWhole

-----------------------------------------------------------------------------
(* Files are sequences of bytes, descriptors are cursors on them. *)

Absent == <<"absent">>
Content(s) == [i \in 1 .. size[s] |-> bytes[s][i - 1]]
Streams == INSTANCE ByteStreams
             WITH Files <- Entries, Handles <- Procs \X Fds,
                  file <- [s \in Entries |-> IF exists[s] THEN Content(s) ELSE Absent],
                  handle <- [h \in Procs \X Fds |-> fd_tab[h[1]][h[2]].vfs_id],
                  cursor <- [h \in Procs \X Fds |-> fd_tab[h[1]][h[2]].pos]

\* Seen through the system calls, entries are byte sequences with cursors, as
\* long as the main thread makes, deletes and copies files but stores no bytes.
ImplementsStreams ==
    /\ Streams!StreamInit
    /\ [][session.ops \subseteq {"create", "delete", "copy"}
            => [Streams!StreamNext]_(Streams!streams)]_contentVars
=============================================================================
