---------------------------- MODULE ByteStreams ----------------------------
(***************************************************************************)
(* What a program may rely on when it uses files: a file is a finite       *)
(* sequence of bytes that only grows by writes, a handle is a cursor on a  *)
(* file.  A write behind the end fills the gap with NULs, a read moves the *)
(* cursor to the end of the file at most, and what one handle does never   *)
(* moves the cursor of another.                                            *)
(***************************************************************************)
EXTENDS Integers, Sequences

CONSTANTS
    Files, Handles,
    Cap,        \* the length of the longest file
    MaxPos,
    Absent      \* the value of a file that does not exist

VARIABLES
    file,       \* of each file: a sequence over {"nul", "data"}, or Absent
    handle,     \* of each handle: the file it is open on, or 0
    cursor      \* of each handle: an offset

streams == <<file, handle, cursor>>

StreamInit ==
    /\ file = [f \in Files |-> Absent]
    /\ handle = [h \in Handles |-> 0]
    /\ cursor = [h \in Handles |-> 0]

OpenOn(h, f) ==
    /\ handle[h] = 0
    /\ handle' = [handle EXCEPT ![h] = f]
    /\ cursor' = [cursor EXCEPT ![h] = 0]

\* A new file is empty or a copy of another one; a process that creates one
\* also opens it, unless it has too many open.
Make(f) ==
    /\ file[f] = Absent
    /\ \E c \in {<<>>} \union {file[g] : g \in Files} :
         c # Absent /\ file' = [file EXCEPT ![f] = c]
    /\ \/ UNCHANGED <<handle, cursor>>
       \/ \E h \in Handles : OpenOn(h, f)

Remove(f) ==
    /\ file' = [file EXCEPT ![f] = Absent]
    /\ UNCHANGED <<handle, cursor>>

Open(f) ==
    /\ file[f] # Absent
    /\ \E h \in Handles : OpenOn(h, f)
    /\ UNCHANGED file

\* One handle is closed, or all those of a process that ends.
Close(H) ==
    /\ handle' = [h \in Handles |-> IF h \in H THEN 0 ELSE handle[h]]
    /\ cursor' = [h \in Handles |-> IF h \in H THEN 0 ELSE cursor[h]]
    /\ UNCHANGED file

Seek(h) ==
    /\ handle[h] # 0
    /\ \E pos \in 0 .. MaxPos : cursor' = [cursor EXCEPT ![h] = pos]
    /\ UNCHANGED <<file, handle>>

Read(h) ==
    /\ handle[h] # 0 /\ file[handle[h]] # Absent
    /\ \E pos \in cursor[h] .. Len(file[handle[h]]) :
         cursor' = [cursor EXCEPT ![h] = pos]
    /\ UNCHANGED <<file, handle>>

\* The sequence c after the bytes d were stored at the offset pos; the gap is
\* filled even when there is nothing to store.
Stored(c, pos, d) ==
    LET end == pos + Len(d)
    IN  [i \in 1 .. (IF end > Len(c) THEN end ELSE Len(c)) |->
           IF i > pos /\ i <= end THEN d[i - pos]
           ELSE IF i <= Len(c) THEN c[i] ELSE "nul"]

Write(h) ==
    /\ handle[h] # 0 /\ file[handle[h]] # Absent
    /\ \E n \in 0 .. Cap : \E d \in [1 .. n -> {"nul", "data"}] :
         /\ cursor[h] + n <= Cap
         /\ file' = [file EXCEPT ![handle[h]] = Stored(@, cursor[h], d)]
         /\ cursor' = [cursor EXCEPT ![h] = @ + n]
    /\ UNCHANGED handle

StreamNext ==
    \/ \E f \in Files : Make(f) \/ Remove(f) \/ Open(f)
    \/ \E H \in SUBSET Handles : Close(H)
    \/ \E h \in Handles : Seek(h) \/ Read(h) \/ Write(h)

StreamSpec == StreamInit /\ [][StreamNext]_streams
=============================================================================
