---------------------------- MODULE Persistence ----------------------------
(***************************************************************************)
(* How the in-memory file system reaches the IDE disk and comes back:      *)
(* fs_save, fs_load, fs_sync, fs_format and their callers in               *)
(* kernel/kernel.c (the boot sequence, the idle loop, sync, format,        *)
(* shutdown and reboot).                                                   *)
(*                                                                         *)
(* The main thread writes the header and then one sector after the other   *)
(* with interrupts enabled; system calls of processes change the file      *)
(* system in between.  Sectors of file_system[] are numbered blocks, and   *)
(* the content of a block is the number of the edit that made it.          *)
(***************************************************************************)
EXTENDS Integers, FiniteSets

CONSTANTS
    NBlocks,    \* sectors of file_system[] on disk
    MaxEdits,   \* bound: the edits of a behaviour are numbered 1 to MaxEdits
    MaxBoots,   \* bound: how often the machine is started
    Editors,    \* who edits: gui (vfs_* calls), shell (commands), process
    Faults      \* what may fail: power, disk reads, disk writes

ASSUME PersistenceAssumption ==
    /\ NBlocks \in Nat \ {0} /\ MaxEdits \in Nat /\ MaxBoots \in Nat
    /\ Editors \subseteq {"gui", "shell", "process"}
    /\ Faults \subseteq {"power", "read", "write"}

Blocks == 1 .. NBlocks
Edits  == 0 .. MaxEdits      \* 0: the built-in default content
Blank  == -1                 \* a header without the magic number

VARIABLES
    mem, glob,      \* file_system[]; current_dir_id and casino_balance
    fs_dirty,
    disk, hdr,      \* the blocks on disk, and the globals in the header
    pc, next,       \* fs_save in the main thread, and its next block
    purpose,        \* who called it
    power,          \* "on", or how it went off
    edits, boots,   \* counters for the bounds
    saved,          \* history: the image in memory when fs_save last began
    whole,          \* history: that save has ended and nothing disturbed it
    gaps            \* history: what happened that the code loses track of
                    \* until the next save begins

vars == <<mem, glob, fs_dirty, disk, hdr, pc, next, purpose, power,
          edits, boots, saved, whole, gaps>>

\* raced: a process edited during the save.  unmarked: the shell edited, and
\* that marks nothing.  failed: a sector could not be written.  formatted:
\* the header was wiped.  unread: a sector could not be read at boot.
Gaps == {"raced", "unmarked", "failed", "formatted", "unread"}

Images == [blocks : [Blocks -> Edits], hdr : Edits \union {Blank}]

TypeOK ==
    /\ mem \in [Blocks -> Edits] /\ glob \in Edits
    /\ fs_dirty \in BOOLEAN
    /\ disk \in [Blocks -> Edits] /\ hdr \in Edits \union {Blank}
    /\ pc \in {"idle", "header", "data", "clear"}
    /\ next \in Blocks
    /\ purpose \in {"none", "boot", "idle", "sync", "shutdown"}
    /\ power \in {"on", "shutdown", "reboot", "cut"}
    /\ edits \in Edits /\ boots \in 0 .. MaxBoots
    /\ saved \in Images /\ whole \in BOOLEAN
    /\ gaps \subseteq Gaps

history == <<saved, whole, gaps>>

NoImage == [blocks |-> [b \in Blocks |-> 0], hdr |-> Blank]

\* A machine that is off, with a blank disk.
Init ==
    /\ mem = [b \in Blocks |-> 0] /\ glob = 0 /\ fs_dirty = FALSE
    /\ disk = [b \in Blocks |-> 0] /\ hdr = Blank
    /\ pc = "idle" /\ next = 1 /\ purpose = "none"
    /\ power = "cut"
    /\ edits = 0 /\ boots = 0
    /\ saved = NoImage /\ whole = TRUE /\ gaps = {}

-----------------------------------------------------------------------------
(* start and end of a session *)

\* What fs_load leaves in memory, over the defaults: everything, or, when a
\* read fails, the blocks before it.
Loaded(k) == [b \in Blocks |-> IF b <= k THEN disk[b] ELSE 0]

\* fs_load succeeds: magic and version are right.  The demo files are written
\* after it, which marks the file system dirty.
BootFromDisk ==
    /\ power # "on" /\ boots < MaxBoots
    /\ hdr # Blank
    /\ \E k \in 0 .. NBlocks :
         /\ k < NBlocks => "read" \in Faults
         /\ mem' = Loaded(k)
         /\ gaps' = IF k < NBlocks THEN {"unread"} ELSE {}
    /\ glob' = hdr
    /\ fs_dirty' = TRUE
    /\ power' = "on" /\ boots' = boots + 1
    /\ UNCHANGED <<disk, hdr, pc, next, purpose, edits, saved, whole>>

\* Mutant of Rejected: the magic number is not compared.
RejectedAlways == TRUE
\* fs_load gives up at the header: no magic number.
Rejected == hdr = Blank

\* "First boot on a blank disk", or a header that cannot be read: the defaults
\* are saved.
BootFromDefaults ==
    /\ power # "on" /\ boots < MaxBoots
    /\ \/ Rejected /\ gaps' = {}
       \/ "read" \in Faults /\ gaps' = {"unread"}
    /\ mem' = [b \in Blocks |-> 0] /\ glob' = 0 /\ fs_dirty' = FALSE
    /\ pc' = "header" /\ purpose' = "boot"
    /\ power' = "on" /\ boots' = boots + 1
    /\ UNCHANGED <<disk, hdr, next, edits, saved, whole>>

\* The power fails.
PowerCut ==
    /\ power = "on" /\ "power" \in Faults
    /\ power' = "cut"
    /\ pc' = "idle" /\ next' = 1 /\ purpose' = "none"
    /\ UNCHANGED <<mem, glob, fs_dirty, disk, hdr, edits, boots, history>>

-----------------------------------------------------------------------------
(* edits *)

Edit(b) == /\ edits < MaxEdits
           /\ edits' = edits + 1
           /\ mem' = [mem EXCEPT ![b] = edits + 1]

\* Mutant of MarkDirty: the edit is not recorded.
MarkNothing == UNCHANGED fs_dirty
\* fs_mark_dirty.
MarkDirty == fs_dirty' = TRUE

Idle == power = "on" /\ pc = "idle"

\* File manager, text editor, paint: vfs_* functions, in the main thread.
GuiEdit ==
    /\ Idle /\ "gui" \in Editors
    /\ \E b \in Blocks : Edit(b)
    /\ MarkDirty
    /\ UNCHANGED <<glob, disk, hdr, pc, next, purpose, power, boots, history>>

\* SYS_CREATE, SYS_WRITE_FILE: at any time once the scheduler is active.
ProcessEdit ==
    /\ power = "on" /\ purpose # "boot" /\ "process" \in Editors
    /\ \E b \in Blocks : Edit(b)
    /\ MarkDirty
    /\ gaps' = gaps \union (IF pc = "idle" THEN {} ELSE {"raced"})
    /\ UNCHANGED <<glob, disk, hdr, pc, next, purpose, power, boots, saved,
                   whole>>

\* touch, mkdir, rm, echo >, cp, mv, nano...: file_system[] directly.
ShellEdit ==
    /\ Idle /\ "shell" \in Editors
    /\ \E b \in Blocks : Edit(b)
    /\ gaps' = gaps \union {"unmarked"}
    /\ UNCHANGED <<glob, fs_dirty, disk, hdr, pc, next, purpose, power, boots,
                   saved, whole>>

\* cd, or a bet in the casino.
ShellGlobal ==
    /\ Idle /\ "shell" \in Editors /\ edits < MaxEdits
    /\ edits' = edits + 1 /\ glob' = edits + 1
    /\ gaps' = gaps \union {"unmarked"}
    /\ UNCHANGED <<mem, fs_dirty, disk, hdr, pc, next, purpose, power, boots,
                   saved, whole>>

-----------------------------------------------------------------------------
(* fs_save and its callers *)

Save(who) ==
    /\ pc' = "header" /\ purpose' = who
    /\ gaps' = gaps \intersect {"formatted"}
    /\ UNCHANGED <<mem, glob, fs_dirty, disk, hdr, next, power, edits, boots,
                   saved, whole>>

\* The idle loop: fs_sync.
IdleFlush == Idle /\ fs_dirty /\ Save("idle")

Sync == Idle /\ Save("sync")

NeedsSave == fs_dirty

Shutdown == Idle /\ NeedsSave /\ Save("shutdown")

ShutdownClean ==
    /\ Idle /\ ~NeedsSave
    /\ power' = "shutdown"
    /\ UNCHANGED <<mem, glob, fs_dirty, disk, hdr, pc, next, purpose, edits,
                   boots, history>>

\* reboot saves nothing.
Reboot ==
    /\ Idle
    /\ power' = "reboot"
    /\ UNCHANGED <<mem, glob, fs_dirty, disk, hdr, pc, next, purpose, edits,
                   boots, history>>

\* fs_format.
Format ==
    /\ Idle
    /\ \/ hdr' = Blank
       \/ "write" \in Faults /\ UNCHANGED hdr
    /\ fs_dirty' = FALSE
    /\ gaps' = gaps \union {"formatted"}
    /\ UNCHANGED <<mem, glob, disk, pc, next, purpose, power, edits, boots,
                   saved, whole>>

\* fs_save returns to its caller: shutdown goes on to power off, the boot
\* sequence to write the demo files.
Returned(dirty) ==
    /\ pc' = "idle" /\ next' = 1 /\ purpose' = "none"
    /\ power' = IF purpose = "shutdown" THEN "shutdown" ELSE power
    /\ fs_dirty' = IF purpose = "boot" THEN TRUE ELSE dirty

\* The header comes first; when it cannot be written, fs_save gives up.
SaveHeader ==
    /\ power = "on" /\ pc = "header"
    /\ \/ /\ hdr' = glob
          /\ pc' = "data" /\ next' = 1
          /\ saved' = [blocks |-> mem, hdr |-> glob] /\ whole' = FALSE
          /\ gaps' = gaps \ {"formatted", "unread"}
          /\ UNCHANGED <<fs_dirty, purpose, power>>
       \/ /\ "write" \in Faults
          /\ Returned(fs_dirty)
          /\ gaps' = gaps \union {"failed"}
          /\ UNCHANGED <<hdr, saved, whole>>
    /\ UNCHANGED <<mem, glob, disk, edits, boots>>

\* Mutants of IsLast: one sector too few or too many.
IsLastEarly == next = NBlocks - 1
IsLastLate  == next = NBlocks + 1
IsLast == next = NBlocks

\* fs_disk_write does not look whether a sector was written.
SaveBlock ==
    /\ power = "on" /\ pc = "data"
    /\ \/ disk' = [disk EXCEPT ![next] = mem[next]] /\ UNCHANGED gaps
       \/ /\ "write" \in Faults
          /\ gaps' = gaps \union {"failed"} /\ UNCHANGED disk
    /\ pc' = IF IsLast THEN "clear" ELSE "data"
    /\ next' = IF IsLast THEN next ELSE next + 1
    /\ UNCHANGED <<mem, glob, fs_dirty, hdr, purpose, power, edits, boots,
                   saved, whole>>

SaveDone ==
    /\ power = "on" /\ pc = "clear"
    /\ Returned(FALSE)
    /\ whole' = (gaps \intersect {"raced", "failed"} = {})
    /\ UNCHANGED <<mem, glob, disk, hdr, edits, boots, saved, gaps>>

SaveStep == SaveHeader \/ SaveBlock \/ SaveDone

Next == \/ BootFromDisk \/ BootFromDefaults \/ PowerCut
        \/ GuiEdit \/ ProcessEdit \/ ShellEdit \/ ShellGlobal
        \/ IdleFlush \/ Sync \/ Shutdown \/ ShutdownClean \/ Reboot \/ Format
        \/ SaveStep

Spec == Init /\ [][Next]_vars

\* The main thread keeps running: its idle loop comes round, and a save it
\* has begun goes on.
FairSpec == Spec /\ WF_vars(IdleFlush) /\ WF_vars(SaveStep)

-----------------------------------------------------------------------------
(* Properties *)

OnDisk == hdr = glob /\ disk = mem

\* When nothing is dirty, memory is on disk: "GUI edits mark the FS dirty and
\* the idle loop flushes" (kernel.c:11734).  What can be forgotten was edited
\* by the shell or by a process during a save, or was lost to a bad sector or
\* a format.
CleanUnlessGap == Idle /\ ~fs_dirty /\ gaps = {} => OnDisk

\* After shutdown everything is on disk ("auto-saves the VFS first",
\* README.md:836), save for the same gaps.
ShutdownKeeps == power = "shutdown" /\ gaps = {} => OnDisk

\* When a save ended undisturbed, the disk has the image memory had when it
\* began, whatever is edited, cut or rebooted since; and the next boot
\* restores it: "fs_load() restores a previously saved image"
\* (kernel.c:11735-11736).
SavedIsOnDisk == whole /\ hdr # Blank => disk = saved.blocks /\ hdr = saved.hdr
BootRestores ==
    [][power # "on" /\ power' = "on" /\ whole /\ hdr # Blank
         => \/ mem' = saved.blocks /\ glob' = saved.hdr
            \/ "unread" \in gaps']_vars

\* Every edit reaches the disk, unless the machine is turned off or one
\* of the gaps opens.
EditsReachDisk == ~OnDisk ~> OnDisk \/ power # "on" \/ gaps # {}
=============================================================================
