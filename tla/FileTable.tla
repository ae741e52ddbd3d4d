----------------------------- MODULE FileTable -----------------------------
(***************************************************************************)
(* The directory structure of the in-memory file system of                 *)
(* kernel/kernel.c: which entries of file_system[] exist, under which name *)
(* and in which directory.  There is no tree in memory, only a parent_id   *)
(* in each entry.                                                          *)
(*                                                                         *)
(* SYS_CREATE runs with interrupts masked.  The shell (main thread) fills  *)
(* an entry one field after the other and can be preempted by a process in *)
(* between.  Contents are the subject of FileContent.                      *)
(***************************************************************************)
EXTENDS Integers, FiniteSets

CONSTANTS
    MaxEntries, \* MAX_FILES
    Names,      \* file names
    Parents,    \* the parent ids that processes pass to SYS_CREATE
    CommandSets \* the sets of shell commands users may type

ASSUME TableAssumption ==
    /\ MaxEntries \in Nat \ {0}
    /\ Parents \subseteq Nat
    /\ UNION CommandSets \subseteq {"mkdir", "touch", "rm", "mv", "cp", "cd"}

Ids  == 1 .. MaxEntries       \* the id of an entry: its index plus 1
Root == 0

VARIABLES
    entry_exists, entry_type, name, parent,   \* fields of file_system[]
    current_dir_id,
    commands,                     \* what this user types
    fill_pc, slot, want,               \* an entry the shell is filling
    made,                         \* history: the files that processes made
                                  \* and nobody removed or renamed
    typed                         \* history: kinds of commands used so far;
                                  \* stray: a process named as parent what
                                  \* is no directory

entryVars == <<entry_exists, entry_type, name, parent>>
filling == <<fill_pc, slot, want>>
tableHistory == <<made, typed>>
tableVars    == <<entryVars, current_dir_id, commands, filling, tableHistory>>

NoEntry == <<>>
Wants == [type : {"file", "dir"}, name : Names, parent : Nat]

TableTypeOK ==
    /\ entry_exists \in [Ids -> BOOLEAN]
    /\ entry_type \in [Ids -> {"file", "dir"}]
    /\ name \in [Ids -> Names]
    /\ parent \in [Ids -> Ids \union {Root} \union Parents]
    /\ current_dir_id \in Ids \union {Root}
    /\ commands \in CommandSets
    /\ fill_pc \in {"idle", "name", "type", "exists", "parent"}
    /\ slot \in Ids \union {0}
    /\ want \in Wants \union {NoEntry}
    /\ typed \subseteq {"make", "rm", "mv", "cd", "stray"}
    /\ made \subseteq (Ids \X Names \X (Ids \union {Root} \union Parents))

\* fs_init has made one directory in the root.
TableInit ==
    /\ entry_exists = [s \in Ids |-> s = 1]
    /\ entry_type = [s \in Ids |-> IF s = 1 THEN "dir" ELSE "file"]
    /\ name \in {f \in [Ids -> Names] : \A s, t \in Ids : f[s] = f[t]}
    /\ parent = [s \in Ids |-> Root]
    /\ current_dir_id = Root /\ commands \in CommandSets
    /\ fill_pc = "idle" /\ slot = 0 /\ want = NoEntry
    /\ made = {} /\ typed = {}

\* next_free_slot.
IsNextFreeEntry(s) == /\ ~entry_exists[s]
                      /\ \A t \in Ids : ~entry_exists[t] => s <= t

Matches(n, dir) == {s \in Ids : entry_exists[s] /\ name[s] = n /\ parent[s] = dir}
\* The first entry named n in the directory dir, what every lookup finds.
IsFound(s, n, dir) == s \in Matches(n, dir) /\ \A t \in Matches(n, dir) : s <= t

IsDirectory(id) == id = Root \/ (id \in Ids /\ entry_exists[id] /\ entry_type[id] = "dir")

-----------------------------------------------------------------------------
(* a process *)

\* Mutant of SearchedDir: a parent is never looked into.
SearchedCwd(par) == current_dir_id
\* vfs_find takes parent 0 for the current directory ...
SearchedDir(par) == IF par = 0 THEN current_dir_id ELSE par

\* ... while vfs_create_file takes it for the root.  SYS_CREATE of a name that
\* is found changes no entry.  Nothing looks what the parent is.
SysCreateEntry(n, par) ==
    /\ Matches(n, SearchedDir(par)) = {}
    /\ \E s \in Ids :
         /\ IsNextFreeEntry(s)
         /\ entry_exists' = [entry_exists EXCEPT ![s] = TRUE]
         /\ entry_type' = [entry_type EXCEPT ![s] = "file"]
         /\ name' = [name EXCEPT ![s] = n]
         /\ parent' = [parent EXCEPT ![s] = par]
         /\ made'   = made \union {<<s, n, par>>}
    /\ typed' = typed \union (IF IsDirectory(par) THEN {} ELSE {"stray"})
    /\ UNCHANGED <<current_dir_id, filling>>

-----------------------------------------------------------------------------
(* the shell *)

Kind(command) == IF command \in {"mkdir", "touch", "cp"} THEN "make" ELSE command

Typed(command) == /\ fill_pc = "idle" /\ command \in commands
                  /\ typed' = typed \union {Kind(command)}

\* mkdir, touch (also nano, echo >, tee, write of a new name) and cp: no
\* command looks whether the name is taken.
BeginEntry(w) ==
    /\ \E s \in Ids : IsNextFreeEntry(s) /\ slot' = s
    /\ want' = w
    /\ fill_pc' = "name"
    /\ UNCHANGED <<entryVars, current_dir_id, made>>

Mkdir(n) == /\ Typed("mkdir")
            /\ BeginEntry([type |-> "dir", name |-> n, parent |-> current_dir_id])
Touch(n) == /\ Typed("touch")
            /\ BeginEntry([type |-> "file", name |-> n, parent |-> current_dir_id])
Cp(n, new) ==
    /\ Typed("cp")
    /\ \E s \in Ids :
         /\ IsFound(s, n, current_dir_id)
         /\ BeginEntry([type |-> entry_type[s], name |-> new, parent |-> parent[s]])

\* The fields are stored one after the other.
StoreName ==
    /\ fill_pc = "name"
    /\ name' = [name EXCEPT ![slot] = want.name]
    /\ fill_pc' = "type"
    /\ UNCHANGED <<entry_exists, entry_type, parent, current_dir_id, slot, want, tableHistory>>

StoreType ==
    /\ fill_pc = "type"
    /\ entry_type' = [entry_type EXCEPT ![slot] = want.type]
    /\ fill_pc' = "exists"
    /\ UNCHANGED <<entry_exists, name, parent, current_dir_id, slot, want, tableHistory>>

StoreExists ==
    /\ fill_pc = "exists"
    /\ entry_exists' = [entry_exists EXCEPT ![slot] = TRUE]
    /\ fill_pc' = "parent"
    /\ UNCHANGED <<entry_type, name, parent, current_dir_id, slot, want, tableHistory>>

\* Mutant of StoredParent: the id of the entry itself.
StoredOwnId == slot
StoredParent == want.parent

StoreParent ==
    /\ fill_pc = "parent"
    /\ parent' = [parent EXCEPT ![slot] = StoredParent]
    /\ fill_pc' = "idle" /\ slot' = 0 /\ want' = NoEntry
    /\ UNCHANGED <<entry_exists, entry_type, name, current_dir_id, tableHistory>>

Forgotten(s) == {m \in made : m[1] = s}

\* rm of a name or of an absolute path: directories too, also a full one or
\* the current one.
Rm(n) ==
    /\ Typed("rm")
    /\ \E s \in Ids, dir \in {current_dir_id, Root} :
         /\ IsFound(s, n, dir)
         /\ entry_exists' = [entry_exists EXCEPT ![s] = FALSE]
         /\ made' = made \ Forgotten(s)
    /\ UNCHANGED <<entry_type, name, parent, current_dir_id, filling>>

\* Mutant of Renamed: the entry in the slot behind it is renamed.
RenamedNext(s, n) == [name EXCEPT ![IF s < MaxEntries THEN s + 1 ELSE s] = n]
Renamed(s, n) == [name EXCEPT ![s] = n]

\* mv only renames; the new name may be taken.
Mv(n, new) ==
    /\ Typed("mv")
    /\ \E s \in Ids :
         /\ IsFound(s, n, current_dir_id)
         /\ name' = Renamed(s, new)
         /\ made' = made \ Forgotten(s)
    /\ UNCHANGED <<entry_exists, entry_type, parent, current_dir_id, filling>>

MayEnter(s) == entry_type[s] = "dir"

Cd(n) ==
    /\ Typed("cd")
    /\ \E s \in Ids :
         /\ IsFound(s, n, current_dir_id)
         /\ MayEnter(s)
         /\ current_dir_id' = s
    /\ UNCHANGED <<entryVars, filling, made>>

\* cd ..: nothing happens when the current directory was removed.
CdUp ==
    /\ Typed("cd")
    /\ current_dir_id # Root
    /\ IsDirectory(current_dir_id)
    /\ parent[current_dir_id] \in Ids \union {Root}
    /\ current_dir_id' = parent[current_dir_id]
    /\ UNCHANGED <<entryVars, filling, made>>

CdRoot == Typed("cd") /\ current_dir_id' = Root /\ UNCHANGED <<entryVars, filling, made>>

TableNext ==
    /\ \/ \E n \in Names, par \in Parents : SysCreateEntry(n, par)
       \/ \E n \in Names : Mkdir(n) \/ Touch(n) \/ Rm(n) \/ Cd(n)
       \/ \E n, new \in Names : Cp(n, new) \/ Mv(n, new)
       \/ StoreName \/ StoreType \/ StoreExists \/ StoreParent
       \/ CdUp \/ CdRoot
    /\ UNCHANGED commands

TableSpec == TableInit /\ [][TableNext /\ UNCHANGED commands]_tableVars

-----------------------------------------------------------------------------
(* Properties *)

\* Within a directory a name stands for one entry: SYS_CREATE is
\* "open-or-create" (Syscall.cpp:226).
UniqueNames ==
    \A s, t \in Ids : entry_exists[s] /\ entry_exists[t] /\ name[s] = name[t]
                        /\ parent[s] = parent[t] => s = t

\* Processes keep to that, also while the shell removes entries and slots are
\* reused, as long as nobody leaves the root, renames or makes an entry.
CallsKeepNamesUnique == typed \subseteq {"rm", "stray"} => UniqueNames

\* Every entry is in the root or in an existing directory.
ParentsExist == \A s \in Ids : entry_exists[s] => IsDirectory(parent[s])

\* No directory is its own ancestor: with ParentsExist, going up from any
\* entry ends in the root.
NoCycle ==
    \A S \in (SUBSET Ids) \ {{}} : \E s \in S : ~entry_exists[s] \/ parent[s] \notin S

\* The current directory is the root or an existing directory, so names typed
\* by the user always resolve inside the tree.
CwdExists == IsDirectory(current_dir_id)

\* Until something is removed, or a process names a parent that is no
\* directory, the entries form a tree with the current directory in it, even
\* though a process may take the slot that the shell is filling.
GrowsAsTree ==
    typed \intersect {"rm", "stray"} = {} => ParentsExist /\ NoCycle /\ CwdExists

\* A file that a process made is there, under its name and in its directory,
\* until somebody removes or renames it: vfs_create_file returns "the new
\* entry id (> 0) on success" (vfs.h:36).
MadeFilesKept ==
    \A m \in made : /\ entry_exists[m[1]] /\ entry_type[m[1]] = "file"
                    /\ name[m[1]] = m[2] /\ parent[m[1]] = m[3]

\* That holds as long as the shell makes no entries itself, with slots being
\* freed, reused and renamed all the time.
CallsKeepFiles == "make" \notin typed => MadeFilesKept
=============================================================================
