----------------------------- MODULE VfsProofs -----------------------------
(***************************************************************************)
(* Proofs about the in-memory file system: what system calls and shell     *)
(* leave of names, files and the directory tree while a command fills an   *)
(* entry in, store by store; whose bytes a file holds; and that contents   *)
(* and descriptors, seen through the system calls, are the sequences and   *)
(* cursors of ByteStreams.                                                 *)
(***************************************************************************)
EXTENDS FileTable, FileContent, TLAPS, FiniteSetTheorems, WellFoundedInduction, SequenceTheorems

-----------------------------------------------------------------------------
(* Names and directories: types *)

Dirs == Ids \union {Root} \union Parents

\* What the shell is storing.
FillSane ==
    fill_pc # "idle" =>
      /\ slot \in Ids /\ want \in Wants
      /\ want.name \in Names /\ want.type \in {"file", "dir"}
      /\ want.parent \in Ids \union {Root}

TableTyped == TableTypeOK /\ FillSane

\* The empty table.
LEMMA TableTypedStart == TableInit => TableTyped
<1> SUFFICES ASSUME TableInit
             PROVE  TableTyped
  OBVIOUS
<1>1. /\ entry_exists \in [Ids -> BOOLEAN] /\ entry_type \in [Ids -> {"file", "dir"}]
      /\ name \in [Ids -> Names] /\ parent \in [Ids -> Dirs]
  BY DEF TableInit, Dirs
<1> QED
  BY <1>1 DEF TableInit, TableTyped, TableTypeOK, FillSane, Dirs

\* SYS_CREATE keeps the types.
LEMMA CreateTyped ==
    ASSUME TableTyped, NEW n \in Names, NEW par \in Parents, SysCreateEntry(n, par),
           UNCHANGED commands
    PROVE  TableTyped'
<1>1. PICK s \in Ids :
        /\ entry_exists' = [entry_exists EXCEPT ![s] = TRUE]
        /\ entry_type' = [entry_type EXCEPT ![s] = "file"]
        /\ name' = [name EXCEPT ![s] = n] /\ parent' = [parent EXCEPT ![s] = par]
        /\ made' = made \union {<<s, n, par>>}
  BY DEF SysCreateEntry
<1>2. typed' \subseteq typed \union {"stray"} /\ UNCHANGED <<current_dir_id, fill_pc, slot, want>>
  BY DEF SysCreateEntry, filling
<1>3. TableTypeOK'
  BY <1>1, <1>2 DEF TableTyped, TableTypeOK
<1> QED
  BY <1>2, <1>3 DEF TableTyped, FillSane

\* So does each of the four stores that make an entry in the shell.
LEMMA FillTyped ==
    ASSUME TableTyped, UNCHANGED commands, StoreName \/ StoreType \/ StoreExists \/ StoreParent
    PROVE  TableTyped'
<1>1. slot \in Ids /\ want \in Wants /\ want.name \in Names /\ want.type \in {"file", "dir"}
      /\ want.parent \in Ids \union {Root}
  BY DEF TableTyped, FillSane, StoreName, StoreType, StoreExists, StoreParent
<1>2. CASE StoreName
  BY <1>1, <1>2 DEF StoreName, TableTyped, TableTypeOK, FillSane, tableHistory
<1>3. CASE StoreType
  BY <1>1, <1>3 DEF StoreType, TableTyped, TableTypeOK, FillSane, tableHistory
<1>4. CASE StoreExists
  BY <1>1, <1>4 DEF StoreExists, TableTyped, TableTypeOK, FillSane, tableHistory
<1>5. CASE StoreParent
  BY <1>1, <1>5 DEF StoreParent, StoredParent, TableTyped, TableTypeOK, FillSane, tableHistory
<1> QED
  BY <1>2, <1>3, <1>4, <1>5

\* So does the first of them.
LEMMA BeginTyped ==
    ASSUME TableTyped, UNCHANGED commands, NEW w \in Wants, BeginEntry(w),
           w.parent \in Ids \union {Root}, typed' \subseteq typed \union {"make"}
    PROVE  TableTyped'
<1>1. w.name \in Names /\ w.type \in {"file", "dir"}
  BY DEF Wants
<1>2. slot' \in Ids /\ want' = w /\ fill_pc' = "name" /\ UNCHANGED <<entryVars, current_dir_id, made>>
  BY DEF BeginEntry
<1> QED
  BY <1>1, <1>2 DEF entryVars, TableTyped, TableTypeOK, FillSane

\* What mkdir, touch and cp begin with: an entry for the current directory.
LEMMA BegunHere ==
    ASSUME TableTyped, NEW n \in Names, NEW new \in Names, Mkdir(n) \/ Touch(n) \/ Cp(n, new)
    PROVE  /\ fill_pc = "idle" /\ typed' = typed \union {"make"}
           /\ \E w \in Wants : BeginEntry(w) /\ w.parent = current_dir_id
<1>1. current_dir_id \in Nat /\ current_dir_id \in Ids \union {Root}
  BY TableAssumption DEF TableTyped, TableTypeOK, Ids, Root
<1>2. CASE Mkdir(n)
  <2>1. [type |-> "dir", name |-> n, parent |-> current_dir_id] \in Wants
    BY <1>1 DEF Wants
  <2> QED
    BY <1>2, <2>1 DEF Mkdir, Typed, Kind
<1>3. CASE Touch(n)
  <2>1. [type |-> "file", name |-> n, parent |-> current_dir_id] \in Wants
    BY <1>1 DEF Wants
  <2> QED
    BY <1>3, <2>1 DEF Touch, Typed, Kind
<1>4. CASE Cp(n, new)
  <2>1. PICK s \in Ids : /\ IsFound(s, n, current_dir_id)
                         /\ BeginEntry([type |-> entry_type[s], name |-> new, parent |-> parent[s]])
    BY <1>4 DEF Cp
  <2>2. parent[s] = current_dir_id /\ entry_type[s] \in {"file", "dir"}
    BY <2>1 DEF IsFound, Matches, TableTyped, TableTypeOK
  <2>3. [type |-> entry_type[s], name |-> new, parent |-> parent[s]] \in Wants
    BY <1>1, <2>2 DEF Wants
  <2> QED
    BY <1>4, <2>1, <2>2, <2>3 DEF Cp, Typed, Kind
<1> QED
  BY <1>2, <1>3, <1>4

\* So do the commands that make no entry.
LEMMA CommandsTyped ==
    ASSUME TableTyped, UNCHANGED commands, NEW n \in Names, NEW new \in Names,
           Rm(n) \/ Mv(n, new) \/ Cd(n) \/ CdUp \/ CdRoot
    PROVE  TableTyped'
<1>1. CASE Rm(n)
  <2>1. PICK s \in Ids : /\ entry_exists' = [entry_exists EXCEPT ![s] = FALSE]
                         /\ made' = made \ Forgotten(s)
    BY <1>1 DEF Rm
  <2>2. typed' = typed \union {"rm"}
        /\ UNCHANGED <<entry_type, name, parent, current_dir_id, fill_pc, slot, want>>
    BY <1>1 DEF Rm, Typed, Kind, filling
  <2> QED
    BY <2>1, <2>2 DEF TableTyped, TableTypeOK, FillSane
<1>2. CASE Mv(n, new)
  <2>1. PICK s \in Ids : name' = [name EXCEPT ![s] = new] /\ made' = made \ Forgotten(s)
    BY <1>2 DEF Mv, Renamed
  <2>2. typed' = typed \union {"mv"}
        /\ UNCHANGED <<entry_exists, entry_type, parent, current_dir_id, fill_pc, slot, want>>
    BY <1>2 DEF Mv, Typed, Kind, filling
  <2> QED
    BY <2>1, <2>2 DEF TableTyped, TableTypeOK, FillSane
<1>3. CASE Cd(n) \/ CdUp \/ CdRoot
  <2>1. typed' = typed \union {"cd"} /\ UNCHANGED <<entryVars, filling, made>>
        /\ current_dir_id' \in Ids \union {Root}
    BY <1>3 DEF Cd, CdUp, CdRoot, Typed, Kind
  <2> QED
    BY <2>1 DEF entryVars, filling, TableTyped, TableTypeOK, FillSane
<1> QED
  BY <1>1, <1>2, <1>3

\* What a step of the table is, once over.
LEMMA TableCases ==
    ASSUME TableTyped, [TableNext /\ UNCHANGED commands]_tableVars
    PROVE  \/ UNCHANGED tableVars
           \/ UNCHANGED commands /\ \E n \in Names, par \in Parents : SysCreateEntry(n, par)
           \/ /\ UNCHANGED commands /\ fill_pc = "idle" /\ typed' = typed \union {"make"}
              /\ \E w \in Wants : BeginEntry(w) /\ w.parent = current_dir_id
           \/ UNCHANGED commands /\ (StoreName \/ StoreType \/ StoreExists \/ StoreParent)
           \/ /\ UNCHANGED commands
              /\ \E n, new \in Names : Rm(n) \/ Mv(n, new) \/ Cd(n) \/ CdUp \/ CdRoot
<1>1. CASE \E n \in Names : Mkdir(n) \/ Touch(n)
  BY <1>1, BegunHere
<1>2. CASE \E n, new \in Names : Cp(n, new)
  BY <1>2, BegunHere
<1>3. CASE CdUp \/ CdRoot
  <2>1. \E n \in Names : TRUE
    BY TableAssumption DEF TableTyped, TableTypeOK, Ids
  <2> QED
    BY <1>3, <2>1 DEF TableNext
<1> QED
  BY <1>1, <1>2, <1>3 DEF TableNext

\* The types are kept.
LEMMA TableTypedStep ==
    TableTyped /\ [TableNext /\ UNCHANGED commands]_tableVars => TableTyped'
<1> SUFFICES ASSUME TableTyped, [TableNext /\ UNCHANGED commands]_tableVars
             PROVE  TableTyped'
  OBVIOUS
<1>1. CASE UNCHANGED tableVars
  BY <1>1 DEF tableVars, entryVars, filling, tableHistory, TableTyped, TableTypeOK, FillSane
<1>2. CASE UNCHANGED commands /\ \E n \in Names, par \in Parents : SysCreateEntry(n, par)
  BY <1>2, CreateTyped
<1>3. CASE /\ UNCHANGED commands /\ fill_pc = "idle" /\ typed' = typed \union {"make"}
           /\ \E w \in Wants : BeginEntry(w) /\ w.parent = current_dir_id
  BY <1>3, BeginTyped DEF TableTyped, TableTypeOK
<1>4. CASE UNCHANGED commands /\ (StoreName \/ StoreType \/ StoreExists \/ StoreParent)
  BY <1>4, FillTyped
<1>5. CASE UNCHANGED commands /\ \E n, new \in Names : Rm(n) \/ Mv(n, new) \/ Cd(n) \/ CdUp \/ CdRoot
  BY <1>5, CommandsTyped
<1> QED
  BY <1>1, <1>2, <1>3, <1>4, <1>5, TableCases

\* And so hold always.
LEMMA TableTypedKept == TableSpec => []TableTyped
  BY TableTypedStart, TableTypedStep, PTL DEF TableSpec

-----------------------------------------------------------------------------
(* Names and directories: what processes rely on *)

\* As long as the shell only removes entries, it fills none and stays in the root.
NamesInv ==
    TableTyped /\ (typed \subseteq {"rm", "stray"} =>
                     fill_pc = "idle" /\ current_dir_id = Root /\ UniqueNames)

\* Names: every step keeps the invariant.
LEMMA NamesStep ==
    NamesInv /\ [TableNext /\ UNCHANGED commands]_tableVars => NamesInv'
<1> SUFFICES ASSUME NamesInv, [TableNext /\ UNCHANGED commands]_tableVars,
                    typed' \subseteq {"rm", "stray"}
             PROVE  (fill_pc = "idle" /\ current_dir_id = Root /\ UniqueNames)'
  BY TableTypedStep DEF NamesInv
<1>1. CASE UNCHANGED tableVars
  BY <1>1 DEF tableVars, entryVars, filling, tableHistory, NamesInv, UniqueNames
<1>2. CASE \E n \in Names, par \in Parents : SysCreateEntry(n, par)
  <2>1. PICK n \in Names, par \in Parents : SysCreateEntry(n, par)
    BY <1>2
  <2>2. PICK s \in Ids :
        /\ IsNextFreeEntry(s)
        /\ entry_exists' = [entry_exists EXCEPT ![s] = TRUE]
        /\ name' = [name EXCEPT ![s] = n] /\ parent' = [parent EXCEPT ![s] = par]
    BY <2>1 DEF SysCreateEntry
  <2>3. typed \subseteq {"rm", "stray"} /\ UNCHANGED <<current_dir_id, filling>>
    BY <2>1 DEF SysCreateEntry
  <2>4. fill_pc = "idle" /\ current_dir_id = Root /\ UniqueNames
    BY <2>3 DEF NamesInv
  <2>5. \A t \in Ids : ~(entry_exists[t] /\ name[t] = n /\ parent[t] = par)
    BY <2>1, <2>4 DEF SysCreateEntry, SearchedDir, Matches, Root
  <2>6. UniqueNames'
    BY <2>2, <2>4, <2>5 DEF UniqueNames, NamesInv, TableTyped, TableTypeOK
  <2> QED
    BY <2>3, <2>4, <2>6 DEF filling
<1>3. CASE typed' = typed \union {"make"}
  BY <1>3
<1>4. CASE StoreName \/ StoreType \/ StoreExists \/ StoreParent
  <2>1. fill_pc # "idle" /\ typed' = typed
    BY <1>4 DEF StoreName, StoreType, StoreExists, StoreParent, tableHistory
  <2> QED
    BY <2>1 DEF NamesInv
<1>5. CASE \E n, new \in Names : Rm(n) \/ Mv(n, new) \/ Cd(n) \/ CdUp \/ CdRoot
  <2>1. PICK n \in Names : Rm(n)
    BY <1>5 DEF Mv, Cd, CdUp, CdRoot, Typed, Kind
  <2>2. PICK s \in Ids : entry_exists' = [entry_exists EXCEPT ![s] = FALSE]
    BY <2>1 DEF Rm
  <2>3. typed \subseteq {"rm", "stray"} /\ UNCHANGED <<name, parent, current_dir_id, filling>>
    BY <2>1 DEF Rm, Typed
  <2> QED
    BY <2>2, <2>3 DEF NamesInv, UniqueNames, filling, TableTyped, TableTypeOK
<1> QED
  BY <1>1, <1>2, <1>3, <1>4, <1>5, TableCases DEF NamesInv

\* Among the entries that processes make a name stands for one entry of its directory, with slots
\* freed by rm and taken again in any order: SYS_CREATE opens what is there or makes it.
THEOREM NamesStayUnique == TableSpec => []CallsKeepNamesUnique
<1>1. TableInit => NamesInv
  BY TableTypedStart DEF TableInit, NamesInv, UniqueNames
<1>2. NamesInv => CallsKeepNamesUnique
  BY DEF NamesInv, CallsKeepNamesUnique
<1> QED
  BY <1>1, <1>2, NamesStep, PTL DEF TableSpec

\* Without entries of the shell there is no half-filled one that could take a process's slot.
FilesInv ==
    TableTyped /\ ("make" \notin typed => fill_pc = "idle" /\ MadeFilesKept)

\* Files: every step keeps the invariant.
LEMMA FilesStep ==
    FilesInv /\ [TableNext /\ UNCHANGED commands]_tableVars => FilesInv'
<1> SUFFICES ASSUME FilesInv, [TableNext /\ UNCHANGED commands]_tableVars, "make" \notin typed'
             PROVE  (fill_pc = "idle" /\ MadeFilesKept)'
  BY TableTypedStep DEF FilesInv
<1>1. CASE UNCHANGED tableVars
  BY <1>1 DEF tableVars, entryVars, filling, tableHistory, FilesInv, MadeFilesKept
<1>2. CASE \E n \in Names, par \in Parents : SysCreateEntry(n, par)
  <2>1. PICK n \in Names, par \in Parents : SysCreateEntry(n, par)
    BY <1>2
  <2>2. PICK s \in Ids :
        /\ ~entry_exists[s]
        /\ entry_exists' = [entry_exists EXCEPT ![s] = TRUE]
        /\ entry_type' = [entry_type EXCEPT ![s] = "file"]
        /\ name' = [name EXCEPT ![s] = n] /\ parent' = [parent EXCEPT ![s] = par]
        /\ made' = made \union {<<s, n, par>>}
    BY <2>1 DEF SysCreateEntry, IsNextFreeEntry
  <2>3. "make" \notin typed /\ UNCHANGED <<current_dir_id, filling>>
    BY <2>1 DEF SysCreateEntry
  <2>4. fill_pc = "idle" /\ MadeFilesKept
    BY <2>3 DEF FilesInv
  <2>5. \A m \in made : m[1] \in Ids /\ m[1] # s
    BY <2>2, <2>4 DEF MadeFilesKept, FilesInv, TableTyped, TableTypeOK
  <2>6. MadeFilesKept'
    BY <2>2, <2>4, <2>5 DEF MadeFilesKept, FilesInv, TableTyped, TableTypeOK
  <2> QED
    BY <2>3, <2>4, <2>6 DEF filling
<1>3. CASE typed' = typed \union {"make"}
  BY <1>3
<1>4. CASE StoreName \/ StoreType \/ StoreExists \/ StoreParent
  <2>1. fill_pc # "idle" /\ typed' = typed
    BY <1>4 DEF StoreName, StoreType, StoreExists, StoreParent, tableHistory
  <2> QED
    BY <2>1 DEF FilesInv
<1>5. CASE \E n, new \in Names : Rm(n) \/ Mv(n, new) \/ Cd(n) \/ CdUp \/ CdRoot
  <2>1. PICK n \in Names, new \in Names : Rm(n) \/ Mv(n, new) \/ Cd(n) \/ CdUp \/ CdRoot
    BY <1>5
  <2>2. "make" \notin typed /\ UNCHANGED filling
    BY <2>1 DEF Rm, Mv, Cd, CdUp, CdRoot, Typed
  <2>3. fill_pc = "idle" /\ MadeFilesKept /\ fill_pc' = "idle"
    BY <2>2 DEF FilesInv, filling
  <2>4. CASE Rm(n)
    <3>1. PICK s \in Ids : /\ entry_exists' = [entry_exists EXCEPT ![s] = FALSE]
                           /\ made' = made \ Forgotten(s)
      BY <2>4 DEF Rm
    <3>2. UNCHANGED <<entry_type, name, parent>>
      BY <2>4 DEF Rm
    <3> QED
      BY <2>3, <3>1, <3>2 DEF MadeFilesKept, Forgotten, FilesInv, TableTyped, TableTypeOK
  <2>5. CASE Mv(n, new)
    <3>1. PICK s \in Ids : name' = [name EXCEPT ![s] = new] /\ made' = made \ Forgotten(s)
      BY <2>5 DEF Mv, Renamed
    <3>2. UNCHANGED <<entry_exists, entry_type, parent>>
      BY <2>5 DEF Mv
    <3> QED
      BY <2>3, <3>1, <3>2 DEF MadeFilesKept, Forgotten, FilesInv, TableTyped, TableTypeOK
  <2>6. CASE Cd(n) \/ CdUp \/ CdRoot
    <3>1. UNCHANGED <<entry_exists, entry_type, name, parent, made>>
      BY <2>6 DEF Cd, CdUp, CdRoot, entryVars
    <3> QED
      BY <2>3, <3>1 DEF MadeFilesKept
  <2> QED
    BY <2>1, <2>4, <2>5, <2>6
<1> QED
  BY <1>1, <1>2, <1>3, <1>4, <1>5, TableCases DEF FilesInv

\* A file that SYS_CREATE made keeps its entry, name and directory until somebody removes or renames
\* it, while slots are freed and taken again around it.
THEOREM FilesStayMade == TableSpec => []CallsKeepFiles
<1>1. TableInit => FilesInv
  BY TableTypedStart DEF TableInit, FilesInv, MadeFilesKept
<1>2. FilesInv => CallsKeepFiles
  BY DEF FilesInv, CallsKeepFiles
<1> QED
  BY <1>1, <1>2, FilesStep, PTL DEF TableSpec

-----------------------------------------------------------------------------
(* Names and directories: the tree *)

\* The directory a half-filled entry will be put in has only ancestors that do not lead through the
\* slot being filled, whatever a process has put there meanwhile.
Ancestors(A, d, s) ==
    /\ A \subseteq Ids \ {s} /\ d \in A \union {Root}
    /\ \A a \in A : entry_exists[a] /\ parent[a] \in A \union {Root}

FillPlaced ==
    fill_pc # "idle" =>
      /\ IsDirectory(want.parent)
      /\ \E A \in SUBSET Ids : Ancestors(A, want.parent, slot)
      /\ fill_pc \in {"name", "type"} /\ entry_exists[slot] => entry_type[slot] = "file"
      /\ fill_pc = "parent" => entry_exists[slot]

\* Slots that were never used are as fs_init left them.
Untouched == \A s \in Ids : ~entry_exists[s] => parent[s] = Root

Grown == ParentsExist /\ NoCycle /\ CwdExists /\ FillPlaced /\ Untouched

TreeInv == TableTyped /\ (typed \intersect {"rm", "stray"} = {} => Grown)

\* An entry that appears in a free slot, below a directory, closes no cycle.
LEMMA NewLeaf ==
    ASSUME TableTyped, ParentsExist, NoCycle, NEW s \in Ids, ~entry_exists[s],
           NEW d, IsDirectory(d), entry_exists' = [entry_exists EXCEPT ![s] = TRUE],
           \A t \in Ids \ {s} : parent'[t] = parent[t], parent'[s] = d
    PROVE  NoCycle'
<1> SUFFICES ASSUME NEW S \in SUBSET Ids, S # {}
             PROVE  \E t \in S : ~entry_exists'[t] \/ parent'[t] \notin S
  BY DEF NoCycle
<1>1. \A t \in Ids \ {s} : entry_exists'[t] = entry_exists[t] /\ parent'[t] = parent[t]
  BY DEF TableTyped, TableTypeOK
<1>2. CASE s \notin S
  <2>1. PICK t \in S : ~entry_exists[t] \/ parent[t] \notin S
    BY DEF NoCycle
  <2> QED
    BY <1>1, <1>2, <2>1
<1>3. CASE S = {s}
  <2>1. d # s
    BY DEF IsDirectory, Root, Ids
  <2> QED
    BY <1>3, <2>1
<1>4. CASE s \in S /\ S # {s}
  <2>1. PICK t \in S \ {s} : ~entry_exists[t] \/ parent[t] \notin S \ {s}
    BY <1>4 DEF NoCycle
  <2>2. entry_exists[t] => parent[t] # s
    BY DEF ParentsExist, IsDirectory, Root, Ids
  <2> QED
    BY <1>1, <2>1, <2>2
<1> QED
  BY <1>2, <1>3, <1>4

\* What is a directory stays one as long as no entry is removed.
LEMMA DirectoriesStay ==
    ASSUME \A t \in Ids : entry_exists[t] => entry_exists'[t],
           \A t \in Ids : entry_exists[t] /\ entry_type[t] = "dir" => entry_type'[t] = "dir"
    PROVE  \A d : IsDirectory(d) => IsDirectory(d)'
  BY DEF IsDirectory

\* SYS_CREATE into a directory adds a leaf.
LEMMA CreateGrows ==
    ASSUME TableTyped, Grown, NEW n \in Names, NEW par \in Parents, SysCreateEntry(n, par),
           "stray" \notin typed'
    PROVE  Grown'
<1>1. IsDirectory(par)
  BY DEF SysCreateEntry
<1>2. PICK s \in Ids :
        /\ ~entry_exists[s]
        /\ entry_exists' = [entry_exists EXCEPT ![s] = TRUE]
        /\ entry_type' = [entry_type EXCEPT ![s] = "file"]
        /\ parent' = [parent EXCEPT ![s] = par]
  BY DEF SysCreateEntry, IsNextFreeEntry
<1>3. UNCHANGED <<current_dir_id, fill_pc, slot, want>>
  BY DEF SysCreateEntry, filling
<1>4. /\ entry_exists'[s] /\ entry_type'[s] = "file" /\ parent'[s] = par
      /\ \A t \in Ids \ {s} : /\ entry_exists'[t] = entry_exists[t] /\ entry_type'[t] = entry_type[t]
                              /\ parent'[t] = parent[t]
  BY <1>2 DEF TableTyped, TableTypeOK
<1>5. \A d : IsDirectory(d) => IsDirectory(d)'
  <2>1. \A t \in Ids : entry_exists[t] => entry_exists'[t]
    BY <1>4
  <2>2. \A t \in Ids : entry_exists[t] /\ entry_type[t] = "dir" => entry_type'[t] = "dir"
    BY <1>2, <1>4
  <2> QED
    BY <2>1, <2>2, DirectoriesStay
<1>6. ParentsExist'
  BY <1>1, <1>4, <1>5 DEF Grown, ParentsExist
<1>7. NoCycle'
  BY <1>1, <1>2, <1>4, NewLeaf DEF Grown
<1>8. CwdExists'
  BY <1>3, <1>5 DEF Grown, CwdExists
<1>9. FillPlaced'
  <2> SUFFICES ASSUME fill_pc # "idle"
               PROVE  FillPlaced'
    BY <1>3 DEF FillPlaced
  <2>1. PICK A \in SUBSET Ids : Ancestors(A, want.parent, slot)
    BY DEF Grown, FillPlaced
  <2>2. s \notin A
    BY <1>2, <2>1 DEF Ancestors
  <2>3. Ancestors(A, want.parent, slot)'
    BY <1>3, <1>4, <2>1, <2>2 DEF Ancestors
  <2>4. slot \in Ids
    BY DEF TableTyped, FillSane
  <2>5. fill_pc \in {"name", "type"} /\ entry_exists'[slot] => entry_type'[slot] = "file"
    BY <1>4, <2>4 DEF Grown, FillPlaced
  <2>6. fill_pc = "parent" => entry_exists'[slot]
    BY <1>4, <2>4 DEF Grown, FillPlaced
  <2>7. IsDirectory(want.parent)
    BY DEF Grown, FillPlaced
  <2>8. IsDirectory(want.parent)'
    BY <1>3, <1>5, <2>7 DEF IsDirectory
  <2> QED
    BY <1>3, <2>3, <2>5, <2>6, <2>8 DEF FillPlaced
<1>10. Untouched'
  BY <1>4 DEF Grown, Untouched
<1> QED
  BY <1>6, <1>7, <1>8, <1>9, <1>10 DEF Grown

\* The shell picks a slot that nothing points to.
LEMMA BeginGrows ==
    ASSUME TableTyped, Grown, fill_pc = "idle", NEW w \in Wants, BeginEntry(w),
           w.parent = current_dir_id
    PROVE  Grown'
<1>1. PICK s \in Ids : ~entry_exists[s] /\ slot' = s
  BY DEF BeginEntry, IsNextFreeEntry
<1>2. want' = w /\ fill_pc' = "name"
      /\ UNCHANGED <<entry_exists, entry_type, name, parent, current_dir_id>>
  BY DEF BeginEntry, entryVars
<1>3. IsDirectory(w.parent)
  BY DEF Grown, CwdExists
<1>4. PICK A \in SUBSET Ids : A = {t \in Ids : entry_exists[t]}
  OBVIOUS
<1>5. Ancestors(A, w.parent, s)
  <2>1. w.parent \in A \union {Root}
    BY <1>3, <1>4 DEF IsDirectory
  <2>2. \A a \in A : parent[a] \in A \union {Root}
    BY <1>4 DEF Grown, ParentsExist, IsDirectory
  <2> QED
    BY <1>1, <1>4, <2>1, <2>2 DEF Ancestors
<1>6. FillPlaced'
  <2>1. Ancestors(A, want.parent, slot)'
    BY <1>1, <1>2, <1>5 DEF Ancestors
  <2>2. IsDirectory(want.parent)'
    BY <1>2, <1>3 DEF IsDirectory
  <2> QED
    BY <1>1, <1>2, <2>1, <2>2 DEF FillPlaced
<1>7. (ParentsExist /\ NoCycle /\ CwdExists /\ Untouched)'
  BY <1>2 DEF Grown, ParentsExist, NoCycle, CwdExists, Untouched, IsDirectory
<1> QED
  BY <1>6, <1>7 DEF Grown

\* The first two stores: the name, and the type of an entry that is no directory yet.
LEMMA StoresGrow ==
    ASSUME TableTyped, Grown, StoreName \/ StoreType
    PROVE  Grown'
<1>1. /\ slot \in Ids /\ want.type \in {"file", "dir"} /\ IsDirectory(want.parent)
      /\ entry_exists[slot] => entry_type[slot] = "file"
      /\ fill_pc \in {"name", "type"}
  BY DEF TableTyped, FillSane, Grown, FillPlaced, StoreName, StoreType
<1>2. PICK A \in SUBSET Ids : Ancestors(A, want.parent, slot)
  BY <1>1 DEF Grown, FillPlaced
<1>3. /\ UNCHANGED <<entry_exists, parent, current_dir_id, slot, want>>
      /\ \A t \in Ids \ {slot} : entry_type'[t] = entry_type[t]
      /\ fill_pc' \in {"type", "exists"}
      /\ fill_pc' = "type" => entry_type' = entry_type
  BY DEF StoreName, StoreType, TableTyped, TableTypeOK
<1>4. \A d : IsDirectory(d) => IsDirectory(d)'
  <2>1. \A t \in Ids : entry_exists[t] /\ entry_type[t] = "dir" => entry_type'[t] = "dir"
    BY <1>1, <1>3
  <2> QED
    BY <1>3, <2>1, DirectoriesStay
<1>5. (ParentsExist /\ NoCycle /\ CwdExists /\ Untouched)'
  BY <1>3, <1>4 DEF Grown, ParentsExist, NoCycle, CwdExists, Untouched
<1>6. FillPlaced'
  <2>1. Ancestors(A, want.parent, slot)'
    BY <1>2, <1>3 DEF Ancestors
  <2>2. IsDirectory(want.parent)'
    BY <1>1, <1>3, <1>4 DEF IsDirectory
  <2> QED
    BY <1>1, <1>3, <2>1, <2>2 DEF FillPlaced
<1> QED
  BY <1>5, <1>6 DEF Grown

\* The entry appears, still in the root, or a process has already taken the slot.
LEMMA ExistsGrows ==
    ASSUME TableTyped, Grown, StoreExists
    PROVE  Grown'
<1>1. slot \in Ids /\ IsDirectory(want.parent) /\ fill_pc = "exists"
  BY DEF TableTyped, FillSane, Grown, FillPlaced, StoreExists
<1>2. PICK A \in SUBSET Ids : Ancestors(A, want.parent, slot)
  BY <1>1 DEF Grown, FillPlaced
<1>3. /\ entry_exists' = [entry_exists EXCEPT ![slot] = TRUE] /\ fill_pc' = "parent"
      /\ UNCHANGED <<entry_type, name, parent, current_dir_id, slot, want>>
  BY DEF StoreExists
<1>4. entry_exists'[slot] /\ \A t \in Ids \ {slot} : entry_exists'[t] = entry_exists[t]
  BY <1>1, <1>3 DEF TableTyped, TableTypeOK
<1>5. \A d : IsDirectory(d) => IsDirectory(d)'
  <2>1. \A t \in Ids : entry_exists[t] => entry_exists'[t]
    BY <1>4
  <2> QED
    BY <1>3, <2>1, DirectoriesStay
<1>6. ~entry_exists[slot] => parent[slot] = Root
  BY <1>1 DEF Grown, Untouched
<1>7. IsDirectory(parent[slot])
  BY <1>1, <1>6 DEF Grown, ParentsExist, IsDirectory
<1>8. ParentsExist'
  <2>1. ASSUME NEW t \in Ids, entry_exists'[t]
        PROVE  IsDirectory(parent[t])
    BY <1>4, <1>7, <2>1 DEF Grown, ParentsExist
  <2> QED
    BY <1>3, <1>5, <2>1 DEF ParentsExist
<1>9. NoCycle'
  <2>1. CASE entry_exists[slot]
    <3>1. entry_exists' = entry_exists
      BY <1>1, <1>3, <2>1 DEF TableTyped, TableTypeOK
    <3> QED
      BY <1>3, <3>1 DEF Grown, NoCycle
  <2>2. CASE ~entry_exists[slot]
    <3>1. PICK s \in Ids : s = slot
      BY <1>1
    <3>2. \A t \in Ids \ {s} : parent'[t] = parent[t]
      BY <1>3
    <3>3. PICK d : d = parent[s]
      OBVIOUS
    <3>4. /\ ~entry_exists[s] /\ IsDirectory(d) /\ parent'[s] = d
          /\ entry_exists' = [entry_exists EXCEPT ![s] = TRUE]
      BY <1>3, <1>7, <2>2, <3>1, <3>3
    <3> QED
      BY <3>2, <3>4, NewLeaf DEF Grown
  <2> QED
    BY <2>1, <2>2
<1>10. CwdExists' /\ Untouched'
  BY <1>3, <1>4, <1>5 DEF Grown, CwdExists, Untouched
<1>11. FillPlaced'
  <2>1. Ancestors(A, want.parent, slot)'
    BY <1>2, <1>3, <1>4 DEF Ancestors
  <2>2. IsDirectory(want.parent)'
    BY <1>1, <1>3, <1>5 DEF IsDirectory
  <2> QED
    BY <1>3, <1>4, <2>1, <2>2 DEF FillPlaced
<1> QED
  BY <1>8, <1>9, <1>10, <1>11 DEF Grown

\* The entry goes from the root, or from where a process put it, to its directory.
LEMMA ParentGrows ==
    ASSUME TableTyped, Grown, StoreParent
    PROVE  Grown'
<1>1. slot \in Ids /\ IsDirectory(want.parent) /\ fill_pc = "parent" /\ entry_exists[slot]
  BY DEF TableTyped, FillSane, Grown, FillPlaced, StoreParent
<1>2. PICK A \in SUBSET Ids : Ancestors(A, want.parent, slot)
  BY <1>1 DEF Grown, FillPlaced
<1>3. /\ parent' = [parent EXCEPT ![slot] = want.parent] /\ fill_pc' = "idle"
      /\ UNCHANGED <<entry_exists, entry_type, current_dir_id>>
  BY DEF StoreParent, StoredParent
<1>4. PICK s \in Ids, d \in {want.parent} : s = slot /\ d = want.parent
  BY <1>1
<1>5. parent'[s] = d /\ \A t \in Ids \ {s} : parent'[t] = parent[t]
  BY <1>3, <1>4 DEF TableTyped, TableTypeOK
<1>6. \A x : IsDirectory(x) => IsDirectory(x)'
  BY <1>3 DEF IsDirectory
<1>7. ParentsExist'
  <2>1. ASSUME NEW t \in Ids, entry_exists[t]
        PROVE  IsDirectory(parent'[t])
    BY <1>1, <1>4, <1>5, <2>1 DEF Grown, ParentsExist
  <2> QED
    BY <1>3, <2>1 DEF ParentsExist, IsDirectory
<1>8. NoCycle'
  <2> SUFFICES ASSUME NEW S \in SUBSET Ids, S # {}
               PROVE  \E t \in S : ~entry_exists'[t] \/ parent'[t] \notin S
    BY DEF NoCycle
  <2>1. CASE s \notin S
    <3>1. PICK t \in S : ~entry_exists[t] \/ parent[t] \notin S
      BY DEF Grown, NoCycle
    <3> QED
      BY <1>3, <1>5, <2>1, <3>1
  <2>2. CASE s \in S /\ d \notin S
    BY <1>5, <2>2
  <2>3. CASE s \in S /\ d \in S
    <3>1. d \in A /\ s \notin A /\ \A a \in A : entry_exists[a] /\ parent[a] \in A \union {Root}
      BY <1>2, <1>4, <2>3 DEF Ancestors, Root, Ids
    <3>2. PICK t \in S \intersect A : ~entry_exists[t] \/ parent[t] \notin S \intersect A
      BY <2>3, <3>1 DEF Grown, NoCycle
    <3>3. parent[t] \notin S
      BY <3>1, <3>2 DEF Root, Ids
    <3> QED
      BY <1>5, <3>1, <3>2, <3>3
  <2> QED
    BY <2>1, <2>2, <2>3
<1>9. CwdExists'
  BY <1>3, <1>6 DEF Grown, CwdExists
<1>10. FillPlaced'
  BY <1>3 DEF FillPlaced
<1>11. Untouched'
  BY <1>1, <1>3, <1>4, <1>5 DEF Grown, Untouched
<1> QED
  BY <1>7, <1>8, <1>9, <1>10, <1>11 DEF Grown

\* mv within a directory and cd leave the tree as it is.
LEMMA MovesGrow ==
    ASSUME TableTyped, Grown, NEW n \in Names, NEW new \in Names,
           Mv(n, new) \/ Cd(n) \/ CdUp \/ CdRoot
    PROVE  Grown'
<1>1. UNCHANGED <<entry_exists, entry_type, parent, filling>>
  BY DEF Mv, Cd, CdUp, CdRoot, entryVars
<1>2. IsDirectory(current_dir_id')
  <2>1. CASE Mv(n, new)
    BY <2>1 DEF Mv, Grown, CwdExists
  <2>2. CASE Cd(n)
    BY <2>2 DEF Cd, IsFound, Matches, MayEnter, IsDirectory
  <2>3. CASE CdUp
    <3>1. /\ current_dir_id \in Ids /\ entry_exists[current_dir_id]
          /\ current_dir_id' = parent[current_dir_id]
      BY <2>3 DEF CdUp, IsDirectory
    <3> QED
      BY <3>1 DEF Grown, ParentsExist
  <2>4. CASE CdRoot
    BY <2>4 DEF CdRoot, IsDirectory
  <2> QED
    BY <2>1, <2>2, <2>3, <2>4
<1>3. CwdExists'
  BY <1>1, <1>2 DEF CwdExists, IsDirectory
<1> QED
  BY <1>1, <1>3 DEF filling, Grown, ParentsExist, NoCycle, FillPlaced, Untouched, IsDirectory, Ancestors

\* The tree: every step keeps the invariant.
LEMMA TreeStep ==
    TreeInv /\ [TableNext /\ UNCHANGED commands]_tableVars => TreeInv'
<1> SUFFICES ASSUME TreeInv, [TableNext /\ UNCHANGED commands]_tableVars,
                    typed' \intersect {"rm", "stray"} = {}
             PROVE  Grown'
  BY TableTypedStep DEF TreeInv
<1>1. typed \subseteq typed' /\ TableTyped
  <2>1. CASE \E n \in Names, par \in Parents : SysCreateEntry(n, par)
    BY <2>1 DEF SysCreateEntry, TreeInv
  <2>2. CASE StoreName \/ StoreType \/ StoreExists \/ StoreParent
    BY <2>2 DEF StoreName, StoreType, StoreExists, StoreParent, tableHistory, TreeInv
  <2>3. CASE \E n, new \in Names : Rm(n) \/ Mv(n, new) \/ Cd(n) \/ CdUp \/ CdRoot
    BY <2>3 DEF Rm, Mv, Cd, CdUp, CdRoot, Typed, TreeInv
  <2> QED
    BY <2>1, <2>2, <2>3, TableCases DEF TreeInv, tableVars, tableHistory
<1>2. Grown
  BY <1>1 DEF TreeInv
<1>3. CASE UNCHANGED tableVars
  BY <1>2, <1>3 DEF tableVars, entryVars, filling, tableHistory, Grown, ParentsExist, NoCycle,
       CwdExists, FillPlaced, Untouched, IsDirectory, Ancestors
<1>4. CASE \E n \in Names, par \in Parents : SysCreateEntry(n, par)
  BY <1>1, <1>2, <1>4, CreateGrows
<1>5. CASE /\ fill_pc = "idle"
           /\ \E w \in Wants : BeginEntry(w) /\ w.parent = current_dir_id
  BY <1>1, <1>2, <1>5, BeginGrows
<1>6. CASE StoreName \/ StoreType \/ StoreExists \/ StoreParent
  BY <1>1, <1>2, <1>6, StoresGrow, ExistsGrows, ParentGrows
<1>7. CASE \E n, new \in Names : Rm(n) \/ Mv(n, new) \/ Cd(n) \/ CdUp \/ CdRoot
  <2>1. \A n \in Names : ~Rm(n)
    BY DEF Rm, Typed, Kind
  <2> QED
    BY <1>1, <1>2, <1>7, <2>1, MovesGrow
<1> QED
  BY <1>1, <1>3, <1>4, <1>5, <1>6, <1>7, TableCases

\* Until something is removed or a process names a parent that is no directory, the entries are a
\* tree with the current directory in it: also when a process takes the slot the shell is filling,
\* between any two of its stores, and makes files in the directory that half-filled slot has become.
THEOREM TreeStaysTree == TableSpec => []GrowsAsTree
<1>1. TableInit => TreeInv
  <2> SUFFICES ASSUME TableInit
               PROVE  Grown
    BY TableTypedStart DEF TreeInv
  <2>1. /\ \A s \in Ids : parent[s] = Root
        /\ current_dir_id = Root /\ fill_pc = "idle"
    BY DEF TableInit
  <2>2. ParentsExist /\ CwdExists /\ FillPlaced /\ Untouched
    BY <2>1 DEF ParentsExist, CwdExists, FillPlaced, Untouched, IsDirectory
  <2>3. NoCycle
    BY <2>1 DEF NoCycle, Root, Ids
  <2> QED
    BY <2>2, <2>3 DEF Grown
<1>2. TreeInv => GrowsAsTree
  BY DEF TreeInv, GrowsAsTree, Grown
<1> QED
  BY <1>1, <1>2, TreeStep, PTL DEF TableSpec

-----------------------------------------------------------------------------
(* Contents and descriptors: types *)

Opened == \A p \in Procs, d \in Fds : fd_tab[p][d].used => fd_tab[p][d].vfs_id \in Entries

\* The last byte of an entry is never stored to.
LastIsNul == \A s \in Entries : bytes[s][Cap] = "nul"

StoreSane ==
    /\ pc # "idle" => target \in Entries /\ exists[target] /\ at + left <= Cap
    /\ pc = "copy" => left > 0
    /\ pc \in {"nul", "size"} => left = 0

ContentTyped == ContentTypeOK /\ Opened /\ LastIsNul /\ StoreSane

\* A set of indices has a least element.
LEMMA LeastIndex ==
    ASSUME NEW S \in SUBSET Nat, NEW x \in S
    PROVE  \E m \in S : \A y \in S : m <= y
<1>1. PICK m \in S : \A y \in S : ~(<<y, m>> \in OpToRel(<, Nat))
  BY WFMin, NatLessThanWellFounded, Zenon
<1>2. ASSUME NEW y \in S
      PROVE  m <= y
  <2>1. y \in Nat /\ m \in Nat
    OBVIOUS
  <2>2. ~(y < m)
    <3>1. ASSUME y < m
          PROVE  <<y, m>> \in OpToRel(<, Nat)
      BY <2>1, <3>1 DEF OpToRel
    <3> QED
      BY <1>1, <3>1
  <2> QED
    BY <2>1, <2>2
<1> QED
  BY <1>2

\* strlen finds the first NUL of an entry.
LEMMA StrLenIs ==
    ASSUME NEW s \in Entries, ContentTyped
    PROVE  /\ StrLen(bytes[s]) \in 0 .. Cap /\ bytes[s][StrLen(bytes[s])] = "nul"
           /\ \A i \in 0 .. Cap : i < StrLen(bytes[s]) => bytes[s][i] # "nul"
<1>1. PICK S \in SUBSET Nat : S = {n \in 0 .. Cap : bytes[s][n] = "nul"}
  <2>1. {n \in 0 .. Cap : bytes[s][n] = "nul"} \in SUBSET Nat
    OBVIOUS
  <2> QED
    BY <2>1
<1>2. Cap \in S
  BY <1>1, ContentAssumption DEF ContentTyped, LastIsNul
<1>3. PICK m \in S : \A y \in S : m <= y
  BY <1>2, LeastIndex
<1>4. /\ m \in 0 .. Cap /\ bytes[s][m] = "nul"
      /\ \A i \in 0 .. (m - 1) : bytes[s][i] # "nul"
  BY <1>1, <1>3, ContentAssumption
<1>5. /\ StrLen(bytes[s]) \in 0 .. Cap /\ bytes[s][StrLen(bytes[s])] = "nul"
      /\ \A i \in 0 .. (StrLen(bytes[s]) - 1) : bytes[s][i] # "nul"
  BY <1>4 DEF StrLen
<1>6. PICK k \in 0 .. Cap : k = StrLen(bytes[s])
  BY <1>5
<1>7. \A i \in 0 .. Cap : i < k => i \in 0 .. (k - 1)
  BY ContentAssumption
<1> QED
  BY <1>5, <1>6, <1>7

\* It is the size where no byte in front of that is NUL.
LEMMA StrLenOfText ==
    ASSUME NEW s \in Entries, ContentTyped, bytes[s][size[s]] = "nul",
           \A i \in 0 .. Cap : i < size[s] => bytes[s][i] # "nul"
    PROVE  StrLen(bytes[s]) = size[s]
<1>1. PICK k \in 0 .. Cap, z \in 0 .. Cap : k = StrLen(bytes[s]) /\ z = size[s]
  BY StrLenIs DEF ContentTyped, ContentTypeOK
<1>2. ~(k < z) /\ ~(z < k)
  BY <1>1, StrLenIs
<1> QED
  BY <1>1, <1>2, ContentAssumption

\* What a write leaves of an entry.
LEMMA WrittenIs ==
    ASSUME NEW c \in [0 .. Cap -> Bytes], NEW old \in 0 .. Cap, NEW pos \in 0 .. Cap,
           NEW n \in 0 .. Cap, pos + n <= Cap, NEW d \in {"nul", "data"}, c[Cap] = "nul"
    PROVE  /\ Written(c, old, pos, d, n) \in [0 .. Cap -> Bytes]
           /\ Written(c, old, pos, d, n)[Cap] = "nul"
           /\ \A i \in 0 .. Cap : Written(c, old, pos, d, n)[i] \in {"nul", "data", c[i]}
           /\ \A i \in 0 .. Cap : old <= i /\ i < pos + n => Written(c, old, pos, d, n)[i] # "stale"
<1>1. PICK end \in 0 .. Cap : /\ end = Greatest(old, pos + n)
                              /\ end >= old /\ end >= pos + n /\ (end = old \/ end = pos + n)
  BY ContentAssumption DEF Greatest
<1>2. PICK w : /\ w = Written(c, old, pos, d, n)
               /\ w = [i \in 0 .. Cap |->
                         IF i = end THEN "nul" ELSE IF i \in pos .. (pos + n - 1) THEN d
                         ELSE IF i \in old .. (pos - 1) THEN "nul" ELSE c[i]]
  BY <1>1 DEF Written
<1>3. w \in [0 .. Cap -> Bytes]
  BY <1>2 DEF Bytes
<1>4. \A i \in 0 .. Cap : w[i] \in {"nul", "data", c[i]}
  BY <1>2
<1>5. w[Cap] = "nul"
  <2>1. Cap \in 0 .. Cap /\ Cap \notin pos .. (pos + n - 1)
    BY ContentAssumption
  <2> QED
    BY <1>2, <2>1
<1>6. ASSUME NEW i \in 0 .. Cap, old <= i, i < pos + n
      PROVE  w[i] # "stale"
  <2>1. i \in pos .. (pos + n - 1) \/ i \in old .. (pos - 1)
    BY <1>6, ContentAssumption
  <2> QED
    BY <1>2, <2>1
<1> QED
  BY <1>2, <1>3, <1>4, <1>5, <1>6

-----------------------------------------------------------------------------
(* Contents: the inductive invariant *)

Clean ==
    \A s \in Entries : exists[s] => \A i \in 0 .. Cap : i < size[s] => bytes[s][i] # "stale"

\* What a store has stored so far is of the file, and reaches its size to be.
Fresh ==
    "cut" \notin done =>
      /\ Clean
      /\ pc # "idle" => /\ final <= at + left
                        /\ \A i \in 0 .. Cap : i < at => bytes[target][i] # "stale"

Whole(s) == bytes[s][size[s]] = "nul" /\ \A i \in 0 .. Cap : i < size[s] => bytes[s][i] # "nul"

\* Every text but the one being stored is whole, and that one so far.
Text ==
    "binary" \notin done =>
      /\ \A s \in Entries : exists[s] /\ (pc # "idle" => s # target) => Whole(s)
      /\ pc # "idle" => /\ at + left = final
                        /\ \A i \in 0 .. Cap : i < at => bytes[target][i] # "nul"
      /\ pc = "size" => bytes[target][at] = "nul"

ContentInv == ContentTyped /\ Fresh /\ Text

\* The empty table.
LEMMA ContentStart == ContentInit => ContentInv
<1> SUFFICES ASSUME ContentInit
             PROVE  ContentInv
  OBVIOUS
<1>1. 0 \in 0 .. Cap /\ 0 \in 0 .. MaxPos /\ Cap \in 0 .. Cap
  BY ContentAssumption
<1>2. ContentTypeOK
  <2>1. Closed \in Descriptors
    BY <1>1 DEF Closed, Descriptors
  <2>2. fd_tab \in [Procs -> [Fds -> Descriptors]]
    BY <2>1 DEF ContentInit
  <2>3. bytes \in [Entries -> [0 .. Cap -> Bytes]]
    BY DEF ContentInit, Bytes
  <2> QED
    BY <1>1, <2>2, <2>3 DEF ContentInit, ContentTypeOK
<1>3. Opened /\ LastIsNul /\ StoreSane
  BY <1>1 DEF ContentInit, Opened, LastIsNul, StoreSane, Closed
<1>4. Fresh /\ Text
  BY DEF ContentInit, Fresh, Text, Clean
<1> QED
  BY <1>2, <1>3, <1>4 DEF ContentInv, ContentTyped

\* One descriptor of a process changes.
LEMMA RowKeepsTypes ==
    ASSUME ContentTypeOK, Opened, NEW p \in Procs, NEW d \in Fds, NEW r \in Descriptors,
           r.used => r.vfs_id \in Entries, fd_tab' = [fd_tab EXCEPT ![p][d] = r]
    PROVE  fd_tab' \in [Procs -> [Fds -> Descriptors]] /\ Opened'
<1>1. PICK row \in [Fds -> Descriptors] : row = [fd_tab[p] EXCEPT ![d] = r]
  BY DEF ContentTypeOK
<1>2. fd_tab' = [fd_tab EXCEPT ![p] = row]
  BY <1>1
<1>3. row[d] = r /\ \A c \in Fds \ {d} : row[c] = fd_tab[p][c]
  BY <1>1 DEF ContentTypeOK
<1>4. fd_tab'[p] = row /\ \A q \in Procs \ {p} : fd_tab'[q] = fd_tab[q]
  BY <1>2 DEF ContentTypeOK
<1>5. fd_tab' \in [Procs -> [Fds -> Descriptors]]
  BY <1>2 DEF ContentTypeOK
<1>6. ASSUME NEW q \in Procs, NEW c \in Fds, fd_tab'[q][c].used
      PROVE  fd_tab'[q][c].vfs_id \in Entries
  BY <1>3, <1>4, <1>6 DEF Opened
<1> QED
  BY <1>5, <1>6 DEF Opened

\* A descriptor moves.
LEMMA MovedKeepsTypes ==
    ASSUME ContentTypeOK, Opened, NEW p \in Procs, NEW d \in Fds, NEW x \in 0 .. MaxPos,
           fd_tab' = [fd_tab EXCEPT ![p][d].pos = x]
    PROVE  fd_tab' \in [Procs -> [Fds -> Descriptors]] /\ Opened'
<1>1. PICK r \in Descriptors : r = fd_tab[p][d]
  BY DEF ContentTypeOK
<1>2. PICK m : m = [r EXCEPT !.pos = x]
  OBVIOUS
<1>3. m \in Descriptors /\ m.used = r.used /\ m.vfs_id = r.vfs_id
  BY <1>2 DEF Descriptors
<1>4. m.used => m.vfs_id \in Entries
  BY <1>1, <1>3 DEF Opened
<1>5. fd_tab' = [fd_tab EXCEPT ![p][d] = m]
  BY <1>1, <1>2
<1> QED
  BY <1>3, <1>4, <1>5, RowKeepsTypes

\* A descriptor is opened.
LEMMA OpenKeepsTypes ==
    ASSUME ContentTypeOK, Opened, NEW p \in Procs, NEW s \in Entries, OpenId(p, s)
    PROVE  fd_tab' \in [Procs -> [Fds -> Descriptors]] /\ Opened'
<1>1. PICK r : r = [used |-> TRUE, vfs_id |-> s, pos |-> 0]
  OBVIOUS
<1>2. r \in Descriptors /\ r.vfs_id \in Entries
  <2>1. 0 \in 0 .. MaxPos
    BY ContentAssumption
  <2> QED
    BY <1>1, <2>1 DEF Descriptors
<1>3. CASE UNCHANGED fd_tab
  BY <1>3 DEF ContentTypeOK, Opened
<1>4. CASE \E d \in Fds : fd_tab' = [fd_tab EXCEPT ![p][d] = r]
  BY <1>2, <1>4, RowKeepsTypes
<1> QED
  BY <1>1, <1>3, <1>4 DEF OpenId, FreeFds

\* Steps that change descriptors only.
LEMMA CursorsKeep ==
    ASSUME ContentInv, NEW p \in Procs, UNCHANGED session,
           SysOpen(p) \/ SysRead(p) \/ SysLseek(p) \/ SysClose(p) \/ Release(p)
    PROVE  ContentInv'
<1>1. UNCHANGED <<exists, type, size, bytes, pc, target, at, left, final, done>>
  BY DEF SysOpen, SysRead, SysLseek, SysClose, Release, entries, store
<1>2. ContentTypeOK /\ Opened
  BY DEF ContentInv, ContentTyped
<1>3. 0 \in 0 .. MaxPos
  BY ContentAssumption
<1>4. fd_tab' \in [Procs -> [Fds -> Descriptors]] /\ Opened'
  <2>1. CASE UNCHANGED fd_tab
    BY <1>2, <2>1 DEF ContentTypeOK, Opened
  <2>2. CASE \E s \in Entries : OpenId(p, s)
    BY <1>2, <2>1, <2>2, OpenKeepsTypes
  <2>3. CASE \E d \in Fds, x \in 0 .. MaxPos : fd_tab' = [fd_tab EXCEPT ![p][d].pos = x]
    BY <1>2, <2>3, MovedKeepsTypes
  <2>4. CASE \E d \in Fds : fd_tab' = [fd_tab EXCEPT ![p][d] = Closed]
    <3>1. Closed \in Descriptors /\ ~Closed.used
      BY <1>3 DEF Descriptors, Closed
    <3> QED
      BY <1>2, <2>4, <3>1, RowKeepsTypes
  <2>5. CASE fd_tab' = [fd_tab EXCEPT ![p] = [d \in Fds |-> Closed]]
    BY <1>2, <1>3, <2>5 DEF ContentTypeOK, Opened, Descriptors, Closed
  <2>6. SysRead(p) => \E d \in Fds, x \in 0 .. MaxPos : fd_tab' = [fd_tab EXCEPT ![p][d].pos = x]
    <3> SUFFICES ASSUME SysRead(p)
                 PROVE  \E d \in Fds, x \in 0 .. MaxPos : fd_tab' = [fd_tab EXCEPT ![p][d].pos = x]
      OBVIOUS
    <3>1. PICK d \in Fds, len \in 1 .. Cap :
             /\ fd_tab[p][d].used
             /\ fd_tab' = [fd_tab EXCEPT ![p][d].pos =
                             @ + Least(len, Readable(fd_tab[p][d].vfs_id, fd_tab[p][d].pos))]
      BY DEF SysRead
    <3>2. PICK s \in Entries, q \in 0 .. MaxPos : s = fd_tab[p][d].vfs_id /\ q = fd_tab[p][d].pos
      BY <1>2, <3>1 DEF ContentTypeOK, Opened, Descriptors
    <3>3. PICK z \in 0 .. Cap : z = size[s]
      BY <1>2 DEF ContentTypeOK
    <3>4. PICK x \in 0 .. MaxPos : x = q + Least(len, Readable(s, q))
      <4>1. CASE q >= z
        BY <3>3, <4>1, ContentAssumption DEF Readable, Least
      <4>2. CASE ~(q >= z)
        BY <3>3, <4>2, ContentAssumption DEF Readable, Least
      <4> QED
        BY <4>1, <4>2
    <3> QED
      BY <3>1, <3>2, <3>4
  <2>7. SysLseek(p) => \E d \in Fds, x \in 0 .. MaxPos : fd_tab' = [fd_tab EXCEPT ![p][d].pos = x]
    BY DEF SysLseek
  <2> QED
    BY <2>1, <2>2, <2>3, <2>4, <2>5, <2>6, <2>7 DEF SysOpen, SysClose, Release
<1>5. ContentTypeOK'
  BY <1>1, <1>2, <1>4 DEF ContentTypeOK
<1>6. LastIsNul' /\ StoreSane' /\ Fresh' /\ Text'
  BY <1>1 DEF ContentInv, ContentTyped, LastIsNul, StoreSane, Fresh, Text, Clean, Whole
<1> QED
  BY <1>4, <1>5, <1>6 DEF ContentInv, ContentTyped

\* A new empty file or directory takes a free slot; its size comes first.
LEMMA BlankKeeps ==
    ASSUME ContentInv, NEW s \in Entries, IsNextFree(s), NEW k \in {"file", "dir"}, Blank(s, k),
           UNCHANGED <<session, store, done>>,
           fd_tab' \in [Procs -> [Fds -> Descriptors]], Opened'
    PROVE  ContentInv'
<1>1. /\ ~exists[s] /\ exists' = [exists EXCEPT ![s] = TRUE]
      /\ type' = [type EXCEPT ![s] = k] /\ size' = [size EXCEPT ![s] = 0]
      /\ bytes' = [bytes EXCEPT ![s] = [i \in 0 .. Cap |-> IF i = 0 THEN "nul"
                                                           ELSE Leftover(bytes[s][i])]]
      /\ UNCHANGED <<session, pc, target, at, left, final, done>>
  BY DEF IsNextFree, Blank, store
<1>2. ContentTypeOK /\ LastIsNul /\ StoreSane /\ Fresh /\ Text
  BY DEF ContentInv, ContentTyped
<1>3. PICK row \in [0 .. Cap -> Bytes] :
         row = [i \in 0 .. Cap |-> IF i = 0 THEN "nul" ELSE Leftover(bytes[s][i])]
  BY DEF Leftover, Bytes
<1>4. bytes' = [bytes EXCEPT ![s] = row] /\ 0 \in 0 .. Cap /\ Cap \in 0 .. Cap
  BY <1>1, <1>3, ContentAssumption
<1>5. /\ bytes'[s] = row /\ \A t \in Entries \ {s} : bytes'[t] = bytes[t] /\ size'[t] = size[t]
      /\ size'[s] = 0 /\ \A t \in Entries \ {s} : exists'[t] = exists[t]
  BY <1>1, <1>2, <1>4 DEF ContentTypeOK
<1>6. ContentTypeOK'
  <2>1. size' \in [Entries -> 0 .. Cap] /\ bytes' \in [Entries -> [0 .. Cap -> Bytes]]
    BY <1>1, <1>2, <1>4 DEF ContentTypeOK
  <2> QED
    BY <1>1, <1>2, <2>1 DEF ContentTypeOK
<1>7. LastIsNul'
  BY <1>2, <1>3, <1>4, <1>5 DEF LastIsNul, Leftover
<1>8. pc # "idle" => target \in Entries /\ target # s /\ exists'[target]
  BY <1>1, <1>2, <1>5 DEF StoreSane
<1>9. StoreSane'
  BY <1>1, <1>2, <1>8 DEF StoreSane
<1>10. \A i \in 0 .. Cap : ~(i < size'[s])
  BY <1>5
<1>11. Fresh'
  <2>1. "cut" \notin done => Clean'
    <3>1. ASSUME "cut" \notin done, NEW t \in Entries, exists'[t], NEW i \in 0 .. Cap, i < size'[t]
          PROVE  bytes'[t][i] # "stale"
      <4>1. t # s
        BY <1>10, <3>1
      <4>2. exists[t] /\ i < size[t]
        BY <1>5, <3>1, <4>1
      <4> QED
        BY <1>2, <1>5, <3>1, <4>1, <4>2 DEF Fresh, Clean
    <3> QED
      BY <1>6, <3>1 DEF Clean
  <2> QED
    BY <1>1, <1>2, <1>5, <1>8, <2>1 DEF Fresh
<1>12. Text'
  <2>1. Whole(s)'
    BY <1>3, <1>4, <1>5, <1>10 DEF Whole
  <2>2. \A t \in Entries \ {s} : Whole(t) => Whole(t)'
    BY <1>5 DEF Whole
  <2> QED
    BY <1>1, <1>2, <1>5, <1>8, <2>1, <2>2 DEF Text
<1> QED
  BY <1>6, <1>7, <1>9, <1>11, <1>12 DEF ContentInv, ContentTyped

\* A write of a process: it may hit the file that the main thread is storing.
LEMMA WriteKeeps ==
    ASSUME ContentInv, NEW p \in Procs, SysWriteFile(p), UNCHANGED session
    PROVE  ContentInv'
<1>1. ContentTypeOK /\ Opened /\ LastIsNul /\ StoreSane /\ Fresh
  BY DEF ContentInv, ContentTyped
<1>2. PICK d \in Fds, len \in 0 .. Cap :
        LET e == fd_tab[p][d]
            s == e.vfs_id
            n == Least(len, Cap - e.pos)
        IN  /\ e.used /\ e.pos < Cap
            /\ \E v \in {"nul", "data"} :
                 bytes' = [bytes EXCEPT ![s] = Written(@, size[s], e.pos, v, n)]
            /\ size' = [size EXCEPT ![s] = Greatest(@, e.pos + n)]
            /\ fd_tab' = [fd_tab EXCEPT ![p][d].pos = @ + n]
  BY DEF SysWriteFile
<1>3. PICK s \in Entries, q \in 0 .. MaxPos : s = fd_tab[p][d].vfs_id /\ q = fd_tab[p][d].pos
  BY <1>1, <1>2 DEF ContentTypeOK, Opened, Descriptors
<1>4. PICK n \in 0 .. Cap : n = Least(len, Cap - q) /\ q \in 0 .. Cap /\ q + n <= Cap
  <2>1. q < Cap
    BY <1>2, <1>3
  <2> QED
    BY <2>1, ContentAssumption DEF Least
<1>5. PICK v \in {"nul", "data"} : bytes' = [bytes EXCEPT ![s] = Written(@, size[s], q, v, n)]
  BY <1>2, <1>3, <1>4
<1>6. /\ size' = [size EXCEPT ![s] = Greatest(@, q + n)]
      /\ fd_tab' = [fd_tab EXCEPT ![p][d].pos = @ + n]
      /\ done' = done \union {"binary"} /\ UNCHANGED <<exists, type, pc, target, at, left, final>>
  BY <1>2, <1>3, <1>4 DEF SysWriteFile, store
<1>7. PICK row \in [0 .. Cap -> Bytes], z \in 0 .. Cap :
        /\ row = Written(bytes[s], size[s], q, v, n) /\ z = Greatest(size[s], q + n)
        /\ row[Cap] = "nul" /\ z >= size[s] /\ (z = size[s] \/ z = q + n)
        /\ \A i \in 0 .. Cap : row[i] \in {"nul", "data", bytes[s][i]}
        /\ \A i \in 0 .. Cap : size[s] <= i /\ i < q + n => row[i] # "stale"
  <2>1. PICK c \in [0 .. Cap -> Bytes], old \in 0 .. Cap : c = bytes[s] /\ old = size[s] /\ c[Cap] = "nul"
    BY <1>1 DEF ContentTypeOK, LastIsNul
  <2>2. PICK z \in 0 .. Cap : z = Greatest(old, q + n) /\ z >= old /\ (z = old \/ z = q + n)
    BY <1>4, ContentAssumption DEF Greatest
  <2>3. /\ Written(c, old, q, v, n) \in [0 .. Cap -> Bytes]
        /\ Written(c, old, q, v, n)[Cap] = "nul"
        /\ \A i \in 0 .. Cap : Written(c, old, q, v, n)[i] \in {"nul", "data", c[i]}
        /\ \A i \in 0 .. Cap : old <= i /\ i < q + n => Written(c, old, q, v, n)[i] # "stale"
    BY <1>4, <2>1, WrittenIs
  <2>4. PICK row : /\ row = Written(c, old, q, v, n)
        /\ row \in [0 .. Cap -> Bytes] /\ row[Cap] = "nul"
        /\ \A i \in 0 .. Cap : row[i] \in {"nul", "data", c[i]}
        /\ \A k \in 0 .. Cap : old <= k /\ k < q + n => row[k] # "stale"
    BY <2>3
  <2> QED
    BY <2>1, <2>2, <2>4
<1>8. bytes' = [bytes EXCEPT ![s] = row] /\ size' = [size EXCEPT ![s] = z]
  BY <1>5, <1>6, <1>7
<1>9. /\ bytes'[s] = row /\ size'[s] = z
      /\ \A t \in Entries \ {s} : bytes'[t] = bytes[t] /\ size'[t] = size[t]
  BY <1>1, <1>8 DEF ContentTypeOK
<1>10. fd_tab' \in [Procs -> [Fds -> Descriptors]] /\ Opened'
  <2>1. PICK x \in 0 .. MaxPos : x = q + n
    BY <1>4, ContentAssumption
  <2>2. fd_tab' = [fd_tab EXCEPT ![p][d].pos = x]
    BY <1>3, <1>6, <2>1
  <2> QED
    BY <1>1, <2>2, MovedKeepsTypes
<1>11. ContentTypeOK'
  BY <1>1, <1>6, <1>8, <1>10 DEF ContentTypeOK
<1>12. LastIsNul' /\ StoreSane'
  BY <1>1, <1>6, <1>7, <1>9 DEF LastIsNul, StoreSane
<1>13. Fresh'
  <2> SUFFICES ASSUME "cut" \notin done
               PROVE  Fresh'
    BY <1>6 DEF Fresh
  <2>1. Clean'
    <3>1. ASSUME NEW t \in Entries, exists[t], NEW i \in 0 .. Cap, i < size'[t]
          PROVE  bytes'[t][i] # "stale"
      <4>1. i < size[t] => bytes[t][i] # "stale"
        BY <1>1, <3>1 DEF Fresh, Clean
      <4>2. CASE t # s
        BY <1>9, <3>1, <4>1, <4>2
      <4>3. CASE t = s
        <5>1. PICK old \in 0 .. Cap : old = size[s]
          BY <1>1 DEF ContentTypeOK
        <5>2. i < z
          BY <1>9, <3>1, <4>3
        <5>3. CASE i < old
          BY <1>7, <1>9, <4>1, <4>3, <5>1, <5>3
        <5>4. CASE ~(i < old)
          BY <1>4, <1>7, <1>9, <4>3, <5>1, <5>2, <5>4
        <5> QED
          BY <5>3, <5>4
      <4> QED
        BY <4>2, <4>3
    <3> QED
      BY <1>6, <1>11, <3>1 DEF Clean
  <2>2. ASSUME pc # "idle", NEW i \in 0 .. Cap, i < at
        PROVE  bytes'[target][i] # "stale"
    <3>1. target \in Entries /\ bytes[target][i] # "stale"
      BY <1>1, <2>2 DEF StoreSane, Fresh
    <3> QED
      BY <1>7, <1>9, <3>1
  <2> QED
    BY <1>1, <1>6, <2>1, <2>2 DEF Fresh
<1>14. Text'
  BY <1>6 DEF Text
<1> QED
  BY <1>10, <1>11, <1>12, <1>13, <1>14 DEF ContentInv, ContentTyped

\* rm clears a flag.
LEMMA DeleteKeeps ==
    ASSUME ContentInv, Delete, UNCHANGED session
    PROVE  ContentInv'
<1>1. PICK s \in Entries : exists' = [exists EXCEPT ![s] = FALSE]
  BY DEF Delete
<1>2. pc = "idle" /\ UNCHANGED <<type, size, bytes, fd_tab, pc, target, at, left, final, done>>
  BY DEF Delete, store
<1>3. ContentTyped /\ Fresh /\ Text
  BY DEF ContentInv
<1>4. ContentTyped'
  BY <1>1, <1>2, <1>3 DEF ContentTyped, ContentTypeOK, Opened, LastIsNul, StoreSane
<1>5. \A t \in Entries : exists'[t] => exists[t]
  BY <1>1, <1>3 DEF ContentTyped, ContentTypeOK
<1>6. Fresh' /\ Text'
  BY <1>2, <1>3, <1>5 DEF Fresh, Clean, Text, Whole
<1> QED
  BY <1>4, <1>6 DEF ContentInv

\* A copy or a link: a free slot gets the size of s and a row that agrees with it up to there.
LEMMA TwinKeeps ==
    ASSUME ContentInv, pc = "idle", NEW s \in Entries, NEW new \in Entries, exists[s], ~exists[new],
           NEW row \in [0 .. Cap -> Bytes], row[Cap] = "nul",
           exists' = [exists EXCEPT ![new] = TRUE], type' = [type EXCEPT ![new] = type[s]],
           size' = [size EXCEPT ![new] = size[s]], bytes' = [bytes EXCEPT ![new] = row],
           UNCHANGED <<session, fd_tab, store>>,
           done' = done \/ done' = done \union {"cut"},
           "cut" \notin done' => \A i \in 0 .. Cap : i < size[s] => row[i] = bytes[s][i],
           Whole(s) => row[size[s]] = "nul" /\ \A i \in 0 .. Cap : i < size[s] => row[i] # "nul"
    PROVE  ContentInv'
<1>1. ContentTypeOK /\ Opened /\ LastIsNul /\ StoreSane /\ Fresh /\ Text
  BY DEF ContentInv, ContentTyped
<1>2. UNCHANGED <<session, fd_tab, pc, target, at, left, final>>
  BY DEF store
<1>3. /\ bytes'[new] = row /\ size'[new] = size[s]
      /\ \A t \in Entries \ {new} : /\ bytes'[t] = bytes[t] /\ size'[t] = size[t]
                                    /\ exists'[t] = exists[t]
  BY <1>1 DEF ContentTypeOK
<1>4. ContentTypeOK'
  <2>1. done' \subseteq {"binary", "cut"}
    BY <1>1 DEF ContentTypeOK
  <2>2. size' \in [Entries -> 0 .. Cap] /\ bytes' \in [Entries -> [0 .. Cap -> Bytes]]
        /\ type' \in [Entries -> {"file", "dir"}] /\ exists' \in [Entries -> BOOLEAN]
    BY <1>1 DEF ContentTypeOK
  <2> QED
    BY <1>1, <1>2, <2>1, <2>2 DEF ContentTypeOK
<1>5. Opened' /\ LastIsNul' /\ StoreSane'
  BY <1>1, <1>2, <1>3 DEF Opened, LastIsNul, StoreSane
<1>6. Fresh'
  <2> SUFFICES ASSUME "cut" \notin done'
               PROVE  Clean'
    BY <1>2 DEF Fresh
  <2>1. \A t \in Entries : exists[t] => \A i \in 0 .. Cap : i < size[t] => bytes[t][i] # "stale"
    BY <1>1 DEF Fresh, Clean
  <2>2. ASSUME NEW t \in Entries, exists'[t], NEW i \in 0 .. Cap, i < size'[t]
        PROVE  bytes'[t][i] # "stale"
    <3>1. CASE t = new
      <4>1. i < size[s] /\ bytes'[t][i] = row[i]
        BY <1>3, <2>2, <3>1
      <4>2. row[i] = bytes[s][i]
        BY <4>1
      <4>3. bytes[s][i] # "stale"
        BY <2>1, <4>1
      <4> QED
        BY <4>1, <4>2, <4>3
    <3>2. CASE t # new
      BY <1>3, <2>1, <2>2, <3>2
    <3> QED
      BY <3>1, <3>2
  <2> QED
    BY <1>4, <2>2 DEF Clean
<1>7. Text'
  <2> SUFFICES ASSUME "binary" \notin done
               PROVE  \A t \in Entries : exists'[t] => Whole(t)'
    BY <1>2 DEF Text
  <2>1. \A t \in Entries : exists[t] => Whole(t)
    BY <1>1 DEF Text
  <2>2. Whole(new)'
    BY <1>3, <2>1 DEF Whole
  <2>3. \A t \in Entries \ {new} : Whole(t) => Whole(t)'
    BY <1>3 DEF Whole
  <2> QED
    BY <1>3, <2>1, <2>2, <2>3
<1> QED
  BY <1>4, <1>5, <1>6, <1>7 DEF ContentInv, ContentTyped

\* cp takes the whole record.
LEMMA CopyKeeps ==
    ASSUME ContentInv, Copy, UNCHANGED session
    PROVE  ContentInv'
<1>1. PICK s \in Entries, new \in Entries :
        /\ exists[s] /\ ~exists[new] /\ exists' = [exists EXCEPT ![new] = TRUE]
        /\ type' = [type EXCEPT ![new] = type[s]] /\ size' = [size EXCEPT ![new] = size[s]]
        /\ bytes' = [bytes EXCEPT ![new] = bytes[s]]
  BY DEF Copy, IsNextFree
<1>2. pc = "idle" /\ UNCHANGED <<session, fd_tab, store, done>>
  BY DEF Copy
<1>3. PICK row \in [0 .. Cap -> Bytes] : row = bytes[s] /\ row[Cap] = "nul"
  BY DEF ContentInv, ContentTyped, ContentTypeOK, LastIsNul
<1>4. bytes' = [bytes EXCEPT ![new] = row]
  BY <1>1, <1>3
<1>5. Whole(s) => row[size[s]] = "nul" /\ \A i \in 0 .. Cap : i < size[s] => row[i] # "nul"
  BY <1>3 DEF Whole
<1> QED
  BY <1>1, <1>2, <1>3, <1>4, <1>5, TwinKeeps

\* ln copies up to the first NUL: where that is the end of the content, all of it.
LEMMA LinkKeeps ==
    ASSUME ContentInv, Link, UNCHANGED session
    PROVE  ContentInv'
<1>1. PICK s \in Entries, new \in Entries :
        LET k == StrLen(bytes[s])
        IN  /\ exists[s] /\ IsNextFree(new) /\ exists' = [exists EXCEPT ![new] = TRUE]
            /\ type' = [type EXCEPT ![new] = type[s]] /\ size' = [size EXCEPT ![new] = size[s]]
            /\ bytes' = [bytes EXCEPT ![new] =
                 [i \in 0 .. Cap |-> IF i < k THEN bytes[s][i] ELSE IF i = k THEN "nul"
                                     ELSE Leftover(bytes[new][i])]]
            /\ done' = done \union Cut(s)
  BY DEF Link
<1>2. pc = "idle" /\ UNCHANGED <<session, fd_tab, store>> /\ ~exists[new]
  BY <1>1 DEF Link, IsNextFree
<1>3. ContentTyped
  BY DEF ContentInv
<1>4. PICK k \in 0 .. Cap : /\ k = StrLen(bytes[s]) /\ bytes[s][k] = "nul"
                            /\ \A i \in 0 .. Cap : i < k => bytes[s][i] # "nul"
  BY <1>3, StrLenIs
<1>5. bytes[s] \in [0 .. Cap -> Bytes] /\ bytes[new] \in [0 .. Cap -> Bytes] /\ bytes[new][Cap] = "nul"
  BY <1>3 DEF ContentTyped, ContentTypeOK, LastIsNul
<1>6. PICK row \in [0 .. Cap -> Bytes] :
        row = [i \in 0 .. Cap |-> IF i < k THEN bytes[s][i] ELSE IF i = k THEN "nul"
                                  ELSE Leftover(bytes[new][i])]
  BY <1>5 DEF Leftover, Bytes
<1>7. row[Cap] = "nul"
  <2>1. Cap \in 0 .. Cap /\ ~(Cap < k)
    BY ContentAssumption
  <2> QED
    BY <1>5, <1>6, <2>1 DEF Leftover
<1>8. bytes' = [bytes EXCEPT ![new] = row]
  BY <1>1, <1>4, <1>6
<1>9. done' = done \/ done' = done \union {"cut"}
  BY <1>1 DEF Cut
<1>10. "cut" \notin done' => k = size[s]
  BY <1>1, <1>4 DEF Cut
<1>11. "cut" \notin done' => \A i \in 0 .. Cap : i < size[s] => row[i] = bytes[s][i]
  BY <1>6, <1>10
<1>12. Whole(s) => row[size[s]] = "nul" /\ \A i \in 0 .. Cap : i < size[s] => row[i] # "nul"
  <2>1. Whole(s) => k = size[s]
    BY <1>3, <1>4, StrLenOfText DEF Whole
  <2> QED
    BY <1>4, <1>6, <2>1
<1> QED
  BY <1>1, <1>2, <1>7, <1>8, <1>9, <1>11, <1>12, TwinKeeps

\* The main thread begins to store: from the start, or at the end of a text.
LEMMA BeginKeeps ==
    ASSUME ContentInv, Overwrite \/ EchoAppend, UNCHANGED session
    PROVE  ContentInv'
<1>1. ContentTypeOK /\ Opened /\ LastIsNul /\ StoreSane /\ Fresh /\ Text
  BY DEF ContentInv, ContentTyped
<1>2. PICK s \in Entries, a \in 0 .. Cap, n \in 0 .. Cap, z \in 0 .. Cap :
        /\ exists[s] /\ a + n <= Cap /\ Begin(s, a, n, z)
        /\ \/ a = 0 /\ z = n /\ done' = done
           \/ a = StrLen(bytes[s]) /\ z = size[s] + n /\ done' = done \union Cut(s)
  <2>1. CASE Overwrite
    <3>1. PICK s \in Entries, n \in 0 .. Cap : exists[s] /\ Begin(s, 0, n, n)
      BY <2>1 DEF Overwrite
    <3>2. 0 \in 0 .. Cap /\ 0 + n <= Cap
      BY ContentAssumption
    <3>3. done' = done
      BY <2>1 DEF Overwrite
    <3> QED
      BY <3>1, <3>2, <3>3
  <2>2. CASE EchoAppend
    <3>1. PICK s \in Entries, n \in 1 .. Cap :
            /\ exists[s] /\ size[s] + n <= Cap /\ AppendAt(s) + n <= Cap
            /\ Begin(s, AppendAt(s), n, size[s] + n) /\ done' = done \union Cut(s)
      BY <2>2 DEF EchoAppend
    <3>2. PICK a \in 0 .. Cap : a = AppendAt(s) /\ a = StrLen(bytes[s])
      BY StrLenIs DEF AppendAt, ContentInv
    <3>3. PICK z \in 0 .. Cap : z = size[s] + n
      <4>1. PICK y \in 0 .. Cap : y = size[s]
        BY <1>1 DEF ContentTypeOK
      <4> QED
        BY <3>1, <4>1, ContentAssumption
    <3>4. n \in 0 .. Cap
      OBVIOUS
    <3> QED
      BY <3>1, <3>2, <3>3, <3>4
  <2> QED
    BY <2>1, <2>2
<1>3. /\ pc = "idle" /\ target' = s /\ at' = a /\ left' = n /\ final' = z
      /\ pc' = (IF n > 0 THEN "copy" ELSE "nul")
      /\ UNCHANGED <<session, exists, type, size, bytes, fd_tab>>
      /\ done' \subseteq {"binary", "cut"} /\ done \subseteq done'
  <2>1. pc = "idle"
    BY DEF Overwrite, EchoAppend
  <2>2. done' \subseteq done \union {"cut"} /\ done \subseteq done'
    BY <1>2 DEF Cut
  <2> QED
    BY <1>1, <1>2, <2>1, <2>2 DEF Begin, entries, ContentTypeOK
<1>4. ContentTypeOK'
  BY <1>1, <1>2, <1>3 DEF ContentTypeOK
<1>5. Opened' /\ LastIsNul' /\ StoreSane'
  <2>1. n > 0 \/ n = 0
    BY ContentAssumption
  <2> QED
    BY <1>1, <1>2, <1>3, <2>1 DEF Opened, LastIsNul, StoreSane
<1>6. Fresh'
  <2> SUFFICES ASSUME "cut" \notin done'
               PROVE  /\ Clean' /\ z <= a + n
                      /\ \A i \in 0 .. Cap : i < a => bytes[s][i] # "stale"
    BY <1>3 DEF Fresh
  <2>1. Clean /\ Clean'
    BY <1>1, <1>3 DEF Fresh, Clean
  <2>2. (a = 0 /\ z = n) \/ (a = size[s] /\ z = a + n)
    BY <1>2 DEF Cut
  <2>3. z <= a + n
    BY <2>2, ContentAssumption
  <2>4. \A i \in 0 .. Cap : i < a => bytes[s][i] # "stale"
    BY <1>2, <2>1, <2>2 DEF Clean
  <2> QED
    BY <2>1, <2>3, <2>4
<1>7. Text'
  <2> SUFFICES ASSUME "binary" \notin done
               PROVE  /\ \A t \in Entries : exists[t] => Whole(t)'
                      /\ a + n = z /\ \A i \in 0 .. Cap : i < a => bytes[s][i] # "nul"
    BY <1>3 DEF Text
  <2>1. \A t \in Entries : exists[t] => Whole(t)
    BY <1>1, <1>3 DEF Text
  <2>2. \A t \in Entries : exists[t] => Whole(t)'
    BY <1>3, <2>1 DEF Whole
  <2>3. StrLen(bytes[s]) = size[s]
    BY <1>2, <2>1, StrLenOfText DEF Whole, ContentInv
  <2>4. a + n = z
    BY <1>2, <2>3, ContentAssumption
  <2>5. \A i \in 0 .. Cap : i < a => bytes[s][i] # "nul"
    BY <1>2, <2>1, <2>3 DEF Whole
  <2> QED
    BY <2>2, <2>4, <2>5
<1> QED
  BY <1>4, <1>5, <1>6, <1>7 DEF ContentInv, ContentTyped

\* One byte, or the NUL behind the last one, in the row of the target.
LEMMA StoreByteKeeps ==
    ASSUME ContentInv, StoreByte, UNCHANGED session
    PROVE  ContentInv'
<1>1. ContentTypeOK /\ Opened /\ LastIsNul /\ StoreSane /\ Fresh /\ Text
  BY DEF ContentInv, ContentTyped
<1>2. PICK v \in {"data", "nul"} :
        /\ bytes' = [bytes EXCEPT ![target][at] = v]
        /\ done' = IF v = "nul" THEN done \union {"binary"} ELSE done
  BY DEF StoreByte
<1>3. /\ pc = "copy" /\ at' = at + 1 /\ left' = left - 1
      /\ pc' = IF left > 1 THEN "copy" ELSE "nul"
      /\ UNCHANGED <<session, exists, type, size, fd_tab, target, final>>
  BY DEF StoreByte
<1>4. PICK s \in Entries, a \in 0 .. Cap, l \in 0 .. Cap, z \in 0 .. Cap :
        s = target /\ a = at /\ l = left /\ z = final /\ l > 0 /\ a + l <= Cap /\ exists[s]
  BY <1>1, <1>3 DEF StoreSane, ContentTypeOK
<1>5. /\ a + 1 \in 0 .. Cap /\ l - 1 \in 0 .. Cap /\ a < Cap /\ (a + 1) + (l - 1) = a + l
      /\ ~(l > 1) => l - 1 = 0
      /\ l > 1 => l - 1 > 0
  BY <1>4, ContentAssumption
<1>6. PICK row \in [0 .. Cap -> Bytes] :
        /\ row = [bytes[s] EXCEPT ![a] = v]
        /\ row[a] = v /\ \A i \in (0 .. Cap) \ {a} : row[i] = bytes[s][i]
  <2>1. PICK c \in [0 .. Cap -> Bytes] : c = bytes[s]
    BY <1>1 DEF ContentTypeOK
  <2>2. v \in Bytes
    BY DEF Bytes
  <2>3. [c EXCEPT ![a] = v] \in [0 .. Cap -> Bytes]
    BY <2>2
  <2> QED
    BY <2>1, <2>3
<1>7. bytes' = [bytes EXCEPT ![s] = row]
  BY <1>2, <1>4, <1>6
<1>8. bytes'[s] = row /\ \A t \in Entries \ {s} : bytes'[t] = bytes[t]
  BY <1>1, <1>7 DEF ContentTypeOK
<1>9. /\ at' = a + 1 /\ left' = l - 1 /\ target' = s /\ final' = z
      /\ pc' = IF l > 1 THEN "copy" ELSE "nul"
  BY <1>3, <1>4
<1>10. ContentTypeOK'
  <2>1. bytes' \in [Entries -> [0 .. Cap -> Bytes]]
    BY <1>1, <1>7 DEF ContentTypeOK
  <2>2. done' \subseteq {"binary", "cut"}
    BY <1>1, <1>2 DEF ContentTypeOK
  <2>3. pc' \in {"copy", "nul"} /\ at' \in 0 .. Cap /\ left' \in 0 .. Cap
    BY <1>5, <1>9
  <2>4. session' \in Sessions /\ exists' \in [Entries -> BOOLEAN] /\ type' \in [Entries -> {"file", "dir"}]
        /\ size' \in [Entries -> 0 .. Cap] /\ fd_tab' \in [Procs -> [Fds -> Descriptors]]
        /\ target' \in Entries \union {0} /\ final' \in 0 .. Cap
    BY <1>1, <1>3 DEF ContentTypeOK
  <2> QED
    BY <2>1, <2>2, <2>3, <2>4 DEF ContentTypeOK
<1>11. Opened' /\ LastIsNul' /\ StoreSane'
  <2>1. LastIsNul'
    <3>1. Cap \in 0 .. Cap /\ Cap # a
      BY <1>5, ContentAssumption
    <3> QED
      BY <1>1, <1>6, <1>8, <3>1 DEF LastIsNul
  <2>2. StoreSane'
    BY <1>3, <1>4, <1>5, <1>9 DEF StoreSane
  <2> QED
    BY <1>1, <1>3, <2>1, <2>2 DEF Opened
<1>12. \A i \in 0 .. Cap : i < a + 1 => i < a \/ i = a
  BY ContentAssumption
<1>13. Fresh'
  <2> SUFFICES ASSUME "cut" \notin done
               PROVE  Fresh'
    BY <1>2 DEF Fresh
  <2>1. Clean'
    <3>1. \A t \in Entries : exists[t] => \A i \in 0 .. Cap : i < size[t] => bytes[t][i] # "stale"
      BY <1>1 DEF Fresh, Clean
    <3>2. ASSUME NEW t \in Entries, exists[t], NEW i \in 0 .. Cap, i < size[t]
          PROVE  bytes'[t][i] # "stale"
      <4>1. bytes'[t][i] = bytes[t][i] \/ bytes'[t][i] = v
        BY <1>6, <1>8
      <4> QED
        BY <3>1, <3>2, <4>1
    <3> QED
      BY <1>3, <3>2 DEF Clean
  <2>2. \A i \in 0 .. Cap : i < a + 1 => row[i] # "stale"
    BY <1>1, <1>3, <1>4, <1>6, <1>12 DEF Fresh
  <2>3. z <= (a + 1) + (l - 1)
    BY <1>1, <1>3, <1>4, <1>5 DEF Fresh
  <2> QED
    BY <1>8, <1>9, <2>1, <2>2, <2>3 DEF Fresh
<1>14. Text'
  <2> SUFFICES ASSUME "binary" \notin done'
               PROVE  Text'
    BY DEF Text
  <2>1. v = "data" /\ done' = done
    BY <1>2
  <2>2. \A t \in Entries : exists[t] /\ t # s => Whole(t)
    BY <1>1, <1>3, <1>4, <2>1 DEF Text
  <2>3. \A t \in Entries : exists'[t] /\ t # s => Whole(t)'
    BY <1>3, <1>8, <2>2 DEF Whole
  <2>4. \A i \in 0 .. Cap : i < a + 1 => row[i] # "nul"
    BY <1>1, <1>3, <1>4, <1>6, <1>12, <2>1 DEF Text
  <2>5. (a + 1) + (l - 1) = z
    BY <1>1, <1>3, <1>4, <1>5, <2>1 DEF Text
  <2> QED
    BY <1>8, <1>9, <2>3, <2>4, <2>5 DEF Text
<1> QED
  BY <1>10, <1>11, <1>13, <1>14 DEF ContentInv, ContentTyped

\* The NUL is stored where the new content ends.
LEMMA StoreNulKeeps ==
    ASSUME ContentInv, StoreNul, UNCHANGED session
    PROVE  ContentInv'
<1>1. ContentTypeOK /\ Opened /\ LastIsNul /\ StoreSane /\ Fresh /\ Text
  BY DEF ContentInv, ContentTyped
<1>2. /\ pc = "nul" /\ bytes' = [bytes EXCEPT ![target] = Ended(@)] /\ pc' = "size"
      /\ UNCHANGED <<session, exists, type, size, fd_tab, target, at, left, final, done>>
  BY DEF StoreNul
<1>3. PICK s \in Entries, a \in 0 .. Cap : s = target /\ a = at /\ exists[s] /\ left = 0
  BY <1>1, <1>2 DEF StoreSane, ContentTypeOK
<1>4. PICK row \in [0 .. Cap -> Bytes] :
        /\ row = [bytes[s] EXCEPT ![a] = "nul"]
        /\ row[a] = "nul" /\ \A i \in (0 .. Cap) \ {a} : row[i] = bytes[s][i]
  <2>1. PICK c \in [0 .. Cap -> Bytes] : c = bytes[s]
    BY <1>1 DEF ContentTypeOK
  <2>2. "nul" \in Bytes
    BY DEF Bytes
  <2>3. [c EXCEPT ![a] = "nul"] \in [0 .. Cap -> Bytes]
    BY <2>2
  <2> QED
    BY <2>1, <2>3
<1>5. bytes' = [bytes EXCEPT ![s] = row]
  BY <1>2, <1>3, <1>4 DEF Ended
<1>6. bytes'[s] = row /\ \A t \in Entries \ {s} : bytes'[t] = bytes[t]
  BY <1>1, <1>5 DEF ContentTypeOK
<1>7. ContentTypeOK'
  BY <1>1, <1>2, <1>5 DEF ContentTypeOK
<1>8. Opened' /\ LastIsNul' /\ StoreSane'
  BY <1>1, <1>2, <1>4, <1>6, ContentAssumption DEF Opened, LastIsNul, StoreSane
<1>9. Fresh'
  <2> SUFFICES ASSUME "cut" \notin done
               PROVE  Fresh'
    BY <1>2 DEF Fresh
  <2>1. Clean'
    <3>1. \A t \in Entries : exists[t] => \A i \in 0 .. Cap : i < size[t] => bytes[t][i] # "stale"
      BY <1>1 DEF Fresh, Clean
    <3>2. ASSUME NEW t \in Entries, exists[t], NEW i \in 0 .. Cap, i < size[t]
          PROVE  bytes'[t][i] # "stale"
      <4>1. bytes'[t][i] = bytes[t][i] \/ bytes'[t][i] = "nul"
        BY <1>4, <1>6
      <4> QED
        BY <3>1, <3>2, <4>1
    <3> QED
      BY <1>2, <3>2 DEF Clean
  <2>2. \A i \in 0 .. Cap : i < a => row[i] # "stale"
    BY <1>1, <1>2, <1>3, <1>4 DEF Fresh
  <2>3. final <= at + left
    BY <1>1, <1>2 DEF Fresh
  <2> QED
    BY <1>2, <1>3, <1>6, <2>1, <2>2, <2>3 DEF Fresh
<1>10. Text'
  <2> SUFFICES ASSUME "binary" \notin done
               PROVE  Text'
    BY <1>2 DEF Text
  <2>1. \A t \in Entries : exists[t] /\ t # s => Whole(t)
    BY <1>1, <1>2, <1>3 DEF Text
  <2>2. \A t \in Entries : exists'[t] /\ t # s => Whole(t)'
    BY <1>2, <1>6, <2>1 DEF Whole
  <2>3. \A i \in 0 .. Cap : i < a => row[i] # "nul"
    <3>1. \A i \in 0 .. Cap : i < a => i # a
      OBVIOUS
    <3> QED
      BY <1>1, <1>2, <1>3, <1>4, <3>1 DEF Text
  <2>4. at + left = final
    BY <1>1, <1>2 DEF Text
  <2> QED
    <3>1. target' = s /\ at' = a /\ bytes'[target'] = row /\ pc' = "size" /\ done' = done
          /\ at' + left' = final'
      BY <1>2, <1>3, <1>6, <2>4
    <3> QED
      BY <1>4, <2>2, <2>3, <3>1 DEF Text
<1> QED
  BY <1>7, <1>8, <1>9, <1>10 DEF ContentInv, ContentTyped

\* Only now the file has its size.
LEMMA StoreSizeKeeps ==
    ASSUME ContentInv, StoreSize, UNCHANGED session
    PROVE  ContentInv'
<1>1. ContentTypeOK /\ Opened /\ LastIsNul /\ StoreSane /\ Fresh /\ Text
  BY DEF ContentInv, ContentTyped
<1>2. /\ pc = "size" /\ size' = [size EXCEPT ![target] = final] /\ pc' = "idle"
      /\ target' = 0 /\ at' = 0 /\ left' = 0 /\ final' = 0
      /\ UNCHANGED <<session, exists, type, bytes, fd_tab, done>>
  BY DEF StoreSize, NewSize
<1>3. PICK s \in Entries, a \in 0 .. Cap, z \in 0 .. Cap :
        s = target /\ a = at /\ z = final /\ left = 0 /\ a + left = a
  BY <1>1, <1>2 DEF StoreSane, ContentTypeOK
<1>4. size'[s] = z /\ \A t \in Entries \ {s} : size'[t] = size[t]
  BY <1>1, <1>2, <1>3 DEF ContentTypeOK
<1>5. ContentTypeOK'
  <2>1. size' \in [Entries -> 0 .. Cap] /\ 0 \in 0 .. Cap
    BY <1>1, <1>2, <1>3, ContentAssumption DEF ContentTypeOK
  <2> QED
    BY <1>1, <1>2, <2>1 DEF ContentTypeOK
<1>6. Opened' /\ LastIsNul' /\ StoreSane'
  BY <1>1, <1>2 DEF Opened, LastIsNul, StoreSane
<1>7. Fresh'
  <2> SUFFICES ASSUME "cut" \notin done
               PROVE  Clean'
    BY <1>2 DEF Fresh
  <2>1. z <= a /\ \A i \in 0 .. Cap : i < a => bytes[s][i] # "stale"
    BY <1>1, <1>2, <1>3 DEF Fresh
  <2>2. \A i \in 0 .. Cap : i < z => bytes[s][i] # "stale"
    BY <2>1, ContentAssumption
  <2> QED
    BY <1>1, <1>2, <1>4, <2>2 DEF Fresh, Clean
<1>8. Text'
  <2> SUFFICES ASSUME "binary" \notin done
               PROVE  \A t \in Entries : exists[t] => Whole(t)'
    BY <1>2 DEF Text
  <2>1. a = z /\ bytes[s][a] = "nul" /\ \A i \in 0 .. Cap : i < a => bytes[s][i] # "nul"
    BY <1>1, <1>2, <1>3 DEF Text
  <2>2. Whole(s)'
    BY <1>2, <1>4, <2>1 DEF Whole
  <2>3. \A t \in Entries : exists[t] /\ t # s => Whole(t)
    BY <1>1, <1>2, <1>3 DEF Text
  <2>4. \A t \in Entries : exists[t] /\ t # s => Whole(t)'
    BY <1>2, <1>4, <2>3 DEF Whole
  <2> QED
    BY <2>2, <2>4
<1> QED
  BY <1>5, <1>6, <1>7, <1>8 DEF ContentInv, ContentTyped

\* Every step keeps the invariant.
LEMMA ContentStep ==
    ContentInv /\ [ContentNext /\ UNCHANGED session]_contentVars => ContentInv'
<1> SUFFICES ASSUME ContentInv, [ContentNext /\ UNCHANGED session]_contentVars
             PROVE  ContentInv'
  OBVIOUS
<1>1. CASE UNCHANGED contentVars
  BY <1>1 DEF contentVars, entries, store, ContentInv, ContentTyped, ContentTypeOK, Opened, LastIsNul,
       StoreSane, Fresh, Clean, Text, Whole
<1>2. session.procs \subseteq Procs /\ ContentTypeOK /\ Opened
  BY ContentAssumption DEF ContentInv, ContentTyped, ContentTypeOK
<1>3. CASE UNCHANGED session /\ \E p \in session.procs : SysCall(p)
  <2>1. PICK p \in Procs : SysCall(p)
    BY <1>2, <1>3
  <2>2. CASE SysOpen(p) \/ SysRead(p) \/ SysLseek(p) \/ SysClose(p) \/ Release(p)
    BY <1>3, <2>2, CursorsKeep
  <2>3. CASE SysCreate(p)
    <3>1. PICK s \in Entries : IsNextFree(s) /\ Blank(s, "file") /\ OpenId(p, s)
      BY <2>3 DEF SysCreate
    <3>2. UNCHANGED <<store, done>>
      BY <2>3 DEF SysCreate
    <3>3. fd_tab' \in [Procs -> [Fds -> Descriptors]] /\ Opened'
      BY <1>2, <3>1, OpenKeepsTypes
    <3> QED
      BY <1>3, <3>1, <3>2, <3>3, BlankKeeps
  <2>4. CASE SysWriteFile(p)
    BY <1>3, <2>4, WriteKeeps
  <2> QED
    BY <2>1, <2>2, <2>3, <2>4 DEF SysCall
<1>4. CASE UNCHANGED session /\ \E k \in {"file", "dir"} : Create(k)
  <2>1. PICK k \in {"file", "dir"}, s \in Entries : IsNextFree(s) /\ Blank(s, k)
    BY <1>4 DEF Create
  <2>2. UNCHANGED <<fd_tab, store, done>>
    BY <1>4 DEF Create
  <2>3. fd_tab' \in [Procs -> [Fds -> Descriptors]] /\ Opened'
    BY <1>2, <2>2 DEF ContentTypeOK, Opened
  <2> QED
    BY <1>4, <2>1, <2>2, <2>3, BlankKeeps
<1>5. CASE UNCHANGED session /\ (Delete \/ Copy \/ Link)
  BY <1>5, DeleteKeeps, CopyKeeps, LinkKeeps
<1>6. CASE UNCHANGED session /\ (Overwrite \/ EchoAppend)
  BY <1>6, BeginKeeps
<1>7. CASE UNCHANGED session /\ (StoreByte \/ StoreNul \/ StoreSize)
  BY <1>7, StoreByteKeeps, StoreNulKeeps, StoreSizeKeeps
<1> QED
  BY <1>1, <1>3, <1>4, <1>5, <1>6, <1>7 DEF ContentNext

\* And so it holds always.
LEMMA ContentKept == ContentSpec => []ContentInv
  BY ContentStart, ContentStep, PTL DEF ContentSpec

\* No byte that an earlier file left in the slot becomes part of a content, at any point of any
\* interleaving of processes and the main thread, until ln or echo >> takes a content for shorter or
\* longer than its size; and a text is whole whenever the main thread stores nothing.
THEOREM ContentsStayTrue == ContentSpec => []ContentsTrue
<1>1. ContentInv => ContentsTrue
  <2> SUFFICES ASSUME ContentInv
               PROVE  ContentsTrue
    OBVIOUS
  <2>1. ContentTypeOK /\ Fresh /\ Text
    BY DEF ContentInv, ContentTyped
  <2>2. StaleOnlyByCut
    <3>1. ASSUME NEW s \in Entries, NEW i \in 0 .. (size[s] - 1)
          PROVE  i \in 0 .. Cap /\ i < size[s]
      <4>1. PICK z \in 0 .. Cap : z = size[s]
        BY <2>1 DEF ContentTypeOK
      <4> QED
        BY <4>1, ContentAssumption
    <3> QED
      BY <2>1, <3>1 DEF StaleOnlyByCut, Fresh, Clean, NoStaleBytes
  <2>3. TextStaysWhole
    BY <2>1 DEF TextStaysWhole, Text, Whole, Terminated, StoreReachesEnd
  <2> QED
    BY <2>2, <2>3 DEF ContentsTrue
<1> QED
  BY <1>1, ContentKept, PTL

-----------------------------------------------------------------------------
(* Files are byte streams: each step of this module is one of ByteStreams *)

\* What ByteStreams sees of a state.
FileOf   == [s \in Entries |-> IF exists[s] THEN Content(s) ELSE Absent]
HandleOf == [h \in Procs \X Fds |-> fd_tab[h[1]][h[2]].vfs_id]
CursorOf == [h \in Procs \X Fds |-> fd_tab[h[1]][h[2]].pos]

ShellOnly == {"create", "delete", "copy"}

\* A descriptor that is not used is on no file; such a shell stores no bytes.
StreamsInv ==
    /\ ContentTyped
    /\ \A p \in Procs, d \in Fds : ~fd_tab[p][d].used => fd_tab[p][d].vfs_id = 0
    /\ session.ops \subseteq ShellOnly => pc = "idle"

\* A function on 1 .. n is a sequence of length n.
LEMMA RowIsSeq ==
    ASSUME NEW n \in Nat, NEW S, NEW f \in [1 .. n -> S]
    PROVE  f \in Seq(S) /\ Len(f) = n
  OBVIOUS

\* What a content is.
LEMMA ContentIs ==
    ASSUME ContentTypeOK, NEW s \in Entries
    PROVE  /\ Content(s) \in Seq(Bytes) /\ Len(Content(s)) = size[s]
           /\ \A i \in 1 .. size[s] : Content(s)[i] = bytes[s][i - 1]
           /\ Content(s) # Absent
<1>1. PICK z \in 0 .. Cap, row \in [0 .. Cap -> Bytes] : z = size[s] /\ row = bytes[s]
  BY DEF ContentTypeOK
<1>2. PICK f : f = [i \in 1 .. z |-> row[i - 1]]
  OBVIOUS
<1>3. f = Content(s)
  BY <1>1, <1>2 DEF Content
<1>4. \A i \in 1 .. z : i - 1 \in 0 .. Cap
  BY ContentAssumption
<1>5. f \in [1 .. z -> Bytes] /\ z \in Nat
  BY <1>2, <1>4, ContentAssumption
<1>6. f \in Seq(Bytes) /\ Len(f) = z
  BY <1>5, RowIsSeq
<1>7. f # Absent
  <2>1. Len(Absent) = 1 /\ Absent[1] = "absent"
    BY DEF Absent
  <2>2. z = 1 => f[1] \in Bytes
    BY <1>5
  <2> QED
    BY <1>6, <2>1, <2>2 DEF Bytes
<1> QED
  BY <1>1, <1>2, <1>3, <1>6, <1>7

\* When one descriptor changes, one handle and one cursor do.
LEMMA RowMoves ==
    ASSUME ContentTypeOK, NEW p \in Procs, NEW d \in Fds,
           \A q \in Procs, c \in Fds : <<q, c>> # <<p, d>> => fd_tab'[q][c] = fd_tab[q][c]
    PROVE  /\ HandleOf' = [HandleOf EXCEPT ![<<p, d>>] = fd_tab'[p][d].vfs_id]
           /\ CursorOf' = [CursorOf EXCEPT ![<<p, d>>] = fd_tab'[p][d].pos]
<1>1. PICK r : r = fd_tab'[p][d]
  OBVIOUS
<1>2. ASSUME NEW h \in Procs \X Fds
      PROVE  fd_tab'[h[1]][h[2]] = IF h = <<p, d>> THEN r ELSE fd_tab[h[1]][h[2]]
  <2>1. PICK q \in Procs, c \in Fds : h = <<q, c>>
    OBVIOUS
  <2> QED
    BY <1>1, <2>1
<1>3. HandleOf' = [h \in Procs \X Fds |-> IF h = <<p, d>> THEN r.vfs_id ELSE HandleOf[h]]
  BY <1>2 DEF HandleOf
<1>4. CursorOf' = [h \in Procs \X Fds |-> IF h = <<p, d>> THEN r.pos ELSE CursorOf[h]]
  BY <1>2 DEF CursorOf
<1> QED
  BY <1>1, <1>3, <1>4 DEF HandleOf, CursorOf

\* What the abstract steps say, in the names of this module.
LEMMA AbstractSteps ==
    ASSUME \/ \E f \in Entries, c \in {<<>>} \union {FileOf[g] : g \in Entries} :
                /\ FileOf[f] = Absent /\ c # Absent /\ FileOf' = [FileOf EXCEPT ![f] = c]
                /\ \/ UNCHANGED <<HandleOf, CursorOf>>
                   \/ \E h \in Procs \X Fds :
                        /\ HandleOf[h] = 0 /\ HandleOf' = [HandleOf EXCEPT ![h] = f]
                        /\ CursorOf' = [CursorOf EXCEPT ![h] = 0]
           \/ \E f \in Entries : /\ FileOf' = [FileOf EXCEPT ![f] = Absent]
                                 /\ UNCHANGED <<HandleOf, CursorOf>>
           \/ \E f \in Entries, h \in Procs \X Fds :
                /\ FileOf[f] # Absent /\ UNCHANGED FileOf
                /\ HandleOf[h] = 0 /\ HandleOf' = [HandleOf EXCEPT ![h] = f]
                /\ CursorOf' = [CursorOf EXCEPT ![h] = 0]
           \/ \E H \in SUBSET (Procs \X Fds) :
                /\ HandleOf' = [h \in Procs \X Fds |-> IF h \in H THEN 0 ELSE HandleOf[h]]
                /\ CursorOf' = [h \in Procs \X Fds |-> IF h \in H THEN 0 ELSE CursorOf[h]]
                /\ UNCHANGED FileOf
           \/ \E h \in Procs \X Fds, x \in 0 .. MaxPos :
                /\ HandleOf[h] # 0 /\ CursorOf' = [CursorOf EXCEPT ![h] = x]
                /\ UNCHANGED <<FileOf, HandleOf>>
           \/ \E h \in Procs \X Fds, n \in 0 .. Cap : \E w \in [1 .. n -> {"nul", "data"}] :
                /\ HandleOf[h] # 0 /\ FileOf[HandleOf[h]] # Absent /\ CursorOf[h] + n <= Cap
                /\ FileOf' = [FileOf EXCEPT ![HandleOf[h]] =
                                Streams!Stored(FileOf[HandleOf[h]], CursorOf[h], w)]
                /\ CursorOf' = [CursorOf EXCEPT ![h] = CursorOf[h] + n]
                /\ UNCHANGED HandleOf
           \/ UNCHANGED <<FileOf, HandleOf, CursorOf>>
    PROVE  [Streams!StreamNext]_(Streams!streams)
<1>1. CASE \E f \in Entries, c \in {<<>>} \union {FileOf[g] : g \in Entries} :
             /\ FileOf[f] = Absent /\ c # Absent /\ FileOf' = [FileOf EXCEPT ![f] = c]
             /\ \/ UNCHANGED <<HandleOf, CursorOf>>
                \/ \E h \in Procs \X Fds :
                     /\ HandleOf[h] = 0 /\ HandleOf' = [HandleOf EXCEPT ![h] = f]
                     /\ CursorOf' = [CursorOf EXCEPT ![h] = 0]
  BY <1>1 DEF Streams!StreamNext, Streams!Make, Streams!OpenOn, FileOf, HandleOf, CursorOf
<1>2. CASE \E f \in Entries : /\ FileOf' = [FileOf EXCEPT ![f] = Absent]
                              /\ UNCHANGED <<HandleOf, CursorOf>>
  BY <1>2 DEF Streams!StreamNext, Streams!Remove, FileOf, HandleOf, CursorOf
<1>3. CASE \E f \in Entries, h \in Procs \X Fds :
             /\ FileOf[f] # Absent /\ UNCHANGED FileOf
             /\ HandleOf[h] = 0 /\ HandleOf' = [HandleOf EXCEPT ![h] = f]
             /\ CursorOf' = [CursorOf EXCEPT ![h] = 0]
  <2>1. PICK f \in Entries, h \in Procs \X Fds :
           /\ FileOf[f] # Absent /\ UNCHANGED FileOf
           /\ HandleOf[h] = 0 /\ HandleOf' = [HandleOf EXCEPT ![h] = f]
           /\ CursorOf' = [CursorOf EXCEPT ![h] = 0]
    BY <1>3
  <2>2. Streams!OpenOn(h, f)
    BY <2>1 DEF Streams!OpenOn, HandleOf, CursorOf
  <2>3. Streams!Open(f)
    BY <2>1, <2>2 DEF Streams!Open, FileOf
  <2> QED
    BY <2>3 DEF Streams!StreamNext
<1>4. CASE \E H \in SUBSET (Procs \X Fds) :
             /\ HandleOf' = [h \in Procs \X Fds |-> IF h \in H THEN 0 ELSE HandleOf[h]]
             /\ CursorOf' = [h \in Procs \X Fds |-> IF h \in H THEN 0 ELSE CursorOf[h]]
             /\ UNCHANGED FileOf
  BY <1>4 DEF Streams!StreamNext, Streams!Close, FileOf, HandleOf, CursorOf
<1>5. CASE \E h \in Procs \X Fds, x \in 0 .. MaxPos :
             /\ HandleOf[h] # 0 /\ CursorOf' = [CursorOf EXCEPT ![h] = x]
             /\ UNCHANGED <<FileOf, HandleOf>>
  BY <1>5 DEF Streams!StreamNext, Streams!Seek, FileOf, HandleOf, CursorOf
<1>6. CASE \E h \in Procs \X Fds, n \in 0 .. Cap : \E w \in [1 .. n -> {"nul", "data"}] :
             /\ HandleOf[h] # 0 /\ FileOf[HandleOf[h]] # Absent /\ CursorOf[h] + n <= Cap
             /\ FileOf' = [FileOf EXCEPT ![HandleOf[h]] =
                             Streams!Stored(FileOf[HandleOf[h]], CursorOf[h], w)]
             /\ CursorOf' = [CursorOf EXCEPT ![h] = CursorOf[h] + n]
             /\ UNCHANGED HandleOf
  <2>1. PICK h \in Procs \X Fds, n \in 0 .. Cap : \E w \in [1 .. n -> {"nul", "data"}] :
           /\ HandleOf[h] # 0 /\ FileOf[HandleOf[h]] # Absent /\ CursorOf[h] + n <= Cap
           /\ FileOf' = [FileOf EXCEPT ![HandleOf[h]] =
                           Streams!Stored(FileOf[HandleOf[h]], CursorOf[h], w)]
           /\ CursorOf' = [CursorOf EXCEPT ![h] = CursorOf[h] + n]
           /\ UNCHANGED HandleOf
    BY <1>6
  <2>2. Streams!Write(h)
    BY <2>1 DEF Streams!Write, FileOf, HandleOf, CursorOf
  <2> QED
    BY <2>2 DEF Streams!StreamNext
<1>7. CASE UNCHANGED <<FileOf, HandleOf, CursorOf>>
  BY <1>7 DEF Streams!streams, FileOf, HandleOf, CursorOf
<1> QED
  BY <1>1, <1>2, <1>3, <1>4, <1>5, <1>6, <1>7

\* A step that leaves the entries alone leaves the files alone.
LEMMA SameFiles ==
    ASSUME UNCHANGED <<exists, size, bytes>>
    PROVE  UNCHANGED FileOf
  BY DEF FileOf, Content

\* A step that changes one entry changes one file.
LEMMA OneFile ==
    ASSUME NEW s \in Entries,
           \A t \in Entries \ {s} : /\ exists'[t] = exists[t] /\ size'[t] = size[t]
                                    /\ bytes'[t] = bytes[t]
    PROVE  FileOf' = [FileOf EXCEPT ![s] = IF exists'[s] THEN Content(s)' ELSE Absent]
<1>1. \A t \in Entries \ {s} : Content(t)' = Content(t)
  BY DEF Content
<1>2. FileOf' = [t \in Entries |-> IF t = s THEN IF exists'[s] THEN Content(s)' ELSE Absent
                                   ELSE FileOf[t]]
  BY <1>1 DEF FileOf
<1> QED
  BY <1>2 DEF FileOf

\* vfs_write_at stores what the abstract write stores.
LEMMA WrittenIsStored ==
    ASSUME ContentTypeOK, NEW s \in Entries, NEW q \in 0 .. Cap, NEW n \in 0 .. Cap, q + n <= Cap,
           NEW v \in {"nul", "data"}, NEW w, w = [i \in 1 .. n |-> v],
           bytes'[s] = Written(bytes[s], size[s], q, v, n),
           size'[s] = Greatest(size[s], q + n)
    PROVE  Content(s)' = Streams!Stored(Content(s), q, w)
<1>1. PICK old \in 0 .. Cap, c \in [0 .. Cap -> Bytes] : old = size[s] /\ c = bytes[s]
  BY DEF ContentTypeOK
<1>2. PICK z \in 0 .. Cap : z = Greatest(old, q + n) /\ z = (IF q + n > old THEN q + n ELSE old)
  BY ContentAssumption DEF Greatest
<1>3. /\ Len(w) = n /\ \A i \in 1 .. n : w[i] = v
  <2>1. w \in [1 .. n -> {"nul", "data"}] /\ n \in Nat
    BY ContentAssumption
  <2> QED
    BY <2>1, RowIsSeq
<1>4. PICK f : f = Content(s) /\ Len(f) = old /\ \A i \in 1 .. old : f[i] = c[i - 1]
  BY <1>1, ContentIs
<1>5. Streams!Stored(f, q, w) = [i \in 1 .. z |-> IF i > q /\ i <= q + n THEN w[i - q]
                                                  ELSE IF i <= old THEN f[i] ELSE "nul"]
  BY <1>2, <1>3, <1>4 DEF Streams!Stored
<1>6. bytes'[s] = [i \in 0 .. Cap |-> IF i = z THEN "nul" ELSE IF i \in q .. (q + n - 1) THEN v
                                      ELSE IF i \in old .. (q - 1) THEN "nul" ELSE c[i]]
  BY <1>1, <1>2 DEF Written
<1>7. Content(s)' = [i \in 1 .. z |-> bytes'[s][i - 1]]
  BY <1>1, <1>2 DEF Content
<1>8. ASSUME NEW i \in 1 .. z
      PROVE  bytes'[s][i - 1] = IF i > q /\ i <= q + n THEN w[i - q]
                                ELSE IF i <= old THEN f[i] ELSE "nul"
  <2>1. PICK j \in 0 .. Cap : j = i - 1 /\ j # z
    BY ContentAssumption
  <2>2. bytes'[s][j] = IF j \in q .. (q + n - 1) THEN v ELSE IF j \in old .. (q - 1) THEN "nul" ELSE c[j]
    BY <1>6, <2>1
  <2>3. CASE i > q /\ i <= q + n
    <3>1. j \in q .. (q + n - 1) /\ i - q \in 1 .. n
      BY <2>1, <2>3, ContentAssumption
    <3> QED
      BY <1>3, <2>1, <2>2, <2>3, <3>1
  <2>4. CASE ~(i > q /\ i <= q + n) /\ i <= old
    <3>1. j \notin q .. (q + n - 1) /\ j \notin old .. (q - 1) /\ i \in 1 .. old
      BY <2>1, <2>4, ContentAssumption
    <3> QED
      BY <1>4, <2>1, <2>2, <2>4, <3>1
  <2>5. CASE ~(i > q /\ i <= q + n) /\ ~(i <= old)
    <3>1. j \notin q .. (q + n - 1) /\ j \in old .. (q - 1)
      <4>1. i <= z /\ i > old /\ i \in Nat /\ q \in Nat /\ n \in Nat /\ old \in Nat
        BY <2>5, ContentAssumption
      <4>2. i <= q + n
        BY <1>2, <4>1
      <4>3. i <= q
        BY <2>5, <4>1, <4>2
      <4> QED
        BY <2>1, <4>1, <4>3
    <3> QED
      BY <2>1, <2>2, <2>5, <3>1
  <2> QED
    BY <2>3, <2>4, <2>5
<1>9. [i \in 1 .. z |-> bytes'[s][i - 1]] = Streams!Stored(f, q, w)
  BY <1>5, <1>8
<1> QED
  BY <1>4, <1>7, <1>9

\* A new file is empty.
LEMMA BlankIsEmpty ==
    ASSUME ContentTypeOK, NEW s \in Entries, IsNextFree(s), NEW k, Blank(s, k)
    PROVE  FileOf[s] = Absent /\ FileOf' = [FileOf EXCEPT ![s] = <<>>] /\ <<>> # Absent
<1>1. /\ ~exists[s] /\ exists' = [exists EXCEPT ![s] = TRUE] /\ size' = [size EXCEPT ![s] = 0]
      /\ \A t \in Entries \ {s} : bytes'[t] = bytes[t]
  BY DEF IsNextFree, Blank, ContentTypeOK
<1>2. /\ exists'[s] /\ size'[s] = 0
      /\ \A t \in Entries \ {s} : exists'[t] = exists[t] /\ size'[t] = size[t]
  BY <1>1 DEF ContentTypeOK
<1>3. Content(s)' = <<>>
  <2>1. Content(s)' = [i \in 1 .. 0 |-> bytes'[s][i - 1]]
    BY <1>2 DEF Content
  <2>2. 1 .. 0 = {}
    OBVIOUS
  <2>3. [i \in 1 .. 0 |-> bytes'[s][i - 1]] \in [1 .. 0 -> Bytes]
    BY <2>2
  <2>4. Content(s)' \in Seq(Bytes) /\ Len(Content(s)') = 0
    BY <2>1, <2>3, RowIsSeq
  <2> QED
    BY <2>4, EmptySeq
<1>4. <<>> # Absent
  <2>1. Len(<<>>) = 0 /\ Len(Absent) = 1
    BY DEF Absent
  <2> QED
    BY <2>1
<1> QED
  BY <1>1, <1>2, <1>3, <1>4, OneFile DEF FileOf

\* SYS_READ moves the offset of a descriptor that is open.
LEMMA ReadMoves ==
    ASSUME ContentTypeOK, Opened, NEW p \in Procs, SysRead(p)
    PROVE  \E d \in Fds, x \in 0 .. MaxPos :
             fd_tab[p][d].used /\ fd_tab' = [fd_tab EXCEPT ![p][d].pos = x]
<1>1. PICK d \in Fds, len \in 1 .. Cap :
         /\ fd_tab[p][d].used
         /\ fd_tab' = [fd_tab EXCEPT ![p][d].pos =
                         @ + Least(len, Readable(fd_tab[p][d].vfs_id, fd_tab[p][d].pos))]
  BY DEF SysRead
<1>2. PICK s \in Entries, q \in 0 .. MaxPos : s = fd_tab[p][d].vfs_id /\ q = fd_tab[p][d].pos
  BY <1>1 DEF ContentTypeOK, Opened, Descriptors
<1>3. PICK z \in 0 .. Cap : z = size[s]
  BY <1>2 DEF ContentTypeOK
<1>4. PICK x \in 0 .. MaxPos : x = q + Least(len, Readable(s, q))
  <2>1. CASE q >= z
    BY <1>3, <2>1, ContentAssumption DEF Readable, Least
  <2>2. CASE ~(q >= z)
    BY <1>3, <2>2, ContentAssumption DEF Readable, Least
  <2> QED
    BY <2>1, <2>2
<1> QED
  BY <1>1, <1>2, <1>4

\* SYS_WRITE_FILE, with its offset and the number of bytes that fit.
WritesAt(p, d, s, q, n, v) ==
    /\ fd_tab[p][d].used /\ s = fd_tab[p][d].vfs_id /\ q = fd_tab[p][d].pos
    /\ q + n <= Cap /\ exists[s] /\ UNCHANGED exists
    /\ bytes' = [bytes EXCEPT ![s] = Written(bytes[s], size[s], q, v, n)]
    /\ size' = [size EXCEPT ![s] = Greatest(size[s], q + n)]
    /\ fd_tab' = [fd_tab EXCEPT ![p][d].pos = q + n]

\* Every SYS_WRITE_FILE that is not refused is one of those.
LEMMA WriteIs ==
    ASSUME ContentTypeOK, Opened, NEW p \in Procs, SysWriteFile(p)
    PROVE  \E d \in Fds, s \in Entries, q \in 0 .. Cap, n \in 0 .. Cap, v \in {"nul", "data"} :
             WritesAt(p, d, s, q, n, v)
<1>1. PICK d \in Fds, len \in 0 .. Cap :
        LET e == fd_tab[p][d]
            s == e.vfs_id
            n == Least(len, Cap - e.pos)
        IN  /\ e.used /\ exists[s] /\ e.pos < Cap
            /\ \E v \in {"nul", "data"} :
                 bytes' = [bytes EXCEPT ![s] = Written(@, size[s], e.pos, v, n)]
            /\ size' = [size EXCEPT ![s] = Greatest(@, e.pos + n)]
            /\ fd_tab' = [fd_tab EXCEPT ![p][d].pos = @ + n]
  BY DEF SysWriteFile
<1>2. PICK s \in Entries, q \in 0 .. MaxPos : s = fd_tab[p][d].vfs_id /\ q = fd_tab[p][d].pos
  BY <1>1 DEF ContentTypeOK, Opened, Descriptors
<1>3. PICK n \in 0 .. Cap : n = Least(len, Cap - q) /\ q \in 0 .. Cap /\ q + n <= Cap
  <2>1. q < Cap
    BY <1>1, <1>2
  <2> QED
    BY <2>1, ContentAssumption DEF Least
<1>4. PICK v \in {"nul", "data"} : bytes' = [bytes EXCEPT ![s] = Written(bytes[s], size[s], q, v, n)]
  BY <1>1, <1>2, <1>3
<1>5. /\ size' = [size EXCEPT ![s] = Greatest(size[s], q + n)]
      /\ fd_tab' = [fd_tab EXCEPT ![p][d].pos = q + n]
  BY <1>1, <1>2, <1>3
<1>6. UNCHANGED exists
  BY DEF SysWriteFile
<1>7. fd_tab[p][d].used /\ exists[s]
  BY <1>1, <1>2
<1>8. q \in 0 .. Cap /\ q + n <= Cap
  BY <1>3
<1> USE <1>8
<1> WITNESS d \in Fds, s \in Entries, q \in 0 .. Cap, n \in 0 .. Cap, v \in {"nul", "data"}
<1> QED
  BY <1>2, <1>4, <1>5, <1>6, <1>7, <1>8 DEF WritesAt

\* Every system call is a step of the streams.
LEMMA CallsAreStreams ==
    ASSUME ContentTyped, StreamsInv, NEW p \in Procs, SysCall(p), UNCHANGED session
    PROVE  /\ [Streams!StreamNext]_(Streams!streams)
           /\ \A r \in Procs, c \in Fds : ~fd_tab'[r][c].used => fd_tab'[r][c].vfs_id = 0
<1> DEFINE Idle == \A r \in Procs, c \in Fds : ~fd_tab[r][c].used => fd_tab[r][c].vfs_id = 0
<1>1. ContentTypeOK /\ Opened /\ Idle
  BY DEF ContentTyped, StreamsInv
<1>0. ContentTypeOK /\ Opened
  BY <1>1
<1>2. ASSUME NEW d \in Fds, fd_tab[p][d].used
      PROVE  /\ <<p, d>> \in Procs \X Fds /\ HandleOf[<<p, d>>] = fd_tab[p][d].vfs_id
             /\ CursorOf[<<p, d>>] = fd_tab[p][d].pos /\ HandleOf[<<p, d>>] \in Entries
             /\ HandleOf[<<p, d>>] # 0 /\ fd_tab[p][d].pos \in 0 .. MaxPos
  <2>1. fd_tab[p][d] \in Descriptors /\ fd_tab[p][d].vfs_id \in Entries
    BY <1>1, <1>2 DEF ContentTypeOK, Opened
  <2> QED
    BY <2>1 DEF HandleOf, CursorOf, Descriptors, Entries
<1>3. ASSUME NEW s \in Entries, OpenId(p, s)
      PROVE  /\ Idle'
             /\ \/ UNCHANGED <<HandleOf, CursorOf>>
                \/ \E h \in Procs \X Fds : /\ HandleOf[h] = 0 /\ HandleOf' = [HandleOf EXCEPT ![h] = s]
                                           /\ CursorOf' = [CursorOf EXCEPT ![h] = 0]
  <2>1. CASE UNCHANGED fd_tab
    BY <1>1, <2>1 DEF HandleOf, CursorOf
  <2>2. CASE \E d \in FreeFds(p) :
               fd_tab' = [fd_tab EXCEPT ![p][d] = [used |-> TRUE, vfs_id |-> s, pos |-> 0]]
    <3>1. PICK d \in Fds : /\ ~fd_tab[p][d].used
                           /\ fd_tab' = [fd_tab EXCEPT ![p][d] = [used |-> TRUE, vfs_id |-> s, pos |-> 0]]
      BY <2>2 DEF FreeFds
    <3>2. PICK r : r = [used |-> TRUE, vfs_id |-> s, pos |-> 0]
      OBVIOUS
    <3>7. r.used /\ r.vfs_id = s /\ r.pos = 0
      BY <3>2
    <3>6. fd_tab' = [fd_tab EXCEPT ![p][d] = r]
      BY <3>1, <3>2
    <3>3. /\ HandleOf' = [HandleOf EXCEPT ![<<p, d>>] = s] /\ CursorOf' = [CursorOf EXCEPT ![<<p, d>>] = 0]
          /\ fd_tab'[p][d].used
          /\ \A t \in Procs, c \in Fds : <<t, c>> # <<p, d>> => fd_tab'[t][c] = fd_tab[t][c]
      <4>1. /\ HandleOf' = [HandleOf EXCEPT ![<<p, d>>] = r.vfs_id]
            /\ CursorOf' = [CursorOf EXCEPT ![<<p, d>>] = r.pos]
            /\ fd_tab'[p][d] = r
            /\ \A t \in Procs, c \in Fds : <<t, c>> # <<p, d>> => fd_tab'[t][c] = fd_tab[t][c]
        <5>1. PICK row : row = [fd_tab[p] EXCEPT ![d] = r]
          OBVIOUS
        <5>2. row[d] = r /\ \A c \in Fds \ {d} : row[c] = fd_tab[p][c]
          BY <1>0, <5>1 DEF ContentTypeOK
        <5>3. fd_tab'[p] = row /\ \A t \in Procs \ {p} : fd_tab'[t] = fd_tab[t]
          BY <1>0, <3>6, <5>1 DEF ContentTypeOK
        <5>4. /\ fd_tab'[p][d] = r
              /\ \A t \in Procs, c \in Fds : <<t, c>> # <<p, d>> => fd_tab'[t][c] = fd_tab[t][c]
          BY <5>2, <5>3
        <5>5. /\ HandleOf' = [HandleOf EXCEPT ![<<p, d>>] = fd_tab'[p][d].vfs_id]
              /\ CursorOf' = [CursorOf EXCEPT ![<<p, d>>] = fd_tab'[p][d].pos]
          BY <1>0, <5>4, RowMoves
        <5> QED
          BY <5>4, <5>5
      <4> QED
        BY <3>7, <4>1
    <3>4. HandleOf[<<p, d>>] = 0
      BY <1>1, <3>1 DEF HandleOf
    <3>5. Idle'
      BY <1>1, <3>3
    <3> QED
      BY <3>3, <3>4, <3>5
  <2> QED
    BY <1>3, <2>1, <2>2 DEF OpenId
<1>4. CASE SysOpen(p)
  <2>1. PICK s \in Entries : exists[s] /\ OpenId(p, s)
    BY <1>4 DEF SysOpen
  <2>2. UNCHANGED FileOf
    BY <1>4, SameFiles DEF SysOpen, entries
  <2>3. FileOf[s] # Absent
    BY <1>1, <2>1, ContentIs DEF FileOf
  <2> QED
    BY <1>3, <2>1, <2>2, <2>3, AbstractSteps
<1>5. CASE SysCreate(p)
  <2>1. PICK s \in Entries : IsNextFree(s) /\ Blank(s, "file") /\ OpenId(p, s)
    BY <1>5 DEF SysCreate
  <2>2. FileOf[s] = Absent /\ FileOf' = [FileOf EXCEPT ![s] = <<>>] /\ <<>> # Absent
    BY <1>1, <2>1, BlankIsEmpty
  <2> QED
    BY <1>3, <2>1, <2>2, AbstractSteps
<1>6. ASSUME NEW d \in Fds, NEW x, fd_tab[p][d].used, fd_tab' = [fd_tab EXCEPT ![p][d].pos = x]
      PROVE  /\ Idle' /\ CursorOf' = [CursorOf EXCEPT ![<<p, d>>] = x] /\ UNCHANGED HandleOf
  <2>1. PICK r \in Descriptors : r = fd_tab[p][d]
    BY <1>1 DEF ContentTypeOK
  <2>2. PICK m : m = [r EXCEPT !.pos = x]
    OBVIOUS
  <2>7. m.used = r.used /\ m.vfs_id = r.vfs_id /\ m.pos = x
    BY <2>2 DEF Descriptors
  <2>3. fd_tab' = [fd_tab EXCEPT ![p][d] = m]
    BY <1>6, <2>1, <2>2
  <2>4. /\ HandleOf' = [HandleOf EXCEPT ![<<p, d>>] = m.vfs_id]
        /\ CursorOf' = [CursorOf EXCEPT ![<<p, d>>] = m.pos]
        /\ fd_tab'[p][d] = m
        /\ \A t \in Procs, c \in Fds : <<t, c>> # <<p, d>> => fd_tab'[t][c] = fd_tab[t][c]
    <3>1. PICK row : row = [fd_tab[p] EXCEPT ![d] = m]
      OBVIOUS
    <3>2. row[d] = m /\ \A c \in Fds \ {d} : row[c] = fd_tab[p][c]
      BY <1>0, <3>1 DEF ContentTypeOK
    <3>3. fd_tab'[p] = row /\ \A t \in Procs \ {p} : fd_tab'[t] = fd_tab[t]
      BY <1>0, <2>3, <3>1 DEF ContentTypeOK
    <3>4. /\ fd_tab'[p][d] = m
          /\ \A t \in Procs, c \in Fds : <<t, c>> # <<p, d>> => fd_tab'[t][c] = fd_tab[t][c]
      BY <3>2, <3>3
    <3>5. /\ HandleOf' = [HandleOf EXCEPT ![<<p, d>>] = fd_tab'[p][d].vfs_id]
          /\ CursorOf' = [CursorOf EXCEPT ![<<p, d>>] = fd_tab'[p][d].pos]
      BY <1>0, <3>4, RowMoves
    <3> QED
      BY <3>4, <3>5
  <2>5. HandleOf' = HandleOf
    <3>1. HandleOf = [h \in Procs \X Fds |-> HandleOf[h]] /\ HandleOf[<<p, d>>] = m.vfs_id
      BY <2>1, <2>7 DEF HandleOf
    <3> QED
      BY <2>4, <3>1
  <2>6. Idle'
    BY <1>1, <1>6, <2>1, <2>7, <2>4
  <2> QED
    BY <2>7, <2>4, <2>5, <2>6
<1>7. CASE SysRead(p) \/ SysLseek(p)
  <2>1. PICK d \in Fds, x \in 0 .. MaxPos :
           fd_tab[p][d].used /\ fd_tab' = [fd_tab EXCEPT ![p][d].pos = x]
    <3>1. CASE SysLseek(p)
      BY <3>1 DEF SysLseek
    <3>2. CASE SysRead(p)
      BY <1>1, <3>2, ReadMoves
    <3> QED
      BY <1>7, <3>1, <3>2
  <2>2. UNCHANGED FileOf
    BY <1>7, SameFiles DEF SysRead, SysLseek, entries
  <2>3. Idle' /\ CursorOf' = [CursorOf EXCEPT ![<<p, d>>] = x] /\ UNCHANGED HandleOf
    BY <1>6, <2>1
  <2>4. <<p, d>> \in Procs \X Fds /\ HandleOf[<<p, d>>] # 0
    BY <1>2, <2>1
  <2> QED
    BY <2>2, <2>3, <2>4, AbstractSteps
<1>8. CASE SysClose(p)
  <2>1. PICK d \in Fds : fd_tab' = [fd_tab EXCEPT ![p][d] = Closed]
    BY <1>8 DEF SysClose
  <2>2. /\ HandleOf' = [HandleOf EXCEPT ![<<p, d>>] = 0] /\ CursorOf' = [CursorOf EXCEPT ![<<p, d>>] = 0]
        /\ fd_tab'[p][d].vfs_id = 0
        /\ \A t \in Procs, c \in Fds : <<t, c>> # <<p, d>> => fd_tab'[t][c] = fd_tab[t][c]
    <3>1. PICK r : r = Closed
      OBVIOUS
    <3>3. r.vfs_id = 0 /\ r.pos = 0
      BY <3>1 DEF Closed
    <3>2. fd_tab' = [fd_tab EXCEPT ![p][d] = r]
      BY <2>1, <3>1
    <3> QED
      <4>1. /\ HandleOf' = [HandleOf EXCEPT ![<<p, d>>] = r.vfs_id]
            /\ CursorOf' = [CursorOf EXCEPT ![<<p, d>>] = r.pos]
            /\ fd_tab'[p][d] = r
            /\ \A t \in Procs, c \in Fds : <<t, c>> # <<p, d>> => fd_tab'[t][c] = fd_tab[t][c]
        <5>1. PICK row : row = [fd_tab[p] EXCEPT ![d] = r]
          OBVIOUS
        <5>2. row[d] = r /\ \A c \in Fds \ {d} : row[c] = fd_tab[p][c]
          BY <1>0, <5>1 DEF ContentTypeOK
        <5>3. fd_tab'[p] = row /\ \A t \in Procs \ {p} : fd_tab'[t] = fd_tab[t]
          BY <1>0, <3>2, <5>1 DEF ContentTypeOK
        <5>4. /\ fd_tab'[p][d] = r
              /\ \A t \in Procs, c \in Fds : <<t, c>> # <<p, d>> => fd_tab'[t][c] = fd_tab[t][c]
          BY <5>2, <5>3
        <5>5. /\ HandleOf' = [HandleOf EXCEPT ![<<p, d>>] = fd_tab'[p][d].vfs_id]
              /\ CursorOf' = [CursorOf EXCEPT ![<<p, d>>] = fd_tab'[p][d].pos]
          BY <1>0, <5>4, RowMoves
        <5> QED
          BY <5>4, <5>5
      <4> QED
        BY <3>3, <4>1
  <2>3. PICK H \in SUBSET (Procs \X Fds) : H = {<<p, d>>}
    <3>1. <<p, d>> \in Procs \X Fds
      OBVIOUS
    <3>2. {<<p, d>>} \in SUBSET (Procs \X Fds)
      BY <3>1
    <3> QED
      BY <3>2
  <2>4. /\ HandleOf' = [h \in Procs \X Fds |-> IF h \in H THEN 0 ELSE HandleOf[h]]
        /\ CursorOf' = [h \in Procs \X Fds |-> IF h \in H THEN 0 ELSE CursorOf[h]]
    BY <2>2, <2>3 DEF HandleOf, CursorOf
  <2>5. UNCHANGED FileOf
    BY <1>8, SameFiles DEF SysClose, entries
  <2>6. Idle'
    BY <1>1, <2>2
  <2> QED
    BY <2>4, <2>5, <2>6, AbstractSteps
<1>9. CASE Release(p)
  <2>1. fd_tab' = [fd_tab EXCEPT ![p] = [d \in Fds |-> Closed]] /\ UNCHANGED <<exists, size, bytes>>
    BY <1>9 DEF Release, entries
  <2>2. /\ \A c \in Fds : fd_tab'[p][c] = Closed
        /\ \A t \in Procs \ {p} : fd_tab'[t] = fd_tab[t]
    BY <1>1, <2>1 DEF ContentTypeOK
  <2>3. PICK H \in SUBSET (Procs \X Fds) : H = {h \in Procs \X Fds : h[1] = p}
    OBVIOUS
  <2>4. ASSUME NEW h \in Procs \X Fds
        PROVE  fd_tab'[h[1]][h[2]] = IF h \in H THEN Closed ELSE fd_tab[h[1]][h[2]]
    BY <2>2, <2>3
  <2>5. /\ HandleOf' = [h \in Procs \X Fds |-> IF h \in H THEN 0 ELSE HandleOf[h]]
        /\ CursorOf' = [h \in Procs \X Fds |-> IF h \in H THEN 0 ELSE CursorOf[h]]
    BY <2>4 DEF HandleOf, CursorOf, Closed
  <2>6. UNCHANGED FileOf
    BY <2>1, SameFiles
  <2>7. Idle'
    BY <1>1, <2>2 DEF Closed
  <2> QED
    BY <2>5, <2>6, <2>7, AbstractSteps
<1>10. CASE SysWriteFile(p)
  <2>1. PICK d \in Fds, s \in Entries, q \in 0 .. Cap, n \in 0 .. Cap, v \in {"nul", "data"} :
          /\ fd_tab[p][d].used /\ s = fd_tab[p][d].vfs_id /\ q = fd_tab[p][d].pos /\ q + n <= Cap
          /\ exists[s] /\ UNCHANGED exists
          /\ bytes' = [bytes EXCEPT ![s] = Written(bytes[s], size[s], q, v, n)]
          /\ size' = [size EXCEPT ![s] = Greatest(size[s], q + n)]
          /\ fd_tab' = [fd_tab EXCEPT ![p][d].pos = q + n]
    <3>1. PICK d \in Fds, s \in Entries, q \in 0 .. Cap, n \in 0 .. Cap, v \in {"nul", "data"} :
             WritesAt(p, d, s, q, n, v)
      BY <1>0, <1>10, WriteIs
    <3> QED
      BY <3>1 DEF WritesAt
  <2>2. PICK w \in [1 .. n -> {"nul", "data"}] : w = [i \in 1 .. n |-> v]
    OBVIOUS
  <2>3. /\ bytes'[s] = Written(bytes[s], size[s], q, v, n) /\ size'[s] = Greatest(size[s], q + n)
        /\ \A t \in Entries \ {s} : /\ exists'[t] = exists[t] /\ size'[t] = size[t]
                                    /\ bytes'[t] = bytes[t]
    BY <1>1, <2>1 DEF ContentTypeOK
  <2>4. Content(s)' = Streams!Stored(Content(s), q, w)
    BY <1>1, <2>1, <2>2, <2>3, WrittenIsStored
  <2>5. FileOf[s] = Content(s) /\ FileOf[s] # Absent
    BY <1>1, <2>1, ContentIs DEF FileOf
  <2>6. FileOf' = [FileOf EXCEPT ![s] = Streams!Stored(FileOf[s], q, w)]
    BY <2>1, <2>3, <2>4, <2>5, OneFile
  <2>7. Idle' /\ CursorOf' = [CursorOf EXCEPT ![<<p, d>>] = q + n] /\ UNCHANGED HandleOf
    BY <1>6, <2>1
  <2>8. <<p, d>> \in Procs \X Fds /\ HandleOf[<<p, d>>] = s /\ s # 0 /\ CursorOf[<<p, d>>] = q
    BY <1>2, <2>1
  <2>9. [Streams!StreamNext]_(Streams!streams)
    <3>1. PICK h \in Procs \X Fds : h = <<p, d>>
      BY <2>8
    <3>2. /\ HandleOf[h] # 0 /\ FileOf[HandleOf[h]] # Absent /\ CursorOf[h] + n <= Cap
          /\ FileOf' = [FileOf EXCEPT ![HandleOf[h]] =
                          Streams!Stored(FileOf[HandleOf[h]], CursorOf[h], w)]
          /\ CursorOf' = [CursorOf EXCEPT ![h] = CursorOf[h] + n]
          /\ UNCHANGED HandleOf
      BY <2>1, <2>5, <2>6, <2>7, <2>8, <3>1
    <3> QED
      BY <3>2, AbstractSteps
  <2> QED
    BY <2>7, <2>9
<1> QED
  BY <1>4, <1>5, <1>7, <1>8, <1>9, <1>10 DEF SysCall

\* So is every step of a main thread that only creates, deletes and copies.
LEMMA ShellIsStreams ==
    ASSUME ContentTyped, pc = "idle", session.ops \subseteq ShellOnly,
           \/ \E k \in {"file", "dir"} : Create(k)
           \/ Delete \/ Copy \/ Link \/ Overwrite \/ EchoAppend
           \/ StoreByte \/ StoreNul \/ StoreSize
    PROVE  [Streams!StreamNext]_(Streams!streams) /\ UNCHANGED pc
<1>1. ContentTypeOK
  BY DEF ContentTyped
<1>2. (\E k \in {"file", "dir"} : Create(k)) \/ Delete \/ Copy
  BY DEF ShellOnly, Link, Overwrite, EchoAppend, StoreByte, StoreNul, StoreSize
<1>3. UNCHANGED <<HandleOf, CursorOf, pc>>
  BY <1>2 DEF Create, Delete, Copy, store, HandleOf, CursorOf
<1>4. CASE \E k \in {"file", "dir"} : Create(k)
  <2>1. PICK s \in Entries, k \in {"file", "dir"} : IsNextFree(s) /\ Blank(s, k)
    BY <1>4 DEF Create
  <2>2. FileOf[s] = Absent /\ FileOf' = [FileOf EXCEPT ![s] = <<>>] /\ <<>> # Absent
    BY <1>1, <2>1, BlankIsEmpty
  <2> QED
    BY <1>3, <2>2, AbstractSteps
<1>5. CASE Delete
  <2>1. PICK s \in Entries : exists' = [exists EXCEPT ![s] = FALSE]
    BY <1>5 DEF Delete
  <2>2. ~exists'[s] /\ \A t \in Entries \ {s} : exists'[t] = exists[t]
    BY <1>1, <2>1 DEF ContentTypeOK
  <2>3. UNCHANGED <<size, bytes>>
    BY <1>5 DEF Delete
  <2>4. FileOf' = [FileOf EXCEPT ![s] = Absent]
    BY <2>2, <2>3, OneFile
  <2> QED
    BY <1>3, <2>4, AbstractSteps
<1>6. CASE Copy
  <2>1. PICK s \in Entries, new \in Entries :
          /\ exists[s] /\ ~exists[new] /\ exists' = [exists EXCEPT ![new] = TRUE]
          /\ size' = [size EXCEPT ![new] = size[s]] /\ bytes' = [bytes EXCEPT ![new] = bytes[s]]
    BY <1>6 DEF Copy, IsNextFree
  <2>2. /\ exists'[new] /\ size'[new] = size[s] /\ bytes'[new] = bytes[s]
        /\ \A t \in Entries \ {new} : /\ exists'[t] = exists[t] /\ size'[t] = size[t]
                                      /\ bytes'[t] = bytes[t]
    BY <1>1, <2>1 DEF ContentTypeOK
  <2>3. Content(new)' = Content(s)
    BY <2>2 DEF Content
  <2>4. FileOf[s] = Content(s) /\ FileOf[s] # Absent /\ FileOf[new] = Absent
    BY <1>1, <2>1, ContentIs DEF FileOf
  <2>5. FileOf' = [FileOf EXCEPT ![new] = FileOf[s]]
    BY <2>2, <2>3, <2>4, OneFile
  <2>6. PICK c \in {<<>>} \union {FileOf[g] : g \in Entries} : c = FileOf[s]
    OBVIOUS
  <2> QED
    BY <1>3, <2>4, <2>5, <2>6, AbstractSteps
<1> QED
  BY <1>2, <1>3, <1>4, <1>5, <1>6

\* Both begin empty.
LEMMA StreamsStart == ContentInit => StreamsInv /\ Streams!StreamInit
<1> SUFFICES ASSUME ContentInit
             PROVE  StreamsInv /\ Streams!StreamInit
  OBVIOUS
<1>1. StreamsInv
  BY ContentStart DEF StreamsInv, ContentInv, ContentInit, Closed
<1>2. /\ FileOf = [s \in Entries |-> Absent]
      /\ HandleOf = [h \in Procs \X Fds |-> 0] /\ CursorOf = [h \in Procs \X Fds |-> 0]
  BY DEF ContentInit, FileOf, HandleOf, CursorOf, Closed
<1> QED
  BY <1>1, <1>2 DEF Streams!StreamInit, FileOf, HandleOf, CursorOf

\* One step: what StreamsInv promises of the handles is kept, and the step is a step of the streams.
LEMMA StreamsStep ==
    ContentInv /\ StreamsInv /\ [ContentNext /\ UNCHANGED session]_contentVars /\ ContentInv'
      => /\ StreamsInv'
         /\ session.ops \subseteq ShellOnly => [Streams!StreamNext]_(Streams!streams)
<1> SUFFICES ASSUME ContentInv, StreamsInv, [ContentNext /\ UNCHANGED session]_contentVars, ContentInv'
             PROVE  /\ StreamsInv'
                    /\ session.ops \subseteq ShellOnly => [Streams!StreamNext]_(Streams!streams)
  OBVIOUS
<1> DEFINE Unused == \A p \in Procs, d \in Fds : ~fd_tab[p][d].used => fd_tab[p][d].vfs_id = 0
<1>1. ContentTyped /\ ContentTyped' /\ Unused /\ (session.ops \subseteq ShellOnly => pc = "idle")
  BY DEF ContentInv, StreamsInv
<1>2. UNCHANGED session
  BY DEF contentVars
<1>3. CASE UNCHANGED contentVars
  <2>1. UNCHANGED <<exists, size, bytes, fd_tab, pc>>
    BY <1>3 DEF contentVars, entries, store
  <2>2. UNCHANGED <<FileOf, HandleOf, CursorOf>>
    BY <2>1, SameFiles DEF HandleOf, CursorOf
  <2>3. [Streams!StreamNext]_(Streams!streams)
    BY <2>2, AbstractSteps
  <2> QED
    BY <1>1, <1>2, <2>1, <2>3 DEF StreamsInv
<1>4. CASE \E p \in session.procs : SysCall(p)
  <2>1. PICK p \in Procs : SysCall(p)
    <3>1. session \in Sessions
      BY <1>1 DEF ContentTyped, ContentTypeOK
    <3> QED
      BY <1>4, <3>1, ContentAssumption
  <2>2. /\ [Streams!StreamNext]_(Streams!streams)
        /\ \A r \in Procs, c \in Fds : ~fd_tab'[r][c].used => fd_tab'[r][c].vfs_id = 0
    BY <1>1, <1>2, <2>1, CallsAreStreams
  <2>3. UNCHANGED pc
    BY <2>1 DEF SysCall, SysOpen, SysCreate, SysRead, SysWriteFile, SysLseek, SysClose, Release, store
  <2> QED
    BY <1>1, <1>2, <2>2, <2>3 DEF StreamsInv
<1>5. CASE \/ \E k \in {"file", "dir"} : Create(k)
           \/ Delete \/ Copy \/ Link \/ Overwrite \/ EchoAppend
           \/ StoreByte \/ StoreNul \/ StoreSize
  <2>1. UNCHANGED fd_tab
    BY <1>5 DEF Create, Delete, Copy, Link, Overwrite, EchoAppend, Begin, StoreByte, StoreNul, StoreSize
  <2>2. Unused'
    BY <1>1, <2>1
  <2>3. CASE session.ops \subseteq ShellOnly
    <3>1. [Streams!StreamNext]_(Streams!streams) /\ UNCHANGED pc
      BY <1>1, <1>5, <2>3, ShellIsStreams
    <3> QED
      BY <1>1, <1>2, <2>2, <3>1 DEF StreamsInv
  <2>4. CASE ~(session.ops \subseteq ShellOnly)
    BY <1>1, <1>2, <2>2, <2>4 DEF StreamsInv
  <2> QED
    BY <2>3, <2>4
<1> QED
  BY <1>3, <1>4, <1>5 DEF ContentNext

\* Seen through the system calls the entries are byte sequences and the descriptors cursors on them:
\* every step of processes that open, create, read, write, seek, close and end, while the main thread
\* creates, deletes and copies files, is one step of ByteStreams or none.
THEOREM FilesAreStreams == ContentSpec => ImplementsStreams
<1>1. StreamsInv /\ (session.ops \subseteq ShellOnly => [Streams!StreamNext]_(Streams!streams))
        => (session.ops \subseteq {"create", "delete", "copy"} => [Streams!StreamNext]_(Streams!streams))
  BY DEF ShellOnly
<1> QED
  BY <1>1, ContentKept, StreamsStart, StreamsStep, PTL DEF ContentSpec, ImplementsStreams
=============================================================================
