------------------------- MODULE PersistenceProofs -------------------------
(***************************************************************************)
(* What fs_save leaves on the disk, for every number of sectors, edits and *)
(* boots, whoever edits and whatever fails.                                *)
(***************************************************************************)
EXTENDS Persistence, TLAPS

-----------------------------------------------------------------------------
(* The inductive invariant *)

\* The main thread is in fs_save exactly when somebody called it, and a
\* machine that is off is in none.
CallInv ==
    /\ pc = "idle" <=> purpose = "none"
    /\ power # "on" => pc = "idle"

Quiet == gaps \intersect {"raced", "failed"} = {}

\* The blocks that fs_save has written so far.
Written == {b \in Blocks : pc = "clear" \/ b < next}

\* Once the header is written, the image on its way to the disk is the one in
\* memory, and what was written of it is on the disk, unless a process edited
\* or a sector failed.
SavingInv ==
    pc \in {"data", "clear"} =>
      /\ ~whole
      /\ hdr = saved.hdr /\ glob = saved.hdr
      /\ Quiet => /\ mem = saved.blocks
                  /\ \A b \in Written : disk[b] = saved.blocks[b]

PersistInv == /\ TypeOK /\ CallInv /\ SavingInv
              /\ SavedIsOnDisk /\ CleanUnlessGap /\ ShutdownKeeps

-----------------------------------------------------------------------------
(* PersistInv is inductive *)

LEMMA InitHolds == Init => PersistInv
<1> SUFFICES ASSUME Init PROVE PersistInv
  OBVIOUS
<1>1. NBlocks \in Nat /\ NBlocks > 0 /\ 0 \in Edits /\ 1 \in Blocks
  BY PersistenceAssumption DEF Edits, Blocks
<1>2. NoImage \in Images
  BY <1>1 DEF NoImage, Images
<1>3. TypeOK
  <2>1. mem \in [Blocks -> Edits] /\ disk \in [Blocks -> Edits]
    BY <1>1 DEF Init
  <2>2. boots \in 0 .. MaxBoots
    BY PersistenceAssumption DEF Init
  <2> QED
    BY <1>1, <1>2, <2>1, <2>2 DEF Init, TypeOK
<1>4. CallInv /\ SavingInv
  BY DEF Init, CallInv, SavingInv
<1>5. SavedIsOnDisk /\ CleanUnlessGap /\ ShutdownKeeps
  BY DEF Init, SavedIsOnDisk, CleanUnlessGap, ShutdownKeeps, Idle
<1> QED
  BY <1>3, <1>4, <1>5 DEF PersistInv

LEMMA TypeKept == TypeOK /\ Next => TypeOK'
<1> SUFFICES ASSUME TypeOK, Next PROVE TypeOK'
  OBVIOUS
<1>1. CASE BootFromDisk
  BY <1>1, PersistenceAssumption DEF TypeOK, Edits, Gaps, BootFromDisk, Loaded
<1>2. CASE BootFromDefaults
  <2>1. mem' \in [Blocks -> Edits] /\ glob' \in Edits
    BY <1>2, PersistenceAssumption DEF BootFromDefaults, Edits
  <2>2. boots' \in 0 .. MaxBoots /\ gaps' \subseteq Gaps
    BY <1>2, PersistenceAssumption DEF BootFromDefaults, TypeOK, Gaps
  <2> QED
    BY <1>2, <2>1, <2>2 DEF TypeOK, BootFromDefaults
<1>3. CASE PowerCut \/ ShutdownClean \/ Reboot
  <2>1. 1 \in Blocks
    BY PersistenceAssumption DEF Blocks
  <2> QED
    BY <1>3, <2>1 DEF TypeOK, PowerCut, ShutdownClean, Reboot, history
<1>4. CASE GuiEdit \/ ProcessEdit \/ ShellEdit \/ ShellGlobal
  <2>1. ASSUME NEW c \in Blocks, Edit(c)
        PROVE  mem' \in [Blocks -> Edits] /\ edits' \in Edits
    BY <2>1, PersistenceAssumption DEF TypeOK, Edit, Edits
  <2>2. CASE GuiEdit
    BY <2>1, <2>2 DEF GuiEdit, MarkDirty, history, TypeOK
  <2>3. CASE ProcessEdit
    BY <2>1, <2>3 DEF ProcessEdit, MarkDirty, TypeOK, Gaps
  <2>4. CASE ShellEdit
    BY <2>1, <2>4 DEF ShellEdit, TypeOK, Gaps
  <2>5. CASE ShellGlobal
    <3>1. edits' \in Edits /\ glob' \in Edits
      BY <2>5, PersistenceAssumption DEF ShellGlobal, TypeOK, Edits
    <3> QED
      BY <2>5, <3>1 DEF ShellGlobal, TypeOK, Gaps
  <2> QED
    BY <1>4, <2>2, <2>3, <2>4, <2>5
<1>5. CASE IdleFlush \/ Sync \/ Shutdown
  BY <1>5 DEF TypeOK, IdleFlush, Sync, Shutdown, Save
<1>6. CASE Format
  BY <1>6 DEF TypeOK, Gaps, Format
<1>7. CASE SaveHeader
  <2>1. 1 \in Blocks
    BY PersistenceAssumption DEF Blocks
  <2>2. saved' \in Images
    BY <1>7 DEF SaveHeader, TypeOK, Images
  <2>3. gaps' \subseteq Gaps
    BY <1>7 DEF SaveHeader, TypeOK, Gaps
  <2> QED
    BY <1>7, <2>1, <2>2, <2>3 DEF SaveHeader, Returned, TypeOK
<1>8. CASE SaveBlock
  <2>1. disk' \in [Blocks -> Edits]
    BY <1>8 DEF SaveBlock, TypeOK
  <2>2. next' \in Blocks
    BY <1>8, PersistenceAssumption DEF SaveBlock, TypeOK, IsLast, Blocks
  <2>3. gaps' \subseteq Gaps
    BY <1>8 DEF SaveBlock, TypeOK, Gaps
  <2> QED
    BY <1>8, <2>1, <2>2, <2>3 DEF SaveBlock, TypeOK
<1>9. CASE SaveDone
  BY <1>9, PersistenceAssumption DEF TypeOK, Blocks, SaveDone, Returned
<1> QED
  BY <1>1, <1>2, <1>3, <1>4, <1>5, <1>6, <1>7, <1>8, <1>9 DEF Next, SaveStep

LEMMA CallKept == PersistInv /\ Next => CallInv'
<1> SUFFICES ASSUME PersistInv, Next PROVE CallInv'
  OBVIOUS
<1>1. CASE BootFromDisk
  BY <1>1 DEF PersistInv, CallInv, BootFromDisk
<1>2. CASE BootFromDefaults
  BY <1>2 DEF CallInv, BootFromDefaults
<1>3. CASE PowerCut \/ ShutdownClean \/ Reboot
  BY <1>3 DEF PersistInv, CallInv, PowerCut, ShutdownClean, Idle, Reboot
<1>4. CASE GuiEdit \/ ProcessEdit \/ ShellEdit \/ ShellGlobal
  BY <1>4
     DEF PersistInv, CallInv, GuiEdit, ProcessEdit, ShellEdit, ShellGlobal
<1>5. CASE IdleFlush \/ Sync \/ Shutdown
  BY <1>5 DEF CallInv, IdleFlush, Idle, Save, Sync, Shutdown
<1>6. CASE Format
  BY <1>6 DEF PersistInv, CallInv, Format
<1>7. CASE SaveHeader
  BY <1>7 DEF PersistInv, CallInv, SaveHeader, Returned
<1>8. CASE SaveBlock
  BY <1>8 DEF PersistInv, CallInv, SaveBlock
<1>9. CASE SaveDone
  BY <1>9 DEF CallInv, SaveDone, Returned
<1> QED
  BY <1>1, <1>2, <1>3, <1>4, <1>5, <1>6, <1>7, <1>8, <1>9 DEF Next, SaveStep

LEMMA SavingKept == PersistInv /\ Next => SavingInv'
<1> SUFFICES ASSUME PersistInv, Next PROVE SavingInv'
  OBVIOUS
<1>1. CASE BootFromDisk
  BY <1>1 DEF PersistInv, CallInv, SavingInv, BootFromDisk
<1>2. CASE BootFromDefaults
  BY <1>2 DEF SavingInv, BootFromDefaults
<1>3. CASE PowerCut \/ ShutdownClean \/ Reboot
  BY <1>3 DEF SavingInv, PowerCut, ShutdownClean, Idle, Reboot
<1>4. CASE GuiEdit \/ ProcessEdit \/ ShellEdit \/ ShellGlobal
  BY <1>4
     DEF PersistInv, SavingInv, Quiet, GuiEdit, Idle, ProcessEdit, ShellEdit,
         ShellGlobal
<1>5. CASE IdleFlush \/ Sync \/ Shutdown
  BY <1>5 DEF SavingInv, IdleFlush, Save, Sync, Shutdown
<1>6. CASE Format
  BY <1>6 DEF SavingInv, Format, Idle
<1>7. CASE SaveHeader
  <2>1. CASE pc' = "data"
    <3>1. Written' = {}
      BY <1>7, <2>1, PersistenceAssumption
         DEF SaveHeader, Returned, Written, Blocks
    <3> QED
      BY <1>7, <2>1, <3>1 DEF SaveHeader, Returned, SavingInv
  <2> QED
    BY <1>7, <2>1 DEF SaveHeader, Returned, SavingInv
<1>8. CASE SaveBlock
  <2>1. next \in Blocks /\ disk \in [Blocks -> Edits]
    BY DEF PersistInv, TypeOK
  <2>2. Written' = Written \union {next}
    BY <1>8, <2>1, PersistenceAssumption
       DEF SaveBlock, IsLast, Written, Blocks
  <2>3. ASSUME Quiet'
        PROVE  Quiet /\ disk' = [disk EXCEPT ![next] = mem[next]]
    BY <1>8, <2>3 DEF SaveBlock, Quiet
  <2>4. ASSUME Quiet', NEW c \in Written'
        PROVE  disk'[c] = saved'.blocks[c]
    BY <1>8, <2>1, <2>2, <2>3, <2>4
       DEF PersistInv, SavingInv, SaveBlock, Written
  <2> QED
    BY <1>8, <2>3, <2>4 DEF PersistInv, SavingInv, SaveBlock
<1>9. CASE SaveDone
  BY <1>9 DEF SavingInv, SaveDone, Returned
<1> QED
  BY <1>1, <1>2, <1>3, <1>4, <1>5, <1>6, <1>7, <1>8, <1>9 DEF Next, SaveStep

\* At the end of an undisturbed save, memory, the disk and the image agree.
LEMMA Complete ==
  ASSUME PersistInv, pc = "clear", Quiet
  PROVE  disk = saved.blocks /\ hdr = saved.hdr /\ OnDisk
<1>1. /\ disk \in [Blocks -> Edits]
      /\ saved.blocks \in [Blocks -> Edits]
  BY DEF PersistInv, TypeOK, Images
<1>2. \A c \in Blocks : disk[c] = saved.blocks[c]
  BY DEF PersistInv, SavingInv, Written
<1>3. disk = saved.blocks
  BY <1>1, <1>2
<1> QED
  BY <1>3 DEF PersistInv, SavingInv, OnDisk

LEMMA SavedKept == PersistInv /\ Next => SavedIsOnDisk'
<1> SUFFICES ASSUME PersistInv, Next PROVE SavedIsOnDisk'
  OBVIOUS
<1>1. CASE BootFromDisk
  BY <1>1 DEF PersistInv, SavedIsOnDisk, BootFromDisk
<1>2. CASE BootFromDefaults
  BY <1>2 DEF PersistInv, SavedIsOnDisk, BootFromDefaults
<1>3. CASE PowerCut \/ ShutdownClean \/ Reboot
  BY <1>3
     DEF PersistInv, SavedIsOnDisk, PowerCut, history, ShutdownClean, Reboot
<1>4. CASE GuiEdit \/ ProcessEdit \/ ShellEdit \/ ShellGlobal
  BY <1>4
     DEF PersistInv, SavedIsOnDisk, GuiEdit, history, ProcessEdit, ShellEdit,
         ShellGlobal
<1>5. CASE IdleFlush \/ Sync \/ Shutdown
  BY <1>5 DEF PersistInv, SavedIsOnDisk, IdleFlush, Save, Sync, Shutdown
<1>6. CASE Format
  BY <1>6 DEF PersistInv, SavedIsOnDisk, Format
<1>7. CASE SaveHeader
  BY <1>7 DEF PersistInv, SavedIsOnDisk, SaveHeader
<1>8. CASE SaveBlock
  BY <1>8 DEF PersistInv, SavingInv, SavedIsOnDisk, SaveBlock
<1>9. CASE SaveDone
  <2>1. ASSUME whole' PROVE disk = saved.blocks /\ hdr = saved.hdr
    <3>1. pc = "clear" /\ Quiet
      BY <1>9, <2>1 DEF SaveDone, Quiet
    <3> QED
      BY <3>1, Complete
  <2> QED
    BY <1>9, <2>1 DEF SaveDone, SavedIsOnDisk
<1> QED
  BY <1>1, <1>2, <1>3, <1>4, <1>5, <1>6, <1>7, <1>8, <1>9 DEF Next, SaveStep

LEMMA CleanKept == PersistInv /\ Next => CleanUnlessGap'
<1> SUFFICES ASSUME PersistInv, Next PROVE CleanUnlessGap'
  OBVIOUS
<1>1. CASE BootFromDisk
  BY <1>1 DEF CleanUnlessGap, BootFromDisk
<1>2. CASE BootFromDefaults
  BY <1>2 DEF CleanUnlessGap, Idle, BootFromDefaults
<1>3. CASE PowerCut \/ ShutdownClean \/ Reboot
  BY <1>3 DEF CleanUnlessGap, Idle, PowerCut, ShutdownClean, Reboot
<1>4. CASE GuiEdit \/ ProcessEdit \/ ShellEdit \/ ShellGlobal
  BY <1>4
     DEF CleanUnlessGap, GuiEdit, MarkDirty, ProcessEdit, ShellEdit,
         ShellGlobal
<1>5. CASE IdleFlush \/ Sync \/ Shutdown
  BY <1>5 DEF CleanUnlessGap, Idle, IdleFlush, Save, Sync, Shutdown
<1>6. CASE Format
  BY <1>6 DEF CleanUnlessGap, Format
<1>7. CASE SaveHeader
  BY <1>7 DEF CleanUnlessGap, Idle, SaveHeader
<1>8. CASE SaveBlock
  BY <1>8 DEF CleanUnlessGap, Idle, SaveBlock
<1>9. CASE SaveDone
  <2>1. ASSUME gaps' = {} PROVE OnDisk'
    <3>1. pc = "clear" /\ Quiet
      BY <1>9, <2>1 DEF SaveDone, Quiet
    <3> QED
      BY <1>9, <3>1, Complete DEF SaveDone, OnDisk
  <2> QED
    BY <1>9, <2>1 DEF CleanUnlessGap
<1> QED
  BY <1>1, <1>2, <1>3, <1>4, <1>5, <1>6, <1>7, <1>8, <1>9 DEF Next, SaveStep

LEMMA ShutdownKept == PersistInv /\ Next => ShutdownKeeps'
<1> SUFFICES ASSUME PersistInv, Next PROVE ShutdownKeeps'
  OBVIOUS
<1>1. CASE BootFromDisk
  BY <1>1 DEF ShutdownKeeps, BootFromDisk
<1>2. CASE BootFromDefaults
  BY <1>2 DEF ShutdownKeeps, BootFromDefaults
<1>3. CASE PowerCut \/ ShutdownClean \/ Reboot
  BY <1>3
     DEF PersistInv, CleanUnlessGap, ShutdownKeeps, OnDisk, PowerCut, history,
         ShutdownClean, NeedsSave, Reboot
<1>4. CASE GuiEdit \/ ProcessEdit \/ ShellEdit \/ ShellGlobal
  BY <1>4
     DEF Idle, ShutdownKeeps, GuiEdit, ProcessEdit, ShellEdit, ShellGlobal
<1>5. CASE IdleFlush \/ Sync \/ Shutdown
  BY <1>5 DEF Idle, ShutdownKeeps, IdleFlush, Save, Sync, Shutdown
<1>6. CASE Format
  BY <1>6 DEF ShutdownKeeps, Format
<1>7. CASE SaveHeader
  BY <1>7 DEF ShutdownKeeps, SaveHeader
<1>8. CASE SaveBlock
  BY <1>8 DEF ShutdownKeeps, SaveBlock
<1>9. CASE SaveDone
  <2>1. ASSUME gaps' = {} PROVE OnDisk'
    <3>1. pc = "clear" /\ Quiet
      BY <1>9, <2>1 DEF SaveDone, Quiet
    <3> QED
      BY <1>9, <3>1, Complete DEF SaveDone, OnDisk
  <2> QED
    BY <1>9, <2>1 DEF ShutdownKeeps
<1> QED
  BY <1>1, <1>2, <1>3, <1>4, <1>5, <1>6, <1>7, <1>8, <1>9 DEF Next, SaveStep

LEMMA Invariance == Spec => []PersistInv
<1>1. PersistInv /\ [Next]_vars => PersistInv'
  <2> SUFFICES ASSUME PersistInv, [Next]_vars PROVE PersistInv'
    OBVIOUS
  <2>1. CASE Next
    <3>1. TypeOK' /\ CallInv' /\ SavingInv'
      BY <2>1, TypeKept, CallKept, SavingKept DEF PersistInv
    <3>2. SavedIsOnDisk' /\ CleanUnlessGap' /\ ShutdownKeeps'
      BY <2>1, SavedKept, CleanKept, ShutdownKept
    <3> QED
      BY <3>1, <3>2 DEF PersistInv
  <2>2. CASE UNCHANGED vars
    BY <2>2
       DEF vars, PersistInv, TypeOK, CallInv, SavingInv, Quiet, Written,
           SavedIsOnDisk, CleanUnlessGap, ShutdownKeeps, Idle, OnDisk
  <2> QED
    BY <2>1, <2>2
<1> QED
  BY InitHolds, <1>1, PTL DEF Spec

-----------------------------------------------------------------------------
(* The theorems *)

\* The variables of the save, the disk and the machine keep their types.
THEOREM TypeCorrect == Spec => []TypeOK
<1>1. PersistInv => TypeOK
  BY DEF PersistInv
<1> QED
  BY <1>1, Invariance, PTL

\* What an undisturbed fs_save wrote stays on the disk, whatever happens
\* until the next one begins.
THEOREM SavedStays == Spec => []SavedIsOnDisk
<1>1. PersistInv => SavedIsOnDisk
  BY DEF PersistInv
<1> QED
  BY <1>1, Invariance, PTL

\* fs_dirty is clear only if memory is on the disk or one of the five gaps is
\* open.
THEOREM CleanMeansOnDisk == Spec => []CleanUnlessGap
<1>1. PersistInv => CleanUnlessGap
  BY DEF PersistInv
<1> QED
  BY <1>1, Invariance, PTL

\* The shutdown command leaves everything on the disk, but for the gaps.
THEOREM ShutdownSaves == Spec => []ShutdownKeeps
<1>1. PersistInv => ShutdownKeeps
  BY DEF PersistInv
<1> QED
  BY <1>1, Invariance, PTL

\* The next boot puts back the image of the last undisturbed fs_save, unless
\* a sector cannot be read.
THEOREM BootRestoresImage == Spec => BootRestores
<1> DEFINE Restored == \/ mem' = saved.blocks /\ glob' = saved.hdr
                       \/ "unread" \in gaps'
           Boot == power # "on" /\ power' = "on" /\ whole /\ hdr # Blank
<1>1. ASSUME PersistInv, Next, Boot PROVE Restored
  <2>1. CASE BootFromDisk
    <3>1. PICK k \in 0 .. NBlocks :
             /\ mem' = Loaded(k)
             /\ gaps' = IF k < NBlocks THEN {"unread"} ELSE {}
      BY <2>1 DEF BootFromDisk
    <3>2. CASE k = NBlocks
      <4>1. disk \in [Blocks -> Edits] /\ disk = saved.blocks
        BY <1>1 DEF PersistInv, TypeOK, SavedIsOnDisk
      <4>2. mem' = [c \in Blocks |-> disk[c]]
        BY <3>1, <3>2, PersistenceAssumption DEF Loaded, Blocks
      <4> QED
        BY <1>1, <2>1, <4>1, <4>2 DEF BootFromDisk, PersistInv, SavedIsOnDisk
    <3>3. CASE k # NBlocks
      BY <3>1, <3>3, PersistenceAssumption
    <3> QED
      BY <3>2, <3>3
  <2>2. CASE BootFromDefaults
    BY <1>1, <2>2 DEF BootFromDefaults, Rejected
  <2>3. CASE ~BootFromDisk /\ ~BootFromDefaults
    BY <1>1, <2>3
       DEF Next, PowerCut, GuiEdit, ProcessEdit, ShellEdit, ShellGlobal,
           IdleFlush, Sync, Shutdown, Save, ShutdownClean, Reboot, Format,
           SaveStep, SaveHeader, SaveBlock, SaveDone
  <2> QED
    BY <2>1, <2>2, <2>3
<1>2. PersistInv /\ [Next]_vars => [Boot => Restored]_vars
  BY <1>1
<1> QED
  BY <1>2, Invariance, PTL DEF Spec, BootRestores
=============================================================================
