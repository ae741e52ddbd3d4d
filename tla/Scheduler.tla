----------------------------- MODULE Scheduler -----------------------------
(***************************************************************************)
(* The preemptive round-robin scheduler of kernel/Scheduler.cpp together   *)
(* with its callers: the shell commands that start processes               *)
(* (kernel/kernel.c), the PIT interrupt, SYS_EXIT and the CPU-fault        *)
(* handlers.                                                               *)
(*                                                                         *)
(* Only interrupt handlers and INT 0x80 run with interrupts masked; the    *)
(* main thread and a kernel thread that falls into thread_exit_stub can be *)
(* preempted between any two of their steps.  A tick that runs in an       *)
(* interrupt handler is therefore one action; a spawn made by the main     *)
(* thread and the tick made by thread_exit_stub are several.               *)
(***************************************************************************)
EXTENDS Integers, FiniteSets

CONSTANTS
    MaxThreads,   \* Scheduler::MAX_THREADS, the main thread's slot 0 included
    VmMaxProc,    \* VM_MAX_PROC, the number of per-process address spaces
    Stacks,       \* the 4 KB blocks the kernel heap has room for
    Boot,         \* the boot stack, on which the main thread runs
    NoStack,      \* a null stack pointer
    Commands      \* the commands the user may type

ASSUME SchedulerAssumption ==
    /\ MaxThreads \in Nat \ {0}
    /\ VmMaxProc \in Nat
    /\ Boot \notin Stacks
    /\ NoStack \notin Stacks \union {Boot}
    /\ Commands \subseteq {"arcade", "ring3", "vmtest", "exec"}

Threads == 0 .. (MaxThreads - 1)
Spaces  == 1 .. VmMaxProc      \* page directories proc_pgdir[]
KernelSpace == 0               \* cr3 == 0: the shared kernel directory

VARIABLES
    \* class Scheduler
    state, m_count, m_current, m_active,
    \* struct Thread: saved stack pointer, address space, kmalloc'ed stacks
    esp, cr3, kstack_alloc, ustack_alloc,
    ring3,        \* the threads built with a Ring-3 iret frame
    \* the machine: the stack the CPU is on, CR3, TSS.esp0
    on, loaded_cr3, tss_esp0,
    frame,        \* what the code suspended (or running) on a stack does next
    \* resources owned by threads
    heap,         \* the blocks of Stacks that kmalloc has handed out
    proc_used,    \* the address spaces marked used
    fds,          \* the threads with open file descriptors (fd_tab)
    \* locals of the command the main thread is executing
    pc, kind, arg, rest, slot, kst, ust

threadVars == <<state, m_count, m_current, m_active, esp, cr3,
                kstack_alloc, ustack_alloc, ring3>>
cpuVars    == <<on, loaded_cr3, tss_esp0, frame>>
poolVars   == <<heap, proc_used, fds>>
mainVars   == <<pc, kind, arg, rest, slot, kst, ust>>
vars == <<threadVars, cpuVars, poolVars, mainVars>>

\* What a stack's code does next: ordinary execution, the tick of an exit,
\* its switch from old to next, or the hlt loop of a dead thread.
Frames == [at : {"code", "tick", "switch", "hlt"}, old : Threads, next : Threads]
Code == [at |-> "code", old |-> 0, next |-> 0]

TypeOK ==
    /\ state \in [Threads -> {"Invalid", "Ready", "Running", "Zombie"}]
    /\ m_count \in 0 .. MaxThreads
    /\ m_current \in Threads
    /\ m_active \in BOOLEAN
    /\ esp \in [Threads -> Stacks \union {Boot, NoStack}]
    /\ cr3 \in [Threads -> Spaces \union {KernelSpace}]
    /\ kstack_alloc \in [Threads -> Stacks \union {NoStack}]
    /\ ustack_alloc \in [Threads -> Stacks \union {NoStack}]
    /\ ring3 \subseteq Threads
    /\ on \in Stacks \union {Boot, NoStack}
    /\ loaded_cr3 \in Spaces \union {KernelSpace}
    /\ tss_esp0 \in Stacks \union {NoStack}
    /\ frame \in [Stacks \union {Boot} -> Frames]
    /\ heap \subseteq Stacks
    /\ proc_used \subseteq Spaces
    /\ fds \subseteq Threads
    /\ pc \in {"idle", "space", "space2", "slot", "kstack", "ustack",
               "publish", "count"}
    /\ kind \in Commands \union {"none"}
    /\ arg \in Spaces \union {KernelSpace}
    /\ rest \in Spaces \union {KernelSpace}
    /\ slot \in Threads
    /\ kst \in Stacks \union {NoStack}
    /\ ust \in Stacks \union {NoStack}

\* BSS is zero: every slot Invalid, nothing allocated, scheduling off.
Init ==
    /\ state = [t \in Threads |-> "Invalid"]
    /\ m_count = 0
    /\ m_current = 0
    /\ m_active = FALSE
    /\ esp = [t \in Threads |-> NoStack]
    /\ cr3 = [t \in Threads |-> KernelSpace]
    /\ kstack_alloc = [t \in Threads |-> NoStack]
    /\ ustack_alloc = [t \in Threads |-> NoStack]
    /\ ring3 = {}
    /\ on = Boot
    /\ loaded_cr3 = KernelSpace
    /\ tss_esp0 = NoStack
    /\ frame = [b \in Stacks \union {Boot} |-> Code]
    /\ heap = {}
    /\ proc_used = {}
    /\ fds = {}
    /\ pc = "idle" /\ kind = "none"
    /\ arg = KernelSpace /\ rest = KernelSpace
    /\ slot = 0 /\ kst = NoStack /\ ust = NoStack

\* Scheduler::activate: the code already running becomes thread 0.
Activate ==
    /\ ~m_active
    /\ state' = [state EXCEPT ![0] = "Running"]
    /\ m_current' = 0
    /\ m_active' = TRUE
    /\ m_count' = IF m_count < 1 THEN 1 ELSE m_count
    /\ UNCHANGED <<esp, cr3, kstack_alloc, ustack_alloc, ring3,
                   cpuVars, poolVars, mainVars>>

-----------------------------------------------------------------------------
(* tick, and the reaper it calls first *)

\* Mutant of Dead: the reaper's loop stops one slot too early.
DeadButLast(st) == {t \in Threads \ {0, m_current, MaxThreads - 1} :
                      st[t] = "Zombie"}
\* The slots reap_zombies wipes when the thread states are st.
Dead(st) == {t \in Threads \ {0, m_current} : st[t] = "Zombie"}

\* The element that a search from the lowest index finds.
IsLowest(x, S) == x \in S /\ \A y \in S : x <= y

\* A field of the threads after the slots D were wiped.
Wipe(D, field, zero) ==
    [t \in Threads |-> IF t \in D THEN zero ELSE field[t]]

\* Mutant of FreedStacks: the user stack is not given back.
FreedKernelStacks(D) == {b \in heap : \E t \in D : b = kstack_alloc[t]}
FreedStacks(D) ==
    {b \in heap : \E t \in D : b \in {kstack_alloc[t], ustack_alloc[t]}}

\* Mutant of OpenAfter: fd_release_all is not called.
OpenAfterNothing(D) == fds
OpenAfter(D) == fds \ D       \* fd_release_all

UsedAfter(D) == proc_used \ {cr3[t] : t \in D}    \* vm_release_cr3

\* The release of the slots D: descriptors, address spaces, stacks, fields.
Reap(D) ==
    /\ fds' = OpenAfter(D)
    /\ proc_used' = UsedAfter(D)
    /\ heap' = heap \ FreedStacks(D)
    /\ cr3' = Wipe(D, cr3, KernelSpace)
    /\ kstack_alloc' = Wipe(D, kstack_alloc, NoStack)
    /\ ustack_alloc' = Wipe(D, ustack_alloc, NoStack)
    /\ ring3' = ring3 \ D

Reaped(st, D) == Wipe(D, st, "Invalid")
EspReaped(D)  == Wipe(D, esp, NoStack)

\* The threads the search loop of tick accepts, and how many steps of
\* (m_current + i) % m_count it takes to reach one of them.
Candidates(st) == {t \in 0 .. (m_count - 1) :
                     t # m_current /\ st[t] \in {"Ready", "Running"}}
\* Mutant of Distance: the search starts at slot 0 every time.
DistanceFromZero(t) == t
Distance(t) == IF t > m_current THEN t - m_current
                                ELSE t - m_current + m_count
IsNext(n, st) == /\ n \in Candidates(st)
                 /\ \A u \in Candidates(st) : Distance(n) <= Distance(u)

\* The state updates of a switch to the thread n.
Dispatched(st, n) ==
    [t \in Threads |-> IF t = n THEN "Running"
                       ELSE IF t = m_current /\ st[t] = "Running" THEN "Ready"
                       ELSE st[t]]

\* tss_set_esp0, skipped for the main thread, which has no stack of its own.
Esp0(n) == IF kstack_alloc[n] # NoStack THEN kstack_alloc[n] ELSE tss_esp0

\* Mutant of WantCr3: CR3 is reloaded for isolated threads only.
WantCr3IfIsolated(n) == IF cr3[n] # KernelSpace THEN cr3[n] ELSE loaded_cr3
WantCr3(n) == cr3[n]

\* Mutant of SavedEsp: the context is saved in the slot that is switched to.
SavedEspInNext(D, n) == [EspReaped(D) EXCEPT ![n] = on]
\* switch_task saves the stack pointer of the thread switched from.
SavedEsp(D, n) == [EspReaped(D) EXCEPT ![m_current] = on]

\* A whole tick with interrupts masked, from thread states st.
Tick(st) ==
    LET D  == Dead(st)
        s2 == Reaped(st, D)
    IN  /\ Reap(D)
        /\ \/ /\ Candidates(s2) = {}
              /\ state' = s2
              /\ esp' = EspReaped(D)
              /\ UNCHANGED <<m_current, on, loaded_cr3, tss_esp0>>
           \/ \E n \in Threads :
              /\ IsNext(n, s2)
              /\ state' = Dispatched(s2, n)
              /\ m_current' = n
              /\ tss_esp0' = Esp0(n)
              /\ loaded_cr3' = WantCr3(n)
              /\ esp' = SavedEsp(D, n)
              /\ on' = esp[n]
        /\ UNCHANGED <<m_count, m_active, frame, mainVars>>

\* irq0_handler: the PIT preempts whatever runs with interrupts enabled.
IrqTick == m_active /\ on # NoStack /\ Tick(state)

-----------------------------------------------------------------------------
(* what a Ring-3 thread does *)

\* The current thread runs its own program on its own stack.
RunsRing3 ==
    /\ m_active
    /\ m_current \in ring3
    /\ state[m_current] = "Running"
    /\ on = kstack_alloc[m_current]
    /\ frame[on].at = "code"

\* SYS_EXIT: exit_current marks the thread and yields, interrupts masked.
SysExit == RunsRing3 /\ Tick([state EXCEPT ![m_current] = "Zombie"])

\* SYS_YIELD.
SysYield == RunsRing3 /\ Tick(state)

\* A CPU fault at CPL 3: kill_current marks the thread, which then halts on
\* its own stack until the PIT switches away.
Fault ==
    /\ RunsRing3
    /\ state' = [state EXCEPT ![m_current] = "Zombie"]
    /\ UNCHANGED <<m_count, m_current, m_active, esp, cr3, kstack_alloc,
                   ustack_alloc, ring3, cpuVars, poolVars, mainVars>>

\* SYS_OPEN or SYS_CREATE: the thread has descriptors from now on.
SysOpen ==
    /\ RunsRing3
    /\ fds' = fds \union {m_current}
    /\ UNCHANGED <<threadVars, cpuVars, heap, proc_used, mainVars>>
-----------------------------------------------------------------------------
(* thread_exit_stub: a kernel thread's entry function has returned.  Its   *)
(* exit_current runs with interrupts enabled.                              *)

ExitMark ==
    /\ m_active
    /\ m_current # 0 /\ m_current \notin ring3
    /\ state[m_current] = "Running"
    /\ on = kstack_alloc[m_current]
    /\ frame[on].at = "code"
    /\ state' = [state EXCEPT ![m_current] = "Zombie"]
    /\ frame' = [frame EXCEPT ![on].at = "tick"]
    /\ UNCHANGED <<m_count, m_current, m_active, esp, cr3, kstack_alloc,
                   ustack_alloc, ring3, on, loaded_cr3, tss_esp0, poolVars,
                   mainVars>>

\* tick up to the assignment of m_current and TSS.esp0 ...
ExitTick ==
    LET D  == Dead(state)
        s2 == Reaped(state, D)
    IN  /\ m_active /\ on # NoStack /\ frame[on].at = "tick"
        /\ Reap(D)
        /\ esp' = EspReaped(D)
        /\ \/ /\ Candidates(s2) = {}
              /\ state' = s2
              /\ frame' = [frame EXCEPT ![on].at = "hlt"]
              /\ UNCHANGED <<m_current, tss_esp0>>
           \/ \E n \in Threads :
              /\ IsNext(n, s2)
              /\ state' = Dispatched(s2, n)
              /\ m_current' = n
              /\ tss_esp0' = Esp0(n)
              /\ frame' = [frame EXCEPT ![on] =
                             [at |-> "switch", old |-> m_current, next |-> n]]
        /\ UNCHANGED <<m_count, m_active, on, loaded_cr3, mainVars>>

\* ... and its end: load CR3, switch_task.
ExitSwitch ==
    /\ m_active /\ on # NoStack /\ frame[on].at = "switch"
    /\ loaded_cr3' = WantCr3(frame[on].next)
    /\ esp' = [esp EXCEPT ![frame[on].old] = on]
    /\ on' = esp[frame[on].next]
    /\ frame' = [frame EXCEPT ![on].at = "hlt"]
    /\ UNCHANGED <<state, m_count, m_current, m_active, cr3, kstack_alloc,
                   ustack_alloc, ring3, tss_esp0, poolVars, mainVars>>

-----------------------------------------------------------------------------
(* the main thread executes a command that spawns *)

RunsMain(label) ==
    /\ m_active /\ m_current = 0 /\ on = Boot
    /\ pc = label

Issue(k) ==
    /\ RunsMain("idle")
    /\ kind' = k
    /\ pc' = IF k \in {"exec", "vmtest"} THEN "space" ELSE "slot"
    /\ UNCHANGED <<threadVars, cpuVars, poolVars, arg, rest, slot, kst, ust>>

\* Mutant of FreeSpaces: the search does not look at proc_used.
AnySpace   == Spaces
FreeSpaces == Spaces \ proc_used

\* vm_create_isolated, vm_exec_elf_args, or the first vm_create_addrspace of
\* vmtest; a full pool yields cr3 0.
TakeSpace ==
    /\ RunsMain("space")
    /\ \/ \E v \in Spaces :
          /\ IsLowest(v, FreeSpaces)
          /\ arg' = v
          /\ proc_used' = proc_used \union {v}
          /\ pc' = IF kind = "vmtest" THEN "space2" ELSE "slot"
          /\ UNCHANGED kind
       \/ /\ FreeSpaces = {}
          /\ pc' = IF kind = "vmtest" THEN "space2" ELSE "idle"
          /\ kind' = IF kind = "vmtest" THEN kind ELSE "none"
          /\ UNCHANGED <<arg, proc_used>>
    /\ UNCHANGED <<threadVars, cpuVars, heap, fds, rest, slot, kst, ust>>

\* The second vm_create_addrspace of vmtest, and its test !a || !b.
TakeSpace2 ==
    /\ RunsMain("space2")
    /\ \E v \in Spaces \union {KernelSpace} :
         /\ IF FreeSpaces = {} THEN v = KernelSpace
                              ELSE IsLowest(v, FreeSpaces)
         /\ proc_used' = proc_used \union ({v} \ {KernelSpace})
         /\ IF v # KernelSpace /\ arg # KernelSpace
            THEN /\ rest' = v
                 /\ pc' = "slot"
                 /\ UNCHANGED <<arg, kind>>
            ELSE /\ pc' = "idle" /\ kind' = "none" /\ arg' = KernelSpace
                 /\ UNCHANGED rest
    /\ UNCHANGED <<threadVars, cpuVars, heap, fds, slot, kst, ust>>

\* A create_*_thread call has returned; the bridges are void, so the command
\* goes on in the same way whether it succeeded or not.
Return ==
    /\ rest' = KernelSpace /\ arg' = rest
    /\ slot' = 0 /\ kst' = NoStack /\ ust' = NoStack
    /\ pc'   = IF rest # KernelSpace THEN "slot" ELSE "idle"
    /\ kind' = IF rest # KernelSpace THEN kind ELSE "none"

\* Mutant of InvalidSlots: a zombie's slot is reused before it is reaped.
UnusedSlots == {t \in Threads \ {0} : state[t] \in {"Invalid", "Zombie"}}
InvalidSlots == {t \in Threads \ {0} : state[t] = "Invalid"}

FindSlot ==
    /\ RunsMain("slot")
    /\ \/ /\ \E t \in Threads : IsLowest(t, InvalidSlots) /\ slot' = t
          /\ pc' = "kstack"
          /\ UNCHANGED <<kind, arg, rest, kst, ust>>
       \/ /\ InvalidSlots = {}
          /\ Return
    /\ UNCHANGED <<threadVars, cpuVars, poolVars>>

\* kmalloc(THREAD_STACK_SIZE): some free block, or null when there is none.
Kmalloc(b) ==
    /\ IF Stacks \ heap = {} THEN b = NoStack ELSE b \in Stacks \ heap
    /\ heap' = heap \union ({b} \ {NoStack})

TwoStacks == kind \in {"ring3", "vmtest"}     \* create_user_thread

AllocKStack ==
    /\ RunsMain("kstack")
    /\ \E b \in Stacks \union {NoStack} :
         /\ Kmalloc(b)
         /\ IF b # NoStack \/ TwoStacks
            THEN /\ kst' = b
                 /\ pc' = IF TwoStacks THEN "ustack" ELSE "publish"
                 /\ UNCHANGED <<kind, arg, rest, slot, ust>>
            ELSE Return
    /\ UNCHANGED <<threadVars, cpuVars, proc_used, fds>>

\* The second kmalloc; when either failed the other block is not given back.
AllocUStack ==
    /\ RunsMain("ustack")
    /\ \E b \in Stacks \union {NoStack} :
         /\ Kmalloc(b)
         /\ IF b # NoStack /\ kst # NoStack
            THEN /\ ust' = b
                 /\ pc' = "publish"
                 /\ UNCHANGED <<kind, arg, rest, slot, kst>>
            ELSE Return
    /\ UNCHANGED <<threadVars, cpuVars, proc_used, fds>>

\* The thread fields, state last.
Publish ==
    /\ RunsMain("publish")
    /\ esp' = [esp EXCEPT ![slot] = kst]
    /\ cr3' = [cr3 EXCEPT ![slot] = arg]
    /\ kstack_alloc' = [kstack_alloc EXCEPT ![slot] = kst]
    /\ ustack_alloc' = [ustack_alloc EXCEPT ![slot] = ust]
    /\ ring3' = IF kind = "arcade" THEN ring3 ELSE ring3 \union {slot}
    /\ state' = [state EXCEPT ![slot] = "Ready"]
    /\ frame' = [frame EXCEPT ![kst] = Code]
    /\ pc' = "count"
    /\ UNCHANGED <<m_count, m_current, m_active, on, loaded_cr3, tss_esp0,
                   poolVars, kind, arg, rest, slot, kst, ust>>

\* The live count extended to the new slot.
Covering == IF m_count <= slot THEN slot + 1 ELSE m_count

Count ==
    /\ RunsMain("count")
    /\ m_count' = Covering
    /\ Return
    /\ UNCHANGED <<state, m_current, m_active, esp, cr3, kstack_alloc,
                   ustack_alloc, ring3, cpuVars, poolVars>>

MainStep == \/ TakeSpace \/ TakeSpace2 \/ FindSlot
            \/ AllocKStack \/ AllocUStack \/ Publish \/ Count

-----------------------------------------------------------------------------
Next == \/ Activate \/ IrqTick
        \/ SysExit \/ SysYield \/ Fault \/ SysOpen
        \/ ExitMark \/ ExitTick \/ ExitSwitch
        \/ \E k \in Commands : Issue(k)
        \/ MainStep

Spec == Init /\ [][Next]_vars

(***************************************************************************)
(* The PIT fires every 10 ms for ever.  A thread is given whole quanta, in *)
(* which it executes millions of instructions: the main thread, scheduled  *)
(* again and again, finishes the call it is in (strong fairness, since the *)
(* PIT may preempt it before every step).  Nothing is assumed of user      *)
(* programs: they may loop for ever.                                       *)
(***************************************************************************)
Fairness == /\ WF_vars(Activate) /\ WF_vars(IrqTick) /\ SF_vars(MainStep)
FairSpec == Spec /\ Fairness

-----------------------------------------------------------------------------
(* Properties *)

\* At most the thread m_current is Running, and the main thread never dies:
\* tick, exit_current and kill_current keep state[] and m_current in step.
OneRunning ==
    /\ \A t \in Threads : state[t] = "Running" => t = m_current
    /\ m_active => /\ state[0] \in {"Ready", "Running"}
                   /\ state[m_current] \in {"Running", "Zombie"}

\* The stack the CPU runs on is never given back: the reaper runs "from
\* another thread's context, never while we are on its own stack"
\* (Scheduler.hpp:127).
RunningStackKept == on \in Stacks => on \in heap

\* The CPU is on the kernel stack of the current thread and that stack is
\* allocated; a thread that waits for the CPU will resume on its own allocated
\* stack: tick saves and loads the stack pointers of the two threads it names,
\* and the reaper is "never ... on its own stack" (Scheduler.hpp:127).
StacksLive ==
    /\ IF m_current = 0 THEN on = Boot
       ELSE on = kstack_alloc[m_current] /\ on \in heap
    /\ \A t \in Threads \ {0, m_current} :
         state[t] # "Invalid" => esp[t] = kstack_alloc[t] /\ esp[t] \in heap

\* Every live thread's address space is marked used and belongs to it alone:
\* vm_release_cr3 is "only ever called for a cr3 that is NOT the one
\* currently loaded" (kernel.c:1087) and never for another process's.
SpacesOwned ==
    /\ \A t \in Threads : cr3[t] # KernelSpace => cr3[t] \in proc_used
    /\ \A t, u \in Threads :
         t # u /\ cr3[t] # KernelSpace => cr3[t] # cr3[u]
    /\ arg # KernelSpace /\ pc # "count" => \A t \in Threads : cr3[t] # arg

\* CR3 holds the current thread's address space, so a space that is loaded
\* has not been given back.
LoadedSpaceLive ==
    m_active => /\ loaded_cr3 = cr3[m_current]
                /\ loaded_cr3 # KernelSpace => loaded_cr3 \in proc_used

\* A slot that can be reused carries nothing over: no descriptors, stacks or
\* address space ("a reused slot never inherits the previous process's open
\* descriptors", Scheduler.cpp:38).
ReusableSlotsClean ==
    \A t \in Threads \ {0} : state[t] = "Invalid" =>
      /\ t \notin fds
      /\ cr3[t] = KernelSpace
      /\ kstack_alloc[t] = NoStack /\ ustack_alloc[t] = NoStack

\* Every allocated stack belongs to a thread or to the spawn in progress.
NoStackLeak ==
    \A b \in heap : \/ b \in {kst, ust}
                    \/ \E t \in Threads : b \in {kstack_alloc[t], ustack_alloc[t]}

\* Every process that ends is reclaimed.
ZombiesReaped ==
    \A t \in Threads : state[t] = "Zombie" ~> state[t] = "Invalid"

\* Round robin starves nobody: every Ready thread gets the CPU.
ReadyRuns == \A t \in Threads : state[t] = "Ready" ~> m_current = t

-----------------------------------------------------------------------------
(* The scheduler implements the process table. *)

Phase == [t \in Threads |-> CASE state[t] = "Invalid" -> "free"
                              [] state[t] = "Zombie"  -> "dead"
                              [] OTHER                -> "alive"]

Table == INSTANCE ProcessTable
           WITH Slots <- Threads, Spaces <- Spaces, Shared <- KernelSpace,
                phase <- Phase, cpu <- m_current, space <- cr3

\* Every behaviour of the scheduler and its callers, interrupted anywhere, is
\* one of the process table's.
ImplementsProcessTable == Table!TableSpec
=============================================================================
