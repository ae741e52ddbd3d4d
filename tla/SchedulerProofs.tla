--------------------------- MODULE SchedulerProofs ---------------------------
(***************************************************************************)
(* Proofs that the safety properties of Scheduler hold for every number of *)
(* threads, address spaces and stacks.  TableInv holds whatever the        *)
(* commands are.  StackInv needs that no kernel thread ends ("arcade" is   *)
(* not a command), because the tick of thread_exit_stub can be             *)
(* interrupted.  LeakInv needs a heap that can serve every spawn           *)
(* (EnoughStacks), because a spawn whose second kmalloc fails loses the    *)
(* block of its first.                                                     *)
(***************************************************************************)
EXTENDS Scheduler, TLAPS, FiniteSetTheorems

-----------------------------------------------------------------------------
(* The inductive invariants *)

Live(t) == state[t] # "Invalid"

\* Before activate nothing exists; afterwards thread 0 is always schedulable.
ActiveInv ==
    IF m_active
    THEN /\ state[0] \in {"Ready", "Running"}
         /\ state[m_current] \in {"Running", "Zombie"}
         /\ m_count > m_current
    ELSE /\ \A t \in Threads : state[t] = "Invalid"
         /\ m_current = 0 /\ pc = "idle"

\* A slot is bound to an address space only while its thread exists.
CleanInv ==
    \A t \in Threads :
      /\ t = 0 \/ state[t] = "Invalid" =>
           /\ cr3[t] = KernelSpace
           /\ kstack_alloc[t] = NoStack /\ ustack_alloc[t] = NoStack
           /\ t \notin ring3
      /\ state[t] = "Invalid" => t \notin fds
      /\ t \in ring3 => kstack_alloc[t] # NoStack

\* An address space the command holds is used and has no thread yet.
Held(v) == v # KernelSpace =>
             /\ v \in proc_used
             /\ \A t \in Threads : cr3[t] # v

SpaceInv ==
    /\ \A t \in Threads : cr3[t] # KernelSpace => cr3[t] \in proc_used
    /\ \A t, u \in Threads :
         t # u /\ cr3[t] # KernelSpace => cr3[t] # cr3[u]
    /\ Held(rest)
    /\ pc # "count" =>
         /\ Held(arg)
         /\ rest # KernelSpace => arg # rest

\* The slot and the stacks a spawn has picked are still free for it to use.
SpawnInv ==
    /\ pc \in {"kstack", "ustack", "publish"} =>
         slot # 0 /\ state[slot] = "Invalid"
    /\ pc \in {"idle", "space", "space2", "slot", "kstack"} => kst = NoStack
    /\ pc \in {"idle", "space", "space2", "slot", "kstack", "ustack"} =>
         ust = NoStack
    /\ pc = "publish" => kst \in Stacks
    /\ pc = "idle" <=> kind = "none"

TableInv ==
    /\ TypeOK
    /\ \A t \in Threads : state[t] = "Running" => t = m_current
    /\ ActiveInv /\ CleanInv /\ SpaceInv /\ SpawnInv

-----------------------------------------------------------------------------

\* The kernel stack and the user stack of a thread, and those of a spawn.
StackOf(t) == {kstack_alloc[t], ustack_alloc[t]} \ {NoStack}
SpawnStack == IF pc = "count" THEN {} ELSE {kst, ust} \ {NoStack}

OwnedInv ==
    /\ \A t \in Threads : StackOf(t) \subseteq heap
    /\ \A t, u \in Threads : t # u => StackOf(t) \intersect StackOf(u) = {}
    /\ \A t \in Threads :
         ustack_alloc[t] \in Stacks => ustack_alloc[t] # kstack_alloc[t]
    /\ SpawnStack \subseteq heap
    /\ \A t \in Threads : StackOf(t) \intersect SpawnStack = {}
    /\ pc = "publish" => kst # ust

\* Every live thread but the main one is a Ring-3 thread with a kernel stack,
\* on which it runs or was saved; nothing is in the middle of an exit tick.
CpuInv ==
    /\ \A t \in Threads \ {0} :
         Live(t) => t \in ring3 /\ kstack_alloc[t] \in Stacks
    /\ \A t \in Threads \ {0, m_current} :
         Live(t) => esp[t] = kstack_alloc[t]
    /\ m_current # 0 => esp[0] = Boot
    /\ on = IF m_current = 0 THEN Boot ELSE kstack_alloc[m_current]
    /\ loaded_cr3 = cr3[m_current]
    /\ m_current # 0 => tss_esp0 = kstack_alloc[m_current]
    /\ \A b \in Stacks \union {Boot} : frame[b].at = "code"

StackInv == TableInv /\ OwnedInv /\ CpuInv

-----------------------------------------------------------------------------
(* Preliminaries *)

USE DEF KernelSpace, Wipe, OpenAfter, UsedAfter, FreedStacks, Esp0, WantCr3,
        SavedEsp, Covering

\* The hypotheses under which tick is called: the states st are the current
\* ones, except that the thread on the CPU may just have become a zombie.
Tickable(st) ==
    /\ m_active
    /\ on # NoStack
    /\ st \in [Threads -> {"Invalid", "Ready", "Running", "Zombie"}]
    /\ \A t \in Threads : t # m_current => st[t] = state[t]
    /\ st[m_current] = state[m_current]
         \/ (m_current # 0 /\ st[m_current] = "Zombie")

\* The numbers of threads and of address spaces are small sets of naturals.
LEMMA ZeroThread == 0 \in Threads /\ Threads \subseteq Nat
  BY SchedulerAssumption DEF Threads

\* An update of the next step of one stack.
LEMMA FrameAt ==
  ASSUME NEW b \in Stacks \union {Boot},
         NEW a \in {"code", "tick", "switch", "hlt"},
         frame \in [Stacks \union {Boot} -> Frames]
  PROVE  [frame EXCEPT ![b].at = a] \in [Stacks \union {Boot} -> Frames]
  <1>1. [frame[b] EXCEPT !.at = a] \in Frames
    BY DEF Frames
  <1> QED BY <1>1

\* Nothing is allocated at boot.
LEMMA InitTableInv == Init => TableInv
  <1> SUFFICES ASSUME Init PROVE TableInv
    OBVIOUS
  <1> USE ZeroThread, SchedulerAssumption DEF Init
  <1>1. TypeOK
    <2>1. frame \in [Stacks \union {Boot} -> Frames]
      BY DEF Code, Frames
    <2>2. /\ state \in [Threads -> {"Invalid", "Ready", "Running", "Zombie"}]
          /\ m_count \in 0 .. MaxThreads /\ m_current \in Threads
      OBVIOUS
    <2>3. /\ esp \in [Threads -> Stacks \union {Boot, NoStack}]
          /\ cr3 \in [Threads -> Spaces \union {KernelSpace}]
          /\ kind \in Commands \union {"none"} /\ slot \in Threads
      OBVIOUS
    <2> QED BY <2>1, <2>2, <2>3 DEF TypeOK
  <1>2. \A t \in Threads : state[t] = "Running" => t = m_current
    OBVIOUS
  <1>3. ActiveInv /\ CleanInv /\ SpaceInv /\ SpawnInv
    BY DEF ActiveInv, CleanInv, SpaceInv, Held, SpawnInv
  <1> QED BY <1>1, <1>2, <1>3 DEF TableInv

\* reap_zombies leaves types, cleanliness and ownership of spaces intact.
LEMMA ReapKeeps ==
  ASSUME TableInv, NEW st, Tickable(st), Reap(Dead(st)), UNCHANGED mainVars
  PROVE  /\ fds' \subseteq Threads /\ proc_used' \subseteq Spaces
         /\ heap' \subseteq Stacks /\ ring3' \subseteq Threads
         /\ cr3' \in [Threads -> Spaces \union {KernelSpace}]
         /\ kstack_alloc' \in [Threads -> Stacks \union {NoStack}]
         /\ ustack_alloc' \in [Threads -> Stacks \union {NoStack}]
         /\ SpaceInv'
  <1> USE ZeroThread, SchedulerAssumption
  <1>1. Dead(st) \subseteq Threads
    BY DEF Dead
  <1>2. /\ fds' \subseteq Threads /\ proc_used' \subseteq Spaces
        /\ heap' \subseteq Stacks /\ ring3' \subseteq Threads
    BY DEF Reap, TableInv, TypeOK
  <1>3. /\ cr3' \in [Threads -> Spaces \union {KernelSpace}]
        /\ kstack_alloc' \in [Threads -> Stacks \union {NoStack}]
        /\ ustack_alloc' \in [Threads -> Stacks \union {NoStack}]
    BY DEF Reap, TableInv, TypeOK
  <1>4. \A t \in Threads : cr3'[t] # KernelSpace =>
          t \notin Dead(st) /\ cr3'[t] = cr3[t]
    BY DEF Reap
  <1>5. ASSUME NEW v, v \in proc_used, \A t \in Dead(st) : cr3[t] # v
        PROVE  v \in proc_used'
    BY <1>5 DEF Reap
  <1>6. \A t \in Threads : cr3'[t] # KernelSpace => cr3'[t] \in proc_used'
    BY <1>1, <1>4, <1>5 DEF TableInv, SpaceInv
  <1>7. \A t, u \in Threads :
          t # u /\ cr3'[t] # KernelSpace => cr3'[t] # cr3'[u]
    BY <1>4 DEF TableInv, SpaceInv
  <1>8. ASSUME NEW v, Held(v) PROVE v # KernelSpace =>
                 v \in proc_used' /\ \A t \in Threads : cr3'[t] # v
    BY <1>1, <1>4, <1>5, <1>8 DEF Held
  <1>9. SpaceInv'
    BY <1>6, <1>7, <1>8 DEF SpaceInv, Held, TableInv, mainVars
  <1> QED BY <1>2, <1>3, <1>9

\* The switch that ends a tick keeps every fact about thread states.
LEMMA SwitchKeeps ==
  ASSUME TableInv, NEW st, Tickable(st), NEW s2, s2 = Reaped(st, Dead(st)),
         \/ state' = s2 /\ UNCHANGED m_current
         \/ \E n \in Threads : /\ IsNext(n, s2)
                                /\ state' = Dispatched(s2, n)
                                /\ m_current' = n,
         UNCHANGED <<m_count, m_active>>
  PROVE  /\ state' \in [Threads -> {"Invalid", "Ready", "Running", "Zombie"}]
         /\ m_current' \in Threads
         /\ \A t \in Threads : state'[t] = "Running" => t = m_current'
         /\ state'[0] \in {"Ready", "Running"}
         /\ state'[m_current'] \in {"Running", "Zombie"}
         /\ m_count' > m_current'
         /\ \A t \in Threads : state'[t] = "Invalid" <=>
                                state[t] = "Invalid" \/ t \in Dead(st)
  <1> USE ZeroThread, SchedulerAssumption
  <1>1. /\ s2 \in [Threads -> {"Invalid", "Ready", "Running", "Zombie"}]
        /\ \A t \in Threads : s2[t] = "Running" => t = m_current
        /\ s2[0] \in {"Ready", "Running"}
        /\ s2[m_current] \in {"Running", "Zombie"}
        /\ \A t \in Threads : s2[t] = "Invalid" <=>
                               state[t] = "Invalid" \/ t \in Dead(st)
    BY DEF Reaped, Dead, Tickable, TableInv, TypeOK, ActiveInv
  <1>2. CASE state' = s2 /\ UNCHANGED m_current
    BY <1>1, <1>2 DEF TableInv, TypeOK, ActiveInv, Tickable
  <1>3. ASSUME NEW n \in Threads, IsNext(n, s2),
               state' = Dispatched(s2, n), m_current' = n
        PROVE  /\ state' \in [Threads -> {"Invalid", "Ready", "Running", "Zombie"}]
               /\ m_current' \in Threads
               /\ \A t \in Threads : state'[t] = "Running" => t = m_current'
               /\ state'[0] \in {"Ready", "Running"}
               /\ state'[m_current'] \in {"Running", "Zombie"}
               /\ m_count' > m_current'
               /\ \A t \in Threads : state'[t] = "Invalid" <=>
                               state[t] = "Invalid" \/ t \in Dead(st)
    <2>1. /\ n # m_current /\ n < m_count
          /\ s2[n] \in {"Ready", "Running"}
      BY <1>3 DEF IsNext, Candidates, Threads, TableInv, TypeOK
    <2> QED BY <1>1, <1>3, <2>1 DEF Dispatched
  <1> QED BY <1>2, <1>3

\* A tick with interrupts masked.
LEMMA TickKeepsTable ==
  ASSUME TableInv, NEW st, Tickable(st), Tick(st)
  PROVE  TableInv'
  <1> USE ZeroThread, SchedulerAssumption
  <1> DEFINE D == Dead(st)
             s2 == Reaped(st, D)
  <1>1. Reap(D) /\ UNCHANGED <<m_count, m_active, frame, mainVars>>
    BY DEF Tick
  <1>2. \/ state' = s2 /\ UNCHANGED m_current
        \/ \E n \in Threads : /\ IsNext(n, s2)
                               /\ state' = Dispatched(s2, n)
                               /\ m_current' = n
    BY DEF Tick
  <1>3. /\ fds' \subseteq Threads /\ proc_used' \subseteq Spaces
        /\ heap' \subseteq Stacks /\ ring3' \subseteq Threads
        /\ cr3' \in [Threads -> Spaces \union {KernelSpace}]
        /\ kstack_alloc' \in [Threads -> Stacks \union {NoStack}]
        /\ ustack_alloc' \in [Threads -> Stacks \union {NoStack}]
        /\ SpaceInv'
    BY <1>1, ReapKeeps
  <1>4. /\ state' \in [Threads -> {"Invalid", "Ready", "Running", "Zombie"}]
        /\ m_current' \in Threads
        /\ \A t \in Threads : state'[t] = "Running" => t = m_current'
        /\ state'[0] \in {"Ready", "Running"}
        /\ state'[m_current'] \in {"Running", "Zombie"}
        /\ m_count' > m_current'
        /\ \A t \in Threads : state'[t] = "Invalid" <=>
                               state[t] = "Invalid" \/ t \in D
    BY <1>1, <1>2, SwitchKeeps
  <1>5. /\ esp' \in [Threads -> Stacks \union {Boot, NoStack}]
        /\ on' \in Stacks \union {Boot, NoStack}
        /\ loaded_cr3' \in Spaces \union {KernelSpace}
        /\ tss_esp0' \in Stacks \union {NoStack}
    <2>1. EspReaped(D) \in [Threads -> Stacks \union {Boot, NoStack}]
      BY DEF EspReaped, TableInv, TypeOK
    <2>2. CASE esp' = EspReaped(D) /\ UNCHANGED <<on, loaded_cr3, tss_esp0>>
      BY <2>1, <2>2 DEF TableInv, TypeOK
    <2>3. ASSUME NEW n \in Threads,
                 esp' = [EspReaped(D) EXCEPT ![m_current] = on],
                 on' = esp[n], loaded_cr3' = cr3[n],
                 tss_esp0' = IF kstack_alloc[n] # NoStack
                             THEN kstack_alloc[n] ELSE tss_esp0
          PROVE  /\ esp' \in [Threads -> Stacks \union {Boot, NoStack}]
                 /\ on' \in Stacks \union {Boot, NoStack}
                 /\ loaded_cr3' \in Spaces \union {KernelSpace}
                 /\ tss_esp0' \in Stacks \union {NoStack}
      BY <2>1, <2>3 DEF TableInv, TypeOK
    <2> QED BY <2>2, <2>3 DEF Tick
  <1>6. TypeOK'
    BY <1>1, <1>3, <1>4, <1>5 DEF TypeOK, TableInv, mainVars
  <1>7. ActiveInv'
    BY <1>1, <1>4 DEF ActiveInv, Tickable
  <1>8. CleanInv'
    BY <1>1, <1>4 DEF CleanInv, Reap, Dead, TableInv, TypeOK
  <1>9. SpawnInv'
    BY <1>1, <1>4 DEF SpawnInv, TableInv, mainVars, TypeOK
  <1> QED BY <1>3, <1>4, <1>6, <1>7, <1>8, <1>9 DEF TableInv

\* The tick of thread_exit_stub up to the switch.
LEMMA ExitTickKeepsTable == TableInv /\ ExitTick => TableInv'
  <1> SUFFICES ASSUME TableInv, ExitTick PROVE TableInv'
    OBVIOUS
  <1> USE ZeroThread, SchedulerAssumption
  <1> DEFINE D == Dead(state)
             s2 == Reaped(state, D)
  <1>1. Tickable(state)
    BY DEF Tickable, ExitTick, TableInv, TypeOK
  <1>2. /\ Reap(D) /\ esp' = EspReaped(D)
        /\ UNCHANGED <<m_count, m_active, on, loaded_cr3, mainVars>>
    BY DEF ExitTick
  <1>3. \/ state' = s2 /\ UNCHANGED m_current
        \/ \E n \in Threads : /\ IsNext(n, s2)
                               /\ state' = Dispatched(s2, n)
                               /\ m_current' = n
    BY DEF ExitTick
  <1>4. /\ fds' \subseteq Threads /\ proc_used' \subseteq Spaces
        /\ heap' \subseteq Stacks /\ ring3' \subseteq Threads
        /\ cr3' \in [Threads -> Spaces \union {KernelSpace}]
        /\ kstack_alloc' \in [Threads -> Stacks \union {NoStack}]
        /\ ustack_alloc' \in [Threads -> Stacks \union {NoStack}]
        /\ SpaceInv'
    BY <1>1, <1>2, ReapKeeps
  <1>5. /\ state' \in [Threads -> {"Invalid", "Ready", "Running", "Zombie"}]
        /\ m_current' \in Threads
        /\ \A t \in Threads : state'[t] = "Running" => t = m_current'
        /\ state'[0] \in {"Ready", "Running"}
        /\ state'[m_current'] \in {"Running", "Zombie"}
        /\ m_count' > m_current'
        /\ \A t \in Threads : state'[t] = "Invalid" <=>
                               state[t] = "Invalid" \/ t \in D
    BY <1>1, <1>2, <1>3, SwitchKeeps
  <1>6. /\ esp' \in [Threads -> Stacks \union {Boot, NoStack}]
        /\ tss_esp0' \in Stacks \union {NoStack}
        /\ frame' \in [Stacks \union {Boot} -> Frames]
    <2>1. esp' \in [Threads -> Stacks \union {Boot, NoStack}]
      BY <1>2 DEF EspReaped, TableInv, TypeOK
    <2>2. tss_esp0' \in Stacks \union {NoStack}
      BY DEF ExitTick, TableInv, TypeOK
    <2>3. frame' \in [Stacks \union {Boot} -> Frames]
      <3>1. ASSUME NEW n \in Threads,
                   frame' = [frame EXCEPT ![on] =
                              [at |-> "switch", old |-> m_current, next |-> n]]
            PROVE  frame' \in [Stacks \union {Boot} -> Frames]
        BY <3>1 DEF TableInv, TypeOK, Frames
      <3>2. CASE frame' = [frame EXCEPT ![on].at = "hlt"]
        BY <3>2, FrameAt DEF ExitTick, TableInv, TypeOK
      <3> QED BY <3>1, <3>2 DEF ExitTick
    <2> QED BY <2>1, <2>2, <2>3
  <1>7. TypeOK'
    BY <1>2, <1>4, <1>5, <1>6 DEF TypeOK, TableInv, mainVars
  <1>8. ActiveInv'
    BY <1>1, <1>2, <1>5 DEF ActiveInv, Tickable
  <1>9. CleanInv'
    BY <1>2, <1>5 DEF CleanInv, Reap, Dead, TableInv, TypeOK
  <1>10. SpawnInv'
    BY <1>2, <1>5 DEF SpawnInv, TableInv, mainVars, TypeOK
  <1> QED BY <1>4, <1>5, <1>7, <1>8, <1>9, <1>10 DEF TableInv

\* The other steps of a thread: they change its state or its frame only.
LEMMA ThreadStepsKeepTable ==
  TableInv /\ (Activate \/ Fault \/ SysOpen \/ ExitMark \/ ExitSwitch)
    => TableInv'
  <1> SUFFICES ASSUME TableInv PROVE
        (Activate \/ Fault \/ SysOpen \/ ExitMark \/ ExitSwitch) => TableInv'
    OBVIOUS
  <1> USE ZeroThread, SchedulerAssumption
  <1>1. ASSUME Activate PROVE TableInv'
    <2>1. TypeOK'
      BY <1>1 DEF Activate, TableInv, TypeOK, cpuVars, poolVars, mainVars
    <2>2. ActiveInv' /\ CleanInv'
      BY <1>1 DEF Activate, TableInv, TypeOK, ActiveInv, CleanInv, poolVars
    <2>3. SpaceInv' /\ SpawnInv'
      BY <1>1 DEF Activate, TableInv, TypeOK, ActiveInv, SpaceInv, SpawnInv,
                  Held, poolVars, mainVars
    <2> QED BY <1>1, <2>1, <2>2, <2>3 DEF Activate, TableInv, TypeOK, ActiveInv
  <1>2. ASSUME m_active, m_current # 0, state[m_current] = "Running",
               state' = [state EXCEPT ![m_current] = "Zombie"],
               frame' \in [Stacks \union {Boot} -> Frames],
               UNCHANGED <<m_count, m_current, m_active, esp, cr3,
                           kstack_alloc, ustack_alloc, ring3, on, loaded_cr3,
                           tss_esp0, poolVars, mainVars>>
        PROVE  TableInv'
    <2>1. TypeOK'
      BY <1>2 DEF TableInv, TypeOK, poolVars, mainVars
    <2>2. ActiveInv' /\ CleanInv'
      BY <1>2 DEF TableInv, TypeOK, ActiveInv, CleanInv, poolVars
    <2>3. SpaceInv' /\ SpawnInv'
      BY <1>2 DEF TableInv, TypeOK, SpaceInv, SpawnInv, Held, poolVars, mainVars
    <2> QED BY <1>2, <2>1, <2>2, <2>3 DEF TableInv, TypeOK
  <1>3. ASSUME Fault PROVE TableInv'
    BY <1>2, <1>3 DEF Fault, RunsRing3, TableInv, TypeOK, CleanInv, cpuVars
  <1>4. ASSUME ExitMark PROVE TableInv'
    <2>1. frame' \in [Stacks \union {Boot} -> Frames]
      BY <1>4, FrameAt DEF ExitMark, TableInv, TypeOK
    <2> QED BY <1>2, <1>4, <2>1 DEF ExitMark
  <1>5. ASSUME SysOpen PROVE TableInv'
    <2>1. TypeOK'
      BY <1>5 DEF SysOpen, TableInv, TypeOK, threadVars, cpuVars, mainVars
    <2>2. ActiveInv' /\ CleanInv'
      BY <1>5 DEF SysOpen, RunsRing3, TableInv, TypeOK, ActiveInv, CleanInv,
                  threadVars, mainVars
    <2>3. SpaceInv' /\ SpawnInv'
      BY <1>5 DEF SysOpen, TableInv, SpaceInv, SpawnInv, Held,
                  threadVars, mainVars
    <2> QED BY <1>5, <2>1, <2>2, <2>3 DEF SysOpen, TableInv, threadVars
  <1>6. ASSUME ExitSwitch PROVE TableInv'
    <2>1. frame[on] \in Frames
      BY <1>6 DEF ExitSwitch, TableInv, TypeOK
    <2>2. TypeOK'
      BY <1>6, <2>1, FrameAt DEF ExitSwitch, TableInv, TypeOK, Frames, poolVars, mainVars
    <2>3. ActiveInv' /\ CleanInv'
      BY <1>6 DEF ExitSwitch, TableInv, ActiveInv, CleanInv, poolVars, mainVars
    <2>4. SpaceInv' /\ SpawnInv'
      BY <1>6 DEF ExitSwitch, TableInv, SpaceInv, SpawnInv, Held, poolVars, mainVars
    <2> QED BY <1>6, <2>2, <2>3, <2>4 DEF ExitSwitch, TableInv
  <1> QED BY <1>1, <1>3, <1>4, <1>5, <1>6

\* The conjuncts that are about threads alone, untouched by the main thread's
\* local steps.
LEMMA LocalStepKeepsThreads ==
  ASSUME TableInv, UNCHANGED threadVars, UNCHANGED fds, m_active
  PROVE  /\ \A t \in Threads : state'[t] = "Running" => t = m_current'
         /\ ActiveInv' /\ CleanInv'
  BY DEF TableInv, ActiveInv, CleanInv, threadVars

\* kmalloc hands out a block of the heap or null.
LEMMA KmallocType ==
  ASSUME TableInv, NEW b, Kmalloc(b)
  PROVE  heap' \subseteq Stacks /\ b \in Stacks \union {NoStack}
  BY DEF Kmalloc, TableInv, TypeOK

\* A create_*_thread call that returns drops the space it was given and goes
\* on with the other one the command holds.
LEMMA ReturnKeeps ==
  ASSUME TableInv, Return, pc # "idle", UNCHANGED <<cr3, proc_used>>
  PROVE  /\ SpaceInv' /\ SpawnInv'
         /\ pc' \in {"idle", "slot"} /\ kind' \in Commands \union {"none"}
         /\ arg' \in Spaces \union {KernelSpace}
         /\ rest' \in Spaces \union {KernelSpace}
         /\ slot' \in Threads
         /\ kst' = NoStack /\ ust' = NoStack
  <1> USE ZeroThread, SchedulerAssumption
  <1>1. /\ pc' \in {"idle", "slot"} /\ kind' \in Commands \union {"none"}
        /\ arg' \in Spaces \union {KernelSpace}
        /\ rest' \in Spaces \union {KernelSpace}
        /\ slot' \in Threads
        /\ kst' = NoStack /\ ust' = NoStack
    BY DEF Return, TableInv, TypeOK
  <1>2. SpaceInv'
    BY DEF Return, TableInv, SpaceInv, Held
  <1>3. SpawnInv'
    BY DEF Return, TableInv, SpawnInv, TypeOK
  <1> QED BY <1>1, <1>2, <1>3

\* The steps of a command that spawns.
LEMMA MainKeepsTable ==
  TableInv /\ ((\E k \in Commands : Issue(k)) \/ MainStep) => TableInv'
  <1> SUFFICES ASSUME TableInv PROVE
        ((\E k \in Commands : Issue(k)) \/ MainStep) => TableInv'
    OBVIOUS
  <1> USE ZeroThread, SchedulerAssumption
  <1>1. ASSUME NEW k \in Commands, Issue(k) PROVE TableInv'
    <2>1. TypeOK'
      BY <1>1 DEF Issue, TableInv, TypeOK, threadVars, cpuVars, poolVars
    <2>2. SpaceInv' /\ SpawnInv'
      BY <1>1 DEF Issue, RunsMain, TableInv, SpaceInv, SpawnInv, Held,
                  threadVars, poolVars
    <2>3. /\ \A t \in Threads : state'[t] = "Running" => t = m_current'
          /\ ActiveInv' /\ CleanInv'
      BY <1>1, LocalStepKeepsThreads DEF Issue, RunsMain, poolVars
    <2> QED BY <2>1, <2>2, <2>3 DEF TableInv
  <1>2. ASSUME TakeSpace PROVE TableInv'
    <2>1. TypeOK'
      BY <1>2 DEF TakeSpace, RunsMain, TableInv, TypeOK, threadVars, cpuVars
    <2>2. SpaceInv'
      BY <1>2 DEF TakeSpace, RunsMain, TableInv, TypeOK, SpaceInv, Held,
                  threadVars, IsLowest, FreeSpaces
    <2>3. SpawnInv'
      BY <1>2 DEF TakeSpace, RunsMain, TableInv, TypeOK, SpawnInv, threadVars
    <2>4. /\ \A t \in Threads : state'[t] = "Running" => t = m_current'
          /\ ActiveInv' /\ CleanInv'
      BY <1>2, LocalStepKeepsThreads DEF TakeSpace, RunsMain
    <2> QED BY <2>1, <2>2, <2>3, <2>4 DEF TableInv
  <1>3. ASSUME TakeSpace2 PROVE TableInv'
    <2>1. TypeOK'
      BY <1>3 DEF TakeSpace2, RunsMain, TableInv, TypeOK, threadVars, cpuVars
    <2>2. SpaceInv'
      BY <1>3 DEF TakeSpace2, RunsMain, TableInv, TypeOK, SpaceInv, Held,
                  threadVars, IsLowest, FreeSpaces
    <2>3. SpawnInv'
      BY <1>3 DEF TakeSpace2, RunsMain, TableInv, TypeOK, SpawnInv, threadVars
    <2>4. /\ \A t \in Threads : state'[t] = "Running" => t = m_current'
          /\ ActiveInv' /\ CleanInv'
      BY <1>3, LocalStepKeepsThreads DEF TakeSpace2, RunsMain
    <2> QED BY <2>1, <2>2, <2>3, <2>4 DEF TableInv
  <1>4. ASSUME FindSlot PROVE TableInv'
    <2>1. /\ \A t \in Threads : state'[t] = "Running" => t = m_current'
          /\ ActiveInv' /\ CleanInv'
      BY <1>4, LocalStepKeepsThreads DEF FindSlot, RunsMain, poolVars
    <2>2. CASE Return
      <3>1. TypeOK' /\ SpaceInv' /\ SpawnInv'
        BY <1>4, <2>2, ReturnKeeps DEF FindSlot, RunsMain, TableInv, TypeOK,
                                     threadVars, cpuVars, poolVars
      <3> QED BY <2>1, <3>1 DEF TableInv
    <2>3. ASSUME NEW t \in Threads, IsLowest(t, InvalidSlots), slot' = t,
                 pc' = "kstack", UNCHANGED <<kind, arg, rest, kst, ust>>
          PROVE  TableInv'
      <3>1. t # 0 /\ state[t] = "Invalid"
        BY <2>3 DEF IsLowest, InvalidSlots
      <3>2. TypeOK'
        BY <1>4, <2>3 DEF FindSlot, TableInv, TypeOK, threadVars, cpuVars, poolVars
      <3>3. SpaceInv' /\ SpawnInv'
        BY <1>4, <2>3, <3>1 DEF FindSlot, RunsMain, TableInv, SpaceInv, SpawnInv,
                               Held, threadVars, poolVars
      <3> QED BY <2>1, <3>2, <3>3 DEF TableInv
    <2> QED BY <1>4, <2>2, <2>3 DEF FindSlot
  <1>5. ASSUME NEW b, Kmalloc(b), m_active, pc \in {"kstack", "ustack"},
               UNCHANGED <<threadVars, cpuVars, proc_used, fds>>
        PROVE  /\ Return => TableInv'
               /\ (/\ kst' = b /\ pc' \in {"ustack", "publish"}
                   /\ pc' = "publish" => b # NoStack
                   /\ pc = "kstack"
                   /\ UNCHANGED <<kind, arg, rest, slot, ust>>) => TableInv'
               /\ (/\ ust' = b /\ kst # NoStack /\ pc' = "publish"
                   /\ UNCHANGED <<kind, arg, rest, slot, kst>>) => TableInv'
    <2>1. /\ \A t \in Threads : state'[t] = "Running" => t = m_current'
          /\ ActiveInv' /\ CleanInv'
      BY <1>5, LocalStepKeepsThreads
    <2>2. heap' \subseteq Stacks /\ b \in Stacks \union {NoStack}
      BY <1>5, KmallocType
    <2>3. ASSUME Return PROVE TableInv'
      <3>1. TypeOK' /\ SpaceInv' /\ SpawnInv'
        BY <1>5, <2>2, <2>3, ReturnKeeps DEF TableInv, TypeOK, threadVars, cpuVars
      <3> QED BY <2>1, <3>1 DEF TableInv
    <2>4. ASSUME kst' = b, pc' \in {"ustack", "publish"},
                 pc' = "publish" => b # NoStack, pc = "kstack",
                 UNCHANGED <<kind, arg, rest, slot, ust>>
          PROVE  TableInv'
      <3>1. TypeOK'
        BY <1>5, <2>2, <2>4 DEF TableInv, TypeOK, threadVars, cpuVars
      <3>2. SpaceInv' /\ SpawnInv'
        BY <1>5, <2>2, <2>4 DEF TableInv, SpaceInv, SpawnInv, Held, threadVars
      <3> QED BY <2>1, <3>1, <3>2 DEF TableInv
    <2>5. ASSUME ust' = b, kst # NoStack, pc' = "publish",
                 UNCHANGED <<kind, arg, rest, slot, kst>>
          PROVE  TableInv'
      <3>1. TypeOK'
        BY <1>5, <2>2, <2>5 DEF TableInv, TypeOK, threadVars, cpuVars
      <3>2. SpaceInv' /\ SpawnInv'
        BY <1>5, <2>2, <2>5 DEF TableInv, TypeOK, SpaceInv, SpawnInv, Held, threadVars
      <3> QED BY <2>1, <3>1, <3>2 DEF TableInv
    <2> QED BY <2>3, <2>4, <2>5
  <1>6. ASSUME AllocKStack PROVE TableInv'
    <2>1. PICK b \in Stacks \union {NoStack} :
            /\ Kmalloc(b)
            /\ IF b # NoStack \/ TwoStacks
               THEN /\ kst' = b
                    /\ pc' = IF TwoStacks THEN "ustack" ELSE "publish"
                    /\ UNCHANGED <<kind, arg, rest, slot, ust>>
               ELSE Return
      BY <1>6 DEF AllocKStack
    <2>2. /\ m_active /\ pc = "kstack"
          /\ UNCHANGED <<threadVars, cpuVars, proc_used, fds>>
      BY <1>6 DEF AllocKStack, RunsMain
    <2> QED BY <1>5, <2>1, <2>2
  <1>7. ASSUME AllocUStack PROVE TableInv'
    <2>1. PICK b \in Stacks \union {NoStack} :
            /\ Kmalloc(b)
            /\ IF b # NoStack /\ kst # NoStack
               THEN /\ ust' = b /\ pc' = "publish"
                    /\ UNCHANGED <<kind, arg, rest, slot, kst>>
               ELSE Return
      BY <1>7 DEF AllocUStack
    <2>2. /\ m_active /\ pc = "ustack"
          /\ UNCHANGED <<threadVars, cpuVars, proc_used, fds>>
      BY <1>7 DEF AllocUStack, RunsMain
    <2> QED BY <1>5, <2>1, <2>2
  <1>8. ASSUME Publish PROVE TableInv'
    <2>1. /\ slot \in Threads /\ slot # 0 /\ state[slot] = "Invalid"
          /\ kst \in Stacks /\ pc = "publish" /\ m_active
          /\ m_current = 0 /\ slot # m_current
      BY <1>8 DEF Publish, RunsMain, TableInv, TypeOK, SpawnInv
    <2>2. TypeOK'
      <3>1. frame' \in [Stacks \union {Boot} -> Frames]
        BY <1>8, <2>1 DEF Publish, TableInv, TypeOK, Frames, Code
      <3> QED BY <1>8, <2>1, <3>1 DEF Publish, TableInv, TypeOK, poolVars
    <2>3. /\ \A t \in Threads : state'[t] = "Running" => t = m_current'
          /\ ActiveInv'
      BY <1>8, <2>1 DEF Publish, TableInv, TypeOK, ActiveInv
    <2>4. CleanInv'
      BY <1>8, <2>1 DEF Publish, TableInv, TypeOK, CleanInv, poolVars
    <2>5. SpaceInv'
      BY <1>8, <2>1 DEF Publish, TableInv, TypeOK, SpaceInv, Held, poolVars
    <2>6. SpawnInv'
      BY <1>8, <2>1 DEF Publish, TableInv, TypeOK, SpawnInv
    <2> QED BY <2>2, <2>3, <2>4, <2>5, <2>6 DEF TableInv
  <1>9. ASSUME Count PROVE TableInv'
    <2>1. m_count' \in 0 .. MaxThreads /\ m_count' > m_current'
      BY <1>9 DEF Count, RunsMain, TableInv, TypeOK, ActiveInv, Threads
    <2>2. TypeOK' /\ SpaceInv' /\ SpawnInv'
      BY <1>9, <2>1, ReturnKeeps DEF Count, RunsMain, TableInv, TypeOK, cpuVars,
                                   poolVars
    <2>3. /\ \A t \in Threads : state'[t] = "Running" => t = m_current'
          /\ ActiveInv' /\ CleanInv'
      BY <1>9, <2>1 DEF Count, RunsMain, TableInv, ActiveInv, CleanInv, poolVars
    <2> QED BY <2>2, <2>3 DEF TableInv
  <1> QED BY <1>1, <1>2, <1>3, <1>4, <1>6, <1>7, <1>8, <1>9 DEF MainStep

\* TableInv is inductive.
LEMMA NextKeepsTable == TableInv /\ [Next]_vars => TableInv'
  <1> SUFFICES ASSUME TableInv, [Next]_vars PROVE TableInv'
    OBVIOUS
  <1> USE ZeroThread, SchedulerAssumption
  <1>1. CASE IrqTick \/ SysYield
    <2>1. Tickable(state) /\ Tick(state)
      BY <1>1 DEF IrqTick, SysYield, RunsRing3, Tickable, TableInv, TypeOK, CleanInv
    <2> QED BY <2>1, TickKeepsTable
  <1>2. CASE SysExit
    <2> DEFINE st == [state EXCEPT ![m_current] = "Zombie"]
    <2>1. Tickable(st) /\ Tick(st)
      BY <1>2 DEF SysExit, RunsRing3, Tickable, TableInv, TypeOK, CleanInv
    <2> QED BY <2>1, TickKeepsTable
  <1>3. CASE UNCHANGED vars
    <2>1. TypeOK'
      BY <1>3 DEF vars, threadVars, cpuVars, poolVars, mainVars, TableInv, TypeOK
    <2>2. ActiveInv' /\ CleanInv' /\ SpaceInv' /\ SpawnInv'
      BY <1>3 DEF vars, threadVars, cpuVars, poolVars, mainVars, TableInv,
                  ActiveInv, CleanInv, SpaceInv, SpawnInv, Held
    <2> QED BY <1>3, <2>1, <2>2 DEF TableInv, vars, threadVars
  <1> QED BY <1>1, <1>2, <1>3, ExitTickKeepsTable, ThreadStepsKeepTable,
             MainKeepsTable DEF Next

\* The table invariant holds in every reachable state.
THEOREM TableInvariant == Spec => []TableInv
  <1>1. Init => TableInv
    BY InitTableInv
  <1>2. TableInv /\ [Next]_vars => TableInv'
    BY NextKeepsTable
  <1> QED BY <1>1, <1>2, PTL DEF Spec

\* The types of the scheduler's state, for every workload.
THEOREM TypeCorrect == Spec => []TypeOK
  <1>1. TableInv => TypeOK
    BY DEF TableInv
  <1> QED BY <1>1, TableInvariant, PTL

\* No two threads run at once and the main thread never dies, whatever the
\* PIT interrupts.
THEOREM OneThreadRuns == Spec => []OneRunning
  <1>1. TableInv => OneRunning
    BY DEF TableInv, ActiveInv, OneRunning
  <1> QED BY <1>1, TableInvariant, PTL

\* Address spaces are never shared, and never given back while their thread
\* exists, whatever the commands and the interleaving of spawn and reaper.
THEOREM SpacesAreOwned == Spec => []SpacesOwned
  <1>1. TableInv => SpacesOwned
    BY DEF TableInv, SpaceInv, Held, SpacesOwned
  <1> QED BY <1>1, TableInvariant, PTL

\* A slot that can be reused carries nothing over from its last thread.
THEOREM SlotsAreClean == Spec => []ReusableSlotsClean
  <1>1. TableInv => ReusableSlotsClean
    BY DEF TableInv, CleanInv, ReusableSlotsClean
  <1> QED BY <1>1, TableInvariant, PTL

-----------------------------------------------------------------------------
(* Stacks, when no kernel thread ends *)

LEMMA InitStackInv == Init => StackInv
  <1> SUFFICES ASSUME Init PROVE StackInv
    OBVIOUS
  <1> USE ZeroThread, SchedulerAssumption DEF Init
  <1>1. OwnedInv
    BY DEF OwnedInv, StackOf, SpawnStack
  <1>2. CpuInv
    BY DEF CpuInv, Live, Code
  <1> QED BY <1>1, <1>2, InitTableInv DEF StackInv

\* The reaper frees the stacks of the dead and no others.
LEMMA ReapKeepsStacks ==
  ASSUME StackInv, NEW st, Tickable(st), Reap(Dead(st)), UNCHANGED mainVars
  PROVE  OwnedInv'
  <1> USE ZeroThread, SchedulerAssumption
  <1> DEFINE D == Dead(st)
  <1>1. \A t \in Threads : StackOf(t)' = IF t \in D THEN {} ELSE StackOf(t)
    BY DEF Reap, StackOf
  <1>2. SpawnStack' = SpawnStack
    BY DEF SpawnStack, mainVars
  <1>3. \A b \in heap : (\A t \in D : b \notin StackOf(t)) => b \in heap'
    <2> SUFFICES ASSUME NEW b \in heap, \A t \in D : b \notin StackOf(t)
                 PROVE  b \in heap'
      OBVIOUS
    <2>1. b # NoStack
      BY DEF StackInv, TableInv, TypeOK
    <2> QED BY <2>1 DEF Reap, StackOf
  <1>4. D \subseteq Threads
    BY DEF Dead
  <1>5. \A t \in Threads : StackOf(t)' \subseteq heap'
    BY <1>1, <1>3, <1>4 DEF StackInv, OwnedInv
  <1>6. SpawnStack' \subseteq heap'
    BY <1>2, <1>3, <1>4 DEF StackInv, OwnedInv
  <1>7. \A t \in Threads :
          ustack_alloc'[t] \in Stacks => ustack_alloc'[t] # kstack_alloc'[t]
    BY DEF Reap, StackInv, OwnedInv
  <1>8. /\ \A t, u \in Threads : t # u => StackOf(t)' \intersect StackOf(u)' = {}
        /\ \A t \in Threads : StackOf(t)' \intersect SpawnStack' = {}
    BY <1>1, <1>2 DEF StackInv, OwnedInv
  <1>9. (pc = "publish" => kst # ust)'
    BY DEF StackInv, OwnedInv, mainVars
  <1> QED BY <1>5, <1>6, <1>7, <1>8, <1>9 DEF OwnedInv

\* A tick with interrupts masked leaves the thread it interrupts on its own
\* saved stack and puts the CPU on the next thread's.
LEMMA TickKeepsStacks ==
  ASSUME StackInv, NEW st, Tickable(st), Tick(st)
  PROVE  StackInv'
  <1> USE ZeroThread, SchedulerAssumption
  <1> DEFINE D == Dead(st)
             s2 == Reaped(st, D)
  <1>1. /\ Reap(D) /\ UNCHANGED <<m_count, m_active, frame, mainVars>>
        /\ D \subseteq Threads \ {0, m_current}
    BY DEF Tick, Dead
  <1>2. TableInv' /\ OwnedInv'
    BY <1>1, TickKeepsTable, ReapKeepsStacks DEF StackInv
  <1>3. \A t \in Threads : t \notin D =>
          /\ kstack_alloc'[t] = kstack_alloc[t] /\ cr3'[t] = cr3[t]
          /\ EspReaped(D)[t] = esp[t]
          /\ t \in ring3' <=> t \in ring3
    BY <1>1 DEF Reap, EspReaped
  <1>4. \A t \in Threads : Live(t)' => t \notin D /\ Live(t)
    <2>1. \/ state' = s2 /\ UNCHANGED m_current
          \/ \E n \in Threads : /\ IsNext(n, s2)
                                 /\ state' = Dispatched(s2, n)
                                 /\ m_current' = n
      BY DEF Tick
    <2> QED BY <1>1, <2>1, SwitchKeeps DEF StackInv, Live
  <1>5. CASE /\ UNCHANGED <<m_current, on, loaded_cr3, tss_esp0>>
             /\ esp' = EspReaped(D)
    <2>1. m_current \in Threads /\ m_current \notin D /\ 0 \notin D
      BY <1>1 DEF StackInv, TableInv, TypeOK
    <2>2. CpuInv'
      BY <1>1, <1>3, <1>4, <1>5, <2>1 DEF StackInv, CpuInv
    <2> QED BY <1>2, <2>2 DEF StackInv
  <1>6. ASSUME NEW n \in Threads, IsNext(n, s2), m_current' = n,
               tss_esp0' = IF kstack_alloc[n] # NoStack
                           THEN kstack_alloc[n] ELSE tss_esp0,
               loaded_cr3' = cr3[n],
               esp' = [EspReaped(D) EXCEPT ![m_current] = on],
               on' = esp[n]
        PROVE  StackInv'
    <2>1. m_current \in Threads /\ m_current \notin D /\ 0 \notin D
      BY <1>1 DEF StackInv, TableInv, TypeOK
    <2>2. n # m_current /\ n \notin D /\ Live(n)
      BY <1>6 DEF IsNext, Candidates, Reaped, Tickable, Live
    <2>3. esp' = [t \in Threads |-> IF t = m_current THEN on ELSE EspReaped(D)[t]]
      BY <1>6 DEF EspReaped
    <2>4. on' = IF n = 0 THEN Boot ELSE kstack_alloc'[n]
      BY <1>3, <1>6, <2>1, <2>2 DEF StackInv, CpuInv
    <2>5. \A t \in Threads \ {0, n} : Live(t)' => esp'[t] = kstack_alloc'[t]
      BY <1>3, <1>4, <2>1, <2>3 DEF StackInv, CpuInv
    <2>6. n # 0 => esp'[0] = Boot
      BY <1>3, <2>1, <2>3 DEF StackInv, CpuInv
    <2>7. \A t \in Threads \ {0} :
            Live(t)' => t \in ring3' /\ kstack_alloc'[t] \in Stacks
      BY <1>3, <1>4 DEF StackInv, CpuInv
    <2>8. n # 0 => tss_esp0' = kstack_alloc'[n]
      BY <1>3, <1>6, <2>2 DEF StackInv, CpuInv
    <2>9. CpuInv'
      BY <1>1, <1>3, <1>6, <2>2, <2>4, <2>5, <2>6, <2>7, <2>8
         DEF StackInv, CpuInv
    <2> QED BY <1>2, <2>9 DEF StackInv
  <1> QED BY <1>5, <1>6 DEF Tick

\* The steps that leave all stacks and thread fields alone.
LEMMA StacksUnchanged ==
  ASSUME OwnedInv, CpuInv, UNCHANGED <<threadVars, cpuVars, heap>>,
         SpawnStack' \subseteq SpawnStack,
         (pc = "publish" => kst # ust)'
  PROVE  OwnedInv' /\ CpuInv'
  <1>1. \A t \in Threads : StackOf(t)' = StackOf(t)
    BY DEF StackOf, threadVars
  <1>2. OwnedInv'
    BY <1>1 DEF OwnedInv, threadVars
  <1>3. CpuInv'
    BY DEF CpuInv, Live, threadVars, cpuVars
  <1> QED BY <1>2, <1>3

\* kmalloc gives the command a block that no thread has.
LEMMA KmallocKeepsStacks ==
  ASSUME StackInv, NEW b, Kmalloc(b), UNCHANGED <<threadVars, cpuVars>>,
         SpawnStack' \subseteq SpawnStack \union ({b} \ {NoStack}),
         (pc = "publish" => kst # ust)'
  PROVE  OwnedInv' /\ CpuInv'
  <1> USE SchedulerAssumption
  <1>1. \A t \in Threads : StackOf(t)' = StackOf(t)
    BY DEF StackOf, threadVars
  <1>2. b # NoStack => b \notin heap
    BY DEF Kmalloc
  <1>3. heap' = heap \union ({b} \ {NoStack})
    BY DEF Kmalloc
  <1>4. \A t \in Threads : StackOf(t)' \subseteq heap'
    BY <1>1, <1>3 DEF StackInv, OwnedInv
  <1>5. SpawnStack' \subseteq heap'
    BY <1>3 DEF StackInv, OwnedInv
  <1>6. \A t \in Threads : StackOf(t)' \intersect SpawnStack' = {}
    BY <1>1, <1>2 DEF StackInv, OwnedInv
  <1>7. OwnedInv'
    BY <1>1, <1>4, <1>5, <1>6 DEF StackInv, OwnedInv, threadVars
  <1>8. CpuInv'
    BY DEF StackInv, CpuInv, Live, threadVars, cpuVars
  <1> QED BY <1>7, <1>8

\* The steps of the threads.
LEMMA ThreadStepsKeepStacks ==
  ASSUME "arcade" \notin Commands, StackInv,
         \/ Activate \/ Fault \/ SysOpen
         \/ ExitMark \/ ExitTick \/ ExitSwitch
  PROVE  OwnedInv' /\ CpuInv'
  <1> USE ZeroThread, SchedulerAssumption
  <1>1. on \in Stacks \union {Boot}
    BY DEF StackInv, TableInv, TypeOK, CpuInv, ActiveInv, Live
  <1>2. ASSUME state' = [state EXCEPT ![m_current] = "Zombie"],
               state[m_current] = "Running",
               UNCHANGED <<m_current, esp, cr3, kstack_alloc, ustack_alloc,
                           ring3, cpuVars, poolVars, mainVars>>
        PROVE  OwnedInv' /\ CpuInv'
    <2>1. OwnedInv'
      BY <1>2 DEF StackInv, OwnedInv, StackOf, SpawnStack, poolVars, mainVars
    <2>2. \A t \in Threads : Live(t)' <=> Live(t)
      BY <1>2 DEF StackInv, TableInv, TypeOK, Live
    <2>3. CpuInv'
      BY <1>2, <2>2 DEF StackInv, CpuInv, cpuVars
    <2> QED BY <2>1, <2>3
  <1>3. CASE Activate
    <2>1. /\ m_current = 0 /\ m_current' = 0
          /\ \A t \in Threads : Live(t)' => t = 0
      BY <1>3 DEF Activate, StackInv, TableInv, TypeOK, ActiveInv, Live
    <2>2. OwnedInv'
      BY <1>3 DEF Activate, StackInv, OwnedInv, StackOf, SpawnStack, poolVars, mainVars
    <2>3. CpuInv'
      BY <1>3, <2>1 DEF Activate, StackInv, CpuInv, cpuVars
    <2> QED BY <2>2, <2>3
  <1>4. CASE Fault
    BY <1>2, <1>4 DEF Fault, RunsRing3
  <1>5. CASE SysOpen
    <2>1. UNCHANGED <<threadVars, cpuVars, heap, mainVars>>
      BY <1>5 DEF SysOpen
    <2> QED BY <2>1, StacksUnchanged DEF StackInv, OwnedInv, SpawnStack, mainVars
  <1>6. CASE ExitMark
    BY <1>6 DEF ExitMark, StackInv, TableInv, TypeOK, CpuInv, Live
  <1>7. CASE ExitTick \/ ExitSwitch
    BY <1>1, <1>7 DEF ExitTick, ExitSwitch, StackInv, CpuInv
  <1> QED BY <1>3, <1>4, <1>5, <1>6, <1>7

\* The steps of the command.
LEMMA MainKeepsStacks ==
  ASSUME "arcade" \notin Commands, StackInv,
         (\E k \in Commands : Issue(k)) \/ MainStep
  PROVE  OwnedInv' /\ CpuInv'
  <1> USE ZeroThread, SchedulerAssumption
  <1>1. ASSUME NEW k \in Commands, Issue(k) PROVE OwnedInv' /\ CpuInv'
    BY <1>1, StacksUnchanged DEF Issue, RunsMain, StackInv, TableInv, SpawnInv,
                                 SpawnStack, poolVars
  <1>2. CASE TakeSpace \/ TakeSpace2
    <2>1. /\ UNCHANGED <<threadVars, cpuVars, heap, kst, ust>>
          /\ pc \in {"space", "space2"} /\ pc' # "publish"
      BY <1>2 DEF TakeSpace, TakeSpace2, RunsMain
    <2> QED BY <2>1, StacksUnchanged DEF StackInv, SpawnStack
  <1>3. CASE FindSlot
    <2>1. /\ UNCHANGED <<threadVars, cpuVars, heap>>
          /\ pc' # "publish"
          /\ Return \/ UNCHANGED <<kst, ust>>
      BY <1>3 DEF FindSlot, poolVars, Return
    <2>2. SpawnStack' \subseteq SpawnStack
      BY <1>3, <2>1 DEF FindSlot, RunsMain, Return, SpawnStack
    <2> QED BY <2>1, <2>2, StacksUnchanged DEF StackInv
  <1>4. CASE AllocKStack
    <2>1. PICK b \in Stacks \union {NoStack} :
            /\ Kmalloc(b)
            /\ IF b # NoStack \/ TwoStacks
               THEN /\ kst' = b /\ ust' = ust
                    /\ pc' = IF TwoStacks THEN "ustack" ELSE "publish"
               ELSE Return
      BY <1>4 DEF AllocKStack
    <2>2. pc = "kstack" /\ kst = NoStack /\ ust = NoStack
          /\ UNCHANGED <<threadVars, cpuVars>>
      BY <1>4 DEF AllocKStack, RunsMain, StackInv, TableInv, SpawnInv
    <2>3. SpawnStack' \subseteq SpawnStack \union ({b} \ {NoStack})
      BY <2>1, <2>2 DEF Return, SpawnStack
    <2>4. (pc = "publish" => kst # ust)'
      BY <2>1, <2>2 DEF Return
    <2> QED BY <2>1, <2>2, <2>3, <2>4, KmallocKeepsStacks
  <1>5. CASE AllocUStack
    <2>1. PICK b \in Stacks \union {NoStack} :
            /\ Kmalloc(b)
            /\ IF b # NoStack /\ kst # NoStack
               THEN ust' = b /\ kst' = kst /\ pc' = "publish"
               ELSE Return
      BY <1>5 DEF AllocUStack
    <2>2. pc = "ustack" /\ ust = NoStack /\ UNCHANGED <<threadVars, cpuVars>>
      BY <1>5 DEF AllocUStack, RunsMain, StackInv, TableInv, SpawnInv
    <2>3. SpawnStack' \subseteq SpawnStack \union ({b} \ {NoStack})
      BY <2>1, <2>2 DEF Return, SpawnStack
    <2>4. b # NoStack /\ kst # NoStack => kst # b
      BY <2>1, <2>2 DEF Kmalloc, StackInv, OwnedInv, SpawnStack
    <2>5. (pc = "publish" => kst # ust)'
      BY <2>1, <2>2, <2>4 DEF Return
    <2> QED BY <2>1, <2>2, <2>3, <2>5, KmallocKeepsStacks
  <1>6. CASE Publish
    <2>1. /\ slot \in Threads \ {0} /\ ~Live(slot)
          /\ kst \in Stacks /\ pc = "publish" /\ pc' = "count"
          /\ m_current = 0 /\ m_current' = 0 /\ kind # "arcade"
      BY <1>6 DEF Publish, RunsMain, StackInv, TableInv, TypeOK, SpawnInv, Live
    <2>2. \A t \in Threads :
            StackOf(t)' = IF t = slot THEN SpawnStack ELSE StackOf(t)
      BY <1>6, <2>1 DEF Publish, StackInv, TableInv, TypeOK, StackOf, SpawnStack
    <2>3. SpawnStack' = {} /\ heap' = heap
      BY <1>6, <2>1 DEF Publish, SpawnStack, poolVars
    <2>4. \A t \in Threads :
            ustack_alloc'[t] \in Stacks => ustack_alloc'[t] # kstack_alloc'[t]
      BY <1>6, <2>1 DEF Publish, StackInv, OwnedInv, TableInv, TypeOK
    <2>5. OwnedInv'
      BY <2>1, <2>2, <2>3, <2>4 DEF StackInv, OwnedInv
    <2>6. \A t \in Threads \ {0} :
            Live(t)' => /\ t \in ring3' /\ kstack_alloc'[t] \in Stacks
                        /\ esp'[t] = kstack_alloc'[t]
      BY <1>6, <2>1 DEF Publish, StackInv, CpuInv, TableInv, TypeOK, Live
    <2>7. \A b \in Stacks \union {Boot} : frame'[b].at = "code"
      BY <1>6, <2>1 DEF Publish, StackInv, CpuInv, TableInv, TypeOK, Code
    <2>8. /\ on' = Boot
          /\ loaded_cr3' = cr3'[0]
      BY <1>6, <2>1 DEF Publish, StackInv, CpuInv, TableInv, TypeOK
    <2>9. CpuInv'
      BY <2>1, <2>6, <2>7, <2>8 DEF CpuInv
    <2> QED BY <2>5, <2>9
  <1>7. CASE Count
    <2>1. /\ UNCHANGED <<state, m_current, esp, cr3, kstack_alloc, ustack_alloc,
                          ring3, cpuVars, heap>>
          /\ kst' = NoStack /\ ust' = NoStack /\ pc' # "publish"
      BY <1>7 DEF Count, Return, poolVars
    <2>2. SpawnStack' = {}
      BY <2>1 DEF SpawnStack
    <2>3. OwnedInv'
      BY <2>1, <2>2 DEF StackInv, OwnedInv, StackOf
    <2>4. CpuInv'
      BY <2>1 DEF StackInv, CpuInv, Live, cpuVars
    <2> QED BY <2>3, <2>4
  <1> QED BY <1>1, <1>2, <1>3, <1>4, <1>5, <1>6, <1>7 DEF MainStep

\* StackInv is inductive when no kernel thread ends.
LEMMA NextKeepsStacks ==
  ASSUME "arcade" \notin Commands, StackInv, [Next]_vars
  PROVE  StackInv'
  <1> USE ZeroThread, SchedulerAssumption
  <1>1. TableInv'
    BY NextKeepsTable DEF StackInv
  <1>2. CASE IrqTick \/ SysYield
    <2>1. Tickable(state) /\ Tick(state)
      BY <1>2 DEF IrqTick, SysYield, RunsRing3, Tickable, StackInv, TableInv,
                  TypeOK, CleanInv
    <2> QED BY <2>1, TickKeepsStacks
  <1>3. CASE SysExit
    <2> DEFINE st == [state EXCEPT ![m_current] = "Zombie"]
    <2>1. Tickable(st) /\ Tick(st)
      BY <1>3 DEF SysExit, RunsRing3, Tickable, StackInv, TableInv, TypeOK, CleanInv
    <2> QED BY <2>1, TickKeepsStacks
  <1>4. CASE UNCHANGED vars
    <2>1. OwnedInv' /\ CpuInv'
      BY <1>4, StacksUnchanged DEF vars, poolVars, mainVars, StackInv, OwnedInv,
                                   SpawnStack
    <2> QED BY <1>1, <2>1 DEF StackInv
  <1> QED BY <1>1, <1>2, <1>3, <1>4, ThreadStepsKeepStacks, MainKeepsStacks
          DEF Next, StackInv

\* The stack invariant holds in every reachable state of a system in which no
\* kernel thread ends.
THEOREM StackInvariant == "arcade" \notin Commands => (Spec => []StackInv)
  <1> SUFFICES ASSUME "arcade" \notin Commands PROVE Spec => []StackInv
    OBVIOUS
  <1>1. Init => StackInv
    BY InitStackInv
  <1>2. StackInv /\ [Next]_vars => StackInv'
    BY NextKeepsStacks
  <1> QED BY <1>1, <1>2, PTL DEF Spec

\* Without a kernel thread that ends, the CPU is on the allocated stack of the
\* current thread, and every thread that waits resumes on its own.
THEOREM StacksStayLive ==
  "arcade" \notin Commands => (Spec => []StacksLive)
  <1>1. StackInv => StacksLive
    <2> SUFFICES ASSUME StackInv PROVE StacksLive
      OBVIOUS
    <2>1. IF m_current = 0 THEN on = Boot
          ELSE on = kstack_alloc[m_current] /\ on \in heap
      BY SchedulerAssumption
         DEF StackInv, TableInv, TypeOK, ActiveInv, OwnedInv, CpuInv, StackOf, Live
    <2>2. \A t \in Threads \ {0, m_current} :
            state[t] # "Invalid" => esp[t] = kstack_alloc[t] /\ esp[t] \in heap
      BY SchedulerAssumption DEF StackInv, OwnedInv, CpuInv, StackOf, Live
    <2> QED BY <2>1, <2>2 DEF StacksLive
  <1> QED BY <1>1, StackInvariant, PTL

\* The address space that is loaded is the current thread's, and is not free.
THEOREM LoadedSpaceIsLive ==
  "arcade" \notin Commands => (Spec => []LoadedSpaceLive)
  <1>1. StackInv => LoadedSpaceLive
    BY DEF StackInv, TableInv, TypeOK, SpaceInv, CpuInv, LoadedSpaceLive
  <1> QED BY <1>1, StackInvariant, PTL

-----------------------------------------------------------------------------
(***************************************************************************)
(* The blocks of the heap.  create_user_thread loses the block it got when *)
(* the second kmalloc fails, so that nothing leaks needs a heap with two   *)
(* blocks for each thread that can be created (EnoughStacks): then the     *)
(* threads hold too few for a kmalloc to fail (RoomForSpawn).              *)
(***************************************************************************)

EnoughStacks == IsFiniteSet(Stacks) /\ Cardinality(Stacks) >= 2 * (MaxThreads - 1)

OfThread(b) == \E t \in Threads : b \in {kstack_alloc[t], ustack_alloc[t]}
LeakInv ==
    /\ \A b \in heap : b \in SpawnStack \/ OfThread(b)
    /\ pc = "ustack" => kst \in Stacks

\* As many values as threads, at most.
LEMMA ValuesOfThreads ==
  ASSUME NEW T, IsFiniteSet(T), NEW f
  PROVE  IsFiniteSet({f[t] : t \in T}) /\ Cardinality({f[t] : t \in T}) <= Cardinality(T)
  <1> DEFINE A == {f[t] : t \in T}
             g == [t \in T |-> f[t]]
  <1>1. g \in Surjection(T, A)
    BY DEF Surjection
  <1> QED BY <1>1, FS_Surjection

LEMMA RoomForSpawn ==
  ASSUME EnoughStacks, TableInv, LeakInv, pc \in {"kstack", "ustack"}
  PROVE  Stacks \ heap # {}
  <1> DEFINE T == (Threads \ {0}) \ {slot}
             A == {kstack_alloc[t] : t \in T}
             B == {ustack_alloc[t] : t \in T}
  <1>1. MaxThreads \in Nat \ {0} /\ slot \in Threads \ {0} /\ state[slot] = "Invalid" /\ 0 \in Threads
    BY ZeroThread, SchedulerAssumption DEF TableInv, TypeOK, SpawnInv
  <1>2. IsFiniteSet(T) /\ Cardinality(T) = MaxThreads - 2
    <2>1. IsFiniteSet(Threads) /\ Cardinality(Threads) = MaxThreads
      BY <1>1, FS_Interval DEF Threads
    <2>2. IsFiniteSet(Threads \ {0}) /\ Cardinality(Threads \ {0}) = MaxThreads - 1
      BY <1>1, <2>1, FS_RemoveElement
    <2> DEFINE S == Threads \ {0}
    <2>3. IsFiniteSet(S) /\ Cardinality(S) = MaxThreads - 1 /\ slot \in S /\ T = S \ {slot}
      BY <1>1, <2>2
    <2> HIDE DEF S, T
    <2>4. IsFiniteSet(S \ {slot}) /\ Cardinality(S \ {slot}) = Cardinality(S) - 1
      BY <2>3, FS_RemoveElement
    <2> QED BY <1>1, <2>3, <2>4
  <1>3. /\ IsFiniteSet(A) /\ Cardinality(A) <= MaxThreads - 2 /\ Cardinality(A) \in Nat
        /\ IsFiniteSet(B) /\ Cardinality(B) <= MaxThreads - 2 /\ Cardinality(B) \in Nat
    <2> HIDE DEF T
    <2>1. /\ IsFiniteSet(A) /\ Cardinality(A) <= MaxThreads - 2
          /\ IsFiniteSet(B) /\ Cardinality(B) <= MaxThreads - 2
      BY <1>2, ValuesOfThreads
    <2> HIDE DEF A, B
    <2> QED BY <2>1, FS_CardinalityType
  <1>4. heap \subseteq (A \union B) \union {kst}
    <2> SUFFICES ASSUME NEW b \in heap, b # kst PROVE b \in A \union B
      OBVIOUS
    <2>1. b \in Stacks /\ b # NoStack
      BY SchedulerAssumption DEF TableInv, TypeOK
    <2>2. b \notin SpawnStack
      BY <2>1 DEF SpawnStack, TableInv, SpawnInv
    <2>3. PICK t \in Threads : b \in {kstack_alloc[t], ustack_alloc[t]}
      BY <2>2 DEF LeakInv, OfThread
    <2>4. t # 0 /\ t # slot
      BY <1>1, <2>1, <2>3 DEF TableInv, CleanInv
    <2> QED BY <2>3, <2>4
  <1> HIDE DEF A, B
  <1>5. /\ IsFiniteSet((A \union B) \union {kst})
        /\ Cardinality((A \union B) \union {kst}) <= (MaxThreads - 2) + (MaxThreads - 2) + 1
    <2>1. /\ IsFiniteSet(A \union B) /\ Cardinality(A \union B) <= (MaxThreads - 2) + (MaxThreads - 2)
          /\ Cardinality(A \union B) \in Nat
      <3>1. IsFiniteSet(A \union B) /\ Cardinality(A \union B) = Cardinality(A) + Cardinality(B) - Cardinality(A \cap B)
        BY <1>3, FS_Union
      <3>2. A \cap B \in SUBSET A
        OBVIOUS
      <3>3. IsFiniteSet(A \cap B)
        BY <1>3, <3>2, FS_Subset
      <3>4. Cardinality(A \cap B) \in Nat /\ Cardinality(A \union B) \in Nat
        BY <3>1, <3>3, FS_CardinalityType
      <3> QED BY <1>1, <1>3, <3>1, <3>4
    <2> QED BY <1>1, <2>1, FS_AddElement
  <1>6. Cardinality(heap) <= Cardinality((A \union B) \union {kst}) /\ IsFiniteSet(heap)
    BY <1>4, <1>5, FS_Subset
  <1>7. SUFFICES ASSUME Stacks \subseteq heap PROVE FALSE
    OBVIOUS
  <1>8. Cardinality(Stacks) <= Cardinality(heap)
    BY <1>6, <1>7, FS_Subset
  <1>9. /\ Cardinality(Stacks) \in Nat /\ Cardinality(heap) \in Nat
        /\ Cardinality((A \union B) \union {kst}) \in Nat
    BY <1>5, <1>6, FS_CardinalityType DEF EnoughStacks
  <1> QED BY <1>1, <1>5, <1>6, <1>8, <1>9 DEF EnoughStacks

\* The reaper frees blocks of the dead, and of none else.
LEMMA ReapKeepsAccount ==
  ASSUME TableInv, LeakInv, NEW st, Reap(Dead(st)), UNCHANGED mainVars
  PROVE  LeakInv'
  <1> DEFINE D == Dead(st)
  <1>1. /\ heap' = heap \ FreedStacks(D)
        /\ kstack_alloc' = Wipe(D, kstack_alloc, NoStack) /\ ustack_alloc' = Wipe(D, ustack_alloc, NoStack)
    BY DEF Reap
  <1> SUFFICES ASSUME NEW b \in heap', b \notin SpawnStack PROVE OfThread(b)'
    BY DEF LeakInv, mainVars, SpawnStack
  <1>2. b \in heap /\ \A t \in D : b \notin {kstack_alloc[t], ustack_alloc[t]}
    BY <1>1
  <1>3. PICK t \in Threads : b \in {kstack_alloc[t], ustack_alloc[t]}
    BY <1>2 DEF LeakInv, OfThread
  <1>4. t \notin D
    BY <1>2, <1>3
  <1>5. kstack_alloc'[t] = kstack_alloc[t] /\ ustack_alloc'[t] = ustack_alloc[t]
    BY <1>1, <1>4
  <1> QED BY <1>3, <1>5 DEF OfThread

\* The steps of a command that spawns.
LEMMA MainKeepsAccount ==
  ASSUME EnoughStacks, TableInv, LeakInv, MainStep
  PROVE  LeakInv'
  <1>1. CASE TakeSpace \/ TakeSpace2
    <2>1. UNCHANGED <<heap, kstack_alloc, ustack_alloc, kst, ust>> /\ pc \in {"space", "space2"}
          /\ pc' \in {"space2", "slot", "idle"}
      BY <1>1 DEF TakeSpace, TakeSpace2, RunsMain, threadVars
    <2> QED BY <2>1 DEF LeakInv, SpawnStack, OfThread
  <1>2. CASE FindSlot
    <2>1. UNCHANGED <<heap, kstack_alloc, ustack_alloc>> /\ pc = "slot" /\ pc' \in {"kstack", "slot", "idle"}
      BY <1>2 DEF FindSlot, RunsMain, threadVars, poolVars, Return
    <2>2. SpawnStack = {}
      BY <2>1 DEF TableInv, SpawnInv, SpawnStack
    <2> QED BY <2>1, <2>2 DEF LeakInv, OfThread
  <1>3. CASE AllocKStack
    <2>1. UNCHANGED <<kstack_alloc, ustack_alloc>> /\ pc = "kstack"
      BY <1>3 DEF AllocKStack, RunsMain, threadVars
    <2>2. PICK b \in Stacks \union {NoStack} :
            /\ Kmalloc(b)
            /\ IF b # NoStack \/ TwoStacks
               THEN /\ kst' = b
                    /\ pc' = IF TwoStacks THEN "ustack" ELSE "publish"
                    /\ UNCHANGED <<kind, arg, rest, slot, ust>>
               ELSE Return
      BY <1>3 DEF AllocKStack
    <2>3. b \in Stacks /\ heap' = heap \union {b} /\ b # NoStack
      BY <2>1, <2>2, RoomForSpawn, SchedulerAssumption DEF Kmalloc
    <2>4. kst' = b /\ pc' \in {"ustack", "publish"}
      BY <2>2, <2>3
    <2>5. SpawnStack = {} /\ b \in SpawnStack'
      BY <2>1, <2>3, <2>4 DEF TableInv, SpawnInv, SpawnStack
    <2> QED BY <2>1, <2>3, <2>4, <2>5 DEF LeakInv, OfThread
  <1>4. CASE AllocUStack
    <2>1. UNCHANGED <<kstack_alloc, ustack_alloc>> /\ pc = "ustack"
      BY <1>4 DEF AllocUStack, RunsMain, threadVars
    <2>2. PICK b \in Stacks \union {NoStack} :
            /\ Kmalloc(b)
            /\ IF b # NoStack /\ kst # NoStack
               THEN /\ ust' = b
                    /\ pc' = "publish"
                    /\ UNCHANGED <<kind, arg, rest, slot, kst>>
               ELSE Return
      BY <1>4 DEF AllocUStack
    <2>3. b \in Stacks /\ heap' = heap \union {b} /\ b # NoStack /\ kst # NoStack
      BY <2>1, <2>2, RoomForSpawn, SchedulerAssumption DEF Kmalloc, LeakInv
    <2>4. ust' = b /\ pc' = "publish" /\ UNCHANGED kst
      BY <2>2, <2>3
    <2>5. SpawnStack = {kst} /\ SpawnStack' = {kst, b}
      BY <2>1, <2>3, <2>4 DEF TableInv, SpawnInv, SpawnStack
    <2> QED BY <2>1, <2>3, <2>4, <2>5 DEF LeakInv, OfThread
  <1>5. CASE Publish
    <2>1. /\ pc = "publish" /\ pc' = "count" /\ UNCHANGED heap
          /\ kstack_alloc' = [kstack_alloc EXCEPT ![slot] = kst]
          /\ ustack_alloc' = [ustack_alloc EXCEPT ![slot] = ust]
      BY <1>5 DEF Publish, RunsMain, poolVars
    <2>2. /\ slot \in Threads /\ kstack_alloc[slot] = NoStack /\ ustack_alloc[slot] = NoStack
          /\ heap \subseteq Stacks
          /\ DOMAIN kstack_alloc = Threads /\ DOMAIN ustack_alloc = Threads
      BY <2>1 DEF TableInv, TypeOK, SpawnInv, CleanInv
    <2>3. ASSUME NEW b \in heap PROVE OfThread(b)'
      <3>1. b # NoStack
        BY <2>2, SchedulerAssumption
      <3>2. CASE b \in SpawnStack
        <4>1. b \in {kst, ust}
          BY <3>2, <2>1 DEF SpawnStack
        <4>2. kstack_alloc'[slot] = kst /\ ustack_alloc'[slot] = ust
          BY <2>1, <2>2
        <4> QED BY <4>1, <4>2, <2>2 DEF OfThread
      <3>3. CASE OfThread(b)
        <4>1. PICK t \in Threads : b \in {kstack_alloc[t], ustack_alloc[t]}
          BY <3>3 DEF OfThread
        <4>2. t # slot
          BY <4>1, <3>1, <2>2
        <4>3. kstack_alloc'[t] = kstack_alloc[t] /\ ustack_alloc'[t] = ustack_alloc[t]
          BY <4>2, <2>1
        <4> QED BY <4>1, <4>3 DEF OfThread
      <3> QED BY <3>2, <3>3 DEF LeakInv
    <2> QED BY <2>1, <2>3 DEF LeakInv
  <1>6. CASE Count
    <2>1. UNCHANGED <<heap, kstack_alloc, ustack_alloc>> /\ pc = "count" /\ pc' \in {"slot", "idle"}
      BY <1>6 DEF Count, RunsMain, poolVars, Return
    <2>2. SpawnStack = {}
      BY <2>1 DEF SpawnStack
    <2> QED BY <2>1, <2>2 DEF LeakInv, OfThread
  <1> QED BY <1>1, <1>2, <1>3, <1>4, <1>5, <1>6 DEF MainStep

LEMMA NextKeepsAccount ==
  ASSUME EnoughStacks, TableInv, LeakInv, [Next]_vars
  PROVE  LeakInv'
  <1>1. CASE UNCHANGED <<heap, kstack_alloc, ustack_alloc, pc, kst, ust>>
    BY <1>1 DEF LeakInv, SpawnStack, OfThread
  <1>2. Activate \/ Fault \/ SysOpen \/ ExitMark \/ ExitSwitch \/ UNCHANGED vars
          => UNCHANGED <<heap, kstack_alloc, ustack_alloc, pc, kst, ust>>
    BY DEF Activate, Fault, SysOpen, ExitMark, ExitSwitch, vars, threadVars, cpuVars, poolVars, mainVars
  <1>3. ASSUME NEW st, Tick(st) PROVE LeakInv'
    <2>1. Reap(Dead(st)) /\ UNCHANGED mainVars
      BY <1>3 DEF Tick
    <2> QED BY <2>1, ReapKeepsAccount
  <1>4. IrqTick \/ SysYield \/ SysExit => LeakInv'
    BY <1>3 DEF IrqTick, SysYield, SysExit
  <1>5. ExitTick => LeakInv'
    <2> SUFFICES ASSUME ExitTick PROVE LeakInv'
      OBVIOUS
    <2>1. Reap(Dead(state)) /\ UNCHANGED mainVars
      BY DEF ExitTick
    <2> QED BY <2>1, ReapKeepsAccount
  <1>6. ASSUME NEW k \in Commands, Issue(k) PROVE LeakInv'
    <2>1. /\ UNCHANGED <<heap, kstack_alloc, ustack_alloc, kst, ust>> /\ pc = "idle" /\ pc' \in {"space", "slot"}
      BY <1>6 DEF Issue, RunsMain, threadVars, poolVars
    <2> QED BY <2>1 DEF LeakInv, SpawnStack, OfThread
  <1> QED BY <1>1, <1>2, <1>4, <1>5, <1>6, MainKeepsAccount DEF Next

\* In a heap with two blocks for each thread that can be created, every block that was handed
\* out belongs to a thread or to the spawn in progress, whatever the commands and whenever the
\* reaper runs: create_thread, create_user_thread, reap_zombies.
THEOREM StacksAccountedFor ==
  ASSUME EnoughStacks PROVE Spec => []NoStackLeak
  <1>1. Init => LeakInv
    BY DEF Init, LeakInv
  <1>2. TableInv /\ LeakInv /\ [Next]_vars => LeakInv'
    BY NextKeepsAccount
  <1>3. TableInv /\ LeakInv => NoStackLeak
    <2> SUFFICES ASSUME TableInv, LeakInv, NEW b \in heap
                 PROVE  b \in {kst, ust} \/ OfThread(b)
      BY DEF NoStackLeak, OfThread
    <2> QED BY DEF LeakInv, SpawnStack
  <1> QED BY <1>1, <1>2, <1>3, TableInvariant, PTL DEF Spec

-----------------------------------------------------------------------------
(* The scheduler implements the process table *)

\* A step that changes no thread state, nor the CPU's owner, nor a space, is a
\* stuttering step of the process table.
LEMMA TableStutters ==
  ASSUME UNCHANGED <<state, m_current, cr3>>
  PROVE  UNCHANGED <<Phase, m_current, cr3>>
  BY DEF Phase

\* A tick, from the states st, is a step of the process table's scheduler.
LEMMA TickSchedules ==
  ASSUME TableInv, NEW st, Tickable(st), Reap(Dead(st)),
         st[m_current] # state[m_current] => state[m_current] = "Running",
         NEW s2, s2 = Reaped(st, Dead(st)),
         \/ state' = s2 /\ UNCHANGED m_current
         \/ \E n \in Threads : /\ IsNext(n, s2)
                                /\ state' = Dispatched(s2, n)
                                /\ m_current' = n
  PROVE  \E dies \in BOOLEAN : Table!Schedule(dies)
  <1> USE ZeroThread, SchedulerAssumption
  <1> DEFINE dies == st[m_current] # state[m_current]
             gone == {p \in Threads \ {m_current} : Phase[p] = "dead"}
  <1>1. m_current \in Threads
    BY DEF TableInv, TypeOK
  <1>2. \A t \in Threads : /\ state[t] \in {"Invalid", "Ready", "Running", "Zombie"}
                           /\ st[t] \in {"Invalid", "Ready", "Running", "Zombie"}
    BY DEF Tickable, TableInv, TypeOK
  <1>3. Dead(st) = gone
    BY <1>2 DEF Dead, Tickable, Phase, TableInv, ActiveInv
  <1>4. dies => m_current # 0 /\ Phase[m_current] = "alive" /\ st[m_current] = "Zombie"
    BY <1>1 DEF Tickable, Phase
  <1>5. \A t \in Threads : /\ state'[t] = "Invalid" <=> s2[t] = "Invalid"
                           /\ state'[t] = "Zombie" <=> s2[t] = "Zombie"
    <2>1. CASE state' = s2
      BY <2>1
    <2>2. ASSUME NEW n \in Threads, IsNext(n, s2), state' = Dispatched(s2, n)
          PROVE  \A t \in Threads :
                   /\ state'[t] = "Invalid" <=> s2[t] = "Invalid"
                   /\ state'[t] = "Zombie" <=> s2[t] = "Zombie"
      <3>1. s2[n] \in {"Ready", "Running"}
        BY <2>2 DEF IsNext, Candidates
      <3> QED BY <2>2, <3>1 DEF Dispatched
    <2> QED BY <2>1, <2>2
  <1>6. Phase' = [p \in Threads |-> IF p \in gone THEN "free"
                    ELSE IF dies /\ p = m_current THEN "dead" ELSE Phase[p]]
    <2> SUFFICES ASSUME NEW p \in Threads
                 PROVE  Phase'[p] = IF p \in gone THEN "free"
                          ELSE IF dies /\ p = m_current THEN "dead" ELSE Phase[p]
      BY DEF Phase
    <2>1. Phase'[p] = CASE s2[p] = "Invalid" -> "free"
                        [] s2[p] = "Zombie"  -> "dead"
                        [] OTHER             -> "alive"
      <3>1. /\ state'[p] = "Invalid" <=> s2[p] = "Invalid"
            /\ state'[p] = "Zombie" <=> s2[p] = "Zombie"
        BY <1>5
      <3>2. Phase'[p] = CASE state'[p] = "Invalid" -> "free"
                          [] state'[p] = "Zombie"  -> "dead"
                          [] OTHER                 -> "alive"
        BY DEF Phase
      <3> QED BY <3>1, <3>2
    <2>2. s2[p] = IF p \in gone THEN "Invalid" ELSE st[p]
      BY <1>3 DEF Reaped
    <2>3. p # m_current => st[p] = state[p]
      BY DEF Tickable
    <2>4. ~dies => st[p] = state[p]
      BY <2>3
    <2> QED BY <1>1, <1>4, <2>1, <2>2, <2>3, <2>4 DEF Phase
  <1>7. cr3' = [p \in Threads |-> IF p \in gone THEN KernelSpace ELSE cr3[p]]
    BY <1>3 DEF Reap
  <1>8. m_current' \in {m_current} \union {p \in Threads : Phase[p] = "alive"}
    <2>1. ASSUME NEW n \in Threads, IsNext(n, s2) PROVE Phase[n] = "alive"
      <3>1. n # m_current /\ s2[n] \in {"Ready", "Running"}
        BY <2>1 DEF IsNext, Candidates
      <3>2. state[n] \in {"Ready", "Running"}
        BY <3>1 DEF Reaped, Tickable
      <3> QED BY <3>2 DEF Phase
    <2> QED BY <2>1
  <1>9. gone = {p \in Threads \ {m_current} : TRUE /\ Phase[p] = "dead"}
    OBVIOUS
  <1>10. dies \in BOOLEAN
    OBVIOUS
  <1>11. Table!Schedule(dies)
    BY <1>4, <1>6, <1>7, <1>8, <1>9 DEF Table!Schedule
  <1> QED BY <1>10, <1>11

\* A thread on the CPU that becomes a zombie dies in the process table; the
\* dead are collected later.
LEMMA MarkDies ==
  ASSUME TableInv, m_current # 0, state[m_current] = "Running",
         state' = [state EXCEPT ![m_current] = "Zombie"],
         UNCHANGED <<m_current, cr3>>
  PROVE  \E dies \in BOOLEAN : Table!Schedule(dies)
  <1> DEFINE gone == {p \in Threads \ {m_current} : FALSE /\ Phase[p] = "dead"}
  <1>1. m_current \in Threads /\ state \in [Threads -> {"Invalid", "Ready", "Running", "Zombie"}]
    BY DEF TableInv, TypeOK
  <1>2. Phase' = [p \in Threads |-> IF p \in gone THEN "free"
                    ELSE IF TRUE /\ p = m_current THEN "dead" ELSE Phase[p]]
    BY <1>1 DEF Phase
  <1>3. cr3' = [p \in Threads |-> IF p \in gone THEN KernelSpace ELSE cr3[p]]
    BY DEF TableInv, TypeOK
  <1>4. Phase[m_current] = "alive"
    BY <1>1 DEF Phase
  <1>5. Table!Schedule(TRUE)
    BY <1>2, <1>3, <1>4 DEF Table!Schedule
  <1> QED BY <1>5

\* Every step of the scheduler is a step of the process table or a stutter.
LEMMA StepRefines ==
  ASSUME TableInv, [Next]_vars
  PROVE  [Table!TableNext]_<<Phase, m_current, cr3>>
  <1> USE ZeroThread, SchedulerAssumption
  <1>1. CASE Activate
    <2>1. \A t \in Threads : state[t] = "Invalid"
      BY <1>1 DEF Activate, TableInv, ActiveInv
    <2>2. Phase' = [Phase EXCEPT ![0] = "alive"]
      BY <1>1, <2>1 DEF Activate, Phase, TableInv, TypeOK
    <2>3. Table!Enter
      BY <1>1, <2>1, <2>2 DEF Activate, Table!Enter, Phase, TableInv, ActiveInv
    <2> QED BY <2>3 DEF Table!TableNext
  <1>2. CASE IrqTick \/ SysYield
    <2>1. Tickable(state) /\ Tick(state)
      BY <1>2 DEF IrqTick, SysYield, RunsRing3, Tickable, TableInv, TypeOK, CleanInv
    <2>2. \E dies \in BOOLEAN : Table!Schedule(dies)
      BY <2>1, TickSchedules DEF Tick
    <2> QED BY <2>2 DEF Table!TableNext
  <1>3. CASE SysExit
    <2> DEFINE st == [state EXCEPT ![m_current] = "Zombie"]
    <2>1. /\ Tickable(st) /\ Tick(st)
          /\ state[m_current] = "Running"
      BY <1>3 DEF SysExit, RunsRing3, Tickable, TableInv, TypeOK, CleanInv
    <2>2. \E dies \in BOOLEAN : Table!Schedule(dies)
      BY <2>1, TickSchedules DEF Tick
    <2> QED BY <2>2 DEF Table!TableNext
  <1>4. CASE Fault \/ ExitMark
    <2>1. /\ m_current # 0 /\ state[m_current] = "Running"
          /\ state' = [state EXCEPT ![m_current] = "Zombie"]
          /\ UNCHANGED <<m_current, cr3>>
      BY <1>4 DEF Fault, ExitMark, RunsRing3, TableInv, TypeOK, CleanInv
    <2> QED BY <2>1, MarkDies DEF Table!TableNext
  <1>5. CASE ExitTick
    <2>1. Tickable(state)
      BY <1>5 DEF ExitTick, Tickable, TableInv, TypeOK
    <2>2. \E dies \in BOOLEAN : Table!Schedule(dies)
      BY <1>5, <2>1, TickSchedules DEF ExitTick
    <2> QED BY <2>2 DEF Table!TableNext
  <1>6. CASE Publish
    <2>1. /\ slot \in Threads /\ slot # 0 /\ state[slot] = "Invalid"
          /\ arg \in Spaces \union {KernelSpace}
          /\ arg # KernelSpace => \A t \in Threads : cr3[t] # arg
      BY <1>6 DEF Publish, RunsMain, TableInv, TypeOK, SpawnInv, SpaceInv, Held
    <2>2. Phase' = [Phase EXCEPT ![slot] = "alive"]
      BY <1>6, <2>1 DEF Publish, Phase, TableInv, TypeOK
    <2>3. Table!Admit(slot, arg)
      BY <1>6, <2>1, <2>2 DEF Publish, Table!Admit, Phase
    <2> QED BY <2>1, <2>3 DEF Table!TableNext
  <1>7. CASE SysOpen \/ ExitSwitch \/ (\E k \in Commands : Issue(k))
             \/ TakeSpace \/ TakeSpace2 \/ FindSlot \/ AllocKStack
             \/ AllocUStack \/ Count \/ UNCHANGED vars
    <2>1. UNCHANGED <<state, m_current, cr3>>
      <3>1. CASE SysOpen \/ ExitSwitch \/ Count \/ UNCHANGED vars
        BY <3>1 DEF SysOpen, ExitSwitch, Count, vars, threadVars
      <3>2. CASE \E k \in Commands : Issue(k)
        BY <3>2 DEF Issue, threadVars
      <3>3. CASE TakeSpace \/ TakeSpace2 \/ FindSlot
        BY <3>3 DEF TakeSpace, TakeSpace2, FindSlot, threadVars
      <3>4. CASE AllocKStack \/ AllocUStack
        BY <3>4 DEF AllocKStack, AllocUStack, threadVars
      <3> QED BY <1>7, <3>1, <3>2, <3>3, <3>4
    <2> QED BY <2>1, TableStutters
  <1> QED BY <1>1, <1>2, <1>3, <1>4, <1>5, <1>6, <1>7 DEF Next, MainStep

\* The scheduler, its callers and the interrupts implement the process table,
\* for every number of slots and spaces and every set of commands.
THEOREM Refinement == Spec => ImplementsProcessTable
  <1>1. Init => Table!TableInit
    BY DEF Init, Phase, Table!TableInit
  <1>2. TableInv /\ [Next]_vars => [Table!TableNext]_<<Phase, m_current, cr3>>
    BY StepRefines
  <1> QED BY <1>1, <1>2, TableInvariant, PTL
          DEF Spec, ImplementsProcessTable, Table!TableSpec, Table!table

=============================================================================
