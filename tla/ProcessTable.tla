---------------------------- MODULE ProcessTable ----------------------------
(***************************************************************************)
(* What the scheduler promises to the rest of the kernel, without stacks,  *)
(* interrupts or commands: a table of process slots, one of which owns the *)
(* CPU.  A process is admitted into a free slot with an address space that *)
(* no other process has; only the process on the CPU dies; the CPU goes    *)
(* from it to a live process; a dead process keeps its slot and its space  *)
(* while it is on the CPU, and loses both together afterwards.             *)
(***************************************************************************)
EXTENDS Integers

CONSTANTS Slots, Spaces, Shared

VARIABLES
    phase,    \* of each slot: "free", "alive" or "dead"
    cpu,      \* the slot whose process is on the CPU
    space     \* the address space of each slot's process, or Shared

table == <<phase, cpu, space>>

TableInit ==
    /\ phase = [p \in Slots |-> "free"]
    /\ cpu = 0
    /\ space = [p \in Slots |-> Shared]

\* The kernel's own thread enters the table.
Enter ==
    /\ phase[0] = "free"
    /\ phase' = [phase EXCEPT ![0] = "alive"]
    /\ UNCHANGED <<cpu, space>>

Admit(p, v) ==
    /\ p # 0 /\ phase[p] = "free"
    /\ v # Shared => \A q \in Slots : space[q] # v
    /\ phase' = [phase EXCEPT ![p] = "alive"]
    /\ space' = [space EXCEPT ![p] = v]
    /\ UNCHANGED cpu

\* The process on the CPU may die; the dead ones that are not on the CPU are
\* collected, or not yet; the CPU stays or goes to a live process.
Schedule(dies) ==
    \E collect \in BOOLEAN :
      LET gone == {p \in Slots \ {cpu} : collect /\ phase[p] = "dead"}
      IN  /\ dies => cpu # 0 /\ phase[cpu] = "alive"
          /\ phase' = [p \in Slots |->
                IF p \in gone THEN "free"
                ELSE IF dies /\ p = cpu THEN "dead" ELSE phase[p]]
          /\ space' = [p \in Slots |-> IF p \in gone THEN Shared ELSE space[p]]
          /\ cpu' \in {cpu} \union {p \in Slots : phase[p] = "alive"}

TableNext == \/ Enter
             \/ \E p \in Slots, v \in Spaces \union {Shared} : Admit(p, v)
             \/ \E dies \in BOOLEAN : Schedule(dies)

TableSpec == TableInit /\ [][TableNext]_table
=============================================================================
