---------------------------- MODULE MCScheduler ----------------------------
\* Finite instances of Scheduler for TLC.
EXTENDS Scheduler, TLC

CONSTANTS b1, b2, b3, b4

ThreeBlocks == {b1, b2, b3}
FourBlocks  == {b1, b2, b3, b4}

\* kmalloc is modelled as returning any free block, so blocks are
\* interchangeable.
StackSymmetry == Permutations(Stacks)

RingCommands == {"ring3", "vmtest", "exec"}
AllCommands  == {"arcade", "ring3", "vmtest", "exec"}
=============================================================================
