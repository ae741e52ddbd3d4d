------------------------------ MODULE UserHeap ------------------------------
(***************************************************************************)
(* Memory that SYS_MMAP gives to user threads.  A thread in an address     *)
(* space of its own gets pages of that space's user heap (kernel.c,        *)
(* vm_mmap_current), every other request falls through to the kernel heap  *)
(* and is kept in a ledger (Syscall.cpp, sys_mmap).  System calls run with *)
(* interrupts masked: each is one step.                                    *)
(***************************************************************************)
EXTENDS Integers, FiniteSets

CONSTANTS
    Slots,        \* the address-space pool, 1 .. VM_MAX_PROC
    HeapPages,    \* HEAP_PAGES
    Requests,     \* sizes asked for, in pages
    Blocks,       \* addresses the kernel heap may return
    LedgerSize    \* MAX_KHEAP_MMAP

ASSUME UserHeapAssumption ==
    /\ Slots \subseteq Nat /\ IsFiniteSet(Slots)
    /\ HeapPages \in Nat \ {0} /\ Requests \subseteq Nat \ {0}
    /\ IsFiniteSet(Blocks) /\ LedgerSize \in Nat

VARIABLES
    procUsed,     \* proc_used
    heapNext,     \* proc_heapnext
    heapPte,      \* the present entries of proc_heappt
    heapPde,      \* whether proc_pgdir points at proc_heappt
    mine,         \* history: pages handed to the space's process, not unmapped
    mmapped,      \* kernel-heap blocks allocated by sys_mmap and not freed
    ledger        \* s_kheap_mmap

spaces       == <<procUsed, heapNext, heapPte, heapPde, mine>>
kernelBlocks == <<mmapped, ledger>>
userHeapVars == <<spaces, kernelBlocks>>

Pages == 0 .. (HeapPages - 1)

UserHeapInit ==
    /\ procUsed = {}
    /\ heapNext = [s \in Slots |-> 0]
    /\ heapPte = [s \in Slots |-> {}] /\ heapPde = [s \in Slots |-> FALSE]
    /\ mine = [s \in Slots |-> {}]
    /\ mmapped = {} /\ ledger = {}

\* What the process of s can touch of its heap.
Accessible(s) == IF heapPde[s] THEN heapPte[s] ELSE {}

-----------------------------------------------------------------------------
(* the pool *)

\* vm_create_addrspace, vm_create_isolated, vm_exec_elf_args: the first free
\* slot.  The directory is cloned from the kernel's, which maps nothing at the
\* heap's addresses; of the three only the last resets the bump pointer, and
\* none the page table behind it.
CreateSpace(elf) ==
    \E s \in Slots \ procUsed :
      /\ \A t \in Slots \ procUsed : s <= t
      /\ procUsed' = procUsed \union {s}
      /\ heapPde' = [heapPde EXCEPT ![s] = FALSE]
      /\ heapNext' = IF elf THEN [heapNext EXCEPT ![s] = 0] ELSE heapNext
      /\ UNCHANGED <<heapPte, mine, kernelBlocks>>

\* Mutant of NextAfterRelease: the reaper leaves the bump pointer.
NextAfterReleaseKept(s) == heapNext[s]
NextAfterRelease(s) == 0

\* vm_release_cr3, by the reaper of a dead process.
ReleaseSpace(s) ==
    /\ s \in procUsed
    /\ procUsed' = procUsed \ {s}
    /\ heapNext' = [heapNext EXCEPT ![s] = NextAfterRelease(s)]
    /\ mine' = [mine EXCEPT ![s] = {}]
    /\ UNCHANGED <<heapPte, heapPde, kernelBlocks>>

-----------------------------------------------------------------------------
(* SYS_MMAP *)

FitsHeap(s, n) == heapNext[s] + n <= HeapPages

Fresh(s, n) == heapNext[s] .. (heapNext[s] + n - 1)

MmapPages(s, n) ==
    /\ s \in procUsed /\ FitsHeap(s, n)
    /\ heapPte' = [heapPte EXCEPT ![s] = @ \union Fresh(s, n)]
    /\ heapNext' = [heapNext EXCEPT ![s] = @ + n]
    /\ heapPde' = [heapPde EXCEPT ![s] = TRUE]
    /\ mine' = [mine EXCEPT ![s] = @ \union Fresh(s, n)]
    /\ UNCHANGED <<procUsed, kernelBlocks>>

\* The fallback; with the ledger full the block is freed again and 0 returned.
MmapBlock(b) ==
    /\ b \in Blocks \ mmapped
    /\ IF Cardinality(ledger) < LedgerSize
       THEN /\ ledger' = ledger \union {b}
            /\ mmapped' = mmapped \union {b}
       ELSE UNCHANGED kernelBlocks
    /\ UNCHANGED spaces

\* vm_mmap_current returns 0 in the kernel's address space and in a space
\* whose heap is full: either may fall through to the kernel heap.
Mmap(n) ==
    \/ \E s \in Slots : MmapPages(s, n)
    \/ \E b \in Blocks : MmapBlock(b)

-----------------------------------------------------------------------------
(* SYS_MUNMAP *)

\* One page, whatever the size of the request it came from.
MunmapPage(s, p) ==
    /\ s \in procUsed
    /\ heapPte' = [heapPte EXCEPT ![s] = @ \ {p}]
    /\ mine' = [mine EXCEPT ![s] = @ \ {p}]
    /\ UNCHANGED <<procUsed, heapNext, heapPde, kernelBlocks>>

\* Any other address is freed if the ledger has it, whoever was given it.
MunmapBlock(b) ==
    /\ b \in ledger
    /\ ledger' = ledger \ {b}
    /\ mmapped' = mmapped \ {b}
    /\ UNCHANGED spaces

UserHeapNext ==
    \/ \E elf \in BOOLEAN : CreateSpace(elf)
    \/ \E s \in Slots : ReleaseSpace(s) \/ \E p \in Pages : MunmapPage(s, p)
    \/ \E n \in Requests : Mmap(n)
    \/ \E b \in Blocks : MunmapBlock(b)

UserHeapSpec == UserHeapInit /\ [][UserHeapNext]_userHeapVars

-----------------------------------------------------------------------------
(* Properties *)

\* Below the bump pointer a process can touch what it was given and has not
\* unmapped, and nothing more, also in a slot whose page table still holds the
\* entries of an earlier process (those may show above the pointer only); a
\* block of the kernel heap that SYS_MMAP handed out is one SYS_MUNMAP takes
\* back, and no block is allocated and in nobody's hands.
UserMemoryKept ==
    /\ \A s \in Slots : heapNext[s] \in 0 .. HeapPages /\ heapPte[s] \subseteq Pages
    /\ \A s \in procUsed :
         /\ mine[s] \subseteq 0 .. (heapNext[s] - 1)
         /\ \A p \in 0 .. (heapNext[s] - 1) : p \in mine[s] <=> p \in Accessible(s)
    /\ mmapped = ledger /\ Cardinality(ledger) <= LedgerSize
=============================================================================
