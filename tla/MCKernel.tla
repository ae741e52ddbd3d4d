------------------------------ MODULE MCKernel ------------------------------
(***************************************************************************)
(* What the kernel keeps for programs and the user, one part at a time,    *)
(* the others standing still: the kernel heap, the memory of processes,    *)
(* contents of files, names and directories.  SYS_MMAP sees no more of the *)
(* kernel heap than what KHeap's LiveKept promises.                        *)
(***************************************************************************)
EXTENDS KHeap, UserHeap, FileContent, FileTable, TLC

CONSTANTS p1, p2, n1, n2

VARIABLE part

Parts == {"kernel", "user", "content", "table"}

TwoProcs == {p1, p2}
TwoNames == {n1, n2}

\* Two processes against the shell; one against editor, paint and echo >>.
MCSessions ==
    {[procs |-> TwoProcs, ops |-> {"create", "delete", "copy"}]} \union
    {[procs |-> {p}, ops |-> {"create", "delete", "copy", "link", "save", "paint",
                             "append"}] : p \in TwoProcs}

MCCommandSets ==
    {{"mkdir", "touch", "mv", "cp"}, {"mkdir", "touch", "cd"}, {"rm", "mv", "cd"}}

\* No process is told from another: each has its own row of fd_tab.  Nor are
\* names.
KernelSymmetry == Permutations(TwoProcs) \union Permutations(TwoNames)

kernelVars == <<part, vars, userHeapVars, contentVars, tableVars>>

KernelInit ==
    /\ part \in Parts
    /\ Init /\ UserHeapInit
    /\ ContentInit /\ (part # "content" => session = CHOOSE s \in MCSessions : s.procs = TwoProcs)
    /\ TableInit   /\ (part # "table" => "rm" \in commands)

KernelNext ==
    /\ \/ part = "kernel"  /\ ~raced /\ Next
       \/ part = "user"    /\ UserHeapNext
       \/ part = "content" /\ ContentNext
       \/ part = "table"   /\ TableNext
    /\ part # "kernel"  => UNCHANGED vars
    /\ part # "user"    => UNCHANGED userHeapVars
    /\ part # "content" => UNCHANGED contentVars
    /\ part # "table"   => UNCHANGED tableVars
    /\ UNCHANGED part

KernelSpec == KernelInit /\ [][KernelNext]_kernelVars
=============================================================================
