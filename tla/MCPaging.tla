------------------------------ MODULE MCPaging ------------------------------
(* An instance of Paging for TLC: two processes of three pages (two that   *)
(* are only read, and one from the file that is also written), with less   *)
(* memory than pages, and fewer entries in the TLB than frames.            *)
EXTENDS Paging, TLC

CONSTANTS t1, t2, v1, v2

MCThreads == {t1, t2}

(* All processes run the same program, and no version is told from another.*)
Symmetry == Permutations(MCThreads) \cup Permutations(Versions)

(* What is left in frames that are not marked is never read.               *)
View ==
    <<currentThread, ended, pageTable, tlb, tlbIterator, mainMemoryIterator,
      [f \in mainMemoryMap |-> <<invertedTable[f], mainMemory[f]>>],
      [s \in SWAPmap |-> SWAP[s]], damage>>
=============================================================================
