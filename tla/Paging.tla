------------------------------- MODULE Paging -------------------------------
(***************************************************************************)
(* Demand paging, in the build with -DVM and -DUSE_TLB: the translation of *)
(* addresses through the TLB (machine/translate.cc), the page fault        *)
(* handler with its replacement of frames and of TLB entries               *)
(* (userprog/exception.cc), and what AddrSpace does at a context switch    *)
(* and at the end of a process (userprog/addrspace.cc).                    *)
(*                                                                         *)
(* A step is an access to memory that the TLB translates, or a page fault, *)
(* whose handler turns no interrupts on and therefore is not interrupted,  *)
(* or a switch to another thread.  A page has one of a few contents, and a *)
(* store gives it another.                                                 *)
(***************************************************************************)
EXTENDS Integers, FiniteSetsExt

CONSTANTS
    Threads,            \* the processes, which all run the same program
    NumPages,
    NumPagesCode,
    NumPagesInitData,
    NumPhysPages,
    TLBSize,
    Versions            \* bound: what can be stored in a page

ASSUME PagingAssumption ==
    /\ NumPages \in Nat /\ NumPagesCode \in 1..NumPages /\ NumPagesInitData \in 0..NumPages
    /\ NumPhysPages \in Nat \ {0}
    /\ TLBSize \in Nat \ {0}

Pages == 0..(NumPages - 1)
Frames == 0..(NumPhysPages - 1)
Entries == 0..(TLBSize - 1)
SWAPFrames == 0..(2 * NumPhysPages - 1)

(* What a page holds: zeroes, its part of the program file, or a version   *)
(* that its process stored.                                                *)
Contents == {<<"zero">>} \cup {"file"} \X Pages \cup Threads \X Pages \X Versions

VARIABLES
    currentThread,
    ended,              \* the processes that called Exit
    pageTable,          \* of each process: physicalPage, valid, use and dirty of each page
    tlb,                \* entries with a virtualPage besides
    tlbIterator,
    mainMemoryIterator,
    invertedTable,      \* who uses each frame, for which page (two arrays in the code)
    mainMemoryMap,
    mainMemory,
    SWAPmap,
    SWAP,
    damage              \* ghost: what went wrong that the code does not notice

vars == <<currentThread, ended, pageTable, tlb, tlbIterator, mainMemoryIterator, invertedTable,
          mainMemoryMap, mainMemory, SWAPmap, SWAP, damage>>

-----------------------------------------------------------------------------
(* AddrSpace's constructors: nothing is loaded.  The last page of the code *)
(* also has data.                                                          *)
NewPageTable ==
    [p \in Pages |-> [physicalPage |-> -1, valid |-> FALSE, use |-> FALSE, dirty |-> FALSE]]

readOnly(p) == p < NumPagesCode - 1

(* AddrSpace::RestoreState: an empty TLB.                                  *)
RestoredTLB ==
    [i \in Entries |->
       [virtualPage |-> -1, physicalPage |-> -1, valid |-> FALSE, use |-> FALSE, dirty |-> FALSE]]

(* Machine::Machine, and StartProcess of the first process.                *)
Init ==
    /\ currentThread \in Threads
    /\ ended = {}
    /\ pageTable = [t \in Threads |-> NewPageTable]
    /\ tlb = RestoredTLB
    /\ tlbIterator = 0
    /\ mainMemoryIterator = 0
    /\ invertedTable = [f \in Frames |-> [thread |-> currentThread, VP |-> 0]]
    /\ mainMemoryMap = {}
    /\ mainMemory = [f \in Frames |-> <<"zero">>]
    /\ SWAPmap = {}
    /\ SWAP = [s \in SWAPFrames |-> <<"zero">>]
    /\ damage = {}

-----------------------------------------------------------------------------
(* Accesses to memory.                                                     *)

(* The entries that Machine::Translate finds for a page, in the TLB.       *)
Hits(vpn) == {i \in Entries : tlb[i].valid /\ tlb[i].virtualPage = vpn}

(* Translate's marks on the entry that it uses.  The page table learns of  *)
(* the use, and not of the change.                                         *)
Translate(vpn, writing) ==
    /\ tlb' = [tlb EXCEPT ![Min(Hits(vpn))].use = TRUE,
                          ![Min(Hits(vpn))].dirty = @ \/ writing]
    /\ pageTable' = [pageTable EXCEPT ![currentThread][vpn].use = TRUE]

(* Machine::ReadMem.                                                       *)
ReadMem(vpn) ==
    /\ Hits(vpn) # {}
    /\ Translate(vpn, FALSE)
    /\ UNCHANGED <<currentThread, ended, tlbIterator, mainMemoryIterator, invertedTable,
                   mainMemoryMap, mainMemory, SWAPmap, SWAP, damage>>

(* Machine::WriteMem, to a page that is not read-only.                     *)
WriteMem(vpn) ==
    /\ Hits(vpn) # {}
    /\ ~readOnly(vpn)
    /\ Translate(vpn, TRUE)
    /\ \E v \in Versions :
          mainMemory' = [mainMemory EXCEPT ![tlb[Min(Hits(vpn))].physicalPage] =
                                              <<currentThread, vpn, v>>]
    /\ UNCHANGED <<currentThread, ended, tlbIterator, mainMemoryIterator, invertedTable,
                   mainMemoryMap, SWAPmap, SWAP, damage>>

-----------------------------------------------------------------------------
(* The page fault handler.                                                 *)

(* BitMap::Find: the first clear bit, or -1.                               *)
Find(map, bits) == IF bits \subseteq map THEN -1 ELSE Min(bits \ map)

(* How far the second chance algorithm goes from position i of n: to the   *)
(* first that is not in use, or all around.                                *)
Passed(i, n, InUse(_)) == Min({k \in 0..n : k = n \/ ~InUse((i + k) % n)})

(* storeInSWAP: where an evicted page goes.                                *)
storeInSWAP == Find(SWAPmap, SWAPFrames)

(* readFromSWAP: the page, and the SWAP's map without it.                  *)
readFromSWAP(swap, map, oldSWAPframe) ==
    [page |-> swap[oldSWAPframe], SWAPmap |-> map \ {oldSWAPframe}]

(* Whether an evicted page differs from the program's file.                *)
Dirty(entry, frame) ==
    LET inTLB == {i \in Entries : tlb[i].physicalPage = frame}
    IN  IF inTLB = {} THEN entry.dirty ELSE tlb[Min(inTLB)].dirty

(* replaceMainMemoryFrame: the frame that it frees, the page tables and    *)
(* the SWAP after it.  A page that is in the TLB stays there.              *)
replaceMainMemoryFrame ==
    LET Used(f) == pageTable[invertedTable[f].thread][invertedTable[f].VP].use
        passed == Passed(mainMemoryIterator, NumPhysPages, Used)
        frame == (mainMemoryIterator + passed) % NumPhysPages
        thr == invertedTable[frame].thread
        VP == invertedTable[frame].VP
        swept == {invertedTable[(mainMemoryIterator + k) % NumPhysPages] : k \in 0..(passed - 1)}
        dirty == Dirty(pageTable[thr][VP], frame)
        evicted == [physicalPage |-> IF dirty THEN storeInSWAP ELSE -1,
                    valid |-> FALSE, use |-> FALSE, dirty |-> dirty]
    IN  [frame |-> frame,
         pageTable |-> [t \in Threads |-> [p \in Pages |->
                          IF t = thr /\ p = VP THEN evicted
                          ELSE IF [thread |-> t, VP |-> p] \in swept
                          THEN [pageTable[t][p] EXCEPT !.use = FALSE]
                          ELSE pageTable[t][p]]],
         SWAPmap |-> IF dirty THEN SWAPmap \cup {storeInSWAP} ELSE SWAPmap,
         SWAP |-> IF dirty /\ storeInSWAP >= 0
                  THEN [SWAP EXCEPT ![storeInSWAP] = mainMemory[frame]] ELSE SWAP,
         mainMemoryIterator |-> (frame + 1) % NumPhysPages,
         damage |-> (IF \E i \in Entries : tlb[i].physicalPage = frame
                     THEN {"stale TLB entry"} ELSE {})
                    \cup IF dirty /\ storeInSWAP = -1 THEN {"abort"} ELSE {}]

(* When there is a free frame there is nothing to replace.                 *)
FreeFrame ==
    [frame |-> Find(mainMemoryMap, Frames), pageTable |-> pageTable, SWAPmap |-> SWAPmap,
     SWAP |-> SWAP, mainMemoryIterator |-> mainMemoryIterator, damage |-> {}]

(* Fault: the inverted table still names the page that was evicted.        *)
InvertedTableKept(frame, vpn) == invertedTable

(* The inverted table once a page was brought into a frame.                *)
InvertedTableWith(frame, vpn) ==
    [invertedTable EXCEPT ![frame] = [thread |-> currentThread, VP |-> vpn]]

(* What the program's file has for a page.                                 *)
FromFile(vpn) ==
    IF readOnly(vpn) \/ vpn < NumPagesCode + NumPagesInitData THEN <<"file", vpn>> ELSE <<"zero">>

(* Fault: the changes are not saved in the page table of the owner.        *)
SaveVictimForgotten(pt, inverted, entry) == pt

(* The part of updateTLB that saves the victim.                            *)
SaveVictim(pt, inverted, entry) ==
    IF entry.physicalPage < 0 THEN pt
    ELSE [pt EXCEPT ![inverted[entry.physicalPage].thread][inverted[entry.physicalPage].VP] =
                       [physicalPage |-> entry.physicalPage, valid |-> entry.valid,
                        use |-> entry.use, dirty |-> entry.dirty]]

(* updateTLB, with the page tables and the inverted table at that point.   *)
updateTLB(vpn, pt, inverted) ==
    LET InUse(i) == tlb[i].use
        passed == Passed(tlbIterator, TLBSize, InUse)
        victim == (tlbIterator + passed) % TLBSize
        swept == {(tlbIterator + k) % TLBSize : k \in 0..(passed - 1)}
        saved == SaveVictim(pt, inverted, [tlb[victim] EXCEPT !.use = FALSE])
        page == saved[currentThread][vpn]
    IN  /\ pageTable' = saved
        /\ tlb' = [i \in Entries |->
                     IF i = victim
                     THEN [virtualPage |-> vpn, physicalPage |-> page.physicalPage,
                           valid |-> TRUE, use |-> TRUE, dirty |-> page.dirty]
                     ELSE [tlb[i] EXCEPT !.use = @ /\ i \notin swept]]
        /\ tlbIterator' = victim

(* The frame of a page that is valid is only entered in the TLB.           *)
PageFaultInMemory(vpn) ==
    /\ Hits(vpn) = {}
    /\ pageTable[currentThread][vpn].valid
    /\ updateTLB(vpn, pageTable, invertedTable)
    /\ UNCHANGED <<currentThread, ended, mainMemoryIterator, invertedTable, mainMemoryMap,
                   mainMemory, SWAPmap, SWAP, damage>>

(* Otherwise it is brought in, from the SWAP if it is dirty, with the bits *)
(* that the handler read before it freed a frame.                          *)
PageFault(vpn) ==
    LET entry == pageTable[currentThread][vpn]
        r == IF mainMemoryMap = Frames THEN replaceMainMemoryFrame ELSE FreeFrame
        loaded == [r.pageTable EXCEPT ![currentThread][vpn].physicalPage = r.frame,
                                      ![currentThread][vpn].valid = TRUE]
        inverted == InvertedTableWith(r.frame, vpn)
        read == IF entry.dirty
                THEN readFromSWAP(r.SWAP, r.SWAPmap, entry.physicalPage)
                ELSE [page |-> FromFile(vpn), SWAPmap |-> r.SWAPmap]
    IN  /\ Hits(vpn) = {}
        /\ ~entry.valid
        /\ damage' = damage \cup r.damage
        /\ mainMemoryMap' = mainMemoryMap \cup {r.frame}
        /\ mainMemory' = [mainMemory EXCEPT ![r.frame] = read.page]
        /\ SWAPmap' = read.SWAPmap \ {-1}
        /\ SWAP' = r.SWAP
        /\ mainMemoryIterator' = r.mainMemoryIterator
        /\ invertedTable' = inverted
        /\ updateTLB(vpn, loaded, inverted)
        /\ UNCHANGED <<currentThread, ended>>

-----------------------------------------------------------------------------
(* Context switches.                                                       *)

(* AddrSpace::SaveState.  The code also writes through the entries that    *)
(* are empty, at index -1, outside the page table.                         *)
SaveState(t) ==
    [p \in Pages |->
       LET entries == {i \in Entries : tlb[i].virtualPage = p}
       IN  IF entries = {} THEN pageTable[t][p]
           ELSE LET e == tlb[Max(entries)]
                IN  [physicalPage |-> e.physicalPage, valid |-> e.valid, use |-> e.use,
                     dirty |-> e.dirty]]

(* Scheduler::Run.                                                         *)
Run(n) ==
    /\ n \in Threads \ (ended \cup {currentThread})
    /\ pageTable' = [pageTable EXCEPT ![currentThread] = SaveState(currentThread)]
    /\ tlb' = RestoredTLB
    /\ currentThread' = n
    /\ UNCHANGED <<ended, tlbIterator, mainMemoryIterator, invertedTable, mainMemoryMap,
                   mainMemory, SWAPmap, SWAP, damage>>

(* Exit, Scheduler::Run of the next thread, and AddrSpace::~AddrSpace.  It *)
(* takes what is in physicalPage for a frame, also when the page is in the *)
(* SWAP, and if the next thread has children it frees the stack only (here *)
(* the last page).                                                         *)
Exit(n) ==
    /\ n \in Threads \ (ended \cup {currentThread})
    /\ \E stackOnly \in BOOLEAN :
          LET pt == SaveState(currentThread)
              pages == IF stackOnly THEN {NumPages - 1} ELSE Pages
              freed == {pt[p].physicalPage : p \in pages} \ {-1}
              own == {pt[p].physicalPage : p \in {q \in Pages : pt[q].valid}}
          IN  /\ mainMemoryMap' = mainMemoryMap \ freed
              /\ damage' = damage \cup
                    (IF own \subseteq freed THEN {} ELSE {"frames not freed"}) \cup
                    (IF freed \cap mainMemoryMap \subseteq own THEN {}
                     ELSE {"wrong frame freed"}) \cup
                    (IF freed \subseteq Frames THEN {} ELSE {"abort"})
    /\ ended' = ended \cup {currentThread}
    /\ pageTable' = [pageTable EXCEPT ![currentThread] = NewPageTable]
    /\ tlb' = RestoredTLB
    /\ currentThread' = n
    /\ UNCHANGED <<tlbIterator, mainMemoryIterator, invertedTable, mainMemory, SWAPmap, SWAP>>

(* Once something went wrong memory is not what it should be, and what     *)
(* follows is undefined: the model stops there.                            *)
Next ==
    /\ damage = {}
    /\ \/ \E vpn \in Pages :
             ReadMem(vpn) \/ WriteMem(vpn) \/ PageFaultInMemory(vpn) \/ PageFault(vpn)
       \/ \E n \in Threads : Run(n) \/ Exit(n)

Spec == Init /\ [][Next]_vars

-----------------------------------------------------------------------------
(* Properties.                                                             *)

(* What a process finds in a page, wherever it is at the moment.           *)
Seen(t, p) ==
    LET entry == pageTable[t][p] IN
    IF t = currentThread /\ Hits(p) # {} THEN mainMemory[tlb[Min(Hits(p))].physicalPage]
    ELSE IF entry.valid THEN mainMemory[entry.physicalPage]
    ELSE IF entry.dirty THEN SWAP[entry.physicalPage]
    ELSE FromFile(p)

seen == [t \in Threads |-> [p \in Pages |-> Seen(t, p)]]

Memory ==
    INSTANCE VirtualMemory WITH
        InitialContents <- [t \in Threads |-> [p \in Pages |-> FromFile(p)]],
        contents <- seen, running <- currentThread

(* Page faults, evictions to the SWAP and back, replacements in the TLB    *)
(* and context switches never change what a process finds in its pages:    *)
(* only its own stores do, each in one page.  It is so until the handler   *)
(* evicts a page that is in the TLB, or the destructor of AddrSpace frees  *)
(* what it should not or too little.                                       *)
ImplementsMemory == Memory!Init /\ [][damage' = {} => Memory!Next]_seen

(* As long as nothing went wrong, every page that is in memory has a frame *)
(* that is marked, that no other page has, and whose entry in the inverted *)
(* table leads back to the page; every page in the SWAP has a marked frame *)
(* of its own there; and what is in the TLB belongs to the current thread  *)
(* and agrees with its page table.                                         *)
FramesOwned ==
    damage = {} =>
        /\ \A t \in Threads \ ended, p \in Pages :
              LET entry == pageTable[t][p] IN
              /\ entry.valid =>
                    /\ entry.physicalPage \in mainMemoryMap
                    /\ invertedTable[entry.physicalPage] = [thread |-> t, VP |-> p]
              /\ ~entry.valid /\ entry.dirty =>
                    /\ entry.physicalPage \in SWAPmap
                    /\ \A u \in Threads \ ended, q \in Pages :
                          /\ ~pageTable[u][q].valid /\ pageTable[u][q].dirty
                          /\ pageTable[u][q].physicalPage = entry.physicalPage
                          => u = t /\ q = p
        /\ \A i \in Entries :
              tlb[i].valid =>
                  LET entry == pageTable[currentThread][tlb[i].virtualPage] IN
                  /\ entry.valid /\ entry.physicalPage = tlb[i].physicalPage
                  /\ entry.dirty => tlb[i].dirty

(* "If that page was in the tlb, remove it from there": no entry of the    *)
(* TLB leads to a frame that was given to another page.                    *)
EvictedLeavesTLB ==
    \A i \in Entries : tlb[i].valid => invertedTable[tlb[i].physicalPage].VP = tlb[i].virtualPage
=============================================================================
