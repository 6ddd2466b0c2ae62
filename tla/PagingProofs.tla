---------------------------- MODULE PagingProofs ----------------------------
(***************************************************************************)
(* Proofs about demand paging, for any number of processes, pages, frames  *)
(* and TLB entries: as long as nothing was damaged, the page tables, the   *)
(* inverted table, the TLB and the SWAP's map agree, and processes find in *)
(* their pages what they stored there.                                     *)
(*                                                                         *)
(* The page fault handler goes through intermediate page tables, so the    *)
(* parts of the invariant have the tables as parameters.                   *)
(***************************************************************************)
EXTENDS Paging, WellFoundedInduction, TLAPS

PageEntry == [physicalPage : Int, valid : BOOLEAN, use : BOOLEAN, dirty : BOOLEAN]
TLBEntry ==
    [virtualPage : Int, physicalPage : Int, valid : BOOLEAN, use : BOOLEAN, dirty : BOOLEAN]
Owner == [thread : Threads, VP : Pages]
PageTables == [Threads -> [Pages -> PageEntry]]

TypeOK ==
    /\ currentThread \in Threads
    /\ pageTable \in PageTables
    /\ tlb \in [Entries -> TLBEntry]
    /\ tlbIterator \in Entries
    /\ mainMemoryIterator \in Frames
    /\ invertedTable \in [Frames -> Owner]
    /\ mainMemoryMap \subseteq Frames
    /\ mainMemory \in [Frames -> Contents]
    /\ SWAPmap \subseteq SWAPFrames
    /\ SWAP \in [SWAPFrames -> Contents]

(* The marked frames are those of the pages in memory, one for each.       *)
Owned(pt, inverted, map) ==
    /\ \A t \in Threads, p \in Pages :
          pt[t][p].valid => /\ pt[t][p].physicalPage \in map
                            /\ inverted[pt[t][p].physicalPage] = [thread |-> t, VP |-> p]
    /\ \A f \in map :
          /\ pt[inverted[f].thread][inverted[f].VP].valid
          /\ pt[inverted[f].thread][inverted[f].VP].physicalPage = f

InSWAP(entry) == ~entry.valid /\ entry.dirty

(* The pages in the SWAP have marked frames there, one for each.           *)
Swapped(pt, map) ==
    /\ \A t \in Threads, p \in Pages : InSWAP(pt[t][p]) => pt[t][p].physicalPage \in map
    /\ \A t, u \in Threads, p, q \in Pages :
          /\ InSWAP(pt[t][p]) /\ InSWAP(pt[u][q])
          /\ pt[t][p].physicalPage = pt[u][q].physicalPage
          => t = u /\ p = q

(* An entry of the TLB is empty, or of a page in memory of thread t, and   *)
(* no page has two.                                                        *)
Cached(pt, t, buffer) ==
    /\ \A i \in Entries :
          \/ ~buffer[i].valid /\ buffer[i].virtualPage = -1 /\ buffer[i].physicalPage = -1
          \/ /\ buffer[i].valid
             /\ buffer[i].virtualPage \in Pages
             /\ pt[t][buffer[i].virtualPage].valid
             /\ pt[t][buffer[i].virtualPage].physicalPage = buffer[i].physicalPage
             /\ pt[t][buffer[i].virtualPage].dirty => buffer[i].dirty
    /\ \A i, j \in Entries :
          buffer[i].valid /\ buffer[j].valid /\ buffer[i].virtualPage = buffer[j].virtualPage
          => i = j

(* A page of t that changed since it was brought in, which may be known in *)
(* the TLB only if t is the current thread, cur.                           *)
Changed(pt, cur, buffer, t, p) ==
    \/ pt[t][p].dirty
    \/ t = cur /\ \E i \in Entries :
                     buffer[i].valid /\ buffer[i].virtualPage = p /\ buffer[i].dirty

(* Pages in memory that did not change are as in the program's file.       *)
Clean(pt, cur, buffer, memory) ==
    \A t \in Threads, p \in Pages :
        pt[t][p].valid /\ ~Changed(pt, cur, buffer, t, p) =>
            memory[pt[t][p].physicalPage] = FromFile(p)

(* The inductive invariant.                                                *)
PInv ==
    /\ TypeOK
    /\ Owned(pageTable, invertedTable, mainMemoryMap)
    /\ Swapped(pageTable, SWAPmap)
    /\ Cached(pageTable, currentThread, tlb)
    /\ Clean(pageTable, currentThread, tlb, mainMemory)

(* What a process finds in a page according to its page table.             *)
Found(pt, memory, swap, t, p) ==
    IF pt[t][p].valid THEN memory[pt[t][p].physicalPage]
    ELSE IF pt[t][p].dirty THEN swap[pt[t][p].physicalPage]
    ELSE FromFile(p)

-----------------------------------------------------------------------------
(* A set of naturals that is not empty has a minimum.                      *)
LEMMA MinOf ==
    ASSUME NEW S \in SUBSET Nat, S # {}
    PROVE  Min(S) \in S
<1>1. \E x \in S : \A y \in S : <<y, x>> \notin OpToRel(<, Nat)
    BY NatLessThanWellFounded, WFMin, Zenon
<1>2. PICK x \in S : \A y \in S : <<y, x>> \notin OpToRel(<, Nat)
    BY <1>1, Zenon
<1>3. \A y \in S : ~(y < x)
    BY <1>2, Zenon DEF OpToRel
<1>4. \A y \in S : x =< y
    BY <1>3
<1> QED
    BY <1>4, Zenon DEF Min

(* A set of naturals below n that is not empty has a maximum.              *)
LEMMA MaxOf ==
    ASSUME NEW n \in Nat, NEW S \in SUBSET (0..(n - 1)), S # {}
    PROVE  Max(S) \in S
<1> DEFINE R == {n - x : x \in S}
<1>0. \A x \in S : x \in Int /\ n - x \in Nat
    OBVIOUS
<1>1. R \in SUBSET Nat /\ R # {}
    BY <1>0, Zenon
<1>2. \E x \in R : \A y \in R : <<y, x>> \notin OpToRel(<, Nat)
    BY <1>1, NatLessThanWellFounded, WFMin, Zenon
<1>3. PICK x \in S : \A y \in R : <<y, n - x>> \notin OpToRel(<, Nat)
    BY <1>2, Zenon
<1>4. \A y \in S : ~(n - y < n - x)
    BY <1>0, <1>3, Zenon DEF OpToRel
<1>5. \A y \in S : x >= y
    BY <1>4
<1> QED
    BY <1>5, Zenon DEF Max

(* There is at least one page, one frame and one TLB entry.                *)
LEMMA Sizes ==
    /\ NumPages \in Nat \ {0} /\ NumPhysPages \in Nat \ {0} /\ TLBSize \in Nat \ {0}
    /\ Pages \subseteq Nat /\ 0 \in Pages /\ NumPages - 1 \in Pages
    /\ Frames \subseteq Nat /\ 0 \in Frames
    /\ Entries \subseteq Nat /\ 0 \in Entries
    /\ SWAPFrames \subseteq Nat
BY PagingAssumption DEF Pages, Frames, Entries, SWAPFrames

(* A position modulo a size is below the size.                             *)
LEMMA Around ==
    ASSUME NEW i \in Nat, NEW k \in Nat, NEW n \in Nat \ {0}
    PROVE  (i + k) % n \in 0..(n - 1)
OBVIOUS

(* BitMap::Find returns a clear bit, or -1 if there is none.               *)
LEMMA FindClear ==
    ASSUME NEW map, NEW bits \in SUBSET Nat
    PROVE  \/ Find(map, bits) = -1 /\ bits \subseteq map
           \/ Find(map, bits) \in bits /\ Find(map, bits) \notin map
<1>1. CASE bits \subseteq map
    BY <1>1 DEF Find
<1>2. CASE ~(bits \subseteq map)
    <2>1. Min(bits \ map) \in bits \ map
        BY <1>2, MinOf
    <2> QED
        BY <1>2, <2>1 DEF Find
<1> QED
    BY <1>1, <1>2

(* The entry that Translate uses is one that it found.                     *)
LEMMA HitFound ==
    ASSUME NEW vpn, Hits(vpn) # {}
    PROVE  /\ Min(Hits(vpn)) \in Entries
           /\ tlb[Min(Hits(vpn))].valid
           /\ tlb[Min(Hits(vpn))].virtualPage = vpn
<1>1. Hits(vpn) \in SUBSET Nat
    BY Sizes, Zenon DEF Hits
<1>2. Min(Hits(vpn)) \in Hits(vpn)
    BY <1>1, MinOf
<1> QED
    BY <1>2 DEF Hits

(* With the invariant the page table alone tells what a process finds.     *)
LEMMA SeenIsFound ==
    ASSUME PInv, NEW t \in Threads, NEW p \in Pages
    PROVE  Seen(t, p) = Found(pageTable, mainMemory, SWAP, t, p)
<1>1. CASE t = currentThread /\ Hits(p) # {}
    <2>1. /\ Min(Hits(p)) \in Entries
          /\ tlb[Min(Hits(p))].valid
          /\ tlb[Min(Hits(p))].virtualPage = p
        BY <1>1, HitFound
    <2>2. pageTable[t][p].valid /\ pageTable[t][p].physicalPage = tlb[Min(Hits(p))].physicalPage
        BY <1>1, <2>1 DEF PInv, Cached
    <2> QED
        BY <1>1, <2>2 DEF Seen, Found
<1>2. CASE ~(t = currentThread /\ Hits(p) # {})
    BY <1>2, Zenon DEF Seen, Found
<1> QED
    BY <1>1, <1>2

(* No two pages are in the same frame of the SWAP.                         *)
LEMMA SwappedApart ==
    ASSUME NEW pt, NEW map, Swapped(pt, map),
           NEW t \in Threads, NEW p \in Pages, NEW u \in Threads, NEW q \in Pages,
           InSWAP(pt[t][p]), InSWAP(pt[u][q]), pt[t][p].physicalPage = pt[u][q].physicalPage
    PROVE  t = u /\ p = q
BY ZenonT(30) DEF Swapped

-----------------------------------------------------------------------------
(* After updateTLB, from the page tables pt: the tables agree, and nobody  *)
(* finds anything else than before.                                        *)
Entered(pt, inverted, map, smap, memory, swap) ==
    /\ pageTable' \in PageTables
    /\ tlb' \in [Entries -> TLBEntry]
    /\ tlbIterator' \in Entries
    /\ Owned(pageTable', inverted, map)
    /\ Swapped(pageTable', smap)
    /\ Cached(pageTable', currentThread, tlb')
    /\ Clean(pageTable', currentThread, tlb', memory)
    /\ \A t \in Threads, p \in Pages :
          Found(pageTable', memory, swap, t, p) = Found(pt, memory, swap, t, p)

(* updateTLB saves the victim in the page table of its page, which is one  *)
(* of the current thread, and enters a page that is in memory: nobody's    *)
(* pages move, and no change is forgotten.                                 *)
LEMMA UpdateTLBKeeps ==
    ASSUME TypeOK,
           NEW vpn \in Pages, NEW pt \in PageTables, NEW inverted \in [Frames -> Owner],
           NEW map \in SUBSET Frames, NEW smap, NEW memory, NEW swap,
           Owned(pt, inverted, map), Swapped(pt, smap),
           Cached(pt, currentThread, tlb), Clean(pt, currentThread, tlb, memory),
           Hits(vpn) = {}, pt[currentThread][vpn].valid,
           updateTLB(vpn, pt, inverted)
    PROVE  Entered(pt, inverted, map, smap, memory, swap)
<1> DEFINE InUse(i) == tlb[i].use
           stops == {k \in 0..TLBSize : k = TLBSize \/ ~InUse((tlbIterator + k) % TLBSize)}
           passed == Min(stops)
           victim == (tlbIterator + passed) % TLBSize
           swept == {(tlbIterator + k) % TLBSize : k \in 0..(passed - 1)}
           old == tlb[victim]
           saved == SaveVictim(pt, inverted, [old EXCEPT !.use = FALSE])
<1>1. /\ pageTable' = saved
      /\ tlb' = [i \in Entries |->
                   IF i = victim
                   THEN [virtualPage |-> vpn,
                         physicalPage |-> saved[currentThread][vpn].physicalPage,
                         valid |-> TRUE, use |-> TRUE, dirty |-> saved[currentThread][vpn].dirty]
                   ELSE [tlb[i] EXCEPT !.use = @ /\ i \notin swept]]
      /\ tlbIterator' = victim
    BY Zenon DEF updateTLB, Passed
<1>2. victim \in Entries
    <2>1. stops \in SUBSET Nat /\ TLBSize \in stops
        BY Sizes
    <2>2. passed \in stops
        BY <2>1, MinOf, Zenon
    <2>3. passed \in Nat /\ tlbIterator \in Nat
        BY <2>1, <2>2, Sizes DEF TypeOK
    <2> HIDE DEF passed
    <2> QED
        BY <2>3, Sizes, Around DEF Entries
<1> HIDE DEF stops, passed, victim, swept
<1>3. old \in TLBEntry
    BY <1>2 DEF TypeOK
<1>4. /\ saved \in PageTables
      /\ \A t \in Threads, p \in Pages :
            /\ saved[t][p].valid = pt[t][p].valid
            /\ saved[t][p].physicalPage = pt[t][p].physicalPage
            /\ saved[t][p].dirty = IF t = currentThread /\ old.valid /\ old.virtualPage = p
                                  THEN old.dirty ELSE pt[t][p].dirty
    <2>1. CASE ~old.valid
        <3>1. old.physicalPage = -1
            BY <1>2, <2>1 DEF Cached
        <3>2. saved = pt
            BY <1>3, <3>1 DEF SaveVictim, TLBEntry
        <3> QED
            BY <2>1, <3>2, Zenon
    <2>2. CASE old.valid
        <3>1. /\ old.virtualPage \in Pages
              /\ pt[currentThread][old.virtualPage].valid
              /\ pt[currentThread][old.virtualPage].physicalPage = old.physicalPage
            BY <1>2, <2>2 DEF Cached
        <3>2. /\ old.physicalPage \in Frames
              /\ inverted[old.physicalPage] = [thread |-> currentThread, VP |-> old.virtualPage]
            BY <3>1 DEF Owned, TypeOK
        <3>3. saved = [pt EXCEPT ![currentThread][old.virtualPage] =
                          [physicalPage |-> old.physicalPage, valid |-> old.valid,
                           use |-> FALSE, dirty |-> old.dirty]]
            <4> DEFINE entry == [old EXCEPT !.use = FALSE]
            <4>1. /\ entry.physicalPage = old.physicalPage /\ entry.valid = old.valid
                  /\ entry.use = FALSE /\ entry.dirty = old.dirty
                BY <1>3 DEF TLBEntry
            <4>2. ~(entry.physicalPage < 0)
                BY <3>2, <4>1, Sizes
            <4> HIDE DEF entry, old
            <4>3. SaveVictim(pt, inverted, entry)
                    = [pt EXCEPT ![inverted[entry.physicalPage].thread]
                                  [inverted[entry.physicalPage].VP] =
                          [physicalPage |-> entry.physicalPage, valid |-> entry.valid,
                           use |-> entry.use, dirty |-> entry.dirty]]
                BY <4>2, Zenon DEF SaveVictim
            <4>4. /\ inverted[old.physicalPage].thread = currentThread
                  /\ inverted[old.physicalPage].VP = old.virtualPage
                BY <3>2
            <4> QED
                BY <4>1, <4>3, <4>4, Zenon DEF entry
        <3>4. currentThread \in Threads
            BY DEF TypeOK
        <3> HIDE DEF saved, old
        <3>5. saved \in PageTables
            BY <1>3, <3>1, <3>3, <3>4 DEF PageTables, PageEntry, TLBEntry
        <3>6. ASSUME NEW t \in Threads, NEW p \in Pages
              PROVE  /\ saved[t][p].valid = pt[t][p].valid
                     /\ saved[t][p].physicalPage = pt[t][p].physicalPage
                     /\ saved[t][p].dirty = IF t = currentThread /\ old.virtualPage = p
                                            THEN old.dirty ELSE pt[t][p].dirty
            <4>1. CASE t = currentThread /\ old.virtualPage = p
                BY <2>2, <3>1, <3>3, <3>4, <4>1, Zenon DEF PageTables
            <4>2. CASE ~(t = currentThread /\ old.virtualPage = p)
                BY <3>1, <3>3, <3>4, <4>2 DEF PageTables
            <4> QED
                BY <4>1, <4>2
        <3> QED
            <4> HIDE DEF saved
            <4> QED
                BY <2>2, <3>5, <3>6
    <2> QED
        BY <2>1, <2>2, <1>3, Zenon DEF TLBEntry
<1> HIDE DEF saved
<1>5. currentThread \in Threads
    BY DEF TypeOK
<1>6. \A i \in Entries : ~(tlb[i].valid /\ tlb[i].virtualPage = vpn)
    BY DEF Hits
<1>7. saved[currentThread][vpn].dirty = pt[currentThread][vpn].dirty
    BY <1>2, <1>4, <1>5, <1>6
<1>8. /\ tlb' \in [Entries -> TLBEntry]
      /\ tlb'[victim].valid /\ tlb'[victim].virtualPage = vpn
      /\ tlb'[victim].physicalPage = pt[currentThread][vpn].physicalPage
      /\ tlb'[victim].dirty = pt[currentThread][vpn].dirty
      /\ \A i \in Entries \ {victim} :
            /\ tlb'[i].valid = tlb[i].valid
            /\ tlb'[i].virtualPage = tlb[i].virtualPage
            /\ tlb'[i].physicalPage = tlb[i].physicalPage
            /\ tlb'[i].dirty = tlb[i].dirty
    <2>1. saved[currentThread][vpn] \in PageEntry
        BY <1>4, <1>5 DEF PageTables
    <2>2. /\ tlb'[victim] = [virtualPage |-> vpn,
                             physicalPage |-> saved[currentThread][vpn].physicalPage,
                             valid |-> TRUE, use |-> TRUE,
                             dirty |-> saved[currentThread][vpn].dirty]
          /\ \A i \in Entries \ {victim} :
                tlb'[i] = [tlb[i] EXCEPT !.use = @ /\ i \notin swept]
          /\ DOMAIN tlb' = Entries
          /\ tlb' = [i \in Entries |-> tlb'[i]]
        BY <1>1, <1>2, Zenon
    <2>3. tlb'[victim] \in TLBEntry
        BY <2>1, <2>2, Sizes DEF PageEntry, TLBEntry
    <2>4. ASSUME NEW i \in Entries \ {victim}
          PROVE  /\ tlb'[i] \in TLBEntry
                 /\ tlb'[i].valid = tlb[i].valid
                 /\ tlb'[i].virtualPage = tlb[i].virtualPage
                 /\ tlb'[i].physicalPage = tlb[i].physicalPage
                 /\ tlb'[i].dirty = tlb[i].dirty
        <3>1. tlb[i] \in TLBEntry
            BY DEF TypeOK
        <3> QED
            BY <2>2, <3>1, ZenonT(60) DEF TLBEntry
    <2> QED
        BY <1>4, <1>5, <1>7, <2>2, <2>3, <2>4
<1>9. Owned(pageTable', inverted, map)
    <2>1. \A f \in map : inverted[f].thread \in Threads /\ inverted[f].VP \in Pages
        BY DEF Owner
    <2> QED
        BY <1>1, <1>4, <2>1 DEF Owned
<1>10. Swapped(pageTable', smap)
    <2>1. \A t \in Threads, p \in Pages : InSWAP(saved[t][p]) <=> InSWAP(pt[t][p])
        <3> SUFFICES ASSUME NEW t \in Threads, NEW p \in Pages
                     PROVE  InSWAP(saved[t][p]) <=> InSWAP(pt[t][p])
            OBVIOUS
        <3>1. CASE t = currentThread /\ old.valid /\ old.virtualPage = p
            BY <1>2, <1>4, <3>1 DEF Cached, InSWAP
        <3>2. CASE ~(t = currentThread /\ old.valid /\ old.virtualPage = p)
            BY <1>4, <3>2 DEF InSWAP
        <3> QED
            BY <3>1, <3>2
    <2> QED
        BY <1>1, <1>4, <2>1 DEF Swapped
<1>11. Cached(pageTable', currentThread, tlb')
    <2>1. ASSUME NEW i \in Entries
          PROVE  \/ /\ ~tlb'[i].valid
                    /\ tlb'[i].virtualPage = -1 /\ tlb'[i].physicalPage = -1
                 \/ /\ tlb'[i].valid
                    /\ tlb'[i].virtualPage \in Pages
                    /\ saved[currentThread][tlb'[i].virtualPage].valid
                    /\ saved[currentThread][tlb'[i].virtualPage].physicalPage
                          = tlb'[i].physicalPage
                    /\ saved[currentThread][tlb'[i].virtualPage].dirty => tlb'[i].dirty
        <3>1. CASE i = victim
            BY <1>4, <1>5, <1>7, <1>8, <3>1
        <3>2. CASE i # victim
            BY <1>2, <1>4, <1>5, <1>8, <3>2 DEF Cached
        <3> QED
            BY <3>1, <3>2
    <2>2. ASSUME NEW i \in Entries, NEW j \in Entries, tlb'[i].valid, tlb'[j].valid,
                 tlb'[i].virtualPage = tlb'[j].virtualPage
          PROVE  i = j
        BY <1>2, <1>6, <1>8, <2>2 DEF Cached
    <2> QED
        BY <1>1, <2>1, <2>2, Zenon DEF Cached
<1>12. Clean(pageTable', currentThread, tlb', memory)
    <2> SUFFICES ASSUME NEW t \in Threads, NEW p \in Pages, saved[t][p].valid,
                        ~Changed(saved, currentThread, tlb', t, p)
                 PROVE  memory[saved[t][p].physicalPage] = FromFile(p)
        BY <1>1 DEF Clean
    <2>1. ~Changed(pt, currentThread, tlb, t, p)
        <3>1. ~saved[t][p].dirty
            BY DEF Changed
        <3>2. CASE t = currentThread
            <4>1. ~pt[t][p].dirty
                BY <1>2, <1>4, <3>1 DEF Cached
            <4>2. ASSUME NEW i \in Entries, tlb[i].valid, tlb[i].virtualPage = p
                  PROVE  ~tlb[i].dirty
                <5>1. CASE i = victim
                    BY <1>4, <3>1, <3>2, <4>2, <5>1
                <5>2. CASE i # victim
                    BY <1>8, <3>2, <4>2, <5>2 DEF Changed
                <5> QED
                    BY <5>1, <5>2
            <4> QED
                BY <4>1, <4>2 DEF Changed
        <3>3. CASE t # currentThread
            BY <1>4, <3>1, <3>3 DEF Changed
        <3> QED
            BY <3>2, <3>3
    <2> QED
        BY <1>4, <2>1 DEF Clean
<1>13. \A t \in Threads, p \in Pages :
          Found(pageTable', memory, swap, t, p) = Found(pt, memory, swap, t, p)
    <2> SUFFICES ASSUME NEW t \in Threads, NEW p \in Pages
                 PROVE  Found(saved, memory, swap, t, p) = Found(pt, memory, swap, t, p)
        BY <1>1
    <2>1. CASE t = currentThread /\ old.valid /\ old.virtualPage = p
        BY <1>2, <1>4, <2>1, ZenonT(60) DEF Cached, Found
    <2>2. CASE ~(t = currentThread /\ old.valid /\ old.virtualPage = p)
        BY <1>4, <2>2, ZenonT(60) DEF Found
    <2> QED
        BY <2>1, <2>2
<1> QED
    BY <1>1, <1>2, <1>4, <1>8, <1>9, <1>10, <1>11, <1>12, <1>13, Zenon DEF Entered

-----------------------------------------------------------------------------
(* What the handler needs of the frame that it gets: nobody uses it, and   *)
(* everybody's pages are where the tables say.                             *)
Frees(r) ==
    /\ r.frame \in Frames
    /\ r.pageTable \in PageTables
    /\ r.SWAPmap \subseteq SWAPFrames
    /\ r.SWAP \in [SWAPFrames -> Contents]
    /\ r.mainMemoryIterator \in Frames
    /\ Owned(r.pageTable, invertedTable, mainMemoryMap \ {r.frame})
    /\ Swapped(r.pageTable, r.SWAPmap)
    /\ Cached(r.pageTable, currentThread, tlb)
    /\ Clean(r.pageTable, currentThread, tlb, mainMemory)
    /\ \A t \in Threads, p \in Pages :
          ~pageTable[t][p].valid =>
              /\ ~r.pageTable[t][p].valid
              /\ r.pageTable[t][p].dirty = pageTable[t][p].dirty
              /\ r.pageTable[t][p].physicalPage = pageTable[t][p].physicalPage
    /\ \A t \in Threads, p \in Pages :
          Found(r.pageTable, mainMemory, r.SWAP, t, p) = Found(pageTable, mainMemory, SWAP, t, p)

(* A frame that is not marked can be used as it is.                        *)
LEMMA FreeFrameFrees ==
    ASSUME PInv, mainMemoryMap # Frames
    PROVE  Frees(FreeFrame)
<1>1. /\ FreeFrame.frame = Find(mainMemoryMap, Frames)
      /\ FreeFrame.pageTable = pageTable
      /\ FreeFrame.SWAPmap = SWAPmap
      /\ FreeFrame.SWAP = SWAP
      /\ FreeFrame.mainMemoryIterator = mainMemoryIterator
    BY Zenon DEF FreeFrame
<1>2. ~(Frames \subseteq mainMemoryMap)
    BY Zenon DEF PInv, TypeOK
<1>3. FreeFrame.frame \in Frames /\ mainMemoryMap \ {FreeFrame.frame} = mainMemoryMap
    BY <1>1, <1>2, FindClear, Sizes
<1> QED
    BY <1>1, <1>3, Zenon DEF Frees, PInv, TypeOK

(* What replaceMainMemoryFrame does to the tables: page VP of thr, which   *)
(* has frame r.frame, is not in memory any more.  If it changed it is in a *)
(* frame of the SWAP that was free.                                        *)
Evicts(r, thr, VP) ==
    /\ r.frame \in Frames /\ r.pageTable \in PageTables /\ r.mainMemoryIterator \in Frames
    /\ invertedTable[r.frame].thread = thr /\ invertedTable[r.frame].VP = VP
    /\ \A i \in Entries : tlb[i].physicalPage # r.frame
    /\ \A t \in Threads, p \in Pages : ~(t = thr /\ p = VP) =>
          /\ r.pageTable[t][p].valid = pageTable[t][p].valid
          /\ r.pageTable[t][p].dirty = pageTable[t][p].dirty
          /\ r.pageTable[t][p].physicalPage = pageTable[t][p].physicalPage
    /\ ~r.pageTable[thr][VP].valid
    /\ r.pageTable[thr][VP].dirty = pageTable[thr][VP].dirty
    /\ LET new == r.pageTable[thr][VP].physicalPage IN
       \/ /\ pageTable[thr][VP].dirty
          /\ new \in SWAPFrames \ SWAPmap
          /\ r.SWAPmap = SWAPmap \cup {new}
          /\ r.SWAP = [SWAP EXCEPT ![new] = mainMemory[r.frame]]
       \/ /\ ~pageTable[thr][VP].dirty
          /\ r.SWAPmap = SWAPmap
          /\ r.SWAP = SWAP

(* After such an eviction nobody uses the frame, and everybody finds the   *)
(* same: the page that left is in the SWAP, or as in the program's file.   *)
LEMMA EvictedFrees ==
    ASSUME PInv, mainMemoryMap = Frames,
           NEW r, NEW thr \in Threads, NEW VP \in Pages, Evicts(r, thr, VP)
    PROVE  Frees(r)
<1> DEFINE new == r.pageTable[thr][VP].physicalPage
           pt == r.pageTable
           Other(t, p) == ~(t = thr /\ p = VP)
<1>1. /\ r.frame \in Frames /\ pt \in PageTables /\ r.mainMemoryIterator \in Frames
      /\ \A i \in Entries : tlb[i].physicalPage # r.frame
      /\ ~pt[thr][VP].valid /\ pt[thr][VP].dirty = pageTable[thr][VP].dirty
    BY Zenon DEF Evicts
<1>2. \A t \in Threads, p \in Pages : Other(t, p) =>
         /\ pt[t][p].valid = pageTable[t][p].valid
         /\ pt[t][p].dirty = pageTable[t][p].dirty
         /\ pt[t][p].physicalPage = pageTable[t][p].physicalPage
    BY Zenon DEF Evicts
<1>3. pageTable[thr][VP].valid /\ pageTable[thr][VP].physicalPage = r.frame
    BY Zenon DEF Evicts, PInv, Owned
<1>4. /\ r.SWAPmap \subseteq SWAPFrames
      /\ r.SWAP \in [SWAPFrames -> Contents]
      /\ \A f \in SWAPmap : f \in r.SWAPmap /\ r.SWAP[f] = SWAP[f]
      /\ pageTable[thr][VP].dirty => /\ new \in r.SWAPmap /\ new \notin SWAPmap
                                     /\ r.SWAP[new] = mainMemory[r.frame]
    <2>1. /\ SWAPmap \subseteq SWAPFrames /\ SWAP \in [SWAPFrames -> Contents]
          /\ mainMemory[r.frame] \in Contents
        BY <1>1, Zenon DEF PInv, TypeOK
    <2>2. CASE pageTable[thr][VP].dirty
        <3>1. /\ new \in SWAPFrames /\ new \notin SWAPmap
              /\ r.SWAPmap = SWAPmap \cup {new}
              /\ r.SWAP = [SWAP EXCEPT ![new] = mainMemory[r.frame]]
            BY <2>2, Zenon DEF Evicts
        <3> HIDE DEF new
        <3> QED
            BY <2>1, <3>1
    <2>3. CASE ~pageTable[thr][VP].dirty
        BY <2>1, <2>3, Zenon DEF Evicts
    <2> QED
        BY <2>2, <2>3, Zenon
<1> HIDE DEF new, pt, Other
<1>5. ASSUME NEW t \in Threads, NEW p \in Pages
      PROVE  Other(t, p) \/ (t = thr /\ p = VP)
    BY Zenon DEF Other
<1>6. ASSUME NEW t \in Threads, NEW p \in Pages, pageTable[t][p].valid
      PROVE  /\ pageTable[t][p].physicalPage \in Frames
             /\ invertedTable[pageTable[t][p].physicalPage] = [thread |-> t, VP |-> p]
    BY <1>6, ZenonT(60) DEF PInv, Owned
<1>7. Owned(pt, invertedTable, mainMemoryMap \ {r.frame})
    <2>1. ASSUME NEW t \in Threads, NEW p \in Pages, pt[t][p].valid
          PROVE  /\ pt[t][p].physicalPage \in Frames \ {r.frame}
                 /\ invertedTable[pt[t][p].physicalPage] = [thread |-> t, VP |-> p]
        <3>1. Other(t, p)
            BY <1>1, <1>5, <2>1, Zenon
        <3>2. pageTable[t][p].valid /\ pageTable[t][p].physicalPage = pt[t][p].physicalPage
            BY <1>2, <2>1, <3>1, Zenon
        <3>3. pageTable[t][p].physicalPage # r.frame
            <4> SUFFICES ASSUME pageTable[t][p].physicalPage = r.frame
                         PROVE  ~Other(t, p)
                BY <3>1, Zenon
            <4>1. invertedTable[r.frame] = [thread |-> t, VP |-> p]
                BY <1>6, <3>2, ZenonT(60)
            <4>2. invertedTable[r.frame].thread = t /\ invertedTable[r.frame].VP = p
                BY <4>1
            <4> QED
                BY <4>2, Zenon DEF Evicts, Other
        <3> QED
            BY <1>6, <3>2, <3>3, Zenon
    <2>2. ASSUME NEW f \in Frames \ {r.frame}
          PROVE  /\ pt[invertedTable[f].thread][invertedTable[f].VP].valid
                 /\ pt[invertedTable[f].thread][invertedTable[f].VP].physicalPage = f
        <3>1. invertedTable[f].thread \in Threads /\ invertedTable[f].VP \in Pages
            BY DEF PInv, TypeOK, Owner
        <3>2. /\ pageTable[invertedTable[f].thread][invertedTable[f].VP].valid
              /\ pageTable[invertedTable[f].thread][invertedTable[f].VP].physicalPage = f
            BY Zenon DEF PInv, Owned
        <3>3. Other(invertedTable[f].thread, invertedTable[f].VP)
            BY <1>3, <3>2, Zenon DEF Other
        <3> QED
            BY <1>2, <3>1, <3>2, <3>3, Zenon
    <2> QED
        BY <2>1, <2>2, ZenonT(60) DEF Owned
<1>8. Swapped(pt, r.SWAPmap)
    <2>1. ASSUME NEW t \in Threads, NEW p \in Pages, InSWAP(pt[t][p]), Other(t, p)
          PROVE  /\ InSWAP(pageTable[t][p])
                 /\ pt[t][p].physicalPage = pageTable[t][p].physicalPage
                 /\ pt[t][p].physicalPage \in SWAPmap
        <3>1. InSWAP(pageTable[t][p]) /\ pt[t][p].physicalPage = pageTable[t][p].physicalPage
            BY <1>2, <2>1, Zenon DEF InSWAP
        <3> QED
            BY <3>1, Zenon DEF PInv, Swapped
    <2>2. InSWAP(pt[thr][VP]) => new \in r.SWAPmap /\ new \notin SWAPmap
        BY <1>1, <1>4, Zenon DEF InSWAP
    <2>3. pt[thr][VP].physicalPage = new
        BY Zenon DEF new, pt
    <2>4. ASSUME NEW t \in Threads, NEW p \in Pages, InSWAP(pt[t][p])
          PROVE  pt[t][p].physicalPage \in r.SWAPmap
        BY <1>4, <1>5, <2>1, <2>2, <2>3, <2>4, ZenonT(60)
    <2>5. ASSUME NEW t \in Threads, NEW p \in Pages, NEW u \in Threads, NEW q \in Pages,
                 InSWAP(pt[t][p]), InSWAP(pt[u][q]),
                 pt[t][p].physicalPage = pt[u][q].physicalPage
          PROVE  t = u /\ p = q
        <3>1. CASE t = thr /\ p = VP
            <4>1. ~Other(u, q)
                BY <2>1, <2>2, <2>3, <2>5, <3>1, Zenon
            <4> QED
                BY <1>5, <3>1, <4>1, Zenon
        <3>2. CASE u = thr /\ q = VP
            <4>1. ~Other(t, p)
                BY <2>1, <2>2, <2>3, <2>5, <3>2, Zenon
            <4> QED
                BY <1>5, <3>2, <4>1, Zenon
        <3>3. CASE Other(t, p) /\ Other(u, q)
            <4>1. /\ InSWAP(pageTable[t][p]) /\ InSWAP(pageTable[u][q])
                  /\ pageTable[t][p].physicalPage = pageTable[u][q].physicalPage
                BY <2>1, <2>5, <3>3, Zenon
            <4>2. Swapped(pageTable, SWAPmap)
                BY Zenon DEF PInv
            <4> QED
                BY <4>1, <4>2, SwappedApart, Zenon
        <3> QED
            BY <1>5, <3>1, <3>2, <3>3, Zenon
    <2> QED
        BY <2>4, <2>5, ZenonT(30) DEF Swapped
<1>9. Cached(pt, currentThread, tlb)
    <2>1. currentThread \in Threads /\ Cached(pageTable, currentThread, tlb)
        BY Zenon DEF PInv, TypeOK
    <2>2. ASSUME NEW i \in Entries, tlb[i].valid
          PROVE  /\ tlb[i].virtualPage \in Pages
                 /\ Other(currentThread, tlb[i].virtualPage)
                 /\ pageTable[currentThread][tlb[i].virtualPage].valid
                 /\ pageTable[currentThread][tlb[i].virtualPage].physicalPage = tlb[i].physicalPage
                 /\ pageTable[currentThread][tlb[i].virtualPage].dirty => tlb[i].dirty
        <3>1. /\ tlb[i].virtualPage \in Pages
              /\ pageTable[currentThread][tlb[i].virtualPage].valid
              /\ pageTable[currentThread][tlb[i].virtualPage].physicalPage = tlb[i].physicalPage
              /\ pageTable[currentThread][tlb[i].virtualPage].dirty => tlb[i].dirty
            BY <2>1, <2>2, Zenon DEF Cached
        <3>2. Other(currentThread, tlb[i].virtualPage)
            BY <1>1, <1>3, <3>1, Zenon DEF Other
        <3> QED
            BY <3>1, <3>2
    <2>3. ASSUME NEW i \in Entries, tlb[i].valid
          PROVE  /\ tlb[i].virtualPage \in Pages
                 /\ pt[currentThread][tlb[i].virtualPage].valid
                 /\ pt[currentThread][tlb[i].virtualPage].physicalPage = tlb[i].physicalPage
                 /\ pt[currentThread][tlb[i].virtualPage].dirty => tlb[i].dirty
        BY <1>2, <2>1, <2>2, <2>3, ZenonT(60)
    <2>4. \A i \in Entries :
             ~tlb[i].valid => tlb[i].virtualPage = -1 /\ tlb[i].physicalPage = -1
        BY <2>1, Zenon DEF Cached
    <2>5. \A i, j \in Entries :
             tlb[i].valid /\ tlb[j].valid /\ tlb[i].virtualPage = tlb[j].virtualPage => i = j
        BY <2>1, Zenon DEF Cached
    <2> QED
        BY <2>3, <2>4, <2>5, Zenon DEF Cached
<1>10. Clean(pt, currentThread, tlb, mainMemory)
    <2> SUFFICES ASSUME NEW t \in Threads, NEW p \in Pages, pt[t][p].valid,
                        ~Changed(pt, currentThread, tlb, t, p)
                 PROVE  mainMemory[pt[t][p].physicalPage] = FromFile(p)
        BY Zenon DEF Clean
    <2>1. Other(t, p)
        BY <1>1, <1>5, Zenon
    <2>2. /\ pageTable[t][p].valid /\ pageTable[t][p].dirty = pt[t][p].dirty
          /\ pageTable[t][p].physicalPage = pt[t][p].physicalPage
        BY <1>2, <2>1, Zenon
    <2>3. ~Changed(pageTable, currentThread, tlb, t, p)
        BY <2>2, Zenon DEF Changed
    <2>4. mainMemory[pageTable[t][p].physicalPage] = FromFile(p)
        BY <2>2, <2>3, Zenon DEF PInv, Clean
    <2> QED
        BY <2>2, <2>4, Zenon
<1>11. \A t \in Threads, p \in Pages :
         ~pageTable[t][p].valid =>
             /\ ~pt[t][p].valid
             /\ pt[t][p].dirty = pageTable[t][p].dirty
             /\ pt[t][p].physicalPage = pageTable[t][p].physicalPage
    BY <1>2, <1>3, Zenon DEF Other
<1>12. Found(pt, mainMemory, r.SWAP, thr, VP) = Found(pageTable, mainMemory, SWAP, thr, VP)
    <2>1. Found(pageTable, mainMemory, SWAP, thr, VP) = mainMemory[r.frame]
        BY <1>3, Zenon DEF Found
    <2>2. CASE pageTable[thr][VP].dirty
        <3>1. Found(pt, mainMemory, r.SWAP, thr, VP) = r.SWAP[new]
            BY <1>1, <2>2, Zenon DEF Found, new, pt
        <3>2. r.SWAP[new] = mainMemory[r.frame]
            BY <1>4, <2>2, Zenon
        <3> QED
            BY <2>1, <3>1, <3>2, Zenon
    <2>3. CASE ~pageTable[thr][VP].dirty
        <3>1. ~Changed(pageTable, currentThread, tlb, thr, VP)
            <4>1. ASSUME NEW i \in Entries, thr = currentThread, tlb[i].valid,
                         tlb[i].virtualPage = VP
                  PROVE  tlb[i].physicalPage = r.frame
                BY <1>3, <4>1, Zenon DEF PInv, Cached
            <4> QED
                BY <1>1, <2>3, <4>1, Zenon DEF Changed
        <3>2. mainMemory[r.frame] = FromFile(VP)
            BY <1>3, <3>1, Zenon DEF PInv, Clean
        <3>3. Found(pt, mainMemory, r.SWAP, thr, VP) = FromFile(VP)
            BY <1>1, <2>3, Zenon DEF Found
        <3> QED
            BY <2>1, <3>2, <3>3, Zenon
    <2> QED
        BY <2>2, <2>3
<1>13. ASSUME NEW t \in Threads, NEW p \in Pages, Other(t, p)
       PROVE  Found(pt, mainMemory, r.SWAP, t, p) = Found(pageTable, mainMemory, SWAP, t, p)
    <2>1. InSWAP(pageTable[t][p]) =>
              r.SWAP[pageTable[t][p].physicalPage] = SWAP[pageTable[t][p].physicalPage]
        BY <1>4, Zenon DEF PInv, Swapped
    <2>2. /\ pt[t][p].valid = pageTable[t][p].valid
          /\ pt[t][p].dirty = pageTable[t][p].dirty
          /\ pt[t][p].physicalPage = pageTable[t][p].physicalPage
        BY <1>2, <1>13, Zenon
    <2> QED
        BY <2>1, <2>2, Zenon DEF Found, InSWAP
<1>14. \A t \in Threads, p \in Pages :
         Found(pt, mainMemory, r.SWAP, t, p) = Found(pageTable, mainMemory, SWAP, t, p)
    BY <1>5, <1>12, <1>13, Zenon
<1> QED
    BY <1>1, <1>4, <1>7, <1>8, <1>9, <1>10, <1>11, <1>14, Zenon DEF Frees, pt

(* replaceMainMemoryFrame evicts such a page, unless it damages something. *)
LEMMA ReplaceFrees ==
    ASSUME PInv, mainMemoryMap = Frames, replaceMainMemoryFrame.damage = {}
    PROVE  Frees(replaceMainMemoryFrame)
<1> DEFINE r == replaceMainMemoryFrame
           Used(f) == pageTable[invertedTable[f].thread][invertedTable[f].VP].use
           stops == {k \in 0..NumPhysPages :
                        k = NumPhysPages \/ ~Used((mainMemoryIterator + k) % NumPhysPages)}
           passed == Min(stops)
           frame == (mainMemoryIterator + passed) % NumPhysPages
           thr == invertedTable[frame].thread
           VP == invertedTable[frame].VP
           swept == {invertedTable[(mainMemoryIterator + k) % NumPhysPages] :
                        k \in 0..(passed - 1)}
           dirty == Dirty(pageTable[thr][VP], frame)
           stored == IF dirty THEN storeInSWAP ELSE -1
           evicted == [physicalPage |-> stored, valid |-> FALSE, use |-> FALSE,
                       dirty |-> dirty]
           pt == [t \in Threads |-> [p \in Pages |->
                     IF t = thr /\ p = VP THEN evicted
                     ELSE IF [thread |-> t, VP |-> p] \in swept
                     THEN [pageTable[t][p] EXCEPT !.use = FALSE]
                     ELSE pageTable[t][p]]]
<1>1. /\ r.frame = frame
      /\ r.pageTable = pt
      /\ r.SWAPmap = IF dirty THEN SWAPmap \cup {storeInSWAP} ELSE SWAPmap
      /\ r.SWAP = IF dirty /\ storeInSWAP >= 0
                  THEN [SWAP EXCEPT ![storeInSWAP] = mainMemory[frame]] ELSE SWAP
      /\ r.mainMemoryIterator = (frame + 1) % NumPhysPages
      /\ r.damage = (IF \E i \in Entries : tlb[i].physicalPage = frame
                     THEN {"stale TLB entry"} ELSE {})
                    \cup IF dirty /\ storeInSWAP = -1 THEN {"abort"} ELSE {}
    BY Zenon DEF replaceMainMemoryFrame, Passed
<1>2. frame \in Frames
    <2>1. stops \in SUBSET Nat /\ NumPhysPages \in stops
        BY Sizes
    <2>2. passed \in stops
        BY <2>1, MinOf, Zenon
    <2>3. passed \in Nat /\ mainMemoryIterator \in Nat
        BY <2>1, <2>2, Sizes, Zenon DEF PInv, TypeOK
    <2> HIDE DEF passed
    <2> QED
        BY <2>3, Sizes, Around DEF Frames
<1> HIDE DEF stops, passed, frame, swept
<1>3. (frame + 1) % NumPhysPages \in Frames
    BY <1>2, Sizes, Around DEF Frames
<1>4. thr \in Threads /\ VP \in Pages
    BY <1>2 DEF PInv, TypeOK, Owner
<1> HIDE DEF thr, VP
<1>5. \A i \in Entries : tlb[i].physicalPage # frame
    <2> SUFFICES ASSUME NEW i \in Entries, tlb[i].physicalPage = frame
                 PROVE  "stale TLB entry" \in r.damage
        BY Zenon
    <2> QED
        BY <1>1, Zenon
<1>6. dirty = pageTable[thr][VP].dirty
    BY <1>5, Zenon DEF Dirty
<1>7. pageTable \in PageTables /\ pageTable[thr][VP].dirty \in BOOLEAN
    BY <1>4 DEF PInv, TypeOK, PageTables, PageEntry
<1>8. dirty => storeInSWAP \in SWAPFrames \ SWAPmap /\ storeInSWAP >= 0
    <2> SUFFICES ASSUME dirty
                 PROVE  storeInSWAP \in SWAPFrames \ SWAPmap /\ storeInSWAP >= 0
        OBVIOUS
    <2>1. storeInSWAP # -1
        <3> SUFFICES ASSUME storeInSWAP = -1
                     PROVE  "abort" \in r.damage
            BY Zenon
        <3> QED
            BY <1>1, Zenon
    <2>2. storeInSWAP \in SWAPFrames \ SWAPmap
        BY <2>1, FindClear, Sizes, Zenon DEF storeInSWAP
    <2> QED
        BY <2>2, Sizes
<1> HIDE DEF dirty
<1>9. /\ pt[thr][VP] = evicted
      /\ \A t \in Threads, p \in Pages : ~(t = thr /\ p = VP) =>
            \/ pt[t][p] = pageTable[t][p]
            \/ pt[t][p] = [pageTable[t][p] EXCEPT !.use = FALSE]
      /\ pt = [t \in Threads |-> [p \in Pages |-> pt[t][p]]]
    BY <1>4, Zenon
<1>10. /\ evicted \in PageEntry
       /\ ~evicted.valid /\ evicted.dirty = dirty
       /\ dirty => evicted.physicalPage = storeInSWAP
    <2>1. stored \in Int /\ (dirty => stored = storeInSWAP)
        <3>1. CASE dirty
            <4>1. SWAPFrames \subseteq Int
                BY Sizes
            <4>2. storeInSWAP \in Int
                BY <1>8, <3>1, <4>1, Zenon
            <4> QED
                BY <3>1, <4>2, Zenon
        <3>2. CASE ~dirty
            <4>1. -1 \in Int
                OBVIOUS
            <4> QED
                BY <3>2, <4>1, Zenon
        <3> QED
            BY <3>1, <3>2, Zenon
    <2>2. dirty \in BOOLEAN
        BY <1>6, <1>7, Zenon
    <2>3. \A f \in Int, d \in BOOLEAN :
              [physicalPage |-> f, valid |-> FALSE, use |-> FALSE, dirty |-> d] \in PageEntry
        BY DEF PageEntry
    <2> HIDE DEF stored
    <2> QED
        BY <2>1, <2>2, <2>3, Zenon
<1> HIDE DEF pt, evicted
<1>11. ASSUME NEW t \in Threads, NEW p \in Pages, ~(t = thr /\ p = VP)
       PROVE  /\ pt[t][p] \in PageEntry
              /\ pt[t][p].valid = pageTable[t][p].valid
              /\ pt[t][p].dirty = pageTable[t][p].dirty
              /\ pt[t][p].physicalPage = pageTable[t][p].physicalPage
    <2>1. pageTable[t][p] \in PageEntry
        BY <1>7 DEF PageTables
    <2>2. CASE pt[t][p] = pageTable[t][p]
        BY <2>1, <2>2
    <2>3. CASE pt[t][p] = [pageTable[t][p] EXCEPT !.use = FALSE]
        BY <2>1, <2>3, Zenon DEF PageEntry
    <2> QED
        BY <1>9, <1>11, <2>2, <2>3
<1>12. pt \in PageTables
    <2>1. \A t \in Threads, p \in Pages : pt[t][p] \in PageEntry
        BY <1>9, <1>10, <1>11
    <2> QED
        BY <1>9, <2>1, ZenonT(40) DEF PageTables
<1>13. invertedTable[frame].thread = thr /\ invertedTable[frame].VP = VP
    BY Zenon DEF thr, VP
<1> HIDE DEF r
<1>14. \/ /\ pageTable[thr][VP].dirty
          /\ r.pageTable[thr][VP].physicalPage \in SWAPFrames \ SWAPmap
          /\ r.SWAPmap = SWAPmap \cup {r.pageTable[thr][VP].physicalPage}
          /\ r.SWAP = [SWAP EXCEPT ![r.pageTable[thr][VP].physicalPage] = mainMemory[r.frame]]
       \/ /\ ~pageTable[thr][VP].dirty
          /\ r.SWAPmap = SWAPmap
          /\ r.SWAP = SWAP
    <2>1. CASE dirty
        BY <1>1, <1>6, <1>8, <1>9, <1>10, <2>1, Zenon
    <2>2. CASE ~dirty
        BY <1>1, <1>6, <2>2, Zenon
    <2> QED
        BY <2>1, <2>2, Zenon
<1>15. /\ r.frame \in Frames /\ r.pageTable \in PageTables /\ r.mainMemoryIterator \in Frames
       /\ invertedTable[r.frame].thread = thr /\ invertedTable[r.frame].VP = VP
       /\ \A i \in Entries : tlb[i].physicalPage # r.frame
       /\ ~r.pageTable[thr][VP].valid
       /\ r.pageTable[thr][VP].dirty = pageTable[thr][VP].dirty
    BY <1>1, <1>2, <1>3, <1>5, <1>6, <1>9, <1>10, <1>12, <1>13, Zenon
<1>16. \A t \in Threads, p \in Pages : ~(t = thr /\ p = VP) =>
           /\ r.pageTable[t][p].valid = pageTable[t][p].valid
           /\ r.pageTable[t][p].dirty = pageTable[t][p].dirty
           /\ r.pageTable[t][p].physicalPage = pageTable[t][p].physicalPage
    BY <1>1, <1>11, Zenon
<1>17. Evicts(r, thr, VP)
    BY <1>14, <1>15, <1>16, Zenon DEF Evicts
<1>18. Frees(r)
    BY <1>4, <1>17, EvictedFrees, Zenon
<1> QED
    BY <1>18, Zenon DEF r

(* The page tables, the inverted table, the SWAP's map and the memory once *)
(* page vpn of the current thread is in frame r.frame.                     *)
Loads(r, vpn, loaded, inverted, smap, memory) ==
    LET entry == pageTable[currentThread][vpn]
        read == IF entry.dirty THEN readFromSWAP(r.SWAP, r.SWAPmap, entry.physicalPage)
                ELSE [page |-> FromFile(vpn), SWAPmap |-> r.SWAPmap]
    IN  /\ loaded = [r.pageTable EXCEPT ![currentThread][vpn].physicalPage = r.frame,
                                        ![currentThread][vpn].valid = TRUE]
        /\ inverted = InvertedTableWith(r.frame, vpn)
        /\ memory = [mainMemory EXCEPT ![r.frame] = read.page]
        /\ smap = read.SWAPmap \ {-1}

(* With the page there the tables agree, and everybody finds the same.     *)
Loaded(r, vpn, loaded, inverted, smap, memory) ==
    /\ loaded \in PageTables
    /\ loaded[currentThread][vpn].valid
    /\ inverted \in [Frames -> Owner]
    /\ memory \in [Frames -> Contents]
    /\ smap \subseteq SWAPFrames
    /\ Owned(loaded, inverted, mainMemoryMap \cup {r.frame})
    /\ Swapped(loaded, smap)
    /\ Cached(loaded, currentThread, tlb)
    /\ Clean(loaded, currentThread, tlb, memory)
    /\ \A t \in Threads, p \in Pages :
          Found(loaded, memory, r.SWAP, t, p) = Found(pageTable, mainMemory, SWAP, t, p)

(* The handler then brings the page that faulted into the frame: from the  *)
(* SWAP if that is where it is, and from the program's file otherwise.     *)
LEMMA LoadKeeps ==
    ASSUME PInv, NEW r, Frees(r), NEW vpn \in Pages,
           Hits(vpn) = {}, ~pageTable[currentThread][vpn].valid,
           NEW loaded, NEW inverted, NEW smap, NEW memory,
           Loads(r, vpn, loaded, inverted, smap, memory)
    PROVE  Loaded(r, vpn, loaded, inverted, smap, memory)
<1> DEFINE map == mainMemoryMap \ {r.frame}
           entry == r.pageTable[currentThread][vpn]
           page == IF entry.dirty THEN r.SWAP[entry.physicalPage] ELSE FromFile(vpn)
<1>1. currentThread \in Threads /\ r.frame \in Frames /\ r.pageTable \in PageTables
    BY Zenon DEF PInv, TypeOK, Frees
<1>2. /\ ~entry.valid
      /\ entry.dirty = pageTable[currentThread][vpn].dirty
      /\ entry.physicalPage = pageTable[currentThread][vpn].physicalPage
    BY <1>1, Zenon DEF Frees
<1>3. memory = [mainMemory EXCEPT ![r.frame] = page]
    BY <1>2, Zenon DEF Loads, readFromSWAP
<1>4. smap = (IF entry.dirty THEN r.SWAPmap \ {entry.physicalPage} ELSE r.SWAPmap) \ {-1}
    BY <1>2, Zenon DEF Loads, readFromSWAP
<1>5. /\ loaded \in PageTables
      /\ loaded[currentThread][vpn].valid
      /\ loaded[currentThread][vpn].physicalPage = r.frame
      /\ loaded[currentThread][vpn].dirty = entry.dirty
      /\ \A t \in Threads, p \in Pages :
            ~(t = currentThread /\ p = vpn) => loaded[t][p] = r.pageTable[t][p]
    <2> DEFINE new == [[entry EXCEPT !.physicalPage = r.frame] EXCEPT !.valid = TRUE]
    <2>1. entry \in PageEntry /\ r.frame \in Int
        <3>1. entry \in PageEntry
            BY <1>1, Zenon DEF PageTables
        <3>2. r.frame \in Nat
            BY <1>1, Sizes, Zenon
        <3> QED
            BY <3>1, <3>2
    <2>2. /\ new \in PageEntry /\ new.valid /\ new.physicalPage = r.frame
          /\ new.dirty = entry.dirty
        BY <2>1, Zenon DEF PageEntry
    <2>3. loaded = [r.pageTable EXCEPT ![currentThread][vpn] = new]
        BY <1>1, Zenon DEF Loads, PageTables, PageEntry
    <2> HIDE DEF new, entry
    <2>4. loaded[currentThread][vpn] = new
        BY <1>1, <2>3, Zenon DEF PageTables
    <2>5. \A t \in Threads, p \in Pages :
             ~(t = currentThread /\ p = vpn) => loaded[t][p] = r.pageTable[t][p]
        BY <1>1, <2>3 DEF PageTables
    <2>6. loaded \in PageTables
        <3>1. [r.pageTable[currentThread] EXCEPT ![vpn] = new] \in [Pages -> PageEntry]
            BY <1>1, <2>2 DEF PageTables
        <3>2. loaded = [r.pageTable EXCEPT ![currentThread] =
                           [r.pageTable[currentThread] EXCEPT ![vpn] = new]]
            BY <2>3, Zenon
        <3> QED
            BY <1>1, <3>1, <3>2, Zenon DEF PageTables
    <2> QED
        BY <2>2, <2>4, <2>5, <2>6, Zenon
<1>6. /\ inverted \in [Frames -> Owner]
      /\ inverted[r.frame] = [thread |-> currentThread, VP |-> vpn]
      /\ \A f \in map : f # r.frame /\ inverted[f] = invertedTable[f]
    BY <1>1 DEF Loads, InvertedTableWith, PInv, TypeOK, Owner
<1>7. InSWAP(entry) <=> entry.dirty
    BY <1>2 DEF InSWAP
<1>8. page \in Contents
    <2>1. CASE entry.dirty
        BY <1>1, <1>7, <2>1, Zenon DEF Frees, Swapped
    <2>2. CASE ~entry.dirty
        BY <2>2 DEF FromFile, Contents
    <2> QED
        BY <2>1, <2>2, Zenon
<1> HIDE DEF page
<1>9. /\ memory \in [Frames -> Contents]
      /\ memory[r.frame] = page
      /\ \A f \in map : memory[f] = mainMemory[f]
    BY <1>1, <1>3, <1>8 DEF PInv, TypeOK
<1>10. smap \subseteq SWAPFrames
    BY <1>4, Zenon DEF Frees
<1>11. \A t \in Threads, p \in Pages :
          r.pageTable[t][p].valid => /\ r.pageTable[t][p].physicalPage \in map
                                     /\ invertedTable[r.pageTable[t][p].physicalPage]
                                           = [thread |-> t, VP |-> p]
    BY Zenon DEF Frees, Owned
<1>12. Owned(loaded, inverted, mainMemoryMap \cup {r.frame})
    <2>1. ASSUME NEW t \in Threads, NEW p \in Pages, loaded[t][p].valid
          PROVE  /\ loaded[t][p].physicalPage \in mainMemoryMap \cup {r.frame}
                 /\ inverted[loaded[t][p].physicalPage] = [thread |-> t, VP |-> p]
        <3>1. CASE t = currentThread /\ p = vpn
            BY <1>5, <1>6, <3>1, Zenon
        <3>2. CASE ~(t = currentThread /\ p = vpn)
            <4>1. loaded[t][p] = r.pageTable[t][p]
                BY <1>5, <3>2, Zenon
            <4> QED
                BY <1>6, <1>11, <2>1, <4>1
        <3> QED
            BY <3>1, <3>2, Zenon
    <2>2. ASSUME NEW f \in mainMemoryMap \cup {r.frame}
          PROVE  /\ loaded[inverted[f].thread][inverted[f].VP].valid
                 /\ loaded[inverted[f].thread][inverted[f].VP].physicalPage = f
        <3>1. CASE f = r.frame
            <4>1. inverted[f].thread = currentThread /\ inverted[f].VP = vpn
                BY <1>6, <3>1
            <4> QED
                BY <1>5, <3>1, <4>1, Zenon
        <3>2. CASE f # r.frame
            <4> DEFINE t == invertedTable[f].thread
                       p == invertedTable[f].VP
            <4>1. f \in map /\ f \in Frames
                BY <3>2 DEF PInv, TypeOK
            <4>2. t \in Threads /\ p \in Pages
                BY <4>1 DEF PInv, TypeOK, Owner
            <4>3. r.pageTable[t][p].valid /\ r.pageTable[t][p].physicalPage = f
                BY <4>1, Zenon DEF Frees, Owned
            <4>4. ~(t = currentThread /\ p = vpn)
                BY <1>2, <4>3, Zenon
            <4>5. inverted[f].thread = t /\ inverted[f].VP = p
                BY <1>6, <4>1, Zenon
            <4> HIDE DEF t, p
            <4>6. loaded[t][p] = r.pageTable[t][p]
                BY <1>5, <4>2, <4>4, Zenon
            <4> QED
                BY <4>3, <4>5, <4>6, Zenon
        <3> QED
            BY <3>1, <3>2, Zenon
    <2> QED
        BY <2>1, <2>2, Zenon DEF Owned
<1>13. Swapped(loaded, smap)
    <2>1. ASSUME NEW t \in Threads, NEW p \in Pages, InSWAP(loaded[t][p])
          PROVE  /\ loaded[t][p] = r.pageTable[t][p]
                 /\ ~(t = currentThread /\ p = vpn)
        BY <1>5, <2>1 DEF InSWAP
    <2>2. ASSUME NEW t \in Threads, NEW p \in Pages, InSWAP(loaded[t][p])
          PROVE  loaded[t][p].physicalPage \in smap
        <3>1. /\ InSWAP(r.pageTable[t][p]) /\ ~(t = currentThread /\ p = vpn)
              /\ loaded[t][p].physicalPage = r.pageTable[t][p].physicalPage
            BY <2>1, <2>2, Zenon
        <3>2. r.pageTable[t][p].physicalPage \in r.SWAPmap
            BY <3>1, Zenon DEF Frees, Swapped
        <3>3. r.pageTable[t][p].physicalPage # -1
            BY <3>2, Sizes DEF Frees
        <3>4. entry.dirty => r.pageTable[t][p].physicalPage # entry.physicalPage
            BY <1>1, <1>7, <3>1, Zenon DEF Frees, Swapped
        <3> QED
            BY <1>4, <3>1, <3>2, <3>3, <3>4, Zenon
    <2>3. ASSUME NEW t \in Threads, NEW p \in Pages, NEW u \in Threads, NEW q \in Pages,
                 InSWAP(loaded[t][p]), InSWAP(loaded[u][q]),
                 loaded[t][p].physicalPage = loaded[u][q].physicalPage
          PROVE  t = u /\ p = q
        <3>1. loaded[t][p] = r.pageTable[t][p] /\ loaded[u][q] = r.pageTable[u][q]
            BY <2>1, <2>3
        <3>2. InSWAP(r.pageTable[t][p]) /\ InSWAP(r.pageTable[u][q])
              /\ r.pageTable[t][p].physicalPage = r.pageTable[u][q].physicalPage
            BY <2>3, <3>1, Zenon
        <3>3. Swapped(r.pageTable, r.SWAPmap)
            BY Zenon DEF Frees
        <3> QED
            BY <3>2, <3>3, SwappedApart, Zenon
    <2> QED
        BY <2>2, <2>3 DEF Swapped
<1>14. Cached(loaded, currentThread, tlb)
    <2>1. \A i \in Entries : tlb[i].valid => tlb[i].virtualPage # vpn
        BY Zenon DEF Hits
    <2>2. Cached(r.pageTable, currentThread, tlb)
        BY Zenon DEF Frees
    <2>3. \A i \in Entries : tlb[i].valid /\ tlb[i].virtualPage \in Pages =>
             loaded[currentThread][tlb[i].virtualPage]
               = r.pageTable[currentThread][tlb[i].virtualPage]
        BY <1>1, <1>5, <2>1, Zenon
    <2> QED
        BY <2>2, <2>3, Zenon DEF Cached
<1>15. Clean(loaded, currentThread, tlb, memory)
    <2> SUFFICES ASSUME NEW t \in Threads, NEW p \in Pages, loaded[t][p].valid,
                        ~Changed(loaded, currentThread, tlb, t, p)
                 PROVE  memory[loaded[t][p].physicalPage] = FromFile(p)
        BY Zenon DEF Clean
    <2>1. CASE t = currentThread /\ p = vpn
        <3>1. ~entry.dirty
            BY <1>5, <2>1, Zenon DEF Changed
        <3>2. page = FromFile(vpn)
            BY <3>1, Zenon DEF page
        <3> QED
            BY <1>5, <1>9, <2>1, <3>2, Zenon
    <2>2. CASE ~(t = currentThread /\ p = vpn)
        <3>1. loaded[t][p] = r.pageTable[t][p]
            BY <1>5, <2>2, Zenon
        <3>2. ~Changed(r.pageTable, currentThread, tlb, t, p)
            BY <3>1, Zenon DEF Changed
        <3>3. mainMemory[r.pageTable[t][p].physicalPage] = FromFile(p)
            BY <3>1, <3>2, ZenonT(60) DEF Frees, Clean
        <3> QED
            BY <1>9, <1>11, <3>1, <3>3, ZenonT(60)
    <2> QED
        BY <2>1, <2>2
<1>16. ASSUME NEW t \in Threads, NEW p \in Pages
       PROVE  Found(loaded, memory, r.SWAP, t, p) = Found(r.pageTable, mainMemory, r.SWAP, t, p)
    <2>1. CASE t = currentThread /\ p = vpn
        <3>1. Found(loaded, memory, r.SWAP, currentThread, vpn) = page
            BY <1>5, <1>9, Zenon DEF Found
        <3>2. Found(r.pageTable, mainMemory, r.SWAP, currentThread, vpn) = page
            BY <1>2, Zenon DEF Found, page
        <3> QED
            BY <2>1, <3>1, <3>2, Zenon
    <2>2. CASE ~(t = currentThread /\ p = vpn)
        <3>1. loaded[t][p] = r.pageTable[t][p]
            BY <1>5, <2>2, Zenon
        <3> QED
            BY <1>9, <1>11, <3>1, ZenonT(60) DEF Found
    <2> QED
        BY <2>1, <2>2
<1>17. \A t \in Threads, p \in Pages :
          Found(loaded, memory, r.SWAP, t, p) = Found(pageTable, mainMemory, SWAP, t, p)
    BY <1>16, Zenon DEF Frees
<1> QED
    BY <1>5, <1>6, <1>9, <1>10, <1>12, <1>13, <1>14, <1>15, <1>17, Zenon DEF Loaded

-----------------------------------------------------------------------------
(* What the processes find in their pages.                                 *)
found == [t \in Threads |-> [p \in Pages |-> Found(pageTable, mainMemory, SWAP, t, p)]]

(* With the invariant it is what the accesses to memory see.               *)
LEMMA SeenFound == PInv => seen = found
BY SeenIsFound, Zenon DEF seen, found

(* Translate uses a TLB entry of the page, and changes no more than use    *)
(* bits and, for a store, the dirty bit of the entry.                      *)
Translated(vpn, writing, hit) ==
    /\ hit \in Entries /\ tlb[hit].valid /\ tlb[hit].virtualPage = vpn
    /\ tlb' \in [Entries -> TLBEntry]
    /\ pageTable' \in PageTables
    /\ \A t \in Threads, p \in Pages :
          /\ pageTable'[t][p].valid = pageTable[t][p].valid
          /\ pageTable'[t][p].dirty = pageTable[t][p].dirty
          /\ pageTable'[t][p].physicalPage = pageTable[t][p].physicalPage
    /\ \A i \in Entries :
          /\ tlb'[i].valid = tlb[i].valid
          /\ tlb'[i].virtualPage = tlb[i].virtualPage
          /\ tlb'[i].physicalPage = tlb[i].physicalPage
          /\ tlb'[i].dirty = (tlb[i].dirty \/ (i = hit /\ writing))

(* Machine::Translate on a hit, with the invariant.                        *)
LEMMA TranslateKeeps ==
    ASSUME PInv, NEW vpn \in Pages, NEW writing \in BOOLEAN,
           Hits(vpn) # {}, Translate(vpn, writing), NEW hit, hit = Min(Hits(vpn))
    PROVE  Translated(vpn, writing, hit)
<1>1. hit \in Entries /\ tlb[hit].valid /\ tlb[hit].virtualPage = vpn
    BY HitFound
<1>2. /\ tlb \in [Entries -> TLBEntry] /\ pageTable \in PageTables
      /\ currentThread \in Threads
    BY Zenon DEF PInv, TypeOK
<1>3. /\ tlb' = [tlb EXCEPT ![hit].use = TRUE, ![hit].dirty = @ \/ writing]
      /\ pageTable' = [pageTable EXCEPT ![currentThread][vpn].use = TRUE]
    BY Zenon DEF Translate
<1> DEFINE entry == [tlb[hit] EXCEPT !.use = TRUE, !.dirty = tlb[hit].dirty \/ writing]
           page == [pageTable[currentThread][vpn] EXCEPT !.use = TRUE]
<1>4. /\ entry \in TLBEntry
      /\ entry.valid = tlb[hit].valid /\ entry.virtualPage = tlb[hit].virtualPage
      /\ entry.physicalPage = tlb[hit].physicalPage
      /\ entry.dirty = (tlb[hit].dirty \/ writing)
    <2>1. tlb[hit] \in TLBEntry
        BY <1>1, <1>2, Zenon
    <2> QED
        BY <2>1, Zenon DEF TLBEntry
<1>5. /\ page \in PageEntry
      /\ page.valid = pageTable[currentThread][vpn].valid
      /\ page.dirty = pageTable[currentThread][vpn].dirty
      /\ page.physicalPage = pageTable[currentThread][vpn].physicalPage
    <2>1. pageTable[currentThread][vpn] \in PageEntry
        BY <1>2, Zenon DEF PageTables
    <2> QED
        BY <2>1, Zenon DEF PageEntry
<1>6. tlb' = [tlb EXCEPT ![hit] = entry]
    BY <1>1, <1>2, <1>3, Zenon DEF TLBEntry
<1>7. pageTable' = [pageTable EXCEPT ![currentThread] =
                       [pageTable[currentThread] EXCEPT ![vpn] = page]]
    BY <1>3, Zenon
<1> HIDE DEF entry, page
<1>8. [pageTable[currentThread] EXCEPT ![vpn] = page] \in [Pages -> PageEntry]
    BY <1>2, <1>5, Zenon DEF PageTables
<1>9. /\ pageTable' \in PageTables
      /\ pageTable'[currentThread][vpn] = page
      /\ \A t \in Threads, p \in Pages :
            ~(t = currentThread /\ p = vpn) => pageTable'[t][p] = pageTable[t][p]
    BY <1>2, <1>7, <1>8, Zenon DEF PageTables
<1>10. /\ tlb' \in [Entries -> TLBEntry]
       /\ tlb'[hit] = entry
       /\ \A i \in Entries : i # hit => tlb'[i] = tlb[i]
    BY <1>1, <1>2, <1>4, <1>6, Zenon
<1>11. \A i \in Entries : i # hit => tlb'[i].dirty = (tlb[i].dirty \/ (i = hit /\ writing))
    <2>1. \A i \in Entries : tlb[i].dirty \in BOOLEAN
        BY <1>2 DEF TLBEntry
    <2> QED
        BY <1>10, <2>1, Zenon
<1>12. \A t \in Threads, p \in Pages :
          /\ pageTable'[t][p].valid = pageTable[t][p].valid
          /\ pageTable'[t][p].dirty = pageTable[t][p].dirty
          /\ pageTable'[t][p].physicalPage = pageTable[t][p].physicalPage
    BY <1>5, <1>9, Zenon
<1>13. \A i \in Entries :
          /\ tlb'[i].valid = tlb[i].valid
          /\ tlb'[i].virtualPage = tlb[i].virtualPage
          /\ tlb'[i].physicalPage = tlb[i].physicalPage
          /\ tlb'[i].dirty = (tlb[i].dirty \/ (i = hit /\ writing))
    BY <1>4, <1>10, <1>11, Zenon
<1> QED
    BY <1>1, <1>9, <1>10, <1>12, <1>13, Zenon DEF Translated

(* Page tables that agree, but for use bits and for the dirty bits of      *)
(* pages in memory.                                                        *)
Same(pt, qt) ==
    \A t \in Threads, p \in Pages :
        /\ qt[t][p].valid = pt[t][p].valid
        /\ InSWAP(qt[t][p]) <=> InSWAP(pt[t][p])
        /\ qt[t][p].physicalPage = pt[t][p].physicalPage

(* They place the pages where the others do.                               *)
LEMMA SamePages ==
    ASSUME NEW pt, NEW qt, NEW inverted \in [Frames -> Owner], NEW map \in SUBSET Frames,
           NEW smap, Owned(pt, inverted, map), Swapped(pt, smap), Same(pt, qt)
    PROVE  /\ Owned(qt, inverted, map) /\ Swapped(qt, smap)
           /\ \A memory, swap : \A t \in Threads, p \in Pages :
                 Found(qt, memory, swap, t, p) = Found(pt, memory, swap, t, p)
<1>1. ASSUME NEW t \in Threads, NEW p \in Pages
      PROVE  /\ qt[t][p].valid = pt[t][p].valid
             /\ InSWAP(qt[t][p]) <=> InSWAP(pt[t][p])
             /\ qt[t][p].physicalPage = pt[t][p].physicalPage
    BY Zenon DEF Same
<1>2. Owned(qt, inverted, map)
    <2>1. ASSUME NEW t \in Threads, NEW p \in Pages, qt[t][p].valid
          PROVE  /\ qt[t][p].physicalPage \in map
                 /\ inverted[qt[t][p].physicalPage] = [thread |-> t, VP |-> p]
        <3>1. pt[t][p].valid /\ qt[t][p].physicalPage = pt[t][p].physicalPage
            BY <1>1, <2>1, Zenon
        <3>2. /\ pt[t][p].physicalPage \in map
              /\ inverted[pt[t][p].physicalPage] = [thread |-> t, VP |-> p]
            BY <3>1, Zenon DEF Owned
        <3> QED
            BY <3>1, <3>2, Zenon
    <2>2. ASSUME NEW f \in map
          PROVE  /\ qt[inverted[f].thread][inverted[f].VP].valid
                 /\ qt[inverted[f].thread][inverted[f].VP].physicalPage = f
        <3>1. inverted[f].thread \in Threads /\ inverted[f].VP \in Pages
            BY DEF Owner
        <3>2. /\ pt[inverted[f].thread][inverted[f].VP].valid
              /\ pt[inverted[f].thread][inverted[f].VP].physicalPage = f
            BY Zenon DEF Owned
        <3> QED
            BY <1>1, <3>1, <3>2, Zenon
    <2> QED
        BY <2>1, <2>2, Zenon DEF Owned
<1>3. Swapped(qt, smap)
    <2>1. ASSUME NEW t \in Threads, NEW p \in Pages, InSWAP(qt[t][p])
          PROVE  qt[t][p].physicalPage \in smap
        BY <1>1, <2>1, Zenon DEF Swapped
    <2>2. ASSUME NEW t \in Threads, NEW p \in Pages, NEW u \in Threads, NEW q \in Pages,
                 InSWAP(qt[t][p]), InSWAP(qt[u][q]),
                 qt[t][p].physicalPage = qt[u][q].physicalPage
          PROVE  t = u /\ p = q
        <3>1. /\ InSWAP(pt[t][p]) /\ InSWAP(pt[u][q])
              /\ pt[t][p].physicalPage = pt[u][q].physicalPage
            BY <1>1, <2>2, Zenon
        <3> QED
            BY <3>1, SwappedApart, Zenon
    <2> QED
        BY <2>1, <2>2, ZenonT(30) DEF Swapped
<1>4. ASSUME NEW memory, NEW swap, NEW t \in Threads, NEW p \in Pages
      PROVE  Found(qt, memory, swap, t, p) = Found(pt, memory, swap, t, p)
    <2>1. CASE pt[t][p].valid
        BY <1>1, <2>1, Zenon DEF Found
    <2>2. CASE ~pt[t][p].valid
        BY <1>1, <2>2, Zenon DEF Found, InSWAP
    <2> QED
        BY <2>1, <2>2
<1> QED
    BY <1>2, <1>3, <1>4, Zenon

(* The TLB still agrees with the page table after Translate.               *)
LEMMA TranslatedCached ==
    ASSUME PInv,
           \A t \in Threads, p \in Pages :
               /\ pageTable'[t][p].valid = pageTable[t][p].valid
               /\ pageTable'[t][p].dirty = pageTable[t][p].dirty
               /\ pageTable'[t][p].physicalPage = pageTable[t][p].physicalPage,
           \A i \in Entries :
               /\ tlb'[i].valid = tlb[i].valid
               /\ tlb'[i].virtualPage = tlb[i].virtualPage
               /\ tlb'[i].physicalPage = tlb[i].physicalPage,
           \A i \in Entries : tlb[i].dirty => tlb'[i].dirty
    PROVE  Cached(pageTable', currentThread, tlb')
<1>1. Cached(pageTable, currentThread, tlb) /\ currentThread \in Threads
    BY Zenon DEF PInv, TypeOK
<1>2. \A i \in Entries :
         \/ /\ ~tlb'[i].valid /\ tlb'[i].virtualPage = -1 /\ tlb'[i].physicalPage = -1
         \/ /\ tlb'[i].valid
            /\ tlb'[i].virtualPage \in Pages
            /\ pageTable'[currentThread][tlb'[i].virtualPage].valid
            /\ pageTable'[currentThread][tlb'[i].virtualPage].physicalPage = tlb'[i].physicalPage
            /\ pageTable'[currentThread][tlb'[i].virtualPage].dirty => tlb'[i].dirty
    <2> SUFFICES ASSUME NEW i \in Entries
                 PROVE  \/ /\ ~tlb'[i].valid /\ tlb'[i].virtualPage = -1
                           /\ tlb'[i].physicalPage = -1
                        \/ /\ tlb'[i].valid
                           /\ tlb'[i].virtualPage \in Pages
                           /\ pageTable'[currentThread][tlb'[i].virtualPage].valid
                           /\ pageTable'[currentThread][tlb'[i].virtualPage].physicalPage
                                 = tlb'[i].physicalPage
                           /\ pageTable'[currentThread][tlb'[i].virtualPage].dirty
                                 => tlb'[i].dirty
        BY Zenon
    <2>1. /\ tlb'[i].valid = tlb[i].valid /\ tlb'[i].virtualPage = tlb[i].virtualPage
          /\ tlb'[i].physicalPage = tlb[i].physicalPage /\ (tlb[i].dirty => tlb'[i].dirty)
        BY Zenon
    <2>2. CASE ~tlb[i].valid
        BY <1>1, <2>1, <2>2, Zenon DEF Cached
    <2>3. CASE tlb[i].valid
        <3>1. /\ tlb[i].virtualPage \in Pages
              /\ pageTable[currentThread][tlb[i].virtualPage].valid
              /\ pageTable[currentThread][tlb[i].virtualPage].physicalPage = tlb[i].physicalPage
              /\ pageTable[currentThread][tlb[i].virtualPage].dirty => tlb[i].dirty
            BY <1>1, <2>3, Zenon DEF Cached
        <3> DEFINE q == tlb[i].virtualPage
        <3>2. /\ pageTable'[currentThread][q].valid = pageTable[currentThread][q].valid
              /\ pageTable'[currentThread][q].dirty = pageTable[currentThread][q].dirty
              /\ pageTable'[currentThread][q].physicalPage = pageTable[currentThread][q].physicalPage
            BY <1>1, <3>1, Zenon
        <3> QED
            BY <2>1, <2>3, <3>1, <3>2, Zenon
    <2> QED
        BY <2>2, <2>3, Zenon
<1>3. \A i, j \in Entries :
         tlb'[i].valid /\ tlb'[j].valid /\ tlb'[i].virtualPage = tlb'[j].virtualPage => i = j
    BY <1>1 DEF Cached
<1> QED
    BY <1>2, <1>3, Zenon DEF Cached

(* A load changes nothing in anybody's pages.                              *)
LEMMA ReadMemKeeps ==
    ASSUME PInv, NEW vpn \in Pages, ReadMem(vpn)
    PROVE  PInv' /\ found' = found
<1> DEFINE hit == Min(Hits(vpn))
<1>1. /\ Hits(vpn) # {} /\ Translate(vpn, FALSE)
      /\ UNCHANGED <<currentThread, ended, tlbIterator, mainMemoryIterator, invertedTable,
                     mainMemoryMap, mainMemory, SWAPmap, SWAP, damage>>
    BY Zenon DEF ReadMem
<1>2. /\ tlb' \in [Entries -> TLBEntry]
      /\ pageTable' \in PageTables
      /\ \A t \in Threads, p \in Pages :
            /\ pageTable'[t][p].valid = pageTable[t][p].valid
            /\ pageTable'[t][p].dirty = pageTable[t][p].dirty
            /\ pageTable'[t][p].physicalPage = pageTable[t][p].physicalPage
      /\ \A i \in Entries :
            /\ tlb'[i].valid = tlb[i].valid
            /\ tlb'[i].virtualPage = tlb[i].virtualPage
            /\ tlb'[i].physicalPage = tlb[i].physicalPage
            /\ tlb'[i].dirty = (tlb[i].dirty \/ (i = hit /\ FALSE))
    <2>1. FALSE \in BOOLEAN
        OBVIOUS
    <2>2. Translated(vpn, FALSE, hit)
        BY <1>1, <2>1, TranslateKeeps, Zenon
    <2> QED
        BY <2>2, Zenon DEF Translated
<1> HIDE DEF hit
<1>3. \A i \in Entries : tlb'[i].dirty => tlb[i].dirty
    BY <1>2, Zenon
<1>4. \A i \in Entries : tlb[i].dirty => tlb'[i].dirty
    BY <1>2, Zenon
<1>5. TypeOK'
    BY <1>1, <1>2, Zenon DEF PInv, TypeOK
<1>6. Owned(pageTable', invertedTable, mainMemoryMap) /\ Swapped(pageTable', SWAPmap)
    <2>1. \A t \in Threads, p \in Pages : InSWAP(pageTable'[t][p]) <=> InSWAP(pageTable[t][p])
        BY <1>2, ZenonT(60) DEF InSWAP
    <2>2. Same(pageTable, pageTable')
        BY <1>2, <2>1, Zenon DEF Same
    <2>3. /\ invertedTable \in [Frames -> Owner] /\ mainMemoryMap \in SUBSET Frames
          /\ Owned(pageTable, invertedTable, mainMemoryMap) /\ Swapped(pageTable, SWAPmap)
        BY DEF PInv, TypeOK
    <2> QED
        BY <2>2, <2>3, SamePages, Zenon
<1>7. Cached(pageTable', currentThread, tlb')
    BY <1>2, <1>4, TranslatedCached, Zenon
<1>8. Clean(pageTable', currentThread, tlb', mainMemory)
    <2> SUFFICES ASSUME NEW t \in Threads, NEW p \in Pages, pageTable'[t][p].valid,
                        ~Changed(pageTable', currentThread, tlb', t, p)
                 PROVE  mainMemory[pageTable'[t][p].physicalPage] = FromFile(p)
        BY Zenon DEF Clean
    <2>1. ~Changed(pageTable, currentThread, tlb, t, p)
        BY <1>2, <1>4, ZenonT(60) DEF Changed
    <2>2. pageTable[t][p].valid /\ pageTable'[t][p].physicalPage = pageTable[t][p].physicalPage
        BY <1>2, Zenon
    <2>3. mainMemory[pageTable[t][p].physicalPage] = FromFile(p)
        BY <2>1, <2>2, Zenon DEF PInv, Clean
    <2> QED
        BY <2>2, <2>3, Zenon
<1>9. found' = found
    <2>1. \A t \in Threads, p \in Pages :
              Found(pageTable', mainMemory, SWAP, t, p) = Found(pageTable, mainMemory, SWAP, t, p)
        BY <1>2, Zenon DEF Found
    <2> QED
        BY <1>1, <2>1, Zenon DEF found
<1> QED
    BY <1>1, <1>5, <1>6, <1>7, <1>8, <1>9, Zenon DEF PInv

(* A store changes one page of the current thread, and leaves the page     *)
(* known as changed.                                                       *)
LEMMA WriteMemKeeps ==
    ASSUME PInv, NEW vpn \in Pages, WriteMem(vpn)
    PROVE  /\ PInv'
           /\ \E v \in Versions :
                 found' = [found EXCEPT ![currentThread][vpn] = <<currentThread, vpn, v>>]
<1> DEFINE hit == Min(Hits(vpn))
           frame == tlb[hit].physicalPage
<1>1. /\ Hits(vpn) # {} /\ Translate(vpn, TRUE)
      /\ UNCHANGED <<currentThread, ended, tlbIterator, mainMemoryIterator, invertedTable,
                     mainMemoryMap, SWAPmap, SWAP, damage>>
    BY Zenon DEF WriteMem
<1>2. PICK v \in Versions :
          mainMemory' = [mainMemory EXCEPT ![frame] = <<currentThread, vpn, v>>]
    BY Zenon DEF WriteMem
<1>3. /\ hit \in Entries /\ tlb[hit].valid /\ tlb[hit].virtualPage = vpn
      /\ tlb' \in [Entries -> TLBEntry]
      /\ pageTable' \in PageTables
      /\ \A t \in Threads, p \in Pages :
            /\ pageTable'[t][p].valid = pageTable[t][p].valid
            /\ pageTable'[t][p].dirty = pageTable[t][p].dirty
            /\ pageTable'[t][p].physicalPage = pageTable[t][p].physicalPage
      /\ \A i \in Entries :
            /\ tlb'[i].valid = tlb[i].valid
            /\ tlb'[i].virtualPage = tlb[i].virtualPage
            /\ tlb'[i].physicalPage = tlb[i].physicalPage
            /\ tlb'[i].dirty = (tlb[i].dirty \/ (i = hit /\ TRUE))
    <2>1. TRUE \in BOOLEAN
        OBVIOUS
    <2>2. Translated(vpn, TRUE, hit)
        BY <1>1, <2>1, TranslateKeeps, Zenon
    <2> QED
        BY <2>2, Zenon DEF Translated
<1> HIDE DEF hit
<1>4. /\ pageTable[currentThread][vpn].valid
      /\ pageTable[currentThread][vpn].physicalPage = frame
      /\ frame \in mainMemoryMap /\ frame \in Frames
      /\ currentThread \in Threads
    <2>1. currentThread \in Threads /\ mainMemoryMap \subseteq Frames
        BY Zenon DEF PInv, TypeOK
    <2>2. /\ pageTable[currentThread][vpn].valid
          /\ pageTable[currentThread][vpn].physicalPage = frame
        BY <1>3, Zenon DEF PInv, Cached
    <2> QED
        BY <2>1, <2>2, Zenon DEF PInv, Owned
<1>5. \A t \in Threads, p \in Pages :
          pageTable[t][p].valid /\ pageTable[t][p].physicalPage = frame =>
              t = currentThread /\ p = vpn
    <2> HIDE DEF frame
    <2>1. ASSUME NEW t \in Threads, NEW p \in Pages, pageTable[t][p].valid,
                 pageTable[t][p].physicalPage = frame
          PROVE  invertedTable[frame].thread = t /\ invertedTable[frame].VP = p
        <3>1. invertedTable[frame] = [thread |-> t, VP |-> p]
            BY <2>1, Zenon DEF PInv, Owned
        <3> QED
            BY <3>1
    <2>2. invertedTable[frame].thread = currentThread /\ invertedTable[frame].VP = vpn
        BY <1>4, <2>1, Zenon
    <2> QED
        BY <2>1, <2>2, Zenon
<1> HIDE DEF frame
<1>6. \A i \in Entries : tlb[i].dirty => tlb'[i].dirty
    BY <1>3, Zenon
<1>7. tlb'[hit].dirty
    BY <1>3, Zenon
<1>8. /\ mainMemory' \in [Frames -> Contents]
      /\ mainMemory'[frame] = <<currentThread, vpn, v>>
      /\ \A f \in Frames : f # frame => mainMemory'[f] = mainMemory[f]
    <2>1. <<currentThread, vpn, v>> \in Contents
        BY <1>4 DEF Contents
    <2>2. mainMemory \in [Frames -> Contents]
        BY Zenon DEF PInv, TypeOK
    <2> QED
        BY <1>2, <1>4, <2>1, <2>2, Zenon
<1>9. TypeOK'
    BY <1>1, <1>3, <1>8, Zenon DEF PInv, TypeOK
<1>10. Owned(pageTable', invertedTable, mainMemoryMap) /\ Swapped(pageTable', SWAPmap)
    <2>1. \A t \in Threads, p \in Pages : InSWAP(pageTable'[t][p]) <=> InSWAP(pageTable[t][p])
        BY <1>3, ZenonT(60) DEF InSWAP
    <2>2. Same(pageTable, pageTable')
        BY <1>3, <2>1, Zenon DEF Same
    <2>3. /\ invertedTable \in [Frames -> Owner] /\ mainMemoryMap \in SUBSET Frames
          /\ Owned(pageTable, invertedTable, mainMemoryMap) /\ Swapped(pageTable, SWAPmap)
        BY DEF PInv, TypeOK
    <2> QED
        BY <2>2, <2>3, SamePages, Zenon
<1>11. Cached(pageTable', currentThread, tlb')
    BY <1>3, <1>6, TranslatedCached, Zenon
<1>12. Clean(pageTable', currentThread, tlb', mainMemory')
    <2> SUFFICES ASSUME NEW t \in Threads, NEW p \in Pages, pageTable'[t][p].valid,
                        ~Changed(pageTable', currentThread, tlb', t, p)
                 PROVE  mainMemory'[pageTable'[t][p].physicalPage] = FromFile(p)
        BY Zenon DEF Clean
    <2>1. ~(t = currentThread /\ p = vpn)
        BY <1>3, <1>7, Zenon DEF Changed
    <2>2. ~Changed(pageTable, currentThread, tlb, t, p)
        BY <1>3, <1>6, ZenonT(60) DEF Changed
    <2>3. pageTable[t][p].valid /\ pageTable'[t][p].physicalPage = pageTable[t][p].physicalPage
        BY <1>3, Zenon
    <2>4. pageTable[t][p].physicalPage \in Frames /\ pageTable[t][p].physicalPage # frame
        BY <1>5, <2>1, <2>3, Zenon DEF PInv, Owned, TypeOK
    <2>5. mainMemory[pageTable[t][p].physicalPage] = FromFile(p)
        BY <2>2, <2>3, Zenon DEF PInv, Clean
    <2> QED
        BY <1>8, <2>3, <2>4, <2>5, Zenon
<1>13. found' = [found EXCEPT ![currentThread][vpn] = <<currentThread, vpn, v>>]
    <2>1. Found(pageTable', mainMemory', SWAP, currentThread, vpn) = <<currentThread, vpn, v>>
        BY <1>3, <1>4, <1>8, ZenonT(60) DEF Found
    <2>2. ASSUME NEW t \in Threads, NEW p \in Pages, ~(t = currentThread /\ p = vpn)
          PROVE  Found(pageTable', mainMemory', SWAP, t, p)
                   = Found(pageTable, mainMemory, SWAP, t, p)
        <3>1. pageTable[t][p].valid =>
                /\ pageTable[t][p].physicalPage \in Frames
                /\ pageTable[t][p].physicalPage # frame
            BY <1>5, <2>2, ZenonT(60) DEF PInv, Owned, TypeOK
        <3>2. pageTable[t][p].valid =>
                mainMemory'[pageTable[t][p].physicalPage] = mainMemory[pageTable[t][p].physicalPage]
            BY <1>8, <3>1, Zenon
        <3>3. /\ pageTable'[t][p].valid = pageTable[t][p].valid
              /\ pageTable'[t][p].dirty = pageTable[t][p].dirty
              /\ pageTable'[t][p].physicalPage = pageTable[t][p].physicalPage
            BY <1>3, Zenon
        <3> QED
            BY <3>2, <3>3, Zenon DEF Found
    <2> QED
        BY <1>1, <1>4, <2>1, <2>2, Zenon DEF found
<1>14. PInv'
    BY <1>1, <1>9, <1>10, <1>11, <1>12, Zenon DEF PInv
<1> QED
    BY <1>13, <1>14, Zenon

(* A fault of a page in memory only enters it in the TLB.                  *)
LEMMA PageFaultInMemoryKeeps ==
    ASSUME PInv, NEW vpn \in Pages, PageFaultInMemory(vpn)
    PROVE  PInv' /\ found' = found
<1>1. /\ Hits(vpn) = {} /\ pageTable[currentThread][vpn].valid
      /\ updateTLB(vpn, pageTable, invertedTable)
      /\ UNCHANGED <<currentThread, ended, mainMemoryIterator, invertedTable, mainMemoryMap,
                     mainMemory, SWAPmap, SWAP, damage>>
    BY Zenon DEF PageFaultInMemory
<1>2. /\ TypeOK /\ pageTable \in PageTables /\ invertedTable \in [Frames -> Owner]
      /\ mainMemoryMap \in SUBSET Frames
      /\ Owned(pageTable, invertedTable, mainMemoryMap) /\ Swapped(pageTable, SWAPmap)
      /\ Cached(pageTable, currentThread, tlb) /\ Clean(pageTable, currentThread, tlb, mainMemory)
    BY DEF PInv, TypeOK
<1>3. Entered(pageTable, invertedTable, mainMemoryMap, SWAPmap, mainMemory, SWAP)
    BY <1>1, <1>2, UpdateTLBKeeps, Zenon
<1>4. TypeOK'
    BY <1>1, <1>2, <1>3, Zenon DEF TypeOK, Entered
<1>5. found' = found
    BY <1>1, <1>3, Zenon DEF found, Entered
<1> QED
    BY <1>1, <1>3, <1>4, <1>5, Zenon DEF PInv, Entered

(* A fault of another page brings it in, in the place of another if memory *)
(* is full, and everybody still finds the same.                            *)
LEMMA PageFaultKeeps ==
    ASSUME PInv, NEW vpn \in Pages, PageFault(vpn), damage' = {}
    PROVE  PInv' /\ found' = found
<1> DEFINE r == IF mainMemoryMap = Frames THEN replaceMainMemoryFrame ELSE FreeFrame
           loaded == [r.pageTable EXCEPT ![currentThread][vpn].physicalPage = r.frame,
                                         ![currentThread][vpn].valid = TRUE]
           inverted == InvertedTableWith(r.frame, vpn)
<1>1. /\ Hits(vpn) = {} /\ ~pageTable[currentThread][vpn].valid
      /\ damage' = damage \cup r.damage
      /\ mainMemoryMap' = mainMemoryMap \cup {r.frame}
      /\ SWAP' = r.SWAP
      /\ mainMemoryIterator' = r.mainMemoryIterator
      /\ invertedTable' = inverted
      /\ updateTLB(vpn, loaded, inverted)
      /\ UNCHANGED <<currentThread, ended>>
    BY Zenon DEF PageFault
<1>2. Loads(r, vpn, loaded, inverted, SWAPmap', mainMemory')
    BY Zenon DEF PageFault, Loads
<1>3. Frees(r)
    <2>1. r.damage = {}
        BY <1>1
    <2>2. CASE mainMemoryMap = Frames
        BY <2>1, <2>2, ReplaceFrees, Zenon
    <2>3. CASE mainMemoryMap # Frames
        BY <2>3, FreeFrameFrees, Zenon
    <2> QED
        BY <2>2, <2>3
<1> HIDE DEF r, loaded, inverted
<1>4. Loaded(r, vpn, loaded, inverted, SWAPmap', mainMemory')
    BY <1>1, <1>2, <1>3, LoadKeeps, Zenon
<1>5. TypeOK /\ mainMemoryMap \cup {r.frame} \in SUBSET Frames
    BY <1>3, Zenon DEF PInv, TypeOK, Frees
<1>6. Entered(loaded, inverted, mainMemoryMap \cup {r.frame}, SWAPmap', mainMemory', r.SWAP)
    BY <1>1, <1>4, <1>5, UpdateTLBKeeps, Zenon DEF Loaded
<1>7. TypeOK'
    BY <1>1, <1>3, <1>4, <1>5, <1>6, Zenon DEF TypeOK, Frees, Loaded, Entered
<1>8. found' = found
    BY <1>1, <1>4, <1>6, Zenon DEF found, Loaded, Entered
<1> QED
    BY <1>1, <1>6, <1>7, <1>8, Zenon DEF PInv, Entered

-----------------------------------------------------------------------------
(* SaveState leaves in the page table of the current thread what the TLB   *)
(* knew, which is only what changed.                                       *)
LEMMA SaveStateKeeps ==
    ASSUME PInv
    PROVE  /\ SaveState(currentThread) \in [Pages -> PageEntry]
           /\ \A p \in Pages :
                 LET saved == SaveState(currentThread)[p]
                     entry == pageTable[currentThread][p]
                 IN  /\ saved.valid = entry.valid
                     /\ saved.physicalPage = entry.physicalPage
                     /\ saved.dirty = Changed(pageTable, currentThread, tlb, currentThread, p)
                     /\ InSWAP(saved) <=> InSWAP(entry)
<1>1. /\ currentThread \in Threads /\ tlb \in [Entries -> TLBEntry]
      /\ pageTable[currentThread] \in [Pages -> PageEntry]
    BY DEF PInv, TypeOK, PageTables
<1>2. ASSUME NEW p \in Pages, NEW saved, saved = SaveState(currentThread)[p],
             NEW entry, entry = pageTable[currentThread][p]
      PROVE  /\ saved \in PageEntry
             /\ saved.valid = entry.valid
             /\ saved.physicalPage = entry.physicalPage
             /\ saved.dirty = Changed(pageTable, currentThread, tlb, currentThread, p)
             /\ InSWAP(saved) <=> InSWAP(entry)
    <2> DEFINE entries == {i \in Entries : tlb[i].virtualPage = p}
               e == tlb[Max(entries)]
    <2>2. entry \in PageEntry
        BY <1>2, <1>1
    <2>3. CASE entries = {}
        <3>1. saved = entry
            BY <1>2, <2>3, Zenon DEF SaveState
        <3>2. Changed(pageTable, currentThread, tlb, currentThread, p) = entry.dirty
            <4>1. entry.dirty \in BOOLEAN
                BY <2>2 DEF PageEntry
            <4> QED
                BY <1>2, <2>3, <4>1, Zenon DEF Changed
        <3> QED
            BY <2>2, <3>1, <3>2, Zenon
    <2>4. CASE entries # {}
        <3>1. saved = [physicalPage |-> e.physicalPage, valid |-> e.valid, use |-> e.use,
                       dirty |-> e.dirty]
            BY <1>2, <2>4, Zenon DEF SaveState
        <3>2. Max(entries) \in entries
            <4>1. TLBSize \in Nat /\ entries \in SUBSET (0..(TLBSize - 1))
                BY Sizes DEF Entries
            <4> QED
                BY <2>4, <4>1, MaxOf, Zenon
        <3>3. Max(entries) \in Entries /\ e \in TLBEntry /\ e.virtualPage = p
            BY <1>1, <3>2, Zenon
        <3> DEFINE k == Max(entries)
        <3> HIDE DEF k
        <3>4. k \in Entries /\ e = tlb[k] /\ tlb[k].virtualPage = p
            BY <3>3, Zenon DEF k
        <3> HIDE DEF e, entries
        <3>5. /\ tlb[k].valid /\ entry.valid /\ entry.physicalPage = tlb[k].physicalPage
              /\ entry.dirty => tlb[k].dirty
              /\ \A i \in Entries : tlb[i].valid /\ tlb[i].virtualPage = p => i = k
            BY <1>2, <3>4, Sizes DEF PInv, Cached
        <3>6. tlb[k].dirty = Changed(pageTable, currentThread, tlb, currentThread, p)
            <4>1. tlb[k].dirty \in BOOLEAN
                BY <3>3, <3>4 DEF TLBEntry
            <4>2. tlb[k].dirty => Changed(pageTable, currentThread, tlb, currentThread, p)
                BY <3>4, <3>5, Zenon DEF Changed
            <4>3. Changed(pageTable, currentThread, tlb, currentThread, p) => tlb[k].dirty
                BY <1>2, <3>4, <3>5, Zenon DEF Changed
            <4> QED
                BY <4>1, <4>2, <4>3, Zenon DEF Changed
        <3>7. /\ saved \in PageEntry /\ saved.valid = tlb[k].valid
              /\ saved.physicalPage = tlb[k].physicalPage /\ saved.dirty = tlb[k].dirty
            BY <3>1, <3>3, <3>4 DEF PageEntry, TLBEntry
        <3>8. saved.valid = entry.valid
            BY <2>2, <3>5, <3>7 DEF PageEntry
        <3> QED
            BY <3>5, <3>6, <3>7, <3>8, Zenon DEF InSWAP
    <2> QED
        BY <2>3, <2>4
<1>3. SaveState(currentThread) = [p \in Pages |-> SaveState(currentThread)[p]]
    BY Zenon DEF SaveState
<1>4. SaveState(currentThread) \in [Pages -> PageEntry]
    BY <1>2, <1>3, Zenon
<1> QED
    BY <1>2, <1>4, ZenonT(60)

(* The TLB that RestoreState leaves has nothing of anybody.                *)
LEMMA RestoredCached ==
    /\ RestoredTLB \in [Entries -> TLBEntry]
    /\ \A i \in Entries : /\ ~RestoredTLB[i].valid
                          /\ RestoredTLB[i].virtualPage = -1
                          /\ RestoredTLB[i].physicalPage = -1
    /\ \A pt, t : Cached(pt, t, RestoredTLB)
    /\ \A pt, cur, t, p : Changed(pt, cur, RestoredTLB, t, p) <=> pt[t][p].dirty
<1> DEFINE empty == [virtualPage |-> -1, physicalPage |-> -1, valid |-> FALSE, use |-> FALSE,
                     dirty |-> FALSE]
<1>1. /\ empty \in TLBEntry /\ ~empty.valid
      /\ empty.virtualPage = -1 /\ empty.physicalPage = -1
    BY DEF TLBEntry
<1>2. RestoredTLB = [i \in Entries |-> empty]
    BY Zenon DEF RestoredTLB
<1> HIDE DEF empty
<1>3. /\ RestoredTLB \in [Entries -> TLBEntry]
      /\ \A i \in Entries : RestoredTLB[i] = empty
    BY <1>1, <1>2, Zenon
<1>4. \A i \in Entries : /\ ~RestoredTLB[i].valid
                         /\ RestoredTLB[i].virtualPage = -1
                         /\ RestoredTLB[i].physicalPage = -1
    BY <1>1, <1>3, Zenon
<1>5. \A pt, t : Cached(pt, t, RestoredTLB)
    BY <1>4, Zenon DEF Cached
<1>6. \A pt, cur, t, p : Changed(pt, cur, RestoredTLB, t, p) <=> pt[t][p].dirty
    BY <1>4, Zenon DEF Changed
<1> QED
    BY <1>3, <1>4, <1>5, <1>6, Zenon

(* A switch to another thread loses nothing of what the TLB knew.          *)
LEMMA RunKeeps ==
    ASSUME PInv, NEW n \in Threads, Run(n)
    PROVE  PInv' /\ found' = found
<1> DEFINE saved == SaveState(currentThread)
<1>1. /\ pageTable' = [pageTable EXCEPT ![currentThread] = saved]
      /\ tlb' = RestoredTLB
      /\ currentThread' = n
      /\ UNCHANGED <<ended, tlbIterator, mainMemoryIterator, invertedTable, mainMemoryMap,
                     mainMemory, SWAPmap, SWAP, damage>>
    BY Zenon DEF Run
<1>2. /\ currentThread \in Threads /\ pageTable \in PageTables
      /\ invertedTable \in [Frames -> Owner] /\ mainMemoryMap \in SUBSET Frames
      /\ Owned(pageTable, invertedTable, mainMemoryMap) /\ Swapped(pageTable, SWAPmap)
    BY DEF PInv, TypeOK
<1>3. /\ saved \in [Pages -> PageEntry]
      /\ \A p \in Pages :
            /\ saved[p].valid = pageTable[currentThread][p].valid
            /\ saved[p].physicalPage = pageTable[currentThread][p].physicalPage
            /\ saved[p].dirty = Changed(pageTable, currentThread, tlb, currentThread, p)
            /\ InSWAP(saved[p]) <=> InSWAP(pageTable[currentThread][p])
    BY SaveStateKeeps, Zenon
<1> HIDE DEF saved
<1>4. /\ pageTable' \in PageTables
      /\ pageTable'[currentThread] = saved
      /\ \A t \in Threads : t # currentThread => pageTable'[t] = pageTable[t]
    BY <1>1, <1>2, <1>3, Zenon DEF PageTables
<1>5. \A t \in Threads, p \in Pages :
         /\ pageTable'[t][p].valid = pageTable[t][p].valid
         /\ InSWAP(pageTable'[t][p]) <=> InSWAP(pageTable[t][p])
         /\ pageTable'[t][p].physicalPage = pageTable[t][p].physicalPage
    BY <1>3, <1>4, Zenon
<1>6. /\ Owned(pageTable', invertedTable, mainMemoryMap) /\ Swapped(pageTable', SWAPmap)
      /\ \A t \in Threads, p \in Pages :
            Found(pageTable', mainMemory, SWAP, t, p) = Found(pageTable, mainMemory, SWAP, t, p)
    <2>1. Same(pageTable, pageTable')
        BY <1>5, Zenon DEF Same
    <2>2. /\ Owned(pageTable', invertedTable, mainMemoryMap) /\ Swapped(pageTable', SWAPmap)
          /\ \A memory, swap : \A t \in Threads, p \in Pages :
                Found(pageTable', memory, swap, t, p) = Found(pageTable, memory, swap, t, p)
        BY <1>2, <2>1, SamePages
    <2> QED
        BY <2>2, Zenon
<1>7. TypeOK'
    BY <1>1, <1>4, RestoredCached, Zenon DEF PInv, TypeOK
<1>8. Clean(pageTable', n, RestoredTLB, mainMemory)
    <2> SUFFICES ASSUME NEW t \in Threads, NEW p \in Pages, pageTable'[t][p].valid,
                        ~Changed(pageTable', n, RestoredTLB, t, p)
                 PROVE  mainMemory[pageTable'[t][p].physicalPage] = FromFile(p)
        BY Zenon DEF Clean
    <2>1. ~pageTable'[t][p].dirty
        BY Zenon DEF Changed
    <2>2. ~Changed(pageTable, currentThread, tlb, t, p)
        <3>1. CASE t = currentThread
            BY <1>3, <1>4, <2>1, <3>1, Zenon
        <3>2. CASE t # currentThread
            BY <1>4, <2>1, <3>2, Zenon DEF Changed
        <3> QED
            BY <3>1, <3>2
    <2> QED
        BY <1>5, <2>2, Zenon DEF PInv, Clean
<1>9. found' = found
    BY <1>1, <1>6, Zenon DEF found
<1>10. Cached(pageTable', n, RestoredTLB)
    BY RestoredCached, Zenon
<1> QED
    BY <1>1, <1>6, <1>7, <1>8, <1>9, <1>10, Zenon DEF PInv

(* What is in a new page table.                                            *)
LEMMA NewPages ==
    /\ NewPageTable \in [Pages -> PageEntry]
    /\ \A p \in Pages : ~NewPageTable[p].valid /\ ~NewPageTable[p].dirty
<1> DEFINE new == [physicalPage |-> -1, valid |-> FALSE, use |-> FALSE, dirty |-> FALSE]
<1>1. new \in PageEntry /\ ~new.valid /\ ~new.dirty
    BY DEF PageEntry
<1>2. NewPageTable = [p \in Pages |-> new]
    BY Zenon DEF NewPageTable
<1> HIDE DEF new
<1> QED
    BY <1>1, <1>2, Zenon

(* A process that ends takes its own pages along and, unless it damages    *)
(* something, nobody else's.                                               *)
LEMMA ExitKeeps ==
    ASSUME PInv, NEW n \in Threads, Exit(n), damage' = {}
    PROVE  /\ PInv'
           /\ currentThread' # currentThread
           /\ found' = [found EXCEPT ![currentThread] = [p \in Pages |-> FromFile(p)]]
<1> DEFINE saved == SaveState(currentThread)
           own == {saved[p].physicalPage : p \in {q \in Pages : saved[q].valid}}
<1>1. /\ n # currentThread
      /\ pageTable' = [pageTable EXCEPT ![currentThread] = NewPageTable]
      /\ tlb' = RestoredTLB
      /\ currentThread' = n
      /\ UNCHANGED <<tlbIterator, mainMemoryIterator, invertedTable, mainMemory, SWAPmap, SWAP>>
    BY Zenon DEF Exit
<1>2. PICK freed : /\ mainMemoryMap' = mainMemoryMap \ freed
                   /\ own \subseteq freed
                   /\ freed \cap mainMemoryMap \subseteq own
    <2>1. PICK stackOnly \in BOOLEAN :
              LET pages == IF stackOnly THEN {NumPages - 1} ELSE Pages
                  freed == {saved[p].physicalPage : p \in pages} \ {-1}
              IN  /\ mainMemoryMap' = mainMemoryMap \ freed
                  /\ damage' = damage \cup
                        (IF own \subseteq freed THEN {} ELSE {"frames not freed"}) \cup
                        (IF freed \cap mainMemoryMap \subseteq own THEN {}
                         ELSE {"wrong frame freed"}) \cup
                        (IF freed \subseteq Frames THEN {} ELSE {"abort"})
        BY Zenon DEF Exit
    <2> DEFINE pages == IF stackOnly THEN {NumPages - 1} ELSE Pages
               f == {saved[p].physicalPage : p \in pages} \ {-1}
    <2> HIDE DEF saved, own
    <2>2. /\ mainMemoryMap' = mainMemoryMap \ f
          /\ damage' = damage \cup
                (IF own \subseteq f THEN {} ELSE {"frames not freed"}) \cup
                (IF f \cap mainMemoryMap \subseteq own THEN {}
                 ELSE {"wrong frame freed"}) \cup
                (IF f \subseteq Frames THEN {} ELSE {"abort"})
        BY <2>1, Zenon
    <2> HIDE DEF f
    <2>3. own \subseteq f
        <3> SUFFICES ASSUME ~(own \subseteq f)
                     PROVE  "frames not freed" \in damage'
            BY Zenon
        <3> QED
            BY <2>2, Zenon
    <2>4. f \cap mainMemoryMap \subseteq own
        <3> SUFFICES ASSUME ~(f \cap mainMemoryMap \subseteq own)
                     PROVE  "wrong frame freed" \in damage'
            BY Zenon
        <3> QED
            BY <2>2, Zenon
    <2> QED
        BY <2>2, <2>3, <2>4, Zenon
<1>3. /\ currentThread \in Threads /\ pageTable \in PageTables
      /\ invertedTable \in [Frames -> Owner] /\ mainMemoryMap \subseteq Frames
    BY Zenon DEF PInv, TypeOK
<1>4. \A p \in Pages :
         /\ saved[p].valid = pageTable[currentThread][p].valid
         /\ saved[p].physicalPage = pageTable[currentThread][p].physicalPage
    BY SaveStateKeeps, Zenon
<1> HIDE DEF saved
<1>5. /\ pageTable' \in PageTables
      /\ pageTable'[currentThread] = NewPageTable
      /\ \A t \in Threads : t # currentThread => pageTable'[t] = pageTable[t]
    BY <1>1, <1>3, NewPages, Zenon DEF PageTables
<1>6. \A p \in Pages : ~pageTable'[currentThread][p].valid /\ ~pageTable'[currentThread][p].dirty
    BY <1>5, NewPages, Zenon
<1>7. \A f \in own : invertedTable[f].thread = currentThread
    <2> SUFFICES ASSUME NEW p \in Pages, saved[p].valid
                 PROVE  invertedTable[saved[p].physicalPage].thread = currentThread
        OBVIOUS
    <2>1. /\ pageTable[currentThread][p].valid
          /\ pageTable[currentThread][p].physicalPage = saved[p].physicalPage
        BY <1>4, Zenon
    <2>2. invertedTable[pageTable[currentThread][p].physicalPage]
            = [thread |-> currentThread, VP |-> p]
        BY <1>3, <2>1, ZenonT(60) DEF PInv, Owned
    <2> QED
        BY <2>1, <2>2
<1>8. \A f \in mainMemoryMap : invertedTable[f].thread = currentThread => f \in own
    <2> SUFFICES ASSUME NEW f \in mainMemoryMap, invertedTable[f].thread = currentThread
                 PROVE  f \in own
        BY Zenon
    <2>1. invertedTable[f].VP \in Pages
        BY <1>3 DEF Owner
    <2>2. /\ pageTable[currentThread][invertedTable[f].VP].valid
          /\ pageTable[currentThread][invertedTable[f].VP].physicalPage = f
        BY Zenon DEF PInv, Owned
    <2> QED
        BY <1>4, <2>1, <2>2
<1> HIDE DEF own
<1>9. Owned(pageTable', invertedTable, mainMemoryMap')
    <2>1. ASSUME NEW t \in Threads, NEW p \in Pages, pageTable'[t][p].valid
          PROVE  /\ pageTable'[t][p].physicalPage \in mainMemoryMap'
                 /\ invertedTable[pageTable'[t][p].physicalPage] = [thread |-> t, VP |-> p]
        <3>1. t # currentThread /\ pageTable'[t] = pageTable[t]
            BY <1>5, <1>6, <2>1, Zenon
        <3>2. /\ pageTable[t][p].physicalPage \in mainMemoryMap
              /\ invertedTable[pageTable[t][p].physicalPage] = [thread |-> t, VP |-> p]
            BY <2>1, <3>1, Zenon DEF PInv, Owned
        <3>3. invertedTable[pageTable[t][p].physicalPage].thread # currentThread
            BY <3>1, <3>2
        <3> QED
            BY <1>2, <1>7, <3>1, <3>2, <3>3, Zenon
    <2>2. ASSUME NEW f \in mainMemoryMap'
          PROVE  /\ pageTable'[invertedTable[f].thread][invertedTable[f].VP].valid
                 /\ pageTable'[invertedTable[f].thread][invertedTable[f].VP].physicalPage = f
        <3>1. f \in mainMemoryMap /\ f \notin own
            BY <1>2, Zenon
        <3>2. invertedTable[f].thread # currentThread /\ invertedTable[f].thread \in Threads
            BY <1>3, <1>8, <3>1 DEF Owner
        <3>3. pageTable'[invertedTable[f].thread] = pageTable[invertedTable[f].thread]
            BY <1>5, <3>2, Zenon
        <3> QED
            BY <3>1, <3>3, Zenon DEF PInv, Owned
    <2> QED
        BY <2>1, <2>2, Zenon DEF Owned
<1>10. Swapped(pageTable', SWAPmap)
    <2>1. ASSUME NEW t \in Threads, NEW p \in Pages, InSWAP(pageTable'[t][p])
          PROVE  pageTable'[t] = pageTable[t]
        BY <1>5, <1>6, <2>1, Zenon DEF InSWAP
    <2>2. ASSUME NEW t \in Threads, NEW p \in Pages, InSWAP(pageTable'[t][p])
          PROVE  pageTable'[t][p].physicalPage \in SWAPmap
        BY <2>1, <2>2, Zenon DEF PInv, Swapped
    <2>3. ASSUME NEW t \in Threads, NEW p \in Pages, NEW u \in Threads, NEW q \in Pages,
                 InSWAP(pageTable'[t][p]), InSWAP(pageTable'[u][q]),
                 pageTable'[t][p].physicalPage = pageTable'[u][q].physicalPage
          PROVE  t = u /\ p = q
        <3>1. pageTable'[t] = pageTable[t] /\ pageTable'[u] = pageTable[u]
            BY <2>1, <2>3
        <3>2. /\ InSWAP(pageTable[t][p]) /\ InSWAP(pageTable[u][q])
              /\ pageTable[t][p].physicalPage = pageTable[u][q].physicalPage
            BY <2>3, <3>1, Zenon
        <3> QED
            BY <3>2 DEF PInv, Swapped
    <2> QED
        BY <2>2, <2>3 DEF Swapped
<1>11. Clean(pageTable', n, RestoredTLB, mainMemory)
    <2> SUFFICES ASSUME NEW t \in Threads, NEW p \in Pages, pageTable'[t][p].valid,
                        ~Changed(pageTable', n, RestoredTLB, t, p)
                 PROVE  mainMemory[pageTable'[t][p].physicalPage] = FromFile(p)
        BY Zenon DEF Clean
    <2>1. t # currentThread /\ pageTable'[t] = pageTable[t]
        BY <1>5, <1>6, Zenon
    <2>2. ~Changed(pageTable, currentThread, tlb, t, p)
        BY <2>1, Zenon DEF Changed
    <2> QED
        BY <2>1, <2>2, Zenon DEF PInv, Clean
<1>12. TypeOK'
    <2>1. mainMemoryMap' \subseteq Frames
        BY <1>2, <1>3, Zenon
    <2> QED
        BY <1>1, <1>5, <2>1, RestoredCached, Zenon DEF PInv, TypeOK
<1>13. PInv'
    <2>1. Cached(pageTable', n, RestoredTLB)
        BY RestoredCached, Zenon
    <2> QED
        BY <1>1, <1>9, <1>10, <1>11, <1>12, <2>1, Zenon DEF PInv
<1>14. found' = [found EXCEPT ![currentThread] = [p \in Pages |-> FromFile(p)]]
    <2>1. \A p \in Pages : Found(pageTable', mainMemory, SWAP, currentThread, p) = FromFile(p)
        BY <1>6, Zenon DEF Found
    <2>2. \A t \in Threads, p \in Pages : t # currentThread =>
             Found(pageTable', mainMemory, SWAP, t, p) = Found(pageTable, mainMemory, SWAP, t, p)
        BY <1>5, Zenon DEF Found
    <2> QED
        BY <1>1, <1>3, <2>1, <2>2, Zenon DEF found
<1> QED
    BY <1>1, <1>13, <1>14, Zenon

-----------------------------------------------------------------------------
(* What one step may do to what the processes find: nothing, or a store of *)
(* the current thread in one of its pages, or the end of that thread.      *)
Step ==
    \/ found' = found
    \/ \E p \in Pages, v \in Versions :
          found' = [found EXCEPT ![currentThread][p] = <<currentThread, p, v>>]
    \/ /\ currentThread' # currentThread
       /\ found' = [found EXCEPT ![currentThread] = [p \in Pages |-> FromFile(p)]]

(* The invariant holds at the start.                                       *)
LEMMA InitInvariant == Init => PInv /\ seen = [t \in Threads |-> [p \in Pages |-> FromFile(p)]]
<1> SUFFICES ASSUME Init
             PROVE  PInv /\ seen = [t \in Threads |-> [p \in Pages |-> FromFile(p)]]
    BY Zenon
<1>1. \A t \in Threads, p \in Pages : ~pageTable[t][p].valid /\ ~pageTable[t][p].dirty
    BY NewPages, Zenon DEF Init
<1>2. TypeOK
    <2>1. pageTable \in PageTables
        BY NewPages, Zenon DEF Init, PageTables
    <2>2. tlb \in [Entries -> TLBEntry]
        BY RestoredCached, Zenon DEF Init
    <2>3. invertedTable \in [Frames -> Owner]
        <3>1. [thread |-> currentThread, VP |-> 0] \in Owner
            BY Sizes DEF Init, Owner
        <3> QED
            BY <3>1, Zenon DEF Init
    <2>4. mainMemory \in [Frames -> Contents] /\ SWAP \in [SWAPFrames -> Contents]
        BY Zenon DEF Init, Contents
    <2>5. tlbIterator \in Entries /\ mainMemoryIterator \in Frames
        BY Sizes, Zenon DEF Init
    <2> QED
        BY <2>1, <2>2, <2>3, <2>4, <2>5, Zenon DEF Init, TypeOK
<1>3. Owned(pageTable, invertedTable, mainMemoryMap)
    BY <1>1, Zenon DEF Init, Owned
<1>4. Swapped(pageTable, SWAPmap)
    BY <1>1, Zenon DEF Swapped, InSWAP
<1>5. Cached(pageTable, currentThread, tlb)
    BY RestoredCached, Zenon DEF Init
<1>6. Clean(pageTable, currentThread, tlb, mainMemory)
    BY <1>1, Zenon DEF Clean
<1>7. PInv
    BY <1>2, <1>3, <1>4, <1>5, <1>6, Zenon DEF PInv
<1>8. found = [t \in Threads |-> [p \in Pages |-> FromFile(p)]]
    BY <1>1, Zenon DEF found, Found
<1> QED
    BY <1>7, <1>8, SeenFound, Zenon

(* Every step that damages nothing keeps it.                               *)
LEMMA NextKeeps ==
    ASSUME PInv, Next, damage' = {}
    PROVE  PInv' /\ Step
<1>1. ASSUME NEW vpn \in Pages, ReadMem(vpn)
      PROVE  PInv' /\ Step
    BY <1>1, ReadMemKeeps, Zenon DEF Step
<1>2. ASSUME NEW vpn \in Pages, WriteMem(vpn)
      PROVE  PInv' /\ Step
    BY <1>2, WriteMemKeeps, Zenon DEF Step
<1>3. ASSUME NEW vpn \in Pages, PageFaultInMemory(vpn)
      PROVE  PInv' /\ Step
    BY <1>3, PageFaultInMemoryKeeps, Zenon DEF Step
<1>4. ASSUME NEW vpn \in Pages, PageFault(vpn)
      PROVE  PInv' /\ Step
    BY <1>4, PageFaultKeeps, Zenon DEF Step
<1>5. ASSUME NEW n \in Threads, Run(n)
      PROVE  PInv' /\ Step
    BY <1>5, RunKeeps, Zenon DEF Step
<1>6. ASSUME NEW n \in Threads, Exit(n)
      PROVE  PInv' /\ Step
    BY <1>6, ExitKeeps, Zenon DEF Step
<1> QED
    BY <1>1, <1>2, <1>3, <1>4, <1>5, <1>6, Zenon DEF Next

(* As long as nothing was damaged the tables, the TLB, the two maps and    *)
(* memory agree.                                                           *)
THEOREM PagingInvariant == Spec => [](damage = {} => PInv)
<1>1. Init => (damage = {} => PInv)
    BY InitInvariant
<1>2. (damage = {} => PInv) /\ [Next]_vars => (damage = {} => PInv)'
    <2> SUFFICES ASSUME damage = {} => PInv, [Next]_vars, damage' = {}
                 PROVE  PInv'
        BY Zenon
    <2>1. CASE Next
        BY <2>1, NextKeeps, Zenon DEF Next
    <2>2. CASE UNCHANGED vars
        <3>1. damage = {}
            BY <2>2, Zenon DEF vars
        <3> QED
            BY <2>2, <3>1, Zenon DEF vars, PInv, TypeOK
    <2> QED
        BY <2>1, <2>2
<1> QED
    BY <1>1, <1>2, PTL DEF Spec

(* Until something is damaged every page in memory has a marked frame of   *)
(* its own that the inverted table leads back from, every page in the SWAP *)
(* a marked frame of its own there, and the TLB holds pages of the current *)
(* thread as its page table says.                                          *)
THEOREM FramesAreOwned == Spec => []FramesOwned
<1>1. (damage = {} => PInv) => FramesOwned
    <2> SUFFICES ASSUME PInv
                 PROVE  FramesOwned
        BY Zenon DEF FramesOwned
    <2>1. \A t \in Threads, p \in Pages :
             pageTable[t][p].valid =>
                 /\ pageTable[t][p].physicalPage \in mainMemoryMap
                 /\ invertedTable[pageTable[t][p].physicalPage] = [thread |-> t, VP |-> p]
        BY Zenon DEF PInv, Owned
    <2>2. \A t \in Threads, p \in Pages :
             ~pageTable[t][p].valid /\ pageTable[t][p].dirty =>
                 pageTable[t][p].physicalPage \in SWAPmap
        BY Zenon DEF PInv, Swapped, InSWAP
    <2>3. \A t, u \in Threads, p, q \in Pages :
             /\ ~pageTable[t][p].valid /\ pageTable[t][p].dirty
             /\ ~pageTable[u][q].valid /\ pageTable[u][q].dirty
             /\ pageTable[u][q].physicalPage = pageTable[t][p].physicalPage
             => u = t /\ q = p
        BY DEF PInv, Swapped, InSWAP
    <2>4. \A i \in Entries : tlb[i].valid =>
             /\ pageTable[currentThread][tlb[i].virtualPage].valid
             /\ pageTable[currentThread][tlb[i].virtualPage].physicalPage = tlb[i].physicalPage
             /\ pageTable[currentThread][tlb[i].virtualPage].dirty => tlb[i].dirty
        BY Zenon DEF PInv, Cached
    <2>5. ASSUME NEW t \in Threads \ ended, NEW p \in Pages,
                 ~pageTable[t][p].valid, pageTable[t][p].dirty
          PROVE  /\ pageTable[t][p].physicalPage \in SWAPmap
                 /\ \A u \in Threads \ ended, q \in Pages :
                       /\ ~pageTable[u][q].valid /\ pageTable[u][q].dirty
                       /\ pageTable[u][q].physicalPage = pageTable[t][p].physicalPage
                       => u = t /\ q = p
        BY <2>2, <2>3, <2>5
    <2> QED
        BY <2>1, <2>4, <2>5, ZenonT(60) DEF FramesOwned
<1> QED
    BY <1>1, PagingInvariant, PTL

(* Demand paging implements a memory in which every process has pages of   *)
(* its own that only its own stores change: faults, evictions to the SWAP  *)
(* and back, replacements in the TLB and switches change nothing that a    *)
(* process finds, until something is damaged.                              *)
THEOREM Refinement == Spec => ImplementsMemory
<1>1. Init => Memory!Init
    BY InitInvariant, Zenon DEF Memory!Init
<1>2. /\ damage = {} => PInv
      /\ (damage = {} => PInv)'
      /\ PInv => seen = found
      /\ (PInv => seen = found)'
      /\ [Next]_vars
      => [damage' = {} => Memory!Next]_seen
    <2> SUFFICES ASSUME damage = {} => PInv, damage' = {} => PInv',
                        PInv => seen = found, PInv' => seen' = found',
                        [Next]_vars, damage' = {}, seen' # seen
                 PROVE  Memory!Next
        BY Zenon
    <2>1. CASE Next
        <3>1. PInv /\ PInv' /\ Step /\ seen = found /\ seen' = found'
            BY <2>1, NextKeeps, Zenon DEF Next
        <3>2. currentThread \in Threads
            BY <3>1, Zenon DEF PInv, TypeOK
        <3>3. ASSUME NEW p \in Pages, NEW v \in Versions,
                     found' = [found EXCEPT ![currentThread][p] = <<currentThread, p, v>>]
              PROVE  Memory!Next
            <4>1. <<currentThread, p, v>> \in Contents
                BY <3>2 DEF Contents
            <4>2. found'[currentThread][p] = <<currentThread, p, v>>
                BY <3>2, <3>3, Zenon DEF found
            <4>3. Memory!Stored(currentThread, seen, seen')
                BY <3>1, <3>3, <4>1, <4>2, Zenon DEF Memory!Stored
            <4> QED
                BY <3>2, <4>3, Zenon DEF Memory!Next
        <3>4. ASSUME currentThread' # currentThread,
                     found' = [found EXCEPT ![currentThread] = [p \in Pages |-> FromFile(p)]]
              PROVE  Memory!Next
            <4>1. Memory!Ended(currentThread, seen, seen')
                BY <3>1, <3>2, <3>4, Zenon DEF Memory!Ended
            <4> QED
                BY <3>2, <4>1, Zenon DEF Memory!Next
        <3> QED
            BY <3>1, <3>3, <3>4, Zenon DEF Step
    <2>2. CASE UNCHANGED vars
        <3>1. damage = {} /\ found' = found
            BY <2>2, Zenon DEF vars, found
        <3> QED
            BY <3>1, Zenon
    <2> QED
        BY <2>1, <2>2
<1> QED
    BY <1>1, <1>2, PagingInvariant, SeenFound, PTL DEF Spec, ImplementsMemory
=============================================================================
