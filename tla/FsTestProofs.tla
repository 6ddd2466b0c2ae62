---------------------------- MODULE FsTestProofs ----------------------------
(***************************************************************************)
(* The file system with its clients: their calls keep FsInv, the test      *)
(* routines CmdInv, and what follows from both: BitmapExact,               *)
(* StopHarmsOneFile and ClientsServed.                                     *)
(***************************************************************************)
EXTENDS FsTest, FileSystemProofs

-----------------------------------------------------------------------------
(* The calls of a client.                                                  *)

(* FindIndex finds a file that there is.                                   *)
LEMMA Found ==
    ASSUME NEW T, TableOK(T), NEW name, WithName(T, name) # {}
    PROVE  \E x \in Used(T) : T[x].name = name /\ First(WithName(T, name)) = x
<1>1. PICK x \in Used(T) : T[x].name = name
    BY LookupNone, Zenon DEF NamesIn
<1> QED
    BY <1>1, Lookup, Zenon

(* Open finds the header of the file.                                      *)
LEMMA OpenInv ==
    ASSUME FsInv, NEW name, Open(name)
    PROVE  /\ FsInv' /\ UNCHANGED <<todo, writes, mounted, op, files>>
           /\ openFile'.name = name /\ openFile'.seek = 0 /\ name \in DOMAIN files
<1>1. Idle /\ openFile = NULL /\ UNCHANGED <<header, data, mounted, todo, writes, op, files>>
    BY Zenon DEF Open, disk
<1>2. PICK T, M : Quiet(T, M)
    BY <1>1, IdlePhase, Zenon
<1>3. Table = T /\ TableOK(T)
    BY <1>1, <1>2, IdlePhase, QuietReads, Zenon
<1>4. WithName(T, name) # {} /\ openFile' = NewOpenFile(name, T[First(WithName(T, name))].sector)
    BY <1>3, Zenon DEF Open
<1>5. PICK x \in Used(T) : T[x].name = name /\ First(WithName(T, name)) = x
    BY <1>3, <1>4, Found, Zenon
<1>6. openFile' = [name |-> T[x].name, seek |-> 0, hdr |-> HdrOf(T, x)]
    BY <1>4, <1>5, Zenon DEF NewOpenFile, HdrOf
<1>7. FsInv'
    BY <1>1, <1>2, <1>6, OpenFrame, Zenon
<1>8. openFile'.name = name /\ openFile'.seek = 0
    BY <1>5, <1>6
<1>9. name \in DOMAIN files
    BY <1>2, <1>5, Zenon DEF Quiet, NamesIn
<1> QED
    BY <1>1, <1>7, <1>8, <1>9, Zenon

(* The file is closed, by the client or by a new run of Nachos.            *)
LEMMA CloseInv ==
    ASSUME FsInv, Close \/ Reboot
    PROVE  FsInv' /\ UNCHANGED <<writes, op, files>>
<1>1. /\ Idle /\ UNCHANGED <<header, data, writes, op, files>> /\ openFile' = NULL
      /\ \/ todo' = todo /\ mounted' = mounted
         \/ todo' = <<OpenFiles>> /\ mounted' = NULL
    BY Zenon DEF Close, Reboot, disk
<1>2. PICK T, M : Quiet(T, M)
    BY <1>1, IdlePhase, Zenon
<1> QED
    BY <1>1, <1>2, OpenFrame, Zenon

(* Read and Seek move seekPosition.                                        *)
LEMMA SeekInv ==
    ASSUME FsInv, Idle, openFile # NULL, NEW n \in Nat, openFile' = [openFile EXCEPT !.seek = n],
           UNCHANGED <<header, data, mounted, todo, writes, op, files>>
    PROVE  FsInv'
<1>1. PICK T, M : Quiet(T, M)
    BY IdlePhase, Zenon
<1>2. PICK x \in Used(T) : openFile = [name |-> T[x].name, seek |-> openFile.seek, hdr |-> HdrOf(T, x)]
    BY <1>1, OpenedFile, Zenon
<1>3. openFile' = [name |-> T[x].name, seek |-> n, hdr |-> HdrOf(T, x)]
    BY <1>2
<1> QED
    BY <1>1, <1>3, OpenFrame, Zenon

(* What is read or written is in the file.                                 *)
LEMMA TransferredIs ==
    ASSUME NEW h, HeaderOK(h), NEW n \in Nat, NEW at \in Nat
    PROVE  /\ Transferred(h, n, at) \in Nat /\ h.numBytes \in Nat
           /\ Transferred(h, n, at) = IF n = 0 \/ at >= h.numBytes THEN 0
                                      ELSE IF at + n > h.numBytes THEN h.numBytes - at ELSE n
<1>1. h.numBytes \in Nat
    BY Zenon DEF HeaderOK, Headers
<1> QED
    BY <1>1 DEF Transferred

(* OpenFile::Read.                                                         *)
LEMMA ReadInv ==
    ASSUME FsInv, NEW n \in Nat, Read(n)
    PROVE  FsInv' /\ UNCHANGED <<todo, writes, mounted, op, files>>
<1>1. Idle /\ openFile # NULL /\ UNCHANGED <<header, data, mounted, todo, writes, op, files>>
    BY Zenon DEF Read, disk
<1>2. PICK T, M : Quiet(T, M)
    BY <1>1, IdlePhase, Zenon
<1>3. openFile.seek \in Nat /\ HeaderOK(openFile.hdr)
    BY <1>1, <1>2, OpenedFile, Zenon
<1>4. PICK m \in Nat : m = Transferred(openFile.hdr, n, openFile.seek)
    BY <1>3, TransferredIs, Zenon
<1>5. openFile' = [openFile EXCEPT !.seek = openFile.seek + m] /\ openFile.seek + m \in Nat
    BY <1>3, <1>4 DEF Read
<1>6. FsInv'
    BY <1>1, <1>5, SeekInv, Zenon
<1> QED
    BY <1>1, <1>6, Zenon

(* OpenFile::Write says what the file is to hold, and WriteAt is called.   *)
LEMMA WriteInv ==
    ASSUME FsInv, NEW from, NEW n \in Nat, Write(from, n)
    PROVE  FsInv' /\ DOMAIN files' = DOMAIN files
<1>1. Idle /\ openFile # NULL /\ UNCHANGED <<header, data, mounted, writes>>
    BY Zenon DEF Write, disk
<1>2. PICK T, M : Quiet(T, M)
    BY <1>1, IdlePhase, Zenon
<1>3. PICK x \in Used(T) :
              /\ openFile = [name |-> T[x].name, seek |-> openFile.seek, hdr |-> HdrOf(T, x)]
              /\ openFile.name = T[x].name /\ openFile.hdr = HdrOf(T, x) /\ openFile.seek \in Nat
              /\ T[x].name \in DOMAIN files /\ HeaderOK(HdrOf(T, x))
              /\ Holds(HdrOf(T, x), files[T[x].name])
    BY <1>1, <1>2, OpenedFile, Zenon
<1>4. PICK at \in Nat : at = openFile.seek
    BY <1>3, Zenon
<1>5. PICK h : h = HdrOf(T, x)
    BY Zenon
<1>6. PICK name : name = T[x].name
    BY Zenon
<1>7. PICK m \in Nat : m = Transferred(h, n, at)
    BY <1>3, <1>5, TransferredIs, Zenon
<1>8. PICK old : old = files[name]
    BY Zenon
<1>9. PICK want : want = [i \in DOMAIN old |-> IF i \in at..(at + m - 1) THEN from[i - at] ELSE old[i]]
    BY Zenon
<1>10. openFile.name = name /\ openFile.hdr = h /\ openFile.seek = at /\ name \in DOMAIN files
       /\ openFile = [name |-> name, seek |-> at, hdr |-> h]
    BY <1>3, <1>4, <1>5, <1>6, Zenon
<1>11. /\ todo' = <<WriteFile(h, from, n, at)>> /\ op' = name
       /\ openFile' = [openFile EXCEPT !.seek = at + m]
       /\ files' = [files EXCEPT ![name] = want]
    <2>1. Transferred(openFile.hdr, n, openFile.seek) = m
        BY <1>7, <1>10, Zenon
    <2>2. /\ todo' = <<WriteFile(openFile.hdr, from, n, openFile.seek)>> /\ op' = openFile.name
          /\ openFile' = [openFile EXCEPT !.seek = @ + m]
          /\ files' = [files EXCEPT ![openFile.name] =
                 [i \in DOMAIN @ |-> IF i \in openFile.seek..(openFile.seek + m - 1)
                                     THEN from[i - openFile.seek] ELSE @[i]]]
        BY <2>1, Zenon DEF Write
    <2> QED
        BY <1>8, <1>9, <1>10, <2>2, Zenon
<1>12. /\ DOMAIN files' = DOMAIN files /\ files'[name] = want
       /\ \A k \in DOMAIN files : k # name => files'[k] = files[k]
    BY <1>10, <1>11, Zenon
<1>13. openFile' = [name |-> name, seek |-> at + m, hdr |-> h] /\ at + m \in Nat
    BY <1>10, <1>11
<1>14. Base(T, M) /\ TableStored(T) /\ MapStored(M) /\ Filled(T, {}) /\ DOMAIN files = NamesIn(T)
       /\ writes = <<>> /\ todo = <<>> /\ mounted = Mounted /\ TableOK(T)
    BY <1>1, <1>2, IdlePhase, Zenon DEF Quiet, Base
<1>15. TableStored(T)' /\ MapStored(M)'
    BY <1>1, <1>14, Zenon DEF TableStored, MapStored, OnDisk, Cell
<1>16. \A e \in Used(T) : HdrOf(T, e)' = HdrOf(T, e)
    BY <1>1 DEF HdrOf
<1>17. Filled(T, {name})'
    <2>1. ASSUME NEW e \in Used(T), T[e].name \notin {name}
          PROVE  T[e].name \in DOMAIN files' /\ Holds(HdrOf(T, e), files[T[e].name])'
        <3>1. PICK g : g = HdrOf(T, e)
            BY Zenon
        <3>2. T[e].name \in DOMAIN files /\ Holds(g, files[T[e].name])
            BY <1>14, <3>1, Zenon DEF Filled
        <3>3. files'[T[e].name] = files[T[e].name]
            BY <1>12, <2>1, <3>2, Zenon
        <3>4. Holds(g, files[T[e].name])'
            BY <1>1, <3>2, <3>3 DEF Holds, Cell
        <3> QED
            BY <1>12, <1>16, <3>1, <3>2, <3>4
    <2> QED
        BY <2>1 DEF Filled
<1>18. Base(T, M)'
    <2>1. header'[FreeMapSector] = MapHdr /\ header'[DirectorySector] = DirHdr
        BY <1>1, <1>14, Zenon DEF Base
    <2>2. HeaderKept(HeaderSectors(T))
        BY <1>1, Zenon DEF HeaderKept
    <2>3. Apart(T)' /\ MapOf(T)' = MapOf(T)
        BY <1>14, <2>2, ApartFrame, Zenon DEF Base
    <2>4. openFile' \in [name : {T[x].name}, seek : Nat, hdr : {h}] /\ openFile'.name = name
        BY <1>6, <1>13
    <2>5. \E e \in Used(T) : openFile' \in [name : {T[e].name}, seek : Nat, hdr : {HdrOf(T, e)'}]
        BY <1>5, <1>16, <2>4, Zenon
    <2>6. Opened(T)'
        BY <1>10, <1>12, <2>4, <2>5 DEF Opened
    <2> QED
        BY <1>14, <2>1, <2>3, <2>6 DEF Base
<1>19. WriteOp(T, M, x)'
    BY <1>1, <1>6, <1>11, <1>12, <1>14, <1>15, <1>17, <1>18 DEF WriteOp
<1>20. Promised(h, Overwritten(h, from, n, at), files[T[x].name])'
    <2>1. DOMAIN old = Positions(h) /\ \A p \in Positions(h) : old[p] \in {"any", Cell(h, p)}
        BY <1>3, <1>5, <1>6, <1>8, Zenon DEF Holds
    <2>2. DOMAIN want = Positions(h)
        BY <1>9, <2>1, Zenon
    <2>3. ASSUME NEW p \in Positions(h) PROVE want[p] \in {"any", Overwritten(h, from, n, at)[p]'}
        <3>1. Overwritten(h, from, n, at)[p]' = IF p \in at..(at + m - 1) THEN from[p - at] ELSE Cell(h, p)
            BY <1>1, <1>7 DEF Overwritten, Cell
        <3>2. want[p] = IF p \in at..(at + m - 1) THEN from[p - at] ELSE old[p]
            BY <1>9, <2>1, Zenon
        <3> QED
            BY <2>1, <3>1, <3>2, Zenon
    <2> QED
        BY <1>6, <1>12, <2>2, <2>3 DEF Promised
<1>21. Write1(T, M, x, h, from, n, at)'
    BY <1>1, <1>5, <1>11, <1>14, <1>16, <1>19, <1>20 DEF Write1
<1>22. DiskOK'
    BY <1>1, Zenon DEF FsInv, DiskOK
<1>23. Writing(T, M)'
    BY <1>21 DEF Writing
<1> QED
    BY <1>12, <1>22, <1>23 DEF FsInv, Phase

(* Find returns a sector that is not in use.                               *)
LEMMA FindClear ==
    ASSUME NEW map \in SUBSET Sectors, ~Full(map)
    PROVE  Find(map) \in Sectors \ map
<1>1. Sectors \ map # {} /\ Sectors \ map \in SUBSET Nat
    BY SectorsFacts, Zenon DEF Full, Sectors
<1>2. PICK s \in Sectors \ map : \A t \in Sectors \ map : s <= t
    BY <1>1, Smallest, Zenon
<1>3. ASSUME NEW t \in 0..(s - 1) PROVE t \in map
    <2>1. s \in Nat /\ s < NumSectors /\ NumSectors \in Nat
        BY <1>1, <1>2, SectorsFacts DEF Sectors
    <2>2. t \in Sectors /\ ~(s <= t)
        BY <2>1 DEF Sectors
    <2> QED
        BY <1>2, <2>2, Zenon
<1>4. \E a \in Sectors : ~Test(map, a) /\ \A t \in 0..(a - 1) : Test(map, t)
    BY <1>2, <1>3, Zenon DEF Test
<1>5. Find(map) \in Sectors /\ ~Test(map, Find(map))
    BY <1>4, Zenon DEF Find
<1> QED
    BY <1>5, Zenon DEF Test

(* Create takes a sector for the header and sectors for the file that are  *)
(* not in use.                                                             *)
LEMMA CreateInv ==
    ASSUME FsInv, NEW name \in Names, NEW size \in Nat, Create(name, size)
    PROVE  /\ FsInv' /\ name \notin DOMAIN files /\ openFile' = openFile
           /\ files' = [k \in DOMAIN files \cup {name} |->
                          IF k = name THEN [i \in 0..(size - 1) |-> "any"] ELSE files[k]]
<1>1. Idle /\ CanCreate(name, size) /\ UNCHANGED <<header, data, mounted, writes, openFile>> /\ op' = name
    BY Zenon DEF Create, disk
<1>2. PICK T, M : Quiet(T, M)
    BY <1>1, IdlePhase, Zenon
<1>3. Table = T /\ FreeMap = M /\ TableOK(T) /\ M \in SUBSET Sectors
      /\ mounted.freeMap = MapHdr /\ mounted.directory = DirHdr
    BY <1>1, <1>2, IdlePhase, QuietReads, Zenon
<1>4. WithName(T, name) = {} /\ FreeEntries(T) # {} /\ ~Full(M) /\ HasRoom(Mark(M, Find(M)), size)
    BY <1>1, <1>3, Zenon DEF CanCreate
<1>5. PICK s \in Sectors \ M : s = Find(M)
    BY <1>3, <1>4, FindClear, Zenon
<1>6. PICK N : N = M \cup {s}
    BY Zenon
<1>7. Mark(M, Find(M)) = N /\ N \in SUBSET Sectors
    BY <1>3, <1>5, <1>6, Zenon DEF Mark
<1>8. PICK h : h = Allocated(N, size)
    BY Zenon
<1>9. HeaderOK(h) /\ h.numBytes = size /\ SectorsOf(h) \subseteq Sectors \ N
    BY <1>4, <1>7, <1>8, AllocatedOK, Zenon
<1>10. PICK T1 : T1 = Add(T, name, s)
    BY Zenon
<1>11. PICK M1 : M1 = M \cup {s} \cup SectorsOf(h)
    BY Zenon
<1>12. todo' = <<WriteHeader(s, h), TableTask(T1), MapTask(M1)>>
    BY <1>3, <1>5, <1>6, <1>7, <1>8, <1>10, <1>11, Zenon DEF Create, TableTask, MapTask
<1>13. files' = [k \in DOMAIN files \cup {name} |->
                    IF k = name THEN [i \in 0..(size - 1) |-> "any"] ELSE files[k]]
    BY Zenon DEF Create
<1>14. Base(T, M) /\ TableStored(T) /\ MapStored(M) /\ Filled(T, {}) /\ DOMAIN files = NamesIn(T)
       /\ writes = <<>> /\ mounted = Mounted
    BY <1>1, <1>2, IdlePhase, Zenon DEF Quiet
<1>15. name \notin NamesIn(T)
    BY <1>4, LookupNone, Zenon
<1>16. /\ DOMAIN files' = NamesIn(T) \cup {name} /\ files'[name] = [i \in 0..(size - 1) |-> "any"]
       /\ \A k \in DOMAIN files : files'[k] = files[k]
    BY <1>13, <1>14, <1>15, Zenon
<1>17. TableStored(T)' /\ MapStored(M)'
    BY <1>1, <1>14, Zenon DEF TableStored, MapStored, OnDisk, Cell
<1>18. \A e \in Used(T) : HdrOf(T, e)' = HdrOf(T, e)
    BY <1>1 DEF HdrOf
<1>19. Filled(T, {})'
    <2>1. ASSUME NEW e \in Used(T)
          PROVE  T[e].name \in DOMAIN files' /\ Holds(HdrOf(T, e), files[T[e].name])'
        <3>1. PICK g : g = HdrOf(T, e)
            BY Zenon
        <3>2. T[e].name \in DOMAIN files /\ Holds(g, files[T[e].name])
            BY <1>14, <3>1, Zenon DEF Filled
        <3>3. files'[T[e].name] = files[T[e].name] /\ T[e].name \in DOMAIN files'
            BY <1>14, <1>16, <3>2, Zenon
        <3>4. Holds(g, files[T[e].name])'
            BY <1>1, <3>2, <3>3 DEF Holds, Cell
        <3> QED
            BY <1>18, <3>1, <3>3, <3>4
    <2> QED
        BY <2>1 DEF Filled
<1>20. Base(T, M)'
    <2>1. header'[FreeMapSector] = MapHdr /\ header'[DirectorySector] = DirHdr
        BY <1>1, <1>14, Zenon DEF Base
    <2>2. HeaderKept(HeaderSectors(T))
        BY <1>1, Zenon DEF HeaderKept
    <2>3. Apart(T)' /\ MapOf(T)' = MapOf(T)
        BY <1>14, <2>2, ApartFrame, Zenon DEF Base
    <2>4. DOMAIN files \subseteq DOMAIN files'
        BY <1>14, <1>16, Zenon
    <2>5. Opened(T)'
        BY <1>1, <1>14, <1>18, <2>4, Zenon DEF Opened, Base
    <2> QED
        BY <1>14, <2>1, <2>3, <2>5 DEF Base
<1>21. SectorsOf(h) \cap (M \cup {s}) = {}
    BY <1>6, <1>9, Zenon
<1>22. DOMAIN files'[name] = Positions(h) /\ \A p \in Positions(h) : files'[name][p] = "any"
    BY <1>9, <1>16 DEF Positions
<1>23. CreateOp(T, M, name, s, h, T1, M1)'
    BY <1>1, <1>4, <1>9, <1>10, <1>11, <1>14, <1>15, <1>16, <1>19, <1>20, <1>21, <1>22, ZenonT(40)
    DEF CreateOp
<1>24. Create1(T, M, name, s, h, T1, M1)'
    BY <1>1, <1>12, <1>14, <1>17, <1>23 DEF Create1
<1>25. DiskOK'
    BY <1>1, Zenon DEF FsInv, DiskOK
<1>26. Creating(T, M)'
    BY <1>24 DEF Creating
<1>27. FsInv'
    BY <1>25, <1>26 DEF FsInv, Phase
<1> QED
    BY <1>1, <1>13, <1>14, <1>15, <1>27, Zenon

(* Remove gives back the sector of the header and those of the file.       *)
LEMMA RemoveInv ==
    ASSUME FsInv, NEW name, Remove(name)
    PROVE  /\ FsInv' /\ openFile' = openFile /\ NotOpen(name)
           /\ files' = [k \in DOMAIN files \ {name} |-> files[k]]
<1>1. Idle /\ NotOpen(name) /\ UNCHANGED <<header, data, mounted, writes, openFile>> /\ op' = name
    BY Zenon DEF Remove, disk, NotOpen
<1>2. PICK T, M : Quiet(T, M)
    BY <1>1, IdlePhase, Zenon
<1>3. Table = T /\ FreeMap = M /\ TableOK(T) /\ M \in SUBSET Sectors
      /\ mounted.freeMap = MapHdr /\ mounted.directory = DirHdr
    BY <1>1, <1>2, IdlePhase, QuietReads, Zenon
<1>4. WithName(T, name) # {}
    BY <1>3, Zenon DEF Remove
<1>5. PICK x \in Used(T) : T[x].name = name /\ First(WithName(T, name)) = x
    BY <1>3, <1>4, Found, Zenon
<1>6. PICK s : s = T[x].sector
    BY Zenon
<1>7. PICK h : h = HdrOf(T, x)
    BY Zenon
<1>8. PICK T1 : T1 = Removed(T, x)
    BY Zenon
<1>9. PICK M1 : M1 = M \ Own(T, x)
    BY Zenon
<1>10. RemoveEntry(T, name) = T1
    BY <1>5, <1>8, Zenon DEF RemoveEntry, Removed
<1>11. Clear(Deallocated(M, h), s) = M1 /\ header[s] = h
    BY <1>6, <1>7, <1>9, Zenon DEF Clear, Deallocated, Own, HdrOf
<1>12. todo' = <<MapTask(M1), TableTask(T1)>>
    BY <1>3, <1>5, <1>6, <1>10, <1>11, Zenon DEF Remove, TableTask, MapTask
<1>13. files' = [k \in DOMAIN files \ {name} |-> files[k]]
    BY Zenon DEF Remove
<1>14. Base(T, M) /\ TableStored(T) /\ MapStored(M) /\ Filled(T, {}) /\ DOMAIN files = NamesIn(T)
       /\ writes = <<>> /\ mounted = Mounted
    BY <1>1, <1>2, IdlePhase, Zenon DEF Quiet
<1>15. /\ DOMAIN files' = DOMAIN files \ {name}
       /\ \A k \in DOMAIN files : k # name => files'[k] = files[k]
    BY <1>13, Zenon
<1>16. NamesIn(T) = DOMAIN files' \cup {name} /\ name \notin DOMAIN files'
    BY <1>5, <1>14, <1>15, Zenon DEF NamesIn
<1>17. TableStored(T)' /\ MapStored(M)'
    BY <1>1, <1>14, Zenon DEF TableStored, MapStored, OnDisk, Cell
<1>18. \A e \in Used(T) : HdrOf(T, e)' = HdrOf(T, e)
    BY <1>1 DEF HdrOf
<1>19. Filled(T, {name})'
    <2>1. ASSUME NEW e \in Used(T), T[e].name \notin {name}
          PROVE  T[e].name \in DOMAIN files' /\ Holds(HdrOf(T, e), files[T[e].name])'
        <3>1. PICK g : g = HdrOf(T, e)
            BY Zenon
        <3>2. T[e].name \in DOMAIN files /\ Holds(g, files[T[e].name])
            BY <1>14, <3>1, Zenon DEF Filled
        <3>3. files'[T[e].name] = files[T[e].name] /\ T[e].name \in DOMAIN files'
            BY <1>15, <2>1, <3>2, Zenon
        <3>4. Holds(g, files[T[e].name])'
            BY <1>1, <3>2, <3>3 DEF Holds, Cell
        <3> QED
            BY <1>18, <3>1, <3>3, <3>4
    <2> QED
        BY <2>1 DEF Filled
<1>20. Base(T, M)'
    <2>1. header'[FreeMapSector] = MapHdr /\ header'[DirectorySector] = DirHdr
        BY <1>1, <1>14, Zenon DEF Base
    <2>2. HeaderKept(HeaderSectors(T))
        BY <1>1, Zenon DEF HeaderKept
    <2>3. Apart(T)' /\ MapOf(T)' = MapOf(T)
        BY <1>14, <2>2, ApartFrame, Zenon DEF Base
    <2>4. openFile # NULL => openFile.name \in DOMAIN files'
        BY <1>1, <1>14, <1>15, Zenon DEF NotOpen, Base, Opened
    <2>5. Opened(T)'
        BY <1>1, <1>14, <1>18, <2>4 DEF Opened, Base
    <2> QED
        BY <1>14, <2>1, <2>3, <2>5 DEF Base
<1>21. Own(T, x)' = Own(T, x)
    BY <1>18 DEF Own
<1>22. RemoveOp(T, M, x, T1, M1)'
    BY <1>1, <1>5, <1>8, <1>9, <1>14, <1>16, <1>19, <1>20, <1>21, ZenonT(40) DEF RemoveOp
<1>23. Remove1(T, M, x, T1, M1)'
    BY <1>1, <1>12, <1>14, <1>17, <1>22 DEF Remove1
<1>24. DiskOK'
    BY <1>1, Zenon DEF FsInv, DiskOK
<1>25. Removing(T, M)'
    BY <1>23 DEF Removing
<1>26. FsInv'
    BY <1>24, <1>25 DEF FsInv, Phase
<1> QED
    BY <1>1, <1>13, <1>26, Zenon

(* Nothing changes.                                                        *)
LEMMA SameInv ==
    ASSUME FsInv, UNCHANGED vars
    PROVE  FsInv'
<1>1. UNCHANGED <<header, data, mounted, todo, writes, openFile, op, files>>
    BY DEF vars, disk
<1>2. SameDisk
    BY <1>1, Zenon DEF SameDisk
<1>3. DiskOK'
    BY <1>1, Zenon DEF FsInv, DiskOK
<1>4. ASSUME NEW h, NEW cells, Arriving(h, cells) PROVE Arriving(h, cells)'
    BY <1>1, <1>4 DEF Arriving, InTransit, Cell
<1>5. ASSUME NEW T, NEW x PROVE HdrOf(T, x)' = HdrOf(T, x) /\ Own(T, x)' = Own(T, x)
    BY <1>1 DEF HdrOf, Own
<1>6. ASSUME NEW T, NEW M PROVE Base(T, M) => Base(T, M)'
    BY <1>2, DiskFrame, Zenon
<1>7. \A M : MapStored(M) => MapStored(M)'
    BY <1>2, DiskFrame, Zenon
<1>8. \A T : TableStored(T) => TableStored(T)'
    BY <1>2, DiskFrame, Zenon
<1>9. \A T, X : Filled(T, X) => Filled(T, X)'
    BY <1>2, DiskFrame, Zenon
<1>10. \A h, old, new : Mixed(h, old, new) => Mixed(h, old, new)'
    BY <1>2, DiskFrame, Zenon
<1>11. ASSUME Blank \/ Formatting PROVE Phase'
    <2>1. Fresh => Fresh'
        BY <1>1, Zenon DEF Fresh
    <2>2. Blank' \/ Format1' \/ Format2' \/ Format3' \/ Format4'
          \/ Format5 \/ Format6
        BY <1>1, <1>6, <1>11, <2>1, Zenon
            DEF Formatting, Blank, Format1, Format2, Format3, Format4
    <2>3. Format5 => Format5'
        BY <1>1, <1>4, <1>6, <2>1, Zenon DEF Format5
    <2>4. Format6 => Format6'
        BY <1>1, <1>4, <1>6, <1>7, <2>1, Zenon DEF Format6
    <2> QED
        BY <2>2, <2>3, <2>4, Zenon DEF Phase, Formatting
<1>12. ASSUME NEW T, NEW M PROVE Quiet(T, M) => Quiet(T, M)'
    BY <1>1, <1>6, <1>7, <1>8, <1>9, Zenon DEF Quiet
<1>13. ASSUME NEW T, NEW M, Writing(T, M) PROVE Writing(T, M)'
    <2>1. ASSUME NEW x, WriteOp(T, M, x) PROVE WriteOp(T, M, x)'
        BY <1>1, <1>6, <1>7, <1>8, <1>9, <2>1, Zenon DEF WriteOp
    <2>2. ASSUME NEW x, NEW h, NEW from, NEW n, NEW at, Write1(T, M, x, h, from, n, at)
          PROVE  Write1(T, M, x, h, from, n, at)'
        <3>1. Promised(h, Overwritten(h, from, n, at), files[T[x].name])'
            BY <1>1, <2>2, ZenonT(40) DEF Write1, Promised, Overwritten, Cell
        <3> QED
            BY <1>1, <1>5, <2>1, <2>2, <3>1, ZenonT(40) DEF Write1
    <2>3. ASSUME NEW x, NEW h, NEW cells, Write2(T, M, x, h, cells)
          PROVE  Write2(T, M, x, h, cells)'
        <3>1. Promised(h, cells, files[T[x].name])'
            BY <1>1, <2>3 DEF Write2, Promised
        <3> QED
            BY <1>1, <1>4, <1>5, <2>1, <2>3, <3>1, ZenonT(40) DEF Write2
    <2> QED
        BY <1>13, <2>2, <2>3 DEF Writing
<1>14. ASSUME NEW T, NEW M, Creating(T, M) PROVE Creating(T, M)'
    <2>1. PICK name, s, h, T1, M1 : \/ Create1(T, M, name, s, h, T1, M1)
                                    \/ Create2(T, M, name, s, h, T1, M1)
                                    \/ Create3(T, M, name, s, h, T1, M1)
                                    \/ Create4(T, M, name, s, h, T1, M1)
        BY <1>14, Zenon DEF Creating
    <2>2. CreateOp(T, M, name, s, h, T1, M1)
        BY <2>1, Zenon DEF Create1, Create2, Create3, Create4
    <2>3. Base(T, M)' /\ Filled(T, {})'
        BY <1>6, <1>9, <2>2, Zenon DEF CreateOp
    <2>4. CreateOp(T, M, name, s, h, T1, M1)'
        BY <1>1, <2>2, <2>3, CreateFrame, Zenon
    <2>5. \/ Create1(T, M, name, s, h, T1, M1)' \/ Create2(T, M, name, s, h, T1, M1)'
          \/ Create3(T, M, name, s, h, T1, M1)' \/ Create4(T, M, name, s, h, T1, M1)'
        BY <1>1, <1>4, <1>7, <1>8, <1>10, <2>1, <2>4, Zenon DEF Create1, Create2, Create3, Create4
    <2> QED
        BY <2>5 DEF Creating
<1>15. ASSUME NEW T, NEW M, Removing(T, M) PROVE Removing(T, M)'
    <2>1. PICK x, T1, M1 : \/ Remove1(T, M, x, T1, M1)
                           \/ Remove2(T, M, x, T1, M1)
                           \/ Remove3(T, M, x, T1, M1)
        BY <1>15, Zenon DEF Removing
    <2>2. RemoveOp(T, M, x, T1, M1)
        BY <2>1, Zenon DEF Remove1, Remove2, Remove3
    <2>3. Base(T, M)' /\ Filled(T, {T[x].name})' /\ HeaderKept(HeaderSectors(T))
        BY <1>1, <1>6, <1>9, <2>2, Zenon DEF RemoveOp, HeaderKept
    <2>4. RemoveOp(T, M, x, T1, M1)'
        BY <1>1, <2>2, <2>3, RemoveFrame, Zenon
    <2>5. Remove1(T, M, x, T1, M1)' \/ Remove2(T, M, x, T1, M1)' \/ Remove3(T, M, x, T1, M1)'
        BY <1>1, <1>4, <1>7, <1>8, <1>10, <2>1, <2>4, Zenon DEF Remove1, Remove2, Remove3
    <2> QED
        BY <2>5 DEF Removing
<1>16. Phase'
    BY <1>11, <1>12, <1>13, <1>14, <1>15, Zenon DEF FsInv, Phase
<1> QED
    BY <1>3, <1>16 DEF FsInv

(* What a Write does to the ghosts.                                        *)
Wrote(from, m) ==
    /\ openFile'.name = openFile.name /\ openFile'.seek = openFile.seek + m
    /\ DOMAIN files' = DOMAIN files
    /\ DOMAIN files'[openFile.name] = DOMAIN files[openFile.name]
    /\ \A i \in DOMAIN files[openFile.name] :
          files'[openFile.name][i] = IF i \in openFile.seek..(openFile.seek + m - 1)
                                     THEN from[i - openFile.seek] ELSE files[openFile.name][i]

(* The client's part of a Write.                                           *)
LEMMA WriteEffect ==
    ASSUME FsInv, NEW from, NEW n \in Nat, Write(from, n)
    PROVE  Wrote(from, Transferred(openFile.hdr, n, openFile.seek))
<1>1. Idle /\ openFile # NULL
    BY Zenon DEF Write
<1>2. PICK T, M : Quiet(T, M)
    BY <1>1, IdlePhase, Zenon
<1>3. PICK x \in Used(T) :
              /\ openFile = [name |-> T[x].name, seek |-> openFile.seek, hdr |-> HdrOf(T, x)]
              /\ T[x].name \in DOMAIN files /\ openFile.name = T[x].name
    BY <1>1, <1>2, OpenedFile, Zenon
<1>4. PICK m : m = Transferred(openFile.hdr, n, openFile.seek)
    BY Zenon
<1>5. PICK at : at = openFile.seek
    BY Zenon
<1>6. PICK name : name = openFile.name
    BY Zenon
<1>7. /\ openFile' = [openFile EXCEPT !.seek = at + m]
      /\ files' = [files EXCEPT ![name] =
             [i \in DOMAIN @ |-> IF i \in at..(at + m - 1) THEN from[i - at] ELSE @[i]]]
    BY <1>4, <1>5, <1>6 DEF Write
<1>8. openFile'.name = name /\ openFile'.seek = at + m
    BY <1>3, <1>6, <1>7
<1>9. PICK old : old = files[name]
    BY Zenon
<1>10. PICK want : want = [i \in DOMAIN old |-> IF i \in at..(at + m - 1) THEN from[i - at] ELSE old[i]]
    BY Zenon
<1>11. DOMAIN files' = DOMAIN files /\ files'[name] = want
    BY <1>3, <1>6, <1>7, <1>9, <1>10, Zenon
<1>12. DOMAIN want = DOMAIN old
       /\ \A i \in DOMAIN old : want[i] = IF i \in at..(at + m - 1) THEN from[i - at] ELSE old[i]
    BY <1>10, Zenon
<1> QED
    BY <1>4, <1>5, <1>6, <1>8, <1>9, <1>11, <1>12, Zenon DEF Wrote

(* What the ghosts say of the open file.                                   *)
LEMMA OpenedGhost ==
    ASSUME FsInv, Idle, openFile # NULL
    PROVE  /\ openFile.seek \in Nat /\ openFile.hdr.numBytes \in Nat /\ HeaderOK(openFile.hdr)
           /\ openFile.name \in DOMAIN files
           /\ DOMAIN files[openFile.name] = 0..(openFile.hdr.numBytes - 1)
           /\ Holds(openFile.hdr, files[openFile.name])
<1>1. PICK T, M : Quiet(T, M)
    BY IdlePhase, Zenon
<1>2. /\ openFile.seek \in Nat /\ openFile.name \in DOMAIN files /\ HeaderOK(openFile.hdr)
      /\ Holds(openFile.hdr, files[openFile.name])
    BY <1>1, OpenedFile, Zenon
<1> QED
    BY <1>2, Zenon DEF Holds, Positions, HeaderOK, Headers

-----------------------------------------------------------------------------
(* The test routines.                                                      *)

IsCommand ==
    command = [pc |-> command.pc, file |-> command.file, from |-> command.from,
               rest |-> command.rest, i |-> command.i]

(* The file of `command' is there, with room for what is copied.           *)
CopyFile ==
    /\ command.from \in Seq(Values) /\ command.rest \in Seq(Values)
    /\ command.file \in DOMAIN files
    /\ DOMAIN files[command.file] = 0..(Len(command.from) - 1)

EndOf(from, at, rest) ==
    Len(from) = at + Len(rest) /\ \A j \in 1..Len(rest) : rest[j] = from[at + j]

(* What is left to be copied is the end of the UNIX file.                  *)
Copying ==
    /\ CopyFile
    /\ openFile.name = command.file
    /\ openFile.seek \in Nat /\ EndOf(command.from, openFile.seek, command.rest)
    /\ \A i \in 1..openFile.seek : files[command.file][i - 1] = command.from[i]

Printing ==
    /\ openFile.name = command.file
    /\ IsSequence(command.rest) /\ Len(command.rest) = openFile.seek
    /\ \A i \in DOMAIN command.rest : files[command.file][i - 1] \in {"any", command.rest[i]}

CmdInv ==
    /\ IsCommand
    /\ command.pc = "Copy.Open" => CopyFile /\ command.rest = command.from
    /\ command.pc = "Copy.Write" => Copying
    /\ command.pc = "Print" => Printing

(* A command that is none of these.                                        *)
LEMMA OtherCommand ==
    ASSUME NEW pc, NEW f, NEW from, NEW rest, NEW n, pc \notin {"Copy.Open", "Copy.Write", "Print"},
           command' = [pc |-> pc, file |-> f, from |-> from, rest |-> rest, i |-> n]
    PROVE  CmdInv'
<1>1. IsCommand' /\ command'.pc = pc
    BY DEF IsCommand
<1> QED
    BY <1>1, Zenon DEF CmdInv

(* The commands that main and the routines go on to.                       *)
LEMMA GotoInv ==
    ASSUME CmdInv, NEW pc, pc \notin {"Copy.Open", "Copy.Write", "Print"},
           \/ Goto(pc)
           \/ pc = "main" /\ command' = NextArgument
           \/ pc = command.pc /\ command' = [command EXCEPT !.i = @ + 1]
    PROVE  CmdInv'
<1>1. IsCommand
    BY Zenon DEF CmdInv
<1>2. PICK f, from, rest, n, q :
          command = [pc |-> q, file |-> f, from |-> from, rest |-> rest, i |-> n]
    BY <1>1, Zenon DEF IsCommand
<1>3. CASE Goto(pc)
    <2>1. command' = [pc |-> pc, file |-> f, from |-> from, rest |-> rest, i |-> 0]
        BY <1>2, <1>3, Zenon DEF Goto
    <2> QED
        BY <2>1, OtherCommand, Zenon
<1>4. CASE pc = "main" /\ command' = NextArgument
    <2>1. command' = [pc |-> pc, file |-> NULL, from |-> <<>>, rest |-> <<>>, i |-> 0]
        BY <1>4, Zenon DEF NextArgument, AnyCalls
    <2> QED
        BY <2>1, OtherCommand, Zenon
<1>5. CASE pc = command.pc /\ command' = [command EXCEPT !.i = @ + 1]
    <2>1. command' = [pc |-> pc, file |-> f, from |-> from, rest |-> rest, i |-> n + 1]
        BY <1>2, <1>5
    <2> QED
        BY <2>1, OtherCommand, Zenon
<1> QED
    BY <1>3, <1>4, <1>5, Zenon

(* Steps that leave the client's file as it is.                            *)
LEMMA SameCommand ==
    ASSUME CmdInv, UNCHANGED <<command, files, openFile>>
    PROVE  CmdInv'
<1>1. IsCommand' /\ (CopyFile => CopyFile') /\ (Printing => Printing')
    BY Zenon DEF CmdInv, IsCommand, CopyFile, Printing, IsSequence
<1>2. Copying => Copying'
    BY <1>1, Zenon DEF Copying
<1> QED
    BY <1>1, <1>2, Zenon DEF CmdInv

(* Create gives the copy the size of the UNIX file.                        *)
LEMMA CallCopyInv ==
    ASSUME FsInv, CmdInv, NEW from \in UnixFiles, NEW to \in Names, CallCopy(from, to)
    PROVE  FsInv' /\ CmdInv'
<1>1. from \in Seq(Values) /\ Len(from) \in Nat
    BY FsTestAssumption
<1>2. Create(to, Len(from))
      /\ command' = [pc |-> "Copy.Open", file |-> to, from |-> from, rest |-> from, i |-> 0]
    BY Zenon DEF CallCopy
<1>3. /\ FsInv'
      /\ files' = [k \in DOMAIN files \cup {to} |->
                     IF k = to THEN [i \in 0..(Len(from) - 1) |-> "any"] ELSE files[k]]
    BY <1>1, <1>2, CreateInv, Zenon
<1>4. to \in DOMAIN files' /\ DOMAIN files'[to] = 0..(Len(from) - 1)
    BY <1>3, Zenon
<1>5. /\ command'.pc = "Copy.Open" /\ command'.file = to /\ command'.from = from /\ command'.rest = from
      /\ IsCommand'
    BY <1>2, Zenon DEF IsCommand
<1>6. CopyFile'
    BY <1>1, <1>4, <1>5, Zenon DEF CopyFile
<1>7. "Copy.Open" # "Copy.Write" /\ "Copy.Open" # "Print"
    BY Zenon
<1> QED
    BY <1>3, <1>5, <1>6, <1>7, Zenon DEF CmdInv

(* The copy is opened at its beginning.                                    *)
LEMMA CopyOpenInv ==
    ASSUME FsInv, CmdInv, CopyOpen
    PROVE  FsInv' /\ CmdInv'
<1>1. command.pc = "Copy.Open" /\ Open(command.file) /\ Goto("Copy.Write")
    BY Zenon DEF CopyOpen, At
<1>2. IsCommand /\ CopyFile /\ command.rest = command.from
    BY <1>1, Zenon DEF CmdInv
<1>3. PICK f, from, n : command = [pc |-> "Copy.Open", file |-> f, from |-> from, rest |-> from, i |-> n]
    BY <1>1, <1>2, Zenon DEF IsCommand
<1>4. command.file = f /\ command.from = from /\ command.rest = from
    BY <1>3, Zenon
<1>5. command' = [pc |-> "Copy.Write", file |-> f, from |-> from, rest |-> from, i |-> 0]
    BY <1>1, <1>3, Zenon DEF Goto
<1>6. /\ command'.pc = "Copy.Write" /\ command'.file = f /\ command'.from = from /\ command'.rest = from
      /\ IsCommand'
    BY <1>5, Zenon DEF IsCommand
<1>7. FsInv' /\ files' = files /\ openFile'.name = f /\ openFile'.seek = 0
    BY <1>1, <1>4, OpenInv, Zenon
<1>8. from \in Seq(Values) /\ f \in DOMAIN files /\ DOMAIN files[f] = 0..(Len(from) - 1)
    BY <1>2, <1>4, Zenon DEF CopyFile
<1>9. CopyFile'
    BY <1>6, <1>7, <1>8, Zenon DEF CopyFile
<1>10. /\ Len(from) = 0 + Len(from) /\ 0 \in Nat /\ 1..0 = {}
       /\ \A j \in 1..Len(from) : from[j] = from[0 + j]
    BY <1>8
<1>11. Copying'
    BY <1>6, <1>7, <1>9, <1>10, Zenon DEF Copying, EndOf
<1>12. "Copy.Write" # "Copy.Open" /\ "Copy.Write" # "Print"
    BY Zenon
<1> QED
    BY <1>6, <1>7, <1>11, <1>12, Zenon DEF CmdInv

(* A buffer holds k values of a sequence.                                  *)
Chunked(buf, from, at, k) == \A i \in 0..(k - 1) : buf[i] = from[at + i + 1]

(* A chunk from the end of one sequence, as the beginning of the rest of   *)
(* another.                                                                *)
LEMMA Chunk ==
    ASSUME NEW from \in Seq(Values), NEW rest \in Seq(Values), NEW at \in Nat, EndOf(from, at, rest),
           NEW k \in 1..Len(rest)
    PROVE  /\ SubSeq(rest, k + 1, Len(rest)) \in Seq(Values)
           /\ EndOf(from, at + k, SubSeq(rest, k + 1, Len(rest)))
           /\ Chunked(Buffer(SubSeq(rest, 1, k)), from, at, k)
<1>0. PICK left : left = SubSeq(rest, k + 1, Len(rest))
    BY Zenon
<1>1. Len(rest) \in Nat /\ k \in Nat /\ 1 <= k /\ k <= Len(rest)
    OBVIOUS
<1>2. left \in Seq(Values) /\ Len(left) = Len(rest) - k
    BY <1>0, <1>1
<1>3. ASSUME NEW j \in 1..Len(left) PROVE left[j] = from[(at + k) + j]
    <2>1. left[j] = rest[k + j] /\ k + j \in 1..Len(rest)
        BY <1>0, <1>1, <1>2
    <2>2. at + (k + j) = (at + k) + j
        BY <1>1, <1>2
    <2>3. rest[k + j] = from[at + (k + j)]
        BY <2>1, Zenon DEF EndOf
    <2> QED
        BY <2>1, <2>2, <2>3, Zenon
<1>4. ASSUME NEW i \in 0..(k - 1) PROVE Buffer(SubSeq(rest, 1, k))[i] = from[at + i + 1]
    <2>1. PICK b : b = SubSeq(rest, 1, k)
        BY Zenon
    <2>2. Len(b) = k /\ i + 1 \in 1..k /\ b[i + 1] = rest[i + 1]
        BY <1>1, <2>1
    <2>3. Buffer(b)[i] = b[i + 1]
        BY <2>2 DEF Buffer
    <2>4. i + 1 \in 1..Len(rest) /\ at + (i + 1) = at + i + 1
        BY <1>1
    <2>5. rest[i + 1] = from[at + i + 1]
        <3>1. rest[i + 1] = from[at + (i + 1)]
            BY <2>4, Zenon DEF EndOf
        <3> QED
            BY <2>4, <3>1
    <2> QED
        BY <2>1, <2>2, <2>3, <2>5, Zenon
<1>5. Len(from) = (at + k) + Len(left)
    <2>1. Len(from) = at + Len(rest)
        BY Zenon DEF EndOf
    <2> QED
        BY <1>1, <1>2, <2>1
<1>6. EndOf(from, at + k, left)
    BY <1>3, <1>5, Zenon DEF EndOf
<1>7. Chunked(Buffer(SubSeq(rest, 1, k)), from, at, k)
    BY <1>4, Zenon DEF Chunked
<1> QED
    BY <1>0, <1>2, <1>6, <1>7, Zenon

(* Intervals from 0 of the same size.                                      *)
LEMMA SameSize ==
    ASSUME NEW a \in Nat, NEW b \in Nat, 0..(a - 1) = 0..(b - 1)
    PROVE  a = b
<1>1. a <= b
    <2>1. CASE a = 0
        BY <2>1
    <2>2. CASE a # 0
        <3>1. a - 1 \in 0..(b - 1)
            BY <2>2
        <3> QED
            BY <3>1
    <2> QED
        BY <2>1, <2>2
<1>2. b <= a
    <2>1. CASE b = 0
        BY <2>1
    <2>2. CASE b # 0
        <3>1. b - 1 \in 0..(a - 1)
            BY <2>2
        <3> QED
            BY <3>1
    <2> QED
        BY <2>1, <2>2
<1> QED
    BY <1>1, <1>2

(* What Copy hands to Write.                                               *)
amountRead == IF Len(command.rest) < TransferSize THEN Len(command.rest) ELSE TransferSize

(* One turn of Copy's loop writes the next chunk, all of it.               *)
LEMMA CopyChunkInv ==
    ASSUME FsInv, CmdInv, CopyChunk
    PROVE  FsInv' /\ CmdInv'
<1>1. /\ Idle /\ command.pc = "Copy.Write" /\ amountRead > 0
      /\ Write(Buffer(SubSeq(command.rest, 1, amountRead)), amountRead)
      /\ command' = [command EXCEPT !.rest = SubSeq(@, amountRead + 1, Len(@))]
    BY Zenon DEF CopyChunk, At, amountRead
<1>2. IsCommand /\ Copying
    BY <1>1, Zenon DEF CmdInv
<1>3. PICK f, from, rest, n :
          command = [pc |-> "Copy.Write", file |-> f, from |-> from, rest |-> rest, i |-> n]
    BY <1>1, <1>2, Zenon DEF IsCommand
<1>4. command.file = f /\ command.from = from /\ command.rest = rest
    BY <1>3, Zenon
<1>5. PICK at : at = openFile.seek
    BY Zenon
<1>6. /\ from \in Seq(Values) /\ rest \in Seq(Values) /\ f \in DOMAIN files
      /\ DOMAIN files[f] = 0..(Len(from) - 1) /\ openFile.name = f /\ at \in Nat
      /\ EndOf(from, at, rest) /\ Len(from) = at + Len(rest)
      /\ \A i \in 1..at : files[f][i - 1] = from[i]
    BY <1>2, <1>4, <1>5, Zenon DEF Copying, CopyFile, EndOf
<1>7. PICK k : k = amountRead
    BY Zenon
<1>8. k \in 1..Len(rest) /\ k \in Nat /\ k > 0
    <2>1. TransferSize \in Nat \ {0} /\ Len(rest) \in Nat
        BY <1>6, FsTestAssumption
    <2>2. k = (IF Len(rest) < TransferSize THEN Len(rest) ELSE TransferSize) /\ k > 0
        BY <1>1, <1>4, <1>7, Zenon DEF amountRead
    <2> QED
        BY <2>1, <2>2
<1>9. PICK buf : buf = Buffer(SubSeq(rest, 1, k))
    BY Zenon
<1>10. PICK left : left = SubSeq(rest, k + 1, Len(rest))
    BY Zenon
<1>11. Write(buf, k)
    BY <1>1, <1>4, <1>7, <1>9, Zenon
<1>12. command' = [pc |-> "Copy.Write", file |-> f, from |-> from, rest |-> left, i |-> n]
    BY <1>1, <1>3, <1>7, <1>10, Zenon
<1>13. /\ command'.pc = "Copy.Write" /\ command'.file = f /\ command'.from = from /\ command'.rest = left
       /\ IsCommand'
    BY <1>12, Zenon DEF IsCommand
<1>14. FsInv' /\ Wrote(buf, Transferred(openFile.hdr, k, at))
    BY <1>5, <1>8, <1>11, WriteInv, WriteEffect, Zenon
<1>15. Transferred(openFile.hdr, k, at) = k
    <2>1. openFile # NULL
        BY <1>11, Zenon DEF Write
    <2>2. openFile.hdr.numBytes \in Nat /\ DOMAIN files[f] = 0..(openFile.hdr.numBytes - 1)
        BY <1>1, <1>6, <2>1, OpenedGhost, Zenon
    <2>3. Len(from) \in Nat /\ Len(rest) \in Nat
        BY <1>6
    <2>4. openFile.hdr.numBytes = Len(from)
        BY <1>6, <2>2, <2>3, SameSize, Zenon
    <2> QED
        BY <1>6, <1>8, <2>3, <2>4 DEF Transferred
<1>16. /\ openFile'.name = f /\ openFile'.seek = at + k /\ f \in DOMAIN files'
       /\ DOMAIN files'[f] = 0..(Len(from) - 1)
       /\ \A i \in DOMAIN files[f] :
             files'[f][i] = IF i \in at..(at + k - 1) THEN buf[i - at] ELSE files[f][i]
    BY <1>5, <1>6, <1>14, <1>15, Zenon DEF Wrote
<1>17. /\ left \in Seq(Values) /\ EndOf(from, at + k, left)
       /\ Chunked(buf, from, at, k)
    BY <1>6, <1>8, <1>9, <1>10, Chunk, Zenon
<1>18. ASSUME NEW i \in 1..(at + k) PROVE files'[f][i - 1] = from[i]
    <2>1. i - 1 \in DOMAIN files[f]
        <3>1. Len(from) \in Nat /\ Len(rest) \in Nat
            BY <1>6
        <3> QED
            BY <1>6, <1>8, <3>1
    <2>2. CASE i <= at
        <3>1. ~(i - 1 \in at..(at + k - 1)) /\ i \in 1..at
            BY <1>6, <1>8, <2>2
        <3> QED
            BY <1>6, <1>16, <2>1, <3>1, Zenon
    <2>3. CASE ~(i <= at)
        <3>1. i - 1 \in at..(at + k - 1) /\ i - 1 - at \in 0..(k - 1) /\ at + (i - 1 - at) + 1 = i
            BY <1>6, <1>8, <2>3
        <3> QED
            BY <1>16, <1>17, <2>1, <3>1, Zenon DEF Chunked
    <2> QED
        BY <2>2, <2>3, Zenon
<1>19. CopyFile'
    BY <1>6, <1>13, <1>16, <1>17, Zenon DEF CopyFile
<1>20. at + k \in Nat
    BY <1>6, <1>8
<1>21. Copying'
    BY <1>13, <1>16, <1>17, <1>18, <1>19, <1>20, Zenon DEF Copying
<1>22. "Copy.Write" # "Copy.Open" /\ "Copy.Write" # "Print"
    BY Zenon
<1> QED
    BY <1>13, <1>14, <1>21, <1>22, Zenon DEF CmdInv

Joined(a, b, n, k, c) ==
    /\ IsSequence(c) /\ Len(c) = n + k /\ DOMAIN c = 1..(n + k) /\ DOMAIN a = 1..n
    /\ \A i \in 1..(n + k) : c[i] = IF i <= n THEN a[i] ELSE b[i - n]

(* A sequence with another one after it.                                   *)
LEMMA Appended ==
    ASSUME NEW a, IsSequence(a), NEW b, IsSequence(b), NEW n, n = Len(a), NEW k, k = Len(b),
           NEW c, c = a \o b
    PROVE  Joined(a, b, n, k, c)
<1>1. PICK S : a \in Seq(S)
    BY Zenon DEF IsSequence
<1>2. PICK R : b \in Seq(R)
    BY Zenon DEF IsSequence
<1>3. PICK Q : Q = S \cup R
    BY Zenon
<1>4. a \in Seq(Q) /\ b \in Seq(Q)
    BY <1>1, <1>2, <1>3
<1>5. c \in Seq(Q) /\ n \in Nat /\ k \in Nat /\ Len(c) = n + k /\ DOMAIN c = 1..(n + k) /\ DOMAIN a = 1..n
    BY <1>4
<1>6. \A i \in 1..(n + k) : c[i] = IF i <= n THEN a[i] ELSE b[i - n]
    BY <1>4, <1>5
<1>7. IsSequence(c)
    BY <1>5, Zenon DEF IsSequence
<1> QED
    BY <1>5, <1>6, <1>7, Zenon DEF Joined

(* What a Read returns is what the file ought to hold.                     *)
LEMMA CellsRead ==
    ASSUME FsInv, Idle, openFile # NULL, NEW n \in Nat, NEW at, at = openFile.seek,
           NEW m, m = Amount(n), NEW cells, cells = Cells(n)
    PROVE  /\ at \in Nat /\ m \in Nat /\ IsSequence(cells) /\ Len(cells) = m
           /\ \A j \in 1..m : files[openFile.name][at + j - 1] \in {"any", cells[j]}
<1>1. /\ at \in Nat /\ HeaderOK(openFile.hdr) /\ openFile.hdr.numBytes \in Nat
      /\ Holds(openFile.hdr, files[openFile.name])
    BY OpenedGhost, Zenon
<1>2. PICK h : h = openFile.hdr
    BY Zenon
<1>3. m \in Nat /\ m = Transferred(h, n, at)
    BY <1>1, <1>2, TransferredIs, Zenon DEF Amount
<1>4. m = IF n = 0 \/ at >= h.numBytes THEN 0 ELSE IF at + n > h.numBytes THEN h.numBytes - at ELSE n
    BY <1>1, <1>2, <1>3, TransferredIs, Zenon
<1>5. PICK got : got = ReadAt(h, n, at)
    BY Zenon
<1>6. cells = [i \in 1..m |-> got[i - 1]]
    BY <1>2, <1>5, Zenon DEF Cells
<1>7. IsSequence(cells) /\ Len(cells) = m
    <2>1. PICK S : S = {got[i - 1] : i \in 1..m}
        BY Zenon
    <2>2. cells \in Seq(S) /\ Len(cells) = m
        BY <1>3, <1>6, <2>1
    <2> QED
        BY <2>2, Zenon DEF IsSequence
<1>8. ASSUME NEW j \in 1..m PROVE files[openFile.name][at + j - 1] \in {"any", cells[j]}
    <2>1. /\ j - 1 \in 0..(m - 1) /\ at + (j - 1) \in Positions(h) /\ at + (j - 1) = at + j - 1
        BY <1>1, <1>2, <1>3, <1>4 DEF Positions
    <2>2. got[j - 1] = Cell(h, at + (j - 1))
        BY <1>3, <1>5, <2>1, Zenon DEF ReadAt, Cell
    <2>3. cells[j] = Cell(h, at + (j - 1))
        BY <1>6, <2>2, Zenon
    <2>4. files[openFile.name][at + (j - 1)] \in {"any", Cell(h, at + (j - 1))}
        BY <1>1, <1>2, <2>1, Zenon DEF Holds
    <2> QED
        BY <2>1, <2>3, <2>4, Zenon
<1> QED
    BY <1>1, <1>3, <1>7, <1>8, Zenon

(* Print starts at the beginning.                                          *)
LEMMA CallPrintInv ==
    ASSUME FsInv, CmdInv, NEW name, CallPrint(name)
    PROVE  FsInv' /\ CmdInv'
<1>1. Open(name) /\ command' = [NextArgument EXCEPT !.pc = "Print", !.file = name]
    BY Zenon DEF CallPrint
<1>2. command' = [pc |-> "Print", file |-> name, from |-> <<>>, rest |-> <<>>, i |-> 0]
    BY <1>1, Zenon DEF NextArgument, AnyCalls
<1>3. command'.pc = "Print" /\ command'.file = name /\ command'.rest = <<>> /\ IsCommand'
    BY <1>2, Zenon DEF IsCommand
<1>4. FsInv' /\ openFile'.name = name /\ openFile'.seek = 0
    BY <1>1, OpenInv, Zenon
<1>5. Len(<<>>) = 0 /\ DOMAIN <<>> = {} /\ <<>> \in Seq({})
    OBVIOUS
<1>6. Printing'
    BY <1>3, <1>4, <1>5, Zenon DEF Printing, IsSequence
<1>7. "Print" # "Copy.Open" /\ "Print" # "Copy.Write"
    BY Zenon
<1> QED
    BY <1>3, <1>4, <1>6, <1>7, Zenon DEF CmdInv

(* One turn of Print's loop shows the next chunk.                          *)
LEMMA PrintChunkInv ==
    ASSUME FsInv, CmdInv, PrintChunk
    PROVE  FsInv' /\ CmdInv'
<1>1. /\ Idle /\ command.pc = "Print" /\ Read(TransferSize)
      /\ command' = [command EXCEPT !.rest = @ \o Cells(TransferSize)]
    BY Zenon DEF PrintChunk, At
<1>2. IsCommand /\ Printing
    BY <1>1, Zenon DEF CmdInv
<1>3. PICK f, from, rest, n :
          command = [pc |-> "Print", file |-> f, from |-> from, rest |-> rest, i |-> n]
    BY <1>1, <1>2, Zenon DEF IsCommand
<1>4. command.file = f /\ command.rest = rest
    BY <1>3, Zenon
<1>5. PICK at : at = openFile.seek
    BY Zenon
<1>6. PICK m : m = Amount(TransferSize)
    BY Zenon
<1>7. PICK cells : cells = Cells(TransferSize)
    BY Zenon
<1>8. TransferSize \in Nat
    BY FsTestAssumption
<1>9. openFile # NULL
    BY <1>1, Zenon DEF Read
<1>10. /\ at \in Nat /\ m \in Nat /\ IsSequence(cells) /\ Len(cells) = m
       /\ \A j \in 1..m : files[openFile.name][at + j - 1] \in {"any", cells[j]}
    BY <1>1, <1>5, <1>6, <1>7, <1>8, <1>9, CellsRead, Zenon
<1>11. /\ openFile.name = f /\ IsSequence(rest) /\ Len(rest) = at
       /\ \A i \in DOMAIN rest : files[f][i - 1] \in {"any", rest[i]}
    BY <1>2, <1>4, <1>5, Zenon DEF Printing
<1>12. PICK all : all = rest \o cells
    BY Zenon
<1>13. /\ IsSequence(all) /\ Len(all) = at + m /\ DOMAIN all = 1..(at + m) /\ DOMAIN rest = 1..at
       /\ \A i \in 1..(at + m) : all[i] = IF i <= at THEN rest[i] ELSE cells[i - at]
    <2>1. IsSequence(rest) /\ IsSequence(cells) /\ at = Len(rest) /\ m = Len(cells)
        BY <1>10, <1>11, Zenon
    <2>2. Joined(rest, cells, at, m, all)
        BY <1>12, <2>1, Appended, Zenon
    <2> QED
        BY <2>2, Zenon DEF Joined
<1>14. command' = [pc |-> "Print", file |-> f, from |-> from, rest |-> all, i |-> n]
    BY <1>1, <1>3, <1>7, <1>12, Zenon
<1>15. command'.pc = "Print" /\ command'.file = f /\ command'.rest = all /\ IsCommand'
    BY <1>14, Zenon DEF IsCommand
<1>16. FsInv' /\ files' = files
    BY <1>1, <1>8, ReadInv, Zenon
<1>17. openFile'.name = f /\ openFile'.seek = at + m
    <2>1. openFile' = [openFile EXCEPT !.seek = at + m]
        BY <1>1, <1>5, <1>6, Zenon DEF Read, Amount
    <2>2. PICK T, M : Quiet(T, M)
        BY <1>1, IdlePhase, Zenon
    <2>3. PICK x : openFile = [name |-> T[x].name, seek |-> openFile.seek, hdr |-> HdrOf(T, x)]
        BY <1>9, <2>2, OpenedFile, Zenon
    <2>4. openFile'.name = openFile.name /\ openFile'.seek = at + m
        BY <2>1, <2>3
    <2> QED
        BY <1>11, <2>4, Zenon
<1>18. ASSUME NEW i \in DOMAIN all PROVE files[f][i - 1] \in {"any", all[i]}
    <2>1. CASE i <= at
        <3>1. i \in 1..at
            BY <1>10, <1>13, <2>1
        <3> QED
            BY <1>11, <1>13, <2>1, <3>1, Zenon
    <2>2. CASE ~(i <= at)
        <3>1. i - at \in 1..m /\ at + (i - at) - 1 = i - 1
            BY <1>10, <1>13, <2>2
        <3>2. files[f][at + (i - at) - 1] \in {"any", cells[i - at]}
            BY <1>10, <1>11, <3>1, Zenon
        <3>3. all[i] = cells[i - at]
            BY <1>13, <2>2, Zenon
        <3> QED
            BY <3>1, <3>2, <3>3, Zenon
    <2> QED
        BY <2>1, <2>2, Zenon
<1>19. Printing'
    BY <1>13, <1>15, <1>16, <1>17, <1>18, Zenon DEF Printing
<1>20. "Print" # "Copy.Open" /\ "Print" # "Copy.Write"
    BY Zenon
<1> QED
    BY <1>15, <1>16, <1>19, <1>20, Zenon DEF CmdInv

(* A client that makes any calls.                                          *)
LEMMA ClientInv ==
    ASSUME FsInv, ClientStep
    PROVE  FsInv'
<1>1. Sizes \subseteq Nat /\ Lengths \subseteq Nat
    BY FileSystemAssumption, Zenon
<1>2. ASSUME NEW name \in Names, NEW size \in Sizes, Create(name, size) PROVE FsInv'
    BY <1>1, <1>2, CreateInv, Zenon
<1>3. ASSUME NEW name \in Names, Remove(name) \/ Open(name) PROVE FsInv'
    BY <1>3, RemoveInv, OpenInv, Zenon
<1>4. ASSUME NEW n \in Lengths, Read(n) PROVE FsInv'
    BY <1>1, <1>4, ReadInv, Zenon
<1>5. ASSUME NEW n \in Lengths, NEW v \in Values, Write([i \in 0..(n - 1) |-> v], n) PROVE FsInv'
    <2>1. PICK from : from = [i \in 0..(n - 1) |-> v]
        BY Zenon
    <2>2. Write(from, n) /\ n \in Nat
        BY <1>1, <1>5, <2>1, Zenon
    <2> QED
        BY <2>2, WriteInv, Zenon
<1>6. ASSUME Seek(0) PROVE FsInv'
    <2>1. /\ Idle /\ openFile # NULL /\ openFile' = [openFile EXCEPT !.seek = 0] /\ 0 \in Nat
          /\ UNCHANGED <<header, data, mounted, todo, writes, op, files>>
        BY <1>6 DEF Seek, disk
    <2> QED
        BY <2>1, SeekInv, Zenon
<1> QED
    BY <1>2, <1>3, <1>4, <1>5, <1>6, CloseInv, Zenon DEF ClientStep

(* The command stays the same, and is none of Copy and Print.              *)
LEMMA KeepInv ==
    ASSUME CmdInv, command' = command, command.pc \notin {"Copy.Open", "Copy.Write", "Print"}
    PROVE  CmdInv'
<1>1. IsCommand' /\ command'.pc = command.pc
    BY Zenon DEF CmdInv, IsCommand
<1> QED
    BY <1>1, Zenon DEF CmdInv

(* Where the other routines go is none of Copy and Print.                  *)
LEMMA OtherPlaces ==
    \A pc \in {"main", "any calls", "FileWrite.Open", "FileWrite", "FileWrite.Close", "FileRead.Open",
               "FileRead", "FileRead.Close", "Remove"} :
       pc \notin {"Copy.Open", "Copy.Write", "Print"}
BY Zenon

(* main calls PerformanceTest, or ends.                                    *)
LEMMA MainInv ==
    ASSUME FsInv, CmdInv,
           \/ PerformanceTest
           \/ At("main") /\ Reboot /\ UNCHANGED command
           \/ \E name \in Names : CallRemove(name)
    PROVE  FsInv' /\ CmdInv'
<1>1. ASSUME PerformanceTest PROVE FsInv' /\ CmdInv'
    <2>1. CASE Create(FileName, 0) /\ Goto("FileWrite.Open")
        <3>1. FileName \in Names /\ 0 \in Nat
            BY FsTestAssumption, Zenon
        <3> QED
            BY <2>1, <3>1, CreateInv, GotoInv, OtherPlaces, Zenon
    <2>2. CASE Goto("FileRead.Open") /\ UNCHANGED vars
        BY <2>2, SameInv, GotoInv, OtherPlaces, Zenon
    <2> QED
        BY <1>1, <2>1, <2>2, Zenon DEF PerformanceTest
<1>2. ASSUME command.pc = "main", command' = command PROVE CmdInv'
    BY <1>2, KeepInv, OtherPlaces, Zenon
<1>3. CASE At("main") /\ Reboot /\ UNCHANGED command
    BY <1>2, <1>3, CloseInv, Zenon DEF At
<1>4. ASSUME NEW name \in Names, CallRemove(name) PROVE FsInv' /\ CmdInv'
    BY <1>2, <1>4, RemoveInv, Zenon DEF CallRemove, At
<1> QED
    BY <1>1, <1>3, <1>4, Zenon

(* FileWrite.                                                              *)
LEMMA FileWriteInv ==
    ASSUME FsInv, CmdInv, FileWriteOpen \/ FileWrite \/ FileWriteClose
    PROVE  FsInv' /\ CmdInv'
<1>1. CASE FileWriteOpen
    BY <1>1, OpenInv, GotoInv, OtherPlaces, Zenon DEF FileWriteOpen
<1>2. CASE FileWrite
    <2>1. Len(Contents) \in Nat
        BY FsTestAssumption
    <2>2. PICK from : from = Buffer(Contents)
        BY Zenon
    <2>3. Write(from, Len(Contents)) /\ command.pc = "FileWrite"
        BY <1>2, <2>2, Zenon DEF FileWrite, At
    <2>4. FsInv'
        BY <2>1, <2>3, WriteInv, Zenon
    <2>5. Goto("FileWrite.Close") \/ command' = [command EXCEPT !.i = @ + 1]
        BY <1>2, Zenon DEF FileWrite
    <2>6. CmdInv'
        BY <2>3, <2>5, GotoInv, OtherPlaces, Zenon
    <2> QED
        BY <2>4, <2>6, Zenon
<1>3. CASE FileWriteClose
    BY <1>3, CloseInv, GotoInv, OtherPlaces, Zenon DEF FileWriteClose
<1> QED
    BY <1>1, <1>2, <1>3, Zenon

(* FileRead, and the end of PerformanceTest.                               *)
LEMMA FileReadInv ==
    ASSUME FsInv, CmdInv, FileReadOpen \/ FileRead \/ FileReadClose \/ RemoveTestFile
    PROVE  FsInv' /\ CmdInv'
<1>1. CASE FileReadOpen
    BY <1>1, OpenInv, SameInv, GotoInv, OtherPlaces, Zenon DEF FileReadOpen
<1>2. CASE FileRead
    <2>1. Len(Contents) \in Nat
        BY FsTestAssumption
    <2>2. Read(Len(Contents)) /\ command.pc = "FileRead"
        BY <1>2, Zenon DEF FileRead, At
    <2>3. FsInv'
        BY <2>1, <2>2, ReadInv, Zenon
    <2>4. Goto("FileRead.Close") \/ command' = [command EXCEPT !.i = @ + 1]
        BY <1>2, Zenon DEF FileRead
    <2>5. CmdInv'
        BY <2>2, <2>4, GotoInv, OtherPlaces, Zenon
    <2> QED
        BY <2>3, <2>5, Zenon
<1>3. CASE FileReadClose
    BY <1>3, CloseInv, GotoInv, OtherPlaces, Zenon DEF FileReadClose
<1>4. CASE RemoveTestFile
    BY <1>4, RemoveInv, SameInv, GotoInv, OtherPlaces, Zenon DEF RemoveTestFile
<1> QED
    BY <1>1, <1>2, <1>3, <1>4, Zenon

(* Every step keeps both invariants.                                       *)
LEMMA FsNextInv ==
    ASSUME FsInv, CmdInv, FsNext
    PROVE  FsInv' /\ CmdInv'
<1>1. CASE DiskStep /\ UNCHANGED command
    <2>1. UNCHANGED <<command, files, openFile>>
        BY <1>1, Zenon DEF DiskStep, Format, OpenSystemFiles, WriteSector, WriteBackHeader, StartWriteAt
    <2> QED
        BY <1>1, <2>1, DiskInv, SameCommand, Zenon
<1>2. CASE command = AnyCalls /\ ClientStep /\ UNCHANGED command
    <2>1. command.pc = "any calls"
        BY <1>2, Zenon DEF AnyCalls
    <2> QED
        BY <1>2, <2>1, ClientInv, KeepInv, OtherPlaces, Zenon
<1>3. CASE MainStep
    <2>1. CASE CopyClose \/ PrintClose
        BY <2>1, CloseInv, GotoInv, OtherPlaces, Zenon DEF CopyClose, PrintClose
    <2>2. ASSUME NEW name \in Names, \E from \in UnixFiles : CallCopy(from, name) PROVE FsInv' /\ CmdInv'
        BY <2>2, CallCopyInv, Zenon
    <2>3. ASSUME NEW name \in Names, CallPrint(name) PROVE FsInv' /\ CmdInv'
        BY <2>3, CallPrintInv, Zenon
    <2>4. CASE CopyOpen \/ CopyChunk \/ PrintChunk
        BY <2>4, CopyOpenInv, CopyChunkInv, PrintChunkInv, Zenon
    <2> QED
        BY <1>3, <2>1, <2>2, <2>3, <2>4, MainInv, FileWriteInv, FileReadInv, Zenon DEF MainStep
<1> QED
    BY <1>1, <1>2, <1>3, Zenon DEF FsNext

(* A disk with nothing on it.                                              *)
LEMMA FsInitInv ==
    ASSUME FsInit
    PROVE  FsInv /\ CmdInv
<1>1. /\ header = [s \in Sectors |-> NULL] /\ mounted = NULL /\ todo = <<>> /\ writes = <<>>
      /\ data = [s \in Sectors |-> [i \in 0..(SectorSize - 1) |-> "garbage"]]
      /\ openFile = NULL /\ op = NULL /\ files = [n \in {} |-> <<>>]
    BY Zenon DEF FsInit, Init
<1>2. DiskOK
    <2>1. <<>> \in Seq({})
        OBVIOUS
    <2>2. header = [s \in Sectors |-> header[s]] /\ data = [s \in Sectors |-> data[s]]
        BY <1>1, Zenon
    <2> QED
        BY <1>1, <2>1, <2>2, Zenon DEF DiskOK, IsSequence
<1>3. Blank
    BY <1>1, Zenon DEF Blank, Fresh
<1>4. PICK pc \in {"main", "any calls"} :
         command = [pc |-> pc, file |-> NULL, from |-> <<>>, rest |-> <<>>, i |-> 0]
    BY Zenon DEF FsInit, NextArgument, AnyCalls
<1>5. command.pc = pc /\ IsCommand
    BY <1>4, Zenon DEF IsCommand
<1>6. CmdInv
    BY <1>5, OtherPlaces, Zenon DEF CmdInv
<1> QED
    BY <1>2, <1>3, <1>6, Zenon DEF FsInv, Phase

(* At every moment of every behaviour, with any number of sectors, entries *)
(* and files of any size, the disk is in one of the phases of Format,      *)
(* Create, Remove and Write, and Copy and Print are where their files say. *)
THEOREM FsInvariant == FsSpec => [](FsInv /\ CmdInv)
<1>1. FsInit => FsInv /\ CmdInv
    BY FsInitInv
<1>2. FsInv /\ CmdInv /\ [FsNext]_fsVars => (FsInv /\ CmdInv)'
    <2>1. ASSUME FsInv, CmdInv, UNCHANGED fsVars PROVE FsInv' /\ CmdInv'
        <3>1. UNCHANGED vars /\ UNCHANGED <<command, files, openFile>>
            BY <2>1 DEF fsVars, vars
        <3> QED
            BY <2>1, <3>1, SameInv, SameCommand, Zenon
    <2> QED
        BY <2>1, FsNextInv, Zenon
<1> QED
    BY <1>1, <1>2, PTL DEF FsSpec

-----------------------------------------------------------------------------
(* What the invariant says of the files.                                   *)

(* The directory on the disk leads to the file in the entry x of T.        *)
Located(T, x) ==
    /\ WithName(Table, T[x].name) # {}
    /\ Table[First(WithName(Table, T[x].name))].sector = T[x].sector

(* Then the file is whole if it holds what it should.                      *)
LEMMA IntactIs ==
    ASSUME NEW T, NEW M, Base(T, M), NEW x \in Used(T), NEW name, name = T[x].name, Located(T, x),
           Holds(HdrOf(T, x), files[name])
    PROVE  Intact(name) /\ HeaderOf(name) = HdrOf(T, x) /\ Owned(name) = Own(T, x)
<1>1. PICK h : h = HdrOf(T, x)
    BY Zenon
<1>2. SectorOf(name) = T[x].sector /\ WithName(Table, name) # {}
    BY Zenon DEF Located, SectorOf
<1>3. HeaderOf(name) = h /\ Owned(name) = Own(T, x)
    BY <1>1, <1>2, Zenon DEF HeaderOf, HdrOf, Owned, Own
<1>4. HeaderOK(h) /\ h \in Headers /\ h.numBytes \in Nat
    BY <1>1, BaseSectors, Zenon DEF HeaderOK, Headers
<1>5. h # NULL
    BY <1>4, FileSystemAssumption, Zenon DEF Headers
<1>6. h.numBytes = Cardinality(DOMAIN files[name])
    <2>1. DOMAIN files[name] = 0..(h.numBytes - 1)
        BY <1>1, Zenon DEF Holds, Positions
    <2>2. Cardinality(0..(h.numBytes - 1)) = h.numBytes
        BY <1>4, PositionsCount, Zenon
    <2> QED
        BY <2>1, <2>2, Zenon
<1>7. ASSUME NEW i \in DOMAIN files[name]
      PROVE  files[name][i] \in {"any", ReadAt(h, h.numBytes, 0)[i]}
    <2>1. i \in Positions(h) /\ files[name][i] \in {"any", Cell(h, i)}
        BY <1>1, Zenon DEF Holds
    <2>2. ReadAt(h, h.numBytes, 0) = [p \in Positions(h) |-> Cell(h, p)]
        BY <1>4, ReadWhole, Zenon
    <2>3. ReadAt(h, h.numBytes, 0)[i] = Cell(h, i)
        BY <2>1, <2>2, Zenon
    <2> QED
        BY <2>1, <2>3, Zenon
<1>8. Intact(name)
    BY <1>2, <1>3, <1>5, <1>6, <1>7, Zenon DEF Intact
<1> QED
    BY <1>1, <1>3, <1>8, Zenon

(* A directory that is written leads to its files.                         *)
LEMMA LocatedIs ==
    ASSUME NEW T, TableOK(T), Table = T, NEW x \in Used(T)
    PROVE  Located(T, x)
<1>1. WithName(T, T[x].name) = {x} /\ First(WithName(T, T[x].name)) = x
    BY Lookup, Zenon
<1> QED
    BY <1>1, Zenon DEF Located

(* The sectors of the file system itself.                                  *)
LEMMA SystemIs ==
    ASSUME mounted = Mounted
    PROVE  SystemSectors = System
<1>1. mounted.freeMap = MapHdr /\ mounted.directory = DirHdr
    BY DEF Mounted
<1> QED
    BY <1>1, Zenon DEF SystemSectors, System, Map1, Map0

(* Between operations every file is whole, ...                             *)
LEMMA QuietFiles ==
    ASSUME NEW T, NEW M, Quiet(T, M), mounted = Mounted, NEW name \in DOMAIN files
    PROVE  \E x \in Used(T) : /\ name = T[x].name /\ Intact(name)
                              /\ HeaderOf(name) = HdrOf(T, x) /\ Owned(name) = Own(T, x)
<1>1. Base(T, M) /\ TableOK(T) /\ Table = T /\ Filled(T, {}) /\ DOMAIN files = NamesIn(T)
    BY QuietReads, Zenon DEF Quiet
<1>2. PICK x \in Used(T) : name = T[x].name
    BY <1>1, Zenon DEF NamesIn
<1>3. Located(T, x) /\ Holds(HdrOf(T, x), files[name])
    BY <1>1, <1>2, LocatedIs, Zenon DEF Filled
<1> QED
    BY <1>1, <1>2, <1>3, IntactIs, Zenon

(* ... and the bitmap marks the sectors in use.                            *)
LEMMA QuietMap ==
    ASSUME FsInv
    PROVE  BitmapExact
<1>1. SUFFICES ASSUME Idle
      PROVE  FreeMap = SystemSectors \cup UNION {Owned(name) : name \in DOMAIN files}
    BY Zenon DEF BitmapExact
<1>2. mounted = Mounted
    BY <1>1, IdlePhase, Zenon
<1>3. PICK T, M : Quiet(T, M)
    BY <1>1, IdlePhase, Zenon
<1>4. FreeMap = M /\ TableOK(T) /\ SystemSectors = System
    BY <1>2, <1>3, QuietReads, SystemIs, Zenon
<1>5. M = System \cup UNION {Own(T, e) : e \in Used(T)} /\ DOMAIN files = NamesIn(T)
    BY <1>3, Zenon DEF Quiet, Base, MapOf
<1>6. ASSUME NEW name \in DOMAIN files PROVE \E x \in Used(T) : Owned(name) = Own(T, x)
    BY <1>2, <1>3, QuietFiles, Zenon
<1>7. ASSUME NEW e \in Used(T) PROVE \E name \in DOMAIN files : Owned(name) = Own(T, e)
    <2>1. PICK name : name = T[e].name
        BY Zenon
    <2>2. name \in DOMAIN files
        BY <1>5, <2>1, Zenon DEF NamesIn
    <2>3. PICK x \in Used(T) : name = T[x].name /\ Owned(name) = Own(T, x)
        BY <1>2, <1>3, <2>2, QuietFiles, Zenon
    <2>4. x = e
        BY <1>4, <2>1, <2>3, Zenon DEF TableOK
    <2> QED
        BY <2>2, <2>3, <2>4, Zenon
<1>8. UNION {Own(T, e) : e \in Used(T)} = UNION {Owned(name) : name \in DOMAIN files}
    <2>1. ASSUME NEW a, NEW e \in Used(T), a \in Own(T, e)
          PROVE  a \in UNION {Owned(name) : name \in DOMAIN files}
        BY <1>7, <2>1, Zenon
    <2>2. ASSUME NEW a, NEW name \in DOMAIN files, a \in Owned(name)
          PROVE  a \in UNION {Own(T, e) : e \in Used(T)}
        BY <1>6, <2>2, Zenon
    <2> QED
        BY <2>1, <2>2, Zenon
<1> QED
    BY <1>4, <1>5, <1>8, Zenon

(* The directory lists the files that there should be, and all are whole.  *)
LEMMA QuietKept ==
    ASSUME FsInv
    PROVE  FilesKept
<1>1. SUFFICES ASSUME Idle
      PROVE  /\ {Table[e].name : e \in {f \in Entries : Table[f].inUse}} = DOMAIN files
             /\ \A name \in DOMAIN files : Intact(name)
             /\ openFile # NULL => openFile.hdr = HeaderOf(openFile.name)
    BY Zenon DEF FilesKept
<1>2. mounted = Mounted
    BY <1>1, IdlePhase, Zenon
<1>3. PICK T, M : Quiet(T, M)
    BY <1>1, IdlePhase, Zenon
<1>4. Table = T /\ TableOK(T) /\ DOMAIN files = NamesIn(T)
    BY <1>2, <1>3, QuietReads, Zenon DEF Quiet
<1>5. {Table[e].name : e \in {f \in Entries : Table[f].inUse}} = DOMAIN files
    BY <1>4, Zenon DEF NamesIn, Used
<1>6. \A name \in DOMAIN files : Intact(name)
    BY <1>2, <1>3, QuietFiles, Zenon
<1>7. ASSUME openFile # NULL PROVE openFile.hdr = HeaderOf(openFile.name)
    <2>1. PICK x \in Used(T) : openFile.name = T[x].name /\ openFile.hdr = HdrOf(T, x)
                               /\ T[x].name \in DOMAIN files
        BY <1>3, <1>7, OpenedFile, Zenon
    <2>2. PICK name : name = T[x].name
        BY Zenon
    <2>3. PICK y \in Used(T) : name = T[y].name /\ HeaderOf(name) = HdrOf(T, y)
        BY <1>2, <1>3, <2>1, <2>2, QuietFiles, Zenon
    <2>4. x = y
        BY <1>4, <2>2, <2>3, Zenon DEF TableOK
    <2> QED
        BY <2>1, <2>2, <2>3, <2>4, Zenon
<1> QED
    BY <1>5, <1>6, <1>7, Zenon

(* The directory leads to the file in x if its first entry with that name, *)
(* in use, is x.                                                           *)
LEMMA LocatedFirst ==
    ASSUME NEW T, NEW x \in Entries,
           Table[x].inUse, Table[x].name = T[x].name, Table[x].sector = T[x].sector,
           \A y \in Entries : Table[y].inUse /\ Table[y].name = T[x].name => x <= y
    PROVE  Located(T, x)
<1>1. PICK S : S = WithName(Table, T[x].name)
    BY Zenon
<1>2. S \in SUBSET Entries /\ x \in S /\ \A y \in S : x <= y
    BY <1>1, Zenon DEF WithName
<1>3. S # {}
    BY <1>2, Zenon
<1>4. First(S) \in S /\ First(S) <= x
    BY <1>2, <1>3, FirstIs, Zenon
<1>5. PICK f : f = First(S)
    BY Zenon
<1>6. f \in Entries /\ x <= f /\ f <= x
    BY <1>2, <1>4, <1>5, Zenon
<1>9. \A e \in Entries : e \in Int
    BY DEF Entries
<1>7. f = x
    <2>1. f \in Int /\ x \in Int /\ x <= f /\ f <= x
        BY <1>6, <1>9, Zenon
    <2> QED
        BY <2>1
<1> QED
    BY <1>1, <1>3, <1>5, <1>7, Zenon DEF Located

(* The files other than the one of the operation are found, in sectors     *)
(* that are marked.                                                        *)
Sheltered(T) ==
    \A x \in Used(T) : T[x].name # op => Located(T, x) /\ Own(T, x) \subseteq FreeMap

(* Then they are unharmed.                                                 *)
LEMMA Harmless ==
    ASSUME mounted = Mounted, NEW T, NEW M, Base(T, M), Filled(T, {op}),
           DOMAIN files \ {op} \subseteq NamesIn(T), Sheltered(T)
    PROVE  StopHarmsOneFile
<1>1. ASSUME NEW name \in DOMAIN files \ {op}
      PROVE  \E x \in Used(T) : /\ T[x].name = name /\ Intact(name) /\ Owned(name) = Own(T, x)
                                /\ Own(T, x) \subseteq FreeMap
    <2>1. PICK x \in Used(T) : T[x].name = name
        BY Zenon DEF NamesIn
    <2>2. Located(T, x) /\ Own(T, x) \subseteq FreeMap /\ Holds(HdrOf(T, x), files[name])
        BY <2>1, Zenon DEF Sheltered, Filled
    <2>3. Intact(name) /\ Owned(name) = Own(T, x)
        BY <2>1, <2>2, IntactIs, Zenon
    <2> QED
        BY <2>1, <2>2, <2>3, Zenon
<1>2. SystemSectors = System
    BY SystemIs, Zenon
<1>3. \A e \in Used(T) : Own(T, e) \cap System = {}
    BY Zenon DEF Base, Apart, Separate
<1>4. \A e, f \in Used(T) : e # f => Own(T, e) \cap Own(T, f) = {}
    BY Zenon DEF Base, Apart
<1>5. ASSUME NEW name \in DOMAIN files \ {op}
      PROVE  /\ Intact(name) /\ Owned(name) \subseteq FreeMap
             /\ Owned(name) \cap SystemSectors = {}
    BY <1>1, <1>2, <1>3, Zenon
<1>6. ASSUME NEW name \in DOMAIN files \ {op}, NEW other \in DOMAIN files \ {op, name}
      PROVE  Owned(name) \cap Owned(other) = {}
    <2>1. PICK x \in Used(T) : T[x].name = name /\ Owned(name) = Own(T, x)
        BY <1>1, Zenon
    <2>2. other \in DOMAIN files \ {op} /\ other # name
        BY Zenon
    <2>3. PICK y \in Used(T) : T[y].name = other /\ Owned(other) = Own(T, y)
        BY <1>1, <2>2, Zenon
    <2> QED
        BY <1>4, <2>1, <2>2, <2>3, Zenon
<1> QED
    BY <1>5, <1>6, Zenon DEF StopHarmsOneFile

(* While the directory and the bitmap are those of the files.              *)
LEMMA ShelteredStored ==
    ASSUME mounted = Mounted, NEW T, NEW M, Base(T, M), TableStored(T), MapStored(M)
    PROVE  Sheltered(T)
<1>1. TableOK(T) /\ T \in Tables /\ M \in SUBSET Sectors
    BY BaseSectors, Zenon DEF Base, TableOK
<1>2. Table = T /\ FreeMap = M
    BY <1>1, TableRead, MapRead, Zenon DEF TableStored, MapStored
<1>3. ASSUME NEW x \in Used(T) PROVE Located(T, x) /\ Own(T, x) \subseteq M
    BY <1>1, <1>2, LocatedIs, BaseSectors, Zenon
<1> QED
    BY <1>2, <1>3, Zenon DEF Sheltered

(* A transfer to a file.                                                   *)
LEMMA WritingStop ==
    ASSUME NEW T, NEW M, Writing(T, M)
    PROVE  StopHarmsOneFile
<1>1. PICK x : WriteOp(T, M, x)
    BY Zenon DEF Writing, Write1, Write2
<1>2. /\ mounted = Mounted /\ Base(T, M) /\ TableStored(T) /\ MapStored(M)
      /\ Filled(T, {op}) /\ DOMAIN files \ {op} \subseteq NamesIn(T)
    BY <1>1, Zenon DEF WriteOp
<1> QED
    BY <1>2, ShelteredStored, Harmless, Zenon

(* Create: the header and the entry are new, ...                           *)
LEMMA CreatingFrame ==
    ASSUME NEW T, NEW M, NEW name, NEW s, NEW h, NEW T1, NEW M1, CreateOp(T, M, name, s, h, T1, M1)
    PROVE  /\ mounted = Mounted /\ Base(T, M) /\ Filled(T, {op}) /\ DOMAIN files \ {op} \subseteq NamesIn(T)
           /\ op = name /\ name \notin NamesIn(T) /\ TableOK(T) /\ M \in SUBSET Sectors
           /\ M1 \in SUBSET Sectors /\ M \subseteq M1
           /\ Adds(T, name, s, T1, First(FreeEntries(T)))
<1>1. /\ mounted = Mounted /\ Base(T, M) /\ Filled(T, {}) /\ DOMAIN files = NamesIn(T) \cup {name}
      /\ op = name /\ name \in Names /\ name \notin NamesIn(T) /\ FreeEntries(T) # {}
      /\ s \in Sectors /\ HeaderOK(h) /\ T1 = Add(T, name, s) /\ M1 = M \cup {s} \cup SectorsOf(h)
    BY Zenon DEF CreateOp
<1>2. TableOK(T) /\ M \in SUBSET Sectors
    BY <1>1, BaseSectors, Zenon DEF Base
<1>3. SectorsOf(h) \subseteq Sectors
    BY <1>1, SectorsOfSize, Zenon
<1>4. Adds(T, name, s, T1, First(FreeEntries(T)))
    BY <1>1, <1>2, AddedTable, Zenon
<1>5. Filled(T, {op})
    BY <1>1, Zenon DEF Filled
<1> QED
    <2>1. M1 \in SUBSET Sectors /\ M \subseteq M1
        BY <1>1, <1>2, <1>3, Zenon
    <2>2. DOMAIN files \ {op} \subseteq NamesIn(T)
        BY <1>1, Zenon
    <2> QED
        BY <1>1, <1>2, <1>4, <1>5, <2>1, <2>2, Zenon

(* ... while the directory is being written the entry may have the name of *)
(* another file, but one that is found before it, ...                      *)
LEMMA CreatingTable ==
    ASSUME NEW T, NEW M, NEW name, NEW s, NEW h, NEW T1, NEW M1, Create3(T, M, name, s, h, T1, M1)
    PROVE  Sheltered(T)
<1>1. CreateOp(T, M, name, s, h, T1, M1) /\ MapStored(M)
      /\ Mixed(DirHdr, DirectoryCells(T), DirectoryCells(T1))
    BY Zenon DEF Create3
<1>2. PICK f : f = First(FreeEntries(T))
    BY Zenon
<1>3. /\ mounted = Mounted /\ Base(T, M) /\ op = name /\ name \notin NamesIn(T) /\ TableOK(T)
      /\ M \in SUBSET Sectors /\ Adds(T, name, s, T1, f)
    <2>1. Adds(T, name, s, T1, First(FreeEntries(T)))
        BY <1>1, CreatingFrame, ZenonT(60)
    <2>2. /\ mounted = Mounted /\ Base(T, M) /\ op = name /\ name \notin NamesIn(T) /\ TableOK(T)
          /\ M \in SUBSET Sectors
        BY <1>1, BaseSectors, Zenon DEF CreateOp, Base
    <2> QED
        BY <1>2, <2>1, <2>2, Zenon
<1>4. FreeMap = M
    BY <1>1, <1>3, MapRead, Zenon DEF MapStored
<1>5. f \in FreeEntries(T) /\ T1[f].name = name /\ \A e \in Entries : e # f => T1[e] = T[e]
    BY <1>3, Zenon DEF Adds
<1>6. ASSUME NEW e \in Entries, e # f
      PROVE  Table[e].inUse = T[e].inUse /\ Table[e].sector = T[e].sector /\ Table[e].name = T[e].name
    <2>1. /\ \/ Table[e].inUse = T[e].inUse /\ Table[e].sector = T[e].sector
             \/ Table[e].inUse = T1[e].inUse /\ Table[e].sector = T1[e].sector
          /\ Table[e].name \in {T[e].name, T1[e].name}
        BY <1>1, <1>3, TableMixed, Zenon
    <2> QED
        BY <1>5, <1>6, <2>1, Zenon
<1>7. f \in Entries /\ Table[f].name \in {T[f].name, name}
    <2>1. f \in Entries
        BY <1>5, Zenon DEF FreeEntries
    <2>2. Table[f].name \in {T[f].name, T1[f].name}
        BY <1>1, <1>3, <2>1, TableMixed, Zenon
    <2> QED
        BY <1>5, <2>1, <2>2, Zenon
<1>8. ASSUME NEW x \in Used(T) PROVE Located(T, x) /\ Own(T, x) \subseteq FreeMap
    <2>1. x \in Entries /\ T[x].inUse /\ T[x].name # name /\ x # f /\ x \in Int
        <3>1. x \in Entries /\ T[x].inUse /\ T[x].name # name
            BY <1>3, Zenon DEF Used, NamesIn
        <3>2. x # f
            BY <1>5, <3>1, Zenon DEF FreeEntries
        <3>3. x \in Int
            BY <3>1 DEF Entries
        <3> QED
            BY <3>1, <3>2, <3>3, Zenon
    <2>2. Table[x].inUse /\ Table[x].sector = T[x].sector /\ Table[x].name = T[x].name
        BY <1>6, <2>1, Zenon
    <2>3. ASSUME NEW y \in Entries, Table[y].inUse, Table[y].name = T[x].name PROVE x <= y
        <3>1. CASE y = f
            <4>1. T[f].name = T[x].name
                BY <1>7, <2>1, <2>3, <3>1, Zenon
            <4>2. x < f
                BY <1>3, <1>5, <4>1, Zenon DEF TableOK
            <4>3. f \in Int
                BY <1>7 DEF Entries
            <4> QED
                BY <2>1, <3>1, <4>2, <4>3, AtMost, Zenon
        <3>2. CASE y # f
            <4>1. y \in Used(T) /\ T[y].name = T[x].name
                BY <1>6, <2>3, <3>2, Zenon DEF Used
            <4>2. y = x
                BY <1>3, <4>1, Zenon DEF TableOK
            <4> QED
                BY <2>1, <4>2
        <3> QED
            BY <3>1, <3>2, Zenon
    <2>4. Located(T, x)
        BY <2>1, <2>2, <2>3, LocatedFirst, Zenon
    <2> QED
        BY <1>3, <1>4, <2>4, BaseSectors, Zenon
<1> QED
    BY <1>8, Zenon DEF Sheltered

(* ... and then the bitmap gains sectors.                                  *)
LEMMA CreatingMap ==
    ASSUME NEW T, NEW M, NEW name, NEW s, NEW h, NEW T1, NEW M1, Create4(T, M, name, s, h, T1, M1)
    PROVE  Sheltered(T)
<1>1. CreateOp(T, M, name, s, h, T1, M1) /\ TableStored(T1)
      /\ Mixed(MapHdr, BitMapCells(M), BitMapCells(M1))
    BY Zenon DEF Create4
<1>2. PICK f : f = First(FreeEntries(T))
    BY Zenon
<1>3. Adds(T, name, s, T1, f)
    <2>1. Adds(T, name, s, T1, First(FreeEntries(T)))
        BY <1>1, CreatingFrame, ZenonT(60)
    <2> QED
        BY <1>2, <2>1, Zenon
<1>4. M \subseteq M1 /\ M1 \in SUBSET Sectors /\ M \in SUBSET Sectors
    BY <1>1, CreatingFrame, ZenonT(60)
<1>5. mounted = Mounted /\ Base(T, M)
    BY <1>1, Zenon DEF CreateOp
<1>6. TableOK(T1) /\ T1 \in Tables
    BY <1>3, Zenon DEF Adds, TableOK
<1>7. Table = T1
    BY <1>1, <1>5, <1>6, TableRead, Zenon DEF TableStored
<1>8. M \subseteq FreeMap
    <2>1. M \cap M1 \subseteq FreeMap
        BY <1>1, <1>4, <1>5, MapMixed, Zenon
    <2> QED
        BY <1>4, <2>1, Zenon
<1>9. ASSUME NEW x \in Used(T) PROVE Located(T, x) /\ Own(T, x) \subseteq FreeMap
    <2>1. x \in Used(T1) /\ T1[x] = T[x]
        <3>1. x # f /\ x \in Entries
            BY <1>3, Zenon DEF Adds, FreeEntries, Used
        <3> QED
            BY <1>3, <3>1, Zenon DEF Adds
    <2>2. Located(T1, x)
        BY <1>6, <1>7, <2>1, LocatedIs, Zenon
    <2>3. Located(T, x)
        BY <2>1, <2>2, Zenon DEF Located
    <2>4. Own(T, x) \subseteq M
        BY <1>5, BaseSectors, Zenon
    <2> QED
        BY <1>8, <2>3, <2>4, Zenon
<1> QED
    BY <1>9, Zenon DEF Sheltered

(* When Nachos stops before any of the sectors that a Create writes, every *)
(* file but the one being created is whole.                                *)
LEMMA CreatingStop ==
    ASSUME NEW T, NEW M, Creating(T, M)
    PROVE  StopHarmsOneFile
<1>1. PICK name, s, h, T1, M1 : \/ Create1(T, M, name, s, h, T1, M1)
                                \/ Create2(T, M, name, s, h, T1, M1)
                                \/ Create3(T, M, name, s, h, T1, M1)
                                \/ Create4(T, M, name, s, h, T1, M1)
    BY Zenon DEF Creating
<1>2. CreateOp(T, M, name, s, h, T1, M1)
    BY <1>1, Zenon DEF Create1, Create2, Create3, Create4
<1>3. mounted = Mounted /\ Base(T, M) /\ Filled(T, {op}) /\ DOMAIN files \ {op} \subseteq NamesIn(T)
    BY <1>2, CreatingFrame, ZenonT(60)
<1>4. Sheltered(T)
    <2>1. CASE Create1(T, M, name, s, h, T1, M1) \/ Create2(T, M, name, s, h, T1, M1)
        <3>1. TableStored(T) /\ MapStored(M)
            BY <2>1, Zenon DEF Create1, Create2
        <3> QED
            BY <1>3, <3>1, ShelteredStored, Zenon
    <2>2. CASE Create3(T, M, name, s, h, T1, M1)
        BY <2>2, CreatingTable, Zenon
    <2>3. CASE Create4(T, M, name, s, h, T1, M1)
        BY <2>3, CreatingMap, Zenon
    <2> QED
        BY <1>1, <2>1, <2>2, <2>3, Zenon
<1> QED
    BY <1>3, <1>4, Harmless, Zenon

(* Remove: the bitmap loses the sectors of the file alone, ...             *)
LEMMA RemovingMap ==
    ASSUME NEW T, NEW M, NEW x, NEW T1, NEW M1, Remove2(T, M, x, T1, M1)
    PROVE  Sheltered(T)
<1>1. RemoveOp(T, M, x, T1, M1) /\ TableStored(T) /\ Mixed(MapHdr, BitMapCells(M), BitMapCells(M1))
    BY Zenon DEF Remove2
<1>2. mounted = Mounted /\ Base(T, M) /\ x \in Used(T) /\ op = T[x].name /\ M1 = M \ Own(T, x)
    BY <1>1, Zenon DEF RemoveOp
<1>3. TableOK(T) /\ T \in Tables /\ M \in SUBSET Sectors /\ M1 \in SUBSET Sectors /\ M \cap M1 = M1
    BY <1>2, BaseSectors, Zenon DEF Base, TableOK
<1>4. Table = T
    BY <1>1, <1>2, <1>3, TableRead, Zenon DEF TableStored
<1>5. M1 \subseteq FreeMap
    BY <1>1, <1>2, <1>3, MapMixed, Zenon
<1>6. ASSUME NEW y \in Used(T), T[y].name # op PROVE Located(T, y) /\ Own(T, y) \subseteq FreeMap
    <2>1. Located(T, y)
        BY <1>3, <1>4, LocatedIs, Zenon
    <2>2. y # x
        BY <1>2, <1>6, Zenon
    <2>3. Own(T, y) \subseteq M /\ Own(T, y) \cap Own(T, x) = {}
        BY <1>2, <2>2, BaseSectors, Zenon DEF Base, Apart
    <2> QED
        BY <1>2, <1>5, <2>1, <2>3, Zenon
<1> QED
    BY <1>6, Zenon DEF Sheltered

(* ... and then the directory loses its entry.                             *)
LEMMA RemovingTable ==
    ASSUME NEW T, NEW M, NEW x, NEW T1, NEW M1, Remove3(T, M, x, T1, M1)
    PROVE  Sheltered(T)
<1>1. RemoveOp(T, M, x, T1, M1) /\ MapStored(M1) /\ Mixed(DirHdr, DirectoryCells(T), DirectoryCells(T1))
    BY Zenon DEF Remove3
<1>2. /\ mounted = Mounted /\ Base(T, M) /\ x \in Used(T) /\ op = T[x].name /\ M1 = M \ Own(T, x)
      /\ T1 = Removed(T, x) /\ T[x].name \notin DOMAIN files
    BY <1>1, Zenon DEF RemoveOp
<1>3. NotOpen(T[x].name)
    BY <1>2, Zenon DEF Base, Opened, NotOpen
<1>4. Removes(T, x, T1)
    BY <1>2, <1>3, RemovedBase, Zenon
<1>5. TableOK(T) /\ M \in SUBSET Sectors /\ M1 \in SUBSET Sectors
    BY <1>2, BaseSectors, Zenon DEF Base
<1>6. FreeMap = M1
    BY <1>1, <1>2, <1>5, MapRead, Zenon DEF MapStored
<1>7. ASSUME NEW e \in Entries
      PROVE  /\ Table[e].name = T[e].name
             /\ e # x => Table[e].inUse = T[e].inUse /\ Table[e].sector = T[e].sector
    <2>1. /\ \/ Table[e].inUse = T[e].inUse /\ Table[e].sector = T[e].sector
             \/ Table[e].inUse = T1[e].inUse /\ Table[e].sector = T1[e].sector
          /\ Table[e].name \in {T[e].name, T1[e].name}
        <3>1. mounted = Mounted /\ Mixed(DirHdr, DirectoryCells(T), DirectoryCells(T1))
            BY <1>1, <1>2, Zenon
        <3> QED
            BY <3>1, TableMixed, Zenon
    <2>2. T1[e].name = T[e].name /\ (e # x => T1[e] = T[e])
        BY <1>4, Zenon DEF Removes
    <2>3. Table[e].name = T[e].name
        BY <2>1, <2>2, Zenon
    <2>4. ASSUME e # x PROVE Table[e].inUse = T[e].inUse /\ Table[e].sector = T[e].sector
        BY <2>1, <2>2, <2>4, Zenon
    <2> QED
        BY <2>3, <2>4, Zenon
<1>8. ASSUME NEW y \in Used(T), T[y].name # op PROVE Located(T, y) /\ Own(T, y) \subseteq FreeMap
    <2>1. y \in Entries /\ T[y].inUse /\ y # x
        BY <1>2, <1>8, Zenon DEF Used
    <2>2. Table[y].inUse /\ Table[y].sector = T[y].sector /\ Table[y].name = T[y].name
        BY <1>7, <2>1, Zenon
    <2>3. ASSUME NEW z \in Entries, Table[z].inUse, Table[z].name = T[y].name PROVE y <= z
        <3>1. T[z].name = T[y].name
            BY <1>7, <2>3, Zenon
        <3>2. z # x
            BY <1>2, <1>8, <3>1, Zenon
        <3>3. z \in Used(T)
            BY <1>7, <2>3, <3>2, Zenon DEF Used
        <3>4. z = y
            BY <1>5, <3>1, <3>3, Zenon DEF TableOK
        <3>5. y \in Int
            BY <2>1 DEF Entries
        <3> QED
            BY <3>4, <3>5
    <2>4. Located(T, y)
        BY <2>1, <2>2, <2>3, LocatedFirst, Zenon
    <2>5. Own(T, y) \subseteq M /\ Own(T, y) \cap Own(T, x) = {}
        BY <1>2, <2>1, BaseSectors, Zenon DEF Base, Apart
    <2> QED
        BY <1>2, <1>6, <2>4, <2>5, Zenon
<1> QED
    BY <1>8, Zenon DEF Sheltered

(* When Nachos stops before any of the sectors that a Remove writes, every *)
(* file but the one being removed is whole.                                *)
LEMMA RemovingStop ==
    ASSUME NEW T, NEW M, Removing(T, M)
    PROVE  StopHarmsOneFile
<1>1. PICK x, T1, M1 : \/ Remove1(T, M, x, T1, M1)
                       \/ Remove2(T, M, x, T1, M1)
                       \/ Remove3(T, M, x, T1, M1)
    BY Zenon DEF Removing
<1>2. RemoveOp(T, M, x, T1, M1)
    BY <1>1, Zenon DEF Remove1, Remove2, Remove3
<1>3. mounted = Mounted /\ Base(T, M) /\ Filled(T, {op}) /\ DOMAIN files \ {op} \subseteq NamesIn(T)
    BY <1>2, Zenon DEF RemoveOp
<1>4. Sheltered(T)
    <2>1. CASE Remove1(T, M, x, T1, M1)
        <3>1. TableStored(T) /\ MapStored(M)
            BY <2>1, Zenon DEF Remove1
        <3> QED
            BY <1>3, <3>1, ShelteredStored, Zenon
    <2>2. CASE Remove2(T, M, x, T1, M1)
        BY <2>2, RemovingMap, Zenon
    <2>3. CASE Remove3(T, M, x, T1, M1)
        BY <2>3, RemovingTable, Zenon
    <2> QED
        BY <1>1, <2>1, <2>2, <2>3, Zenon
<1> QED
    BY <1>3, <1>4, Harmless, Zenon

(* Only the operations that change a file's entry, map or cells have a     *)
(* sector to write, and each of them leaves the other files whole.         *)
LEMMA StopInv ==
    ASSUME FsInv
    PROVE  StopHarmsOneFile
<1>1. SUFFICES ASSUME mounted # NULL, Busy, op # NULL PROVE StopHarmsOneFile
    BY Zenon DEF StopHarmsOneFile
<1>2. ~Blank /\ ~Formatting
    BY <1>1, Zenon DEF Blank, Formatting, Format1, Format2, Format3, Format4, Format5, Format6, Fresh
<1>3. ASSUME NEW T, NEW M PROVE ~Quiet(T, M)
    BY <1>1, Zenon DEF Quiet, Busy
<1>4. PICK T, M : Writing(T, M) \/ Creating(T, M) \/ Removing(T, M)
    BY <1>2, <1>3, Zenon DEF FsInv, Phase
<1> QED
    BY <1>4, WritingStop, CreatingStop, RemovingStop, Zenon

(* What Copy and Print have moved.                                         *)
LEMMA Transfers ==
    ASSUME CmdInv
    PROVE  TransfersExact
<1>1. ASSUME command.pc = "Copy.Write"
      PROVE  /\ DOMAIN files[command.file] = 0..(Len(command.from) - 1)
             /\ openFile.seek = Len(command.from) - Len(command.rest)
             /\ \A i \in 1..(Len(command.from) - Len(command.rest)) :
                   files[command.file][i - 1] = command.from[i]
    <2>1. Copying
        BY <1>1, Zenon DEF CmdInv
    <2>2. DOMAIN files[command.file] = 0..(Len(command.from) - 1)
        BY <2>1, Zenon DEF Copying, CopyFile
    <2>3. PICK from, rest, at : from = command.from /\ rest = command.rest /\ at = openFile.seek
        BY Zenon
    <2>4. from \in Seq(Values) /\ rest \in Seq(Values) /\ at \in Nat /\ Len(from) = at + Len(rest)
        BY <2>1, <2>3, Zenon DEF Copying, CopyFile, EndOf
    <2>5. at = Len(from) - Len(rest)
        BY <2>4
    <2>6. \A i \in 1..at : files[command.file][i - 1] = command.from[i]
        BY <2>1, <2>3, Zenon DEF Copying
    <2> QED
        BY <2>2, <2>3, <2>5, <2>6, Zenon
<1>2. ASSUME command.pc = "Print"
      PROVE  /\ Len(command.rest) = openFile.seek
             /\ \A i \in DOMAIN command.rest :
                   files[command.file][i - 1] \in {"any", command.rest[i]}
    BY <1>2, Zenon DEF CmdInv, Printing
<1> QED
    BY <1>1, <1>2, Zenon DEF TransfersExact

(* Between operations the bitmap marks exactly the sectors in use.         *)
THEOREM BitmapIsExact == FsSpec => []BitmapExact
<1>1. FsInv /\ CmdInv => BitmapExact
    BY QuietMap, Zenon
<1> QED
    BY <1>1, FsInvariant, PTL

(* If Nachos stops between two writes of an operation, every file but the  *)
(* one of the operation is found, whole, in marked sectors of its own.     *)
THEOREM StopHarmsNoOther == FsSpec => []StopHarmsOneFile
<1>1. FsInv /\ CmdInv => StopHarmsOneFile
    BY StopInv, Zenon
<1> QED
    BY <1>1, FsInvariant, PTL

(* Between operations the directory lists the files that clients made and  *)
(* did not remove, with what they wrote; and Copy and Print move each byte *)
(* once, in order.                                                         *)
THEOREM ClientsAreServed == FsSpec => []ClientsServed
<1>1. FsInv /\ CmdInv => ClientsServed
    BY QuietKept, Transfers, Zenon DEF ClientsServed
<1> QED
    BY <1>1, FsInvariant, PTL
=============================================================================
