----------------------------- MODULE FileSystem -----------------------------
(***************************************************************************)
(* The file system on the disk: filesys/filesys.cc, directory.cc,          *)
(* filehdr.cc, openfile.cc and userprog/bitmap.cc.  The code "assumes      *)
(* there is no concurrent access to the file system", so there is one      *)
(* client; but every sector that is written is a step, and between any two *)
(* of them Nachos may stop and leave the disk as it is.  The client here   *)
(* makes any calls; FsTest has the test routines of the code.              *)
(*                                                                         *)
(* A sector holds SectorSize cells.  A cell is what the properties need    *)
(* not take apart: a few bytes of a file, BitsInByte bits of the bitmap,   *)
(* inUse and sector of a directory entry, or its name.                     *)
(***************************************************************************)
EXTENDS Integers, FiniteSets, Sequences

CONSTANTS
    NumSectors, SectorSize, BitsInByte, NumDirEntries,
    Names,
    Sizes,              \* initial sizes that clients ask for
    Values,             \* of the cells of the clients' files
    Lengths,            \* numBytes of their reads and writes
    NULL

FreeMapSector == 0
DirectorySector == 1
FreeMapFileSize == NumSectors \div BitsInByte
EntrySize == 2          \* cells of a directory entry
DirectoryFileSize == EntrySize * NumDirEntries
divRoundUp(n, s) == n \div s + (IF n % s > 0 THEN 1 ELSE 0)

ASSUME FileSystemAssumption ==
    /\ NumSectors \in Nat /\ SectorSize \in Nat \ {0} /\ BitsInByte \in Nat \ {0}
    /\ NumDirEntries \in Nat
    /\ NumSectors % BitsInByte = 0
    /\ 2 + divRoundUp(FreeMapFileSize, SectorSize) + divRoundUp(DirectoryFileSize, SectorSize)
           <= NumSectors
    /\ Sizes \subseteq Nat /\ Lengths \subseteq Nat
    /\ {"any", "garbage"} \cap (Values \cup Names) = {}
    /\ NULL \notin [numBytes : Nat, dataSectors : Seq(Nat)]

VARIABLES
    header,             \* the disk: sectors that hold a FileHeader, NULL for others
    data,               \* the disk: cells of the sectors
    mounted,            \* freeMapFile and directoryFile, or NULL
    todo,               \* what the current operation has still to write back
    writes,             \* the sectors of the current WriteAt that are still to be written
    openFile,           \* the client's open file, or NULL
    op,                 \* (ghost) the file that the last operation was about
    files               \* (ghost) what the files ought to hold

disk == <<header, data>>
vars == <<disk, mounted, todo, writes, openFile, op, files>>

Sectors == 0..(NumSectors - 1)
Busy == todo # <<>> \/ writes # <<>>

(* A disk with nothing on it.                                              *)
Init ==
    /\ header = [s \in Sectors |-> NULL]
    /\ data = [s \in Sectors |-> [i \in 0..(SectorSize - 1) |-> "garbage"]]
    /\ mounted = NULL
    /\ todo = <<>>
    /\ writes = <<>>
    /\ openFile = NULL
    /\ op = NULL
    /\ files = [n \in {} |-> <<>>]

-----------------------------------------------------------------------------
(* BitMap: the set of the marked sectors.                                  *)

NewBitMap == {}

Mark(map, which) == map \cup {which}

Clear(map, which) == map \ {which}

Test(map, which) == which \in map

(* Find without its Mark: the first clear sector.                          *)
Find(map) == CHOOSE s \in Sectors : ~Test(map, s) /\ \A t \in 0..(s - 1) : Test(map, t)

Full(map) == map = Sectors

NumClear(map) == Cardinality(Sectors \ map)

BitMapCells(map) == [i \in 0..(FreeMapFileSize - 1) |-> {s \in map : s \div BitsInByte = i}]

-----------------------------------------------------------------------------
(* FileHeader.                                                             *)

(* The nth clear sector, from 1: what the nth call of Find returns.        *)
NthClear(map, n) ==
    CHOOSE s \in Sectors \ map : Cardinality({t \in Sectors \ map : t < s}) = n - 1

(* Whether Allocate succeeds, and the header that it makes.                *)
HasRoom(map, size) == NumClear(map) >= divRoundUp(size, SectorSize)

Allocated(map, size) ==
    [numBytes |-> size,
     dataSectors |-> [i \in 1..divRoundUp(size, SectorSize) |-> NthClear(map, i)]]

SectorsOf(hdr) == {hdr.dataSectors[i] : i \in DOMAIN hdr.dataSectors}

Deallocated(map, hdr) == map \ SectorsOf(hdr)

ByteToSector(hdr, offset) == hdr.dataSectors[offset \div SectorSize + 1]

-----------------------------------------------------------------------------
(* OpenFile.                                                               *)

(* How many of numBytes are read or written.                               *)
Transferred(hdr, numBytes, position) ==
    IF numBytes <= 0 \/ position >= hdr.numBytes THEN 0
    ELSE IF position + numBytes > hdr.numBytes THEN hdr.numBytes - position ELSE numBytes

ReadAt(hdr, numBytes, position) ==
    [i \in 0..(Transferred(hdr, numBytes, position) - 1) |->
        data[ByteToSector(hdr, position + i)][(position + i) % SectorSize]]

(* bcopy of cells into a buffer.                                           *)
Copied(buf, at, cells) ==
    [i \in DOMAIN buf |-> IF i - at \in DOMAIN cells THEN cells[i - at] ELSE buf[i]]

(* Fault: a partial last sector is not read, only the first one.           *)
WriteAtUnread(hdr, from, numBytes, position) ==
    LET n == Transferred(hdr, numBytes, position)
        firstSector == position \div SectorSize
        lastSector == (position + n - 1) \div SectorSize
        numSectors == 1 + lastSector - firstSector
        new == [i \in 0..(numSectors * SectorSize - 1) |-> "garbage"]
        withFirst == Copied(new, 0, ReadAt(hdr, SectorSize, firstSector * SectorSize))
        buf == Copied(withFirst, position - firstSector * SectorSize,
                      [i \in 0..(n - 1) |-> from[i]])
    IN  IF n = 0 THEN <<>>
        ELSE [k \in 1..numSectors |->
                 [sector |-> ByteToSector(hdr, (firstSector + k - 1) * SectorSize),
                  cells |-> [i \in 0..(SectorSize - 1) |-> buf[(k - 1) * SectorSize + i]]]]

(* The sectors that WriteAt writes, in order.  What a partial sector held  *)
(* is read first, up to the end of the file.                               *)
WriteAt(hdr, from, numBytes, position) ==
    LET n == Transferred(hdr, numBytes, position)
        firstSector == position \div SectorSize
        lastSector == (position + n - 1) \div SectorSize
        numSectors == 1 + lastSector - firstSector
        firstAligned == position = firstSector * SectorSize
        lastAligned == position + n = (lastSector + 1) * SectorSize
        new == [i \in 0..(numSectors * SectorSize - 1) |-> "garbage"]
        withFirst == IF firstAligned THEN new
                     ELSE Copied(new, 0, ReadAt(hdr, SectorSize, firstSector * SectorSize))
        withLast == IF ~lastAligned /\ (firstSector # lastSector \/ firstAligned)
                    THEN Copied(withFirst, (lastSector - firstSector) * SectorSize,
                                ReadAt(hdr, SectorSize, lastSector * SectorSize))
                    ELSE withFirst
        buf == Copied(withLast, position - firstSector * SectorSize,
                      [i \in 0..(n - 1) |-> from[i]])
    IN  IF n = 0 THEN <<>>
        ELSE [k \in 1..numSectors |->
                 [sector |-> ByteToSector(hdr, (firstSector + k - 1) * SectorSize),
                  cells |-> [i \in 0..(SectorSize - 1) |-> buf[(k - 1) * SectorSize + i]]]]

-----------------------------------------------------------------------------
(* Directory: a table of entries.                                          *)

Entries == 0..(NumDirEntries - 1)

DirectoryCells(table) ==
    [i \in 0..(DirectoryFileSize - 1) |->
        LET entry == table[i \div EntrySize]
        IN  IF i % EntrySize = 0 THEN [inUse |-> entry.inUse, sector |-> entry.sector]
            ELSE entry.name]

DirectoryFrom(cells) ==
    [e \in Entries |-> [inUse |-> cells[EntrySize * e].inUse,
                        sector |-> cells[EntrySize * e].sector,
                        name |-> cells[EntrySize * e + 1]]]

EmptyDirectory == [e \in Entries |-> [inUse |-> FALSE, sector |-> 0, name |-> "garbage"]]

(* The entries that FindIndex may return: it takes the first.              *)
WithName(table, name) == {e \in Entries : table[e].inUse /\ table[e].name = name}

First(S) == CHOOSE e \in S : \A f \in S : e <= f

FreeEntries(table) == {e \in Entries : ~table[e].inUse}

Add(table, name, sector) ==
    [table EXCEPT ![First(FreeEntries(table))] = [inUse |-> TRUE, sector |-> sector, name |-> name]]

RemoveEntry(table, name) == [table EXCEPT ![First(WithName(table, name))].inUse = FALSE]

-----------------------------------------------------------------------------
(* What an operation writes back: a header to its sector, or cells to the  *)
(* bitmap's file, the directory's, or a client's.                          *)

WriteHeader(sector, hdr) == [kind |-> "header", sector |-> sector, hdr |-> hdr]
WriteFile(hdr, cells, numBytes, position) ==
    [kind |-> "file", hdr |-> hdr, cells |-> cells, numBytes |-> numBytes, position |-> position]
OpenFiles == [kind |-> "open"]

WriteFreeMap(hdr, map) == WriteFile(hdr, BitMapCells(map), FreeMapFileSize, 0)
WriteDirectory(hdr, table) == WriteFile(hdr, DirectoryCells(table), DirectoryFileSize, 0)

(* FetchFrom of the bitmap and of the directory.                           *)
FreeMap == LET cells == ReadAt(mounted.freeMap, FreeMapFileSize, 0)
           IN  UNION {cells[i] : i \in DOMAIN cells}
Table == DirectoryFrom(ReadAt(mounted.directory, DirectoryFileSize, 0))

(* One sector goes to the disk.                                            *)
WriteSector ==
    /\ writes # <<>>
    /\ data' = [data EXCEPT ![Head(writes).sector] = Head(writes).cells]
    /\ header' = [header EXCEPT ![Head(writes).sector] = NULL]
    /\ writes' = Tail(writes)
    /\ UNCHANGED <<mounted, todo, openFile, op, files>>

NextTask(kind) == writes = <<>> /\ todo # <<>> /\ Head(todo).kind = kind /\ todo' = Tail(todo)

(* FileHeader::WriteBack.                                                  *)
WriteBackHeader ==
    /\ NextTask("header")
    /\ header' = [header EXCEPT ![Head(todo).sector] = Head(todo).hdr]
    /\ data' = [data EXCEPT ![Head(todo).sector] = [i \in 0..(SectorSize - 1) |-> "garbage"]]
    /\ UNCHANGED <<mounted, writes, openFile, op, files>>

(* The call of WriteAt.                                                    *)
StartWriteAt ==
    /\ NextTask("file")
    /\ LET t == Head(todo) IN writes' = WriteAt(t.hdr, t.cells, t.numBytes, t.position)
    /\ UNCHANGED <<disk, mounted, openFile, op, files>>

(* The two files that stay open while Nachos runs.                         *)
OpenSystemFiles ==
    /\ NextTask("open")
    /\ mounted' = [freeMap |-> header[FreeMapSector], directory |-> header[DirectorySector]]
    /\ UNCHANGED <<disk, writes, openFile, op, files>>

-----------------------------------------------------------------------------
(* FileSystem.                                                             *)

Format ==
    /\ mounted = NULL /\ ~Busy
    /\ header[FreeMapSector] = NULL
    /\ LET map0 == Mark(Mark(NewBitMap, FreeMapSector), DirectorySector)
           mapHdr == Allocated(map0, FreeMapFileSize)
           map1 == map0 \cup SectorsOf(mapHdr)
           dirHdr == Allocated(map1, DirectoryFileSize)
           map2 == map1 \cup SectorsOf(dirHdr)
       IN  todo' = <<WriteHeader(FreeMapSector, mapHdr), WriteHeader(DirectorySector, dirHdr),
                     OpenFiles, WriteFreeMap(mapHdr, map2), WriteDirectory(dirHdr, EmptyDirectory)>>
    /\ UNCHANGED <<disk, mounted, writes, openFile, op, files>>

Idle == mounted # NULL /\ ~Busy

(* Nachos is started again on the disk that a run has left.                *)
Reboot ==
    /\ Idle
    /\ openFile' = NULL
    /\ mounted' = NULL
    /\ todo' = <<OpenFiles>>
    /\ UNCHANGED <<disk, writes, op, files>>

(* Whether Create succeeds: the name is new, and there is an entry and     *)
(* room for the header and for the file.                                   *)
CanCreate(name, initialSize) ==
    /\ WithName(Table, name) = {} /\ FreeEntries(Table) # {}
    /\ ~Full(FreeMap)
    /\ HasRoom(Mark(FreeMap, Find(FreeMap)), initialSize)

(* Fault: the bitmap is not written back.                                  *)
CreateUnmarked(name, initialSize) ==
    /\ Idle
    /\ CanCreate(name, initialSize)
    /\ LET table == Table
           map == FreeMap
           sector == Find(map)
           map1 == Mark(map, sector)
           hdr == Allocated(map1, initialSize)
       IN  todo' = <<WriteHeader(sector, hdr),
                     WriteDirectory(mounted.directory, Add(table, name, sector))>>
    /\ op' = name
    /\ files' = [n \in DOMAIN files \cup {name} |->
                    IF n = name THEN [i \in 0..(initialSize - 1) |-> "any"] ELSE files[n]]
    /\ UNCHANGED <<disk, mounted, writes, openFile>>

(* Create, when it does not fail: then it writes nothing.                  *)
Create(name, initialSize) ==
    /\ Idle
    /\ CanCreate(name, initialSize)
    /\ LET table == Table
           map == FreeMap
           sector == Find(map)
           map1 == Mark(map, sector)
           hdr == Allocated(map1, initialSize)
       IN  todo' = <<WriteHeader(sector, hdr),
                     WriteDirectory(mounted.directory, Add(table, name, sector)),
                     WriteFreeMap(mounted.freeMap, map1 \cup SectorsOf(hdr))>>
    /\ op' = name
    /\ files' = [n \in DOMAIN files \cup {name} |->
                    IF n = name THEN [i \in 0..(initialSize - 1) |-> "any"] ELSE files[n]]
    /\ UNCHANGED <<disk, mounted, writes, openFile>>

(* Fault: one sector too many is cleared.                                  *)
RemoveNextSector(name) ==
    /\ Idle
    /\ openFile # NULL => openFile.name # name
    /\ LET table == Table
           sector == table[First(WithName(table, name))].sector
       IN  /\ WithName(table, name) # {}
           /\ todo' = <<WriteFreeMap(mounted.freeMap,
                                     Clear(Clear(Deallocated(FreeMap, header[sector]), sector),
                                           sector + 1)),
                        WriteDirectory(mounted.directory, RemoveEntry(table, name))>>
    /\ op' = name
    /\ files' = [n \in DOMAIN files \ {name} |-> files[n]]
    /\ UNCHANGED <<disk, mounted, writes, openFile>>

(* Remove, by a client that has closed the file.                           *)
Remove(name) ==
    /\ Idle
    /\ openFile # NULL => openFile.name # name
    /\ LET table == Table
           sector == table[First(WithName(table, name))].sector
       IN  /\ WithName(table, name) # {}
           /\ todo' = <<WriteFreeMap(mounted.freeMap,
                                     Clear(Deallocated(FreeMap, header[sector]), sector)),
                        WriteDirectory(mounted.directory, RemoveEntry(table, name))>>
    /\ op' = name
    /\ files' = [n \in DOMAIN files \ {name} |-> files[n]]
    /\ UNCHANGED <<disk, mounted, writes, openFile>>

(* The constructor of OpenFile.                                            *)
NewOpenFile(name, sector) == [name |-> name, seek |-> 0, hdr |-> header[sector]]

Open(name) ==
    /\ Idle
    /\ openFile = NULL
    /\ LET table == Table
       IN  /\ WithName(table, name) # {}
           /\ openFile' = NewOpenFile(name, table[First(WithName(table, name))].sector)
    /\ UNCHANGED <<disk, mounted, todo, writes, op, files>>

Close ==
    /\ Idle
    /\ openFile # NULL
    /\ openFile' = NULL
    /\ UNCHANGED <<disk, mounted, todo, writes, op, files>>

(* OpenFile::Write; OpenFile::Read and Seek only move seekPosition.        *)
Write(from, numBytes) ==
    /\ Idle
    /\ openFile # NULL
    /\ LET n == Transferred(openFile.hdr, numBytes, openFile.seek)
           at == openFile.seek..(openFile.seek + n - 1)
       IN  /\ todo' = <<WriteFile(openFile.hdr, from, numBytes, openFile.seek)>>
           /\ openFile' = [openFile EXCEPT !.seek = @ + n]
           /\ files' = [files EXCEPT ![openFile.name] =
                           [i \in DOMAIN @ |-> IF i \in at THEN from[i - openFile.seek] ELSE @[i]]]
    /\ op' = openFile.name
    /\ UNCHANGED <<disk, mounted, writes>>

Read(numBytes) ==
    /\ Idle
    /\ openFile # NULL
    /\ openFile' = [openFile EXCEPT !.seek =
                       @ + Transferred(openFile.hdr, numBytes, openFile.seek)]
    /\ UNCHANGED <<disk, mounted, todo, writes, op, files>>

Seek(position) ==
    /\ Idle
    /\ openFile # NULL
    /\ openFile' = [openFile EXCEPT !.seek = position]
    /\ UNCHANGED <<disk, mounted, todo, writes, op, files>>

(* What goes on by itself, and what the client calls.                      *)
DiskStep ==
    \/ Format
    \/ OpenSystemFiles
    \/ WriteSector
    \/ WriteBackHeader
    \/ StartWriteAt

ClientStep ==
    \/ Reboot
    \/ \E name \in Names :
          \/ \E size \in Sizes : Create(name, size)
          \/ Remove(name)
          \/ Open(name)
    \/ Close
    \/ \E n \in Lengths : Read(n) \/ (\E v \in Values : Write([i \in 0..(n - 1) |-> v], n))
    \/ Seek(0)

Next == DiskStep \/ ClientStep

Spec == Init /\ [][Next]_vars

-----------------------------------------------------------------------------
(* Properties.                                                             *)

(* The header on the disk of a listed file.                                *)
SectorOf(name) == Table[First(WithName(Table, name))].sector
HeaderOf(name) == header[SectorOf(name)]

(* A file on the disk holds what was written to it: it is found under its  *)
(* name, has a header, has the right size, and reads as it ought to.       *)
Intact(name) ==
    /\ WithName(Table, name) # {}
    /\ HeaderOf(name) # NULL
    /\ HeaderOf(name).numBytes = Cardinality(DOMAIN files[name])
    /\ LET cells == ReadAt(HeaderOf(name), HeaderOf(name).numBytes, 0)
       IN  \A i \in DOMAIN files[name] : files[name][i] \in {"any", cells[i]}

(* Between operations the files of the directory are those that clients    *)
(* created and did not remove, with what they wrote in them, whatever      *)
(* partial sectors the writes touched and whatever was stored there before;*)
(* and an open file's header in memory is the one on the disk.             *)
FilesKept ==
    Idle => /\ {Table[e].name : e \in {f \in Entries : Table[f].inUse}} = DOMAIN files
            /\ \A name \in DOMAIN files : Intact(name)
            /\ openFile # NULL => openFile.hdr = HeaderOf(openFile.name)

(* The sectors of a file, and those of the file system itself.             *)
Owned(name) == {SectorOf(name)} \cup SectorsOf(HeaderOf(name))
SystemSectors == {FreeMapSector, DirectorySector} \cup SectorsOf(mounted.freeMap)
                     \cup SectorsOf(mounted.directory)

(* Between operations the bitmap on the disk marks exactly the sectors in  *)
(* use: a Create that fails leaks nothing, a Remove gives back everything. *)
BitmapExact ==
    Idle => FreeMap = SystemSectors \cup UNION {Owned(name) : name \in DOMAIN files}

(* If Nachos stops between two writes of an operation, only the file that  *)
(* the operation is about can be harmed: every other one is still found,   *)
(* intact, in sectors that are marked and that no other file has.  A       *)
(* directory entry lies across two sectors, so this is also about a new    *)
(* entry that has its sector but still the name of an earlier file.        *)
StopHarmsOneFile ==
    mounted # NULL /\ Busy /\ op # NULL =>
        \A name \in DOMAIN files \ {op} :
            /\ Intact(name)
            /\ Owned(name) \subseteq FreeMap
            /\ Owned(name) \cap SystemSectors = {}
            /\ \A other \in DOMAIN files \ {op, name} : Owned(name) \cap Owned(other) = {}
=============================================================================
