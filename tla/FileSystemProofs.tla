-------------------------- MODULE FileSystemProofs --------------------------
(***************************************************************************)
(* The inductive invariant of the file system, FsInv, the operators that   *)
(* it rests on, and what every step of the disk does to it.                *)
(***************************************************************************)
EXTENDS FileSystem, FiniteSetTheorems, TLAPS

-----------------------------------------------------------------------------
(* Arithmetic.                                                             *)

(* The product of two natural numbers is one.                              *)
LEMMA ProductNat ==
    ASSUME NEW a \in Nat, NEW b \in Nat
    PROVE  a * b \in Nat
OBVIOUS

(* What is below is at most.                                               *)
LEMMA AtMost ==
    ASSUME NEW a \in Int, NEW b \in Int, a < b
    PROVE  a <= b
OBVIOUS

(* A file of n cells has the positions 0..(n - 1).                         *)
LEMMA PositionsCount ==
    ASSUME NEW n \in Nat
    PROVE  Cardinality(0..(n - 1)) = n
BY FS_Interval

(* Quotient and remainder of a position in a file.                         *)
LEMMA Division ==
    ASSUME NEW a \in Nat, NEW b \in Nat \ {0}
    PROVE  /\ a \div b \in Nat /\ a % b \in 0..(b - 1)
           /\ a = b * (a \div b) + (a % b)
BY SMTT(20)

(* There is one quotient and one remainder.                                *)
LEMMA DivisionUnique ==
    ASSUME NEW a \in Int, NEW b \in Nat \ {0}, NEW q \in Int, NEW c \in 0..(b - 1),
           a = b * q + c
    PROVE  q = a \div b /\ c = a % b
BY SMTT(20)

(* Multiples of b are at least b apart.                                    *)
LEMMA MultiplesApart ==
    ASSUME NEW b \in Nat, NEW p \in Nat, NEW q \in Nat, p < q
    PROVE  b * p \in Nat /\ b * q \in Nat /\ b * p + b <= b * q
<1>1. PICK k \in Nat : q = p + 1 + k
    <2>1. q - p - 1 \in Nat /\ q = p + 1 + (q - p - 1)
        OBVIOUS
    <2> QED
        BY <2>1
<1>2. b * q = b * p + b + b * k
    BY <1>1
<1>3. b * k \in Nat /\ b * p \in Nat /\ b * q \in Nat
    BY ProductNat
<1> QED
    BY <1>2, <1>3

(* A position of a file of n cells is in one of its sectors.               *)
LEMMA InFile ==
    ASSUME NEW n \in Nat, NEW b \in Nat \ {0}
    PROVE  /\ divRoundUp(n, b) \in Nat
           /\ \A p \in 0..(n - 1) : p \div b + 1 \in 1..divRoundUp(n, b)
<1>1. n \div b \in Nat /\ n % b \in 0..(b - 1) /\ n = b * (n \div b) + (n % b)
    BY Division, Zenon
<1>2. PICK q \in Nat : q = n \div b
    BY <1>1
<1>3. PICK r \in 0..(b - 1) : r = n % b
    BY <1>1
<1>4. n = b * q + r /\ b * q \in Nat
    BY <1>1, <1>2, <1>3, ProductNat, Zenon
<1>5. divRoundUp(n, b) = q + (IF r > 0 THEN 1 ELSE 0)
    BY <1>2, <1>3 DEF divRoundUp
<1>6. ASSUME NEW p \in 0..(n - 1)
      PROVE  p \div b + 1 \in 1..divRoundUp(n, b)
    <2>1. p \div b \in Nat /\ p % b \in 0..(b - 1) /\ p = b * (p \div b) + (p % b)
        BY Division
    <2>2. PICK u \in Nat : u = p \div b
        BY <2>1
    <2>3. PICK v \in 0..(b - 1) : v = p % b
        BY <2>1
    <2>4. p = b * u + v /\ b * u \in Nat
        BY <2>1, <2>2, <2>3, ProductNat
    <2>5. ~(q < u)
        BY <1>4, <2>4, MultiplesApart
    <2>6. u = q => r > 0
        BY <1>4, <2>4
    <2> QED
        BY <2>2, <2>5, <2>6, <1>5
<1> QED
    BY <1>5, <1>6

(* A set of natural numbers that is not empty has a smallest one.          *)
LEMMA Smallest ==
    ASSUME NEW S \in SUBSET Nat, S # {}
    PROVE  \E x \in S : \A y \in S : x <= y
<1>1. \E x \in S : \A y \in S : <<y, x>> \notin OpToRel(<, Nat)
    BY NatLessThanWellFounded, WFMin, Zenon
<1>2. PICK x \in S : \A y \in S : <<y, x>> \notin OpToRel(<, Nat)
    BY <1>1, Zenon
<1>3. \A y \in S : ~(y < x)
    BY <1>2, Zenon DEF OpToRel
<1> QED
    BY <1>3

-----------------------------------------------------------------------------
(* Allocation.                                                             *)

Below(C, s) == {t \in C : t < s}

(* A finite set of numbers has an nth one for every n up to its size.      *)
LEMMA NthExists ==
    ASSUME NEW C \in SUBSET Nat, IsFiniteSet(C), NEW n \in 1..Cardinality(C)
    PROVE  \E s \in C : Cardinality(Below(C, s)) = n - 1
<1> DEFINE Nth(k) == \E s \in C : Cardinality(Below(C, s)) = k - 1
           Bad == {k \in 1..Cardinality(C) : ~Nth(k)}
<1> HIDE DEF Nth
<1>1. Cardinality(C) \in Nat
    BY FS_CardinalityType
<1>2. SUFFICES ASSUME Bad # {} PROVE FALSE
    BY Zenon DEF Nth
<1>3. Bad \in SUBSET Nat
    BY <1>1
<1>4. PICK m \in Bad : \A k \in Bad : m <= k
    BY <1>2, <1>3, Smallest, Zenon
<1>5. m \in 1..Cardinality(C) /\ ~Nth(m)
    OBVIOUS
<1> HIDE DEF Bad
<1>6. CASE m = 1
    <2>1. C # {}
        BY <1>5, FS_EmptySet
    <2>2. PICK s \in C : \A t \in C : s <= t
        BY <2>1, Smallest, Zenon
    <2>3. Below(C, s) = {}
        <3>1. \A t \in C : ~(t < s)
            BY <2>2
        <3> QED
            BY <3>1, Zenon DEF Below
    <2>4. Cardinality(Below(C, s)) = m - 1
        BY <1>6, <2>3, FS_EmptySet
    <2> QED
        BY <1>5, <2>4, Zenon DEF Nth
<1>7. CASE m # 1
    <2>1. m - 1 \in 1..Cardinality(C) /\ ~(m <= m - 1)
        BY <1>1, <1>5, <1>7
    <2>2. Nth(m - 1)
        BY <1>4, <2>1, Zenon DEF Bad
    <2>3. PICK s \in C : Cardinality(Below(C, s)) = m - 1 - 1
        BY <2>2, Zenon DEF Nth
    <2>4. IsFiniteSet(Below(C, s)) /\ s \notin Below(C, s)
        <3>1. Below(C, s) \in SUBSET C
            BY Zenon DEF Below
        <3>2. ~(s < s)
            OBVIOUS
        <3> QED
            BY <3>1, <3>2, FS_Subset, Zenon DEF Below
    <2>5. Cardinality(Below(C, s) \cup {s}) = m - 1
        <3>1. Cardinality(Below(C, s) \cup {s}) = Cardinality(Below(C, s)) + 1
            BY <2>4, FS_AddElement, Zenon
        <3>2. m - 1 - 1 + 1 = m - 1
            BY <1>1, <1>5
        <3> QED
            BY <2>3, <3>1, <3>2, Zenon
    <2>6. Below(C, s) \cup {s} # C
        <3>1. Cardinality(C) # m - 1
            BY <1>1, <1>5
        <3> QED
            BY <2>5, <3>1, Zenon
    <2> DEFINE Above == {t \in C : s < t}
    <2>7. Above # {}
        <3>1. \A t \in C : t < s \/ t = s \/ s < t
            OBVIOUS
        <3> QED
            BY <2>6, <3>1, Zenon DEF Below
    <2>8. Above \in SUBSET Nat
        BY Zenon
    <2>9. PICK u \in Above : \A t \in Above : u <= t
        BY <2>7, <2>8, Smallest, Zenon
    <2>10. Below(C, u) = Below(C, s) \cup {s}
        <3>1. \A t \in C : t < u <=> (t < s \/ t = s)
            <4>1. u \in Nat /\ s < u
                OBVIOUS
            <4>2. \A t \in C : s < t => u <= t
                BY <2>9
            <4> QED
                BY <4>1, <4>2
        <3> QED
            BY <3>1, Zenon DEF Below
    <2> QED
        BY <1>5, <2>5, <2>9, <2>10, Zenon DEF Nth
<1> QED
    BY <1>6, <1>7, Zenon

(* The numbers of the sectors are natural numbers.                         *)
LEMMA SectorsFacts ==
    /\ NumSectors \in Nat /\ SectorSize \in Nat \ {0} /\ 2 <= NumSectors
    /\ Sectors \in SUBSET Nat /\ IsFiniteSet(Sectors) /\ Cardinality(Sectors) = NumSectors
    /\ FreeMapSector \in Sectors /\ DirectorySector \in Sectors
<1>1. NumSectors \in Nat /\ SectorSize \in Nat \ {0} /\ BitsInByte \in Nat \ {0} /\ NumDirEntries \in Nat
    BY FileSystemAssumption, Zenon
<1>2. FreeMapFileSize \in Nat
    <2>1. NumSectors \div BitsInByte \in Nat
        BY <1>1, Division
    <2> QED
        BY <2>1, Zenon DEF FreeMapFileSize
<1>3. DirectoryFileSize \in Nat
    BY <1>1 DEF DirectoryFileSize, EntrySize
<1>4. divRoundUp(FreeMapFileSize, SectorSize) \in Nat /\ divRoundUp(DirectoryFileSize, SectorSize) \in Nat
    BY <1>1, <1>2, <1>3, InFile, Zenon
<1>5. 2 + divRoundUp(FreeMapFileSize, SectorSize) + divRoundUp(DirectoryFileSize, SectorSize)
           <= NumSectors
    BY FileSystemAssumption, Zenon
<1>6. 2 <= NumSectors
    BY <1>1, <1>4, <1>5
<1>7. IsFiniteSet(Sectors) /\ Cardinality(Sectors) = NumSectors
    BY <1>1, <1>6, FS_Interval DEF Sectors
<1>8. Sectors \in SUBSET Nat
    BY <1>1 DEF Sectors
<1>9. FreeMapSector \in Sectors /\ DirectorySector \in Sectors
    BY <1>1, <1>6 DEF Sectors, FreeMapSector, DirectorySector
<1> QED
    BY <1>1, <1>6, <1>7, <1>8, <1>9, Zenon

Headers == [numBytes : Nat, dataSectors : Seq(Nat)]

Blocks(h) == 1..divRoundUp(h.numBytes, SectorSize)

(* A header whose data sectors are as many as its size needs, and all      *)
(* different.                                                              *)
HeaderOK(h) ==
    /\ h \in Headers
    /\ h.dataSectors \in [Blocks(h) -> Sectors]
    /\ \A i, j \in Blocks(h) : h.dataSectors[i] = h.dataSectors[j] => i = j

(* FileHeader::Allocate takes clear sectors, each of them once.            *)
LEMMA AllocatedOK ==
    ASSUME NEW map, NEW size \in Nat, HasRoom(map, size)
    PROVE  LET h == Allocated(map, size)
           IN  HeaderOK(h) /\ h.numBytes = size /\ SectorsOf(h) \subseteq Sectors \ map
<1> DEFINE C == Sectors \ map
           d == divRoundUp(size, SectorSize)
           h == Allocated(map, size)
<1>1. d \in Nat
    BY SectorsFacts, InFile, Zenon
<1>2. C \in SUBSET Nat /\ IsFiniteSet(C)
    BY SectorsFacts, FS_Difference, Zenon
<1>3. Cardinality(C) \in Nat /\ Cardinality(C) >= d
    <2>1. Cardinality(C) \in Nat
        BY <1>2, FS_CardinalityType, Zenon
    <2> QED
        BY <2>1, Zenon DEF HasRoom, NumClear
<1>4. ASSUME NEW i \in 1..d
      PROVE  NthClear(map, i) \in C /\ Cardinality(Below(C, NthClear(map, i))) = i - 1
    <2>1. i \in 1..Cardinality(C)
        BY <1>1, <1>3
    <2>2. \E s \in C : Cardinality(Below(C, s)) = i - 1
        BY <1>2, <2>1, NthExists, Zenon
    <2> QED
        BY <2>2, Zenon DEF NthClear, Below
<1>5. h.numBytes = size /\ h.dataSectors = [i \in 1..d |-> NthClear(map, i)]
    BY DEF Allocated
<1>6. Blocks(h) = 1..d
    BY <1>5, Zenon DEF Blocks
<1>7. h.dataSectors \in [Blocks(h) -> C]
    BY <1>4, <1>5, <1>6, Zenon
<1>8. h.dataSectors \in Seq(Nat)
    <2>1. h.dataSectors \in [1..d -> Nat]
        BY <1>2, <1>6, <1>7
    <2> QED
        BY <1>1, <2>1
<1>9. h \in Headers
    <2>1. h = [numBytes |-> size, dataSectors |-> h.dataSectors]
        BY <1>5, Zenon DEF Allocated
    <2> QED
        BY <1>8, <2>1 DEF Headers
<1>10. ASSUME NEW i \in Blocks(h), NEW j \in Blocks(h), h.dataSectors[i] = h.dataSectors[j]
       PROVE  i = j
    <2>1. i \in 1..d /\ j \in 1..d
        BY <1>6, Zenon
    <2>2. NthClear(map, i) = NthClear(map, j)
        BY <1>5, <1>10, <2>1, Zenon
    <2>3. i - 1 = j - 1
        BY <1>4, <2>1, <2>2, Zenon
    <2> QED
        BY <1>1, <2>1, <2>3
<1>11. SectorsOf(h) \subseteq C
    BY <1>7, Zenon DEF SectorsOf
<1>12. h.dataSectors \in [Blocks(h) -> Sectors]
    BY <1>7
<1>13. HeaderOK(h)
    BY <1>9, <1>10, <1>12, Zenon DEF HeaderOK
<1> QED
    BY <1>5, <1>11, <1>13, Zenon

(* A header has no more sectors than its size needs.                       *)
LEMMA SectorsOfSize ==
    ASSUME NEW h, HeaderOK(h)
    PROVE  /\ IsFiniteSet(SectorsOf(h)) /\ SectorsOf(h) \subseteq Sectors
           /\ Cardinality(SectorsOf(h)) \in Nat
           /\ Cardinality(SectorsOf(h)) <= divRoundUp(h.numBytes, SectorSize)
<1>1. h.numBytes \in Nat
    BY Zenon DEF HeaderOK, Headers
<1>2. PICK d \in Nat : d = divRoundUp(h.numBytes, SectorSize)
    BY <1>1, SectorsFacts, InFile, Zenon
<1>3. h.dataSectors \in [1..d -> Sectors]
    BY <1>2, Zenon DEF HeaderOK, Blocks
<1>4. h.dataSectors \in Surjection(1..d, SectorsOf(h))
    BY <1>3, Zenon DEF Surjection, SectorsOf
<1>5. IsFiniteSet(1..d) /\ Cardinality(1..d) = d
    BY FS_Interval
<1>6. IsFiniteSet(SectorsOf(h)) /\ Cardinality(SectorsOf(h)) <= d
    BY <1>4, <1>5, FS_Surjection
<1>7. Cardinality(SectorsOf(h)) \in Nat
    BY <1>6, FS_CardinalityType, Zenon
<1>8. SectorsOf(h) \subseteq Sectors
    BY <1>3, Zenon DEF SectorsOf
<1> QED
    BY <1>2, <1>6, <1>7, <1>8, Zenon

-----------------------------------------------------------------------------
(* The layout that Format gives the disk.                                  *)

Map0 == {FreeMapSector, DirectorySector}
MapHdr == Allocated(Map0, FreeMapFileSize)
Map1 == Map0 \cup SectorsOf(MapHdr)
DirHdr == Allocated(Map1, DirectoryFileSize)
System == Map1 \cup SectorsOf(DirHdr)
Mounted == [freeMap |-> MapHdr, directory |-> DirHdr]

(* The sizes of the two files of the file system.                          *)
LEMMA Sizes2 ==
    /\ FreeMapFileSize \in Nat /\ DirectoryFileSize \in Nat /\ NumDirEntries \in Nat
    /\ BitsInByte \in Nat \ {0}
    /\ divRoundUp(FreeMapFileSize, SectorSize) \in Nat
    /\ divRoundUp(DirectoryFileSize, SectorSize) \in Nat
    /\ 2 + divRoundUp(FreeMapFileSize, SectorSize) + divRoundUp(DirectoryFileSize, SectorSize)
           <= NumSectors
<1>1. NumSectors \in Nat /\ SectorSize \in Nat \ {0} /\ BitsInByte \in Nat \ {0} /\ NumDirEntries \in Nat
    BY FileSystemAssumption, Zenon
<1>2. FreeMapFileSize \in Nat
    <2>1. NumSectors \div BitsInByte \in Nat
        BY <1>1, Division
    <2> QED
        BY <2>1, Zenon DEF FreeMapFileSize
<1>3. DirectoryFileSize \in Nat
    BY <1>1 DEF DirectoryFileSize, EntrySize
<1>4. divRoundUp(FreeMapFileSize, SectorSize) \in Nat /\ divRoundUp(DirectoryFileSize, SectorSize) \in Nat
    BY <1>1, <1>2, <1>3, InFile, Zenon
<1> QED
    BY <1>1, <1>2, <1>3, <1>4, FileSystemAssumption, Zenon

(* Both files fit, and take sectors of their own.                          *)
LEMMA Layout ==
    /\ HeaderOK(MapHdr) /\ MapHdr.numBytes = FreeMapFileSize
    /\ HeaderOK(DirHdr) /\ DirHdr.numBytes = DirectoryFileSize
    /\ SectorsOf(MapHdr) \subseteq Sectors \ Map0
    /\ SectorsOf(DirHdr) \subseteq Sectors \ Map1
    /\ Map0 \subseteq Sectors /\ Map1 \subseteq Sectors /\ System \subseteq Sectors
<1> DEFINE m == divRoundUp(FreeMapFileSize, SectorSize)
           d == divRoundUp(DirectoryFileSize, SectorSize)
<1>1. m \in Nat /\ d \in Nat /\ NumSectors \in Nat /\ 2 + m + d <= NumSectors
    BY Sizes2, SectorsFacts, Zenon
<1> HIDE DEF m, d
<1>2. Map0 \subseteq Sectors /\ IsFiniteSet(Map0) /\ Cardinality(Map0) = 2
    <2>1. IsFiniteSet({FreeMapSector}) /\ Cardinality({FreeMapSector}) = 1
        BY FS_Singleton, Zenon
    <2>2. DirectorySector \notin {FreeMapSector}
        BY DEF FreeMapSector, DirectorySector
    <2>3. Map0 = {FreeMapSector} \cup {DirectorySector}
        BY Zenon DEF Map0
    <2>4. IsFiniteSet(Map0) /\ Cardinality(Map0) = Cardinality({FreeMapSector}) + 1
        BY <2>1, <2>2, <2>3, FS_AddElement, Zenon
    <2>5. Map0 \subseteq Sectors
        BY SectorsFacts, Zenon DEF Map0
    <2> QED
        BY <2>1, <2>4, <2>5
<1>3. ASSUME NEW M \in SUBSET Sectors
      PROVE  NumClear(M) = NumSectors - Cardinality(M)
    <2>1. Sectors \cap M = M
        BY Zenon
    <2> QED
        BY <2>1, SectorsFacts, FS_Difference, Zenon DEF NumClear
<1>4. HasRoom(Map0, FreeMapFileSize)
    <2>1. NumClear(Map0) = NumSectors - 2
        BY <1>2, <1>3, Zenon
    <2>2. NumClear(Map0) >= m
        BY <1>1, <2>1
    <2> QED
        BY <2>2, Zenon DEF HasRoom, m
<1>5. HeaderOK(MapHdr) /\ MapHdr.numBytes = FreeMapFileSize /\ SectorsOf(MapHdr) \subseteq Sectors \ Map0
    BY <1>4, Sizes2, AllocatedOK, Zenon DEF MapHdr
<1>6. IsFiniteSet(Map1) /\ Map1 \subseteq Sectors /\ Cardinality(Map1) \in Nat /\ Cardinality(Map1) <= 2 + m
    <2>1. IsFiniteSet(SectorsOf(MapHdr)) /\ Cardinality(SectorsOf(MapHdr)) \in Nat
          /\ Cardinality(SectorsOf(MapHdr)) <= m
        BY <1>5, SectorsOfSize, Zenon DEF m
    <2>2. Map0 \cap SectorsOf(MapHdr) = {}
        BY <1>5, Zenon
    <2>3. Cardinality(Map0 \cap SectorsOf(MapHdr)) = 0
        BY <2>2, FS_EmptySet, Zenon
    <2>4. IsFiniteSet(Map1) /\ Cardinality(Map1)
              = Cardinality(Map0) + Cardinality(SectorsOf(MapHdr))
                    - Cardinality(Map0 \cap SectorsOf(MapHdr))
        BY <1>2, <2>1, FS_Union, Zenon DEF Map1
    <2>5. Map1 \subseteq Sectors
        BY <1>2, <1>5, Zenon DEF Map1
    <2> QED
        BY <1>1, <1>2, <2>1, <2>3, <2>4, <2>5
<1>7. HasRoom(Map1, DirectoryFileSize)
    <2>1. NumClear(Map1) = NumSectors - Cardinality(Map1)
        BY <1>6, <1>3, Zenon
    <2>2. NumClear(Map1) >= d
        BY <1>1, <1>6, <2>1
    <2> QED
        BY <2>2, Zenon DEF HasRoom, d
<1>8. HeaderOK(DirHdr) /\ DirHdr.numBytes = DirectoryFileSize /\ SectorsOf(DirHdr) \subseteq Sectors \ Map1
    BY <1>7, Sizes2, AllocatedOK, Zenon DEF DirHdr
<1> QED
    BY <1>2, <1>5, <1>6, <1>8, Zenon DEF System

-----------------------------------------------------------------------------
(* Reading and writing a file.                                             *)

Positions(h) == 0..(h.numBytes - 1)

Cell(h, p) == data[ByteToSector(h, p)][p % SectorSize]

(* The sectors of a file that a list of writes will reach, and what will   *)
(* then be in the file.                                                    *)
InTransit(w, h, cells) ==
    /\ \A j \in DOMAIN w : w[j].sector \in SectorsOf(h)
    /\ \A p \in Positions(h) :
          (\A j \in DOMAIN w : w[j].sector # ByteToSector(h, p)) => Cell(h, p) = cells[p]
    /\ \A p \in Positions(h), j \in DOMAIN w :
          w[j].sector = ByteToSector(h, p) => w[j].cells[p % SectorSize] = cells[p]

IsSequence(w) == \E S : w \in Seq(S)

(* A position of a file has a quotient, which is the number of a block of  *)
(* the file, and a remainder.                                              *)
LEMMA Position ==
    ASSUME NEW h, HeaderOK(h), NEW p \in Positions(h)
    PROVE  /\ p \in Nat /\ h.numBytes \in Nat /\ p < h.numBytes
           /\ p \div SectorSize \in Nat /\ p % SectorSize \in 0..(SectorSize - 1)
           /\ p = SectorSize * (p \div SectorSize) + (p % SectorSize)
           /\ p \div SectorSize + 1 \in Blocks(h)
           /\ ByteToSector(h, p) \in SectorsOf(h) /\ ByteToSector(h, p) \in Sectors
<1>1. h.numBytes \in Nat
    BY Zenon DEF HeaderOK, Headers
<1>2. p \in Nat /\ p < h.numBytes
    BY <1>1 DEF Positions
<1>3. SectorSize \in Nat \ {0}
    BY SectorsFacts, Zenon
<1>4. p \div SectorSize + 1 \in Blocks(h)
    BY <1>1, <1>3, InFile, Zenon DEF Blocks, Positions
<1>5. h.dataSectors \in [Blocks(h) -> Sectors]
    BY Zenon DEF HeaderOK
<1>6. ByteToSector(h, p) \in SectorsOf(h) /\ ByteToSector(h, p) \in Sectors
    BY <1>4, <1>5, Zenon DEF ByteToSector, SectorsOf
<1>7. /\ p \div SectorSize \in Nat /\ p % SectorSize \in 0..(SectorSize - 1)
      /\ p = SectorSize * (p \div SectorSize) + (p % SectorSize)
    BY <1>2, <1>3, Division, Zenon
<1> QED
    BY <1>1, <1>2, <1>4, <1>6, <1>7, Zenon

(* OpenFile::ReadAt reads the cells of the file that are there.            *)
LEMMA ReadAtCells ==
    ASSUME NEW h, HeaderOK(h), NEW n \in Nat, NEW at \in Nat, at < h.numBytes
    PROVE  LET m == IF at + n > h.numBytes THEN h.numBytes - at ELSE n
           IN  /\ DOMAIN ReadAt(h, n, at) = 0..(m - 1)
               /\ \A i \in 0..(m - 1) : ReadAt(h, n, at)[i] = Cell(h, at + i)
<1> DEFINE m == IF at + n > h.numBytes THEN h.numBytes - at ELSE n
<1>1. h.numBytes \in Nat
    BY Zenon DEF HeaderOK, Headers
<1>2. 0..(Transferred(h, n, at) - 1) = 0..(m - 1)
    <2>1. CASE n = 0
        <3>1. Transferred(h, n, at) = 0 /\ m = 0
            BY <2>1, <1>1 DEF Transferred
        <3> QED
            BY <3>1, Zenon
    <2>2. CASE n # 0
        <3>1. Transferred(h, n, at) = m
            BY <2>2, <1>1 DEF Transferred
        <3> QED
            BY <3>1, Zenon
    <2> QED
        BY <2>1, <2>2, Zenon
<1> HIDE DEF m
<1>3. ReadAt(h, n, at) = [i \in 0..(m - 1) |-> Cell(h, at + i)]
    BY <1>2, Zenon DEF ReadAt, Cell
<1> QED
    BY <1>3, Zenon DEF m

(* What the file holds once a WriteAt is over.                             *)
Overwritten(h, from, numBytes, position) ==
    [p \in Positions(h) |->
        IF p \in position..(position + Transferred(h, numBytes, position) - 1)
        THEN from[p - position] ELSE Cell(h, p)]

(* The sectors that a write from position `at' to position `e' touches:    *)
(* where they begin and end.                                               *)
LEMMA Touched ==
    ASSUME NEW S \in Nat \ {0}, NEW at \in Nat, NEW n \in Nat \ {0}
    PROVE  LET first == at \div S
               last == (at + n - 1) \div S
           IN  /\ first \in Nat /\ last \in Nat /\ first <= last
               /\ S * first \in Nat /\ S * last \in Nat /\ S * first <= at /\ at < S * first + S
               /\ S * last <= at + n - 1 /\ at + n <= S * last + S
               /\ first = last \/ S * first + S <= S * last
<1>1. PICK e \in Nat : e = at + n - 1
    OBVIOUS
<1>2. PICK q \in Nat, r \in 0..(S - 1) : q = at \div S /\ r = at % S /\ at = S * q + r
    BY Division, Zenon
<1>3. PICK u \in Nat, v \in 0..(S - 1) : u = e \div S /\ v = e % S /\ e = S * u + v
    BY Division, Zenon
<1>4. S * q \in Nat /\ S * u \in Nat
    BY ProductNat
<1>5. ~(u < q)
    <2>1. SUFFICES ASSUME u < q PROVE FALSE
        BY Zenon
    <2>2. S * u + S <= S * q
        BY <2>1, MultiplesApart
    <2> QED
        BY <1>1, <1>2, <1>3, <1>4, <2>2
<1>6. q = u \/ S * q + S <= S * u
    BY <1>5, MultiplesApart
<1>7. /\ q <= u /\ S * q <= at /\ at < S * q + S
      /\ S * u <= at + n - 1 /\ at + n <= S * u + S
    BY <1>1, <1>2, <1>3, <1>4, <1>5
<1> QED
    BY <1>1, <1>2, <1>3, <1>4, <1>6, <1>7, Zenon

(* The buffer of OpenFile::WriteAt for a write of n cells at `at', whose   *)
(* first sector begins at A and whose last one begins at Z.                *)
FirstRead(h, D, at, A) ==
    LET new == [i \in D |-> "garbage"]
    IN  IF at = A THEN new ELSE Copied(new, 0, ReadAt(h, SectorSize, A))
LastRead(h, D, at, n, A, Z) ==
    IF ~(at + n = Z + SectorSize) /\ (A # Z \/ at = A)
    THEN Copied(FirstRead(h, D, at, A), Z - A, ReadAt(h, SectorSize, Z))
    ELSE FirstRead(h, D, at, A)
Buffered(h, from, D, at, n, A, Z) ==
    Copied(LastRead(h, D, at, n, A, Z), at - A, [i \in 0..(n - 1) |-> from[i]])

(* A is where the first sector begins, and Z where the last one does.      *)
Spans(at, n, A, Z) ==
    /\ at \in Nat /\ n \in Nat \ {0} /\ A \in Nat /\ Z \in Nat
    /\ A <= at /\ at < A + SectorSize
    /\ Z <= at + n - 1 /\ at + n <= Z + SectorSize
    /\ A = Z \/ A + SectorSize <= Z

BufferExact(h, from, D, at, n, A, Z, j) ==
    Buffered(h, from, D, at, n, A, Z)[j] =
        IF A + j \in at..(at + n - 1) THEN from[(A + j) - at] ELSE Cell(h, A + j)

(* The buffer holds the new cells where the write goes, and elsewhere what *)
(* the file holds there.                                                   *)
LEMMA BufferCells ==
    ASSUME NEW h, HeaderOK(h), NEW from, NEW at, NEW n, NEW A, NEW Z, Spans(at, n, A, Z),
           at + n <= h.numBytes, NEW D, NEW j \in D, j \in Nat,
           A + j < Z + SectorSize, A + j < h.numBytes
    PROVE  BufferExact(h, from, D, at, n, A, Z, j)
<1>0. /\ at \in Nat /\ n \in Nat \ {0} /\ A \in Nat /\ Z \in Nat
      /\ A <= at /\ at < A + SectorSize
      /\ Z <= at + n - 1 /\ at + n <= Z + SectorSize
      /\ A = Z \/ A + SectorSize <= Z
    BY Zenon DEF Spans
<1> SUFFICES Buffered(h, from, D, at, n, A, Z)[j] =
                 IF A + j \in at..(at + n - 1) THEN from[(A + j) - at] ELSE Cell(h, A + j)
    BY Zenon DEF BufferExact
<1> DEFINE new == [i \in D |-> "garbage"]
           ff == FirstRead(h, D, at, A)
           ll == LastRead(h, D, at, n, A, Z)
           rr == [i \in 0..(n - 1) |-> from[i]]
<1>1. SectorSize \in Nat \ {0} /\ h.numBytes \in Nat
    <2>1. h.numBytes \in Nat
        BY Zenon DEF HeaderOK, Headers
    <2> QED
        BY <2>1, SectorsFacts, Zenon
<1>2. DOMAIN new = D
    BY Zenon
<1>3. DOMAIN ff = D
    BY <1>2, Zenon DEF FirstRead, Copied
<1>4. DOMAIN ll = D
    BY <1>3, Zenon DEF LastRead, Copied
<1>5. DOMAIN rr = 0..(n - 1)
    BY Zenon
<1>5a. Buffered(h, from, D, at, n, A, Z) = Copied(ll, at - A, rr)
    BY Zenon DEF Buffered
<1>5b. \A i \in 0..(n - 1) : rr[i] = from[i]
    BY Zenon
<1>5c. at # A => ff = Copied(new, 0, ReadAt(h, SectorSize, A))
    BY Zenon DEF FirstRead
<1>5d. /\ ~(at + n = Z + SectorSize) /\ (A # Z \/ at = A)
             => ll = Copied(ff, Z - A, ReadAt(h, SectorSize, Z))
       /\ ~(~(at + n = Z + SectorSize) /\ (A # Z \/ at = A)) => ll = ff
    BY Zenon DEF LastRead
<1> HIDE DEF new, ff, ll, rr
<1>6. CASE A + j \in at..(at + n - 1)
    <2>1. j - (at - A) \in 0..(n - 1) /\ j - (at - A) = (A + j) - at
        BY <1>6, <1>1, <1>0
    <2>2. Copied(ll, at - A, rr)[j] = rr[j - (at - A)]
        BY <1>4, <1>5, <2>1, Zenon DEF Copied
    <2>3. rr[j - (at - A)] = from[j - (at - A)]
        BY <1>5b, <2>1, Zenon
    <2> QED
        BY <1>5a, <1>6, <2>1, <2>2, <2>3, Zenon
<1>7. CASE A + j \notin at..(at + n - 1)
    <2>1. j - (at - A) \notin 0..(n - 1) /\ (A + j < at \/ at + n <= A + j)
        BY <1>7, <1>1, <1>0
    <2>2. Copied(ll, at - A, rr)[j] = ll[j]
        BY <1>4, <1>5, <2>1, Zenon DEF Copied
    <2>3. SUFFICES ll[j] = Cell(h, A + j)
        BY <1>5a, <1>7, <2>2, Zenon
    <2>4. ASSUME at # A, j < SectorSize
          PROVE  ff[j] = Cell(h, A + j)
        <3>1. A < h.numBytes
            BY <1>1, <1>0
        <3> DEFINE m == IF A + SectorSize > h.numBytes THEN h.numBytes - A ELSE SectorSize
                   read == ReadAt(h, SectorSize, A)
        <3>2. DOMAIN read = 0..(m - 1) /\ \A i \in 0..(m - 1) : read[i] = Cell(h, A + i)
            BY <1>1, <3>1, <1>0, ReadAtCells, Zenon
        <3>2a. DOMAIN read = 0..(m - 1)
            BY <3>2, Zenon
        <3> HIDE DEF read
        <3>3. j - 0 \in 0..(m - 1) /\ j - 0 = j
            BY <1>1, <2>4, <1>0
        <3> HIDE DEF m
        <3>4. Copied(new, 0, read)[j] = read[j - 0]
            BY <1>2, <3>2a, <3>3, Zenon DEF Copied
        <3>5. ff = Copied(new, 0, read)
            BY <1>5c, <2>4, Zenon DEF read
        <3> QED
            BY <3>2, <3>3, <3>4, <3>5, Zenon
    <2>5. CASE ~(at + n = Z + SectorSize) /\ (A # Z \/ at = A)
        <3> DEFINE m == IF Z + SectorSize > h.numBytes THEN h.numBytes - Z ELSE SectorSize
                   read == ReadAt(h, SectorSize, Z)
        <3>1. Z < h.numBytes
            BY <1>1, <1>0
        <3>2. DOMAIN read = 0..(m - 1) /\ \A i \in 0..(m - 1) : read[i] = Cell(h, Z + i)
            BY <1>1, <3>1, <1>0, ReadAtCells, Zenon
        <3>2a. DOMAIN read = 0..(m - 1)
            BY <3>2, Zenon
        <3> HIDE DEF read
        <3>3. ll = Copied(ff, Z - A, read)
            BY <1>5d, <2>5, Zenon DEF read
        <3>4. CASE A + j < Z
            <4>1. j - (Z - A) \notin 0..(m - 1)
                BY <3>4, <1>1, <1>0
            <4> HIDE DEF m
            <4>2. ll[j] = ff[j]
                BY <1>3, <3>2a, <3>3, <4>1, Zenon DEF Copied
            <4>3. A + j < at
                BY <3>4, <2>1, <1>0
            <4>4. at # A /\ j < SectorSize
                BY <4>3, <1>1, <1>0
            <4> QED
                BY <2>4, <4>2, <4>4, Zenon
        <3>5. CASE Z <= A + j
            <4>1. j - (Z - A) \in 0..(m - 1) /\ Z + (j - (Z - A)) = A + j
                BY <3>5, <1>1, <1>0
            <4> HIDE DEF m
            <4>2. ll[j] = read[j - (Z - A)]
                BY <1>3, <3>2a, <3>3, <4>1, Zenon DEF Copied
            <4>3. read[j - (Z - A)] = Cell(h, Z + (j - (Z - A)))
                BY <3>2, <4>1, Zenon
            <4> QED
                BY <4>1, <4>2, <4>3, Zenon
        <3> QED
            BY <3>4, <3>5, <1>0
    <2>6. CASE ~(~(at + n = Z + SectorSize) /\ (A # Z \/ at = A))
        <3>1. ll = ff
            BY <1>5d, <2>6, Zenon
        <3>2. A + j < at \/ (A = Z /\ at # A)
            BY <2>1, <2>6, <1>0
        <3>3. at # A /\ j < SectorSize
            BY <3>2, <1>1, <1>0
        <3> QED
            BY <2>4, <3>1, <3>3, Zenon
    <2> QED
        BY <2>5, <2>6, Zenon
<1> QED
    BY <1>6, <1>7, Zenon

(* OpenFile::WriteAt changes the cells that it is asked to change, and no  *)
(* other cell of the file.                                                 *)
LEMMA WriteAtCells ==
    ASSUME NEW h, HeaderOK(h), NEW from, NEW numBytes \in Nat, NEW at \in Nat
    PROVE  /\ IsSequence(WriteAt(h, from, numBytes, at))
           /\ InTransit(WriteAt(h, from, numBytes, at), h, Overwritten(h, from, numBytes, at))
<1> DEFINE S == SectorSize
           n == Transferred(h, numBytes, at)
           first == at \div S
           last == (at + n - 1) \div S
           num == 1 + last - first
           D == 0..(num * S - 1)
           A == first * S
           Z == last * S
           buf == Buffered(h, from, D, at, n, A, Z)
           w == WriteAt(h, from, numBytes, at)
           new == Overwritten(h, from, numBytes, at)
<1>1. S \in Nat \ {0} /\ h.numBytes \in Nat
    <2>1. h.numBytes \in Nat
        BY Zenon DEF HeaderOK, Headers
    <2> QED
        BY <2>1, SectorsFacts, Zenon
<1>2. n = 0 \/ (n \in Nat \ {0} /\ at + n <= h.numBytes)
    BY <1>1 DEF Transferred
<1>3. \A p \in Positions(h) : new[p] = IF p \in at..(at + n - 1) THEN from[p - at] ELSE Cell(h, p)
    BY Zenon DEF Overwritten
<1>4. CASE n = 0
    <2>1. w = <<>>
        BY <1>4, Zenon DEF WriteAt
    <2>2. DOMAIN w = {} /\ w \in Seq({})
        BY <2>1
    <2>3. at..(at + n - 1) = {}
        BY <1>4
    <2>4. \A p \in Positions(h) : new[p] = Cell(h, p)
        BY <1>3, <2>3, Zenon
    <2> HIDE DEF w, new
    <2>5. InTransit(w, h, new)
        BY <2>2, <2>4, Zenon DEF InTransit
    <2> QED
        BY <2>2, <2>5, Zenon DEF IsSequence, w, new
<1>5. CASE n # 0
    <2>1. n \in Nat \ {0} /\ at + n <= h.numBytes
        BY <1>2, <1>5, Zenon
    <2> HIDE DEF S, n
    <2>2. /\ first \in Nat /\ last \in Nat /\ first <= last
          /\ S * first \in Nat /\ S * last \in Nat /\ S * first <= at /\ at < S * first + S
          /\ S * last <= at + n - 1 /\ at + n <= S * last + S
          /\ first = last \/ S * first + S <= S * last
        BY <1>1, <2>1, Touched, Zenon
    <2> HIDE DEF first, last
    <2>3. /\ A \in Nat /\ Z \in Nat /\ A <= at /\ at < A + S
          /\ Z <= at + n - 1 /\ at + n <= Z + S
          /\ A = Z \/ A + S <= Z
          /\ (last + 1) * S = Z + S /\ (last - first) * S = Z - A /\ num * S = Z + S - A
          /\ (first # last <=> A # Z)
        BY <1>1, <2>2
    <2>4. w = [k \in 1..num |-> [sector |-> ByteToSector(h, (first + k - 1) * S),
                                 cells |-> [i \in 0..(S - 1) |-> buf[(k - 1) * S + i]]]]
        BY <1>5, <2>3, Zenon DEF WriteAt, Buffered, LastRead, FirstRead, S, n, first, last
    <2>5. num \in Nat \ {0}
        BY <2>2
    <2> HIDE DEF w, buf, num
    <2>6. DOMAIN w = 1..num
        BY <2>4, Zenon
    <2>7. IsSequence(w)
        <3> DEFINE X == {w[k] : k \in 1..num}
        <3>1. w \in [1..num -> X]
            BY <2>4, <2>6, Zenon
        <3> HIDE DEF X
        <3>2. w \in Seq(X)
            BY <2>5, <3>1
        <3> QED
            BY <3>2, Zenon DEF IsSequence
    <2>8. ASSUME NEW j \in 1..num
          PROVE  /\ first + j - 1 \in Nat /\ first + j - 1 + 1 \in Blocks(h)
                 /\ w[j].sector = h.dataSectors[first + j - 1 + 1]
                 /\ w[j].cells = [i \in 0..(S - 1) |-> buf[(j - 1) * S + i]]
        <3>1. PICK b \in Nat : b = first + j - 1 /\ b <= last
            BY <2>2, <2>5 DEF num
        <3>2. b * S \in Nat /\ b * S <= Z
            <4>1. b = last \/ S * b + S <= S * last
                BY <1>1, <2>2, <3>1, MultiplesApart
            <4>2. b * S = S * b /\ Z = S * last /\ S * b \in Nat
                BY <1>1, <2>2, ProductNat
            <4> QED
                BY <1>1, <2>2, <4>1, <4>2
        <3>3. b * S \in Positions(h)
            BY <1>1, <2>1, <2>3, <3>2 DEF Positions
        <3>4. (b * S) \div S = b
            <4>1. b * S = S * b + 0 /\ 0 \in 0..(S - 1)
                BY <1>1
            <4> QED
                BY <1>1, <3>2, <4>1, DivisionUnique
        <3>5. b + 1 \in Blocks(h)
            BY <3>3, <3>4, Position, Zenon DEF S
        <3>6. ByteToSector(h, b * S) = h.dataSectors[b + 1]
            BY <3>4, Zenon DEF ByteToSector, S
        <3>7. w[j].sector = ByteToSector(h, (first + j - 1) * S)
              /\ w[j].cells = [i \in 0..(S - 1) |-> buf[(j - 1) * S + i]]
            BY <2>4, Zenon
        <3> QED
            BY <3>1, <3>5, <3>6, <3>7, Zenon
    <2>9. ASSUME NEW j \in 1..num
          PROVE  w[j].sector \in SectorsOf(h)
        <3>1. h.dataSectors \in [Blocks(h) -> Sectors]
            BY Zenon DEF HeaderOK
        <3> QED
            BY <2>8, <3>1, Zenon DEF SectorsOf
    <2>10. ASSUME NEW p \in Positions(h), NEW j \in 1..num,
                  w[j].sector = ByteToSector(h, p)
           PROVE  w[j].cells[p % S] = new[p]
        <3>1. PICK r \in 0..(S - 1) : r = p % S
            BY Position, Zenon DEF S
        <3>2. PICK b \in Nat : b = p \div S
            BY Position, Zenon DEF S
        <3>3. p = S * b + r /\ p \in Nat /\ p < h.numBytes /\ b + 1 \in Blocks(h)
            BY <3>1, <3>2, Position, Zenon DEF S
        <3>4. b + 1 = first + j - 1 + 1
            BY <2>8, <2>10, <3>2, <3>3, Zenon DEF HeaderOK, ByteToSector, S
        <3>5. b = first + (j - 1) /\ j - 1 \in Nat /\ first + (j - 1) <= last
            BY <2>2, <2>5, <3>4 DEF num
        <3>6. PICK i \in Nat : i = (j - 1) * S + r
            BY <1>1, <3>5, ProductNat
        <3>7. A + i = p
            BY <1>1, <2>2, <3>3, <3>5, <3>6
        <3>8. p < Z + S
            <4>1. b = last \/ S * b + S <= S * last
                BY <1>1, <2>2, <3>5, MultiplesApart
            <4>2. Z = S * last /\ S * b \in Nat
                BY <1>1, <2>2, ProductNat
            <4> QED
                BY <1>1, <2>2, <3>3, <4>1, <4>2
        <3>9. i \in D
            BY <1>1, <2>3, <3>6, <3>7, <3>8
        <3> HIDE DEF A, Z, D
        <3>10. buf[i] = IF A + i \in at..(at + n - 1) THEN from[(A + i) - at] ELSE Cell(h, A + i)
            <4>1. A + i < Z + SectorSize /\ A + i < h.numBytes
                BY <3>3, <3>7, <3>8, Zenon DEF S
            <4>2. Spans(at, n, A, Z)
                BY <2>1, <2>3, Zenon DEF S, Spans
            <4> QED
                <5>1. at + n <= h.numBytes
                    BY <2>1, Zenon
                <5>2. BufferExact(h, from, D, at, n, A, Z, i)
                    BY <3>9, <4>1, <4>2, <5>1, BufferCells, Zenon
                <5> QED
                    BY <5>2, Zenon DEF buf, BufferExact
        <3> HIDE DEF new
        <3>11. buf[i] = new[p]
            <4>1. buf[i] = IF p \in at..(at + n - 1) THEN from[p - at] ELSE Cell(h, p)
                <5> DEFINE Value(x) == IF x \in at..(at + n - 1) THEN from[x - at] ELSE Cell(h, x)
                <5>1. buf[i] = Value(A + i)
                    BY <3>10, Zenon
                <5> HIDE DEF Value
                <5>2. buf[i] = Value(p)
                    BY <3>7, <5>1, Zenon
                <5> QED
                    BY <5>2, Zenon DEF Value
            <4> QED
                BY <1>3, <4>1, Zenon
        <3>12. w[j].cells[r] = buf[(j - 1) * S + r]
            BY <2>8, <3>1, Zenon
        <3> QED
            BY <3>1, <3>6, <3>11, <3>12, Zenon
    <2>11. ASSUME NEW p \in Positions(h), \A j \in 1..num : w[j].sector # ByteToSector(h, p)
           PROVE  Cell(h, p) = new[p]
        <3>1. SUFFICES ASSUME p \in at..(at + n - 1) PROVE FALSE
            BY <1>3, Zenon
        <3>2. PICK r \in 0..(S - 1) : r = p % S
            BY Position, Zenon DEF S
        <3>3. PICK b \in Nat : b = p \div S
            BY Position, Zenon DEF S
        <3>4. p = S * b + r /\ S * b \in Nat
            BY <1>1, <3>2, <3>3, Position, ProductNat, Zenon DEF S
        <3>5. ~(b < first)
            <4>1. SUFFICES ASSUME b < first PROVE FALSE
                BY Zenon
            <4>2. S * b + S <= S * first
                BY <1>1, <2>2, <4>1, MultiplesApart
            <4> QED
                BY <1>1, <2>2, <3>1, <3>4, <4>2
        <3>6. ~(last < b)
            <4>1. SUFFICES ASSUME last < b PROVE FALSE
                BY Zenon
            <4>2. S * last + S <= S * b
                BY <1>1, <2>2, <4>1, MultiplesApart
            <4> QED
                BY <1>1, <2>1, <2>2, <3>1, <3>4, <4>2
        <3>7. PICK j \in 1..num : b + 1 = first + j - 1 + 1
            <4>1. b - first + 1 \in 1..num /\ b + 1 = first + (b - first + 1) - 1 + 1
                BY <2>2, <3>5, <3>6 DEF num
            <4> QED
                BY <4>1
        <3>8. w[j].sector = ByteToSector(h, p)
            BY <2>8, <3>3, <3>7, Zenon DEF ByteToSector, S
        <3> QED
            BY <2>11, <3>8, Zenon
    <2> HIDE DEF new
    <2>12. InTransit(w, h, new)
        BY <2>6, <2>9, <2>10, <2>11, Zenon DEF InTransit, S
    <2> QED
        BY <2>7, <2>12, Zenon DEF w, new
<1> QED
    BY <1>4, <1>5, Zenon

-----------------------------------------------------------------------------
(* Files on the disk while sectors are written.                            *)

DiskOK ==
    /\ header = [s \in Sectors |-> header[s]]
    /\ data = [s \in Sectors |-> data[s]]
    /\ IsSequence(writes)

OnDisk(h, cells) == \A p \in Positions(h) : Cell(h, p) = cells[p]

(* Every cell is an old one or a new one.                                  *)
Mixed(h, old, new) == \A p \in Positions(h) : Cell(h, p) \in {old[p], new[p]}

Arriving(h, cells) == InTransit(writes, h, cells)

(* The contents of sectors that an action leaves alone.                    *)
DataKept(S) == \A s \in S : data'[s] = data[s]
HeaderKept(S) == \A s \in S : header'[s] = header[s]

(* A file reads the same if its sectors are left alone.                    *)
LEMMA CellFrame ==
    ASSUME NEW h, HeaderOK(h), DataKept(SectorsOf(h)), NEW p \in Positions(h)
    PROVE  Cell(h, p)' = Cell(h, p)
<1>1. ByteToSector(h, p) \in SectorsOf(h)
    BY Position, Zenon
<1>2. data'[ByteToSector(h, p)] = data[ByteToSector(h, p)]
    BY <1>1, Zenon DEF DataKept
<1> QED
    BY <1>2 DEF Cell

(* And so it holds what it held.                                           *)
LEMMA OnDiskFrame ==
    ASSUME NEW h, HeaderOK(h), DataKept(SectorsOf(h)), NEW cells, OnDisk(h, cells)
    PROVE  OnDisk(h, cells)'
BY CellFrame DEF OnDisk

(* What a step of the writing of sectors does to the disk.                 *)
LEMMA WriteSectorStep ==
    ASSUME DiskOK, WriteSector, NEW h, HeaderOK(h), NEW cells, Arriving(h, cells)
    PROVE  \E s \in SectorsOf(h) :
              /\ s \in Sectors
              /\ s = writes[1].sector /\ 1 \in DOMAIN writes
              /\ data' = [data EXCEPT ![s] = writes[1].cells]
              /\ header' = [header EXCEPT ![s] = NULL]
              /\ IsSequence(writes')
              /\ \A j \in DOMAIN writes' : j + 1 \in DOMAIN writes /\ writes'[j] = writes[j + 1]
              /\ \A j \in DOMAIN writes : j = 1 \/ \E i \in DOMAIN writes' : j = i + 1
<1>1. PICK S : writes \in Seq(S)
    BY Zenon DEF DiskOK, IsSequence
<1>2. writes # <<>> /\ writes' = Tail(writes)
    BY Zenon DEF WriteSector
<1>3. 1 \in DOMAIN writes /\ Head(writes) = writes[1]
    BY <1>1, <1>2
<1>4. writes' \in Seq(S) /\ Len(writes') = Len(writes) - 1 /\ Len(writes) \in Nat \ {0}
      /\ DOMAIN writes' = 1..Len(writes') /\ DOMAIN writes = 1..Len(writes)
      /\ \A j \in DOMAIN writes' : writes'[j] = writes[j + 1]
    BY <1>1, <1>2
<1>5. \A j \in DOMAIN writes' : j + 1 \in DOMAIN writes
    BY <1>4
<1>6. \A j \in DOMAIN writes : j = 1 \/ \E i \in DOMAIN writes' : j = i + 1
    <2>1. \A j \in DOMAIN writes : j # 1 => j - 1 \in DOMAIN writes' /\ j = (j - 1) + 1
        BY <1>4
    <2> QED
        BY <2>1, Zenon
<1>7. writes[1].sector \in SectorsOf(h)
    BY <1>3, Zenon DEF Arriving, InTransit
<1>8. writes[1].sector \in Sectors
    BY <1>7, SectorsOfSize, Zenon
<1>9. /\ data' = [data EXCEPT ![writes[1].sector] = writes[1].cells]
      /\ header' = [header EXCEPT ![writes[1].sector] = NULL]
    BY <1>3, Zenon DEF WriteSector
<1>10. IsSequence(writes')
    BY <1>4, Zenon DEF IsSequence
<1> QED
    BY <1>3, <1>4, <1>5, <1>6, <1>7, <1>8, <1>9, <1>10, Zenon

(* A file comes to hold what is written to it, cell by cell.               *)
LEMMA ArrivingStep ==
    ASSUME DiskOK, WriteSector, NEW h, HeaderOK(h), NEW cells, Arriving(h, cells)
    PROVE  Arriving(h, cells)' /\ DiskOK'
<1>1. PICK s \in SectorsOf(h) :
              /\ s \in Sectors
              /\ s = writes[1].sector /\ 1 \in DOMAIN writes
              /\ data' = [data EXCEPT ![s] = writes[1].cells]
              /\ header' = [header EXCEPT ![s] = NULL]
              /\ IsSequence(writes')
              /\ \A j \in DOMAIN writes' : j + 1 \in DOMAIN writes /\ writes'[j] = writes[j + 1]
              /\ \A j \in DOMAIN writes : j = 1 \/ \E i \in DOMAIN writes' : j = i + 1
    BY WriteSectorStep, Zenon
<1>2. /\ data' = [t \in Sectors |-> data'[t]] /\ header' = [t \in Sectors |-> header'[t]]
      /\ data'[s] = writes[1].cells
      /\ \A t \in Sectors : t # s => data'[t] = data[t]
    BY <1>1, Zenon DEF DiskOK
<1>3. DiskOK'
    BY <1>1, <1>2, Zenon DEF DiskOK
<1>4. \A j \in DOMAIN writes' : writes'[j].sector \in SectorsOf(h)
    BY <1>1, Zenon DEF Arriving, InTransit
<1>5. ASSUME NEW p \in Positions(h), NEW j \in DOMAIN writes', writes'[j].sector = ByteToSector(h, p)
      PROVE  writes'[j].cells[p % SectorSize] = cells[p]
    <2>1. j + 1 \in DOMAIN writes /\ writes'[j] = writes[j + 1]
        BY <1>1, Zenon
    <2>2. writes[j + 1].sector = ByteToSector(h, p)
        BY <1>5, <2>1, Zenon
    <2>3. writes[j + 1].cells[p % SectorSize] = cells[p]
        BY <2>1, <2>2, Zenon DEF Arriving, InTransit
    <2> QED
        BY <2>1, <2>3, Zenon
<1>6. ASSUME NEW p \in Positions(h), \A j \in DOMAIN writes' : writes'[j].sector # ByteToSector(h, p)
      PROVE  Cell(h, p)' = cells[p]
    <2>1. CASE ByteToSector(h, p) = s
        <3>1. writes[1].cells[p % SectorSize] = cells[p]
            BY <1>1, <2>1, Zenon DEF Arriving, InTransit
        <3>2. Cell(h, p)' = data'[s][p % SectorSize]
            BY <2>1 DEF Cell
        <3> QED
            BY <1>2, <3>1, <3>2
    <2>2. CASE ByteToSector(h, p) # s
        <3>1. \A j \in DOMAIN writes : writes[j].sector # ByteToSector(h, p)
            <4>1. ASSUME NEW j \in DOMAIN writes PROVE writes[j].sector # ByteToSector(h, p)
                <5>1. CASE j = 1
                    BY <1>1, <2>2, <5>1, Zenon
                <5>2. CASE j # 1
                    <6>1. PICK i \in DOMAIN writes' : j = i + 1
                        BY <1>1, <5>2, Zenon
                    <6>2. writes'[i] = writes[j]
                        BY <1>1, <6>1, Zenon
                    <6> QED
                        BY <1>6, <6>2, Zenon
                <5> QED
                    BY <5>1, <5>2, Zenon
            <4> QED
                BY <4>1, Zenon
        <3>2. Cell(h, p) = cells[p]
            BY <3>1, Zenon DEF Arriving, InTransit
        <3>3. ByteToSector(h, p) \in Sectors
            BY Position, Zenon
        <3>4. Cell(h, p)' = Cell(h, p)
            BY <1>2, <2>2, <3>3 DEF Cell
        <3> QED
            BY <3>2, <3>4
    <2> QED
        BY <2>1, <2>2, Zenon
<1> QED
    BY <1>3, <1>4, <1>5, <1>6, Zenon DEF Arriving, InTransit

(* Until then each of its cells is an old one or a new one.                *)
LEMMA MixedStep ==
    ASSUME DiskOK, WriteSector, NEW h, HeaderOK(h), NEW old, NEW cells,
           Arriving(h, cells), Mixed(h, old, cells)
    PROVE  Mixed(h, old, cells)'
<1>1. PICK s \in SectorsOf(h) :
              /\ s \in Sectors
              /\ s = writes[1].sector /\ 1 \in DOMAIN writes
              /\ data' = [data EXCEPT ![s] = writes[1].cells]
    BY WriteSectorStep, Zenon
<1>2. /\ data'[s] = writes[1].cells
      /\ \A t \in Sectors : t # s => data'[t] = data[t]
    BY <1>1 DEF DiskOK
<1>3. ASSUME NEW p \in Positions(h)
      PROVE  Cell(h, p)' \in {old[p], cells[p]}
    <2>1. CASE ByteToSector(h, p) = s
        <3>1. writes[1].cells[p % SectorSize] = cells[p]
            BY <1>1, <2>1, Zenon DEF Arriving, InTransit
        <3>2. Cell(h, p)' = data'[s][p % SectorSize]
            BY <2>1 DEF Cell
        <3> QED
            BY <1>2, <3>1, <3>2
    <2>2. CASE ByteToSector(h, p) # s
        <3>1. ByteToSector(h, p) \in Sectors
            BY Position, Zenon
        <3>2. Cell(h, p)' = Cell(h, p)
            BY <1>2, <2>2, <3>1 DEF Cell
        <3>3. Cell(h, p) \in {old[p], cells[p]}
            BY Zenon DEF Mixed
        <3> QED
            BY <3>2, <3>3
    <2> QED
        BY <2>1, <2>2, Zenon
<1> QED
    BY <1>3 DEF Mixed

(* When nothing is left to be written, the file is written.                *)
LEMMA ArrivingEnd ==
    ASSUME NEW h, NEW cells, Arriving(h, cells), writes = <<>>
    PROVE  OnDisk(h, cells)
<1>1. DOMAIN writes = {}
    OBVIOUS
<1> QED
    BY <1>1, Zenon DEF Arriving, InTransit, OnDisk

-----------------------------------------------------------------------------
(* The directory and the bitmap, as the code reads them.                   *)

Tables == [Entries -> [inUse : BOOLEAN, sector : Sectors, name : Names \cup {"garbage"}]]

(* A whole file, read at once.                                             *)
LEMMA ReadWhole ==
    ASSUME NEW h, HeaderOK(h)
    PROVE  ReadAt(h, h.numBytes, 0) = [p \in Positions(h) |-> Cell(h, p)]
<1>1. h.numBytes \in Nat
    BY Zenon DEF HeaderOK, Headers
<1>2. Transferred(h, h.numBytes, 0) = h.numBytes
    BY <1>1 DEF Transferred
<1>3. \A p \in Positions(h) : 0 + p = p
    BY <1>1 DEF Positions
<1>4. ReadAt(h, h.numBytes, 0) = [i \in Positions(h) |->
          data[ByteToSector(h, 0 + i)][(0 + i) % SectorSize]]
    BY <1>2, Zenon DEF ReadAt, Positions
<1>5. \A p \in Positions(h) :
          data[ByteToSector(h, 0 + p)][(0 + p) % SectorSize] = Cell(h, p)
    BY <1>3, Zenon DEF Cell
<1> QED
    BY <1>4, <1>5, Zenon

(* The cells of an entry of the directory's file.                          *)
LEMMA EntryCells ==
    ASSUME NEW e \in Entries
    PROVE  /\ EntrySize * e \in Positions(DirHdr) /\ EntrySize * e + 1 \in Positions(DirHdr)
           /\ \A T : /\ DirectoryCells(T)[EntrySize * e]
                            = [inUse |-> T[e].inUse, sector |-> T[e].sector]
                     /\ DirectoryCells(T)[EntrySize * e + 1] = T[e].name
<1>1. NumDirEntries \in Nat /\ e \in Nat /\ e < NumDirEntries
    BY Sizes2 DEF Entries
<1>2. EntrySize * e \in 0..(DirectoryFileSize - 1) /\ EntrySize * e + 1 \in 0..(DirectoryFileSize - 1)
    BY <1>1 DEF DirectoryFileSize, EntrySize
<1>3. /\ (EntrySize * e) \div EntrySize = e /\ (EntrySize * e) % EntrySize = 0
      /\ (EntrySize * e + 1) \div EntrySize = e /\ (EntrySize * e + 1) % EntrySize = 1
    BY <1>1 DEF EntrySize
<1>4. 1 # 0
    OBVIOUS
<1>5. \A T : /\ DirectoryCells(T)[EntrySize * e]
                    = [inUse |-> T[e].inUse, sector |-> T[e].sector]
             /\ DirectoryCells(T)[EntrySize * e + 1] = T[e].name
    BY <1>2, <1>3, <1>4, Zenon DEF DirectoryCells
<1>6. Positions(DirHdr) = 0..(DirectoryFileSize - 1)
    BY Layout, Zenon DEF Positions
<1> QED
    BY <1>2, <1>5, <1>6, Zenon

(* What FetchFrom makes of the directory's file.                           *)
LEMMA TableCells ==
    ASSUME mounted = Mounted, NEW e \in Entries
    PROVE  Table[e] = [inUse |-> Cell(DirHdr, EntrySize * e).inUse,
                       sector |-> Cell(DirHdr, EntrySize * e).sector,
                       name |-> Cell(DirHdr, EntrySize * e + 1)]
<1> DEFINE cells == ReadAt(DirHdr, DirectoryFileSize, 0)
<1>1. mounted.directory = DirHdr
    BY DEF Mounted
<1>2. Table = DirectoryFrom(cells)
    BY <1>1, Zenon DEF Table
<1>3. cells = [p \in Positions(DirHdr) |-> Cell(DirHdr, p)]
    BY Layout, ReadWhole, Zenon
<1> HIDE DEF cells
<1>4. Table[e] = [inUse |-> cells[EntrySize * e].inUse, sector |-> cells[EntrySize * e].sector,
                  name |-> cells[EntrySize * e + 1]]
    BY <1>2, Zenon DEF DirectoryFrom
<1>5. cells[EntrySize * e] = Cell(DirHdr, EntrySize * e)
      /\ cells[EntrySize * e + 1] = Cell(DirHdr, EntrySize * e + 1)
    BY <1>3, EntryCells, Zenon
<1> QED
    BY <1>4, <1>5, Zenon

(* A directory that is written reads as it is.                             *)
LEMMA TableRead ==
    ASSUME mounted = Mounted, NEW T \in Tables, OnDisk(DirHdr, DirectoryCells(T))
    PROVE  Table = T
<1>1. ASSUME NEW e \in Entries
      PROVE  Table[e] = T[e]
    <2>1. Cell(DirHdr, EntrySize * e) = [inUse |-> T[e].inUse, sector |-> T[e].sector]
          /\ Cell(DirHdr, EntrySize * e + 1) = T[e].name
        BY EntryCells, Zenon DEF OnDisk
    <2>2. Cell(DirHdr, EntrySize * e).inUse = T[e].inUse /\ Cell(DirHdr, EntrySize * e).sector = T[e].sector
        BY <2>1
    <2>3. Table[e] = [inUse |-> T[e].inUse, sector |-> T[e].sector, name |-> T[e].name]
        BY <2>1, <2>2, TableCells, Zenon
    <2>4. T[e] \in [inUse : BOOLEAN, sector : Sectors, name : Names \cup {"garbage"}]
        BY Zenon DEF Tables
    <2> QED
        BY <2>3, <2>4
<1>2. Table = [e \in Entries |-> Table[e]]
    BY Zenon DEF Table, DirectoryFrom
<1>3. T = [e \in Entries |-> T[e]]
    BY Zenon DEF Tables
<1> QED
    BY <1>1, <1>2, <1>3, Zenon

(* A directory that is being written: a sector's number comes with its     *)
(* inUse, but the name may be that of the other table.                     *)
LEMMA TableMixed ==
    ASSUME mounted = Mounted, NEW T, NEW T1,
           Mixed(DirHdr, DirectoryCells(T), DirectoryCells(T1)), NEW e \in Entries
    PROVE  /\ \/ Table[e].inUse = T[e].inUse /\ Table[e].sector = T[e].sector
              \/ Table[e].inUse = T1[e].inUse /\ Table[e].sector = T1[e].sector
           /\ Table[e].name \in {T[e].name, T1[e].name}
<1>1. Cell(DirHdr, EntrySize * e) \in {DirectoryCells(T)[EntrySize * e], DirectoryCells(T1)[EntrySize * e]}
      /\ Cell(DirHdr, EntrySize * e + 1) \in {DirectoryCells(T)[EntrySize * e + 1],
                                              DirectoryCells(T1)[EntrySize * e + 1]}
    BY EntryCells, Zenon DEF Mixed
<1>2. DirectoryCells(T)[EntrySize * e] = [inUse |-> T[e].inUse, sector |-> T[e].sector]
      /\ DirectoryCells(T)[EntrySize * e + 1] = T[e].name
    BY EntryCells, Zenon
<1>3. DirectoryCells(T1)[EntrySize * e] = [inUse |-> T1[e].inUse, sector |-> T1[e].sector]
      /\ DirectoryCells(T1)[EntrySize * e + 1] = T1[e].name
    BY EntryCells, Zenon
<1>4. Table[e] = [inUse |-> Cell(DirHdr, EntrySize * e).inUse,
                  sector |-> Cell(DirHdr, EntrySize * e).sector,
                  name |-> Cell(DirHdr, EntrySize * e + 1)]
    BY TableCells, Zenon
<1>5. Table[e].name \in {T[e].name, T1[e].name}
    <2>1. Table[e].name = Cell(DirHdr, EntrySize * e + 1)
        BY <1>4
    <2> QED
        BY <1>1, <1>2, <1>3, <2>1, Zenon
<1>6. \/ Cell(DirHdr, EntrySize * e) = [inUse |-> T[e].inUse, sector |-> T[e].sector]
      \/ Cell(DirHdr, EntrySize * e) = [inUse |-> T1[e].inUse, sector |-> T1[e].sector]
    BY <1>1, <1>2, <1>3, Zenon
<1>7. /\ Table[e].inUse = Cell(DirHdr, EntrySize * e).inUse
      /\ Table[e].sector = Cell(DirHdr, EntrySize * e).sector
    BY <1>4
<1>8. \/ Table[e].inUse = T[e].inUse /\ Table[e].sector = T[e].sector
      \/ Table[e].inUse = T1[e].inUse /\ Table[e].sector = T1[e].sector
    BY <1>6, <1>7
<1> QED
    BY <1>5, <1>8, Zenon

(* The bitmap's file has a bit for every sector.                           *)
LEMMA MapPositions ==
    ASSUME NEW s \in Sectors
    PROVE  s \div BitsInByte \in Positions(MapHdr)
<1>1. NumSectors \in Nat /\ BitsInByte \in Nat \ {0} /\ NumSectors % BitsInByte = 0
    BY FileSystemAssumption, Zenon
<1>2. s \in Nat /\ s < NumSectors
    BY <1>1 DEF Sectors
<1>3. PICK f \in Nat : f = NumSectors \div BitsInByte
    BY <1>1, Division, Zenon
<1>4. NumSectors = BitsInByte * f + 0
    <2>1. NumSectors = BitsInByte * (NumSectors \div BitsInByte) + (NumSectors % BitsInByte)
        BY <1>1, Division, Zenon
    <2> QED
        BY <1>1, <1>3, <2>1, Zenon
<1>5. PICK q \in Nat, r \in 0..(BitsInByte - 1) : q = s \div BitsInByte /\ s = BitsInByte * q + r
    <2>1. /\ s \div BitsInByte \in Nat /\ s % BitsInByte \in 0..(BitsInByte - 1)
          /\ s = BitsInByte * (s \div BitsInByte) + (s % BitsInByte)
        BY <1>1, <1>2, Division, Zenon
    <2> QED
        BY <2>1, Zenon
<1>6. BitsInByte * q \in Nat /\ BitsInByte * f \in Nat
    BY <1>1, ProductNat
<1>7. q < f
    <2>1. SUFFICES ASSUME ~(q < f) PROVE FALSE
        BY Zenon
    <2>2. q = f \/ BitsInByte * f + BitsInByte <= BitsInByte * q
        BY <1>1, <2>1, MultiplesApart
    <2> QED
        BY <1>1, <1>2, <1>4, <1>5, <1>6, <2>2
<1>8. Positions(MapHdr) = 0..(f - 1)
    BY <1>3, Layout, Zenon DEF Positions, FreeMapFileSize
<1> QED
    BY <1>5, <1>7, <1>8

(* What FetchFrom makes of the bitmap's file.                              *)
LEMMA MapCells ==
    ASSUME mounted = Mounted
    PROVE  FreeMap = UNION {Cell(MapHdr, i) : i \in Positions(MapHdr)}
<1> DEFINE cells == ReadAt(MapHdr, FreeMapFileSize, 0)
<1>1. mounted.freeMap = MapHdr
    BY DEF Mounted
<1>2. FreeMap = UNION {cells[i] : i \in DOMAIN cells}
    BY <1>1, Zenon DEF FreeMap
<1>3. cells = [p \in Positions(MapHdr) |-> Cell(MapHdr, p)]
    BY Layout, ReadWhole, Zenon
<1> HIDE DEF cells
<1>4. DOMAIN cells = Positions(MapHdr) /\ \A i \in Positions(MapHdr) : cells[i] = Cell(MapHdr, i)
    BY <1>3, Zenon
<1> QED
    BY <1>2, <1>4, Zenon

(* The cells of a bitmap.                                                  *)
LEMMA BitMapCell ==
    ASSUME NEW i \in Positions(MapHdr), NEW M
    PROVE  BitMapCells(M)[i] = {s \in M : s \div BitsInByte = i}
BY Layout, Zenon DEF BitMapCells, Positions

(* A bitmap that is written reads as it is.                                *)
LEMMA MapRead ==
    ASSUME mounted = Mounted, NEW M \in SUBSET Sectors, OnDisk(MapHdr, BitMapCells(M))
    PROVE  FreeMap = M
<1>1. \A i \in Positions(MapHdr) : Cell(MapHdr, i) = {s \in M : s \div BitsInByte = i}
    BY BitMapCell, Zenon DEF OnDisk
<1>2. FreeMap \subseteq M
    <2>1. \A i \in Positions(MapHdr) : Cell(MapHdr, i) \subseteq M
        BY <1>1, Zenon
    <2>2. ASSUME NEW s \in FreeMap PROVE s \in M
        <3>1. PICK i \in Positions(MapHdr) : s \in Cell(MapHdr, i)
            BY MapCells, Zenon
        <3> QED
            BY <2>1, <3>1, Zenon
    <2> QED
        BY <2>2, Zenon
<1>3. M \subseteq FreeMap
    BY <1>1, MapCells, MapPositions, Zenon
<1> QED
    BY <1>2, <1>3, Zenon

(* A bitmap that is being written has what is marked in both.              *)
LEMMA MapMixed ==
    ASSUME mounted = Mounted, NEW M \in SUBSET Sectors, NEW M1 \in SUBSET Sectors,
           Mixed(MapHdr, BitMapCells(M), BitMapCells(M1))
    PROVE  M \cap M1 \subseteq FreeMap
<1>1. ASSUME NEW s \in M \cap M1
      PROVE  s \in FreeMap
    <2> DEFINE i == s \div BitsInByte
    <2>1. i \in Positions(MapHdr)
        BY MapPositions, Zenon
    <2>2. s \in BitMapCells(M)[i] /\ s \in BitMapCells(M1)[i]
        BY <2>1, BitMapCell, Zenon
    <2>3. Cell(MapHdr, i) \in {BitMapCells(M)[i], BitMapCells(M1)[i]}
        BY <2>1, Zenon DEF Mixed
    <2>4. s \in Cell(MapHdr, i)
        BY <2>2, <2>3, Zenon
    <2> HIDE DEF i
    <2> QED
        BY <2>1, <2>4, MapCells, Zenon
<1> QED
    BY <1>1, Zenon

-----------------------------------------------------------------------------
(* The files of a directory.                                               *)

Used(T) == {e \in Entries : T[e].inUse}
NamesIn(T) == {T[e].name : e \in Used(T)}

(* The names in use differ, and a free entry that still has the name of a  *)
(* file in use comes after that file's entry.                              *)
TableOK(T) ==
    /\ T \in Tables
    /\ \A e, f \in Used(T) : T[e].name = T[f].name => e = f
    /\ \A e \in Used(T), f \in FreeEntries(T) : T[e].name = T[f].name => e < f

HdrOf(T, e) == header[T[e].sector]
Own(T, e) == {T[e].sector} \cup SectorsOf(HdrOf(T, e))
MapOf(T) == System \cup UNION {Own(T, e) : e \in Used(T)}

(* The sectors of a file are its own.                                      *)
Separate(T, e) ==
    /\ HeaderOK(HdrOf(T, e))
    /\ T[e].sector \notin SectorsOf(HdrOf(T, e))
    /\ Own(T, e) \cap System = {}

Apart(T) ==
    /\ \A e \in Used(T) : Separate(T, e)
    /\ \A e, f \in Used(T) : e # f => Own(T, e) \cap Own(T, f) = {}

(* A file with header h holds what `want' says of its cells.               *)
Holds(h, want) ==
    /\ DOMAIN want = Positions(h)
    /\ \A p \in Positions(h) : want[p] \in {"any", Cell(h, p)}

(* Every file of the directory, except those of X, holds what it should.   *)
Filled(T, X) ==
    \A e \in Used(T) : T[e].name \notin X =>
        T[e].name \in DOMAIN files /\ Holds(HdrOf(T, e), files[T[e].name])

(* The open file is one of the directory.                                  *)
Opened(T) ==
    openFile # NULL =>
        /\ openFile.name \in DOMAIN files
        /\ \E e \in Used(T) :
              openFile \in [name : {T[e].name}, seek : Nat, hdr : {HdrOf(T, e)}]

HeaderSectors(T) == {T[e].sector : e \in Used(T)}

(* The first of a set of entries.                                          *)
LEMMA FirstIs ==
    ASSUME NEW S \in SUBSET Entries, S # {}
    PROVE  First(S) \in S /\ \A f \in S : First(S) <= f
<1>1. S \in SUBSET Nat
    BY Sizes2 DEF Entries
<1>2. \E e \in S : \A f \in S : e <= f
    BY <1>1, Smallest, Zenon
<1> QED
    BY <1>2, Zenon DEF First

(* FindIndex finds the one entry with a name.                              *)
LEMMA Lookup ==
    ASSUME NEW T, TableOK(T), NEW e \in Used(T), NEW name, T[e].name = name
    PROVE  WithName(T, name) = {e} /\ First(WithName(T, name)) = e /\ name \in NamesIn(T)
<1>1. WithName(T, name) = {e}
    BY Zenon DEF WithName, TableOK, Used
<1>2. {e} \in SUBSET Entries /\ {e} # {}
    BY Zenon DEF Used
<1>3. First({e}) \in {e}
    BY <1>2, FirstIs, Zenon
<1> QED
    BY <1>1, <1>3, Zenon DEF NamesIn

(* Nothing is found under another name.                                    *)
LEMMA LookupNone ==
    ASSUME NEW T, NEW name
    PROVE  WithName(T, name) = {} <=> name \notin NamesIn(T)
BY Zenon DEF WithName, NamesIn, Used

(* A header of a file in the directory is not lost while its sector is     *)
(* left alone.                                                             *)
LEMMA HdrFrame ==
    ASSUME NEW T, HeaderKept(HeaderSectors(T)), NEW e \in Used(T)
    PROVE  HdrOf(T, e)' = HdrOf(T, e) /\ Own(T, e)' = Own(T, e)
<1>1. header'[T[e].sector] = header[T[e].sector]
    BY Zenon DEF HeaderKept, HeaderSectors
<1>2. HdrOf(T, e)' = HdrOf(T, e)
    BY <1>1 DEF HdrOf
<1> QED
    BY <1>2 DEF Own

(* The same for all of the files.                                          *)
LEMMA ApartFrame ==
    ASSUME NEW T, Apart(T), HeaderKept(HeaderSectors(T))
    PROVE  Apart(T)' /\ MapOf(T)' = MapOf(T)
<1>1. \A e \in Used(T) : HdrOf(T, e)' = HdrOf(T, e) /\ Own(T, e)' = Own(T, e)
    BY HdrFrame, Zenon
<1>2. ASSUME NEW e \in Used(T) PROVE Separate(T, e)'
    <2>1. Separate(T, e)
        BY Zenon DEF Apart
    <2> QED
        BY <1>1, <2>1 DEF Separate
<1>3. ASSUME NEW e \in Used(T), NEW f \in Used(T), e # f
      PROVE  Own(T, e)' \cap Own(T, f)' = {}
    BY <1>1, <1>3, Zenon DEF Apart
<1>4. Apart(T)'
    BY <1>2, <1>3 DEF Apart
<1>5. MapOf(T)' = MapOf(T)
    BY <1>1 DEF MapOf
<1> QED
    BY <1>4, <1>5, Zenon

(* The files hold what they held while their sectors are left alone.       *)
LEMMA FilledFrame ==
    ASSUME NEW T, Apart(T), NEW X, Filled(T, X), HeaderKept(HeaderSectors(T)), files' = files,
           \A e \in Used(T) : T[e].name \notin X => DataKept(SectorsOf(HdrOf(T, e)))
    PROVE  Filled(T, X)'
<1>1. ASSUME NEW e \in Used(T), T[e].name \notin X
      PROVE  T[e].name \in DOMAIN files' /\ Holds(HdrOf(T, e), files[T[e].name])'
    <2>1. PICK h : h = HdrOf(T, e)
        OBVIOUS
    <2>2. HdrOf(T, e)' = h /\ HeaderOK(h) /\ DataKept(SectorsOf(h))
        BY <1>1, <2>1, HdrFrame, Zenon DEF Apart, Separate
    <2>3. T[e].name \in DOMAIN files /\ Holds(h, files[T[e].name])
        BY <1>1, <2>1, Zenon DEF Filled
    <2>4. \A p \in Positions(h) : Cell(h, p)' = Cell(h, p)
        BY <2>2, CellFrame, Zenon
    <2>5. Holds(h, files[T[e].name])'
        BY <2>3, <2>4 DEF Holds
    <2> QED
        BY <2>2, <2>3, <2>5
<1> QED
    BY <1>1 DEF Filled

(* The directory T and the bitmap M that belong together, with the headers *)
(* of the files, and a file that the client may have open.                 *)
Base(T, M) ==
    /\ header[FreeMapSector] = MapHdr /\ header[DirectorySector] = DirHdr
    /\ TableOK(T) /\ Apart(T) /\ M = MapOf(T)
    /\ Opened(T)

(* Both are on the disk.                                                   *)
TableStored(T) == OnDisk(DirHdr, DirectoryCells(T))
MapStored(M) == OnDisk(MapHdr, BitMapCells(M))

(* The sectors of the parts.                                               *)
LEMMA BaseSectors ==
    ASSUME NEW T, NEW M, Base(T, M)
    PROVE  /\ M \in SUBSET Sectors /\ System \subseteq M /\ Map0 \subseteq System
           /\ SectorsOf(MapHdr) \subseteq System /\ SectorsOf(DirHdr) \subseteq System
           /\ SectorsOf(MapHdr) \cap Map0 = {} /\ SectorsOf(DirHdr) \cap Map0 = {}
           /\ SectorsOf(MapHdr) \cap SectorsOf(DirHdr) = {}
           /\ HeaderSectors(T) \subseteq M \ System
           /\ \A e \in Used(T) : Own(T, e) \subseteq M \ System /\ HeaderOK(HdrOf(T, e))
<1>1. \A e \in Used(T) : Separate(T, e) /\ T[e].sector \in Sectors
    BY Zenon DEF Base, Apart, TableOK, Tables, Used
<1>2. \A e \in Used(T) : SectorsOf(HdrOf(T, e)) \subseteq Sectors
    BY <1>1, SectorsOfSize, Zenon DEF Separate
<1>3. \A e \in Used(T) : Own(T, e) \subseteq Sectors
    BY <1>1, <1>2, Zenon DEF Own
<1>4. M = System \cup UNION {Own(T, e) : e \in Used(T)}
    BY Zenon DEF Base, MapOf
<1>5. System \subseteq Sectors
    BY Layout, Zenon
<1>6. M \in SUBSET Sectors /\ System \subseteq M
    BY <1>3, <1>4, <1>5, Zenon
<1>7. /\ Map0 \subseteq System
      /\ SectorsOf(MapHdr) \subseteq System /\ SectorsOf(DirHdr) \subseteq System
      /\ SectorsOf(MapHdr) \cap Map0 = {} /\ SectorsOf(DirHdr) \cap Map0 = {}
      /\ SectorsOf(MapHdr) \cap SectorsOf(DirHdr) = {}
    BY Layout, Zenon DEF System, Map1
<1>8. \A e \in Used(T) : Own(T, e) \subseteq M \ System /\ HeaderOK(HdrOf(T, e))
    BY <1>1, <1>4, Zenon DEF Separate
<1>9. HeaderSectors(T) \subseteq M \ System
    BY <1>8, Zenon DEF HeaderSectors, Own
<1> QED
    BY <1>6, <1>7, <1>8, <1>9, Zenon

(* They stay while the sectors of the headers are left alone.              *)
LEMMA BaseFrame ==
    ASSUME NEW T, NEW M, Base(T, M), HeaderKept(Map0), HeaderKept(HeaderSectors(T)),
           openFile' = openFile, files' = files
    PROVE  Base(T, M)'
<1>1. header'[FreeMapSector] = MapHdr /\ header'[DirectorySector] = DirHdr
    BY Zenon DEF Base, HeaderKept, Map0
<1>2. Apart(T)' /\ MapOf(T)' = MapOf(T)
    BY ApartFrame, Zenon DEF Base
<1>3. \A e \in Used(T) : HdrOf(T, e)' = HdrOf(T, e)
    BY HdrFrame, Zenon
<1>4. Opened(T)'
    <2>1. SUFFICES ASSUME openFile' # NULL
          PROVE  /\ openFile'.name \in DOMAIN files'
                 /\ \E e \in Used(T) :
                       openFile' \in [name : {T[e].name}, seek : Nat, hdr : {HdrOf(T, e)'}]
        BY DEF Opened
    <2>2. openFile # NULL
        BY <2>1
    <2>3. PICK e \in Used(T) : openFile \in [name : {T[e].name}, seek : Nat, hdr : {HdrOf(T, e)}]
        BY <2>2, Zenon DEF Base, Opened
    <2>4. openFile.name \in DOMAIN files
        BY <2>2, Zenon DEF Base, Opened
    <2>5. openFile' \in [name : {T[e].name}, seek : Nat, hdr : {HdrOf(T, e)'}]
        BY <1>3, <2>3
    <2>6. openFile'.name \in DOMAIN files'
        BY <2>4
    <2> QED
        BY <2>5, <2>6, Zenon
<1>5. TableOK(T) /\ M = MapOf(T)
    BY Zenon DEF Base
<1> QED
    BY <1>1, <1>2, <1>4, <1>5 DEF Base

(* A sector of the bitmap's file or of the directory's is written.         *)
LEMMA SystemWrite ==
    ASSUME NEW T, NEW M, Base(T, M), DiskOK, WriteSector,
           NEW h \in {MapHdr, DirHdr}, NEW cells, Arriving(h, cells)
    PROVE  /\ Base(T, M)'
           /\ \A X : Filled(T, X) => Filled(T, X)'
           /\ \A new : h # DirHdr /\ TableStored(new) => TableStored(new)'
           /\ \A new : h # MapHdr /\ MapStored(new) => MapStored(new)'
           /\ \A s \in Sectors \ System : header'[s] = header[s]
<1>1. HeaderOK(h) /\ HeaderOK(MapHdr) /\ HeaderOK(DirHdr)
    BY Layout, Zenon
<1>2. PICK a \in SectorsOf(h) :
              /\ a \in Sectors
              /\ data' = [data EXCEPT ![a] = writes[1].cells]
              /\ header' = [header EXCEPT ![a] = NULL]
    BY <1>1, WriteSectorStep, Zenon
<1>3. \A s \in Sectors : s # a => header'[s] = header[s] /\ data'[s] = data[s]
    BY <1>2, Zenon DEF DiskOK
<1>4. a \in System /\ a \notin Map0
    BY <1>2, BaseSectors, Zenon
<1>5. /\ HeaderSectors(T) \subseteq Sectors \ System /\ Map0 \subseteq Sectors
      /\ \A e \in Used(T) : SectorsOf(HdrOf(T, e)) \subseteq Sectors \ System
    BY BaseSectors, Layout, Zenon DEF Own
<1>6. HeaderKept(Map0) /\ HeaderKept(HeaderSectors(T))
    BY <1>3, <1>4, <1>5, Zenon DEF HeaderKept
<1>7. openFile' = openFile /\ files' = files
    BY Zenon DEF WriteSector
<1>8. Base(T, M)'
    BY <1>6, <1>7, BaseFrame, Zenon
<1>9. ASSUME NEW X, Filled(T, X) PROVE Filled(T, X)'
    <2>1. \A e \in Used(T) : T[e].name \notin X => DataKept(SectorsOf(HdrOf(T, e)))
        BY <1>3, <1>4, <1>5, Zenon DEF DataKept
    <2>2. Apart(T)
        BY Zenon DEF Base
    <2> QED
        BY <1>6, <1>7, <1>9, <2>1, <2>2, FilledFrame, Zenon
<1>10. ASSUME NEW new, h # DirHdr, TableStored(new) PROVE TableStored(new)'
    <2>1. a \notin SectorsOf(DirHdr) /\ SectorsOf(DirHdr) \subseteq Sectors
        BY <1>2, <1>10, BaseSectors, Layout, Zenon
    <2>2. DataKept(SectorsOf(DirHdr))
        BY <1>3, <2>1, Zenon DEF DataKept
    <2>3. OnDisk(DirHdr, DirectoryCells(new))'
        BY <1>1, <1>10, <2>2, OnDiskFrame, Zenon DEF TableStored
    <2> QED
        BY <2>3 DEF TableStored
<1>11. ASSUME NEW new, h # MapHdr, MapStored(new) PROVE MapStored(new)'
    <2>1. a \notin SectorsOf(MapHdr) /\ SectorsOf(MapHdr) \subseteq Sectors
        BY <1>2, <1>11, BaseSectors, Layout, Zenon
    <2>2. DataKept(SectorsOf(MapHdr))
        BY <1>3, <2>1, Zenon DEF DataKept
    <2>3. OnDisk(MapHdr, BitMapCells(new))'
        BY <1>1, <1>11, <2>2, OnDiskFrame, Zenon DEF MapStored
    <2> QED
        BY <2>3 DEF MapStored
<1>12. \A s \in Sectors \ System : header'[s] = header[s]
    BY <1>3, <1>4, Zenon
<1> QED
    BY <1>8, <1>9, <1>10, <1>11, <1>12, Zenon

(* A sector of a client's file is written.                                 *)
LEMMA ClientWrite ==
    ASSUME NEW T, NEW M, Base(T, M), DiskOK, WriteSector,
           NEW x \in Used(T), NEW h, h = HdrOf(T, x), NEW cells, Arriving(h, cells)
    PROVE  /\ Base(T, M)'
           /\ Filled(T, {T[x].name}) => Filled(T, {T[x].name})'
           /\ TableStored(T) => TableStored(T)'
           /\ MapStored(M) => MapStored(M)'
<1>1. HeaderOK(h) /\ HeaderOK(MapHdr) /\ HeaderOK(DirHdr)
    BY Layout, BaseSectors, Zenon
<1>2. PICK a \in SectorsOf(h) :
              /\ a \in Sectors
              /\ data' = [data EXCEPT ![a] = writes[1].cells]
              /\ header' = [header EXCEPT ![a] = NULL]
    BY <1>1, WriteSectorStep, Zenon
<1>3. \A s \in Sectors : s # a => header'[s] = header[s] /\ data'[s] = data[s]
    BY <1>2, Zenon DEF DiskOK
<1>4. a \in Own(T, x) /\ a \notin System
    BY <1>2, BaseSectors, Zenon DEF Own
<1>5. Map0 \subseteq Sectors /\ HeaderSectors(T) \subseteq Sectors /\ System \subseteq Sectors
      /\ \A e \in Used(T) : Own(T, e) \subseteq Sectors
    BY BaseSectors, Layout, Zenon
<1>6. \A e \in Used(T) : e # x => a \notin Own(T, e)
    BY <1>4, Zenon DEF Base, Apart
<1>7. a # T[x].sector
    BY <1>2, Zenon DEF Base, Apart, Separate
<1>8. HeaderKept(Map0)
    BY <1>3, <1>4, <1>5, BaseSectors, Zenon DEF HeaderKept
<1>9. HeaderKept(HeaderSectors(T))
    <2>1. \A e \in Used(T) : a # T[e].sector
        BY <1>6, <1>7, Zenon DEF Own
    <2> QED
        BY <1>3, <1>5, <2>1, Zenon DEF HeaderKept, HeaderSectors
<1>10. openFile' = openFile /\ files' = files
    BY Zenon DEF WriteSector
<1>11. Base(T, M)'
    BY <1>8, <1>9, <1>10, BaseFrame, Zenon
<1>12. ASSUME Filled(T, {T[x].name}) PROVE Filled(T, {T[x].name})'
    <2>1. \A e \in Used(T) : T[e].name \notin {T[x].name} => DataKept(SectorsOf(HdrOf(T, e)))
        BY <1>3, <1>5, <1>6, Zenon DEF DataKept, Own
    <2>2. Apart(T)
        BY Zenon DEF Base
    <2> QED
        BY <1>9, <1>10, <1>12, <2>1, <2>2, FilledFrame, Zenon
<1>13. ASSUME TableStored(T) PROVE TableStored(T)'
    <2>1. DataKept(SectorsOf(DirHdr))
        BY <1>3, <1>4, <1>5, BaseSectors, Zenon DEF DataKept
    <2>2. OnDisk(DirHdr, DirectoryCells(T))'
        BY <1>1, <1>13, <2>1, OnDiskFrame, Zenon DEF TableStored
    <2> QED
        BY <2>2 DEF TableStored
<1>14. ASSUME MapStored(M) PROVE MapStored(M)'
    <2>1. DataKept(SectorsOf(MapHdr))
        BY <1>3, <1>4, <1>5, BaseSectors, Zenon DEF DataKept
    <2>2. OnDisk(MapHdr, BitMapCells(M))'
        BY <1>1, <1>14, <2>1, OnDiskFrame, Zenon DEF MapStored
    <2> QED
        BY <2>2 DEF MapStored
<1> QED
    BY <1>11, <1>12, <1>13, <1>14, Zenon

(* The two files of the file system are not the same one.                  *)
LEMMA TwoFiles == MapHdr # DirHdr
<1>1. FreeMapSector \div BitsInByte \in Positions(MapHdr)
    BY SectorsFacts, MapPositions, Zenon
<1>2. SectorsOf(MapHdr) # {}
    BY <1>1, Layout, Position, Zenon
<1>3. SectorsOf(MapHdr) \cap SectorsOf(DirHdr) = {}
    BY Layout, Zenon DEF Map1
<1> QED
    BY <1>2, <1>3, Zenon

-----------------------------------------------------------------------------
(* Directory::Add and Directory::Remove.                                   *)

(* T1 is T with the file `name' in the entry f.                            *)
Adds(T, name, s, T1, f) ==
    /\ TableOK(T1) /\ Used(T1) = Used(T) \cup {f} /\ f \in FreeEntries(T)
    /\ T1[f].sector = s /\ T1[f].name = name
    /\ \A e \in Entries : e # f => T1[e] = T[e]
    /\ NamesIn(T1) = NamesIn(T) \cup {name}

(* Add takes the first free entry.                                         *)
LEMMA AddedTable ==
    ASSUME NEW T, TableOK(T), FreeEntries(T) # {}, NEW name \in Names, name \notin NamesIn(T),
           NEW s \in Sectors
    PROVE  Adds(T, name, s, Add(T, name, s), First(FreeEntries(T)))
<1> DEFINE T1 == Add(T, name, s)
           f == First(FreeEntries(T))
           new == [inUse |-> TRUE, sector |-> s, name |-> name]
<1>1. FreeEntries(T) \in SUBSET Entries
    BY Zenon DEF FreeEntries
<1>2. f \in FreeEntries(T) /\ \A g \in FreeEntries(T) : f <= g
    BY <1>1, FirstIs, Zenon
<1>3. f \in Entries /\ ~T[f].inUse
    BY <1>2, Zenon DEF FreeEntries
<1>4. T \in Tables
    BY Zenon DEF TableOK
<1>5. T1 = [T EXCEPT ![f] = new]
    BY Zenon DEF Add
<1> HIDE DEF T1, f
<1>6. T1[f] = new /\ \A e \in Entries : e # f => T1[e] = T[e]
    BY <1>3, <1>4, <1>5, Zenon DEF Tables
<1>7. T1[f].inUse /\ T1[f].sector = s /\ T1[f].name = name
    BY <1>6
<1>8. T1 \in Tables
    <2>1. new \in [inUse : BOOLEAN, sector : Sectors, name : Names \cup {"garbage"}]
        OBVIOUS
    <2> HIDE DEF new
    <2> QED
        BY <1>3, <1>4, <1>5, <2>1, Zenon DEF Tables
<1>9. Used(T1) = Used(T) \cup {f}
    BY <1>3, <1>6, <1>7, Zenon DEF Used
<1>10. \A e \in Used(T) : e # f /\ T1[e] = T[e] /\ T[e].name # name
    BY <1>3, <1>6, Zenon DEF Used, NamesIn
<1>11. \A e, g \in Used(T1) : T1[e].name = T1[g].name => e = g
    BY <1>7, <1>9, <1>10, Zenon DEF TableOK
<1>12. \A g \in FreeEntries(T1) : g \in FreeEntries(T) /\ g # f /\ T1[g] = T[g]
    BY <1>6, <1>7, Zenon DEF FreeEntries
<1>13. ASSUME NEW e \in Used(T1), NEW g \in FreeEntries(T1), T1[e].name = T1[g].name
       PROVE  e < g
    <2>1. CASE e = f
        <3>1. f <= g /\ g # f
            BY <1>2, <1>12, Zenon
        <3>2. f \in Nat /\ g \in Nat
            BY <1>1, <1>3, <1>12, Sizes2 DEF Entries
        <3> QED
            BY <2>1, <3>1, <3>2
    <2>2. CASE e # f
        <3>1. e \in Used(T) /\ T1[e] = T[e]
            BY <1>9, <1>10, <2>2, Zenon
        <3>2. g \in FreeEntries(T) /\ T1[g] = T[g]
            BY <1>12, Zenon
        <3> QED
            BY <1>13, <3>1, <3>2, Zenon DEF TableOK
    <2> QED
        BY <2>1, <2>2, Zenon
<1>14. TableOK(T1)
    BY <1>8, <1>11, <1>13, Zenon DEF TableOK
<1>15. NamesIn(T1) = NamesIn(T) \cup {name}
    BY <1>7, <1>9, <1>10, Zenon DEF NamesIn
<1> QED
    BY <1>2, <1>6, <1>7, <1>9, <1>14, <1>15, Zenon DEF T1, f, Adds

(* The new file takes sectors that no other one has.                       *)
LEMMA AddedBase ==
    ASSUME NEW T, NEW M, Base(T, M), FreeEntries(T) # {}, NEW name \in Names, name \notin NamesIn(T),
           NEW s \in Sectors \ M, NEW h, HeaderOK(h), SectorsOf(h) \cap (M \cup {s}) = {},
           header[s] = h, NEW T1, T1 = Add(T, name, s)
    PROVE  /\ Base(T1, M \cup {s} \cup SectorsOf(h))
           /\ Filled(T, {}) /\ name \in DOMAIN files /\ Holds(h, files[name]) => Filled(T1, {})
<1> DEFINE f == First(FreeEntries(T))
<1>1. /\ TableOK(T1) /\ Used(T1) = Used(T) \cup {f} /\ f \in FreeEntries(T)
      /\ T1[f].sector = s /\ T1[f].name = name
      /\ \A e \in Entries : e # f => T1[e] = T[e]
    <2>1. TableOK(T) /\ s \in Sectors
        BY Zenon DEF Base
    <2>2. Adds(T, name, s, Add(T, name, s), First(FreeEntries(T)))
        BY <2>1, AddedTable, Zenon
    <2> QED
        BY <2>2, Zenon DEF Adds
<1> HIDE DEF f
<1>2. \A e \in Used(T) : e # f /\ T1[e] = T[e]
    BY <1>1, Zenon DEF Used, FreeEntries
<1>3. HdrOf(T1, f) = h /\ Own(T1, f) = {s} \cup SectorsOf(h)
    <2>1. HdrOf(T1, f) = h
        BY <1>1, Zenon DEF HdrOf
    <2>2. T1[f].sector = s
        BY <1>1, Zenon
    <2> QED
        BY <2>1, <2>2, Zenon DEF Own
<1>4. \A e \in Used(T) : HdrOf(T1, e) = HdrOf(T, e) /\ Own(T1, e) = Own(T, e)
    BY <1>2, Zenon DEF HdrOf, Own
<1>5. Own(T1, f) \cap M = {} /\ System \subseteq M /\ \A e \in Used(T) : Own(T, e) \subseteq M
    <2>1. ({s} \cup SectorsOf(h)) \cap M = {}
        BY Zenon
    <2>2. System \subseteq M /\ \A e \in Used(T) : Own(T, e) \subseteq M
        BY BaseSectors, Zenon
    <2> QED
        BY <1>3, <2>1, <2>2, Zenon
<1>6. Separate(T1, f)
    BY <1>1, <1>3, <1>5, Zenon DEF Separate
<1>7. \A e \in Used(T) : Separate(T1, e)
    BY <1>2, <1>4, Zenon DEF Separate, Base, Apart
<1>8. \A e \in Used(T1), g \in Used(T1) : e # g => Own(T1, e) \cap Own(T1, g) = {}
    <2>1. \A e \in Used(T), g \in Used(T) : e # g => Own(T1, e) \cap Own(T1, g) = {}
        BY <1>4, Zenon DEF Base, Apart
    <2>2. \A e \in Used(T) : Own(T1, e) \cap Own(T1, f) = {} /\ Own(T1, f) \cap Own(T1, e) = {}
        BY <1>4, <1>5, Zenon
    <2> QED
        BY <1>1, <2>1, <2>2, Zenon
<1>9. Apart(T1)
    BY <1>1, <1>6, <1>7, <1>8, Zenon DEF Apart
<1>10. M \cup {s} \cup SectorsOf(h) = MapOf(T1)
    <2>1. M = System \cup UNION {Own(T, e) : e \in Used(T)}
        BY Zenon DEF Base, MapOf
    <2>2. MapOf(T1) = System \cup UNION {Own(T1, e) : e \in Used(T1)}
        BY Zenon DEF MapOf
    <2>3. ASSUME NEW a \in MapOf(T1) PROVE a \in M \cup {s} \cup SectorsOf(h)
        <3>1. CASE a \in System
            BY <2>1, <3>1, Zenon
        <3>2. ASSUME NEW e \in Used(T1), a \in Own(T1, e)
              PROVE  a \in M \cup {s} \cup SectorsOf(h)
            <4>1. CASE e = f
                BY <1>3, <3>2, <4>1, Zenon
            <4>2. CASE e \in Used(T)
                BY <1>4, <1>5, <3>2, <4>2, Zenon
            <4> QED
                BY <1>1, <4>1, <4>2, Zenon
        <3> QED
            BY <2>2, <3>1, <3>2, Zenon
    <2>4. ASSUME NEW a \in M \cup {s} \cup SectorsOf(h) PROVE a \in MapOf(T1)
        <3>1. CASE a \in System
            BY <2>2, <3>1, Zenon
        <3>2. ASSUME NEW e \in Used(T), a \in Own(T, e) PROVE a \in MapOf(T1)
            BY <1>1, <1>4, <2>2, <3>2, Zenon
        <3>3. CASE a \in {s} \cup SectorsOf(h)
            BY <1>1, <1>3, <2>2, <3>3, Zenon
        <3> QED
            BY <2>1, <3>1, <3>2, <3>3, Zenon
    <2> QED
        BY <2>3, <2>4, Zenon
<1>11. Opened(T1)
    <2>1. SUFFICES ASSUME openFile # NULL
          PROVE  /\ openFile.name \in DOMAIN files
                 /\ \E e \in Used(T1) :
                       openFile \in [name : {T1[e].name}, seek : Nat, hdr : {HdrOf(T1, e)}]
        BY Zenon DEF Opened
    <2>2. PICK e \in Used(T) : openFile \in [name : {T[e].name}, seek : Nat, hdr : {HdrOf(T, e)}]
        BY <2>1, Zenon DEF Base, Opened
    <2>3. openFile.name \in DOMAIN files
        BY <2>1, Zenon DEF Base, Opened
    <2>4. e \in Used(T1) /\ T1[e].name = T[e].name /\ HdrOf(T1, e) = HdrOf(T, e)
        BY <1>1, <1>2, <1>4, Zenon
    <2> QED
        BY <2>2, <2>3, <2>4, Zenon
<1>12. Base(T1, M \cup {s} \cup SectorsOf(h))
    BY <1>1, <1>9, <1>10, <1>11, Zenon DEF Base
<1>13. ASSUME Filled(T, {}), name \in DOMAIN files, Holds(h, files[name])
       PROVE  Filled(T1, {})
    <2>1. \A e \in Used(T) : T1[e].name \in DOMAIN files /\ Holds(HdrOf(T1, e), files[T1[e].name])
        BY <1>2, <1>4, <1>13, Zenon DEF Filled
    <2>2. T1[f].name \in DOMAIN files /\ Holds(HdrOf(T1, f), files[T1[f].name])
        BY <1>1, <1>3, <1>13, Zenon
    <2> QED
        BY <1>1, <2>1, <2>2, Zenon DEF Filled
<1> QED
    BY <1>12, <1>13, Zenon

Removed(T, x) == [T EXCEPT ![x].inUse = FALSE]

(* T1 is T without the file in the entry x.                                *)
Removes(T, x, T1) ==
    /\ NamesIn(T1) = NamesIn(T) \ {T[x].name}
    /\ T1 \in Tables /\ T1[x].name = T[x].name /\ ~T1[x].inUse
    /\ \A e \in Entries : e # x => T1[e] = T[e]

NotOpen(name) == openFile # NULL => openFile.name # name

(* Remove clears inUse, and the sectors are those of the other files.      *)
LEMMA RemovedBase ==
    ASSUME NEW T, NEW M, Base(T, M), NEW x \in Used(T), NEW T1, T1 = Removed(T, x),
           NotOpen(T[x].name)
    PROVE  /\ Base(T1, M \ Own(T, x)) /\ Removes(T, x, T1)
           /\ Filled(T, {T[x].name}) => Filled(T1, {})
<1>1. T \in Tables /\ x \in Entries /\ TableOK(T)
    BY Zenon DEF Base, TableOK, Used
<1>2. T1[x] = [T[x] EXCEPT !.inUse = FALSE] /\ \A e \in Entries : e # x => T1[e] = T[e]
    BY <1>1, Zenon DEF Tables, Removed
<1>3. T[x] \in [inUse : BOOLEAN, sector : Sectors, name : Names \cup {"garbage"}]
    BY <1>1, Zenon DEF Tables
<1>4. /\ T1[x] \in [inUse : BOOLEAN, sector : Sectors, name : Names \cup {"garbage"}]
      /\ ~T1[x].inUse /\ T1[x].name = T[x].name
    <2>1. PICK N : N = Names \cup {"garbage"}
        BY Zenon
    <2>2. PICK r : r = T[x]
        BY Zenon
    <2>3. r \in [inUse : BOOLEAN, sector : Sectors, name : N] /\ T1[x] = [r EXCEPT !.inUse = FALSE]
        BY <1>2, <1>3, <2>1, <2>2, Zenon
    <2>4. ~T1[x].inUse /\ T1[x].name = r.name
        BY <2>3, Zenon
    <2>5. T1[x] \in [inUse : BOOLEAN, sector : Sectors, name : N]
        BY <2>3, Zenon
    <2> QED
        BY <2>1, <2>2, <2>4, <2>5, Zenon
<1>5. T1 \in Tables
    <2>1. T1 = [T EXCEPT ![x] = T1[x]]
        BY <1>1, <1>2, Zenon DEF Tables, Removed
    <2>2. PICK r : r = T1[x]
        OBVIOUS
    <2>3. /\ T1 = [T EXCEPT ![x] = r]
          /\ r \in [inUse : BOOLEAN, sector : Sectors, name : Names \cup {"garbage"}]
        BY <1>4, <2>1, <2>2, Zenon
    <2> QED
        BY <1>1, <2>3, Zenon DEF Tables
<1>6. Used(T1) = Used(T) \ {x}
    BY <1>1, <1>2, <1>4, Zenon DEF Used
<1>7. \A e \in Used(T1) : e \in Used(T) /\ e # x /\ T1[e] = T[e]
    BY <1>2, <1>6, Zenon DEF Used
<1>8. \A e \in Used(T1) : T1[e].name # T[x].name
    BY <1>1, <1>7, Zenon DEF TableOK
<1>9. \A e, g \in Used(T1) : T1[e].name = T1[g].name => e = g
    <2>1. ASSUME NEW e \in Used(T1), NEW g \in Used(T1), T1[e].name = T1[g].name PROVE e = g
        <3>1. e \in Used(T) /\ g \in Used(T) /\ T[e].name = T[g].name
            BY <1>7, <2>1, Zenon
        <3> QED
            BY <1>1, <3>1, Zenon DEF TableOK
    <2> QED
        BY <2>1, Zenon
<1>10. ASSUME NEW e \in Used(T1), NEW g \in FreeEntries(T1), T1[e].name = T1[g].name
       PROVE  e < g
    <2>1. g # x
        BY <1>4, <1>8, <1>10, Zenon
    <2>2. g \in FreeEntries(T) /\ T1[g] = T[g]
        BY <1>2, <2>1, Zenon DEF FreeEntries
    <2>3. e \in Used(T) /\ T[e].name = T[g].name
        BY <1>7, <1>10, <2>2, Zenon
    <2> QED
        BY <1>1, <2>2, <2>3, Zenon DEF TableOK
<1>11. TableOK(T1)
    BY <1>5, <1>9, <1>10, Zenon DEF TableOK
<1>12. \A e \in Used(T1) : HdrOf(T1, e) = HdrOf(T, e) /\ Own(T1, e) = Own(T, e)
    BY <1>7, Zenon DEF HdrOf, Own
<1>13. \A e \in Used(T1) : Separate(T1, e)
    BY <1>7, <1>12, Zenon DEF Separate, Base, Apart
<1>14. \A e \in Used(T1), g \in Used(T1) : e # g => Own(T1, e) \cap Own(T1, g) = {}
    <2>1. ASSUME NEW e \in Used(T1), NEW g \in Used(T1), e # g
          PROVE  Own(T1, e) \cap Own(T1, g) = {}
        <3>1. e \in Used(T) /\ g \in Used(T)
            BY <1>7, Zenon
        <3>2. Own(T, e) \cap Own(T, g) = {}
            BY <2>1, <3>1, Zenon DEF Base, Apart
        <3> QED
            BY <1>12, <3>2, Zenon
    <2> QED
        BY <2>1, Zenon
<1>15. Apart(T1)
    BY <1>13, <1>14, Zenon DEF Apart
<1>16. M \ Own(T, x) = MapOf(T1)
    <2>1. M = System \cup UNION {Own(T, e) : e \in Used(T)}
        BY Zenon DEF Base, MapOf
    <2>2. MapOf(T1) = System \cup UNION {Own(T1, e) : e \in Used(T1)}
        BY Zenon DEF MapOf
    <2>3. Own(T, x) \cap System = {} /\ \A e \in Used(T1) : Own(T, e) \cap Own(T, x) = {}
        BY <1>7, Zenon DEF Base, Apart, Separate
    <2>4. ASSUME NEW a \in MapOf(T1) PROVE a \in M \ Own(T, x)
        <3>1. CASE a \in System
            BY <2>1, <2>3, <3>1, Zenon
        <3>2. ASSUME NEW e \in Used(T1), a \in Own(T1, e) PROVE a \in M \ Own(T, x)
            BY <1>7, <1>12, <2>1, <2>3, <3>2, Zenon
        <3> QED
            BY <2>2, <3>1, <3>2, Zenon
    <2>5. ASSUME NEW a \in M \ Own(T, x) PROVE a \in MapOf(T1)
        <3>1. CASE a \in System
            BY <2>2, <3>1, Zenon
        <3>2. ASSUME NEW e \in Used(T), a \in Own(T, e) PROVE a \in MapOf(T1)
            <4>1. e \in Used(T1)
                BY <1>6, <3>2, Zenon
            <4> QED
                BY <1>12, <2>2, <3>2, <4>1, Zenon
        <3> QED
            BY <2>1, <3>1, <3>2, Zenon
    <2> QED
        BY <2>4, <2>5, Zenon
<1>17. Opened(T1)
    <2>1. SUFFICES ASSUME openFile # NULL
          PROVE  /\ openFile.name \in DOMAIN files
                 /\ \E e \in Used(T1) :
                       openFile \in [name : {T1[e].name}, seek : Nat, hdr : {HdrOf(T1, e)}]
        BY Zenon DEF Opened
    <2>2. PICK e \in Used(T) : openFile \in [name : {T[e].name}, seek : Nat, hdr : {HdrOf(T, e)}]
        BY <2>1, Zenon DEF Base, Opened
    <2>3. openFile.name \in DOMAIN files
        BY <2>1, Zenon DEF Base, Opened
    <2>4. e # x
        <3>1. openFile.name # T[x].name
            BY <2>1, Zenon DEF NotOpen
        <3> QED
            BY <2>2, <3>1, Zenon
    <2>5. e \in Used(T1) /\ T1[e].name = T[e].name /\ HdrOf(T1, e) = HdrOf(T, e)
        BY <1>6, <1>7, <1>12, <2>4, Zenon
    <2> QED
        BY <2>2, <2>3, <2>5, Zenon
<1>18. Base(T1, M \ Own(T, x))
    BY <1>11, <1>15, <1>16, <1>17, Zenon DEF Base
<1>19. NamesIn(T1) = NamesIn(T) \ {T[x].name}
    <2>1. ASSUME NEW n \in NamesIn(T1) PROVE n \in NamesIn(T) \ {T[x].name}
        <3>1. PICK e \in Used(T1) : T1[e].name = n
            BY Zenon DEF NamesIn
        <3>2. e \in Used(T) /\ T[e].name = n /\ n # T[x].name
            BY <1>7, <1>8, <3>1, Zenon
        <3> QED
            BY <3>2, Zenon DEF NamesIn
    <2>2. ASSUME NEW n \in NamesIn(T) \ {T[x].name} PROVE n \in NamesIn(T1)
        <3>1. PICK e \in Used(T) : T[e].name = n
            BY Zenon DEF NamesIn
        <3>2. e \in Used(T1)
            BY <1>6, <3>1, Zenon
        <3> QED
            BY <1>7, <3>1, <3>2, Zenon DEF NamesIn
    <2> QED
        BY <2>1, <2>2, Zenon
<1>20. ASSUME Filled(T, {T[x].name}) PROVE Filled(T1, {})
    BY <1>7, <1>8, <1>12, <1>20, Zenon DEF Filled
<1>21. Removes(T, x, T1)
    BY <1>2, <1>4, <1>5, <1>19, Zenon DEF Removes
<1> QED
    BY <1>18, <1>20, <1>21, Zenon

-----------------------------------------------------------------------------
(* What goes on by itself.                                                 *)

(* While sectors are to be written nothing else happens.                   *)
LEMMA OnlyWriteSector ==
    ASSUME DiskStep, writes # <<>>
    PROVE  WriteSector
BY Zenon DEF DiskStep, Format, Busy, OpenSystemFiles, WriteBackHeader, StartWriteAt, NextTask

(* After them the next task of the operation is done.                      *)
LEMMA OnlyTask ==
    ASSUME DiskStep, writes = <<>>, todo # <<>>, NEW kind, Head(todo).kind = kind
    PROVE  /\ todo' = Tail(todo)
           /\ kind = "header" => WriteBackHeader
           /\ kind = "file" => StartWriteAt
           /\ kind = "open" => OpenSystemFiles
<1>1. ~WriteSector /\ ~Format
    BY Zenon DEF WriteSector, Format, Busy
<1>2. "header" # "file" /\ "header" # "open" /\ "file" # "open"
    OBVIOUS
<1>3. \/ kind = "open" /\ OpenSystemFiles
      \/ kind = "header" /\ WriteBackHeader
      \/ kind = "file" /\ StartWriteAt
    BY <1>1, Zenon DEF DiskStep, OpenSystemFiles, WriteBackHeader, StartWriteAt, NextTask
<1>4. todo' = Tail(todo)
    BY <1>3, Zenon DEF OpenSystemFiles, WriteBackHeader, StartWriteAt, NextTask
<1> QED
    BY <1>2, <1>3, <1>4, Zenon

(* The parts of a task.                                                    *)
LEMMA Tasks ==
    /\ \A s, h : /\ WriteHeader(s, h).kind = "header"
                 /\ WriteHeader(s, h).sector = s /\ WriteHeader(s, h).hdr = h
    /\ \A h, cells, n, at : WriteFile(h, cells, n, at).kind = "file"
    /\ OpenFiles.kind = "open"
BY DEF WriteHeader, WriteFile, OpenFiles

SameDisk == header' = header /\ data' = data /\ files' = files /\ openFile' = openFile

(* What is on the disk stays while nothing is written.                     *)
LEMMA DiskFrame ==
    ASSUME SameDisk
    PROVE  /\ \A T, M : Base(T, M) => Base(T, M)'
           /\ \A T, X : Filled(T, X) => Filled(T, X)'
           /\ \A T : TableStored(T) => TableStored(T)'
           /\ \A M : MapStored(M) => MapStored(M)'
           /\ \A h, old, new : Mixed(h, old, new) => Mixed(h, old, new)'
           /\ \A h, cells : OnDisk(h, cells) => OnDisk(h, cells)'
<1>1. \A S : HeaderKept(S)
    BY Zenon DEF SameDisk, HeaderKept
<1>2. ASSUME NEW T, NEW M, Base(T, M) PROVE Base(T, M)'
    BY <1>1, <1>2, BaseFrame, Zenon DEF SameDisk
<1>3. ASSUME NEW T, NEW X, Filled(T, X) PROVE Filled(T, X)'
    BY <1>3 DEF Filled, Holds, HdrOf, Cell, SameDisk
<1>4. ASSUME NEW h, NEW cells, OnDisk(h, cells) PROVE OnDisk(h, cells)'
    BY <1>4 DEF OnDisk, Cell, SameDisk
<1>5. ASSUME NEW h, NEW old, NEW new, Mixed(h, old, new) PROVE Mixed(h, old, new)'
    BY <1>5 DEF Mixed, Cell, SameDisk
<1>6. \A T : TableStored(T) => TableStored(T)'
    BY <1>4 DEF TableStored
<1>7. \A M : MapStored(M) => MapStored(M)'
    BY <1>4 DEF MapStored
<1> QED
    BY <1>2, <1>3, <1>4, <1>5, <1>6, <1>7, Zenon

(* A call of WriteAt.                                                      *)
LEMMA StartStep ==
    ASSUME DiskOK, StartWriteAt, NEW h, HeaderOK(h), NEW from, NEW n \in Nat, NEW at \in Nat,
           Head(todo) = WriteFile(h, from, n, at)
    PROVE  /\ SameDisk /\ mounted' = mounted /\ op' = op /\ DiskOK'
           /\ \A cells : cells = Overwritten(h, from, n, at) => Arriving(h, cells)'
<1>1. writes' = WriteAt(h, from, n, at)
    <2>1. PICK t : t = WriteFile(h, from, n, at)
        BY Zenon
    <2>2. t.hdr = h /\ t.cells = from /\ t.numBytes = n /\ t.position = at
        BY <2>1 DEF WriteFile
    <2>3. writes' = WriteAt(t.hdr, t.cells, t.numBytes, t.position)
        BY <2>1, Zenon DEF StartWriteAt
    <2> QED
        BY <2>2, <2>3, Zenon
<1>2. header' = header /\ data' = data /\ mounted' = mounted /\ openFile' = openFile /\ op' = op
      /\ files' = files
    BY Zenon DEF StartWriteAt, disk
<1>3. IsSequence(writes') /\ InTransit(writes', h, Overwritten(h, from, n, at))
    BY <1>1, WriteAtCells, Zenon
<1>4. DiskOK'
    BY <1>2, <1>3, Zenon DEF DiskOK
<1>5. ASSUME NEW cells, cells = Overwritten(h, from, n, at) PROVE Arriving(h, cells)'
    <2>1. InTransit(writes', h, cells)
        BY <1>3, <1>5, Zenon
    <2> QED
        BY <1>2, <2>1 DEF Arriving, InTransit, Cell
<1> QED
    BY <1>2, <1>4, <1>5, Zenon DEF SameDisk

(* A call of WriteAt for the whole of a file.                              *)
LEMMA StartWhole ==
    ASSUME DiskOK, StartWriteAt, NEW h, HeaderOK(h), NEW cells,
           Head(todo) = WriteFile(h, cells, h.numBytes, 0)
    PROVE  /\ SameDisk /\ mounted' = mounted /\ op' = op /\ DiskOK'
           /\ Arriving(h, cells)'
<1>1. h.numBytes \in Nat /\ 0 \in Nat
    BY Zenon DEF HeaderOK, Headers
<1>2. PICK new : new = Overwritten(h, cells, h.numBytes, 0)
    BY Zenon
<1>3. /\ SameDisk /\ mounted' = mounted /\ op' = op /\ DiskOK'
      /\ Arriving(h, new)'
    BY <1>1, <1>2, StartStep, Zenon
<1>4. ASSUME NEW p \in Positions(h) PROVE new[p] = cells[p]
    <2>1. p - 0 = p /\ p \in 0..(0 + Transferred(h, h.numBytes, 0) - 1)
        BY <1>1 DEF Positions, Transferred
    <2> QED
        BY <1>2, <2>1, Zenon DEF Overwritten
<1>5. Arriving(h, cells)'
    BY <1>3, <1>4 DEF Arriving, InTransit
<1> QED
    BY <1>3, <1>5, Zenon

-----------------------------------------------------------------------------
(* The inductive invariant: where the current operation is.                *)

(* FileSystem's constructor with format: two headers, the two files that   *)
(* stay open, and an empty bitmap and directory.                           *)
MapTask(M) == WriteFreeMap(MapHdr, M)
TableTask(T) == WriteDirectory(DirHdr, T)

Fresh == openFile = NULL /\ op = NULL /\ DOMAIN files = {}

Blank == Fresh /\ mounted = NULL /\ todo = <<>> /\ writes = <<>>
Format1 ==
    /\ Fresh /\ mounted = NULL /\ writes = <<>>
    /\ todo = <<WriteHeader(FreeMapSector, MapHdr), WriteHeader(DirectorySector, DirHdr), OpenFiles,
                MapTask(System), TableTask(EmptyDirectory)>>
Format2 ==
    /\ Fresh /\ mounted = NULL /\ writes = <<>> /\ header[FreeMapSector] = MapHdr
    /\ todo = <<WriteHeader(DirectorySector, DirHdr), OpenFiles, MapTask(System),
                TableTask(EmptyDirectory)>>
Format3 ==
    /\ Fresh /\ mounted = NULL /\ writes = <<>> /\ Base(EmptyDirectory, System)
    /\ todo = <<OpenFiles, MapTask(System), TableTask(EmptyDirectory)>>
Format4 ==
    /\ Fresh /\ mounted = Mounted /\ writes = <<>> /\ Base(EmptyDirectory, System)
    /\ todo = <<MapTask(System), TableTask(EmptyDirectory)>>
Format5 ==
    /\ Fresh /\ mounted = Mounted /\ Base(EmptyDirectory, System)
    /\ Arriving(MapHdr, BitMapCells(System))
    /\ todo = <<TableTask(EmptyDirectory)>>
Format6 ==
    /\ Fresh /\ mounted = Mounted /\ Base(EmptyDirectory, System)
    /\ MapStored(System) /\ Arriving(DirHdr, DirectoryCells(EmptyDirectory))
    /\ todo = <<>>

(* Between operations, and when Nachos is started on the disk.             *)
Quiet(T, M) ==
    /\ Base(T, M) /\ TableStored(T) /\ MapStored(M)
    /\ Filled(T, {}) /\ DOMAIN files = NamesIn(T)
    /\ writes = <<>>
    /\ \/ todo = <<>> /\ mounted = Mounted
       \/ todo = <<OpenFiles>> /\ mounted = NULL

(* A write to a file, before its WriteAt and then.                         *)
Promised(h, cells, want) ==
    DOMAIN want = Positions(h) /\ \A p \in Positions(h) : want[p] \in {"any", cells[p]}

WriteOp(T, M, x) ==
    /\ Base(T, M) /\ TableStored(T) /\ MapStored(M) /\ mounted = Mounted
    /\ x \in Used(T) /\ op = T[x].name /\ DOMAIN files = NamesIn(T) /\ Filled(T, {T[x].name})
Write1(T, M, x, h, from, n, at) ==
    /\ WriteOp(T, M, x) /\ h = HdrOf(T, x) /\ n \in Nat /\ at \in Nat
    /\ todo = <<WriteFile(h, from, n, at)>> /\ writes = <<>>
    /\ Promised(h, Overwritten(h, from, n, at), files[T[x].name])
Write2(T, M, x, h, cells) ==
    /\ WriteOp(T, M, x) /\ h = HdrOf(T, x)
    /\ todo = <<>>
    /\ Arriving(h, cells) /\ Promised(h, cells, files[T[x].name])

(* Create: the new file's header, the directory T1 and the bitmap M1.      *)
CreateOp(T, M, name, s, h, T1, M1) ==
    /\ Base(T, M) /\ Filled(T, {}) /\ mounted = Mounted
    /\ op = name /\ name \in Names /\ name \notin NamesIn(T)
    /\ DOMAIN files = NamesIn(T) \cup {name}
    /\ DOMAIN files[name] = Positions(h) /\ \A p \in Positions(h) : files[name][p] = "any"
    /\ FreeEntries(T) # {} /\ s \in Sectors \ M
    /\ HeaderOK(h) /\ SectorsOf(h) \cap (M \cup {s}) = {}
    /\ T1 = Add(T, name, s) /\ M1 = M \cup {s} \cup SectorsOf(h)
Create1(T, M, name, s, h, T1, M1) ==
    /\ CreateOp(T, M, name, s, h, T1, M1)
    /\ todo = <<WriteHeader(s, h), TableTask(T1), MapTask(M1)>> /\ writes = <<>>
    /\ TableStored(T) /\ MapStored(M)
Create2(T, M, name, s, h, T1, M1) ==
    /\ CreateOp(T, M, name, s, h, T1, M1) /\ header[s] = h
    /\ todo = <<TableTask(T1), MapTask(M1)>> /\ writes = <<>>
    /\ TableStored(T) /\ MapStored(M)
Create3(T, M, name, s, h, T1, M1) ==
    /\ CreateOp(T, M, name, s, h, T1, M1) /\ header[s] = h
    /\ todo = <<MapTask(M1)>>
    /\ Mixed(DirHdr, DirectoryCells(T), DirectoryCells(T1))
    /\ Arriving(DirHdr, DirectoryCells(T1)) /\ MapStored(M)
Create4(T, M, name, s, h, T1, M1) ==
    /\ CreateOp(T, M, name, s, h, T1, M1) /\ header[s] = h
    /\ todo = <<>>
    /\ Mixed(MapHdr, BitMapCells(M), BitMapCells(M1))
    /\ Arriving(MapHdr, BitMapCells(M1)) /\ TableStored(T1)

(* Remove: the bitmap M1, then the directory T1.                           *)
RemoveOp(T, M, x, T1, M1) ==
    /\ Base(T, M) /\ Filled(T, {T[x].name}) /\ mounted = Mounted
    /\ x \in Used(T) /\ op = T[x].name
    /\ T[x].name \notin DOMAIN files /\ NamesIn(T) = DOMAIN files \cup {T[x].name}
    /\ T1 = Removed(T, x) /\ M1 = M \ Own(T, x)
Remove1(T, M, x, T1, M1) ==
    /\ RemoveOp(T, M, x, T1, M1)
    /\ todo = <<MapTask(M1), TableTask(T1)>> /\ writes = <<>>
    /\ TableStored(T) /\ MapStored(M)
Remove2(T, M, x, T1, M1) ==
    /\ RemoveOp(T, M, x, T1, M1)
    /\ todo = <<TableTask(T1)>>
    /\ Mixed(MapHdr, BitMapCells(M), BitMapCells(M1))
    /\ Arriving(MapHdr, BitMapCells(M1)) /\ TableStored(T)
Remove3(T, M, x, T1, M1) ==
    /\ RemoveOp(T, M, x, T1, M1)
    /\ todo = <<>>
    /\ Mixed(DirHdr, DirectoryCells(T), DirectoryCells(T1))
    /\ Arriving(DirHdr, DirectoryCells(T1)) /\ MapStored(M1)

Formatting == Format1 \/ Format2 \/ Format3 \/ Format4 \/ Format5 \/ Format6

Writing(T, M) ==
    \/ \E x, h, from, n, at : Write1(T, M, x, h, from, n, at)
    \/ \E x, h, cells : Write2(T, M, x, h, cells)

Creating(T, M) ==
    \E name, s, h, T1, M1 : \/ Create1(T, M, name, s, h, T1, M1)
                            \/ Create2(T, M, name, s, h, T1, M1)
                            \/ Create3(T, M, name, s, h, T1, M1)
                            \/ Create4(T, M, name, s, h, T1, M1)

Removing(T, M) ==
    \E x, T1, M1 : \/ Remove1(T, M, x, T1, M1)
                   \/ Remove2(T, M, x, T1, M1)
                   \/ Remove3(T, M, x, T1, M1)

Phase ==
    \/ Blank
    \/ Formatting
    \/ \E T, M : Quiet(T, M) \/ Writing(T, M) \/ Creating(T, M) \/ Removing(T, M)

FsInv == DiskOK /\ Phase

-----------------------------------------------------------------------------
(* The steps of the disk from one phase to the next.                       *)

(* What the writing of a sector leaves as it is.                           *)
LEMMA SectorKeeps ==
    ASSUME WriteSector
    PROVE  mounted' = mounted /\ todo' = todo /\ openFile' = openFile /\ op' = op /\ files' = files
BY Zenon DEF WriteSector

(* FileHeader::WriteBack writes one sector.                                *)
LEMMA HeaderStep ==
    ASSUME DiskOK, WriteBackHeader, NEW s \in Sectors, NEW h, Head(todo) = WriteHeader(s, h)
    PROVE  /\ header'[s] = h
           /\ \A t \in Sectors : t # s => header'[t] = header[t] /\ data'[t] = data[t]
           /\ mounted' = mounted /\ writes' = writes /\ openFile' = openFile /\ op' = op
           /\ files' = files
           /\ DiskOK'
<1>1. PICK g : g = [i \in 0..(SectorSize - 1) |-> "garbage"]
    BY Zenon
<1>2. Head(todo).sector = s /\ Head(todo).hdr = h
    <2>1. WriteHeader(s, h).sector = s /\ WriteHeader(s, h).hdr = h
        BY Tasks, Zenon
    <2> QED
        BY <2>1
<1>3. header' = [header EXCEPT ![s] = h] /\ data' = [data EXCEPT ![s] = g]
    BY <1>1, <1>2, Zenon DEF WriteBackHeader
<1>4. mounted' = mounted /\ writes' = writes /\ openFile' = openFile /\ op' = op /\ files' = files
    BY Zenon DEF WriteBackHeader
<1>5. /\ header'[s] = h
      /\ \A t \in Sectors : t # s => header'[t] = header[t] /\ data'[t] = data[t]
      /\ header' = [t \in Sectors |-> header'[t]] /\ data' = [t \in Sectors |-> data'[t]]
    BY <1>3, Zenon DEF DiskOK
<1>6. DiskOK'
    BY <1>4, <1>5, Zenon DEF DiskOK
<1> QED
    BY <1>4, <1>5, <1>6, Zenon

(* A header is written to a sector that is not in use.                     *)
LEMMA HeaderWrite ==
    ASSUME NEW T, NEW M, Base(T, M), NEW s \in Sectors \ M,
           \A t \in Sectors : t # s => header'[t] = header[t] /\ data'[t] = data[t],
           openFile' = openFile, files' = files
    PROVE  /\ Base(T, M)'
           /\ \A X : Filled(T, X) => Filled(T, X)'
           /\ \A new : TableStored(new) => TableStored(new)'
           /\ \A new : MapStored(new) => MapStored(new)'
<1>1. HeaderOK(MapHdr) /\ HeaderOK(DirHdr)
    BY Layout, Zenon
<1>2. /\ HeaderSectors(T) \subseteq M /\ Map0 \subseteq M /\ M \subseteq Sectors /\ s \notin M
      /\ SectorsOf(MapHdr) \subseteq M /\ SectorsOf(DirHdr) \subseteq M
      /\ \A e \in Used(T) : SectorsOf(HdrOf(T, e)) \subseteq M
    BY BaseSectors, Zenon DEF Own
<1>3. HeaderKept(Map0) /\ HeaderKept(HeaderSectors(T))
    BY <1>2, Zenon DEF HeaderKept
<1>4. Base(T, M)'
    BY <1>3, BaseFrame, Zenon
<1>5. ASSUME NEW X, Filled(T, X) PROVE Filled(T, X)'
    <2>1. \A e \in Used(T) : T[e].name \notin X => DataKept(SectorsOf(HdrOf(T, e)))
        BY <1>2, Zenon DEF DataKept
    <2>2. Apart(T)
        BY Zenon DEF Base
    <2> QED
        BY <1>3, <1>5, <2>1, <2>2, FilledFrame, Zenon
<1>6. ASSUME NEW new, TableStored(new) PROVE TableStored(new)'
    <2>1. DataKept(SectorsOf(DirHdr))
        BY <1>2, Zenon DEF DataKept
    <2>2. OnDisk(DirHdr, DirectoryCells(new))'
        BY <1>1, <1>6, <2>1, OnDiskFrame, Zenon DEF TableStored
    <2> QED
        BY <2>2 DEF TableStored
<1>7. ASSUME NEW new, MapStored(new) PROVE MapStored(new)'
    <2>1. DataKept(SectorsOf(MapHdr))
        BY <1>2, Zenon DEF DataKept
    <2>2. OnDisk(MapHdr, BitMapCells(new))'
        BY <1>1, <1>7, <2>1, OnDiskFrame, Zenon DEF MapStored
    <2> QED
        BY <2>2 DEF MapStored
<1> QED
    BY <1>4, <1>5, <1>6, <1>7, Zenon

(* The files of the file system have sizes that their tasks write.         *)
LEMMA SystemTasks ==
    ASSUME NEW T, NEW M
    PROVE  /\ MapTask(M) = WriteFile(MapHdr, BitMapCells(M), MapHdr.numBytes, 0)
           /\ TableTask(T) = WriteFile(DirHdr, DirectoryCells(T), DirHdr.numBytes, 0)
           /\ MapTask(M).kind = "file" /\ TableTask(T).kind = "file"
           /\ HeaderOK(MapHdr) /\ HeaderOK(DirHdr)
<1>1. MapHdr.numBytes = FreeMapFileSize /\ DirHdr.numBytes = DirectoryFileSize
      /\ HeaderOK(MapHdr) /\ HeaderOK(DirHdr)
    BY Layout, Zenon
<1>2. /\ MapTask(M) = WriteFile(MapHdr, BitMapCells(M), MapHdr.numBytes, 0)
      /\ TableTask(T) = WriteFile(DirHdr, DirectoryCells(T), DirHdr.numBytes, 0)
    BY <1>1, Zenon DEF MapTask, TableTask, WriteFreeMap, WriteDirectory
<1>3. /\ WriteFile(MapHdr, BitMapCells(M), MapHdr.numBytes, 0).kind = "file"
      /\ WriteFile(DirHdr, DirectoryCells(T), DirHdr.numBytes, 0).kind = "file"
    BY Tasks
<1>4. MapTask(M).kind = "file" /\ TableTask(T).kind = "file"
    BY <1>2, <1>3
<1> QED
    BY <1>1, <1>2, <1>4, Zenon

(* A disk that has a file system is not formatted.                         *)
LEMMA NoFormat ==
    ASSUME NEW T, NEW M, Base(T, M)
    PROVE  ~Format
<1>1. MapHdr \in Headers
    BY Layout, Zenon DEF HeaderOK
<1>2. MapHdr # NULL
    BY <1>1, FileSystemAssumption, Zenon DEF Headers
<1> QED
    BY <1>2, Zenon DEF Base, Format

(* The bitmap or the directory is written back.                            *)
LEMMA SystemStart ==
    ASSUME DiskOK, DiskStep, writes = <<>>, todo # <<>>, NEW T, NEW M,
           Head(todo) = MapTask(M) \/ Head(todo) = TableTask(T)
    PROVE  /\ SameDisk /\ mounted' = mounted /\ op' = op /\ DiskOK' /\ todo' = Tail(todo)
           /\ Head(todo) = MapTask(M) => Arriving(MapHdr, BitMapCells(M))'
           /\ Head(todo) = TableTask(T) => Arriving(DirHdr, DirectoryCells(T))'
<1>1. Head(todo).kind = "file"
    BY SystemTasks
<1>2. StartWriteAt /\ todo' = Tail(todo)
    BY <1>1, OnlyTask, Zenon
<1>3. ASSUME Head(todo) = MapTask(M)
      PROVE  SameDisk /\ mounted' = mounted /\ op' = op /\ DiskOK'
             /\ Arriving(MapHdr, BitMapCells(M))'
    <2>1. Head(todo) = WriteFile(MapHdr, BitMapCells(M), MapHdr.numBytes, 0) /\ HeaderOK(MapHdr)
        BY <1>3, SystemTasks, Zenon
    <2>2. PICK cells : cells = BitMapCells(M)
        BY Zenon
    <2> QED
        BY <1>2, <2>1, <2>2, StartWhole, Zenon
<1>4. ASSUME Head(todo) = TableTask(T)
      PROVE  SameDisk /\ mounted' = mounted /\ op' = op /\ DiskOK'
             /\ Arriving(DirHdr, DirectoryCells(T))'
    <2>1. Head(todo) = WriteFile(DirHdr, DirectoryCells(T), DirHdr.numBytes, 0) /\ HeaderOK(DirHdr)
        BY <1>4, SystemTasks, Zenon
    <2>2. PICK cells : cells = DirectoryCells(T)
        BY Zenon
    <2> QED
        BY <1>2, <2>1, <2>2, StartWhole, Zenon
<1> QED
    BY <1>2, <1>3, <1>4, Zenon

(* The file that is about to be written still is as it was.                *)
LEMMA MixedStart ==
    ASSUME SameDisk, NEW h, NEW old, NEW new, OnDisk(h, old)
    PROVE  Mixed(h, old, new)'
<1>1. Mixed(h, old, new)
    BY Zenon DEF OnDisk, Mixed
<1> QED
    BY <1>1, DiskFrame, Zenon

(* The empty directory belongs to the bitmap of a new disk.                *)
LEMMA EmptyBase ==
    /\ TableOK(EmptyDirectory) /\ Used(EmptyDirectory) = {} /\ NamesIn(EmptyDirectory) = {}
    /\ FreeMapSector \in Sectors /\ DirectorySector \in Sectors /\ FreeMapSector # DirectorySector
<1>1. FreeMapSector \in Sectors /\ DirectorySector \in Sectors /\ FreeMapSector # DirectorySector
    BY SectorsFacts DEF FreeMapSector, DirectorySector
<1>2. EmptyDirectory \in Tables
    BY <1>1 DEF Tables, EmptyDirectory, FreeMapSector
<1>3. Used(EmptyDirectory) = {}
    BY DEF Used, EmptyDirectory
<1> QED
    BY <1>1, <1>2, <1>3, Zenon DEF TableOK, NamesIn

(* Formatting starts, and writes the bitmap's header.                      *)
LEMMA FormatHeader ==
    ASSUME DiskOK, DiskStep, Blank \/ Format1
    PROVE  DiskOK' /\ Formatting'
<1>1. CASE Blank
    <2>1. writes = <<>> /\ todo = <<>>
        BY <1>1, Zenon DEF Blank
    <2>2. Format
        BY <2>1, Zenon DEF DiskStep, OpenSystemFiles, WriteSector, WriteBackHeader, StartWriteAt, NextTask
    <2>3. todo' = <<WriteHeader(FreeMapSector, MapHdr), WriteHeader(DirectorySector, DirHdr), OpenFiles,
                    MapTask(System), TableTask(EmptyDirectory)>>
        <3>1. Mark(Mark(NewBitMap, FreeMapSector), DirectorySector) = Map0
            BY Zenon DEF Mark, NewBitMap, Map0
        <3> QED
            BY <2>2, <3>1, Zenon DEF Format, MapTask, TableTask, System, Map1, MapHdr, DirHdr
    <2>4. UNCHANGED <<header, data, mounted, writes, openFile, op, files>>
        BY <2>2 DEF Format, disk
    <2>5. DiskOK'
        BY <2>4, Zenon DEF DiskOK
    <2>6. Format1'
        BY <1>1, <2>3, <2>4, Zenon DEF Blank, Format1, Fresh
    <2> QED
        BY <2>5, <2>6, Zenon DEF Formatting
<1>2. CASE Format1
    <2> DEFINE rest == <<WriteHeader(DirectorySector, DirHdr), OpenFiles, MapTask(System),
                         TableTask(EmptyDirectory)>>
    <2>1. writes = <<>> /\ todo # <<>> /\ Head(todo) = WriteHeader(FreeMapSector, MapHdr)
          /\ Tail(todo) = rest
        BY <1>2 DEF Format1
    <2> HIDE DEF rest
    <2>2. Head(todo).kind = "header"
        BY <2>1, Tasks
    <2>3. WriteBackHeader /\ todo' = rest
        BY <2>1, <2>2, OnlyTask, Zenon
    <2>4. /\ header'[FreeMapSector] = MapHdr /\ DiskOK'
          /\ mounted' = mounted /\ writes' = writes /\ openFile' = openFile /\ op' = op
          /\ files' = files
        BY <2>1, <2>3, HeaderStep, EmptyBase, Zenon
    <2>5. Format2'
        BY <1>2, <2>3, <2>4, Zenon DEF Format1, Format2, Fresh, rest
    <2> QED
        BY <2>4, <2>5, Zenon DEF Formatting
<1> QED
    BY <1>1, <1>2, Zenon

(* The directory's header is written, and both files are opened.           *)
LEMMA FormatOpen ==
    ASSUME DiskOK, DiskStep, Format2 \/ Format3
    PROVE  DiskOK' /\ Formatting'
<1>1. CASE Format2
    <2> DEFINE rest == <<OpenFiles, MapTask(System), TableTask(EmptyDirectory)>>
    <2>1. writes = <<>> /\ todo # <<>> /\ Head(todo) = WriteHeader(DirectorySector, DirHdr)
          /\ Tail(todo) = rest
        BY <1>1 DEF Format2
    <2> HIDE DEF rest
    <2>2. Head(todo).kind = "header"
        BY <2>1, Tasks
    <2>3. WriteBackHeader /\ todo' = rest
        BY <2>1, <2>2, OnlyTask, Zenon
    <2>4. /\ header'[DirectorySector] = DirHdr /\ DiskOK'
          /\ \A t \in Sectors : t # DirectorySector => header'[t] = header[t]
          /\ mounted' = mounted /\ writes' = writes /\ openFile' = openFile /\ op' = op
          /\ files' = files
        BY <2>1, <2>3, HeaderStep, EmptyBase, Zenon
    <2>5. header'[FreeMapSector] = MapHdr
        BY <1>1, <2>4, EmptyBase, Zenon DEF Format2
    <2>6. openFile' = NULL
        BY <1>1, <2>4, Zenon DEF Format2, Fresh
    <2>7. Apart(EmptyDirectory)' /\ Opened(EmptyDirectory)' /\ System = MapOf(EmptyDirectory)'
        BY <2>6, EmptyBase DEF Apart, Opened, MapOf
    <2>8. Base(EmptyDirectory, System)'
        BY <2>4, <2>5, <2>7, EmptyBase DEF Base
    <2>9. Format3'
        BY <1>1, <2>3, <2>4, <2>8, Zenon DEF Format2, Format3, Fresh, rest
    <2> QED
        BY <2>4, <2>9, Zenon DEF Formatting
<1>2. CASE Format3
    <2> DEFINE rest == <<MapTask(System), TableTask(EmptyDirectory)>>
    <2>1. writes = <<>> /\ todo # <<>> /\ Head(todo) = OpenFiles /\ Tail(todo) = rest
        BY <1>2 DEF Format3
    <2> HIDE DEF rest
    <2>2. Head(todo).kind = "open"
        BY <2>1, Tasks
    <2>3. OpenSystemFiles /\ todo' = rest
        BY <2>1, <2>2, OnlyTask, Zenon
    <2>4. /\ mounted' = [freeMap |-> header[FreeMapSector], directory |-> header[DirectorySector]]
          /\ header' = header /\ data' = data /\ writes' = writes /\ openFile' = openFile /\ op' = op
          /\ files' = files
        BY <2>3, Zenon DEF OpenSystemFiles, disk
    <2>5. mounted' = Mounted
        BY <1>2, <2>4, Zenon DEF Format3, Base, Mounted
    <2>6. DiskOK' /\ SameDisk
        BY <2>4, Zenon DEF DiskOK, SameDisk
    <2>7. Base(EmptyDirectory, System)'
        BY <1>2, <2>6, DiskFrame, Zenon DEF Format3
    <2>8. Format4'
        BY <1>2, <2>3, <2>4, <2>5, <2>7, Zenon DEF Format3, Format4, Fresh, rest
    <2> QED
        BY <2>6, <2>8, Zenon DEF Formatting
<1> QED
    BY <1>1, <1>2, Zenon

(* The bitmap and the directory are written for the first time.            *)
LEMMA FormatFiles ==
    ASSUME DiskOK, DiskStep, Format4 \/ Format5 \/ Format6
    PROVE  DiskOK' /\ Formatting'
<1> DEFINE T == EmptyDirectory
<1>1. CASE Format4
    <2>1. writes = <<>> /\ todo # <<>> /\ Head(todo) = MapTask(System) /\ Tail(todo) = <<TableTask(T)>>
        BY <1>1 DEF Format4
    <2>2. /\ SameDisk /\ mounted' = mounted /\ op' = op /\ DiskOK' /\ todo' = <<TableTask(T)>>
          /\ Arriving(MapHdr, BitMapCells(System))'
        BY <2>1, SystemStart, Zenon
    <2>3. Base(T, System)'
        BY <1>1, <2>2, DiskFrame, Zenon DEF Format4
    <2>4. Format5'
        BY <1>1, <2>2, <2>3, Zenon DEF Format4, Format5, Fresh, SameDisk
    <2> QED
        BY <2>2, <2>4, Zenon DEF Formatting
<1>2. CASE Format5 /\ writes # <<>>
    <2>1. WriteSector
        BY <1>2, OnlyWriteSector, Zenon
    <2>2. Base(T, System) /\ Arriving(MapHdr, BitMapCells(System)) /\ HeaderOK(MapHdr)
        BY <1>2, Layout, Zenon DEF Format5
    <2>3. PICK cells : cells = BitMapCells(System)
        BY Zenon
    <2>4. Arriving(MapHdr, cells)' /\ DiskOK' /\ Base(T, System)'
        BY <2>1, <2>2, <2>3, ArrivingStep, SystemWrite, Zenon
    <2>5. Arriving(MapHdr, BitMapCells(System))'
        BY <2>3, <2>4
    <2>6. Format5'
        BY <1>2, <2>1, <2>4, <2>5, SectorKeeps, Zenon DEF Format5, Fresh
    <2> QED
        BY <2>4, <2>6, Zenon DEF Formatting
<1>3. CASE Format5 /\ writes = <<>>
    <2>1. todo # <<>> /\ Head(todo) = TableTask(T) /\ Tail(todo) = <<>>
        BY <1>3 DEF Format5
    <2>2. /\ SameDisk /\ mounted' = mounted /\ op' = op /\ DiskOK' /\ todo' = <<>>
          /\ Arriving(DirHdr, DirectoryCells(T))'
        BY <1>3, <2>1, SystemStart, Zenon
    <2>3. MapStored(System)
        BY <1>3, ArrivingEnd, Zenon DEF Format5, MapStored
    <2>4. Base(T, System)' /\ MapStored(System)'
        BY <1>3, <2>2, <2>3, DiskFrame, Zenon DEF Format5
    <2>5. Format6'
        BY <1>3, <2>2, <2>4, Zenon DEF Format5, Format6, Fresh, SameDisk
    <2> QED
        BY <2>2, <2>5, Zenon DEF Formatting
<1>4. CASE Format6 /\ writes # <<>>
    <2>1. WriteSector
        BY <1>4, OnlyWriteSector, Zenon
    <2>2. Base(T, System) /\ Arriving(DirHdr, DirectoryCells(T)) /\ HeaderOK(DirHdr) /\ MapStored(System)
        BY <1>4, Layout, Zenon DEF Format6
    <2>3. PICK cells : cells = DirectoryCells(T)
        BY Zenon
    <2>4. Arriving(DirHdr, cells)' /\ DiskOK' /\ Base(T, System)' /\ MapStored(System)'
        BY <2>1, <2>2, <2>3, ArrivingStep, SystemWrite, TwoFiles, Zenon
    <2>5. Arriving(DirHdr, DirectoryCells(T))'
        BY <2>3, <2>4
    <2>6. Format6'
        BY <1>4, <2>1, <2>4, <2>5, SectorKeeps, Zenon DEF Format6, Fresh
    <2> QED
        BY <2>4, <2>6, Zenon DEF Formatting
<1>5. CASE Format6 /\ writes = <<>>
    <2>1. Base(T, System) /\ todo = <<>>
        BY <1>5, Zenon DEF Format6
    <2>2. ~Format
        BY <2>1, NoFormat, Zenon
    <2> QED
        BY <1>5, <2>1, <2>2, Zenon
            DEF DiskStep, OpenSystemFiles, WriteSector, WriteBackHeader, StartWriteAt, NextTask
<1> QED
    BY <1>1, <1>2, <1>3, <1>4, <1>5, Zenon

(* Nothing goes on between two operations of a formatted disk.             *)
LEMMA NoDiskStep ==
    ASSUME NEW T, NEW M, Base(T, M), todo = <<>>, writes = <<>>
    PROVE  ~DiskStep
<1>1. ~Format
    BY NoFormat, Zenon
<1> QED
    BY <1>1, Zenon DEF DiskStep, OpenSystemFiles, WriteSector, WriteBackHeader, StartWriteAt, NextTask

(* Nachos opens the files of the file system.                              *)
LEMMA QuietDisk ==
    ASSUME DiskOK, DiskStep, NEW T, NEW M, Quiet(T, M)
    PROVE  DiskOK' /\ Quiet(T, M)'
<1>1. Base(T, M) /\ writes = <<>>
    BY Zenon DEF Quiet
<1>2. todo = <<OpenFiles>>
    BY <1>1, NoDiskStep, Zenon DEF Quiet
<1>3. todo # <<>> /\ Head(todo).kind = "open" /\ Tail(todo) = <<>>
    BY <1>2, Tasks
<1>4. OpenSystemFiles /\ todo' = <<>>
    BY <1>1, <1>3, OnlyTask, Zenon
<1>5. /\ mounted' = [freeMap |-> header[FreeMapSector], directory |-> header[DirectorySector]]
      /\ header' = header /\ data' = data /\ writes' = writes /\ openFile' = openFile /\ op' = op
      /\ files' = files
    BY <1>4, Zenon DEF OpenSystemFiles, disk
<1>6. mounted' = Mounted
    BY <1>1, <1>5, Zenon DEF Base, Mounted
<1>7. DiskOK' /\ SameDisk
    BY <1>5, Zenon DEF DiskOK, SameDisk
<1>8. Base(T, M)' /\ TableStored(T)' /\ MapStored(M)' /\ Filled(T, {})'
    BY <1>7, DiskFrame, Zenon DEF Quiet
<1>9. Quiet(T, M)'
    BY <1>4, <1>5, <1>6, <1>8, Zenon DEF Quiet
<1> QED
    BY <1>7, <1>9, Zenon

(* A client's WriteAt.                                                     *)
LEMMA WritingDisk ==
    ASSUME DiskOK, DiskStep, NEW T, NEW M, Writing(T, M)
    PROVE  DiskOK' /\ Writing(T, M)'
<1>1. ASSUME NEW x, NEW h, NEW from, NEW n, NEW at, Write1(T, M, x, h, from, n, at)
      PROVE  DiskOK' /\ Writing(T, M)'
    <2>1. /\ WriteOp(T, M, x) /\ h = HdrOf(T, x) /\ n \in Nat /\ at \in Nat /\ writes = <<>>
          /\ todo = <<WriteFile(h, from, n, at)>>
        BY <1>1, Zenon DEF Write1
    <2>2. PICK cells : cells = Overwritten(h, from, n, at)
        BY Zenon
    <2>3. HeaderOK(h)
        BY <2>1, BaseSectors, Zenon DEF WriteOp
    <2>4. todo # <<>> /\ Head(todo) = WriteFile(h, from, n, at) /\ Tail(todo) = <<>>
        BY <2>1
    <2>5. Head(todo).kind = "file"
        BY <2>4, Tasks
    <2>6. StartWriteAt /\ todo' = <<>>
        BY <2>1, <2>4, <2>5, OnlyTask, Zenon
    <2>7. SameDisk /\ mounted' = mounted /\ op' = op /\ DiskOK' /\ Arriving(h, cells)'
        BY <2>1, <2>2, <2>3, <2>4, <2>6, StartStep, Zenon
    <2>8. Base(T, M)' /\ TableStored(T)' /\ MapStored(M)' /\ Filled(T, {T[x].name})'
        BY <2>1, <2>7, DiskFrame, Zenon DEF WriteOp
    <2>9. WriteOp(T, M, x)' /\ h = HdrOf(T, x)'
        BY <2>1, <2>7, <2>8 DEF WriteOp, SameDisk, HdrOf
    <2>10. Promised(h, cells, files[T[x].name])'
        BY <1>1, <2>2, <2>7 DEF Write1, Promised, SameDisk
    <2>11. Write2(T, M, x, h, cells)'
        BY <2>6, <2>7, <2>9, <2>10 DEF Write2
    <2> QED
        BY <2>7, <2>11 DEF Writing
<1>2. ASSUME NEW x, NEW h, NEW cells, Write2(T, M, x, h, cells)
      PROVE  DiskOK' /\ Writing(T, M)'
    <2>1. WriteOp(T, M, x) /\ h = HdrOf(T, x) /\ todo = <<>> /\ Arriving(h, cells)
        BY <1>2, Zenon DEF Write2
    <2>2. Base(T, M) /\ x \in Used(T) /\ HeaderOK(h)
        BY <2>1, BaseSectors, Zenon DEF WriteOp
    <2>3. WriteSector
        BY <2>1, <2>2, NoDiskStep, OnlyWriteSector, Zenon
    <2>4. Arriving(h, cells)' /\ DiskOK'
        BY <2>1, <2>2, <2>3, ArrivingStep, Zenon
    <2>5. /\ Base(T, M)' /\ Filled(T, {T[x].name})' /\ TableStored(T)' /\ MapStored(M)'
        BY <2>1, <2>2, <2>3, ClientWrite, Zenon DEF WriteOp
    <2>6. mounted' = mounted /\ todo' = todo /\ openFile' = openFile /\ op' = op /\ files' = files
        BY <2>3, SectorKeeps, Zenon
    <2>7. WriteOp(T, M, x)'
        BY <2>1, <2>5, <2>6 DEF WriteOp
    <2>8. h = HdrOf(T, x)'
        <3>1. PICK a \in SectorsOf(h) : a \in Sectors /\ header' = [header EXCEPT ![a] = NULL]
            BY <2>1, <2>2, <2>3, WriteSectorStep, Zenon
        <3>2. T[x].sector # a
            BY <2>1, <2>2, <3>1, Zenon DEF Base, Apart, Separate
        <3>3. T[x].sector \in Sectors
            BY <2>2, Zenon DEF Base, TableOK, Tables, Used
        <3> QED
            BY <2>1, <3>1, <3>2, <3>3 DEF HdrOf, DiskOK
    <2>9. Promised(h, cells, files[T[x].name])'
        BY <1>2, <2>6 DEF Write2, Promised
    <2>10. Write2(T, M, x, h, cells)'
        BY <2>1, <2>4, <2>6, <2>7, <2>8, <2>9 DEF Write2
    <2> QED
        BY <2>4, <2>10 DEF Writing
<1> QED
    BY <1>1, <1>2, Zenon DEF Writing

(* What an operation knows stays while its files are written.              *)
LEMMA CreateFrame ==
    ASSUME NEW T, NEW M, NEW name, NEW s, NEW h, NEW T1, NEW M1, CreateOp(T, M, name, s, h, T1, M1),
           Base(T, M)', Filled(T, {})', mounted' = mounted, op' = op, files' = files
    PROVE  CreateOp(T, M, name, s, h, T1, M1)'
BY DEF CreateOp

(* The same for Remove.                                                    *)
LEMMA RemoveFrame ==
    ASSUME NEW T, NEW M, NEW x, NEW T1, NEW M1, RemoveOp(T, M, x, T1, M1), HeaderKept(HeaderSectors(T)),
           Base(T, M)', Filled(T, {T[x].name})', mounted' = mounted, op' = op, files' = files
    PROVE  RemoveOp(T, M, x, T1, M1)'
<1>1. Own(T, x)' = Own(T, x)
    BY HdrFrame, Zenon DEF RemoveOp
<1> QED
    BY <1>1 DEF RemoveOp

(* Create writes the header, ...                                           *)
LEMMA CreateHeader ==
    ASSUME DiskOK, DiskStep, NEW T, NEW M, NEW name, NEW s, NEW h, NEW T1, NEW M1,
           Create1(T, M, name, s, h, T1, M1)
    PROVE  DiskOK' /\ Create2(T, M, name, s, h, T1, M1)'
<1> DEFINE rest == <<TableTask(T1), MapTask(M1)>>
<1>1. CreateOp(T, M, name, s, h, T1, M1) /\ Base(T, M) /\ s \in Sectors \ M
      /\ Filled(T, {}) /\ TableStored(T) /\ MapStored(M)
    BY Zenon DEF Create1, CreateOp
<1>2. writes = <<>> /\ todo # <<>> /\ Head(todo) = WriteHeader(s, h) /\ Tail(todo) = rest
    BY DEF Create1
<1> HIDE DEF rest
<1>3. Head(todo).kind = "header"
    BY <1>2, Tasks
<1>4. WriteBackHeader /\ todo' = rest
    BY <1>2, <1>3, OnlyTask, Zenon
<1>5. /\ header'[s] = h
      /\ \A t \in Sectors : t # s => header'[t] = header[t] /\ data'[t] = data[t]
      /\ mounted' = mounted /\ writes' = writes /\ openFile' = openFile /\ op' = op
      /\ files' = files /\ DiskOK'
    BY <1>1, <1>2, <1>4, HeaderStep, Zenon
<1>6. Base(T, M)' /\ Filled(T, {})' /\ TableStored(T)' /\ MapStored(M)'
    BY <1>1, <1>5, HeaderWrite, Zenon
<1>7. CreateOp(T, M, name, s, h, T1, M1)'
    BY <1>1, <1>5, <1>6, CreateFrame, Zenon
<1> QED
    BY <1>2, <1>4, <1>5, <1>6, <1>7, Zenon DEF Create2, rest

(* ... the directory, ...                                                  *)
LEMMA CreateTable ==
    ASSUME DiskOK, DiskStep, NEW T, NEW M, NEW name, NEW s, NEW h, NEW T1, NEW M1,
           Create2(T, M, name, s, h, T1, M1)
    PROVE  DiskOK' /\ Create3(T, M, name, s, h, T1, M1)'
<1>1. CreateOp(T, M, name, s, h, T1, M1) /\ Base(T, M) /\ Filled(T, {}) /\ TableStored(T) /\ MapStored(M)
    BY Zenon DEF Create2, CreateOp
<1>2. /\ writes = <<>> /\ todo # <<>> /\ Head(todo) = TableTask(T1) /\ Tail(todo) = <<MapTask(M1)>>
      /\ header[s] = h
    BY DEF Create2
<1>3. /\ SameDisk /\ mounted' = mounted /\ op' = op /\ DiskOK' /\ todo' = <<MapTask(M1)>>
      /\ Arriving(DirHdr, DirectoryCells(T1))'
    BY <1>2, SystemStart, Zenon
<1>4. Base(T, M)' /\ Filled(T, {})' /\ MapStored(M)' /\ header'[s] = h /\ files' = files
    BY <1>1, <1>2, <1>3, DiskFrame, Zenon DEF SameDisk
<1>5. CreateOp(T, M, name, s, h, T1, M1)'
    BY <1>1, <1>3, <1>4, CreateFrame, Zenon
<1>6. Mixed(DirHdr, DirectoryCells(T), DirectoryCells(T1))'
    BY <1>1, <1>3, MixedStart, Zenon DEF TableStored
<1> QED
    BY <1>3, <1>4, <1>5, <1>6, Zenon DEF Create3

(* ... and the bitmap.                                                     *)
LEMMA CreateMap ==
    ASSUME DiskOK, DiskStep, NEW T, NEW M, NEW name, NEW s, NEW h, NEW T1, NEW M1,
           Create3(T, M, name, s, h, T1, M1)
    PROVE  DiskOK' /\ Creating(T, M)'
<1>1. /\ CreateOp(T, M, name, s, h, T1, M1) /\ Base(T, M) /\ Filled(T, {}) /\ MapStored(M)
      /\ header[s] = h /\ s \in Sectors \ System /\ HeaderOK(DirHdr) /\ HeaderOK(MapHdr)
      /\ Arriving(DirHdr, DirectoryCells(T1)) /\ Mixed(DirHdr, DirectoryCells(T), DirectoryCells(T1))
      /\ todo = <<MapTask(M1)>>
    BY BaseSectors, Layout, Zenon DEF Create3, CreateOp
<1>2. CASE writes # <<>>
    <2>1. WriteSector
        BY <1>2, OnlyWriteSector, Zenon
    <2>2. PICK cells : cells = DirectoryCells(T1)
        BY Zenon
    <2>3. PICK old : old = DirectoryCells(T)
        BY Zenon
    <2>4. Arriving(DirHdr, cells)' /\ DiskOK' /\ Mixed(DirHdr, old, cells)'
        BY <1>1, <2>1, <2>2, <2>3, ArrivingStep, MixedStep, Zenon
    <2>5. Base(T, M)' /\ Filled(T, {})' /\ MapStored(M)' /\ header'[s] = header[s]
        BY <1>1, <2>1, SystemWrite, TwoFiles, Zenon
    <2>6. mounted' = mounted /\ todo' = todo /\ openFile' = openFile /\ op' = op /\ files' = files
        BY <2>1, SectorKeeps, Zenon
    <2>7. CreateOp(T, M, name, s, h, T1, M1)'
        BY <1>1, <2>5, <2>6, CreateFrame, Zenon
    <2>8. Arriving(DirHdr, DirectoryCells(T1))' /\ Mixed(DirHdr, DirectoryCells(T), DirectoryCells(T1))'
        BY <2>2, <2>3, <2>4
    <2>9. Create3(T, M, name, s, h, T1, M1)'
        BY <1>1, <2>5, <2>6, <2>7, <2>8, Zenon DEF Create3
    <2> QED
        BY <2>4, <2>9 DEF Creating
<1>3. CASE writes = <<>>
    <2>1. todo # <<>> /\ Head(todo) = MapTask(M1) /\ Tail(todo) = <<>>
        BY <1>1
    <2>2. /\ SameDisk /\ mounted' = mounted /\ op' = op /\ DiskOK' /\ todo' = <<>>
          /\ Arriving(MapHdr, BitMapCells(M1))'
        BY <1>3, <2>1, SystemStart, Zenon
    <2>3. TableStored(T1)
        BY <1>1, <1>3, ArrivingEnd, Zenon DEF TableStored
    <2>4. Base(T, M)' /\ Filled(T, {})' /\ TableStored(T1)' /\ header'[s] = h /\ files' = files
        BY <1>1, <2>2, <2>3, DiskFrame, Zenon DEF SameDisk
    <2>5. CreateOp(T, M, name, s, h, T1, M1)'
        BY <1>1, <2>2, <2>4, CreateFrame, Zenon
    <2>6. Mixed(MapHdr, BitMapCells(M), BitMapCells(M1))'
        BY <1>1, <2>2, MixedStart, Zenon DEF MapStored
    <2>7. Create4(T, M, name, s, h, T1, M1)'
        BY <2>2, <2>4, <2>5, <2>6, Zenon DEF Create4
    <2> QED
        BY <2>2, <2>7 DEF Creating
<1> QED
    BY <1>2, <1>3, Zenon

(* The last sectors of a Create.                                           *)
LEMMA CreateLast ==
    ASSUME DiskOK, DiskStep, NEW T, NEW M, NEW name, NEW s, NEW h, NEW T1, NEW M1,
           Create4(T, M, name, s, h, T1, M1)
    PROVE  DiskOK' /\ Create4(T, M, name, s, h, T1, M1)'
<1>1. /\ CreateOp(T, M, name, s, h, T1, M1) /\ Base(T, M) /\ Filled(T, {}) /\ TableStored(T1)
      /\ header[s] = h /\ s \in Sectors \ System /\ HeaderOK(DirHdr) /\ HeaderOK(MapHdr)
      /\ Arriving(MapHdr, BitMapCells(M1)) /\ Mixed(MapHdr, BitMapCells(M), BitMapCells(M1))
      /\ todo = <<>>
    BY BaseSectors, Layout, Zenon DEF Create4, CreateOp
<1>2. WriteSector
    BY <1>1, NoDiskStep, OnlyWriteSector, Zenon
<1>3. PICK cells : cells = BitMapCells(M1)
    BY Zenon
<1>4. PICK old : old = BitMapCells(M)
    BY Zenon
<1>5. Arriving(MapHdr, cells)' /\ DiskOK' /\ Mixed(MapHdr, old, cells)'
    BY <1>1, <1>2, <1>3, <1>4, ArrivingStep, MixedStep, Zenon
<1>6. Base(T, M)' /\ Filled(T, {})' /\ TableStored(T1)' /\ header'[s] = header[s]
    BY <1>1, <1>2, SystemWrite, TwoFiles, Zenon
<1>7. mounted' = mounted /\ todo' = todo /\ openFile' = openFile /\ op' = op /\ files' = files
    BY <1>2, SectorKeeps, Zenon
<1>8. CreateOp(T, M, name, s, h, T1, M1)'
    BY <1>1, <1>6, <1>7, CreateFrame, Zenon
<1>9. Arriving(MapHdr, BitMapCells(M1))' /\ Mixed(MapHdr, BitMapCells(M), BitMapCells(M1))'
    BY <1>3, <1>4, <1>5
<1> QED
    BY <1>1, <1>5, <1>6, <1>7, <1>8, <1>9, Zenon DEF Create4

(* All of Create.                                                          *)
LEMMA CreatingDisk ==
    ASSUME DiskOK, DiskStep, NEW T, NEW M, Creating(T, M)
    PROVE  DiskOK' /\ Creating(T, M)'
<1>1. PICK name, s, h, T1, M1 : \/ Create1(T, M, name, s, h, T1, M1)
                                \/ Create2(T, M, name, s, h, T1, M1)
                                \/ Create3(T, M, name, s, h, T1, M1)
                                \/ Create4(T, M, name, s, h, T1, M1)
    BY Zenon DEF Creating
<1>2. CASE Create3(T, M, name, s, h, T1, M1)
    BY <1>2, CreateMap, Zenon
<1>3. CASE ~Create3(T, M, name, s, h, T1, M1)
    <2>1. DiskOK' /\ (\/ Create2(T, M, name, s, h, T1, M1)'
                      \/ Create3(T, M, name, s, h, T1, M1)'
                      \/ Create4(T, M, name, s, h, T1, M1)')
        BY <1>1, <1>3, CreateHeader, CreateTable, CreateLast, Zenon
    <2> QED
        BY <2>1 DEF Creating
<1> QED
    BY <1>2, <1>3, Zenon

(* Remove writes the bitmap, ...                                           *)
LEMMA RemoveMap ==
    ASSUME DiskOK, DiskStep, NEW T, NEW M, NEW x, NEW T1, NEW M1, Remove1(T, M, x, T1, M1)
    PROVE  DiskOK' /\ Remove2(T, M, x, T1, M1)'
<1>1. RemoveOp(T, M, x, T1, M1) /\ Base(T, M) /\ Filled(T, {T[x].name}) /\ TableStored(T) /\ MapStored(M)
    BY Zenon DEF Remove1, RemoveOp
<1>2. writes = <<>> /\ todo # <<>> /\ Head(todo) = MapTask(M1) /\ Tail(todo) = <<TableTask(T1)>>
    BY DEF Remove1
<1>3. /\ SameDisk /\ mounted' = mounted /\ op' = op /\ DiskOK' /\ todo' = <<TableTask(T1)>>
      /\ Arriving(MapHdr, BitMapCells(M1))'
    BY <1>2, SystemStart, Zenon
<1>4. Base(T, M)' /\ Filled(T, {T[x].name})' /\ TableStored(T)' /\ files' = files
      /\ HeaderKept(HeaderSectors(T))
    BY <1>1, <1>3, DiskFrame, Zenon DEF SameDisk, HeaderKept
<1>5. RemoveOp(T, M, x, T1, M1)'
    BY <1>1, <1>3, <1>4, RemoveFrame, Zenon
<1>6. Mixed(MapHdr, BitMapCells(M), BitMapCells(M1))'
    BY <1>1, <1>3, MixedStart, Zenon DEF MapStored
<1> QED
    BY <1>3, <1>4, <1>5, <1>6, Zenon DEF Remove2

(* ... and the directory.                                                  *)
LEMMA RemoveTable ==
    ASSUME DiskOK, DiskStep, NEW T, NEW M, NEW x, NEW T1, NEW M1, Remove2(T, M, x, T1, M1)
    PROVE  DiskOK' /\ (Remove2(T, M, x, T1, M1)' \/ Remove3(T, M, x, T1, M1)')
<1>1. /\ RemoveOp(T, M, x, T1, M1) /\ Base(T, M) /\ Filled(T, {T[x].name}) /\ TableStored(T)
      /\ HeaderSectors(T) \subseteq Sectors \ System /\ HeaderOK(DirHdr) /\ HeaderOK(MapHdr)
      /\ Arriving(MapHdr, BitMapCells(M1)) /\ Mixed(MapHdr, BitMapCells(M), BitMapCells(M1))
      /\ todo = <<TableTask(T1)>>
    BY BaseSectors, Layout, Zenon DEF Remove2, RemoveOp
<1>2. CASE writes # <<>>
    <2>1. WriteSector
        BY <1>2, OnlyWriteSector, Zenon
    <2>2. PICK cells : cells = BitMapCells(M1)
        BY Zenon
    <2>3. PICK old : old = BitMapCells(M)
        BY Zenon
    <2>4. Arriving(MapHdr, cells)' /\ DiskOK' /\ Mixed(MapHdr, old, cells)'
        BY <1>1, <2>1, <2>2, <2>3, ArrivingStep, MixedStep, Zenon
    <2>5. /\ Base(T, M)' /\ Filled(T, {T[x].name})' /\ TableStored(T)'
          /\ \A s \in Sectors \ System : header'[s] = header[s]
        BY <1>1, <2>1, SystemWrite, TwoFiles, Zenon
    <2>6. HeaderKept(HeaderSectors(T))
        BY <1>1, <2>5, Zenon DEF HeaderKept
    <2>7. mounted' = mounted /\ todo' = todo /\ openFile' = openFile /\ op' = op /\ files' = files
        BY <2>1, SectorKeeps, Zenon
    <2>8. RemoveOp(T, M, x, T1, M1)'
        BY <1>1, <2>5, <2>6, <2>7, RemoveFrame, Zenon
    <2>9. Arriving(MapHdr, BitMapCells(M1))' /\ Mixed(MapHdr, BitMapCells(M), BitMapCells(M1))'
        BY <2>2, <2>3, <2>4
    <2>10. Remove2(T, M, x, T1, M1)'
        BY <1>1, <2>5, <2>7, <2>8, <2>9, Zenon DEF Remove2
    <2> QED
        BY <2>4, <2>10, Zenon
<1>3. CASE writes = <<>>
    <2>1. todo # <<>> /\ Head(todo) = TableTask(T1) /\ Tail(todo) = <<>>
        BY <1>1
    <2>2. /\ SameDisk /\ mounted' = mounted /\ op' = op /\ DiskOK' /\ todo' = <<>>
          /\ Arriving(DirHdr, DirectoryCells(T1))'
        BY <1>3, <2>1, SystemStart, Zenon
    <2>3. MapStored(M1)
        BY <1>1, <1>3, ArrivingEnd, Zenon DEF MapStored
    <2>4. Base(T, M)' /\ Filled(T, {T[x].name})' /\ MapStored(M1)' /\ files' = files
          /\ HeaderKept(HeaderSectors(T))
        BY <1>1, <2>2, <2>3, DiskFrame, Zenon DEF SameDisk, HeaderKept
    <2>5. RemoveOp(T, M, x, T1, M1)'
        BY <1>1, <2>2, <2>4, RemoveFrame, Zenon
    <2>6. Mixed(DirHdr, DirectoryCells(T), DirectoryCells(T1))'
        BY <1>1, <2>2, MixedStart, Zenon DEF TableStored
    <2>7. Remove3(T, M, x, T1, M1)'
        BY <2>2, <2>4, <2>5, <2>6, Zenon DEF Remove3
    <2> QED
        BY <2>2, <2>7, Zenon
<1> QED
    BY <1>2, <1>3, Zenon

(* The last sectors of a Remove.                                           *)
LEMMA RemoveLast ==
    ASSUME DiskOK, DiskStep, NEW T, NEW M, NEW x, NEW T1, NEW M1, Remove3(T, M, x, T1, M1)
    PROVE  DiskOK' /\ Remove3(T, M, x, T1, M1)'
<1>1. /\ RemoveOp(T, M, x, T1, M1) /\ Base(T, M) /\ Filled(T, {T[x].name}) /\ MapStored(M1)
      /\ HeaderSectors(T) \subseteq Sectors \ System /\ HeaderOK(DirHdr) /\ HeaderOK(MapHdr)
      /\ Arriving(DirHdr, DirectoryCells(T1)) /\ Mixed(DirHdr, DirectoryCells(T), DirectoryCells(T1))
      /\ todo = <<>>
    BY BaseSectors, Layout, Zenon DEF Remove3, RemoveOp
<1>2. WriteSector
    BY <1>1, NoDiskStep, OnlyWriteSector, Zenon
<1>3. PICK cells : cells = DirectoryCells(T1)
    BY Zenon
<1>4. PICK old : old = DirectoryCells(T)
    BY Zenon
<1>5. Arriving(DirHdr, cells)' /\ DiskOK' /\ Mixed(DirHdr, old, cells)'
    BY <1>1, <1>2, <1>3, <1>4, ArrivingStep, MixedStep, Zenon
<1>6. /\ Base(T, M)' /\ Filled(T, {T[x].name})' /\ MapStored(M1)'
      /\ \A s \in Sectors \ System : header'[s] = header[s]
    BY <1>1, <1>2, SystemWrite, TwoFiles, Zenon
<1>7. HeaderKept(HeaderSectors(T))
    BY <1>1, <1>6, Zenon DEF HeaderKept
<1>8. mounted' = mounted /\ todo' = todo /\ openFile' = openFile /\ op' = op /\ files' = files
    BY <1>2, SectorKeeps, Zenon
<1>9. RemoveOp(T, M, x, T1, M1)'
    BY <1>1, <1>6, <1>7, <1>8, RemoveFrame, Zenon
<1>10. Arriving(DirHdr, DirectoryCells(T1))' /\ Mixed(DirHdr, DirectoryCells(T), DirectoryCells(T1))'
    BY <1>3, <1>4, <1>5
<1> QED
    BY <1>1, <1>5, <1>6, <1>8, <1>9, <1>10, Zenon DEF Remove3

(* All of Remove.                                                          *)
LEMMA RemovingDisk ==
    ASSUME DiskOK, DiskStep, NEW T, NEW M, Removing(T, M)
    PROVE  DiskOK' /\ Removing(T, M)'
<1>1. PICK x, T1, M1 : \/ Remove1(T, M, x, T1, M1)
                       \/ Remove2(T, M, x, T1, M1)
                       \/ Remove3(T, M, x, T1, M1)
    BY Zenon DEF Removing
<1>2. DiskOK' /\ (Remove2(T, M, x, T1, M1)' \/ Remove3(T, M, x, T1, M1)')
    BY <1>1, RemoveMap, RemoveTable, RemoveLast, Zenon
<1> QED
    BY <1>2 DEF Removing

(* A step of the disk takes the operation on.                              *)
LEMMA DiskInv ==
    ASSUME FsInv, DiskStep
    PROVE  FsInv'
<1>1. DiskOK
    BY Zenon DEF FsInv
<1>2. CASE Blank \/ Formatting
    <2>1. DiskOK' /\ Formatting'
        BY <1>1, <1>2, FormatHeader, FormatOpen, FormatFiles, Zenon DEF Formatting
    <2> QED
        BY <2>1 DEF FsInv, Phase
<1>3. ASSUME NEW T, NEW M, Quiet(T, M) \/ Writing(T, M) \/ Creating(T, M) \/ Removing(T, M)
      PROVE  FsInv'
    <2>1. DiskOK' /\ (Quiet(T, M)' \/ Writing(T, M)' \/ Creating(T, M)' \/ Removing(T, M)')
        BY <1>1, <1>3, QuietDisk, WritingDisk, CreatingDisk, RemovingDisk, Zenon
    <2> QED
        BY <2>1 DEF FsInv, Phase
<1> QED
    BY <1>2, <1>3, Zenon DEF FsInv, Phase

-----------------------------------------------------------------------------
(* Between operations.                                                     *)

(* When its last sector is written, an operation is done.                  *)
LEMMA CreateDone ==
    ASSUME NEW T, NEW M, NEW name, NEW s, NEW h, NEW T1, NEW M1, Create4(T, M, name, s, h, T1, M1),
           writes = <<>>
    PROVE  Quiet(T1, M1)
<1>1. /\ CreateOp(T, M, name, s, h, T1, M1) /\ header[s] = h /\ TableStored(T1) /\ todo = <<>>
      /\ Arriving(MapHdr, BitMapCells(M1))
    BY Zenon DEF Create4
<1>2. /\ Base(T, M) /\ Filled(T, {}) /\ mounted = Mounted /\ name \in Names /\ name \notin NamesIn(T)
      /\ DOMAIN files = NamesIn(T) \cup {name} /\ FreeEntries(T) # {} /\ s \in Sectors \ M /\ s \in Sectors
      /\ HeaderOK(h) /\ SectorsOf(h) \cap (M \cup {s}) = {} /\ T1 = Add(T, name, s)
      /\ M1 = M \cup {s} \cup SectorsOf(h) /\ TableOK(T)
    BY <1>1, Zenon DEF CreateOp, Base
<1>3. Holds(h, files[name]) /\ name \in DOMAIN files
    BY <1>1, <1>2, Zenon DEF CreateOp, Holds
<1>4. Base(T1, M \cup {s} \cup SectorsOf(h)) /\ Filled(T1, {})
    BY <1>1, <1>2, <1>3, AddedBase, Zenon
<1>5. NamesIn(T1) = NamesIn(T) \cup {name}
    BY <1>2, AddedTable, Zenon DEF Adds
<1>6. MapStored(M1)
    BY <1>1, ArrivingEnd, Zenon DEF MapStored
<1> QED
    BY <1>1, <1>2, <1>4, <1>5, <1>6, Zenon DEF Quiet

(* The same for Remove.                                                    *)
LEMMA RemoveDone ==
    ASSUME NEW T, NEW M, NEW x, NEW T1, NEW M1, Remove3(T, M, x, T1, M1), writes = <<>>
    PROVE  Quiet(T1, M1)
<1>1. /\ RemoveOp(T, M, x, T1, M1) /\ MapStored(M1) /\ todo = <<>>
      /\ Arriving(DirHdr, DirectoryCells(T1))
    BY Zenon DEF Remove3
<1>2. /\ Base(T, M) /\ Filled(T, {T[x].name}) /\ mounted = Mounted /\ x \in Used(T)
      /\ T[x].name \notin DOMAIN files /\ NamesIn(T) = DOMAIN files \cup {T[x].name}
      /\ T1 = Removed(T, x) /\ M1 = M \ Own(T, x) /\ Opened(T)
    BY <1>1, Zenon DEF RemoveOp, Base
<1>3. NotOpen(T[x].name)
    BY <1>2, Zenon DEF Opened, NotOpen
<1>4. Base(T1, M \ Own(T, x)) /\ Removes(T, x, T1) /\ Filled(T1, {})
    BY <1>2, <1>3, RemovedBase, Zenon
<1>5. TableStored(T1)
    BY <1>1, ArrivingEnd, Zenon DEF TableStored
<1>6. NamesIn(T1) = DOMAIN files
    BY <1>2, <1>4, Zenon DEF Removes
<1> QED
    BY <1>1, <1>2, <1>4, <1>5, <1>6, Zenon DEF Quiet

(* The same for Write.                                                     *)
LEMMA WriteDone ==
    ASSUME NEW T, NEW M, NEW x, NEW h, NEW cells, Write2(T, M, x, h, cells), writes = <<>>
    PROVE  Quiet(T, M)
<1>1. /\ WriteOp(T, M, x) /\ h = HdrOf(T, x) /\ todo = <<>>
      /\ Arriving(h, cells) /\ Promised(h, cells, files[T[x].name])
    BY Zenon DEF Write2
<1>2. /\ Base(T, M) /\ TableStored(T) /\ MapStored(M) /\ mounted = Mounted /\ x \in Used(T)
      /\ DOMAIN files = NamesIn(T) /\ Filled(T, {T[x].name}) /\ TableOK(T)
    BY <1>1, Zenon DEF WriteOp, Base
<1>3. OnDisk(h, cells)
    BY <1>1, ArrivingEnd, Zenon
<1>4. Holds(h, files[T[x].name])
    BY <1>1, <1>3, Zenon DEF OnDisk, Promised, Holds
<1>5. T[x].name \in DOMAIN files
    BY <1>2, Zenon DEF NamesIn
<1>6. Filled(T, {})
    <2>1. ASSUME NEW e \in Used(T)
          PROVE  T[e].name \in DOMAIN files /\ Holds(HdrOf(T, e), files[T[e].name])
        <3>1. CASE e = x
            BY <1>1, <1>4, <1>5, <3>1, Zenon
        <3>2. CASE e # x
            <4>1. T[e].name # T[x].name
                BY <1>2, <3>2, Zenon DEF TableOK
            <4> QED
                BY <1>2, <4>1, Zenon DEF Filled
        <3> QED
            BY <3>1, <3>2, Zenon
    <2> QED
        BY <2>1, Zenon DEF Filled
<1> QED
    BY <1>1, <1>2, <1>6, Zenon DEF Quiet

(* And the same for Format.                                                *)
LEMMA FormatDone ==
    ASSUME Format6, writes = <<>>
    PROVE  Quiet(EmptyDirectory, System)
<1>1. TableStored(EmptyDirectory)
    BY ArrivingEnd, Zenon DEF Format6, TableStored
<1>2. Filled(EmptyDirectory, {})
    BY EmptyBase, Zenon DEF Filled
<1> QED
    BY <1>1, <1>2, EmptyBase, Zenon DEF Format6, Fresh, Quiet

(* Whenever a client is served, the disk has what the ghosts say.          *)
LEMMA IdlePhase ==
    ASSUME FsInv, Idle
    PROVE  /\ todo = <<>> /\ writes = <<>> /\ mounted = Mounted /\ DiskOK
           /\ \E T, M : Quiet(T, M)
<1>1. mounted # NULL /\ todo = <<>> /\ writes = <<>>
    BY Zenon DEF Idle, Busy
<1>2. ~Blank /\ ~Format1 /\ ~Format2 /\ ~Format3 /\ ~Format4 /\ ~Format5
    BY <1>1 DEF Blank, Format1, Format2, Format3, Format4, Format5
<1>3. Format6 => \E T, M : Quiet(T, M)
    BY <1>1, FormatDone, Zenon
<1>4. ASSUME NEW T, NEW M, Writing(T, M) PROVE \E U, N : Quiet(U, N)
    <2>1. \A x, h, from, n, at : ~Write1(T, M, x, h, from, n, at)
        BY <1>1 DEF Write1
    <2>2. PICK x, h, cells : Write2(T, M, x, h, cells)
        BY <1>4, <2>1, Zenon DEF Writing
    <2> QED
        BY <1>1, <2>2, WriteDone, Zenon
<1>5. ASSUME NEW T, NEW M, Creating(T, M) PROVE \E U, N : Quiet(U, N)
    <2>1. \A name, s, h, T1, M1 : /\ ~Create1(T, M, name, s, h, T1, M1)
                                  /\ ~Create2(T, M, name, s, h, T1, M1)
                                  /\ ~Create3(T, M, name, s, h, T1, M1)
        BY <1>1 DEF Create1, Create2, Create3
    <2>2. PICK name, s, h, T1, M1 : Create4(T, M, name, s, h, T1, M1)
        BY <1>5, <2>1, Zenon DEF Creating
    <2> QED
        BY <1>1, <2>2, CreateDone, Zenon
<1>6. ASSUME NEW T, NEW M, Removing(T, M) PROVE \E U, N : Quiet(U, N)
    <2>1. \A x, T1, M1 : ~Remove1(T, M, x, T1, M1) /\ ~Remove2(T, M, x, T1, M1)
        BY <1>1 DEF Remove1, Remove2
    <2>2. PICK x, T1, M1 : Remove3(T, M, x, T1, M1)
        BY <1>6, <2>1, Zenon DEF Removing
    <2> QED
        BY <1>1, <2>2, RemoveDone, Zenon
<1>7. \E T, M : Quiet(T, M)
    BY <1>2, <1>3, <1>4, <1>5, <1>6, Zenon DEF FsInv, Phase, Formatting
<1>8. mounted = Mounted
    BY <1>1, <1>7, Zenon DEF Quiet
<1> QED
    BY <1>1, <1>7, <1>8, Zenon DEF FsInv

(* What an operation finds on the disk.                                    *)
LEMMA QuietReads ==
    ASSUME NEW T, NEW M, Quiet(T, M), mounted = Mounted
    PROVE  /\ Table = T /\ FreeMap = M
           /\ TableOK(T) /\ M \in SUBSET Sectors
           /\ mounted.freeMap = MapHdr /\ mounted.directory = DirHdr
<1>1. Base(T, M) /\ TableStored(T) /\ MapStored(M)
    BY Zenon DEF Quiet
<1>2. TableOK(T) /\ T \in Tables /\ M \in SUBSET Sectors
    BY <1>1, BaseSectors, Zenon DEF Base, TableOK
<1>3. Table = T /\ FreeMap = M
    BY <1>1, <1>2, TableRead, MapRead, Zenon DEF TableStored, MapStored
<1>4. mounted.freeMap = MapHdr /\ mounted.directory = DirHdr
    BY DEF Mounted
<1> QED
    BY <1>2, <1>3, <1>4, Zenon

(* The open file, between operations.                                      *)
LEMMA OpenedFile ==
    ASSUME NEW T, NEW M, Quiet(T, M), openFile # NULL
    PROVE  \E x \in Used(T) :
              /\ openFile = [name |-> T[x].name, seek |-> openFile.seek, hdr |-> HdrOf(T, x)]
              /\ openFile.name = T[x].name /\ openFile.hdr = HdrOf(T, x) /\ openFile.seek \in Nat
              /\ T[x].name \in DOMAIN files /\ HeaderOK(HdrOf(T, x))
              /\ Holds(HdrOf(T, x), files[T[x].name])
<1>1. Base(T, M) /\ Filled(T, {})
    BY Zenon DEF Quiet
<1>2. PICK x \in Used(T) : openFile \in [name : {T[x].name}, seek : Nat, hdr : {HdrOf(T, x)}]
    BY <1>1, Zenon DEF Base, Opened
<1>3. /\ openFile = [name |-> T[x].name, seek |-> openFile.seek, hdr |-> HdrOf(T, x)]
      /\ openFile.name = T[x].name /\ openFile.hdr = HdrOf(T, x) /\ openFile.seek \in Nat
    BY <1>2
<1>4. T[x].name \in DOMAIN files /\ Holds(HdrOf(T, x), files[T[x].name])
    BY <1>1, Zenon DEF Filled
<1>5. HeaderOK(HdrOf(T, x))
    BY <1>1, BaseSectors, Zenon
<1> QED
    BY <1>3, <1>4, <1>5, Zenon

(* Operations that only open or close a file or move seekPosition.         *)
LEMMA OpenFrame ==
    ASSUME FsInv, NEW T, NEW M, Quiet(T, M), UNCHANGED <<header, data, writes, files>>,
           \/ todo' = todo /\ mounted' = mounted
           \/ todo' = <<OpenFiles>> /\ mounted' = NULL,
           \/ openFile' = NULL
           \/ \E x \in Used(T), n \in Nat :
                 openFile' = [name |-> T[x].name, seek |-> n, hdr |-> HdrOf(T, x)]
    PROVE  FsInv'
<1>1. Base(T, M) /\ TableStored(T) /\ MapStored(M) /\ Filled(T, {}) /\ DOMAIN files = NamesIn(T)
      /\ writes = <<>>
    BY Zenon DEF Quiet
<1>2. TableStored(T)' /\ MapStored(M)' /\ Filled(T, {})'
    BY <1>1, ZenonT(40) DEF TableStored, MapStored, OnDisk, Filled, Holds, HdrOf, Cell
<1>3. Opened(T)'
    <2>1. CASE openFile' = NULL
        BY <2>1 DEF Opened
    <2>2. ASSUME NEW x \in Used(T), NEW n \in Nat,
                 openFile' = [name |-> T[x].name, seek |-> n, hdr |-> HdrOf(T, x)]
          PROVE  Opened(T)'
        <3>1. HdrOf(T, x)' = HdrOf(T, x) /\ DOMAIN files' = DOMAIN files
            BY DEF HdrOf
        <3>2. T[x].name \in DOMAIN files
            BY <1>1, Zenon DEF Filled
        <3>3. openFile'.name = T[x].name
            BY <2>2
        <3>4. openFile' \in [name : {T[x].name}, seek : Nat, hdr : {HdrOf(T, x)}]
            BY <2>2
        <3>5. \E e \in Used(T) : openFile' \in [name : {T[e].name}, seek : Nat, hdr : {HdrOf(T, e)'}]
            BY <3>1, <3>4, Zenon
        <3> QED
            BY <3>1, <3>2, <3>3, <3>5 DEF Opened
    <2> QED
        BY <2>1, <2>2, Zenon
<1>4. header'[FreeMapSector] = MapHdr /\ header'[DirectorySector] = DirHdr
    BY <1>1, Zenon DEF Base
<1>5. HeaderKept(HeaderSectors(T))
    BY Zenon DEF HeaderKept
<1>6. Apart(T)' /\ MapOf(T)' = MapOf(T)
    BY <1>1, <1>5, ApartFrame, Zenon DEF Base
<1>7. Base(T, M)'
    BY <1>1, <1>3, <1>4, <1>6 DEF Base
<1>8. Quiet(T, M)'
    BY <1>1, <1>2, <1>7, Zenon DEF Quiet
<1>9. DiskOK'
    BY Zenon DEF FsInv, DiskOK
<1> QED
    BY <1>8, <1>9 DEF FsInv, Phase
=============================================================================
