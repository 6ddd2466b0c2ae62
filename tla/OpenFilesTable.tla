--------------------------- MODULE OpenFilesTable ---------------------------
(***************************************************************************)
(* openFilesTable (userprog/openFilesTable.cc) and the BitMap it is built  *)
(* on (userprog/bitmap.cc), as operators on table values.  The same class  *)
(* serves as a thread's table of open files, as its table of semaphores    *)
(* and as the global table of threads.                                     *)
(***************************************************************************)
EXTENDS Integers, FiniteSets, FiniteSetsExt

CONSTANTS
    NULL,
    SIZE_OF_TABLE       \* 128 in the code

ASSUME TableAssumption == SIZE_OF_TABLE \in Nat

Positions == 0..(SIZE_OF_TABLE - 1)

(* A table: openFiles, the positions marked in openFilesMap, and the       *)
(* positions where openedByCurrentThread is true.                          *)
Tables(Values) ==
    [openFiles : [Positions -> Values \cup {NULL}],
     map : SUBSET Positions,
     openedByCurrentThread : SUBSET Positions]

(* A new table, with the given positions marked.  The arrays are not       *)
(* initialised; what they hold is read only where the map is marked.       *)
NewTable(reserved) ==
    [openFiles |-> [p \in Positions |-> NULL],
     map |-> reserved,
     openedByCurrentThread |-> {}]

(* BitMap::Find on the bits 0..n-1: the first clear one, or -1.            *)
Find(map, n) ==
    IF (0..(n - 1)) \subseteq map THEN -1 ELSE Min((0..(n - 1)) \ map)

(* Bound: the tables do not fill up (Open does not test for Find's -1).    *)
HasRoom(table) == Find(table.map, SIZE_OF_TABLE) # -1

(* The position that Open returns, and the table that it leaves.           *)
NextFreePos(table) == Find(table.map, SIZE_OF_TABLE)

Open(table, value) ==
    LET pos == NextFreePos(table) IN
    [openFiles |-> [table.openFiles EXCEPT ![pos] = value],
     map |-> table.map \cup {pos},
     openedByCurrentThread |-> table.openedByCurrentThread \cup {pos}]

(* Close clears the map and cleans nothing else.                           *)
Close(table, positions) == [table EXCEPT !.map = @ \ positions]

isOpen(table, pos) == pos \in table.map

getUnixFileID(table, pos) == table.openFiles[pos]

storeSemAdress(table, pos, semaphore) == [table EXCEPT !.openFiles[pos] = semaphore]

(* copyTable followed by initializeBoolTable, into a new table.            *)
copyTable(new, other) ==
    [openFiles |-> other.openFiles,
     map |-> new.map \cup other.map,
     openedByCurrentThread |-> {}]
=============================================================================
