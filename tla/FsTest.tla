------------------------------- MODULE FsTest -------------------------------
(***************************************************************************)
(* The test routines of filesys/fstest.cc as clients of the file system,   *)
(* called by the loop over the arguments in threads/main.cc: Copy (-cp),   *)
(* Print (-p), Remove (-r) and PerformanceTest (-t).  A behaviour has      *)
(* either these commands or FileSystem's client, who makes any calls.      *)
(***************************************************************************)
EXTENDS FileSystem

CONSTANTS
    TransferSize,       \* cells that Copy and Print move at a time
    UnixFiles,          \* what can be copied: sequences of values
    FileName,           \* "TestFile"
    Contents,           \* what PerformanceTest writes at a time
    Chunks              \* FileSize / ContentSize

ASSUME FsTestAssumption ==
    /\ TransferSize \in Nat \ {0}
    /\ FileName \in Names
    /\ UnixFiles \subseteq Seq(Values) /\ Contents \in Seq(Values)
    /\ Chunks \in Nat \ {0}

VARIABLE
    command             \* where main is, its file, and what is copied or was printed

fsVars == <<vars, command>>

AnyCalls == [pc |-> "any calls", file |-> NULL, from |-> <<>>, rest |-> <<>>, i |-> 0]
NextArgument == [AnyCalls EXCEPT !.pc = "main"]

FsInit == Init /\ command \in {AnyCalls, NextArgument}

At(pc) == Idle /\ command.pc = pc
Goto(pc) == command' = [command EXCEPT !.pc = pc, !.i = 0]

(* The file's part that a call of Read or Write is about.                  *)
Amount(numBytes) == Transferred(openFile.hdr, numBytes, openFile.seek)
Cells(numBytes) ==
    LET cells == ReadAt(openFile.hdr, numBytes, openFile.seek)
    IN  [i \in 1..Amount(numBytes) |-> cells[i - 1]]
Buffer(seq) == [i \in 0..(Len(seq) - 1) |-> seq[i + 1]]

-----------------------------------------------------------------------------
(* Copy.  If Create fails it returns at once.                              *)

CallCopy(from, to) ==
    /\ At("main")
    /\ Create(to, Len(from))
    /\ command' = [pc |-> "Copy.Open", file |-> to, from |-> from, rest |-> from, i |-> 0]

CopyOpen == At("Copy.Open") /\ Open(command.file) /\ Goto("Copy.Write")

(* One turn of the loop.                                                   *)
CopyChunk ==
    LET amountRead == IF Len(command.rest) < TransferSize THEN Len(command.rest) ELSE TransferSize
    IN  /\ At("Copy.Write")
        /\ amountRead > 0
        /\ Write(Buffer(SubSeq(command.rest, 1, amountRead)), amountRead)
        /\ command' = [command EXCEPT !.rest = SubSeq(@, amountRead + 1, Len(@))]

CopyClose == At("Copy.Write") /\ command.rest = <<>> /\ Close /\ command' = NextArgument

-----------------------------------------------------------------------------
(* Print, which does nothing for a file that is not there.                 *)

CallPrint(name) ==
    /\ At("main")
    /\ Open(name)
    /\ command' = [NextArgument EXCEPT !.pc = "Print", !.file = name]

PrintChunk ==
    /\ At("Print")
    /\ Amount(TransferSize) > 0
    /\ Read(TransferSize)
    /\ command' = [command EXCEPT !.rest = @ \o Cells(TransferSize)]

PrintClose == At("Print") /\ Amount(TransferSize) = 0 /\ Close /\ command' = NextArgument

CallRemove(name) == At("main") /\ Remove(name) /\ UNCHANGED command

-----------------------------------------------------------------------------
(* PerformanceTest: FileWrite, FileRead and Remove, each of which gives up *)
(* at its first failure.                                                   *)

PerformanceTest ==
    /\ At("main")
    /\ \/ Create(FileName, 0) /\ Goto("FileWrite.Open")
       \/ ~CanCreate(FileName, 0) /\ Goto("FileRead.Open") /\ UNCHANGED vars

FileWriteOpen == At("FileWrite.Open") /\ Open(FileName) /\ Goto("FileWrite")

FileWrite ==
    /\ At("FileWrite")
    /\ Write(Buffer(Contents), Len(Contents))
    /\ IF Amount(Len(Contents)) < Len(Contents) \/ command.i + 1 = Chunks
       THEN Goto("FileWrite.Close")
       ELSE command' = [command EXCEPT !.i = @ + 1]

FileWriteClose == At("FileWrite.Close") /\ Close /\ Goto("FileRead.Open")

FileReadOpen ==
    /\ At("FileRead.Open")
    /\ \/ Open(FileName) /\ Goto("FileRead")
       \/ WithName(Table, FileName) = {} /\ Goto("Remove") /\ UNCHANGED vars

FileRead ==
    /\ At("FileRead")
    /\ Read(Len(Contents))
    /\ IF Cells(Len(Contents)) # Contents \/ command.i + 1 = Chunks
       THEN Goto("FileRead.Close")
       ELSE command' = [command EXCEPT !.i = @ + 1]

FileReadClose == At("FileRead.Close") /\ Close /\ Goto("Remove")

RemoveTestFile ==
    /\ At("Remove")
    /\ Goto("main")
    /\ \/ Remove(FileName)
       \/ WithName(Table, FileName) = {} /\ UNCHANGED vars

-----------------------------------------------------------------------------
(* Nachos is started again once its arguments are used up.                 *)
MainStep ==
    \/ At("main") /\ Reboot /\ UNCHANGED command
    \/ \E name \in Names :
          \/ \E from \in UnixFiles : CallCopy(from, name)
          \/ CallPrint(name)
          \/ CallRemove(name)
    \/ CopyOpen \/ CopyChunk \/ CopyClose
    \/ PrintChunk \/ PrintClose
    \/ PerformanceTest
    \/ FileWriteOpen \/ FileWrite \/ FileWriteClose
    \/ FileReadOpen \/ FileRead \/ FileReadClose
    \/ RemoveTestFile

FsNext ==
    \/ DiskStep /\ UNCHANGED command
    \/ command = AnyCalls /\ ClientStep /\ UNCHANGED command
    \/ MainStep

FsSpec == FsInit /\ [][FsNext]_fsVars

-----------------------------------------------------------------------------
(* Properties.                                                             *)

(* What Copy has written so far is the beginning of the UNIX file, in a    *)
(* file of its length, and what Print has shown is the beginning of the    *)
(* file: neither skips, repeats or cuts off a chunk at a sector's edge or  *)
(* at the end, where a write beyond the file's fixed size would be lost.   *)
TransfersExact ==
    /\ command.pc = "Copy.Write" =>
          LET copied == Len(command.from) - Len(command.rest)
          IN  /\ DOMAIN files[command.file] = 0..(Len(command.from) - 1)
              /\ openFile.seek = copied
              /\ \A i \in 1..copied : files[command.file][i - 1] = command.from[i]
    /\ command.pc = "Print" =>
          /\ Len(command.rest) = openFile.seek
          /\ \A i \in DOMAIN command.rest :
                files[command.file][i - 1] \in {"any", command.rest[i]}

(* Between operations the file system and its clients agree: FilesKept for *)
(* every client, and TransfersExact for Copy and Print.                    *)
ClientsServed == FilesKept /\ TransfersExact
=============================================================================
