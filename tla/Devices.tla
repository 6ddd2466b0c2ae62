------------------------------- MODULE Devices -------------------------------
(***************************************************************************)
(* The simulated hardware and the threads that wait for it: the list of    *)
(* pending interrupts and the clock (machine/interrupt.cc), the timer, the *)
(* console with its echo test, and the disk under SynchDisk.               *)
(*                                                                         *)
(* Time passes when interrupts are turned on (at the end of P, V and       *)
(* Yield), and when the machine idles.  A step is a piece of a thread's    *)
(* code up to there, or one call of CheckIfDue.  The code only ever        *)
(* compares times, so `pending' says in how many ticks an interrupt is     *)
(* due, and of the total time only its place in a turn of the disk is kept.*)
(***************************************************************************)
EXTENDS Integers, Sequences, FiniteSetsExt

CONSTANTS
    Clients,            \* threads that read and write sectors through SynchDisk
    Echo,               \* the thread that runs ConsoleTest
    Chars,              \* what can be typed, other than "q" and the EOF character
    MaxTyped,           \* bound: how much is typed ahead of the console
    Workloads,          \* bound: the threads and the devices of a behaviour
    SystemTick, TimerTicks, ConsoleTime, RotationTime, SeekTime,
    SectorsPerTrack, NumTracks

ASSUME DevicesAssumption ==
    /\ {SystemTick, TimerTicks, ConsoleTime, RotationTime, SeekTime, SectorsPerTrack, NumTracks}
          \subseteq Nat \ {0}
    /\ Echo \notin Clients /\ "EOF" \notin Chars
    /\ Workloads \subseteq [clients : Seq(Clients), console : BOOLEAN, timer : BOOLEAN]

VARIABLES
    workload,
    cpu,                \* what the host process is doing, see CpuState
    currentThread, readyList,
    inYield,            \* the ready threads inside Yield, or not started yet
    pc, wants,          \* of each thread, and the sector a client asks for
    value, queue,       \* of each semaphore
    pending,            \* the scheduled interrupts, in the order of the list
    yieldOnReturn,
    active, lastSector, \* Disk
    spin, bufferAge,    \* totalTicks, modulo a turn; totalTicks - bufferInit, up to a turn
    incoming, putBusy,  \* Console
    typed, owed         \* what was typed and not read yet; ghost: typed and not owed yet

diskVars == <<active, lastSector, spin, bufferAge>>
consoleVars == <<incoming, putBusy, typed, owed>>
schedVars == <<currentThread, readyList, inYield>>
semVars == <<value, queue>>
vars == <<workload, cpu, schedVars, pc, wants, semVars, pending, yieldOnReturn, diskVars,
          consoleVars>>

(* "IntOn": running currentThread's code; "OneTick": in the loop there;    *)
(* "Sleep": in the loop of Thread::Sleep; "Idle": in the loop of Idle.     *)
CpuState == {"IntOn", "OneTick", "Sleep", "Idle", "Halted"}

Sectors == 0..(SectorsPerTrack * NumTracks - 1)
Turn == SectorsPerTrack * RotationTime
Semaphores == {"lock", "disk", "readAvail", "writeDone"}

-----------------------------------------------------------------------------
(* Fault: only the first item is looked at.                                *)
InsertFirstOrLast(list, item) ==
    IF list # <<>> /\ item.in < list[1].in THEN <<item>> \o list ELSE Append(list, item)

(* List::SortedInsert, behind the items with the same key.                 *)
SortedInsert(list, item) ==
    LET later == {i \in DOMAIN list : item.in < list[i].in}
        InsertAt(k) == SubSeq(list, 1, k - 1) \o <<item>> \o SubSeq(list, k, Len(list))
    IN  IF later = {} THEN Append(list, item) ELSE InsertAt(Min(later))

PendingInterrupt(type, fromNow) == [type |-> type, in |-> fromNow]

(* Interrupt::Schedule.                                                    *)
Schedule(list, type, fromNow) == SortedInsert(list, PendingInterrupt(type, fromNow))

(* Timer::TimeOfNextInterrupt.                                             *)
TimeOfNextInterrupt == 1..(2 * TimerTicks)

(* Disk::Disk.                                                             *)
DiskInit == active = FALSE /\ lastSector = 0 /\ bufferAge = 0

(* Console::Console, which schedules the first poll if there is a console. *)
ConsoleInit(list) ==
    /\ incoming = "EOF" /\ putBusy = FALSE
    /\ list = IF workload.console THEN Schedule(<<>>, "ConsoleRead", ConsoleTime) ELSE <<>>

(* Timer::Timer, which schedules the first interrupt if there is a timer.  *)
TimerInit(list) ==
    IF workload.timer
    THEN \E t \in TimeOfNextInterrupt : pending = Schedule(list, "Timer", t)
    ELSE pending = list

(* Initialize, and the clients' and ConsoleTest's threads.                 *)
Init ==
    /\ workload \in Workloads
    /\ cpu = "IntOn"
    /\ LET threads == workload.clients \o IF workload.console THEN <<Echo>> ELSE <<>>
       IN  /\ currentThread = Head(threads) /\ readyList = Tail(threads)
           /\ inYield = Range(Tail(threads))
    /\ pc = [t \in Clients \cup {Echo} |-> IF t = Echo THEN "readAvail->P" ELSE "code"]
    /\ wants = [t \in Clients |-> [sector |-> 0, writing |-> FALSE]]
    /\ value = [s \in Semaphores |-> IF s = "lock" THEN 1 ELSE 0]
    /\ queue = [s \in Semaphores |-> <<>>]
    /\ \E list \in {<<>>, Schedule(<<>>, "ConsoleRead", ConsoleTime)} :
          ConsoleInit(list) /\ TimerInit(list)
    /\ yieldOnReturn = FALSE
    /\ DiskInit /\ spin = 0
    /\ typed = <<>> /\ owed = <<>>

(* The clock goes forward.                                                 *)
Advance(ticks, list) ==
    /\ pending' = [i \in DOMAIN list |-> [list[i] EXCEPT !.in = @ - ticks]]
    /\ spin' = (spin + ticks) % Turn
    /\ bufferAge' = Min({bufferAge + ticks, Turn})

(* OneTick's beginning, in kernel code.                                    *)
OneTick ==
    /\ cpu' = "OneTick"
    /\ Advance(SystemTick, pending)

(* SetLevel(IntOn) where interrupts were off: at the end of P, V and       *)
(* Yield, and where ThreadRoot starts a thread.                            *)
SetLevelOn == OneTick

-----------------------------------------------------------------------------
(* Semaphore::P and V (NachosKernel has them in detail).                   *)

P(t, s, next) ==
    /\ \/ /\ value[s] > 0
          /\ value' = [value EXCEPT ![s] = @ - 1]
          /\ pc' = [pc EXCEPT ![t] = next]
          /\ SetLevelOn
          /\ UNCHANGED queue
       \/ /\ value[s] = 0
          /\ queue' = [queue EXCEPT ![s] = Append(@, t)]
          /\ cpu' = "Sleep"
          /\ UNCHANGED <<value, pc, pending, spin, bufferAge>>
    /\ UNCHANGED <<schedVars, yieldOnReturn, active, lastSector>>

(* Fault: the thread that waits is not made ready.                         *)
VWakesNobody(s) ==
    /\ value' = [value EXCEPT ![s] = @ + 1]
    /\ UNCHANGED <<queue, readyList>>

V(s) ==
    /\ value' = [value EXCEPT ![s] = @ + 1]
    /\ IF queue[s] = <<>>
       THEN UNCHANGED <<queue, readyList>>
       ELSE /\ queue' = [queue EXCEPT ![s] = Tail(@)]
            /\ readyList' = Append(readyList, Head(queue[s]))

-----------------------------------------------------------------------------
(* The disk.                                                               *)

Abs(n) == IF n < 0 THEN -n ELSE n

(* Disk::TimeToSeek: the seek itself, and the rest of a sector after it.   *)
Seek(newSector) ==
    Abs((newSector \div SectorsPerTrack) - (lastSector \div SectorsPerTrack)) * SeekTime

Rotation(newSector) ==
    LET over == (spin + Seek(newSector)) % RotationTime
    IN  IF over > 0 THEN RotationTime - over ELSE 0

(* Disk::ModuloDiff.                                                       *)
ModuloDiff(to, from) ==
    (((to % SectorsPerTrack) - (from % SectorsPerTrack)) + SectorsPerTrack) % SectorsPerTrack

(* Fault: a sector that is passing is taken for one that has passed.       *)
InTrackBufferEarly(newSector) ==
    LET rotation == Rotation(newSector)
        bufferInit == (spin + Turn - bufferAge) % Turn
    IN  /\ Seek(newSector) = 0
        /\ (bufferAge + rotation) \div RotationTime
              >= ModuloDiff(newSector, bufferInit \div RotationTime)

(* The part of ComputeLatency for the track buffer.  What is a full turn   *)
(* old has seen every sector.                                              *)
InTrackBuffer(newSector) ==
    LET rotation == Rotation(newSector)
        bufferInit == (spin + Turn - bufferAge) % Turn
    IN  /\ Seek(newSector) = 0
        /\ \/ (bufferAge + rotation) \div RotationTime
                  > ModuloDiff(newSector, bufferInit \div RotationTime)
           \/ bufferAge = Turn

(* Disk::ComputeLatency.                                                   *)
ComputeLatency(newSector, writing) ==
    LET timeAfter == spin + Seek(newSector) + Rotation(newSector)
    IN  IF ~writing /\ InTrackBuffer(newSector)
        THEN RotationTime
        ELSE Seek(newSector) + Rotation(newSector)
                + ModuloDiff(newSector, timeAfter \div RotationTime) * RotationTime + RotationTime

(* Disk::UpdateLast.                                                       *)
UpdateLast(newSector) ==
    /\ lastSector' = newSector
    /\ bufferAge' = IF Seek(newSector) = 0 THEN bufferAge
                    ELSE -(Seek(newSector) + Rotation(newSector))

-----------------------------------------------------------------------------
(* Threads.                                                                *)

At(t, label) == cpu = "IntOn" /\ currentThread = t /\ pc[t] = label

(* A client calls ReadSector or WriteSector.                               *)
CallSynchDisk(t) ==
    /\ At(t, "code")
    /\ \E sector \in Sectors, writing \in BOOLEAN :
          wants' = [wants EXCEPT ![t] = [sector |-> sector, writing |-> writing]]
    /\ pc' = [pc EXCEPT ![t] = "lock->Acquire"]
    /\ UNCHANGED <<workload, cpu, schedVars, semVars, pending, yieldOnReturn, diskVars,
                   consoleVars>>

(* Fault: nobody is kept out.                                              *)
AcquireNothing(t) ==
    /\ At(t, "lock->Acquire")
    /\ pc' = [pc EXCEPT ![t] = "request"]
    /\ SetLevelOn
    /\ UNCHANGED <<workload, schedVars, wants, semVars, yieldOnReturn, active, lastSector,
                   consoleVars>>

Acquire(t) ==
    /\ At(t, "lock->Acquire")
    /\ P(t, "lock", "request")
    /\ UNCHANGED <<workload, wants, consoleVars>>

(* Disk::ReadRequest and WriteRequest.                                     *)
Request(t) ==
    /\ At(t, "request")
    /\ pending' = Schedule(pending, "Disk", ComputeLatency(wants[t].sector, wants[t].writing))
    /\ active' = TRUE
    /\ UpdateLast(wants[t].sector)
    /\ pc' = [pc EXCEPT ![t] = "semaphore->P"]
    /\ UNCHANGED <<workload, cpu, schedVars, wants, semVars, yieldOnReturn, spin, consoleVars>>

WaitForDisk(t) ==
    /\ At(t, "semaphore->P")
    /\ P(t, "disk", "lock->Release")
    /\ UNCHANGED <<workload, wants, consoleVars>>

Release(t) ==
    /\ At(t, "lock->Release")
    /\ V("lock")
    /\ SetLevelOn
    /\ pc' = [pc EXCEPT ![t] = "code"]
    /\ UNCHANGED <<workload, currentThread, inYield, wants, yieldOnReturn, active, lastSector,
                   consoleVars>>

(* The end of a client: Thread::Finish.                                    *)
Finish(t) ==
    /\ At(t, "code")
    /\ pc' = [pc EXCEPT ![t] = "finished"]
    /\ cpu' = "Sleep"
    /\ UNCHANGED <<workload, schedVars, wants, semVars, pending, yieldOnReturn, diskVars,
                   consoleVars>>

(* ConsoleTest: wait for a character, echo it, wait for the echo, and at a *)
(* "q" return to main, which halts the machine.                            *)
WaitForChar ==
    /\ At(Echo, "readAvail->P")
    /\ P(Echo, "readAvail", "GetChar")
    /\ UNCHANGED <<workload, wants, consoleVars>>

GetAndPutChar ==
    /\ At(Echo, "GetChar")
    /\ incoming' = "EOF"
    /\ owed' = IF owed # <<>> /\ Head(owed) = incoming THEN Tail(owed) ELSE <<"wrong">>
    /\ putBusy' = TRUE
    /\ pending' = Schedule(pending, "ConsoleWrite", ConsoleTime)
    /\ pc' = [pc EXCEPT ![Echo] = IF incoming = "q" THEN "last writeDone->P" ELSE "writeDone->P"]
    /\ UNCHANGED <<workload, cpu, schedVars, wants, semVars, yieldOnReturn, diskVars, typed>>

WaitForWrite ==
    /\ \/ At(Echo, "writeDone->P") /\ P(Echo, "writeDone", "readAvail->P")
       \/ At(Echo, "last writeDone->P") /\ P(Echo, "writeDone", "Halt")
    /\ UNCHANGED <<workload, wants, consoleVars>>

HaltAfterTest ==
    /\ At(Echo, "Halt")
    /\ cpu' = "Halted"
    /\ UNCHANGED <<workload, schedVars, pc, wants, semVars, pending, yieldOnReturn, diskVars,
                   consoleVars>>

(* Somebody types, ahead of the echo.                                      *)
Type ==
    /\ workload.console /\ cpu # "Halted"
    /\ Len(owed) < MaxTyped
    /\ \E c \in Chars \cup {"q"} : typed' = Append(typed, c) /\ owed' = Append(owed, c)
    /\ UNCHANGED <<workload, cpu, schedVars, pc, wants, semVars, pending, yieldOnReturn,
                   diskVars, incoming, putBusy>>

-----------------------------------------------------------------------------
(* Interrupt handlers.                                                     *)

(* Disk::HandleInterrupt and SynchDisk::RequestDone.                       *)
DiskHandler(rest) ==
    /\ active' = FALSE
    /\ V("disk")
    /\ pending' = rest
    /\ UNCHANGED <<yieldOnReturn, consoleVars>>

YieldOnReturn == yieldOnReturn' = TRUE

(* TimerInterruptHandler never finds the machine in IdleMode: CheckIfDue   *)
(* has just changed the status.                                            *)
TimerInterruptHandler == YieldOnReturn

(* Timer::TimerExpired.                                                    *)
TimerHandler(rest) ==
    /\ \E t \in TimeOfNextInterrupt : pending' = Schedule(rest, "Timer", t)
    /\ TimerInterruptHandler
    /\ UNCHANGED <<semVars, readyList, active, consoleVars>>

(* PollFile: is there something to read?                                   *)
PollFile == typed # <<>>

(* Fault: the poll reads over a character that nobody has taken.           *)
CheckCharAvailOverwrites(rest) ==
    /\ pending' = Schedule(rest, "ConsoleRead", ConsoleTime)
    /\ IF ~PollFile
       THEN UNCHANGED <<incoming, typed, semVars, readyList>>
       ELSE /\ incoming' = Head(typed)
            /\ typed' = Tail(typed)
            /\ V("readAvail")
    /\ UNCHANGED <<yieldOnReturn, active, putBusy, owed>>

(* Console::CheckCharAvail.                                                *)
CheckCharAvail(rest) ==
    /\ pending' = Schedule(rest, "ConsoleRead", ConsoleTime)
    /\ IF incoming # "EOF" \/ ~PollFile
       THEN UNCHANGED <<incoming, typed, semVars, readyList>>
       ELSE /\ incoming' = Head(typed)
            /\ typed' = Tail(typed)
            /\ V("readAvail")
    /\ UNCHANGED <<yieldOnReturn, active, putBusy, owed>>

(* Console::WriteDone.                                                     *)
WriteDone(rest) ==
    /\ putBusy' = FALSE
    /\ V("writeDone")
    /\ pending' = rest
    /\ UNCHANGED <<yieldOnReturn, active, incoming, typed, owed>>

Handler(type, rest) ==
    \/ type = "Disk" /\ DiskHandler(rest)
    \/ type = "Timer" /\ TimerHandler(rest)
    \/ type = "ConsoleRead" /\ CheckCharAvail(rest)
    \/ type = "ConsoleWrite" /\ WriteDone(rest)

-----------------------------------------------------------------------------
(* Interrupt::CheckIfDue, in the loops of OneTick and Idle.                *)

Due == pending # <<>> /\ Head(pending).in <= 0

(* When the machine is idle a timer alone is no reason to go on.           *)
OnlyTimer == Len(pending) = 1 /\ Head(pending).type = "Timer"

(* What is not due is removed and inserted again.                          *)
PutBack == IF pending = <<>> THEN <<>> ELSE SortedInsert(Tail(pending), Head(pending))

(* An interrupt is due.                                                    *)
Interrupted ==
    /\ \/ cpu = "OneTick" /\ Due
       \/ cpu = "Idle" /\ Due /\ ~OnlyTimer
    /\ Handler(Head(pending).type, Tail(pending))
    /\ UNCHANGED <<workload, cpu, currentThread, inYield, pc, wants, lastSector, spin, bufferAge>>

(* OneTick ends.                                                           *)
ReturnFromOneTick ==
    /\ cpu = "OneTick" /\ ~Due /\ ~yieldOnReturn
    /\ pending' = PutBack
    /\ cpu' = "IntOn"
    /\ UNCHANGED <<workload, schedVars, pc, wants, semVars, yieldOnReturn, diskVars, consoleVars>>

(* After a timer interrupt OneTick ends with Thread::Yield, whose end is a *)
(* tick again; the thread that runs next may be inside P.                  *)
YieldAfterTimer ==
    /\ cpu = "OneTick" /\ ~Due /\ yieldOnReturn
    /\ yieldOnReturn' = FALSE
    /\ IF readyList = <<>>
       THEN SetLevelOn /\ UNCHANGED schedVars
       ELSE /\ currentThread' = Head(readyList)
            /\ readyList' = Append(Tail(readyList), currentThread)
            /\ inYield' = (inYield \cup {currentThread}) \ {Head(readyList)}
            /\ IF Head(readyList) \in inYield
               THEN cpu' = "OneTick" /\ Advance(SystemTick, PutBack)
               ELSE cpu' = "IntOn" /\ pending' = PutBack /\ UNCHANGED <<spin, bufferAge>>
    /\ UNCHANGED <<workload, pc, wants, semVars, active, lastSector, consoleVars>>

(* Thread::Sleep finds a thread to run.                                    *)
SleepDispatch ==
    /\ cpu = "Sleep"
    /\ readyList # <<>>
    /\ currentThread' = Head(readyList)
    /\ readyList' = Tail(readyList)
    /\ inYield' = inYield \ {Head(readyList)}
    /\ IF Head(readyList) \in inYield
       THEN SetLevelOn
       ELSE cpu' = "IntOn" /\ UNCHANGED <<pending, spin, bufferAge>>
    /\ UNCHANGED <<workload, pc, wants, semVars, yieldOnReturn, active, lastSector, consoleVars>>

(* Idle jumps to the next interrupt.                                       *)
AdvanceToNext ==
    /\ cpu = "Sleep"
    /\ readyList = <<>>
    /\ pending # <<>> /\ ~OnlyTimer
    /\ Advance(Max({Head(pending).in, 0}), pending)
    /\ cpu' = "Idle"
    /\ UNCHANGED <<workload, schedVars, pc, wants, semVars, yieldOnReturn, active, lastSector,
                   consoleVars>>

ReturnFromIdle ==
    /\ cpu = "Idle" /\ (~Due \/ OnlyTimer)
    /\ pending' = PutBack
    /\ yieldOnReturn' = FALSE
    /\ cpu' = "Sleep"
    /\ UNCHANGED <<workload, schedVars, pc, wants, semVars, diskVars, consoleVars>>

(* "No threads ready or runnable, and no pending interrupts."              *)
Halt ==
    /\ cpu = "Sleep"
    /\ readyList = <<>>
    /\ pending = <<>> \/ OnlyTimer
    /\ cpu' = "Halted"
    /\ UNCHANGED <<workload, schedVars, pc, wants, semVars, pending, yieldOnReturn, diskVars,
                   consoleVars>>

-----------------------------------------------------------------------------
ClientStep(t) ==
    \/ CallSynchDisk(t)
    \/ Acquire(t)
    \/ Request(t)
    \/ WaitForDisk(t)
    \/ Release(t)
    \/ Finish(t)

EchoStep == WaitForChar \/ GetAndPutChar \/ WaitForWrite \/ HaltAfterTest

ThreadStep == EchoStep \/ \E t \in Clients : ClientStep(t)

MachineStep ==
    \/ Interrupted
    \/ ReturnFromOneTick
    \/ YieldAfterTimer
    \/ SleepDispatch
    \/ AdvanceToNext
    \/ ReturnFromIdle
    \/ Halt

Next == ThreadStep \/ MachineStep \/ Type

Spec == Init /\ [][Next]_vars

(* The host runs the machine; and the timer, whose intervals are random,   *)
(* now and then leaves a thread the time for a step.                       *)
FairSpec == Spec /\ WF_vars(MachineStep) /\ SF_vars(ThreadStep)

-----------------------------------------------------------------------------
(* Properties.                                                             *)

Count(type) == Cardinality({i \in DOMAIN pending : pending[i].type = type})

(* The list of pending interrupts stays in the order of time whatever the  *)
(* handlers schedule and CheckIfDue puts back, and when a thread runs no   *)
(* device is overdue: a tick runs all that is due.  (A timer may be, that  *)
(* Idle left alone in the list.)                                           *)
NothingOverdue ==
    /\ \A i, j \in DOMAIN pending : i < j => pending[i].in <= pending[j].in
    /\ cpu = "IntOn" => \A i \in DOMAIN pending : pending[i].in > 0 \/ pending[i].type = "Timer"

InDisk == {t \in Clients : pc[t] \in {"request", "semaphore->P", "lock->Release"}}

(* "only one request at a time": SynchDisk never makes the disk's assertion*)
(* fail, each request has one interrupt on its way, and the unit that the  *)
(* interrupt leaves in the semaphore is for the thread that asked, and for *)
(* no later request.                                                       *)
OneRequestOneAnswer ==
    /\ \A t \in Clients : pc[t] = "request" => ~active
    /\ Count("Disk") = IF active THEN 1 ELSE 0
    /\ Cardinality(InDisk) = 1 - value["lock"]
    /\ \A t \in InDisk :
          (IF active THEN 1 ELSE 0) + value["disk"] = IF pc[t] = "semaphore->P" THEN 1 ELSE 0

(* A request takes until the head has passed over the whole of the sector  *)
(* for the first time after the seek; only a read of a sector that passed  *)
(* under the head since the track buffer was started is served from there. *)
HeadPassesSector ==
    ~active => \A sector \in Sectors, writing \in BOOLEAN :
        LET latency == ComputeLatency(sector, writing)
            Passes(from) == from % RotationTime = 0
                            /\ (from \div RotationTime) % SectorsPerTrack = sector % SectorsPerTrack
            ready == spin + Seek(sector)
            started == spin + Turn - bufferAge      \* a turn later than it was
        IN  \/ /\ Passes(ready + latency - Seek(sector) - RotationTime)
               /\ \A from \in ready..(ready + latency - Seek(sector) - RotationTime - 1) :
                     ~Passes(from)
            \/ /\ ~writing /\ Seek(sector) = 0 /\ latency = RotationTime
               /\ \E from \in started..(spin + Rotation(sector) + Turn - RotationTime) : Passes(from)

(* What is typed is echoed once and in order: it is either waiting to be   *)
(* read or in the console's one-character buffer, which is full when       *)
(* ConsoleTest comes to take it, while the display is ready.               *)
EchoInOrder ==
    /\ owed = (IF incoming = "EOF" THEN <<>> ELSE <<incoming>>) \o typed
    /\ pc[Echo] = "GetChar" => incoming # "EOF" /\ ~putBusy

(* Every request for a sector is answered, and every character is echoed,  *)
(* unless ConsoleTest halts the machine: Idle does not take the wait for a *)
(* device for the end of the program.                                      *)
DevicesAnswer ==
    /\ \A t \in Clients :
          (pc[t] = "semaphore->P") ~> (pc[t] = "lock->Release" \/ pc[Echo] = "Halt")
    /\ (Len(owed) = MaxTyped) ~> (Len(owed) < MaxTyped \/ pc[Echo] = "Halt")
=============================================================================
