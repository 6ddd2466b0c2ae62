----------------------------- MODULE Processes -----------------------------
(***************************************************************************)
(* The system calls of userprog/exception.cc that manage processes,        *)
(* threads, semaphores and files, with the parts of Thread, Scheduler and  *)
(* AddrSpace that they depend on, in the build without virtual memory.     *)
(*                                                                         *)
(* There is one CPU.  A step is what the current thread does up to the     *)
(* next point where the timer may take the CPU away: between two           *)
(* instructions of a user program, or where the kernel turns interrupts    *)
(* back on (at the end of P, V, Destroy, Thread::Fork and Yield).  Between *)
(* steps Dispatch may run any other thread that can run; the order of the  *)
(* ready list is NachosKernel's subject.  User programs are arbitrary      *)
(* sequences of the system calls that the workload allows.                 *)
(***************************************************************************)
EXTENDS OpenFilesTable

CONSTANTS
    Threads,        \* bound: the Thread objects that are ever allocated
    Main,           \* the first thread, which StartProcess turned into a process
    Semaphores,     \* bound: the semaphores that SemCreate ever allocates
    NumPhysPages,
    MaxUnits,       \* bound: what a user semaphore counts to
    Files,          \* the host's file descriptors, from 3 on
    Workloads       \* bound: what the programs of one behaviour may use, see workload

(* The cases of ExceptionHandler for SyscallException.                     *)
SystemCalls ==
    {"Halt", "Exit", "Exec", "Join", "Create", "Open", "Read", "Write", "Close", "Fork", "Yield",
     "SemCreate", "SemDestroy", "SemSignal", "SemWait"}

Frames == 0..(NumPhysPages - 1)

(* An AddrSpace: the frames of its pages, or -1 where there was none left. *)
Spaces == [data : Frames \cup {-1}, stack : Frames \cup {-1}]

ASSUME ProcessesAssumption ==
    /\ Main \in Threads
    /\ NULL \notin Spaces
    /\ SIZE_OF_TABLE >= 3
    /\ NULL \notin Threads \cup Semaphores
    /\ IsFiniteSet(Threads)
    /\ NumPhysPages \in Nat /\ NumPhysPages >= 2
    /\ NumPhysPages >= 2 * Cardinality(Threads)     \* the memory does not run out
    /\ Files \subseteq Nat
    /\ MaxUnits \in Nat
    /\ Workloads \subseteq
          [calls : SUBSET SystemCalls, threads : Nat, semaphores : Nat, files : Nat]

ASSUME FunctionAssumption == NULL \notin {"Exec", "Fork"}

VARIABLES
    workload,               \* the calls that the programs make, how many threads and
                            \* semaphores they create, how many files each thread has open
    currentThread,
    pc,                     \* where each thread is: see Labels
    local,                  \* the kernel's local variable: the semaphore a thread waits on or
                            \* destroys, the thread it joins (ghost), the child it executes
    fatherProcess,
    pid,
    function,               \* what the thread was forked with
    space,                  \* Thread::space: a frame of text and data, and one of stack
    openedFilesTable,
    associatedSemaphores,
    usage,                  \* the usage of both tables, which always change together
    threadsTable,
    occupant,               \* ghost: the thread that was last given each pid
    mainMemoryMap,          \* the frames marked in use
    pageTable,              \* machine->pageTable: the thread whose space is loaded
    threadToBeDestroyed,
    joinSem,                \* the value of the semaphore of the thread's last Join
    semValue,               \* the value of each user semaphore
    semStatus,              \* whether it was created and deleted
    unixFiles,              \* the host's open descriptors
    consoleMutex            \* the value of consoleMutexSem

vars == <<workload, currentThread, pc, local, fatherProcess, pid, function, space, openedFilesTable,
          associatedSemaphores, usage, threadsTable, occupant, mainMemoryMap, pageTable,
          threadToBeDestroyed, joinSem, semValue, semStatus, unixFiles, consoleMutex>>

(* "none": not allocated; "fresh": forked and not yet run; "root": in      *)
(* ThreadRoot, before its function; "user": running its program.  Then the *)
(* points inside system calls (in P of a user semaphore: about to test its *)
(* value, in its queue, and taken from there by Destroy), Finish, and the  *)
(* destructor.  Read and Write of the console: in P, in the queue, holding *)
(* the console until V, and before Read copies what it read.               *)
Labels ==
    {"none", "fresh", "root", "user", "Exec", "Join", "SemWait", "asleep", "awakened",
     "SemDestroy", "Exit", "Exit.V", "finished", "deleted"}
    \cup {"Read.P", "Write.P", "Read.asleep", "Write.asleep", "Read.V", "Write.V", "Read.copy"}

TypeOK ==
    /\ workload \in Workloads
    /\ currentThread \in Threads \cup {NULL}
    /\ pc \in [Threads -> Labels]
    /\ local \in [Threads -> Threads \cup Semaphores \cup {NULL}]
    /\ fatherProcess \in [Threads -> Threads \cup {NULL}]
    /\ pid \in [Threads -> Positions \cup {-1}]
    /\ function \in [Threads -> {"Exec", "Fork", NULL}]
    /\ space \in [Threads -> Spaces \cup {NULL}]
    /\ openedFilesTable \in [Threads -> Tables(Files \cup {-1})]
    /\ associatedSemaphores \in [Threads -> Tables(Semaphores)]
    /\ usage \in [Threads -> Int]
    /\ threadsTable \in Tables(Threads)
    /\ occupant \in [Positions -> Threads \cup {NULL}]
    /\ mainMemoryMap \subseteq Frames \cup {-1}
    /\ pageTable \in Threads
    /\ threadToBeDestroyed \in Threads \cup {NULL}
    /\ joinSem \in [Threads -> Nat]
    /\ semValue \in [Semaphores -> Nat]
    /\ semStatus \in [Semaphores -> {"unused", "live", "deleted"}]
    /\ unixFiles \subseteq Files
    /\ consoleMutex \in Nat

Reserved == {0, 1, 2}       \* stdin, stdout, stderr

(* Initialize and StartProcess.                                            *)
Init ==
    /\ workload \in Workloads
    /\ currentThread = Main
    /\ pc = [t \in Threads |-> IF t = Main THEN "user" ELSE "none"]
    /\ local = [t \in Threads |-> NULL]
    /\ fatherProcess = [t \in Threads |-> NULL]
    /\ pid = [t \in Threads |-> -1]
    /\ function = [t \in Threads |-> NULL]
    /\ space = [t \in Threads |-> IF t = Main THEN [data |-> 0, stack |-> 1] ELSE NULL]
    /\ openedFilesTable = [t \in Threads |-> NewTable(Reserved)]
    /\ associatedSemaphores = [t \in Threads |-> NewTable({})]
    /\ usage = [t \in Threads |-> 1]
    /\ threadsTable = NewTable({})
    /\ occupant = [p \in Positions |-> NULL]
    /\ mainMemoryMap = {0, 1}
    /\ pageTable = Main
    /\ threadToBeDestroyed = NULL
    /\ joinSem = [t \in Threads |-> 0]
    /\ semValue = [s \in Semaphores |-> 0]
    /\ semStatus = [s \in Semaphores |-> "unused"]
    /\ unixFiles = {}
    /\ consoleMutex = 1

hostVars == <<unixFiles, consoleMutex>>
tableVars == <<openedFilesTable, associatedSemaphores>>
processVars == <<fatherProcess, pid, function, occupant, workload>>
memoryVars == <<space, mainMemoryMap, pageTable>>
semVars == <<semValue, semStatus>>

-----------------------------------------------------------------------------
(* The scheduler.                                                          *)

(* A thread in Join can run once its semaphore has a unit (SemaphoreSpec). *)
Runnable(t) ==
    \/ pc[t] \in {"fresh", "root", "user", "Exec", "SemWait", "awakened", "SemDestroy",
                  "Exit", "Exit.V", "Read.P", "Write.P", "Read.V", "Write.V", "Read.copy"}
    \/ pc[t] = "Join" /\ joinSem[t] > 0

(* Fault: the frames of the wrong thread are freed.                        *)
FreedFramesOfRunning(t, running) ==
    IF space[running] = NULL THEN {} ELSE {space[running].data, space[running].stack}

(* AddrSpace::~AddrSpace of a thread's space.  It asks whether the thread  *)
(* that runs now, and not the one that is destroyed, has children.         *)
FreedFrames(t, running) ==
    IF space[t] = NULL THEN {}
    ELSE IF usage[running] > 1 THEN {space[t].stack}
    ELSE {space[t].data, space[t].stack}

(* Fault: the thread's space is not loaded.                                *)
RestoreStateForgotten(n) == UNCHANGED pageTable

(* AddrSpace::RestoreState, for a thread that has a space.                 *)
RestoreState(n) == pageTable' = IF space[n] # NULL THEN n ELSE pageTable

(* The tail of Scheduler::Run, after SWITCH, in a thread that has run      *)
(* before: the carcass is destroyed and the thread's space is loaded.      *)
ResumeRun(n) ==
    /\ pc' = [t \in Threads |-> IF t = threadToBeDestroyed THEN "deleted" ELSE pc[t]]
    /\ IF threadToBeDestroyed = NULL
       THEN UNCHANGED <<space, mainMemoryMap>>
       ELSE /\ mainMemoryMap' = mainMemoryMap \ FreedFrames(threadToBeDestroyed, n)
            /\ space' = [space EXCEPT ![threadToBeDestroyed] = NULL]
    /\ threadToBeDestroyed' = NULL
    /\ RestoreState(n)

(* A thread that runs for the first time goes to ThreadRoot instead.       *)
StartRun(n) ==
    /\ pc' = [pc EXCEPT ![n] = "root"]
    /\ UNCHANGED <<space, mainMemoryMap, threadToBeDestroyed, pageTable>>

(* Yield, or Sleep when the current thread waits or has finished.          *)
Dispatch(n) ==
    /\ currentThread # NULL
    /\ n # currentThread
    /\ Runnable(n)
    /\ currentThread' = n
    /\ \/ pc[n] = "fresh" /\ StartRun(n)
       \/ pc[n] # "fresh" /\ ResumeRun(n)
    /\ UNCHANGED <<local, processVars, tableVars, usage, threadsTable, joinSem, semVars,
                   hostVars>>

-----------------------------------------------------------------------------
(* System calls.                                                           *)

At(t, label) == currentThread = t /\ pc[t] = label

Uses(call) == call \in workload.calls

Makes(t, call) == At(t, "user") /\ Uses(call)

(* Fault: the father does not count its child.                             *)
addThreadForgotten(t) == UNCHANGED usage

(* openFilesTable::addThread, on both tables.                              *)
addThread(t) == usage' = [usage EXCEPT ![t] = @ + 1]

(* Thread::Thread(name, true, father) and Thread::Fork.                    *)
NewThread(t, n, f) ==
    /\ pc[n] = "none"
    /\ Cardinality({u \in Threads : pc[u] # "none"}) < workload.threads
    /\ HasRoom(threadsTable)
    /\ UNCHANGED workload
    /\ fatherProcess' = [fatherProcess EXCEPT ![n] = t]
    /\ pid' = [pid EXCEPT ![n] = NextFreePos(threadsTable)]
    /\ function' = [function EXCEPT ![n] = f]
    /\ threadsTable' = Open(threadsTable, NULL)
    /\ occupant' = [occupant EXCEPT ![NextFreePos(threadsTable)] = n]

(* Nachos_Halt: the machine stops.                                         *)
Halt(t) ==
    /\ Makes(t, "Halt")
    /\ currentThread' = NULL
    /\ UNCHANGED <<pc, local, processVars, tableVars, usage, threadsTable, memoryVars,
                   threadToBeDestroyed, joinSem, semVars, hostVars>>

(* Nachos_Exec, up to the end of Thread::Fork, and its return of the pid.  *)
Exec(t) ==
    /\ Makes(t, "Exec")
    /\ \E n \in Threads :
          /\ NewThread(t, n, "Exec")
          /\ pc' = [pc EXCEPT ![n] = "fresh", ![t] = "Exec"]
          /\ local' = [local EXCEPT ![t] = n]
    /\ UNCHANGED <<currentThread, tableVars, usage, memoryVars, threadToBeDestroyed, joinSem,
                   semVars, hostVars>>

ReturnFromExec(t) ==
    /\ At(t, "Exec")
    /\ pc' = [pc EXCEPT ![t] = "user"]
    /\ local' = [local EXCEPT ![t] = NULL]
    /\ UNCHANGED <<currentThread, processVars, tableVars, usage, threadsTable, memoryVars,
                   threadToBeDestroyed, joinSem, semVars, hostVars>>

(* The end of a thread: Thread::Finish.                                    *)
Finish(t) ==
    /\ pc' = [pc EXCEPT ![t] = "finished"]
    /\ threadToBeDestroyed' = t

(* AddrSpace::AddrSpace of a file: every page gets the next free frame.    *)
LoadedSpace ==
    LET data == Find(mainMemoryMap, NumPhysPages)
    IN  [data |-> data, stack |-> Find(mainMemoryMap \cup {data}, NumPhysPages)]

(* AddrSpace::AddrSpace of a space: its frames, but for the stack.         *)
CopiedSpace(otherSpace) ==
    [data |-> otherSpace.data, stack |-> Find(mainMemoryMap, NumPhysPages)]

(* nachosExecThread: the file name is read through the page table that is  *)
(* loaded; if there is no such file the function returns and the thread    *)
(* finishes; otherwise the program is loaded and run.                      *)
nachosExecThread(t) ==
    /\ At(t, "root") /\ function[t] = "Exec"
    /\ \/ /\ Finish(t)
          /\ UNCHANGED memoryVars
       \/ /\ space' = [space EXCEPT ![t] = LoadedSpace]
          /\ mainMemoryMap' = mainMemoryMap \cup {LoadedSpace.data, LoadedSpace.stack}
          /\ pageTable' = t
          /\ pc' = [pc EXCEPT ![t] = "user"]
          /\ UNCHANGED threadToBeDestroyed
    /\ UNCHANGED <<currentThread, local, processVars, tableVars, usage, threadsTable, joinSem,
                   semVars, hostVars>>

(* Nachos_Fork: the child has copies of the tables, and a space with the   *)
(* father's frames but for the stack.                                      *)
Fork(t) ==
    /\ Makes(t, "Fork")
    /\ \E n \in Threads :
          /\ NewThread(t, n, "Fork")
          /\ pc' = [pc EXCEPT ![n] = "fresh"]
          /\ openedFilesTable' = [openedFilesTable EXCEPT ![n] = copyTable(@, openedFilesTable[t])]
          /\ associatedSemaphores' =
                [associatedSemaphores EXCEPT ![n] = copyTable(@, associatedSemaphores[t])]
          /\ space' = [space EXCEPT ![n] = CopiedSpace(space[t])]
          /\ mainMemoryMap' = mainMemoryMap \cup {CopiedSpace(space[t]).stack}
    /\ addThread(t)
    /\ UNCHANGED <<currentThread, local, pageTable, threadToBeDestroyed, joinSem, semVars,
                   hostVars>>

NachosForkThread(t) ==
    /\ At(t, "root") /\ function[t] = "Fork"
    /\ RestoreState(t)
    /\ pc' = [pc EXCEPT ![t] = "user"]
    /\ UNCHANGED <<currentThread, local, processVars, tableVars, usage, threadsTable, space,
                   mainMemoryMap, threadToBeDestroyed, joinSem, semVars, hostVars>>

-----------------------------------------------------------------------------
(* Nachos_Join: a new semaphore is stored in the child's entry.            *)

(* Fault: the semaphore starts with a unit.                                *)
JoinInitialValueOne == 1

(* new Semaphore("Join semaphore", 0).                                     *)
JoinInitialValue == 0

Join(t) ==
    /\ Makes(t, "Join")
    /\ \E p \in Positions :
          /\ isOpen(threadsTable, p)      \* otherwise it returns -1 and changes nothing
          /\ threadsTable' = storeSemAdress(threadsTable, p, t)
          /\ local' = [local EXCEPT ![t] = occupant[p]]
    /\ joinSem' = [joinSem EXCEPT ![t] = JoinInitialValue]
    /\ pc' = [pc EXCEPT ![t] = "Join"]
    /\ UNCHANGED <<currentThread, processVars, tableVars, usage, memoryVars, threadToBeDestroyed,
                   semVars, hostVars>>

(* fatherJoinsChild->P().                                                  *)
ReturnFromJoin(t) ==
    /\ At(t, "Join")
    /\ joinSem[t] > 0
    /\ joinSem' = [joinSem EXCEPT ![t] = @ - 1]
    /\ pc' = [pc EXCEPT ![t] = "user"]
    /\ local' = [local EXCEPT ![t] = NULL]
    /\ UNCHANGED <<currentThread, processVars, tableVars, usage, threadsTable, memoryVars,
                   threadToBeDestroyed, semVars, hostVars>>

-----------------------------------------------------------------------------
(* Nachos_Exit.                                                            *)

CallExit(t) ==
    /\ Makes(t, "Exit")
    /\ pc' = [pc EXCEPT ![t] = "Exit"]
    /\ UNCHANGED <<currentThread, local, processVars, tableVars, usage, threadsTable, memoryVars,
                   threadToBeDestroyed, joinSem, semVars, hostVars>>

(* The loop that yields while usage > 1 ends.                              *)
ChildrenDone(t) == usage[t] <= 1

(* Fault: what was inherited is closed too.                                *)
OpenedOrInherited(table) == table.map

(* What a table's owner itself opened: all that Exit closes.               *)
Opened(table) == table.map \cap table.openedByCurrentThread

(* Fault: a child's end is not counted.                                    *)
delThreadForgotten(father) == UNCHANGED usage

(* openFilesTable::delThread, on both tables of the father, if any.        *)
delThread(father) ==
    usage' = IF father = NULL THEN usage ELSE [usage EXCEPT ![father] = @ - 1]

(* Fault: the entry stays in the threads table.                            *)
FinishWithoutRemoval(t) ==
    /\ UNCHANGED threadsTable
    /\ Finish(t)

(* Removal from the threads table, where main is not, and Finish.          *)
RemoveAndFinish(t) ==
    /\ threadsTable' = IF pid[t] >= 0 THEN Close(threadsTable, {pid[t]}) ELSE threadsTable
    /\ Finish(t)

(* Files and semaphores are closed, the father's usage is decremented, and *)
(* if there is a semaphore in the thread's entry it is signalled.  The V   *)
(* turns interrupts on before the entry is closed.                         *)
Exit(t) ==
    /\ At(t, "Exit")
    /\ ChildrenDone(t)
    /\ LET files == Opened(openedFilesTable[t]) \ Reserved
           sems == Opened(associatedSemaphores[t])
       IN  /\ unixFiles' =
                 unixFiles \ {getUnixFileID(openedFilesTable[t], file) : file \in files}
           /\ openedFilesTable' = [openedFilesTable EXCEPT ![t] = Close(@, files)]
           /\ semStatus' =
                 [s \in Semaphores |->
                    IF \E sem \in sems : getUnixFileID(associatedSemaphores[t], sem) = s
                    THEN "deleted" ELSE semStatus[s]]
           /\ associatedSemaphores' = [associatedSemaphores EXCEPT ![t] = Close(@, sems)]
    /\ LET father == fatherProcess[t]
           joiner == IF father = NULL THEN NULL ELSE getUnixFileID(threadsTable, pid[t])
       IN  /\ delThread(father)
           /\ \/ /\ joiner = NULL
                 /\ RemoveAndFinish(t)
                 /\ UNCHANGED joinSem
              \/ /\ joiner # NULL
                 /\ joinSem' = [joinSem EXCEPT ![joiner] = @ + 1]
                 /\ pc' = [pc EXCEPT ![t] = "Exit.V"]
                 /\ UNCHANGED <<threadsTable, threadToBeDestroyed>>
    /\ UNCHANGED <<currentThread, local, processVars, memoryVars, semValue, consoleMutex>>

ExitAfterV(t) ==
    /\ At(t, "Exit.V")
    /\ RemoveAndFinish(t)
    /\ UNCHANGED <<currentThread, local, processVars, tableVars, usage, memoryVars, joinSem,
                   semVars, hostVars>>

-----------------------------------------------------------------------------
(* Semaphores.  A program names those that its own table shows as open.    *)

SemCreate(t) ==
    /\ Makes(t, "SemCreate")
    /\ Cardinality({s \in Semaphores : semStatus[s] # "unused"}) < workload.semaphores
    /\ HasRoom(associatedSemaphores[t])
    /\ \E s \in Semaphores, initval \in {0, 1} :
          /\ semStatus[s] = "unused"
          /\ semStatus' = [semStatus EXCEPT ![s] = "live"]
          /\ semValue' = [semValue EXCEPT ![s] = initval]
          /\ associatedSemaphores' = [associatedSemaphores EXCEPT ![t] = Open(@, s)]
    /\ UNCHANGED <<currentThread, pc, local, processVars, openedFilesTable, usage, threadsTable,
                   memoryVars, threadToBeDestroyed, joinSem, hostVars>>

(* The semaphores in a thread's table, the ones that it names in calls.    *)
Named(t) ==
    {getUnixFileID(associatedSemaphores[t], sem) : sem \in associatedSemaphores[t].map}

Sleepers(s) == {t \in Threads : pc[t] = "asleep" /\ local[t] = s}

(* The entry is closed, and Destroy makes the threads in the queue ready.  *)
SemDestroy(t) ==
    /\ Makes(t, "SemDestroy")
    /\ \E sem \in associatedSemaphores[t].map :
          LET s == getUnixFileID(associatedSemaphores[t], sem) IN
          /\ local' = [local EXCEPT ![t] = s]
          /\ associatedSemaphores' = [associatedSemaphores EXCEPT ![t] = Close(@, {sem})]
          /\ pc' = [u \in Threads |-> IF u = t THEN "SemDestroy"
                                      ELSE IF u \in Sleepers(s) THEN "awakened" ELSE pc[u]]
    /\ UNCHANGED <<currentThread, processVars, openedFilesTable, usage, threadsTable, memoryVars,
                   threadToBeDestroyed, joinSem, semVars, hostVars>>

DeleteSemaphore(t) ==
    /\ At(t, "SemDestroy")
    /\ semStatus' = [semStatus EXCEPT ![local[t]] = "deleted"]
    /\ pc' = [pc EXCEPT ![t] = "user"]
    /\ local' = [local EXCEPT ![t] = NULL]
    /\ UNCHANGED <<currentThread, processVars, tableVars, usage, threadsTable, memoryVars,
                   threadToBeDestroyed, joinSem, semValue, hostVars>>

(* V: some sleeper is made ready, and the value incremented.               *)
SemSignal(t) ==
    /\ Makes(t, "SemSignal")
    /\ \E s \in Named(t) :
          /\ semValue[s] < MaxUnits
          /\ semValue' = [semValue EXCEPT ![s] = @ + 1]
          /\ \/ Sleepers(s) = {} /\ UNCHANGED pc
             \/ \E u \in Sleepers(s) : pc' = [pc EXCEPT ![u] = "SemWait"]
    /\ UNCHANGED <<currentThread, local, processVars, tableVars, usage, threadsTable,
                   memoryVars, threadToBeDestroyed, joinSem, semStatus, hostVars>>

SemWait(t) ==
    /\ Makes(t, "SemWait")
    /\ \E s \in Named(t) : local' = [local EXCEPT ![t] = s]
    /\ pc' = [pc EXCEPT ![t] = "SemWait"]
    /\ UNCHANGED <<currentThread, processVars, tableVars, usage, threadsTable, memoryVars,
                   threadToBeDestroyed, joinSem, semVars, hostVars>>

(* P, from its test of the value: the thread consumes a unit and returns,  *)
(* or goes to sleep in the queue.  Once the semaphore is deleted the test  *)
(* reads freed memory, and may come out either way.                        *)
TestInP(t) ==
    /\ At(t, "SemWait") \/ At(t, "awakened")
    /\ LET s == local[t] IN
       \/ /\ semValue[s] > 0 \/ semStatus[s] = "deleted"
          /\ semValue' = [semValue EXCEPT ![s] = IF semStatus[s] = "deleted" THEN @ ELSE @ - 1]
          /\ pc' = [pc EXCEPT ![t] = "user"]
          /\ local' = [local EXCEPT ![t] = NULL]
       \/ /\ semValue[s] = 0 \/ semStatus[s] = "deleted"
          /\ pc' = [pc EXCEPT ![t] = "asleep"]
          /\ UNCHANGED <<semValue, local>>
    /\ UNCHANGED <<currentThread, processVars, tableVars, usage, threadsTable, memoryVars,
                   threadToBeDestroyed, joinSem, semStatus, hostVars>>

-----------------------------------------------------------------------------
(* Files.                                                                  *)

(* The host's open(): the first free descriptor, or -1.                    *)
HostOpen == {-1} \cup (IF Files \subseteq unixFiles THEN {} ELSE {Min(Files \ unixFiles)})

OpenFile(t) ==
    /\ Makes(t, "Open")
    /\ Cardinality(openedFilesTable[t].map \ Reserved) < workload.files
    /\ HasRoom(openedFilesTable[t])
    /\ \E UnixFileID \in HostOpen :
          /\ unixFiles' = unixFiles \cup ({UnixFileID} \ {-1})
          /\ openedFilesTable' = [openedFilesTable EXCEPT ![t] = Open(@, UnixFileID)]
    /\ UNCHANGED <<currentThread, pc, local, processVars, associatedSemaphores, usage,
                   threadsTable, memoryVars, threadToBeDestroyed, joinSem, semVars, consoleMutex>>

CloseFile(t) ==
    /\ Makes(t, "Close")
    /\ \E file \in openedFilesTable[t].map \ Reserved :
          /\ unixFiles' = unixFiles \ {getUnixFileID(openedFilesTable[t], file)}
          /\ openedFilesTable' = [openedFilesTable EXCEPT ![t] = Close(@, {file})]
    /\ UNCHANGED <<currentThread, pc, local, processVars, associatedSemaphores, usage,
                   threadsTable, memoryVars, threadToBeDestroyed, joinSem, semVars, consoleMutex>>

(* Nachos_Create: the descriptor that creat() returns is not kept.         *)
Create(t) ==
    /\ Makes(t, "Create")
    /\ \E UnixFileID \in HostOpen : unixFiles' = unixFiles \cup ({UnixFileID} \ {-1})
    /\ UNCHANGED <<currentThread, pc, local, processVars, tableVars, usage,
                   threadsTable, memoryVars, threadToBeDestroyed, joinSem, semVars, consoleMutex>>

(* Nachos_Yield.                                                           *)
Yield(t) ==
    /\ Makes(t, "Yield")
    /\ \/ \E n \in Threads : Dispatch(n)
       \/ (\A n \in Threads \ {t} : ~Runnable(n)) /\ UNCHANGED vars

-----------------------------------------------------------------------------
(* Nachos_Read and Nachos_Write.  Files are the host's business; whoever   *)
(* uses the console has consoleMutexSem.                                   *)

ConsoleInput == 0
ConsoleOutput == 1

consoleUnchanged == <<currentThread, local, processVars, tableVars, usage, threadsTable, memoryVars,
                      threadToBeDestroyed, joinSem, semVars, unixFiles>>

Read(t) ==
    /\ Makes(t, "Read")
    /\ \E NachosFileID \in Positions :
          pc' = IF NachosFileID = ConsoleInput THEN [pc EXCEPT ![t] = "Read.P"] ELSE pc
    /\ UNCHANGED <<consoleUnchanged, consoleMutex>>

Write(t) ==
    /\ Makes(t, "Write")
    /\ \E NachosFileID \in Positions :
          pc' = IF NachosFileID = ConsoleOutput THEN [pc EXCEPT ![t] = "Write.P"] ELSE pc
    /\ UNCHANGED <<consoleUnchanged, consoleMutex>>

(* consoleMutexSem->P(), from its test of the value.                       *)
ConsoleP(t) ==
    /\ \/ At(t, "Read.P") /\ pc' = [pc EXCEPT ![t] = IF consoleMutex > 0 THEN "Read.V" ELSE "Read.asleep"]
       \/ At(t, "Write.P") /\ pc' = [pc EXCEPT ![t] = IF consoleMutex > 0 THEN "Write.V" ELSE "Write.asleep"]
    /\ consoleMutex' = IF consoleMutex > 0 THEN consoleMutex - 1 ELSE 0
    /\ UNCHANGED consoleUnchanged

ConsoleAsleep == {t \in Threads : pc[t] \in {"Read.asleep", "Write.asleep"}}

(* The thread that V wakes up, if any, is back in the loop of P.           *)
PcAfterV(t) ==
    LET done == [pc EXCEPT ![t] = IF pc[t] = "Read.V" THEN "Read.copy" ELSE "user"]
        Woken(u) == IF pc[u] = "Read.asleep" THEN "Read.P" ELSE "Write.P"
    IN  IF ConsoleAsleep = {} THEN {done} ELSE {[done EXCEPT ![u] = Woken(u)] : u \in ConsoleAsleep}

(* Fault: V gives the unit to a sleeper, which takes another one.          *)
ConsoleVHandsOver(t) ==
    /\ At(t, "Read.V") \/ At(t, "Write.V")
    /\ consoleMutex' = IF ConsoleAsleep = {} THEN consoleMutex + 1 ELSE consoleMutex
    /\ pc' \in PcAfterV(t)
    /\ UNCHANGED consoleUnchanged

(* scanf or printf, and consoleMutexSem->V().                              *)
ConsoleV(t) ==
    /\ At(t, "Read.V") \/ At(t, "Write.V")
    /\ consoleMutex' = consoleMutex + 1
    /\ pc' \in PcAfterV(t)
    /\ UNCHANGED consoleUnchanged

(* readOrWriteVirtualMemory, at the end of a Read of the console.          *)
CopyToUser(t) ==
    /\ At(t, "Read.copy")
    /\ pc' = [pc EXCEPT ![t] = "user"]
    /\ UNCHANGED <<consoleUnchanged, consoleMutex>>

-----------------------------------------------------------------------------
(* What the kernel does by itself once the thread has the CPU.             *)
KernelStep(t) ==
    \/ ReturnFromExec(t)
    \/ nachosExecThread(t)
    \/ NachosForkThread(t)
    \/ ReturnFromJoin(t)
    \/ Exit(t)
    \/ ExitAfterV(t)
    \/ DeleteSemaphore(t)
    \/ TestInP(t)
    \/ ConsoleP(t)
    \/ ConsoleV(t)
    \/ CopyToUser(t)

(* What a user program asks for.                                           *)
UserStep(t) ==
    \/ Halt(t)
    \/ Exec(t)
    \/ Fork(t)
    \/ Join(t)
    \/ CallExit(t)
    \/ SemCreate(t)
    \/ SemDestroy(t)
    \/ SemSignal(t)
    \/ SemWait(t)
    \/ OpenFile(t)
    \/ CloseFile(t)
    \/ Create(t)
    \/ Read(t)
    \/ Write(t)
    \/ Yield(t)

Next == \E t \in Threads : KernelStep(t) \/ UserStep(t) \/ Dispatch(t)

Spec == Init /\ [][Next]_vars

(* Threads that can run get the CPU again and again (ReadyThreadRuns of    *)
(* NachosKernel), in the kernel they use it, and every program comes to    *)
(* its Exit.                                                               *)
FairSpec ==
    /\ Spec
    /\ \A t \in Threads : WF_vars(Dispatch(t)) /\ SF_vars(KernelStep(t) \/ CallExit(t))

-----------------------------------------------------------------------------
(* Properties.                                                             *)

(* The threads whose Thread object the kernel still uses as a process.     *)
Live(t) == pc[t] \notin {"none", "finished", "deleted"}

(* Past the point of Exit where the children have been waited for.         *)
Left(t) == pc[t] \in {"Exit.V", "finished", "deleted"}

(* A user program only ever runs in its own address space, whatever the    *)
(* scheduler, the first run of new threads and blocking calls did to       *)
(* machine->pageTable since it last ran; and so does Read, which copies    *)
(* into user memory after it has waited for the console.                   *)
RunsInOwnSpace ==
    \A t \in Threads : currentThread = t /\ pc[t] \in {"user", "Read.copy"} => pageTable = t

(* "First wait for the child processes to finish": the father is still     *)
(* there when a child uses its tables in Exit.                             *)
ChildrenFinishFirst ==
    \A t \in Threads : fatherProcess[t] # NULL /\ Left(fatherProcess[t]) => Left(t)

(* It is so for threads: Exec counts no children, but Exit counts them off.*)
ForkedFinishFirst == ~Uses("Exec") => ChildrenFinishFirst

(* "Only return once the user program "id" has finished": Join returns     *)
(* after the thread that had the pid when Join was called has come to the  *)
(* end of its Exit, although pids are used again.                          *)
JoinOnlyAfterExit ==
    [][\A t \in Threads : pc[t] = "Join" /\ pc'[t] = "user" => Left(local[t])]_vars

(* A semaphore that a live thread can still name, or waits on, has not     *)
(* been deleted by the Exit of the thread that created it.                 *)
SemaphoresExist ==
    ~Uses("Exec") /\ ~Uses("SemDestroy") => \A t \in Threads :
        /\ Live(t) /\ ~Left(t) => \A s \in Named(t) : semStatus[s] = "live"
        /\ pc[t] \in {"SemWait", "asleep"} => semStatus[local[t]] = "live"

(* isOpen "Returns wether the file pointed by the NachosFileID is open or  *)
(* not": the host has it open too, unless its own open failed.  It is so   *)
(* as long as no thread calls Close, which closes the file for all of them,*)
(* and until the thread has left: after its V in Exit, which lets a father *)
(* that joins it go on and exit, it uses its tables no more.               *)
OpenFilesAreOpen ==
    ~Uses("Exec") /\ ~Uses("Close") => \A t \in Threads :
        Live(t) /\ ~Left(t) =>
            \A file \in openedFilesTable[t].map \ Reserved :
                getUnixFileID(openedFilesTable[t], file) \in unixFiles \cup {-1}

(* When all its users are gone a descriptor is closed, except for those of *)
(* Create.                                                                 *)
NoFileLeak ==
    ~Uses("Create") => unixFiles \subseteq
        UNION {{getUnixFileID(openedFilesTable[t], file) : file \in openedFilesTable[t].map \ Reserved} :
                 t \in {u \in Threads : Live(u)}}

(* What a live thread finds in its tables exists, and the host keeps       *)
(* nothing open that no live thread can name.                              *)
TablesExact == SemaphoresExist /\ OpenFilesAreOpen /\ NoFileLeak

(* "Need a semaphore to control access to console": one thread at a time   *)
(* has it, and nobody sleeps while it is free and nobody is on the way.    *)
ConsoleShared ==
    /\ Cardinality({t \in Threads : pc[t] \in {"Read.V", "Write.V"}}) + consoleMutex = 1
    /\ ConsoleAsleep # {} /\ consoleMutex > 0 =>
          \E t \in Threads : pc[t] \in {"Read.P", "Write.P"}

FramesOf(t) == {space[t].data, space[t].stack}

(* The frames of a live thread are marked in mainMemoryMap, so that Find   *)
(* gives them to nobody else: "If there are no child threads associated to *)
(* this thread, delete the whole adress space.  Otherwise, delete only the *)
(* stack."                                                                 *)
FramesHeld ==
    \A t \in Threads : Live(t) /\ space[t] # NULL => FramesOf(t) \subseteq mainMemoryMap

(* Programs without threads have their memory to themselves: their frames  *)
(* are held until they are gone, and no two programs have one in common.   *)
ProcessMemoryOwn ==
    ~Uses("Fork") =>
        /\ FramesHeld
        /\ \A t, u \in Threads :
              t # u /\ Live(t) /\ Live(u) /\ space[t] # NULL /\ space[u] # NULL
                  => FramesOf(t) \cap FramesOf(u) = {}

(* "if it "is open", it means the process exists".  It is so for threads;  *)
(* an Exec of a file that does not exist leaves its entry open.            *)
OpenPidExists ==
    ~Uses("Exec") => \A p \in Positions : isOpen(threadsTable, p) => Live(occupant[p]) /\ pid[occupant[p]] = p

(* "signal the father if it is waiting in a Join": a father that waits for *)
(* a child that is gone has its unit.                                      *)
JoinedFatherSignalled ==
    \A t \in Threads :
        pc[t] = "Join" /\ fatherProcess[local[t]] = t /\ Left(local[t]) => joinSem[t] > 0

(* "Invokes destroy so the threads in the semaphore queue do not stay      *)
(* asleep": a thread that Destroy took out of the queue does not return to *)
(* it.                                                                     *)
DestroyFreesSleepers ==
    [][\A t \in Threads : pc[t] = "awakened" => pc'[t] # "asleep"]_vars

(* Every thread that calls Exit finishes: the loop that waits for the      *)
(* children comes to an end.                                               *)
ExitFinishes == \A t \in Threads : (pc[t] = "Exit") ~> (pc[t] \in {"finished", "deleted"})
=============================================================================
