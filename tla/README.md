# Nachos64: TLA+ models, checks and proofs

This directory holds TLA+ specifications of the Nachos operating system in `src/nachos64/code`, with the
extensions its authors made: semaphore-based locks and conditions, the water and dining-philosophers exercises,
multiprogramming with system calls, and demand paging.
File names below are relative to `src/nachos64/code`.

TLC checks the models on small instances.
TLAPS proves theorems about some of them for all values of the constants.
`PROJECT.json` has the index: components, runs, theorems, the source lines of every definition, the hazards of the
code, and the findings.

## 1. The system and what can go wrong in it

Nachos is one host process that simulates one CPU.
Kernel threads share that process. They take turns through `SWITCH` and exclude each other by turning simulated
interrupts off. The timer, which calls `Yield` on the running thread, exists only with `-rs`.
With `-p` (`preemptive.cc`) a thread may lose the CPU between any two machine instructions.
Simulated devices answer requests by interrupts, which are scheduled on a list and run when the clock reaches them.

| Component | What is hard | What should hold | Module |
|---|---|---|---|
| Threads and scheduler (`threads/thread.cc`, `scheduler.cc`) | a thread cannot delete its own stack; a new thread starts elsewhere than a resumed one | a thread is in one place; no use after deletion; no starvation | NachosKernel |
| Semaphores (`threads/synch.cc`) | barging between `V` and the woken thread | no lost wakeup; they are semaphores | NachosKernel |
| Interrupts, timer (`machine/interrupt.cc`, `timer.cc`) | handlers run inside any thread; the clock jumps in `Idle`; halting on deadlock | in time order, none forgotten; a halt only when stuck | Devices, NachosKernel |
| Locks and conditions (`threads/synch.cc`) | the window between `Release` and `P` inside `Wait` | exclusion; each waiter is woken once | Monitor |
| Synchronized list (`threads/synchlist.h`) | the item may be gone when the woken thread runs | an atomic FIFO list | SynchList |
| Dining philosophers (`threads/dinningph.cc`) | `if` instead of `while` around `Wait` | neighbours do not eat together; nobody is forgotten | DinningPh |
| Water (`threads/threadtest.cc`) | several counters; three semaphores released in the order taken | matter is conserved; no deadlock | Water |
| Tables, system calls, address spaces (`userprog/`) | entries are copied, not counted; calls block in the middle; the destructor runs in another thread | what a thread can name exists; `Join` returns after the exit; a program runs in its own space | Processes, OpenFilesTable |
| Virtual memory (`exception.cc`, `addrspace.cc`, `translate.cc`) | the dirty bit lives in the TLB; frames of other processes are evicted | a process finds what it stored | Paging |
| Disk, `SynchDisk`, console (`machine/`, `filesys/synchdisk.cc`) | the interrupt races `P`; one-character buffer; the track buffer | one request, one answer; echo in order | Devices |
| Network, post office (`machine/network.cc`, `network/`) | lost packets; one-packet buffer; polling | mail in order; an acknowledgement means reception | PostOffice |
| File system (`filesys/`) | partial sectors; a stop between write-backs | files hold what was written; a stop harms one file | FileSystem, FsTest |
| MIPS simulator (`machine/mipssim.cc`, `machine.cc`) | delay slots, delayed loads, restarts, carries | a restart is transparent; agrees with `bin/execute.c` | Mips |

## 2. Modules

```
SemaphoreSpec  <--- refined by --- NachosKernel             ThreadsProofs
     | assumed by
     +--> Monitor
     |      +--> SynchList --- refines --> SynchListSpec    SynchListProofs
     |      |        +. PostOffice --- refines --> MailSpec PostOfficeProofs
     |      +--> DinningPh                                  ThreadsProofs
     +--> Water                                             ThreadsProofs
     +--> Processes (EXTENDS OpenFilesTable)                ProcessesProofs
     +--> Devices                                           DevicesProofs
Paging --- refines --> VirtualMemory                        PagingProofs
FsTest (EXTENDS FileSystem)                                 FileSystemProofs, FsTestProofs
Mips (EXTENDS MipsWords) --- agrees with --> Execute
```

**NachosKernel.** One step is what happens between `SetLevel(IntOff)` and the next `SWITCH` or `SetLevel(IntOn)`.
`cont` records where each thread will continue: in `ThreadRoot` if it has not run yet, or inside the `Run` that
`Yield`, `P` or `Finish` called. This matters because the tail of `Run`, which deletes the carcass, is executed only
by resumed threads. `cpu` says what the host process is doing. Threads run arbitrary code: with interrupts on they
may create and fork threads, call `P`, `V`, `Finish`, schedule a device interrupt, or be made to `Yield`.
Pending interrupts are a bag of semaphores to signal, and any of them may fire next; the clock is in Devices.

**SemaphoreSpec** is the abstract semaphore: a value and the threads that want a unit.

**Monitor** is `Lock` and `Condition`, one step per statement that touches shared state. A client module EXTENDS it
and adds steps for its own statements. `ret` is the label a call returns to.
`waitQueue` holds, for each condition, the waiter semaphores named after the thread that allocated them.

**SynchList**, **DinningPh** are such clients. **SynchListSpec** is the abstract list, in which a call takes effect
in one step between its invocation and its return.

**Water** has the threads `H` and `O`, statement by statement, and `water()`.

**OpenFilesTable** has the table operations as operators on a record. The same class is used for files, for
semaphores and for the table of threads. **Processes** has all fifteen system calls.
One step lasts from one point where the timer can take the CPU to the next.
A user program is an arbitrary sequence of the calls of its workload (section 3).
A process's memory is abstracted to one frame of text and data, shared after `Fork`, and one frame of stack.
The order of the ready list is left open there, because it is NachosKernel's subject.
`Read` and `Write` are split where they wait for the console's mutex.
`occupant`, and `local` during a `Join`, are history variables for stating properties.

**Paging** is the build with `VM` and `USE_TLB`. A step is a memory access that the TLB translates, a whole page
fault (its handler does not turn interrupts on), a context switch, or the end of a process. Pages have abstract
contents: zeroes, a part of the program file, or a version that a process stored.
**VirtualMemory** is what processes are promised: pages of their own that only their own stores change.
The code has places where that promise is broken. The variable `damage` records when one is reached, and the model
stops there, because nothing definite can be said about what follows. See section 4.

**Devices** has simulated time. The code only compares times, so `pending` says in how many ticks each interrupt is
due, and of the absolute time only the position within a turn of the disk is kept. The threads are clients of
`SynchDisk`, which ask for any sectors, and `ConsoleTest`. Semaphores are used as NachosKernel shows them to be.

**PostOffice** has several machines, each with its network device, postal worker and clients. Steps of different
machines interleave freely: they are separate host processes. Mailboxes are atomic lists, which is what SynchList
is shown to implement. Clients either run `MailTest` or send and receive at will. A machine may halt, and a packet to
a machine that has halted aborts the sender (`SendToSocket` asserts). **MailSpec** is the promise of `post.h`: mail
arrives in order, or is lost when it is sent.

**FileSystem** has one client, since the code assumes no concurrent access. Each sector written to the disk is a step,
so that a stop between any two is considered. Sectors hold a few cells. The free map and the directory are
stored in files, as in the code, and are read and written through `ReadAt` and `WriteAt`; a directory entry takes two
cells and may lie across two sectors. **FsTest** adds `Copy`, `Print`, `Remove` and `PerformanceTest` as clients.

**Mips** executes instructions given by their fields, on words of W bits (**MipsWords**). The program is any
sequence of instructions that keeps the machine's rules for delay slots. Between instructions an interrupt may switch
to another thread and back; an access may fault and be restarted. **Execute** is the second MIPS interpreter of the
repository, `bin/execute.c`, which has neither delayed loads nor exceptions. It is the specification Mips is compared
with. `Common` lists where the two differ on purpose or by mistake (section 4).

An operator introduced by "Fault:" is a deliberately wrong version of the definition that follows it.
No specification uses these. Each shows that a property can fail: with the fault in place TLC must find a violation.


## 3. Model checking

Passing runs:

| Run | Instance | Distinct states | What it shows |
|---|---|---|---|
| MCKernel | 4 threads, a mutex, a device semaphore, 2 units | 396,138 | no thread is queued twice or used after deletion; no wakeup is lost; a halt means that nobody can go on; every ready thread runs; the kernel implements `SemaphoreSpec` with its fairness |
| MCSynchList | 3 threads, 2 items, 2 calls each | 362,221 | the lock excludes and each waiter is queued once; no signal is lost; the list implements `SynchListSpec` with its fairness |
| MCDinningPh | 5 philosophers, as in the code | 42,292 | neighbours do not eat together; `pickup` returns with the sticks; nobody is forgotten; somebody gets to eat |
| MCWater | 5 atoms of any mix | 218,876 | matter is conserved and no molecule is missed; every atom finishes |
| MCProcesses | seven workloads (below) | 2,197,948 | what one thread's `Exit`, or a switch, does leaves the tables, memory and pids of the others intact; `Join` returns only after the exit; the console is used by one thread at a time |
| MCProcessesLive | `Fork` and `Exit`, 4 threads | 43,989 | the wait for the children in `Exit` ends |
| MCPaging | 2 processes of 3 pages (1 written), 3 frames, 2 TLB entries, 6 swap frames, 2 values | about 215,000 | page tables, inverted table, TLB and swap map agree; processes find what they stored |
| MCDevices | 2 disk clients with the timer, or 1 with the console; 2 tracks of 2 sectors | 397,882 | interrupts run in time; every disk request has its own answer, after the head has passed the sector; the echo is in order; nobody waits for ever |
| MCPostOffice | 2 machines, 3 clients, 2 boxes, 3 mails | 78,266 | sends do not overlap; the post office implements `MailSpec`; acknowledgements are true; without losses `MailTest` ends |
| MCFileSystem | 10 sectors of 3 cells, 2 directory entries, files of 0, 1 and 5 cells | 482,945 | files hold what was written; the free map is exact between operations; a stop harms at most the file of the current operation |
| MCMips | 8-bit words, 43 machines, every instruction, 2 in a row | 316,747 | restarts are transparent; products are exact; the simulator agrees with `bin/execute.c` |

In a behaviour of Processes the programs keep to one workload: a set of system calls, and how many threads,
semaphores and files they use. MCProcesses has threads that fork and join (4 threads), processes that execute and
join (4), threads that share two semaphores (3), threads that share two files (3), threads that join and share a file and two
semaphores (2), threads and processes that use the console (3), and two threads that make every call but `Read` and
`Write`.
Several properties are stated for programs that leave out a call, because with it the code does not have the
property:

| Property | Holds without | With it |
|---|---|---|
| `ForkedFinishFirst` | `Exec` | `Exec` counts no children (section 4) |
| `OpenPidExists` | `Exec` | an `Exec` of a missing file leaves its pid open (`exception.cc:260`) |
| `TablesExact`, semaphores | `Exec`, `SemDestroy` | `SemDestroy` deletes what other threads can name |
| `TablesExact`, files in tables | `Exec`, `Close` | `Close` closes the descriptor for all threads that share it (`exception.cc:490`) |
| `TablesExact`, no leaks | `Create` | `Create` drops the descriptor that `creat` returns (`exception.cc:333`) |
| `ProcessMemoryOwn` | `Fork` | run MCForkFrames; sharing is what `Fork` is for |

Why the bounds are enough.
- Three threads besides the main one are the least that give a signaller, a woken thread and one that barges in
  between; they also let a second carcass replace the first. Two items or units distinguish "first" from "any".
- Five atoms make a molecule and leave two atoms over.
- With four threads a pid is given again while somebody is still inside the `Join` for its last owner.
- Two processes of three pages do not fit in three frames, so each evicts pages of the other and of its own, clean and
  dirty; the two TLB entries are fewer than the frames, so a page may be in memory with or without an entry; two values
  tell the last store from an earlier one. With two written pages the same properties hold in 6,640,316 states; that
  instance takes 25 minutes and is not among the runs.
- Two tracks of two sectors give requests with and without a seek, at every position of the head. A seek and
  a poll take 3 ticks and a sector 2, so that interrupts fall together and apart.
- Three mails are one in the mailbox, one in the device and one in the socket.
- The directory takes two sectors, with an entry across their edge, and files end inside a sector; reads and writes
  start and end at a sector's edge, inside it and beyond the end of the file. There is no room for two large files
  and no entry for a third, so `Create` also fails.
- Eight-bit words keep every case of sign, carry and overflow. Operands are taken at the edges (0, 1, the greatest and
  the least number, -1, half words); two instructions are a load and its delay slot, or a branch and its own.

The bounds on counters (`MaxUnits`, `MaxCalls`, `MaxMail`, `MaxTyped`, `MaxSteps`, the workload, the room in the tables)
are guards of the actions that would exceed them.
MCPaging and MCFileSystem use a VIEW that leaves out what unmarked frames and free sectors hold. Nothing reads these
before they are written, except that a new file shows what its sectors held, for which `files` says "any".

Deadlock is checked for the kernel, where a halted machine stutters, and for the philosophers.
It is not checked where the system really may stop: when all threads have made their calls, when all atoms are done,
when the programs have exited or wait for each other, when a machine has halted, or when a bound is reached.

Fairness.
- NachosKernel: weak fairness of the kernel's own steps, since the host process does not stop; strong fairness of
  `Yield`, since the timer of `-rs` fires again and again while threads run.
- Monitor clients and Water: weak fairness of every thread's non-blocking statements (`ReadyThreadRuns`), and of
  "somebody takes the unit" for the shared semaphores. Fairness for one particular thread is not assumed: `P` lets
  threads barge in, and SemaphoreSpec promises no more.
- DinningPh: who eats calls `putdown`, since `Philo` sleeps for a bounded time.
- Processes: weak fairness of `Dispatch`, strong fairness of each thread's kernel steps, and programs that come to
  their `Exit`. It is what `ReadyThreadRuns` provides.
- Devices: weak fairness of the machine's steps. Strong fairness of the threads' steps: the timer's intervals are random,
  so some leave a thread the time for a step, and a thread that runs is never suspended for ever between two ticks.
- PostOffice: weak fairness of each machine's device and worker (the device polls for ever, the worker is a thread of
  its own) and of each client's steps inside a call or `MailTest`.

## 4. Where the code and its comments disagree

Run MCForkFrames ends in a counterexample, which `PROJECT.json` describes with the comment it contradicts: the
destructor of an address space looks at the counters of the thread that runs next, and frees frames that live threads
share (`FramesHeld`, `addrspace.cc:214-216`).

The modules also state the following, which a comment says and the code does not do. No run lists them; each fails
when it is added to the run named here.

| Property | Run | What the trace shows |
|---|---|---|
| `NoCarcassForgotten` | MCKernel | a finished thread is forgotten when the next one is new and finishes too (`scheduler.cc:124`) |
| `WaterWaitsForAtoms` | MCWater | `water()` calls the host's `wait()`, and returns before its threads end (`threadtest.cc:103`) |
| `ChildrenFinishFirst` | MCProcesses | `Exit` does not wait for children started with `Exec` (`exception.cc:189`) |
| `JoinedFatherSignalled` | MCProcesses | a second `Join` on a pid replaces the first one's semaphore (`exception.cc:309`) |
| `DestroyFreesSleepers` | MCProcesses | threads that `Destroy` wakes test the value, which is 0, and sleep again (`exception.cc:581`) |
| `EvictedLeavesTLB` | MCPaging | "If that page was in the tlb, remove it from there": it stays (`exception.cc:149-154`) |

`damage` in Paging names what breaks the memory of processes: the stale TLB entry above; a destructor that takes the
swap frame in `physicalPage` for a frame of main memory, or frees only the stack because the next thread has children
(`addrspace.cc:211-233`); and a full swap file (`exception.cc:113`). `ImplementsMemory` and `FramesOwned` hold up to there.

`Common` in Mips lists where `mipssim.cc` and `bin/execute.c` differ. In `mipssim.cc`, `OR` combines `rs` with itself
(line 376), and `SRL` and `SRLV` shift arithmetically (line 447). In `execute.c`, the immediate operands of `ANDI`,
`ORI` and `XORI` are sign-extended, variable shifts are not reduced, a division by zero is not tested for, and products
of large numbers lose carries. Besides, `DIV` of the least number by -1 ends the simulator (`DivisionTraps`).

## 5. Proofs

All theorems hold for any set of threads (finite where a count needs it) and any values of the other constants that
satisfy the named ASSUMEs.

**ThreadsProofs** extends NachosKernel, Water and DinningPh, which share no constant and no variable: an assumption
about the table or the atoms says nothing about the kernel.

*The kernel.* `ThreadInOnePlace` is not inductive: to see that `V` does not make a queued thread ready
twice one must know what a thread's continuation says about its status. `Inv` adds
`ContinuationInv` (continuation, status, `inP` and `cpu` agree) and `CarcassInv` (`threadToBeDestroyed` has finished,
is not yet deleted, and is not on the CPU). Lemmas say what `Append` and `Remove` do to a duplicate-free list.
From `Inv` follow `TypeCorrect`, `OnePlace` and `NoDangling`. `NoWakeupLost` is a second induction on top of `Inv`, in
which the set of woken threads is counted. `HaltsOnlyWhenStuck` uses both: a halted machine has an empty ready list,
so no thread is woken, so a semaphore with sleepers has no unit.
`Refinement`: every step is a step of `SemaphoreSpec` or leaves its variables alone.

*DinningPh.* `DInv` adds what state a philosopher is in at each statement, that `test`'s finding still holds
when the state is changed, and that a hungry philosopher has an eating neighbour or is about to be tested.
That `pickup` may use `if` follows from the fact that only the granting of sticks signals `self[i]`, and that only
philosopher `i` leaves "Eating".

*Water.* `AtomsAccounted` speaks of the moments when no atom is in the middle of its update. `WInv` says what
holds in the middle: the three semaphores let one atom into the body (`Exclusive`), and at each statement
the counters miss exactly the atoms that are in the half-made molecule (`HalfWay`, `Balanced`). That the counters are
never decremented at zero, and that an `O` needs two `H` where an `H` needs one more, follow from the tests,
which stay true because nobody else changes the counters.

**SynchListProofs** begins with the lemmas that any client of Monitor needs: `LockInv` (the lock's words, the holder
and the labels agree, which includes the code's ASSERTs) and `WaiterQueuedOnce` are preserved by the monitor's steps,
and by client steps that only move between labels inside the monitor. ThreadsProofs has its own copy of those
that DinningPh needs, since the two clients assume different labels and conditions.
`SInv` adds what `Remove` and `Append` know at each statement. `SignalsNotLost` counts threads on
their way to the list against items. `Refinement` maps a call to its effect on the list.

**PostOfficeProofs.** `PInv` has a part for each of the two protocols on a machine. `SendInv`: the holder of
`sendLock` is the one whose packet is being sent or whose unit is in `messageSent`, and without a holder there is
neither. `WorkerInv`: a unit in `messageAvailable`, or the worker that has taken it, stands for the packet in the
device's buffer. `SendsOneAtATime` and `WorkerFindsPacket` follow, for any number of machines and clients and whatever
is lost. On top of it `MailTest` has an invariant of its own, `MailTestInv`: every packet in a machine, from the
socket to the mailbox, is addressed to it, and one for box 1 is there only once the machine was heard (`Delivery`);
what a tester is about to send, and how far it has come, agree (`Testing`). So whoever has an acknowledgement was
heard, between any number of machines (`AcknowledgedWasHeard`). That no packet goes to a machine that has halted is
true of two machines only: an acknowledgement is the last thing the other one sends (`Settled`). With a third machine
that still sends to the first it fails, so `MailTestSafe` assumes `TwoMachines`, which is how `nettest.cc` is meant to
be run.

`MailRefinement` shows `ImplementsMail`. A line of MailSpec is what is in a mailbox, followed by what `ToBox` picks for it
from the packets on their way (the worker's, the device's, the socket's, in this order). `ToBox` is defined by counting,
the nth packet for a box being the one with n - 1 before it, so that the theorems on cardinalities apply: a packet that
joins at the end joins the line of its box, and taking the first packet takes the first of one line (`ToBoxAppend`,
`ToBoxTail`). Each step then keeps all lines, or sends or receives in one of them; that the device and the worker hold one
packet each, so that nothing is overtaken, is `WorkerInv`.

**DevicesProofs.** Times are relative in the model, so most of the argument is arithmetic with remainders, for which
the module has its own lemmas on division. `DInv` has four parts besides the types. `TimeInv`: `pending` is in the
order of time and has one interrupt of the disk exactly while it is active, and one of the display while that is busy
(`Listed`); the track buffer was started where a sector begins, and between requests it has been started (`HeadAt`); a
disk interrupt comes no earlier than the end of its seek (`AfterSeek`). That `SortedInsert` keeps the order is proved
position by position. `DueInv`: while a thread runs, or goes to sleep, no device is late (a timer that `Idle` left
alone may be). `DiskInv`: the lock is free and the disk rests, or one client holds the lock, and the answer is on its
way or in the semaphore exactly while that client waits. `EchoInv`: what is still to be echoed is the console's buffer
followed by what is typed and not read, and the units of the two semaphores agree with the buffer and the display.
`InterruptsInOrder`, `SynchDiskIsSynchronous` and `EchoIsFaithful` follow. `LatencyIsRight` needs in addition that the
times `ComputeLatency` adds up (seek, rotation to a sector's start, one sector) end with the first pass of the sector
after the seek (`HeadComesRound`), and that what it calls buffered has passed since the buffer was started
(`BufferHasSeen`). Two assumptions are of the model's making: the console's thread is not one of the disk's clients,
and end of file is no character.

**PagingProofs.** `PInv` has four parts besides the types. `Owned`: marked frames and pages in memory correspond one to
one, by the inverted table. `Swapped`: each page in the SWAP has a marked frame there of its own. `Cached`: a TLB
entry is empty or of a page in memory of the current thread, no page has two, and a page that the page table says is
dirty is dirty in the TLB too. `Clean`: a page in memory that neither the page table nor the TLB calls dirty is as in
the program's file; without it an eviction that does not write could not be justified. The page fault handler passes
through intermediate page tables, so these parts have the tables as parameters, and each half of the handler
(the TLB's victim, the frame's victim, the page that comes in) has a lemma. The second-chance loops are counted by
`Passed`; that they end at an entry, or at a frame, needs that the sizes are not zero. `PagingInvariant` says
`damage = {} => PInv` always holds: the four ways of `damage` are exactly the places where the step lemmas would fail.
`FramesAreOwned` follows from it. `Refinement`: every step is a store of `VirtualMemory` in the page that was named, or
changes nothing that `Found` gives for any page of any process, or does damage.

**ProcessesProofs.** The invariants are in layers, each inductive relative to the ones before. For each there is a frame
that says what most actions leave alone, a lemma that such a step keeps the invariant, and a lemma for each action that
is not of this kind. All theorems hold for any programs, also when the tables or the memory are full.
- `PInv` has two parts besides the types. `SpaceInv`: a thread that has come to its program has an address space, and
  if it is current that one is loaded; a thread in `ThreadRoot` may run with another's until its function loads its
  own. `JoinInv`: as long as a process has not left, the semaphore in its entry of the threads table belongs to a
  thread that is in `Join` for it and has no unit; so a unit comes from the process that is waited for, although pids
  are used again and a second `Join` replaces the first one's semaphore. `AlwaysInOwnSpace` and `JoinWaitsForExit`
  follow.
- `ConsoleInv` names the one thread that has the console when the mutex is 0. `ConsoleIsShared` follows.
- `KinInv`, for programs without `Exec`. That `Exit` waits for the children follows only when `usage` is exactly one
  more than the number of children that have not left (`Counted`, with the theorems on cardinalities), which needs that
  a thread that was never created has no kin (`Unborn`). `ForkedFinish` and `OpenPidsExist` follow. `Tree`, that
  every set of threads has one whose father is not in it, is for the tables below.
- `MemoryInv`, for programs without `Fork`: the marked frames are those of the address spaces, each of one space, and
  nobody has children, so that the destructor, which looks at whoever runs next, frees the whole space. That
  the `Find`s of `Exec` succeed is a count: two frames for each space, and the test of the free frames before.
  `MemoryIsOwn` follows.
- `LeakInv`: what the host has open was opened by an active thread (one that is live and has not left).
  `FileInv`, for programs without `Exec` and `Close`, and `SemInv`, without `Exec` and `SemDestroy`, are two instances
  of one predicate, `Shared`: what a thread has in its table it opened itself or has from a father who still has it
  in the same place (`Traced`), it exists, and it was opened by one active thread at most. The case that matters is
  `Exit`, which closes what the thread opened. Suppose another thread had one of these: follow it from son to father; by
  `Tree` this ends, at a thread that opened it, which must be the one that exits; but that one has no children left
  (`OnlyTheOwner`). `TablesAreExact` follows. It says of a thread that has left nothing about files:
  after its `V` in `Exit` its father may exit and close them, while the thread still has to finish.

**FileSystemProofs** and **FsTestProofs.** The properties speak of files, the disk has sectors, and an operation
writes them one at a time; so the inductive invariant `FsInv` says for every phase of an operation what is on the disk.
`Base(T, M)` is what holds in all of them: the directory `T` and the map `M` that belong together, where `T` has no
name twice and no free entry before a used one with the same name (a removed file leaves its name behind), every file
has a header and sectors of its own, and `M` marks exactly these and the system's. `Phase` then says how far the disk is
from `T` and `M`. In `Quiet` both are stored and every file holds what was written to it. `Writing`, `Creating` and
`Removing` have one case for each list of tasks that can be left, and in each the file that is being written back
(`Arriving`) is a mixture of its old and its new cells whose remaining sectors are in `writes`. `Formatting` has the
six steps of a new disk. That `DiskOK /\ Phase` is inductive was first checked with TLC on the instance of MCFileSystem.

FileSystemProofs has the lemmas on the operators: division of positions into sectors, what `ReadAt` returns and
`WriteAt` puts in each sector (`BufferExact`: the partial first and last sectors keep the cells around the write), that
`Allocate` gives as many clear sectors as it counts and no sector twice, and that the map and the table read back from
the cells are those that were stored; and it shows that each task moves from phase to phase. FsTestProofs does the same
for the calls of a client; there `CmdInv` says how far `Copy` and `Print` have come, and the theorems follow.
`BitmapIsExact` and `ClientsAreServed` read off `Quiet`. `StopHarmsNoOther` needs all phases: with the directory half
written, a mixture of the old and the new entry could lead to another file. It does not, because only one entry differs,
because an entry in use is found before a free one of the same name, and because no half-written map loses a mark of
another file's sectors.

The assumptions are those the code makes of its constants (the map fills whole bytes; the two system files fit on the
disk). Three are of the model's making: the marks "any" and "garbage" are neither values nor names, `NULL` is no header,
and what is copied are sequences of values.

Only model-checked, and why:
- all liveness properties, and the fairness part of the refinements: TLAPS does not prove liveness under fairness or
  reason about ENABLED;
- Mips and Execute (`RestartTransparent`, `MultExact`, agreement with `bin/execute.c`), which use recursion and
  bitwise operators, which the prover does not support.

## 6. What is not modelled, and why

- `preemptive.cc`. It traces the kernel's host process and injects a call of `Yield` at any machine instruction; a
  faithful model would be one of the compiled kernel, with its registers, flags and stack. The modules of the thread library
  interleave statement by statement, which is what `-p` does to code built on atomic `P` and `V`; Processes and
  Devices switch only where interrupts are turned on.
- `Condition::Broadcast`, which is never called.
- In Processes: what a full table does (`Find`'s -1 is used as an index, with effects that depend on the host's heap);
  the contents of files, which are the host's; the name that `Exec` reads, whose outcome is left open.
- In Paging: `SaveState` also writes back empty TLB entries at index -1, outside the page table (`addrspace.cc:278`); the
  effect depends on the heap. The loading of a program is the function `FromFile`, without the byte order.
- In FileSystem: concurrent callers (the code excludes them by assumption); files larger than `NumDirect` sectors, which
  `FileHeader::Allocate` does not refuse and which overrun the header; `List` and `Print`, which only print.
- In Mips: the decoding of bit fields, the debugger.
- Host calls other than those of the devices, statistics, debug output (`sysdep.cc`, `stats.cc`, `utility.cc`),
  command-line parsing, the offline tools in `bin/` other than `execute.c`, the test programs in `test/`, which are
  instances of Processes' arbitrary programs, and the exercises in `c++example/`.
