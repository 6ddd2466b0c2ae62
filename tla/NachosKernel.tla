---------------------------- MODULE NachosKernel ----------------------------
(***************************************************************************)
(* The uniprocessor core of Nachos: threads (threads/thread.cc), the FIFO  *)
(* scheduler (threads/scheduler.cc), semaphores (threads/synch.cc) and the *)
(* part of the interrupt machinery that the three rely on                  *)
(* (machine/interrupt.cc).                                                 *)
(*                                                                         *)
(* One host process runs one Nachos thread at a time.  Kernel routines     *)
(* exclude each other by turning interrupts off, so what happens between   *)
(* SetLevel(IntOff) and the next SWITCH or SetLevel(IntOn) is one step     *)
(* here.  A thread's code is arbitrary: whenever interrupts are on it may  *)
(* call any operation, and the timer may make it Yield.                    *)
(***************************************************************************)
EXTENDS Naturals, Sequences, FiniteSets, Functions

CONSTANTS
    Threads,        \* the Thread objects that may ever be allocated
    Main,           \* the thread Initialize() wraps around the host process
    Semaphores,     \* the Semaphore objects
    Devices,        \* the semaphores that interrupt handlers signal
    NULL,
    InitialValue,   \* Semaphore::Semaphore's argument
    MaxUnits        \* bound: units a semaphore has or is about to get

ASSUME KernelAssumption ==
    /\ IsFiniteSet(Threads)
    /\ Main \in Threads
    /\ Devices \subseteq Semaphores
    /\ NULL \notin Threads \cup Semaphores
    /\ InitialValue \in [Semaphores -> Nat]
    /\ MaxUnits \in Nat

VARIABLES
    status,              \* ThreadStatus, with "ABSENT" before new, "DELETED" after delete
    cont,                \* where the thread continues when it next runs
    inP,                 \* the semaphore whose P the thread is inside, or NULL
    currentThread,
    readyList,
    threadToBeDestroyed,
    value,               \* Semaphore::value
    queue,               \* Semaphore::queue
    pending,             \* scheduled interrupts, by the semaphore their handler signals
    cpu                  \* what the host process is doing (see CpuState)

threadVars == <<status, cont, inP>>
schedVars == <<currentThread, readyList, threadToBeDestroyed>>
semVars == <<value, queue>>
vars == <<threadVars, schedVars, semVars, pending, cpu>>

ThreadStatus == {"ABSENT", "JUST_CREATED", "RUNNING", "READY", "BLOCKED", "DELETED"}

(* "ThreadRoot": at the start of its own stack.  "code": in its own code   *)
(* with interrupts on.  "Yield", "P", "Finish": in the Scheduler::Run that *)
(* this routine called.                                                    *)
Continuation == {"ThreadRoot", "code", "Yield", "P", "Finish"}

(* "IntOn": running currentThread's code.  The others have interrupts off: *)
(* "Sleep": in the loop of Thread::Sleep.  "Idle": in Interrupt::Idle,     *)
(* after a handler ran.  "Switched": SWITCH has just returned in           *)
(* currentThread.  "Halted": the simulation is over.                       *)
CpuState == {"IntOn", "Sleep", "Idle", "Switched", "Halted"}

TypeOK ==
    /\ status \in [Threads -> ThreadStatus]
    /\ cont \in [Threads -> Continuation]
    /\ inP \in [Threads -> Semaphores \cup {NULL}]
    /\ currentThread \in Threads
    /\ readyList \in Seq(Threads)
    /\ threadToBeDestroyed \in Threads \cup {NULL}
    /\ value \in [Semaphores -> Nat]
    /\ queue \in [Semaphores -> Seq(Threads)]
    /\ pending \in [Devices -> Nat]
    /\ cpu \in CpuState

-----------------------------------------------------------------------------
(* Initialize(): the running host process becomes thread "main".           *)
Init ==
    /\ status = [t \in Threads |-> IF t = Main THEN "RUNNING" ELSE "ABSENT"]
    /\ cont = [t \in Threads |-> IF t = Main THEN "code" ELSE "ThreadRoot"]
    /\ inP = [t \in Threads |-> NULL]
    /\ currentThread = Main
    /\ readyList = <<>>
    /\ threadToBeDestroyed = NULL
    /\ value = InitialValue
    /\ queue = [s \in Semaphores |-> <<>>]
    /\ pending = [d \in Devices |-> 0]
    /\ cpu = "IntOn"

-----------------------------------------------------------------------------
(* Scheduler.                                                              *)

ReadyToRun(t) ==
    /\ status' = [status EXCEPT ![t] = "READY"]
    /\ readyList' = Append(readyList, t)

(* Run up to SWITCH: st and rl are the statuses and the ready list the     *)
(* caller has prepared.                                                    *)
Run(next, st, rl) ==
    /\ currentThread' = next
    /\ status' = [st EXCEPT ![next] = "RUNNING"]
    /\ readyList' = rl
    /\ cpu' = "Switched"

(* The tail of Run, executed by the resumed thread: delete the carcass.    *)
Reap ==
    IF threadToBeDestroyed = NULL
    THEN status
    ELSE [status EXCEPT ![threadToBeDestroyed] = "DELETED"]

-----------------------------------------------------------------------------
(* Threads.                                                                *)

NewThread(t) ==
    /\ cpu = "IntOn"
    /\ status[t] = "ABSENT"
    /\ status' = [status EXCEPT ![t] = "JUST_CREATED"]
    /\ UNCHANGED <<cont, inP, schedVars, semVars, pending, cpu>>

Fork(t) ==
    /\ cpu = "IntOn"
    /\ status[t] = "JUST_CREATED"
    /\ ReadyToRun(t)
    /\ UNCHANGED <<cont, inP, currentThread, threadToBeDestroyed, semVars, pending, cpu>>

(* Fault: the thread Yield switches to stays on the ready list.            *)
YieldKeepsHead ==
    /\ cpu = "IntOn"
    /\ readyList # <<>>
    /\ Run(Head(readyList), [status EXCEPT ![currentThread] = "READY"],
           Append(readyList, currentThread))
    /\ cont' = [cont EXCEPT ![currentThread] = "Yield"]
    /\ UNCHANGED <<inP, threadToBeDestroyed, semVars, pending>>

(* Fault: the yielding thread goes to the front of the ready list.         *)
YieldToFront ==
    /\ cpu = "IntOn"
    /\ readyList # <<>>
    /\ Run(Head(readyList), [status EXCEPT ![currentThread] = "READY"],
           <<currentThread>> \o Tail(readyList))
    /\ cont' = [cont EXCEPT ![currentThread] = "Yield"]
    /\ UNCHANGED <<inP, threadToBeDestroyed, semVars, pending>>

(* Called by the thread, or by OneTick on its behalf after a timer         *)
(* interrupt.  With nobody ready Yield returns at once.                    *)
Yield ==
    /\ cpu = "IntOn"
    /\ readyList # <<>>
    /\ Run(Head(readyList), [status EXCEPT ![currentThread] = "READY"],
           Append(Tail(readyList), currentThread))
    /\ cont' = [cont EXCEPT ![currentThread] = "Yield"]
    /\ UNCHANGED <<inP, threadToBeDestroyed, semVars, pending>>

(* Fault: interrupts stay on, so a time slice can fall between setting     *)
(* threadToBeDestroyed and going to sleep.                                 *)
FinishInterruptible ==
    /\ cpu = "IntOn"
    /\ \/ /\ threadToBeDestroyed' = currentThread
          /\ UNCHANGED <<status, cont, cpu>>
       \/ /\ threadToBeDestroyed = currentThread
          /\ status' = [status EXCEPT ![currentThread] = "BLOCKED"]
          /\ cont' = [cont EXCEPT ![currentThread] = "Finish"]
          /\ cpu' = "Sleep"
          /\ UNCHANGED threadToBeDestroyed
    /\ UNCHANGED <<inP, currentThread, readyList, semVars, pending>>

Finish ==
    /\ cpu = "IntOn"
    /\ threadToBeDestroyed' = currentThread
    /\ status' = [status EXCEPT ![currentThread] = "BLOCKED"]
    /\ cont' = [cont EXCEPT ![currentThread] = "Finish"]
    /\ cpu' = "Sleep"
    /\ UNCHANGED <<inP, currentThread, readyList, semVars, pending>>

(* The loop of Thread::Sleep: somebody is ready.  It may be the sleeping   *)
(* thread itself, woken by a handler while the machine idled.              *)
SleepDispatch ==
    /\ cpu = "Sleep"
    /\ readyList # <<>>
    /\ Run(Head(readyList), status, Tail(readyList))
    /\ UNCHANGED <<cont, inP, threadToBeDestroyed, semVars, pending>>

(* A fresh stack starts in ThreadRoot, not in the tail of Run.             *)
ThreadRoot ==
    /\ cpu = "Switched"
    /\ cont[currentThread] = "ThreadRoot"
    /\ cont' = [cont EXCEPT ![currentThread] = "code"]
    /\ cpu' = "IntOn"
    /\ UNCHANGED <<status, inP, schedVars, semVars, pending>>

ReturnFromYield ==
    /\ cpu = "Switched"
    /\ cont[currentThread] = "Yield"
    /\ status' = Reap
    /\ threadToBeDestroyed' = NULL
    /\ cont' = [cont EXCEPT ![currentThread] = "code"]
    /\ cpu' = "IntOn"
    /\ UNCHANGED <<inP, currentThread, readyList, semVars, pending>>

-----------------------------------------------------------------------------
(* Semaphores.                                                             *)

(* Fault: the value is not tested.                                         *)
TakeUnitUntested(s) ==
    /\ value' = [value EXCEPT ![s] = @ - 1]
    /\ inP' = [inP EXCEPT ![currentThread] = NULL]
    /\ cont' = [cont EXCEPT ![currentThread] = "code"]
    /\ cpu' = "IntOn"
    /\ UNCHANGED queue

(* One pass of P's loop that finds value > 0: the call returns.            *)
TakeUnit(s) ==
    /\ value[s] > 0
    /\ value' = [value EXCEPT ![s] = @ - 1]
    /\ inP' = [inP EXCEPT ![currentThread] = NULL]
    /\ cont' = [cont EXCEPT ![currentThread] = "code"]
    /\ cpu' = "IntOn"
    /\ UNCHANGED queue

(* One pass that finds value = 0: queue up and enter Thread::Sleep.        *)
Enqueue(s) ==
    /\ value[s] = 0
    /\ queue' = [queue EXCEPT ![s] = Append(@, currentThread)]
    /\ inP' = [inP EXCEPT ![currentThread] = s]
    /\ cont' = [cont EXCEPT ![currentThread] = "P"]
    /\ cpu' = "Sleep"
    /\ UNCHANGED value

P(s) ==
    /\ cpu = "IntOn"
    /\ \/ /\ TakeUnit(s)
          /\ UNCHANGED status
       \/ /\ Enqueue(s)
          /\ status' = [status EXCEPT ![currentThread] = "BLOCKED"]
    /\ UNCHANGED <<schedVars, pending>>

(* Fault: an "if" where P has its "while".                                 *)
ReturnInPUntested(s) ==
    /\ cpu = "Switched"
    /\ cont[currentThread] = "P"
    /\ inP[currentThread] = s
    /\ TakeUnitUntested(s)
    /\ status' = Reap
    /\ threadToBeDestroyed' = NULL
    /\ UNCHANGED <<currentThread, readyList, pending>>

(* A thread woken inside P runs the tail of Run and tests the value again. *)
ReturnInP(s) ==
    /\ cpu = "Switched"
    /\ cont[currentThread] = "P"
    /\ inP[currentThread] = s
    /\ \/ /\ TakeUnit(s)
          /\ status' = Reap
       \/ /\ Enqueue(s)
          /\ status' = [Reap EXCEPT ![currentThread] = "BLOCKED"]
    /\ threadToBeDestroyed' = NULL
    /\ UNCHANGED <<currentThread, readyList, pending>>

(* Fault: V wakes a thread only when the value was 0.                      *)
SignalOnlyFromZero(s) ==
    /\ value' = [value EXCEPT ![s] = @ + 1]
    /\ \/ /\ queue[s] = <<>> \/ value[s] > 0
          /\ UNCHANGED <<queue, status, readyList>>
       \/ /\ queue[s] # <<>> /\ value[s] = 0
          /\ queue' = [queue EXCEPT ![s] = Tail(@)]
          /\ ReadyToRun(Head(queue[s]))
    /\ UNCHANGED <<cont, inP, currentThread, threadToBeDestroyed>>

(* The body of Semaphore::V, run by a thread or by an interrupt handler.   *)
SignalSemaphore(s) ==
    /\ value' = [value EXCEPT ![s] = @ + 1]
    /\ \/ /\ queue[s] = <<>>
          /\ UNCHANGED <<queue, status, readyList>>
       \/ /\ queue[s] # <<>>
          /\ queue' = [queue EXCEPT ![s] = Tail(@)]
          /\ ReadyToRun(Head(queue[s]))
    /\ UNCHANGED <<cont, inP, currentThread, threadToBeDestroyed>>

(* The bound on V and Schedule: s's value once its pending interrupts fire. *)
Units(s) == value[s] + (IF s \in Devices THEN pending[s] ELSE 0)

V(s) ==
    /\ cpu = "IntOn"
    /\ Units(s) < MaxUnits
    /\ SignalSemaphore(s)
    /\ UNCHANGED <<pending, cpu>>

-----------------------------------------------------------------------------
(* Interrupts.  A device request schedules an interrupt whose handler      *)
(* signals the semaphore d; when it fires is left open.                    *)

Schedule(d) ==
    /\ cpu = "IntOn"
    /\ Units(d) < MaxUnits
    /\ pending' = [pending EXCEPT ![d] = @ + 1]
    /\ UNCHANGED <<threadVars, schedVars, semVars, cpu>>

(* CheckIfDue finds d's interrupt due and calls its handler.               *)
CheckIfDue(d) ==
    /\ pending[d] > 0
    /\ pending' = [pending EXCEPT ![d] = @ - 1]
    /\ SignalSemaphore(d)

OneTick(d) ==
    /\ cpu = "IntOn"
    /\ CheckIfDue(d)
    /\ UNCHANGED cpu

(* Nobody is ready: the clock jumps to the next interrupt, then the other  *)
(* interrupts that are due at that time fire too.                          *)
Idle(d) ==
    /\ \/ cpu = "Sleep" /\ readyList = <<>>
       \/ cpu = "Idle"
    /\ CheckIfDue(d)
    /\ cpu' = "Idle"

IdleReturn ==
    /\ cpu = "Idle"
    /\ cpu' = "Sleep"
    /\ UNCHANGED <<threadVars, schedVars, semVars, pending>>

(* Fault: the ready list is not looked at again before halting.            *)
HaltWithReadyThreads ==
    /\ cpu = "Sleep"
    /\ \A d \in Devices : pending[d] = 0
    /\ cpu' = "Halted"
    /\ UNCHANGED <<threadVars, schedVars, semVars, pending>>

Halt ==
    /\ cpu = "Sleep"
    /\ readyList = <<>>
    /\ \A d \in Devices : pending[d] = 0
    /\ cpu' = "Halted"
    /\ UNCHANGED <<threadVars, schedVars, semVars, pending>>

Halted ==
    /\ cpu = "Halted"
    /\ UNCHANGED vars

-----------------------------------------------------------------------------
(* What the running thread's code may do.                                  *)
ThreadCode ==
    \/ \E t \in Threads : NewThread(t) \/ Fork(t)
    \/ \E s \in Semaphores : P(s) \/ V(s)
    \/ \E d \in Devices : Schedule(d)
    \/ Finish

(* What the kernel does with interrupts off, without waiting for anyone.   *)
KernelStep ==
    \/ SleepDispatch
    \/ ThreadRoot
    \/ ReturnFromYield
    \/ \E s \in Semaphores : ReturnInP(s)
    \/ \E d \in Devices : Idle(d)
    \/ IdleReturn
    \/ Halt

Next ==
    \/ ThreadCode
    \/ Yield
    \/ \E d \in Devices : OneTick(d)
    \/ KernelStep
    \/ Halted

Spec == Init /\ [][Next]_vars

(* The host process never stops executing the kernel.  The timer fires     *)
(* every so many ticks, and each return to "IntOn" is a tick, so Yield     *)
(* cannot be passed over forever (nachos -rs).                             *)
FairSpec ==
    /\ Spec
    /\ WF_vars(KernelStep)
    /\ SF_vars(Yield)

-----------------------------------------------------------------------------
(* Safety.                                                                 *)

(* Every thread is in exactly one place: on the CPU, once on the ready     *)
(* list, once on the queue of the one semaphore it waits for, or nowhere   *)
(* (not started, finished, deleted).  ReadyToRun and List::Append do not   *)
(* check this; a thread queued twice would run twice on one stack.         *)
ThreadInOnePlace ==
    /\ IsInjective(readyList)
    /\ \A s \in Semaphores : IsInjective(queue[s])
    /\ \A t \in Threads :
        /\ status[t] = "READY" <=> t \in Range(readyList)
        /\ status[t] = "RUNNING" <=> t = currentThread /\ cpu \in {"IntOn", "Switched"}
        /\ \A s \in Semaphores :
              t \in Range(queue[s]) <=> status[t] = "BLOCKED" /\ inP[t] = s

(* Thread::~Thread's ASSERT(this != currentThread), and more: no list, no  *)
(* semaphore and no global still points to a deleted Thread, and what Run  *)
(* is about to delete has finished and is not running.                     *)
NoDanglingThread ==
    /\ \A t \in Threads : status[t] = "DELETED" =>
        /\ t \notin Range(readyList)
        /\ \A s \in Semaphores : t \notin Range(queue[s])
        /\ t # threadToBeDestroyed
        /\ t # currentThread
    /\ cpu = "Switched" => threadToBeDestroyed # currentThread

(* The threads that V has taken off s's queue and that have not yet tested *)
(* the value again.                                                        *)
Woken(s) == {t \in Threads : inP[t] = s /\ status[t] \in {"READY", "RUNNING"}}

(* No lost wakeup.  V wakes one thread and P lets others barge in between; *)
(* still, as long as threads sleep on s, every unit of its value is        *)
(* matched by a woken thread that is on its way to it.                     *)
NoLostWakeup ==
    \A s \in Semaphores : queue[s] # <<>> => value[s] <= Cardinality(Woken(s))

(* Interrupt::Idle halts the machine "assuming the program completed": at  *)
(* that point nobody can run, and every thread still inside a P waits for  *)
(* a semaphore that is really 0.                                           *)
HaltOnlyWhenStuck ==
    cpu = "Halted" => \A t \in Threads :
        /\ status[t] \notin {"READY", "RUNNING"}
        /\ inP[t] # NULL => value[inP[t]] = 0

-----------------------------------------------------------------------------
(* Liveness and refinement.                                                *)

(* The FIFO ready list and the timer starve nobody.                        *)
ReadyThreadRuns ==
    \A t \in Threads : (status[t] = "READY") ~> (status[t] = "RUNNING")

Abstract == INSTANCE SemaphoreSpec WITH val <- value, waiting <- inP

(* The kernel's semaphores are semaphores: a P returns only by taking a    *)
(* unit, units are neither made nor lost, and a unit that stays available  *)
(* is taken by a waiting thread.                                           *)
ImplementsSemaphores == Abstract!FairSpec

(* The safety part of it.                                                  *)
ImplementsSemaphoreSafety == Abstract!Spec

-----------------------------------------------------------------------------
(* What comments say and the code does not do.                             *)

(* thread.cc, Thread::Finish: the finished thread is left in               *)
(* threadToBeDestroyed "so that Scheduler::Run() will call the             *)
(* destructor": no finished thread is forgotten before it is deleted.      *)
NoCarcassForgotten ==
    \A t \in Threads :
        cont[t] = "Finish" /\ status[t] # "DELETED" => t = threadToBeDestroyed
=============================================================================
