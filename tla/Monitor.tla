------------------------------ MODULE Monitor ------------------------------
(***************************************************************************)
(* Lock and Condition (threads/synch.cc): a monitor lock and its condition *)
(* variables, built from semaphores.  The semaphores are those of          *)
(* SemaphoreSpec, which NachosKernel implements.                           *)
(*                                                                         *)
(* A client module EXTENDS this one and interleaves its own steps, taken   *)
(* while it holds the lock, with the steps below.  Every statement that    *)
(* touches shared state is a step of its own: a thread may lose the CPU    *)
(* after any of them.                                                      *)
(***************************************************************************)
EXTENDS Naturals, Sequences, FiniteSets, Functions

CONSTANTS
    Callers,        \* the threads that use the lock
    None,           \* NULL
    Conditions,     \* the Condition objects used with the lock
    Inside,         \* the client's labels between Acquire and Release
    Outside         \* the client's labels where it does not hold the lock

MonitorLabels == {"Acquire", "Holder", "Release", "Unlock", "Wait", "WaitP"}

ASSUME MonitorAssumption ==
    /\ IsFiniteSet(Callers)
    /\ None \notin Callers
    /\ Inside \cap Outside = {}
    /\ MonitorLabels \cap (Inside \cup Outside) = {}

VARIABLES
    mutex,          \* Lock::mutex's value
    lockHolder,     \* Lock::lockHolder
    waitQueue,      \* Condition::waitQueue, a waiter semaphore named after its creator
    waiter,         \* the value of the semaphore that the thread's Wait allocated
    pc,             \* the statement each thread is about to execute
    ret,            \* the client's label that Acquire, Release or Wait returns to
    inWait          \* the thread is inside Condition::Wait, on this condition, or None

monitorVars == <<mutex, lockHolder, waitQueue, waiter, pc, ret, inWait>>

Labels == MonitorLabels \cup Inside \cup Outside

MonitorTypeOK ==
    /\ mutex \in Nat
    /\ lockHolder \in Callers \cup {None}
    /\ waitQueue \in [Conditions -> Seq(Callers)]
    /\ waiter \in [Callers -> Nat]
    /\ pc \in [Callers -> Labels]
    /\ ret \in [Callers -> Inside \cup Outside]
    /\ inWait \in [Callers -> Conditions \cup {None}]

(* Lock::Lock and Condition::Condition, with every thread at label start.  *)
MonitorInit(start) ==
    /\ mutex = 1
    /\ lockHolder = None
    /\ waitQueue = [c \in Conditions |-> <<>>]
    /\ waiter = [t \in Callers |-> 0]
    /\ pc = [t \in Callers |-> start]
    /\ ret = [t \in Callers |-> start]
    /\ inWait = [t \in Callers |-> None]

Goto(t, label) == pc' = [pc EXCEPT ![t] = label]

(* Calls: the client's current statement ends by calling one of these.     *)
Call(t, routine, then) ==
    /\ Goto(t, routine)
    /\ ret' = [ret EXCEPT ![t] = then]

CallWait(t, c, then) ==
    /\ Call(t, "Wait", then)
    /\ inWait' = [inWait EXCEPT ![t] = c]

-----------------------------------------------------------------------------
(* Lock::Acquire.                                                          *)

(* Fault: the mutex is not waited for.                                     *)
AcquirePNoWait(t) ==
    /\ pc[t] = "Acquire"
    /\ mutex' = 0
    /\ Goto(t, "Holder")
    /\ UNCHANGED <<lockHolder, waitQueue, waiter, ret, inWait>>

AcquireP(t) ==
    /\ pc[t] = "Acquire"
    /\ mutex > 0
    /\ mutex' = mutex - 1
    /\ Goto(t, "Holder")
    /\ UNCHANGED <<lockHolder, waitQueue, waiter, ret, inWait>>

(* lockHolder = currentThread, and return; Wait, which ends with Acquire,  *)
(* returns with it.                                                        *)
AcquireHolder(t) ==
    /\ pc[t] = "Holder"
    /\ lockHolder' = t
    /\ inWait' = [inWait EXCEPT ![t] = None]
    /\ Goto(t, ret[t])
    /\ UNCHANGED <<mutex, waitQueue, waiter, ret>>

-----------------------------------------------------------------------------
(* Lock::Release.                                                          *)

ReleaseHolder(t) ==
    /\ pc[t] = "Release"
    /\ lockHolder' = None
    /\ Goto(t, "Unlock")
    /\ UNCHANGED <<mutex, waitQueue, waiter, ret, inWait>>

ReleaseV(t) ==
    /\ pc[t] = "Unlock"
    /\ mutex' = mutex + 1
    /\ Goto(t, IF inWait[t] = None THEN ret[t] ELSE "WaitP")
    /\ UNCHANGED <<lockHolder, waitQueue, waiter, ret, inWait>>

-----------------------------------------------------------------------------
(* Condition::Wait: queue a fresh semaphore, Release, P on it, Acquire.    *)

WaitAppend(t) ==
    /\ pc[t] = "Wait"
    /\ waiter' = [waiter EXCEPT ![t] = 0]
    /\ waitQueue' = [waitQueue EXCEPT ![inWait[t]] = Append(@, t)]
    /\ Goto(t, "Release")
    /\ UNCHANGED <<mutex, lockHolder, ret, inWait>>

WaitP(t) ==
    /\ pc[t] = "WaitP"
    /\ waiter[t] > 0
    /\ waiter' = [waiter EXCEPT ![t] = @ - 1]
    /\ Goto(t, "Acquire")
    /\ UNCHANGED <<mutex, lockHolder, waitQueue, ret, inWait>>

(* Fault: the semaphore stays on the queue.                                *)
SignalKeepsWaiter(c) ==
    IF waitQueue[c] = <<>>
    THEN UNCHANGED <<waitQueue, waiter>>
    ELSE /\ waiter' = [waiter EXCEPT ![Head(waitQueue[c])] = @ + 1]
         /\ UNCHANGED waitQueue

(* Condition::Signal, called at one of the client's labels.                *)
Signal(c) ==
    IF waitQueue[c] = <<>>
    THEN UNCHANGED <<waitQueue, waiter>>
    ELSE /\ waitQueue' = [waitQueue EXCEPT ![c] = Tail(@)]
         /\ waiter' = [waiter EXCEPT ![Head(waitQueue[c])] = @ + 1]

(* The steps that wait for nobody.                                         *)
NonBlocking(t) == AcquireHolder(t) \/ ReleaseHolder(t) \/ ReleaseV(t) \/ WaitAppend(t)

-----------------------------------------------------------------------------
(* The thread has decremented mutex and not yet incremented it.            *)
HasMutex(t) == pc[t] \in {"Holder", "Release", "Unlock", "Wait"} \cup Inside

(* At most one thread is between Acquire and Release, and it is the one    *)
(* that the ASSERT(isHeldByCurrentThread()) of Release, Wait and Signal    *)
(* looks for: lockHolder, which is not updated together with mutex, is     *)
(* never another thread's or NULL where the ASSERTs read it.               *)
LockProtects ==
    /\ \A t, u \in Callers : HasMutex(t) /\ HasMutex(u) => t = u
    /\ \A t \in Callers : pc[t] \in {"Release", "Wait"} \cup Inside => lockHolder = t

(* Where a routine returns to agrees with where it was called from.        *)
ControlInv ==
    \A t \in Callers :
        /\ pc[t] \in {"Acquire", "Holder", "Wait", "WaitP"} => ret[t] \in Inside
        /\ pc[t] \in {"Release", "Unlock"} /\ inWait[t] = None => ret[t] \in Outside
        /\ pc[t] \in {"Release", "Unlock"} /\ inWait[t] # None => ret[t] \in Inside
        /\ pc[t] \in {"Wait", "WaitP"} => inWait[t] \in Conditions
        /\ pc[t] \in Inside \cup Outside => inWait[t] = None

(* The inductive form of LockProtects: the mutex is 0 while a thread has   *)
(* it.                                                                     *)
LockInv ==
    /\ MonitorTypeOK
    /\ ControlInv
    /\ mutex <= 1
    /\ \A t \in Callers : HasMutex(t) => mutex = 0
    /\ LockProtects

(* A thread that is inside Wait is on the queue of its condition exactly   *)
(* as long as nobody has signalled it, and once: no Signal can miss it and *)
(* none can reach it twice.                                                *)
WaiterQueuedOnce ==
    \A c \in Conditions :
        /\ IsInjective(waitQueue[c])
        /\ \A t \in Callers :
              /\ waiter[t] <= 1
              /\ t \in Range(waitQueue[c]) <=>
                    inWait[t] = c /\ waiter[t] = 0 /\ pc[t] \in {"Release", "Unlock", "WaitP"}

(* What a client relies on: mutual exclusion, and signals that reach whom  *)
(* they are for.                                                           *)
MonitorSafe == LockProtects /\ WaiterQueuedOnce
=============================================================================
