---------------------------- MODULE SemaphoreSpec ----------------------------
(***************************************************************************)
(* What threads/synch.h promises of a Semaphore: P waits until the value   *)
(* is positive and then decrements it, in one step; V increments it.  No   *)
(* thread list, no scheduler, no interrupts.                               *)
(***************************************************************************)
EXTENDS Naturals

CONSTANTS Threads, Semaphores, NULL, InitialValue

VARIABLES
    val,        \* the value of each semaphore
    waiting     \* the semaphore each thread is blocked on, or NULL

Init ==
    /\ val = InitialValue
    /\ waiting = [t \in Threads |-> NULL]

(* A P that need not wait.                                                 *)
Take(t, s) ==
    /\ waiting[t] = NULL
    /\ val[s] > 0
    /\ val' = [val EXCEPT ![s] = @ - 1]
    /\ UNCHANGED waiting

(* A P that has to wait, and its end.                                      *)
Wait(t, s) ==
    /\ waiting[t] = NULL
    /\ val[s] = 0
    /\ waiting' = [waiting EXCEPT ![t] = s]
    /\ UNCHANGED val

Proceed(t, s) ==
    /\ waiting[t] = s
    /\ val[s] > 0
    /\ val' = [val EXCEPT ![s] = @ - 1]
    /\ waiting' = [waiting EXCEPT ![t] = NULL]

Signal(s) ==
    /\ val' = [val EXCEPT ![s] = @ + 1]
    /\ UNCHANGED waiting

Next ==
    \E s \in Semaphores :
        \/ Signal(s)
        \/ \E t \in Threads : Take(t, s) \/ Wait(t, s) \/ Proceed(t, s)

Spec == Init /\ [][Next]_<<val, waiting>>

(* A unit that stays available is given to one of the waiting threads.     *)
FairSpec ==
    /\ Spec
    /\ \A s \in Semaphores : WF_<<val, waiting>>(\E t \in Threads : Proceed(t, s))
=============================================================================
