------------------------------ MODULE SynchList ------------------------------
(***************************************************************************)
(* SynchList (threads/synchlist.h): a list whose Remove waits for an item, *)
(* used between threads that run at the same time (the mailboxes of the    *)
(* post office are such lists).  A client of Monitor.                      *)
(***************************************************************************)
EXTENDS Monitor

CONSTANTS
    Items,
    listEmpty,      \* SynchList::listEmpty, the only condition
    MaxCalls        \* bound: the calls a thread makes

ASSUME SynchListAssumption ==
    /\ Conditions = {listEmpty}
    /\ listEmpty # None
    /\ None \notin Items
    /\ Inside = {"append", "signal", "test", "remove", "apply"}
    /\ Outside = {"idle"}
    /\ MaxCalls \in Nat

VARIABLES
    list,           \* SynchList::list
    arg,            \* Append's argument
    item,           \* Remove's local variable, its result
    made            \* how many calls each thread has made

vars == <<monitorVars, list, arg, item, made>>

TypeOK ==
    /\ MonitorTypeOK
    /\ list \in Seq(Items)
    /\ arg \in [Callers -> Items \cup {None}]
    /\ item \in [Callers -> Items \cup {None}]
    /\ made \in [Callers -> 0..MaxCalls]

Init ==
    /\ MonitorInit("idle")
    /\ list = <<>>
    /\ arg = [t \in Callers |-> None]
    /\ item = [t \in Callers |-> None]
    /\ made = [t \in Callers |-> 0]

-----------------------------------------------------------------------------
(* A thread calls one of the three methods; all begin with Acquire.        *)
Invoke(t, body, x) ==
    /\ pc[t] = "idle"
    /\ made[t] < MaxCalls
    /\ made' = [made EXCEPT ![t] = @ + 1]
    /\ arg' = [arg EXCEPT ![t] = x]
    /\ item' = [item EXCEPT ![t] = None]
    /\ Call(t, "Acquire", body)
    /\ UNCHANGED <<mutex, lockHolder, waitQueue, waiter, inWait, list>>

CallAppend(t) == \E x \in Items : Invoke(t, "append", x)

CallRemove(t) == Invoke(t, "test", None)

CallApply(t) == Invoke(t, "apply", None)

(* Append: list->Append(item), then listEmpty->Signal(lock).               *)
AppendItem(t) ==
    /\ pc[t] = "append"
    /\ list' = Append(list, arg[t])
    /\ Goto(t, "signal")
    /\ UNCHANGED <<mutex, lockHolder, waitQueue, waiter, ret, inWait, arg, item, made>>

(* Fault: the waiter is woken only when the list was empty before.         *)
SignalEmptyOnlyFirst(t) ==
    /\ pc[t] = "signal"
    /\ IF Len(list) = 1 THEN Signal(listEmpty) ELSE UNCHANGED <<waitQueue, waiter>>
    /\ Call(t, "Release", "idle")
    /\ UNCHANGED <<mutex, lockHolder, inWait, list, arg, item, made>>

SignalEmpty(t) ==
    /\ pc[t] = "signal"
    /\ Signal(listEmpty)
    /\ Call(t, "Release", "idle")
    /\ UNCHANGED <<mutex, lockHolder, inWait, list, arg, item, made>>

(* Fault: an "if" where Remove has its "while".                            *)
TestOnce(t) ==
    /\ pc[t] = "test"
    /\ \/ /\ list = <<>>
          /\ CallWait(t, listEmpty, "remove")
       \/ /\ list # <<>>
          /\ Goto(t, "remove")
          /\ UNCHANGED <<ret, inWait>>
    /\ UNCHANGED <<mutex, lockHolder, waitQueue, waiter, list, arg, item, made>>

(* Remove: while (list->IsEmpty()) listEmpty->Wait(lock).                  *)
Test(t) ==
    /\ pc[t] = "test"
    /\ \/ /\ list = <<>>
          /\ CallWait(t, listEmpty, "test")
       \/ /\ list # <<>>
          /\ Goto(t, "remove")
          /\ UNCHANGED <<ret, inWait>>
    /\ UNCHANGED <<mutex, lockHolder, waitQueue, waiter, list, arg, item, made>>

(* item = list->Remove(): NULL from an empty list.                         *)
RemoveItem(t) ==
    /\ pc[t] = "remove"
    /\ \/ /\ list = <<>>
          /\ item' = [item EXCEPT ![t] = None]
          /\ UNCHANGED list
       \/ /\ list # <<>>
          /\ item' = [item EXCEPT ![t] = Head(list)]
          /\ list' = Tail(list)
    /\ Call(t, "Release", "idle")
    /\ UNCHANGED <<mutex, lockHolder, waitQueue, waiter, inWait, arg, made>>

(* Apply: the function is called on every item and the list is unchanged.  *)
ApplyList(t) ==
    /\ pc[t] = "apply"
    /\ Call(t, "Release", "idle")
    /\ UNCHANGED <<mutex, lockHolder, waitQueue, waiter, inWait, list, arg, item, made>>

-----------------------------------------------------------------------------
clientVars == <<list, arg, item, made>>

(* The steps of a method that wait for nobody.                             *)
Body(t) ==
    \/ NonBlocking(t) /\ UNCHANGED clientVars
    \/ AppendItem(t)
    \/ SignalEmpty(t)
    \/ Test(t)
    \/ RemoveItem(t)
    \/ ApplyList(t)

Lock(t) == AcquireP(t) /\ UNCHANGED clientVars

Wakeup(t) == WaitP(t) /\ UNCHANGED clientVars

Next ==
    \E t \in Callers :
        \/ CallAppend(t)
        \/ CallRemove(t)
        \/ CallApply(t)
        \/ Body(t)
        \/ Lock(t)
        \/ Wakeup(t)

Spec == Init /\ [][Next]_vars

(* A thread is not stopped in the middle of a method, and a unit of a      *)
(* semaphore is given to some thread that waits for it (SemaphoreSpec);    *)
(* to which one is left open, since threads may barge in.                  *)
FairSpec ==
    /\ Spec
    /\ \A t \in Callers : WF_vars(Body(t)) /\ WF_vars(Wakeup(t))
    /\ WF_vars(\E t \in Callers : Lock(t))

-----------------------------------------------------------------------------
(* The threads that will look at the list again without being signalled.   *)
OnTheWay ==
    {t \in Callers :
        \/ pc[t] \in {"test", "remove"}
        \/ inWait[t] # None /\ waiter[t] > 0
        \/ inWait[t] # None /\ pc[t] \in {"Acquire", "Holder"}}

Signalling == {t \in Callers : pc[t] = "signal"}

(* No lost signal.  A thread that Append wakes must take the lock again,   *)
(* and another Remove may take its item meanwhile; still, while threads    *)
(* sleep in Remove, every item on the list has a thread on its way to it   *)
(* (or an Append about to wake one).                                       *)
NoLostSignal ==
    waitQueue[listEmpty] # <<>> =>
        Len(list) <= Cardinality(OnTheWay) + Cardinality(Signalling)

-----------------------------------------------------------------------------
(* Refinement of SynchListSpec.                                            *)

(* The client's statement a thread is at or will return to.                *)
Position(t) == IF pc[t] \in MonitorLabels THEN ret[t] ELSE pc[t]

(* A call takes effect at the statement that reads or changes the list.    *)
AbstractCall(t) ==
    CASE Position(t) = "append" -> [op |-> "Append", arg |-> arg[t]]
      [] Position(t) \in {"test", "remove"} -> [op |-> "Remove", arg |-> None]
      [] Position(t) = "apply" -> [op |-> "Apply", arg |-> None]
      [] OTHER -> [op |-> "none", arg |-> None]

Abstract == INSTANCE SynchListSpec
    WITH contents <- list, calls <- [t \in Callers |-> AbstractCall(t)], results <- item

(* The list is a FIFO list: Append and Remove take effect in one step, a   *)
(* Remove gets the oldest item and never NULL, and calls that can take     *)
(* effect do.                                                              *)
ImplementsSynchList == Abstract!FairSpec

(* The safety part of it.                                                  *)
ImplementsSynchListSafety == Abstract!Spec
=============================================================================
