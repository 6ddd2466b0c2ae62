--------------------------- MODULE SynchListSpec ---------------------------
(***************************************************************************)
(* What threads/synchlist.h promises: a FIFO list on which Append and      *)
(* Remove take effect in one step between their call and their return, and *)
(* Remove waits until there is an item.                                    *)
(***************************************************************************)
EXTENDS Sequences

CONSTANTS Callers, Items, None

VARIABLES
    contents,   \* the items, oldest first
    calls,      \* the call of each thread that has not yet taken effect
    results     \* the item each thread's last Remove returned, or None

NoCall == [op |-> "none", arg |-> None]

Init ==
    /\ contents = <<>>
    /\ calls = [t \in Callers |-> NoCall]
    /\ results = [t \in Callers |-> None]

Invoke(t) ==
    /\ calls[t] = NoCall
    /\ \E call \in [op : {"Append"}, arg : Items] \cup [op : {"Remove", "Apply"}, arg : {None}] :
          calls' = [calls EXCEPT ![t] = call]
    /\ results' = [results EXCEPT ![t] = None]
    /\ UNCHANGED contents

DoAppend(t) ==
    /\ calls[t].op = "Append"
    /\ contents' = Append(contents, calls[t].arg)
    /\ calls' = [calls EXCEPT ![t] = NoCall]
    /\ UNCHANGED results

DoRemove(t) ==
    /\ calls[t].op = "Remove"
    /\ contents # <<>>
    /\ contents' = Tail(contents)
    /\ results' = [results EXCEPT ![t] = Head(contents)]
    /\ calls' = [calls EXCEPT ![t] = NoCall]

(* Apply reads the list.                                                   *)
DoApply(t) ==
    /\ calls[t].op = "Apply"
    /\ calls' = [calls EXCEPT ![t] = NoCall]
    /\ UNCHANGED <<contents, results>>

Next == \E t \in Callers : Invoke(t) \/ DoAppend(t) \/ DoRemove(t) \/ DoApply(t)

vars == <<contents, calls, results>>

Spec == Init /\ [][Next]_vars

(* Every call that can take effect does, as long as calls keep ending.     *)
FairSpec ==
    /\ Spec
    /\ WF_vars(\E t \in Callers : DoAppend(t) \/ DoRemove(t) \/ DoApply(t))
=============================================================================
