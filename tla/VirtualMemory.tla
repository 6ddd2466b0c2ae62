--------------------------- MODULE VirtualMemory ---------------------------
(***************************************************************************)
(* What the virtual memory promises to user programs: every process has    *)
(* pages of its own, that start as its program file says, that only its    *)
(* own stores change, and that keep what was last stored, wherever the     *)
(* kernel moves them.                                                      *)
(***************************************************************************)
CONSTANTS Threads, Pages, Contents, InitialContents

VARIABLES
    contents,       \* what each process finds in each of its pages
    running         \* the process that has the CPU

Init == contents = InitialContents

(* The running process stores into one of its pages, or ends, and its      *)
(* pages go with it.                                                       *)
Stored(t, old, new) ==
    \E p \in Pages : new[t][p] \in Contents /\ new = [old EXCEPT ![t][p] = new[t][p]]

Ended(t, old, new) ==
    running' # t /\ new = [old EXCEPT ![t] = InitialContents[t]]

Next ==
    LET old == contents
        new == contents'
    IN  \E t \in Threads :
            running = t /\ (Stored(t, old, new) \/ Ended(t, old, new))

Spec == Init /\ [][Next]_contents
=============================================================================
