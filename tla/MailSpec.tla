------------------------------ MODULE MailSpec ------------------------------
(***************************************************************************)
(* What the post office promises: mail goes to the mailbox that it is      *)
(* addressed to "in order but unreliably".  What is not lost when it is    *)
(* sent stays in line, and is taken out once, from the front.              *)
(***************************************************************************)
EXTENDS Sequences

CONSTANTS Machines, Boxes, Mails

VARIABLE mail       \* what is under way to each mailbox, or in it

Init == mail = [m \in Machines |-> [b \in Boxes |-> <<>>]]

(* What a step does to one line: somebody joins it, or the first leaves.   *)
Sent(line, new) == \E x \in Mails : new = Append(line, x)
Received(line, new) == line # <<>> /\ new = Tail(line)

Next ==
    LET old == mail
        new == mail'
    IN  \E m \in Machines, b \in Boxes :
            /\ Sent(old[m][b], new[m][b]) \/ Received(old[m][b], new[m][b])
            /\ new = [old EXCEPT ![m][b] = new[m][b]]

Spec == Init /\ [][Next]_mail
=============================================================================
