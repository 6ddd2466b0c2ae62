----------------------------- MODULE PostOffice -----------------------------
(***************************************************************************)
(* Machines on a network: the device of machine/network.cc on each of      *)
(* them, the mailboxes and the postal worker of network/post.cc, and       *)
(* their users, such as the MailTest of network/nettest.cc.                *)
(*                                                                         *)
(* The machines are host processes, each with a clock of its own, so steps *)
(* of different machines come in any order.  On one machine a step is what *)
(* a thread does between two points where the kernel turns interrupts on,  *)
(* or an interrupt; locks, semaphores and SynchList are those of the       *)
(* modules that have them in detail.                                       *)
(***************************************************************************)
EXTENDS Integers, Sequences, FiniteSets

CONSTANTS
    Machines,
    Boxes,
    Clients,            \* the threads that use the post office
    Machine,            \* where each of them runs
    Destinations,       \* machine and mailbox that clients other than MailTest send to
    MaxMail,            \* bound: how much mail the clients that are not MailTest send
    NULL

ASSUME PostOfficeAssumption ==
    /\ {0, 1} \subseteq Boxes
    /\ Machine \in [Clients -> Machines]
    /\ \A m \in Machines : \E c \in Clients : Machine[c] = m
    /\ Destinations \subseteq Machines \X Boxes
    /\ MaxMail \in Nat

VARIABLES
    test,               \* whether the clients are the MailTest of two machines
    reliable,           \* whether the network was given reliability 1
    up,                 \* the machines that have not halted
    socket,             \* the packets in the host's socket of each machine
    inHdr,              \* Network::inHdr and inbox, NULL when the length is 0
    sending,            \* the scheduled NetworkSendDone interrupts
    messageAvailable, messageSent,      \* semaphores of the post office
    sendLock,           \* its holder
    worker,             \* what the postal worker does next: P, Receive or Put
    hand,               \* the mail in its hands
    boxes,
    pc,                 \* of each client, see Labels
    out,                \* the mail that a client is sending
    step,               \* how far MailTest is
    heard,              \* (ghost) whose first message of MailTest was received
    sent,               \* how much mail there was
    aborted             \* whether an assertion failed on a machine

netVars == <<socket, inHdr, sending>>
officeVars == <<messageAvailable, messageSent, sendLock, worker, hand, boxes>>
clientVars == <<pc, out, step, heard, sent>>
vars == <<test, reliable, up, netVars, officeVars, clientVars, aborted>>

(* "code": outside PostOffice::Send; the others are inside.                *)
Labels == {"code", "Acquire", "Send", "P", "Release"}

Mails == [from : Machines, to : Machines, box : Boxes, reply : Boxes, data : 0..MaxMail]

ASSUME NullAssumption == NULL \notin Clients /\ NULL \notin Mails

TypeOK ==
    /\ test \in BOOLEAN /\ reliable \in BOOLEAN
    /\ up \subseteq Machines
    /\ socket \in [Machines -> Seq(Mails)]
    /\ inHdr \in [Machines -> Mails \cup {NULL}]
    /\ sending \in [Machines -> Nat]
    /\ messageAvailable \in [Machines -> Nat]
    /\ messageSent \in [Machines -> Nat]
    /\ sendLock \in [Machines -> Clients \cup {NULL}]
    /\ worker \in [Machines -> {"P", "Receive", "Put"}]
    /\ hand \in [Machines -> Mails \cup {NULL}]
    /\ boxes \in [Machines -> [Boxes -> Seq(Mails)]]
    /\ pc \in [Clients -> Labels]
    /\ out \in [Clients -> Mails \cup {NULL}]
    /\ step \in [Clients -> 0..4]
    /\ heard \subseteq Machines
    /\ sent \in 0..MaxMail
    /\ aborted \subseteq Machines

(* Network::Network: nothing buffered, nothing being sent.                 *)
NetworkInit ==
    /\ socket = [m \in Machines |-> <<>>]
    /\ inHdr = [m \in Machines |-> NULL]
    /\ sending = [m \in Machines |-> 0]

(* PostOffice::PostOffice, with the postal worker's thread.                *)
OfficeInit ==
    /\ messageAvailable = [m \in Machines |-> 0]
    /\ messageSent = [m \in Machines |-> 0]
    /\ sendLock = [m \in Machines |-> NULL]
    /\ worker = [m \in Machines |-> "P"]
    /\ hand = [m \in Machines |-> NULL]
    /\ boxes = [m \in Machines |-> [b \in Boxes |-> <<>>]]

(* The time (MailTest is started after a Delay) when all machines are up.  *)
(* A network that may lose everything may also lose nothing.               *)
Init ==
    /\ test \in BOOLEAN /\ reliable \in {FALSE, test}
    /\ up = Machines
    /\ NetworkInit
    /\ OfficeInit
    /\ pc = [c \in Clients |-> "code"]
    /\ out = [c \in Clients |-> NULL]
    /\ step = [c \in Clients |-> 0]
    /\ heard = {}
    /\ sent = 0
    /\ aborted = {}

Runs(m) == m \in up /\ m \notin aborted

-----------------------------------------------------------------------------
(* The network device.                                                     *)

(* PollSocket, ReadFromSocket, and SendToSocket, which aborts when the     *)
(* host refuses the packet: the machine has closed its socket.             *)
PollSocket(m) == socket[m] # <<>>

ReadFromSocket(m) == socket' = [socket EXCEPT ![m] = Tail(@)]

SendToSocket(m, packet) ==
    \/ /\ packet.to \in up
       /\ socket' = [socket EXCEPT ![packet.to] = Append(@, packet)]
       /\ UNCHANGED aborted
    \/ /\ packet.to \notin up
       /\ aborted' = aborted \cup {m}
       /\ UNCHANGED socket

(* PostOffice::IncomingPacket and PacketSent.                              *)
IncomingPacket(m) == messageAvailable' = [messageAvailable EXCEPT ![m] = @ + 1]

PacketSent(m) == messageSent' = [messageSent EXCEPT ![m] = @ + 1]

(* Network::CheckPktAvail, when it does not return early.                  *)
CheckPktAvail(m) ==
    /\ Runs(m)
    /\ inHdr[m] = NULL
    /\ PollSocket(m)
    /\ inHdr' = [inHdr EXCEPT ![m] = Head(socket[m])]
    /\ ReadFromSocket(m)
    /\ IncomingPacket(m)
    /\ UNCHANGED <<test, reliable, up, sending, messageSent, sendLock, worker, hand, boxes, clientVars,
                   aborted>>

(* Network::SendDone.                                                      *)
SendDone(m) ==
    /\ Runs(m)
    /\ sending[m] > 0
    /\ sending' = [sending EXCEPT ![m] = @ - 1]
    /\ PacketSent(m)
    /\ UNCHANGED <<test, reliable, up, socket, inHdr, messageAvailable, sendLock, worker, hand, boxes,
                   clientVars, aborted>>

(* Network::Send: the packet may be lost.                                  *)
NetworkSend(m, packet) ==
    /\ sending' = [sending EXCEPT ![m] = @ + 1]
    /\ \/ ~reliable /\ UNCHANGED <<socket, aborted>>
       \/ SendToSocket(m, packet)
    /\ UNCHANGED inHdr

-----------------------------------------------------------------------------
(* PostOffice::PostalDelivery.                                             *)

WorkerP(m) ==
    /\ Runs(m)
    /\ worker[m] = "P"
    /\ messageAvailable[m] > 0
    /\ messageAvailable' = [messageAvailable EXCEPT ![m] = @ - 1]
    /\ worker' = [worker EXCEPT ![m] = "Receive"]
    /\ UNCHANGED <<test, reliable, up, netVars, messageSent, sendLock, hand, boxes, clientVars, aborted>>

(* Fault: inHdr.length is not reset.                                       *)
WorkerReceiveKeeps(m) ==
    /\ Runs(m)
    /\ worker[m] = "Receive"
    /\ worker' = [worker EXCEPT ![m] = "Put"]
    /\ hand' = [hand EXCEPT ![m] = inHdr[m]]
    /\ UNCHANGED <<test, reliable, up, netVars, messageAvailable, messageSent, sendLock,
                   boxes, clientVars, aborted>>

(* Network::Receive.                                                       *)
WorkerReceive(m) ==
    /\ Runs(m)
    /\ worker[m] = "Receive"
    /\ worker' = [worker EXCEPT ![m] = "Put"]
    /\ hand' = [hand EXCEPT ![m] = inHdr[m]]
    /\ inHdr' = [inHdr EXCEPT ![m] = NULL]
    /\ UNCHANGED <<test, reliable, up, socket, sending, messageAvailable, messageSent, sendLock,
                   boxes, clientVars, aborted>>

(* MailBox::Put.                                                           *)
Put(m, mail) == boxes' = [boxes EXCEPT ![m][mail.box] = Append(@, mail)]

WorkerPut(m) ==
    /\ Runs(m)
    /\ worker[m] = "Put"
    /\ Put(m, hand[m])
    /\ worker' = [worker EXCEPT ![m] = "P"]
    /\ hand' = [hand EXCEPT ![m] = NULL]
    /\ UNCHANGED <<test, reliable, up, netVars, messageAvailable, messageSent, sendLock,
                   clientVars, aborted>>

-----------------------------------------------------------------------------
(* PostOffice::Send.                                                       *)

At(c, label) == Runs(Machine[c]) /\ pc[c] = label

CallSend(c, to, box, reply, data) ==
    /\ out' = [out EXCEPT ![c] = [from |-> Machine[c], to |-> to, box |-> box, reply |-> reply,
                                  data |-> data]]
    /\ pc' = [pc EXCEPT ![c] = "Acquire"]

(* Fault: the lock is not taken.                                           *)
AcquireNothing(c) ==
    /\ At(c, "Acquire")
    /\ pc' = [pc EXCEPT ![c] = "Send"]
    /\ UNCHANGED <<test, reliable, up, netVars, officeVars, out, step, heard, sent, aborted>>

Acquire(c) ==
    /\ At(c, "Acquire")
    /\ sendLock[Machine[c]] = NULL
    /\ sendLock' = [sendLock EXCEPT ![Machine[c]] = c]
    /\ pc' = [pc EXCEPT ![c] = "Send"]
    /\ UNCHANGED <<test, reliable, up, netVars, messageAvailable, messageSent, worker, hand, boxes,
                   out, step, heard, sent, aborted>>

Send(c) ==
    /\ At(c, "Send")
    /\ NetworkSend(Machine[c], out[c])
    /\ pc' = [pc EXCEPT ![c] = "P"]
    /\ out' = [out EXCEPT ![c] = NULL]
    /\ UNCHANGED <<test, reliable, up, officeVars, step, heard, sent>>

SentP(c) ==
    /\ At(c, "P")
    /\ messageSent[Machine[c]] > 0
    /\ messageSent' = [messageSent EXCEPT ![Machine[c]] = @ - 1]
    /\ pc' = [pc EXCEPT ![c] = "Release"]
    /\ UNCHANGED <<test, reliable, up, netVars, messageAvailable, sendLock, worker, hand, boxes, out,
                   step, heard, sent, aborted>>

Release(c) ==
    /\ At(c, "Release")
    /\ sendLock' = [sendLock EXCEPT ![Machine[c]] = NULL]
    /\ pc' = [pc EXCEPT ![c] = "code"]
    /\ UNCHANGED <<test, reliable, up, netVars, messageAvailable, messageSent, worker, hand, boxes, out,
                   step, heard, sent, aborted>>

(* PostOffice::Receive and MailBox::Get, once there is mail.               *)
Get(c, box) ==
    /\ boxes[Machine[c]][box] # <<>>
    /\ boxes' = [boxes EXCEPT ![Machine[c]][box] = Tail(@)]

-----------------------------------------------------------------------------
(* Clients that send and receive what they like.                           *)

SendMail(c) ==
    /\ ~test /\ At(c, "code")
    /\ sent < MaxMail
    /\ sent' = sent + 1
    /\ \E dest \in Destinations : CallSend(c, dest[1], dest[2], 0, sent')
    /\ UNCHANGED <<test, reliable, up, netVars, officeVars, step, heard, aborted>>

ReceiveMail(c) ==
    /\ ~test /\ At(c, "code")
    /\ \E box \in Boxes : Get(c, box)
    /\ UNCHANGED <<test, reliable, up, netVars, messageAvailable, messageSent, sendLock, worker, hand,
                   clientVars, aborted>>

(* MailTest: a message, the other's message, an acknowledgement of it, and *)
(* the acknowledgement of our own; then the machine halts.  One client of  *)
(* each machine runs it.                                                   *)
Tester(c) == c = CHOOSE d \in Clients : Machine[d] = Machine[c]

SendMessage(c) ==
    /\ test /\ Tester(c) /\ At(c, "code") /\ step[c] = 0
    /\ \E farAddr \in Machines \ {Machine[c]} : CallSend(c, farAddr, 0, 1, 0)
    /\ step' = [step EXCEPT ![c] = 1]
    /\ UNCHANGED <<test, reliable, up, netVars, officeVars, heard, sent, aborted>>

(* Fault: the acknowledgement does not wait for the message.               *)
AcknowledgeAtOnce(c) ==
    /\ test /\ Tester(c) /\ At(c, "code") /\ step[c] = 1
    /\ \E farAddr \in Machines \ {Machine[c]} : CallSend(c, farAddr, 1, 1, 0)
    /\ step' = [step EXCEPT ![c] = 2]
    /\ UNCHANGED <<test, reliable, up, netVars, officeVars, heard, sent, aborted>>

(* Fault: the acknowledgement goes to the mailbox that the message was in. *)
AcknowledgeToSameBox(c) ==
    /\ test /\ Tester(c) /\ At(c, "code") /\ step[c] = 1
    /\ Get(c, 0)
    /\ LET message == Head(boxes[Machine[c]][0])
       IN  /\ CallSend(c, message.from, message.box, 1, 0)
           /\ heard' = heard \cup {message.from}
    /\ step' = [step EXCEPT ![c] = 2]
    /\ UNCHANGED <<test, reliable, up, netVars, messageAvailable, messageSent, sendLock, worker, hand,
                   sent, aborted>>

ReceiveAndAcknowledge(c) ==
    /\ test /\ Tester(c) /\ At(c, "code") /\ step[c] = 1
    /\ Get(c, 0)
    /\ LET message == Head(boxes[Machine[c]][0])
       IN  /\ CallSend(c, message.from, message.reply, 1, 0)
           /\ heard' = heard \cup {message.from}
    /\ step' = [step EXCEPT ![c] = 2]
    /\ UNCHANGED <<test, reliable, up, netVars, messageAvailable, messageSent, sendLock, worker, hand,
                   sent, aborted>>

ReceiveAcknowledgement(c) ==
    /\ test /\ Tester(c) /\ At(c, "code") /\ step[c] = 2
    /\ Get(c, 1)
    /\ step' = [step EXCEPT ![c] = 3]
    /\ UNCHANGED <<test, reliable, up, netVars, messageAvailable, messageSent, sendLock, worker, hand,
                   pc, out, heard, sent, aborted>>

(* Interrupt::Halt, by MailTest at its end or by any other client.         *)
Halt(c) ==
    /\ At(c, "code")
    /\ test => Tester(c) /\ step[c] = 3
    /\ up' = up \ {Machine[c]}
    /\ UNCHANGED <<test, reliable, netVars, officeVars, clientVars, aborted>>

-----------------------------------------------------------------------------
MachineStep(m) ==
    \/ CheckPktAvail(m)
    \/ SendDone(m)
    \/ WorkerP(m)
    \/ WorkerReceive(m)
    \/ WorkerPut(m)

ClientStep(c) ==
    \/ Acquire(c)
    \/ Send(c)
    \/ SentP(c)
    \/ Release(c)
    \/ SendMessage(c)
    \/ ReceiveAndAcknowledge(c)
    \/ ReceiveAcknowledgement(c)
    \/ Halt(c)

Next ==
    \/ \E m \in Machines : MachineStep(m)
    \/ \E c \in Clients : ClientStep(c) \/ SendMail(c) \/ ReceiveMail(c)

Spec == Init /\ [][Next]_vars

(* The device polls for ever, interrupts come, and threads that can run do.*)
FairSpec ==
    /\ Spec
    /\ \A m \in Machines : WF_vars(MachineStep(m))
    /\ \A c \in Clients : WF_vars(ClientStep(c))

-----------------------------------------------------------------------------
(* Properties.                                                             *)

(* What is on its way in a machine: in the worker's hands, in the device,  *)
(* in the socket.                                                          *)
Maybe(packet) == IF packet = NULL THEN <<>> ELSE <<packet>>
Packets(m) == (Maybe(hand[m]) \o Maybe(inHdr[m])) \o socket[m]

(* The packets for mailbox b, in their order: the nth of them is the one   *)
(* that has n - 1 of them before it.                                       *)
PositionsFor(packets, b) == {i \in DOMAIN packets : packets[i].box = b}
Nth(C, n) == CHOOSE i \in C : Cardinality({j \in C : j < i}) = n - 1
ToBox(packets, b) ==
    LET C == PositionsFor(packets, b)
    IN  [n \in 1..Cardinality(C) |-> packets[Nth(C, n)]]

(* The line of a mailbox: what is in it, and what is under way to it.      *)
Line(m, b) == boxes[m][b] \o ToBox(Packets(m), b)
Data(line) == [i \in 1..Len(line) |-> line[i].data]
UnderWay(m, b) == Data(Line(m, b))

Mailing == INSTANCE MailSpec WITH
               Mails <- 0..MaxMail,
               mail <- [m \in Machines |-> [b \in Boxes |-> UnderWay(m, b)]]

(* The way from the socket through the device's one buffer and the postal  *)
(* worker to the mailboxes loses nothing, duplicates nothing and keeps the *)
(* order; mail is lost only when it is sent.                               *)
ImplementsMail == Mailing!Spec

(* "only one message can be sent to the network at any one time": when a   *)
(* thread hands a packet to the device no other is being sent, and the     *)
(* unit in messageSent is for the thread that holds the lock.  (The device *)
(* has an assertion about it, on a flag that is never set.)                *)
OneSendAtATime ==
    \A c \in Clients :
        LET m == Machine[c] IN
        /\ pc[c] = "Send" => sending[m] = 0 /\ messageSent[m] = 0
        /\ pc[c] = "P" => sending[m] + messageSent[m] = 1

(* "wait for an acknowledgement from the other machine to our original     *)
(* message": a machine that has it knows that its message was received;    *)
(* and nobody then has anything more to send to it, so that it may halt.   *)
AcknowledgedMeansReceived ==
    test => /\ \A c \in Clients : step[c] = 3 => Machine[c] \in heard
            /\ aborted = {}

(* On a network that loses nothing MailTest ends on both machines.         *)
MailTestEnds == (test /\ reliable) => <>(up = {})
=============================================================================
