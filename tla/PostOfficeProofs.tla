-------------------------- MODULE PostOfficeProofs --------------------------
(***************************************************************************)
(* Proofs about PostOffice, for any machines, mailboxes and clients: what  *)
(* the threads, the device and the postal worker of each machine rely on.  *)
(*                                                                         *)
(* There are two protocols on a machine, and the inductive invariant has a *)
(* part for each.  The holder of sendLock is the one whose packet is on    *)
(* the wire, or whose unit is in messageSent.  A unit in messageAvailable, *)
(* or the worker that has taken it, stands for a packet in the device.     *)
(*                                                                         *)
(* MailTest runs on top of them, with an invariant of its own: what is on  *)
(* the way in a machine is for it, an acknowledgement only once its        *)
(* message was heard, and then the one who sent it has finished.           *)
(*                                                                         *)
(* Last, the office implements MailSpec.  A line of that specification is  *)
(* the mail in a mailbox, and then, of the packets in the worker's hands,  *)
(* in the device and in the socket, those for that mailbox.  The lemmas on *)
(* ToBox say what taking the first packet, or adding one, does to them.    *)
(***************************************************************************)
EXTENDS PostOffice, FiniteSetTheorems, TLAPS

SendTypes ==
    /\ sending \in [Machines -> Nat]
    /\ messageSent \in [Machines -> Nat]
    /\ sendLock \in [Machines -> Clients \cup {NULL}]
    /\ pc \in [Clients -> Labels]

Sender(c) ==
    /\ pc[c] \in {"Send", "P", "Release"} <=> sendLock[Machine[c]] = c
    /\ pc[c] \in {"Send", "Release"} =>
           sending[Machine[c]] = 0 /\ messageSent[Machine[c]] = 0
    /\ pc[c] = "P" => sending[Machine[c]] + messageSent[Machine[c]] = 1

Unused(m) == sendLock[m] = NULL => sending[m] = 0 /\ messageSent[m] = 0

SendInv == (\A c \in Clients : Sender(c)) /\ (\A m \in Machines : Unused(m))

WorkerInv ==
    \A m \in Machines :
        /\ inHdr[m] = NULL => messageAvailable[m] = 0 /\ worker[m] # "Receive"
        /\ messageAvailable[m] <= 1
        /\ worker[m] = "Receive" => messageAvailable[m] = 0
        /\ worker[m] = "Put" <=> hand[m] # NULL

OutInv == \A c \in Clients : pc[c] \in {"Acquire", "Send"} <=> out[c] # NULL

PInv == TypeOK /\ SendInv /\ WorkerInv /\ OutInv

-----------------------------------------------------------------------------
(* The constructors of Network and PostOffice establish the invariant.     *)
LEMMA InitInv == Init => PInv
<1> SUFFICES ASSUME Init PROVE PInv
    OBVIOUS
<1>1. TypeOK
    <2>1. test \in BOOLEAN /\ reliable \in BOOLEAN
        BY Zenon DEF Init
    <2>2. /\ socket \in [Machines -> Seq(Mails)]
          /\ boxes \in [Machines -> [Boxes -> Seq(Mails)]]
        BY DEF Init, NetworkInit, OfficeInit
    <2> QED
        BY <2>1, <2>2, PostOfficeAssumption DEF Init, NetworkInit, OfficeInit, TypeOK, Labels
<1>2. SendInv
    BY PostOfficeAssumption, NullAssumption DEF Init, NetworkInit, OfficeInit, SendInv, Sender, Unused
<1>3. WorkerInv /\ OutInv
    BY DEF Init, NetworkInit, OfficeInit, WorkerInv, OutInv
<1> QED
    BY <1>1, <1>2, <1>3 DEF PInv

(* The device and the worker hand on whole packets, one at a time.         *)
LEMMA MachineStepInv ==
    ASSUME PInv, NEW m \in Machines, MachineStep(m) PROVE PInv'
<1>1. CASE CheckPktAvail(m)
    <2>1. Head(socket[m]) \in Mails /\ Tail(socket[m]) \in Seq(Mails)
        BY <1>1 DEF PInv, TypeOK, CheckPktAvail, PollSocket
    <2>2. Head(socket[m]) # NULL
        BY <2>1, NullAssumption
    <2>3. TypeOK'
        BY <1>1, <2>1
        DEF PInv, TypeOK, CheckPktAvail, ReadFromSocket, IncomingPacket, clientVars
    <2>4. SendInv' /\ OutInv'
        BY <1>1 DEF PInv, SendInv, Sender, Unused, OutInv, CheckPktAvail, clientVars
    <2>5. WorkerInv'
        BY <1>1, <2>2 DEF PInv, TypeOK, WorkerInv, CheckPktAvail, IncomingPacket
    <2> QED
        BY <2>3, <2>4, <2>5 DEF PInv
<1>2. CASE SendDone(m)
    <2>1. TypeOK'
        BY <1>2 DEF PInv, TypeOK, SendDone, PacketSent, clientVars
    <2>2. SendInv'
        <3>1. /\ SendTypes /\ sending[m] > 0 /\ pc' = pc /\ sendLock' = sendLock
              /\ sending' = [sending EXCEPT ![m] = @ - 1]
              /\ messageSent' = [messageSent EXCEPT ![m] = @ + 1]
            BY <1>2 DEF PInv, TypeOK, SendTypes, SendDone, PacketSent, clientVars
        <3>2. ASSUME NEW c \in Clients PROVE Sender(c)'
            BY <3>1, PostOfficeAssumption DEF PInv, SendInv, Sender, SendTypes
        <3>3. ASSUME NEW n \in Machines PROVE Unused(n)'
            BY <3>1 DEF PInv, SendInv, Unused, SendTypes
        <3> QED
            BY <3>2, <3>3 DEF SendInv
    <2>3. WorkerInv' /\ OutInv'
        BY <1>2 DEF PInv, WorkerInv, OutInv, SendDone, clientVars
    <2> QED
        BY <2>1, <2>2, <2>3 DEF PInv
<1>3. CASE WorkerP(m)
    <2>1. TypeOK'
        BY <1>3 DEF PInv, TypeOK, WorkerP, netVars, clientVars
    <2>2. SendInv' /\ OutInv'
        BY <1>3 DEF PInv, SendInv, Sender, Unused, OutInv, WorkerP, netVars, clientVars
    <2>3. WorkerInv'
        BY <1>3 DEF PInv, TypeOK, WorkerInv, WorkerP, netVars
    <2> QED
        BY <2>1, <2>2, <2>3 DEF PInv
<1>4. CASE WorkerReceive(m)
    <2>1. TypeOK'
        BY <1>4 DEF PInv, TypeOK, WorkerReceive, clientVars
    <2>2. SendInv' /\ OutInv'
        BY <1>4 DEF PInv, SendInv, Sender, Unused, OutInv, WorkerReceive, clientVars
    <2>3. WorkerInv'
        BY <1>4 DEF PInv, TypeOK, WorkerInv, WorkerReceive
    <2> QED
        BY <2>1, <2>2, <2>3 DEF PInv
<1>5. CASE WorkerPut(m)
    <2>1. hand[m] \in Mails
        BY <1>5 DEF PInv, TypeOK, WorkerInv, WorkerPut
    <2>2. hand[m].box \in Boxes
        BY <2>1 DEF Mails
    <2>3. boxes' \in [Machines -> [Boxes -> Seq(Mails)]]
        BY <1>5, <2>1, <2>2 DEF PInv, TypeOK, WorkerPut, Put
    <2>4. TypeOK'
        BY <1>5, <2>3, Zenon DEF PInv, TypeOK, WorkerPut, netVars, clientVars
    <2>5. SendInv' /\ OutInv'
        BY <1>5 DEF PInv, SendInv, Sender, Unused, OutInv, WorkerPut, netVars, clientVars
    <2>6. WorkerInv'
        BY <1>5 DEF PInv, TypeOK, WorkerInv, WorkerPut, netVars
    <2> QED
        BY <2>4, <2>5, <2>6 DEF PInv
<1> QED
    BY <1>1, <1>2, <1>3, <1>4, <1>5 DEF MachineStep

-----------------------------------------------------------------------------
(* A client that enters PostOffice::Send was outside and has a mail.       *)
LEMMA CallSendInv ==
    ASSUME PInv, NEW c \in Clients, pc[c] = "code",
           NEW to \in Machines, NEW box \in Boxes, NEW reply \in Boxes, NEW data \in 0..MaxMail,
           CallSend(c, to, box, reply, data),
           UNCHANGED <<sending, messageSent, sendLock>>
    PROVE  /\ out' \in [Clients -> Mails \cup {NULL}]
           /\ pc' \in [Clients -> Labels]
           /\ SendInv'
           /\ OutInv'
<1> DEFINE mail == [from |-> Machine[c], to |-> to, box |-> box, reply |-> reply, data |-> data]
<1>1. mail \in Mails
    BY PostOfficeAssumption DEF Mails
<1>2. mail # NULL
    BY <1>1, NullAssumption
<1>3. out' = [out EXCEPT ![c] = mail] /\ pc' = [pc EXCEPT ![c] = "Acquire"]
    BY DEF CallSend
<1> HIDE DEF mail
<1>4. out' \in [Clients -> Mails \cup {NULL}] /\ pc' \in [Clients -> Labels]
    BY <1>1, <1>3 DEF PInv, TypeOK, Labels
<1>5. SendInv'
    BY <1>3 DEF PInv, TypeOK, SendInv, Sender, Unused
<1>6. OutInv'
    BY <1>2, <1>3 DEF PInv, TypeOK, OutInv
<1> QED
    BY <1>4, <1>5, <1>6

(* What MailBox::Get takes out leaves mail in the box, and is mail.        *)
LEMMA GetInv ==
    ASSUME PInv, NEW c \in Clients, NEW box \in Boxes, Get(c, box)
    PROVE  /\ boxes' \in [Machines -> [Boxes -> Seq(Mails)]]
           /\ Head(boxes[Machine[c]][box]) \in Mails
<1>1. Machine[c] \in Machines
    BY PostOfficeAssumption
<1>2. boxes[Machine[c]][box] \in Seq(Mails) /\ boxes[Machine[c]][box] # <<>>
    BY <1>1 DEF PInv, TypeOK, Get
<1>3. /\ Head(boxes[Machine[c]][box]) \in Mails
      /\ Tail(boxes[Machine[c]][box]) \in Seq(Mails)
    BY <1>2
<1> QED
    BY <1>1, <1>3 DEF PInv, TypeOK, Get

(* The steps inside PostOffice::Send: the lock passes from one to another  *)
(* only when nothing of the first is left with the device.                 *)
LEMMA SendStepInv ==
    ASSUME PInv, NEW c \in Clients, Acquire(c) \/ Send(c) \/ SentP(c) \/ Release(c)
    PROVE  PInv'
<1>1. Machine[c] \in Machines
    BY PostOfficeAssumption
<1>2. CASE Acquire(c)
    <2>1. TypeOK'
        BY <1>1, <1>2 DEF PInv, TypeOK, Acquire, netVars, Labels
    <2>2. SendInv'
        <3>1. /\ SendTypes
              /\ sendLock[Machine[c]] = NULL
              /\ sendLock' = [sendLock EXCEPT ![Machine[c]] = c]
              /\ pc' = [pc EXCEPT ![c] = "Send"] /\ pc[c] = "Acquire"
              /\ sending' = sending /\ messageSent' = messageSent
            BY <1>2 DEF PInv, TypeOK, SendTypes, Acquire, At, netVars
        <3>2. ASSUME NEW d \in Clients PROVE Sender(d)'
            <4>1. Sender(c) /\ Sender(d) /\ Unused(Machine[c]) /\ Machine[d] \in Machines
                BY <1>1, PostOfficeAssumption DEF PInv, SendInv
            <4>2. CASE d = c
                BY <1>1, <3>1, <4>1, <4>2, NullAssumption DEF Sender, Unused, SendTypes
            <4>3. CASE d # c
                BY <1>1, <3>1, <4>1, <4>3, NullAssumption DEF Sender, SendTypes
            <4> QED
                BY <4>2, <4>3
        <3>3. ASSUME NEW m \in Machines PROVE Unused(m)'
            BY <1>1, <3>1, NullAssumption DEF PInv, SendInv, Sender, Unused, SendTypes
        <3> QED
            BY <3>2, <3>3 DEF SendInv
    <2>3. WorkerInv' /\ OutInv'
        BY <1>2 DEF PInv, TypeOK, WorkerInv, OutInv, Acquire, At, netVars
    <2> QED
        BY <2>1, <2>2, <2>3 DEF PInv
<1>3. CASE Send(c)
    <2>1. out[c] \in Mails
        BY <1>3 DEF PInv, TypeOK, OutInv, Send, At
    <2>2. out[c].to \in Machines
        BY <2>1 DEF Mails
    <2>3. socket' \in [Machines -> Seq(Mails)] /\ aborted' \subseteq Machines
        <3>1. Append(socket[out[c].to], out[c]) \in Seq(Mails)
            BY <2>1, <2>2 DEF PInv, TypeOK
        <3>2. \/ socket' = socket
              \/ socket' = [socket EXCEPT ![out[c].to] = Append(@, out[c])]
            BY <1>3, Zenon DEF Send, NetworkSend, SendToSocket
        <3>3. aborted' \subseteq aborted \cup {Machine[c]}
            BY <1>3, Zenon DEF Send, NetworkSend, SendToSocket
        <3> QED
            BY <1>1, <2>2, <3>1, <3>2, <3>3, ZenonT(40) DEF PInv, TypeOK
    <2>4. TypeOK'
        <3>1. /\ sending' = [sending EXCEPT ![Machine[c]] = @ + 1]
              /\ pc' = [pc EXCEPT ![c] = "P"] /\ out' = [out EXCEPT ![c] = NULL]
              /\ UNCHANGED <<test, reliable, up, inHdr, officeVars, step, heard, sent>>
            BY <1>3 DEF Send, NetworkSend
        <3>2. sending' \in [Machines -> Nat]
            BY <1>1, <3>1 DEF PInv, TypeOK
        <3>3. pc' \in [Clients -> Labels] /\ out' \in [Clients -> Mails \cup {NULL}]
            BY <3>1 DEF PInv, TypeOK, Labels
        <3> QED
            BY <2>3, <3>1, <3>2, <3>3, Zenon DEF PInv, TypeOK, officeVars
    <2>5. SendInv'
        <3>1. /\ SendTypes
              /\ pc' = [pc EXCEPT ![c] = "P"] /\ pc[c] = "Send"
              /\ sending' = [sending EXCEPT ![Machine[c]] = @ + 1]
              /\ sendLock' = sendLock /\ messageSent' = messageSent
            BY <1>3 DEF PInv, TypeOK, SendTypes, Send, NetworkSend, At, officeVars
        <3>2. ASSUME NEW d \in Clients PROVE Sender(d)'
            <4>1. Sender(c) /\ Sender(d) /\ Unused(Machine[c]) /\ Machine[d] \in Machines
                BY <1>1, PostOfficeAssumption DEF PInv, SendInv
            <4>2. CASE d = c
                BY <1>1, <3>1, <4>1, <4>2, NullAssumption DEF Sender, Unused, SendTypes
            <4>3. CASE d # c
                BY <1>1, <3>1, <4>1, <4>3, NullAssumption DEF Sender, SendTypes
            <4> QED
                BY <4>2, <4>3
        <3>3. ASSUME NEW m \in Machines PROVE Unused(m)'
            BY <1>1, <3>1, NullAssumption DEF PInv, SendInv, Sender, Unused, SendTypes
        <3> QED
            BY <3>2, <3>3 DEF SendInv
    <2>6. WorkerInv' /\ OutInv'
        BY <1>3 DEF PInv, TypeOK, WorkerInv, OutInv, Send, NetworkSend, At, officeVars
    <2> QED
        BY <2>4, <2>5, <2>6 DEF PInv
<1>4. CASE SentP(c)
    <2>1. TypeOK'
        BY <1>1, <1>4 DEF PInv, TypeOK, SentP, netVars, Labels
    <2>2. SendInv'
        <3>1. /\ SendTypes
              /\ pc' = [pc EXCEPT ![c] = "Release"] /\ pc[c] = "P"
              /\ messageSent[Machine[c]] > 0
              /\ messageSent' = [messageSent EXCEPT ![Machine[c]] = @ - 1]
              /\ sendLock' = sendLock /\ sending' = sending
            BY <1>4 DEF PInv, TypeOK, SendTypes, SentP, At, netVars
        <3>2. ASSUME NEW d \in Clients PROVE Sender(d)'
            <4>1. Sender(c) /\ Sender(d) /\ Unused(Machine[c]) /\ Machine[d] \in Machines
                BY <1>1, PostOfficeAssumption DEF PInv, SendInv
            <4>2. CASE d = c
                BY <1>1, <3>1, <4>1, <4>2, NullAssumption DEF Sender, Unused, SendTypes
            <4>3. CASE d # c
                BY <1>1, <3>1, <4>1, <4>3, NullAssumption DEF Sender, SendTypes
            <4> QED
                BY <4>2, <4>3
        <3>3. ASSUME NEW m \in Machines PROVE Unused(m)'
            BY <1>1, <3>1, NullAssumption DEF PInv, SendInv, Sender, Unused, SendTypes
        <3> QED
            BY <3>2, <3>3 DEF SendInv
    <2>3. WorkerInv' /\ OutInv'
        BY <1>4 DEF PInv, TypeOK, WorkerInv, OutInv, SentP, At, netVars
    <2> QED
        BY <2>1, <2>2, <2>3 DEF PInv
<1>5. CASE Release(c)
    <2>1. TypeOK'
        BY <1>1, <1>5, Zenon DEF PInv, TypeOK, Release, netVars, Labels
    <2>2. SendInv'
        <3>1. /\ SendTypes
              /\ pc' = [pc EXCEPT ![c] = "code"] /\ pc[c] = "Release"
              /\ sendLock' = [sendLock EXCEPT ![Machine[c]] = NULL]
              /\ sending' = sending /\ messageSent' = messageSent
            BY <1>5 DEF PInv, TypeOK, SendTypes, Release, At, netVars
        <3>2. ASSUME NEW d \in Clients PROVE Sender(d)'
            <4>1. Sender(c) /\ Sender(d) /\ Unused(Machine[c]) /\ Machine[d] \in Machines
                BY <1>1, PostOfficeAssumption DEF PInv, SendInv
            <4>2. CASE d = c
                BY <1>1, <3>1, <4>1, <4>2, NullAssumption DEF Sender, Unused, SendTypes
            <4>3. CASE d # c
                BY <1>1, <3>1, <4>1, <4>3, NullAssumption DEF Sender, SendTypes
            <4> QED
                BY <4>2, <4>3
        <3>3. ASSUME NEW m \in Machines PROVE Unused(m)'
            BY <1>1, <3>1, NullAssumption DEF PInv, SendInv, Sender, Unused, SendTypes
        <3> QED
            BY <3>2, <3>3 DEF SendInv
    <2>3. WorkerInv' /\ OutInv'
        BY <1>5, Zenon DEF PInv, TypeOK, WorkerInv, OutInv, Release, At, netVars
    <2> QED
        BY <2>1, <2>2, <2>3 DEF PInv
<1> QED
    BY <1>2, <1>3, <1>4, <1>5

(* The clients' own steps.                                                 *)
LEMMA ClientInv ==
    ASSUME PInv, NEW c \in Clients,
           \/ SendMail(c) \/ ReceiveMail(c) \/ SendMessage(c) \/ ReceiveAndAcknowledge(c)
           \/ ReceiveAcknowledgement(c) \/ Halt(c)
    PROVE  PInv'
<1>1. Machine[c] \in Machines /\ {0, 1} \subseteq Boxes
    BY PostOfficeAssumption
<1>2. WorkerInv'
    BY Zenon DEF PInv, WorkerInv, SendMail, ReceiveMail, SendMessage, ReceiveAndAcknowledge,
           ReceiveAcknowledgement, Halt, netVars, officeVars
<1>3. CASE SendMail(c)
    <2>1. PICK dest \in Destinations : CallSend(c, dest[1], dest[2], 0, sent')
        BY <1>3 DEF SendMail
    <2>2. dest[1] \in Machines /\ dest[2] \in Boxes
        BY PostOfficeAssumption
    <2>3. sent' \in 0..MaxMail
        BY <1>3, PostOfficeAssumption DEF PInv, TypeOK, SendMail
    <2>4. pc[c] = "code" /\ UNCHANGED <<sending, messageSent, sendLock>>
        BY <1>3 DEF SendMail, At, netVars, officeVars
    <2>5. /\ out' \in [Clients -> Mails \cup {NULL}] /\ pc' \in [Clients -> Labels]
          /\ SendInv' /\ OutInv'
        BY <1>1, <2>1, <2>2, <2>3, <2>4, CallSendInv
    <2>6. TypeOK'
        BY <1>3, <2>3, <2>5 DEF PInv, TypeOK, SendMail, netVars, officeVars
    <2> QED
        BY <1>2, <2>5, <2>6 DEF PInv
<1>4. CASE ReceiveMail(c)
    <2>1. boxes' \in [Machines -> [Boxes -> Seq(Mails)]]
        BY <1>4, GetInv DEF ReceiveMail
    <2>2. TypeOK' /\ SendInv' /\ OutInv'
        BY <1>4, <2>1, Zenon DEF PInv, TypeOK, SendInv, Sender, Unused, OutInv, ReceiveMail, netVars, clientVars
    <2> QED
        BY <1>2, <2>2 DEF PInv
<1>5. CASE SendMessage(c)
    <2>1. PICK farAddr \in Machines : CallSend(c, farAddr, 0, 1, 0)
        BY <1>5 DEF SendMessage
    <2>2. pc[c] = "code" /\ UNCHANGED <<sending, messageSent, sendLock>> /\ 0 \in 0..MaxMail
        BY <1>5, PostOfficeAssumption DEF SendMessage, At, netVars, officeVars
    <2>3. /\ out' \in [Clients -> Mails \cup {NULL}] /\ pc' \in [Clients -> Labels]
          /\ SendInv' /\ OutInv'
        BY <1>1, <2>1, <2>2, CallSendInv, Zenon
    <2>4. TypeOK'
        <3>1. step' = [step EXCEPT ![c] = 1]
            BY <1>5 DEF SendMessage
        <3>2. step' \in [Clients -> 0..4]
            BY <3>1 DEF PInv, TypeOK
        <3>3. UNCHANGED <<test, reliable, up, netVars, officeVars, heard, sent, aborted>>
            BY <1>5 DEF SendMessage
        <3> QED
            BY <2>3, <3>2, <3>3 DEF PInv, TypeOK, netVars, officeVars
    <2> QED
        BY <1>2, <2>3, <2>4 DEF PInv
<1>6. CASE ReceiveAndAcknowledge(c)
    <2> DEFINE message == Head(boxes[Machine[c]][0])
    <2>1. Get(c, 0) /\ CallSend(c, message.from, message.reply, 1, 0)
        BY <1>6, Zenon DEF ReceiveAndAcknowledge
    <2>2. boxes' \in [Machines -> [Boxes -> Seq(Mails)]] /\ message \in Mails
        BY <1>1, <2>1, GetInv
    <2>3. heard' = heard \cup {message.from}
        BY <1>6, Zenon DEF ReceiveAndAcknowledge
    <2> HIDE DEF message
    <2>4. message.from \in Machines /\ message.reply \in Boxes
        BY <2>2 DEF Mails
    <2>5. pc[c] = "code" /\ UNCHANGED <<sending, messageSent, sendLock>> /\ 0 \in 0..MaxMail
        <3>1. 0 \in 0..MaxMail
            BY PostOfficeAssumption
        <3> QED
            BY <1>6, <3>1, Zenon DEF ReceiveAndAcknowledge, At, netVars
    <2>6. /\ out' \in [Clients -> Mails \cup {NULL}] /\ pc' \in [Clients -> Labels]
          /\ SendInv' /\ OutInv'
        BY <1>1, <2>1, <2>4, <2>5, CallSendInv
    <2>7. TypeOK'
        <3>1. step' = [step EXCEPT ![c] = 2]
            BY <1>6, Zenon DEF ReceiveAndAcknowledge
        <3>2. step' \in [Clients -> 0..4] /\ heard' \subseteq Machines
            BY <2>3, <2>4, <3>1 DEF PInv, TypeOK
        <3>3. UNCHANGED <<test, reliable, up, netVars, messageAvailable, messageSent, sendLock,
                          worker, hand, sent, aborted>>
            BY <1>6, Zenon DEF ReceiveAndAcknowledge
        <3> QED
            BY <2>2, <2>6, <3>2, <3>3 DEF PInv, TypeOK, netVars
    <2> QED
        BY <1>2, <2>6, <2>7 DEF PInv
<1>7. CASE ReceiveAcknowledgement(c)
    <2>1. boxes' \in [Machines -> [Boxes -> Seq(Mails)]]
        BY <1>1, <1>7, GetInv DEF ReceiveAcknowledgement
    <2>2. TypeOK' /\ SendInv' /\ OutInv'
        BY <1>7, <2>1 DEF PInv, TypeOK, SendInv, Sender, Unused, OutInv, ReceiveAcknowledgement, netVars
    <2> QED
        BY <1>2, <2>2 DEF PInv
<1>8. CASE Halt(c)
    <2>1. TypeOK' /\ SendInv' /\ OutInv'
        BY <1>8 DEF PInv, TypeOK, SendInv, Sender, Unused, OutInv, Halt, netVars, officeVars, clientVars
    <2> QED
        BY <1>2, <2>1 DEF PInv
<1> QED
    BY <1>3, <1>4, <1>5, <1>6, <1>7, <1>8

-----------------------------------------------------------------------------
(* The device, the worker and the senders agree in every state.            *)
THEOREM Invariant == Spec => []PInv
<1>1. PInv /\ UNCHANGED vars => PInv'
    BY DEF PInv, TypeOK, SendInv, Sender, Unused, WorkerInv, OutInv, vars, netVars, officeVars, clientVars
<1>2. PInv /\ [Next]_vars => PInv'
    BY <1>1, MachineStepInv, SendStepInv, ClientInv DEF Next, ClientStep
<1> QED
    BY <1>2, InitInv, PTL DEF Spec

(* Type correctness: every mailbox, buffer and socket holds whole mails.   *)
THEOREM TypeCorrect == Spec => []TypeOK
<1>1. PInv => TypeOK
    BY DEF PInv
<1> QED
    BY <1>1, Invariant, PTL

(* PostOffice::Send gives the device one packet at a time, and SendDone's  *)
(* unit goes to the thread whose packet it was.                            *)
THEOREM SendsOneAtATime == Spec => []OneSendAtATime
<1>1. PInv => OneSendAtATime
    BY Zenon DEF PInv, SendInv, Sender, Unused, OneSendAtATime
<1> QED
    BY <1>1, Invariant, PTL

(* The postal worker finds a packet in the device whenever it was woken,   *)
(* and the device never overwrites one that it has announced.              *)
THEOREM WorkerFindsPacket ==
    Spec => [](\A m \in Machines : worker[m] = "Receive" => inHdr[m] # NULL)
<1>1. PInv => \A m \in Machines : worker[m] = "Receive" => inHdr[m] # NULL
    BY Zenon DEF PInv, WorkerInv
<1> QED
    BY <1>1, Invariant, PTL

-----------------------------------------------------------------------------
(* MailTest.  With two machines the tester of the other machine has        *)
(* nothing more to send once its acknowledgement is under way.             *)
TwoMachines == \A l, m, n \in Machines : l = m \/ m = n \/ l = n

Finished(c) == step[c] >= 2 /\ out[c] = NULL

Settled(m) == TwoMachines => \A c \in Clients : Machine[c] # m /\ Tester(c) => Finished(c)

(* What may be on its way inside machine m, and in its mailbox b: the mail *)
(* in box 1 is an acknowledgement of m's message.                          *)
Arrived(m) ==
    {x \in Mails :
        /\ x.to = m /\ x.from # m /\ x.reply = 1 /\ x.box \in {0, 1}
        /\ x.box = 1 => m \in heard /\ Settled(m)}

ArrivedIn(m, b) == {x \in Arrived(m) : x.box = b}

Delivery(m) ==
    /\ socket[m] \in Seq(Arrived(m))
    /\ inHdr[m] \in Arrived(m) \cup {NULL}
    /\ hand[m] \in Arrived(m) \cup {NULL}
    /\ \A b \in Boxes : boxes[m][b] \in Seq(ArrivedIn(m, b))

Leaving(c, x) ==
    /\ x.from = Machine[c] /\ x.to # Machine[c] /\ x.reply = 1
    /\ \/ x.box = 0 /\ step[c] = 1
       \/ x.box = 1 /\ step[c] = 2 /\ x.to \in heard

Testing(c) ==
    /\ ~Tester(c) => out[c] = NULL
    /\ out[c] # NULL => Leaving(c, out[c])
    /\ step[c] = 3 => Machine[c] \in heard /\ Settled(Machine[c])

Halted(m) == m \notin up => Settled(m)

MailTestInv ==
    test => /\ \A m \in Machines : Delivery(m) /\ Halted(m)
            /\ \A c \in Clients : Testing(c)
            /\ TwoMachines => aborted = {}

mailVars == <<test, up, socket, inHdr, hand, boxes, out, step, heard, aborted>>

(* A sequence over a set is one over a larger set.                         *)
LEMMA LargerSeq ==
    ASSUME NEW S, NEW T, S \subseteq T, NEW s \in Seq(S) PROVE s \in Seq(T)
    OBVIOUS

(* What is left of a sequence, and what is taken, are over the same set.   *)
LEMMA TakenSeq ==
    ASSUME NEW S, NEW s \in Seq(S), s # <<>> PROVE Head(s) \in S /\ Tail(s) \in Seq(S)
    OBVIOUS

(* A tester that has finished stays so, as far as a step lets the others.  *)
LEMMA SettledStays ==
    ASSUME NEW m, Settled(m), \A d \in Clients : Tester(d) /\ Finished(d) => Finished(d)'
    PROVE  Settled(m)'
    BY Zenon DEF Settled

(* What has arrived stays good mail when more is heard.                    *)
LEMMA ArrivedStays ==
    ASSUME NEW m, heard \subseteq heard', Settled(m) => Settled(m)'
    PROVE  /\ Arrived(m) \subseteq Arrived(m)'
           /\ \A b \in Boxes : ArrivedIn(m, b) \subseteq ArrivedIn(m, b)'
<1>1. Arrived(m) \subseteq Arrived(m)'
    BY Zenon DEF Arrived
<1> QED
    BY <1>1, Zenon DEF ArrivedIn

(* A machine where nothing moves.                                          *)
LEMMA DeliveryStays ==
    ASSUME NEW m, Delivery(m), heard \subseteq heard', Settled(m) => Settled(m)',
           socket'[m] = socket[m], inHdr'[m] = inHdr[m], hand'[m] = hand[m],
           boxes'[m] = boxes[m]
    PROVE  Delivery(m)'
<1>1. /\ Arrived(m) \subseteq Arrived(m)'
      /\ \A b \in Boxes : ArrivedIn(m, b) \subseteq ArrivedIn(m, b)'
    BY ArrivedStays, Zenon
<1>2. socket[m] \in Seq(Arrived(m)')
    BY <1>1, LargerSeq, Zenon DEF Delivery
<1>3. ASSUME NEW b \in Boxes PROVE boxes[m][b] \in Seq(ArrivedIn(m, b)')
    BY <1>1, LargerSeq, Zenon DEF Delivery
<1> QED
    BY <1>1, <1>2, <1>3, Zenon DEF Delivery

(* At the start no mail is anywhere.                                       *)
LEMMA InitMailTest == Init => MailTestInv
<1> SUFFICES ASSUME Init PROVE MailTestInv
    OBVIOUS
<1>1. ASSUME NEW m \in Machines PROVE Delivery(m) /\ Halted(m)
    <2>1. /\ socket[m] = <<>> /\ inHdr[m] = NULL /\ hand[m] = NULL /\ m \in up
          /\ \A b \in Boxes : boxes[m][b] = <<>>
        BY DEF Init, NetworkInit, OfficeInit
    <2>2. ASSUME NEW S PROVE <<>> \in Seq(S)
        OBVIOUS
    <2> QED
        BY <2>1, <2>2, Zenon DEF Delivery, Halted
<1>2. ASSUME NEW c \in Clients PROVE Testing(c)
    <2>1. out[c] = NULL /\ step[c] = 0
        BY DEF Init
    <2>2. step[c] # 3
        BY <2>1
    <2> QED
        BY <2>1, <2>2, Zenon DEF Testing
<1> QED
    BY <1>1, <1>2, Zenon DEF Init, MailTestInv

(* A step that moves no mail.                                              *)
LEMMA MailVarsInv == MailTestInv /\ UNCHANGED mailVars => MailTestInv'
<1> SUFFICES ASSUME MailTestInv, UNCHANGED mailVars, test PROVE MailTestInv'
    BY DEF MailTestInv, mailVars
<1>1. ASSUME NEW m PROVE Settled(m)' <=> Settled(m)
    BY Zenon DEF Settled, Finished, mailVars
<1>2. ASSUME NEW m \in Machines PROVE Delivery(m)' /\ Halted(m)'
    <2>1. Delivery(m) /\ Halted(m) /\ heard \subseteq heard'
        BY Zenon DEF MailTestInv, mailVars
    <2>2. Delivery(m)'
        BY <1>1, <2>1, DeliveryStays DEF mailVars
    <2> QED
        BY <1>1, <2>1, <2>2, Zenon DEF Halted, mailVars
<1>3. ASSUME NEW c \in Clients PROVE Testing(c)'
    <2>1. Testing(c)
        BY Zenon DEF MailTestInv
    <2> QED
        BY <1>1, <2>1, Zenon DEF Testing, Leaving, mailVars
<1> QED
    BY <1>2, <1>3, Zenon DEF MailTestInv, mailVars

(* The device and the postal worker hand on what has arrived, and the      *)
(* worker puts it in the box that it is for.                               *)
LEMMA MachineMailTest ==
    ASSUME PInv, MailTestInv, NEW m \in Machines, MachineStep(m) PROVE MailTestInv'
<1>1. UNCHANGED <<test, up, out, step, heard, aborted>>
    BY Zenon DEF MachineStep, CheckPktAvail, SendDone, WorkerP, WorkerReceive, WorkerPut, clientVars
<1> SUFFICES ASSUME test PROVE MailTestInv'
    BY <1>1 DEF MailTestInv
<1>2. ASSUME NEW n PROVE Settled(n)' <=> Settled(n)
    BY <1>1, Zenon DEF Settled, Finished
<1>3. ASSUME NEW c \in Clients PROVE Testing(c)'
    <2>1. Testing(c)
        BY Zenon DEF MailTestInv
    <2> QED
        BY <1>1, <1>2, <2>1, Zenon DEF Testing, Leaving
<1>4. ASSUME NEW n \in Machines PROVE Halted(n)' /\ Delivery(n)
    BY <1>1, <1>2, Zenon DEF MailTestInv, Halted
<1>5. ASSUME NEW n \in Machines, n # m PROVE Delivery(n)'
    <2>1. /\ socket'[n] = socket[n] /\ inHdr'[n] = inHdr[n] /\ hand'[n] = hand[n]
          /\ boxes'[n] = boxes[n]
        <3>1. CASE CheckPktAvail(m)
            BY <1>5, <3>1 DEF PInv, TypeOK, CheckPktAvail, ReadFromSocket
        <3>2. CASE SendDone(m)
            BY <3>2, ZenonT(40) DEF SendDone
        <3>3. CASE WorkerP(m)
            BY <3>3, Zenon DEF WorkerP, netVars
        <3>4. CASE WorkerReceive(m)
            BY <1>5, <3>4 DEF PInv, TypeOK, WorkerReceive
        <3>5. CASE WorkerPut(m)
            BY <1>5, <3>5 DEF PInv, TypeOK, WorkerPut, Put, netVars
        <3> QED
            BY <3>1, <3>2, <3>3, <3>4, <3>5 DEF MachineStep
    <2> QED
        BY <1>1, <1>2, <1>4, <1>5, <2>1, DeliveryStays, Zenon
<1>6. Delivery(m)'
    <2>1. Arrived(m)' = Arrived(m)
        BY <1>1, <1>2, Zenon DEF Arrived
    <2>2. ASSUME NEW b \in Boxes PROVE ArrivedIn(m, b)' = ArrivedIn(m, b)
        BY <2>1, Zenon DEF ArrivedIn
    <2>3. /\ socket[m] \in Seq(Arrived(m))
          /\ inHdr[m] \in Arrived(m) \cup {NULL} /\ hand[m] \in Arrived(m) \cup {NULL}
          /\ \A b \in Boxes : boxes[m][b] \in Seq(ArrivedIn(m, b))
        BY <1>4, Zenon DEF Delivery
    <2>4. SUFFICES /\ socket'[m] \in Seq(Arrived(m))
                   /\ inHdr'[m] \in Arrived(m) \cup {NULL} /\ hand'[m] \in Arrived(m) \cup {NULL}
                   /\ \A b \in Boxes : boxes'[m][b] \in Seq(ArrivedIn(m, b))
        BY <2>1, <2>2, <2>4, Zenon DEF Delivery
    <2>5. CASE CheckPktAvail(m)
        <3>1. Head(socket[m]) \in Arrived(m) /\ Tail(socket[m]) \in Seq(Arrived(m))
            BY <2>3, <2>5 DEF CheckPktAvail, PollSocket
        <3>2. inHdr'[m] = Head(socket[m]) /\ socket'[m] = Tail(socket[m])
            BY <2>5 DEF PInv, TypeOK, CheckPktAvail, ReadFromSocket
        <3> QED
            BY <2>3, <2>5, <3>1, <3>2, Zenon DEF CheckPktAvail
    <2>6. CASE SendDone(m)
        BY <2>3, <2>6, Zenon DEF SendDone
    <2>7. CASE WorkerP(m)
        BY <2>3, <2>7, Zenon DEF WorkerP, netVars
    <2>8. CASE WorkerReceive(m)
        <3>1. hand'[m] = inHdr[m] /\ inHdr'[m] = NULL
            BY <2>8 DEF PInv, TypeOK, WorkerReceive
        <3> QED
            BY <2>3, <2>8, <3>1, Zenon DEF WorkerReceive
    <2>9. CASE WorkerPut(m)
        <3>1. hand[m] # NULL
            BY <2>9, Zenon DEF PInv, WorkerInv, WorkerPut
        <3>2. hand[m] \in ArrivedIn(m, hand[m].box) /\ hand[m].box \in Boxes
            BY <2>3, <3>1, PostOfficeAssumption, Zenon DEF Arrived, ArrivedIn
        <3>3. hand'[m] = NULL
            BY <2>9 DEF PInv, TypeOK, WorkerPut
        <3>4. ASSUME NEW b \in Boxes PROVE boxes'[m][b] \in Seq(ArrivedIn(m, b))
            <4>1. boxes'[m][b] = IF b = hand[m].box THEN Append(boxes[m][b], hand[m]) ELSE boxes[m][b]
                BY <2>9, <3>2, Zenon DEF PInv, TypeOK, WorkerPut, Put
            <4>2. b = hand[m].box => Append(boxes[m][b], hand[m]) \in Seq(ArrivedIn(m, b))
                BY <2>3, <3>2
            <4> QED
                BY <2>3, <4>1, <4>2, Zenon
        <3> QED
            BY <2>3, <2>9, <3>3, <3>4, Zenon DEF WorkerPut, netVars
    <2> QED
        BY <2>5, <2>6, <2>7, <2>8, <2>9 DEF MachineStep
<1> QED
    BY <1>1, <1>3, <1>4, <1>5, <1>6, Zenon DEF MailTestInv

(* One client of each machine runs MailTest.                               *)
LEMMA OneTester ==
    ASSUME NEW c, NEW d, Tester(c), Tester(d), Machine[c] = Machine[d] PROVE c = d
<1> DEFINE First(m) == CHOOSE e \in Clients : Machine[e] = m
<1>1. c = First(Machine[c]) /\ d = First(Machine[d])
    BY Zenon DEF Tester
<1> HIDE DEF First
<1> QED
    BY <1>1

(* With two machines, whoever is not on machine m is on the other one.     *)
LEMMA OtherTester ==
    ASSUME TwoMachines, NEW m \in Machines,
           NEW c \in Clients, Tester(c), Machine[c] # m,
           NEW d \in Clients, Tester(d), Machine[d] # m
    PROVE  c = d
<1>1. Machine[c] \in Machines /\ Machine[d] \in Machines
    BY PostOfficeAssumption
<1>2. Machine[c] = Machine[d]
    BY <1>1, Zenon DEF TwoMachines
<1> QED
    BY <1>2, OneTester

(* The packet that the device takes is what its receiver may be told, and  *)
(* nobody sends to a machine that has halted.                              *)
LEMMA SendMailTest ==
    ASSUME PInv, MailTestInv, NEW c \in Clients, Send(c) PROVE MailTestInv'
<1>1. PICK x : x = out[c]
    OBVIOUS
<1>2. /\ UNCHANGED <<test, up, inHdr, hand, boxes, step, heard>>
      /\ out' = [out EXCEPT ![c] = NULL]
    BY Zenon DEF Send, NetworkSend, officeVars
<1> SUFFICES ASSUME test PROVE MailTestInv'
    BY <1>2 DEF MailTestInv
<1>3. x \in Mails /\ x # NULL
    BY <1>1, NullAssumption, Zenon DEF PInv, TypeOK, OutInv, Send, At
<1>4. Tester(c) /\ Leaving(c, x) /\ x.to \in Machines
    BY <1>3, <1>1, Zenon DEF MailTestInv, Testing, Mails
<1>5. \A d \in Clients : out'[d] = IF d = c THEN NULL ELSE out[d]
    BY <1>2 DEF PInv, TypeOK
<1>6. \A d \in Clients : Tester(d) /\ Finished(d) => Finished(d)'
    BY <1>2, <1>5, Zenon DEF Finished
<1>7. ASSUME NEW m PROVE Settled(m) => Settled(m)'
    BY <1>6, SettledStays
<1>8. ~TwoMachines \/ x.to \in up
    <2>1. ~Finished(c)
        BY <1>3, <1>1 DEF Finished
    <2>2. Halted(x.to)
        BY <1>4, Zenon DEF MailTestInv
    <2> QED
        BY <1>4, <2>1, <2>2, Zenon DEF Halted, Settled, Leaving
<1>9. TwoMachines => aborted' = {}
    BY <1>8, <1>1, Zenon DEF MailTestInv, Send, NetworkSend, SendToSocket
<1>10. x \in Arrived(x.to)'
    <2>1. x.to \in Machines /\ x.from # x.to /\ x.reply = 1 /\ x.box \in {0, 1}
        BY <1>4, Zenon DEF Leaving
    <2>2. ASSUME x.box = 1 PROVE x.to \in heard' /\ Settled(x.to)'
        <3>1. step[c] = 2 /\ x.to \in heard
            BY <1>4, <2>2 DEF Leaving
        <3>2. Finished(c)'
            BY <1>2, <1>5, <3>1 DEF Finished
        <3>3. Machine[c] # x.to
            BY <1>4 DEF Leaving
        <3>4. Settled(x.to)'
            <4> SUFFICES ASSUME TwoMachines, NEW d \in Clients, Machine[d] # x.to, Tester(d)
                         PROVE  Finished(d)'
                BY Zenon DEF Settled
            <4>1. c = d
                BY <1>4, <3>3, OtherTester
            <4> QED
                BY <3>2, <4>1
        <3> QED
            BY <1>2, <3>1, <3>4
    <2>3. x.box = 1 => x.to \in heard' /\ Settled(x.to)'
        BY <2>2
    <2> QED
        BY <1>3, <2>1, <2>3 DEF Arrived
<1>11. ASSUME NEW m \in Machines PROVE Delivery(m)' /\ Halted(m)'
    <2>1. Delivery(m) /\ Halted(m)
        BY Zenon DEF MailTestInv
    <2>2. Halted(m)'
        BY <1>2, <1>7, <2>1, Zenon DEF Halted
    <2>3. Delivery(m)'
        <3>1. CASE socket'[m] = socket[m]
            BY <1>2, <1>7, <2>1, <3>1, DeliveryStays, Zenon
        <3>2. CASE m = x.to /\ socket'[m] = Append(socket[m], x)
            <4>1. /\ Arrived(m) \subseteq Arrived(m)'
                  /\ \A b \in Boxes : ArrivedIn(m, b) \subseteq ArrivedIn(m, b)'
                BY <1>2, <1>7, ArrivedStays
            <4>2. socket[m] \in Seq(Arrived(m)')
                BY <2>1, <4>1, LargerSeq, Zenon DEF Delivery
            <4>3. socket'[m] \in Seq(Arrived(m)')
                <5> DEFINE S == Arrived(m)'
                <5>1. x \in S /\ socket[m] \in Seq(S)
                    BY <1>10, <3>2, <4>2
                <5> HIDE DEF S
                <5>2. Append(socket[m], x) \in Seq(S)
                    BY <5>1
                <5> QED
                    BY <3>2, <5>2, Zenon DEF S
            <4>4. ASSUME NEW b \in Boxes PROVE boxes[m][b] \in Seq(ArrivedIn(m, b)')
                BY <2>1, <4>1, LargerSeq DEF Delivery
            <4> QED
                BY <1>2, <2>1, <4>1, <4>3, <4>4, Zenon DEF Delivery
        <3>3. \/ socket' = socket
              \/ socket' = [socket EXCEPT ![x.to] = Append(@, x)]
            BY <1>1, Zenon DEF Send, NetworkSend, SendToSocket
        <3> QED
            BY <3>1, <3>2, <3>3, Zenon DEF PInv, TypeOK
    <2> QED
        BY <2>2, <2>3
<1>12. ASSUME NEW d \in Clients PROVE Testing(d)'
    <2>1. Testing(d)
        BY Zenon DEF MailTestInv
    <2>2. out'[d] = NULL \/ out'[d] = out[d]
        BY <1>5
    <2>3. ~Tester(d) => out'[d] = NULL
        BY <2>1, <2>2, Zenon DEF Testing
    <2>4. out'[d] # NULL => Leaving(d, out[d])'
        BY <1>2, <2>1, <2>2 DEF Testing, Leaving
    <2>5. step'[d] = 3 => Machine[d] \in heard' /\ Settled(Machine[d])'
        BY <1>2, <1>7, <2>1, Zenon DEF Testing
    <2> QED
        BY <2>3, <2>4, <2>5, Zenon DEF Testing
<1> QED
    BY <1>9, <1>11, <1>12, Zenon DEF MailTestInv

(* A client that takes mail out of a box leaves the rest.                  *)
LEMMA GetDelivery ==
    ASSUME PInv, NEW m \in Machines, Delivery(m), NEW c \in Clients, NEW box \in Boxes, Get(c, box),
           heard \subseteq heard', Settled(m) => Settled(m)', UNCHANGED <<socket, inHdr, hand>>
    PROVE  Delivery(m)'
<1>1. CASE m # Machine[c]
    <2>1. boxes'[m] = boxes[m]
        BY <1>1 DEF PInv, TypeOK, Get
    <2> QED
        BY <2>1, DeliveryStays, Zenon
<1>2. CASE m = Machine[c]
    <2>1. /\ Arrived(m) \subseteq Arrived(m)'
          /\ \A b \in Boxes : ArrivedIn(m, b) \subseteq ArrivedIn(m, b)'
        BY ArrivedStays
    <2>2. socket[m] \in Seq(Arrived(m)')
        BY <2>1, LargerSeq, Zenon DEF Delivery
    <2>3. ASSUME NEW b \in Boxes PROVE boxes'[m][b] \in Seq(ArrivedIn(m, b)')
        <3>1. boxes[m][b] \in Seq(ArrivedIn(m, b)')
            BY <2>1, LargerSeq, Zenon DEF Delivery
        <3> DEFINE S == ArrivedIn(m, b)'
        <3>2. boxes[m][b] \in Seq(S)
            BY <3>1
        <3> HIDE DEF S
        <3>3. \/ boxes'[m][b] = boxes[m][b]
              \/ boxes[m][b] # <<>> /\ boxes'[m][b] = Tail(boxes[m][b])
            <4>1. /\ boxes[m][box] # <<>> /\ boxes \in [Machines -> [Boxes -> Seq(Mails)]]
                  /\ boxes' = [boxes EXCEPT ![m] = [boxes[m] EXCEPT ![box] = Tail(boxes[m][box])]]
                BY <1>2, Zenon DEF PInv, TypeOK, Get
            <4>2. boxes'[m] = [boxes[m] EXCEPT ![box] = Tail(boxes[m][box])]
                BY <4>1, Zenon
            <4>3. boxes[m] \in [Boxes -> Seq(Mails)]
                BY <4>1, Zenon
            <4>4. boxes'[m][b] = IF b = box THEN Tail(boxes[m][b]) ELSE boxes[m][b]
                BY <4>2, <4>3, Zenon
            <4> QED
                BY <4>1, <4>4, Zenon
        <3>4. boxes'[m][b] \in Seq(S)
            BY <3>2, <3>3, TakenSeq, Zenon
        <3> QED
            BY <3>4 DEF S
    <2> QED
        BY <2>1, <2>2, <2>3, Zenon DEF Delivery
<1> QED
    BY <1>1, <1>2

(* A client that begins to send was not finished.                          *)
LEMMA CallSendMailTest ==
    ASSUME MailTestInv, test, NEW c \in Clients, Tester(c), ~Finished(c),
           \A d \in Clients : d # c => out'[d] = out[d] /\ step'[d] = step[d],
           Leaving(c, out[c])', step'[c] # 3, heard \subseteq heard'
    PROVE  /\ \A m \in Machines : Settled(m) => Settled(m)'
           /\ \A d \in Clients : Testing(d)'
<1>1. \A d \in Clients : Tester(d) /\ Finished(d) => Finished(d)'
    BY Zenon DEF Finished
<1>2. ASSUME NEW m PROVE Settled(m) => Settled(m)'
    BY <1>1, SettledStays, Zenon
<1>3. ASSUME NEW d \in Clients PROVE Testing(d)'
    <2>1. Testing(d)
        BY Zenon DEF MailTestInv
    <2>2. CASE d = c
        BY <2>2, Zenon DEF Testing
    <2>3. CASE d # c
        <3>1. out'[d] = out[d] /\ step'[d] = step[d]
            BY <2>3, Zenon
        <3>2. out'[d] # NULL => Leaving(d, out[d])'
            BY <2>1, <3>1, Zenon DEF Testing, Leaving
        <3>3. step'[d] = 3 => Machine[d] \in heard' /\ Settled(Machine[d])'
            BY <1>2, <2>1, <3>1, Zenon DEF Testing
        <3> QED
            BY <2>1, <3>1, <3>2, <3>3, Zenon DEF Testing
    <2> QED
        BY <2>2, <2>3, Zenon
<1> QED
    BY <1>2, <1>3

(* MailTest: each of its steps.                                            *)
LEMMA ClientMailTest ==
    ASSUME PInv, MailTestInv, NEW c \in Clients,
           \/ SendMail(c) \/ ReceiveMail(c) \/ SendMessage(c) \/ ReceiveAndAcknowledge(c)
           \/ ReceiveAcknowledgement(c) \/ Halt(c)
    PROVE  MailTestInv'
<1>1. test' = test
    BY Zenon DEF SendMail, ReceiveMail, SendMessage, ReceiveAndAcknowledge, ReceiveAcknowledgement, Halt
<1> SUFFICES ASSUME test PROVE MailTestInv'
    BY <1>1 DEF MailTestInv
<1>2. /\ Machine[c] \in Machines /\ 0 \in Boxes /\ 1 \in Boxes
      /\ \A d \in Clients : Machine[d] \in Machines
    BY PostOfficeAssumption
<1>3. /\ \A m \in Machines : Delivery(m) /\ Halted(m)
      /\ \A d \in Clients : Testing(d)
      /\ TwoMachines => aborted = {}
    BY Zenon DEF MailTestInv
<1>4. CASE SendMessage(c)
    <2>1. PICK farAddr \in Machines \ {Machine[c]} : CallSend(c, farAddr, 0, 1, 0)
        BY <1>4, Zenon DEF SendMessage
    <2>2. PICK x : x = [from |-> Machine[c], to |-> farAddr, box |-> 0, reply |-> 1, data |-> 0]
        BY Zenon
    <2>3. /\ out' = [out EXCEPT ![c] = x] /\ step' = [step EXCEPT ![c] = 1]
          /\ Tester(c) /\ step[c] = 0
          /\ UNCHANGED <<up, netVars, officeVars, heard, aborted>>
        BY <1>4, <2>1, <2>2, Zenon DEF SendMessage, CallSend
    <2>4. /\ out'[c] = x /\ step'[c] = 1
          /\ \A d \in Clients : d # c => out'[d] = out[d] /\ step'[d] = step[d]
        BY <2>3, Zenon DEF PInv, TypeOK
    <2>5. Leaving(c, out[c])'
        BY <2>2, <2>4 DEF Leaving
    <2>6. ~Finished(c) /\ step'[c] # 3
        BY <2>3, <2>4 DEF Finished
    <2>7. heard \subseteq heard'
        BY <2>3
    <2>8. /\ \A m \in Machines : Settled(m) => Settled(m)'
          /\ \A d \in Clients : Testing(d)'
        BY <2>3, <2>4, <2>5, <2>6, <2>7, CallSendMailTest
    <2>9. ASSUME NEW m \in Machines PROVE Delivery(m)' /\ Halted(m)'
        <3>1. Delivery(m)'
            BY <1>3, <2>3, <2>7, <2>8, DeliveryStays, Zenon DEF netVars, officeVars
        <3> QED
            BY <1>3, <2>3, <2>8, <3>1, Zenon DEF Halted
    <2> QED
        BY <1>3, <2>3, <2>8, <2>9, Zenon DEF MailTestInv
<1>5. CASE ReceiveAndAcknowledge(c)
    <2>1. PICK message : message = Head(boxes[Machine[c]][0])
        OBVIOUS
    <2>2. PICK x : x = [from |-> Machine[c], to |-> message.from, box |-> message.reply,
                        reply |-> 1, data |-> 0]
        BY Zenon
    <2>3. /\ Get(c, 0) /\ heard' = heard \cup {message.from}
          /\ out' = [out EXCEPT ![c] = x] /\ step' = [step EXCEPT ![c] = 2]
          /\ Tester(c) /\ step[c] = 1
          /\ UNCHANGED <<up, netVars, hand, aborted>>
        BY <1>5, <2>1, <2>2, Zenon DEF ReceiveAndAcknowledge, CallSend
    <2>4. /\ out'[c] = x /\ step'[c] = 2
          /\ \A d \in Clients : d # c => out'[d] = out[d] /\ step'[d] = step[d]
        BY <2>3, Zenon DEF PInv, TypeOK
    <2>5. message \in ArrivedIn(Machine[c], 0)
        <3>1. boxes[Machine[c]][0] \in Seq(ArrivedIn(Machine[c], 0)) /\ boxes[Machine[c]][0] # <<>>
            BY <1>2, <1>3, <2>3, Zenon DEF Delivery, Get
        <3> QED
            BY <2>1, <3>1, TakenSeq, Zenon
    <2>6. message.from # Machine[c] /\ message.reply = 1
        BY <2>5, Zenon DEF ArrivedIn, Arrived
    <2>7. Leaving(c, out[c])'
        <3>1. x.from = Machine[c] /\ x.to = message.from /\ x.reply = 1 /\ x.box = 1
            BY <2>2, <2>6, Zenon
        <3>2. message.from \in heard'
            BY <2>3, Zenon
        <3> QED
            BY <2>4, <2>6, <3>1, <3>2, Zenon DEF Leaving
    <2>8. ~Finished(c) /\ step'[c] # 3 /\ heard \subseteq heard'
        BY <2>3, <2>4 DEF Finished
    <2>9. /\ \A m \in Machines : Settled(m) => Settled(m)'
          /\ \A d \in Clients : Testing(d)'
        BY <2>3, <2>4, <2>7, <2>8, CallSendMailTest
    <2>10. ASSUME NEW m \in Machines PROVE Delivery(m)' /\ Halted(m)'
        <3>1. Delivery(m)'
            BY <1>2, <1>3, <2>3, <2>8, <2>9, GetDelivery DEF netVars
        <3> QED
            BY <1>3, <2>3, <2>9, <3>1, Zenon DEF Halted
    <2> QED
        BY <1>3, <2>3, <2>9, <2>10, Zenon DEF MailTestInv
<1>6. CASE ReceiveAcknowledgement(c)
    <2>1. /\ Get(c, 1) /\ step' = [step EXCEPT ![c] = 3] /\ pc[c] = "code" /\ step[c] = 2
          /\ UNCHANGED <<up, netVars, hand, out, heard, aborted>>
        BY <1>6, Zenon DEF ReceiveAcknowledgement, At
    <2>2. out[c] = NULL
        BY <2>1, Zenon DEF PInv, OutInv
    <2>3. step'[c] = 3 /\ \A d \in Clients : d # c => step'[d] = step[d]
        BY <2>1, Zenon DEF PInv, TypeOK
    <2>4. \A d \in Clients : Tester(d) /\ Finished(d) => Finished(d)'
        <3>1. step'[c] >= 2
            BY <2>3
        <3>2. out' = out
            BY <2>1, Zenon
        <3> QED
            BY <2>2, <2>3, <3>1, <3>2, Zenon DEF Finished
    <2>5. ASSUME NEW m PROVE Settled(m) => Settled(m)'
        BY <2>4, SettledStays
    <2>6. Machine[c] \in heard /\ Settled(Machine[c])
        <3>1. /\ boxes[Machine[c]][1] \in Seq(ArrivedIn(Machine[c], 1))
              /\ boxes[Machine[c]][1] # <<>>
            BY <1>2, <1>3, <2>1, Zenon DEF Delivery, Get
        <3>2. Head(boxes[Machine[c]][1]) \in ArrivedIn(Machine[c], 1)
            BY <3>1, TakenSeq, Zenon
        <3> QED
            BY <3>2, Zenon DEF ArrivedIn, Arrived
    <2>7. ASSUME NEW d \in Clients PROVE Testing(d)'
        <3>1. CASE d = c
            BY <2>1, <2>2, <2>5, <2>6, <3>1, Zenon DEF Testing
        <3>2. CASE d # c
            <4>1. out'[d] = out[d] /\ step'[d] = step[d] /\ Testing(d)
                BY <1>3, <2>1, <2>3, <3>2, Zenon
            <4>2. out'[d] # NULL => Leaving(d, out[d])'
                BY <2>1, <4>1, Zenon DEF Testing, Leaving
            <4>3. step'[d] = 3 => Machine[d] \in heard' /\ Settled(Machine[d])'
                BY <2>1, <2>5, <4>1, Zenon DEF Testing
            <4> QED
                BY <4>1, <4>2, <4>3, Zenon DEF Testing
        <3> QED
            BY <3>1, <3>2
    <2>8. ASSUME NEW m \in Machines PROVE Delivery(m)' /\ Halted(m)'
        <3>1. Delivery(m)'
            BY <1>2, <1>3, <2>1, <2>5, GetDelivery, Zenon DEF netVars
        <3> QED
            BY <1>3, <2>1, <2>5, <3>1, Zenon DEF Halted
    <2> QED
        BY <1>3, <2>1, <2>7, <2>8, Zenon DEF MailTestInv
<1>7. CASE Halt(c)
    <2>1. /\ step[c] = 3 /\ up' = up \ {Machine[c]}
          /\ UNCHANGED <<netVars, officeVars, clientVars, aborted>>
        BY <1>7, Zenon DEF Halt
    <2>2. ASSUME NEW m PROVE Settled(m)' <=> Settled(m)
        BY <2>1, Zenon DEF Settled, Finished, clientVars
    <2>3. ASSUME NEW m \in Machines PROVE Delivery(m)' /\ Halted(m)'
        <3>1. Delivery(m)'
            BY <1>3, <2>1, <2>2, DeliveryStays, Zenon DEF netVars, officeVars, clientVars
        <3>2. Settled(Machine[c])
            BY <1>3, <2>1, Zenon DEF Testing
        <3>3. m \notin up' => m \notin up \/ m = Machine[c]
            BY <2>1, Zenon
        <3> QED
            BY <1>3, <2>2, <3>1, <3>2, <3>3, Zenon DEF Halted
    <2>4. ASSUME NEW d \in Clients PROVE Testing(d)'
        BY <1>3, <2>1, <2>2, Zenon DEF Testing, Leaving, clientVars
    <2> QED
        BY <1>3, <2>1, <2>3, <2>4, Zenon DEF MailTestInv
<1> QED
    BY <1>4, <1>5, <1>6, <1>7, Zenon DEF SendMail, ReceiveMail

(* Every step keeps what MailTest relies on.                               *)
LEMMA MailTestNext == PInv /\ MailTestInv /\ [Next]_vars => MailTestInv'
<1>1. UNCHANGED vars => UNCHANGED mailVars
    BY Zenon DEF vars, mailVars, netVars, officeVars, clientVars
<1>2. ASSUME NEW c \in Clients, Acquire(c) \/ SentP(c) \/ Release(c) PROVE UNCHANGED mailVars
    BY <1>2, Zenon DEF mailVars, Acquire, SentP, Release, netVars
<1> QED
    BY <1>1, <1>2, MailVarsInv, MachineMailTest, SendMailTest, ClientMailTest, Zenon
    DEF Next, ClientStep

(* What MailTest relies on always holds.                                   *)
LEMMA MailTestInvariant == Spec => []MailTestInv
    BY InitMailTest, MailTestNext, Invariant, PTL DEF Spec

(* MailTest between any machines: who has an acknowledgement was heard.    *)
THEOREM AcknowledgedWasHeard ==
    Spec => [](test => \A c \in Clients : step[c] = 3 => Machine[c] \in heard)
<1>1. MailTestInv => (test => \A c \in Clients : step[c] = 3 => Machine[c] \in heard)
    BY Zenon DEF MailTestInv, Testing
<1> QED
    BY <1>1, MailTestInvariant, PTL

(* MailTest between two machines, as nettest.cc means it: a machine that   *)
(* halts at its end was heard, and the other one has nothing more to send  *)
(* to it, so that the host refuses no packet.  (With a third machine that  *)
(* sends to the first, this would not be so.)                              *)
THEOREM MailTestSafe ==
    ASSUME TwoMachines PROVE Spec => []AcknowledgedMeansReceived
<1>1. MailTestInv => AcknowledgedMeansReceived
    BY Zenon DEF MailTestInv, Testing, AcknowledgedMeansReceived
<1> QED
    BY <1>1, MailTestInvariant, PTL

-----------------------------------------------------------------------------
(* The refinement of MailSpec.  First, the packets for one mailbox among   *)
(* those in a machine.                                                     *)

Before(C, i) == {j \in C : j < i}

(* A set of natural numbers that is not empty has a smallest one.          *)
LEMMA Smallest ==
    ASSUME NEW S \in SUBSET Nat, S # {}
    PROVE  \E x \in S : \A y \in S : x <= y
<1>1. \E x \in S : \A y \in S : <<y, x>> \notin OpToRel(<, Nat)
    BY NatLessThanWellFounded, WFMin, Zenon
<1>2. PICK x \in S : \A y \in S : <<y, x>> \notin OpToRel(<, Nat)
    BY <1>1, Zenon
<1>3. \A y \in S : ~(y < x)
    BY <1>2, Zenon DEF OpToRel
<1> QED
    BY <1>3

(* A finite set of numbers has an nth one for every n up to its size.      *)
LEMMA NthExists ==
    ASSUME NEW C \in SUBSET Nat, IsFiniteSet(C), NEW n \in 1..Cardinality(C)
    PROVE  \E s \in C : Cardinality(Before(C, s)) = n - 1
<1> DEFINE Has(k) == \E s \in C : Cardinality(Before(C, s)) = k - 1
           Bad == {k \in 1..Cardinality(C) : ~Has(k)}
<1> HIDE DEF Has
<1>1. Cardinality(C) \in Nat
    BY FS_CardinalityType
<1>2. SUFFICES ASSUME Bad # {} PROVE FALSE
    BY Zenon DEF Has
<1>3. Bad \in SUBSET Nat
    BY <1>1
<1>4. PICK m \in Bad : \A k \in Bad : m <= k
    BY <1>2, <1>3, Smallest, Zenon
<1>5. m \in 1..Cardinality(C) /\ ~Has(m)
    OBVIOUS
<1> HIDE DEF Bad
<1>6. CASE m = 1
    <2>1. C # {}
        BY <1>5, FS_EmptySet
    <2>2. PICK s \in C : \A t \in C : s <= t
        BY <2>1, Smallest, Zenon
    <2>3. Before(C, s) = {}
        <3>1. \A t \in C : ~(t < s)
            BY <2>2
        <3> QED
            BY <3>1, Zenon DEF Before
    <2>4. Cardinality(Before(C, s)) = m - 1
        BY <1>6, <2>3, FS_EmptySet
    <2> QED
        BY <1>5, <2>4, Zenon DEF Has
<1>7. CASE m # 1
    <2>1. m - 1 \in 1..Cardinality(C) /\ ~(m <= m - 1)
        BY <1>1, <1>5, <1>7
    <2>2. Has(m - 1)
        BY <1>4, <2>1, Zenon DEF Bad
    <2>3. PICK s \in C : Cardinality(Before(C, s)) = m - 1 - 1
        BY <2>2, Zenon DEF Has
    <2>4. IsFiniteSet(Before(C, s)) /\ s \notin Before(C, s)
        <3>1. Before(C, s) \in SUBSET C
            BY Zenon DEF Before
        <3>2. ~(s < s)
            OBVIOUS
        <3> QED
            BY <3>1, <3>2, FS_Subset, Zenon DEF Before
    <2>5. Cardinality(Before(C, s) \cup {s}) = m - 1
        <3>1. Cardinality(Before(C, s) \cup {s}) = Cardinality(Before(C, s)) + 1
            BY <2>4, FS_AddElement, Zenon
        <3>2. m - 1 - 1 + 1 = m - 1
            BY <1>1, <1>5
        <3> QED
            BY <2>3, <3>1, <3>2, Zenon
    <2>6. Before(C, s) \cup {s} # C
        <3>1. Cardinality(C) # m - 1
            BY <1>1, <1>5
        <3> QED
            BY <2>5, <3>1, Zenon
    <2> DEFINE Above == {t \in C : s < t}
    <2>7. Above # {}
        <3>1. \A t \in C : t < s \/ t = s \/ s < t
            OBVIOUS
        <3> QED
            BY <2>6, <3>1, Zenon DEF Before
    <2>8. Above \in SUBSET Nat
        BY Zenon
    <2>9. PICK u \in Above : \A t \in Above : u <= t
        BY <2>7, <2>8, Smallest, Zenon
    <2>10. Before(C, u) = Before(C, s) \cup {s}
        <3>1. \A t \in C : t < u <=> (t < s \/ t = s)
            <4>1. u \in Nat /\ s < u
                OBVIOUS
            <4>2. \A t \in C : s < t => u <= t
                BY <2>9
            <4> QED
                BY <4>1, <4>2
        <3> QED
            BY <3>1, Zenon DEF Before
    <2> QED
        BY <1>5, <2>5, <2>9, <2>10, Zenon DEF Has
<1> QED
    BY <1>6, <1>7, Zenon

(* There is one nth.                                                       *)
LEMMA NthIs ==
    ASSUME NEW C \in SUBSET Nat, IsFiniteSet(C), NEW n, NEW i \in C, Cardinality(Before(C, i)) = n - 1
    PROVE  Nth(C, n) = i
<1>1. ASSUME NEW j \in C, NEW k \in C, j < k
      PROVE  Cardinality(Before(C, j)) < Cardinality(Before(C, k))
    <2>1. /\ Before(C, j) \in SUBSET C /\ Before(C, k) \in SUBSET C
          /\ j \notin Before(C, j) /\ Before(C, j) \cup {j} \subseteq Before(C, k)
        <3>1. ~(j < j) /\ \A l \in C : l < j => l < k
            BY <1>1
        <3> QED
            BY <1>1, <3>1, Zenon DEF Before
    <2>2. IsFiniteSet(Before(C, j)) /\ IsFiniteSet(Before(C, k))
        BY <2>1, FS_Subset, Zenon
    <2>3. /\ Cardinality(Before(C, j) \cup {j}) = Cardinality(Before(C, j)) + 1
          /\ Cardinality(Before(C, j)) \in Nat /\ Cardinality(Before(C, k)) \in Nat
        BY <2>1, <2>2, FS_AddElement, FS_CardinalityType, Zenon
    <2>4. Cardinality(Before(C, j) \cup {j}) <= Cardinality(Before(C, k))
        BY <2>1, <2>2, FS_Subset, Zenon
    <2> QED
        BY <2>3, <2>4
<1>2. ASSUME NEW j \in C, Cardinality(Before(C, j)) = n - 1
      PROVE  j = i
    <2>1. Before(C, i) \in SUBSET C
        BY Zenon DEF Before
    <2>2. Cardinality(Before(C, i)) \in Nat
        BY <2>1, FS_Subset, FS_CardinalityType, Zenon
    <2>3. ~(i < j) /\ ~(j < i)
        <3>1. ~(Cardinality(Before(C, i)) < Cardinality(Before(C, i)))
            BY <2>2
        <3> QED
            BY <1>1, <1>2, <3>1, Zenon
    <2> QED
        BY <2>3
<1> QED
    BY <1>2, Zenon DEF Nth, Before

(* What Nth gives.                                                         *)
LEMMA NthFacts ==
    ASSUME NEW C \in SUBSET Nat, IsFiniteSet(C), NEW n \in 1..Cardinality(C)
    PROVE  Nth(C, n) \in C /\ Cardinality(Before(C, Nth(C, n))) = n - 1
BY NthExists, Zenon DEF Nth, Before

(* A set and the same set one position later have the same size.           *)
LEMMA Shifted ==
    ASSUME NEW X \in SUBSET Nat, IsFiniteSet(X)
    PROVE  IsFiniteSet({i + 1 : i \in X}) /\ Cardinality({i + 1 : i \in X}) = Cardinality(X)
<1> DEFINE Y == {i + 1 : i \in X}
           f == [i \in X |-> i + 1]
<1>1. \A i, j \in X : i + 1 = j + 1 => i = j
    OBVIOUS
<1>2. f \in [X -> Y] /\ \A i \in X : f[i] = i + 1
    BY Zenon
<1>3. \A y \in Y : \E i \in X : f[i] = y
    BY <1>2, Zenon
<1>4. f \in Injection(X, Y)
    <2>1. \A i, j \in X : f[i] = f[j] => i = j
        BY <1>1, <1>2, Zenon
    <2> QED
        BY <1>2, <2>1, Zenon DEF Injection, IsInjective
<1>5. f \in Surjection(X, Y)
    BY <1>2, <1>3, Zenon DEF Surjection
<1>6. ExistsBijection(X, Y)
    BY <1>4, <1>5, Zenon DEF ExistsBijection, Bijection
<1> QED
    BY <1>6, FS_Bijection, Zenon

(* The positions of the packets for a mailbox.                             *)
LEMMA PositionsFacts ==
    ASSUME NEW S, NEW s \in Seq(S), NEW b
    PROVE  /\ PositionsFor(s, b) \in SUBSET Nat /\ IsFiniteSet(PositionsFor(s, b))
           /\ Cardinality(PositionsFor(s, b)) \in Nat
           /\ \A i : i \in PositionsFor(s, b) <=> i \in 1..Len(s) /\ s[i].box = b
<1>1. Len(s) \in Nat /\ DOMAIN s = 1..Len(s)
    OBVIOUS
<1>2. IsFiniteSet(1..Len(s)) /\ 1..Len(s) \in SUBSET Nat
    BY <1>1, FS_Interval
<1>3. \A i : i \in PositionsFor(s, b) <=> i \in 1..Len(s) /\ s[i].box = b
    BY <1>1, Zenon DEF PositionsFor
<1>4. PositionsFor(s, b) \in SUBSET (1..Len(s))
    BY <1>3, Zenon
<1>5. IsFiniteSet(PositionsFor(s, b))
    BY <1>2, <1>4, FS_Subset, Zenon
<1> QED
    BY <1>2, <1>3, <1>4, <1>5, FS_CardinalityType, Zenon

(* What ToBox gives is the nth packet for the box.                         *)
LEMMA ToBoxFacts ==
    ASSUME NEW S, NEW s \in Seq(S), NEW b
    PROVE  ToBox(s, b) \in Seq(S) /\ Len(ToBox(s, b)) = Cardinality(PositionsFor(s, b))
<1>0. PICK C : C = PositionsFor(s, b)
    BY Zenon
<1>1. ToBox(s, b) = [n \in 1..Cardinality(C) |-> s[Nth(C, n)]]
    BY <1>0, Zenon DEF ToBox
<1>2. Cardinality(C) \in Nat /\ C \in SUBSET Nat /\ IsFiniteSet(C)
    BY <1>0, PositionsFacts, Zenon
<1>3. ASSUME NEW n \in 1..Cardinality(C) PROVE s[Nth(C, n)] \in S
    <2>1. Nth(C, n) \in C
        BY <1>2, NthFacts, Zenon
    <2>2. Nth(C, n) \in 1..Len(s)
        BY <1>0, <2>1, PositionsFacts, Zenon
    <2>3. PICK i \in 1..Len(s) : i = Nth(C, n)
        BY <2>2, Zenon
    <2>4. s[i] \in S
        OBVIOUS
    <2> QED
        BY <2>3, <2>4, Zenon
<1>4. PICK c : c = Cardinality(C)
    BY Zenon
<1>5. PICK f : f = ToBox(s, b)
    BY Zenon
<1>6. f \in [1..c -> S] /\ c \in Nat
    BY <1>1, <1>2, <1>3, <1>4, <1>5, Zenon
<1>7. f \in Seq(S) /\ Len(f) = c
    BY <1>6
<1> QED
    BY <1>0, <1>4, <1>5, <1>7, Zenon

(* A packet that comes last is last in the line of its mailbox, and is in  *)
(* no other.                                                               *)
LEMMA ToBoxAppend ==
    ASSUME NEW S, NEW s \in Seq(S), NEW x \in S, NEW b
    PROVE  ToBox(Append(s, x), b) = IF x.box = b THEN Append(ToBox(s, b), x) ELSE ToBox(s, b)
<1>1. PICK t, l : t = Append(s, x) /\ l = Len(s)
    BY Zenon
<1>2. /\ t \in Seq(S) /\ Len(t) = l + 1 /\ l \in Nat
      /\ \A i \in 1..l : t[i] = s[i]
      /\ t[l + 1] = x
    BY <1>1
<1>3. PICK C, D : C = PositionsFor(s, b) /\ D = PositionsFor(t, b)
    BY Zenon
<1>4. /\ C \in SUBSET Nat /\ IsFiniteSet(C) /\ Cardinality(C) \in Nat
      /\ \A i : i \in C <=> i \in 1..l /\ s[i].box = b
    BY <1>1, <1>3, PositionsFacts, Zenon
<1>5. /\ D \in SUBSET Nat /\ IsFiniteSet(D) /\ Cardinality(D) \in Nat
      /\ \A i : i \in D <=> i \in 1..(l + 1) /\ t[i].box = b
    <2>1. t \in Seq(S) /\ Len(t) = l + 1
        BY <1>2, Zenon
    <2>2. /\ PositionsFor(t, b) \in SUBSET Nat /\ IsFiniteSet(PositionsFor(t, b))
          /\ Cardinality(PositionsFor(t, b)) \in Nat
          /\ \A i : i \in PositionsFor(t, b) <=> i \in 1..Len(t) /\ t[i].box = b
        BY <2>1, PositionsFacts, Zenon
    <2> QED
        BY <1>3, <2>1, <2>2, Zenon
<1>6. \A i : i \in 1..(l + 1) <=> i \in 1..l \/ i = l + 1
    BY <1>2
<1>7. l + 1 \notin C /\ \A i \in C : i < l + 1 /\ ~(l + 1 < i)
    <2>1. \A i \in 1..l : i < l + 1 /\ ~(l + 1 < i) /\ i # l + 1
        BY <1>2
    <2> QED
        BY <1>4, <2>1, Zenon
<1>8. /\ ToBox(s, b) = [n \in 1..Cardinality(C) |-> s[Nth(C, n)]]
      /\ ToBox(t, b) = [n \in 1..Cardinality(D) |-> t[Nth(D, n)]]
      /\ ToBox(s, b) \in Seq(S) /\ Len(ToBox(s, b)) = Cardinality(C)
      /\ ToBox(t, b) \in Seq(S) /\ Len(ToBox(t, b)) = Cardinality(D)
    <2>1. t \in Seq(S)
        BY <1>2, Zenon
    <2>2. /\ ToBox(s, b) = [n \in 1..Cardinality(C) |-> s[Nth(C, n)]]
          /\ ToBox(s, b) \in Seq(S) /\ Len(ToBox(s, b)) = Cardinality(C)
        <3>1. ToBox(s, b) \in Seq(S) /\ Len(ToBox(s, b)) = Cardinality(C)
            BY <1>3, ToBoxFacts, Zenon
        <3> QED
            BY <1>3, <3>1, Zenon DEF ToBox
    <2>3. /\ ToBox(t, b) = [n \in 1..Cardinality(D) |-> t[Nth(D, n)]]
          /\ ToBox(t, b) \in Seq(S) /\ Len(ToBox(t, b)) = Cardinality(D)
        <3>1. ToBox(t, b) \in Seq(S) /\ Len(ToBox(t, b)) = Cardinality(D)
            BY <1>3, <2>1, ToBoxFacts, Zenon
        <3> QED
            BY <1>3, <3>1, Zenon DEF ToBox
    <2> QED
        BY <2>2, <2>3, Zenon
<1>9. ASSUME NEW n \in 1..Cardinality(C) PROVE t[Nth(C, n)] = s[Nth(C, n)]
    BY <1>2, <1>4, NthFacts, Zenon
<1>10. CASE x.box # b
    <2>1. \A i : i \in D <=> i \in C
        BY <1>2, <1>4, <1>5, <1>6, <1>10, Zenon
    <2>2. D = C
        BY <2>1, Zenon
    <2>3. ToBox(t, b) = ToBox(s, b)
        BY <1>8, <1>9, <2>2, Zenon
    <2> QED
        BY <1>1, <1>10, <2>3, Zenon
<1>11. CASE x.box = b
    <2>1. \A i : i \in D <=> i \in C \/ i = l + 1
        BY <1>2, <1>4, <1>5, <1>6, <1>11, Zenon
    <2>2. D = C \cup {l + 1}
        BY <2>1, Zenon
    <2>3. Cardinality(D) = Cardinality(C) + 1
        BY <1>4, <1>7, <2>2, FS_AddElement, Zenon
    <2>4. ASSUME NEW n \in 1..Cardinality(C) PROVE Nth(D, n) = Nth(C, n)
        <3>1. Nth(C, n) \in C /\ Cardinality(Before(C, Nth(C, n))) = n - 1
            BY <1>4, NthFacts, Zenon
        <3>2. Before(D, Nth(C, n)) = Before(C, Nth(C, n))
            BY <1>7, <2>1, <3>1, Zenon DEF Before
        <3>3. Nth(C, n) \in D /\ Cardinality(Before(D, Nth(C, n))) = n - 1
            BY <2>1, <3>1, <3>2, Zenon
        <3>4. D \in SUBSET Nat /\ IsFiniteSet(D)
            BY <1>5, Zenon
        <3> QED
            BY <3>3, <3>4, NthIs, Zenon
    <2>5. Nth(D, Cardinality(C) + 1) = l + 1
        <3>1. ~(l + 1 < l + 1)
            BY <1>2
        <3>2. Before(D, l + 1) = C
            BY <1>7, <2>1, <3>1, Zenon DEF Before
        <3>3. PICK n, k : n = Cardinality(C) + 1 /\ k = l + 1
            BY Zenon
        <3>4. n - 1 = Cardinality(C)
            BY <1>4, <3>3
        <3>5. k \in D /\ Cardinality(Before(D, k)) = n - 1
            BY <2>1, <3>2, <3>3, <3>4, Zenon
        <3>6. D \in SUBSET Nat /\ IsFiniteSet(D)
            BY <1>5, Zenon
        <3>7. Nth(D, n) = k
            BY <3>5, <3>6, NthIs, Zenon
        <3> QED
            BY <3>3, <3>7, Zenon
    <2>6. PICK c, f, g : c = Cardinality(C) /\ f = ToBox(s, b) /\ g = ToBox(t, b)
        BY Zenon
    <2>7. /\ c \in Nat /\ f \in Seq(S) /\ g \in Seq(S) /\ Len(f) = c /\ Len(g) = c + 1
          /\ \A n \in 1..c : g[n] = f[n]
          /\ g[c + 1] = x
        <3>1. c \in Nat /\ f \in Seq(S) /\ g \in Seq(S) /\ Len(f) = c /\ Len(g) = c + 1
            BY <1>4, <1>8, <2>3, <2>6, Zenon
        <3>2. c + 1 \in 1..(c + 1) /\ \A n \in 1..c : n \in 1..(c + 1)
            BY <3>1
        <3>3. \A n \in 1..c : g[n] = f[n]
            BY <1>8, <1>9, <2>3, <2>4, <2>6, <3>2, Zenon
        <3>4. g[c + 1] = x
            BY <1>2, <1>8, <2>3, <2>5, <2>6, <3>2, Zenon
        <3> QED
            BY <3>1, <3>3, <3>4, Zenon
    <2>8. g = Append(f, x)
        BY <2>7
    <2> QED
        BY <1>1, <1>11, <2>6, <2>8, Zenon
<1> QED
    BY <1>10, <1>11, Zenon

(* The packet that is first is first in the line of its mailbox; without   *)
(* it the others are as they were.                                         *)
LEMMA ToBoxTail ==
    ASSUME NEW S, NEW s \in Seq(S), s # <<>>, NEW b
    PROVE  IF Head(s).box = b THEN /\ ToBox(s, b) # <<>> /\ Head(ToBox(s, b)) = Head(s)
                                   /\ ToBox(Tail(s), b) = Tail(ToBox(s, b))
                              ELSE ToBox(Tail(s), b) = ToBox(s, b)
<1>1. PICK t, x, l : t = Tail(s) /\ x = Head(s) /\ l = Len(t)
    BY Zenon
<1>2. /\ t \in Seq(S) /\ Len(s) = l + 1 /\ l \in Nat
      /\ \A i \in 1..l : t[i] = s[i + 1]
      /\ s[1] = x
    BY <1>1
<1>3. PICK C, D : C = PositionsFor(s, b) /\ D = PositionsFor(t, b)
    BY Zenon
<1>4. /\ C \in SUBSET Nat /\ IsFiniteSet(C) /\ Cardinality(C) \in Nat
      /\ \A i : i \in C <=> i \in 1..(l + 1) /\ s[i].box = b
    <2>1. /\ PositionsFor(s, b) \in SUBSET Nat /\ IsFiniteSet(PositionsFor(s, b))
          /\ Cardinality(PositionsFor(s, b)) \in Nat
          /\ \A i : i \in PositionsFor(s, b) <=> i \in 1..Len(s) /\ s[i].box = b
        BY PositionsFacts, Zenon
    <2>2. Len(s) = l + 1
        BY <1>2, Zenon
    <2> QED
        BY <1>3, <2>1, <2>2, Zenon
<1>5. /\ D \in SUBSET Nat /\ IsFiniteSet(D) /\ Cardinality(D) \in Nat
      /\ \A i : i \in D <=> i \in 1..l /\ t[i].box = b
    <2>1. t \in Seq(S) /\ Len(t) = l
        BY <1>1, <1>2, Zenon
    <2>2. /\ PositionsFor(t, b) \in SUBSET Nat /\ IsFiniteSet(PositionsFor(t, b))
          /\ Cardinality(PositionsFor(t, b)) \in Nat
          /\ \A i : i \in PositionsFor(t, b) <=> i \in 1..Len(t) /\ t[i].box = b
        BY <2>1, PositionsFacts, Zenon
    <2> QED
        BY <1>3, <2>1, <2>2, Zenon
<1>6. PICK E : E = {i + 1 : i \in D}
    BY Zenon
<1>7. IsFiniteSet(E) /\ Cardinality(E) = Cardinality(D)
    BY <1>5, <1>6, Shifted, Zenon
<1>8. /\ \A j : j \in 1..(l + 1) <=> j = 1 \/ \E i \in 1..l : j = i + 1
      /\ \A i \in 1..l : i \in Nat /\ i + 1 # 1 /\ 1 < i + 1 /\ ~(i + 1 < 1)
      /\ \A i, k \in 1..l : i + 1 < k + 1 <=> i < k
    <2>1. ASSUME NEW j \in 1..(l + 1), j # 1 PROVE j - 1 \in 1..l /\ j = (j - 1) + 1
        BY <1>2, <2>1
    <2>2. /\ \A i \in 1..l : i + 1 \in 1..(l + 1)
          /\ 1 \in 1..(l + 1)
        BY <1>2
    <2>3. \A i \in 1..l : i \in Nat /\ i + 1 # 1 /\ 1 < i + 1 /\ ~(i + 1 < 1)
        BY <1>2
    <2>4. \A i, k \in 1..l : i + 1 < k + 1 <=> i < k
        BY <1>2
    <2>5. \A j : j \in 1..(l + 1) <=> j = 1 \/ \E i \in 1..l : j = i + 1
        BY <2>1, <2>2, Zenon
    <2> QED
        BY <2>3, <2>4, <2>5, Zenon
<1>9. \A j : j \in C <=> (j = 1 /\ x.box = b) \/ j \in E
    <2>1. 1 \in C <=> x.box = b
        BY <1>2, <1>4, <1>8, Zenon
    <2>2. ASSUME NEW i \in 1..l PROVE i + 1 \in C <=> i \in D
        <3>1. i + 1 \in 1..(l + 1) /\ t[i] = s[i + 1]
            BY <1>2, <1>8, Zenon
        <3> QED
            BY <1>4, <1>5, <3>1, Zenon
    <2>3. ASSUME NEW j \in C, j # 1 PROVE j \in E
        <3>1. j \in 1..(l + 1)
            BY <1>4, Zenon
        <3>2. PICK i \in 1..l : j = i + 1
            BY <1>8, <2>3, <3>1, Zenon
        <3> QED
            BY <1>6, <2>2, <3>2, Zenon
    <2>4. ASSUME NEW j \in E PROVE j \in C
        <3>1. PICK i \in D : j = i + 1
            BY <1>6, Zenon
        <3>2. i \in 1..l
            BY <1>5, Zenon
        <3> QED
            BY <2>2, <3>1, <3>2, Zenon
    <2> QED
        BY <2>1, <2>3, <2>4, Zenon
<1>10. 1 \notin E /\ \A i \in D : i \in 1..l /\ i + 1 \in E /\ i + 1 \in C
    BY <1>5, <1>6, <1>8, <1>9, Zenon
<1>11. ASSUME NEW i \in D
       PROVE  /\ Before(E, i + 1) = {j + 1 : j \in Before(D, i)}
              /\ IsFiniteSet(Before(E, i + 1))
              /\ Cardinality(Before(E, i + 1)) = Cardinality(Before(D, i))
              /\ 1 \notin Before(E, i + 1)
    <2>1. \A j \in D : j + 1 < i + 1 <=> j < i
        BY <1>8, <1>10, Zenon
    <2>2. Before(E, i + 1) = {j + 1 : j \in Before(D, i)}
        BY <1>6, <2>1, Zenon DEF Before
    <2>3. Before(D, i) \in SUBSET Nat /\ Before(D, i) \in SUBSET D
        BY <1>5, Zenon DEF Before
    <2>4. IsFiniteSet(Before(D, i))
        BY <1>5, <2>3, FS_Subset, Zenon
    <2>5. 1 \notin Before(E, i + 1)
        BY <1>10, Zenon DEF Before
    <2> QED
        BY <2>2, <2>3, <2>4, <2>5, Shifted, Zenon
<1>12. /\ ToBox(s, b) = [n \in 1..Cardinality(C) |-> s[Nth(C, n)]]
       /\ ToBox(t, b) = [n \in 1..Cardinality(D) |-> t[Nth(D, n)]]
       /\ ToBox(s, b) \in Seq(S) /\ Len(ToBox(s, b)) = Cardinality(C)
       /\ ToBox(t, b) \in Seq(S) /\ Len(ToBox(t, b)) = Cardinality(D)
    <2>1. t \in Seq(S)
        BY <1>2, Zenon
    <2>2. /\ ToBox(s, b) = [n \in 1..Cardinality(C) |-> s[Nth(C, n)]]
          /\ ToBox(s, b) \in Seq(S) /\ Len(ToBox(s, b)) = Cardinality(C)
        <3>1. ToBox(s, b) \in Seq(S) /\ Len(ToBox(s, b)) = Cardinality(C)
            BY <1>3, ToBoxFacts, Zenon
        <3> QED
            BY <1>3, <3>1, Zenon DEF ToBox
    <2>3. /\ ToBox(t, b) = [n \in 1..Cardinality(D) |-> t[Nth(D, n)]]
          /\ ToBox(t, b) \in Seq(S) /\ Len(ToBox(t, b)) = Cardinality(D)
        <3>1. ToBox(t, b) \in Seq(S) /\ Len(ToBox(t, b)) = Cardinality(D)
            BY <1>3, <2>1, ToBoxFacts, Zenon
        <3> QED
            BY <1>3, <3>1, Zenon DEF ToBox
    <2> QED
        BY <2>2, <2>3, Zenon
<1>13. ASSUME NEW n \in 1..Cardinality(D)
       PROVE  Nth(D, n) \in D /\ Cardinality(Before(D, Nth(D, n))) = n - 1 /\ t[Nth(D, n)] = s[Nth(D, n) + 1]
    BY <1>2, <1>5, <1>10, NthFacts, Zenon
<1>14. CASE x.box # b
    <2>1. C = E
        BY <1>9, <1>14, Zenon
    <2>2. ASSUME NEW n \in 1..Cardinality(D) PROVE Nth(C, n) = Nth(D, n) + 1
        <3>1. PICK i \in D : i = Nth(D, n)
            BY <1>13, Zenon
        <3>2. i + 1 \in C /\ Cardinality(Before(C, i + 1)) = n - 1
            BY <1>10, <1>11, <1>13, <2>1, <3>1, Zenon
        <3>3. C \in SUBSET Nat /\ IsFiniteSet(C)
            BY <1>4, Zenon
        <3>4. PICK k : k = i + 1
            BY Zenon
        <3>5. k \in C /\ Cardinality(Before(C, k)) = n - 1
            BY <3>2, <3>4, Zenon
        <3>6. Nth(C, n) = k
            BY <3>3, <3>5, NthIs, Zenon
        <3> QED
            BY <3>1, <3>4, <3>6, Zenon
    <2>3. ToBox(t, b) = ToBox(s, b)
        <3>1. Cardinality(C) = Cardinality(D)
            BY <1>7, <2>1, Zenon
        <3>2. \A n \in 1..Cardinality(D) : t[Nth(D, n)] = s[Nth(C, n)]
            BY <1>13, <2>2, Zenon
        <3> QED
            BY <1>12, <3>1, <3>2, Zenon
    <2> QED
        BY <1>1, <1>14, <2>3, Zenon
<1>15. CASE x.box = b
    <2>1. C = E \cup {1}
        BY <1>9, <1>15, Zenon
    <2>2. Cardinality(C) = Cardinality(D) + 1
        BY <1>7, <1>10, <2>1, FS_AddElement, Zenon
    <2>3. Nth(C, 1) = 1
        <3>1. Before(C, 1) = {}
            <4>1. \A j \in C : ~(j < 1)
                BY <1>4
            <4> QED
                BY <4>1, Zenon DEF Before
        <3>2. 0 = 1 - 1
            OBVIOUS
        <3>3. Cardinality(Before(C, 1)) = 1 - 1
            BY <3>1, <3>2, FS_EmptySet, Zenon
        <3>4. 1 \in C /\ C \in SUBSET Nat /\ IsFiniteSet(C)
            BY <1>4, <2>1, Zenon
        <3> QED
            BY <3>3, <3>4, NthIs, Zenon
    <2>4. ASSUME NEW n \in 1..Cardinality(D) PROVE Nth(C, n + 1) = Nth(D, n) + 1
        <3>1. PICK i \in D : i = Nth(D, n)
            BY <1>13, Zenon
        <3>2. Before(C, i + 1) = Before(E, i + 1) \cup {1}
            <4>1. 1 < i + 1
                BY <1>8, <1>10, Zenon
            <4> QED
                BY <2>1, <4>1, Zenon DEF Before
        <3>3. Cardinality(Before(C, i + 1)) = Cardinality(Before(D, i)) + 1
            BY <1>11, <3>2, FS_AddElement, Zenon
        <3>4. Cardinality(Before(D, i)) = n - 1
            BY <1>13, <3>1, Zenon
        <3>5. PICK k, p : k = i + 1 /\ p = n + 1
            BY Zenon
        <3>6. p - 1 = (n - 1) + 1
            BY <1>5, <3>5
        <3>7. k \in C /\ Cardinality(Before(C, k)) = p - 1
            BY <1>10, <3>3, <3>4, <3>5, <3>6, Zenon
        <3>8. C \in SUBSET Nat /\ IsFiniteSet(C)
            BY <1>4, Zenon
        <3>9. Nth(C, p) = k
            BY <3>7, <3>8, NthIs, Zenon
        <3> QED
            BY <3>1, <3>5, <3>9, Zenon
    <2>5. PICK c, f, g : c = Cardinality(D) /\ f = ToBox(s, b) /\ g = ToBox(t, b)
        BY Zenon
    <2>6. c \in Nat /\ f \in Seq(S) /\ g \in Seq(S) /\ Len(f) = c + 1 /\ Len(g) = c
        BY <1>5, <1>12, <2>2, <2>5, Zenon
    <2>7. 1 \in 1..(c + 1) /\ \A n \in 1..c : n + 1 \in 1..(c + 1)
        BY <2>6
    <2>8. f[1] = x
        BY <1>2, <1>12, <2>2, <2>3, <2>5, <2>7, Zenon
    <2>9. \A n \in 1..c : g[n] = f[n + 1]
        <3>1. SUFFICES ASSUME NEW n \in 1..Cardinality(D) PROVE g[n] = f[n + 1]
            BY <2>5, Zenon
        <3>2. n + 1 \in 1..Cardinality(C)
            BY <2>2, <2>5, <2>7, Zenon
        <3>3. f[n + 1] = s[Nth(C, n + 1)] /\ g[n] = t[Nth(D, n)]
            BY <1>12, <2>5, <3>2, Zenon
        <3> QED
            BY <1>13, <2>4, <3>3, Zenon
    <2>10. f # <<>> /\ Head(f) = x /\ g = Tail(f)
        BY <2>6, <2>8, <2>9
    <2> QED
        BY <1>1, <1>15, <2>5, <2>10, Zenon
<1> QED
    BY <1>1, <1>14, <1>15, Zenon

-----------------------------------------------------------------------------
(* Then the lines of the mailboxes.                                        *)

(* The data of a line changes as the line does.                            *)
LEMMA DataFacts ==
    ASSUME NEW s \in Seq(Mails), NEW x \in Mails
    PROVE  /\ Data(Append(s, x)) = Append(Data(s), x.data) /\ x.data \in 0..MaxMail
           /\ s # <<>> => Data(s) # <<>> /\ Data(Tail(s)) = Tail(Data(s))
<1>1. PICK V : V = 0..MaxMail
    BY Zenon
<1>2. x.data \in V /\ \A i \in 1..Len(s) : s[i].data \in V
    <2>1. \A y \in Mails : y.data \in V
        BY <1>1, Zenon DEF Mails
    <2>2. \A i \in 1..Len(s) : s[i] \in Mails
        OBVIOUS
    <2> QED
        BY <2>1, <2>2, Zenon
<1>3. PICK d, l, v : d = Data(s) /\ l = Len(s) /\ v = x.data
    BY Zenon
<1>4. l \in Nat /\ d \in [1..l -> V] /\ (\A i \in 1..l : d[i] = s[i].data) /\ v \in V
    <2>1. l \in Nat
        BY <1>3
    <2> QED
        BY <1>2, <1>3, <2>1, Zenon DEF Data
<1>5. d \in Seq(V) /\ Len(d) = l
    BY <1>4
<1>6. Data(Append(s, x)) = Append(d, v)
    <2>1. PICK t : t = Append(s, x)
        BY Zenon
    <2>2. Len(t) = l + 1 /\ t[l + 1] = x /\ \A i \in 1..l : t[i] = s[i]
        BY <1>3, <2>1
    <2>3. Data(t) = [i \in 1..(l + 1) |-> t[i].data]
        BY <2>2, Zenon DEF Data
    <2>4. \A i \in 1..(l + 1) : i \in 1..l \/ i = l + 1
        BY <1>4
    <2>5. PICK e : e = Data(t)
        BY Zenon
    <2>6. \A i \in 1..(l + 1) : t[i].data \in V
        BY <1>2, <1>3, <2>2, <2>4, Zenon
    <2>7. e \in [1..(l + 1) -> V] /\ \A i \in 1..(l + 1) : e[i] = t[i].data
        BY <2>3, <2>5, <2>6, Zenon
    <2>8. l + 1 \in 1..(l + 1) /\ \A i \in 1..l : i \in 1..(l + 1)
        BY <1>4
    <2>9. e[l + 1] = v /\ \A i \in 1..l : e[i] = d[i]
        BY <1>3, <1>4, <2>2, <2>7, <2>8, Zenon
    <2>10. e \in Seq(V) /\ Len(e) = l + 1
        BY <1>4, <2>7
    <2>11. e = Append(d, v)
        BY <1>4, <1>5, <2>9, <2>10
    <2> QED
        BY <2>1, <2>5, <2>11, Zenon
<1>7. ASSUME s # <<>> PROVE d # <<>> /\ Data(Tail(s)) = Tail(d)
    <2>1. PICK t : t = Tail(s)
        BY Zenon
    <2>2. l # 0 /\ Len(t) = l - 1 /\ \A i \in 1..(l - 1) : t[i] = s[i + 1]
        BY <1>3, <1>7, <2>1
    <2>3. Data(t) = [i \in 1..(l - 1) |-> t[i].data]
        BY <2>2, Zenon DEF Data
    <2>4. \A i \in 1..(l - 1) : i + 1 \in 1..l
        BY <1>4
    <2>5. \A i \in 1..(l - 1) : t[i].data = d[i + 1]
        BY <1>4, <2>2, <2>4, Zenon
    <2>6. PICK e : e = Data(t)
        BY Zenon
    <2>7. e \in [1..(l - 1) -> V] /\ \A i \in 1..(l - 1) : e[i] = d[i + 1]
        <3>1. \A i \in 1..(l - 1) : t[i].data \in V
            BY <1>4, <2>4, <2>5, Zenon
        <3>2. e \in [1..(l - 1) -> V] /\ \A i \in 1..(l - 1) : e[i] = t[i].data
            BY <2>3, <2>6, <3>1, Zenon
        <3> QED
            BY <2>5, <3>2, Zenon
    <2>8. e \in Seq(V) /\ Len(e) = l - 1
        BY <1>4, <2>2, <2>7
    <2>9. d # <<>> /\ e = Tail(d)
        BY <1>4, <1>5, <2>2, <2>7, <2>8
    <2> QED
        BY <2>1, <2>6, <2>9, Zenon
<1> QED
    BY <1>1, <1>2, <1>3, <1>6, <1>7, Zenon

(* What is in a machine are whole packets.                                 *)
LEMMA LineTypes ==
    ASSUME PInv, NEW m \in Machines
    PROVE  /\ Maybe(hand[m]) \in Seq(Mails) /\ Maybe(inHdr[m]) \in Seq(Mails) /\ socket[m] \in Seq(Mails)
           /\ Maybe(hand[m]) \o Maybe(inHdr[m]) \in Seq(Mails) /\ Packets(m) \in Seq(Mails)
           /\ \A b \in Boxes : /\ boxes[m][b] \in Seq(Mails) /\ ToBox(Packets(m), b) \in Seq(Mails)
                               /\ Line(m, b) \in Seq(Mails)
<1>1. /\ hand[m] \in Mails \cup {NULL} /\ inHdr[m] \in Mails \cup {NULL} /\ socket[m] \in Seq(Mails)
      /\ \A b \in Boxes : boxes[m][b] \in Seq(Mails)
    BY Zenon DEF PInv, TypeOK
<1>2. <<>> \in Seq(Mails) /\ \A x \in Mails : <<x>> \in Seq(Mails)
    OBVIOUS
<1>3. Maybe(hand[m]) \in Seq(Mails) /\ Maybe(inHdr[m]) \in Seq(Mails)
    BY <1>1, <1>2, Zenon DEF Maybe
<1>4. \A s, t \in Seq(Mails) : s \o t \in Seq(Mails)
    OBVIOUS
<1>5. Maybe(hand[m]) \o Maybe(inHdr[m]) \in Seq(Mails) /\ Packets(m) \in Seq(Mails)
    BY <1>1, <1>3, <1>4, Zenon DEF Packets
<1>6. \A b : ToBox(Packets(m), b) \in Seq(Mails)
    BY <1>5, ToBoxFacts, Zenon
<1> QED
    BY <1>1, <1>3, <1>4, <1>5, <1>6, Zenon DEF Line

-----------------------------------------------------------------------------
(* What a step does to the lines.                                          *)

LinesKept == \A m \in Machines, b \in Boxes : Line(m, b)' = Line(m, b)

OthersKept(m, b) ==
    \A n \in Machines, c \in Boxes : ~(n = m /\ c = b) => Line(n, c)' = Line(n, c)

MailSent(m, b) == OthersKept(m, b) /\ \E x \in Mails : Line(m, b)' = Append(Line(m, b), x)

MailReceived(m, b) ==
    OthersKept(m, b) /\ Line(m, b) # <<>> /\ Line(m, b)' = Tail(Line(m, b))

MailStep ==
    \/ LinesKept
    \/ \E m \in Machines, b \in Boxes : MailSent(m, b) \/ MailReceived(m, b)

(* A line is made of these.                                                *)
LEMMA SamePackets ==
    ASSUME NEW n \in Machines,
           (hand'[n] = hand[n] /\ inHdr'[n] = inHdr[n] /\ socket'[n] = socket[n]) \/ Packets(n)' = Packets(n)
    PROVE  Packets(n)' = Packets(n) /\ \A c : boxes'[n][c] = boxes[n][c] => Line(n, c)' = Line(n, c)
<1>1. Packets(n)' = Packets(n)
    BY Zenon DEF Packets, Maybe
<1> QED
    BY <1>1, Zenon DEF Line

(* The device takes a packet from the socket: it keeps its place.          *)
LEMMA PollLines ==
    ASSUME PInv, NEW m \in Machines, CheckPktAvail(m)
    PROVE  LinesKept
<1>1. /\ hand' = hand /\ boxes' = boxes
      /\ inHdr[m] = NULL /\ inHdr' = [inHdr EXCEPT ![m] = Head(socket[m])]
      /\ socket[m] # <<>> /\ socket' = [socket EXCEPT ![m] = Tail(socket[m])]
    BY Zenon DEF CheckPktAvail, PollSocket, ReadFromSocket
<1>2. /\ inHdr'[m] = Head(socket[m]) /\ socket'[m] = Tail(socket[m])
      /\ \A n \in Machines : n # m => inHdr'[n] = inHdr[n] /\ socket'[n] = socket[n]
    BY <1>1, Zenon DEF PInv, TypeOK
<1>3. PICK h, s : h = Maybe(hand[m]) /\ s = socket[m]
    BY Zenon
<1>4. h \in Seq(Mails) /\ s \in Seq(Mails) /\ s # <<>>
    BY <1>1, <1>3, LineTypes, Zenon
<1>5. Head(s) \in Mails /\ Head(s) # NULL
    BY <1>4, NullAssumption
<1>6. Packets(m) = (h \o <<>>) \o s /\ Packets(m)' = (h \o <<Head(s)>>) \o Tail(s)
    BY <1>1, <1>2, <1>3, <1>5, Zenon DEF Packets, Maybe
<1>7. (h \o <<Head(s)>>) \o Tail(s) = h \o s /\ h \o <<>> = h
    BY <1>4
<1>8. Packets(m)' = Packets(m)
    BY <1>6, <1>7, Zenon
<1> QED
    BY <1>1, <1>2, <1>8, SamePackets, Zenon DEF LinesKept

(* The worker takes it from the device.                                    *)
LEMMA ReceiveLines ==
    ASSUME PInv, NEW m \in Machines, WorkerReceive(m)
    PROVE  LinesKept
<1>1. /\ socket' = socket /\ boxes' = boxes /\ hand[m] = NULL
      /\ inHdr' = [inHdr EXCEPT ![m] = NULL] /\ hand' = [hand EXCEPT ![m] = inHdr[m]]
    <2>1. worker[m] = "Receive" /\ "Receive" # "Put"
        BY DEF WorkerReceive
    <2>2. hand[m] = NULL
        BY <2>1, Zenon DEF PInv, WorkerInv
    <2> QED
        BY <2>2, Zenon DEF WorkerReceive
<1>2. /\ inHdr'[m] = NULL /\ hand'[m] = inHdr[m]
      /\ \A n \in Machines : n # m => inHdr'[n] = inHdr[n] /\ hand'[n] = hand[n]
    BY <1>1, Zenon DEF PInv, TypeOK
<1>3. PICK p : p = Maybe(inHdr[m])
    BY Zenon
<1>4. <<>> \o p = p /\ p \o <<>> = p
    <2>1. p \in Seq(Mails)
        BY <1>3, LineTypes, Zenon
    <2> QED
        BY <2>1
<1>5. Packets(m)' = Packets(m)
    BY <1>1, <1>2, <1>3, <1>4, Zenon DEF Packets, Maybe
<1> QED
    BY <1>1, <1>2, <1>5, SamePackets, Zenon DEF LinesKept

(* The worker puts the first packet of all where it is first in its line.  *)
LEMMA PutLines ==
    ASSUME PInv, NEW m \in Machines, WorkerPut(m)
    PROVE  LinesKept
<1>1. PICK x : x = hand[m]
    BY Zenon
<1>2. x \in Mails /\ x.box \in Boxes /\ x # NULL
    <2>1. hand[m] # NULL /\ hand[m] \in Mails \cup {NULL}
        BY Zenon DEF WorkerPut, PInv, WorkerInv, TypeOK
    <2> QED
        BY <1>1, <2>1, Zenon DEF Mails
<1>3. /\ socket' = socket /\ inHdr' = inHdr /\ hand' = [hand EXCEPT ![m] = NULL]
      /\ boxes' = [boxes EXCEPT ![m][x.box] = Append(boxes[m][x.box], x)]
    BY <1>1, Zenon DEF WorkerPut, Put, netVars
<1>4. /\ hand'[m] = NULL /\ \A n \in Machines : n # m => hand'[n] = hand[n] /\ boxes'[n] = boxes[n]
      /\ boxes'[m][x.box] = Append(boxes[m][x.box], x)
      /\ \A c \in Boxes : c # x.box => boxes'[m][c] = boxes[m][c]
    BY <1>2, <1>3, Zenon DEF PInv, TypeOK
<1>5. PICK i, s : i = Maybe(inHdr[m]) /\ s = socket[m]
    BY Zenon
<1>6. i \in Seq(Mails) /\ s \in Seq(Mails)
    BY <1>5, LineTypes, Zenon
<1>7. PICK p, q : p = Packets(m) /\ q = Packets(m)'
    BY Zenon
<1>8. p = (<<x>> \o i) \o s /\ q = (<<>> \o i) \o s
    BY <1>1, <1>2, <1>3, <1>4, <1>5, <1>7, Zenon DEF Packets, Maybe
<1>9. p \in Seq(Mails) /\ p # <<>> /\ Head(p) = x /\ Tail(p) = q
    BY <1>2, <1>6, <1>8
<1>10. ASSUME NEW c \in Boxes PROVE Line(m, c)' = Line(m, c)
    <2>1. PICK old, f : old = boxes[m][c] /\ f = ToBox(p, c)
        BY Zenon
    <2>2. old \in Seq(Mails) /\ f \in Seq(Mails)
        BY <1>7, <2>1, LineTypes, Zenon
    <2>3. CASE c # x.box
        <3>1. ToBox(q, c) = ToBox(p, c)
            BY <1>9, <2>3, ToBoxTail, Zenon
        <3> QED
            BY <1>4, <1>7, <2>3, <3>1, Zenon DEF Line
    <2>4. CASE c = x.box
        <3>1. f # <<>> /\ Head(f) = x /\ ToBox(q, c) = Tail(f)
            BY <1>9, <2>1, <2>4, ToBoxTail, Zenon
        <3>2. Append(old, x) \o Tail(f) = old \o f
            BY <1>2, <2>2, <3>1
        <3> QED
            BY <1>4, <1>7, <2>1, <2>4, <3>1, <3>2, Zenon DEF Line
    <2> QED
        BY <2>3, <2>4, Zenon
<1>11. ASSUME NEW n \in Machines, n # m, NEW c \in Boxes PROVE Line(n, c)' = Line(n, c)
    BY <1>3, <1>4, <1>11, SamePackets, Zenon
<1> QED
    BY <1>10, <1>11, Zenon DEF LinesKept

(* Nothing moves: a line is made of what these four hold.                  *)
LEMMA StillLines ==
    ASSUME boxes' = boxes, hand' = hand, inHdr' = inHdr, socket' = socket
    PROVE  LinesKept
<1>1. \A n \in Machines : Packets(n)' = Packets(n)
    BY Zenon DEF Packets, Maybe
<1> QED
    BY <1>1, Zenon DEF LinesKept, Line

(* A packet that reaches the socket is the last of its line.               *)
LEMMA SendLines ==
    ASSUME PInv, NEW c \in Clients, Send(c)
    PROVE  MailStep
<1>1. PICK x : x = out[c]
    BY Zenon
<1>2. x \in Mails /\ x.to \in Machines /\ x.box \in Boxes
    <2>1. pc[c] = "Send" /\ out[c] \in Mails \cup {NULL}
        BY Zenon DEF Send, At, PInv, TypeOK
    <2>2. out[c] # NULL
        BY <2>1 DEF PInv, OutInv
    <2> QED
        BY <1>1, <2>1, <2>2, Zenon DEF Mails
<1>3. boxes' = boxes /\ hand' = hand /\ inHdr' = inHdr
    BY Zenon DEF Send, NetworkSend, officeVars
<1>4. CASE socket' = socket
    BY <1>3, <1>4, StillLines, Zenon DEF MailStep
<1>5. CASE socket' = [socket EXCEPT ![x.to] = Append(socket[x.to], x)]
    <2>1. PICK m, b : m = x.to /\ b = x.box
        BY Zenon
    <2>2. m \in Machines /\ b \in Boxes
        BY <1>2, <2>1, Zenon
    <2>3. /\ socket'[m] = Append(socket[m], x)
          /\ \A n \in Machines : n # m => socket'[n] = socket[n]
        BY <1>5, <2>1, <2>2, Zenon DEF PInv, TypeOK
    <2>4. PICK f, s : f = Maybe(hand[m]) \o Maybe(inHdr[m]) /\ s = socket[m]
        BY Zenon
    <2>5. f \in Seq(Mails) /\ s \in Seq(Mails)
        BY <2>2, <2>4, LineTypes, Zenon
    <2>6. f \o Append(s, x) = Append(f \o s, x)
        BY <1>2, <2>5
    <2>7. PICK p : p = Packets(m)
        BY Zenon
    <2>8. p \in Seq(Mails) /\ Packets(m)' = Append(p, x)
        <3>1. p = f \o s /\ Packets(m)' = f \o Append(s, x)
            BY <1>3, <2>3, <2>4, <2>7, Zenon DEF Packets, Maybe
        <3> QED
            BY <2>2, <2>6, <2>7, <3>1, LineTypes, Zenon
    <2>9. ToBox(Append(p, x), b) = Append(ToBox(p, b), x)
        BY <1>2, <2>1, <2>8, ToBoxAppend, Zenon
    <2>10. \A e \in Boxes : e # b => ToBox(Append(p, x), e) = ToBox(p, e)
        BY <1>2, <2>1, <2>8, ToBoxAppend, Zenon
    <2>11. Line(m, b)' = Append(Line(m, b), x)
        <3>1. PICK o, t : o = boxes[m][b] /\ t = ToBox(p, b)
            BY Zenon
        <3>2. o \in Seq(Mails) /\ t \in Seq(Mails)
            BY <2>2, <2>7, <3>1, LineTypes, Zenon
        <3>3. o \o Append(t, x) = Append(o \o t, x)
            BY <1>2, <3>2
        <3>4. Line(m, b) = o \o t /\ Line(m, b)' = o \o Append(t, x)
            BY <1>3, <2>7, <2>8, <2>9, <3>1, Zenon DEF Line
        <3> QED
            BY <3>3, <3>4, Zenon
    <2>12. \A e \in Boxes : e # b => Line(m, e)' = Line(m, e)
        BY <1>3, <2>7, <2>8, <2>10, Zenon DEF Line
    <2>13. \A n \in Machines, e \in Boxes : n # m => Line(n, e)' = Line(n, e)
        BY <1>3, <2>3, SamePackets, Zenon
    <2> QED
        BY <1>2, <2>2, <2>11, <2>12, <2>13, Zenon DEF MailStep, MailSent, OthersKept
<1> QED
    BY <1>1, <1>4, <1>5, Zenon DEF Send, NetworkSend, SendToSocket

(* MailBox::Get takes the first of a line.                                 *)
LEMMA GetLines ==
    ASSUME PInv, NEW c \in Clients, NEW b \in Boxes, Get(c, b),
           hand' = hand, inHdr' = inHdr, socket' = socket
    PROVE  MailStep
<1>1. PICK m : m = Machine[c]
    BY Zenon
<1>2. m \in Machines
    BY <1>1, PostOfficeAssumption, Zenon
<1>3. PICK o, t : o = boxes[m][b] /\ t = ToBox(Packets(m), b)
    BY Zenon
<1>4. o \in Seq(Mails) /\ t \in Seq(Mails) /\ o # <<>>
    BY <1>1, <1>2, <1>3, LineTypes, Zenon DEF Get
<1>5. /\ boxes'[m][b] = Tail(o)
      /\ \A e \in Boxes : e # b => boxes'[m][e] = boxes[m][e]
      /\ \A n \in Machines : n # m => boxes'[n] = boxes[n]
    <2>1. boxes' = [boxes EXCEPT ![m][b] = Tail(boxes[m][b])]
        BY <1>1, Zenon DEF Get
    <2> QED
        BY <1>2, <1>3, <2>1, Zenon DEF PInv, TypeOK
<1>6. \A n \in Machines : Packets(n)' = Packets(n)
    BY Zenon DEF Packets, Maybe
<1>7. o \o t # <<>> /\ Tail(o \o t) = Tail(o) \o t
    <2>1. Head(o) \in Mails
        BY <1>4
    <2> QED
        BY <1>4, <2>1
<1>8. Line(m, b) = o \o t /\ Line(m, b)' = Tail(o) \o t
    BY <1>2, <1>3, <1>5, <1>6, Zenon DEF Line
<1>9. OthersKept(m, b)
    BY <1>5, <1>6, Zenon DEF OthersKept, Line
<1> QED
    BY <1>2, <1>7, <1>8, <1>9, Zenon DEF MailStep, MailReceived

(* Every step keeps the lines, or changes one of them as MailSpec says.    *)
LEMMA NextLines ==
    ASSUME PInv, [Next]_vars
    PROVE  MailStep
<1>1. ASSUME NEW m \in Machines, MachineStep(m) PROVE MailStep
    <2>1. CASE CheckPktAvail(m)
        BY <2>1, PollLines, Zenon DEF MailStep
    <2>2. CASE SendDone(m) \/ WorkerP(m)
        BY <2>2, StillLines, Zenon DEF MailStep, SendDone, WorkerP, netVars
    <2>3. CASE WorkerReceive(m)
        BY <2>3, ReceiveLines, Zenon DEF MailStep
    <2>4. CASE WorkerPut(m)
        BY <2>4, PutLines, Zenon DEF MailStep
    <2> QED
        BY <1>1, <2>1, <2>2, <2>3, <2>4, Zenon DEF MachineStep
<1>2. ASSUME NEW c \in Clients, ClientStep(c) \/ SendMail(c) \/ ReceiveMail(c) PROVE MailStep
    <2>1. CASE Send(c)
        BY <2>1, SendLines, Zenon
    <2>2. CASE Acquire(c) \/ SentP(c) \/ Release(c)
        BY <2>2, StillLines, Zenon DEF MailStep, Acquire, SentP, Release, netVars
    <2>3. CASE SendMessage(c) \/ Halt(c) \/ SendMail(c)
        BY <2>3, StillLines, Zenon DEF MailStep, SendMessage, Halt, SendMail, netVars, officeVars
    <2>4. CASE ReceiveAndAcknowledge(c)
        <3>1. Get(c, 0) /\ hand' = hand /\ inHdr' = inHdr /\ socket' = socket
            BY <2>4, Zenon DEF ReceiveAndAcknowledge, netVars
        <3> QED
            BY <3>1, PostOfficeAssumption, GetLines, Zenon
    <2>5. CASE ReceiveAcknowledgement(c)
        <3>1. Get(c, 1) /\ hand' = hand /\ inHdr' = inHdr /\ socket' = socket
            BY <2>5, Zenon DEF ReceiveAcknowledgement, netVars
        <3> QED
            BY <3>1, PostOfficeAssumption, GetLines, Zenon
    <2>6. CASE ReceiveMail(c)
        <3>1. PICK b \in Boxes : Get(c, b)
            BY <2>6, Zenon DEF ReceiveMail
        <3>2. hand' = hand /\ inHdr' = inHdr /\ socket' = socket
            BY <2>6, Zenon DEF ReceiveMail, netVars
        <3> QED
            BY <3>1, <3>2, GetLines, Zenon
    <2> QED
        BY <1>2, <2>1, <2>2, <2>3, <2>4, <2>5, <2>6, Zenon DEF ClientStep
<1>3. CASE UNCHANGED vars
    BY <1>3, StillLines, Zenon DEF MailStep, vars, netVars, officeVars
<1> QED
    BY <1>1, <1>2, <1>3, Zenon DEF Next

-----------------------------------------------------------------------------
(* The post office implements MailSpec.                                    *)

MailOf == [m \in Machines |-> [b \in Boxes |-> UnderWay(m, b)]]

(* Nothing is under way when the machines start.                           *)
LEMMA InitMail == Init => Mailing!Init
<1> SUFFICES ASSUME Init PROVE Mailing!Init
    OBVIOUS
<1>1. ASSUME NEW m \in Machines, NEW b \in Boxes PROVE UnderWay(m, b) = <<>>
    <2>1. hand[m] = NULL /\ inHdr[m] = NULL /\ socket[m] = <<>> /\ boxes[m][b] = <<>>
        BY Zenon DEF Init, NetworkInit, OfficeInit
    <2>2. <<>> \o <<>> = <<>> /\ <<>> \in Seq(Mails) /\ DOMAIN <<>> = {}
        OBVIOUS
    <2>3. Packets(m) = <<>>
        BY <2>1, <2>2, Zenon DEF Packets, Maybe
    <2>4. PositionsFor(<<>>, b) = {}
        BY <2>2, Zenon DEF PositionsFor
    <2>5. ToBox(<<>>, b) \in Seq(Mails) /\ Len(ToBox(<<>>, b)) = 0
        BY <2>2, <2>4, ToBoxFacts, FS_EmptySet, Zenon
    <2>6. ToBox(<<>>, b) = <<>>
        BY <2>5
    <2>7. Line(m, b) = <<>>
        BY <2>1, <2>2, <2>3, <2>6, Zenon DEF Line
    <2>8. Data(<<>>) = <<>>
        BY DEF Data
    <2> QED
        BY <2>7, <2>8, Zenon DEF UnderWay
<1> QED
    BY <1>1, Zenon DEF Mailing!Init

(* A step is a step of MailSpec, or changes nothing there.                 *)
LEMMA StepMail ==
    ASSUME PInv, [Next]_vars
    PROVE  [Mailing!Next]_MailOf
<1>1. MailStep
    BY NextLines, Zenon
<1>2. PICK old, new : old = MailOf /\ new = MailOf'
    BY Zenon
<1>3. /\ old = [m \in Machines |-> [b \in Boxes |-> UnderWay(m, b)]]
      /\ new = [m \in Machines |-> [b \in Boxes |-> UnderWay(m, b)']]
    BY <1>2, Zenon DEF MailOf
<1>4. ASSUME NEW m \in Machines, NEW b \in Boxes
      PROVE  old[m][b] = Data(Line(m, b)) /\ new[m][b] = Data(Line(m, b)')
    BY <1>3, Zenon DEF UnderWay, Data
<1>5. CASE LinesKept
    <2>1. \A m \in Machines, b \in Boxes : UnderWay(m, b)' = UnderWay(m, b)
        BY <1>5, Zenon DEF LinesKept, UnderWay, Data
    <2>2. new = old
        BY <1>3, <2>1, Zenon
    <2> QED
        BY <1>2, <2>2, Zenon
<1>6. ASSUME NEW m \in Machines, NEW b \in Boxes, MailSent(m, b) \/ MailReceived(m, b)
      PROVE  Mailing!Next
    <2>1. PICK line, next : line = Line(m, b) /\ next = Line(m, b)'
        BY Zenon
    <2>2. line \in Seq(Mails)
        BY <2>1, LineTypes, Zenon
    <2>3. old[m][b] = Data(line) /\ new[m][b] = Data(next)
        BY <1>4, <2>1, Zenon
    <2>4. Mailing!Sent(old[m][b], new[m][b]) \/ Mailing!Received(old[m][b], new[m][b])
        <3>1. CASE MailSent(m, b)
            <4>1. PICK x \in Mails : next = Append(line, x)
                BY <2>1, <3>1, Zenon DEF MailSent
            <4>2. new[m][b] = Append(old[m][b], x.data) /\ x.data \in 0..MaxMail
                BY <2>2, <2>3, <4>1, DataFacts, Zenon
            <4> QED
                BY <4>2, Zenon DEF Mailing!Sent
        <3>2. CASE MailReceived(m, b)
            <4>1. line # <<>> /\ next = Tail(line)
                BY <2>1, <3>2, Zenon DEF MailReceived
            <4>2. PICK x \in Mails : x = Head(line)
                BY <2>2, <4>1
            <4>3. Data(line) # <<>> /\ Data(next) = Tail(Data(line))
                BY <2>2, <4>1, <4>2, DataFacts, Zenon
            <4> QED
                BY <2>3, <4>3, Zenon DEF Mailing!Received
        <3> QED
            BY <1>6, <3>1, <3>2, Zenon
    <2>5. new = [old EXCEPT ![m][b] = new[m][b]]
        <3>1. PICK v : v = new[m][b]
            BY Zenon
        <3>2. ASSUME NEW n \in Machines, NEW e \in Boxes, ~(n = m /\ e = b) PROVE new[n][e] = old[n][e]
            <4>1. Line(n, e)' = Line(n, e)
                BY <1>6, <3>2, Zenon DEF MailSent, MailReceived, OthersKept
            <4> QED
                BY <1>4, <4>1, Zenon
        <3>3. \A n \in Machines : n # m => new[n] = old[n]
            BY <1>3, <3>2, Zenon
        <3>4. new[m] = [old[m] EXCEPT ![b] = v]
            BY <1>3, <3>1, <3>2, Zenon
        <3>5. new = [old EXCEPT ![m] = [old[m] EXCEPT ![b] = v]]
            BY <1>3, <3>3, <3>4, Zenon
        <3> QED
            BY <3>1, <3>5, Zenon
    <2> QED
        BY <1>2, <2>4, <2>5, Zenon DEF Mailing!Next, MailOf
<1> QED
    BY <1>1, <1>5, <1>6, Zenon DEF MailStep

(* On every machine, the way from the socket through the device's one      *)
(* buffer and the postal worker to each mailbox is one line: mail joins it *)
(* at the end when the network does not lose it, leaves it from the front  *)
(* when a thread receives it, and is not lost, duplicated or overtaken in  *)
(* between.                                                                *)
THEOREM MailRefinement == Spec => ImplementsMail
<1>1. Mailing!Spec <=> Mailing!Init /\ [][Mailing!Next]_MailOf
    BY PTL DEF Mailing!Spec, MailOf
<1> QED
    BY <1>1, InitMail, StepMail, Invariant, PTL DEF Spec, ImplementsMail
=============================================================================
