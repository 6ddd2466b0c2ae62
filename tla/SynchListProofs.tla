--------------------------- MODULE SynchListProofs ---------------------------
(***************************************************************************)
(* Proofs about SynchList, for any number of threads, items and calls,     *)
(* after the lemmas about Monitor that they rest on.                       *)
(***************************************************************************)
EXTENDS SynchList, Integers, FiniteSetTheorems, TLAPS

-----------------------------------------------------------------------------
(* Facts about List (threads/list.h), which the model represents as a      *)
(* sequence: Append adds at the end, Remove takes the first item.          *)

(* List::Append adds its item to the list, at most once if it was not on   *)
(* the list before.                                                        *)
LEMMA AppendFacts ==
    ASSUME NEW S, NEW q \in Seq(S), NEW e \in S
    PROVE  /\ Append(q, e) \in Seq(S)
           /\ Append(q, e) # <<>>
           /\ Range(Append(q, e)) = Range(q) \cup {e}
           /\ IsInjective(q) /\ e \notin Range(q) => IsInjective(Append(q, e))
<1>1. /\ Append(q, e) \in Seq(S)
      /\ Len(Append(q, e)) = Len(q) + 1
      /\ DOMAIN Append(q, e) = 1..(Len(q) + 1)
      /\ DOMAIN q = 1..Len(q)
      /\ Len(q) \in Nat
      /\ \A i \in 1..Len(q) : Append(q, e)[i] = q[i]
      /\ Append(q, e)[Len(q) + 1] = e
    OBVIOUS
<1>2. Append(q, e) # <<>>
    BY <1>1
<1>3. Range(Append(q, e)) = Range(q) \cup {e}
    BY <1>1 DEF Range
<1>4. IsInjective(q) /\ e \notin Range(q) => IsInjective(Append(q, e))
    BY <1>1 DEF Range, IsInjective
<1> QED
    BY <1>1, <1>2, <1>3, <1>4

(* List::Remove takes the first item off a nonempty list.                  *)
LEMMA RemoveFacts ==
    ASSUME NEW S, NEW q \in Seq(S), q # <<>>
    PROVE  /\ Head(q) \in S
           /\ Head(q) \in Range(q)
           /\ Tail(q) \in Seq(S)
           /\ IsInjective(q) => /\ Range(Tail(q)) = Range(q) \ {Head(q)}
                                /\ IsInjective(Tail(q))
<1>1. /\ Len(q) \in Nat \ {0}
      /\ DOMAIN q = 1..Len(q)
      /\ Head(q) = q[1]
      /\ Tail(q) \in Seq(S)
      /\ DOMAIN Tail(q) = 1..(Len(q) - 1)
      /\ \A i \in 1..(Len(q) - 1) : Tail(q)[i] = q[i + 1]
    OBVIOUS
<1>2. Head(q) \in S /\ Head(q) \in Range(q)
    BY <1>1 DEF Range
<1>3. ASSUME IsInjective(q)
      PROVE  Range(Tail(q)) = Range(q) \ {Head(q)}
    <2>1. ASSUME NEW x \in Range(Tail(q))
          PROVE  x \in Range(q) \ {Head(q)}
        <3>1. PICK i \in 1..(Len(q) - 1) : x = q[i + 1]
            BY <1>1 DEF Range
        <3> QED
            BY <3>1, <1>1, <1>3 DEF Range, IsInjective
    <2>2. ASSUME NEW x \in Range(q) \ {Head(q)}
          PROVE  x \in Range(Tail(q))
        <3>1. PICK i \in 1..Len(q) : x = q[i] /\ i # 1
            BY <1>1 DEF Range
        <3>2. i - 1 \in 1..(Len(q) - 1) /\ Tail(q)[i - 1] = x
            BY <3>1, <1>1
        <3> QED
            BY <3>2, <1>1, Zenon DEF Range
    <2> QED
        BY <2>1, <2>2
<1>4. IsInjective(q) => IsInjective(Tail(q))
    BY <1>1 DEF IsInjective
<1> QED
    BY <1>1, <1>2, <1>3, <1>4

(* An empty list holds nothing.                                            *)
LEMMA EmptyFacts ==
    ASSUME NEW S
    PROVE  /\ <<>> \in Seq(S)
           /\ Range(<<>>) = {}
           /\ IsInjective(<<>>)
           /\ \A q \in Seq(S) : q # <<>> => Range(q) # {}
<1>1. /\ <<>> \in Seq(S)
      /\ Range(<<>>) = {}
      /\ IsInjective(<<>>)
    BY DEF Range, IsInjective
<1>2. \A q \in Seq(S) : q # <<>> => Range(q) # {}
    BY RemoveFacts
<1> QED
    BY <1>1, <1>2

-----------------------------------------------------------------------------
(* The lock: mutual exclusion is kept by every step of Monitor and of its  *)
(* clients.                                                                *)

(* Lock::Lock and Condition::Condition establish it.                       *)
LEMMA LockInvInit ==
    ASSUME NEW start \in Outside, MonitorInit(start), None \notin Conditions
    PROVE  LockInv
<1> USE MonitorAssumption DEF MonitorInit
<1>1. MonitorTypeOK
    BY DEF MonitorTypeOK, Labels
<1>2. ControlInv
    BY DEF ControlInv, MonitorLabels
<1>3. \A t \in Callers : ~HasMutex(t) /\ pc[t] \notin {"Release", "Wait"} \cup Inside
    BY DEF HasMutex, MonitorLabels
<1> QED
    BY <1>1, <1>2, <1>3 DEF LockInv, LockProtects

(* Condition::Signal changes the queue and the waiters' semaphores only.   *)
LEMMA SignalType ==
    ASSUME MonitorTypeOK, NEW c \in Conditions, Signal(c)
    PROVE  /\ waitQueue' \in [Conditions -> Seq(Callers)]
           /\ waiter' \in [Callers -> Nat]
<1>1. CASE waitQueue[c] = <<>>
    BY <1>1 DEF Signal, MonitorTypeOK
<1>2. CASE waitQueue[c] # <<>>
    <2>1. /\ Head(waitQueue[c]) \in Callers
          /\ Tail(waitQueue[c]) \in Seq(Callers)
        BY <1>2 DEF MonitorTypeOK
    <2>2. /\ waitQueue' = [waitQueue EXCEPT ![c] = Tail(waitQueue[c])]
          /\ waiter' = [waiter EXCEPT ![Head(waitQueue[c])] = waiter[Head(waitQueue[c])] + 1]
        BY <1>2 DEF Signal
    <2> QED
        BY <2>1, <2>2 DEF MonitorTypeOK
<1> QED
    BY <1>1, <1>2

(* A client's step inside the monitor, which may end by calling Release or *)
(* Wait, and its call of Acquire from outside.                             *)
LEMMA ClientStep ==
    ASSUME LockInv, NEW t \in Callers,
           UNCHANGED <<mutex, lockHolder>>,
           waitQueue' \in [Conditions -> Seq(Callers)],
           waiter' \in [Callers -> Nat],
           None \notin Conditions,
           \/ /\ pc[t] \in Inside
              /\ \E next \in Inside : Goto(t, next)
              /\ UNCHANGED <<ret, inWait>>
           \/ /\ pc[t] \in Inside
              /\ \E next \in Outside : Call(t, "Release", next)
              /\ UNCHANGED inWait
           \/ /\ pc[t] \in Inside
              /\ \E next \in Inside, c \in Conditions : CallWait(t, c, next)
           \/ /\ pc[t] \in Outside
              /\ \E next \in Inside : Call(t, "Acquire", next)
              /\ UNCHANGED inWait
    PROVE  LockInv'
<1> USE MonitorAssumption DEF Goto, Call, CallWait, MonitorLabels
<1>1. \E next \in Labels, r \in Inside \cup Outside, w \in Conditions \cup {None} :
         /\ pc' = [pc EXCEPT ![t] = next]
         /\ ret' = [ret EXCEPT ![t] = r]
         /\ inWait' = [inWait EXCEPT ![t] = w]
         /\ \/ pc[t] \in Inside /\ next \in Inside /\ w = None
            \/ pc[t] \in Inside /\ next = "Release" /\ r \in Outside /\ w = None
            \/ pc[t] \in Inside /\ next = "Wait" /\ r \in Inside /\ w \in Conditions
            \/ pc[t] \in Outside /\ next = "Acquire" /\ r \in Inside /\ w = None
    <2>1. /\ ret = [ret EXCEPT ![t] = ret[t]]
          /\ inWait = [inWait EXCEPT ![t] = inWait[t]]
          /\ ret[t] \in Inside \cup Outside
          /\ pc[t] \in Inside \cup Outside
          /\ inWait[t] = None
        BY DEF LockInv, MonitorTypeOK, ControlInv
    <2> QED
        BY <2>1, Zenon DEF Labels
<1>2. MonitorTypeOK'
    BY <1>1 DEF LockInv, MonitorTypeOK
<1>3. ControlInv'
    BY <1>1 DEF LockInv, MonitorTypeOK, ControlInv
<1>4. /\ \A u \in Callers : HasMutex(u)' <=> HasMutex(u)
      /\ \A u \in Callers : pc'[u] \in {"Release", "Wait"} \cup Inside =>
            pc[u] \in {"Release", "Wait"} \cup Inside
    BY <1>1 DEF LockInv, MonitorTypeOK, HasMutex
<1> QED
    BY <1>2, <1>3, <1>4 DEF LockInv, LockProtects

(* The steps of Acquire, Release and Wait themselves.                      *)
LEMMA MonitorStep ==
    ASSUME LockInv, NEW t \in Callers, None \notin Conditions,
           AcquireP(t) \/ WaitP(t) \/ NonBlocking(t)
    PROVE  LockInv'
<1> USE MonitorAssumption DEF Goto, MonitorLabels
<1>1. CASE AcquireP(t)
    <2> USE <1>1 DEF AcquireP
    <2>1. MonitorTypeOK'
        BY DEF LockInv, MonitorTypeOK, Labels
    <2>2. ControlInv'
        BY DEF LockInv, MonitorTypeOK, ControlInv
    <2>3. \A u \in Callers : ~HasMutex(u) /\ (HasMutex(u)' => u = t)
        BY DEF LockInv, MonitorTypeOK, HasMutex
    <2>4. LockProtects'
        BY <2>3 DEF LockInv, MonitorTypeOK, LockProtects, HasMutex
    <2>5. mutex \in Nat /\ mutex <= 1
        BY DEF LockInv, MonitorTypeOK
    <2>6. mutex' = 0
        BY <2>5
    <2> HIDE <1>1
    <2> QED
        BY <2>1, <2>2, <2>4, <2>6 DEF LockInv
<1>2. CASE AcquireHolder(t) \/ ReleaseHolder(t)
    <2> USE <1>2 DEF AcquireHolder, ReleaseHolder
    <2>1. MonitorTypeOK'
        BY Zenon DEF LockInv, MonitorTypeOK, Labels
    <2>2. ControlInv'
        <3>1. CASE AcquireHolder(t)
            <4>1. ret[t] \in Inside
                BY <3>1 DEF LockInv, ControlInv
            <4> QED
                BY <3>1, <4>1 DEF LockInv, MonitorTypeOK, ControlInv
        <3>2. CASE ReleaseHolder(t)
            BY <3>2 DEF LockInv, MonitorTypeOK, ControlInv
        <3> QED
            BY <3>1, <3>2
    <2>3. \A u \in Callers : HasMutex(u)' <=> HasMutex(u)
        BY DEF LockInv, MonitorTypeOK, ControlInv, HasMutex
    <2>4. HasMutex(t)
        BY DEF HasMutex
    <2>5. LockProtects'
        BY <2>3, <2>4 DEF LockInv, MonitorTypeOK, LockProtects, HasMutex
    <2> QED
        BY <2>1, <2>2, <2>3, <2>5 DEF LockInv
<1>3. CASE ReleaseV(t)
    <2> USE <1>3 DEF ReleaseV
    <2>1. MonitorTypeOK'
        BY DEF LockInv, MonitorTypeOK, Labels
    <2>2. ControlInv'
        BY DEF LockInv, MonitorTypeOK, ControlInv
    <2>3. mutex' = 1
        BY DEF LockInv, MonitorTypeOK, HasMutex
    <2>4. \A u \in Callers : HasMutex(u) => u = t
        BY DEF LockInv, LockProtects, HasMutex
    <2>5. \A u \in Callers : ~HasMutex(u)'
        BY <2>4 DEF LockInv, MonitorTypeOK, ControlInv, HasMutex
    <2>6. LockProtects'
        BY <2>5 DEF LockProtects, HasMutex
    <2> QED
        BY <2>1, <2>2, <2>3, <2>5, <2>6 DEF LockInv
<1>4. CASE WaitAppend(t) \/ WaitP(t)
    <2>1. /\ waitQueue' \in [Conditions -> Seq(Callers)]
          /\ waiter' \in [Callers -> Nat]
        <3>1. CASE WaitAppend(t)
            <4>1. /\ inWait[t] \in Conditions
                  /\ Append(waitQueue[inWait[t]], t) \in Seq(Callers)
                BY <3>1 DEF WaitAppend, LockInv, MonitorTypeOK, ControlInv
            <4> QED
                BY <3>1, <4>1 DEF WaitAppend, LockInv, MonitorTypeOK
        <3>2. CASE WaitP(t)
            <4>1. waiter[t] - 1 \in Nat
                BY <3>2 DEF WaitP, LockInv, MonitorTypeOK
            <4> QED
                BY <3>2, <4>1 DEF WaitP, LockInv, MonitorTypeOK
        <3> QED
            BY <1>4, <3>1, <3>2
    <2>2. /\ \/ pc[t] = "Wait" /\ pc' = [pc EXCEPT ![t] = "Release"]
             \/ pc[t] = "WaitP" /\ pc' = [pc EXCEPT ![t] = "Acquire"]
          /\ UNCHANGED <<mutex, lockHolder, ret, inWait>>
        BY <1>4 DEF WaitAppend, WaitP
    <2>3. MonitorTypeOK'
        BY <2>1, <2>2, Zenon DEF LockInv, MonitorTypeOK, Labels
    <2>4. ControlInv'
        BY <2>2, Zenon DEF LockInv, MonitorTypeOK, ControlInv
    <2>5. /\ \A u \in Callers : HasMutex(u)' <=> HasMutex(u)
          /\ \A u \in Callers : pc'[u] \in {"Release", "Wait"} \cup Inside =>
                pc[u] \in {"Release", "Wait"} \cup Inside
        BY <2>2, Zenon DEF LockInv, MonitorTypeOK, HasMutex
    <2> QED
        BY <2>2, <2>3, <2>4, <2>5 DEF LockInv, LockProtects
<1> QED
    BY <1>1, <1>2, <1>3, <1>4 DEF NonBlocking

-----------------------------------------------------------------------------
(* Waiters.                                                                *)

(* Condition::Condition starts with an empty queue.                        *)
LEMMA WaitersInit ==
    ASSUME NEW start, MonitorInit(start), None \notin Conditions
    PROVE  WaiterQueuedOnce
    BY EmptyFacts DEF MonitorInit, WaiterQueuedOnce

(* A client's step that signals nobody, or signals from inside.            *)
LEMMA WaitersClientStep ==
    ASSUME LockInv, WaiterQueuedOnce, NEW t \in Callers, None \notin Conditions,
           pc[t] \in Inside \cup Outside,
           NEW next, next \notin {"Release", "Unlock", "WaitP"} \/ inWait' = inWait,
           pc' = [pc EXCEPT ![t] = next],
           NEW w, inWait' = [inWait EXCEPT ![t] = w],
           UNCHANGED <<waitQueue, waiter>> \/ \E c \in Conditions : Signal(c)
    PROVE  WaiterQueuedOnce'
<1> USE MonitorAssumption DEF MonitorLabels
<1>1. inWait[t] = None /\ pc[t] \notin {"Release", "Unlock", "WaitP"}
    BY DEF LockInv, ControlInv
<1>2. ASSUME NEW c \in Conditions, NEW u \in Callers
      PROVE  inWait'[u] = c /\ pc'[u] \in {"Release", "Unlock", "WaitP"} <=>
             inWait[u] = c /\ pc[u] \in {"Release", "Unlock", "WaitP"}
    <2>1. CASE u # t
        BY <2>1 DEF LockInv, MonitorTypeOK
    <2>2. CASE u = t
        BY <1>1, <2>2 DEF LockInv, MonitorTypeOK
    <2> QED
        BY <2>1, <2>2
<1>3. CASE UNCHANGED <<waitQueue, waiter>>
    BY <1>2, <1>3 DEF WaiterQueuedOnce
<1>4. ASSUME NEW c \in Conditions, Signal(c), waitQueue[c] # <<>>
      PROVE  WaiterQueuedOnce'
    <2> DEFINE h == Head(waitQueue[c])
    <2>1. /\ h \in Callers
          /\ h \in Range(waitQueue[c])
          /\ Range(Tail(waitQueue[c])) = Range(waitQueue[c]) \ {h}
          /\ IsInjective(Tail(waitQueue[c]))
        BY <1>4, RemoveFacts DEF LockInv, MonitorTypeOK, WaiterQueuedOnce
    <2>2. waiter[h] = 0 /\ inWait[h] = c
        BY <2>1 DEF WaiterQueuedOnce
    <2>3. /\ waitQueue' = [waitQueue EXCEPT ![c] = Tail(waitQueue[c])]
          /\ waiter' = [waiter EXCEPT ![h] = 1]
        BY <1>4, <2>2 DEF Signal
    <2> HIDE DEF h
    <2>4. ASSUME NEW d \in Conditions
          PROVE  IsInjective(waitQueue'[d])
        BY <2>1, <2>3 DEF LockInv, MonitorTypeOK, WaiterQueuedOnce
    <2>5. ASSUME NEW d \in Conditions, NEW u \in Callers
          PROVE  /\ waiter'[u] <= 1
                 /\ u \in Range(waitQueue'[d]) <=>
                       inWait'[u] = d /\ waiter'[u] = 0 /\ pc'[u] \in {"Release", "Unlock", "WaitP"}
        <3>1. CASE u = h
            BY <1>2, <2>1, <2>2, <2>3, <3>1 DEF LockInv, MonitorTypeOK, WaiterQueuedOnce
        <3>2. CASE u # h
            <4>1. waiter'[u] = waiter[u] /\ (u \in Range(waitQueue'[d]) <=> u \in Range(waitQueue[d]))
                BY <2>1, <2>3, <3>2 DEF LockInv, MonitorTypeOK
            <4> QED
                BY <1>2, <4>1 DEF WaiterQueuedOnce
        <3> QED
            BY <3>1, <3>2
    <2> QED
        BY <2>4, <2>5 DEF WaiterQueuedOnce
<1> QED
    BY <1>3, <1>4 DEF Signal

(* The steps of Acquire, Release and Wait.                                 *)
LEMMA WaitersMonitorStep ==
    ASSUME LockInv, WaiterQueuedOnce, NEW t \in Callers, None \notin Conditions,
           AcquireP(t) \/ WaitP(t) \/ NonBlocking(t)
    PROVE  WaiterQueuedOnce'
<1> USE MonitorAssumption DEF Goto, MonitorLabels
<1>1. CASE WaitAppend(t)
    <2> DEFINE w == inWait[t]
               q == Append(waitQueue[w], t)
    <2>1. w \in Conditions
        BY <1>1 DEF WaitAppend, LockInv, ControlInv
    <2>2. t \notin Range(waitQueue[w])
        BY <1>1, <2>1 DEF WaitAppend, WaiterQueuedOnce
    <2>3. IsInjective(q) /\ Range(q) = Range(waitQueue[w]) \cup {t}
        BY <2>1, <2>2, AppendFacts DEF LockInv, MonitorTypeOK, WaiterQueuedOnce
    <2>4. /\ waitQueue' = [waitQueue EXCEPT ![w] = q]
          /\ waiter' = [waiter EXCEPT ![t] = 0]
          /\ pc' = [pc EXCEPT ![t] = "Release"]
          /\ inWait' = inWait
          /\ pc[t] = "Wait"
        BY <1>1 DEF WaitAppend
    <2> HIDE DEF q
    <2>5. ASSUME NEW d \in Conditions
          PROVE  IsInjective(waitQueue'[d])
        BY <2>1, <2>3, <2>4 DEF LockInv, MonitorTypeOK, WaiterQueuedOnce
    <2>6. ASSUME NEW d \in Conditions, NEW u \in Callers
          PROVE  /\ waiter'[u] <= 1
                 /\ u \in Range(waitQueue'[d]) <=>
                       inWait'[u] = d /\ waiter'[u] = 0 /\ pc'[u] \in {"Release", "Unlock", "WaitP"}
        <3>1. CASE u = t
            BY <2>1, <2>3, <2>4, <3>1 DEF LockInv, MonitorTypeOK, WaiterQueuedOnce
        <3>2. CASE u # t
            BY <2>1, <2>3, <2>4, <3>2 DEF LockInv, MonitorTypeOK, WaiterQueuedOnce
        <3> QED
            BY <3>1, <3>2
    <2> QED
        BY <2>5, <2>6 DEF WaiterQueuedOnce
<1>2. CASE WaitP(t)
    <2>0. inWait[t] \in Conditions
        BY <1>2 DEF WaitP, LockInv, ControlInv
    <2>1. waiter[t] = 1
        BY <1>2, <2>0 DEF WaitP, LockInv, MonitorTypeOK, WaiterQueuedOnce
    <2>2. /\ pc[t] = "WaitP"
          /\ waiter' = [waiter EXCEPT ![t] = 0]
          /\ pc' = [pc EXCEPT ![t] = "Acquire"]
          /\ UNCHANGED <<waitQueue, inWait>>
        BY <1>2, <2>1 DEF WaitP
    <2> QED
        BY <2>1, <2>2 DEF LockInv, MonitorTypeOK, WaiterQueuedOnce
<1>3. CASE AcquireP(t) \/ AcquireHolder(t)
    <2>1. /\ pc[t] \in {"Acquire", "Holder"}
          /\ \E next : pc' = [pc EXCEPT ![t] = next] /\ next \notin {"Release", "Unlock", "WaitP"}
          /\ \A u \in Callers \ {t} : inWait'[u] = inWait[u]
          /\ UNCHANGED <<waitQueue, waiter>>
        BY <1>3 DEF AcquireP, AcquireHolder, LockInv, MonitorTypeOK, ControlInv
    <2>2. ASSUME NEW d \in Conditions, NEW u \in Callers
          PROVE  u \in Range(waitQueue[d]) <=>
                    inWait'[u] = d /\ waiter[u] = 0 /\ pc'[u] \in {"Release", "Unlock", "WaitP"}
        BY <2>1 DEF LockInv, MonitorTypeOK, WaiterQueuedOnce
    <2> QED
        BY <2>1, <2>2 DEF WaiterQueuedOnce
<1>4. CASE ReleaseHolder(t) \/ ReleaseV(t)
    <2>1. /\ pc[t] \in {"Release", "Unlock"}
          /\ \E next : /\ pc' = [pc EXCEPT ![t] = next]
                       /\ inWait[t] # None => next \in {"Unlock", "WaitP"}
          /\ UNCHANGED <<waitQueue, waiter, inWait>>
        BY <1>4 DEF ReleaseHolder, ReleaseV
    <2>2. ASSUME NEW d \in Conditions, NEW u \in Callers
          PROVE  u \in Range(waitQueue[d]) <=>
                    inWait[u] = d /\ waiter[u] = 0 /\ pc'[u] \in {"Release", "Unlock", "WaitP"}
        BY <2>1 DEF LockInv, MonitorTypeOK, WaiterQueuedOnce
    <2> QED
        BY <2>1, <2>2 DEF WaiterQueuedOnce
<1> QED
    BY <1>1, <1>2, <1>3, <1>4 DEF NonBlocking

-----------------------------------------------------------------------------
(* The inductive invariant.                                                *)

(* What a thread knows at each statement of the three methods.             *)
BodyInv ==
    \A t \in Callers :
        /\ pc[t] \in {"Acquire", "Holder"} => ret[t] \in {"append", "test", "apply"}
        /\ inWait[t] # None => pc[t] \in MonitorLabels /\ ret[t] = "test"
        /\ Position(t) = "append" => arg[t] \in Items
        /\ pc[t] = "remove" => list # <<>>
        /\ pc[t] = "Wait" => list = <<>>

SInv ==
    /\ LockInv
    /\ WaiterQueuedOnce
    /\ TypeOK
    /\ BodyInv

(* The constants that SynchList gives Monitor.                             *)
LEMMA Constants ==
    /\ None \notin Conditions
    /\ listEmpty \in Conditions
    /\ {"append", "signal", "test", "remove", "apply"} = Inside
    /\ {"idle"} = Outside
    BY SynchListAssumption

(* A new list is empty and nobody uses it.                                 *)
LEMMA InitSInv == Init => SInv
<1> SUFFICES ASSUME Init PROVE SInv
    OBVIOUS
<1>1. LockInv /\ WaiterQueuedOnce
    BY LockInvInit, WaitersInit, Constants DEF Init
<1>2. TypeOK
    BY <1>1, SynchListAssumption DEF LockInv, Init, TypeOK
<1>3. BodyInv
    BY DEF Init, MonitorInit, BodyInv, Position, MonitorLabels
<1> QED
    BY <1>1, <1>2, <1>3 DEF SInv

-----------------------------------------------------------------------------
(* Every step preserves it.                                                *)

(* The client's steps.                                                     *)
Client(t) ==
    \/ CallAppend(t) \/ CallRemove(t) \/ CallApply(t)
    \/ AppendItem(t) \/ SignalEmpty(t) \/ Test(t) \/ RemoveItem(t) \/ ApplyList(t)

(* A client's step moves its own thread, from inside or into Acquire.      *)
LEMMA ClientMoves ==
    ASSUME SInv, NEW t \in Callers, Client(t)
    PROVE  /\ UNCHANGED <<mutex, lockHolder>>
           /\ UNCHANGED <<waitQueue, waiter>> \/ (pc[t] = "signal" /\ Signal(listEmpty))
           /\ \/ /\ pc[t] \in {"append", "test"}
                 /\ \E next \in {"signal", "remove"} : Goto(t, next)
                 /\ UNCHANGED <<ret, inWait>>
              \/ /\ pc[t] \in {"signal", "remove", "apply"}
                 /\ Call(t, "Release", "idle")
                 /\ UNCHANGED inWait
              \/ /\ pc[t] = "test"
                 /\ CallWait(t, listEmpty, "test")
              \/ /\ pc[t] = "idle"
                 /\ \E next \in {"append", "test", "apply"} : Call(t, "Acquire", next)
                 /\ UNCHANGED inWait
    BY DEF Client, CallAppend, CallRemove, CallApply, Invoke, AppendItem, SignalEmpty, Test,
           RemoveItem, ApplyList

(* So it keeps the monitor's own invariants.                               *)
LEMMA ClientKeepsLock ==
    ASSUME SInv, NEW t \in Callers, Client(t)
    PROVE  LockInv' /\ WaiterQueuedOnce'
<1>1. /\ waitQueue' \in [Conditions -> Seq(Callers)]
      /\ waiter' \in [Callers -> Nat]
    BY ClientMoves, SignalType, Constants, Zenon DEF SInv, LockInv, MonitorTypeOK
<1>2. \/ /\ pc[t] \in Inside
         /\ \E next \in Inside : Goto(t, next)
         /\ UNCHANGED <<ret, inWait>>
      \/ /\ pc[t] \in Inside
         /\ \E next \in Outside : Call(t, "Release", next)
         /\ UNCHANGED inWait
      \/ /\ pc[t] \in Inside
         /\ \E next \in Inside, c \in Conditions : CallWait(t, c, next)
      \/ /\ pc[t] \in Outside
         /\ \E next \in Inside : Call(t, "Acquire", next)
         /\ UNCHANGED inWait
    BY ClientMoves, Constants
<1>3. UNCHANGED <<mutex, lockHolder>> /\ LockInv /\ WaiterQueuedOnce
    BY ClientMoves DEF SInv
<1>4. LockInv'
    BY <1>1, <1>2, <1>3, ClientStep, Constants
<1>5. UNCHANGED <<waitQueue, waiter>> \/ \E c \in Conditions : Signal(c)
    BY ClientMoves, Constants
<1>6. pc[t] \in Inside \cup Outside
    BY <1>2
<1>7. PICK next, w :
         /\ next \notin {"Release", "Unlock", "WaitP"} \/ inWait' = inWait
         /\ pc' = [pc EXCEPT ![t] = next]
         /\ inWait' = [inWait EXCEPT ![t] = w]
    <2>1. inWait = [inWait EXCEPT ![t] = inWait[t]]
        BY DEF SInv, LockInv, MonitorTypeOK
    <2> QED
        BY <2>1, ClientMoves DEF Goto, Call, CallWait
<1>8. WaiterQueuedOnce'
    BY <1>3, <1>5, <1>6, <1>7, WaitersClientStep, Constants, Zenon
<1> QED
    BY <1>4, <1>8

(* While one thread is inside, no other is at a statement of a method.     *)
LEMMA Alone ==
    ASSUME SInv, NEW t \in Callers, HasMutex(t), NEW u \in Callers, u # t
    PROVE  pc[u] \in {"idle", "Acquire", "WaitP"}
<1>1. ~HasMutex(u)
    BY DEF SInv, LockInv, LockProtects
<1> QED
    BY <1>1, Constants
    DEF HasMutex, SInv, LockInv, MonitorTypeOK, Labels, MonitorLabels

(* A client's step keeps the rest of the invariant.                        *)
LEMMA ClientKeepsSInv ==
    ASSUME SInv, NEW t \in Callers, Client(t)
    PROVE  SInv'
<1>1. LockInv' /\ WaiterQueuedOnce'
    BY ClientKeepsLock
<1>2. \A u \in Callers \ {t} :
         pc'[u] = pc[u] /\ ret'[u] = ret[u] /\ inWait'[u] = inWait[u] /\ arg'[u] = arg[u]
    BY DEF Client, CallAppend, CallRemove, CallApply, Invoke, AppendItem, SignalEmpty, Test,
           RemoveItem, ApplyList, Goto, Call, CallWait, SInv, TypeOK, MonitorTypeOK
<1>3. /\ inWait[t] = None
      /\ pc[t] \notin MonitorLabels
      /\ pc[t] \in Inside => \A u \in Callers \ {t} : pc[u] \in {"idle", "Acquire", "WaitP"}
    BY ClientMoves, Constants, Alone, Zenon DEF HasMutex, SInv, LockInv, ControlInv, MonitorLabels
<1>4. TypeOK'
    <2>1. list' \in Seq(Items)
        <3>1. CASE AppendItem(t)
            <4>1. arg[t] \in Items
                BY <1>3, <3>1 DEF AppendItem, SInv, BodyInv, Position
            <4> QED
                BY <3>1, <4>1 DEF AppendItem, SInv, TypeOK
        <3>2. CASE RemoveItem(t) /\ list # <<>>
            <4>1. Tail(list) \in Seq(Items)
                BY <3>2, RemoveFacts DEF SInv, TypeOK
            <4> QED
                BY <3>2, <4>1 DEF RemoveItem
        <3>3. CASE UNCHANGED list
            BY <3>3 DEF SInv, TypeOK
        <3> QED
            BY <3>1, <3>2, <3>3
            DEF Client, CallAppend, CallRemove, CallApply, Invoke, SignalEmpty, Test, RemoveItem,
                ApplyList
    <2>2. item' \in [Callers -> Items \cup {None}]
        <3>1. CASE RemoveItem(t) /\ list # <<>>
            <4>1. Head(list) \in Items
                BY <3>1 DEF SInv, TypeOK
            <4> QED
                BY <3>1, <4>1, Zenon DEF RemoveItem, SInv, TypeOK
        <3>2. CASE UNCHANGED item \/ item' = [item EXCEPT ![t] = None]
            BY <3>2 DEF SInv, TypeOK
        <3> QED
            BY <3>1, <3>2
            DEF Client, CallAppend, CallRemove, CallApply, Invoke, AppendItem, SignalEmpty, Test,
                RemoveItem, ApplyList
    <2>3. /\ arg' \in [Callers -> Items \cup {None}]
          /\ made' \in [Callers -> 0..MaxCalls]
        <3>1. CASE UNCHANGED <<arg, made>>
            BY <3>1 DEF SInv, TypeOK
        <3>2. ASSUME NEW b, NEW x \in Items \cup {None}, Invoke(t, b, x)
              PROVE  /\ arg' \in [Callers -> Items \cup {None}]
                     /\ made' \in [Callers -> 0..MaxCalls]
            <4>1. made[t] + 1 \in 0..MaxCalls
                BY <3>2, SynchListAssumption DEF Invoke, SInv, TypeOK
            <4> QED
                BY <3>2, <4>1 DEF Invoke, SInv, TypeOK
        <3> QED
            BY <3>1, <3>2
            DEF Client, CallAppend, CallRemove, CallApply, AppendItem, SignalEmpty, Test,
                RemoveItem, ApplyList
    <2> QED
        BY <1>1, <2>1, <2>2, <2>3 DEF LockInv, TypeOK
<1>5. BodyInv'
    <2> DEFINE B(u) == /\ pc[u] \in {"Acquire", "Holder"} => ret[u] \in {"append", "test", "apply"}
                       /\ inWait[u] # None => pc[u] \in MonitorLabels /\ ret[u] = "test"
                       /\ Position(u) = "append" => arg[u] \in Items
                       /\ pc[u] = "remove" => list # <<>>
                       /\ pc[u] = "Wait" => list = <<>>
    <2>1. B(t)'
        <3> USE <1>3 DEF MonitorLabels, SInv, TypeOK, MonitorTypeOK, Position
        <3>1. CASE CallAppend(t) \/ CallRemove(t) \/ CallApply(t)
            BY <3>1 DEF CallAppend, CallRemove, CallApply, Invoke, Call, Goto
        <3>2. CASE AppendItem(t)
            BY <3>2 DEF AppendItem, Goto
        <3>3. CASE SignalEmpty(t) \/ RemoveItem(t) \/ ApplyList(t)
            BY <3>3 DEF SignalEmpty, RemoveItem, ApplyList, Call, Goto
        <3>4. CASE Test(t)
            BY <3>4 DEF Test, CallWait, Call, Goto
        <3> QED
            BY <3>1, <3>2, <3>3, <3>4, Zenon DEF Client
    <2>2. ASSUME NEW u \in Callers, u # t
          PROVE  B(u)'
        <3>1. B(u)
            BY DEF SInv, BodyInv
        <3>2. pc[u] \in {"remove", "Wait"} => UNCHANGED list
            <4>1. CASE pc[t] \in Inside
                BY <1>3, <2>2, <4>1
            <4>2. CASE pc[t] \notin Inside
                BY <4>2, Constants
                DEF Client, CallAppend, CallRemove, CallApply, Invoke, AppendItem, SignalEmpty,
                    Test, RemoveItem, ApplyList
            <4> QED
                BY <4>1, <4>2
        <3> QED
            BY <1>2, <2>2, <3>1, <3>2, Zenon DEF Position
    <2> QED
        BY <2>1, <2>2 DEF BodyInv
<1> QED
    BY <1>1, <1>4, <1>5 DEF SInv

(* A step of Lock or Condition does.                                       *)
LEMMA MonitorKeepsSInv ==
    ASSUME SInv, NEW t \in Callers, AcquireP(t) \/ WaitP(t) \/ NonBlocking(t),
           UNCHANGED clientVars
    PROVE  SInv'
<1>1. LockInv' /\ WaiterQueuedOnce'
    BY MonitorStep, WaitersMonitorStep, Constants DEF SInv
<1>2. TypeOK'
    BY <1>1 DEF LockInv, SInv, TypeOK, clientVars
<1>3. \/ /\ \/ pc[t] = "Acquire" /\ pc' = [pc EXCEPT ![t] = "Holder"]
            \/ pc[t] = "Release" /\ pc' = [pc EXCEPT ![t] = "Unlock"]
            \/ pc[t] = "Wait" /\ pc' = [pc EXCEPT ![t] = "Release"]
         /\ UNCHANGED <<ret, inWait>>
      \/ /\ pc[t] = "Holder"
         /\ pc' = [pc EXCEPT ![t] = ret[t]]
         /\ inWait' = [inWait EXCEPT ![t] = None]
         /\ UNCHANGED ret
      \/ /\ pc[t] = "Unlock"
         /\ \/ pc' = [pc EXCEPT ![t] = "WaitP"]
            \/ inWait[t] = None /\ pc' = [pc EXCEPT ![t] = ret[t]]
         /\ UNCHANGED <<ret, inWait>>
      \/ /\ pc[t] = "WaitP" /\ inWait[t] # None
         /\ pc' = [pc EXCEPT ![t] = "Acquire"]
         /\ UNCHANGED <<ret, inWait>>
    BY Constants, ZenonT(60)
    DEF AcquireP, WaitP, NonBlocking, AcquireHolder, ReleaseHolder, ReleaseV, WaitAppend, Goto,
        SInv, LockInv, ControlInv, TypeOK, MonitorTypeOK
<1>4. /\ pc[t] = "Unlock" /\ inWait[t] = None => ret[t] = "idle"
      /\ pc[t] = "Holder" => ret[t] \in {"append", "test", "apply"}
    BY Constants, Zenon DEF SInv, LockInv, ControlInv, BodyInv
<1>5. BodyInv'
    <2>1. ASSUME NEW u \in Callers
          PROVE  /\ pc'[u] \in {"Acquire", "Holder"} => ret'[u] \in {"append", "test", "apply"}
                 /\ inWait'[u] # None => pc'[u] \in MonitorLabels /\ ret'[u] = "test"
                 /\ Position(u)' = "append" => arg'[u] \in Items
                 /\ pc'[u] = "remove" => list' # <<>>
                 /\ pc'[u] = "Wait" => list' = <<>>
        <3>1. CASE u # t
            BY <1>3, <2>1, <3>1 DEF clientVars, SInv, TypeOK, MonitorTypeOK, BodyInv, Position
        <3>2. CASE u = t
            <4>1. Position(t)' = Position(t)
                BY <1>3, <1>4 DEF SInv, TypeOK, MonitorTypeOK, Position, MonitorLabels
            <4>2. /\ pc'[t] \in {"Acquire", "Holder"} => ret'[t] \in {"append", "test", "apply"}
                  /\ pc'[t] \notin {"remove", "Wait"}
                BY <1>3, <1>4, Zenon DEF SInv, TypeOK, MonitorTypeOK, BodyInv
            <4>3. inWait'[t] # None => pc'[t] \in MonitorLabels /\ ret'[t] = "test"
                BY <1>3 DEF SInv, TypeOK, MonitorTypeOK, BodyInv, MonitorLabels
            <4> QED
                BY <3>2, <4>1, <4>2, <4>3 DEF clientVars, SInv, BodyInv
        <3> QED
            BY <3>1, <3>2, Zenon
    <2> QED
        BY <2>1, ZenonT(60) DEF BodyInv
<1> QED
    BY <1>1, <1>2, <1>5 DEF SInv

(* Every step preserves the invariant.                                     *)
LEMMA StepSInv == SInv /\ [Next]_vars => SInv'
<1> SUFFICES ASSUME SInv, [Next]_vars PROVE SInv'
    OBVIOUS
<1>1. CASE UNCHANGED vars
    BY <1>1, Zenon DEF vars, monitorVars, SInv, LockInv, TypeOK, MonitorTypeOK, ControlInv, HasMutex,
        LockProtects, WaiterQueuedOnce, BodyInv, Position
<1>2. ASSUME NEW t \in Callers,
             \/ CallAppend(t) \/ CallRemove(t) \/ CallApply(t)
             \/ Body(t) \/ Lock(t) \/ Wakeup(t)
      PROVE  SInv'
    <2>1. \/ Client(t)
          \/ (AcquireP(t) \/ WaitP(t) \/ NonBlocking(t)) /\ UNCHANGED clientVars
        BY <1>2 DEF Body, Lock, Wakeup, Client
    <2> QED
        BY <2>1, ClientKeepsSInv, MonitorKeepsSInv
<1> QED
    BY <1>1, <1>2 DEF Next

-----------------------------------------------------------------------------
(* The inductive invariant holds in every reachable state.                 *)
THEOREM Invariant == Spec => []SInv
    BY InitSInv, StepSInv, PTL DEF Spec

(* Type correctness.                                                       *)
THEOREM TypeCorrect == Spec => []TypeOK
<1>1. SInv => TypeOK
    BY DEF SInv
<1> QED
    BY <1>1, Invariant, PTL

(* Only one thread is inside, the ASSERTs on lockHolder hold, and Wait and *)
(* Signal agree on who is asleep.                                          *)
THEOREM MonitorIsSafe == Spec => []MonitorSafe
<1>1. SInv => MonitorSafe
    BY DEF SInv, LockInv, MonitorSafe
<1> QED
    BY <1>1, Invariant, PTL

-----------------------------------------------------------------------------
(* No lost signal.                                                         *)

(* Counting threads.                                                       *)
LEMMA Count ==
    ASSUME NEW S, NEW T, S \subseteq Callers, T \subseteq Callers
    PROVE  /\ Cardinality(S) \in Nat
           /\ S \subseteq T => Cardinality(S) <= Cardinality(T)
           /\ \A t \in Callers \ S : T = S \cup {t} => Cardinality(T) = Cardinality(S) + 1
<1>1. IsFiniteSet(S) /\ IsFiniteSet(T)
    BY MonitorAssumption, FS_Subset
<1>2. Cardinality(S) \in Nat
    BY <1>1, FS_CardinalityType
<1>3. S \subseteq T => Cardinality(S) <= Cardinality(T)
    BY <1>1, FS_Subset
<1>4. ASSUME NEW t \in Callers \ S, T = S \cup {t}
      PROVE  Cardinality(T) = Cardinality(S) + 1
    BY <1>1, <1>4, FS_AddElement
<1> QED
    BY <1>2, <1>3, <1>4

(* More threads on the way to the same list.                               *)
LEMMA MoreOnTheWay ==
    ASSUME SInv, NoLostSignal,
           list' = list,
           waitQueue[listEmpty] = <<>> => waitQueue'[listEmpty] = <<>>,
           OnTheWay \subseteq OnTheWay',
           Signalling \subseteq Signalling'
    PROVE  NoLostSignal'
<1>1. /\ OnTheWay \subseteq Callers /\ OnTheWay' \subseteq Callers
      /\ Signalling \subseteq Callers /\ Signalling' \subseteq Callers
    BY DEF OnTheWay, Signalling
<1>2. /\ Cardinality(OnTheWay) \in Nat /\ Cardinality(OnTheWay') \in Nat
      /\ Cardinality(OnTheWay) <= Cardinality(OnTheWay')
      /\ Cardinality(Signalling) \in Nat /\ Cardinality(Signalling') \in Nat
      /\ Cardinality(Signalling) <= Cardinality(Signalling')
    BY <1>1, Count
<1>3. Len(list) \in Nat
    BY DEF SInv, TypeOK
<1> QED
    BY <1>2, <1>3 DEF NoLostSignal

(* Append: the item it adds is accounted for by its own Signal.            *)
LEMMA AppendAccounts ==
    ASSUME SInv, NoLostSignal, NEW t \in Callers, AppendItem(t)
    PROVE  NoLostSignal'
<1>1. inWait[t] = None
    BY Constants DEF AppendItem, SInv, BodyInv, MonitorLabels
<1>2. OnTheWay' = OnTheWay /\ Signalling' = Signalling \cup {t} /\ t \notin Signalling
    BY <1>1 DEF OnTheWay, Signalling, AppendItem, Goto, SInv, TypeOK, MonitorTypeOK
<1>3. Signalling \subseteq Callers /\ Signalling' \subseteq Callers /\ OnTheWay \subseteq Callers
    BY DEF Signalling, OnTheWay
<1>4. /\ Cardinality(Signalling) \in Nat
      /\ Cardinality(Signalling') = Cardinality(Signalling) + 1
      /\ Cardinality(OnTheWay) \in Nat
      /\ Cardinality(OnTheWay') = Cardinality(OnTheWay)
    BY <1>2, <1>3, Count
<1>5. Len(list) \in Nat /\ Len(list') = Len(list) + 1 /\ UNCHANGED waitQueue
    <2>1. arg[t] \in Items
        BY DEF AppendItem, SInv, BodyInv, Position, MonitorLabels
    <2> QED
        BY <2>1 DEF AppendItem, SInv, TypeOK
<1> QED
    BY <1>4, <1>5 DEF NoLostSignal

(* Its Signal puts the first sleeper on the way.                           *)
LEMMA SignalAccounts ==
    ASSUME SInv, NoLostSignal, NEW t \in Callers, SignalEmpty(t)
    PROVE  NoLostSignal'
<1>1. CASE waitQueue[listEmpty] = <<>>
    BY <1>1 DEF NoLostSignal, SignalEmpty, Signal
<1>2. CASE waitQueue[listEmpty] # <<>>
    <2> DEFINE h == Head(waitQueue[listEmpty])
    <2>1. h \in Callers /\ h \in Range(waitQueue[listEmpty])
        BY <1>2, RemoveFacts, Constants DEF SInv, TypeOK, MonitorTypeOK
    <2>2. /\ inWait[h] = listEmpty /\ waiter[h] = 0 /\ pc[h] \in {"Release", "Unlock", "WaitP"}
        BY <2>1, Constants DEF SInv, WaiterQueuedOnce
    <2>3. inWait[t] = None /\ pc[t] = "signal"
        BY DEF SignalEmpty, SInv, BodyInv, MonitorLabels
    <2>4. /\ waiter' = [waiter EXCEPT ![h] = waiter[h] + 1]
          /\ pc' = [pc EXCEPT ![t] = "Release"]
          /\ UNCHANGED <<list, inWait>>
        BY <1>2 DEF SignalEmpty, Signal, Call, Goto
    <2> HIDE DEF h
    <2>5. h \notin OnTheWay /\ OnTheWay' = OnTheWay \cup {h}
        <3>1. h \notin OnTheWay /\ h \in OnTheWay'
            BY <2>1, <2>2, <2>3, <2>4, SynchListAssumption
            DEF OnTheWay, SInv, TypeOK, MonitorTypeOK
        <3>2. \A u \in Callers \ {h} : u \in OnTheWay <=> u \in OnTheWay'
            BY <2>1, <2>2, <2>3, <2>4 DEF OnTheWay, SInv, TypeOK, MonitorTypeOK
        <3>3. OnTheWay \subseteq Callers /\ OnTheWay' \subseteq Callers
            BY DEF OnTheWay
        <3> QED
            BY <2>1, <3>1, <3>2, <3>3
    <2>6. t \notin Signalling' /\ Signalling = Signalling' \cup {t}
        BY <2>3, <2>4 DEF Signalling, SInv, TypeOK, MonitorTypeOK
    <2>7. /\ OnTheWay \subseteq Callers /\ OnTheWay' \subseteq Callers
          /\ Signalling \subseteq Callers /\ Signalling' \subseteq Callers
        BY DEF OnTheWay, Signalling
    <2>8. /\ Cardinality(OnTheWay) \in Nat
          /\ Cardinality(OnTheWay') = Cardinality(OnTheWay) + 1
          /\ Cardinality(Signalling') \in Nat
          /\ Cardinality(Signalling) = Cardinality(Signalling') + 1
        BY <2>1, <2>5, <2>6, <2>7, Count
    <2>9. Len(list) \in Nat
        BY DEF SInv, TypeOK
    <2> QED
        BY <1>2, <2>4, <2>8, <2>9 DEF NoLostSignal
<1> QED
    BY <1>1, <1>2

(* Remove takes one item and was on the way to one.                        *)
LEMMA RemoveAccounts ==
    ASSUME SInv, NoLostSignal, NEW t \in Callers, RemoveItem(t)
    PROVE  NoLostSignal'
<1>1. inWait[t] = None /\ list # <<>> /\ pc[t] = "remove"
    BY DEF RemoveItem, SInv, BodyInv, MonitorLabels
<1>2. t \notin OnTheWay' /\ OnTheWay = OnTheWay' \cup {t} /\ Signalling' = Signalling
    BY <1>1 DEF OnTheWay, Signalling, RemoveItem, Call, Goto, SInv, TypeOK, MonitorTypeOK
<1>3. OnTheWay \subseteq Callers /\ OnTheWay' \subseteq Callers /\ Signalling \subseteq Callers
    BY DEF OnTheWay, Signalling
<1>4. /\ Cardinality(OnTheWay') \in Nat
      /\ Cardinality(OnTheWay) = Cardinality(OnTheWay') + 1
      /\ Cardinality(Signalling) \in Nat
      /\ Cardinality(Signalling') = Cardinality(Signalling)
    BY <1>2, <1>3, Count
<1>5. Len(list) \in Nat /\ Len(list') = Len(list) - 1 /\ UNCHANGED waitQueue
    <2>1. list \in Seq(Items) /\ list' = Tail(list)
        BY <1>1 DEF RemoveItem, SInv, TypeOK
    <2> QED
        BY <1>1, <2>1 DEF RemoveItem
<1> QED
    BY <1>4, <1>5 DEF NoLostSignal

(* A step of Lock or Condition: a thread goes to sleep only when the list  *)
(* is empty, and a thread that was on the way stays so.                    *)
LEMMA MonitorAccounts ==
    ASSUME SInv, NoLostSignal, NEW t \in Callers, AcquireP(t) \/ WaitP(t) \/ NonBlocking(t),
           UNCHANGED clientVars
    PROVE  NoLostSignal'
<1> USE DEF SInv, TypeOK, MonitorTypeOK
<1>1. CASE WaitAppend(t)
    <2>1. Len(list') = 0
        BY <1>1 DEF WaitAppend, BodyInv, clientVars
    <2>2. /\ OnTheWay' \subseteq Callers /\ Signalling' \subseteq Callers
        BY Zenon DEF OnTheWay, Signalling
    <2>3. Cardinality(OnTheWay') \in Nat /\ Cardinality(Signalling') \in Nat
        BY <2>2, Count, Zenon
    <2> QED
        BY <2>1, <2>3 DEF NoLostSignal
<1>2. CASE AcquireP(t) \/ WaitP(t) \/ AcquireHolder(t) \/ ReleaseHolder(t) \/ ReleaseV(t)
    <2>1. list' = list /\ waitQueue' = waitQueue
        BY <1>2 DEF clientVars, AcquireP, WaitP, AcquireHolder, ReleaseHolder, ReleaseV
    <2>2. Signalling \subseteq Signalling'
        BY <1>2, Zenon DEF Signalling, AcquireP, WaitP, AcquireHolder, ReleaseHolder, ReleaseV, Goto
    <2>3. OnTheWay \subseteq OnTheWay'
        <3>1. CASE AcquireP(t)
            BY <3>1 DEF OnTheWay, AcquireP, Goto
        <3>2. CASE WaitP(t)
            <4>1. inWait[t] # None
                BY <3>2, Constants, Zenon DEF WaitP, LockInv, ControlInv
            <4> QED
                BY <3>2, <4>1, Zenon DEF OnTheWay, WaitP, Goto
        <3>3. CASE AcquireHolder(t)
            <4>1. inWait[t] # None => ret[t] = "test"
                BY DEF BodyInv
            <4> QED
                BY <3>3, <4>1 DEF OnTheWay, AcquireHolder, Goto
        <3>4. CASE ReleaseHolder(t) \/ ReleaseV(t)
            BY <3>4 DEF OnTheWay, ReleaseHolder, ReleaseV, Goto
        <3> QED
            BY <1>2, <3>1, <3>2, <3>3, <3>4
    <2> QED
        BY <2>1, <2>2, <2>3, MoreOnTheWay
<1> QED
    BY <1>1, <1>2 DEF NonBlocking

(* Every step keeps the account.                                           *)
LEMMA StepNoLostSignal == SInv /\ NoLostSignal /\ [Next]_vars => NoLostSignal'
<1> SUFFICES ASSUME SInv, NoLostSignal, [Next]_vars PROVE NoLostSignal'
    OBVIOUS
<1>1. CASE UNCHANGED vars
    BY <1>1 DEF vars, monitorVars, NoLostSignal, OnTheWay, Signalling
<1>2. ASSUME NEW t \in Callers, CallAppend(t) \/ CallRemove(t) \/ CallApply(t) \/ ApplyList(t)
      PROVE  NoLostSignal'
    <2>1. pc[t] \in {"idle", "apply"} /\ inWait[t] = None
        BY <1>2, Zenon DEF CallAppend, CallRemove, CallApply, ApplyList, Invoke, SInv, BodyInv,
            MonitorLabels
    <2>2. /\ UNCHANGED <<list, waitQueue, waiter, inWait>>
          /\ \E next \in {"Acquire", "Release"} : pc' = [pc EXCEPT ![t] = next]
        BY <1>2 DEF CallAppend, CallRemove, CallApply, ApplyList, Invoke, Call, Goto
    <2> QED
        BY <2>1, <2>2, MoreOnTheWay, Zenon DEF OnTheWay, Signalling, SInv, TypeOK, MonitorTypeOK
<1>3. ASSUME NEW t \in Callers, Test(t)
      PROVE  NoLostSignal'
    <2>1. CASE list # <<>>
        BY <1>3, <2>1, MoreOnTheWay, Zenon
        DEF Test, Goto, OnTheWay, Signalling, SInv, TypeOK, MonitorTypeOK
    <2>2. CASE list = <<>>
        <3>1. /\ OnTheWay' \subseteq Callers /\ Signalling' \subseteq Callers
            BY DEF OnTheWay, Signalling
        <3>2. Cardinality(OnTheWay') \in Nat /\ Cardinality(Signalling') \in Nat
            BY <3>1, Count
        <3> QED
            BY <1>3, <2>2, <3>2 DEF Test, NoLostSignal
    <2> QED
        BY <2>1, <2>2
<1> QED
    BY <1>1, <1>2, <1>3, AppendAccounts, SignalAccounts, RemoveAccounts, MonitorAccounts
    DEF Next, Body, Lock, Wakeup

(* While threads sleep in Remove, no item is left without a thread on its  *)
(* way to it.                                                              *)
THEOREM SignalsNotLost == Spec => []NoLostSignal
<1>1. Init => NoLostSignal
    <2> SUFFICES ASSUME Init PROVE waitQueue[listEmpty] = <<>>
        BY DEF NoLostSignal
    <2> QED
        BY Constants DEF Init, MonitorInit
<1> QED
    BY <1>1, StepNoLostSignal, Invariant, PTL DEF Spec

-----------------------------------------------------------------------------
(* Refinement.                                                             *)

(* Only the statement that touches the list changes what a call looks like *)
(* from outside.                                                           *)
LEMMA CallFrame ==
    ASSUME SInv, NEW t \in Callers, NEW c,
           \A u \in Callers \ {t} :
               pc'[u] = pc[u] /\ ret'[u] = ret[u] /\ arg'[u] = arg[u],
           AbstractCall(t)' = c
    PROVE  [u \in Callers |-> AbstractCall(u)]'
              = [[u \in Callers |-> AbstractCall(u)] EXCEPT ![t] = c]
<1>1. \A u \in Callers \ {t} : AbstractCall(u)' = AbstractCall(u)
    BY DEF AbstractCall, Position
<1> QED
    BY <1>1, Zenon

(* Every step of the code is a step of the list, or none.                  *)
LEMMA StepRefines ==
    ASSUME SInv, [Next]_vars
    PROVE  [Abstract!Next]_(Abstract!vars)
<1> DEFINE Calls == [u \in Callers |-> AbstractCall(u)]
<1> USE DEF SInv, TypeOK, MonitorTypeOK
<1>1. CASE UNCHANGED vars
    BY <1>1 DEF vars, monitorVars, AbstractCall, Position, Abstract!vars
<1>2. ASSUME NEW t \in Callers, Client(t)
      PROVE  [Abstract!Next]_(Abstract!vars)
    <2>1. \A u \in Callers \ {t} : pc'[u] = pc[u] /\ ret'[u] = ret[u] /\ arg'[u] = arg[u]
        BY <1>2, Zenon DEF Client, CallAppend, CallRemove, CallApply, Invoke, AppendItem, SignalEmpty,
            Test, RemoveItem, ApplyList, Goto, Call, CallWait
    <2>2. Calls' = [Calls EXCEPT ![t] = AbstractCall(t)'] /\ Calls[t] = AbstractCall(t)
        BY <2>1, CallFrame, Zenon
    <2> HIDE DEF Calls
    <2> USE DEF AbstractCall, Position, MonitorLabels
    <2>3. CASE CallAppend(t) \/ CallRemove(t) \/ CallApply(t)
        <3>1. AbstractCall(t) = Abstract!NoCall
            BY <2>3 DEF CallAppend, CallRemove, CallApply, Invoke, Abstract!NoCall
        <3>2. AbstractCall(t)' \in [op : {"Append"}, arg : Items]
                                 \cup [op : {"Remove", "Apply"}, arg : {None}]
            BY <2>3 DEF CallAppend, CallRemove, CallApply, Invoke, Call, Goto
        <3>3. item' = [item EXCEPT ![t] = None] /\ UNCHANGED list
            BY <2>3 DEF CallAppend, CallRemove, CallApply, Invoke
        <3>4. Abstract!Invoke(t)
            BY <2>2, <3>1, <3>2, <3>3, Zenon DEF Abstract!Invoke, Calls
        <3> QED
            BY <3>4 DEF Abstract!Next
    <2>4. CASE AppendItem(t)
        <3>1. AbstractCall(t) = [op |-> "Append", arg |-> arg[t]]
            BY <2>4 DEF AppendItem
        <3>2. AbstractCall(t)' = Abstract!NoCall
            BY <2>4 DEF AppendItem, Goto, Abstract!NoCall
        <3>3. list' = Append(list, arg[t]) /\ UNCHANGED item
            BY <2>4 DEF AppendItem
        <3>4. Abstract!DoAppend(t)
            BY <2>2, <3>1, <3>2, <3>3, Zenon DEF Abstract!DoAppend, Calls
        <3> QED
            BY <3>4 DEF Abstract!Next
    <2>5. CASE RemoveItem(t)
        <3>1. AbstractCall(t).op = "Remove"
            BY <2>5 DEF RemoveItem
        <3>2. AbstractCall(t)' = Abstract!NoCall
            BY <2>5 DEF RemoveItem, Call, Goto, Abstract!NoCall
        <3>3. list # <<>> /\ list' = Tail(list) /\ item' = [item EXCEPT ![t] = Head(list)]
            BY <2>5 DEF RemoveItem, BodyInv
        <3>4. Abstract!DoRemove(t)
            BY <2>2, <3>1, <3>2, <3>3, Zenon DEF Abstract!DoRemove, Calls
        <3> QED
            BY <3>4 DEF Abstract!Next
    <2>6. CASE ApplyList(t)
        <3>1. AbstractCall(t).op = "Apply"
            BY <2>6 DEF ApplyList
        <3>2. AbstractCall(t)' = Abstract!NoCall
            BY <2>6 DEF ApplyList, Call, Goto, Abstract!NoCall
        <3>3. UNCHANGED <<list, item>>
            BY <2>6 DEF ApplyList
        <3>4. Abstract!DoApply(t)
            BY <2>2, <3>1, <3>2, <3>3, Zenon DEF Abstract!DoApply, Calls
        <3> QED
            BY <3>4 DEF Abstract!Next
    <2>7. CASE SignalEmpty(t) \/ Test(t)
        <3>1. AbstractCall(t)' = AbstractCall(t)
            BY <2>7 DEF SignalEmpty, Test, CallWait, Call, Goto
        <3>2. UNCHANGED <<list, item>>
            BY <2>7 DEF SignalEmpty, Test
        <3> HIDE DEF AbstractCall, Position, MonitorLabels
        <3>3. Calls' = Calls
            BY <2>2, <3>1, Zenon DEF Calls
        <3> QED
            BY <3>2, <3>3 DEF Abstract!vars, Calls
    <2> QED
        BY <1>2, <2>3, <2>4, <2>5, <2>6, <2>7 DEF Client
<1>3. ASSUME NEW t \in Callers, AcquireP(t) \/ WaitP(t) \/ NonBlocking(t), UNCHANGED clientVars
      PROVE  UNCHANGED Abstract!vars
    <2>1. /\ pc[t] = "Unlock" /\ inWait[t] = None => ret[t] = "idle"
          /\ pc[t] = "Holder" => ret[t] \in {"append", "test", "apply"}
        BY Constants, Zenon DEF LockInv, ControlInv, BodyInv
    <2>2. \A u \in Callers \ {t} : pc'[u] = pc[u] /\ ret'[u] = ret[u] /\ arg'[u] = arg[u]
        BY <1>3 DEF AcquireP, WaitP, NonBlocking, AcquireHolder, ReleaseHolder, ReleaseV,
            WaitAppend, Goto, clientVars
    <2>3. Position(t)' = Position(t)
        BY <1>3, <2>1, Zenon DEF AcquireP, WaitP, NonBlocking, AcquireHolder, ReleaseHolder, ReleaseV,
            WaitAppend, Goto, Position, MonitorLabels
    <2>4. AbstractCall(t)' = AbstractCall(t) /\ UNCHANGED <<list, item>>
        BY <1>3, <2>3 DEF AbstractCall, clientVars
    <2>5. Calls' = Calls
        BY <2>2, <2>4 DEF AbstractCall, Position
    <2> QED
        BY <2>4, <2>5 DEF Abstract!vars
<1> QED
    BY <1>1, <1>2, <1>3 DEF Next, Body, Lock, Wakeup, Client

(* The code is a FIFO list whose Append and Remove are atomic, and a       *)
(* Remove never returns NULL.                                              *)
THEOREM Refinement == Spec => ImplementsSynchListSafety
<1>1. Init => Abstract!Init
    BY DEF Init, MonitorInit, AbstractCall, Position, MonitorLabels, Abstract!Init,
        Abstract!NoCall
<1>2. SInv /\ [Next]_vars => [Abstract!Next]_(Abstract!vars)
    BY StepRefines
<1> QED
    BY <1>1, <1>2, Invariant, PTL DEF Spec, ImplementsSynchListSafety, Abstract!Spec
=============================================================================
