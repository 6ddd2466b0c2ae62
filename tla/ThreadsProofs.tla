---------------------------- MODULE ThreadsProofs ---------------------------
(***************************************************************************)
(* Proofs about the threads of Nachos: NachosKernel for every set of       *)
(* threads and semaphores, and two programs on top of its semaphores and   *)
(* locks, Water for every number of atoms and DinningPh for every table.   *)
(***************************************************************************)
EXTENDS NachosKernel, Water, DinningPh, FiniteSetTheorems, TLAPS

-----------------------------------------------------------------------------
(* Facts about List (threads/list.h), which the model represents as a      *)
(* sequence: Append adds at the end, Remove takes the first item.          *)

(* List::Append adds its item to the list, at most once if it was not on   *)
(* the list before.                                                        *)
LEMMA AppendFacts ==
    ASSUME NEW S, NEW q \in Seq(S), NEW e \in S
    PROVE  /\ Append(q, e) \in Seq(S)
           /\ Append(q, e) # <<>>
           /\ Range(Append(q, e)) = Range(q) \cup {e}
           /\ IsInjective(q) /\ e \notin Range(q) => IsInjective(Append(q, e))
<1>1. /\ Append(q, e) \in Seq(S)
      /\ Len(Append(q, e)) = Len(q) + 1
      /\ DOMAIN Append(q, e) = 1..(Len(q) + 1)
      /\ DOMAIN q = 1..Len(q)
      /\ Len(q) \in Nat
      /\ \A i \in 1..Len(q) : Append(q, e)[i] = q[i]
      /\ Append(q, e)[Len(q) + 1] = e
    OBVIOUS
<1>2. Append(q, e) # <<>>
    BY <1>1
<1>3. Range(Append(q, e)) = Range(q) \cup {e}
    BY <1>1 DEF Range
<1>4. IsInjective(q) /\ e \notin Range(q) => IsInjective(Append(q, e))
    BY <1>1 DEF Range, IsInjective
<1> QED
    BY <1>1, <1>2, <1>3, <1>4

(* List::Remove takes the first item off a nonempty list.                  *)
LEMMA RemoveFacts ==
    ASSUME NEW S, NEW q \in Seq(S), q # <<>>
    PROVE  /\ Head(q) \in S
           /\ Head(q) \in Range(q)
           /\ Tail(q) \in Seq(S)
           /\ IsInjective(q) => /\ Range(Tail(q)) = Range(q) \ {Head(q)}
                                /\ IsInjective(Tail(q))
<1>1. /\ Len(q) \in Nat \ {0}
      /\ DOMAIN q = 1..Len(q)
      /\ Head(q) = q[1]
      /\ Tail(q) \in Seq(S)
      /\ DOMAIN Tail(q) = 1..(Len(q) - 1)
      /\ \A i \in 1..(Len(q) - 1) : Tail(q)[i] = q[i + 1]
    OBVIOUS
<1>2. Head(q) \in S /\ Head(q) \in Range(q)
    BY <1>1 DEF Range
<1>3. ASSUME IsInjective(q)
      PROVE  Range(Tail(q)) = Range(q) \ {Head(q)}
    <2>1. ASSUME NEW x \in Range(Tail(q))
          PROVE  x \in Range(q) \ {Head(q)}
        <3>1. PICK i \in 1..(Len(q) - 1) : x = q[i + 1]
            BY <1>1 DEF Range
        <3> QED
            BY <3>1, <1>1, <1>3 DEF Range, IsInjective
    <2>2. ASSUME NEW x \in Range(q) \ {Head(q)}
          PROVE  x \in Range(Tail(q))
        <3>1. PICK i \in 1..Len(q) : x = q[i] /\ i # 1
            BY <1>1 DEF Range
        <3>2. i - 1 \in 1..(Len(q) - 1) /\ Tail(q)[i - 1] = x
            BY <3>1, <1>1
        <3> QED
            BY <3>2, <1>1, Zenon DEF Range
    <2> QED
        BY <2>1, <2>2
<1>4. IsInjective(q) => IsInjective(Tail(q))
    BY <1>1 DEF IsInjective
<1> QED
    BY <1>1, <1>2, <1>3, <1>4

(* An empty list holds nothing.                                            *)
LEMMA EmptyFacts ==
    ASSUME NEW S
    PROVE  /\ <<>> \in Seq(S)
           /\ Range(<<>>) = {}
           /\ IsInjective(<<>>)
           /\ \A q \in Seq(S) : q # <<>> => Range(q) # {}
<1>1. /\ <<>> \in Seq(S)
      /\ Range(<<>>) = {}
      /\ IsInjective(<<>>)
    BY DEF Range, IsInjective
<1>2. \A q \in Seq(S) : q # <<>> => Range(q) # {}
    BY RemoveFacts
<1> QED
    BY <1>1, <1>2

-----------------------------------------------------------------------------
(* The inductive invariant.                                                *)

(* Where a thread continues agrees with its status and with the CPU.       *)
ContinuationInv ==
    /\ \A t \in Threads :
        /\ inP[t] # NULL <=> cont[t] = "P"
        /\ cont[t] = "code" <=> t = currentThread /\ cpu = "IntOn"
        /\ cont[t] = "ThreadRoot" =>
              status[t] \in {"ABSENT", "JUST_CREATED", "READY", "RUNNING"}
        /\ cont[t] = "Yield" => status[t] \in {"READY", "RUNNING"}
        /\ cont[t] = "P" => status[t] \in {"READY", "RUNNING", "BLOCKED"}
        /\ cont[t] = "Finish" => status[t] \in {"BLOCKED", "DELETED"}
    /\ cpu \in {"Sleep", "Idle", "Halted"} => cont[currentThread] \in {"P", "Finish"}

(* What threadToBeDestroyed points to has finished and is not yet deleted; *)
(* a machine that halted had nobody left to run.                           *)
CarcassInv ==
    /\ threadToBeDestroyed # NULL =>
          /\ cont[threadToBeDestroyed] = "Finish"
          /\ status[threadToBeDestroyed] = "BLOCKED"
    /\ cpu \in {"Sleep", "Idle", "Halted"} => status[currentThread] # "DELETED"
    /\ cpu = "Halted" => readyList = <<>>

Inv == TypeOK /\ ThreadInOnePlace /\ ContinuationInv /\ CarcassInv

-----------------------------------------------------------------------------
(* Every action preserves it.  Facts are split so that one lemma deals     *)
(* with the actions of one component.                                      *)

(* Initialize() establishes the invariant.                                 *)
LEMMA InitInv == Init => Inv
<1> SUFFICES ASSUME Init PROVE Inv
    OBVIOUS
<1> USE KernelAssumption DEF Init
<1>1. TypeOK
    BY EmptyFacts DEF TypeOK, ThreadStatus, Continuation, CpuState
<1>2. ThreadInOnePlace
    BY EmptyFacts, Zenon DEF ThreadInOnePlace
<1>3. ContinuationInv /\ CarcassInv
    BY DEF ContinuationInv, CarcassInv
<1> QED
    BY <1>1, <1>2, <1>3 DEF Inv

(* Creating and starting a thread.                                         *)
LEMMA ForkInv ==
    ASSUME Inv, NEW t \in Threads, NewThread(t) \/ Fork(t)
    PROVE  Inv'
<1> USE KernelAssumption
<1>1. CASE NewThread(t)
    <2> USE <1>1 DEF NewThread, schedVars, semVars
    <2>1. TypeOK'
        BY DEF Inv, TypeOK, ThreadStatus
    <2>2. ThreadInOnePlace'
        BY DEF Inv, TypeOK, ThreadInOnePlace
    <2>3. ContinuationInv' /\ CarcassInv'
        BY DEF Inv, TypeOK, ThreadInOnePlace, ContinuationInv, CarcassInv
    <2> QED
        BY <2>1, <2>2, <2>3 DEF Inv
<1>2. CASE Fork(t)
    <2> USE <1>2 DEF Fork, ReadyToRun, semVars
    <2>0. /\ readyList' \in Seq(Threads)
          /\ Range(readyList') = Range(readyList) \cup {t}
          /\ IsInjective(readyList')
        BY AppendFacts DEF Inv, TypeOK, ThreadInOnePlace
    <2>1. TypeOK'
        BY <2>0 DEF Inv, TypeOK, ThreadStatus
    <2>2. ThreadInOnePlace'
        BY <2>0 DEF Inv, TypeOK, ThreadInOnePlace
    <2>3. ContinuationInv' /\ CarcassInv'
        BY DEF Inv, TypeOK, ThreadInOnePlace, ContinuationInv, CarcassInv
    <2> QED
        BY <2>1, <2>2, <2>3 DEF Inv
<1> QED
    BY <1>1, <1>2

(* Giving up the CPU.                                                      *)
LEMMA YieldInv ==
    ASSUME Inv, Yield
    PROVE  Inv'
<1> USE KernelAssumption
<1> DEFINE next == Head(readyList)
           rest == Tail(readyList)
<1>0. /\ next \in Threads
      /\ next \in Range(readyList)
      /\ rest \in Seq(Threads)
      /\ Range(rest) = Range(readyList) \ {next}
      /\ IsInjective(rest)
    BY RemoveFacts DEF Yield, Inv, TypeOK, ThreadInOnePlace
<1>1. /\ status[next] = "READY"
      /\ status[currentThread] = "RUNNING"
      /\ currentThread \in Threads
      /\ currentThread \notin Range(rest)
      /\ next # currentThread
    BY <1>0 DEF Yield, Inv, TypeOK, ThreadInOnePlace
<1>2. /\ readyList' \in Seq(Threads)
      /\ Range(readyList') = Range(rest) \cup {currentThread}
      /\ IsInjective(readyList')
    BY <1>0, <1>1, AppendFacts, ZenonT(40) DEF Yield, Run
<1>3. /\ currentThread' = next
      /\ cpu = "IntOn"
      /\ cpu' = "Switched"
      /\ status' = [status EXCEPT ![currentThread] = "READY", ![next] = "RUNNING"]
      /\ cont' = [cont EXCEPT ![currentThread] = "Yield"]
      /\ UNCHANGED <<inP, threadToBeDestroyed, value, queue, pending>>
    BY <1>0, <1>1 DEF Yield, Run, Inv, TypeOK, semVars
<1>4. TypeOK'
    BY <1>0, <1>2, <1>3, Zenon DEF Inv, TypeOK, ThreadStatus, Continuation, CpuState
<1>5. ThreadInOnePlace'
    BY <1>0, <1>1, <1>2, <1>3 DEF Inv, TypeOK, ThreadInOnePlace
<1>6. ContinuationInv' /\ CarcassInv'
    BY <1>0, <1>1, <1>2, <1>3 DEF Inv, TypeOK, ThreadInOnePlace, ContinuationInv, CarcassInv
<1> QED
    BY <1>4, <1>5, <1>6 DEF Inv

(* Finishing, and the loop of Thread::Sleep.                               *)
LEMMA SleepInv ==
    ASSUME Inv, Finish \/ SleepDispatch
    PROVE  Inv'
<1> USE KernelAssumption
<1>1. CASE Finish
    <2> USE <1>1 DEF Finish, semVars
    <2>1. TypeOK'
        BY DEF Inv, TypeOK, ThreadStatus, Continuation, CpuState
    <2>2. ThreadInOnePlace'
        BY Zenon DEF Inv, TypeOK, ThreadInOnePlace, ContinuationInv
    <2>3. ContinuationInv' /\ CarcassInv'
        BY DEF Inv, TypeOK, ThreadInOnePlace, ContinuationInv, CarcassInv
    <2> QED
        BY <2>1, <2>2, <2>3 DEF Inv
<1>2. CASE SleepDispatch
    <2> DEFINE next == Head(readyList)
    <2>0. /\ next \in Threads
          /\ next \in Range(readyList)
          /\ readyList' \in Seq(Threads)
          /\ Range(readyList') = Range(readyList) \ {next}
          /\ IsInjective(readyList')
          /\ status[next] = "READY"
        BY <1>2, RemoveFacts DEF SleepDispatch, Run, Inv, TypeOK, ThreadInOnePlace
    <2>1. /\ currentThread' = next
          /\ cpu = "Sleep"
          /\ cpu' = "Switched"
          /\ status' = [status EXCEPT ![next] = "RUNNING"]
          /\ UNCHANGED <<cont, inP, threadToBeDestroyed, value, queue, pending>>
        BY <1>2 DEF SleepDispatch, Run, semVars
    <2>2. TypeOK'
        BY <2>0, <2>1 DEF Inv, TypeOK, ThreadStatus, CpuState
    <2>3. ThreadInOnePlace'
        BY <2>0, <2>1 DEF Inv, TypeOK, ThreadInOnePlace
    <2>4. ContinuationInv' /\ CarcassInv'
        BY <2>0, <2>1 DEF Inv, TypeOK, ThreadInOnePlace, ContinuationInv, CarcassInv
    <2> QED
        BY <2>2, <2>3, <2>4 DEF Inv
<1> QED
    BY <1>1, <1>2

(* What the tail of Scheduler::Run changes: at most the carcass, which is  *)
(* neither running nor ready nor in a P.                                   *)
LEMMA ReapFacts ==
    ASSUME Inv, cpu = "Switched"
    PROVE  /\ Reap \in [Threads -> ThreadStatus]
           /\ \A t \in Threads : Reap[t] = "READY" <=> status[t] = "READY"
           /\ \A t \in Threads : Reap[t] = "RUNNING" <=> status[t] = "RUNNING"
           /\ \A t \in Threads : cont[t] # "Finish" => Reap[t] = status[t]
           /\ \A t \in Threads :
                cont[t] = "Finish" => Reap[t] \in {"BLOCKED", "DELETED"}
           /\ Reap[currentThread] = "RUNNING"
<1>1. status[currentThread] = "RUNNING"
    BY DEF Inv, TypeOK, ThreadInOnePlace
<1>2. CASE threadToBeDestroyed = NULL
    BY <1>1, <1>2 DEF Reap, Inv, TypeOK, ContinuationInv
<1>3. CASE threadToBeDestroyed # NULL
    BY <1>1, <1>3 DEF Reap, Inv, TypeOK, ThreadStatus, ContinuationInv, CarcassInv
<1> QED
    BY <1>2, <1>3

(* Coming back from SWITCH, outside P.                                     *)
LEMMA ReturnInv ==
    ASSUME Inv, ThreadRoot \/ ReturnFromYield
    PROVE  Inv'
<1> USE KernelAssumption
<1>1. CASE ThreadRoot
    <2> USE <1>1 DEF ThreadRoot, schedVars, semVars
    <2>1. TypeOK'
        BY DEF Inv, TypeOK, Continuation, CpuState
    <2>2. ThreadInOnePlace'
        BY DEF Inv, TypeOK, ThreadInOnePlace
    <2>3. ContinuationInv' /\ CarcassInv'
        BY DEF Inv, TypeOK, ThreadInOnePlace, ContinuationInv, CarcassInv
    <2> QED
        BY <2>1, <2>2, <2>3 DEF Inv
<1>2. CASE ReturnFromYield
    <2> USE <1>2 DEF ReturnFromYield, semVars
    <2>1. TypeOK'
        BY ReapFacts DEF Inv, TypeOK, Continuation, CpuState
    <2>2. \A t \in Threads : inP[t] # NULL => Reap[t] = status[t]
        BY ReapFacts DEF Inv, ContinuationInv
    <2>3. ThreadInOnePlace'
        BY <2>2, ReapFacts DEF Inv, TypeOK, ThreadInOnePlace, ContinuationInv
    <2>4. ContinuationInv' /\ CarcassInv'
        BY ReapFacts DEF Inv, TypeOK, ThreadInOnePlace, ContinuationInv, CarcassInv
    <2> QED
        BY <2>1, <2>3, <2>4 DEF Inv
<1> QED
    BY <1>1, <1>2

(* Semaphore::V, by a thread or by a handler, in any state of the CPU but  *)
(* "Switched" and "Halted".                                                *)
LEMMA SignalInv ==
    ASSUME Inv, NEW s \in Semaphores, SignalSemaphore(s),
           \/ cpu = "IntOn" /\ cpu' = "IntOn"
           \/ cpu \in {"Sleep", "Idle"} /\ cpu' = "Idle",
           pending' \in [Devices -> Nat]
    PROVE  Inv'
<1> USE KernelAssumption DEF SignalSemaphore
<1>1. CASE queue[s] = <<>>
    <2>1. TypeOK'
        BY <1>1 DEF Inv, TypeOK, CpuState
    <2>2. ThreadInOnePlace'
        BY <1>1 DEF Inv, TypeOK, ThreadInOnePlace
    <2>3. ContinuationInv' /\ CarcassInv'
        BY <1>1 DEF Inv, TypeOK, ThreadInOnePlace, ContinuationInv, CarcassInv
    <2> QED
        BY <2>1, <2>2, <2>3 DEF Inv
<1>2. CASE queue[s] # <<>>
    <2> DEFINE t == Head(queue[s])
    <2>1. /\ t \in Threads
          /\ t \in Range(queue[s])
          /\ Tail(queue[s]) \in Seq(Threads)
          /\ Range(Tail(queue[s])) = Range(queue[s]) \ {t}
          /\ IsInjective(Tail(queue[s]))
        BY <1>2, RemoveFacts DEF Inv, TypeOK, ThreadInOnePlace
    <2>2. /\ status[t] = "BLOCKED"
          /\ inP[t] = s
          /\ cont[t] = "P"
          /\ t \notin Range(readyList)
        BY <2>1 DEF Inv, TypeOK, ThreadInOnePlace, ContinuationInv
    <2>3. /\ queue' = [queue EXCEPT ![s] = Tail(queue[s])]
          /\ status' = [status EXCEPT ![t] = "READY"]
          /\ readyList' = Append(readyList, t)
          /\ value' = [value EXCEPT ![s] = @ + 1]
          /\ UNCHANGED <<cont, inP, currentThread, threadToBeDestroyed>>
        BY <1>2 DEF ReadyToRun
    <2>4. /\ readyList' \in Seq(Threads)
          /\ Range(readyList') = Range(readyList) \cup {t}
          /\ IsInjective(readyList')
        BY <2>1, <2>2, <2>3, AppendFacts DEF Inv, TypeOK, ThreadInOnePlace
    <2> HIDE DEF SignalSemaphore, t
    <2>5. TypeOK'
        BY <2>1, <2>3, <2>4 DEF Inv, TypeOK, ThreadStatus, CpuState
    <2>6. ThreadInOnePlace'
        BY <2>1, <2>2, <2>3, <2>4 DEF Inv, TypeOK, ThreadInOnePlace
    <2>7. ContinuationInv' /\ CarcassInv'
        BY <2>1, <2>2, <2>3, <2>4
        DEF Inv, TypeOK, ThreadInOnePlace, ContinuationInv, CarcassInv
    <2> QED
        BY <2>5, <2>6, <2>7 DEF Inv
<1> QED
    BY <1>1, <1>2

(* P takes a unit or puts its caller to sleep, at the call or when a woken *)
(* caller tests the value again.                                           *)
LEMMA PInv ==
    ASSUME Inv, NEW s \in Semaphores, P(s) \/ ReturnInP(s)
    PROVE  Inv'
<1> USE KernelAssumption
<1> DEFINE me == currentThread
           st == IF cpu = "Switched" THEN Reap ELSE status
<1>1. /\ me \in Threads
      /\ cpu \in {"IntOn", "Switched"}
      /\ cont[me] \in {"code", "P"}
      /\ status[me] = "RUNNING"
    BY DEF P, ReturnInP, Inv, TypeOK, ThreadInOnePlace, ContinuationInv
<1>2. /\ st \in [Threads -> ThreadStatus]
      /\ \A t \in Threads : st[t] = "READY" <=> status[t] = "READY"
      /\ \A t \in Threads : st[t] = "RUNNING" <=> status[t] = "RUNNING"
      /\ \A t \in Threads : cont[t] # "Finish" => st[t] = status[t]
      /\ \A t \in Threads : cont[t] = "Finish" => st[t] \in {"BLOCKED", "DELETED"}
      /\ \A t \in Threads : inP[t] # NULL => st[t] = status[t]
    BY <1>1, ReapFacts DEF Inv, TypeOK, ContinuationInv
<1>3. /\ UNCHANGED <<currentThread, readyList, pending>>
      /\ \/ threadToBeDestroyed' = NULL
         \/ cpu = "IntOn" /\ threadToBeDestroyed' = threadToBeDestroyed /\ st = status
    BY DEF P, ReturnInP, schedVars
<1>4. \/ TakeUnit(s) /\ status' = st
      \/ Enqueue(s) /\ status' = [st EXCEPT ![me] = "BLOCKED"]
    BY DEF P, ReturnInP
<1> HIDE DEF st
<1>5. CASE TakeUnit(s) /\ status' = st
    <2> USE <1>1, <1>2, <1>3, <1>5 DEF TakeUnit
    <2>1. TypeOK'
        BY DEF Inv, TypeOK, Continuation, CpuState
    <2>2. ThreadInOnePlace'
        BY DEF Inv, TypeOK, ThreadInOnePlace, ContinuationInv
    <2>3. ContinuationInv' /\ CarcassInv'
        BY DEF Inv, TypeOK, ThreadInOnePlace, ContinuationInv, CarcassInv
    <2> QED
        BY <2>1, <2>2, <2>3 DEF Inv
<1>6. CASE Enqueue(s) /\ status' = [st EXCEPT ![me] = "BLOCKED"]
    <2>0. me \notin Range(queue[s])
        BY <1>1 DEF Inv, TypeOK, ThreadInOnePlace
    <2>1. /\ queue'[s] \in Seq(Threads)
          /\ Range(queue'[s]) = Range(queue[s]) \cup {me}
          /\ IsInjective(queue'[s])
          /\ queue' = [queue EXCEPT ![s] = queue'[s]]
        BY <1>1, <1>6, <2>0, AppendFacts DEF Enqueue, Inv, TypeOK, ThreadInOnePlace
    <2>2. /\ inP' = [inP EXCEPT ![me] = s]
          /\ cont' = [cont EXCEPT ![me] = "P"]
          /\ cpu' = "Sleep"
          /\ UNCHANGED value
        BY <1>6 DEF Enqueue
    <2> USE <1>1, <1>2, <1>3, <1>6, <2>1, <2>2
    <2>3. TypeOK'
        BY Zenon DEF Inv, TypeOK, ThreadStatus, Continuation, CpuState
    <2>4. ThreadInOnePlace'
        <3>1. /\ IsInjective(readyList')
              /\ \A r \in Semaphores : IsInjective(queue'[r])
            BY Zenon DEF Inv, TypeOK, ThreadInOnePlace
        <3>2. ASSUME NEW t \in Threads
              PROVE  /\ status'[t] = "READY" <=> t \in Range(readyList')
                     /\ status'[t] = "RUNNING" <=>
                            t = currentThread' /\ cpu' \in {"IntOn", "Switched"}
            BY DEF Inv, TypeOK, ThreadInOnePlace
        <3>3. ASSUME NEW t \in Threads, NEW r \in Semaphores
              PROVE  t \in Range(queue'[r]) <=> status'[t] = "BLOCKED" /\ inP'[t] = r
            <4>1. CASE t = me
                BY <4>1 DEF Inv, TypeOK, ThreadInOnePlace
            <4>2. CASE t # me
                <5>1. /\ status'[t] = st[t]
                      /\ inP'[t] = inP[t]
                      /\ inP[t] = r => st[t] = status[t]
                    BY <4>2 DEF Inv, TypeOK
                <5>2. t \in Range(queue'[r]) <=> t \in Range(queue[r])
                    BY <4>2, Zenon DEF Inv, TypeOK
                <5> QED
                    BY <5>1, <5>2 DEF Inv, ThreadInOnePlace
            <4> QED
                BY <4>1, <4>2
        <3> QED
            BY <3>1, <3>2, <3>3 DEF ThreadInOnePlace
    <2>5. ContinuationInv' /\ CarcassInv'
        BY DEF Inv, TypeOK, ThreadInOnePlace, ContinuationInv, CarcassInv
    <2> QED
        BY <2>3, <2>4, <2>5 DEF Inv
<1> QED
    BY <1>4, <1>5, <1>6

(* The remaining steps touch the interrupt machinery only, or are a V.     *)
LEMMA InterruptInv ==
    ASSUME Inv,
           \/ \E s \in Semaphores : V(s)
           \/ \E d \in Devices : Schedule(d) \/ OneTick(d) \/ Idle(d)
           \/ IdleReturn \/ Halt \/ UNCHANGED vars
    PROVE  Inv'
<1> USE KernelAssumption
<1>1. ASSUME NEW s \in Semaphores, V(s)
      PROVE  Inv'
    BY <1>1, SignalInv, Zenon DEF V, Inv, TypeOK
<1>2. ASSUME NEW d \in Devices, OneTick(d) \/ Idle(d)
      PROVE  Inv'
    <2>0. pending[d] > 0 /\ pending' = [pending EXCEPT ![d] = pending[d] - 1]
        BY <1>2 DEF OneTick, Idle, CheckIfDue
    <2>1. pending' \in [Devices -> Nat]
        BY <2>0 DEF Inv, TypeOK
    <2> QED
        BY <1>2, <2>1, SignalInv DEF OneTick, Idle, CheckIfDue
<1>3. ASSUME NEW d \in Devices, Schedule(d)
      PROVE  Inv'
    BY <1>3 DEF Schedule, threadVars, schedVars, semVars,
                Inv, TypeOK, ThreadInOnePlace, ContinuationInv, CarcassInv
<1>4. CASE IdleReturn \/ Halt
    <2>1. /\ UNCHANGED <<threadVars, schedVars, semVars, pending>>
          /\ cpu \in {"Sleep", "Idle"} /\ cpu' \in {"Sleep", "Halted"}
          /\ cpu' = "Halted" => readyList = <<>>
        BY <1>4 DEF IdleReturn, Halt
    <2>2. TypeOK' /\ ThreadInOnePlace'
        BY <2>1 DEF threadVars, schedVars, semVars, CpuState, Inv, TypeOK, ThreadInOnePlace
    <2>3. ContinuationInv' /\ CarcassInv'
        BY <2>1 DEF threadVars, schedVars, semVars, Inv, ContinuationInv, CarcassInv
    <2> QED
        BY <2>2, <2>3 DEF Inv
<1>5. CASE UNCHANGED vars
    BY <1>5 DEF vars, threadVars, schedVars, semVars,
                Inv, TypeOK, ThreadInOnePlace, ContinuationInv, CarcassInv
<1> QED
    BY <1>1, <1>2, <1>3, <1>4, <1>5

(* Every step of the kernel preserves the invariant.                       *)
LEMMA StepInv == Inv /\ [Next]_vars => Inv'
<1> SUFFICES ASSUME Inv, [Next]_vars PROVE Inv'
    OBVIOUS
<1> QED
    BY ForkInv, YieldInv, SleepInv, ReturnInv, PInv, InterruptInv
    DEF Next, ThreadCode, KernelStep, Halted

-----------------------------------------------------------------------------
(* The invariants of the runs, for every instance.                         *)

(* The inductive invariant holds in every reachable state.                 *)
THEOREM Invariant == Spec => []Inv
    BY InitInv, StepInv, PTL DEF Spec

(* Types, and a semaphore's value is never negative.                       *)
THEOREM TypeCorrect == Spec => []TypeOK
<1>1. Inv => TypeOK
    BY DEF Inv
<1> QED
    BY <1>1, Invariant, PTL

(* No thread is ever in two places.                                        *)
THEOREM OnePlace == Spec => []ThreadInOnePlace
<1>1. Inv => ThreadInOnePlace
    BY DEF Inv
<1> QED
    BY <1>1, Invariant, PTL

(* Nothing points to a deleted thread, and no thread deletes itself.       *)
THEOREM NoDangling == Spec => []NoDanglingThread
<1>1. Inv => NoDanglingThread
    BY KernelAssumption
    DEF Inv, TypeOK, ThreadInOnePlace, ContinuationInv, CarcassInv, CpuState, NoDanglingThread
<1> QED
    BY <1>1, Invariant, PTL

-----------------------------------------------------------------------------
(* No lost wakeup.                                                         *)

(* Woken(s) is finite, so counting it makes sense.                         *)
LEMMA WokenFinite ==
    ASSUME NEW s \in Semaphores
    PROVE  /\ IsFiniteSet(Woken(s))
           /\ Cardinality(Woken(s)) \in Nat
<1>1. Woken(s) \subseteq Threads
    BY DEF Woken
<1> QED
    BY <1>1, KernelAssumption, FS_Subset, FS_CardinalityType

(* A step that changes no semaphore and lets no thread inside a P fall     *)
(* asleep or wake up keeps the property.                                   *)
LEMMA SameWoken ==
    ASSUME Inv, NoLostWakeup, UNCHANGED <<value, queue, inP>>,
           \A t \in Threads : inP[t] # NULL =>
               (status'[t] \in {"READY", "RUNNING"} <=> status[t] \in {"READY", "RUNNING"})
    PROVE  NoLostWakeup'
<1>1. ASSUME NEW s \in Semaphores
      PROVE  Woken(s)' = Woken(s)
    BY KernelAssumption DEF Woken
<1> QED
    BY <1>1 DEF NoLostWakeup

(* The steps that are neither P nor V.                                     *)
LEMMA OtherStepsKeepWakeups ==
    ASSUME Inv, NoLostWakeup,
           \/ \E t \in Threads : NewThread(t) \/ Fork(t)
           \/ \E d \in Devices : Schedule(d)
           \/ Yield \/ Finish \/ SleepDispatch \/ ThreadRoot \/ ReturnFromYield
           \/ IdleReturn \/ Halt \/ UNCHANGED vars
    PROVE  NoLostWakeup'
<1>1. ASSUME NEW t \in Threads, NewThread(t) \/ Fork(t)
      PROVE  NoLostWakeup'
    BY <1>1, SameWoken
    DEF NewThread, Fork, ReadyToRun, semVars, Inv, TypeOK, ContinuationInv
<1>2. CASE Yield \/ Finish \/ SleepDispatch
    <2>1. readyList # <<>> => Head(readyList) \in Threads /\ status[Head(readyList)] = "READY"
        BY RemoveFacts DEF Inv, TypeOK, ThreadInOnePlace
    <2>2. /\ UNCHANGED <<value, queue, inP>>
          /\ currentThread \in Threads
          /\ cpu = "IntOn" => inP[currentThread] = NULL
        BY <1>2 DEF Yield, Finish, SleepDispatch, semVars, Inv, TypeOK, ContinuationInv
    <2>3. CASE Yield
        BY <2>1, <2>2, <2>3, SameWoken DEF Yield, Run, Inv, TypeOK
    <2>4. CASE Finish
        BY <2>2, <2>4, SameWoken DEF Finish, Inv, TypeOK
    <2>5. CASE SleepDispatch
        BY <2>1, <2>2, <2>5, SameWoken DEF SleepDispatch, Run, Inv, TypeOK
    <2> QED
        BY <1>2, <2>3, <2>4, <2>5
<1>3. CASE ThreadRoot \/ ReturnFromYield
    BY <1>3, ReapFacts, SameWoken, ZenonT(60)
    DEF ThreadRoot, ReturnFromYield, semVars, Inv, ContinuationInv
<1>4. ASSUME NEW d \in Devices, Schedule(d)
      PROVE  NoLostWakeup'
    BY <1>4, SameWoken, Zenon DEF Schedule, threadVars, semVars
<1>5. CASE IdleReturn \/ Halt \/ UNCHANGED vars
    BY <1>5, SameWoken, Zenon DEF IdleReturn, Halt, vars, threadVars, semVars
<1> QED
    BY <1>1, <1>2, <1>3, <1>4, <1>5

(* V: a unit and a woken thread appear together.                           *)
LEMMA SignalKeepsWakeups ==
    ASSUME Inv, NoLostWakeup, NEW s \in Semaphores, SignalSemaphore(s)
    PROVE  NoLostWakeup'
<1> USE DEF SignalSemaphore
<1>1. CASE queue[s] = <<>>
    BY <1>1 DEF NoLostWakeup, Woken, Inv, TypeOK
<1>2. CASE queue[s] # <<>>
    <2> DEFINE t == Head(queue[s])
    <2>1. /\ t \in Threads
          /\ status[t] = "BLOCKED"
          /\ inP[t] = s
        BY <1>2, RemoveFacts DEF Inv, TypeOK, ThreadInOnePlace
    <2>2. /\ queue' = [queue EXCEPT ![s] = Tail(queue[s])]
          /\ status' = [status EXCEPT ![t] = "READY"]
          /\ value' = [value EXCEPT ![s] = value[s] + 1]
          /\ UNCHANGED inP
        BY <1>2 DEF ReadyToRun
    <2>3. /\ Woken(s)' = Woken(s) \cup {t}
          /\ t \notin Woken(s)
          /\ \A r \in Semaphores \ {s} : Woken(r)' = Woken(r)
        BY <2>1, <2>2 DEF Woken, Inv, TypeOK
    <2>4. Cardinality(Woken(s)') = Cardinality(Woken(s)) + 1
        BY <2>3, WokenFinite, FS_AddElement, ZenonT(60)
    <2>5. value'[s] <= Cardinality(Woken(s)')
        BY <1>2, <2>2, <2>4, WokenFinite DEF NoLostWakeup, Inv, TypeOK
    <2>6. \A r \in Semaphores \ {s} : value'[r] = value[r] /\ queue'[r] = queue[r]
        BY <2>2 DEF Inv, TypeOK
    <2> QED
        BY <2>3, <2>5, <2>6, Zenon DEF NoLostWakeup
<1> QED
    BY <1>1, <1>2

(* P: a woken thread that takes a unit leaves with it; one that takes none *)
(* found the value 0.                                                      *)
LEMMA PKeepsWakeups ==
    ASSUME Inv, NoLostWakeup, NEW s \in Semaphores, P(s) \/ ReturnInP(s)
    PROVE  NoLostWakeup'
<1> DEFINE me == currentThread
<1>1. /\ me \in Threads
      /\ inP[me] \in {s, NULL}
      /\ status[me] = "RUNNING"
    BY DEF P, ReturnInP, Inv, TypeOK, ThreadInOnePlace, ContinuationInv
<1>2. \A t \in Threads \ {me} : inP[t] # NULL => status'[t] = status[t]
    BY ReapFacts, <1>1 DEF P, ReturnInP, Inv, TypeOK, ContinuationInv
<1>3. \E v \in {s, NULL} : inP' = [inP EXCEPT ![me] = v]
    BY DEF P, ReturnInP, TakeUnit, Enqueue
<1>4. \A r \in Semaphores \ {s} : Woken(r)' = Woken(r)
    BY <1>1, <1>2, <1>3, KernelAssumption DEF Woken, Inv, TypeOK
<1>5. \A r \in Semaphores \ {s} : value'[r] = value[r] /\ queue'[r] = queue[r]
    BY DEF P, ReturnInP, TakeUnit, Enqueue, Inv, TypeOK
<1>6. queue'[s] # <<>> => value'[s] <= Cardinality(Woken(s)')
    <2>1. CASE TakeUnit(s)
        <3>1. /\ value[s] > 0
              /\ value[s] \in Nat
              /\ value'[s] = value[s] - 1
              /\ queue' = queue
              /\ inP' = [inP EXCEPT ![me] = NULL]
            BY <2>1 DEF TakeUnit, Inv, TypeOK
        <3>2. Woken(s)' = Woken(s) \ {me}
            BY <1>1, <1>2, <3>1, KernelAssumption, Zenon DEF Woken, Inv, TypeOK
        <3>3. Cardinality(Woken(s)) - 1 <= Cardinality(Woken(s)')
            BY <3>2, WokenFinite, FS_RemoveElement
        <3>4. Cardinality(Woken(s)') \in Nat
            BY <3>2, WokenFinite, FS_Subset, FS_CardinalityType
        <3> QED
            BY <3>1, <3>3, <3>4, WokenFinite DEF NoLostWakeup
    <2>2. CASE Enqueue(s)
        <3>1. value'[s] = 0
            BY <2>2 DEF Enqueue, Inv, TypeOK
        <3>2. Woken(s)' \subseteq Threads
            BY DEF Woken
        <3>3. Cardinality(Woken(s)') \in Nat
            BY <3>2, KernelAssumption, FS_Subset, FS_CardinalityType
        <3> QED
            BY <3>1, <3>3
    <2> QED
        BY <2>1, <2>2, Zenon DEF P, ReturnInP
<1> QED
    BY <1>4, <1>5, <1>6 DEF NoLostWakeup

(* While threads sleep on a semaphore, every unit of it has a woken thread *)
(* on its way: no V is ever lost.                                          *)
THEOREM NoWakeupLost == Spec => []NoLostWakeup
<1>1. Init => NoLostWakeup
    BY DEF Init, NoLostWakeup
<1>2. Inv /\ NoLostWakeup /\ [Next]_vars => NoLostWakeup'
    <2> SUFFICES ASSUME Inv, NoLostWakeup, [Next]_vars PROVE NoLostWakeup'
        OBVIOUS
    <2>1. ASSUME NEW d \in Devices, OneTick(d) \/ Idle(d)
          PROVE  NoLostWakeup'
        BY <2>1, KernelAssumption, SignalKeepsWakeups DEF OneTick, Idle, CheckIfDue
    <2>2. ASSUME NEW s \in Semaphores, V(s)
          PROVE  NoLostWakeup'
        BY <2>2, SignalKeepsWakeups DEF V
    <2> QED
        BY <2>1, <2>2, OtherStepsKeepWakeups, PKeepsWakeups
        DEF Next, ThreadCode, KernelStep, Halted
<1> QED
    BY <1>1, <1>2, Invariant, PTL DEF Spec

(* The machine halts only when no thread could ever run again.             *)
THEOREM HaltsOnlyWhenStuck == Spec => []HaltOnlyWhenStuck
<1>1. Inv /\ NoLostWakeup => HaltOnlyWhenStuck
    <2> SUFFICES ASSUME Inv, NoLostWakeup, cpu = "Halted", NEW t \in Threads
                 PROVE  /\ status[t] \notin {"READY", "RUNNING"}
                        /\ inP[t] # NULL => value[inP[t]] = 0
        BY DEF HaltOnlyWhenStuck
    <2>1. \A u \in Threads : status[u] \notin {"READY", "RUNNING"}
        BY EmptyFacts DEF Inv, ThreadInOnePlace, CarcassInv
    <2>2. ASSUME inP[t] # NULL
          PROVE  value[inP[t]] = 0
        <3> DEFINE s == inP[t]
        <3>1. s \in Semaphores /\ t \in Range(queue[s])
            BY <2>1, <2>2 DEF Inv, TypeOK, ThreadInOnePlace, ContinuationInv
        <3>2. queue[s] # <<>>
            BY <3>1, EmptyFacts, Zenon
        <3>3. Woken(s) = {}
            BY <2>1 DEF Woken
        <3>4. value[s] \in Nat /\ value[s] <= 0
            BY <3>1, <3>2, <3>3, FS_EmptySet, Zenon DEF NoLostWakeup, Inv, TypeOK
        <3> QED
            BY <3>4
    <2> QED
        BY <2>1, <2>2
<1> QED
    BY <1>1, Invariant, NoWakeupLost, PTL

-----------------------------------------------------------------------------
(* The kernel's semaphores implement SemaphoreSpec.                        *)

(* Every step of the kernel is a step of the abstract semaphores or leaves *)
(* them alone; in particular a woken thread that goes back to sleep is     *)
(* invisible there.                                                        *)
THEOREM Refinement == Spec => ImplementsSemaphoreSafety
<1>1. Init => Abstract!Init
    BY DEF Init, Abstract!Init
<1>2. ASSUME NEW s \in Semaphores, SignalSemaphore(s)
      PROVE  Abstract!Signal(s)
    BY <1>2 DEF SignalSemaphore, Abstract!Signal
<1>3. ASSUME Inv, NEW s \in Semaphores, P(s) \/ ReturnInP(s)
      PROVE  \/ \E t \in Threads : \/ Abstract!Take(t, s)
                                    \/ Abstract!Wait(t, s)
                                    \/ Abstract!Proceed(t, s)
             \/ UNCHANGED <<value, inP>>
    <2>1. currentThread \in Threads
        BY <1>3 DEF Inv, TypeOK
    <2>2. CASE P(s)
        <3>1. inP[currentThread] = NULL
            BY <1>3, <2>1, <2>2 DEF P, Inv, ContinuationInv
        <3>2. CASE TakeUnit(s)
            <4>1. inP' = inP
                BY <1>3, <3>1, <3>2 DEF TakeUnit, Inv, TypeOK
            <4>2. Abstract!Take(currentThread, s)
                BY <3>1, <3>2, <4>1 DEF TakeUnit, Abstract!Take
            <4> QED
                BY <2>1, <4>2
        <3>3. CASE Enqueue(s)
            BY <2>1, <3>1, <3>3, Zenon DEF Enqueue, Abstract!Wait
        <3> QED
            BY <2>2, <3>2, <3>3 DEF P
    <2>3. CASE ReturnInP(s)
        <3>1. inP[currentThread] = s
            BY <2>3, Zenon DEF ReturnInP
        <3>2. CASE TakeUnit(s)
            BY <2>1, <3>1, <3>2, Zenon DEF TakeUnit, Abstract!Proceed
        <3>3. CASE Enqueue(s)
            <4>1. inP' = inP
                BY <1>3, <3>1, <3>3 DEF Enqueue, Inv, TypeOK
            <4> QED
                BY <3>3, <4>1 DEF Enqueue
        <3> QED
            BY <2>3, <3>2, <3>3, Zenon DEF ReturnInP
    <2> QED
        BY <1>3, <2>2, <2>3
<1>4. Inv /\ [Next]_vars => [Abstract!Next]_<<value, inP>>
    <2> SUFFICES ASSUME Inv, [Next]_vars
                 PROVE  Abstract!Next \/ UNCHANGED <<value, inP>>
        OBVIOUS
    <2>1. ASSUME NEW s \in Semaphores, P(s) \/ ReturnInP(s) \/ V(s)
          PROVE  Abstract!Next \/ UNCHANGED <<value, inP>>
        BY <1>2, <1>3, <2>1 DEF V, Abstract!Next
    <2>2. ASSUME NEW d \in Devices, OneTick(d) \/ Idle(d)
          PROVE  Abstract!Next
        BY <1>2, <2>2, KernelAssumption DEF OneTick, Idle, CheckIfDue, Abstract!Next
    <2>3. ASSUME NEW t \in Threads, NewThread(t) \/ Fork(t)
          PROVE  UNCHANGED <<value, inP>>
        BY <2>3 DEF NewThread, Fork, semVars
    <2>4. ASSUME \/ \E d \in Devices : Schedule(d)
                 \/ Yield \/ Finish \/ SleepDispatch \/ ThreadRoot \/ ReturnFromYield
                 \/ IdleReturn \/ Halt \/ UNCHANGED vars
          PROVE  UNCHANGED <<value, inP>>
        BY <2>4 DEF Schedule, Yield, Finish, SleepDispatch, ThreadRoot, ReturnFromYield,
                    IdleReturn, Halt, vars, threadVars, semVars
    <2> QED
        BY <2>1, <2>2, <2>3, <2>4 DEF Next, ThreadCode, KernelStep, Halted
<1> QED
    BY <1>1, <1>4, Invariant, PTL DEF Spec, ImplementsSemaphoreSafety, Abstract!Spec

-----------------------------------------------------------------------------
(* Water, for any number of atoms: whatever the interleaving of the        *)
(* statements of H and O, no atom is lost from the counters, none is       *)
(* counted twice, and no molecule that could be made is missed.            *)
(*                                                                         *)
(* The inductive invariant says who holds the semaphores, and what the     *)
(* counters owe while the atom that holds all three is half way through    *)
(* its update.                                                             *)

(* Where an atom has taken a unit of a semaphore and not given it back.    *)
Holding == {"test", "takeH", "takeO", "make", "add", "semH.V"}
HeldH == Holding \cup {"semO.P", "semA.P"}
HeldO == Holding \cup {"semA.P", "semO.V"}
HeldA == Holding \cup {"semO.V", "semA.V"}

AtMostOne(s, held) ==
    \A a \in Atoms :
        at[a] \in held =>
            /\ sem[s] = 0
            /\ \A b \in Atoms : at[b] \in held => b = a

Exclusive == AtMostOne("H", HeldH) /\ AtMostOne("O", HeldO) /\ AtMostOne("A", HeldA)

(* The atoms that water() has not forked yet are not counted.              *)
Forked == \A a \in Atoms : IF a < num THEN kind[a] \in {"H", "O"} ELSE at[a] = "new"

(* The counters account for all but h atoms of hydrogen and o of oxygen,   *)
(* which are in the molecule being made.                                   *)
Balanced(h, o) ==
    /\ Cardinality(Counted("H")) = HatomCount + h + 2 * H2OmoleculeCount
    /\ Cardinality(Counted("O")) = OatomCount + o + H2OmoleculeCount

NothingLeft == ~(HatomCount > 1 /\ OatomCount > 0)

HalfWay(a) ==
    /\ at[a] \in {"test", "takeH", "add"} => Balanced(0, 0) /\ NothingLeft
    /\ at[a] = "takeH" => CanMakeWater(a)
    /\ at[a] = "add" => ~CanMakeWater(a)
    /\ at[a] = "takeO" =>
           kind[a] = "H" /\ Balanced(1, 0) /\ HatomCount = 0 /\ OatomCount > 0
    /\ at[a] = "make" =>
           IF kind[a] = "H" THEN Balanced(1, 1) /\ HatomCount = 0
                            ELSE Balanced(2, 0) /\ OatomCount = 0

WInv ==
    /\ WaterTypeOK
    /\ Exclusive
    /\ Forked
    /\ \A a \in Atoms : HalfWay(a)
    /\ (\A a \in Atoms : ~InBody(a)) => Balanced(0, 0) /\ NothingLeft

-----------------------------------------------------------------------------
(* The sets of counted atoms are finite.                                   *)
LEMMA CountedFinite ==
    ASSUME NumAtoms \in Nat, NEW k PROVE IsFiniteSet(Counted(k)) /\ Cardinality(Counted(k)) \in Nat
<1>1. IsFiniteSet(Atoms)
    BY FS_Interval DEF Atoms
<1>2. Counted(k) \subseteq Atoms
    BY DEF Counted
<1> QED
    BY <1>1, <1>2, FS_Subset, FS_CardinalityType

(* An atom that leaves the body is counted, once, as what it is.           *)
LEMMA CountedGrows ==
    ASSUME NumAtoms \in Nat, NEW a \in Atoms, WaterTypeOK, at[a] \in {"make", "add"}, kind[a] \in {"H", "O"},
           at' = [at EXCEPT ![a] = "semH.V"], kind' = kind, NEW k \in {"H", "O"}
    PROVE  Cardinality(Counted(k)') =
               Cardinality(Counted(k)) + (IF kind[a] = k THEN 1 ELSE 0)
<1>1. CASE kind[a] = k
    <2>1. Counted(k)' = Counted(k) \cup {a}
        BY <1>1 DEF Counted, WaterTypeOK
    <2>2. a \notin Counted(k)
        BY DEF Counted
    <2> QED
        BY <1>1, <2>1, <2>2, CountedFinite, FS_AddElement
<1>2. CASE kind[a] # k
    <2>1. Counted(k)' = Counted(k)
        BY <1>2 DEF Counted, WaterTypeOK
    <2> QED
        BY <1>2, <2>1, CountedFinite
<1> QED
    BY <1>1, <1>2

(* Other steps of an atom count nobody.                                    *)
LEMMA CountedSame ==
    ASSUME NEW a \in Atoms, WaterTypeOK, NEW label,
           at' = [at EXCEPT ![a] = label], kind' = kind, NEW k,
           at[a] \in {"semH.V", "semO.V", "semA.V", "done"}
               <=> label \in {"semH.V", "semO.V", "semA.V", "done"}
    PROVE  Counted(k)' = Counted(k)
BY DEF Counted, WaterTypeOK

-----------------------------------------------------------------------------
(* Before the first atom is forked all semaphores are free, all counters 0.*)
LEMMA WaterInitInv == ASSUME NumAtoms \in Nat, WaterInit PROVE WInv
<1>1. WaterTypeOK /\ Exclusive /\ Forked /\ \A a \in Atoms : HalfWay(a)
    BY DEF WaterInit, WaterTypeOK, Statements, Exclusive, AtMostOne, Holding, HeldH, HeldO, HeldA,
        Forked, HalfWay, Atoms
<1>2. \A k : Counted(k) = {}
    BY DEF WaterInit, Counted
<1>3. Balanced(0, 0) /\ NothingLeft
    BY <1>2, FS_EmptySet DEF WaterInit, Balanced, NothingLeft
<1> QED
    BY <1>1, <1>3 DEF WInv

(* The atom that is about to be forked is a new one.                       *)
LEMMA WaterForkInv == ASSUME NumAtoms \in Nat, WInv, ForkAtom PROVE WInv'
<1>1. num \in Atoms /\ at[num] = "new"
    BY DEF WInv, WaterTypeOK, Forked, ForkAtom, Atoms
<1>2. PICK k \in {"H", "O"} : kind' = [kind EXCEPT ![num] = k]
    BY Zenon DEF ForkAtom
<1>3. WaterTypeOK' /\ Forked'
    BY <1>1, <1>2 DEF WInv, WaterTypeOK, Statements, Forked, ForkAtom, counters, Atoms
<1>4. Exclusive'
    BY <1>1 DEF WInv, WaterTypeOK, Exclusive, AtMostOne, Holding, HeldH, HeldO, HeldA, ForkAtom
<1>5. \A j : Counted(j)' = Counted(j)
    BY <1>1, <1>2 DEF WInv, WaterTypeOK, Counted, ForkAtom
<1>6. \A h, o : Balanced(h, o)' <=> Balanced(h, o)
    BY <1>5 DEF Balanced, ForkAtom, counters
<1>7. NothingLeft' <=> NothingLeft
    BY DEF NothingLeft, ForkAtom, counters
<1>8. \A a \in Atoms : HalfWay(a)'
    BY <1>1, <1>2, <1>6, <1>7 DEF WInv, WaterTypeOK, HalfWay, CanMakeWater, ForkAtom, counters
<1>9. (\A a \in Atoms : ~InBody(a))' => \A a \in Atoms : ~InBody(a)
    BY <1>1 DEF WInv, WaterTypeOK, InBody, ForkAtom
<1> QED
    BY <1>3, <1>4, <1>6, <1>7, <1>8, <1>9 DEF WInv

(* Who is in the body holds all three semaphores, so that nobody else is.  *)
LEMMA Alone ==
    ASSUME WInv, NEW a \in Atoms, NEW b \in Atoms, InBody(a), InBody(b) PROVE a = b
BY DEF WInv, Exclusive, AtMostOne, Holding, HeldH, HeldO, HeldA, InBody

(* Every step of an atom keeps the semaphores, the types and Forked.       *)
LEMMA StepKeepsSemaphores ==
    ASSUME NumAtoms \in Nat, WInv, NEW a \in Atoms, Acquire(a) \/ React(a) \/ Release(a)
    PROVE  Exclusive' /\ Forked' /\ kind[a] \in {"H", "O"}
<1> USE DEF WInv, WaterTypeOK
<1>1. at[a] # "new" /\ kind[a] \in {"H", "O"} /\ kind' = kind /\ num' = num
    BY DEF Forked, Atoms, Acquire, React, Release, AtomP, AtomV, TestWater, TakeH, TakeO,
           Make, Add, loops, AtomGoto
<1>2. Forked'
    BY <1>1
    DEF Forked, Atoms, Acquire, React, Release, AtomP, AtomV, TestWater, TakeH, TakeO,
        Make, Add, AtomGoto
<1>3. ASSUME Acquire(a) PROVE Exclusive'
    <2> USE DEF Exclusive, AtMostOne, Holding, HeldH, HeldO, HeldA, AtomP, AtomGoto
    <2>1. CASE AtomP(a, "H", "semH.P", "semO.P")
        BY <2>1
    <2>2. CASE AtomP(a, "O", "semO.P", "semA.P")
        BY <2>2
    <2>3. CASE AtomP(a, "A", "semA.P", "test")
        BY <2>3
    <2> HIDE DEF Exclusive, AtomP
    <2> QED
        BY <1>3, <2>1, <2>2, <2>3, Zenon DEF Acquire
<1>4. ASSUME React(a) PROVE Exclusive'
    <2>1. PICK label \in Holding :
              at' = [at EXCEPT ![a] = label] /\ sem' = sem /\ at[a] \in Holding
        BY <1>4, Zenon DEF Holding, React, TestWater, TakeH, TakeO, Make, Add, AtomGoto
    <2>2. Holding \subseteq HeldH /\ Holding \subseteq HeldO /\ Holding \subseteq HeldA
        BY Zenon DEF HeldH, HeldO, HeldA
    <2>3. ASSUME NEW s, NEW held, Holding \subseteq held, AtMostOne(s, held) PROVE AtMostOne(s, held)'
        BY <2>1, <2>3, Zenon DEF AtMostOne
    <2> QED
        BY <2>2, <2>3, Zenon DEF Exclusive
<1>5. ASSUME Release(a) PROVE Exclusive'
    <2> USE DEF Exclusive, AtMostOne, Holding, HeldH, HeldO, HeldA, AtomV, AtomGoto
    <2>1. CASE AtomV(a, "H", "semH.V", "semO.V")
        BY <2>1
    <2>2. CASE AtomV(a, "O", "semO.V", "semA.V")
        BY <2>2
    <2>3. CASE AtomV(a, "A", "semA.V", "done")
        BY <2>3
    <2> HIDE DEF Exclusive, AtomV
    <2> QED
        BY <1>5, <2>1, <2>2, <2>3, Zenon DEF Release
<1> QED
    BY <1>1, <1>2, <1>3, <1>4, <1>5

(* Taking and giving back a semaphore changes no counter; the last P finds *)
(* nobody in the body, the first V leaves nobody there.                    *)
LEMMA SemaphoreInv ==
    ASSUME NumAtoms \in Nat, WInv, NEW a \in Atoms, Acquire(a) \/ Release(a) PROVE WInv'
<1>1. Exclusive' /\ Forked'
    BY StepKeepsSemaphores
<1>2. WaterTypeOK'
    <2>1. PICK s \in {"H", "O", "A"}, label \in Statements :
              /\ at' = [at EXCEPT ![a] = label]
              /\ \/ sem[s] > 0 /\ sem' = [sem EXCEPT ![s] = sem[s] - 1]
                 \/ sem[s] = 0 /\ sem' = [sem EXCEPT ![s] = sem[s] + 1]
        <3>1. CASE Acquire(a)
            BY <3>1, Zenon DEF Acquire, AtomP, AtomGoto, Statements
        <3>2. CASE Release(a)
            BY <3>2, Zenon DEF Release, AtomV, AtomGoto, Statements, WInv, Exclusive, AtMostOne,
                               Holding, HeldH, HeldO, HeldA
        <3> QED
            BY <3>1, <3>2
    <2>2. sem \in [{"H", "O", "A"} -> 0..1] /\ at \in [Atoms -> Statements]
        BY Zenon DEF WInv, WaterTypeOK
    <2>3. sem' \in [{"H", "O", "A"} -> 0..1] /\ at' \in [Atoms -> Statements]
        BY <2>1, <2>2
    <2>4. UNCHANGED <<kind, HatomCount, OatomCount, H2OmoleculeCount, num, waits>>
        BY Zenon DEF Acquire, Release, AtomP, AtomV, counters, loops
    <2> QED
        BY <2>3, <2>4, Zenon DEF WInv, WaterTypeOK
<1>3. counters' = counters /\ kind' = kind
    BY DEF Acquire, Release, AtomP, AtomV, AtomGoto
<1>4. PICK label \in {"semO.P", "semA.P", "test", "semO.V", "semA.V", "done"} :
          /\ at' = [at EXCEPT ![a] = label]
          /\ at[a] \in {"semH.V", "semO.V", "semA.V"} <=> label \in {"semO.V", "semA.V", "done"}
          /\ label = "test" <=> at[a] = "semA.P"
          /\ at[a] \in {"semH.P", "semO.P", "semA.P", "semH.V", "semO.V", "semA.V"}
    BY DEF Acquire, Release, AtomP, AtomV, AtomGoto
<1>5. \A k : Counted(k)' = Counted(k)
    BY <1>3, <1>4, CountedSame, Zenon DEF WInv
<1>6. /\ \A h, o : Balanced(h, o)' <=> Balanced(h, o)
      /\ NothingLeft' <=> NothingLeft
    BY <1>3, <1>5 DEF Balanced, NothingLeft, counters
<1>7. at[a] = "semA.P" => \A b \in Atoms : ~InBody(b)
    <2>1. at[a] = "semA.P" => sem["A"] > 0
        BY DEF Acquire, Release, AtomP, AtomV, AtomGoto
    <2> QED
        BY <2>1 DEF WInv, Exclusive, AtMostOne, Holding, HeldH, HeldO, HeldA, InBody
<1>8. \A b \in Atoms : HalfWay(b)'
    <2> TAKE b \in Atoms
    <2>1. CASE b = a
        BY <1>4, <1>6, <1>7, <2>1 DEF WInv, WaterTypeOK, HalfWay
    <2>2. CASE b # a
        BY <1>3, <1>4, <1>6, <2>2 DEF WInv, WaterTypeOK, HalfWay, CanMakeWater, counters
    <2> QED
        BY <2>1, <2>2
<1>9. (\A b \in Atoms : ~InBody(b))' => \A b \in Atoms : ~InBody(b)
    BY <1>4 DEF WInv, WaterTypeOK, InBody
<1> QED
    BY <1>1, <1>2, <1>6, <1>8, <1>9 DEF WInv

(* The statements of the body, by the one atom that is there.              *)
LEMMA BodyInv ==
    ASSUME NumAtoms \in Nat, WInv, NEW a \in Atoms, React(a) PROVE WInv'
<1>1. Exclusive' /\ Forked' /\ kind[a] \in {"H", "O"}
    BY StepKeepsSemaphores
<1>2. InBody(a) /\ kind' = kind /\ sem' = sem /\ num' = num /\ waits' = waits
    BY Zenon DEF InBody, React, TestWater, TakeH, TakeO, Make, Add, loops, AtomGoto
<1>3. \A b \in Atoms \ {a} : ~InBody(b) /\ ~InBody(b)'
    BY <1>2, Alone DEF WInv, WaterTypeOK, InBody, React, TestWater, TakeH, TakeO, Make, Add, AtomGoto
<1>4. \A b \in Atoms \ {a} : HalfWay(b)'
    BY <1>3, Zenon DEF HalfWay, InBody
<1>5. /\ Cardinality(Counted("H")) \in Nat
      /\ Cardinality(Counted("O")) \in Nat
    BY CountedFinite
<1>6. ASSUME at'[a] \in {"takeH", "takeO", "make", "add"}, WaterTypeOK', HalfWay(a)'
      PROVE  WInv'
    <2>1. InBody(a)'
        BY <1>6 DEF InBody
    <2> QED
        BY <1>1, <1>4, <1>6, <2>1, Zenon DEF WInv
<1>7. CASE TestWater(a)
    <2>1. PICK label \in {"takeH", "add"} :
              /\ at' = [at EXCEPT ![a] = label]
              /\ label = "takeH" <=> CanMakeWater(a)
        BY <1>7, Zenon DEF TestWater, AtomGoto
    <2>2. \A k : Counted(k)' = Counted(k)
        BY <1>2, <1>7, <2>1, CountedSame, Zenon DEF WInv, TestWater, AtomGoto
    <2>3. (Balanced(0, 0) /\ NothingLeft)'
        BY <1>7, <2>2, Zenon DEF WInv, HalfWay, TestWater, Balanced, NothingLeft, counters, AtomGoto
    <2>4. CanMakeWater(a)' <=> CanMakeWater(a)
        BY <1>7 DEF TestWater, CanMakeWater, counters, AtomGoto
    <2>5. WaterTypeOK' /\ at'[a] = label
        BY <1>7, <2>1 DEF WInv, WaterTypeOK, Statements, TestWater, counters, loops, AtomGoto
    <2>6. HalfWay(a)'
        BY <2>1, <2>3, <2>4, <2>5 DEF HalfWay
    <2> QED
        BY <1>6, <2>5, <2>6
<1>8. CASE TakeH(a)
    <2>1. PICK label \in {"takeO", "make"} :
              /\ at' = [at EXCEPT ![a] = label]
              /\ label = IF kind[a] = "H" THEN "takeO" ELSE "make"
        BY <1>8, Zenon DEF TakeH, AtomGoto
    <2>2. \A k : Counted(k)' = Counted(k)
        BY <1>2, <1>8, <2>1, CountedSame, Zenon DEF WInv, TakeH, AtomGoto
    <2>3. CanMakeWater(a) /\ Balanced(0, 0) /\ NothingLeft
        BY <1>8 DEF WInv, HalfWay, TakeH, AtomGoto
    <2>4. WaterTypeOK' /\ at'[a] = IF kind[a] = "H" THEN "takeO" ELSE "make"
        BY <1>1, <1>8, <2>1, <2>3 DEF WInv, WaterTypeOK, Statements, TakeH, CanMakeWater, loops, AtomGoto
    <2>5. HalfWay(a)'
        <3>1. /\ kind' = kind /\ OatomCount' = OatomCount /\ H2OmoleculeCount' = H2OmoleculeCount
              /\ HatomCount' = HatomCount - (IF kind[a] = "H" THEN 1 ELSE 2)
            BY <1>8, Zenon DEF TakeH
        <3>2. HatomCount \in Nat /\ OatomCount \in Nat /\ H2OmoleculeCount \in Nat
            BY Zenon DEF WInv, WaterTypeOK
        <3>3. CASE kind[a] = "H"
            <4>1. HatomCount = 1 /\ OatomCount > 0
                BY <2>3, <3>2, <3>3 DEF CanMakeWater, NothingLeft
            <4>2. HatomCount' = 0 /\ OatomCount' > 0
                BY <3>1, <3>3, <4>1
            <4>3. Balanced(1, 0)'
                BY <2>2, <2>3, <3>1, <3>2, <4>1, <4>2 DEF Balanced
            <4> QED
                BY <2>4, <3>1, <3>3, <4>2, <4>3, Zenon DEF HalfWay
        <3>4. CASE kind[a] = "O"
            <4>1. HatomCount > 1 /\ OatomCount = 0
                BY <2>3, <3>2, <3>4 DEF CanMakeWater, NothingLeft
            <4>2. HatomCount' = HatomCount - 2 /\ OatomCount' = 0
                BY <3>1, <3>4, <4>1, Zenon
            <4>3. Balanced(2, 0)'
                BY <2>2, <2>3, <3>1, <3>2, <4>1, <4>2 DEF Balanced
            <4> QED
                BY <2>4, <3>1, <3>4, <4>2, <4>3, Zenon DEF HalfWay
        <3> QED
            BY <1>1, <3>3, <3>4, Zenon
    <2> QED
        BY <1>6, <2>4, <2>5
<1>9. CASE TakeO(a)
    <2>1. at' = [at EXCEPT ![a] = "make"]
        BY <1>9 DEF TakeO, AtomGoto
    <2>2. \A k : Counted(k)' = Counted(k)
        <3>1. WaterTypeOK /\ at[a] = "takeO"
            BY <1>9, Zenon DEF WInv, TakeO
        <3>2. at[a] \in {"semH.V", "semO.V", "semA.V", "done"}
                  <=> "make" \in {"semH.V", "semO.V", "semA.V", "done"}
            BY <3>1
        <3> QED
            BY <1>2, <2>1, <3>1, <3>2, CountedSame, Zenon
    <2>3. kind[a] = "H" /\ Balanced(1, 0) /\ HatomCount = 0 /\ OatomCount > 0
        BY <1>9 DEF WInv, HalfWay, TakeO, AtomGoto
    <2>4. WaterTypeOK' /\ at'[a] = "make"
        BY <1>9, <2>1, <2>3 DEF WInv, WaterTypeOK, Statements, TakeO, loops, AtomGoto
    <2>5. HalfWay(a)'
        <3>1. /\ kind' = kind /\ HatomCount' = HatomCount /\ H2OmoleculeCount' = H2OmoleculeCount
              /\ OatomCount' = OatomCount - 1
            BY <1>9, Zenon DEF TakeO
        <3>2. HatomCount \in Nat /\ OatomCount \in Nat /\ H2OmoleculeCount \in Nat
            BY Zenon DEF WInv, WaterTypeOK
        <3>3. Balanced(1, 1)'
            BY <2>2, <2>3, <3>1, <3>2 DEF Balanced
        <3> QED
            BY <2>3, <2>4, <3>1, <3>3, Zenon DEF HalfWay
    <2> QED
        BY <1>6, <2>4, <2>5
<1>10. ASSUME at' = [at EXCEPT ![a] = "semH.V"], WaterTypeOK', (Balanced(0, 0) /\ NothingLeft)'
       PROVE  WInv'
    <2>1. HalfWay(a)'
        BY <1>10, Zenon DEF WInv, WaterTypeOK, HalfWay
    <2> QED
        BY <1>1, <1>4, <1>10, <2>1 DEF WInv
<1>11. CASE Make(a)
    <2>1. at' = [at EXCEPT ![a] = "semH.V"] /\ at[a] = "make"
        BY <1>11 DEF Make, AtomGoto
    <2>2. /\ Cardinality(Counted("H")') =
                 Cardinality(Counted("H")) + (IF kind[a] = "H" THEN 1 ELSE 0)
          /\ Cardinality(Counted("O")') =
                 Cardinality(Counted("O")) + (IF kind[a] = "O" THEN 1 ELSE 0)
        BY <1>1, <1>2, <2>1, CountedGrows, Zenon DEF WInv
    <2>3. WaterTypeOK'
        BY <1>11, <2>1 DEF WInv, WaterTypeOK, Statements, Make, loops, AtomGoto
    <2>4. IF kind[a] = "H" THEN Balanced(1, 1) /\ HatomCount = 0
                           ELSE Balanced(2, 0) /\ OatomCount = 0
        BY <2>1, Zenon DEF WInv, HalfWay
    <2>5. (Balanced(0, 0) /\ NothingLeft)'
        BY <1>1, <1>5, <1>11, <2>2, <2>4 DEF WInv, WaterTypeOK, Make, Balanced, NothingLeft, AtomGoto
    <2> QED
        BY <1>10, <2>1, <2>3, <2>5
<1>12. CASE Add(a)
    <2>1. at' = [at EXCEPT ![a] = "semH.V"] /\ at[a] = "add"
        BY <1>12 DEF Add, AtomGoto
    <2>2. /\ Cardinality(Counted("H")') =
                 Cardinality(Counted("H")) + (IF kind[a] = "H" THEN 1 ELSE 0)
          /\ Cardinality(Counted("O")') =
                 Cardinality(Counted("O")) + (IF kind[a] = "O" THEN 1 ELSE 0)
        BY <1>1, <1>2, <2>1, CountedGrows, Zenon DEF WInv
    <2>3. WaterTypeOK'
        BY <1>12, <2>1 DEF WInv, WaterTypeOK, Statements, Add, loops, AtomGoto
    <2>4. ~CanMakeWater(a) /\ Balanced(0, 0) /\ NothingLeft
        BY <2>1, Zenon DEF WInv, HalfWay
    <2>5. (Balanced(0, 0) /\ NothingLeft)'
        BY <1>1, <1>5, <1>12, <2>2, <2>4
        DEF WInv, WaterTypeOK, Add, CanMakeWater, Balanced, NothingLeft, AtomGoto
    <2> QED
        BY <1>10, <2>1, <2>3, <2>5
<1> QED
    BY <1>7, <1>8, <1>9, <1>11, <1>12 DEF React

(* wait() and stuttering touch nothing that the invariant is about.        *)
LEMMA OtherInv == ASSUME NumAtoms \in Nat, WInv, Wait \/ UNCHANGED waterVars PROVE WInv'
<1>1. kind' = kind /\ at' = at /\ sem' = sem /\ counters' = counters /\ num' = num
    BY DEF Wait, waterVars, counters
<1>2. WaterTypeOK' /\ Exclusive' /\ Forked'
    BY <1>1
    DEF WInv, WaterTypeOK, Exclusive, AtMostOne, Forked, Wait, waterVars, counters
<1>3. \A k : Counted(k)' = Counted(k)
    BY <1>1 DEF Counted
<1>4. /\ \A h, o : Balanced(h, o)' <=> Balanced(h, o)
      /\ NothingLeft' <=> NothingLeft
    BY <1>1, <1>3 DEF Balanced, NothingLeft, counters
<1>5. \A a \in Atoms : HalfWay(a)' /\ (InBody(a)' <=> InBody(a))
    BY <1>1, <1>4, Zenon DEF WInv, HalfWay, InBody, CanMakeWater, counters
<1> QED
    BY <1>2, <1>4, <1>5 DEF WInv

-----------------------------------------------------------------------------
(* The semaphores, the counters and the half-made molecule agree in every  *)
(* state that H, O and water() reach.                                      *)
THEOREM WaterInvariant == WaterSpec => []WInv
<1>1. WaterInit => WInv
    BY WaterAssumption, WaterInitInv, Zenon
<1>2. WInv /\ [WaterNext]_waterVars => WInv'
    <2> SUFFICES ASSUME WInv, [WaterNext]_waterVars PROVE WInv'
        OBVIOUS
    <2>1. CASE ForkAtom
        BY <2>1, WaterAssumption, WaterForkInv, Zenon
    <2>2. CASE Wait \/ UNCHANGED waterVars
        BY <2>2, WaterAssumption, OtherInv, Zenon
    <2>3. ASSUME NEW a \in Atoms, Acquire(a) \/ Release(a) PROVE WInv'
        BY <2>3, WaterAssumption, SemaphoreInv, Zenon
    <2>4. ASSUME NEW a \in Atoms, React(a) PROVE WInv'
        BY <2>4, WaterAssumption, BodyInv, Zenon
    <2> QED
        BY <2>1, <2>2, <2>3, <2>4, Zenon DEF WaterNext
<1> QED
    BY <1>1, <1>2, PTL DEF WaterSpec

(* Type correctness; the unsigned counters are never decremented at zero.  *)
THEOREM WaterTypes == WaterSpec => []WaterTypeOK
<1>1. WInv => WaterTypeOK
    BY DEF WInv
<1> QED
    BY <1>1, WaterInvariant, PTL

(* Between two updates every atom that went through H or O is counted or   *)
(* part of a molecule, and no two H and an O are left over.                *)
THEOREM WaterAccounts == WaterSpec => []AtomsAccounted
<1>1. WInv => AtomsAccounted
    <2> SUFFICES ASSUME WInv, \A a \in Atoms : ~InBody(a)
                 PROVE  MatterConserved /\ NoMoleculeMissed
        BY Zenon DEF AtomsAccounted, MatterConserved, NoMoleculeMissed
    <2>1. Balanced(0, 0) /\ NothingLeft
        BY Zenon DEF WInv
    <2>2. HatomCount \in Nat /\ OatomCount \in Nat /\ H2OmoleculeCount \in Nat
        BY Zenon DEF WInv, WaterTypeOK
    <2>3. MatterConserved
        <3>1. /\ HatomCount + 0 + 2 * H2OmoleculeCount = HatomCount + 2 * H2OmoleculeCount
              /\ OatomCount + 0 + H2OmoleculeCount = OatomCount + H2OmoleculeCount
            BY <2>2
        <3> QED
            BY <2>1, <3>1, Zenon DEF Balanced, MatterConserved
    <2>4. NoMoleculeMissed
        BY <2>1, Zenon DEF NothingLeft, NoMoleculeMissed
    <2> QED
        BY <2>3, <2>4, Zenon
<1> QED
    BY <1>1, WaterInvariant, PTL

-----------------------------------------------------------------------------
(* DinningPh, for any number of philosophers, after the lemmas about       *)
(* Monitor's lock that they rest on.                                       *)

-----------------------------------------------------------------------------
(* The lock: mutual exclusion is kept by every step of Monitor and of its  *)
(* clients.                                                                *)

(* Lock::Lock and Condition::Condition establish it.                       *)
LEMMA LockInvInit ==
    ASSUME NEW start \in Outside, MonitorInit(start), None \notin Conditions
    PROVE  LockInv
<1> USE MonitorAssumption DEF MonitorInit
<1>1. MonitorTypeOK
    BY DEF MonitorTypeOK, Labels
<1>2. ControlInv
    BY DEF ControlInv, MonitorLabels
<1>3. \A t \in Callers : ~HasMutex(t) /\ pc[t] \notin {"Release", "Wait"} \cup Inside
    BY DEF HasMutex, MonitorLabels
<1> QED
    BY <1>1, <1>2, <1>3 DEF LockInv, LockProtects

(* Condition::Signal changes the queue and the waiters' semaphores only.   *)
LEMMA SignalType ==
    ASSUME MonitorTypeOK, NEW c \in Conditions, Signal(c)
    PROVE  /\ waitQueue' \in [Conditions -> Seq(Callers)]
           /\ waiter' \in [Callers -> Nat]
<1>1. CASE waitQueue[c] = <<>>
    BY <1>1 DEF Signal, MonitorTypeOK
<1>2. CASE waitQueue[c] # <<>>
    <2>1. /\ Head(waitQueue[c]) \in Callers
          /\ Tail(waitQueue[c]) \in Seq(Callers)
        BY <1>2 DEF MonitorTypeOK
    <2>2. /\ waitQueue' = [waitQueue EXCEPT ![c] = Tail(waitQueue[c])]
          /\ waiter' = [waiter EXCEPT ![Head(waitQueue[c])] = waiter[Head(waitQueue[c])] + 1]
        BY <1>2 DEF Signal
    <2> QED
        BY <2>1, <2>2 DEF MonitorTypeOK
<1> QED
    BY <1>1, <1>2

(* A client's step inside the monitor, which may end by calling Release or *)
(* Wait, and its call of Acquire from outside.                             *)
LEMMA ClientStep ==
    ASSUME LockInv, NEW t \in Callers,
           UNCHANGED <<mutex, lockHolder>>,
           waitQueue' \in [Conditions -> Seq(Callers)],
           waiter' \in [Callers -> Nat],
           None \notin Conditions,
           \/ /\ pc[t] \in Inside
              /\ \E next \in Inside : Goto(t, next)
              /\ UNCHANGED <<ret, inWait>>
           \/ /\ pc[t] \in Inside
              /\ \E next \in Outside : Call(t, "Release", next)
              /\ UNCHANGED inWait
           \/ /\ pc[t] \in Inside
              /\ \E next \in Inside, c \in Conditions : CallWait(t, c, next)
           \/ /\ pc[t] \in Outside
              /\ \E next \in Inside : Call(t, "Acquire", next)
              /\ UNCHANGED inWait
    PROVE  LockInv'
<1> USE MonitorAssumption DEF Goto, Call, CallWait, MonitorLabels
<1>1. PICK next \in Labels, r \in Inside \cup Outside, w \in Conditions \cup {None} :
         /\ pc' = [pc EXCEPT ![t] = next]
         /\ ret' = [ret EXCEPT ![t] = r]
         /\ inWait' = [inWait EXCEPT ![t] = w]
         /\ \/ pc[t] \in Inside /\ next \in Inside /\ w = None
            \/ pc[t] \in Inside /\ next = "Release" /\ r \in Outside /\ w = None
            \/ pc[t] \in Inside /\ next = "Wait" /\ r \in Inside /\ w \in Conditions
            \/ pc[t] \in Outside /\ next = "Acquire" /\ r \in Inside /\ w = None
    <2>1. /\ ret = [ret EXCEPT ![t] = ret[t]]
          /\ inWait = [inWait EXCEPT ![t] = inWait[t]]
          /\ ret[t] \in Inside \cup Outside
          /\ pc[t] \in Inside \cup Outside
          /\ inWait[t] = None
        BY Zenon DEF LockInv, MonitorTypeOK, ControlInv
    <2> QED
        BY <2>1, Zenon DEF Labels
<1>2. MonitorTypeOK'
    BY <1>1, Zenon DEF LockInv, MonitorTypeOK
<1>3. ControlInv'
    <2>1. pc'[t] = next /\ ret'[t] = r /\ inWait'[t] = w
        BY <1>1, Zenon DEF LockInv, MonitorTypeOK
    <2>2. \A u \in Callers : u # t =>
             pc'[u] = pc[u] /\ ret'[u] = ret[u] /\ inWait'[u] = inWait[u]
        BY <1>1, Zenon DEF LockInv, MonitorTypeOK
    <2> QED
        BY <1>1, <2>1, <2>2, ZenonT(60) DEF LockInv, ControlInv
<1>4. /\ \A u \in Callers : HasMutex(u)' <=> HasMutex(u)
      /\ \A u \in Callers : pc'[u] \in {"Release", "Wait"} \cup Inside =>
            pc[u] \in {"Release", "Wait"} \cup Inside
    BY <1>1, ZenonT(40) DEF LockInv, MonitorTypeOK, HasMutex
<1> QED
    BY <1>2, <1>3, <1>4, Zenon DEF LockInv, LockProtects

(* The steps of Acquire, Release and Wait themselves.                      *)
LEMMA MonitorStep ==
    ASSUME LockInv, NEW t \in Callers, None \notin Conditions,
           AcquireP(t) \/ WaitP(t) \/ NonBlocking(t)
    PROVE  LockInv'
<1> USE MonitorAssumption DEF Goto, MonitorLabels
<1>1. CASE AcquireP(t)
    <2> USE <1>1 DEF AcquireP
    <2>1. MonitorTypeOK'
        BY DEF LockInv, MonitorTypeOK, Labels
    <2>2. ControlInv'
        BY DEF LockInv, MonitorTypeOK, ControlInv
    <2>3. \A u \in Callers : ~HasMutex(u) /\ (HasMutex(u)' => u = t)
        BY DEF LockInv, MonitorTypeOK, HasMutex
    <2>4. LockProtects'
        BY <2>3 DEF LockInv, MonitorTypeOK, LockProtects, HasMutex
    <2>5. mutex \in Nat /\ mutex <= 1
        BY DEF LockInv, MonitorTypeOK
    <2>6. mutex' = 0
        BY <2>5
    <2> HIDE <1>1
    <2> QED
        BY <2>1, <2>2, <2>4, <2>6 DEF LockInv
<1>2. CASE AcquireHolder(t) \/ ReleaseHolder(t)
    <2> USE <1>2 DEF AcquireHolder, ReleaseHolder
    <2>1. MonitorTypeOK'
        BY Zenon DEF LockInv, MonitorTypeOK, Labels
    <2>2. ControlInv'
        <3>1. CASE AcquireHolder(t)
            <4>1. ret[t] \in Inside
                BY <3>1, Zenon DEF LockInv, ControlInv
            <4> QED
                BY <3>1, <4>1 DEF LockInv, MonitorTypeOK, ControlInv
        <3>2. CASE ReleaseHolder(t)
            BY <3>2 DEF LockInv, MonitorTypeOK, ControlInv
        <3> QED
            BY <3>1, <3>2
    <2>3. \A u \in Callers : HasMutex(u)' <=> HasMutex(u)
        BY Zenon DEF LockInv, MonitorTypeOK, ControlInv, HasMutex
    <2>4. HasMutex(t)
        BY DEF HasMutex
    <2>5. LockProtects'
        BY <2>3, <2>4 DEF LockInv, MonitorTypeOK, LockProtects, HasMutex
    <2> QED
        BY <2>1, <2>2, <2>3, <2>5 DEF LockInv
<1>3. CASE ReleaseV(t)
    <2> USE <1>3 DEF ReleaseV
    <2>1. MonitorTypeOK'
        BY DEF LockInv, MonitorTypeOK, Labels
    <2>2. ControlInv'
        BY DEF LockInv, MonitorTypeOK, ControlInv
    <2>3. mutex' = 1
        BY DEF LockInv, MonitorTypeOK, HasMutex
    <2>4. \A u \in Callers : HasMutex(u) => u = t
        BY DEF LockInv, LockProtects, HasMutex
    <2>5. \A u \in Callers : ~HasMutex(u)'
        BY <2>4 DEF LockInv, MonitorTypeOK, ControlInv, HasMutex
    <2>6. LockProtects'
        BY <2>5, Zenon DEF LockProtects, HasMutex
    <2> HIDE <1>3, MonitorAssumption DEF ReleaseV, Goto, MonitorLabels
    <2>7. mutex' <= 1
        BY <2>3
    <2> QED
        BY <2>1, <2>2, <2>3, <2>5, <2>6, <2>7, Zenon DEF LockInv
<1>4. CASE WaitAppend(t) \/ WaitP(t)
    <2>1. /\ waitQueue' \in [Conditions -> Seq(Callers)]
          /\ waiter' \in [Callers -> Nat]
        <3>1. CASE WaitAppend(t)
            <4>1. /\ inWait[t] \in Conditions
                  /\ Append(waitQueue[inWait[t]], t) \in Seq(Callers)
                BY <3>1 DEF WaitAppend, LockInv, MonitorTypeOK, ControlInv
            <4> QED
                BY <3>1, <4>1 DEF WaitAppend, LockInv, MonitorTypeOK
        <3>2. CASE WaitP(t)
            <4>1. waiter[t] - 1 \in Nat
                BY <3>2 DEF WaitP, LockInv, MonitorTypeOK
            <4> QED
                BY <3>2, <4>1 DEF WaitP, LockInv, MonitorTypeOK
        <3> QED
            BY <1>4, <3>1, <3>2
    <2>2. /\ \/ pc[t] = "Wait" /\ pc' = [pc EXCEPT ![t] = "Release"]
             \/ pc[t] = "WaitP" /\ pc' = [pc EXCEPT ![t] = "Acquire"]
          /\ UNCHANGED <<mutex, lockHolder, ret, inWait>>
        BY <1>4 DEF WaitAppend, WaitP
    <2>3. MonitorTypeOK'
        BY <2>1, <2>2, Zenon DEF LockInv, MonitorTypeOK, Labels
    <2>4. ControlInv'
        BY <2>2, ZenonT(60) DEF LockInv, MonitorTypeOK, ControlInv
    <2>5. /\ \A u \in Callers : HasMutex(u)' <=> HasMutex(u)
          /\ \A u \in Callers : pc'[u] \in {"Release", "Wait"} \cup Inside =>
                pc[u] \in {"Release", "Wait"} \cup Inside
        BY <2>2 DEF LockInv, MonitorTypeOK, HasMutex
    <2> QED
        BY <2>2, <2>3, <2>4, <2>5 DEF LockInv, LockProtects
<1> QED
    BY <1>1, <1>2, <1>3, <1>4 DEF NonBlocking

-----------------------------------------------------------------------------
(* The inductive invariant.                                                *)

(* What a philosopher's state is at each statement of pickup and putdown.  *)
StateOf(t) ==
    LET here == IF pc[t] \in MonitorLabels THEN ret[t] ELSE pc[t] IN
    /\ inWait[t] = None =>
          /\ pc[t] \in {"Acquire", "Holder"} => ret[t] \in {"hungry", "thinking"}
          /\ here \in {"think", "hungry", "testLeft", "grantLeft",
                       "testRight", "grantRight", "leave"} => state[t] = "Thinking"
          /\ here \in {"eat", "thinking", "woken"} => state[t] = "Eating"
          /\ here \in {"testSelf", "grantSelf"} => state[t] = "Hungry"
          /\ here = "ifHungry" => state[t] # "Thinking"
    /\ inWait[t] # None =>
          /\ inWait[t] = t
          /\ pc[t] \in MonitorLabels
          /\ ret[t] = "woken"
          /\ pc[t] = "Wait" => state[t] = "Hungry"
          /\ pc[t] \in {"Release", "Unlock", "WaitP"} =>
                /\ state[t] # "Thinking"
                /\ waiter[t] > 0 => state[t] = "Eating"
          /\ pc[t] \in {"Acquire", "Holder"} => state[t] = "Eating"

StateInv == \A t \in Callers : StateOf(t)

(* Only philosopher c ever waits on self[c].                               *)
QueueInv == \A c \in Conditions : waitQueue[c] \in Seq({c})

(* What test found is still so when the state is changed.                  *)
GrantInv ==
    \A t \in Callers :
        /\ pc[t] = "grantSelf" => MayEat(t)
        /\ pc[t] = "grantLeft" => MayEat(Left(t))
        /\ pc[t] = "grantRight" => MayEat(Right(t))

(* t is inside the monitor and has yet to test i.                          *)
WillTest(t, i) ==
    \/ pc[t] \in {"testSelf", "grantSelf"} /\ i = t
    \/ pc[t] \in {"testLeft", "grantLeft"} /\ i = Left(t)
    \/ pc[t] \in {"testLeft", "grantLeft", "testRight", "grantRight"} /\ i = Right(t)

(* A hungry philosopher has an eating neighbour or is about to be tested.  *)
HungryInv ==
    \A i \in Callers :
        state[i] = "Hungry" =>
            \/ state[Left(i)] = "Eating"
            \/ state[Right(i)] = "Eating"
            \/ \E t \in Callers : WillTest(t, i)

DInv ==
    /\ LockInv
    /\ DinningTypeOK
    /\ StateInv
    /\ QueueInv
    /\ GrantInv
    /\ NeighboursDoNotEat
    /\ HungryInv

-----------------------------------------------------------------------------
(* The table is a ring.                                                    *)
LEMMA Ring ==
    ASSUME NEW i \in Callers
    PROVE  /\ Left(i) \in Callers
           /\ Right(i) \in Callers
           /\ Left(Right(i)) = i
           /\ Right(Left(i)) = i
           /\ Left(i) # i
           /\ Right(i) # i
<1> USE DinningAssumption
<1>1. \A j \in Nat : j < N => j % N = j
    OBVIOUS
<1>2. \A j \in Nat : N <= j /\ j < 2 * N => j % N = j - N
    OBVIOUS
<1>3. \A j \in Callers : Right(j) = IF j = N - 1 THEN 0 ELSE j + 1
    BY <1>1, <1>2 DEF Right
<1>4. \A j \in Callers : Left(j) = IF j = 0 THEN N - 1 ELSE j - 1
    BY <1>1, <1>2 DEF Left
<1> QED
    BY <1>3, <1>4

(* Initially everybody thinks.                                             *)
LEMMA InitDInv ==
    ASSUME DinningInit
    PROVE  DInv
<1> USE MonitorAssumption, DinningAssumption
<1>1. LockInv
    BY LockInvInit DEF DinningInit
<1>2. DinningTypeOK
    BY <1>1 DEF LockInv, DinningInit, DinningTypeOK
<1>3. \A t \in Callers : pc[t] = "think" /\ ret[t] = "think" /\ inWait[t] = None
    BY DEF DinningInit, MonitorInit
<1>4. StateInv /\ GrantInv
    BY <1>3 DEF DinningInit, StateInv, StateOf, GrantInv, MonitorLabels
<1>5. QueueInv
    BY DEF DinningInit, MonitorInit, QueueInv
<1>6. NeighboursDoNotEat /\ HungryInv
    BY DEF DinningInit, NeighboursDoNotEat, HungryInv
<1> QED
    BY <1>1, <1>2, <1>4, <1>5, <1>6 DEF DInv

-----------------------------------------------------------------------------
(* Every step preserves it.                                                *)

(* While t is inside the monitor everybody else is outside, or waits.      *)
LEMMA AloneInside ==
    ASSUME DInv, NEW t \in Callers, HasMutex(t), NEW u \in Callers, u # t
    PROVE  pc[u] \in {"think", "eat", "Acquire", "WaitP"}
<1>1. ~HasMutex(u)
    BY DEF DInv, LockInv, LockProtects
<1> QED
    BY <1>1, DinningAssumption
    DEF HasMutex, DInv, DinningTypeOK, MonitorTypeOK, Labels, MonitorLabels

(* A step of Lock or Condition changes no state and starts at none of      *)
(* test's labels.                                                          *)
LEMMA MonitorKeepsDInv ==
    ASSUME DInv, NEW t \in Callers, AcquireP(t) \/ WaitP(t) \/ NonBlocking(t), UNCHANGED state
    PROVE  DInv'
<1> USE MonitorAssumption, DinningAssumption
<1>1. LockInv'
    BY MonitorStep DEF DInv
<1>2. DinningTypeOK'
    BY <1>1 DEF LockInv, DInv, DinningTypeOK
<1>3. /\ pc[t] \in MonitorLabels
      /\ pc'[t] \in {"Holder", "Unlock", "Release", "WaitP", "Acquire",
                     "hungry", "thinking", "woken", "think", "eat"}
      /\ pc' = [pc EXCEPT ![t] = pc'[t]]
      /\ ret' = ret
    <2>1. /\ StateOf(t) /\ t \in DOMAIN pc
          /\ pc[t] \in {"Wait", "WaitP"} => inWait[t] # None
        BY Zenon DEF DInv, StateInv, LockInv, ControlInv, MonitorTypeOK
    <2>2. pc[t] = "Unlock" /\ inWait[t] = None => ret[t] \in {"think", "eat"}
        BY DEF DInv, LockInv, ControlInv
    <2>3. CASE AcquireP(t)
        BY <2>1, <2>3, Zenon DEF AcquireP, Goto, MonitorLabels
    <2>4. CASE AcquireHolder(t)
        BY <2>1, <2>4, Zenon DEF AcquireHolder, Goto, MonitorLabels, StateOf
    <2>5. CASE ReleaseHolder(t)
        BY <2>1, <2>5, Zenon DEF ReleaseHolder, Goto, MonitorLabels
    <2>6. CASE ReleaseV(t)
        BY <2>1, <2>2, <2>6, Zenon DEF ReleaseV, Goto, MonitorLabels
    <2>7. CASE WaitAppend(t) \/ WaitP(t)
        BY <2>1, <2>7, Zenon DEF WaitAppend, WaitP, Goto, MonitorLabels
    <2> QED
        BY <2>3, <2>4, <2>5, <2>6, <2>7, Zenon DEF NonBlocking
<1>4. StateInv'
    <2>0. ~(0 > 0)
        OBVIOUS
    <2>1. /\ StateOf(t)
          /\ pc[t] \in {"Wait", "WaitP"} => inWait[t] # None
        BY DEF DInv, StateInv, LockInv, ControlInv
    <2>2. pc[t] = "Unlock" /\ inWait[t] = None => ret[t] \in {"think", "eat"}
        BY DEF DInv, LockInv, ControlInv
    <2>3. StateOf(t)'
        <3> USE <2>1, <2>2 DEF Goto, MonitorLabels, DInv, DinningTypeOK, MonitorTypeOK, StateOf
        <3>1. CASE AcquireP(t) \/ ReleaseHolder(t)
            BY <3>1, ZenonT(60) DEF AcquireP, ReleaseHolder
        <3>2. CASE AcquireHolder(t)
            BY <3>2, Zenon DEF AcquireHolder
        <3>3. CASE ReleaseV(t)
            BY <3>3, Zenon DEF ReleaseV
        <3>4. CASE WaitAppend(t)
            <4>1. /\ pc[t] = "Wait" /\ pc'[t] = "Release" /\ waiter'[t] = 0
                  /\ ret'[t] = ret[t] /\ inWait'[t] = inWait[t] /\ state'[t] = state[t]
                BY <3>4, Zenon DEF WaitAppend
            <4>2. ~(waiter'[t] > 0)
                BY <2>0, <4>1, Zenon
            <4> QED
                BY <4>1, <4>2, Zenon
        <3>5. CASE WaitP(t)
            BY <3>5, Zenon DEF WaitP
        <3> QED
            BY <3>1, <3>2, <3>3, <3>4, <3>5, Zenon DEF NonBlocking
    <2>4. ASSUME NEW u \in Callers, u # t
          PROVE  StateOf(u)'
        <3>1. /\ pc'[u] = pc[u]
              /\ ret'[u] = ret[u]
              /\ inWait'[u] = inWait[u]
              /\ waiter'[u] = waiter[u]
            BY <1>3, <2>4, ZenonT(40)
            DEF AcquireP, WaitP, NonBlocking, AcquireHolder, ReleaseHolder,
                ReleaseV, WaitAppend, DInv, DinningTypeOK, MonitorTypeOK
        <3>2. StateOf(u)
            BY DEF DInv, StateInv
        <3> QED
            BY <3>1, <3>2, Zenon DEF StateOf
    <2> QED
        BY <2>3, <2>4 DEF StateInv
<1>5. QueueInv'
    <2>1. CASE WaitAppend(t)
        <3>1. inWait[t] # None
            BY <2>1, Zenon DEF WaitAppend, DInv, LockInv, ControlInv
        <3>2. inWait[t] = t
            BY <3>1, Zenon DEF DInv, StateInv, StateOf
        <3>3. Append(waitQueue[t], t) \in Seq({t})
            BY DEF DInv, QueueInv
        <3> QED
            BY <2>1, <3>2, <3>3, Zenon DEF WaitAppend, DInv, QueueInv, DinningTypeOK, MonitorTypeOK
    <2>2. CASE ~WaitAppend(t)
        BY <2>2, Zenon DEF AcquireP, WaitP, NonBlocking, AcquireHolder, ReleaseHolder, ReleaseV,
                           DInv, QueueInv
    <2> QED
        BY <2>1, <2>2
<1>6. GrantInv'
    <2>1. \A u \in Callers : MayEat(u) => MayEat(u)'
        BY Zenon DEF MayEat
    <2>2. \A u \in Callers : Left(u) \in Callers /\ Right(u) \in Callers
        BY Ring, Zenon
    <2>3. ASSUME NEW u \in Callers, pc'[u] \in {"grantSelf", "grantLeft", "grantRight"}
          PROVE  pc'[u] = pc[u]
        <3>1. pc \in [Callers -> Labels]
            BY Zenon DEF DInv, DinningTypeOK, MonitorTypeOK
        <3>2. u # t
            BY <1>3, <2>3
        <3> QED
            BY <1>3, <3>1, <3>2, Zenon
    <2> QED
        BY <2>1, <2>2, <2>3, Zenon DEF DInv, GrantInv
<1>7. NeighboursDoNotEat'
    BY DEF DInv, NeighboursDoNotEat
<1>8. HungryInv'
    <2>1. \A u, i \in Callers : WillTest(u, i) => WillTest(u, i)'
        BY <1>3, ZenonT(60) DEF WillTest, MonitorLabels, DInv, DinningTypeOK, MonitorTypeOK
    <2> QED
        BY <2>1 DEF DInv, HungryInv
<1> QED
    BY <1>1, <1>2, <1>4, <1>5, <1>6, <1>7, <1>8 DEF DInv

(* The steps of pickup and putdown that change neither the state nor a     *)
(* condition: calls, tests and returns.                                    *)
Quiet(t) ==
    \/ CallPickup(t)
    \/ CallPutdown(t)
    \/ Test(t, t, "testSelf", "grantSelf", "ifHungry")
    \/ Test(t, Left(t), "testLeft", "grantLeft", "testRight")
    \/ Test(t, Right(t), "testRight", "grantRight", "leave")
    \/ IfHungry(t)
    \/ LeavePickup(t)
    \/ LeavePutdown(t)

(* The steps that change the state of philosopher i.                       *)
Change(t, i) ==
    \/ i = t /\ BecomeHungry(t)
    \/ i = t /\ BecomeThinking(t)
    \/ i = t /\ Grant(t, t, "grantSelf", "ifHungry")
    \/ i = Left(t) /\ Grant(t, i, "grantLeft", "testRight")
    \/ i = Right(t) /\ Grant(t, i, "grantRight", "leave")

(* Both kinds are client steps in the sense of ClientStep.                 *)
LEMMA ClientTypes ==
    ASSUME DInv, NEW t \in Callers, NEW i \in Callers, Quiet(t) \/ Change(t, i)
    PROVE  LockInv' /\ DinningTypeOK'
<1> USE MonitorAssumption, DinningAssumption
<1>1. /\ waitQueue' \in [Conditions -> Seq(Callers)]
      /\ waiter' \in [Callers -> Nat]
    <2>1. CASE UNCHANGED <<waitQueue, waiter>>
        BY <2>1, Zenon DEF DInv, DinningTypeOK, MonitorTypeOK
    <2>2. CASE Signal(i)
        BY <2>2, SignalType, Zenon DEF DInv, DinningTypeOK
    <2> QED
        BY <2>1, <2>2, Zenon
        DEF Quiet, Change, CallPickup, CallPutdown, Test, IfHungry, LeavePickup, LeavePutdown,
            BecomeHungry, BecomeThinking, SetState, Grant
<1>2. UNCHANGED <<mutex, lockHolder>>
    BY Zenon
    DEF Quiet, Change, CallPickup, CallPutdown, Test, IfHungry, LeavePickup, LeavePutdown,
           BecomeHungry, BecomeThinking, SetState, Grant
<1>3. None \notin Conditions
    OBVIOUS
<1>4. \/ /\ pc[t] \in Inside
         /\ \E next \in Inside : Goto(t, next)
         /\ UNCHANGED <<ret, inWait>>
      \/ /\ pc[t] \in Inside
         /\ \E next \in Outside : Call(t, "Release", next)
         /\ UNCHANGED inWait
      \/ /\ pc[t] \in Inside
         /\ \E next \in Inside, c \in Conditions : CallWait(t, c, next)
      \/ /\ pc[t] \in Outside
         /\ \E next \in Inside : Call(t, "Acquire", next)
         /\ UNCHANGED inWait
    <2>1. CASE Quiet(t)
        BY <2>1, Zenon
        DEF Quiet, CallPickup, CallPutdown, Test, IfHungry, LeavePickup, LeavePutdown
    <2>2. CASE Change(t, i)
        BY <2>2, Zenon DEF Change, BecomeHungry, BecomeThinking, SetState, Grant
    <2> QED
        BY <2>1, <2>2
<1> HIDE MonitorAssumption, DinningAssumption
<1>5. LockInv
    BY DEF DInv
<1>6. LockInv'
    BY <1>1, <1>2, <1>3, <1>4, <1>5, ClientStep
<1>7. state' \in [Callers -> {"Thinking", "Hungry", "Eating"}]
    BY Zenon
    DEF Quiet, Change, CallPickup, CallPutdown, Test, IfHungry, LeavePickup, LeavePutdown,
           BecomeHungry, BecomeThinking, SetState, Grant, DInv, DinningTypeOK
<1> QED
    BY <1>6, <1>7 DEF LockInv, DinningTypeOK

(* A quiet step preserves the invariant.                                   *)
LEMMA QuietKeepsDInv ==
    ASSUME DInv, NEW t \in Callers, Quiet(t)
    PROVE  DInv'
<1> USE MonitorAssumption, DinningAssumption
<1>1. LockInv' /\ DinningTypeOK'
    BY ClientTypes
<1>2. UNCHANGED <<state, waitQueue, waiter>>
    BY DEF Quiet, CallPickup, CallPutdown, Test, IfHungry, LeavePickup, LeavePutdown
<1>3. \A u \in Callers \ {t} :
         pc'[u] = pc[u] /\ ret'[u] = ret[u] /\ inWait'[u] = inWait[u]
    <2> USE DEF Goto, Call, CallWait, DInv, DinningTypeOK, MonitorTypeOK
    <2>1. CASE CallPickup(t) \/ CallPutdown(t)
        BY <2>1, Zenon DEF CallPickup, CallPutdown
    <2>2. CASE \/ Test(t, t, "testSelf", "grantSelf", "ifHungry")
               \/ Test(t, Left(t), "testLeft", "grantLeft", "testRight")
               \/ Test(t, Right(t), "testRight", "grantRight", "leave")
        BY <2>2, Zenon DEF Test
    <2>3. CASE IfHungry(t)
        BY <2>3, Zenon DEF IfHungry
    <2>4. CASE LeavePickup(t) \/ LeavePutdown(t)
        BY <2>4, Zenon DEF LeavePickup, LeavePutdown
    <2> QED
        BY <2>1, <2>2, <2>3, <2>4, Zenon DEF Quiet
<1>4. StateInv'
    <2>1. StateOf(t) /\ inWait[t] = None
        BY Zenon DEF DInv, StateInv, LockInv, ControlInv, Quiet, CallPickup, CallPutdown, Test,
               IfHungry, LeavePickup, LeavePutdown
    <2>2. StateOf(t)'
        <3> USE <1>2, <2>1 DEF Goto, Call, CallWait, MonitorLabels, DInv, DinningTypeOK,
                MonitorTypeOK, StateOf
        <3>1. CASE CallPickup(t) \/ CallPutdown(t)
            BY <3>1, ZenonT(40) DEF CallPickup, CallPutdown
        <3>2. CASE \/ Test(t, t, "testSelf", "grantSelf", "ifHungry")
                   \/ Test(t, Left(t), "testLeft", "grantLeft", "testRight")
                   \/ Test(t, Right(t), "testRight", "grantRight", "leave")
            <4>1. /\ \/ pc[t] = "testSelf" /\ pc'[t] \in {"grantSelf", "ifHungry"}
                     \/ pc[t] = "testLeft" /\ pc'[t] \in {"grantLeft", "testRight"}
                     \/ pc[t] = "testRight" /\ pc'[t] \in {"grantRight", "leave"}
                  /\ UNCHANGED <<ret, inWait>>
                BY <3>2, Zenon DEF Test
            <4> QED
                BY <4>1, Zenon
        <3>3. CASE IfHungry(t)
            <4>1. pc[t] = "ifHungry" /\ state'[t] = state[t]
                BY <3>3, Zenon DEF IfHungry
            <4>2. CASE state[t] = "Hungry"
                <5>1. pc'[t] = "Wait" /\ ret'[t] = "woken" /\ inWait'[t] = t
                    BY <3>3, <4>2, ZenonT(40) DEF IfHungry
                <5> QED
                    BY <4>1, <4>2, <5>1, Zenon
            <4>3. CASE state[t] # "Hungry"
                <5>1. pc'[t] = "woken" /\ inWait'[t] = None
                    BY <3>3, <4>3, Zenon DEF IfHungry
                <5>2. state[t] = "Eating"
                    BY <4>1, <4>3, Zenon
                <5> QED
                    BY <4>1, <5>1, <5>2, Zenon
            <4> QED
                BY <4>2, <4>3, Zenon
        <3>4. CASE LeavePickup(t) \/ LeavePutdown(t)
            BY <3>4, ZenonT(40) DEF LeavePickup, LeavePutdown
        <3> QED
            BY <3>1, <3>2, <3>3, <3>4, Zenon DEF Quiet
    <2>3. ASSUME NEW u \in Callers, u # t
          PROVE  StateOf(u)'
        <3>1. /\ pc'[u] = pc[u] /\ ret'[u] = ret[u] /\ inWait'[u] = inWait[u]
              /\ state'[u] = state[u] /\ waiter'[u] = waiter[u]
            BY <1>2, <1>3, <2>3, Zenon
        <3>2. StateOf(u)
            BY Zenon DEF DInv, StateInv
        <3> QED
            BY <3>1, <3>2, Zenon DEF StateOf
    <2> QED
        BY <2>2, <2>3, Zenon DEF StateInv
<1>5. QueueInv' /\ NeighboursDoNotEat'
    BY <1>2 DEF DInv, QueueInv, NeighboursDoNotEat
<1>6. GrantInv'
    <2>1. /\ pc'[t] = "grantSelf" => MayEat(t)
          /\ pc'[t] = "grantLeft" => MayEat(Left(t))
          /\ pc'[t] = "grantRight" => MayEat(Right(t))
        <3> USE DEF Goto, Call, CallWait
        <3>1. t \in DOMAIN pc
            BY Zenon DEF DInv, DinningTypeOK, MonitorTypeOK
        <3>2. CASE CallPickup(t) \/ CallPutdown(t)
            BY <3>1, <3>2, Zenon DEF CallPickup, CallPutdown
        <3>3. CASE Test(t, t, "testSelf", "grantSelf", "ifHungry")
            BY <3>1, <3>3, Zenon DEF Test
        <3>4. CASE Test(t, Left(t), "testLeft", "grantLeft", "testRight")
            BY <3>1, <3>4, Zenon DEF Test
        <3>5. CASE Test(t, Right(t), "testRight", "grantRight", "leave")
            BY <3>1, <3>5, Zenon DEF Test
        <3>6. CASE IfHungry(t)
            BY <3>1, <3>6, Zenon DEF IfHungry
        <3>7. CASE LeavePickup(t) \/ LeavePutdown(t)
            BY <3>1, <3>7, Zenon DEF LeavePickup, LeavePutdown
        <3> QED
            BY <3>2, <3>3, <3>4, <3>5, <3>6, <3>7, Zenon DEF Quiet
    <2>2. \A k : MayEat(k)' <=> MayEat(k)
        BY <1>2, Zenon DEF MayEat
    <2> QED
        BY <1>3, <2>1, <2>2, Zenon DEF DInv, GrantInv
<1>7. HungryInv'
    <2>1. ASSUME NEW i \in Callers, state[i] = "Hungry",
                 state[Left(i)] # "Eating", state[Right(i)] # "Eating"
          PROVE  \E u \in Callers : WillTest(u, i)'
        <3>1. PICK u \in Callers : WillTest(u, i)
            BY <2>1 DEF DInv, HungryInv
        <3>2. MayEat(i)
            BY <2>1 DEF MayEat
        <3>3. CASE u # t
            BY <1>3, <3>1, <3>3, Zenon DEF WillTest
        <3>4. CASE u = t
            <4>1. pc[t] \in {"testSelf", "testLeft", "testRight"}
                BY <3>1, <3>4
                DEF WillTest, Quiet, CallPickup, CallPutdown, Test, IfHungry, LeavePickup,
                    LeavePutdown
            <4>2. /\ pc[t] = "testSelf" => (MayEat(t) => pc'[t] = "grantSelf")
                  /\ pc[t] = "testLeft" => pc'[t] \in {"grantLeft", "testRight"}
                  /\ pc[t] = "testLeft" => (MayEat(Left(t)) => pc'[t] = "grantLeft")
                  /\ pc[t] = "testRight" => (MayEat(Right(t)) => pc'[t] = "grantRight")
                BY Zenon DEF Quiet, CallPickup, CallPutdown, Test, IfHungry, LeavePickup,
                    LeavePutdown, Goto, DInv, DinningTypeOK, MonitorTypeOK
            <4>3. WillTest(t, i)'
                BY <3>1, <3>2, <3>4, <4>1, <4>2 DEF WillTest
            <4> QED
                BY <4>3
        <3> QED
            BY <3>3, <3>4
    <2> QED
        BY <1>2, <2>1 DEF HungryInv
<1> QED
    BY <1>1, <1>4, <1>5, <1>6, <1>7 DEF DInv

(* A change of state preserves the invariant.                              *)
LEMMA ChangeKeepsDInv ==
    ASSUME DInv, NEW t \in Callers, NEW i \in Callers, Change(t, i)
    PROVE  DInv'
<1> USE MonitorAssumption, DinningAssumption
<1>1. LockInv' /\ DinningTypeOK'
    BY ClientTypes
<1>2. /\ pc' = [pc EXCEPT ![t] = pc'[t]]
      /\ UNCHANGED <<ret, inWait>>
    BY Zenon
    DEF Change, BecomeHungry, BecomeThinking, SetState, Grant, Goto, DInv, DinningTypeOK, MonitorTypeOK
<1>3. /\ \A u \in Callers \ {t} : pc[u] \in {"think", "eat", "Acquire", "WaitP"}
      /\ inWait[t] = None
      /\ StateOf(t)
    <2>1. pc[t] \in Inside
        BY DEF Change, BecomeHungry, BecomeThinking, SetState, Grant
    <2> QED
        BY <2>1, AloneInside, ZenonT(40) DEF HasMutex, DInv, LockInv, ControlInv, StateInv
<1>4. \/ /\ i = t /\ pc[t] = "hungry" /\ pc'[t] = "testSelf"
         /\ state[t] = "Thinking"
         /\ state' = [state EXCEPT ![t] = "Hungry"]
         /\ UNCHANGED <<waitQueue, waiter>>
      \/ /\ i = t /\ pc[t] = "thinking" /\ pc'[t] = "testLeft"
         /\ state[t] = "Eating"
         /\ state' = [state EXCEPT ![t] = "Thinking"]
         /\ UNCHANGED <<waitQueue, waiter>>
      \/ /\ \/ i = t /\ pc[t] = "grantSelf" /\ pc'[t] = "ifHungry"
            \/ i = Left(t) /\ pc[t] = "grantLeft" /\ pc'[t] = "testRight"
            \/ i = Right(t) /\ pc[t] = "grantRight" /\ pc'[t] = "leave"
         /\ MayEat(i)
         /\ state' = [state EXCEPT ![i] = "Eating"]
         /\ Signal(i)
    <2>1. CASE i = t /\ (BecomeHungry(t) \/ BecomeThinking(t))
        BY <1>3, <2>1, Zenon
        DEF BecomeHungry, BecomeThinking, SetState, Goto, StateOf, MonitorLabels,
            DInv, DinningTypeOK, MonitorTypeOK
    <2>2. CASE \/ i = t /\ Grant(t, t, "grantSelf", "ifHungry")
               \/ i = Left(t) /\ Grant(t, i, "grantLeft", "testRight")
               \/ i = Right(t) /\ Grant(t, i, "grantRight", "leave")
        <3>1. /\ \/ i = t /\ pc[t] = "grantSelf" /\ Goto(t, "ifHungry")
                 \/ i = Left(t) /\ pc[t] = "grantLeft" /\ Goto(t, "testRight")
                 \/ i = Right(t) /\ pc[t] = "grantRight" /\ Goto(t, "leave")
              /\ state' = [state EXCEPT ![i] = "Eating"]
              /\ Signal(i)
            BY <2>2 DEF Grant
        <3>2. MayEat(i)
            BY <3>1 DEF DInv, GrantInv
        <3>3. \A l : Goto(t, l) => pc'[t] = l
            BY DEF Goto, DInv, DinningTypeOK, MonitorTypeOK
        <3> QED
            BY <3>1, <3>2, <3>3
    <2> QED
        BY <2>1, <2>2, Zenon DEF Change
<1>5. /\ \A j \in Callers \ {i} : state'[j] = state[j] /\ waiter'[j] = waiter[j]
      /\ QueueInv'
    <2>1. CASE UNCHANGED <<waitQueue, waiter>>
        BY <1>4, <2>1 DEF DInv, DinningTypeOK, QueueInv
    <2>2. CASE Signal(i) /\ waitQueue[i] # <<>>
        <3>1. waitQueue[i] \in Seq({i})
            BY DEF DInv, QueueInv
        <3>2. Head(waitQueue[i]) = i /\ Tail(waitQueue[i]) \in Seq({i})
            BY <2>2, <3>1
        <3>3. /\ waitQueue' = [waitQueue EXCEPT ![i] = Tail(waitQueue[i])]
              /\ waiter' = [waiter EXCEPT ![i] = waiter[i] + 1]
            BY <2>2, <3>2 DEF Signal
        <3>4. QueueInv'
            BY <3>2, <3>3 DEF DInv, DinningTypeOK, MonitorTypeOK, QueueInv
        <3>5. \A j \in Callers \ {i} : state'[j] = state[j]
            BY <1>4 DEF DInv, DinningTypeOK
        <3> QED
            BY <3>3, <3>4, <3>5 DEF DInv, DinningTypeOK, MonitorTypeOK
    <2> QED
        BY <1>4, <2>1, <2>2 DEF Signal
<1>6. StateInv'
    <2>1. StateOf(t)'
        <3>1. /\ inWait'[t] = None
              /\ \/ pc'[t] = "testSelf" /\ state'[t] = "Hungry"
                 \/ pc'[t] = "testLeft" /\ state'[t] = "Thinking"
                 \/ pc'[t] = "ifHungry" /\ state'[t] = "Eating"
                 \/ pc'[t] \in {"testRight", "leave"} /\ state'[t] = state[t]
            BY <1>2, <1>3, <1>4, Ring, ZenonT(60) DEF DInv, DinningTypeOK
        <3>2. pc'[t] \in {"testRight", "leave"} => state[t] = "Thinking"
            BY <1>3, <1>4, Zenon DEF StateOf, MonitorLabels
        <3> QED
            BY <3>1, <3>2, Zenon DEF StateOf, MonitorLabels
    <2>2. ASSUME NEW u \in Callers, u # t
          PROVE  StateOf(u)'
        <3>1. StateOf(u)
            BY DEF DInv, StateInv
        <3>2. pc'[u] = pc[u] /\ ret'[u] = ret[u] /\ inWait'[u] = inWait[u]
            BY <1>2, <2>2 DEF DInv, DinningTypeOK, MonitorTypeOK
        <3>3. CASE u # i
            BY <1>5, <3>1, <3>2, <3>3, ZenonT(40) DEF StateOf
        <3>4. CASE u = i
            <4>1. state[u] = "Hungry" /\ state'[u] = "Eating"
                BY <1>4, <2>2, <3>4 DEF MayEat, DInv, DinningTypeOK
            <4>2. pc[u] = "WaitP" => inWait[u] # None
                BY DEF DInv, LockInv, ControlInv
            <4>3. pc[u] \in {"think", "eat", "Acquire"} => state[u] # "Hungry"
                BY <3>1, Zenon DEF StateOf, MonitorLabels
            <4>4. pc[u] = "WaitP" /\ inWait[u] # None
                BY <1>3, <2>2, <4>1, <4>2, <4>3
            <4> QED
                BY <3>1, <3>2, <4>1, <4>4, ZenonT(40) DEF StateOf, MonitorLabels
        <3> QED
            BY <3>3, <3>4
    <2> QED
        BY <2>1, <2>2 DEF StateInv
<1>7. GrantInv'
    BY <1>2, <1>3, <1>4, Zenon DEF GrantInv, DInv, DinningTypeOK, MonitorTypeOK
<1>8. NeighboursDoNotEat'
    <2>1. ASSUME NEW j \in Callers
          PROVE  ~(state'[j] = "Eating" /\ state'[Right(j)] = "Eating")
        <3>1. Right(j) \in Callers /\ Left(Right(j)) = j /\ Right(j) # j
            BY Ring, Zenon
        <3>2. ~(state[j] = "Eating" /\ state[Right(j)] = "Eating")
            BY DEF DInv, NeighboursDoNotEat
        <3> QED
            BY <1>4, <3>1, <3>2 DEF MayEat, DInv, DinningTypeOK
    <2> QED
        BY <2>1 DEF NeighboursDoNotEat
<1>9. HungryInv'
    <2>1. ASSUME NEW j \in Callers, state'[j] = "Hungry",
                 state'[Left(j)] # "Eating", state'[Right(j)] # "Eating"
          PROVE  \E u \in Callers : WillTest(u, j)'
        <3>1. /\ Left(j) \in Callers /\ Right(Left(j)) = j /\ Left(j) # j
              /\ Right(j) \in Callers /\ Left(Right(j)) = j /\ Right(j) # j
            BY Ring, Zenon
        <3>2. CASE pc[t] = "hungry"
            <4>1. CASE j = t
                BY <1>4, <3>2, <4>1 DEF WillTest
            <4>2. CASE j # t
                <5>1. state[j] = "Hungry" /\ state[Left(j)] # "Eating" /\ state[Right(j)] # "Eating"
                    BY <1>4, <2>1, <3>1, <3>2, <4>2, ZenonT(40) DEF DInv, DinningTypeOK
                <5>2. PICK u \in Callers : WillTest(u, j)
                    BY <5>1 DEF DInv, HungryInv
                <5> QED
                    BY <1>3, <3>2, <5>2 DEF WillTest
            <4> QED
                BY <4>1, <4>2
        <3>3. CASE pc[t] = "thinking"
            <4>1. state[j] = "Hungry" /\ i = t /\ pc'[t] = "testLeft"
                  /\ state' = [state EXCEPT ![t] = "Thinking"]
                BY <1>4, <2>1, <3>3 DEF DInv, DinningTypeOK
            <4>2. ~\E u \in Callers : WillTest(u, j)
                BY <1>3, <3>3 DEF WillTest
            <4>3. state[Left(j)] = "Eating" \/ state[Right(j)] = "Eating"
                BY <4>1, <4>2 DEF DInv, HungryInv
            <4>4. Left(j) = t \/ Right(j) = t
                BY <2>1, <3>1, <4>1, <4>3 DEF DInv, DinningTypeOK
            <4>5. WillTest(t, j)'
                BY <3>1, <4>1, <4>4 DEF WillTest
            <4> QED
                BY <4>5
        <3>4. CASE pc[t] \in {"grantSelf", "grantLeft", "grantRight"}
            <4>1. /\ state' = [state EXCEPT ![i] = "Eating"]
                  /\ \/ i = t /\ pc[t] = "grantSelf" /\ pc'[t] = "ifHungry"
                     \/ i = Left(t) /\ pc[t] = "grantLeft" /\ pc'[t] = "testRight"
                     \/ i = Right(t) /\ pc[t] = "grantRight" /\ pc'[t] = "leave"
                BY <1>4, <3>4
            <4>2. /\ j # i /\ state[j] = "Hungry"
                  /\ state[Left(j)] # "Eating" /\ state[Right(j)] # "Eating"
                BY <2>1, <3>1, <4>1 DEF DInv, DinningTypeOK
            <4>3. PICK u \in Callers : WillTest(u, j)
                BY <4>2 DEF DInv, HungryInv
            <4>4. u = t
                BY <1>3, <4>3 DEF WillTest
            <4>5. WillTest(t, j)'
                BY <4>1, <4>2, <4>3, <4>4 DEF WillTest
            <4> QED
                BY <4>5
        <3> QED
            BY <1>4, <3>2, <3>3, <3>4
    <2> QED
        BY <2>1 DEF HungryInv
<1> QED
    BY <1>1, <1>5, <1>6, <1>7, <1>8, <1>9, ZenonT(40) DEF DInv

(* Every step preserves the invariant.                                     *)
LEMMA StepDInv ==
    ASSUME DInv, [DinningNext]_dinningVars
    PROVE  DInv'
<1>1. CASE UNCHANGED dinningVars
    <2>1. /\ mutex' = mutex /\ lockHolder' = lockHolder /\ waitQueue' = waitQueue
          /\ waiter' = waiter /\ pc' = pc /\ ret' = ret /\ inWait' = inWait /\ state' = state
        BY <1>1 DEF dinningVars, monitorVars
    <2>2. LockInv' /\ DinningTypeOK'
        BY <2>1, Zenon DEF DInv, LockInv, DinningTypeOK, MonitorTypeOK, ControlInv, LockProtects,
                           HasMutex
    <2>3. StateInv' /\ QueueInv' /\ GrantInv'
        <3>1. StateInv'
            BY <2>1, Zenon DEF DInv, StateInv, StateOf
        <3>2. QueueInv'
            BY <2>1, Zenon DEF DInv, QueueInv
        <3>3. GrantInv'
            BY <2>1, Zenon DEF DInv, GrantInv, MayEat
        <3> QED
            BY <3>1, <3>2, <3>3, Zenon
    <2>4. NeighboursDoNotEat' /\ HungryInv'
        BY <2>1, Zenon DEF DInv, NeighboursDoNotEat, HungryInv, WillTest
    <2> QED
        BY <2>2, <2>3, <2>4, Zenon DEF DInv
<1>2. ASSUME NEW t \in Callers,
             CallPickup(t) \/ CallPutdown(t) \/ Body(t) \/ Lock(t) \/ Wakeup(t)
      PROVE  DInv'
    <2>1. \/ Quiet(t)
          \/ \E i \in Callers : Change(t, i)
          \/ (AcquireP(t) \/ WaitP(t) \/ NonBlocking(t)) /\ UNCHANGED state
        BY <1>2, Ring DEF Body, Lock, Wakeup, Quiet, Change, TestSelf, TestLeft, TestRight
    <2> QED
        BY <2>1, QuietKeepsDInv, ChangeKeepsDInv, MonitorKeepsDInv
<1> QED
    BY <1>1, <1>2 DEF DinningNext

-----------------------------------------------------------------------------
(* The invariants of the run, for any number of philosophers.              *)

(* The inductive invariant holds in every reachable state.                 *)
THEOREM DinningInvariant == DinningSpec => []DInv
<1>1. DinningInit => DInv
    BY InitDInv, Zenon
<1>2. DInv /\ [DinningNext]_dinningVars => DInv'
    BY StepDInv, Zenon
<1> QED
    BY <1>1, <1>2, PTL DEF DinningSpec

(* Type correctness.                                                       *)
THEOREM DinningTypes == DinningSpec => []DinningTypeOK
<1>1. DInv => DinningTypeOK
    BY DEF DInv
<1> QED
    BY <1>1, DinningInvariant, PTL

(* The ASSERTs of Release, Wait and Signal never fail in pickup or         *)
(* putdown, and only one philosopher is in the monitor.                    *)
THEOREM LockProtectsTable == DinningSpec => []LockProtects
<1>1. DInv => LockProtects
    BY DEF DInv, LockInv
<1> QED
    BY <1>1, DinningInvariant, PTL

(* Neighbours never eat at the same time.                                  *)
THEOREM SticksNotShared == DinningSpec => []NeighboursDoNotEat
<1>1. DInv => NeighboursDoNotEat
    BY DEF DInv
<1> QED
    BY <1>1, DinningInvariant, PTL

(* pickup's single test after Wait is enough.                              *)
THEOREM PickupCorrect == DinningSpec => []PickupGetsSticks
<1>1. DInv => PickupGetsSticks
    BY MonitorAssumption, DinningAssumption, Zenon DEF DInv, LockInv, ControlInv, StateInv,
           StateOf, PickupGetsSticks, MonitorLabels
<1> QED
    BY <1>1, DinningInvariant, PTL

(* putdown leaves nobody hungry whose neighbours do not eat.               *)
THEOREM NobodyForgotten == DinningSpec => []HungryHasEatingNeighbour
<1>1. DInv => HungryHasEatingNeighbour
    <2> SUFFICES ASSUME DInv, mutex = 1, NEW i \in Callers, state[i] = "Hungry"
                 PROVE  "Eating" \in {state[Left(i)], state[Right(i)]}
        BY DEF HungryHasEatingNeighbour
    <2>1. \A t \in Callers : ~WillTest(t, i)
        BY DinningAssumption DEF DInv, LockInv, HasMutex, WillTest
    <2> QED
        BY <2>1 DEF DInv, HungryInv
<1> QED
    BY <1>1, DinningInvariant, PTL
=============================================================================
