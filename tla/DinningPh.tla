------------------------------ MODULE DinningPh ------------------------------
(***************************************************************************)
(* The dining philosophers' monitor (threads/dinningph.cc) and the threads *)
(* that use it (Philo in threads/threadtest.cc).  A client of Monitor: the *)
(* thread of philosopher i is i, and its condition self[i] is i too.       *)
(***************************************************************************)
EXTENDS Monitor

CONSTANT N          \* the number of philosophers; 5 in the code

Left(i) == (i + N - 1) % N
Right(i) == (i + 1) % N

ASSUME DinningAssumption ==
    /\ N \in Nat /\ N > 1
    /\ Callers = 0..N-1
    /\ Conditions = Callers
    /\ Inside = {"hungry", "testSelf", "grantSelf", "ifHungry", "woken",
                 "thinking", "testLeft", "grantLeft", "testRight", "grantRight", "leave"}
    /\ Outside = {"think", "eat"}

VARIABLE state      \* DinningPh::state

dinningVars == <<monitorVars, state>>

DinningTypeOK ==
    /\ MonitorTypeOK
    /\ state \in [Callers -> {"Thinking", "Hungry", "Eating"}]

DinningInit ==
    /\ MonitorInit("think")
    /\ state = [i \in Callers |-> "Thinking"]

-----------------------------------------------------------------------------
(* test(i), called at label here: the condition, and if it holds the two   *)
(* statements it guards (label grant); then the caller goes on at next.    *)

(* Fault: the right neighbour is forgotten.                                *)
MayEatLeftOnly(i) ==
    /\ state[Left(i)] # "Eating"
    /\ state[i] = "Hungry"

MayEat(i) ==
    /\ state[Left(i)] # "Eating"
    /\ state[i] = "Hungry"
    /\ state[Right(i)] # "Eating"

Test(t, i, here, grant, next) ==
    /\ pc[t] = here
    /\ Goto(t, IF MayEat(i) THEN grant ELSE next)
    /\ UNCHANGED <<mutex, lockHolder, waitQueue, waiter, ret, inWait, state>>

Grant(t, i, here, next) ==
    /\ pc[t] = here
    /\ state' = [state EXCEPT ![i] = "Eating"]
    /\ Signal(i)
    /\ Goto(t, next)
    /\ UNCHANGED <<mutex, lockHolder, ret, inWait>>

SetState(t, here, s, next) ==
    /\ pc[t] = here
    /\ state' = [state EXCEPT ![t] = s]
    /\ Goto(t, next)
    /\ UNCHANGED <<mutex, lockHolder, waitQueue, waiter, ret, inWait>>

-----------------------------------------------------------------------------
(* pickup(t)                                                               *)

CallPickup(t) ==
    /\ pc[t] = "think"
    /\ Call(t, "Acquire", "hungry")
    /\ UNCHANGED <<mutex, lockHolder, waitQueue, waiter, inWait, state>>

BecomeHungry(t) == SetState(t, "hungry", "Hungry", "testSelf")

TestSelf(t) ==
    \/ Test(t, t, "testSelf", "grantSelf", "ifHungry")
    \/ Grant(t, t, "grantSelf", "ifHungry")

(* Fault: pickup does not wait.                                            *)
IfHungryNoWait(t) ==
    /\ pc[t] = "ifHungry"
    /\ Goto(t, "woken")
    /\ UNCHANGED <<mutex, lockHolder, waitQueue, waiter, ret, inWait, state>>

(* if (state[who] == Hungry) self[who]->Wait(dp): tested once, no loop.    *)
IfHungry(t) ==
    /\ pc[t] = "ifHungry"
    /\ \/ /\ state[t] = "Hungry"
          /\ CallWait(t, t, "woken")
       \/ /\ state[t] # "Hungry"
          /\ Goto(t, "woken")
          /\ UNCHANGED <<ret, inWait>>
    /\ UNCHANGED <<mutex, lockHolder, waitQueue, waiter, state>>

LeavePickup(t) ==
    /\ pc[t] = "woken"
    /\ Call(t, "Release", "eat")
    /\ UNCHANGED <<mutex, lockHolder, waitQueue, waiter, inWait, state>>

-----------------------------------------------------------------------------
(* putdown(t)                                                              *)

CallPutdown(t) ==
    /\ pc[t] = "eat"
    /\ Call(t, "Acquire", "thinking")
    /\ UNCHANGED <<mutex, lockHolder, waitQueue, waiter, inWait, state>>

(* Fault: only the right neighbour is tested.                              *)
BecomeThinkingRightOnly(t) == SetState(t, "thinking", "Thinking", "testRight")

BecomeThinking(t) == SetState(t, "thinking", "Thinking", "testLeft")

TestLeft(t) ==
    \/ Test(t, Left(t), "testLeft", "grantLeft", "testRight")
    \/ Grant(t, Left(t), "grantLeft", "testRight")

TestRight(t) ==
    \/ Test(t, Right(t), "testRight", "grantRight", "leave")
    \/ Grant(t, Right(t), "grantRight", "leave")

LeavePutdown(t) ==
    /\ pc[t] = "leave"
    /\ Call(t, "Release", "think")
    /\ UNCHANGED <<mutex, lockHolder, waitQueue, waiter, inWait, state>>

-----------------------------------------------------------------------------
Body(t) ==
    \/ NonBlocking(t) /\ UNCHANGED state
    \/ BecomeHungry(t) \/ TestSelf(t) \/ IfHungry(t) \/ LeavePickup(t)
    \/ BecomeThinking(t) \/ TestLeft(t) \/ TestRight(t) \/ LeavePutdown(t)

Lock(t) == AcquireP(t) /\ UNCHANGED state

Wakeup(t) == WaitP(t) /\ UNCHANGED state

DinningNext ==
    \E t \in Callers :
        \/ CallPickup(t)
        \/ CallPutdown(t)
        \/ Body(t)
        \/ Lock(t)
        \/ Wakeup(t)

DinningSpec == DinningInit /\ [][DinningNext]_dinningVars

(* No philosopher stops inside the monitor or eats forever (Philo sleeps   *)
(* for at most 5 seconds and calls putdown); thinking forever is allowed,  *)
(* since Philo ends after ten rounds.  A unit of the lock's semaphore goes *)
(* to some waiting thread.                                                 *)
DinningFairSpec ==
    /\ DinningSpec
    /\ \A t \in Callers : WF_dinningVars(Body(t)) /\ WF_dinningVars(Wakeup(t)) /\ WF_dinningVars(CallPutdown(t))
    /\ WF_dinningVars(\E t \in Callers : Lock(t))

-----------------------------------------------------------------------------
(* Neighbours never eat at the same time, although test grants the sticks  *)
(* to a philosopher in another philosopher's thread.                       *)
NeighboursDoNotEat ==
    \A i \in Callers : ~(state[i] = "Eating" /\ state[Right(i)] = "Eating")

(* When pickup returns the philosopher has the sticks.  pickup tests its   *)
(* state with an "if" and does not look again after Wait.                  *)
PickupGetsSticks == \A t \in Callers : pc[t] = "eat" => state[t] = "Eating"

(* Whoever is hungry while the monitor is free has an eating neighbour:    *)
(* putdown has tested everybody who might have been waiting for it.        *)
HungryHasEatingNeighbour ==
    mutex = 1 => \A i \in Callers :
        state[i] = "Hungry" => "Eating" \in {state[Left(i)], state[Right(i)]}

(* Hungry philosophers do not wait for each other in a circle: while there *)
(* are some, somebody gets to eat.  (A single one may starve.)             *)
SomebodyEats ==
    (\E i \in Callers : state[i] = "Hungry") ~> (\E t \in Callers : pc[t] = "eat")
=============================================================================
