------------------------------- MODULE Water -------------------------------
(***************************************************************************)
(* The water problem of threads/threadtest.cc, which ThreadTest runs:      *)
(* water() forks threads that are hydrogen or oxygen atoms at random; an   *)
(* atom makes a molecule if the other two are there, and otherwise leaves  *)
(* itself in the counters.  The counters are protected by three            *)
(* semaphores, taken in one order and released in the same order.  The     *)
(* semaphores are those of SemaphoreSpec.                                  *)
(***************************************************************************)
EXTENDS Integers, FiniteSets

CONSTANT
    NumAtoms    \* how many threads water() forks, 20 in the code

ASSUME WaterAssumption == NumAtoms \in Nat

Atoms == 0..(NumAtoms - 1)

VARIABLES
    kind,               \* the function, H or O, that each atom was forked with
    at,                 \* the statement each atom is about to execute
    sem,                \* the values of semH, semO and semA
    HatomCount,
    OatomCount,
    H2OmoleculeCount,
    num,                \* water()'s first loop counter
    waits               \* water()'s second loop counter

waterVars == <<kind, at, sem, HatomCount, OatomCount, H2OmoleculeCount, num, waits>>

Statements ==
    {"new", "semH.P", "semO.P", "semA.P", "test", "takeH", "takeO", "make", "add",
     "semH.V", "semO.V", "semA.V", "done"}

(* The counters are unsigned: a decrement of zero would leave Nat.         *)
WaterTypeOK ==
    /\ kind \in [Atoms -> {"H", "O", "none"}]
    /\ at \in [Atoms -> Statements]
    /\ sem \in [{"H", "O", "A"} -> 0..1]
    /\ HatomCount \in Nat /\ OatomCount \in Nat /\ H2OmoleculeCount \in Nat
    /\ num \in 0..NumAtoms
    /\ waits \in 0..NumAtoms

WaterInit ==
    /\ kind = [a \in Atoms |-> "none"]
    /\ at = [a \in Atoms |-> "new"]
    /\ sem = [s \in {"H", "O", "A"} |-> 1]
    /\ HatomCount = 0 /\ OatomCount = 0 /\ H2OmoleculeCount = 0
    /\ num = 0
    /\ waits = 0

counters == <<HatomCount, OatomCount, H2OmoleculeCount>>
loops == <<num, waits>>

-----------------------------------------------------------------------------
(* water().                                                                *)

ForkAtom ==
    /\ num < NumAtoms
    /\ \E k \in {"H", "O"} : kind' = [kind EXCEPT ![num] = k]
    /\ at' = [at EXCEPT ![num] = "semH.P"]
    /\ num' = num + 1
    /\ UNCHANGED <<sem, counters, waits>>

(* wait(&k) of the host's C library.  The atoms are threads of Nachos, not *)
(* processes of the host: there is no child to wait for and wait returns.  *)
Wait ==
    /\ num = NumAtoms
    /\ waits < NumAtoms
    /\ waits' = waits + 1
    /\ UNCHANGED <<kind, at, sem, counters, num>>

-----------------------------------------------------------------------------
(* H(name) and O(name), statement by statement.                            *)

AtomGoto(a, label) == at' = [at EXCEPT ![a] = label]

AtomP(a, s, from, to) ==
    /\ at[a] = from
    /\ sem[s] > 0
    /\ sem' = [sem EXCEPT ![s] = @ - 1]
    /\ AtomGoto(a, to)
    /\ UNCHANGED <<kind, counters, loops>>

AtomV(a, s, from, to) ==
    /\ at[a] = from
    /\ sem' = [sem EXCEPT ![s] = @ + 1]
    /\ AtomGoto(a, to)
    /\ UNCHANGED <<kind, counters, loops>>

(* Fault: one too many is asked for.                                       *)
NeedsThreeH(a) ==
    IF kind[a] = "H" THEN HatomCount > 0 /\ OatomCount > 0 ELSE HatomCount > 2

(* "it can make water": another H and an O, or two H.                      *)
CanMakeWater(a) ==
    IF kind[a] = "H" THEN HatomCount > 0 /\ OatomCount > 0 ELSE HatomCount > 1

TestWater(a) ==
    /\ at[a] = "test"
    /\ AtomGoto(a, IF CanMakeWater(a) THEN "takeH" ELSE "add")
    /\ UNCHANGED <<kind, sem, counters, loops>>

(* --HatomCount, or HatomCount -= 2.                                       *)
TakeH(a) ==
    /\ at[a] = "takeH"
    /\ HatomCount' = HatomCount - (IF kind[a] = "H" THEN 1 ELSE 2)
    /\ AtomGoto(a, IF kind[a] = "H" THEN "takeO" ELSE "make")
    /\ UNCHANGED <<kind, sem, OatomCount, H2OmoleculeCount, loops>>

TakeO(a) ==
    /\ at[a] = "takeO"
    /\ OatomCount' = OatomCount - 1
    /\ AtomGoto(a, "make")
    /\ UNCHANGED <<kind, sem, HatomCount, H2OmoleculeCount, loops>>

Make(a) ==
    /\ at[a] = "make"
    /\ H2OmoleculeCount' = H2OmoleculeCount + 1
    /\ AtomGoto(a, "semH.V")
    /\ UNCHANGED <<kind, sem, HatomCount, OatomCount, loops>>

(* "it can not make water, add itself to the list".                        *)
Add(a) ==
    /\ at[a] = "add"
    /\ \/ /\ kind[a] = "H"
          /\ HatomCount' = HatomCount + 1
          /\ UNCHANGED OatomCount
       \/ /\ kind[a] = "O"
          /\ OatomCount' = OatomCount + 1
          /\ UNCHANGED HatomCount
    /\ AtomGoto(a, "semH.V")
    /\ UNCHANGED <<kind, sem, H2OmoleculeCount, loops>>

Acquire(a) ==
    \/ AtomP(a, "H", "semH.P", "semO.P")
    \/ AtomP(a, "O", "semO.P", "semA.P")
    \/ AtomP(a, "A", "semA.P", "test")

React(a) == TestWater(a) \/ TakeH(a) \/ TakeO(a) \/ Make(a) \/ Add(a)

(* Fault: semA is not released.                                            *)
ReleaseKeepsA(a) ==
    \/ AtomV(a, "H", "semH.V", "semO.V")
    \/ AtomV(a, "O", "semO.V", "done")

Release(a) ==
    \/ AtomV(a, "H", "semH.V", "semO.V")
    \/ AtomV(a, "O", "semO.V", "semA.V")
    \/ AtomV(a, "A", "semA.V", "done")

WaterNext ==
    \/ ForkAtom
    \/ Wait
    \/ \E a \in Atoms : Acquire(a) \/ React(a) \/ Release(a)

WaterSpec == WaterInit /\ [][WaterNext]_waterVars

(* A thread that can run is scheduled (ReadyThreadRuns of NachosKernel),   *)
(* and a unit of a semaphore goes to some thread that waits for it.        *)
WaterFairSpec ==
    /\ WaterSpec
    /\ WF_waterVars(ForkAtom)
    /\ \A a \in Atoms : WF_waterVars(React(a) \/ Release(a))
    /\ WF_waterVars(\E a \in Atoms : Acquire(a))

-----------------------------------------------------------------------------
(* Between semA.P and the first V.                                         *)
InBody(a) == at[a] \in {"test", "takeH", "takeO", "make", "add"}

(* The atoms that have been counted or used.                               *)
Counted(k) ==
    {a \in Atoms : kind[a] = k /\ at[a] \in {"semH.V", "semO.V", "semA.V", "done"}}

(* The threads together conserve matter: whenever no atom is in the middle *)
(* of its update, every H that went through is waiting in HatomCount or    *)
(* part of one of the molecules, and every O likewise.  (It would fail if *)
(* two updates overlapped.)                                                *)
MatterConserved ==
    (\A a \in Atoms : ~InBody(a)) =>
        /\ Cardinality(Counted("H")) = HatomCount + 2 * H2OmoleculeCount
        /\ Cardinality(Counted("O")) = OatomCount + H2OmoleculeCount

(* No molecule is missed: whenever no atom is in the middle of its update, *)
(* two H and an O are never left waiting at the same time.                 *)
NoMoleculeMissed ==
    (\A a \in Atoms : ~InBody(a)) => ~(HatomCount > 1 /\ OatomCount > 0)

(* The counters account for every atom and every molecule that could be.   *)
AtomsAccounted == MatterConserved /\ NoMoleculeMissed

(* The semaphores, released in the order in which they are taken, do not   *)
(* deadlock: every atom finishes.                                          *)
AllAtomsFinish == <>(\A a \in Atoms : at[a] = "done")

(* "Cool wait function that waits for the next child process to finish,    *)
(* use in a cycle to wait for all of them": water() returns after its      *)
(* atoms have finished.                                                    *)
WaterWaitsForAtoms ==
    waits = NumAtoms => \A a \in Atoms : at[a] = "done"
=============================================================================
