-------------------------- MODULE ProcessesProofs --------------------------
(***************************************************************************)
(* Proofs about the system calls, for any number of threads, semaphores,   *)
(* files and frames: a program runs in its own address space only, and     *)
(* Join returns only when the thread it waits for has left (PInv); one     *)
(* thread at a time has the console (ConsoleInv); without Exec, threads    *)
(* finish before their father and an open pid is of a thread that exists   *)
(* (KinInv); without Fork, programs have their frames to themselves        *)
(* (MemoryInv); and what a thread finds in its tables exists, while the    *)
(* host has nothing open that no thread keeps (LeakInv, FileInv, SemInv).  *)
(*                                                                         *)
(* Each of the later invariants is inductive relative to the earlier ones. *)
(* A proof that the steps keep one has the same shape each time: a frame   *)
(* says what most steps leave alone, a lemma that such a step keeps the    *)
(* invariant, a lemma that most steps are of this kind, and one lemma for  *)
(* each step that is not.                                                  *)
(***************************************************************************)
EXTENDS Processes, FiniteSetTheorems, WellFoundedInduction, TLAPS

(* Labels of a thread that has been started, has a program and is not in   *)
(* Join or past the waiting in Exit.                                       *)
Ordinary ==
    {"user", "Exec", "SemWait", "asleep", "awakened", "SemDestroy", "Exit", "Read.P", "Write.P",
     "Read.asleep", "Write.asleep", "Read.V", "Write.V", "Read.copy"}

(* Labels of a thread that has a program.                                  *)
Running == Ordinary \cup {"Join", "Exit.V"}

(* Where threads have a space, and when it is the one that is loaded.  A   *)
(* thread in ThreadRoot may run with another one's until its function      *)
(* loads its own.                                                          *)
SpaceInv ==
    /\ \A t \in Threads : pc[t] \in Running => space[t] # NULL
    /\ \A t \in Threads : pc[t] \in {"fresh", "root"} /\ function[t] = "Fork" => space[t] # NULL
    /\ threadToBeDestroyed # NULL => pc[threadToBeDestroyed] = "finished"
    /\ \A t \in Threads : currentThread = t /\ pc[t] \in Running => pageTable = t

(* A process in the threads table stays the occupant of its position.      *)
Entry(t) ==
    fatherProcess[t] # NULL /\ Live(t) =>
        /\ pid[t] \in threadsTable.map
        /\ occupant[pid[t]] = t

(* Until it leaves, the semaphore in a process's entry is of a thread that *)
(* waits for it and has not been signalled.                                *)
Joiner(t) ==
    LET j == threadsTable.openFiles[pid[t]] IN
    fatherProcess[t] # NULL /\ Live(t) /\ ~Left(t) /\ j # NULL =>
        pc[j] = "Join" /\ local[j] = t /\ joinSem[j] = 0

(* So a unit in a Join semaphore comes from the thread that is waited for. *)
JoinInv ==
    /\ \A t \in Threads : pid[t] \in Positions <=> fatherProcess[t] # NULL
    /\ \A p \in threadsTable.map : occupant[p] \in Threads
    /\ \A t \in Threads : Entry(t) /\ Joiner(t)
    /\ \A t \in Threads : pc[t] = "Join" =>
          /\ local[t] \in Threads
          /\ joinSem[t] > 0 => Left(local[t])

(* The inductive invariant.                                                *)
PInv == TypeOK /\ SpaceInv /\ JoinInv

-----------------------------------------------------------------------------
(* A set of naturals that is not empty has a minimum.                      *)
LEMMA MinOf ==
    ASSUME NEW S \in SUBSET Nat, S # {}
    PROVE  Min(S) \in S
<1>1. \E x \in S : \A y \in S : <<y, x>> \notin OpToRel(<, Nat)
    BY NatLessThanWellFounded, WFMin, Zenon
<1>2. PICK x \in S : \A y \in S : <<y, x>> \notin OpToRel(<, Nat)
    BY <1>1, Zenon
<1>3. \A y \in S : ~(y < x)
    BY <1>2, Zenon DEF OpToRel
<1>4. \A y \in S : x =< y
    BY <1>3
<1> QED
    BY <1>4, Zenon DEF Min

(* BitMap::Find returns a clear bit, or -1.                                *)
LEMMA FindClear ==
    ASSUME NEW map, NEW n \in Nat
    PROVE  \/ Find(map, n) = -1
           \/ Find(map, n) \in 0..(n - 1) /\ Find(map, n) \notin map
<1>1. CASE (0..(n - 1)) \subseteq map
    BY <1>1 DEF Find
<1>2. CASE ~((0..(n - 1)) \subseteq map)
    <2>1. (0..(n - 1)) \ map \in SUBSET Nat /\ (0..(n - 1)) \ map # {}
        BY <1>2
    <2>2. Min((0..(n - 1)) \ map) \in (0..(n - 1)) \ map
        BY <2>1, MinOf
    <2> QED
        BY <1>2, <2>2 DEF Find
<1> QED
    BY <1>1, <1>2

(* So NextFreePos of a table that has room is a free position.             *)
LEMMA FreePos ==
    ASSUME NEW table, HasRoom(table)
    PROVE  NextFreePos(table) \in Positions \ table.map
BY FindClear, TableAssumption DEF HasRoom, NextFreePos, Positions

(* New address spaces, whether or not there is memory left.                *)
LEMMA SpaceTypes ==
    /\ LoadedSpace \in Spaces
    /\ \A s \in Spaces : CopiedSpace(s) \in Spaces
<1>1. \A map : Find(map, NumPhysPages) \in Frames \cup {-1}
    BY FindClear, ProcessesAssumption DEF Frames
<1> QED
    BY <1>1 DEF LoadedSpace, CopiedSpace, Spaces

(* Initialize and StartProcess establish the invariant.                    *)
LEMMA InitInv == Init => PInv
<1> SUFFICES ASSUME Init PROVE PInv
    OBVIOUS
<1>1. TypeOK
    BY ProcessesAssumption, TableAssumption
    DEF Init, TypeOK, Labels, Spaces, Frames, Tables, NewTable, Reserved, Positions
<1>2. SpaceInv
    BY ProcessesAssumption DEF Init, SpaceInv, Running, Ordinary, Spaces, Frames
<1>3. JoinInv
    BY ProcessesAssumption DEF Init, JoinInv, Entry, Joiner, NewTable, Positions
<1> QED
    BY <1>1, <1>2, <1>3 DEF PInv

-----------------------------------------------------------------------------
(* Most system calls move threads between ordinary labels, and leave alone *)
(* what the invariant is about.                                            *)
Quiet ==
    /\ currentThread' \in {currentThread, NULL}
    /\ pc' \in [Threads -> Labels]
    /\ \A u \in Threads :
          /\ pc'[u] = pc[u] \/ (pc[u] \in Ordinary /\ pc'[u] \in Ordinary)
          /\ pc[u] = "Join" => local'[u] = local[u]
    /\ UNCHANGED <<space, pageTable, threadToBeDestroyed, function, fatherProcess, pid, occupant,
                   threadsTable, joinSem>>

(* Such a step keeps the invariant.                                        *)
LEMMA QuietInv ==
    ASSUME PInv, Quiet PROVE SpaceInv' /\ JoinInv'
<1>0. /\ pc \in [Threads -> Labels] /\ pc' \in [Threads -> Labels]
      /\ NULL \notin Threads
      /\ threadsTable \in Tables(Threads) /\ threadToBeDestroyed \in Threads \cup {NULL}
    BY ProcessesAssumption DEF PInv, TypeOK, Quiet
<1>1. SpaceInv'
    BY <1>0 DEF PInv, SpaceInv, Quiet, Running, Ordinary
<1>2. \A u \in Threads : Live(u)' = Live(u) /\ Left(u)' = Left(u)
    BY <1>0 DEF Quiet, Live, Left, Ordinary
<1>3. ASSUME NEW u \in Threads PROVE Entry(u)' /\ Joiner(u)'
    <2>1. Entry(u) /\ Joiner(u) /\ (pid[u] \in Positions <=> fatherProcess[u] # NULL)
        BY DEF PInv, JoinInv
    <2>2. Entry(u)'
        BY <1>2, <2>1 DEF Entry, Quiet
    <2>3. fatherProcess[u] # NULL => threadsTable.openFiles[pid[u]] \in Threads \cup {NULL}
        BY <1>0, <2>1 DEF Tables
    <2>4. Joiner(u)'
        BY <1>0, <1>2, <2>1, <2>3 DEF Joiner, Quiet, Ordinary
    <2> QED
        BY <2>2, <2>4
<1>4. ASSUME NEW u \in Threads, (pc[u] = "Join")'
      PROVE  (local[u] \in Threads /\ (joinSem[u] > 0 => Left(local[u])))'
    <2>1. pc[u] = "Join" /\ local'[u] = local[u] /\ joinSem' = joinSem
        BY <1>0, <1>4 DEF Quiet, Ordinary
    <2> QED
        BY <1>2, <2>1 DEF PInv, JoinInv
<1>5. JoinInv'
    BY <1>3, <1>4 DEF PInv, JoinInv, Quiet
<1> QED
    BY <1>1, <1>5

(* The steps of which this is so.                                          *)
QuietStep(t) ==
    \/ Halt(t)
    \/ ReturnFromExec(t)
    \/ CallExit(t)
    \/ SemCreate(t)
    \/ SemDestroy(t)
    \/ DeleteSemaphore(t)
    \/ SemSignal(t)
    \/ SemWait(t)
    \/ TestInP(t)
    \/ OpenFile(t)
    \/ CloseFile(t)
    \/ Create(t)
    \/ Read(t)
    \/ Write(t)
    \/ ConsoleP(t)
    \/ ConsoleV(t)
    \/ CopyToUser(t)

(* The calls on semaphores, files and the console, Halt, the call of Exit  *)
(* and the return from Exec are such steps.                                *)
LEMMA QuietStepQuiet ==
    ASSUME TypeOK, NEW t \in Threads, QuietStep(t) PROVE Quiet
<1>0. /\ pc \in [Threads -> Labels] /\ local \in [Threads -> Threads \cup Semaphores \cup {NULL}]
      /\ currentThread \in Threads \cup {NULL}
    BY DEF TypeOK
<1> USE <1>0 DEF Quiet, Ordinary, Labels, At, Makes, processVars, memoryVars
<1>1. CASE Halt(t)
    BY <1>1 DEF Halt
<1>2. CASE ReturnFromExec(t)
    BY <1>2 DEF ReturnFromExec
<1>3. CASE CallExit(t)
    BY <1>3 DEF CallExit
<1>4. CASE SemCreate(t)
    BY <1>4 DEF SemCreate
<1>5. CASE SemDestroy(t)
    BY <1>5 DEF SemDestroy, Sleepers
<1>6. CASE DeleteSemaphore(t)
    BY <1>6 DEF DeleteSemaphore
<1>7. CASE SemSignal(t)
    BY <1>7 DEF SemSignal, Sleepers
<1>8. CASE SemWait(t)
    BY <1>8 DEF SemWait
<1>9. CASE TestInP(t)
    BY <1>9 DEF TestInP
<1>10. CASE OpenFile(t)
    BY <1>10 DEF OpenFile
<1>11. CASE CloseFile(t)
    BY <1>11 DEF CloseFile
<1>12. CASE Create(t)
    BY <1>12 DEF Create
<1>13. CASE Read(t)
    BY <1>13 DEF Read, consoleUnchanged
<1>14. CASE Write(t)
    BY <1>14 DEF Write, consoleUnchanged
<1>15. CASE ConsoleP(t)
    BY <1>15 DEF ConsoleP, consoleUnchanged
<1>16. CASE ConsoleV(t)
    BY <1>16 DEF ConsoleV, consoleUnchanged, PcAfterV, ConsoleAsleep
<1>17. CASE CopyToUser(t)
    BY <1>17 DEF CopyToUser, consoleUnchanged
<1> QED
    BY <1>1, <1>2, <1>3, <1>4, <1>5, <1>6, <1>7, <1>8, <1>9,
       <1>10, <1>11, <1>12, <1>13, <1>14, <1>15, <1>16, <1>17, Zenon DEF QuietStep

-----------------------------------------------------------------------------
(* Types.                                                                  *)

(* openFilesTable::Open, on a table with a free position.                  *)
LEMMA OpenTypes ==
    ASSUME NEW Values, NEW table \in Tables(Values), NEW value \in Values \cup {NULL}, HasRoom(table)
    PROVE  Open(table, value) \in Tables(Values)
BY FreePos DEF Open, Tables

(* openFilesTable::Close.                                                  *)
LEMMA CloseTypes ==
    ASSUME NEW Values, NEW table \in Tables(Values), NEW positions
    PROVE  Close(table, positions) \in Tables(Values)
BY DEF Close, Tables

(* openFilesTable::copyTable.                                              *)
LEMMA CopyTypes ==
    ASSUME NEW Values, NEW new \in Tables(Values), NEW other \in Tables(Values)
    PROVE  copyTable(new, other) \in Tables(Values)
BY DEF copyTable, Tables

-----------------------------------------------------------------------------
(* Tables that fathers hand to their children: of files and of semaphores. *)

(* The thread itself opened what is at the position, or inherited it from  *)
(* a father who still has it there.                                        *)
Traced(table, father, t, p) ==
    \/ p \in table[t].openedByCurrentThread
    \/ /\ father[t] \in Threads /\ p \in table[father[t]].map
       /\ table[father[t]].openFiles[p] = table[t].openFiles[p]

Owns(table, R, t, v) == \E p \in Opened(table[t]) \ R : table[t].openFiles[p] = v

(* What the threads A have in their tables, but for the positions R, can   *)
(* be traced to the one who opened it, is among the values that exist, or  *)
(* tells of a failure, and was opened by one of them at most.              *)
Shared(A, father, table, R, existing, failures) ==
    /\ \A t \in A : \A p \in table[t].map \ R :
          /\ Traced(table, father, t, p)
          /\ table[t].openFiles[p] \in existing \cup failures
    /\ \A t, u \in A : \A v :
          v \notin failures /\ Owns(table, R, t, v) /\ Owns(table, R, u, v) => t = u

(* The threads A come with their fathers, and none is a child of u.        *)
WithFathers(A) == \A t \in A : fatherProcess[t] \in Threads => fatherProcess[t] \in A

Childless(A, u) == \A t \in A : fatherProcess[t] # u

(* Nobody is an ancestor of itself: every set of threads has one that has  *)
(* no father in the set.                                                   *)
Tree == \A X \in SUBSET Threads : X # {} => \E t \in X : fatherProcess[t] \notin X

(* What a thread without children opened no other one has.                 *)
LEMMA OnlyTheOwner ==
    ASSUME Tree, NEW A \in SUBSET Threads, NEW table, NEW R, NEW existing, NEW failures,
           Shared(A, fatherProcess, table, R, existing, failures),
           WithFathers(A), NEW u \in A, Childless(A, u),
           NEW v, v \notin failures, Owns(table, R, u, v)
    PROVE  \A t \in A \ {u} : \A p \in table[t].map \ R : table[t].openFiles[p] # v
<1> DEFINE Names(w) == \E q \in table[w].map \ R : table[w].openFiles[q] = v
           X == {w \in A \ {u} : Names(w)}
<1> SUFFICES ASSUME X # {} PROVE FALSE
    BY Zenon
<1>1. PICK w \in X : fatherProcess[w] \notin X
    BY Zenon DEF Tree
<1>2. w \in A /\ w # u
    BY Zenon
<1>3. PICK q \in table[w].map \ R : table[w].openFiles[q] = v
    BY Zenon
<1>4. ~Owns(table, R, w, v)
    BY <1>2, Zenon DEF Shared
<1>5. q \notin table[w].openedByCurrentThread
    BY <1>3, <1>4, ZenonT(40) DEF Owns, Opened
<1>6. PICK f : f = fatherProcess[w]
    BY Zenon
<1>7. /\ f \in Threads /\ q \in table[f].map \ R
      /\ table[f].openFiles[q] = v
    BY <1>2, <1>3, <1>5, <1>6, ZenonT(40) DEF Shared, Traced
<1>8. f \in A /\ f # u
    BY <1>2, <1>6, <1>7, ZenonT(40) DEF WithFathers, Childless
<1>9. Names(f)
    BY <1>7, ZenonT(40)
<1>10. f \in X
    BY <1>8, <1>9, Zenon
<1> QED
    BY <1>1, <1>6, <1>10, ZenonT(40)

(* new is old after Open has put v at the position pos.                    *)
Opens(old, new, pos, v) ==
    /\ pos \notin old.map
    /\ new.map = old.map \cup {pos}
    /\ new.openedByCurrentThread = old.openedByCurrentThread \cup {pos}
    /\ new.openFiles[pos] = v
    /\ \A p \in old.map : new.openFiles[p] = old.openFiles[p]

(* openFilesTable::Open does so.                                           *)
LEMMA OpenedTable ==
    ASSUME NEW Values, NEW table \in Tables(Values), NEW v, HasRoom(table)
    PROVE  \E pos : Opens(table, Open(table, v), pos, v)
<1>1. PICK pos \in Positions \ table.map : pos = NextFreePos(table)
    BY FreePos, Zenon
<1>2. Opens(table, Open(table, v), pos, v)
    BY <1>1 DEF Open, Tables, Opens
<1> QED
    BY <1>2, Zenon

(* A value that did not exist is opened, or a failure.                     *)
LEMMA SharedOpen ==
    ASSUME NEW A \in SUBSET Threads, NEW father, NEW table, NEW R, NEW existing, NEW failures,
           Shared(A, father, table, R, existing, failures),
           NEW t \in A, NEW v, NEW table2, NEW existing2,
           NEW pos, Opens(table[t], table2[t], pos, v),
           \A u \in Threads \ {t} : table2[u] = table[u],
           existing \subseteq existing2, v \in failures \/ v \in existing2 \ existing
    PROVE  Shared(A, father, table2, R, existing2, failures)
<1>2. /\ table2[t].map = table[t].map \cup {pos}
      /\ table2[t].openedByCurrentThread = table[t].openedByCurrentThread \cup {pos}
    BY Zenon DEF Opens
<1>3. table2[t].openFiles[pos] = v /\ \A p \in table[t].map : table2[t].openFiles[p] = table[t].openFiles[p]
    BY Zenon DEF Opens
<1>4. ASSUME NEW u \in A, NEW p \in table2[u].map \ R
      PROVE  Traced(table2, father, u, p) /\ table2[u].openFiles[p] \in existing2 \cup failures
    <2>1. CASE u = t /\ p = pos
        BY <1>2, <1>3, <2>1, Zenon DEF Traced
    <2>2. CASE ~(u = t /\ p = pos)
        <3>1. p \in table[u].map \ R /\ table2[u].openFiles[p] = table[u].openFiles[p]
            BY <1>2, <1>3, <1>4, <2>2, Zenon
        <3>2. Traced(table, father, u, p) /\ table[u].openFiles[p] \in existing \cup failures
            BY <3>1, Zenon DEF Shared
        <3>3. ASSUME p \in table[u].openedByCurrentThread PROVE Traced(table2, father, u, p)
            <4>1. p \in table2[u].openedByCurrentThread
                BY <1>2, <3>3, ZenonT(40)
            <4> QED
                BY <4>1, ZenonT(40) DEF Traced
        <3>4. ASSUME NEW f, f = father[u], f \in Threads, p \in table[f].map,
                     table[f].openFiles[p] = table[u].openFiles[p]
              PROVE  Traced(table2, father, u, p)
            <4>1. p \in table2[f].map /\ table2[f].openFiles[p] = table[f].openFiles[p]
                BY <1>2, <1>3, <3>4, ZenonT(40)
            <4> QED
                BY <3>1, <3>4, <4>1, ZenonT(40) DEF Traced
        <3> QED
            BY <3>1, <3>2, <3>3, <3>4, Zenon DEF Traced
    <2> QED
        BY <2>1, <2>2, ZenonT(40)
<1>5. ASSUME NEW u \in A, NEW w, w \notin failures, Owns(table2, R, u, w)
      PROVE  Owns(table, R, u, w) \/ (u = t /\ w = v)
    <2>1. PICK p \in Opened(table2[u]) \ R : table2[u].openFiles[p] = w
        BY <1>5, ZenonT(40) DEF Owns
    <2>2. CASE u = t /\ p = pos
        BY <1>3, <2>1, <2>2, ZenonT(40)
    <2>3. CASE ~(u = t /\ p = pos)
        <3>1. p \in Opened(table[u]) \ R /\ table[u].openFiles[p] = w
            BY <1>2, <1>3, <2>1, <2>3, ZenonT(40) DEF Opened
        <3> QED
            BY <3>1, ZenonT(40) DEF Owns
    <2> QED
        BY <2>2, <2>3, ZenonT(40)
<1>6. ASSUME NEW u \in A, v \notin failures PROVE ~Owns(table, R, u, v)
    <2> SUFFICES ASSUME NEW p \in Opened(table[u]) \ R, table[u].openFiles[p] = v PROVE FALSE
        BY Zenon DEF Owns
    <2>1. p \in table[u].map \ R
        BY Zenon DEF Opened
    <2>2. v \in existing
        BY <1>6, <2>1, ZenonT(40) DEF Shared
    <2> QED
        BY <1>6, <2>2, ZenonT(40)
<1>7. ASSUME NEW u \in A, NEW w \in A, NEW x, x \notin failures, Owns(table2, R, u, x), Owns(table2, R, w, x)
      PROVE  u = w
    <2>1. CASE x = v
        BY <1>5, <1>6, <1>7, <2>1
    <2>2. CASE x # v
        <3>1. Owns(table, R, u, x) /\ Owns(table, R, w, x)
            BY <1>5, <1>7, <2>2
        <3> QED
            BY <1>7, <3>1, Zenon DEF Shared
    <2> QED
        BY <2>1, <2>2, Zenon
<1> QED
    BY <1>4, <1>7, Zenon DEF Shared

(* new is old after what from has was copied to it.                        *)
Copies(old, new, from) ==
    /\ new.map = old.map \cup from.map
    /\ new.openedByCurrentThread = {}
    /\ new.openFiles = from.openFiles

(* openFilesTable::copyTable does so.                                      *)
LEMMA CopiedTable ==
    ASSUME NEW old, NEW from, NEW new, new = copyTable(old, from) PROVE Copies(old, new, from)
BY DEF Copies, copyTable

(* A new thread n inherits the table of its father t.                      *)
Inherits(father, father2, table, table2, t, n) ==
    /\ Copies(table[n], table2[n], table[t])
    /\ father2[n] = t
    /\ \A u \in Threads \ {n} : table2[u] = table[u] /\ father2[u] = father[u]

(* copyTable into the table of a new thread.                               *)
LEMMA SharedCopy ==
    ASSUME NEW A \in SUBSET Threads, NEW father, NEW table, NEW R, NEW existing, NEW failures,
           Shared(A, father, table, R, existing, failures),
           NEW t \in A, NEW n \in Threads \ A, NEW father2, NEW table2,
           table[n].map \subseteq R, \A u \in A : father[u] # n,
           Inherits(father, father2, table, table2, t, n)
    PROVE  Shared(A \cup {n}, father2, table2, R, existing, failures)
<1>0. /\ Copies(table[n], table2[n], table[t]) /\ father2[n] = t
      /\ \A u \in Threads \ {n} : table2[u] = table[u] /\ father2[u] = father[u]
    BY Zenon DEF Inherits
<1>1. /\ table2[n].map = table[n].map \cup table[t].map
      /\ table2[n].openedByCurrentThread = {}
      /\ table2[n].openFiles = table[t].openFiles
    BY <1>0, Zenon DEF Copies
<1>2. t # n /\ table2[t] = table[t]
    BY <1>0, Zenon
<1>3. ASSUME NEW u \in A \cup {n}, NEW p \in table2[u].map \ R
      PROVE  Traced(table2, father2, u, p) /\ table2[u].openFiles[p] \in existing \cup failures
    <2>1. CASE u = n
        <3>1. p \in table[t].map \ R
            BY <1>1, <1>3, <2>1, Zenon
        <3>2. table[t].openFiles[p] \in existing \cup failures
            BY <3>1, Zenon DEF Shared
        <3> QED
            BY <1>0, <1>1, <1>2, <2>1, <3>1, <3>2, ZenonT(40) DEF Traced
    <2>2. CASE u # n
        <3>1. u \in A /\ table2[u] = table[u] /\ father2[u] = father[u] /\ father[u] # n
            BY <1>0, <2>2, Zenon
        <3>2. Traced(table, father, u, p) /\ table[u].openFiles[p] \in existing \cup failures
            BY <1>3, <3>1, Zenon DEF Shared
        <3>3. father[u] \in Threads => table2[father[u]] = table[father[u]]
            BY <1>0, <3>1, Zenon
        <3> QED
            BY <3>1, <3>2, <3>3, Zenon DEF Traced
    <2> QED
        BY <2>1, <2>2, ZenonT(40)
<1>4. ASSUME NEW u \in A \cup {n}, NEW v, Owns(table2, R, u, v)
      PROVE  u \in A /\ Owns(table, R, u, v)
    <2>1. u # n
        BY <1>1, <1>4, ZenonT(40) DEF Owns, Opened
    <2>2. u \in A /\ table2[u] = table[u]
        BY <1>0, <2>1, Zenon
    <2> QED
        BY <1>4, <2>2, Zenon DEF Owns
<1> QED
    BY <1>3, <1>4, Zenon DEF Shared

(* Exit of a thread without children: what it opened is closed.            *)
LEMMA SharedExit ==
    ASSUME Tree, NEW A \in SUBSET Threads, NEW table, NEW R, NEW existing, NEW failures,
           Shared(A, fatherProcess, table, R, existing, failures),
           WithFathers(A), NEW t \in A, Childless(A, t),
           NEW table2, \A u \in Threads \ {t} : table2[u] = table[u],
           NEW existing2, \A v \in existing : v \in existing2 \/ Owns(table, R, t, v)
    PROVE  Shared(A \ {t}, fatherProcess, table2, R, existing2, failures)
<1>0. ASSUME NEW v, v \notin failures, Owns(table, R, t, v)
      PROVE  \A w \in A \ {t} : \A q \in table[w].map \ R : table[w].openFiles[q] # v
    BY <1>0, OnlyTheOwner, SMT
<1>1. ASSUME NEW u \in A \ {t}, NEW p \in table2[u].map \ R
      PROVE  Traced(table2, fatherProcess, u, p) /\ table2[u].openFiles[p] \in existing2 \cup failures
    <2>1. u \in A /\ u # t /\ table2[u] = table[u] /\ fatherProcess[u] # t
        BY Zenon DEF Childless
    <2>2. Traced(table, fatherProcess, u, p) /\ table[u].openFiles[p] \in existing \cup failures
        BY <1>1, <2>1, Zenon DEF Shared
    <2>3. fatherProcess[u] \in Threads => table2[fatherProcess[u]] = table[fatherProcess[u]]
        BY <2>1, Zenon
    <2>4. Traced(table2, fatherProcess, u, p)
        BY <2>1, <2>2, <2>3, Zenon DEF Traced
    <2>5. PICK v : v = table[u].openFiles[p]
        BY Zenon
    <2>6. v \in failures \/ ~Owns(table, R, t, v)
        <3> SUFFICES ASSUME v \notin failures, Owns(table, R, t, v) PROVE FALSE
            BY Zenon
        <3>1. u \in A /\ u # t /\ p \in table[u].map \ R
            BY <1>1, <2>1, ZenonT(40)
        <3>2. \A w \in A \ {t} : \A q \in table[w].map \ R : table[w].openFiles[q] # v
            BY <1>0, Zenon
        <3> QED
            BY <2>5, <3>1, <3>2, Zenon
    <2>7. v \in existing2 \cup failures
        BY <2>2, <2>5, <2>6, Zenon
    <2> QED
        BY <2>1, <2>4, <2>5, <2>7, Zenon
<1>2. ASSUME NEW u \in A \ {t}, NEW v, Owns(table2, R, u, v) PROVE Owns(table, R, u, v)
    BY <1>2, Zenon DEF Owns
<1> QED
    BY <1>1, <1>2, Zenon DEF Shared

-----------------------------------------------------------------------------
(* The host's open returns a descriptor or -1.                             *)
LEMMA HostOpenTypes ==
    ASSUME TypeOK PROVE HostOpen \subseteq Files \cup {-1}
<1>1. ASSUME ~(Files \subseteq unixFiles) PROVE Min(Files \ unixFiles) \in Files
    <2>1. Files \ unixFiles \in SUBSET Nat /\ Files \ unixFiles # {}
        BY <1>1, ProcessesAssumption, ZenonT(40)
    <2> QED
        BY <2>1, MinOf
<1> QED
    BY <1>1 DEF HostOpen

(* The quiet calls keep the types.                                         *)
LEMMA QuietTypes ==
    ASSUME TypeOK, NEW t \in Threads, QuietStep(t) PROVE TypeOK'
<1> USE DEF TypeOK, At, Makes, processVars, memoryVars, tableVars, semVars, hostVars
<1>0. pc' \in [Threads -> Labels]
    BY QuietStepQuiet, Zenon DEF Quiet
<1> USE <1>0
<1>1. CASE Halt(t)
    BY <1>1, Zenon DEF Halt
<1>2. CASE ReturnFromExec(t)
    BY <1>2, Zenon DEF ReturnFromExec
<1>3. CASE CallExit(t)
    BY <1>3, Zenon DEF CallExit
<1>4. CASE SemCreate(t)
    <2>1. semStatus' \in [Semaphores -> {"unused", "live", "deleted"}] /\ semValue' \in [Semaphores -> Nat]
        BY <1>4 DEF SemCreate
    <2>2. associatedSemaphores' \in [Threads -> Tables(Semaphores)]
        <3>1. PICK s \in Semaphores :
                  associatedSemaphores' = [associatedSemaphores EXCEPT ![t] = Open(@, s)]
            BY <1>4, Zenon DEF SemCreate
        <3>2. Open(associatedSemaphores[t], s) \in Tables(Semaphores)
            BY <1>4, OpenTypes DEF SemCreate
        <3> QED
            BY <3>1, <3>2
    <2> QED
        BY <1>4, <2>1, <2>2, Zenon DEF SemCreate
<1>5. CASE SemDestroy(t)
    <2>1. PICK sem \in associatedSemaphores[t].map :
              /\ local' = [local EXCEPT ![t] = associatedSemaphores[t].openFiles[sem]]
              /\ associatedSemaphores' = [associatedSemaphores EXCEPT ![t] = Close(@, {sem})]
        BY <1>5, Zenon DEF SemDestroy, getUnixFileID
    <2>2. /\ Close(associatedSemaphores[t], {sem}) \in Tables(Semaphores)
          /\ associatedSemaphores[t] \in Tables(Semaphores)
        BY CloseTypes
    <2>3. associatedSemaphores[t].openFiles[sem] \in Semaphores \cup {NULL}
        BY <2>2 DEF Tables
    <2>4. /\ associatedSemaphores' \in [Threads -> Tables(Semaphores)]
          /\ local' \in [Threads -> Threads \cup Semaphores \cup {NULL}]
        BY <2>1, <2>2, <2>3
    <2> QED
        BY <1>5, <2>4, Zenon DEF SemDestroy
<1>6. CASE DeleteSemaphore(t)
    BY <1>6, Zenon DEF DeleteSemaphore
<1>7. CASE SemSignal(t)
    <2>1. semValue' \in [Semaphores -> Nat]
        <3>1. PICK s : semValue' = [semValue EXCEPT ![s] = semValue[s] + 1]
            BY <1>7, Zenon DEF SemSignal
        <3>2. CASE s \in Semaphores
            BY <3>1, <3>2
        <3>3. CASE s \notin Semaphores
            BY <3>1, <3>3, Zenon
        <3> QED
            BY <3>2, <3>3
    <2> QED
        BY <1>7, <2>1, Zenon DEF SemSignal
<1>8. CASE SemWait(t)
    BY <1>8 DEF SemWait, Named, getUnixFileID, Tables
<1>9. CASE TestInP(t)
    <2>1. semValue' \in [Semaphores -> Nat]
        <3>1. CASE semValue' = semValue
            BY <3>1
        <3>2. CASE /\ semValue[local[t]] > 0 \/ semStatus[local[t]] = "deleted"
                   /\ semValue' = [semValue EXCEPT ![local[t]] =
                                      IF semStatus[local[t]] = "deleted" THEN @ ELSE @ - 1]
            <4>1. CASE local[t] \in Semaphores
                BY <3>2, <4>1
            <4>2. CASE local[t] \notin Semaphores
                BY <3>2, <4>2, Zenon
            <4> QED
                BY <4>1, <4>2
        <3> QED
            BY <1>9, <3>1, <3>2 DEF TestInP
    <2>2. local' \in [Threads -> Threads \cup Semaphores \cup {NULL}]
        BY <1>9 DEF TestInP
    <2> QED
        BY <1>9, <2>1, <2>2, Zenon DEF TestInP
<1>10. CASE OpenFile(t)
    <2>1. PICK UnixFileID \in HostOpen :
              /\ unixFiles' = unixFiles \cup ({UnixFileID} \ {-1})
              /\ openedFilesTable' = [openedFilesTable EXCEPT ![t] = Open(@, UnixFileID)]
        BY <1>10, Zenon DEF OpenFile
    <2>2. UnixFileID \in Files \cup {-1}
        BY HostOpenTypes, Zenon
    <2>3. Open(openedFilesTable[t], UnixFileID) \in Tables(Files \cup {-1})
        BY <1>10, <2>2, OpenTypes, Zenon DEF OpenFile
    <2>4. unixFiles' \subseteq Files /\ openedFilesTable' \in [Threads -> Tables(Files \cup {-1})]
        BY <2>1, <2>2, <2>3, Zenon
    <2> QED
        BY <1>10, <2>4, Zenon DEF OpenFile
<1>11. CASE CloseFile(t)
    <2>1. PICK file \in openedFilesTable[t].map :
              openedFilesTable' = [openedFilesTable EXCEPT ![t] = Close(@, {file})]
        BY <1>11, Zenon DEF CloseFile
    <2>2. Close(openedFilesTable[t], {file}) \in Tables(Files \cup {-1})
        BY CloseTypes, Zenon
    <2>3. unixFiles' \subseteq Files /\ openedFilesTable' \in [Threads -> Tables(Files \cup {-1})]
        BY <1>11, <2>1, <2>2, Zenon DEF CloseFile
    <2> QED
        BY <1>11, <2>3, Zenon DEF CloseFile
<1>12. CASE Create(t)
    BY <1>12, HostOpenTypes, Zenon DEF Create
<1>13. CASE Read(t)
    BY <1>13, Zenon DEF Read, consoleUnchanged
<1>14. CASE Write(t)
    BY <1>14, Zenon DEF Write, consoleUnchanged
<1>15. CASE ConsoleP(t)
    <2>1. consoleMutex' \in Nat
        BY <1>15 DEF ConsoleP
    <2> QED
        BY <1>15, <2>1, Zenon DEF ConsoleP, consoleUnchanged
<1>16. CASE ConsoleV(t)
    <2>1. consoleMutex' \in Nat
        BY <1>16, SMTT(30) DEF ConsoleV
    <2> QED
        BY <1>16, <2>1, Zenon DEF ConsoleV, consoleUnchanged
<1>17. CASE CopyToUser(t)
    BY <1>17, Zenon DEF CopyToUser, consoleUnchanged
<1> QED
    BY <1>1, <1>2, <1>3, <1>4, <1>5, <1>6, <1>7, <1>8, <1>9,
       <1>10, <1>11, <1>12, <1>13, <1>14, <1>15, <1>16, <1>17, Zenon DEF QuietStep

-----------------------------------------------------------------------------
(* The other steps.                                                        *)

(* A step after which no thread is live that was not, and none is back     *)
(* from Exit, keeps JoinInv as long as the table and the joiners stay.     *)
LEMMA KeepJoin ==
    ASSUME PInv, pc' \in [Threads -> Labels],
           \A u \in Threads : (Live(u)' => Live(u)) /\ (Left(u) => Left(u)'),
           \A u \in Threads : (pc[u] = "Join") = (pc[u] = "Join")',
           UNCHANGED <<local, fatherProcess, pid, occupant, threadsTable, joinSem>>
    PROVE  JoinInv'
<1>1. ASSUME NEW u \in Threads PROVE Entry(u)' /\ Joiner(u)'
    <2>1. Entry(u) /\ Joiner(u) /\ (pid[u] \in Positions <=> fatherProcess[u] # NULL)
        BY Zenon DEF PInv, JoinInv
    <2>2. Entry(u)'
        BY <2>1 DEF Entry
    <2>3. fatherProcess[u] # NULL => threadsTable.openFiles[pid[u]] \in Threads \cup {NULL}
        BY <2>1 DEF Tables, PInv, TypeOK
    <2>4. Joiner(u)'
        BY <2>1, <2>3, Zenon DEF Joiner
    <2> QED
        BY <2>2, <2>4
<1>2. ASSUME NEW u \in Threads, (pc[u] = "Join")'
      PROVE  (local[u] \in Threads /\ (joinSem[u] > 0 => Left(local[u])))'
    BY <1>2 DEF PInv, JoinInv
<1> QED
    BY <1>1, <1>2, Zenon DEF PInv, JoinInv

(* Scheduler::Run: a thread that has a program gets its own space loaded,  *)
(* and the carcass that is destroyed is of a thread that has finished.     *)
LEMMA DispatchInv ==
    ASSUME PInv, NEW n \in Threads, Dispatch(n) PROVE PInv'
<1> USE DEF Dispatch, processVars, tableVars, semVars, hostVars, memoryVars
<1>0. /\ NULL \notin Threads
      /\ threadToBeDestroyed # NULL => pc[threadToBeDestroyed] = "finished"
      /\ pc \in [Threads -> Labels] /\ space \in [Threads -> Spaces \cup {NULL}]
    BY ProcessesAssumption DEF PInv, TypeOK, SpaceInv
<1>1. CASE pc[n] = "fresh" /\ StartRun(n)
    <2>1. TypeOK'
        BY <1>1, Zenon DEF PInv, TypeOK, StartRun, Labels
    <2>2. SpaceInv'
        BY <1>0, <1>1 DEF PInv, SpaceInv, StartRun, Running, Ordinary
    <2>3. JoinInv'
        <3>1. pc' \in [Threads -> Labels]
            BY <2>1 DEF TypeOK
        <3>2. /\ \A u \in Threads : (Live(u)' => Live(u)) /\ (Left(u) => Left(u)')
              /\ \A u \in Threads : (pc[u] = "Join") = (pc[u] = "Join")'
            BY <1>0, <1>1 DEF StartRun, Live, Left
        <3> QED
            BY <1>1, <3>1, <3>2, KeepJoin
    <2> QED
        BY <2>1, <2>2, <2>3 DEF PInv
<1>2. CASE pc[n] # "fresh" /\ ResumeRun(n)
    <2>1. TypeOK'
        <3>1. /\ pc' \in [Threads -> Labels]
              /\ space' \in [Threads -> Spaces \cup {NULL}]
              /\ mainMemoryMap' \subseteq Frames \cup {-1}
            BY <1>0, <1>2 DEF PInv, TypeOK, ResumeRun, Labels
        <3>2. pageTable' \in Threads
            BY <1>2 DEF PInv, TypeOK, ResumeRun, RestoreState
        <3> QED
            BY <1>2, <3>1, <3>2, ZenonT(40) DEF PInv, TypeOK, ResumeRun
    <2>2. SpaceInv'
        <3>1. n # threadToBeDestroyed
            BY <1>0 DEF Runnable
        <3>2. \A u \in Threads : u # threadToBeDestroyed => pc'[u] = pc[u] /\ space'[u] = space[u]
            BY <1>0, <1>2 DEF ResumeRun
        <3>3. \A u \in Threads : u = threadToBeDestroyed => pc'[u] = "deleted"
            BY <1>0, <1>2 DEF ResumeRun
        <3>4. threadToBeDestroyed' = NULL /\ currentThread' = n
              /\ pageTable' = IF space[n] # NULL THEN n ELSE pageTable
            BY <1>2 DEF ResumeRun, RestoreState
        <3> QED
            BY <1>0, <3>1, <3>2, <3>3, <3>4 DEF PInv, SpaceInv, Running, Ordinary
    <2>3. JoinInv'
        <3>1. pc' \in [Threads -> Labels]
            BY <2>1 DEF TypeOK
        <3>2. /\ \A u \in Threads : (Live(u)' => Live(u)) /\ (Left(u) => Left(u)')
              /\ \A u \in Threads : (pc[u] = "Join") = (pc[u] = "Join")'
            BY <1>0, <1>2 DEF ResumeRun, Live, Left
        <3> QED
            BY <3>1, <3>2, KeepJoin
    <2> QED
        BY <2>1, <2>2, <2>3 DEF PInv
<1> QED
    BY <1>1, <1>2

(* nachosExecThread gives the thread a space and loads it, or finishes.    *)
LEMMA nachosExecThreadInv ==
    ASSUME PInv, NEW t \in Threads, nachosExecThread(t) PROVE PInv'
<1> USE DEF nachosExecThread, At, processVars, tableVars, semVars, hostVars, memoryVars
<1>0. /\ NULL \notin Threads /\ NULL \notin Spaces /\ LoadedSpace \in Spaces
      /\ threadToBeDestroyed \in Threads \cup {NULL}
      /\ pc \in [Threads -> Labels] /\ space \in [Threads -> Spaces \cup {NULL}]
    BY ProcessesAssumption, SpaceTypes DEF PInv, TypeOK
<1>1. pc' \in [Threads -> Labels] /\ pc'[t] \in {"finished", "user"}
      /\ \A u \in Threads : u # t => pc'[u] = pc[u]
    BY <1>0, Zenon DEF Finish, Labels
<1>2. TypeOK'
    <2>1. /\ space' \in [Threads -> Spaces \cup {NULL}]
          /\ pageTable' \in Threads /\ threadToBeDestroyed' \in Threads \cup {NULL}
        BY <1>0 DEF Finish, PInv, TypeOK
    <2>2. mainMemoryMap' \subseteq Frames \cup {-1}
        BY <1>0, SMTT(30) DEF PInv, TypeOK, Spaces
    <2> QED
        BY <1>1, <2>1, <2>2, Zenon DEF PInv, TypeOK
<1>3. SpaceInv'
    BY <1>0, <1>1 DEF PInv, SpaceInv, Finish, Running, Ordinary
<1>4. JoinInv'
    BY <1>1, KeepJoin DEF Live, Left
<1> QED
    BY <1>2, <1>3, <1>4, Zenon DEF PInv

(* NachosForkThread loads the space that Nachos_Fork gave the thread.      *)
LEMMA NachosForkThreadInv ==
    ASSUME PInv, NEW t \in Threads, NachosForkThread(t) PROVE PInv'
<1> USE DEF NachosForkThread, At, RestoreState, processVars, tableVars, semVars, hostVars, memoryVars
<1>0. NULL \notin Threads /\ pc \in [Threads -> Labels]
    BY ProcessesAssumption DEF PInv, TypeOK
<1>1. pc' \in [Threads -> Labels] /\ pc'[t] = "user" /\ \A u \in Threads : u # t => pc'[u] = pc[u]
    BY <1>0 DEF Labels
<1>2. TypeOK'
    BY <1>1, ZenonT(40) DEF PInv, TypeOK
<1>3. SpaceInv'
    BY <1>0, <1>1, SMTT(30) DEF PInv, SpaceInv, Running, Ordinary
<1>4. JoinInv'
    BY <1>1, KeepJoin, Zenon DEF Live, Left
<1> QED
    BY <1>2, <1>3, <1>4 DEF PInv

(* What Exec and Fork have in common: n is new, and all others stay as     *)
(* they are for the threads table.                                         *)
Created(t, n, f) ==
    /\ NewThread(t, n, f)
    /\ pc' \in [Threads -> Labels] /\ pc'[n] = "fresh"
    /\ \A u \in Threads \ {n} :
          /\ Live(u)' = Live(u) /\ Left(u)' = Left(u)
          /\ (pc[u] = "Join") = (pc'[u] = "Join")
          /\ pc[u] = "Join" => local'[u] = local[u]
    /\ joinSem' = joinSem

(* Thread::Thread and Fork: a new entry for the new thread, without joiner. *)
LEMMA NewThreadInv ==
    ASSUME PInv, NEW t \in Threads, NEW n \in Threads, NEW f \in {"Exec", "Fork"},
           Created(t, n, f)
    PROVE  /\ JoinInv'
           /\ workload' \in Workloads
           /\ fatherProcess' \in [Threads -> Threads \cup {NULL}]
           /\ pid' \in [Threads -> Positions \cup {-1}]
           /\ function' \in [Threads -> {"Exec", "Fork", NULL}]
           /\ threadsTable' \in Tables(Threads)
           /\ occupant' \in [Positions -> Threads \cup {NULL}]
<1> DEFINE p == NextFreePos(threadsTable)
<1>0. p \in Positions \ threadsTable.map /\ threadsTable \in Tables(Threads)
      /\ NULL \notin Threads
    BY FreePos, ProcessesAssumption DEF Created, NewThread, PInv, TypeOK
<1>1. /\ fatherProcess \in [Threads -> Threads \cup {NULL}] /\ pid \in [Threads -> Positions \cup {-1}]
      /\ function \in [Threads -> {"Exec", "Fork", NULL}] /\ workload \in Workloads
      /\ occupant \in [Positions -> Threads \cup {NULL}] /\ pc \in [Threads -> Labels]
    BY DEF PInv, TypeOK
<1>2. threadsTable' = Open(threadsTable, NULL) /\ threadsTable' \in Tables(Threads)
    BY <1>0, OpenTypes, ZenonT(40) DEF Created, NewThread
<1>3. /\ workload' = workload
      /\ fatherProcess' = [fatherProcess EXCEPT ![n] = t]
      /\ pid' = [pid EXCEPT ![n] = p]
      /\ function' = [function EXCEPT ![n] = f]
      /\ occupant' = [occupant EXCEPT ![p] = n]
      /\ pc[n] = "none"
    BY ZenonT(40) DEF Created, NewThread
<1>4. /\ fatherProcess' \in [Threads -> Threads \cup {NULL}]
      /\ pid' \in [Threads -> Positions \cup {-1}]
      /\ function' \in [Threads -> {"Exec", "Fork", NULL}]
      /\ occupant' \in [Positions -> Threads \cup {NULL}]
    BY <1>0, <1>1, <1>3
<1>5. /\ threadsTable'.map = threadsTable.map \cup {p}
      /\ threadsTable'.openFiles[p] = NULL
      /\ \A q \in Positions \ {p} : threadsTable'.openFiles[q] = threadsTable.openFiles[q]
    BY <1>0, <1>2 DEF Open, Tables
<1> HIDE DEF p
<1>6. \A u \in Threads : pid'[u] \in Positions <=> fatherProcess'[u] # NULL
    BY <1>0, <1>1, <1>3 DEF PInv, JoinInv
<1>7. \A q \in threadsTable'.map : occupant'[q] \in Threads
    BY <1>0, <1>1, <1>3, <1>5 DEF PInv, JoinInv, Tables
<1>8. Entry(n)' /\ Joiner(n)'
    BY <1>0, <1>1, <1>3, <1>5, Zenon DEF Created, Entry, Joiner
<1>9. ASSUME NEW u \in Threads \ {n} PROVE Entry(u)' /\ Joiner(u)'
    <2>1. Entry(u) /\ Joiner(u) /\ (pid[u] \in Positions <=> fatherProcess[u] # NULL)
        BY DEF PInv, JoinInv
    <2>2. fatherProcess'[u] = fatherProcess[u] /\ pid'[u] = pid[u]
          /\ Live(u)' = Live(u) /\ Left(u)' = Left(u)
        BY <1>1, <1>3, Zenon DEF Created
    <2>3. Entry(u)'
        BY <1>0, <1>1, <1>3, <1>5, <2>1, <2>2 DEF Entry
    <2>4. ASSUME fatherProcess[u] # NULL, Live(u), ~Left(u), threadsTable'.openFiles[pid[u]] # NULL
          PROVE  LET j == threadsTable'.openFiles[pid[u]] IN
                 pc'[j] = "Join" /\ local'[j] = u /\ joinSem'[j] = 0
        <3> DEFINE j == threadsTable.openFiles[pid[u]]
        <3>1. pid[u] \in threadsTable.map /\ pid[u] # p /\ pid[u] \in Positions
            BY <1>0, <2>1, <2>4 DEF Entry
        <3>2. threadsTable'.openFiles[pid[u]] = j /\ j \in Threads
            BY <1>0, <1>5, <2>4, <3>1 DEF Tables
        <3>3. pc[j] = "Join" /\ local[j] = u /\ joinSem[j] = 0
            BY <2>1, <2>4, <3>2 DEF Joiner
        <3>4. j # n
            BY <1>3, <3>3
        <3> HIDE DEF j
        <3> QED
            BY <3>2, <3>3, <3>4, Zenon DEF Created
    <2>5. Joiner(u)'
        BY <2>2, <2>4 DEF Joiner
    <2> QED
        BY <2>3, <2>5
<1>10. ASSUME NEW u \in Threads, (pc[u] = "Join")'
       PROVE  (local[u] \in Threads /\ (joinSem[u] > 0 => Left(local[u])))'
    <2>1. u # n /\ pc[u] = "Join" /\ local'[u] = local[u]
        BY <1>10 DEF Created
    <2>2. local[u] \in Threads /\ (joinSem[u] > 0 => Left(local[u]))
        BY <2>1 DEF PInv, JoinInv
    <2>3. Left(n) = FALSE
        BY <1>3 DEF Left
    <2> QED
        BY <2>1, <2>2, <2>3 DEF Created, Left
<1>11. JoinInv'
    BY <1>6, <1>7, <1>8, <1>9, <1>10 DEF JoinInv
<1> QED
    BY <1>1, <1>2, <1>3, <1>4, <1>11

(* Nachos_Exec.                                                            *)
LEMMA ExecInv ==
    ASSUME PInv, NEW t \in Threads, Exec(t) PROVE PInv'
<1> USE DEF At, Makes, tableVars, semVars, hostVars, memoryVars
<1>0. NULL \notin Threads /\ pc \in [Threads -> Labels] /\ pc[t] = "user"
      /\ function \in [Threads -> {"Exec", "Fork", NULL}]
      /\ local \in [Threads -> Threads \cup Semaphores \cup {NULL}]
      /\ threadToBeDestroyed \in Threads \cup {NULL}
    BY ProcessesAssumption DEF PInv, TypeOK, Exec
<1>1. PICK n \in Threads : /\ NewThread(t, n, "Exec")
                           /\ pc' = [pc EXCEPT ![n] = "fresh", ![t] = "Exec"]
                           /\ local' = [local EXCEPT ![t] = n]
    BY Zenon DEF Exec
<1>2. pc[n] = "none" /\ n # t /\ function' = [function EXCEPT ![n] = "Exec"]
    BY <1>0, <1>1 DEF NewThread
<1>3. /\ pc' \in [Threads -> Labels] /\ pc'[n] = "fresh" /\ pc'[t] = "Exec"
      /\ \A u \in Threads \ {n, t} : pc'[u] = pc[u]
      /\ \A u \in Threads \ {t} : local'[u] = local[u]
      /\ local' \in [Threads -> Threads \cup Semaphores \cup {NULL}]
    BY <1>0, <1>1, <1>2 DEF Labels
<1>4. UNCHANGED <<currentThread, tableVars, usage, memoryVars, threadToBeDestroyed, joinSem,
                  semVars, hostVars>>
    BY DEF Exec
<1>5. Created(t, n, "Exec")
    BY <1>0, <1>1, <1>3, <1>4 DEF Created, Live, Left
<1>6. /\ JoinInv'
      /\ workload' \in Workloads
      /\ fatherProcess' \in [Threads -> Threads \cup {NULL}]
      /\ pid' \in [Threads -> Positions \cup {-1}]
      /\ function' \in [Threads -> {"Exec", "Fork", NULL}]
      /\ threadsTable' \in Tables(Threads)
      /\ occupant' \in [Positions -> Threads \cup {NULL}]
    BY <1>5, NewThreadInv
<1>7. TypeOK'
    BY <1>3, <1>4, <1>6, Zenon DEF PInv, TypeOK
<1>8. SpaceInv'
    BY <1>0, <1>2, <1>3, <1>4 DEF PInv, SpaceInv, Running, Ordinary
<1> QED
    BY <1>6, <1>7, <1>8 DEF PInv

(* Nachos_Fork: the child has a space before it is started.                *)
LEMMA ForkInv ==
    ASSUME PInv, NEW t \in Threads, Fork(t) PROVE PInv'
<1> USE DEF At, Makes, semVars, hostVars
<1>0. /\ NULL \notin Threads \cup Spaces /\ pc \in [Threads -> Labels] /\ pc[t] = "user"
      /\ function \in [Threads -> {"Exec", "Fork", NULL}]
      /\ space \in [Threads -> Spaces \cup {NULL}] /\ space[t] # NULL
      /\ threadToBeDestroyed \in Threads \cup {NULL}
    BY ProcessesAssumption, Zenon DEF PInv, TypeOK, SpaceInv, Fork, Running, Ordinary
<1>1. PICK n \in Threads :
          /\ NewThread(t, n, "Fork")
          /\ pc' = [pc EXCEPT ![n] = "fresh"]
          /\ openedFilesTable' = [openedFilesTable EXCEPT ![n] = copyTable(@, openedFilesTable[t])]
          /\ associatedSemaphores' =
                [associatedSemaphores EXCEPT ![n] = copyTable(@, associatedSemaphores[t])]
          /\ space' = [space EXCEPT ![n] = CopiedSpace(space[t])]
          /\ mainMemoryMap' = mainMemoryMap \cup {CopiedSpace(space[t]).stack}
    BY ZenonT(40) DEF Fork
<1>2. pc[n] = "none" /\ n # t /\ function' = [function EXCEPT ![n] = "Fork"]
    BY <1>0, <1>1 DEF NewThread
<1>3. /\ pc' \in [Threads -> Labels] /\ pc'[n] = "fresh"
      /\ \A u \in Threads \ {n} : pc'[u] = pc[u]
    BY <1>0, <1>1, <1>2 DEF Labels
<1>4. CopiedSpace(space[t]) \in Spaces
    BY <1>0, SpaceTypes
<1>5. /\ UNCHANGED <<currentThread, local, pageTable, threadToBeDestroyed, joinSem, semVars,
                     hostVars>>
      /\ usage' = [usage EXCEPT ![t] = @ + 1]
    BY DEF Fork, addThread
<1>6. /\ JoinInv'
      /\ workload' \in Workloads
      /\ fatherProcess' \in [Threads -> Threads \cup {NULL}]
      /\ pid' \in [Threads -> Positions \cup {-1}]
      /\ function' \in [Threads -> {"Exec", "Fork", NULL}]
      /\ threadsTable' \in Tables(Threads)
      /\ occupant' \in [Positions -> Threads \cup {NULL}]
    <2>1. Created(t, n, "Fork")
        BY <1>1, <1>3, <1>5 DEF Created, Live, Left
    <2> QED
        BY <2>1, NewThreadInv
<1>7. TypeOK'
    <2>1. /\ openedFilesTable \in [Threads -> Tables(Files \cup {-1})]
          /\ associatedSemaphores \in [Threads -> Tables(Semaphores)]
        BY Zenon DEF PInv, TypeOK
    <2>2. /\ copyTable(openedFilesTable[n], openedFilesTable[t]) \in Tables(Files \cup {-1})
          /\ copyTable(associatedSemaphores[n], associatedSemaphores[t]) \in Tables(Semaphores)
        BY <2>1, CopyTypes
    <2>3. /\ openedFilesTable' \in [Threads -> Tables(Files \cup {-1})]
          /\ associatedSemaphores' \in [Threads -> Tables(Semaphores)]
        BY <1>1, <2>1, <2>2, Zenon
    <2>4. space' \in [Threads -> Spaces \cup {NULL}] /\ usage' \in [Threads -> Int]
        BY <1>0, <1>1, <1>4, <1>5 DEF PInv, TypeOK
    <2>5. mainMemoryMap' \subseteq Frames \cup {-1}
        BY <1>1, <1>4 DEF PInv, TypeOK, Spaces
    <2> QED
        BY <1>3, <1>5, <1>6, <2>3, <2>4, <2>5, Zenon DEF PInv, TypeOK
<1>8. SpaceInv'
    <2>1. space'[n] # NULL /\ \A u \in Threads \ {n} : space'[u] = space[u] /\ function'[u] = function[u]
        BY <1>0, <1>1, <1>2, <1>4
    <2> QED
        BY <1>0, <1>2, <1>3, <1>5, <2>1, ZenonT(40) DEF PInv, SpaceInv, Running, Ordinary
<1> QED
    BY <1>6, <1>7, <1>8 DEF PInv

-----------------------------------------------------------------------------
(* Join and Exit.                                                          *)

(* Nachos_Join: the entry it stores its semaphore in is of the thread that *)
(* it waits for; a joiner that it replaces is not signalled any more.      *)
LEMMA JoinStep ==
    ASSUME PInv, NEW t \in Threads, Join(t) PROVE PInv'
<1> USE DEF At, Makes, processVars, tableVars, semVars, hostVars, memoryVars
<1>0. /\ NULL \notin Threads /\ pc \in [Threads -> Labels] /\ pc[t] = "user"
      /\ local \in [Threads -> Threads \cup Semaphores \cup {NULL}]
      /\ joinSem \in [Threads -> Nat]
      /\ threadsTable \in Tables(Threads)
      /\ threadToBeDestroyed \in Threads \cup {NULL}
    BY ProcessesAssumption, Zenon DEF PInv, TypeOK, Join
<1>1. PICK p \in Positions : /\ p \in threadsTable.map
                             /\ threadsTable' = [threadsTable EXCEPT !.openFiles[p] = t]
                             /\ local' = [local EXCEPT ![t] = occupant[p]]
    BY Zenon DEF Join, isOpen, storeSemAdress
<1>2. occupant[p] \in Threads
    BY <1>1 DEF PInv, JoinInv
<1>3. /\ pc' = [pc EXCEPT ![t] = "Join"]
      /\ joinSem' = [joinSem EXCEPT ![t] = 0]
      /\ UNCHANGED <<currentThread, processVars, tableVars, usage, memoryVars,
                     threadToBeDestroyed, semVars, hostVars>>
    BY DEF Join, JoinInitialValue
<1>4. /\ threadsTable'.map = threadsTable.map
      /\ threadsTable'.openFiles[p] = t
      /\ \A q \in Positions \ {p} : threadsTable'.openFiles[q] = threadsTable.openFiles[q]
      /\ threadsTable' \in Tables(Threads)
    BY <1>0, <1>1 DEF Tables
<1>5. TypeOK'
    BY <1>0, <1>1, <1>2, <1>3, <1>4, Zenon DEF PInv, TypeOK, Labels
<1>6. SpaceInv'
    BY <1>0, <1>3 DEF PInv, SpaceInv, Running, Ordinary
<1>7. \A u \in Threads : Live(u)' = Live(u) /\ Left(u)' = Left(u)
    BY <1>0, <1>3 DEF Live, Left
<1>8. ASSUME NEW u \in Threads PROVE Entry(u)' /\ Joiner(u)'
    <2>1. Entry(u) /\ Joiner(u) /\ (pid[u] \in Positions <=> fatherProcess[u] # NULL)
        BY DEF PInv, JoinInv
    <2>2. Entry(u)'
        BY <1>3, <1>4, <1>7, <2>1 DEF Entry
    <2>3. CASE pid[u] = p
        BY <1>0, <1>1, <1>3, <1>4, <1>7, <2>1, <2>3 DEF Entry, Joiner
    <2>4. CASE pid[u] # p
        <3>1. fatherProcess[u] # NULL => /\ threadsTable'.openFiles[pid[u]] = threadsTable.openFiles[pid[u]]
                                         /\ threadsTable.openFiles[pid[u]] \in Threads \cup {NULL}
            BY <1>0, <1>4, <2>1, <2>4 DEF Tables
        <3>2. \A j \in Threads : pc[j] = "Join" =>
                  pc'[j] = "Join" /\ local'[j] = local[j] /\ joinSem'[j] = joinSem[j]
            BY <1>0, <1>1, <1>3
        <3>3. Joiner(u)'
            BY <1>3, <1>7, <2>1, <3>1, <3>2, ZenonT(40) DEF Joiner
        <3> QED
            BY <2>2, <3>3
    <2> QED
        BY <2>2, <2>3, <2>4
<1>9. ASSUME NEW u \in Threads, (pc[u] = "Join")'
      PROVE  (local[u] \in Threads /\ (joinSem[u] > 0 => Left(local[u])))'
    <2>1. CASE u = t
        BY <1>0, <1>1, <1>2, <1>3, <2>1
    <2>2. CASE u # t
        <3>1. pc[u] = "Join" /\ local'[u] = local[u] /\ joinSem'[u] = joinSem[u]
            BY <1>0, <1>1, <1>3, <1>9, <2>2
        <3> QED
            BY <1>7, <3>1 DEF PInv, JoinInv
    <2> QED
        BY <2>1, <2>2
<1>10. JoinInv'
    BY <1>3, <1>4, <1>8, <1>9, Zenon DEF PInv, JoinInv
<1> QED
    BY <1>5, <1>6, <1>10 DEF PInv

(* The end of Nachos_Join: the entries that are left name other joiners.   *)
LEMMA ReturnFromJoinStep ==
    ASSUME PInv, NEW t \in Threads, ReturnFromJoin(t) PROVE PInv'
<1> USE DEF At, Makes, processVars, tableVars, semVars, hostVars, memoryVars
<1>0. /\ NULL \notin Threads /\ pc \in [Threads -> Labels] /\ pc[t] = "Join" /\ joinSem[t] > 0
      /\ local \in [Threads -> Threads \cup Semaphores \cup {NULL}]
      /\ joinSem \in [Threads -> Nat]
      /\ threadsTable \in Tables(Threads)
      /\ threadToBeDestroyed \in Threads \cup {NULL}
    BY ProcessesAssumption, Zenon DEF PInv, TypeOK, ReturnFromJoin
<1>1. /\ pc' = [pc EXCEPT ![t] = "user"]
      /\ joinSem' = [joinSem EXCEPT ![t] = @ - 1]
      /\ local' = [local EXCEPT ![t] = NULL]
      /\ UNCHANGED <<currentThread, processVars, tableVars, usage, threadsTable, memoryVars,
                     threadToBeDestroyed, semVars, hostVars>>
    BY DEF ReturnFromJoin
<1>2. TypeOK'
    <2>1. /\ pc' \in [Threads -> Labels] /\ joinSem' \in [Threads -> Nat]
          /\ local' \in [Threads -> Threads \cup Semaphores \cup {NULL}]
        BY <1>0, <1>1 DEF Labels
    <2> QED
        BY <1>1, <2>1, Zenon DEF PInv, TypeOK
<1>3. SpaceInv'
    BY <1>0, <1>1, Zenon DEF PInv, SpaceInv, Running, Ordinary
<1>4. \A u \in Threads : Live(u)' = Live(u) /\ Left(u)' = Left(u)
    BY <1>0, <1>1 DEF Live, Left
<1>5. ASSUME NEW u \in Threads PROVE Entry(u)' /\ Joiner(u)'
    <2>1. Entry(u) /\ Joiner(u) /\ (pid[u] \in Positions <=> fatherProcess[u] # NULL)
        BY Zenon DEF PInv, JoinInv
    <2>2. Entry(u)'
        BY <1>1, <1>4, <2>1, Zenon DEF Entry
    <2>3. fatherProcess[u] # NULL => threadsTable.openFiles[pid[u]] \in Threads \cup {NULL}
        BY <1>0, <2>1 DEF Tables
    <2>4. Joiner(u)'
        <3>1. UNCHANGED <<fatherProcess, threadsTable, pid>>
            BY <1>1, Zenon
        <3>2. ASSUME NEW j \in Threads, joinSem[j] = 0
              PROVE  pc'[j] = pc[j] /\ local'[j] = local[j] /\ joinSem'[j] = joinSem[j]
            <4>1. j # t
                BY <1>0, <3>2
            <4> QED
                BY <1>0, <1>1, <4>1, Zenon
        <3> QED
            BY <1>4, <2>1, <2>3, <3>1, <3>2, Zenon DEF Joiner
    <2> QED
        BY <2>2, <2>4
<1>6. ASSUME NEW u \in Threads, (pc[u] = "Join")'
      PROVE  (local[u] \in Threads /\ (joinSem[u] > 0 => Left(local[u])))'
    <2>1. u # t /\ pc[u] = "Join" /\ local'[u] = local[u] /\ joinSem'[u] = joinSem[u]
        BY <1>0, <1>1, <1>6
    <2> QED
        BY <1>4, <2>1, Zenon DEF PInv, JoinInv
<1>7. JoinInv'
    BY <1>1, <1>5, <1>6, Zenon DEF PInv, JoinInv
<1> QED
    BY <1>2, <1>3, <1>7 DEF PInv

(* The end of Exit, from either place: only the entry of the thread itself *)
(* is closed.                                                              *)
LEMMA RemovedInv ==
    ASSUME PInv, NEW t \in Threads, pc[t] \in {"Exit", "Exit.V"}, RemoveAndFinish(t),
           UNCHANGED <<currentThread, local, processVars, memoryVars, joinSem>>
    PROVE  /\ SpaceInv' /\ JoinInv'
           /\ pc' \in [Threads -> Labels] /\ threadsTable' \in Tables(Threads)
<1> USE DEF processVars, memoryVars
<1>0. /\ NULL \notin Threads /\ pc \in [Threads -> Labels]
      /\ pid \in [Threads -> Positions \cup {-1}]
      /\ threadsTable \in Tables(Threads)
    BY ProcessesAssumption DEF PInv, TypeOK
<1>1. /\ pc' = [pc EXCEPT ![t] = "finished"] /\ threadToBeDestroyed' = t
      /\ threadsTable' \in Tables(Threads)
      /\ threadsTable'.openFiles = threadsTable.openFiles
      /\ threadsTable'.map \subseteq threadsTable.map
      /\ \A q \in threadsTable.map : q # pid[t] => q \in threadsTable'.map
    BY <1>0 DEF RemoveAndFinish, Finish, Close, Tables
<1>2. pc' \in [Threads -> Labels]
    BY <1>0, <1>1, Zenon DEF Labels
<1>3. SpaceInv'
    BY <1>0, <1>1, Zenon DEF PInv, SpaceInv, Running, Ordinary
<1>4. /\ ~Live(t)' /\ Left(t)' /\ Live(t)
      /\ \A u \in Threads \ {t} : Live(u)' = Live(u) /\ Left(u)' = Left(u)
    BY <1>0, <1>1, Zenon DEF Live, Left
<1>5. ASSUME NEW u \in Threads PROVE Entry(u)' /\ Joiner(u)'
    <2>1. CASE u = t
        BY <1>4, <2>1, Zenon DEF Entry, Joiner
    <2>2. CASE u # t
        <3>1. /\ Entry(u) /\ Joiner(u) /\ (pid[u] \in Positions <=> fatherProcess[u] # NULL)
              /\ Entry(t) /\ (pid[t] \in Positions <=> fatherProcess[t] # NULL)
            BY Zenon DEF PInv, JoinInv
        <3>2. Entry(u)'
            BY <1>0, <1>1, <1>4, <2>2, <3>1, ZenonT(40) DEF Entry, Tables
        <3>3. fatherProcess[u] # NULL => threadsTable.openFiles[pid[u]] \in Threads \cup {NULL}
            BY <1>0, <3>1, Zenon DEF Tables
        <3>4. Joiner(u)'
            BY <1>0, <1>1, <1>4, <2>2, <3>1, <3>3, ZenonT(40) DEF Joiner
        <3> QED
            BY <3>2, <3>4
    <2> QED
        BY <2>1, <2>2
<1>6. ASSUME NEW u \in Threads, (pc[u] = "Join")'
      PROVE  (local[u] \in Threads /\ (joinSem[u] > 0 => Left(local[u])))'
    <2>1. u # t /\ pc[u] = "Join"
        BY <1>0, <1>1, <1>6, Zenon
    <2> QED
        BY <1>4, <2>1, Zenon DEF PInv, JoinInv
<1>7. JoinInv'
    BY <1>1, <1>5, <1>6, Zenon DEF PInv, JoinInv
<1> QED
    BY <1>1, <1>2, <1>3, <1>7

(* Nachos_Exit after it has signalled its joiner.                          *)
LEMMA ExitAfterVStep ==
    ASSUME PInv, NEW t \in Threads, ExitAfterV(t) PROVE PInv'
<1>1. /\ SpaceInv' /\ JoinInv'
      /\ pc' \in [Threads -> Labels] /\ threadsTable' \in Tables(Threads)
    BY RemovedInv DEF ExitAfterV, At
<1>2. TypeOK'
    BY <1>1, ZenonT(40) DEF PInv, TypeOK, ExitAfterV, RemoveAndFinish, Finish, processVars, memoryVars,
                tableVars, semVars, hostVars
<1> QED
    BY <1>1, <1>2 DEF PInv

(* Nachos_Exit: the joiner it signals waits for this very thread.          *)
LEMMA ExitStep ==
    ASSUME PInv, NEW t \in Threads, Exit(t) PROVE PInv'
<1> USE DEF At, processVars, memoryVars
<1>0. /\ NULL \notin Threads /\ pc \in [Threads -> Labels] /\ pc[t] = "Exit"
      /\ pid \in [Threads -> Positions \cup {-1}]
      /\ joinSem \in [Threads -> Nat]
      /\ threadsTable \in Tables(Threads)
      /\ threadToBeDestroyed \in Threads \cup {NULL}
    BY ProcessesAssumption, Zenon DEF PInv, TypeOK, Exit
<1>1. UNCHANGED <<currentThread, local, processVars, memoryVars, semValue, consoleMutex>>
    BY ZenonT(40) DEF Exit
<1>2. /\ openedFilesTable' \in [Threads -> Tables(Files \cup {-1})]
      /\ associatedSemaphores' \in [Threads -> Tables(Semaphores)]
    <2>1. PICK files, sems :
              /\ openedFilesTable' = [openedFilesTable EXCEPT ![t] = Close(@, files)]
              /\ associatedSemaphores' = [associatedSemaphores EXCEPT ![t] = Close(@, sems)]
        BY Zenon DEF Exit
    <2>2. /\ Close(openedFilesTable[t], files) \in Tables(Files \cup {-1})
          /\ Close(associatedSemaphores[t], sems) \in Tables(Semaphores)
        BY CloseTypes, ZenonT(40) DEF PInv, TypeOK
    <2> QED
        BY <2>1, <2>2, ZenonT(40) DEF PInv, TypeOK
<1>3. /\ unixFiles' \subseteq Files
      /\ semStatus' \in [Semaphores -> {"unused", "live", "deleted"}]
    BY ZenonT(40) DEF Exit, PInv, TypeOK
<1>4. usage' \in [Threads -> Int]
    <2>1. usage' = IF fatherProcess[t] = NULL THEN usage
                   ELSE [usage EXCEPT ![fatherProcess[t]] = usage[fatherProcess[t]] - 1]
        BY Zenon DEF Exit, delThread
    <2>2. usage \in [Threads -> Int] /\ fatherProcess[t] \in Threads \cup {NULL}
        BY Zenon DEF PInv, TypeOK
    <2>3. ASSUME NEW i \in Int PROVE i - 1 \in Int
        OBVIOUS
    <2> QED
        BY <2>1, <2>2, <2>3, Zenon
<1>5. CASE RemoveAndFinish(t) /\ joinSem' = joinSem
    <2>1. /\ SpaceInv' /\ JoinInv'
          /\ pc' \in [Threads -> Labels] /\ threadsTable' \in Tables(Threads)
        BY <1>0, <1>1, <1>5, RemovedInv
    <2>2. TypeOK'
        BY <1>1, <1>2, <1>3, <1>4, <1>5, <2>1, ZenonT(40) DEF PInv, TypeOK, RemoveAndFinish, Finish
    <2> QED
        BY <2>1, <2>2 DEF PInv
<1>6. ASSUME fatherProcess[t] # NULL,
             NEW joiner, joiner = threadsTable.openFiles[pid[t]], joiner # NULL,
             joinSem' = [joinSem EXCEPT ![joiner] = @ + 1],
             pc' = [pc EXCEPT ![t] = "Exit.V"],
             UNCHANGED <<threadsTable, threadToBeDestroyed>>
      PROVE  PInv'
    <2>1. pid[t] \in Positions /\ Live(t) /\ ~Left(t) /\ Joiner(t)
        BY <1>0, <1>6, Zenon DEF PInv, JoinInv, Live, Left
    <2>2. joiner \in Threads
        BY <1>0, <1>6, <2>1, ZenonT(40) DEF Tables
    <2>3. pc[joiner] = "Join" /\ local[joiner] = t
        BY <1>6, <2>1, Zenon DEF Joiner
    <2>4. /\ pc' \in [Threads -> Labels] /\ joinSem' \in [Threads -> Nat]
          /\ pc'[t] = "Exit.V" /\ \A u \in Threads \ {t} : pc'[u] = pc[u]
          /\ \A u \in Threads \ {joiner} : joinSem'[u] = joinSem[u]
        <3>1. "Exit.V" \in Labels /\ joinSem[joiner] + 1 \in Nat
            BY <1>0, <2>2 DEF Labels
        <3> QED
            BY <1>0, <1>6, <2>2, <3>1, Zenon
    <2>5. TypeOK'
        BY <1>1, <1>2, <1>3, <1>4, <1>6, <2>4, ZenonT(40) DEF PInv, TypeOK
    <2>6. SpaceInv'
        BY <1>0, <1>1, <1>6, <2>4, ZenonT(40) DEF PInv, SpaceInv, Running, Ordinary
    <2>7. /\ Live(t)' /\ Left(t)'
          /\ \A u \in Threads \ {t} : Live(u)' = Live(u) /\ Left(u)' = Left(u)
        BY <2>4 DEF Live, Left
    <2>8. ASSUME NEW u \in Threads PROVE Entry(u)' /\ Joiner(u)'
        <3>1. Entry(u) /\ Joiner(u) /\ (pid[u] \in Positions <=> fatherProcess[u] # NULL)
            BY DEF PInv, JoinInv
        <3>2. Entry(u)'
            BY <1>1, <1>6, <2>1, <2>7, <3>1 DEF Entry
        <3>3. fatherProcess[u] # NULL => threadsTable.openFiles[pid[u]] \in Threads \cup {NULL}
            BY <1>0, <3>1 DEF Tables
        <3>4. Joiner(u)'
            <4>1. CASE u = t
                BY <2>7, <4>1 DEF Joiner
            <4>2. CASE u # t
                BY <1>0, <1>1, <1>6, <2>3, <2>4, <2>7, <3>1, <3>3, <4>2, ZenonT(40) DEF Joiner
            <4> QED
                BY <4>1, <4>2
        <3> QED
            BY <3>2, <3>4
    <2>9. ASSUME NEW u \in Threads, (pc[u] = "Join")'
          PROVE  (local[u] \in Threads /\ (joinSem[u] > 0 => Left(local[u])))'
        <3>1. pc[u] = "Join" /\ local'[u] = local[u]
            BY <1>1, <2>4, <2>9
        <3>2. CASE u = joiner
            BY <2>3, <2>7, <3>1, <3>2
        <3>3. CASE u # joiner
            BY <2>4, <2>7, <3>1, <3>3, Zenon DEF PInv, JoinInv
        <3> QED
            BY <3>2, <3>3
    <2>10. JoinInv'
        BY <1>1, <1>6, <2>8, <2>9, Zenon DEF PInv, JoinInv
    <2> QED
        BY <2>5, <2>6, <2>10 DEF PInv
<1> QED
    BY <1>5, <1>6, Zenon DEF Exit, getUnixFileID

-----------------------------------------------------------------------------
(* Every step keeps the invariant.                                         *)
LEMMA StepInv == PInv /\ [Next]_vars => PInv'
<1> SUFFICES ASSUME PInv, [Next]_vars PROVE PInv'
    OBVIOUS
<1>1. CASE UNCHANGED vars
    BY <1>1, Zenon DEF vars, PInv, TypeOK, SpaceInv, JoinInv, Entry, Joiner, Live, Left
<1>2. ASSUME NEW t \in Threads, QuietStep(t) PROVE PInv'
    <2>1. TypeOK' /\ Quiet
        BY <1>2, QuietTypes, QuietStepQuiet DEF PInv
    <2> QED
        BY <2>1, QuietInv DEF PInv
<1>3. ASSUME NEW t \in Threads, Yield(t) PROVE PInv'
    BY <1>1, <1>3, DispatchInv DEF Yield
<1>4. ASSUME NEW t \in Threads, KernelStep(t) PROVE PInv'
    BY <1>2, <1>4, nachosExecThreadInv, NachosForkThreadInv, ReturnFromJoinStep, ExitStep,
       ExitAfterVStep DEF KernelStep, QuietStep
<1>5. ASSUME NEW t \in Threads, UserStep(t) PROVE PInv'
    BY <1>2, <1>3, <1>5, ExecInv, ForkInv, JoinStep DEF UserStep, QuietStep
<1> QED
    BY <1>1, <1>4, <1>5, DispatchInv DEF Next

(* Every reachable state satisfies the invariant on address spaces and on  *)
(* the entries of the threads table, whatever the programs do, for any     *)
(* number of threads, semaphores and files.                                *)
THEOREM Invariant == Spec => []PInv
BY InitInv, StepInv, PTL DEF Spec

(* The state has its type, also where the tables and the memory are full.  *)
THEOREM TypeCorrect == Spec => []TypeOK
<1>1. PInv => TypeOK
    BY DEF PInv
<1> QED
    BY <1>1, Invariant, PTL

(* A user program, and the copy at the end of Read, only run in their own  *)
(* address space: RestoreState in Scheduler::Run, NachosForkThread and     *)
(* nachosExecThread load it on every way to user mode.                     *)
THEOREM AlwaysInOwnSpace == Spec => []RunsInOwnSpace
<1>1. PInv => RunsInOwnSpace
    BY DEF PInv, SpaceInv, RunsInOwnSpace, Running, Ordinary
<1> QED
    BY <1>1, Invariant, PTL

(* Nachos_Join returns only after the thread that had the pid has come to  *)
(* the end of its Exit, although entries of the threads table are used     *)
(* again and a second Join replaces the semaphore of a first.              *)
THEOREM JoinWaitsForExit == Spec => JoinOnlyAfterExit
<1>1. PInv /\ [Next]_vars => [\A t \in Threads : pc[t] = "Join" /\ pc'[t] = "user" => Left(local[t])]_vars
    <2> SUFFICES ASSUME PInv, Next, NEW t \in Threads, pc[t] = "Join", pc'[t] = "user"
                 PROVE  Left(local[t])
        OBVIOUS
    <2>1. pc \in [Threads -> Labels] /\ pc'[t] # pc[t]
        BY DEF PInv, TypeOK
    <2>2. ASSUME NEW u \in Threads, QuietStep(u) PROVE FALSE
        <3>1. Quiet
            BY <2>2, QuietStepQuiet DEF PInv
        <3> QED
            BY <2>1, <3>1 DEF Quiet, Ordinary
    <2>3. ASSUME NEW n \in Threads, Dispatch(n) PROVE FALSE
        BY <2>1, <2>3 DEF Dispatch, StartRun, ResumeRun
    <2>4. ASSUME NEW u \in Threads, Yield(u) PROVE FALSE
        BY <2>1, <2>3, <2>4 DEF Yield, vars
    <2>5. ASSUME NEW u \in Threads, KernelStep(u) PROVE ReturnFromJoin(t)
        <3>1. CASE ReturnFromJoin(u)
            BY <2>1, <3>1, ZenonT(40) DEF ReturnFromJoin
        <3>2. CASE nachosExecThread(u) \/ NachosForkThread(u)
            BY <2>1, <3>2 DEF nachosExecThread, NachosForkThread, Finish, At
        <3>3. CASE Exit(u) \/ ExitAfterV(u)
            BY <2>1, <3>3, Zenon DEF Exit, ExitAfterV, RemoveAndFinish, Finish
        <3> QED
            BY <2>2, <2>5, <3>1, <3>2, <3>3, Zenon DEF KernelStep, QuietStep
    <2>6. ASSUME NEW u \in Threads, UserStep(u) PROVE FALSE
        <3>1. CASE Exec(u) \/ Fork(u)
            BY <2>1, <3>1 DEF Exec, Fork
        <3>2. CASE Join(u)
            BY <2>1, <3>2 DEF Join
        <3> QED
            BY <2>2, <2>4, <2>6, <3>1, <3>2, Zenon DEF UserStep, QuietStep
    <2>7. ReturnFromJoin(t)
        BY <2>3, <2>5, <2>6, Zenon DEF Next
    <2> QED
        BY <2>7 DEF PInv, JoinInv, ReturnFromJoin
<1> QED
    BY <1>1, Invariant, PTL DEF Spec, JoinOnlyAfterExit

-----------------------------------------------------------------------------
(* What Dispatch does to the labels: a new thread goes to ThreadRoot, or a *)
(* carcass is destroyed.                                                   *)
LEMMA DispatchMoves ==
    ASSUME TypeOK, SpaceInv, NEW n \in Threads, Dispatch(n), NEW u \in Threads
    PROVE  \/ pc'[u] = pc[u]
           \/ pc[u] = "fresh" /\ pc'[u] = "root"
           \/ pc[u] = "finished" /\ pc'[u] = "deleted"
<1>1. threadToBeDestroyed # NULL => pc[threadToBeDestroyed] = "finished"
    BY DEF SpaceInv
<1>2. CASE pc[n] = "fresh" /\ StartRun(n)
    BY <1>2 DEF StartRun, TypeOK
<1>3. CASE ResumeRun(n)
    <2>1. pc' = [t \in Threads |-> IF t = threadToBeDestroyed THEN "deleted" ELSE pc[t]]
        BY <1>3 DEF ResumeRun
    <2>2. pc'[u] = IF u = threadToBeDestroyed THEN "deleted" ELSE pc[u]
        BY <2>1, Zenon
    <2>3. NULL \notin Threads
        BY ProcessesAssumption
    <2> QED
        BY <1>1, <2>2, <2>3, Zenon
<1> QED
    BY <1>2, <1>3, Zenon DEF Dispatch

-----------------------------------------------------------------------------
(* The console.  Its semaphore has its one unit, or one thread has it.     *)
HasConsole(t) == pc[t] \in {"Read.V", "Write.V"}

WantsConsole(t) == pc[t] \in {"Read.P", "Write.P"}

WaitsForConsole(t) == pc[t] \in {"Read.asleep", "Write.asleep"}

ConsoleInv ==
    /\ \/ consoleMutex = 1 /\ \A t \in Threads : ~HasConsole(t)
       \/ consoleMutex = 0 /\ \E h \in Threads : \A t \in Threads : HasConsole(t) <=> t = h
    /\ (\E t \in Threads : WaitsForConsole(t)) /\ consoleMutex > 0 =>
          \E t \in Threads : WantsConsole(t)

(* What the other steps may do: a thread may come to want the console.     *)
ConsoleFrame ==
    /\ consoleMutex' = consoleMutex
    /\ \A u \in Threads :
          /\ HasConsole(u)' <=> HasConsole(u)
          /\ WaitsForConsole(u)' => WaitsForConsole(u)
          /\ WantsConsole(u) => WantsConsole(u)'

(* Such a step keeps what is said of the console.                          *)
LEMMA ConsoleFrameInv == ASSUME ConsoleInv, ConsoleFrame PROVE ConsoleInv'
<1>1. ASSUME consoleMutex = 1 /\ \A t \in Threads : ~HasConsole(t)
      PROVE  consoleMutex' = 1 /\ \A t \in Threads : ~HasConsole(t)'
    BY <1>1, Zenon DEF ConsoleFrame
<1>2. ASSUME consoleMutex = 0, NEW h \in Threads, \A t \in Threads : HasConsole(t) <=> t = h
      PROVE  consoleMutex' = 0 /\ \A t \in Threads : HasConsole(t)' <=> t = h
    BY <1>2, Zenon DEF ConsoleFrame
<1>3. ASSUME (\E t \in Threads : WaitsForConsole(t))' /\ (consoleMutex > 0)'
      PROVE  \E t \in Threads : WantsConsole(t)'
    BY <1>3, Zenon DEF ConsoleInv, ConsoleFrame
<1> QED
    BY <1>1, <1>2, <1>3, Zenon DEF ConsoleInv

(* The steps that do not use the console.                                  *)
OffConsole(t) ==
    \/ ReturnFromExec(t)
    \/ nachosExecThread(t)
    \/ NachosForkThread(t)
    \/ ReturnFromJoin(t)
    \/ Exit(t)
    \/ ExitAfterV(t)
    \/ DeleteSemaphore(t)
    \/ TestInP(t)
    \/ CopyToUser(t)
    \/ Halt(t)
    \/ Exec(t)
    \/ Fork(t)
    \/ Join(t)
    \/ CallExit(t)
    \/ SemCreate(t)
    \/ SemDestroy(t)
    \/ SemSignal(t)
    \/ SemWait(t)
    \/ OpenFile(t)
    \/ CloseFile(t)
    \/ Create(t)
    \/ Read(t)
    \/ Write(t)
    \/ Dispatch(t)

(* The steps outside Read and Write are such steps.                        *)
LEMMA OffConsoleFrame ==
    ASSUME TypeOK, SpaceInv, NEW t \in Threads, OffConsole(t) PROVE ConsoleFrame
<1>0. pc \in [Threads -> Labels] /\ threadToBeDestroyed \in Threads \cup {NULL}
    BY Zenon DEF TypeOK
<1> USE <1>0 DEF ConsoleFrame, HasConsole, WaitsForConsole, WantsConsole, At, Makes, hostVars
<1>1. CASE ReturnFromExec(t)
    BY <1>1 DEF ReturnFromExec
<1>2. CASE nachosExecThread(t)
    BY <1>2, Zenon DEF nachosExecThread, Finish
<1>3. CASE NachosForkThread(t)
    BY <1>3 DEF NachosForkThread
<1>4. CASE ReturnFromJoin(t)
    BY <1>4 DEF ReturnFromJoin
<1>5. CASE Exit(t)
    BY <1>5, Zenon DEF Exit, RemoveAndFinish, Finish
<1>6. CASE ExitAfterV(t)
    BY <1>6 DEF ExitAfterV, RemoveAndFinish, Finish
<1>7. CASE DeleteSemaphore(t)
    BY <1>7 DEF DeleteSemaphore
<1>8. CASE TestInP(t)
    BY <1>8 DEF TestInP
<1>9. CASE CopyToUser(t)
    BY <1>9 DEF CopyToUser
<1>10. CASE Halt(t)
    BY <1>10 DEF Halt
<1>11. CASE Exec(t)
    BY <1>11 DEF Exec, NewThread
<1>12. CASE Fork(t)
    BY <1>12 DEF Fork, NewThread
<1>13. CASE Join(t)
    BY <1>13 DEF Join
<1>14. CASE CallExit(t)
    BY <1>14 DEF CallExit
<1>15. CASE SemCreate(t)
    BY <1>15 DEF SemCreate
<1>16. CASE SemDestroy(t)
    BY <1>16, Zenon DEF SemDestroy, Sleepers
<1>17. CASE SemSignal(t)
    BY <1>17, Zenon DEF SemSignal, Sleepers
<1>18. CASE SemWait(t)
    BY <1>18 DEF SemWait
<1>19. CASE OpenFile(t) \/ CloseFile(t) \/ Create(t)
    BY <1>19, Zenon DEF OpenFile, CloseFile, Create
<1>20. CASE Read(t)
    BY <1>20 DEF Read
<1>21. CASE Write(t)
    BY <1>21 DEF Write
<1>22. CASE Dispatch(t)
    BY <1>22, DispatchMoves DEF Dispatch
<1> QED
    BY <1>1, <1>2, <1>3, <1>4, <1>5, <1>6, <1>7, <1>8, <1>9, <1>10, <1>11, <1>12, <1>13, <1>14,
       <1>15, <1>16, <1>17, <1>18, <1>19, <1>20, <1>21, <1>22, Zenon DEF OffConsole

(* P takes the unit or waits; V gives it back, and a waiting thread tries  *)
(* again.                                                                  *)
LEMMA ConsoleStepInv ==
    ASSUME TypeOK, ConsoleInv, NEW t \in Threads, ConsoleP(t) \/ ConsoleV(t) PROVE ConsoleInv'
<1>0. pc \in [Threads -> Labels] /\ consoleMutex \in Nat
    BY Zenon DEF TypeOK
<1>1. CASE ConsoleP(t)
    <2>1. pc[t] \in {"Read.P", "Write.P"} /\ \A u \in Threads : u # t => pc'[u] = pc[u]
        BY <1>0, <1>1, Zenon DEF ConsoleP, At
    <2>2. CASE consoleMutex > 0
        <3>1. consoleMutex = 1 /\ \A u \in Threads : ~HasConsole(u)
            BY <2>2 DEF ConsoleInv
        <3>2. consoleMutex' = 0
            BY <1>1, <3>1 DEF ConsoleP
        <3>3. pc'[t] \in {"Read.V", "Write.V"}
            BY <1>0, <1>1, <2>2, Zenon DEF ConsoleP
        <3>4. \A u \in Threads : HasConsole(u)' <=> u = t
            BY <2>1, <3>1, <3>3, Zenon DEF HasConsole
        <3>5. ~(consoleMutex > 0)'
            BY <3>2
        <3> QED
            BY <3>2, <3>4, <3>5, Zenon DEF ConsoleInv
    <2>3. CASE ~(consoleMutex > 0)
        <3>1. consoleMutex = 0 /\ consoleMutex' = 0
            BY <1>0, <1>1, <2>3 DEF ConsoleP
        <3>2. pc'[t] \in {"Read.asleep", "Write.asleep"}
            BY <1>0, <1>1, <2>3, Zenon DEF ConsoleP
        <3>3. \A u \in Threads : HasConsole(u)' <=> HasConsole(u)
            BY <2>1, <3>2 DEF HasConsole
        <3>4. \E h \in Threads : \A u \in Threads : HasConsole(u) <=> u = h
            BY <3>1 DEF ConsoleInv
        <3>5. ~(consoleMutex > 0)'
            BY <3>1
        <3> QED
            BY <3>1, <3>3, <3>4, <3>5, Zenon DEF ConsoleInv
    <2> QED
        BY <2>2, <2>3
<1>2. CASE ConsoleV(t)
    <2>1. HasConsole(t) /\ pc'\in PcAfterV(t) /\ consoleMutex' = consoleMutex + 1
        BY <1>2, Zenon DEF ConsoleV, At, HasConsole
    <2>2. consoleMutex = 0 /\ \A u \in Threads : HasConsole(u) <=> u = t
        BY <2>1, Zenon DEF ConsoleInv
    <2>3. consoleMutex' = 1
        BY <2>1, <2>2
    <2>4. /\ pc'[t] \in {"Read.copy", "user"}
          /\ \A u \in Threads : u # t => pc'[u] = pc[u] \/ (WaitsForConsole(u) /\ WantsConsole(u)')
          /\ (\A u \in Threads : ~WaitsForConsole(u)) \/ (\E u \in Threads : WantsConsole(u)')
        <3> DEFINE done == [pc EXCEPT ![t] = IF pc[t] = "Read.V" THEN "Read.copy" ELSE "user"]
        <3>1. done[t] \in {"Read.copy", "user"} /\ \A u \in Threads : u # t => done[u] = pc[u]
            BY <1>0
        <3>2. done \in [Threads -> Labels]
            BY <1>0 DEF Labels
        <3>3. CASE ConsoleAsleep = {}
            <4>1. pc' = done
                BY <2>1, <3>3, Zenon DEF PcAfterV
            <4> QED
                BY <3>1, <3>3, <4>1, Zenon DEF ConsoleAsleep, WaitsForConsole
        <3>4. CASE ConsoleAsleep # {}
            <4>1. PICK w \in ConsoleAsleep :
                      pc' = [done EXCEPT ![w] = IF pc[w] = "Read.asleep" THEN "Read.P" ELSE "Write.P"]
                BY <2>1, <3>4, Zenon DEF PcAfterV
            <4>2. w \in Threads /\ WaitsForConsole(w) /\ w # t
                BY <2>1 DEF ConsoleAsleep, WaitsForConsole, HasConsole
            <4> HIDE DEF done
            <4>3. pc'[w] \in {"Read.P", "Write.P"} /\ \A u \in Threads : u # w => pc'[u] = done[u]
                BY <3>2, <4>1, <4>2
            <4> QED
                BY <3>1, <4>2, <4>3, Zenon DEF WantsConsole
        <3> QED
            BY <3>3, <3>4, Zenon
    <2>5. \A u \in Threads : ~HasConsole(u)'
        BY <2>2, <2>4 DEF HasConsole, WantsConsole
    <2>6. (\E u \in Threads : WaitsForConsole(u))' => \E u \in Threads : WantsConsole(u)'
        <3> SUFFICES ASSUME NEW u \in Threads, WaitsForConsole(u)'
                     PROVE  WaitsForConsole(u)
            BY <2>4, Zenon
        <3>1. u # t
            BY <2>4 DEF WaitsForConsole
        <3> QED
            BY <2>4, <3>1 DEF WaitsForConsole
    <2> QED
        BY <2>3, <2>5, <2>6, Zenon DEF ConsoleInv
<1> QED
    BY <1>1, <1>2

(* Every step keeps it.                                                    *)
LEMMA ConsoleNext == PInv /\ ConsoleInv /\ [Next]_vars => ConsoleInv'
<1> SUFFICES ASSUME PInv, ConsoleInv, [Next]_vars PROVE ConsoleInv'
    OBVIOUS
<1>1. CASE UNCHANGED vars
    <2>1. ConsoleFrame
        BY <1>1, Zenon DEF vars, ConsoleFrame, HasConsole, WaitsForConsole, WantsConsole
    <2> QED
        BY <2>1, ConsoleFrameInv
<1>2. ASSUME NEW t \in Threads, OffConsole(t) PROVE ConsoleInv'
    BY <1>2, OffConsoleFrame, ConsoleFrameInv DEF PInv
<1>3. ASSUME NEW t \in Threads, ConsoleP(t) \/ ConsoleV(t) PROVE ConsoleInv'
    BY <1>3, ConsoleStepInv DEF PInv
<1>4. ASSUME NEW t \in Threads, Yield(t) PROVE ConsoleInv'
    BY <1>1, <1>2, <1>4, Zenon DEF Yield, OffConsole
<1> QED
    BY <1>1, <1>2, <1>3, <1>4, Zenon DEF Next, KernelStep, UserStep, OffConsole

(* One thread at a time uses the console, and nobody sleeps while it is    *)
(* free and nobody is on the way.                                          *)
THEOREM ConsoleIsShared == Spec => []ConsoleShared
<1>1. Init => ConsoleInv
    BY DEF Init, ConsoleInv, HasConsole, WaitsForConsole
<1>2. ConsoleInv => ConsoleShared
    <2> SUFFICES ASSUME ConsoleInv PROVE ConsoleShared
        OBVIOUS
    <2> DEFINE holders == {t \in Threads : pc[t] \in {"Read.V", "Write.V"}}
    <2>1. Cardinality(holders) + consoleMutex = 1
        <3>1. CASE consoleMutex = 1 /\ \A t \in Threads : ~HasConsole(t)
            <4>1. holders = {}
                BY <3>1, Zenon DEF HasConsole
            <4> QED
                BY <3>1, <4>1, FS_EmptySet
        <3>2. ASSUME consoleMutex = 0, NEW h \in Threads, \A t \in Threads : HasConsole(t) <=> t = h
              PROVE  Cardinality(holders) + consoleMutex = 1
            <4>1. holders = {h}
                BY <3>2, Zenon DEF HasConsole
            <4> QED
                BY <3>2, <4>1, FS_Singleton
        <3> QED
            BY <3>1, <3>2 DEF ConsoleInv
    <2> HIDE DEF holders
    <2>2. ConsoleAsleep # {} => \E t \in Threads : WaitsForConsole(t)
        BY Zenon DEF ConsoleAsleep, WaitsForConsole
    <2> QED
        BY <2>1, <2>2, Zenon DEF ConsoleInv, ConsoleShared, WantsConsole, holders
<1> QED
    BY <1>1, <1>2, ConsoleNext, Invariant, PTL DEF Spec

-----------------------------------------------------------------------------
(* Fathers and children, in programs that do not call Exec.                *)

Children(f) == {t \in Threads : fatherProcess[t] = f /\ ~Left(t)}

(* usage is one more than the number of children that have not left.       *)
Counted(f) == usage[f] = 1 + Cardinality(Children(f))

(* A thread that was never created has no kin.                             *)
Unborn(n) ==
    pc[n] = "none" => fatherProcess[n] = NULL /\ \A t \in Threads : fatherProcess[t] # n

(* An open entry of the threads table is of a process that exists.         *)
Occupied(p) == Live(occupant[p]) /\ pid[occupant[p]] = p

FatherStays(t) == fatherProcess[t] # NULL /\ Left(fatherProcess[t]) => Left(t)

Kin ==
    /\ \A t \in Threads : function[t] # "Exec"
    /\ \A t \in Threads : Counted(t) /\ Unborn(t) /\ FatherStays(t)
    /\ \A p \in threadsTable.map : Occupied(p)
    /\ Tree

KinInv == ~Uses("Exec") => Kin

(* What the steps leave alone that create no thread and end none.          *)
KinFrame ==
    /\ UNCHANGED <<workload, function, fatherProcess, pid, occupant, usage>>
    /\ threadsTable'.map = threadsTable.map
    /\ \A u \in Threads :
          /\ Live(u)' <=> Live(u)
          /\ Left(u)' <=> Left(u)
          /\ (pc[u] = "none")' <=> pc[u] = "none"

(* Such a step keeps kinship.                                              *)
LEMMA KinFrameInv ==
    ASSUME PInv, KinInv, KinFrame PROVE KinInv'
<1> SUFFICES ASSUME ~Uses("Exec") PROVE Kin'
    BY DEF KinInv, KinFrame, Uses
<1>1. Kin
    BY DEF KinInv
<1>2. ASSUME NEW f \in Threads PROVE Counted(f)' /\ Unborn(f)' /\ FatherStays(f)'
    <2>1. Counted(f) /\ Unborn(f) /\ FatherStays(f)
        BY <1>1, Zenon DEF Kin
    <2>2. Children(f)' = Children(f)
        BY Zenon DEF Children, KinFrame
    <2>3. Unborn(f)'
        BY <2>1, Zenon DEF Unborn, KinFrame
    <2>4. Counted(f)'
        BY <2>1, <2>2, Zenon DEF Counted, KinFrame
    <2>5. FatherStays(f)'
        <3> SUFFICES ASSUME (fatherProcess[f] # NULL /\ Left(fatherProcess[f]))' PROVE Left(f)'
            BY Zenon DEF FatherStays
        <3>1. PICK g : g = fatherProcess[f]
            OBVIOUS
        <3>2. fatherProcess'[f] = g /\ g \in Threads
            BY <3>1 DEF PInv, TypeOK, KinFrame
        <3>3. Left(g)'
            BY <3>2, Zenon DEF Left
        <3> QED
            BY <2>1, <3>1, <3>2, <3>3, Zenon DEF FatherStays, KinFrame
    <2> QED
        BY <2>3, <2>4, <2>5
<1>3. ASSUME NEW p \in threadsTable'.map PROVE Occupied(p)'
    <2>1. Occupied(p) /\ occupant[p] \in Threads
        BY <1>1, <1>3, Zenon DEF Kin, PInv, JoinInv, KinFrame
    <2> QED
        BY <2>1, Zenon DEF Occupied, KinFrame, Live
<1>4. Tree'
    BY <1>1, Zenon DEF Kin, Tree, KinFrame
<1>5. \A t \in Threads : function'[t] # "Exec"
    BY <1>1, Zenon DEF Kin, KinFrame
<1> QED
    BY <1>2, <1>3, <1>4, <1>5, Zenon DEF Kin

(* The steps of which this is so.                                          *)
KinQuiet(t) ==
    \/ QuietStep(t)
    \/ NachosForkThread(t)
    \/ Join(t)
    \/ ReturnFromJoin(t)
    \/ Dispatch(t)

(* They leave kinship alone.                                               *)
LEMMA KinQuietFrame ==
    ASSUME PInv, NEW t \in Threads, KinQuiet(t) PROVE KinFrame
<1>0. pc \in [Threads -> Labels] /\ threadToBeDestroyed \in Threads \cup {NULL}
    BY Zenon DEF PInv, TypeOK
<1>1. CASE QuietStep(t)
    <2>1. Quiet
        BY <1>1, QuietStepQuiet DEF PInv
    <2>2. UNCHANGED <<workload, usage>>
        BY <1>1, Zenon DEF QuietStep, Halt, ReturnFromExec, CallExit, SemCreate, SemDestroy, DeleteSemaphore,
              SemSignal, SemWait, TestInP, OpenFile, CloseFile, Create, Read, Write, ConsoleP,
              ConsoleV, CopyToUser, processVars, consoleUnchanged
    <2>3. \A u \in Threads : pc'[u] = pc[u] \/ (pc[u] \in Ordinary /\ pc'[u] \in Ordinary)
        BY <2>1, Zenon DEF Quiet
    <2>4. ASSUME NEW u \in Threads
          PROVE  /\ Live(u)' <=> Live(u)
                 /\ Left(u)' <=> Left(u)
                 /\ (pc[u] = "none")' <=> pc[u] = "none"
        BY <2>3, Zenon DEF Ordinary, Live, Left
    <2> QED
        BY <2>1, <2>2, <2>4, Zenon DEF Quiet, KinFrame
<1>2. CASE NachosForkThread(t)
    BY <1>0, <1>2 DEF NachosForkThread, At, processVars, KinFrame, Live, Left
<1>3. CASE Join(t)
    <2>1. threadsTable'.map = threadsTable.map
        BY <1>3 DEF Join, storeSemAdress, PInv, TypeOK, Tables
    <2> QED
        BY <1>0, <1>3, <2>1, Zenon DEF Join, Makes, At, processVars, KinFrame, Live, Left
<1>4. CASE ReturnFromJoin(t)
    BY <1>0, <1>4 DEF ReturnFromJoin, At, processVars, KinFrame, Live, Left
<1>5. CASE Dispatch(t)
    <2>1. UNCHANGED <<workload, function, fatherProcess, pid, occupant, usage, threadsTable>>
        BY <1>5, Zenon DEF Dispatch, processVars
    <2>2. ASSUME NEW u \in Threads
          PROVE  /\ Live(u)' <=> Live(u)
                 /\ Left(u)' <=> Left(u)
                 /\ (pc[u] = "none")' <=> pc[u] = "none"
        BY <1>5, DispatchMoves DEF PInv, Live, Left
    <2> QED
        BY <2>1, <2>2, Zenon DEF KinFrame
<1> QED
    BY <1>1, <1>2, <1>3, <1>4, <1>5 DEF KinQuiet

(* What Fork does, as far as kinship goes.                                 *)
Forks(t, n, p) ==
    /\ n # t /\ pc[n] = "none" /\ pc[t] = "user" /\ pc'[n] = "fresh"
    /\ \A u \in Threads \ {n} :
          pc'[u] = pc[u] /\ fatherProcess'[u] = fatherProcess[u] /\ pid'[u] = pid[u]
          /\ function'[u] = function[u]
    /\ fatherProcess'[n] = t /\ pid'[n] = p /\ function'[n] = "Fork"
    /\ p \in Positions \ threadsTable.map /\ threadsTable'.map = threadsTable.map \cup {p}
    /\ occupant'[p] = n /\ \A q \in threadsTable.map : occupant'[q] = occupant[q]
    /\ usage'[t] = usage[t] + 1 /\ \A u \in Threads \ {t} : usage'[u] = usage[u]
    /\ workload' = workload

(* Fork does this for one new thread and one free position.                *)
LEMMA ForkForks ==
    ASSUME PInv, NEW t \in Threads, Fork(t)
    PROVE  \E n \in Threads : \E p \in Positions : Forks(t, n, p)
<1>0. /\ pc \in [Threads -> Labels] /\ threadsTable \in Tables(Threads)
      /\ fatherProcess \in [Threads -> Threads \cup {NULL}] /\ pid \in [Threads -> Positions \cup {-1}]
      /\ function \in [Threads -> {"Exec", "Fork", NULL}] /\ usage \in [Threads -> Int]
      /\ occupant \in [Positions -> Threads \cup {NULL}]
    BY Zenon DEF PInv, TypeOK
<1>1. PICK n \in Threads : NewThread(t, n, "Fork") /\ pc' = [pc EXCEPT ![n] = "fresh"]
    BY ZenonT(40) DEF Fork
<1>2. PICK p : p = NextFreePos(threadsTable)
    OBVIOUS
<1>3. p \in Positions \ threadsTable.map
    BY <1>1, <1>2, FreePos, Zenon DEF NewThread
<1>4. /\ pc[n] = "none" /\ workload' = workload
      /\ fatherProcess' = [fatherProcess EXCEPT ![n] = t]
      /\ pid' = [pid EXCEPT ![n] = p]
      /\ function' = [function EXCEPT ![n] = "Fork"]
      /\ threadsTable' = Open(threadsTable, NULL)
      /\ occupant' = [occupant EXCEPT ![p] = n]
    BY <1>1, <1>2, ZenonT(40) DEF NewThread
<1>5. pc[t] = "user" /\ n # t
    BY <1>4 DEF Fork, Makes, At
<1>6. usage' = [usage EXCEPT ![t] = @ + 1]
    BY Zenon DEF Fork, addThread
<1>7. threadsTable'.map = threadsTable.map \cup {p}
    BY <1>2, <1>4, Zenon DEF Open
<1>8. /\ pc'[n] = "fresh" /\ fatherProcess'[n] = t /\ pid'[n] = p /\ function'[n] = "Fork"
      /\ \A u \in Threads \ {n} :
            pc'[u] = pc[u] /\ fatherProcess'[u] = fatherProcess[u] /\ pid'[u] = pid[u]
            /\ function'[u] = function[u]
    BY <1>0, <1>1, <1>4
<1>9. occupant'[p] = n /\ \A q \in threadsTable.map : occupant'[q] = occupant[q]
    BY <1>0, <1>3, <1>4 DEF Tables
<1>10. usage'[t] = usage[t] + 1 /\ \A u \in Threads \ {t} : usage'[u] = usage[u]
    BY <1>0, <1>6
<1>11. Forks(t, n, p)
    BY <1>3, <1>4, <1>5, <1>7, <1>8, <1>9, <1>10, ZenonT(40) DEF Forks
<1> QED
    BY <1>3, <1>11

(* A new thread is counted by its father and has no children yet.          *)
LEMMA ForkKin ==
    ASSUME PInv, KinInv, NEW t \in Threads, Fork(t) PROVE KinInv'
<1>1. PICK n \in Threads, p \in Positions : Forks(t, n, p)
    BY ForkForks
<1>a. NULL \notin Threads /\ IsFiniteSet(Threads)
    BY ProcessesAssumption
<1> SUFFICES ASSUME ~Uses("Exec") PROVE Kin'
    BY <1>1 DEF KinInv, Forks, Uses
<1>2. Kin
    BY DEF KinInv
<1>3. /\ fatherProcess[n] = NULL /\ \A u \in Threads : fatherProcess[u] # n
      /\ ~Left(n) /\ ~Left(n)' /\ Live(n)'
      /\ \A u \in Threads \ {n} : (Left(u)' <=> Left(u)) /\ (Live(u)' <=> Live(u))
    <2>1. Unborn(n)
        BY <1>2, Zenon DEF Kin
    <2> QED
        BY <1>1, <2>1, Zenon DEF Forks, Unborn, Left, Live
<1>4. ASSUME NEW f \in Threads PROVE Counted(f)'
    <2>1. Counted(f) /\ usage \in [Threads -> Int]
        BY <1>2, Zenon DEF Kin, PInv, TypeOK
    <2>2. IsFiniteSet(Children(f))
        BY <1>a, FS_Subset DEF Children
    <2>3. CASE f = t
        <3>1. Children(f)' = Children(f) \cup {n}
            BY <1>1, <1>3, <2>3, Zenon DEF Children, Forks
        <3>2. n \notin Children(f)
            BY <1>3, <1>a, Zenon DEF Children
        <3>3. Cardinality(Children(f) \cup {n}) = Cardinality(Children(f)) + 1
            BY <2>2, <3>2, FS_AddElement, Zenon
        <3>4. Cardinality(Children(f)) \in Nat
            BY <2>2, FS_CardinalityType
        <3>5. usage'[f] = usage[f] + 1
            BY <1>1, <2>3, Zenon DEF Forks
        <3>6. usage[f] = 1 + Cardinality(Children(f))
            BY <2>1, Zenon DEF Counted
        <3>7. usage'[f] = 1 + Cardinality(Children(f)')
            BY <3>1, <3>3, <3>4, <3>5, <3>6
        <3> QED
            BY <3>7, Zenon DEF Counted
    <2>4. CASE f # t
        <3>1. Children(f)' = Children(f)
            <4>1. ASSUME NEW u \in Threads
                  PROVE  fatherProcess'[u] = f /\ ~Left(u)' <=> fatherProcess[u] = f /\ ~Left(u)
                <5>1. CASE u = n
                    BY <1>1, <1>3, <1>a, <2>4, <5>1, Zenon DEF Forks
                <5>2. CASE u # n
                    BY <1>1, <1>3, <5>2, Zenon DEF Forks
                <5> QED
                    BY <5>1, <5>2
            <4> QED
                BY <4>1, Zenon DEF Children
        <3> QED
            BY <1>1, <2>1, <2>4, <3>1 DEF Counted, Forks
    <2> QED
        BY <2>3, <2>4
<1>5. ASSUME NEW u \in Threads PROVE Unborn(u)' /\ FatherStays(u)'
    <2>1. Unborn(u) /\ FatherStays(u)
        BY <1>2, Zenon DEF Kin
    <2>2. Unborn(u)'
        <3>1. CASE u = n
            BY <1>1, <3>1 DEF Unborn, Forks
        <3>2. CASE u # n
            <4>1. pc[u] = "none" => u # t
                BY <1>1 DEF Forks
            <4> QED
                BY <1>1, <2>1, <3>2, <4>1, Zenon DEF Unborn, Forks
        <3> QED
            BY <3>1, <3>2
    <2>3. FatherStays(u)'
        <3>1. CASE u = n
            <4>1. fatherProcess'[n] = t /\ pc'[t] = "user"
                BY <1>1, Zenon DEF Forks
            <4> QED
                BY <3>1, <4>1 DEF FatherStays, Left
        <3>2. CASE u # n
            <4>1. PICK g : g = fatherProcess[u]
                OBVIOUS
            <4>2. fatherProcess'[u] = g /\ g # n /\ (g # NULL => g \in Threads)
                BY <1>1, <1>3, <3>2, <4>1, ZenonT(40) DEF Forks, PInv, TypeOK
            <4>3. (g # NULL => pc'[g] = pc[g]) /\ pc'[u] = pc[u]
                BY <1>1, <3>2, <4>2, Zenon DEF Forks
            <4> QED
                BY <2>1, <4>1, <4>2, <4>3, Zenon DEF FatherStays, Left
        <3> QED
            BY <3>1, <3>2
    <2> QED
        BY <2>2, <2>3
<1>6. ASSUME NEW q \in threadsTable'.map PROVE Occupied(q)'
    <2>1. CASE q = p
        <3>1. occupant'[q] = n /\ pid'[n] = q /\ pc'[n] = "fresh"
            BY <1>1, <2>1, Zenon DEF Forks
        <3> QED
            BY <3>1 DEF Occupied, Live
    <2>2. CASE q # p
        <3>1. PICK u : u = occupant[q]
            OBVIOUS
        <3>2. q \in threadsTable.map
            BY <1>1, <1>6, <2>2 DEF Forks
        <3>3. occupant'[q] = u /\ u \in Threads /\ Occupied(q)
            BY <1>1, <1>2, <3>1, <3>2, Zenon DEF Forks, PInv, JoinInv, Kin
        <3>4. pc[u] # "none" /\ Live(u) /\ pid[u] = q
            BY <3>1, <3>3 DEF Occupied, Live
        <3>5. u # n
            BY <1>1, <3>4 DEF Forks
        <3>6. pc'[u] = pc[u] /\ pid'[u] = q
            BY <1>1, <3>3, <3>4, <3>5, Zenon DEF Forks
        <3> QED
            BY <3>3, <3>4, <3>6, Zenon DEF Occupied, Live
    <2> QED
        BY <2>1, <2>2
<1>7. Tree'
    <2> SUFFICES ASSUME NEW X \in SUBSET Threads, X # {} PROVE \E u \in X : fatherProcess'[u] \notin X
        BY Zenon DEF Tree
    <2>1. CASE X = {n}
        BY <1>1, <2>1, Zenon DEF Forks
    <2>2. CASE X # {n}
        <3>1. X \ {n} # {} /\ X \ {n} \in SUBSET Threads
            BY <2>2, Zenon
        <3>2. PICK u \in X \ {n} : fatherProcess[u] \notin X \ {n}
            BY <1>2, <3>1, Zenon DEF Kin, Tree
        <3>3. fatherProcess'[u] = fatherProcess[u] /\ fatherProcess[u] # n
            BY <1>1, <1>3, <3>2, Zenon DEF Forks
        <3> QED
            BY <3>2, <3>3, Zenon
    <2> QED
        BY <2>1, <2>2
<1>8. ASSUME NEW u \in Threads PROVE function'[u] # "Exec"
    BY <1>1, <1>2, Zenon DEF Forks, Kin
<1> QED
    BY <1>4, <1>5, <1>6, <1>7, <1>8, Zenon DEF Kin

(* What the end of a thread does, as far as kinship goes: in Exit, with    *)
(* the entry closed at once or after V.                                    *)
Leaves(t) ==
    /\ pc[t] = "Exit" /\ usage[t] <= 1
    /\ \/ pc'[t] = "finished" /\ threadsTable'.map = threadsTable.map \ {pid[t]}
       \/ pc'[t] = "Exit.V" /\ threadsTable'.map = threadsTable.map
    /\ \A u \in Threads \ {t} : pc'[u] = pc[u]
    /\ \A u \in Threads : usage'[u] = IF u = fatherProcess[t] THEN usage[u] - 1 ELSE usage[u]
    /\ UNCHANGED <<fatherProcess, pid, function, occupant, workload>>

Removed(t) ==
    /\ pc[t] = "Exit.V" /\ pc'[t] = "finished"
    /\ threadsTable'.map = threadsTable.map \ {pid[t]}
    /\ \A u \in Threads \ {t} : pc'[u] = pc[u]
    /\ UNCHANGED <<fatherProcess, pid, function, occupant, workload, usage>>

(* The entry of a thread that is not in the table stays.                   *)
LEMMA RemoveEntry ==
    ASSUME PInv, NEW t \in Threads, RemoveAndFinish(t)
    PROVE  /\ threadsTable'.map = threadsTable.map \ {pid[t]}
           /\ pc' = [pc EXCEPT ![t] = "finished"]
<1>1. threadsTable \in Tables(Threads) /\ pid[t] \in Positions \cup {-1}
    BY DEF PInv, TypeOK
<1>2. CASE pid[t] >= 0
    BY <1>1, <1>2 DEF RemoveAndFinish, Finish, Close, Tables
<1>3. CASE ~(pid[t] >= 0)
    <2>1. pid[t] \notin threadsTable.map
        BY <1>1, <1>3 DEF Positions, Tables
    <2> QED
        BY <1>3, <2>1 DEF RemoveAndFinish, Finish
<1> QED
    BY <1>2, <1>3

(* Exit, past its loop, does so.                                           *)
LEMMA ExitLeaves ==
    ASSUME PInv, NEW t \in Threads, Exit(t) PROVE Leaves(t)
<1>0. pc \in [Threads -> Labels] /\ usage \in [Threads -> Int]
      /\ fatherProcess \in [Threads -> Threads \cup {NULL}] /\ NULL \notin Threads
    BY ProcessesAssumption, Zenon DEF PInv, TypeOK
<1>1. /\ pc[t] = "Exit" /\ usage[t] <= 1
      /\ UNCHANGED <<fatherProcess, pid, function, occupant, workload>>
    BY Zenon DEF Exit, At, ChildrenDone, processVars
<1>2. delThread(fatherProcess[t])
    BY Zenon DEF Exit
<1>3. ASSUME NEW u \in Threads
      PROVE  usage'[u] = IF u = fatherProcess[t] THEN usage[u] - 1 ELSE usage[u]
    BY <1>0, <1>2 DEF delThread
<1>4. \/ RemoveAndFinish(t)
      \/ pc' = [pc EXCEPT ![t] = "Exit.V"] /\ threadsTable' = threadsTable
    BY Zenon DEF Exit
<1>5. CASE RemoveAndFinish(t)
    <2>1. threadsTable'.map = threadsTable.map \ {pid[t]} /\ pc' = [pc EXCEPT ![t] = "finished"]
        BY <1>5, RemoveEntry
    <2>2. pc'[t] = "finished" /\ \A u \in Threads \ {t} : pc'[u] = pc[u]
        BY <1>0, <2>1
    <2> QED
        BY <1>1, <1>3, <2>1, <2>2, Zenon DEF Leaves
<1>6. CASE pc' = [pc EXCEPT ![t] = "Exit.V"] /\ threadsTable' = threadsTable
    <2>1. pc'[t] = "Exit.V" /\ \A u \in Threads \ {t} : pc'[u] = pc[u]
        BY <1>0, <1>6
    <2> QED
        BY <1>1, <1>3, <1>6, <2>1, Zenon DEF Leaves
<1> QED
    BY <1>4, <1>5, <1>6

(* So does the end of Exit after its V.                                    *)
LEMMA ExitAfterVRemoved ==
    ASSUME PInv, NEW t \in Threads, ExitAfterV(t) PROVE Removed(t)
<1>1. RemoveAndFinish(t) /\ pc[t] = "Exit.V"
      /\ UNCHANGED <<fatherProcess, pid, function, occupant, workload, usage>>
    BY Zenon DEF ExitAfterV, At, processVars
<1>2. threadsTable'.map = threadsTable.map \ {pid[t]} /\ pc' = [pc EXCEPT ![t] = "finished"]
    BY <1>1, RemoveEntry
<1>3. pc'[t] = "finished" /\ \A u \in Threads \ {t} : pc'[u] = pc[u]
    BY <1>2 DEF PInv, TypeOK
<1> QED
    BY <1>1, <1>2, <1>3, Zenon DEF Removed

(* The entries that stay open are of other threads.                        *)
LEMMA OthersOccupy ==
    ASSUME PInv, Kin, NEW t \in Threads, NEW q \in threadsTable.map, q # pid[t],
           \A u \in Threads \ {t} : pc'[u] = pc[u], UNCHANGED <<pid, occupant>>
    PROVE  Occupied(q)'
<1>1. PICK u : u = occupant[q]
    OBVIOUS
<1>2. u \in Threads /\ Occupied(q)
    BY <1>1, Zenon DEF PInv, JoinInv, Kin
<1>3. u # t
    BY <1>1, <1>2 DEF Occupied
<1>4. pc'[u] = pc[u] /\ occupant'[q] = u
    BY <1>1, <1>2, <1>3, Zenon
<1> QED
    BY <1>1, <1>2, <1>4, Zenon DEF Occupied, Live

(* A thread leaves when its children have left, and its father counts it   *)
(* off.                                                                    *)
LEMMA LeavesKin ==
    ASSUME PInv, KinInv, NEW t \in Threads, Leaves(t) PROVE KinInv'
<1>0. NULL \notin Threads /\ IsFiniteSet(Threads)
    BY ProcessesAssumption
<1>1. /\ UNCHANGED <<fatherProcess, pid, function, occupant, workload>>
      /\ \A u \in Threads \ {t} : pc'[u] = pc[u]
      /\ pc[t] = "Exit" /\ pc'[t] \in {"finished", "Exit.V"}
    BY Zenon DEF Leaves
<1> SUFFICES ASSUME ~Uses("Exec") PROVE Kin'
    BY <1>1 DEF KinInv, Uses
<1>2. Kin
    BY DEF KinInv
<1>3. /\ Left(t)' /\ ~Left(t) /\ pc'[t] # "none" /\ pc[t] # "none"
      /\ \A u \in Threads \ {t} : Left(u)' <=> Left(u)
    BY <1>1, Zenon DEF Left
<1>4. ASSUME NEW f \in Threads PROVE IsFiniteSet(Children(f))
    BY <1>0, FS_Subset DEF Children
<1>5. Children(t) = {}
    <2>1. Counted(t) /\ usage[t] <= 1
        BY <1>2, Zenon DEF Kin, Leaves
    <2>2. Cardinality(Children(t)) \in Nat
        BY <1>4, FS_CardinalityType
    <2>3. Cardinality(Children(t)) = 0
        BY <2>1, <2>2 DEF Counted
    <2> QED
        BY <1>4, <2>3, FS_EmptySet
<1>6. ASSUME NEW f \in Threads PROVE Counted(f)'
    <2>1. Counted(f)
        BY <1>2, Zenon DEF Kin
    <2>2. CASE f = fatherProcess[t]
        <3>1. t \in Children(f)
            BY <1>3, <2>2, Zenon DEF Children
        <3>2. Children(f)' = Children(f) \ {t}
            BY <1>1, <1>3, Zenon DEF Children
        <3>3. Cardinality(Children(f) \ {t}) = Cardinality(Children(f)) - 1
            BY <1>4, <3>1, FS_RemoveElement, Zenon
        <3>4. Cardinality(Children(f)) \in Nat
            BY <1>4, FS_CardinalityType
        <3>5. usage'[f] = usage[f] - 1
            BY <2>2, Zenon DEF Leaves
        <3> QED
            BY <2>1, <3>2, <3>3, <3>4, <3>5 DEF Counted
    <2>3. CASE f # fatherProcess[t]
        <3>1. Children(f)' = Children(f)
            BY <1>1, <1>3, <2>3, Zenon DEF Children
        <3>2. usage'[f] = usage[f]
            BY <2>3, Zenon DEF Leaves
        <3> QED
            BY <2>1, <3>1, <3>2, Zenon DEF Counted
    <2> QED
        BY <2>2, <2>3
<1>7. ASSUME NEW u \in Threads PROVE Unborn(u)' /\ FatherStays(u)'
    <2>1. Unborn(u) /\ FatherStays(u)
        BY <1>2, Zenon DEF Kin
    <2>2. Unborn(u)'
        BY <1>1, <1>3, <2>1, Zenon DEF Unborn
    <2>3. FatherStays(u)'
        <3>1. PICK g : g = fatherProcess[u]
            OBVIOUS
        <3>2. fatherProcess'[u] = g /\ (g # NULL => g \in Threads)
            BY <1>1, <3>1 DEF PInv, TypeOK
        <3>3. CASE g = t
            <4>1. Left(u)
                BY <1>5, <3>1, <3>3, Zenon DEF Children
            <4> QED
                BY <1>3, <4>1, Zenon DEF FatherStays
        <3>4. CASE g # t
            <4>1. g # NULL => pc'[g] = pc[g]
                BY <1>1, <3>2, <3>4, Zenon
            <4>2. g # NULL /\ Left(g) => Left(u)
                BY <2>1, <3>1, Zenon DEF FatherStays
            <4>3. Left(u) => Left(u)'
                BY <1>3, Zenon
            <4> QED
                BY <3>2, <4>1, <4>2, <4>3, Zenon DEF FatherStays, Left
        <3> QED
            BY <3>3, <3>4
    <2> QED
        BY <2>2, <2>3
<1>8. ASSUME NEW q \in threadsTable'.map PROVE Occupied(q)'
    <2>1. CASE pc'[t] = "finished" /\ threadsTable'.map = threadsTable.map \ {pid[t]}
        <3>1. q \in threadsTable.map /\ q # pid[t]
            BY <1>8, <2>1, Zenon
        <3> QED
            BY <1>1, <1>2, <3>1, OthersOccupy
    <2>2. CASE pc'[t] = "Exit.V" /\ threadsTable'.map = threadsTable.map
        <3>1. q \in threadsTable.map
            BY <1>8, <2>2, Zenon
        <3>2. CASE q # pid[t]
            BY <1>1, <1>2, <3>1, <3>2, OthersOccupy
        <3>3. CASE q = pid[t]
            <4>1. PICK u : u = occupant[q]
                OBVIOUS
            <4>2. u \in Threads /\ pid[u] = q /\ Live(u) /\ occupant'[q] = u /\ pid'[u] = q
                BY <1>1, <1>2, <3>1, <4>1, Zenon DEF PInv, JoinInv, Kin, Occupied
            <4>3. Live(u)'
                <5>1. u = t => pc'[u] = "Exit.V"
                    BY <2>2
                <5>2. u # t => pc'[u] = pc[u]
                    BY <1>1, <4>2, Zenon
                <5> QED
                    BY <4>2, <5>1, <5>2 DEF Live
            <4> QED
                BY <4>2, <4>3, Zenon DEF Occupied, Live
        <3> QED
            BY <3>2, <3>3
    <2> QED
        BY <2>1, <2>2, Zenon DEF Leaves
<1>9. Tree' /\ \A u \in Threads : function'[u] # "Exec"
    BY <1>1, <1>2, Zenon DEF Kin, Tree
<1> QED
    BY <1>6, <1>7, <1>8, <1>9, Zenon DEF Kin

(* After V nothing but the thread's entry goes.                            *)
LEMMA RemovedKin ==
    ASSUME PInv, KinInv, NEW t \in Threads, Removed(t) PROVE KinInv'
<1>1. /\ UNCHANGED <<fatherProcess, pid, function, occupant, workload, usage>>
      /\ \A u \in Threads \ {t} : pc'[u] = pc[u]
      /\ pc[t] = "Exit.V" /\ pc'[t] = "finished"
      /\ threadsTable'.map = threadsTable.map \ {pid[t]}
    BY Zenon DEF Removed
<1> SUFFICES ASSUME ~Uses("Exec") PROVE Kin'
    BY <1>1 DEF KinInv, Uses
<1>2. Kin
    BY DEF KinInv
<1>3. ASSUME NEW u \in Threads PROVE (Left(u)' <=> Left(u)) /\ ((pc[u] = "none")' <=> pc[u] = "none")
    BY <1>1, Zenon DEF Left
<1>4. ASSUME NEW u \in Threads PROVE Counted(u)' /\ Unborn(u)' /\ FatherStays(u)'
    <2>1. Counted(u) /\ Unborn(u) /\ FatherStays(u)
        BY <1>2, Zenon DEF Kin
    <2>2. Children(u)' = Children(u)
        BY <1>1, <1>3, Zenon DEF Children
    <2>3. Unborn(u)' /\ Counted(u)'
        BY <1>1, <1>3, <2>1, <2>2, Zenon DEF Unborn, Counted
    <2>4. FatherStays(u)'
        <3>1. PICK g : g = fatherProcess[u]
            OBVIOUS
        <3>2. fatherProcess'[u] = g /\ (g # NULL => g \in Threads)
            BY <1>1, <3>1, Zenon DEF PInv, TypeOK
        <3>3. g # NULL => (Left(g)' <=> Left(g))
            BY <1>3, <3>2
        <3> QED
            BY <1>3, <2>1, <3>1, <3>2, <3>3, Zenon DEF FatherStays, Left
    <2> QED
        BY <2>3, <2>4
<1>5. ASSUME NEW q \in threadsTable'.map PROVE Occupied(q)'
    <2>1. q \in threadsTable.map /\ q # pid[t]
        BY <1>1, <1>5, Zenon
    <2> QED
        BY <1>1, <1>2, <2>1, OthersOccupy, Zenon
<1>6. Tree' /\ \A u \in Threads : function'[u] # "Exec"
    BY <1>1, <1>2, Zenon DEF Kin, Tree
<1> QED
    BY <1>4, <1>5, <1>6, Zenon DEF Kin

(* Every step keeps kinship; Exec is not called.                           *)
LEMMA KinNext == PInv /\ KinInv /\ [Next]_vars => KinInv'
<1> SUFFICES ASSUME PInv, KinInv, [Next]_vars PROVE KinInv'
    OBVIOUS
<1>1. CASE UNCHANGED vars
    <2>1. KinFrame
        BY <1>1, Zenon DEF vars, KinFrame, Live, Left
    <2> QED
        BY <2>1, KinFrameInv
<1>2. ASSUME NEW t \in Threads, KinQuiet(t) PROVE KinInv'
    BY <1>2, KinQuietFrame, KinFrameInv
<1>3. ASSUME NEW t \in Threads, Fork(t) \/ Exit(t) \/ ExitAfterV(t) PROVE KinInv'
    BY <1>3, ForkKin, ExitLeaves, LeavesKin, ExitAfterVRemoved, RemovedKin
<1>4. ASSUME NEW t \in Threads, Exec(t) PROVE KinInv'
    <2>1. Uses("Exec") /\ workload' = workload
        BY <1>4, Zenon DEF Exec, Makes, NewThread
    <2> QED
        BY <2>1, Zenon DEF KinInv, Uses
<1>5. ASSUME NEW t \in Threads, nachosExecThread(t) PROVE KinInv'
    <2>1. function[t] = "Exec" /\ workload' = workload
        BY <1>5, Zenon DEF nachosExecThread, processVars
    <2>2. Uses("Exec")
        BY <2>1, Zenon DEF KinInv, Kin
    <2> QED
        BY <2>1, <2>2, Zenon DEF KinInv, Uses
<1>6. ASSUME NEW t \in Threads, Yield(t) PROVE KinInv'
    BY <1>1, <1>2, <1>6, Zenon DEF Yield, KinQuiet
<1> QED
    BY <1>1, <1>2, <1>3, <1>4, <1>5, <1>6, Zenon
    DEF Next, KernelStep, UserStep, KinQuiet, QuietStep

(* At the start there is one thread, without kin.                          *)
LEMMA KinInit == Init => KinInv
<1> SUFFICES ASSUME Init PROVE Kin
    BY DEF KinInv
<1>1. ASSUME NEW t \in Threads
      PROVE  fatherProcess[t] = NULL /\ function[t] = NULL /\ usage[t] = 1
    BY DEF Init
<1>2. NULL \notin Threads
    BY ProcessesAssumption
<1>3. ASSUME NEW f \in Threads PROVE Counted(f) /\ Unborn(f) /\ FatherStays(f)
    <2>1. Children(f) = {}
        BY <1>1, <1>2, <1>3, Zenon DEF Children
    <2>2. Counted(f)
        BY <1>1, <2>1, FS_EmptySet DEF Counted
    <2> QED
        BY <1>1, <1>2, <2>2, Zenon DEF Unborn, FatherStays
<1>4. threadsTable.map = {}
    BY DEF Init, NewTable
<1>5. Tree
    <2> SUFFICES ASSUME NEW X \in SUBSET Threads, X # {} PROVE \E t \in X : fatherProcess[t] \notin X
        BY Zenon DEF Tree
    <2>1. PICK t \in X : t \in Threads
        BY Zenon
    <2>2. fatherProcess[t] \notin X
        BY <1>1, <1>2, <2>1
    <2> QED
        BY <2>2
<1>6. ASSUME NEW t \in Threads PROVE function[t] # "Exec"
    BY <1>1, FunctionAssumption
<1> QED
    BY <1>3, <1>4, <1>5, <1>6, Zenon DEF Kin

(* Kinship is right in every reachable state.                              *)
LEMMA KinInvariant == Spec => []KinInv
    BY KinInit, KinNext, Invariant, PTL DEF Spec

(* "First wait for the child processes to finish": threads do.             *)
THEOREM ForkedFinish == Spec => []ForkedFinishFirst
<1>1. KinInv => ForkedFinishFirst
    BY Zenon DEF KinInv, Kin, FatherStays, ForkedFinishFirst, ChildrenFinishFirst
<1> QED
    BY <1>1, KinInvariant, PTL

(* A pid that is open is of a thread that exists.                          *)
THEOREM OpenPidsExist == Spec => []OpenPidExists
<1>1. KinInv => OpenPidExists
    BY Zenon DEF KinInv, Kin, Occupied, OpenPidExists, isOpen
<1> QED
    BY <1>1, KinInvariant, PTL

-----------------------------------------------------------------------------
(* The memory of programs that do not call Fork.                           *)

Owners == {t \in Threads : space[t] # NULL}

(* mainMemoryMap marks the frames of the spaces, and each is of one space. *)
(* Nobody counts children, so that whoever runs when a space is deleted,   *)
(* all of it is freed.                                                     *)
Memory ==
    /\ \A t \in Threads : function[t] # "Fork" /\ usage[t] <= 1
    /\ \A t \in Threads : pc[t] \in {"none", "fresh", "root"} => space[t] = NULL
    /\ \A t \in Owners : FramesOf(t) \subseteq mainMemoryMap
    /\ \A frame \in mainMemoryMap : \E t \in Owners : frame \in FramesOf(t)
    /\ \A t, u \in Owners : t # u => FramesOf(t) \cap FramesOf(u) = {}

MemoryInv == ~Uses("Fork") => Memory

(* What the steps leave alone that load and delete no space.               *)
MemoryFrame ==
    /\ UNCHANGED <<workload, space, mainMemoryMap>>
    /\ \A u \in Threads :
          /\ function'[u] = function[u] \/ function'[u] = "Exec"
          /\ usage'[u] <= usage[u]
          /\ pc'[u] \in {"none", "fresh", "root"} => pc[u] \in {"none", "fresh", "root"}

(* Such a step keeps the memory apart.                                     *)
LEMMA MemoryFrameInv ==
    ASSUME PInv, PInv', MemoryInv, MemoryFrame PROVE MemoryInv'
<1> SUFFICES ASSUME ~Uses("Fork") PROVE Memory'
    BY DEF MemoryInv, MemoryFrame, Uses
<1>1. Memory
    BY DEF MemoryInv
<1>2. Owners' = Owners /\ \A t : FramesOf(t)' = FramesOf(t)
    BY Zenon DEF Owners, FramesOf, MemoryFrame
<1>3. ASSUME NEW t \in Threads PROVE function'[t] # "Fork" /\ usage'[t] <= 1
    <2>1. usage'[t] <= usage[t] /\ usage[t] <= 1 /\ usage[t] \in Int /\ usage'[t] \in Int
        BY <1>1, Zenon DEF Memory, MemoryFrame, PInv, TypeOK
    <2>2. function'[t] # "Fork"
        BY <1>1 DEF Memory, MemoryFrame
    <2> QED
        BY <2>1, <2>2
<1>4. \A t \in Threads : pc'[t] \in {"none", "fresh", "root"} => space'[t] = NULL
    BY <1>1, Zenon DEF Memory, MemoryFrame
<1>5. mainMemoryMap' = mainMemoryMap
    BY DEF MemoryFrame
<1> QED
    BY <1>1, <1>2, <1>3, <1>4, <1>5, ZenonT(40) DEF Memory

(* The steps of which this is so.                                          *)
MemoryQuiet(t) ==
    \/ QuietStep(t)
    \/ Exec(t)
    \/ NachosForkThread(t)
    \/ Join(t)
    \/ ReturnFromJoin(t)
    \/ Exit(t)
    \/ ExitAfterV(t)

(* They leave the memory alone.                                            *)
LEMMA MemoryQuietFrame ==
    ASSUME PInv, NEW t \in Threads, MemoryQuiet(t) PROVE MemoryFrame
<1>0. /\ pc \in [Threads -> Labels] /\ usage \in [Threads -> Int]
      /\ function \in [Threads -> {"Exec", "Fork", NULL}]
    BY DEF PInv, TypeOK
<1>1. CASE QuietStep(t)
    <2>1. Quiet /\ KinFrame
        BY <1>1, QuietStepQuiet, KinQuietFrame DEF PInv, KinQuiet
    <2>2. UNCHANGED mainMemoryMap
        BY <1>1, Zenon DEF QuietStep, Halt, ReturnFromExec, CallExit, SemCreate, SemDestroy, DeleteSemaphore,
              SemSignal, SemWait, TestInP, OpenFile, CloseFile, Create, Read, Write, ConsoleP,
              ConsoleV, CopyToUser, memoryVars, consoleUnchanged
    <2>3. \A u \in Threads : pc'[u] = pc[u] \/ pc'[u] \in Ordinary
        BY <2>1, Zenon DEF Quiet
    <2>4. \A u \in Threads : pc'[u] \in {"none", "fresh", "root"} => pc[u] \in {"none", "fresh", "root"}
        BY <2>3 DEF Ordinary
    <2>5. \A u \in Threads : function'[u] = function[u] /\ usage'[u] <= usage[u]
        BY <1>0, <2>1 DEF KinFrame
    <2>6. UNCHANGED <<workload, space>>
        BY <2>1, Zenon DEF Quiet, KinFrame
    <2> QED
        BY <2>2, <2>4, <2>5, <2>6, Zenon DEF MemoryFrame
<1>2. CASE Exec(t)
    <2>1. PICK n \in Threads : /\ NewThread(t, n, "Exec")
                               /\ pc' = [pc EXCEPT ![n] = "fresh", ![t] = "Exec"]
        BY <1>2, Zenon DEF Exec
    <2>2. pc[n] = "none" /\ function' = [function EXCEPT ![n] = "Exec"] /\ workload' = workload
        BY <2>1, Zenon DEF NewThread
    <2>3. \A u \in Threads : function'[u] = function[u] \/ function'[u] = "Exec"
        BY <1>0, <2>2
    <2>4. \A u \in Threads : pc'[u] \in {"none", "fresh", "root"} => pc[u] \in {"none", "fresh", "root"}
        BY <1>0, <2>1, <2>2
    <2>5. UNCHANGED <<usage, space, mainMemoryMap>>
        BY <1>2, Zenon DEF Exec, memoryVars
    <2>6. \A u \in Threads : usage'[u] <= usage[u]
        BY <1>0, <2>5
    <2> QED
        BY <2>2, <2>3, <2>4, <2>5, <2>6, Zenon DEF MemoryFrame
<1>3. CASE NachosForkThread(t)
    BY <1>0, <1>3 DEF NachosForkThread, processVars, MemoryFrame
<1>4. CASE Join(t)
    BY <1>0, <1>4 DEF Join, processVars, memoryVars, MemoryFrame
<1>5. CASE ReturnFromJoin(t)
    BY <1>0, <1>5 DEF ReturnFromJoin, processVars, memoryVars, MemoryFrame
<1>6. CASE Exit(t)
    <2>1. Leaves(t) /\ UNCHANGED <<space, mainMemoryMap>>
        BY <1>6, ExitLeaves, Zenon DEF Exit, memoryVars
    <2>2. \A u \in Threads : usage'[u] <= usage[u]
        <3>1. \A u \in Threads : usage'[u] = usage[u] \/ usage'[u] = usage[u] - 1
            BY <2>1, Zenon DEF Leaves
        <3>2. \A u \in Threads : usage[u] \in Int
            BY <1>0, Zenon
        <3> QED
            BY <3>1, <3>2
    <2>3. \A u \in Threads : pc'[u] \in {"none", "fresh", "root"} => pc[u] \in {"none", "fresh", "root"}
        BY <2>1, Zenon DEF Leaves
    <2> QED
        BY <2>1, <2>2, <2>3, Zenon DEF Leaves, MemoryFrame
<1>7. CASE ExitAfterV(t)
    <2>1. Removed(t) /\ UNCHANGED <<space, mainMemoryMap>>
        BY <1>7, ExitAfterVRemoved, Zenon DEF ExitAfterV, memoryVars
    <2>2. \A u \in Threads : usage'[u] <= usage[u]
        BY <1>0, <2>1 DEF Removed
    <2>3. \A u \in Threads : pc'[u] \in {"none", "fresh", "root"} => pc[u] \in {"none", "fresh", "root"}
        BY <2>1 DEF Removed
    <2> QED
        BY <2>1, <2>2, <2>3, Zenon DEF Removed, MemoryFrame
<1> QED
    BY <1>1, <1>2, <1>3, <1>4, <1>5, <1>6, <1>7, Zenon DEF MemoryQuiet

(* BitMap::Find succeeds when fewer bits are set than there are.           *)
LEMMA FindFree ==
    ASSUME NEW map, IsFiniteSet(map), NEW n \in Nat, Cardinality(map) < n
    PROVE  Find(map, n) \in 0..(n - 1) /\ Find(map, n) \notin map
<1>1. Cardinality(map) \in Nat
    BY FS_CardinalityType
<1>2. Cardinality(0..(n - 1)) = n
    BY <1>1, FS_Interval
<1>3. ~((0..(n - 1)) \subseteq map)
    <2> SUFFICES ASSUME (0..(n - 1)) \subseteq map PROVE FALSE
        OBVIOUS
    <2>1. Cardinality(0..(n - 1)) <= Cardinality(map)
        BY FS_Subset
    <2> QED
        BY <1>1, <1>2, <2>1
<1>4. (0..(n - 1)) \ map \in SUBSET Nat /\ (0..(n - 1)) \ map # {}
    BY <1>3
<1>5. Min((0..(n - 1)) \ map) \in (0..(n - 1)) \ map
    BY <1>4, MinOf
<1> QED
    BY <1>3, <1>5 DEF Find

(* As there are two frames for each thread, a thread without a space finds *)
(* two that are free.                                                      *)
LEMMA RoomToLoad ==
    ASSUME PInv, Memory, NEW t \in Threads, space[t] = NULL
    PROVE  LoadedSpace.data \notin mainMemoryMap /\ LoadedSpace.stack \notin mainMemoryMap
<1> DEFINE Datas == {space[u].data : u \in Owners}
           Stacks == {space[u].stack : u \in Owners}
<1>0. NumPhysPages \in Nat /\ NumPhysPages >= 2 * Cardinality(Threads) /\ IsFiniteSet(Threads)
    BY ProcessesAssumption
<1>1. IsFiniteSet(Owners) /\ Cardinality(Owners) <= Cardinality(Threads) - 1
      /\ Cardinality(Threads) \in Nat /\ Cardinality(Owners) \in Nat
    <2>1. IsFiniteSet(Threads \ {t}) /\ Cardinality(Threads \ {t}) = Cardinality(Threads) - 1
        BY <1>0, FS_RemoveElement, Zenon
    <2>2. Owners \subseteq Threads \ {t}
        BY DEF Owners
    <2>3. IsFiniteSet(Owners) /\ Cardinality(Owners) <= Cardinality(Threads \ {t})
        BY <2>1, <2>2, FS_Subset
    <2> QED
        BY <1>0, <2>1, <2>3, FS_CardinalityType
<1>2. IsFiniteSet(Datas) /\ Cardinality(Datas) <= Cardinality(Owners)
    <2>1. [u \in Owners |-> space[u].data] \in Surjection(Owners, Datas)
        BY DEF Surjection
    <2> QED
        BY <1>1, <2>1, FS_Surjection, Zenon
<1>3. IsFiniteSet(Stacks) /\ Cardinality(Stacks) <= Cardinality(Owners)
    <2>1. [u \in Owners |-> space[u].stack] \in Surjection(Owners, Stacks)
        BY DEF Surjection
    <2> QED
        BY <1>1, <2>1, FS_Surjection, Zenon
<1>4. mainMemoryMap \subseteq Datas \cup Stacks
    BY DEF Memory, FramesOf
<1> HIDE DEF Datas, Stacks
<1>5. /\ IsFiniteSet(Datas \cup Stacks)
      /\ Cardinality(Datas \cup Stacks) <= Cardinality(Datas) + Cardinality(Stacks)
    <2>1. /\ IsFiniteSet(Datas \cup Stacks)
          /\ Cardinality(Datas \cup Stacks) =
                Cardinality(Datas) + Cardinality(Stacks) - Cardinality(Datas \cap Stacks)
        BY <1>2, <1>3, FS_Union
    <2>2. IsFiniteSet(Datas \cap Stacks)
        BY <1>2, FS_Subset
    <2>3. /\ Cardinality(Datas \cap Stacks) \in Nat
          /\ Cardinality(Datas) \in Nat /\ Cardinality(Stacks) \in Nat
        BY <1>2, <1>3, <2>2, FS_CardinalityType
    <2> QED
        BY <2>1, <2>3
<1>6. IsFiniteSet(mainMemoryMap) /\ Cardinality(mainMemoryMap) <= Cardinality(Datas \cup Stacks)
    BY <1>4, <1>5, FS_Subset
<1>7. Cardinality(mainMemoryMap) \in Nat /\ Cardinality(Datas \cup Stacks) \in Nat
      /\ Cardinality(Datas) \in Nat /\ Cardinality(Stacks) \in Nat
    BY <1>2, <1>3, <1>5, <1>6, FS_CardinalityType
<1>8. Cardinality(mainMemoryMap) < NumPhysPages - 1
    BY <1>0, <1>1, <1>2, <1>3, <1>5, <1>6, <1>7
<1> DEFINE data == Find(mainMemoryMap, NumPhysPages)
<1>9. data \notin mainMemoryMap
    BY <1>0, <1>6, <1>7, <1>8, FindFree
<1>10. IsFiniteSet(mainMemoryMap \cup {data})
       /\ Cardinality(mainMemoryMap \cup {data}) = Cardinality(mainMemoryMap) + 1
    BY <1>6, <1>9, FS_AddElement
<1>11. Cardinality(mainMemoryMap \cup {data}) < NumPhysPages
    BY <1>0, <1>7, <1>8, <1>10
<1>12. Find(mainMemoryMap \cup {data}, NumPhysPages) \notin mainMemoryMap \cup {data}
    BY <1>0, <1>10, <1>11, FindFree
<1> QED
    BY <1>9, <1>12 DEF LoadedSpace

(* A program is loaded into frames of its own.                             *)
LEMMA ExecMemory ==
    ASSUME PInv, PInv', MemoryInv, NEW t \in Threads, nachosExecThread(t) PROVE MemoryInv'
<1>0. /\ pc \in [Threads -> Labels] /\ usage \in [Threads -> Int]
      /\ function \in [Threads -> {"Exec", "Fork", NULL}] /\ space \in [Threads -> Spaces \cup {NULL}]
      /\ NULL \notin Spaces
    BY ProcessesAssumption, Zenon DEF PInv, TypeOK
<1>1. pc[t] = "root" /\ UNCHANGED <<workload, function, usage>>
    BY Zenon DEF nachosExecThread, At, processVars
<1>2. CASE Finish(t) /\ UNCHANGED memoryVars
    <2>1. \A u \in Threads : usage'[u] <= usage[u]
        BY <1>0, <1>1
    <2>2. \A u \in Threads : pc'[u] \in {"none", "fresh", "root"} => pc[u] \in {"none", "fresh", "root"}
        BY <1>0, <1>2 DEF Finish
    <2>3. MemoryFrame
        BY <1>1, <1>2, <2>1, <2>2, Zenon DEF MemoryFrame, memoryVars
    <2> QED
        BY <2>3, MemoryFrameInv
<1>3. CASE /\ space' = [space EXCEPT ![t] = LoadedSpace]
           /\ mainMemoryMap' = mainMemoryMap \cup {LoadedSpace.data, LoadedSpace.stack}
           /\ pc' = [pc EXCEPT ![t] = "user"]
    <2> SUFFICES ASSUME ~Uses("Fork") PROVE Memory'
        BY <1>1 DEF MemoryInv, Uses
    <2>1. Memory
        BY DEF MemoryInv
    <2>2. space[t] = NULL
        BY <1>1, <2>1, Zenon DEF Memory
    <2>3. PICK new \in Spaces : new = LoadedSpace
        BY SpaceTypes
    <2>4. new.data \notin mainMemoryMap /\ new.stack \notin mainMemoryMap
        BY <2>1, <2>2, <2>3, RoomToLoad
    <2>5. /\ space'[t] = new /\ \A u \in Threads \ {t} : space'[u] = space[u]
          /\ mainMemoryMap' = mainMemoryMap \cup {new.data, new.stack}
        BY <1>0, <1>3, <2>3
    <2>6. /\ Owners' = Owners \cup {t} /\ t \notin Owners
          /\ FramesOf(t)' = {new.data, new.stack}
          /\ \A u \in Threads \ {t} : FramesOf(u)' = FramesOf(u)
        BY <1>0, <2>2, <2>5, Zenon DEF Owners, FramesOf
    <2>7. \A u \in Threads : function'[u] # "Fork" /\ usage'[u] <= 1
        BY <1>1, <2>1, Zenon DEF Memory
    <2>8. \A u \in Threads : pc'[u] \in {"none", "fresh", "root"} => space'[u] = NULL
        BY <1>0, <1>3, <2>1, <2>5, ZenonT(40) DEF Memory
    <2>9. \A u \in Owners : u \in Threads /\ u # t
        BY <2>6, Zenon DEF Owners
    <2>10. \A u \in Owners' : FramesOf(u)' \subseteq mainMemoryMap'
        BY <2>1, <2>5, <2>6, <2>9, Zenon DEF Memory
    <2>11. ASSUME NEW frame \in mainMemoryMap' PROVE \E u \in Owners' : frame \in FramesOf(u)'
        <3>1. CASE frame \in mainMemoryMap
            <4>1. PICK u \in Owners : frame \in FramesOf(u)
                BY <2>1, <3>1, Zenon DEF Memory
            <4> QED
                BY <2>6, <2>9, <4>1, Zenon
        <3>2. CASE frame \in {new.data, new.stack}
            BY <2>6, <3>2, Zenon
        <3> QED
            BY <2>5, <2>11, <3>1, <3>2, Zenon
    <2>12. ASSUME NEW u \in Owners', NEW v \in Owners', u # v PROVE FramesOf(u)' \cap FramesOf(v)' = {}
        <3>1. FramesOf(t)' \cap mainMemoryMap = {}
            BY <2>4, <2>6, Zenon
        <3>2. \A w \in Owners : FramesOf(w)' = FramesOf(w) /\ FramesOf(w) \subseteq mainMemoryMap
            BY <2>1, <2>6, <2>9, Zenon DEF Memory
        <3>3. CASE u = t
            BY <2>6, <2>12, <3>1, <3>2, <3>3, Zenon
        <3>4. CASE v = t
            BY <2>6, <2>12, <3>1, <3>2, <3>4, Zenon
        <3>5. CASE u # t /\ v # t
            BY <2>1, <2>6, <2>12, <3>2, <3>5, Zenon DEF Memory
        <3> QED
            BY <3>3, <3>4, <3>5
    <2> QED
        BY <2>7, <2>8, <2>10, <2>11, <2>12, Zenon DEF Memory
<1> QED
    BY <1>2, <1>3, Zenon DEF nachosExecThread

(* A carcass takes its own frames with it and no others.                   *)
LEMMA DispatchMemory ==
    ASSUME PInv, PInv', MemoryInv, NEW n \in Threads, Dispatch(n) PROVE MemoryInv'
<1>0. /\ pc \in [Threads -> Labels] /\ usage \in [Threads -> Int] /\ NULL \notin Threads
      /\ threadToBeDestroyed \in Threads \cup {NULL}
      /\ space \in [Threads -> Spaces \cup {NULL}]
    BY ProcessesAssumption, Zenon DEF PInv, TypeOK
<1>1. UNCHANGED <<workload, function, usage>>
    BY Zenon DEF Dispatch, processVars
<1>2. \A u \in Threads : pc'[u] \in {"none", "fresh", "root"} => pc[u] \in {"none", "fresh", "root"}
    BY DispatchMoves DEF PInv
<1>3. \A u \in Threads : usage'[u] <= usage[u]
    BY <1>0, <1>1
<1>4. CASE UNCHANGED <<space, mainMemoryMap>>
    <2>1. MemoryFrame
        BY <1>1, <1>2, <1>3, <1>4, Zenon DEF MemoryFrame
    <2> QED
        BY <2>1, MemoryFrameInv
<1>5. ASSUME NEW x \in Threads, pc[x] = "finished",
             mainMemoryMap' = mainMemoryMap \ FreedFrames(x, n),
             space' = [space EXCEPT ![x] = NULL]
      PROVE  MemoryInv'
    <2> SUFFICES ASSUME ~Uses("Fork") PROVE Memory'
        BY <1>1 DEF MemoryInv, Uses
    <2>1. Memory
        BY DEF MemoryInv
    <2>2. space'[x] = NULL /\ \A u \in Threads \ {x} : space'[u] = space[u]
        BY <1>0, <1>5
    <2>3. Owners' = Owners \ {x} /\ \A u \in Threads \ {x} : FramesOf(u)' = FramesOf(u)
        BY <2>2, Zenon DEF Owners, FramesOf
    <2>4. mainMemoryMap' = IF x \in Owners THEN mainMemoryMap \ FramesOf(x) ELSE mainMemoryMap
        <3>1. ~(usage[n] > 1)
            BY <1>0, <2>1 DEF Memory
        <3> QED
            BY <1>5, <3>1, Zenon DEF FreedFrames, FramesOf, Owners
    <2>5. \A u \in Threads : function'[u] # "Fork" /\ usage'[u] <= 1
        BY <1>1, <2>1, Zenon DEF Memory
    <2>6. \A u \in Threads : pc'[u] \in {"none", "fresh", "root"} => space'[u] = NULL
        BY <1>2, <2>1, <2>2, Zenon DEF Memory
    <2>7. \A u \in Owners' : u \in Owners /\ u # x /\ FramesOf(u)' = FramesOf(u)
        BY <2>3, Zenon DEF Owners
    <2>8. ASSUME NEW u \in Owners' PROVE FramesOf(u)' \subseteq mainMemoryMap'
        <3>1. u \in Owners /\ u # x /\ FramesOf(u)' = FramesOf(u)
            BY <2>7
        <3>2. FramesOf(u) \subseteq mainMemoryMap /\ (x \in Owners => FramesOf(u) \cap FramesOf(x) = {})
            BY <2>1, <3>1, Zenon DEF Memory
        <3> QED
            BY <2>4, <3>1, <3>2
    <2>9. ASSUME NEW frame \in mainMemoryMap' PROVE \E u \in Owners' : frame \in FramesOf(u)'
        <3>1. frame \in mainMemoryMap /\ (x \in Owners => frame \notin FramesOf(x))
            BY <2>4, <2>9
        <3>2. PICK u \in Owners : frame \in FramesOf(u)
            BY <2>1, <3>1, Zenon DEF Memory
        <3>3. u \in Owners'
            BY <2>3, <3>1, <3>2, Zenon
        <3> QED
            BY <2>7, <3>2, <3>3, Zenon
    <2>10. ASSUME NEW u \in Owners', NEW v \in Owners', u # v PROVE FramesOf(u)' \cap FramesOf(v)' = {}
        BY <2>1, <2>7, <2>10, Zenon DEF Memory
    <2> QED
        BY <2>5, <2>6, <2>8, <2>9, <2>10, Zenon DEF Memory
<1>6. CASE ResumeRun(n) /\ threadToBeDestroyed # NULL
    <2>1. PICK x : x = threadToBeDestroyed
        OBVIOUS
    <2>2. x \in Threads /\ pc[x] = "finished"
        BY <1>0, <1>6, <2>1, Zenon DEF PInv, SpaceInv
    <2>3. mainMemoryMap' = mainMemoryMap \ FreedFrames(x, n) /\ space' = [space EXCEPT ![x] = NULL]
        BY <1>6, <2>1, Zenon DEF ResumeRun
    <2> QED
        BY <1>5, <2>2, <2>3, Zenon
<1> QED
    BY <1>4, <1>6, Zenon DEF Dispatch, StartRun, ResumeRun

(* Every step keeps the memory apart; Fork is not called.                  *)
LEMMA MemoryNext == PInv /\ PInv' /\ MemoryInv /\ [Next]_vars => MemoryInv'
<1> SUFFICES ASSUME PInv, PInv', MemoryInv, [Next]_vars PROVE MemoryInv'
    OBVIOUS
<1>1. CASE UNCHANGED vars
    <2>1. \A u \in Threads : usage'[u] <= usage[u]
        <3>1. usage' = usage /\ \A u \in Threads : usage[u] \in Int
            BY <1>1, Zenon DEF vars, PInv, TypeOK
        <3> QED
            BY <3>1
    <2>2. MemoryFrame
        BY <1>1, <2>1, Zenon DEF vars, MemoryFrame
    <2> QED
        BY <2>2, MemoryFrameInv
<1>2. ASSUME NEW t \in Threads, MemoryQuiet(t) PROVE MemoryInv'
    BY <1>2, MemoryQuietFrame, MemoryFrameInv
<1>3. ASSUME NEW t \in Threads, nachosExecThread(t) \/ Dispatch(t) PROVE MemoryInv'
    BY <1>3, ExecMemory, DispatchMemory
<1>4. ASSUME NEW t \in Threads, Fork(t) PROVE MemoryInv'
    <2>1. Uses("Fork") /\ workload' = workload
        BY <1>4, Zenon DEF Fork, Makes, NewThread
    <2> QED
        BY <2>1, Zenon DEF MemoryInv, Uses
<1>5. ASSUME NEW t \in Threads, Yield(t) PROVE MemoryInv'
    BY <1>1, <1>3, <1>5, Zenon DEF Yield
<1> QED
    BY <1>1, <1>2, <1>3, <1>4, <1>5, Zenon
    DEF Next, KernelStep, UserStep, MemoryQuiet, QuietStep

(* StartProcess has loaded the first program into the first two frames.    *)
LEMMA MemoryInit == Init => MemoryInv
<1> SUFFICES ASSUME Init PROVE Memory
    BY DEF MemoryInv
<1>0. Main \in Threads /\ NULL \notin Spaces /\ NumPhysPages \in Nat /\ NumPhysPages >= 2
    BY ProcessesAssumption
<1>1. space[Main] = [data |-> 0, stack |-> 1] /\ \A t \in Threads \ {Main} : space[t] = NULL
    BY <1>0 DEF Init
<1>2. [data |-> 0, stack |-> 1] \in Spaces
    BY <1>0 DEF Spaces, Frames
<1>3. Owners = {Main} /\ FramesOf(Main) = {0, 1} /\ mainMemoryMap = {0, 1}
    BY <1>0, <1>1, <1>2 DEF Owners, FramesOf, Init
<1>4. \A t \in Threads : function[t] # "Fork" /\ usage[t] <= 1
    <2>1. function = [t \in Threads |-> NULL] /\ usage = [t \in Threads |-> 1]
        BY Zenon DEF Init
    <2> QED
        BY <2>1, FunctionAssumption
<1>5. \A t \in Threads : pc[t] \in {"none", "fresh", "root"} => space[t] = NULL
    BY <1>1 DEF Init
<1> QED
    BY <1>3, <1>4, <1>5, Zenon DEF Memory

(* The frames of programs without threads are their own.                   *)
THEOREM MemoryIsOwn == Spec => []ProcessMemoryOwn
<1>1. MemoryInv => ProcessMemoryOwn
    BY Zenon DEF MemoryInv, Memory, Owners, ProcessMemoryOwn, FramesHeld
<1> QED
    BY <1>1, MemoryInit, MemoryNext, Invariant, PTL DEF Spec

-----------------------------------------------------------------------------
(* Who shares the tables of its father.                                    *)
ActiveThreads == {t \in Threads : Live(t) /\ ~Left(t)}

(* A father is there as long as its child is.                              *)
LEMMA ActiveFathers == ASSUME PInv, Kin PROVE WithFathers(ActiveThreads)
<1> SUFFICES ASSUME NEW t \in ActiveThreads, fatherProcess[t] \in Threads
             PROVE  fatherProcess[t] \in ActiveThreads
    BY Zenon DEF WithFathers
<1>1. PICK f \in Threads : f = fatherProcess[t]
    OBVIOUS
<1>2. t \in Threads /\ ~Left(t) /\ f # NULL
    BY ProcessesAssumption DEF ActiveThreads
<1>3. Unborn(f) /\ FatherStays(t)
    BY <1>2, Zenon DEF Kin
<1>4. pc[f] # "none" /\ ~Left(f)
    BY <1>1, <1>2, <1>3, Zenon DEF Unborn, FatherStays
<1> QED
    BY <1>1, <1>4 DEF ActiveThreads, Live, Left

(* The loop of Exit ends when there are no children.                       *)
LEMMA ChildlessAtExit ==
    ASSUME PInv, Kin, NEW t \in Threads, usage[t] <= 1
    PROVE  Childless(ActiveThreads, t)
<1>1. IsFiniteSet(Children(t))
    BY ProcessesAssumption, FS_Subset DEF Children
<1>2. Counted(t)
    BY Zenon DEF Kin
<1>3. Cardinality(Children(t)) \in Nat
    BY <1>1, FS_CardinalityType
<1>4. Cardinality(Children(t)) = 0
    BY <1>2, <1>3 DEF Counted
<1>5. Children(t) = {}
    BY <1>1, <1>4, FS_EmptySet
<1> QED
    BY <1>5, Zenon DEF Childless, Children, ActiveThreads

(* The active threads after each kind of step.                             *)
LEMMA ActiveMoves ==
    ASSUME PInv, NEW t \in Threads
    PROVE  /\ KinFrame \/ Removed(t) => ActiveThreads' = ActiveThreads
           /\ Leaves(t) => t \in ActiveThreads /\ ActiveThreads' = ActiveThreads \ {t}
           /\ \A n \in Threads, p \in Positions : Forks(t, n, p) =>
                 /\ t \in ActiveThreads /\ n \notin ActiveThreads
                 /\ ActiveThreads' = ActiveThreads \cup {n}
<1>1. ASSUME KinFrame PROVE ActiveThreads' = ActiveThreads
    BY <1>1, Zenon DEF KinFrame, ActiveThreads
<1>2. ASSUME Removed(t) PROVE ActiveThreads' = ActiveThreads
    <2>1. \A u \in Threads : Live(u)' /\ ~Left(u)' <=> Live(u) /\ ~Left(u)
        BY <1>2 DEF Removed, Live, Left
    <2> QED
        BY <2>1, Zenon DEF ActiveThreads
<1>3. ASSUME Leaves(t) PROVE t \in ActiveThreads /\ ActiveThreads' = ActiveThreads \ {t}
    <2>1. \A u \in Threads \ {t} : Live(u)' /\ ~Left(u)' <=> Live(u) /\ ~Left(u)
        BY <1>3, Zenon DEF Leaves, Live, Left
    <2>2. Live(t) /\ ~Left(t) /\ Left(t)'
        BY <1>3 DEF Leaves, Live, Left
    <2> QED
        BY <2>1, <2>2, Zenon DEF ActiveThreads
<1>4. ASSUME NEW n \in Threads, NEW p \in Positions, Forks(t, n, p)
      PROVE  /\ t \in ActiveThreads /\ n \notin ActiveThreads
             /\ ActiveThreads' = ActiveThreads \cup {n}
    <2>1. \A u \in Threads \ {n} : Live(u)' /\ ~Left(u)' <=> Live(u) /\ ~Left(u)
        BY <1>4, Zenon DEF Forks, Live, Left
    <2>2. Live(t) /\ ~Left(t) /\ ~Live(n) /\ Live(n)' /\ ~Left(n)'
        BY <1>4 DEF Forks, Live, Left
    <2> QED
        BY <2>1, <2>2, Zenon DEF ActiveThreads
<1> QED
    BY <1>1, <1>2, <1>3, <1>4

(* What Fork does to the tables.                                           *)
LEMMA ForkTables ==
    ASSUME PInv, NEW t \in Threads, Fork(t)
    PROVE  \E n \in Threads : \E p \in Positions :
              /\ Forks(t, n, p)
              /\ Copies(openedFilesTable[n], openedFilesTable'[n], openedFilesTable[t])
              /\ Copies(associatedSemaphores[n], associatedSemaphores'[n], associatedSemaphores[t])
              /\ \A u \in Threads \ {n} :
                    /\ openedFilesTable'[u] = openedFilesTable[u]
                    /\ associatedSemaphores'[u] = associatedSemaphores[u]
              /\ UNCHANGED <<unixFiles, semStatus, local>>
<1>0. /\ pc \in [Threads -> Labels] /\ openedFilesTable \in [Threads -> Tables(Files \cup {-1})]
      /\ associatedSemaphores \in [Threads -> Tables(Semaphores)]
    BY Zenon DEF PInv, TypeOK
<1>1. PICK m \in Threads, p \in Positions : Forks(t, m, p)
    BY ForkForks
<1>2. PICK n \in Threads :
          /\ NewThread(t, n, "Fork") /\ pc' = [pc EXCEPT ![n] = "fresh"]
          /\ openedFilesTable' = [openedFilesTable EXCEPT ![n] = copyTable(@, openedFilesTable[t])]
          /\ associatedSemaphores' =
                [associatedSemaphores EXCEPT ![n] = copyTable(@, associatedSemaphores[t])]
    BY ZenonT(40) DEF Fork
<1>3. pc[n] = "none" /\ pc'[n] = "fresh"
    BY <1>0, <1>2 DEF NewThread
<1>4. n = m
    <2>1. n # m => pc'[n] = pc[n]
        BY <1>1, Zenon DEF Forks
    <2> QED
        BY <1>3, <2>1
<1>5. openedFilesTable'[n] = copyTable(openedFilesTable[n], openedFilesTable[t])
      /\ \A u \in Threads \ {n} : openedFilesTable'[u] = openedFilesTable[u]
    BY <1>0, <1>2
<1>6. associatedSemaphores'[n] = copyTable(associatedSemaphores[n], associatedSemaphores[t])
      /\ \A u \in Threads \ {n} : associatedSemaphores'[u] = associatedSemaphores[u]
    BY <1>0, <1>2
<1>7. UNCHANGED <<unixFiles, semStatus, local>>
    BY Zenon DEF Fork, hostVars, semVars
<1>8. /\ Copies(openedFilesTable[n], openedFilesTable'[n], openedFilesTable[t])
      /\ Copies(associatedSemaphores[n], associatedSemaphores'[n], associatedSemaphores[t])
    BY <1>5, <1>6, CopiedTable, Zenon
<1> QED
    BY <1>1, <1>4, <1>5, <1>6, <1>7, <1>8, Zenon

LiveSemaphores == {s \in Semaphores : semStatus[s] = "live"}

(* What Exit does to the tables: what the thread opened is closed.         *)
LEMMA ExitTables ==
    ASSUME PInv, NEW t \in Threads, Exit(t)
    PROVE  /\ \A u \in Threads \ {t} :
                 /\ openedFilesTable'[u] = openedFilesTable[u]
                 /\ associatedSemaphores'[u] = associatedSemaphores[u]
           /\ openedFilesTable'[t].map =
                 openedFilesTable[t].map \ (Opened(openedFilesTable[t]) \ Reserved)
           /\ \A f : f \in unixFiles' <=>
                 f \in unixFiles /\ ~Owns(openedFilesTable, Reserved, t, f)
           /\ \A s \in LiveSemaphores :
                 s \in LiveSemaphores' \/ Owns(associatedSemaphores, {}, t, s)
           /\ UNCHANGED local
<1>0. /\ openedFilesTable \in [Threads -> Tables(Files \cup {-1})]
      /\ associatedSemaphores \in [Threads -> Tables(Semaphores)]
      /\ semStatus \in [Semaphores -> {"unused", "live", "deleted"}]
    BY Zenon DEF PInv, TypeOK
<1>1. PICK files : files = Opened(openedFilesTable[t]) \ Reserved
    BY Zenon
<1>2. PICK sems : sems = Opened(associatedSemaphores[t])
    BY Zenon
<1>3. /\ unixFiles' = unixFiles \ {openedFilesTable[t].openFiles[file] : file \in files}
      /\ openedFilesTable' = [openedFilesTable EXCEPT ![t] = Close(@, files)]
      /\ semStatus' = [s \in Semaphores |->
                         IF \E sem \in sems : associatedSemaphores[t].openFiles[sem] = s
                         THEN "deleted" ELSE semStatus[s]]
      /\ associatedSemaphores' = [associatedSemaphores EXCEPT ![t] = Close(@, sems)]
      /\ UNCHANGED local
    BY <1>1, <1>2, ZenonT(40) DEF Exit, getUnixFileID
<1>4. /\ openedFilesTable'[t] = Close(openedFilesTable[t], files)
      /\ \A u \in Threads \ {t} : openedFilesTable'[u] = openedFilesTable[u]
    BY <1>0, <1>3
<1>5. openedFilesTable'[t].map = openedFilesTable[t].map \ files
    BY <1>0, <1>4 DEF Close, Tables
<1>6. \A u \in Threads \ {t} : associatedSemaphores'[u] = associatedSemaphores[u]
    BY <1>0, <1>3
<1>7. \A f : f \in unixFiles' <=> f \in unixFiles /\ ~Owns(openedFilesTable, Reserved, t, f)
    BY <1>1, <1>3, Zenon DEF Owns
<1>8. ASSUME NEW s \in LiveSemaphores, ~Owns(associatedSemaphores, {}, t, s) PROVE s \in LiveSemaphores'
    <2>1. s \in Semaphores /\ semStatus[s] = "live"
        BY DEF LiveSemaphores
    <2>2. ~\E sem \in sems : associatedSemaphores[t].openFiles[sem] = s
        BY <1>2, <1>8 DEF Owns
    <2>3. semStatus'[s] = "live"
        BY <1>3, <2>1, <2>2, Zenon
    <2> QED
        BY <2>1, <2>3 DEF LiveSemaphores
<1> QED
    BY <1>1, <1>3, <1>4, <1>5, <1>6, <1>7, <1>8, Zenon

-----------------------------------------------------------------------------
(* Open files.  The first three positions stay marked, a thread that has   *)
(* not started has opened nothing, and without Create what is open at the  *)
(* host was opened by a thread that can still close it.                    *)
Keeper(f) == \E t \in ActiveThreads : Owns(openedFilesTable, Reserved, t, f)

LeakInv ==
    /\ \A t \in Threads :
          /\ Reserved \subseteq openedFilesTable[t].map
          /\ pc[t] = "none" => openedFilesTable[t].map = Reserved
          /\ pc[t] \in {"none", "fresh", "root"} => openedFilesTable[t].openedByCurrentThread = {}
    /\ ~Uses("Create") => \A f \in unixFiles : Keeper(f)

(* What the steps leave alone that open and close no files: a thread that  *)
(* ends without Exit has not run.                                          *)
LeakFrame ==
    /\ UNCHANGED <<workload, openedFilesTable, unixFiles>>
    /\ \A u \in Threads :
          /\ pc'[u] = "none" => pc[u] = "none"
          /\ pc'[u] \in {"none", "fresh", "root"} => pc[u] \in {"none", "fresh", "root"}
          /\ u \in ActiveThreads => u \in ActiveThreads' \/ pc[u] = "root"

(* Such a step keeps what is said of open files.                           *)
LEMMA LeakFrameInv == ASSUME LeakInv, LeakFrame PROVE LeakInv'
<1>1. \A t \in Threads :
          /\ Reserved \subseteq openedFilesTable'[t].map
          /\ pc'[t] = "none" => openedFilesTable'[t].map = Reserved
          /\ pc'[t] \in {"none", "fresh", "root"} => openedFilesTable'[t].openedByCurrentThread = {}
    BY Zenon DEF LeakInv, LeakFrame
<1>2. ASSUME ~Uses("Create")', NEW f \in unixFiles' PROVE Keeper(f)'
    <2>1. PICK t \in ActiveThreads : Owns(openedFilesTable, Reserved, t, f)
        BY <1>2, Zenon DEF LeakInv, LeakFrame, Uses, Keeper
    <2>2. pc[t] # "root"
        BY <2>1, Zenon DEF LeakInv, Owns, Opened, ActiveThreads
    <2>3. t \in ActiveThreads'
        BY <2>2, Zenon DEF LeakFrame, ActiveThreads
    <2> QED
        BY <2>1, <2>3, Zenon DEF Keeper, LeakFrame
<1> QED
    BY <1>1, <1>2, Zenon DEF LeakInv

(* The steps of which this is so.                                          *)
LEMMA LeakQuietFrame ==
    ASSUME PInv, NEW t \in Threads,
           \/ KinQuiet(t) /\ UNCHANGED <<openedFilesTable, unixFiles>>
           \/ Exec(t) \/ nachosExecThread(t) \/ ExitAfterV(t)
    PROVE  LeakFrame
<1>0. pc \in [Threads -> Labels] /\ t \in Threads
    BY Zenon DEF PInv, TypeOK
<1>1. CASE KinQuiet(t) /\ UNCHANGED <<openedFilesTable, unixFiles>>
    <2>1. KinFrame /\ ActiveThreads' = ActiveThreads
        BY <1>1, KinQuietFrame, ActiveMoves
    <2>2. \A u \in Threads : pc'[u] \in {"none", "fresh", "root"} => pc[u] \in {"none", "fresh", "root"}
        <3>1. CASE Dispatch(t)
            BY <3>1, DispatchMoves, Zenon DEF PInv
        <3>2. CASE MemoryQuiet(t)
            BY <3>2, MemoryQuietFrame, Zenon DEF MemoryFrame
        <3> QED
            BY <1>1, <3>1, <3>2, Zenon DEF KinQuiet, MemoryQuiet
    <2> QED
        BY <1>1, <2>1, <2>2, Zenon DEF LeakFrame, KinFrame
<1>2. CASE Exec(t)
    <2>1. PICK n \in Threads : /\ NewThread(t, n, "Exec")
                               /\ pc' = [pc EXCEPT ![n] = "fresh", ![t] = "Exec"]
        BY <1>2, Zenon DEF Exec
    <2>2. pc[n] = "none" /\ pc[t] = "user"
        BY <1>2, <2>1, Zenon DEF NewThread, Exec, Makes, At
    <2>3. UNCHANGED <<workload, openedFilesTable, unixFiles>>
        BY <1>2, <2>1, Zenon DEF NewThread, Exec, tableVars, hostVars
    <2>4. \A u \in Threads :
             /\ pc'[u] = "none" => pc[u] = "none"
             /\ pc'[u] \in {"none", "fresh", "root"} => pc[u] \in {"none", "fresh", "root"}
             /\ Live(u) /\ ~Left(u) => Live(u)' /\ ~Left(u)'
        BY <1>0, <2>1, <2>2 DEF Live, Left
    <2> QED
        BY <2>3, <2>4, Zenon DEF LeakFrame, ActiveThreads
<1>3. CASE nachosExecThread(t)
    <2>1. /\ pc[t] = "root"
          /\ pc' = [pc EXCEPT ![t] = "finished"] \/ pc' = [pc EXCEPT ![t] = "user"]
          /\ UNCHANGED <<workload, openedFilesTable, unixFiles>>
        BY <1>3, Zenon DEF nachosExecThread, At, Finish, processVars, tableVars, hostVars
    <2>2. \A u \in Threads :
             /\ pc'[u] = "none" => pc[u] = "none"
             /\ pc'[u] \in {"none", "fresh", "root"} => pc[u] \in {"none", "fresh", "root"}
             /\ Live(u) /\ ~Left(u) => (Live(u)' /\ ~Left(u)') \/ pc[u] = "root"
        BY <1>0, <2>1 DEF Live, Left
    <2> QED
        BY <2>1, <2>2, Zenon DEF LeakFrame, ActiveThreads
<1>4. CASE ExitAfterV(t)
    <2>1. Removed(t) /\ ActiveThreads' = ActiveThreads
        BY <1>4, ExitAfterVRemoved, ActiveMoves
    <2>2. UNCHANGED <<workload, openedFilesTable, unixFiles>>
        BY <1>4, Zenon DEF ExitAfterV, processVars, tableVars, hostVars
    <2>3. \A u \in Threads :
             /\ pc'[u] = "none" => pc[u] = "none"
             /\ pc'[u] \in {"none", "fresh", "root"} => pc[u] \in {"none", "fresh", "root"}
        BY <2>1, Zenon DEF Removed
    <2> QED
        BY <2>1, <2>2, <2>3, Zenon DEF LeakFrame
<1> QED
    BY <1>1, <1>2, <1>3, <1>4

(* The step of Nachos_Open.                                                *)
LEMMA OpenFileStep ==
    ASSUME PInv, NEW t \in Threads, OpenFile(t)
    PROVE  \E f \in HostOpen :
              /\ unixFiles' = unixFiles \cup ({f} \ {-1})
              /\ openedFilesTable'[t] = Open(openedFilesTable[t], f)
              /\ \A u \in Threads \ {t} : openedFilesTable'[u] = openedFilesTable[u]
              /\ HasRoom(openedFilesTable[t])
              /\ t \in ActiveThreads /\ pc[t] = "user"
              /\ UNCHANGED <<workload, pc, fatherProcess>>
<1>1. PICK f \in HostOpen :
          /\ unixFiles' = unixFiles \cup ({f} \ {-1})
          /\ openedFilesTable' = [openedFilesTable EXCEPT ![t] = Open(@, f)]
    BY Zenon DEF OpenFile
<1>2. /\ openedFilesTable'[t] = Open(openedFilesTable[t], f)
      /\ \A u \in Threads \ {t} : openedFilesTable'[u] = openedFilesTable[u]
    BY <1>1, Zenon DEF PInv, TypeOK
<1>3. /\ HasRoom(openedFilesTable[t]) /\ UNCHANGED <<workload, pc, fatherProcess>> /\ pc[t] = "user"
    BY Zenon DEF OpenFile, Makes, At, processVars
<1>4. t \in ActiveThreads
    BY <1>3 DEF ActiveThreads, Live, Left
<1> QED
    BY <1>1, <1>2, <1>3, <1>4, Zenon

(* A file that is opened has its opener as keeper.                         *)
LEMMA OpenFileLeak == ASSUME PInv, LeakInv, NEW t \in Threads, OpenFile(t) PROVE LeakInv'
<1>1. PICK f \in HostOpen :
          /\ unixFiles' = unixFiles \cup ({f} \ {-1})
          /\ openedFilesTable'[t] = Open(openedFilesTable[t], f)
          /\ \A u \in Threads \ {t} : openedFilesTable'[u] = openedFilesTable[u]
          /\ HasRoom(openedFilesTable[t])
          /\ t \in ActiveThreads /\ pc[t] = "user"
          /\ UNCHANGED <<workload, pc, fatherProcess>>
    BY OpenFileStep, Zenon
<1>2. openedFilesTable[t] \in Tables(Files \cup {-1})
    BY Zenon DEF PInv, TypeOK
<1>3. PICK pos : Opens(openedFilesTable[t], openedFilesTable'[t], pos, f)
    BY <1>1, <1>2, OpenedTable, Zenon
<1>4. ActiveThreads' = ActiveThreads
    BY <1>1, Zenon DEF ActiveThreads, Live, Left
<1>5. ASSUME NEW u \in Threads
      PROVE  /\ Reserved \subseteq openedFilesTable'[u].map
             /\ pc'[u] = "none" => openedFilesTable'[u].map = Reserved
             /\ pc'[u] \in {"none", "fresh", "root"} => openedFilesTable'[u].openedByCurrentThread = {}
    <2>1. CASE u = t
        BY <1>1, <1>3, <2>1, Zenon DEF LeakInv, Opens
    <2>2. CASE u # t
        BY <1>1, <2>2, Zenon DEF LeakInv
    <2> QED
        BY <2>1, <2>2
<1>6. ASSUME ~Uses("Create")', NEW g \in unixFiles' PROVE Keeper(g)'
    <2>1. CASE g = f
        <3>1. pos \notin Reserved
            BY <1>3, ZenonT(40) DEF LeakInv, Opens
        <3>2. pos \in Opened(openedFilesTable'[t]) \ Reserved
            BY <1>3, <3>1, Zenon DEF Opened, Opens
        <3>3. Owns(openedFilesTable', Reserved, t, g)
            BY <1>3, <2>1, <3>2, Zenon DEF Owns, Opens
        <3> QED
            BY <1>1, <1>4, <3>3, Zenon DEF Keeper
    <2>2. CASE g # f
        <3>1. g \in unixFiles /\ ~Uses("Create")
            BY <1>1, <1>6, <2>2, Zenon DEF Uses
        <3>2. PICK u \in ActiveThreads : Owns(openedFilesTable, Reserved, u, g)
            BY <3>1, Zenon DEF LeakInv, Keeper
        <3>3. PICK p \in Opened(openedFilesTable[u]) \ Reserved : openedFilesTable[u].openFiles[p] = g
            BY <3>2, Zenon DEF Owns
        <3>4. p \in Opened(openedFilesTable'[u]) \ Reserved /\ openedFilesTable'[u].openFiles[p] = g
            <4>1. CASE u = t
                BY <1>3, <3>3, <4>1, Zenon DEF Opened, Opens
            <4>2. CASE u # t
                <5>1. openedFilesTable'[u] = openedFilesTable[u]
                    BY <1>1, <4>2, Zenon DEF ActiveThreads
                <5> QED
                    BY <3>3, <5>1, Zenon
            <4> QED
                BY <4>1, <4>2, ZenonT(40)
        <3>5. Owns(openedFilesTable', Reserved, u, g)
            BY <3>4, Zenon DEF Owns
        <3> QED
            BY <1>4, <3>2, <3>5, Zenon DEF Keeper
    <2> QED
        BY <2>1, <2>2
<1> QED
    BY <1>5, <1>6, Zenon DEF LeakInv

(* Close, of what the thread opened itself or inherited.                   *)
LEMMA CloseFileLeak == ASSUME PInv, LeakInv, NEW t \in Threads, CloseFile(t) PROVE LeakInv'
<1>0. openedFilesTable \in [Threads -> Tables(Files \cup {-1})]
    BY Zenon DEF PInv, TypeOK
<1>1. PICK file \in openedFilesTable[t].map \ Reserved :
          /\ unixFiles' = unixFiles \ {openedFilesTable[t].openFiles[file]}
          /\ openedFilesTable' = [openedFilesTable EXCEPT ![t] = Close(@, {file})]
    BY Zenon DEF CloseFile, getUnixFileID
<1>2. UNCHANGED <<workload, pc>> /\ pc[t] = "user"
    BY Zenon DEF CloseFile, Makes, At, processVars
<1>3. /\ openedFilesTable'[t] = Close(openedFilesTable[t], {file})
      /\ \A u \in Threads \ {t} : openedFilesTable'[u] = openedFilesTable[u]
    BY <1>0, <1>1, Zenon
<1>4. /\ openedFilesTable'[t].map = openedFilesTable[t].map \ {file}
      /\ openedFilesTable'[t].openedByCurrentThread = openedFilesTable[t].openedByCurrentThread
      /\ openedFilesTable'[t].openFiles = openedFilesTable[t].openFiles
    BY <1>0, <1>3 DEF Close, Tables
<1>5. ASSUME NEW u \in Threads
      PROVE  /\ Reserved \subseteq openedFilesTable'[u].map
             /\ pc'[u] = "none" => openedFilesTable'[u].map = Reserved
             /\ pc'[u] \in {"none", "fresh", "root"} => openedFilesTable'[u].openedByCurrentThread = {}
    <2>1. CASE u = t
        BY <1>1, <1>2, <1>4, <2>1, Zenon DEF LeakInv
    <2>2. CASE u # t
        BY <1>2, <1>3, <2>2, Zenon DEF LeakInv
    <2> QED
        BY <2>1, <2>2
<1>6. ASSUME ~Uses("Create")', NEW g \in unixFiles' PROVE Keeper(g)'
    <2>1. g \in unixFiles /\ g # openedFilesTable[t].openFiles[file] /\ ~Uses("Create")
        BY <1>1, <1>2, <1>6 DEF Uses
    <2>2. PICK u \in ActiveThreads : Owns(openedFilesTable, Reserved, u, g)
        BY <2>1, Zenon DEF LeakInv, Keeper
    <2>3. PICK p \in Opened(openedFilesTable[u]) \ Reserved : openedFilesTable[u].openFiles[p] = g
        BY <2>2, Zenon DEF Owns
    <2>4. p \in Opened(openedFilesTable'[u]) \ Reserved /\ openedFilesTable'[u].openFiles[p] = g
        <3>1. CASE u = t
            BY <1>4, <2>1, <2>3, <3>1 DEF Opened
        <3>2. CASE u # t
            <4>1. openedFilesTable'[u] = openedFilesTable[u]
                BY <1>3, <3>2, Zenon DEF ActiveThreads
            <4> QED
                BY <2>3, <4>1, Zenon
        <3> QED
            BY <3>1, <3>2
    <2>5. Owns(openedFilesTable', Reserved, u, g)
        BY <2>4, Zenon DEF Owns
    <2>6. ActiveThreads' = ActiveThreads
        BY <1>2, Zenon DEF ActiveThreads, Live, Left
    <2> QED
        BY <2>2, <2>5, <2>6, Zenon DEF Keeper
<1> QED
    BY <1>5, <1>6, Zenon DEF LeakInv

(* A child keeps no files; its father does.                                *)
LEMMA ForkLeak == ASSUME PInv, LeakInv, NEW t \in Threads, Fork(t) PROVE LeakInv'
<1>1. PICK n \in Threads, p \in Positions :
          /\ Forks(t, n, p)
          /\ Copies(openedFilesTable[n], openedFilesTable'[n], openedFilesTable[t])
          /\ \A u \in Threads \ {n} : openedFilesTable'[u] = openedFilesTable[u]
          /\ unixFiles' = unixFiles
    BY ForkTables, Zenon
<1>2. n \notin ActiveThreads /\ ActiveThreads' = ActiveThreads \cup {n}
    BY <1>1, ActiveMoves, ZenonT(40)
<1>3. /\ openedFilesTable'[n].map = openedFilesTable[n].map \cup openedFilesTable[t].map
      /\ openedFilesTable'[n].openedByCurrentThread = {}
    BY <1>1, Zenon DEF Copies
<1>4. workload' = workload /\ pc'[n] = "fresh" /\ \A u \in Threads \ {n} : pc'[u] = pc[u]
    BY <1>1, Zenon DEF Forks
<1>5. ASSUME NEW u \in Threads
      PROVE  /\ Reserved \subseteq openedFilesTable'[u].map
             /\ pc'[u] = "none" => openedFilesTable'[u].map = Reserved
             /\ pc'[u] \in {"none", "fresh", "root"} => openedFilesTable'[u].openedByCurrentThread = {}
    <2>1. CASE u = n
        BY <1>3, <1>4, <2>1, Zenon DEF LeakInv
    <2>2. CASE u # n
        BY <1>1, <1>4, <2>2, Zenon DEF LeakInv
    <2> QED
        BY <2>1, <2>2, ZenonT(40)
<1>6. ASSUME ~Uses("Create")', NEW g \in unixFiles' PROVE Keeper(g)'
    <2>1. PICK u \in ActiveThreads : Owns(openedFilesTable, Reserved, u, g)
        BY <1>1, <1>4, <1>6, Zenon DEF LeakInv, Keeper, Uses
    <2>2. openedFilesTable'[u] = openedFilesTable[u]
        BY <1>1, <1>2, <2>1, Zenon DEF ActiveThreads
    <2>3. Owns(openedFilesTable', Reserved, u, g)
        BY <2>1, <2>2, Zenon DEF Owns
    <2> QED
        BY <1>2, <2>1, <2>3, Zenon DEF Keeper
<1> QED
    BY <1>5, <1>6, Zenon DEF LeakInv

(* Exit closes what the thread keeps.                                      *)
LEMMA ExitLeak == ASSUME PInv, LeakInv, NEW t \in Threads, Exit(t) PROVE LeakInv'
<1>1. /\ \A u \in Threads \ {t} : openedFilesTable'[u] = openedFilesTable[u]
      /\ openedFilesTable'[t].map = openedFilesTable[t].map \ (Opened(openedFilesTable[t]) \ Reserved)
      /\ \A f : f \in unixFiles' <=> f \in unixFiles /\ ~Owns(openedFilesTable, Reserved, t, f)
    BY ExitTables, Zenon
<1>2. Leaves(t) /\ ActiveThreads' = ActiveThreads \ {t}
    BY ExitLeaves, ActiveMoves
<1>3. /\ workload' = workload /\ pc'[t] \in {"finished", "Exit.V"}
      /\ \A u \in Threads \ {t} : pc'[u] = pc[u]
    BY <1>2, Zenon DEF Leaves
<1>4. ASSUME NEW u \in Threads
      PROVE  /\ Reserved \subseteq openedFilesTable'[u].map
             /\ pc'[u] = "none" => openedFilesTable'[u].map = Reserved
             /\ pc'[u] \in {"none", "fresh", "root"} => openedFilesTable'[u].openedByCurrentThread = {}
    <2>1. CASE u = t
        BY <1>1, <1>3, <2>1, Zenon DEF LeakInv
    <2>2. CASE u # t
        BY <1>1, <1>3, <2>2, Zenon DEF LeakInv
    <2> QED
        BY <2>1, <2>2, ZenonT(40)
<1>5. ASSUME ~Uses("Create")', NEW g \in unixFiles' PROVE Keeper(g)'
    <2>1. g \in unixFiles /\ ~Owns(openedFilesTable, Reserved, t, g)
        BY <1>1, <1>5
    <2>2. PICK u \in ActiveThreads : Owns(openedFilesTable, Reserved, u, g)
        BY <1>3, <1>5, <2>1, Zenon DEF LeakInv, Keeper, Uses
    <2>3. u # t /\ openedFilesTable'[u] = openedFilesTable[u]
        BY <1>1, <2>1, <2>2, Zenon DEF ActiveThreads
    <2>4. Owns(openedFilesTable', Reserved, u, g)
        BY <2>2, <2>3, Zenon DEF Owns
    <2> QED
        BY <1>2, <2>2, <2>3, <2>4, Zenon DEF Keeper
<1> QED
    BY <1>4, <1>5, Zenon DEF LeakInv

(* Create keeps the rest.                                                  *)
LEMMA CreateLeak == ASSUME LeakInv, NEW t \in Threads, Create(t) PROVE LeakInv'
<1>1. UNCHANGED <<workload, pc, openedFilesTable>> /\ Uses("Create")
    BY Zenon DEF Create, Makes, processVars, tableVars
<1> QED
    BY <1>1, Zenon DEF LeakInv, Uses

(* The system calls that leave the host's files alone.                     *)
FilesQuiet(t) ==
    \/ Halt(t)
    \/ ReturnFromExec(t)
    \/ CallExit(t)
    \/ SemCreate(t)
    \/ SemDestroy(t)
    \/ DeleteSemaphore(t)
    \/ SemSignal(t)
    \/ SemWait(t)
    \/ TestInP(t)
    \/ Read(t)
    \/ Write(t)
    \/ ConsoleP(t)
    \/ ConsoleV(t)
    \/ CopyToUser(t)
    \/ NachosForkThread(t)
    \/ Join(t)
    \/ ReturnFromJoin(t)
    \/ Dispatch(t)

(* They are among the steps that leave kinship alone.                      *)
LEMMA FilesQuietFrame ==
    ASSUME NEW t \in Threads, FilesQuiet(t)
    PROVE  KinQuiet(t) /\ UNCHANGED <<openedFilesTable, unixFiles>>
<1>1. KinQuiet(t)
    BY Zenon DEF FilesQuiet, KinQuiet, QuietStep
<1>2. UNCHANGED <<openedFilesTable, unixFiles>>
    BY ZenonT(40) DEF FilesQuiet, Halt, ReturnFromExec, CallExit, SemCreate, SemDestroy, DeleteSemaphore,
       SemSignal, SemWait, TestInP, Read, Write, ConsoleP, ConsoleV, CopyToUser, NachosForkThread,
       Join, ReturnFromJoin, Dispatch, tableVars, hostVars, consoleUnchanged
<1> QED
    BY <1>1, <1>2

(* Every step keeps it.                                                    *)
LEMMA LeakNext == PInv /\ LeakInv /\ [Next]_vars => LeakInv'
<1> SUFFICES ASSUME PInv, LeakInv, [Next]_vars PROVE LeakInv'
    OBVIOUS
<1>1. CASE UNCHANGED vars
    <2>1. LeakFrame
        BY <1>1, Zenon DEF vars, LeakFrame, ActiveThreads, Live, Left
    <2> QED
        BY <2>1, LeakFrameInv
<1>2. ASSUME NEW t \in Threads, FilesQuiet(t) \/ Exec(t) \/ nachosExecThread(t) \/ ExitAfterV(t)
      PROVE  LeakInv'
    BY <1>2, FilesQuietFrame, LeakQuietFrame, LeakFrameInv
<1>3. ASSUME NEW t \in Threads, OpenFile(t) \/ CloseFile(t) \/ Create(t) \/ Fork(t) \/ Exit(t)
      PROVE  LeakInv'
    BY <1>3, OpenFileLeak, CloseFileLeak, CreateLeak, ForkLeak, ExitLeak
<1>4. ASSUME NEW t \in Threads, Yield(t) PROVE LeakInv'
    BY <1>1, <1>2, <1>4, Zenon DEF Yield, FilesQuiet
<1> QED
    BY <1>1, <1>2, <1>3, <1>4, Zenon DEF Next, KernelStep, UserStep, FilesQuiet

(* At the start nothing is open.                                           *)
LEMMA LeakInit == Init => LeakInv
<1> SUFFICES ASSUME Init PROVE LeakInv
    OBVIOUS
<1>1. unixFiles = {} /\ \A t \in Threads : openedFilesTable[t] = NewTable(Reserved)
    BY DEF Init
<1>2. NewTable(Reserved).map = Reserved /\ NewTable(Reserved).openedByCurrentThread = {}
    BY DEF NewTable
<1> QED
    BY <1>1, <1>2, Zenon DEF LeakInv

(* What is said of open files holds of every reachable state.              *)
LEMMA LeakInvariant == Spec => []LeakInv
BY LeakInit, LeakNext, Invariant, PTL DEF Spec

(* What the programs may use does not change.                              *)
LEMMA WorkloadStays == ASSUME PInv, [Next]_vars PROVE workload' = workload
<1>1. ASSUME NEW t \in Threads, Fork(t) \/ Exec(t) PROVE workload' = workload
    BY <1>1, Zenon DEF Fork, Exec, NewThread
<1>2. ASSUME NEW t \in Threads, KinQuiet(t) PROVE workload' = workload
    BY <1>2, KinQuietFrame, Zenon DEF KinFrame
<1>3. ASSUME NEW t \in Threads, nachosExecThread(t) \/ Exit(t) \/ ExitAfterV(t)
      PROVE  workload' = workload
    BY <1>3, Zenon DEF nachosExecThread, Exit, ExitAfterV, processVars
<1>4. ASSUME NEW t \in Threads, Yield(t) PROVE workload' = workload
    BY <1>2, <1>4, Zenon DEF Yield, vars, KinQuiet
<1> QED
    BY <1>1, <1>2, <1>3, <1>4, Zenon DEF Next, KernelStep, UserStep, KinQuiet, QuietStep, vars

-----------------------------------------------------------------------------
(* Files, in programs that call neither Exec nor Close.                    *)
FileInv ==
    ~Uses("Exec") /\ ~Uses("Close") =>
        Shared(ActiveThreads, fatherProcess, openedFilesTable, Reserved, unixFiles, {-1})

(* The host gives descriptors that are not in use.                         *)
LEMMA HostOpenFresh == ASSUME NEW f \in HostOpen PROVE f = -1 \/ f \in Files \ unixFiles
<1>1. ASSUME ~(Files \subseteq unixFiles) PROVE Min(Files \ unixFiles) \in Files \ unixFiles
    <2>1. Files \ unixFiles \in SUBSET Nat /\ Files \ unixFiles # {}
        BY <1>1, ProcessesAssumption, ZenonT(40)
    <2> QED
        BY <2>1, MinOf
<1> QED
    BY <1>1 DEF HostOpen

(* Every step keeps it.                                                    *)
LEMMA FileNext == PInv /\ KinInv /\ LeakInv /\ FileInv /\ [Next]_vars => FileInv'
<1> SUFFICES ASSUME PInv, KinInv, LeakInv, FileInv, [Next]_vars,
                    ~Uses("Exec")', ~Uses("Close")'
             PROVE  Shared(ActiveThreads', fatherProcess', openedFilesTable', Reserved, unixFiles', {-1})
    BY Zenon DEF FileInv
<1>0. workload' = workload
    BY WorkloadStays
<1>1. ~Uses("Exec") /\ ~Uses("Close")
    BY <1>0, Zenon DEF Uses
<1>2. Kin /\ Shared(ActiveThreads, fatherProcess, openedFilesTable, Reserved, unixFiles, {-1})
    BY <1>1, Zenon DEF KinInv, FileInv
<1> DEFINE Goal == Shared(ActiveThreads', fatherProcess', openedFilesTable', Reserved, unixFiles', {-1})
<1>a. ActiveThreads \in SUBSET Threads
    BY DEF ActiveThreads
<1>b. \A t \in Threads : openedFilesTable[t] \in Tables(Files \cup {-1})
    BY Zenon DEF PInv, TypeOK
<1>3. CASE UNCHANGED vars
    <2>1. ActiveThreads' = ActiveThreads
        BY <1>3, Zenon DEF vars, ActiveThreads, Live, Left
    <2> QED
        BY <1>2, <1>3, <2>1, Zenon DEF vars
<1>4. ASSUME NEW t \in Threads, FilesQuiet(t) PROVE Goal
    <2>1. KinFrame /\ UNCHANGED <<openedFilesTable, unixFiles>>
        BY <1>4, FilesQuietFrame, KinQuietFrame
    <2>2. ActiveThreads' = ActiveThreads /\ fatherProcess' = fatherProcess
        BY <2>1, ActiveMoves, Zenon DEF KinFrame
    <2> QED
        BY <1>2, <2>1, <2>2, Zenon
<1>5. ASSUME NEW t \in Threads, Create(t) PROVE Goal
    <2>1. UNCHANGED <<pc, fatherProcess, openedFilesTable>> /\ unixFiles \subseteq unixFiles'
        BY <1>5, Zenon DEF Create, processVars, tableVars
    <2>2. ActiveThreads' = ActiveThreads
        BY <2>1, Zenon DEF ActiveThreads, Live, Left
    <2> QED
        BY <1>2, <2>1, <2>2, Zenon DEF Shared
<1>6. ASSUME NEW t \in Threads, ExitAfterV(t) PROVE Goal
    <2>1. ActiveThreads' = ActiveThreads
        BY <1>6, ExitAfterVRemoved, ActiveMoves
    <2>2. UNCHANGED <<fatherProcess, openedFilesTable, unixFiles>>
        BY <1>6, Zenon DEF ExitAfterV, processVars, tableVars, hostVars
    <2> QED
        BY <1>2, <2>1, <2>2, Zenon
<1>7. ASSUME NEW t \in Threads, OpenFile(t) PROVE Goal
    <2>1. PICK f \in HostOpen :
              /\ unixFiles' = unixFiles \cup ({f} \ {-1})
              /\ openedFilesTable'[t] = Open(openedFilesTable[t], f)
              /\ \A u \in Threads \ {t} : openedFilesTable'[u] = openedFilesTable[u]
              /\ HasRoom(openedFilesTable[t])
              /\ t \in ActiveThreads
              /\ UNCHANGED <<pc, fatherProcess>>
        BY <1>7, OpenFileStep, Zenon
    <2>2. ActiveThreads' = ActiveThreads
        BY <2>1, Zenon DEF ActiveThreads, Live, Left
    <2>3. PICK pos : Opens(openedFilesTable[t], openedFilesTable'[t], pos, f)
        BY <1>b, <2>1, OpenedTable, ZenonT(40)
    <2>4. unixFiles \subseteq unixFiles' /\ (f \in {-1} \/ f \in unixFiles' \ unixFiles)
        BY <2>1, HostOpenFresh, Zenon
    <2>5. t \in ActiveThreads /\ \A u \in Threads \ {t} : openedFilesTable'[u] = openedFilesTable[u]
        BY <2>1, Zenon
    <2>6. Shared(ActiveThreads, fatherProcess, openedFilesTable', Reserved, unixFiles', {-1})
        BY <1>2, <1>a, <2>3, <2>4, <2>5, SharedOpen, ZenonT(60)
    <2> QED
        BY <2>1, <2>2, <2>6, Zenon
<1>8. ASSUME NEW t \in Threads, Fork(t) PROVE Goal
    <2>1. PICK n \in Threads, p \in Positions :
              /\ Forks(t, n, p)
              /\ Copies(openedFilesTable[n], openedFilesTable'[n], openedFilesTable[t])
              /\ \A u \in Threads \ {n} : openedFilesTable'[u] = openedFilesTable[u]
              /\ unixFiles' = unixFiles
        BY <1>8, ForkTables, Zenon
    <2>2. t \in ActiveThreads /\ n \notin ActiveThreads /\ ActiveThreads' = ActiveThreads \cup {n}
        BY <2>1, ActiveMoves, Zenon
    <2>3. /\ pc[n] = "none" /\ fatherProcess'[n] = t
          /\ \A u \in Threads \ {n} : fatherProcess'[u] = fatherProcess[u]
        BY <2>1, Zenon DEF Forks
    <2>4. openedFilesTable[n].map \subseteq Reserved
        BY <2>3, Zenon DEF LeakInv
    <2>5. \A u \in ActiveThreads : fatherProcess[u] # n
        BY <1>2, <1>a, <2>3, Zenon DEF Kin, Unborn
    <2>i. Inherits(fatherProcess, fatherProcess', openedFilesTable, openedFilesTable', t, n)
        BY <2>1, <2>3, Zenon DEF Inherits
    <2>j. Shared(ActiveThreads, fatherProcess, openedFilesTable, Reserved, unixFiles, {-1})
        BY <1>2, Zenon
    <2>6. Shared(ActiveThreads \cup {n}, fatherProcess', openedFilesTable', Reserved, unixFiles, {-1})
        BY <1>a, <2>2, <2>4, <2>5, <2>i, <2>j, SharedCopy, Zenon
    <2> QED
        BY <2>1, <2>2, <2>6, Zenon
<1>9. ASSUME NEW t \in Threads, Exit(t) PROVE Goal
    <2>1. Leaves(t)
        BY <1>9, ExitLeaves
    <2>2. t \in ActiveThreads /\ ActiveThreads' = ActiveThreads \ {t}
        BY <2>1, ActiveMoves
    <2>3. Tree /\ usage[t] <= 1 /\ fatherProcess' = fatherProcess
        BY <1>2, <2>1, Zenon DEF Kin, Leaves
    <2>4. WithFathers(ActiveThreads) /\ Childless(ActiveThreads, t)
        BY <1>2, <2>3, ActiveFathers, ChildlessAtExit
    <2>5. /\ \A u \in Threads \ {t} : openedFilesTable'[u] = openedFilesTable[u]
          /\ \A f \in unixFiles : f \in unixFiles' \/ Owns(openedFilesTable, Reserved, t, f)
        BY <1>9, ExitTables, Zenon
    <2>6. Shared(ActiveThreads \ {t}, fatherProcess, openedFilesTable', Reserved, unixFiles', {-1})
        BY <1>2, <1>a, <2>2, <2>3, <2>4, <2>5, SharedExit, Zenon
    <2> QED
        BY <2>2, <2>3, <2>6, Zenon
<1>10. ASSUME NEW t \in Threads, Exec(t) \/ nachosExecThread(t) \/ CloseFile(t) PROVE FALSE
    <2>1. ~Exec(t) /\ ~CloseFile(t)
        BY <1>1, Zenon DEF Exec, CloseFile, Makes
    <2>2. ~nachosExecThread(t)
        BY <1>2, Zenon DEF nachosExecThread, Kin
    <2> QED
        BY <1>10, <2>1, <2>2
<1>11. ASSUME NEW t \in Threads, Yield(t) PROVE Goal
    BY <1>3, <1>4, <1>11, Zenon DEF Yield, FilesQuiet
<1> QED
    BY <1>3, <1>4, <1>5, <1>6, <1>7, <1>8, <1>9, <1>10, <1>11, Zenon
    DEF Next, KernelStep, UserStep, FilesQuiet

(* At the start nothing is open.                                           *)
LEMMA FileInit == Init => FileInv
<1> SUFFICES ASSUME Init
             PROVE  Shared(ActiveThreads, fatherProcess, openedFilesTable, Reserved, unixFiles, {-1})
    BY DEF FileInv
<1>1. \A t \in Threads : openedFilesTable[t].map = Reserved
    BY DEF Init, NewTable
<1>2. \A t \in ActiveThreads : t \in Threads /\ openedFilesTable[t].map \ Reserved = {}
    BY <1>1, Zenon DEF ActiveThreads
<1>3. \A t \in ActiveThreads : \A v : ~Owns(openedFilesTable, Reserved, t, v)
    BY <1>2 DEF Owns, Opened
<1> QED
    BY <1>2, <1>3, Zenon DEF Shared

-----------------------------------------------------------------------------
(* Semaphores, in programs that call neither Exec nor SemDestroy.          *)

(* Who waits waits on a semaphore in its table; nobody is in Destroy, and  *)
(* the tables of threads to come are empty.                                *)
SemUse(t) ==
    /\ pc[t] \notin {"awakened", "SemDestroy"}
    /\ pc[t] = "none" => associatedSemaphores[t].map = {}
    /\ pc[t] \in {"SemWait", "asleep"} => local[t] \in Named(t)

SemInv ==
    ~Uses("Exec") /\ ~Uses("SemDestroy") =>
        /\ Shared(ActiveThreads, fatherProcess, associatedSemaphores, {}, LiveSemaphores, {})
        /\ \A t \in Threads : SemUse(t)

(* What a step may do to a thread when it leaves the tables alone.         *)
SemMoves(u) ==
    \/ pc'[u] \notin {"awakened", "SemDestroy", "none", "SemWait", "asleep"}
    \/ pc'[u] = pc[u] /\ local'[u] = local[u]
    \/ pc'[u] \in {"SemWait", "asleep"} /\ pc[u] \in {"SemWait", "asleep", "awakened"} /\ local'[u] = local[u]
    \/ pc'[u] \in {"SemWait", "asleep"} /\ local'[u] \in Named(u)

(* The calls that create, destroy and close no semaphores.                 *)
SemQuiet(t) ==
    \/ Halt(t)
    \/ ReturnFromExec(t)
    \/ CallExit(t)
    \/ SemSignal(t)
    \/ SemWait(t)
    \/ TestInP(t)
    \/ OpenFile(t)
    \/ CloseFile(t)
    \/ Create(t)
    \/ Read(t)
    \/ Write(t)
    \/ ConsoleP(t)
    \/ ConsoleV(t)
    \/ CopyToUser(t)
    \/ NachosForkThread(t)
    \/ Join(t)
    \/ ReturnFromJoin(t)
    \/ Dispatch(t)

(* They leave the tables alone and move threads like this.                 *)
LEMMA SemQuietMoves ==
    ASSUME PInv, NEW t \in Threads, SemQuiet(t)
    PROVE  /\ KinFrame
           /\ UNCHANGED <<associatedSemaphores, semStatus>>
           /\ \A u \in Threads : SemMoves(u)
<1>0. pc \in [Threads -> Labels] /\ local \in [Threads -> Threads \cup Semaphores \cup {NULL}]
    BY Zenon DEF PInv, TypeOK
<1>1. KinFrame
    <2>1. KinQuiet(t)
        BY Zenon DEF SemQuiet, KinQuiet, QuietStep
    <2> QED
        BY <2>1, KinQuietFrame
<1>2. UNCHANGED <<associatedSemaphores, semStatus>>
    BY ZenonT(40) DEF SemQuiet, Halt, ReturnFromExec, CallExit, SemSignal, SemWait, TestInP, OpenFile,
       CloseFile, Create, Read, Write, ConsoleP, ConsoleV, CopyToUser, NachosForkThread,
       Join, ReturnFromJoin, Dispatch, tableVars, semVars, consoleUnchanged
<1>3. ASSUME NEW u \in Threads PROVE SemMoves(u)
    <2>1. CASE UNCHANGED <<pc, local>>
        BY <2>1, Zenon DEF SemMoves
    <2>2. ASSUME NEW l, pc' = [pc EXCEPT ![t] = l], UNCHANGED local \/ local' = [local EXCEPT ![t] = NULL],
                 l \notin {"awakened", "SemDestroy", "none", "SemWait", "asleep"}
          PROVE  SemMoves(u)
        <3>1. CASE u = t
            BY <1>0, <2>2, <3>1 DEF SemMoves
        <3>2. CASE u # t
            BY <1>0, <2>2, <3>2 DEF SemMoves
        <3> QED
            BY <3>1, <3>2
    <2>3. CASE Halt(t) \/ OpenFile(t) \/ CloseFile(t) \/ Create(t)
        BY <2>1, <2>3, Zenon DEF Halt, OpenFile, CloseFile, Create
    <2>4. CASE ReturnFromExec(t) \/ ReturnFromJoin(t)
        <3>1. pc' = [pc EXCEPT ![t] = "user"] /\ local' = [local EXCEPT ![t] = NULL]
            BY <2>4, Zenon DEF ReturnFromExec, ReturnFromJoin
        <3> QED
            BY <2>2, <3>1, Zenon
    <2>5. CASE CallExit(t) \/ CopyToUser(t) \/ NachosForkThread(t)
        <3>1. (pc' = [pc EXCEPT ![t] = "user"] \/ pc' = [pc EXCEPT ![t] = "Exit"]) /\ UNCHANGED local
            BY <2>5, Zenon DEF CallExit, CopyToUser, NachosForkThread, consoleUnchanged
        <3> QED
            BY <2>2, <3>1, Zenon
    <2>6. CASE Read(t) \/ Write(t) \/ ConsoleP(t)
        <3>1. /\ \/ pc' = pc
                 \/ \E l \in {"Read.P", "Write.P", "Read.V", "Read.asleep", "Write.V", "Write.asleep"} :
                       pc' = [pc EXCEPT ![t] = l]
              /\ UNCHANGED local
            BY <2>6 DEF Read, Write, ConsoleP, consoleUnchanged
        <3> QED
            BY <2>1, <2>2, <3>1
    <2>7. CASE ConsoleV(t)
        <3>1. pc' \in PcAfterV(t) /\ UNCHANGED local
            BY <2>7, Zenon DEF ConsoleV, consoleUnchanged
        <3>2. pc'[u] = pc[u] \/ pc'[u] \in {"Read.copy", "user", "Read.P", "Write.P"}
            BY <1>0, <3>1, ZenonT(40) DEF PcAfterV, ConsoleAsleep
        <3> QED
            BY <3>1, <3>2, Zenon DEF SemMoves
    <2>8. CASE SemSignal(t)
        <3>1. UNCHANGED local
            BY <2>8, Zenon DEF SemSignal
        <3>2. pc'[u] = pc[u] \/ (pc[u] = "asleep" /\ pc'[u] = "SemWait")
            BY <1>0, <2>8 DEF SemSignal, Sleepers
        <3> QED
            BY <3>1, <3>2, Zenon DEF SemMoves
    <2>9. CASE SemWait(t)
        <3>1. PICK s \in Named(t) : local' = [local EXCEPT ![t] = s]
            BY <2>9, Zenon DEF SemWait
        <3>2. pc' = [pc EXCEPT ![t] = "SemWait"]
            BY <2>9, Zenon DEF SemWait
        <3>3. CASE u = t
            BY <1>0, <3>1, <3>2, <3>3 DEF SemMoves
        <3>4. CASE u # t
            BY <1>0, <3>1, <3>2, <3>4 DEF SemMoves
        <3> QED
            BY <3>3, <3>4
    <2>10. CASE TestInP(t)
        <3>1. \/ pc' = [pc EXCEPT ![t] = "user"] /\ local' = [local EXCEPT ![t] = NULL]
              \/ pc' = [pc EXCEPT ![t] = "asleep"] /\ UNCHANGED local
            BY <2>10, Zenon DEF TestInP
        <3>2. pc[t] \in {"SemWait", "awakened"}
            BY <2>10, Zenon DEF TestInP, At
        <3>3. CASE pc' = [pc EXCEPT ![t] = "asleep"] /\ UNCHANGED local
            BY <1>0, <3>2, <3>3 DEF SemMoves
        <3> QED
            BY <2>2, <3>1, <3>3
    <2>11. CASE Join(t)
        <3>1. PICK x : local' = [local EXCEPT ![t] = x]
            BY <2>11, Zenon DEF Join
        <3>2. pc' = [pc EXCEPT ![t] = "Join"]
            BY <2>11, Zenon DEF Join
        <3> QED
            BY <1>0, <3>1, <3>2 DEF SemMoves
    <2>12. CASE Dispatch(t)
        <3>1. UNCHANGED local
            BY <2>12, Zenon DEF Dispatch
        <3>2. pc'[u] = pc[u] \/ pc'[u] \in {"root", "deleted"}
            BY <2>12, DispatchMoves DEF PInv
        <3> QED
            BY <3>1, <3>2 DEF SemMoves
    <2> QED
        BY <2>3, <2>4, <2>5, <2>6, <2>7, <2>8, <2>9, <2>10, <2>11, <2>12, Zenon DEF SemQuiet
<1> QED
    BY <1>1, <1>2, <1>3

(* So those who wait still wait on a semaphore in their table.             *)
LEMMA SemMovesUse ==
    ASSUME NEW u \in Threads, SemUse(u), SemMoves(u), associatedSemaphores'[u] = associatedSemaphores[u]
    PROVE  SemUse(u)'
<1>1. Named(u)' = Named(u)
    BY Zenon DEF Named
<1>2. SemUse(u)' <=>
          /\ pc'[u] \notin {"awakened", "SemDestroy"}
          /\ pc'[u] = "none" => associatedSemaphores[u].map = {}
          /\ pc'[u] \in {"SemWait", "asleep"} => local'[u] \in Named(u)
    BY <1>1, Zenon DEF SemUse
<1> QED
    BY <1>2, Zenon DEF SemUse, SemMoves

(* Every step keeps it.                                                    *)
LEMMA SemNext == PInv /\ KinInv /\ SemInv /\ [Next]_vars => SemInv'
<1> SUFFICES ASSUME PInv, KinInv, SemInv, [Next]_vars,
                    ~Uses("Exec")', ~Uses("SemDestroy")'
             PROVE  /\ Shared(ActiveThreads', fatherProcess', associatedSemaphores', {}, LiveSemaphores', {})
                    /\ \A u \in Threads : SemUse(u)'
    BY Zenon DEF SemInv
<1>0. workload' = workload
    BY WorkloadStays
<1>1. ~Uses("Exec") /\ ~Uses("SemDestroy")
    BY <1>0, Zenon DEF Uses
<1>2. /\ Kin /\ \A u \in Threads : SemUse(u)
      /\ Shared(ActiveThreads, fatherProcess, associatedSemaphores, {}, LiveSemaphores, {})
    BY <1>1, Zenon DEF KinInv, SemInv
<1> DEFINE Goal == /\ Shared(ActiveThreads', fatherProcess', associatedSemaphores', {}, LiveSemaphores', {})
                   /\ \A u \in Threads : SemUse(u)'
<1>a. ActiveThreads \in SUBSET Threads
    BY DEF ActiveThreads
<1>b. /\ associatedSemaphores \in [Threads -> Tables(Semaphores)] /\ pc \in [Threads -> Labels]
      /\ semStatus \in [Semaphores -> {"unused", "live", "deleted"}]
    BY Zenon DEF PInv, TypeOK
<1>3. CASE UNCHANGED vars
    <2>1. ActiveThreads' = ActiveThreads /\ LiveSemaphores' = LiveSemaphores
        BY <1>3, Zenon DEF vars, ActiveThreads, LiveSemaphores, Live, Left
    <2>2. \A u \in Threads : SemMoves(u)
        BY <1>3, Zenon DEF vars, SemMoves
    <2>3. \A u \in Threads : SemUse(u)'
        BY <1>2, <1>3, <2>2, SemMovesUse, Zenon DEF vars
    <2> QED
        BY <1>2, <1>3, <2>1, <2>3, Zenon DEF vars
<1>4. ASSUME NEW t \in Threads, SemQuiet(t) PROVE Goal
    <2>1. KinFrame /\ UNCHANGED <<associatedSemaphores, semStatus>> /\ \A u \in Threads : SemMoves(u)
        BY <1>4, SemQuietMoves
    <2>2. ActiveThreads' = ActiveThreads /\ fatherProcess' = fatherProcess
        BY <2>1, ActiveMoves, Zenon DEF KinFrame
    <2>3. LiveSemaphores' = LiveSemaphores
        BY <2>1, Zenon DEF LiveSemaphores
    <2>4. \A u \in Threads : SemUse(u)'
        BY <1>2, <2>1, SemMovesUse, Zenon
    <2> QED
        BY <1>2, <2>1, <2>2, <2>3, <2>4, Zenon
<1>5. ASSUME NEW t \in Threads, ExitAfterV(t) PROVE Goal
    <2>1. Removed(t) /\ ActiveThreads' = ActiveThreads
        BY <1>5, ExitAfterVRemoved, ActiveMoves
    <2>2. UNCHANGED <<fatherProcess, associatedSemaphores, semStatus, local>>
        BY <1>5, Zenon DEF ExitAfterV, processVars, tableVars, semVars
    <2>3. LiveSemaphores' = LiveSemaphores
        BY <2>2, Zenon DEF LiveSemaphores
    <2>4. \A u \in Threads : SemMoves(u)
        BY <2>1, <2>2, Zenon DEF Removed, SemMoves
    <2>5. \A u \in Threads : SemUse(u)'
        BY <1>2, <2>2, <2>4, SemMovesUse, Zenon
    <2> QED
        BY <1>2, <2>1, <2>2, <2>3, <2>5, Zenon
<1>6. ASSUME NEW t \in Threads, SemCreate(t) PROVE Goal
    <2>1. PICK s \in Semaphores :
              /\ semStatus[s] = "unused" /\ semStatus' = [semStatus EXCEPT ![s] = "live"]
              /\ associatedSemaphores' = [associatedSemaphores EXCEPT ![t] = Open(@, s)]
        BY <1>6, Zenon DEF SemCreate
    <2>2. /\ HasRoom(associatedSemaphores[t]) /\ UNCHANGED <<pc, local, fatherProcess>> /\ pc[t] = "user"
        BY <1>6, Zenon DEF SemCreate, Makes, At, processVars
    <2>3. ActiveThreads' = ActiveThreads /\ t \in ActiveThreads
        BY <2>2 DEF ActiveThreads, Live, Left
    <2>4. /\ associatedSemaphores'[t] = Open(associatedSemaphores[t], s)
          /\ \A u \in Threads \ {t} : associatedSemaphores'[u] = associatedSemaphores[u]
        BY <1>b, <2>1
    <2>5. associatedSemaphores[t] \in Tables(Semaphores)
        BY <1>b
    <2>6. PICK pos : Opens(associatedSemaphores[t], associatedSemaphores'[t], pos, s)
        BY <2>2, <2>4, <2>5, OpenedTable, Zenon
    <2>7. LiveSemaphores \subseteq LiveSemaphores' /\ s \in LiveSemaphores' \ LiveSemaphores
        BY <1>b, <2>1 DEF LiveSemaphores
    <2>8. \A u \in Threads \ {t} : associatedSemaphores'[u] = associatedSemaphores[u]
        BY <2>4, Zenon
    <2>9. Shared(ActiveThreads, fatherProcess, associatedSemaphores', {}, LiveSemaphores', {})
        BY <1>2, <1>a, <2>3, <2>6, <2>7, <2>8, SharedOpen, ZenonT(60)
    <2>10. ASSUME NEW u \in Threads PROVE SemUse(u)'
        <3>1. CASE u = t
            BY <2>2, <3>1 DEF SemUse
        <3>2. CASE u # t
            <4>1. SemUse(u) /\ SemMoves(u)
                BY <1>2, <2>2, Zenon DEF SemMoves
            <4> QED
                BY <2>8, <3>2, <4>1, SemMovesUse, Zenon
        <3> QED
            BY <3>1, <3>2
    <2> QED
        BY <2>2, <2>3, <2>9, <2>10, Zenon
<1>7. ASSUME NEW t \in Threads, Fork(t) PROVE Goal
    <2>1. PICK n \in Threads, p \in Positions :
              /\ Forks(t, n, p)
              /\ Copies(associatedSemaphores[n], associatedSemaphores'[n], associatedSemaphores[t])
              /\ \A u \in Threads \ {n} : associatedSemaphores'[u] = associatedSemaphores[u]
              /\ UNCHANGED <<semStatus, local>>
        BY <1>7, ForkTables, Zenon
    <2>2. t \in ActiveThreads /\ n \notin ActiveThreads /\ ActiveThreads' = ActiveThreads \cup {n}
        BY <2>1, ActiveMoves, Zenon
    <2>3. /\ pc[n] = "none" /\ fatherProcess'[n] = t /\ pc'[n] = "fresh"
          /\ \A u \in Threads \ {n} : fatherProcess'[u] = fatherProcess[u]
          /\ \A u \in Threads \ {n} : pc'[u] = pc[u]
        BY <2>1, Zenon DEF Forks
    <2>4. associatedSemaphores[n].map \subseteq {}
        BY <1>2, <2>3, Zenon DEF SemUse
    <2>5. \A u \in ActiveThreads : fatherProcess[u] # n
        BY <1>2, <1>a, <2>3, Zenon DEF Kin, Unborn
    <2>i. Inherits(fatherProcess, fatherProcess', associatedSemaphores, associatedSemaphores', t, n)
        BY <2>1, <2>3, Zenon DEF Inherits
    <2>j. Shared(ActiveThreads, fatherProcess, associatedSemaphores, {}, LiveSemaphores, {})
        BY <1>2, Zenon
    <2>6. Shared(ActiveThreads \cup {n}, fatherProcess', associatedSemaphores', {}, LiveSemaphores, {})
        BY <1>a, <2>2, <2>4, <2>5, <2>i, <2>j, SharedCopy, Zenon
    <2>7. LiveSemaphores' = LiveSemaphores
        BY <2>1, Zenon DEF LiveSemaphores
    <2>8. ASSUME NEW u \in Threads PROVE SemUse(u)'
        <3>1. CASE u = n
            BY <2>3, <3>1, Zenon DEF SemUse
        <3>2. CASE u # n
            <4>1. SemUse(u) /\ SemMoves(u)
                BY <1>2, <2>1, <2>3, <3>2, Zenon DEF SemMoves
            <4> QED
                BY <2>1, <3>2, <4>1, SemMovesUse, Zenon
        <3> QED
            BY <3>1, <3>2
    <2> QED
        BY <2>2, <2>6, <2>7, <2>8, Zenon
<1>8. ASSUME NEW t \in Threads, Exit(t) PROVE Goal
    <2>1. Leaves(t)
        BY <1>8, ExitLeaves
    <2>2. t \in ActiveThreads /\ ActiveThreads' = ActiveThreads \ {t}
        BY <2>1, ActiveMoves
    <2>3. Tree /\ usage[t] <= 1 /\ fatherProcess' = fatherProcess
        BY <1>2, <2>1, Zenon DEF Kin, Leaves
    <2>4. WithFathers(ActiveThreads) /\ Childless(ActiveThreads, t)
        BY <1>2, <2>3, ActiveFathers, ChildlessAtExit
    <2>5. /\ \A u \in Threads \ {t} : associatedSemaphores'[u] = associatedSemaphores[u]
          /\ \A s \in LiveSemaphores : s \in LiveSemaphores' \/ Owns(associatedSemaphores, {}, t, s)
        BY <1>8, ExitTables, Zenon
    <2>6. Shared(ActiveThreads \ {t}, fatherProcess, associatedSemaphores', {}, LiveSemaphores', {})
        BY <1>2, <1>a, <2>2, <2>3, <2>4, <2>5, SharedExit, ZenonT(40)
    <2>7. ASSUME NEW u \in Threads PROVE SemUse(u)'
        <3>1. CASE u = t
            <4>1. pc'[t] \in {"finished", "Exit.V"}
                BY <2>1, Zenon DEF Leaves
            <4> QED
                BY <3>1, <4>1 DEF SemUse
        <3>2. CASE u # t
            <4>1. pc'[u] = pc[u] /\ local'[u] = local[u]
                BY <1>8, <2>1, <3>2, Zenon DEF Leaves, Exit
            <4>2. SemUse(u) /\ SemMoves(u)
                BY <1>2, <4>1, Zenon DEF SemMoves
            <4> QED
                BY <2>5, <3>2, <4>2, SemMovesUse, Zenon
        <3> QED
            BY <3>1, <3>2
    <2> QED
        BY <2>2, <2>3, <2>6, <2>7, Zenon
<1>9. ASSUME NEW t \in Threads,
             Exec(t) \/ nachosExecThread(t) \/ SemDestroy(t) \/ DeleteSemaphore(t)
      PROVE  FALSE
    <2>1. ~Exec(t) /\ ~SemDestroy(t)
        BY <1>1, Zenon DEF Exec, SemDestroy, Makes
    <2>2. ~nachosExecThread(t)
        BY <1>2, Zenon DEF nachosExecThread, Kin
    <2>3. ~DeleteSemaphore(t)
        BY <1>2, Zenon DEF DeleteSemaphore, At, SemUse
    <2> QED
        BY <1>9, <2>1, <2>2, <2>3
<1>10. ASSUME NEW t \in Threads, Yield(t) PROVE Goal
    BY <1>3, <1>4, <1>10, Zenon DEF Yield, SemQuiet
<1> QED
    BY <1>3, <1>4, <1>5, <1>6, <1>7, <1>8, <1>9, <1>10, Zenon
    DEF Next, KernelStep, UserStep, SemQuiet

(* At the start there are no semaphores.                                   *)
LEMMA SemInit == Init => SemInv
<1> SUFFICES ASSUME Init
             PROVE  /\ Shared(ActiveThreads, fatherProcess, associatedSemaphores, {}, LiveSemaphores, {})
                    /\ \A t \in Threads : SemUse(t)
    BY DEF SemInv
<1>1. \A t \in Threads : associatedSemaphores[t].map = {} /\ pc[t] \in {"user", "none"}
    BY DEF Init, NewTable
<1>2. \A t \in ActiveThreads : t \in Threads /\ associatedSemaphores[t].map = {}
    BY <1>1 DEF ActiveThreads
<1>3. \A t \in ActiveThreads : \A v : ~Owns(associatedSemaphores, {}, t, v)
    BY <1>2 DEF Owns, Opened
<1>4. Shared(ActiveThreads, fatherProcess, associatedSemaphores, {}, LiveSemaphores, {})
    BY <1>2, <1>3, Zenon DEF Shared
<1>5. \A t \in Threads : SemUse(t)
    BY <1>1 DEF SemUse
<1> QED
    BY <1>4, <1>5

(* What a thread finds in its tables exists, and what the host has open a  *)
(* live thread can name.                                                   *)
THEOREM TablesAreExact == Spec => []TablesExact
<1>1. SemInv => SemaphoresExist
    <2> SUFFICES ASSUME SemInv, ~Uses("Exec"), ~Uses("SemDestroy"), NEW t \in Threads
                 PROVE  /\ Live(t) /\ ~Left(t) => \A s \in Named(t) : semStatus[s] = "live"
                        /\ pc[t] \in {"SemWait", "asleep"} => semStatus[local[t]] = "live"
        BY Zenon DEF SemaphoresExist
    <2>1. ASSUME Live(t), ~Left(t), NEW s \in Named(t) PROVE semStatus[s] = "live"
        <3>1. t \in ActiveThreads
            BY <2>1 DEF ActiveThreads
        <3>2. PICK p \in associatedSemaphores[t].map : s = associatedSemaphores[t].openFiles[p]
            BY <2>1, Zenon DEF Named, getUnixFileID
        <3>3. s \in LiveSemaphores
            BY <3>1, <3>2, Zenon DEF SemInv, Shared
        <3> QED
            BY <3>3 DEF LiveSemaphores
    <2>2. ASSUME pc[t] \in {"SemWait", "asleep"} PROVE semStatus[local[t]] = "live"
        <3>1. Live(t) /\ ~Left(t)
            BY <2>2 DEF Live, Left
        <3>2. local[t] \in Named(t)
            BY <2>2, Zenon DEF SemInv, SemUse
        <3> QED
            BY <2>1, <3>1, <3>2
    <2> QED
        BY <2>1, <2>2
<1>2. FileInv => OpenFilesAreOpen
    <2> SUFFICES ASSUME FileInv, ~Uses("Exec"), ~Uses("Close"), NEW t \in Threads, Live(t), ~Left(t),
                        NEW file \in openedFilesTable[t].map \ Reserved
                 PROVE  openedFilesTable[t].openFiles[file] \in unixFiles \cup {-1}
        BY Zenon DEF OpenFilesAreOpen, getUnixFileID
    <2>1. t \in ActiveThreads
        BY DEF ActiveThreads
    <2> QED
        BY <2>1, Zenon DEF FileInv, Shared
<1>3. LeakInv => NoFileLeak
    <2> SUFFICES ASSUME LeakInv, ~Uses("Create"), NEW f \in unixFiles
                 PROVE  \E t \in {u \in Threads : Live(u)} :
                           f \in {openedFilesTable[t].openFiles[file] : file \in openedFilesTable[t].map \ Reserved}
        BY DEF NoFileLeak, getUnixFileID
    <2>1. PICK t \in ActiveThreads : Owns(openedFilesTable, Reserved, t, f)
        BY Zenon DEF LeakInv, Keeper
    <2>2. PICK p \in Opened(openedFilesTable[t]) \ Reserved : openedFilesTable[t].openFiles[p] = f
        BY <2>1, Zenon DEF Owns
    <2>3. t \in Threads /\ Live(t) /\ p \in openedFilesTable[t].map \ Reserved
        BY <2>2 DEF ActiveThreads, Opened
    <2> QED
        BY <2>2, <2>3, Zenon
<1>4. KinInv /\ SemInv /\ FileInv /\ LeakInv => TablesExact
    BY <1>1, <1>2, <1>3, Zenon DEF TablesExact
<1> QED
    BY <1>4, Invariant, KinInvariant, LeakInvariant, FileInit, FileNext, SemInit, SemNext, PTL DEF Spec
=============================================================================
