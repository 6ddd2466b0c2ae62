---------------------------- MODULE MCProcesses ----------------------------
(* Processes with a few threads, pids, semaphores and files.               *)
EXTENDS Processes, TLC

CONSTANTS t1, t2, t3

MCThreads == {Main, t1, t2, t3}

(* The threads other than Main, and the semaphores, are interchangeable.   *)
MCSymmetry == Permutations(Threads \ {Main}) \cup Permutations(Semaphores)

MCFiles == {3, 4}

Workload(calls, threads, semaphores, files) ==
    [calls |-> calls, threads |-> threads, semaphores |-> semaphores, files |-> files]

Threading == Workload({"Fork", "Join", "Exit"}, 4, 0, 0)
Processing == Workload({"Exec", "Join", "Exit"}, 4, 0, 0)
SharingSemaphores == Workload({"Fork", "SemCreate", "SemSignal", "SemWait", "Exit"}, 3, 2, 0)
SharingFiles == Workload({"Fork", "Open", "Exit"}, 3, 0, 2)
JoiningSharers == Workload({"Fork", "Join", "Open", "SemCreate", "SemWait", "Exit"}, 2, 1, 2)
UsingConsole == Workload({"Fork", "Exec", "Read", "Write", "Yield", "Exit"}, 3, 0, 0)
Everything == Workload(SystemCalls \ {"Read", "Write"}, 2, 1, 1)

MCWorkloads ==
    {Threading, Processing, SharingSemaphores, SharingFiles, JoiningSharers, UsingConsole, Everything}
MCForks == {Workload({"Fork", "Exit"}, 4, 0, 0)}
=============================================================================
