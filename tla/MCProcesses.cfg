\* The system calls, with several kinds of programs.
SPECIFICATION Spec
CONSTANT
    NULL = NULL
    Main = Main
    t1 = t1
    t2 = t2
    t3 = t3
    Threads <- MCThreads
    SIZE_OF_TABLE = 5
    Semaphores = {s1, s2}
    NumPhysPages = 8
    MaxUnits = 1
    Files <- MCFiles
    Workloads <- MCWorkloads
INVARIANT
    RunsInOwnSpace
    ForkedFinishFirst
    OpenPidExists
    
    
    ConsoleShared
PROPERTY
    JoinOnlyAfterExit
SYMMETRY MCSymmetry
CHECK_DEADLOCK FALSE
