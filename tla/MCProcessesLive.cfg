\* A process and its threads come to an end.
SPECIFICATION FairSpec
CONSTANT
    NULL = NULL
    Main = Main
    t1 = t1
    t2 = t2
    t3 = t3
    Threads <- MCThreads
    SIZE_OF_TABLE = 5
    Semaphores = {s1, s2}
    NumPhysPages = 8
    MaxUnits = 1
    Files <- MCFiles
    Workloads <- MCForks
PROPERTY
    ExitFinishes
CHECK_DEADLOCK FALSE
