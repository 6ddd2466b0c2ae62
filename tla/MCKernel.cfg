SPECIFICATION FairSpec
CONSTANTS
    NULL = NULL
    Threads = {main, t1, t2, t3}
    Main = main
    Semaphores = {mutex, io}
    Devices = {io}
    InitialValue <- MCInitialValue
    MaxUnits = 2
INVARIANTS
    ThreadInOnePlace
    NoDanglingThread
    NoLostWakeup
    HaltOnlyWhenStuck
PROPERTIES
    ReadyThreadRuns
    ImplementsSemaphores
