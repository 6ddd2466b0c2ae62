SPECIFICATION FairSpec
CONSTANTS
    c1 = c1
    c2 = c2
    echo = echo
    Clients = {c1, c2}
    Echo = echo
    Chars = {"x"}
    MaxTyped = 2
    Workloads <- MCWorkloads
    SystemTick = 1
    TimerTicks = 1
    ConsoleTime = 3
    RotationTime = 2
    SeekTime = 3
    SectorsPerTrack = 2
    NumTracks = 2
INVARIANTS NothingOverdue OneRequestOneAnswer HeadPassesSector EchoInOrder
PROPERTIES DevicesAnswer
CHECK_DEADLOCK FALSE
