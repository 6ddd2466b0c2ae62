SPECIFICATION FairSpec
CONSTANTS
    None = None
    Callers = {t1, t2, t3}
    Items = {a, b}
    listEmpty = listEmpty
    Conditions <- MCConditions
    Inside <- MCInside
    Outside <- MCOutside
    MaxCalls = 2
INVARIANTS
    MonitorSafe
    NoLostSignal
PROPERTIES
    ImplementsSynchList
CHECK_DEADLOCK FALSE
