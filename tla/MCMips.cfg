CONSTANTS
    W = 8
    Registers = {0, 1, 2, 29, 31}
    Program <- MCProgram
    Machines <- MCMachines
    StackTop = 112
    MaxSteps = 2
SPECIFICATION Spec
INVARIANTS RestartTransparent MultExact
PROPERTY ImplementsExecute
CHECK_DEADLOCK FALSE
