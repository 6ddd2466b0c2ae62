\* Five atoms of every mix: enough for a molecule and two atoms too many.
SPECIFICATION WaterFairSpec
CONSTANT
    NumAtoms = 5
INVARIANT
    AtomsAccounted
PROPERTIES
    AllAtomsFinish
CHECK_DEADLOCK FALSE
