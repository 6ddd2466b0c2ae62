SPECIFICATION DinningFairSpec
CONSTANTS
    None = None
    N = 5
    Callers <- MCCallers
    Conditions <- MCCallers
    Inside <- MCInside
    Outside <- MCOutside
INVARIANTS
    NeighboursDoNotEat
    PickupGetsSticks
    HungryHasEatingNeighbour
PROPERTIES
    SomebodyEats
