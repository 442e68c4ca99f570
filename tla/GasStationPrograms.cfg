\* The five programs, up to three cars and two spurious wake-ups.
CONSTANTS
    Cars = {c1, c2, c3}
    Refiller = refiller
    None = none
    GasStorage = 35
    TankCapacity = 75
    Programs <- AllPrograms
    MaxSpurious = 2
SPECIFICATION FairSpec
INVARIANTS TypeOK NoLostWakeup RefillerLeavesLast
PROPERTIES Termination
