\* Two consumers, one supplier: one consumer and the supplier are interrupted.
CONSTANTS
    ConsNum = 2
    SupNum = 1
    Demand = 1
    Supply = 2
    Jobs = jobs
    None = none
    StockBound = 1
    MaxInterrupts = 2
    MaxForkFaults = 0
SPECIFICATION Spec
INVARIANTS AnnouncementIsTrue
