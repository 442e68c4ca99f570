\* Two consumers, two suppliers, three interrupted calls and one failed fork anywhere.
CONSTANTS
    ConsNum = 2
    SupNum = 2
    Demand = 3
    Supply = 2
    Jobs = jobs
    None = none
    StockBound = 1
    MaxInterrupts = 3
    MaxForkFaults = 1
SPECIFICATION FairSpec
INVARIANTS TypeOK SupplierLeavesLast UnservedOnlyIfSuppliersFail TakenSemaphoreHasLiveHolder
PROPERTIES ImplementsMarket Termination
