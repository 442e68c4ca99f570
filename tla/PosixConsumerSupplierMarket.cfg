\* Two consumers, two suppliers, one failed semaphore call and one failed fork anywhere.
\* With the bound on the stock a supplier that waits for a consumer that has failed
\* stops the model.
CONSTANTS
    ConsNum = 2
    SupNum = 2
    Demand = 3
    Supply = 2
    StockBound = 1
    MaxSemFaults = 1
    MaxForkFaults = 1
SPECIFICATION FairSpec
INVARIANTS TypeOK OneHolder SupplierLeavesLast ReleaseAfterChildren
PROPERTIES ImplementsMarket Termination
CHECK_DEADLOCK FALSE
