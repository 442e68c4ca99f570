\* Two customers at two stores, the three programs.  The third may stop before the
\* closing (CustomerStoreStuck).
CONSTANTS
    Customers = {c1, c2}
    StoreNum = 2
    Main = main
    None = none
    Unit = 1
    Demands = {1}
    InitGoods = {0}
    GoodsCap = 2
    Programs <- AllPrograms
SPECIFICATION FairSpec
INVARIANTS TypeOK ClosedStoreIsDeserted
PROPERTIES ClosingReachesEveryone TirelessTermination
CHECK_DEADLOCK FALSE
