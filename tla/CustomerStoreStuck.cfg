\* One customer at two stores, customer_store_3: everybody may sleep.
CONSTANTS
    Customers = {c1}
    StoreNum = 2
    Main = main
    None = none
    Unit = 2
    Demands = {2}
    InitGoods = {0, 1}
    GoodsCap = 4
    Programs <- SleepingSuppliers
SPECIFICATION FairSpec
PROPERTIES Termination
CHECK_DEADLOCK FALSE
