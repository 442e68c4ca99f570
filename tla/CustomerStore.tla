---------------------------- MODULE CustomerStore ----------------------------
(***************************************************************************)
(* The stores of LAB_13/task_customer: customer threads buy from stores    *)
(* picked at random, supplier threads stock stores picked at random, and   *)
(* main closes the stores when every customer has been joined.  Each store *)
(* has a mutex; customer_store_2 adds a condition customers sleep on and   *)
(* customer_store_3 one suppliers sleep on.  `program` is the one that     *)
(* runs.                                                                   *)
(*                                                                         *)
(* Places of a thread:                                                     *)
(*   "choose"  about to draw a store,          "lock"    at mutex_lock,    *)
(*   "check"   at the test of `goods`,         "flag"    reads stores_open,*)
(*   "sleep"   about to call cond_wait,        "wait"    asleep in it,     *)
(*   "relock"  woken, needs the mutex,         "buy"     takes goods,      *)
(*   "fill"    adds goods,                     "unlock"  at mutex_unlock,  *)
(*   "leave"   at the last mutex_unlock,       "done"    returned.         *)
(* stores_open is read and written in a critical section of flag_mutex     *)
(* that holds that one access: one step.  The goods of a store are not     *)
(* only reached under its mutex: main initialises them while customers     *)
(* and earlier suppliers already run (InitStore).                          *)
(***************************************************************************)
EXTENDS Integers, FiniteSets

CONSTANTS
    Customers,  \* the purchase_start threads
    StoreNum,   \* STORE_NUM stores, and as many supply_start threads
    Main,       \* the main thread
    None,       \* a mutex is free
    Unit,       \* the 500 of a purchase and of a supply
    Demands,    \* initial demands: the values of rand() % MAX_DEMAND
    InitGoods,  \* initial goods: the values of rand() % MIN_SUPPLY
    GoodsCap,   \* bound on the goods of a store in the first two programs
    Programs    \* the programs a behaviour may be of

Stores == 1..StoreNum
\* The supply_start thread main creates with stores[i] is named i.
Suppliers == Stores
Threads == Customers \cup Suppliers

\* What tells the programs apart: customers sleep at an empty store (and buy
\* one unit) instead of taking what there is; suppliers sleep at a stocked
\* store; suppliers stock the store before they look whether it is closed.
Traits == [customersWait : BOOLEAN, suppliersWait : BOOLEAN, fillsFirst : BOOLEAN]
CustomerStore1 == [customersWait |-> FALSE, suppliersWait |-> FALSE, fillsFirst |-> TRUE]
CustomerStore2 == [customersWait |-> TRUE, suppliersWait |-> FALSE, fillsFirst |-> FALSE]
CustomerStore3 == [customersWait |-> TRUE, suppliersWait |-> TRUE, fillsFirst |-> FALSE]
AllPrograms == {CustomerStore1, CustomerStore2, CustomerStore3}
SleepingSuppliers == {CustomerStore3}

ASSUME ThreadsAssumption == /\ IsFiniteSet(Customers)
                            /\ StoreNum \in Nat \ {0}
                            /\ Customers \cap Stores = {}
                            /\ Main \notin Threads
                            /\ None \notin Threads \cup {Main}
ASSUME GoodsAssumption == /\ Unit \in Nat \ {0}
                          /\ Demands \subseteq Nat
                          /\ InitGoods \subseteq 0..(Unit - 1)
                          /\ GoodsCap \in Nat /\ GoodsCap >= 2 * Unit
ASSUME ProgramsAssumption == Programs \subseteq Traits

VARIABLES
    program,      \* the program that runs; never changes
    demand,       \* customers[c].demand
    goods,        \* stores[i].goods
    stores_open,  \* the closing flag
    mutex,        \* mutex[i]: its holder, or None
    pc,           \* place of each customer and supplier
    at,           \* num, the store a thread has drawn (0 while num is not in use)
    mainpc,       \* "init", "join", "close", "lock", "broadcast", "unlock", "done"
    k             \* main's loop index over the stores

vars == <<program, demand, goods, stores_open, mutex, pc, at, mainpc, k>>
mainvars == <<mainpc, k>>

Places == {"new", "choose", "lock", "check", "flag", "sleep", "wait", "relock",
           "buy", "fill", "unlock", "leave", "done"}

Init == /\ program \in Programs
        /\ demand \in [Customers -> Demands]
        /\ goods = [i \in Stores |-> 0]
        /\ stores_open = TRUE
        /\ mutex = [i \in Stores |-> None]
        /\ pc = [t \in Threads |-> IF t \in Customers THEN "choose" ELSE "new"]
        /\ at = [t \in Threads |-> 0]
        /\ mainpc = "init"
        /\ k = 1

-----------------------------------------------------------------------------
Go(t, p) == pc' = [pc EXCEPT ![t] = p]

\* pthread_cond_broadcast to the threads of T asleep at store i; t goes to p.
Broadcast(T, i, t, p) ==
    pc' = [u \in Threads |->
              IF u = t THEN p
              ELSE IF u \in T /\ at[u] = i /\ pc[u] = "wait" THEN "relock" ELSE pc[u]]

-----------------------------------------------------------------------------
(* Steps both start routines share *)

\* num = rand() % STORE_NUM; a customer first looks whether it is satisfied.
Choose(t, i) ==
    /\ pc[t] = "choose"
    /\ t \in Customers => demand[t] > 0
    /\ at' = [at EXCEPT ![t] = i]
    /\ Go(t, "lock")
    /\ UNCHANGED <<program, demand, goods, stores_open, mutex, mainvars>>

Satisfied(c) ==
    /\ pc[c] = "choose"
    /\ demand[c] <= 0
    /\ Go(c, "done")
    /\ UNCHANGED <<program, demand, goods, stores_open, mutex, at, mainvars>>

\* Where a thread goes once it has the mutex of its store.
FirstPlace(t) ==
    IF t \in Customers THEN IF program.customersWait THEN "check" ELSE "buy"
    ELSE IF program.suppliersWait THEN "check"
         ELSE IF program.fillsFirst THEN "fill" ELSE "flag"

\* pthread_mutex_lock, and the re-acquisition inside pthread_cond_wait.
Lock(t) ==
    /\ pc[t] \in {"lock", "relock"}
    /\ mutex[at[t]] = None
    /\ mutex' = [mutex EXCEPT ![at[t]] = t]
    /\ Go(t, FirstPlace(t))
    /\ UNCHANGED <<program, demand, goods, stores_open, at, mainvars>>

\* pthread_cond_wait falls asleep and releases the mutex in one step.
Sleep(t) ==
    /\ pc[t] = "sleep"
    /\ mutex' = [mutex EXCEPT ![at[t]] = None]
    /\ Go(t, "wait")
    /\ UNCHANGED <<program, demand, goods, stores_open, at, mainvars>>

Unlock(t) ==
    /\ pc[t] \in {"unlock", "leave"}
    /\ mutex' = [mutex EXCEPT ![at[t]] = None]
    /\ at' = [at EXCEPT ![t] = 0]
    /\ Go(t, IF pc[t] = "leave" THEN "done" ELSE "choose")
    /\ UNCHANGED <<program, demand, goods, stores_open, mainvars>>

-----------------------------------------------------------------------------
(* purchase_start *)

\* A customer that buys without looking.
CustomerNeverChecks(c) ==
    /\ pc[c] = "check"
    /\ Go(c, "buy")
    /\ UNCHANGED <<program, demand, goods, stores_open, mutex, at, mainvars>>

CustomerChecks(c) ==
    /\ pc[c] = "check"
    /\ Go(c, IF goods[at[c]] <= 0 THEN "sleep" ELSE "buy")
    /\ UNCHANGED <<program, demand, goods, stores_open, mutex, at, mainvars>>

\* A customer that takes its goods and still wants them.
BuyForNothing(c) ==
    /\ pc[c] = "buy"
    /\ goods' = [goods EXCEPT ![at[c]] = IF program.customersWait THEN @ - Unit ELSE 0]
    /\ IF program.suppliersWait /\ goods'[at[c]] <= 0
       THEN Broadcast(Suppliers, at[c], c, "unlock")
       ELSE Go(c, "unlock")
    /\ UNCHANGED <<program, demand, stores_open, mutex, at, mainvars>>

Buy(c) ==
    /\ pc[c] = "buy"
    /\ LET taken == IF program.customersWait THEN Unit ELSE goods[at[c]]
       IN  /\ demand' = [demand EXCEPT ![c] = @ - taken]
           /\ goods' = [goods EXCEPT ![at[c]] = @ - taken]
    /\ IF program.suppliersWait /\ goods'[at[c]] <= 0
       THEN Broadcast(Suppliers, at[c], c, "unlock")
       ELSE Go(c, "unlock")
    /\ UNCHANGED <<program, stores_open, mutex, at, mainvars>>

-----------------------------------------------------------------------------
(* supply_start *)

\* The waiting loop of customer_store_3: both at a stocked store and past the
\* loop the supplier reads the flag next.
SupplierChecks(s) ==
    /\ pc[s] = "check"
    /\ Go(s, IF ~stores_open THEN "leave"
             ELSE IF goods[at[s]] > 0 THEN "sleep" ELSE "fill")
    /\ UNCHANGED <<program, demand, goods, stores_open, mutex, at, mainvars>>

ReadFlag(s) ==
    /\ pc[s] = "flag"
    /\ Go(s, IF ~stores_open THEN "leave"
             ELSE IF program.fillsFirst THEN "unlock" ELSE "fill")
    /\ UNCHANGED <<program, demand, goods, stores_open, mutex, at, mainvars>>

\* goods += 500; the cap keeps the goods of the first two programs, which
\* nothing bounds in the code, finite.
Supplied(g) == IF g + Unit > GoodsCap THEN GoodsCap ELSE g + Unit

Fill(s) ==
    /\ pc[s] = "fill"
    /\ goods' = [goods EXCEPT ![at[s]] = Supplied(@)]
    /\ IF program.fillsFirst
       THEN Go(s, "flag")
       ELSE IF goods'[at[s]] > 0
            THEN Broadcast(Customers, at[s], s, "unlock")
            ELSE Go(s, "unlock")
    /\ UNCHANGED <<program, demand, stores_open, mutex, at, mainvars>>

-----------------------------------------------------------------------------
(* main *)

\* stores[i].goods = rand() % MIN_SUPPLY without the mutex, then the creation of
\* supplier i.  Against the read-modify-write of a thread inside the critical
\* section the write may also be lost.
InitStore ==
    /\ mainpc = "init"
    /\ \/ \E g \in InitGoods : goods' = [goods EXCEPT ![k] = g]
       \/ \E t \in Threads : mutex[k] = t /\ pc[t] \in {"buy", "fill"} /\ goods' = goods
    /\ Go(k, "choose")
    /\ mainpc' = IF k = StoreNum THEN "join" ELSE "init"
    /\ k' = IF k = StoreNum THEN 1 ELSE k + 1
    /\ UNCHANGED <<program, demand, stores_open, mutex, at>>

JoinCustomers ==
    /\ mainpc = "join"
    /\ \A c \in Customers : pc[c] = "done"
    /\ mainpc' = "close"
    /\ UNCHANGED <<program, demand, goods, stores_open, mutex, pc, at, k>>

CloseStores ==
    /\ mainpc = "close"
    /\ stores_open' = FALSE
    /\ mainpc' = IF program.suppliersWait THEN "lock" ELSE "done"
    /\ UNCHANGED <<program, demand, goods, mutex, pc, at, k>>

\* main broadcasting without the mutex of the store.
MainLocksNothing ==
    /\ mainpc = "lock"
    /\ mainpc' = "broadcast"
    /\ UNCHANGED <<program, demand, goods, stores_open, mutex, pc, at, k>>

MainLocks ==
    /\ mainpc = "lock"
    /\ mutex[k] = None
    /\ mutex' = [mutex EXCEPT ![k] = Main]
    /\ mainpc' = "broadcast"
    /\ UNCHANGED <<program, demand, goods, stores_open, pc, at, k>>

\* main waking one supplier of the store instead of all of them.
MainSignals ==
    /\ mainpc = "broadcast"
    /\ LET asleep == {s \in Suppliers : pc[s] = "wait" /\ at[s] = k}
       IN  IF asleep = {} THEN pc' = pc ELSE \E s \in asleep : Go(s, "relock")
    /\ mainpc' = "unlock"
    /\ UNCHANGED <<program, demand, goods, stores_open, mutex, at, k>>

MainBroadcasts ==
    /\ mainpc = "broadcast"
    /\ Broadcast(Suppliers, k, Main, "done")
    /\ mainpc' = "unlock"
    /\ UNCHANGED <<program, demand, goods, stores_open, mutex, at, k>>

MainUnlocks ==
    /\ mainpc = "unlock"
    /\ mutex' = [mutex EXCEPT ![k] = None]
    /\ mainpc' = IF k = StoreNum THEN "done" ELSE "lock"
    /\ k' = IF k = StoreNum THEN k ELSE k + 1
    /\ UNCHANGED <<program, demand, goods, stores_open, pc, at>>

\* main has joined every thread.
AllDone == mainpc = "done" /\ \A t \in Threads : pc[t] = "done"
Done == AllDone /\ UNCHANGED vars

-----------------------------------------------------------------------------
CustomerStep(c) == \/ \E i \in Stores : Choose(c, i)
                   \/ Satisfied(c) \/ Lock(c) \/ CustomerChecks(c) \/ Sleep(c)
                   \/ Buy(c) \/ Unlock(c)
SupplierStep(s) == \/ \E i \in Stores : Choose(s, i)
                   \/ Lock(s) \/ SupplierChecks(s) \/ ReadFlag(s) \/ Sleep(s)
                   \/ Fill(s) \/ Unlock(s)
MainStep == \/ InitStore \/ JoinCustomers \/ CloseStores
            \/ MainLocks \/ MainBroadcasts \/ MainUnlocks

Next == \/ \E c \in Customers : CustomerStep(c)
        \/ \E s \in Suppliers : SupplierStep(s)
        \/ MainStep
        \/ Done

Spec == Init /\ [][Next]_vars

\* Every thread that can run runs.
Running == /\ \A c \in Customers : WF_vars(CustomerStep(c))
           /\ \A s \in Suppliers : WF_vars(SupplierStep(s))
           /\ WF_vars(MainStep)

\* A store some supplier draws again and again is drawn again and again ...
SupplierDraws(i) == \E s \in Suppliers : Choose(s, i)
\* ... and a mutex that keeps becoming free is granted.
SupplierEnters(i) == \E s \in Suppliers : at[s] = i /\ Lock(s)

RunningSpec == Spec /\ Running

\* rand() draws every store infinitely often, and as the threads of the first
\* two programs sleep between two rounds nobody is kept from a mutex for ever.
FairSpec == /\ RunningSpec
            /\ \A c \in Customers : SF_vars(Lock(c))
            /\ \A i \in Stores : SF_vars(SupplierDraws(i)) /\ SF_vars(SupplierEnters(i))

-----------------------------------------------------------------------------
(* Properties *)

\* Every variable has its type; a store is oversold by at most one purchase.
TypeOK ==
    /\ program \in Programs
    /\ demand \in [Customers -> Int]
    /\ goods \in [Stores -> -Unit..GoodsCap]
    /\ stores_open \in BOOLEAN
    /\ mutex \in [Stores -> Threads \cup {Main, None}]
    /\ pc \in [Threads -> Places]
    /\ at \in [Threads -> Stores \cup {0}]
    /\ mainpc \in {"init", "join", "close", "lock", "broadcast", "unlock", "done"}
    /\ k \in Stores

\* Stores main has closed for good: the flag is down and the last broadcast out.
Closed(i) == \/ mainpc \in {"lock", "broadcast"} /\ i < k
             \/ mainpc = "unlock" /\ i <= k
             \/ mainpc = "done"

\* The closing broadcast of main misses nobody: once it has been sent at a
\* store, no supplier sleeps there or is about to, also the one that read
\* stores_open just before it was cleared.
ClosedStoreIsDeserted ==
    \A i \in Stores, s \in Suppliers :
        Closed(i) /\ at[s] = i => pc[s] \notin {"sleep", "wait"}

\* "makes sure each thread can terminate": from the closing on, every supplier
\* and main end.
ClosingReachesEveryone == (mainpc = "lock") ~> AllDone

\* "makes sure each thread can terminate": every customer is satisfied in the
\* end, main closes the stores and every thread is joined.
Termination == <>AllDone

\* The same of the first two programs, whose suppliers never sleep.
TirelessTermination == ~program.suppliersWait => Termination
=============================================================================
