------------------------- MODULE CustomerStoreProofs -------------------------
(***************************************************************************)
(* Proofs about CustomerStore for every number of customers and stores and *)
(* every program with the traits of CustomerStore: types, mutual exclusion *)
(* at a store, and that the closing broadcast reaches every supplier.      *)
(***************************************************************************)
EXTENDS CustomerStore, TLAPS

Inside == {"check", "flag", "sleep", "buy", "fill", "unlock", "leave"}

\* A thread past the draw is at a store, and holds its mutex where it works.
MutexHeld ==
    \A t \in Threads :
        /\ pc[t] \in Inside \cup {"lock", "wait", "relock"} => at[t] \in Stores
        /\ pc[t] \in Inside => mutex[at[t]] = t

\* main sends its closing broadcast with the mutex of the store in hand, and
\* only after the flag has been cleared, beginning with the first store.
MainHolds == /\ mainpc \in {"broadcast", "unlock"} => mutex[k] = Main
             /\ mainpc \in {"join", "close"} => k = 1
             /\ mainpc \in {"lock", "broadcast", "unlock", "done"} => ~stores_open

\* In the first two programs suppliers never come near a condition.
SuppliersAwake ==
    ~program.suppliersWait =>
        \A s \in Suppliers : pc[s] \notin {"check", "sleep", "wait", "relock"}

\* A buyer finds goods, except those main's late initialisation takes away.
BuyersFindGoods ==
    /\ \A c \in Customers : pc[c] = "buy" => goods[at[c]] >= 0
    /\ ~program.customersWait => \A i \in Stores : goods[i] >= 0

IInv == /\ TypeOK
        /\ MutexHeld
        /\ MainHolds
        /\ SuppliersAwake
        /\ BuyersFindGoods
        /\ ClosedStoreIsDeserted

-----------------------------------------------------------------------------
USE ThreadsAssumption, GoodsAssumption, ProgramsAssumption
    DEF Stores, Suppliers, Threads, Traits, Places, Inside, mainvars, Go, Broadcast, Closed

\* The initial state of every program satisfies the inductive invariant.
LEMMA InitIInv == Init => IInv
<1> SUFFICES ASSUME Init PROVE IInv
    OBVIOUS
<1> USE DEF Init
<1>1. stores_open \in BOOLEAN /\ program \in Programs
      BY Zenon
<1>2. /\ demand \in [Customers -> Int]
      /\ goods \in [Stores -> -Unit..GoodsCap]
  <2>1. 0 \in -Unit..GoodsCap /\ Demands \subseteq Int
        OBVIOUS
  <2> QED
      BY <2>1
<1>2a. /\ mutex \in [Stores -> Threads \cup {Main, None}]
      /\ pc \in [Threads -> Places] /\ at \in [Threads -> Stores \cup {0}]
      /\ mainpc = "init" /\ k \in Stores
      OBVIOUS
<1>3. TypeOK
      BY <1>1, <1>2, <1>2a, Zenon DEF TypeOK
<1>4. MutexHeld /\ MainHolds /\ SuppliersAwake
      BY DEF MutexHeld, MainHolds, SuppliersAwake
<1>5. BuyersFindGoods /\ ClosedStoreIsDeserted
      BY DEF BuyersFindGoods, ClosedStoreIsDeserted
<1> QED
    BY <1>3, <1>4, <1>5 DEF IInv

\* What a purchase does: goods change hands, and suppliers are woken or not.
LEMMA BuyEffect ==
    ASSUME TypeOK, NEW c \in Customers, Buy(c)
    PROVE  /\ \E T \in {Suppliers, {}} : Broadcast(T, at[c], c, "unlock")
           /\ demand' = [demand EXCEPT ![c] = demand'[c]]
           /\ goods' = [goods EXCEPT ![at[c]] =
                           IF program.customersWait THEN @ - Unit ELSE @ - @]
           /\ UNCHANGED <<program, stores_open, mutex, at, mainpc, k>>
<1>1. Broadcast(Suppliers, at[c], c, "unlock") \/ Go(c, "unlock")
      BY DEF Buy
<1>2. Go(c, "unlock") => Broadcast({}, at[c], c, "unlock")
      BY DEF TypeOK
<1>3. \E T \in {Suppliers, {}} : Broadcast(T, at[c], c, "unlock")
  <2> HIDE DEF Broadcast, Go, Suppliers
  <2> QED BY <1>1, <1>2
<1> QED
    BY <1>3 DEF Buy, TypeOK

\* A supply keeps the goods of a store in their range.
LEMMA SuppliedRange ==
    \A g \in -Unit..GoodsCap : Supplied(g) \in -Unit..GoodsCap
BY DEF Supplied

\* What a supply does: the store gains goods, and customers are woken or not.
LEMMA FillEffect ==
    ASSUME TypeOK, NEW s \in Suppliers, Fill(s)
    PROVE  /\ \E T \in {Customers, {}}, p \in {"unlock", "flag"} :
                 Broadcast(T, at[s], s, p)
           /\ goods' = [goods EXCEPT ![at[s]] = Supplied(@)]
           /\ UNCHANGED <<program, demand, stores_open, mutex, at, mainpc, k>>
<1>1. \/ Go(s, "flag")
      \/ Broadcast(Customers, at[s], s, "unlock")
      \/ Go(s, "unlock")
      BY DEF Fill
<1>2. \A p \in {"unlock", "flag"} : Go(s, p) => Broadcast({}, at[s], s, p)
      BY DEF TypeOK
<1>3. \E T \in {Customers, {}}, p \in {"unlock", "flag"} : Broadcast(T, at[s], s, p)
  <2> HIDE DEF Broadcast, Go, Suppliers
  <2> QED BY <1>1, <1>2
<1> QED
    BY <1>3 DEF Fill

\* Every step preserves the types.
LEMMA TypeStep == IInv /\ [Next]_vars => (TypeOK)'
<1> DEFINE Goal == TypeOK
<1> SUFFICES ASSUME IInv, [Next]_vars PROVE Goal'
    OBVIOUS
<1> USE DEF IInv, TypeOK, MutexHeld
<1>1. ASSUME NEW t \in Threads, NEW i \in Stores, Choose(t, i) PROVE Goal'
      BY <1>1 DEF Choose
<1>2. ASSUME NEW c \in Customers, Satisfied(c) PROVE Goal'
      BY <1>2 DEF Satisfied
<1>3. ASSUME NEW t \in Threads, Lock(t) PROVE Goal'
      BY <1>3 DEF Lock, FirstPlace
<1>4. ASSUME NEW t \in Threads, Sleep(t) PROVE Goal'
      BY <1>4 DEF Sleep
<1>5. ASSUME NEW t \in Threads, Unlock(t) PROVE Goal'
      BY <1>5 DEF Unlock
<1>6. ASSUME NEW c \in Customers, CustomerChecks(c) PROVE Goal'
      BY <1>6 DEF CustomerChecks
<1>7. ASSUME NEW c \in Customers, Buy(c) PROVE Goal'
  <2>1. PICK T \in {Suppliers, {}} : Broadcast(T, at[c], c, "unlock")
        BY <1>7, BuyEffect
  <2>2. /\ pc[c] = "buy"
        /\ UNCHANGED <<program, stores_open, mutex, at, mainpc, k>>
        BY <1>7, BuyEffect DEF Buy
  <2>3. demand' \in [Customers -> Int] /\ goods' \in [Stores -> -Unit..GoodsCap]
        BY <1>7 DEF Buy, BuyersFindGoods
  <2> QED
      BY <2>1, <2>2, <2>3
<1>8. ASSUME NEW s \in Suppliers, SupplierChecks(s) PROVE Goal'
      BY <1>8 DEF SupplierChecks
<1>9. ASSUME NEW s \in Suppliers, ReadFlag(s) PROVE Goal'
      BY <1>9 DEF ReadFlag
<1>10. ASSUME NEW s \in Suppliers, Fill(s) PROVE Goal'
  <2>1. PICK T \in {Customers, {}}, p \in {"unlock", "flag"} : Broadcast(T, at[s], s, p)
        BY <1>10, FillEffect
  <2>2. /\ pc[s] = "fill"
        /\ UNCHANGED <<program, demand, stores_open, mutex, at, mainpc, k>>
        BY <1>10, FillEffect DEF Fill
  <2>3. goods' \in [Stores -> -Unit..GoodsCap]
    <3>1. at[s] \in Stores
          BY <2>2
    <3>2. goods[at[s]] \in -Unit..GoodsCap
          BY <3>1
    <3>3. Supplied(goods[at[s]]) \in -Unit..GoodsCap
          BY <3>2, SuppliedRange
    <3>4. goods' = [goods EXCEPT ![at[s]] = Supplied(goods[at[s]])]
          BY <1>10, FillEffect
    <3> QED
        BY <3>1, <3>3, <3>4
  <2> QED
      BY <2>1, <2>2, <2>3
<1>11. CASE InitStore
      BY <1>11 DEF InitStore
<1>12. CASE JoinCustomers
      BY <1>12 DEF JoinCustomers
<1>13. CASE CloseStores
      BY <1>13 DEF CloseStores
<1>14. CASE MainLocks
      BY <1>14 DEF MainLocks
<1>15. CASE MainBroadcasts
      BY <1>15 DEF MainBroadcasts
<1>16. CASE MainUnlocks
      BY <1>16 DEF MainUnlocks
<1>17. CASE UNCHANGED vars
      BY <1>17 DEF vars
<1> QED
    BY <1>1, <1>2, <1>3, <1>4, <1>5, <1>6, <1>7, <1>8, <1>9,
       <1>10, <1>11, <1>12, <1>13, <1>14, <1>15, <1>16, <1>17
    DEF Next, CustomerStep, SupplierStep, MainStep, Done

\* A store's mutex is taken only when free and given back only by its holder.
LEMMA MutexStep == IInv /\ [Next]_vars => (MutexHeld /\ MainHolds)'
<1> DEFINE Goal == MutexHeld /\ MainHolds
<1> SUFFICES ASSUME IInv, [Next]_vars PROVE Goal'
    OBVIOUS
<1> USE DEF IInv, TypeOK, MutexHeld, MainHolds
<1>1. ASSUME NEW t \in Threads, NEW i \in Stores, Choose(t, i) PROVE Goal'
      BY <1>1 DEF Choose
<1>2. ASSUME NEW c \in Customers, Satisfied(c) PROVE Goal'
      BY <1>2 DEF Satisfied
<1>3. ASSUME NEW t \in Threads, Lock(t) PROVE Goal'
      BY <1>3 DEF Lock, FirstPlace
<1>4. ASSUME NEW t \in Threads, Sleep(t) PROVE Goal'
      BY <1>4 DEF Sleep
<1>5. ASSUME NEW t \in Threads, Unlock(t) PROVE Goal'
      BY <1>5 DEF Unlock
<1>6. ASSUME NEW c \in Customers, CustomerChecks(c) PROVE Goal'
      BY <1>6 DEF CustomerChecks
<1>7. ASSUME NEW c \in Customers, Buy(c) PROVE Goal'
  <2>1. PICK T \in {Suppliers, {}} : Broadcast(T, at[c], c, "unlock")
        BY <1>7, BuyEffect
  <2>2. /\ pc[c] = "buy"
        /\ UNCHANGED <<program, stores_open, mutex, at, mainpc, k>>
        BY <1>7, BuyEffect DEF Buy
  <2> QED
      BY <2>1, <2>2
<1>8. ASSUME NEW s \in Suppliers, SupplierChecks(s) PROVE Goal'
      BY <1>8 DEF SupplierChecks
<1>9. ASSUME NEW s \in Suppliers, ReadFlag(s) PROVE Goal'
      BY <1>9 DEF ReadFlag
<1>10. ASSUME NEW s \in Suppliers, Fill(s) PROVE Goal'
  <2>1. PICK T \in {Customers, {}}, p \in {"unlock", "flag"} : Broadcast(T, at[s], s, p)
        BY <1>10, FillEffect
  <2>2. /\ pc[s] = "fill"
        /\ UNCHANGED <<program, demand, stores_open, mutex, at, mainpc, k>>
        BY <1>10, FillEffect DEF Fill
  <2> QED
      BY <2>1, <2>2
<1>11. CASE InitStore
      BY <1>11 DEF InitStore
<1>12. CASE JoinCustomers
      BY <1>12 DEF JoinCustomers
<1>13. CASE CloseStores
      BY <1>13 DEF CloseStores
<1>14. CASE MainLocks
      BY <1>14 DEF MainLocks
<1>15. CASE MainBroadcasts
      BY <1>15 DEF MainBroadcasts
<1>16. CASE MainUnlocks
      BY <1>16 DEF MainUnlocks
<1>17. CASE UNCHANGED vars
      BY <1>17 DEF vars
<1> QED
    BY <1>1, <1>2, <1>3, <1>4, <1>5, <1>6, <1>7, <1>8, <1>9,
       <1>10, <1>11, <1>12, <1>13, <1>14, <1>15, <1>16, <1>17
    DEF Next, CustomerStep, SupplierStep, MainStep, Done

\* Who buys has looked at the goods under the mutex.
LEMMA GoodsStep == IInv /\ [Next]_vars => (SuppliersAwake /\ BuyersFindGoods)'
<1> DEFINE Goal == SuppliersAwake /\ BuyersFindGoods
<1> SUFFICES ASSUME IInv, [Next]_vars PROVE Goal'
    OBVIOUS
<1> USE DEF IInv, TypeOK, MutexHeld, SuppliersAwake, BuyersFindGoods
<1>1. ASSUME NEW t \in Threads, NEW i \in Stores, Choose(t, i) PROVE Goal'
      BY <1>1 DEF Choose
<1>2. ASSUME NEW c \in Customers, Satisfied(c) PROVE Goal'
      BY <1>2 DEF Satisfied
<1>3. ASSUME NEW t \in Threads, Lock(t) PROVE Goal'
      BY <1>3 DEF Lock, FirstPlace
<1>4. ASSUME NEW t \in Threads, Sleep(t) PROVE Goal'
      BY <1>4 DEF Sleep
<1>5. ASSUME NEW t \in Threads, Unlock(t) PROVE Goal'
      BY <1>5 DEF Unlock
<1>6. ASSUME NEW c \in Customers, CustomerChecks(c) PROVE Goal'
      BY <1>6 DEF CustomerChecks
<1>7. ASSUME NEW c \in Customers, Buy(c) PROVE Goal'
  <2>1. PICK T \in {Suppliers, {}} : Broadcast(T, at[c], c, "unlock")
        BY <1>7, BuyEffect
  <2>2. /\ pc[c] = "buy"
        /\ UNCHANGED <<program, stores_open, mutex, at, mainpc, k>>
        BY <1>7, BuyEffect DEF Buy
  <2>3. goods' = [goods EXCEPT ![at[c]] =
                     IF program.customersWait THEN @ - Unit ELSE @ - @]
        BY <1>7, BuyEffect
  <2> QED
      BY <2>1, <2>2, <2>3
<1>8. ASSUME NEW s \in Suppliers, SupplierChecks(s) PROVE Goal'
      BY <1>8 DEF SupplierChecks
<1>9. ASSUME NEW s \in Suppliers, ReadFlag(s) PROVE Goal'
      BY <1>9 DEF ReadFlag
<1>10. ASSUME NEW s \in Suppliers, Fill(s) PROVE Goal'
  <2>1. PICK T \in {Customers, {}}, p \in {"unlock", "flag"} : Broadcast(T, at[s], s, p)
        BY <1>10, FillEffect
  <2>2. /\ pc[s] = "fill"
        /\ UNCHANGED <<program, demand, stores_open, mutex, at, mainpc, k>>
        BY <1>10, FillEffect DEF Fill
  <2>3. goods' = [goods EXCEPT ![at[s]] = Supplied(@)]
        BY <1>10, FillEffect
  <2> QED
      BY <2>1, <2>2, <2>3 DEF Supplied
<1>11. CASE InitStore
  <2>1. goods' = goods \/ \E g \in InitGoods : goods' = [goods EXCEPT ![k] = g]
        BY <1>11 DEF InitStore
  <2>2. pc' = [pc EXCEPT ![k] = "choose"] /\ UNCHANGED <<program, mutex, at>>
        BY <1>11 DEF InitStore
  <2>3. \A i \in Stores : goods[i] >= 0 => goods'[i] >= 0
        BY <2>1
  <2>3a. BuyersFindGoods'
        BY <2>2, <2>3
  <2>4. SuppliersAwake'
        BY <2>2
  <2> QED
      BY <2>3a, <2>4
<1>12. CASE JoinCustomers
      BY <1>12 DEF JoinCustomers
<1>13. CASE CloseStores
      BY <1>13 DEF CloseStores
<1>14. CASE MainLocks
      BY <1>14 DEF MainLocks
<1>15. CASE MainBroadcasts
      BY <1>15 DEF MainBroadcasts
<1>16. CASE MainUnlocks
      BY <1>16 DEF MainUnlocks
<1>17. CASE UNCHANGED vars
      BY <1>17 DEF vars
<1> QED
    BY <1>1, <1>2, <1>3, <1>4, <1>5, <1>6, <1>7, <1>8, <1>9,
       <1>10, <1>11, <1>12, <1>13, <1>14, <1>15, <1>16, <1>17
    DEF Next, CustomerStep, SupplierStep, MainStep, Done

\* A supplier falls asleep holding the mutex and having seen the flag up.
LEMMA DesertedStep == IInv /\ [Next]_vars => (ClosedStoreIsDeserted)'
<1> DEFINE Goal == ClosedStoreIsDeserted
<1> SUFFICES ASSUME IInv, [Next]_vars PROVE Goal'
    OBVIOUS
<1> USE DEF IInv, TypeOK, MutexHeld, MainHolds, ClosedStoreIsDeserted
<1>1. ASSUME NEW t \in Threads, NEW i \in Stores, Choose(t, i) PROVE Goal'
      BY <1>1 DEF Choose
<1>2. ASSUME NEW c \in Customers, Satisfied(c) PROVE Goal'
      BY <1>2 DEF Satisfied
<1>3. ASSUME NEW t \in Threads, Lock(t) PROVE Goal'
      BY <1>3 DEF Lock, FirstPlace
<1>4. ASSUME NEW t \in Threads, Sleep(t) PROVE Goal'
      BY <1>4 DEF Sleep
<1>5. ASSUME NEW t \in Threads, Unlock(t) PROVE Goal'
      BY <1>5 DEF Unlock
<1>6. ASSUME NEW c \in Customers, CustomerChecks(c) PROVE Goal'
      BY <1>6 DEF CustomerChecks
<1>7. ASSUME NEW c \in Customers, Buy(c) PROVE Goal'
  <2>1. PICK T \in {Suppliers, {}} : Broadcast(T, at[c], c, "unlock")
        BY <1>7, BuyEffect
  <2>2. /\ pc[c] = "buy"
        /\ UNCHANGED <<program, stores_open, mutex, at, mainpc, k>>
        BY <1>7, BuyEffect DEF Buy
  <2> QED
      BY <2>1, <2>2
<1>8. ASSUME NEW s \in Suppliers, SupplierChecks(s) PROVE Goal'
      BY <1>8 DEF SupplierChecks
<1>9. ASSUME NEW s \in Suppliers, ReadFlag(s) PROVE Goal'
      BY <1>9 DEF ReadFlag
<1>10. ASSUME NEW s \in Suppliers, Fill(s) PROVE Goal'
  <2>1. PICK T \in {Customers, {}}, p \in {"unlock", "flag"} : Broadcast(T, at[s], s, p)
        BY <1>10, FillEffect
  <2>2. /\ pc[s] = "fill"
        /\ UNCHANGED <<program, demand, stores_open, mutex, at, mainpc, k>>
        BY <1>10, FillEffect DEF Fill
  <2> QED
      BY <2>1, <2>2
<1>11. CASE InitStore
      BY <1>11 DEF InitStore
<1>12. CASE JoinCustomers
      BY <1>12 DEF JoinCustomers
<1>13. CASE CloseStores
  <2>1. CASE program.suppliersWait
    <3>1. mainpc' = "lock" /\ k' = k /\ UNCHANGED <<pc, at>>
          BY <1>13, <2>1 DEF CloseStores
    <3> QED
        BY <3>1, <1>13 DEF CloseStores, MainHolds
  <2>2. CASE ~program.suppliersWait
    <3>1. UNCHANGED <<pc, at>>
          BY <1>13 DEF CloseStores
    <3> QED
        BY <3>1, <2>2 DEF SuppliersAwake
  <2> QED
      BY <2>1, <2>2
<1>14. CASE MainLocks
      BY <1>14 DEF MainLocks
<1>15. CASE MainBroadcasts
      BY <1>15 DEF MainBroadcasts
<1>16. CASE MainUnlocks
      BY <1>16 DEF MainUnlocks
<1>17. CASE UNCHANGED vars
      BY <1>17 DEF vars
<1> QED
    BY <1>1, <1>2, <1>3, <1>4, <1>5, <1>6, <1>7, <1>8, <1>9,
       <1>10, <1>11, <1>12, <1>13, <1>14, <1>15, <1>16, <1>17
    DEF Next, CustomerStep, SupplierStep, MainStep, Done

-----------------------------------------------------------------------------
\* The inductive invariant holds in every reachable state.
THEOREM Invariance == Spec => []IInv
<1>1. Init => IInv
      BY InitIInv
<1>2. IInv /\ [Next]_vars => IInv'
      BY TypeStep, MutexStep, GoodsStep, DesertedStep DEF IInv
<1> QED
    BY <1>1, <1>2, PTL DEF Spec

\* Type correctness; no store is oversold by more than one purchase.
THEOREM TypeCorrect == Spec => []TypeOK
<1>1. IInv => TypeOK
      BY DEF IInv
<1> QED
    BY <1>1, Invariance, PTL

\* The closing broadcast of main misses no supplier, for any number of stores.
THEOREM ClosingIsComplete == Spec => []ClosedStoreIsDeserted
<1>1. IInv => ClosedStoreIsDeserted
      BY DEF IInv
<1> QED
    BY <1>1, Invariance, PTL
=============================================================================
