-------------------------- MODULE GasStationProofs --------------------------
(***************************************************************************)
(* Proofs about GasStation for every number of cars, every storage and     *)
(* tank size and every program with the traits of GasStation.              *)
(***************************************************************************)
EXTENDS GasStation, TLAPS

\* A thread holds the mutex exactly where it runs inside the critical section.
MutexHeld ==
    \A t \in Threads : pc[t] \in {"check", "unlock", "leave"} <=> mutex = t

\* A car that is still in business has room in its tank.
CarsInBusiness ==
    \A c \in Cars : pc[c] \notin {"leave", "done"} => cars[c] < TankCapacity

\* When the refiller's copy of the answer is "no", "no" is still the answer.
RefusalIsFinal ==
    (program.asks = "once" /\ pc[Refiller] \in {"check", "wait", "relock"} /\ ~do_refill)
        => \A c \in Cars : cars[c] >= TankCapacity

\* Two cars are never in business at a station with a single condition.
NoRivals ==
    program.sharedCond =>
        \A c, d \in Cars : pc[c] # "done" /\ pc[d] # "done" => c = d

IInv == /\ TypeOK
        /\ MutexHeld
        /\ NoRivals
        /\ CarsInBusiness
        /\ RefusalIsFinal
        /\ NoLostWakeup
        /\ RefillerLeavesLast

-----------------------------------------------------------------------------
USE CarsAssumption, SizesAssumption, ProgramsAssumption
    DEF Threads, Places, Traits, Waiting, EmptyWaiters, FullWaiters, WakeAndGo, Signalled

\* The initial state of every program satisfies the inductive invariant.
LEMMA InitIInv == Init => IInv
<1> SUFFICES ASSUME Init PROVE IInv
    OBVIOUS
<1>1. do_refill \in BOOLEAN /\ program \in Programs /\ mutex \in Threads \cup {None}
      BY Zenon DEF Init
<1>2. PICK C \in CarsOf(program) :
          /\ cars = [c \in Cars |-> IF c \in C THEN 0 ELSE TankCapacity]
          /\ pc = [t \in Threads |-> IF t \in C \cup {Refiller} THEN "lock" ELSE "done"]
      BY DEF Init
<1>3. C \subseteq Cars
      BY DEF CarsOf
<1>4. TypeOK
  <2>1. fuel \in {0, GasStorage} /\ spurious \in 0..MaxSpurious
        BY DEF Init
  <2>2. cars \in [Cars -> 0..(TankCapacity + GasStorage - 1)] /\ pc \in [Threads -> Places]
        BY <1>2, <1>3
  <2> QED
      BY <1>1, <2>1, <2>2, Zenon DEF TypeOK
<1>5. MutexHeld /\ CarsInBusiness /\ RefusalIsFinal
      BY <1>2, <1>3 DEF Init, MutexHeld, CarsInBusiness, RefusalIsFinal
<1>6. NoRivals
  <2>1. program.sharedCond => program \in OneCarPrograms
        BY <1>1
  <2>2. program \in OneCarPrograms => \E c \in Cars : C = {c}
        BY <1>2 DEF CarsOf
  <2> QED
      BY <1>2, <1>3, <2>1, <2>2 DEF NoRivals
<1>7. NoLostWakeup /\ RefillerLeavesLast
      BY <1>2, <1>3 DEF NoLostWakeup, RefillerLeavesLast
<1> QED
    BY <1>4, <1>5, <1>6, <1>7 DEF IInv

\* What the refiller's entry does: it gets the mutex and, when it asks first
\* and is not needed any more, is already about to leave.
LEMMA RefillLockEffect ==
    ASSUME TypeOK, RefillLock
    PROVE  /\ do_refill' \in BOOLEAN
           /\ program.asks = "once" => (do_refill' <=> RefillNeeded)
           /\ \E p \in {"check", "leave"}, W \in SUBSET Threads :
                 /\ pc' = WakeAndGo(W, Refiller, p)
                 /\ W \subseteq Waiting(Threads)
                 /\ p = "leave" => ~RefillNeeded
<1>1. do_refill' \in BOOLEAN /\ (program.asks = "once" => (do_refill' <=> RefillNeeded))
      BY ZenonT(30) DEF RefillLock
<1>2. CASE program.asks = "first" /\ ~RefillNeeded
  <2>1. PICK W \in Signalled(EmptyWaiters) : pc' = WakeAndGo(W, Refiller, "leave")
        BY <1>2 DEF RefillLock
  <2>2. W \subseteq Waiting(Threads)
        BY <2>1 DEF Signalled, EmptyWaiters, Waiting
  <2> QED
      BY <1>1, <1>2, <2>1, <2>2
<1>3. CASE ~(program.asks = "first" /\ ~RefillNeeded)
  <2>1. pc' = [pc EXCEPT ![Refiller] = "check"]
        BY <1>3 DEF RefillLock
  <2>2. pc' = WakeAndGo({}, Refiller, "check")
        BY <2>1 DEF WakeAndGo, TypeOK
  <2>3. {} \in SUBSET Threads /\ {} \subseteq Waiting(Threads)
        BY Zenon
  <2>4. \E p \in {"check", "leave"}, W \in SUBSET Threads :
            pc' = WakeAndGo(W, Refiller, p) /\ W \subseteq Waiting(Threads)
                /\ (p = "leave" => ~RefillNeeded)
    <3> HIDE DEF WakeAndGo, Threads, Waiting
    <3> WITNESS "check" \in {"check", "leave"}, {} \in SUBSET Threads
    <3> QED BY <2>2, <2>3
  <2> QED
      BY <1>1, <2>4
<1> QED
    BY <1>2, <1>3

\* Every step preserves the types and who may be inside the critical section.
LEMMA TypeStep == IInv /\ [Next]_vars => (TypeOK /\ MutexHeld)'
<1> SUFFICES ASSUME IInv, [Next]_vars PROVE (TypeOK /\ MutexHeld)'
    OBVIOUS
<1> USE DEF IInv, TypeOK, MutexHeld
<1>1. CASE RefillLock
  <2>1. PICK p \in {"check", "leave"}, W \in SUBSET Threads :
            pc' = WakeAndGo(W, Refiller, p) /\ W \subseteq Waiting(Threads)
        BY <1>1, RefillLockEffect
  <2>2. /\ mutex = None /\ mutex' = Refiller /\ do_refill' \in BOOLEAN
        /\ UNCHANGED <<program, fuel, cars, spurious>>
        BY <1>1, RefillLockEffect DEF RefillLock
  <2> QED
      BY <2>1, <2>2
<1>2. CASE RefillWait
      BY <1>2 DEF RefillWait
<1>3. CASE RefillLeave
      BY <1>3 DEF RefillLeave
<1>4. CASE Refill
  <2>1. do_refill' \in BOOLEAN
        BY <1>4, Zenon DEF Refill
  <2> DEFINE Wakes == IF program.wakesAll THEN {EmptyWaiters} ELSE Signalled(EmptyWaiters)
  <2>2. \A W \in Wakes : W \subseteq Waiting(Threads)
        OBVIOUS
  <2>3. PICK W \in Wakes : pc' = WakeAndGo(W, Refiller, "unlock")
        BY <1>4 DEF Refill
  <2>4. W \subseteq Waiting(Threads)
        BY <2>2, <2>3
  <2> HIDE DEF Wakes
  <2> QED
      BY <1>4, <2>1, <2>3, <2>4 DEF Refill
<1>5. ASSUME NEW c \in Cars, PurchaseLock(c) PROVE (TypeOK /\ MutexHeld)'
      BY <1>5 DEF PurchaseLock
<1>6. ASSUME NEW c \in Cars, PurchaseWait(c) PROVE (TypeOK /\ MutexHeld)'
      BY <1>6 DEF PurchaseWait
<1>7. ASSUME NEW c \in Cars, Purchase(c) PROVE (TypeOK /\ MutexHeld)'
      BY <1>7 DEF Purchase, CarsInBusiness
<1>8. ASSUME NEW t \in Threads, Unlock(t) PROVE (TypeOK /\ MutexHeld)'
      BY <1>8 DEF Unlock
<1>9. ASSUME NEW t \in Threads, Relock(t) PROVE (TypeOK /\ MutexHeld)'
      BY <1>9 DEF Relock
<1>10. ASSUME NEW t \in Threads, SpuriousWake(t) PROVE (TypeOK /\ MutexHeld)'
      BY <1>10 DEF SpuriousWake
<1>11. CASE UNCHANGED vars
      BY <1>11 DEF vars
<1> QED
    BY <1>1, <1>2, <1>3, <1>4, <1>5, <1>6, <1>7, <1>8, <1>9, <1>10, <1>11
    DEF Next, RefillStep, PurchaseStep, Done

\* Tanks never lose fuel, so an answer "no refill needed" stays true.
LEMMA SatisfactionStep ==
    IInv /\ [Next]_vars => (CarsInBusiness /\ RefusalIsFinal /\ RefillerLeavesLast)'
<1> DEFINE Goal == CarsInBusiness /\ RefusalIsFinal /\ RefillerLeavesLast
<1> SUFFICES ASSUME IInv, [Next]_vars PROVE Goal'
    OBVIOUS
<1> USE DEF IInv, TypeOK, CarsInBusiness, RefusalIsFinal, RefillerLeavesLast
<1>1. CASE RefillLock
      BY <1>1, RefillLockEffect DEF RefillLock, RefillNeeded
<1>2. CASE RefillWait
      BY <1>2 DEF RefillWait
<1>3. CASE RefillLeave
      BY <1>3 DEF RefillLeave, NothingToDo, RefillNeeded
<1>4. CASE Refill
      BY <1>4 DEF Refill
<1>5. ASSUME NEW c \in Cars, PurchaseLock(c) PROVE Goal'
      BY <1>5 DEF PurchaseLock
<1>6. ASSUME NEW c \in Cars, PurchaseWait(c) PROVE Goal'
      BY <1>6 DEF PurchaseWait
<1>7. ASSUME NEW c \in Cars, Purchase(c) PROVE Goal'
      BY <1>7 DEF Purchase
<1>8. ASSUME NEW t \in Threads, Unlock(t) PROVE Goal'
      BY <1>8 DEF Unlock
<1>9. ASSUME NEW t \in Threads, Relock(t) PROVE Goal'
      BY <1>9 DEF Relock
<1>10. ASSUME NEW t \in Threads, SpuriousWake(t) PROVE Goal'
      BY <1>10 DEF SpuriousWake
<1>11. CASE UNCHANGED vars
      BY <1>11 DEF vars
<1> QED
    BY <1>1, <1>2, <1>3, <1>4, <1>5, <1>6, <1>7, <1>8, <1>9, <1>10, <1>11
    DEF Next, RefillStep, PurchaseStep, Done

\* A car that has left does not come back.
LEMMA RivalsStep == IInv /\ [Next]_vars => NoRivals'
<1> SUFFICES ASSUME IInv, [Next]_vars PROVE NoRivals'
    OBVIOUS
<1>1. program' = program
      BY DEF Next, RefillStep, PurchaseStep, Done, vars, RefillLock, RefillWait, RefillLeave,
             Refill, PurchaseLock, PurchaseWait, Purchase, Unlock, Relock, SpuriousWake
<1>2. \A c \in Cars : pc[c] = "done" => pc'[c] = "done"
      BY RefillLockEffect
      DEF IInv, TypeOK, Next, RefillStep, PurchaseStep, Done, vars, RefillWait, RefillLeave,
          Refill, PurchaseLock, PurchaseWait, Purchase, Unlock, Relock, SpuriousWake
<1> QED
    BY <1>1, <1>2 DEF IInv, NoRivals

\* Whoever changes the fuel wakes somebody who waits for that change.
LEMMA WakeupStep == IInv /\ [Next]_vars => NoLostWakeup'
<1> SUFFICES ASSUME IInv, [Next]_vars PROVE NoLostWakeup'
    OBVIOUS
<1> USE DEF IInv, TypeOK, NoLostWakeup
<1>1. CASE RefillLock
  <2>1. PICK p \in {"check", "leave"}, W \in SUBSET Threads :
            pc' = WakeAndGo(W, Refiller, p) /\ W \subseteq Waiting(Threads)
        BY <1>1, RefillLockEffect
  <2>2. /\ mutex = None /\ mutex' = Refiller /\ do_refill' \in BOOLEAN
        /\ UNCHANGED <<program, fuel, cars, spurious>>
        BY <1>1, RefillLockEffect DEF RefillLock
  <2> QED
      BY <2>1, <2>2
<1>2. CASE RefillWait
      BY <1>2 DEF RefillWait, MustWait
<1>3. CASE RefillLeave
  <2> DEFINE Farewell == IF program.farewell THEN Signalled(EmptyWaiters) ELSE {{}}
  <2>1. \A W \in Farewell : W \subseteq Waiting(Threads)
        OBVIOUS
  <2>2. PICK W \in Farewell : pc' = WakeAndGo(W, Refiller, "leave")
        BY <1>3 DEF RefillLeave
  <2>3. UNCHANGED <<program, fuel, cars>>
        BY <1>3 DEF RefillLeave
  <2> HIDE DEF Farewell
  <2>4. W \subseteq Waiting(Threads)
        BY <2>1, <2>2
  <2>5. pc'[Refiller] # "wait"
        BY <2>2, CarsAssumption DEF WakeAndGo, Threads
  <2>6. \A c \in Cars : pc'[c] = (IF c \in W THEN "relock" ELSE pc[c])
        BY <2>2, CarsAssumption DEF WakeAndGo, Threads
  <2>7. ASSUME fuel' # 0, NEW v \in Cars, pc'[v] = "wait"
        PROVE  \E c \in Cars : pc'[c] \in {"lock", "check", "relock", "unlock"}
    <3>1. pc[v] = "wait" /\ fuel # 0
          BY <2>3, <2>6, <2>7
    <3>2. PICK c \in Cars : pc[c] \in {"lock", "check", "relock", "unlock"}
          BY <3>1 DEF Waiting
    <3>3. pc'[c] \in {"lock", "check", "relock", "unlock"}
          BY <2>6, <3>2
    <3> QED
        BY <3>3
  <2> QED
      BY <2>5, <2>7 DEF Waiting
<1>4. CASE Refill
  <2> DEFINE Wakes == IF program.wakesAll THEN {EmptyWaiters} ELSE Signalled(EmptyWaiters)
  <2>1. EmptyWaiters = Waiting(Cars)
        BY <1>4 DEF Refill
  <2>2. \A W \in Wakes : W \subseteq Waiting(Cars) /\ (W = {} => Waiting(Cars) = {})
        BY <2>1
  <2>3. PICK W \in Wakes : pc' = WakeAndGo(W, Refiller, "unlock")
        BY <1>4 DEF Refill
  <2> HIDE DEF Wakes
  <2>4. W \subseteq Waiting(Cars) /\ (W = {} => Waiting(Cars) = {})
        BY <2>2, <2>3
  <2>5. pc'[Refiller] = "unlock" /\ \A w \in W : pc'[w] = "relock"
        BY <2>3, <2>4
  <2>6. W = {} => \A c \in Cars : pc'[c] # "wait"
        BY <2>3, <2>4
  <2>7. CASE W = {}
        BY <2>5, <2>6, <2>7
  <2>8. CASE W # {}
    <3>1. PICK w \in W : w \in Cars
          BY <2>4, <2>8
    <3>2. pc'[w] = "relock"
          BY <2>5, <3>1
    <3> QED
        BY <2>5, <3>1, <3>2
  <2> QED
      BY <2>7, <2>8
<1>5. ASSUME NEW c \in Cars, PurchaseLock(c) PROVE NoLostWakeup'
      BY <1>5 DEF PurchaseLock
<1>6. ASSUME NEW c \in Cars, PurchaseWait(c) PROVE NoLostWakeup'
      BY <1>6 DEF PurchaseWait
<1>7. ASSUME NEW c \in Cars, Purchase(c) PROVE NoLostWakeup'
      BY <1>7 DEF Purchase, NoRivals
<1>8. ASSUME NEW t \in Threads, Unlock(t) PROVE NoLostWakeup'
      BY <1>8 DEF Unlock
<1>9. ASSUME NEW t \in Threads, Relock(t) PROVE NoLostWakeup'
      BY <1>9 DEF Relock
<1>10. ASSUME NEW t \in Threads, SpuriousWake(t) PROVE NoLostWakeup'
      BY <1>10 DEF SpuriousWake
<1>11. CASE UNCHANGED vars
      BY <1>11 DEF vars
<1> QED
    BY <1>1, <1>2, <1>3, <1>4, <1>5, <1>6, <1>7, <1>8, <1>9, <1>10, <1>11
    DEF Next, RefillStep, PurchaseStep, Done

-----------------------------------------------------------------------------
\* The inductive invariant holds in every reachable state.
THEOREM Invariance == Spec => []IInv
<1>1. Init => IInv
      BY InitIInv
<1>2. IInv /\ [Next]_vars => IInv'
      BY TypeStep, RivalsStep, SatisfactionStep, WakeupStep DEF IInv
<1> QED
    BY <1>1, <1>2, PTL DEF Spec

\* No thread of the gas station ever sleeps through the change it waits for.
THEOREM WakeupsAreNotLost == Spec => []NoLostWakeup
<1>1. IInv => NoLostWakeup
      BY DEF IInv
<1> QED
    BY <1>1, Invariance, PTL

\* The refiller leaves only when every tank is full.
THEOREM RefillerIsLast == Spec => []RefillerLeavesLast
<1>1. IInv => RefillerLeavesLast
      BY DEF IInv
<1> QED
    BY <1>1, Invariance, PTL

\* Type correctness; a tank overshoots its capacity by less than one delivery.
THEOREM TypeCorrect == Spec => []TypeOK
<1>1. IInv => TypeOK
      BY DEF IInv
<1> QED
    BY <1>1, Invariance, PTL
=============================================================================
