----------------------------- MODULE GasStation -----------------------------
(***************************************************************************)
(* The gas station of LAB_13/task_cond_wait: one refill thread and the     *)
(* purchase threads (cars) share `fuel` and the tanks under one mutex and  *)
(* wait for each other on condition variables.  The five programs          *)
(* cond_wait_signal_1 .. cond_wait_signal_5 differ in the number of        *)
(* conditions, in signal against broadcast and in where the refiller looks *)
(* whether it is still needed.  Each is a record of these traits, and      *)
(* `program` is the one that runs.                                         *)
(*                                                                         *)
(* A thread is in one of the places                                        *)
(*   "lock"    about to call pthread_mutex_lock,                           *)
(*   "check"   holding the mutex, at the head of its waiting loop,         *)
(*   "wait"    blocked in pthread_cond_wait, mutex released,               *)
(*   "relock"  woken, still inside pthread_cond_wait: needs the mutex,     *)
(*   "unlock"  holding the mutex, at the pthread_mutex_unlock that loops,  *)
(*   "leave"   holding the mutex, at the pthread_mutex_unlock that breaks, *)
(*   "done"    returned from its start routine.                            *)
(* The error returns of the pthread calls are left out: none of them can   *)
(* fail on the statically initialised, correctly owned objects used here.  *)
(***************************************************************************)
EXTENDS Integers, FiniteSets

CONSTANTS
    Cars,           \* purchase threads
    Refiller,       \* the refill thread
    None,           \* the mutex is free
    GasStorage,     \* GAS_STORAGE
    TankCapacity,   \* TANK_CAPACITY
    Programs,       \* the programs a behaviour may be of
    MaxSpurious     \* bound on the spurious wake-ups of a behaviour

\* What tells the programs apart:
\*   sharedCond  one condition for customers and refiller instead of two,
\*   startsFull  `fuel` is initially 35 instead of 0,
\*   asks        when the refiller asks whether it is needed: "first" (before
\*               and after its waiting loop), "loop" (at every turn of the loop
\*               and after it), "once" (on entry, keeping the answer),
\*   wakesAll    a refill broadcasts instead of signalling,
\*   farewell    the refiller signals the customers when it leaves.
Traits == [sharedCond : BOOLEAN, startsFull : BOOLEAN, asks : {"first", "loop", "once"},
           wakesAll : BOOLEAN, farewell : BOOLEAN]

CondWaitSignal1 == [sharedCond |-> TRUE, startsFull |-> TRUE, asks |-> "first",
                    wakesAll |-> FALSE, farewell |-> TRUE]
CondWaitSignal2 == [sharedCond |-> FALSE, startsFull |-> TRUE, asks |-> "first",
                    wakesAll |-> FALSE, farewell |-> TRUE]
CondWaitSignal3 == [sharedCond |-> FALSE, startsFull |-> TRUE, asks |-> "loop",
                    wakesAll |-> FALSE, farewell |-> TRUE]
CondWaitSignal4 == [sharedCond |-> FALSE, startsFull |-> FALSE, asks |-> "once",
                    wakesAll |-> FALSE, farewell |-> TRUE]
CondWaitSignal5 == [sharedCond |-> FALSE, startsFull |-> FALSE, asks |-> "once",
                    wakesAll |-> TRUE, farewell |-> FALSE]

\* The first three programs have one variable `car`, hence one purchase thread.
OneCarPrograms == {CondWaitSignal1, CondWaitSignal2, CondWaitSignal3}
AllPrograms == OneCarPrograms \cup {CondWaitSignal4, CondWaitSignal5}

ASSUME CarsAssumption == /\ IsFiniteSet(Cars)
                         /\ Refiller \notin Cars
                         /\ None \notin Cars \cup {Refiller}
ASSUME SizesAssumption == /\ GasStorage \in Nat \ {0}
                          /\ TankCapacity \in Nat \ {0}
                          /\ MaxSpurious \in Nat
\* One condition for both kinds of threads is used with one car only.
ASSUME ProgramsAssumption ==
    /\ Programs \subseteq Traits
    /\ \A p \in Programs : p.sharedCond => p \in OneCarPrograms

VARIABLES
    program,    \* the program that runs; never changes
    fuel,       \* fuel at the station
    cars,       \* cars[i], the filled part of tank i
    do_refill,  \* the refiller's local of programs 4 and 5
    mutex,      \* holder of the mutex, or None
    pc,         \* place of each thread
    spurious    \* spurious wake-ups so far (bounded by MaxSpurious)

vars == <<program, fuel, cars, do_refill, mutex, pc, spurious>>

Threads == Cars \cup {Refiller}
Places == {"lock", "check", "wait", "relock", "unlock", "leave", "done"}

\* The cars a program has.  One it does not have counts as filled and gone.
CarsOf(prog) == IF prog \in OneCarPrograms THEN {{c} : c \in Cars} ELSE {Cars}

Init == /\ program \in Programs
        /\ fuel = IF program.startsFull THEN GasStorage ELSE 0
        /\ do_refill = FALSE
        /\ mutex = None
        /\ \E C \in CarsOf(program) :
              /\ cars = [c \in Cars |-> IF c \in C THEN 0 ELSE TankCapacity]
              /\ pc = [t \in Threads |-> IF t \in C \cup {Refiller} THEN "lock" ELSE "done"]
        /\ spurious = 0

-----------------------------------------------------------------------------
(* Condition variables.  A waiter sleeps on the condition of its kind; in  *)
(* cond_wait_signal_1 both kinds share one.                                *)

Waiting(T) == {t \in T : pc[t] = "wait"}

\* Threads asleep on the condition customers wait for.
EmptyWaiters == IF program.sharedCond THEN Waiting(Threads) ELSE Waiting(Cars)
\* Threads asleep on the condition the refiller waits for.
FullWaiters == IF program.sharedCond THEN Waiting(Threads) ELSE Waiting({Refiller})

\* pc when t is at place p and the threads of Woken return from their sleep.
WakeAndGo(Woken, t, p) ==
    [u \in Threads |-> IF u = t THEN p ELSE IF u \in Woken THEN "relock" ELSE pc[u]]

\* The sets pthread_cond_signal on a condition with waiters W may wake.
Signalled(W) == IF W = {} THEN {{}} ELSE {{w} : w \in W}

-----------------------------------------------------------------------------
(* refill *)

\* is_refill_needed; the first three programs compare their only car.
RefillNeededAllCars == \A c \in Cars : cars[c] < TankCapacity
RefillNeeded == \E c \in Cars : cars[c] < TankCapacity

MustWait == /\ fuel >= GasStorage
            /\ program.asks = "loop" => RefillNeeded
            /\ program.asks = "once" => do_refill

NothingToDo == IF program.asks = "once" THEN ~do_refill ELSE ~RefillNeeded

RefillLock ==
    /\ pc[Refiller] = "lock"
    /\ mutex = None
    /\ mutex' = Refiller
    /\ do_refill' = (program.asks = "once" /\ RefillNeeded)
    /\ IF program.asks = "first" /\ ~RefillNeeded
       THEN \E W \in Signalled(EmptyWaiters) : pc' = WakeAndGo(W, Refiller, "leave")
       ELSE pc' = [pc EXCEPT ![Refiller] = "check"]
    /\ UNCHANGED <<program, fuel, cars, spurious>>

RefillWait ==
    /\ pc[Refiller] = "check"
    /\ MustWait
    /\ mutex' = None
    /\ pc' = [pc EXCEPT ![Refiller] = "wait"]
    /\ UNCHANGED <<program, fuel, cars, do_refill, spurious>>

RefillLeave ==
    /\ pc[Refiller] = "check"
    /\ ~MustWait
    /\ NothingToDo
    /\ \E W \in IF program.farewell THEN Signalled(EmptyWaiters) ELSE {{}} :
           pc' = WakeAndGo(W, Refiller, "leave")
    /\ UNCHANGED <<program, fuel, cars, do_refill, mutex, spurious>>

Refill ==
    /\ pc[Refiller] = "check"
    /\ ~MustWait
    /\ ~NothingToDo
    /\ fuel' = GasStorage
    /\ do_refill' = FALSE
    /\ \E W \in IF program.wakesAll THEN {EmptyWaiters} ELSE Signalled(EmptyWaiters) :
           pc' = WakeAndGo(W, Refiller, "unlock")
    /\ UNCHANGED <<program, cars, mutex, spurious>>

-----------------------------------------------------------------------------
(* purchase *)

PurchaseLock(c) ==
    /\ pc[c] = "lock"
    /\ mutex = None
    /\ mutex' = c
    /\ pc' = [pc EXCEPT ![c] = "check"]
    /\ UNCHANGED <<program, fuel, cars, do_refill, spurious>>

\* A car that polls instead of sleeping on the condition.
PurchaseWaitPolls(c) ==
    /\ pc[c] = "check"
    /\ fuel = 0
    /\ mutex' = None
    /\ pc' = [pc EXCEPT ![c] = "lock"]
    /\ UNCHANGED <<program, fuel, cars, do_refill, spurious>>

PurchaseWait(c) ==
    /\ pc[c] = "check"
    /\ fuel = 0
    /\ mutex' = None
    /\ pc' = [pc EXCEPT ![c] = "wait"]
    /\ UNCHANGED <<program, fuel, cars, do_refill, spurious>>

\* A car that drives on with a full tank instead of leaving.
PurchaseNeverLeaves(c) ==
    /\ pc[c] = "check"
    /\ fuel # 0
    /\ cars' = [cars EXCEPT ![c] = @ + fuel]
    /\ fuel' = 0
    /\ \E W \in Signalled(FullWaiters) : pc' = WakeAndGo(W, c, "unlock")
    /\ UNCHANGED <<program, do_refill, mutex, spurious>>

\* A car that does not signal the refiller.
PurchaseSilent(c) ==
    /\ pc[c] = "check"
    /\ fuel # 0
    /\ cars' = [cars EXCEPT ![c] = @ + fuel]
    /\ fuel' = 0
    /\ pc' = [pc EXCEPT ![c] = IF cars'[c] >= TankCapacity THEN "leave" ELSE "unlock"]
    /\ UNCHANGED <<program, do_refill, mutex, spurious>>

Purchase(c) ==
    /\ pc[c] = "check"
    /\ fuel # 0
    /\ cars' = [cars EXCEPT ![c] = @ + fuel]
    /\ fuel' = 0
    /\ \E W \in Signalled(FullWaiters) :
           pc' = WakeAndGo(W, c, IF cars'[c] >= TankCapacity THEN "leave" ELSE "unlock")
    /\ UNCHANGED <<program, do_refill, mutex, spurious>>

-----------------------------------------------------------------------------
(* Both start routines *)

Unlock(t) ==
    /\ pc[t] \in {"unlock", "leave"}
    /\ mutex' = None
    /\ pc' = [pc EXCEPT ![t] = IF pc[t] = "leave" THEN "done" ELSE "lock"]
    /\ UNCHANGED <<program, fuel, cars, do_refill, spurious>>

\* pthread_cond_wait returns once it has the mutex again, and the loop
\* around it looks at the condition once more.
Relock(t) ==
    /\ pc[t] = "relock"
    /\ mutex = None
    /\ mutex' = t
    /\ pc' = [pc EXCEPT ![t] = "check"]
    /\ UNCHANGED <<program, fuel, cars, do_refill, spurious>>

\* "pthread_cond_wait can occasionally wake up and return 0".
SpuriousWake(t) ==
    /\ pc[t] = "wait"
    /\ spurious < MaxSpurious
    /\ spurious' = spurious + 1
    /\ pc' = [pc EXCEPT ![t] = "relock"]
    /\ UNCHANGED <<program, fuel, cars, do_refill, mutex>>

\* main has joined every thread.
AllDone == \A t \in Threads : pc[t] = "done"
Done == AllDone /\ UNCHANGED vars

RefillStep == RefillLock \/ RefillWait \/ RefillLeave \/ Refill
PurchaseStep(c) == PurchaseLock(c) \/ PurchaseWait(c) \/ Purchase(c)

Next == \/ RefillStep
        \/ \E c \in Cars : PurchaseStep(c)
        \/ \E t \in Threads : Unlock(t) \/ Relock(t) \/ SpuriousWake(t)
        \/ Done

Spec == Init /\ [][Next]_vars

\* The kernel runs every thread that can run, and a free mutex is granted.
Fairness == /\ WF_vars(RefillStep \/ Unlock(Refiller) \/ Relock(Refiller))
            /\ \A c \in Cars : WF_vars(PurchaseStep(c) \/ Unlock(c) \/ Relock(c))

FairSpec == Spec /\ Fairness

-----------------------------------------------------------------------------
(* Properties *)

\* Every variable has its type; no tank is topped up once it is full, so it
\* overshoots TANK_CAPACITY by less than one delivery.
TypeOK ==
    /\ program \in Programs
    /\ fuel \in {0, GasStorage}
    /\ cars \in [Cars -> 0..(TankCapacity + GasStorage - 1)]
    /\ do_refill \in BOOLEAN
    /\ mutex \in Threads \cup {None}
    /\ pc \in [Threads -> Places]
    /\ spurious \in 0..MaxSpurious

\* No wake-up is lost, whatever signals are dropped ("Losing a signal because
\* thread is blocked on pthread_mutex_lock is fine"): the refiller sleeps only
\* while there is fuel nobody has taken, and customers sleep beside fuel only
\* when some other customer is awake and will take it.
NoLostWakeup ==
    /\ pc[Refiller] = "wait" => fuel = GasStorage
    /\ (fuel # 0 /\ Waiting(Cars) # {}) =>
           \E c \in Cars : pc[c] \in {"lock", "check", "relock", "unlock"}

\* The refiller never goes home before every tank is full, although the
\* last two programs decide on the copy do_refill taken before a wait.
RefillerLeavesLast ==
    pc[Refiller] \in {"leave", "done"} => \A c \in Cars : cars[c] >= TankCapacity

\* Both joins of main return: every car gets its tank filled and the refiller
\* notices.
Termination == <>AllDone
=============================================================================
