------------------------- MODULE SysvConsumerSupplier -------------------------
(***************************************************************************)
(* LAB_16/task_system_v_semaphores_2/src/consumer_supplier.c: the same     *)
(* trade as PosixConsumerSupplier over System V objects.                   *)
(*                                                                         *)
(* Every semop carries SEM_UNDO: the kernel keeps, for each process, the   *)
(* adjustment that takes its operations back, and applies it when the      *)
(* process exits or is killed.  A process never holds two semaphores, so   *)
(* semadj[p] is the one it holds, or None.                                 *)
(*                                                                         *)
(* A semop that sleeps is interrupted (EINTR, never restarted) when the    *)
(* program is stopped and continued; an unlocking semop never sleeps.      *)
(*                                                                         *)
(* Every access to the shared segment is a read step followed by a write   *)
(* step: what makes a trade atomic is the semaphore and nothing else.      *)
(***************************************************************************)
EXTENDS Integers, FiniteSets

CONSTANTS ConsNum, SupNum,  \* -c, -s
          Demand, Supply,   \* -D, -S
          Jobs,             \* the semaphore of jobs_semid
          None,             \* no semaphore
          StockBound,       \* bound: a stock above it is not increased further
          MaxInterrupts,    \* bound on interrupted semop calls
          MaxForkFaults     \* bound on failing fork calls

Consumers == 0 .. (ConsNum - 1)
ProcNum   == ConsNum + SupNum
Suppliers == ConsNum .. (ProcNum - 1)
Procs     == 0 .. (ProcNum - 1)
\* One semaphore per supplier in the set semid, one in jobs_semid.
Sems      == Suppliers \cup {Jobs}

ASSUME ConstantsAssumption ==
    /\ ConsNum \in Nat \ {0} /\ SupNum \in Nat \ {0}
    /\ Demand \in Nat \ {0}  /\ Supply \in Nat \ {0}
    /\ Jobs \notin Suppliers /\ None \notin Sems
    /\ StockBound \in Nat /\ MaxInterrupts \in Nat /\ MaxForkFaults \in Nat

VARIABLES dem, stock, jobs,  \* the segment
          semval,            \* value of each semaphore
          semadj,            \* what the kernel will give back for each process
          pc, sup_idx,       \* the children: place and drawn supplier
          seen,              \* what each child has read and not yet written back, else 0
          failed,            \* children whose status is EXIT_FAILURE
          ppc, pidx, status, \* the parent: phase, index in pid_list, failure?
          interrupts, forkFaults  \* faults so far

segment == <<dem, stock, jobs>>
kernel  == <<semval, semadj>>
parent  == <<ppc, pidx, status, forkFaults>>
vars == <<dem, stock, jobs, semval, semadj, pc, sup_idx, seen, failed, ppc, pidx, status,
          interrupts, forkFaults>>

Init == /\ dem = [c \in Consumers |-> Demand]
        /\ stock = [s \in Suppliers |-> Supply]
        /\ jobs = ConsNum
        /\ semval = [x \in Sems |-> 1]
        /\ semadj = [p \in Procs |-> None]
        /\ pc = [p \in Procs |-> "none"]
        /\ sup_idx = [c \in Consumers |-> ConsNum]
        /\ seen = [p \in Procs |-> 0]
        /\ failed = {}
        /\ ppc = "fork" /\ pidx = 0 /\ status = "success"
        /\ interrupts = 0 /\ forkFaults = 0

Goto(p, label) == pc' = [pc EXCEPT ![p] = label]

-------------------------------------------------------------------------------
(* semop with SEM_UNDO                                                     *)

\* The semaphore p operates on: the drawn supplier's, its own, or the counter's.
Sem(p) == IF pc[p] \in {"jobs_lock", "jobs_read", "jobs_write", "jobs_unlock", "jobs_unlock_again"}
            THEN Jobs ELSE IF p \in Consumers THEN sup_idx[p] ELSE p

\* Mutant: the lock is taken without waiting for the semaphore.
SemopLockNoWait(p) ==
    /\ pc[p] \in {"lock", "jobs_lock"}
    /\ semval' = [semval EXCEPT ![Sem(p)] = 0]
    /\ semadj' = [semadj EXCEPT ![p] = Sem(p)]
    /\ Goto(p, IF pc[p] = "lock" THEN "read" ELSE "jobs_read")
    /\ UNCHANGED <<segment, sup_idx, seen, failed, parent, interrupts>>

\* semop(&lock), semop(&jobs_lock)
SemopLock(p) ==
    /\ pc[p] \in {"lock", "jobs_lock"}
    /\ semval[Sem(p)] > 0
    /\ semval' = [semval EXCEPT ![Sem(p)] = @ - 1]
    /\ semadj' = [semadj EXCEPT ![p] = Sem(p)]
    /\ Goto(p, IF pc[p] = "lock" THEN "read" ELSE "jobs_read")
    /\ UNCHANGED <<segment, sup_idx, seen, failed, parent, interrupts>>

\* Mutant: a served consumer goes home without passing by the counter.
AfterUnlockNoJobs(p) ==
    CASE pc[p] = "unlock" /\ p \in Consumers -> IF dem[p] = 0 THEN "end" ELSE "draw"
      [] pc[p] = "unlock" /\ p \in Suppliers -> "jobs_lock"
      [] pc[p] = "jobs_unlock_again" -> "lock"
      [] OTHER -> "end"

\* Mutant: a consumer that is not served yet counts itself as served.
AfterUnlockUnserved(p) ==
    CASE pc[p] = "unlock" -> "jobs_lock"
      [] pc[p] = "jobs_unlock_again" -> "lock"
      [] OTHER -> "end"

\* Where a child goes after it has released a semaphore.
AfterUnlock(p) ==
    CASE pc[p] = "unlock" /\ p \in Consumers -> IF dem[p] = 0 THEN "jobs_lock" ELSE "draw"
      [] pc[p] = "unlock" /\ p \in Suppliers -> "jobs_lock"
      [] pc[p] = "jobs_unlock_again" -> "lock"
      [] OTHER -> "end"

\* Mutant: an unlock without SEM_UNDO, the lock's adjustment stays behind.
SemopUnlockNoUndo(p) ==
    /\ pc[p] \in {"unlock", "jobs_unlock", "jobs_unlock_again"}
    /\ semval' = [semval EXCEPT ![Sem(p)] = @ + 1]
    /\ Goto(p, AfterUnlock(p))
    /\ UNCHANGED <<segment, semadj, sup_idx, seen, failed, parent, interrupts>>

\* semop(&unlock), semop(&jobs_unlock)
SemopUnlock(p) ==
    /\ pc[p] \in {"unlock", "jobs_unlock", "jobs_unlock_again"}
    /\ semval' = [semval EXCEPT ![Sem(p)] = @ + 1]
    /\ semadj' = [semadj EXCEPT ![p] = None]
    /\ Goto(p, AfterUnlock(p))
    /\ UNCHANGED <<segment, sup_idx, seen, failed, parent, interrupts>>

\* A semop that sleeps is interrupted: status = EXIT_FAILURE, goto end.
SemopInterrupted(p) ==
    /\ pc[p] \in {"lock", "jobs_lock"}
    /\ semval[Sem(p)] = 0
    /\ interrupts < MaxInterrupts
    /\ interrupts' = interrupts + 1
    /\ failed' = failed \cup {p}
    /\ Goto(p, "end")
    /\ UNCHANGED <<segment, kernel, sup_idx, seen, parent>>

\* Mutant: the program without SEM_UNDO on the lock.
DiesNoUndo(p) == Goto(p, "gone") /\ UNCHANGED kernel

\* The process is gone: the kernel applies its adjustments.
Dies(p) ==
    /\ Goto(p, "gone")
    /\ semval' = [x \in Sems |-> IF semadj[p] = x THEN semval[x] + 1 ELSE semval[x]]
    /\ semadj' = [semadj EXCEPT ![p] = None]

-------------------------------------------------------------------------------
(* consume()                                                               *)

\* sup_idx = rand() % sup_num
Draw(c, s) ==
    /\ pc[c] = "draw"
    /\ sup_idx' = [sup_idx EXCEPT ![c] = s]
    /\ Goto(c, "lock")
    /\ UNCHANGED <<segment, kernel, seen, failed, parent, interrupts>>

Smaller(a, b) == IF a < b THEN a ELSE b

\* Load the stock.  One load stands for those of the printf, the test, take and the
\* -=, as in PosixConsumerSupplier.  An empty supplier is given back.
ReadStock(c) ==
    /\ pc[c] = "read"
    /\ seen' = [seen EXCEPT ![c] = stock[sup_idx[c]]]
    /\ Goto(c, IF stock[sup_idx[c]] <= 0 THEN "unlock" ELSE "take")
    /\ UNCHANGED <<segment, kernel, sup_idx, failed, parent, interrupts>>

\* take = min(dem_unit, sup_unit); consumer->dem_unit -= take
TakeDemand(c) ==
    /\ pc[c] = "take"
    /\ LET take == Smaller(dem[c], seen[c])
       IN  /\ dem' = [dem EXCEPT ![c] = @ - take]
           /\ seen' = [seen EXCEPT ![c] = @ - take]
    /\ Goto(c, "store")
    /\ UNCHANGED <<stock, jobs, kernel, sup_idx, failed, parent, interrupts>>

\* supplier->sup_unit -= take
StoreStock(c) ==
    /\ pc[c] = "store"
    /\ stock' = [stock EXCEPT ![sup_idx[c]] = seen[c]]
    /\ seen' = [seen EXCEPT ![c] = 0]
    /\ Goto(c, "unlock")
    /\ UNCHANGED <<dem, jobs, kernel, sup_idx, failed, parent, interrupts>>

\* The load of (*jobs)--
ReadJobs(c) ==
    /\ pc[c] = "jobs_read"
    /\ seen' = [seen EXCEPT ![c] = jobs]
    /\ Goto(c, "jobs_write")
    /\ UNCHANGED <<segment, kernel, sup_idx, failed, parent, interrupts>>

\* The store of (*jobs)--
WriteJobs(c) ==
    /\ pc[c] = "jobs_write"
    /\ jobs' = seen[c] - 1
    /\ seen' = [seen EXCEPT ![c] = 0]
    /\ Goto(c, "jobs_unlock")
    /\ UNCHANGED <<dem, stock, kernel, sup_idx, failed, parent, interrupts>>

-------------------------------------------------------------------------------
(* supply()                                                                *)

\* The load of supplier->sup_unit += restock_amount
ReadOwnStock(s) ==
    /\ pc[s] = "read"
    /\ seen' = [seen EXCEPT ![s] = stock[s]]
    /\ Goto(s, "restock")
    /\ UNCHANGED <<segment, kernel, sup_idx, failed, parent, interrupts>>

\* The store of supplier->sup_unit += restock_amount; nothing bounds it in the code.
Restock(s) ==
    /\ pc[s] = "restock"
    /\ stock' = [stock EXCEPT ![s] = IF seen[s] > StockBound THEN seen[s] ELSE seen[s] + Supply]
    /\ seen' = [seen EXCEPT ![s] = 0]
    /\ Goto(s, "unlock")
    /\ UNCHANGED <<dem, jobs, kernel, sup_idx, failed, parent, interrupts>>

\* Mutant: a supplier leaves while one consumer is left.
CheckJobsOffByOne(s) ==
    /\ pc[s] = "jobs_read"
    /\ Goto(s, IF jobs <= 1 THEN "jobs_unlock" ELSE "jobs_unlock_again")
    /\ UNCHANGED <<segment, kernel, sup_idx, seen, failed, parent, interrupts>>

\* if (*jobs <= 0) the supplier is out of customers.
CheckJobs(s) ==
    /\ pc[s] = "jobs_read"
    /\ Goto(s, IF jobs <= 0 THEN "jobs_unlock" ELSE "jobs_unlock_again")
    /\ UNCHANGED <<segment, kernel, sup_idx, seen, failed, parent, interrupts>>

\* shmdt, exit(status)
Exit(p) ==
    /\ pc[p] = "end"
    /\ Dies(p)
    /\ UNCHANGED <<segment, sup_idx, seen, failed, parent, interrupts>>

-------------------------------------------------------------------------------
(* consumer_supplier(): the parent                                         *)

\* fork() and the child's own shmat
Fork ==
    /\ ppc = "fork"
    /\ Goto(pidx, IF pidx \in Consumers THEN "draw" ELSE "lock")
    /\ ppc' = IF pidx = ProcNum - 1 THEN "reap" ELSE "fork"
    /\ pidx' = IF pidx = ProcNum - 1 THEN 0 ELSE pidx + 1
    /\ UNCHANGED <<segment, kernel, sup_idx, seen, failed, status, interrupts, forkFaults>>

\* fork() < 0: status = EXIT_FAILURE, goto end
ForkFails ==
    /\ ppc = "fork"
    /\ forkFaults < MaxForkFaults
    /\ forkFaults' = forkFaults + 1
    /\ status' = "failure"
    /\ ppc' = "reap" /\ pidx' = 0
    /\ UNCHANGED <<segment, kernel, pc, sup_idx, seen, failed, interrupts>>

\* kill(pid_list[i], SIGKILL) in the failure path
KillChild ==
    /\ ppc = "reap" /\ status = "failure"
    /\ pc[pidx] \notin {"none", "gone"}
    /\ Dies(pidx)
    /\ UNCHANGED <<segment, sup_idx, seen, failed, parent, interrupts>>

\* waitpid(pid_list[i]) returns, or there is no child in this slot
ReapChild ==
    /\ ppc = "reap"
    /\ pc[pidx] \in {"none", "gone"}
    /\ ppc' = IF pidx = ProcNum - 1 THEN "release" ELSE "reap"
    /\ pidx' = IF pidx = ProcNum - 1 THEN 0 ELSE pidx + 1
    /\ UNCHANGED <<segment, kernel, pc, sup_idx, seen, failed, status, interrupts, forkFaults>>

\* Announce, shmdt, remove the segment and the semaphore sets, return.
Release ==
    /\ ppc = "release"
    /\ ppc' = "done"
    /\ UNCHANGED <<segment, kernel, pc, sup_idx, seen, failed, pidx, status, interrupts, forkFaults>>

Done == ppc = "done" /\ UNCHANGED vars

-------------------------------------------------------------------------------
Consumer(c) == \/ \E s \in Suppliers : Draw(c, s)
               \/ SemopLock(c) \/ ReadStock(c) \/ TakeDemand(c) \/ StoreStock(c)
               \/ SemopUnlock(c) \/ ReadJobs(c) \/ WriteJobs(c) \/ Exit(c)

Supplier(s) == \/ SemopLock(s) \/ ReadOwnStock(s) \/ Restock(s) \/ SemopUnlock(s) \/ CheckJobs(s)
               \/ Exit(s)

Parent == Fork \/ ForkFails \/ KillChild \/ ReapChild \/ Release

Next == \/ \E c \in Consumers : Consumer(c)
        \/ \E s \in Suppliers : Supplier(s)
        \/ \E p \in Procs : SemopInterrupted(p)
        \/ Parent
        \/ Done

Spec == Init /\ [][Next]_vars

\* A process that can run runs, and one that waits for a semaphore which keeps
\* becoming free gets it: everybody sleeps a second or more between two rounds.
FairSpec == /\ Spec
            /\ WF_vars(Parent)
            /\ \A c \in Consumers : WF_vars(Consumer(c)) /\ SF_vars(SemopLock(c))
            /\ \A s \in Suppliers : WF_vars(Supplier(s)) /\ SF_vars(SemopLock(s))

-------------------------------------------------------------------------------
Labels == {"none", "draw", "lock", "read", "take", "store", "restock", "unlock", "jobs_lock",
           "jobs_read", "jobs_write", "jobs_unlock", "jobs_unlock_again", "end", "gone"}

\* Every variable has its type.
TypeOK ==
    /\ dem \in [Consumers -> Nat] /\ stock \in [Suppliers -> Nat] /\ jobs \in Nat
    /\ semval \in [Sems -> {0, 1}]
    /\ semadj \in [Procs -> Sems \cup {None}]
    /\ pc \in [Procs -> Labels]
    /\ sup_idx \in [Consumers -> Suppliers]
    /\ seen \in [Procs -> Nat]
    /\ failed \in SUBSET Procs
    /\ ppc \in {"fork", "reap", "release", "done"}
    /\ pidx \in Procs
    /\ status \in {"success", "failure"}
    /\ interrupts \in 0..MaxInterrupts /\ forkFaults \in 0..MaxForkFaults

\* Between its lock and its unlock.
InSection(p) == pc[p] \in {"read", "take", "store", "restock", "unlock", "jobs_read",
                          "jobs_write", "jobs_unlock", "jobs_unlock_again"}

\* "A consumer must release its taken semaphore on satisfaction or critical
\* error": a semaphore that is taken has exactly one holder, alive and inside
\* its critical section, also after interrupts and SIGKILL (SEM_UNDO).
TakenSemaphoreHasLiveHolder ==
    \A x \in Sems : semval[x] = 0 =>
        \E p \in Procs : /\ InSection(p) /\ Sem(p) = x
                         /\ \A q \in Procs : InSection(q) /\ Sem(q) = x => q = p

\* A supplier that returns EXIT_SUCCESS leaves no consumer unserved, whatever
\* semop was interrupted.
SupplierLeavesLast ==
    \A s \in Suppliers :
        pc[s] = "end" /\ s \notin failed => \A c \in Consumers : dem[c] = 0

\* The parent returns: every consumer is served and every supplier notices, or
\* fork() has failed and everybody is killed, even inside a critical section.
\* Only an interrupted semop can keep the program from ending.
Termination == <>(ppc = "done" \/ interrupts > 0)

\* "Every consumer has been satisfied" is printed unless the parent's own status
\* is EXIT_FAILURE; the children's statuses are not looked at.
AnnouncementIsTrue ==
    ppc \in {"release", "done"} /\ status = "success" => \A c \in Consumers : dem[c] = 0

\* What is left of it: an unserved consumer at the announcement has failed, and
\* every supplier with it.  One supplier that is not interrupted keeps the parent
\* waiting until all are served, for a consumer that leaves with a failure leaves
\* *jobs above zero.
UnservedOnlyIfSuppliersFail ==
    ppc \in {"release", "done"} /\ status = "success"
        => \A c \in Consumers : dem[c] > 0 => c \in failed /\ Suppliers \subseteq failed

-------------------------------------------------------------------------------
(* Implementation of the abstract Market                                   *)

\* The consumers that have stored their demand and not yet the stock of s.
Storing(s) == {c \in Consumers : pc[c] = "store" /\ sup_idx[c] = s}

\* The market's stock: goods that are being stored have already left it.
MarketStock == [s \in Suppliers |-> IF Storing(s) = {} THEN stock[s]
                                    ELSE seen[CHOOSE c \in Storing(s) : TRUE]]

\* The suppliers that have left in good order.
Closed == {s \in Suppliers : pc[s] \in {"end", "gone"} /\ s \notin failed}

M == INSTANCE Market WITH stock <- MarketStock, closed <- Closed

\* The processes with their semaphore sets implement the atomic market of
\* Market: no purchase and no delivery is lost or seen half done, and no
\* supplier closes on an unserved consumer, also when semop calls are
\* interrupted, until a failed fork() makes the parent kill its children in
\* the middle of a trade and throw the segment away.
ImplementsMarket == M!Init /\ [][M!Next \/ status = "failure"]_(M!vars)
===============================================================================
