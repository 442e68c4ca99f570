------------------------- MODULE PosixConsumerSupplier -------------------------
(***************************************************************************)
(* LAB_16/task_posix_semaphores_2/src/consumer_supplier.c.                 *)
(*                                                                         *)
(* A parent forks ConsNum consumers and SupNum suppliers.  They share one  *)
(* memory segment (the demands, the stocks and the number of unserved      *)
(* consumers), one POSIX semaphore per supplier that guards its stock, and *)
(* one semaphore that guards the counter.  Processes are numbered by their *)
(* index in the parent's pid_list: consumers first, then suppliers.        *)
(*                                                                         *)
(* Every access to shared memory is a read step followed by a write step,  *)
(* so an update that is lost because two processes are inside one critical *)
(* section would be seen.                                                  *)
(***************************************************************************)
EXTENDS Naturals, FiniteSets

CONSTANTS ConsNum,      \* -c: number of consumers
          SupNum,       \* -s: number of suppliers
          Demand,       \* -D: demand_unit
          Supply,       \* -S: supply_unit, also the restock amount
          StockBound,   \* bound: a supplier waits while its stock exceeds this
                        \*   and consumers remain (its sleep(1) in the code)
          MaxSemFaults, \* bound: how many sem_wait/sem_post calls fail
          MaxForkFaults \* bound: how many fork() calls fail

\* The options of the program are rejected unless they are positive.
ASSUME ConstantsAssumption ==
    /\ ConsNum \in Nat \ {0} /\ SupNum \in Nat \ {0}
    /\ Demand \in Nat \ {0}  /\ Supply \in Nat \ {0}
    /\ StockBound \in Nat /\ MaxSemFaults \in Nat /\ MaxForkFaults \in Nat

VARIABLES dem,        \* consumer[i].dem_unit
          stock,      \* supplier[i].sup_unit
          jobs,       \* *jobs: consumers not served yet
          smphr,      \* value of each supplier's semaphore
          jobs_smphr, \* value of the counter's semaphore
          pc,         \* what each child does next
          sup_idx,    \* the supplier each consumer has picked
          seen,       \* what each child read in its critical section
          ecode,      \* exit status of each child
          ppc,        \* what the parent does next
          pidx,       \* the parent's loop index over pid_list
          status,     \* the parent's own status
          semFaults, forkFaults  \* calls that have failed so far

shared == <<dem, stock, jobs>>
sems   == <<smphr, jobs_smphr>>
parent == <<ppc, pidx, status, forkFaults>>
vars   == <<dem, stock, jobs, smphr, jobs_smphr, pc, sup_idx, seen, ecode,
            ppc, pidx, status, semFaults, forkFaults>>

ProcNum   == ConsNum + SupNum
Consumers == 0 .. (ConsNum - 1)
Suppliers == ConsNum .. (ProcNum - 1)
Procs     == 0 .. (ProcNum - 1)

EXIT_SUCCESS == 0
EXIT_FAILURE == 1

\* The segment, the semaphores and the empty pid_list.
Init == /\ dem = [c \in Consumers |-> Demand]
        /\ stock = [s \in Suppliers |-> Supply]
        /\ jobs = ConsNum
        /\ smphr = [s \in Suppliers |-> 1]
        /\ jobs_smphr = 1
        /\ pc = [p \in Procs |-> "none"]
        /\ sup_idx = [c \in Consumers |-> ConsNum]
        /\ seen = [p \in Procs |-> 0]
        /\ ecode = [p \in Procs |-> EXIT_SUCCESS]
        /\ ppc = "fork" /\ pidx = 0 /\ status = EXIT_SUCCESS
        /\ semFaults = 0 /\ forkFaults = 0

Goto(p, label) == pc' = [pc EXCEPT ![p] = label]

-------------------------------------------------------------------------------
(* consume()                                                               *)

\* sup_idx = rand() % sup_num
Pick(c, s) ==
    /\ pc[c] = "pick"
    /\ sup_idx' = [sup_idx EXCEPT ![c] = s]
    /\ Goto(c, "lock")
    /\ UNCHANGED <<shared, sems, seen, ecode, parent, semFaults>>

\* Mutant: the lock is taken without waiting for the semaphore.
LockStockNoWait(c) ==
    /\ pc[c] = "lock"
    /\ smphr' = [smphr EXCEPT ![sup_idx[c]] = 0]
    /\ Goto(c, "read")
    /\ UNCHANGED <<shared, jobs_smphr, sup_idx, seen, ecode, parent, semFaults>>

\* sem_wait(smphr[sup_idx])
LockStock(c) ==
    /\ pc[c] = "lock"
    /\ smphr[sup_idx[c]] > 0
    /\ smphr' = [smphr EXCEPT ![sup_idx[c]] = @ - 1]
    /\ Goto(c, "read")
    /\ UNCHANGED <<shared, jobs_smphr, sup_idx, seen, ecode, parent, semFaults>>

\* Load the stock; an empty supplier is given back at once.
ReadStock(c) ==
    /\ pc[c] = "read"
    /\ seen' = [seen EXCEPT ![c] = stock[sup_idx[c]]]
    /\ Goto(c, IF stock[sup_idx[c]] = 0 THEN "unlock" ELSE "take")
    /\ UNCHANGED <<shared, sems, sup_idx, ecode, parent, semFaults>>

Smaller(a, b) == IF a < b THEN a ELSE b

\* take = min(demand, stock); consumer->dem_unit -= take
TakeDemand(c) ==
    /\ pc[c] = "take"
    /\ LET take == Smaller(dem[c], seen[c])
       IN /\ dem' = [dem EXCEPT ![c] = @ - take]
          /\ seen' = [seen EXCEPT ![c] = @ - take]
    /\ Goto(c, "store")
    /\ UNCHANGED <<stock, jobs, sems, sup_idx, ecode, parent, semFaults>>

\* supplier->sup_unit -= take; see whether the demand is met
StoreStock(c) ==
    /\ pc[c] = "store"
    /\ stock' = [stock EXCEPT ![sup_idx[c]] = seen[c]]
    /\ Goto(c, IF dem[c] = 0 THEN "unlock_last" ELSE "unlock")
    /\ UNCHANGED <<dem, jobs, sems, sup_idx, seen, ecode, parent, semFaults>>

\* Mutant: the semaphore of an emptied supplier is not given back.
UnlockStockForgotten(c) ==
    /\ pc[c] \in {"unlock", "unlock_last"}
    /\ smphr' = [smphr EXCEPT ![sup_idx[c]] = IF stock[sup_idx[c]] = 0 THEN @ ELSE @ + 1]
    /\ Goto(c, IF pc[c] = "unlock_last" THEN "jobs_lock" ELSE "pick")
    /\ UNCHANGED <<shared, jobs_smphr, sup_idx, seen, ecode, parent, semFaults>>

\* sem_post(smphr[sup_idx]); a served consumer goes on to the counter.
UnlockStock(c) ==
    /\ pc[c] \in {"unlock", "unlock_last"}
    /\ smphr' = [smphr EXCEPT ![sup_idx[c]] = @ + 1]
    /\ Goto(c, IF pc[c] = "unlock_last" THEN "jobs_lock" ELSE "pick")
    /\ UNCHANGED <<shared, jobs_smphr, sup_idx, seen, ecode, parent, semFaults>>

\* Mutant: the counter is decremented without its semaphore.
LockJobsNoWait(p) ==
    /\ pc[p] = "jobs_lock"
    /\ jobs_smphr' = 0
    /\ Goto(p, "jobs_read")
    /\ UNCHANGED <<shared, smphr, sup_idx, seen, ecode, parent, semFaults>>

\* sem_wait(jobs_smphr), by a served consumer or by a supplier
LockJobs(p) ==
    /\ pc[p] = "jobs_lock"
    /\ jobs_smphr > 0
    /\ jobs_smphr' = jobs_smphr - 1
    /\ Goto(p, "jobs_read")
    /\ UNCHANGED <<shared, smphr, sup_idx, seen, ecode, parent, semFaults>>

ReadJobs(c) ==
    /\ pc[c] = "jobs_read"
    /\ seen' = [seen EXCEPT ![c] = jobs]
    /\ Goto(c, "jobs_write")
    /\ UNCHANGED <<shared, sems, sup_idx, ecode, parent, semFaults>>

\* (*jobs)--
WriteJobs(c) ==
    /\ pc[c] = "jobs_write"
    /\ jobs' = seen[c] - 1
    /\ Goto(c, "jobs_unlock")
    /\ UNCHANGED <<dem, stock, sems, sup_idx, seen, ecode, parent, semFaults>>

\* Mutant: a served consumer posts the counter's semaphore twice.
UnlockJobsTwice(c) ==
    /\ pc[c] = "jobs_unlock"
    /\ jobs_smphr' = jobs_smphr + 2
    /\ Goto(c, "end")
    /\ UNCHANGED <<shared, smphr, sup_idx, seen, ecode, parent, semFaults>>

\* sem_post(jobs_smphr); break
UnlockJobs(c) ==
    /\ pc[c] = "jobs_unlock"
    /\ jobs_smphr' = jobs_smphr + 1
    /\ Goto(c, "end")
    /\ UNCHANGED <<shared, smphr, sup_idx, seen, ecode, parent, semFaults>>

-------------------------------------------------------------------------------
(* supply()                                                                *)

\* sem_wait(smphr) at the head of the supplier's loop
LockOwnStock(s) ==
    /\ pc[s] = "lock"
    /\ stock[s] <= StockBound \/ jobs = 0
    /\ smphr[s] > 0
    /\ smphr' = [smphr EXCEPT ![s] = @ - 1]
    /\ Goto(s, "read")
    /\ UNCHANGED <<shared, jobs_smphr, sup_idx, seen, ecode, parent, semFaults>>

ReadOwnStock(s) ==
    /\ pc[s] = "read"
    /\ seen' = [seen EXCEPT ![s] = stock[s]]
    /\ Goto(s, "restock")
    /\ UNCHANGED <<shared, sems, sup_idx, ecode, parent, semFaults>>

\* supplier->sup_unit += restock_amount
Restock(s) ==
    /\ pc[s] = "restock"
    /\ stock' = [stock EXCEPT ![s] = seen[s] + Supply]
    /\ Goto(s, "unlock")
    /\ UNCHANGED <<dem, jobs, sems, sup_idx, seen, ecode, parent, semFaults>>

\* sem_post(smphr)
UnlockOwnStock(s) ==
    /\ pc[s] = "unlock"
    /\ smphr' = [smphr EXCEPT ![s] = @ + 1]
    /\ Goto(s, "jobs_lock")
    /\ UNCHANGED <<shared, jobs_smphr, sup_idx, seen, ecode, parent, semFaults>>

\* Mutant: off by one, a supplier leaves while one consumer is unserved.
CheckJobsOffByOne(s) ==
    /\ pc[s] = "jobs_read"
    /\ Goto(s, IF jobs <= 1 THEN "jobs_unlock" ELSE "jobs_unlock_again")
    /\ UNCHANGED <<shared, sems, sup_idx, seen, ecode, parent, semFaults>>

\* if (*jobs <= 0) the supplier is out of customers
CheckJobs(s) ==
    /\ pc[s] = "jobs_read"
    /\ Goto(s, IF jobs = 0 THEN "jobs_unlock" ELSE "jobs_unlock_again")
    /\ UNCHANGED <<shared, sems, sup_idx, seen, ecode, parent, semFaults>>

\* sem_post(jobs_smphr), then leave or loop
UnlockJobsSupplier(s) ==
    /\ pc[s] \in {"jobs_unlock", "jobs_unlock_again"}
    /\ jobs_smphr' = jobs_smphr + 1
    /\ Goto(s, IF pc[s] = "jobs_unlock" THEN "end" ELSE "lock")
    /\ UNCHANGED <<shared, smphr, sup_idx, seen, ecode, parent, semFaults>>

-------------------------------------------------------------------------------
(* Common to both kinds of children                                        *)

SemCalls == {"lock", "unlock", "unlock_last", "jobs_lock", "jobs_unlock",
             "jobs_unlock_again"}

\* sem_wait or sem_post returns -1: status = EXIT_FAILURE, goto end.  The
\* semaphore keeps its value, so one that was held stays taken.
SemFails(p) ==
    /\ pc[p] \in SemCalls
    /\ semFaults < MaxSemFaults
    /\ semFaults' = semFaults + 1
    /\ ecode' = [ecode EXCEPT ![p] = EXIT_FAILURE]
    /\ Goto(p, "end")
    /\ UNCHANGED <<shared, sems, sup_idx, seen, parent>>

\* munmap, sem_close, exit(status)
Exit(p) ==
    /\ pc[p] = "end"
    /\ Goto(p, "exited")
    /\ UNCHANGED <<shared, sems, sup_idx, seen, ecode, parent, semFaults>>

-------------------------------------------------------------------------------
(* consumer_supplier(): the parent                                         *)

\* pid_list[pidx] = fork(), for the consumers and then for the suppliers
Fork ==
    /\ ppc = "fork"
    /\ Goto(pidx, IF pidx \in Consumers THEN "pick" ELSE "lock")
    /\ IF pidx = ProcNum - 1
         THEN ppc' = "reap" /\ pidx' = 0
         ELSE pidx' = pidx + 1 /\ UNCHANGED ppc
    /\ UNCHANGED <<shared, sems, sup_idx, seen, ecode, status, semFaults, forkFaults>>

\* fork() < 0: status = EXIT_FAILURE, goto end
ForkFails ==
    /\ ppc = "fork"
    /\ forkFaults < MaxForkFaults
    /\ forkFaults' = forkFaults + 1
    /\ status' = EXIT_FAILURE
    /\ ppc' = "reap" /\ pidx' = 0
    /\ UNCHANGED <<shared, sems, pc, sup_idx, seen, ecode, semFaults>>

Gone(p) == pc[p] \in {"exited", "killed"}

NextPid == IF pidx = ProcNum - 1
             THEN ppc' = "release" /\ pidx' = 0
             ELSE pidx' = pidx + 1 /\ UNCHANGED ppc

\* kill(pid_list[i], SIGKILL) in the failure path
KillChild ==
    /\ ppc = "reap" /\ status = EXIT_FAILURE
    /\ pc[pidx] # "none" /\ ~Gone(pidx)
    /\ Goto(pidx, "killed")
    /\ UNCHANGED <<shared, sems, sup_idx, seen, ecode, parent, semFaults>>

\* Mutant: the parent does not wait for the child to be gone.
ReapChildNoHang ==
    /\ ppc = "reap"
    /\ NextPid
    /\ UNCHANGED <<shared, sems, pc, sup_idx, seen, ecode, status, semFaults, forkFaults>>

\* waitpid(pid_list[i]) returns, or there is no child in this slot
ReapChild ==
    /\ ppc = "reap"
    /\ pc[pidx] = "none" \/ Gone(pidx)
    /\ NextPid
    /\ UNCHANGED <<shared, sems, pc, sup_idx, seen, ecode, status, semFaults, forkFaults>>

\* Announce, unmap the segment, unlink and close the semaphores, return.
Release ==
    /\ ppc = "release"
    /\ ppc' = "done"
    /\ UNCHANGED <<shared, sems, pc, sup_idx, seen, ecode, pidx, status, semFaults, forkFaults>>

Done == ppc = "done" /\ UNCHANGED vars

-------------------------------------------------------------------------------
Consumer(c) == \/ \E s \in Suppliers : Pick(c, s)
               \/ LockStock(c) \/ ReadStock(c) \/ TakeDemand(c) \/ StoreStock(c)
               \/ UnlockStock(c)
               \/ LockJobs(c) \/ ReadJobs(c) \/ WriteJobs(c) \/ UnlockJobs(c)
               \/ Exit(c)

Supplier(s) == \/ LockOwnStock(s) \/ ReadOwnStock(s) \/ Restock(s) \/ UnlockOwnStock(s)
               \/ LockJobs(s) \/ CheckJobs(s) \/ UnlockJobsSupplier(s)
               \/ Exit(s)

Parent == Fork \/ ForkFails \/ KillChild \/ ReapChild \/ Release

Next == \/ \E c \in Consumers : Consumer(c)
        \/ \E s \in Suppliers : Supplier(s)
        \/ \E p \in Procs : SemFails(p)
        \/ Parent
        \/ Done

Spec == Init /\ [][Next]_vars

\* Fairness: a child that can run does run.  A process that waits on a
\* semaphore gets it in the end although others come back for it: every one of
\* them sleeps for a second or more with the semaphore released.
Fairness ==
    /\ WF_vars(Parent)
    /\ \A c \in Consumers : WF_vars(Consumer(c)) /\ SF_vars(LockStock(c) \/ LockJobs(c))
    /\ \A s \in Suppliers : WF_vars(Supplier(s)) /\ SF_vars(LockOwnStock(s) \/ LockJobs(s))

FairSpec == Spec /\ Fairness

-------------------------------------------------------------------------------
Labels == {"none", "pick", "lock", "read", "take", "store", "restock", "unlock",
           "unlock_last", "jobs_lock", "jobs_read", "jobs_write",
           "jobs_unlock", "jobs_unlock_again", "end", "exited", "killed"}

\* The shape of the state: the segment of consumer_supplier(), the
\* semaphores, the children's locals and the parent's pid_list loop.
TypeOK ==
    /\ dem \in [Consumers -> Nat]
    /\ stock \in [Suppliers -> Nat]
    /\ jobs \in Nat
    /\ smphr \in [Suppliers -> {0, 1}]
    /\ jobs_smphr \in {0, 1}
    /\ pc \in [Procs -> Labels]
    /\ sup_idx \in [Consumers -> Suppliers]
    /\ seen \in [Procs -> Nat]
    /\ ecode \in [Procs -> {EXIT_SUCCESS, EXIT_FAILURE}]
    /\ ppc \in {"fork", "reap", "release", "done"}
    /\ pidx \in Procs
    /\ status \in {EXIT_SUCCESS, EXIT_FAILURE}
    /\ semFaults \in 0 .. MaxSemFaults
    /\ forkFaults \in 0 .. MaxForkFaults

\* p is between sem_wait and sem_post on the semaphore of supplier s.
HoldsStock(p, s) ==
    \/ /\ p \in Consumers /\ sup_idx[p] = s
       /\ pc[p] \in {"read", "take", "store", "unlock", "unlock_last"}
    \/ p = s /\ pc[p] \in {"read", "restock", "unlock"}

\* p is between sem_wait and sem_post on jobs_smphr.
HoldsJobs(p) == pc[p] \in {"jobs_read", "jobs_write", "jobs_unlock", "jobs_unlock_again"}

\* A semaphore of consume()/supply() that is held is taken, and it has one
\* holder.  (One whose holder failed or was killed may stay taken for ever.)
OneHolder ==
    /\ \A s \in Suppliers, p \in Procs :
          HoldsStock(p, s) => /\ smphr[s] = 0
                              /\ \A q \in Procs : HoldsStock(q, s) => q = p
    /\ \A p \in Procs :
          HoldsJobs(p) => /\ jobs_smphr = 0
                          /\ \A q \in Procs : HoldsJobs(q) => q = p

\* The consumers that cannot have decremented *jobs yet.
Pending == {c \in Consumers : dem[c] > 0 \/ pc[c] \notin {"jobs_unlock", "end", "exited", "killed"}}

\* *jobs never runs ahead of the consumers: it counts at least those that are
\* still to decrement it, also when others have failed or were killed.
JobsCoversPending == Cardinality(Pending) <= jobs

\* supply() leaves its loop only when *jobs has reached zero.  A supplier that
\* has returned EXIT_SUCCESS therefore left no consumer unserved, whatever
\* calls have failed and whoever has been killed.
SupplierLeavesLast ==
    \A s \in Suppliers :
        pc[s] \in {"end", "exited"} /\ ecode[s] = EXIT_SUCCESS
            => \A c \in Consumers : dem[c] = 0

\* The deallocation section unmaps the segment and destroys the semaphores
\* only when no child is left that could still use them, even when fork()
\* has failed half way through.
ReleaseAfterChildren ==
    ppc \in {"release", "done"} => \A p \in Procs : pc[p] = "none" \/ Gone(p)

\* The program ends, with all consumers served or, after a failed fork(), with
\* all children killed, even if one of them was killed holding a semaphore; only
\* a failed semaphore call can keep the others waiting.
Termination == <>(ppc = "done" \/ semFaults > 0)

-------------------------------------------------------------------------------
(* Implementation of the abstract Market                                   *)

\* What the abstract market calls stock: the goods of a consumer that has
\* stored its demand and not yet the stock are already gone.
MarketStock ==
    [s \in Suppliers |->
        IF \E c \in Consumers : pc[c] = "store" /\ sup_idx[c] = s
          THEN seen[CHOOSE c \in Consumers : pc[c] = "store" /\ sup_idx[c] = s]
          ELSE stock[s]]

\* The suppliers that have left in good order.
Closed == {s \in Suppliers : pc[s] = "exited" /\ ecode[s] = EXIT_SUCCESS}

M == INSTANCE Market WITH stock <- MarketStock, closed <- Closed

\* The processes with their semaphores implement the atomic market: no
\* purchase or delivery is lost, doubled or seen half done, and no supplier
\* closes on an unserved consumer, also when semaphore calls fail.  (After a
\* failed fork() the children are killed in the middle of a trade and the
\* segment is thrown away.)
ImplementsMarket == M!Init /\ [][M!Next \/ status = EXIT_FAILURE]_(M!vars)
===============================================================================
