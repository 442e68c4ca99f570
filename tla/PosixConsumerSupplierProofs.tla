---------------------- MODULE PosixConsumerSupplierProofs ----------------------
(* Theorems about PosixConsumerSupplier, for every number of processes, every *)
(* demand and supply and every number of failed calls.                        *)
EXTENDS PosixConsumerSupplier, FiniteSetTheorems, TLAPS

\* A consumer that has left its purchases behind has its demand met.
DemandMet ==
    \A c \in Consumers :
        pc[c] \in {"unlock_last", "jobs_lock", "jobs_read", "jobs_write", "jobs_unlock"}
            => dem[c] = 0

\* Nobody changes *jobs between a consumer's read and its write.
SeenJobs == \A c \in Consumers : pc[c] = "jobs_write" => seen[c] = jobs

\* A supplier that has decided to leave has seen every demand met.
LeavingSuppliers ==
    \A s \in Suppliers :
        \/ pc[s] = "jobs_unlock"
        \/ pc[s] \in {"end", "exited"} /\ ecode[s] = EXIT_SUCCESS
        => \A c \in Consumers : dem[c] = 0

\* While the parent forks, the slots from pidx on have no child.
UnforkedSlots == ppc = "fork" => \A p \in Procs : pidx <= p => pc[p] = "none"

\* While the parent reaps, the slots below pidx have no child any more.
ReapedSlots == ppc = "reap" => \A p \in Procs : p < pidx => pc[p] = "none" \/ Gone(p)

\* A consumer that is not past its last purchase still wants something.
StillBuying ==
    \A c \in Consumers :
        pc[c] \in {"none", "pick", "lock", "read", "take", "unlock"} => dem[c] > 0

\* Nobody changes a stock between its read and its write by the holder of the
\* semaphore, and a consumer takes from a stock that is not empty.
SeenStock ==
    /\ \A c \in Consumers : pc[c] = "take" => seen[c] > 0 /\ seen[c] = stock[sup_idx[c]]
    /\ \A s \in Suppliers : pc[s] = "restock" => seen[s] = stock[s]

\* The inductive invariant.
IInv == /\ TypeOK /\ OneHolder /\ UnforkedSlots /\ ReapedSlots /\ ReleaseAfterChildren
        /\ DemandMet /\ SeenJobs /\ JobsCoversPending /\ LeavingSuppliers
        /\ StillBuying /\ SeenStock

-------------------------------------------------------------------------------
\* The process numbers: consumers and suppliers are disjoint, and both are
\* indices of pid_list.
LEMMA Pids ==
    /\ \A c \in Consumers : c \in Procs /\ c \notin Suppliers
    /\ \A s \in Suppliers : s \in Procs /\ s \notin Consumers
    /\ \A p \in Procs : p \in Consumers \/ p \in Suppliers
    /\ ConsNum \in Suppliers
    /\ 0 \in Procs
    /\ \A p \in Procs : p # ProcNum - 1 => p + 1 \in Procs
BY ConstantsAssumption DEF Consumers, Suppliers, Procs, ProcNum

\* There are finitely many consumers, ConsNum of them.
LEMMA ConsumersFinite == IsFiniteSet(Consumers) /\ Cardinality(Consumers) = ConsNum
<1>1. 0 \in Int /\ ConsNum - 1 \in Int /\ ConsNum \in Nat \ {0}
  BY ConstantsAssumption
<1>2. QED
  BY <1>1, FS_Interval DEF Consumers

\* The pending consumers form a finite set with a natural cardinality.
LEMMA PendingFinite == IsFiniteSet(Pending) /\ Cardinality(Pending) \in Nat
<1>1. Pending \subseteq Consumers
  BY DEF Pending
<1>2. QED
  BY <1>1, ConsumersFinite, FS_Subset, FS_CardinalityType

\* If no consumer becomes pending, the counter still covers the pending ones.
LEMMA PendingShrinks ==
    ASSUME JobsCoversPending, jobs \in Nat, Pending' \subseteq Pending, jobs' = jobs
    PROVE  JobsCoversPending'
<1>1. Cardinality(Pending') \in Nat /\ Cardinality(Pending') <= Cardinality(Pending)
  BY PendingFinite, FS_Subset, FS_CardinalityType
<1>2. QED
  BY <1>1, PendingFinite DEF JobsCoversPending

-------------------------------------------------------------------------------
\* The initial segment, semaphores and pid_list satisfy the invariant.
LEMMA InitInv == Init => IInv
<1> SUFFICES ASSUME Init PROVE IInv
  OBVIOUS
<1> USE ConstantsAssumption, Pids DEF Init, EXIT_SUCCESS, EXIT_FAILURE
<1>1. TypeOK
  BY DEF TypeOK, Labels
<1>2. OneHolder /\ UnforkedSlots /\ DemandMet /\ SeenJobs /\ LeavingSuppliers
  BY DEF OneHolder, UnforkedSlots, HoldsStock, HoldsJobs, DemandMet, SeenJobs, LeavingSuppliers
<1>5. ReapedSlots /\ ReleaseAfterChildren /\ StillBuying /\ SeenStock
  BY DEF ReapedSlots, ReleaseAfterChildren, StillBuying, SeenStock
<1>3. JobsCoversPending
  <2>1. Pending \subseteq Consumers
    BY DEF Pending
  <2>2. Cardinality(Pending) <= ConsNum
    BY <2>1, ConsumersFinite, FS_Subset
  <2>3. QED
    BY <2>2 DEF JobsCoversPending
<1>4. QED
  BY <1>1, <1>2, <1>3, <1>5 DEF IInv

\* A step keeps the counter positive for a consumer that is about to decrement
\* it: that consumer is still pending.
LEMMA JobsPositive ==
    ASSUME IInv, NEW c \in Consumers, pc[c] = "jobs_write"
    PROVE  /\ seen[c] = jobs /\ jobs \in Nat \ {0}
           /\ Cardinality(Pending \ {c}) = Cardinality(Pending) - 1
<1>1. c \in Pending
  BY DEF Pending
<1>2. Cardinality(Pending) \in Nat \ {0} /\ Cardinality(Pending \ {c}) = Cardinality(Pending) - 1
  BY <1>1, PendingFinite, FS_EmptySet, FS_RemoveElement
<1>3. QED
  BY <1>2 DEF IInv, TypeOK, SeenJobs, JobsCoversPending

\* A step keeps the types: a post finds its semaphore taken, a decrement a
\* positive counter.
LEMMA TypeStep == IInv /\ [Next]_vars => TypeOK'
<1> SUFFICES ASSUME IInv, [Next]_vars PROVE  TypeOK'
  OBVIOUS
<1> USE ConstantsAssumption, Pids DEF IInv, TypeOK, Goto, shared, sems, parent, vars, EXIT_SUCCESS, EXIT_FAILURE, Labels
<1>1. ASSUME NEW c \in Consumers, NEW s \in Suppliers, Pick(c, s) PROVE TypeOK'
  BY <1>1 DEF Pick
<1>2. ASSUME NEW c \in Consumers, LockStock(c) PROVE TypeOK'
  <2>0. sup_idx[c] \in Suppliers
    BY <1>2
  <2>1. smphr[sup_idx[c]] = 1
    <3>1. smphr[sup_idx[c]] \in {0, 1} /\ smphr[sup_idx[c]] > 0
      BY <1>2, <2>0 DEF LockStock
    <3>2. QED
      BY <3>1
  <2>2. smphr' \in [Suppliers -> {0, 1}]
    BY <1>2, <2>0, <2>1 DEF LockStock
  <2>3. QED
    BY <1>2, <2>2 DEF LockStock
<1>3. ASSUME NEW c \in Consumers, ReadStock(c) PROVE TypeOK'
  BY <1>3 DEF ReadStock
<1>4. ASSUME NEW c \in Consumers, TakeDemand(c) PROVE TypeOK'
  <2>1. dem[c] \in Nat /\ seen[c] \in Nat
    BY <1>4
  <2>2. dem[c] - Smaller(dem[c], seen[c]) \in Nat /\ seen[c] - Smaller(dem[c], seen[c]) \in Nat
    BY <2>1 DEF Smaller
  <2>3. dem' \in [Consumers -> Nat] /\ seen' \in [Procs -> Nat]
    BY <1>4, <2>2 DEF TakeDemand
  <2>4. QED
    BY <1>4, <2>3 DEF TakeDemand
<1>5. ASSUME NEW c \in Consumers, StoreStock(c) PROVE TypeOK'
  BY <1>5 DEF StoreStock
<1>6. ASSUME NEW c \in Consumers, UnlockStock(c) PROVE TypeOK'
  <2>1. sup_idx[c] \in Suppliers /\ smphr[sup_idx[c]] = 0
    BY <1>6 DEF UnlockStock, OneHolder, HoldsStock
  <2>2. smphr' \in [Suppliers -> {0, 1}]
    BY <1>6, <2>1 DEF UnlockStock
  <2>3. QED
    BY <1>6, <2>2 DEF UnlockStock
<1>7. ASSUME NEW c \in Consumers, ReadJobs(c) PROVE TypeOK'
  BY <1>7 DEF ReadJobs
<1>8. ASSUME NEW c \in Consumers, WriteJobs(c) PROVE TypeOK'
  <2>0. pc[c] = "jobs_write"
    BY <1>8 DEF WriteJobs
  <2>1. seen[c] = jobs /\ jobs \in Nat \ {0}
    BY <2>0, JobsPositive
  <2>2. QED
    BY <1>8, <2>1 DEF WriteJobs
<1>9. ASSUME NEW c \in Consumers, UnlockJobs(c) PROVE TypeOK'
  <2>1. jobs_smphr = 0
    BY <1>9 DEF UnlockJobs, OneHolder, HoldsJobs
  <2>2. QED
    BY <1>9, <2>1 DEF UnlockJobs
<1>10. ASSUME NEW s \in Suppliers, LockOwnStock(s) PROVE TypeOK'
  BY <1>10 DEF LockOwnStock
<1>11. ASSUME NEW s \in Suppliers, ReadOwnStock(s) PROVE TypeOK'
  BY <1>11 DEF ReadOwnStock
<1>12. ASSUME NEW s \in Suppliers, Restock(s) PROVE TypeOK'
  BY <1>12 DEF Restock
<1>13. ASSUME NEW s \in Suppliers, UnlockOwnStock(s) PROVE TypeOK'
  <2>1. smphr[s] = 0
    BY <1>13 DEF UnlockOwnStock, OneHolder, HoldsStock
  <2>2. smphr' \in [Suppliers -> {0, 1}]
    BY <1>13, <2>1 DEF UnlockOwnStock
  <2>3. QED
    BY <1>13, <2>2 DEF UnlockOwnStock
<1>14. ASSUME NEW s \in Suppliers, CheckJobs(s) PROVE TypeOK'
  BY <1>14 DEF CheckJobs
<1>15. ASSUME NEW s \in Suppliers, UnlockJobsSupplier(s) PROVE TypeOK'
  <2>1. jobs_smphr = 0
    BY <1>15 DEF UnlockJobsSupplier, OneHolder, HoldsJobs
  <2>2. QED
    BY <1>15, <2>1 DEF UnlockJobsSupplier
<1>16. ASSUME NEW p \in Procs, LockJobs(p) PROVE TypeOK'
  BY <1>16 DEF LockJobs
<1>17. ASSUME NEW p \in Procs, SemFails(p) PROVE TypeOK'
  BY <1>17 DEF SemFails, SemCalls
<1>18. ASSUME NEW p \in Procs, Exit(p) PROVE TypeOK'
  BY <1>18 DEF Exit
<1>19. CASE Fork
  BY <1>19 DEF Fork
<1>20. CASE ForkFails
  BY <1>20 DEF ForkFails
<1>21. CASE KillChild
  BY <1>21 DEF KillChild
<1>22. CASE ReapChild
  BY <1>22 DEF ReapChild, NextPid
<1>23. CASE Release
  BY <1>23 DEF Release
<1>24. CASE UNCHANGED vars
  BY <1>24 DEF vars
<1>25. QED
  BY <1>1, <1>2, <1>3, <1>4, <1>5, <1>6, <1>7, <1>8, <1>9, <1>10, <1>11, <1>12, <1>13, <1>14, <1>15, <1>16, <1>17, <1>18, <1>19, <1>20, <1>21, <1>22, <1>23, <1>24, Pids DEF Next, Consumer, Supplier, Parent, Done

\* A step keeps at most one holder of every semaphore.
LEMMA HolderStep == IInv /\ [Next]_vars => OneHolder'
<1> SUFFICES ASSUME IInv, [Next]_vars PROVE  OneHolder'
  OBVIOUS
<1> USE ConstantsAssumption, Pids DEF IInv, TypeOK, Goto, shared, sems, parent, vars, EXIT_SUCCESS, EXIT_FAILURE, OneHolder, HoldsStock, HoldsJobs
<1>1. ASSUME NEW c \in Consumers, NEW s \in Suppliers, Pick(c, s) PROVE OneHolder'
  BY <1>1 DEF Pick
<1>2. ASSUME NEW c \in Consumers, LockStock(c) PROVE OneHolder'
  BY <1>2 DEF LockStock
<1>3. ASSUME NEW c \in Consumers, ReadStock(c) PROVE OneHolder'
  BY <1>3 DEF ReadStock
<1>4. ASSUME NEW c \in Consumers, TakeDemand(c) PROVE OneHolder'
  BY <1>4 DEF TakeDemand
<1>5. ASSUME NEW c \in Consumers, StoreStock(c) PROVE OneHolder'
  BY <1>5 DEF StoreStock
<1>6. ASSUME NEW c \in Consumers, UnlockStock(c) PROVE OneHolder'
  BY <1>6 DEF UnlockStock
<1>7. ASSUME NEW c \in Consumers, ReadJobs(c) PROVE OneHolder'
  BY <1>7 DEF ReadJobs
<1>8. ASSUME NEW c \in Consumers, WriteJobs(c) PROVE OneHolder'
  BY <1>8 DEF WriteJobs
<1>9. ASSUME NEW c \in Consumers, UnlockJobs(c) PROVE OneHolder'
  BY <1>9 DEF UnlockJobs
<1>10. ASSUME NEW s \in Suppliers, LockOwnStock(s) PROVE OneHolder'
  BY <1>10 DEF LockOwnStock
<1>11. ASSUME NEW s \in Suppliers, ReadOwnStock(s) PROVE OneHolder'
  BY <1>11 DEF ReadOwnStock
<1>12. ASSUME NEW s \in Suppliers, Restock(s) PROVE OneHolder'
  BY <1>12 DEF Restock
<1>13. ASSUME NEW s \in Suppliers, UnlockOwnStock(s) PROVE OneHolder'
  BY <1>13 DEF UnlockOwnStock
<1>14. ASSUME NEW s \in Suppliers, CheckJobs(s) PROVE OneHolder'
  BY <1>14 DEF CheckJobs
<1>15. ASSUME NEW s \in Suppliers, UnlockJobsSupplier(s) PROVE OneHolder'
  BY <1>15 DEF UnlockJobsSupplier
<1>16. ASSUME NEW p \in Procs, LockJobs(p) PROVE OneHolder'
  BY <1>16 DEF LockJobs
<1>17. ASSUME NEW p \in Procs, SemFails(p) PROVE OneHolder'
  BY <1>17 DEF SemFails, SemCalls
<1>18. ASSUME NEW p \in Procs, Exit(p) PROVE OneHolder'
  BY <1>18 DEF Exit
<1>19. CASE Fork
  BY <1>19 DEF Fork
<1>20. CASE ForkFails
  BY <1>20 DEF ForkFails
<1>21. CASE KillChild
  BY <1>21 DEF KillChild
<1>22. CASE ReapChild
  BY <1>22 DEF ReapChild, NextPid
<1>23. CASE Release
  BY <1>23 DEF Release
<1>24. CASE UNCHANGED vars
  BY <1>24 DEF vars
<1>25. QED
  BY <1>1, <1>2, <1>3, <1>4, <1>5, <1>6, <1>7, <1>8, <1>9, <1>10, <1>11, <1>12, <1>13, <1>14, <1>15, <1>16, <1>17, <1>18, <1>19, <1>20, <1>21, <1>22, <1>23, <1>24, Pids DEF Next, Consumer, Supplier, Parent, Done

\* A step leaves the slots that are still to be forked empty.
LEMMA ForkStep == IInv /\ [Next]_vars => UnforkedSlots'
<1> SUFFICES ASSUME IInv, [Next]_vars PROVE  UnforkedSlots'
  OBVIOUS
<1> USE ConstantsAssumption, Pids DEF IInv, TypeOK, Goto, shared, sems, parent, vars, EXIT_SUCCESS, EXIT_FAILURE, UnforkedSlots, Procs, Consumers, Suppliers, ProcNum
<1>1. ASSUME NEW c \in Consumers, NEW s \in Suppliers, Pick(c, s) PROVE UnforkedSlots'
  BY <1>1 DEF Pick
<1>2. ASSUME NEW c \in Consumers, LockStock(c) PROVE UnforkedSlots'
  BY <1>2 DEF LockStock
<1>3. ASSUME NEW c \in Consumers, ReadStock(c) PROVE UnforkedSlots'
  BY <1>3 DEF ReadStock
<1>4. ASSUME NEW c \in Consumers, TakeDemand(c) PROVE UnforkedSlots'
  BY <1>4 DEF TakeDemand
<1>5. ASSUME NEW c \in Consumers, StoreStock(c) PROVE UnforkedSlots'
  BY <1>5 DEF StoreStock
<1>6. ASSUME NEW c \in Consumers, UnlockStock(c) PROVE UnforkedSlots'
  BY <1>6 DEF UnlockStock
<1>7. ASSUME NEW c \in Consumers, ReadJobs(c) PROVE UnforkedSlots'
  BY <1>7 DEF ReadJobs
<1>8. ASSUME NEW c \in Consumers, WriteJobs(c) PROVE UnforkedSlots'
  BY <1>8 DEF WriteJobs
<1>9. ASSUME NEW c \in Consumers, UnlockJobs(c) PROVE UnforkedSlots'
  BY <1>9 DEF UnlockJobs
<1>10. ASSUME NEW s \in Suppliers, LockOwnStock(s) PROVE UnforkedSlots'
  BY <1>10 DEF LockOwnStock
<1>11. ASSUME NEW s \in Suppliers, ReadOwnStock(s) PROVE UnforkedSlots'
  BY <1>11 DEF ReadOwnStock
<1>12. ASSUME NEW s \in Suppliers, Restock(s) PROVE UnforkedSlots'
  BY <1>12 DEF Restock
<1>13. ASSUME NEW s \in Suppliers, UnlockOwnStock(s) PROVE UnforkedSlots'
  BY <1>13 DEF UnlockOwnStock
<1>14. ASSUME NEW s \in Suppliers, CheckJobs(s) PROVE UnforkedSlots'
  BY <1>14 DEF CheckJobs
<1>15. ASSUME NEW s \in Suppliers, UnlockJobsSupplier(s) PROVE UnforkedSlots'
  BY <1>15 DEF UnlockJobsSupplier
<1>16. ASSUME NEW p \in Procs, LockJobs(p) PROVE UnforkedSlots'
  BY <1>16 DEF LockJobs
<1>17. ASSUME NEW p \in Procs, SemFails(p) PROVE UnforkedSlots'
  BY <1>17 DEF SemFails, SemCalls
<1>18. ASSUME NEW p \in Procs, Exit(p) PROVE UnforkedSlots'
  BY <1>18 DEF Exit
<1>19. CASE Fork
  BY <1>19 DEF Fork
<1>20. CASE ForkFails
  BY <1>20 DEF ForkFails
<1>21. CASE KillChild
  BY <1>21 DEF KillChild
<1>22. CASE ReapChild
  BY <1>22 DEF ReapChild, NextPid
<1>23. CASE Release
  BY <1>23 DEF Release
<1>24. CASE UNCHANGED vars
  BY <1>24 DEF vars
<1>25. QED
  BY <1>1, <1>2, <1>3, <1>4, <1>5, <1>6, <1>7, <1>8, <1>9, <1>10, <1>11, <1>12, <1>13, <1>14, <1>15, <1>16, <1>17, <1>18, <1>19, <1>20, <1>21, <1>22, <1>23, <1>24, Pids DEF Next, Consumer, Supplier, Parent, Done

\* A step keeps the demand of a finishing consumer met and the counter as it
\* was read.
LEMMA SmallStep == IInv /\ [Next]_vars => (DemandMet /\ SeenJobs)'
<1> SUFFICES ASSUME IInv, [Next]_vars PROVE  (DemandMet /\ SeenJobs)'
  OBVIOUS
<1> USE ConstantsAssumption, Pids DEF IInv, TypeOK, Goto, shared, sems, parent, vars, EXIT_SUCCESS, EXIT_FAILURE, OneHolder, HoldsJobs, DemandMet, SeenJobs
<1>1. ASSUME NEW c \in Consumers, NEW s \in Suppliers, Pick(c, s) PROVE (DemandMet /\ SeenJobs)'
  BY <1>1 DEF Pick
<1>2. ASSUME NEW c \in Consumers, LockStock(c) PROVE (DemandMet /\ SeenJobs)'
  BY <1>2 DEF LockStock
<1>3. ASSUME NEW c \in Consumers, ReadStock(c) PROVE (DemandMet /\ SeenJobs)'
  BY <1>3 DEF ReadStock
<1>4. ASSUME NEW c \in Consumers, TakeDemand(c) PROVE (DemandMet /\ SeenJobs)'
  BY <1>4 DEF TakeDemand
<1>5. ASSUME NEW c \in Consumers, StoreStock(c) PROVE (DemandMet /\ SeenJobs)'
  BY <1>5 DEF StoreStock
<1>6. ASSUME NEW c \in Consumers, UnlockStock(c) PROVE (DemandMet /\ SeenJobs)'
  BY <1>6 DEF UnlockStock
<1>7. ASSUME NEW c \in Consumers, ReadJobs(c) PROVE (DemandMet /\ SeenJobs)'
  BY <1>7 DEF ReadJobs
<1>8. ASSUME NEW c \in Consumers, WriteJobs(c) PROVE (DemandMet /\ SeenJobs)'
  BY <1>8 DEF WriteJobs
<1>9. ASSUME NEW c \in Consumers, UnlockJobs(c) PROVE (DemandMet /\ SeenJobs)'
  BY <1>9 DEF UnlockJobs
<1>10. ASSUME NEW s \in Suppliers, LockOwnStock(s) PROVE (DemandMet /\ SeenJobs)'
  BY <1>10 DEF LockOwnStock
<1>11. ASSUME NEW s \in Suppliers, ReadOwnStock(s) PROVE (DemandMet /\ SeenJobs)'
  BY <1>11 DEF ReadOwnStock
<1>12. ASSUME NEW s \in Suppliers, Restock(s) PROVE (DemandMet /\ SeenJobs)'
  BY <1>12 DEF Restock
<1>13. ASSUME NEW s \in Suppliers, UnlockOwnStock(s) PROVE (DemandMet /\ SeenJobs)'
  BY <1>13 DEF UnlockOwnStock
<1>14. ASSUME NEW s \in Suppliers, CheckJobs(s) PROVE (DemandMet /\ SeenJobs)'
  BY <1>14 DEF CheckJobs
<1>15. ASSUME NEW s \in Suppliers, UnlockJobsSupplier(s) PROVE (DemandMet /\ SeenJobs)'
  BY <1>15 DEF UnlockJobsSupplier
<1>16. ASSUME NEW p \in Procs, LockJobs(p) PROVE (DemandMet /\ SeenJobs)'
  BY <1>16 DEF LockJobs
<1>17. ASSUME NEW p \in Procs, SemFails(p) PROVE (DemandMet /\ SeenJobs)'
  BY <1>17 DEF SemFails, SemCalls
<1>18. ASSUME NEW p \in Procs, Exit(p) PROVE (DemandMet /\ SeenJobs)'
  BY <1>18 DEF Exit
<1>19. CASE Fork
  BY <1>19 DEF Fork
<1>20. CASE ForkFails
  BY <1>20 DEF ForkFails
<1>21. CASE KillChild
  BY <1>21 DEF KillChild
<1>22. CASE ReapChild
  BY <1>22 DEF ReapChild, NextPid
<1>23. CASE Release
  BY <1>23 DEF Release
<1>24. CASE UNCHANGED vars
  BY <1>24 DEF vars
<1>25. QED
  BY <1>1, <1>2, <1>3, <1>4, <1>5, <1>6, <1>7, <1>8, <1>9, <1>10, <1>11, <1>12, <1>13, <1>14, <1>15, <1>16, <1>17, <1>18, <1>19, <1>20, <1>21, <1>22, <1>23, <1>24, Pids DEF Next, Consumer, Supplier, Parent, Done

\* A step keeps every demand met once a supplier has decided to leave.
LEMMA LeavingStep == IInv /\ [Next]_vars => LeavingSuppliers'
<1> SUFFICES ASSUME IInv, [Next]_vars PROVE  LeavingSuppliers'
  OBVIOUS
<1> USE ConstantsAssumption, Pids DEF IInv, TypeOK, Goto, shared, sems, parent, vars, EXIT_SUCCESS, EXIT_FAILURE, LeavingSuppliers, Smaller
<1>1. ASSUME NEW c \in Consumers, NEW s \in Suppliers, Pick(c, s) PROVE LeavingSuppliers'
  BY <1>1 DEF Pick
<1>2. ASSUME NEW c \in Consumers, LockStock(c) PROVE LeavingSuppliers'
  BY <1>2 DEF LockStock
<1>3. ASSUME NEW c \in Consumers, ReadStock(c) PROVE LeavingSuppliers'
  BY <1>3 DEF ReadStock
<1>4. ASSUME NEW c \in Consumers, TakeDemand(c) PROVE LeavingSuppliers'
  BY <1>4 DEF TakeDemand
<1>5. ASSUME NEW c \in Consumers, StoreStock(c) PROVE LeavingSuppliers'
  BY <1>5 DEF StoreStock
<1>6. ASSUME NEW c \in Consumers, UnlockStock(c) PROVE LeavingSuppliers'
  BY <1>6 DEF UnlockStock
<1>7. ASSUME NEW c \in Consumers, ReadJobs(c) PROVE LeavingSuppliers'
  BY <1>7 DEF ReadJobs
<1>8. ASSUME NEW c \in Consumers, WriteJobs(c) PROVE LeavingSuppliers'
  BY <1>8 DEF WriteJobs
<1>9. ASSUME NEW c \in Consumers, UnlockJobs(c) PROVE LeavingSuppliers'
  BY <1>9 DEF UnlockJobs
<1>10. ASSUME NEW s \in Suppliers, LockOwnStock(s) PROVE LeavingSuppliers'
  BY <1>10 DEF LockOwnStock
<1>11. ASSUME NEW s \in Suppliers, ReadOwnStock(s) PROVE LeavingSuppliers'
  BY <1>11 DEF ReadOwnStock
<1>12. ASSUME NEW s \in Suppliers, Restock(s) PROVE LeavingSuppliers'
  BY <1>12 DEF Restock
<1>13. ASSUME NEW s \in Suppliers, UnlockOwnStock(s) PROVE LeavingSuppliers'
  BY <1>13 DEF UnlockOwnStock
<1>14. ASSUME NEW s \in Suppliers, CheckJobs(s) PROVE LeavingSuppliers'
  <2>1. CASE jobs = 0
    <3>1. Cardinality(Pending) = 0
      BY <2>1, PendingFinite DEF JobsCoversPending
    <3>2. Pending = {}
      BY <3>1, PendingFinite, FS_EmptySet
    <3>3. \A c \in Consumers : dem[c] = 0
      BY <3>2 DEF Pending
    <3>4. QED
      BY <1>14, <3>3 DEF CheckJobs
  <2>2. CASE jobs # 0
    BY <1>14, <2>2 DEF CheckJobs
  <2>3. QED
    BY <2>1, <2>2
<1>15. ASSUME NEW s \in Suppliers, UnlockJobsSupplier(s) PROVE LeavingSuppliers'
  BY <1>15 DEF UnlockJobsSupplier
<1>16. ASSUME NEW p \in Procs, LockJobs(p) PROVE LeavingSuppliers'
  BY <1>16 DEF LockJobs
<1>17. ASSUME NEW p \in Procs, SemFails(p) PROVE LeavingSuppliers'
  BY <1>17 DEF SemFails, SemCalls
<1>18. ASSUME NEW p \in Procs, Exit(p) PROVE LeavingSuppliers'
  BY <1>18 DEF Exit
<1>19. CASE Fork
  BY <1>19 DEF Fork
<1>20. CASE ForkFails
  BY <1>20 DEF ForkFails
<1>21. CASE KillChild
  BY <1>21 DEF KillChild
<1>22. CASE ReapChild
  BY <1>22 DEF ReapChild, NextPid
<1>23. CASE Release
  BY <1>23 DEF Release
<1>24. CASE UNCHANGED vars
  BY <1>24 DEF vars
<1>25. QED
  BY <1>1, <1>2, <1>3, <1>4, <1>5, <1>6, <1>7, <1>8, <1>9, <1>10, <1>11, <1>12, <1>13, <1>14, <1>15, <1>16, <1>17, <1>18, <1>19, <1>20, <1>21, <1>22, <1>23, <1>24, Pids DEF Next, Consumer, Supplier, Parent, Done

\* A step keeps the counter above the number of pending consumers.
LEMMA PendingStep == IInv /\ [Next]_vars => JobsCoversPending'
<1> SUFFICES ASSUME IInv, [Next]_vars PROVE  JobsCoversPending'
  OBVIOUS
<1> USE ConstantsAssumption, Pids DEF IInv, TypeOK, Goto, shared, sems, parent, vars, EXIT_SUCCESS, EXIT_FAILURE, Smaller
<1>1. ASSUME NEW c \in Consumers, NEW s \in Suppliers, Pick(c, s) PROVE JobsCoversPending'
  BY <1>1, PendingShrinks DEF Pending, Pick
<1>2. ASSUME NEW c \in Consumers, LockStock(c) PROVE JobsCoversPending'
  BY <1>2, PendingShrinks DEF Pending, LockStock
<1>3. ASSUME NEW c \in Consumers, ReadStock(c) PROVE JobsCoversPending'
  BY <1>3, PendingShrinks DEF Pending, ReadStock
<1>4. ASSUME NEW c \in Consumers, TakeDemand(c) PROVE JobsCoversPending'
  BY <1>4, PendingShrinks DEF Pending, TakeDemand
<1>5. ASSUME NEW c \in Consumers, StoreStock(c) PROVE JobsCoversPending'
  BY <1>5, PendingShrinks DEF Pending, StoreStock
<1>6. ASSUME NEW c \in Consumers, UnlockStock(c) PROVE JobsCoversPending'
  BY <1>6, PendingShrinks DEF Pending, UnlockStock
<1>7. ASSUME NEW c \in Consumers, ReadJobs(c) PROVE JobsCoversPending'
  BY <1>7, PendingShrinks DEF Pending, ReadJobs
<1>8. ASSUME NEW c \in Consumers, WriteJobs(c) PROVE JobsCoversPending'
  <2>1. pc[c] = "jobs_write" /\ jobs' = seen[c] - 1 /\ Pending' = Pending \ {c}
    BY <1>8 DEF WriteJobs, DemandMet, Pending
  <2>2. seen[c] = jobs /\ jobs \in Nat \ {0} /\ Cardinality(Pending \ {c}) = Cardinality(Pending) - 1
    BY <2>1, JobsPositive
  <2>3. QED
    BY <2>1, <2>2, PendingFinite DEF JobsCoversPending
<1>9. ASSUME NEW c \in Consumers, UnlockJobs(c) PROVE JobsCoversPending'
  BY <1>9, PendingShrinks DEF Pending, UnlockJobs
<1>10. ASSUME NEW s \in Suppliers, LockOwnStock(s) PROVE JobsCoversPending'
  BY <1>10, PendingShrinks DEF Pending, LockOwnStock
<1>11. ASSUME NEW s \in Suppliers, ReadOwnStock(s) PROVE JobsCoversPending'
  BY <1>11, PendingShrinks DEF Pending, ReadOwnStock
<1>12. ASSUME NEW s \in Suppliers, Restock(s) PROVE JobsCoversPending'
  BY <1>12, PendingShrinks DEF Pending, Restock
<1>13. ASSUME NEW s \in Suppliers, UnlockOwnStock(s) PROVE JobsCoversPending'
  BY <1>13, PendingShrinks DEF Pending, UnlockOwnStock
<1>14. ASSUME NEW s \in Suppliers, CheckJobs(s) PROVE JobsCoversPending'
  BY <1>14, PendingShrinks DEF Pending, CheckJobs
<1>15. ASSUME NEW s \in Suppliers, UnlockJobsSupplier(s) PROVE JobsCoversPending'
  BY <1>15, PendingShrinks DEF Pending, UnlockJobsSupplier
<1>16. ASSUME NEW p \in Procs, LockJobs(p) PROVE JobsCoversPending'
  BY <1>16, PendingShrinks DEF Pending, LockJobs
<1>17. ASSUME NEW p \in Procs, SemFails(p) PROVE JobsCoversPending'
  BY <1>17, PendingShrinks DEF Pending, SemFails
<1>18. ASSUME NEW p \in Procs, Exit(p) PROVE JobsCoversPending'
  BY <1>18, PendingShrinks DEF Pending, Exit
<1>19. CASE Fork
  <2>1. pc[pidx] = "none"
    BY <1>19 DEF Fork, UnforkedSlots, Procs
  <2>2. Pending' \subseteq Pending
    BY <1>19, <2>1 DEF Fork, Pending
  <2>3. QED
    BY <1>19, <2>2, PendingShrinks DEF Fork
<1>20. CASE ForkFails
  BY <1>20, PendingShrinks DEF Pending, ForkFails
<1>21. CASE KillChild
  BY <1>21, PendingShrinks DEF Pending, KillChild
<1>22. CASE ReapChild
  BY <1>22, PendingShrinks DEF Pending, ReapChild, NextPid
<1>23. CASE Release
  BY <1>23, PendingShrinks DEF Pending, Release
<1>24. CASE UNCHANGED vars
  BY <1>24, PendingShrinks DEF Pending, vars
<1>25. QED
  BY <1>1, <1>2, <1>3, <1>4, <1>5, <1>6, <1>7, <1>8, <1>9, <1>10, <1>11, <1>12, <1>13, <1>14, <1>15, <1>16, <1>17, <1>18, <1>19, <1>20, <1>21, <1>22, <1>23, <1>24, Pids DEF Next, Consumer, Supplier, Parent, Done

\* A step leaves no child in the slots the parent has reaped, and none at all
\* once the parent releases the segment and the semaphores.
LEMMA ReapStep == IInv /\ [Next]_vars => (ReapedSlots /\ ReleaseAfterChildren)'
<1> SUFFICES ASSUME IInv, [Next]_vars PROVE  (ReapedSlots /\ ReleaseAfterChildren)'
  OBVIOUS
<1> USE ConstantsAssumption, Pids DEF IInv, TypeOK, Goto, shared, sems, parent, vars, EXIT_SUCCESS, EXIT_FAILURE, ReapedSlots, ReleaseAfterChildren, Gone, Procs, Consumers, Suppliers, ProcNum
<1>1. ASSUME NEW c \in Consumers, NEW s \in Suppliers, Pick(c, s) PROVE (ReapedSlots /\ ReleaseAfterChildren)'
  BY <1>1 DEF Pick
<1>2. ASSUME NEW c \in Consumers, LockStock(c) PROVE (ReapedSlots /\ ReleaseAfterChildren)'
  BY <1>2 DEF LockStock
<1>3. ASSUME NEW c \in Consumers, ReadStock(c) PROVE (ReapedSlots /\ ReleaseAfterChildren)'
  BY <1>3 DEF ReadStock
<1>4. ASSUME NEW c \in Consumers, TakeDemand(c) PROVE (ReapedSlots /\ ReleaseAfterChildren)'
  BY <1>4 DEF TakeDemand
<1>5. ASSUME NEW c \in Consumers, StoreStock(c) PROVE (ReapedSlots /\ ReleaseAfterChildren)'
  BY <1>5 DEF StoreStock
<1>6. ASSUME NEW c \in Consumers, UnlockStock(c) PROVE (ReapedSlots /\ ReleaseAfterChildren)'
  BY <1>6 DEF UnlockStock
<1>7. ASSUME NEW c \in Consumers, ReadJobs(c) PROVE (ReapedSlots /\ ReleaseAfterChildren)'
  BY <1>7 DEF ReadJobs
<1>8. ASSUME NEW c \in Consumers, WriteJobs(c) PROVE (ReapedSlots /\ ReleaseAfterChildren)'
  BY <1>8 DEF WriteJobs
<1>9. ASSUME NEW c \in Consumers, UnlockJobs(c) PROVE (ReapedSlots /\ ReleaseAfterChildren)'
  BY <1>9 DEF UnlockJobs
<1>10. ASSUME NEW s \in Suppliers, LockOwnStock(s) PROVE (ReapedSlots /\ ReleaseAfterChildren)'
  BY <1>10 DEF LockOwnStock
<1>11. ASSUME NEW s \in Suppliers, ReadOwnStock(s) PROVE (ReapedSlots /\ ReleaseAfterChildren)'
  BY <1>11 DEF ReadOwnStock
<1>12. ASSUME NEW s \in Suppliers, Restock(s) PROVE (ReapedSlots /\ ReleaseAfterChildren)'
  BY <1>12 DEF Restock
<1>13. ASSUME NEW s \in Suppliers, UnlockOwnStock(s) PROVE (ReapedSlots /\ ReleaseAfterChildren)'
  BY <1>13 DEF UnlockOwnStock
<1>14. ASSUME NEW s \in Suppliers, CheckJobs(s) PROVE (ReapedSlots /\ ReleaseAfterChildren)'
  BY <1>14 DEF CheckJobs
<1>15. ASSUME NEW s \in Suppliers, UnlockJobsSupplier(s) PROVE (ReapedSlots /\ ReleaseAfterChildren)'
  BY <1>15 DEF UnlockJobsSupplier
<1>16. ASSUME NEW p \in Procs, LockJobs(p) PROVE (ReapedSlots /\ ReleaseAfterChildren)'
  BY <1>16 DEF LockJobs
<1>17. ASSUME NEW p \in Procs, SemFails(p) PROVE (ReapedSlots /\ ReleaseAfterChildren)'
  BY <1>17 DEF SemFails, SemCalls
<1>18. ASSUME NEW p \in Procs, Exit(p) PROVE (ReapedSlots /\ ReleaseAfterChildren)'
  BY <1>18 DEF Exit
<1>19. CASE Fork
  <2>1. CASE pidx = ProcNum - 1
    BY <1>19, <2>1 DEF Fork
  <2>2. CASE pidx # ProcNum - 1
    BY <1>19, <2>2 DEF Fork
  <2>3. QED
    BY <2>1, <2>2
<1>20. CASE ForkFails
  BY <1>20 DEF ForkFails
<1>21. CASE KillChild
  BY <1>21 DEF KillChild
<1>22. CASE ReapChild
  <2>1. ppc = "reap" /\ (pc[pidx] = "none" \/ Gone(pidx)) /\ pc' = pc
    BY <1>22 DEF ReapChild
  <2>2. CASE pidx = ProcNum - 1
    <3>1. \A p \in Procs : p < pidx \/ p = pidx
      BY <2>2
    <3>2. ppc' = "release"
      BY <1>22, <2>2 DEF ReapChild, NextPid
    <3>3. QED
      BY <2>1, <3>1, <3>2
  <2>3. CASE pidx # ProcNum - 1
    <3>1. ppc' = ppc /\ pidx' = pidx + 1
      BY <1>22, <2>3 DEF ReapChild, NextPid
    <3>2. \A p \in Procs : p < pidx + 1 => p < pidx \/ p = pidx
      OBVIOUS
    <3>3. QED
      BY <2>1, <3>1, <3>2
  <2>4. QED
    BY <2>2, <2>3
<1>23. CASE Release
  BY <1>23 DEF Release
<1>24. CASE UNCHANGED vars
  BY <1>24 DEF vars
<1>25. QED
  BY <1>1, <1>2, <1>3, <1>4, <1>5, <1>6, <1>7, <1>8, <1>9, <1>10, <1>11, <1>12, <1>13, <1>14, <1>15, <1>16, <1>17, <1>18, <1>19, <1>20, <1>21, <1>22, <1>23, <1>24, Pids DEF Next, Consumer, Supplier, Parent, Done

\* A step leaves every consumer that still buys with something to buy.
LEMMA BuyingStep == IInv /\ [Next]_vars => StillBuying'
<1> SUFFICES ASSUME IInv, [Next]_vars PROVE  StillBuying'
  OBVIOUS
<1> USE ConstantsAssumption, Pids DEF IInv, TypeOK, Goto, shared, sems, parent, vars, EXIT_SUCCESS, EXIT_FAILURE, StillBuying, Smaller
<1>1. ASSUME NEW c \in Consumers, NEW s \in Suppliers, Pick(c, s) PROVE StillBuying'
  BY <1>1 DEF Pick
<1>2. ASSUME NEW c \in Consumers, LockStock(c) PROVE StillBuying'
  BY <1>2 DEF LockStock
<1>3. ASSUME NEW c \in Consumers, ReadStock(c) PROVE StillBuying'
  BY <1>3 DEF ReadStock
<1>4. ASSUME NEW c \in Consumers, TakeDemand(c) PROVE StillBuying'
  BY <1>4 DEF TakeDemand
<1>5. ASSUME NEW c \in Consumers, StoreStock(c) PROVE StillBuying'
  BY <1>5 DEF StoreStock
<1>6. ASSUME NEW c \in Consumers, UnlockStock(c) PROVE StillBuying'
  BY <1>6 DEF UnlockStock
<1>7. ASSUME NEW c \in Consumers, ReadJobs(c) PROVE StillBuying'
  BY <1>7 DEF ReadJobs
<1>8. ASSUME NEW c \in Consumers, WriteJobs(c) PROVE StillBuying'
  BY <1>8 DEF WriteJobs
<1>9. ASSUME NEW c \in Consumers, UnlockJobs(c) PROVE StillBuying'
  BY <1>9 DEF UnlockJobs
<1>10. ASSUME NEW s \in Suppliers, LockOwnStock(s) PROVE StillBuying'
  BY <1>10 DEF LockOwnStock
<1>11. ASSUME NEW s \in Suppliers, ReadOwnStock(s) PROVE StillBuying'
  BY <1>11 DEF ReadOwnStock
<1>12. ASSUME NEW s \in Suppliers, Restock(s) PROVE StillBuying'
  BY <1>12 DEF Restock
<1>13. ASSUME NEW s \in Suppliers, UnlockOwnStock(s) PROVE StillBuying'
  BY <1>13 DEF UnlockOwnStock
<1>14. ASSUME NEW s \in Suppliers, CheckJobs(s) PROVE StillBuying'
  BY <1>14 DEF CheckJobs
<1>15. ASSUME NEW s \in Suppliers, UnlockJobsSupplier(s) PROVE StillBuying'
  BY <1>15 DEF UnlockJobsSupplier
<1>16. ASSUME NEW p \in Procs, LockJobs(p) PROVE StillBuying'
  BY <1>16 DEF LockJobs
<1>17. ASSUME NEW p \in Procs, SemFails(p) PROVE StillBuying'
  BY <1>17 DEF SemFails, SemCalls
<1>18. ASSUME NEW p \in Procs, Exit(p) PROVE StillBuying'
  BY <1>18 DEF Exit
<1>19. CASE Fork
  BY <1>19 DEF Fork, UnforkedSlots, Procs
<1>20. CASE ForkFails
  BY <1>20 DEF ForkFails
<1>21. CASE KillChild
  BY <1>21 DEF KillChild
<1>22. CASE ReapChild
  BY <1>22 DEF ReapChild, NextPid
<1>23. CASE Release
  BY <1>23 DEF Release
<1>24. CASE UNCHANGED vars
  BY <1>24 DEF vars
<1>25. QED
  BY <1>1, <1>2, <1>3, <1>4, <1>5, <1>6, <1>7, <1>8, <1>9, <1>10, <1>11, <1>12, <1>13, <1>14, <1>15, <1>16, <1>17, <1>18, <1>19, <1>20, <1>21, <1>22, <1>23, <1>24, Pids DEF Next, Consumer, Supplier, Parent, Done

\* A step leaves the stock as its semaphore's holder has read it.
LEMMA SeenStockStep == IInv /\ [Next]_vars => SeenStock'
<1> SUFFICES ASSUME IInv, [Next]_vars PROVE  SeenStock'
  OBVIOUS
<1> USE ConstantsAssumption, Pids DEF IInv, TypeOK, Goto, shared, sems, parent, vars, EXIT_SUCCESS, EXIT_FAILURE, SeenStock, OneHolder, HoldsStock
<1>1. ASSUME NEW c \in Consumers, NEW s \in Suppliers, Pick(c, s) PROVE SeenStock'
  BY <1>1 DEF Pick
<1>2. ASSUME NEW c \in Consumers, LockStock(c) PROVE SeenStock'
  BY <1>2 DEF LockStock
<1>3. ASSUME NEW c \in Consumers, ReadStock(c) PROVE SeenStock'
  <2>1. stock[sup_idx[c]] \in Nat
    BY <1>3
  <2>2. pc'[c] = "take" => seen'[c] > 0 /\ seen'[c] = stock[sup_idx[c]]
    BY <1>3, <2>1 DEF ReadStock
  <2>3. QED
    BY <1>3, <2>2 DEF ReadStock
<1>4. ASSUME NEW c \in Consumers, TakeDemand(c) PROVE SeenStock'
  BY <1>4 DEF TakeDemand
<1>5. ASSUME NEW c \in Consumers, StoreStock(c) PROVE SeenStock'
  <2>1. /\ pc[c] = "store" /\ sup_idx[c] \in Suppliers /\ pc'[c] # "take"
        /\ \A p \in Procs : p # c => pc'[p] = pc[p]
        /\ UNCHANGED <<seen, sup_idx>>
    BY <1>5 DEF StoreStock
  <2>2. \A s \in Suppliers : s # sup_idx[c] => stock'[s] = stock[s]
    BY <1>5 DEF StoreStock
  <2>3. HoldsStock(c, sup_idx[c])
    BY <2>1
  <2>4. ASSUME NEW d \in Consumers, d # c, pc[d] = "take" PROVE sup_idx[d] # sup_idx[c]
    BY <2>3, <2>4
  <2>5. ASSUME NEW s \in Suppliers, pc[s] = "restock" PROVE s # sup_idx[c] /\ s # c
    BY <2>3, <2>5
  <2>6. ASSUME NEW d \in Consumers, pc'[d] = "take"
        PROVE  seen'[d] > 0 /\ seen'[d] = stock'[sup_idx'[d]]
    <3>1. d # c /\ pc[d] = "take" /\ sup_idx[d] \in Suppliers
      BY <2>1, <2>6
    <3>. QED
      BY <2>1, <2>2, <2>4, <3>1
  <2>7. ASSUME NEW s \in Suppliers, pc'[s] = "restock" PROVE seen'[s] = stock'[s]
    <3>1. s # c
      OBVIOUS
    <3>2. pc[s] = "restock"
      BY <2>1, <2>7, <3>1
    <3>. QED
      BY <2>1, <2>2, <2>5, <3>2
  <2>. QED
    BY <2>6, <2>7
<1>6. ASSUME NEW c \in Consumers, UnlockStock(c) PROVE SeenStock'
  BY <1>6 DEF UnlockStock
<1>7. ASSUME NEW c \in Consumers, ReadJobs(c) PROVE SeenStock'
  BY <1>7 DEF ReadJobs
<1>8. ASSUME NEW c \in Consumers, WriteJobs(c) PROVE SeenStock'
  BY <1>8 DEF WriteJobs
<1>9. ASSUME NEW c \in Consumers, UnlockJobs(c) PROVE SeenStock'
  BY <1>9 DEF UnlockJobs
<1>10. ASSUME NEW s \in Suppliers, LockOwnStock(s) PROVE SeenStock'
  BY <1>10 DEF LockOwnStock
<1>11. ASSUME NEW s \in Suppliers, ReadOwnStock(s) PROVE SeenStock'
  BY <1>11 DEF ReadOwnStock
<1>12. ASSUME NEW s \in Suppliers, Restock(s) PROVE SeenStock'
  BY <1>12 DEF Restock
<1>13. ASSUME NEW s \in Suppliers, UnlockOwnStock(s) PROVE SeenStock'
  BY <1>13 DEF UnlockOwnStock
<1>14. ASSUME NEW s \in Suppliers, CheckJobs(s) PROVE SeenStock'
  BY <1>14 DEF CheckJobs
<1>15. ASSUME NEW s \in Suppliers, UnlockJobsSupplier(s) PROVE SeenStock'
  BY <1>15 DEF UnlockJobsSupplier
<1>16. ASSUME NEW p \in Procs, LockJobs(p) PROVE SeenStock'
  BY <1>16 DEF LockJobs
<1>17. ASSUME NEW p \in Procs, SemFails(p) PROVE SeenStock'
  BY <1>17 DEF SemFails, SemCalls
<1>18. ASSUME NEW p \in Procs, Exit(p) PROVE SeenStock'
  BY <1>18 DEF Exit
<1>19. CASE Fork
  BY <1>19 DEF Fork
<1>20. CASE ForkFails
  BY <1>20 DEF ForkFails
<1>21. CASE KillChild
  BY <1>21 DEF KillChild
<1>22. CASE ReapChild
  BY <1>22 DEF ReapChild, NextPid
<1>23. CASE Release
  BY <1>23 DEF Release
<1>24. CASE UNCHANGED vars
  BY <1>24 DEF vars
<1>25. QED
  BY <1>1, <1>2, <1>3, <1>4, <1>5, <1>6, <1>7, <1>8, <1>9, <1>10, <1>11, <1>12, <1>13, <1>14, <1>15, <1>16, <1>17, <1>18, <1>19, <1>20, <1>21, <1>22, <1>23, <1>24, Pids DEF Next, Consumer, Supplier, Parent, Done

-------------------------------------------------------------------------------
\* The invariant is inductive.
THEOREM Invariance == Spec => []IInv
<1>1. IInv /\ [Next]_vars => IInv'
  BY TypeStep, HolderStep, ForkStep, SmallStep, LeavingStep, PendingStep,
     ReapStep, BuyingStep, SeenStockStep DEF IInv
<1>2. QED
  BY InitInv, <1>1, PTL DEF Spec

\* Every reachable state of the program has the declared types: in particular
\* no semaphore exceeds one and neither a stock nor *jobs becomes negative.
THEOREM TypeCorrect == Spec => []TypeOK
BY Invariance, PTL DEF IInv

\* The critical sections of consume() and supply() exclude each other.
THEOREM MutualExclusion == Spec => []OneHolder
BY Invariance, PTL DEF IInv

\* A supplier that leaves with EXIT_SUCCESS leaves no consumer unserved,
\* whatever semaphore calls or forks have failed.
THEOREM SuppliersLeaveLast == Spec => []SupplierLeavesLast
<1>1. IInv => SupplierLeavesLast
  BY DEF IInv, LeavingSuppliers, SupplierLeavesLast
<1>2. QED
  BY Invariance, <1>1, PTL

\* The deallocation section of consumer_supplier() runs only when no child is
\* left that could use the segment or a semaphore, also after a failed fork().
THEOREM ReleasedAfterChildren == Spec => []ReleaseAfterChildren
BY Invariance, PTL DEF IInv

-------------------------------------------------------------------------------
(* The refinement of Market                                                *)

\* c has stored its demand and not yet the stock of s.
Storing(c, s) == pc[c] = "store" /\ sup_idx[c] = s

\* MarketStock without its CHOOSE: the one consumer that is storing into s holds
\* the abstract stock of s in seen.
MappedStock ==
    \A s \in Suppliers :
        /\ \A c \in Consumers : Storing(c, s) => MarketStock[s] = seen[c]
        /\ (\A c \in Consumers : ~Storing(c, s)) => MarketStock[s] = stock[s]

\* One semaphore holder makes the CHOOSE of MarketStock unambiguous.
LEMMA StockMapping == OneHolder => MappedStock
<1> SUFFICES ASSUME OneHolder, NEW s \in Suppliers
             PROVE  /\ \A c \in Consumers : Storing(c, s) => MarketStock[s] = seen[c]
                    /\ (\A c \in Consumers : ~Storing(c, s)) => MarketStock[s] = stock[s]
  BY DEF MappedStock
<1>1. ASSUME NEW c \in Consumers, Storing(c, s) PROVE MarketStock[s] = seen[c]
  <2> DEFINE d == CHOOSE x \in Consumers : pc[x] = "store" /\ sup_idx[x] = s
  <2>1. d \in Consumers /\ pc[d] = "store" /\ sup_idx[d] = s
    BY <1>1 DEF Storing
  <2>2. HoldsStock(c, s) /\ HoldsStock(d, s)
    BY <1>1, <2>1 DEF Storing, HoldsStock
  <2>3. d = c
    BY <2>1, <2>2, Pids DEF OneHolder
  <2>4. MarketStock[s] = seen[d]
    BY <1>1 DEF MarketStock, Storing
  <2>5. QED
    BY <2>3, <2>4
<1>2. ASSUME \A c \in Consumers : ~Storing(c, s) PROVE MarketStock[s] = stock[s]
  BY <1>2 DEF MarketStock, Storing
<1>3. QED
  BY <1>1, <1>2

\* The abstract stock is a function on the suppliers.
LEMMA MarketStockFunction == MarketStock = [s \in Suppliers |-> MarketStock[s]]
BY DEF MarketStock

\* A step that neither starts nor ends a store, and leaves the stocks alone,
\* leaves the abstract stock alone.
LEMMA SameMarketStock ==
    ASSUME MappedStock, MappedStock', stock' = stock,
           \A s \in Suppliers, c \in Consumers :
              /\ Storing(c, s)' <=> Storing(c, s)
              /\ Storing(c, s) => seen'[c] = seen[c]
    PROVE  MarketStock' = MarketStock
<1>1. ASSUME NEW s \in Suppliers PROVE MarketStock'[s] = MarketStock[s]
  <2>1. CASE \E c \in Consumers : Storing(c, s)
    BY <2>1 DEF MappedStock
  <2>2. CASE \A c \in Consumers : ~Storing(c, s)
    BY <2>2 DEF MappedStock
  <2>3. QED
    BY <2>1, <2>2
<1>2. MarketStock' = [s \in Suppliers |-> MarketStock'[s]]
  BY DEF MarketStock
<1>3. QED
  BY <1>1, <1>2, MarketStockFunction

\* The processes start in the initial state of the market.
LEMMA MarketInit == Init => M!Init
BY Pids DEF Init, M!Init, MarketStock, Closed

\* Every step of a process is a step of the market or leaves it alone: the
\* purchase happens when the consumer stores its demand, the delivery when the
\* supplier stores its stock, the closing when the supplier exits.
LEMMA MarketStep == IInv /\ MappedStock /\ MappedStock' /\ [Next]_vars => [M!Next \/ status = EXIT_FAILURE]_(M!vars)
<1> SUFFICES ASSUME IInv, MappedStock, MappedStock', [Next]_vars PROVE  [M!Next \/ status = EXIT_FAILURE]_(M!vars)
  OBVIOUS
<1> USE ConstantsAssumption, Pids DEF IInv, TypeOK, Goto, shared, sems, parent, vars, EXIT_SUCCESS, EXIT_FAILURE
<1>1. ASSUME NEW c \in Consumers, NEW s \in Suppliers, Pick(c, s) PROVE [M!Next \/ status = EXIT_FAILURE]_(M!vars)
  <2>1. MarketStock' = MarketStock
    BY <1>1, SameMarketStock DEF Storing, Pick
  <2>2. Closed' = Closed
    BY <1>1 DEF Closed, Pick
  <2>3. QED
    BY <1>1, <2>1, <2>2 DEF M!vars, Pick
<1>2. ASSUME NEW c \in Consumers, LockStock(c) PROVE [M!Next \/ status = EXIT_FAILURE]_(M!vars)
  <2>1. MarketStock' = MarketStock
    BY <1>2, SameMarketStock DEF Storing, LockStock
  <2>2. Closed' = Closed
    BY <1>2 DEF Closed, LockStock
  <2>3. QED
    BY <1>2, <2>1, <2>2 DEF M!vars, LockStock
<1>3. ASSUME NEW c \in Consumers, ReadStock(c) PROVE [M!Next \/ status = EXIT_FAILURE]_(M!vars)
  <2>1. MarketStock' = MarketStock
    BY <1>3, SameMarketStock DEF Storing, ReadStock
  <2>2. Closed' = Closed
    BY <1>3 DEF Closed, ReadStock
  <2>3. QED
    BY <1>3, <2>1, <2>2 DEF M!vars, ReadStock
<1>4. ASSUME NEW c \in Consumers, TakeDemand(c) PROVE [M!Next \/ status = EXIT_FAILURE]_(M!vars)
  <2>0. PICK s \in Suppliers : s = sup_idx[c]
    OBVIOUS
  <2> DEFINE take == Smaller(dem[c], seen[c])
  <2>1. s \in Suppliers /\ pc[c] = "take" /\ HoldsStock(c, s)
    BY <1>4, <2>0 DEF TakeDemand, HoldsStock
  <2>2. dem[c] > 0 /\ seen[c] > 0 /\ seen[c] = stock[s]
    BY <2>0, <2>1 DEF StillBuying, SeenStock
  <2>3. \A d \in Consumers : ~Storing(d, s)
    BY <2>1 DEF OneHolder, HoldsStock, Storing
  <2>4. MarketStock[s] = seen[c]
    BY <2>1, <2>2, <2>3 DEF MappedStock
  <2>5. MarketStock'[s] = seen[c] - take
    <3>1. Storing(c, s)' /\ seen'[c] = seen[c] - take
      BY <1>4, <2>0 DEF TakeDemand, Storing
    <3>2. QED
      BY <3>1 DEF MappedStock
  <2>6. ASSUME NEW t \in Suppliers, t # s PROVE MarketStock'[t] = MarketStock[t]
    <3>1. \A d \in Consumers : Storing(d, t)' <=> Storing(d, t)
      BY <1>4, <2>0, <2>6 DEF TakeDemand, Storing
    <3>2. \A d \in Consumers : Storing(d, t) => seen'[d] = seen[d]
      BY <1>4, <2>1, <2>6 DEF TakeDemand, Storing
    <3>3. stock' = stock
      BY <1>4 DEF TakeDemand
    <3>4. QED
      BY <3>1, <3>2, <3>3 DEF MappedStock
  <2>7. MarketStock' = [MarketStock EXCEPT ![s] = @ - take]
    <3>1. MarketStock' = [t \in Suppliers |-> MarketStock'[t]]
      BY DEF MarketStock
    <3>2. QED
      BY <2>4, <2>5, <2>6, <3>1, MarketStockFunction
  <2>8. dem' = [dem EXCEPT ![c] = @ - take]
    BY <1>4 DEF TakeDemand
  <2>9. Closed' = Closed
    BY <1>4 DEF Closed, TakeDemand
  <2>10. M!Buy(c, s)
    <3>1. take = M!Smaller(dem[c], MarketStock[s])
      BY <2>4 DEF Smaller, M!Smaller
    <3>2. QED
      BY <2>2, <2>4, <2>7, <2>8, <2>9, <3>1 DEF M!Buy
  <2>11. QED
    BY <2>1, <2>10 DEF M!Next
<1>5. ASSUME NEW c \in Consumers, StoreStock(c) PROVE [M!Next \/ status = EXIT_FAILURE]_(M!vars)
  <2>0. PICK s \in Suppliers : s = sup_idx[c]
    OBVIOUS
  <2>1. s \in Suppliers /\ pc[c] = "store" /\ HoldsStock(c, s) /\ Storing(c, s)
    BY <1>5, <2>0 DEF StoreStock, HoldsStock, Storing
  <2>2. MarketStock[s] = seen[c]
    BY <2>1 DEF MappedStock
  <2>3. MarketStock'[s] = seen[c]
    <3>1. \A d \in Consumers : d # c => ~Storing(d, s)
      BY <2>1 DEF OneHolder, HoldsStock, Storing
    <3>2. \A d \in Consumers : ~(Storing(d, s)')
      BY <1>5, <3>1 DEF StoreStock, Storing
    <3>3. stock'[s] = seen[c]
      BY <1>5, <2>0 DEF StoreStock
    <3>4. QED
      BY <3>2, <3>3 DEF MappedStock
  <2>4. ASSUME NEW t \in Suppliers, t # s PROVE MarketStock'[t] = MarketStock[t]
    <3>1. \A d \in Consumers : Storing(d, t)' <=> Storing(d, t)
      BY <1>5, <2>0, <2>4 DEF StoreStock, Storing
    <3>2. seen' = seen /\ stock'[t] = stock[t]
      BY <1>5, <2>0, <2>4 DEF StoreStock
    <3>3. QED
      BY <3>1, <3>2 DEF MappedStock
  <2>5. MarketStock' = MarketStock
    <3>1. MarketStock' = [t \in Suppliers |-> MarketStock'[t]]
      BY DEF MarketStock
    <3>2. QED
      BY <2>2, <2>3, <2>4, <3>1, MarketStockFunction
  <2>6. Closed' = Closed
    BY <1>5 DEF Closed, StoreStock
  <2>7. QED
    BY <1>5, <2>5, <2>6 DEF M!vars, StoreStock
<1>6. ASSUME NEW c \in Consumers, UnlockStock(c) PROVE [M!Next \/ status = EXIT_FAILURE]_(M!vars)
  <2>1. MarketStock' = MarketStock
    BY <1>6, SameMarketStock DEF Storing, UnlockStock
  <2>2. Closed' = Closed
    BY <1>6 DEF Closed, UnlockStock
  <2>3. QED
    BY <1>6, <2>1, <2>2 DEF M!vars, UnlockStock
<1>7. ASSUME NEW c \in Consumers, ReadJobs(c) PROVE [M!Next \/ status = EXIT_FAILURE]_(M!vars)
  <2>1. MarketStock' = MarketStock
    BY <1>7, SameMarketStock DEF Storing, ReadJobs
  <2>2. Closed' = Closed
    BY <1>7 DEF Closed, ReadJobs
  <2>3. QED
    BY <1>7, <2>1, <2>2 DEF M!vars, ReadJobs
<1>8. ASSUME NEW c \in Consumers, WriteJobs(c) PROVE [M!Next \/ status = EXIT_FAILURE]_(M!vars)
  <2>1. MarketStock' = MarketStock
    BY <1>8, SameMarketStock DEF Storing, WriteJobs
  <2>2. Closed' = Closed
    BY <1>8 DEF Closed, WriteJobs
  <2>3. QED
    BY <1>8, <2>1, <2>2 DEF M!vars, WriteJobs
<1>9. ASSUME NEW c \in Consumers, UnlockJobs(c) PROVE [M!Next \/ status = EXIT_FAILURE]_(M!vars)
  <2>1. MarketStock' = MarketStock
    BY <1>9, SameMarketStock DEF Storing, UnlockJobs
  <2>2. Closed' = Closed
    BY <1>9 DEF Closed, UnlockJobs
  <2>3. QED
    BY <1>9, <2>1, <2>2 DEF M!vars, UnlockJobs
<1>10. ASSUME NEW s \in Suppliers, LockOwnStock(s) PROVE [M!Next \/ status = EXIT_FAILURE]_(M!vars)
  <2>1. MarketStock' = MarketStock
    BY <1>10, SameMarketStock DEF Storing, LockOwnStock
  <2>2. Closed' = Closed
    BY <1>10 DEF Closed, LockOwnStock
  <2>3. QED
    BY <1>10, <2>1, <2>2 DEF M!vars, LockOwnStock
<1>11. ASSUME NEW s \in Suppliers, ReadOwnStock(s) PROVE [M!Next \/ status = EXIT_FAILURE]_(M!vars)
  <2>1. MarketStock' = MarketStock
    BY <1>11, SameMarketStock DEF Storing, ReadOwnStock
  <2>2. Closed' = Closed
    BY <1>11 DEF Closed, ReadOwnStock
  <2>3. QED
    BY <1>11, <2>1, <2>2 DEF M!vars, ReadOwnStock
<1>12. ASSUME NEW s \in Suppliers, Restock(s) PROVE [M!Next \/ status = EXIT_FAILURE]_(M!vars)
  <2>1. pc[s] = "restock" /\ HoldsStock(s, s) /\ seen[s] = stock[s]
    BY <1>12 DEF Restock, HoldsStock, SeenStock
  <2>2. \A c \in Consumers : ~Storing(c, s)
    BY <2>1 DEF OneHolder, HoldsStock, Storing
  <2>3. \A c \in Consumers, t \in Suppliers : Storing(c, t)' <=> Storing(c, t)
    BY <1>12 DEF Restock, Storing
  <2>4. MarketStock[s] = stock[s] /\ MarketStock'[s] = stock[s] + Supply
    <3>1. stock'[s] = stock[s] + Supply
      BY <1>12, <2>1 DEF Restock
    <3>2. QED
      BY <2>2, <2>3, <3>1 DEF MappedStock
  <2>5. ASSUME NEW t \in Suppliers, t # s PROVE MarketStock'[t] = MarketStock[t]
    <3>1. seen' = seen /\ stock'[t] = stock[t]
      BY <1>12, <2>5 DEF Restock
    <3>2. QED
      BY <2>3, <3>1 DEF MappedStock
  <2>6. MarketStock' = [MarketStock EXCEPT ![s] = @ + Supply]
    <3>1. MarketStock' = [t \in Suppliers |-> MarketStock'[t]]
      BY DEF MarketStock
    <3>2. QED
      BY <2>4, <2>5, <3>1, MarketStockFunction
  <2>7. s \notin Closed /\ Closed' = Closed /\ dem' = dem
    BY <1>12, <2>1 DEF Closed, Restock
  <2>8. M!Deliver(s)
    BY <2>6, <2>7 DEF M!Deliver
  <2>9. QED
    BY <2>8 DEF M!Next
<1>13. ASSUME NEW s \in Suppliers, UnlockOwnStock(s) PROVE [M!Next \/ status = EXIT_FAILURE]_(M!vars)
  <2>1. MarketStock' = MarketStock
    BY <1>13, SameMarketStock DEF Storing, UnlockOwnStock
  <2>2. Closed' = Closed
    BY <1>13 DEF Closed, UnlockOwnStock
  <2>3. QED
    BY <1>13, <2>1, <2>2 DEF M!vars, UnlockOwnStock
<1>14. ASSUME NEW s \in Suppliers, CheckJobs(s) PROVE [M!Next \/ status = EXIT_FAILURE]_(M!vars)
  <2>1. MarketStock' = MarketStock
    BY <1>14, SameMarketStock DEF Storing, CheckJobs
  <2>2. Closed' = Closed
    BY <1>14 DEF Closed, CheckJobs
  <2>3. QED
    BY <1>14, <2>1, <2>2 DEF M!vars, CheckJobs
<1>15. ASSUME NEW s \in Suppliers, UnlockJobsSupplier(s) PROVE [M!Next \/ status = EXIT_FAILURE]_(M!vars)
  <2>1. MarketStock' = MarketStock
    BY <1>15, SameMarketStock DEF Storing, UnlockJobsSupplier
  <2>2. Closed' = Closed
    BY <1>15 DEF Closed, UnlockJobsSupplier
  <2>3. QED
    BY <1>15, <2>1, <2>2 DEF M!vars, UnlockJobsSupplier
<1>16. ASSUME NEW p \in Procs, LockJobs(p) PROVE [M!Next \/ status = EXIT_FAILURE]_(M!vars)
  <2>1. MarketStock' = MarketStock
    BY <1>16, SameMarketStock DEF Storing, LockJobs
  <2>2. Closed' = Closed
    BY <1>16 DEF Closed, LockJobs
  <2>3. QED
    BY <1>16, <2>1, <2>2 DEF M!vars, LockJobs
<1>17. ASSUME NEW p \in Procs, SemFails(p) PROVE [M!Next \/ status = EXIT_FAILURE]_(M!vars)
  <2>1. MarketStock' = MarketStock
    BY <1>17, SameMarketStock DEF Storing, SemFails, SemCalls
  <2>2. Closed' = Closed
    BY <1>17 DEF Closed, SemFails, SemCalls
  <2>3. QED
    BY <1>17, <2>1, <2>2 DEF M!vars, SemFails, SemCalls
<1>18. ASSUME NEW p \in Procs, Exit(p) PROVE [M!Next \/ status = EXIT_FAILURE]_(M!vars)
  <2>1. MarketStock' = MarketStock
    BY <1>18, SameMarketStock DEF Storing, Exit
  <2>2. CASE p \in Suppliers /\ ecode[p] = EXIT_SUCCESS
    <3>1. \A c \in Consumers : dem[c] = 0
      BY <1>18, <2>2 DEF Exit, LeavingSuppliers
    <3>2. Closed' = Closed \cup {p}
      BY <1>18, <2>2 DEF Exit, Closed
    <3>3. M!Close(p)
      BY <1>18, <2>1, <3>1, <3>2 DEF Exit, M!Close
    <3>4. QED
      BY <2>2, <3>3 DEF M!Next
  <2>3. CASE ~(p \in Suppliers /\ ecode[p] = EXIT_SUCCESS)
    <3>1. Closed' = Closed
      BY <1>18, <2>3 DEF Exit, Closed
    <3>2. QED
      BY <1>18, <2>1, <3>1 DEF Exit, M!vars
  <2>4. QED
    BY <2>2, <2>3
<1>19. CASE Fork
  <2>0. pc[pidx] = "none" /\ pidx \in Procs
    BY <1>19 DEF Fork, UnforkedSlots, Procs
  <2>1. MarketStock' = MarketStock
    BY <1>19, <2>0, SameMarketStock DEF Storing, Fork
  <2>2. Closed' = Closed
    BY <1>19, <2>0 DEF Closed, Fork
  <2>3. QED
    BY <1>19, <2>1, <2>2 DEF M!vars, Fork
<1>20. CASE ForkFails
  <2>1. MarketStock' = MarketStock
    BY <1>20, SameMarketStock DEF Storing, ForkFails
  <2>2. Closed' = Closed
    BY <1>20 DEF Closed, ForkFails
  <2>3. QED
    BY <1>20, <2>1, <2>2 DEF M!vars, ForkFails
<1>21. CASE KillChild
  BY <1>21 DEF KillChild
<1>22. CASE ReapChild
  <2>1. MarketStock' = MarketStock
    BY <1>22, SameMarketStock DEF Storing, ReapChild, NextPid
  <2>2. Closed' = Closed
    BY <1>22 DEF Closed, ReapChild, NextPid
  <2>3. QED
    BY <1>22, <2>1, <2>2 DEF M!vars, ReapChild, NextPid
<1>23. CASE Release
  <2>1. MarketStock' = MarketStock
    BY <1>23, SameMarketStock DEF Storing, Release
  <2>2. Closed' = Closed
    BY <1>23 DEF Closed, Release
  <2>3. QED
    BY <1>23, <2>1, <2>2 DEF M!vars, Release
<1>24. CASE UNCHANGED vars
  <2>1. MarketStock' = MarketStock
    BY <1>24, SameMarketStock DEF Storing, vars
  <2>2. Closed' = Closed
    BY <1>24 DEF Closed, vars
  <2>3. QED
    BY <1>24, <2>1, <2>2 DEF M!vars, vars
<1>25. QED
  BY <1>1, <1>2, <1>3, <1>4, <1>5, <1>6, <1>7, <1>8, <1>9, <1>10, <1>11, <1>12, <1>13, <1>14, <1>15, <1>16, <1>17, <1>18, <1>19, <1>20, <1>21, <1>22, <1>23, <1>24, Pids DEF Next, Consumer, Supplier, Parent, Done

\* The processes implement the market: no purchase or delivery is lost,
\* doubled or seen half done, whatever semaphore calls fail.
THEOREM RefinesMarket == Spec => ImplementsMarket
<1>1. IInv => MappedStock
  BY StockMapping DEF IInv
<1>2. QED
  BY <1>1, Invariance, MarketInit, MarketStep, PTL DEF Spec, ImplementsMarket

===============================================================================
