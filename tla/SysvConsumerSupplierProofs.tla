---------------------- MODULE SysvConsumerSupplierProofs ----------------------
(***************************************************************************)
(* Proofs about SysvConsumerSupplier for every number of consumers and     *)
(* suppliers and any number of interrupts and failing forks.               *)
(***************************************************************************)
EXTENDS SysvConsumerSupplier, FiniteSetTheorems, TLAPS

\* The kernel's adjustment of a process is the semaphore of the critical
\* section it is in.
AdjustmentIsHeld ==
    \A p \in Procs : semadj[p] = IF InSection(p) THEN Sem(p) ELSE None

\* A semaphore is available exactly when no process has it to give back.
ValueMatchesAdjustments ==
    /\ \A x \in Sems : semval[x] = 1 <=> \A p \in Procs : semadj[p] # x
    /\ \A p, q \in Procs : semadj[p] = semadj[q] /\ semadj[p] # None => p = q

\* While the parent forks, the slots it has not reached have no child.
UnforkedSlots == ppc = "fork" => \A p \in Procs : p >= pidx => pc[p] = "none"

\* The slots it has reached have had one.
ForkedSlots == ppc = "fork" => \A p \in Procs : p < pidx => pc[p] # "none"

\* Behind the parent's index no child is left, at the end none at all; and unless
\* a fork() has failed every slot has had its child.
ReapedSlots ==
    /\ ppc = "reap" => \A p \in Procs : p < pidx => pc[p] \in {"none", "gone"}
    /\ ppc \in {"release", "done"} => \A p \in Procs : pc[p] \in {"none", "gone"}
    /\ ppc # "fork" /\ status = "success" => \A p \in Procs : pc[p] # "none"

\* A consumer that goes to the counter, or leaves without a failure, is served.
DemandMet ==
    \A c \in Consumers :
        \/ pc[c] \in {"jobs_lock", "jobs_read", "jobs_write", "jobs_unlock"}
        \/ pc[c] = "end" /\ c \notin failed
        \/ pc[c] = "gone" /\ c \notin failed /\ status = "success"
        => dem[c] = 0

\* A consumer that draws a supplier or is at its stock still wants something.
StillBuying ==
    \A c \in Consumers :
        /\ pc[c] # "jobs_unlock_again"
        /\ pc[c] \in {"none", "draw", "lock", "read", "take"} => dem[c] > 0

\* The consumers that have not counted themselves as served.
Pending == {c \in Consumers : dem[c] > 0 \/ pc[c] \notin {"jobs_unlock", "end", "gone"}}

\* *jobs never runs ahead of them.
JobsCoversPending == Cardinality(Pending) <= jobs

\* A supplier that has decided to leave has seen every demand met.
LeavingSuppliers ==
    \A s \in Suppliers :
        \/ pc[s] = "jobs_unlock"
        \/ pc[s] = "end" /\ s \notin failed
        \/ pc[s] = "gone" /\ s \notin failed /\ status = "success"
        => \A c \in Consumers : dem[c] = 0

\* Nobody else changes a stock or *jobs between a process's read and its write,
\* and a consumer takes from a stock that is not empty.
SeenIsCurrent ==
    /\ \A c \in Consumers : /\ pc[c] = "take" => seen[c] > 0 /\ seen[c] = stock[sup_idx[c]]
                            /\ pc[c] = "jobs_write" => seen[c] = jobs
    /\ \A s \in Suppliers : pc[s] = "restock" => seen[s] = stock[s]

\* The inductive invariant.
IInv == /\ TypeOK /\ UnforkedSlots /\ AdjustmentIsHeld /\ ValueMatchesAdjustments
        /\ ForkedSlots /\ ReapedSlots /\ DemandMet /\ StillBuying
        /\ JobsCoversPending /\ LeavingSuppliers /\ SeenIsCurrent

-------------------------------------------------------------------------------
\* The numbering of the processes: consumers first, then suppliers.
LEMMA Numbering ==
    /\ Consumers \subseteq Procs /\ Suppliers \subseteq Procs
    /\ Consumers \cap Suppliers = {}
    /\ Procs = Consumers \cup Suppliers
    /\ 0 \in Consumers /\ ConsNum \in Suppliers
    /\ \A p \in Procs : p # ProcNum - 1 => p + 1 \in Procs
BY ConstantsAssumption DEF Consumers, Suppliers, Procs, ProcNum

\* The semaphore a process operates on exists.
LEMMA SemExists == TypeOK => \A p \in Procs : Sem(p) \in Sems /\ Sem(p) # None
BY ConstantsAssumption, Numbering DEF TypeOK, Sem, Sems

\* There are ConsNum consumers.
LEMMA ConsumersFinite == IsFiniteSet(Consumers) /\ Cardinality(Consumers) = ConsNum
<1>1. 0 \in Int /\ ConsNum - 1 \in Int /\ ConsNum \in Nat \ {0}
      BY ConstantsAssumption
<1> QED
    BY <1>1, FS_Interval DEF Consumers

\* The pending consumers can be counted.
LEMMA PendingFinite == IsFiniteSet(Pending) /\ Cardinality(Pending) \in Nat
<1>1. Pending \subseteq Consumers
      BY DEF Pending
<1> QED
    BY <1>1, ConsumersFinite, FS_Subset, FS_CardinalityType

\* When nobody becomes pending and the counter stays, it still covers them.
LEMMA PendingShrinks ==
    ASSUME JobsCoversPending, jobs \in Nat, Pending' \subseteq Pending, jobs' = jobs
    PROVE  JobsCoversPending'
<1>1. Cardinality(Pending') \in Nat /\ Cardinality(Pending') <= Cardinality(Pending)
      BY PendingFinite, FS_Subset, FS_CardinalityType
<1> QED
    BY <1>1, PendingFinite DEF JobsCoversPending

\* The initial state satisfies the inductive invariant.
LEMMA InitIInv == Init => IInv
<1> SUFFICES ASSUME Init PROVE IInv
    OBVIOUS
<1> USE ConstantsAssumption, Numbering DEF Init
<1>1. TypeOK /\ UnforkedSlots /\ AdjustmentIsHeld /\ ValueMatchesAdjustments
      BY DEF TypeOK, Labels, UnforkedSlots, AdjustmentIsHeld, ValueMatchesAdjustments, InSection, Sems
<1>2. /\ ForkedSlots /\ ReapedSlots /\ DemandMet /\ StillBuying /\ LeavingSuppliers
      /\ SeenIsCurrent
      BY DEF SeenIsCurrent, ForkedSlots, ReapedSlots, Procs, DemandMet, StillBuying, LeavingSuppliers
<1>3. JobsCoversPending
  <2>1. Pending \subseteq Consumers
        BY DEF Pending
  <2> QED
      BY <2>1, ConsumersFinite, FS_Subset DEF JobsCoversPending
<1> QED
    BY <1>1, <1>2, <1>3 DEF IInv

\* Two processes are never in the section of one semaphore.
LEMMA OneInSection ==
    ASSUME TypeOK, AdjustmentIsHeld, ValueMatchesAdjustments,
           NEW p \in Procs, NEW q \in Procs,
           InSection(p), InSection(q), Sem(p) = Sem(q)
    PROVE  p = q
BY SemExists DEF AdjustmentIsHeld, ValueMatchesAdjustments

\* A consumer that is about to decrement the counter finds it positive: it is
\* itself still pending.
LEMMA JobsPositive ==
    ASSUME IInv, NEW c \in Consumers, pc[c] = "jobs_write"
    PROVE  /\ seen[c] = jobs /\ jobs \in Nat \ {0}
           /\ c \in Pending /\ Cardinality(Pending \ {c}) = Cardinality(Pending) - 1
<1>1. c \in Pending
      BY DEF Pending
<1>2. Cardinality(Pending) \in Nat \ {0} /\ Cardinality(Pending \ {c}) = Cardinality(Pending) - 1
      BY <1>1, PendingFinite, FS_EmptySet, FS_RemoveElement
<1> QED
    BY <1>1, <1>2 DEF IInv, TypeOK, SeenIsCurrent, JobsCoversPending

\* Every step preserves the types.
LEMMA TypeStep == IInv /\ [Next]_vars => (TypeOK)'
<1> DEFINE Goal == TypeOK
<1> SUFFICES ASSUME IInv, [Next]_vars PROVE Goal'
    OBVIOUS
<1> USE ConstantsAssumption, Numbering, SemExists DEF IInv, TypeOK, Labels, Goto, segment, kernel, parent
<1>1. ASSUME NEW c \in Consumers, NEW s \in Suppliers, Draw(c, s) PROVE Goal'
      BY <1>1 DEF Draw
<1>2. ASSUME NEW p \in Procs, SemopLock(p) PROVE Goal'
      BY <1>2 DEF SemopLock
<1>3. ASSUME NEW p \in Procs, SemopUnlock(p) PROVE Goal'
      BY <1>3 DEF SemopUnlock, AfterUnlock, AdjustmentIsHeld, ValueMatchesAdjustments, InSection
<1>4. ASSUME NEW p \in Procs, SemopInterrupted(p) PROVE Goal'
      BY <1>4 DEF SemopInterrupted
<1>5. ASSUME NEW c \in Consumers, ReadStock(c) PROVE Goal'
      BY <1>5 DEF ReadStock
<1>6. ASSUME NEW c \in Consumers, TakeDemand(c) PROVE Goal'
  <2>1. dem[c] \in Nat /\ seen[c] \in Nat
        OBVIOUS
  <2>2. dem[c] - Smaller(dem[c], seen[c]) \in Nat /\ seen[c] - Smaller(dem[c], seen[c]) \in Nat
        BY <2>1 DEF Smaller
  <2>3. dem' \in [Consumers -> Nat] /\ seen' \in [Procs -> Nat]
        BY <1>6, <2>2 DEF TakeDemand
  <2> QED
      BY <1>6, <2>3 DEF TakeDemand
<1>7. ASSUME NEW c \in Consumers, StoreStock(c) PROVE Goal'
      BY <1>7 DEF StoreStock
<1>8. ASSUME NEW c \in Consumers, ReadJobs(c) PROVE Goal'
      BY <1>8 DEF ReadJobs
<1>9. ASSUME NEW c \in Consumers, WriteJobs(c) PROVE Goal'
  <2>1. seen[c] = jobs /\ jobs \in Nat \ {0}
        BY <1>9, JobsPositive DEF WriteJobs
  <2> QED
      BY <1>9, <2>1 DEF WriteJobs
<1>10. ASSUME NEW s \in Suppliers, ReadOwnStock(s) PROVE Goal'
      BY <1>10 DEF ReadOwnStock
<1>11. ASSUME NEW s \in Suppliers, Restock(s) PROVE Goal'
      BY <1>11 DEF Restock
<1>12. ASSUME NEW s \in Suppliers, CheckJobs(s) PROVE Goal'
      BY <1>12 DEF CheckJobs
<1>13. ASSUME NEW p \in Procs, Exit(p) PROVE Goal'
      BY <1>13 DEF Exit, Dies, ValueMatchesAdjustments
<1>14. CASE Fork
      BY <1>14 DEF Fork, UnforkedSlots
<1>15. CASE ForkFails
      BY <1>15 DEF ForkFails
<1>16. CASE KillChild
      BY <1>16 DEF KillChild, Dies, ValueMatchesAdjustments
<1>17. CASE ReapChild
      BY <1>17 DEF ReapChild
<1>18. CASE Release
      BY <1>18 DEF Release
<1>19. CASE UNCHANGED vars
      BY <1>19 DEF vars
<1> QED
    BY <1>1, <1>2, <1>3, <1>4, <1>5, <1>6, <1>7, <1>8, <1>9, <1>10,
       <1>11, <1>12, <1>13, <1>14, <1>15, <1>16, <1>17, <1>18, <1>19
    DEF Next, Consumer, Supplier, Parent, Done

\* Lock, unlock and the undo at exit keep value and adjustments together.
LEMMA SemStep == IInv /\ [Next]_vars => (AdjustmentIsHeld /\ ValueMatchesAdjustments)'
<1> DEFINE Goal == AdjustmentIsHeld /\ ValueMatchesAdjustments
<1> SUFFICES ASSUME IInv, [Next]_vars PROVE Goal'
    OBVIOUS
<1> USE ConstantsAssumption, Numbering, SemExists DEF IInv, TypeOK, AdjustmentIsHeld, ValueMatchesAdjustments, InSection, Sem, Goto, segment, kernel, parent
<1>1. ASSUME NEW c \in Consumers, NEW s \in Suppliers, Draw(c, s) PROVE Goal'
      BY <1>1 DEF Draw
<1>2. ASSUME NEW p \in Procs, SemopLock(p) PROVE Goal'
      BY <1>2 DEF SemopLock
<1>3. ASSUME NEW p \in Procs, SemopUnlock(p) PROVE Goal'
      BY <1>3 DEF SemopUnlock, AfterUnlock
<1>4. ASSUME NEW p \in Procs, SemopInterrupted(p) PROVE Goal'
      BY <1>4 DEF SemopInterrupted
<1>5. ASSUME NEW c \in Consumers, ReadStock(c) PROVE Goal'
      BY <1>5 DEF ReadStock
<1>6. ASSUME NEW c \in Consumers, TakeDemand(c) PROVE Goal'
      BY <1>6 DEF TakeDemand
<1>7. ASSUME NEW c \in Consumers, StoreStock(c) PROVE Goal'
      BY <1>7 DEF StoreStock
<1>8. ASSUME NEW c \in Consumers, ReadJobs(c) PROVE Goal'
      BY <1>8 DEF ReadJobs
<1>9. ASSUME NEW c \in Consumers, WriteJobs(c) PROVE Goal'
      BY <1>9 DEF WriteJobs
<1>10. ASSUME NEW s \in Suppliers, ReadOwnStock(s) PROVE Goal'
      BY <1>10 DEF ReadOwnStock
<1>11. ASSUME NEW s \in Suppliers, Restock(s) PROVE Goal'
      BY <1>11 DEF Restock
<1>12. ASSUME NEW s \in Suppliers, CheckJobs(s) PROVE Goal'
      BY <1>12 DEF CheckJobs
<1>13. ASSUME NEW p \in Procs, Exit(p) PROVE Goal'
      BY <1>13 DEF Exit, Dies
<1>14. CASE Fork
      BY <1>14 DEF Fork, UnforkedSlots
<1>15. CASE ForkFails
      BY <1>15 DEF ForkFails
<1>16. CASE KillChild
      BY <1>16 DEF KillChild, Dies
<1>17. CASE ReapChild
      BY <1>17 DEF ReapChild
<1>18. CASE Release
      BY <1>18 DEF Release
<1>19. CASE UNCHANGED vars
      BY <1>19 DEF vars
<1> QED
    BY <1>1, <1>2, <1>3, <1>4, <1>5, <1>6, <1>7, <1>8, <1>9, <1>10,
       <1>11, <1>12, <1>13, <1>14, <1>15, <1>16, <1>17, <1>18, <1>19
    DEF Next, Consumer, Supplier, Parent, Done

\* Only fork() fills a slot, in the order of the slots.
LEMMA UnforkedStep == IInv /\ [Next]_vars => (UnforkedSlots)'
<1> DEFINE Goal == UnforkedSlots
<1> SUFFICES ASSUME IInv, [Next]_vars PROVE Goal'
    OBVIOUS
<1> USE ConstantsAssumption, Numbering DEF IInv, TypeOK, UnforkedSlots, Goto, segment, kernel, parent
<1>1. ASSUME NEW c \in Consumers, NEW s \in Suppliers, Draw(c, s) PROVE Goal'
      BY <1>1 DEF Draw
<1>2. ASSUME NEW p \in Procs, SemopLock(p) PROVE Goal'
      BY <1>2 DEF SemopLock
<1>3. ASSUME NEW p \in Procs, SemopUnlock(p) PROVE Goal'
      BY <1>3 DEF SemopUnlock
<1>4. ASSUME NEW p \in Procs, SemopInterrupted(p) PROVE Goal'
      BY <1>4 DEF SemopInterrupted
<1>5. ASSUME NEW c \in Consumers, ReadStock(c) PROVE Goal'
      BY <1>5 DEF ReadStock
<1>6. ASSUME NEW c \in Consumers, TakeDemand(c) PROVE Goal'
      BY <1>6 DEF TakeDemand
<1>7. ASSUME NEW c \in Consumers, StoreStock(c) PROVE Goal'
      BY <1>7 DEF StoreStock
<1>8. ASSUME NEW c \in Consumers, ReadJobs(c) PROVE Goal'
      BY <1>8 DEF ReadJobs
<1>9. ASSUME NEW c \in Consumers, WriteJobs(c) PROVE Goal'
      BY <1>9 DEF WriteJobs
<1>10. ASSUME NEW s \in Suppliers, ReadOwnStock(s) PROVE Goal'
      BY <1>10 DEF ReadOwnStock
<1>11. ASSUME NEW s \in Suppliers, Restock(s) PROVE Goal'
      BY <1>11 DEF Restock
<1>12. ASSUME NEW s \in Suppliers, CheckJobs(s) PROVE Goal'
      BY <1>12 DEF CheckJobs
<1>13. ASSUME NEW p \in Procs, Exit(p) PROVE Goal'
      BY <1>13 DEF Exit, Dies
<1>14. CASE Fork
      BY <1>14 DEF Fork, Procs, ProcNum
<1>15. CASE ForkFails
      BY <1>15 DEF ForkFails
<1>16. CASE KillChild
      BY <1>16 DEF KillChild, Dies
<1>17. CASE ReapChild
      BY <1>17 DEF ReapChild
<1>18. CASE Release
      BY <1>18 DEF Release
<1>19. CASE UNCHANGED vars
      BY <1>19 DEF vars
<1> QED
    BY <1>1, <1>2, <1>3, <1>4, <1>5, <1>6, <1>7, <1>8, <1>9, <1>10,
       <1>11, <1>12, <1>13, <1>14, <1>15, <1>16, <1>17, <1>18, <1>19
    DEF Next, Consumer, Supplier, Parent, Done

\* Reaping leaves no child behind.
LEMMA ReapedStep == IInv /\ [Next]_vars => ReapedSlots'
<1> SUFFICES ASSUME IInv, [Next]_vars PROVE ReapedSlots'
    OBVIOUS
<1> USE ConstantsAssumption, Numbering DEF IInv, TypeOK, Goto, segment, kernel, parent, ReapedSlots
<1>1. ASSUME NEW c \in Consumers, NEW s \in Suppliers, Draw(c, s) PROVE ReapedSlots'
      BY <1>1 DEF Draw
<1>2. ASSUME NEW p \in Procs, SemopLock(p) PROVE ReapedSlots'
      BY <1>2 DEF SemopLock
<1>3. ASSUME NEW p \in Procs, SemopUnlock(p) PROVE ReapedSlots'
      BY <1>3 DEF SemopUnlock, AfterUnlock
<1>4. ASSUME NEW p \in Procs, SemopInterrupted(p) PROVE ReapedSlots'
      BY <1>4 DEF SemopInterrupted
<1>5. ASSUME NEW c \in Consumers, ReadStock(c) PROVE ReapedSlots'
      BY <1>5 DEF ReadStock
<1>6. ASSUME NEW c \in Consumers, TakeDemand(c) PROVE ReapedSlots'
      BY <1>6 DEF TakeDemand
<1>7. ASSUME NEW c \in Consumers, StoreStock(c) PROVE ReapedSlots'
      BY <1>7 DEF StoreStock
<1>8. ASSUME NEW c \in Consumers, ReadJobs(c) PROVE ReapedSlots'
      BY <1>8 DEF ReadJobs
<1>9. ASSUME NEW c \in Consumers, WriteJobs(c) PROVE ReapedSlots'
      BY <1>9 DEF WriteJobs
<1>10. ASSUME NEW s \in Suppliers, ReadOwnStock(s) PROVE ReapedSlots'
      BY <1>10 DEF ReadOwnStock
<1>11. ASSUME NEW s \in Suppliers, Restock(s) PROVE ReapedSlots'
      BY <1>11 DEF Restock
<1>12. ASSUME NEW s \in Suppliers, CheckJobs(s) PROVE ReapedSlots'
      BY <1>12 DEF CheckJobs
<1>13. ASSUME NEW p \in Procs, Exit(p) PROVE ReapedSlots'
      BY <1>13 DEF Exit, Dies
<1>14. CASE Fork
  <2>1. CASE pidx = ProcNum - 1
    <3>1. \A p \in Procs : p = pidx \/ p < pidx
          BY <2>1 DEF Procs, ProcNum
    <3>2. \A p \in Procs : ~(p < 0)
          BY DEF Procs
    <3>3. \A p \in Procs : status = "success" => pc'[p] # "none"
          BY <1>14, <3>1 DEF Fork, ForkedSlots
    <3>4. ppc' = "reap" /\ pidx' = 0 /\ status' = status
          BY <1>14, <2>1 DEF Fork
    <3> QED
        BY <3>2, <3>3, <3>4
  <2>2. CASE pidx # ProcNum - 1
        BY <1>14, <2>2 DEF Fork
  <2> QED
      BY <2>1, <2>2
<1>15. CASE ForkFails
      BY <1>15 DEF ForkFails, Procs
<1>16. CASE KillChild
      BY <1>16 DEF KillChild, Dies
<1>17. CASE ReapChild
  <2>1. ppc = "reap" /\ pc[pidx] \in {"none", "gone"} /\ pc' = pc /\ status' = status
        BY <1>17 DEF ReapChild
  <2>2. CASE pidx = ProcNum - 1
    <3>1. \A p \in Procs : p = pidx \/ p < pidx
          BY <2>2 DEF Procs, ProcNum
    <3>2. ppc' = "release"
          BY <1>17, <2>2 DEF ReapChild
    <3> QED
        BY <2>1, <3>1, <3>2
  <2>3. CASE pidx # ProcNum - 1
    <3>1. \A p \in Procs : p < pidx + 1 => p = pidx \/ p < pidx
          BY DEF Procs, ProcNum
    <3>2. ppc' = "reap" /\ pidx' = pidx + 1
          BY <1>17, <2>3 DEF ReapChild
    <3> QED
        BY <2>1, <3>1, <3>2
  <2> QED
      BY <2>2, <2>3
<1>18. CASE Release
      BY <1>18 DEF Release
<1>19. CASE UNCHANGED vars
      BY <1>19 DEF vars
<1> QED
    BY <1>1, <1>2, <1>3, <1>4, <1>5, <1>6, <1>7, <1>8, <1>9, <1>10,
       <1>11, <1>12, <1>13, <1>14, <1>15, <1>16, <1>17, <1>18, <1>19
    DEF Next, Consumer, Supplier, Parent, Done

\* No step empties a slot.
LEMMA ForkedStep == IInv /\ [Next]_vars => ForkedSlots'
<1> SUFFICES ASSUME IInv, [Next]_vars PROVE ForkedSlots'
    OBVIOUS
<1> USE ConstantsAssumption, Numbering DEF IInv, TypeOK, Goto, segment, kernel, parent, ForkedSlots
<1>1. ASSUME NEW c \in Consumers, NEW s \in Suppliers, Draw(c, s) PROVE ForkedSlots'
      BY <1>1 DEF Draw
<1>2. ASSUME NEW p \in Procs, SemopLock(p) PROVE ForkedSlots'
      BY <1>2 DEF SemopLock
<1>3. ASSUME NEW p \in Procs, SemopUnlock(p) PROVE ForkedSlots'
      BY <1>3 DEF SemopUnlock, AfterUnlock
<1>4. ASSUME NEW p \in Procs, SemopInterrupted(p) PROVE ForkedSlots'
      BY <1>4 DEF SemopInterrupted
<1>5. ASSUME NEW c \in Consumers, ReadStock(c) PROVE ForkedSlots'
      BY <1>5 DEF ReadStock
<1>6. ASSUME NEW c \in Consumers, TakeDemand(c) PROVE ForkedSlots'
      BY <1>6 DEF TakeDemand
<1>7. ASSUME NEW c \in Consumers, StoreStock(c) PROVE ForkedSlots'
      BY <1>7 DEF StoreStock
<1>8. ASSUME NEW c \in Consumers, ReadJobs(c) PROVE ForkedSlots'
      BY <1>8 DEF ReadJobs
<1>9. ASSUME NEW c \in Consumers, WriteJobs(c) PROVE ForkedSlots'
      BY <1>9 DEF WriteJobs
<1>10. ASSUME NEW s \in Suppliers, ReadOwnStock(s) PROVE ForkedSlots'
      BY <1>10 DEF ReadOwnStock
<1>11. ASSUME NEW s \in Suppliers, Restock(s) PROVE ForkedSlots'
      BY <1>11 DEF Restock
<1>12. ASSUME NEW s \in Suppliers, CheckJobs(s) PROVE ForkedSlots'
      BY <1>12 DEF CheckJobs
<1>13. ASSUME NEW p \in Procs, Exit(p) PROVE ForkedSlots'
      BY <1>13 DEF Exit, Dies
<1>14. CASE Fork
  <2>1. \A p \in Procs : p < pidx + 1 => p = pidx \/ p < pidx
        BY DEF Procs, ProcNum
  <2> QED
      BY <1>14, <2>1 DEF Fork
<1>15. CASE ForkFails
      BY <1>15 DEF ForkFails
<1>16. CASE KillChild
      BY <1>16 DEF KillChild, Dies
<1>17. CASE ReapChild
      BY <1>17 DEF ReapChild
<1>18. CASE Release
      BY <1>18 DEF Release
<1>19. CASE UNCHANGED vars
      BY <1>19 DEF vars
<1> QED
    BY <1>1, <1>2, <1>3, <1>4, <1>5, <1>6, <1>7, <1>8, <1>9, <1>10,
       <1>11, <1>12, <1>13, <1>14, <1>15, <1>16, <1>17, <1>18, <1>19
    DEF Next, Consumer, Supplier, Parent, Done

\* A consumer goes to the counter, or home, only when it is served.
LEMMA DemandStep == IInv /\ [Next]_vars => (DemandMet /\ StillBuying)'
<1> SUFFICES ASSUME IInv, [Next]_vars PROVE (DemandMet /\ StillBuying)'
    OBVIOUS
<1> USE ConstantsAssumption, Numbering DEF IInv, TypeOK, Goto, segment, kernel, parent, DemandMet, StillBuying
<1>1. ASSUME NEW c \in Consumers, NEW s \in Suppliers, Draw(c, s) PROVE (DemandMet /\ StillBuying)'
      BY <1>1 DEF Draw
<1>2. ASSUME NEW p \in Procs, SemopLock(p) PROVE (DemandMet /\ StillBuying)'
      BY <1>2 DEF SemopLock
<1>3. ASSUME NEW p \in Procs, SemopUnlock(p) PROVE (DemandMet /\ StillBuying)'
  <2>1. CASE p \in Consumers
    <3>1. dem[p] \in Nat
          BY <2>1
    <3> QED
        BY <1>3, <2>1, <3>1 DEF SemopUnlock, AfterUnlock
  <2>2. CASE p \in Suppliers
        BY <1>3, <2>2 DEF SemopUnlock
  <2> QED
      BY <2>1, <2>2
<1>4. ASSUME NEW p \in Procs, SemopInterrupted(p) PROVE (DemandMet /\ StillBuying)'
      BY <1>4 DEF SemopInterrupted
<1>5. ASSUME NEW c \in Consumers, ReadStock(c) PROVE (DemandMet /\ StillBuying)'
      BY <1>5 DEF ReadStock
<1>6. ASSUME NEW c \in Consumers, TakeDemand(c) PROVE (DemandMet /\ StillBuying)'
      BY <1>6 DEF TakeDemand
<1>7. ASSUME NEW c \in Consumers, StoreStock(c) PROVE (DemandMet /\ StillBuying)'
      BY <1>7 DEF StoreStock
<1>8. ASSUME NEW c \in Consumers, ReadJobs(c) PROVE (DemandMet /\ StillBuying)'
      BY <1>8 DEF ReadJobs
<1>9. ASSUME NEW c \in Consumers, WriteJobs(c) PROVE (DemandMet /\ StillBuying)'
      BY <1>9 DEF WriteJobs
<1>10. ASSUME NEW s \in Suppliers, ReadOwnStock(s) PROVE (DemandMet /\ StillBuying)'
      BY <1>10 DEF ReadOwnStock
<1>11. ASSUME NEW s \in Suppliers, Restock(s) PROVE (DemandMet /\ StillBuying)'
      BY <1>11 DEF Restock
<1>12. ASSUME NEW s \in Suppliers, CheckJobs(s) PROVE (DemandMet /\ StillBuying)'
      BY <1>12 DEF CheckJobs
<1>13. ASSUME NEW p \in Procs, Exit(p) PROVE (DemandMet /\ StillBuying)'
      BY <1>13 DEF Exit, Dies
<1>14. CASE Fork
  <2>1. pc[pidx] = "none"
        BY <1>14 DEF Fork, UnforkedSlots, Procs
  <2>2. pidx \in Consumers => dem[pidx] > 0
        BY <2>1
  <2>3. \A c \in Consumers : c # pidx => pc'[c] = pc[c]
        BY <1>14 DEF Fork
  <2>4. pidx \in Consumers => pc'[pidx] = "draw"
        BY <1>14 DEF Fork
  <2>5. dem' = dem /\ failed' = failed /\ status' = status
        BY <1>14 DEF Fork
  <2> QED
      BY <2>2, <2>3, <2>4, <2>5
<1>15. CASE ForkFails
      BY <1>15 DEF ForkFails
<1>16. CASE KillChild
      BY <1>16 DEF KillChild, Dies
<1>17. CASE ReapChild
      BY <1>17 DEF ReapChild
<1>18. CASE Release
      BY <1>18 DEF Release
<1>19. CASE UNCHANGED vars
      BY <1>19 DEF vars
<1> QED
    BY <1>1, <1>2, <1>3, <1>4, <1>5, <1>6, <1>7, <1>8, <1>9, <1>10,
       <1>11, <1>12, <1>13, <1>14, <1>15, <1>16, <1>17, <1>18, <1>19
    DEF Next, Consumer, Supplier, Parent, Done

\* A supplier decides to leave only when nobody is pending.
LEMMA LeavingStep == IInv /\ [Next]_vars => LeavingSuppliers'
<1> SUFFICES ASSUME IInv, [Next]_vars PROVE LeavingSuppliers'
    OBVIOUS
<1> USE ConstantsAssumption, Numbering DEF IInv, TypeOK, Goto, segment, kernel, parent, LeavingSuppliers
<1>1. ASSUME NEW c \in Consumers, NEW s \in Suppliers, Draw(c, s) PROVE LeavingSuppliers'
      BY <1>1 DEF Draw
<1>2. ASSUME NEW p \in Procs, SemopLock(p) PROVE LeavingSuppliers'
      BY <1>2 DEF SemopLock
<1>3. ASSUME NEW p \in Procs, SemopUnlock(p) PROVE LeavingSuppliers'
      BY <1>3 DEF SemopUnlock, AfterUnlock
<1>4. ASSUME NEW p \in Procs, SemopInterrupted(p) PROVE LeavingSuppliers'
      BY <1>4 DEF SemopInterrupted
<1>5. ASSUME NEW c \in Consumers, ReadStock(c) PROVE LeavingSuppliers'
      BY <1>5 DEF ReadStock
<1>6. ASSUME NEW c \in Consumers, TakeDemand(c) PROVE LeavingSuppliers'
  <2>1. dem[c] = 0 => dem'[c] = 0
    <3>1. dem[c] \in Nat /\ seen[c] \in Nat
          BY <1>6
    <3>2. dem'[c] = dem[c] - Smaller(dem[c], seen[c])
          BY <1>6 DEF TakeDemand
    <3> QED
        BY <3>1, <3>2 DEF Smaller
  <2>2. \A d \in Consumers : d # c => dem'[d] = dem[d]
        BY <1>6 DEF TakeDemand
  <2>3. \A s \in Suppliers : pc'[s] = pc[s]
        BY <1>6 DEF TakeDemand
  <2> QED
      BY <1>6, <2>1, <2>2, <2>3 DEF TakeDemand
<1>7. ASSUME NEW c \in Consumers, StoreStock(c) PROVE LeavingSuppliers'
      BY <1>7 DEF StoreStock
<1>8. ASSUME NEW c \in Consumers, ReadJobs(c) PROVE LeavingSuppliers'
      BY <1>8 DEF ReadJobs
<1>9. ASSUME NEW c \in Consumers, WriteJobs(c) PROVE LeavingSuppliers'
      BY <1>9 DEF WriteJobs
<1>10. ASSUME NEW s \in Suppliers, ReadOwnStock(s) PROVE LeavingSuppliers'
      BY <1>10 DEF ReadOwnStock
<1>11. ASSUME NEW s \in Suppliers, Restock(s) PROVE LeavingSuppliers'
      BY <1>11 DEF Restock
<1>12. ASSUME NEW s \in Suppliers, CheckJobs(s) PROVE LeavingSuppliers'
  <2>1. CASE jobs <= 0
    <3>1. Pending = {}
          BY <2>1, PendingFinite, FS_EmptySet DEF JobsCoversPending
    <3>2. \A c \in Consumers : dem[c] = 0
          BY <3>1 DEF Pending
    <3> QED
        BY <1>12, <3>2 DEF CheckJobs
  <2>2. CASE ~(jobs <= 0)
        BY <1>12, <2>2 DEF CheckJobs
  <2> QED
      BY <2>1, <2>2
<1>13. ASSUME NEW p \in Procs, Exit(p) PROVE LeavingSuppliers'
      BY <1>13 DEF Exit, Dies
<1>14. CASE Fork
      BY <1>14 DEF Fork, UnforkedSlots, Procs
<1>15. CASE ForkFails
      BY <1>15 DEF ForkFails
<1>16. CASE KillChild
      BY <1>16 DEF KillChild, Dies
<1>17. CASE ReapChild
      BY <1>17 DEF ReapChild
<1>18. CASE Release
      BY <1>18 DEF Release
<1>19. CASE UNCHANGED vars
      BY <1>19 DEF vars
<1> QED
    BY <1>1, <1>2, <1>3, <1>4, <1>5, <1>6, <1>7, <1>8, <1>9, <1>10,
       <1>11, <1>12, <1>13, <1>14, <1>15, <1>16, <1>17, <1>18, <1>19
    DEF Next, Consumer, Supplier, Parent, Done

\* The holder of a semaphore finds what it has read unchanged.
LEMMA SeenStep == IInv /\ [Next]_vars => SeenIsCurrent'
<1> SUFFICES ASSUME IInv, [Next]_vars PROVE SeenIsCurrent'
    OBVIOUS
<1> USE ConstantsAssumption, Numbering DEF IInv, TypeOK, Goto, segment, kernel, parent, SeenIsCurrent
<1>1. ASSUME NEW c \in Consumers, NEW s \in Suppliers, Draw(c, s) PROVE SeenIsCurrent'
      BY <1>1 DEF Draw
<1>2. ASSUME NEW p \in Procs, SemopLock(p) PROVE SeenIsCurrent'
      BY <1>2 DEF SemopLock
<1>3. ASSUME NEW p \in Procs, SemopUnlock(p) PROVE SeenIsCurrent'
      BY <1>3 DEF SemopUnlock, AfterUnlock
<1>4. ASSUME NEW p \in Procs, SemopInterrupted(p) PROVE SeenIsCurrent'
      BY <1>4 DEF SemopInterrupted
<1>5. ASSUME NEW c \in Consumers, ReadStock(c) PROVE SeenIsCurrent'
  <2>1. stock[sup_idx[c]] \in Nat /\ c \notin Suppliers
        BY <1>5
  <2>2. pc'[c] = "take" => seen'[c] = stock[sup_idx[c]] /\ stock[sup_idx[c]] > 0
        BY <1>5, <2>1 DEF ReadStock
  <2>3. pc'[c] # "jobs_write"
        BY <1>5 DEF ReadStock
  <2>4. \A p \in Procs : p # c => pc'[p] = pc[p] /\ seen'[p] = seen[p]
        BY <1>5 DEF ReadStock
  <2>5. stock' = stock /\ jobs' = jobs /\ sup_idx' = sup_idx
        BY <1>5 DEF ReadStock
  <2> QED
      BY <2>1, <2>2, <2>3, <2>4, <2>5
<1>6. ASSUME NEW c \in Consumers, TakeDemand(c) PROVE SeenIsCurrent'
      BY <1>6 DEF TakeDemand
<1>7. ASSUME NEW c \in Consumers, StoreStock(c) PROVE SeenIsCurrent'
  <2>1. \A d \in Consumers : pc[d] = "take" /\ sup_idx[d] = sup_idx[c] => d = c
        BY <1>7, OneInSection DEF StoreStock, InSection, Sem
  <2>2. pc[sup_idx[c]] # "restock"
        BY <1>7, OneInSection DEF StoreStock, InSection, Sem
  <2> QED
      BY <1>7, <2>1, <2>2 DEF StoreStock
<1>8. ASSUME NEW c \in Consumers, ReadJobs(c) PROVE SeenIsCurrent'
      BY <1>8 DEF ReadJobs
<1>9. ASSUME NEW c \in Consumers, WriteJobs(c) PROVE SeenIsCurrent'
  <2>1. \A d \in Consumers : pc[d] = "jobs_write" => d = c
        BY <1>9, OneInSection DEF WriteJobs, InSection, Sem
  <2> QED
      BY <1>9, <2>1 DEF WriteJobs
<1>10. ASSUME NEW s \in Suppliers, ReadOwnStock(s) PROVE SeenIsCurrent'
      BY <1>10 DEF ReadOwnStock
<1>11. ASSUME NEW s \in Suppliers, Restock(s) PROVE SeenIsCurrent'
  <2>1. \A c \in Consumers : ~(pc[c] = "take" /\ sup_idx[c] = s)
        BY <1>11, OneInSection DEF Restock, InSection, Sem
  <2> QED
      BY <1>11, <2>1 DEF Restock
<1>12. ASSUME NEW s \in Suppliers, CheckJobs(s) PROVE SeenIsCurrent'
      BY <1>12 DEF CheckJobs
<1>13. ASSUME NEW p \in Procs, Exit(p) PROVE SeenIsCurrent'
      BY <1>13 DEF Exit, Dies
<1>14. CASE Fork
      BY <1>14 DEF Fork
<1>15. CASE ForkFails
      BY <1>15 DEF ForkFails
<1>16. CASE KillChild
      BY <1>16 DEF KillChild, Dies
<1>17. CASE ReapChild
      BY <1>17 DEF ReapChild
<1>18. CASE Release
      BY <1>18 DEF Release
<1>19. CASE UNCHANGED vars
      BY <1>19 DEF vars
<1> QED
    BY <1>1, <1>2, <1>3, <1>4, <1>5, <1>6, <1>7, <1>8, <1>9, <1>10,
       <1>11, <1>12, <1>13, <1>14, <1>15, <1>16, <1>17, <1>18, <1>19
    DEF Next, Consumer, Supplier, Parent, Done

\* The counter is decremented once by each consumer that counts itself.
LEMMA PendingStep == IInv /\ [Next]_vars => JobsCoversPending'
<1> SUFFICES ASSUME IInv, [Next]_vars PROVE JobsCoversPending'
    OBVIOUS
<1> USE ConstantsAssumption, Numbering DEF IInv, TypeOK, Goto, segment, kernel, parent
<1>1. ASSUME NEW c \in Consumers, NEW s \in Suppliers, Draw(c, s) PROVE JobsCoversPending'
      BY <1>1, PendingShrinks DEF Draw, Pending
<1>2. ASSUME NEW p \in Procs, SemopLock(p) PROVE JobsCoversPending'
      BY <1>2, PendingShrinks DEF SemopLock, Pending
<1>3. ASSUME NEW p \in Procs, SemopUnlock(p) PROVE JobsCoversPending'
  <2>1. Pending' \subseteq Pending
        BY <1>3 DEF SemopUnlock, AfterUnlock, Pending, StillBuying
  <2> QED
      BY <1>3, <2>1, PendingShrinks DEF SemopUnlock
<1>4. ASSUME NEW p \in Procs, SemopInterrupted(p) PROVE JobsCoversPending'
      BY <1>4, PendingShrinks DEF SemopInterrupted, Pending
<1>5. ASSUME NEW c \in Consumers, ReadStock(c) PROVE JobsCoversPending'
      BY <1>5, PendingShrinks DEF ReadStock, Pending
<1>6. ASSUME NEW c \in Consumers, TakeDemand(c) PROVE JobsCoversPending'
  <2>1. dem[c] > 0
        BY <1>6 DEF TakeDemand, StillBuying
  <2>2. Pending' \subseteq Pending
        BY <1>6, <2>1 DEF TakeDemand, Pending
  <2> QED
      BY <1>6, <2>2, PendingShrinks DEF TakeDemand
<1>7. ASSUME NEW c \in Consumers, StoreStock(c) PROVE JobsCoversPending'
      BY <1>7, PendingShrinks DEF StoreStock, Pending
<1>8. ASSUME NEW c \in Consumers, ReadJobs(c) PROVE JobsCoversPending'
      BY <1>8, PendingShrinks DEF ReadJobs, Pending
<1>9. ASSUME NEW c \in Consumers, WriteJobs(c) PROVE JobsCoversPending'
  <2>1. /\ seen[c] = jobs /\ c \in Pending
        /\ Cardinality(Pending \ {c}) = Cardinality(Pending) - 1
        BY <1>9, JobsPositive DEF WriteJobs
  <2>2. Pending' = Pending \ {c}
        BY <1>9 DEF WriteJobs, Pending, DemandMet
  <2> QED
      BY <1>9, <2>1, <2>2, PendingFinite DEF WriteJobs, JobsCoversPending
<1>10. ASSUME NEW s \in Suppliers, ReadOwnStock(s) PROVE JobsCoversPending'
      BY <1>10, PendingShrinks DEF ReadOwnStock, Pending
<1>11. ASSUME NEW s \in Suppliers, Restock(s) PROVE JobsCoversPending'
      BY <1>11, PendingShrinks DEF Restock, Pending
<1>12. ASSUME NEW s \in Suppliers, CheckJobs(s) PROVE JobsCoversPending'
      BY <1>12, PendingShrinks DEF CheckJobs, Pending
<1>13. ASSUME NEW p \in Procs, Exit(p) PROVE JobsCoversPending'
      BY <1>13, PendingShrinks DEF Exit, Dies, Pending
<1>14. CASE Fork
  <2>1. pc[pidx] = "none"
        BY <1>14 DEF Fork, UnforkedSlots, Procs
  <2>2. Pending' \subseteq Pending
        BY <1>14, <2>1 DEF Fork, Pending
  <2> QED
      BY <1>14, <2>2, PendingShrinks DEF Fork
<1>15. CASE ForkFails
      BY <1>15, PendingShrinks DEF ForkFails, Pending
<1>16. CASE KillChild
      BY <1>16, PendingShrinks DEF KillChild, Dies, Pending
<1>17. CASE ReapChild
      BY <1>17, PendingShrinks DEF ReapChild, Pending
<1>18. CASE Release
      BY <1>18, PendingShrinks DEF Release, Pending
<1>19. CASE UNCHANGED vars
      BY <1>19, PendingShrinks DEF vars, Pending
<1> QED
    BY <1>1, <1>2, <1>3, <1>4, <1>5, <1>6, <1>7, <1>8, <1>9, <1>10,
       <1>11, <1>12, <1>13, <1>14, <1>15, <1>16, <1>17, <1>18, <1>19
    DEF Next, Consumer, Supplier, Parent, Done

-------------------------------------------------------------------------------
\* The inductive invariant holds in every reachable state.
THEOREM Invariance == Spec => []IInv
<1>1. Init => IInv
      BY InitIInv
<1>2. IInv /\ [Next]_vars => IInv'
      BY TypeStep, UnforkedStep, SemStep, ForkedStep, ReapedStep, DemandStep,
         LeavingStep, PendingStep, SeenStep DEF IInv
<1> QED
    BY <1>1, <1>2, PTL DEF Spec

\* Type correctness; in particular no undo ever lifts a semaphore above one, and
\* neither a demand, a stock nor *jobs becomes negative.
THEOREM TypeCorrect == Spec => []TypeOK
<1>1. IInv => TypeOK
      BY DEF IInv
<1> QED
    BY <1>1, Invariance, PTL

\* No semaphore stays taken by a process that failed or was killed.
THEOREM NoOrphanedSemaphore == Spec => []TakenSemaphoreHasLiveHolder
<1>1. IInv => TakenSemaphoreHasLiveHolder
      BY ConstantsAssumption, Numbering, SemExists
      DEF IInv, TypeOK, AdjustmentIsHeld, ValueMatchesAdjustments, TakenSemaphoreHasLiveHolder
<1> QED
    BY <1>1, Invariance, PTL

\* A supplier that returns EXIT_SUCCESS leaves no consumer unserved.
THEOREM SuppliersLeaveLast == Spec => []SupplierLeavesLast
<1>1. IInv => SupplierLeavesLast
      BY DEF IInv, LeavingSuppliers, SupplierLeavesLast
<1> QED
    BY <1>1, Invariance, PTL

\* A false announcement takes the failure of the unserved consumer and of every
\* supplier.
THEOREM FalseAnnouncements == Spec => []UnservedOnlyIfSuppliersFail
<1>1. ASSUME IInv PROVE UnservedOnlyIfSuppliersFail
  <2> SUFFICES ASSUME ppc \in {"release", "done"}, status = "success",
                      NEW c \in Consumers, dem[c] > 0
               PROVE  c \in failed /\ Suppliers \subseteq failed
      BY DEF UnservedOnlyIfSuppliersFail
  <2>1. \A p \in Procs : pc[p] = "gone"
        BY <1>1 DEF IInv, ReapedSlots
  <2>2. c \in failed
        BY <1>1, <2>1, Numbering DEF IInv, DemandMet
  <2>3. Suppliers \subseteq failed
        BY <1>1, <2>1, Numbering DEF IInv, LeavingSuppliers
  <2> QED
      BY <2>2, <2>3
<1> QED
    BY <1>1, Invariance, PTL

-------------------------------------------------------------------------------
(* The refinement of Market                                                *)

\* MarketStock without its CHOOSE: the one consumer that is storing into s holds
\* the market's stock of s in seen.
MappedStock ==
    \A s \in Suppliers :
        /\ \A c \in Storing(s) : MarketStock[s] = seen[c]
        /\ Storing(s) = {} => MarketStock[s] = stock[s]

\* The semaphore makes the CHOOSE of MarketStock unambiguous.
LEMMA StockMapping == IInv => MappedStock
<1> SUFFICES ASSUME IInv, NEW s \in Suppliers
             PROVE  /\ \A c \in Storing(s) : MarketStock[s] = seen[c]
                    /\ Storing(s) = {} => MarketStock[s] = stock[s]
    BY DEF MappedStock
<1>1. ASSUME NEW c \in Storing(s) PROVE MarketStock[s] = seen[c]
  <2> DEFINE d == CHOOSE x \in Storing(s) : TRUE
  <2>1. d \in Storing(s)
        BY <1>1
  <2>2. d = c
    <3> HIDE DEF d
    <3>1. /\ c \in Procs /\ InSection(c) /\ Sem(c) = s
          /\ d \in Procs /\ InSection(d) /\ Sem(d) = s
          BY <1>1, <2>1, Numbering DEF Storing, InSection, Sem
    <3> QED
        BY <3>1, OneInSection DEF IInv
  <2>3. MarketStock[s] = seen[d]
        BY <1>1 DEF MarketStock
  <2> QED
      BY <2>2, <2>3
<1>2. ASSUME Storing(s) = {} PROVE MarketStock[s] = stock[s]
      BY <1>2 DEF MarketStock
<1> QED
    BY <1>1, <1>2

\* The market's stock is a function on the suppliers.
LEMMA MarketStockFunction == MarketStock = [s \in Suppliers |-> MarketStock[s]]
BY DEF MarketStock

\* A step that neither starts nor ends a store into s, and leaves s alone, leaves
\* the market's stock of s alone.
LEMMA SameStockOf ==
    ASSUME MappedStock, MappedStock', NEW s \in Suppliers, stock'[s] = stock[s],
           Storing(s)' = Storing(s), \A c \in Storing(s) : seen'[c] = seen[c]
    PROVE  MarketStock'[s] = MarketStock[s]
<1>1. CASE Storing(s) = {}
      BY <1>1 DEF MappedStock
<1>2. ASSUME NEW c \in Storing(s) PROVE MarketStock'[s] = MarketStock[s]
      BY <1>2 DEF MappedStock
<1> QED
    BY <1>1, <1>2

\* The same of every supplier.
LEMMA SameMarketStock ==
    ASSUME MappedStock, MappedStock', stock' = stock,
           \A s \in Suppliers : /\ Storing(s)' = Storing(s)
                                /\ \A c \in Storing(s) : seen'[c] = seen[c]
    PROVE  MarketStock' = MarketStock
<1>1. \A s \in Suppliers : MarketStock'[s] = MarketStock[s]
      BY SameStockOf
<1>2. MarketStock' = [s \in Suppliers |-> MarketStock'[s]]
      BY DEF MarketStock
<1> QED
    BY <1>1, <1>2, MarketStockFunction

\* The processes start in the initial state of the market.
LEMMA MarketInit == Init => M!Init
BY Numbering DEF Init, M!Init, MarketStock, Storing, Closed

\* Every step is a step of the market or leaves it alone: the purchase happens when
\* the consumer stores its demand, the delivery when the supplier stores its stock,
\* the closing when the supplier has released the counter.
LEMMA MarketStep == IInv /\ MappedStock /\ MappedStock' /\ [Next]_vars => [M!Next \/ status = "failure"]_(M!vars)
<1> SUFFICES ASSUME IInv, MappedStock, MappedStock', [Next]_vars PROVE [M!Next \/ status = "failure"]_(M!vars)
    OBVIOUS
<1> USE ConstantsAssumption, Numbering DEF IInv, TypeOK, Goto, segment, kernel, parent
<1>1. ASSUME NEW c \in Consumers, NEW s \in Suppliers, Draw(c, s) PROVE [M!Next \/ status = "failure"]_(M!vars)
  <2>1. MarketStock' = MarketStock
        BY <1>1, SameMarketStock DEF Storing, Draw
  <2>2. Closed' = Closed
        BY <1>1 DEF Closed, Draw
  <2> QED
      BY <1>1, <2>1, <2>2 DEF M!vars, Draw
<1>2. ASSUME NEW p \in Procs, SemopLock(p) PROVE [M!Next \/ status = "failure"]_(M!vars)
  <2>1. MarketStock' = MarketStock
        BY <1>2, SameMarketStock DEF Storing, SemopLock
  <2>2. Closed' = Closed
        BY <1>2 DEF Closed, SemopLock
  <2> QED
      BY <1>2, <2>1, <2>2 DEF M!vars, SemopLock
<1>3. ASSUME NEW p \in Procs, SemopUnlock(p) PROVE [M!Next \/ status = "failure"]_(M!vars)
  <2>1. MarketStock' = MarketStock
        BY <1>3, SameMarketStock DEF Storing, SemopUnlock, AfterUnlock
  <2>2. CASE p \in Suppliers /\ pc[p] = "jobs_unlock" /\ p \notin failed
    <3>1. \A c \in Consumers : dem[c] = 0
          BY <2>2 DEF LeavingSuppliers
    <3>2. Closed' = Closed \cup {p}
          BY <1>3, <2>2 DEF SemopUnlock, AfterUnlock, Closed
    <3>3. M!Close(p)
          BY <1>3, <2>1, <3>1, <3>2 DEF SemopUnlock, M!Close
    <3> QED
        BY <2>2, <3>3 DEF M!Next
  <2>3. CASE ~(p \in Suppliers /\ pc[p] = "jobs_unlock" /\ p \notin failed)
    <3>1. Closed' = Closed
          BY <1>3, <2>3 DEF SemopUnlock, AfterUnlock, Closed
    <3> QED
        BY <1>3, <2>1, <3>1 DEF SemopUnlock, M!vars
  <2> QED
      BY <2>2, <2>3
<1>4. ASSUME NEW p \in Procs, SemopInterrupted(p) PROVE [M!Next \/ status = "failure"]_(M!vars)
  <2>1. MarketStock' = MarketStock
        BY <1>4, SameMarketStock DEF Storing, SemopInterrupted
  <2>2. Closed' = Closed
        BY <1>4 DEF Closed, SemopInterrupted
  <2> QED
      BY <1>4, <2>1, <2>2 DEF M!vars, SemopInterrupted
<1>5. ASSUME NEW c \in Consumers, ReadStock(c) PROVE [M!Next \/ status = "failure"]_(M!vars)
  <2>1. MarketStock' = MarketStock
        BY <1>5, SameMarketStock DEF Storing, ReadStock
  <2>2. Closed' = Closed
        BY <1>5 DEF Closed, ReadStock
  <2> QED
      BY <1>5, <2>1, <2>2 DEF M!vars, ReadStock
<1>6. ASSUME NEW c \in Consumers, TakeDemand(c) PROVE [M!Next \/ status = "failure"]_(M!vars)
  <2>0. PICK s \in Suppliers : s = sup_idx[c]
        OBVIOUS
  <2> DEFINE take == Smaller(dem[c], seen[c])
  <2>1. pc[c] = "take" /\ InSection(c) /\ Sem(c) = s
        BY <1>6, <2>0 DEF TakeDemand, InSection, Sem
  <2>2. dem[c] > 0 /\ seen[c] > 0 /\ seen[c] = stock[s]
        BY <2>0, <2>1 DEF StillBuying, SeenIsCurrent
  <2>3. Storing(s) = {}
        BY <2>1, OneInSection DEF Storing, InSection, Sem
  <2>4. MarketStock[s] = seen[c]
        BY <2>2, <2>3 DEF MappedStock
  <2>5. MarketStock'[s] = seen[c] - take
    <3>1. c \in Storing(s)' /\ seen'[c] = seen[c] - take
          BY <1>6, <2>0 DEF TakeDemand, Storing
    <3> QED
        BY <3>1 DEF MappedStock
  <2>6. ASSUME NEW t \in Suppliers, t # s PROVE MarketStock'[t] = MarketStock[t]
    <3>1. Storing(t)' = Storing(t) /\ \A d \in Storing(t) : seen'[d] = seen[d]
          BY <1>6, <2>0, <2>1, <2>6 DEF TakeDemand, Storing
    <3> QED
        BY <1>6, <3>1, SameStockOf DEF TakeDemand
  <2>7. MarketStock' = [MarketStock EXCEPT ![s] = @ - take]
    <3>1. MarketStock' = [t \in Suppliers |-> MarketStock'[t]]
          BY DEF MarketStock
    <3> QED
        BY <2>4, <2>5, <2>6, <3>1, MarketStockFunction
  <2>8. dem' = [dem EXCEPT ![c] = @ - take]
        BY <1>6 DEF TakeDemand
  <2>9. Closed' = Closed
        BY <1>6 DEF Closed, TakeDemand
  <2>10. M!Buy(c, s)
    <3>1. take = M!Smaller(dem[c], MarketStock[s])
          BY <2>4 DEF Smaller, M!Smaller
    <3> QED
        BY <2>2, <2>4, <2>7, <2>8, <2>9, <3>1 DEF M!Buy
  <2> QED
      BY <2>10 DEF M!Next
<1>7. ASSUME NEW c \in Consumers, StoreStock(c) PROVE [M!Next \/ status = "failure"]_(M!vars)
  <2>0. PICK s \in Suppliers : s = sup_idx[c]
        OBVIOUS
  <2>1. c \in Storing(s) /\ InSection(c) /\ Sem(c) = s
        BY <1>7, <2>0 DEF StoreStock, Storing, InSection, Sem
  <2>2. MarketStock[s] = seen[c]
        BY <2>1 DEF MappedStock
  <2>3. MarketStock'[s] = seen[c]
    <3>1. \A d \in Storing(s) : d = c
          BY <2>1, OneInSection DEF Storing, InSection, Sem
    <3>2. Storing(s)' = {}
          BY <1>7, <3>1 DEF StoreStock, Storing
    <3>3. stock'[s] = seen[c]
          BY <1>7, <2>0 DEF StoreStock
    <3> QED
        BY <3>2, <3>3 DEF MappedStock
  <2>4. ASSUME NEW t \in Suppliers, t # s PROVE MarketStock'[t] = MarketStock[t]
    <3>1. Storing(t)' = Storing(t) /\ \A d \in Storing(t) : seen'[d] = seen[d]
          BY <1>7, <2>0, <2>4 DEF StoreStock, Storing
    <3>2. stock'[t] = stock[t]
          BY <1>7, <2>0, <2>4 DEF StoreStock
    <3> QED
        BY <3>1, <3>2, SameStockOf
  <2>5. MarketStock' = MarketStock
    <3>1. MarketStock' = [t \in Suppliers |-> MarketStock'[t]]
          BY DEF MarketStock
    <3> QED
        BY <2>2, <2>3, <2>4, <3>1, MarketStockFunction
  <2>6. Closed' = Closed
        BY <1>7 DEF Closed, StoreStock
  <2> QED
      BY <1>7, <2>5, <2>6 DEF M!vars, StoreStock
<1>8. ASSUME NEW c \in Consumers, ReadJobs(c) PROVE [M!Next \/ status = "failure"]_(M!vars)
  <2>1. MarketStock' = MarketStock
        BY <1>8, SameMarketStock DEF Storing, ReadJobs
  <2>2. Closed' = Closed
        BY <1>8 DEF Closed, ReadJobs
  <2> QED
      BY <1>8, <2>1, <2>2 DEF M!vars, ReadJobs
<1>9. ASSUME NEW c \in Consumers, WriteJobs(c) PROVE [M!Next \/ status = "failure"]_(M!vars)
  <2>1. MarketStock' = MarketStock
        BY <1>9, SameMarketStock DEF Storing, WriteJobs
  <2>2. Closed' = Closed
        BY <1>9 DEF Closed, WriteJobs
  <2> QED
      BY <1>9, <2>1, <2>2 DEF M!vars, WriteJobs
<1>10. ASSUME NEW s \in Suppliers, ReadOwnStock(s) PROVE [M!Next \/ status = "failure"]_(M!vars)
  <2>1. MarketStock' = MarketStock
        BY <1>10, SameMarketStock DEF Storing, ReadOwnStock
  <2>2. Closed' = Closed
        BY <1>10 DEF Closed, ReadOwnStock
  <2> QED
      BY <1>10, <2>1, <2>2 DEF M!vars, ReadOwnStock
<1>11. ASSUME NEW s \in Suppliers, Restock(s) PROVE [M!Next \/ status = "failure"]_(M!vars)
  <2>1. pc[s] = "restock" /\ InSection(s) /\ Sem(s) = s /\ seen[s] = stock[s]
        BY <1>11 DEF Restock, InSection, Sem, SeenIsCurrent
  <2>2. Storing(s) = {}
        BY <2>1, OneInSection DEF Storing, InSection, Sem
  <2>3. \A t \in Suppliers : Storing(t)' = Storing(t) /\ \A c \in Storing(t) : seen'[c] = seen[c]
        BY <1>11 DEF Restock, Storing
  <2>4. s \notin Closed /\ Closed' = Closed /\ dem' = dem
        BY <1>11, <2>1 DEF Restock, Closed
  <2>5. CASE stock[s] > StockBound
    <3>1. stock' = stock
          BY <1>11, <2>1, <2>5 DEF Restock
    <3>2. MarketStock' = MarketStock
          BY <2>3, <3>1, SameMarketStock
    <3> QED
        BY <2>4, <3>2 DEF M!vars
  <2>6. CASE ~(stock[s] > StockBound)
    <3>1. stock' = [stock EXCEPT ![s] = stock[s] + Supply]
          BY <1>11, <2>1, <2>6 DEF Restock
    <3>2. MarketStock[s] = stock[s] /\ MarketStock'[s] = stock[s] + Supply
          BY <2>2, <2>3, <3>1 DEF MappedStock
    <3>3. ASSUME NEW t \in Suppliers, t # s PROVE MarketStock'[t] = MarketStock[t]
      <4>1. stock'[t] = stock[t]
            BY <3>1, <3>3
      <4> QED
          BY <2>3, <4>1, SameStockOf
    <3>4. MarketStock' = [MarketStock EXCEPT ![s] = @ + Supply]
      <4>1. MarketStock' = [t \in Suppliers |-> MarketStock'[t]]
            BY DEF MarketStock
      <4> QED
          BY <3>2, <3>3, <4>1, MarketStockFunction
    <3>5. M!Deliver(s)
          BY <2>4, <3>4 DEF M!Deliver
    <3> QED
        BY <3>5 DEF M!Next
  <2> QED
      BY <2>5, <2>6
<1>12. ASSUME NEW s \in Suppliers, CheckJobs(s) PROVE [M!Next \/ status = "failure"]_(M!vars)
  <2>1. MarketStock' = MarketStock
        BY <1>12, SameMarketStock DEF Storing, CheckJobs
  <2>2. Closed' = Closed
        BY <1>12 DEF Closed, CheckJobs
  <2> QED
      BY <1>12, <2>1, <2>2 DEF M!vars, CheckJobs
<1>13. ASSUME NEW p \in Procs, Exit(p) PROVE [M!Next \/ status = "failure"]_(M!vars)
  <2>1. MarketStock' = MarketStock
        BY <1>13, SameMarketStock DEF Storing, Exit, Dies
  <2>2. Closed' = Closed
        BY <1>13 DEF Closed, Exit, Dies
  <2> QED
      BY <1>13, <2>1, <2>2 DEF M!vars, Exit, Dies
<1>14. CASE Fork
  <2>0. pc[pidx] = "none" /\ pidx \in Procs
        BY <1>14 DEF Fork, UnforkedSlots, Procs
  <2>1. MarketStock' = MarketStock
        BY <1>14, <2>0, SameMarketStock DEF Storing, Fork
  <2>2. Closed' = Closed
        BY <1>14, <2>0 DEF Closed, Fork
  <2> QED
      BY <1>14, <2>1, <2>2 DEF M!vars, Fork
<1>15. CASE ForkFails
  <2>1. MarketStock' = MarketStock
        BY <1>15, SameMarketStock DEF Storing, ForkFails
  <2>2. Closed' = Closed
        BY <1>15 DEF Closed, ForkFails
  <2> QED
      BY <1>15, <2>1, <2>2 DEF M!vars, ForkFails
<1>16. CASE KillChild
      BY <1>16 DEF KillChild
<1>17. CASE ReapChild
  <2>1. MarketStock' = MarketStock
        BY <1>17, SameMarketStock DEF Storing, ReapChild
  <2>2. Closed' = Closed
        BY <1>17 DEF Closed, ReapChild
  <2> QED
      BY <1>17, <2>1, <2>2 DEF M!vars, ReapChild
<1>18. CASE Release
  <2>1. MarketStock' = MarketStock
        BY <1>18, SameMarketStock DEF Storing, Release
  <2>2. Closed' = Closed
        BY <1>18 DEF Closed, Release
  <2> QED
      BY <1>18, <2>1, <2>2 DEF M!vars, Release
<1>19. CASE UNCHANGED vars
  <2>1. MarketStock' = MarketStock
        BY <1>19, SameMarketStock DEF Storing, vars
  <2>2. Closed' = Closed
        BY <1>19 DEF Closed, vars
  <2> QED
      BY <1>19, <2>1, <2>2 DEF M!vars, vars
<1> QED
    BY <1>1, <1>2, <1>3, <1>4, <1>5, <1>6, <1>7, <1>8, <1>9, <1>10,
       <1>11, <1>12, <1>13, <1>14, <1>15, <1>16, <1>17, <1>18, <1>19
    DEF Next, Consumer, Supplier, Parent, Done

\* The processes implement the market, whatever semop calls are interrupted: the
\* semaphores alone make the split reads and writes of a trade one step.
THEOREM RefinesMarket == Spec => ImplementsMarket
<1>1. IInv => MappedStock
      BY StockMapping
<1> QED
    BY <1>1, Invariance, MarketInit, MarketStep, PTL DEF Spec, ImplementsMarket

===============================================================================
