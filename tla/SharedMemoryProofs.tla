------------------------- MODULE SharedMemoryProofs -------------------------
(***************************************************************************)
(* Proofs about the shared memory programs.  First IncrProg, for every     *)
(* number of launches and children, every cap and any number of failing    *)
(* calls and killed processes; then SharedSegment, for every number of     *)
(* producers and consumers, every length of text and any number of deaths; *)
(* at the end the sessions of SharedMemory.                                *)
(***************************************************************************)
EXTENDS SharedMemory, FiniteSetTheorems, TLAPS

Object == Launch \cup {None}
MainState ==
  [at : {"idle", "shm", "size", "map", "sem", "setval", "fork", "end", "unlink",
         "sem_unlink", "done", "crashed"},
   failed : BOOLEAN, shmid : Object, seg : Object, sem : Object, named : BOOLEAN,
   i : 0 .. Procs, printed : Nat \cup {None}]
ChildState ==
  [at : {"none", "open", "sem", "wait", "load", "store", "test", "done", "failed",
         "killed"},
   seg : Object, sem : Object, num : Nat]

\* The shape of the state; a semaphore has one token or none.
TypeOK ==
  /\ api \in {"posix", "sysv"}
  /\ shm_name \in Object /\ sem_name \in Object
  /\ memseg \in [Launch -> [sized : BOOLEAN, val : Nat, cap : Nat]]
  /\ semval \in [Launch -> 0 .. 1]
  /\ main \in [Launch -> MainState]
  /\ child \in [Launch -> [Child -> ChildState]]
  /\ met \in SUBSET Launch
  /\ faults \in Nat

Before == {"idle", "shm", "size", "map", "sem", "setval"}

\* What a parent has created and forked when it is at each place.
ParentsPlace ==
  \A l \in Launch :
    /\ main[l].sem \in {None, l} /\ main[l].seg \in {None, main[l].shmid}
    /\ api = "sysv" => main[l].shmid \in {None, l}
    /\ main[l].at \in {"idle", "shm", "size", "sem"} => main[l].sem = None
    /\ main[l].at \in {"idle", "shm"} => main[l].shmid = None
    /\ main[l].at \in {"size", "map", "sem", "setval", "fork"} => main[l].shmid # None
    /\ main[l].at = "size" => api = "posix"
    /\ main[l].at = "sem" /\ api = "posix" => main[l].seg # None
    /\ main[l].at = "map" => main[l].sem = IF api = "sysv" THEN l ELSE None
    /\ main[l].at = "setval" => api = "sysv"
    /\ main[l].at \in {"setval", "fork"} => main[l].sem = l /\ main[l].seg # None
    /\ main[l].at \in Before
         => main[l].i = 0 /\ \A c \in Child : child[l][c].at = "none"
    /\ main[l].at = "fork" => main[l].i < Procs
    /\ main[l].at \in Before \cup {"fork", "end"} => main[l].printed = None

\* The slots a forking parent has not reached are empty; those a waiting parent
\* has passed are over.
Slots ==
  \A l \in Launch, c \in Child :
    /\ main[l].at = "fork" /\ c > main[l].i => child[l][c].at = "none"
    /\ main[l].at = "end" /\ c <= main[l].i => child[l][c].at \in Over \cup {"none"}
    /\ main[l].at \in {"unlink", "sem_unlink", "done"} \/ main[l].printed # None
         => child[l][c].at \in Over \cup {"none"}

\* What a child has opened when it is at each place.
ChildsPlace ==
  \A l \in Launch, c \in Child :
    /\ child[l][c].at # "none" => main[l].sem = l /\ main[l].seg # None
    /\ child[l][c].at \in {"none", "open"} => child[l][c].seg = None
    /\ child[l][c].at \in {"none", "open", "sem"} => child[l][c].sem = None
    /\ child[l][c].at \in {"wait"} \cup Critical
         => child[l][c].sem # None /\ child[l][c].seg # None
    /\ child[l][c].at = "sem" => child[l][c].seg # None
    /\ api = "sysv" => child[l][c].at # "sem" /\ child[l][c].seg \in {None, l}

\* A semaphore that is named or opened has been created, by the launch it is
\* known by.
Created ==
  /\ sem_name # None => main[sem_name].sem = sem_name
  /\ \A l \in Launch, c \in Child :
       child[l][c].sem # None => main[child[l][c].sem].sem = child[l][c].sem

\* The token of a semaphore is in one place: in its value or with one child.
Token ==
  \A k, l \in Launch, c, d \in Child :
    Holds(k, c) =>
      /\ semval[child[k][c].sem] = 0
      /\ Holds(l, d) /\ child[k][c].sem = child[l][d].sem => k = l /\ c = d

\* Launches begin in their order, and one that has met no other is alone.
Alone ==
  \A l \in Launch :
    /\ main[l].at # "idle" => \A k \in 1 .. l - 1 : main[k].at # "idle"
    /\ l \notin met /\ main[l].at # "idle" => \A k \in 1 .. l - 1 : ~Running(k)
    /\ l \notin met /\ Busy(l) => \A k \in Launch \ {l} : ~Running(k)

\* As long as it is busy its names stand for its own objects or for nothing.
OwnNames ==
  api = "posix" => \A l \in Launch : l \notin met /\ Busy(l) =>
    /\ main[l].sem = l => sem_name \in {l, None}
    /\ main[l].shmid # None => shm_name \in {main[l].shmid, None}

\* Its children use its semaphore and its segment.
OwnObjects ==
  \A l \in Launch, c \in Child : Undisturbed(l) =>
    child[l][c].sem \in {None, l} /\ child[l][c].seg \in {None, main[l].shmid}

\* A System V key is in use by a launch that has not come to its removal.
KeysInUse ==
  api = "sysv" =>
    /\ shm_name # None => /\ main[shm_name].shmid = shm_name
                          /\ main[shm_name].at \notin {"idle", "shm", "sem_unlink", "done"}
    /\ sem_name # None => main[sem_name].at \notin {"idle", "done"}

\* A POSIX launch that is alone and the latest has removed the names.
NamesRemoved ==
  api = "posix" => \A l \in Launch :
    l \notin met /\ (\A k \in Launch : k > l => main[k].at = "idle") =>
      /\ main[l].at \in {"sem_unlink", "done"} => shm_name = None
      /\ main[l].at = "done" /\ main[l].named => sem_name = None

\* The counter of a launch that nobody else counts in: the child in the critical
\* section has read it, and a child that has left saw it at the cap.
Counts(l) ==
  LET o == main[l].seg IN
  Running(l) /\ o # None =>
    /\ memseg[o].sized /\ memseg[o].cap = Cap /\ memseg[o].val <= Cap
    /\ \A c \in Child :
         /\ child[l][c].at = "store" => child[l][c].num = memseg[o].val /\ memseg[o].val < Cap
         /\ child[l][c].at = "done" => memseg[o].val = Cap

Counting == \A l \in Launch : Undisturbed(l) /\ Unshared(l) => Counts(l)

\* The inductive invariant.
IInv ==
  /\ TypeOK /\ ParentsPlace /\ Slots /\ ChildsPlace /\ Created /\ Token /\ Alone
  /\ OwnNames /\ OwnObjects /\ KeysInUse /\ NamesRemoved /\ Counting /\ ExactCount
-----------------------------------------------------------------------------
\* The constants: launches and children are numbered from one.
LEMMA Numbers ==
  /\ \A l \in Launch : l \in Nat \ {0} /\ l # None /\ l \in Object
  /\ \A l \in Launch : \A k \in 1 .. l - 1 : k \in Launch /\ k < l
  /\ \A k, l \in Launch : k # l => k \in 1 .. l - 1 \/ l \in 1 .. k - 1
  /\ \A c \in Child : c \in Nat \ {0} /\ c <= Procs
  /\ \A i \in 0 .. Procs : i < Procs => i + 1 \in Child /\ i + 1 \in 0 .. Procs
  /\ None \in Object /\ Cap \in Nat \ {0} /\ Procs \in Nat \ {0} /\ 0 \in 0 .. Procs
BY SizesAssumption, NoneAssumption DEF Launch, Child, Object

\* The types of the fields.
LEMMA Fields ==
  TypeOK => /\ api \in {"posix", "sysv"}
            /\ shm_name \in Launch \cup {None} /\ sem_name \in Launch \cup {None}
            /\ \A l \in Launch :
                 /\ main[l] \in MainState
                 /\ main[l].shmid \in Launch \cup {None} /\ main[l].seg \in Launch \cup {None}
                 /\ main[l].sem \in Launch \cup {None} /\ main[l].i \in 0 .. Procs
                 /\ memseg[l].val \in Nat /\ semval[l] \in 0 .. 1
            /\ \A l \in Launch, c \in Child :
                 /\ child[l][c] \in ChildState /\ child[l][c].num \in Nat
                 /\ child[l][c].sem \in Launch \cup {None} /\ child[l][c].seg \in Launch \cup {None}
BY DEF TypeOK, MainState, ChildState, Object

\* What Moves does to the parents, pointwise.
LEMMA MovesEffect ==
  ASSUME NEW l \in Launch, NEW to \in MainState, TypeOK, Moves(l, to)
  PROVE  /\ main'[l] = to /\ \A k \in Launch : k # l => main'[k] = main[k]
         /\ main' \in [Launch -> MainState]
BY DEF Moves, TypeOK

\* What Steps does to the children, pointwise.
LEMMA StepsEffect ==
  ASSUME NEW l \in Launch, NEW c \in Child, NEW to \in ChildState, TypeOK, Steps(l, c, to)
  PROVE  /\ child'[l][c] = to
         /\ \A k \in Launch, d \in Child : k # l \/ d # c => child'[k][d] = child[k][d]
         /\ child' \in [Launch -> [Child -> ChildState]]
BY DEF Steps, TypeOK

\* A step of a launch that runs leaves a launch alone that was alone.
LEMMA AloneKept ==
  ASSUME IInv, NEW l \in Launch, Running(l), met' = met,
         main'[l].at # "idle", \A k \in Launch : k # l => main'[k] = main[k],
         \A k \in Launch : k # l => Living(k)' \subseteq Living(k)
  PROVE  Alone'
<1>1. \A k \in Launch : (Running(k)' => Running(k)) /\ (Busy(k)' => Busy(k))
  BY DEF Running, Busy
<1>2. \A k \in Launch : main'[k].at = "idle" <=> main[k].at = "idle"
  BY DEF Running
<1> QED
  BY <1>1, <1>2, Numbers DEF IInv, Alone

\* What a parent's step that leaves the children alone keeps: it may create its
\* semaphore, map its segment and take or drop the name of the semaphore.
LEMMA ParentKeeps ==
  ASSUME IInv, NEW l \in Launch, Running(l), UNCHANGED <<api, child, met>>,
         main'[l].at # "idle", \A k \in Launch : k # l => main'[k] = main[k],
         main'[l].sem \in {main[l].sem, l},
         main'[l].seg = main[l].seg \/ main'[l].seg # None,
         main'[l].shmid = main[l].shmid \/ main[l].shmid = None,
         sem_name' \in {sem_name, None} \/ (sem_name' = l /\ main'[l].sem = l)
  PROVE  (ChildsPlace /\ Created /\ Alone /\ OwnObjects)'
<1> USE Numbers
<1>1. TypeOK
  BY DEF IInv
<1>2. ChildsPlace'
  BY DEF IInv, ChildsPlace
<1>3. \A k \in Launch : main[k].sem = k => main'[k].sem = k
  OBVIOUS
<1>4. Created'
  BY <1>1, <1>3, Fields DEF IInv, Created
<1>5. \A k \in Launch : Living(k)' \subseteq Living(k)
  BY DEF Living
<1>6. Alone'
  BY <1>5, AloneKept
<1>7. OwnObjects'
  BY DEF IInv, OwnObjects, Undisturbed
<1> QED
  BY <1>2, <1>4, <1>6, <1>7

-----------------------------------------------------------------------------
\* What a step of the children leaves as it is: the parents do not see more than
\* that a child which has ended stays ended.
LEMMA ChildKeeps ==
  ASSUME IInv, UNCHANGED <<api, shm_name, sem_name, main, met>>,
         \A k \in Launch, d \in Child :
           \/ child'[k][d].at = child[k][d].at
           \/ child[k][d].at \notin Over \cup {"none"} /\ child'[k][d].at # "none"
  PROVE  (ParentsPlace /\ Slots /\ Alone /\ OwnNames /\ KeysInUse /\ NamesRemoved)'
<1>1. ParentsPlace'
  BY DEF IInv, ParentsPlace, Before, Over
<1>2. Slots'
  BY DEF IInv, Slots
<1>3. \A k \in Launch : (Running(k)' <=> Running(k)) /\ (Busy(k)' => Busy(k))
  BY DEF Running, Busy, Living
<1>4. Alone'
  BY <1>3, Numbers DEF IInv, Alone
<1>5. OwnNames'
  BY <1>3 DEF IInv, OwnNames
<1>6. KeysInUse' /\ NamesRemoved'
  BY DEF IInv, KeysInUse, NamesRemoved
<1> QED
  BY <1>1, <1>2, <1>4, <1>5, <1>6

\* Once a child waits for the semaphore it keeps what it has opened.
LEMMA SameObjects ==
  ASSUME IInv, UNCHANGED <<api, sem_name, main, met>>,
         \A k \in Launch, d \in Child :
           /\ child'[k][d].seg = child[k][d].seg /\ child'[k][d].sem = child[k][d].sem
           /\ \/ child'[k][d].at = child[k][d].at
              \/ /\ child[k][d].at \in {"wait"} \cup Critical
                 /\ child'[k][d].at \in {"wait"} \cup Critical \cup Over
              \/ child[k][d].at # "none" /\ child'[k][d].at \in Over
  PROVE  (ChildsPlace /\ Created /\ OwnObjects)'
<1>1. ChildsPlace'
  BY DEF IInv, ChildsPlace, Critical, Over
<1>2. Created' /\ OwnObjects'
  BY DEF IInv, Created, OwnObjects, Undisturbed
<1> QED
  BY <1>1, <1>2

\* SEM_UNDO gives at most one token back, and only to a semaphore that a dying
\* child holds.
LEMMA UndoEffect ==
  ASSUME IInv, NEW l \in Launch, NEW cs \in SUBSET Child
  PROVE  /\ Undo(l, cs) \in [Launch -> 0 .. 1]
         /\ \A o \in Launch :
              (\A c \in cs : Holds(l, c) => child[l][c].sem # o) => Undo(l, cs)[o] = semval[o]
<1> DEFINE H(o) == {c \in cs : Holds(l, c) /\ child[l][c].sem = o}
<1>1. ASSUME NEW o \in Launch, H(o) = {} PROVE Cardinality(H(o)) = 0
  BY <1>1, FS_EmptySet
<1>2. ASSUME NEW o \in Launch, H(o) # {} PROVE Cardinality(H(o)) = 1 /\ semval[o] = 0
  <2>1. PICK c \in cs : Holds(l, c) /\ child[l][c].sem = o
    BY <1>2
  <2>2. H(o) = {c} /\ semval[o] = 0
    BY <2>1 DEF IInv, Token
  <2> QED
    BY <2>2, FS_Singleton
<1>3. \A o \in Launch :
        Undo(l, cs)[o] = semval[o] + IF api = "sysv" THEN Cardinality(H(o)) ELSE 0
  BY DEF Undo
<1>4. \A o \in Launch : semval[o] \in 0 .. 1
  BY DEF IInv, TypeOK
<1>5. \A o \in Launch :
        (H(o) = {} \/ api # "sysv" => Undo(l, cs)[o] = semval[o]) /\ Undo(l, cs)[o] \in 0 .. 1
  <2> HIDE DEF H
  <2> SUFFICES ASSUME NEW o \in Launch
               PROVE  (H(o) = {} \/ api # "sysv" => Undo(l, cs)[o] = semval[o]) /\ Undo(l, cs)[o] \in 0 .. 1
    OBVIOUS
  <2>1. CASE api = "sysv" /\ H(o) # {}
    BY <1>2, <1>3, <2>1
  <2>2. CASE api = "sysv" /\ H(o) = {}
    BY <1>1, <1>3, <1>4, <2>2
  <2>3. CASE api # "sysv"
    BY <1>3, <1>4, <2>3
  <2> QED
    BY <2>1, <2>2, <2>3
<1>6. DOMAIN Undo(l, cs) = Launch /\ Undo(l, cs) = [o \in Launch |-> Undo(l, cs)[o]]
  BY DEF Undo
<1> QED
  BY <1>5, <1>6

\* Only children of l change, by ending.
Fades(l) ==
  /\ child' \in [Launch -> [Child -> ChildState]]
  /\ \A k \in Launch, d \in Child :
       /\ child'[k][d].seg = child[k][d].seg /\ child'[k][d].sem = child[k][d].sem
       /\ child'[k][d].num = child[k][d].num
       /\ \/ child'[k][d].at = child[k][d].at
          \/ /\ k = l /\ child[k][d].at \notin Over \cup {"none"}
             /\ child'[k][d].at \in {"killed", "failed"}

\* Children die: the token of a dead holder is back in its semaphore (System V) or
\* lost (POSIX), never with two.
LEMMA DiesEffect ==
  ASSUME IInv, NEW l \in Launch, NEW cs \in SUBSET Living(l), Dies(l, cs)
  PROVE  /\ Fades(l) /\ \A c \in cs : child'[l][c].at = "killed"
         /\ semval' \in [Launch -> 0 .. 1] /\ Token'
<1> USE DEF Living
<1>0. child \in [Launch -> [Child -> ChildState]] /\ cs \in SUBSET Child
  BY DEF IInv, TypeOK
<1>1. \A d \in Child :
        child'[l][d] = IF d \in cs THEN [child[l][d] EXCEPT !.at = "killed"] ELSE child[l][d]
  BY <1>0 DEF Dies
<1>2. \A k \in Launch : k # l => child'[k] = child[k]
  BY <1>0 DEF Dies
<1>3. \A d \in Child : [child[l][d] EXCEPT !.at = "killed"] \in ChildState
  BY <1>0 DEF ChildState
<1>4. child' \in [Launch -> [Child -> ChildState]]
  BY <1>0, <1>3 DEF Dies
<1>5. Fades(l) /\ \A c \in cs : child'[l][c].at = "killed"
  <2>1. ASSUME NEW d \in Child
        PROVE  /\ child'[l][d].seg = child[l][d].seg /\ child'[l][d].sem = child[l][d].sem
               /\ child'[l][d].num = child[l][d].num
               /\ child'[l][d].at = IF d \in cs THEN "killed" ELSE child[l][d].at
    <3>1. child[l][d] \in ChildState
      BY <1>0
    <3>2. child'[l][d] = IF d \in cs THEN [child[l][d] EXCEPT !.at = "killed"] ELSE child[l][d]
      BY <1>1
    <3> QED
      BY <3>1, <3>2 DEF ChildState
  <2> QED
    BY <1>0, <1>2, <1>4, <2>1 DEF Fades
<1>6. semval' \in [Launch -> 0 .. 1]
  BY <1>0, UndoEffect DEF Dies
<1>7. ASSUME NEW k \in Launch, NEW c \in Child, Holds(k, c)'
      PROVE  Holds(k, c) /\ (k = l => c \notin cs)
  BY <1>5, <1>7 DEF Fades, Holds, Critical
<1>8. ASSUME NEW k \in Launch, NEW c \in Child, Holds(k, c)' PROVE semval'[child'[k][c].sem] = 0
  <2>1. Holds(k, c) /\ (k = l => c \notin cs) /\ child'[k][c].sem = child[k][c].sem
    BY <1>5, <1>7, <1>8 DEF Fades
  <2>2. child[k][c].sem \in Launch /\ semval[child[k][c].sem] = 0
    BY <2>1, Fields DEF IInv, Token, ChildsPlace, Holds
  <2>3. \A d \in cs : Holds(l, d) => child[l][d].sem # child[k][c].sem
    BY <1>0, <2>1 DEF IInv, Token
  <2> QED
    BY <1>0, <2>1, <2>2, <2>3, UndoEffect DEF Dies
<1>9. Token'
  BY <1>5, <1>7, <1>8 DEF IInv, Token, Fades
<1> QED
  BY <1>5, <1>6, <1>9

\* A dead child takes nothing with it that the invariant speaks of.
LEMMA FadesStep ==
  ASSUME IInv, NEW l \in Launch, Fades(l), semval' \in [Launch -> 0 .. 1], Token',
         UNCHANGED <<api, shm_name, sem_name, memseg, main, met>>, faults' \in Nat
  PROVE  IInv'
<1>1. TypeOK'
  BY DEF IInv, TypeOK, Fades
<1>2. (ParentsPlace /\ Slots /\ Alone /\ OwnNames /\ KeysInUse /\ NamesRemoved)'
  <2>1. \A k \in Launch, d \in Child :
          \/ child'[k][d].at = child[k][d].at
          \/ child[k][d].at \notin Over \cup {"none"} /\ child'[k][d].at # "none"
    BY DEF Fades
  <2> QED
    BY <2>1, ChildKeeps
<1>3. (ChildsPlace /\ Created /\ OwnObjects)'
  <2>1. \A k \in Launch, d \in Child :
          /\ child'[k][d].seg = child[k][d].seg /\ child'[k][d].sem = child[k][d].sem
          /\ \/ child'[k][d].at = child[k][d].at
             \/ /\ child[k][d].at \in {"wait"} \cup Critical
                /\ child'[k][d].at \in {"wait"} \cup Critical \cup Over
             \/ child[k][d].at # "none" /\ child'[k][d].at \in Over
    BY DEF Fades, Over
  <2> QED
    BY <2>1, SameObjects
<1>4. Counting'
  <2>1. \A k \in Launch : Undisturbed(k)' /\ Unshared(k)' => Undisturbed(k) /\ Unshared(k)
    BY DEF Undisturbed, Unshared, Fades
  <2>2. ASSUME NEW k \in Launch, Counts(k) PROVE Counts(k)'
    BY <2>2 DEF Counts, Running, Fades
  <2> QED
    BY <2>1, <2>2 DEF IInv, Counting
<1>5. ExactCount'
  BY DEF IInv, ExactCount, Undisturbed, Unshared, Fades
<1> QED
  BY <1>1, <1>2, <1>3, <1>4, <1>5 DEF IInv

\* A child is killed by SIGBUS.
LEMMA SigbusStep == ASSUME IInv, NEW l \in Launch, NEW c \in Child, Sigbus(l, c) PROVE IInv'
<1>1. {c} \in SUBSET Living(l)
  BY DEF Sigbus, Holds, Critical, Living, Over
<1>2. Fades(l) /\ semval' \in [Launch -> 0 .. 1] /\ Token'
  BY <1>1, DiesEffect DEF Sigbus
<1> QED
  BY <1>2, FadesStep DEF Sigbus, IInv, TypeOK

\* A child is killed from outside.
LEMMA KillChildStep == ASSUME IInv, NEW l \in Launch, NEW c \in Child, KillChild(l, c) PROVE IInv'
<1>1. {c} \in SUBSET Living(l) /\ faults' \in Nat
  BY DEF KillChild, IInv, TypeOK
<1>2. Fades(l) /\ semval' \in [Launch -> 0 .. 1] /\ Token'
  BY <1>1, DiesEffect DEF KillChild
<1> QED
  BY <1>1, <1>2, FadesStep DEF KillChild

\* The name a child looks for is gone: it fails.
LEMMA GoneStep ==
  ASSUME IInv, NEW l \in Launch, NEW c \in Child,
         \/ ChildAttach(l, c) /\ api # "sysv" /\ shm_name = None
         \/ ChildSemOpen(l, c) /\ sem_name = None
  PROVE  IInv'
<1> DEFINE to == [child[l][c] EXCEPT !.at = "failed"]
<1>1. TypeOK /\ child[l][c] \in ChildState /\ child[l][c].at \in {"open", "sem"}
  BY Fields DEF IInv, ChildAttach, ChildSemOpen
<1>2. to \in ChildState
  BY <1>1 DEF ChildState
<1>3. /\ child'[l][c] = to
      /\ \A k \in Launch, d \in Child : k # l \/ d # c => child'[k][d] = child[k][d]
      /\ child' \in [Launch -> [Child -> ChildState]]
  BY <1>1, <1>2, StepsEffect DEF ChildAttach, ChildSemOpen
<1>4. /\ child'[l][c].seg = child[l][c].seg /\ child'[l][c].sem = child[l][c].sem
      /\ child'[l][c].num = child[l][c].num /\ child'[l][c].at = "failed"
  BY <1>1, <1>3 DEF ChildState
<1> HIDE DEF to
<1>5. UNCHANGED <<api, shm_name, sem_name, memseg, semval, main, met, faults>>
  BY DEF ChildAttach, ChildSemOpen
<1>6. Fades(l)
  BY <1>1, <1>3, <1>4 DEF Fades, Over
<1>7. \A k \in Launch, d \in Child :
        Holds(k, d)' => Holds(k, d) /\ child'[k][d].sem = child[k][d].sem
  BY <1>3, <1>4 DEF Holds, Critical
<1>8. Token' /\ semval' \in [Launch -> 0 .. 1] /\ faults' \in Nat
  BY <1>5, <1>7, SMTT(30) DEF IInv, Token, TypeOK
<1> QED
  BY <1>5, <1>6, <1>8, FadesStep

-----------------------------------------------------------------------------
\* shm_open takes the object over that has the name, or makes a new one.
LEMMA ShmOpenStep ==
  ASSUME IInv, NEW l \in Launch, ShmOpen(l)
  PROVE  IInv'
<1> USE Numbers
<1> DEFINE o == IF shm_name = None THEN l ELSE shm_name
<1> DEFINE to == [main[l] EXCEPT !.at = "size", !.shmid = o]
<1>1. TypeOK /\ main[l] \in MainState /\ Running(l) /\ main[l].at = "shm"
      /\ o \in Launch /\ api = "posix" /\ main[l].shmid = None
  BY Fields DEF IInv, Running, ShmOpen, ParentsPlace
<1>2. to \in MainState
  <2>1. o \in Object
    BY <1>1
  <2> QED
    BY <1>1, <2>1, ZenonT(30) DEF MainState
<1>3. /\ main'[l] = to /\ \A k \in Launch : k # l => main'[k] = main[k]
      /\ main' \in [Launch -> MainState]
  BY <1>1, <1>2, MovesEffect DEF ShmOpen, Goes, Fails
<1>4. /\ shm_name' = o /\ memseg' = [memseg EXCEPT ![o] = Empty]
      /\ UNCHANGED <<api, sem_name, semval, child, met, faults>>
  BY <1>1 DEF ShmOpen
<1>5. /\ main'[l].at = "size" /\ main'[l].shmid = o /\ main'[l].seg = main[l].seg
      /\ main'[l].sem = main[l].sem /\ main'[l].i = main[l].i /\ main'[l].named = main[l].named
      /\ main'[l].printed = main[l].printed
  BY <1>1, <1>3, Fields DEF MainState
<1> HIDE DEF to, o
<1>6. UNCHANGED <<api, met>> /\ main'[l].at # "idle"
  BY <1>1, <1>4, <1>5
<1>7. (ChildsPlace /\ Created /\ Alone /\ OwnObjects)'
  BY <1>1, <1>3, <1>4, <1>5, ParentKeeps
<1>8. TypeOK'
  BY <1>1, <1>3, <1>4, <1>6 DEF TypeOK, Object, Empty, Zeros
<1>9. ParentsPlace'
  BY <1>1, <1>3, <1>4, <1>5, <1>6, Fields DEF IInv, ParentsPlace, Before
<1>10. Slots'
  BY <1>1, <1>3, <1>4, <1>5, <1>6, Fields DEF IInv, Slots, ParentsPlace, Before
<1>11. Token'
  BY <1>1, <1>3, <1>4, <1>5, <1>6, Fields DEF IInv, Token, Holds
<1>12. OwnNames'
  BY <1>1, <1>3, <1>4, <1>5, <1>6, Fields DEF IInv, OwnNames, Alone, Running, Busy, Living
<1>13. KeysInUse'
  BY <1>1, <1>3, <1>4, <1>5, <1>6, Fields DEF IInv, KeysInUse, ParentsPlace
<1>14. NamesRemoved'
  BY <1>1, <1>3, <1>4, <1>5, <1>6, Fields DEF IInv, NamesRemoved, Alone, Running
<1>15. Counting'
  BY <1>1, <1>3, <1>4, <1>5, <1>6, Fields DEF IInv, Counting, Counts, Undisturbed,
     Unshared, Alone, Running, Busy, ParentsPlace
<1>16. ExactCount'
  BY <1>1, <1>3, <1>4, <1>5, <1>6, Fields DEF IInv, ExactCount, Undisturbed, Unshared,
     ParentsPlace, Slots
<1> QED
  BY <1>7, <1>8, <1>9, <1>10, <1>11, <1>12, <1>13, <1>14, <1>15, <1>16 DEF IInv

\* ftruncate gives the object its size.
LEMMA FtruncateStep ==
  ASSUME IInv, NEW l \in Launch, Ftruncate(l)
  PROVE  IInv'
<1> USE Numbers
<1> DEFINE to == [main[l] EXCEPT !.at = "map"]
<1>1. TypeOK /\ main[l] \in MainState /\ Running(l) /\ main[l].at = "size"
      /\ main[l].shmid \in Launch /\ api = "posix"
  BY Fields DEF IInv, Running, Ftruncate, ParentsPlace
<1>2. to \in MainState
  BY <1>1 DEF MainState, Object
<1>3. /\ main'[l] = to /\ \A k \in Launch : k # l => main'[k] = main[k]
      /\ main' \in [Launch -> MainState]
  BY <1>1, <1>2, MovesEffect DEF Ftruncate, Goes, Fails
<1>4. /\ memseg' = [memseg EXCEPT ![main[l].shmid] = IF @.sized THEN @ ELSE Zeros]
      /\ UNCHANGED <<api, shm_name, sem_name, semval, child, met, faults>>
  BY <1>1 DEF Ftruncate
<1>5. /\ main'[l].at = "map" /\ main'[l].shmid = main[l].shmid /\ main'[l].seg = main[l].seg
      /\ main'[l].sem = main[l].sem /\ main'[l].i = main[l].i /\ main'[l].named = main[l].named
      /\ main'[l].printed = main[l].printed
  BY <1>1, <1>3, Fields DEF MainState
<1> HIDE DEF to
<1>6. UNCHANGED <<api, met>> /\ main'[l].at # "idle"
  BY <1>1, <1>4, <1>5
<1>7. (ChildsPlace /\ Created /\ Alone /\ OwnObjects)'
  BY <1>1, <1>3, <1>4, <1>5, ParentKeeps
<1>8. TypeOK'
  BY <1>1, <1>3, <1>4, <1>6 DEF TypeOK, Object, Empty, Zeros
<1>9. ParentsPlace'
  BY <1>1, <1>3, <1>4, <1>5, <1>6, Fields DEF IInv, ParentsPlace, Before
<1>10. Slots'
  BY <1>1, <1>3, <1>4, <1>5, <1>6, Fields DEF IInv, Slots, ParentsPlace, Before
<1>11. Token'
  BY <1>1, <1>3, <1>4, <1>5, <1>6, Fields DEF IInv, Token, Holds
<1>12. OwnNames'
  BY <1>1, <1>3, <1>4, <1>5, <1>6, Fields DEF IInv, OwnNames, Alone, Running, Busy, Living
<1>13. KeysInUse'
  BY <1>1, <1>3, <1>4, <1>5, <1>6, Fields DEF IInv, KeysInUse, ParentsPlace
<1>14. NamesRemoved'
  BY <1>1, <1>3, <1>4, <1>5, <1>6, Fields DEF IInv, NamesRemoved, Alone, Running
<1>15. Counting'
  BY <1>1, <1>3, <1>4, <1>5, <1>6, Fields DEF IInv, Counting, Counts, Undisturbed,
     Unshared, Alone, Running, Busy, ParentsPlace
<1>16. ExactCount'
  BY <1>1, <1>3, <1>4, <1>5, <1>6, Fields DEF IInv, ExactCount, Undisturbed, Unshared,
     ParentsPlace, Slots
<1> QED
  BY <1>7, <1>8, <1>9, <1>10, <1>11, <1>12, <1>13, <1>14, <1>15, <1>16 DEF IInv

\* SETVAL: nobody holds the semaphore yet.
LEMMA SetValStep ==
  ASSUME IInv, NEW l \in Launch, SetVal(l)
  PROVE  IInv'
<1> USE Numbers
<1> DEFINE to == [main[l] EXCEPT !.at = "fork"]
<1>1. TypeOK /\ main[l] \in MainState /\ Running(l) /\ main[l].at = "setval"
      /\ main[l].sem = l /\ api = "sysv"
  BY Fields DEF IInv, Running, SetVal, ParentsPlace
<1>2. to \in MainState
  BY <1>1 DEF MainState, Object
<1>3. /\ main'[l] = to /\ \A k \in Launch : k # l => main'[k] = main[k]
      /\ main' \in [Launch -> MainState]
  BY <1>1, <1>2, MovesEffect DEF SetVal, Goes, Fails
<1>4. /\ semval' = [semval EXCEPT ![l] = 1]
      /\ UNCHANGED <<api, shm_name, sem_name, memseg, child, met, faults>>
  BY <1>1 DEF SetVal
<1>5. /\ main'[l].at = "fork" /\ main'[l].shmid = main[l].shmid /\ main'[l].seg = main[l].seg
      /\ main'[l].sem = main[l].sem /\ main'[l].i = main[l].i /\ main'[l].named = main[l].named
      /\ main'[l].printed = main[l].printed
  BY <1>1, <1>3, Fields DEF MainState
<1> HIDE DEF to
<1>6. UNCHANGED <<api, met>> /\ main'[l].at # "idle"
  BY <1>1, <1>4, <1>5
<1>7. (ChildsPlace /\ Created /\ Alone /\ OwnObjects)'
  BY <1>1, <1>3, <1>4, <1>5, ParentKeeps
<1>8. TypeOK'
  BY <1>1, <1>3, <1>4, <1>6 DEF TypeOK, Object, Empty, Zeros
<1>9. ParentsPlace'
  BY <1>1, <1>3, <1>4, <1>5, <1>6, Fields DEF IInv, ParentsPlace, Before
<1>10. Slots'
  BY <1>1, <1>3, <1>4, <1>5, <1>6, Fields DEF IInv, Slots, ParentsPlace, Before
<1>11. Token'
  <2>1. \A k \in Launch, c \in Child : Holds(k, c) => child[k][c].sem # l
    BY <1>1, Fields DEF IInv, OwnObjects, Undisturbed, ParentsPlace, ChildsPlace,
       Before, Holds, Critical
  <2> QED
    BY <1>1, <1>4, <2>1, Fields DEF IInv, Token, Holds, TypeOK
<1>12. OwnNames'
  BY <1>1, <1>3, <1>4, <1>5, <1>6, Fields DEF IInv, OwnNames, Alone, Running, Busy, Living
<1>13. KeysInUse'
  BY <1>1, <1>3, <1>4, <1>5, <1>6, Fields DEF IInv, KeysInUse, ParentsPlace
<1>14. NamesRemoved'
  BY <1>1, <1>3, <1>4, <1>5, <1>6, Fields DEF IInv, NamesRemoved, Alone, Running
<1>15. Counting'
  BY <1>1, <1>3, <1>4, <1>5, <1>6, Fields DEF IInv, Counting, Counts, Undisturbed,
     Unshared, Alone, Running, Busy, ParentsPlace
<1>16. ExactCount'
  BY <1>1, <1>3, <1>4, <1>5, <1>6, Fields DEF IInv, ExactCount, Undisturbed, Unshared,
     ParentsPlace, Slots
<1> QED
  BY <1>7, <1>8, <1>9, <1>10, <1>11, <1>12, <1>13, <1>14, <1>15, <1>16 DEF IInv

\* `goto end': everything created so far stays, the children are still to be reaped.
LEMMA ToEndStep ==
  ASSUME IInv, NEW l \in Launch, NEW to \in MainState, Moves(l, to),
         main[l].at \in (Before \ {"idle"}) \cup {"fork"}, to.at = "end", to.i = 0,
         to.shmid = main[l].shmid, to.seg = main[l].seg, to.sem = main[l].sem,
         to.printed = main[l].printed, faults' \in Nat,
         UNCHANGED <<api, shm_name, sem_name, memseg, semval, child, met>>
  PROVE  IInv'
<1> USE Numbers
<1>1. TypeOK /\ main[l] \in MainState /\ Running(l) /\ main[l].at \in Before \cup {"fork"}
  BY Fields DEF IInv, Running, Before
<1>3. /\ main'[l] = to /\ \A k \in Launch : k # l => main'[k] = main[k]
      /\ main' \in [Launch -> MainState]
  BY <1>1, MovesEffect
<1>4. /\ faults' \in Nat
      /\ UNCHANGED <<api, shm_name, sem_name, memseg, semval, child, met>>
  OBVIOUS
<1>5. /\ main'[l].at = "end" /\ main'[l].shmid = main[l].shmid /\ main'[l].seg = main[l].seg
      /\ main'[l].sem = main[l].sem /\ main'[l].i = 0
      /\ main'[l].printed = main[l].printed
  BY <1>1, <1>3, Fields DEF MainState
<1>6. UNCHANGED <<api, met>> /\ main'[l].at # "idle"
  BY <1>1, <1>4, <1>5
<1>7. (ChildsPlace /\ Created /\ Alone /\ OwnObjects)'
  BY <1>1, <1>3, <1>4, <1>5, ParentKeeps
<1>8. TypeOK'
  BY <1>1, <1>3, <1>4, <1>6 DEF TypeOK, Object, Empty, Zeros
<1>9. ParentsPlace'
  BY <1>1, <1>3, <1>4, <1>5, <1>6, Fields DEF IInv, ParentsPlace, Before
<1>10. Slots'
  BY <1>1, <1>3, <1>4, <1>5, <1>6, Fields DEF IInv, Slots, ParentsPlace, Before
<1>11. Token'
  BY <1>1, <1>3, <1>4, <1>5, <1>6, Fields DEF IInv, Token, Holds
<1>12. OwnNames'
  BY <1>1, <1>3, <1>4, <1>5, <1>6, Fields DEF IInv, OwnNames, Alone, Running, Busy, Living
<1>13. KeysInUse'
  BY <1>1, <1>3, <1>4, <1>5, <1>6, Fields DEF IInv, KeysInUse, ParentsPlace
<1>14. NamesRemoved'
  BY <1>1, <1>3, <1>4, <1>5, <1>6, Fields DEF IInv, NamesRemoved, Alone, Running
<1>15. Counting'
  BY <1>1, <1>3, <1>4, <1>5, <1>6, Fields DEF IInv, Counting, Counts, Undisturbed,
     Unshared, Alone, Running, Busy, ParentsPlace
<1>16. ExactCount'
  BY <1>1, <1>3, <1>4, <1>5, <1>6, Fields DEF IInv, ExactCount, Undisturbed, Unshared,
     ParentsPlace, Slots
<1> QED
  BY <1>7, <1>8, <1>9, <1>10, <1>11, <1>12, <1>13, <1>14, <1>15, <1>16 DEF IInv

\* A call fails, or the key or the name is in use.
LEMMA FailStep ==
  ASSUME IInv, NEW l \in Launch,
         \/ CallFails(l) \/ (ShmGet(l) /\ shm_name # None)
         \/ (SemCreate(l) /\ sem_name # None)
  PROVE  IInv'
<1> DEFINE to(n) == [main[l] EXCEPT !.at = "end", !.failed = TRUE, !.i = 0, !.named = n]
<1>1. main[l] \in MainState /\ main[l].i \in 0 .. Procs /\ faults \in Nat /\ 0 \in 0 .. Procs
  BY Fields, Numbers DEF IInv, TypeOK
<1>2. ASSUME NEW n \in BOOLEAN
      PROVE  /\ to(n) \in MainState /\ to(n).at = "end" /\ to(n).i = 0
             /\ to(n).shmid = main[l].shmid /\ to(n).seg = main[l].seg
             /\ to(n).sem = main[l].sem /\ to(n).printed = main[l].printed
  BY <1>1 DEF MainState
<1>3. CASE CallFails(l)
  <2>1. Moves(l, to(main[l].named \/ main[l].at = "sem"))
    BY <1>1, <1>3 DEF CallFails, Moves, MainState
  <2>2. /\ main[l].at \in (Before \ {"idle"}) \cup {"fork"} /\ faults' \in Nat
        /\ UNCHANGED <<api, shm_name, sem_name, memseg, semval, child, met>>
    BY <1>1, <1>3 DEF CallFails, Before
  <2>3. (main[l].named \/ main[l].at = "sem") \in BOOLEAN
    OBVIOUS
  <2> HIDE DEF to
  <2> QED
    BY <1>2, <2>1, <2>2, <2>3, ToEndStep
<1>4. CASE ShmGet(l) /\ shm_name # None
  <2>1. Moves(l, to(main[l].named)) /\ main[l].named \in BOOLEAN
    BY <1>1, <1>4 DEF ShmGet, Fails, Moves, MainState
  <2>2. /\ main[l].at \in (Before \ {"idle"}) \cup {"fork"} /\ faults' \in Nat
        /\ UNCHANGED <<api, shm_name, sem_name, memseg, semval, child, met>>
    BY <1>1, <1>4 DEF ShmGet, Before
  <2> HIDE DEF to
  <2> QED
    BY <1>2, <2>1, <2>2, ToEndStep
<1>5. CASE SemCreate(l) /\ sem_name # None
  <2>1. main[l].i = 0
    BY <1>5 DEF IInv, ParentsPlace, SemCreate, Before
  <2>2. Moves(l, to(TRUE))
    BY <1>1, <1>5, <2>1 DEF SemCreate, Moves, MainState
  <2>3. /\ main[l].at \in (Before \ {"idle"}) \cup {"fork"} /\ faults' \in Nat
        /\ UNCHANGED <<api, shm_name, sem_name, memseg, semval, child, met>>
    BY <1>1, <1>5 DEF SemCreate, Before
  <2> HIDE DEF to
  <2> QED
    BY <1>2, <2>2, <2>3, ToEndStep
<1> QED
  BY <1>3, <1>4, <1>5

\* shm_unlink; IPC_RMID of its own segment.
LEMMA RemoveShmStep ==
  ASSUME IInv, NEW l \in Launch, RemoveShm(l)
  PROVE  IInv'
<1> USE Numbers
<1> DEFINE to == [main[l] EXCEPT !.at = "sem_unlink"]
<1>1. TypeOK /\ main[l] \in MainState /\ Running(l) /\ main[l].at = "unlink"
  BY Fields DEF IInv, Running, RemoveShm
<1>2. to \in MainState
  BY <1>1 DEF MainState, Object
<1>3. /\ main'[l] = to /\ \A k \in Launch : k # l => main'[k] = main[k]
      /\ main' \in [Launch -> MainState]
  BY <1>1, <1>2, MovesEffect DEF RemoveShm, Goes, Fails
<1>4. /\ shm_name' = IF api = "posix" \/ shm_name = main[l].shmid THEN None ELSE shm_name
      /\ UNCHANGED <<api, sem_name, memseg, semval, child, met, faults>>
  BY <1>1 DEF RemoveShm
<1>5. /\ main'[l].at = "sem_unlink" /\ main'[l].shmid = main[l].shmid /\ main'[l].seg = main[l].seg
      /\ main'[l].sem = main[l].sem /\ main'[l].i = main[l].i /\ main'[l].named = main[l].named
      /\ main'[l].printed = main[l].printed
  BY <1>1, <1>3, Fields DEF MainState
<1> HIDE DEF to
<1>6. UNCHANGED <<api, met>> /\ main'[l].at # "idle"
  BY <1>1, <1>4, <1>5
<1>7. (ChildsPlace /\ Created /\ Alone /\ OwnObjects)'
  BY <1>1, <1>3, <1>4, <1>5, ParentKeeps
<1>8. TypeOK'
  BY <1>1, <1>3, <1>4, <1>6 DEF TypeOK, Object, Empty, Zeros
<1>9. ParentsPlace'
  BY <1>1, <1>3, <1>4, <1>5, <1>6, Fields DEF IInv, ParentsPlace, Before
<1>10. Slots'
  BY <1>1, <1>3, <1>4, <1>5, <1>6, Fields DEF IInv, Slots, ParentsPlace, Before
<1>11. Token'
  BY <1>1, <1>3, <1>4, <1>5, <1>6, Fields DEF IInv, Token, Holds
<1>12. OwnNames'
  BY <1>1, <1>3, <1>4, <1>5, <1>6, Fields DEF IInv, OwnNames, Alone, Running, Busy, Living
<1>13. KeysInUse'
  BY <1>1, <1>3, <1>4, <1>5, <1>6, Fields DEF IInv, KeysInUse, ParentsPlace
<1>14. NamesRemoved'
  BY <1>1, <1>3, <1>4, <1>5, <1>6, Fields DEF IInv, NamesRemoved, Alone, Running
<1>15. Counting'
  BY <1>1, <1>3, <1>4, <1>5, <1>6, Fields DEF IInv, Counting, Counts, Undisturbed,
     Unshared, Alone, Running, Busy, ParentsPlace
<1>16. ExactCount'
  BY <1>1, <1>3, <1>4, <1>5, <1>6, Fields DEF IInv, ExactCount, Undisturbed, Unshared,
     ParentsPlace, Slots
<1> QED
  BY <1>7, <1>8, <1>9, <1>10, <1>11, <1>12, <1>13, <1>14, <1>15, <1>16 DEF IInv

\* sem_unlink; IPC_RMID of its own set.
LEMMA RemoveSemStep ==
  ASSUME IInv, NEW l \in Launch, RemoveSem(l)
  PROVE  IInv'
<1> USE Numbers
<1> DEFINE to == [main[l] EXCEPT !.at = "done"]
<1>1. TypeOK /\ main[l] \in MainState /\ Running(l) /\ main[l].at = "sem_unlink"
  BY Fields DEF IInv, Running, RemoveSem
<1>2. to \in MainState
  BY <1>1 DEF MainState, Object
<1>3. /\ main'[l] = to /\ \A k \in Launch : k # l => main'[k] = main[k]
      /\ main' \in [Launch -> MainState]
  BY <1>1, <1>2, MovesEffect DEF RemoveSem, Goes, Fails
<1>4. /\ sem_name' = IF RemovesSem(l) THEN None ELSE sem_name
      /\ UNCHANGED <<api, shm_name, memseg, semval, child, met, faults>>
  BY <1>1 DEF RemoveSem
<1>5. /\ main'[l].at = "done" /\ main'[l].shmid = main[l].shmid /\ main'[l].seg = main[l].seg
      /\ main'[l].sem = main[l].sem /\ main'[l].i = main[l].i /\ main'[l].named = main[l].named
      /\ main'[l].printed = main[l].printed
  BY <1>1, <1>3, Fields DEF MainState
<1> HIDE DEF to
<1>6. UNCHANGED <<api, met>> /\ main'[l].at # "idle"
  BY <1>1, <1>4, <1>5
<1>7. (ChildsPlace /\ Created /\ Alone /\ OwnObjects)'
  BY <1>1, <1>3, <1>4, <1>5, ParentKeeps
<1>8. TypeOK'
  BY <1>1, <1>3, <1>4, <1>6 DEF TypeOK, Object, Empty, Zeros
<1>9. ParentsPlace'
  BY <1>1, <1>3, <1>4, <1>5, <1>6, Fields DEF IInv, ParentsPlace, Before
<1>10. Slots'
  BY <1>1, <1>3, <1>4, <1>5, <1>6, Fields DEF IInv, Slots, ParentsPlace, Before
<1>11. Token'
  BY <1>1, <1>3, <1>4, <1>5, <1>6, Fields DEF IInv, Token, Holds
<1>12. OwnNames'
  BY <1>1, <1>3, <1>4, <1>5, <1>6, Fields DEF IInv, OwnNames, Alone, Running, Busy, Living
<1>13. KeysInUse'
  BY <1>1, <1>3, <1>4, <1>5, <1>6, Fields DEF IInv, KeysInUse, Created, RemovesSem
<1>14. NamesRemoved'
  BY <1>1, <1>3, <1>4, <1>5, <1>6, Fields DEF IInv, NamesRemoved, Alone, Running, RemovesSem
<1>15. Counting'
  BY <1>1, <1>3, <1>4, <1>5, <1>6, Fields DEF IInv, Counting, Counts, Undisturbed,
     Unshared, Alone, Running, Busy, ParentsPlace
<1>16. ExactCount'
  BY <1>1, <1>3, <1>4, <1>5, <1>6, Fields DEF IInv, ExactCount, Undisturbed, Unshared,
     ParentsPlace, Slots
<1> QED
  BY <1>7, <1>8, <1>9, <1>10, <1>11, <1>12, <1>13, <1>14, <1>15, <1>16 DEF IInv

\* shmget creates a segment of zeros.
LEMMA ShmGetNewStep ==
  ASSUME IInv, NEW l \in Launch, ShmGet(l), shm_name = None
  PROVE  IInv'
<1> USE Numbers
<1> DEFINE to == [main[l] EXCEPT !.at = "sem", !.shmid = l]
<1>1. TypeOK /\ main[l] \in MainState /\ Running(l) /\ main[l].at = "shm"
      /\ api = "sysv" /\ main[l].shmid = None
  BY Fields DEF IInv, Running, ShmGet, ParentsPlace
<1>2. to \in MainState
  BY <1>1 DEF MainState, Object
<1>3. /\ main'[l] = to /\ \A k \in Launch : k # l => main'[k] = main[k]
      /\ main' \in [Launch -> MainState]
  BY <1>1, <1>2, MovesEffect DEF ShmGet, Goes, Fails
<1>4. /\ shm_name' = l /\ memseg' = [memseg EXCEPT ![l] = Zeros]
      /\ UNCHANGED <<api, sem_name, semval, child, met, faults>>
  BY <1>1 DEF ShmGet
<1>5. /\ main'[l].at = "sem" /\ main'[l].shmid = l /\ main'[l].seg = main[l].seg
      /\ main'[l].sem = main[l].sem /\ main'[l].i = main[l].i /\ main'[l].named = main[l].named
      /\ main'[l].printed = main[l].printed
  BY <1>1, <1>3, Fields DEF MainState
<1> HIDE DEF to
<1>6. UNCHANGED <<api, met>> /\ main'[l].at # "idle"
  BY <1>1, <1>4, <1>5
<1>7. (ChildsPlace /\ Created /\ Alone /\ OwnObjects)'
  BY <1>1, <1>3, <1>4, <1>5, ParentKeeps
<1>8. TypeOK'
  BY <1>1, <1>3, <1>4, <1>6 DEF TypeOK, Object, Empty, Zeros
<1>9. ParentsPlace'
  BY <1>1, <1>3, <1>4, <1>5, <1>6, Fields DEF IInv, ParentsPlace, Before
<1>10. Slots'
  BY <1>1, <1>3, <1>4, <1>5, <1>6, Fields DEF IInv, Slots, ParentsPlace, Before
<1>11. Token'
  BY <1>1, <1>3, <1>4, <1>5, <1>6, Fields DEF IInv, Token, Holds
<1>12. OwnNames'
  BY <1>1, <1>3, <1>4, <1>5, <1>6, Fields DEF IInv, OwnNames, Alone, Running, Busy, Living
<1>13. KeysInUse'
  BY <1>1, <1>3, <1>4, <1>5, <1>6, Fields DEF IInv, KeysInUse, ParentsPlace
<1>14. NamesRemoved'
  BY <1>1, <1>3, <1>4, <1>5, <1>6, Fields DEF IInv, NamesRemoved, Alone, Running
<1>15. Counting'
  BY <1>1, <1>3, <1>4, <1>5, <1>6, Fields DEF IInv, Counting, Counts, Undisturbed,
     Unshared, Alone, Running, Busy, ParentsPlace
<1>16. ExactCount'
  BY <1>1, <1>3, <1>4, <1>5, <1>6, Fields DEF IInv, ExactCount, Undisturbed, Unshared,
     ParentsPlace, Slots
<1> QED
  BY <1>7, <1>8, <1>9, <1>10, <1>11, <1>12, <1>13, <1>14, <1>15, <1>16 DEF IInv

\* The counter is cleared and the cap stored; a launch that is alone has no rival.
LEMMA AttachPosixStep ==
  ASSUME IInv, NEW l \in Launch, Attach(l), memseg[main[l].shmid].sized, api = "posix"
  PROVE  IInv'
<1> USE Numbers
<1> DEFINE to == [main[l] EXCEPT !.at = "sem", !.seg = main[l].shmid]
<1>1. TypeOK /\ main[l] \in MainState /\ Running(l) /\ main[l].at = "map"
      /\ main[l].shmid \in Launch
  BY Fields DEF IInv, Running, Attach, ParentsPlace
<1>2. to \in MainState
  BY <1>1 DEF MainState, Object
<1>3. /\ main'[l] = to /\ \A k \in Launch : k # l => main'[k] = main[k]
      /\ main' \in [Launch -> MainState]
  BY <1>1, <1>2, MovesEffect DEF Attach, Goes, Fails
<1>4. /\ memseg' = [memseg EXCEPT ![main[l].shmid] = [@ EXCEPT !.val = 0, !.cap = Cap]]
      /\ UNCHANGED <<api, shm_name, sem_name, semval, child, met, faults>>
  BY <1>1 DEF Attach
<1>5. /\ main'[l].at = "sem" /\ main'[l].shmid = main[l].shmid /\ main'[l].seg = main[l].shmid
      /\ main'[l].sem = main[l].sem /\ main'[l].i = main[l].i /\ main'[l].named = main[l].named
      /\ main'[l].printed = main[l].printed
  BY <1>1, <1>3, Fields DEF MainState
<1> HIDE DEF to
<1>6. UNCHANGED <<api, met>> /\ main'[l].at # "idle"
  BY <1>1, <1>4, <1>5
<1>7. (ChildsPlace /\ Created /\ Alone /\ OwnObjects)'
  BY <1>1, <1>3, <1>4, <1>5, ParentKeeps
<1>8. TypeOK'
  <2>0. memseg[main[l].shmid] \in [sized : BOOLEAN, val : Nat, cap : Nat] /\ Cap \in Nat /\ 0 \in Nat
    BY <1>1 DEF TypeOK
  <2>1. [memseg[main[l].shmid] EXCEPT !.val = 0, !.cap = Cap] \in [sized : BOOLEAN, val : Nat, cap : Nat]
    BY ONLY <2>0
  <2>2. memseg' \in [Launch -> [sized : BOOLEAN, val : Nat, cap : Nat]]
    BY <1>1, <1>4, <2>1 DEF TypeOK
  <2> QED
    BY <1>1, <1>3, <1>4, <1>6, <2>2 DEF TypeOK, Object
<1>9. ParentsPlace'
  BY <1>1, <1>3, <1>4, <1>5, <1>6, Fields DEF IInv, ParentsPlace, Before
<1>10. Slots'
  BY <1>1, <1>3, <1>4, <1>5, <1>6, Fields DEF IInv, Slots, ParentsPlace, Before
<1>11. Token'
  BY <1>1, <1>3, <1>4, <1>5, <1>6, Fields DEF IInv, Token, Holds
<1>12. OwnNames'
  BY <1>1, <1>3, <1>4, <1>5, <1>6, Fields DEF IInv, OwnNames, Alone, Running, Busy, Living
<1>13. KeysInUse'
  BY <1>1, <1>3, <1>4, <1>5, <1>6, Fields DEF IInv, KeysInUse, ParentsPlace
<1>14. NamesRemoved'
  BY <1>1, <1>3, <1>4, <1>5, <1>6, Fields DEF IInv, NamesRemoved, Alone, Running
<1>15. Counting'
  <2>1. /\ memseg'[main[l].shmid].sized /\ memseg'[main[l].shmid].cap = Cap
        /\ memseg'[main[l].shmid].val = 0
        /\ \A o \in Launch : o # main[l].shmid => memseg'[o] = memseg[o]
    BY <1>1, <1>4 DEF TypeOK
  <2>2. \A c \in Child : child'[l][c].at = "none"
    BY <1>1, <1>4 DEF IInv, ParentsPlace, Before
  <2>3. Counts(l)'
    BY <1>5, <2>1, <2>2 DEF Counts
  <2>4. ASSUME NEW k \in Launch, k # l, Undisturbed(k), Counts(k) PROVE Counts(k)'
    BY <1>1, <1>3, <1>4, <1>5, <1>6, Fields, <2>1, <2>4 DEF IInv, Counts, Undisturbed,
       Alone, Running, Busy, ParentsPlace
  <2>5. \A k \in Launch :
          k # l /\ Undisturbed(k)' /\ Unshared(k)' => Undisturbed(k) /\ Unshared(k)
    BY <1>1, <1>3, <1>4, <1>5, <1>6, Fields DEF Undisturbed, Unshared
  <2> QED
    BY <2>3, <2>4, <2>5 DEF IInv, Counting
<1>16. ExactCount'
  <2>1. \A c \in Child : child'[l][c].at = "none"
    BY <1>1, <1>4 DEF IInv, ParentsPlace, Before
  <2> QED
    BY <1>1, <1>3, <1>4, <1>5, <1>6, Fields, <2>1 DEF IInv, ExactCount, Undisturbed, Unshared
<1> QED
  BY <1>7, <1>8, <1>9, <1>10, <1>11, <1>12, <1>13, <1>14, <1>15, <1>16 DEF IInv

\* The counter is cleared and the cap stored in a segment of its own.
LEMMA AttachSysvStep ==
  ASSUME IInv, NEW l \in Launch, Attach(l), memseg[main[l].shmid].sized, api = "sysv"
  PROVE  IInv'
<1> USE Numbers
<1> DEFINE to == [main[l] EXCEPT !.at = "setval", !.seg = main[l].shmid]
<1>1. TypeOK /\ main[l] \in MainState /\ Running(l) /\ main[l].at = "map"
      /\ main[l].shmid \in Launch
  BY Fields DEF IInv, Running, Attach, ParentsPlace
<1>2. to \in MainState
  BY <1>1 DEF MainState, Object
<1>3. /\ main'[l] = to /\ \A k \in Launch : k # l => main'[k] = main[k]
      /\ main' \in [Launch -> MainState]
  BY <1>1, <1>2, MovesEffect DEF Attach, Goes, Fails
<1>4. /\ memseg' = [memseg EXCEPT ![main[l].shmid] = [@ EXCEPT !.val = 0, !.cap = Cap]]
      /\ UNCHANGED <<api, shm_name, sem_name, semval, child, met, faults>>
  BY <1>1 DEF Attach
<1>5. /\ main'[l].at = "setval" /\ main'[l].shmid = main[l].shmid /\ main'[l].seg = main[l].shmid
      /\ main'[l].sem = main[l].sem /\ main'[l].i = main[l].i /\ main'[l].named = main[l].named
      /\ main'[l].printed = main[l].printed
  BY <1>1, <1>3, Fields DEF MainState
<1> HIDE DEF to
<1>6. UNCHANGED <<api, met>> /\ main'[l].at # "idle"
  BY <1>1, <1>4, <1>5
<1>7. (ChildsPlace /\ Created /\ Alone /\ OwnObjects)'
  BY <1>1, <1>3, <1>4, <1>5, ParentKeeps
<1>8. TypeOK'
  <2>0. memseg[main[l].shmid] \in [sized : BOOLEAN, val : Nat, cap : Nat] /\ Cap \in Nat /\ 0 \in Nat
    BY <1>1 DEF TypeOK
  <2>1. [memseg[main[l].shmid] EXCEPT !.val = 0, !.cap = Cap] \in [sized : BOOLEAN, val : Nat, cap : Nat]
    BY ONLY <2>0
  <2>2. memseg' \in [Launch -> [sized : BOOLEAN, val : Nat, cap : Nat]]
    BY <1>1, <1>4, <2>1 DEF TypeOK
  <2> QED
    BY <1>1, <1>3, <1>4, <1>6, <2>2 DEF TypeOK, Object
<1>9. ParentsPlace'
  BY <1>1, <1>3, <1>4, <1>5, <1>6, Fields DEF IInv, ParentsPlace, Before
<1>10. Slots'
  BY <1>1, <1>3, <1>4, <1>5, <1>6, Fields DEF IInv, Slots, ParentsPlace, Before
<1>11. Token'
  BY <1>1, <1>3, <1>4, <1>5, <1>6, Fields DEF IInv, Token, Holds
<1>12. OwnNames'
  BY <1>1, <1>3, <1>4, <1>5, <1>6, Fields DEF IInv, OwnNames, Alone, Running, Busy, Living
<1>13. KeysInUse'
  BY <1>1, <1>3, <1>4, <1>5, <1>6, Fields DEF IInv, KeysInUse, ParentsPlace
<1>14. NamesRemoved'
  BY <1>1, <1>3, <1>4, <1>5, <1>6, Fields DEF IInv, NamesRemoved, Alone, Running
<1>15. Counting'
  <2>1. /\ memseg'[main[l].shmid].sized /\ memseg'[main[l].shmid].cap = Cap
        /\ memseg'[main[l].shmid].val = 0
        /\ \A o \in Launch : o # main[l].shmid => memseg'[o] = memseg[o]
    BY <1>1, <1>4 DEF TypeOK
  <2>2. \A c \in Child : child'[l][c].at = "none"
    BY <1>1, <1>4 DEF IInv, ParentsPlace, Before
  <2>3. Counts(l)'
    BY <1>5, <2>1, <2>2 DEF Counts
  <2>4. ASSUME NEW k \in Launch, k # l, Undisturbed(k), Counts(k) PROVE Counts(k)'
    BY <1>1, <1>3, <1>4, <1>5, <1>6, Fields, <2>1, <2>4 DEF IInv, Counts, Undisturbed,
       Alone, Running, Busy, ParentsPlace
  <2>5. \A k \in Launch :
          k # l /\ Undisturbed(k)' /\ Unshared(k)' => Undisturbed(k) /\ Unshared(k)
    BY <1>1, <1>3, <1>4, <1>5, <1>6, Fields DEF Undisturbed, Unshared
  <2> QED
    BY <2>3, <2>4, <2>5 DEF IInv, Counting
<1>16. ExactCount'
  <2>1. \A c \in Child : child'[l][c].at = "none"
    BY <1>1, <1>4 DEF IInv, ParentsPlace, Before
  <2> QED
    BY <1>1, <1>3, <1>4, <1>5, <1>6, Fields, <2>1 DEF IInv, ExactCount, Undisturbed, Unshared
<1> QED
  BY <1>7, <1>8, <1>9, <1>10, <1>11, <1>12, <1>13, <1>14, <1>15, <1>16 DEF IInv

\* A new POSIX semaphore has its token and no holder.
LEMMA SemCreatePosixStep ==
  ASSUME IInv, NEW l \in Launch, SemCreate(l), sem_name = None, api = "posix"
  PROVE  IInv'
<1> USE Numbers
<1> DEFINE to == [main[l] EXCEPT !.at = "fork", !.sem = l, !.named = TRUE]
<1>1. TypeOK /\ main[l] \in MainState /\ Running(l) /\ main[l].at = "sem"
  BY Fields DEF IInv, Running, SemCreate
<1>2. to \in MainState
  BY <1>1 DEF MainState, Object
<1>3. /\ main'[l] = to /\ \A k \in Launch : k # l => main'[k] = main[k]
      /\ main' \in [Launch -> MainState]
  BY <1>1, <1>2, MovesEffect DEF SemCreate, Goes, Fails
<1>4. /\ sem_name' = l /\ semval' = [semval EXCEPT ![l] = 1]
      /\ UNCHANGED <<api, shm_name, memseg, child, met, faults>>
  BY <1>1 DEF SemCreate
<1>5. /\ main'[l].at = "fork" /\ main'[l].shmid = main[l].shmid /\ main'[l].seg = main[l].seg
      /\ main'[l].sem = l /\ main'[l].i = main[l].i /\ main'[l].named = TRUE
      /\ main'[l].printed = main[l].printed
  BY <1>1, <1>3, Fields DEF MainState
<1> HIDE DEF to
<1>6. UNCHANGED <<api, met>> /\ main'[l].at # "idle"
  BY <1>1, <1>4, <1>5
<1>7. (ChildsPlace /\ Created /\ Alone /\ OwnObjects)'
  BY <1>1, <1>3, <1>4, <1>5, ParentKeeps
<1>8. TypeOK'
  BY <1>1, <1>3, <1>4, <1>6 DEF TypeOK, Object, Empty, Zeros
<1>9. ParentsPlace'
  BY <1>1, <1>3, <1>4, <1>5, <1>6, Fields DEF IInv, ParentsPlace, Before
<1>10. Slots'
  BY <1>1, <1>3, <1>4, <1>5, <1>6, Fields DEF IInv, Slots, ParentsPlace, Before
<1>11. Token'
  <2>1. \A k \in Launch, c \in Child : Holds(k, c) => child[k][c].sem # l
    BY <1>1, Fields DEF IInv, Created, ParentsPlace
  <2> QED
    BY <1>1, <1>4, <2>1, Fields DEF IInv, Token, Holds, TypeOK
<1>12. OwnNames'
  BY <1>1, <1>3, <1>4, <1>5, <1>6, Fields DEF IInv, OwnNames, Alone, Running, Busy, Living
<1>13. KeysInUse'
  BY <1>1, <1>3, <1>4, <1>5, <1>6, Fields DEF IInv, KeysInUse, ParentsPlace
<1>14. NamesRemoved'
  BY <1>1, <1>3, <1>4, <1>5, <1>6, Fields DEF IInv, NamesRemoved, Alone, Running
<1>15. Counting'
  BY <1>1, <1>3, <1>4, <1>5, <1>6, Fields DEF IInv, Counting, Counts, Undisturbed,
     Unshared, Alone, Running, Busy, ParentsPlace
<1>16. ExactCount'
  BY <1>1, <1>3, <1>4, <1>5, <1>6, Fields DEF IInv, ExactCount, Undisturbed, Unshared,
     ParentsPlace, Slots
<1> QED
  BY <1>7, <1>8, <1>9, <1>10, <1>11, <1>12, <1>13, <1>14, <1>15, <1>16 DEF IInv

\* A new System V semaphore has no token and no holder.
LEMMA SemCreateSysvStep ==
  ASSUME IInv, NEW l \in Launch, SemCreate(l), sem_name = None, api = "sysv"
  PROVE  IInv'
<1> USE Numbers
<1> DEFINE to == [main[l] EXCEPT !.at = "map", !.sem = l, !.named = TRUE]
<1>1. TypeOK /\ main[l] \in MainState /\ Running(l) /\ main[l].at = "sem"
  BY Fields DEF IInv, Running, SemCreate
<1>2. to \in MainState
  BY <1>1 DEF MainState, Object
<1>3. /\ main'[l] = to /\ \A k \in Launch : k # l => main'[k] = main[k]
      /\ main' \in [Launch -> MainState]
  BY <1>1, <1>2, MovesEffect DEF SemCreate, Goes, Fails
<1>4. /\ sem_name' = l /\ semval' = [semval EXCEPT ![l] = 0]
      /\ UNCHANGED <<api, shm_name, memseg, child, met, faults>>
  BY <1>1 DEF SemCreate
<1>5. /\ main'[l].at = "map" /\ main'[l].shmid = main[l].shmid /\ main'[l].seg = main[l].seg
      /\ main'[l].sem = l /\ main'[l].i = main[l].i /\ main'[l].named = TRUE
      /\ main'[l].printed = main[l].printed
  BY <1>1, <1>3, Fields DEF MainState
<1> HIDE DEF to
<1>6. UNCHANGED <<api, met>> /\ main'[l].at # "idle"
  BY <1>1, <1>4, <1>5
<1>7. (ChildsPlace /\ Created /\ Alone /\ OwnObjects)'
  BY <1>1, <1>3, <1>4, <1>5, ParentKeeps
<1>8. TypeOK'
  BY <1>1, <1>3, <1>4, <1>6 DEF TypeOK, Object, Empty, Zeros
<1>9. ParentsPlace'
  BY <1>1, <1>3, <1>4, <1>5, <1>6, Fields DEF IInv, ParentsPlace, Before
<1>10. Slots'
  BY <1>1, <1>3, <1>4, <1>5, <1>6, Fields DEF IInv, Slots, ParentsPlace, Before
<1>11. Token'
  <2>1. \A k \in Launch, c \in Child : Holds(k, c) => child[k][c].sem # l
    BY <1>1, Fields DEF IInv, Created, ParentsPlace
  <2> QED
    BY <1>1, <1>4, <2>1, Fields DEF IInv, Token, Holds, TypeOK
<1>12. OwnNames'
  BY <1>1, <1>3, <1>4, <1>5, <1>6, Fields DEF IInv, OwnNames, Alone, Running, Busy, Living
<1>13. KeysInUse'
  BY <1>1, <1>3, <1>4, <1>5, <1>6, Fields DEF IInv, KeysInUse, ParentsPlace
<1>14. NamesRemoved'
  BY <1>1, <1>3, <1>4, <1>5, <1>6, Fields DEF IInv, NamesRemoved, Alone, Running
<1>15. Counting'
  BY <1>1, <1>3, <1>4, <1>5, <1>6, Fields DEF IInv, Counting, Counts, Undisturbed,
     Unshared, Alone, Running, Busy, ParentsPlace
<1>16. ExactCount'
  BY <1>1, <1>3, <1>4, <1>5, <1>6, Fields DEF IInv, ExactCount, Undisturbed, Unshared,
     ParentsPlace, Slots
<1> QED
  BY <1>7, <1>8, <1>9, <1>10, <1>11, <1>12, <1>13, <1>14, <1>15, <1>16 DEF IInv

\* A launch that has not mapped the segment prints nothing.
LEMMA PrintNothingStep ==
  ASSUME IInv, NEW l \in Launch, PrintVal(l), main[l].seg = None
  PROVE  IInv'
<1> USE Numbers
<1> DEFINE to == [main[l] EXCEPT !.at = "unlink"]
<1>1. TypeOK /\ main[l] \in MainState /\ Running(l) /\ main[l].at = "end" /\ main[l].i = Procs
  BY Fields DEF IInv, Running, PrintVal
<1>2. to \in MainState
  BY <1>1 DEF MainState, Object
<1>3. /\ main'[l] = to /\ \A k \in Launch : k # l => main'[k] = main[k]
      /\ main' \in [Launch -> MainState]
  BY <1>1, <1>2, MovesEffect DEF PrintVal, Goes, Fails
<1>4. UNCHANGED <<api, shm_name, memseg, sem_name, semval, child, met, faults>>
  BY <1>1 DEF PrintVal
<1>5. /\ main'[l].at = "unlink" /\ main'[l].shmid = main[l].shmid /\ main'[l].seg = main[l].seg
      /\ main'[l].sem = main[l].sem /\ main'[l].i = main[l].i /\ main'[l].named = main[l].named
      /\ main'[l].printed = main[l].printed
  BY <1>1, <1>3, Fields DEF MainState
<1> HIDE DEF to
<1>6. UNCHANGED <<api, met>> /\ main'[l].at # "idle"
  BY <1>1, <1>4, <1>5
<1>7. (ChildsPlace /\ Created /\ Alone /\ OwnObjects)'
  BY <1>1, <1>3, <1>4, <1>5, ParentKeeps
<1>8. TypeOK'
  BY <1>1, <1>3, <1>4, <1>6 DEF TypeOK, Object, Empty, Zeros
<1>9. ParentsPlace'
  BY <1>1, <1>3, <1>4, <1>5, <1>6, Fields DEF IInv, ParentsPlace, Before
<1>10. Slots'
  BY <1>1, <1>3, <1>4, <1>5, <1>6, Fields DEF IInv, Slots, ParentsPlace, Before
<1>11. Token'
  BY <1>1, <1>3, <1>4, <1>5, <1>6, Fields DEF IInv, Token, Holds
<1>12. OwnNames'
  BY <1>1, <1>3, <1>4, <1>5, <1>6, Fields DEF IInv, OwnNames, Alone, Running, Busy, Living
<1>13. KeysInUse'
  BY <1>1, <1>3, <1>4, <1>5, <1>6, Fields DEF IInv, KeysInUse, ParentsPlace
<1>14. NamesRemoved'
  BY <1>1, <1>3, <1>4, <1>5, <1>6, Fields DEF IInv, NamesRemoved, Alone, Running
<1>15. Counting'
  BY <1>1, <1>3, <1>4, <1>5, <1>6, Fields DEF IInv, Counting, Counts, Undisturbed,
     Unshared, Alone, Running, Busy, ParentsPlace
<1>16. ExactCount'
  BY <1>1, <1>3, <1>4, <1>5, <1>6, Fields DEF IInv, ExactCount, Undisturbed, Unshared,
     ParentsPlace, Slots
<1> QED
  BY <1>7, <1>8, <1>9, <1>10, <1>11, <1>12, <1>13, <1>14, <1>15, <1>16 DEF IInv

\* The counter is printed when every child is over.
LEMMA PrintCounterStep ==
  ASSUME IInv, NEW l \in Launch, PrintVal(l), main[l].seg # None, memseg[main[l].seg].sized
  PROVE  IInv'
<1> USE Numbers
<1> DEFINE to == [main[l] EXCEPT !.at = "unlink", !.printed = memseg[main[l].seg].val]
<1>1. TypeOK /\ main[l] \in MainState /\ Running(l) /\ main[l].at = "end"
      /\ main[l].i = Procs /\ memseg[main[l].seg].val \in Nat
  BY Fields DEF IInv, Running, PrintVal
<1>2. to \in MainState
  BY <1>1 DEF MainState, Object
<1>3. /\ main'[l] = to /\ \A k \in Launch : k # l => main'[k] = main[k]
      /\ main' \in [Launch -> MainState]
  BY <1>1, <1>2, MovesEffect DEF PrintVal, Goes, Fails
<1>4. UNCHANGED <<api, shm_name, memseg, sem_name, semval, child, met, faults>>
  BY <1>1 DEF PrintVal
<1>5. /\ main'[l].at = "unlink" /\ main'[l].shmid = main[l].shmid /\ main'[l].seg = main[l].seg
      /\ main'[l].sem = main[l].sem /\ main'[l].i = main[l].i /\ main'[l].named = main[l].named
      /\ main'[l].printed = memseg[main[l].seg].val
  BY <1>1, <1>3, Fields DEF MainState
<1> HIDE DEF to
<1>6. UNCHANGED <<api, met>> /\ main'[l].at # "idle"
  BY <1>1, <1>4, <1>5
<1>7. (ChildsPlace /\ Created /\ Alone /\ OwnObjects)'
  BY <1>1, <1>3, <1>4, <1>5, ParentKeeps
<1>8. TypeOK'
  BY <1>1, <1>3, <1>4, <1>6 DEF TypeOK, Object, Empty, Zeros
<1>9. ParentsPlace'
  BY <1>1, <1>3, <1>4, <1>5, <1>6, Fields DEF IInv, ParentsPlace, Before
<1>10. Slots'
  BY <1>1, <1>3, <1>4, <1>5, <1>6, Fields DEF IInv, Slots, ParentsPlace, Before
<1>11. Token'
  BY <1>1, <1>3, <1>4, <1>5, <1>6, Fields DEF IInv, Token, Holds
<1>12. OwnNames'
  BY <1>1, <1>3, <1>4, <1>5, <1>6, Fields DEF IInv, OwnNames, Alone, Running, Busy, Living
<1>13. KeysInUse'
  BY <1>1, <1>3, <1>4, <1>5, <1>6, Fields DEF IInv, KeysInUse, ParentsPlace
<1>14. NamesRemoved'
  BY <1>1, <1>3, <1>4, <1>5, <1>6, Fields DEF IInv, NamesRemoved, Alone, Running
<1>15. Counting'
  BY <1>1, <1>3, <1>4, <1>5, <1>6, Fields DEF IInv, Counting, Counts, Undisturbed,
     Unshared, Alone, Running, Busy, ParentsPlace
<1>16. ExactCount'
  BY <1>1, <1>3, <1>4, <1>5, <1>6, Fields DEF IInv, ExactCount, Counting, Counts,
     Undisturbed, Unshared
<1> QED
  BY <1>7, <1>8, <1>9, <1>10, <1>11, <1>12, <1>13, <1>14, <1>15, <1>16 DEF IInv

\* The last child is forked.
LEMMA ForkLastStep ==
  ASSUME IInv, NEW l \in Launch, Fork(l), main[l].i + 1 = Procs
  PROVE  IInv'
<1> USE Numbers
<1> DEFINE to == [main[l] EXCEPT !.at = "end", !.i = 0]
<1>1. TypeOK /\ main[l] \in MainState /\ Running(l) /\ main[l].at = "fork"
      /\ main[l].i + 1 \in Child /\ main[l].i < Procs
  BY Fields DEF IInv, Running, Fork
<1>2. to \in MainState
  BY <1>1 DEF MainState, Object
<1>3. /\ main'[l] = to /\ \A k \in Launch : k # l => main'[k] = main[k]
      /\ main' \in [Launch -> MainState]
  BY <1>1, <1>2, MovesEffect DEF Fork, Goes, Fails
<1>4. /\ child' = [child EXCEPT ![l][main[l].i + 1].at = "open"]
      /\ UNCHANGED <<api, shm_name, sem_name, memseg, semval, met, faults>>
  BY <1>1 DEF Fork
<1>c. /\ child[l][main[l].i + 1].at = "none" /\ child'[l][main[l].i + 1].at = "open"
      /\ \A k \in Launch, d \in Child :
           /\ child'[k][d].seg = child[k][d].seg /\ child'[k][d].sem = child[k][d].sem
           /\ child'[k][d].at = child[k][d].at \/ (k = l /\ d = main[l].i + 1)
           /\ child'[k][d].num = child[k][d].num
  <2>1. child[l][main[l].i + 1].at = "none"
    BY <1>1, Fields DEF IInv, Slots
  <2>2. \A k \in Launch : child[k] \in [Child -> ChildState]
    BY <1>1 DEF TypeOK
  <2>3. child'[l][main[l].i + 1] = [child[l][main[l].i + 1] EXCEPT !.at = "open"]
    BY <1>1, <1>4, <2>2 DEF TypeOK
  <2>4. \A k \in Launch, d \in Child : k # l \/ d # main[l].i + 1 => child'[k][d] = child[k][d]
    BY <1>1, <1>4, <2>2 DEF TypeOK
  <2> QED
    BY <1>1, <2>1, <2>2, <2>3, <2>4, Fields DEF ChildState
<1>5. /\ main'[l].at = "end" /\ main'[l].shmid = main[l].shmid /\ main'[l].seg = main[l].seg
      /\ main'[l].sem = main[l].sem /\ main'[l].i = 0 /\ main'[l].named = main[l].named
      /\ main'[l].printed = main[l].printed
  BY <1>1, <1>3, Fields DEF MainState
<1> HIDE DEF to
<1>6. UNCHANGED <<api, met>> /\ main'[l].at # "idle"
  BY <1>1, <1>4, <1>5
<1>m. /\ UNCHANGED <<api, shm_name, sem_name, memseg, semval, met, faults>>
      /\ \A k \in Launch :
           /\ main'[k].sem = main[k].sem /\ main'[k].seg = main[k].seg
           /\ main'[k].shmid = main[k].shmid /\ (Running(k)' <=> Running(k))
  BY <1>1, <1>3, <1>4, <1>5 DEF Running
<1>7. TypeOK'
  <2>1. [child[l][main[l].i + 1] EXCEPT !.at = "open"] \in ChildState
    BY <1>1, Fields DEF ChildState
  <2>2. child' \in [Launch -> [Child -> ChildState]]
    BY <1>1, <1>4, <2>1 DEF TypeOK
  <2> QED
    BY <1>1, <1>3, <1>4, <1>6, <2>2 DEF TypeOK, Object
<1>8. ParentsPlace'
  BY <1>1, <1>3, <1>4, <1>5, <1>6, <1>c, Fields DEF IInv, ParentsPlace, Before
<1>9. Slots'
  BY <1>1, <1>3, <1>4, <1>5, <1>6, <1>c, Fields DEF IInv, Slots, ParentsPlace, Before
<1>10. ChildsPlace'
  <2>1. main[l].sem = l /\ main[l].seg # None
    BY <1>1 DEF IInv, ParentsPlace
  <2>2. child[l][main[l].i + 1].sem = None /\ child[l][main[l].i + 1].seg = None
    BY <1>1, <1>c DEF IInv, ChildsPlace
  <2> QED
    BY <1>c, <1>m, <2>1, <2>2 DEF IInv, ChildsPlace, Critical
<1>11. Created'
  BY <1>1, <1>c, <1>m, Fields DEF IInv, Created
<1>12. Token'
  BY <1>1, <1>3, <1>4, <1>5, <1>6, <1>c, Fields DEF IInv, Token, Holds, Critical
<1>13. Alone'
  BY <1>1, <1>3, <1>4, <1>5, AloneKept DEF Living
<1>14. OwnNames'
  BY <1>1, <1>3, <1>4, <1>5, <1>6, <1>c, Fields DEF IInv, OwnNames, Alone, Running, Busy, Living
<1>15. OwnObjects'
  BY <1>c, <1>m DEF IInv, OwnObjects, Undisturbed
<1>16. KeysInUse'
  BY <1>1, <1>3, <1>4, <1>5, <1>6, <1>c, Fields DEF IInv, KeysInUse, ParentsPlace
<1>17. NamesRemoved'
  BY <1>1, <1>3, <1>4, <1>5, <1>6, <1>c, Fields DEF IInv, NamesRemoved, Alone, Running
<1>18. Counting'
  <2> SUFFICES ASSUME NEW k \in Launch, Undisturbed(k)', Unshared(k)' PROVE Counts(k)'
    BY DEF Counting
  <2>1. Undisturbed(k) /\ Unshared(k)
    BY <1>c, <1>m DEF Undisturbed, Unshared
  <2>2. Counts(k)
    BY <2>1 DEF IInv, Counting
  <2>3. \A d \in Child : child'[k][d].at \in {"store", "done"}
          => child'[k][d].at = child[k][d].at /\ child'[k][d].num = child[k][d].num
    BY <1>c
  <2> QED
    BY <1>m, <2>2, <2>3 DEF Counts
<1>19. ExactCount'
  <2>1. \A k \in Launch : main'[k].printed = main[k].printed
    BY <1>1, <1>3, <1>5
  <2>2. \A k \in Launch, d \in Child : child'[k][d].at = "done" => child[k][d].at = "done"
    BY <1>c
  <2>3. \A k \in Launch : Undisturbed(k)' /\ Unshared(k)' => Undisturbed(k) /\ Unshared(k)
    BY <1>c, <1>m DEF Undisturbed, Unshared
  <2> QED
    BY <2>1, <2>2, <2>3 DEF IInv, ExactCount
<1> QED
  BY <1>7, <1>8, <1>9, <1>10, <1>11, <1>12, <1>13, <1>14, <1>15, <1>16, <1>17, <1>18,
     <1>19 DEF IInv

\* Another child is forked.
LEMMA ForkMoreStep ==
  ASSUME IInv, NEW l \in Launch, Fork(l), main[l].i + 1 # Procs
  PROVE  IInv'
<1> USE Numbers
<1> DEFINE to == [main[l] EXCEPT !.i = main[l].i + 1]
<1>1. TypeOK /\ main[l] \in MainState /\ Running(l) /\ main[l].at = "fork"
      /\ main[l].i + 1 \in Child /\ main[l].i < Procs
  BY Fields DEF IInv, Running, Fork
<1>2. to \in MainState
  BY <1>1 DEF MainState, Object
<1>3. /\ main'[l] = to /\ \A k \in Launch : k # l => main'[k] = main[k]
      /\ main' \in [Launch -> MainState]
  BY <1>1, <1>2, MovesEffect DEF Fork, Goes, Fails
<1>4. /\ child' = [child EXCEPT ![l][main[l].i + 1].at = "open"]
      /\ UNCHANGED <<api, shm_name, sem_name, memseg, semval, met, faults>>
  BY <1>1 DEF Fork
<1>c. /\ child[l][main[l].i + 1].at = "none" /\ child'[l][main[l].i + 1].at = "open"
      /\ \A k \in Launch, d \in Child :
           /\ child'[k][d].seg = child[k][d].seg /\ child'[k][d].sem = child[k][d].sem
           /\ child'[k][d].at = child[k][d].at \/ (k = l /\ d = main[l].i + 1)
           /\ child'[k][d].num = child[k][d].num
  <2>1. child[l][main[l].i + 1].at = "none"
    BY <1>1, Fields DEF IInv, Slots
  <2>2. \A k \in Launch : child[k] \in [Child -> ChildState]
    BY <1>1 DEF TypeOK
  <2>3. child'[l][main[l].i + 1] = [child[l][main[l].i + 1] EXCEPT !.at = "open"]
    BY <1>1, <1>4, <2>2 DEF TypeOK
  <2>4. \A k \in Launch, d \in Child : k # l \/ d # main[l].i + 1 => child'[k][d] = child[k][d]
    BY <1>1, <1>4, <2>2 DEF TypeOK
  <2> QED
    BY <1>1, <2>1, <2>2, <2>3, <2>4, Fields DEF ChildState
<1>5. /\ main'[l].at = main[l].at /\ main'[l].shmid = main[l].shmid /\ main'[l].seg = main[l].seg
      /\ main'[l].sem = main[l].sem /\ main'[l].i = main[l].i + 1 /\ main'[l].named = main[l].named
      /\ main'[l].printed = main[l].printed
  BY <1>1, <1>3, Fields DEF MainState
<1> HIDE DEF to
<1>6. UNCHANGED <<api, met>> /\ main'[l].at # "idle"
  BY <1>1, <1>4, <1>5
<1>m. /\ UNCHANGED <<api, shm_name, sem_name, memseg, semval, met, faults>>
      /\ \A k \in Launch :
           /\ main'[k].sem = main[k].sem /\ main'[k].seg = main[k].seg
           /\ main'[k].shmid = main[k].shmid /\ (Running(k)' <=> Running(k))
  BY <1>1, <1>3, <1>4, <1>5 DEF Running
<1>7. TypeOK'
  <2>1. [child[l][main[l].i + 1] EXCEPT !.at = "open"] \in ChildState
    BY <1>1, Fields DEF ChildState
  <2>2. child' \in [Launch -> [Child -> ChildState]]
    BY <1>1, <1>4, <2>1 DEF TypeOK
  <2> QED
    BY <1>1, <1>3, <1>4, <1>6, <2>2 DEF TypeOK, Object
<1>8. ParentsPlace'
  BY <1>1, <1>3, <1>4, <1>5, <1>6, <1>c, Fields DEF IInv, ParentsPlace, Before
<1>9. Slots'
  BY <1>1, <1>3, <1>4, <1>5, <1>6, <1>c, Fields DEF IInv, Slots, ParentsPlace, Before
<1>10. ChildsPlace'
  <2>1. main[l].sem = l /\ main[l].seg # None
    BY <1>1 DEF IInv, ParentsPlace
  <2>2. child[l][main[l].i + 1].sem = None /\ child[l][main[l].i + 1].seg = None
    BY <1>1, <1>c DEF IInv, ChildsPlace
  <2> QED
    BY <1>c, <1>m, <2>1, <2>2 DEF IInv, ChildsPlace, Critical
<1>11. Created'
  BY <1>1, <1>c, <1>m, Fields DEF IInv, Created
<1>12. Token'
  BY <1>1, <1>3, <1>4, <1>5, <1>6, <1>c, Fields DEF IInv, Token, Holds, Critical
<1>13. Alone'
  BY <1>1, <1>3, <1>4, <1>5, AloneKept DEF Living
<1>14. OwnNames'
  BY <1>1, <1>3, <1>4, <1>5, <1>6, <1>c, Fields DEF IInv, OwnNames, Alone, Running, Busy, Living
<1>15. OwnObjects'
  BY <1>c, <1>m DEF IInv, OwnObjects, Undisturbed
<1>16. KeysInUse'
  BY <1>1, <1>3, <1>4, <1>5, <1>6, <1>c, Fields DEF IInv, KeysInUse, ParentsPlace
<1>17. NamesRemoved'
  BY <1>1, <1>3, <1>4, <1>5, <1>6, <1>c, Fields DEF IInv, NamesRemoved, Alone, Running
<1>18. Counting'
  <2> SUFFICES ASSUME NEW k \in Launch, Undisturbed(k)', Unshared(k)' PROVE Counts(k)'
    BY DEF Counting
  <2>1. Undisturbed(k) /\ Unshared(k)
    BY <1>c, <1>m DEF Undisturbed, Unshared
  <2>2. Counts(k)
    BY <2>1 DEF IInv, Counting
  <2>3. \A d \in Child : child'[k][d].at \in {"store", "done"}
          => child'[k][d].at = child[k][d].at /\ child'[k][d].num = child[k][d].num
    BY <1>c
  <2> QED
    BY <1>m, <2>2, <2>3 DEF Counts
<1>19. ExactCount'
  BY <1>1, <1>3, <1>4, <1>5, <1>6, <1>c, Fields DEF IInv, ExactCount, Undisturbed,
     Unshared, ParentsPlace, Slots
<1> QED
  BY <1>7, <1>8, <1>9, <1>10, <1>11, <1>12, <1>13, <1>14, <1>15, <1>16, <1>17, <1>18,
     <1>19 DEF IInv

\* A parent is killed, with its children or without.
LEMMA CrashedStep ==
  ASSUME IInv, NEW l \in Launch, Running(l), Goes(l, "crashed"),
         Fades(l), semval' \in [Launch -> 0 .. 1], Token', faults' \in Nat,
         UNCHANGED <<api, shm_name, sem_name, memseg, met>>
  PROVE  IInv'
<1> USE Numbers
<1> DEFINE to == [main[l] EXCEPT !.at = "crashed"]
<1>1. TypeOK /\ main[l] \in MainState /\ Running(l)
  BY Fields DEF IInv
<1>2. to \in MainState
  BY <1>1 DEF MainState, Object
<1>3. /\ main'[l] = to /\ \A k \in Launch : k # l => main'[k] = main[k]
      /\ main' \in [Launch -> MainState]
  BY <1>1, <1>2, MovesEffect DEF Goes
<1>4. /\ Fades(l) /\ semval' \in [Launch -> 0 .. 1] /\ Token'
      /\ faults' \in Nat /\ UNCHANGED <<api, shm_name, sem_name, memseg, met>>
  OBVIOUS
<1>c. /\ \A k \in Launch, d \in Child :
           /\ child'[k][d].seg = child[k][d].seg /\ child'[k][d].sem = child[k][d].sem
           /\ child'[k][d].num = child[k][d].num
           /\ \/ child'[k][d].at = child[k][d].at
              \/ /\ k = l /\ child[k][d].at \notin Over \cup {"none"}
                 /\ child'[k][d].at \in {"killed", "failed"}
      /\ UNCHANGED <<api, shm_name, sem_name, memseg, met>>
  BY <1>4 DEF Fades
<1>5. /\ main'[l].at = "crashed" /\ main'[l].shmid = main[l].shmid /\ main'[l].seg = main[l].seg
      /\ main'[l].sem = main[l].sem /\ main'[l].i = main[l].i /\ main'[l].named = main[l].named
      /\ main'[l].printed = main[l].printed
  BY <1>1, <1>3, Fields DEF MainState
<1> HIDE DEF to
<1>6. UNCHANGED <<api, met>> /\ main'[l].at # "idle"
  BY <1>1, <1>4, <1>5
<1>7. TypeOK'
  BY <1>1, <1>3, <1>4, <1>6 DEF TypeOK, Object, Fades
<1>8. ParentsPlace'
  <2>1. \A k \in Launch, d \in Child : child[k][d].at = "none" => child'[k][d].at = "none"
    BY <1>c
  <2> QED
    BY <1>1, <1>3, <1>5, <1>6, <2>1, Fields DEF IInv, ParentsPlace, Before
<1>9. Slots'
  BY <1>1, <1>3, <1>5, <1>6, <1>c, Fields DEF IInv, Slots, ParentsPlace, Before, Over
<1>10. ChildsPlace'
  <2>1. \A k \in Launch : main'[k].sem = main[k].sem /\ main'[k].seg = main[k].seg
    BY <1>3, <1>5
  <2> QED
    BY <1>c, <2>1 DEF IInv, ChildsPlace, Critical, Over
<1>11. Created'
  <2>1. \A k \in Launch : main'[k].sem = main[k].sem
    BY <1>3, <1>5
  <2> QED
    BY <1>c, <2>1, Fields, <1>1 DEF IInv, Created
<1>12. Token'
  BY <1>4
<1>13. Alone'
  BY <1>1, <1>3, <1>4, <1>5, <1>6, AloneKept DEF Living, Fades
<1>14. OwnNames'
  BY <1>1, <1>3, <1>5, <1>6, <1>c, Fields DEF IInv, OwnNames, Alone, Running, Busy, Living, Over
<1>15. OwnObjects'
  BY <1>1, <1>3, <1>5, <1>6, <1>c, Fields DEF IInv, OwnObjects, Undisturbed,
     ParentsPlace, ChildsPlace, Before, Over
<1>16. KeysInUse'
  BY <1>1, <1>3, <1>5, <1>6, <1>c, Fields DEF IInv, KeysInUse, ParentsPlace, Over
<1>17. NamesRemoved'
  BY <1>1, <1>3, <1>5, <1>6, <1>c, Fields DEF IInv, NamesRemoved, Alone, Running, Over
<1>18. Counting'
  BY <1>1, <1>3, <1>5, <1>6, <1>c, Fields DEF IInv, Counting, Counts, Undisturbed,
     Unshared, Alone, Running, Busy, ParentsPlace, Over
<1>19. ExactCount'
  BY <1>1, <1>3, <1>5, <1>6, <1>c, Fields DEF IInv, ExactCount, Undisturbed, Unshared,
     ParentsPlace, Slots, Over
<1> QED
  BY <1>7, <1>8, <1>9, <1>10, <1>11, <1>12, <1>13, <1>14, <1>15, <1>16, <1>17, <1>18,
     <1>19 DEF IInv

\* It is killed from outside.
LEMMA CrashStep == ASSUME IInv, NEW l \in Launch, Crash(l) PROVE IInv'
<1>1. PICK cs \in {{}, Living(l)} : Dies(l, cs)
  BY DEF Crash
<1>2. cs \in SUBSET Living(l) /\ faults' \in Nat
  BY DEF Crash, IInv, TypeOK
<1>3. Fades(l) /\ semval' \in [Launch -> 0 .. 1] /\ Token'
  BY <1>1, <1>2, DiesEffect
<1> QED
  BY <1>2, <1>3, CrashedStep DEF Crash

\* It is killed by SIGBUS when it stores the cap or reads the counter for printing.
LEMMA BusStep ==
  ASSUME IInv, NEW l \in Launch, Attach(l) \/ PrintVal(l), Goes(l, "crashed"), UNCHANGED memseg
  PROVE  IInv'
<1>1. Running(l) /\ UNCHANGED <<api, shm_name, sem_name, semval, child, met, faults>>
  BY DEF Attach, PrintVal, Running
<1>2. Fades(l) /\ semval' \in [Launch -> 0 .. 1] /\ Token' /\ faults' \in Nat
  BY <1>1 DEF IInv, TypeOK, Fades, Token, Holds
<1> QED
  BY <1>1, <1>2, CrashedStep

\* A child is waited for; a failed launch has killed it before.
LEMMA ReapStep ==
  ASSUME IInv, NEW l \in Launch, Reap(l)
  PROVE  IInv'
<1> USE Numbers
<1> DEFINE to == [main[l] EXCEPT !.i = main[l].i + 1]
<1>1. TypeOK /\ main[l] \in MainState /\ Running(l) /\ main[l].at = "end"
      /\ main[l].i + 1 \in Child /\ main[l].i < Procs
  BY Fields DEF IInv, Running, Reap
<1>2. to \in MainState
  BY <1>1 DEF MainState, Object
<1>3. /\ main'[l] = to /\ \A k \in Launch : k # l => main'[k] = main[k]
      /\ main' \in [Launch -> MainState]
  BY <1>1, <1>2, MovesEffect DEF Reap, Goes, Fails
<1>4. /\ Fades(l) /\ semval' \in [Launch -> 0 .. 1] /\ Token'
      /\ child'[l][main[l].i + 1].at \in Over \cup {"none"}
      /\ UNCHANGED <<api, shm_name, sem_name, memseg, met, faults>>
  <2>1. CASE main[l].i + 1 \in Living(l) /\ Dies(l, {main[l].i + 1})
    <3>1. {main[l].i + 1} \in SUBSET Living(l)
      BY <2>1
    <3> QED
      BY <2>1, <3>1, DiesEffect DEF Reap, Over
  <2>2. CASE child[l][main[l].i + 1].at \in Over \cup {"none"} /\ UNCHANGED <<child, semval>>
    BY <1>1, <2>2 DEF Reap, Fades, IInv, TypeOK, Token, Holds
  <2> QED
    BY <2>1, <2>2 DEF Reap
<1>c. /\ child'[l][main[l].i + 1].at \in Over \cup {"none"}
      /\ \A k \in Launch, d \in Child :
           /\ child'[k][d].seg = child[k][d].seg /\ child'[k][d].sem = child[k][d].sem
           /\ child'[k][d].num = child[k][d].num
           /\ \/ child'[k][d].at = child[k][d].at
              \/ /\ k = l /\ child[k][d].at \notin Over \cup {"none"}
                 /\ child'[k][d].at \in {"killed", "failed"}
      /\ UNCHANGED <<api, shm_name, sem_name, memseg, met>>
  BY <1>4 DEF Fades
<1>5. /\ main'[l].at = main[l].at /\ main'[l].shmid = main[l].shmid /\ main'[l].seg = main[l].seg
      /\ main'[l].sem = main[l].sem /\ main'[l].i = main[l].i + 1 /\ main'[l].named = main[l].named
      /\ main'[l].printed = main[l].printed
  BY <1>1, <1>3, Fields DEF MainState
<1> HIDE DEF to
<1>6. UNCHANGED <<api, met>> /\ main'[l].at # "idle"
  BY <1>1, <1>4, <1>5
<1>7. TypeOK'
  BY <1>1, <1>3, <1>4, <1>6 DEF TypeOK, Object, Fades
<1>8. ParentsPlace'
  <2>1. \A k \in Launch, d \in Child : child[k][d].at = "none" => child'[k][d].at = "none"
    BY <1>c
  <2> QED
    BY <1>1, <1>3, <1>5, <1>6, <2>1, Fields DEF IInv, ParentsPlace, Before
<1>9. Slots'
  <2>1. \A k \in Launch, d \in Child :
          child[k][d].at \in Over \cup {"none"} => child'[k][d].at \in Over \cup {"none"}
    BY <1>c DEF Over
  <2>2. \A k \in Launch :
          /\ main'[k].at = main[k].at /\ main'[k].printed = main[k].printed
          /\ k # l => main'[k].i = main[k].i
    BY <1>3, <1>5
  <2>3. \A d \in Child : d <= main'[l].i => d <= main[l].i \/ d = main[l].i + 1
    BY <1>1, <1>5, Fields
  <2>4. ASSUME NEW k \in Launch, k # l, NEW d \in Child
        PROVE  /\ main'[k].at = "fork" /\ d > main'[k].i => child'[k][d].at = "none"
               /\ main'[k].at = "end" /\ d <= main'[k].i => child'[k][d].at \in Over \cup {"none"}
    <3>1. child'[k][d].at = child[k][d].at
      BY <1>c, <2>4
    <3> QED
      BY <2>2, <2>4, <3>1 DEF IInv, Slots
  <2>5. ASSUME NEW d \in Child
        PROVE  /\ main'[l].at = "end"
               /\ d <= main'[l].i => child'[l][d].at \in Over \cup {"none"}
    BY <1>1, <1>c, <2>1, <2>2, <2>3 DEF IInv, Slots
  <2>6. ASSUME NEW k \in Launch, NEW d \in Child
        PROVE  main'[k].at \in {"unlink", "sem_unlink", "done"} \/ main'[k].printed # None
                 => child'[k][d].at \in Over \cup {"none"}
    BY <2>1, <2>2 DEF IInv, Slots
  <2>7. ASSUME NEW k \in Launch, NEW d \in Child
        PROVE  /\ main'[k].at = "fork" /\ d > main'[k].i => child'[k][d].at = "none"
               /\ main'[k].at = "end" /\ d <= main'[k].i => child'[k][d].at \in Over \cup {"none"}
    BY <2>4, <2>5
  <2> QED
    BY <2>6, <2>7 DEF Slots
<1>10. ChildsPlace'
  <2>1. \A k \in Launch : main'[k].sem = main[k].sem /\ main'[k].seg = main[k].seg
    BY <1>3, <1>5
  <2> QED
    BY <1>c, <2>1 DEF IInv, ChildsPlace, Critical, Over
<1>11. Created'
  <2>1. \A k \in Launch : main'[k].sem = main[k].sem
    BY <1>3, <1>5
  <2> QED
    BY <1>c, <2>1, Fields, <1>1 DEF IInv, Created
<1>12. Token'
  BY <1>4
<1>13. Alone'
  BY <1>1, <1>3, <1>4, <1>5, <1>6, AloneKept DEF Living, Fades
<1>14. OwnNames'
  BY <1>1, <1>3, <1>5, <1>6, <1>c, Fields DEF IInv, OwnNames, Alone, Running, Busy, Living, Over
<1>15. OwnObjects'
  BY <1>1, <1>3, <1>5, <1>6, <1>c, Fields DEF IInv, OwnObjects, Undisturbed,
     ParentsPlace, ChildsPlace, Before, Over
<1>16. KeysInUse'
  BY <1>1, <1>3, <1>5, <1>6, <1>c, Fields DEF IInv, KeysInUse, ParentsPlace, Over
<1>17. NamesRemoved'
  BY <1>1, <1>3, <1>5, <1>6, <1>c, Fields DEF IInv, NamesRemoved, Alone, Running, Over
<1>18. Counting'
  <2> SUFFICES ASSUME NEW k \in Launch, Undisturbed(k)', Unshared(k)' PROVE Counts(k)'
    BY DEF Counting
  <2>0. main'[k].seg = main[k].seg /\ (Running(k)' <=> Running(k))
    BY <1>3, <1>5 DEF Running
  <2>1. Undisturbed(k) /\ Unshared(k)
    BY <1>c, <2>0 DEF Undisturbed, Unshared
  <2>2. Counts(k)
    BY <2>1 DEF IInv, Counting
  <2>3. \A d \in Child : child'[k][d].at \in {"store", "done"}
          => child'[k][d].at = child[k][d].at /\ child'[k][d].num = child[k][d].num
    BY <1>c
  <2>4. memseg' = memseg
    BY <1>c
  <2> QED
    BY <2>0, <2>2, <2>3, <2>4 DEF Counts
<1>19. ExactCount'
  BY <1>1, <1>3, <1>5, <1>6, <1>c, Fields DEF IInv, ExactCount, Undisturbed, Unshared,
     ParentsPlace, Slots, Over
<1> QED
  BY <1>7, <1>8, <1>9, <1>10, <1>11, <1>12, <1>13, <1>14, <1>15, <1>16, <1>17, <1>18,
     <1>19 DEF IInv
\* A launch begins; those that are busy then have met it, and it has met those
\* that run.
LEMMA StartStep == ASSUME IInv, NEW l \in Launch, Start(l) PROVE IInv'
<1> USE Numbers
<1> DEFINE to == [main[l] EXCEPT !.at = "shm"]
<1>1. TypeOK /\ main[l] \in MainState /\ main[l].at = "idle" /\ ~Running(l)
  BY Fields DEF IInv, Running, Start
<1>2. to \in MainState
  BY <1>1 DEF MainState, Object
<1>3. /\ main'[l] = to /\ \A k \in Launch : k # l => main'[k] = main[k]
      /\ main' \in [Launch -> MainState]
  BY <1>1, <1>2, MovesEffect DEF Start, Goes
<1>4. UNCHANGED <<api, shm_name, sem_name, memseg, semval, child, faults>>
  BY DEF Start
<1>5. /\ main'[l].at = "shm" /\ main'[l].shmid = main[l].shmid /\ main'[l].seg = main[l].seg
      /\ main'[l].sem = main[l].sem /\ main'[l].i = main[l].i /\ main'[l].named = main[l].named
      /\ main'[l].printed = main[l].printed
  BY <1>1, <1>3 DEF MainState
<1> HIDE DEF to
<1>6. /\ met' \in SUBSET Launch
      /\ \A k \in Launch : k \notin met' => k \notin met /\ ~Busy(k)
      /\ l \notin met' => \A k \in Launch : k # l => ~Running(k)
  BY <1>1 DEF Start, TypeOK
<1>7. \A k \in 1 .. l - 1 : main[k].at # "idle"
  BY DEF Start
<1>8. \A k \in Launch : Undisturbed(k)' => Undisturbed(k)
  BY <1>4, <1>6 DEF Undisturbed
<1>9. main[l].seg = None /\ main[l].shmid = None /\ main[l].sem = None
  BY <1>1 DEF IInv, ParentsPlace
<1>10. TypeOK'
  BY <1>1, <1>3, <1>4, <1>6 DEF TypeOK
<1>11. ParentsPlace'
  BY <1>1, <1>3, <1>4, <1>5, Fields DEF IInv, ParentsPlace, Before
<1>12. Slots'
  BY <1>1, <1>3, <1>4, <1>5 DEF IInv, Slots
<1>13. ChildsPlace' /\ Token'
  BY <1>1, <1>3, <1>4, <1>5 DEF IInv, ChildsPlace, Token, Holds
<1>14. Created'
  BY <1>1, <1>3, <1>4, <1>5, Fields DEF IInv, Created
<1>15. \A k \in Launch : k # l => (Running(k)' <=> Running(k)) /\ (Busy(k)' <=> Busy(k))
  BY <1>3, <1>4 DEF Running, Busy, Living
<1>16. Alone'
  <2>1. ASSUME NEW k \in Launch, main'[k].at # "idle"
        PROVE  \A j \in 1 .. k - 1 : main'[j].at # "idle"
    BY <1>3, <1>5, <1>7, <2>1 DEF IInv, Alone
  <2>2. ASSUME NEW k \in Launch, k \notin met', main'[k].at # "idle"
        PROVE  \A j \in 1 .. k - 1 : ~Running(j)'
    <3>1. CASE k = l
      BY <1>6, <1>15, <2>2, <3>1
    <3>2. CASE k # l
      <4>1. main[k].at # "idle" /\ k \notin met
        BY <1>3, <1>6, <2>2, <3>2
      <4>2. l \notin 1 .. k - 1
        BY <1>1, <4>1 DEF IInv, Alone
      <4> QED
        BY <1>15, <4>1, <4>2 DEF IInv, Alone
    <3> QED
      BY <3>1, <3>2
  <2>3. ASSUME NEW k \in Launch, k \notin met', Busy(k)'
        PROVE  \A j \in Launch \ {k} : ~Running(j)'
    BY <1>6, <1>15, <2>3
  <2> QED
    BY <2>1, <2>2, <2>3 DEF Alone
<1>17. OwnNames'
  BY <1>5, <1>6, <1>9, <1>15 DEF OwnNames
<1>18. OwnObjects'
  BY <1>3, <1>4, <1>5, <1>8 DEF IInv, OwnObjects
<1>19. KeysInUse'
  BY <1>1, <1>3, <1>4, Fields DEF IInv, KeysInUse
<1>20. NamesRemoved'
  <2>1. \A k \in Launch : k # l /\ main'[k].at # "idle" => k < l
    BY <1>1, <1>3 DEF IInv, Alone
  <2> QED
    BY <1>5, <2>1 DEF NamesRemoved
<1>21. Counting'
  <2>1. \A k \in Launch : Unshared(k)' => Unshared(k)
    BY <1>3, <1>4, <1>5 DEF Unshared
  <2>2. ASSUME NEW k \in Launch, k # l, Counts(k) PROVE Counts(k)'
    BY <1>3, <1>4, <2>2 DEF Counts, Running
  <2>3. Counts(l)'
    BY <1>5, <1>9 DEF Counts
  <2> QED
    BY <1>8, <2>1, <2>2, <2>3 DEF IInv, Counting
<1>22. ExactCount'
  BY <1>3, <1>4, <1>5, <1>8 DEF IInv, ExactCount, Unshared
<1> QED
  BY <1>10, <1>11, <1>12, <1>13, <1>14, <1>16, <1>17, <1>18, <1>19, <1>20, <1>21, <1>22 DEF IInv

-----------------------------------------------------------------------------
\* shmat by the identifier of the parent.
LEMMA ChildAttachSysvStep ==
  ASSUME IInv, NEW l \in Launch, NEW c \in Child, ChildAttach(l, c), api = "sysv"
  PROVE  IInv'
<1> DEFINE to == [child[l][c] EXCEPT !.at = "wait", !.seg = main[l].shmid, !.sem = main[l].sem]
<1>1. TypeOK /\ child[l][c] \in ChildState /\ child[l][c].at = "open" /\ main[l].sem = l
      /\ main[l].shmid = l /\ child[l][c].seg = None
  BY Fields DEF IInv, ChildAttach, ChildsPlace, ParentsPlace, Critical
<1>2. to \in ChildState
  BY <1>1, Fields DEF ChildState, Object
<1>3. /\ child'[l][c] = to
      /\ \A k \in Launch, d \in Child : k # l \/ d # c => child'[k][d] = child[k][d]
      /\ child' \in [Launch -> [Child -> ChildState]]
  BY <1>1, <1>2, StepsEffect DEF ChildAttach
<1>4. UNCHANGED <<api, shm_name, sem_name, memseg, semval, main, met, faults>>
  BY <1>1 DEF ChildAttach
<1>5. /\ child'[l][c].at = "wait" /\ child'[l][c].seg = main[l].shmid
      /\ child'[l][c].sem = l /\ child'[l][c].num = child[l][c].num
  BY <1>1, <1>3 DEF ChildState
<1> HIDE DEF to
<1>6. TypeOK'
  BY <1>1, <1>3, <1>4 DEF TypeOK, Object
<1>7. (ParentsPlace /\ Slots /\ Alone /\ OwnNames /\ KeysInUse /\ NamesRemoved)'
  <2>1. \A k \in Launch, d \in Child :
          \/ child'[k][d].at = child[k][d].at
          \/ child[k][d].at \notin Over \cup {"none"} /\ child'[k][d].at # "none"
    BY <1>1, <1>3, <1>5 DEF Over
  <2> QED
    BY <1>4, <2>1, ChildKeeps
<1>8. (ChildsPlace /\ Created /\ OwnObjects)'
  <2>1. ChildsPlace'
    BY <1>1, <1>3, <1>4, <1>5, Fields, Numbers DEF IInv, ChildsPlace, Critical
  <2>2. Created'
    BY <1>1, <1>3, <1>4, <1>5, Fields, Numbers DEF IInv, Created
  <2>3. OwnObjects'
    BY <1>1, <1>3, <1>4, <1>5, Fields, Numbers DEF IInv, OwnObjects, Undisturbed
  <2> QED
    BY <2>1, <2>2, <2>3
<1>9. Token'
  <2>1. \A k \in Launch, d \in Child :
          Holds(k, d)' => Holds(k, d) /\ child'[k][d].sem = child[k][d].sem
    BY <1>1, <1>3, <1>5 DEF Holds, Critical
  <2> QED
    BY <1>4, <2>1 DEF IInv, Token
<1>10. \A k \in Launch :
         Undisturbed(k)' /\ Unshared(k)' /\ main[k].seg # None => Undisturbed(k) /\ Unshared(k)
  BY <1>1, <1>3, <1>4, <1>5 DEF Undisturbed, Unshared
<1>11. Counting'
  <2>1. ASSUME NEW k \in Launch, Counts(k) PROVE Counts(k)'
    BY <1>1, <1>3, <1>4, <1>5, <2>1 DEF Counts, Running
  <2> QED
    BY <1>4, <1>10, <2>1 DEF IInv, Counting, Counts
<1>12. ExactCount'
  BY <1>1, <1>3, <1>4, <1>5, <1>10 DEF IInv, ExactCount, ChildsPlace
<1> QED
  BY <1>6, <1>7, <1>8, <1>9, <1>11, <1>12 DEF IInv

\* shm_open by the name: the object of a launch that is alone is its own.
LEMMA ChildAttachNameStep ==
  ASSUME IInv, NEW l \in Launch, NEW c \in Child, ChildAttach(l, c), api = "posix",
         shm_name # None
  PROVE  IInv'
<1> DEFINE to == [child[l][c] EXCEPT !.at = "sem", !.seg = shm_name]
<1>1. TypeOK /\ child[l][c] \in ChildState /\ child[l][c].at = "open" /\ main[l].sem = l
      /\ main[l].shmid # None /\ child[l][c].seg = None
  BY Fields DEF IInv, ChildAttach, ChildsPlace, ParentsPlace, Critical
<1>2. to \in ChildState
  BY <1>1, Fields DEF ChildState, Object
<1>3. /\ child'[l][c] = to
      /\ \A k \in Launch, d \in Child : k # l \/ d # c => child'[k][d] = child[k][d]
      /\ child' \in [Launch -> [Child -> ChildState]]
  BY <1>1, <1>2, StepsEffect DEF ChildAttach
<1>4. UNCHANGED <<api, shm_name, sem_name, memseg, semval, main, met, faults>>
  BY <1>1 DEF ChildAttach
<1>5. /\ child'[l][c].at = "sem" /\ child'[l][c].seg = shm_name
      /\ child'[l][c].sem = child[l][c].sem /\ child'[l][c].num = child[l][c].num
  BY <1>1, <1>3 DEF ChildState
<1> HIDE DEF to
<1>6. TypeOK'
  BY <1>1, <1>3, <1>4 DEF TypeOK, Object
<1>7. (ParentsPlace /\ Slots /\ Alone /\ OwnNames /\ KeysInUse /\ NamesRemoved)'
  <2>1. \A k \in Launch, d \in Child :
          \/ child'[k][d].at = child[k][d].at
          \/ child[k][d].at \notin Over \cup {"none"} /\ child'[k][d].at # "none"
    BY <1>1, <1>3, <1>5 DEF Over
  <2> QED
    BY <1>4, <2>1, ChildKeeps
<1>8. (ChildsPlace /\ Created /\ OwnObjects)'
  <2>1. Busy(l)
    BY <1>1 DEF Busy, Living, Over
  <2>2. l \notin met => shm_name = main[l].shmid
    BY <1>1, <2>1 DEF IInv, OwnNames
  <2>11. ChildsPlace'
    BY <1>1, <1>3, <1>4, <1>5, Fields, Numbers, <2>2 DEF IInv, ChildsPlace, Critical
  <2>12. Created'
    BY <1>1, <1>3, <1>4, <1>5, Fields, Numbers DEF IInv, Created
  <2>13. OwnObjects'
    BY <1>1, <1>3, <1>4, <1>5, Fields, Numbers, <2>2 DEF IInv, OwnObjects, Undisturbed
  <2> QED
    BY <2>11, <2>12, <2>13
<1>9. Token'
  <2>1. \A k \in Launch, d \in Child :
          Holds(k, d)' => Holds(k, d) /\ child'[k][d].sem = child[k][d].sem
    BY <1>1, <1>3, <1>5 DEF Holds, Critical
  <2> QED
    BY <1>4, <2>1 DEF IInv, Token
<1>10. \A k \in Launch :
         Undisturbed(k)' /\ Unshared(k)' /\ main[k].seg # None => Undisturbed(k) /\ Unshared(k)
  BY <1>1, <1>3, <1>4, <1>5 DEF Undisturbed, Unshared
<1>11. Counting'
  <2>1. ASSUME NEW k \in Launch, Counts(k) PROVE Counts(k)'
    BY <1>1, <1>3, <1>4, <1>5, <2>1 DEF Counts, Running
  <2> QED
    BY <1>4, <1>10, <2>1 DEF IInv, Counting, Counts
<1>12. ExactCount'
  BY <1>1, <1>3, <1>4, <1>5, <1>10 DEF IInv, ExactCount, ChildsPlace
<1> QED
  BY <1>6, <1>7, <1>8, <1>9, <1>11, <1>12 DEF IInv

\* sem_open by the name: the semaphore of a launch that is alone is its own.
LEMMA ChildSemOpenNameStep ==
  ASSUME IInv, NEW l \in Launch, NEW c \in Child, ChildSemOpen(l, c), sem_name # None
  PROVE  IInv'
<1> DEFINE to == [child[l][c] EXCEPT !.at = "wait", !.sem = sem_name]
<1>1. TypeOK /\ child[l][c] \in ChildState /\ child[l][c].at = "sem" /\ main[l].sem = l
      /\ child[l][c].sem = None /\ api = "posix"
  BY Fields DEF IInv, ChildSemOpen, ChildsPlace, ParentsPlace, Critical
<1>2. to \in ChildState
  BY <1>1, Fields DEF ChildState, Object
<1>3. /\ child'[l][c] = to
      /\ \A k \in Launch, d \in Child : k # l \/ d # c => child'[k][d] = child[k][d]
      /\ child' \in [Launch -> [Child -> ChildState]]
  BY <1>1, <1>2, StepsEffect DEF ChildSemOpen
<1>4. UNCHANGED <<api, shm_name, sem_name, memseg, semval, main, met, faults>>
  BY <1>1 DEF ChildSemOpen
<1>5. /\ child'[l][c].at = "wait" /\ child'[l][c].seg = child[l][c].seg
      /\ child'[l][c].sem = sem_name /\ child'[l][c].num = child[l][c].num
  BY <1>1, <1>3 DEF ChildState
<1> HIDE DEF to
<1>6. TypeOK'
  BY <1>1, <1>3, <1>4 DEF TypeOK, Object
<1>7. (ParentsPlace /\ Slots /\ Alone /\ OwnNames /\ KeysInUse /\ NamesRemoved)'
  <2>1. \A k \in Launch, d \in Child :
          \/ child'[k][d].at = child[k][d].at
          \/ child[k][d].at \notin Over \cup {"none"} /\ child'[k][d].at # "none"
    BY <1>1, <1>3, <1>5 DEF Over
  <2> QED
    BY <1>4, <2>1, ChildKeeps
<1>8. (ChildsPlace /\ Created /\ OwnObjects)'
  <2>1. Busy(l)
    BY <1>1 DEF Busy, Living, Over
  <2>2. l \notin met => sem_name = l
    BY <1>1, <2>1 DEF IInv, OwnNames
  <2>3. child[l][c].seg # None
    BY <1>1 DEF IInv, ChildsPlace
  <2>11. ChildsPlace'
    BY <1>1, <1>3, <1>4, <1>5, Fields, Numbers, <2>2, <2>3 DEF IInv, ChildsPlace, Critical
  <2>12. Created'
    BY <1>1, <1>3, <1>4, <1>5, Fields, Numbers DEF IInv, Created
  <2>13. OwnObjects'
    BY <1>1, <1>3, <1>4, <1>5, Fields, Numbers, <2>2, <2>3 DEF IInv, OwnObjects, Undisturbed
  <2> QED
    BY <2>11, <2>12, <2>13
<1>9. Token'
  <2>1. \A k \in Launch, d \in Child :
          Holds(k, d)' => Holds(k, d) /\ child'[k][d].sem = child[k][d].sem
    BY <1>1, <1>3, <1>5 DEF Holds, Critical
  <2> QED
    BY <1>4, <2>1 DEF IInv, Token
<1>10. \A k \in Launch :
         Undisturbed(k)' /\ Unshared(k)' /\ main[k].seg # None => Undisturbed(k) /\ Unshared(k)
  BY <1>1, <1>3, <1>4, <1>5 DEF Undisturbed, Unshared
<1>11. Counting'
  <2>1. ASSUME NEW k \in Launch, Counts(k) PROVE Counts(k)'
    BY <1>1, <1>3, <1>4, <1>5, <2>1 DEF Counts, Running
  <2> QED
    BY <1>4, <1>10, <2>1 DEF IInv, Counting, Counts
<1>12. ExactCount'
  BY <1>1, <1>3, <1>4, <1>5, <1>10 DEF IInv, ExactCount, ChildsPlace
<1> QED
  BY <1>6, <1>7, <1>8, <1>9, <1>11, <1>12 DEF IInv

\* The token goes from the semaphore to the child.
LEMMA SemWaitStep ==
  ASSUME IInv, NEW l \in Launch, NEW c \in Child, SemWait(l, c)
  PROVE  IInv'
<1> DEFINE to == [child[l][c] EXCEPT !.at = "load"]
<1>1. TypeOK /\ child[l][c] \in ChildState /\ child[l][c].at = "wait"
      /\ child[l][c].sem \in Launch /\ child[l][c].seg \in Launch
  BY Fields DEF IInv, SemWait, ChildsPlace, ParentsPlace, Critical
<1>2. to \in ChildState
  BY <1>1, Fields DEF ChildState, Object
<1>3. /\ child'[l][c] = to
      /\ \A k \in Launch, d \in Child : k # l \/ d # c => child'[k][d] = child[k][d]
      /\ child' \in [Launch -> [Child -> ChildState]]
  BY <1>1, <1>2, StepsEffect DEF SemWait
<1>4. /\ semval[child[l][c].sem] > 0 /\ semval' = [semval EXCEPT ![child[l][c].sem] = @ - 1]
      /\ UNCHANGED <<api, shm_name, sem_name, memseg, main, met, faults>>
  BY <1>1 DEF SemWait
<1>5. /\ child'[l][c].at = "load" /\ child'[l][c].seg = child[l][c].seg
      /\ child'[l][c].sem = child[l][c].sem /\ child'[l][c].num = child[l][c].num
  BY <1>1, <1>3 DEF ChildState
<1> HIDE DEF to
<1>6. TypeOK'
  BY <1>1, <1>3, <1>4 DEF TypeOK, Object
<1>7. (ParentsPlace /\ Slots /\ Alone /\ OwnNames /\ KeysInUse /\ NamesRemoved)'
  <2>1. \A k \in Launch, d \in Child :
          \/ child'[k][d].at = child[k][d].at
          \/ child[k][d].at \notin Over \cup {"none"} /\ child'[k][d].at # "none"
    BY <1>1, <1>3, <1>5 DEF Over
  <2> QED
    BY <1>4, <2>1, ChildKeeps
<1>8. (ChildsPlace /\ Created /\ OwnObjects)'
  <2>1. \A k \in Launch, d \in Child :
          /\ child'[k][d].seg = child[k][d].seg /\ child'[k][d].sem = child[k][d].sem
          /\ \/ child'[k][d].at = child[k][d].at
             \/ /\ child[k][d].at \in {"wait"} \cup Critical
                /\ child'[k][d].at \in {"wait"} \cup Critical \cup Over
             \/ child[k][d].at # "none" /\ child'[k][d].at \in Over
    BY <1>1, <1>3, <1>5 DEF Critical, Over
  <2> QED
    BY <1>4, <2>1, SameObjects
<1>9. Token'
  <2>1. /\ semval[child[l][c].sem] = 1 /\ semval'[child[l][c].sem] = 0
        /\ \A o \in Launch : o # child[l][c].sem => semval'[o] = semval[o]
    BY <1>1, <1>4, Fields DEF TypeOK
  <2>2. \A k \in Launch, d \in Child :
          Holds(k, d) => child[k][d].sem \in Launch /\ child[k][d].sem # child[l][c].sem
    BY <2>1, Fields DEF IInv, Token, Holds, ChildsPlace
  <2>3. \A k \in Launch, d \in Child :
          k # l \/ d # c => (Holds(k, d)' <=> Holds(k, d)) /\ child'[k][d].sem = child[k][d].sem
    BY <1>3 DEF Holds
  <2> QED
    BY <1>5, <2>1, <2>2, <2>3 DEF IInv, Token
<1>10. \A k \in Launch :
         Undisturbed(k)' /\ Unshared(k)' /\ main[k].seg # None => Undisturbed(k) /\ Unshared(k)
  BY <1>1, <1>3, <1>4, <1>5 DEF Undisturbed, Unshared
<1>11. Counting'
  <2>1. ASSUME NEW k \in Launch, Counts(k) PROVE Counts(k)'
    BY <1>1, <1>3, <1>4, <1>5, <2>1 DEF Counts, Running
  <2> QED
    BY <1>4, <1>10, <2>1 DEF IInv, Counting, Counts
<1>12. ExactCount'
  BY <1>1, <1>3, <1>4, <1>5, <1>10 DEF IInv, ExactCount, ChildsPlace
<1> QED
  BY <1>6, <1>7, <1>8, <1>9, <1>11, <1>12 DEF IInv

\* The child reads the counter.
LEMMA LoadCountStep ==
  ASSUME IInv, NEW l \in Launch, NEW c \in Child, Load(l, c),
         memseg[child[l][c].seg].val < memseg[child[l][c].seg].cap
  PROVE  IInv'
<1> DEFINE to == [child[l][c] EXCEPT !.at = "store", !.num = memseg[child[l][c].seg].val]
<1>1. TypeOK /\ child[l][c] \in ChildState /\ child[l][c].at = "load"
      /\ child[l][c].sem \in Launch /\ child[l][c].seg \in Launch
  BY Fields DEF IInv, Load, ChildsPlace, ParentsPlace, Critical
<1>2. to \in ChildState
  BY <1>1, Fields DEF ChildState, Object
<1>3. /\ child'[l][c] = to
      /\ \A k \in Launch, d \in Child : k # l \/ d # c => child'[k][d] = child[k][d]
      /\ child' \in [Launch -> [Child -> ChildState]]
  BY <1>1, <1>2, StepsEffect DEF Load
<1>4. UNCHANGED <<api, shm_name, sem_name, memseg, semval, main, met, faults>>
  BY <1>1 DEF Load
<1>5. /\ child'[l][c].at = "store" /\ child'[l][c].seg = child[l][c].seg
      /\ child'[l][c].sem = child[l][c].sem /\ child'[l][c].num = memseg[child[l][c].seg].val
  BY <1>1, <1>3 DEF ChildState
<1> HIDE DEF to
<1>6. TypeOK'
  BY <1>1, <1>3, <1>4 DEF TypeOK, Object
<1>7. (ParentsPlace /\ Slots /\ Alone /\ OwnNames /\ KeysInUse /\ NamesRemoved)'
  <2>1. \A k \in Launch, d \in Child :
          \/ child'[k][d].at = child[k][d].at
          \/ child[k][d].at \notin Over \cup {"none"} /\ child'[k][d].at # "none"
    BY <1>1, <1>3, <1>5 DEF Over
  <2> QED
    BY <1>4, <2>1, ChildKeeps
<1>8. (ChildsPlace /\ Created /\ OwnObjects)'
  <2>1. \A k \in Launch, d \in Child :
          /\ child'[k][d].seg = child[k][d].seg /\ child'[k][d].sem = child[k][d].sem
          /\ \/ child'[k][d].at = child[k][d].at
             \/ /\ child[k][d].at \in {"wait"} \cup Critical
                /\ child'[k][d].at \in {"wait"} \cup Critical \cup Over
             \/ child[k][d].at # "none" /\ child'[k][d].at \in Over
    BY <1>1, <1>3, <1>5 DEF Critical, Over
  <2> QED
    BY <1>4, <2>1, SameObjects
<1>9. Token'
  <2>1. \A k \in Launch, d \in Child :
          (Holds(k, d)' <=> Holds(k, d)) /\ child'[k][d].sem = child[k][d].sem
    BY <1>1, <1>3, <1>5 DEF Holds, Critical
  <2> QED
    BY <1>4, <2>1 DEF IInv, Token
<1>10. \A k \in Launch :
         Undisturbed(k)' /\ Unshared(k)' /\ main[k].seg # None => Undisturbed(k) /\ Unshared(k)
  BY <1>1, <1>3, <1>4, <1>5 DEF Undisturbed, Unshared
<1>11. Counting'
  <2>1. ASSUME NEW k \in Launch, k # l, Counts(k) PROVE Counts(k)'
    BY <1>3, <1>4, <2>1 DEF Counts, Running
  <2>2. ASSUME Undisturbed(l), Counts(l) PROVE Counts(l)'
    <3>1. main[l].seg = child[l][c].seg
      BY <1>1, <2>2 DEF IInv, OwnObjects, ParentsPlace, ChildsPlace, Critical
    <3>2. /\ child'[l][c].at = "store" /\ child'[l][c].num = memseg[main[l].seg].val
          /\ \A d \in Child : d # c => child'[l][d] = child[l][d]
      BY <1>3, <1>5, <3>1
    <3>3. Running(l)' <=> Running(l)
      BY <1>4 DEF Running
    <3>4. Running(l) => memseg[main[l].seg].val < Cap
      BY <1>1, <2>2, <3>1, Fields, Numbers DEF Counts
    <3> QED
      BY <1>4, <2>2, <3>2, <3>3, <3>4 DEF Counts
  <2> QED
    BY <1>4, <1>10, <2>1, <2>2 DEF IInv, Counting, Counts
<1>12. ExactCount'
  BY <1>1, <1>3, <1>4, <1>5, <1>10 DEF IInv, ExactCount, ChildsPlace
<1> QED
  BY <1>6, <1>7, <1>8, <1>9, <1>11, <1>12 DEF IInv

\* The child finds the counter at the cap.
LEMMA LoadFullStep ==
  ASSUME IInv, NEW l \in Launch, NEW c \in Child, Load(l, c),
         ~(memseg[child[l][c].seg].val < memseg[child[l][c].seg].cap)
  PROVE  IInv'
<1> DEFINE to == [child[l][c] EXCEPT !.at = "test"]
<1>1. TypeOK /\ child[l][c] \in ChildState /\ child[l][c].at = "load"
      /\ child[l][c].sem \in Launch /\ child[l][c].seg \in Launch
  BY Fields DEF IInv, Load, ChildsPlace, ParentsPlace, Critical
<1>2. to \in ChildState
  BY <1>1, Fields DEF ChildState, Object
<1>3. /\ child'[l][c] = to
      /\ \A k \in Launch, d \in Child : k # l \/ d # c => child'[k][d] = child[k][d]
      /\ child' \in [Launch -> [Child -> ChildState]]
  BY <1>1, <1>2, StepsEffect DEF Load
<1>4. UNCHANGED <<api, shm_name, sem_name, memseg, semval, main, met, faults>>
  BY <1>1 DEF Load
<1>5. /\ child'[l][c].at = "test" /\ child'[l][c].seg = child[l][c].seg
      /\ child'[l][c].sem = child[l][c].sem /\ child'[l][c].num = child[l][c].num
  BY <1>1, <1>3 DEF ChildState
<1> HIDE DEF to
<1>6. TypeOK'
  BY <1>1, <1>3, <1>4 DEF TypeOK, Object
<1>7. (ParentsPlace /\ Slots /\ Alone /\ OwnNames /\ KeysInUse /\ NamesRemoved)'
  <2>1. \A k \in Launch, d \in Child :
          \/ child'[k][d].at = child[k][d].at
          \/ child[k][d].at \notin Over \cup {"none"} /\ child'[k][d].at # "none"
    BY <1>1, <1>3, <1>5 DEF Over
  <2> QED
    BY <1>4, <2>1, ChildKeeps
<1>8. (ChildsPlace /\ Created /\ OwnObjects)'
  <2>1. \A k \in Launch, d \in Child :
          /\ child'[k][d].seg = child[k][d].seg /\ child'[k][d].sem = child[k][d].sem
          /\ \/ child'[k][d].at = child[k][d].at
             \/ /\ child[k][d].at \in {"wait"} \cup Critical
                /\ child'[k][d].at \in {"wait"} \cup Critical \cup Over
             \/ child[k][d].at # "none" /\ child'[k][d].at \in Over
    BY <1>1, <1>3, <1>5 DEF Critical, Over
  <2> QED
    BY <1>4, <2>1, SameObjects
<1>9. Token'
  <2>1. \A k \in Launch, d \in Child :
          (Holds(k, d)' <=> Holds(k, d)) /\ child'[k][d].sem = child[k][d].sem
    BY <1>1, <1>3, <1>5 DEF Holds, Critical
  <2> QED
    BY <1>4, <2>1 DEF IInv, Token
<1>10. \A k \in Launch :
         Undisturbed(k)' /\ Unshared(k)' /\ main[k].seg # None => Undisturbed(k) /\ Unshared(k)
  BY <1>1, <1>3, <1>4, <1>5 DEF Undisturbed, Unshared
<1>11. Counting'
  <2>1. ASSUME NEW k \in Launch, Counts(k) PROVE Counts(k)'
    BY <1>1, <1>3, <1>4, <1>5, <2>1 DEF Counts, Running
  <2> QED
    BY <1>4, <1>10, <2>1 DEF IInv, Counting, Counts
<1>12. ExactCount'
  BY <1>1, <1>3, <1>4, <1>5, <1>10 DEF IInv, ExactCount, ChildsPlace
<1> QED
  BY <1>6, <1>7, <1>8, <1>9, <1>11, <1>12 DEF IInv

\* The child writes what it has read plus one: nobody else is in between.
LEMMA StoreStep ==
  ASSUME IInv, NEW l \in Launch, NEW c \in Child, Store(l, c)
  PROVE  IInv'
<1> DEFINE to == [child[l][c] EXCEPT !.at = "test", !.num = 0]
<1>1. TypeOK /\ child[l][c] \in ChildState /\ child[l][c].at = "store"
      /\ child[l][c].sem \in Launch /\ child[l][c].seg \in Launch
  BY Fields DEF IInv, Store, ChildsPlace, ParentsPlace, Critical
<1>2. to \in ChildState
  BY <1>1, Fields DEF ChildState, Object
<1>3. /\ child'[l][c] = to
      /\ \A k \in Launch, d \in Child : k # l \/ d # c => child'[k][d] = child[k][d]
      /\ child' \in [Launch -> [Child -> ChildState]]
  BY <1>1, <1>2, StepsEffect DEF Store
<1>4. /\ memseg' = [memseg EXCEPT ![child[l][c].seg].val = child[l][c].num + 1]
      /\ UNCHANGED <<api, shm_name, sem_name, semval, main, met, faults>>
  BY <1>1 DEF Store
<1>5. /\ child'[l][c].at = "test" /\ child'[l][c].seg = child[l][c].seg
      /\ child'[l][c].sem = child[l][c].sem /\ child'[l][c].num = 0
  BY <1>1, <1>3 DEF ChildState
<1> HIDE DEF to
<1>6. TypeOK'
  <2>0. memseg[child[l][c].seg] \in [sized : BOOLEAN, val : Nat, cap : Nat] /\ child[l][c].num + 1 \in Nat
    BY <1>1, Fields DEF TypeOK
  <2>1. memseg' \in [Launch -> [sized : BOOLEAN, val : Nat, cap : Nat]]
    BY <1>1, <1>4, <2>0 DEF TypeOK
  <2> QED
    BY <1>1, <1>3, <1>4, <2>1 DEF TypeOK, Object
<1>7. (ParentsPlace /\ Slots /\ Alone /\ OwnNames /\ KeysInUse /\ NamesRemoved)'
  <2>1. \A k \in Launch, d \in Child :
          \/ child'[k][d].at = child[k][d].at
          \/ child[k][d].at \notin Over \cup {"none"} /\ child'[k][d].at # "none"
    BY <1>1, <1>3, <1>5 DEF Over
  <2> QED
    BY <1>4, <2>1, ChildKeeps
<1>8. (ChildsPlace /\ Created /\ OwnObjects)'
  <2>1. \A k \in Launch, d \in Child :
          /\ child'[k][d].seg = child[k][d].seg /\ child'[k][d].sem = child[k][d].sem
          /\ \/ child'[k][d].at = child[k][d].at
             \/ /\ child[k][d].at \in {"wait"} \cup Critical
                /\ child'[k][d].at \in {"wait"} \cup Critical \cup Over
             \/ child[k][d].at # "none" /\ child'[k][d].at \in Over
    BY <1>1, <1>3, <1>5 DEF Critical, Over
  <2> QED
    BY <1>4, <2>1, SameObjects
<1>9. Token'
  <2>1. \A k \in Launch, d \in Child :
          (Holds(k, d)' <=> Holds(k, d)) /\ child'[k][d].sem = child[k][d].sem
    BY <1>1, <1>3, <1>5 DEF Holds, Critical
  <2> QED
    BY <1>4, <2>1 DEF IInv, Token
<1>10. \A k \in Launch :
         Undisturbed(k)' /\ Unshared(k)' /\ main[k].seg # None => Undisturbed(k) /\ Unshared(k)
  BY <1>1, <1>3, <1>4, <1>5 DEF Undisturbed, Unshared
<1>11. Counting'
  <2>1. /\ memseg'[child[l][c].seg].sized = memseg[child[l][c].seg].sized
        /\ memseg'[child[l][c].seg].cap = memseg[child[l][c].seg].cap
        /\ memseg'[child[l][c].seg].val = child[l][c].num + 1
        /\ \A o \in Launch : o # child[l][c].seg => memseg'[o] = memseg[o]
    BY <1>1, <1>4 DEF TypeOK
  <2>2. ASSUME NEW k \in Launch, k # l, Unshared(k), Counts(k) PROVE Counts(k)'
    <3>1. main[k].seg # child[l][c].seg
      BY <2>2 DEF Unshared
    <3>2. main[k].seg # None => memseg'[main[k].seg] = memseg[main[k].seg]
      BY <1>1, <2>1, <3>1, Fields
    <3>3. \A d \in Child : child'[k][d] = child[k][d]
      BY <1>3, <2>2
    <3> QED
      BY <1>4, <2>2, <3>2, <3>3 DEF Counts, Running
  <2>3. ASSUME Undisturbed(l), Counts(l) PROVE Counts(l)'
    <3>1. main[l].seg = child[l][c].seg
      BY <1>1, <2>3 DEF IInv, OwnObjects, ParentsPlace, ChildsPlace, Critical
    <3>2. \A d \in Child : d # c => ~Holds(l, d)
      BY <1>1, <2>3, Fields DEF IInv, OwnObjects, ChildsPlace, Token, Holds, Critical
    <3>3. \A d \in Child :
            child'[l][d].at # "store" /\ (child'[l][d].at = "done" => child[l][d].at = "done")
      BY <1>3, <1>5, <3>2 DEF Holds, Critical
    <3>4. SUFFICES ASSUME Running(l) PROVE Counts(l)'
      BY <1>4 DEF Counts, Running
    <3>5. /\ memseg[child[l][c].seg].sized /\ memseg[child[l][c].seg].cap = Cap
          /\ child[l][c].num = memseg[child[l][c].seg].val /\ memseg[child[l][c].seg].val < Cap
          /\ \A d \in Child : child[l][d].at # "done"
      BY <1>1, <2>3, <3>1, <3>4, Fields, Numbers DEF Counts
    <3>6. child[l][c].num + 1 <= Cap /\ main' = main /\ memseg'[child[l][c].seg].cap = Cap
          /\ memseg'[child[l][c].seg].sized /\ memseg'[child[l][c].seg].val = child[l][c].num + 1
      BY <1>1, <1>4, <2>1, <3>5, Fields, Numbers
    <3>7. main'[l].seg = child[l][c].seg /\ \A d \in Child : child'[l][d].at # "done"
      BY <3>1, <3>3, <3>5, <3>6
    <3> QED
      BY <3>3, <3>6, <3>7 DEF Counts
  <2> SUFFICES ASSUME NEW k \in Launch, Undisturbed(k)', Unshared(k)' PROVE Counts(k)'
    BY DEF Counting
  <2>4. CASE main[k].seg = None
    BY <1>4, <2>4 DEF Counts
  <2>5. CASE main[k].seg # None
    <3>1. Undisturbed(k) /\ Unshared(k)
      BY <1>10, <2>5
    <3>2. Counts(k)
      BY <3>1 DEF IInv, Counting
    <3> QED
      BY <2>2, <2>3, <3>1, <3>2
  <2> QED
    BY <2>4, <2>5
<1>12. ExactCount'
  BY <1>1, <1>3, <1>4, <1>5, <1>10 DEF IInv, ExactCount, ChildsPlace
<1> QED
  BY <1>6, <1>7, <1>8, <1>9, <1>11, <1>12 DEF IInv

\* The token goes back to the semaphore, for another turn.
LEMMA TestAndPostAgainStep ==
  ASSUME IInv, NEW l \in Launch, NEW c \in Child, TestAndPost(l, c),
         ~(memseg[child[l][c].seg].val >= memseg[child[l][c].seg].cap)
  PROVE  IInv'
<1> DEFINE to == [child[l][c] EXCEPT !.at = "wait"]
<1>1. TypeOK /\ child[l][c] \in ChildState /\ child[l][c].at = "test"
      /\ child[l][c].sem \in Launch /\ child[l][c].seg \in Launch
  <2>1. TypeOK /\ child[l][c].at = "test"
    BY DEF IInv, TestAndPost
  <2>2. child[l][c].sem # None /\ child[l][c].seg # None
    BY <2>1 DEF IInv, ChildsPlace, Critical
  <2> QED
    BY <2>1, <2>2, Fields
<1>2. to \in ChildState
  BY <1>1, Fields DEF ChildState, Object
<1>3. /\ child'[l][c] = to
      /\ \A k \in Launch, d \in Child : k # l \/ d # c => child'[k][d] = child[k][d]
      /\ child' \in [Launch -> [Child -> ChildState]]
  BY <1>1, <1>2, StepsEffect DEF TestAndPost
<1>4. /\ semval' = [semval EXCEPT ![child[l][c].sem] = @ + 1]
      /\ UNCHANGED <<api, shm_name, sem_name, memseg, main, met, faults>>
  BY <1>1 DEF TestAndPost
<1>5. /\ child'[l][c].at = "wait" /\ child'[l][c].seg = child[l][c].seg
      /\ child'[l][c].sem = child[l][c].sem /\ child'[l][c].num = child[l][c].num
  BY <1>1, <1>3 DEF ChildState
<1> HIDE DEF to
<1>6. TypeOK'
  <2>1. semval[child[l][c].sem] = 0
    BY <1>1 DEF IInv, Token, Holds, Critical
  <2>2. semval' \in [Launch -> 0 .. 1]
    BY <1>1, <1>4, <2>1 DEF TypeOK
  <2> QED
    BY <1>1, <1>3, <1>4, <2>2 DEF TypeOK, Object
<1>7. (ParentsPlace /\ Slots /\ Alone /\ OwnNames /\ KeysInUse /\ NamesRemoved)'
  <2>1. \A k \in Launch, d \in Child :
          \/ child'[k][d].at = child[k][d].at
          \/ child[k][d].at \notin Over \cup {"none"} /\ child'[k][d].at # "none"
    BY <1>1, <1>3, <1>5 DEF Over
  <2> QED
    BY <1>4, <2>1, ChildKeeps
<1>8. (ChildsPlace /\ Created /\ OwnObjects)'
  <2>1. \A k \in Launch, d \in Child :
          /\ child'[k][d].seg = child[k][d].seg /\ child'[k][d].sem = child[k][d].sem
          /\ \/ child'[k][d].at = child[k][d].at
             \/ /\ child[k][d].at \in {"wait"} \cup Critical
                /\ child'[k][d].at \in {"wait"} \cup Critical \cup Over
             \/ child[k][d].at # "none" /\ child'[k][d].at \in Over
    BY <1>1, <1>3, <1>5 DEF Critical, Over
  <2> QED
    BY <1>4, <2>1, SameObjects
<1>9. Token'
  <2>1. /\ semval'[child[l][c].sem] = 1
        /\ \A o \in Launch : o # child[l][c].sem => semval'[o] = semval[o]
    BY <1>1, <1>4 DEF IInv, Token, Holds, Critical, TypeOK
  <2>2. \A k \in Launch, d \in Child :
          Holds(k, d) /\ (k # l \/ d # c) => child[k][d].sem \in Launch /\ child[k][d].sem # child[l][c].sem
    BY <1>1, Fields DEF IInv, Token, Holds, ChildsPlace, Critical
  <2>3. \A k \in Launch, d \in Child :
          Holds(k, d)' => Holds(k, d) /\ (k # l \/ d # c) /\ child'[k][d].sem = child[k][d].sem
    BY <1>3, <1>5 DEF Holds, Critical
  <2> QED
    BY <2>1, <2>2, <2>3 DEF IInv, Token
<1>10. \A k \in Launch :
         Undisturbed(k)' /\ Unshared(k)' /\ main[k].seg # None => Undisturbed(k) /\ Unshared(k)
  BY <1>1, <1>3, <1>4, <1>5 DEF Undisturbed, Unshared
<1>11. Counting'
  <2>1. ASSUME NEW k \in Launch, Counts(k) PROVE Counts(k)'
    BY <1>1, <1>3, <1>4, <1>5, <2>1 DEF Counts, Running
  <2> QED
    BY <1>4, <1>10, <2>1 DEF IInv, Counting, Counts
<1>12. ExactCount'
  BY <1>1, <1>3, <1>4, <1>5, <1>10 DEF IInv, ExactCount, ChildsPlace
<1> QED
  BY <1>6, <1>7, <1>8, <1>9, <1>11, <1>12 DEF IInv

\* The child leaves with the counter at the cap.
LEMMA TestAndPostLeaveStep ==
  ASSUME IInv, NEW l \in Launch, NEW c \in Child, TestAndPost(l, c),
         memseg[child[l][c].seg].val >= memseg[child[l][c].seg].cap
  PROVE  IInv'
<1> DEFINE to == [child[l][c] EXCEPT !.at = "done"]
<1>1. TypeOK /\ child[l][c] \in ChildState /\ child[l][c].at = "test"
      /\ child[l][c].sem \in Launch /\ child[l][c].seg \in Launch
  <2>1. TypeOK /\ child[l][c].at = "test"
    BY DEF IInv, TestAndPost
  <2>2. child[l][c].sem # None /\ child[l][c].seg # None
    BY <2>1 DEF IInv, ChildsPlace, Critical
  <2> QED
    BY <2>1, <2>2, Fields
<1>2. to \in ChildState
  BY <1>1, Fields DEF ChildState, Object
<1>3. /\ child'[l][c] = to
      /\ \A k \in Launch, d \in Child : k # l \/ d # c => child'[k][d] = child[k][d]
      /\ child' \in [Launch -> [Child -> ChildState]]
  BY <1>1, <1>2, StepsEffect DEF TestAndPost
<1>4. /\ semval' = [semval EXCEPT ![child[l][c].sem] = @ + 1]
      /\ UNCHANGED <<api, shm_name, sem_name, memseg, main, met, faults>>
  BY <1>1 DEF TestAndPost
<1>5. /\ child'[l][c].at = "done" /\ child'[l][c].seg = child[l][c].seg
      /\ child'[l][c].sem = child[l][c].sem /\ child'[l][c].num = child[l][c].num
  BY <1>1, <1>3 DEF ChildState
<1> HIDE DEF to
<1>6. TypeOK'
  <2>1. semval[child[l][c].sem] = 0
    BY <1>1 DEF IInv, Token, Holds, Critical
  <2>2. semval' \in [Launch -> 0 .. 1]
    BY <1>1, <1>4, <2>1 DEF TypeOK
  <2> QED
    BY <1>1, <1>3, <1>4, <2>2 DEF TypeOK, Object
<1>7. (ParentsPlace /\ Slots /\ Alone /\ OwnNames /\ KeysInUse /\ NamesRemoved)'
  <2>1. \A k \in Launch, d \in Child :
          \/ child'[k][d].at = child[k][d].at
          \/ child[k][d].at \notin Over \cup {"none"} /\ child'[k][d].at # "none"
    BY <1>1, <1>3, <1>5 DEF Over
  <2> QED
    BY <1>4, <2>1, ChildKeeps
<1>8. (ChildsPlace /\ Created /\ OwnObjects)'
  <2>1. \A k \in Launch, d \in Child :
          /\ child'[k][d].seg = child[k][d].seg /\ child'[k][d].sem = child[k][d].sem
          /\ \/ child'[k][d].at = child[k][d].at
             \/ /\ child[k][d].at \in {"wait"} \cup Critical
                /\ child'[k][d].at \in {"wait"} \cup Critical \cup Over
             \/ child[k][d].at # "none" /\ child'[k][d].at \in Over
    BY <1>1, <1>3, <1>5 DEF Critical, Over
  <2> QED
    BY <1>4, <2>1, SameObjects
<1>9. Token'
  <2>1. /\ semval'[child[l][c].sem] = 1
        /\ \A o \in Launch : o # child[l][c].sem => semval'[o] = semval[o]
    BY <1>1, <1>4 DEF IInv, Token, Holds, Critical, TypeOK
  <2>2. \A k \in Launch, d \in Child :
          Holds(k, d) /\ (k # l \/ d # c) => child[k][d].sem \in Launch /\ child[k][d].sem # child[l][c].sem
    BY <1>1, Fields DEF IInv, Token, Holds, ChildsPlace, Critical
  <2>3. \A k \in Launch, d \in Child :
          Holds(k, d)' => Holds(k, d) /\ (k # l \/ d # c) /\ child'[k][d].sem = child[k][d].sem
    BY <1>3, <1>5 DEF Holds, Critical
  <2> QED
    BY <2>1, <2>2, <2>3 DEF IInv, Token
<1>10. \A k \in Launch :
         Undisturbed(k)' /\ Unshared(k)' /\ main[k].seg # None => Undisturbed(k) /\ Unshared(k)
  BY <1>1, <1>3, <1>4, <1>5 DEF Undisturbed, Unshared
<1>11. Counting'
  <2>1. ASSUME NEW k \in Launch, k # l, Counts(k) PROVE Counts(k)'
    BY <1>3, <1>4, <2>1 DEF Counts, Running
  <2>2. ASSUME Undisturbed(l), Counts(l) PROVE Counts(l)'
    <3>1. main[l].seg = child[l][c].seg
      BY <1>1, <2>2 DEF IInv, OwnObjects, ParentsPlace, ChildsPlace, Critical
    <3>2. Running(l) => memseg[child[l][c].seg].cap = Cap /\ memseg[child[l][c].seg].val <= Cap
      BY <1>1, <2>2, <3>1, Numbers DEF Counts
    <3>3. memseg[child[l][c].seg].val \in Nat /\ Cap \in Nat
      BY <1>1, Fields, Numbers
    <3>4. Running(l) => memseg[child[l][c].seg].val = Cap
      BY <3>2, <3>3
    <3> QED
      BY <1>1, <1>3, <1>4, <1>5, <2>2, <3>1, <3>4 DEF Counts, Running
  <2> QED
    BY <1>4, <1>10, <2>1, <2>2 DEF IInv, Counting, Counts
<1>12. ExactCount'
  <2>1. main[l].printed = None
    BY <1>1 DEF IInv, Slots, Over
  <2> QED
    BY <1>3, <1>4, <1>5, <1>10, <2>1 DEF IInv, ExactCount, ChildsPlace
<1> QED
  BY <1>6, <1>7, <1>8, <1>9, <1>11, <1>12 DEF IInv
-----------------------------------------------------------------------------
LEMMA InitInv == Init => IInv
<1> SUFFICES ASSUME Init PROVE IInv
  OBVIOUS
<1> USE Numbers
<1>1. /\ \A l \in Launch : main[l] = NotStarted
      /\ \A l \in Launch, c \in Child : child[l][c] = NotForked
      /\ shm_name = None /\ sem_name = None /\ api \in {"posix", "sysv"} /\ met = {}
  BY ApisAssumption DEF Init
<1>2. TypeOK
  <2>1. NotStarted \in MainState /\ NotForked \in ChildState /\ Empty \in [sized : BOOLEAN, val : Nat, cap : Nat]
    BY DEF NotStarted, MainState, NotForked, ChildState, Object, Empty, Zeros
  <2> QED
    BY <1>1, <2>1 DEF Init, TypeOK, Object
<1>3. /\ \A l \in Launch : /\ main[l].at = "idle" /\ main[l].shmid = None /\ main[l].seg = None
                           /\ main[l].sem = None /\ main[l].i = 0 /\ main[l].printed = None
      /\ \A l \in Launch, c \in Child : /\ child[l][c].at = "none"
                                        /\ child[l][c].seg = None /\ child[l][c].sem = None
  BY <1>1 DEF NotStarted, NotForked
<1>4. ParentsPlace /\ Slots /\ ChildsPlace
  BY <1>3 DEF ParentsPlace, Slots, ChildsPlace, Critical, Before
<1>5. Created /\ Token /\ Alone
  BY <1>1, <1>3 DEF Created, Token, Holds, Critical, Alone, Busy, Running, Living
<1>6. OwnNames /\ OwnObjects /\ KeysInUse /\ NamesRemoved
  BY <1>1, <1>3 DEF OwnNames, OwnObjects, KeysInUse, NamesRemoved
<1>7. Counting /\ ExactCount
  BY <1>3 DEF Counting, Counts, ExactCount
<1> QED
  BY <1>2, <1>4, <1>5, <1>6, <1>7 DEF IInv

\* A step of the parent.
LEMMA ParentStep == ASSUME IInv, NEW l \in Launch, Main(l) \/ CallFails(l) \/ Crash(l) PROVE IInv'
<1>1. api \in {"posix", "sysv"}
  BY DEF IInv, TypeOK
<1>2. CASE ShmGet(l)
  BY <1>2, FailStep, ShmGetNewStep
<1>3. CASE Attach(l)
  BY <1>1, <1>3, BusStep, AttachPosixStep, AttachSysvStep DEF Attach
<1>4. CASE SemCreate(l)
  BY <1>1, <1>4, FailStep, SemCreatePosixStep, SemCreateSysvStep
<1>5. CASE Fork(l)
  BY <1>5, ForkLastStep, ForkMoreStep
<1>6. CASE PrintVal(l)
  BY <1>6, PrintNothingStep, BusStep, PrintCounterStep DEF PrintVal
<1> QED
  BY <1>2, <1>3, <1>4, <1>5, <1>6, StartStep, ShmOpenStep, FtruncateStep, SetValStep, FailStep,
     CrashStep, ReapStep, RemoveShmStep, RemoveSemStep DEF Main, Parent

\* A step of a child.
LEMMA ChildStep ==
  ASSUME IInv, NEW l \in Launch, NEW c \in Child, IncrSubroutine(l, c) \/ KillChild(l, c)
  PROVE  IInv'
<1>1. api \in {"posix", "sysv"}
  BY DEF IInv, TypeOK
<1>2. CASE ChildAttach(l, c)
  BY <1>1, <1>2, ChildAttachSysvStep, GoneStep, ChildAttachNameStep
<1>3. CASE ChildSemOpen(l, c)
  BY <1>3, GoneStep, ChildSemOpenNameStep
<1>4. CASE Load(l, c)
  BY <1>4, LoadCountStep, LoadFullStep
<1>5. CASE TestAndPost(l, c)
  BY <1>5, TestAndPostAgainStep, TestAndPostLeaveStep
<1> QED
  BY <1>2, <1>3, <1>4, <1>5, SemWaitStep, StoreStep, SigbusStep, KillChildStep DEF
     IncrSubroutine

LEMMA StutterStep == IInv /\ UNCHANGED vars => IInv'
<1> SUFFICES ASSUME IInv, UNCHANGED vars PROVE IInv'
  OBVIOUS
<1>1. TypeOK' /\ ParentsPlace' /\ Slots' /\ ChildsPlace' /\ Created' /\ OwnObjects' /\ KeysInUse'
  BY DEF IInv, vars, TypeOK, ParentsPlace, Slots, ChildsPlace, Created, OwnObjects,
     Undisturbed, KeysInUse
<1>2. Token' /\ Alone' /\ OwnNames' /\ NamesRemoved'
  BY DEF IInv, vars, Token, Holds, Alone, OwnNames, Busy, Running, Living, NamesRemoved
<1>3. Counting' /\ ExactCount'
  BY DEF IInv, vars, Counting, Counts, ExactCount, Undisturbed, Unshared, Running
<1> QED
  BY <1>1, <1>2, <1>3 DEF IInv

\* Every step of the increment programs keeps their invariant.
LEMMA IncrProgStep == IInv /\ [Next]_vars => IInv'
BY ParentStep, ChildStep, StutterStep DEF Next

\* The inductive invariant holds in every reachable state.
THEOREM Invariance == Spec => []IInv
BY InitInv, IncrProgStep, PTL DEF Spec

\* What the invariant says of the semaphore, of the counter and of the names.
LEMMA TokenExcludes == IInv => Exclusive
<1> SUFFICES ASSUME IInv PROVE Exclusive
  OBVIOUS
<1>1. \A o \in Launch : semval[o] \in 0 .. 1
  BY DEF IInv, TypeOK
<1>2. ASSUME NEW l \in Launch, Undisturbed(l), NEW c \in Child, Holds(l, c)
      PROVE  child[l][c].sem = l
  BY <1>2 DEF IInv, OwnObjects, ChildsPlace, Holds
<1> QED
  BY <1>1, <1>2 DEF IInv, Token, Exclusive

LEMMA NamesAreGone == IInv => NoLeftovers
<1> SUFFICES ASSUME IInv PROVE NoLeftovers
  OBVIOUS
<1>1. ASSUME api = "sysv", NEW o \in {shm_name, sem_name} \ {None}
      PROVE  Running(o) \/ main[o].at = "crashed"
  BY <1>1 DEF IInv, KeysInUse, Running
<1>2. ASSUME api = "posix", NEW l \in Launch, AloneAndOver(l), main[l].named
      PROVE  shm_name = None /\ sem_name = None
  BY <1>2 DEF IInv, NamesRemoved, AloneAndOver
<1> QED
  BY <1>1, <1>2 DEF NoLeftovers

\* The semaphore excludes: of the children of one launch at most one is between
\* sem_wait (semop) and sem_post, and no semaphore has more than one token, whatever
\* fails and whoever is killed (a POSIX launch being alone).
THEOREM MutualExclusion == Spec => []Exclusive
BY Invariance, TokenExcludes, PTL

\* The counter that is printed is the cap once a child has left by its own decision,
\* with any number of children counting and dying.
THEOREM CountIsExact == Spec => []ExactCount
<1>1. IInv => ExactCount
  BY DEF IInv
<1> QED
  BY Invariance, <1>1, PTL

\* A System V key is in use only by a launch that runs or was killed, and a POSIX
\* launch that was alone leaves no name behind.
THEOREM NothingLeftOver == Spec => []NoLeftovers
BY Invariance, NamesAreGone, PTL

-----------------------------------------------------------------------------
(***************************************************************************)
(* The segments that carry one text.                                       *)
(***************************************************************************)
Process == Producers \cup Consumers
Segment ==
  [size : Nat, cell : [Page -> Nat], by : SUBSET Producers, last : Producers \cup {Nobody},
   mixed : BOOLEAN]
ProducerState ==
  [at : {"idle", "size", "ask", "copy", "done", "failed"}, len : 0 .. MaxLen,
   obj : Process \cup {Nobody}, todo : SUBSET Page, alone : BOOLEAN]
ConsumerState ==
  [at : {"idle", "size", "clear", "poll", "print", "remove", "done", "failed"},
   len : 0 .. MaxLen, obj : Process \cup {Nobody}, out : Seq(Nat), alone : BOOLEAN,
   quiet : BOOLEAN, early : SUBSET Producers, stale : SUBSET Producers]

\* The shape of the state.
SegmentTypes ==
  /\ pair \in Pairs
  /\ name \in Process \cup {Nobody}
  /\ seg \in [Process -> Segment]
  /\ producer \in [Producers -> ProducerState]
  /\ consumer \in [Consumers -> ConsumerState]

Writes(p) == producer[p].at \in {"size", "copy"}
Serves(c) == consumer[c].at \in {"size", "clear", "poll", "print", "remove"}
Ready(c) == consumer[c].at \in {"poll", "print", "remove"}
Shows(c) == consumer[c].at \in {"print", "remove"}

\* What a producer has when it is at each place.
ProducersPlace ==
  \A p \in Producers :
    /\ IF producer[p].at \in Away THEN producer[p].obj = Nobody ELSE producer[p].obj \in Process
    /\ producer[p].at = "size" => pair = "posix_1"
    /\ producer[p].at = "ask" => Served
    /\ Writes(p) => producer[p].len >= 1
    /\ producer[p].at = "copy" => producer[p].todo \subseteq 1 .. producer[p].len + 1

\* What a consumer has when it is at each place.
ConsumersPlace ==
  \A c \in Consumers :
    /\ IF Serves(c) THEN consumer[c].obj \in Process ELSE consumer[c].obj = Nobody
    /\ Served /\ Serves(c) => consumer[c].len >= 1
    /\ pair = "posix_2" /\ Serves(c) => consumer[c].obj = c
    /\ consumer[c].at = "size" => pair # "sysv_2"
    /\ consumer[c].at = "size" /\ Served => seg[c] = NewSegment(0)
    /\ consumer[c].at = "clear" => pair = "sysv_2"
    /\ consumer[c].at = "poll" => Served
    /\ ~Shows(c) => consumer[c].out = <<>>
    /\ consumer[c].stale # {} => Served /\ Ready(c)

\* Nobody knows of the segment of a process that has not been started.
Unborn(o) == \/ o \in Producers /\ producer[o].at = "idle"
             \/ o \in Consumers /\ consumer[o].at = "idle"
NotYet ==
  \A o \in Process : Unborn(o) =>
    /\ seg[o] = NewSegment(0) /\ name # o
    /\ \A p \in Producers : producer[p].obj # o
    /\ \A c \in Consumers : consumer[c].obj # o

\* Who has written in a segment is writing there or has ended.
Authors ==
  \A o \in Process : \A p \in seg[o].by :
    /\ producer[p].at = "done" \/ (producer[p].at = "copy" /\ producer[p].obj = o)
    /\ Served => producer[p].len < seg[o].size

\* A cell that is not 0 is a character of the text of the producer it names, and
\* so is what has been printed.
Character(x, i) ==
  x \in Producers /\ producer[x].at \in {"copy", "done"} /\ i <= producer[x].len
Characters ==
  /\ \A o \in Process, i \in Page : seg[o].cell[i] # 0 => Character(seg[o].cell[i], i)
  /\ \A c \in Consumers : \A i \in 1 .. Len(consumer[c].out) : Character(consumer[c].out[i], i)

\* Who is alone is the only one, on either side.
SoleWriter ==
  \A p, q \in Producers :
    Writes(p) /\ Writes(q) /\ producer[p].obj = producer[q].obj =>
      p = q \/ (~producer[p].alone /\ (pair = "posix_1" => seg[producer[p].obj].mixed))
SoleServer ==
  \A c, d \in Consumers :
    Serves(c) /\ Serves(d) /\ consumer[c].obj = consumer[d].obj => c = d \/ ~consumer[c].alone

\* A writer that is alone finds the cells it has written as it left them.
OwnText(p) ==
  LET s == seg[producer[p].obj] IN
  /\ producer[p].alone =>
       /\ \A i \in 1 .. producer[p].len \ producer[p].todo : s.cell[i] = p
       /\ pair = "sysv_1" /\ producer[p].len + 1 \notin producer[p].todo
            => s.cell[producer[p].len + 1] = 0
  /\ pair = "sysv_1" => producer[p].len < s.size
  /\ pair = "posix_1" /\ ~s.mixed => s.size = producer[p].len + 1
OwnTexts == ~Served => \A p \in Producers : producer[p].at = "copy" => OwnText(p)

\* The bytes beyond the size are 0 if no two writers have met.
Beyond ==
  pair = "posix_1" => \A o \in Process : ~seg[o].mixed =>
    \A i \in Page : i > seg[o].size => seg[o].cell[i] = 0

\* The text that was copied last is complete.
LastText(o) ==
  LET p == seg[o].last IN
  /\ producer[p].at = "done"
  /\ \A q \in Producers : ~(Writes(q) /\ producer[q].obj = o)
  /\ \A i \in 1 .. producer[p].len : seg[o].cell[i] = p
  /\ pair = "sysv_1" => seg[o].cell[producer[p].len + 1] = 0 /\ producer[p].len < seg[o].size
  /\ pair = "posix_1" /\ ~seg[o].mixed => seg[o].size = producer[p].len + 1
LastTexts == \A o \in Process : seg[o].last # Nobody => ~Served /\ LastText(o)

\* Nobody writes while a consumer prints in quiet.
Quiet ==
  \A c \in Consumers : consumer[c].quiet =>
    /\ Shows(c)
    /\ \A p \in Producers : ~(Writes(p) /\ producer[p].obj = consumer[c].obj)

\* What it has printed is what is in the segment, up to the end of the text.
Reads(c) ==
  LET s == seg[consumer[c].obj]
      n == Len(consumer[c].out) IN
  /\ \A i \in 1 .. n : i \in Page /\ consumer[c].out[i] = s.cell[i]
                       /\ (pair = "sysv_1" => i <= s.size)
  /\ consumer[c].at = "remove" =>
       n + 1 \notin Page \/ s.cell[n + 1] = 0 \/ (pair = "sysv_1" /\ n + 1 > s.size)
Readings ==
  \A c \in Consumers : consumer[c].quiet /\ (Served => consumer[c].alone) => Reads(c)

\* A line and its terminator fit into the segment of a server.
Fits ==
  Served =>
    /\ \A o \in Process, i \in Page : seg[o].cell[i] # 0 => i <= seg[o].size
    /\ \A p \in Producers :
         producer[p].at = "copy" => producer[p].len < seg[producer[p].obj].size
    /\ \A c \in Consumers : Shows(c) => Len(consumer[c].out) <= seg[consumer[c].obj].size

\* A server that is alone and has cleared the whole segment finds there what
\* has been written since, and all that its only client has written.
Collected(c) ==
  LET s == seg[consumer[c].obj] IN
  /\ \A i \in Page : s.cell[i] # 0 => s.cell[i] \in s.by
  /\ \A i \in 1 .. Len(consumer[c].out) : consumer[c].out[i] \in s.by
  /\ \A p \in Producers \ consumer[c].early : s.by \subseteq {p} =>
       /\ producer[p].at = "copy" /\ producer[p].obj = consumer[c].obj
            => \A i \in 1 .. producer[p].len \ producer[p].todo : s.cell[i] = p
       /\ producer[p].at = "done" /\ p \in s.by
            => \A i \in 1 .. producer[p].len : s.cell[i] = p
Collecting ==
  Served => \A c \in Consumers :
    Ready(c) /\ consumer[c].alone /\ seg[consumer[c].obj].size = consumer[c].len + 1 => Collected(c)

\* It prints after it has seen a first character.
Heard ==
  Served => \A c \in Consumers : Shows(c) /\ consumer[c].alone =>
    \/ Len(consumer[c].out) >= 1
    \/ consumer[c].at = "print" /\ seg[consumer[c].obj].cell[1] # 0

\* What a server has cleared does not come back.
Cleared ==
  Served => \A c \in Consumers : Ready(c) => \A q \in consumer[c].stale :
    /\ producer[q].at = "done"
    /\ \A i \in 1 .. consumer[c].len + 1 : seg[consumer[c].obj].cell[i] # q
    /\ \A i \in 1 .. Len(consumer[c].out) : i <= consumer[c].len + 1 => consumer[c].out[i] # q

\* In quiet the terminator it has set ends what it prints.
Ending ==
  Served => \A c \in Consumers : consumer[c].quiet =>
    /\ Len(consumer[c].out) <= consumer[c].len
    /\ seg[consumer[c].obj].cell[consumer[c].len + 1] = 0

SegmentInv ==
  /\ SegmentTypes /\ ProducersPlace /\ ConsumersPlace /\ NotYet /\ Authors /\ Characters
  /\ SoleWriter /\ SoleServer /\ OwnTexts /\ Beyond /\ LastTexts /\ Quiet /\ Readings
  /\ Fits /\ Collecting /\ Heard /\ Cleared /\ Ending

-----------------------------------------------------------------------------
\* The constants.
LEMMA SegmentNames ==
  /\ Process \subseteq Nat \ {0} /\ Producers \subseteq Process /\ Consumers \subseteq Process
  /\ Nobody \notin Process /\ \A p \in Producers, c \in Consumers : p # c
  /\ \A p \in Producers : p \in Nat /\ p # 0 /\ p # Nobody
  /\ MaxLen \in Nat /\ Page = 1 .. MaxLen + 1 /\ Page \subseteq Nat
  /\ \A n \in 0 .. MaxLen :
       n \in Nat /\ n + 1 \in Page /\ 1 .. n \subseteq Page /\ 1 .. n + 1 \subseteq Page
<1>1. /\ Process \subseteq Nat \ {0} /\ Producers \subseteq Process /\ Consumers \subseteq Process
      /\ Nobody \notin Process /\ \A p \in Producers, c \in Consumers : p # c
      /\ \A p \in Producers : p \in Nat /\ p # 0 /\ p # Nobody
  BY ProcessesAssumption DEF Process
<1>2. MaxLen \in Nat /\ Page = 1 .. MaxLen + 1 /\ Page \subseteq Nat
  BY BoundsAssumption DEF Page
<1>3. ASSUME NEW n \in 0 .. MaxLen
      PROVE  n \in Nat /\ n + 1 \in Page /\ 1 .. n \subseteq Page /\ 1 .. n + 1 \subseteq Page
  BY <1>2
<1> QED
  BY <1>1, <1>2, <1>3

\* The types of the fields.
LEMMA Shapes ==
  ASSUME SegmentTypes
  PROVE  /\ \A o \in Process :
              /\ seg[o] \in Segment /\ seg[o].size \in Nat /\ seg[o].cell \in [Page -> Nat]
              /\ seg[o].by \in SUBSET Producers /\ seg[o].last \in Producers \cup {Nobody}
              /\ seg[o].mixed \in BOOLEAN /\ \A i \in Page : seg[o].cell[i] \in Nat
         /\ \A p \in Producers :
              /\ producer[p] \in ProducerState /\ producer[p].len \in 0 .. MaxLen
              /\ producer[p].obj \in Process \cup {Nobody} /\ producer[p].todo \in SUBSET Page
              /\ producer[p].alone \in BOOLEAN
              /\ producer[p].at \in {"idle", "size", "ask", "copy", "done", "failed"}
         /\ \A c \in Consumers :
              /\ consumer[c] \in ConsumerState /\ consumer[c].len \in 0 .. MaxLen
              /\ consumer[c].obj \in Process \cup {Nobody} /\ consumer[c].out \in Seq(Nat)
              /\ Len(consumer[c].out) \in Nat
              /\ consumer[c].alone \in BOOLEAN /\ consumer[c].quiet \in BOOLEAN
              /\ consumer[c].early \in SUBSET Producers /\ consumer[c].stale \in SUBSET Producers
              /\ consumer[c].at \in {"idle", "size", "clear", "poll", "print", "remove", "done",
                                     "failed"}
<1>1. ASSUME NEW o \in Process
      PROVE  /\ seg[o] \in Segment /\ seg[o].size \in Nat /\ seg[o].cell \in [Page -> Nat]
             /\ seg[o].by \in SUBSET Producers /\ seg[o].last \in Producers \cup {Nobody}
             /\ seg[o].mixed \in BOOLEAN /\ \A i \in Page : seg[o].cell[i] \in Nat
  BY DEF SegmentTypes, Segment
<1>2. ASSUME NEW p \in Producers
      PROVE  /\ producer[p] \in ProducerState /\ producer[p].len \in 0 .. MaxLen
             /\ producer[p].obj \in Process \cup {Nobody} /\ producer[p].todo \in SUBSET Page
             /\ producer[p].alone \in BOOLEAN
             /\ producer[p].at \in {"idle", "size", "ask", "copy", "done", "failed"}
  BY DEF SegmentTypes, ProducerState
<1>3. ASSUME NEW c \in Consumers
      PROVE  /\ consumer[c] \in ConsumerState /\ consumer[c].len \in 0 .. MaxLen
             /\ consumer[c].obj \in Process \cup {Nobody} /\ consumer[c].out \in Seq(Nat)
             /\ Len(consumer[c].out) \in Nat
             /\ consumer[c].alone \in BOOLEAN /\ consumer[c].quiet \in BOOLEAN
             /\ consumer[c].early \in SUBSET Producers /\ consumer[c].stale \in SUBSET Producers
             /\ consumer[c].at \in {"idle", "size", "clear", "poll", "print", "remove", "done",
                                    "failed"}
  <2>1. consumer[c] \in ConsumerState
    BY DEF SegmentTypes
  <2> QED
    BY <2>1 DEF ConsumerState
<1> QED
  BY <1>1, <1>2, <1>3

\* A segment that has just been made.
LEMMA NewSegmentShape ==
  ASSUME NEW n \in Nat
  PROVE  /\ NewSegment(n) \in Segment /\ NewSegment(n).size = n /\ NewSegment(n).by = {}
         /\ NewSegment(n).last = Nobody /\ NewSegment(n).mixed = FALSE
         /\ \A i \in Page : NewSegment(n).cell[i] = 0
BY DEF NewSegment, Segment

\* An object that has not been sized.
LEMMA EmptySegment ==
  /\ NewSegment(0) \in Segment /\ NewSegment(0).size = 0 /\ NewSegment(0).by = {}
  /\ NewSegment(0).last = Nobody /\ NewSegment(0).mixed = FALSE
  /\ \A i \in Page : NewSegment(0).cell[i] = 0
BY DEF NewSegment, Segment

\* What moves of one producer and of one consumer do, pointwise.
LEMMA PMovesEffect ==
  ASSUME SegmentTypes, NEW p \in Producers, NEW to \in ProducerState, PMoves(p, to)
  PROVE  /\ producer'[p] = to /\ \A q \in Producers : q # p => producer'[q] = producer[q]
         /\ producer' \in [Producers -> ProducerState]
BY DEF PMoves, SegmentTypes

LEMMA CMovesEffect ==
  ASSUME SegmentTypes, NEW c \in Consumers, NEW to \in ConsumerState, CMoves(c, to)
  PROVE  /\ consumer'[c] = to /\ \A d \in Consumers : d # c => consumer'[d] = consumer[d]
         /\ consumer' \in [Consumers -> ConsumerState]
BY DEF CMoves, SegmentTypes

\* What it is to begin to write in a segment, pointwise.
LEMMA PEntersEffect ==
  ASSUME SegmentTypes, NEW p \in Producers, NEW to \in ProducerState, PEnters(p, to)
  PROVE  /\ producer'[p].at = to.at /\ producer'[p].len = to.len /\ producer'[p].obj = to.obj
         /\ producer'[p].todo = to.todo
         /\ producer'[p].alone =>
              \A q \in Producers : q # p => ~(Writes(q) /\ producer[q].obj = to.obj)
         /\ \A q \in Producers : q # p =>
              /\ producer'[q].at = producer[q].at /\ producer'[q].len = producer[q].len
              /\ producer'[q].obj = producer[q].obj /\ producer'[q].todo = producer[q].todo
              /\ producer'[q].alone =>
                   producer[q].alone /\ ~(Writes(q) /\ producer[q].obj = to.obj)
         /\ \A c \in Consumers :
              /\ consumer'[c].at = consumer[c].at /\ consumer'[c].len = consumer[c].len
              /\ consumer'[c].obj = consumer[c].obj /\ consumer'[c].out = consumer[c].out
              /\ consumer'[c].alone = consumer[c].alone
              /\ consumer'[c].early = consumer[c].early /\ consumer'[c].stale = consumer[c].stale
              /\ consumer'[c].quiet => consumer[c].quiet /\ consumer[c].obj # to.obj
         /\ producer' \in [Producers -> ProducerState]
         /\ consumer' \in [Consumers -> ConsumerState]
<1> DEFINE others == WritingOn(to.obj) \ {p}
           P(q) == IF q = p THEN [to EXCEPT !.alone = (others = {})]
                   ELSE [producer[q] EXCEPT !.alone = producer[q].alone /\ q \notin others]
           C(c) == [consumer[c] EXCEPT !.quiet = consumer[c].quiet /\ consumer[c].obj # to.obj]
<1>1. producer' = [q \in Producers |-> P(q)] /\ consumer' = [c \in Consumers |-> C(c)]
  BY DEF PEnters
<1>2. \A q \in Producers : q # p => (q \in others <=> Writes(q) /\ producer[q].obj = to.obj)
  BY DEF WritingOn, Writes
<1> HIDE DEF others
<1>3. /\ P(p) \in ProducerState /\ P(p).at = to.at /\ P(p).len = to.len /\ P(p).obj = to.obj
      /\ P(p).todo = to.todo /\ (P(p).alone <=> others = {})
  BY DEF ProducerState
<1>4. ASSUME NEW q \in Producers, q # p
      PROVE  /\ P(q) \in ProducerState /\ P(q).at = producer[q].at /\ P(q).len = producer[q].len
             /\ P(q).obj = producer[q].obj /\ P(q).todo = producer[q].todo
             /\ (P(q).alone <=> producer[q].alone /\ q \notin others)
  <2>1. producer[q] \in ProducerState
    BY DEF SegmentTypes
  <2> QED
    BY <1>4, <2>1 DEF ProducerState
<1>5. ASSUME NEW c \in Consumers
      PROVE  /\ C(c) \in ConsumerState /\ C(c).at = consumer[c].at /\ C(c).len = consumer[c].len
             /\ C(c).obj = consumer[c].obj /\ C(c).out = consumer[c].out
             /\ C(c).alone = consumer[c].alone /\ C(c).early = consumer[c].early
             /\ C(c).stale = consumer[c].stale
             /\ (C(c).quiet <=> consumer[c].quiet /\ consumer[c].obj # to.obj)
  <2>1. consumer[c] \in ConsumerState
    BY DEF SegmentTypes
  <2> QED
    BY <2>1 DEF ConsumerState
<1>6. /\ producer' \in [Producers -> ProducerState] /\ consumer' \in [Consumers -> ConsumerState]
      /\ \A q \in Producers : producer'[q] = P(q)
      /\ \A c \in Consumers : consumer'[c] = C(c)
  <2> HIDE DEF P, C
  <2>1. \A q \in Producers : P(q) \in ProducerState
    BY <1>3, <1>4
  <2> QED
    BY <1>1, <1>5, <2>1
<1> HIDE DEF P, C
<1>7. others = {} => \A q \in Producers : q # p => ~(Writes(q) /\ producer[q].obj = to.obj)
  BY <1>2
<1> QED
  BY <1>2, <1>3, <1>4, <1>5, <1>6, <1>7

\* What it is for a consumer to take a segment, pointwise.
LEMMA CEntersEffect ==
  ASSUME SegmentTypes, NEW c \in Consumers, NEW to \in ConsumerState, CEnters(c, to)
  PROVE  /\ consumer'[c].at = to.at /\ consumer'[c].len = to.len /\ consumer'[c].obj = to.obj
         /\ consumer'[c].out = to.out /\ consumer'[c].quiet = to.quiet
         /\ consumer'[c].early = to.early /\ consumer'[c].stale = to.stale
         /\ consumer'[c].alone =>
              \A d \in Consumers : d # c => ~(Serves(d) /\ consumer[d].obj = to.obj)
         /\ \A d \in Consumers : d # c =>
              /\ consumer'[d].at = consumer[d].at /\ consumer'[d].len = consumer[d].len
              /\ consumer'[d].obj = consumer[d].obj /\ consumer'[d].out = consumer[d].out
              /\ consumer'[d].quiet = consumer[d].quiet
              /\ consumer'[d].early = consumer[d].early /\ consumer'[d].stale = consumer[d].stale
              /\ consumer'[d].alone =>
                   consumer[d].alone /\ ~(Serves(d) /\ consumer[d].obj = to.obj)
         /\ consumer' \in [Consumers -> ConsumerState]
<1> DEFINE others == ServingOn(to.obj) \ {c}
           C(d) == IF d = c THEN [to EXCEPT !.alone = (others = {})]
                   ELSE [consumer[d] EXCEPT !.alone = consumer[d].alone /\ d \notin others]
<1>1. consumer' = [d \in Consumers |-> C(d)]
  BY DEF CEnters
<1>2. \A d \in Consumers : d # c => (d \in others <=> Serves(d) /\ consumer[d].obj = to.obj)
  BY DEF ServingOn, Serves
<1> HIDE DEF others
<1>3. /\ C(c) \in ConsumerState /\ C(c).at = to.at /\ C(c).len = to.len /\ C(c).obj = to.obj
      /\ C(c).out = to.out /\ C(c).quiet = to.quiet /\ C(c).early = to.early
      /\ C(c).stale = to.stale /\ (C(c).alone <=> others = {})
  BY DEF ConsumerState
<1>4. ASSUME NEW d \in Consumers, d # c
      PROVE  /\ C(d) \in ConsumerState /\ C(d).at = consumer[d].at /\ C(d).len = consumer[d].len
             /\ C(d).obj = consumer[d].obj /\ C(d).out = consumer[d].out
             /\ C(d).quiet = consumer[d].quiet /\ C(d).early = consumer[d].early
             /\ C(d).stale = consumer[d].stale
             /\ (C(d).alone <=> consumer[d].alone /\ d \notin others)
  <2>1. consumer[d] \in ConsumerState
    BY DEF SegmentTypes
  <2> QED
    BY <1>4, <2>1 DEF ConsumerState
<1>5. /\ consumer' \in [Consumers -> ConsumerState]
      /\ \A d \in Consumers : consumer'[d] = C(d)
  <2> HIDE DEF C
  <2>1. \A d \in Consumers : C(d) \in ConsumerState
    BY <1>3, <1>4
  <2> QED
    BY <1>1, <2>1
<1> HIDE DEF C
<1>6. others = {} => \A d \in Consumers : d # c => ~(Serves(d) /\ consumer[d].obj = to.obj)
  BY <1>2
<1> QED
  BY <1>2, <1>3, <1>4, <1>5, <1>6

\* What is said of a consumer stays true while nothing it depends on changes.
LEMMA SameCollected ==
  ASSUME NEW c \in Consumers, producer' = producer, consumer'[c].obj = consumer[c].obj,
         consumer'[c].early = consumer[c].early,
         seg'[consumer[c].obj] = seg[consumer[c].obj],
         \A i \in 1 .. Len(consumer'[c].out) : consumer'[c].out[i] \in seg[consumer[c].obj].by,
         Collected(c)
  PROVE  Collected(c)'
<1> DEFINE s == seg[consumer[c].obj]
<1>1. seg'[consumer'[c].obj] = s
  OBVIOUS
<1>2. \A i \in Page : s.cell[i] # 0 => s.cell[i] \in s.by
  BY DEF Collected
<1>3. ASSUME NEW p \in Producers \ consumer[c].early, s.by \subseteq {p}
      PROVE  /\ producer[p].at = "copy" /\ producer[p].obj = consumer[c].obj
                  => \A i \in 1 .. producer[p].len \ producer[p].todo : s.cell[i] = p
             /\ producer[p].at = "done" /\ p \in s.by
                  => \A i \in 1 .. producer[p].len : s.cell[i] = p
  BY <1>3 DEF Collected
<1> HIDE DEF s
<1>4. \A i \in 1 .. Len(consumer'[c].out) : consumer'[c].out[i] \in s.by
  BY DEF s
<1> QED
  BY <1>1, <1>2, <1>3, <1>4 DEF Collected

LEMMA SameReader ==
  ASSUME NEW d \in Consumers, pair' = pair, producer' = producer, consumer'[d] = consumer[d],
         seg'[consumer[d].obj] = seg[consumer[d].obj]
  PROVE  /\ Reads(d) => Reads(d)'
         /\ Collected(d) => Collected(d)'
<1>1. ASSUME Reads(d)
      PROVE  Reads(d)'
  BY <1>1 DEF Reads
<1>2. ASSUME Collected(d)
      PROVE  Collected(d)'
  <2>1. \A i \in 1 .. Len(consumer'[d].out) : consumer'[d].out[i] \in seg[consumer[d].obj].by
    BY <1>2 DEF Collected
  <2> QED
    BY <1>2, <2>1, SameCollected
<1> QED
  BY <1>1, <1>2

\* A producer that has written nothing has left no trace.
LEMMA Traceless ==
  ASSUME SegmentInv, NEW p \in Producers, producer[p].at \notin {"copy", "done"}
  PROVE  /\ \A o \in Process : /\ p \notin seg[o].by /\ seg[o].last # p
                               /\ \A i \in Page : seg[o].cell[i] # p
         /\ \A c \in Consumers : /\ p \notin consumer[c].stale
                                 /\ \A i \in 1 .. Len(consumer[c].out) : consumer[c].out[i] # p
<1>1. ASSUME NEW o \in Process
      PROVE  p \notin seg[o].by /\ seg[o].last # p
  BY SegmentNames DEF SegmentInv, Authors, LastTexts, LastText
<1>2. ASSUME NEW o \in Process, NEW i \in Page
      PROVE  seg[o].cell[i] # p
  BY SegmentNames DEF SegmentInv, Characters, Character
<1>3. ASSUME NEW c \in Consumers
      PROVE  p \notin consumer[c].stale
  BY DEF SegmentInv, ConsumersPlace, Cleared
<1>4. ASSUME NEW c \in Consumers, NEW i \in 1 .. Len(consumer[c].out)
      PROVE  consumer[c].out[i] # p
  BY DEF SegmentInv, Characters, Character
<1> QED
  BY <1>1, <1>2, <1>3, <1>4

\* Who is at work has a segment.
LEMMA Whereabouts ==
  ASSUME SegmentInv
  PROVE  /\ \A q \in Producers :
              producer[q].at \in {"size", "ask", "copy"} => producer[q].obj \in Process
         /\ \A c \in Consumers :
              /\ consumer[c].at \in {"size", "clear", "poll", "print", "remove"}
                   => consumer[c].obj \in Process
              /\ consumer[c].quiet => consumer[c].at \in {"print", "remove"}
                                      /\ consumer[c].obj \in Process
<1>1. ASSUME NEW q \in Producers, producer[q].at \in {"size", "ask", "copy"}
      PROVE  producer[q].obj \in Process
  BY <1>1 DEF SegmentInv, ProducersPlace, Away
<1>2. ASSUME NEW c \in Consumers,
             consumer[c].at \in {"size", "clear", "poll", "print", "remove"}
      PROVE  consumer[c].obj \in Process
  BY <1>2 DEF SegmentInv, ConsumersPlace, Serves
<1>3. ASSUME NEW c \in Consumers, consumer[c].quiet
      PROVE  consumer[c].at \in {"print", "remove"}
  BY <1>3 DEF SegmentInv, Quiet, Shows
<1> QED
  BY <1>1, <1>2, <1>3

\* A producer fails, or finds the segment it will write in.
LEMMA PWaitsStep ==
  ASSUME SegmentInv, NEW p \in Producers, NEW to \in ProducerState, PMoves(p, to),
         producer[p].at \in {"idle", "ask"}, to.at \in {"failed", "ask"},
         to.at = "failed" => to.obj = Nobody,
         to.at = "ask" => Served /\ to.obj \in Process /\ to.obj = name,
         UNCHANGED <<pair, name, seg, consumer>>
  PROVE  SegmentInv'
<1>0. /\ SegmentTypes /\ ProducersPlace /\ ConsumersPlace /\ NotYet /\ Authors /\ Characters
      /\ SoleWriter /\ SoleServer /\ OwnTexts /\ Beyond /\ LastTexts /\ Quiet
      /\ Readings /\ Fits /\ Collecting /\ Heard /\ Cleared /\ Ending
  BY DEF SegmentInv
<1>1. /\ producer'[p] = to /\ \A q \in Producers : q # p => producer'[q] = producer[q]
      /\ producer' \in [Producers -> ProducerState]
      /\ pair' = pair /\ name' = name /\ seg' = seg /\ consumer' = consumer
  BY <1>0, PMovesEffect
<1>2. producer'[p].at \in {"failed", "ask"}
  BY <1>1
<1>3. /\ \A o \in Process : /\ p \notin seg[o].by /\ seg[o].last # p
                            /\ \A i \in Page : seg[o].cell[i] # p
      /\ \A c \in Consumers : /\ p \notin consumer[c].stale
                              /\ \A i \in 1 .. Len(consumer[c].out) : consumer[c].out[i] # p
  BY Traceless
<1>4. /\ seg \in [Process -> Segment] /\ consumer \in [Consumers -> ConsumerState]
  BY <1>0 DEF SegmentTypes
<1>5. SegmentTypes'
  BY <1>0, <1>1 DEF SegmentTypes
<1>6. ProducersPlace'
  BY <1>0, <1>1 DEF ProducersPlace, Writes, Away, Served
<1>7. ConsumersPlace'
  BY <1>0, <1>1 DEF ConsumersPlace, Serves, Ready, Shows, Served
<1>8. NotYet'
  BY <1>0, <1>1, <1>2, SegmentNames DEF NotYet, Unborn
<1>9. Authors'
  BY <1>0, <1>1, <1>2, <1>3, Shapes DEF Authors, Served
<1>10. Characters'
  BY <1>0, <1>1, <1>2, <1>3 DEF Characters, Character
<1>11. SoleWriter'
  BY <1>0, <1>1, <1>2 DEF SoleWriter, Writes
<1>12. SoleServer'
  BY <1>0, <1>1 DEF SoleServer, Serves
<1>13. OwnTexts'
  BY <1>0, <1>1, <1>2 DEF OwnTexts, OwnText, Served
<1>14. Beyond'
  BY <1>0, <1>1 DEF Beyond
<1>15. LastTexts'
  BY <1>0, <1>1, <1>2, <1>3, Shapes DEF LastTexts, LastText, Writes, Served
<1>16. Quiet'
  BY <1>0, <1>1, <1>2 DEF Quiet, Shows, Writes
<1>17. Readings'
  BY <1>0, <1>1 DEF Readings, Reads, Served
<1>18. Fits'
  BY <1>0, <1>1, <1>2 DEF Fits, Shows, Served
<1>19. Collecting'
  BY <1>0, <1>1, <1>2 DEF Collecting, Collected, Ready, Served
<1>20. Heard'
  BY <1>0, <1>1 DEF Heard, Shows, Served
<1>21. Cleared'
  <2>1. \A c \in Consumers : \A q \in consumer[c].stale : q \in Producers /\ q # p
    BY <1>0, <1>3, Shapes
  <2> QED
    BY <1>0, <1>1, <2>1 DEF Cleared, Ready, Served
<1>22. Ending'
  BY <1>0, <1>1 DEF Ending, Served
<1> QED
  BY <1>5, <1>6, <1>7, <1>8, <1>9, <1>10, <1>11, <1>12, <1>13, <1>14, <1>15, <1>16, <1>17,
     <1>18, <1>19, <1>20, <1>21, <1>22 DEF SegmentInv

\* A producer begins to write in a segment.
LEMMA EntersStep ==
  ASSUME SegmentInv, NEW p \in Producers, NEW to \in ProducerState, PEnters(p, to),
         producer[p].at \in {"idle", "ask"}, to.at \in {"size", "copy"},
         to.obj \in Process, to.len >= 1,
         to.obj \in {p, name, producer[p].obj},
         to.at = "size" => pair = "posix_1",
         to.at = "copy" => /\ pair # "posix_1" /\ to.todo = 1 .. to.len + 1
                           /\ to.len < seg'[to.obj].size,
         pair' = pair, name' \in {name, to.obj}, seg' \in [Process -> Segment],
         \A o \in Process \ {to.obj} : seg'[o] = seg[o],
         seg'[to.obj].cell = seg[to.obj].cell, seg'[to.obj].by = seg[to.obj].by,
         seg'[to.obj].last = Nobody,
         seg[to.obj].mixed => seg'[to.obj].mixed,
         pair = "posix_1" /\ (\E q \in Producers : Writes(q) /\ producer[q].obj = to.obj)
           => seg'[to.obj].mixed,
         seg'[to.obj].size = seg[to.obj].size \/ (to.obj = p /\ producer[p].at = "idle")
  PROVE  SegmentInv'
<1>0. /\ SegmentTypes /\ ProducersPlace /\ ConsumersPlace /\ NotYet /\ Authors /\ Characters
      /\ SoleWriter /\ SoleServer /\ OwnTexts /\ Beyond /\ LastTexts /\ Quiet
      /\ Readings /\ Fits /\ Collecting /\ Heard /\ Cleared /\ Ending
  BY DEF SegmentInv
<1>1. /\ producer'[p].at = to.at /\ producer'[p].len = to.len /\ producer'[p].obj = to.obj
      /\ producer'[p].todo = to.todo
      /\ producer'[p].alone =>
           \A q \in Producers : q # p => ~(Writes(q) /\ producer[q].obj = to.obj)
      /\ \A q \in Producers : q # p =>
           /\ producer'[q].at = producer[q].at /\ producer'[q].len = producer[q].len
           /\ producer'[q].obj = producer[q].obj /\ producer'[q].todo = producer[q].todo
           /\ producer'[q].alone =>
                producer[q].alone /\ ~(Writes(q) /\ producer[q].obj = to.obj)
      /\ producer' \in [Producers -> ProducerState]
  BY <1>0, PEntersEffect
<1>2. /\ \A c \in Consumers :
           /\ consumer'[c].at = consumer[c].at /\ consumer'[c].len = consumer[c].len
           /\ consumer'[c].obj = consumer[c].obj /\ consumer'[c].out = consumer[c].out
           /\ consumer'[c].alone = consumer[c].alone
           /\ consumer'[c].early = consumer[c].early /\ consumer'[c].stale = consumer[c].stale
           /\ consumer'[c].quiet => consumer[c].quiet /\ consumer[c].obj # to.obj
      /\ consumer' \in [Consumers -> ConsumerState]
  BY <1>0, PEntersEffect
<1>3. /\ \A o \in Process : /\ p \notin seg[o].by /\ seg[o].last # p
                            /\ \A i \in Page : seg[o].cell[i] # p
      /\ \A c \in Consumers : /\ p \notin consumer[c].stale
                              /\ \A i \in 1 .. Len(consumer[c].out) : consumer[c].out[i] # p
  BY Traceless
\* The size changes only if p makes the segment, and then nobody knows of it.
<1>4. ASSUME seg'[to.obj].size # seg[to.obj].size
      PROVE  /\ to.obj = p /\ Unborn(p) /\ seg[p].by = {} /\ \A i \in Page : seg[p].cell[i] = 0
             /\ \A q \in Producers : producer[q].obj # p
             /\ \A c \in Consumers : consumer[c].obj # p
  <2>1. to.obj = p /\ Unborn(p) /\ p \in Process
    BY <1>4, SegmentNames DEF Unborn
  <2>2. /\ seg[p] = NewSegment(0) /\ \A q \in Producers : producer[q].obj # p
        /\ \A c \in Consumers : consumer[c].obj # p
    BY <1>0, <2>1 DEF NotYet
  <2>3. seg[p].by = {} /\ \A i \in Page : seg[p].cell[i] = 0
    BY <2>2, EmptySegment
  <2> QED
    BY <2>1, <2>2, <2>3
<1>5. \A o \in Process : /\ seg'[o].cell = seg[o].cell /\ seg'[o].by = seg[o].by
                         /\ seg[o].mixed => seg'[o].mixed
                         /\ seg'[o].size # seg[o].size => o = p /\ seg'[p].size # seg[p].size
  BY <1>4
<1>6. \A o \in Process : seg'[o].size # seg[o].size =>
        /\ seg[o].by = {} /\ \A i \in Page : seg[o].cell[i] = 0
        /\ \A q \in Producers : producer[q].obj # o
        /\ \A c \in Consumers : consumer[c].obj # o
  BY <1>4, <1>5
<1>7. SegmentTypes'
  BY <1>0, <1>1, <1>2, SegmentNames DEF SegmentTypes
<1>8. ProducersPlace'
  <2>1. ASSUME NEW q \in Producers, q # p
        PROVE  /\ IF producer'[q].at \in Away THEN producer'[q].obj = Nobody
                   ELSE producer'[q].obj \in Process
               /\ producer'[q].at = "size" => pair' = "posix_1"
               /\ producer'[q].at = "ask" => Served'
               /\ Writes(q)' => producer'[q].len >= 1
               /\ producer'[q].at = "copy" => producer'[q].todo \subseteq 1 .. producer'[q].len + 1
    BY <1>0, <1>1, <2>1 DEF ProducersPlace, Writes, Served
  <2>2. /\ producer'[p].at \notin Away /\ producer'[p].obj \in Process
        /\ producer'[p].at = "size" => pair' = "posix_1"
        /\ producer'[p].at # "ask" /\ producer'[p].len >= 1
        /\ producer'[p].at = "copy" => producer'[p].todo \subseteq 1 .. producer'[p].len + 1
    BY <1>1 DEF Away
  <2> QED
    BY <2>1, <2>2 DEF ProducersPlace
<1>9. ConsumersPlace'
  <2>1. ASSUME NEW c \in Consumers, consumer[c].at = "size", Served
        PROVE  seg'[c] = NewSegment(0)
    <3>1. c \in Process /\ c # p /\ seg[c] = NewSegment(0) /\ seg[c].size = 0
      BY <1>0, <2>1, SegmentNames, EmptySegment DEF ConsumersPlace
    <3>2. to.len \in Nat /\ pair # "posix_1"
      BY <2>1, SegmentNames DEF ProducerState, Served
    <3> QED
      BY <3>1, <3>2
  <2> QED
    BY <1>0, <1>2, <2>1 DEF ConsumersPlace, Serves, Ready, Shows, Served
<1>10. NotYet'
  BY <1>0, <1>1, <1>2, SegmentNames DEF NotYet, Unborn
<1>11. Authors'
  BY <1>0, <1>1, <1>3, <1>5, <1>6, Shapes DEF Authors, Served
<1>12. Characters'
  <2>1. \A x, j : Character(x, j) => Character(x, j)'
    BY <1>1 DEF Character
  <2> QED
    BY <1>0, <1>2, <1>5, <2>1 DEF Characters
<1>13. SoleWriter'
  <2>1. ASSUME NEW q \in Producers, q # p, Writes(q), producer[q].obj = to.obj
        PROVE  /\ ~producer'[q].alone /\ ~producer'[p].alone
               /\ pair = "posix_1" => seg'[to.obj].mixed
    BY <1>1, <2>1
  <2>2. ASSUME NEW q \in Producers, NEW r \in Producers, q # p, r # p, q # r,
               Writes(q), Writes(r), producer[q].obj = producer[r].obj
        PROVE  ~producer'[q].alone /\ (pair = "posix_1" => seg'[producer[q].obj].mixed)
    BY <1>0, <1>1, <1>5, <2>2, Whereabouts DEF SoleWriter, Writes
  <2> QED
    BY <1>1, <2>1, <2>2 DEF SoleWriter, Writes
<1>14. SoleServer'
  BY <1>0, <1>2 DEF SoleServer, Serves
<1>15. OwnTexts'
  <2>1. ASSUME ~Served, NEW q \in Producers, q # p, producer[q].at = "copy"
        PROVE  OwnText(q)'
    <3>1. /\ OwnText(q) /\ producer[q].obj \in Process
          /\ seg'[producer[q].obj].size = seg[producer[q].obj].size
      BY <1>0, <1>6, <2>1, Whereabouts DEF OwnTexts
    <3> QED
      BY <1>1, <1>5, <2>1, <3>1 DEF OwnText
  <2>2. producer'[p].at = "copy" => OwnText(p)'
    <3>1. 1 .. to.len \ 1 .. to.len + 1 = {} /\ to.len + 1 \in 1 .. to.len + 1
      BY SegmentNames DEF ProducerState
    <3> QED
      BY <1>1, <3>1 DEF OwnText
  <2> QED
    BY <1>1, <2>1, <2>2 DEF OwnTexts, Served
<1>16. Beyond'
  BY <1>0, <1>5, <1>6 DEF Beyond
<1>17. LastTexts'
  <2>1. ASSUME NEW o \in Process, seg'[o].last # Nobody
        PROVE  ~Served' /\ LastText(o)'
    <3>1. o # to.obj /\ seg'[o] = seg[o] /\ ~Served /\ LastText(o)
      BY <1>0, <2>1 DEF LastTexts
    <3>2. seg[o].last \in Producers \ {p}
      BY <1>0, <1>3, <2>1, <3>1, Shapes
    <3> QED
      BY <1>1, <3>1, <3>2 DEF LastText, Writes, Served
  <2> QED
    BY <2>1 DEF LastTexts
<1>18. Quiet'
  BY <1>0, <1>1, <1>2 DEF Quiet, Shows, Writes
<1>19. Readings'
  <2>1. ASSUME NEW c \in Consumers, consumer'[c].quiet, Served' => consumer'[c].alone
        PROVE  Reads(c)'
    <3>1. /\ Reads(c) /\ consumer[c].obj \in Process \ {to.obj}
          /\ seg'[consumer[c].obj] = seg[consumer[c].obj]
      BY <1>0, <1>2, <2>1, Whereabouts DEF Readings, Served
    <3> QED
      BY <1>2, <3>1 DEF Reads
  <2> QED
    BY <2>1 DEF Readings
<1>20. Fits'
  BY <1>0, <1>1, <1>2, <1>5, <1>6 DEF ConsumersPlace, ProducersPlace, Away, Serves, Fits,
     Shows, Served
<1>21. Collecting'
  <2>1. ASSUME Served, NEW c \in Consumers, Ready(c), consumer[c].alone,
               seg'[consumer[c].obj].size = consumer[c].len + 1
        PROVE  Collected(c)'
    <3>1. /\ consumer[c].obj \in Process /\ Collected(c)
          /\ seg'[consumer[c].obj].cell = seg[consumer[c].obj].cell
          /\ seg'[consumer[c].obj].by = seg[consumer[c].obj].by
      BY <1>0, <1>5, <1>6, <2>1, Whereabouts DEF Collecting, Ready
    <3>2. /\ p \notin seg[consumer[c].obj].by
          /\ producer'[p].at = "copy" /\ 1 .. producer'[p].len \ producer'[p].todo = {}
      <4>1. 1 .. to.len \ 1 .. to.len + 1 = {}
        BY SegmentNames DEF ProducerState
      <4> QED
        BY <1>1, <1>3, <2>1, <3>1, <4>1 DEF Served
    <3>3. ASSUME NEW q \in Producers \ consumer'[c].early, seg'[consumer'[c].obj].by \subseteq {q}
          PROVE  /\ producer'[q].at = "copy" /\ producer'[q].obj = consumer'[c].obj
                      => \A i \in 1 .. producer'[q].len \ producer'[q].todo :
                           seg'[consumer'[c].obj].cell[i] = q
                 /\ producer'[q].at = "done" /\ q \in seg'[consumer'[c].obj].by
                      => \A i \in 1 .. producer'[q].len : seg'[consumer'[c].obj].cell[i] = q
      <4>1. CASE q = p
        BY <1>2, <3>1, <3>2, <4>1
      <4>2. CASE q # p
        BY <1>1, <1>2, <3>1, <3>3, <4>2 DEF Collected
      <4> QED
        BY <4>1, <4>2
    <3>4. /\ \A i \in Page : seg'[consumer'[c].obj].cell[i] # 0
                 => seg'[consumer'[c].obj].cell[i] \in seg'[consumer'[c].obj].by
          /\ \A i \in 1 .. Len(consumer'[c].out) : consumer'[c].out[i] \in seg'[consumer'[c].obj].by
      BY <1>2, <3>1 DEF Collected
    <3> QED
      BY <3>3, <3>4 DEF Collected
  <2> QED
    BY <1>2, <2>1 DEF Collecting, Ready, Served
<1>22. Heard'
  BY <1>0, <1>2, <1>5 DEF ConsumersPlace, Serves, Heard, Shows, Served
<1>23. Cleared'
  <2>1. \A c \in Consumers : \A q \in consumer[c].stale : q \in Producers /\ q # p
    BY <1>0, <1>3, Shapes
  <2>2. \A c \in Consumers : Ready(c) => consumer[c].obj \in Process
    BY <1>0 DEF ConsumersPlace, Ready, Serves
  <2> QED
    BY <1>0, <1>1, <1>2, <1>5, <2>1, <2>2 DEF Cleared, Ready, Served
<1>24. Ending'
  BY <1>0, <1>2, <1>5 DEF ConsumersPlace, Serves, Quiet, Shows, Ending, Served
<1> QED
  BY <1>7, <1>8, <1>9, <1>10, <1>11, <1>12, <1>13, <1>14, <1>15, <1>16, <1>17, <1>18, <1>19,
     <1>20, <1>21, <1>22, <1>23, <1>24 DEF SegmentInv

\* A writer sizes the object.
LEMMA TruncateStep ==
  ASSUME SegmentInv, NEW p \in Producers, pair = "posix_1", WriterTruncate(p)
  PROVE  SegmentInv'
<1>0. /\ SegmentTypes /\ ProducersPlace /\ ConsumersPlace /\ NotYet /\ Authors /\ Characters
      /\ SoleWriter /\ SoleServer /\ OwnTexts /\ Beyond /\ LastTexts /\ Quiet
      /\ Readings /\ Fits /\ Collecting /\ Heard /\ Cleared /\ Ending
  BY DEF SegmentInv
<1> DEFINE o == producer[p].obj
           size == producer[p].len + 1
<1>1. /\ producer[p].at = "size" /\ o \in Process /\ size \in Nat /\ producer[p].len \in Nat
      /\ 1 .. producer[p].len \subseteq Page /\ producer[p] \in ProducerState
  BY <1>0, Whereabouts, Shapes, SegmentNames DEF WriterTruncate
<1>2. /\ producer'[p].at = "copy" /\ producer'[p].todo = 1 .. producer[p].len
      /\ \A q \in Producers : /\ producer'[q].len = producer[q].len
                              /\ producer'[q].obj = producer[q].obj
                              /\ producer'[q].alone = producer[q].alone
      /\ \A q \in Producers : q # p => producer'[q] = producer[q]
      /\ producer' \in [Producers -> ProducerState]
  <2> DEFINE to == [producer[p] EXCEPT !.at = "copy", !.todo = 1 .. producer[p].len]
  <2>1. /\ to \in ProducerState /\ to.at = "copy" /\ to.todo = 1 .. producer[p].len
        /\ to.len = producer[p].len /\ to.obj = producer[p].obj /\ to.alone = producer[p].alone
    BY <1>1 DEF ProducerState
  <2>2. PMoves(p, to)
    BY DEF WriterTruncate
  <2> HIDE DEF to
  <2>3. /\ producer'[p] = to /\ \A q \in Producers : q # p => producer'[q] = producer[q]
        /\ producer' \in [Producers -> ProducerState]
    BY <1>0, <2>1, <2>2, PMovesEffect
  <2> QED
    BY <2>1, <2>3
<1>3. /\ pair' = pair /\ name' = name /\ consumer' = consumer /\ ~Served
  BY DEF WriterTruncate, Served
<1>4. /\ seg' \in [Process -> Segment] /\ \A r \in Process : r # o => seg'[r] = seg[r]
      /\ seg'[o].size = size /\ seg'[o].by = seg[o].by /\ seg'[o].last = seg[o].last
      /\ seg'[o].mixed = seg[o].mixed
      /\ \A i \in Page : seg'[o].cell[i] = IF i > size /\ size < seg[o].size THEN 0
                                           ELSE seg[o].cell[i]
  <2> DEFINE cells == [i \in Page |-> IF i > size /\ size < seg[o].size THEN 0 ELSE seg[o].cell[i]]
             new == [seg[o] EXCEPT !.size = size, !.cell = cells]
  <2>1. seg' = [seg EXCEPT ![o] = new]
    BY DEF WriterTruncate
  <2>2. cells \in [Page -> Nat] /\ seg[o] \in Segment /\ seg \in [Process -> Segment]
    BY <1>0, <1>1, Shapes DEF SegmentTypes
  <2>3. \A i \in Page : cells[i] = IF i > size /\ size < seg[o].size THEN 0 ELSE seg[o].cell[i]
    OBVIOUS
  <2> HIDE DEF cells, size
  <2>4. /\ new \in Segment /\ new.size = size /\ new.cell = cells /\ new.by = seg[o].by
        /\ new.last = seg[o].last /\ new.mixed = seg[o].mixed
    BY <1>1, <2>2 DEF Segment
  <2> HIDE DEF new, o
  <2>5. /\ seg'[o] = new /\ seg' \in [Process -> Segment]
        /\ \A r \in Process : r # o => seg'[r] = seg[r]
    BY <1>1, <2>1, <2>2, <2>4
  <2> QED
    BY <2>3, <2>4, <2>5
<1> HIDE DEF o, size
\* Nothing that counts has been said of the segment p is at work on.
<1>5. seg[o].last = Nobody /\ \A c \in Consumers : consumer[c].quiet => consumer[c].obj # o
  BY <1>0, <1>1 DEF LastTexts, LastText, Quiet, Writes, o
<1>6. \A q \in Producers : q # p /\ producer[q].at = "copy" /\ producer[q].obj = o
        => ~producer[q].alone /\ seg[o].mixed
  BY <1>0, <1>1 DEF SoleWriter, Writes, o
<1>7. /\ \A r \in Process : /\ seg'[r].by = seg[r].by /\ seg'[r].last = seg[r].last
                            /\ seg'[r].mixed = seg[r].mixed
      /\ \A r \in Process, i \in Page : seg'[r].cell[i] # 0 => seg'[r].cell[i] = seg[r].cell[i]
  BY <1>4
<1>8. SegmentTypes'
  BY <1>0, <1>2, <1>3, <1>4 DEF SegmentTypes
<1>9. ProducersPlace'
  <2>1. producer'[p].todo \subseteq 1 .. producer'[p].len + 1
    BY <1>1, <1>2
  <2> QED
    BY <1>0, <1>1, <1>2, <1>3, <2>1 DEF ProducersPlace, Writes, Away, Served
<1>10. ConsumersPlace'
  BY <1>0, <1>3 DEF ConsumersPlace, Serves, Ready, Shows, Served
<1>11. NotYet'
  <2>1. \A r \in Process : Unborn(r)' => Unborn(r) /\ r # o
    BY <1>0, <1>1, <1>2, <1>3 DEF NotYet, Unborn, o
  <2> QED
    BY <1>0, <1>2, <1>3, <1>4, <2>1 DEF NotYet
<1>12. Authors'
  BY <1>0, <1>1, <1>2, <1>3, <1>7, Shapes DEF Authors, Served
<1>13. Characters'
  <2>1. \A x, i : Character(x, i) => Character(x, i)'
    BY <1>1, <1>2 DEF Character
  <2> QED
    BY <1>0, <1>3, <1>7, <2>1 DEF Characters
<1>14. SoleWriter'
  <2>1. \A q \in Producers : Writes(q)' <=> Writes(q)
    BY <1>1, <1>2 DEF Writes
  <2> QED
    BY <1>0, <1>2, <1>3, <1>7, <2>1, Whereabouts DEF SoleWriter, Writes
<1>15. SoleServer'
  BY <1>0, <1>3 DEF SoleServer, Serves
<1>16. OwnTexts'
  <2>1. OwnText(p)'
    <3>1. 1 .. producer[p].len \ producer'[p].todo = {}
      BY <1>2
    <3> QED
      BY <1>2, <1>3, <1>4, <3>1 DEF OwnText, o, size
  <2>2. ASSUME NEW q \in Producers, q # p, producer[q].at = "copy"
        PROVE  OwnText(q)'
    <3>1. OwnText(q) /\ producer[q].obj \in Process
      BY <1>0, <1>3, <2>2, Whereabouts DEF OwnTexts
    <3>2. CASE producer[q].obj = o
      BY <1>2, <1>3, <1>6, <1>7, <2>2, <3>1, <3>2 DEF OwnText
    <3>3. CASE producer[q].obj # o
      BY <1>2, <1>3, <1>4, <2>2, <3>1, <3>3 DEF OwnText
    <3> QED
      BY <3>2, <3>3
  <2> QED
    BY <1>2, <2>1, <2>2 DEF OwnTexts
<1>17. Beyond'
  <2>1. ASSUME ~seg[o].mixed, NEW i \in Page, i > size
        PROVE  seg'[o].cell[i] = 0
    <3>1. /\ size \in Nat /\ i \in Nat /\ seg[o].size \in Nat
          /\ seg'[o].cell[i] = IF i > size /\ size < seg[o].size THEN 0 ELSE seg[o].cell[i]
      BY <1>0, <1>1, <1>4, Shapes, SegmentNames
    <3>2. i > seg[o].size => seg[o].cell[i] = 0
      BY <1>0, <1>1, <2>1 DEF Beyond
    <3> QED
      BY <2>1, <3>1, <3>2
  <2> QED
    BY <1>0, <1>4, <2>1 DEF Beyond
<1>18. LastTexts'
  <2>1. ASSUME NEW r \in Process, seg'[r].last # Nobody
        PROVE  ~Served' /\ LastText(r)'
    <3>1. r # o /\ seg'[r] = seg[r] /\ LastText(r) /\ seg[r].last \in Producers
      BY <1>0, <1>4, <1>5, <1>7, <2>1, Shapes DEF LastTexts
    <3> QED
      BY <1>1, <1>2, <1>3, <3>1 DEF LastText, Writes, Served, o
  <2> QED
    BY <2>1 DEF LastTexts
<1>19. Quiet'
  BY <1>0, <1>1, <1>2, <1>3 DEF Quiet, Shows, Writes
<1>20. Readings'
  BY <1>0, <1>3, <1>4, <1>5, Whereabouts DEF Readings, Reads, Served
<1>21. Fits'
  BY <1>3 DEF Fits, Served
<1>22. Collecting'
  BY <1>3 DEF Collecting, Served
<1>23. Heard'
  BY <1>3 DEF Heard, Served
<1>24. Cleared'
  BY <1>3 DEF Cleared, Served
<1>25. Ending'
  BY <1>3 DEF Ending, Served
<1> QED
  BY <1>8, <1>9, <1>10, <1>11, <1>12, <1>13, <1>14, <1>15, <1>16, <1>17, <1>18, <1>19,
     <1>20, <1>21, <1>22, <1>23, <1>24, <1>25 DEF SegmentInv

\* memcpy writes one more cell.
LEMMA CopyStep ==
  ASSUME SegmentInv, NEW p \in Producers, Copy(p)
  PROVE  SegmentInv'
<1>0. /\ SegmentTypes /\ ProducersPlace /\ ConsumersPlace /\ NotYet /\ Authors /\ Characters
      /\ SoleWriter /\ SoleServer /\ OwnTexts /\ Beyond /\ LastTexts /\ Quiet
      /\ Readings /\ Fits /\ Collecting /\ Heard /\ Cleared /\ Ending
  BY DEF SegmentInv
<1> DEFINE o == producer[p].obj
           n == producer[p].len
<1>1. /\ producer[p].at = "copy" /\ o \in Process /\ producer[p] \in ProducerState
      /\ n \in 0 .. MaxLen /\ n >= 1 /\ n \in Nat /\ producer[p].todo \subseteq 1 .. n + 1
      /\ p \in Process /\ p \in Nat /\ p # 0 /\ p # Nobody
  BY <1>0, Whereabouts, Shapes, SegmentNames DEF Copy, ProducersPlace, Writes
<1>2. PICK i \in producer[p].todo :
        LET left == producer[p].todo \ {i} IN
        /\ seg' = [seg EXCEPT ![o] =
             [seg[o] EXCEPT !.cell[i] = IF i <= n THEN p ELSE 0,
                            !.by = @ \cup {p},
                            !.last = IF left = {} /\ producer[p].alone /\ ~Served
                                     THEN p ELSE Nobody]]
        /\ PMoves(p, IF left = {} THEN [NewProducer EXCEPT !.at = "done", !.len = n]
                                  ELSE [producer[p] EXCEPT !.todo = left])
  BY DEF Copy
<1>3. /\ pair' = pair /\ name' = name /\ consumer' = consumer
  BY DEF Copy
<1> DEFINE left == producer[p].todo \ {i}
           v == IF i <= n THEN p ELSE 0
<1>4. i \in Page /\ i \in Nat /\ i >= 1 /\ i <= n + 1 /\ v \in Nat /\ left \in SUBSET Page
  BY <1>0, <1>1, Shapes, SegmentNames
<1>5. /\ seg' \in [Process -> Segment] /\ \A r \in Process : r # o => seg'[r] = seg[r]
      /\ seg'[o].size = seg[o].size /\ seg'[o].by = seg[o].by \cup {p}
      /\ seg'[o].mixed = seg[o].mixed /\ seg'[o].cell[i] = v
      /\ \A j \in Page : j # i => seg'[o].cell[j] = seg[o].cell[j]
      /\ seg'[o].last # Nobody => seg'[o].last = p /\ left = {} /\ producer[p].alone /\ ~Served
  <2> DEFINE last == IF left = {} /\ producer[p].alone /\ ~Served THEN p ELSE Nobody
             new == [seg[o] EXCEPT !.cell[i] = v, !.by = @ \cup {p}, !.last = last]
  <2>1. seg' = [seg EXCEPT ![o] = new]
    BY <1>2
  <2>2. /\ last \in Producers \cup {Nobody}
        /\ last # Nobody => last = p /\ left = {} /\ producer[p].alone /\ ~Served
    OBVIOUS
  <2>3. seg[o] \in Segment /\ seg \in [Process -> Segment]
    BY <1>0, <1>1, Shapes DEF SegmentTypes
  <2> HIDE DEF last, v, o
  <2>4. /\ new \in Segment /\ new.size = seg[o].size /\ new.by = seg[o].by \cup {p}
        /\ new.last = last /\ new.mixed = seg[o].mixed /\ new.cell[i] = v
        /\ \A j \in Page : j # i => new.cell[j] = seg[o].cell[j]
    BY <1>4, <2>2, <2>3 DEF Segment
  <2> HIDE DEF new
  <2>5. /\ seg'[o] = new /\ seg' \in [Process -> Segment]
        /\ \A r \in Process : r # o => seg'[r] = seg[r]
    BY <1>1, <2>1, <2>3, <2>4
  <2> QED
    BY <2>2, <2>4, <2>5
<1>6. /\ producer'[p].len = n
      /\ left = {} => producer'[p].at = "done" /\ producer'[p].obj = Nobody
      /\ left # {} => /\ producer'[p].at = "copy" /\ producer'[p].obj = o
                      /\ producer'[p].todo = left /\ producer'[p].alone = producer[p].alone
      /\ \A q \in Producers : q # p => producer'[q] = producer[q]
      /\ producer' \in [Producers -> ProducerState]
  <2> DEFINE over == [NewProducer EXCEPT !.at = "done", !.len = n]
             on == [producer[p] EXCEPT !.todo = left]
             to == IF left = {} THEN over ELSE on
  <2>1. over \in ProducerState /\ over.at = "done" /\ over.len = n /\ over.obj = Nobody
    BY <1>1 DEF ProducerState, NewProducer
  <2>2. /\ on \in ProducerState /\ on.at = "copy" /\ on.len = n /\ on.obj = o
        /\ on.todo = left /\ on.alone = producer[p].alone
    <3> HIDE DEF left
    <3> QED
      BY <1>1, <1>4 DEF ProducerState
  <2>3. PMoves(p, to)
    BY <1>2
  <2> HIDE DEF over, on
  <2>4. to \in ProducerState
    BY <2>1, <2>2
  <2>5. /\ producer'[p] = to /\ \A q \in Producers : q # p => producer'[q] = producer[q]
        /\ producer' \in [Producers -> ProducerState]
    BY <1>0, <2>3, <2>4, PMovesEffect
  <2> QED
    BY <2>1, <2>2, <2>5
<1>7. /\ \A j : j \in left <=> j \in producer[p].todo /\ j # i
      /\ v # 0 => v = p /\ i <= n
      /\ i <= n => v = p
      /\ i = n + 1 => v = 0
  BY <1>1, <1>4
<1> HIDE DEF o, n, left, v
<1>8. /\ \A q \in Producers : /\ producer'[q].len = producer[q].len
                              /\ producer'[q].at \in {"copy", "done"}
                                   <=> producer[q].at \in {"copy", "done"}
                              /\ producer'[q].at = "done" => producer[q].at = "done" \/ q = p
                              /\ producer[q].at = "done" => producer'[q].at = "done"
                              /\ Writes(q)' => Writes(q) /\ producer'[q].obj = producer[q].obj
                                                 /\ producer'[q].alone = producer[q].alone
                              /\ producer'[q].at # producer[q].at => q = p
      /\ \A r \in Process : seg'[r].size = seg[r].size /\ seg'[r].mixed = seg[r].mixed
  BY <1>1, <1>5, <1>6 DEF Writes, n, o
\* Who prints in quiet is elsewhere, and no other writer has met p if p is alone.
<1>9. /\ \A c \in Consumers : consumer[c].quiet => consumer[c].obj # o
      /\ \A q \in Producers : q # p /\ Writes(q) /\ producer[q].obj = o =>
           ~producer[q].alone /\ ~producer[p].alone /\ (pair = "posix_1" => seg[o].mixed)
  BY <1>0, <1>1 DEF Quiet, SoleWriter, Writes, o
\* The text so far.
<1>10. ~Served => OwnText(p)
  BY <1>0, <1>1 DEF OwnTexts
<1>11. ~Served /\ producer[p].alone =>
         /\ \A j \in 1 .. n : j \notin left => seg'[o].cell[j] = p
         /\ pair = "sysv_1" /\ n + 1 \notin left => seg'[o].cell[n + 1] = 0
  <2> SUFFICES ASSUME ~Served, producer[p].alone
               PROVE  /\ \A j \in 1 .. n : j \notin left => seg'[o].cell[j] = p
                      /\ pair = "sysv_1" /\ n + 1 \notin left => seg'[o].cell[n + 1] = 0
    OBVIOUS
  <2>1. /\ \A j \in 1 .. n \ producer[p].todo : seg[o].cell[j] = p
        /\ pair = "sysv_1" /\ n + 1 \notin producer[p].todo => seg[o].cell[n + 1] = 0
    BY <1>10 DEF OwnText, o, n
  <2>2. 1 .. n \subseteq Page /\ n + 1 \in Page
    BY <1>1, SegmentNames
  <2>3. ASSUME NEW j \in 1 .. n, j \notin left
        PROVE  seg'[o].cell[j] = p
    BY <1>1, <1>4, <1>5, <1>7, <2>1, <2>2, <2>3
  <2>4. ASSUME pair = "sysv_1", n + 1 \notin left
        PROVE  seg'[o].cell[n + 1] = 0
    BY <1>5, <1>7, <2>1, <2>2, <2>4
  <2> QED
    BY <2>3, <2>4
<1>12. SegmentTypes'
  BY <1>0, <1>3, <1>5, <1>6 DEF SegmentTypes
<1>13. ProducersPlace'
  <2>1. left # {} => producer'[p].todo \subseteq 1 .. producer'[p].len + 1
    BY <1>1, <1>6, <1>7
  <2>2. ASSUME NEW q \in Producers, q # p
        PROVE  /\ IF producer'[q].at \in Away THEN producer'[q].obj = Nobody
                   ELSE producer'[q].obj \in Process
               /\ producer'[q].at = "size" => pair' = "posix_1"
               /\ producer'[q].at = "ask" => Served'
               /\ Writes(q)' => producer'[q].len >= 1
               /\ producer'[q].at = "copy" => producer'[q].todo \subseteq 1 .. producer'[q].len + 1
    BY <1>0, <1>3, <1>6, <2>2 DEF ProducersPlace, Writes, Served
  <2> QED
    BY <1>1, <1>6, <2>1, <2>2 DEF ProducersPlace, Away
<1>14. ConsumersPlace'
  <2>1. ASSUME NEW c \in Consumers, consumer[c].at = "size", Served
        PROVE  seg'[c] = NewSegment(0)
    <3>1. c \in Process /\ seg[c] = NewSegment(0) /\ seg[c].size = 0
      BY <1>0, <2>1, SegmentNames, EmptySegment DEF ConsumersPlace
    <3>2. n < seg[o].size
      BY <1>0, <1>1, <2>1 DEF Fits, o, n
    <3>3. c # o
      BY <1>1, <3>1, <3>2
    <3> QED
      BY <1>5, <3>1, <3>3
  <2> QED
    BY <1>0, <1>3, <2>1 DEF ConsumersPlace, Serves, Ready, Shows, Served
<1>15. NotYet'
  <2>1. \A r \in Process : Unborn(r)' => Unborn(r) /\ r # o
    BY <1>0, <1>1, <1>3, <1>6 DEF NotYet, Unborn, o
  <2>2. \A q \in Producers : producer'[q].obj \in {producer[q].obj, Nobody}
    BY <1>6 DEF o
  <2>3. ASSUME NEW r \in Process, Unborn(r)'
        PROVE  /\ seg'[r] = NewSegment(0) /\ name' # r
               /\ \A c \in Consumers : consumer'[c].obj # r
    BY <1>0, <1>3, <1>5, <2>1, <2>3 DEF NotYet
  <2>4. ASSUME NEW r \in Process, Unborn(r)', NEW q \in Producers
        PROVE  producer'[q].obj # r
    BY <1>0, <2>1, <2>2, <2>4, SegmentNames DEF NotYet
  <2> QED
    BY <2>3, <2>4 DEF NotYet
<1>16. Authors'
  <2>1. ASSUME NEW r \in Process, NEW q \in seg'[r].by, q # p
        PROVE  /\ producer'[q].at = "done" \/ (producer'[q].at = "copy" /\ producer'[q].obj = r)
               /\ Served' => producer'[q].len < seg'[r].size
    <3>1. q \in seg[r].by /\ q \in Producers
      BY <1>0, <1>5, <2>1, Shapes
    <3> QED
      BY <1>0, <1>3, <1>6, <1>8, <2>1, <3>1 DEF Authors, Served
  <2>2. ASSUME NEW r \in Process, p \in seg'[r].by
        PROVE  /\ producer'[p].at = "done" \/ (producer'[p].at = "copy" /\ producer'[p].obj = r)
               /\ Served' => producer'[p].len < seg'[r].size
    <3>1. r = o
      BY <1>0, <1>1, <1>5, <2>2 DEF Authors, o
    <3>2. Served => n < seg[o].size
      BY <1>0, <1>1 DEF Fits, o, n
    <3> QED
      BY <1>3, <1>5, <1>6, <3>1, <3>2 DEF Served
  <2> QED
    BY <2>1, <2>2 DEF Authors
<1>17. Characters'
  <2>1. \A x, j : Character(x, j) => Character(x, j)'
    BY <1>8 DEF Character
  <2>2. v # 0 => v = p /\ Character(p, i)'
    BY <1>6, <1>7 DEF Character
  <2> QED
    BY <1>0, <1>3, <1>5, <2>1, <2>2 DEF Characters
<1>18. SoleWriter'
  BY <1>0, <1>3, <1>8, Whereabouts DEF SoleWriter, Writes
<1>19. SoleServer'
  BY <1>0, <1>3 DEF SoleServer, Serves
<1>20. OwnTexts'
  <2>1. ASSUME ~Served, left # {}
        PROVE  OwnText(p)'
    <3>1. \A j \in 1 .. n \ left : j \in 1 .. n /\ j \notin left
      OBVIOUS
    <3> QED
      BY <1>3, <1>5, <1>6, <1>10, <1>11, <2>1, <3>1 DEF OwnText, o, n
  <2>2. ASSUME ~Served, NEW q \in Producers, q # p, producer[q].at = "copy"
        PROVE  OwnText(q)'
    <3>1. OwnText(q) /\ producer[q].obj \in Process
      BY <1>0, <2>2, Whereabouts DEF OwnTexts
    <3>2. CASE producer[q].obj = o
      <4>1. ~producer[q].alone /\ (pair = "posix_1" => seg[o].mixed)
        BY <1>9, <2>2, <3>2 DEF Writes
      <4> QED
        BY <1>3, <1>5, <1>6, <2>2, <3>1, <3>2, <4>1 DEF OwnText
    <3>3. CASE producer[q].obj # o
      BY <1>3, <1>5, <1>6, <2>2, <3>1, <3>3 DEF OwnText
    <3> QED
      BY <3>2, <3>3
  <2> QED
    BY <1>3, <1>6, <2>1, <2>2 DEF OwnTexts, Served
<1>21. Beyond'
  <2>1. ASSUME pair = "posix_1", ~seg[o].mixed, NEW j \in Page, j > seg[o].size
        PROVE  seg'[o].cell[j] = 0
    <3>1. seg[o].size = n + 1
      BY <1>10, <2>1 DEF OwnText, o, n, Served
    <3>2. j # i
      BY <1>1, <1>4, <2>1, <3>1
    <3> QED
      BY <1>0, <1>1, <1>5, <2>1, <3>2 DEF Beyond
  <2> QED
    BY <1>0, <1>3, <1>5, <2>1 DEF Beyond
<1>22. LastTexts'
  <2>1. ASSUME NEW r \in Process, r # o, seg'[r].last # Nobody
        PROVE  ~Served' /\ LastText(r)'
    <3>1. seg'[r] = seg[r] /\ ~Served /\ LastText(r) /\ seg[r].last \in Producers /\ seg[r].last # p
      BY <1>0, <1>1, <1>5, <2>1, Shapes DEF LastTexts, LastText
    <3>2. \A q \in Producers : ~(Writes(q)' /\ producer'[q].obj = r)
      BY <1>8, <3>1 DEF LastText
    <3> QED
      BY <1>3, <1>6, <3>1, <3>2 DEF LastText, Served
  <2>2. ASSUME NEW r \in Process, r = o, seg'[r].last # Nobody
        PROVE  ~Served' /\ LastText(r)'
    <3>1. seg'[o].last = p /\ left = {} /\ producer[p].alone /\ ~Served /\ producer'[p].at = "done"
      BY <1>5, <1>6, <2>2
    <3>2. \A q \in Producers : ~(Writes(q)' /\ producer'[q].obj = o)
      BY <1>8, <1>9, <3>1 DEF Writes
    <3>3. /\ \A j \in 1 .. n : seg'[o].cell[j] = p
          /\ pair = "sysv_1" => seg'[o].cell[n + 1] = 0
      BY <1>11, <3>1
    <3>4. /\ pair = "sysv_1" => n < seg[o].size
          /\ pair = "posix_1" /\ ~seg[o].mixed => seg[o].size = n + 1
      BY <1>10, <3>1 DEF OwnText, o, n
    <3> QED
      BY <1>3, <1>5, <1>6, <2>2, <3>1, <3>2, <3>3, <3>4 DEF LastText, Served
  <2> QED
    BY <2>1, <2>2 DEF LastTexts
<1>23. Quiet'
  BY <1>0, <1>3, <1>8 DEF Quiet, Shows
<1>24. Readings'
  BY <1>0, <1>3, <1>5, <1>9, Whereabouts DEF Readings, Reads, Served
<1>25. Fits'
  <2>1. Served => n < seg[o].size
    BY <1>0, <1>1 DEF Fits, o, n
  <2>2. ASSUME Served, NEW r \in Process, NEW j \in Page, seg'[r].cell[j] # 0
        PROVE  j <= seg'[r].size
    <3>1. CASE r = o /\ j = i
      BY <1>0, <1>1, <1>4, <1>5, <1>7, <2>1, <2>2, <3>1, Shapes
    <3>2. CASE ~(r = o /\ j = i)
      BY <1>0, <1>5, <2>2, <3>2 DEF Fits
    <3> QED
      BY <3>1, <3>2
  <2>3. ASSUME Served, NEW q \in Producers, producer'[q].at = "copy"
        PROVE  producer'[q].len < seg'[producer'[q].obj].size
    BY <1>0, <1>5, <1>6, <1>8, <2>1, <2>3, Whereabouts DEF Fits, Writes
  <2> QED
    BY <1>0, <1>3, <1>8, <2>2, <2>3, Whereabouts DEF Fits, Shows, Served
<1>26. Collecting'
  <2>1. ASSUME Served, NEW c \in Consumers, Ready(c), consumer[c].alone,
               seg'[consumer[c].obj].size = consumer[c].len + 1
        PROVE  Collected(c)'
    <3>1. consumer[c].obj \in Process /\ Collected(c)
      BY <1>0, <1>8, <2>1, Whereabouts DEF Collecting, Ready
    <3>2. CASE consumer[c].obj = o
      <4>1. \A j \in Page : seg'[o].cell[j] # 0 => seg'[o].cell[j] \in seg'[o].by
        BY <1>5, <1>7, <3>1, <3>2 DEF Collected
      <4>2. \A j \in 1 .. Len(consumer[c].out) : consumer[c].out[j] \in seg'[o].by
        BY <1>5, <3>1, <3>2 DEF Collected
      <4>3. ASSUME p \notin consumer[c].early, seg[o].by \subseteq {p}
            PROVE  \A j \in 1 .. n : j \notin left => seg'[o].cell[j] = p
        <5>1. \A j \in 1 .. n : j \notin producer[p].todo => seg[o].cell[j] = p
          BY <1>1, <3>1, <3>2, <4>3 DEF Collected, o, n
        <5> QED
          BY <1>1, <1>4, <1>5, <1>7, <5>1, SegmentNames
      <4>4. \A q \in Producers : seg'[o].by \subseteq {q} => q = p /\ seg[o].by \subseteq {p}
        BY <1>5
      <4>5. producer'[p].at = "copy" => left # {} /\ producer'[p].todo = left
        BY <1>6
      <4>6. producer'[p].at = "done" => left = {}
        BY <1>6
      <4> QED
        BY <1>3, <1>6, <3>2, <4>1, <4>2, <4>3, <4>4, <4>5, <4>6 DEF Collected
    <3>3. CASE consumer[c].obj # o
      <4>1. seg'[consumer[c].obj] = seg[consumer[c].obj] /\ p \notin seg[consumer[c].obj].by
        <5>1. seg'[consumer[c].obj] = seg[consumer[c].obj]
          BY <1>5, <3>1, <3>3
        <5>2. p \notin seg[consumer[c].obj].by
          BY <1>0, <1>1, <3>1, <3>3 DEF Authors, o
        <5> QED
          BY <5>1, <5>2
      <4>2. producer'[p].at = "copy" => producer'[p].obj # consumer[c].obj
        BY <1>6, <3>3
      <4> QED
        BY <1>3, <1>6, <3>1, <4>1, <4>2 DEF Collected
    <3> QED
      BY <3>2, <3>3
  <2> QED
    BY <1>3, <2>1 DEF Collecting, Ready, Served
<1>27. Heard'
  <2>1. \A r \in Process : seg[r].cell[1] # 0 => seg'[r].cell[1] # 0
    BY <1>1, <1>4, <1>5, <1>7, SegmentNames
  <2> QED
    BY <1>0, <1>3, <2>1, Whereabouts DEF Heard, Shows, Served
<1>28. Cleared'
  <2>1. ASSUME Served, NEW c \in Consumers, Ready(c), NEW q \in consumer[c].stale
        PROVE  /\ producer'[q].at = "done"
               /\ \A j \in 1 .. consumer[c].len + 1 : seg'[consumer[c].obj].cell[j] # q
    <3>1. /\ q \in Producers /\ q # p /\ q # 0 /\ producer[q].at = "done"
          /\ consumer[c].obj \in Process /\ 1 .. consumer[c].len + 1 \subseteq Page
          /\ \A j \in 1 .. consumer[c].len + 1 : seg[consumer[c].obj].cell[j] # q
      BY <1>0, <1>1, <2>1, Whereabouts, Shapes, SegmentNames DEF Cleared, Ready
    <3> QED
      BY <1>5, <1>6, <1>7, <3>1
  <2> QED
    BY <1>0, <1>3, <2>1 DEF Cleared, Ready, Served
<1>29. Ending'
  BY <1>0, <1>3, <1>5, <1>9, Whereabouts DEF Ending, Served
<1> QED
  BY <1>12, <1>13, <1>14, <1>15, <1>16, <1>17, <1>18, <1>19, <1>20, <1>21, <1>22, <1>23,
     <1>24, <1>25, <1>26, <1>27, <1>28, <1>29 DEF SegmentInv

\* A consumer ends, and the contents of a segment nobody uses may go.
LEMMA LeavesStep ==
  ASSUME SegmentInv, NEW c \in Consumers, NEW to \in ConsumerState, CMoves(c, to),
         to.at \in {"done", "failed"}, to.obj = Nobody, to.out = <<>>, ~to.quiet,
         to.stale = {}, pair' = pair, producer' = producer, name' \in {name, Nobody},
         seg' \in [Process -> Segment],
         \A o \in Process :
           \/ seg'[o] = seg[o]
           \/ /\ seg'[o] = NewSegment(0) /\ \A p \in Producers : producer[p].obj # o
              /\ \A d \in Consumers : d # c => ~(Serves(d) /\ consumer[d].obj = o)
  PROVE  SegmentInv'
<1>0. /\ SegmentTypes /\ ProducersPlace /\ ConsumersPlace /\ NotYet /\ Authors /\ Characters
      /\ SoleWriter /\ SoleServer /\ OwnTexts /\ Beyond /\ LastTexts /\ Quiet
      /\ Readings /\ Fits /\ Collecting /\ Heard /\ Cleared /\ Ending
  BY DEF SegmentInv
<1>1. /\ consumer'[c] = to /\ \A d \in Consumers : d # c => consumer'[d] = consumer[d]
      /\ consumer' \in [Consumers -> ConsumerState]
      /\ consumer'[c].at \notin {"idle", "size", "clear", "poll", "print", "remove"}
  BY <1>0, CMovesEffect
<1>2. \A o \in Process :
        \/ seg'[o] = seg[o]
        \/ /\ seg'[o] = NewSegment(0) /\ seg'[o].size = 0 /\ seg'[o].by = {}
           /\ seg'[o].last = Nobody /\ \A i \in Page : seg'[o].cell[i] = 0
  BY EmptySegment
\* What somebody else uses stays.
<1>3. /\ \A p \in Producers : producer[p].obj \in Process
           => seg'[producer[p].obj] = seg[producer[p].obj]
      /\ \A d \in Consumers : d # c /\ Serves(d) => seg'[consumer[d].obj] = seg[consumer[d].obj]
  BY Whereabouts DEF Serves
<1>4. \A d \in Consumers : Serves(d)' => d # c /\ Serves(d) /\ consumer'[d] = consumer[d]
  BY <1>1 DEF Serves
<1>5. SegmentTypes'
  BY <1>0, <1>1 DEF SegmentTypes
<1>6. ProducersPlace'
  BY <1>0 DEF ProducersPlace, Writes, Served
<1>7. ConsumersPlace'
  <2>1. ASSUME NEW d \in Consumers, consumer[d].at = "size", Served
        PROVE  seg'[d] = NewSegment(0)
    BY <1>0, <1>2, <2>1, SegmentNames DEF ConsumersPlace
  <2> QED
    BY <1>0, <1>1, <2>1 DEF ConsumersPlace, Serves, Ready, Shows, Served
<1>8. NotYet'
  <2>1. \A o \in Process : Unborn(o)' => Unborn(o)
    BY <1>1 DEF Unborn
  <2>2. \A o \in Process : seg[o] = NewSegment(0) => seg'[o] = NewSegment(0)
    BY <1>2
  <2> QED
    BY <1>0, <1>1, <2>1, <2>2, SegmentNames DEF NotYet
<1>9. Authors'
  BY <1>0, <1>2 DEF Authors, Served
<1>10. Characters'
  <2>1. \A x, j : Character(x, j) => Character(x, j)'
    BY DEF Character
  <2> QED
    BY <1>0, <1>1, <1>2, <2>1 DEF Characters
<1>11. SoleWriter'
  BY <1>0, <1>3, Whereabouts DEF SoleWriter, Writes
<1>12. SoleServer'
  BY <1>0, <1>4 DEF SoleServer
<1>13. OwnTexts'
  BY <1>0, <1>3, Whereabouts DEF OwnTexts, OwnText, Served
<1>14. Beyond'
  BY <1>0, <1>2 DEF Beyond
<1>15. LastTexts'
  BY <1>0, <1>2 DEF LastTexts, LastText, Writes, Served
<1>16. Quiet'
  BY <1>0, <1>1 DEF Quiet, Shows, Writes
<1>17. Readings'
  <2>1. ASSUME NEW d \in Consumers, consumer'[d].quiet
        PROVE  /\ consumer'[d] = consumer[d] /\ consumer[d].quiet
               /\ seg'[consumer[d].obj] = seg[consumer[d].obj]
    BY <1>1, <1>3, <2>1, Whereabouts DEF Serves
  <2> QED
    BY <1>0, <2>1, SameReader DEF Readings, Served
<1>18. Fits'
  <2>1. ASSUME NEW d \in Consumers, Shows(d)'
        PROVE  /\ consumer'[d] = consumer[d] /\ Shows(d)
               /\ seg'[consumer[d].obj] = seg[consumer[d].obj]
    BY <1>1, <1>3, <2>1 DEF Shows, Serves
  <2> QED
    BY <1>0, <1>2, <1>3, <2>1, Whereabouts DEF Fits, Served
<1>19. Collecting'
  <2>1. ASSUME NEW d \in Consumers, Ready(d)'
        PROVE  /\ consumer'[d] = consumer[d] /\ Ready(d)
               /\ seg'[consumer[d].obj] = seg[consumer[d].obj]
    BY <1>1, <1>3, <2>1 DEF Ready, Serves
  <2> QED
    BY <1>0, <2>1, SameReader DEF Collecting, Served
<1>20. Heard'
  <2>1. ASSUME NEW d \in Consumers, Shows(d)'
        PROVE  /\ consumer'[d] = consumer[d] /\ Shows(d)
               /\ seg'[consumer[d].obj] = seg[consumer[d].obj]
    BY <1>1, <1>3, <2>1 DEF Shows, Serves
  <2> QED
    BY <1>0, <2>1 DEF Heard, Served
<1>21. Cleared'
  <2>1. ASSUME NEW d \in Consumers, Ready(d)'
        PROVE  /\ consumer'[d] = consumer[d] /\ Ready(d)
               /\ seg'[consumer[d].obj] = seg[consumer[d].obj]
    BY <1>1, <1>3, <2>1 DEF Ready, Serves
  <2> QED
    BY <1>0, <2>1 DEF Cleared, Served
<1>22. Ending'
  <2>1. ASSUME NEW d \in Consumers, consumer'[d].quiet
        PROVE  /\ consumer'[d] = consumer[d] /\ consumer[d].quiet
               /\ seg'[consumer[d].obj] = seg[consumer[d].obj]
    BY <1>1, <1>3, <2>1, Whereabouts DEF Serves
  <2> QED
    BY <1>0, <2>1 DEF Ending, Served
<1> QED
  BY <1>5, <1>6, <1>7, <1>8, <1>9, <1>10, <1>11, <1>12, <1>13, <1>14, <1>15, <1>16, <1>17,
     <1>18, <1>19, <1>20, <1>21, <1>22 DEF SegmentInv

\* A consumer takes a segment, or makes one.
LEMMA TakesStep ==
  ASSUME SegmentInv, NEW c \in Consumers, NEW to \in ConsumerState, CEnters(c, to),
         consumer[c].at = "idle", to.at \in {"size", "clear"}, to.obj \in Process,
         to.obj \in {c, name}, to.out = <<>>, ~to.quiet, to.stale = {},
         Served => to.len >= 1, pair = "posix_2" => to.obj = c,
         to.at = "size" => pair # "sysv_2", to.at = "size" /\ Served => seg'[c] = NewSegment(0),
         to.at = "clear" => pair = "sysv_2",
         pair' = pair, producer' = producer, name' \in {name, to.obj},
         seg' \in [Process -> Segment],
         NEW m \in Nat,
         \A o \in Process :
           seg'[o] = seg[o] \/ (o = c /\ o = to.obj /\ seg'[o] = NewSegment(m))
  PROVE  SegmentInv'
<1>0. /\ SegmentTypes /\ ProducersPlace /\ ConsumersPlace /\ NotYet /\ Authors /\ Characters
      /\ SoleWriter /\ SoleServer /\ OwnTexts /\ Beyond /\ LastTexts /\ Quiet
      /\ Readings /\ Fits /\ Collecting /\ Heard /\ Cleared /\ Ending
  BY DEF SegmentInv
<1>1. /\ consumer'[c].at = to.at /\ consumer'[c].len = to.len /\ consumer'[c].obj = to.obj
      /\ consumer'[c].out = to.out /\ consumer'[c].quiet = to.quiet /\ consumer'[c].stale = to.stale
      /\ consumer'[c].alone =>
           \A d \in Consumers : d # c => ~(Serves(d) /\ consumer[d].obj = to.obj)
      /\ consumer' \in [Consumers -> ConsumerState]
  BY <1>0, CEntersEffect
<1>2. \A d \in Consumers : d # c =>
        /\ consumer'[d].at = consumer[d].at /\ consumer'[d].len = consumer[d].len
        /\ consumer'[d].obj = consumer[d].obj /\ consumer'[d].out = consumer[d].out
        /\ consumer'[d].quiet = consumer[d].quiet
        /\ consumer'[d].early = consumer[d].early /\ consumer'[d].stale = consumer[d].stale
        /\ consumer'[d].alone =>
             consumer[d].alone /\ ~(Serves(d) /\ consumer[d].obj = to.obj)
  BY <1>0, CEntersEffect
\* Nobody knows of the segment of c.
<1>3. /\ c \in Process /\ seg[c] = NewSegment(0) /\ name # c
      /\ \A p \in Producers : producer[p].obj # c
      /\ \A d \in Consumers : consumer[d].obj # c
  <2>1. c \in Process /\ Unborn(c)
    BY SegmentNames DEF Unborn
  <2> QED
    BY <1>0, <2>1 DEF NotYet
<1>4. \A o \in Process :
        \/ seg'[o] = seg[o]
        \/ /\ o = c /\ seg'[o].by = {} /\ seg'[o].last = Nobody
           /\ \A i \in Page : seg'[o].cell[i] = 0
  <2>1. /\ NewSegment(m).by = {} /\ NewSegment(m).last = Nobody
        /\ \A i \in Page : NewSegment(m).cell[i] = 0
    BY NewSegmentShape
  <2> QED
    BY <2>1
<1>5. /\ \A p \in Producers : producer[p].obj \in Process
           => seg'[producer[p].obj] = seg[producer[p].obj]
      /\ \A d \in Consumers : consumer[d].obj \in Process
           => seg'[consumer[d].obj] = seg[consumer[d].obj]
  BY <1>3, <1>4
<1>6. SegmentTypes'
  BY <1>0, <1>1, SegmentNames DEF SegmentTypes
<1>7. ProducersPlace'
  BY <1>0 DEF ProducersPlace, Writes, Served
<1>8. ConsumersPlace'
  <2>1. ASSUME NEW d \in Consumers, d # c, consumer[d].at = "size", Served
        PROVE  seg'[d] = NewSegment(0)
    BY <1>0, <1>4, <2>1, SegmentNames DEF ConsumersPlace
  <2>2. /\ Serves(c)' /\ consumer'[c].obj \in Process
        /\ Served' => consumer'[c].len >= 1
        /\ pair' = "posix_2" => consumer'[c].obj = c
        /\ consumer'[c].at = "size" => pair' # "sysv_2"
        /\ consumer'[c].at = "size" /\ Served' => seg'[c] = NewSegment(0)
        /\ consumer'[c].at = "clear" => pair' = "sysv_2"
        /\ consumer'[c].at # "poll" /\ consumer'[c].out = <<>> /\ consumer'[c].stale = {}
    BY <1>1 DEF Serves, Served
  <2> QED
    BY <1>0, <1>2, <2>1, <2>2 DEF ConsumersPlace, Serves, Ready, Shows, Served
<1>9. NotYet'
  <2>1. \A o \in Process : Unborn(o)' => Unborn(o) /\ o # to.obj /\ o # c
    BY <1>0, <1>1, <1>2, SegmentNames DEF Unborn, NotYet
  <2> QED
    BY <1>0, <1>1, <1>2, <1>4, <2>1 DEF NotYet
<1>10. Authors'
  BY <1>0, <1>4 DEF Authors, Served
<1>11. Characters'
  <2>1. \A x, j : Character(x, j) => Character(x, j)'
    BY DEF Character
  <2> QED
    BY <1>0, <1>1, <1>2, <1>4, <2>1 DEF Characters
<1>12. SoleWriter'
  BY <1>0, <1>5, Whereabouts DEF SoleWriter, Writes
<1>13. SoleServer'
  BY <1>0, <1>1, <1>2 DEF SoleServer, Serves
<1>14. OwnTexts'
  BY <1>0, <1>5, Whereabouts DEF OwnTexts, OwnText, Served
<1>15. Beyond'
  BY <1>0, <1>4 DEF Beyond
<1>16. LastTexts'
  BY <1>0, <1>4 DEF LastTexts, LastText, Writes, Served
<1>17. Quiet'
  BY <1>0, <1>1, <1>2 DEF Quiet, Shows, Writes
<1>18. Readings'
  BY <1>0, <1>1, <1>2, <1>5, Whereabouts DEF Readings, Reads, Served
<1>19. Fits'
  BY <1>0, <1>1, <1>2, <1>4, <1>5, Whereabouts DEF Fits, Shows, Served
<1>20. Collecting'
  BY <1>0, <1>1, <1>2, <1>5, Whereabouts DEF Collecting, Collected, Ready, Served
<1>21. Heard'
  BY <1>0, <1>1, <1>2, <1>5, Whereabouts DEF Heard, Shows, Served
<1>22. Cleared'
  BY <1>0, <1>1, <1>2, <1>5, Whereabouts DEF Cleared, Ready, Served
<1>23. Ending'
  BY <1>0, <1>1, <1>2, <1>5, Whereabouts DEF Ending, Served
<1> QED
  BY <1>6, <1>7, <1>8, <1>9, <1>10, <1>11, <1>12, <1>13, <1>14, <1>15, <1>16, <1>17, <1>18,
     <1>19, <1>20, <1>21, <1>22, <1>23 DEF SegmentInv

\* What it is to begin to print, pointwise.
LEMMA PrintsEffect ==
  ASSUME SegmentTypes, NEW c \in Consumers, CMoves(c, Prints(c))
  PROVE  /\ consumer'[c].at = "print" /\ consumer'[c].len = consumer[c].len
         /\ consumer'[c].obj = consumer[c].obj /\ consumer'[c].out = consumer[c].out
         /\ consumer'[c].alone = consumer[c].alone
         /\ consumer'[c].early = consumer[c].early /\ consumer'[c].stale = consumer[c].stale
         /\ consumer'[c].quiet =>
              \A p \in Producers : ~(Writes(p) /\ producer[p].obj = consumer[c].obj)
         /\ \A d \in Consumers : d # c => consumer'[d] = consumer[d]
         /\ consumer' \in [Consumers -> ConsumerState]
<1> DEFINE none == WritingOn(consumer[c].obj) = {}
           to == [consumer[c] EXCEPT !.at = "print", !.quiet = none]
<1>1. none => \A p \in Producers : ~(Writes(p) /\ producer[p].obj = consumer[c].obj)
  BY DEF WritingOn, Writes
<1>2. consumer[c] \in ConsumerState
  BY DEF SegmentTypes
<1>3. CMoves(c, to)
  BY DEF Prints
<1>4. none \in BOOLEAN
  OBVIOUS
<1> HIDE DEF none
<1>5. /\ to \in ConsumerState /\ to.at = "print" /\ to.len = consumer[c].len
      /\ to.obj = consumer[c].obj /\ to.out = consumer[c].out /\ to.alone = consumer[c].alone
      /\ to.early = consumer[c].early /\ to.stale = consumer[c].stale /\ to.quiet = none
  BY <1>2, <1>4 DEF ConsumerState
<1> HIDE DEF to
<1>6. /\ consumer'[c] = to /\ \A d \in Consumers : d # c => consumer'[d] = consumer[d]
      /\ consumer' \in [Consumers -> ConsumerState]
  BY <1>3, <1>5, CMovesEffect
<1> QED
  BY <1>1, <1>5, <1>6

\* A reader maps what it has found and begins to print.
LEMMA MapStep ==
  ASSUME SegmentInv, NEW c \in Consumers, ~Served, consumer[c].at = "size", CMoves(c, Prints(c)),
         UNCHANGED <<pair, name, seg, producer>>
  PROVE  SegmentInv'
<1>0. /\ SegmentTypes /\ ProducersPlace /\ ConsumersPlace /\ NotYet /\ Authors /\ Characters
      /\ SoleWriter /\ SoleServer /\ OwnTexts /\ Beyond /\ LastTexts /\ Quiet
      /\ Readings /\ Fits /\ Collecting /\ Heard /\ Cleared /\ Ending
  BY DEF SegmentInv
<1>1. /\ consumer'[c].at = "print" /\ consumer'[c].obj = consumer[c].obj
      /\ consumer'[c].out = consumer[c].out /\ consumer'[c].alone = consumer[c].alone
      /\ consumer'[c].stale = consumer[c].stale
      /\ consumer'[c].quiet =>
           \A p \in Producers : ~(Writes(p) /\ producer[p].obj = consumer[c].obj)
      /\ \A d \in Consumers : d # c => consumer'[d] = consumer[d]
      /\ consumer' \in [Consumers -> ConsumerState]
  BY <1>0, PrintsEffect
<1>2. consumer[c].out = <<>> /\ consumer[c].stale = {} /\ consumer[c].obj \in Process
  BY <1>0, Whereabouts DEF ConsumersPlace, Shows
<1>3. pair' = pair /\ name' = name /\ seg' = seg /\ producer' = producer
  OBVIOUS
<1>4. SegmentTypes'
  BY <1>0, <1>1, <1>3 DEF SegmentTypes
<1>5. ProducersPlace'
  BY <1>0, <1>3 DEF ProducersPlace, Writes, Served
<1>6. ConsumersPlace'
  BY <1>0, <1>1, <1>2, <1>3 DEF ConsumersPlace, Serves, Ready, Shows, Served
<1>7. NotYet'
  BY <1>0, <1>1, <1>3 DEF NotYet, Unborn
<1>8. Authors'
  BY <1>0, <1>3 DEF Authors, Served
<1>9. Characters'
  BY <1>0, <1>1, <1>3 DEF Characters, Character
<1>10. SoleWriter'
  BY <1>0, <1>3 DEF SoleWriter, Writes
<1>11. SoleServer'
  BY <1>0, <1>1 DEF SoleServer, Serves
<1>12. OwnTexts'
  BY <1>0, <1>3 DEF OwnTexts, OwnText, Served
<1>13. Beyond'
  BY <1>0, <1>3 DEF Beyond
<1>14. LastTexts'
  BY <1>0, <1>3 DEF LastTexts, LastText, Writes, Served
<1>15. Quiet'
  BY <1>0, <1>1, <1>3 DEF Quiet, Shows, Writes
<1>16. Readings'
  <2>1. Reads(c)'
    BY <1>1, <1>2 DEF Reads
  <2> QED
    BY <1>0, <1>1, <1>3, <2>1, SameReader DEF Readings, Served
<1>17. Fits'
  BY <1>3 DEF Fits, Served
<1>18. Collecting'
  BY <1>3 DEF Collecting, Served
<1>19. Heard'
  BY <1>3 DEF Heard, Served
<1>20. Cleared'
  BY <1>3 DEF Cleared, Served
<1>21. Ending'
  BY <1>3 DEF Ending, Served
<1> QED
  BY <1>4, <1>5, <1>6, <1>7, <1>8, <1>9, <1>10, <1>11, <1>12, <1>13, <1>14, <1>15, <1>16,
     <1>17, <1>18, <1>19, <1>20, <1>21 DEF SegmentInv

\* A server sizes the object it has made.
LEMMA SizeStep ==
  ASSUME SegmentInv, NEW c \in Consumers, ServerTruncate(c)
  PROVE  SegmentInv'
<1>0. /\ SegmentTypes /\ ProducersPlace /\ ConsumersPlace /\ NotYet /\ Authors /\ Characters
      /\ SoleWriter /\ SoleServer /\ OwnTexts /\ Beyond /\ LastTexts /\ Quiet
      /\ Readings /\ Fits /\ Collecting /\ Heard /\ Cleared /\ Ending
  BY DEF SegmentInv
<1> DEFINE to == [consumer[c] EXCEPT !.at = "poll"]
           size == consumer[c].len + 1
<1>1. /\ Served /\ consumer[c].at = "size" /\ c \in Process /\ consumer[c] \in ConsumerState
      /\ size \in Nat /\ consumer[c].len \in Nat /\ seg \in [Process -> Segment]
  BY <1>0, Shapes, SegmentNames DEF ServerTruncate, SegmentTypes
<1>2. pair = "posix_2" /\ consumer[c].obj = c /\ seg[c] = NewSegment(0)
  BY <1>0, <1>1 DEF ConsumersPlace, Serves, Served
<1>3. consumer[c].out = <<>> /\ consumer[c].stale = {} /\ ~consumer[c].quiet /\ consumer[c].len >= 1
  BY <1>0, <1>1 DEF ConsumersPlace, Serves, Ready, Shows, Quiet
<1>4. seg[c].size = 0 /\ seg[c].by = {} /\ \A i \in Page : seg[c].cell[i] = 0
  BY <1>2, EmptySegment
<1>5. /\ seg' \in [Process -> Segment] /\ \A o \in Process : o # c => seg'[o] = seg[o]
      /\ seg'[c].size = size /\ seg'[c].by = seg[c].by /\ seg'[c].last = seg[c].last
      /\ seg'[c].mixed = seg[c].mixed /\ seg'[c].cell = seg[c].cell
  <2> HIDE DEF size
  <2>1. seg' = [seg EXCEPT ![c].size = size]
    BY DEF ServerTruncate, size
  <2> QED
    BY <1>1, <2>1 DEF Segment
<1>6. /\ consumer'[c] = to /\ \A d \in Consumers : d # c => consumer'[d] = consumer[d]
      /\ consumer' \in [Consumers -> ConsumerState]
  <2>1. to \in ConsumerState /\ CMoves(c, to)
    BY <1>1 DEF ConsumerState, ServerTruncate
  <2> HIDE DEF to
  <2> QED
    BY <1>0, <2>1, CMovesEffect
<1>7. /\ consumer'[c].at = "poll" /\ consumer'[c].len = consumer[c].len
      /\ consumer'[c].obj = c /\ consumer'[c].out = <<>> /\ consumer'[c].stale = {}
      /\ consumer'[c].alone = consumer[c].alone /\ ~consumer'[c].quiet
  BY <1>1, <1>2, <1>3, <1>6 DEF ConsumerState
<1> HIDE DEF to, size
<1>8. pair' = pair /\ name' = name /\ producer' = producer
  BY DEF ServerTruncate
\* Nobody else is at work on the object.
<1>9. /\ \A d \in Consumers : d # c => consumer[d].obj # c
      /\ \A p \in Producers : producer[p].at = "copy" => producer[p].obj # c
  <2>1. ASSUME NEW d \in Consumers, d # c
        PROVE  consumer[d].obj # c
    BY <1>0, <1>1, <1>2, <2>1, SegmentNames DEF ConsumersPlace
  <2>2. ASSUME NEW p \in Producers, producer[p].at = "copy"
        PROVE  producer[p].obj # c
    BY <1>0, <1>1, <1>4, <2>2, Shapes, SegmentNames DEF Fits
  <2> QED
    BY <2>1, <2>2
<1>10. \A d \in Consumers : d # c /\ consumer[d].obj \in Process
         => consumer'[d] = consumer[d] /\ seg'[consumer[d].obj] = seg[consumer[d].obj]
  BY <1>5, <1>6, <1>9
<1>11. SegmentTypes'
  BY <1>0, <1>5, <1>6, <1>8 DEF SegmentTypes
<1>12. ProducersPlace'
  BY <1>0, <1>8 DEF ProducersPlace, Writes, Served
<1>13. ConsumersPlace'
  <2>1. ASSUME NEW d \in Consumers, d # c, consumer[d].at = "size", Served
        PROVE  seg'[d] = NewSegment(0)
    BY <1>0, <1>5, <2>1, SegmentNames DEF ConsumersPlace
  <2>2. /\ Serves(c)' /\ Ready(c)' /\ Served' /\ consumer'[c].len >= 1
        /\ consumer'[c].obj \in Process
    BY <1>1, <1>3, <1>7, <1>8 DEF Serves, Ready, Served
  <2> QED
    BY <1>0, <1>6, <1>7, <1>8, <2>1, <2>2 DEF ConsumersPlace, Serves, Ready, Shows, Served
<1>14. NotYet'
  <2>1. \A o \in Process : Unborn(o)' => Unborn(o) /\ o # c
    BY <1>0, <1>1, <1>2, <1>6, <1>7, <1>8 DEF Unborn, NotYet
  <2> QED
    BY <1>0, <1>5, <1>6, <1>7, <1>8, <2>1 DEF NotYet
<1>15. Authors'
  BY <1>0, <1>4, <1>5, <1>8 DEF Authors, Served
<1>16. Characters'
  <2>1. \A x, j : Character(x, j) => Character(x, j)'
    BY <1>8 DEF Character
  <2> QED
    BY <1>0, <1>5, <1>6, <1>7, <2>1 DEF Characters
<1>17. SoleWriter'
  <2>1. pair' # "posix_1"
    BY <1>2, <1>8
  <2> QED
    BY <1>0, <1>8, <2>1 DEF SoleWriter, Writes
<1>18. SoleServer'
  BY <1>0, <1>1, <1>2, <1>6, <1>7, <1>9 DEF SoleServer, Serves
<1>19. OwnTexts'
  BY <1>1, <1>8 DEF OwnTexts, Served
<1>20. Beyond'
  BY <1>2, <1>8 DEF Beyond
<1>21. LastTexts'
  <2>1. \A o \in Process : seg'[o].last = Nobody
    BY <1>0, <1>1, <1>5 DEF LastTexts
  <2> QED
    BY <2>1 DEF LastTexts
<1>22. Quiet'
  BY <1>0, <1>6, <1>7, <1>8 DEF Quiet, Shows, Writes
<1>23. Readings'
  BY <1>0, <1>7, <1>8, <1>10, <1>6, Whereabouts DEF Readings, Reads, Served
<1>24. Fits'
  <2>1. ASSUME NEW o \in Process, NEW i \in Page, seg'[o].cell[i] # 0
        PROVE  i <= seg'[o].size
    BY <1>0, <1>1, <1>4, <1>5, <2>1 DEF Fits
  <2>2. ASSUME NEW p \in Producers, producer[p].at = "copy"
        PROVE  producer[p].len < seg'[producer[p].obj].size
    BY <1>0, <1>1, <1>5, <1>9, <2>2, Whereabouts DEF Fits
  <2>3. ASSUME NEW d \in Consumers, Shows(d)'
        PROVE  Len(consumer'[d].out) <= seg'[consumer'[d].obj].size
    <3>1. d # c
      BY <1>7, <2>3 DEF Shows
    <3> QED
      BY <1>0, <1>1, <1>6, <1>10, <2>3, <3>1, Whereabouts DEF Fits, Shows
  <2> QED
    BY <1>8, <2>1, <2>2, <2>3 DEF Fits
<1>25. Collecting'
  <2>1. Collected(c)'
    BY <1>4, <1>5, <1>7, <1>8, <1>9, SegmentNames DEF Collected
  <2>2. ASSUME NEW d \in Consumers, d # c, Ready(d)', consumer'[d].alone,
               seg'[consumer'[d].obj].size = consumer'[d].len + 1
        PROVE  Collected(d)'
    <3>1. Collected(d) /\ consumer'[d] = consumer[d] /\ seg'[consumer[d].obj] = seg[consumer[d].obj]
      BY <1>0, <1>1, <1>6, <1>10, <2>2, Whereabouts DEF Collecting, Ready
    <3> QED
      BY <1>8, <3>1 DEF Collected
  <2> QED
    BY <2>1, <2>2 DEF Collecting
<1>26. Heard'
  BY <1>0, <1>7, <1>8, <1>10, <1>6, Whereabouts DEF Heard, Shows, Served
<1>27. Cleared'
  BY <1>0, <1>7, <1>8, <1>10, <1>6, Whereabouts DEF Cleared, Ready, Served
<1>28. Ending'
  BY <1>0, <1>7, <1>8, <1>10, <1>6, Whereabouts DEF Ending, Served
<1> QED
  BY <1>11, <1>12, <1>13, <1>14, <1>15, <1>16, <1>17, <1>18, <1>19, <1>20, <1>21, <1>22,
     <1>23, <1>24, <1>25, <1>26, <1>27, <1>28 DEF SegmentInv

\* A System V server clears the segment.
LEMMA ClearStep ==
  ASSUME SegmentInv, NEW c \in Consumers, pair = "sysv_2", ServerClear(c)
  PROVE  SegmentInv'
<1>0. /\ SegmentTypes /\ ProducersPlace /\ ConsumersPlace /\ NotYet /\ Authors /\ Characters
      /\ SoleWriter /\ SoleServer /\ OwnTexts /\ Beyond /\ LastTexts /\ Quiet
      /\ Readings /\ Fits /\ Collecting /\ Heard /\ Cleared /\ Ending
  BY DEF SegmentInv
<1> DEFINE o == consumer[c].obj
           n == consumer[c].len
<1>1. /\ consumer[c].at = "clear" /\ o \in Process /\ consumer[c] \in ConsumerState
      /\ n \in Nat /\ n >= 1 /\ 1 .. n + 1 \subseteq Page /\ seg \in [Process -> Segment]
  <2>1. consumer[c].at = "clear" /\ n \in 0 .. MaxLen /\ consumer[c] \in ConsumerState
    BY <1>0, Shapes DEF ServerClear
  <2>2. n >= 1 /\ o \in Process
    BY <1>0, <2>1 DEF ConsumersPlace, Serves, Served
  <2> QED
    BY <1>0, <2>1, <2>2, SegmentNames DEF SegmentTypes
<1>2. consumer[c].out = <<>> /\ ~consumer[c].quiet
  BY <1>0, <1>1 DEF ConsumersPlace, Shows, Quiet
<1>3. pair' = pair /\ name' = name /\ producer' = producer /\ Served
  BY DEF ServerClear, Served
<1>4. /\ seg' \in [Process -> Segment] /\ \A r \in Process : r # o => seg'[r] = seg[r]
      /\ seg'[o].size = seg[o].size /\ seg'[o].by = {} /\ seg'[o].last = seg[o].last
      /\ seg'[o].mixed = seg[o].mixed
      /\ \A i \in Page : seg'[o].cell[i] = IF i <= n + 1 THEN 0 ELSE seg[o].cell[i]
  <2> DEFINE cells == [i \in Page |-> IF i <= n + 1 THEN 0 ELSE seg[o].cell[i]]
             new == [seg[o] EXCEPT !.cell = cells, !.by = {}]
  <2>1. seg' = [seg EXCEPT ![o] = new]
    BY DEF ServerClear
  <2>2. cells \in [Page -> Nat] /\ seg[o] \in Segment
    BY <1>0, <1>1, Shapes
  <2>3. \A i \in Page : cells[i] = IF i <= n + 1 THEN 0 ELSE seg[o].cell[i]
    OBVIOUS
  <2> HIDE DEF cells
  <2>4. /\ new \in Segment /\ new.size = seg[o].size /\ new.cell = cells /\ new.by = {}
        /\ new.last = seg[o].last /\ new.mixed = seg[o].mixed
    BY <2>2 DEF Segment
  <2> HIDE DEF new, o
  <2>5. /\ seg'[o] = new /\ seg' \in [Process -> Segment]
        /\ \A r \in Process : r # o => seg'[r] = seg[r]
    BY <1>1, <2>1, <2>4
  <2> QED
    BY <2>3, <2>4, <2>5
<1> DEFINE writers == WritingOn(o)
<1>5. /\ consumer'[c].at = "poll" /\ consumer'[c].len = n /\ consumer'[c].obj = o
      /\ consumer'[c].out = <<>> /\ ~consumer'[c].quiet /\ consumer'[c].alone = consumer[c].alone
      /\ consumer'[c].early = seg[o].by \cup writers /\ consumer'[c].stale = seg[o].by \ writers
      /\ \A d \in Consumers : d # c => consumer'[d] = consumer[d]
      /\ consumer' \in [Consumers -> ConsumerState]
  <2> DEFINE to == [consumer[c] EXCEPT !.at = "poll", !.early = seg[o].by \cup writers,
                                       !.stale = seg[o].by \ writers]
  <2>1. CMoves(c, to)
    BY DEF ServerClear
  <2>2. writers \subseteq Producers /\ seg[o].by \subseteq Producers
    BY <1>0, <1>1, Shapes DEF WritingOn
  <2> HIDE DEF writers, o, n
  <2>3. /\ to \in ConsumerState /\ to.at = "poll" /\ to.len = consumer[c].len
        /\ to.obj = consumer[c].obj /\ to.out = consumer[c].out /\ to.quiet = consumer[c].quiet
        /\ to.alone = consumer[c].alone /\ to.early = seg[o].by \cup writers
        /\ to.stale = seg[o].by \ writers
    BY <1>1, <2>2 DEF ConsumerState
  <2> HIDE DEF to
  <2>4. /\ consumer'[c] = to /\ \A d \in Consumers : d # c => consumer'[d] = consumer[d]
        /\ consumer' \in [Consumers -> ConsumerState]
    BY <1>0, <2>1, <2>3, CMovesEffect
  <2> QED
    BY <1>2, <2>3, <2>4 DEF o, n
<1>6. \A p \in Producers : p \in writers <=> Writes(p) /\ producer[p].obj = o
  BY DEF WritingOn, Writes
<1> HIDE DEF o, n, writers
\* No other server of the segment is alone.
<1>7. \A d \in Consumers : d # c /\ Serves(d) /\ consumer[d].obj = o => ~consumer[d].alone
  BY <1>0, <1>1 DEF SoleServer, Serves, o
<1>8. \A r \in Process : /\ seg'[r].size = seg[r].size /\ seg'[r].last = seg[r].last
                         /\ seg'[r].by \subseteq seg[r].by
                         /\ \A i \in Page : seg'[r].cell[i] # 0 => seg'[r].cell[i] = seg[r].cell[i]
  BY <1>4
<1>9. SegmentTypes'
  BY <1>0, <1>3, <1>4, <1>5 DEF SegmentTypes
<1>10. ProducersPlace'
  BY <1>0, <1>3 DEF ProducersPlace, Writes, Served
<1>11. ConsumersPlace'
  <2>1. /\ Serves(c)' /\ Ready(c)' /\ Served' /\ consumer'[c].len >= 1
        /\ consumer'[c].obj \in Process /\ pair' = "sysv_2"
    BY <1>1, <1>3, <1>5 DEF Serves, Ready, Served
  <2> QED
    BY <1>0, <1>3, <1>5, <2>1 DEF ConsumersPlace, Serves, Ready, Shows, Served
<1>12. NotYet'
  <2>1. \A r \in Process : Unborn(r)' => Unborn(r) /\ r # o
    BY <1>0, <1>1, <1>3, <1>5 DEF Unborn, NotYet, o
  <2> QED
    BY <1>0, <1>3, <1>4, <1>5, <2>1 DEF NotYet
<1>13. Authors'
  BY <1>0, <1>3, <1>8 DEF Authors, Served
<1>14. Characters'
  <2>1. \A x, j : Character(x, j) => Character(x, j)'
    BY <1>3 DEF Character
  <2> QED
    BY <1>0, <1>5, <1>8, <2>1 DEF Characters
<1>15. SoleWriter'
  <2>1. pair' # "posix_1"
    BY <1>3
  <2> QED
    BY <1>0, <1>3, <2>1 DEF SoleWriter, Writes
<1>16. SoleServer'
  <2>1. \A d \in Consumers : /\ Serves(d)' <=> Serves(d)
                             /\ consumer'[d].obj = consumer[d].obj
                             /\ consumer'[d].alone = consumer[d].alone
    BY <1>1, <1>5 DEF Serves, o
  <2> QED
    BY <1>0, <2>1 DEF SoleServer
<1>17. OwnTexts'
  BY <1>3 DEF OwnTexts, Served
<1>18. Beyond'
  BY <1>3 DEF Beyond
<1>19. LastTexts'
  <2>1. \A r \in Process : seg'[r].last = Nobody
    BY <1>0, <1>3, <1>8 DEF LastTexts
  <2> QED
    BY <2>1 DEF LastTexts
<1>20. Quiet'
  BY <1>0, <1>3, <1>5 DEF Quiet, Shows, Writes
<1>21. Readings'
  <2>1. ASSUME NEW d \in Consumers, consumer'[d].quiet, consumer'[d].alone
        PROVE  Reads(d)'
    <3>1. /\ d # c /\ consumer'[d] = consumer[d] /\ Reads(d) /\ Serves(d)
          /\ consumer[d].obj \in Process
      BY <1>0, <1>5, <2>1, Whereabouts DEF Readings, Serves
    <3>2. seg'[consumer[d].obj] = seg[consumer[d].obj]
      BY <1>4, <1>7, <2>1, <3>1
    <3> QED
      BY <1>3, <3>1, <3>2 DEF Reads
  <2> QED
    BY <1>3, <2>1 DEF Readings, Served
<1>22. Fits'
  BY <1>0, <1>3, <1>5, <1>8, Whereabouts DEF Fits, Shows, Served
<1>23. Collecting'
  <2>1. ASSUME seg'[o].size = n + 1
        PROVE  Collected(c)'
    <3>1. \A i \in Page : seg'[o].cell[i] = 0
      BY <1>0, <1>1, <1>3, <1>4, <2>1 DEF Fits
    <3>2. ASSUME NEW p \in Producers \ consumer'[c].early
          PROVE  ~(producer'[p].at = "copy" /\ producer'[p].obj = o)
      BY <1>3, <1>5, <1>6, <3>2 DEF Writes
    <3> QED
      BY <1>4, <1>5, <3>1, <3>2 DEF Collected
  <2>2. ASSUME NEW d \in Consumers, d # c, Ready(d)', consumer'[d].alone,
               seg'[consumer'[d].obj].size = consumer'[d].len + 1
        PROVE  Collected(d)'
    <3>1. /\ consumer'[d] = consumer[d] /\ Ready(d) /\ Serves(d) /\ consumer[d].obj \in Process
      BY <1>5, <2>2, Whereabouts DEF Ready, Serves
    <3>2. seg'[consumer[d].obj] = seg[consumer[d].obj]
      BY <1>4, <1>7, <2>2, <3>1
    <3>3. Collected(d)
      BY <1>0, <1>3, <2>2, <3>1, <3>2 DEF Collecting
    <3> QED
      BY <1>3, <3>1, <3>2, <3>3 DEF Collected
  <2> QED
    BY <1>5, <2>1, <2>2 DEF Collecting
<1>24. Heard'
  <2>1. ASSUME NEW d \in Consumers, Shows(d)', consumer'[d].alone
        PROVE  /\ d # c /\ consumer'[d] = consumer[d] /\ Shows(d)
               /\ seg'[consumer[d].obj] = seg[consumer[d].obj]
    BY <1>4, <1>5, <1>7, <2>1, Whereabouts DEF Shows, Serves
  <2> QED
    BY <1>0, <1>3, <2>1 DEF Heard, Served
<1>25. Cleared'
  <2>1. ASSUME NEW q \in consumer'[c].stale
        PROVE  /\ producer'[q].at = "done"
               /\ \A i \in 1 .. consumer'[c].len + 1 : seg'[consumer'[c].obj].cell[i] # q
    <3>1. q \in Producers /\ q # 0 /\ producer[q].at = "done"
      <4>1. q \in seg[o].by /\ q \notin writers
        BY <1>5, <2>1
      <4>2. q \in Producers /\ q # 0
        BY <1>0, <1>1, <4>1, Shapes, SegmentNames
      <4> QED
        BY <1>0, <1>1, <1>6, <4>1, <4>2 DEF Authors, Writes
    <3>2. \A i \in 1 .. n + 1 : seg'[o].cell[i] = 0
      BY <1>1, <1>4
    <3> QED
      BY <1>3, <1>5, <3>1, <3>2
  <2>2. ASSUME NEW d \in Consumers, d # c, Ready(d)', NEW q \in consumer'[d].stale
        PROVE  /\ producer'[q].at = "done"
               /\ \A i \in 1 .. consumer'[d].len + 1 : seg'[consumer'[d].obj].cell[i] # q
               /\ \A i \in 1 .. Len(consumer'[d].out) :
                    i <= consumer'[d].len + 1 => consumer'[d].out[i] # q
    <3>1. consumer'[d] = consumer[d] /\ Ready(d) /\ consumer[d].obj \in Process
      BY <1>5, <2>2, Whereabouts DEF Ready
    <3>2. q \in Producers /\ q # 0 /\ 1 .. consumer[d].len + 1 \subseteq Page
      BY <1>0, <2>2, <3>1, Shapes, SegmentNames
    <3> QED
      BY <1>0, <1>3, <1>8, <2>2, <3>1, <3>2 DEF Cleared
  <2> QED
    BY <1>5, <2>1, <2>2 DEF Cleared
<1>26. Ending'
  <2>1. ASSUME NEW d \in Consumers, consumer'[d].quiet
        PROVE  /\ consumer'[d] = consumer[d] /\ consumer[d].obj \in Process /\ consumer[d].quiet
               /\ consumer[d].len + 1 \in Page
    BY <1>0, <1>5, <2>1, Whereabouts, Shapes, SegmentNames
  <2> QED
    BY <1>0, <1>3, <1>8, <2>1 DEF Ending
<1> QED
  BY <1>9, <1>10, <1>11, <1>12, <1>13, <1>14, <1>15, <1>16, <1>17, <1>18, <1>19, <1>20,
     <1>21, <1>22, <1>23, <1>24, <1>25, <1>26 DEF SegmentInv

\* A server has seen the first byte, ends the text and begins to print.
LEMMA PollStep ==
  ASSUME SegmentInv, NEW c \in Consumers, Poll(c)
  PROVE  SegmentInv'
<1>0. /\ SegmentTypes /\ ProducersPlace /\ ConsumersPlace /\ NotYet /\ Authors /\ Characters
      /\ SoleWriter /\ SoleServer /\ OwnTexts /\ Beyond /\ LastTexts /\ Quiet
      /\ Readings /\ Fits /\ Collecting /\ Heard /\ Cleared /\ Ending
  BY DEF SegmentInv
<1> DEFINE o == consumer[c].obj
           n == consumer[c].len
<1>1. /\ consumer[c].at = "poll" /\ Served /\ o \in Process /\ consumer[c] \in ConsumerState
      /\ n \in Nat /\ n >= 1 /\ n + 1 \in Page /\ seg \in [Process -> Segment]
      /\ seg[o].cell[1] # 0 /\ (pair = "posix_2" => o = c)
  <2>1. /\ consumer[c].at = "poll" /\ n \in 0 .. MaxLen /\ consumer[c] \in ConsumerState
        /\ seg[o].cell[1] # 0
    BY <1>0, Shapes DEF Poll, FirstByte
  <2>2. Served /\ n >= 1 /\ o \in Process /\ (pair = "posix_2" => o = c)
    BY <1>0, <2>1 DEF ConsumersPlace, Serves
  <2> QED
    BY <1>0, <2>1, <2>2, SegmentNames DEF SegmentTypes
<1>2. consumer[c].out = <<>>
  BY <1>0, <1>1 DEF ConsumersPlace, Shows
<1>3. pair' = pair /\ name' = name /\ producer' = producer
  BY DEF Poll
<1>4. /\ seg' \in [Process -> Segment] /\ \A r \in Process : r # o => seg'[r] = seg[r]
      /\ seg'[o].size = seg[o].size /\ seg'[o].by = seg[o].by /\ seg'[o].last = seg[o].last
      /\ seg'[o].cell[n + 1] = 0
      /\ \A i \in Page : i # n + 1 => seg'[o].cell[i] = seg[o].cell[i]
  <2> DEFINE m == n + 1
             new == [seg[o] EXCEPT !.cell[m] = 0]
  <2>1. seg' = [seg EXCEPT ![o] = new]
    BY DEF Poll
  <2>2. seg[o] \in Segment /\ m \in Page
    BY <1>0, <1>1, Shapes
  <2> HIDE DEF m
  <2>3. /\ new \in Segment /\ new.size = seg[o].size /\ new.by = seg[o].by
        /\ new.last = seg[o].last /\ new.cell[m] = 0
        /\ \A i \in Page : i # m => new.cell[i] = seg[o].cell[i]
    BY <2>2 DEF Segment
  <2> HIDE DEF new, o
  <2>4. /\ seg'[o] = new /\ seg' \in [Process -> Segment]
        /\ \A r \in Process : r # o => seg'[r] = seg[r]
    BY <1>1, <2>1, <2>3
  <2> QED
    BY <2>3, <2>4 DEF m
<1>5. /\ consumer'[c].at = "print" /\ consumer'[c].len = n /\ consumer'[c].obj = o
      /\ consumer'[c].out = <<>> /\ consumer'[c].alone = consumer[c].alone
      /\ consumer'[c].early = consumer[c].early /\ consumer'[c].stale = consumer[c].stale
      /\ consumer'[c].quiet => \A p \in Producers : ~(Writes(p) /\ producer[p].obj = o)
      /\ \A d \in Consumers : d # c => consumer'[d] = consumer[d]
      /\ consumer' \in [Consumers -> ConsumerState]
  <2>1. CMoves(c, Prints(c))
    BY DEF Poll
  <2> QED
    BY <1>0, <1>2, <2>1, PrintsEffect
<1> HIDE DEF o, n
\* No other server of the segment is alone.
<1>6. \A d \in Consumers : d # c /\ Serves(d) /\ consumer[d].obj = o => ~consumer[d].alone
  BY <1>0, <1>1 DEF SoleServer, Serves, o
<1>7. \A r \in Process : /\ seg'[r].size = seg[r].size /\ seg'[r].last = seg[r].last
                         /\ seg'[r].by = seg[r].by
                         /\ \A i \in Page : seg'[r].cell[i] # 0 => seg'[r].cell[i] = seg[r].cell[i]
  BY <1>4
<1>8. SegmentTypes'
  BY <1>0, <1>3, <1>4, <1>5 DEF SegmentTypes
<1>9. ProducersPlace'
  BY <1>0, <1>3 DEF ProducersPlace, Writes, Served
<1>10. ConsumersPlace'
  <2>1. /\ Serves(c)' /\ Ready(c)' /\ Shows(c)' /\ Served' /\ consumer'[c].len >= 1
        /\ consumer'[c].obj \in Process /\ (pair' = "posix_2" => consumer'[c].obj = c)
    BY <1>1, <1>3, <1>5 DEF Serves, Ready, Shows, Served
  <2>2. ASSUME NEW d \in Consumers, d # c, consumer[d].at = "size", Served
        PROVE  seg'[d] = NewSegment(0)
    <3>1. o = c /\ d \in Process /\ seg[d] = NewSegment(0)
      BY <1>0, <1>1, <2>2, SegmentNames DEF ConsumersPlace, Served
    <3> QED
      BY <1>4, <2>2, <3>1
  <2> QED
    BY <1>0, <1>3, <1>5, <2>1, <2>2 DEF ConsumersPlace, Serves, Ready, Shows, Served
<1>11. NotYet'
  <2>1. \A r \in Process : Unborn(r)' => Unborn(r) /\ r # o
    BY <1>0, <1>1, <1>3, <1>5 DEF Unborn, NotYet, o
  <2> QED
    BY <1>0, <1>3, <1>4, <1>5, <2>1 DEF NotYet
<1>12. Authors'
  BY <1>0, <1>3, <1>7 DEF Authors, Served
<1>13. Characters'
  <2>1. \A x, j : Character(x, j) => Character(x, j)'
    BY <1>3 DEF Character
  <2> QED
    BY <1>0, <1>5, <1>7, <2>1 DEF Characters
<1>14. SoleWriter'
  <2>1. pair' # "posix_1"
    BY <1>1, <1>3 DEF Served
  <2> QED
    BY <1>0, <1>3, <2>1 DEF SoleWriter, Writes
<1>15. SoleServer'
  <2>1. \A d \in Consumers : /\ Serves(d)' <=> Serves(d)
                             /\ consumer'[d].obj = consumer[d].obj
                             /\ consumer'[d].alone = consumer[d].alone
    BY <1>1, <1>5 DEF Serves, o
  <2> QED
    BY <1>0, <2>1 DEF SoleServer
<1>16. OwnTexts'
  BY <1>1, <1>3 DEF OwnTexts, Served
<1>17. Beyond'
  BY <1>1, <1>3 DEF Beyond, Served
<1>18. LastTexts'
  <2>1. \A r \in Process : seg'[r].last = Nobody
    BY <1>0, <1>1, <1>7 DEF LastTexts
  <2> QED
    BY <2>1 DEF LastTexts
<1>19. Quiet'
  BY <1>0, <1>3, <1>5 DEF Quiet, Shows, Writes
<1>20. Readings'
  <2>1. ASSUME NEW d \in Consumers, d # c, consumer'[d].quiet, consumer'[d].alone
        PROVE  Reads(d)'
    <3>1. /\ consumer'[d] = consumer[d] /\ Reads(d) /\ Serves(d) /\ consumer[d].obj \in Process
      BY <1>0, <1>5, <2>1, Whereabouts DEF Readings, Serves
    <3>2. seg'[consumer[d].obj] = seg[consumer[d].obj]
      BY <1>4, <1>6, <2>1, <3>1
    <3> QED
      BY <1>3, <3>1, <3>2 DEF Reads
  <2>2. Reads(c)'
    BY <1>5 DEF Reads
  <2> QED
    BY <1>1, <1>3, <2>1, <2>2 DEF Readings, Served
<1>21. Fits'
  <2>1. \A r \in Process : seg[r].size \in Nat
    BY <1>0, Shapes
  <2>2. Len(consumer'[c].out) = 0 /\ consumer'[c].obj \in Process
    BY <1>1, <1>5
  <2>3. ASSUME NEW d \in Consumers, Shows(d)'
        PROVE  Len(consumer'[d].out) <= seg'[consumer'[d].obj].size
    <3>1. CASE d = c
      BY <1>7, <2>1, <2>2, <3>1
    <3>2. CASE d # c
      BY <1>0, <1>1, <1>5, <1>7, <2>3, <3>2, Whereabouts DEF Fits, Shows
    <3> QED
      BY <3>1, <3>2
  <2> QED
    BY <1>0, <1>1, <1>3, <1>7, <2>3, Whereabouts DEF Fits
<1>22. Collecting'
  <2>1. ASSUME consumer[c].alone, seg[o].size = n + 1
        PROVE  Collected(c)'
    <3>1. Collected(c)
      BY <1>0, <1>1, <2>1 DEF Collecting, Ready, o, n
    <3>2. \A i \in Page : seg'[o].cell[i] # 0 => seg'[o].cell[i] \in seg'[o].by
      BY <1>1, <1>7, <3>1 DEF Collected, o
    <3>3. ASSUME NEW p \in Producers, seg[o].by \subseteq {p}, p \notin consumer[c].early,
                 producer[p].at = "copy", producer[p].obj = o
          PROVE  \A i \in 1 .. producer[p].len \ producer[p].todo : seg'[o].cell[i] = p
      <4>1. \A i \in 1 .. producer[p].len \ producer[p].todo : seg[o].cell[i] = p
        BY <3>1, <3>3 DEF Collected, o
      <4>2. /\ producer[p].len \in Nat /\ producer[p].len < n + 1
            /\ 1 .. producer[p].len \subseteq Page
        BY <1>0, <1>1, <2>1, <3>3, Shapes, SegmentNames DEF Fits
      <4> QED
        BY <1>1, <1>4, <4>1, <4>2
    <3>4. ASSUME NEW p \in Producers, seg[o].by \subseteq {p}, p \notin consumer[c].early,
                 producer[p].at = "done", p \in seg[o].by
          PROVE  \A i \in 1 .. producer[p].len : seg'[o].cell[i] = p
      <4>1. \A i \in 1 .. producer[p].len : seg[o].cell[i] = p
        BY <3>1, <3>4 DEF Collected, o
      <4>2. /\ producer[p].len \in Nat /\ producer[p].len < n + 1
            /\ 1 .. producer[p].len \subseteq Page
        BY <1>0, <1>1, <2>1, <3>4, Shapes, SegmentNames DEF Authors
      <4> QED
        BY <1>1, <1>4, <4>1, <4>2
    <3> QED
      BY <1>3, <1>4, <1>5, <3>2, <3>3, <3>4 DEF Collected
  <2>2. ASSUME NEW d \in Consumers, d # c, Ready(d)', consumer'[d].alone,
               seg'[consumer'[d].obj].size = consumer'[d].len + 1
        PROVE  Collected(d)'
    <3>1. /\ consumer'[d] = consumer[d] /\ Ready(d) /\ Serves(d) /\ consumer[d].obj \in Process
      BY <1>5, <2>2, Whereabouts DEF Ready, Serves
    <3>2. seg'[consumer[d].obj] = seg[consumer[d].obj]
      BY <1>4, <1>6, <2>2, <3>1
    <3>3. Collected(d)
      BY <1>0, <1>1, <2>2, <3>1, <3>2 DEF Collecting
    <3> QED
      BY <1>3, <3>1, <3>2, <3>3 DEF Collected
  <2> QED
    BY <1>4, <1>5, <2>1, <2>2 DEF Collecting
<1>23. Heard'
  <2>1. ASSUME NEW d \in Consumers, d # c, Shows(d)', consumer'[d].alone
        PROVE  /\ consumer'[d] = consumer[d] /\ Shows(d)
               /\ seg'[consumer[d].obj] = seg[consumer[d].obj]
    BY <1>4, <1>5, <1>6, <2>1, Whereabouts DEF Shows, Serves
  <2>2. consumer'[c].at = "print" /\ seg'[consumer'[c].obj].cell[1] # 0
    BY <1>1, <1>4, <1>5, SegmentNames
  <2> QED
    BY <1>0, <1>1, <1>3, <2>1, <2>2 DEF Heard, Served
<1>24. Cleared'
  <2>1. ASSUME NEW d \in Consumers, Ready(d)', NEW q \in consumer'[d].stale
        PROVE  /\ producer'[q].at = "done"
               /\ \A i \in 1 .. consumer'[d].len + 1 : seg'[consumer'[d].obj].cell[i] # q
               /\ \A i \in 1 .. Len(consumer'[d].out) :
                    i <= consumer'[d].len + 1 => consumer'[d].out[i] # q
    <3>1. /\ consumer'[d].stale = consumer[d].stale /\ consumer'[d].len = consumer[d].len
          /\ consumer'[d].obj = consumer[d].obj /\ consumer'[d].out = consumer[d].out
          /\ Ready(d) /\ consumer[d].obj \in Process
      BY <1>1, <1>2, <1>5, <2>1, Whereabouts DEF Ready, o, n
    <3>2. q \in Producers /\ q # 0 /\ 1 .. consumer[d].len + 1 \subseteq Page
      BY <1>0, <2>1, <3>1, Shapes, SegmentNames
    <3> QED
      BY <1>0, <1>1, <1>3, <1>7, <2>1, <3>1, <3>2 DEF Cleared
  <2> QED
    BY <2>1 DEF Cleared
<1>25. Ending'
  <2>1. ASSUME NEW d \in Consumers, d # c, consumer'[d].quiet
        PROVE  /\ consumer'[d] = consumer[d] /\ consumer[d].obj \in Process /\ consumer[d].quiet
               /\ consumer[d].len + 1 \in Page
    BY <1>0, <1>5, <2>1, Whereabouts, Shapes, SegmentNames
  <2>2. /\ Len(consumer'[c].out) <= consumer'[c].len
        /\ seg'[consumer'[c].obj].cell[consumer'[c].len + 1] = 0
    BY <1>1, <1>4, <1>5
  <2> QED
    BY <1>0, <1>1, <1>3, <1>7, <2>1, <2>2 DEF Ending
<1> QED
  BY <1>8, <1>9, <1>10, <1>11, <1>12, <1>13, <1>14, <1>15, <1>16, <1>17, <1>18, <1>19,
     <1>20, <1>21, <1>22, <1>23, <1>24, <1>25 DEF SegmentInv

\* A consumer prints one more character.
LEMMA ReadMoreStep ==
  ASSUME SegmentInv, NEW c \in Consumers, consumer[c].at = "print", NEW i \in Page,
         i = Len(consumer[c].out) + 1, seg[consumer[c].obj].cell[i] # 0,
         pair = "sysv_1" => i <= seg[consumer[c].obj].size,
         CMoves(c, [consumer[c] EXCEPT !.out = Append(@, seg[consumer[c].obj].cell[i])]),
         UNCHANGED <<pair, name, seg, producer>>
  PROVE  SegmentInv'
<1>0. /\ SegmentTypes /\ ProducersPlace /\ ConsumersPlace /\ NotYet /\ Authors /\ Characters
      /\ SoleWriter /\ SoleServer /\ OwnTexts /\ Beyond /\ LastTexts /\ Quiet
      /\ Readings /\ Fits /\ Collecting /\ Heard /\ Cleared /\ Ending
  BY DEF SegmentInv
<1>1. /\ consumer[c].at = "print" /\ consumer[c].obj \in Process /\ consumer[c] \in ConsumerState
      /\ consumer[c].out \in Seq(Nat) /\ Len(consumer[c].out) \in Nat
      /\ i = Len(consumer[c].out) + 1
      /\ i \in Nat /\ i >= 1 /\ i \in Page /\ consumer[c].len \in Nat
      /\ seg[consumer[c].obj].cell[i] # 0 /\ seg[consumer[c].obj].cell[i] \in Nat
      /\ seg[consumer[c].obj].size \in Nat
  <2>1. /\ consumer[c].obj \in Process /\ consumer[c] \in ConsumerState
        /\ consumer[c].out \in Seq(Nat) /\ Len(consumer[c].out) \in Nat
        /\ consumer[c].len \in 0 .. MaxLen
    BY <1>0, Whereabouts, Shapes
  <2>2. seg[consumer[c].obj].cell[i] \in Nat /\ seg[consumer[c].obj].size \in Nat
    BY <1>0, <2>1, Shapes
  <2> QED
    BY <2>1, <2>2
<1> DEFINE next == seg[consumer[c].obj].cell[i]
           out == Append(consumer[c].out, next)
           to == [consumer[c] EXCEPT !.out = out]
<1>2. /\ consumer'[c].at = consumer[c].at /\ consumer'[c].len = consumer[c].len
      /\ consumer'[c].obj = consumer[c].obj /\ consumer'[c].out = out
      /\ consumer'[c].alone = consumer[c].alone /\ consumer'[c].quiet = consumer[c].quiet
      /\ consumer'[c].early = consumer[c].early /\ consumer'[c].stale = consumer[c].stale
      /\ \A d \in Consumers : d # c => consumer'[d] = consumer[d]
      /\ consumer' \in [Consumers -> ConsumerState]
  <2>1. out \in Seq(Nat) /\ CMoves(c, to)
    BY <1>1
  <2> HIDE DEF out
  <2>2. /\ to \in ConsumerState /\ to.at = consumer[c].at /\ to.len = consumer[c].len
        /\ to.obj = consumer[c].obj /\ to.out = out /\ to.alone = consumer[c].alone
        /\ to.quiet = consumer[c].quiet /\ to.early = consumer[c].early
        /\ to.stale = consumer[c].stale
    BY <1>1, <2>1 DEF ConsumerState
  <2> HIDE DEF to
  <2>3. /\ consumer'[c] = to /\ \A d \in Consumers : d # c => consumer'[d] = consumer[d]
        /\ consumer' \in [Consumers -> ConsumerState]
    BY <1>0, <2>1, <2>2, CMovesEffect
  <2> QED
    BY <2>2, <2>3
<1>3. pair' = pair /\ name' = name /\ seg' = seg /\ producer' = producer
  OBVIOUS
<1>4. /\ Len(consumer'[c].out) = i /\ consumer'[c].out[i] = seg[consumer[c].obj].cell[i]
      /\ \A j \in 1 .. Len(consumer[c].out) : consumer'[c].out[j] = consumer[c].out[j]
      /\ \A j \in 1 .. Len(consumer'[c].out) : j = i \/ j \in 1 .. Len(consumer[c].out)
  <2>1. /\ Len(out) = i /\ out[i] = next
        /\ \A j \in 1 .. Len(consumer[c].out) : out[j] = consumer[c].out[j]
    <3>1. next \in Nat
      BY <1>1
    <3> HIDE DEF next
    <3> QED
      BY <1>1, <3>1
  <2> HIDE DEF out
  <2>2. \A j \in 1 .. i : j = i \/ j \in 1 .. Len(consumer[c].out)
    BY <1>1
  <2> QED
    BY <1>2, <2>1, <2>2
<1> HIDE DEF next, out, to
<1>5. SegmentTypes'
  BY <1>0, <1>2, <1>3 DEF SegmentTypes
<1>6. ProducersPlace'
  BY <1>0, <1>3 DEF ProducersPlace, Writes, Served
<1>7. ConsumersPlace'
  <2>1. Shows(c) /\ Shows(c)' /\ Ready(c) /\ Ready(c)' /\ Serves(c) /\ Serves(c)'
    BY <1>1, <1>2 DEF Shows, Ready, Serves
  <2>2. ASSUME NEW d \in Consumers
        PROVE  /\ consumer'[d].at = consumer[d].at /\ consumer'[d].obj = consumer[d].obj
               /\ consumer'[d].len = consumer[d].len /\ consumer'[d].stale = consumer[d].stale
               /\ ~Shows(d) => consumer'[d].out = consumer[d].out
    BY <1>2, <2>1
  <2> QED
    BY <1>0, <1>3, <2>2 DEF ConsumersPlace, Serves, Ready, Shows, Served
<1>8. NotYet'
  <2>1. \A d \in Consumers : consumer'[d].at = consumer[d].at /\ consumer'[d].obj = consumer[d].obj
    BY <1>2
  <2>2. \A o \in Process : Unborn(o)' => Unborn(o)
    BY <1>3, <2>1 DEF Unborn
  <2>3. \A o \in Process : (seg[o] = NewSegment(0))' <=> seg[o] = NewSegment(0)
    BY <1>3 DEF NewSegment
  <2> QED
    BY <1>0, <1>3, <2>1, <2>2, <2>3 DEF NotYet
<1>9. Authors'
  BY <1>0, <1>3 DEF Authors, Served
<1>10. Characters'
  <2>1. \A x, j : Character(x, j) => Character(x, j)'
    BY <1>3 DEF Character
  <2>2. \A j \in 1 .. Len(consumer'[c].out) : Character(consumer'[c].out[j], j)
    <3>1. Character(seg[consumer[c].obj].cell[i], i)
      BY <1>0, <1>1 DEF Characters
    <3>2. \A j \in 1 .. Len(consumer[c].out) : Character(consumer[c].out[j], j)
      BY <1>0 DEF Characters
    <3> QED
      BY <1>4, <3>1, <3>2
  <2> QED
    BY <1>0, <1>2, <1>3, <2>1, <2>2 DEF Characters
<1>11. SoleWriter'
  BY <1>0, <1>3 DEF SoleWriter, Writes
<1>12. SoleServer'
  BY <1>0, <1>1, <1>2 DEF SoleServer, Serves
<1>13. OwnTexts'
  BY <1>0, <1>3 DEF OwnTexts, OwnText, Served
<1>14. Beyond'
  BY <1>0, <1>3 DEF Beyond
<1>15. LastTexts'
  <2>1. \A o \in Process : LastText(o) => LastText(o)'
    BY <1>3 DEF LastText, Writes
  <2> QED
    BY <1>0, <1>3, <2>1 DEF LastTexts, Served
<1>16. Quiet'
  BY <1>0, <1>1, <1>2, <1>3 DEF Quiet, Shows, Writes
<1>17. Readings'
  <2>1. ASSUME consumer[c].quiet, Served => consumer[c].alone
        PROVE  Reads(c)'
    <3>1. Reads(c)
      BY <1>0, <2>1 DEF Readings
    <3> QED
      BY <1>1, <1>2, <1>3, <1>4, <3>1 DEF Reads
  <2>2. ASSUME NEW d \in Consumers, d # c, Reads(d)
        PROVE  Reads(d)'
    BY <1>2, <1>3, <2>2 DEF Reads
  <2> QED
    BY <1>0, <1>2, <1>3, <2>1, <2>2 DEF Readings, Served
<1>18. Fits'
  <2>1. Served => i <= seg[consumer[c].obj].size
    BY <1>0, <1>1 DEF Fits
  <2> QED
    <3>1. ASSUME Served, NEW d \in Consumers, Shows(d)'
          PROVE  Len(consumer'[d].out) <= seg[consumer'[d].obj].size
      <4>1. CASE d = c
        BY <1>2, <1>4, <2>1, <3>1, <4>1
      <4>2. CASE d # c
        BY <1>0, <1>2, <3>1, <4>2 DEF Fits, Shows
      <4> QED
        BY <4>1, <4>2
    <3> QED
      BY <1>0, <1>3, <3>1 DEF Fits, Served
<1>19. Collecting'
  <2>1. ASSUME Collected(c)
        PROVE  Collected(c)'
    <3>1. /\ seg[consumer[c].obj].cell[i] \in seg[consumer[c].obj].by
          /\ \A j \in 1 .. Len(consumer[c].out) : consumer[c].out[j] \in seg[consumer[c].obj].by
      BY <1>1, <2>1 DEF Collected
    <3>2. \A j \in 1 .. Len(consumer'[c].out) : consumer'[c].out[j] \in seg[consumer[c].obj].by
      BY <1>4, <3>1
    <3> QED
      BY <1>2, <1>3, <2>1, <3>2, SameCollected
  <2>2. ASSUME NEW d \in Consumers, d # c, Collected(d)
        PROVE  Collected(d)'
    BY <1>2, <1>3, <2>2, SameReader
  <2> QED
    BY <1>0, <1>2, <1>3, <2>1, <2>2 DEF Collecting, Ready, Served
<1>20. Heard'
  <2>1. Len(consumer'[c].out) >= 1
    BY <1>1, <1>4
  <2> QED
    BY <1>0, <1>2, <1>3, <2>1 DEF Heard, Shows, Served
<1>21. Cleared'
  <2>1. ASSUME Served, NEW q \in consumer[c].stale
        PROVE  /\ producer[q].at = "done"
               /\ \A j \in 1 .. consumer[c].len + 1 : seg[consumer[c].obj].cell[j] # q
               /\ \A j \in 1 .. Len(consumer'[c].out) :
                    j <= consumer[c].len + 1 => consumer'[c].out[j] # q
    <3>1. /\ producer[q].at = "done"
          /\ \A j \in 1 .. consumer[c].len + 1 : seg[consumer[c].obj].cell[j] # q
          /\ \A j \in 1 .. Len(consumer[c].out) : j <= consumer[c].len + 1 => consumer[c].out[j] # q
      BY <1>0, <1>1, <2>1 DEF Cleared, Ready
    <3>2. i <= consumer[c].len + 1 => consumer'[c].out[i] # q
      <4>1. i <= consumer[c].len + 1 => i \in 1 .. consumer[c].len + 1
        BY <1>1
      <4> QED
        BY <1>4, <3>1, <4>1
    <3> QED
      BY <1>4, <3>1, <3>2
  <2> QED
    <3>1. ASSUME Served, NEW d \in Consumers, Ready(d)', NEW q \in consumer'[d].stale
          PROVE  /\ producer[q].at = "done"
                 /\ \A j \in 1 .. consumer'[d].len + 1 : seg[consumer'[d].obj].cell[j] # q
                 /\ \A j \in 1 .. Len(consumer'[d].out) :
                      j <= consumer'[d].len + 1 => consumer'[d].out[j] # q
      <4>1. CASE d = c
        BY <1>2, <2>1, <3>1, <4>1
      <4>2. CASE d # c
        <5>1. consumer'[d] = consumer[d]
          BY <1>2, <4>2
        <5>2. Ready(d)
          BY <3>1, <5>1 DEF Ready
        <5> QED
          BY <1>0, <3>1, <5>1, <5>2 DEF Cleared
      <4> QED
        BY <4>1, <4>2
    <3> QED
      BY <1>3, <3>1 DEF Cleared, Served
<1>22. Ending'
  <2>1. ASSUME Served, consumer[c].quiet
        PROVE  Len(consumer'[c].out) <= consumer[c].len
    <3>1. Len(consumer[c].out) <= consumer[c].len /\ i # consumer[c].len + 1
      BY <1>0, <1>1, <2>1 DEF Ending
    <3> QED
      BY <1>1, <1>4, <3>1
  <2> QED
    BY <1>0, <1>2, <1>3, <2>1 DEF Ending, Served
<1> QED
  BY <1>5, <1>6, <1>7, <1>8, <1>9, <1>10, <1>11, <1>12, <1>13, <1>14, <1>15, <1>16, <1>17,
     <1>18, <1>19, <1>20, <1>21, <1>22 DEF SegmentInv

\* A consumer finds the end of the text.
LEMMA ReadEndStep ==
  ASSUME SegmentInv, NEW c \in Consumers, consumer[c].at = "print",
         \/ Len(consumer[c].out) + 1 \notin Page
         \/ seg[consumer[c].obj].cell[Len(consumer[c].out) + 1] = 0
         \/ pair = "sysv_1" /\ ~(Len(consumer[c].out) + 1 <= seg[consumer[c].obj].size),
         CMoves(c, [consumer[c] EXCEPT !.at = "remove"]),
         UNCHANGED <<pair, name, seg, producer>>
  PROVE  SegmentInv'
<1>0. /\ SegmentTypes /\ ProducersPlace /\ ConsumersPlace /\ NotYet /\ Authors /\ Characters
      /\ SoleWriter /\ SoleServer /\ OwnTexts /\ Beyond /\ LastTexts /\ Quiet
      /\ Readings /\ Fits /\ Collecting /\ Heard /\ Cleared /\ Ending
  BY DEF SegmentInv
<1>1. /\ consumer[c].at = "print" /\ consumer[c] \in ConsumerState
      /\ \/ Len(consumer[c].out) + 1 \notin Page
         \/ seg[consumer[c].obj].cell[Len(consumer[c].out) + 1] = 0
         \/ pair = "sysv_1" /\ Len(consumer[c].out) + 1 > seg[consumer[c].obj].size
  BY <1>0, Whereabouts, Shapes
<1> DEFINE to == [consumer[c] EXCEPT !.at = "remove"]
<1>2. /\ consumer'[c].at = "remove" /\ consumer'[c].len = consumer[c].len
      /\ consumer'[c].obj = consumer[c].obj /\ consumer'[c].out = consumer[c].out
      /\ consumer'[c].alone = consumer[c].alone /\ consumer'[c].quiet = consumer[c].quiet
      /\ consumer'[c].early = consumer[c].early /\ consumer'[c].stale = consumer[c].stale
      /\ \A d \in Consumers : d # c => consumer'[d] = consumer[d]
      /\ consumer' \in [Consumers -> ConsumerState]
  <2>1. CMoves(c, to)
    OBVIOUS
  <2>2. /\ to \in ConsumerState /\ to.at = "remove" /\ to.len = consumer[c].len
        /\ to.obj = consumer[c].obj /\ to.out = consumer[c].out /\ to.alone = consumer[c].alone
        /\ to.quiet = consumer[c].quiet /\ to.early = consumer[c].early
        /\ to.stale = consumer[c].stale
    BY <1>1 DEF ConsumerState
  <2> HIDE DEF to
  <2>3. /\ consumer'[c] = to /\ \A d \in Consumers : d # c => consumer'[d] = consumer[d]
        /\ consumer' \in [Consumers -> ConsumerState]
    BY <1>0, <2>1, <2>2, CMovesEffect
  <2> QED
    BY <2>2, <2>3
<1>3. pair' = pair /\ name' = name /\ seg' = seg /\ producer' = producer
  OBVIOUS
<1> HIDE DEF to
<1>4. SegmentTypes'
  BY <1>0, <1>2, <1>3 DEF SegmentTypes
<1>5. ProducersPlace'
  BY <1>0, <1>3 DEF ProducersPlace, Writes, Served
<1>6. ConsumersPlace'
  BY <1>0, <1>1, <1>2, <1>3 DEF ConsumersPlace, Serves, Ready, Shows, Served
<1>7. NotYet'
  BY <1>0, <1>1, <1>2, <1>3 DEF NotYet, Unborn
<1>8. Authors'
  BY <1>0, <1>3 DEF Authors, Served
<1>9. Characters'
  <2>1. \A x, j : Character(x, j) => Character(x, j)'
    BY <1>3 DEF Character
  <2> QED
    BY <1>0, <1>2, <1>3, <2>1 DEF Characters
<1>10. SoleWriter'
  BY <1>0, <1>3 DEF SoleWriter, Writes
<1>11. SoleServer'
  BY <1>0, <1>1, <1>2 DEF SoleServer, Serves
<1>12. OwnTexts'
  BY <1>0, <1>3 DEF OwnTexts, OwnText, Served
<1>13. Beyond'
  BY <1>0, <1>3 DEF Beyond
<1>14. LastTexts'
  <2>1. \A o \in Process : LastText(o) => LastText(o)'
    BY <1>3 DEF LastText, Writes
  <2> QED
    BY <1>0, <1>3, <2>1 DEF LastTexts, Served
<1>15. Quiet'
  BY <1>0, <1>1, <1>2, <1>3 DEF Quiet, Shows, Writes
<1>16. Readings'
  <2>1. ASSUME Reads(c)
        PROVE  Reads(c)'
    BY <1>1, <1>2, <1>3, <2>1 DEF Reads
  <2>2. ASSUME NEW d \in Consumers, d # c, Reads(d)
        PROVE  Reads(d)'
    BY <1>2, <1>3, <2>2 DEF Reads
  <2> QED
    BY <1>0, <1>2, <1>3, <2>1, <2>2 DEF Readings, Served
<1>17. Fits'
  BY <1>0, <1>1, <1>2, <1>3 DEF Fits, Shows, Served
<1>18. Collecting'
  <2>1. ASSUME Collected(c)
        PROVE  Collected(c)'
    <3>1. \A j \in 1 .. Len(consumer'[c].out) : consumer'[c].out[j] \in seg[consumer[c].obj].by
      BY <1>2, <2>1 DEF Collected
    <3> QED
      BY <1>2, <1>3, <2>1, <3>1, SameCollected
  <2>2. ASSUME NEW d \in Consumers, d # c, Collected(d)
        PROVE  Collected(d)'
    BY <1>2, <1>3, <2>2, SameReader
  <2> QED
    BY <1>0, <1>1, <1>2, <1>3, <2>1, <2>2 DEF Collecting, Ready, Served
<1>19. Heard'
  <2>1. Served /\ consumer[c].alone => Len(consumer[c].out) >= 1
    <3>1. Served /\ consumer[c].alone =>
            Len(consumer[c].out) >= 1 \/ seg[consumer[c].obj].cell[1] # 0
      BY <1>0, <1>1 DEF Heard, Shows
    <3>2. 1 \in Page /\ Len(consumer[c].out) \in Nat
      BY <1>0, Shapes, SegmentNames
    <3> QED
      BY <1>1, <3>1, <3>2 DEF Served
  <2> QED
    BY <1>0, <1>1, <1>2, <1>3, <2>1 DEF Heard, Shows, Served
<1>20. Cleared'
  BY <1>0, <1>1, <1>2, <1>3 DEF Cleared, Ready, Served
<1>21. Ending'
  BY <1>0, <1>2, <1>3 DEF Ending, Served
<1> QED
  BY <1>4, <1>5, <1>6, <1>7, <1>8, <1>9, <1>10, <1>11, <1>12, <1>13, <1>14, <1>15, <1>16,
     <1>17, <1>18, <1>19, <1>20, <1>21 DEF SegmentInv

\* A producer that gives up.
LEMMA PFailsStep ==
  ASSUME SegmentInv, NEW p \in Producers, PFails(p), producer[p].at \in {"idle", "ask"},
         UNCHANGED <<pair, name, seg, consumer>>
  PROVE  SegmentInv'
<1> DEFINE to == [NewProducer EXCEPT !.at = "failed", !.len = producer[p].len]
<1>1. to \in ProducerState /\ to.at = "failed" /\ to.obj = Nobody
  <2>1. producer[p].len \in 0 .. MaxLen
    BY Shapes DEF SegmentInv
  <2> QED
    BY <2>1 DEF NewProducer, ProducerState
<1>2. PMoves(p, to)
  BY DEF PFails
<1> HIDE DEF to
<1> QED
  BY <1>1, <1>2, PWaitsStep

\* A consumer that gives up.
LEMMA CFailsStep ==
  ASSUME SegmentInv, NEW c \in Consumers, CFails(c), pair' = pair, name' = name, seg' = seg,
         producer' = producer
  PROVE  SegmentInv'
<1> DEFINE to == [NewConsumer EXCEPT !.at = "failed"]
<1>1. /\ to \in ConsumerState /\ to.at = "failed" /\ to.obj = Nobody /\ to.out = <<>>
      /\ ~to.quiet /\ to.stale = {}
  <2>1. <<>> \in Seq(Nat) /\ 0 \in 0 .. MaxLen
    BY SegmentNames
  <2> QED
    BY <2>1 DEF NewConsumer, ConsumerState
<1>2. CMoves(c, to)
  BY DEF CFails
<1>3. seg' \in [Process -> Segment]
  BY DEF SegmentInv, SegmentTypes
<1> HIDE DEF to
<1> QED
  BY <1>1, <1>2, <1>3, LeavesStep

\* A writer of posix_1 opens the object.
LEMMA WriterOpenStep ==
  ASSUME SegmentInv, NEW p \in Producers, pair = "posix_1", WriterOpen(p)
  PROVE  SegmentInv'
<1> DEFINE o == IF name = Nobody THEN p ELSE name
           others == WritingOn(o) # {}
<1>1. PICK n \in 1 .. MaxLen :
        PEnters(p, [producer[p] EXCEPT !.at = "size", !.len = n, !.obj = o])
  BY DEF WriterOpen
<1>2. /\ producer[p].at = "idle" /\ name' = o /\ pair' = pair
      /\ seg' = [seg EXCEPT ![o] = [seg[o] EXCEPT !.last = Nobody, !.mixed = @ \/ others]]
  BY DEF WriterOpen, PTurn
<1>3. /\ o \in Process /\ o \in {p, name} /\ seg \in [Process -> Segment]
      /\ producer[p] \in ProducerState /\ seg[o] \in Segment /\ others \in BOOLEAN
  <2>1. o \in Process /\ o \in {p, name}
    BY SegmentNames DEF SegmentInv, SegmentTypes
  <2> QED
    BY <2>1, Shapes DEF SegmentInv, SegmentTypes
<1>4. (\E q \in Producers : Writes(q) /\ producer[q].obj = o) => others
  BY DEF WritingOn, Writes
<1> HIDE DEF o, others
<1> DEFINE to == [producer[p] EXCEPT !.at = "size", !.len = n, !.obj = o]
           new == [seg[o] EXCEPT !.last = Nobody, !.mixed = @ \/ others]
<1>5. /\ to \in ProducerState /\ to.at = "size" /\ to.len = n /\ to.obj = o
  <2>1. n \in 0 .. MaxLen
    OBVIOUS
  <2> QED
    BY <1>3, <2>1 DEF ProducerState
<1>6. /\ new \in Segment /\ new.cell = seg[o].cell /\ new.by = seg[o].by /\ new.last = Nobody
      /\ new.size = seg[o].size /\ (seg[o].mixed => new.mixed) /\ (others => new.mixed)
  BY <1>3 DEF Segment
<1> HIDE DEF to, new
<1>7. /\ seg' \in [Process -> Segment] /\ seg'[o] = new
      /\ \A r \in Process \ {o} : seg'[r] = seg[r]
  BY <1>2, <1>3, <1>6 DEF new
<1>8. PEnters(p, to)
  BY <1>1 DEF to
<1>9. /\ to.at \in {"size", "copy"} /\ to.at # "copy" /\ to.len >= 1
      /\ to.obj \in {p, name, producer[p].obj} /\ to.obj \in Process
  BY <1>3, <1>5
<1>10. /\ \A r \in Process \ {to.obj} : seg'[r] = seg[r]
       /\ seg'[to.obj].cell = seg[to.obj].cell /\ seg'[to.obj].by = seg[to.obj].by
       /\ seg'[to.obj].last = Nobody /\ seg'[to.obj].size = seg[to.obj].size
       /\ seg[to.obj].mixed => seg'[to.obj].mixed
       /\ (\E q \in Producers : Writes(q) /\ producer[q].obj = to.obj) => seg'[to.obj].mixed
       /\ name' \in {name, to.obj}
  BY <1>2, <1>4, <1>5, <1>6, <1>7
<1> QED
  BY <1>2, <1>5, <1>7, <1>8, <1>9, <1>10, EntersStep

\* A writer of sysv_1 finds the segment, makes it or is refused.
LEMMA WriterGetStep ==
  ASSUME SegmentInv, NEW p \in Producers, pair = "sysv_1", WriterGet(p)
  PROVE  SegmentInv'
<1> DEFINE o == IF name = Nobody THEN p ELSE name
<1>1. /\ o \in Process /\ o \in {p, name} /\ seg \in [Process -> Segment]
      /\ producer[p] \in ProducerState /\ seg[o] \in Segment /\ pair' = pair
      /\ producer[p].at = "idle" /\ seg[o].size \in Nat
  <2>1. o \in Process /\ o \in {p, name}
    BY SegmentNames DEF SegmentInv, SegmentTypes
  <2> QED
    BY <2>1, Shapes DEF SegmentInv, SegmentTypes, WriterGet, PTurn
<1>2. PICK n \in 1 .. MaxLen :
        \/ PFails(p) /\ UNCHANGED <<name, seg, consumer>>
        \/ /\ name = Nobody \/ seg[o].size >= n + 1
           /\ name' = o
           /\ seg' = [seg EXCEPT ![o] = IF name = Nobody THEN NewSegment(n + 1)
                                        ELSE [seg[o] EXCEPT !.last = Nobody]]
           /\ PEnters(p, [producer[p] EXCEPT !.at = "copy", !.len = n, !.obj = o,
                                             !.todo = WriterCopies(n)])
  BY DEF WriterGet
<1>3. CASE PFails(p) /\ UNCHANGED <<name, seg, consumer>>
  BY <1>1, <1>3, PFailsStep
<1>4. CASE /\ name = Nobody \/ seg[o].size >= n + 1
           /\ name' = o
           /\ seg' = [seg EXCEPT ![o] = IF name = Nobody THEN NewSegment(n + 1)
                                        ELSE [seg[o] EXCEPT !.last = Nobody]]
           /\ PEnters(p, [producer[p] EXCEPT !.at = "copy", !.len = n, !.obj = o,
                                             !.todo = WriterCopies(n)])
  <2> DEFINE to == [producer[p] EXCEPT !.at = "copy", !.len = n, !.obj = o,
                                       !.todo = WriterCopies(n)]
             made == NewSegment(n + 1)
             found == [seg[o] EXCEPT !.last = Nobody]
             new == IF name = Nobody THEN made ELSE found
  <2>1. /\ WriterCopies(n) = 1 .. n + 1 /\ WriterCopies(n) \subseteq Page /\ n \in Nat
        /\ n + 1 \in Nat /\ n \in 0 .. MaxLen
    BY SegmentNames DEF WriterCopies
  <2>2. name = Nobody => o = p /\ seg[o] = NewSegment(0)
    BY <1>1, SegmentNames DEF SegmentInv, NotYet, Unborn
  <2>3. /\ made \in Segment /\ made.size = n + 1 /\ made.by = {} /\ made.last = Nobody
        /\ made.cell = NewSegment(0).cell /\ ~NewSegment(0).mixed /\ NewSegment(0).by = {}
    BY <2>1, NewSegmentShape, EmptySegment DEF NewSegment
  <2> HIDE DEF o, made
  <2>4. /\ found \in Segment /\ found.size = seg[o].size /\ found.by = seg[o].by
        /\ found.last = Nobody /\ found.cell = seg[o].cell /\ found.mixed = seg[o].mixed
    BY <1>1 DEF Segment
  <2> HIDE DEF found
  <2>5. /\ new \in Segment /\ new.cell = seg[o].cell /\ new.by = seg[o].by /\ new.last = Nobody
        /\ (seg[o].mixed => new.mixed) /\ n < new.size
        /\ (new.size = seg[o].size \/ o = p)
    <3>1. CASE name = Nobody
      <4>1. new = made /\ o = p /\ seg[o] = NewSegment(0)
        BY <2>2, <3>1
      <4>2. n < made.size
        BY <2>1, <2>3
      <4> HIDE DEF new
      <4> QED
        BY <2>3, <4>1, <4>2
    <3>2. CASE name # Nobody
      <4>1. new = found /\ n < seg[o].size
        BY <1>1, <1>4, <2>1, <3>2 DEF o
      <4> QED
        BY <2>4, <4>1
    <3> QED
      BY <3>1, <3>2
  <2>6. /\ to \in ProducerState /\ to.at = "copy" /\ to.len = n /\ to.obj = o
        /\ to.todo = 1 .. n + 1
    BY <1>1, <2>1 DEF ProducerState
  <2>7. seg' = [seg EXCEPT ![o] = new]
    BY <1>4 DEF found, made
  <2> HIDE DEF to, new
  <2>8. /\ seg' \in [Process -> Segment] /\ seg'[o] = new
        /\ \A r \in Process \ {o} : seg'[r] = seg[r]
    BY <1>1, <2>5, <2>7
  <2>9. PEnters(p, to) /\ name' \in {name, o}
    BY <1>4 DEF to
  <2> QED
    BY <1>1, <2>5, <2>6, <2>8, <2>9, EntersStep
<1> QED
  BY <1>2, <1>3, <1>4

\* A client looks for the segment of a server.
LEMMA ClientOpenStep ==
  ASSUME SegmentInv, NEW p \in Producers, Served, ClientOpen(p)
  PROVE  SegmentInv'
<1>1. producer[p].at = "idle" /\ UNCHANGED <<pair, name, seg, consumer>>
  BY DEF ClientOpen, PTurn
<1>2. CASE name = Nobody
  BY <1>1, <1>2, PFailsStep DEF ClientOpen
<1>3. CASE name # Nobody
  <2> DEFINE to == [producer[p] EXCEPT !.at = "ask", !.obj = name]
  <2>1. name \in Process /\ producer[p] \in ProducerState
    BY <1>3 DEF SegmentInv, SegmentTypes
  <2>2. to \in ProducerState /\ to.at = "ask" /\ to.obj = name
    BY <2>1 DEF ProducerState
  <2>3. PMoves(p, to)
    BY <1>3 DEF ClientOpen
  <2> HIDE DEF to
  <2> QED
    BY <1>1, <2>1, <2>2, <2>3, PWaitsStep
<1> QED
  BY <1>2, <1>3

\* A client has its line and begins to copy it, or ends.
LEMMA ClientAskStep ==
  ASSUME SegmentInv, NEW p \in Producers, Served, ClientAsk(p)
  PROVE  SegmentInv'
<1> DEFINE o == producer[p].obj
<1>1. /\ producer[p].at = "ask" /\ o \in Process /\ UNCHANGED <<pair, name, seg>>
      /\ producer[p] \in ProducerState /\ seg' \in [Process -> Segment]
      /\ seg[o].last = Nobody /\ pair # "posix_1"
  <2>1. producer[p].at = "ask" /\ UNCHANGED <<pair, name, seg>> /\ pair # "posix_1"
    BY DEF ClientAsk, Served
  <2>2. o \in Process /\ producer[p] \in ProducerState /\ seg' \in [Process -> Segment]
    BY <2>1, Whereabouts DEF SegmentInv, SegmentTypes
  <2> QED
    BY <2>1, <2>2 DEF SegmentInv, LastTexts
<1>2. CASE PFails(p) /\ UNCHANGED consumer
  BY <1>1, <1>2, PFailsStep
<1>3. CASE \E n \in 1 .. MaxLen :
             /\ n < seg[o].size
             /\ PEnters(p, [producer[p] EXCEPT !.at = "copy", !.len = n, !.todo = 1 .. n + 1])
  <2>1. PICK n \in 1 .. MaxLen :
          /\ n < seg[o].size
          /\ PEnters(p, [producer[p] EXCEPT !.at = "copy", !.len = n, !.todo = 1 .. n + 1])
    BY <1>3
  <2> DEFINE to == [producer[p] EXCEPT !.at = "copy", !.len = n, !.todo = 1 .. n + 1]
  <2>2. 1 .. n + 1 \subseteq Page /\ n \in 0 .. MaxLen
    BY SegmentNames
  <2>3. /\ to \in ProducerState /\ to.at = "copy" /\ to.len = n /\ to.obj = o
        /\ to.todo = 1 .. n + 1
    BY <1>1, <2>2 DEF ProducerState
  <2>4. PEnters(p, to)
    BY <2>1
  <2> HIDE DEF to, o
  <2> QED
    BY <1>1, <2>1, <2>3, <2>4, EntersStep DEF o
<1> QED
  BY <1>2, <1>3 DEF ClientAsk

\* A reader looks for the segment.
LEMMA ReaderOpenStep ==
  ASSUME SegmentInv, NEW c \in Consumers, ~Served, ReaderOpen(c)
  PROVE  SegmentInv'
<1>1. /\ consumer[c].at = "idle" /\ consumer[c] \in ConsumerState
      /\ UNCHANGED <<pair, name, seg, producer>> /\ seg' \in [Process -> Segment]
  BY DEF ReaderOpen, CTurn, SegmentInv, SegmentTypes
<1>2. CASE name = Nobody
  BY <1>1, <1>2, CFailsStep DEF ReaderOpen
<1>3. CASE name # Nobody
  <2> DEFINE to == [consumer[c] EXCEPT !.at = "size", !.obj = name]
  <2>1. /\ name \in Process /\ consumer[c].out = <<>> /\ ~consumer[c].quiet
        /\ consumer[c].stale = {}
    BY <1>1, <1>3 DEF SegmentInv, SegmentTypes, ConsumersPlace, Quiet, Shows, Ready
  <2>2. /\ to \in ConsumerState /\ to.at = "size" /\ to.obj = name /\ to.out = consumer[c].out
        /\ to.quiet = consumer[c].quiet /\ to.stale = consumer[c].stale
    BY <1>1, <2>1 DEF ConsumerState
  <2>3. CEnters(c, to)
    BY <1>3 DEF ReaderOpen
  <2> HIDE DEF to
  <2>4. pair \notin {"posix_2", "sysv_2"} /\ 0 \in Nat
    BY DEF Served
  <2> QED
    BY <1>1, <2>1, <2>2, <2>3, <2>4, TakesStep
<1> QED
  BY <1>2, <1>3

\* A server of posix_2 makes the object.
LEMMA ServerOpenStep ==
  ASSUME SegmentInv, NEW c \in Consumers, pair = "posix_2", ServerOpen(c)
  PROVE  SegmentInv'
<1>1. /\ consumer[c].at = "idle" /\ consumer[c] \in ConsumerState
      /\ UNCHANGED <<pair, seg, producer>> /\ seg' \in [Process -> Segment] /\ c \in Process
  BY SegmentNames DEF ServerOpen, CTurn, SegmentInv, SegmentTypes
<1>2. CASE name # Nobody
  BY <1>1, <1>2, CFailsStep DEF ServerOpen
<1>3. CASE name = Nobody
  <2>1. PICK m \in 1 .. MaxLen :
          /\ name' = c
          /\ CEnters(c, [consumer[c] EXCEPT !.at = "size", !.len = m, !.obj = c])
    BY <1>3 DEF ServerOpen
  <2> DEFINE to == [consumer[c] EXCEPT !.at = "size", !.len = m, !.obj = c]
  <2>2. consumer[c].out = <<>> /\ ~consumer[c].quiet /\ consumer[c].stale = {}
    BY <1>1 DEF SegmentInv, ConsumersPlace, Quiet, Shows, Ready
  <2>3. m \in 0 .. MaxLen /\ m >= 1 /\ seg[c] = NewSegment(0)
    BY <1>1 DEF SegmentInv, NotYet, Unborn
  <2>4. /\ to \in ConsumerState /\ to.at = "size" /\ to.obj = c /\ to.out = consumer[c].out
        /\ to.quiet = consumer[c].quiet /\ to.stale = consumer[c].stale /\ to.len = m
    BY <1>1, <2>3 DEF ConsumerState
  <2>5. CEnters(c, to)
    BY <2>1
  <2> HIDE DEF to
  <2>6. 0 \in Nat
    OBVIOUS
  <2> QED
    BY <1>1, <2>1, <2>2, <2>3, <2>4, <2>5, <2>6, TakesStep
<1> QED
  BY <1>2, <1>3

\* A server of sysv_2 finds the segment, makes it or is refused.
LEMMA ServerGetStep ==
  ASSUME SegmentInv, NEW c \in Consumers, pair = "sysv_2", ServerGet(c)
  PROVE  SegmentInv'
<1> DEFINE o == IF name = Nobody THEN c ELSE name
<1>1. /\ consumer[c].at = "idle" /\ consumer[c] \in ConsumerState /\ pair' = pair
      /\ producer' = producer /\ seg \in [Process -> Segment] /\ o \in Process /\ o \in {c, name}
  BY SegmentNames DEF ServerGet, CTurn, SegmentInv, SegmentTypes
<1>2. PICK m \in 1 .. MaxLen :
        \/ CFails(c) /\ UNCHANGED <<name, seg>>
        \/ /\ name' = o
           /\ seg' = IF name = Nobody THEN [seg EXCEPT ![o] = NewSegment(m + 1)] ELSE seg
           /\ CEnters(c, [consumer[c] EXCEPT !.at = "clear", !.len = m, !.obj = o])
  BY DEF ServerGet
<1>3. CASE CFails(c) /\ UNCHANGED <<name, seg>>
  BY <1>1, <1>3, CFailsStep
<1>4. CASE /\ name' = o
           /\ seg' = IF name = Nobody THEN [seg EXCEPT ![o] = NewSegment(m + 1)] ELSE seg
           /\ CEnters(c, [consumer[c] EXCEPT !.at = "clear", !.len = m, !.obj = o])
  <2> DEFINE to == [consumer[c] EXCEPT !.at = "clear", !.len = m, !.obj = o]
  <2>1. m \in 0 .. MaxLen /\ m >= 1 /\ m + 1 \in Nat
    OBVIOUS
  <2>2. NewSegment(m + 1) \in Segment
    BY <2>1, NewSegmentShape
  <2>3. consumer[c].out = <<>> /\ ~consumer[c].quiet /\ consumer[c].stale = {}
    BY <1>1 DEF SegmentInv, ConsumersPlace, Quiet, Shows, Ready
  <2>4. /\ seg' \in [Process -> Segment]
        /\ \A r \in Process : seg'[r] = seg[r] \/ (r = c /\ r = o /\ seg'[r] = NewSegment(m + 1))
    BY <1>1, <1>4, <2>2
  <2>5. CEnters(c, to) /\ name' \in {name, o}
    BY <1>4
  <2> HIDE DEF o
  <2>6. /\ to \in ConsumerState /\ to.at = "clear" /\ to.obj = o /\ to.out = consumer[c].out
        /\ to.quiet = consumer[c].quiet /\ to.stale = consumer[c].stale /\ to.len = m
    BY <1>1, <2>1 DEF ConsumerState
  <2> HIDE DEF to
  <2> QED
    BY <1>1, <2>1, <2>3, <2>4, <2>5, <2>6, TakesStep
<1> QED
  BY <1>2, <1>3, <1>4

\* A consumer reads on, or finds the end.
LEMMA ReadStep ==
  ASSUME SegmentInv, NEW c \in Consumers, Read(c)
  PROVE  SegmentInv'
<1> DEFINE s == seg[consumer[c].obj]
           i == Len(consumer[c].out) + 1
           more == i \in Page /\ s.cell[i] # 0 /\ (pair = "sysv_1" => i <= s.size)
<1>1. consumer[c].at = "print" /\ UNCHANGED <<pair, name, seg, producer>>
  BY DEF Read
<1>2. CASE more
  <2>1. CMoves(c, [consumer[c] EXCEPT !.out = Append(@, s.cell[i])])
    BY <1>2 DEF Read
  <2> QED
    BY <1>1, <1>2, <2>1, ReadMoreStep
<1>3. CASE ~more
  <2>1. CMoves(c, [consumer[c] EXCEPT !.at = "remove"])
    BY <1>3 DEF Read
  <2> QED
    BY <1>1, <1>3, <2>1, ReadEndStep
<1> QED
  BY <1>2, <1>3

\* A consumer removes the segment.
LEMMA RemoveStep ==
  ASSUME SegmentInv, NEW c \in Consumers, Remove(c)
  PROVE  SegmentInv'
<1>1. pair' = pair /\ producer' = producer /\ seg \in [Process -> Segment]
  BY DEF Remove, SegmentInv, SegmentTypes
<1>2. ASSUME NEW o \in Process, UsersOf(o) \subseteq {c}
      PROVE  /\ \A p \in Producers : producer[p].obj # o
             /\ \A d \in Consumers : d # c => ~(Serves(d) /\ consumer[d].obj = o)
  BY <1>2, SegmentNames DEF UsersOf, ServingOn, Serves
<1>3. /\ seg' \in [Process -> Segment]
      /\ \A o \in Process :
           \/ seg'[o] = seg[o]
           \/ /\ seg'[o] = NewSegment(0) /\ \A p \in Producers : producer[p].obj # o
              /\ \A d \in Consumers : d # c => ~(Serves(d) /\ consumer[d].obj = o)
  <2>1. seg' = [o \in Process |-> IF o = name /\ name' = Nobody /\ UsersOf(o) \subseteq {c}
                                  THEN NewSegment(0) ELSE seg[o]]
    BY <1>1 DEF Remove
  <2> QED
    BY <1>1, <1>2, <2>1, EmptySegment
<1> DEFINE to(x) == [NewConsumer EXCEPT !.at = x]
<1>4. PICK x \in {"done", "failed"} : CMoves(c, to(x)) /\ name' \in {name, Nobody}
  BY DEF Remove, CFails
<1>5. /\ to(x) \in ConsumerState /\ to(x).at = x /\ to(x).obj = Nobody /\ to(x).out = <<>>
      /\ ~to(x).quiet /\ to(x).stale = {}
  <2>1. <<>> \in Seq(Nat) /\ 0 \in 0 .. MaxLen
    BY SegmentNames
  <2> QED
    BY <2>1 DEF NewConsumer, ConsumerState
<1> HIDE DEF to
<1> QED
  BY <1>1, <1>3, <1>4, <1>5, LeavesStep

\* The first state.
LEMMA SegmentStart == SegmentInit => SegmentInv
<1> SUFFICES ASSUME SegmentInit PROVE SegmentInv
  OBVIOUS
<1>1. /\ name = Nobody /\ \A o \in Process : seg[o] = NewSegment(0)
      /\ \A o \in Process : /\ seg[o].size = 0 /\ seg[o].by = {} /\ seg[o].last = Nobody
                            /\ \A i \in Page : seg[o].cell[i] = 0
      /\ seg \in [Process -> Segment] /\ pair \in Pairs
  BY EmptySegment DEF SegmentInit, Process
<1>2. /\ \A p \in Producers : producer[p].at = "idle" /\ producer[p].obj = Nobody
      /\ producer \in [Producers -> ProducerState]
  <2>1. NewProducer \in ProducerState /\ NewProducer.at = "idle" /\ NewProducer.obj = Nobody
    BY BoundsAssumption DEF NewProducer, ProducerState
  <2> QED
    BY <2>1 DEF SegmentInit
<1>3. /\ \A c \in Consumers : /\ consumer[c].at = "idle" /\ consumer[c].obj = Nobody
                              /\ consumer[c].out = <<>> /\ ~consumer[c].quiet
                              /\ consumer[c].stale = {}
      /\ consumer \in [Consumers -> ConsumerState]
  <2>1. <<>> \in Seq(Nat) /\ 0 \in 0 .. MaxLen
    BY SegmentNames
  <2>2. /\ NewConsumer \in ConsumerState /\ NewConsumer.at = "idle" /\ NewConsumer.obj = Nobody
        /\ NewConsumer.out = <<>> /\ ~NewConsumer.quiet /\ NewConsumer.stale = {}
    BY <2>1 DEF NewConsumer, ConsumerState
  <2> QED
    BY <2>2 DEF SegmentInit
<1>4. SegmentTypes
  BY <1>1, <1>2, <1>3 DEF SegmentTypes
<1>5. ProducersPlace /\ ConsumersPlace
  BY <1>2, <1>3 DEF ProducersPlace, ConsumersPlace, Writes, Serves, Ready, Shows, Away
<1>6. NotYet /\ Authors
  BY <1>1, <1>2, <1>3, SegmentNames DEF NotYet, Authors
<1>7. Characters
  BY <1>1, <1>3 DEF Characters
<1>8. SoleWriter /\ SoleServer /\ OwnTexts /\ Beyond /\ LastTexts
  BY <1>1, <1>2, <1>3 DEF SoleWriter, SoleServer, OwnTexts, Beyond, LastTexts, Writes, Serves
<1>9. Quiet /\ Readings /\ Ending
  BY <1>3 DEF Quiet, Readings, Ending
<1>10. Fits /\ Collecting /\ Heard /\ Cleared
  BY <1>1, <1>2, <1>3 DEF Fits, Collecting, Heard, Cleared, Shows, Ready
<1> QED
  BY <1>4, <1>5, <1>6, <1>7, <1>8, <1>9, <1>10 DEF SegmentInv

\* A step that changes nothing here.
LEMMA SegmentStutter ==
  ASSUME SegmentInv, UNCHANGED segVars
  PROVE  SegmentInv'
<1>0. pair' = pair /\ name' = name /\ seg' = seg /\ producer' = producer /\ consumer' = consumer
  BY DEF segVars
<1>1. SegmentTypes' /\ ProducersPlace' /\ ConsumersPlace'
  BY <1>0 DEF SegmentInv, SegmentTypes, ProducersPlace, ConsumersPlace, Writes, Serves, Ready,
              Shows, Served
<1>2. NotYet' /\ Authors' /\ Characters' /\ SoleWriter' /\ SoleServer'
  BY <1>0 DEF SegmentInv, NotYet, Unborn, Authors, Characters, Character, SoleWriter,
              SoleServer, Writes, Serves, Served
<1>3. OwnTexts' /\ Beyond' /\ LastTexts' /\ Quiet' /\ Readings'
  BY <1>0 DEF SegmentInv, OwnTexts, OwnText, Beyond, LastTexts, LastText, Quiet, Readings,
              Reads, Writes, Shows, Served
<1>4. Fits' /\ Collecting' /\ Heard' /\ Cleared' /\ Ending'
  BY <1>0 DEF SegmentInv, Fits, Collecting, Collected, Heard, Cleared, Ending, Ready, Shows,
              Served
<1> QED
  BY <1>1, <1>2, <1>3, <1>4 DEF SegmentInv

\* Every step of a producer keeps the invariant.
LEMMA ProducerStep ==
  ASSUME SegmentInv, NEW p \in Producers,
         PosixWriter(p) \/ SysvWriter(p) \/ PosixClient(p) \/ SysvClient(p)
  PROVE  SegmentInv'
<1>1. CASE PosixWriter(p)
  BY <1>1, WriterOpenStep, TruncateStep, CopyStep DEF PosixWriter
<1>2. CASE SysvWriter(p)
  BY <1>2, WriterGetStep, CopyStep DEF SysvWriter
<1>3. CASE PosixClient(p)
  BY <1>3, ClientOpenStep, ClientAskStep, CopyStep DEF PosixClient, Served
<1>4. CASE SysvClient(p)
  BY <1>4, ClientOpenStep, ClientAskStep, CopyStep DEF SysvClient, Served
<1> QED
  BY <1>1, <1>2, <1>3, <1>4

\* Every step of a consumer, its death included, keeps the invariant.
LEMMA ConsumerStep ==
  ASSUME SegmentInv, NEW c \in Consumers,
         PosixReader(c) \/ SysvReader(c) \/ PosixServer(c) \/ SysvServer(c) \/ Die(c)
  PROVE  SegmentInv'
<1>1. ASSUME ReaderMap(c)
      PROVE  SegmentInv'
  BY <1>1, CFailsStep, MapStep DEF ReaderMap
<1>2. CASE PosixReader(c)
  BY <1>1, <1>2, ReaderOpenStep, ReadStep, RemoveStep DEF PosixReader, Served
<1>3. CASE SysvReader(c)
  BY <1>1, <1>3, ReaderOpenStep, ReadStep, RemoveStep DEF SysvReader, Served
<1>4. CASE PosixServer(c)
  BY <1>4, ServerOpenStep, SizeStep, PollStep, ReadStep, RemoveStep DEF PosixServer
<1>5. CASE SysvServer(c)
  BY <1>5, ServerGetStep, ClearStep, PollStep, ReadStep, RemoveStep DEF SysvServer
<1>6. CASE Die(c)
  BY <1>6, CFailsStep DEF Die
<1> QED
  BY <1>2, <1>3, <1>4, <1>5, <1>6

LEMMA SegmentStep == SegmentInv /\ [SegmentNext]_segVars => SegmentInv'
  BY ProducerStep, ConsumerStep, SegmentStutter DEF SegmentNext

\* What a reader that meets no writer has printed.
LEMMA QuietText == SegmentInv => WholeText
<1> SUFFICES ASSUME SegmentInv, NEW c \in Consumers, ~Served, Printed(c), consumer[c].quiet,
                    seg[consumer[c].obj].last # Nobody
             PROVE  LET p == seg[consumer[c].obj].last IN
                    /\ Len(consumer[c].out) >= producer[p].len
                    /\ Text(c, producer[p].len) = Run(p, producer[p].len)
                    /\ \/ Posix /\ seg[consumer[c].obj].mixed
                       \/ Len(consumer[c].out) <= producer[p].len + IF Posix THEN 1 ELSE 0
  BY DEF WholeText
<1> DEFINE o == consumer[c].obj
           p == seg[o].last
           m == producer[p].len
           out == consumer[c].out
           n == Len(out)
<1>1. /\ o \in Process /\ p \in Producers /\ p # 0 /\ Reads(c) /\ LastText(o)
      /\ consumer[c].at = "remove"
  <2>1. o \in Process /\ Reads(c) /\ consumer[c].at = "remove"
    BY Whereabouts DEF SegmentInv, Readings, Printed
  <2> QED
    BY <2>1, Shapes, SegmentNames DEF SegmentInv, LastTexts
<1>2. /\ m \in Nat /\ m <= MaxLen /\ MaxLen \in Nat /\ n \in Nat /\ out \in Seq(Nat)
      /\ Page = 1 .. MaxLen + 1 /\ seg[o].size \in Nat
  <2>1. m \in 0 .. MaxLen /\ n \in Nat /\ out \in Seq(Nat) /\ seg[o].size \in Nat
    BY <1>1, Shapes DEF SegmentInv
  <2> HIDE DEF m, n, out, o
  <2> QED
    BY <2>1, SegmentNames
<1>3. /\ \A i \in 1 .. m : seg[o].cell[i] = p
      /\ pair = "sysv_1" => seg[o].cell[m + 1] = 0 /\ m < seg[o].size
      /\ pair = "posix_1" /\ ~seg[o].mixed => seg[o].size = m + 1
  BY <1>1 DEF LastText
<1>4. /\ \A i \in 1 .. n : i \in Page /\ out[i] = seg[o].cell[i]
      /\ n + 1 \notin Page \/ seg[o].cell[n + 1] = 0 \/ (pair = "sysv_1" /\ n + 1 > seg[o].size)
  BY <1>1 DEF Reads
<1>5. \A i \in 1 .. n : out[i] # 0
  BY SegmentNames DEF SegmentInv, Characters, Character
<1>6. pair = "posix_1" /\ ~seg[o].mixed => \A i \in Page : i > m + 1 => seg[o].cell[i] = 0
  BY <1>1, <1>3 DEF SegmentInv, Beyond
<1>7. pair \in {"posix_1", "sysv_1"} /\ (Posix <=> pair = "posix_1")
  BY DEF SegmentInv, SegmentTypes, Pairs, Served, Posix
<1> HIDE DEF o, p, m, out, n
<1>8. n >= m
  <2> SUFFICES ASSUME n < m PROVE FALSE
    BY <1>2
  <2>1. n + 1 \in 1 .. m /\ n + 1 \in Page /\ n + 1 <= m
    BY <1>2
  <2>2. seg[o].cell[n + 1] = p
    BY <1>3, <2>1
  <2> QED
    BY <1>1, <1>2, <1>3, <1>4, <2>1, <2>2
<1>9. SubSeq(out, 1, m) = [i \in 1 .. m |-> p]
  <2>1. \A i \in 1 .. m : out[i] = p
    BY <1>2, <1>3, <1>4, <1>8
  <2>2. SubSeq(out, 1, m) = [i \in 1 .. m |-> out[i]]
    BY <1>2, <1>8 DEF n
  <2> QED
    BY <2>1, <2>2
<1>10. (Posix /\ seg[o].mixed) \/ n <= m + IF Posix THEN 1 ELSE 0
  <2>1. CASE pair = "sysv_1"
    <3>1. n < m + 1
      BY <1>2, <1>3, <1>4, <1>5, <2>1
    <3> QED
      BY <1>2, <1>7, <2>1, <3>1
  <2>2. CASE pair = "posix_1" /\ ~seg[o].mixed
    <3>1. n < m + 2
      <4> SUFFICES ASSUME n >= m + 2 PROVE FALSE
        BY <1>2
      <4>1. m + 2 \in 1 .. n /\ m + 2 > m + 1
        BY <1>2
      <4> QED
        BY <1>4, <1>5, <1>6, <2>2, <4>1
    <3> QED
      BY <1>2, <1>7, <2>2, <3>1
  <2> QED
    BY <1>7, <2>1, <2>2
<1> QED
  BY <1>8, <1>9, <1>10 DEF Text, Run, o, p, m, out, n

\* What a server that hears of one client has printed.
LEMMA OneLine == SegmentInv => PrintsAPrefix
<1> SUFFICES ASSUME SegmentInv, NEW c \in Consumers, NEW p \in Producers, Served, Printed(c),
                    consumer[c].alone, seg[consumer[c].obj].by = {p}, p \notin consumer[c].early,
                    seg[consumer[c].obj].size = consumer[c].len + 1
             PROVE  LET n == Len(consumer[c].out) IN
                    /\ n \in 1 .. producer[p].len /\ consumer[c].out = Run(p, n)
                    /\ consumer[c].quiet /\ producer[p].at = "done" => n = producer[p].len
  BY DEF PrintsAPrefix
<1> DEFINE o == consumer[c].obj
           m == producer[p].len
           out == consumer[c].out
           n == Len(out)
<1>1. /\ Collected(c) /\ n \in Nat /\ out \in Seq(Nat) /\ m \in Nat /\ 1 .. m \subseteq Page
      /\ p # 0
  <2>1. Collected(c)
    BY DEF SegmentInv, Collecting, Ready, Printed
  <2> QED
    BY <2>1, Shapes, SegmentNames DEF SegmentInv
<1>2. \A i \in 1 .. n : out[i] = p
  BY <1>1 DEF Collected
<1>3. \A i \in 1 .. n : i <= m
  BY <1>2 DEF SegmentInv, Characters, Character
<1>4. n >= 1
  BY DEF SegmentInv, Heard, Shows, Printed
<1>5. consumer[c].quiet =>
        n + 1 \notin Page \/ seg[o].cell[n + 1] = 0
  BY DEF SegmentInv, Readings, Reads, Printed, Served
<1>6. producer[p].at = "done" => \A i \in 1 .. m : seg[o].cell[i] = p
  BY <1>1 DEF Collected
<1> HIDE DEF o, m, out, n
<1>7. n <= m
  BY <1>1, <1>3, <1>4
<1>8. out = [i \in 1 .. n |-> p]
  BY <1>1, <1>2 DEF n
<1>9. ASSUME consumer[c].quiet, producer[p].at = "done"
      PROVE  n = m
  <2> SUFFICES ASSUME n < m PROVE FALSE
    BY <1>1, <1>7
  <2>1. n + 1 \in 1 .. m
    BY <1>1
  <2> QED
    BY <1>1, <1>5, <1>6, <1>9, <2>1
<1> QED
  BY <1>1, <1>4, <1>7, <1>8, <1>9 DEF Run, o, m, out, n

\* What a server has not printed.
LEMMA NothingOld == SegmentInv => NoStaleText
<1> SUFFICES ASSUME SegmentInv, NEW c \in Consumers, Served, Printed(c),
                    consumer[c].quiet \/ seg[consumer[c].obj].size = consumer[c].len + 1,
                    NEW i \in 1 .. Len(consumer[c].out)
             PROVE  consumer[c].out[i] \notin consumer[c].stale
  BY DEF NoStaleText
<1>1. Len(consumer[c].out) \in Nat /\ consumer[c].len \in Nat
  BY Shapes, SegmentNames DEF SegmentInv
<1>2. consumer[c].quiet => Len(consumer[c].out) <= consumer[c].len
  BY DEF SegmentInv, Ending
<1>3. Len(consumer[c].out) <= seg[consumer[c].obj].size
  BY DEF SegmentInv, Fits, Shows, Printed
<1>4. i <= consumer[c].len + 1
  BY <1>1, <1>2, <1>3
<1> QED
  BY <1>4 DEF SegmentInv, Cleared, Ready, Printed

\* The invariant of the segments holds in every reachable state.
THEOREM SegmentInvariance == SegmentSpec => []SegmentInv
BY SegmentStart, SegmentStep, PTL DEF SegmentSpec

\* A reader that meets no writer prints the whole of the last text: with System V exactly
\* that, with POSIX at most one byte of an older text after it unless two writers have met.
THEOREM TextIsWhole == SegmentSpec => []WholeText
BY SegmentInvariance, QuietText, PTL

\* A server that is alone and hears of one client prints a prefix of its line, and all
\* of it when the copy was over, however memcpy is scheduled against the poll.
THEOREM PrefixIsPrinted == SegmentSpec => []PrintsAPrefix
BY SegmentInvariance, OneLine, PTL

\* A server prints no character of a line that had been left to a predecessor.
THEOREM NothingStale == SegmentSpec => []NoStaleText
BY SegmentInvariance, NothingOld, PTL

-----------------------------------------------------------------------------
(***************************************************************************)
(* The session that runs one or the other.                                 *)
(***************************************************************************)

\* A step of a session is a step of one of the two parts and leaves the other as it is.
LEMMA SessionStep ==
  [SessionNext]_allVars => [Next]_vars /\ [SegmentNext]_segVars
BY DEF SessionNext, allVars, vars, segVars

\* All that is said of the two parts holds of every session.
THEOREM SessionSafety ==
  SessionSpec => []( /\ Exclusive /\ ExactCount /\ NoLeftovers
                     /\ WholeText /\ PrintsAPrefix /\ NoStaleText )
<1>1. SessionInit => IInv /\ SegmentInv
  BY InitInv, SegmentStart DEF SessionInit
<1>2. IInv /\ SegmentInv /\ [SessionNext]_allVars => IInv' /\ SegmentInv'
  BY SessionStep, IncrProgStep, SegmentStep
<1>3. IInv /\ SegmentInv => /\ Exclusive /\ ExactCount /\ NoLeftovers
                            /\ WholeText /\ PrintsAPrefix /\ NoStaleText
  <2>1. IInv => ExactCount
    BY DEF IInv
  <2> QED
    BY <2>1, TokenExcludes, NamesAreGone, QuietText, OneLine, NothingOld
<1> QED
  BY <1>1, <1>2, <1>3, PTL DEF SessionSpec

=============================================================================
