------------------------------ MODULE IncrProg ------------------------------
(***************************************************************************)
(* The increment programs of LAB_16: incr_prog_posix.c, over a named       *)
(* shared memory object and a named semaphore, and incr_prog.c, over a     *)
(* System V segment and semaphore set.  A launch creates the two objects,  *)
(* forks Procs children that count to Cap together, waits for them, prints *)
(* the counter and removes the objects.  Several launches use the same     *)
(* file name, one after the other or at the same time.                     *)
(*                                                                         *)
(* An object is known by the launch that created it.  The POSIX children   *)
(* find the objects by name, the System V ones by the identifiers they     *)
(* inherit.                                                                *)
(***************************************************************************)
EXTENDS Integers, FiniteSets

CONSTANTS Apis,        \* the programs started, among "posix" and "sysv"
          Launches,    \* how many times the program is started
          Procs,       \* proc_num: children of a launch
          Cap,         \* incr_num: the value the children count to
          MaxFaults,   \* failing calls, killed children and killed parents
          MaxMet,      \* launches begin side by side only while fewer than MaxMet have met
          None

ASSUME ApisAssumption == Apis \subseteq {"posix", "sysv"}
ASSUME SizesAssumption == Launches \in Nat \ {0} /\ Procs \in Nat \ {0} /\ Cap \in Nat \ {0}
ASSUME FaultsAssumption == MaxFaults \in Nat /\ MaxMet \in Nat
ASSUME NoneAssumption == None \notin Nat

Launch == 1 .. Launches
Child == 1 .. Procs

VARIABLES
  api,        \* which of the two programs is run
  shm_name,   \* the segment the name (the key) stands for, or None
  sem_name,   \* the semaphore the name (the key) stands for, or None
  memseg,     \* the segments: mapped size set or zero, counter and cap
  semval,     \* the semaphores
  main,       \* the parents
  child,      \* the children of each launch
  met,        \* the launches that ran at the same time as another
  faults

vars == <<api, shm_name, sem_name, memseg, semval, main, child, met, faults>>

Zeros == [sized |-> TRUE, val |-> 0, cap |-> 0]
Empty == [Zeros EXCEPT !.sized = FALSE]

\* What a parent and a child keep in local variables, and where they are.
NotStarted == [at |-> "idle", failed |-> FALSE, shmid |-> None, seg |-> None,
               sem |-> None, named |-> FALSE, i |-> 0, printed |-> None]
NotForked == [at |-> "none", seg |-> None, sem |-> None, num |-> 0]

Init ==
  /\ api \in Apis
  /\ shm_name = None /\ sem_name = None
  /\ memseg = [o \in Launch |-> Empty]
  /\ semval = [o \in Launch |-> 0]
  /\ main = [l \in Launch |-> NotStarted]
  /\ child = [l \in Launch |-> [c \in Child |-> NotForked]]
  /\ met = {}
  /\ faults = 0

Running(l) == main[l].at \notin {"idle", "done", "crashed"}
Over == {"done", "failed", "killed"}
Living(l) == {c \in Child : child[l][c].at \notin Over \cup {"none"}}
Busy(l) == Running(l) \/ Living(l) # {}
Critical == {"load", "store", "test"}

-----------------------------------------------------------------------------
(***************************************************************************)
(* The parent, up to the children.                                         *)
(***************************************************************************)
Moves(l, to) == main' = [main EXCEPT ![l] = to]
Goes(l, at) == Moves(l, [main[l] EXCEPT !.at = at])

\* `goto end' after a call that failed.
Fails(l) == Moves(l, [main[l] EXCEPT !.at = "end", !.failed = TRUE, !.i = 0])

\* A launch begins; launches are numbered in the order in which they begin.
Start(l) ==
  /\ main[l].at = "idle"
  /\ \A k \in 1 .. l - 1 : main[k].at # "idle"
  /\ Goes(l, "shm")
  /\ LET rivals == {k \in Launch \ {l} : Running(k)} IN
       /\ rivals # {} => Cardinality(met) < MaxMet
       /\ met' = met \cup {k \in Launch : Busy(k)} \cup (IF rivals = {} THEN {} ELSE {l})
  /\ UNCHANGED <<api, shm_name, sem_name, memseg, semval, child, faults>>

\* shm_open with O_CREAT and O_TRUNC: an object that exists is taken over and
\* loses its contents, whoever has it mapped.
ShmOpen(l) ==
  /\ api = "posix" /\ main[l].at = "shm"
  /\ LET o == IF shm_name = None THEN l ELSE shm_name IN
       /\ shm_name' = o
       /\ memseg' = [memseg EXCEPT ![o] = Empty]
       /\ Moves(l, [main[l] EXCEPT !.at = "size", !.shmid = o])
  /\ UNCHANGED <<api, sem_name, semval, child, met, faults>>

Ftruncate(l) ==
  /\ main[l].at = "size"
  /\ LET o == main[l].shmid IN
       memseg' = [memseg EXCEPT ![o] = IF @.sized THEN @ ELSE Zeros]
  /\ Goes(l, "map")
  /\ UNCHANGED <<api, shm_name, sem_name, semval, child, met, faults>>

\* shmget with IPC_CREAT and IPC_EXCL: a key in use is refused.
ShmGet(l) ==
  /\ api = "sysv" /\ main[l].at = "shm"
  /\ \/ shm_name # None /\ Fails(l) /\ UNCHANGED <<shm_name, memseg>>
     \/ /\ shm_name = None
        /\ shm_name' = l
        /\ memseg' = [memseg EXCEPT ![l] = Zeros]
        /\ Moves(l, [main[l] EXCEPT !.at = "sem", !.shmid = l])
  /\ UNCHANGED <<api, sem_name, semval, child, met, faults>>

\* The segment is attached, the counter cleared and the cap stored.  A mapped
\* object another launch has truncated meanwhile kills the parent with SIGBUS.
Attach(l) ==
  /\ main[l].at = "map"
  /\ LET o == main[l].shmid IN
       \/ /\ memseg[o].sized
          /\ memseg' = [memseg EXCEPT ![o] = [@ EXCEPT !.val = 0, !.cap = Cap]]
          /\ Moves(l, [main[l] EXCEPT !.at = IF api = "posix" THEN "sem" ELSE "setval",
                                      !.seg = o])
       \/ ~memseg[o].sized /\ Goes(l, "crashed") /\ UNCHANGED memseg
  /\ UNCHANGED <<api, shm_name, sem_name, semval, child, met, faults>>

\* sem_open with O_EXCL and value 1; semget with IPC_EXCL, value 0 until SETVAL.
SemCreate(l) ==
  /\ main[l].at = "sem"
  /\ \/ /\ sem_name # None
        /\ Moves(l, [main[l] EXCEPT !.at = "end", !.failed = TRUE, !.named = TRUE])
        /\ UNCHANGED <<sem_name, semval>>
     \/ /\ sem_name = None
        /\ sem_name' = l
        /\ semval' = [semval EXCEPT ![l] = IF api = "posix" THEN 1 ELSE 0]
        /\ Moves(l, [main[l] EXCEPT !.at = IF api = "posix" THEN "fork" ELSE "map",
                                    !.sem = l, !.named = TRUE])
  /\ UNCHANGED <<api, shm_name, memseg, child, met, faults>>

SetVal(l) ==
  /\ main[l].at = "setval"
  /\ semval' = [semval EXCEPT ![main[l].sem] = 1]
  /\ Goes(l, "fork")
  /\ UNCHANGED <<api, shm_name, sem_name, memseg, child, met, faults>>

\* Mutant: the semaphore is initialised again for every child.
ForkResetsSemaphore(l) ==
  /\ main[l].at = "fork" /\ main[l].i < Procs
  /\ LET c == main[l].i + 1 IN
       /\ child' = [child EXCEPT ![l][c].at = "open"]
       /\ semval' = [semval EXCEPT ![main[l].sem] = 1]
       /\ Moves(l, IF c = Procs THEN [main[l] EXCEPT !.at = "end", !.i = 0]
                                ELSE [main[l] EXCEPT !.i = c])
  /\ UNCHANGED <<api, shm_name, sem_name, memseg, met, faults>>

Fork(l) ==
  /\ main[l].at = "fork" /\ main[l].i < Procs
  /\ LET c == main[l].i + 1 IN
       /\ child' = [child EXCEPT ![l][c].at = "open"]
       /\ Moves(l, IF c = Procs THEN [main[l] EXCEPT !.at = "end", !.i = 0]
                                ELSE [main[l] EXCEPT !.i = c])
  /\ UNCHANGED <<api, shm_name, sem_name, memseg, semval, met, faults>>

\* Any of the calls so far fails.
CallFails(l) ==
  /\ faults < MaxFaults
  /\ main[l].at \in {"shm", "size", "map", "sem", "setval", "fork"}
  /\ Moves(l, [main[l] EXCEPT !.at = "end", !.failed = TRUE, !.i = 0,
                              !.named = @ \/ main[l].at = "sem"])
  /\ faults' = faults + 1
  /\ UNCHANGED <<api, shm_name, sem_name, memseg, semval, child, met>>

-----------------------------------------------------------------------------
(***************************************************************************)
(* The children: incr_subroutine.                                          *)
(***************************************************************************)
Holds(l, c) == child[l][c].at \in Critical

\* Mutant: semop without SEM_UNDO.
UndoNothing(l, cs) == semval

\* The semaphores after the children cs of l have died: System V gives back
\* what a dead child holds (SEM_UNDO), POSIX does not.
Undo(l, cs) ==
  [o \in Launch |-> semval[o] + IF api = "sysv"
       THEN Cardinality({c \in cs : Holds(l, c) /\ child[l][c].sem = o}) ELSE 0]

Dies(l, cs) ==
  /\ child' = [child EXCEPT ![l] = [c \in Child |->
                  IF c \in cs THEN [@[c] EXCEPT !.at = "killed"] ELSE @[c]]]
  /\ semval' = Undo(l, cs)

Steps(l, c, to) == child' = [child EXCEPT ![l][c] = to]

\* shm_open and mmap by name; shmat by the identifier of the parent.
ChildAttach(l, c) ==
  /\ child[l][c].at = "open"
  /\ Steps(l, c,
       IF api = "sysv"
       THEN [child[l][c] EXCEPT !.at = "wait", !.seg = main[l].shmid, !.sem = main[l].sem]
       ELSE IF shm_name = None THEN [child[l][c] EXCEPT !.at = "failed"]
       ELSE [child[l][c] EXCEPT !.at = "sem", !.seg = shm_name])
  /\ UNCHANGED <<api, shm_name, sem_name, memseg, semval, main, met, faults>>

ChildSemOpen(l, c) ==
  /\ child[l][c].at = "sem"
  /\ Steps(l, c, IF sem_name = None THEN [child[l][c] EXCEPT !.at = "failed"]
                 ELSE [child[l][c] EXCEPT !.at = "wait", !.sem = sem_name])
  /\ UNCHANGED <<api, shm_name, sem_name, memseg, semval, main, met, faults>>

SemWait(l, c) ==
  /\ child[l][c].at = "wait" /\ semval[child[l][c].sem] > 0
  /\ semval' = [semval EXCEPT ![child[l][c].sem] = @ - 1]
  /\ Steps(l, c, [child[l][c] EXCEPT !.at = "load"])
  /\ UNCHANGED <<api, shm_name, sem_name, memseg, main, met, faults>>

\* Mutant: <= instead of <.
LoadUpToCap(l, c) ==
  LET m == memseg[child[l][c].seg] IN
  /\ child[l][c].at = "load" /\ m.sized
  /\ Steps(l, c, IF m.val <= m.cap THEN [child[l][c] EXCEPT !.at = "store", !.num = m.val]
                                   ELSE [child[l][c] EXCEPT !.at = "test"])
  /\ UNCHANGED <<api, shm_name, sem_name, memseg, semval, main, met, faults>>

\* incr_val[INCR_IDX] < incr_val[CAP_IDX], and the read of the increment.
Load(l, c) ==
  LET m == memseg[child[l][c].seg] IN
  /\ child[l][c].at = "load" /\ m.sized
  /\ Steps(l, c, IF m.val < m.cap THEN [child[l][c] EXCEPT !.at = "store", !.num = m.val]
                                  ELSE [child[l][c] EXCEPT !.at = "test"])
  /\ UNCHANGED <<api, shm_name, sem_name, memseg, semval, main, met, faults>>

\* The write of incr_val[INCR_IDX]++.
Store(l, c) ==
  LET o == child[l][c].seg IN
  /\ child[l][c].at = "store" /\ memseg[o].sized
  /\ memseg' = [memseg EXCEPT ![o].val = child[l][c].num + 1]
  /\ Steps(l, c, [child[l][c] EXCEPT !.at = "test", !.num = 0])
  /\ UNCHANGED <<api, shm_name, sem_name, semval, main, met, faults>>

\* The second test of the counter, the release, and the exit or the next turn.
TestAndPost(l, c) ==
  LET m == memseg[child[l][c].seg] IN
  /\ child[l][c].at = "test" /\ m.sized
  /\ semval' = [semval EXCEPT ![child[l][c].sem] = @ + 1]
  /\ Steps(l, c, [child[l][c] EXCEPT !.at = IF m.val >= m.cap THEN "done" ELSE "wait"])
  /\ UNCHANGED <<api, shm_name, sem_name, memseg, main, met, faults>>

\* The segment has been truncated under the child: SIGBUS, semaphore in hand.
Sigbus(l, c) ==
  /\ Holds(l, c) /\ ~memseg[child[l][c].seg].sized
  /\ Dies(l, {c})
  /\ UNCHANGED <<api, shm_name, sem_name, memseg, main, met, faults>>

\* A child is killed from outside.
KillChild(l, c) ==
  /\ faults < MaxFaults /\ c \in Living(l)
  /\ Dies(l, {c})
  /\ faults' = faults + 1
  /\ UNCHANGED <<api, shm_name, sem_name, memseg, main, met>>

\* The parent is killed, alone or with its children (an interrupt typed at the
\* terminal reaches them all).
Crash(l) ==
  /\ faults < MaxFaults /\ Running(l)
  /\ Goes(l, "crashed")
  /\ \E cs \in {{}, Living(l)} : Dies(l, cs)
  /\ faults' = faults + 1
  /\ UNCHANGED <<api, shm_name, sem_name, memseg, met>>

-----------------------------------------------------------------------------
(***************************************************************************)
(* The end of a launch.                                                    *)
(***************************************************************************)

\* One turn of the loop over pid_list: a failed launch kills before it waits.
Reap(l) ==
  LET c == main[l].i + 1 IN
  /\ main[l].at = "end" /\ main[l].i < Procs
  /\ \/ /\ main[l].failed /\ c \in Living(l)
        /\ Dies(l, {c})
     \/ /\ child[l][c].at \in Over \cup {"none"}
        /\ UNCHANGED <<child, semval>>
  /\ Moves(l, [main[l] EXCEPT !.i = c])
  /\ UNCHANGED <<api, shm_name, sem_name, memseg, met, faults>>

\* The counter is printed if the segment was mapped.
PrintVal(l) ==
  /\ main[l].at = "end" /\ main[l].i = Procs
  /\ LET o == main[l].seg IN
       \/ o = None /\ Goes(l, "unlink")
       \/ /\ o # None /\ memseg[o].sized
          /\ Moves(l, [main[l] EXCEPT !.at = "unlink", !.printed = memseg[o].val])
       \/ o # None /\ ~memseg[o].sized /\ Goes(l, "crashed")
  /\ UNCHANGED <<api, shm_name, sem_name, memseg, semval, child, met, faults>>

\* shm_unlink of whatever has the name; IPC_RMID of the segment it created.
RemoveShm(l) ==
  /\ main[l].at = "unlink"
  /\ shm_name' = IF api = "posix" \/ shm_name = main[l].shmid THEN None ELSE shm_name
  /\ Goes(l, "sem_unlink")
  /\ UNCHANGED <<api, sem_name, memseg, semval, child, met, faults>>

\* Mutant: only a semaphore of its own is unlinked.
RemovesOwnSem(l) == sem_name = main[l].sem

\* sem_unlink once the name has been formed; IPC_RMID of the set it created.
RemovesSem(l) ==
  IF api = "posix" THEN main[l].named ELSE sem_name = main[l].sem

RemoveSem(l) ==
  /\ main[l].at = "sem_unlink"
  /\ sem_name' = IF RemovesSem(l) THEN None ELSE sem_name
  /\ Goes(l, "done")
  /\ UNCHANGED <<api, shm_name, memseg, semval, child, met, faults>>

Parent(l) ==
  \/ ShmOpen(l) \/ Ftruncate(l) \/ ShmGet(l) \/ Attach(l) \/ SemCreate(l)
  \/ SetVal(l) \/ Fork(l) \/ Reap(l) \/ PrintVal(l) \/ RemoveShm(l) \/ RemoveSem(l)

IncrSubroutine(l, c) ==
  \/ ChildAttach(l, c) \/ ChildSemOpen(l, c) \/ SemWait(l, c)
  \/ Load(l, c) \/ Store(l, c) \/ TestAndPost(l, c) \/ Sigbus(l, c)

\* A launch of either program.
Main(l) == Start(l) \/ Parent(l)

Next ==
  \E l \in Launch :
    \/ Main(l) \/ CallFails(l) \/ Crash(l)
    \/ \E c \in Child : IncrSubroutine(l, c) \/ KillChild(l, c)

\* The scheduler runs every process that can run; a waiting child is passed over
\* only while others count, which they do at most Cap times.
Fairness ==
  \A l \in Launch :
    /\ WF_vars(Parent(l))
    /\ \A c \in Child : WF_vars(IncrSubroutine(l, c))

Spec == Init /\ [][Next]_vars /\ Fairness

-----------------------------------------------------------------------------
(***************************************************************************)
(* Properties.                                                             *)
(***************************************************************************)
\* A launch whose names no other launch can have touched.
Undisturbed(l) == api = "sysv" \/ l \notin met

\* The semaphore protects the counter: no two children of a launch are between
\* sem_wait (semop) and sem_post, with children dying at any point.  A System V
\* launch has this whoever else is started, a POSIX one when it is alone.  And no
\* semaphore ever exceeds the one token it was created with, whatever is undone.
Exclusive ==
  /\ \A o \in Launch : semval[o] \in 0 .. 1
  /\ \A l \in Launch : Undisturbed(l) =>
       \A c, d \in Child : Holds(l, c) /\ Holds(l, d) => c = d

\* No child of another launch has the segment of l.  (The orphans of a killed
\* launch may: shm_open takes their object over when its name is still there, and
\* they go on counting in it under the semaphore of their own launch.)
Unshared(l) ==
  \A k \in Launch \ {l}, c \in Child : child[k][c].seg # main[l].seg

\* The counter the parent prints is exactly the cap as soon as one child has
\* left by its own decision, although the parent ignores how the children
\* ended and some of them may have been killed in the middle of an increment.
ExactCount ==
  \A l \in Launch :
    /\ Undisturbed(l) /\ Unshared(l) /\ main[l].printed # None
    /\ \E c \in Child : child[l][c].at = "done"
    => main[l].printed = Cap

\* A launch that ran alone has ended and no other has begun since.
AloneAndOver(l) ==
  /\ main[l].at = "done" /\ l \notin met
  /\ \A k \in Launch : k > l => main[k].at = "idle"

\* What a killed launch leaves behind.  System V: a key stays in use only while
\* its creator runs or after its creator was killed.  POSIX: a launch that gets
\* as far as the semaphore frees both names when it ends, those of a killed
\* predecessor included, so the next launch after it starts from nothing.
NoLeftovers ==
  /\ api = "sysv" =>
       \A o \in {shm_name, sem_name} \ {None} : Running(o) \/ main[o].at = "crashed"
  /\ api = "posix" =>
       \A l \in Launch :
         AloneAndOver(l) /\ main[l].named
           => shm_name = None /\ sem_name = None

\* A child waits for a semaphore whose holder is dead.
HolderLost(l) ==
  \E c \in Living(l) :
    /\ child[l][c].at = "wait" /\ semval[child[l][c].sem] = 0
    /\ \A k \in Launch, d \in Child :
         Holds(k, d) => child[k][d].sem # child[l][c].sem

\* Every launch ends.  With System V nothing prevents it, killed children
\* included: that is what SEM_UNDO is for.  With POSIX a child that dies
\* between sem_wait and sem_post is the only thing that can prevent it.
Termination ==
  \A l \in Launch : Running(l) ~> ~Running(l) \/ (api = "posix" /\ HolderLost(l))
=============================================================================
