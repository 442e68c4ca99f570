--------------------------- MODULE SysvQueueProofs ---------------------------
(***************************************************************************)
(* Proofs about SysvQueue for any number of senders and receivers, any     *)
(* size of the queue and of the files, and any message types of task 3.    *)
(***************************************************************************)
EXTENDS SysvQueue, FiniteSetTheorems, SequenceTheorems, TLAPS

Chunk == [mtype : Nat, size : Nat]
Message == [from : Senders, mtype : Nat, size : Nat]

\* The shape of the state.
TypeOK ==
    /\ program \in {"queues_1", "queues_2", "queues_3"}
    /\ plan \in [Senders -> Seq(Chunk)]
    /\ wanted \in [Receivers -> Int]
    /\ key \in Ids \cup {None} /\ created \in Nat /\ removed \in SUBSET Ids
    /\ queue \in [Ids -> Seq(Message)]
    /\ pc \in [Procs -> {"start", "send", "stat", "receive", "restat", "remove", "done"}]
    /\ qid \in [Procs -> Ids]
    /\ read_num \in [Receivers -> Nat]
    /\ got \in Seq(Message)

Started == {p \in Procs : pc[p] # "start"}

\* Every queue was created by a process of its own, and the key has one of them.
Created == created <= Cardinality(Started) /\ (key # None => key < created)

\* Who looks for a message has a queue that has been created.
Places ==
    /\ \A s \in Senders : pc[s] \in {"start", "send", "done"}
    /\ \A r \in Receivers :
        /\ pc[r] # "send"
        /\ pc[r] = "start" => read_num[r] = 0
        /\ pc[r] \in {"stat", "receive"} => qid[r] < created

\* A message has come from a sender of this queue.
Origin ==
    /\ \A q \in Ids : \A i \in 1..Len(queue[q]) :
        pc[queue[q][i].from] # "start" /\ qid[queue[q][i].from] = q
    /\ \A k \in 1..Len(got) : pc[got[k].from] # "start"

\* A message of queue q has been read.
Read(q) == \E k \in 1..Len(got) : qid[got[k].from] = q

\* A receiver asks for the removal of a queue that it has read from, or that has been
\* removed already.
Removal ==
    /\ \A r \in Receivers :
        /\ read_num[r] > 0 => Read(qid[r])
        /\ pc[r] = "remove" => Read(qid[r]) \/ qid[r] \in removed
    /\ \A q \in removed : Read(q)

\* The types of a sender's messages grow, from what has been received of them through
\* what is in the queue to what is still to be sent.
Growing ==
    /\ \A s \in Senders : \A j \in 1..Len(plan[s]) :
        /\ \A i \in 1..j - 1 : plan[s][i].mtype < plan[s][j].mtype
        /\ \A q \in Ids : \A i \in 1..Len(queue[q]) :
            queue[q][i].from = s => queue[q][i].mtype < plan[s][j].mtype
        /\ \A k \in 1..Len(got) : got[k].from = s => got[k].mtype < plan[s][j].mtype
    /\ \A q \in Ids : \A j \in 1..Len(queue[q]) :
        /\ \A i \in 1..j - 1 :
            queue[q][i].from = queue[q][j].from => queue[q][i].mtype < queue[q][j].mtype
        /\ \A k \in 1..Len(got) :
            got[k].from = queue[q][j].from => got[k].mtype < queue[q][j].mtype

\* A receiver of task 2 takes the lowest type there is, and a sender of task 1 or 3
\* has one message.
Choice ==
    /\ program = "queues_2" => \A r \in Receivers : wanted[r] <= 0
    /\ program # "queues_2" =>
        /\ \A s \in Senders : Len(plan[s]) <= 1
        /\ \A q \in Ids : \A i \in 1..Len(queue[q]) :
            /\ plan[queue[q][i].from] = <<>>
            /\ \A j \in 1..i - 1 : queue[q][j].from # queue[q][i].from

\* The inductive invariant.
IInv == /\ TypeOK /\ Created /\ Places /\ Origin /\ Removal /\ Growing /\ Choice
        /\ ReceivedInOrder
-----------------------------------------------------------------------------
\* The operators on sequences and numbers that the model uses.
LEMMA SmallestOf ==
  ASSUME NEW T \in SUBSET Nat, T # {}
  PROVE  \E x \in T : \A y \in T : x <= y
<1> DEFINE R == OpToRel(<, Nat)
<1>1. IsWellFoundedOn(R, Nat)
  BY NatLessThanWellFounded
<1>2. PICK x \in T : \A y \in T : ~(<<y, x>> \in R)
  <2> HIDE DEF R
  <2> QED
    BY <1>1, WFMin
<1>3. \A y \in T : y < x => <<y, x>> \in R
  BY DEF OpToRel
<1> HIDE DEF R
<1>4. \A y \in T : ~(y < x) /\ y \in Nat /\ x \in Nat
  BY <1>2, <1>3
<1> QED
  BY <1>4

LEMMA RemoveAtProperties ==
  ASSUME NEW S, NEW s \in Seq(S), NEW i \in 1..Len(s)
  PROVE  /\ RemoveAt(s, i) \in Seq(S) /\ Len(RemoveAt(s, i)) = Len(s) - 1
         /\ \A j \in 1..Len(s) - 1 : RemoveAt(s, i)[j] = IF j < i THEN s[j] ELSE s[j + 1]
<1> DEFINE a == SubSeq(s, 1, i - 1)
           b == SubSeq(s, i + 1, Len(s))
<1>1. Len(s) \in Nat
  OBVIOUS
<1>2. a \in Seq(S) /\ Len(a) = i - 1 /\ \A j \in 1..i - 1 : a[j] = s[j]
  BY <1>1, SubSeqProperties
<1>3. b \in Seq(S) /\ Len(b) = Len(s) - i /\ \A j \in 1..Len(s) - i : b[j] = s[j + i]
  BY <1>1, SubSeqProperties
<1>4. RemoveAt(s, i) = a \o b
  BY DEF RemoveAt
<1> HIDE DEF a, b
<1>5. /\ a \o b \in Seq(S) /\ Len(a \o b) = Len(a) + Len(b)
      /\ \A j \in 1..Len(a) + Len(b) :
           (a \o b)[j] = IF j <= Len(a) THEN a[j] ELSE b[j - Len(a)]
  BY <1>2, <1>3, ConcatProperties
<1>6. RemoveAt(s, i) \in Seq(S) /\ Len(RemoveAt(s, i)) = Len(s) - 1
  BY <1>1, <1>2, <1>3, <1>4, <1>5
<1>7. ASSUME NEW j \in 1..Len(s) - 1
      PROVE  RemoveAt(s, i)[j] = IF j < i THEN s[j] ELSE s[j + 1]
  <2>1. j \in 1..Len(a) + Len(b) /\ (j <= Len(a) <=> j < i)
    BY <1>1, <1>2, <1>3
  <2>2. CASE j < i
    BY <1>2, <1>4, <1>5, <2>1, <2>2
  <2>3. CASE ~(j < i)
    <3>1. j - Len(a) \in 1..Len(s) - i /\ (j - Len(a)) + i = j + 1
      BY <1>1, <1>2, <2>3
    <3> QED
      BY <1>3, <1>4, <1>5, <2>1, <2>3, <3>1
  <2> QED
    BY <2>2, <2>3
<1> QED
  BY <1>6, <1>7

\* There is a foremost message among those msgrcv may choose from: the first of those
\* of the smallest type.
LEMMA ForemostProperties ==
  ASSUME TypeOK, NEW r \in Receivers, NEW q \in Ids, Matching(r, q) # {}
  PROVE  /\ Foremost(r, q) \in Matching(r, q)
         /\ \A j \in Matching(r, q) :
              \/ queue[q][Foremost(r, q)].mtype < queue[q][j].mtype
              \/ queue[q][Foremost(r, q)].mtype = queue[q][j].mtype /\ Foremost(r, q) <= j
<1> DEFINE M == Matching(r, q)
           Type(i) == queue[q][i].mtype
<1>1. M \in SUBSET Nat /\ \A i \in M : Type(i) \in Nat
  <2>1. queue[q] \in Seq(Message) /\ DOMAIN queue[q] = 1..Len(queue[q]) /\ Len(queue[q]) \in Nat
    BY DEF TypeOK
  <2>2. \A i \in 1..Len(queue[q]) : queue[q][i] \in Message
    BY <2>1, ElementOfSeq
  <2>3. \A x \in Message : x.mtype \in Nat
    BY DEF Message
  <2>4. M \in SUBSET (1..Len(queue[q]))
    BY <2>1 DEF Matching
  <2> HIDE DEF M
  <2> QED
    BY <2>1, <2>2, <2>3, <2>4
<1> HIDE DEF M, Type
<1>2. PICK t \in {Type(i) : i \in M} : \A u \in {Type(i) : i \in M} : t <= u
  <2>1. {Type(i) : i \in M} \in SUBSET Nat /\ {Type(i) : i \in M} # {}
    BY <1>1 DEF M
  <2> QED
    BY <2>1, SmallestOf
<1>3. PICK i \in {k \in M : Type(k) = t} : \A j \in {k \in M : Type(k) = t} : i <= j
  <2>1. {k \in M : Type(k) = t} \in SUBSET Nat /\ {k \in M : Type(k) = t} # {}
    BY <1>1, <1>2
  <2> QED
    BY <2>1, SmallestOf
<1>4. \A j \in M : Type(i) < Type(j) \/ (Type(i) = Type(j) /\ i <= j)
  BY <1>1, <1>2, <1>3
<1> QED
  BY <1>3, <1>4 DEF Foremost, M, Type

\* The types of what is in the queues and has been received.
LEMMA Shapes ==
  ASSUME TypeOK
  PROVE  /\ \A q \in Ids :
              /\ queue[q] \in Seq(Message) /\ Len(queue[q]) \in Nat
              /\ \A i \in 1..Len(queue[q]) :
                   queue[q][i] \in Message /\ queue[q][i].from \in Senders /\ queue[q][i].mtype \in Nat
         /\ got \in Seq(Message) /\ Len(got) \in Nat
         /\ \A k \in 1..Len(got) : got[k].from \in Senders /\ got[k].mtype \in Nat
         /\ \A s \in Senders : plan[s] \in Seq(Chunk) /\ Len(plan[s]) \in Nat
         /\ \A s \in Senders : \A i \in 1..Len(plan[s]) : plan[s][i].mtype \in Nat
         /\ Senders \subseteq Procs /\ Receivers \subseteq Procs /\ None \notin Ids
         /\ \A s \in Senders, r \in Receivers : s # r
<1>1. ASSUME NEW q \in Ids
      PROVE  /\ queue[q] \in Seq(Message) /\ Len(queue[q]) \in Nat
             /\ \A i \in 1..Len(queue[q]) :
                  queue[q][i] \in Message /\ queue[q][i].from \in Senders /\ queue[q][i].mtype \in Nat
  <2>1. queue[q] \in Seq(Message)
    BY DEF TypeOK
  <2>2. \A i \in 1..Len(queue[q]) : queue[q][i] \in Message
    BY <2>1, ElementOfSeq
  <2> QED
    BY <2>1, <2>2 DEF Message
<1>2. /\ got \in Seq(Message) /\ Len(got) \in Nat
      /\ \A k \in 1..Len(got) : got[k] \in Message
  BY ElementOfSeq DEF TypeOK
<1>3. \A s \in Senders : plan[s] \in Seq(Chunk) /\ Len(plan[s]) \in Nat
  BY DEF TypeOK
<1>4. \A s \in Senders : \A i \in 1..Len(plan[s]) : plan[s][i] \in Chunk
  BY <1>3, ElementOfSeq
<1> QED
  BY <1>1, <1>2, <1>3, <1>4, QueueAssumption DEF Procs, Message, Chunk

-----------------------------------------------------------------------------
\* What a step keeps that moves no message.
LEMMA QueuesKept ==
  ASSUME IInv, UNCHANGED <<program, plan, wanted, queue, got>>,
         \A s \in Senders : pc[s] # "start" => pc'[s] # "start" /\ qid'[s] = qid[s]
  PROVE  /\ (Origin /\ Growing /\ Choice /\ ReceivedInOrder)'
         /\ \A q \in Ids : Read(q) => Read(q)'
<1>0. TypeOK
  BY DEF IInv
<1>1. Origin'
  BY <1>0, Shapes DEF IInv, Origin
<1>2. Growing'
  BY DEF IInv, Growing
<1>3. Choice' /\ ReceivedInOrder'
  BY DEF IInv, Choice, ReceivedInOrder
<1>4. \A q \in Ids : Read(q) => Read(q)'
  BY <1>0, Shapes DEF IInv, Origin, Read
<1> QED
  BY <1>1, <1>2, <1>3, <1>4

\* A step of a process that only changes its place.
LEMMA PlaceStep ==
  ASSUME IInv, NEW p \in Procs, pc[p] # "start", NEW place \in {"receive", "restat", "remove", "done"},
         pc' = [pc EXCEPT ![p] = place],
         UNCHANGED <<program, plan, wanted, key, created, queue, removed, qid, read_num, got>>,
         p \in Senders => place = "done",
         place = "receive" => pc[p] \in {"stat", "receive"},
         place = "remove" => Read(qid[p]) \/ qid[p] \in removed
  PROVE  IInv'
<1>0. TypeOK
  BY DEF IInv
<1>1. pc'[p] = place /\ \A o \in Procs : o # p => pc'[o] = pc[o]
  BY <1>0 DEF TypeOK
<1>2. TypeOK'
  BY <1>0, <1>1 DEF TypeOK
<1>3. Created'
  <2>1. Started' = Started
    BY <1>1 DEF Started
  <2> QED
    BY <2>1 DEF IInv, Created
<1>4. Places'
  BY <1>0, <1>1, Shapes DEF IInv, Places
<1>5. /\ (Origin /\ Growing /\ Choice /\ ReceivedInOrder)'
      /\ \A q \in Ids : Read(q) => Read(q)'
  BY <1>0, <1>1, Shapes, QueuesKept
<1>6. Removal'
  <2>1. \A o \in Procs : qid[o] \in Ids
    BY <1>0 DEF TypeOK
  <2>2. removed \subseteq Ids
    BY <1>0 DEF TypeOK
  <2> QED
    BY <1>0, <1>1, <1>5, <2>1, <2>2, Shapes DEF IInv, Removal
<1> QED
  BY <1>2, <1>3, <1>4, <1>5, <1>6 DEF IInv

\* Tasks 1 and 2 remove the queue after a message, task 3 looks again first.
LEMMA AfterReceiveProperties ==
  ASSUME NEW r \in Receivers, NEW n
  PROVE  /\ AfterReceive(r, n) \in {"receive", "restat", "remove", "done"}
         /\ AfterReceive(r, n) = "remove" => n > 0
<1>1. CASE program = "queues_3"
  <2>1. AfterReceive(r, n) = "restat" \/ (turns[r] > 1 /\ AfterReceive(r, n) = "receive")
    BY <1>1 DEF AfterReceive
  <2> QED
    BY <2>1
<1>2. CASE program # "queues_3" /\ turns[r] > 1
  BY <1>2 DEF AfterReceive
<1>3. CASE program # "queues_3" /\ ~(turns[r] > 1)
  BY <1>3 DEF AfterReceive
<1> QED
  BY <1>1, <1>2, <1>3

\* The steps of a receiver that take no message.
LEMMA LocalStep ==
  ASSUME IInv, NEW r \in Receivers, Stat(r) \/ ReceiveNothing(r) \/ ReceiveFails(r) \/ Restat(r)
  PROVE  IInv'
<1>0. TypeOK /\ r \in Procs /\ r \notin Senders /\ read_num[r] \in Nat /\ qid[r] \in Ids
  BY Shapes DEF IInv, TypeOK
<1>1. UNCHANGED <<program, plan, wanted, key, created, queue, removed, qid, read_num, got>>
  BY DEF Stat, ReceiveNothing, ReceiveFails, Restat, fixed, sender, kernel, receiver
<1>2. read_num[r] > 0 => Read(qid[r])
  BY DEF IInv, Removal
<1>3. CASE Stat(r)
  <2>1. PICK place \in {"receive", "restat"} : pc' = [pc EXCEPT ![r] = place] /\ pc[r] = "stat"
    BY <1>3 DEF Stat, Goto
  <2> QED
    BY <1>0, <1>1, <2>1, PlaceStep
<1>4. CASE ReceiveNothing(r)
  <2> DEFINE place == AfterReceive(r, read_num[r])
  <2>1. pc' = [pc EXCEPT ![r] = place] /\ pc[r] = "receive"
    BY <1>4 DEF ReceiveNothing, Goto
  <2>2. /\ place \in {"receive", "restat", "remove", "done"}
        /\ place = "remove" => read_num[r] > 0
    BY AfterReceiveProperties
  <2> HIDE DEF place
  <2> QED
    BY <1>0, <1>1, <1>2, <2>1, <2>2, PlaceStep
<1>5. CASE ReceiveFails(r)
  <2>1. PICK place \in {"restat", "remove"} :
          /\ pc' = [pc EXCEPT ![r] = place] /\ pc[r] = "receive"
          /\ place = "remove" => program # "queues_3" /\ ~Exists(qid[r])
    BY <1>5 DEF ReceiveFails, Goto, Fits
  <2>2. qid[r] < created
    BY <2>1 DEF IInv, Places
  <2>3. place = "remove" => qid[r] \in removed
    BY <2>1, <2>2 DEF Exists
  <2> QED
    BY <1>0, <1>1, <2>1, <2>3, PlaceStep
<1>6. CASE Restat(r)
  <2>1. PICK place \in {"remove", "done"} :
          /\ pc' = [pc EXCEPT ![r] = place] /\ pc[r] = "restat"
          /\ place = "remove" => read_num[r] > 0
    BY <1>6 DEF Restat, Goto
  <2> QED
    BY <1>0, <1>1, <1>2, <2>1, PlaceStep
<1> QED
  BY <1>3, <1>4, <1>5, <1>6

\* A sender is through.
LEMMA SenderEndsStep == ASSUME IInv, NEW s \in Senders, SenderEnds(s) PROVE IInv'
<1>1. /\ pc' = [pc EXCEPT ![s] = "done"] /\ pc[s] # "start" /\ s \in Procs
      /\ UNCHANGED <<program, plan, wanted, key, created, queue, removed, qid, read_num, got>>
  BY DEF SenderEnds, Goto, fixed, sender, kernel, receiver, Procs
<1> QED
  BY <1>1, PlaceStep

\* msgget, or a failure before it.
LEMMA StartStep == ASSUME IInv, NEW p \in Procs, Start(p) \/ StartFails(p) PROVE IInv'
<1>0. TypeOK /\ pc[p] = "start" /\ IsFiniteSet(Procs) /\ None \notin Ids
  BY QueueAssumption DEF IInv, Start, StartFails
<1>1. /\ pc'[p] \in {"send", "stat", "receive", "restat", "done"}
      /\ (p \in Senders => pc'[p] \in {"send", "done"}) /\ (p \notin Senders => pc'[p] # "send")
      /\ pc' \in [Procs -> {"start", "send", "stat", "receive", "restat", "remove", "done"}]
      /\ \A o \in Procs : o # p => pc'[o] = pc[o] /\ qid'[o] = qid[o]
      /\ UNCHANGED <<program, plan, wanted, queue, removed, read_num, got>>
  BY <1>0 DEF Start, StartFails, Goto, TypeOK, fixed, sender, kernel, receiver
<1>2. /\ Started' = Started \cup {p} /\ p \notin Started
      /\ Started' \subseteq Procs /\ Started \subseteq Procs
  BY <1>0, <1>1 DEF Started
<1>3. /\ Cardinality(Started') = Cardinality(Started) + 1 /\ Cardinality(Started) \in Nat
      /\ Cardinality(Started') <= Cardinality(Procs) /\ Cardinality(Procs) \in Nat
  BY <1>0, <1>2, FS_Subset, FS_AddElement, FS_CardinalityType
<1>4. /\ key' \in Ids \cup {None} /\ qid'[p] \in Ids /\ qid' \in [Procs -> Ids] /\ created' \in Nat
      /\ created' <= Cardinality(Started') /\ created <= created' /\ (key' # None => key' < created')
      /\ (pc'[p] \in {"stat", "receive"} => qid'[p] < created')
  <2>1. created <= Cardinality(Started) /\ (key # None => key < created) /\ created \in Nat
    BY <1>0 DEF IInv, Created, TypeOK
  <2>2. created \in Ids
    BY <1>3, <2>1 DEF Ids
  <2>3. CASE Start(p) /\ key = None
    <3>1. key' = created /\ created' = created + 1 /\ qid' = [qid EXCEPT ![p] = created]
      BY <2>3 DEF Start
    <3> QED
      BY <1>0, <1>3, <2>1, <2>2, <3>1 DEF TypeOK
  <2>4. CASE Start(p) /\ key # None
    <3>1. key' = key /\ created' = created /\ qid' = [qid EXCEPT ![p] = key] /\ key \in Ids
      BY <1>0, <2>4 DEF Start, TypeOK
    <3> QED
      BY <1>0, <1>3, <2>1, <2>4, <3>1 DEF TypeOK
  <2>5. CASE StartFails(p)
    <3>1. key' = key /\ created' = created /\ qid' = qid /\ pc'[p] \in {"done", "restat"}
      BY <1>0, <2>5 DEF StartFails, kernel, Goto, TypeOK
    <3> QED
      BY <1>0, <1>3, <2>1, <3>1 DEF TypeOK
  <2> QED
    BY <2>3, <2>4, <2>5
<1>5. TypeOK' /\ Created'
  BY <1>0, <1>1, <1>4 DEF TypeOK, Created
<1>6. Places'
  <2>1. \A o \in Procs : qid[o] \in Nat /\ created \in Nat
    BY <1>0, <1>3 DEF TypeOK, Ids
  <2>2. \A s \in Senders : pc'[s] \in {"start", "send", "done"}
    BY <1>0, <1>1, Shapes DEF IInv, Places
  <2>3. ASSUME NEW r \in Receivers
        PROVE  /\ pc'[r] # "send" /\ (pc'[r] = "start" => read_num'[r] = 0)
               /\ (pc'[r] \in {"stat", "receive"} => qid'[r] < created')
    <3>1. CASE r = p
      BY <1>0, <1>1, <1>4, <3>1, Shapes
    <3>2. CASE r # p
      <4>1. r \in Procs /\ pc'[r] = pc[r] /\ qid'[r] = qid[r] /\ read_num'[r] = read_num[r]
        BY <1>0, <1>1, <3>2, Shapes
      <4>2. /\ pc[r] # "send" /\ (pc[r] = "start" => read_num[r] = 0)
            /\ (pc[r] \in {"stat", "receive"} => qid[r] < created)
        BY DEF IInv, Places
      <4> QED
        BY <1>4, <2>1, <4>1, <4>2
    <3> QED
      BY <3>1, <3>2
  <2> QED
    BY <2>2, <2>3 DEF Places
<1>7. /\ (Origin /\ Growing /\ Choice /\ ReceivedInOrder)'
      /\ \A q \in Ids : Read(q) => Read(q)'
  BY <1>0, <1>1, Shapes, QueuesKept
<1>8. Removal'
  <2>1. \A o \in Procs : qid[o] \in Ids
    BY <1>0 DEF TypeOK
  <2>2. removed \subseteq Ids
    BY <1>0 DEF TypeOK
  <2>3. p \in Receivers => read_num[p] = 0
    BY <1>0 DEF IInv, Places
  <2> QED
    BY <1>0, <1>1, <1>7, <2>1, <2>2, <2>3, Shapes DEF IInv, Removal
<1> QED
  BY <1>5, <1>6, <1>7, <1>8 DEF IInv

\* msgsnd, or its failure because the queue is gone.
LEMMA SendStep == ASSUME IInv, NEW s \in Senders, Send(s) \/ SendFails(s) PROVE IInv'
<1> DEFINE q == qid[s]
           n == Len(queue[q])
           m == [from |-> s, mtype |-> Head(plan[s]).mtype, size |-> Head(plan[s]).size]
<1>0. /\ TypeOK /\ pc[s] = "send" /\ s \in Procs /\ s \notin Receivers /\ q \in Ids
      /\ plan[s] # <<>> /\ plan[s] \in Seq(Chunk) /\ n \in Nat /\ queue[q] \in Seq(Message)
  <2>1. TypeOK /\ pc[s] = "send" /\ plan[s] # <<>>
    BY DEF IInv, Send, SendFails
  <2>2. s \in Procs /\ s \notin Receivers /\ plan[s] \in Seq(Chunk)
    BY <2>1, Shapes
  <2>3. q \in Ids
    BY <2>1, <2>2 DEF TypeOK
  <2> QED
    BY <2>1, <2>2, <2>3, Shapes
<1>1. /\ Head(plan[s]) \in Chunk /\ Head(plan[s]) = plan[s][1] /\ Tail(plan[s]) \in Seq(Chunk)
      /\ Len(plan[s]) \in Nat \ {0} /\ Len(Tail(plan[s])) = Len(plan[s]) - 1
      /\ \A i \in 1..Len(plan[s]) - 1 : Tail(plan[s])[i] = plan[s][i + 1]
  BY <1>0, HeadTailProperties, EmptySeq
<1>2. m \in Message /\ m.from = s /\ m.mtype = plan[s][1].mtype
  BY <1>0, <1>1 DEF Message, Chunk
<1>3. /\ plan' = [plan EXCEPT ![s] = Tail(plan[s])]
      /\ UNCHANGED <<program, wanted, key, created, removed, pc, qid, read_num, got>>
      /\ \/ queue' = [queue EXCEPT ![q] = Append(queue[q], m)]
         \/ queue' = queue
  BY DEF Send, SendFails, fixed, kernel, receiver
<1> HIDE DEF m
<1>4. /\ Append(queue[q], m) \in Seq(Message) /\ Len(Append(queue[q], m)) = n + 1
      /\ \A i \in 1..n : Append(queue[q], m)[i] = queue[q][i]
      /\ Append(queue[q], m)[n + 1] = m
  BY <1>0, <1>2, AppendProperties
<1>5. plan'[s] = Tail(plan[s]) /\ \A t \in Senders : t # s => plan'[t] = plan[t]
  BY <1>0, <1>3 DEF TypeOK
<1>6. ASSUME NEW o \in Ids, NEW i \in 1..Len(queue'[o])
      PROVE  \/ i \in 1..Len(queue[o]) /\ queue'[o][i] = queue[o][i]
             \/ o = q /\ i = n + 1 /\ queue'[o][i] = m
  <2>1. CASE queue' = queue
    BY <1>6, <2>1
  <2>2. CASE queue' = [queue EXCEPT ![q] = Append(queue[q], m)]
    <3>1. CASE o = q
      <4>1. queue'[o] = Append(queue[q], m)
        BY <1>0, <2>2, <3>1 DEF TypeOK
      <4>2. i \in 1..n \/ i = n + 1
        BY <1>0, <1>4, <1>6, <4>1
      <4> QED
        BY <1>4, <3>1, <4>1, <4>2
    <3>2. CASE o # q
      BY <1>0, <1>6, <2>2, <3>2 DEF TypeOK
    <3> QED
      BY <3>1, <3>2
  <2> QED
    BY <1>3, <2>1, <2>2
<1>7. \A o \in Ids : \A j \in 1..Len(queue'[o]) : \A i \in 1..j - 1 :
        i \in 1..Len(queue[o]) /\ queue'[o][i] = queue[o][i]
  <2> SUFFICES ASSUME NEW o \in Ids, NEW j \in 1..Len(queue'[o]), NEW i \in 1..j - 1
               PROVE  i \in 1..Len(queue[o]) /\ queue'[o][i] = queue[o][i]
    OBVIOUS
  <2>1. Len(queue[o]) \in Nat
    BY <1>0, Shapes
  <2>2. i \in 1..Len(queue[o])
    BY <1>6, <2>1
  <2>3. i \in 1..Len(queue'[o]) /\ ~(o = q /\ i = n + 1)
    BY <1>6, <2>1, <2>2
  <2> QED
    BY <1>6, <2>2, <2>3
<1>8. TypeOK' /\ Created' /\ Places'
  BY <1>0, <1>1, <1>3, <1>4 DEF IInv, TypeOK, Created, Started, Places
<1>9. Origin'
  <2>1. ASSUME NEW o \in Ids, NEW i \in 1..Len(queue'[o])
        PROVE  pc[queue'[o][i].from] # "start" /\ qid[queue'[o][i].from] = o
    <3>1. CASE i \in 1..Len(queue[o]) /\ queue'[o][i] = queue[o][i]
      BY <3>1 DEF IInv, Origin
    <3>2. CASE o = q /\ i = n + 1 /\ queue'[o][i] = m
      BY <1>0, <1>2, <3>2
    <3> QED
      BY <1>6, <3>1, <3>2
  <2> QED
    BY <1>3, <2>1 DEF IInv, Origin
<1>10. Removal' /\ ReceivedInOrder'
  BY <1>3 DEF IInv, Removal, Read, ReceivedInOrder
<1>11. ASSUME NEW j \in 1..Len(plan'[s])
       PROVE  /\ j + 1 \in 1..Len(plan[s]) /\ plan'[s][j] = plan[s][j + 1]
              /\ m.mtype < plan'[s][j].mtype
  <2>1. j + 1 \in 1..Len(plan[s]) /\ plan'[s][j] = plan[s][j + 1] /\ 1 \in 1..(j + 1) - 1
    BY <1>1, <1>5
  <2>2. plan[s][1].mtype < plan[s][j + 1].mtype
    BY <2>1 DEF IInv, Growing
  <2> QED
    BY <1>2, <2>1, <2>2
<1>12. ASSUME NEW t \in Senders, NEW j \in 1..Len(plan'[t])
       PROVE  /\ \A i \in 1..j - 1 : plan'[t][i].mtype < plan'[t][j].mtype
              /\ \A o \in Ids : \A i \in 1..Len(queue'[o]) :
                   queue'[o][i].from = t => queue'[o][i].mtype < plan'[t][j].mtype
              /\ \A k \in 1..Len(got) : got[k].from = t => got[k].mtype < plan'[t][j].mtype
  <2>1. CASE t = s
    <3>1. /\ j + 1 \in 1..Len(plan[s]) /\ plan'[s][j] = plan[s][j + 1]
          /\ m.mtype < plan'[s][j].mtype
      BY <1>11, <2>1
    <3>2. ASSUME NEW i \in 1..j - 1 PROVE plan'[s][i].mtype < plan'[s][j].mtype
      <4>1. i + 1 \in 1..(j + 1) - 1 /\ i \in 1..Len(plan'[s])
        BY <1>1, <1>5, <3>1
      <4>2. plan'[s][i] = plan[s][i + 1]
        BY <1>11, <4>1
      <4> QED
        BY <3>1, <4>1, <4>2 DEF IInv, Growing
    <3>3. ASSUME NEW o \in Ids, NEW i \in 1..Len(queue'[o]), queue'[o][i].from = s
          PROVE  queue'[o][i].mtype < plan'[s][j].mtype
      <4>1. CASE i \in 1..Len(queue[o]) /\ queue'[o][i] = queue[o][i]
        BY <3>1, <3>3, <4>1 DEF IInv, Growing
      <4>2. CASE queue'[o][i] = m
        BY <3>1, <4>2
      <4> QED
        BY <1>6, <4>1, <4>2
    <3>4. \A k \in 1..Len(got) : got[k].from = s => got[k].mtype < plan'[s][j].mtype
      BY <3>1 DEF IInv, Growing
    <3> QED
      BY <2>1, <3>2, <3>3, <3>4
  <2>2. CASE t # s
    <3>1. plan'[t] = plan[t] /\ j \in 1..Len(plan[t])
      BY <1>5, <1>12, <2>2
    <3>2. ASSUME NEW o \in Ids, NEW i \in 1..Len(queue'[o]), queue'[o][i].from = t
          PROVE  queue'[o][i].mtype < plan[t][j].mtype
      <4>1. i \in 1..Len(queue[o]) /\ queue'[o][i] = queue[o][i]
        BY <1>2, <1>6, <2>2, <3>2
      <4> QED
        BY <3>1, <3>2, <4>1 DEF IInv, Growing
    <3>3. /\ \A i \in 1..j - 1 : plan[t][i].mtype < plan[t][j].mtype
          /\ \A k \in 1..Len(got) : got[k].from = t => got[k].mtype < plan[t][j].mtype
      BY <3>1 DEF IInv, Growing
    <3> QED
      BY <3>1, <3>2, <3>3
  <2> QED
    BY <2>1, <2>2
<1>13. 1 \in 1..Len(plan[s])
  BY <1>1
<1>14. ASSUME NEW o \in Ids, NEW j \in 1..Len(queue'[o])
       PROVE  /\ \A i \in 1..j - 1 :
                   queue'[o][i].from = queue'[o][j].from => queue'[o][i].mtype < queue'[o][j].mtype
              /\ \A k \in 1..Len(got) :
                   got[k].from = queue'[o][j].from => got[k].mtype < queue'[o][j].mtype
  <2>1. CASE j \in 1..Len(queue[o]) /\ queue'[o][j] = queue[o][j]
    <3>1. /\ \A i \in 1..j - 1 :
               queue[o][i].from = queue[o][j].from => queue[o][i].mtype < queue[o][j].mtype
          /\ \A k \in 1..Len(got) :
               got[k].from = queue[o][j].from => got[k].mtype < queue[o][j].mtype
      BY <2>1 DEF IInv, Growing
    <3> QED
      BY <1>7, <1>14, <2>1, <3>1
  <2>2. CASE queue'[o][j] = m
    <3>1. /\ \A i \in 1..Len(queue[o]) : queue[o][i].from = s => queue[o][i].mtype < plan[s][1].mtype
          /\ \A k \in 1..Len(got) : got[k].from = s => got[k].mtype < plan[s][1].mtype
      BY <1>13 DEF IInv, Growing
    <3> QED
      BY <1>2, <1>7, <1>14, <2>2, <3>1
  <2> QED
    BY <1>6, <2>1, <2>2
<1>15. Growing'
  BY <1>3, <1>12, <1>14 DEF Growing
<1>16. Choice'
  <2>1. CASE program = "queues_2"
    BY <1>3, <2>1 DEF IInv, Choice
  <2>2. CASE program # "queues_2"
    <3>0. /\ \A t \in Senders : Len(plan[t]) <= 1
          /\ \A o \in Ids : \A i \in 1..Len(queue[o]) :
               /\ plan[queue[o][i].from] = <<>>
               /\ \A j \in 1..i - 1 : queue[o][j].from # queue[o][i].from
      BY <2>2 DEF IInv, Choice
    <3>1. plan'[s] = <<>>
      <4> DEFINE l == Len(plan[s])
                 k == Len(Tail(plan[s]))
      <4>1. l <= 1 /\ l \in Nat \ {0} /\ k = l - 1
        BY <1>1, <3>0
      <4> HIDE DEF l, k
      <4>2. k = 0
        BY <4>1
      <4> QED
        BY <1>1, <1>5, <4>2, EmptySeq DEF k
    <3>2. \A t \in Senders : Len(plan'[t]) <= 1
      BY <1>5, <3>0, <3>1, EmptySeq
    <3>3. \A o \in Ids : \A i \in 1..Len(queue[o]) : queue[o][i].from # s
      BY <1>0, <3>0
    <3>4. ASSUME NEW o \in Ids, NEW i \in 1..Len(queue'[o])
          PROVE  /\ plan'[queue'[o][i].from] = <<>>
                 /\ \A j \in 1..i - 1 : queue'[o][j].from # queue'[o][i].from
      <4>1. CASE i \in 1..Len(queue[o]) /\ queue'[o][i] = queue[o][i]
        <5>1. queue[o][i].from \in Senders /\ queue[o][i].from # s
          BY <1>0, <3>3, <4>1, Shapes
        <5>2. /\ plan[queue[o][i].from] = <<>>
              /\ \A j \in 1..i - 1 : queue[o][j].from # queue[o][i].from
          BY <3>0, <4>1
        <5> QED
          BY <1>5, <1>7, <3>4, <4>1, <5>1, <5>2
      <4>2. CASE queue'[o][i] = m
        BY <1>2, <1>7, <3>1, <3>3, <3>4, <4>2
      <4> QED
        BY <1>6, <4>1, <4>2
    <3> QED
      BY <1>3, <2>2, <3>2, <3>4 DEF Choice
  <2> QED
    BY <2>1, <2>2
<1> QED
  BY <1>8, <1>9, <1>10, <1>15, <1>16 DEF IInv

\* IPC_RMID.
LEMMA RemoveStep == ASSUME IInv, NEW r \in Receivers, RemoveQueue(r) PROVE IInv'
<1>0. TypeOK /\ pc[r] = "remove" /\ r \in Procs /\ r \notin Senders /\ qid[r] \in Ids
  BY Shapes DEF IInv, RemoveQueue, TypeOK
<1>1. /\ removed' = removed \cup {qid[r]} /\ queue' = [queue EXCEPT ![qid[r]] = <<>>]
      /\ key' = (IF key = qid[r] THEN None ELSE key)
      /\ pc' = [pc EXCEPT ![r] = "done"]
      /\ UNCHANGED <<program, plan, wanted, created, qid, read_num, got>>
  BY DEF RemoveQueue, Goto, fixed, sender, receiver
<1>2. /\ queue'[qid[r]] = <<>> /\ \A o \in Ids : o # qid[r] => queue'[o] = queue[o]
      /\ pc'[r] = "done" /\ \A o \in Procs : o # r => pc'[o] = pc[o]
  BY <1>0, <1>1 DEF TypeOK
<1>3. \A o \in Ids : \A i \in 1..Len(queue'[o]) : o # qid[r] /\ queue'[o] = queue[o]
  <2>1. Len(<<>>) = 0
    BY EmptySeq
  <2> QED
    BY <1>2, <2>1
<1>4. TypeOK'
  <2>1. <<>> \in Seq(Message)
    BY EmptySeq
  <2> QED
    BY <1>0, <1>1, <2>1 DEF TypeOK
<1>5. Created'
  <2>1. Started' = Started
    BY <1>0, <1>2 DEF Started
  <2> QED
    BY <1>1, <2>1 DEF IInv, Created
<1>6. Places'
  BY <1>0, <1>1, <1>2, Shapes DEF IInv, Places
<1>7. Origin'
  BY <1>0, <1>1, <1>2, <1>3, Shapes DEF IInv, Origin
<1>8. Removal'
  <2>1. \A o \in Ids : Read(o)' <=> Read(o)
    BY <1>1 DEF Read
  <2>2. removed \subseteq Ids /\ \A o \in Receivers : qid[o] \in Ids
    BY <1>0, Shapes DEF TypeOK
  <2>3. Read(qid[r])
    BY <1>0 DEF IInv, Removal
  <2> QED
    BY <1>0, <1>1, <1>2, <2>1, <2>2, <2>3, Shapes DEF IInv, Removal
<1>9. Growing'
  BY <1>1, <1>3, SMTT(30) DEF IInv, Growing
<1>10. Choice'
  BY <1>1, <1>3 DEF IInv, Choice
<1>11. ReceivedInOrder'
  BY <1>1 DEF IInv, ReceivedInOrder
<1> QED
  BY <1>4, <1>5, <1>6, <1>7, <1>8, <1>9, <1>10, <1>11 DEF IInv

\* msgrcv.  Index j of a queue without its message i is index At(j) of the queue
\* with it.
LEMMA ReceiveStep == ASSUME IInv, NEW r \in Receivers, Receive(r) PROVE IInv'
<1> DEFINE q == qid[r]
           n == Len(queue[q])
           i == Foremost(r, q)
           m == queue[q][i]
           g == Len(got)
           At(o, j) == IF o = q /\ ~(j < i) THEN j + 1 ELSE j
<1>0. /\ TypeOK /\ pc[r] = "receive" /\ r \in Procs /\ r \notin Senders /\ q \in Ids
      /\ Matching(r, q) # {} /\ n \in Nat /\ queue[q] \in Seq(Message) /\ read_num[r] \in Nat
      /\ g \in Nat /\ got \in Seq(Message)
  <2>1. TypeOK /\ pc[r] = "receive" /\ Matching(r, q) # {}
    BY DEF IInv, Receive
  <2>2. r \in Procs /\ r \notin Senders /\ g \in Nat /\ got \in Seq(Message)
    BY <2>1, Shapes
  <2>3. q \in Ids /\ read_num[r] \in Nat
    BY <2>1, <2>2 DEF TypeOK
  <2> QED
    BY <2>1, <2>2, <2>3, Shapes
<1>1. /\ i \in 1..n /\ i \in Matching(r, q)
      /\ \A j \in Matching(r, q) : m.mtype < queue[q][j].mtype \/ (m.mtype = queue[q][j].mtype /\ i <= j)
  BY <1>0, ForemostProperties DEF Matching
<1>2. /\ queue' = [queue EXCEPT ![q] = RemoveAt(queue[q], i)] /\ got' = Append(got, m)
      /\ read_num' = [read_num EXCEPT ![r] = read_num[r] + 1]
      /\ pc' = [pc EXCEPT ![r] = AfterReceive(r, read_num[r] + 1)]
      /\ UNCHANGED <<program, plan, wanted, key, created, removed, qid>>
  BY DEF Receive, Goto, fixed
<1>3. m \in Message /\ m.from \in Senders /\ m.mtype \in Nat
  BY <1>0, <1>1, Shapes
<1> HIDE DEF i
<1>4. /\ RemoveAt(queue[q], i) \in Seq(Message) /\ Len(RemoveAt(queue[q], i)) = n - 1
      /\ \A j \in 1..n - 1 :
           RemoveAt(queue[q], i)[j] = IF j < i THEN queue[q][j] ELSE queue[q][j + 1]
  BY <1>0, <1>1, RemoveAtProperties
<1> HIDE DEF m
<1>5. /\ queue'[q] = RemoveAt(queue[q], i) /\ \A o \in Ids : o # q => queue'[o] = queue[o]
      /\ read_num'[r] = read_num[r] + 1 /\ \A o \in Receivers : o # r => read_num'[o] = read_num[o]
      /\ pc'[r] = AfterReceive(r, read_num[r] + 1) /\ \A o \in Procs : o # r => pc'[o] = pc[o]
  BY <1>0, <1>2 DEF TypeOK
<1>6. /\ got' \in Seq(Message) /\ Len(got') = g + 1 /\ got'[g + 1] = m
      /\ \A k \in 1..g : got'[k] = got[k] /\ k \in 1..g + 1
      /\ \A k \in 1..g + 1 : k \in 1..g \/ k = g + 1
  BY <1>0, <1>2, <1>3, AppendProperties
<1>7. AfterReceive(r, read_num[r] + 1) \in {"receive", "restat", "remove", "done"}
  BY AfterReceiveProperties
<1>8. \A o \in Ids : \A j \in 1..Len(queue'[o]) :
        /\ At(o, j) \in 1..Len(queue[o]) /\ queue'[o][j] = queue[o][At(o, j)]
        /\ ~(o = q /\ At(o, j) = i)
  <2> SUFFICES ASSUME NEW o \in Ids, NEW j \in 1..Len(queue'[o])
               PROVE  /\ At(o, j) \in 1..Len(queue[o]) /\ queue'[o][j] = queue[o][At(o, j)]
                      /\ ~(o = q /\ At(o, j) = i)
    OBVIOUS
  <2>1. CASE o = q
    <3>1. j \in 1..n - 1 /\ queue'[o][j] = IF j < i THEN queue[q][j] ELSE queue[q][j + 1]
      BY <1>4, <1>5, <2>1
    <3>2. CASE j < i
      <4>1. j \in 1..n /\ j # i /\ At(o, j) = j
        BY <1>0, <1>1, <3>1, <3>2
      <4> QED
        BY <2>1, <3>1, <3>2, <4>1
    <3>3. CASE ~(j < i)
      <4>1. j + 1 \in 1..n /\ j + 1 # i /\ At(o, j) = j + 1
        BY <1>0, <1>1, <2>1, <3>1, <3>3
      <4> QED
        BY <2>1, <3>1, <3>3, <4>1
    <3> QED
      BY <3>2, <3>3
  <2>2. CASE o # q
    BY <1>5, <2>2
  <2> QED
    BY <2>1, <2>2
<1>9. \A o \in Ids : \A k \in 1..Len(queue'[o]) : \A j \in 1..k - 1 :
        j \in 1..Len(queue'[o]) /\ At(o, j) \in 1..At(o, k) - 1
  <2>1. \A o \in Ids : Len(queue'[o]) \in Nat
    BY <1>0, <1>1, <1>4, <1>5, Shapes
  <2> QED
    BY <1>1, <2>1
<1> HIDE DEF At
<1>10. /\ pc[m.from] # "start" /\ qid[m.from] = q
       /\ \A k \in 1..g : got[k].from = m.from => got[k].mtype < m.mtype
  BY <1>0, <1>1 DEF IInv, Origin, Growing, m
<1>11. TypeOK'
  BY <1>0, <1>2, <1>4, <1>6, <1>7 DEF TypeOK
<1>12. Created'
  <2>1. Started' = Started
    BY <1>0, <1>5, <1>7 DEF Started
  <2> QED
    BY <1>2, <2>1 DEF IInv, Created
<1>13. Places'
  BY <1>0, <1>2, <1>5, <1>7, Shapes DEF IInv, Places
<1>14. Origin'
  <2>1. \A t \in Senders : pc'[t] = pc[t]
    BY <1>0, <1>5, Shapes
  <2>2. ASSUME NEW o \in Ids, NEW j \in 1..Len(queue'[o])
        PROVE  pc'[queue'[o][j].from] # "start" /\ qid'[queue'[o][j].from] = o
    BY <1>0, <1>2, <1>8, <2>1, Shapes DEF IInv, Origin
  <2>3. ASSUME NEW k \in 1..g + 1 PROVE pc'[got'[k].from] # "start"
    BY <1>0, <1>3, <1>6, <1>10, <2>1, Shapes DEF IInv, Origin
  <2> QED
    BY <1>6, <2>2, <2>3 DEF Origin
<1>15. Removal'
  <2>1. \A o \in Ids : Read(o) => Read(o)'
    BY <1>2, <1>6 DEF Read
  <2>2. Read(q)'
    <3>1. g + 1 \in 1..Len(got') /\ qid'[got'[g + 1].from] = q
      BY <1>0, <1>2, <1>6, <1>10
    <3> QED
      BY <1>2, <3>1 DEF Read
  <2>3. removed \subseteq Ids /\ \A o \in Receivers : qid[o] \in Ids
    BY <1>0, Shapes DEF TypeOK
  <2> QED
    BY <1>0, <1>2, <1>5, <2>1, <2>2, <2>3, Shapes DEF IInv, Removal
<1>16. ASSUME NEW j \in 1..n, j # i, queue[q][j].from = m.from
       PROVE  m.mtype < queue[q][j].mtype
  <2>1. CASE i < j
    <3>1. i \in 1..j - 1
      BY <1>0, <1>1, <2>1
    <3>2. m.from = queue[q][j].from => m.mtype < queue[q][j].mtype
      BY <1>0, <3>1 DEF IInv, Growing, m
    <3> QED
      BY <1>16, <3>2
  <2>2. CASE j < i
    <3>1. j \in 1..i - 1
      BY <1>0, <1>1, <2>2
    <3>2. queue[q][j].mtype < m.mtype /\ queue[q][j].mtype \in Nat
      BY <1>0, <1>1, <1>16, <3>1, Shapes DEF IInv, Growing, m
    <3>3. program = "queues_2"
      BY <1>0, <1>1, <1>16, <3>1 DEF IInv, Choice, m
    <3>4. wanted[r] <= 0 /\ wanted[r] \in Int
      BY <1>0, <3>3 DEF IInv, Choice, TypeOK
    <3>5. m.mtype <= -wanted[r]
      BY <1>1, <3>4 DEF Matching, m
    <3>6. queue[q][j].mtype <= -wanted[r] /\ ~(wanted[r] > 0)
      BY <1>3, <3>2, <3>4, <3>5
    <3>7. j \in Matching(r, q)
      BY <1>0, <3>6 DEF Matching
    <3> QED
      BY <1>1, <1>3, <3>2, <3>7
  <2> QED
    BY <1>0, <1>1, <1>16, <2>1, <2>2
<1>17. Growing'
  <2>1. ASSUME NEW s \in Senders, NEW j \in 1..Len(plan[s])
        PROVE  /\ \A k \in 1..j - 1 : plan[s][k].mtype < plan[s][j].mtype
               /\ \A o \in Ids : \A k \in 1..Len(queue'[o]) :
                    queue'[o][k].from = s => queue'[o][k].mtype < plan[s][j].mtype
               /\ \A k \in 1..g + 1 : got'[k].from = s => got'[k].mtype < plan[s][j].mtype
    <3>1. /\ \A k \in 1..j - 1 : plan[s][k].mtype < plan[s][j].mtype
          /\ \A o \in Ids : \A k \in 1..Len(queue[o]) :
               queue[o][k].from = s => queue[o][k].mtype < plan[s][j].mtype
          /\ \A k \in 1..g : got[k].from = s => got[k].mtype < plan[s][j].mtype
      BY DEF IInv, Growing
    <3>2. m.from = s => m.mtype < plan[s][j].mtype
      BY <1>0, <1>1, <3>1 DEF m
    <3>3. \A o \in Ids : \A k \in 1..Len(queue'[o]) :
            queue'[o][k].from = s => queue'[o][k].mtype < plan[s][j].mtype
      BY <1>8, <3>1
    <3> QED
      BY <1>6, <3>1, <3>2, <3>3
  <2>2. ASSUME NEW o \in Ids, NEW j \in 1..Len(queue'[o])
        PROVE  /\ \A k \in 1..j - 1 :
                    queue'[o][k].from = queue'[o][j].from => queue'[o][k].mtype < queue'[o][j].mtype
               /\ \A k \in 1..g + 1 :
                    got'[k].from = queue'[o][j].from => got'[k].mtype < queue'[o][j].mtype
    <3>1. /\ At(o, j) \in 1..Len(queue[o]) /\ queue'[o][j] = queue[o][At(o, j)]
          /\ ~(o = q /\ At(o, j) = i)
      BY <1>8
    <3>2. /\ \A k \in 1..At(o, j) - 1 :
               queue[o][k].from = queue[o][At(o, j)].from => queue[o][k].mtype < queue[o][At(o, j)].mtype
          /\ \A k \in 1..g :
               got[k].from = queue[o][At(o, j)].from => got[k].mtype < queue[o][At(o, j)].mtype
      BY <3>1 DEF IInv, Growing
    <3>3. \A k \in 1..j - 1 : At(o, k) \in 1..At(o, j) - 1 /\ queue'[o][k] = queue[o][At(o, k)]
      BY <1>8, <1>9
    <3>4. m.from = queue[o][At(o, j)].from => m.mtype < queue[o][At(o, j)].mtype
      <4>1. qid[queue[o][At(o, j)].from] = o
        BY <3>1 DEF IInv, Origin
      <4> QED
        BY <1>10, <1>16, <3>1, <4>1
    <3> QED
      BY <1>6, <3>1, <3>2, <3>3, <3>4
  <2> QED
    BY <1>2, <1>6, <2>1, <2>2 DEF Growing
<1>18. Choice'
  <2>1. CASE program = "queues_2"
    BY <1>2, <2>1 DEF IInv, Choice
  <2>2. CASE program # "queues_2"
    <3>0. /\ \A t \in Senders : Len(plan[t]) <= 1
          /\ \A o \in Ids : \A k \in 1..Len(queue[o]) :
               /\ plan[queue[o][k].from] = <<>>
               /\ \A j \in 1..k - 1 : queue[o][j].from # queue[o][k].from
      BY <2>2 DEF IInv, Choice
    <3>1. ASSUME NEW o \in Ids, NEW k \in 1..Len(queue'[o])
          PROVE  /\ plan[queue'[o][k].from] = <<>>
                 /\ \A j \in 1..k - 1 : queue'[o][j].from # queue'[o][k].from
      <4>1. At(o, k) \in 1..Len(queue[o]) /\ queue'[o][k] = queue[o][At(o, k)]
        BY <1>8
      <4>2. /\ plan[queue[o][At(o, k)].from] = <<>>
            /\ \A j \in 1..At(o, k) - 1 : queue[o][j].from # queue[o][At(o, k)].from
        BY <3>0, <4>1
      <4>3. \A j \in 1..k - 1 : At(o, j) \in 1..At(o, k) - 1 /\ queue'[o][j] = queue[o][At(o, j)]
        BY <1>8, <1>9
      <4> QED
        BY <4>1, <4>2, <4>3
    <3> QED
      BY <1>2, <2>2, <3>0, <3>1 DEF Choice
  <2> QED
    BY <2>1, <2>2
<1>19. ReceivedInOrder'
  <2>1. DOMAIN got' = 1..g + 1 /\ DOMAIN got = 1..g
    BY <1>0, <1>6
  <2> SUFFICES ASSUME NEW j \in 1..g + 1, NEW k \in 1..g + 1, j < k, got'[j].from = got'[k].from
               PROVE  got'[j].mtype < got'[k].mtype
    BY <2>1 DEF ReceivedInOrder
  <2>2. j \in 1..g
    BY <1>0
  <2>3. CASE k = g + 1
    BY <1>6, <1>10, <2>2, <2>3
  <2>4. CASE k \in 1..g
    BY <1>6, <2>1, <2>2, <2>4 DEF IInv, ReceivedInOrder
  <2> QED
    BY <1>6, <2>3, <2>4
<1> QED
  BY <1>11, <1>12, <1>13, <1>14, <1>15, <1>17, <1>18, <1>19 DEF IInv

-----------------------------------------------------------------------------
\* The types of a plan grow, and the plans of tasks 1 and 3 are short.
LEMMA PlansAreGrowing ==
  ASSUME NEW prog \in Programs, NEW p \in Plans(prog)
  PROVE  /\ p \in Seq(Chunk)
         /\ \A j \in 1..Len(p) : \A i \in 1..j - 1 : p[i].mtype < p[j].mtype
         /\ prog # "queues_2" => Len(p) <= 1
<1>1. /\ \A f \in File({MSG_TYPE}) : f \in Chunk
      /\ \A f \in File(1..MSG_NUM) : f \in Chunk
      /\ \A f \in File(Types) : f \in Chunk
  <2>1. Sizes \subseteq Nat /\ Types \subseteq Nat
    BY QueueAssumption
  <2>2. {MSG_TYPE} \subseteq Nat /\ 1..MSG_NUM \subseteq Nat
    BY DEF MSG_TYPE, MSG_NUM
  <2>3. ASSUME NEW T \in SUBSET Nat, NEW f \in File(T) PROVE f \in Chunk
    <3>1. f \in [mtype : Nat, size : Nat]
      BY <2>1, <2>3 DEF File
    <3> QED
      BY <3>1 DEF Chunk
  <2> QED
    BY <2>1, <2>2, <2>3
<1>2. ASSUME p = <<>> \/ \E f \in Chunk : p = <<f>>
      PROVE  /\ p \in Seq(Chunk) /\ Len(p) <= 1
             /\ \A j \in 1..Len(p) : \A i \in 1..j - 1 : p[i].mtype < p[j].mtype
  <2>1. p \in Seq(Chunk) /\ Len(p) \in 0..1
    <3>1. CASE p = <<>>
      BY <3>1, EmptySeq
    <3>2. CASE \E f \in Chunk : p = <<f>>
      BY <3>2
    <3> QED
      BY <1>2, <3>1, <3>2
  <2> DEFINE l == Len(p)
  <2>2. l \in 0..1
    BY <2>1
  <2> HIDE DEF l
  <2>3. l <= 1 /\ \A j \in 1..l : \A i \in 1..j - 1 : FALSE
    BY <2>2
  <2> QED
    BY <2>1, <2>3 DEF l
<1>3. CASE prog = "queues_1"
  <2>1. p = <<>> \/ \E f \in Chunk : p = <<f>>
    BY <1>1, <1>3 DEF Plans, Queues1Plans
  <2> QED
    BY <1>2, <1>3, <2>1, Zenon
<1>4. CASE prog = "queues_2"
  <2>1. p \in Queues2Plans
    BY <1>4 DEF Plans
  <2>2. PICK k \in 0..MSG_NUM : p \in [1..k -> File(1..MSG_NUM)] /\ \A i \in DOMAIN p : p[i].mtype = i
    BY <2>1 DEF Queues2Plans
  <2>3. k \in Nat /\ p \in [1..k -> Chunk]
    BY <1>1, <2>2 DEF MSG_NUM
  <2>4. p \in Seq(Chunk) /\ DOMAIN p = 1..k
    BY <2>3
  <2>5. Len(p) = k
    BY <2>3, <2>4
  <2>6. ASSUME NEW j \in 1..Len(p), NEW i \in 1..j - 1 PROVE p[i].mtype < p[j].mtype
    <3>1. i \in 1..k /\ j \in 1..k /\ i < j
      BY <2>3, <2>5
    <3> QED
      BY <2>2, <2>4, <3>1
  <2> QED
    BY <1>4, <2>4, <2>6
<1>5. CASE prog = "queues_3"
  <2>1. p = <<>> \/ \E f \in Chunk : p = <<f>>
    BY <1>1, <1>5 DEF Plans, Queues3Plans
  <2> QED
    BY <1>2, <2>1
<1> QED
  BY <1>3, <1>4, <1>5, QueueAssumption

LEMMA InitInv == Init => IInv
<1> SUFFICES ASSUME Init PROVE IInv
  OBVIOUS
<1>1. /\ program \in Programs /\ plan \in [Senders -> Plans(program)]
      /\ key = None /\ created = 0 /\ removed = {}
      /\ \A q \in Ids : queue[q] = <<>> /\ Len(queue[q]) = 0
      /\ \A p \in Procs : pc[p] = "start"
      /\ \A r \in Receivers : read_num[r] = 0
      /\ got = <<>> /\ Len(got) = 0 /\ DOMAIN got = {}
  BY DEF Init
<1>2. \A s \in Senders :
        /\ plan[s] \in Seq(Chunk)
        /\ \A j \in 1..Len(plan[s]) : \A i \in 1..j - 1 : plan[s][i].mtype < plan[s][j].mtype
        /\ program # "queues_2" => Len(plan[s]) <= 1
  BY <1>1, PlansAreGrowing
<1>3. \A r \in Receivers : wanted[r] \in Int /\ (program = "queues_2" => wanted[r] <= 0)
  <2>1. Types \subseteq Int /\ program \in {"queues_1", "queues_2", "queues_3"}
    BY <1>1, QueueAssumption
  <2>2. \A r \in Receivers : wanted[r] \in Wanted(program)
    BY DEF Init
  <2> QED
    BY <2>1, <2>2 DEF Wanted, MSG_TYPE, MSG_NUM
<1>4. 0 \in Ids
  BY QueueAssumption, FS_CardinalityType DEF Ids
<1>5. TypeOK
  BY <1>1, <1>2, <1>3, <1>4, QueueAssumption DEF Init, TypeOK
<1>6. Created
  <2>1. Started = {}
    BY <1>1 DEF Started
  <2> QED
    BY <1>1, <2>1, FS_EmptySet DEF Created
<1>7. Places /\ Origin /\ ReceivedInOrder
  BY <1>1, <1>5, Shapes DEF Places, Origin, ReceivedInOrder
<1>8. Removal
  BY <1>1, <1>5, Shapes DEF Removal
<1>9. Growing /\ Choice
  BY <1>1, <1>2, <1>3 DEF Growing, Choice
<1> QED
  BY <1>5, <1>6, <1>7, <1>8, <1>9 DEF IInv

LEMMA NextInv == IInv /\ [Next]_vars => IInv'
<1> SUFFICES ASSUME IInv, [Next]_vars PROVE IInv'
  OBVIOUS
<1>0. Senders \subseteq Procs /\ Receivers \subseteq Procs
  BY DEF Procs
<1>1. ASSUME NEW s \in Senders, Sender(s) PROVE IInv'
  BY <1>0, <1>1, StartStep, SendStep, SenderEndsStep DEF Sender
<1>2. ASSUME NEW r \in Receivers, Receiver(r) PROVE IInv'
  BY <1>0, <1>2, StartStep, LocalStep, ReceiveStep, RemoveStep DEF Receiver
<1>3. CASE UNCHANGED vars
  <2>1. UNCHANGED <<program, plan, wanted, key, created, queue, removed, pc, qid, read_num, got>>
    BY <1>3 DEF vars
  <2>2. (TypeOK /\ Created /\ Places /\ Removal)'
    BY <2>1 DEF IInv, TypeOK, Created, Started, Places, Removal, Read
  <2>3. (Origin /\ Growing /\ Choice /\ ReceivedInOrder)'
    BY <2>1, QueuesKept
  <2> QED
    BY <2>2, <2>3 DEF IInv
<1> QED
  BY <1>1, <1>2, <1>3 DEF Next

\* Every state the senders and receivers of the three tasks can reach satisfies the
\* inductive invariant.
THEOREM Invariance == Spec => []IInv
  BY InitInv, NextInv, PTL DEF Spec

\* Whichever receivers take them, and whatever queue is removed and made anew in
\* between, a sender's messages are received in the order of its msgsnd calls.
THEOREM OrderKept == Spec => []ReceivedInOrder
<1>1. IInv => ReceivedInOrder
  BY DEF IInv
<1> QED
  BY <1>1, Invariance, PTL

\* IPC_RMID destroys no queue from which nothing has been read, although tasks 1 and
\* 2 call it after a failure and the qid of task 3 is 0 until msgget returns.
THEOREM UnreadQueuesStay == Spec => []RemovedOnlyAfterReading
<1>1. IInv => RemovedOnlyAfterReading
  <2> SUFFICES ASSUME IInv, NEW q \in removed PROVE \E i \in DOMAIN got : qid[got[i].from] = q
    BY DEF RemovedOnlyAfterReading
  <2>1. Read(q) /\ DOMAIN got = 1..Len(got)
    BY DEF IInv, Removal, TypeOK
  <2> QED
    BY <2>1 DEF Read
<1> QED
  BY <1>1, Invariance, PTL
=============================================================================
