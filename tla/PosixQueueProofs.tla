-------------------------- MODULE PosixQueueProofs --------------------------
(***************************************************************************)
(* Proofs about PosixQueue for any number of senders and receivers, any    *)
(* capacity of the queue and files of any number of chunks.                *)
(***************************************************************************)
EXTENDS PosixQueue, FiniteSetTheorems, SequenceTheorems, TLAPS

Chunk == [prio : Nat, empty : BOOLEAN]
Message == [from : Senders, num : Nat, prio : Nat, empty : BOOLEAN]

\* The shape of the state.
TypeOK ==
    /\ program \in {"queues_1", "queues_2", "queues_3"}
    /\ plan \in [Senders -> Seq(Chunk)]
    /\ sent \in [Senders -> Nat]
    /\ name \in Procs \cup {None}
    /\ queue \in [Procs -> Seq(Message)]
    /\ pc \in [Procs -> {"start", "send", "look", "receive", "relook", "unlink", "done"}]
    /\ qfd \in [Procs -> Procs \cup {None}]
    /\ msg_num \in [Receivers -> Nat]
    /\ nbytes \in [Receivers -> BOOLEAN]
    /\ counted \in [Receivers -> SUBSET Message]
    /\ got \in Seq(Message)

\* A process that has opened has a queue, and a receiver knows how many messages
\* it still has to take.
Places ==
    /\ \A p \in Procs : pc[p] # "start" => qfd[p] \in Procs
    /\ \A s \in Senders :
        pc[s] \in {"start", "send", "done"} /\ (pc[s] = "start" => sent[s] = 0)
    /\ \A r \in Receivers :
        /\ pc[r] # "send" /\ (pc[r] = "start" => counted[r] = {})
        /\ pc[r] = "receive" => msg_num[r] > 0
        /\ pc[r] = "unlink" => msg_num[r] = 0

\* Nobody but a receiver frees the name.
NameKept ==
    \A r \in Receivers : pc[r] \notin {"start", "done"} /\ Alone(r) => name = qfd[r]

\* A message has come from a sender that has this queue open.
Origin ==
    /\ \A q \in Procs : \A i \in 1..Len(queue[q]) :
        LET m == queue[q][i]
        IN  pc[m.from] # "start" /\ qfd[m.from] = q /\ m.num \in 1..sent[m.from]
    /\ \A k \in 1..Len(got) :
        pc[got[k].from] # "start" /\ got[k].num \in 1..sent[got[k].from]

\* A receiver has counted what has been sent.
CountedSent ==
    \A r \in Receivers : \A m \in counted[r] : m.num \in 1..sent[m.from]

\* The messages of a sender are in the order of their numbers in its queue, and one
\* that has been received is not there any more.
Numbered ==
    \A q \in Procs : \A i \in 1..Len(queue[q]) :
        /\ \A j \in 1..i - 1 :
            queue[q][j].from = queue[q][i].from => queue[q][j].num < queue[q][i].num
        /\ \A k \in 1..Len(got) :
            got[k].from = queue[q][i].from => got[k].num # queue[q][i].num

\* What a receiver has counted is at the front of its queue.
CountedFirst ==
    \A r \in Receivers : pc[r] # "start" =>
        \A i \in 1..Len(queue[qfd[r]]) : \A j \in 1..i - 1 :
            queue[qfd[r]][i] \in counted[r] => queue[qfd[r]][j] \in counted[r]

\* What a receiver has counted and nobody has taken yet.
Left(r) == counted[r] \cap Range(queue[qfd[r]])

\* m has been overtaken by a message that r has not counted.
Overtaken(r, m) == \E g \in Range(got) \ counted[r] : g.prio > m.prio

\* A receiver takes as many messages as are left of those it has counted, or all
\* that are left have been overtaken.
Remaining ==
    \A r \in Receivers : pc[r] \in {"receive", "unlink"} =>
        (\A m \in Left(r) : Overtaken(r, m)) \/ Cardinality(Left(r)) <= msg_num[r]

\* A sender of task 1 or 3 gives all its messages one priority.
OnePriority ==
    program # "queues_2" =>
        /\ \A s \in Senders : \A i, j \in 1..Len(plan[s]) : plan[s][i].prio = plan[s][j].prio
        /\ \A q \in Procs : \A i \in 1..Len(queue[q]) :
            /\ \A j \in 1..Len(queue[q]) :
                queue[q][i].from = queue[q][j].from => queue[q][i].prio = queue[q][j].prio
            /\ \A j \in 1..Len(plan[queue[q][i].from]) :
                queue[q][i].prio = plan[queue[q][i].from][j].prio

\* Number n of sender s has been received.
Received(s, n) == \E k \in 1..Len(got) : got[k].from = s /\ got[k].num = n

\* Everything a sender has sent has been received or is in its queue, and what has
\* been received comes before what is in the queue.
Complete ==
    program # "queues_2" =>
        /\ \A s \in Senders : \A n \in 1..sent[s] :
            \/ Received(s, n)
            \/ \E i \in 1..Len(queue[qfd[s]]) :
                queue[qfd[s]][i].from = s /\ queue[qfd[s]][i].num = n
        /\ \A q \in Procs : \A i \in 1..Len(queue[q]) : \A k \in 1..Len(got) :
            got[k].from = queue[q][i].from => got[k].num < queue[q][i].num

\* The inductive invariant.
IInv ==
    /\ TypeOK /\ Places /\ NameKept /\ Origin /\ Numbered /\ CountedSent /\ CountedFirst
    /\ Remaining /\ OnePriority /\ Complete /\ ReceivedInOrder
-----------------------------------------------------------------------------
\* The operators on sequences and numbers that the model uses.
LEMMA SmallestOf ==
  ASSUME NEW T \in SUBSET Nat, T # {}
  PROVE  \E x \in T : \A y \in T : x <= y
<1> DEFINE R == OpToRel(<, Nat)
<1>1. IsWellFoundedOn(R, Nat)
  BY NatLessThanWellFounded
<1>2. PICK x \in T : \A y \in T : ~(<<y, x>> \in R)
  <2> HIDE DEF R
  <2> QED
    BY <1>1, WFMin
<1>3. \A y \in T : y < x => <<y, x>> \in R
  BY DEF OpToRel
<1> HIDE DEF R
<1>4. \A y \in T : ~(y < x) /\ y \in Nat /\ x \in Nat
  BY <1>2, <1>3
<1> QED
  BY <1>4

LEMMA RemoveAtProperties ==
  ASSUME NEW S, NEW s \in Seq(S), NEW i \in 1..Len(s)
  PROVE  /\ RemoveAt(s, i) \in Seq(S) /\ Len(RemoveAt(s, i)) = Len(s) - 1
         /\ \A j \in 1..Len(s) - 1 : RemoveAt(s, i)[j] = IF j < i THEN s[j] ELSE s[j + 1]
<1> DEFINE a == SubSeq(s, 1, i - 1)
           b == SubSeq(s, i + 1, Len(s))
<1>1. Len(s) \in Nat
  OBVIOUS
<1>2. a \in Seq(S) /\ Len(a) = i - 1 /\ \A j \in 1..i - 1 : a[j] = s[j]
  BY <1>1, SubSeqProperties
<1>3. b \in Seq(S) /\ Len(b) = Len(s) - i /\ \A j \in 1..Len(s) - i : b[j] = s[j + i]
  BY <1>1, SubSeqProperties
<1>4. RemoveAt(s, i) = a \o b
  BY DEF RemoveAt
<1> HIDE DEF a, b
<1>5. /\ a \o b \in Seq(S) /\ Len(a \o b) = Len(a) + Len(b)
      /\ \A j \in 1..Len(a) + Len(b) :
           (a \o b)[j] = IF j <= Len(a) THEN a[j] ELSE b[j - Len(a)]
  BY <1>2, <1>3, ConcatProperties
<1>6. RemoveAt(s, i) \in Seq(S) /\ Len(RemoveAt(s, i)) = Len(s) - 1
  BY <1>1, <1>2, <1>3, <1>4, <1>5
<1>7. ASSUME NEW j \in 1..Len(s) - 1
      PROVE  RemoveAt(s, i)[j] = IF j < i THEN s[j] ELSE s[j + 1]
  <2>1. j \in 1..Len(a) + Len(b) /\ (j <= Len(a) <=> j < i)
    BY <1>1, <1>2, <1>3
  <2>2. CASE j < i
    BY <1>2, <1>4, <1>5, <2>1, <2>2
  <2>3. CASE ~(j < i)
    <3>1. j - Len(a) \in 1..Len(s) - i /\ (j - Len(a)) + i = j + 1
      BY <1>1, <1>2, <2>3
    <3> QED
      BY <1>3, <1>4, <1>5, <2>1, <2>3, <3>1
  <2> QED
    BY <2>2, <2>3
<1> QED
  BY <1>6, <1>7

\* The messages in a queue are no more than its length.
LEMMA RangeOfQueue ==
  ASSUME NEW S, NEW s \in Seq(S)
  PROVE  IsFiniteSet(Range(s)) /\ Cardinality(Range(s)) <= Len(s)
<1>1. s \in Surjection(1..Len(s), Range(s)) /\ Len(s) \in Nat
  BY DEF Surjection, Range
<1>2. IsFiniteSet(1..Len(s)) /\ Cardinality(1..Len(s)) = Len(s)
  <2>1. IsFiniteSet(1..Len(s)) /\ Cardinality(1..Len(s)) = IF 1 > Len(s) THEN 0 ELSE Len(s) - 1 + 1
    BY <1>1, FS_Interval
  <2> QED
    BY <1>1, <2>1
<1> QED
  BY <1>1, <1>2, FS_Surjection

\* There is a foremost message in every queue that is not empty, by the smallest
\* prefix that had none.
LEMMA ForemostProperties ==
  ASSUME NEW q \in Seq(Message), q # <<>>
  PROVE  /\ Foremost(q) \in 1..Len(q)
         /\ \A j \in 1..Len(q) :
              \/ q[j].prio < q[Foremost(q)].prio
              \/ q[j].prio = q[Foremost(q)].prio /\ Foremost(q) <= j
<1> DEFINE First(n, i) == \A j \in 1..n : q[j].prio < q[i].prio \/ (q[j].prio = q[i].prio /\ i <= j)
           T == {n \in 1..Len(q) : ~ \E i \in 1..n : First(n, i)}
<1>0. Len(q) \in Nat \ {0} /\ \A i \in 1..Len(q) : q[i].prio \in Nat
  <2>1. \A i \in 1..Len(q) : q[i] \in Message
    BY ElementOfSeq
  <2>2. Len(q) \in Nat \ {0}
    BY EmptySeq
  <2> QED
    BY <2>1, <2>2 DEF Message
<1>1. /\ T \in SUBSET Nat
      /\ \A n \in T : n \in 1..Len(q) /\ \A i \in 1..n : ~First(n, i)
      /\ \A n \in 1..Len(q) : n \notin T => \E i \in 1..n : First(n, i)
  <2> HIDE DEF First
  <2> QED
    BY <1>0
<1> HIDE DEF T
<1>2. T = {}
  <2> SUFFICES ASSUME T # {} PROVE FALSE
    OBVIOUS
  <2>1. PICK n \in T : \A y \in T : n <= y
    BY <1>1, SmallestOf
  <2>2. n \in 1..Len(q) /\ \A i \in 1..n : ~First(n, i)
    BY <1>1
  <2>3. CASE n = 1
    <3>1. First(1, 1)
      BY <1>0
    <3> QED
      BY <2>2, <2>3, <3>1
  <2>4. CASE n # 1
    <3>1. n - 1 \in 1..Len(q) /\ ~(n <= n - 1)
      BY <1>0, <2>2, <2>4
    <3>2. n - 1 \notin T
      BY <2>1, <3>1
    <3>3. PICK i \in 1..n - 1 : First(n - 1, i)
      <4> HIDE DEF First
      <4> QED
        BY <1>1, <3>1, <3>2
    <3>4. q[n].prio \in Nat /\ q[i].prio \in Nat /\ i \in 1..n /\ n \in 1..n /\ i <= n
      BY <1>0, <2>2, <3>1
    <3> HIDE DEF First
    <3> DEFINE P(k) == q[k].prio
    <3>a. P(n) \in Nat /\ P(i) \in Nat
      BY <3>4
    <3>b. P(n) < P(i) \/ P(n) = P(i) \/ P(i) < P(n)
      <4> HIDE DEF P
      <4> QED
        BY <3>a
    <3>5. CASE q[n].prio < q[i].prio \/ q[n].prio = q[i].prio
      <4>1. ASSUME NEW j \in 1..n PROVE q[j].prio < q[i].prio \/ (q[j].prio = q[i].prio /\ i <= j)
        <5>1. CASE j = n
          BY <3>4, <3>5, <5>1
        <5>2. CASE j # n
          BY <2>2, <3>3, <5>2 DEF First
        <5> QED
          BY <5>1, <5>2
      <4> QED
        BY <2>2, <3>4, <4>1 DEF First
    <3>6. CASE q[i].prio < q[n].prio
      <4>1. ASSUME NEW j \in 1..n PROVE q[j].prio < q[n].prio \/ (q[j].prio = q[n].prio /\ n <= j)
        <5>1. CASE j = n
          BY <2>2, <3>4, <5>1
        <5>2. CASE j # n
          <6>1. j \in 1..n - 1 /\ q[j].prio \in Nat
            BY <1>0, <2>2, <5>2
          <6> QED
            BY <3>3, <3>4, <3>6, <6>1 DEF First
        <5> QED
          BY <5>1, <5>2
      <4> QED
        BY <2>2, <3>4, <4>1 DEF First
    <3> QED
      BY <3>b, <3>5, <3>6
  <2> QED
    BY <2>3, <2>4
<1>3. \E i \in 1..Len(q) : First(Len(q), i)
  <2> HIDE DEF First
  <2> QED
    BY <1>0, <1>1, <1>2
<1>4. DOMAIN q = 1..Len(q)
  OBVIOUS
<1> QED
  BY <1>3, <1>4 DEF Foremost

\* The types of what is in the queues and has been received.
LEMMA Types ==
  ASSUME TypeOK
  PROVE  /\ \A q \in Procs :
              /\ queue[q] \in Seq(Message) /\ Len(queue[q]) \in Nat
              /\ \A i \in 1..Len(queue[q]) :
                   /\ queue[q][i] \in Message /\ queue[q][i].from \in Senders
                   /\ queue[q][i].num \in Nat /\ queue[q][i].prio \in Nat
         /\ got \in Seq(Message) /\ Len(got) \in Nat
         /\ \A k \in 1..Len(got) :
              /\ got[k] \in Message /\ got[k].from \in Senders
              /\ got[k].num \in Nat /\ got[k].prio \in Nat
         /\ \A s \in Senders : sent[s] \in Nat /\ plan[s] \in Seq(Chunk)
         /\ Senders \subseteq Procs /\ Receivers \subseteq Procs /\ None \notin Procs
         /\ \A s \in Senders, r \in Receivers : s # r
<1>1. ASSUME NEW q \in Procs
      PROVE  /\ queue[q] \in Seq(Message) /\ Len(queue[q]) \in Nat
             /\ \A i \in 1..Len(queue[q]) :
                  /\ queue[q][i] \in Message /\ queue[q][i].from \in Senders
                  /\ queue[q][i].num \in Nat /\ queue[q][i].prio \in Nat
  <2>1. queue[q] \in Seq(Message)
    BY DEF TypeOK
  <2>2. \A i \in 1..Len(queue[q]) : queue[q][i] \in Message
    BY <2>1, ElementOfSeq
  <2> QED
    BY <2>1, <2>2 DEF Message
<1>2. /\ got \in Seq(Message) /\ Len(got) \in Nat
      /\ \A k \in 1..Len(got) : got[k] \in Message
  BY ElementOfSeq DEF TypeOK
<1>3. \A s \in Senders : sent[s] \in Nat /\ plan[s] \in Seq(Chunk)
  BY DEF TypeOK
<1> QED
  BY <1>1, <1>2, <1>3, QueueAssumption DEF Procs, Message

-----------------------------------------------------------------------------
\* What a step keeps that moves no message.
LEMMA QueuesKept ==
  ASSUME IInv, UNCHANGED <<program, plan, sent, queue, got>>,
         \A s \in Senders : pc[s] # "start" => pc'[s] # "start" /\ qfd'[s] = qfd[s]
  PROVE  (Origin /\ Numbered /\ OnePriority /\ Complete /\ ReceivedInOrder)'
<1>0. TypeOK
  BY DEF IInv
<1>1. Origin'
  BY <1>0, Types DEF IInv, Origin
<1>2. Numbered' /\ OnePriority' /\ ReceivedInOrder'
  BY DEF IInv, Numbered, OnePriority, ReceivedInOrder
<1>3. Complete'
  BY DEF IInv, Complete, Received, Places
<1> QED
  BY <1>1, <1>2, <1>3

\* mq_open.
LEMMA OpenStep == ASSUME IInv, NEW p \in Procs, Open(p) PROVE IInv'
<1>0. TypeOK /\ pc[p] = "start"
  BY DEF IInv, Open
<1>1. /\ name' = (IF name = None THEN p ELSE name) /\ qfd'[p] = name' /\ name' \in Procs
      /\ pc'[p] = (IF p \in Senders THEN "send" ELSE "look")
      /\ \A o \in Procs : o # p => pc'[o] = pc[o] /\ qfd'[o] = qfd[o]
      /\ UNCHANGED <<program, plan, sent, queue, msg_num, nbytes, counted, got>>
  BY <1>0 DEF Open, Goto, TypeOK, receiver
<1>2. TypeOK'
  BY <1>0, <1>1 DEF TypeOK, Open, Goto
<1>3. Places'
  BY <1>0, <1>1, Types DEF IInv, Places, Procs
<1>4. NameKept'
  <2> SUFFICES ASSUME NEW r \in Receivers, pc'[r] \notin {"start", "done"}, Alone(r)'
               PROVE  name' = qfd'[r]
    BY DEF NameKept
  <2>1. CASE r = p
    BY <1>1, <2>1
  <2>2. CASE r # p
    <3>1. p \notin Receivers
      BY <1>0, <1>1, <2>2, Types DEF Alone
    <3>2. \A o \in Receivers : pc'[o] = pc[o]
      BY <1>0, <1>1, <3>1, Types
    <3>3. Alone(r) /\ pc[r] \notin {"start", "done"}
      BY <3>2 DEF Alone
    <3>4. name = qfd[r] /\ qfd[r] \in Procs
      BY <1>0, <3>3, Types DEF IInv, NameKept, Places
    <3> QED
      BY <1>0, <1>1, <2>2, <3>4, Types
  <2> QED
    BY <2>1, <2>2
<1>5. \A s \in Senders : pc[s] # "start" => pc'[s] # "start" /\ qfd'[s] = qfd[s]
  BY <1>0, <1>1, Types
<1>6. (Origin /\ Numbered /\ OnePriority /\ Complete /\ ReceivedInOrder)'
  BY <1>1, <1>5, QueuesKept
<1>7. CountedSent'
  BY <1>1 DEF IInv, CountedSent
<1>8. CountedFirst'
  BY <1>0, <1>1, Types DEF IInv, CountedFirst, Places
<1>9. Remaining'
  BY <1>0, <1>1, Types DEF IInv, Remaining, Left, Overtaken
<1> QED
  BY <1>2, <1>3, <1>4, <1>6, <1>7, <1>8, <1>9 DEF IInv

\* A sender is through.
LEMMA SenderEndsStep == ASSUME IInv, NEW s \in Senders, SenderEnds(s) PROVE IInv'
<1>0. TypeOK /\ pc[s] = "send" /\ s \in Procs /\ s \notin Receivers
  BY Types DEF IInv, SenderEnds
<1>1. /\ pc'[s] = "done" /\ \A o \in Procs : o # s => pc'[o] = pc[o]
      /\ UNCHANGED <<program, plan, sent, name, queue, qfd, msg_num, nbytes, counted, got>>
  BY <1>0 DEF SenderEnds, Goto, TypeOK, receiver
<1>2. TypeOK'
  BY <1>0, <1>1 DEF TypeOK, SenderEnds, Goto
<1>3. \A r \in Receivers : pc'[r] = pc[r]
  BY <1>0, <1>1, Types
<1>4. Places'
  BY <1>0, <1>1, <1>3, Types DEF IInv, Places
<1>5. NameKept' /\ CountedSent' /\ CountedFirst' /\ Remaining'
  BY <1>1, <1>3 DEF IInv, NameKept, Alone, CountedSent, CountedFirst, Remaining, Left, Overtaken
<1>6. (Origin /\ Numbered /\ OnePriority /\ Complete /\ ReceivedInOrder)'
  BY <1>0, <1>1, Types, QueuesKept
<1> QED
  BY <1>2, <1>4, <1>5, <1>6 DEF IInv

\* mq_unlink.
LEMMA UnlinkStep == ASSUME IInv, NEW r \in Receivers, Unlink(r) PROVE IInv'
<1>0. TypeOK /\ pc[r] = "unlink" /\ r \in Procs /\ r \notin Senders
  BY Types DEF IInv, Unlink
<1>1. /\ pc'[r] = "done" /\ \A o \in Procs : o # r => pc'[o] = pc[o]
      /\ UNCHANGED <<program, plan, sent, queue, qfd, msg_num, nbytes, counted, got>>
  BY <1>0 DEF Unlink, Goto, TypeOK, receiver
<1>2. TypeOK'
  BY <1>0, <1>1 DEF TypeOK, Unlink, Goto
<1>3. Places'
  BY <1>0, <1>1, Types DEF IInv, Places
<1>4. NameKept'
  BY <1>0, <1>1, Types DEF NameKept, Alone
<1>5. CountedSent' /\ CountedFirst' /\ Remaining'
  BY <1>0, <1>1, Types DEF IInv, CountedSent, CountedFirst, Remaining, Left, Overtaken
<1>6. (Origin /\ Numbered /\ OnePriority /\ Complete /\ ReceivedInOrder)'
  BY <1>0, <1>1, Types, QueuesKept
<1> QED
  BY <1>2, <1>3, <1>4, <1>5, <1>6 DEF IInv

\* mq_getattr, before and after the loop.
LEMMA LookStep == ASSUME IInv, NEW r \in Receivers, Look(r) \/ Relook(r) PROVE IInv'
<1> DEFINE q == queue[qfd[r]]
<1>0. /\ TypeOK /\ pc[r] \in {"look", "relook"} /\ r \in Procs /\ r \notin Senders
      /\ qfd[r] \in Procs /\ q \in Seq(Message) /\ (q = <<>> <=> Len(q) = 0) /\ Len(q) \in Nat
  <2>1. /\ TypeOK /\ pc[r] \in {"look", "relook"} /\ r \in Procs /\ r \notin Senders
        /\ qfd[r] \in Procs
    BY Types DEF IInv, Look, Relook, Places
  <2>2. q \in Seq(Message)
    BY <2>1, Types
  <2> QED
    BY <2>1, <2>2, EmptySeq
<1>1. /\ msg_num'[r] = Len(q) /\ counted'[r] = Range(q)
      /\ \A o \in Receivers : o # r => msg_num'[o] = msg_num[o] /\ counted'[o] = counted[o]
      /\ pc'[r] \in {"receive", "unlink", "done"} /\ (pc'[r] = "receive" => q # <<>>)
      /\ (pc'[r] = "unlink" => q = <<>>)
      /\ \A o \in Procs : o # r => pc'[o] = pc[o]
      /\ UNCHANGED <<program, plan, sent, name, queue, qfd, nbytes, got>>
  BY <1>0 DEF Look, Relook, Goto, TypeOK
<1>2. Range(q) \in SUBSET Message
  BY <1>0, RangeOfSeq
<1>3. TypeOK'
  <2>1. /\ msg_num' = [msg_num EXCEPT ![r] = Len(q)] /\ counted' = [counted EXCEPT ![r] = Range(q)]
        /\ pc' = [pc EXCEPT ![r] = pc'[r]]
    BY <1>0 DEF Look, Relook, Goto, TypeOK
  <2>2. msg_num' \in [Receivers -> Nat] /\ counted' \in [Receivers -> SUBSET Message]
    BY <1>0, <1>2, <2>1 DEF TypeOK
  <2>3. pc' \in [Procs -> {"start", "send", "look", "receive", "relook", "unlink", "done"}]
    BY <1>0, <1>1, <2>1 DEF TypeOK
  <2> QED
    BY <1>0, <1>1, <2>2, <2>3 DEF TypeOK
<1>4. Places'
  <2>1. \A p \in Procs : (pc[p] # "start" <=> pc'[p] # "start") /\ qfd'[p] = qfd[p]
    BY <1>0, <1>1
  <2>2. \A p \in Procs : pc'[p] # "start" => qfd'[p] \in Procs
    BY <2>1 DEF IInv, Places
  <2>3. ASSUME NEW t \in Senders
        PROVE  pc'[t] \in {"start", "send", "done"} /\ (pc'[t] = "start" => sent'[t] = 0)
    <3>1. t \in Procs /\ t # r /\ sent' = sent
      BY <1>0, <1>1, Types
    <3>2. pc'[t] = pc[t]
      BY <1>1, <3>1
    <3> QED
      BY <3>1, <3>2 DEF IInv, Places
  <2>4. ASSUME NEW o \in Receivers
        PROVE  /\ pc'[o] # "send" /\ (pc'[o] = "start" => counted'[o] = {})
               /\ pc'[o] = "receive" => msg_num'[o] > 0
               /\ pc'[o] = "unlink" => msg_num'[o] = 0
    <3>1. CASE o = r
      BY <1>0, <1>1, <3>1
    <3>2. CASE o # r
      <4>1. pc'[o] = pc[o] /\ msg_num'[o] = msg_num[o] /\ counted'[o] = counted[o]
        BY <1>0, <1>1, <3>2, Types
      <4> QED
        BY <4>1 DEF IInv, Places
    <3> QED
      BY <3>1, <3>2
  <2> QED
    BY <2>2, <2>3, <2>4 DEF Places
<1>5. NameKept'
  BY <1>0, <1>1, Types DEF IInv, NameKept, Alone
<1>6. (Origin /\ Numbered /\ OnePriority /\ Complete /\ ReceivedInOrder)'
  BY <1>0, <1>1, Types, QueuesKept
<1>7. CountedSent'
  <2>1. \A m \in Range(q) : m.num \in 1..sent[m.from]
    <3>1. \A i \in 1..Len(q) : q[i].num \in 1..sent[q[i].from]
      BY <1>0 DEF IInv, Origin
    <3>2. DOMAIN q = 1..Len(q)
      BY <1>0
    <3> QED
      BY <3>1, <3>2 DEF Range
  <2> QED
    BY <1>1, <2>1 DEF IInv, CountedSent
<1>8. CountedFirst'
  <2>1. \A i \in 1..Len(q) : q[i] \in Range(q)
    BY <1>0 DEF Range
  <2>2. ASSUME NEW o \in Receivers, pc'[o] # "start",
               NEW i \in 1..Len(queue'[qfd'[o]]), NEW j \in 1..i - 1, queue'[qfd'[o]][i] \in counted'[o]
        PROVE  queue'[qfd'[o]][j] \in counted'[o]
    <3>1. CASE o = r
      <4>1. j \in 1..Len(q)
        BY <1>0, <1>1, <2>2, <3>1
      <4> QED
        BY <1>1, <2>1, <3>1, <4>1
    <3>2. CASE o # r
      BY <1>0, <1>1, <2>2, <3>2, Types DEF IInv, CountedFirst
    <3> QED
      BY <3>1, <3>2
  <2> QED
    BY <2>2 DEF CountedFirst
<1>9. Remaining'
  <2>1. Left(r)' = Range(q) /\ Cardinality(Range(q)) <= Len(q)
    BY <1>0, <1>1, RangeOfQueue DEF Left
  <2>2. \A o \in Receivers : o # r => Left(o)' = Left(o) /\ \A m : Overtaken(o, m)' = Overtaken(o, m)
    BY <1>1 DEF Left, Overtaken
  <2>3. ASSUME NEW o \in Receivers, pc'[o] \in {"receive", "unlink"}
        PROVE  ((\A m \in Left(o) : Overtaken(o, m)) \/ Cardinality(Left(o)) <= msg_num[o])'
    <3>1. CASE o = r
      BY <1>1, <2>1, <3>1
    <3>2. CASE o # r
      <4>1. (\A m \in Left(o) : Overtaken(o, m)) \/ Cardinality(Left(o)) <= msg_num[o]
        BY <1>0, <1>1, <2>3, <3>2, Types DEF IInv, Remaining
      <4> QED
        BY <1>1, <2>2, <3>2, <4>1
    <3> QED
      BY <3>1, <3>2
  <2> QED
    BY <2>3 DEF Remaining
<1> QED
  BY <1>3, <1>4, <1>5, <1>6, <1>7, <1>8, <1>9 DEF IInv

\* mq_send.
LEMMA SendStep == ASSUME IInv, NEW s \in Senders, Send(s) PROVE IInv'
<1> DEFINE q == qfd[s]
           n == Len(queue[q])
           m == [from |-> s, num |-> sent[s] + 1, prio |-> Head(plan[s]).prio,
                 empty |-> Head(plan[s]).empty]
<1>0. /\ TypeOK /\ pc[s] = "send" /\ s \in Procs /\ s \notin Receivers /\ q \in Procs
      /\ plan[s] # <<>> /\ plan[s] \in Seq(Chunk) /\ sent[s] \in Nat /\ n \in Nat
      /\ queue[q] \in Seq(Message)
  BY Types DEF IInv, Send, Places
<1>1. /\ Head(plan[s]) \in Chunk /\ Head(plan[s]) = plan[s][1] /\ Tail(plan[s]) \in Seq(Chunk)
      /\ Len(plan[s]) \in Nat \ {0} /\ Len(Tail(plan[s])) = Len(plan[s]) - 1
      /\ \A i \in 1..Len(plan[s]) - 1 : Tail(plan[s])[i] = plan[s][i + 1]
  BY <1>0, HeadTailProperties, EmptySeq
<1>2. /\ m \in Message /\ m.from = s /\ m.num = sent[s] + 1 /\ m.prio = plan[s][1].prio
  BY <1>0, <1>1 DEF Message, Chunk
<1>3. /\ queue' = [queue EXCEPT ![q] = Append(queue[q], m)]
      /\ sent' = [sent EXCEPT ![s] = sent[s] + 1] /\ plan' = [plan EXCEPT ![s] = Tail(plan[s])]
      /\ UNCHANGED <<program, name, pc, qfd, msg_num, nbytes, counted, got>>
  BY DEF Send, receiver
<1> HIDE DEF m
<1>4. /\ Append(queue[q], m) \in Seq(Message) /\ Len(Append(queue[q], m)) = n + 1
      /\ \A i \in 1..n : Append(queue[q], m)[i] = queue[q][i]
      /\ Append(queue[q], m)[n + 1] = m
  BY <1>0, <1>2, AppendProperties
<1>5. /\ queue'[q] = Append(queue[q], m) /\ \A o \in Procs : o # q => queue'[o] = queue[o]
      /\ sent'[s] = sent[s] + 1 /\ \A t \in Senders : t # s => sent'[t] = sent[t]
      /\ plan'[s] = Tail(plan[s]) /\ \A t \in Senders : t # s => plan'[t] = plan[t]
  BY <1>0, <1>3 DEF TypeOK
<1>6. /\ Len(queue'[q]) = n + 1 /\ queue'[q][n + 1] = m
      /\ \A i \in 1..n : queue'[q][i] = queue[q][i]
      /\ \A i \in 1..n + 1 : i \in 1..n \/ i = n + 1
  BY <1>0, <1>4, <1>5
<1>a. /\ \A o \in Procs : \A i \in 1..Len(queue[o]) :
           i \in 1..Len(queue'[o]) /\ queue'[o][i] = queue[o][i]
      /\ \A o \in Procs : \A i \in 1..Len(queue'[o]) :
           i \in 1..Len(queue[o]) \/ (o = q /\ i = n + 1)
      /\ \A o \in Procs : \A i \in 1..Len(queue[o]) : \A j \in 1..i - 1 : j \in 1..Len(queue[o])
  <2>1. \A o \in Procs : Len(queue[o]) \in Nat
    BY <1>0, Types
  <2>2. \A o \in Procs : \A i \in 1..Len(queue[o]) : \A j \in 1..i - 1 : j \in 1..Len(queue[o])
    BY <2>1
  <2>3. \A i \in 1..n : i \in 1..n + 1
    BY <1>0
  <2>4. ASSUME NEW o \in Procs, o # q
        PROVE  Len(queue'[o]) = Len(queue[o]) /\ queue'[o] = queue[o]
    BY <1>5, <2>4
  <2>5. ASSUME NEW o \in Procs, NEW i \in 1..Len(queue[o])
        PROVE  i \in 1..Len(queue'[o]) /\ queue'[o][i] = queue[o][i]
    <3>1. CASE o = q
      BY <1>6, <2>3, <3>1
    <3>2. CASE o # q
      BY <2>4, <3>2
    <3> QED
      BY <3>1, <3>2
  <2>6. ASSUME NEW o \in Procs, NEW i \in 1..Len(queue'[o])
        PROVE  i \in 1..Len(queue[o]) \/ (o = q /\ i = n + 1)
    <3>1. CASE o = q
      BY <1>6, <3>1
    <3>2. CASE o # q
      BY <2>4, <3>2
    <3> QED
      BY <3>1, <3>2
  <2> QED
    BY <2>2, <2>5, <2>6
<1>7. TypeOK'
  BY <1>0, <1>1, <1>3, <1>4 DEF TypeOK
<1>8. Places' /\ NameKept'
  BY <1>0, <1>3, <1>5 DEF IInv, Places, NameKept, Alone
<1>9. \A t \in Senders : 1..sent[t] \subseteq 1..sent'[t]
  <2>1. 1..sent[s] \subseteq 1..sent[s] + 1
    BY <1>0
  <2> QED
    BY <1>5, <2>1
<1>10. Origin'
  <2>1. m.num \in 1..sent'[m.from]
    BY <1>0, <1>2, <1>5
  <2>2. ASSUME NEW o \in Procs, NEW i \in 1..Len(queue'[o])
        PROVE  (pc[queue[o][i].from] # "start" /\ qfd[queue[o][i].from] = o
                  /\ queue[o][i].num \in 1..sent[queue[o][i].from])'
    <3>1. CASE o = q /\ i = n + 1
      BY <1>0, <1>2, <1>3, <1>6, <2>1, <3>1
    <3>2. CASE ~(o = q /\ i = n + 1)
      <4>1. i \in 1..Len(queue[o]) /\ queue'[o][i] = queue[o][i]
        BY <1>5, <1>6, <2>2, <3>2
      <4>2. /\ pc[queue[o][i].from] # "start" /\ qfd[queue[o][i].from] = o
            /\ queue[o][i].num \in 1..sent[queue[o][i].from]
        BY <4>1 DEF IInv, Origin
      <4>3. queue[o][i].from \in Senders
        BY <1>0, <4>1, Types
      <4>4. queue[o][i].num \in 1..sent'[queue[o][i].from]
        BY <1>9, <4>2, <4>3
      <4> QED
        BY <1>3, <4>1, <4>2, <4>4
    <3> QED
      BY <3>1, <3>2
  <2>3. \A k \in 1..Len(got) : pc'[got[k].from] # "start" /\ got[k].num \in 1..sent'[got[k].from]
    BY <1>0, <1>3, <1>9, Types DEF IInv, Origin
  <2> QED
    BY <1>3, <2>2, <2>3 DEF Origin
<1>11. Numbered'
  <2>1. \A i \in 1..n : queue[q][i].from = s => queue[q][i].num < m.num
    BY <1>0, <1>2, Types DEF IInv, Origin
  <2>2. \A k \in 1..Len(got) : got[k].from = s => got[k].num # m.num
    BY <1>0, <1>2, Types DEF IInv, Origin
  <2>3. ASSUME NEW o \in Procs, NEW i \in 1..Len(queue'[o])
        PROVE  (/\ \A j \in 1..i - 1 :
                     queue[o][j].from = queue[o][i].from => queue[o][j].num < queue[o][i].num
                /\ \A k \in 1..Len(got) :
                     got[k].from = queue[o][i].from => got[k].num # queue[o][i].num)'
    <3>1. CASE o = q /\ i = n + 1
      <4>1. queue'[o][i] = m /\ got' = got /\ i - 1 = n
        BY <1>0, <1>3, <1>6, <3>1
      <4>2. \A j \in 1..i - 1 : queue'[o][j] = queue[q][j]
        BY <1>6, <3>1, <4>1
      <4> QED
        BY <1>2, <2>1, <2>2, <4>1, <4>2
    <3>2. CASE ~(o = q /\ i = n + 1)
      <4>1. i \in 1..Len(queue[o]) /\ queue'[o][i] = queue[o][i]
        BY <1>5, <1>6, <2>3, <3>2
      <4>2. \A j \in 1..i - 1 : queue'[o][j] = queue[o][j]
        BY <1>a, <4>1
      <4> QED
        BY <1>3, <4>1, <4>2 DEF IInv, Numbered
    <3> QED
      BY <3>1, <3>2
  <2> QED
    BY <2>3 DEF Numbered
<1>12. \A r \in Receivers : m \notin counted[r]
  BY <1>0, <1>2 DEF IInv, CountedSent
<1>13. CountedSent'
  <2>1. \A r \in Receivers : \A c \in counted[r] : c.from \in Senders
    BY <1>0 DEF TypeOK, Message
  <2> QED
    BY <1>3, <1>9, <2>1 DEF IInv, CountedSent
<1>14. CountedFirst'
  <2> SUFFICES ASSUME NEW r \in Receivers, pc[r] # "start",
                      NEW i \in 1..Len(queue'[qfd[r]]), NEW j \in 1..i - 1,
                      queue'[qfd[r]][i] \in counted[r]
               PROVE  queue'[qfd[r]][j] \in counted[r]
    BY <1>3 DEF CountedFirst
  <2>1. qfd[r] \in Procs
    BY <1>0, Types DEF IInv, Places
  <2>2. i \in 1..Len(queue[qfd[r]]) /\ queue'[qfd[r]][i] = queue[qfd[r]][i]
    BY <1>5, <1>6, <1>12, <2>1
  <2>3. queue'[qfd[r]][j] = queue[qfd[r]][j]
    BY <1>a, <2>1, <2>2
  <2> QED
    BY <2>2, <2>3 DEF IInv, CountedFirst
<1>15. Remaining'
  <2>1. Range(queue'[q]) = Range(queue[q]) \cup {m}
    <3>1. DOMAIN queue'[q] = 1..n + 1 /\ DOMAIN queue[q] = 1..n
      BY <1>0, <1>4, <1>5
    <3>2. Range(queue[q]) = {queue[q][j] : j \in 1..n} /\ Range(queue'[q]) = {queue'[q][j] : j \in 1..n + 1}
      BY <3>1 DEF Range
    <3>3. \A j \in 1..n : j \in 1..n + 1
      BY <1>0
    <3>4. n + 1 \in 1..n + 1
      BY <1>0
    <3>5. ASSUME NEW x \in Range(queue'[q]) PROVE x \in Range(queue[q]) \cup {m}
      <4>1. PICK j \in 1..n + 1 : x = queue'[q][j]
        BY <3>2
      <4> QED
        BY <1>6, <3>2, <4>1
    <3>6. ASSUME NEW x \in Range(queue[q]) PROVE x \in Range(queue'[q])
      <4>1. PICK j \in 1..n : x = queue[q][j]
        BY <3>2
      <4> QED
        BY <1>6, <3>2, <3>3, <4>1
    <3>7. m \in Range(queue'[q])
      BY <1>6, <3>2, <3>4
    <3> QED
      BY <3>5, <3>6, <3>7
  <2>2. \A r \in Receivers : pc[r] # "start" => Left(r)' = Left(r)
    BY <1>0, <1>3, <1>5, <1>12, <2>1, Types DEF IInv, Places, Left
  <2>3. \A r \in Receivers : \A x : Overtaken(r, x)' = Overtaken(r, x)
    BY <1>3 DEF Overtaken
  <2> QED
    BY <1>3, <2>2, <2>3 DEF IInv, Remaining
<1>16. ASSUME program # "queues_2" PROVE OnePriority'
  <2>0. /\ \A t \in Senders : \A i, j \in 1..Len(plan[t]) : plan[t][i].prio = plan[t][j].prio
        /\ \A o \in Procs : \A i, j \in 1..Len(queue[o]) :
             queue[o][i].from = queue[o][j].from => queue[o][i].prio = queue[o][j].prio
        /\ \A o \in Procs : \A i \in 1..Len(queue[o]) : \A j \in 1..Len(plan[queue[o][i].from]) :
             queue[o][i].prio = plan[queue[o][i].from][j].prio
    BY <1>16 DEF IInv, OnePriority
  <2>1. \A i \in 1..Len(plan'[s]) : plan'[s][i].prio = m.prio
    <3>1. \A i \in 1..Len(plan'[s]) : i + 1 \in 1..Len(plan[s]) /\ plan'[s][i] = plan[s][i + 1]
      BY <1>1, <1>5
    <3>2. 1 \in 1..Len(plan[s])
      BY <1>1
    <3> QED
      BY <1>2, <2>0, <3>1, <3>2
  <2>2. ASSUME NEW i \in 1..n, queue[q][i].from = s PROVE queue[q][i].prio = m.prio
    <3>1. 1 \in 1..Len(plan[queue[q][i].from]) /\ plan[queue[q][i].from] = plan[s]
      BY <1>1, <2>2
    <3>2. queue[q][i].prio = plan[queue[q][i].from][1].prio
      BY <1>0, <2>0, <3>1
    <3> QED
      BY <1>2, <3>1, <3>2
  <2>3. ASSUME NEW t \in Senders
        PROVE  \A i, j \in 1..Len(plan'[t]) : plan'[t][i].prio = plan'[t][j].prio
    <3>1. CASE t = s
      BY <2>1, <3>1
    <3>2. CASE t # s
      BY <1>5, <2>0, <3>2
    <3> QED
      BY <3>1, <3>2
  <2>4. ASSUME NEW o \in Procs, NEW i \in 1..Len(queue'[o]), NEW j \in 1..Len(queue'[o]),
               queue'[o][i].from = queue'[o][j].from
        PROVE  queue'[o][i].prio = queue'[o][j].prio
    <3>1. CASE i \in 1..Len(queue[o]) /\ j \in 1..Len(queue[o])
      BY <1>a, <2>0, <2>4, <3>1
    <3>2. CASE o = q /\ i = n + 1 /\ j \in 1..n
      BY <1>2, <1>6, <2>2, <2>4, <3>2
    <3>3. CASE o = q /\ j = n + 1 /\ i \in 1..n
      BY <1>2, <1>6, <2>2, <2>4, <3>3
    <3>4. CASE i = j
      BY <3>4
    <3> QED
      BY <1>a, <3>1, <3>2, <3>3, <3>4
  <2>5. ASSUME NEW o \in Procs, NEW i \in 1..Len(queue'[o]), NEW j \in 1..Len(plan'[queue'[o][i].from])
        PROVE  queue'[o][i].prio = plan'[queue'[o][i].from][j].prio
    <3>1. CASE queue'[o][i].from = s
      <4>1. o = q
        BY <1>0, <1>3, <1>5, <3>1, <2>5 DEF IInv, Origin
      <4>2. queue'[o][i].prio = m.prio
        BY <1>6, <2>2, <2>5, <3>1, <4>1
      <4>3. plan'[queue'[o][i].from] = plan'[s] /\ j \in 1..Len(plan'[s])
        BY <2>5, <3>1
      <4> QED
        BY <2>1, <4>2, <4>3
    <3>2. CASE queue'[o][i].from # s
      <4>1. i \in 1..Len(queue[o]) /\ queue'[o][i] = queue[o][i]
        BY <1>2, <1>5, <1>6, <2>5, <3>2
      <4>2. queue[o][i].from \in Senders /\ plan'[queue[o][i].from] = plan[queue[o][i].from]
        BY <1>0, <1>5, <3>2, <4>1, Types
      <4>3. /\ queue'[o][i].from = queue[o][i].from /\ j \in 1..Len(plan[queue[o][i].from])
            /\ plan'[queue'[o][i].from] = plan[queue[o][i].from]
        BY <2>5, <4>1, <4>2
      <4> QED
        BY <2>0, <4>1, <4>3
    <3> QED
      BY <3>1, <3>2
  <2> QED
    BY <2>3, <2>4, <2>5 DEF OnePriority
<1>17. ASSUME program # "queues_2" PROVE Complete'
  <2>1. \A t \in Senders, x \in Nat : Received(t, x)' <=> Received(t, x)
    BY <1>3 DEF Received
  <2>2. ASSUME NEW t \in Senders, NEW x \in 1..sent'[t]
        PROVE  \/ Received(t, x)'
               \/ \E i \in 1..Len(queue'[qfd[t]]) :
                    queue'[qfd[t]][i].from = t /\ queue'[qfd[t]][i].num = x
    <3>1. CASE t = s /\ x = sent[s] + 1
      <4>1. n + 1 \in 1..Len(queue'[q]) /\ queue'[q][n + 1].from = t /\ queue'[q][n + 1].num = x
        BY <1>0, <1>2, <1>6, <3>1
      <4> QED
        BY <3>1, <4>1
    <3>2. CASE ~(t = s /\ x = sent[s] + 1)
      <4>1. x \in 1..sent[t] /\ x \in Nat
        BY <1>0, <1>5, <2>2, <3>2, Types
      <4>2. CASE Received(t, x)
        BY <2>1, <4>1, <4>2
      <4>3. CASE ~Received(t, x)
        <5>1. PICK i \in 1..Len(queue[qfd[t]]) : queue[qfd[t]][i].from = t /\ queue[qfd[t]][i].num = x
          BY <1>17, <4>1, <4>3 DEF IInv, Complete
        <5>2. qfd[t] \in Procs
          <6>1. pc[t] # "start"
            BY <1>0, <4>1, Types DEF IInv, Places
          <6> QED
            BY <1>0, <6>1, Types DEF IInv, Places
        <5>3. i \in 1..Len(queue'[qfd[t]]) /\ queue'[qfd[t]][i] = queue[qfd[t]][i]
          BY <1>a, <5>2
        <5> QED
          BY <5>1, <5>3
      <4> QED
        BY <4>2, <4>3
    <3> QED
      BY <3>1, <3>2
  <2>3. ASSUME NEW o \in Procs, NEW i \in 1..Len(queue'[o]), NEW k \in 1..Len(got),
               got[k].from = queue'[o][i].from
        PROVE  got[k].num < queue'[o][i].num
    <3>1. CASE o = q /\ i = n + 1
      <4>1. got[k].num \in 1..sent[s]
        <5>1. got[k].from = s
          BY <1>2, <1>6, <2>3, <3>1
        <5> QED
          BY <2>3, <5>1 DEF IInv, Origin
      <4>2. queue'[o][i].num = sent[s] + 1
        BY <1>2, <1>6, <3>1
      <4> QED
        BY <1>0, <4>1, <4>2
    <3>2. CASE ~(o = q /\ i = n + 1)
      <4>1. i \in 1..Len(queue[o]) /\ queue'[o][i] = queue[o][i]
        BY <1>5, <1>6, <2>3, <3>2
      <4> QED
        BY <1>3, <1>17, <2>3, <4>1 DEF IInv, Complete
    <3> QED
      BY <3>1, <3>2
  <2>4. ASSUME NEW t \in Senders, NEW x \in 1..sent'[t]
        PROVE  \/ Received(t, x)'
               \/ \E i \in 1..Len(queue'[qfd'[t]]) :
                    queue'[qfd'[t]][i].from = t /\ queue'[qfd'[t]][i].num = x
    <3>1. qfd' = qfd
      BY <1>3
    <3> QED
      BY <2>2, <3>1
  <2>5. ASSUME NEW o \in Procs, NEW i \in 1..Len(queue'[o]), NEW k \in 1..Len(got')
        PROVE  got'[k].from = queue'[o][i].from => got'[k].num < queue'[o][i].num
    <3>1. got' = got
      BY <1>3
    <3> QED
      BY <2>3, <3>1
  <2> QED
    BY <2>4, <2>5 DEF Complete
<1>18. OnePriority' /\ Complete' /\ ReceivedInOrder'
  <2>1. CASE program # "queues_2"
    BY <1>3, <1>16, <1>17, <2>1 DEF IInv, ReceivedInOrder
  <2>2. CASE program = "queues_2"
    BY <1>3, <2>2 DEF OnePriority, Complete, ReceivedInOrder
  <2> QED
    BY <2>1, <2>2
<1> QED
  BY <1>7, <1>8, <1>10, <1>11, <1>13, <1>14, <1>15, <1>18 DEF IInv


\* mq_receive.  Index j of a queue without its message i is index At(j) of the queue
\* with it.
LEMMA ReceiveStep == ASSUME IInv, NEW r \in Receivers, Receive(r) PROVE IInv'
<1> DEFINE q == qfd[r]
           n == Len(queue[q])
           i == Foremost(queue[q])
           m == queue[q][i]
           g == Len(got)
           At(o, j) == IF o = q /\ ~(j < i) THEN j + 1 ELSE j
<1>0. /\ TypeOK /\ pc[r] = "receive" /\ r \in Procs /\ r \notin Senders /\ q \in Procs
      /\ queue[q] # <<>> /\ n \in Nat /\ queue[q] \in Seq(Message) /\ msg_num[r] \in Nat
      /\ msg_num[r] > 0 /\ g \in Nat /\ got \in Seq(Message)
  <2>1. TypeOK /\ pc[r] = "receive" /\ queue[q] # <<>>
    BY DEF IInv, Receive
  <2>2. r \in Procs /\ r \notin Senders /\ g \in Nat /\ got \in Seq(Message)
    BY <2>1, Types
  <2>3. q \in Procs /\ msg_num[r] > 0 /\ msg_num[r] \in Nat
    BY <2>1, <2>2 DEF IInv, Places, TypeOK
  <2> QED
    BY <2>1, <2>2, <2>3, Types
<1>1. /\ i \in 1..n
      /\ \A j \in 1..n : queue[q][j].prio < m.prio \/ (queue[q][j].prio = m.prio /\ i <= j)
  BY <1>0, ForemostProperties
<1>2. /\ queue' = [queue EXCEPT ![q] = RemoveAt(queue[q], i)] /\ got' = Append(got, m)
      /\ msg_num' = [msg_num EXCEPT ![r] = msg_num[r] - 1]
      /\ pc' = [pc EXCEPT ![r] = AfterReceive(r)]
      /\ nbytes' = [nbytes EXCEPT ![r] = nbytes[r] \/ program # "queues_3" \/ ~m.empty]
      /\ UNCHANGED <<program, plan, sent, name, qfd, counted>>
  BY DEF Receive, Goto
<1>3. /\ m \in Message /\ m.from \in Senders /\ m.num \in Nat /\ m.prio \in Nat
      /\ m.empty \in BOOLEAN
  BY <1>0, <1>1, Types DEF Message
<1> HIDE DEF i
<1>4. /\ RemoveAt(queue[q], i) \in Seq(Message) /\ Len(RemoveAt(queue[q], i)) = n - 1
      /\ \A j \in 1..n - 1 : RemoveAt(queue[q], i)[j] = IF j < i THEN queue[q][j] ELSE queue[q][j + 1]
  BY <1>0, <1>1, RemoveAtProperties
<1> HIDE DEF m
<1>5. /\ queue'[q] = RemoveAt(queue[q], i) /\ \A o \in Procs : o # q => queue'[o] = queue[o]
      /\ msg_num'[r] = msg_num[r] - 1 /\ \A o \in Receivers : o # r => msg_num'[o] = msg_num[o]
      /\ pc'[r] = AfterReceive(r) /\ \A o \in Procs : o # r => pc'[o] = pc[o]
  BY <1>0, <1>2 DEF TypeOK
<1>6. /\ got' \in Seq(Message) /\ Len(got') = g + 1 /\ got'[g + 1] = m
      /\ \A k \in 1..g : got'[k] = got[k]
      /\ \A k \in 1..g + 1 : k \in 1..g \/ k = g + 1
  BY <1>0, <1>2, <1>3, AppendProperties
<1>7. /\ AfterReceive(r) \in {"unlink", "done", "receive", "relook"}
      /\ (AfterReceive(r) = "receive" => msg_num[r] # 1)
      /\ (AfterReceive(r) = "unlink" => msg_num[r] = 1)
  BY <1>0 DEF TypeOK, AfterReceive
<1>8. \A o \in Procs : \A j \in 1..Len(queue'[o]) :
        At(o, j) \in 1..Len(queue[o]) /\ queue'[o][j] = queue[o][At(o, j)] /\ ~(o = q /\ At(o, j) = i)
  <2> SUFFICES ASSUME NEW o \in Procs, NEW j \in 1..Len(queue'[o])
               PROVE  At(o, j) \in 1..Len(queue[o]) /\ queue'[o][j] = queue[o][At(o, j)]
                        /\ ~(o = q /\ At(o, j) = i)
    OBVIOUS
  <2>1. CASE o = q
    <3>1. j \in 1..n - 1 /\ queue'[o][j] = IF j < i THEN queue[q][j] ELSE queue[q][j + 1]
      BY <1>4, <1>5, <2>1
    <3>2. CASE j < i
      <4>1. j \in 1..n /\ j # i /\ At(o, j) = j
        BY <1>0, <1>1, <3>1, <3>2
      <4> QED
        BY <2>1, <3>1, <3>2, <4>1
    <3>3. CASE ~(j < i)
      <4>1. j + 1 \in 1..n /\ j + 1 # i /\ At(o, j) = j + 1
        BY <1>0, <1>1, <2>1, <3>1, <3>3
      <4> QED
        BY <2>1, <3>1, <3>3, <4>1
    <3> QED
      BY <3>2, <3>3
  <2>2. CASE o # q
    BY <1>5, <2>2
  <2> QED
    BY <2>1, <2>2
<1>9. \A o \in Procs : \A k \in 1..Len(queue'[o]) : \A j \in 1..k - 1 :
        j \in 1..Len(queue'[o]) /\ At(o, j) \in 1..At(o, k) - 1
  <2>1. \A o \in Procs : Len(queue'[o]) \in Nat
    BY <1>0, <1>1, <1>4, <1>5, Types
  <2> QED
    BY <1>1, <2>1
<1>10. \A o \in Procs : \A k \in 1..Len(queue[o]) : ~(o = q /\ k = i) =>
         \E j \in 1..Len(queue'[o]) : queue'[o][j] = queue[o][k]
  <2> SUFFICES ASSUME NEW o \in Procs, NEW k \in 1..Len(queue[o]), ~(o = q /\ k = i)
               PROVE  \E j \in 1..Len(queue'[o]) : queue'[o][j] = queue[o][k]
    OBVIOUS
  <2>1. CASE o # q
    BY <1>5, <2>1
  <2>2. CASE o = q /\ k < i
    <3>1. k \in 1..n - 1
      BY <1>0, <1>1, <2>2
    <3> QED
      BY <1>4, <1>5, <2>2, <3>1
  <2>3. CASE o = q /\ i < k
    <3>1. k - 1 \in 1..n - 1 /\ ~(k - 1 < i) /\ (k - 1) + 1 = k
      BY <1>0, <1>1, <2>3
    <3> QED
      BY <1>4, <1>5, <2>3, <3>1
  <2> QED
    BY <1>0, <1>1, <2>1, <2>2, <2>3
<1>11. /\ pc[m.from] # "start" /\ qfd[m.from] = q /\ m.num \in 1..sent[m.from]
       /\ \A k \in 1..g : got[k].from = m.from => got[k].num # m.num
  BY <1>0, <1>1 DEF IInv, Origin, Numbered, m
<1>12. \A k \in 1..n : k # i => ~(queue[q][k].from = m.from /\ queue[q][k].num = m.num)
  <2>1. \A k \in 1..n : queue[q][k].num \in Nat /\ (k # i => k \in 1..i - 1 \/ i \in 1..k - 1)
    BY <1>0, <1>1, Types
  <2>2. ASSUME NEW k \in 1..n, k \in 1..i - 1, queue[q][k].from = m.from
        PROVE  queue[q][k].num < m.num
    BY <1>0, <1>1, <2>2 DEF IInv, Numbered, m
  <2>3. ASSUME NEW k \in 1..n, i \in 1..k - 1, queue[q][k].from = m.from
        PROVE  m.num < queue[q][k].num
    BY <1>0, <1>1, <2>3 DEF IInv, Numbered, m
  <2> QED
    BY <1>3, <2>1, <2>2, <2>3
<1>13. \A o \in Procs : \A j \in 1..Len(queue'[o]) :
         queue'[o][j].from = m.from => o = q /\ queue'[o][j].num # m.num
  <2> SUFFICES ASSUME NEW o \in Procs, NEW j \in 1..Len(queue'[o]), queue'[o][j].from = m.from
               PROVE  o = q /\ queue'[o][j].num # m.num
    OBVIOUS
  <2>1. /\ At(o, j) \in 1..Len(queue[o]) /\ queue'[o][j] = queue[o][At(o, j)]
        /\ ~(o = q /\ At(o, j) = i)
    BY <1>8
  <2> HIDE DEF At
  <2>2. qfd[queue[o][At(o, j)].from] = o
    BY <2>1 DEF IInv, Origin
  <2>3. o = q
    BY <1>11, <2>1, <2>2
  <2> QED
    BY <1>12, <2>1, <2>3
<1> HIDE DEF At
<1>14. TypeOK'
  BY <1>0, <1>1, <1>2, <1>3, <1>4, <1>6, <1>7 DEF TypeOK
<1>15. Places'
  BY <1>0, <1>2, <1>5, <1>7, Types DEF IInv, Places
<1>16. NameKept'
  <2> SUFFICES ASSUME NEW o \in Receivers, pc'[o] \notin {"start", "done"}, Alone(o)'
               PROVE  name = qfd[o]
    BY <1>2 DEF NameKept
  <2>1. o = r
    BY <1>5, <1>7 DEF Alone
  <2>2. Alone(r)
    BY <1>0, <1>5, <2>1, Types DEF Alone
  <2> QED
    BY <1>0, <2>1, <2>2 DEF IInv, NameKept
<1>17. Origin'
  <2>1. \A t \in Senders : pc'[t] = pc[t]
    BY <1>0, <1>5, Types
  <2>2. ASSUME NEW o \in Procs, NEW j \in 1..Len(queue'[o])
        PROVE  (pc[queue[o][j].from] # "start" /\ qfd[queue[o][j].from] = o
                  /\ queue[o][j].num \in 1..sent[queue[o][j].from])'
    <3>1. At(o, j) \in 1..Len(queue[o]) /\ queue'[o][j] = queue[o][At(o, j)]
      BY <1>8, <2>2
    <3>2. /\ pc[queue[o][At(o, j)].from] # "start" /\ qfd[queue[o][At(o, j)].from] = o
          /\ queue[o][At(o, j)].num \in 1..sent[queue[o][At(o, j)].from]
      BY <3>1 DEF IInv, Origin
    <3>3. queue[o][At(o, j)].from \in Senders
      BY <1>0, <3>1, Types
    <3> QED
      BY <1>2, <2>1, <3>1, <3>2, <3>3
  <2>3. ASSUME NEW k \in 1..g + 1
        PROVE  pc'[got'[k].from] # "start" /\ got'[k].num \in 1..sent'[got'[k].from]
    BY <1>0, <1>2, <1>3, <1>6, <1>11, <2>1, Types DEF IInv, Origin
  <2> QED
    BY <1>6, <2>2, <2>3 DEF Origin
<1>18. Numbered'
  <2> SUFFICES ASSUME NEW o \in Procs, NEW j \in 1..Len(queue'[o])
               PROVE  (/\ \A k \in 1..j - 1 :
                            queue[o][k].from = queue[o][j].from => queue[o][k].num < queue[o][j].num
                       /\ \A k \in 1..Len(got) :
                            got[k].from = queue[o][j].from => got[k].num # queue[o][j].num)'
    BY DEF Numbered
  <2>1. \A k \in 1..j - 1 :
          queue'[o][k].from = queue'[o][j].from => queue'[o][k].num < queue'[o][j].num
    <3> SUFFICES ASSUME NEW k \in 1..j - 1, queue'[o][k].from = queue'[o][j].from
                 PROVE  queue'[o][k].num < queue'[o][j].num
      OBVIOUS
    <3>1. k \in 1..Len(queue'[o]) /\ At(o, k) \in 1..At(o, j) - 1
      BY <1>9
    <3>2. At(o, j) \in 1..Len(queue[o]) /\ queue'[o][j] = queue[o][At(o, j)]
      BY <1>8
    <3>3. queue'[o][k] = queue[o][At(o, k)]
      BY <1>8, <3>1
    <3> QED
      BY <3>1, <3>2, <3>3 DEF IInv, Numbered
  <2>2. \A k \in 1..g + 1 : got'[k].from = queue'[o][j].from => got'[k].num # queue'[o][j].num
    <3> SUFFICES ASSUME NEW k \in 1..g + 1, got'[k].from = queue'[o][j].from
                 PROVE  got'[k].num # queue'[o][j].num
      OBVIOUS
    <3>1. CASE k = g + 1
      BY <1>6, <1>13, <3>1
    <3>2. CASE k \in 1..g
      <4>1. /\ At(o, j) \in 1..Len(queue[o]) /\ queue'[o][j] = queue[o][At(o, j)]
            /\ got'[k] = got[k] /\ k \in 1..Len(got)
        BY <1>6, <1>8, <3>2
      <4>2. got[k].from = queue[o][At(o, j)].from => got[k].num # queue[o][At(o, j)].num
        BY <4>1 DEF IInv, Numbered
      <4> QED
        BY <4>1, <4>2
    <3> QED
      BY <1>6, <3>1, <3>2
  <2> QED
    BY <1>6, <2>1, <2>2
<1>19. CountedSent'
  BY <1>2 DEF IInv, CountedSent
<1>20. CountedFirst'
  <2> SUFFICES ASSUME NEW o \in Receivers, pc'[o] # "start", NEW j \in 1..Len(queue'[qfd[o]]),
                      NEW k \in 1..j - 1, queue'[qfd[o]][j] \in counted[o]
               PROVE  queue'[qfd[o]][k] \in counted[o]
    BY <1>2 DEF CountedFirst
  <2>1. pc[o] # "start" /\ qfd[o] \in Procs
    BY <1>0, <1>5, Types DEF IInv, Places
  <2> QED
    BY <1>8, <1>9, <2>1 DEF IInv, CountedFirst
<1>21. \A o \in Receivers : \A x : Overtaken(o, x) => Overtaken(o, x)'
  <2>1. \A x \in Range(got) : x \in Range(got')
    <3>1. DOMAIN got = 1..g /\ DOMAIN got' = 1..g + 1 /\ \A k \in 1..g : k \in 1..g + 1
      BY <1>0, <1>6
    <3> QED
      BY <1>6, <3>1 DEF Range
  <2> QED
    BY <1>2, <2>1 DEF Overtaken
<1>22. \A o \in Receivers : pc[o] # "start" =>
         /\ Left(o)' \subseteq Left(o) /\ IsFiniteSet(Left(o)) /\ IsFiniteSet(Left(o)')
         /\ Cardinality(Left(o)') <= Cardinality(Left(o))
         /\ Cardinality(Left(o)) \in Nat /\ Cardinality(Left(o)') \in Nat
  <2> SUFFICES ASSUME NEW o \in Receivers, pc[o] # "start"
               PROVE  /\ Left(o)' \subseteq Left(o) /\ IsFiniteSet(Left(o)) /\ IsFiniteSet(Left(o)')
                      /\ Cardinality(Left(o)') <= Cardinality(Left(o))
                      /\ Cardinality(Left(o)) \in Nat /\ Cardinality(Left(o)') \in Nat
    OBVIOUS
  <2>1. qfd[o] \in Procs /\ queue[qfd[o]] \in Seq(Message) /\ queue'[qfd[o]] \in Seq(Message)
    BY <1>0, <1>4, <1>5, Types DEF IInv, Places
  <2>2. Range(queue'[qfd[o]]) \subseteq Range(queue[qfd[o]])
    BY <1>8, <2>1 DEF Range
  <2>3. Left(o)' \subseteq Left(o) /\ Left(o) \subseteq Range(queue[qfd[o]])
    BY <1>2, <2>2 DEF Left
  <2>4. IsFiniteSet(Left(o))
    BY <2>1, <2>3, RangeOfQueue, FS_Subset
  <2> QED
    BY <2>3, <2>4, FS_Subset, FS_CardinalityType
<1>23. Remaining'
  <2> SUFFICES ASSUME NEW o \in Receivers, pc'[o] \in {"receive", "unlink"}
               PROVE  \/ \A x \in Left(o)' : Overtaken(o, x)'
                      \/ Cardinality(Left(o)') <= msg_num'[o]
    BY DEF Remaining
  <2>1. pc[o] \in {"receive", "unlink"}
    BY <1>0, <1>5, Types
  <2>2. (\A x \in Left(o) : Overtaken(o, x)) \/ Cardinality(Left(o)) <= msg_num[o]
    BY <2>1 DEF IInv, Remaining
  <2>3. CASE \A x \in Left(o) : Overtaken(o, x)
    BY <1>21, <1>22, <2>1, <2>3
  <2>4. CASE o # r /\ Cardinality(Left(o)) <= msg_num[o]
    <3>1. msg_num'[o] = msg_num[o] /\ msg_num[o] \in Nat
      BY <1>0, <1>5, <2>4 DEF TypeOK
    <3> QED
      BY <1>22, <2>1, <2>4, <3>1
  <2>5. CASE o = r /\ m \in counted[r] /\ Cardinality(Left(r)) <= msg_num[r]
    <3>1. m \in Left(r)
      BY <1>0, <1>1, <2>5 DEF Left, Range, m
    <3>2. m \notin Range(queue'[q])
      <4>1. \A j \in 1..Len(queue'[q]) : queue'[q][j] # m
        BY <1>0, <1>13
      <4>2. DOMAIN queue'[q] = 1..Len(queue'[q])
        BY <1>4, <1>5
      <4> QED
        BY <4>1, <4>2 DEF Range
    <3>3. Left(r)' \subseteq Left(r) \ {m}
      BY <1>0, <1>2, <1>22, <3>2 DEF Left
    <3>4. /\ IsFiniteSet(Left(r) \ {m})
          /\ Cardinality(Left(r) \ {m}) = Cardinality(Left(r)) - 1
      BY <1>0, <1>22, <3>1, FS_RemoveElement
    <3>5. Cardinality(Left(r)') <= Cardinality(Left(r) \ {m})
      BY <3>3, <3>4, FS_Subset
    <3> QED
      BY <1>0, <1>5, <1>22, <2>5, <3>4, <3>5
  <2>6. CASE o = r /\ m \notin counted[r]
    <3>1. m \in Range(got') \ counted'[r]
      BY <1>0, <1>2, <1>6, <2>6 DEF Range
    <3>2. ASSUME NEW x \in Left(r) PROVE x.prio < m.prio
      <4>1. PICK j \in 1..n : x = queue[q][j] /\ x \in counted[r]
        BY <1>0 DEF Left, Range
      <4>2. ~(i \in 1..j - 1) /\ i # j
        BY <1>0, <1>1, <2>6, <4>1 DEF IInv, CountedFirst, m
      <4>3. ~(i <= j)
        BY <1>0, <1>1, <4>2
      <4> QED
        BY <1>1, <4>1, <4>3
    <3>3. \A x \in Left(r)' : x.prio < m.prio /\ x \in Message
      <4>1. Left(r) \subseteq Message
        BY <1>0 DEF TypeOK, Left
      <4> QED
        BY <1>0, <1>22, <3>2, <4>1
    <3>4. \A x \in Left(r)' : m.prio > x.prio
      BY <1>3, <3>3 DEF Message
    <3>5. \A x \in Left(r)' : Overtaken(r, x)'
      BY <3>1, <3>4 DEF Overtaken
    <3> QED
      BY <2>6, <3>5
  <2> QED
    BY <2>2, <2>3, <2>4, <2>5, <2>6
<1>24. ASSUME program # "queues_2" PROVE OnePriority'
  <2>1. \A o \in Procs : \A j \in 1..Len(queue'[o]) : \A k \in 1..Len(queue'[o]) :
          queue'[o][j].from = queue'[o][k].from => queue'[o][j].prio = queue'[o][k].prio
    <3> SUFFICES ASSUME NEW o \in Procs, NEW j \in 1..Len(queue'[o]), NEW k \in 1..Len(queue'[o])
                 PROVE  queue'[o][j].from = queue'[o][k].from
                          => queue'[o][j].prio = queue'[o][k].prio
      OBVIOUS
    <3>1. /\ At(o, j) \in 1..Len(queue[o]) /\ queue'[o][j] = queue[o][At(o, j)]
          /\ At(o, k) \in 1..Len(queue[o]) /\ queue'[o][k] = queue[o][At(o, k)]
      BY <1>8
    <3>2. queue[o][At(o, j)].from = queue[o][At(o, k)].from
            => queue[o][At(o, j)].prio = queue[o][At(o, k)].prio
      BY <1>24, <3>1 DEF IInv, OnePriority
    <3> QED
      BY <3>1, <3>2
  <2>2. ASSUME NEW o \in Procs, NEW j \in 1..Len(queue'[o])
        PROVE  \A k \in 1..Len(plan[queue'[o][j].from]) :
                 queue'[o][j].prio = plan[queue'[o][j].from][k].prio
    <3>1. At(o, j) \in 1..Len(queue[o]) /\ queue'[o][j] = queue[o][At(o, j)]
      BY <1>8
    <3>2. \A k \in 1..Len(plan[queue[o][At(o, j)].from]) :
            queue[o][At(o, j)].prio = plan[queue[o][At(o, j)].from][k].prio
      BY <1>24, <3>1 DEF IInv, OnePriority
    <3> QED
      BY <3>1, <3>2
  <2>3. \A t \in Senders : \A j, k \in 1..Len(plan[t]) : plan[t][j].prio = plan[t][k].prio
    BY <1>24 DEF IInv, OnePriority
  <2>4. plan' = plan
    BY <1>2
  <2>5. \A t \in Senders : \A j, k \in 1..Len(plan'[t]) : plan'[t][j].prio = plan'[t][k].prio
    BY <2>3, <2>4
  <2>6. ASSUME NEW o \in Procs, NEW j \in 1..Len(queue'[o])
        PROVE  \A k \in 1..Len(plan'[queue'[o][j].from]) :
                 queue'[o][j].prio = plan'[queue'[o][j].from][k].prio
    BY <2>2, <2>4
  <2> QED
    BY <2>1, <2>5, <2>6 DEF OnePriority
<1>25. ASSUME program # "queues_2", NEW k \in 1..n, k # i, queue[q][k].from = m.from
       PROVE  m.num < queue[q][k].num
  <2>1. queue[q][k].prio = m.prio
    BY <1>0, <1>1, <1>25 DEF IInv, OnePriority, m
  <2>2. i <= k
    BY <1>1, <1>3, <2>1
  <2>3. i \in 1..k - 1
    BY <1>0, <1>1, <1>25, <2>2
  <2> QED
    BY <1>0, <1>25, <2>3 DEF IInv, Numbered, m
<1>26. ASSUME program # "queues_2" PROVE Complete'
  <2>1. ASSUME NEW t \in Senders, NEW x \in 1..sent[t]
        PROVE  \/ Received(t, x)'
               \/ \E j \in 1..Len(queue'[qfd[t]]) :
                    queue'[qfd[t]][j].from = t /\ queue'[qfd[t]][j].num = x
    <3>1. CASE Received(t, x)
      <4>1. PICK k \in 1..g : got[k].from = t /\ got[k].num = x
        BY <3>1 DEF Received
      <4>2. k \in 1..g + 1 /\ got'[k] = got[k]
        BY <1>0, <1>6
      <4> QED
        BY <1>6, <4>1, <4>2 DEF Received
    <3>2. CASE ~Received(t, x)
      <4>1. PICK k \in 1..Len(queue[qfd[t]]) : queue[qfd[t]][k].from = t /\ queue[qfd[t]][k].num = x
        BY <1>26, <3>2 DEF IInv, Complete
      <4>2. qfd[t] \in Procs
        <5>1. pc[t] # "start"
          BY <1>0, Types DEF IInv, Places
        <5> QED
          BY <1>0, <5>1, Types DEF IInv, Places
      <4>3. CASE qfd[t] = q /\ k = i
        <5>1. got'[g + 1].from = t /\ got'[g + 1].num = x /\ g + 1 \in 1..Len(got')
          BY <1>0, <1>6, <4>1, <4>3 DEF m
        <5> QED
          BY <5>1 DEF Received
      <4>4. CASE ~(qfd[t] = q /\ k = i)
        BY <1>10, <4>1, <4>2, <4>4
      <4> QED
        BY <4>3, <4>4
    <3> QED
      BY <3>1, <3>2
  <2>2. ASSUME NEW o \in Procs, NEW j \in 1..Len(queue'[o]), NEW k \in 1..g + 1,
               got'[k].from = queue'[o][j].from
        PROVE  got'[k].num < queue'[o][j].num
    <3>1. CASE k = g + 1
      <4>1. o = q
        BY <1>6, <1>13, <2>2, <3>1
      <4> QED
        BY <1>6, <1>8, <1>25, <1>26, <2>2, <3>1, <4>1
    <3>2. CASE k \in 1..g
      <4>1. /\ At(o, j) \in 1..Len(queue[o]) /\ queue'[o][j] = queue[o][At(o, j)]
            /\ got'[k] = got[k] /\ k \in 1..Len(got)
        BY <1>6, <1>8, <3>2
      <4>2. got[k].from = queue[o][At(o, j)].from => got[k].num < queue[o][At(o, j)].num
        BY <1>26, <4>1 DEF IInv, Complete
      <4> QED
        BY <2>2, <4>1, <4>2
    <3> QED
      BY <1>6, <3>1, <3>2
  <2> QED
    BY <1>2, <1>6, <2>1, <2>2 DEF Complete
<1>27. ASSUME program # "queues_2" PROVE ReceivedInOrder'
  <2> DEFINE Nums(s, k) == {s[j].num : j \in {l \in 1..k - 1 : s[l].from = s[k].from}}
  <2>1. ASSUME NEW k \in 1..g PROVE Nums(got', k) = 1..got'[k].num - 1
    <3>1. Nums(got', k) = Nums(got, k)
      <4>1. \A l \in 1..k - 1 : got'[l] = got[l] /\ got'[k] = got[k]
        BY <1>0, <1>6
      <4> QED
        BY <1>6, <4>1
    <3>2. Nums(got, k) = 1..got[k].num - 1
      BY <1>0, <1>27 DEF IInv, ReceivedInOrder
    <3> QED
      BY <1>6, <3>1, <3>2
  <2>2. Nums(got', g + 1) = 1..m.num - 1
    <3>1. ASSUME NEW x \in 1..m.num - 1 PROVE x \in Nums(got', g + 1)
      <4>1. x \in 1..sent[m.from] /\ x < m.num
        BY <1>0, <1>3, <1>11, Types
      <4>2. Received(m.from, x)
        <5> SUFFICES ASSUME ~Received(m.from, x) PROVE FALSE
          OBVIOUS
        <5>1. PICK k \in 1..n : queue[q][k].from = m.from /\ queue[q][k].num = x
          BY <1>3, <1>11, <1>27, <4>1 DEF IInv, Complete
        <5>2. k # i
          BY <1>3, <4>1, <5>1 DEF m
        <5> QED
          BY <1>3, <1>25, <1>27, <4>1, <5>1, <5>2
      <4>3. PICK k \in 1..g : got[k].from = m.from /\ got[k].num = x
        BY <4>2 DEF Received
      <4>4. k \in 1..(g + 1) - 1 /\ got'[k] = got[k]
        BY <1>0, <1>6
      <4> QED
        BY <1>6, <4>3, <4>4
    <3>2. ASSUME NEW x \in Nums(got', g + 1) PROVE x \in 1..m.num - 1
      <4>1. PICK k \in 1..(g + 1) - 1 : got'[k].from = got'[g + 1].from /\ x = got'[k].num
        OBVIOUS
      <4>2. k \in 1..g /\ got[k].from = m.from /\ x = got[k].num
        BY <1>0, <1>6, <4>1
      <4>3. got[k].num < m.num
        BY <1>0, <1>1, <1>27, <4>2 DEF IInv, Complete, m
      <4>4. x \in Nat /\ x >= 1
        BY <1>0, <4>2, Types DEF IInv, Origin
      <4> QED
        BY <1>3, <4>2, <4>3, <4>4
    <3> HIDE DEF Nums
    <3> QED
      BY <3>1, <3>2
  <2>3. DOMAIN got' = 1..g + 1
    BY <1>6
  <2> HIDE DEF Nums
  <2>4. \A k \in DOMAIN got' : Nums(got', k) = 1..got'[k].num - 1
    BY <1>6, <2>1, <2>2, <2>3
  <2> QED
    BY <2>4 DEF ReceivedInOrder, Nums
<1>28. OnePriority' /\ Complete' /\ ReceivedInOrder'
  <2>1. CASE program # "queues_2"
    BY <1>24, <1>26, <1>27, <2>1
  <2>2. CASE program = "queues_2"
    BY <1>2, <2>2 DEF OnePriority, Complete, ReceivedInOrder
  <2> QED
    BY <2>1, <2>2
<1> QED
  BY <1>14, <1>15, <1>16, <1>17, <1>18, <1>19, <1>20, <1>23, <1>28 DEF IInv

-----------------------------------------------------------------------------
\* In the plans of task 1 and task 3 all messages have one priority.
LEMMA PlansAreTyped ==
  ASSUME NEW prog \in Programs, NEW p \in Plans(prog)
  PROVE  /\ p \in Seq(Chunk)
         /\ prog # "queues_2" => \A i, j \in 1..Len(p) : p[i].prio = p[j].prio
<1>1. \A x \in Nat : File(x, TRUE) \in Chunk /\ File(x, FALSE) \in Chunk
  BY DEF File, Chunk
<1>5. /\ \A c \in Chunk : /\ <<c>> \in Seq(Chunk)
                            /\ \A i, j \in 1..Len(<<c>>) : <<c>>[i] = <<c>>[j]
      /\ \A c, d \in Chunk : <<c, d>> \in Seq(Chunk)
      /\ <<>> \in Seq(Chunk) /\ Len(<<>>) = 0
  <2> SUFFICES ASSUME NEW c \in Chunk, NEW d \in Chunk
               PROVE  /\ <<c>> \in Seq(Chunk) /\ \A i, j \in 1..Len(<<c>>) : <<c>>[i] = <<c>>[j]
                      /\ <<c, d>> \in Seq(Chunk)
    BY EmptySeq
  <2>1. Len(<<c>>) = 1 /\ <<c>> \in Seq(Chunk) /\ <<c, d>> \in Seq(Chunk)
    OBVIOUS
  <2> QED
    BY <2>1
<1>2. CASE prog = "queues_1"
  <2>1. p \in {<<>>, <<File(7, FALSE)>>, <<File(7, TRUE)>>}
    BY <1>2 DEF Plans, Queues1Plans
  <2>2. p = <<>> \/ \E c \in Chunk : p = <<c>>
    BY <1>1, <2>1
  <2>3. CASE p = <<>>
    BY <1>5, <2>3
  <2>4. CASE \E c \in Chunk : p = <<c>>
    BY <1>5, <2>4
  <2> QED
    BY <2>2, <2>3, <2>4
<1>3. CASE prog = "queues_2"
  <2>1. p \in {<<>>, <<File(1, FALSE)>>, <<File(2, FALSE)>>, <<File(1, FALSE), File(2, FALSE)>>}
    BY <1>3 DEF Plans, Queues2Plans
  <2>2. p = <<>> \/ (\E c \in Chunk : p = <<c>>) \/ (\E c, d \in Chunk : p = <<c, d>>)
    BY <1>1, <2>1
  <2> QED
    BY <1>3, <1>5, <2>2
<1>4. CASE prog = "queues_3"
  <2>1. p \in Queues3Plans
    BY <1>4 DEF Plans
  <2>2. CASE p = <<>>
    BY <1>5, <2>2
  <2>3. CASE p \in {<<File(x, TRUE)>> : x \in Prios}
    <3>1. PICK x \in Prios : p = <<File(x, TRUE)>>
      BY <2>3
    <3>2. \E c \in Chunk : p = <<c>>
      BY <1>1, <3>1, QueueAssumption
    <3> QED
      BY <1>5, <3>2
  <2> DEFINE Chunks(x) == {[i \in 1..n |-> File(x, FALSE)] : n \in 1..MaxChunks}
             Empty == {<<File(x, TRUE)>> : x \in Prios}
  <2>5. p = <<>> \/ p \in Empty \/ \E x \in Prios : p \in Chunks(x)
    <3>1. Queues3Plans = {<<>>} \cup Empty \cup UNION {Chunks(x) : x \in Prios}
      BY Zenon DEF Queues3Plans
    <3> HIDE DEF Chunks, Empty
    <3> QED
      BY <2>1, <3>1
  <2>4. CASE \E x \in Prios : p \in Chunks(x)
    <3>1. PICK x \in Prios, n \in 1..MaxChunks : p = [i \in 1..n |-> File(x, FALSE)]
      BY <2>4, Zenon
    <3>2. n \in Nat /\ x \in Nat
      BY QueueAssumption
    <3>3. PICK c \in Chunk : c = File(x, FALSE)
      BY <1>1, <3>2
    <3>4. p = [i \in 1..n |-> c]
      BY <3>1, <3>3
    <3>5. p \in Seq(Chunk) /\ Len(p) = n
      BY <3>2, <3>4
    <3> QED
      BY <3>4, <3>5
  <2> QED
    BY <2>2, <2>3, <2>4, <2>5, Zenon
<1> QED
  BY <1>2, <1>3, <1>4, QueueAssumption

LEMMA InitInv == Init => IInv
<1> SUFFICES ASSUME Init PROVE IInv
  OBVIOUS
<1>1. /\ program \in Programs /\ plan \in [Senders -> Plans(program)]
      /\ \A s \in Senders : sent[s] = 0
      /\ \A q \in Procs : queue[q] = <<>> /\ Len(queue[q]) = 0
      /\ \A p \in Procs : pc[p] = "start"
      /\ \A r \in Receivers : counted[r] = {}
      /\ got = <<>> /\ Len(got) = 0 /\ DOMAIN got = {}
  BY DEF Init, Queues
<1>2. /\ \A s \in Senders : plan[s] \in Seq(Chunk)
      /\ program # "queues_2" => \A s \in Senders : \A i, j \in 1..Len(plan[s]) :
                                   plan[s][i].prio = plan[s][j].prio
  BY <1>1, PlansAreTyped
<1>3. TypeOK
  BY <1>1, <1>2, QueueAssumption DEF Init, TypeOK, Queues, Procs
<1>4. Places /\ NameKept /\ CountedSent /\ CountedFirst /\ Remaining
  BY <1>1, <1>3, Types DEF Places, NameKept, CountedSent, CountedFirst, Remaining
<1>5. Origin /\ Numbered /\ Complete /\ ReceivedInOrder
  BY <1>1 DEF Origin, Numbered, Complete, ReceivedInOrder
<1>6. OnePriority
  BY <1>1, <1>2 DEF OnePriority
<1> QED
  BY <1>3, <1>4, <1>5, <1>6 DEF IInv

LEMMA NextInv == IInv /\ [Next]_vars => IInv'
<1> SUFFICES ASSUME IInv, [Next]_vars PROVE IInv'
  OBVIOUS
<1>0. Senders \subseteq Procs /\ Receivers \subseteq Procs
  BY DEF Procs
<1>1. ASSUME NEW s \in Senders, Sender(s) PROVE IInv'
  BY <1>0, <1>1, OpenStep, SendStep, SenderEndsStep DEF Sender
<1>2. ASSUME NEW r \in Receivers, Receiver(r) PROVE IInv'
  BY <1>0, <1>2, OpenStep, LookStep, ReceiveStep, UnlinkStep DEF Receiver
<1>3. CASE UNCHANGED vars
  <2>1. /\ UNCHANGED <<program, plan, sent, queue, got, pc, qfd, name, msg_num, nbytes, counted>>
    BY <1>3 DEF vars
  <2>2. (TypeOK /\ Places /\ NameKept /\ CountedSent /\ CountedFirst /\ Remaining)'
    BY <2>1 DEF IInv, TypeOK, Places, NameKept, Alone, CountedSent, CountedFirst, Remaining,
       Left, Overtaken
  <2>3. (Origin /\ Numbered /\ OnePriority /\ Complete /\ ReceivedInOrder)'
    BY <2>1, QueuesKept
  <2> QED
    BY <2>2, <2>3 DEF IInv
<1> QED
  BY <1>1, <1>2, <1>3 DEF Next

\* Every state the senders and receivers of the three tasks can reach satisfies the
\* inductive invariant.
THEOREM Invariance == Spec => []IInv
  BY InitInv, NextInv, PTL DEF Spec

\* However many senders and receivers share the queue, and whichever of them unlinks
\* it in between, a sender's chunks are received in the order of its mq_send calls,
\* none twice and none left out before a later one (tasks 1 and 3).
THEOREM OrderKept == Spec => []ReceivedInOrder
<1>1. IInv => ReceivedInOrder
  BY DEF IInv
<1> QED
  BY <1>1, Invariance, PTL

\* A receiver that has counted down to zero and goes on to mq_unlink has received all
\* that mq_getattr counted, or a message of higher priority has taken its place.
THEOREM NothingCountedIsLost == Spec => []CountedIsReceived
<1>1. IInv => CountedIsReceived
  <2> SUFFICES ASSUME IInv, NEW r \in Receivers, pc[r] = "unlink", NEW m \in Left(r)
               PROVE  Overtaken(r, m)
    BY DEF CountedIsReceived, Left, Overtaken
  <2>1. TypeOK /\ r \in Procs /\ qfd[r] \in Procs /\ msg_num[r] = 0
    BY DEF IInv, Places, Procs
  <2>2. IsFiniteSet(Left(r))
    <3>1. Left(r) \subseteq Range(queue[qfd[r]]) /\ queue[qfd[r]] \in Seq(Message)
      BY <2>1, Types DEF Left
    <3> QED
      BY <3>1, RangeOfQueue, FS_Subset
  <2>3. Cardinality(Left(r)) # 0 /\ Cardinality(Left(r)) \in Nat
    BY <2>2, FS_EmptySet, FS_CardinalityType
  <2> QED
    BY <2>1, <2>3 DEF IInv, Remaining
<1> QED
  BY <1>1, Invariance, PTL

\* mq_unlink goes by name, yet a receiver without a rival removes the queue it has read.
THEOREM OwnQueueUnlinked == Spec => []UnlinksItsOwnQueue
<1>1. IInv => UnlinksItsOwnQueue
  BY DEF IInv, NameKept, UnlinksItsOwnQueue
<1> QED
  BY <1>1, Invariance, PTL
=============================================================================
