------------------------------- MODULE SysvQueue -------------------------------
(***************************************************************************)
(* LAB_15/task_sys_v_queues_1, _2 and _3: senders and receivers started    *)
(* independently of each other meet at one System V message queue.         *)
(* `program` is the task whose programs run.                               *)
(*                                                                         *)
(* msgget with IPC_CREAT returns the queue of the key or creates one;      *)
(* IPC_RMID destroys the queue at once, with the messages in it, and every *)
(* call on its identifier fails from then on.  Identifiers are counted     *)
(* from 0, the identifier of the first queue of the system.                *)
(*                                                                         *)
(* A process is at "start" (before msgget), "send", "stat" (IPC_STAT),     *)
(* "receive", "restat" (IPC_STAT in the end section), "remove" (IPC_RMID)  *)
(* or "done".                                                              *)
(***************************************************************************)
EXTENDS Integers, Sequences, FiniteSets, SequencesExt

CONSTANTS
    Senders, Receivers,
    None,        \* the key has no queue
    MsgQBytes,   \* msg_qbytes: msgsnd blocks when it would be exceeded
    Types,       \* message types given with -t in task 3
    Sizes,       \* sizes of the files
    Programs     \* the tasks a behaviour may be of

MSG_TYPE == 1  \* type of the messages of task 1
MSG_NUM == 2   \* messages of a sender, and turns of a receiver, in task 2

Procs == Senders \cup Receivers
\* Every process calls msgget once, so there are at most as many queues.
Ids == 0..Cardinality(Procs)

ASSUME QueueAssumption ==
    /\ Senders \cap Receivers = {} /\ None \notin Ids /\ IsFiniteSet(Procs)
    /\ MsgQBytes \in Nat /\ Sizes \subseteq 0..MsgQBytes /\ Types \subseteq Nat \ {0}
    /\ Programs \subseteq {"queues_1", "queues_2", "queues_3"}

VARIABLES
    program,   \* the task that runs; never changes
    plan,      \* the messages each sender still has to send
    wanted,    \* the msgtyp argument of each receiver's msgrcv
    key,       \* the queue of the key, or None
    created,   \* number of queues created so far
    queue,     \* messages of every queue in the order of their arrival
    removed,   \* queues that have been removed
    pc,        \* place of every process
    qid,       \* quid, qid: the queue of a process
    payload,   \* payload_size of a receiver of task 3
    turns,     \* turns left of a receiver's loop
    read_num,  \* messages a receiver has read
    failed,    \* stat, IPC_STAT or msgrcv has failed, not counting ENOMSG
    ret,       \* exit status of each receiver
    got        \* all messages received, in order

vars == <<program, plan, wanted, key, created, queue, removed, pc, qid, payload, turns,
          read_num, failed, ret, got>>
fixed == <<program, wanted>>
kernel == <<key, created, queue, removed>>
receiver == <<payload, turns, read_num, failed>>
sender == <<plan, got>>

-------------------------------------------------------------------------------
\* The messages the sender makes of its files, of the given types, in this order.
File(types) == [mtype : types, size : Sizes]

\* One message of the file, or none when the file cannot be opened.
Queues1Plans == {<<>>} \cup {<<f>> : f \in File({MSG_TYPE})}
\* Mutant: the types count down.
Queues2PlansBackwards ==
    {p \in UNION {[1..k -> File(1..MSG_NUM)] : k \in 0..MSG_NUM} :
        \A i \in DOMAIN p : p[i].mtype = MSG_NUM + 1 - i}

\* Two files with types 1 and 2; the first that cannot be opened ends the sending.
Queues2Plans ==
    {p \in UNION {[1..k -> File(1..MSG_NUM)] : k \in 0..MSG_NUM} :
        \A i \in DOMAIN p : p[i].mtype = i}
\* One file of any type.
Queues3Plans == {<<>>} \cup {<<f>> : f \in File(Types)}

Plans(prog) == CASE prog = "queues_1" -> Queues1Plans
                 [] prog = "queues_2" -> Queues2Plans
                 [] prog = "queues_3" -> Queues3Plans

\* msgtyp of msgrcv: a type, or minus the greatest type that is accepted.
Wanted(prog) == CASE prog = "queues_1" -> {MSG_TYPE}
                  [] prog = "queues_2" -> {-MSG_NUM}
                  [] prog = "queues_3" -> Types

Init == /\ program \in Programs
        /\ plan \in [Senders -> Plans(program)]
        /\ wanted \in [Receivers -> Wanted(program)]
        /\ key = None /\ created = 0 /\ removed = {}
        /\ queue = [q \in Ids |-> <<>>]
        /\ pc = [p \in Procs |-> "start"]
        /\ qid = [p \in Procs |-> 0]
        /\ payload = [r \in Receivers |-> 0]
        /\ turns = [r \in Receivers |-> IF program = "queues_2" THEN MSG_NUM ELSE 1]
        /\ read_num = [r \in Receivers |-> 0]
        /\ failed = [r \in Receivers |-> FALSE]
        /\ ret = [r \in Receivers |-> "success"]
        /\ got = <<>>

Goto(p, place) == pc' = [pc EXCEPT ![p] = place]
Fail(p) == ret' = [r \in Receivers |-> IF r = p THEN "failure" ELSE ret[r]]

-------------------------------------------------------------------------------
(* The kernel's queues                                                     *)

Exists(q) == q < created /\ q \notin removed
Bytes(q) == FoldSeq(LAMBDA m, n : m.size + n, 0, queue[q])

\* The messages msgrcv may choose from.
Matching(r, q) ==
    {i \in DOMAIN queue[q] :
        IF wanted[r] > 0 THEN queue[q][i].mtype = wanted[r]
                         ELSE queue[q][i].mtype <= -wanted[r]}

\* msgrcv takes the oldest message of the lowest type it may take.
Foremost(r, q) ==
    CHOOSE i \in Matching(r, q) : \A j \in Matching(r, q) :
        \/ queue[q][i].mtype < queue[q][j].mtype
        \/ queue[q][i].mtype = queue[q][j].mtype /\ i <= j

\* Tasks 1 and 2 have a buffer for every message, task 3 what IPC_STAT said.
Fits(r, m) == program = "queues_3" => m.size <= payload[r]

-------------------------------------------------------------------------------
(* Starting *)

\* msgget(key, PERMS | IPC_CREAT).  A sender of task 1 or 2 has read a file before.
Start(p) ==
    /\ pc[p] = "start"
    /\ p \in Senders /\ program # "queues_3" => plan[p] # <<>>
    /\ IF key = None THEN key' = created /\ created' = created + 1
                     ELSE UNCHANGED <<key, created>>
    /\ qid' = [qid EXCEPT ![p] = key']
    /\ Goto(p, IF p \in Senders THEN "send"
               ELSE IF program = "queues_3" THEN "stat" ELSE "receive")
    /\ UNCHANGED <<fixed, sender, queue, removed, receiver, ret>>

\* Before msgget a sender of task 1 or 2 finds nothing to send, and in task 3 one
\* of the pathnames is of no use.  A receiver comes to its end section with qid
\* still 0.
StartFails(p) ==
    /\ pc[p] = "start"
    /\ program = "queues_3" \/ (p \in Senders /\ plan[p] = <<>>)
    /\ Fail(p)
    /\ failed' = [r \in Receivers |-> failed[r] \/ r = p]
    /\ Goto(p, IF p \in Senders THEN "done" ELSE "restat")
    /\ UNCHANGED <<fixed, sender, kernel, qid, payload, turns, read_num, got>>

-------------------------------------------------------------------------------
(* sender *)

\* msgsnd blocks while the queue is full.
Send(s) ==
    /\ pc[s] = "send" /\ plan[s] # <<>>
    /\ Exists(qid[s])
    /\ Bytes(qid[s]) + Head(plan[s]).size <= MsgQBytes
    /\ Len(queue[qid[s]]) < MsgQBytes
    /\ queue' = [queue EXCEPT ![qid[s]] =
           Append(@, [from |-> s, mtype |-> Head(plan[s]).mtype, size |-> Head(plan[s]).size])]
    /\ plan' = [plan EXCEPT ![s] = Tail(@)]
    /\ UNCHANGED <<fixed, key, created, removed, pc, qid, receiver, ret, got>>

\* The queue is gone: EINVAL, or EIDRM for a sender that was blocked.
SendFails(s) ==
    /\ pc[s] = "send" /\ plan[s] # <<>>
    /\ ~Exists(qid[s])
    /\ plan' = [plan EXCEPT ![s] = Tail(@)]
    /\ UNCHANGED <<fixed, kernel, pc, qid, receiver, ret, got>>

SenderEnds(s) ==
    /\ pc[s] = "send" /\ plan[s] = <<>>
    /\ Goto(s, "done")
    /\ UNCHANGED <<fixed, sender, kernel, qid, receiver, ret>>

-------------------------------------------------------------------------------
(* receiver *)

\* Task 3: IPC_STAT tells how much memory all messages together need.
Stat(r) ==
    /\ pc[r] = "stat"
    /\ IF Exists(qid[r])
       THEN UNCHANGED <<failed, ret>>
       ELSE Fail(r) /\ failed' = [failed EXCEPT ![r] = TRUE]
    /\ payload' = [payload EXCEPT ![r] = Bytes(qid[r])]
    /\ Goto(r, IF Exists(qid[r]) /\ queue[qid[r]] # <<>> THEN "receive" ELSE "restat")
    /\ UNCHANGED <<fixed, sender, kernel, qid, turns, read_num>>

\* Where a receiver goes after msgrcv, with `read` messages read.
AfterReceive(r, read) ==
    CASE program = "queues_3" -> "restat"
      [] turns[r] > 1 -> "receive"
      [] OTHER -> IF read > 0 THEN "remove" ELSE "done"

Receive(r) ==
    /\ pc[r] = "receive"
    /\ Exists(qid[r]) /\ Matching(r, qid[r]) # {}
    /\ LET i == Foremost(r, qid[r])
       IN  /\ Fits(r, queue[qid[r]][i])
           /\ got' = Append(got, queue[qid[r]][i])
           /\ queue' = [queue EXCEPT ![qid[r]] = RemoveAt(@, i)]
    /\ read_num' = [read_num EXCEPT ![r] = @ + 1]
    /\ turns' = [turns EXCEPT ![r] = @ - 1]
    /\ Goto(r, AfterReceive(r, read_num[r] + 1))
    /\ UNCHANGED <<fixed, plan, key, created, removed, qid, payload, failed, ret>>

\* ENOMSG: "there are no message is all"
ReceiveNothing(r) ==
    /\ pc[r] = "receive"
    /\ Exists(qid[r]) /\ Matching(r, qid[r]) = {}
    /\ turns' = [turns EXCEPT ![r] = @ - 1]
    /\ Goto(r, AfterReceive(r, read_num[r]))
    /\ UNCHANGED <<fixed, sender, kernel, qid, payload, read_num, failed, ret>>

\* The queue is gone, or (E2BIG) the message is bigger than payload_size.
ReceiveFails(r) ==
    /\ pc[r] = "receive"
    /\ \/ ~Exists(qid[r])
       \/ Matching(r, qid[r]) # {} /\ ~Fits(r, queue[qid[r]][Foremost(r, qid[r])])
    /\ Fail(r)
    /\ failed' = [failed EXCEPT ![r] = TRUE]
    /\ Goto(r, IF program = "queues_3" THEN "restat" ELSE "remove")
    /\ UNCHANGED <<fixed, sender, kernel, qid, payload, turns, read_num>>

\* Mutant: the status of the receiver survives the IPC_STAT of its end section.
RestatKeepsStatus(r) ==
    /\ pc[r] = "restat"
    /\ IF Exists(qid[r]) THEN UNCHANGED ret ELSE Fail(r)
    /\ Goto(r, IF /\ Exists(qid[r])
                  /\ (read_num[r] > 0 /\ queue[qid[r]] = <<>>) \/ failed[r]
               THEN "remove" ELSE "done")
    /\ UNCHANGED <<fixed, sender, kernel, qid, receiver>>

\* Task 3: ret = msgctl(qid, IPC_STAT, &ds), so that the test for EXIT_FAILURE
\* after it is never true.
Restat(r) ==
    /\ pc[r] = "restat"
    /\ ret' = [ret EXCEPT ![r] = IF Exists(qid[r]) THEN "success" ELSE "failure"]
    /\ Goto(r, IF Exists(qid[r]) /\ read_num[r] > 0 /\ queue[qid[r]] = <<>>
               THEN "remove" ELSE "done")
    /\ UNCHANGED <<fixed, sender, kernel, qid, receiver>>

\* msgctl(qid, IPC_RMID, NULL): its messages go with the queue.
RemoveQueue(r) ==
    /\ pc[r] = "remove"
    /\ removed' = removed \cup {qid[r]}
    /\ queue' = [queue EXCEPT ![qid[r]] = <<>>]
    /\ key' = IF key = qid[r] THEN None ELSE key
    /\ Goto(r, "done")
    /\ UNCHANGED <<fixed, sender, created, qid, receiver, ret>>

-------------------------------------------------------------------------------
Sender(s) == Start(s) \/ StartFails(s) \/ Send(s) \/ SendFails(s) \/ SenderEnds(s)
Receiver(r) == \/ Start(r) \/ StartFails(r)
               \/ Stat(r) \/ Receive(r) \/ ReceiveNothing(r) \/ ReceiveFails(r)
               \/ Restat(r) \/ RemoveQueue(r)

Next == \/ \E s \in Senders : Sender(s)
        \/ \E r \in Receivers : Receiver(r)

Spec == Init /\ [][Next]_vars

-------------------------------------------------------------------------------
\* The two messages of a sender of task 2 are received in the order of their
\* types, the order it sent them in, whichever receivers take them.
ReceivedInOrder ==
    \A i, j \in DOMAIN got :
        i < j /\ got[i].from = got[j].from => got[i].mtype < got[j].mtype

\* "do not delete queue on failure; let other receivers do the job": a queue is
\* removed only after a message of it has been read.  No receiver that failed,
\* or came too late for a message, destroys what others have sent or have not
\* read yet, although task 1 and 2 ask for the removal and task 3 ends up with
\* identifier 0.
RemovedOnlyAfterReading ==
    \A q \in removed : \E i \in DOMAIN got : qid[got[i].from] = q

\* "Make a failed state explicit if it exists": a receiver that could not find
\* the path, look at its queue or take its message exits with EXIT_FAILURE.
FailureIsExplicit ==
    \A r \in Receivers : pc[r] = "done" /\ failed[r] => ret[r] = "failure"
===============================================================================
