------------------------------ MODULE PosixQueue ------------------------------
(***************************************************************************)
(* LAB_15/task_posix_queues_1, _2 and _3: senders and receivers started    *)
(* independently of each other meet at one POSIX message queue.  `program` *)
(* is the task whose programs run.                                         *)
(*                                                                         *)
(* mq_open with O_CREAT creates a queue when the name is free, mq_unlink   *)
(* frees the name, and a queue that has lost its name lives on for those   *)
(* who have it open.  Every process opens once, so a queue is named after  *)
(* the process that created it.                                            *)
(*                                                                         *)
(* A process is at "start" (before mq_open), "send", "look" (mq_getattr),  *)
(* "receive", "relook" (mq_getattr after the loop), "unlink" or "done".    *)
(***************************************************************************)
EXTENDS Integers, Sequences, SequencesExt

CONSTANTS
    Senders, Receivers,
    None,        \* the name is free
    MsgMaxNum,   \* MSG_MAX_NUM
    Prios,       \* priorities given with -t in task 3
    MaxChunks,   \* bound on the chunks of a file in task 3
    Programs     \* the tasks a behaviour may be of

Procs == Senders \cup Receivers
Queues == Procs

ASSUME QueueAssumption ==
    /\ Senders \cap Receivers = {} /\ None \notin Procs
    /\ MsgMaxNum \in Nat \ {0} /\ MaxChunks \in Nat
    /\ Prios \subseteq Nat
    /\ Programs \subseteq {"queues_1", "queues_2", "queues_3"}

VARIABLES
    program,   \* the task that runs; never changes
    plan,      \* what each sender still has to send
    sent,      \* how many messages each sender has sent
    name,      \* the queue the name refers to, or None
    queue,     \* messages of every queue in the order of their arrival
    pc,        \* place of every process
    qfd,       \* the queue a process has open
    msg_num,   \* messages a receiver still expects
    nbytes,    \* has the receiver's nbytes left -1?
    counted,   \* messages in the queue at the receiver's last mq_getattr
    got        \* all messages received, in order

vars == <<program, plan, sent, name, queue, pc, qfd, msg_num, nbytes, counted, got>>
receiver == <<msg_num, nbytes, counted, got>>

\* A file that is empty becomes a message without bytes.
File(prio, empty) == [prio |-> prio, empty |-> empty]

\* One message, or none when the file is too big or not a regular one.
Queues1Plans == {<<>>, <<File(7, FALSE)>>, <<File(7, TRUE)>>}
\* Two files with priorities 1 and 2; each may have to be skipped.  (Whether
\* they are empty makes no difference to task 2.)
Queues2Plans == {<<>>, <<File(1, FALSE)>>, <<File(2, FALSE)>>, <<File(1, FALSE), File(2, FALSE)>>}
\* One file in chunks of the same priority, or none when it cannot be opened;
\* an empty file is sent as one message.
Queues3Plans == {<<>>} \cup {<<File(p, TRUE)>> : p \in Prios}
                \cup UNION {{[i \in 1..n |-> File(p, FALSE)] : n \in 1..MaxChunks} : p \in Prios}

Plans(prog) == CASE prog = "queues_1" -> Queues1Plans
                 [] prog = "queues_2" -> Queues2Plans
                 [] prog = "queues_3" -> Queues3Plans

Init == /\ program \in Programs
        /\ plan \in [Senders -> Plans(program)]
        /\ sent = [s \in Senders |-> 0]
        /\ name = None
        /\ queue = [q \in Queues |-> <<>>]
        /\ pc = [p \in Procs |-> "start"]
        /\ qfd = [p \in Procs |-> None]
        /\ msg_num = [r \in Receivers |-> 0]
        /\ nbytes = [r \in Receivers |-> FALSE]
        /\ counted = [r \in Receivers |-> {}]
        /\ got = <<>>

Goto(p, place) == pc' = [pc EXCEPT ![p] = place]

-------------------------------------------------------------------------------
(* The kernel's queue                                                      *)

\* Mutant: a sender that opens the queue anew for every file.
OpenAgain(p) ==
    /\ pc[p] \in {"start", "send"}
    /\ name' = IF name = None THEN p ELSE name
    /\ qfd' = [qfd EXCEPT ![p] = name']
    /\ Goto(p, IF p \in Senders THEN "send" ELSE "look")
    /\ UNCHANGED <<program, plan, sent, queue, receiver>>

\* mq_open(name, O_CREAT | ..., PERMS, &attr)
Open(p) ==
    /\ pc[p] = "start"
    /\ name' = IF name = None THEN p ELSE name
    /\ qfd' = [qfd EXCEPT ![p] = name']
    /\ Goto(p, IF p \in Senders THEN "send" ELSE "look")
    /\ UNCHANGED <<program, plan, sent, queue, receiver>>

\* mq_receive takes the oldest of the messages with the highest priority.
Foremost(q) ==
    CHOOSE i \in DOMAIN q : \A j \in DOMAIN q :
        q[j].prio < q[i].prio \/ (q[j].prio = q[i].prio /\ i <= j)

-------------------------------------------------------------------------------
(* sender *)

\* mq_send blocks while the queue is full.
Send(s) ==
    /\ pc[s] = "send"
    /\ plan[s] # <<>>
    /\ Len(queue[qfd[s]]) < MsgMaxNum
    /\ queue' = [queue EXCEPT ![qfd[s]] = Append(@,
           [from |-> s, num |-> sent[s] + 1, prio |-> Head(plan[s]).prio,
            empty |-> Head(plan[s]).empty])]
    /\ sent' = [sent EXCEPT ![s] = @ + 1]
    /\ plan' = [plan EXCEPT ![s] = Tail(@)]
    /\ UNCHANGED <<program, name, pc, qfd, receiver>>

\* Mutant: the sender cleans up what is the receiver's to remove.
SenderEndsUnlinking(s) ==
    /\ pc[s] = "send"
    /\ plan[s] = <<>>
    /\ name' = None
    /\ Goto(s, "done")
    /\ UNCHANGED <<program, plan, sent, queue, qfd, receiver>>

\* mq_close
SenderEnds(s) ==
    /\ pc[s] = "send"
    /\ plan[s] = <<>>
    /\ Goto(s, "done")
    /\ UNCHANGED <<program, plan, sent, name, queue, qfd, receiver>>

-------------------------------------------------------------------------------
(* receiver *)

\* Mutant: one message more than there are.
LookOffByOne(r) ==
    /\ pc[r] = "look"
    /\ msg_num' = [msg_num EXCEPT ![r] = Len(queue[qfd[r]]) + 1]
    /\ counted' = [counted EXCEPT ![r] = Range(queue[qfd[r]])]
    /\ Goto(r, IF queue[qfd[r]] = <<>> THEN "done" ELSE "receive")
    /\ UNCHANGED <<program, plan, sent, name, queue, qfd, nbytes, got>>

\* mq_getattr; without messages the receiver leaves, nbytes still being -1.
Look(r) ==
    /\ pc[r] = "look"
    /\ msg_num' = [msg_num EXCEPT ![r] = Len(queue[qfd[r]])]
    /\ counted' = [counted EXCEPT ![r] = Range(queue[qfd[r]])]
    /\ Goto(r, IF queue[qfd[r]] = <<>> THEN "done" ELSE "receive")
    /\ UNCHANGED <<program, plan, sent, name, queue, qfd, nbytes, got>>

\* Mutant: task 1 unlinks whatever the count was.
AfterReceiveAlways(r) ==
    CASE program = "queues_1" -> "unlink"
      [] program = "queues_2" -> IF msg_num[r] = 1 THEN "unlink" ELSE "receive"
      [] program = "queues_3" -> IF msg_num[r] = 1 THEN "relook" ELSE "receive"

\* Where a receiver goes with the message it has just received: task 1 reads
\* one and unlinks if it was the only one counted, task 2 reads as many as it
\* has counted, task 3 then counts again.
AfterReceive(r) ==
    CASE program = "queues_1" -> IF msg_num[r] = 1 THEN "unlink" ELSE "done"
      [] program = "queues_2" -> IF msg_num[r] = 1 THEN "unlink" ELSE "receive"
      [] program = "queues_3" -> IF msg_num[r] = 1 THEN "relook" ELSE "receive"

\* mq_receive blocks while the queue is empty.  nbytes is the length of the last
\* message in tasks 1 and 2 and adds up the lengths, from -1 on, in task 3.
Receive(r) ==
    /\ pc[r] = "receive"
    /\ queue[qfd[r]] # <<>>
    /\ LET i == Foremost(queue[qfd[r]])
           m == queue[qfd[r]][i]
       IN  /\ queue' = [queue EXCEPT ![qfd[r]] = RemoveAt(@, i)]
           /\ got' = Append(got, m)
           /\ nbytes' = [nbytes EXCEPT ![r] = @ \/ program # "queues_3" \/ ~m.empty]
    /\ msg_num' = [msg_num EXCEPT ![r] = @ - 1]
    /\ Goto(r, AfterReceive(r))
    /\ UNCHANGED <<program, plan, sent, name, qfd, counted>>

\* Task 3: mq_getattr, and `goto again` while there are messages.
Relook(r) ==
    /\ pc[r] = "relook"
    /\ msg_num' = [msg_num EXCEPT ![r] = Len(queue[qfd[r]])]
    /\ counted' = [counted EXCEPT ![r] = Range(queue[qfd[r]])]
    /\ Goto(r, IF queue[qfd[r]] # <<>> THEN "receive" ELSE IF nbytes[r] THEN "unlink" ELSE "done")
    /\ UNCHANGED <<program, plan, sent, name, queue, qfd, nbytes, got>>

\* mq_close and mq_unlink: the name goes, whatever queue it refers to by now.
Unlink(r) ==
    /\ pc[r] = "unlink"
    /\ name' = None
    /\ Goto(r, "done")
    /\ UNCHANGED <<program, plan, sent, queue, qfd, receiver>>

-------------------------------------------------------------------------------
Sender(s) == Open(s) \/ Send(s) \/ SenderEnds(s)
Receiver(r) == Open(r) \/ Look(r) \/ Receive(r) \/ Relook(r) \/ Unlink(r)

Next == \/ \E s \in Senders : Sender(s)
        \/ \E r \in Receivers : Receiver(r)

Spec == Init /\ [][Next]_vars

\* Programs are started by hand, or never; one that runs keeps running.
FairSpec == /\ Spec
            /\ \A s \in Senders : WF_vars(Send(s) \/ SenderEnds(s))
            /\ \A r \in Receivers : WF_vars(Look(r) \/ Receive(r) \/ Relook(r) \/ Unlink(r))

-------------------------------------------------------------------------------
\* What has been received of a sender's messages are its first ones, in the
\* order it sent them, each once: several receivers and an unlink in between do
\* not disturb it, because a sender keeps the queue it has opened.  (The two
\* messages of task 2 have different priorities and no order.)
ReceivedInOrder ==
    program # "queues_2" =>
        \A i \in DOMAIN got :
            {got[j].num : j \in {k \in 1..i - 1 : got[k].from = got[i].from}} = 1..got[i].num - 1

\* A receiver that decides to unlink its queue has received what it counted:
\* what is lost with the queue has arrived since, or (in task 2) was overtaken
\* by a message of higher priority that has.
CountedIsReceived ==
    \A r \in Receivers : pc[r] = "unlink" =>
        \A m \in counted[r] \cap Range(queue[qfd[r]]) :
            \E g \in Range(got) \ counted[r] : g.prio > m.prio

\* The only receiver that has been started so far.
Alone(r) == \A q \in Receivers \ {r} : pc[q] = "start"

\* The name a receiver unlinks is the name of the queue it has read, although
\* mq_unlink goes by name, unless another receiver has freed the name before.
UnlinksItsOwnQueue ==
    \A r \in Receivers : pc[r] = "unlink" /\ Alone(r) => name = qfd[r]

\* A single receiver never waits for a message that does not come.
ReceiverEnds ==
    \A r \in Receivers : pc[r] # "start" ~> pc[r] = "done" \/ ~Alone(r)

\* "Terminal A: ./bin/receiver; Terminal B: ./bin/sender": when sender and
\* receiver have run to their end, the receiver started first has what was sent.
StartedFirstReceives ==
    \A r \in Receivers, s \in Senders :
        name = r /\ pc[r] = "done" /\ pc[s] = "done" /\ sent[s] > 0 => got # <<>>
===============================================================================
