\* Two senders and two receivers of the three tasks.
CONSTANTS
    Senders = {s1, s2}
    Receivers = {r1, r2}
    None = none
    MsgMaxNum = 2
    Prios = {1, 2}
    MaxChunks = 2
    Programs = {"queues_1", "queues_2", "queues_3"}
SPECIFICATION FairSpec
INVARIANTS ReceivedInOrder CountedIsReceived UnlinksItsOwnQueue
PROPERTIES ReceiverEnds
CHECK_DEADLOCK FALSE
