\* Two senders and two receivers of the three tasks.
CONSTANTS
    Senders = {s1, s2}
    Receivers = {r1, r2}
    None = none
    MsgQBytes = 3
    Types = {1, 2}
    Sizes = {1, 2}
    Programs = {"queues_1", "queues_2", "queues_3"}
SPECIFICATION Spec
INVARIANTS ReceivedInOrder RemovedOnlyAfterReading
CHECK_DEADLOCK FALSE
