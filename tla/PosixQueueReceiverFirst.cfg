\* One receiver started before one sender, task 1.
CONSTANTS
    Senders = {s1}
    Receivers = {r1}
    None = none
    MsgMaxNum = 2
    Prios = {1}
    MaxChunks = 1
    Programs = {"queues_1"}
SPECIFICATION Spec
INVARIANTS StartedFirstReceives
CHECK_DEADLOCK FALSE
