\* One receiver of task 3 and two senders: the exit status.
CONSTANTS
    Senders = {s1, s2}
    Receivers = {r1}
    None = none
    MsgQBytes = 3
    Types = {1, 2}
    Sizes = {1, 2}
    Programs = {"queues_3"}
SPECIFICATION Spec
INVARIANTS FailureIsExplicit
CHECK_DEADLOCK FALSE
