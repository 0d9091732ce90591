SPECIFICATION Spec
CONSTANTS
    once = once
    every = every
    Jobs = {once, every}
    Schedule <- Kinds
    At = 1
    Period = 1
    Daemons = {d1}
    MaxTime = 1
    MaxOps = 2
    MaxEnds = 1
INVARIANTS DeletedStayDeleted
CHECK_DEADLOCK FALSE
