SPECIFICATION SchedulerSpec
CONSTANTS
    once = once
    every = every
    Jobs = {once, every}
    Schedule <- Kinds
    At = 1
    Period = 1
    Daemons = {d1, d2}
    MaxTime = 1
    MaxOps = 2
    MaxEnds = 1
    d1 = d1
    d2 = d2
    own = own
    other = other
    Schedulers = {d1, d2}
    Commands = {own, other}
    Refuses <- Foreign
    MaxLaunches = 3
INVARIANTS FiresOncePerDueTime JobsPersist OneScheduler
PROPERTIES DueJobsFire
CHECK_DEADLOCK FALSE
