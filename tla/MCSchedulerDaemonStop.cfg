SPECIFICATION DaemonSpec
CONSTANTS
    d1 = d1
    d2 = d2
    own = own
    other = other
    Schedulers = {d1, d2}
    Commands = {own, other}
    Refuses <- Foreign
    MaxLaunches = 2
PROPERTIES StopEnds
CHECK_DEADLOCK FALSE
