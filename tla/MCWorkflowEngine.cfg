\* The graph of the MC module, up to five records.
CONSTANTS
    assess = assess  inspect = inspect  fan = fan  report = report
    ok = ok  deep = deep  odd = odd
    bash = bash  issues = issues  broken = broken
    found = found  other = other
    NoNode = NoNode
    NoSignal = NoSignal
    Silence = Silence
    Tools = {bash}
    Texts = {found, Silence}
    MatchesOf <- MCMatchesOf
    Malformed = {broken}
    Nodes = {assess, inspect, fan, report}
    Start = fan
    EdgesOf <- MCEdgesOf
    MaxTurns <- MCMaxTurns
    Parallel = {fan}
    WhenOf <- MCWhenOf
    GatesOf <- MCGatesOf
    Attended = {fan, assess}
    Decisions = {ok, deep, odd}
    MaxExecutions = 5
SPECIFICATION FairSpec
INVARIANTS
    TrailExplains
PROPERTIES
    SignalsBelong
    FollowsGraph
    WorkflowMovesOn
