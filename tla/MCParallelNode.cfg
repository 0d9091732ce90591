\* Two branches with two concurrent calls each, the second one gated, under
\* the fairness of the event loop.
CONSTANTS
    lint = lint  tests = tests
    Branches = {lint, tests}
    Order <- TwoInOrder
    Gated = {tests}
    Slots = {1, 2}
    Interactive = TRUE
    HasAsk = TRUE
    HasPrompt = TRUE
    Gate = Gate
    Nobody = Nobody
SPECIFICATION ParallelFairSpec
INVARIANTS
    OneQuestionAtATime
    GatesComeFirst
    ReportIsTrue
PROPERTIES
    ImplementsForkJoin
    NodeReturns
    TimedOutBranchesStop
    NoCallStarves
