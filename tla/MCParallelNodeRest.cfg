\* A call raises while another of its branch runs.
CONSTANTS
    lint = lint  tests = tests
    Branches = {lint, tests}
    Order <- TwoInOrder
    Gated = {tests}
    Slots = {1, 2}
    Interactive = TRUE
    HasAsk = TRUE
    HasPrompt = TRUE
    Gate = Gate
    Nobody = Nobody
SPECIFICATION ParallelSpec
INVARIANT ReportedBranchesRest
