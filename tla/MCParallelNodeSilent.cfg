\* A node with interactive: false.
CONSTANTS
    lint = lint  tests = tests
    Branches = {lint, tests}
    Order <- TwoInOrder
    Gated = {tests}
    Slots = {1}
    Interactive = FALSE
    HasAsk = TRUE
    HasPrompt = TRUE
    Gate = Gate
    Nobody = Nobody
SPECIFICATION ParallelSpec
INVARIANT SilentUnlessInteractive
