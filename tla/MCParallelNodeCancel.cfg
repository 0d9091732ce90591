\* The workflow is cancelled while its branches run.
CONSTANTS
    lint = lint  tests = tests
    Branches = {lint, tests}
    Order <- TwoInOrder
    Gated = {tests}
    Slots = {1}
    Interactive = TRUE
    HasAsk = TRUE
    HasPrompt = TRUE
    Gate = Gate
    Nobody = Nobody
SPECIFICATION ParallelSpec
PROPERTY NothingStartsAfterCancel
