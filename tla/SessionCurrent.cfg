\* Four lines with up to six answers.
CONSTANTS
    PreserveRecent = 6
    MaxTurns = 4
    MaxFailures = 3
    MaxLines = 4
    MaxAnswers = 6
SPECIFICATION Spec
INVARIANT HistoryIsCurrent
