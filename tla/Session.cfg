\* Four lines with up to six answers: long enough to be compacted twice.
CONSTANTS
    PreserveRecent = 6
    MaxTurns = 4
    MaxFailures = 3
    MaxLines = 4
    MaxAnswers = 6
SPECIFICATION Spec
INVARIANTS
    PairedUnlessCut
PROPERTY OnlyClearRepairs
