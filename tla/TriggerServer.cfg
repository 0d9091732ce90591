SPECIFICATION TriggerSpec
CONSTANTS
    Tasks = {r1, r2}
    Followed = {r1}
    Triggers = {hook}
    MaxUses = 2
INVARIANTS RecordsAreTrue TriggersAnswerTruly
PROPERTIES RecordsSettle
CHECK_DEADLOCK FALSE
