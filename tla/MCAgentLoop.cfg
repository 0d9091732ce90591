\* Two concurrent calls per answer, a user who may or may not confirm, and
\* enough turns for the history to be compacted with the warning in it.
CONSTANTS
    signal = signal  bash = bash  ask = ask  ghost = ghost
    NoSignal = NoSignal
    Silence = Silence
    Tools = {signal, bash, ask, ghost}
    Texts = {Silence}
    SignalTool = signal
    Registered = {signal, bash, ask}
    Permission <- MCPermission
    OpenEnded = {ask}
    HasPrompt = TRUE
    Decisions = {yes, odd}
    ValidDecisions = {yes}
    MaxTurns = 5
    HasWarning = TRUE
    PreserveRecent = 6
    MaxFailures = 3
    Histories <- MCHistories
    MaxCalls = 2
SPECIFICATION FairSpec
INVARIANTS
    RequestsWellPaired
    WarningInView
    ExecutedWithConsent
    FinishedReportsAll
PROPERTIES
    ImplementsNodeRun
    LoopEnds
