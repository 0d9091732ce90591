\* Two valid decisions.
CONSTANTS
    signal = signal  bash = bash  ask = ask  ghost = ghost
    NoSignal = NoSignal
    Silence = Silence
    Tools = {signal, bash, ask, ghost}
    Texts = {Silence}
    SignalTool = signal
    Registered = {signal, bash}
    Permission <- MCPermission
    OpenEnded = {ask}
    HasPrompt = FALSE
    Decisions = {yes, odd}
    ValidDecisions = {yes, odd}
    MaxTurns = 3
    HasWarning = TRUE
    PreserveRecent = 6
    MaxFailures = 3
    Histories <- NodeHistories
    MaxCalls = 1
SPECIFICATION Spec
INVARIANT FirstSignalWins
