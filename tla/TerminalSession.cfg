SPECIFICATION Spec
CONSTANTS
    Questions = {2}
    Texts = {"text"}
    Verdicts = {"yes"}
    MaxPrompts = 2
    MaxInputs = 3
INVARIANTS OneLineAtATime ConsentIsOwn AnswersAreHarmless LastPromptIsVisible
PROPERTIES FrontendIsFreed HostEnds
CHECK_DEADLOCK FALSE
