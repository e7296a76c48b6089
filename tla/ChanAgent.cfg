SPECIFICATION Spec
CONSTANTS
    AgentMsgs = {"a1"}
    CommandMsgs = {}
    CancelMsgs = {}
    LocalEvents = {}
    CancelTargets <- CancelAll
    MaxVersion = 2
    MaxEpochs = 2
    Timely = TRUE
    Window = 1
CHECK_DEADLOCK FALSE
INVARIANTS
    TypeOK
    HandedOverOnce
    AnswersAreTrue
    OneOutcome
