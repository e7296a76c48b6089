SPECIFICATION Spec
CONSTANTS
    AgentMsgs = {"a1"}
    CommandMsgs = {}
    CancelMsgs = {"x1"}
    LocalEvents = {}
    CancelTargets <- CancelAll
    MaxVersion = 1
    MaxEpochs = 1
    Timely = FALSE
    Window = 1
CHECK_DEADLOCK FALSE
INVARIANTS
    CancelledNeverCompletes
