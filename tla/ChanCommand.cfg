SPECIFICATION Spec
CONSTANTS
    AgentMsgs = {}
    CommandMsgs = {"c1"}
    CancelMsgs = {}
    LocalEvents = {}
    CancelTargets <- CancelAll
    MaxVersion = 2
    MaxEpochs = 2
    Timely = FALSE
    Window = 2
CHECK_DEADLOCK FALSE
PROPERTIES
    SettledStaysSettled
