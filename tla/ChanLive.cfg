SPECIFICATION ProcessSpec
CONSTANTS
    AgentMsgs = {"a1"}
    CommandMsgs = {}
    CancelMsgs = {}
    LocalEvents = {}
    CancelTargets <- CancelAll
    MaxVersion = 1
    MaxEpochs = 2
    Timely = TRUE
    Window = 1
CHECK_DEADLOCK FALSE
PROPERTIES
    BegunIsReported
