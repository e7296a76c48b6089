SPECIFICATION FairSpec
CONSTANTS
    AgentMsgs = {}
    CommandMsgs = {}
    CancelMsgs = {"x1"}
    LocalEvents = {"l1"}
    CancelTargets <- CancelAll
    MaxVersion = 2
    MaxEpochs = 2
    Timely = TRUE
    Window = 2
CHECK_DEADLOCK FALSE
PROPERTIES
    QueuedIsDelivered
