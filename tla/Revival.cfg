SPECIFICATION Spec
CONSTANTS
    States <- MCStates
    InitialState = "plan"
    TerminalStates = {"done", "cancelled"}
    CancelStates = {"cancelled"}
    InvariantStates = {"build"}
    EffectDefs <- MCEffectDefs
    EffectKind <- MCEffectKind
    OnEnter <- MCOnEnter
    Transitions <- MCTransitions
    Clauses <- MCClauses
    StartCommands <- MCStart
    EventKinds <- MCEventKinds
    EventIds = {e1, e2}
    Workers = {w1}
    CrashProne = {}
    MaxVersion = 2
    MaxAttempts = 1
    MaxTasks = 1
    MaxMessages = 2
    MaxTries = 1
SYMMETRY EventSymmetry
CHECK_DEADLOCK FALSE
INVARIANT ClosedStaysClosed
