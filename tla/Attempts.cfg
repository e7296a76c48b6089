SPECIFICATION Spec
CONSTANTS
    States <- MCStates
    InitialState = "plan"
    TerminalStates = {"done", "cancelled"}
    CancelStates = {"cancelled"}
    InvariantStates = {"build"}
    EffectDefs <- LeanEffectDefs
    EffectKind <- LeanEffectKind
    OnEnter <- LeanOnEnter
    Transitions <- MCTransitions
    Clauses = {}
    StartCommands <- MCStart
    EventKinds <- LeanEventKinds
    EventIds = {e1, e2, e3, e4}
    Workers = {w1}
    CrashProne = {}
    MaxVersion = 4
    MaxAttempts = 2
    MaxTasks = 2
    MaxMessages = 2
    MaxTries = 1
SYMMETRY EventSymmetry
CHECK_DEADLOCK FALSE
INVARIANT LedgerReplays
PROPERTY TaskEndsAtItsVersion
INVARIANT AttemptAuthority
INVARIANT TypeOK
