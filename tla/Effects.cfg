SPECIFICATION FairSpec
CONSTANTS
    States <- MCStates
    InitialState = "plan"
    TerminalStates = {"done", "cancelled"}
    CancelStates = {"cancelled"}
    InvariantStates = {"build"}
    EffectDefs <- MCEffectDefs
    EffectKind <- MCEffectKind
    OnEnter <- MCOnEnter
    Transitions <- MCTransitions
    Clauses <- MCClauses
    StartCommands <- MCStart
    EventKinds <- MCEventKinds
    EventIds = {e1, e2}
    Workers = {w1, w2}
    CrashProne = {w1}
    MaxVersion = 2
    MaxAttempts = 1
    MaxTasks = 1
    MaxMessages = 1
    MaxTries = 2
CHECK_DEADLOCK FALSE
PROPERTY ClaimsEnd
PROPERTY TasksEnd
INVARIANT LeaseDiscipline
 
INVARIANT ClaimsWaitForContext
