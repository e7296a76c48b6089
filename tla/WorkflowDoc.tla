------------------------------ MODULE WorkflowDoc ------------------------------
(***************************************************************************)
(* A workflow v2 document as the runtime sees it after ParseAndValidate-   *)
(* Workflow has accepted it: a graph of states, transitions that listen    *)
(* for an event kind, event clauses, the "start" command and the effect    *)
(* definitions hung on them.  Guards, invariants and fact writes are       *)
(* abstracted: a guard may evaluate either way, and a state with an        *)
(* invariant is a member of InvariantStates.                               *)
(***************************************************************************)
EXTENDS Naturals

CONSTANTS
    States,           \* names under workflow.states
    InitialState,     \* workflow.initial_state
    TerminalStates,   \* states with terminal: true
    CancelStates,     \* terminal states whose name contains "cancel"
    InvariantStates,  \* states that declare an invariant
    EffectDefs,       \* definition paths of the effects in the document
    EffectKind,       \* EffectDefs -> kind of effect
    OnEnter,          \* States -> definition paths of on_enter.effects
    Transitions,      \* records: from, on, to, effects
    Clauses,          \* records: from, on, effects, ignore
    StartCommands,    \* the "start" command, if any: records from, to
    EventKinds        \* the event kinds that occur in a model

(***************************************************************************)
(* Event kinds, by the path on which the hub receives them.                *)
(***************************************************************************)
TaskKinds == {"agent.task.started", "agent.task.heartbeat",
              "agent.task.completed", "agent.task.failed"}
AgentKinds == TaskKinds \cup {"plan.submitted", "help.requested"}
ReceiptKinds == {"exec.run.completed", "exec.run.failed",
                 "dependency.update.completed", "dependency.update.failed"}
PolicyKinds == {"ci.policy.evaluated", "review.policy.evaluated",
                "workflow.delivery.evaluated"}
DeliveryKinds == {"delivery.verified"}
ContextKinds == {"context.bundle.ready", "context.bundle.failed"}

\* Kinds of agent envelope that must carry an expected state version.
StateChangingKinds == AgentKinds \ {"agent.task.heartbeat", "help.requested"}

TransitionDefs == [from : SUBSET States, on : EventKinds, to : States,
                   effects : SUBSET EffectDefs]
ClauseDefs == [from : SUBSET States, on : EventKinds,
               effects : SUBSET EffectDefs, ignore : BOOLEAN]
CommandDefs == [from : SUBSET States, to : States]

(***************************************************************************)
(* What the validator guarantees of every document a run is pinned to:     *)
(* nothing leaves a terminal state, and neither a terminal state nor a     *)
(* transition into one has effects.                                        *)
(***************************************************************************)
ValidWorkflow ==
    /\ InitialState \in States
    /\ TerminalStates \subseteq States
    /\ CancelStates \subseteq TerminalStates
    /\ InvariantStates \subseteq States
    /\ OnEnter \in [States -> SUBSET EffectDefs]
    /\ \A s \in TerminalStates : OnEnter[s] = {}
    /\ Transitions \subseteq TransitionDefs
    /\ Clauses \subseteq ClauseDefs
    /\ StartCommands \subseteq CommandDefs
    /\ \A t \in Transitions :
          /\ t.from \cap TerminalStates = {}
          /\ t.to \in TerminalStates => t.effects = {}
    /\ \A c \in StartCommands : c.from \cap TerminalStates = {}
    /\ EventKinds \subseteq AgentKinds \cup ReceiptKinds \cup PolicyKinds
                              \cup DeliveryKinds \cup ContextKinds
    /\ DOMAIN EffectKind = EffectDefs

ASSUME WorkflowAssumption == ValidWorkflow

\* CreateRun refuses to bind an attempt to a run that starts terminal.
ASSUME InitialAssumption == InitialState \notin TerminalStates
================================================================================
