---------------------------- MODULE MCWorkflowStore ----------------------------
(***************************************************************************)
(* Small workflow documents for TLC.  A run starts in "plan", whose        *)
(* on-enter effect runs a setup command; the start command moves it to     *)
(* "build", which assigns a task to the agent; CI results re-enter "build" *)
(* while that task is out; completion ends the run.                        *)
(***************************************************************************)
EXTENDS WorkflowStore, TLC

MCStates == {"plan", "build", "done", "cancelled"}
MCEffectDefs == {"setup", "implement", "notify"}
MCEffectKind == [d \in MCEffectDefs |-> CASE d = "setup" -> "exec.run"
                                         [] d = "implement" -> "agent.task"
                                         [] d = "notify" -> "unsupported"]
MCOnEnter == [s \in MCStates |-> CASE s = "plan" -> {"setup"}
                                  [] s = "build" -> {"implement"}
                                  [] OTHER -> {}]
MCTransitions ==
    {[from |-> {"build"}, on |-> "agent.task.completed", to |-> "done",
      effects |-> {}],
     [from |-> {"build"}, on |-> "ci.policy.evaluated", to |-> "build",
      effects |-> {}],
     [from |-> {"build"}, on |-> "ci.policy.evaluated", to |-> "cancelled",
      effects |-> {}],
     [from |-> {"plan"}, on |-> "context.bundle.failed", to |-> "cancelled",
      effects |-> {}]}
MCClauses == {[from |-> {"build"}, on |-> "help.requested",
               effects |-> {"notify"}, ignore |-> FALSE]}
MCStart == {[from |-> {"plan"}, to |-> "build"]}
MCEventKinds == {"agent.task.started", "agent.task.completed", "help.requested",
                 "exec.run.completed", "ci.policy.evaluated",
                 "delivery.verified", "context.bundle.ready",
                 "context.bundle.failed"}

\* A document with one effect, for runs with more events.
LeanEffectDefs == {"implement"}
LeanEffectKind == [d \in LeanEffectDefs |-> "agent.task"]
LeanOnEnter == [s \in MCStates |-> IF s = "build" THEN LeanEffectDefs ELSE {}]
LeanEventKinds == {"agent.task.completed", "ci.policy.evaluated",
                   "context.bundle.ready", "context.bundle.failed"}

\* Event ids are random: nothing tells one from another.
EventSymmetry == Permutations(EventIds)
================================================================================
