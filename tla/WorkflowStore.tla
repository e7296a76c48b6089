----------------------------- MODULE WorkflowStore -----------------------------
(***************************************************************************)
(* The durable workflow v2 runtime (pkg/hub/workflowv2): the rows of one   *)
(* run in the workflow_v2_* tables, and every Store operation on them.     *)
(* Each operation is one serializable SQLite transaction, so each is one   *)
(* action; an operation that returns an error rolls back and is not a      *)
(* step.  Around the store: the effect workers, which hold a claim in      *)
(* memory between two transactions; the activation driver, which runs a    *)
(* sequence of transactions; the claw behind the control channel, whose    *)
(* envelopes the hub does not trust; and the reaper.                       *)
(***************************************************************************)
EXTENDS WorkflowDoc

CONSTANTS
    EventIds,       \* ids of the events that may be received
    Workers,        \* effect worker identities (one per hub process start)
    CrashProne,     \* workers that may stop while holding a claim
    MaxVersion,     \* bound on the state version
    MaxAttempts,    \* bound on execution attempts
    MaxTasks,       \* bound on agent task rows
    MaxMessages,    \* bound on control outbox rows
    MaxTries        \* bound on the attempts of one effect

ASSUME BoundsAssumption ==
    /\ MaxVersion \in Nat \ {0} /\ MaxAttempts \in Nat \ {0}
    /\ MaxTasks \in Nat /\ MaxMessages \in Nat /\ MaxTries \in Nat
    /\ CrashProne \subseteq Workers

Created == "workflow.run.created"      \* the event CreateRun records
NoWorker == ""

\* Event ids are fresh uuids and worker names are not empty.
ASSUME NamesAssumption == /\ Created \notin EventIds /\ "" \notin EventIds
                          /\ NoWorker \notin Workers

VARIABLES
    run,          \* the workflow_v2_runs row
    attempts,     \* workflow_v2_attempts: number -> status
    events,       \* workflow_v2_events: id -> disposition
    transitions,  \* workflow_v2_transitions: the ledger
    effects,      \* workflow_v2_effects: key -> row
    tries,        \* workflow_v2_effect_attempts: key -> number -> status
    tasks,        \* workflow_v2_agent_tasks: id -> row
    outbox,       \* workflow_v2_control_outbox: message id -> row
    worker,       \* in memory: the claim each effect worker is executing
    driver        \* in memory: where the activation of the run has got to

store == <<run, attempts, events, transitions, effects, tries, tasks, outbox>>
vars == <<run, attempts, events, transitions, effects, tries, tasks, outbox,
          worker, driver>>

NoKey == <<"", "">>
Nobody == 0                            \* no task, no expected version
Attempts == 1 .. MaxAttempts
Tasks == 1 .. MaxTasks
Messages == 1 .. MaxMessages
Tries == 1 .. MaxTries
Versions == 1 .. MaxVersion
EffectKeys == (EventIds \cup {Created}) \X EffectDefs

Kind(k) == EffectKind[k[2]]
LiveTask == {"assigned", "running"}
LiveMessage == {"pending", "sent"}
LiveRun == {"active", "suspended"}
Unsettled == {"planned", "running", "retryable_failed", "unknown"}

Absent == [status |-> "none", count |-> 0, owner |-> NoWorker, lease |-> FALSE]
Planned == [status |-> "planned", count |-> 0, owner |-> NoWorker,
            lease |-> FALSE]
Idle == [pc |-> "idle", key |-> NoKey, try |-> 0]

(***************************************************************************)
(* CreateRun with ActivationPending and InitialClawID, as both production  *)
(* callers invoke it: a suspended run with its first attempt bound and the *)
(* effects of the initial state planned.                                   *)
(***************************************************************************)
Init ==
    /\ run = [state |-> InitialState, version |-> 1, status |-> "suspended",
              waiting |-> "activation", attempt |-> 1, task |-> Nobody,
              ctx |-> FALSE]
    /\ attempts = [n \in Attempts |-> IF n = 1 THEN "active" ELSE "none"]
    /\ events = [e \in EventIds |-> "none"]
    /\ transitions = {[event |-> Created, from |-> "", to |-> InitialState,
                       version |-> 1]}
    /\ effects = [k \in EffectKeys |->
                    IF k \in {Created} \X OnEnter[InitialState]
                    THEN Planned ELSE Absent]
    /\ tries = [k \in EffectKeys |-> [i \in Tries |-> "none"]]
    /\ tasks = [t \in Tasks |-> [status |-> "none", effect |-> NoKey,
                                 attempt |-> 0, version |-> 0]]
    /\ outbox = [m \in Messages |-> [status |-> "none", attempt |-> 0,
                                     task |-> Nobody, effect |-> NoKey]]
    /\ worker = [w \in Workers |-> Idle]
    /\ driver = "assemble"

--------------------------------------------------------------------------------
(***************************************************************************)
(* Helpers of ApplyEvent and ApplyCommand.                                 *)
(***************************************************************************)
\* Mutant of TerminalRunStatus: the state's name is stored as the status.
MutantTerminalStatus(s) == s

TerminalRunStatus(s) == IF s \in CancelStates THEN "cancelled" ELSE "completed"

\* scheduleEffects: one planned row per definition, keyed by its origin.
ScheduleEffects(e, defs) ==
    [k \in EffectKeys |-> IF k \in {e} \X defs /\ effects[k].status = "none"
                          THEN Planned ELSE effects[k]]

\* updateBoundTask: the task row after an accepted event of this kind.
TaskStatusAfter(kind, status) ==
    CASE kind = "agent.task.started" -> "running"
      [] kind = "agent.task.completed" -> "completed"
      [] kind = "agent.task.failed" -> "failed"
      [] OTHER -> status

UpdateBoundTask(kind, task) ==
    [t \in Tasks |-> IF t = task
                     THEN [tasks[t] EXCEPT
                             !.status = TaskStatusAfter(kind, @)]
                     ELSE tasks[t]]

\* ... and the run's current_task_id, which a finished task clears.
CurrentTaskAfter(kind, task) ==
    IF task # Nobody /\ kind \in {"agent.task.completed", "agent.task.failed"}
    THEN Nobody ELSE run.task

\* matchingEventClause and matchingTransition: what listens, guards aside.
ListeningClauses(kind) == {c \in Clauses : c.on = kind /\ run.state \in c.from}
Listeners(kind) == {t \in Transitions : t.on = kind /\ run.state \in t.from}
Ambiguous(S) == \E x, y \in S : x # y
ClauseEffects(cs) == UNION {c.effects : c \in {x \in cs : ~x.ignore}}

\* An event row whose disposition changes nothing else.
RecordEvent(e, disposition) ==
    /\ events' = [events EXCEPT ![e] = disposition]
    /\ UNCHANGED <<run, attempts, transitions, effects, tries, tasks, outbox>>

RejectAndSuspend(e) ==
    /\ events' = [events EXCEPT ![e] = "rejected"]
    /\ run' = [run EXCEPT !.status = "suspended", !.waiting = "reason"]
    /\ UNCHANGED <<attempts, transitions, effects, tries, tasks, outbox>>

\* Accepted, but no transition fires: the clause's effects are planned.
AcceptInPlace(e, defs, kind, task) ==
    /\ events' = [events EXCEPT ![e] = "accepted"]
    /\ effects' = ScheduleEffects(e, defs)
    /\ tasks' = UpdateBoundTask(kind, task)
    /\ run' = [run EXCEPT !.task = CurrentTaskAfter(kind, task)]
    /\ UNCHANGED <<attempts, transitions, tries, outbox>>

\* Mutant of Advance: the state version is not incremented.
MutantAdvanceInPlace(e, to, defs, kind, task) ==
    /\ run' = [run EXCEPT !.state = to, !.status = "active", !.waiting = ""]
    /\ events' = [events EXCEPT ![e] = "accepted"]
    /\ transitions' = transitions \cup
          {[event |-> e, from |-> run.state, to |-> to,
            version |-> run.version]}
    /\ UNCHANGED <<attempts, effects, tries, tasks, outbox>>

\* applyTransition once the destination's invariant holds.
Advance(e, to, defs, kind, task) ==
    /\ run.version < MaxVersion
    /\ run' = [run EXCEPT !.state = to, !.version = @ + 1,
                          !.status = IF to \in TerminalStates
                                     THEN TerminalRunStatus(to) ELSE "active",
                          !.waiting = "",
                          !.task = CurrentTaskAfter(kind, task)]
    /\ events' = [events EXCEPT ![e] = "accepted"]
    /\ transitions' = transitions \cup
          {[event |-> e, from |-> run.state, to |-> to,
            version |-> run.version + 1]}
    /\ effects' = IF to \in TerminalStates THEN effects
                  ELSE ScheduleEffects(e, defs \cup OnEnter[to])
    /\ tasks' = UpdateBoundTask(kind, task)
    /\ UNCHANGED <<attempts, tries, outbox>>

\* The transition's destination may have an invariant that does not hold.
ApplyTransition(e, to, defs, kind, task) ==
    \/ to \in InvariantStates /\ RejectAndSuspend(e)
    \/ Advance(e, to, defs, kind, task)

(***************************************************************************)
(* ApplyEvent from the point where the event has passed authorization and  *)
(* the version check.  Any subset of the listening clauses and transitions *)
(* may be the one whose guards hold.                                       *)
(***************************************************************************)
EvaluateEvent(e, kind, task) ==
    \E cs \in SUBSET ListeningClauses(kind), ts \in SUBSET Listeners(kind) :
        \/ /\ Ambiguous(cs) \/ Ambiguous(ts)
           /\ RejectAndSuspend(e)
        \/ /\ ~Ambiguous(cs) /\ ts = {}
           /\ \/ run.state \in InvariantStates /\ RejectAndSuspend(e)
              \/ AcceptInPlace(e, ClauseEffects(cs), kind, task)
        \/ /\ ~Ambiguous(cs) /\ ~Ambiguous(ts)
           /\ \E t \in ts :
                 ApplyTransition(e, t.to, ClauseEffects(cs) \cup t.effects,
                                 kind, task)

\* Mutant of AuthorizeBoundTask: the task's own version is not compared.
MutantAnyTaskVersion(task, expected) ==
    \/ task = Nobody
    \/ /\ task \in Tasks /\ task = run.task
       /\ tasks[task].attempt = run.attempt
       /\ tasks[task].status \in LiveTask

\* authorizeBoundTask: a message about a task must name the current, live
\* one and carry the version the task was assigned at.
AuthorizeBoundTask(task, expected) ==
    \/ task = Nobody
    \/ /\ task \in Tasks /\ task = run.task
       /\ tasks[task].attempt = run.attempt
       /\ expected \in {Nobody, tasks[task].version}
       /\ tasks[task].status \in LiveTask

(***************************************************************************)
(* ApplyEvent for an event not seen before; one seen before only gets a    *)
(* "duplicate" receipt.  The run's status is not consulted.                *)
(***************************************************************************)
ApplyEvent(e, kind, task, expected) ==
    /\ events[e] = "none"
    /\ AuthorizeBoundTask(task, expected)
    /\ \/ /\ expected \notin {Nobody, run.version}
          /\ RecordEvent(e, "stale_state")
       \/ /\ expected \in {Nobody, run.version}
          /\ EvaluateEvent(e, kind, task)

--------------------------------------------------------------------------------
(***************************************************************************)
(* The claw behind /claw/control/ws.  Its VM is provisioned once the       *)
(* activation driver has released the run; every frame is authorized       *)
(* against the run's current attempt, and the run's status is not checked. *)
(***************************************************************************)
ClawConnected == driver \in {"start", "done"} /\ attempts[run.attempt] = "active"

\* ApplyAgentControl: an envelope whose payload claims a namespace the agent
\* does not own is recorded and goes no further.
ApplyAgentControl(e, kind) ==
    /\ ClawConnected
    /\ kind \in AgentKinds
    /\ \E task \in {Nobody, run.task}, expected \in {Nobody} \cup Versions :
          /\ kind \in TaskKinds => task # Nobody
          /\ kind \in StateChangingKinds => expected # Nobody
          /\ \/ ApplyEvent(e, kind, task, expected)
             \/ /\ events[e] = "none"
                /\ AuthorizeBoundTask(task, expected)
                /\ RecordEvent(e, "unauthorized")
    /\ UNCHANGED <<worker, driver>>

\* ApplyDeliveryControl of a manifest whose pull requests were verified; the
\* pull request rows themselves are not part of this module.
SubmitDelivery(e, kind) ==
    /\ ClawConnected
    /\ kind \in DeliveryKinds
    /\ \E expected \in Versions : ApplyEvent(e, kind, Nobody, expected)
    /\ UNCHANGED <<worker, driver>>

\* registerPullRequests: a claim is an audit record, never an input to the
\* transitions; the version is checked again after the verification.
ClaimPullRequest(e) ==
    /\ ClawConnected
    /\ events[e] = "none"
    /\ \/ run.status \in LiveRun /\ RecordEvent(e, "accepted")
       \/ RecordEvent(e, "stale_state")
    /\ UNCHANGED <<worker, driver>>

\* ApplyCommandReceipt: the exec task id is not passed on, so the version is
\* the only check.
ApplyCommandReceipt(e, kind) ==
    /\ ClawConnected
    /\ kind \in ReceiptKinds
    /\ \E expected \in Versions : ApplyEvent(e, kind, Nobody, expected)
    /\ UNCHANGED <<worker, driver>>

\* RejectAgentControl: the apply failed, the refusal itself is recorded.
RejectAgentControl(e) ==
    /\ ClawConnected
    /\ events[e] = "none"
    /\ RecordEvent(e, "rejected")
    /\ UNCHANGED <<worker, driver>>

\* publishEvidencePolicyEvents: a policy event bound to no attempt, after
\* evidence from the source-control webhook or the reconciler.
PublishPolicyEvent(e, kind) ==
    /\ driver \in {"start", "done"}
    /\ kind \in PolicyKinds
    /\ ApplyEvent(e, kind, Nobody, Nobody)
    /\ UNCHANGED <<worker, driver>>

(***************************************************************************)
(* The control outbox: the sender loop, and the claw's receipts.           *)
(***************************************************************************)
MarkControlSent(m) ==
    /\ ClawConnected
    /\ outbox[m].status = "pending" /\ outbox[m].attempt = run.attempt
    /\ outbox' = [outbox EXCEPT ![m].status = "sent"]
    /\ UNCHANGED <<run, attempts, events, transitions, effects, tries, tasks,
                   worker, driver>>

AcknowledgeControl(m) ==
    /\ ClawConnected
    /\ outbox[m].status \in LiveMessage /\ outbox[m].attempt = run.attempt
    /\ outbox' = [outbox EXCEPT ![m].status = "acknowledged"]
    /\ UNCHANGED <<run, attempts, events, transitions, effects, tries, tasks,
                   worker, driver>>

RejectControl(m) ==
    /\ ClawConnected
    /\ outbox[m].status \in LiveMessage /\ outbox[m].attempt = run.attempt
    /\ run.status \in LiveRun
    /\ outbox' = [outbox EXCEPT ![m].status = "cancelled"]
    /\ run' = [run EXCEPT !.status = "suspended", !.waiting = "reason"]
    /\ UNCHANGED <<attempts, events, transitions, effects, tries, tasks,
                   worker, driver>>

\* A uuid never used before; the lowest free number stands for it.
FreshMessage(m) == /\ outbox[m].status = "none"
                   /\ \A i \in 1 .. (m - 1) : outbox[i].status # "none"
FreshTask(t) == /\ tasks[t].status = "none"
                /\ \A i \in 1 .. (t - 1) : tasks[i].status # "none"

EnqueueControl(m) ==
    /\ driver \in {"start", "done"}
    /\ run.status \in LiveRun
    /\ FreshMessage(m)
    /\ outbox' = [outbox EXCEPT ![m] =
          [status |-> "pending", attempt |-> run.attempt, task |-> Nobody,
           effect |-> NoKey]]
    /\ UNCHANGED <<run, attempts, events, transitions, effects, tries, tasks,
                   worker, driver>>

--------------------------------------------------------------------------------
(***************************************************************************)
(* Execution attempts.  A new one supersedes the old, withdraws its        *)
(* messages and reissues the current task if that is still live.           *)
(***************************************************************************)
FreshAttempt(n) == /\ attempts[n] = "none"
                   /\ \A i \in 1 .. (n - 1) : attempts[i] # "none"

Supersede(n) == [i \in Attempts |-> IF i = n THEN "active"
                                    ELSE IF attempts[i] = "active" THEN "lost"
                                    ELSE attempts[i]]

\* Mutant of WithdrawMessages: queued messages survive the attempt.
MutantKeepMessages == outbox

WithdrawMessages == [m \in Messages |->
                       IF outbox[m].status \in LiveMessage
                       THEN [outbox[m] EXCEPT !.status = "cancelled"]
                       ELSE outbox[m]]

HasLiveTask == run.task \in Tasks /\ tasks[run.task].status \in LiveTask

ReissueTask(n) ==
    \E t \in Tasks, m \in Messages :
        /\ FreshTask(t) /\ FreshMessage(m)
        /\ tasks' = [tasks EXCEPT
              ![run.task].status = "cancelled",
              ![t] = [tasks[run.task] EXCEPT !.status = "assigned",
                                             !.attempt = n]]
        /\ outbox' = [WithdrawMessages EXCEPT ![m] =
              [status |-> "pending", attempt |-> n, task |-> t,
               effect |-> NoKey]]
        /\ run' = [run EXCEPT !.attempt = n, !.task = t]

StartAttempt(n) ==
    /\ driver \in {"start", "done"}
    /\ run.status \in LiveRun
    /\ FreshAttempt(n)
    /\ attempts' = Supersede(n)
    /\ \/ HasLiveTask /\ ReissueTask(n)
       \/ /\ ~HasLiveTask
          /\ outbox' = WithdrawMessages
          /\ run' = [run EXCEPT !.attempt = n, !.task = Nobody]
          /\ UNCHANGED tasks
    /\ UNCHANGED <<events, transitions, effects, tries, worker, driver>>

--------------------------------------------------------------------------------
(***************************************************************************)
(* Effects: lease, execute, settle.                                        *)
(***************************************************************************)
\* Mutant of Expired: the sweep finds nothing.
MutantNeverExpired == {}

Expired == {k \in EffectKeys : effects[k].status = "running"
                               /\ ~effects[k].lease}

\* Mutant of ExpireTries: only the effect row is swept.
MutantTriesKeepRunning == tries

\* expireEffectLeases, the first statement of every ClaimEffect.
ExpireTries == [k \in EffectKeys |->
    IF k \in Expired
    THEN [i \in Tries |-> IF tries[k][i] = "running" THEN "unknown"
                          ELSE tries[k][i]]
    ELSE tries[k]]
ExpireEffects == [k \in EffectKeys |->
    IF k \in Expired
    THEN [effects[k] EXCEPT !.status = "unknown", !.owner = NoWorker]
    ELSE effects[k]]

\* Mutant of Claimable: the query does not join the run's status.
MutantClaimAnyRun(k) == effects[k].status \in {"planned", "retryable_failed"}

\* The effect query's ORDER BY puts never-tried effects (next_attempt_at 0)
\* before retries.
Claimable(k) ==
    /\ run.status = "active"
    /\ \/ effects[k].status = "planned"
       \/ /\ effects[k].status = "retryable_failed"
          /\ \A j \in EffectKeys : effects[j].status # "planned"

ClaimEffect(w, k) ==
    /\ worker[w] = Idle
    /\ Claimable(k)
    /\ effects[k].count < MaxTries
    /\ LET n == effects[k].count + 1 IN
         /\ effects' = [ExpireEffects EXCEPT ![k] =
               [status |-> "running", count |-> n, owner |-> w, lease |-> TRUE]]
         /\ tries' = [ExpireTries EXCEPT ![k][n] = "running"]
         /\ worker' = [worker EXCEPT ![w] =
               [pc |-> "claimed", key |-> k, try |-> n]]
    /\ UNCHANGED <<run, attempts, events, transitions, tasks, outbox, driver>>

\* ClaimEffect that finds nothing due still commits the expired leases.
ClaimNothing(w) ==
    /\ worker[w] = Idle
    /\ Expired # {}
    /\ \A k \in EffectKeys :
          ~(run.status = "active" /\ effects[k].status = "planned")
    /\ effects' = ExpireEffects
    /\ tries' = ExpireTries
    /\ UNCHANGED <<run, attempts, events, transitions, tasks, outbox, worker,
                   driver>>

\* Mutant of Leased: the claim in memory is trusted.
MutantTrustClaim(w) == worker[w].pc = "claimed"

\* The lease check of CompleteEffect and of both Materialize operations.
Leased(w) ==
    LET k == worker[w].key IN
    /\ worker[w].pc = "claimed"
    /\ tries[k][worker[w].try] = "running"
    /\ effects[k].status = "running"
    /\ effects[k].owner = w
    /\ effects[k].lease

Settle(w, status) ==
    LET k == worker[w].key IN
    /\ effects' = [effects EXCEPT ![k].status = status, ![k].owner = NoWorker,
                                  ![k].lease = FALSE]
    /\ tries' = [tries EXCEPT ![k][worker[w].try] = status]
    /\ worker' = [worker EXCEPT ![w] = Idle]

\* Both Materialize operations need an active run and an active attempt.
AttemptBound == run.status = "active" /\ attempts[run.attempt] = "active"

MaterializeAgentTask(w) ==
    /\ Leased(w)
    /\ Kind(worker[w].key) = "agent.task"
    /\ AttemptBound
    /\ \E t \in Tasks, m \in Messages :
          /\ FreshTask(t) /\ FreshMessage(m)
          /\ tasks' = [tasks EXCEPT ![t] =
                [status |-> "assigned", effect |-> worker[w].key,
                 attempt |-> run.attempt, version |-> run.version]]
          /\ run' = [run EXCEPT !.task = t]
          /\ outbox' = [outbox EXCEPT ![m] =
                [status |-> "pending", attempt |-> run.attempt, task |-> t,
                 effect |-> worker[w].key]]
    /\ Settle(w, "succeeded")
    /\ UNCHANGED <<attempts, events, transitions, driver>>

MaterializeCommandTask(w) ==
    /\ Leased(w)
    /\ Kind(worker[w].key) \in {"exec.run", "dependency.update"}
    /\ AttemptBound
    /\ \E m \in Messages :
          /\ FreshMessage(m)
          /\ outbox' = [outbox EXCEPT ![m] =
                [status |-> "pending", attempt |-> run.attempt, task |-> Nobody,
                 effect |-> worker[w].key]]
    /\ Settle(w, "succeeded")
    /\ UNCHANGED <<run, attempts, events, transitions, tasks, driver>>

\* executeWorkflowV2Effect when materializing failed (run not active, no
\* active attempt, a payload it cannot use, an unknown kind): the worker
\* settles the effect, if its lease is still good, and drops the claim.
CompleteEffect(w) ==
    /\ worker[w].pc = "claimed"
    /\ IF Leased(w)
       THEN Settle(w, IF Kind(worker[w].key) = "agent.task"
                      THEN "retryable_failed" ELSE "permanent_failed")
       ELSE /\ worker' = [worker EXCEPT ![w] = Idle]
            /\ UNCHANGED <<effects, tries>>
    /\ UNCHANGED <<run, attempts, events, transitions, tasks, outbox, driver>>

ResolveUnknownEffect(k, status) ==
    /\ effects[k].status = "unknown"
    /\ effects' = [effects EXCEPT ![k].status = status]
    /\ UNCHANGED <<run, attempts, events, transitions, tries, tasks, outbox,
                   worker, driver>>

\* The lease's minute passes.
LeaseLapses(k) ==
    /\ effects[k].status = "running" /\ effects[k].lease
    /\ effects' = [effects EXCEPT ![k].lease = FALSE]
    /\ UNCHANGED <<run, attempts, events, transitions, tries, tasks, outbox,
                   worker, driver>>

\* The hub process dies; the next one is another worker identity.
WorkerStops(w) ==
    /\ w \in CrashProne /\ worker[w].pc # "stopped"
    /\ worker' = [worker EXCEPT ![w] = [Idle EXCEPT !.pc = "stopped"]]
    /\ UNCHANGED <<store, driver>>

\* Mutant of ExpireAgentTasks: a task never started has no deadline.
MutantExpireStartedOnly(S) ==
    /\ S # {} /\ \A t \in S : tasks[t].status = "running"
    /\ tasks' = [t \in Tasks |-> IF t \in S
                                 THEN [tasks[t] EXCEPT !.status = "timed_out"]
                                 ELSE tasks[t]]
    /\ UNCHANGED <<run, attempts, events, transitions, effects, tries, outbox,
                   worker, driver>>

\* ExpireAgentTasks: S is the set of live tasks past one of their deadlines.
ExpireAgentTasks(S) ==
    /\ S # {} /\ \A t \in S : tasks[t].status \in LiveTask
    /\ tasks' = [t \in Tasks |-> IF t \in S
                                 THEN [tasks[t] EXCEPT !.status = "timed_out"]
                                 ELSE tasks[t]]
    /\ run' = IF run.status = "active" /\ run.task \in S
              THEN [run EXCEPT !.status = "suspended", !.waiting = "reason"]
              ELSE run
    /\ UNCHANGED <<attempts, events, transitions, effects, tries, outbox,
                   worker, driver>>

--------------------------------------------------------------------------------
(***************************************************************************)
(* CancelActivation, for a failed activation, a failed or deleted claw and *)
(* a run past its timeout: the run and everything under it is closed.      *)
(***************************************************************************)
CancelActivation ==
    /\ run.status \in LiveRun
    /\ run' = [run EXCEPT !.status = "cancelled", !.waiting = "reason",
                          !.task = Nobody]
    /\ attempts' = [n \in Attempts |-> IF attempts[n] = "active"
                                       THEN "cancelled" ELSE attempts[n]]
    /\ effects' = [k \in EffectKeys |->
          IF effects[k].status \in Unsettled
          THEN [effects[k] EXCEPT !.status = "cancelled", !.owner = NoWorker,
                                  !.lease = FALSE]
          ELSE effects[k]]
    /\ tries' = [k \in EffectKeys |-> [i \in Tries |->
          IF tries[k][i] = "running" THEN "cancelled" ELSE tries[k][i]]]
    /\ tasks' = [t \in Tasks |-> IF tasks[t].status \in LiveTask
                                 THEN [tasks[t] EXCEPT !.status = "cancelled"]
                                 ELSE tasks[t]]
    /\ outbox' = WithdrawMessages
    /\ UNCHANGED <<events, transitions>>

\* cancelWorkflowV2RunForClaw and reapWorkflowV2RunTimeouts, at any moment.
CancelRun == CancelActivation /\ UNCHANGED <<worker, driver>>

(***************************************************************************)
(* The activation driver (triggerWorkflowV2Config and its cron twin), one  *)
(* action per transaction.                                                 *)
(***************************************************************************)
\* assembleContext up to the update of context_bundle_id; the resolver may
\* fail outright, or a required source may fail and the bundle with it.
AssembleContext ==
    /\ driver = "assemble"
    /\ \/ driver' = "cancel" /\ UNCHANGED run
       \/ /\ driver' \in ContextKinds
          /\ run' = [run EXCEPT !.ctx = TRUE]
    /\ UNCHANGED <<attempts, events, transitions, effects, tries, tasks,
                   outbox, worker>>

\* The context event is applied; a rejected one fails the activation, and a
\* failed bundle that moved nothing is left for SuspendOnContextFailure.
ApplyContextEvent(e) ==
    /\ driver \in ContextKinds
    /\ events[e] = "none"
    /\ EvaluateEvent(e, driver, Nobody)
    /\ driver' = IF events'[e] # "accepted" THEN "cancel"
                 ELSE IF /\ driver = "context.bundle.failed"
                         /\ run'.version = run.version
                         /\ run'.status \in LiveRun
                      THEN "suspend" ELSE "release"
    /\ UNCHANGED worker

SuspendOnContextFailure ==
    /\ driver = "suspend"
    /\ run' = IF run.status \in LiveRun
              THEN [run EXCEPT !.status = "suspended", !.waiting = "reason"]
              ELSE run
    /\ driver' = "release"
    /\ UNCHANGED <<attempts, events, transitions, effects, tries, tasks,
                   outbox, worker>>

CompleteActivation ==
    /\ driver = "release"
    /\ \/ /\ run.status = "suspended" /\ run.waiting = "activation" /\ run.ctx
          /\ run' = [run EXCEPT !.status = "active", !.waiting = ""]
          /\ driver' = "start"
       \/ /\ ~(run.status = "suspended" /\ run.waiting = "activation" /\ run.ctx)
          /\ driver' = IF run.ctx /\ (\/ run.status = "active"
                                      \/ /\ run.status = "suspended"
                                         /\ run.waiting # "activation")
                       THEN "start" ELSE "cancel"
          /\ UNCHANGED run
    /\ UNCHANGED <<attempts, events, transitions, effects, tries, tasks,
                   outbox, worker>>

\* The driver's cleanup; a run that is already terminal stays as it is.
CancelFailedActivation ==
    /\ driver = "cancel"
    /\ driver' = "aborted"
    /\ \/ CancelActivation
       \/ run.status \notin LiveRun /\ UNCHANGED store
    /\ UNCHANGED worker

\* ApplyCommand("start"), after provisioning has begun in the background.
\* It does not look at the run's status.
ApplyStartCommand(e) ==
    /\ driver = "start"
    /\ driver' = "done"
    /\ \/ \E c \in StartCommands :
             /\ InitialState \in c.from /\ run.state \in c.from
             /\ events[e] = "none"
             /\ ApplyTransition(e, c.to, {}, "operator.command.start", Nobody)
       \/ /\ \A c \in StartCommands : {InitialState, run.state} \cap c.from
                                        # {InitialState, run.state}
          /\ UNCHANGED store
    /\ UNCHANGED worker

\* The hub process dies during the activation.  Nothing resumes it: before
\* the release the run is left suspended, after it the command is never sent.
DriverStops ==
    /\ CrashProne # {} /\ driver \notin {"done", "aborted"}
    /\ driver' = IF driver = "start" THEN "done" ELSE "aborted"
    /\ UNCHANGED <<store, worker>>

--------------------------------------------------------------------------------
ClawStep ==
    \/ \E e \in EventIds, kind \in EventKinds : ApplyAgentControl(e, kind)
    \/ \E e \in EventIds, kind \in EventKinds : ApplyCommandReceipt(e, kind)
    \/ \E e \in EventIds, kind \in EventKinds : SubmitDelivery(e, kind)
    \/ \E e \in EventIds : ClaimPullRequest(e)
    \/ \E e \in EventIds : RejectAgentControl(e)
    \/ \E m \in Messages : AcknowledgeControl(m) \/ RejectControl(m)

WorkerStep ==
    \/ \E w \in Workers, k \in EffectKeys : ClaimEffect(w, k)
    \/ \E w \in Workers : ClaimNothing(w)
    \/ \E w \in Workers : MaterializeAgentTask(w)
    \/ \E w \in Workers : MaterializeCommandTask(w)
    \/ \E w \in Workers : CompleteEffect(w)
    \/ \E w \in Workers : WorkerStops(w)
    \/ \E S \in SUBSET Tasks : ExpireAgentTasks(S)

DriverStep ==
    \/ AssembleContext
    \/ \E e \in EventIds : ApplyContextEvent(e)
    \/ SuspendOnContextFailure
    \/ CompleteActivation
    \/ CancelFailedActivation
    \/ \E e \in EventIds : ApplyStartCommand(e)
    \/ DriverStops

HubStep ==
    \/ \E e \in EventIds, kind \in EventKinds : PublishPolicyEvent(e, kind)
    \/ \E m \in Messages : MarkControlSent(m) \/ EnqueueControl(m)
    \/ \E n \in Attempts : StartAttempt(n)
    \/ \E k \in EffectKeys :
          \E status \in {"succeeded", "retryable_failed", "permanent_failed",
                         "cancelled"} : ResolveUnknownEffect(k, status)
    \/ \E k \in EffectKeys : LeaseLapses(k)
    \/ CancelRun

Next == ClawStep \/ WorkerStep \/ DriverStep \/ HubStep

Spec == Init /\ [][Next]_vars

--------------------------------------------------------------------------------
(***************************************************************************)
(* Properties.                                                             *)
(***************************************************************************)
RunStatuses == {"active", "suspended", "completed", "cancelled"}
TryStatuses == {"none", "running", "succeeded", "retryable_failed",
                "permanent_failed", "unknown", "cancelled"}
EffectStatuses == TryStatuses \cup {"planned"}

TaskStatuses == LiveTask \cup {"none", "completed", "failed", "timed_out",
                               "cancelled"}
MessageStatuses == LiveMessage \cup {"none", "acknowledged", "cancelled"}

RunRows == [state : States, version : Versions, status : RunStatuses,
            waiting : {"", "activation", "reason"}, attempt : Attempts,
            task : Tasks \cup {Nobody}, ctx : BOOLEAN]
LedgerRows == [event : EventIds \cup {Created}, from : States \cup {""},
               to : States, version : Versions]
EffectRows == [status : EffectStatuses, count : 0 .. MaxTries,
               owner : Workers \cup {NoWorker}, lease : BOOLEAN]
TaskRows == [status : TaskStatuses, effect : EffectKeys \cup {NoKey},
             attempt : 0 .. MaxAttempts, version : 0 .. MaxVersion]
MessageRows == [status : MessageStatuses, attempt : 0 .. MaxAttempts,
                task : Tasks \cup {Nobody}, effect : EffectKeys \cup {NoKey}]
Claims == [pc : {"idle", "stopped"}, key : {NoKey}, try : {0}] \cup
          [pc : {"claimed"}, key : EffectKeys, try : Tries]

RowsOK ==
    /\ run \in RunRows
    /\ attempts \in [Attempts -> {"none", "active", "lost", "cancelled"}]
    /\ events \in [EventIds -> {"none", "accepted", "rejected",
                                "stale_state", "unauthorized"}]
    /\ transitions \subseteq LedgerRows
    /\ effects \in [EffectKeys -> EffectRows]
    /\ tries \in [EffectKeys -> [Tries -> TryStatuses]]
    /\ tasks \in [Tasks -> TaskRows]
    /\ outbox \in [Messages -> MessageRows]

MemoryOK ==
    /\ worker \in [Workers -> Claims]
    /\ driver \in {"assemble", "suspend", "release", "cancel", "start", "done",
                   "aborted"} \cup ContextKinds

\* Every row of the workflow_v2_* tables, and what the hub keeps in memory,
\* has values of the kinds the code writes there.
TypeOK == RowsOK /\ MemoryOK

\* At any moment at most one execution attempt is active, and it is the one
\* the run points at: AuthorizeControlAttempt trusts exactly this pair, so a
\* superseded claw can never have its frames applied.
OneActiveAttempt == \A n \in Attempts : attempts[n] = "active" => n = run.attempt

\* The effect row and its attempt rows agree across the lease sweep, crashes,
\* retries and cancellation: an effect is running exactly when its latest
\* attempt is, an owner is recorded exactly then, and no earlier attempt is
\* left running for a late worker to complete.
LeaseDiscipline ==
    \A k \in EffectKeys :
        /\ (effects[k].owner # NoWorker) <=> (effects[k].status = "running")
        /\ \A i \in Tries :
              /\ (tries[k][i] = "running") <=>
                    (effects[k].status = "running" /\ i = effects[k].count)
              /\ (tries[k][i] # "none") <=> (i <= effects[k].count)

\* An effect is handed to the claw at most once, however often it was claimed,
\* lost and retried: its row reads "succeeded" from then on, no second
\* assignment carries it, and no two live tasks stem from it.
AssignedOnce ==
    /\ \A m, n \in Messages :
          /\ outbox[m].effect # NoKey => effects[outbox[m].effect].status
                                           = "succeeded"
          /\ outbox[m].effect # NoKey /\ outbox[m].effect = outbox[n].effect
                => m = n
    /\ \A t, u \in Tasks :
          /\ tasks[t].status \in LiveTask /\ tasks[u].status \in LiveTask
          /\ tasks[t].effect = tasks[u].effect
          => t = u

\* Whatever waits in the control outbox is addressed to the current attempt;
\* a message for a superseded claw is withdrawn with the attempt.
LiveMessagesTargetCurrentAttempt ==
    \A m \in Messages : outbox[m].status \in LiveMessage
                           => outbox[m].attempt = run.attempt

\* The transition ledger replays to the run row: versions are contiguous from
\* the creation row, each row starts in the state the previous one reached,
\* the last one reached the run's state, and no event moved the run twice.
LedgerReplays ==
    /\ {r.version : r \in transitions} = 1 .. run.version
    /\ \A r \in transitions :
          /\ r.version = run.version => r.to = run.state
          /\ r.version = 1 <=> r.event = Created
    /\ \A q, r \in transitions :
          /\ r.version = q.version + 1 => r.from = q.to
          /\ q.version = r.version \/ q.event = r.event => q = r

\* Once the run's attempt was cancelled with its claw, nothing is assigned to
\* it: no live task and no queued assignment, even when a late event has set
\* the run active again.
CancelledAttemptHoldsNoWork ==
    attempts[run.attempt] = "cancelled" =>
        /\ \A t \in Tasks : tasks[t].status \notin LiveTask
        /\ \A m \in Messages : outbox[m].effect # NoKey
                                  => outbox[m].status \notin LiveMessage

\* Authority over the run goes with its current attempt and with nothing else:
\* no earlier claw is active, none is addressed by a waiting message, and a
\* claw whose attempt was cancelled has no live task.
AttemptAuthority ==
    OneActiveAttempt /\ LiveMessagesTargetCurrentAttempt /\ CancelledAttemptHoldsNoWork

\* No effect is claimed before the run's context bundle is bound, although
\* the effects of the initial state are planned with the run.
ClaimsWaitForContext ==
    \A k \in EffectKeys : effects[k].count > 0 => run.ctx

\* A task is completed or failed by its claw only while it is the run's
\* current task, on the current attempt, and no transition has happened since
\* it was assigned.
TaskEndsAtItsVersion ==
    [][\A t \in Tasks :
         /\ tasks[t].status \in LiveTask
         /\ tasks'[t].status \in {"completed", "failed"}
         => /\ t = run.task
            /\ tasks[t].attempt = run.attempt
            /\ tasks[t].version = run.version]_vars

\* A settled effect is final: a worker whose lease lapsed, or whose run was
\* cancelled while it was executing, cannot settle it again.
SettledIsFinal ==
    [][\A k \in EffectKeys :
         effects[k].status \in {"succeeded", "permanent_failed", "cancelled"}
           => effects'[k] = effects[k]]_vars

--------------------------------------------------------------------------------
(***************************************************************************)
(* The store as an implementation of the effect ledger.  Workers, leases,  *)
(* tries and unknown outcomes are detail of an effect that is open.        *)
(***************************************************************************)
PhaseOf(status) ==
    CASE status = "none" -> "unplanned"
      [] status \in Unsettled -> "open"
      [] status = "succeeded" -> "done"
      [] status = "permanent_failed" -> "failed"
      [] OTHER -> "withdrawn"
Phases == [k \in EffectKeys |-> PhaseOf(effects[k].status)]
CarriersOf == [k \in EffectKeys |-> {m \in Messages : outbox[m].effect = k}]

Ledger == INSTANCE EffectLedger WITH
            Effects <- EffectKeys, Carriers <- Messages,
            phase <- Phases, carriers <- CarriersOf

\* Every behaviour of the store, with its retries, lapsed leases, dead workers
\* and replaced claws, is one of the effect ledger: nothing is planned twice,
\* given out in two messages, or moved again once it is settled.
ImplementsLedger == Ledger!LedgerSpec

--------------------------------------------------------------------------------
(***************************************************************************)
(* Fairness: the worker of a hub that keeps running polls every 250 ms and *)
(* finishes what it claimed, leases lapse with time, and the task deadline *)
(* sweep runs every 30 seconds.                                            *)
(***************************************************************************)
Poll(w) == ClaimNothing(w) \/ \E k \in EffectKeys : ClaimEffect(w, k)
Finish(w) == \/ MaterializeAgentTask(w)
             \/ MaterializeCommandTask(w)
             \/ CompleteEffect(w)
DeadlinePasses(t) == \E S \in SUBSET Tasks : t \in S /\ ExpireAgentTasks(S)

Fairness ==
    /\ \A w \in Workers \ CrashProne : WF_vars(Poll(w)) /\ WF_vars(Finish(w))
    /\ \A k \in EffectKeys : WF_vars(LeaseLapses(k))
    /\ \A t \in Tasks : WF_vars(DeadlinePasses(t))

FairSpec == Spec /\ Fairness

\* A claim never sticks: even if its worker died, the effect leaves "running".
ClaimsEnd == \A k \in EffectKeys :
                (effects[k].status = "running") ~> (effects[k].status # "running")

\* Every task ends, also one the claw never started or the run forgot when a
\* later effect replaced its current task.
TasksEnd == \A t \in Tasks :
               (tasks[t].status \in LiveTask) ~> (tasks[t].status \notin LiveTask)

--------------------------------------------------------------------------------
(***************************************************************************)
(* What the comments of the repository say and the code does not keep.     *)
(***************************************************************************)
\* CancelActivation "terminally closes a run": once the attempt it cancelled
\* is the run's attempt, the run stays cancelled.
ClosedStaysClosed ==
    attempts[run.attempt] = "cancelled" => run.status = "cancelled"
================================================================================
