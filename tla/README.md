# ElasticClaw: a TLA+ verification project

ElasticClaw is a hub that provisions *claws* (VMs or containers in which a
coding agent runs), hands them work, follows the pull requests they open and
closes them down. The hub is one Go process with one SQLite database; what it
does is spread over goroutines that read the database, call a provider, GitHub
or a tracker, and write what they conclude some time later. Version 2 of its
workflow engine keeps everything it knows about a workflow run in tables and
drives the run with events. The engine and the channel to the claw's bridge are
the core of this project; around them are the parts of the hub that keep state of
their own. All of it is model-checked, and every safety property is also proved.

## Inventory

| Part | State | Operations | Talks to |
|---|---|---|---|
| Runtime (`pkg/hub/workflowv2/runtime.go`) | run row, events, facts, transition ledger | CreateRun, CompleteActivation, CancelActivation, ApplyEvent, ApplyCommand | everything below, inside one transaction |
| Control plane (`control.go`, `pkg/hub/workflow_v2_control_ws.go`) | attempts, control outbox, task binding | StartAttempt, EnqueueControl, ReadyControl, MarkControlSent, AcknowledgeControl, ApplyAgentControl, RejectAgentControl | the claw's bridge over a websocket |
| Effects (`effects.go`, `pkg/hub/workflow_v2_worker.go`) | effects, effect attempts, the claim in the worker's memory | ClaimEffect, CompleteEffect, ResolveUnknownEffect, lease sweep | worker loop, tasks |
| Tasks (`tasks.go`, `exec_tasks.go`, `exec_receipts.go`) | agent task rows, the run's current task | MaterializeAgentTask, MaterializeCommandTask, ApplyCommandReceipt, ExpireAgentTasks | outbox, runtime |
| Context (`context.go`) | context bundle | assembleContext | runtime events |
| Activation (`workflow_v2_activation.go`, `workflow_creator.go`) | the driver's position | create, assemble, release, provision in the background, start command | runtime, provisioning |
| Delivery and evidence (`delivery.go`, `pr_registration.go`, `evidence.go`, `reconciliation.go`, `workflow_v2_github*.go`) | pull requests, head generations, evidence, policy revisions | claims of the agent, webhooks, the two-minute reconciler, evaluation and publication | runtime events, GitHub |
| Bridge journal (`cmd/claw-bridge/control_v2.go`, `exec_tasks.go`) | inbox and outbox journal, running tasks | accept, execute, recover, send | hub control plane |
| Document (`pkg/types/v2`) | none | ParseAndValidateWorkflow, predicates, overlap check | every operation above |
| Claw lifecycle (`server.go`, `claw_retry.go`, `reaper.go`, `terminal_transitions.go`, `checkpoints.go`) | claw row, attempts of the task run, sandboxes, the connection, goroutines | provision, poll, bootstrap, register, stop, replace, kill, restore, repair | five providers, the bridge |
| Creation and admission (`factory_triggers.go`, `linear.go`, the ten creators) | trigger rows, pending claws, concurrency groups | claim, create, complete, release, promote | trackers, lifecycle |
| Cron (`cron_scheduler.go`, `cron_scheduler_v2.go`, `workflow_v2_terminal.go`) | overlap counters in memory, history rows, release markers | reload, tick, trigger, start, finish, release | activation, claws |
| Stop comments (`pipeline_runner.go`, `agent_failure_feedback.go`) | `stop_comment_pending` | stop, dispatch, post, redrive | trackers |
| Message queue and turns (`server.go`, `no_progress.go`, `lost_turn.go`, `cmd/claw-bridge/main.go`) | message rows, the reservation on the connection, pauses, the bridge's deduper and reply queue | register, deliver, mark, reply, pause, resume, watchdog | bridge |
| Usage limits (`llm_usage_limit.go`) | limit record, parked claws, copies on connections, probes | cap, release, reconcile, seed, clear | message queue |
| Volumes (`volumes.go` on both sides) | leases, manifests, mounts | acquire, attach, renew, sync, upload, release | artifact store, bridge |
| Lifecycle notifier (`lifecycle_notifier.go`, `lifecycle_claw_notifier.go`) | cursors, fences and stamps per route, two delivery tables, failure streaks, rows stashed in memory | boot, tick, the task-run and the claw pass, prune, park | notification providers, settings |
| Pipelines, PR watcher, other notifications, analytics, retention, settings, CLI, web UI | many tables | | |

What is hard here, and what makes each part correct:

* *Runtime.* Several sources race for one state version. The ledger must stay
  one contiguous history that replays to the run row; no event moves the run
  twice; a cancelled run stays so.
* *Control plane.* A claw is replaced while it has work and messages in
  flight. Only one attempt may speak for the run, and nothing is sent to a
  superseded one.
* *Effects.* A worker holds a claim in memory between two transactions, and its
  lease may lapse, its process die or the run be cancelled in between. Effect
  row and attempt rows must agree, an effect must be assigned at most once,
  and a settled effect must not move.
* *Tasks.* The run moves while the agent works. A completion counts only at the
  version the task was given at; every task must end even if nobody answers.
* *Channel between hub and bridge.* Both sides resend until a receipt arrives,
  over connections that break, and the bridge may restart. A task must run at
  most once, nobody may settle what the other side does not hold, and what was
  begun must be reported.
* *Delivery.* GitHub's answers are old when they are written. The facts a run
  branches on must be about the head the row names, and must in the end be what
  GitHub says even when no webhook arrives.
* *Lifecycle.* Up to four detectors stop the same claw while a replacement of it
  is under way, and every goroutine may die with the hub. No sandbox may be
  bootstrapped twice or outlive its claw, and no claw may be stuck half started.
* *Creation.* Webhook, poll and redelivery race for one issue and for the last
  place of a group.
* *Notifications.* Routes come, go and break while events arrive, and a new route's
  position is read off what the others left in the tables. A route must neither
  be told history nor miss what is owed to it, over restarts.
* *Cron, comments, turns, limits, volumes.* A row in the database and a copy of it
  in memory, changed by different goroutines; what happens once must happen once,
  and what is owed must not be forgotten.

## Modules

| Module | What it is |
|---|---|
| `WorkflowDoc` | A validated document as constants: states, transitions, clauses, effects; the classes of event kinds; what the validator guarantees, as an assumption |
| `WorkflowStore` | The rows of one run and every operation on them, the effect workers, the activation driver, the claw's envelopes, the reaper; properties and fairness |
| `EffectLedger` | The abstract specification of effects that `WorkflowStore` implements |
| `MCWorkflowStore` | Documents and symmetry for TLC |
| `WorkflowSafety_proofs` | Type correctness; attempts, outbox, context, task completion, ledger; leases, settlement, single assignment, the refinement |
| `ControlChannel` | One attempt's control channel: the hub's outbox and websocket handler, the connection, the bridge's journal, supervisor and task goroutines; properties and fairness |
| `MCControlChannel` | What the cancel messages cancel, for TLC |
| `ControlSafety_proofs` | Type correctness of the channel; at-most-once execution, answers, versions, outcomes, cancellation |
| `DeliveryPolicy` | One pull request of a run: GitHub, the delivery row, evidence, the policy's facts, the goroutines between them |
| `ClawLifecycle`, `MCClaws` | One claw from its row to its end, on any of five providers |
| `ClawCreation` | Triggers, creators, admission and promotion |
| `CronSlots` | Both cron schedulers and their overlap slots |
| `StopComment` | The comment a stopped claw owes |
| `TurnQueue` | Messages, turns, pauses and replies of one claw, both ends |
| `UsageLimit` | The usage limit of one provider key |
| `VolumeLeases` | One volume and the claws that mount it |
| `LifecycleRoutes` | Lifecycle notifications through several routes |
| `MCHub` | The hub parts above except `ClawLifecycle`, which share no state, for TLC |
| `HubRecords_proofs` | Volumes, stop comments, usage limits, cron slots, delivery |
| `HubClaws_proofs` | Turns, creation |
| `HubLifecycle_proofs` | The life of a claw |
| `HubRoutes_proofs` | Notifications: types, told once, nothing missed |
| `HubReplay_proofs` | Notifications: nothing replayed, failures counted |
| `HubParts_proofs` | The composition: each part of `MCHub` behaves as that part alone |

`MCHub` composes the parts by choosing one: the variable `focus` names the part
that moves, the others rest in one initial state. Nothing is lost, because the
parts meet only where each of them already models the meeting as a step of its
environment (a claw ends, a bridge connects, a turn is rejected). `PartsAreParts`
proves the other direction: what MCHub does to a part is a behaviour of that part.

### How `WorkflowStore` corresponds to the code

Every `Store` operation runs in one serializable SQLite transaction, so each is
one action; one that returns an error rolls back and is no step. State that
lives between transactions is a variable of its own: `worker` (the claim
`drainWorkflowV2Effects` executes) and `driver` (where `beforeProvision` and
the code after it have got to).

* `run`, `attempts`, `events`, `transitions`, `effects`, `tries`, `tasks`,
  `outbox` are the tables of `schema.go`, restricted to the columns that
  control depends on.
* `ApplyEvent` keeps the code's order: duplicate, task binding, expected
  version (`stale_state`), clauses, transitions, invariants. Which guards hold
  is a free choice of a subset of the listeners, so every document with that
  graph is covered, including the ambiguity that the validator tries to
  exclude and the runtime still handles.
* Effects are keyed by origin event and definition path, like `effectKey`;
  scheduling an existing key is a no-op, like the `ON CONFLICT` clause.
* A lease is a Boolean: `CompleteEffect` needs `lease_expires_at >= now`, the
  sweep needs `< now`, and nothing else compares it. `LeaseLapses` is time
  passing. `ClaimEffect` begins with the sweep, also when it then finds
  nothing (`ClaimNothing`).
* The claim order is that of the query: never-tried effects (whose
  `next_attempt_at` is 0) before retries. The order among equals is free.
* `CompleteEffect` is `executeWorkflowV2Effect` after a failed
  materialization; a materialization may fail for its payload at any time.
* `ClawConnected` is registration plus the check before every frame. An
  envelope whose apply fails is recorded by `RejectAgentControl`.
* The driver's steps are `AssembleContext`, `ApplyContextEvent`,
  `SuspendOnContextFailure`, `CompleteActivation`, `ApplyStartCommand`, with
  `CancelFailedActivation` as the error path. Provisioning is in the
  background from `CompleteActivation` on, so `CancelRun` (a failed or
  deleted claw, a timeout) may come at any moment. Cron activations send no
  start command: the driver then stays at `start`.
* `CrashProne` is the set of workers that may die with a claim; when it is not
  empty the driver may die too.

Abstracted: payloads, facts and provenance; receipts of duplicates; delays
(retry and heartbeat intervals, deadlines), which only postpone steps that the
model may take at any time; `current_task_id` values are numbers. An
attempt-bound policy event is also possible as an unbound one, so only the
latter is kept. `ApplyCommand`'s version check is left out because no
caller passes a version.

### How `ControlChannel` corresponds to the code

`WorkflowStore` treats a queued message as delivered, or not, in one step.
`ControlChannel` is the same traffic frame by frame, for one run attempt while
it is the run's current one; the run is reduced to its version, status and
current task.

* Hub tables: `run`, `tasks`, `outbox`, `recorded` (the event rows of what the
  bridge sent), `given` (the version an assignment carries). Bridge tables, which
  survive a restart: `inbox`, `journal` (its outbox), `snap` (the version of its
  snapshot). Bridge memory, which does not: `sup` (where `runConnection` is),
  `reply` (the receipt it is about to write), `exec` and `ctxDone` (task
  goroutines and their contexts), `recovered` (`claimRecovery`). `epoch` counts
  processes. `handed` and `told` are history variables.
* A connection is two frame queues, `down` and `up`. When it breaks, what was on
  its way down is lost; what was on its way up may still be read by the hub's
  handler of that connection (`stale`), which does not know that the bridge has
  already dialed again, and whose answers reach nobody.
* The hub's sender writes a frame and marks the row in two steps (`SendControl`,
  `MarkControlSent`); the readers of either connection run in between.
* `ReadEnvelope` is all of `acceptHubEnvelope`: version check, journal,
  snapshot, cancellation, start of commands. `WriteReceipt` is the write that
  follows, after which an accepted agent task starts. `Disconnect` in between
  is the write failing.
* A task goroutine claims (`Claim`), calls the gateway or the shell (`Begin`) or
  cannot (`CannotBegin`), queues its outcome (`Finish`) and journals it
  (`RecordOutcome`): separate transactions, so a crash may fall between any two.
* `recoverInterrupted` is `FailInterrupted` per task and then `EndRecovery`.
* `ApplyControl` covers `ApplyAgentControl`, `ApplyDeliveryControl` and
  `ApplyCommandReceipt` with `RejectAgentControl` behind them. For the lifecycle
  of a task its guards are those of `authorizeBoundTask` and the version check;
  what the agent posts itself (`LocalEvents`) may be taken or refused in any
  state, since its kind and payload decide.

Abstracted: the bridge's row statuses "pending" and "sent" are one, because they
differ only in when the row is written again; heartbeats; payloads; the
workspace gate in front of the hub's sender, which only delays. The 5 seconds
before a resend are the constant `Timely`: when it is `FALSE` a row may be
written again at once, which is what a slow network looks like; when it is
`TRUE` nothing is resent while it or its receipt is in flight. `Window` bounds
frames in flight.

### How `DeliveryPolicy` corresponds to the code

One pull request with one check run at a time (`domain` = "ci") or one reviewer
("review"); the policy is one leaf, with completion `all_merged`. GitHub's side
(`gh`, `report`, `clock`) is the environment: pushes, merges, closings, checks that
start, complete and start over, reviews that are submitted and dismissed.

* `pr` is the delivery row: registered or delivered, head, state and the
  generation of its head; `evidence` the rows of the current generation
  (evidence of an earlier one is never read again); `policyFact` and
  `deliveryFact` the revision and status facts that publications leave.
* `workers` are goroutines: the reconciler (`poll`), a webhook handler (`hook`),
  the handler of the agent's control message (`agent`). Each reads the row, then
  GitHub, then GitHub again, and writes in one transaction per step; between any
  two of them anything may happen. `WorkFails` ends one anywhere (GitHub does
  not answer, a timeout, a crash of the hub).
* Times are what decides between two snapshots: GitHub's are even numbers and
  the hub's own stamps odd, between the reports they lie between. `Times` gives a
  row without `completed_at` any stamp from the request to now.
* `PublishesPolicy` and `PublishesDelivery` are the loop of
  `evaluateAndPublishDeliveryPolicy`: nothing is published twice, and nothing
  whose revision has changed. An event is accepted or refused by the run's
  document, a free choice; its facts stay in either case.

`unpublished` is a history variable: a merged or closed row was written and its
policy was not evaluated after it. Abstracted: nested policies, several pull
requests, review comments and the feedback fact.

### How the other hub modules correspond to the code

Rows, memory and provider state are separate variables; a goroutine is a record in
a set or a program counter, one step per transaction or provider call; a restart
clears memory and goroutines and keeps rows and sandboxes.

* `ClawLifecycle`: `jobs` holds the goroutines of one claw (provisioner, stop,
  replacement, kill, restore, terminate), `poll` what `syncReplicatedVMs` read
  before it asked the provider. The retry funnel is in the order of the code:
  claim (`prepareClawRetryOnce`), tear down, reset, provision. The reaper's four
  passes are actions; `SF` stands for its tick.
* `ClawCreation`: ten creators differ in whether they look for a live claw,
  claim a trigger and admit; a `Path` says which. A claim has a backoff (`ripe`);
  `promotePendingClaws` reads the waiting rows, then chooses and writes one at a
  time. `doubted` records a key whose claim was given up or judged failed while
  its claw was still to come (a slow creator, a claw in the backoff of its
  replacement): the code then creates a second one, and `CreationHolds` is
  stated for the other keys. `returned` records claws that come back without
  admission, which the limit does not count as admitted.
* `CronSlots`: one workflow, v1 or v2. `robbed` records that a run of an earlier
  process gave back a slot: the counter starts at 0 after a restart, and the end of
  a run that this process never counted decrements it, on behalf of another run.
  The floor at zero hides it otherwise. The overlap properties except it.
* `StopComment`: the marker 0, 1, 2 and the deliveries. A delivery left over from
  a first stop writes 0 or 1 over the claim of the second stop, so two deliveries
  of the second are possible; `OneDelivery` is stated for the first stop.
* `TurnQueue`: the hub's connection objects outlive their registration (a
  delivery may be under way on a closed one), the socket is two frame queues, and
  turns run in goroutines of the bridge that outlive connections. `carried`
  records a turn that outlived its connection or was given up by the watchdog.
* `UsageLimit`: each action under `llmLimitMu` is one step, the release two
  (claws, then the record). `dbFailed` and `staleFreed` record a failed write and
  a claw freed by a list of limits that was read before the cap.
* `VolumeLeases`: `raced` records that the tag moved while another upload was
  past its checks, `partial` that a mount was uploaded while it was still being
  filled; the code allows both, and `VolumesSafe` excepts them. `renewed` records
  the renewal of an expired lease.
* `LifecycleRoutes`: `ndb` is `slack_notifier_state` and the two delivery tables:
  `shared` and `cursor` the watermarks, `clawBase` and `stamp` the baseline keys,
  `latch` the `routes_live` key, `rows` the delivery rows (`Legacy` is the table
  that fences every route), `streak` the failure counters under both key shapes.
  `tick` is the tick under way: `build` until the notifiers are built, then the
  task-run pass, then the claw pass, one route (`at`) and one candidate at a time;
  `Sends` and `Records` are two steps. Every function that reads and writes the
  per-route state is an operator on `ndb` with the name it has in the code.
  `happened` is one sequence: a task-run event's index stands for its rowid, a
  claw entry is a state that a claw older than `lifecycleClawAdhocGrace` has
  entered. `ledger` is history: what each route may be told, is owed, was sent.
  Bringing the per-route state in line (prune, watermarks, claw baselines) is one
  step, with `readable` for the early return of `ensureLifecycleRouteWatermarks`;
  the claw pass parks the rejected kinds of a route before it sends the others (the
  code kind by kind, and allow-lists are constant here). Left out: the batch
  limits, the re-check of ownership before a send, an unreadable delivery
  row (a transient failure that does not count), an invalid config, a hand-written
  `via` beside `routes`.

A history variable never guards an action. Each stands for a window the code
leaves open, so that the property says exactly what holds outside it.

## Runs

TLC explores every interleaving within the bounds. The workflow runs use a
document with a planning state, a working state that is re-entered by CI results,
a completed and a cancelled end.

| Run | Bounds | Checks |
|---|---|---|
| `attempts` | 4 events, 4 versions, 2 attempts, 2 tasks, 2 messages, 1 effect definition | types, the ledger replays, completions only at the task's version, authority follows the attempt |
| `effects` | 2 workers (one may die), 2 tries per effect, 2 events, 3 effect definitions | lease discipline, context before claims, the abstract ledger is implemented, every claim and every task ends |
| `chan_agent` | 1 agent task, 2 versions, 2 bridge processes, 1 frame each way | types, at most once, true answers, one outcome |
| `chan_cancel` | 1 agent task, 1 cancel message, 1 frame each way, early resends | a task cancelled before it began does not complete |
| `chan_command` | 1 command, 2 versions, 2 processes, 2 frames each way, early resends | settled rows stay settled |
| `chan_live` | 1 agent task, 2 processes | what was begun is reported |
| `chan_deliver` | 1 local message, 1 hub message, 2 versions, 2 processes, 2 frames each way | what was queued is acknowledged |
| `claws` | each of 5 providers, 2 attempts, 2 sandboxes, 2 goroutines at a time, 1 fault (replicated and daytona) | one bootstrap per sandbox, only the current attempt runs, a deleted claw's run ends, start-up ends, sandboxes of terminal claws go |
| `hub_safety` | see below | eleven properties and the types of the hub parts |
| `hub_live` | see below | seven things the hub parts owe |
| `revival` (violation) | 2 events | a cancelled run stays cancelled |
| `settling` (violation) | 1 check, 1 push, no fault | the reconciler alone brings the facts to what GitHub says |

`hub_safety` and `hub_live`, per part: creation 2 claws of one key in a group of
one, 2 creators of two paths (1 of one in `hub_live`), 1 mishap; cron 2 runs, 2 finishing goroutines
(1), 1 restart or edit; comments 2 stops; turns 2 messages, 2 connections (1), 1
break; limits 2 claws, 2 retries, 4 upheavals (2); volumes 2 claws, 3 manifests;
delivery 2 heads, 1 change of the branch, 1 report, webhooks and agent racing in
`hub_safety`, the reconciler alone with 1 fault in `hub_live`; notifications 2
routes (the incumbent takes one of 2 types), 2 happenings and 2 changes of the
surroundings (saves, outages, failed writes, restarts; 1 and 1 in `hub_live`), 2
failures before an event is given up.

Why the bounds suffice. In the workflow runs the context event and the start
command use up two events, so a third gives the first race with the agent or CI
and a fourth a completion after a re-entry. Two tasks are the least with which one
replaces the other or is reissued to the next attempt, two attempts the least with
which a claw is replaced (the theorems cover any number), two tries the least with
which an effect is retried after an unknown outcome. Two workers suffice since
each operation involves one worker and one effect. `EventIds` is symmetric: ids
are random and only compared for equality.

On the channel, messages meet only in the queues and in the reader, so one task
with its own resends, restarts and outcomes already shows the races: a second
version is what overtakes an assignment, a second process what interrupts a
task, one frame each way gives blocked writers, a new connection lost receipts
and duplicates, and early resends double receipts. `chan_cancel` adds the
second message where the order of two matters.

In the hub parts every hazard is between two actors of a kind: two creators of one
key, two runs of one workflow, the stop and the redrive, an old and a new
connection, a parked and a joining claw, two mounts, two heads, an incumbent and a new route. One fault places a
crash or a failed write anywhere in such a race. Deadlock checking is off
everywhere because a finished run, claw or part may stop.

### Fairness

The workflow runs assume what the code's loops do: a hub that keeps running polls
for effects every 250 ms (`Poll`) and finishes or gives up what it claimed
(`Finish`); time passes (`LeaseLapses`); the deadline sweep runs every 30 seconds
(`DeadlinePasses`, since every task row has an absolute deadline). Nothing is
assumed of the claw, of crash-prone workers, of the operator, of reconciliation
or of the activation driver.

On the channel, `ProcessFairness` says that a bridge process keeps dialing
(`runBinding` never gives up), finishes reading the registration and recovering,
notices a connection that the hub closed or a write that timed out, and that
task goroutines end (gateway turns and commands run under a deadline).
`LinkFairness` adds that both readers read and that both senders go through all
their rows (every 250 ms): strongly fair, because a full buffer may disable a
write now and then. `Calm` says that the environment stops breaking connections
at some point; the bridge may still close them itself. `chan_live` needs only
`ProcessFairness` and `Calm`, `chan_deliver` all three and `Timely`: if receipts
took longer than 5 seconds, the second receipt of a message would end every
connection. Delivery is also claimed only while the buffers hold what is in
flight: with `Window` 1 and two local messages beside a hub message, TLC shows
both ends blocked in a write, the timeout breaking the connection, and the same
happening again on the next one.

`claws`: goroutines run to their end and the reaper comes back every minute; it
ages a claw from when it first saw the status, so other goroutines do not
postpone it for ever (strong fairness). Nothing is assumed of the bridge, of the
provider's polls or of users. `hub_live`: goroutines go on, tickers tick (reaper,
scheduler, watchdog, reconciler), mutexes are released, claws end (their deadline
and the reaper see to it), a bridge reconnects, a tracker accepts a comment
that is posted again and again, and the notifier ticks and goes on with its tick. Crashes, failed transactions and rejected events
are bounded, never fair.

### Where the code differs from what its comments say

* `revival`: `CancelActivation` "terminally closes a run", but `ApplyCommand` and
  unbound `ApplyEvent` do not look at the run's status. The start command of
  an activation whose provisioning failed in the background sets the run active
  again; its attempt stays cancelled, so its effects can never be assigned
  (`AttemptAuthority` holds all the same).
* `settling`: the reconciler "makes webhook delivery an optimization rather than a
  correctness dependency". A check that has not completed is stamped with the
  hub's clock after the answer has arrived; if it completed in between, GitHub's
  `completed_at` is older than that stamp, and the upsert, which keeps the later
  observation, refuses the result in every later snapshot. `ci.status` stays
  pending for this head. `DeliveryConverges` is the same property with this case
  (`Blocked`) and the next excepted, and holds.

Met while modelling, without a run of their own:

* A merged or closed pull request whose row was written and whose policy was not
  evaluated (the hub died, the event was refused, five evaluations were
  overtaken) is not evaluated again: the next poll finds row and GitHub in
  agreement and reads no evidence of a pull request that is not open.
* "Terminal states end the run", but `rejectAndSuspend` overwrites the status of a
  completed run when a late event breaks a terminal state's invariant.
* Envelopes carry an identity for "deduplication", but `acceptHubEnvelope`
  compares versions before it looks into the journal: an assignment that was taken
  and whose receipt was lost is answered "rejected" when it is resent after the
  run has moved, and the hub suspends the run while the claw works on the task.
  (`AnswersAreTrue` holds: only overtaken assignments are treated so.)
* "Command tasks are started after the durable receipt is returned", but
  `acceptHubEnvelope` starts them before it is written. The model starts them there.
* A reply that a turn could not write because its connection was replaced is
  queued "for redelivery" in the bridge, but the queue is read only at the next
  registration, which has already happened.
* After a restart, a claw whose row says connected and whose sandbox is gone is
  looked at by nobody: the watchdog walks connections, the reaper offline and
  start-up rows. `StartupEnds` is stated for the statuses the reaper reads.
* The marker of a stop comment is there "so the reaper can re-drive delivery after a
  crash", but a delivery that had claimed it (2) when the hub died is never
  driven again.
* "Must never land ahead of the cursor", says `ensureLifecycleClawRouteBaselines` of
  a route's claw stamp, but `ensureLifecycleClawRouteBaseline` stamps a lone route
  without looking for its cursor. When the state could not be read in the tick that
  replaced one lone route by another, the newcomer is stamped without a cursor, is
  taken for the incumbent from then on, and is told the other's backlog. The same
  happens to a lone route configured while the hub was down after it died in its
  first enabling tick, between the shared watermark and the claw baseline.
  `ledger.half` marks both, and `NoReplay` excepts them.
  Such a newcomer is also counted under the key of lone routes, so a failure streak
  the other left there goes on: `ToldOnce` excepts its count of failures likewise.
* A v1 cron claw that ends before the scheduler has noted its workflow keeps its
  slot until the next restart.

## The refinement

`EffectLedger` says what the store promises about effects without workers, leases,
retries, attempts or crashes: an effect is planned once; then it is given to the
claw in exactly one message, or confirmed, or fails for good, or is withdrawn; and
nothing happens to it after. `ImplementsLedger` is
`Ledger!LedgerSpec` under the mapping in `WorkflowStore`: the phase is read off the
effect row (pending, running, retrying and unknown are all *open*), the carriers of
an effect are the assignment messages whose task was made for it.

The proof (`StoreImplementsLedger`) needs two facts about messages. `BlankMessages`:
a message slot not yet used carries nothing. `AssignInv`: a task row, and with it
its message, exists only for an effect that has succeeded. With `SettledStep` (a
settled row never moves) each group of actions of `StepKinds` then maps to one
action of the ledger or to a stutter: materialization to `Give`, reconciliation
to `Confirm`, a spent retry to `Fail`, events to `Plan`, cancellation to
`Withdraw`, everything about leases to a stutter.

## Proofs

Every safety property that a run checks is also a theorem. For the workflow store
it holds for every document, any number of workers and events, and every value of
the bounds. The
assumptions are those of the modules: the document is valid
(`WorkflowAssumption`, what `ValidateWorkflow` guarantees), the initial state is
not terminal (`InitialAssumption`), the bounds are natural numbers
(`BoundsAssumption`), event ids differ from the creation event's and worker
names are not empty (`NamesAssumption`). The bounds are guards of the model, not
of the code, and the theorems hold for all of them.

| Theorem | Property | Argument |
|---|---|---|
| `TypeCorrect` | `TypeOK` | inductive as it stands; one lemma per kind of row |
| `AuthorityFollowsTheAttempt` | `AttemptAuthority` | from three invariants, each inductive given types: one active attempt; every step that moves the attempt withdraws the outbox; an event changes a task only while the attempt is active |
| `ContextComesFirst` | `ClaimsWaitForContext` | `ContextInv`: without a bundle the run is not active, the driver is not past the bundle and nothing has been tried |
| `FinishedAtItsVersion` | `TaskEndsAtItsVersion` | action property: elimination of every step but a claw's envelope, whose version is both the task's and the run's |
| `LedgerIsHistory` | `LedgerReplays` | `RowsRecorded`: an event that has a ledger row is recorded, so it cannot be applied again |
| `SettledNeverMoves` | | action property: every write to an effect row is guarded by an unsettled status |
| `LeasesDisciplined` | `LeaseDiscipline` | `AbsentIsUntried`: a row not yet scheduled has no tries |
| `AssignedAtMostOnce` | | `TasksBacked`: a task row exists only for an effect that has succeeded; with `SettledStep` that is stable, while a worker assigns only what is still running |
| `StoreImplementsLedger` | `ImplementsLedger` | the refinement above |

The proofs share one case split. `EventFrame` says what any event or command may
do to rows other than the run's own state: it plans effects that did not exist,
and changes a task only if that task is live and the attempt active.
`EventSteps` proves it once for the eight actions that reach `ApplyEvent` or
`ApplyCommand`; `StepKinds` sorts the other actions into groups, and each
theorem argues per group.

For the channel the assumption is `ChannelAssumption`: the kinds of messages are
disjoint and the bounds are positive. The theorems hold for any set of messages,
any number of restarts and any window, with early resends or without.

| Theorem | Property | Argument |
|---|---|---|
| `ChannelTypes` | `TypeOK` | `ReaderInv`: the first frame of a new connection is the registration, and a reader about to write has a receipt |
| `AtMostOnce` | `HandedOverOnce` | `HandedInv`: the journal remembers; a message that is absent or only accepted was never handed over, and a goroutine that has claimed has not handed over yet |
| `Settled` | `SettledStaysSettled` | action property: each write to the outbox is conditional on a live row |
| `TrueAnswers` | `AnswersAreTrue` | `HeldInv`: every receipt in flight, in the stale handler or about to be written speaks for a row that exists, and no table forgets; `VersionInv`: every version the bridge sees is one the hub had, and every rejection is about an assignment the hub has left behind |
| `SnapshotGrows` | | from `VersionInv`: a registration on its way is not older than the snapshot |
| `OutcomeIsOne` | `OneOutcome` | `ReportInv`: what is on its way up is in the journal, and a completion gets into the journal only from a goroutine that has handed the task over. `OutcomeInv`: an outcome the hub took has ended the task, and no later one finds it live. The property alone says nothing of outcomes still in flight |
| `CancelledStaysCancelled` | `CancelledNeverCompletes` | `CancelInv`: where a goroutine is (`GoroutineInv`), that nothing is journaled as completed before it is claimed (`CompletionInv`), and that a goroutine that was told to stop is still before its turn or on the way to a failure (`ToldInv`) |

`FrameMoves` and `ReplyMoves` say once which frames a step may add to each queue;
`TablesKeep` that no row disappears, `JournalMoves` which steps add a completion to
the journal. The preservation proofs use only those.

### The hub parts

Each part has its own assumption, named in its module: bounds are natural numbers,
and, where it matters, sets are finite (`CronRuns`, `VClaws`, `Names`), the first
head is a head, group limits are numbers, a route's types are types, and `Legacy`
(the table without a route) is no route. The theorems hold for any number of claws,
connections, runs, routes, heads, retries and restarts.

| Theorem | Property | Argument |
|---|---|---|
| `LeasesProtectVolumes` | `VolumesSafe` | `VolInv`: nothing is attached, mounted, synced or uploaded without a lease; a mount holds at least its lease's manifest; an upload that may still move the tag extends what the tag names |
| `OneDeliveryAtATime` | `OneDelivery` | `ClaimInv`: while the claw has stopped once, whoever delivers is the one that moved the marker from 1 to 2 |
| `LimitRecord` | `LimitRecordHolds` | `RetryInv`: retries are paid for by releases, and a released episode has one more; `EpisodeInv`: a release under way is of an active record |
| `CronTypes`, `CronOverlap` | `OverlapRespected` | `CounterInv`: the counter is at most the runs of this process and, unless one of an earlier process gave a slot back, at least the runs that hold one. It needs who gives back what: `SlotInv` (a run under way holds its slot) and `HookInv` (of the goroutines that end one run, one holds the marker) |
| `DeliveryTypes`, `SatisfiedIsEarned` | `SatisfiedWasEarned` | `WorkInv`: what a goroutine has read is true of the head it read it for, however old it is; `RowInv`, `FactInv`: so is what it wrote, and a fact carries the revision, hence the head, it was computed from |
| `TurnTypes`, `PauseFollowsTheRow` | `PauseMirrored` | `ConnInv`, `PauseInv`: a registering connection holds the mutex, so no pause falls between its reading of the row and its publication |
| `MessagesDeliveredOnce` | `DeliveredOnce` | `WrittenInv`: a row is written before it is marked; `SeenInv`: the deduper knows what it queued. One turn at a time needs `PlaceOfTurn`: unless a turn outlived its connection, a message off the queue is in one place of the lane of the one open connection: on the way down, with the agent, or on the way up |
| `CreationTypes`, `CreationIsExclusive` | `CreationHolds` | `KeyInv`, for every key that is not doubted: one claimant; while there is one the row is claimed and no claw of the key is afoot; without one, only the claw the row names. `RoomInv`: a chosen claw still has the room it was chosen for |
| `DeletedIsFinal` | `DeletedStaysDeleted` | action property, from the same invariant |
| `BootstrappedOnce` | `OneBootstrap` | `BootInv`: nothing but the goroutine that created a sandbox knows it (`Fresh`); a row, and a row the poll holds, that says provisioning names a sandbox never bootstrapped |
| `RunsFollow` | `RunsFollowTheClaw` | inductive with the types of the rows |
| `RouteTypesHold` | types of `LifecycleRoutes` | one lemma per operator of the chain (prune, watermarks, baselines), then one per step |
| `NothingIsMissed` | part of `NotifiedOnce` | `OwingInv`: what a route is still owed has no row and is ahead of the route's place (`OwedInv`); a pass still has it before it, as a candidate or beyond all candidates (`PassInv`), so the cursor it stores passes nothing; with several routes each has a cursor of its own (`TickLinks`) |
| `NothingIsReplayed` | `NoReplay` | `ReplayInv`: a position *covers* its route: every event of its types behind it is one the route may be told or has a row (`Placing`). It must hold of positions not yet in use: the shared watermark that a lone newcomer will inherit, the baseline stamp, the cursors a pass has copied (`CandInv`) |
| `RoutesNotifiedOnce` | `NotifiedOnce` | `SentInv`: a row, a stashed row or the message under way stands for every message sent, in one of the two tables. `StreakInv`: of the two keys of a route's failures one at most counts, and together they count every failure; the key of lone routes counts for one route only, whichever that is now |
| `PartsAreParts`, `PartsTypes`, `PartsSafe` | `PartsTypeOK` | a step of `MCHub` is a step of one part and a stutter of the others; the rest follows from the theorems above |

The tables of the notifier are changed by a chain of operators on one record, so
the lemmas are about operators (`InLine`: what bringing the tables in line leaves
alone), and a step's proof composes them. Two properties became clearer by
being proved: `ToldOnce` counts failures since the route was last configured, and
needs the exception of `NoReplay`, since a newcomer that passes for the lone route
inherits its streak as well as its place.

### What TLC alone checks

* Every liveness property (`ClaimsEnd`, `TasksEnd`, `BegunIsReported`,
  `QueuedIsDelivered`, `StartupEnds`, `TerminalSandboxGoes`, and all of
  `hub_live`): fairness and `ENABLED` are outside the prover's reach.
* The two expected violations, which are counterexamples.
* That the refinement's abstract specification is not trivially met, and that no
  action is dead: the mutants and the coverage of the runs.

No invariant and no action property that a run checks is without a theorem. No
induction over data was needed: where a count matters (cron slots, group limits,
outcomes) the proofs use the library's facts about finite sets, and a
least number is found by its well-foundedness.

## Not modelled, and the plan

Components with status `not_modelled` or `partly` are listed with reasons in
`PROJECT.json`. Next, in this order:

1. An abstract specification of what a route promises, implemented by
   `LifecycleRoutes` under a refinement mapping.
2. The pipeline runner and the pull request watcher: stage transitions under
   concurrent signals, retries and merges.
3. Predicates, nested policies and the overlap check of the validator as
   operators, against a reference definition over small documents.
4. A change of attempt under a live connection, as a composition of
   `ControlChannel` and `WorkflowStore` through the outbox and the event rows.

Left out for good: the content of provider calls and bootstrap scripts, CLI, web
UI, settings pages, formatting and third-party I/O.
