----------------------------- MODULE ClawLifecycle -----------------------------
(***************************************************************************)
(* The life of one claw (an agent in a sandbox) in the hub: its row of the *)
(* claws table, the attempts of its task run, its websocket, the sandboxes *)
(* that were created for it, and the goroutines that act on them: the      *)
(* provisioner, the VM poller, bootstraps, the stop and retry funnel, the  *)
(* reaper, kills and restores.  Goroutines die with the hub process; rows  *)
(* and sandboxes stay.  pkg/hub: server.go, claw_retry.go, reaper.go,      *)
(* pipeline_runner.go (the stopAgent functions), terminal_transitions.go,  *)
(* checkpoints.go (restore).  Admission is modelled in ClawCreation.       *)
(***************************************************************************)
EXTENDS Naturals, FiniteSets

CONSTANTS
    Providers,      \* the providers the claw may be created with
    MaxAttempts,    \* maxClawAttempts
    MaxVMs,         \* bound on sandboxes created for the claw
    MaxJobs,        \* bound on goroutines at a time
    MaxFaults       \* by provider, bound on failures, losses, restores, restarts

VARIABLES
    provider,       \* claws.provider
    status,         \* claws.status
    vm,             \* claws.provider_id
    bootstrapOK,    \* claws.bootstrap_ok
    wfRun,          \* workflow_runs.status of the claw's run
    attempt,        \* task_runs.attempt_count, the current attempt
    attempts,       \* task_run_attempts.status
    stopEvent,      \* task_run_events holds a definitive failure
    vms,            \* the sandboxes, at the provider
    conn,           \* s.claws: the sandbox whose bridge is connected
    env,            \* the sandbox whose bootstrap environment is staged
    poll,           \* syncReplicatedVMs: the row it read
    jobs,           \* goroutines
    faults,
    booted          \* history: bootstraps started on each sandbox

clawVars == <<provider, status, vm, bootstrapOK, wfRun, attempt, attempts,
              stopEvent, vms, conn, env, poll, jobs, faults, booted>>
row == <<status, vm, bootstrapOK>>
analytics == <<attempt, attempts, stopEvent>>
hubMemory == <<conn, env, poll, jobs>>

NoVM == 0
VMs == 1 .. MaxVMs
AttemptNumbers == 1 .. MaxAttempts
NoRow == [v |-> NoVM, status |-> ""]

ASSUME ClawAssumption ==
    /\ MaxAttempts \in Nat \ {0} /\ MaxVMs \in Nat \ {0} /\ MaxJobs \in Nat \ {0}
    /\ MaxFaults \in [Providers -> Nat]
    /\ Providers \subseteq {"replicated", "daytona", "exedev", "docker", "lambda-microvms"}

\* Providers whose sandbox starts its own bridge; the hub does not bootstrap.
SelfStarting == {"docker", "lambda-microvms"}
Terminal == {"error", "deleted"}
Startup == {"provisioning", "starting"}
Statuses == Startup \cup Terminal \cup {"connected", "offline", "idle"}

\* isProtectedClawStatus
Protected == {"idle", "deleted"}

\* A goroutine: what it is about to do, the sandbox and the number it works with,
\* and skipVMTerminate.
Job(k, v, n, skip) == [kind |-> k, v |-> v, n |-> n, skip |-> skip]
\* New goroutines start while fewer than MaxJobs run.
Go(js) == /\ Cardinality(jobs) < MaxJobs
          /\ jobs' = jobs \cup js
Become(j, js) == jobs' = (jobs \ {j}) \cup js
End(j) == jobs' = jobs \ {j}

\* stopAgentWithReason is called; n = 1 when classifyAgentFailure gives a kind
\* that retryableAgentFailure accepts.
Stop(retryable, skip) == Job("stop", NoVM, IF retryable THEN 1 ELSE 0, skip)
Provision(stored) == Job("provision", NoVM, IF stored THEN 1 ELSE 0, FALSE)
Terminate(v, clear) == IF v = NoVM THEN {} ELSE {Job("terminate", v, IF clear THEN 1 ELSE 0, FALSE)}

Fault == /\ faults < MaxFaults[provider]
         /\ faults' = faults + 1

\* materializeTaskRunTx, for a run without pull requests: the current attempt
\* gets the status its run's events give.
Materialize(stopped) ==
    /\ stopEvent' = stopped
    /\ attempts' = [attempts EXCEPT ![attempt] = IF stopped THEN "failed" ELSE "running"]
    /\ attempt' = attempt

ClawInit ==
    /\ provider \in Providers
    /\ status = "provisioning" /\ vm = NoVM /\ bootstrapOK = FALSE
    /\ wfRun = "running"
    /\ attempt = 1 /\ stopEvent = FALSE
    /\ attempts = [i \in AttemptNumbers |-> IF i = 1 THEN "running" ELSE "none"]
    /\ vms = [v \in VMs |-> "unused"]
    /\ conn = NoVM /\ env = NoVM /\ poll = NoRow
    /\ jobs = {Provision(FALSE)}
    /\ faults = 0
    /\ booted = [v \in VMs |-> 0]

--------------------------------------------------------------------------------
(***************************************************************************)
(* Provisioning.                                                           *)
(***************************************************************************)
\* The goroutine of createClawFromWorkflow gives up on a claw killed meanwhile;
\* provisionStoredClaw, which serves retries and restores, does not look.
ProvisionAbandoned ==
    /\ Provision(FALSE) \in jobs
    /\ status = "deleted"
    /\ End(Provision(FALSE))
    /\ UNCHANGED <<provider, row, wfRun, analytics, vms, conn, env, poll, faults, booted>>

\* provisionWithProvider: the provider's create call returns.
CreateSandbox(j, v) ==
    /\ j \in jobs /\ j.kind = "provision"
    /\ ~(j.n = 0 /\ status = "deleted")
    /\ vms[v] = "unused" /\ \A w \in 1 .. (v - 1) : vms[w] # "unused"
    /\ vms' = [vms EXCEPT ![v] = IF provider = "replicated" THEN "booting" ELSE "up"]
    /\ env' = IF provider = "replicated" THEN v ELSE env
    /\ Become(j, {Job("assign", v, 0, FALSE)})
    /\ UNCHANGED <<provider, row, wfRun, analytics, conn, poll, faults, booted>>

\* It fails: both callers stop the agent with "... provision failed".
CreateFails(j) ==
    /\ j \in jobs /\ j.kind = "provision"
    /\ ~(j.n = 0 /\ status = "deleted")
    /\ Fault
    /\ Become(j, {Stop(TRUE, FALSE)})
    /\ UNCHANGED <<provider, row, wfRun, analytics, vms, conn, env, poll, booted>>

\* provisionReplicated: assignReplicatedVM writes provider_id unless the claw has
\* moved on; zero rows are no error.
AssignReplicated(v) ==
    LET j == Job("assign", v, 0, FALSE) IN
    /\ j \in jobs /\ provider = "replicated"
    /\ vm' = IF status \in {"deleted", "starting", "connected", "idle"} THEN vm ELSE v
    /\ Become(j, {Job("check", v, 0, FALSE)})
    /\ UNCHANGED <<provider, status, bootstrapOK, wfRun, analytics, vms, conn, env, poll,
                   faults, booted>>

\* It reads the status again and deletes the sandbox of a deleted claw.
CheckReplicated(v) ==
    LET j == Job("check", v, 0, FALSE) IN
    /\ j \in jobs
    /\ \/ /\ status = "deleted"
          /\ vms' = [vms EXCEPT ![v] = "gone"]
          /\ env' = IF env = v THEN NoVM ELSE env
          /\ Become(j, {Stop(TRUE, FALSE)})
       \/ /\ status # "deleted"
          /\ End(j)
          /\ UNCHANGED <<vms, env>>
    /\ UNCHANGED <<provider, row, wfRun, analytics, conn, poll, faults, booted>>

\* The other providers set status and provider_id whatever the row says, and go
\* on to the bootstrap.
AssignDirect(v) ==
    LET j == Job("assign", v, 0, FALSE) IN
    /\ j \in jobs
    /\ status' = "starting" /\ vm' = v
    /\ booted' = [booted EXCEPT ![v] = @ + 1]
    /\ Become(j, {Job("bootstrap", v, 1, FALSE)})
    /\ UNCHANGED <<provider, bootstrapOK, wfRun, analytics, vms, conn, env, poll, faults>>

AssignDaytona(v) == provider = "daytona" /\ AssignDirect(v)
AssignExedev(v) == provider = "exedev" /\ AssignDirect(v)
AssignDocker(v) == provider = "docker" /\ AssignDirect(v)
AssignLambda(v) == provider = "lambda-microvms" /\ AssignDirect(v)

\* The provider reports the sandbox as running; or it is lost (its TTL, an
\* external shutdown).
SandboxUp(v) ==
    /\ vms[v] = "booting"
    /\ vms' = [vms EXCEPT ![v] = "up"]
    /\ UNCHANGED <<provider, row, wfRun, analytics, hubMemory, faults, booted>>

SandboxLost(v) ==
    /\ vms[v] \in {"booting", "up"}
    /\ Fault
    /\ vms' = [vms EXCEPT ![v] = "gone"]
    /\ UNCHANGED <<provider, row, wfRun, analytics, hubMemory, booted>>

--------------------------------------------------------------------------------
(***************************************************************************)
(* syncReplicatedVMs, one goroutine: it reads the rows, asks the provider  *)
(* about each sandbox and writes the status back if it may.                *)
(***************************************************************************)
PollRead ==
    /\ poll = NoRow
    /\ provider = "replicated" /\ vm # NoVM /\ status \in Startup
    /\ poll' = [v |-> vm, status |-> status]
    /\ UNCHANGED <<provider, row, wfRun, analytics, vms, conn, env, jobs, faults, booted>>

MutRegress(s) == "provisioning"

\* holdStartingOnTransientVMStatus
HoldStarting(s) == IF s = "starting" THEN "starting" ELSE "provisioning"

\* The conditional UPDATE after the provider's answer.
PollWrites(s) ==
    status' = IF s # poll.status /\ status \in Startup THEN s ELSE status

PollLost ==
    /\ poll # NoRow /\ vms[poll.v] = "gone"
    /\ Go({Job("instance", poll.v, 1, TRUE)})
    /\ poll' = NoRow
    /\ UNCHANGED <<provider, row, wfRun, analytics, vms, conn, env, faults, booted>>

PollRunning ==
    /\ poll # NoRow /\ vms[poll.v] = "up"
    /\ poll' = NoRow
    /\ \/ /\ poll.status = "provisioning" /\ env = NoVM
          /\ Go({Job("instance", poll.v, 1, FALSE)})
          /\ UNCHANGED <<status, booted>>
       \/ /\ poll.status = "provisioning" /\ env # NoVM
          /\ Go({Job("bootstrap", poll.v, 0, FALSE)})
          /\ booted' = [booted EXCEPT ![poll.v] = @ + 1]
          /\ PollWrites("starting")
       \/ /\ poll.status = "starting"
          /\ PollWrites("starting")
          /\ UNCHANGED <<jobs, booted>>
    /\ UNCHANGED <<provider, vm, bootstrapOK, wfRun, analytics, vms, conn, env, faults>>

\* "assigned", "pending", or the "updating" a running sandbox passes through.
PollTransient ==
    /\ poll # NoRow /\ vms[poll.v] \in {"booting", "up"}
    /\ poll' = NoRow
    /\ PollWrites(HoldStarting(poll.status))
    /\ UNCHANGED <<provider, vm, bootstrapOK, wfRun, analytics, vms, conn, env, jobs, faults, booted>>

--------------------------------------------------------------------------------
(***************************************************************************)
(* Bootstraps.                                                             *)
(***************************************************************************)
\* bootstrapReplicated looks at the status once, at its start.
BootstrapBegins(v) ==
    LET j == Job("bootstrap", v, 0, FALSE) IN
    /\ j \in jobs
    /\ \/ /\ status = "deleted"
          /\ vms' = [vms EXCEPT ![v] = "gone"]
          /\ env' = IF env = v THEN NoVM ELSE env
          /\ End(j)
       \/ /\ status # "deleted"
          /\ Become(j, {Job("bootstrap", v, 1, FALSE)})
          /\ UNCHANGED <<vms, env>>
    /\ UNCHANGED <<provider, row, wfRun, analytics, conn, poll, faults, booted>>

\* The end of a bootstrap goroutine drops its own staged environment.
BootstrapEnds(v, js) ==
    /\ Become(Job("bootstrap", v, 1, FALSE), js)
    /\ env' = IF env = v THEN NoVM ELSE env

\* promoteBootstrapReadyClaw; whether the connected gateway has reported ready
\* is left open.
PromoteReady(ok) ==
    \/ /\ status = "starting" /\ ok /\ conn # NoVM
       /\ status' = "connected"
       /\ Materialize(stopEvent)
    \/ UNCHANGED <<status, analytics>>

\* markBootstrapReady writes bootstrap_ok by claw id, whatever sandbox the row
\* names by then.
BootstrapDone(v) ==
    /\ Job("bootstrap", v, 1, FALSE) \in jobs
    /\ vms[v] = "up"
    /\ BootstrapEnds(v, {})
    /\ \/ /\ provider \notin SelfStarting
          /\ bootstrapOK' = TRUE
          /\ PromoteReady(TRUE)
       \/ /\ provider \in SelfStarting
          /\ UNCHANGED <<status, bootstrapOK, analytics>>
    /\ UNCHANGED <<provider, vm, wfRun, vms, conn, poll, faults, booted>>

\* A step of it fails past its retries, always so on a lost sandbox.  Docker
\* destroys the container and returns the error to the provisioner.
BootstrapFails(v) ==
    /\ Job("bootstrap", v, 1, FALSE) \in jobs
    /\ \/ vms[v] = "gone" /\ UNCHANGED faults
       \/ vms[v] # "gone" /\ Fault
    /\ \/ /\ provider \notin SelfStarting
          /\ BootstrapEnds(v, {Job("instance", v, 1, FALSE)})
          /\ UNCHANGED vms
       \/ /\ provider \in SelfStarting
          /\ BootstrapEnds(v, {Stop(TRUE, FALSE)})
          /\ vms' = [vms EXCEPT ![v] = "gone"]
    /\ UNCHANGED <<provider, row, wfRun, analytics, conn, poll, booted>>

\* The connector artifact is missing: no retry, and no look at provider_id.
BootstrapUnavailable(v) ==
    /\ Job("bootstrap", v, 1, FALSE) \in jobs
    /\ provider = "replicated"
    /\ Fault
    /\ BootstrapEnds(v, {Stop(FALSE, FALSE)})
    /\ UNCHANGED <<provider, row, wfRun, analytics, vms, conn, poll, booted>>

--------------------------------------------------------------------------------
(***************************************************************************)
(* The bridge's websocket.                                                 *)
(***************************************************************************)
\* allowWakeBeforeBootstrap
AllowWake == bootstrapOK \/ provider \in SelfStarting

\* handleClawWS registers any bridge that holds the claw's token: the sandbox of
\* an earlier attempt as well.  The upsert keeps idle and deleted.
Register(v, gatewayReady) ==
    /\ vms[v] = "up" /\ booted[v] > 0 /\ conn # v
    /\ status # "deleted"
    /\ status' = IF status = "idle" THEN "idle"
                 ELSE IF AllowWake /\ gatewayReady THEN "connected" ELSE "starting"
    /\ conn' = v
    /\ IF status' = "connected" THEN Materialize(stopEvent) ELSE UNCHANGED analytics
    /\ UNCHANGED <<provider, vm, bootstrapOK, wfRun, vms, env, poll, jobs, faults, booted>>

\* The deferred function of handleClawWS: it forgets the connection, reads the
\* status and decides; OfflineWrite is its UPDATE, which does not look again.
Disconnect ==
    /\ conn # NoVM
    /\ \/ vms[conn] = "gone" /\ UNCHANGED faults
       \/ vms[conn] # "gone" /\ Fault
    /\ conn' = NoVM
    /\ IF status \in {"deleted", "idle", "error", "provisioning"}
       THEN UNCHANGED jobs
       ELSE Go({Job("offline", NoVM, 0, FALSE)})
    /\ UNCHANGED <<provider, row, wfRun, analytics, vms, env, poll, booted>>

OfflineWrite ==
    LET j == Job("offline", NoVM, 0, FALSE) IN
    /\ j \in jobs
    /\ status' = "offline"
    /\ End(j)
    /\ UNCHANGED <<provider, vm, bootstrapOK, wfRun, analytics, vms, conn, env, poll, faults, booted>>

Heartbeat ==
    /\ conn # NoVM /\ vms[conn] = "up"
    /\ \/ status = "offline"
       \/ status = "starting" /\ bootstrapOK
    /\ status' = "connected"
    /\ IF status = "starting" THEN Materialize(stopEvent) ELSE UNCHANGED analytics
    /\ UNCHANGED <<provider, vm, bootstrapOK, wfRun, vms, hubMemory, faults, booted>>

\* escalateClawHealthFailure: unhealthy heartbeats, or none the watchdog saw.
HealthFailure ==
    /\ status = "connected" /\ bootstrapOK
    /\ Fault
    /\ Go({Stop(TRUE, FALSE)})
    /\ UNCHANGED <<provider, row, wfRun, analytics, vms, conn, env, poll, booted>>

--------------------------------------------------------------------------------
(***************************************************************************)
(* The stop and retry funnel.                                              *)
(***************************************************************************)
\* stopAgentIfInstance
StopIfInstance(v, skip) ==
    LET j == Job("instance", v, 1, skip) IN
    /\ j \in jobs
    /\ Become(j, IF vm = v THEN {Stop(TRUE, skip)} ELSE {})
    /\ UNCHANGED <<provider, row, wfRun, analytics, vms, conn, env, poll, faults, booted>>

\* prepareClawRetryOnce: not applicable
NoRetry(j) ==
    \/ j.n = 0
    \/ status \in Protected
    \/ status # "error" /\ attempt >= MaxAttempts
    \/ status # "error" /\ attempts[attempt] # "running"

MutKeepAttempt(n) == attempts' = [attempts EXCEPT ![n] = "running"]

\* ... fails the current attempt and inserts its successor.
SucceedAttempt(n) ==
    attempts' = [attempts EXCEPT ![n - 1] = "failed", ![n] = "running"]

\* The transaction that fails the attempt also marks the claw, so that another
\* detector finds it handled; the replacement starts after a backoff.
StopRetries(j) ==
    /\ j \in jobs /\ j.kind = "stop"
    /\ ~NoRetry(j) /\ status # "error"
    /\ status' = "error"
    /\ attempt' = attempt + 1
    /\ SucceedAttempt(attempt + 1)
    /\ Become(j, {Job("replace", NoVM, attempt + 1, FALSE)})
    /\ UNCHANGED <<provider, vm, bootstrapOK, wfRun, stopEvent, vms, conn, env, poll, faults, booted>>

StopHandled(j) ==
    /\ j \in jobs /\ j.kind = "stop"
    /\ ~NoRetry(j) /\ status = "error"
    /\ End(j)
    /\ UNCHANGED <<provider, row, wfRun, analytics, vms, conn, env, poll, faults, booted>>

\* stopAgentTerminalWithReason reads provider_id before its transaction.
StopGivesUp(j) ==
    /\ j \in jobs /\ j.kind = "stop"
    /\ NoRetry(j)
    /\ Become(j, {Job("terminal", vm, 0, j.skip)})
    /\ UNCHANGED <<provider, row, wfRun, analytics, vms, conn, env, poll, faults, booted>>

\* finishClawTerminalTx(error): claw, handle and run at once, or
\* nothing when the claw is terminal already.
StopTerminal(j) ==
    /\ j \in jobs /\ j.kind = "terminal"
    /\ \/ /\ status \in Terminal
          /\ End(j)
          /\ UNCHANGED <<row, wfRun, env>>
       \/ /\ status \notin Terminal
          /\ status' = "error"
          /\ vm' = IF j.skip /\ j.v # NoVM THEN NoVM ELSE vm
          /\ wfRun' = "finished"
          /\ env' = NoVM
          /\ Become(j, {Job("stopped", j.v, 0, j.skip)})
          /\ UNCHANGED bootstrapOK
    /\ UNCHANGED <<provider, analytics, vms, conn, poll, faults, booted>>

\* What follows the transaction: the analytics event, the connection closed, the
\* sandbox terminated.  The comment to the tracker is in StopComment.
StopCleansUp(j) ==
    /\ j \in jobs /\ j.kind = "stopped"
    /\ Materialize(TRUE)
    /\ conn' = NoVM
    /\ Become(j, IF j.skip THEN {} ELSE Terminate(j.v, TRUE))
    /\ UNCHANGED <<provider, row, wfRun, vms, env, poll, faults, booted>>

\* replaceClawInstance: the old connection and sandbox go first ...
ReplaceTearsDown(j) ==
    /\ j \in jobs /\ j.kind = "replace"
    /\ conn' = NoVM
    /\ Become(j, {Job("reset", NoVM, j.n, FALSE)} \cup Terminate(vm, FALSE))
    /\ UNCHANGED <<provider, row, wfRun, analytics, vms, env, poll, faults, booted>>

\* ... resetClawForRetry takes the claw unless it has moved on, in which case the
\* attempt made for it is settled.
ReplaceResets(j) ==
    /\ j \in jobs /\ j.kind = "reset"
    /\ \/ /\ status \in {"error", "offline"}
          /\ status' = "provisioning" /\ bootstrapOK' = FALSE /\ vm' = NoVM
          /\ Become(j, {Provision(TRUE)})
          /\ UNCHANGED analytics
       \/ /\ status \notin {"error", "offline"}
          /\ attempts' = [attempts EXCEPT ![j.n] = IF @ = "running" THEN "failed" ELSE @]
          /\ End(j)
          /\ UNCHANGED <<status, bootstrapOK, vm, attempt, stopEvent>>
    /\ UNCHANGED <<provider, wfRun, vms, conn, env, poll, faults, booted>>

\* A database error on the way: scheduleClawRetry goes on to the terminal stop,
\* which finds the claw in error.
ReplaceFails(j) ==
    /\ j \in jobs /\ j.kind \in {"replace", "reset"}
    /\ Fault
    /\ Become(j, {Job("terminal", vm, 0, FALSE)})
    /\ UNCHANGED <<provider, row, wfRun, analytics, vms, conn, env, poll, booted>>

\* terminateVM, and terminateVMForClaw, which clears the handle it was given.
TerminateSandbox(j) ==
    /\ j \in jobs /\ j.kind = "terminate"
    /\ vms' = [vms EXCEPT ![j.v] = "gone"]
    /\ vm' = IF j.n = 1 /\ vm = j.v THEN NoVM ELSE vm
    /\ End(j)
    /\ UNCHANGED <<provider, status, bootstrapOK, wfRun, analytics, conn, env, poll, faults, booted>>

TerminateFails(j) ==
    /\ j \in jobs /\ j.kind = "terminate"
    /\ Fault
    /\ End(j)
    /\ UNCHANGED <<provider, row, wfRun, analytics, vms, conn, env, poll, booted>>

--------------------------------------------------------------------------------
(***************************************************************************)
(* The reaper.                                                             *)
(***************************************************************************)
\* The reaper waits for minutes before it acts: the goroutines that only touch
\* the hub's own database, or wait for a last checkpoint, are through by then.
LongRunning == {"provision", "bootstrap", "terminate", "replace", "restore"}
ReaperDue == \A j \in jobs : j.kind \in LongRunning

MutReapStarting ==
    /\ status = "starting" /\ ReaperDue
    /\ Go({Stop(TRUE, FALSE)})
    /\ UNCHANGED <<provider, row, wfRun, analytics, vms, conn, env, poll, faults, booted>>
ReapStartup ==
    /\ status \in Startup /\ ReaperDue
    /\ Go({Stop(TRUE, FALSE)})
    /\ UNCHANGED <<provider, row, wfRun, analytics, vms, conn, env, poll, faults, booted>>

\* A sandbox the provider says is gone is retried, an agent merely silent is not.
ReapOffline ==
    LET gone == provider = "replicated" /\ vm # NoVM /\ vms[vm] = "gone"
        stop == Stop(gone, gone) IN
    /\ status = "offline" /\ ReaperDue
    /\ Go({stop})
    /\ UNCHANGED <<provider, row, wfRun, analytics, vms, conn, env, poll, faults, booted>>

MutReapErrorsOnly == status = "error"

\* The rows whose sandbox the reaper terminates again.
Redriven == status \in Terminal

ReapSandbox ==
    /\ Redriven /\ ReaperDue
    /\ vm # NoVM
    /\ ~(Terminate(vm, TRUE) \subseteq jobs)
    /\ Go(Terminate(vm, TRUE))
    /\ UNCHANGED <<provider, row, wfRun, analytics, vms, conn, env, poll, faults, booted>>

\* The run's own deadline.
ReapTimeout ==
    /\ status \in Startup \cup {"connected", "idle", "offline"}
    /\ Fault
    /\ Go({Stop(FALSE, FALSE)})
    /\ UNCHANGED <<provider, row, wfRun, analytics, vms, conn, env, poll, booted>>

--------------------------------------------------------------------------------
(***************************************************************************)
(* Ends other than failure, restores and the hub's restart.                *)
(***************************************************************************)
\* DELETE of a claw.  The handler read status and provider_id before it.
Kill ==
    /\ status # "deleted"
    /\ status' = "deleted"
    /\ Go({Job("killed", vm, IF status = "error" THEN 0 ELSE 1, FALSE)})
    /\ UNCHANGED <<provider, vm, bootstrapOK, wfRun, analytics, vms, conn, env, poll, faults, booted>>

KillCleansUp(j) ==
    /\ j \in jobs /\ j.kind = "killed"
    /\ IF j.n = 1 THEN Materialize(TRUE) ELSE UNCHANGED analytics
    /\ wfRun' = "finished"
    /\ conn' = NoVM
    /\ Become(j, Terminate(j.v, FALSE))
    /\ UNCHANGED <<provider, row, vms, env, poll, faults, booted>>

\* finishClawTerminalTx(deleted) by terminateClawForIssue and the terminal stage
\* of a pipeline; the sandbox is left to the reaper.
FinishDeleted ==
    /\ status \in {"connected", "idle"}
    /\ status' = "deleted"
    /\ wfRun' = "finished" /\ env' = NoVM /\ conn' = NoVM
    /\ UNCHANGED <<provider, vm, bootstrapOK, analytics, vms, poll, jobs, faults, booted>>

\* finishClawTerminalTx(idle) by completeIssueLessDoneClaw.
FinishIdle ==
    /\ status = "connected"
    /\ status' = "idle"
    /\ wfRun' = "finished" /\ env' = NoVM
    /\ UNCHANGED <<provider, vm, bootstrapOK, analytics, vms, conn, poll, jobs, faults, booted>>

\* restoreClawFromCheckpoint claims a checkpoint, waits for a last checkpoint of
\* the old sandbox, and takes the claw whatever its status is by then.
Restore ==
    /\ status \notin Startup
    /\ Fault
    /\ Go({Job("restore", NoVM, 0, FALSE)})
    /\ UNCHANGED <<provider, row, wfRun, analytics, vms, conn, env, poll, booted>>

RestoreBegins ==
    LET j == Job("restore", NoVM, 0, FALSE) IN
    /\ j \in jobs
    /\ status' = "provisioning" /\ bootstrapOK' = FALSE /\ vm' = NoVM
    /\ conn' = NoVM
    /\ Become(j, {Provision(TRUE)} \cup Terminate(vm, FALSE))
    /\ UNCHANGED <<provider, wfRun, analytics, vms, env, poll, faults, booted>>

\* reconcileOnBoot fails the runs whose claw is terminal.
Repaired(s) == IF s \in Terminal THEN "finished" ELSE wfRun

\* A new hub process: reconcileOnBoot stops what was being provisioned, except a
\* sandbox the poller can pick up.
Restart ==
    LET stranded == status \in Startup /\ ~(provider = "replicated" /\ vm # NoVM) IN
    /\ Fault
    /\ conn' = NoVM /\ env' = NoVM /\ poll' = NoRow
    /\ status' = IF stranded THEN "error" ELSE status
    /\ wfRun' = IF stranded THEN "finished" ELSE Repaired(status)
    /\ jobs' = IF stranded THEN {Job("stopped", vm, 0, FALSE)} ELSE {}
    /\ UNCHANGED <<provider, vm, bootstrapOK, analytics, vms, booted>>

--------------------------------------------------------------------------------
HubStep ==
    \/ ProvisionAbandoned
    \/ PollRead \/ PollLost \/ PollRunning \/ PollTransient
    \/ OfflineWrite \/ Heartbeat \/ RestoreBegins
    \/ ReapStartup \/ ReapOffline \/ ReapSandbox
    \/ \E v \in VMs :
          \/ AssignReplicated(v) \/ CheckReplicated(v)
          \/ AssignDaytona(v) \/ AssignExedev(v) \/ AssignDocker(v) \/ AssignLambda(v)
          \/ BootstrapBegins(v) \/ BootstrapDone(v)
          \/ \E skip \in BOOLEAN : StopIfInstance(v, skip)
    \/ \E j \in jobs :
          \/ \E v \in VMs : CreateSandbox(j, v)
          \/ StopRetries(j) \/ StopHandled(j) \/ StopGivesUp(j) \/ StopTerminal(j)
          \/ StopCleansUp(j)
          \/ ReplaceTearsDown(j) \/ ReplaceResets(j)
          \/ TerminateSandbox(j) \/ KillCleansUp(j)

Environment ==
    \/ HealthFailure \/ ReapTimeout \/ Kill \/ Restore \/ Restart \/ Disconnect
    \/ FinishDeleted \/ FinishIdle
    \/ \E v \in VMs :
          \/ SandboxUp(v) \/ SandboxLost(v)
          \/ BootstrapFails(v) \/ BootstrapUnavailable(v)
          \/ \E ready \in BOOLEAN : Register(v, ready)
    \/ \E j \in jobs :
          CreateFails(j) \/ ReplaceFails(j) \/ TerminateFails(j)

ClawNext == HubStep \/ Environment

ClawSpec == ClawInit /\ [][ClawNext]_clawVars

\* No sandbox is bootstrapped twice by the hub ("two bridges fighting over the
\* hub connection"), whatever the poller's stale row, a transient provider
\* status, a retry or a restart does to the claw's status.
OneBootstrap == \A v \in VMs : booted[v] <= 1

\* Of the attempts of the claw's task run only the current one can be running:
\* detectors that stop the agent at the same time, late replacements and
\* re-materialized analytics never leave an earlier attempt open.
OnlyCurrentRuns == \A i \in AttemptNumbers : attempts[i] = "running" => i = attempt

\* The workflow run of a deleted claw is finished or the kill that will finish it
\* is under way; a hub that dies in between repairs the run when it boots.
DeletedRunEnds ==
    (status = "deleted" /\ wfRun = "running") => \E j \in jobs : j.kind = "killed"

\* What is recorded as running follows the claw: one attempt, and no run of a claw
\* that is gone.
RunsFollowTheClaw == OnlyCurrentRuns /\ DeletedRunEnds

--------------------------------------------------------------------------------
(***************************************************************************)
(* Goroutines run to their end, and the reaper comes back every minute:    *)
(* it ages a claw from when it first saw its status, so what other         *)
(* goroutines do in between does not postpone it for ever.  Nothing is     *)
(* assumed of the bridge, the provider's polls or users.                   *)
(***************************************************************************)
Provisioning ==
    \/ \E j \in jobs, v \in VMs : CreateSandbox(j, v)
    \/ \E v \in VMs :
          \/ AssignReplicated(v) \/ CheckReplicated(v)
          \/ AssignDaytona(v) \/ AssignExedev(v) \/ AssignDocker(v) \/ AssignLambda(v)
Bootstrapping == \E v \in VMs : BootstrapBegins(v) \/ BootstrapDone(v) \/ BootstrapFails(v)
Deciding == \E j \in jobs : StopRetries(j) \/ StopHandled(j) \/ StopGivesUp(j)
Stopping == \E j \in jobs : StopTerminal(j) \/ StopCleansUp(j) \/ KillCleansUp(j)
Replacing == \E j \in jobs : ReplaceTearsDown(j) \/ ReplaceResets(j)
Terminating == \E j \in jobs : TerminateSandbox(j)
\* The hub's pings notice a connection whose sandbox is gone.
ConnectionDies == conn # NoVM /\ vms[conn] = "gone" /\ Disconnect
ClawFairness ==
    /\ WF_clawVars(Provisioning) /\ WF_clawVars(Bootstrapping)
    /\ WF_clawVars(ConnectionDies) /\ WF_clawVars(OfflineWrite) /\ WF_clawVars(RestoreBegins)
    /\ WF_clawVars(\E v \in VMs, skip \in BOOLEAN : StopIfInstance(v, skip))
    /\ WF_clawVars(Deciding) /\ WF_clawVars(Stopping)
    /\ WF_clawVars(Replacing) /\ WF_clawVars(Terminating)
    /\ SF_clawVars(ReapStartup \/ ReapOffline)
    /\ SF_clawVars(ReapSandbox)

ClawFairSpec == ClawSpec /\ ClawFairness

Unsettled == Startup \cup {"offline"}

\* A claw does not stay in a start-up status or offline: it connects, is
\* replaced, or is stopped (the reaper, or the provisioner's own failure).
StartupEnds == (status \in Unsettled) ~> (status \notin Unsettled)

\* The sandbox a terminal claw's row still names is terminated and forgotten, or
\* the claw leaves its terminal status: lost terminate calls and kills that the
\* hub did not survive are driven again.
TerminalSandboxGoes ==
    (status \in Terminal /\ vm # NoVM) ~> (status \notin Terminal \/ vm = NoVM)
================================================================================
