-------------------------- MODULE HubLifecycle_proofs --------------------------
(***************************************************************************)
(* ClawLifecycle: a sandbox is bootstrapped at most once, and what is      *)
(* recorded as running follows the claw.  OneBootstrap is not inductive:   *)
(* whether a bootstrap starts is decided by the goroutine that has just    *)
(* created the sandbox, or from a row read earlier by the poll.  BootInv   *)
(* adds that nothing but that goroutine knows a new sandbox (Fresh), that  *)
(* a row which still says provisioning names a sandbox never bootstrapped, *)
(* and that so does the row the poll holds.                                *)
(***************************************************************************)
EXTENDS ClawLifecycle, TLAPS

\* The job that has a new sandbox to write into the row.
AssignJob(v) == Job("assign", v, 0, FALSE)

LifeTypes ==
    /\ provider \in Providers /\ status \in Statuses /\ vm \in VMs \cup {NoVM}
    /\ wfRun \in {"running", "finished"}
    /\ attempt \in AttemptNumbers /\ attempts \in [AttemptNumbers -> {"none", "running", "failed"}]
    /\ vms \in [VMs -> {"unused", "booting", "up", "gone"}] /\ booted \in [VMs -> Nat]
    /\ poll = NoRow \/ (poll.v \in VMs /\ poll.status \in Startup)

\* Nothing but the assignment that is under way knows the sandbox.
Fresh(v) == booted[v] = 0 /\ vm # v /\ poll.v # v

BootInv ==
    /\ \A v \in VMs : vms[v] = "unused" => Fresh(v) /\ AssignJob(v) \notin jobs
    /\ \A v \in VMs : AssignJob(v) \in jobs => Fresh(v)
    /\ poll.status = "provisioning" /\ poll.v \in VMs => booted[poll.v] = 0
    /\ provider # "replicated" => poll = NoRow
    /\ \A v \in VMs : booted[v] > 0 /\ vm = v /\ provider = "replicated" => status # "provisioning"
    /\ OneBootstrap

\* What the constants are.
LEMMA NumbersAssumed ==
    /\ MaxAttempts \in Nat \ {0} /\ 1 \in AttemptNumbers /\ AttemptNumbers \subseteq Nat
    /\ VMs \subseteq Nat \ {0} /\ NoVM \notin VMs /\ NoVM = 0
    /\ NoRow.v = NoVM /\ NoRow.status = ""
BY ClawAssumption DEF AttemptNumbers, VMs, NoVM, NoRow

\* A step that moves no sandbox into the row or into the poll, and bootstraps none.
LEMMA QuietStep ==
    ASSUME LifeTypes, BootInv, booted' = booted, provider' = provider,
           poll' = poll \/ poll' = NoRow, vm' = vm \/ vm' = NoVM,
           status' = "provisioning" => status = "provisioning" \/ vm' = NoVM,
           \A v \in VMs : AssignJob(v) \in jobs' => AssignJob(v) \in jobs,
           \A v \in VMs : vms'[v] = "unused" => vms[v] = "unused"
    PROVE  BootInv'
<1>1. \A v \in VMs : Fresh(v) => Fresh(v)'
  BY NumbersAssumed DEF Fresh
<1>2. \A v \in VMs : vms'[v] = "unused" => Fresh(v)' /\ AssignJob(v) \notin jobs'
  BY <1>1 DEF BootInv
<1>3. \A v \in VMs : AssignJob(v) \in jobs' => Fresh(v)'
  BY <1>1 DEF BootInv
<1>4. poll'.status = "provisioning" /\ poll'.v \in VMs => booted'[poll'.v] = 0
  BY NumbersAssumed DEF BootInv
<1>5. provider' # "replicated" => poll' = NoRow
  BY DEF BootInv
<1>6. \A v \in VMs : booted'[v] > 0 /\ vm' = v /\ provider' = "replicated" => status' # "provisioning"
  BY NumbersAssumed DEF BootInv
<1>7. OneBootstrap'
  BY DEF BootInv, OneBootstrap
<1> QED  BY <1>2, <1>3, <1>4, <1>5, <1>6, <1>7 DEF BootInv, Fresh, AssignJob

\* At the start.
LEMMA TypesAndInit ==
    ClawInit => LifeTypes /\ BootInv /\ RunsFollowTheClaw
<1> SUFFICES ASSUME ClawInit PROVE LifeTypes /\ BootInv /\ RunsFollowTheClaw  OBVIOUS
<1>1. LifeTypes
  BY NumbersAssumed DEF ClawInit, LifeTypes, Statuses, Startup
<1>2. \A v \in VMs : AssignJob(v) \notin jobs
  BY DEF ClawInit, AssignJob, Provision, Job
<1>3. BootInv
  <2>1. /\ vm = NoVM /\ poll.v = NoVM /\ poll.status = "" /\ poll = NoRow
        /\ \A v \in VMs : booted[v] = 0
    BY NumbersAssumed DEF ClawInit
  <2>2. \A v \in VMs : Fresh(v)  BY <2>1, NumbersAssumed DEF Fresh
  <2>0. \A v \in VMs : booted[v] = 0  BY <2>1
  <2>3. OneBootstrap  BY <2>0 DEF OneBootstrap
  <2>4. \A v \in VMs : ~(booted[v] > 0)  BY <2>0
  <2> QED  BY <1>2, <2>1, <2>2, <2>3, <2>4, NumbersAssumed DEF BootInv
<1>4. RunsFollowTheClaw
  BY NumbersAssumed DEF ClawInit, RunsFollowTheClaw, OnlyCurrentRuns, DeletedRunEnds
<1> QED  BY <1>1, <1>3, <1>4

\* What Materialize writes for the current attempt.
LEMMA MaterializeKeeps ==
    ASSUME attempt \in AttemptNumbers, attempts \in [AttemptNumbers -> {"none", "running", "failed"}],
           OnlyCurrentRuns, NEW b, Materialize(b) \/ UNCHANGED analytics
    PROVE  /\ attempt' \in AttemptNumbers
           /\ attempts' \in [AttemptNumbers -> {"none", "running", "failed"}]
           /\ OnlyCurrentRuns'
<1>1. CASE Materialize(b)
  <2>1. PICK x \in {"running", "failed"} : attempts' = [attempts EXCEPT ![attempt] = x]
    BY <1>1 DEF Materialize
  <2>2. attempt' = attempt  BY <1>1 DEF Materialize
  <2> QED  BY <2>1, <2>2 DEF OnlyCurrentRuns
<1>2. CASE UNCHANGED analytics
  BY <1>2 DEF analytics, OnlyCurrentRuns
<1> QED  BY <1>1, <1>2

(***************************************************************************)
(* What all the steps have in common that neither put a sandbox into the   *)
(* row nor bootstrap one (RowKept), and that neither delete the claw nor   *)
(* change its attempts other than by Materialize (RunsKept).               *)
(***************************************************************************)
RowKept ==
    /\ provider' = provider /\ booted' = booted
    /\ poll' = poll \/ poll' = NoRow
    /\ vm' = vm \/ vm' = NoVM
    /\ status' \in Statuses /\ wfRun' \in {wfRun, "finished"}
    /\ status' = "provisioning" => status = "provisioning" \/ vm' = NoVM
    /\ vms' = vms \/ \E v : \E x \in {"booting", "up", "gone"} : vms' = [vms EXCEPT ![v] = x]

RunsKept ==
    /\ UNCHANGED analytics \/ \E b : Materialize(b)
    /\ status' = "deleted" => status = "deleted"

NoneAssigned == \A v \in VMs : AssignJob(v) \in jobs' => AssignJob(v) \in jobs
KilledStay == \A j \in jobs : j.kind = "killed" => j \in jobs'

\* Goroutines come and go.
LEMMA JobsMove ==
    ASSUME NEW j, j.kind # "killed", NEW js, \A x \in js : x.kind # "assign",
           jobs' = (jobs \ {j}) \cup js \/ jobs' = jobs \cup js \/ jobs' = jobs
    PROVE  NoneAssigned /\ KilledStay
BY DEF NoneAssigned, KilledStay, AssignJob, Job

\* The steps of this kind, each with the goroutines it starts and ends.
LEMMA PlainSteps ==
    ASSUME LifeTypes,
           \/ ProvisionAbandoned
           \/ \E j \in jobs : CreateFails(j)
           \/ \E v \in VMs, s \in BOOLEAN : StopIfInstance(v, s)
           \/ \E j \in jobs : StopHandled(j)
           \/ \E j \in jobs : StopGivesUp(j)
           \/ \E j \in jobs : ReplaceFails(j)
           \/ \E j \in jobs : ReplaceTearsDown(j)
           \/ \E j \in jobs : TerminateFails(j)
           \/ \E j \in jobs : TerminateSandbox(j)
           \/ \E j \in jobs : StopTerminal(j)
           \/ \E j \in jobs : StopCleansUp(j)
           \/ ReapStartup
           \/ ReapOffline
           \/ ReapSandbox
           \/ ReapTimeout
           \/ HealthFailure
           \/ Restore
           \/ Disconnect
           \/ PollLost
           \/ OfflineWrite
           \/ Heartbeat
           \/ \E v \in VMs, r \in BOOLEAN : Register(v, r)
           \/ \E v \in VMs : SandboxUp(v)
           \/ \E v \in VMs : SandboxLost(v)
           \/ \E v \in VMs : CheckReplicated(v)
           \/ \E v \in VMs : BootstrapBegins(v)
           \/ \E v \in VMs : BootstrapDone(v)
           \/ \E v \in VMs : BootstrapFails(v)
           \/ \E v \in VMs : BootstrapUnavailable(v)
           \/ RestoreBegins
           \/ FinishIdle
    PROVE  RowKept /\ RunsKept /\ NoneAssigned /\ KilledStay
<1>0. /\ status \in Statuses /\ wfRun \in {"running", "finished"} /\ NoVM \notin VMs
      /\ {"error", "offline", "connected", "starting", "provisioning", "idle", "deleted"} = Statuses
  BY NumbersAssumed DEF LifeTypes, Statuses, Startup, Terminal
<1>j. jobs' = jobs => NoneAssigned /\ KilledStay
  BY DEF NoneAssigned, KilledStay
<1>1. ASSUME ProvisionAbandoned PROVE RowKept /\ RunsKept /\ NoneAssigned /\ KilledStay
  <2>1. RowKept  BY <1>0, <1>1 DEF ProvisionAbandoned, End, RowKept, row, hubMemory
  <2>2. RunsKept  BY <1>0, <1>1 DEF ProvisionAbandoned, End, RunsKept, row, analytics
  <2> DEFINE js == {}
  <2>3. jobs' = (jobs \ {Provision(FALSE)}) \cup js  BY <1>1 DEF ProvisionAbandoned, End
  <2>4. /\ \A x \in js : x.kind # "assign"
        /\ Provision(FALSE).kind # "killed"
    BY <1>1 DEF ProvisionAbandoned, Provision, Job
  <2> HIDE DEF js
  <2>5. NoneAssigned /\ KilledStay  BY <2>3, <2>4, JobsMove
  <2> QED  BY <2>1, <2>2, <2>5
<1>2. ASSUME NEW j \in jobs, CreateFails(j) PROVE RowKept /\ RunsKept /\ NoneAssigned /\ KilledStay
  <2>1. RowKept  BY <1>0, <1>2 DEF CreateFails, Become, RowKept, row, hubMemory
  <2>2. RunsKept  BY <1>0, <1>2 DEF CreateFails, Become, RunsKept, row, analytics
  <2> DEFINE js == {Stop(TRUE, FALSE)}
  <2>3. jobs' = (jobs \ {j}) \cup js  BY <1>2 DEF CreateFails, Become
  <2>4. /\ \A x \in js : x.kind # "assign"
        /\ j.kind # "killed"
    BY <1>2 DEF CreateFails, Stop, Job
  <2> HIDE DEF js
  <2>5. NoneAssigned /\ KilledStay  BY <2>3, <2>4, JobsMove
  <2> QED  BY <2>1, <2>2, <2>5
<1>3. ASSUME NEW v \in VMs, NEW s \in BOOLEAN, StopIfInstance(v, s) PROVE RowKept /\ RunsKept /\ NoneAssigned /\ KilledStay
  <2>1. RowKept  BY <1>0, <1>3 DEF StopIfInstance, Become, RowKept, row, hubMemory
  <2>2. RunsKept  BY <1>0, <1>3 DEF StopIfInstance, Become, RunsKept, row, analytics
  <2> DEFINE js == IF vm = v THEN {Stop(TRUE, s)} ELSE {}
  <2>3. jobs' = (jobs \ {Job("instance", v, 1, s)}) \cup js  BY <1>3 DEF StopIfInstance, Become
  <2>4. /\ \A x \in js : x.kind # "assign"
        /\ Job("instance", v, 1, s).kind # "killed"
    BY <1>3 DEF StopIfInstance, Stop, Job
  <2> HIDE DEF js
  <2>5. NoneAssigned /\ KilledStay  BY <2>3, <2>4, JobsMove
  <2> QED  BY <2>1, <2>2, <2>5
<1>4. ASSUME NEW j \in jobs, StopHandled(j) PROVE RowKept /\ RunsKept /\ NoneAssigned /\ KilledStay
  <2>1. RowKept  BY <1>0, <1>4 DEF StopHandled, End, RowKept, row, hubMemory
  <2>2. RunsKept  BY <1>0, <1>4 DEF StopHandled, End, RunsKept, row, analytics
  <2> DEFINE js == {}
  <2>3. jobs' = (jobs \ {j}) \cup js  BY <1>4 DEF StopHandled, End
  <2>4. /\ \A x \in js : x.kind # "assign"
        /\ j.kind # "killed"
    BY <1>4 DEF StopHandled, Job
  <2> HIDE DEF js
  <2>5. NoneAssigned /\ KilledStay  BY <2>3, <2>4, JobsMove
  <2> QED  BY <2>1, <2>2, <2>5
<1>5. ASSUME NEW j \in jobs, StopGivesUp(j) PROVE RowKept /\ RunsKept /\ NoneAssigned /\ KilledStay
  <2>1. RowKept  BY <1>0, <1>5 DEF StopGivesUp, Become, RowKept, row, hubMemory
  <2>2. RunsKept  BY <1>0, <1>5 DEF StopGivesUp, Become, RunsKept, row, analytics
  <2> DEFINE js == {Job("terminal", vm, 0, j.skip)}
  <2>3. jobs' = (jobs \ {j}) \cup js  BY <1>5 DEF StopGivesUp, Become
  <2>4. /\ \A x \in js : x.kind # "assign"
        /\ j.kind # "killed"
    BY <1>5 DEF StopGivesUp, Job
  <2> HIDE DEF js
  <2>5. NoneAssigned /\ KilledStay  BY <2>3, <2>4, JobsMove
  <2> QED  BY <2>1, <2>2, <2>5
<1>6. ASSUME NEW j \in jobs, ReplaceFails(j) PROVE RowKept /\ RunsKept /\ NoneAssigned /\ KilledStay
  <2>1. RowKept  BY <1>0, <1>6 DEF ReplaceFails, Become, RowKept, row, hubMemory
  <2>2. RunsKept  BY <1>0, <1>6 DEF ReplaceFails, Become, RunsKept, row, analytics
  <2> DEFINE js == {Job("terminal", vm, 0, FALSE)}
  <2>3. jobs' = (jobs \ {j}) \cup js  BY <1>6 DEF ReplaceFails, Become
  <2>4. /\ \A x \in js : x.kind # "assign"
        /\ j.kind # "killed"
    BY <1>6 DEF ReplaceFails, Job
  <2> HIDE DEF js
  <2>5. NoneAssigned /\ KilledStay  BY <2>3, <2>4, JobsMove
  <2> QED  BY <2>1, <2>2, <2>5
<1>7. ASSUME NEW j \in jobs, ReplaceTearsDown(j) PROVE RowKept /\ RunsKept /\ NoneAssigned /\ KilledStay
  <2>1. RowKept  BY <1>0, <1>7 DEF ReplaceTearsDown, Become, RowKept, row, hubMemory
  <2>2. RunsKept  BY <1>0, <1>7 DEF ReplaceTearsDown, Become, RunsKept, row, analytics
  <2> DEFINE js == {Job("reset", NoVM, j.n, FALSE)} \cup Terminate(vm, FALSE)
  <2>3. jobs' = (jobs \ {j}) \cup js  BY <1>7 DEF ReplaceTearsDown, Become
  <2>4. /\ \A x \in js : x.kind # "assign"
        /\ j.kind # "killed"
    BY <1>7 DEF ReplaceTearsDown, Terminate, Job
  <2> HIDE DEF js
  <2>5. NoneAssigned /\ KilledStay  BY <2>3, <2>4, JobsMove
  <2> QED  BY <2>1, <2>2, <2>5
<1>8. ASSUME NEW j \in jobs, TerminateFails(j) PROVE RowKept /\ RunsKept /\ NoneAssigned /\ KilledStay
  <2>1. RowKept  BY <1>0, <1>8 DEF TerminateFails, End, RowKept, row, hubMemory
  <2>2. RunsKept  BY <1>0, <1>8 DEF TerminateFails, End, RunsKept, row, analytics
  <2> DEFINE js == {}
  <2>3. jobs' = (jobs \ {j}) \cup js  BY <1>8 DEF TerminateFails, End
  <2>4. /\ \A x \in js : x.kind # "assign"
        /\ j.kind # "killed"
    BY <1>8 DEF TerminateFails, Job
  <2> HIDE DEF js
  <2>5. NoneAssigned /\ KilledStay  BY <2>3, <2>4, JobsMove
  <2> QED  BY <2>1, <2>2, <2>5
<1>9. ASSUME NEW j \in jobs, TerminateSandbox(j) PROVE RowKept /\ RunsKept /\ NoneAssigned /\ KilledStay
  <2>1. RowKept  BY <1>0, <1>9 DEF TerminateSandbox, End, RowKept, row, hubMemory
  <2>2. RunsKept  BY <1>0, <1>9 DEF TerminateSandbox, End, RunsKept, row, analytics
  <2> DEFINE js == {}
  <2>3. jobs' = (jobs \ {j}) \cup js  BY <1>9 DEF TerminateSandbox, End
  <2>4. /\ \A x \in js : x.kind # "assign"
        /\ j.kind # "killed"
    BY <1>9 DEF TerminateSandbox, Job
  <2> HIDE DEF js
  <2>5. NoneAssigned /\ KilledStay  BY <2>3, <2>4, JobsMove
  <2> QED  BY <2>1, <2>2, <2>5
<1>10. ASSUME NEW j \in jobs, StopTerminal(j) PROVE RowKept /\ RunsKept /\ NoneAssigned /\ KilledStay
  <2>1. RowKept  BY <1>0, <1>10 DEF StopTerminal, End, Become, RowKept, row, hubMemory
  <2>2. RunsKept  BY <1>0, <1>10 DEF StopTerminal, End, Become, RunsKept, row, analytics
  <2> DEFINE js == IF status \in Terminal THEN {} ELSE {Job("stopped", j.v, 0, j.skip)}
  <2>3. jobs' = (jobs \ {j}) \cup js  BY <1>10 DEF StopTerminal, End, Become
  <2>4. /\ \A x \in js : x.kind # "assign"
        /\ j.kind # "killed"
    BY <1>10 DEF StopTerminal, Job
  <2> HIDE DEF js
  <2>5. NoneAssigned /\ KilledStay  BY <2>3, <2>4, JobsMove
  <2> QED  BY <2>1, <2>2, <2>5
<1>11. ASSUME NEW j \in jobs, StopCleansUp(j) PROVE RowKept /\ RunsKept /\ NoneAssigned /\ KilledStay
  <2>1. RowKept  BY <1>0, <1>11 DEF StopCleansUp, Become, RowKept, row, hubMemory
  <2>2. RunsKept  BY <1>0, <1>11 DEF StopCleansUp, Become, RunsKept, row, analytics
  <2> DEFINE js == IF j.skip THEN {} ELSE Terminate(j.v, TRUE)
  <2>3. jobs' = (jobs \ {j}) \cup js  BY <1>11 DEF StopCleansUp, Become
  <2>4. /\ \A x \in js : x.kind # "assign"
        /\ j.kind # "killed"
    BY <1>11 DEF StopCleansUp, Terminate, Job
  <2> HIDE DEF js
  <2>5. NoneAssigned /\ KilledStay  BY <2>3, <2>4, JobsMove
  <2> QED  BY <2>1, <2>2, <2>5
<1>12. ASSUME ReapStartup PROVE RowKept /\ RunsKept /\ NoneAssigned /\ KilledStay
  <2>1. RowKept  BY <1>0, <1>12 DEF ReapStartup, Go, RowKept, row, hubMemory
  <2>2. RunsKept  BY <1>0, <1>12 DEF ReapStartup, Go, RunsKept, row, analytics
  <2> DEFINE js == {Stop(TRUE, FALSE)}
  <2>3. jobs' = jobs \cup js  BY <1>12 DEF ReapStartup, Go
  <2>4. /\ \A x \in js : x.kind # "assign"
        /\ Job("stop", 0, 0, FALSE).kind # "killed"
    BY <1>12 DEF ReapStartup, Stop, Job
  <2> HIDE DEF js
  <2>5. NoneAssigned /\ KilledStay  BY <2>3, <2>4, JobsMove
  <2> QED  BY <2>1, <2>2, <2>5
<1>13. ASSUME ReapOffline PROVE RowKept /\ RunsKept /\ NoneAssigned /\ KilledStay
  <2>1. RowKept  BY <1>0, <1>13 DEF ReapOffline, Go, RowKept, row, hubMemory
  <2>2. RunsKept  BY <1>0, <1>13 DEF ReapOffline, Go, RunsKept, row, analytics
  <2> DEFINE js == {Stop(provider = "replicated" /\ vm # NoVM /\ vms[vm] = "gone", provider = "replicated" /\ vm # NoVM /\ vms[vm] = "gone")}
  <2>3. jobs' = jobs \cup js  BY <1>13 DEF ReapOffline, Go
  <2>4. /\ \A x \in js : x.kind # "assign"
        /\ Job("stop", 0, 0, FALSE).kind # "killed"
    BY <1>13 DEF ReapOffline, Stop, Job
  <2> HIDE DEF js
  <2>5. NoneAssigned /\ KilledStay  BY <2>3, <2>4, JobsMove
  <2> QED  BY <2>1, <2>2, <2>5
<1>14. ASSUME ReapSandbox PROVE RowKept /\ RunsKept /\ NoneAssigned /\ KilledStay
  <2>1. RowKept  BY <1>0, <1>14 DEF ReapSandbox, Go, RowKept, row, hubMemory
  <2>2. RunsKept  BY <1>0, <1>14 DEF ReapSandbox, Go, RunsKept, row, analytics
  <2> DEFINE js == Terminate(vm, TRUE)
  <2>3. jobs' = jobs \cup js  BY <1>14 DEF ReapSandbox, Go
  <2>4. /\ \A x \in js : x.kind # "assign"
        /\ Job("stop", 0, 0, FALSE).kind # "killed"
    BY <1>14 DEF ReapSandbox, Terminate, Job
  <2> HIDE DEF js
  <2>5. NoneAssigned /\ KilledStay  BY <2>3, <2>4, JobsMove
  <2> QED  BY <2>1, <2>2, <2>5
<1>15. ASSUME ReapTimeout PROVE RowKept /\ RunsKept /\ NoneAssigned /\ KilledStay
  <2>1. RowKept  BY <1>0, <1>15 DEF ReapTimeout, Go, RowKept, row, hubMemory
  <2>2. RunsKept  BY <1>0, <1>15 DEF ReapTimeout, Go, RunsKept, row, analytics
  <2> DEFINE js == {Stop(FALSE, FALSE)}
  <2>3. jobs' = jobs \cup js  BY <1>15 DEF ReapTimeout, Go
  <2>4. /\ \A x \in js : x.kind # "assign"
        /\ Job("stop", 0, 0, FALSE).kind # "killed"
    BY <1>15 DEF ReapTimeout, Stop, Job
  <2> HIDE DEF js
  <2>5. NoneAssigned /\ KilledStay  BY <2>3, <2>4, JobsMove
  <2> QED  BY <2>1, <2>2, <2>5
<1>16. ASSUME HealthFailure PROVE RowKept /\ RunsKept /\ NoneAssigned /\ KilledStay
  <2>1. RowKept  BY <1>0, <1>16 DEF HealthFailure, Go, RowKept, row, hubMemory
  <2>2. RunsKept  BY <1>0, <1>16 DEF HealthFailure, Go, RunsKept, row, analytics
  <2> DEFINE js == {Stop(TRUE, FALSE)}
  <2>3. jobs' = jobs \cup js  BY <1>16 DEF HealthFailure, Go
  <2>4. /\ \A x \in js : x.kind # "assign"
        /\ Job("stop", 0, 0, FALSE).kind # "killed"
    BY <1>16 DEF HealthFailure, Stop, Job
  <2> HIDE DEF js
  <2>5. NoneAssigned /\ KilledStay  BY <2>3, <2>4, JobsMove
  <2> QED  BY <2>1, <2>2, <2>5
<1>17. ASSUME Restore PROVE RowKept /\ RunsKept /\ NoneAssigned /\ KilledStay
  <2>1. RowKept  BY <1>0, <1>17 DEF Restore, Go, RowKept, row, hubMemory
  <2>2. RunsKept  BY <1>0, <1>17 DEF Restore, Go, RunsKept, row, analytics
  <2> DEFINE js == {Job("restore", NoVM, 0, FALSE)}
  <2>3. jobs' = jobs \cup js  BY <1>17 DEF Restore, Go
  <2>4. /\ \A x \in js : x.kind # "assign"
        /\ Job("stop", 0, 0, FALSE).kind # "killed"
    BY <1>17 DEF Restore, Job
  <2> HIDE DEF js
  <2>5. NoneAssigned /\ KilledStay  BY <2>3, <2>4, JobsMove
  <2> QED  BY <2>1, <2>2, <2>5
<1>18. ASSUME Disconnect PROVE RowKept /\ RunsKept /\ NoneAssigned /\ KilledStay
  <2>1. RowKept  BY <1>0, <1>18 DEF Disconnect, Go, RowKept, row, hubMemory
  <2>2. RunsKept  BY <1>0, <1>18 DEF Disconnect, Go, RunsKept, row, analytics
  <2> DEFINE js == IF status \in {"deleted", "idle", "error", "provisioning"} THEN {} ELSE {Job("offline", NoVM, 0, FALSE)}
  <2>3. jobs' = jobs \cup js  BY <1>18 DEF Disconnect, Go
  <2>4. /\ \A x \in js : x.kind # "assign"
        /\ Job("stop", 0, 0, FALSE).kind # "killed"
    BY <1>18 DEF Disconnect, Job
  <2> HIDE DEF js
  <2>5. NoneAssigned /\ KilledStay  BY <2>3, <2>4, JobsMove
  <2> QED  BY <2>1, <2>2, <2>5
<1>19. ASSUME PollLost PROVE RowKept /\ RunsKept /\ NoneAssigned /\ KilledStay
  <2>1. RowKept  BY <1>0, <1>19 DEF PollLost, Go, RowKept, row, hubMemory
  <2>2. RunsKept  BY <1>0, <1>19 DEF PollLost, Go, RunsKept, row, analytics
  <2> DEFINE js == {Job("instance", poll.v, 1, TRUE)}
  <2>3. jobs' = jobs \cup js  BY <1>19 DEF PollLost, Go
  <2>4. /\ \A x \in js : x.kind # "assign"
        /\ Job("stop", 0, 0, FALSE).kind # "killed"
    BY <1>19 DEF PollLost, Job
  <2> HIDE DEF js
  <2>5. NoneAssigned /\ KilledStay  BY <2>3, <2>4, JobsMove
  <2> QED  BY <2>1, <2>2, <2>5
<1>20. ASSUME OfflineWrite PROVE RowKept /\ RunsKept /\ NoneAssigned /\ KilledStay
  <2>1. RowKept  BY <1>0, <1>20 DEF OfflineWrite, End, RowKept, row, hubMemory
  <2>2. RunsKept  BY <1>0, <1>20 DEF OfflineWrite, End, RunsKept, row, analytics
  <2> DEFINE js == {}
  <2>3. jobs' = (jobs \ {Job("offline", NoVM, 0, FALSE)}) \cup js  BY <1>20 DEF OfflineWrite, End
  <2>4. /\ \A x \in js : x.kind # "assign"
        /\ Job("offline", NoVM, 0, FALSE).kind # "killed"
    BY <1>20 DEF OfflineWrite, Job
  <2> HIDE DEF js
  <2>5. NoneAssigned /\ KilledStay  BY <2>3, <2>4, JobsMove
  <2> QED  BY <2>1, <2>2, <2>5
<1>21. ASSUME Heartbeat PROVE RowKept /\ RunsKept /\ NoneAssigned /\ KilledStay
  <2>1. RowKept  BY <1>0, <1>21 DEF Heartbeat, RowKept, row, hubMemory
  <2>2. RunsKept  BY <1>0, <1>21 DEF Heartbeat, RunsKept, row, analytics
  <2>3. jobs' = jobs  BY <1>21 DEF Heartbeat, hubMemory
  <2> QED  BY <1>j, <2>1, <2>2, <2>3
<1>22. ASSUME NEW v \in VMs, NEW r \in BOOLEAN, Register(v, r) PROVE RowKept /\ RunsKept /\ NoneAssigned /\ KilledStay
  <2>1. RowKept  BY <1>0, <1>22 DEF Register, RowKept, row, hubMemory
  <2>2. RunsKept  BY <1>0, <1>22 DEF Register, RunsKept, row, analytics
  <2>3. jobs' = jobs  BY <1>22 DEF Register, hubMemory
  <2> QED  BY <1>j, <2>1, <2>2, <2>3
<1>23. ASSUME NEW v \in VMs, SandboxUp(v) PROVE RowKept /\ RunsKept /\ NoneAssigned /\ KilledStay
  <2>1. RowKept  BY <1>0, <1>23 DEF SandboxUp, RowKept, row, hubMemory
  <2>2. RunsKept  BY <1>0, <1>23 DEF SandboxUp, RunsKept, row, analytics
  <2>3. jobs' = jobs  BY <1>23 DEF SandboxUp, hubMemory
  <2> QED  BY <1>j, <2>1, <2>2, <2>3
<1>24. ASSUME NEW v \in VMs, SandboxLost(v) PROVE RowKept /\ RunsKept /\ NoneAssigned /\ KilledStay
  <2>1. RowKept  BY <1>0, <1>24 DEF SandboxLost, RowKept, row, hubMemory
  <2>2. RunsKept  BY <1>0, <1>24 DEF SandboxLost, RunsKept, row, analytics
  <2>3. jobs' = jobs  BY <1>24 DEF SandboxLost, hubMemory
  <2> QED  BY <1>j, <2>1, <2>2, <2>3
<1>25. ASSUME NEW v \in VMs, CheckReplicated(v) PROVE RowKept /\ RunsKept /\ NoneAssigned /\ KilledStay
  <2>1. RowKept  BY <1>0, <1>25 DEF CheckReplicated, Become, End, RowKept, row, hubMemory
  <2>2. RunsKept  BY <1>0, <1>25 DEF CheckReplicated, Become, End, RunsKept, row, analytics
  <2> DEFINE js == IF status = "deleted" THEN {Stop(TRUE, FALSE)} ELSE {}
  <2>3. jobs' = (jobs \ {Job("check", v, 0, FALSE)}) \cup js  BY <1>25 DEF CheckReplicated, Become, End
  <2>4. /\ \A x \in js : x.kind # "assign"
        /\ Job("check", v, 0, FALSE).kind # "killed"
    BY <1>25 DEF CheckReplicated, Stop, Job
  <2> HIDE DEF js
  <2>5. NoneAssigned /\ KilledStay  BY <2>3, <2>4, JobsMove
  <2> QED  BY <2>1, <2>2, <2>5
<1>26. ASSUME NEW v \in VMs, BootstrapBegins(v) PROVE RowKept /\ RunsKept /\ NoneAssigned /\ KilledStay
  <2>1. RowKept  BY <1>0, <1>26 DEF BootstrapBegins, Become, End, RowKept, row, hubMemory
  <2>2. RunsKept  BY <1>0, <1>26 DEF BootstrapBegins, Become, End, RunsKept, row, analytics
  <2> DEFINE js == IF status = "deleted" THEN {} ELSE {Job("bootstrap", v, 1, FALSE)}
  <2>3. jobs' = (jobs \ {Job("bootstrap", v, 0, FALSE)}) \cup js  BY <1>26 DEF BootstrapBegins, Become, End
  <2>4. /\ \A x \in js : x.kind # "assign"
        /\ Job("bootstrap", v, 0, FALSE).kind # "killed"
    BY <1>26 DEF BootstrapBegins, Job
  <2> HIDE DEF js
  <2>5. NoneAssigned /\ KilledStay  BY <2>3, <2>4, JobsMove
  <2> QED  BY <2>1, <2>2, <2>5
<1>27. ASSUME NEW v \in VMs, BootstrapDone(v) PROVE RowKept /\ RunsKept /\ NoneAssigned /\ KilledStay
  <2>1. RowKept  BY <1>0, <1>27 DEF BootstrapDone, BootstrapEnds, PromoteReady, Become, RowKept, row, hubMemory
  <2>2. RunsKept  BY <1>0, <1>27 DEF BootstrapDone, BootstrapEnds, PromoteReady, Become, RunsKept, row, analytics
  <2> DEFINE js == {}
  <2>3. jobs' = (jobs \ {Job("bootstrap", v, 1, FALSE)}) \cup js  BY <1>27 DEF BootstrapDone, BootstrapEnds, PromoteReady, Become
  <2>4. /\ \A x \in js : x.kind # "assign"
        /\ Job("bootstrap", v, 1, FALSE).kind # "killed"
    BY <1>27 DEF BootstrapDone, Job
  <2> HIDE DEF js
  <2>5. NoneAssigned /\ KilledStay  BY <2>3, <2>4, JobsMove
  <2> QED  BY <2>1, <2>2, <2>5
<1>28. ASSUME NEW v \in VMs, BootstrapFails(v) PROVE RowKept /\ RunsKept /\ NoneAssigned /\ KilledStay
  <2>1. RowKept  BY <1>0, <1>28 DEF BootstrapFails, BootstrapEnds, Become, RowKept, row, hubMemory
  <2>2. RunsKept  BY <1>0, <1>28 DEF BootstrapFails, BootstrapEnds, Become, RunsKept, row, analytics
  <2> DEFINE js == IF provider \notin SelfStarting THEN {Job("instance", v, 1, FALSE)} ELSE {Stop(TRUE, FALSE)}
  <2>3. jobs' = (jobs \ {Job("bootstrap", v, 1, FALSE)}) \cup js  BY <1>28 DEF BootstrapFails, BootstrapEnds, Become
  <2>4. /\ \A x \in js : x.kind # "assign"
        /\ Job("bootstrap", v, 1, FALSE).kind # "killed"
    BY <1>28 DEF BootstrapFails, Stop, Job
  <2> HIDE DEF js
  <2>5. NoneAssigned /\ KilledStay  BY <2>3, <2>4, JobsMove
  <2> QED  BY <2>1, <2>2, <2>5
<1>29. ASSUME NEW v \in VMs, BootstrapUnavailable(v) PROVE RowKept /\ RunsKept /\ NoneAssigned /\ KilledStay
  <2>1. RowKept  BY <1>0, <1>29 DEF BootstrapUnavailable, BootstrapEnds, Become, RowKept, row, hubMemory
  <2>2. RunsKept  BY <1>0, <1>29 DEF BootstrapUnavailable, BootstrapEnds, Become, RunsKept, row, analytics
  <2> DEFINE js == {Stop(FALSE, FALSE)}
  <2>3. jobs' = (jobs \ {Job("bootstrap", v, 1, FALSE)}) \cup js  BY <1>29 DEF BootstrapUnavailable, BootstrapEnds, Become
  <2>4. /\ \A x \in js : x.kind # "assign"
        /\ Job("bootstrap", v, 1, FALSE).kind # "killed"
    BY <1>29 DEF BootstrapUnavailable, Stop, Job
  <2> HIDE DEF js
  <2>5. NoneAssigned /\ KilledStay  BY <2>3, <2>4, JobsMove
  <2> QED  BY <2>1, <2>2, <2>5
<1>30. ASSUME RestoreBegins PROVE RowKept /\ RunsKept /\ NoneAssigned /\ KilledStay
  <2>1. RowKept  BY <1>0, <1>30 DEF RestoreBegins, Become, RowKept, row, hubMemory
  <2>2. RunsKept  BY <1>0, <1>30 DEF RestoreBegins, Become, RunsKept, row, analytics
  <2> DEFINE js == {Provision(TRUE)} \cup Terminate(vm, FALSE)
  <2>3. jobs' = (jobs \ {Job("restore", NoVM, 0, FALSE)}) \cup js  BY <1>30 DEF RestoreBegins, Become
  <2>4. /\ \A x \in js : x.kind # "assign"
        /\ Job("restore", NoVM, 0, FALSE).kind # "killed"
    BY <1>30 DEF RestoreBegins, Provision, Terminate, Job
  <2> HIDE DEF js
  <2>5. NoneAssigned /\ KilledStay  BY <2>3, <2>4, JobsMove
  <2> QED  BY <2>1, <2>2, <2>5
<1>31. ASSUME FinishIdle PROVE RowKept /\ RunsKept /\ NoneAssigned /\ KilledStay
  <2>1. RowKept  BY <1>0, <1>31 DEF FinishIdle, RowKept, row, hubMemory
  <2>2. RunsKept  BY <1>0, <1>31 DEF FinishIdle, RunsKept, row, analytics
  <2>3. jobs' = jobs  BY <1>31 DEF FinishIdle, hubMemory
  <2> QED  BY <1>j, <2>1, <2>2, <2>3
<1> QED  BY <1>1, <1>2, <1>3, <1>4, <1>5, <1>6, <1>7, <1>8, <1>9, <1>10, <1>11, <1>12, <1>13, <1>14, <1>15, <1>16, <1>17, <1>18, <1>19, <1>20, <1>21, <1>22, <1>23, <1>24, <1>25, <1>26, <1>27, <1>28, <1>29, <1>30, <1>31

\* The ends of a claw and the retry, which settle what runs as well.
LEMMA EndingSteps ==
    ASSUME LifeTypes, \/ Kill \/ FinishDeleted \/ Restart
                      \/ \E j \in jobs : KillCleansUp(j) \/ StopRetries(j) \/ ReplaceResets(j)
    PROVE  RowKept /\ NoneAssigned
<1>0. /\ status \in Statuses /\ wfRun \in {"running", "finished"}
      /\ "deleted" \in Statuses /\ "error" \in Statuses /\ "provisioning" \in Statuses
  BY DEF LifeTypes, Statuses, Startup, Terminal
<1>1. CASE Kill
  <2>1. RowKept  BY <1>0, <1>1 DEF Kill, RowKept
  <2>2. NoneAssigned  BY <1>1 DEF Kill, Go, NoneAssigned, AssignJob, Job
  <2> QED  BY <2>1, <2>2
<1>2. CASE FinishDeleted
  <2>1. RowKept  BY <1>0, <1>2 DEF FinishDeleted, RowKept
  <2>2. NoneAssigned  BY <1>2 DEF FinishDeleted, NoneAssigned
  <2> QED  BY <2>1, <2>2
<1>3. CASE Restart
  <2>1. RowKept  BY <1>0, <1>3 DEF Restart, RowKept, Repaired
  <2>2. NoneAssigned  BY <1>3 DEF Restart, NoneAssigned, AssignJob, Job
  <2> QED  BY <2>1, <2>2
<1>4. ASSUME NEW j \in jobs, KillCleansUp(j) PROVE RowKept /\ NoneAssigned
  <2>1. RowKept  BY <1>0, <1>4 DEF KillCleansUp, RowKept, row
  <2>2. NoneAssigned  BY <1>4 DEF KillCleansUp, Become, Terminate, NoneAssigned, AssignJob, Job
  <2> QED  BY <2>1, <2>2
<1>5. ASSUME NEW j \in jobs, StopRetries(j) PROVE RowKept /\ NoneAssigned
  <2>1. RowKept  BY <1>0, <1>5 DEF StopRetries, RowKept
  <2>2. NoneAssigned  BY <1>5 DEF StopRetries, Become, NoneAssigned, AssignJob, Job
  <2> QED  BY <2>1, <2>2
<1>6. ASSUME NEW j \in jobs, ReplaceResets(j) PROVE RowKept /\ NoneAssigned
  <2>1. RowKept  BY <1>0, <1>6 DEF ReplaceResets, RowKept
  <2>2. NoneAssigned  BY <1>6 DEF ReplaceResets, Become, End, Provision, NoneAssigned, AssignJob, Job
  <2> QED  BY <2>1, <2>2
<1> QED  BY <1>1, <1>2, <1>3, <1>4, <1>5, <1>6

\* The steps of a sandbox on its way into the row, and of the poll.
LEMMA SandboxSteps ==
    ASSUME LifeTypes, \/ \E j \in jobs, v \in VMs : CreateSandbox(j, v)
                      \/ \E v \in VMs : AssignReplicated(v) \/ AssignDirect(v)
                      \/ PollRead \/ PollRunning \/ PollTransient
    PROVE  /\ RunsKept /\ KilledStay /\ provider' = provider
           /\ status' \in Statuses /\ wfRun' = wfRun
           /\ vm' \in VMs \cup {NoVM} /\ booted' \in [VMs -> Nat]
           /\ vms' \in [VMs -> {"unused", "booting", "up", "gone"}]
           /\ poll' = NoRow \/ (poll'.v \in VMs /\ poll'.status \in Startup)
<1>0. /\ status \in Statuses /\ vm \in VMs \cup {NoVM} /\ "starting" \in Statuses /\ "provisioning" \in Statuses
      /\ vms \in [VMs -> {"unused", "booting", "up", "gone"}] /\ booted \in [VMs -> Nat]
      /\ poll = NoRow \/ (poll.v \in VMs /\ poll.status \in Startup)
  BY DEF LifeTypes, Statuses, Startup
<1>j. jobs' = jobs => KilledStay
  BY DEF KilledStay
<1>1. ASSUME NEW j \in jobs, NEW v \in VMs, CreateSandbox(j, v)
      PROVE  /\ RunsKept /\ KilledStay /\ provider' = provider
             /\ UNCHANGED <<status, wfRun, vm, booted, poll>>
             /\ vms' \in [VMs -> {"unused", "booting", "up", "gone"}]
  <2>1. RunsKept  BY <1>1 DEF CreateSandbox, RunsKept, row, analytics
  <2>2. KilledStay  BY <1>1 DEF CreateSandbox, Become, KilledStay
  <2>3. UNCHANGED <<provider, status, wfRun, vm, booted, poll>>  BY <1>1 DEF CreateSandbox, row
  <2>4. vms' \in [VMs -> {"unused", "booting", "up", "gone"}]  BY <1>0, <1>1 DEF CreateSandbox
  <2> QED  BY <2>1, <2>2, <2>3, <2>4
<1>2. ASSUME NEW v \in VMs, AssignReplicated(v)
      PROVE  /\ RunsKept /\ KilledStay
             /\ UNCHANGED <<provider, status, wfRun, vms, booted, poll>> /\ vm' \in {vm, v}
  <2>1. RunsKept  BY <1>2 DEF AssignReplicated, RunsKept, analytics
  <2>2. KilledStay  BY <1>2 DEF AssignReplicated, Become, KilledStay, Job
  <2>3. UNCHANGED <<provider, status, wfRun, vms, booted, poll>> /\ vm' \in {vm, v}
    BY <1>2 DEF AssignReplicated
  <2> QED  BY <2>1, <2>2, <2>3
<1>3. ASSUME NEW v \in VMs, AssignDirect(v)
      PROVE  /\ RunsKept /\ KilledStay
             /\ UNCHANGED <<provider, wfRun, vms, poll>> /\ vm' = v /\ status' = "starting"
             /\ booted' \in [VMs -> Nat]
  <2>1. RunsKept  BY <1>3 DEF AssignDirect, RunsKept, analytics
  <2>2. KilledStay  BY <1>3 DEF AssignDirect, Become, KilledStay, Job
  <2>3. UNCHANGED <<provider, wfRun, vms, poll>> /\ vm' = v /\ status' = "starting"
    BY <1>3 DEF AssignDirect
  <2>4. booted' \in [VMs -> Nat]  BY <1>0, <1>3 DEF AssignDirect
  <2> QED  BY <2>1, <2>2, <2>3, <2>4
<1>4. CASE PollRead
  <2>1. RunsKept  BY <1>4 DEF PollRead, RunsKept, row, analytics
  <2>2. UNCHANGED <<provider, status, wfRun, vm, vms, booted, jobs>>  BY <1>4 DEF PollRead, row
  <2>3. poll'.v \in VMs /\ poll'.status \in Startup  BY <1>0, <1>4 DEF PollRead
  <2> QED  BY <1>0, <1>j, <2>1, <2>2, <2>3
<1>5. CASE PollRunning
  <2>1. status' \in {status, "starting"}  BY <1>5 DEF PollRunning, PollWrites
  <2>2. RunsKept  BY <1>5, <2>1 DEF PollRunning, RunsKept, analytics
  <2>3. KilledStay  BY <1>5 DEF PollRunning, Go, KilledStay
  <2>4. UNCHANGED <<provider, wfRun, vm, vms>> /\ poll' = NoRow  BY <1>5 DEF PollRunning
  <2>5. booted' \in [VMs -> Nat]  BY <1>0, <1>5 DEF PollRunning
  <2> QED  BY <1>0, <2>1, <2>2, <2>3, <2>4, <2>5
<1>6. CASE PollTransient
  <2>1. status' \in {status, "starting", "provisioning"}
    BY <1>6 DEF PollTransient, PollWrites, HoldStarting
  <2>2. RunsKept  BY <1>6, <2>1 DEF PollTransient, RunsKept, analytics
  <2>3. UNCHANGED <<provider, wfRun, vm, vms, booted, jobs>> /\ poll' = NoRow  BY <1>6 DEF PollTransient
  <2> QED  BY <1>0, <1>j, <2>1, <2>2, <2>3
<1> QED  BY <1>0, <1>1, <1>2, <1>3, <1>4, <1>5, <1>6

\* The first bootstrap of a sandbox, counted.
LEMMA OneMore ==
    ASSUME booted \in [VMs -> Nat], NEW v \in VMs, booted[v] = 0,
           booted' = [booted EXCEPT ![v] = @ + 1]
    PROVE  booted'[v] = 1 /\ \A w \in VMs : w # v => booted'[w] = booted[w]
<1>1. booted'[v] = booted[v] + 1  OBVIOUS
<1>2. \A w \in VMs : w # v => booted'[w] = booted[w]  OBVIOUS
<1> QED  BY <1>1, <1>2

\* A sandbox is created once, assigned once and bootstrapped once: by the goroutine
\* that assigned it, or by the poll that finds it in a row that still says
\* "provisioning", which the same poll ends.
LEMMA SandboxBoots ==
    ASSUME LifeTypes, BootInv, \/ \E j \in jobs, v \in VMs : CreateSandbox(j, v)
                               \/ \E v \in VMs : AssignReplicated(v)
                               \/ \E v \in VMs : AssignDirect(v) /\ provider # "replicated"
                               \/ PollRead \/ PollRunning \/ PollTransient
    PROVE  BootInv'
<1>0. /\ vms \in [VMs -> {"unused", "booting", "up", "gone"}] /\ booted \in [VMs -> Nat]
      /\ poll = NoRow \/ (poll.v \in VMs /\ poll.status \in Startup)
      /\ vm \in VMs \cup {NoVM} /\ NoVM \notin VMs /\ NoRow.v = NoVM /\ NoRow.status = ""
  BY NumbersAssumed DEF LifeTypes
<1>b. /\ \A v \in VMs : vms[v] = "unused" => Fresh(v) /\ AssignJob(v) \notin jobs
      /\ \A v \in VMs : AssignJob(v) \in jobs => Fresh(v)
      /\ poll.status = "provisioning" /\ poll.v \in VMs => booted[poll.v] = 0
      /\ provider # "replicated" => poll = NoRow
      /\ \A v \in VMs : booted[v] > 0 /\ vm = v /\ provider = "replicated" => status # "provisioning"
      /\ OneBootstrap
  BY DEF BootInv
<1>1. ASSUME NEW j \in jobs, NEW v \in VMs, CreateSandbox(j, v) PROVE BootInv'
  <2>1. /\ UNCHANGED <<booted, provider, poll, vm, status>>
        /\ jobs' = (jobs \ {j}) \cup {AssignJob(v)} /\ vms[v] = "unused"
        /\ \E x \in {"booting", "up"} : vms' = [vms EXCEPT ![v] = x]
    BY <1>1 DEF CreateSandbox, Become, row, AssignJob
  <2>2. /\ vms'[v] # "unused" /\ \A w \in VMs : w # v => vms'[w] = vms[w]
    BY <1>0, <2>1
  <2>3. \A w \in VMs : w # v => AssignJob(w) # AssignJob(v)
    BY DEF AssignJob, Job
  <2>4. \A w \in VMs : Fresh(w)' = Fresh(w)  BY <2>1 DEF Fresh
  <2>5. \A w \in VMs : vms'[w] = "unused" => Fresh(w)' /\ AssignJob(w) \notin jobs'
    BY <1>b, <2>1, <2>2, <2>3, <2>4
  <2>6. \A w \in VMs : AssignJob(w) \in jobs' => Fresh(w)'
    BY <1>b, <2>1, <2>3, <2>4
  <2> QED  BY <1>b, <2>1, <2>5, <2>6 DEF BootInv, OneBootstrap, Fresh, AssignJob
<1>2. ASSUME NEW v \in VMs, AssignReplicated(v) PROVE BootInv'
  <2>1. /\ UNCHANGED <<booted, provider, poll, vms, status>> /\ provider = "replicated"
        /\ AssignJob(v) \in jobs /\ vm' \in {vm, v}
        /\ jobs' = (jobs \ {AssignJob(v)}) \cup {Job("check", v, 0, FALSE)}
    BY <1>2 DEF AssignReplicated, Become, AssignJob
  <2>2. \A w \in VMs : AssignJob(w) \in jobs' => w # v /\ AssignJob(w) \in jobs
    BY <2>1 DEF AssignJob, Job
  <2>3. Fresh(v) /\ vms[v] # "unused" /\ booted[v] = 0  BY <1>b, <2>1 DEF Fresh
  <2>4. \A w \in VMs : w # v /\ Fresh(w) => Fresh(w)'  BY <2>1 DEF Fresh
  <2>5. \A w \in VMs : vms'[w] = "unused" => Fresh(w)' /\ AssignJob(w) \notin jobs'
    BY <1>b, <2>1, <2>2, <2>3, <2>4
  <2>6. \A w \in VMs : AssignJob(w) \in jobs' => Fresh(w)'
    BY <1>b, <2>2, <2>4
  <2>7. \A w \in VMs : booted'[w] > 0 /\ vm' = w => status' # "provisioning"
    <3> SUFFICES ASSUME NEW w \in VMs, booted[w] > 0, vm' = w PROVE status # "provisioning"
      BY <2>1
    <3>1. w # v  BY <2>3
    <3> QED  BY <1>b, <2>1, <3>1
  <2> QED  BY <1>b, <2>1, <2>5, <2>6, <2>7 DEF BootInv, OneBootstrap, Fresh, AssignJob
<1>3. ASSUME NEW v \in VMs, AssignDirect(v), provider # "replicated" PROVE BootInv'
  <2>1. /\ UNCHANGED <<provider, poll, vms>> /\ AssignJob(v) \in jobs /\ vm' = v
        /\ booted' = [booted EXCEPT ![v] = @ + 1]
        /\ jobs' = (jobs \ {AssignJob(v)}) \cup {Job("bootstrap", v, 1, FALSE)}
    BY <1>3 DEF AssignDirect, Become, AssignJob
  <2>2. \A w \in VMs : AssignJob(w) \in jobs' => w # v /\ AssignJob(w) \in jobs
    BY <2>1 DEF AssignJob, Job
  <2>3. Fresh(v) /\ vms[v] # "unused" /\ booted[v] = 0  BY <1>b, <2>1 DEF Fresh
  <2>4. booted'[v] = 1 /\ \A w \in VMs : w # v => booted'[w] = booted[w]
    BY <1>0, <2>1, <2>3, OneMore
  <2>5. \A w \in VMs : w # v /\ Fresh(w) => Fresh(w)'  BY <2>1, <2>4 DEF Fresh
  <2>6. \A w \in VMs : vms'[w] = "unused" => Fresh(w)' /\ AssignJob(w) \notin jobs'
    BY <1>b, <2>1, <2>2, <2>3, <2>5
  <2>7. \A w \in VMs : AssignJob(w) \in jobs' => Fresh(w)'
    BY <1>b, <2>2, <2>5
  <2>8. OneBootstrap'
    <3> SUFFICES ASSUME NEW w \in VMs PROVE booted'[w] <= 1  BY DEF OneBootstrap
    <3>1. CASE w = v  BY <2>4, <3>1
    <3>2. CASE w # v  BY <1>b, <2>4, <3>2 DEF OneBootstrap
    <3> QED  BY <3>1, <3>2
  <2>9. poll' = NoRow /\ provider' # "replicated" /\ poll'.status = ""
    BY <1>0, <1>3, <1>b, <2>1
  <2> QED  BY <2>6, <2>7, <2>8, <2>9 DEF BootInv, Fresh, AssignJob
<1>4. CASE PollRead
  <2>1. /\ UNCHANGED <<provider, status, vm, vms, booted, jobs>> /\ provider = "replicated" /\ vm # NoVM
        /\ poll'.v = vm /\ poll'.status = status
    BY <1>4 DEF PollRead, row
  <2>2. \A w \in VMs : Fresh(w) => Fresh(w)'  BY <2>1 DEF Fresh
  <2>3. poll'.status = "provisioning" => booted'[poll'.v] = 0
    <3> SUFFICES ASSUME status = "provisioning" PROVE booted[vm] = 0  BY <2>1
    <3>1. vm \in VMs /\ booted[vm] \in Nat /\ ~(booted[vm] > 0)  BY <1>0, <1>b, <2>1
    <3> QED  BY <3>1
  <2>4. \A w \in VMs : vms'[w] = "unused" => Fresh(w)' /\ AssignJob(w) \notin jobs'
    BY <1>b, <2>1, <2>2
  <2>5. \A w \in VMs : AssignJob(w) \in jobs' => Fresh(w)'
    BY <1>b, <2>1, <2>2
  <2> QED  BY <1>b, <2>1, <2>3, <2>4, <2>5 DEF BootInv, OneBootstrap, Fresh, AssignJob
<1>5. CASE PollRunning
  <2>1. /\ UNCHANGED <<provider, vm, vms>> /\ poll # NoRow /\ poll' = NoRow
    BY <1>5 DEF PollRunning
  <2>2. provider = "replicated" /\ poll.v \in VMs  BY <1>0, <1>b, <2>1
  <2>3. \A w \in VMs : AssignJob(w) \in jobs' => AssignJob(w) \in jobs
    BY <1>5 DEF PollRunning, Go, AssignJob, Job
  <2>4. CASE booted' = booted
    <3>1. status' = "provisioning" => status = "provisioning"
      BY <1>5 DEF PollRunning, PollWrites
    <3> QED  BY <2>1, <2>3, <2>4, <3>1, QuietStep
  <2>5. CASE booted' # booted
    <3>1. /\ poll.status = "provisioning" /\ booted' = [booted EXCEPT ![poll.v] = @ + 1]
          /\ PollWrites("starting")
      BY <1>5, <2>5 DEF PollRunning
    <3>2. booted[poll.v] = 0  BY <1>b, <2>2, <3>1
    <3>3. booted'[poll.v] = 1 /\ \A w \in VMs : w # poll.v => booted'[w] = booted[w]
      BY <1>0, <2>2, <3>1, <3>2, OneMore
    <3>4. status' # "provisioning"
      BY <3>1 DEF PollWrites, Startup
    <3>5. \A w \in VMs : Fresh(w) => w # poll.v  BY DEF Fresh
    <3>6. \A w \in VMs : Fresh(w) => Fresh(w)'
      <4> SUFFICES ASSUME NEW w \in VMs, Fresh(w) PROVE booted'[w] = 0 /\ vm' # w /\ poll'.v # w
        BY DEF Fresh
      <4>1. booted'[w] = booted[w]  BY <3>3, <3>5
      <4> QED  BY <1>0, <2>1, <4>1 DEF Fresh
    <3>7. OneBootstrap'
      <4> SUFFICES ASSUME NEW w \in VMs PROVE booted'[w] <= 1  BY DEF OneBootstrap
      <4>1. CASE w = poll.v  BY <3>3, <4>1
      <4>2. CASE w # poll.v  BY <1>b, <3>3, <4>2 DEF OneBootstrap
      <4> QED  BY <4>1, <4>2
    <3>8. \A w \in VMs : vms'[w] = "unused" => Fresh(w)' /\ AssignJob(w) \notin jobs'
      BY <1>b, <2>1, <2>3, <3>6
    <3>9. \A w \in VMs : AssignJob(w) \in jobs' => Fresh(w)'
      BY <1>b, <2>3, <3>6
    <3>10. poll'.status = "" /\ poll'.v \notin VMs  BY <1>0, <2>1
    <3> QED  BY <2>1, <2>2, <3>4, <3>7, <3>8, <3>9, <3>10 DEF BootInv, Fresh, AssignJob
  <2> QED  BY <2>4, <2>5
<1>6. CASE PollTransient
  <2>1. /\ UNCHANGED <<provider, vm, vms, booted, jobs>> /\ poll # NoRow /\ poll' = NoRow
        /\ PollWrites(HoldStarting(poll.status))
    BY <1>6 DEF PollTransient
  <2>2. poll.status \in Startup  BY <1>0, <2>1
  <2>3. HoldStarting(poll.status) = poll.status
    BY <2>2 DEF HoldStarting, Startup
  <2>4. status' = status  BY <2>1, <2>3 DEF PollWrites
  <2> QED  BY <2>1, <2>4, QuietStep
<1> QED  BY <1>1, <1>2, <1>3, <1>4, <1>5, <1>6

\* What is recorded as running, over a step of the first kind.
LEMMA RunsQuiet ==
    ASSUME LifeTypes, RunsFollowTheClaw, RunsKept, KilledStay, wfRun' \in {wfRun, "finished"}
    PROVE  /\ attempt' \in AttemptNumbers
           /\ attempts' \in [AttemptNumbers -> {"none", "running", "failed"}]
           /\ RunsFollowTheClaw'
<1>1. PICK b : Materialize(b) \/ UNCHANGED analytics
  BY DEF RunsKept
<1>2. /\ attempt' \in AttemptNumbers
      /\ attempts' \in [AttemptNumbers -> {"none", "running", "failed"}]
      /\ OnlyCurrentRuns'
  BY <1>1, MaterializeKeeps DEF LifeTypes, RunsFollowTheClaw
<1>3. DeletedRunEnds'
  <2> SUFFICES ASSUME status' = "deleted", wfRun' = "running" PROVE \E j \in jobs' : j.kind = "killed"
    BY DEF DeletedRunEnds
  <2>1. status = "deleted" /\ wfRun = "running"
    BY DEF RunsKept
  <2>2. PICK j \in jobs : j.kind = "killed"
    BY <2>1 DEF RunsFollowTheClaw, DeletedRunEnds
  <2> QED  BY <2>2 DEF KilledStay
<1> QED  BY <1>2, <1>3 DEF RunsFollowTheClaw

\* The type invariant, over a step of the first kind.
LEMMA RowTyped ==
    ASSUME LifeTypes, RowKept, attempt' \in AttemptNumbers,
           attempts' \in [AttemptNumbers -> {"none", "running", "failed"}]
    PROVE  LifeTypes'
<1>1. vms' \in [VMs -> {"unused", "booting", "up", "gone"}]
  BY DEF LifeTypes, RowKept
<1>2. poll' = NoRow \/ (poll'.v \in VMs /\ poll'.status \in Startup)
  BY DEF LifeTypes, RowKept
<1>3. /\ provider' \in Providers /\ status' \in Statuses /\ vm' \in VMs \cup {NoVM}
      /\ wfRun' \in {"running", "finished"} /\ booted' \in [VMs -> Nat]
  BY DEF LifeTypes, RowKept
<1> QED  BY <1>1, <1>2, <1>3 DEF LifeTypes

\* BootInv, over a step of the first kind.
LEMMA RowBoots ==
    ASSUME LifeTypes, BootInv, RowKept, NoneAssigned
    PROVE  BootInv'
<1>1. \A v \in VMs : vms'[v] = "unused" => vms[v] = "unused"
  BY DEF LifeTypes, RowKept
<1> QED  BY <1>1, QuietStep DEF RowKept, NoneAssigned

\* The kills, the ends and the retry keep what is recorded in step with the claw:
\* a kill leaves the goroutine that finishes the run, a retry fails one attempt
\* and starts the next in one transaction.
LEMMA EndingRuns ==
    ASSUME LifeTypes, RunsFollowTheClaw,
           \/ Kill \/ FinishDeleted \/ Restart
           \/ \E j \in jobs : KillCleansUp(j) \/ StopRetries(j) \/ ReplaceResets(j)
    PROVE  /\ attempt' \in AttemptNumbers
           /\ attempts' \in [AttemptNumbers -> {"none", "running", "failed"}]
           /\ RunsFollowTheClaw'
<1>0. /\ attempt \in AttemptNumbers /\ attempts \in [AttemptNumbers -> {"none", "running", "failed"}]
      /\ OnlyCurrentRuns /\ DeletedRunEnds /\ attempt \in Nat /\ wfRun \in {"running", "finished"}
  BY NumbersAssumed DEF LifeTypes, RunsFollowTheClaw
<1>a. UNCHANGED analytics =>
        /\ attempt' \in AttemptNumbers
        /\ attempts' \in [AttemptNumbers -> {"none", "running", "failed"}]
        /\ OnlyCurrentRuns'
  BY <1>0 DEF analytics, OnlyCurrentRuns
<1>f. wfRun' = "finished" => DeletedRunEnds'
  BY DEF DeletedRunEnds
<1>1. CASE Kill
  <2>1. UNCHANGED analytics  BY <1>1 DEF Kill, analytics
  <2>2. PICK n : Job("killed", vm, n, FALSE) \in jobs'  BY <1>1 DEF Kill, Go
  <2>3. DeletedRunEnds'  BY <2>2 DEF DeletedRunEnds, Job
  <2> QED  BY <1>a, <2>1, <2>3 DEF RunsFollowTheClaw
<1>2. CASE FinishDeleted
  <2>1. UNCHANGED analytics /\ wfRun' = "finished"  BY <1>2 DEF FinishDeleted, analytics
  <2> QED  BY <1>a, <1>f, <2>1 DEF RunsFollowTheClaw
<1>3. CASE Restart
  <2>1. UNCHANGED analytics  BY <1>3 DEF Restart, analytics
  <2>2. status' = "deleted" => wfRun' = "finished"
    BY <1>3 DEF Restart, Repaired, Terminal, Startup
  <2>3. DeletedRunEnds'  BY <2>2 DEF DeletedRunEnds
  <2> QED  BY <1>a, <2>1, <2>3 DEF RunsFollowTheClaw
<1>4. ASSUME NEW j \in jobs, KillCleansUp(j)
      PROVE  /\ attempt' \in AttemptNumbers
             /\ attempts' \in [AttemptNumbers -> {"none", "running", "failed"}]
             /\ RunsFollowTheClaw'
  <2>1. Materialize(TRUE) \/ UNCHANGED analytics  BY <1>4 DEF KillCleansUp
  <2>2. wfRun' = "finished"  BY <1>4 DEF KillCleansUp
  <2> QED  BY <1>0, <1>f, <2>1, <2>2, MaterializeKeeps DEF RunsFollowTheClaw
<1>5. ASSUME NEW j \in jobs, StopRetries(j)
      PROVE  /\ attempt' \in AttemptNumbers
             /\ attempts' \in [AttemptNumbers -> {"none", "running", "failed"}]
             /\ RunsFollowTheClaw'
  <2>a. ~NoRetry(j) /\ status # "error" /\ status' = "error" /\ attempt' = attempt + 1
    BY <1>5 DEF StopRetries
  <2>b. ~(attempt >= MaxAttempts)  BY <2>a DEF NoRetry
  <2>1. SucceedAttempt(attempt + 1)  BY <1>5 DEF StopRetries
  <2>2. /\ attempt + 1 \in AttemptNumbers /\ (attempt + 1) - 1 = attempt
        /\ attempt # attempt + 1
    BY <1>0, <2>b, ClawAssumption DEF AttemptNumbers
  <2>3. PICK n \in AttemptNumbers : n = attempt + 1
    BY <2>2
  <2>4. /\ attempts' \in [AttemptNumbers -> {"none", "running", "failed"}]
        /\ attempts'[attempt] = "failed"
        /\ \A i \in AttemptNumbers : i # attempt /\ i # n => attempts'[i] = attempts[i]
    <3>1. SucceedAttempt(n) /\ n - 1 = attempt /\ n # attempt  BY <2>1, <2>2, <2>3
    <3>2. attempts' = [attempts EXCEPT ![n - 1] = "failed", ![n] = "running"]
      BY <3>1 DEF SucceedAttempt
    <3>3. attempts' = [[attempts EXCEPT ![attempt] = "failed"] EXCEPT ![n] = "running"]
      BY <3>1, <3>2
    <3> QED  BY <1>0, <3>1, <3>3
  <2>5. /\ attempts'[attempt] = "failed"
        /\ \A i \in AttemptNumbers : i # attempt /\ i # attempt + 1 => attempts'[i] = attempts[i]
    BY <2>3, <2>4
  <2>6. OnlyCurrentRuns'
    <3> SUFFICES ASSUME NEW i \in AttemptNumbers, attempts'[i] = "running" PROVE i = attempt + 1
      BY <2>a DEF OnlyCurrentRuns
    <3>1. i # attempt  BY <2>5
    <3>2. CASE i # attempt + 1  BY <1>0, <2>5, <3>1, <3>2 DEF OnlyCurrentRuns
    <3> QED  BY <3>2
  <2>7. DeletedRunEnds'  BY <2>a DEF DeletedRunEnds
  <2> QED  BY <2>a, <2>2, <2>4, <2>6, <2>7 DEF RunsFollowTheClaw
<1>6. ASSUME NEW j \in jobs, ReplaceResets(j)
      PROVE  /\ attempt' \in AttemptNumbers
             /\ attempts' \in [AttemptNumbers -> {"none", "running", "failed"}]
             /\ RunsFollowTheClaw'
  <2>a. j.kind = "reset" /\ wfRun' = wfRun /\ attempt' = attempt
    BY <1>6 DEF ReplaceResets, analytics
  <2>b. \A x \in jobs : x # j => x \in jobs'
    BY <1>6 DEF ReplaceResets, Become, End
  <2>1. /\ j.kind = "reset" /\ wfRun' = wfRun /\ attempt' = attempt
        /\ \A x \in jobs : x.kind = "killed" => x \in jobs'
    BY <2>a, <2>b
  <2>2. attempts' = attempts \/ \E i : attempts' = [attempts EXCEPT ![i] = IF @ = "running" THEN "failed" ELSE @]
    BY <1>6 DEF ReplaceResets, analytics
  <2>3. attempts' \in [AttemptNumbers -> {"none", "running", "failed"}]
    BY <1>0, <2>2
  <2>4. \A i \in AttemptNumbers : attempts'[i] = "running" => attempts[i] = "running"
    BY <1>0, <2>2
  <2>5. OnlyCurrentRuns'  BY <1>0, <2>1, <2>4 DEF OnlyCurrentRuns
  <2>6. status' = "deleted" => status = "deleted"
    BY <1>6 DEF ReplaceResets
  <2>7. DeletedRunEnds'  BY <1>0, <2>1, <2>6 DEF DeletedRunEnds
  <2> QED  BY <1>0, <2>1, <2>3, <2>5, <2>7 DEF RunsFollowTheClaw
<1> QED  BY <1>1, <1>2, <1>3, <1>4, <1>5, <1>6

LifeInv == LifeTypes /\ BootInv /\ RunsFollowTheClaw

\* The three kinds of steps keep the invariant.
LEMMA PlainKeep ==
    ASSUME LifeInv, RowKept, RunsKept, NoneAssigned, KilledStay
    PROVE  LifeInv'
<1>1. /\ attempt' \in AttemptNumbers
      /\ attempts' \in [AttemptNumbers -> {"none", "running", "failed"}]
      /\ RunsFollowTheClaw'
  BY RunsQuiet DEF LifeInv, RowKept
<1> QED  BY <1>1, RowTyped, RowBoots DEF LifeInv

\* ... those that end or retry the claw ...
LEMMA EndingKeep ==
    ASSUME LifeInv, \/ Kill \/ FinishDeleted \/ Restart
                    \/ \E j \in jobs : KillCleansUp(j) \/ StopRetries(j) \/ ReplaceResets(j)
    PROVE  LifeInv'
<1>1. LifeTypes /\ BootInv /\ RunsFollowTheClaw  BY DEF LifeInv
<1>2. RowKept /\ NoneAssigned  BY <1>1, EndingSteps
<1>3. /\ attempt' \in AttemptNumbers
      /\ attempts' \in [AttemptNumbers -> {"none", "running", "failed"}]
      /\ RunsFollowTheClaw'
  BY <1>1, EndingRuns
<1> QED  BY <1>1, <1>2, <1>3, RowTyped, RowBoots DEF LifeInv

\* ... those that handle a new sandbox or a poll ...
LEMMA SandboxKeep ==
    ASSUME LifeInv, \/ \E j \in jobs, v \in VMs : CreateSandbox(j, v)
                    \/ \E v \in VMs : AssignReplicated(v)
                    \/ \E v \in VMs : AssignDirect(v) /\ provider # "replicated"
                    \/ PollRead \/ PollRunning \/ PollTransient
    PROVE  LifeInv'
<1>1. LifeTypes /\ BootInv /\ RunsFollowTheClaw  BY DEF LifeInv
<1>2. BootInv'  BY <1>1, SandboxBoots
<1>3. /\ RunsKept /\ KilledStay /\ provider' = provider
      /\ status' \in Statuses /\ wfRun' = wfRun
      /\ vm' \in VMs \cup {NoVM} /\ booted' \in [VMs -> Nat]
      /\ vms' \in [VMs -> {"unused", "booting", "up", "gone"}]
      /\ poll' = NoRow \/ (poll'.v \in VMs /\ poll'.status \in Startup)
  BY <1>1, SandboxSteps
<1>4. /\ attempt' \in AttemptNumbers
      /\ attempts' \in [AttemptNumbers -> {"none", "running", "failed"}]
      /\ RunsFollowTheClaw'
  BY <1>1, <1>3, RunsQuiet
<1>5. LifeTypes'  BY <1>1, <1>3, <1>4 DEF LifeTypes
<1> QED  BY <1>2, <1>4, <1>5 DEF LifeInv

\* ... and those of others.
LEMMA QuietKeep ==
    ASSUME LifeInv, UNCHANGED clawVars
    PROVE  LifeInv'
<1>1. RowKept /\ RunsKept /\ NoneAssigned /\ KilledStay
  BY DEF LifeInv, LifeTypes, clawVars, RowKept, RunsKept, NoneAssigned, KilledStay, analytics
<1> QED  BY <1>1, PlainKeep

\* The hub's own steps.
LEMMA HubKeeps == ASSUME LifeInv, HubStep PROVE LifeInv'
<1>0. LifeTypes  BY DEF LifeInv
<1>1. ASSUME NEW v \in VMs, \/ AssignReplicated(v) \/ CheckReplicated(v)
                            \/ AssignDaytona(v) \/ AssignExedev(v) \/ AssignDocker(v) \/ AssignLambda(v)
                            \/ BootstrapBegins(v) \/ BootstrapDone(v)
                            \/ \E skip \in BOOLEAN : StopIfInstance(v, skip)
      PROVE  LifeInv'
  <2>1. CASE AssignReplicated(v)  BY <2>1, SandboxKeep
  <2>2. CASE AssignDaytona(v) \/ AssignExedev(v) \/ AssignDocker(v) \/ AssignLambda(v)
    <3>1. AssignDirect(v) /\ provider # "replicated"
      BY <2>2 DEF AssignDaytona, AssignExedev, AssignDocker, AssignLambda
    <3> QED  BY <3>1, SandboxKeep
  <2>3. CASE CheckReplicated(v)
    <3>1. RowKept /\ RunsKept /\ NoneAssigned /\ KilledStay  BY <1>0, <2>3, PlainSteps
    <3> QED  BY <3>1, PlainKeep
  <2>4. CASE BootstrapBegins(v)
    <3>1. RowKept /\ RunsKept /\ NoneAssigned /\ KilledStay  BY <1>0, <2>4, PlainSteps
    <3> QED  BY <3>1, PlainKeep
  <2>5. CASE BootstrapDone(v)
    <3>1. RowKept /\ RunsKept /\ NoneAssigned /\ KilledStay  BY <1>0, <2>5, PlainSteps
    <3> QED  BY <3>1, PlainKeep
  <2>6. CASE \E skip \in BOOLEAN : StopIfInstance(v, skip)
    <3>1. RowKept /\ RunsKept /\ NoneAssigned /\ KilledStay  BY <1>0, <2>6, PlainSteps
    <3> QED  BY <3>1, PlainKeep
  <2> QED  BY <1>1, <2>1, <2>2, <2>3, <2>4, <2>5, <2>6
<1>2. ASSUME NEW j \in jobs, \/ \E v \in VMs : CreateSandbox(j, v)
                             \/ StopRetries(j) \/ StopHandled(j) \/ StopGivesUp(j) \/ StopTerminal(j)
                             \/ StopCleansUp(j)
                             \/ ReplaceTearsDown(j) \/ ReplaceResets(j)
                             \/ TerminateSandbox(j) \/ KillCleansUp(j)
      PROVE  LifeInv'
  <2>1. CASE \E v \in VMs : CreateSandbox(j, v)  BY <2>1, SandboxKeep
  <2>2. CASE StopRetries(j)  BY <2>2, EndingKeep
  <2>3. CASE ReplaceResets(j)  BY <2>3, EndingKeep
  <2>4. CASE KillCleansUp(j)  BY <2>4, EndingKeep
  <2>5. CASE StopHandled(j)
    <3>1. RowKept /\ RunsKept /\ NoneAssigned /\ KilledStay  BY <1>0, <2>5, PlainSteps
    <3> QED  BY <3>1, PlainKeep
  <2>6. CASE StopGivesUp(j)
    <3>1. RowKept /\ RunsKept /\ NoneAssigned /\ KilledStay  BY <1>0, <2>6, PlainSteps
    <3> QED  BY <3>1, PlainKeep
  <2>7. CASE StopTerminal(j)
    <3>1. RowKept /\ RunsKept /\ NoneAssigned /\ KilledStay  BY <1>0, <2>7, PlainSteps
    <3> QED  BY <3>1, PlainKeep
  <2>8. CASE StopCleansUp(j)
    <3>1. RowKept /\ RunsKept /\ NoneAssigned /\ KilledStay  BY <1>0, <2>8, PlainSteps
    <3> QED  BY <3>1, PlainKeep
  <2>9. CASE ReplaceTearsDown(j)
    <3>1. RowKept /\ RunsKept /\ NoneAssigned /\ KilledStay  BY <1>0, <2>9, PlainSteps
    <3> QED  BY <3>1, PlainKeep
  <2>10. CASE TerminateSandbox(j)
    <3>1. RowKept /\ RunsKept /\ NoneAssigned /\ KilledStay  BY <1>0, <2>10, PlainSteps
    <3> QED  BY <3>1, PlainKeep
  <2> QED  BY <1>2, <2>1, <2>2, <2>3, <2>4, <2>5, <2>6, <2>7, <2>8, <2>9, <2>10
<1>3. ASSUME PollRead \/ PollRunning \/ PollTransient PROVE LifeInv'
  BY <1>3, SandboxKeep
<1>4. ASSUME \/ ProvisionAbandoned \/ PollLost \/ OfflineWrite \/ Heartbeat \/ RestoreBegins
             \/ ReapStartup \/ ReapOffline \/ ReapSandbox
      PROVE  LifeInv'
  <2>1. RowKept /\ RunsKept /\ NoneAssigned /\ KilledStay  BY <1>0, <1>4, PlainSteps
  <2> QED  BY <2>1, PlainKeep
<1> QED  BY <1>1, <1>2, <1>3, <1>4 DEF HubStep

\* Those of users, of the bridge, and what fails.
LEMMA EnvironmentKeeps == ASSUME LifeInv, Environment PROVE LifeInv'
<1>0. LifeTypes  BY DEF LifeInv
<1>1. ASSUME Kill \/ FinishDeleted \/ Restart PROVE LifeInv'
  BY <1>1, EndingKeep
<1>2. ASSUME HealthFailure \/ ReapTimeout \/ Restore \/ Disconnect \/ FinishIdle PROVE LifeInv'
  <2>1. RowKept /\ RunsKept /\ NoneAssigned /\ KilledStay  BY <1>0, <1>2, PlainSteps
  <2> QED  BY <2>1, PlainKeep
<1>3. ASSUME NEW v \in VMs, \/ SandboxUp(v) \/ SandboxLost(v)
                            \/ BootstrapFails(v) \/ BootstrapUnavailable(v)
                            \/ \E ready \in BOOLEAN : Register(v, ready)
      PROVE  LifeInv'
  <2>1. RowKept /\ RunsKept /\ NoneAssigned /\ KilledStay  BY <1>0, <1>3, PlainSteps
  <2> QED  BY <2>1, PlainKeep
<1>4. ASSUME NEW j \in jobs, CreateFails(j) \/ ReplaceFails(j) \/ TerminateFails(j) PROVE LifeInv'
  <2>1. RowKept /\ RunsKept /\ NoneAssigned /\ KilledStay  BY <1>0, <1>4, PlainSteps
  <2> QED  BY <2>1, PlainKeep
<1> QED  BY <1>1, <1>2, <1>3, <1>4 DEF Environment

\* The invariant of the specification.
LEMMA LifeHolds == ClawSpec => []LifeInv
<1>1. ClawInit => LifeInv  BY TypesAndInit DEF LifeInv
<1>2. LifeInv /\ [ClawNext]_clawVars => LifeInv'
  <2> SUFFICES ASSUME LifeInv, [ClawNext]_clawVars PROVE LifeInv'  OBVIOUS
  <2>1. CASE HubStep  BY <2>1, HubKeeps
  <2>2. CASE Environment  BY <2>2, EnvironmentKeeps
  <2>3. CASE UNCHANGED clawVars  BY <2>3, QuietKeep
  <2> QED  BY <2>1, <2>2, <2>3 DEF ClawNext
<1> QED  BY <1>1, <1>2, PTL DEF ClawSpec

\* The hub bootstraps a sandbox at most once, for every provider and any number of
\* sandboxes, attempts and failures: the goroutine of a provider other than
\* Replicated hands the sandbox to the bootstrap as it writes the row, and the poll
\* of Replicated bootstraps only what it read in a row that was still provisioning,
\* which it ends in the same step.
THEOREM BootstrappedOnce == ClawSpec => []OneBootstrap
<1>1. LifeInv => OneBootstrap  BY DEF LifeInv, BootInv
<1> QED  BY <1>1, LifeHolds, PTL

\* Only the current attempt of the claw's task run is recorded as running, and the
\* workflow run of a deleted claw is finished or about to be: whatever stops,
\* retries, kills, restores and restarts come together.
THEOREM RunsFollow == ClawSpec => []RunsFollowTheClaw
<1>1. LifeInv => RunsFollowTheClaw  BY DEF LifeInv
<1> QED  BY <1>1, LifeHolds, PTL
=================================================================================
