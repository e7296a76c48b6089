-------------------------------- MODULE CronSlots --------------------------------
(***************************************************************************)
(* The two cron schedulers and their overlap slots, for one workflow.      *)
(* pkg/hub: cron_scheduler.go (v1 workflows), cron_scheduler_v2.go,        *)
(* workflow_v2_terminal.go and workflowv2/cron_history.go (v2 workflows),  *)
(* reaper.go.  A slot is taken in memory under runningMu when a tick or a  *)
(* manual trigger is admitted and is given back when the claw (v1) or the  *)
(* workflow run (v2) ends; the claw and the run live in the database.      *)
(***************************************************************************)
EXTENDS Naturals, FiniteSets

CONSTANTS
    CronRuns,       \* ids of admitted runs
    Hooks,          \* goroutines that end a v2 run's parent
    MaxUpsets       \* bound on hub restarts and edits of the overlap policy

VARIABLES
    gen,            \* "v1" or "v2": which scheduler runs the workflow
    policy,         \* overlap_policy as stored in the workspace
    job,            \* the overlap policy the scheduled cron job holds
    slots,          \* running[key]
    crun,           \* the runs, see NoRun
    hook,           \* [run, pc] of each finishing goroutine
    skipped,        \* the last tick was skipped
    robbed,         \* history: a run of an earlier process gave back a slot
    restarts, edits

cronVars == <<gen, policy, job, slots, crun, hook, skipped, robbed, restarts, edits>>
cronCounts == <<restarts, edits>>

(***************************************************************************)
(* A run: pc of the runWorkflow call that starts it, the status of its     *)
(* workflow_v2_runs row, its history row and whether that row names the    *)
(* run (the claw, in v1), its claw, cron_slot_released (v2) or its entry   *)
(* in clawWorkflow (v1), whether this process admitted it, and whether the *)
(* slot it took is still out.                                              *)
(***************************************************************************)
NoRun == [pc |-> "none", db |-> "none", row |-> "none", linked |-> FALSE,
          claw |-> "none", released |-> FALSE, tracked |-> FALSE,
          mine |-> FALSE, held |-> FALSE]
Idle == [run |-> 0, pc |-> "none"]

ASSUME CronAssumption == /\ CronRuns \subseteq Nat \ {0} /\ IsFiniteSet(CronRuns)
                         /\ MaxUpsets \in Nat

CronInit ==
    /\ gen \in {"v1", "v2"}
    /\ policy \in {"skip", "parallel"} /\ job = policy
    /\ slots = 0
    /\ crun = [r \in CronRuns |-> NoRun]
    /\ hook = [h \in Hooks |-> Idle]
    /\ skipped = FALSE /\ robbed = FALSE
    /\ restarts = 0 /\ edits = 0

\* decrementRunning, and the same floor at zero in v1
MutDecremented == slots - 1
Decremented == IF slots > 0 THEN slots - 1 ELSE 0

\* The bookkeeping of a decrement on behalf of r.
GivesBack(r) ==
    /\ slots' = Decremented
    /\ robbed' = (robbed \/ ~crun[r].mine)

--------------------------------------------------------------------------------
(* Schedules *)

\* A save of the workspace reloads both schedulers.  An entry whose schedule
\* did not change keeps its job: v2 stores the new workflow in it, v1 leaves the
\* old one.
reloadWorkflows ==
    /\ restarts + edits < MaxUpsets
    /\ edits' = edits + 1
    /\ policy' = IF policy = "skip" THEN "parallel" ELSE "skip"
    /\ job' = IF gen = "v2" THEN policy' ELSE job
    /\ UNCHANGED <<gen, slots, crun, hook, skipped, robbed, restarts>>

\* countActiveV2Runs: status active or suspended, of any process.
MutCountNone == 0
countActiveV2Runs == Cardinality({r \in CronRuns : crun[r].db = "active"})

\* What the overlap check counts: v1 its own counter, v2 the rows too when the
\* counter is zero.
ActiveSeen == IF gen = "v2" /\ slots = 0 THEN countActiveV2Runs ELSE slots

Skips(p) == /\ ActiveSeen > 0 /\ p # "parallel"
            /\ ~skipped /\ skipped' = TRUE
            /\ UNCHANGED <<gen, policy, job, slots, crun, hook, robbed, cronCounts>>

Admit(r, p) ==
    /\ crun[r].pc = "none" /\ \A q \in CronRuns : crun[q].pc = "none" => r <= q
    /\ ActiveSeen = 0 \/ p = "parallel"
    /\ slots' = slots + 1
    /\ skipped' = FALSE
    /\ crun' = [crun EXCEPT ![r].pc = "admitted", ![r].mine = TRUE, ![r].held = TRUE]
    /\ UNCHANGED <<gen, policy, job, hook, robbed, cronCounts>>

\* A tick runs the policy its job holds, a manual trigger the stored one.
Tick == Skips(job) \/ \E r \in CronRuns : Admit(r, job)
manualTrigger == Skips(policy) \/ \E r \in CronRuns : Admit(r, policy)

--------------------------------------------------------------------------------
(* runWorkflow after the admission *)

Step(r, from, to) == crun[r].pc = from /\ crun' = [crun EXCEPT ![r] = to]
Quiet == UNCHANGED <<gen, policy, job, skipped, cronCounts>>

\* v1 ignores a failed insert of the history row.
RecordCronRunStarted(r) ==
    /\ Step(r, "admitted", [crun[r] EXCEPT !.pc = "recorded", !.row = "running"])
    /\ UNCHANGED <<slots, hook, robbed>> /\ Quiet

RecordFails(r) ==
    /\ gen = "v2"
    /\ Step(r, "admitted", [crun[r] EXCEPT !.pc = "failed", !.held = FALSE])
    /\ GivesBack(r) /\ UNCHANGED hook /\ Quiet

\* createClawFromWorkflowWithOptions: in v2 its beforeProvision callback creates
\* the run together with the claw.
createClaw(r) ==
    /\ Step(r, "recorded",
            [crun[r] EXCEPT !.pc = "created", !.claw = "up",
                            !.db = IF gen = "v2" THEN "active" ELSE "none"])
    /\ UNCHANGED <<slots, hook, robbed>> /\ Quiet

CreateClawFails(r) ==
    /\ Step(r, "recorded", [crun[r] EXCEPT !.pc = "failing"])
    /\ UNCHANGED <<slots, hook, robbed>> /\ Quiet

\* UpdateCronRunForV2Run; v1 updateRun, which writes 'running' over any status.
LinkRow(r) ==
    /\ Step(r, "created",
            [crun[r] EXCEPT !.pc = "linked", !.linked = TRUE,
                            !.row = IF gen = "v1" THEN "running" ELSE @])
    /\ UNCHANGED <<slots, hook, robbed>> /\ Quiet

\* v2: the row could not be linked, so the creator ends the claw, which cancels
\* the run (workflow_creator.go:287).
LinkFails(r, h) ==
    /\ gen = "v2" /\ hook[h] = Idle
    /\ Step(r, "created", [crun[r] EXCEPT !.pc = "failing", !.claw = "ended"])
    /\ hook' = [hook EXCEPT ![h] = [run |-> r, pc |-> "cancel"]]
    /\ UNCHANGED <<slots, robbed>> /\ Quiet

\* v2 CompleteActivation, of a run that is still pending; v1 the entry in
\* clawWorkflow, whether or not the claw still runs.
Started(r) ==
    /\ gen = "v2" => crun[r].db = "active"
    /\ Step(r, "linked", [crun[r] EXCEPT !.pc = "started", !.tracked = (gen = "v1")])
    /\ UNCHANGED <<slots, hook, robbed>> /\ Quiet

\* v2: the activation fails: CancelActivation, releaseWorkflowV2CronSlot, and the
\* creator ends the claw.
ActivationFails(r, h) ==
    /\ gen = "v2" /\ hook[h] = Idle
    /\ Step(r, "linked", [crun[r] EXCEPT !.pc = "failing",
                             !.db = IF @ = "active" THEN "done" ELSE @])
    /\ hook' = [hook EXCEPT ![h] = [run |-> r, pc |-> "mark"]]
    /\ UNCHANGED <<slots, robbed>> /\ Quiet

\* FailCronRun / failRun; the slot is given back here only if no v2 run exists.
MutFailKeepsSlot(r) ==
    /\ Step(r, "failing", [crun[r] EXCEPT !.pc = "failed",
                              !.row = IF @ = "running" THEN "failed" ELSE @])
    /\ UNCHANGED <<slots, robbed, hook>> /\ Quiet
FailCronRun(r) ==
    /\ Step(r, "failing",
            [crun[r] EXCEPT !.pc = "failed",
                            !.row = IF @ = "running" THEN "failed" ELSE @,
                            !.held = IF crun[r].db = "none" THEN FALSE ELSE @])
    /\ IF crun[r].db = "none" THEN GivesBack(r) ELSE UNCHANGED <<slots, robbed>>
    /\ UNCHANGED hook /\ Quiet

--------------------------------------------------------------------------------
(* The end of a run *)

\* A bridge envelope: it may end the run, and a goroutine looks whether it did
\* (workflow_v2_control_ws.go:125).
Envelope(r, h) ==
    /\ crun[r].claw = "up" /\ crun[r].pc = "started" /\ crun[r].db # "none"
    /\ hook[h] = Idle
    /\ \E s \in {crun[r].db, "done"} : crun' = [crun EXCEPT ![r].db = s]
    /\ hook' = [hook EXCEPT ![h] = [run |-> r, pc |-> "load"]]
    /\ UNCHANGED <<slots, robbed>> /\ Quiet

\* The run ends by a GitHub event, a reconciliation or an effect's outcome.
EventEnds(r) ==
    /\ crun[r].db = "active" /\ crun[r].pc = "started"
    /\ crun' = [crun EXCEPT ![r].db = "done"]
    /\ UNCHANGED <<slots, hook, robbed>> /\ Quiet

\* reapWorkflowV2RunTimeouts
RunTimesOut(r, h) ==
    /\ crun[r].db = "active" /\ crun[r].pc \in {"started", "failed"} /\ hook[h] = Idle
    /\ crun' = [crun EXCEPT ![r].db = "done"]
    /\ hook' = [hook EXCEPT ![h] = [run |-> r, pc |-> "load"]]
    /\ UNCHANGED <<slots, robbed>> /\ Quiet

\* A claw ends for a reason of its own.  v2: cancelWorkflowV2RunForClaw follows.
\* v1: its history row is closed, if linked, and releaseClawWorkflowSlot gives
\* the slot back, if the claw is in clawWorkflow.
ClawEnds(r, h) ==
    /\ crun[r].claw = "up" /\ Quiet
    /\ \/ /\ gen = "v2" /\ hook[h] = Idle
          /\ crun' = [crun EXCEPT ![r].claw = "ended"]
          /\ hook' = [hook EXCEPT ![h] = [run |-> r, pc |-> "cancel"]]
          /\ UNCHANGED <<slots, robbed>>
       \/ /\ gen = "v1"
          /\ crun' = [crun EXCEPT ![r] =
                [crun[r] EXCEPT !.claw = "ended", !.tracked = FALSE,
                                !.row = IF crun[r].linked /\ @ = "running" THEN "finished"
                                        ELSE @,
                                !.held = @ /\ ~crun[r].tracked]]
          /\ IF crun[r].tracked THEN GivesBack(r) ELSE UNCHANGED <<slots, robbed>>
          /\ UNCHANGED hook

HookStep(h, from, to) ==
    /\ hook[h].pc = from
    /\ hook' = [hook EXCEPT ![h] = IF to = "none" THEN Idle ELSE [@ EXCEPT !.pc = to]]
    /\ Quiet

\* cancelWorkflowV2RunForClaw: only an active or suspended run.
HookCancels(h) ==
    LET r == hook[h].run IN
    \/ /\ hook[h].pc = "cancel" /\ crun[r].db = "active"
       /\ HookStep(h, "cancel", "load")
       /\ crun' = [crun EXCEPT ![r].db = "done"]
       /\ UNCHANGED <<slots, robbed>>
    \/ /\ hook[h].pc = "cancel" /\ crun[r].db # "active"
       /\ HookStep(h, "cancel", "none")
       /\ UNCHANGED <<crun, slots, robbed>>

\* maybeFinishWorkflowV2Parent reads the run, and closes its history row.
HookLoads(h) ==
    LET r == hook[h].run IN
    \/ /\ hook[h].pc = "load" /\ crun[r].db = "done"
       /\ HookStep(h, "load", "mark")
       /\ crun' = [crun EXCEPT ![r].row =
                     IF crun[r].linked /\ @ = "running" THEN "finished" ELSE @]
       /\ UNCHANGED <<slots, robbed>>
    \/ /\ hook[h].pc = "load" /\ crun[r].db = "active"
       /\ HookStep(h, "load", "none")
       /\ UNCHANGED <<crun, slots, robbed>>

\* releaseWorkflowV2CronSlot takes the marker, then decrements.
HookMarks(h) ==
    LET r == hook[h].run IN
    /\ hook[h].pc = "mark"
    /\ HookStep(h, "mark", IF crun[r].released THEN "claw" ELSE "dec")
    /\ crun' = [crun EXCEPT ![r].released = TRUE]
    /\ UNCHANGED <<slots, robbed>>

HookDecrements(h) ==
    LET r == hook[h].run IN
    /\ HookStep(h, "dec", "claw")
    /\ crun' = [crun EXCEPT ![r].held = FALSE]
    /\ GivesBack(r)

\* finishClawTerminalTx; a no-op on a claw that has ended.
HookEndsClaw(h) ==
    /\ HookStep(h, "claw", "none")
    /\ crun' = [crun EXCEPT ![hook[h].run].claw = "ended"]
    /\ UNCHANGED <<slots, robbed>>

\* The hub restarts: calls, goroutines and counters are gone; reconcileOnBoot
\* fails the v1 rows whose claw is gone or unknown, the v2 rows stay.
CronRestart ==
    /\ restarts + edits < MaxUpsets
    /\ restarts' = restarts + 1
    /\ slots' = 0 /\ skipped' = FALSE /\ robbed' = FALSE
    /\ job' = policy
    /\ hook' = [h \in Hooks |-> Idle]
    /\ crun' = [r \in CronRuns |->
          [crun[r] EXCEPT !.pc = IF @ \in {"none", "started"} THEN @ ELSE "failed",
                          !.mine = FALSE, !.held = FALSE, !.tracked = FALSE,
                          !.row = IF gen = "v1" /\ @ = "running"
                                      /\ (~crun[r].linked \/ crun[r].claw # "up")
                                  THEN "failed" ELSE @]]
    /\ UNCHANGED <<gen, policy, edits>>

HookNext(h) == HookCancels(h) \/ HookLoads(h) \/ HookMarks(h) \/ HookDecrements(h)
                 \/ HookEndsClaw(h)

RunNext(r) ==
    \/ RecordCronRunStarted(r) \/ RecordFails(r) \/ createClaw(r) \/ CreateClawFails(r)
    \/ LinkRow(r) \/ Started(r) \/ FailCronRun(r) \/ EventEnds(r)
    \/ \E h \in Hooks : \/ LinkFails(r, h) \/ ActivationFails(r, h) \/ Envelope(r, h)
                        \/ RunTimesOut(r, h) \/ ClawEnds(r, h)

CronNext ==
    \/ reloadWorkflows \/ Tick \/ manualTrigger \/ CronRestart
    \/ \E r \in CronRuns : RunNext(r)
    \/ \E h \in Hooks : HookNext(h)

CronSpec == CronInit /\ [][CronNext]_cronVars

--------------------------------------------------------------------------------
(* Properties *)

CronTypeOK ==
    /\ gen \in {"v1", "v2"} /\ policy \in {"skip", "parallel"} /\ job \in {"skip", "parallel"}
    /\ slots \in 0 .. Cardinality(CronRuns)
    /\ \A r \in CronRuns :
         /\ crun[r].pc \in {"none", "admitted", "recorded", "created", "linked", "failing", "failed",
                           "started"}
         /\ crun[r].db \in {"none", "active", "done"}
         /\ crun[r].row \in {"none", "running", "failed", "finished"}
         /\ crun[r].claw \in {"none", "up", "ended"}
    /\ \A h \in Hooks : hook[h] \in [run : CronRuns \cup {0},
                                     pc : {"none", "cancel", "load", "mark", "dec", "claw"}]

\* A run is under way from its admission until its claw (v1) or its workflow run
\* (v2) is over.
UnderWay(r) == \/ crun[r].pc \in {"admitted", "recorded"}
               \/ IF gen = "v2" THEN crun[r].db = "active" ELSE crun[r].claw = "up"

\* The counter never understates the runs this process started: a run under way
\* has its slot, however many goroutines try to end it.  (Only the late slot
\* release of a run of an earlier process can break this, see the README.)
SlotsCoverRuns ==
    robbed \/ slots >= Cardinality({r \in CronRuns : crun[r].mine /\ UnderWay(r)})

\* Under the policy "skip" a run is admitted only when no other run of the
\* workflow is under way: for v2 across restarts, for v1 within a process.
AdmittedAlone ==
    [][\A r \in CronRuns :
          crun[r].pc = "none" /\ crun'[r].pc = "admitted" /\ policy = "skip" /\ job = "skip"
            /\ ~robbed
          => \A q \in CronRuns \ {r} :
                UnderWay(q) => gen = "v1" /\ ~crun[q].mine]_cronVars

\* The counter and the overlap policy it serves.
OverlapRespected == []SlotsCoverRuns /\ AdmittedAlone

\* A slot that a failed start or a noticed end has to give back is given back.
Owed(r) == crun[r].held /\ \/ crun[r].pc = "failing"
                           \/ \E h \in Hooks : /\ hook[h].run = r /\ crun[r].db = "done"
                                               /\ hook[h].pc \in {"load", "mark", "dec"}
SlotComesBack == \A r \in CronRuns : Owed(r) ~> ~crun[r].held
================================================================================
