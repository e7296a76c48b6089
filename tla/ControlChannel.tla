----------------------------- MODULE ControlChannel ----------------------------
(***************************************************************************)
(* The control channel of one execution attempt while it is the run's      *)
(* current one: the hub's control outbox and its handler of                *)
(* /claw/control/ws (pkg/hub/workflow_v2_control_ws.go), a websocket that  *)
(* may break at any moment, and the bridge inside the claw                 *)
(* (cmd/claw-bridge/control_v2.go, exec_tasks.go) with its SQLite journal, *)
(* which survives a restart, and its supervisor and task goroutines, which *)
(* do not.  Both sides resend until a receipt arrives.                     *)
(***************************************************************************)
EXTENDS Naturals, Sequences, FiniteSets

CONSTANTS
    AgentMsgs,      \* agent.task.assign messages; each names its own task
    CommandMsgs,    \* exec.run.assign and dependency.update.assign messages
    CancelMsgs,     \* agent.task.cancel, run.suspend and run.terminate
    CancelTargets,  \* the tasks each of those cancels
    LocalEvents,    \* messages the agent posts to the bridge's /v2/control
    MaxVersion,     \* bound on the run's state version
    MaxEpochs,      \* bound on bridge processes, one after the other
    Timely,         \* the 5 s before a resend are longer than a round trip
    Window          \* bound on frames in flight in one direction

Assignments == AgentMsgs \cup CommandMsgs
Msgs == Assignments \cup CancelMsgs
NoMsg == ""

ASSUME ChannelAssumption ==
    /\ MaxVersion \in Nat \ {0} /\ MaxEpochs \in Nat \ {0}
    /\ Window \in Nat \ {0} /\ Timely \in BOOLEAN
    /\ AgentMsgs \cap CommandMsgs = {} /\ Assignments \cap CancelMsgs = {}
    /\ LocalEvents \cap Msgs = {} /\ NoMsg \notin Msgs
    /\ CancelTargets \in [CancelMsgs -> SUBSET Assignments]

Versions == 1 .. MaxVersion
Epochs == 1 .. MaxEpochs

\* A bridge message has a fresh uuid; a process queues one of each kind per
\* task.  Heartbeats only move a deadline and are left out.
EventIds == (Assignments \X {"started", "completed", "failed"} \X Epochs)
            \cup (LocalEvents \X {"local"} \X {0})

VARIABLES
    \* the hub's tables
    run,        \* workflow_v2_runs: version, status, current task
    tasks,      \* workflow_v2_agent_tasks: status
    outbox,     \* workflow_v2_control_outbox: status
    given,      \* the state version an assignment was queued at
    recorded,   \* workflow_v2_events: disposition of the bridge's messages
    \* the connection
    hubOpen,    \* the hub's handler of the latest connection is running
    down, up,   \* frames in flight, hub to bridge and back
    stale,      \* frames of the connection before, still read by its handler
    hubSends,   \* sendWorkflowV2ControlOutbox: written and not yet marked
    \* the bridge's journal
    inbox,      \* bridge_control_inbox: status
    journal,    \* bridge_control_outbox: status, expected_state_version
    snap,       \* bridge_control_snapshots: the state version
    \* the bridge process
    epoch,      \* which process it is
    recovered,  \* claimRecovery has been called
    sup,        \* where runConnection is
    reply,      \* the receipt it is about to write
    exec,       \* the goroutine of each task
    ctxDone,    \* the task's context has been cancelled
    \* history
    handed,     \* how often a task went to the agent or the shell
    told        \* tasks this process was told to cancel before they began

hub == <<run, tasks, outbox, given, recorded>>
disk == <<inbox, journal, snap>>
process == <<epoch, recovered, sup, reply, exec, ctxDone>>
history == <<handed, told>>
vars == <<run, tasks, outbox, given, recorded, hubOpen, down, up, stale,
          hubSends, inbox, journal, snap, epoch, recovered, sup, reply,
          exec, ctxDone, handed, told>>

Live == {"pending", "sent"}
\* A row of the bridge's outbox that waits for its receipt.  Its "pending" and
\* "sent" differ only in when it is written again, which may be any time here.
Queued == "queued"
LiveTask == {"assigned", "running"}
LiveRun == {"active", "suspended"}
NoReply == [id |-> NoMsg, disposition |-> ""]
NoCancel == [m \in Assignments |-> FALSE]
NoGoroutine == [m \in Assignments |-> "none"]

Registered(v) == [type |-> "registered", version |-> v]
Envelope(id) == [type |-> "envelope", id |-> id]
HubReceipt(e, v) == [type |-> "receipt", id |-> e, version |-> v]
BridgeReceipt(m, d) == [type |-> "receipt", id |-> m, disposition |-> d]

Init ==
    /\ run = [version |-> 1, status |-> "active", task |-> NoMsg]
    /\ tasks = [m \in AgentMsgs |-> "none"]
    /\ outbox = [m \in Msgs |-> "none"]
    /\ given = [m \in Msgs |-> 0]
    /\ recorded = [e \in EventIds |-> "none"]
    /\ hubOpen = FALSE /\ down = <<>> /\ up = <<>> /\ stale = <<>>
    /\ hubSends = NoMsg
    /\ inbox = [m \in Msgs |-> "none"]
    /\ journal = [e \in EventIds |-> [status |-> "none", version |-> 0]]
    /\ snap = 0
    /\ epoch = 1 /\ recovered = FALSE /\ sup = "off" /\ reply = NoReply
    /\ exec = NoGoroutine /\ ctxDone = NoCancel
    /\ handed = [m \in Assignments |-> 0] /\ told = {}

--------------------------------------------------------------------------------
(***************************************************************************)
(* The hub: what the rest of it does to the rows (see WorkflowStore).      *)
(***************************************************************************)
\* MaterializeAgentTask, MaterializeCommandTask, EnqueueControl.
Enqueue(m) ==
    /\ outbox[m] = "none"
    /\ run.status \in (IF m \in CancelMsgs THEN LiveRun ELSE {"active"})
    /\ outbox' = [outbox EXCEPT ![m] = "pending"]
    /\ given' = [given EXCEPT ![m] = run.version]
    /\ \/ /\ m \in AgentMsgs
          /\ tasks' = [tasks EXCEPT ![m] = "assigned"]
          /\ run' = [run EXCEPT !.task = m]
       \/ m \notin AgentMsgs /\ UNCHANGED <<tasks, run>>
    /\ UNCHANGED <<recorded, hubOpen, down, up, stale, hubSends, disk,
                   process, history>>

\* A transition by an event that did not come over this channel.
RunMoves ==
    /\ run.version < MaxVersion
    /\ \E s \in {"active", "ended"} :
          run' = [run EXCEPT !.version = @ + 1, !.status = s]
    /\ UNCHANGED <<tasks, outbox, given, recorded, hubOpen, down, up, stale,
                   hubSends, disk, process, history>>

\* ExpireAgentTasks.
TaskExpires(m) ==
    /\ tasks[m] \in LiveTask
    /\ tasks' = [tasks EXCEPT ![m] = "timed_out"]
    /\ run' = IF run.status = "active" /\ run.task = m
              THEN [run EXCEPT !.status = "suspended"] ELSE run
    /\ UNCHANGED <<outbox, given, recorded, hubOpen, down, up, stale, hubSends,
                   disk, process, history>>

(***************************************************************************)
(* The hub's sender: writes the frame, then marks the row.                 *)
(***************************************************************************)
Among(frames, type, id) ==
    \E i \in 1 .. Len(frames) : frames[i].type = type /\ frames[i].id = id
MessageInFlight(m) == \/ reply.id = m
                      \/ Among(down, "envelope", m)
                      \/ Among(up, "receipt", m)
EventInFlight(e) == Among(up, "envelope", e) \/ Among(down, "receipt", e)

SendControl(m) ==
    /\ Timely => ~MessageInFlight(m)
    /\ hubOpen /\ hubSends = NoMsg
    /\ outbox[m] \in Live
    /\ Len(down) < Window
    /\ down' = Append(down, Envelope(m))
    /\ hubSends' = m
    /\ UNCHANGED <<hub, hubOpen, up, stale, disk, process, history>>

\* Mutant of MarkControlSent: the update is not conditional.
MutantMarkAny ==
    /\ hubSends # NoMsg
    /\ outbox' = [outbox EXCEPT ![hubSends] = "sent"]
    /\ hubSends' = NoMsg
    /\ UNCHANGED <<run, tasks, given, recorded, hubOpen, down, up, stale,
                   disk, process, history>>

MarkControlSent ==
    /\ hubSends # NoMsg
    /\ outbox' = [outbox EXCEPT ![hubSends] = IF @ \in Live THEN "sent" ELSE @]
    /\ hubSends' = NoMsg
    /\ UNCHANGED <<run, tasks, given, recorded, hubOpen, down, up, stale,
                   disk, process, history>>

(***************************************************************************)
(* The hub's reader.  It is the same code for the latest connection and    *)
(* for an earlier one whose handler has not noticed its end.               *)
(***************************************************************************)
\* AcknowledgeControl and rejectControl succeed.
CanAcknowledge(frame) ==
    /\ outbox[frame.id] \in Live
    /\ frame.disposition = "rejected" => run.status \in LiveRun

AcknowledgeControl(frame) ==
    /\ \/ /\ frame.disposition # "rejected"
          /\ outbox' = [outbox EXCEPT ![frame.id] = "acknowledged"]
          /\ UNCHANGED run
       \/ /\ frame.disposition = "rejected"
          /\ outbox' = [outbox EXCEPT ![frame.id] = "cancelled"]
          /\ run' = [run EXCEPT !.status = "suspended"]
    /\ UNCHANGED <<tasks, given, recorded>>

\* Mutant of Authorized: the task's status is not checked.
MutantAnyStatus(e) ==
    e[1] \in AgentMsgs => journal[e].version = given[e[1]]

\* authorizeBoundTask; ApplyCommandReceipt passes no task on.
Authorized(e) ==
    e[1] \in AgentMsgs => /\ run.task = e[1]
                          /\ journal[e].version = given[e[1]]
                          /\ tasks[e[1]] \in LiveTask

\* Mutant of TaskAfter: the kind's suffix is stored as the status.
MutantKindAsStatus(e) ==
    IF e[1] \in AgentMsgs THEN [tasks EXCEPT ![e[1]] = e[2]] ELSE tasks

\* updateBoundTask.
TaskAfter(e) ==
    IF e[1] \in AgentMsgs
    THEN [tasks EXCEPT ![e[1]] = IF e[2] = "started" THEN "running" ELSE e[2]]
    ELSE tasks
CurrentTaskAfter(e) ==
    IF e[1] \in AgentMsgs /\ e[2] # "started" THEN NoMsg ELSE run.task

\* What the agent posts may carry no version, name the current task or be
\* malformed: the hub may take it or refuse it in any state.
Applicable(e) ==
    e[1] \in LocalEvents \/ (Authorized(e) /\ journal[e].version = run.version)
Refusable(e) == e[1] \in LocalEvents \/ ~Applicable(e)

\* ApplyAgentControl, ApplyDeliveryControl, ApplyCommandReceipt and
\* RejectAgentControl: a message already recorded, one accepted in place, one
\* accepted with a transition, one that suspends the run, one refused.
ApplyControl(e) ==
    /\ \/ recorded[e] # "none" /\ UNCHANGED <<run, tasks, recorded>>
       \/ /\ recorded[e] = "none" /\ Applicable(e)
          /\ recorded' = [recorded EXCEPT ![e] = "accepted"]
          /\ tasks' = TaskAfter(e)
          /\ \/ run' = [run EXCEPT !.task = CurrentTaskAfter(e)]
             \/ /\ run.version < MaxVersion
                /\ \E s \in {"active", "ended"} :
                      run' = [version |-> run.version + 1, status |-> s,
                              task |-> CurrentTaskAfter(e)]
       \/ /\ recorded[e] = "none" /\ Applicable(e)
          /\ recorded' = [recorded EXCEPT ![e] = "refused"]
          /\ run' = [run EXCEPT !.status = "suspended"]
          /\ UNCHANGED tasks
       \/ /\ recorded[e] = "none" /\ Refusable(e)
          /\ recorded' = [recorded EXCEPT ![e] = "refused"]
          /\ UNCHANGED <<run, tasks>>
    /\ UNCHANGED <<outbox, given>>

HubReads ==
    /\ hubOpen /\ up # <<>>
    /\ LET frame == Head(up) IN
       \/ /\ frame.type = "receipt" /\ CanAcknowledge(frame)
          /\ AcknowledgeControl(frame)
          /\ up' = Tail(up)
          /\ UNCHANGED <<hubOpen, down>>
       \/ /\ frame.type = "receipt" /\ ~CanAcknowledge(frame)
          /\ hubOpen' = FALSE /\ up' = <<>>
          /\ UNCHANGED <<hub, down>>
       \/ /\ frame.type = "envelope" /\ Len(down) < Window
          /\ ApplyControl(frame.id)
          /\ up' = Tail(up)
          /\ down' = Append(down, HubReceipt(frame.id, run'.version))
          /\ UNCHANGED hubOpen
    /\ UNCHANGED <<stale, hubSends, disk, process, history>>

\* The handler of the connection before: its receipts reach nobody.
StaleHandlerReads ==
    /\ stale # <<>>
    /\ LET frame == Head(stale) IN
       \/ /\ frame.type = "receipt" /\ CanAcknowledge(frame)
          /\ AcknowledgeControl(frame)
          /\ stale' = Tail(stale)
       \/ /\ frame.type = "receipt" /\ ~CanAcknowledge(frame)
          /\ stale' = <<>>
          /\ UNCHANGED hub
       \/ /\ frame.type = "envelope"
          /\ ApplyControl(frame.id)
          /\ stale' = Tail(stale)
    /\ UNCHANGED <<hubOpen, down, up, hubSends, disk, process, history>>

StaleHandlerEnds ==
    /\ stale # <<>>
    /\ stale' = <<>>
    /\ UNCHANGED <<hub, hubOpen, down, up, hubSends, disk, process,
                   history>>

--------------------------------------------------------------------------------
(***************************************************************************)
(* The connection.                                                         *)
(***************************************************************************)
\* runConnection up to the registration frame, and the hub's answer to it.
Connect ==
    /\ sup = "off"
    /\ sup' = "dialed"
    /\ hubOpen' = TRUE /\ up' = <<>>
    /\ down' = <<Registered(run.version)>>
    /\ UNCHANGED <<hub, stale, hubSends, disk, epoch, recovered, reply,
                   exec, ctxDone, history>>

\* The bridge's end is gone.  The hub's handler may still read what arrived.
Abandon ==
    /\ sup' = "off" /\ reply' = NoReply
    /\ down' = <<>> /\ up' = <<>> /\ hubOpen' = FALSE
    /\ stale' = IF hubOpen THEN up ELSE stale

\* What the bridge notices by itself: the hub has closed, or both readers wait
\* for the other to read and a write times out.
Broken == \/ ~hubOpen
          \/ /\ sup = "replying" /\ Len(up) = Window /\ Len(down) = Window
             /\ Head(up).type = "envelope"

\* runConnection returns: a read or write failed, or a write timed out because
\* the hub, itself writing, does not read.  A receipt that could not be
\* written leaves its agent task accepted and not started.  recoverInterrupted
\* does not look at the connection.
Disconnect ==
    /\ sup \in {"dialed", "reading", "replying"}
    /\ Abandon
    /\ UNCHANGED <<hub, hubSends, disk, epoch, recovered, exec, ctxDone,
                   history>>

\* The hub process stops, or its side of the connection fails.
HubDisconnects ==
    /\ hubOpen
    /\ hubOpen' = FALSE /\ up' = <<>> /\ stale' = <<>> /\ hubSends' = NoMsg
    /\ UNCHANGED <<hub, down, disk, process, history>>

\* The bridge process dies and another starts on the same journal.
BridgeRestarts ==
    /\ epoch < MaxEpochs
    /\ epoch' = epoch + 1
    /\ Abandon
    /\ recovered' = FALSE
    /\ exec' = NoGoroutine /\ ctxDone' = NoCancel /\ told' = {}
    /\ UNCHANGED <<hub, hubSends, disk, handed>>

--------------------------------------------------------------------------------
(***************************************************************************)
(* The bridge's reader.                                                    *)
(***************************************************************************)
ReadRegistered ==
    /\ sup = "dialed" /\ down # <<>>
    /\ snap' = Head(down).version
    /\ down' = Tail(down)
    /\ sup' = IF recovered THEN "reading" ELSE "recovering"
    /\ recovered' = TRUE
    /\ UNCHANGED <<hub, hubOpen, up, stale, hubSends, inbox, journal,
                   epoch, reply, exec, ctxDone, history>>

\* acknowledge and updateReceiptVersion; a second receipt ends the connection.
ReadReceipt ==
    /\ sup = "reading" /\ down # <<>> /\ Head(down).type = "receipt"
    /\ LET e == Head(down).id  v == Head(down).version IN
       \/ /\ journal[e].status = Queued
          /\ journal' = [journal EXCEPT ![e].status = "acknowledged"]
          /\ snap' = IF v > snap THEN v ELSE snap
          /\ down' = Tail(down)
          /\ UNCHANGED <<hubOpen, up, stale, sup, reply>>
       \/ /\ journal[e].status # Queued
          /\ Abandon
          /\ UNCHANGED <<journal, snap>>
    /\ UNCHANGED <<hub, hubSends, inbox, epoch, recovered, exec, ctxDone,
                   history>>

Outdated(m) == m \in AgentMsgs /\ given[m] < snap

\* Mutant of InActiveTasks: the agent's task registers when it is running.
MutantRegisterLate(m) == exec[m] = "working"

\* activeTasks: startTask registers an agent task on the reader's path, a
\* command task registers itself once it has claimed its message.
InActiveTasks(m) ==
    IF m \in AgentMsgs THEN exec[m] # "none"
    ELSE exec[m] \in {"working", "completing", "failing"}

\* Mutant of Journaled: recordIncoming does not insert.
MutantNotJournaled(m) == inbox

\* recordIncoming, which inserts a message once.
Journaled(m) == [inbox EXCEPT ![m] = "accepted"]

Duplicate(m) == inbox[m] # "none"

CancelledBy(m) == IF m \in CancelMsgs THEN CancelTargets[m] ELSE {}

\* acceptHubEnvelope.
ReadEnvelope(m) ==
    /\ sup = "reading" /\ down # <<>> /\ Head(down) = Envelope(m)
    /\ down' = Tail(down)
    /\ sup' = "replying"
    /\ \/ /\ Outdated(m)
          /\ reply' = [id |-> m, disposition |-> "rejected"]
          /\ UNCHANGED <<inbox, snap, exec, ctxDone, told>>
       \/ /\ ~Outdated(m) /\ Duplicate(m)
          /\ reply' = [id |-> m, disposition |-> "duplicate"]
          /\ UNCHANGED <<inbox, snap, exec, ctxDone, told>>
       \/ /\ ~Outdated(m) /\ ~Duplicate(m)
          /\ reply' = [id |-> m, disposition |-> "accepted"]
          /\ inbox' = Journaled(m)
          /\ snap' = IF m \in AgentMsgs THEN given[m] ELSE snap
          /\ exec' = [t \in Assignments |-> IF t = m /\ m \in CommandMsgs
                                            THEN "spawned" ELSE exec[t]]
          /\ ctxDone' = [t \in Assignments |->
                ctxDone[t] \/ (t \in CancelledBy(m) /\ InActiveTasks(t))]
          /\ told' = told \cup {t \in CancelledBy(m) \cap AgentMsgs :
                                   exec[t] \in {"spawned", "claimed"}}
    /\ UNCHANGED <<hub, hubOpen, up, stale, hubSends, journal, epoch,
                   recovered, handed>>

\* The receipt is written; then an accepted agent task is started.
WriteReceipt ==
    /\ sup = "replying"
    /\ hubOpen => Len(up) < Window
    /\ up' = IF hubOpen
             THEN Append(up, BridgeReceipt(reply.id, reply.disposition)) ELSE up
    /\ exec' = [t \in Assignments |->
          IF t = reply.id /\ t \in AgentMsgs /\ reply.disposition = "accepted"
          THEN "spawned" ELSE exec[t]]
    /\ sup' = "reading" /\ reply' = NoReply
    /\ UNCHANGED <<hub, hubOpen, down, stale, hubSends, disk, epoch,
                   recovered, ctxDone, history>>

(***************************************************************************)
(* The bridge's sender.                                                    *)
(***************************************************************************)
\* Mutant of Resendable: what was queued at an earlier version is not sent.
MutantCurrentOnly(e) == journal[e].status = Queued /\ journal[e].version = snap

\* ready: the rows that wait for a receipt.
Resendable(e) == journal[e].status = Queued

SendEvent(e) ==
    /\ sup \in {"reading", "replying"}
    /\ Resendable(e)
    /\ Timely => ~EventInFlight(e)
    /\ hubOpen => Len(up) < Window
    /\ up' = IF hubOpen THEN Append(up, Envelope(e)) ELSE up
    /\ UNCHANGED <<hub, hubOpen, down, stale, hubSends, disk, process, history>>

--------------------------------------------------------------------------------
(***************************************************************************)
(* Task goroutines: claim, begin, finish, record; any two may be separated *)
(* by the end of the process.                                              *)
(***************************************************************************)
Queue(e, v) == [journal EXCEPT ![e] = [status |-> Queued, version |-> v]]

\* enqueueTaskEvent uses the task's version, enqueueCommandEvent the snapshot's.
EventVersion(m) == IF m \in AgentMsgs THEN given[m] ELSE snap

\* setIncomingStatus(accepted, running).
Claim(m) ==
    /\ exec[m] = "spawned" /\ inbox[m] = "accepted"
    /\ inbox' = [inbox EXCEPT ![m] = "running"]
    /\ exec' = [exec EXCEPT ![m] = "claimed"]
    /\ UNCHANGED <<hub, hubOpen, down, up, stale, hubSends, journal,
                   snap, epoch, recovered, sup, reply, ctxDone, history>>

\* The gateway is not ready, or the command cannot be decoded.
CannotBegin(m) ==
    /\ exec[m] = "claimed"
    /\ journal' = Queue(<<m, "failed", epoch>>, EventVersion(m))
    /\ exec' = [exec EXCEPT ![m] = "failing"]
    /\ UNCHANGED <<hub, hubOpen, down, up, stale, hubSends, inbox, snap,
                   epoch, recovered, sup, reply, ctxDone, history>>

\* SendMessage or cmd.Run is called; a context that is already cancelled makes
\* SendMessage fail.
Begin(m) ==
    /\ exec[m] = "claimed"
    /\ journal' = IF m \in AgentMsgs
                  THEN Queue(<<m, "started", epoch>>, EventVersion(m))
                  ELSE journal
    /\ exec' = [exec EXCEPT ![m] = IF ctxDone[m] THEN "aborted" ELSE "working"]
    /\ handed' = [handed EXCEPT ![m] = @ + 1]
    /\ UNCHANGED <<hub, hubOpen, down, up, stale, hubSends, inbox, snap,
                   epoch, recovered, sup, reply, ctxDone, told>>

\* The turn or the command ends and its outcome is queued.
Finish(m, kind) ==
    /\ \/ exec[m] = "working"
       \/ exec[m] = "aborted" /\ kind = "failed"
    /\ journal' = Queue(<<m, kind, epoch>>, EventVersion(m))
    /\ exec' = [exec EXCEPT ![m] = IF m \in AgentMsgs /\ kind = "failed"
                                   THEN "failing" ELSE "completing"]
    /\ UNCHANGED <<hub, hubOpen, down, up, stale, hubSends, inbox, snap,
                   epoch, recovered, sup, reply, ctxDone, history>>

\* setIncomingStatus(running, completed or failed), and the goroutine ends.
RecordOutcome(m) ==
    /\ exec[m] \in {"completing", "failing"}
    /\ inbox' = [inbox EXCEPT ![m] =
          IF exec[m] = "completing" THEN "completed" ELSE "failed"]
    /\ exec' = [exec EXCEPT ![m] = "none"]
    /\ ctxDone' = [ctxDone EXCEPT ![m] = FALSE]
    /\ UNCHANGED <<hub, hubOpen, down, up, stale, hubSends, journal,
                   snap, epoch, recovered, sup, reply, history>>

(***************************************************************************)
(* recoverInterrupted, on the first connection of a process: agent tasks   *)
(* that were running are reported failed, one after the other; then those  *)
(* that were only accepted are started.  Commands are passed over.         *)
(***************************************************************************)
\* Mutant of Interrupted: tasks found running are passed over.
MutantNoneInterrupted == {}

Interrupted == {m \in AgentMsgs : inbox[m] = "running"}
NotStarted == {m \in AgentMsgs : inbox[m] = "accepted" /\ exec[m] = "none"}

\* Mutant of FailInterrupted: interrupted tasks are started again.
MutantRestart(m) ==
    /\ sup = "recovering" /\ m \in Interrupted /\ exec[m] = "none"
    /\ exec' = [exec EXCEPT ![m] = "claimed"]
    /\ UNCHANGED <<hub, hubOpen, down, up, stale, hubSends, disk, epoch,
                   recovered, sup, reply, ctxDone, history>>

FailInterrupted(m) ==
    /\ sup = "recovering" /\ m \in Interrupted /\ exec[m] = "none"
    /\ \A t \in AgentMsgs : exec[t] # "failing"
    /\ journal' = Queue(<<m, "failed", epoch>>, EventVersion(m))
    /\ exec' = [exec EXCEPT ![m] = "failing"]
    /\ UNCHANGED <<hub, hubOpen, down, up, stale, hubSends, inbox, snap,
                   epoch, recovered, sup, reply, ctxDone, history>>

EndRecovery ==
    /\ sup = "recovering" /\ Interrupted = {}
    /\ exec' = [m \in Assignments |-> IF m \in NotStarted THEN "spawned"
                                      ELSE exec[m]]
    /\ sup' = "reading"
    /\ UNCHANGED <<hub, hubOpen, down, up, stale, hubSends, disk, epoch,
                   recovered, reply, ctxDone, history>>

\* ServeHTTP, POST: a message of the agent's own, at the snapshot's version.
PostLocal(e) ==
    /\ e[1] \in LocalEvents /\ journal[e].status = "none"
    /\ snap > 0
    /\ journal' = Queue(e, snap)
    /\ UNCHANGED <<hub, hubOpen, down, up, stale, hubSends, inbox, snap,
                   process, history>>

--------------------------------------------------------------------------------
HubStep ==
    \/ \E m \in Msgs : Enqueue(m)
    \/ RunMoves
    \/ \E m \in AgentMsgs : TaskExpires(m)
    \/ \E m \in Msgs : SendControl(m)
    \/ MarkControlSent
    \/ HubReads
    \/ StaleHandlerReads
    \/ StaleHandlerEnds
    \/ HubDisconnects

TaskStep ==
    \/ \E m \in Assignments : Claim(m)
    \/ \E m \in Assignments : CannotBegin(m)
    \/ \E m \in Assignments : Begin(m)
    \/ \E m \in Assignments, kind \in {"completed", "failed"} : Finish(m, kind)
    \/ \E m \in Assignments : RecordOutcome(m)

BridgeStep ==
    \/ Connect
    \/ Disconnect
    \/ BridgeRestarts
    \/ ReadRegistered
    \/ ReadReceipt
    \/ \E m \in Msgs : ReadEnvelope(m)
    \/ WriteReceipt
    \/ \E e \in EventIds : SendEvent(e)
    \/ \E m \in AgentMsgs : FailInterrupted(m)
    \/ EndRecovery
    \/ \E e \in EventIds : PostLocal(e)

Next == HubStep \/ BridgeStep \/ TaskStep

Spec == Init /\ [][Next]_vars

--------------------------------------------------------------------------------
(***************************************************************************)
(* Properties.                                                             *)
(***************************************************************************)
DownFrames == [type : {"registered"}, version : Versions]
              \cup [type : {"envelope"}, id : Msgs]
              \cup [type : {"receipt"}, id : EventIds, version : Versions]
UpFrames == [type : {"envelope"}, id : EventIds]
            \cup [type : {"receipt"}, id : Msgs,
                  disposition : {"accepted", "duplicate", "rejected"}]
Replies == [id : Msgs, disposition : {"accepted", "duplicate", "rejected"}]

HubTypeOK ==
    /\ run \in [version : Versions, status : LiveRun \cup {"ended"},
                task : AgentMsgs \cup {NoMsg}]
    /\ tasks \in [AgentMsgs -> LiveTask \cup {"none", "completed", "failed",
                                              "timed_out"}]
    /\ outbox \in [Msgs -> Live \cup {"none", "acknowledged", "cancelled"}]
    /\ given \in [Msgs -> 0 .. MaxVersion]
    /\ recorded \in [EventIds -> {"none", "accepted", "refused"}]

LinkTypeOK ==
    /\ hubOpen \in BOOLEAN
    /\ down \in Seq(DownFrames) /\ up \in Seq(UpFrames)
    /\ stale \in Seq(UpFrames)
    /\ hubSends \in Msgs \cup {NoMsg}

BridgeTypeOK ==
    /\ inbox \in [Msgs -> {"none", "accepted", "running", "completed",
                           "failed"}]
    /\ journal \in [EventIds -> [status : {Queued, "none", "acknowledged"},
                                 version : 0 .. MaxVersion]]
    /\ snap \in 0 .. MaxVersion
    /\ epoch \in Epochs /\ recovered \in BOOLEAN
    /\ sup \in {"off", "dialed", "recovering", "reading", "replying"}
    /\ reply \in Replies \cup {NoReply}
    /\ exec \in [Assignments -> {"none", "spawned", "claimed", "working",
                                 "aborted", "completing", "failing"}]
    /\ ctxDone \in [Assignments -> BOOLEAN]
    /\ handed \in [Assignments -> Nat]
    /\ told \subseteq AgentMsgs

\* The rows of both databases, the frames in flight and what the two processes
\* keep in memory have values of the kinds the code writes.
TypeOK == HubTypeOK /\ LinkTypeOK /\ BridgeTypeOK

\* An assignment reaches the agent or the shell at most once, however often
\* it is resent, the connection breaks or the bridge restarts.
HandedOverOnce == \A m \in Assignments : handed[m] <= 1

\* Neither side settles a message the other does not hold durably: an
\* acknowledged assignment is in the bridge's journal, an acknowledged event
\* in the hub's table.
AcknowledgedIsHeld ==
    /\ \A m \in Msgs : outbox[m] = "acknowledged" => inbox[m] # "none"
    /\ \A e \in EventIds : journal[e].status = "acknowledged"
                              => recorded[e] # "none"

\* A message the hub has settled is never live again, although the sender
\* marks it after it was written, when its receipt may already be in.
SettledStaysSettled ==
    [][\A m \in Msgs : outbox[m] \in {"acknowledged", "cancelled"}
                          => outbox'[m] = outbox[m]]_vars

\* The hub takes at most one outcome of an agent task, although a restart
\* between queueing the outcome and journaling it queues a second, possibly
\* contrary one; and it takes "completed" only for work that was handed over.
OneOutcome ==
    \A m \in AgentMsgs :
        /\ Cardinality({e \in EventIds : /\ e[1] = m /\ e[2] # "started"
                                         /\ recorded[e] = "accepted"}) <= 1
        /\ tasks[m] = "completed" => handed[m] = 1

\* The bridge never believes in a later state than the hub is in, so the only
\* assignments it turns down are those a transition has overtaken.
RejectedWasOvertaken ==
    /\ snap <= run.version
    /\ \A m \in Msgs : outbox[m] = "cancelled" => given[m] < run.version

\* What either side is told of a message is true: acknowledged means held
\* durably by the other side, rejected means overtaken by a transition.
AnswersAreTrue == AcknowledgedIsHeld /\ RejectedWasOvertaken

\* The state version the bridge works with never goes back, although it is
\* set by registrations, receipts and assignments.
SnapshotMonotone == [][snap' >= snap]_vars

\* An agent task whose cancellation was read after its assignment and before
\* its turn began never reports completion from this process.
CancelledNeverCompletes ==
    \A t \in told : journal[<<t, "completed", epoch>>].status = "none"

(***************************************************************************)
(* Fairness.  A bridge process keeps dialing and recovers on its first     *)
(* connection; tasks have deadlines, so their goroutines end.  On a        *)
(* connection both sides read, and both senders go through all their rows. *)
(***************************************************************************)
\* The environment breaks a connection that was working.
Breaks == HubDisconnects \/ (~Broken /\ Disconnect)

ProcessFairness ==
    /\ WF_vars(Connect) /\ WF_vars(ReadRegistered)
    /\ WF_vars(Broken /\ Disconnect)
    /\ WF_vars(EndRecovery) /\ WF_vars(\E m \in AgentMsgs : FailInterrupted(m))
    /\ WF_vars(TaskStep)

LinkFairness ==
    /\ WF_vars(ReadReceipt) /\ WF_vars(WriteReceipt)
    /\ WF_vars(\E m \in Msgs : ReadEnvelope(m))
    /\ WF_vars(HubReads) /\ WF_vars(MarkControlSent)
    /\ \A e \in EventIds : SF_vars(SendEvent(e))

Calm == <>[][~Breaks]_vars

ProcessSpec == Spec /\ ProcessFairness /\ Calm
FairSpec == Spec /\ ProcessFairness /\ LinkFairness /\ Calm

\* An agent task that has begun is reported, even if its process dies.
BegunIsReported ==
    \A m \in AgentMsgs : (inbox[m] = "running")
                            ~> (inbox[m] \in {"completed", "failed"})

\* What the bridge has queued reaches the hub.
QueuedIsDelivered ==
    \A e \in EventIds : (journal[e].status = Queued)
                           ~> (journal[e].status = "acknowledged")
================================================================================
