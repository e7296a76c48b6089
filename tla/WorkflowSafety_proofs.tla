------------------------- MODULE WorkflowSafety_proofs -------------------------
(***************************************************************************)
(* Theorems about WorkflowStore, for every document and all bounds.        *)
(* Type correctness comes first: the first lemmas say which changes keep a *)
(* row a row, and after them the row sets stay unexpanded; ApplyEvent's    *)
(* branches are treated once, for all the operations that reach them.      *)
(* The safety theorems follow.  Every operation that reaches ApplyEvent or *)
(* ApplyCommand leaves the same frame behind, EventFrame; their invariants *)
(* need nothing else about them, so each proof treats them as one case.    *)
(* Effects come last, with the refinement of EffectLedger.                 *)
(***************************************************************************)
EXTENDS WorkflowStore, TLAPS

\* The bounds are natural numbers.
LEMMA BoundsNat ==
    /\ MaxVersion \in Nat /\ MaxVersion >= 1
    /\ MaxAttempts \in Nat /\ MaxAttempts >= 1
    /\ MaxTries \in Nat /\ MaxTasks \in Nat /\ MaxMessages \in Nat
BY BoundsAssumption

--------------------------------------------------------------------------------
(***************************************************************************)
(* Rows.                                                                   *)
(***************************************************************************)
\* A run row keeps its type under each kind of update the code makes.
LEMMA RunRow ==
    ASSUME NEW r \in RunRows
    PROVE  /\ \A s \in RunStatuses, y \in {"", "activation", "reason"} :
                [r EXCEPT !.status = s, !.waiting = y] \in RunRows
           /\ \A t \in Tasks \cup {Nobody} : [r EXCEPT !.task = t] \in RunRows
           /\ \A n \in Attempts, t \in Tasks \cup {Nobody} :
                [r EXCEPT !.attempt = n, !.task = t] \in RunRows
           /\ [r EXCEPT !.ctx = TRUE] \in RunRows
           /\ \A s \in RunStatuses, y \in {"", "activation", "reason"} :
                [r EXCEPT !.status = s, !.waiting = y, !.task = Nobody]
                  \in RunRows
BY DEF RunRows

\* The fields of a run row.
LEMMA RunFields ==
    ASSUME RowsOK
    PROVE  /\ run.state \in States /\ run.version \in Versions
           /\ run.attempt \in Attempts /\ run.task \in Tasks \cup {Nobody}
           /\ run.status \in RunStatuses
BY DEF RowsOK, RunRows

\* An effect row keeps its type under each kind of update the code makes.
LEMMA EffectRow ==
    ASSUME NEW r \in EffectRows, NEW s \in EffectStatuses
    PROVE  /\ [r EXCEPT !.status = s] \in EffectRows
           /\ [r EXCEPT !.status = s, !.owner = NoWorker] \in EffectRows
           /\ [r EXCEPT !.status = s, !.owner = NoWorker, !.lease = FALSE]
                \in EffectRows
           /\ [r EXCEPT !.lease = FALSE] \in EffectRows
BY DEF EffectRows

\* The rows scheduleEffects and ClaimEffect write.
LEMMA NewEffectRows ==
    /\ Planned \in EffectRows /\ Absent \in EffectRows
    /\ \A n \in 0 .. MaxTries, w \in Workers :
          [status |-> "running", count |-> n, owner |-> w, lease |-> TRUE]
            \in EffectRows
BY BoundsNat DEF Planned, Absent, EffectRows, EffectStatuses, TryStatuses

\* A task or message row whose status changes is still a row.
LEMMA StatusUpdate ==
    /\ \A r \in TaskRows, s \in TaskStatuses : [r EXCEPT !.status = s] \in TaskRows
    /\ \A r \in MessageRows, s \in MessageStatuses :
          [r EXCEPT !.status = s] \in MessageRows
BY DEF TaskRows, MessageRows

\* updateBoundTask writes a task status the table knows.
LEMMA TaskStatusType ==
    ASSUME NEW kind, NEW s \in TaskStatuses
    PROVE  TaskStatusAfter(kind, s) \in TaskStatuses
BY DEF TaskStatusAfter, TaskStatuses, LiveTask

\* scheduleEffects only turns absent rows into planned ones.
LEMMA ScheduleType ==
    ASSUME RowsOK, NEW e, NEW defs
    PROVE  ScheduleEffects(e, defs) \in [EffectKeys -> EffectRows]
BY NewEffectRows DEF ScheduleEffects, RowsOK

\* The bound task's row stays a row.
LEMMA BoundTaskType ==
    ASSUME RowsOK, NEW kind, NEW task
    PROVE  /\ UpdateBoundTask(kind, task) \in [Tasks -> TaskRows]
           /\ CurrentTaskAfter(kind, task) \in Tasks \cup {Nobody}
<1>1. \A t \in Tasks :
        [tasks[t] EXCEPT !.status = TaskStatusAfter(kind, @)] \in TaskRows
  <2> TAKE t \in Tasks
  <2>1. tasks[t] \in TaskRows /\ tasks[t].status \in TaskStatuses
    BY DEF RowsOK, TaskRows
  <2> QED
    BY <2>1, TaskStatusType, StatusUpdate
<1>2. CurrentTaskAfter(kind, task) \in Tasks \cup {Nobody}
  BY RunFields DEF CurrentTaskAfter
<1> QED
  BY <1>1, <1>2 DEF UpdateBoundTask, RowsOK

\* The rows a claim sweep leaves behind.
LEMMA ExpireType ==
    ASSUME RowsOK
    PROVE  /\ ExpireEffects \in [EffectKeys -> EffectRows]
           /\ ExpireTries \in [EffectKeys -> [Tries -> TryStatuses]]
<1>1. "unknown" \in EffectStatuses /\ "unknown" \in TryStatuses
  BY DEF EffectStatuses, TryStatuses
<1>2. ExpireEffects \in [EffectKeys -> EffectRows]
  BY <1>1, EffectRow DEF RowsOK, ExpireEffects
<1>3. ExpireTries \in [EffectKeys -> [Tries -> TryStatuses]]
  BY <1>1 DEF RowsOK, ExpireTries
<1> QED
  BY <1>2, <1>3

\* Withdrawn messages stay rows of the outbox.
LEMMA WithdrawType ==
    ASSUME RowsOK
    PROVE  WithdrawMessages \in [Messages -> MessageRows]
<1>1. "cancelled" \in MessageStatuses
  BY DEF MessageStatuses
<1> QED
  BY <1>1, StatusUpdate DEF RowsOK, WithdrawMessages

--------------------------------------------------------------------------------
(***************************************************************************)
(* Operations.                                                             *)
(***************************************************************************)
\* rejectAndSuspend.
LEMMA RejectType ==
    ASSUME RowsOK, NEW e \in EventIds, RejectAndSuspend(e)
    PROVE  RowsOK'
<1>1. run' \in RunRows
  BY RunRow DEF RejectAndSuspend, RowsOK, RunStatuses
<1> QED
  BY <1>1 DEF RejectAndSuspend, RowsOK

\* applyTransition.
LEMMA TransitionType ==
    ASSUME RowsOK, NEW e \in EventIds, NEW to \in States, NEW defs, NEW kind,
           NEW task, ApplyTransition(e, to, defs, kind, task)
    PROVE  RowsOK'
<1>1. CASE RejectAndSuspend(e)
  BY <1>1, RejectType
<1>2. CASE Advance(e, to, defs, kind, task)
  <2>1. /\ run.version < MaxVersion
        /\ transitions' = transitions \cup
              {[event |-> e, from |-> run.state, to |-> to,
                version |-> run.version + 1]}
    BY <1>2 DEF Advance
  <2>2. run.version + 1 \in Versions
    BY <2>1, RunFields, BoundsNat DEF Versions
  <2>3. run' \in RunRows
    BY <1>2, <2>2, BoundTaskType
       DEF Advance, RowsOK, RunRows, RunStatuses, TerminalRunStatus
  <2>4. transitions' \subseteq LedgerRows
    <3>1. [event |-> e, from |-> run.state, to |-> to,
           version |-> run.version + 1] \in LedgerRows
      BY <2>2, RunFields DEF LedgerRows
    <3> QED
      BY <2>1, <3>1 DEF RowsOK
  <2>5. effects' \in [EffectKeys -> EffectRows]
    BY <1>2, ScheduleType DEF Advance, RowsOK
  <2> QED
    BY <1>2, <2>3, <2>4, <2>5, BoundTaskType DEF Advance, RowsOK
<1> QED
  BY <1>1, <1>2 DEF ApplyTransition

\* Whatever ApplyEvent decides, the rows keep their types.
LEMMA EvaluateType ==
    ASSUME RowsOK, NEW e \in EventIds, NEW kind, NEW task,
           EvaluateEvent(e, kind, task)
    PROVE  RowsOK'
<1>1. ASSUME NEW defs, AcceptInPlace(e, defs, kind, task)
      PROVE  RowsOK'
  <2>1. run' \in RunRows
    BY <1>1, RunRow, BoundTaskType DEF AcceptInPlace, RowsOK
  <2> QED
    BY <1>1, <2>1, ScheduleType, BoundTaskType DEF AcceptInPlace, RowsOK
<1>2. \A t \in Listeners(kind) : t.to \in States
  BY WorkflowAssumption DEF Listeners, ValidWorkflow, TransitionDefs
<1> QED
  BY <1>1, <1>2, RejectType, TransitionType DEF EvaluateEvent

\* An event that is only recorded.
LEMMA RecordType ==
    ASSUME RowsOK, NEW e \in EventIds,
           NEW d \in {"accepted", "rejected", "stale_state", "unauthorized"},
           RecordEvent(e, d)
    PROVE  RowsOK'
BY DEF RecordEvent, RowsOK

\* ApplyEvent as a whole.
LEMMA ApplyEventType ==
    ASSUME RowsOK, NEW e \in EventIds, NEW kind, NEW task, NEW expected,
           ApplyEvent(e, kind, task, expected)
    PROVE  RowsOK'
BY EvaluateType, RecordType DEF ApplyEvent

\* A claim in memory refers to an effect row and to one of its attempts.
LEMMA ClaimedType ==
    ASSUME MemoryOK, NEW w \in Workers, worker[w].pc = "claimed"
    PROVE  worker[w].key \in EffectKeys /\ worker[w].try \in Tries
BY DEF MemoryOK, Claims

\* Settle writes rows, and forgets the claim.
LEMMA SettleType ==
    ASSUME TypeOK, NEW w \in Workers, worker[w].pc = "claimed",
           NEW s \in TryStatuses, Settle(w, s)
    PROVE  /\ effects' \in [EffectKeys -> EffectRows]
           /\ tries' \in [EffectKeys -> [Tries -> TryStatuses]]
           /\ worker' \in [Workers -> Claims]
<1> DEFINE k == worker[w].key
<1>1. k \in EffectKeys /\ worker[w].try \in Tries
  BY ClaimedType DEF TypeOK
<1>2. Idle \in Claims
  BY DEF Idle, Claims
<1>3. s \in EffectStatuses
  BY DEF EffectStatuses
<1>4. effects' \in [EffectKeys -> EffectRows]
  <2>1. effects' = [effects EXCEPT ![k] = [effects[k] EXCEPT
                      !.status = s, !.owner = NoWorker, !.lease = FALSE]]
    BY <1>1 DEF Settle, TypeOK, RowsOK, EffectRows
  <2>2. [effects[k] EXCEPT !.status = s, !.owner = NoWorker, !.lease = FALSE]
          \in EffectRows
    BY <1>1, <1>3, EffectRow DEF TypeOK, RowsOK
  <2> QED
    BY <1>1, <2>1, <2>2 DEF TypeOK, RowsOK
<1>5. tries' \in [EffectKeys -> [Tries -> TryStatuses]]
  BY <1>1 DEF Settle, TypeOK, RowsOK
<1>6. worker' \in [Workers -> Claims]
  BY <1>2 DEF Settle, TypeOK, MemoryOK
<1> QED
  BY <1>4, <1>5, <1>6

\* CancelActivation closes rows; it makes none.
LEMMA CancelType ==
    ASSUME RowsOK, CancelActivation
    PROVE  RowsOK'
<1>1. /\ "cancelled" \in RunStatuses /\ "cancelled" \in EffectStatuses
      /\ "cancelled" \in TryStatuses /\ "cancelled" \in TaskStatuses
  BY DEF RunStatuses, EffectStatuses, TryStatuses, TaskStatuses
<1>2. run' \in RunRows
  BY <1>1, RunRow DEF CancelActivation, RowsOK
<1>3. attempts' \in [Attempts -> {"none", "active", "lost", "cancelled"}]
  BY DEF CancelActivation, RowsOK
<1>4. effects' \in [EffectKeys -> EffectRows]
  BY <1>1, EffectRow DEF CancelActivation, RowsOK
<1>5. tries' \in [EffectKeys -> [Tries -> TryStatuses]]
  BY <1>1 DEF CancelActivation, RowsOK
<1>6. tasks' \in [Tasks -> TaskRows]
  BY <1>1, StatusUpdate DEF CancelActivation, RowsOK
<1> QED
  BY <1>2, <1>3, <1>4, <1>5, <1>6, WithdrawType DEF CancelActivation, RowsOK

--------------------------------------------------------------------------------
(***************************************************************************)
(* The step.                                                               *)
(***************************************************************************)
\* The claw's frames keep the types.
LEMMA ClawType == TypeOK /\ ClawStep => TypeOK'
<1> SUFFICES ASSUME TypeOK, ClawStep PROVE TypeOK'
  OBVIOUS
<1>1. ASSUME NEW e \in EventIds, NEW kind \in EventKinds,
             \/ ApplyAgentControl(e, kind)
             \/ ApplyCommandReceipt(e, kind)
             \/ SubmitDelivery(e, kind)
      PROVE  TypeOK'
  <2>1. RowsOK'
    BY <1>1, ApplyEventType, RecordType
       DEF ApplyAgentControl, ApplyCommandReceipt, SubmitDelivery, TypeOK
  <2>2. MemoryOK'
    BY <1>1 DEF ApplyAgentControl, ApplyCommandReceipt, SubmitDelivery, TypeOK,
                MemoryOK
  <2> QED
    BY <2>1, <2>2 DEF TypeOK
<1>2. ASSUME NEW e \in EventIds, RejectAgentControl(e) \/ ClaimPullRequest(e)
      PROVE  TypeOK'
  BY <1>2, RecordType
     DEF RejectAgentControl, ClaimPullRequest, TypeOK, MemoryOK
<1>3. ASSUME NEW m \in Messages, AcknowledgeControl(m) \/ RejectControl(m)
      PROVE  TypeOK'
  <2>1. /\ "acknowledged" \in MessageStatuses /\ "cancelled" \in MessageStatuses
        /\ "suspended" \in RunStatuses
    BY DEF MessageStatuses, RunStatuses
  <2>2. outbox' \in [Messages -> MessageRows]
    BY <1>3, <2>1, StatusUpdate
       DEF AcknowledgeControl, RejectControl, TypeOK, RowsOK
  <2>3. run' \in RunRows
    <3>1. run \in RunRows
      BY DEF TypeOK, RowsOK
    <3>2. [run EXCEPT !.status = "suspended", !.waiting = "reason"] \in RunRows
      BY <2>1, <3>1, RunRow
    <3> QED
      BY <1>3, <3>1, <3>2 DEF AcknowledgeControl, RejectControl
  <2> QED
    BY <1>3, <2>2, <2>3
       DEF AcknowledgeControl, RejectControl, TypeOK, RowsOK, MemoryOK
<1> QED
  BY <1>1, <1>2, <1>3 DEF ClawStep

\* The hub's own operations keep the types.
LEMMA HubType == TypeOK /\ HubStep => TypeOK'
<1> SUFFICES ASSUME TypeOK, HubStep PROVE TypeOK'
  OBVIOUS
<1>1. ASSUME NEW e \in EventIds, NEW kind \in EventKinds,
             PublishPolicyEvent(e, kind)
      PROVE  TypeOK'
  BY <1>1, ApplyEventType DEF PublishPolicyEvent, TypeOK, MemoryOK
<1>2. ASSUME NEW m \in Messages, MarkControlSent(m) \/ EnqueueControl(m)
      PROVE  TypeOK'
  <2>1. "sent" \in MessageStatuses /\ "pending" \in MessageStatuses
    BY DEF MessageStatuses, LiveMessage
  <2>2. run.attempt \in 0 .. MaxAttempts
    BY RunFields, BoundsNat DEF TypeOK, Attempts
  <2>3. [status |-> "pending", attempt |-> run.attempt, task |-> Nobody,
         effect |-> NoKey] \in MessageRows
    BY <2>1, <2>2 DEF MessageRows
  <2>4. outbox' \in [Messages -> MessageRows]
    BY <1>2, <2>1, <2>3, StatusUpdate
       DEF MarkControlSent, EnqueueControl, TypeOK, RowsOK
  <2> QED
    BY <1>2, <2>4 DEF MarkControlSent, EnqueueControl, TypeOK, RowsOK, MemoryOK
<1>3. ASSUME NEW n \in Attempts, StartAttempt(n)
      PROVE  TypeOK'
  <2>1. attempts' \in [Attempts -> {"none", "active", "lost", "cancelled"}]
    BY <1>3 DEF StartAttempt, Supersede, TypeOK, RowsOK
  <2>2. n \in 0 .. MaxAttempts
    BY BoundsNat DEF Attempts
  <2>3. CASE HasLiveTask /\ ReissueTask(n)
    <3>1. PICK t \in Tasks, m \in Messages :
            /\ tasks' = [tasks EXCEPT
                  ![run.task].status = "cancelled",
                  ![t] = [tasks[run.task] EXCEPT !.status = "assigned",
                                                 !.attempt = n]]
            /\ outbox' = [WithdrawMessages EXCEPT ![m] =
                  [status |-> "pending", attempt |-> n, task |-> t,
                   effect |-> NoKey]]
            /\ run' = [run EXCEPT !.attempt = n, !.task = t]
      BY <2>3 DEF ReissueTask
    <3>2. run.task \in Tasks
      BY <2>3 DEF HasLiveTask
    <3>3. /\ [tasks[run.task] EXCEPT !.status = "cancelled"] \in TaskRows
          /\ [tasks[run.task] EXCEPT !.status = "assigned", !.attempt = n]
                \in TaskRows
      BY <2>2, <3>2 DEF TypeOK, RowsOK, TaskRows, TaskStatuses, LiveTask
    <3>4. tasks' \in [Tasks -> TaskRows]
      BY <3>1, <3>2, <3>3 DEF TypeOK, RowsOK
    <3>5. outbox' \in [Messages -> MessageRows]
      <4>1. [status |-> "pending", attempt |-> n, task |-> t, effect |-> NoKey]
              \in MessageRows
        BY <2>2 DEF MessageRows, MessageStatuses, LiveMessage
      <4> QED
        BY <3>1, <4>1, WithdrawType DEF TypeOK
    <3>6. run' \in RunRows
      BY <3>1, RunRow DEF TypeOK, RowsOK
    <3> QED
      BY <1>3, <2>1, <3>4, <3>5, <3>6 DEF StartAttempt, TypeOK, RowsOK, MemoryOK
  <2>4. CASE /\ outbox' = WithdrawMessages
             /\ run' = [run EXCEPT !.attempt = n, !.task = Nobody]
             /\ UNCHANGED tasks
    <3>1. run' \in RunRows
      BY <2>4, RunRow DEF TypeOK, RowsOK
    <3> QED
      BY <1>3, <2>1, <2>4, <3>1, WithdrawType
         DEF StartAttempt, TypeOK, RowsOK, MemoryOK
  <2> QED
    BY <1>3, <2>3, <2>4 DEF StartAttempt
<1>4. ASSUME NEW k \in EffectKeys,
             NEW s \in {"succeeded", "retryable_failed", "permanent_failed",
                        "cancelled"},
             ResolveUnknownEffect(k, s)
      PROVE  TypeOK'
  <2>1. s \in EffectStatuses
    BY DEF EffectStatuses, TryStatuses
  <2>2. effects' \in [EffectKeys -> EffectRows]
    BY <1>4, <2>1, EffectRow DEF ResolveUnknownEffect, TypeOK, RowsOK
  <2> QED
    BY <1>4, <2>2 DEF ResolveUnknownEffect, TypeOK, RowsOK, MemoryOK
<1>5. ASSUME NEW k \in EffectKeys, LeaseLapses(k)
      PROVE  TypeOK'
  <2>1. [effects[k] EXCEPT !.lease = FALSE] \in EffectRows
    BY DEF TypeOK, RowsOK, EffectRows
  <2>2. effects' \in [EffectKeys -> EffectRows]
    BY <1>5, <2>1 DEF LeaseLapses, TypeOK, RowsOK
  <2> QED
    BY <1>5, <2>2 DEF LeaseLapses, TypeOK, RowsOK, MemoryOK
<1>6. CASE CancelRun
  BY <1>6, CancelType DEF CancelRun, TypeOK, MemoryOK
<1> QED
  BY <1>1, <1>2, <1>3, <1>4, <1>5, <1>6 DEF HubStep

\* The effect workers and the deadline sweep keep the types.
LEMMA WorkerType == TypeOK /\ WorkerStep => TypeOK'
<1> SUFFICES ASSUME TypeOK, WorkerStep PROVE TypeOK'
  OBVIOUS
<1>0. RowsOK /\ MemoryOK /\ Idle \in Claims
  BY DEF TypeOK, Idle, Claims
<1>1. ASSUME NEW w \in Workers, NEW k \in EffectKeys, ClaimEffect(w, k)
      PROVE  TypeOK'
  <2> DEFINE n == effects[k].count + 1
  <2>1. n \in Tries /\ n \in 0 .. MaxTries
    BY <1>0, <1>1, BoundsNat DEF ClaimEffect, RowsOK, EffectRows, Tries
  <2>2. [status |-> "running", count |-> n, owner |-> w, lease |-> TRUE]
          \in EffectRows
    BY <2>1, NewEffectRows
  <2>3. effects' \in [EffectKeys -> EffectRows]
    BY <1>0, <1>1, <2>2, ExpireType DEF ClaimEffect
  <2>4. tries' \in [EffectKeys -> [Tries -> TryStatuses]]
    BY <1>0, <1>1, <2>1, ExpireType DEF ClaimEffect, TryStatuses
  <2>5. worker' \in [Workers -> Claims]
    <3>1. [pc |-> "claimed", key |-> k, try |-> n] \in Claims
      BY <2>1 DEF Claims
    <3> QED
      BY <1>0, <1>1, <3>1 DEF ClaimEffect, MemoryOK
  <2> QED
    BY <1>0, <1>1, <2>3, <2>4, <2>5 DEF ClaimEffect, TypeOK, RowsOK, MemoryOK
<1>2. ASSUME NEW w \in Workers, ClaimNothing(w)
      PROVE  TypeOK'
  BY <1>0, <1>2, ExpireType DEF ClaimNothing, TypeOK, RowsOK, MemoryOK
<1>3. ASSUME NEW w \in Workers, MaterializeAgentTask(w)
      PROVE  TypeOK'
  <2>1. PICK t \in Tasks, m \in Messages :
          /\ tasks' = [tasks EXCEPT ![t] =
                [status |-> "assigned", effect |-> worker[w].key,
                 attempt |-> run.attempt, version |-> run.version]]
          /\ run' = [run EXCEPT !.task = t]
          /\ outbox' = [outbox EXCEPT ![m] =
                [status |-> "pending", attempt |-> run.attempt, task |-> t,
                 effect |-> worker[w].key]]
    BY <1>3 DEF MaterializeAgentTask
  <2>2. worker[w].pc = "claimed" /\ worker[w].key \in EffectKeys
    BY <1>0, <1>3, ClaimedType DEF MaterializeAgentTask, Leased
  <2>3. run.attempt \in 0 .. MaxAttempts /\ run.version \in 0 .. MaxVersion
    BY <1>0, RunFields, BoundsNat DEF Attempts, Versions
  <2>4. tasks' \in [Tasks -> TaskRows]
    <3>1. [status |-> "assigned", effect |-> worker[w].key,
           attempt |-> run.attempt, version |-> run.version] \in TaskRows
      BY <2>2, <2>3 DEF TaskRows, TaskStatuses, LiveTask
    <3> QED
      BY <1>0, <2>1, <3>1 DEF RowsOK
  <2>5. outbox' \in [Messages -> MessageRows]
    <3>1. [status |-> "pending", attempt |-> run.attempt, task |-> t,
           effect |-> worker[w].key] \in MessageRows
      BY <2>2, <2>3 DEF MessageRows, MessageStatuses, LiveMessage
    <3> QED
      BY <1>0, <2>1, <3>1 DEF RowsOK
  <2>6. run' \in RunRows
    BY <1>0, <2>1, RunRow DEF RowsOK
  <2>7. /\ effects' \in [EffectKeys -> EffectRows]
        /\ tries' \in [EffectKeys -> [Tries -> TryStatuses]]
        /\ worker' \in [Workers -> Claims]
    <3>1. "succeeded" \in TryStatuses /\ Settle(w, "succeeded")
      BY <1>3 DEF TryStatuses, MaterializeAgentTask
    <3> QED
      BY <2>2, <3>1, SettleType
  <2> QED
    BY <1>0, <1>3, <2>4, <2>5, <2>6, <2>7
       DEF MaterializeAgentTask, TypeOK, RowsOK, MemoryOK
<1>4. ASSUME NEW w \in Workers, MaterializeCommandTask(w)
      PROVE  TypeOK'
  <2>1. PICK m \in Messages :
          outbox' = [outbox EXCEPT ![m] =
                [status |-> "pending", attempt |-> run.attempt, task |-> Nobody,
                 effect |-> worker[w].key]]
    BY <1>4 DEF MaterializeCommandTask
  <2>2. worker[w].pc = "claimed" /\ worker[w].key \in EffectKeys
    BY <1>0, <1>4, ClaimedType DEF MaterializeCommandTask, Leased
  <2>3. run.attempt \in 0 .. MaxAttempts
    BY <1>0, RunFields, BoundsNat DEF Attempts
  <2>4. outbox' \in [Messages -> MessageRows]
    <3>1. [status |-> "pending", attempt |-> run.attempt, task |-> Nobody,
           effect |-> worker[w].key] \in MessageRows
      BY <2>2, <2>3 DEF MessageRows, MessageStatuses, LiveMessage
    <3> QED
      BY <1>0, <2>1, <3>1 DEF RowsOK
  <2>5. /\ effects' \in [EffectKeys -> EffectRows]
        /\ tries' \in [EffectKeys -> [Tries -> TryStatuses]]
        /\ worker' \in [Workers -> Claims]
    <3>1. "succeeded" \in TryStatuses /\ Settle(w, "succeeded")
      BY <1>4 DEF TryStatuses, MaterializeCommandTask
    <3> QED
      BY <2>2, <3>1, SettleType
  <2> QED
    BY <1>0, <1>4, <2>4, <2>5 DEF MaterializeCommandTask, TypeOK, RowsOK, MemoryOK
<1>5. ASSUME NEW w \in Workers, CompleteEffect(w)
      PROVE  TypeOK'
  <2>1. CASE Leased(w)
    <3>1. PICK s \in TryStatuses : Settle(w, s)
      BY <1>5, <2>1 DEF CompleteEffect, TryStatuses
    <3>2. worker[w].pc = "claimed"
      BY <1>5 DEF CompleteEffect
    <3>3. /\ effects' \in [EffectKeys -> EffectRows]
          /\ tries' \in [EffectKeys -> [Tries -> TryStatuses]]
          /\ worker' \in [Workers -> Claims]
      BY <3>1, <3>2, SettleType
    <3> QED
      BY <1>0, <1>5, <3>3 DEF CompleteEffect, TypeOK, RowsOK, MemoryOK
  <2>2. CASE ~Leased(w)
    BY <1>0, <1>5, <2>2 DEF CompleteEffect, TypeOK, RowsOK, MemoryOK
  <2> QED
    BY <2>1, <2>2
<1>6. ASSUME NEW w \in Workers, WorkerStops(w)
      PROVE  TypeOK'
  <2>1. [Idle EXCEPT !.pc = "stopped"] \in Claims
    BY DEF Idle, Claims
  <2> QED
    BY <1>0, <1>6, <2>1 DEF WorkerStops, TypeOK, RowsOK, MemoryOK, store
<1>7. ASSUME NEW S \in SUBSET Tasks, ExpireAgentTasks(S)
      PROVE  TypeOK'
  <2>1. "timed_out" \in TaskStatuses /\ "suspended" \in RunStatuses
    BY DEF TaskStatuses, RunStatuses
  <2>2. tasks' \in [Tasks -> TaskRows]
    BY <1>0, <1>7, <2>1, StatusUpdate DEF ExpireAgentTasks, RowsOK
  <2>3. run' \in RunRows
    <3>1. run \in RunRows
      BY <1>0 DEF RowsOK
    <3>2. [run EXCEPT !.status = "suspended", !.waiting = "reason"] \in RunRows
      BY <2>1, <3>1, RunRow
    <3> QED
      BY <1>7, <3>1, <3>2 DEF ExpireAgentTasks
  <2> QED
    BY <1>0, <1>7, <2>2, <2>3 DEF ExpireAgentTasks, TypeOK, RowsOK, MemoryOK
<1> QED
  BY <1>1, <1>2, <1>3, <1>4, <1>5, <1>6, <1>7 DEF WorkerStep

\* The activation driver keeps the types.
LEMMA DriverType == TypeOK /\ DriverStep => TypeOK'
<1> SUFFICES ASSUME TypeOK, DriverStep PROVE TypeOK'
  OBVIOUS
<1>0. RowsOK /\ MemoryOK /\ run \in RunRows
  BY DEF TypeOK, RowsOK
<1>1. CASE AssembleContext
  <2>1. run' \in RunRows
    BY <1>0, <1>1, RunRow DEF AssembleContext
  <2> QED
    BY <1>0, <1>1, <2>1 DEF AssembleContext, TypeOK, RowsOK, MemoryOK
<1>2. ASSUME NEW e \in EventIds, ApplyContextEvent(e)
      PROVE  TypeOK'
  <2>1. RowsOK'
    BY <1>0, <1>2, EvaluateType DEF ApplyContextEvent
  <2> QED
    BY <1>0, <1>2, <2>1 DEF ApplyContextEvent, TypeOK, MemoryOK
<1>3. CASE SuspendOnContextFailure
  <2>1. run' \in RunRows
    BY <1>0, <1>3, RunRow DEF SuspendOnContextFailure, RunStatuses
  <2> QED
    BY <1>0, <1>3, <2>1 DEF SuspendOnContextFailure, TypeOK, RowsOK, MemoryOK
<1>4. CASE CompleteActivation
  <2>1. run' \in RunRows
    BY <1>0, <1>4, RunRow DEF CompleteActivation, RunStatuses
  <2> QED
    BY <1>0, <1>4, <2>1 DEF CompleteActivation, TypeOK, RowsOK, MemoryOK
<1>5. CASE CancelFailedActivation
  <2>1. RowsOK'
    BY <1>0, <1>5, CancelType DEF CancelFailedActivation, RowsOK, store
  <2> QED
    BY <1>0, <1>5, <2>1 DEF CancelFailedActivation, TypeOK, MemoryOK
<1>6. ASSUME NEW e \in EventIds, ApplyStartCommand(e)
      PROVE  TypeOK'
  <2>1. \A c \in StartCommands : c.to \in States
    BY WorkflowAssumption DEF ValidWorkflow, CommandDefs
  <2>2. UNCHANGED store => RowsOK'
    BY <1>0 DEF RowsOK, store
  <2>3. RowsOK'
    BY <1>0, <1>6, <2>1, <2>2, TransitionType DEF ApplyStartCommand
  <2> QED
    BY <1>0, <1>6, <2>3 DEF ApplyStartCommand, TypeOK, MemoryOK
<1>7. CASE DriverStops
  BY <1>0, <1>7 DEF DriverStops, TypeOK, RowsOK, MemoryOK, store
<1> QED
  BY <1>1, <1>2, <1>3, <1>4, <1>5, <1>6, <1>7 DEF DriverStep

\* The first state has the types.
LEMMA InitType == Init => TypeOK
<1> SUFFICES ASSUME Init PROVE TypeOK
  OBVIOUS
<1>a. InitialState \in States /\ 1 \in Versions /\ 1 \in Attempts
  BY WorkflowAssumption, BoundsNat DEF ValidWorkflow, Versions, Attempts
<1>1. run \in RunRows
  <2>1. run = [state |-> InitialState, version |-> 1, status |-> "suspended",
               waiting |-> "activation", attempt |-> 1, task |-> Nobody,
               ctx |-> FALSE]
    BY DEF Init
  <2> QED
    BY <2>1, <1>a DEF RunRows, RunStatuses
<1>2. transitions \subseteq LedgerRows
  <2>1. transitions = {[event |-> Created, from |-> "", to |-> InitialState,
                        version |-> 1]}
    BY DEF Init
  <2>2. [event |-> Created, from |-> "", to |-> InitialState, version |-> 1]
          \in LedgerRows
    BY <1>a DEF LedgerRows
  <2> QED
    BY <2>1, <2>2
<1>3. effects \in [EffectKeys -> EffectRows]
  <2>1. effects = [k \in EffectKeys |->
                    IF k \in {Created} \X OnEnter[InitialState]
                    THEN Planned ELSE Absent]
    BY DEF Init
  <2> QED
    BY <2>1, NewEffectRows
<1>4. tasks \in [Tasks -> TaskRows]
  <2>1. [status |-> "none", effect |-> NoKey, attempt |-> 0, version |-> 0]
          \in TaskRows
    BY BoundsNat DEF TaskRows, TaskStatuses
  <2> QED
    BY <2>1 DEF Init
<1>5. outbox \in [Messages -> MessageRows]
  <2>1. [status |-> "none", attempt |-> 0, task |-> Nobody, effect |-> NoKey]
          \in MessageRows
    BY BoundsNat DEF MessageRows, MessageStatuses
  <2> QED
    BY <2>1 DEF Init
<1>6. /\ attempts \in [Attempts -> {"none", "active", "lost", "cancelled"}]
      /\ events \in [EventIds -> {"none", "accepted", "rejected",
                                  "stale_state", "unauthorized"}]
      /\ tries \in [EffectKeys -> [Tries -> TryStatuses]]
  BY DEF Init, TryStatuses
<1>7. MemoryOK
  BY DEF Init, MemoryOK, Claims, Idle
<1> QED
  BY <1>1, <1>2, <1>3, <1>4, <1>5, <1>6, <1>7 DEF TypeOK, RowsOK

\* Every reachable state of the store and of the hub's memory is well typed,
\* for every workflow document and all bounds.
THEOREM TypeCorrect == Spec => []TypeOK
<1>1. TypeOK /\ [Next]_vars => TypeOK'
  <2>1. TypeOK /\ UNCHANGED vars => TypeOK'
    BY DEF TypeOK, RowsOK, MemoryOK, vars
  <2> QED
    BY <2>1, ClawType, HubType, WorkerType, DriverType DEF Next
<1> QED
  BY <1>1, InitType, PTL DEF Spec

--------------------------------------------------------------------------------
\* What any event or command may do to the rows the invariants speak of.
EventFrame ==
    /\ UNCHANGED <<attempts, outbox, tries, worker>>
    /\ run'.attempt = run.attempt /\ run'.ctx = run.ctx
    /\ \A k \in EffectKeys : \/ effects'[k] = effects[k]
                             \/ effects[k].status = "none" /\ effects'[k] = Planned
    /\ \A t \in Tasks :
          /\ tasks'[t].effect = tasks[t].effect
          /\ \/ tasks'[t].status = tasks[t].status
             \/ /\ tasks[t].status \in LiveTask
                /\ tasks'[t].status # "none"
                /\ attempts[run.attempt] = "active"

\* The task an event is bound to is live and its attempt active.
BoundTask(task) == \/ task = Nobody
                   \/ /\ task \in Tasks /\ tasks[task].status \in LiveTask
                      /\ attempts[run.attempt] = "active"

\* updateBoundTask touches the bound task only, and never erases a row.
LEMMA BoundTaskFrame ==
    ASSUME RowsOK, NEW kind, NEW task, BoundTask(task), NEW t \in Tasks
    PROVE  LET T == UpdateBoundTask(kind, task) IN
           /\ T[t].effect = tasks[t].effect
           /\ \/ T[t].status = tasks[t].status
              \/ /\ tasks[t].status \in LiveTask
                 /\ T[t].status # "none"
                 /\ attempts[run.attempt] = "active"
<1>1. tasks[t] \in TaskRows
  BY DEF RowsOK
<1>2. CASE t # task
  BY <1>2 DEF UpdateBoundTask
<1>3. CASE t = task
  <2>1. Nobody \notin Tasks
    BY DEF Nobody, Tasks
  <2>2. tasks[t].status \in LiveTask /\ attempts[run.attempt] = "active"
    BY <1>3, <2>1 DEF BoundTask
  <2>3. TaskStatusAfter(kind, tasks[t].status) # "none"
    BY <2>2 DEF TaskStatusAfter, LiveTask
  <2>4. UpdateBoundTask(kind, task)[t]
          = [tasks[t] EXCEPT !.status = TaskStatusAfter(kind, tasks[t].status)]
    BY <1>3 DEF UpdateBoundTask
  <2> QED
    BY <1>1, <2>2, <2>3, <2>4 DEF TaskRows
<1> QED
  BY <1>2, <1>3

\* scheduleEffects leaves every existing row alone.
LEMMA ScheduleFrame ==
    ASSUME NEW e, NEW defs, NEW k \in EffectKeys
    PROVE  \/ ScheduleEffects(e, defs)[k] = effects[k]
           \/ /\ effects[k].status = "none"
              /\ ScheduleEffects(e, defs)[k] = Planned
BY DEF ScheduleEffects

\* applyTransition stays within the frame.
LEMMA TransitionFrame ==
    ASSUME RowsOK, NEW e, NEW to, NEW defs, NEW kind, NEW task, BoundTask(task),
           ApplyTransition(e, to, defs, kind, task), UNCHANGED worker
    PROVE  EventFrame
<1>0. run \in RunRows
  BY DEF RowsOK
<1>1. CASE RejectAndSuspend(e)
  BY <1>0, <1>1 DEF RejectAndSuspend, EventFrame, RunRows
<1>2. CASE Advance(e, to, defs, kind, task)
  <2>1. run'.attempt = run.attempt /\ run'.ctx = run.ctx
    BY <1>0, <1>2 DEF Advance, RunRows
  <2>2. /\ UNCHANGED <<attempts, outbox, tries>>
        /\ tasks' = UpdateBoundTask(kind, task)
        /\ \/ effects' = effects
           \/ effects' = ScheduleEffects(e, defs \cup OnEnter[to])
    BY <1>2 DEF Advance
  <2> QED
    BY <2>1, <2>2, BoundTaskFrame, ScheduleFrame DEF EventFrame
<1> QED
  BY <1>1, <1>2 DEF ApplyTransition

\* ... and so does everything else ApplyEvent may decide.
LEMMA EvaluateFrame ==
    ASSUME RowsOK, NEW e, NEW kind, NEW task, BoundTask(task),
           EvaluateEvent(e, kind, task), UNCHANGED worker
    PROVE  EventFrame
<1>0. run \in RunRows
  BY DEF RowsOK
<1>1. CASE RejectAndSuspend(e)
  BY <1>0, <1>1 DEF RejectAndSuspend, EventFrame, RunRows
<1>2. ASSUME NEW defs, AcceptInPlace(e, defs, kind, task)
      PROVE  EventFrame
  <2>1. run'.attempt = run.attempt /\ run'.ctx = run.ctx
    BY <1>0, <1>2 DEF AcceptInPlace, RunRows
  <2>2. /\ UNCHANGED <<attempts, outbox, tries>>
        /\ tasks' = UpdateBoundTask(kind, task)
        /\ effects' = ScheduleEffects(e, defs)
    BY <1>2 DEF AcceptInPlace
  <2> QED
    BY <2>1, <2>2, BoundTaskFrame, ScheduleFrame DEF EventFrame
<1>3. ASSUME NEW to, NEW defs, ApplyTransition(e, to, defs, kind, task)
      PROVE  EventFrame
  BY <1>3, TransitionFrame
<1> QED
  BY <1>1, <1>2, <1>3 DEF EvaluateEvent

\* An event that is only recorded.
LEMMA RecordFrame ==
    ASSUME NEW e, NEW d, RecordEvent(e, d), UNCHANGED worker
    PROVE  EventFrame
BY DEF RecordEvent, EventFrame

\* The actions that apply an event or a command.
EventStep ==
    \/ \E e \in EventIds, kind \in EventKinds :
          \/ ApplyAgentControl(e, kind) \/ ApplyCommandReceipt(e, kind)
          \/ SubmitDelivery(e, kind) \/ PublishPolicyEvent(e, kind)
    \/ \E e \in EventIds :
          \/ RejectAgentControl(e) \/ ClaimPullRequest(e)
          \/ ApplyContextEvent(e) \/ ApplyStartCommand(e)

\* Every one of them stays within the frame.
LEMMA EventSteps == TypeOK /\ EventStep => EventFrame
<1> SUFFICES ASSUME TypeOK, EventStep PROVE EventFrame
  OBVIOUS
<1>0. RowsOK /\ BoundTask(Nobody)
  BY DEF TypeOK, BoundTask
<1>1. ASSUME NEW e \in EventIds, NEW kind, NEW task, NEW expected,
             task = Nobody \/ ClawConnected,
             ApplyEvent(e, kind, task, expected), UNCHANGED worker
      PROVE  EventFrame
  <2>1. BoundTask(task)
    BY <1>1 DEF ApplyEvent, AuthorizeBoundTask, BoundTask, ClawConnected
  <2> QED
    BY <1>0, <1>1, <2>1, EvaluateFrame, RecordFrame DEF ApplyEvent
<1>2. ASSUME NEW e \in EventIds, NEW kind \in EventKinds,
             ApplyAgentControl(e, kind)
      PROVE  EventFrame
  BY <1>1, <1>2, RecordFrame DEF ApplyAgentControl
<1>3. ASSUME NEW e \in EventIds, NEW kind \in EventKinds,
             \/ ApplyCommandReceipt(e, kind) \/ SubmitDelivery(e, kind)
             \/ PublishPolicyEvent(e, kind)
      PROVE  EventFrame
  BY <1>1, <1>3 DEF ApplyCommandReceipt, SubmitDelivery, PublishPolicyEvent
<1>4. ASSUME NEW e \in EventIds, RejectAgentControl(e) \/ ClaimPullRequest(e)
      PROVE  EventFrame
  BY <1>4, RecordFrame DEF RejectAgentControl, ClaimPullRequest
<1>5. ASSUME NEW e \in EventIds, ApplyContextEvent(e)
      PROVE  EventFrame
  BY <1>0, <1>5, EvaluateFrame DEF ApplyContextEvent
<1>6. ASSUME NEW e \in EventIds, ApplyStartCommand(e)
      PROVE  EventFrame
  <2>1. UNCHANGED <<store, worker>> => EventFrame
    BY DEF store, EventFrame
  <2> QED
    BY <1>0, <1>6, <2>1, TransitionFrame DEF ApplyStartCommand
<1> QED
  BY <1>2, <1>3, <1>4, <1>5, <1>6 DEF EventStep

\* Every other action, by what it is about.
OutboxStep == \E m \in Messages : \/ AcknowledgeControl(m) \/ RejectControl(m)
                                  \/ MarkControlSent(m) \/ EnqueueControl(m)
LeaseStep ==
    \/ \E w \in Workers, k \in EffectKeys : ClaimEffect(w, k)
    \/ \E w \in Workers : ClaimNothing(w) \/ CompleteEffect(w)
    \/ \E k \in EffectKeys :
          \/ LeaseLapses(k)
          \/ \E status \in {"succeeded", "retryable_failed", "permanent_failed",
                            "cancelled"} : ResolveUnknownEffect(k, status)
AssignStep == \E w \in Workers : \/ MaterializeAgentTask(w)
                                 \/ MaterializeCommandTask(w)
DriverOnlyStep == \/ AssembleContext \/ SuspendOnContextFailure
                  \/ CompleteActivation \/ DriverStops
                  \/ \E w \in Workers : WorkerStops(w)
                  \/ driver = "cancel" /\ driver' = "aborted" /\ UNCHANGED <<store, worker>>
CancelStep == /\ CancelActivation /\ UNCHANGED worker
              /\ driver' \in {driver, "aborted"}

\* The case split every invariance proof below begins with.
LEMMA StepKinds ==
    ASSUME Next
    PROVE  \/ EventStep \/ OutboxStep \/ LeaseStep \/ AssignStep
           \/ DriverOnlyStep \/ CancelStep
           \/ \E n \in Attempts : StartAttempt(n)
           \/ \E S \in SUBSET Tasks : ExpireAgentTasks(S)
<1>1. CASE ClawStep
  BY <1>1 DEF ClawStep, EventStep, OutboxStep
<1>2. CASE WorkerStep
  BY <1>2 DEF WorkerStep, LeaseStep, AssignStep, DriverOnlyStep
<1>3. CASE DriverStep
  BY <1>3 DEF DriverStep, EventStep, DriverOnlyStep, CancelStep,
              CancelFailedActivation
<1>4. CASE HubStep
  BY <1>4 DEF HubStep, EventStep, OutboxStep, LeaseStep, CancelStep, CancelRun
<1> QED
  BY <1>1, <1>2, <1>3, <1>4 DEF Next

\* The operations that do not concern the attempt keep the run's binding.
LEMMA BindingFrame ==
    ASSUME TypeOK
    PROVE  /\ OutboxStep => attempts' = attempts /\ run'.attempt = run.attempt
           /\ LeaseStep => UNCHANGED <<run, attempts, tasks, outbox>>
           /\ AssignStep => attempts' = attempts /\ run'.attempt = run.attempt
           /\ DriverOnlyStep => /\ UNCHANGED <<attempts, effects, tries, tasks,
                                               outbox>>
                                /\ run'.attempt = run.attempt
           /\ CancelStep => run'.attempt = run.attempt
           /\ \A S \in SUBSET Tasks : ExpireAgentTasks(S) =>
                 /\ UNCHANGED <<attempts, outbox, effects, tries, worker, driver>>
                 /\ run'.attempt = run.attempt
<1>0. run \in RunRows
  BY DEF TypeOK, RowsOK
<1>1. OutboxStep => attempts' = attempts /\ run'.attempt = run.attempt
  BY <1>0 DEF OutboxStep, AcknowledgeControl, RejectControl, MarkControlSent,
              EnqueueControl, RunRows
<1>2. LeaseStep => UNCHANGED <<run, attempts, tasks, outbox>>
  BY DEF LeaseStep, ClaimEffect, ClaimNothing, CompleteEffect, LeaseLapses,
         ResolveUnknownEffect
<1>3. AssignStep => attempts' = attempts /\ run'.attempt = run.attempt
  BY <1>0 DEF AssignStep, MaterializeAgentTask, MaterializeCommandTask, RunRows
<1>4. DriverOnlyStep => /\ UNCHANGED <<attempts, effects, tries, tasks, outbox>>
                        /\ run'.attempt = run.attempt
  BY <1>0 DEF DriverOnlyStep, AssembleContext, SuspendOnContextFailure,
              CompleteActivation, DriverStops, WorkerStops, store, RunRows
<1>5. CancelStep => run'.attempt = run.attempt
  BY <1>0 DEF CancelStep, CancelActivation, RunRows
<1>6. ASSUME NEW S \in SUBSET Tasks, ExpireAgentTasks(S)
      PROVE  /\ UNCHANGED <<attempts, outbox, effects, tries, worker, driver>>
             /\ run'.attempt = run.attempt
  BY <1>0, <1>6 DEF ExpireAgentTasks, RunRows
<1> QED
  BY <1>1, <1>2, <1>3, <1>4, <1>5, <1>6

--------------------------------------------------------------------------------
(***************************************************************************)
(* Attempts and the outbox.                                                *)
(***************************************************************************)
\* A claw whose attempt was superseded or cancelled is never the active one:
\* at most one attempt is active, the one the run points at.
THEOREM AttemptsExclusive == Spec => []OneActiveAttempt
<1>1. Init => OneActiveAttempt
  <2> SUFFICES ASSUME Init PROVE OneActiveAttempt
    OBVIOUS
  <2>1. /\ attempts = [n \in Attempts |-> IF n = 1 THEN "active" ELSE "none"]
        /\ run.attempt = 1
    BY DEF Init
  <2> QED
    BY <2>1 DEF OneActiveAttempt
<1>2. TypeOK /\ OneActiveAttempt /\ [Next]_vars => OneActiveAttempt'
  <2> SUFFICES ASSUME TypeOK, OneActiveAttempt, [Next]_vars
               PROVE  OneActiveAttempt'
    OBVIOUS
  <2>0. run.attempt \in Attempts /\ run \in RunRows
    BY RunFields DEF TypeOK, RowsOK
  <2>1. CASE attempts' = attempts /\ run'.attempt = run.attempt
    BY <2>1 DEF OneActiveAttempt
  <2>2. CASE EventStep
    BY <2>1, <2>2, EventSteps DEF EventFrame
  <2>3. CASE OutboxStep \/ LeaseStep \/ AssignStep \/ DriverOnlyStep
    BY <2>1, <2>3, BindingFrame
  <2>4. ASSUME NEW S \in SUBSET Tasks, ExpireAgentTasks(S)
        PROVE  OneActiveAttempt'
    BY <2>1, <2>4, BindingFrame
  <2>5. CASE CancelStep
    BY <2>5 DEF CancelStep, CancelActivation, OneActiveAttempt
  <2>6. ASSUME NEW n \in Attempts, StartAttempt(n)
        PROVE  OneActiveAttempt'
    <3>1. run'.attempt = n
      BY <2>0, <2>6 DEF StartAttempt, ReissueTask, RunRows
    <3>2. \A i \in Attempts : attempts'[i] = "active" => i = n
      BY <2>6 DEF StartAttempt, Supersede
    <3> QED
      BY <3>1, <3>2 DEF OneActiveAttempt
  <2>7. CASE UNCHANGED vars
    BY <2>1, <2>7 DEF vars
  <2> QED
    BY <2>2, <2>3, <2>4, <2>5, <2>6, <2>7, StepKinds
<1> QED
  BY <1>1, <1>2, TypeCorrect, PTL DEF Spec

\* No message waits in the outbox for an attempt that is not the current one.
THEOREM MessagesFollowTheAttempt == Spec => []LiveMessagesTargetCurrentAttempt
<1> DEFINE Inv == LiveMessagesTargetCurrentAttempt
<1>1. Init => Inv
  <2> SUFFICES ASSUME Init PROVE Inv
    OBVIOUS
  <2>1. \A m \in Messages : outbox[m].status = "none"
    BY DEF Init
  <2> QED
    BY <2>1 DEF LiveMessagesTargetCurrentAttempt, LiveMessage
<1>2. TypeOK /\ Inv /\ [Next]_vars => Inv'
  <2> SUFFICES ASSUME TypeOK, Inv, [Next]_vars PROVE Inv'
    OBVIOUS
  <2>0. run \in RunRows /\ outbox \in [Messages -> MessageRows]
    BY DEF TypeOK, RowsOK
  <2>1. CASE outbox' = outbox /\ run'.attempt = run.attempt
    BY <2>1 DEF LiveMessagesTargetCurrentAttempt
  <2>2. CASE EventStep
    BY <2>1, <2>2, EventSteps DEF EventFrame
  <2>3. CASE LeaseStep \/ DriverOnlyStep
    BY <2>1, <2>3, BindingFrame
  <2>4. ASSUME NEW S \in SUBSET Tasks, ExpireAgentTasks(S)
        PROVE  Inv'
    BY <2>1, <2>4, BindingFrame
  <2>5. CASE OutboxStep
    <3>1. \A m \in Messages :
            outbox'[m].status \in LiveMessage => outbox'[m].attempt = run.attempt
      BY <2>0, <2>5
         DEF OutboxStep, AcknowledgeControl, RejectControl, MarkControlSent,
             EnqueueControl, LiveMessagesTargetCurrentAttempt, LiveMessage,
             MessageRows
    <3> QED
      BY <2>5, <3>1, BindingFrame DEF LiveMessagesTargetCurrentAttempt
  <2>6. CASE AssignStep
    <3>1. \A m \in Messages :
            outbox'[m].status \in LiveMessage => outbox'[m].attempt = run.attempt
      BY <2>0, <2>6
         DEF AssignStep, MaterializeAgentTask, MaterializeCommandTask,
             LiveMessagesTargetCurrentAttempt, MessageRows
    <3> QED
      BY <2>6, <3>1, BindingFrame DEF LiveMessagesTargetCurrentAttempt
  <2>w. \A m \in Messages : WithdrawMessages[m].status \notin LiveMessage
    BY <2>0 DEF WithdrawMessages, MessageRows, LiveMessage
  <2>7. CASE CancelStep
    BY <2>7, <2>w
       DEF CancelStep, CancelActivation, LiveMessagesTargetCurrentAttempt
  <2>8. ASSUME NEW n \in Attempts, StartAttempt(n)
        PROVE  Inv'
    <3>1. run'.attempt = n
      BY <2>0, <2>8 DEF StartAttempt, ReissueTask, RunRows
    <3>2. \/ outbox' = WithdrawMessages
          \/ \E t \in Tasks, m \in Messages :
                outbox' = [WithdrawMessages EXCEPT ![m] =
                   [status |-> "pending", attempt |-> n, task |-> t,
                    effect |-> NoKey]]
      BY <2>8 DEF StartAttempt, ReissueTask
    <3>3. DOMAIN WithdrawMessages = Messages
      BY DEF WithdrawMessages
    <3> QED
      BY <3>1, <3>2, <3>3, <2>w DEF LiveMessagesTargetCurrentAttempt
  <2>9. CASE UNCHANGED vars
    BY <2>1, <2>9 DEF vars
  <2> QED
    BY <2>2, <2>3, <2>4, <2>5, <2>6, <2>7, <2>8, <2>9, StepKinds
<1> QED
  BY <1>1, <1>2, TypeCorrect, PTL DEF Spec

\* Once the run's attempt was cancelled with its claw nothing is assigned to
\* it, also when a late command or event has made the run active again.
THEOREM CancelledAttemptIdle == Spec => []CancelledAttemptHoldsNoWork
<1> DEFINE Inv == CancelledAttemptHoldsNoWork
<1>1. Init => Inv
  <2> SUFFICES ASSUME Init PROVE Inv
    OBVIOUS
  <2>1. /\ attempts = [n \in Attempts |-> IF n = 1 THEN "active" ELSE "none"]
        /\ run.attempt = 1
    BY DEF Init
  <2>2. 1 \in Attempts
    BY BoundsNat DEF Attempts
  <2> QED
    BY <2>1, <2>2 DEF CancelledAttemptHoldsNoWork
<1>2. TypeOK /\ Inv /\ [Next]_vars => Inv'
  <2> SUFFICES ASSUME TypeOK, Inv, [Next]_vars PROVE Inv'
    OBVIOUS
  <2>0. /\ run \in RunRows /\ run.attempt \in Attempts
        /\ outbox \in [Messages -> MessageRows] /\ tasks \in [Tasks -> TaskRows]
    BY RunFields DEF TypeOK, RowsOK
  <2>1. CASE /\ attempts' = attempts /\ run'.attempt = run.attempt
             /\ \A t \in Tasks : \/ tasks'[t].status \notin LiveTask
                                 \/ tasks[t].status \in LiveTask
             /\ \A m \in Messages :
                   \/ outbox'[m].effect = NoKey
                   \/ outbox'[m].status \notin LiveMessage
                   \/ /\ outbox[m].status \in LiveMessage
                      /\ outbox[m].effect = outbox'[m].effect
    BY <2>1 DEF CancelledAttemptHoldsNoWork
  <2>2. CASE UNCHANGED <<attempts, tasks, outbox>> /\ run'.attempt = run.attempt
    BY <2>2 DEF CancelledAttemptHoldsNoWork
  <2>3. CASE EventStep
    BY <2>1, <2>3, EventSteps DEF EventFrame
  <2>4. CASE LeaseStep \/ DriverOnlyStep
    BY <2>2, <2>4, BindingFrame
  <2>5. CASE OutboxStep
    <3>1. /\ tasks' = tasks
          /\ \A m \in Messages :
                \/ outbox'[m].effect = NoKey
                \/ outbox'[m].status \notin LiveMessage
                \/ /\ outbox[m].status \in LiveMessage
                   /\ outbox[m].effect = outbox'[m].effect
      BY <2>0, <2>5
         DEF OutboxStep, AcknowledgeControl, RejectControl, MarkControlSent,
             EnqueueControl, MessageRows, LiveMessage
    <3> QED
      BY <2>1, <2>5, <3>1, BindingFrame
  <2>6. CASE AssignStep
    <3>1. attempts[run.attempt] = "active"
      BY <2>6 DEF AssignStep, MaterializeAgentTask, MaterializeCommandTask,
                  AttemptBound
    <3> QED
      BY <2>6, <3>1, BindingFrame DEF CancelledAttemptHoldsNoWork
  <2>7. CASE CancelStep
    <3>1. /\ \A t \in Tasks : tasks'[t].status \notin LiveTask
          /\ outbox' = WithdrawMessages
      BY <2>0, <2>7 DEF CancelStep, CancelActivation, TaskRows, LiveTask
    <3>2. \A m \in Messages : WithdrawMessages[m].status \notin LiveMessage
      BY <2>0 DEF WithdrawMessages, MessageRows, LiveMessage
    <3> QED
      BY <3>1, <3>2 DEF CancelledAttemptHoldsNoWork
  <2>8. ASSUME NEW n \in Attempts, StartAttempt(n)
        PROVE  Inv'
    <3>1. run'.attempt = n
      BY <2>0, <2>8 DEF StartAttempt, ReissueTask, RunRows
    <3>2. attempts'[n] = "active"
      BY <2>8 DEF StartAttempt, Supersede
    <3> QED
      BY <3>1, <3>2 DEF CancelledAttemptHoldsNoWork
  <2>9. ASSUME NEW S \in SUBSET Tasks, ExpireAgentTasks(S)
        PROVE  Inv'
    <3>1. \A t \in Tasks : \/ tasks'[t].status \notin LiveTask
                           \/ tasks[t].status \in LiveTask
      BY <2>0, <2>9 DEF ExpireAgentTasks, TaskRows, LiveTask
    <3>2. outbox' = outbox /\ attempts' = attempts /\ run'.attempt = run.attempt
      BY <2>9, BindingFrame
    <3> QED
      BY <2>1, <3>1, <3>2
  <2>10. CASE UNCHANGED vars
    BY <2>2, <2>10 DEF vars
  <2> QED
    BY <2>3, <2>4, <2>5, <2>6, <2>7, <2>8, <2>9, <2>10, StepKinds
<1> QED
  BY <1>1, <1>2, TypeCorrect, PTL DEF Spec

\* However claws are replaced, cancelled and late, the run's current attempt is
\* the only one that is active, that is addressed and that holds work.
THEOREM AuthorityFollowsTheAttempt == Spec => []AttemptAuthority
BY AttemptsExclusive, MessagesFollowTheAttempt, CancelledAttemptIdle, PTL
   DEF AttemptAuthority

--------------------------------------------------------------------------------
(***************************************************************************)
(* The context bundle comes first.  The strengthening: the run is active,  *)
(* and the driver past the bundle, only once the bundle is bound.          *)
(***************************************************************************)
PastContext == ContextKinds \cup {"suspend", "release", "start", "done"}

ContextInv ==
    \/ run.ctx
    \/ /\ run.status # "active" /\ driver \notin PastContext
       /\ \A k \in EffectKeys : effects[k].count = 0

\* A bound bundle is never unbound.
LEMMA ContextStays ==
    ASSUME TypeOK, Next, run.ctx
    PROVE  run'.ctx
<1>0. run \in RunRows
  BY DEF TypeOK, RowsOK
<1>1. CASE EventStep
  BY <1>1, EventSteps DEF EventFrame
<1>2. CASE OutboxStep \/ AssignStep
  BY <1>0, <1>2
     DEF OutboxStep, AcknowledgeControl, RejectControl, MarkControlSent,
         EnqueueControl, AssignStep, MaterializeAgentTask,
         MaterializeCommandTask, RunRows
<1>3. CASE LeaseStep
  BY <1>3, BindingFrame
<1>4. CASE DriverOnlyStep
  BY <1>0, <1>4 DEF DriverOnlyStep, AssembleContext, SuspendOnContextFailure,
                    CompleteActivation, DriverStops, WorkerStops, store, RunRows
<1>5. CASE CancelStep
  BY <1>0, <1>5 DEF CancelStep, CancelActivation, RunRows
<1>6. ASSUME NEW n \in Attempts, StartAttempt(n)
      PROVE  run'.ctx
  BY <1>0, <1>6 DEF StartAttempt, ReissueTask, RunRows
<1>7. ASSUME NEW S \in SUBSET Tasks, ExpireAgentTasks(S)
      PROVE  run'.ctx
  BY <1>0, <1>7 DEF ExpireAgentTasks, RunRows
<1> QED
  BY <1>1, <1>2, <1>3, <1>4, <1>5, <1>6, <1>7, StepKinds

\* Events, commands, assignments and new attempts all come after the bundle.
LEMMA EventsAfterContext ==
    ASSUME \/ EventStep \/ AssignStep \/ \E n \in Attempts : StartAttempt(n)
           \/ \E m \in Messages : EnqueueControl(m)
    PROVE  driver \in PastContext \/ run.status = "active"
<1>1. CASE EventStep
  BY <1>1 DEF EventStep, ApplyAgentControl, ApplyCommandReceipt, SubmitDelivery,
              PublishPolicyEvent, RejectAgentControl, ClaimPullRequest,
              ApplyContextEvent, ApplyStartCommand, ClawConnected, PastContext
<1>2. CASE AssignStep
  BY <1>2 DEF AssignStep, MaterializeAgentTask, MaterializeCommandTask,
              AttemptBound
<1> QED
  BY <1>1, <1>2 DEF StartAttempt, EnqueueControl, PastContext

\* Before the bundle, the remaining steps leave the run waiting.
LEMMA BeforeContext ==
    ASSUME TypeOK, ContextInv, Next, ~run.ctx, ~run'.ctx
    PROVE  /\ run'.status # "active" /\ driver' \notin PastContext
           /\ \A k \in EffectKeys : effects'[k].count = 0
<1> DEFINE Goal == /\ run'.status # "active" /\ driver' \notin PastContext
                   /\ \A k \in EffectKeys : effects'[k].count = 0
<1>0. /\ run \in RunRows /\ effects \in [EffectKeys -> EffectRows]
  BY DEF TypeOK, RowsOK
<1>1. /\ run.status # "active" /\ driver \notin PastContext
      /\ \A k \in EffectKeys : effects[k].count = 0
  BY DEF ContextInv
<1>2. ~(EventStep \/ AssignStep \/ \E n \in Attempts : StartAttempt(n))
  BY <1>1, EventsAfterContext
<1>3. CASE OutboxStep
  <2>1. UNCHANGED <<effects, driver>> /\ run'.status # "active"
    BY <1>0, <1>1, <1>3 DEF OutboxStep, AcknowledgeControl, RejectControl,
                            MarkControlSent, EnqueueControl, RunRows
  <2> QED
    BY <1>1, <2>1
<1>4. CASE LeaseStep
  <2>0. \A k \in EffectKeys : ExpireEffects[k].count = effects[k].count
    BY <1>0 DEF ExpireEffects, EffectRows
  <2>1. \A w \in Workers, k \in EffectKeys : ~ClaimEffect(w, k)
    BY <1>1 DEF ClaimEffect, Claimable
  <2>2. UNCHANGED <<run, driver>>
    BY <1>4 DEF LeaseStep, ClaimEffect, ClaimNothing, CompleteEffect,
                LeaseLapses, ResolveUnknownEffect
  <2>3. ASSUME NEW w \in Workers, ClaimNothing(w)
        PROVE  \A k \in EffectKeys : effects'[k].count = 0
    BY <1>1, <2>0, <2>3 DEF ClaimNothing
  <2>4. ASSUME NEW w \in Workers, CompleteEffect(w)
        PROVE  \A k \in EffectKeys : effects'[k].count = 0
    BY <1>0, <1>1, <2>4 DEF CompleteEffect, Settle, EffectRows
  <2>5. ASSUME NEW j \in EffectKeys, NEW st,
               LeaseLapses(j) \/ ResolveUnknownEffect(j, st)
        PROVE  \A k \in EffectKeys : effects'[k].count = 0
    BY <1>0, <1>1, <2>5 DEF LeaseLapses, ResolveUnknownEffect, EffectRows
  <2> QED
    BY <1>1, <1>4, <2>1, <2>2, <2>3, <2>4, <2>5 DEF LeaseStep
<1>5. CASE DriverOnlyStep
  <2>1. effects' = effects
    BY <1>5, BindingFrame
  <2>2. run'.status # "active" /\ driver' \notin PastContext
    BY <1>0, <1>1, <1>5
       DEF DriverOnlyStep, AssembleContext, SuspendOnContextFailure,
           CompleteActivation, DriverStops, WorkerStops, store, RunRows,
           PastContext, ContextKinds
  <2> QED
    BY <1>1, <2>1, <2>2
<1>6. CASE CancelStep
  <2>1. run'.status = "cancelled"
    BY <1>0, <1>6 DEF CancelStep, CancelActivation, RunRows
  <2>2. \A k \in EffectKeys : effects'[k].count = effects[k].count
    BY <1>0, <1>6 DEF CancelStep, CancelActivation, EffectRows
  <2> QED
    BY <1>1, <1>6, <2>1, <2>2 DEF CancelStep, PastContext, ContextKinds
<1>7. ASSUME NEW S \in SUBSET Tasks, ExpireAgentTasks(S)
      PROVE  Goal
  BY <1>1, <1>7 DEF ExpireAgentTasks
<1> QED
  BY <1>2, <1>3, <1>4, <1>5, <1>6, <1>7, StepKinds

\* No effect is claimed before the context bundle is bound, although the
\* effects of the initial state are planned with the run.
THEOREM ContextComesFirst == Spec => []ClaimsWaitForContext
<1>1. Init => ContextInv
  <2> SUFFICES ASSUME Init PROVE ContextInv
    OBVIOUS
  <2>1. /\ run.status = "suspended" /\ driver = "assemble"
        /\ \A k \in EffectKeys : effects[k] \in {Planned, Absent}
    BY DEF Init
  <2> QED
    BY <2>1 DEF ContextInv, PastContext, ContextKinds, Planned, Absent
<1>2. TypeOK /\ ContextInv /\ [Next]_vars => ContextInv'
  <2> SUFFICES ASSUME TypeOK, ContextInv, [Next]_vars PROVE ContextInv'
    OBVIOUS
  <2>1. CASE Next
    BY <2>1, ContextStays, BeforeContext DEF ContextInv
  <2>2. CASE UNCHANGED vars
    BY <2>2 DEF vars, ContextInv
  <2> QED
    BY <2>1, <2>2
<1>3. ContextInv => ClaimsWaitForContext
  BY DEF ContextInv, ClaimsWaitForContext
<1> QED
  BY <1>1, <1>2, <1>3, TypeCorrect, PTL DEF Spec

--------------------------------------------------------------------------------
(***************************************************************************)
(* A task is finished by its claw at its own version only.                 *)
(***************************************************************************)
\* Of all that an event may decide, only acceptance touches the bound task.
LEMMA EvaluateTasks ==
    ASSUME NEW e, NEW kind, NEW task, EvaluateEvent(e, kind, task)
    PROVE  tasks' = tasks \/ tasks' = UpdateBoundTask(kind, task)
<1>1. ASSUME NEW to, NEW defs, ApplyTransition(e, to, defs, kind, task)
      PROVE  tasks' = tasks \/ tasks' = UpdateBoundTask(kind, task)
  BY <1>1 DEF ApplyTransition, RejectAndSuspend, Advance
<1> QED
  BY <1>1 DEF EvaluateEvent, RejectAndSuspend, AcceptInPlace

\* An event bound to no task leaves the task rows alone.
LEMMA UnboundTasks ==
    ASSUME RowsOK, NEW kind
    PROVE  UpdateBoundTask(kind, Nobody) = tasks
<1>1. tasks \in [Tasks -> TaskRows] /\ Nobody \notin Tasks
  BY DEF RowsOK, Nobody, Tasks
<1> QED
  BY <1>1 DEF UpdateBoundTask

Finished(t) == /\ tasks[t].status \in LiveTask
               /\ tasks'[t].status \in {"completed", "failed"}

\* The only event that finishes a task is one of its claw's, bound to it.
LEMMA FinishedByItsClaw ==
    ASSUME TypeOK, Next, NEW t \in Tasks, Finished(t)
    PROVE  \E e \in EventIds, kind \in EventKinds, expected \in Versions :
              /\ ApplyEvent(e, kind, t, expected)
              /\ expected = run.version
<1>0. RowsOK /\ tasks \in [Tasks -> TaskRows]
  BY DEF TypeOK, RowsOK
<1>1. tasks' # tasks
  BY DEF Finished, LiveTask
<1>2. ASSUME NEW e, NEW kind, NEW expected, ApplyEvent(e, kind, Nobody, expected)
      PROVE  FALSE
  BY <1>0, <1>1, <1>2, EvaluateTasks, UnboundTasks DEF ApplyEvent, RecordEvent
<1>3. ASSUME NEW e \in EventIds, NEW kind \in EventKinds,
             ApplyAgentControl(e, kind)
      PROVE  \E expected \in Versions :
                ApplyEvent(e, kind, t, expected) /\ expected = run.version
  <2>1. PICK task \in {Nobody, run.task}, expected \in {Nobody} \cup Versions :
          /\ kind \in StateChangingKinds => expected # Nobody
          /\ ApplyEvent(e, kind, task, expected)
    BY <1>1, <1>3 DEF ApplyAgentControl, RecordEvent
  <2>2. /\ tasks' = UpdateBoundTask(kind, task)
        /\ expected \in {Nobody, run.version}
    BY <1>1, <2>1, EvaluateTasks DEF ApplyEvent, RecordEvent
  <2>3. task = t
    <3>1. task # t => UpdateBoundTask(kind, task)[t] = tasks[t]
      BY DEF UpdateBoundTask
    <3> QED
      BY <2>2, <3>1 DEF Finished, LiveTask
  <2>4. kind \in {"agent.task.completed", "agent.task.failed"}
    <3>1. tasks'[t].status = TaskStatusAfter(kind, tasks[t].status)
      BY <1>0, <2>2, <2>3 DEF UpdateBoundTask, TaskRows
    <3> QED
      BY <3>1 DEF TaskStatusAfter, Finished, LiveTask
  <2>5. kind \in StateChangingKinds
    BY <2>4 DEF StateChangingKinds, AgentKinds, TaskKinds
  <2> QED
    BY <2>1, <2>2, <2>3, <2>5
<1>4. CASE EventStep
  <2>1. ASSUME NEW e \in EventIds, NEW kind \in EventKinds,
               \/ ApplyCommandReceipt(e, kind) \/ SubmitDelivery(e, kind)
               \/ PublishPolicyEvent(e, kind)
        PROVE  FALSE
    BY <1>2, <2>1 DEF ApplyCommandReceipt, SubmitDelivery, PublishPolicyEvent
  <2>2. ASSUME NEW e \in EventIds, RejectAgentControl(e) \/ ClaimPullRequest(e)
        PROVE  FALSE
    BY <1>1, <2>2 DEF RejectAgentControl, ClaimPullRequest, RecordEvent
  <2>3. ASSUME NEW e \in EventIds, ApplyContextEvent(e)
        PROVE  FALSE
    BY <1>0, <1>1, <2>3, EvaluateTasks, UnboundTasks DEF ApplyContextEvent
  <2>4. ASSUME NEW e \in EventIds, ApplyStartCommand(e)
        PROVE  FALSE
    <3>1. ASSUME NEW to, ApplyTransition(e, to, {}, "operator.command.start",
                                         Nobody)
          PROVE  FALSE
      BY <1>0, <1>1, <3>1, UnboundTasks
         DEF ApplyTransition, RejectAndSuspend, Advance
    <3> QED
      BY <1>1, <2>4, <3>1 DEF ApplyStartCommand, store
  <2> QED
    BY <1>3, <1>4, <2>1, <2>2, <2>3, <2>4 DEF EventStep
<1>5. ~(OutboxStep \/ LeaseStep \/ DriverOnlyStep)
  <2>1. OutboxStep => tasks' = tasks
    BY DEF OutboxStep, AcknowledgeControl, RejectControl, MarkControlSent,
           EnqueueControl
  <2> QED
    BY <1>1, <2>1, BindingFrame
<1>6. ~CancelStep
  <2>1. CancelStep => tasks'[t] = [tasks[t] EXCEPT !.status = "cancelled"]
    BY DEF CancelStep, CancelActivation, Finished
  <2>2. [tasks[t] EXCEPT !.status = "cancelled"].status = "cancelled"
    BY <1>0 DEF TaskRows
  <2> QED
    BY <2>1, <2>2 DEF Finished
<1>7. ~AssignStep
  <2>1. ASSUME NEW w \in Workers, MaterializeAgentTask(w)
        PROVE  FALSE
    <3>1. PICK u \in Tasks :
            /\ FreshTask(u)
            /\ tasks' = [tasks EXCEPT ![u] =
                 [status |-> "assigned", effect |-> worker[w].key,
                  attempt |-> run.attempt, version |-> run.version]]
      BY <2>1 DEF MaterializeAgentTask
    <3> QED
      BY <1>0, <3>1 DEF Finished, FreshTask, LiveTask
  <2> QED
    BY <1>1, <2>1 DEF AssignStep, MaterializeCommandTask
<1>8. ASSUME NEW n \in Attempts, StartAttempt(n)
      PROVE  FALSE
  <2>1. PICK u \in Tasks :
          tasks' = [tasks EXCEPT
              ![run.task].status = "cancelled",
              ![u] = [tasks[run.task] EXCEPT !.status = "assigned",
                                             !.attempt = n]]
    BY <1>1, <1>8 DEF StartAttempt, ReissueTask
  <2>2. HasLiveTask
    BY <1>1, <1>8 DEF StartAttempt
  <2> QED
    BY <1>0, <2>1, <2>2 DEF Finished, HasLiveTask, TaskRows, LiveTask
<1>9. ASSUME NEW S \in SUBSET Tasks, ExpireAgentTasks(S)
      PROVE  FALSE
  BY <1>0, <1>9 DEF ExpireAgentTasks, Finished, LiveTask, TaskRows
<1> QED
  BY <1>4, <1>5, <1>6, <1>7, <1>8, <1>9, StepKinds

\* A completion or failure counts only for the current task, on the current
\* attempt, at the version the task was assigned at.
THEOREM FinishedAtItsVersion == Spec => TaskEndsAtItsVersion
<1>1. ASSUME TypeOK, [Next]_vars, NEW t \in Tasks, Finished(t)
      PROVE  /\ t = run.task
             /\ tasks[t].attempt = run.attempt
             /\ tasks[t].version = run.version
  <2>1. Next
    BY <1>1 DEF vars, Finished, LiveTask
  <2>2. PICK e \in EventIds, kind \in EventKinds, expected \in Versions :
          ApplyEvent(e, kind, t, expected) /\ expected = run.version
    BY <1>1, <2>1, FinishedByItsClaw
  <2>3. expected # Nobody /\ t # Nobody
    BY DEF Versions, Tasks, Nobody
  <2> QED
    BY <2>2, <2>3 DEF ApplyEvent, AuthorizeBoundTask
<1>2. TypeOK /\ [Next]_vars =>
        [\A t \in Tasks :
           /\ tasks[t].status \in LiveTask
           /\ tasks'[t].status \in {"completed", "failed"}
           => /\ t = run.task
              /\ tasks[t].attempt = run.attempt
              /\ tasks[t].version = run.version]_vars
  BY <1>1 DEF Finished
<1> QED
  BY <1>2, TypeCorrect, PTL DEF Spec, TaskEndsAtItsVersion

--------------------------------------------------------------------------------
(***************************************************************************)
(* The ledger.  A step either leaves it alone or appends the row of an     *)
(* event that was not recorded before.  The strengthening: an event with a *)
(* row is recorded, so that it cannot come again.                          *)
(***************************************************************************)
Still == /\ transitions' = transitions
         /\ run'.version = run.version /\ run'.state = run.state
         /\ \A e \in EventIds : events[e] # "none" => events'[e] # "none"

Moved(e, to) ==
    /\ events[e] = "none"
    /\ events' = [events EXCEPT ![e] = "accepted"]
    /\ run'.version = run.version + 1 /\ run'.state = to
    /\ transitions' = transitions \cup
          {[event |-> e, from |-> run.state, to |-> to,
            version |-> run.version + 1]}

MovedByEvent == \E e \in EventIds : \E to \in States : Moved(e, to)

RowsRecorded == \A r \in transitions :
                   r.event \in EventIds => events[r.event] # "none"

\* An event row that changes nothing else.
LEMMA RecordLedger ==
    ASSUME RowsOK, NEW e \in EventIds, NEW d, d # "none", RecordEvent(e, d)
    PROVE  Still
BY DEF RowsOK, RecordEvent, Still

LEMMA RejectLedger ==
    ASSUME RowsOK, NEW e \in EventIds, RejectAndSuspend(e)
    PROVE  Still
<1>1. /\ transitions' = transitions /\ events' = [events EXCEPT ![e] = "rejected"]
      /\ run' = [run EXCEPT !.status = "suspended", !.waiting = "reason"]
  BY DEF RejectAndSuspend
<1>2. run \in RunRows /\ DOMAIN events = EventIds
  BY DEF RowsOK
<1>3. run'.version = run.version /\ run'.state = run.state
  BY <1>1, <1>2 DEF RunRows
<1> QED
  BY <1>1, <1>2, <1>3 DEF Still

\* A transition appends its row, or is refused.
LEMMA TransitionLedger ==
    ASSUME RowsOK, NEW e \in EventIds, events[e] = "none", NEW to \in States,
           NEW defs, NEW kind, NEW task, ApplyTransition(e, to, defs, kind, task)
    PROVE  Still \/ MovedByEvent
<1>1. CASE RejectAndSuspend(e)
  BY <1>1, RejectLedger
<1>2. CASE Advance(e, to, defs, kind, task)
  <2>1. run \in RunRows
    BY DEF RowsOK
  <2>2. run'.version = run.version + 1 /\ run'.state = to
    BY <1>2, <2>1 DEF Advance, RunRows
  <2>3. /\ events' = [events EXCEPT ![e] = "accepted"]
        /\ transitions' = transitions \cup
              {[event |-> e, from |-> run.state, to |-> to,
                version |-> run.version + 1]}
    BY <1>2 DEF Advance
  <2> QED
    BY <2>2, <2>3 DEF Moved, MovedByEvent
<1> QED
  BY <1>1, <1>2 DEF ApplyTransition

LEMMA EvaluateLedger ==
    ASSUME RowsOK, NEW e \in EventIds, events[e] = "none", NEW kind, NEW task,
           EvaluateEvent(e, kind, task)
    PROVE  Still \/ MovedByEvent
<1>1. ASSUME NEW defs, AcceptInPlace(e, defs, kind, task)
      PROVE  Still
  <2>1. /\ transitions' = transitions
        /\ events' = [events EXCEPT ![e] = "accepted"]
        /\ run' = [run EXCEPT !.task = CurrentTaskAfter(kind, task)]
    BY <1>1 DEF AcceptInPlace
  <2>2. run \in RunRows /\ DOMAIN events = EventIds
    BY DEF RowsOK
  <2>3. run'.version = run.version /\ run'.state = run.state
    BY <2>1, <2>2 DEF RunRows
  <2> QED
    BY <2>1, <2>2, <2>3 DEF Still
<1>2. \A t \in Transitions : t.to \in States
  BY WorkflowAssumption DEF ValidWorkflow, TransitionDefs
<1>3. ASSUME NEW t \in Transitions, NEW defs,
             ApplyTransition(e, t.to, defs, kind, task)
      PROVE  Still \/ MovedByEvent
  BY <1>2, <1>3, TransitionLedger
<1> QED
  BY <1>1, <1>3, RejectLedger DEF EvaluateEvent, Listeners

\* Every event and command does one or the other.
LEMMA EventLedger ==
    ASSUME TypeOK, EventStep
    PROVE  Still \/ MovedByEvent
<1>0. RowsOK
  BY DEF TypeOK
<1>1. ASSUME NEW e \in EventIds, NEW kind, NEW task, NEW expected,
             ApplyEvent(e, kind, task, expected)
      PROVE  Still \/ MovedByEvent
  BY <1>0, <1>1, RecordLedger, EvaluateLedger DEF ApplyEvent
<1>2. ASSUME NEW e \in EventIds, NEW kind \in EventKinds,
             ApplyAgentControl(e, kind)
      PROVE  Still \/ MovedByEvent
  BY <1>0, <1>1, <1>2, RecordLedger DEF ApplyAgentControl
<1>3. ASSUME NEW e \in EventIds, NEW kind \in EventKinds,
             \/ ApplyCommandReceipt(e, kind) \/ SubmitDelivery(e, kind)
             \/ PublishPolicyEvent(e, kind)
      PROVE  Still \/ MovedByEvent
  BY <1>1, <1>3 DEF ApplyCommandReceipt, SubmitDelivery, PublishPolicyEvent
<1>4. ASSUME NEW e \in EventIds, RejectAgentControl(e) \/ ClaimPullRequest(e)
      PROVE  Still
  BY <1>0, <1>4, RecordLedger DEF RejectAgentControl, ClaimPullRequest
<1>5. ASSUME NEW e \in EventIds, ApplyContextEvent(e)
      PROVE  Still \/ MovedByEvent
  BY <1>0, <1>5, EvaluateLedger DEF ApplyContextEvent
<1>6. ASSUME NEW e \in EventIds, ApplyStartCommand(e)
      PROVE  Still \/ MovedByEvent
  <2>1. UNCHANGED store => Still
    BY DEF store, Still
  <2>2. \A c \in StartCommands : c.to \in States
    BY WorkflowAssumption DEF ValidWorkflow, CommandDefs
  <2> QED
    BY <1>0, <1>6, <2>1, <2>2, TransitionLedger DEF ApplyStartCommand
<1> QED
  BY <1>2, <1>3, <1>4, <1>5, <1>6 DEF EventStep

LEMMA NextLedger ==
    ASSUME TypeOK, [Next]_vars
    PROVE  Still \/ MovedByEvent
<1>0. run \in RunRows
  BY DEF TypeOK, RowsOK
<1>1. CASE EventStep
  BY <1>1, EventLedger
<1>2. CASE OutboxStep
  BY <1>0, <1>2 DEF OutboxStep, AcknowledgeControl, RejectControl,
                    MarkControlSent, EnqueueControl, RunRows, Still
<1>3. CASE LeaseStep
  BY <1>3 DEF LeaseStep, ClaimEffect, ClaimNothing, CompleteEffect, LeaseLapses,
              ResolveUnknownEffect, Still
<1>4. CASE AssignStep
  BY <1>0, <1>4 DEF AssignStep, MaterializeAgentTask, MaterializeCommandTask,
                    RunRows, Still
<1>5. CASE DriverOnlyStep
  BY <1>0, <1>5 DEF DriverOnlyStep, AssembleContext, SuspendOnContextFailure,
                    CompleteActivation, DriverStops, WorkerStops, store, RunRows,
                    Still
<1>6. CASE CancelStep
  BY <1>0, <1>6 DEF CancelStep, CancelActivation, RunRows, Still
<1>7. ASSUME NEW n \in Attempts, StartAttempt(n)
      PROVE  Still
  BY <1>0, <1>7 DEF StartAttempt, ReissueTask, RunRows, Still
<1>8. ASSUME NEW S \in SUBSET Tasks, ExpireAgentTasks(S)
      PROVE  Still
  BY <1>0, <1>8 DEF ExpireAgentTasks, RunRows, Still
<1>9. CASE UNCHANGED vars
  BY <1>9 DEF vars, Still
<1> QED
  BY <1>1, <1>2, <1>3, <1>4, <1>5, <1>6, <1>7, <1>8, <1>9, StepKinds

\* The ledger is one contiguous history that replays to the run row, and no
\* event moves the run twice, whatever races for a version.
THEOREM LedgerIsHistory == Spec => []LedgerReplays
<1> DEFINE Inv == LedgerReplays /\ RowsRecorded
<1>1. Init => Inv
  <2> SUFFICES ASSUME Init PROVE Inv
    OBVIOUS
  <2> DEFINE row == [event |-> Created, from |-> "", to |-> InitialState,
                     version |-> 1]
  <2>0. transitions = {row}
    BY DEF Init
  <2>1. /\ transitions = {row}
        /\ row.event = Created /\ row.version = 1 /\ row.to = InitialState
    BY <2>0
  <2> HIDE DEF row
  <2>2. run.version = 1 /\ run.state = InitialState
    BY DEF Init
  <2>3. Created \notin EventIds
    BY NamesAssumption
  <2>4. {r.version : r \in transitions} = {1}
    BY <2>1
  <2>5. 1 .. 1 = {1}
    OBVIOUS
  <2> QED
    BY <2>1, <2>2, <2>3, <2>4, <2>5 DEF LedgerReplays, RowsRecorded
<1>2. TypeOK /\ Inv /\ [Next]_vars => Inv'
  <2> SUFFICES ASSUME TypeOK, Inv, [Next]_vars PROVE Inv'
    OBVIOUS
  <2>1. CASE Still
    BY <2>1 DEF Still, LedgerReplays, RowsRecorded
  <2>2. ASSUME NEW e \in EventIds, NEW to \in States, Moved(e, to)
        PROVE  Inv'
    <3> DEFINE v == run.version
               row == [event |-> e, from |-> run.state, to |-> to,
                       version |-> v + 1]
    <3>1. /\ transitions' = transitions \cup {row}
          /\ run'.version = v + 1 /\ run'.state = to
          /\ events' = [events EXCEPT ![e] = "accepted"] /\ events[e] = "none"
      BY <2>2 DEF Moved
    <3>2. v \in Nat /\ v >= 1 /\ DOMAIN events = EventIds
      BY RunFields DEF TypeOK, RowsOK, Versions
    <3>3. e # Created
      BY NamesAssumption
    <3>4. \A r \in transitions : r.version \in 1 .. v /\ r.event # e
      BY <3>1 DEF LedgerReplays, RowsRecorded
    <3>5. {r.version : r \in transitions'} = 1 .. run'.version
      <4>0. row.version = v + 1
        OBVIOUS
      <4>1. {r.version : r \in transitions'}
              = {r.version : r \in transitions} \cup {v + 1}
        <5> HIDE DEF row
        <5> QED
          BY <3>1, <4>0
      <4>2. {r.version : r \in transitions} = 1 .. v
        BY DEF LedgerReplays
      <4>3. 1 .. (v + 1) = (1 .. v) \cup {v + 1}
        BY <3>2
      <4> QED
        BY <3>1, <4>1, <4>2, <4>3
    <3>6. \A r \in transitions' :
            /\ r.version = run'.version => r.to = run'.state
            /\ r.version = 1 <=> r.event = Created
      BY <3>1, <3>2, <3>3, <3>4 DEF LedgerReplays
    <3>7. \A q, r \in transitions' :
            /\ r.version = q.version + 1 => r.from = q.to
            /\ q.version = r.version \/ q.event = r.event => q = r
      <4> SUFFICES ASSUME NEW q \in transitions', NEW r \in transitions'
                   PROVE  /\ r.version = q.version + 1 => r.from = q.to
                          /\ q.version = r.version \/ q.event = r.event => q = r
        OBVIOUS
      <4>1. CASE q \in transitions /\ r \in transitions
        BY <4>1 DEF LedgerReplays
      <4>2. CASE q \in transitions /\ r = row
        BY <3>2, <3>4, <4>2 DEF LedgerReplays
      <4>3. CASE q = row /\ r \in transitions
        BY <3>2, <3>4, <4>3
      <4>4. CASE q = row /\ r = row
        BY <3>2, <4>4
      <4> QED
        BY <3>1, <4>1, <4>2, <4>3, <4>4
    <3>8. RowsRecorded'
      BY <3>1, <3>2 DEF RowsRecorded
    <3> QED
      BY <3>5, <3>6, <3>7, <3>8 DEF LedgerReplays
  <2> QED
    BY <2>1, <2>2, NextLedger DEF MovedByEvent
<1> QED
  BY <1>1, <1>2, TypeCorrect, PTL DEF Spec

--------------------------------------------------------------------------------
(***************************************************************************)
(* Effects: the lease, the attempt rows, settlement, the single assignment *)
(* and the refinement of the abstract ledger.                              *)
(***************************************************************************)
Settled == {"succeeded", "permanent_failed", "cancelled"}

\* What the proofs use of the type invariant about effects and claims.
LEMMA EffectTypes ==
    ASSUME TypeOK
    PROVE  /\ effects \in [EffectKeys -> EffectRows]
           /\ tries \in [EffectKeys -> [Tries -> TryStatuses]]
           /\ \A w \in Workers : worker[w].pc = "claimed" =>
                 worker[w].key \in EffectKeys /\ worker[w].try \in Tries
<1>1. /\ effects \in [EffectKeys -> EffectRows]
      /\ tries \in [EffectKeys -> [Tries -> TryStatuses]]
  BY DEF TypeOK, RowsOK
<1>2. ASSUME NEW w \in Workers, worker[w].pc = "claimed"
      PROVE  worker[w].key \in EffectKeys /\ worker[w].try \in Tries
  <2>1. worker[w] \in Claims
    BY DEF TypeOK, MemoryOK
  <2> QED
    BY <1>2, <2>1 DEF Claims
<1> QED
  BY <1>1, <1>2

\* A settled row is left alone by every step.
LEMMA SettledStep ==
    ASSUME TypeOK, [Next]_vars, NEW k \in EffectKeys,
           effects[k].status \in Settled
    PROVE  effects'[k] = effects[k]
<1>0. effects \in [EffectKeys -> EffectRows]
  BY EffectTypes
<1>1. CASE UNCHANGED effects
  BY <1>1
<1>2. CASE EventStep
  BY <1>2, EventSteps DEF EventFrame, Settled
<1>3. CASE OutboxStep
  BY <1>3 DEF OutboxStep, AcknowledgeControl, RejectControl, MarkControlSent,
              EnqueueControl
<1>4. CASE DriverOnlyStep
  BY <1>4, BindingFrame
<1>5. ASSUME NEW w \in Workers, NEW st, Leased(w), Settle(w, st)
      PROVE  effects'[k] = effects[k]
  <2>1. k # worker[w].key
    BY <1>5 DEF Leased, Settled
  <2> QED
    BY <1>0, <1>5, <2>1 DEF Settle
<1>6. CASE AssignStep
  BY <1>5, <1>6 DEF AssignStep, MaterializeAgentTask, MaterializeCommandTask
<1>7. CASE LeaseStep
  <2>e. ExpireEffects[k] = effects[k]
    BY DEF ExpireEffects, Expired, Settled
  <2>1. ASSUME NEW w \in Workers, NEW j \in EffectKeys, ClaimEffect(w, j)
        PROVE  effects'[k] = effects[k]
    <3>1. k # j
      BY <2>1 DEF ClaimEffect, Claimable, Settled
    <3>2. effects' = [ExpireEffects EXCEPT ![j] =
             [status |-> "running", count |-> effects[j].count + 1,
              owner |-> w, lease |-> TRUE]]
      BY <2>1 DEF ClaimEffect
    <3> QED
      BY <2>e, <3>1, <3>2 DEF ExpireEffects
  <2>2. ASSUME NEW w \in Workers, ClaimNothing(w)
        PROVE  effects'[k] = effects[k]
    BY <2>e, <2>2 DEF ClaimNothing
  <2>3. ASSUME NEW w \in Workers, CompleteEffect(w)
        PROVE  effects'[k] = effects[k]
    BY <1>5, <2>3 DEF CompleteEffect
  <2>4. ASSUME NEW j \in EffectKeys, LeaseLapses(j)
        PROVE  effects'[k] = effects[k]
    BY <1>0, <2>4 DEF LeaseLapses, Settled
  <2>5. ASSUME NEW j \in EffectKeys, NEW st, ResolveUnknownEffect(j, st)
        PROVE  effects'[k] = effects[k]
    BY <1>0, <2>5 DEF ResolveUnknownEffect, Settled
  <2> QED
    BY <1>7, <2>1, <2>2, <2>3, <2>4, <2>5 DEF LeaseStep
<1>8. CASE CancelStep
  BY <1>8 DEF CancelStep, CancelActivation, Unsettled, Settled
<1>9. ASSUME NEW n \in Attempts, StartAttempt(n)
      PROVE  effects'[k] = effects[k]
  BY <1>9 DEF StartAttempt
<1>10. ASSUME NEW S \in SUBSET Tasks, ExpireAgentTasks(S)
       PROVE  effects'[k] = effects[k]
  BY <1>10, BindingFrame
<1>11. CASE UNCHANGED vars
  BY <1>11 DEF vars
<1> QED
  BY <1>2, <1>3, <1>4, <1>6, <1>7, <1>8, <1>9, <1>10, <1>11, StepKinds

\* No step, of whatever worker or process, moves an effect that succeeded,
\* failed for good or was cancelled.
THEOREM SettledNeverMoves == Spec => SettledIsFinal
<1>1. TypeOK /\ [Next]_vars =>
        [\A k \in EffectKeys :
           effects[k].status \in {"succeeded", "permanent_failed", "cancelled"}
             => effects'[k] = effects[k]]_vars
  BY SettledStep DEF Settled
<1> QED
  BY <1>1, TypeCorrect, PTL DEF Spec, SettledIsFinal

--------------------------------------------------------------------------------
(***************************************************************************)
(* The effect row against its attempt rows.  LeaseDiscipline needs one     *)
(* more fact to be inductive: a row that does not exist yet has no tries,  *)
(* so scheduling it starts from zero.                                      *)
(***************************************************************************)
LeaseAt(k) ==
    /\ (effects[k].owner # NoWorker) <=> (effects[k].status = "running")
    /\ \A i \in Tries :
          /\ (tries[k][i] = "running") <=>
                (effects[k].status = "running" /\ i = effects[k].count)
          /\ (tries[k][i] # "none") <=> (i <= effects[k].count)

AbsentIsUntried(k) == effects[k].status = "none" => effects[k].count = 0

LeaseInv(k) == LeaseAt(k) /\ AbsentIsUntried(k)

\* A worker that still holds its lease settles the latest attempt.
LEMMA SettleKeepsLeases ==
    ASSUME TypeOK, \A j \in EffectKeys : LeaseInv(j),
           NEW w \in Workers, Leased(w),
           NEW st \in {"succeeded", "retryable_failed", "permanent_failed"},
           Settle(w, st), NEW k \in EffectKeys
    PROVE  LeaseInv(k)'
<1> DEFINE j == worker[w].key
           n == worker[w].try
<1>0. /\ effects \in [EffectKeys -> EffectRows]
      /\ tries \in [EffectKeys -> [Tries -> TryStatuses]]
  BY EffectTypes
<1>1. j \in EffectKeys /\ n \in Tries
  BY EffectTypes DEF Leased
<1>2. n = effects[j].count
  BY <1>1 DEF Leased, LeaseInv, LeaseAt
<1>3. /\ effects' = [effects EXCEPT ![j].status = st, ![j].owner = NoWorker,
                                    ![j].lease = FALSE]
      /\ tries' = [tries EXCEPT ![j][n] = st]
  BY DEF Settle
<1>4. CASE k # j
  <2>1. effects'[k] = effects[k] /\ tries'[k] = tries[k]
    BY <1>0, <1>1, <1>3, <1>4
  <2> QED
    BY <2>1 DEF LeaseInv, LeaseAt, AbsentIsUntried
<1>5. CASE k = j
  <2>1. /\ effects'[k].status = st /\ effects'[k].owner = NoWorker
        /\ effects'[k].count = effects[k].count
    BY <1>0, <1>1, <1>3, <1>5 DEF EffectRows
  <2>2. \A i \in Tries : tries'[k][i] = IF i = n THEN st ELSE tries[k][i]
    BY <1>0, <1>1, <1>3, <1>5
  <2>3. \A i \in Tries : /\ (tries[k][i] = "running") <=> (i = n)
                         /\ (tries[k][i] # "none") <=> (i <= effects[k].count)
    BY <1>1, <1>2, <1>5 DEF Leased, LeaseInv, LeaseAt
  <2>4. \A i \in Tries : /\ tries'[k][i] # "running"
                         /\ (tries'[k][i] # "none") <=> (i <= effects[k].count)
    BY <1>1, <2>2, <2>3
  <2> QED
    BY <2>1, <2>4 DEF LeaseInv, LeaseAt, AbsentIsUntried
<1> QED
  BY <1>4, <1>5

\* The sweep moves row and attempt rows together.
LEMMA SweepKeepsLeases ==
    ASSUME TypeOK, NEW k \in EffectKeys, LeaseInv(k)
    PROVE  /\ (ExpireEffects[k].owner # NoWorker)
                <=> (ExpireEffects[k].status = "running")
           /\ \A i \in Tries :
                 /\ (ExpireTries[k][i] = "running") <=>
                       (/\ ExpireEffects[k].status = "running"
                        /\ i = ExpireEffects[k].count)
                 /\ (ExpireTries[k][i] # "none") <=> (i <= ExpireEffects[k].count)
           /\ ExpireEffects[k].status = "none" => ExpireEffects[k].count = 0
<1>0. effects[k] \in EffectRows
  BY EffectTypes
<1>1. CASE k \in Expired
  <2>1. /\ ExpireEffects[k].status = "unknown"
        /\ ExpireEffects[k].owner = NoWorker
        /\ ExpireEffects[k].count = effects[k].count
    BY <1>0, <1>1 DEF ExpireEffects, EffectRows
  <2>2. \A i \in Tries : ExpireTries[k][i] =
           IF tries[k][i] = "running" THEN "unknown" ELSE tries[k][i]
    BY <1>1 DEF ExpireTries
  <2> QED
    BY <2>1, <2>2 DEF LeaseInv, LeaseAt
<1>2. CASE k \notin Expired
  <2>1. ExpireEffects[k] = effects[k] /\ ExpireTries[k] = tries[k]
    BY <1>2 DEF ExpireEffects, ExpireTries
  <2> QED
    BY <2>1 DEF LeaseInv, LeaseAt, AbsentIsUntried
<1> QED
  BY <1>1, <1>2

\* A claim opens the next attempt and nothing else.
LEMMA ClaimKeepsLeases ==
    ASSUME TypeOK, \A i \in EffectKeys : LeaseInv(i),
           NEW w \in Workers, NEW j \in EffectKeys, ClaimEffect(w, j),
           NEW k \in EffectKeys
    PROVE  LeaseInv(k)'
<1> DEFINE n == effects[j].count + 1
<1>0. /\ effects[j] \in EffectRows
      /\ tries \in [EffectKeys -> [Tries -> TryStatuses]]
  BY EffectTypes
<1>1. /\ effects' = [ExpireEffects EXCEPT ![j] =
            [status |-> "running", count |-> n, owner |-> w, lease |-> TRUE]]
      /\ tries' = [ExpireTries EXCEPT ![j][n] = "running"]
      /\ effects[j].status \in {"planned", "retryable_failed"}
      /\ effects[j].count < MaxTries
  BY DEF ClaimEffect, Claimable
<1>2. /\ DOMAIN ExpireEffects = EffectKeys /\ DOMAIN ExpireTries = EffectKeys
  BY DEF ExpireEffects, ExpireTries
<1>3. CASE k # j
  <2>1. effects'[k] = ExpireEffects[k] /\ tries'[k] = ExpireTries[k]
    BY <1>1, <1>2, <1>3
  <2> QED
    BY <2>1, SweepKeepsLeases DEF LeaseInv, LeaseAt, AbsentIsUntried
<1>4. CASE k = j
  <2>1. ExpireTries[j] = tries[j]
    BY <1>1 DEF ExpireTries, Expired
  <2>2. n \in Tries /\ effects[j].count \in Nat
    BY <1>0, <1>1, BoundsNat DEF Tries, EffectRows
  <2>3. /\ effects'[k].status = "running" /\ effects'[k].count = n
        /\ effects'[k].owner = w
    BY <1>1, <1>2, <1>4
  <2>4. \A i \in Tries : tries'[k][i] = IF i = n THEN "running" ELSE tries[k][i]
    BY <1>0, <1>1, <1>2, <1>4, <2>1, <2>2
  <2>5. \A i \in Tries : i \in Nat
    BY DEF Tries
  <2>6. w # NoWorker
    BY NamesAssumption
  <2>7. \A i \in Tries : tries[k][i] # "running"
    BY <1>1, <1>4 DEF LeaseInv, LeaseAt
  <2>8. \A i \in Tries : (tries[k][i] # "none") <=> (i <= effects[j].count)
    BY <1>4 DEF LeaseInv, LeaseAt
  <2>9. \A i \in Tries : /\ (tries'[k][i] = "running") <=> (i = n)
                         /\ (tries'[k][i] # "none") <=> (i <= n)
    BY <2>2, <2>4, <2>5, <2>7, <2>8
  <2> QED
    BY <2>3, <2>6, <2>9 DEF LeaseInv, LeaseAt, AbsentIsUntried
<1> QED
  BY <1>3, <1>4

\* Every step keeps row and attempt rows in agreement.
LEMMA LeaseStepKept ==
    ASSUME TypeOK, [Next]_vars, \A j \in EffectKeys : LeaseInv(j),
           NEW k \in EffectKeys
    PROVE  LeaseInv(k)'
<1>0. /\ effects \in [EffectKeys -> EffectRows]
      /\ tries \in [EffectKeys -> [Tries -> TryStatuses]]
  BY EffectTypes
<1>1. CASE effects'[k] = effects[k] /\ tries'[k] = tries[k]
  BY <1>1 DEF LeaseInv, LeaseAt, AbsentIsUntried
<1>2. CASE EventStep
  <2>1. CASE effects[k].status = "none" /\ effects'[k] = Planned
    <3>1. tries'[k] = tries[k]
      BY <1>2, EventSteps DEF EventFrame
    <3>2. effects[k].count = 0
      BY <2>1 DEF LeaseInv, AbsentIsUntried
    <3>3. /\ effects'[k].status = "planned" /\ effects'[k].owner = NoWorker
          /\ effects'[k].count = 0
      BY <2>1 DEF Planned
    <3> QED
      BY <2>1, <3>1, <3>2, <3>3 DEF LeaseInv, LeaseAt, AbsentIsUntried
  <2> QED
    BY <1>1, <1>2, <2>1, EventSteps DEF EventFrame
<1>3. CASE OutboxStep
  BY <1>1, <1>3 DEF OutboxStep, AcknowledgeControl, RejectControl,
                    MarkControlSent, EnqueueControl
<1>4. CASE DriverOnlyStep
  BY <1>1, <1>4, BindingFrame
<1>5. CASE AssignStep
  BY <1>5, SettleKeepsLeases
     DEF AssignStep, MaterializeAgentTask, MaterializeCommandTask
<1>6. CASE LeaseStep
  <2>1. ASSUME NEW w \in Workers, ClaimNothing(w)
        PROVE  LeaseInv(k)'
    <3>1. effects'[k] = ExpireEffects[k] /\ tries'[k] = ExpireTries[k]
      BY <2>1 DEF ClaimNothing
    <3> QED
      BY <3>1, SweepKeepsLeases DEF LeaseInv, LeaseAt, AbsentIsUntried
  <2>2. ASSUME NEW w \in Workers, CompleteEffect(w)
        PROVE  LeaseInv(k)'
    <3>1. CASE ~Leased(w)
      BY <1>1, <2>2, <3>1 DEF CompleteEffect
    <3>2. CASE Leased(w)
      BY <2>2, <3>2, SettleKeepsLeases DEF CompleteEffect
    <3> QED
      BY <3>1, <3>2
  <2>3. ASSUME NEW j \in EffectKeys, LeaseLapses(j)
        PROVE  LeaseInv(k)'
    <3>1. /\ effects'[k].status = effects[k].status
          /\ effects'[k].owner = effects[k].owner
          /\ effects'[k].count = effects[k].count
          /\ tries'[k] = tries[k]
      BY <1>0, <2>3 DEF LeaseLapses, EffectRows
    <3> QED
      BY <3>1 DEF LeaseInv, LeaseAt, AbsentIsUntried
  <2>4. ASSUME NEW j \in EffectKeys,
               NEW st \in {"succeeded", "retryable_failed", "permanent_failed",
                           "cancelled"},
               ResolveUnknownEffect(j, st)
        PROVE  LeaseInv(k)'
    <3>1. CASE k # j
      BY <1>0, <1>1, <2>4, <3>1 DEF ResolveUnknownEffect
    <3>2. CASE k = j
      <4>1. /\ effects'[k].status = st /\ effects[k].status = "unknown"
            /\ effects'[k].owner = effects[k].owner
            /\ effects'[k].count = effects[k].count
            /\ tries'[k] = tries[k]
        BY <1>0, <2>4, <3>2 DEF ResolveUnknownEffect, EffectRows
      <4> QED
        BY <4>1 DEF LeaseInv, LeaseAt, AbsentIsUntried
    <3> QED
      BY <3>1, <3>2
  <2> QED
    BY <1>6, <2>1, <2>2, <2>3, <2>4, ClaimKeepsLeases DEF LeaseStep
<1>7. CASE CancelStep
  <2>1. \A i \in Tries : tries'[k][i] = IF tries[k][i] = "running"
                                        THEN "cancelled" ELSE tries[k][i]
    BY <1>7 DEF CancelStep, CancelActivation
  <2>2. CASE effects[k].status \in Unsettled
    <3>1. /\ effects'[k].status = "cancelled" /\ effects'[k].owner = NoWorker
          /\ effects'[k].count = effects[k].count
      BY <1>0, <1>7, <2>2 DEF CancelStep, CancelActivation, EffectRows
    <3> QED
      BY <2>1, <3>1 DEF LeaseInv, LeaseAt, AbsentIsUntried
  <2>3. CASE effects[k].status \notin Unsettled
    <3>1. effects'[k] = effects[k] /\ effects[k].status # "running"
      BY <1>7, <2>3 DEF CancelStep, CancelActivation, Unsettled
    <3> QED
      BY <2>1, <3>1 DEF LeaseInv, LeaseAt, AbsentIsUntried
  <2> QED
    BY <2>2, <2>3
<1>8. ASSUME NEW n \in Attempts, StartAttempt(n)
      PROVE  LeaseInv(k)'
  BY <1>1, <1>8 DEF StartAttempt
<1>9. ASSUME NEW S \in SUBSET Tasks, ExpireAgentTasks(S)
      PROVE  LeaseInv(k)'
  BY <1>1, <1>9, BindingFrame
<1>10. CASE UNCHANGED vars
  BY <1>1, <1>10 DEF vars
<1> QED
  BY <1>2, <1>3, <1>4, <1>5, <1>6, <1>7, <1>8, <1>9, <1>10, StepKinds

\* However claims, sweeps, crashes, reconciliation and cancellation
\* interleave, an effect is running exactly when its latest attempt is.
THEOREM LeasesDisciplined == Spec => []LeaseDiscipline
<1> DEFINE Inv == \A k \in EffectKeys : LeaseInv(k)
<1>1. Init => Inv
  <2> SUFFICES ASSUME Init, NEW k \in EffectKeys PROVE LeaseInv(k)
    OBVIOUS
  <2>1. /\ effects[k] \in {Planned, Absent}
        /\ tries[k] = [i \in Tries |-> "none"]
    BY DEF Init
  <2>2. \A i \in Tries : i \in Nat /\ i > 0
    BY DEF Tries
  <2> QED
    BY <2>1, <2>2 DEF LeaseInv, LeaseAt, AbsentIsUntried, Planned, Absent
<1>2. TypeOK /\ Inv /\ [Next]_vars => Inv'
  BY LeaseStepKept
<1>3. Inv => LeaseDiscipline
  BY DEF LeaseInv, LeaseAt, LeaseDiscipline
<1> QED
  BY <1>1, <1>2, <1>3, TypeCorrect, PTL DEF Spec

--------------------------------------------------------------------------------
(***************************************************************************)
(* One assignment per effect.  The strengthening: a task row exists only   *)
(* for an effect that has succeeded, and that never changes again.         *)
(***************************************************************************)
TasksBacked ==
    \A t \in Tasks : tasks[t].status # "none" =>
        /\ tasks[t].effect \in EffectKeys
        /\ effects[tasks[t].effect].status = "succeeded"

AssignInv == AssignedOnce /\ TasksBacked

\* A step that gives no effect to a message and no task to an effect.
NoNewWork ==
    /\ \A m \in Messages : outbox'[m].effect \in {outbox[m].effect, NoKey}
    /\ \A t \in Tasks :
          /\ tasks'[t].effect = tasks[t].effect
          /\ tasks'[t].status # "none" => tasks[t].status # "none"
          /\ tasks'[t].status \in LiveTask => tasks[t].status \in LiveTask

\* An effect that succeeded stays so.
LEMMA SucceededStays ==
    ASSUME TypeOK, [Next]_vars, NEW k \in EffectKeys,
           effects[k].status = "succeeded"
    PROVE  effects'[k].status = "succeeded"
BY SettledStep DEF Settled

\* A message carries an effect of this run, or none.
LEMMA MessageEffects ==
    ASSUME TypeOK, NEW m \in Messages, outbox[m].effect # NoKey
    PROVE  outbox[m].effect \in EffectKeys
<1>1. outbox[m] \in MessageRows
  BY DEF TypeOK, RowsOK
<1> QED
  BY <1>1 DEF MessageRows

LEMMA NoNewWorkKept ==
    ASSUME TypeOK, [Next]_vars, AssignInv, NoNewWork
    PROVE  AssignInv'
<1>1. ASSUME NEW m \in Messages, outbox'[m].effect # NoKey
      PROVE  /\ effects'[outbox'[m].effect].status = "succeeded"
             /\ outbox'[m].effect = outbox[m].effect
  <2>1. outbox'[m].effect = outbox[m].effect
    BY <1>1 DEF NoNewWork
  <2>2. outbox[m].effect \in EffectKeys
    BY <1>1, <2>1, MessageEffects
  <2>3. effects[outbox[m].effect].status = "succeeded"
    BY <1>1, <2>1 DEF AssignInv, AssignedOnce
  <2> QED
    BY <2>1, <2>2, <2>3, SucceededStays
<1>2. TasksBacked'
  <2> SUFFICES ASSUME NEW t \in Tasks, tasks'[t].status # "none"
               PROVE  /\ tasks'[t].effect \in EffectKeys
                      /\ effects'[tasks'[t].effect].status = "succeeded"
    BY DEF TasksBacked
  <2>1. /\ tasks'[t].effect = tasks[t].effect
        /\ tasks[t].effect \in EffectKeys
        /\ effects[tasks[t].effect].status = "succeeded"
    BY DEF NoNewWork, AssignInv, TasksBacked
  <2> QED
    BY <2>1, SucceededStays
<1>3. \A m, n \in Messages :
        outbox'[m].effect # NoKey /\ outbox'[m].effect = outbox'[n].effect
          => m = n
  BY <1>1 DEF AssignInv, AssignedOnce
<1>4. \A t, u \in Tasks :
        /\ tasks'[t].status \in LiveTask /\ tasks'[u].status \in LiveTask
        /\ tasks'[t].effect = tasks'[u].effect
        => t = u
  BY DEF NoNewWork, AssignInv, AssignedOnce
<1> QED
  BY <1>1, <1>2, <1>3, <1>4 DEF AssignInv, AssignedOnce

\* A worker gives an effect out while the row reads "running", so no earlier
\* message or task can carry it.
LEMMA MaterializeKept ==
    ASSUME TypeOK, [Next]_vars, AssignInv, NEW w \in Workers,
           MaterializeAgentTask(w) \/ MaterializeCommandTask(w)
    PROVE  AssignInv'
<1> DEFINE k == worker[w].key
<1>0. /\ outbox \in [Messages -> MessageRows] /\ tasks \in [Tasks -> TaskRows]
      /\ effects \in [EffectKeys -> EffectRows]
  BY DEF TypeOK, RowsOK
<1>1. Leased(w) /\ Settle(w, "succeeded")
  BY DEF MaterializeAgentTask, MaterializeCommandTask
<1>2. k \in EffectKeys /\ effects[k].status = "running"
  BY <1>1, EffectTypes DEF Leased
<1>3. effects'[k].status = "succeeded"
  BY <1>0, <1>1, <1>2 DEF Settle, EffectRows
<1>4. \A m \in Messages : outbox[m].effect = k => k = NoKey
  BY <1>2 DEF AssignInv, AssignedOnce
<1>5. \A t \in Tasks : tasks[t].status # "none" => tasks[t].effect # k
  BY <1>2 DEF AssignInv, TasksBacked
<1>6. PICK m0 \in Messages :
        \A m \in Messages : outbox'[m].effect = IF m = m0 THEN k
                                                ELSE outbox[m].effect
  BY <1>0 DEF MaterializeAgentTask, MaterializeCommandTask
<1>7. \/ tasks' = tasks
      \/ \E t0 \in Tasks : \A t \in Tasks :
            IF t = t0 THEN tasks'[t].effect = k ELSE tasks'[t] = tasks[t]
  BY <1>0 DEF MaterializeAgentTask, MaterializeCommandTask
<1>8. ASSUME NEW m \in Messages, outbox'[m].effect # NoKey
      PROVE  effects'[outbox'[m].effect].status = "succeeded"
  <2>1. CASE m = m0
    BY <1>3, <1>6, <2>1
  <2>2. CASE m # m0
    <3>1. outbox'[m].effect = outbox[m].effect
      BY <1>6, <2>2
    <3>2. /\ outbox[m].effect \in EffectKeys
          /\ effects[outbox[m].effect].status = "succeeded"
      BY <1>8, <3>1, MessageEffects DEF AssignInv, AssignedOnce
    <3> QED
      BY <3>1, <3>2, SucceededStays
  <2> QED
    BY <2>1, <2>2
<1>9. \A m, n \in Messages :
        outbox'[m].effect # NoKey /\ outbox'[m].effect = outbox'[n].effect
          => m = n
  BY <1>4, <1>6 DEF AssignInv, AssignedOnce
<1>10. TasksBacked'
  <2> SUFFICES ASSUME NEW t \in Tasks, tasks'[t].status # "none"
               PROVE  /\ tasks'[t].effect \in EffectKeys
                      /\ effects'[tasks'[t].effect].status = "succeeded"
    BY DEF TasksBacked
  <2>1. CASE tasks'[t].effect = k
    BY <1>2, <1>3, <2>1
  <2>2. CASE tasks'[t] = tasks[t]
    <3>1. /\ tasks[t].effect \in EffectKeys
          /\ effects[tasks[t].effect].status = "succeeded"
      BY <2>2 DEF AssignInv, TasksBacked
    <3> QED
      BY <2>2, <3>1, SucceededStays
  <2> QED
    BY <1>7, <2>1, <2>2
<1>11. \A t, u \in Tasks :
        /\ tasks'[t].status \in LiveTask /\ tasks'[u].status \in LiveTask
        /\ tasks'[t].effect = tasks'[u].effect
        => t = u
  <2>1. CASE tasks' = tasks
    BY <2>1 DEF AssignInv, AssignedOnce
  <2>2. ASSUME NEW t0 \in Tasks,
               \A t \in Tasks : IF t = t0 THEN tasks'[t].effect = k
                                ELSE tasks'[t] = tasks[t]
        PROVE  \A t, u \in Tasks :
                 /\ tasks'[t].status \in LiveTask /\ tasks'[u].status \in LiveTask
                 /\ tasks'[t].effect = tasks'[u].effect
                 => t = u
    BY <1>5, <2>2 DEF AssignInv, AssignedOnce, LiveTask
  <2> QED
    BY <1>7, <2>1, <2>2
<1> QED
  BY <1>8, <1>9, <1>10, <1>11 DEF AssignInv, AssignedOnce

\* A reissued task takes over the effect of the one it replaces.
LEMMA ReissueKept ==
    ASSUME TypeOK, [Next]_vars, AssignInv, NEW n \in Attempts, HasLiveTask,
           ReissueTask(n), UNCHANGED effects
    PROVE  AssignInv'
<1>0. /\ outbox \in [Messages -> MessageRows] /\ tasks \in [Tasks -> TaskRows]
  BY DEF TypeOK, RowsOK
<1>1. run.task \in Tasks /\ tasks[run.task].status \in LiveTask
  BY DEF HasLiveTask
<1>2. PICK t0 \in Tasks, m0 \in Messages :
        /\ FreshTask(t0)
        /\ tasks' = [tasks EXCEPT
              ![run.task].status = "cancelled",
              ![t0] = [tasks[run.task] EXCEPT !.status = "assigned",
                                              !.attempt = n]]
        /\ outbox' = [WithdrawMessages EXCEPT ![m0] =
              [status |-> "pending", attempt |-> n, task |-> t0,
               effect |-> NoKey]]
  BY DEF ReissueTask
<1>3. t0 # run.task
  BY <1>1, <1>2 DEF FreshTask, LiveTask
<1>4. /\ tasks'[t0].effect = tasks[run.task].effect
      /\ tasks'[run.task].status = "cancelled"
      /\ tasks'[run.task].effect = tasks[run.task].effect
      /\ \A t \in Tasks \ {t0, run.task} : tasks'[t] = tasks[t]
  BY <1>0, <1>1, <1>2, <1>3 DEF TaskRows
<1>5. \A m \in Messages : WithdrawMessages[m].effect = outbox[m].effect
  BY <1>0 DEF WithdrawMessages, MessageRows
<1>6. \A m \in Messages : outbox'[m].effect \in {outbox[m].effect, NoKey}
  BY <1>2, <1>5 DEF WithdrawMessages
<1>7. /\ tasks[run.task].status # "none"
      /\ "cancelled" \notin LiveTask
  BY <1>1 DEF LiveTask
<1>8. TasksBacked'
  BY <1>1, <1>4, <1>7 DEF AssignInv, TasksBacked
<1>9. \A t, u \in Tasks :
        /\ tasks'[t].status \in LiveTask /\ tasks'[u].status \in LiveTask
        /\ tasks'[t].effect = tasks'[u].effect
        => t = u
  BY <1>1, <1>4, <1>7 DEF AssignInv, AssignedOnce
<1>10. \A m, i \in Messages :
         /\ outbox'[m].effect # NoKey =>
               effects'[outbox'[m].effect].status = "succeeded"
         /\ outbox'[m].effect # NoKey /\ outbox'[m].effect = outbox'[i].effect
               => m = i
  BY <1>6 DEF AssignInv, AssignedOnce
<1> QED
  BY <1>8, <1>9, <1>10 DEF AssignInv, AssignedOnce

\* The strengthened invariant holds throughout.
THEOREM AssignmentsBacked == Spec => []AssignInv
<1>1. Init => AssignInv
  <2> SUFFICES ASSUME Init PROVE AssignInv
    OBVIOUS
  <2>1. /\ \A m \in Messages : outbox[m].effect = NoKey
        /\ \A t \in Tasks : tasks[t].status = "none"
    BY DEF Init
  <2> QED
    BY <2>1 DEF AssignInv, AssignedOnce, TasksBacked, LiveTask
<1>2. TypeOK /\ AssignInv /\ [Next]_vars => AssignInv'
  <2> SUFFICES ASSUME TypeOK, AssignInv, [Next]_vars PROVE AssignInv'
    OBVIOUS
  <2>0. /\ outbox \in [Messages -> MessageRows] /\ tasks \in [Tasks -> TaskRows]
    BY DEF TypeOK, RowsOK
  <2>n. CASE NoNewWork
    BY <2>n, NoNewWorkKept
  <2>w. \A m \in Messages : WithdrawMessages[m].effect = outbox[m].effect
    BY <2>0 DEF WithdrawMessages, MessageRows
  <2>1. CASE UNCHANGED <<tasks, outbox>>
    BY <2>n, <2>1 DEF NoNewWork
  <2>2. CASE EventStep
    BY <2>n, <2>2, EventSteps DEF EventFrame, NoNewWork, LiveTask
  <2>3. CASE LeaseStep \/ DriverOnlyStep
    BY <2>1, <2>3, BindingFrame
  <2>4. CASE OutboxStep
    <3>1. /\ tasks' = tasks
          /\ \A m \in Messages : outbox'[m].effect \in {outbox[m].effect, NoKey}
      BY <2>0, <2>4
         DEF OutboxStep, AcknowledgeControl, RejectControl, MarkControlSent,
             EnqueueControl, MessageRows
    <3> QED
      BY <2>n, <3>1 DEF NoNewWork
  <2>5. CASE AssignStep
    BY <2>5, MaterializeKept DEF AssignStep
  <2>6. CASE CancelStep
    <3>1. \A t \in Tasks :
            /\ tasks'[t].effect = tasks[t].effect
            /\ tasks'[t].status # "none" => tasks[t].status # "none"
            /\ tasks'[t].status \in LiveTask => tasks[t].status \in LiveTask
      BY <2>0, <2>6 DEF CancelStep, CancelActivation, TaskRows, LiveTask
    <3> QED
      BY <2>n, <2>w, <2>6, <3>1 DEF CancelStep, CancelActivation, NoNewWork
  <2>7. ASSUME NEW n \in Attempts, StartAttempt(n)
        PROVE  AssignInv'
    <3>1. CASE HasLiveTask
      BY <2>7, <3>1, ReissueKept DEF StartAttempt
    <3>2. CASE ~HasLiveTask
      BY <2>n, <2>w, <2>7, <3>2 DEF StartAttempt, NoNewWork
    <3> QED
      BY <3>1, <3>2
  <2>8. ASSUME NEW S \in SUBSET Tasks, ExpireAgentTasks(S)
        PROVE  AssignInv'
    <3>1. \A t \in Tasks :
            /\ tasks'[t].effect = tasks[t].effect
            /\ tasks'[t].status # "none" => tasks[t].status # "none"
            /\ tasks'[t].status \in LiveTask => tasks[t].status \in LiveTask
      BY <2>0, <2>8 DEF ExpireAgentTasks, TaskRows, LiveTask
    <3> QED
      BY <2>n, <2>8, <3>1 DEF ExpireAgentTasks, NoNewWork
  <2>9. CASE UNCHANGED vars
    BY <2>1, <2>9 DEF vars
  <2> QED
    BY <2>2, <2>3, <2>4, <2>5, <2>6, <2>7, <2>8, <2>9, StepKinds
<1> QED
  BY <1>1, <1>2, TypeCorrect, PTL DEF Spec

\* An effect reaches the claw at most once, across retries, lost workers and
\* reissued tasks.
THEOREM AssignedAtMostOnce == Spec => []AssignedOnce
<1>1. AssignInv => AssignedOnce
  BY DEF AssignInv
<1> QED
  BY <1>1, AssignmentsBacked, PTL

--------------------------------------------------------------------------------
(***************************************************************************)
(* The store implements the effect ledger.  Beside the invariants above    *)
(* the step simulation needs that a message that was never written carries *)
(* no effect.                                                              *)
(***************************************************************************)
BlankMessages ==
    \A m \in Messages : outbox[m].status = "none" => outbox[m].effect = NoKey

\* No effect has the key of a message without one.
LEMMA NoKeyIsNoEffect == NoKey \notin EffectKeys
BY NamesAssumption DEF NoKey, EffectKeys, Created

\* Outside an assignment no message takes up an effect, or drops one.
LEMMA CarriersStay ==
    ASSUME TypeOK, BlankMessages, [Next]_vars, ~AssignStep
    PROVE  \A m \in Messages :
              /\ outbox'[m].effect = outbox[m].effect
              /\ outbox'[m].status = "none" => outbox[m].status = "none"
<1>0. outbox \in [Messages -> MessageRows]
  BY DEF TypeOK, RowsOK
<1>1. CASE outbox' = outbox
  BY <1>1
<1>2. CASE EventStep
  BY <1>1, <1>2, EventSteps DEF EventFrame
<1>3. CASE OutboxStep
  BY <1>0, <1>3
     DEF OutboxStep, AcknowledgeControl, RejectControl, MarkControlSent,
         EnqueueControl, FreshMessage, BlankMessages, MessageRows
<1>4. CASE DriverOnlyStep \/ LeaseStep
  BY <1>1, <1>4, BindingFrame
<1>w. \A m \in Messages :
        /\ WithdrawMessages[m].effect = outbox[m].effect
        /\ WithdrawMessages[m].status = "none" => outbox[m].status = "none"
  BY <1>0 DEF WithdrawMessages, MessageRows, LiveMessage
<1>5. CASE CancelStep
  BY <1>w, <1>5 DEF CancelStep, CancelActivation
<1>6. ASSUME NEW n \in Attempts, StartAttempt(n)
      PROVE  \A m \in Messages :
                /\ outbox'[m].effect = outbox[m].effect
                /\ outbox'[m].status = "none" => outbox[m].status = "none"
  <2>1. CASE outbox' = WithdrawMessages
    BY <1>w, <2>1
  <2>2. CASE ReissueTask(n)
    <3>1. PICK t0 \in Tasks, m0 \in Messages :
            /\ FreshMessage(m0)
            /\ outbox' = [WithdrawMessages EXCEPT ![m0] =
                  [status |-> "pending", attempt |-> n, task |-> t0,
                   effect |-> NoKey]]
      BY <2>2 DEF ReissueTask
    <3>2. outbox[m0].effect = NoKey
      BY <3>1 DEF FreshMessage, BlankMessages
    <3>3. \A m \in Messages : outbox'[m] = IF m = m0
            THEN [status |-> "pending", attempt |-> n, task |-> t0, effect |-> NoKey]
            ELSE WithdrawMessages[m]
      BY <3>1 DEF WithdrawMessages
    <3> QED
      BY <1>w, <3>2, <3>3
  <2> QED
    BY <1>6, <2>1, <2>2 DEF StartAttempt
<1>7. ASSUME NEW S \in SUBSET Tasks, ExpireAgentTasks(S)
      PROVE  outbox' = outbox
  BY <1>7, BindingFrame
<1>8. CASE UNCHANGED vars
  BY <1>1, <1>8 DEF vars
<1> QED
  BY <1>1, <1>2, <1>3, <1>4, <1>5, <1>6, <1>7, <1>8, StepKinds

\* What an assignment does to the outbox: one unwritten message takes the effect.
LEMMA AssignCarries ==
    ASSUME TypeOK, NEW w \in Workers,
           MaterializeAgentTask(w) \/ MaterializeCommandTask(w)
    PROVE  \E m0 \in Messages :
              /\ outbox[m0].status = "none"
              /\ \A m \in Messages \ {m0} : outbox'[m] = outbox[m]
              /\ outbox'[m0].effect = worker[w].key
              /\ outbox'[m0].status # "none"
<1>1. outbox \in [Messages -> MessageRows]
  BY DEF TypeOK, RowsOK
<1> QED
  BY <1>1 DEF MaterializeAgentTask, MaterializeCommandTask, FreshMessage

LEMMA BlankStep ==
    ASSUME TypeOK, BlankMessages, [Next]_vars
    PROVE  BlankMessages'
<1>1. CASE AssignStep
  BY <1>1, AssignCarries DEF AssignStep, BlankMessages
<1>2. CASE ~AssignStep
  BY <1>2, CarriersStay DEF BlankMessages
<1> QED
  BY <1>1, <1>2

\* A step that leaves statuses alone up to their phase is a stutter of phases.
LEMMA PhasesOfStep ==
    ASSUME TypeOK
    PROVE  /\ Phases \in [EffectKeys -> {"unplanned", "open", "done", "failed",
                                         "withdrawn"}]
           /\ Phases' \in [EffectKeys -> {"unplanned", "open", "done", "failed",
                                          "withdrawn"}]
           /\ \A k \in EffectKeys : /\ Phases[k] = PhaseOf(effects[k].status)
                                    /\ Phases'[k] = PhaseOf(effects'[k].status)
<1>1. \A s : PhaseOf(s) \in {"unplanned", "open", "done", "failed", "withdrawn"}
  BY DEF PhaseOf
<1> QED
  BY <1>1 DEF Phases

\* A worker's settlement ends one open effect.
LEMMA SettlePhases ==
    ASSUME TypeOK, NEW w \in Workers, Leased(w),
           NEW st \in {"succeeded", "retryable_failed", "permanent_failed"},
           Settle(w, st)
    PROVE  /\ worker[w].key \in EffectKeys
           /\ Phases[worker[w].key] = "open"
           /\ Phases' = [Phases EXCEPT ![worker[w].key] = PhaseOf(st)]
<1> DEFINE k == worker[w].key
<1>0. effects \in [EffectKeys -> EffectRows]
  BY EffectTypes
<1>1. k \in EffectKeys /\ effects[k].status = "running"
  BY EffectTypes DEF Leased
<1>2. /\ effects'[k].status = st
      /\ \A j \in EffectKeys \ {k} : effects'[j] = effects[j]
  BY <1>0, <1>1 DEF Settle, EffectRows
<1>3. Phases[k] = "open"
  BY <1>1, PhasesOfStep DEF PhaseOf, Unsettled
<1>4. Phases' = [Phases EXCEPT ![k] = PhaseOf(st)]
  BY <1>1, <1>2, PhasesOfStep
<1> QED
  BY <1>1, <1>3, <1>4

\* The simulation: what one step of the store is in the ledger.
LEMMA LedgerStep ==
    ASSUME TypeOK, AssignInv, BlankMessages, [Next]_vars
    PROVE  [Ledger!LedgerNext]_(Ledger!ledger)
<1> DEFINE Values == {"unplanned", "open", "done", "failed", "withdrawn"}
<1>0. effects \in [EffectKeys -> EffectRows]
  BY EffectTypes
<1>p. ASSUME \A k \in EffectKeys : effects'[k] = effects[k]
      PROVE  Phases' = Phases
  BY <1>p DEF Phases
<1>c. ASSUME ~AssignStep
      PROVE  CarriersOf' = CarriersOf
  BY <1>c, CarriersStay DEF CarriersOf
<1>s. ASSUME Phases' = Phases, CarriersOf' = CarriersOf
      PROVE  [Ledger!LedgerNext]_(Ledger!ledger)
  BY <1>s DEF Ledger!ledger
<1>1. CASE AssignStep
  <2>1. PICK w \in Workers : MaterializeAgentTask(w) \/ MaterializeCommandTask(w)
    BY <1>1 DEF AssignStep
  <2> DEFINE k == worker[w].key
  <2>2. Leased(w) /\ Settle(w, "succeeded")
    BY <2>1 DEF MaterializeAgentTask, MaterializeCommandTask
  <2>3. /\ k \in EffectKeys /\ Phases[k] = "open"
        /\ Phases' = [Phases EXCEPT ![k] = "done"]
    BY <2>2, SettlePhases DEF PhaseOf, Unsettled
  <2>4. PICK m0 \in Messages :
          /\ outbox[m0].status = "none"
          /\ \A m \in Messages \ {m0} : outbox'[m] = outbox[m]
          /\ outbox'[m0].effect = k
    BY <2>1, AssignCarries
  <2>5. outbox[m0].effect = NoKey
    BY <2>4 DEF BlankMessages
  <2>6. effects[k].status = "running" /\ k # NoKey
    BY <2>2, <2>3, NoKeyIsNoEffect DEF Leased
  <2>7. CarriersOf[k] = {}
    BY <2>3, <2>6 DEF CarriersOf, AssignInv, AssignedOnce
  <2>8. \A j \in EffectKeys : m0 \notin CarriersOf[j]
    BY <2>5, NoKeyIsNoEffect DEF CarriersOf
  <2>9. CarriersOf' = [CarriersOf EXCEPT ![k] = {m0}]
    <3>1. \A j \in EffectKeys :
            {m \in Messages : outbox'[m].effect = j}
              = IF j = k THEN {m0} ELSE {m \in Messages : outbox[m].effect = j}
      <4> SUFFICES ASSUME NEW j \in EffectKeys
                   PROVE  {m \in Messages : outbox'[m].effect = j}
                            = IF j = k THEN {m0}
                              ELSE {m \in Messages : outbox[m].effect = j}
        OBVIOUS
      <4>1. \A m \in Messages : outbox[m].effect # k
        BY <2>3, <2>7 DEF CarriersOf
      <4>2. outbox[m0].effect # j
        BY <2>5, NoKeyIsNoEffect
      <4> QED
        BY <2>4, <4>1, <4>2
    <3> QED
      BY <2>3, <3>1 DEF CarriersOf
  <2>10. Ledger!Give(k, m0)
    BY <2>3, <2>7, <2>8, <2>9 DEF Ledger!Give, Ledger!Ends
  <2> QED
    BY <2>3, <2>10 DEF Ledger!LedgerNext
<1>2. CASE EventStep /\ ~AssignStep
  <2>1. \A k \in EffectKeys :
          \/ effects'[k] = effects[k]
          \/ effects[k].status = "none" /\ effects'[k].status = "planned"
    BY <1>2, EventSteps DEF EventFrame, Planned
  <2>2. \A k \in EffectKeys : Phases'[k] # Phases[k] =>
          Phases[k] = "unplanned" /\ Phases'[k] = "open"
    BY <2>1, PhasesOfStep DEF PhaseOf, Unsettled
  <2>3. Ledger!Plan
    BY <1>2, <1>c, <2>2, PhasesOfStep
       DEF Ledger!Plan, Ledger!SomeMove, Ledger!LedgerPhases
  <2> QED
    BY <2>3 DEF Ledger!LedgerNext
<1>3. CASE (OutboxStep \/ DriverOnlyStep) /\ ~AssignStep
  <2>1. effects' = effects
    BY <1>3, BindingFrame DEF OutboxStep, AcknowledgeControl, RejectControl,
                              MarkControlSent, EnqueueControl
  <2> QED
    BY <1>3, <1>c, <1>p, <1>s, <2>1
<1>4. CASE LeaseStep /\ ~AssignStep
  <2>c. CarriersOf' = CarriersOf
    BY <1>4, <1>c
  <2>e. \A k \in EffectKeys : PhaseOf(ExpireEffects[k].status) = PhaseOf(effects[k].status)
    <3> SUFFICES ASSUME NEW k \in EffectKeys
                 PROVE  PhaseOf(ExpireEffects[k].status) = PhaseOf(effects[k].status)
      OBVIOUS
    <3>1. effects[k] \in EffectRows
      BY <1>0
    <3> QED
      BY <3>1 DEF ExpireEffects, Expired, PhaseOf, Unsettled, EffectRows
  <2>1. ASSUME NEW w \in Workers, NEW j \in EffectKeys, ClaimEffect(w, j)
        PROVE  Phases' = Phases
    <3>1. /\ effects[j].status \in {"planned", "retryable_failed"}
          /\ effects' = [ExpireEffects EXCEPT ![j] =
               [status |-> "running", count |-> effects[j].count + 1,
                owner |-> w, lease |-> TRUE]]
      BY <2>1 DEF ClaimEffect, Claimable
    <3>2. /\ effects'[j].status = "running"
          /\ \A k \in EffectKeys \ {j} : effects'[k] = ExpireEffects[k]
      BY <3>1 DEF ExpireEffects
    <3>3. PhaseOf("running") = PhaseOf(effects[j].status)
      BY <3>1 DEF PhaseOf, Unsettled
    <3>4. \A k \in EffectKeys : PhaseOf(effects'[k].status) = PhaseOf(effects[k].status)
      BY <2>e, <3>2, <3>3
    <3> QED
      BY <3>4 DEF Phases
  <2>2. ASSUME NEW w \in Workers, ClaimNothing(w)
        PROVE  Phases' = Phases
    BY <2>2, <2>e DEF ClaimNothing, Phases
  <2>3. ASSUME NEW w \in Workers, CompleteEffect(w)
        PROVE  [Ledger!LedgerNext]_(Ledger!ledger)
    <3>1. CASE ~Leased(w)
      <4>1. effects' = effects
        BY <2>3, <3>1 DEF CompleteEffect
      <4> QED
        BY <1>p, <1>s, <2>c, <4>1
    <3>2. CASE Leased(w) /\ Settle(w, "retryable_failed")
      <4>1. /\ worker[w].key \in EffectKeys /\ Phases[worker[w].key] = "open"
            /\ Phases' = [Phases EXCEPT ![worker[w].key] = "open"]
        BY <3>2, SettlePhases DEF PhaseOf, Unsettled
      <4>2. Phases' = Phases
        BY <4>1, PhasesOfStep
      <4> QED
        BY <1>s, <2>c, <4>2
    <3>3. CASE Leased(w) /\ Settle(w, "permanent_failed")
      <4>1. /\ worker[w].key \in EffectKeys /\ Phases[worker[w].key] = "open"
            /\ Phases' = [Phases EXCEPT ![worker[w].key] = "failed"]
        BY <3>3, SettlePhases DEF PhaseOf, Unsettled
      <4>2. Ledger!Fail(worker[w].key)
        BY <2>c, <4>1 DEF Ledger!Fail, Ledger!Ends
      <4> QED
        BY <4>1, <4>2 DEF Ledger!LedgerNext
    <3> QED
      BY <2>3, <3>1, <3>2, <3>3 DEF CompleteEffect
  <2>4. ASSUME NEW j \in EffectKeys, LeaseLapses(j)
        PROVE  Phases' = Phases
    <3>1. \A k \in EffectKeys : effects'[k].status = effects[k].status
      BY <1>0, <2>4 DEF LeaseLapses, EffectRows
    <3> QED
      BY <3>1 DEF Phases
  <2>5. ASSUME NEW j \in EffectKeys,
               NEW st \in {"succeeded", "retryable_failed", "permanent_failed",
                           "cancelled"},
               ResolveUnknownEffect(j, st)
        PROVE  [Ledger!LedgerNext]_(Ledger!ledger)
    <3>1. /\ effects[j].status = "unknown" /\ effects'[j].status = st
          /\ \A k \in EffectKeys \ {j} : effects'[k] = effects[k]
      BY <1>0, <2>5 DEF ResolveUnknownEffect, EffectRows
    <3>2. Phases[j] = "open" /\ Phases' = [Phases EXCEPT ![j] = PhaseOf(st)]
      BY <3>1, PhasesOfStep DEF PhaseOf, Unsettled
    <3>3. CASE st = "succeeded"
      <4>1. Ledger!Confirm(j)
        BY <2>c, <3>2, <3>3 DEF Ledger!Confirm, Ledger!Ends, PhaseOf, Unsettled
      <4> QED
        BY <4>1 DEF Ledger!LedgerNext
    <3>4. CASE st = "permanent_failed"
      <4>1. Ledger!Fail(j)
        BY <2>c, <3>2, <3>4 DEF Ledger!Fail, Ledger!Ends, PhaseOf, Unsettled
      <4> QED
        BY <4>1 DEF Ledger!LedgerNext
    <3>5. CASE st = "retryable_failed"
      <4>1. Phases' = Phases
        BY <3>2, <3>5, PhasesOfStep DEF PhaseOf, Unsettled
      <4> QED
        BY <1>s, <2>c, <4>1
    <3>6. CASE st = "cancelled"
      <4>1. Ledger!Withdraw
        BY <2>c, <3>2, <3>6, PhasesOfStep
           DEF Ledger!Withdraw, Ledger!SomeMove, Ledger!LedgerPhases, PhaseOf, Unsettled
      <4> QED
        BY <4>1 DEF Ledger!LedgerNext
    <3> QED
      BY <3>3, <3>4, <3>5, <3>6
  <2> QED
    BY <1>4, <1>s, <2>c, <2>1, <2>2, <2>3, <2>4, <2>5 DEF LeaseStep
<1>5. CASE CancelStep /\ ~AssignStep
  <2>1. \A k \in EffectKeys :
          IF effects[k].status \in Unsettled THEN effects'[k].status = "cancelled"
          ELSE effects'[k] = effects[k]
    BY <1>0, <1>5 DEF CancelStep, CancelActivation, EffectRows
  <2>2. \A k \in EffectKeys : Phases'[k] # Phases[k] =>
          Phases[k] = "open" /\ Phases'[k] = "withdrawn"
    BY <2>1, PhasesOfStep DEF PhaseOf, Unsettled
  <2>3. Ledger!Withdraw
    BY <1>5, <1>c, <2>2, PhasesOfStep
       DEF Ledger!Withdraw, Ledger!SomeMove, Ledger!LedgerPhases
  <2> QED
    BY <2>3 DEF Ledger!LedgerNext
<1>6. ASSUME NEW n \in Attempts, StartAttempt(n), ~AssignStep
      PROVE  [Ledger!LedgerNext]_(Ledger!ledger)
  BY <1>6, <1>c, <1>p, <1>s DEF StartAttempt
<1>7. ASSUME NEW S \in SUBSET Tasks, ExpireAgentTasks(S), ~AssignStep
      PROVE  [Ledger!LedgerNext]_(Ledger!ledger)
  BY <1>7, <1>c, <1>p, <1>s, BindingFrame
<1>8. CASE UNCHANGED vars /\ ~AssignStep
  BY <1>8, <1>c, <1>p, <1>s DEF vars
<1> QED
  BY <1>1, <1>2, <1>3, <1>4, <1>5, <1>6, <1>7, <1>8, StepKinds

\* The workflow store, with its workers, leases, retries and replaced claws,
\* implements the effect ledger.
THEOREM StoreImplementsLedger == Spec => ImplementsLedger
<1>1. Init => Ledger!LedgerInit
  <2> SUFFICES ASSUME Init PROVE Ledger!LedgerInit
    OBVIOUS
  <2>1. \A k \in EffectKeys : effects[k].status \in {"planned", "none"}
    BY DEF Init, Planned, Absent
  <2>2. Phases \in [EffectKeys -> {"unplanned", "open"}]
    BY <2>1 DEF Phases, PhaseOf, Unsettled
  <2>3. \A m \in Messages : outbox[m].effect = NoKey
    BY DEF Init
  <2>4. CarriersOf = [k \in EffectKeys |-> {}]
    BY <2>3, NoKeyIsNoEffect DEF CarriersOf
  <2> QED
    BY <2>2, <2>4 DEF Ledger!LedgerInit
<1>2. Init => BlankMessages
  <2> SUFFICES ASSUME Init, NEW m \in Messages PROVE outbox[m].effect = NoKey
    BY DEF BlankMessages
  <2>1. outbox = [i \in Messages |-> [status |-> "none", attempt |-> 0,
                                      task |-> Nobody, effect |-> NoKey]]
    BY DEF Init
  <2> QED
    BY <2>1
<1>3. TypeOK /\ BlankMessages /\ [Next]_vars => BlankMessages'
  BY BlankStep
<1>4. TypeOK /\ AssignInv /\ BlankMessages /\ [Next]_vars
        => [Ledger!LedgerNext]_(Ledger!ledger)
  BY LedgerStep
<1> QED
  BY <1>1, <1>2, <1>3, <1>4, TypeCorrect, AssignmentsBacked, PTL
     DEF Spec, ImplementsLedger, Ledger!LedgerSpec
================================================================================
