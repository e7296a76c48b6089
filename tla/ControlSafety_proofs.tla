------------------------- MODULE ControlSafety_proofs --------------------------
(***************************************************************************)
(* Theorems about the control channel, for any set of messages and any     *)
(* bounds: type correctness first, then at-most-once execution, true       *)
(* answers, the versions of claims, one outcome per task, and that a task  *)
(* told to stop before it began does not complete.                         *)
(***************************************************************************)
EXTENDS ControlChannel, SequenceTheorems, FiniteSetTheorems, TLAPS

(***************************************************************************)
(* The type invariant is inductive once it also says what the reader of    *)
(* the bridge finds first on a new connection, and that it has a receipt   *)
(* to write when it is about to write one.                                 *)
(***************************************************************************)
RegisteredFrames == [type : {"registered"}, version : Versions]

ReaderInv ==
    /\ sup = "dialed" => /\ down # <<>>
                         /\ Head(down) \in RegisteredFrames
    /\ sup = "replying" => reply \in Replies

TypeInv == TypeOK /\ ReaderInv

\* The fields of the frames of either direction, by the frame's type.
LEMMA DownFields ==
    ASSUME NEW f \in DownFrames
    PROVE  /\ f.type = "receipt" => f.id \in EventIds /\ f.version \in Versions
           /\ f.type = "envelope" => f.id \in Msgs
           /\ f.type \in {"registered", "receipt", "envelope"}
BY DEF DownFrames

LEMMA UpFields ==
    ASSUME NEW f \in UpFrames
    PROVE  /\ f.type = "receipt" =>
                 /\ f.id \in Msgs
                 /\ f.disposition \in {"accepted", "duplicate", "rejected"}
           /\ f.type = "envelope" => f.id \in EventIds
           /\ f.type \in {"receipt", "envelope"}
BY DEF UpFrames

\* The kind of an event that names an agent task.
LEMMA EventFields ==
    ASSUME NEW e \in EventIds
    PROVE  /\ e[1] \in AgentMsgs => e[2] \in {"started", "completed", "failed"}
           /\ e[1] \in Assignments \cup LocalEvents
BY ChannelAssumption DEF EventIds, Assignments, Msgs

LEMMA EventOfTask ==
    ASSUME NEW m \in Assignments, NEW k \in {"started", "completed", "failed"},
           NEW n \in Epochs
    PROVE  <<m, k, n>> \in EventIds
BY DEF EventIds

\* Reading and appending frames keeps a channel well typed.
LEMMA ChannelOps ==
    ASSUME NEW S, NEW s \in Seq(S)
    PROVE  /\ <<>> \in Seq(S)
           /\ \A x \in S : /\ Append(s, x) \in Seq(S) /\ Append(s, x) # <<>>
                           /\ <<x>> \in Seq(S) /\ Head(<<x>>) = x
                           /\ s # <<>> => Head(Append(s, x)) = Head(s)
           /\ s # <<>> => Head(s) \in S /\ Tail(s) \in Seq(S)
<1>1. <<>> \in Seq(S)  OBVIOUS
<1>2. \A x \in S : /\ Append(s, x) \in Seq(S) /\ Append(s, x) # <<>>
                   /\ <<x>> \in Seq(S) /\ Head(<<x>>) = x
                   /\ s # <<>> => Head(Append(s, x)) = Head(s)
  OBVIOUS
<1>3. s # <<>> => Head(s) \in S /\ Tail(s) \in Seq(S)  OBVIOUS
<1> QED  BY <1>1, <1>2, <1>3

\* The bounds are numbers, so versions and epochs are.
LEMMA Bounds ==
    /\ MaxVersion \in Nat \ {0} /\ MaxEpochs \in Nat \ {0}
    /\ Versions \subseteq Nat /\ Epochs \subseteq Nat
    /\ 1 \in Versions /\ 1 \in Epochs /\ Versions \subseteq 0 .. MaxVersion
BY ChannelAssumption DEF Versions, Epochs

\* The frames either side writes are frames of its direction.
LEMMA Frames ==
    /\ \A m \in Msgs : Envelope(m) \in DownFrames
    /\ \A e \in EventIds : Envelope(e) \in UpFrames
    /\ \A v \in Versions : /\ Registered(v) \in DownFrames
                            /\ Registered(v) \in RegisteredFrames
    /\ \A e \in EventIds, v \in Versions : HubReceipt(e, v) \in DownFrames
    /\ \A r \in Replies : BridgeReceipt(r.id, r.disposition) \in UpFrames
BY DEF Envelope, Registered, HubReceipt, BridgeReceipt, DownFrames, UpFrames,
       RegisteredFrames, Replies

LEMMA InitType == Init => TypeInv
<1> SUFFICES ASSUME Init PROVE TypeInv  OBVIOUS
<1>1. HubTypeOK
  BY Bounds DEF Init, HubTypeOK, LiveRun, LiveTask, Live
<1>2. LinkTypeOK
  <2>1. <<>> \in Seq(DownFrames) /\ <<>> \in Seq(UpFrames)  OBVIOUS
  <2>2. hubOpen \in BOOLEAN /\ hubSends \in Msgs \cup {NoMsg}  BY DEF Init
  <2>3. down = <<>> /\ up = <<>> /\ stale = <<>>  BY DEF Init
  <2> QED  BY <2>1, <2>2, <2>3 DEF LinkTypeOK
<1>3. BridgeTypeOK
  <2>1. /\ inbox \in [Msgs -> {"none", "accepted", "running", "completed",
                               "failed"}]
        /\ journal \in [EventIds -> [status : {Queued, "none", "acknowledged"},
                                     version : 0 .. MaxVersion]]
        /\ snap \in 0 .. MaxVersion /\ epoch \in Epochs
    BY Bounds DEF Init
  <2>2. /\ recovered \in BOOLEAN /\ sup = "off" /\ reply = NoReply
        /\ exec \in [Assignments -> {"none"}]
        /\ ctxDone \in [Assignments -> BOOLEAN]
    BY DEF Init, NoGoroutine, NoCancel
  <2>3. handed \in [Assignments -> Nat] /\ told \subseteq AgentMsgs
    BY DEF Init
  <2> QED  BY <2>1, <2>2, <2>3 DEF BridgeTypeOK
<1>4. ReaderInv  BY DEF Init, ReaderInv
<1> QED  BY <1>1, <1>2, <1>3, <1>4 DEF TypeInv, TypeOK

\* The hub's own steps and its senders.
LEMMA HubRowsType ==
    ASSUME TypeInv,
           \/ \E m \in Msgs : Enqueue(m)
           \/ RunMoves
           \/ \E m \in AgentMsgs : TaskExpires(m)
           \/ \E m \in Msgs : SendControl(m)
           \/ MarkControlSent
    PROVE  TypeInv'
<1> USE DEF TypeInv, TypeOK, ReaderInv
<1>1. ASSUME NEW m \in Msgs, Enqueue(m) PROVE TypeInv'
  <2>1. HubTypeOK'
    <3>1. outbox' \in [Msgs -> Live \cup {"none", "acknowledged", "cancelled"}]
      BY <1>1 DEF Enqueue, HubTypeOK, Live
    <3>2. given' \in [Msgs -> 0 .. MaxVersion]
      BY <1>1, Bounds DEF Enqueue, HubTypeOK
    <3>3. tasks' \in [AgentMsgs -> LiveTask \cup {"none", "completed", "failed",
                                                 "timed_out"}]
      BY <1>1 DEF Enqueue, HubTypeOK, LiveTask
    <3>4. run' \in [version : Versions, status : LiveRun \cup {"ended"},
                    task : AgentMsgs \cup {NoMsg}]
      BY <1>1 DEF Enqueue, HubTypeOK
    <3> QED  BY <1>1, <3>1, <3>2, <3>3, <3>4 DEF Enqueue, HubTypeOK
  <2>2. LinkTypeOK' /\ BridgeTypeOK' /\ ReaderInv'
    BY <1>1 DEF Enqueue, LinkTypeOK, BridgeTypeOK, disk, process, history
  <2> QED  BY <2>1, <2>2
<1>2. CASE RunMoves
  <2>1. HubTypeOK'
    <3>1. run.version + 1 \in Versions
      BY <1>2, Bounds DEF RunMoves, HubTypeOK, Versions
    <3>2. run' \in [version : Versions, status : LiveRun \cup {"ended"},
                    task : AgentMsgs \cup {NoMsg}]
      BY <1>2, <3>1 DEF RunMoves, HubTypeOK, LiveRun
    <3> QED  BY <1>2, <3>2 DEF RunMoves, HubTypeOK
  <2>2. LinkTypeOK' /\ BridgeTypeOK' /\ ReaderInv'
    BY <1>2 DEF RunMoves, LinkTypeOK, BridgeTypeOK, disk, process, history
  <2> QED  BY <2>1, <2>2
<1>3. ASSUME NEW m \in AgentMsgs, TaskExpires(m) PROVE TypeInv'
  <2>1. HubTypeOK'
    BY <1>3 DEF TaskExpires, HubTypeOK, LiveRun
  <2>2. LinkTypeOK' /\ BridgeTypeOK' /\ ReaderInv'
    BY <1>3 DEF TaskExpires, LinkTypeOK, BridgeTypeOK, disk, process, history
  <2> QED  BY <2>1, <2>2
<1>4. ASSUME NEW m \in Msgs, SendControl(m) PROVE TypeInv'
  <2>1. /\ down' \in Seq(DownFrames)
        /\ down # <<>> => down' # <<>> /\ Head(down') = Head(down)
    BY <1>4, Frames, ChannelOps DEF SendControl, LinkTypeOK
  <2>2. HubTypeOK' /\ BridgeTypeOK'
    BY <1>4 DEF SendControl, HubTypeOK, BridgeTypeOK, hub, disk, process, history
  <2>3. LinkTypeOK'  BY <1>4, <2>1 DEF SendControl, LinkTypeOK
  <2>4. ReaderInv'  BY <1>4, <2>1 DEF SendControl, process
  <2> QED  BY <2>2, <2>3, <2>4
<1>5. CASE MarkControlSent
  <2>1. HubTypeOK'
    BY <1>5 DEF MarkControlSent, HubTypeOK, Live
  <2>2. LinkTypeOK' /\ BridgeTypeOK' /\ ReaderInv'
    BY <1>5 DEF MarkControlSent, LinkTypeOK, BridgeTypeOK, disk, process, history
  <2> QED  BY <2>1, <2>2
<1> QED  BY <1>1, <1>2, <1>3, <1>4, <1>5

\* What the hub does with a receipt and with a message.
LEMMA AcknowledgeType ==
    ASSUME HubTypeOK, NEW f \in UpFrames, f.type = "receipt",
           AcknowledgeControl(f)
    PROVE  HubTypeOK'
BY UpFields DEF AcknowledgeControl, HubTypeOK, LiveRun, Live

LEMMA ApplyType ==
    ASSUME HubTypeOK, NEW e \in EventIds, ApplyControl(e)
    PROVE  HubTypeOK'
<1>1. TaskAfter(e) \in [AgentMsgs -> LiveTask \cup {"none", "completed", "failed",
                                                   "timed_out"}]
  BY EventFields DEF TaskAfter, HubTypeOK, LiveTask
<1>2. CurrentTaskAfter(e) \in AgentMsgs \cup {NoMsg}
  BY DEF CurrentTaskAfter, HubTypeOK
<1>3. recorded' \in [EventIds -> {"none", "accepted", "refused"}]
  BY DEF ApplyControl, HubTypeOK
<1>4. tasks' \in [AgentMsgs -> LiveTask \cup {"none", "completed", "failed",
                                             "timed_out"}]
  BY <1>1 DEF ApplyControl, HubTypeOK
<1>5. run' \in [version : Versions, status : LiveRun \cup {"ended"},
                task : AgentMsgs \cup {NoMsg}]
  <2>1. run.version < MaxVersion => run.version + 1 \in Versions
    BY Bounds DEF HubTypeOK, Versions
  <2> QED  BY <1>2, <2>1 DEF ApplyControl, HubTypeOK, LiveRun
<1> QED  BY <1>3, <1>4, <1>5 DEF ApplyControl, HubTypeOK

\* The hub's readers and the ends of its connections.
LEMMA HubLinkType ==
    ASSUME TypeInv,
           HubReads \/ StaleHandlerReads \/ StaleHandlerEnds \/ HubDisconnects
    PROVE  TypeInv'
<1> USE DEF TypeInv, TypeOK
<1>0. /\ up # <<>> => Head(up) \in UpFrames /\ Tail(up) \in Seq(UpFrames)
      /\ stale # <<>> => Head(stale) \in UpFrames /\ Tail(stale) \in Seq(UpFrames)
      /\ <<>> \in Seq(UpFrames)
  BY ChannelOps DEF LinkTypeOK
<1>1. CASE HubReads
  <2>1. BridgeTypeOK' /\ stale' = stale /\ hubSends' = hubSends
        /\ sup' = sup /\ reply' = reply
    BY <1>1 DEF HubReads, BridgeTypeOK, disk, process, history
  <2>2. CASE Head(up).type = "receipt" /\ CanAcknowledge(Head(up))
    <3>1. /\ AcknowledgeControl(Head(up)) /\ up' = Tail(up) /\ hubOpen' = hubOpen
          /\ down' = down
      BY <1>1, <2>2 DEF HubReads
    <3>2. HubTypeOK'  BY <1>0, <1>1, <2>2, <3>1, AcknowledgeType DEF HubReads
    <3>3. LinkTypeOK'  BY <1>0, <1>1, <2>1, <3>1 DEF LinkTypeOK, HubReads
    <3> QED  BY <2>1, <3>1, <3>2, <3>3 DEF ReaderInv
  <2>3. CASE Head(up).type = "receipt" /\ ~CanAcknowledge(Head(up))
    <3>1. hubOpen' = FALSE /\ up' = <<>> /\ UNCHANGED hub /\ down' = down
      BY <1>1, <2>3 DEF HubReads
    <3>2. HubTypeOK'  BY <3>1 DEF HubTypeOK, hub
    <3>3. LinkTypeOK'  BY <1>0, <2>1, <3>1 DEF LinkTypeOK
    <3> QED  BY <2>1, <3>1, <3>2, <3>3 DEF ReaderInv
  <2>4. CASE Head(up).type = "envelope"
    <3>1. /\ ApplyControl(Head(up).id) /\ up' = Tail(up) /\ hubOpen' = hubOpen
          /\ down' = Append(down, HubReceipt(Head(up).id, run'.version))
      BY <1>1, <2>4 DEF HubReads
    <3>2. Head(up).id \in EventIds  BY <1>0, <1>1, <2>4, UpFields DEF HubReads
    <3>3. HubTypeOK'  BY <3>1, <3>2, ApplyType
    <3>4. HubReceipt(Head(up).id, run'.version) \in DownFrames
      BY <3>2, <3>3, Frames DEF HubTypeOK
    <3>5. /\ down' \in Seq(DownFrames)
          /\ down # <<>> => down' # <<>> /\ Head(down') = Head(down)
      BY <3>1, <3>4, ChannelOps DEF LinkTypeOK
    <3>6. LinkTypeOK'  BY <1>0, <1>1, <2>1, <3>1, <3>5 DEF LinkTypeOK, HubReads
    <3> QED  BY <2>1, <3>3, <3>5, <3>6 DEF ReaderInv
  <2> QED  BY <1>0, <1>1, <2>2, <2>3, <2>4, UpFields DEF HubReads
<1>2. CASE StaleHandlerReads
  <2>1. /\ BridgeTypeOK' /\ ReaderInv'
        /\ UNCHANGED <<hubOpen, down, up, hubSends>>
    BY <1>2 DEF StaleHandlerReads, BridgeTypeOK, ReaderInv, disk, process, history
  <2>2. stale' = Tail(stale) \/ stale' = <<>>
    BY <1>2 DEF StaleHandlerReads
  <2>3. LinkTypeOK'  BY <1>0, <1>2, <2>1, <2>2 DEF LinkTypeOK, StaleHandlerReads
  <2>4. HubTypeOK'
    <3>1. CASE Head(stale).type = "receipt" /\ CanAcknowledge(Head(stale))
      <4>1. AcknowledgeControl(Head(stale))
        BY <1>2, <3>1 DEF StaleHandlerReads
      <4> QED  BY <1>0, <1>2, <3>1, <4>1, AcknowledgeType DEF StaleHandlerReads
    <3>2. CASE Head(stale).type = "receipt" /\ ~CanAcknowledge(Head(stale))
      BY <1>2, <3>2 DEF StaleHandlerReads, HubTypeOK, hub
    <3>3. CASE Head(stale).type = "envelope"
      <4>1. ApplyControl(Head(stale).id)  BY <1>2, <3>3 DEF StaleHandlerReads
      <4>2. Head(stale).id \in EventIds
        BY <1>0, <1>2, <3>3, UpFields DEF StaleHandlerReads
      <4> QED  BY <4>1, <4>2, ApplyType
    <3> QED  BY <1>0, <1>2, <3>1, <3>2, <3>3, UpFields DEF StaleHandlerReads
  <2> QED  BY <2>1, <2>3, <2>4
<1>3. CASE StaleHandlerEnds
  <2>1. HubTypeOK' /\ BridgeTypeOK' /\ ReaderInv'
    BY <1>3 DEF StaleHandlerEnds, HubTypeOK, BridgeTypeOK, ReaderInv, hub, disk,
                process, history
  <2>2. LinkTypeOK'  BY <1>0, <1>3 DEF StaleHandlerEnds, LinkTypeOK
  <2> QED  BY <2>1, <2>2
<1>4. CASE HubDisconnects
  <2>1. HubTypeOK' /\ BridgeTypeOK' /\ ReaderInv'
    BY <1>4 DEF HubDisconnects, HubTypeOK, BridgeTypeOK, ReaderInv, hub, disk,
                process, history
  <2>2. LinkTypeOK'  BY <1>0, <1>4 DEF HubDisconnects, LinkTypeOK
  <2> QED  BY <2>1, <2>2
<1> QED  BY <1>1, <1>2, <1>3, <1>4

\* The bridge gives a connection up.
LEMMA AbandonType ==
    ASSUME LinkTypeOK, Abandon, hubSends' = hubSends
    PROVE  LinkTypeOK' /\ sup' = "off" /\ reply' = NoReply /\ ReaderInv'
<1>1. <<>> \in Seq(DownFrames) /\ <<>> \in Seq(UpFrames)  OBVIOUS
<1>2. stale' \in Seq(UpFrames)  BY DEF Abandon, LinkTypeOK
<1>3. LinkTypeOK'  BY <1>1, <1>2 DEF Abandon, LinkTypeOK
<1> QED  BY <1>3 DEF Abandon, ReaderInv

\* The bridge's connections and its reader.
LEMMA BridgeLinkType ==
    ASSUME TypeInv,
           \/ Connect \/ Disconnect \/ BridgeRestarts
           \/ ReadRegistered \/ ReadReceipt
           \/ \E m \in Msgs : ReadEnvelope(m)
           \/ WriteReceipt
           \/ \E e \in EventIds : SendEvent(e)
    PROVE  TypeInv'
<1> USE DEF TypeInv, TypeOK
<1>0. /\ down # <<>> => Head(down) \in DownFrames /\ Tail(down) \in Seq(DownFrames)
      /\ <<>> \in Seq(UpFrames)
  BY ChannelOps DEF LinkTypeOK
<1>1. CASE Connect
  <2>1. /\ HubTypeOK' /\ stale' = stale /\ hubSends' = hubSends /\ sup' = "dialed"
        /\ up' = <<>> /\ hubOpen' = TRUE /\ down' = <<Registered(run.version)>>
    BY <1>1 DEF Connect, HubTypeOK, hub
  <2>2. /\ Registered(run.version) \in DownFrames
        /\ Registered(run.version) \in RegisteredFrames
    BY Frames DEF HubTypeOK
  <2>3. /\ down' \in Seq(DownFrames) /\ down' # <<>>
        /\ Head(down') = Registered(run.version)
    BY <2>1, <2>2, ChannelOps DEF LinkTypeOK
  <2>4. BridgeTypeOK'  BY <1>1 DEF Connect, BridgeTypeOK, disk, history
  <2>5. LinkTypeOK'  BY <1>0, <2>1, <2>3 DEF LinkTypeOK
  <2>6. ReaderInv'  BY <2>1, <2>2, <2>3 DEF ReaderInv
  <2> QED  BY <2>1, <2>4, <2>5, <2>6
<1>2. CASE Disconnect
  <2>1. HubTypeOK' /\ Abandon /\ hubSends' = hubSends
    BY <1>2 DEF Disconnect, HubTypeOK, hub
  <2>2. LinkTypeOK' /\ sup' = "off" /\ reply' = NoReply /\ ReaderInv'
    BY <2>1, AbandonType
  <2>3. BridgeTypeOK'
    BY <1>2, <2>2 DEF Disconnect, BridgeTypeOK, disk, history
  <2> QED  BY <2>1, <2>2, <2>3
<1>3. CASE BridgeRestarts
  <2>1. HubTypeOK' /\ Abandon /\ hubSends' = hubSends
    BY <1>3 DEF BridgeRestarts, HubTypeOK, hub
  <2>2. LinkTypeOK' /\ sup' = "off" /\ reply' = NoReply /\ ReaderInv'
    BY <2>1, AbandonType
  <2>3. /\ epoch' \in Epochs
        /\ exec' \in [Assignments -> {"none"}]
        /\ ctxDone' \in [Assignments -> BOOLEAN]
        /\ told' \subseteq AgentMsgs /\ recovered' \in BOOLEAN
    <3>1. epoch' \in Epochs
      BY <1>3, Bounds DEF BridgeRestarts, BridgeTypeOK, Epochs
    <3>2. recovered' = FALSE /\ exec' = NoGoroutine /\ ctxDone' = NoCancel
          /\ told' = {}
      BY <1>3 DEF BridgeRestarts
    <3> QED  BY <3>1, <3>2 DEF NoGoroutine, NoCancel
  <2>4. UNCHANGED <<inbox, journal, snap, handed>>
    BY <1>3 DEF BridgeRestarts, disk
  <2>5. BridgeTypeOK'  BY <2>2, <2>3, <2>4 DEF BridgeTypeOK
  <2> QED  BY <2>1, <2>2, <2>5
<1>4. CASE ReadRegistered
  <2>1. Head(down).version \in Versions
    BY <1>4 DEF ReadRegistered, ReaderInv, RegisteredFrames
  <2>2. HubTypeOK'  BY <1>4 DEF ReadRegistered, HubTypeOK, hub
  <2>3. LinkTypeOK'  BY <1>0, <1>4 DEF ReadRegistered, LinkTypeOK
  <2>4. snap' \in 0 .. MaxVersion  BY <1>4, <2>1, Bounds DEF ReadRegistered
  <2>5. BridgeTypeOK'
    BY <1>4, <2>4 DEF ReadRegistered, BridgeTypeOK, history
  <2>6. ReaderInv'  BY <1>4 DEF ReadRegistered, ReaderInv
  <2> QED  BY <2>2, <2>3, <2>5, <2>6
<1>5. CASE ReadReceipt
  <2>1. Head(down).id \in EventIds /\ Head(down).version \in Versions
    BY <1>0, <1>5, DownFields DEF ReadReceipt
  <2>2. HubTypeOK'  BY <1>5 DEF ReadReceipt, HubTypeOK, hub
  <2>3. /\ hubSends' = hubSends
        /\ UNCHANGED <<inbox, epoch, recovered, exec, ctxDone, handed, told>>
    BY <1>5 DEF ReadReceipt, history
  <2>4. CASE journal[Head(down).id].status = Queued
    <3>1. /\ journal' = [journal EXCEPT ![Head(down).id].status = "acknowledged"]
          /\ snap' \in {Head(down).version, snap}
          /\ down' = Tail(down)
          /\ UNCHANGED <<hubOpen, up, stale, sup, reply>>
      BY <1>5, <2>4 DEF ReadReceipt
    <3>2. LinkTypeOK'  BY <1>0, <1>5, <2>3, <3>1 DEF ReadReceipt, LinkTypeOK
    <3>3. snap' \in 0 .. MaxVersion
      BY <2>1, <3>1, Bounds DEF BridgeTypeOK
    <3>4. journal' \in [EventIds -> [status : {Queued, "none", "acknowledged"},
                                     version : 0 .. MaxVersion]]
      BY <2>1, <3>1 DEF BridgeTypeOK
    <3>5. BridgeTypeOK'  BY <2>3, <3>1, <3>3, <3>4 DEF BridgeTypeOK
    <3>6. ReaderInv'  BY <1>5, <3>1 DEF ReadReceipt, ReaderInv
    <3> QED  BY <2>2, <3>2, <3>5, <3>6
  <2>5. CASE journal[Head(down).id].status # Queued
    <3>1. Abandon /\ UNCHANGED <<journal, snap>>
      BY <1>5, <2>5 DEF ReadReceipt
    <3>2. LinkTypeOK' /\ sup' = "off" /\ reply' = NoReply /\ ReaderInv'
      BY <2>3, <3>1, AbandonType
    <3>3. BridgeTypeOK'  BY <2>3, <3>1, <3>2 DEF BridgeTypeOK
    <3> QED  BY <2>2, <3>2, <3>3
  <2> QED  BY <2>4, <2>5
<1>6. ASSUME NEW m \in Msgs, ReadEnvelope(m) PROVE TypeInv'
  <2>1. HubTypeOK'  BY <1>6 DEF ReadEnvelope, HubTypeOK, hub
  <2>2. LinkTypeOK'  BY <1>0, <1>6 DEF ReadEnvelope, LinkTypeOK
  <2>3. sup' = "replying" /\ UNCHANGED <<journal, epoch, recovered, handed>>
    BY <1>6 DEF ReadEnvelope
  <2>4. reply' \in Replies  BY <1>6 DEF ReadEnvelope, Replies
  <2>5. inbox' \in [Msgs -> {"none", "accepted", "running", "completed", "failed"}]
    BY <1>6 DEF ReadEnvelope, BridgeTypeOK, Journaled
  <2>6. snap' \in 0 .. MaxVersion
    BY <1>6 DEF ReadEnvelope, BridgeTypeOK, HubTypeOK
  <2>7. exec' \in [Assignments -> {"none", "spawned", "claimed", "working",
                                   "aborted", "completing", "failing"}]
    BY <1>6 DEF ReadEnvelope, BridgeTypeOK
  <2>8. ctxDone' \in [Assignments -> BOOLEAN]
    <3>1. ctxDone \in [Assignments -> BOOLEAN]  BY DEF BridgeTypeOK
    <3>2. \/ ctxDone' = ctxDone
          \/ ctxDone' = [t \in Assignments |->
                ctxDone[t] \/ (t \in CancelledBy(m) /\ InActiveTasks(t))]
      BY <1>6 DEF ReadEnvelope
    <3> QED  BY <3>1, <3>2
  <2>9. told' \subseteq AgentMsgs
    BY <1>6 DEF ReadEnvelope, BridgeTypeOK
  <2>10. BridgeTypeOK'
    BY <2>3, <2>4, <2>5, <2>6, <2>7, <2>8, <2>9 DEF BridgeTypeOK
  <2>11. ReaderInv'  BY <2>3, <2>4 DEF ReaderInv
  <2> QED  BY <2>1, <2>2, <2>10, <2>11
<1>7. CASE WriteReceipt
  <2>1. HubTypeOK'  BY <1>7 DEF WriteReceipt, HubTypeOK, hub
  <2>2. BridgeReceipt(reply.id, reply.disposition) \in UpFrames
    BY <1>7, Frames DEF WriteReceipt, ReaderInv
  <2>3. up' \in Seq(UpFrames)
    BY <1>7, <2>2, ChannelOps DEF WriteReceipt, LinkTypeOK
  <2>4. LinkTypeOK'  BY <1>7, <2>3 DEF WriteReceipt, LinkTypeOK
  <2>5. exec' \in [Assignments -> {"none", "spawned", "claimed", "working",
                                   "aborted", "completing", "failing"}]
    BY <1>7 DEF WriteReceipt, BridgeTypeOK
  <2>6. BridgeTypeOK'
    BY <1>7, <2>5 DEF WriteReceipt, BridgeTypeOK, disk, history
  <2>7. ReaderInv'  BY <1>7 DEF WriteReceipt, ReaderInv
  <2> QED  BY <2>1, <2>4, <2>6, <2>7
<1>8. ASSUME NEW e \in EventIds, SendEvent(e) PROVE TypeInv'
  <2>1. HubTypeOK' /\ BridgeTypeOK' /\ ReaderInv'
    BY <1>8 DEF SendEvent, HubTypeOK, BridgeTypeOK, ReaderInv, hub, disk, process,
                history
  <2>2. up' \in Seq(UpFrames)
    BY <1>8, Frames, ChannelOps DEF SendEvent, LinkTypeOK
  <2>3. LinkTypeOK'  BY <1>8, <2>2 DEF SendEvent, LinkTypeOK
  <2> QED  BY <2>1, <2>3
<1> QED  BY <1>1, <1>2, <1>3, <1>4, <1>5, <1>6, <1>7, <1>8

\* The rows of the bridge's outbox.
LEMMA QueueType ==
    ASSUME BridgeTypeOK, NEW e \in EventIds, NEW v \in 0 .. MaxVersion
    PROVE  Queue(e, v) \in [EventIds -> [status : {Queued, "none", "acknowledged"},
                                         version : 0 .. MaxVersion]]
BY DEF Queue, BridgeTypeOK

LEMMA EventVersionType ==
    ASSUME TypeOK, NEW m \in Assignments
    PROVE  EventVersion(m) \in 0 .. MaxVersion
BY DEF EventVersion, TypeOK, HubTypeOK, BridgeTypeOK, Msgs, Assignments

\* Task goroutines, recovery and the local API.
LEMMA TaskType ==
    ASSUME TypeInv,
           \/ \E m \in Assignments : \/ Claim(m) \/ CannotBegin(m) \/ Begin(m)
                                     \/ RecordOutcome(m)
           \/ \E m \in Assignments, kind \in {"completed", "failed"} :
                 Finish(m, kind)
           \/ \E m \in AgentMsgs : FailInterrupted(m)
           \/ EndRecovery
           \/ \E e \in EventIds : PostLocal(e)
    PROVE  TypeInv'
<1> USE DEF TypeInv, TypeOK
<1>0. /\ epoch \in Epochs
      /\ \A m \in Assignments : EventVersion(m) \in 0 .. MaxVersion
      /\ Assignments \subseteq Msgs /\ AgentMsgs \subseteq Assignments
  BY EventVersionType DEF BridgeTypeOK, Msgs, Assignments
<1>1. ASSUME NEW m \in Assignments, Claim(m) PROVE TypeInv'
  <2>1. HubTypeOK' /\ LinkTypeOK' /\ ReaderInv'
    BY <1>1 DEF Claim, HubTypeOK, LinkTypeOK, ReaderInv, hub
  <2>2. BridgeTypeOK'  BY <1>0, <1>1 DEF Claim, BridgeTypeOK, history
  <2> QED  BY <2>1, <2>2
<1>2. ASSUME NEW m \in Assignments, CannotBegin(m) PROVE TypeInv'
  <2>1. HubTypeOK' /\ LinkTypeOK' /\ ReaderInv'
    BY <1>2 DEF CannotBegin, HubTypeOK, LinkTypeOK, ReaderInv, hub
  <2>2. journal' \in [EventIds -> [status : {Queued, "none", "acknowledged"},
                                   version : 0 .. MaxVersion]]
    BY <1>0, <1>2, EventOfTask, QueueType DEF CannotBegin
  <2>3. BridgeTypeOK'  BY <1>2, <2>2 DEF CannotBegin, BridgeTypeOK, history
  <2> QED  BY <2>1, <2>3
<1>3. ASSUME NEW m \in Assignments, Begin(m) PROVE TypeInv'
  <2>1. HubTypeOK' /\ LinkTypeOK' /\ ReaderInv'
    BY <1>3 DEF Begin, HubTypeOK, LinkTypeOK, ReaderInv, hub
  <2>2. journal' \in [EventIds -> [status : {Queued, "none", "acknowledged"},
                                   version : 0 .. MaxVersion]]
    <3>1. Queue(<<m, "started", epoch>>, EventVersion(m)) \in
             [EventIds -> [status : {Queued, "none", "acknowledged"},
                           version : 0 .. MaxVersion]]
      BY <1>0, EventOfTask, QueueType
    <3> QED  BY <1>3, <3>1 DEF Begin, BridgeTypeOK
  <2>3. /\ exec' \in [Assignments -> {"none", "spawned", "claimed", "working",
                                      "aborted", "completing", "failing"}]
        /\ handed' \in [Assignments -> Nat]
    BY <1>3 DEF Begin, BridgeTypeOK
  <2>4. BridgeTypeOK'  BY <1>3, <2>2, <2>3 DEF Begin, BridgeTypeOK
  <2> QED  BY <2>1, <2>4
<1>4. ASSUME NEW m \in Assignments, RecordOutcome(m) PROVE TypeInv'
  <2>1. HubTypeOK' /\ LinkTypeOK' /\ ReaderInv'
    BY <1>4 DEF RecordOutcome, HubTypeOK, LinkTypeOK, ReaderInv, hub
  <2>2. /\ inbox' \in [Msgs -> {"none", "accepted", "running", "completed",
                                "failed"}]
        /\ exec' \in [Assignments -> {"none", "spawned", "claimed", "working",
                                      "aborted", "completing", "failing"}]
    BY <1>0, <1>4 DEF RecordOutcome, BridgeTypeOK
  <2>3. ctxDone' \in [Assignments -> BOOLEAN]
    <3>1. ctxDone' = [ctxDone EXCEPT ![m] = FALSE]
      BY <1>4 DEF RecordOutcome
    <3> QED  BY <3>1 DEF BridgeTypeOK
  <2>4. BridgeTypeOK'
    BY <1>4, <2>2, <2>3 DEF RecordOutcome, BridgeTypeOK, history
  <2> QED  BY <2>1, <2>4
<1>5. ASSUME NEW m \in Assignments, NEW kind \in {"completed", "failed"},
             Finish(m, kind)
      PROVE  TypeInv'
  <2>1. HubTypeOK' /\ LinkTypeOK' /\ ReaderInv'
    BY <1>5 DEF Finish, HubTypeOK, LinkTypeOK, ReaderInv, hub
  <2>2. journal' \in [EventIds -> [status : {Queued, "none", "acknowledged"},
                                   version : 0 .. MaxVersion]]
    BY <1>0, <1>5, EventOfTask, QueueType DEF Finish
  <2>3. exec' \in [Assignments -> {"none", "spawned", "claimed", "working",
                                   "aborted", "completing", "failing"}]
    BY <1>5 DEF Finish, BridgeTypeOK
  <2>4. BridgeTypeOK'  BY <1>5, <2>2, <2>3 DEF Finish, BridgeTypeOK, history
  <2> QED  BY <2>1, <2>4
<1>6. ASSUME NEW m \in AgentMsgs, FailInterrupted(m) PROVE TypeInv'
  <2>1. HubTypeOK' /\ LinkTypeOK' /\ ReaderInv'
    BY <1>6 DEF FailInterrupted, HubTypeOK, LinkTypeOK, ReaderInv, hub
  <2>2. journal' \in [EventIds -> [status : {Queued, "none", "acknowledged"},
                                   version : 0 .. MaxVersion]]
    BY <1>0, <1>6, EventOfTask, QueueType DEF FailInterrupted
  <2>3. BridgeTypeOK'  BY <1>6, <2>2 DEF FailInterrupted, BridgeTypeOK, history
  <2> QED  BY <2>1, <2>3
<1>7. CASE EndRecovery
  <2>1. HubTypeOK' /\ LinkTypeOK' /\ ReaderInv'
    BY <1>7 DEF EndRecovery, HubTypeOK, LinkTypeOK, ReaderInv, hub
  <2>2. exec' \in [Assignments -> {"none", "spawned", "claimed", "working",
                                   "aborted", "completing", "failing"}]
    BY <1>7 DEF EndRecovery, BridgeTypeOK
  <2>3. BridgeTypeOK'
    BY <1>7, <2>2 DEF EndRecovery, BridgeTypeOK, disk, history
  <2> QED  BY <2>1, <2>3
<1>8. ASSUME NEW e \in EventIds, PostLocal(e) PROVE TypeInv'
  <2>1. HubTypeOK' /\ LinkTypeOK' /\ ReaderInv'
    BY <1>8 DEF PostLocal, HubTypeOK, LinkTypeOK, ReaderInv, hub, process
  <2>2. journal' \in [EventIds -> [status : {Queued, "none", "acknowledged"},
                                   version : 0 .. MaxVersion]]
    BY <1>8, QueueType DEF PostLocal, BridgeTypeOK
  <2>3. BridgeTypeOK'
    BY <1>8, <2>2 DEF PostLocal, BridgeTypeOK, process, history
  <2> QED  BY <2>1, <2>3
<1> QED  BY <1>1, <1>2, <1>3, <1>4, <1>5, <1>6, <1>7, <1>8

\* Every step, and no step, keeps the type invariant.
LEMMA NextType == TypeInv /\ [Next]_vars => TypeInv'
<1> SUFFICES ASSUME TypeInv, [Next]_vars PROVE TypeInv'  OBVIOUS
<1>1. CASE HubStep
  BY <1>1, HubRowsType, HubLinkType DEF HubStep
<1>2. CASE BridgeStep
  BY <1>2, BridgeLinkType, TaskType DEF BridgeStep
<1>3. CASE TaskStep
  BY <1>3, TaskType DEF TaskStep
<1>4. CASE UNCHANGED vars
  BY <1>4 DEF vars, TypeInv, TypeOK, HubTypeOK, LinkTypeOK, BridgeTypeOK, ReaderInv
<1> QED  BY <1>1, <1>2, <1>3, <1>4 DEF Next

(***************************************************************************)
(* THEOREM.  In every run of the channel the rows of the two databases,    *)
(* the frames on the connection and what the processes remember stay       *)
(* within the values the code gives them.                                  *)
(***************************************************************************)
THEOREM ChannelTypes == Spec => []TypeOK
<1>1. TypeInv => TypeOK  BY DEF TypeInv
<1> QED  BY <1>1, InitType, NextType, PTL DEF Spec

--------------------------------------------------------------------------------
(***************************************************************************)
(* A task is handed over once.  The journal is what remembers it: a task   *)
(* whose message is not journaled, or only accepted, was never handed      *)
(* over, and the goroutine that won the claim has not handed it over yet.  *)
(***************************************************************************)
HandedInv ==
    \A m \in Assignments :
        /\ handed[m] <= 1
        /\ inbox[m] \in {"none", "accepted"} => handed[m] = 0
        /\ exec[m] = "claimed" => handed[m] = 0 /\ inbox[m] = "running"

LEMMA InitHanded == Init => HandedInv
BY DEF Init, HandedInv, NoGoroutine, Msgs

\* The steps that touch neither the inbox nor a goroutine.
LEMMA HandedUntouched ==
    ASSUME UNCHANGED <<inbox, exec, handed>>, HandedInv
    PROVE  HandedInv'
BY DEF HandedInv

LEMMA HubLeavesBridge ==
    ASSUME HubStep
    PROVE  UNCHANGED <<disk, process, history>>
BY DEF HubStep, Enqueue, RunMoves, TaskExpires, SendControl, MarkControlSent,
       HubReads, StaleHandlerReads, StaleHandlerEnds, HubDisconnects

LEMMA NextHanded ==
    ASSUME TypeInv, HandedInv, [Next]_vars
    PROVE  HandedInv'
<1>0. /\ inbox \in [Msgs -> {"none", "accepted", "running", "completed", "failed"}]
      /\ exec \in [Assignments -> {"none", "spawned", "claimed", "working",
                                   "aborted", "completing", "failing"}]
      /\ handed \in [Assignments -> Nat]
      /\ Assignments \subseteq Msgs /\ AgentMsgs \subseteq Assignments
  BY DEF TypeInv, TypeOK, BridgeTypeOK, Msgs, Assignments
<1>1. CASE HubStep
  BY <1>1, HubLeavesBridge, HandedUntouched DEF disk, process, history
<1>2. CASE \/ Connect \/ Disconnect \/ ReadRegistered \/ ReadReceipt
           \/ \E e \in EventIds : SendEvent(e) \/ PostLocal(e)
  <2>1. UNCHANGED <<inbox, exec, handed>>
    BY <1>2 DEF Connect, Disconnect, ReadRegistered, ReadReceipt, SendEvent,
                PostLocal, disk, process, history
  <2> QED  BY <2>1, HandedUntouched
<1>3. CASE BridgeRestarts
  BY <1>3 DEF BridgeRestarts, HandedInv, NoGoroutine, disk
<1>4. ASSUME NEW m \in Msgs, ReadEnvelope(m) PROVE HandedInv'
  <2>1. CASE Outdated(m) \/ Duplicate(m)
    BY <1>4, <2>1, HandedUntouched DEF ReadEnvelope
  <2>2. CASE ~Outdated(m) /\ ~Duplicate(m)
    <3>1. /\ inbox[m] = "none" /\ inbox' = [inbox EXCEPT ![m] = "accepted"]
          /\ handed' = handed
          /\ \A t \in Assignments : exec'[t] = exec[t] \/ exec'[t] = "spawned"
      BY <1>4, <2>2 DEF ReadEnvelope, Duplicate, Journaled
    <3> QED  BY <1>0, <3>1 DEF HandedInv
  <2> QED  BY <2>1, <2>2
<1>5. CASE WriteReceipt \/ EndRecovery
  <2>1. /\ inbox' = inbox /\ handed' = handed
        /\ \A t \in Assignments : exec'[t] = exec[t] \/ exec'[t] = "spawned"
    BY <1>5 DEF WriteReceipt, EndRecovery, disk, history
  <2> QED  BY <2>1 DEF HandedInv
<1>6. ASSUME NEW m \in Assignments, Claim(m) PROVE HandedInv'
  BY <1>0, <1>6 DEF Claim, HandedInv, history
<1>7. ASSUME NEW m \in Assignments, CannotBegin(m) PROVE HandedInv'
  BY <1>0, <1>7 DEF CannotBegin, HandedInv, history
<1>8. ASSUME NEW m \in Assignments, Begin(m) PROVE HandedInv'
  BY <1>0, <1>8 DEF Begin, HandedInv
<1>9. ASSUME NEW m \in Assignments, NEW kind \in {"completed", "failed"},
             Finish(m, kind)
      PROVE  HandedInv'
  BY <1>0, <1>9 DEF Finish, HandedInv, history
<1>10. ASSUME NEW m \in Assignments, RecordOutcome(m) PROVE HandedInv'
  BY <1>0, <1>10 DEF RecordOutcome, HandedInv, history
<1>11. ASSUME NEW m \in AgentMsgs, FailInterrupted(m) PROVE HandedInv'
  BY <1>0, <1>11 DEF FailInterrupted, HandedInv, history
<1>12. CASE UNCHANGED vars
  BY <1>12, HandedUntouched DEF vars
<1> QED  BY <1>1, <1>2, <1>3, <1>4, <1>5, <1>6, <1>7, <1>8, <1>9, <1>10, <1>11,
            <1>12 DEF Next, BridgeStep, TaskStep

(***************************************************************************)
(* THEOREM.  However often an assignment is resent, the connection breaks  *)
(* or the bridge restarts, it reaches the agent or the shell at most once. *)
(***************************************************************************)
THEOREM AtMostOnce == Spec => []HandedOverOnce
<1>1. Init => TypeInv /\ HandedInv  BY InitType, InitHanded
<1>2. TypeInv /\ HandedInv /\ [Next]_vars => (TypeInv /\ HandedInv)'
  BY NextType, NextHanded
<1>3. HandedInv => HandedOverOnce  BY DEF HandedInv, HandedOverOnce
<1> QED  BY <1>1, <1>2, <1>3, PTL DEF Spec

(***************************************************************************)
(* THEOREM.  A message the hub has settled keeps its status: the sender's  *)
(* late mark and a second receipt change only live rows.                   *)
(***************************************************************************)
THEOREM Settled == Spec => SettledStaysSettled
<1> DEFINE Keeps == \A m \in Msgs : outbox[m] \in {"acknowledged", "cancelled"}
                                       => outbox'[m] = outbox[m]
<1>1. ASSUME TypeInv, [Next]_vars PROVE Keeps
  <2>0. /\ outbox \in [Msgs -> Live \cup {"none", "acknowledged", "cancelled"}]
        /\ hubSends \in Msgs \cup {NoMsg}
        /\ up # <<>> => Head(up) \in UpFrames
        /\ stale # <<>> => Head(stale) \in UpFrames
    BY <1>1, ChannelOps DEF TypeInv, TypeOK, HubTypeOK, LinkTypeOK
  <2>1. ASSUME NEW m \in Msgs, Enqueue(m) PROVE Keeps
    BY <2>0, <2>1 DEF Enqueue
  <2>2. CASE MarkControlSent
    BY <2>0, <2>2 DEF MarkControlSent, Live
  <2>3. ASSUME NEW f \in UpFrames, f.type = "receipt", CanAcknowledge(f),
               AcknowledgeControl(f)
        PROVE  Keeps
    BY <2>0, <2>3, UpFields DEF CanAcknowledge, AcknowledgeControl, Live
  <2>4. CASE HubReads
    <3>1. CASE Head(up).type = "receipt" /\ CanAcknowledge(Head(up))
      BY <2>0, <2>3, <2>4, <3>1 DEF HubReads
    <3>2. CASE ~(Head(up).type = "receipt" /\ CanAcknowledge(Head(up)))
      BY <2>4, <3>2 DEF HubReads, ApplyControl, hub
    <3> QED  BY <3>1, <3>2
  <2>5. CASE StaleHandlerReads
    <3>1. CASE Head(stale).type = "receipt" /\ CanAcknowledge(Head(stale))
      BY <2>0, <2>3, <2>5, <3>1 DEF StaleHandlerReads
    <3>2. CASE ~(Head(stale).type = "receipt" /\ CanAcknowledge(Head(stale)))
      BY <2>5, <3>2 DEF StaleHandlerReads, ApplyControl, hub
    <3> QED  BY <3>1, <3>2
  <2>6. CASE \/ RunMoves \/ \E m \in AgentMsgs : TaskExpires(m)
             \/ \E m \in Msgs : SendControl(m)
             \/ StaleHandlerEnds \/ HubDisconnects
    BY <2>6 DEF RunMoves, TaskExpires, SendControl, StaleHandlerEnds,
                HubDisconnects, hub
  <2>7. CASE BridgeStep \/ TaskStep
    <3>1. outbox' = outbox
      BY <2>7 DEF BridgeStep, TaskStep, Connect, Disconnect, BridgeRestarts,
                  ReadRegistered, ReadReceipt, ReadEnvelope, WriteReceipt,
                  SendEvent, FailInterrupted, EndRecovery, PostLocal, Claim,
                  CannotBegin, Begin, Finish, RecordOutcome, hub
    <3> QED  BY <3>1
  <2>8. CASE UNCHANGED vars  BY <2>8 DEF vars
  <2> QED  BY <1>1, <2>1, <2>2, <2>4, <2>5, <2>6, <2>7, <2>8 DEF Next, HubStep
<1>2. TypeInv /\ [Next]_vars => [Keeps]_vars  BY <1>1
<1> QED  BY <1>2, InitType, NextType, PTL DEF Spec, SettledStaysSettled

(***************************************************************************)
(* What is acknowledged is held.  A receipt speaks for its sender as long  *)
(* as it is in flight: the bridge's says that the message is in its        *)
(* journal, unless it is a rejection, the hub's that the event is in its   *)
(* table; and neither table forgets.                                       *)
(***************************************************************************)
Elems(s) == {s[i] : i \in 1 .. Len(s)}

BridgeSpeaksFor(f) == f.type = "receipt" /\ f.disposition # "rejected"

HeldInv ==
    /\ \A f \in Elems(up) : BridgeSpeaksFor(f) => inbox[f.id] # "none"
    /\ \A f \in Elems(stale) : BridgeSpeaksFor(f) => inbox[f.id] # "none"
    /\ \A f \in Elems(down) : f.type = "receipt" => recorded[f.id] # "none"
    /\ sup = "replying" /\ reply.disposition # "rejected"
          => inbox[reply.id] # "none"
    /\ AcknowledgedIsHeld

LEMMA ElemsOps ==
    ASSUME NEW S, NEW s \in Seq(S)
    PROVE  /\ Elems(s) \subseteq S
           /\ \A x \in S : Elems(Append(s, x)) = Elems(s) \cup {x}
           /\ s # <<>> => Head(s) \in Elems(s) /\ Elems(Tail(s)) \subseteq Elems(s)
<1>1. Elems(s) \subseteq S  BY DEF Elems
<1>2. ASSUME NEW x \in S PROVE Elems(Append(s, x)) = Elems(s) \cup {x}
  <2>1. /\ Len(Append(s, x)) = Len(s) + 1 /\ Len(s) \in Nat
        /\ \A i \in 1 .. Len(s) : Append(s, x)[i] = s[i]
        /\ Append(s, x)[Len(s) + 1] = x
    OBVIOUS
  <2>2. ASSUME NEW y \in Elems(Append(s, x)) PROVE y \in Elems(s) \cup {x}
    <3>1. PICK i \in 1 .. Len(s) + 1 : y = Append(s, x)[i]
      BY <2>1, <2>2 DEF Elems
    <3>2. CASE i = Len(s) + 1  BY <2>1, <3>1, <3>2
    <3>3. CASE i \in 1 .. Len(s)  BY <2>1, <3>1, <3>3 DEF Elems
    <3> QED  BY <2>1, <3>2, <3>3
  <2>3. ASSUME NEW y \in Elems(s) \cup {x} PROVE y \in Elems(Append(s, x))
    <3>1. CASE y = x
      <4>1. Len(s) + 1 \in 1 .. Len(Append(s, x))  BY <2>1
      <4> QED  BY <2>1, <3>1, <4>1 DEF Elems
    <3>2. CASE y \in Elems(s)
      <4>1. PICK i \in 1 .. Len(s) : y = s[i]  BY <3>2 DEF Elems
      <4>2. i \in 1 .. Len(Append(s, x)) /\ Append(s, x)[i] = y  BY <2>1, <4>1
      <4> QED  BY <4>2 DEF Elems
    <3> QED  BY <3>1, <3>2, <2>3
  <2> QED  BY <2>2, <2>3
<1>3. ASSUME s # <<>>
      PROVE  Head(s) \in Elems(s) /\ Elems(Tail(s)) \subseteq Elems(s)
  <2>1. /\ Len(s) \in Nat \ {0} /\ Head(s) = s[1]
        /\ Len(Tail(s)) = Len(s) - 1
        /\ \A i \in 1 .. Len(s) - 1 : Tail(s)[i] = s[i + 1]
    BY <1>3
  <2>2. Head(s) \in Elems(s)
    <3>1. 1 \in 1 .. Len(s)  BY <2>1
    <3> QED  BY <2>1, <3>1 DEF Elems
  <2>3. ASSUME NEW y \in Elems(Tail(s)) PROVE y \in Elems(s)
    <3>1. PICK i \in 1 .. Len(s) - 1 : y = Tail(s)[i]  BY <2>1, <2>3 DEF Elems
    <3>2. i + 1 \in 1 .. Len(s) /\ y = s[i + 1]  BY <2>1, <3>1
    <3> QED  BY <3>2 DEF Elems
  <2> QED  BY <2>2, <2>3
<1> QED  BY <1>1, <1>2, <1>3

LEMMA ElemsShort == Elems(<<>>) = {} /\ \A x : Elems(<<x>>) = {x}
<1>1. Elems(<<>>) = {}  BY DEF Elems
<1>2. ASSUME NEW x PROVE Elems(<<x>>) = {x}
  <2>1. Len(<<x>>) = 1 /\ <<x>>[1] = x /\ 1 .. 1 = {1}  OBVIOUS
  <2> QED  BY <2>1 DEF Elems
<1> QED  BY <1>1, <1>2

\* No step takes a message out of the journal or an event out of the table.
LEMMA TablesKeep ==
    ASSUME TypeInv, [Next]_vars
    PROVE  /\ \A m \in Msgs : inbox[m] # "none" => inbox'[m] # "none"
           /\ \A e \in EventIds : recorded[e] # "none" => recorded'[e] # "none"
<1>0. /\ inbox \in [Msgs -> {"none", "accepted", "running", "completed", "failed"}]
      /\ recorded \in [EventIds -> {"none", "accepted", "refused"}]
      /\ Assignments \subseteq Msgs
      /\ up # <<>> => Head(up) \in UpFrames
      /\ stale # <<>> => Head(stale) \in UpFrames
  BY ChannelOps DEF TypeInv, TypeOK, HubTypeOK, LinkTypeOK, BridgeTypeOK, Msgs
<1> DEFINE Keeps == \A e \in EventIds : recorded[e] # "none"
                                           => recorded'[e] # "none"
<1>1. CASE HubStep
  <2>1. inbox' = inbox  BY <1>1, HubLeavesBridge DEF disk
  <2>2. ASSUME NEW e \in EventIds, ApplyControl(e) PROVE Keeps
    BY <1>0, <2>2 DEF ApplyControl
  <2>3. ASSUME HubReads PROVE Keeps
    <3>1. CASE Head(up).type = "envelope"
      <4>1. Head(up).id \in EventIds  BY <1>0, <2>3, <3>1, UpFields DEF HubReads
      <4>2. ApplyControl(Head(up).id)  BY <2>3, <3>1 DEF HubReads
      <4> QED  BY <2>2, <4>1, <4>2
    <3>2. CASE Head(up).type # "envelope"
      BY <2>3, <3>2 DEF HubReads, AcknowledgeControl, hub
    <3> QED  BY <3>1, <3>2
  <2>4. ASSUME StaleHandlerReads PROVE Keeps
    <3>1. CASE Head(stale).type = "envelope"
      <4>1. Head(stale).id \in EventIds
        BY <1>0, <2>4, <3>1, UpFields DEF StaleHandlerReads
      <4>2. ApplyControl(Head(stale).id)  BY <2>4, <3>1 DEF StaleHandlerReads
      <4> QED  BY <2>2, <4>1, <4>2
    <3>2. CASE Head(stale).type # "envelope"
      BY <2>4, <3>2 DEF StaleHandlerReads, AcknowledgeControl, hub
    <3> QED  BY <3>1, <3>2
  <2>5. ASSUME ~HubReads, ~StaleHandlerReads PROVE Keeps
    BY <1>1, <2>5 DEF HubStep, Enqueue, RunMoves, TaskExpires, SendControl,
                      MarkControlSent, StaleHandlerEnds, HubDisconnects, hub
  <2> QED  BY <2>1, <2>3, <2>4, <2>5
<1>2. CASE BridgeStep \/ TaskStep
  <2>1. recorded' = recorded
    BY <1>2 DEF BridgeStep, TaskStep, Connect, Disconnect, BridgeRestarts,
                ReadRegistered, ReadReceipt, ReadEnvelope, WriteReceipt,
                SendEvent, FailInterrupted, EndRecovery, PostLocal, Claim,
                CannotBegin, Begin, Finish, RecordOutcome, hub
  <2>2. \/ inbox' = inbox
        \/ \E m \in Msgs : inbox' = [inbox EXCEPT ![m] = "accepted"]
        \/ \E m \in Assignments, x \in {"running", "completed", "failed"} :
              inbox' = [inbox EXCEPT ![m] = x]
    <3>1. CASE BridgeStep
      BY <3>1 DEF BridgeStep, Connect, Disconnect, BridgeRestarts,
                  ReadRegistered, ReadReceipt, ReadEnvelope, WriteReceipt,
                  SendEvent, FailInterrupted, EndRecovery, PostLocal, Journaled,
                  disk
    <3>2. CASE TaskStep
      BY <3>2 DEF TaskStep, Claim, CannotBegin, Begin, Finish, RecordOutcome
    <3> QED  BY <1>2, <3>1, <3>2
  <2> QED  BY <1>0, <2>1, <2>2
<1>3. CASE UNCHANGED vars  BY <1>3 DEF vars
<1> QED  BY <1>1, <1>2, <1>3 DEF Next

\* What a step can do to the frames in flight.
UpMoves ==
    \/ up' = up \/ up' = <<>> \/ (up # <<>> /\ up' = Tail(up))
    \/ \E e \in EventIds : up' = Append(up, Envelope(e))
    \/ /\ sup = "replying"
       /\ up' = Append(up, BridgeReceipt(reply.id, reply.disposition))
StaleMoves ==
    \/ stale' = stale \/ stale' = <<>> \/ (stale # <<>> /\ stale' = Tail(stale))
    \/ stale' = up
DownMoves ==
    \/ down' = down \/ down' = <<>> \/ (down # <<>> /\ down' = Tail(down))
    \/ down' = <<Registered(run.version)>> /\ run' = run
    \/ \E m \in Msgs : /\ outbox[m] \in Live /\ outbox' = outbox
                       /\ down' = Append(down, Envelope(m))
    \/ \E e \in EventIds : /\ recorded'[e] # "none"
                           /\ down' = Append(down, HubReceipt(e, run'.version))

LEMMA FrameMoves ==
    ASSUME TypeInv, [Next]_vars
    PROVE  UpMoves /\ StaleMoves /\ DownMoves
<1>1. CASE HubStep
  <2>1. ASSUME NEW m \in Msgs, SendControl(m) PROVE UpMoves /\ StaleMoves /\ DownMoves
    BY <2>1 DEF SendControl, UpMoves, StaleMoves, DownMoves, hub
  <2>2. CASE HubReads
    <3>1. UpMoves /\ StaleMoves  BY <2>2 DEF HubReads, UpMoves, StaleMoves
    <3>2. CASE Head(up).type = "envelope"
      <4>1. Head(up).id \in EventIds
        BY <2>2, <3>2, ChannelOps, UpFields DEF HubReads, TypeInv, TypeOK, LinkTypeOK
      <4>2. /\ ApplyControl(Head(up).id)
            /\ down' = Append(down, HubReceipt(Head(up).id, run'.version))
        BY <2>2, <3>2 DEF HubReads
      <4>3. recorded'[Head(up).id] # "none"
        BY <4>1, <4>2 DEF ApplyControl, TypeInv, TypeOK, HubTypeOK
      <4> QED  BY <3>1, <4>1, <4>2, <4>3 DEF DownMoves
    <3>3. CASE Head(up).type # "envelope"
      BY <2>2, <3>1, <3>3 DEF HubReads, DownMoves
    <3> QED  BY <3>2, <3>3
  <2>3. CASE StaleHandlerReads \/ StaleHandlerEnds \/ HubDisconnects
    BY <2>3 DEF StaleHandlerReads, StaleHandlerEnds, HubDisconnects, UpMoves,
                StaleMoves, DownMoves
  <2>4. CASE \/ \E m \in Msgs : Enqueue(m)
             \/ RunMoves \/ \E m \in AgentMsgs : TaskExpires(m)
             \/ MarkControlSent
    BY <2>4 DEF Enqueue, RunMoves, TaskExpires, MarkControlSent, UpMoves,
                StaleMoves, DownMoves
  <2> QED  BY <1>1, <2>1, <2>2, <2>3, <2>4 DEF HubStep
<1>2. CASE \/ Connect \/ Disconnect \/ BridgeRestarts \/ ReadRegistered
           \/ ReadReceipt \/ \E m \in Msgs : ReadEnvelope(m)
  <2>1. UpMoves
    BY <1>2 DEF Connect, Disconnect, BridgeRestarts, Abandon, ReadRegistered,
                ReadReceipt, ReadEnvelope, UpMoves
  <2>2. StaleMoves
    BY <1>2 DEF Connect, Disconnect, BridgeRestarts, Abandon, ReadRegistered,
                ReadReceipt, ReadEnvelope, StaleMoves
  <2>3. DownMoves
    BY <1>2 DEF Connect, Disconnect, BridgeRestarts, Abandon, ReadRegistered,
                ReadReceipt, ReadEnvelope, DownMoves, hub
  <2> QED  BY <2>1, <2>2, <2>3
<1>3. CASE WriteReceipt \/ \E e \in EventIds : SendEvent(e)
  <2>1. UpMoves  BY <1>3 DEF WriteReceipt, SendEvent, UpMoves
  <2> QED  BY <1>3, <2>1 DEF WriteReceipt, SendEvent, StaleMoves, DownMoves
<1>4. CASE \/ \E m \in AgentMsgs : FailInterrupted(m)
           \/ EndRecovery
           \/ \E e \in EventIds : PostLocal(e)
           \/ TaskStep
  <2>1. UNCHANGED <<up, stale, down>>
    BY <1>4 DEF FailInterrupted, EndRecovery, PostLocal, TaskStep, Claim,
                CannotBegin, Begin, Finish, RecordOutcome
  <2> QED  BY <2>1 DEF UpMoves, StaleMoves, DownMoves
<1>5. CASE UNCHANGED vars
  BY <1>5 DEF vars, UpMoves, StaleMoves, DownMoves
<1> QED  BY <1>1, <1>2, <1>3, <1>4, <1>5 DEF Next, BridgeStep

\* The same in terms of the set of frames.
LEMMA FrameSets ==
    ASSUME TypeInv, [Next]_vars
    PROVE  /\ \A f \in Elems(up') :
                 \/ f \in Elems(up)
                 \/ f.type = "envelope"
                 \/ /\ sup = "replying"
                    /\ f = BridgeReceipt(reply.id, reply.disposition)
           /\ Elems(stale') \subseteq Elems(stale) \cup Elems(up)
           /\ \A f \in Elems(down') :
                 \/ f \in Elems(down)
                 \/ f = Registered(run.version) /\ run' = run
                 \/ \E m \in Msgs : f = Envelope(m) /\ outbox[m] \in Live
                                                   /\ outbox' = outbox
                 \/ \E e \in EventIds : /\ f = HubReceipt(e, run'.version)
                                        /\ recorded'[e] # "none"
<1>0. /\ up \in Seq(UpFrames) /\ stale \in Seq(UpFrames)
      /\ down \in Seq(DownFrames)
      /\ run'.version \in Versions
      /\ sup = "replying" => BridgeReceipt(reply.id, reply.disposition) \in UpFrames
  BY NextType, Frames DEF TypeInv, TypeOK, LinkTypeOK, HubTypeOK, ReaderInv
<1>1. UpMoves /\ StaleMoves /\ DownMoves  BY FrameMoves
<1>2. \A f \in Elems(up') :
         \/ f \in Elems(up)
         \/ f.type = "envelope"
         \/ sup = "replying" /\ f = BridgeReceipt(reply.id, reply.disposition)
  <2>1. CASE up' = up \/ up' = <<>> \/ (up # <<>> /\ up' = Tail(up))
    BY <1>0, <2>1, ElemsOps, ElemsShort
  <2>2. ASSUME NEW e \in EventIds, up' = Append(up, Envelope(e))
        PROVE  Elems(up') = Elems(up) \cup {Envelope(e)}
    <3>1. Envelope(e) \in UpFrames  BY Frames
    <3> QED  BY <1>0, <2>2, <3>1, ElemsOps
  <2>3. CASE /\ sup = "replying"
             /\ up' = Append(up, BridgeReceipt(reply.id, reply.disposition))
    BY <1>0, <2>3, ElemsOps
  <2>4. \A e \in EventIds : Envelope(e).type = "envelope"  BY DEF Envelope
  <2> QED  BY <1>1, <2>1, <2>2, <2>3, <2>4 DEF UpMoves
<1>3. Elems(stale') \subseteq Elems(stale) \cup Elems(up)
  BY <1>0, <1>1, ElemsOps, ElemsShort DEF StaleMoves
<1>4. \A f \in Elems(down') :
         \/ f \in Elems(down)
         \/ f = Registered(run.version) /\ run' = run
         \/ \E m \in Msgs : f = Envelope(m) /\ outbox[m] \in Live
                                           /\ outbox' = outbox
         \/ \E e \in EventIds : /\ f = HubReceipt(e, run'.version)
                                /\ recorded'[e] # "none"
  <2>1. CASE down' = down \/ down' = <<>> \/ (down # <<>> /\ down' = Tail(down))
    BY <1>0, <2>1, ElemsOps, ElemsShort
  <2>2. CASE down' = <<Registered(run.version)>> /\ run' = run
    BY <2>2, ElemsShort
  <2>3. ASSUME NEW m \in Msgs, down' = Append(down, Envelope(m))
        PROVE  Elems(down') = Elems(down) \cup {Envelope(m)}
    BY <1>0, <2>3, Frames, ElemsOps
  <2>4. ASSUME NEW e \in EventIds,
               down' = Append(down, HubReceipt(e, run'.version))
        PROVE  Elems(down') = Elems(down) \cup {HubReceipt(e, run'.version)}
    BY <1>0, <2>4, Frames, ElemsOps
  <2> QED  BY <1>1, <2>1, <2>2, <2>3, <2>4 DEF DownMoves
<1> QED  BY <1>2, <1>3, <1>4

\* What settles a row, on either side, is a receipt in flight.
LEMMA SettledBy ==
    ASSUME TypeInv, [Next]_vars
    PROVE  /\ \A m \in Msgs, x \in {"acknowledged", "cancelled"} : outbox'[m] = x =>
                 \/ outbox[m] = x
                 \/ \E f \in Elems(up) \cup Elems(stale) :
                       /\ f.type = "receipt" /\ f.id = m
                       /\ f.disposition = "rejected" <=> x = "cancelled"
           /\ \A e \in EventIds : journal'[e].status = "acknowledged" =>
                 \/ journal[e].status = "acknowledged"
                 \/ \E f \in Elems(down) : f.type = "receipt" /\ f.id = e
<1> DEFINE
    Out == \A m \in Msgs, x \in {"acknowledged", "cancelled"} : outbox'[m] = x =>
              \/ outbox[m] = x
              \/ \E f \in Elems(up) \cup Elems(stale) :
                    /\ f.type = "receipt" /\ f.id = m
                    /\ f.disposition = "rejected" <=> x = "cancelled"
    Jou == \A e \in EventIds : journal'[e].status = "acknowledged" =>
              \/ journal[e].status = "acknowledged"
              \/ \E f \in Elems(down) : f.type = "receipt" /\ f.id = e
<1>0. /\ outbox \in [Msgs -> Live \cup {"none", "acknowledged", "cancelled"}]
      /\ journal \in [EventIds -> [status : {Queued, "none", "acknowledged"},
                                   version : 0 .. MaxVersion]]
      /\ hubSends \in Msgs \cup {NoMsg}
      /\ up # <<>> => Head(up) \in UpFrames /\ Head(up) \in Elems(up)
      /\ stale # <<>> => Head(stale) \in UpFrames /\ Head(stale) \in Elems(stale)
      /\ down # <<>> => Head(down) \in DownFrames /\ Head(down) \in Elems(down)
  BY ChannelOps, ElemsOps DEF TypeInv, TypeOK, HubTypeOK, LinkTypeOK, BridgeTypeOK
<1>1. Out
  <2>1. ASSUME NEW m \in Msgs, Enqueue(m) PROVE Out
    BY <1>0, <2>1 DEF Enqueue
  <2>2. ASSUME MarkControlSent PROVE Out
    BY <1>0, <2>2 DEF MarkControlSent
  <2>3. ASSUME NEW f \in UpFrames, f \in Elems(up) \cup Elems(stale),
               f.type = "receipt", AcknowledgeControl(f)
        PROVE  Out
    BY <1>0, <2>3, UpFields DEF AcknowledgeControl
  <2>4. ASSUME HubReads PROVE Out
    <3>1. CASE Head(up).type = "receipt" /\ CanAcknowledge(Head(up))
      BY <1>0, <2>3, <2>4, <3>1 DEF HubReads
    <3>2. CASE ~(Head(up).type = "receipt" /\ CanAcknowledge(Head(up)))
      <4>1. outbox' = outbox  BY <2>4, <3>2 DEF HubReads, ApplyControl, hub
      <4> QED  BY <4>1
    <3> QED  BY <3>1, <3>2
  <2>5. ASSUME StaleHandlerReads PROVE Out
    <3>1. CASE Head(stale).type = "receipt" /\ CanAcknowledge(Head(stale))
      BY <1>0, <2>3, <2>5, <3>1 DEF StaleHandlerReads
    <3>2. CASE ~(Head(stale).type = "receipt" /\ CanAcknowledge(Head(stale)))
      <4>1. outbox' = outbox
        BY <2>5, <3>2 DEF StaleHandlerReads, ApplyControl, hub
      <4> QED  BY <4>1
    <3> QED  BY <3>1, <3>2
  <2>6. ASSUME \/ RunMoves \/ \E m \in AgentMsgs : TaskExpires(m)
               \/ \E m \in Msgs : SendControl(m)
               \/ StaleHandlerEnds \/ HubDisconnects
               \/ BridgeStep \/ TaskStep \/ UNCHANGED vars
        PROVE  Out
    <3>1. outbox' = outbox
      BY <2>6 DEF RunMoves, TaskExpires, SendControl, StaleHandlerEnds,
                  HubDisconnects, BridgeStep, TaskStep, Connect, Disconnect,
                  BridgeRestarts, ReadRegistered, ReadReceipt, ReadEnvelope,
                  WriteReceipt, SendEvent, FailInterrupted, EndRecovery,
                  PostLocal, Claim, CannotBegin, Begin, Finish, RecordOutcome,
                  hub, vars
    <3> QED  BY <3>1
  <2> QED  BY <2>1, <2>2, <2>4, <2>5, <2>6 DEF Next, HubStep
<1>2. Jou
  <2>1. ASSUME ReadReceipt PROVE Jou
    <3>1. Head(down).id \in EventIds  BY <1>0, <2>1, DownFields DEF ReadReceipt
    <3>2. \/ journal' = journal
          \/ journal' = [journal EXCEPT ![Head(down).id].status = "acknowledged"]
      BY <2>1 DEF ReadReceipt
    <3> QED  BY <1>0, <2>1, <3>1, <3>2 DEF ReadReceipt
  <2>2. ASSUME \/ journal' = journal
               \/ \E e \in EventIds, v \in 0 .. MaxVersion : journal' = Queue(e, v)
        PROVE  Jou
    BY <1>0, <2>2 DEF Queue, Queued
  <2>3. ASSUME \/ HubStep \/ UNCHANGED vars
               \/ Connect \/ Disconnect \/ BridgeRestarts \/ ReadRegistered
               \/ \E m \in Msgs : ReadEnvelope(m)
               \/ WriteReceipt \/ \E e \in EventIds : SendEvent(e)
               \/ EndRecovery
               \/ \E m \in Assignments : Claim(m) \/ RecordOutcome(m)
        PROVE  Jou
    <3>1. journal' = journal
      BY <2>3, HubLeavesBridge
      DEF Connect, Disconnect, BridgeRestarts, ReadRegistered, ReadEnvelope,
          WriteReceipt, SendEvent, EndRecovery, Claim, RecordOutcome, disk, vars
    <3> QED  BY <2>2, <3>1
  <2>4. ASSUME \/ \E m \in Assignments : CannotBegin(m) \/ Begin(m)
               \/ \E m \in Assignments, kind \in {"completed", "failed"} :
                     Finish(m, kind)
               \/ \E m \in AgentMsgs : FailInterrupted(m)
        PROVE  Jou
    <3>1. PICK m \in Assignments, k \in {"started", "completed", "failed"} :
             journal' = journal \/ journal' = Queue(<<m, k, epoch>>, EventVersion(m))
      BY <2>4 DEF CannotBegin, Begin, Finish, FailInterrupted, Assignments
    <3>2. <<m, k, epoch>> \in EventIds /\ EventVersion(m) \in 0 .. MaxVersion
      BY EventOfTask, EventVersionType DEF TypeInv, TypeOK, BridgeTypeOK
    <3> QED  BY <2>2, <3>1, <3>2
  <2>5. ASSUME NEW e \in EventIds, PostLocal(e) PROVE Jou
    BY <2>2, <2>5 DEF PostLocal, TypeInv, TypeOK, BridgeTypeOK
  <2> QED  BY <2>1, <2>3, <2>4, <2>5 DEF Next, BridgeStep, TaskStep
<1> QED  BY <1>1, <1>2

\* The receipt the bridge is about to write.
LEMMA ReplyMoves ==
    ASSUME [Next]_vars, sup' = "replying"
    PROVE  \/ sup = "replying" /\ reply' = reply
           \/ \E m \in Msgs : /\ ReadEnvelope(m) /\ reply'.id = m
                              /\ reply'.disposition = "rejected" <=> Outdated(m)
<1>1. CASE HubStep
  BY <1>1, HubLeavesBridge DEF process
<1>2. ASSUME NEW m \in Msgs, ReadEnvelope(m)
      PROVE  reply'.id = m /\ (reply'.disposition = "rejected" <=> Outdated(m))
  BY <1>2 DEF ReadEnvelope
<1>3. CASE \/ Connect \/ Disconnect \/ BridgeRestarts \/ ReadRegistered
           \/ ReadReceipt \/ WriteReceipt \/ EndRecovery
           \/ \E e \in EventIds : SendEvent(e) \/ PostLocal(e)
           \/ \E m \in AgentMsgs : FailInterrupted(m)
           \/ TaskStep \/ UNCHANGED vars
  <2>1. sup' # "replying" \/ (sup' = sup /\ reply' = reply)
    BY <1>3 DEF Connect, Disconnect, BridgeRestarts, Abandon, ReadRegistered,
                ReadReceipt, WriteReceipt, EndRecovery, SendEvent, PostLocal,
                FailInterrupted, TaskStep, Claim, CannotBegin, Begin, Finish,
                RecordOutcome, process, vars
  <2> QED  BY <2>1
<1> QED  BY <1>1, <1>2, <1>3 DEF Next, BridgeStep

LEMMA InitHeld == Init => HeldInv
<1> SUFFICES ASSUME Init PROVE HeldInv  OBVIOUS
<1>1. Elems(up) = {} /\ Elems(stale) = {} /\ Elems(down) = {}
  BY ElemsShort DEF Init
<1>2. AcknowledgedIsHeld  BY DEF Init, AcknowledgedIsHeld
<1> QED  BY <1>1, <1>2 DEF Init, HeldInv

LEMMA NextHeld ==
    ASSUME TypeInv, HeldInv, [Next]_vars
    PROVE  HeldInv'
<1>0. /\ Elems(up) \subseteq UpFrames /\ Elems(stale) \subseteq UpFrames
      /\ Elems(down) \subseteq DownFrames
      /\ sup = "replying" => reply \in Replies
  BY ElemsOps DEF TypeInv, TypeOK, LinkTypeOK, ReaderInv
<1>1. \A f \in Elems(up') : BridgeSpeaksFor(f) => inbox'[f.id] # "none"
  <2> SUFFICES ASSUME NEW f \in Elems(up'), BridgeSpeaksFor(f)
               PROVE  inbox'[f.id] # "none"
    OBVIOUS
  <2>1. CASE f \in Elems(up)
    <3>1. f.id \in Msgs /\ inbox[f.id] # "none"
      BY <1>0, <2>1, UpFields DEF HeldInv, BridgeSpeaksFor
    <3> QED  BY <3>1, TablesKeep
  <2>2. CASE sup = "replying" /\ f = BridgeReceipt(reply.id, reply.disposition)
    <3>1. /\ f.id = reply.id /\ f.disposition = reply.disposition
          /\ reply.id \in Msgs
      BY <1>0, <2>2 DEF BridgeReceipt, Replies
    <3>2. inbox[f.id] # "none"
      BY <2>2, <3>1 DEF HeldInv, BridgeSpeaksFor
    <3> QED  BY <3>1, <3>2, TablesKeep
  <2>3. f.type # "envelope"  BY DEF BridgeSpeaksFor
  <2> QED  BY <2>1, <2>2, <2>3, FrameSets
<1>2. \A f \in Elems(stale') : BridgeSpeaksFor(f) => inbox'[f.id] # "none"
  <2> SUFFICES ASSUME NEW f \in Elems(stale'), BridgeSpeaksFor(f)
               PROVE  inbox'[f.id] # "none"
    OBVIOUS
  <2>1. f \in Elems(stale) \cup Elems(up)  BY FrameSets
  <2>2. f.id \in Msgs /\ inbox[f.id] # "none"
    BY <1>0, <2>1, UpFields DEF HeldInv, BridgeSpeaksFor
  <2> QED  BY <2>2, TablesKeep
<1>3. \A f \in Elems(down') : f.type = "receipt" => recorded'[f.id] # "none"
  <2> SUFFICES ASSUME NEW f \in Elems(down'), f.type = "receipt"
               PROVE  recorded'[f.id] # "none"
    OBVIOUS
  <2>1. CASE f \in Elems(down)
    <3>1. f.id \in EventIds /\ recorded[f.id] # "none"
      BY <1>0, <2>1, DownFields DEF HeldInv
    <3> QED  BY <3>1, TablesKeep
  <2>2. ASSUME NEW e \in EventIds, f = HubReceipt(e, run'.version),
               recorded'[e] # "none"
        PROVE  recorded'[f.id] # "none"
    BY <2>2 DEF HubReceipt
  <2>3. f # Registered(run.version)  BY DEF Registered
  <2>4. \A m \in Msgs : f # Envelope(m)  BY DEF Envelope
  <2> QED  BY <2>1, <2>2, <2>3, <2>4, FrameSets
<1>4. ASSUME sup' = "replying", reply'.disposition # "rejected"
      PROVE  inbox'[reply'.id] # "none"
  <2>1. CASE sup = "replying" /\ reply' = reply
    <3>1. reply.id \in Msgs /\ inbox[reply.id] # "none"
      BY <1>0, <1>4, <2>1 DEF HeldInv, Replies
    <3> QED  BY <2>1, <3>1, TablesKeep
  <2>2. ASSUME NEW m \in Msgs, ReadEnvelope(m), reply'.id = m, ~Outdated(m)
        PROVE  inbox'[m] # "none"
    BY <2>2 DEF ReadEnvelope, Duplicate, Journaled, TypeInv, TypeOK, BridgeTypeOK
  <2> QED  BY <1>4, <2>1, <2>2, ReplyMoves
<1>5. AcknowledgedIsHeld'
  <2>1. ASSUME NEW m \in Msgs, outbox'[m] = "acknowledged"
        PROVE  inbox'[m] # "none"
    <3>1. CASE outbox[m] = "acknowledged"
      BY <3>1, TablesKeep DEF HeldInv, AcknowledgedIsHeld
    <3>2. CASE outbox[m] # "acknowledged"
      <4>1. PICK f \in Elems(up) \cup Elems(stale) :
               f.type = "receipt" /\ f.id = m /\ f.disposition # "rejected"
        BY <2>1, <3>2, SettledBy
      <4>2. inbox[m] # "none"  BY <4>1 DEF HeldInv, BridgeSpeaksFor
      <4> QED  BY <4>2, TablesKeep
    <3> QED  BY <3>1, <3>2
  <2>2. ASSUME NEW e \in EventIds, journal'[e].status = "acknowledged"
        PROVE  recorded'[e] # "none"
    <3>1. CASE journal[e].status = "acknowledged"
      BY <3>1, TablesKeep DEF HeldInv, AcknowledgedIsHeld
    <3>2. CASE journal[e].status # "acknowledged"
      <4>1. PICK f \in Elems(down) : f.type = "receipt" /\ f.id = e
        BY <2>2, <3>2, SettledBy
      <4>2. recorded[e] # "none"  BY <4>1 DEF HeldInv
      <4> QED  BY <4>2, TablesKeep
    <3> QED  BY <3>1, <3>2
  <2> QED  BY <2>1, <2>2 DEF AcknowledgedIsHeld
<1>6. /\ Elems(up)' = Elems(up') /\ Elems(stale)' = Elems(stale')
      /\ Elems(down)' = Elems(down')
  BY DEF Elems
<1> QED  BY <1>1, <1>2, <1>3, <1>4, <1>5, <1>6 DEF HeldInv, BridgeSpeaksFor

(***************************************************************************)
(* THEOREM.  Whatever is lost with a connection or a process, a row that   *)
(* one side counts as delivered is in the other side's table.              *)
(***************************************************************************)
THEOREM NothingLost == Spec => []AcknowledgedIsHeld
<1>1. Init => TypeInv /\ HeldInv  BY InitType, InitHeld
<1>2. TypeInv /\ HeldInv /\ [Next]_vars => (TypeInv /\ HeldInv)'
  BY NextType, NextHeld
<1>3. HeldInv => AcknowledgedIsHeld  BY DEF HeldInv
<1> QED  BY <1>1, <1>2, <1>3, PTL DEF Spec

(***************************************************************************)
(* Versions.  The hub's version only grows; every version the bridge sees, *)
(* in a registration, a receipt or an assignment, is one the hub had; and  *)
(* a rejection, wherever it is, is about a queued assignment that the hub  *)
(* has left behind.                                                        *)
(***************************************************************************)
Overtaken(m) == outbox[m] # "none" /\ given[m] < run.version

VersionInv ==
    /\ snap <= run.version
    /\ \A m \in Msgs : given[m] <= run.version
    /\ \A f \in Elems(down) : /\ f.type # "envelope" => f.version <= run.version
                              /\ f.type = "envelope" => outbox[f.id] # "none"
    /\ sup = "dialed" => snap <= Head(down).version
    /\ \A f \in Elems(up) \cup Elems(stale) :
          f.type = "receipt" /\ f.disposition = "rejected" => Overtaken(f.id)
    /\ sup = "replying" /\ reply.disposition = "rejected" => Overtaken(reply.id)
    /\ \A m \in Msgs : outbox[m] = "cancelled" => Overtaken(m)

LEMMA InitVersions == Init => VersionInv
<1> SUFFICES ASSUME Init PROVE VersionInv  OBVIOUS
<1>1. Elems(up) = {} /\ Elems(stale) = {} /\ Elems(down) = {}
  BY ElemsShort DEF Init
<1> QED  BY <1>1 DEF Init, VersionInv

\* The hub's version grows, and a queued assignment keeps the version it was
\* queued at.
LEMMA HubVersions ==
    ASSUME TypeInv, [Next]_vars, \A m \in Msgs : given[m] <= run.version
    PROVE  /\ run.version <= run'.version
           /\ \A m \in Msgs : given'[m] <= run'.version
           /\ \A m \in Msgs : outbox[m] # "none" =>
                 outbox'[m] # "none" /\ given'[m] = given[m]
<1> DEFINE Goal == /\ run.version <= run'.version
                   /\ \A m \in Msgs : given'[m] <= run'.version
                   /\ \A m \in Msgs : outbox[m] # "none" =>
                         outbox'[m] # "none" /\ given'[m] = given[m]
<1>0. /\ run \in [version : Versions, status : LiveRun \cup {"ended"},
                  task : AgentMsgs \cup {NoMsg}]
      /\ outbox \in [Msgs -> Live \cup {"none", "acknowledged", "cancelled"}]
      /\ given \in [Msgs -> 0 .. MaxVersion]
      /\ run.version \in Nat /\ MaxVersion \in Nat
      /\ hubSends \in Msgs \cup {NoMsg}
      /\ up # <<>> => Head(up) \in UpFrames
      /\ stale # <<>> => Head(stale) \in UpFrames
      /\ \A m \in Msgs : given[m] \in Nat
  <2>1. /\ run \in [version : Versions, status : LiveRun \cup {"ended"},
                    task : AgentMsgs \cup {NoMsg}]
        /\ outbox \in [Msgs -> Live \cup {"none", "acknowledged", "cancelled"}]
        /\ given \in [Msgs -> 0 .. MaxVersion]
        /\ hubSends \in Msgs \cup {NoMsg}
        /\ up \in Seq(UpFrames) /\ stale \in Seq(UpFrames)
    BY DEF TypeInv, TypeOK, HubTypeOK, LinkTypeOK
  <2>2. /\ up # <<>> => Head(up) \in UpFrames
        /\ stale # <<>> => Head(stale) \in UpFrames
    BY <2>1, ChannelOps
  <2>3. run.version \in Nat /\ MaxVersion \in Nat  BY <2>1, Bounds
  <2>4. \A m \in Msgs : given[m] \in Nat  BY <2>1, <2>3
  <2> QED  BY <2>1, <2>2, <2>3, <2>4
<1>1. ASSUME NEW m \in Msgs, Enqueue(m) PROVE Goal
  <2>1. run'.version = run.version  BY <1>0, <1>1 DEF Enqueue
  <2>2. /\ outbox[m] = "none"
        /\ outbox' = [outbox EXCEPT ![m] = "pending"]
        /\ given' = [given EXCEPT ![m] = run.version]
    BY <1>1 DEF Enqueue
  <2> QED  BY <1>0, <2>1, <2>2
<1>2. ASSUME RunMoves \/ \E m \in AgentMsgs : TaskExpires(m) PROVE Goal
  <2>1. run'.version \in {run.version, run.version + 1}
    BY <1>0, <1>2 DEF RunMoves, TaskExpires
  <2>2. outbox' = outbox /\ given' = given
    BY <1>2 DEF RunMoves, TaskExpires
  <2> QED  BY <1>0, <2>1, <2>2
<1>3. ASSUME MarkControlSent PROVE Goal
  <2>1. /\ run' = run /\ given' = given /\ hubSends \in Msgs
        /\ outbox' = [outbox EXCEPT ![hubSends] = IF @ \in Live THEN "sent" ELSE @]
    BY <1>0, <1>3 DEF MarkControlSent
  <2> QED  BY <1>0, <2>1
<1>4. ASSUME NEW f \in UpFrames, f.type = "receipt", AcknowledgeControl(f)
      PROVE  Goal
  <2>1. /\ given' = given /\ run'.version = run.version /\ f.id \in Msgs
        /\ \/ outbox' = [outbox EXCEPT ![f.id] = "acknowledged"]
           \/ outbox' = [outbox EXCEPT ![f.id] = "cancelled"]
    BY <1>0, <1>4, UpFields DEF AcknowledgeControl
  <2> QED  BY <1>0, <2>1
<1>5. ASSUME NEW e \in EventIds, ApplyControl(e) PROVE Goal
  <2>1. given' = given /\ outbox' = outbox  BY <1>5 DEF ApplyControl
  <2>2. run'.version \in {run.version, run.version + 1}
    BY <1>0, <1>5 DEF ApplyControl
  <2> QED  BY <1>0, <2>1, <2>2
<1>6. ASSUME UNCHANGED hub PROVE Goal
  BY <1>0, <1>6 DEF hub
<1>7. ASSUME HubReads PROVE Goal
  <2>1. CASE Head(up).type = "receipt" /\ CanAcknowledge(Head(up))
    BY <1>0, <1>4, <1>7, <2>1 DEF HubReads
  <2>2. CASE Head(up).type = "receipt" /\ ~CanAcknowledge(Head(up))
    BY <1>6, <1>7, <2>2 DEF HubReads
  <2>3. CASE Head(up).type = "envelope"
    <3>1. Head(up).id \in EventIds /\ ApplyControl(Head(up).id)
      BY <1>0, <1>7, <2>3, UpFields DEF HubReads
    <3> QED  BY <1>5, <3>1
  <2> QED  BY <1>7, <2>1, <2>2, <2>3 DEF HubReads
<1>8. ASSUME StaleHandlerReads PROVE Goal
  <2>1. CASE Head(stale).type = "receipt" /\ CanAcknowledge(Head(stale))
    BY <1>0, <1>4, <1>8, <2>1 DEF StaleHandlerReads
  <2>2. CASE Head(stale).type = "receipt" /\ ~CanAcknowledge(Head(stale))
    BY <1>6, <1>8, <2>2 DEF StaleHandlerReads
  <2>3. CASE Head(stale).type = "envelope"
    <3>1. Head(stale).id \in EventIds /\ ApplyControl(Head(stale).id)
      BY <1>0, <1>8, <2>3, UpFields DEF StaleHandlerReads
    <3> QED  BY <1>5, <3>1
  <2> QED  BY <1>8, <2>1, <2>2, <2>3 DEF StaleHandlerReads
<1>9. ASSUME \/ \E m \in Msgs : SendControl(m)
             \/ StaleHandlerEnds \/ HubDisconnects
             \/ BridgeStep \/ TaskStep \/ UNCHANGED vars
      PROVE  Goal
  <2>1. UNCHANGED hub
    BY <1>9 DEF SendControl, StaleHandlerEnds, HubDisconnects, BridgeStep,
                TaskStep, Connect, Disconnect, BridgeRestarts, ReadRegistered,
                ReadReceipt, ReadEnvelope, WriteReceipt, SendEvent,
                FailInterrupted, EndRecovery, PostLocal, Claim, CannotBegin,
                Begin, Finish, RecordOutcome, hub, vars
  <2> QED  BY <1>6, <2>1
<1> QED  BY <1>1, <1>2, <1>3, <1>7, <1>8, <1>9 DEF Next, HubStep

\* Where the bridge's version comes from.
LEMMA SnapMoves ==
    ASSUME TypeInv, VersionInv, [Next]_vars
    PROVE  snap <= snap' /\ snap' <= run.version
<1>0. /\ snap \in Nat /\ run.version \in Nat /\ \A m \in Msgs : given[m] \in Nat
      /\ down # <<>> => Head(down) \in DownFrames /\ Head(down) \in Elems(down)
      /\ snap <= run.version /\ \A m \in Msgs : given[m] <= run.version
  <2>1. /\ run.version \in Versions /\ given \in [Msgs -> 0 .. MaxVersion]
        /\ snap \in 0 .. MaxVersion /\ down \in Seq(DownFrames)
    <3>1. run.version \in Versions /\ given \in [Msgs -> 0 .. MaxVersion]
      BY DEF TypeInv, TypeOK, HubTypeOK
    <3>2. snap \in 0 .. MaxVersion  BY DEF TypeInv, TypeOK, BridgeTypeOK
    <3>3. down \in Seq(DownFrames)  BY DEF TypeInv, TypeOK, LinkTypeOK
    <3> QED  BY <3>1, <3>2, <3>3
  <2>2. /\ snap \in Nat /\ run.version \in Nat
        /\ \A m \in Msgs : given[m] \in Nat
    <3>1. MaxVersion \in Nat  BY Bounds
    <3>2. snap \in Nat /\ \A m \in Msgs : given[m] \in Nat  BY <2>1, <3>1
    <3>3. run.version \in Nat  BY <2>1, Bounds
    <3> QED  BY <3>2, <3>3
  <2>3. down # <<>> => Head(down) \in DownFrames /\ Head(down) \in Elems(down)
    BY <2>1, ChannelOps, ElemsOps
  <2> QED  BY <2>2, <2>3 DEF VersionInv
<1>1. CASE ReadRegistered
  <2>1. /\ down # <<>> /\ snap' = Head(down).version /\ snap <= Head(down).version
        /\ Head(down).type = "registered"
    BY <1>1 DEF ReadRegistered, VersionInv, TypeInv, ReaderInv, RegisteredFrames
  <2>2. Head(down).version <= run.version  BY <1>0, <2>1 DEF VersionInv
  <2> QED  BY <2>1, <2>2
<1>2. CASE ReadReceipt
  <2>1. /\ Head(down).version \in Nat /\ Head(down).version <= run.version
    BY <1>0, <1>2, DownFields, Bounds DEF ReadReceipt, VersionInv
  <2>2. \/ snap' = snap
        \/ Head(down).version > snap /\ snap' = Head(down).version
    BY <1>2 DEF ReadReceipt
  <2> QED  BY <1>0, <2>1, <2>2
<1>3. ASSUME NEW m \in Msgs, ReadEnvelope(m) PROVE snap <= snap' /\ snap' <= run.version
  <2>1. \/ snap' = snap
        \/ snap' = given[m] /\ ~(given[m] < snap)
    BY <1>3 DEF ReadEnvelope, Outdated
  <2> QED  BY <1>0, <2>1
<1>4. CASE \/ HubStep \/ UNCHANGED vars
           \/ Connect \/ Disconnect \/ BridgeRestarts \/ WriteReceipt
           \/ \E e \in EventIds : SendEvent(e) \/ PostLocal(e)
           \/ \E m \in AgentMsgs : FailInterrupted(m)
           \/ EndRecovery \/ TaskStep
  <2>1. snap' = snap
    BY <1>4, HubLeavesBridge
    DEF Connect, Disconnect, BridgeRestarts, WriteReceipt, SendEvent, PostLocal,
        FailInterrupted, EndRecovery, TaskStep, Claim, CannotBegin, Begin,
        Finish, RecordOutcome, disk, vars
  <2> QED  BY <1>0, <2>1
<1> QED  BY <1>1, <1>2, <1>3, <1>4 DEF Next, BridgeStep

\* A new connection starts with the hub's current version, and nothing else
\* happens to the bridge's before it is read.
LEMMA DialedMoves ==
    ASSUME TypeInv, [Next]_vars, sup' = "dialed"
    PROVE  /\ snap' = snap
           /\ \/ sup = "dialed" /\ Head(down') = Head(down)
              \/ down' = <<Registered(run.version)>>
<1>0. /\ down \in Seq(DownFrames)
      /\ sup = "dialed" => down # <<>>
      /\ \A e \in EventIds : HubReceipt(e, run'.version) \in DownFrames
      /\ \A m \in Msgs : Envelope(m) \in DownFrames
  BY NextType, Frames DEF TypeInv, TypeOK, LinkTypeOK, HubTypeOK, ReaderInv
<1>1. CASE HubStep
  <2>1. snap' = snap /\ sup = "dialed"
    BY <1>1, HubLeavesBridge DEF disk, process
  <2>2. \/ down' = down
        \/ \E x \in DownFrames : down' = Append(down, x)
    <3>1. ASSUME NEW m \in Msgs, SendControl(m)
          PROVE  \E x \in DownFrames : down' = Append(down, x)
      BY <1>0, <3>1 DEF SendControl
    <3>2. CASE HubReads
      <4>1. CASE Head(up).type = "envelope"
        <5>1. Head(up).id \in EventIds
          BY <3>2, <4>1, ChannelOps, UpFields
          DEF HubReads, TypeInv, TypeOK, LinkTypeOK
        <5> QED  BY <1>0, <3>2, <4>1, <5>1 DEF HubReads
      <4>2. CASE Head(up).type # "envelope"  BY <3>2, <4>2 DEF HubReads
      <4> QED  BY <4>1, <4>2
    <3>3. CASE ~HubReads /\ ~\E m \in Msgs : SendControl(m)
      BY <1>1, <3>3 DEF HubStep, Enqueue, RunMoves, TaskExpires, MarkControlSent,
                        StaleHandlerReads, StaleHandlerEnds, HubDisconnects
    <3> QED  BY <3>1, <3>2, <3>3
  <2> QED  BY <1>0, <2>1, <2>2, ChannelOps
<1>2. CASE Connect  BY <1>2 DEF Connect, disk
<1>3. CASE \/ Disconnect \/ BridgeRestarts \/ ReadRegistered \/ ReadReceipt
           \/ \E m \in Msgs : ReadEnvelope(m)
           \/ WriteReceipt \/ EndRecovery
           \/ \E e \in EventIds : SendEvent(e)
  <2>1. FALSE
    BY <1>3 DEF Disconnect, BridgeRestarts, Abandon, ReadRegistered, ReadReceipt,
                ReadEnvelope, WriteReceipt, EndRecovery, SendEvent, process
  <2> QED  BY <2>1
<1>4. CASE \/ \E e \in EventIds : PostLocal(e)
           \/ \E m \in AgentMsgs : FailInterrupted(m)
           \/ TaskStep \/ UNCHANGED vars
  <2>1. UNCHANGED <<snap, sup, down>>
    BY <1>4 DEF PostLocal, FailInterrupted, TaskStep, Claim, CannotBegin, Begin,
                Finish, RecordOutcome, process, vars
  <2> QED  BY <2>1
<1> QED  BY <1>1, <1>2, <1>3, <1>4 DEF Next, BridgeStep

LEMMA NextVersions ==
    ASSUME TypeInv, VersionInv, [Next]_vars
    PROVE  VersionInv'
<1>0. /\ Elems(up) \subseteq UpFrames /\ Elems(stale) \subseteq UpFrames
      /\ Elems(down) \subseteq DownFrames
      /\ sup = "replying" => reply \in Replies
  BY ElemsOps DEF TypeInv, TypeOK, LinkTypeOK, ReaderInv
<1>1. /\ run.version <= run'.version
      /\ \A m \in Msgs : given'[m] <= run'.version
      /\ \A m \in Msgs : outbox[m] # "none" =>
            outbox'[m] # "none" /\ given'[m] = given[m]
  BY HubVersions DEF VersionInv
<1>2. /\ run.version \in Nat /\ run'.version \in Nat /\ snap' \in Nat
      /\ \A m \in Msgs : given[m] \in Nat
  <2>1. /\ run.version \in Versions /\ run'.version \in Versions
        /\ given \in [Msgs -> 0 .. MaxVersion]
    BY NextType DEF TypeInv, TypeOK, HubTypeOK
  <2>2. snap' \in 0 .. MaxVersion  BY NextType DEF TypeInv, TypeOK, BridgeTypeOK
  <2>3. MaxVersion \in Nat /\ Versions \subseteq Nat  BY Bounds
  <2>4. run.version \in Nat /\ run'.version \in Nat  BY <2>1, <2>3
  <2>5. snap' \in Nat /\ \A m \in Msgs : given[m] \in Nat  BY <2>1, <2>2, <2>3
  <2> QED  BY <2>4, <2>5
<1>3. \A m \in Msgs : Overtaken(m) => Overtaken(m)'
  BY <1>1, <1>2 DEF Overtaken
<1>4. snap' <= run'.version  BY <1>1, <1>2, SnapMoves
<1>5. ASSUME NEW f \in Elems(down')
      PROVE  /\ f.type # "envelope" => f.version <= run'.version
             /\ f.type = "envelope" => outbox'[f.id] # "none"
  <2>1. CASE f \in Elems(down)
    <3>1. CASE f.type = "envelope"
      BY <1>0, <1>1, <2>1, <3>1, DownFields DEF VersionInv
    <3>2. CASE f.type # "envelope"
      <4>1. f.version \in Nat
        BY <1>0, <2>1, <3>2, Bounds DEF DownFrames
      <4> QED  BY <1>1, <1>2, <2>1, <3>2, <4>1 DEF VersionInv
    <3> QED  BY <3>1, <3>2
  <2>2. CASE f = Registered(run.version) /\ run' = run
    BY <1>2, <2>2 DEF Registered
  <2>3. ASSUME NEW m \in Msgs, f = Envelope(m), outbox[m] \in Live, outbox' = outbox
        PROVE  f.type = "envelope" /\ outbox'[f.id] # "none"
    BY <2>3 DEF Envelope, Live
  <2>4. ASSUME NEW e \in EventIds, f = HubReceipt(e, run'.version)
        PROVE  f.type # "envelope" /\ f.version <= run'.version
    BY <1>2, <2>4 DEF HubReceipt
  <2> QED  BY <2>1, <2>2, <2>3, <2>4, FrameSets
<1>6. ASSUME sup' = "dialed" PROVE snap' <= Head(down').version
  <2>1. CASE sup = "dialed" /\ Head(down') = Head(down)
    BY <1>6, <2>1, DialedMoves DEF VersionInv
  <2>2. CASE down' = <<Registered(run.version)>>
    <3>1. Head(down').version = run.version  BY <2>2 DEF Registered
    <3> QED  BY <3>1, SnapMoves
  <2> QED  BY <1>6, <2>1, <2>2, DialedMoves
<1>7. ASSUME NEW f \in Elems(up') \cup Elems(stale'), f.type = "receipt",
             f.disposition = "rejected"
      PROVE  Overtaken(f.id)'
  <2>1. CASE f \in Elems(up) \cup Elems(stale)
    <3>1. f.id \in Msgs /\ Overtaken(f.id)
      BY <1>0, <1>7, <2>1, UpFields DEF VersionInv
    <3> QED  BY <1>3, <3>1
  <2>2. CASE sup = "replying" /\ f = BridgeReceipt(reply.id, reply.disposition)
    <3>1. /\ f.id = reply.id /\ reply.disposition = "rejected"
          /\ reply.id \in Msgs
      BY <1>0, <1>7, <2>2 DEF BridgeReceipt, Replies
    <3>2. Overtaken(reply.id)  BY <2>2, <3>1 DEF VersionInv
    <3>3. f.id \in Msgs /\ Overtaken(f.id)  BY <3>1, <3>2
    <3> QED  BY <1>3, <3>3
  <2> QED  BY <1>7, <2>1, <2>2, FrameSets
<1>8. ASSUME sup' = "replying", reply'.disposition = "rejected"
      PROVE  Overtaken(reply.id)'
  <2>1. CASE sup = "replying" /\ reply' = reply
    <3>1. reply.id \in Msgs /\ Overtaken(reply.id)
      BY <1>0, <1>8, <2>1 DEF VersionInv, Replies
    <3> QED  BY <1>1, <1>2, <2>1, <3>1 DEF Overtaken
  <2>2. ASSUME NEW m \in Msgs, ReadEnvelope(m), reply'.id = m, Outdated(m)
        PROVE  outbox'[m] # "none" /\ given'[m] < run'.version
    <3>1. /\ Envelope(m) \in Elems(down)
          /\ given[m] < snap /\ snap <= run.version
      BY <2>2, ElemsOps
      DEF ReadEnvelope, Outdated, VersionInv, TypeInv, TypeOK, LinkTypeOK
    <3>2. outbox[m] # "none"  BY <3>1 DEF VersionInv, Envelope
    <3>3. snap \in Nat
      <4>1. snap \in 0 .. MaxVersion  BY DEF TypeInv, TypeOK, BridgeTypeOK
      <4> QED  BY <4>1, Bounds
    <3> QED  BY <1>1, <1>2, <3>1, <3>2, <3>3
  <2> QED  BY <1>8, <2>1, <2>2, ReplyMoves DEF Overtaken
<1>9. ASSUME NEW m \in Msgs, outbox'[m] = "cancelled" PROVE Overtaken(m)'
  <2>1. CASE outbox[m] = "cancelled"  BY <1>3, <2>1 DEF VersionInv
  <2>2. CASE outbox[m] # "cancelled"
    <3>1. PICK f \in Elems(up) \cup Elems(stale) :
             f.type = "receipt" /\ f.id = m /\ f.disposition = "rejected"
      BY <1>9, <2>2, SettledBy
    <3>2. Overtaken(m)  BY <3>1 DEF VersionInv
    <3> QED  BY <1>3, <3>2
  <2> QED  BY <2>1, <2>2
<1>10. /\ Elems(up)' = Elems(up') /\ Elems(stale)' = Elems(stale')
       /\ Elems(down)' = Elems(down')
  BY DEF Elems
<1> QED  BY <1>1, <1>4, <1>5, <1>6, <1>7, <1>8, <1>9, <1>10 DEF VersionInv, Overtaken

(***************************************************************************)
(* THEOREM.  The bridge is never ahead of the hub, and turns down only     *)
(* assignments that a transition has overtaken.                            *)
(***************************************************************************)
THEOREM OnlyOvertakenRejected == Spec => []RejectedWasOvertaken
<1>1. Init => TypeInv /\ VersionInv  BY InitType, InitVersions
<1>2. TypeInv /\ VersionInv /\ [Next]_vars => (TypeInv /\ VersionInv)'
  BY NextType, NextVersions
<1>3. VersionInv => RejectedWasOvertaken
  BY DEF VersionInv, RejectedWasOvertaken, Overtaken
<1> QED  BY <1>1, <1>2, <1>3, PTL DEF Spec

(***************************************************************************)
(* THEOREM.  The version the bridge works with never goes back, although   *)
(* registrations and assignments overwrite it.                             *)
(***************************************************************************)
THEOREM SnapshotGrows == Spec => SnapshotMonotone
<1>1. TypeInv /\ VersionInv /\ [Next]_vars => [snap' >= snap]_vars
  <2> SUFFICES ASSUME TypeInv, VersionInv, [Next]_vars PROVE snap' >= snap
    OBVIOUS
  <2>1. snap \in 0 .. MaxVersion /\ snap' \in 0 .. MaxVersion
    BY NextType DEF TypeInv, TypeOK, BridgeTypeOK
  <2> QED  BY <2>1, SnapMoves, Bounds
<1>2. Init => TypeInv /\ VersionInv  BY InitType, InitVersions
<1>3. TypeInv /\ VersionInv /\ [Next]_vars => (TypeInv /\ VersionInv)'
  BY NextType, NextVersions
<1> QED  BY <1>1, <1>2, <1>3, PTL DEF Spec, SnapshotMonotone

\* Acknowledgements and rejections mean what they say, over any number of
\* connections, restarts and resends.
THEOREM TrueAnswers == Spec => []AnswersAreTrue
BY NothingLost, OnlyOvertakenRejected, PTL DEF AnswersAreTrue

(***************************************************************************)
(* One outcome of a task.  What the bridge has queued stays in its journal *)
(* and a completion gets there only from a goroutine that has handed the   *)
(* task over; on the hub's side the first outcome it takes ends the task,  *)
(* which no later one finds live.                                          *)
(***************************************************************************)
ReportInv ==
    /\ \A f \in Elems(up) \cup Elems(stale) :
          f.type = "envelope" => journal[f.id].status # "none"
    /\ \A m \in AgentMsgs, n \in Epochs :
          journal[<<m, "completed", n>>].status # "none" => handed[m] = 1
    /\ \A m \in Assignments : exec[m] = "working" => handed[m] = 1

OutcomeOf(e) == e[1] \in AgentMsgs /\ e[2] # "started"
Taken(e) == OutcomeOf(e) /\ recorded[e] = "accepted"

OutcomeInv ==
    /\ \A m \in AgentMsgs : tasks[m] # "none" => outbox[m] # "none"
    /\ \A e \in EventIds : Taken(e) => tasks[e[1]] \in {"completed", "failed", "timed_out"}
    /\ \A e, f \in EventIds : Taken(e) /\ Taken(f) /\ e[1] = f[1] => e = f
    /\ \A m \in AgentMsgs : tasks[m] = "completed" => handed[m] = 1

\* An event that is in the journal stays there, and a completion of an agent's
\* task gets there when its goroutine finishes.
LEMMA JournalMoves ==
    ASSUME TypeInv, [Next]_vars
    PROVE  /\ \A e \in EventIds : journal[e].status # "none" => journal'[e].status # "none"
           /\ \A m \in AgentMsgs, n \in Epochs :
                 journal'[<<m, "completed", n>>].status # "none" =>
                    \/ journal[<<m, "completed", n>>].status # "none"
                    \/ n = epoch /\ Finish(m, "completed")
<1> DEFINE Keeps == \A e \in EventIds : journal[e].status # "none" => journal'[e].status # "none"
           Grows == \A m \in AgentMsgs, n \in Epochs :
                       journal'[<<m, "completed", n>>].status # "none" =>
                          \/ journal[<<m, "completed", n>>].status # "none"
                          \/ n = epoch /\ Finish(m, "completed")
<1> HIDE DEF Keeps, Grows
<1>0. /\ journal \in [EventIds -> [status : {Queued, "none", "acknowledged"}, version : 0 .. MaxVersion]]
      /\ epoch \in Epochs /\ AgentMsgs \subseteq Assignments
  BY DEF TypeInv, TypeOK, BridgeTypeOK, Assignments
<1>c. \A m \in AgentMsgs, n \in Epochs : <<m, "completed", n>> \in EventIds
  BY <1>0, EventOfTask
<1>1. ASSUME journal' = journal PROVE Keeps /\ Grows
  BY <1>1 DEF Keeps, Grows
<1>2. ASSUME NEW e \in EventIds, journal' = [journal EXCEPT ![e].status = "acknowledged"],
             journal[e].status = Queued
      PROVE  Keeps /\ Grows
  <2>1. journal[e].status # "none"  BY <1>2 DEF Queued
  <2>2. \A d \in EventIds : d # e => journal'[d] = journal[d]  BY <1>0, <1>2
  <2>3. journal'[e].status = "acknowledged"  BY <1>0, <1>2
  <2> QED  BY <1>c, <2>1, <2>2, <2>3 DEF Keeps, Grows
<1>3. ASSUME NEW e \in EventIds, NEW v, journal' = Queue(e, v),
             \A m \in AgentMsgs, n \in Epochs : e = <<m, "completed", n>> => n = epoch /\ Finish(m, "completed")
      PROVE  Keeps /\ Grows
  <2>1. journal'[e].status # "none"  BY <1>0, <1>3 DEF Queue, Queued
  <2>2. \A d \in EventIds : d # e => journal'[d] = journal[d]  BY <1>0, <1>3 DEF Queue
  <2>3. Keeps  BY <2>1, <2>2 DEF Keeps
  <2>4. Grows
    <3> SUFFICES ASSUME NEW m \in AgentMsgs, NEW n \in Epochs,
                        journal'[<<m, "completed", n>>].status # "none",
                        journal[<<m, "completed", n>>].status = "none"
                 PROVE  n = epoch /\ Finish(m, "completed")
      BY DEF Grows
    <3>1. <<m, "completed", n>> = e  BY <1>c, <2>2
    <3> QED  BY <1>3, <3>1
  <2> QED  BY <2>3, <2>4
<1>4. ASSUME HubStep PROVE Keeps /\ Grows
  BY <1>1, <1>4, HubLeavesBridge DEF disk
<1>5. ASSUME ReadReceipt PROVE Keeps /\ Grows
  <2>1. CASE journal' = journal  BY <1>1, <2>1
  <2>2. CASE journal' # journal
    <3>1. /\ down # <<>> /\ Head(down).type = "receipt" /\ journal[Head(down).id].status = Queued
          /\ journal' = [journal EXCEPT ![Head(down).id].status = "acknowledged"]
      BY <1>5, <2>2 DEF ReadReceipt
    <3>2. Head(down).id \in EventIds
      BY <3>1, ChannelOps, DownFields DEF TypeInv, TypeOK, LinkTypeOK
    <3>3. \E d \in EventIds : /\ journal[d].status = Queued
                              /\ journal' = [journal EXCEPT ![d].status = "acknowledged"]
      BY <3>1, <3>2
    <3> QED  BY <1>2, <3>3
  <2> QED  BY <2>1, <2>2
<1>6. ASSUME NEW m \in AgentMsgs, FailInterrupted(m) PROVE Keeps /\ Grows
  <2>1. <<m, "failed", epoch>> \in EventIds  BY <1>0, EventOfTask
  <2>2. journal' = Queue(<<m, "failed", epoch>>, EventVersion(m))  BY <1>6 DEF FailInterrupted
  <2> QED  BY <1>3, <2>1, <2>2
<1>7. ASSUME NEW e \in EventIds, PostLocal(e) PROVE Keeps /\ Grows
  <2>1. journal' = Queue(e, snap) /\ e[1] \notin AgentMsgs
    BY <1>7, ChannelAssumption DEF PostLocal, Msgs, Assignments
  <2>2. \A m \in AgentMsgs, n \in Epochs : e # <<m, "completed", n>>  BY <2>1
  <2> QED  BY <1>3, <2>1, <2>2
<1>8. ASSUME NEW m \in Assignments, CannotBegin(m) PROVE Keeps /\ Grows
  <2>1. <<m, "failed", epoch>> \in EventIds  BY <1>0, EventOfTask
  <2>2. journal' = Queue(<<m, "failed", epoch>>, EventVersion(m))  BY <1>8 DEF CannotBegin
  <2> QED  BY <1>3, <2>1, <2>2
<1>9. ASSUME NEW m \in Assignments, Begin(m) PROVE Keeps /\ Grows
  <2>1. <<m, "started", epoch>> \in EventIds  BY <1>0, EventOfTask
  <2>2. journal' = Queue(<<m, "started", epoch>>, EventVersion(m)) \/ journal' = journal
    BY <1>9 DEF Begin
  <2> QED  BY <1>1, <1>3, <2>1, <2>2
<1>10. ASSUME NEW m \in Assignments, NEW k \in {"completed", "failed"}, Finish(m, k) PROVE Keeps /\ Grows
  <2>1. <<m, k, epoch>> \in EventIds  BY <1>0, EventOfTask
  <2>2. journal' = Queue(<<m, k, epoch>>, EventVersion(m))  BY <1>10 DEF Finish
  <2>3. \A x \in AgentMsgs, n \in Epochs :
           <<m, k, epoch>> = <<x, "completed", n>> => n = epoch /\ Finish(x, "completed")
    BY <1>10
  <2> QED  BY <1>3, <2>1, <2>2, <2>3
<1>11. ASSUME \/ Connect \/ Disconnect \/ BridgeRestarts \/ ReadRegistered \/ WriteReceipt \/ EndRecovery
              \/ \E m \in Msgs : ReadEnvelope(m)
              \/ \E e \in EventIds : SendEvent(e)
              \/ \E m \in Assignments : Claim(m) \/ RecordOutcome(m)
       PROVE  Keeps /\ Grows
  <2>1. journal' = journal
    BY <1>11 DEF Connect, Disconnect, BridgeRestarts, ReadRegistered, WriteReceipt, EndRecovery,
                 ReadEnvelope, SendEvent, Claim, RecordOutcome, disk
  <2> QED  BY <1>1, <2>1
<1>12. ASSUME UNCHANGED vars PROVE Keeps /\ Grows
  BY <1>1, <1>12 DEF vars
<1>13. Keeps /\ Grows
  <2>1. CASE BridgeStep  BY <1>5, <1>6, <1>7, <1>11, <2>1 DEF BridgeStep
  <2>2. CASE TaskStep  BY <1>8, <1>9, <1>10, <1>11, <2>2 DEF TaskStep
  <2> QED  BY <1>4, <1>12, <2>1, <2>2 DEF Next
<1> QED  BY <1>13 DEF Keeps, Grows

\* What the bridge sends is in its journal.
LEMMA EventFrames ==
    ASSUME TypeInv, [Next]_vars
    PROVE  \A f \in Elems(up') : f.type = "envelope" =>
              \/ f \in Elems(up)
              \/ f.id \in EventIds /\ journal[f.id].status = Queued
<1>0. /\ up \in Seq(UpFrames)
      /\ sup = "replying" => BridgeReceipt(reply.id, reply.disposition) \in UpFrames
      /\ BridgeReceipt(reply.id, reply.disposition).type = "receipt"
  BY Frames DEF TypeInv, TypeOK, LinkTypeOK, ReaderInv, BridgeReceipt
<1>1. CASE up' = up \/ up' = <<>> \/ (up # <<>> /\ up' = Tail(up))
  BY <1>0, <1>1, ElemsOps, ElemsShort
<1>2. CASE sup = "replying" /\ up' = Append(up, BridgeReceipt(reply.id, reply.disposition))
  BY <1>0, <1>2, ElemsOps
<1>3. ASSUME NEW e \in EventIds, SendEvent(e), up' # up
      PROVE  \A f \in Elems(up') : f \in Elems(up) \/ (f.id \in EventIds /\ journal[f.id].status = Queued)
  <2>1. up' = Append(up, Envelope(e)) /\ journal[e].status = Queued
    BY <1>3 DEF SendEvent, Resendable
  <2>2. Envelope(e) \in UpFrames /\ Envelope(e).id = e  BY Frames DEF Envelope
  <2>3. Elems(up') = Elems(up) \cup {Envelope(e)}  BY <1>0, <2>1, <2>2, ElemsOps
  <2> QED  BY <2>1, <2>2, <2>3
<1>4. CASE ~\E e \in EventIds : SendEvent(e)
  <2>1. \/ up' = up \/ up' = <<>> \/ (up # <<>> /\ up' = Tail(up))
        \/ sup = "replying" /\ up' = Append(up, BridgeReceipt(reply.id, reply.disposition))
    <3>1. CASE HubStep
      BY <3>1 DEF HubStep, Enqueue, RunMoves, TaskExpires, SendControl, MarkControlSent,
                  HubReads, StaleHandlerReads, StaleHandlerEnds, HubDisconnects
    <3>2. CASE BridgeStep
      BY <1>4, <3>2 DEF BridgeStep, Connect, Disconnect, BridgeRestarts, Abandon, ReadRegistered, ReadReceipt,
                  ReadEnvelope, WriteReceipt, FailInterrupted, EndRecovery, PostLocal
    <3>3. CASE TaskStep
      BY <3>3 DEF TaskStep, Claim, CannotBegin, Begin, Finish, RecordOutcome
    <3>4. CASE UNCHANGED vars  BY <3>4 DEF vars
    <3> QED  BY <3>1, <3>2, <3>3, <3>4 DEF Next
  <2> QED  BY <1>1, <1>2, <2>1
<1> QED  BY <1>1, <1>3, <1>4

\* A goroutine begins once, and handed counts that.
LEMMA HandedMoves ==
    ASSUME TypeInv, HandedInv, [Next]_vars, NEW m \in Assignments
    PROVE  /\ handed[m] = 1 => handed'[m] = 1
           /\ exec'[m] = "working" => exec[m] = "working" \/ handed'[m] = 1
<1>0. /\ exec \in [Assignments -> {"none", "spawned", "claimed", "working",
                                   "aborted", "completing", "failing"}]
      /\ handed \in [Assignments -> Nat] /\ AgentMsgs \subseteq Assignments
      /\ handed' \in [Assignments -> Nat] /\ handed'[m] <= 1
  BY NextType, NextHanded DEF TypeInv, TypeOK, BridgeTypeOK, Assignments, HandedInv
<1>1. ASSUME NEW x \in Assignments, Begin(x)
      PROVE  /\ handed[m] = 1 => handed'[m] = 1
             /\ exec'[m] = "working" => exec[m] = "working" \/ handed'[m] = 1
  BY <1>0, <1>1 DEF Begin, HandedInv
<1>2. CASE HubStep
  BY <1>2, HubLeavesBridge DEF process, history
<1>3. CASE BridgeStep
  <2>1. handed' = handed
    BY <1>3 DEF BridgeStep, Connect, Disconnect, BridgeRestarts, ReadRegistered, ReadReceipt, ReadEnvelope,
                WriteReceipt, SendEvent, FailInterrupted, EndRecovery, PostLocal, history
  <2>2. exec'[m] = "working" => exec[m] = "working"
    BY <1>0, <1>3 DEF BridgeStep, Connect, Disconnect, BridgeRestarts, ReadRegistered, ReadReceipt, ReadEnvelope,
                WriteReceipt, SendEvent, FailInterrupted, EndRecovery, PostLocal, process, NoGoroutine
  <2> QED  BY <2>1, <2>2
<1>4. CASE /\ TaskStep /\ ~\E x \in Assignments : Begin(x)
  <2>1. handed' = handed
    BY <1>4 DEF TaskStep, Claim, CannotBegin, Finish, RecordOutcome, history
  <2>2. exec'[m] = "working" => exec[m] = "working"
    BY <1>0, <1>4 DEF TaskStep, Claim, CannotBegin, Finish, RecordOutcome
  <2> QED  BY <2>1, <2>2
<1>5. CASE UNCHANGED vars  BY <1>5 DEF vars
<1> QED  BY <1>1, <1>2, <1>3, <1>4, <1>5 DEF Next, TaskStep

\* At the start nothing is queued and nothing has come out.
LEMMA InitReports == Init => ReportInv /\ OutcomeInv
<1> SUFFICES ASSUME Init PROVE ReportInv /\ OutcomeInv  OBVIOUS
<1>1. Elems(up) = {} /\ Elems(stale) = {}  BY ElemsShort DEF Init
<1>2. \A m \in AgentMsgs, n \in Epochs : <<m, "completed", n>> \in EventIds
  BY EventOfTask DEF Assignments
<1>3. ReportInv  BY <1>1, <1>2 DEF Init, ReportInv, NoGoroutine
<1>4. OutcomeInv  BY DEF Init, OutcomeInv, Taken
<1> QED  BY <1>3, <1>4

\* Every step keeps what the bridge has queued and what came out in step.
LEMMA NextReports ==
    ASSUME TypeInv, HandedInv, ReportInv, [Next]_vars
    PROVE  ReportInv'
<1>0. /\ AgentMsgs \subseteq Assignments /\ Elems(up) \subseteq UpFrames /\ Elems(stale) \subseteq UpFrames
      /\ \A m \in AgentMsgs, n \in Epochs : <<m, "completed", n>> \in EventIds
  BY ElemsOps, EventOfTask DEF TypeInv, TypeOK, LinkTypeOK, Assignments
<1>1. \A f \in Elems(up') \cup Elems(stale') : f.type = "envelope" => journal'[f.id].status # "none"
  <2>1. ASSUME NEW f \in Elems(up) \cup Elems(stale), f.type = "envelope"
        PROVE  journal'[f.id].status # "none"
    <3>1. f.id \in EventIds /\ journal[f.id].status # "none"
      BY <1>0, <2>1, UpFields DEF ReportInv
    <3> QED  BY <3>1, JournalMoves
  <2>2. Elems(stale') \subseteq Elems(stale) \cup Elems(up)  BY FrameSets
  <2>3. ASSUME NEW f \in Elems(up'), f.type = "envelope" PROVE journal'[f.id].status # "none"
    <3>1. CASE f \in Elems(up)  BY <2>1, <2>3, <3>1
    <3>2. CASE f.id \in EventIds /\ journal[f.id].status = Queued
      BY <3>2, JournalMoves DEF Queued
    <3> QED  BY <2>3, <3>1, <3>2, EventFrames
  <2> QED  BY <2>1, <2>2, <2>3
<1>2. ASSUME NEW m \in AgentMsgs, NEW n \in Epochs, journal'[<<m, "completed", n>>].status # "none"
      PROVE  handed'[m] = 1
  <2>1. CASE journal[<<m, "completed", n>>].status # "none"
    BY <1>0, <2>1, HandedMoves DEF ReportInv
  <2>2. CASE Finish(m, "completed")
    <3>1. exec[m] = "working"  BY <2>2 DEF Finish
    <3> QED  BY <1>0, <3>1, HandedMoves DEF ReportInv
  <2> QED  BY <1>2, <2>1, <2>2, JournalMoves
<1>3. ASSUME NEW m \in Assignments, exec'[m] = "working" PROVE handed'[m] = 1
  BY <1>3, HandedMoves DEF ReportInv
<1> QED  BY <1>1, <1>2, <1>3 DEF ReportInv

\* What the hub's handler of an event does to the tables keeps one outcome.
LEMMA ApplyOutcome ==
    ASSUME TypeInv, ReportInv, OutcomeInv, handed' = handed,
           NEW e \in EventIds, journal[e].status # "none", ApplyControl(e)
    PROVE  OutcomeInv'
<1>0. /\ tasks \in [AgentMsgs -> LiveTask \cup {"none", "completed", "failed", "timed_out"}]
      /\ recorded \in [EventIds -> {"none", "accepted", "refused"}]
      /\ e[1] \in AgentMsgs => e[2] \in {"started", "completed", "failed"}
      /\ outbox' = outbox
  BY EventFields DEF TypeInv, TypeOK, HubTypeOK, ApplyControl
<1>a. ASSUME tasks' = tasks, \A d \in EventIds : recorded'[d] = "accepted" => recorded[d] = "accepted"
      PROVE  OutcomeInv'
  BY <1>0, <1>a DEF OutcomeInv, Taken
<1>1. CASE recorded[e] # "none"
  <2>1. tasks' = tasks /\ recorded' = recorded  BY <1>1 DEF ApplyControl
  <2> QED  BY <1>a, <2>1
<1>2. CASE recorded' = [recorded EXCEPT ![e] = "refused"] /\ tasks' = tasks
  <2>1. \A d \in EventIds : recorded'[d] = "accepted" => recorded[d] = "accepted"  BY <1>0, <1>2
  <2> QED  BY <1>a, <1>2, <2>1
<1>3. CASE /\ Applicable(e) /\ recorded' = [recorded EXCEPT ![e] = "accepted"] /\ tasks' = TaskAfter(e)
  <2>1. \A d \in EventIds : d # e => recorded'[d] = recorded[d]  BY <1>0, <1>3
  <2>2. CASE e[1] \notin AgentMsgs
    <3>1. tasks' = tasks  BY <1>3, <2>2 DEF TaskAfter
    <3>2. \A d \in EventIds : Taken(d)' => Taken(d)  BY <2>1, <2>2 DEF Taken, OutcomeOf
    <3> QED  BY <1>0, <3>1, <3>2 DEF OutcomeInv
  <2>3. CASE e[1] \in AgentMsgs
    <3>1. tasks[e[1]] \in LiveTask
      BY <1>3, <2>3, ChannelAssumption DEF Applicable, Authorized, Msgs, Assignments
    <3>2. /\ \A m \in AgentMsgs : m # e[1] => tasks'[m] = tasks[m]
          /\ tasks'[e[1]] = IF e[2] = "started" THEN "running" ELSE e[2]
      BY <1>0, <1>3, <2>3 DEF TaskAfter
    <3>3. \A d \in EventIds : Taken(d) => d[1] # e[1]
      BY <3>1 DEF OutcomeInv, LiveTask
    <3>4. \A d \in EventIds : Taken(d)' => Taken(d) \/ (d = e /\ e[2] # "started")
      BY <2>1 DEF Taken, OutcomeOf
    <3>5. \A m \in AgentMsgs : tasks'[m] # "none" => outbox'[m] # "none"
      BY <1>0, <3>1, <3>2 DEF OutcomeInv, LiveTask
    <3>6. \A d \in EventIds : Taken(d)' => tasks'[d[1]] \in {"completed", "failed", "timed_out"}
      <4> SUFFICES ASSUME NEW d \in EventIds, Taken(d)'
                   PROVE  tasks'[d[1]] \in {"completed", "failed", "timed_out"}
        OBVIOUS
      <4>1. CASE Taken(d)  BY <3>2, <3>3, <4>1 DEF OutcomeInv, Taken, OutcomeOf
      <4>2. CASE d = e /\ e[2] # "started"  BY <1>0, <2>3, <3>2, <4>2
      <4> QED  BY <3>4, <4>1, <4>2
    <3>7. \A d, f \in EventIds : Taken(d)' /\ Taken(f)' /\ d[1] = f[1] => d = f
      BY <3>3, <3>4 DEF OutcomeInv
    <3>8. \A m \in AgentMsgs : tasks'[m] = "completed" => handed'[m] = 1
      <4> SUFFICES ASSUME NEW m \in AgentMsgs, tasks'[m] = "completed" PROVE handed[m] = 1
        OBVIOUS
      <4>1. CASE m # e[1]  BY <3>2, <4>1 DEF OutcomeInv
      <4>2. CASE m = e[1]
        <5>1. e[2] = "completed"  BY <1>0, <2>3, <3>2, <4>2
        <5>2. PICK n \in Epochs : e = <<m, "completed", n>>
          BY <4>2, <5>1, ChannelAssumption DEF EventIds, Msgs, Assignments
        <5> QED  BY <5>2 DEF ReportInv
      <4> QED  BY <4>1, <4>2
    <3> QED  BY <3>5, <3>6, <3>7, <3>8 DEF OutcomeInv
  <2> QED  BY <2>2, <2>3
<1> QED  BY <1>1, <1>2, <1>3 DEF ApplyControl

\* Every step keeps the one outcome.
LEMMA NextOutcome ==
    ASSUME TypeInv, HandedInv, ReportInv, OutcomeInv, [Next]_vars
    PROVE  OutcomeInv'
<1>0. /\ tasks \in [AgentMsgs -> LiveTask \cup {"none", "completed", "failed", "timed_out"}]
      /\ outbox \in [Msgs -> Live \cup {"none", "acknowledged", "cancelled"}]
      /\ AgentMsgs \subseteq Assignments /\ AgentMsgs \subseteq Msgs
      /\ up # <<>> => Head(up) \in UpFrames /\ Head(up) \in Elems(up)
      /\ stale # <<>> => Head(stale) \in UpFrames /\ Head(stale) \in Elems(stale)
  BY ElemsOps DEF TypeInv, TypeOK, HubTypeOK, LinkTypeOK, Assignments, Msgs
<1>1. \A m \in AgentMsgs : handed[m] = 1 => handed'[m] = 1
  BY <1>0, HandedMoves
<1>2. ASSUME tasks' = tasks, recorded' = recorded, \A m \in Msgs : outbox[m] # "none" => outbox'[m] # "none"
      PROVE  OutcomeInv'
  BY <1>0, <1>1, <1>2 DEF OutcomeInv, Taken
<1>3. ASSUME NEW f \in UpFrames, f.type = "receipt", AcknowledgeControl(f) PROVE OutcomeInv'
  <2>1. /\ tasks' = tasks /\ recorded' = recorded
        /\ outbox' = [outbox EXCEPT ![f.id] = "acknowledged"] \/ outbox' = [outbox EXCEPT ![f.id] = "cancelled"]
    BY <1>3 DEF AcknowledgeControl
  <2>2. \A m \in Msgs : outbox[m] # "none" => outbox'[m] # "none"  BY <1>0, <2>1
  <2> QED  BY <1>2, <2>1, <2>2
<1>4. ASSUME NEW f \in Elems(up) \cup Elems(stale), f \in UpFrames, f.type = "envelope", ApplyControl(f.id), handed' = handed
      PROVE  OutcomeInv'
  BY <1>4, ApplyOutcome, UpFields DEF ReportInv
<1>5. CASE HubReads
  <2>1. handed' = handed  BY <1>5 DEF HubReads, history
  <2>2. CASE Head(up).type = "receipt" /\ CanAcknowledge(Head(up))
    BY <1>0, <1>3, <1>5, <2>2 DEF HubReads
  <2>3. CASE Head(up).type = "receipt" /\ ~CanAcknowledge(Head(up))
    <3>1. UNCHANGED <<tasks, recorded, outbox>>  BY <1>5, <2>3 DEF HubReads, hub
    <3> QED  BY <1>2, <3>1
  <2>4. CASE Head(up).type = "envelope"
    BY <1>0, <1>4, <1>5, <2>1, <2>4 DEF HubReads
  <2> QED  BY <1>5, <2>2, <2>3, <2>4 DEF HubReads
<1>6. CASE StaleHandlerReads
  <2>1. handed' = handed  BY <1>6 DEF StaleHandlerReads, history
  <2>2. CASE Head(stale).type = "receipt" /\ CanAcknowledge(Head(stale))
    BY <1>0, <1>3, <1>6, <2>2 DEF StaleHandlerReads
  <2>3. CASE Head(stale).type = "receipt" /\ ~CanAcknowledge(Head(stale))
    <3>1. UNCHANGED <<tasks, recorded, outbox>>  BY <1>6, <2>3 DEF StaleHandlerReads, hub
    <3> QED  BY <1>2, <3>1
  <2>4. CASE Head(stale).type = "envelope"
    BY <1>0, <1>4, <1>6, <2>1, <2>4 DEF StaleHandlerReads
  <2> QED  BY <1>6, <2>2, <2>3, <2>4 DEF StaleHandlerReads
<1>7. ASSUME NEW m \in Msgs, Enqueue(m) PROVE OutcomeInv'
  <2>1. /\ outbox[m] = "none" /\ outbox' = [outbox EXCEPT ![m] = "pending"]
        /\ recorded' = recorded
        /\ tasks' = tasks \/ (m \in AgentMsgs /\ tasks' = [tasks EXCEPT ![m] = "assigned"])
    BY <1>7 DEF Enqueue
  <2>2. \A k \in Msgs : outbox[k] # "none" => outbox'[k] # "none"  BY <1>0, <2>1
  <2>3. CASE tasks' = tasks  BY <1>2, <2>1, <2>2, <2>3
  <2>4. CASE m \in AgentMsgs /\ tasks' = [tasks EXCEPT ![m] = "assigned"]
    <3>1. /\ tasks[m] = "none" /\ tasks'[m] = "assigned" /\ outbox'[m] = "pending"
          /\ \A k \in AgentMsgs : k # m => tasks'[k] = tasks[k]
      BY <1>0, <2>1, <2>4 DEF OutcomeInv
    <3>2. \A d \in EventIds : (Taken(d)' <=> Taken(d)) /\ (Taken(d) => d[1] # m)
      BY <2>1, <3>1 DEF Taken, OutcomeOf, OutcomeInv
    <3>3. \A d \in EventIds : Taken(d) => d[1] \in AgentMsgs  BY DEF Taken, OutcomeOf
    <3> QED  BY <1>1, <2>2, <1>0, <3>1, <3>2, <3>3 DEF OutcomeInv
  <2> QED  BY <2>1, <2>3, <2>4
<1>8. ASSUME NEW m \in AgentMsgs, TaskExpires(m) PROVE OutcomeInv'
  <2>1. /\ tasks[m] \in LiveTask /\ tasks' = [tasks EXCEPT ![m] = "timed_out"]
        /\ recorded' = recorded /\ outbox' = outbox
    BY <1>8 DEF TaskExpires
  <2>2. /\ tasks[m] # "none" /\ tasks'[m] = "timed_out"
        /\ \A k \in AgentMsgs : k # m => tasks'[k] = tasks[k]
    BY <1>0, <2>1 DEF LiveTask
  <2>3. \A d \in EventIds : (Taken(d)' <=> Taken(d)) /\ (Taken(d) => d[1] \in AgentMsgs)
    BY <2>1 DEF Taken, OutcomeOf
  <2> QED  BY <1>1, <2>1, <2>2, <2>3 DEF OutcomeInv
<1>9. CASE \/ RunMoves \/ MarkControlSent \/ StaleHandlerEnds \/ HubDisconnects
           \/ \E m \in Msgs : SendControl(m)
  <2>1. /\ tasks' = tasks /\ recorded' = recorded
        /\ outbox' = outbox \/ MarkControlSent
    BY <1>9 DEF RunMoves, MarkControlSent, StaleHandlerEnds, HubDisconnects, SendControl, hub
  <2>2. \A m \in Msgs : outbox[m] # "none" => outbox'[m] # "none"
    BY <1>0, <2>1 DEF MarkControlSent, Live
  <2> QED  BY <1>2, <2>1, <2>2
<1>10. CASE BridgeStep \/ TaskStep \/ UNCHANGED vars
  <2>1. UNCHANGED <<tasks, recorded, outbox>>
    <3>1. CASE BridgeStep
      BY <3>1 DEF BridgeStep, Connect, Disconnect, BridgeRestarts, ReadRegistered, ReadReceipt, ReadEnvelope,
                  WriteReceipt, SendEvent, FailInterrupted, EndRecovery, PostLocal, hub
    <3>2. CASE TaskStep
      BY <3>2 DEF TaskStep, Claim, CannotBegin, Begin, Finish, RecordOutcome, hub
    <3>3. CASE UNCHANGED vars  BY <3>3 DEF vars
    <3> QED  BY <1>10, <3>1, <3>2, <3>3
  <2> QED  BY <1>2, <2>1
<1> QED  BY <1>5, <1>6, <1>7, <1>8, <1>9, <1>10 DEF Next, HubStep

(***************************************************************************)
(* THEOREM.  Of the outcomes that a bridge which restarts queues for one   *)
(* agent task, possibly contrary ones, the hub takes one at most, and it   *)
(* takes "completed" only for work that was handed to the agent.           *)
(***************************************************************************)
THEOREM OutcomeIsOne == Spec => []OneOutcome
<1>1. Init => TypeInv /\ HandedInv /\ ReportInv /\ OutcomeInv
  BY InitType, InitHanded, InitReports
<1>2. TypeInv /\ HandedInv /\ ReportInv /\ OutcomeInv /\ [Next]_vars
        => (TypeInv /\ HandedInv /\ ReportInv /\ OutcomeInv)'
  BY NextType, NextHanded, NextReports, NextOutcome
<1>3. OutcomeInv => OneOutcome
  <2> SUFFICES ASSUME OutcomeInv, NEW m \in AgentMsgs
               PROVE  Cardinality({e \in EventIds : /\ e[1] = m /\ e[2] # "started"
                                                    /\ recorded[e] = "accepted"}) <= 1
    BY DEF OneOutcome, OutcomeInv
  <2> DEFINE S == {e \in EventIds : e[1] = m /\ e[2] # "started" /\ recorded[e] = "accepted"}
  <2>1. \A e, f \in S : e = f  BY DEF OutcomeInv, Taken, OutcomeOf
  <2>2. CASE S = {}  BY <2>2, FS_EmptySet
  <2>3. CASE S # {}
    <3>1. PICK e \in S : TRUE  BY <2>3
    <3>2. S = {e}  BY <2>1, <3>1
    <3> HIDE DEF S
    <3>3. Cardinality(S) = 1  BY <3>2, FS_Singleton
    <3> QED  BY <3>3 DEF S
  <2> QED  BY <2>2, <2>3
<1> QED  BY <1>1, <1>2, <1>3, PTL DEF Spec

(***************************************************************************)
(* A cancelled task.  The journal's status of an assignment follows its    *)
(* goroutine, so a task that was told to stop before it began has its      *)
(* context cancelled until it begins, and once it is over it is on record  *)
(* as failed and is not started again by this process.                     *)
(***************************************************************************)
GoroutineInv ==
    \A m \in AgentMsgs :
        /\ exec[m] = "spawned" => inbox[m] = "accepted"
        /\ exec[m] \in {"claimed", "working", "aborted", "completing", "failing"} => inbox[m] = "running"
        /\ sup = "replying" /\ reply.id = m /\ reply.disposition = "accepted"
              => inbox[m] = "accepted" /\ exec[m] = "none"

NotCompleted(m, n) == journal[<<m, "completed", n>>].status = "none"

CompletionInv ==
    \A m \in AgentMsgs :
        /\ inbox[m] \in {"none", "accepted"} => \A n \in Epochs : NotCompleted(m, n)
        /\ exec[m] = "claimed" => NotCompleted(m, epoch)

ToldInv ==
    /\ told \subseteq AgentMsgs
    /\ \A m \in told :
          /\ exec[m] \in {"spawned", "claimed", "aborted", "failing", "none"}
          /\ exec[m] \in {"spawned", "claimed"} => ctxDone[m] = TRUE
          /\ exec[m] = "none" => inbox[m] = "failed"
          /\ NotCompleted(m, epoch)

CancelInv == GoroutineInv /\ CompletionInv /\ ToldInv

\* At the start no goroutine runs.
LEMMA InitCancel == Init => CancelInv
BY EventOfTask, ChannelAssumption
   DEF Init, CancelInv, GoroutineInv, CompletionInv, ToldInv, NotCompleted, NoGoroutine, Assignments, Msgs

\* A step that leaves the bridge's tasks alone; the connection may end.
LEMMA CancelUntouched ==
    ASSUME TypeInv, CancelInv, [Next]_vars, UNCHANGED <<inbox, exec, ctxDone, told, epoch>>,
           \/ UNCHANGED <<sup, reply>> \/ sup' # "replying",
           \A m \in AgentMsgs : ~Finish(m, "completed")
    PROVE  CancelInv'
<1>1. \A m \in AgentMsgs, n \in Epochs : NotCompleted(m, n) => NotCompleted(m, n)'
  BY JournalMoves DEF NotCompleted
<1>2. epoch \in Epochs  BY DEF TypeInv, TypeOK, BridgeTypeOK
<1>3. GoroutineInv'  BY DEF CancelInv, GoroutineInv
<1>4. CompletionInv'
  <2>1. \A m \in AgentMsgs, n \in Epochs : (journal'[<<m, "completed", n>>].status = "none") = NotCompleted(m, n)'
    BY DEF NotCompleted
  <2> QED  BY <1>1, <1>2, <2>1 DEF CancelInv, CompletionInv, NotCompleted
<1>5. ToldInv'
  BY <1>1, <1>2 DEF CancelInv, ToldInv, NotCompleted
<1> QED  BY <1>3, <1>4, <1>5 DEF CancelInv

\* A step of the goroutine of one agent task m.
LEMMA CancelTask ==
    ASSUME TypeInv, CancelInv, NEW m \in Assignments,
           UNCHANGED <<told, epoch, sup, reply>>,
           \A k \in AgentMsgs : k # m => inbox'[k] = inbox[k] /\ exec'[k] = exec[k] /\ ctxDone'[k] = ctxDone[k],
           \A k \in AgentMsgs, n \in Epochs : NotCompleted(k, n)' \/ ~NotCompleted(k, n) \/ (k = m /\ n = epoch),
           m \in AgentMsgs =>
             /\ exec[m] # "none" /\ exec'[m] # "spawned"
             /\ exec'[m] \in {"claimed", "working", "aborted", "completing", "failing"} => inbox'[m] = "running"
             /\ inbox'[m] \notin {"none", "accepted"}
             /\ exec'[m] = "claimed" => NotCompleted(m, epoch)'
             /\ m \in told => /\ exec'[m] \in {"claimed", "aborted", "failing", "none"}
                              /\ exec'[m] = "claimed" => ctxDone'[m] = TRUE
                              /\ exec'[m] = "none" => inbox'[m] = "failed"
                              /\ NotCompleted(m, epoch)'
    PROVE  CancelInv'
<1>0. epoch \in Epochs /\ told \subseteq AgentMsgs
  BY DEF TypeInv, TypeOK, BridgeTypeOK
<1>1. GoroutineInv'
  <2> SUFFICES ASSUME NEW k \in AgentMsgs
               PROVE  /\ exec'[k] = "spawned" => inbox'[k] = "accepted"
                      /\ exec'[k] \in {"claimed", "working", "aborted", "completing", "failing"} => inbox'[k] = "running"
                      /\ sup = "replying" /\ reply.id = k /\ reply.disposition = "accepted"
                            => inbox'[k] = "accepted" /\ exec'[k] = "none"
    BY DEF GoroutineInv
  <2>1. CASE k # m  BY <2>1 DEF CancelInv, GoroutineInv
  <2>2. CASE k = m  BY <2>2 DEF CancelInv, GoroutineInv
  <2> QED  BY <2>1, <2>2
<1>2. CompletionInv'
  <2> SUFFICES ASSUME NEW k \in AgentMsgs
               PROVE  /\ inbox'[k] \in {"none", "accepted"} => \A n \in Epochs : NotCompleted(k, n)'
                      /\ exec'[k] = "claimed" => NotCompleted(k, epoch)'
    BY DEF CompletionInv, NotCompleted
  <2>1. CASE k # m  BY <1>0, <2>1 DEF CancelInv, CompletionInv
  <2>2. CASE k = m  BY <2>2
  <2> QED  BY <2>1, <2>2
<1>3. ToldInv'
  <2> SUFFICES ASSUME NEW k \in told
               PROVE  /\ exec'[k] \in {"spawned", "claimed", "aborted", "failing", "none"}
                      /\ exec'[k] \in {"spawned", "claimed"} => ctxDone'[k] = TRUE
                      /\ exec'[k] = "none" => inbox'[k] = "failed"
                      /\ NotCompleted(k, epoch)'
    BY <1>0 DEF ToldInv, NotCompleted
  <2>1. CASE k # m  BY <1>0, <2>1 DEF CancelInv, ToldInv
  <2>2. CASE k = m  BY <1>0, <2>2
  <2> QED  BY <2>1, <2>2
<1> QED  BY <1>1, <1>2, <1>3 DEF CancelInv

\* Every step keeps what is known of a cancelled task.
LEMMA NextCancel ==
    ASSUME TypeInv, CancelInv, [Next]_vars
    PROVE  CancelInv'
<1>0. /\ inbox \in [Msgs -> {"none", "accepted", "running", "completed", "failed"}]
      /\ exec \in [Assignments -> {"none", "spawned", "claimed", "working",
                                   "aborted", "completing", "failing"}]
      /\ ctxDone \in [Assignments -> BOOLEAN] /\ epoch \in Epochs /\ told \subseteq AgentMsgs
      /\ Assignments \subseteq Msgs /\ AgentMsgs \subseteq Assignments
      /\ \A m \in AgentMsgs : m \notin CommandMsgs /\ m \notin CancelMsgs
  BY ChannelAssumption DEF TypeInv, TypeOK, BridgeTypeOK, Msgs, Assignments
<1>k. \A m \in AgentMsgs, n \in Epochs : NotCompleted(m, n)' \/ ~NotCompleted(m, n) \/ (n = epoch /\ Finish(m, "completed"))
  BY JournalMoves DEF NotCompleted
<1>1. CASE \/ HubStep \/ Connect \/ Disconnect \/ ReadRegistered \/ ReadReceipt
           \/ \E e \in EventIds : SendEvent(e) \/ PostLocal(e)
           \/ UNCHANGED vars
  <2>1. UNCHANGED <<inbox, exec, ctxDone, told, epoch>>
    <3>1. CASE HubStep
      BY <3>1, HubLeavesBridge DEF disk, process, history
    <3>2. CASE ~HubStep
      BY <1>1, <3>2 DEF Connect, Disconnect, ReadRegistered, ReadReceipt, SendEvent, PostLocal, disk, process,
                  history, vars
    <3> QED  BY <3>1, <3>2
  <2>2. UNCHANGED <<sup, reply>> \/ sup' # "replying"
    <3>1. CASE HubStep
      BY <3>1, HubLeavesBridge DEF process
    <3>2. CASE ~HubStep
      BY <1>1, <3>2 DEF Connect, Disconnect, Abandon, ReadRegistered, ReadReceipt, SendEvent, PostLocal, process, vars
    <3> QED  BY <3>1, <3>2
  <2>3. ASSUME NEW m \in AgentMsgs, Finish(m, "completed") PROVE FALSE
    <3>1. exec' # exec  BY <1>0, <2>3 DEF Finish
    <3> QED  BY <2>1, <3>1
  <2> QED  BY <2>1, <2>2, <2>3, CancelUntouched
<1>2. CASE BridgeRestarts
  <2>1. /\ told' = {} /\ sup' = "off" /\ inbox' = inbox /\ journal' = journal
        /\ \A m \in AgentMsgs : exec'[m] = "none"
    BY <1>0, <1>2 DEF BridgeRestarts, Abandon, disk, NoGoroutine
  <2> QED  BY <2>1 DEF CancelInv, GoroutineInv, CompletionInv, ToldInv, NotCompleted
<1>3. ASSUME NEW x \in Msgs, ReadEnvelope(x) PROVE CancelInv'
  <2>0. /\ sup = "reading" /\ sup' = "replying" /\ journal' = journal /\ epoch' = epoch
    BY <1>3 DEF ReadEnvelope
  <2>1. CASE Outdated(x) \/ Duplicate(x)
    <3>1. UNCHANGED <<inbox, exec, ctxDone, told>> /\ reply'.disposition # "accepted"
      BY <1>3, <2>1 DEF ReadEnvelope
    <3> QED  BY <2>0, <3>1 DEF CancelInv, GoroutineInv, CompletionInv, ToldInv, NotCompleted
  <2>2. CASE ~Outdated(x) /\ ~Duplicate(x)
    <3>1. /\ inbox[x] = "none" /\ inbox' = [inbox EXCEPT ![x] = "accepted"]
          /\ reply' = [id |-> x, disposition |-> "accepted"]
          /\ exec' = [t \in Assignments |-> IF t = x /\ x \in CommandMsgs THEN "spawned" ELSE exec[t]]
          /\ ctxDone' = [t \in Assignments |-> ctxDone[t] \/ (t \in CancelledBy(x) /\ InActiveTasks(t))]
          /\ told' = told \cup {t \in CancelledBy(x) \cap AgentMsgs : exec[t] \in {"spawned", "claimed"}}
      BY <1>3, <2>2 DEF ReadEnvelope, Duplicate, Journaled
    <3>2. \A m \in AgentMsgs : exec'[m] = exec[m] /\ (m # x => inbox'[m] = inbox[m])
      BY <1>0, <3>1
    <3>3. x \in AgentMsgs => /\ inbox'[x] = "accepted" /\ exec[x] = "none" /\ x \notin told
                             /\ \A n \in Epochs : NotCompleted(x, n)
      BY <1>0, <3>1 DEF CancelInv, GoroutineInv, CompletionInv, ToldInv
    <3>4. \A m \in AgentMsgs, n \in Epochs : NotCompleted(m, n)' = NotCompleted(m, n)
      BY <2>0 DEF NotCompleted
    <3>5. GoroutineInv'
      BY <3>1, <3>2, <3>3 DEF CancelInv, GoroutineInv
    <3>6. CompletionInv'
      <4> SUFFICES ASSUME NEW m \in AgentMsgs
                   PROVE  /\ inbox'[m] \in {"none", "accepted"} => \A n \in Epochs : NotCompleted(m, n)
                          /\ exec'[m] = "claimed" => NotCompleted(m, epoch)
        BY <2>0 DEF CompletionInv, NotCompleted
      <4>1. CASE m = x  BY <3>2, <3>3, <4>1
      <4>2. CASE m # x  BY <3>2, <4>2 DEF CancelInv, CompletionInv
      <4> QED  BY <4>1, <4>2
    <3>7. ToldInv'
      <4>1. told' \subseteq AgentMsgs  BY <1>0, <3>1
      <4> SUFFICES ASSUME NEW m \in told'
                   PROVE  /\ exec'[m] \in {"spawned", "claimed", "aborted", "failing", "none"}
                          /\ exec'[m] \in {"spawned", "claimed"} => ctxDone'[m] = TRUE
                          /\ exec'[m] = "none" => inbox'[m] = "failed"
                          /\ NotCompleted(m, epoch)
        BY <2>0, <4>1 DEF ToldInv, NotCompleted
      <4>2. CASE m \in told
        <5>1. ctxDone[m] = TRUE => ctxDone'[m] = TRUE  BY <1>0, <3>1, <4>2
        <5> QED  BY <1>0, <3>2, <3>3, <4>2, <5>1 DEF CancelInv, ToldInv
      <4>3. CASE m \notin told
        <5>1. m \in CancelledBy(x) /\ m \in AgentMsgs /\ exec[m] \in {"spawned", "claimed"}
          BY <3>1, <4>3
        <5>2. ctxDone'[m] = TRUE
          BY <1>0, <3>1, <5>1 DEF InActiveTasks
        <5>3. NotCompleted(m, epoch)
          BY <1>0, <5>1 DEF CancelInv, GoroutineInv, CompletionInv
        <5> QED  BY <3>2, <5>1, <5>2, <5>3
      <4> QED  BY <4>2, <4>3
    <3> QED  BY <3>5, <3>6, <3>7 DEF CancelInv
  <2> QED  BY <2>1, <2>2
<1>4. CASE WriteReceipt \/ EndRecovery
  <2>1. /\ inbox' = inbox /\ journal' = journal /\ ctxDone' = ctxDone /\ told' = told /\ epoch' = epoch
        /\ sup' = "reading"
    BY <1>4 DEF WriteReceipt, EndRecovery, disk, history
  <2>2. \A m \in AgentMsgs :
           \/ exec'[m] = exec[m]
           \/ exec'[m] = "spawned" /\ exec[m] = "none" /\ inbox[m] = "accepted"
    <3>1. CASE WriteReceipt
      BY <1>0, <3>1 DEF WriteReceipt, CancelInv, GoroutineInv
    <3>2. CASE EndRecovery
      BY <1>0, <3>2 DEF EndRecovery, NotStarted
    <3> QED  BY <1>4, <3>1, <3>2
  <2>3. \A m \in told : exec'[m] = exec[m]
    BY <1>0, <2>2 DEF CancelInv, ToldInv
  <2>4. GoroutineInv'  BY <2>1, <2>2 DEF CancelInv, GoroutineInv
  <2>5. CompletionInv'  BY <2>1, <2>2 DEF CancelInv, CompletionInv, NotCompleted
  <2>6. ToldInv'  BY <2>1, <2>3 DEF CancelInv, ToldInv, NotCompleted
  <2> QED  BY <2>4, <2>5, <2>6 DEF CancelInv
<1>5. ASSUME NEW m \in Assignments, \/ Claim(m) \/ CannotBegin(m) \/ Begin(m) \/ RecordOutcome(m)
                                    \/ Finish(m, "completed") \/ Finish(m, "failed")
      PROVE  CancelInv'
  <2>1. UNCHANGED <<told, epoch, sup, reply>>
    BY <1>5 DEF Claim, CannotBegin, Begin, RecordOutcome, Finish, history
  <2>2. \A k \in AgentMsgs : k # m => inbox'[k] = inbox[k] /\ exec'[k] = exec[k] /\ ctxDone'[k] = ctxDone[k]
    BY <1>0, <1>5 DEF Claim, CannotBegin, Begin, RecordOutcome, Finish
  <2>3. \A k \in AgentMsgs, n \in Epochs : NotCompleted(k, n)' \/ ~NotCompleted(k, n) \/ (k = m /\ n = epoch)
    <3>1. ASSUME NEW k \in AgentMsgs, Finish(k, "completed"), k # m PROVE FALSE
      <4>1. exec[k] = "working" /\ exec'[k] = "completing"  BY <1>0, <3>1 DEF Finish
      <4> QED  BY <2>2, <3>1, <4>1
    <3> QED  BY <1>k, <3>1
  <2>4. CASE m \in AgentMsgs
    <3>0. m \in Msgs /\ m \in Assignments  BY <1>0
    <3>1. CASE Claim(m)
      <4>1. /\ exec[m] = "spawned" /\ inbox[m] = "accepted" /\ exec'[m] = "claimed" /\ inbox'[m] = "running"
            /\ ctxDone' = ctxDone /\ journal' = journal
        BY <1>0, <3>0, <3>1 DEF Claim
      <4>2. NotCompleted(m, epoch)'
        BY <1>0, <2>1, <2>4, <4>1 DEF CancelInv, CompletionInv, NotCompleted
      <4> QED  BY <1>0, <2>1, <2>2, <2>3, <2>4, <4>1, <4>2, CancelTask DEF CancelInv, ToldInv
    <3>2. CASE CannotBegin(m)
      <4>1. exec[m] = "claimed" /\ exec'[m] = "failing" /\ inbox' = inbox
        BY <1>0, <3>0, <3>2 DEF CannotBegin
      <4>2. ~Finish(m, "completed")  BY <4>1 DEF Finish
      <4>3. inbox'[m] = "running" /\ (m \in told => NotCompleted(m, epoch)')
        BY <1>0, <1>k, <2>1, <2>4, <4>1, <4>2 DEF CancelInv, GoroutineInv, ToldInv, NotCompleted
      <4> QED  BY <1>0, <2>1, <2>2, <2>3, <2>4, <4>1, <4>3, CancelTask
    <3>3. CASE Begin(m)
      <4>1. /\ exec[m] = "claimed" /\ exec'[m] = IF ctxDone[m] THEN "aborted" ELSE "working"
            /\ inbox' = inbox
        BY <1>0, <3>0, <3>3 DEF Begin
      <4>2. ~Finish(m, "completed")  BY <4>1 DEF Finish
      <4>3. /\ inbox'[m] = "running" /\ (m \in told => NotCompleted(m, epoch)')
            /\ m \in told => ctxDone[m] = TRUE
        BY <1>0, <1>k, <2>1, <2>4, <4>1, <4>2 DEF CancelInv, GoroutineInv, ToldInv, NotCompleted
      <4>4. exec'[m] \in {"aborted", "working"} /\ (m \in told => exec'[m] = "aborted")
        BY <4>1, <4>3
      <4> QED  BY <1>0, <2>1, <2>2, <2>3, <2>4, <4>1, <4>3, <4>4, CancelTask
    <3>4. CASE RecordOutcome(m)
      <4>1. /\ exec[m] \in {"completing", "failing"} /\ exec'[m] = "none"
            /\ inbox'[m] = IF exec[m] = "completing" THEN "completed" ELSE "failed"
        BY <1>0, <3>0, <3>4 DEF RecordOutcome
      <4>2. ~Finish(m, "completed")  BY <4>1 DEF Finish
      <4>3. /\ m \in told => NotCompleted(m, epoch)' /\ exec[m] = "failing"
        BY <1>0, <1>k, <2>1, <2>4, <4>1, <4>2 DEF CancelInv, GoroutineInv, ToldInv, NotCompleted
      <4> QED  BY <1>0, <2>1, <2>2, <2>3, <2>4, <4>1, <4>3, CancelTask
    <3>5. CASE Finish(m, "completed")
      <4>1. exec[m] = "working" /\ exec'[m] = "completing" /\ inbox' = inbox
        BY <1>0, <3>0, <3>5 DEF Finish
      <4>2. inbox'[m] = "running" /\ m \notin told
        BY <1>0, <2>4, <4>1 DEF CancelInv, GoroutineInv, ToldInv
      <4> QED  BY <1>0, <2>1, <2>2, <2>3, <2>4, <4>1, <4>2, CancelTask
    <3>6. CASE Finish(m, "failed")
      <4>1. exec[m] \in {"working", "aborted"} /\ exec'[m] = "failing" /\ inbox' = inbox
        BY <1>0, <2>4, <3>0, <3>6 DEF Finish
      <4>2. m \in told => ~Finish(m, "completed")
        BY <1>0, <2>4 DEF CancelInv, ToldInv, Finish
      <4>3. inbox'[m] = "running" /\ (m \in told => NotCompleted(m, epoch)')
        BY <1>0, <1>k, <2>1, <2>4, <4>1, <4>2 DEF CancelInv, GoroutineInv, ToldInv, NotCompleted
      <4> QED  BY <1>0, <2>1, <2>2, <2>3, <2>4, <4>1, <4>3, CancelTask
    <3> QED  BY <1>5, <3>1, <3>2, <3>3, <3>4, <3>5, <3>6
  <2>5. CASE m \notin AgentMsgs
    BY <2>1, <2>2, <2>3, <2>5, CancelTask
  <2> QED  BY <2>4, <2>5
<1>6. ASSUME NEW m \in AgentMsgs, FailInterrupted(m) PROVE CancelInv'
  <2>1. /\ exec[m] = "none" /\ inbox[m] = "running" /\ exec' = [exec EXCEPT ![m] = "failing"]
        /\ UNCHANGED <<inbox, epoch, sup, reply, ctxDone, told>>
    BY <1>6 DEF FailInterrupted, Interrupted, history
  <2>2. m \notin told  BY <2>1 DEF CancelInv, ToldInv
  <2>3. \A k \in AgentMsgs : ~Finish(k, "completed")
    <3> SUFFICES ASSUME NEW k \in AgentMsgs, Finish(k, "completed") PROVE FALSE  OBVIOUS
    <3>1. exec[k] = "working" /\ exec'[k] = "completing"  BY <1>0 DEF Finish
    <3> QED  BY <1>0, <2>1, <3>1
  <2>4. \A k \in AgentMsgs : k # m => exec'[k] = exec[k]  BY <1>0, <2>1
  <2>5. exec'[m] = "failing"  BY <1>0, <2>1
  <2>6. GoroutineInv'
    <3>1. ~(sup = "replying" /\ reply.id = m /\ reply.disposition = "accepted")
      BY <2>1 DEF CancelInv, GoroutineInv
    <3> QED  BY <2>1, <2>4, <2>5, <3>1 DEF CancelInv, GoroutineInv
  <2>7. \A k \in AgentMsgs, n \in Epochs : NotCompleted(k, n) => NotCompleted(k, n)'
    BY <1>k, <2>3
  <2>8. CompletionInv'
    <3> SUFFICES ASSUME NEW k \in AgentMsgs
                 PROVE  /\ inbox'[k] \in {"none", "accepted"} => \A n \in Epochs : NotCompleted(k, n)'
                        /\ exec'[k] = "claimed" => NotCompleted(k, epoch)'
      BY <2>1 DEF CompletionInv, NotCompleted
    <3> QED  BY <1>0, <2>1, <2>4, <2>5, <2>7 DEF CancelInv, CompletionInv
  <2>9. ToldInv'
    <3> SUFFICES ASSUME NEW k \in told
                 PROVE  /\ exec'[k] \in {"spawned", "claimed", "aborted", "failing", "none"}
                        /\ exec'[k] \in {"spawned", "claimed"} => ctxDone'[k] = TRUE
                        /\ exec'[k] = "none" => inbox'[k] = "failed"
                        /\ NotCompleted(k, epoch)'
      BY <1>0, <2>1 DEF ToldInv, NotCompleted
    <3>1. k # m /\ k \in AgentMsgs  BY <1>0, <2>2
    <3> QED  BY <1>0, <2>1, <2>4, <2>7, <3>1 DEF CancelInv, ToldInv
  <2> QED  BY <2>6, <2>8, <2>9 DEF CancelInv
<1> QED  BY <1>1, <1>2, <1>3, <1>4, <1>5, <1>6 DEF Next, BridgeStep, TaskStep

(***************************************************************************)
(* THEOREM.  An agent task whose cancellation the bridge has read after    *)
(* its assignment and before its turn began never reports completion from  *)
(* the same process, however its goroutine, the reader and broken          *)
(* connections interleave.                                                 *)
(***************************************************************************)
THEOREM CancelledStaysCancelled == Spec => []CancelledNeverCompletes
<1>1. Init => TypeInv /\ CancelInv  BY InitType, InitCancel
<1>2. TypeInv /\ CancelInv /\ [Next]_vars => (TypeInv /\ CancelInv)'
  BY NextType, NextCancel
<1>3. CancelInv => CancelledNeverCompletes
  BY DEF CancelInv, ToldInv, NotCompleted, CancelledNeverCompletes
<1> QED  BY <1>1, <1>2, <1>3, PTL DEF Spec
================================================================================
