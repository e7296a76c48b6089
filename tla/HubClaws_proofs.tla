--------------------------- MODULE HubClaws_proofs ---------------------------
(***************************************************************************)
(* Theorems about the message queue of a claw with its turns, and about    *)
(* the paths that create claws. Each part defines an inductive invariant,  *)
(* shows that the initial states satisfy it and every step preserves it,   *)
(* and draws the properties the runs check from it.                        *)
(***************************************************************************)
EXTENDS TurnQueue, ClawCreation, SequenceTheorems, FiniteSetTheorems, TLAPS

--------------------------------------------------------------------------------
(***************************************************************************)
(* The message queue and its turns. Every message that was taken off the   *)
(* queue is in one place: at the hub, on the wire, with the agent, or      *)
(* answered; a turn belongs to the one open connection.                    *)
(***************************************************************************)
Frames == [kind : {"message", "chunk"}, id : RowIds]

\* Connections, with a delivery under way having its row.
GoodConns ==
    {c \in [sock : {"absent", "registering", "open", "broken", "closed"},
             busy : BOOLEAN, turn : RowIds \cup {0}, mirror : BOOLEAN,
             step : {"idle", "read", "reserved", "written"}, at : RowIds \cup {0}] :
        (c.busy = FALSE => c.turn = 0) /\ (c.step # "idle" => c.at # 0)}

ConnsType == cc \in [Conns -> GoodConns]
QueuesType ==
    /\ bridgeOn \in Conns \cup {0} /\ seen \subseteq RowIds
    /\ turns \subseteq [id : RowIds, on : Conns, running : BOOLEAN]
    /\ down \in [Conns -> Seq(RowIds)] /\ up \in [Conns -> Seq(Frames)] /\ replies \in Seq(Frames)
RowsType ==
    /\ msgRow \in [RowIds -> {"none", "nag", "pending", "delivered", "wake", "settled"}]
    /\ current \in Conns \cup {0}
    /\ mu \in {"free", "pause", "resume", "register"}
    /\ paused \in BOOLEAN /\ owned \in BOOLEAN /\ recoveries \in 0 .. LostTurnMax
    /\ written \subseteq RowIds /\ ran \in [RowIds -> Nat] /\ carried \in BOOLEAN
TurnTypeInv == ConnsType /\ QueuesType /\ RowsType

\* Where a connection is in its life.
ConnInv ==
    /\ current # 0 => cc[current].sock \in {"open", "broken", "closed"}
    /\ \A e \in Conns :
         /\ cc[e].sock = "registering" <=> mu = "register" /\ bridgeOn = e
         /\ cc[e].sock = "open" => bridgeOn = e
         /\ cc[e].sock \in {"absent", "registering"}
            => cc[e].step = "idle" /\ ~cc[e].busy /\ cc[e].turn = 0

\* The pause between its two writes, and a connection that has read it.
PauseInv ==
    /\ mu = "pause" => paused
    /\ mu = "resume" => ~paused
    /\ \A e \in Conns : cc[e].sock = "registering" => cc[e].mirror = paused

\* A row in the queue of turns or run by the bridge is known to it.
SeenInv ==
    /\ \A t \in turns : t.id \in seen /\ (~t.running => ran[t.id] = 0)
    /\ \A t, u \in turns : t.id = u.id => t = u
    /\ \A m \in RowIds : ran[m] <= 1 /\ (ran[m] > 0 => m \in seen)

\* What was written is in written before it is marked.
WrittenInv ==
    /\ \A m \in RowIds : msgRow[m] = "delivered" => m \in written
    /\ \A e \in Conns : cc[e].step = "written" => cc[e].at \in written

OnlyChunks(s) == \A i \in 1 .. Len(s) : s[i].kind = "chunk"
\* A reply to m with chunks before it.
EndsTurn(s, m) == /\ s # <<>> /\ s[Len(s)] = Reply(m)
                  /\ \A i \in 1 .. (Len(s) - 1) : s[i].kind = "chunk"

\* The four places the input of a connection's open turn can be in: not written, on
\* its way, with the agent, or answered.
AtHub(e) == /\ down[e] = <<>> /\ OnlyChunks(up[e]) /\ (\A t \in turns : t.on # e)
            /\ cc[e].step = "reserved" => cc[e].busy = TRUE /\ cc[e].turn = cc[e].at
OnWire(e) == down[e] = <<cc[e].turn>> /\ OnlyChunks(up[e]) /\ \A t \in turns : t.on # e
WithAgent(e) == /\ down[e] = <<>> /\ OnlyChunks(up[e])
                /\ \E t \in turns : turns = {t} /\ t.on = e /\ t.id = cc[e].turn
Answered(e) == /\ down[e] = <<>> /\ EndsTurn(up[e], cc[e].turn) /\ \A t \in turns : t.on # e

OpenLane(e) == \/ AtHub(e)
               \/ /\ cc[e].step # "reserved" /\ cc[e].busy = TRUE /\ cc[e].turn # 0
                  /\ OnWire(e) \/ WithAgent(e) \/ Answered(e)
Lane(e) == /\ cc[e].sock # "open" => down[e] = <<>>
           /\ cc[e].sock = "open" => OpenLane(e)
Lanes == \A e \in Conns : Lane(e)
TurnsConnected == replies = <<>> /\ \A t \in turns : bridgeOn = t.on /\ cc[t.on].sock = "open"
PlaceOfTurn == carried = FALSE => TurnsConnected /\ Lanes

TurnInv == TurnTypeInv /\ ConnInv /\ PauseInv /\ SeenInv /\ WrittenInv /\ PlaceOfTurn /\ PauseMirrored

\* What the updates of a connection's record keep.
LEMMA ConnUpdates ==
    ASSUME NEW c \in GoodConns, NEW b \in BOOLEAN, NEW m \in RowIds
    PROVE  /\ [c EXCEPT !.mirror = b] \in GoodConns
           /\ [c EXCEPT !.step = "idle", !.at = 0] \in GoodConns
           /\ [c EXCEPT !.step = "read", !.at = m] \in GoodConns
           /\ [c EXCEPT !.step = "reserved", !.at = m, !.busy = TRUE, !.turn = m] \in GoodConns
           /\ [c EXCEPT !.sock = "broken"] \in GoodConns
           /\ [c EXCEPT !.sock = "open"] \in GoodConns
           /\ [c EXCEPT !.sock = "registering", !.mirror = b] \in GoodConns
           /\ [c EXCEPT !.busy = TRUE] \in GoodConns
           /\ ClosedConn(c) \in GoodConns /\ Finished(c) \in GoodConns /\ Aborted(c) \in GoodConns
           /\ NoConn \in GoodConns
           /\ c.step # "idle" => /\ [c EXCEPT !.step = "reserved", !.busy = TRUE, !.turn = c.at] \in GoodConns
                                 /\ [c EXCEPT !.step = "written"] \in GoodConns
<1> DEFINE R == [sock : {"absent", "registering", "open", "broken", "closed"},
             busy : BOOLEAN, turn : RowIds \cup {0}, mirror : BOOLEAN,
             step : {"idle", "read", "reserved", "written"}, at : RowIds \cup {0}]
<1>0. c \in R /\ (c.busy = FALSE => c.turn = 0) /\ (c.step # "idle" => c.at # 0)
  BY DEF GoodConns
<1>m. m # 0
  BY DEF RowIds
<1>1. /\ [c EXCEPT !.mirror = b] \in GoodConns
      /\ [c EXCEPT !.step = "idle", !.at = 0] \in GoodConns
      /\ [c EXCEPT !.step = "read", !.at = m] \in GoodConns
  BY <1>0, <1>m DEF GoodConns
<1>2. [c EXCEPT !.step = "reserved", !.at = m, !.busy = TRUE, !.turn = m] \in GoodConns
  <2> DEFINE d == [c EXCEPT !.step = "reserved", !.at = m, !.busy = TRUE, !.turn = m]
  <2>1. d \in R
    BY <1>0
  <2>2. d.busy = TRUE /\ d.at = m /\ m # 0
    BY <1>0 DEF RowIds
  <2> QED  BY <2>1, <2>2 DEF GoodConns
<1>3. /\ [c EXCEPT !.sock = "broken"] \in GoodConns
      /\ [c EXCEPT !.sock = "open"] \in GoodConns
      /\ [c EXCEPT !.sock = "registering", !.mirror = b] \in GoodConns
  BY DEF GoodConns
<1>8. [c EXCEPT !.busy = TRUE] \in GoodConns
  BY DEF GoodConns
<1>4. ClosedConn(c) \in GoodConns
  BY <1>0, TurnAssumption DEF GoodConns, RowIds, ClosedConn, NoConn
<1>5. Finished(c) \in GoodConns /\ Aborted(c) \in GoodConns
  BY <1>0, TurnAssumption DEF GoodConns, RowIds, Finished, Aborted
<1>6. NoConn \in GoodConns
  BY DEF NoConn, GoodConns
<1>7. c.step # "idle" => /\ [c EXCEPT !.step = "reserved", !.busy = TRUE, !.turn = c.at] \in GoodConns
                         /\ [c EXCEPT !.step = "written"] \in GoodConns
  BY <1>0, TurnAssumption DEF GoodConns, RowIds
<1> QED  BY <1>1, <1>2, <1>3, <1>4, <1>5, <1>6, <1>7, <1>8

\* The connections have the values the code writes.
LEMMA ConnsStep ==
    ASSUME TurnTypeInv, TurnNext
    PROVE  ConnsType'
<1> USE DEF hubVars, bridgeVars, historyVars
<1>0. /\ cc \in [Conns -> GoodConns] /\ current \in Conns \cup {0} /\ paused \in BOOLEAN
      /\ \A e \in Conns : cc[e] \in GoodConns /\ cc[e].step \in {"idle", "read", "reserved", "written"}
  BY DEF TurnTypeInv, ConnsType, RowsType, GoodConns
<1>x. ASSUME NEW e \in Conns, NEW x \in GoodConns, cc' = [cc EXCEPT ![e] = x]
      PROVE  ConnsType'
  BY <1>0, <1>x DEF ConnsType
<1>u. \A e \in Conns, b \in BOOLEAN, m \in RowIds :
           /\ [cc[e] EXCEPT !.mirror = b] \in GoodConns
           /\ [cc[e] EXCEPT !.step = "idle", !.at = 0] \in GoodConns
           /\ [cc[e] EXCEPT !.step = "read", !.at = m] \in GoodConns
           /\ [cc[e] EXCEPT !.step = "reserved", !.at = m, !.busy = TRUE, !.turn = m] \in GoodConns
           /\ [cc[e] EXCEPT !.sock = "broken"] \in GoodConns
           /\ [cc[e] EXCEPT !.sock = "open"] \in GoodConns
           /\ [cc[e] EXCEPT !.sock = "registering", !.mirror = b] \in GoodConns
           /\ [cc[e] EXCEPT !.busy = TRUE] \in GoodConns
           /\ ClosedConn(cc[e]) \in GoodConns /\ Finished(cc[e]) \in GoodConns /\ Aborted(cc[e]) \in GoodConns
           /\ NoConn \in GoodConns
           /\ cc[e].step # "idle" => /\ [cc[e] EXCEPT !.step = "reserved", !.busy = TRUE, !.turn = cc[e].at] \in GoodConns
                                     /\ [cc[e] EXCEPT !.step = "written"] \in GoodConns
  BY <1>0, ConnUpdates
<1>r. 1 \in RowIds /\ paused \in BOOLEAN
  BY <1>0, TurnAssumption DEF RowIds
<1>1. CASE \/ ResumeRow \/ PauseRow \/ TakeOver \/ BridgeRestarts
           \/ \E m \in RowIds : InjectHubMessage(m) \/ sendStreamingNudge(m)
           \/ \E e \in Conns : BridgeReads(e)
           \/ \E t \in turns : TurnStarts(t) \/ Streams(t) \/ TurnReplies(t)
  <2>1. cc' = cc
    BY <1>1 DEF ResumeRow, PauseRow, TakeOver, BridgeRestarts, InjectHubMessage, sendStreamingNudge,
                BridgeReads, TurnStarts, Streams, TurnReplies
  <2> QED  BY <1>0, <2>1 DEF ConnsType
<1>2. CASE PauseMirror \/ ResumeMirror \/ maybeLiftBridgeErrorPause
  <2>1. \/ cc' = cc
        \/ /\ current \in Conns
           /\ \E b \in BOOLEAN : cc' = [cc EXCEPT ![current] = [cc[current] EXCEPT !.mirror = b]]
    BY <1>0, <1>2 DEF PauseMirror, ResumeMirror, maybeLiftBridgeErrorPause
  <2>2. 1 \in RowIds
    BY TurnAssumption DEF RowIds
  <2>3. CASE cc' = cc
    BY <1>0, <2>3 DEF ConnsType
  <2>4. ASSUME current \in Conns, NEW b \in BOOLEAN, cc' = [cc EXCEPT ![current] = [cc[current] EXCEPT !.mirror = b]]
        PROVE ConnsType'
    <3>1. [cc[current] EXCEPT !.mirror = b] \in GoodConns
      BY <1>u, <2>2, <2>4
    <3> QED  BY <1>x, <2>4, <3>1
  <2> QED  BY <2>1, <2>3, <2>4
<1>3. ASSUME NEW e \in Conns, RegisterReads(e) PROVE ConnsType'
  <2>1. cc' = [cc EXCEPT ![e] = [cc[e] EXCEPT !.sock = "registering", !.mirror = paused]]
    BY <1>0, <1>3 DEF RegisterReads
  <2> QED  BY <1>0, <1>u, <1>x, <1>r, <2>1
<1>4. ASSUME NEW e \in Conns, RegisterPublishes(e) PROVE ConnsType'
  BY <1>0, <1>u, <1>4, <1>r DEF RegisterPublishes, ConnsType
<1>5. ASSUME NEW e \in Conns, SocketBreaks(e) PROVE ConnsType'
  <2>1. cc' = [cc EXCEPT ![e] = [cc[e] EXCEPT !.sock = "broken"]]
    BY <1>0, <1>5 DEF SocketBreaks
  <2> QED  BY <1>0, <1>u, <1>x, <1>r, <2>1
<1>6. ASSUME NEW e \in Conns, HubNotices(e) PROVE ConnsType'
  <2>1. cc' = [cc EXCEPT ![e] = ClosedConn(cc[e])]
    BY <1>6 DEF HubNotices
  <2> QED  BY <1>0, <1>u, <1>x, <1>r, <2>1
<1>7. CASE HubRestart
  <2>1. /\ NoConn \in GoodConns /\ [NoConn EXCEPT !.sock = "closed"] \in GoodConns
        /\ [NoConn EXCEPT !.sock = "closed"].sock # "absent"
    BY <1>r DEF NoConn, GoodConns
  <2>2. cc' = [e \in Conns |-> IF cc[e].sock = "absent" THEN NoConn ELSE [NoConn EXCEPT !.sock = "closed"]]
    BY <1>7 DEF HubRestart
  <2>3. cc' \in [Conns -> GoodConns]
    BY <2>1, <2>2
  <2> QED  BY <2>3 DEF ConnsType
<1>8. ASSUME NEW e \in Conns, SettlesRows(e) \/ MarksDelivered(e) \/ MarkFails(e) PROVE ConnsType'
  <2>1. cc' = [cc EXCEPT ![e] = [cc[e] EXCEPT !.step = "idle", !.at = 0]]
    BY <1>0, <1>8 DEF SettlesRows, MarksDelivered, MarkFails
  <2> QED  BY <1>0, <1>u, <1>x, <1>r, <2>1
<1>9. ASSUME NEW e \in Conns, ReadsRow(e) PROVE ConnsType'
  <2>1. PICK m \in RowIds : cc' = [cc EXCEPT ![e] = [cc[e] EXCEPT !.step = "read", !.at = m]]
    BY <1>0, <1>9 DEF ReadsRow
  <2> QED  BY <1>0, <1>u, <1>x, <2>1
<1>10. ASSUME NEW e \in Conns, ReservesTurn(e) PROVE ConnsType'
  <2>0. cc[e].step # "idle"
    BY <1>10 DEF ReservesTurn
  <2>1. \/ cc' = [cc EXCEPT ![e] = [cc[e] EXCEPT !.step = "idle", !.at = 0]]
        \/ cc' = [cc EXCEPT ![e] = [cc[e] EXCEPT !.step = "reserved", !.busy = TRUE, !.turn = cc[e].at]]
    BY <1>0, <1>10 DEF ReservesTurn
  <2> QED  BY <1>0, <1>u, <1>x, <1>r, <2>0, <2>1
<1>11. ASSUME NEW e \in Conns, NEW m \in RowIds, WakesAgent(e, m) PROVE ConnsType'
  <2>1. cc' = [cc EXCEPT ![e] = [cc[e] EXCEPT !.step = "reserved", !.at = m, !.busy = TRUE, !.turn = m]]
    BY <1>0, <1>11 DEF WakesAgent
  <2> QED  BY <1>0, <1>u, <1>x, <2>1
<1>12. ASSUME NEW e \in Conns, WritesFrame(e) PROVE ConnsType'
  <2>0. cc[e].step # "idle"
    BY <1>12 DEF WritesFrame
  <2>1. \/ cc' = [cc EXCEPT ![e] = [cc[e] EXCEPT !.step = "idle", !.at = 0]]
        \/ cc' = [cc EXCEPT ![e] = [cc[e] EXCEPT !.step = "written"]]
    BY <1>0, <1>12 DEF WritesFrame
  <2> QED  BY <1>0, <1>u, <1>x, <1>r, <2>0, <2>1
<1>13. ASSUME NEW e \in Conns, WriteFails(e) PROVE ConnsType'
  <2>1. cc' = [cc EXCEPT ![e] = Aborted(cc[e])]
    BY <1>13 DEF WriteFails
  <2> QED  BY <1>0, <1>u, <1>x, <1>r, <2>1
<1>14. ASSUME NEW e \in Conns, HubReads(e) PROVE ConnsType'
  <2>1. \/ cc' = cc
        \/ current \in Conns /\ cc' = [cc EXCEPT ![current] = [cc[current] EXCEPT !.busy = TRUE]]
        \/ cc' = [cc EXCEPT ![e] = Finished(cc[e])]
    BY <1>0, <1>14 DEF HubReads
  <2>2. CASE cc' = cc
    BY <1>0, <2>2 DEF ConnsType
  <2> QED  BY <1>0, <1>u, <1>x, <1>r, <2>1, <2>2
<1>15. CASE ForcesFinish \/ \E m \in RowIds : recoverLostTurn(m)
  <2>1. current \in Conns /\ cc' = [cc EXCEPT ![current] = Finished(cc[current])]
    BY <1>0, <1>15 DEF ForcesFinish, recoverLostTurn
  <2> QED  BY <1>0, <1>u, <1>x, <1>r, <2>1
<1> QED  BY <1>1, <1>2, <1>3, <1>4, <1>5, <1>6, <1>7, <1>8, <1>9, <1>10, <1>11, <1>12, <1>13, <1>14, <1>15
         DEF TurnNext, Delivers

\* What appending to and taking from the queues keeps.
LEMMA QueueUpdates ==
    /\ \A S : <<>> \in Seq(S)
    /\ \A S : \A s \in Seq(S) : s # <<>> => Head(s) \in S /\ Tail(s) \in Seq(S)
    /\ \A S : \A s \in Seq(S) : \A x \in S : Append(s, x) \in Seq(S)
  BY HeadTailProperties, AppendProperties, EmptySeq

\* The frames in flight are frames and row ids.
LEMMA QueuesStep ==
    ASSUME TurnTypeInv, TurnNext
    PROVE  QueuesType'
<1> USE DEF hubVars, bridgeVars, historyVars
<1>0. /\ QueuesType /\ cc \in [Conns -> GoodConns]
      /\ \A e \in Conns : cc[e].at \in RowIds \cup {0} /\ (cc[e].step # "idle" => cc[e].at \in RowIds)
      /\ \A m \in RowIds : Reply(m) \in Frames /\ Chunk(m) \in Frames
  BY DEF TurnTypeInv, ConnsType, GoodConns, Reply, Chunk, Frames
<1>q. /\ <<>> \in Seq(RowIds) /\ <<>> \in Seq(Frames)
      /\ \A e \in Conns : /\ down[e] \in Seq(RowIds) /\ up[e] \in Seq(Frames)
                          /\ down[e] # <<>> => Head(down[e]) \in RowIds /\ Tail(down[e]) \in Seq(RowIds)
                          /\ up[e] # <<>> => Head(up[e]) \in Frames /\ Tail(up[e]) \in Seq(Frames)
                          /\ \A m \in RowIds : Append(down[e], m) \in Seq(RowIds)
                          /\ \A f \in Frames : Append(up[e], f) \in Seq(Frames)
      /\ \A f \in Frames : Append(replies, f) \in Seq(Frames)
  BY <1>0, QueueUpdates DEF QueuesType
<1>1. CASE \/ ResumeRow \/ PauseRow \/ PauseMirror \/ TakeOver \/ ForcesFinish \/ ResumeMirror
           \/ maybeLiftBridgeErrorPause
           \/ \E m \in RowIds : InjectHubMessage(m) \/ sendStreamingNudge(m) \/ recoverLostTurn(m)
           \/ \E e \in Conns : \/ HubNotices(e) \/ SettlesRows(e) \/ ReadsRow(e) \/ ReservesTurn(e)
                               \/ WriteFails(e) \/ MarksDelivered(e) \/ MarkFails(e)
                               \/ \E m \in RowIds : WakesAgent(e, m)
  <2>1. UNCHANGED <<down, up, bridgeVars>>
    BY <1>1 DEF ResumeRow, PauseRow, PauseMirror, TakeOver, ForcesFinish, ResumeMirror,
       maybeLiftBridgeErrorPause, InjectHubMessage, sendStreamingNudge, recoverLostTurn, HubNotices,
       SettlesRows, ReadsRow, ReservesTurn, WriteFails, MarksDelivered, MarkFails, WakesAgent
  <2> QED  BY <1>0, <2>1 DEF QueuesType
<1>2. ASSUME NEW e \in Conns, RegisterReads(e) \/ RegisterPublishes(e) PROVE QueuesType'
  BY <1>0, <1>q, <1>2 DEF RegisterReads, RegisterPublishes, QueuesType
<1>3. ASSUME NEW e \in Conns, SocketBreaks(e) PROVE QueuesType'
  BY <1>0, <1>q, <1>3 DEF SocketBreaks, QueuesType
<1>4. CASE HubRestart
  BY <1>0, <1>q, <1>4 DEF HubRestart, QueuesType
<1>5. ASSUME NEW e \in Conns, WritesFrame(e) PROVE QueuesType'
  <2>1. down' = down \/ down' = [down EXCEPT ![e] = Append(down[e], cc[e].at)]
    BY <1>5 DEF WritesFrame
  <2>2. cc[e].at \in RowIds /\ UNCHANGED <<up, bridgeVars>>
    BY <1>0, <1>5 DEF WritesFrame
  <2> QED  BY <1>0, <1>q, <2>1, <2>2 DEF QueuesType
<1>6. ASSUME NEW e \in Conns, BridgeReads(e) PROVE QueuesType'
  <2>1. down[e] # <<>> /\ Head(down[e]) \in RowIds /\ Tail(down[e]) \in Seq(RowIds)
    BY <1>q, <1>6 DEF BridgeReads
  <2>2. /\ down' = [down EXCEPT ![e] = Tail(down[e])] /\ seen' = seen \cup {Head(down[e])}
        /\ turns' = turns \/ turns' = turns \cup {[id |-> Head(down[e]), on |-> e, running |-> FALSE]}
        /\ UNCHANGED <<up, bridgeOn, replies>>
    BY <1>6 DEF BridgeReads
  <2>3. [id |-> Head(down[e]), on |-> e, running |-> FALSE] \in [id : RowIds, on : Conns, running : BOOLEAN]
    BY <2>1
  <2>4. turns' \subseteq [id : RowIds, on : Conns, running : BOOLEAN]
    BY <1>0, <2>2, <2>3 DEF QueuesType
  <2>5. down' \in [Conns -> Seq(RowIds)]
    BY <1>0, <2>1, <2>2 DEF QueuesType
  <2> QED  BY <1>0, <2>1, <2>2, <2>4, <2>5 DEF QueuesType
<1>7. ASSUME NEW e \in Conns, HubReads(e) PROVE QueuesType'
  BY <1>0, <1>q, <1>7 DEF HubReads, QueuesType
<1>8. CASE BridgeRestarts
  BY <1>0, <1>q, <1>8 DEF BridgeRestarts, QueuesType
<1>9. ASSUME NEW t \in turns, TurnStarts(t) PROVE QueuesType'
  BY <1>0, <1>9 DEF TurnStarts, QueuesType
<1>10. ASSUME NEW t \in turns, Streams(t) \/ TurnReplies(t) PROVE QueuesType'
  <2>0. t.id \in RowIds /\ t.on \in Conns
    BY <1>0 DEF QueuesType
  <2>1. CASE Streams(t)
    <3>1. up' = [up EXCEPT ![t.on] = Append(up[t.on], Chunk(t.id))]
      BY <2>1 DEF Streams
    <3>2. up' \in [Conns -> Seq(Frames)]
      BY <1>0, <1>q, <2>0, <3>1 DEF QueuesType
    <3> QED  BY <1>0, <2>1, <3>2 DEF Streams, QueuesType
  <2>2. CASE TurnReplies(t)
    <3>1. /\ up' = up \/ up' = [up EXCEPT ![t.on] = Append(up[t.on], Reply(t.id))]
          /\ replies' = replies \/ replies' = Append(replies, Reply(t.id))
          /\ turns' = turns \ {t} /\ UNCHANGED <<down, bridgeOn, seen>>
      BY <2>2 DEF TurnReplies
    <3>2. Append(up[t.on], Reply(t.id)) \in Seq(Frames) /\ Append(replies, Reply(t.id)) \in Seq(Frames)
      BY <1>0, <1>q, <2>0
    <3>3. replies' \in Seq(Frames)
      BY <1>0, <3>1, <3>2 DEF QueuesType
    <3>4. up' \in [Conns -> Seq(Frames)]
      BY <1>0, <2>0, <3>1, <3>2 DEF QueuesType
    <3> QED  BY <1>0, <3>1, <3>3, <3>4 DEF QueuesType
  <2> QED  BY <1>10, <2>1, <2>2
<1> QED  BY <1>1, <1>2, <1>3, <1>4, <1>5, <1>6, <1>7, <1>8, <1>9, <1>10 DEF TurnNext, Delivers

\* The message rows, the histories and the turns have the values the code writes.
LEMMA RowsStep ==
    ASSUME TurnTypeInv, TurnNext
    PROVE  RowsType'
<1> USE DEF hubVars, bridgeVars, historyVars
<1>0. /\ RowsType /\ QueuesType /\ cc \in [Conns -> GoodConns]
      /\ \A e \in Conns : cc[e].at \in RowIds \cup {0} /\ (cc[e].step # "idle" => cc[e].at \in RowIds)
  BY DEF TurnTypeInv, ConnsType, GoodConns
<1>n. /\ NagsDropped \in [RowIds -> {"none", "nag", "pending", "delivered", "wake", "settled"}]
      /\ SettleAll \in [RowIds -> {"none", "nag", "pending", "delivered", "wake", "settled"}]
      /\ \A m \in RowIds : Marked(m) \in [RowIds -> {"none", "nag", "pending", "delivered", "wake", "settled"}]
  BY <1>0 DEF NagsDropped, SettleAll, Marked, RowsType
<1>1. CASE \/ ResumeRow \/ PauseRow \/ PauseMirror \/ TakeOver \/ ResumeMirror \/ maybeLiftBridgeErrorPause
  BY <1>0, <1>1 DEF ResumeRow, PauseRow, PauseMirror, TakeOver, ResumeMirror, maybeLiftBridgeErrorPause, RowsType
<1>2. ASSUME NEW m \in RowIds, InjectHubMessage(m) \/ sendStreamingNudge(m) PROVE RowsType'
  BY <1>0, <1>2 DEF InjectHubMessage, sendStreamingNudge, RowsType
<1>3. ASSUME NEW m \in RowIds, recoverLostTurn(m) PROVE RowsType'
  BY <1>0, <1>n, <1>3, TurnAssumption DEF recoverLostTurn, RowsType
<1>4. CASE ForcesFinish
  BY <1>0, <1>n, <1>4 DEF ForcesFinish, RowsType
<1>5. ASSUME NEW e \in Conns, RegisterReads(e) \/ RegisterPublishes(e) \/ SocketBreaks(e) \/ HubNotices(e)
      PROVE RowsType'
  BY <1>0, <1>5 DEF RegisterReads, RegisterPublishes, SocketBreaks, HubNotices, RowsType
<1>6. CASE HubRestart
  BY <1>0, <1>6 DEF HubRestart, RowsType
<1>7. CASE BridgeRestarts
  BY <1>0, <1>7 DEF BridgeRestarts, RowsType
<1>8. ASSUME NEW e \in Conns, SettlesRows(e) PROVE RowsType'
  BY <1>0, <1>n, <1>8 DEF SettlesRows, RowsType
<1>9. ASSUME NEW e \in Conns, ReadsRow(e) \/ ReservesTurn(e) \/ WriteFails(e) \/ MarkFails(e) \/ BridgeReads(e)
      PROVE RowsType'
  BY <1>0, <1>9 DEF ReadsRow, ReservesTurn, WriteFails, MarkFails, BridgeReads, RowsType
<1>10. ASSUME NEW e \in Conns, NEW m \in RowIds, WakesAgent(e, m) PROVE RowsType'
  BY <1>0, <1>10 DEF WakesAgent, RowsType
<1>11. ASSUME NEW e \in Conns, WritesFrame(e) PROVE RowsType'
  BY <1>0, <1>11 DEF WritesFrame, RowsType
<1>12. ASSUME NEW e \in Conns, MarksDelivered(e) PROVE RowsType'
  <2>1. cc[e].at \in RowIds
    BY <1>0, <1>12 DEF MarksDelivered
  <2> QED  BY <1>0, <1>n, <1>12, <2>1 DEF MarksDelivered, RowsType
<1>13. ASSUME NEW e \in Conns, HubReads(e) PROVE RowsType'
  <2>1. msgRow' \in [RowIds -> {"none", "nag", "pending", "delivered", "wake", "settled"}]
    BY <1>0, <1>n, <1>13 DEF HubReads, RowsType
  <2>2. carried' \in BOOLEAN
    BY <1>0, <1>13 DEF HubReads, RowsType
  <2> QED  BY <1>0, <1>13, <2>1, <2>2 DEF HubReads, RowsType
<1>14. ASSUME NEW t \in turns, TurnStarts(t) \/ Streams(t) \/ TurnReplies(t) PROVE RowsType'
  <2>1. t.id \in RowIds
    BY <1>0 DEF QueuesType
  <2>2. ran' \in [RowIds -> Nat]
    BY <1>0, <1>14, <2>1 DEF TurnStarts, Streams, TurnReplies, RowsType
  <2> QED  BY <1>0, <1>14, <2>2 DEF TurnStarts, Streams, TurnReplies, RowsType
<1> QED  BY <1>1, <1>2, <1>3, <1>4, <1>5, <1>6, <1>7, <1>8, <1>9, <1>10, <1>11, <1>12, <1>13, <1>14
         DEF TurnNext, Delivers

PauseConn == ConnInv /\ PauseInv /\ PauseMirrored

\* A step within the connections that are up: where each is in its life, and the pause
\* it carries, stay as they are.
WithinConns ==
    /\ UNCHANGED <<current, mu, bridgeOn, paused>>
    /\ \A f \in Conns : /\ cc'[f].sock = cc[f].sock /\ cc'[f].mirror = cc[f].mirror
                        /\ cc[f].sock \in {"absent", "registering"} => cc'[f] = cc[f]

\* A step inside one connection keeps what the hub and the pause know of all.
LEMMA WithinKeeps ==
    ASSUME TurnTypeInv, TurnTypeInv', PauseConn, WithinConns
    PROVE  PauseConn'
<1>1. ConnInv'
  BY DEF PauseConn, ConnInv, WithinConns, TurnTypeInv, RowsType
<1>2. PauseInv'
  BY DEF PauseConn, PauseInv, WithinConns
<1>3. PauseMirrored'
  BY DEF PauseConn, PauseMirrored, WithinConns, TurnTypeInv, RowsType
<1> QED  BY <1>1, <1>2, <1>3 DEF PauseConn

\* The steps of a delivery, of the wake, of the watchdog and of the hub's reader stay
\* within the connections that are up.
LEMMA DeliveryWithin ==
    ASSUME TurnTypeInv, PauseConn,
           \/ ForcesFinish \/ TakeOver \/ BridgeRestarts
           \/ \E m \in RowIds : InjectHubMessage(m) \/ sendStreamingNudge(m) \/ recoverLostTurn(m)
           \/ \E e \in Conns : \/ SettlesRows(e) \/ Delivers(e) \/ MarkFails(e)
                               \/ BridgeReads(e) \/ HubReads(e)
                               \/ \E m \in RowIds : WakesAgent(e, m)
           \/ \E t \in turns : TurnStarts(t) \/ Streams(t) \/ TurnReplies(t)
    PROVE  WithinConns
<1> USE DEF hubVars, bridgeVars, historyVars
<1>0. /\ cc \in [Conns -> GoodConns] /\ current \in Conns \cup {0} /\ 0 \notin Conns
      /\ \A e \in Conns : cc[e].sock \in {"absent", "registering"} => cc[e].step = "idle" /\ e # current
  BY DEF TurnTypeInv, ConnsType, RowsType, PauseConn, ConnInv, Conns
<1>t. \A e \in Conns : DOMAIN cc[e] = {"sock", "busy", "turn", "mirror", "step", "at"}
  BY <1>0 DEF GoodConns
<1>x. ASSUME UNCHANGED <<current, mu, bridgeOn, paused>>, NEW e \in Conns, NEW x,
             cc[e].sock \notin {"absent", "registering"},
             x.sock = cc[e].sock, x.mirror = cc[e].mirror, cc' = [cc EXCEPT ![e] = x]
      PROVE  WithinConns
  BY <1>0, <1>x DEF WithinConns
<1>u. ASSUME UNCHANGED <<current, mu, bridgeOn, paused, cc>> PROVE WithinConns
  BY <1>u DEF WithinConns
<1>1. CASE \/ TakeOver \/ BridgeRestarts
           \/ \E m \in RowIds : InjectHubMessage(m) \/ sendStreamingNudge(m)
           \/ \E e \in Conns : BridgeReads(e)
           \/ \E t \in turns : TurnStarts(t) \/ Streams(t) \/ TurnReplies(t)
  <2>1. UNCHANGED <<current, mu, bridgeOn, paused, cc>>
    BY <1>1 DEF TakeOver, BridgeRestarts, InjectHubMessage, sendStreamingNudge, BridgeReads, TurnStarts,
                Streams, TurnReplies
  <2> QED  BY <1>u, <2>1
<1>2. CASE ForcesFinish \/ \E m \in RowIds : recoverLostTurn(m)
  <2>1. /\ current \in Conns /\ cc' = [cc EXCEPT ![current] = Finished(cc[current])]
        /\ UNCHANGED <<current, mu, bridgeOn, paused>>
    BY <1>0, <1>2 DEF ForcesFinish, recoverLostTurn
  <2>2. Finished(cc[current]).sock = cc[current].sock /\ Finished(cc[current]).mirror = cc[current].mirror
    BY <1>t, <2>1 DEF Finished
  <2> QED  BY <1>0, <1>x, <2>1, <2>2
<1>3. ASSUME NEW e \in Conns, SettlesRows(e) \/ ReadsRow(e) \/ ReservesTurn(e) PROVE WithinConns
  <2>1. /\ cc[e].sock \notin {"absent", "registering"} /\ UNCHANGED <<current, mu, bridgeOn, paused>>
    BY <1>0, <1>3 DEF SettlesRows, ReadsRow, ReservesTurn
  <2>2. \/ cc' = [cc EXCEPT ![e] = [cc[e] EXCEPT !.step = "idle", !.at = 0]]
        \/ \E m \in RowIds : cc' = [cc EXCEPT ![e] = [cc[e] EXCEPT !.step = "read", !.at = m]]
        \/ cc' = [cc EXCEPT ![e] = [cc[e] EXCEPT !.step = "reserved", !.busy = TRUE, !.turn = cc[e].at]]
    BY <1>0, <1>3 DEF SettlesRows, ReadsRow, ReservesTurn
  <2>3. PICK x : /\ x.sock = cc[e].sock /\ x.mirror = cc[e].mirror /\ cc' = [cc EXCEPT ![e] = x]
    BY <1>t, <2>2
  <2> QED  BY <1>x, <2>1, <2>3
<1>4. ASSUME NEW e \in Conns, WritesFrame(e) \/ WriteFails(e) \/ MarksDelivered(e) \/ MarkFails(e) PROVE WithinConns
  <2>1. /\ cc[e].sock \notin {"absent", "registering"} /\ UNCHANGED <<current, mu, bridgeOn, paused>>
    BY <1>0, <1>4 DEF WritesFrame, WriteFails, MarksDelivered, MarkFails
  <2>2. \/ cc' = [cc EXCEPT ![e] = [cc[e] EXCEPT !.step = "idle", !.at = 0]]
        \/ cc' = [cc EXCEPT ![e] = [cc[e] EXCEPT !.step = "written"]]
        \/ cc' = [cc EXCEPT ![e] = [cc[e] EXCEPT !.busy = FALSE, !.turn = 0, !.step = "idle", !.at = 0]]
    BY <1>0, <1>4 DEF WritesFrame, WriteFails, MarksDelivered, MarkFails, Aborted
  <2>3. PICK x : /\ x.sock = cc[e].sock /\ x.mirror = cc[e].mirror /\ cc' = [cc EXCEPT ![e] = x]
    BY <1>t, <2>2
  <2> QED  BY <1>x, <2>1, <2>3
<1>5. ASSUME NEW e \in Conns, NEW m \in RowIds, WakesAgent(e, m) PROVE WithinConns
  <2>1. /\ cc[e].sock \notin {"absent", "registering"} /\ UNCHANGED <<current, mu, bridgeOn, paused>>
        /\ cc' = [cc EXCEPT ![e] = [cc[e] EXCEPT !.step = "reserved", !.at = m, !.busy = TRUE, !.turn = m]]
    BY <1>0, <1>5 DEF WakesAgent
  <2>3. PICK x : /\ x.sock = cc[e].sock /\ x.mirror = cc[e].mirror /\ cc' = [cc EXCEPT ![e] = x]
    BY <1>t, <2>1
  <2> QED  BY <1>x, <2>1, <2>3
<1>6. ASSUME NEW e \in Conns, HubReads(e) PROVE WithinConns
  <2>1. /\ cc[e].sock \notin {"absent", "registering"} /\ UNCHANGED <<current, mu, bridgeOn, paused>>
    BY <1>0, <1>6 DEF HubReads
  <2>2. \/ cc' = cc
        \/ current \in Conns /\ cc' = [cc EXCEPT ![current] = [cc[current] EXCEPT !.busy = TRUE]]
        \/ cc' = [cc EXCEPT ![e] = [cc[e] EXCEPT !.busy = FALSE, !.turn = 0]]
    BY <1>0, <1>6 DEF HubReads, Finished
  <2>3. \/ cc' = cc
        \/ \E f \in Conns : \E x : /\ cc[f].sock \notin {"absent", "registering"}
                                   /\ x.sock = cc[f].sock /\ x.mirror = cc[f].mirror /\ cc' = [cc EXCEPT ![f] = x]
    BY <1>0, <1>t, <2>1, <2>2
  <2> QED  BY <1>x, <1>u, <2>1, <2>3
<1> QED  BY <1>1, <1>2, <1>3, <1>4, <1>5, <1>6 DEF Delivers

\* The pause, whoever sets, lifts or reads it, and the connections' coming and going.
LEMMA PauseStep ==
    ASSUME TurnTypeInv, TurnTypeInv', PauseConn, TurnNext
    PROVE  PauseConn'
<1> USE DEF hubVars, bridgeVars, historyVars
<1>0. /\ cc \in [Conns -> GoodConns] /\ current \in Conns \cup {0} /\ bridgeOn \in Conns \cup {0} /\ 0 \notin Conns
      /\ ConnInv /\ PauseInv /\ PauseMirrored /\ paused \in BOOLEAN
  BY DEF TurnTypeInv, ConnsType, RowsType, QueuesType, PauseConn, Conns
<1>t. \A e \in Conns : DOMAIN cc[e] = {"sock", "busy", "turn", "mirror", "step", "at"}
  BY <1>0 DEF GoodConns
<1>1. CASE ResumeRow \/ PauseRow
  <2>1. /\ UNCHANGED <<cc, current, bridgeOn>> /\ mu = "free" /\ mu' \in {"resume", "pause"}
        /\ mu' = "resume" => paused' = FALSE
        /\ mu' = "pause" => paused' = TRUE
    BY <1>1 DEF ResumeRow, PauseRow, MuIsFree
  <2>2. \A e \in Conns : cc[e].sock # "registering"
    BY <1>0, <2>1 DEF ConnInv
  <2>3. ConnInv'
    BY <1>0, <2>1, <2>2 DEF ConnInv
  <2> QED  BY <1>0, <2>1, <2>2, <2>3 DEF PauseConn, PauseInv, PauseMirrored
<1>2. CASE PauseMirror \/ ResumeMirror \/ maybeLiftBridgeErrorPause
  <2>1. /\ mu' = "free" /\ mu # "register" /\ UNCHANGED <<current, bridgeOn>>
        /\ \/ current = 0 /\ cc' = cc
           \/ /\ current # 0
              /\ cc' = [cc EXCEPT ![current] = [cc[current] EXCEPT !.mirror = paused']]
    <3>1. CASE PauseMirror
      BY <1>0, <3>1 DEF PauseMirror, PauseInv
    <3>2. CASE ResumeMirror
      BY <1>0, <3>2 DEF ResumeMirror, PauseInv
    <3>3. CASE maybeLiftBridgeErrorPause
      BY <1>0, <3>3 DEF maybeLiftBridgeErrorPause, MuIsFree
    <3> QED  BY <1>2, <3>1, <3>2, <3>3
  <2>2. \A e \in Conns : cc[e].sock # "registering"
    BY <1>0, <2>1 DEF ConnInv
  <2>3. \A e \in Conns : /\ cc'[e].sock = cc[e].sock /\ cc'[e].step = cc[e].step
                         /\ cc'[e].busy = cc[e].busy /\ cc'[e].turn = cc[e].turn
    BY <1>0, <1>t, <2>1
  <2>4. ConnInv'
    BY <1>0, <2>1, <2>2, <2>3 DEF ConnInv
  <2>5. PauseMirrored'
    BY <1>0, <1>t, <2>1 DEF PauseMirrored
  <2> QED  BY <2>1, <2>2, <2>3, <2>4, <2>5 DEF PauseConn, PauseInv
<1>3. ASSUME NEW e \in Conns, RegisterReads(e) PROVE PauseConn'
  <2>1. /\ cc' = [cc EXCEPT ![e] = [cc[e] EXCEPT !.sock = "registering", !.mirror = paused]]
        /\ mu = "free" /\ mu' = "register" /\ bridgeOn = 0 /\ bridgeOn' = e /\ cc[e].sock = "absent"
        /\ UNCHANGED <<current, paused>>
    BY <1>0, <1>3 DEF RegisterReads, MuIsFree
  <2>2. /\ cc'[e].sock = "registering" /\ cc'[e].mirror = paused
        /\ cc'[e].step = "idle" /\ cc'[e].busy = FALSE /\ cc'[e].turn = 0
        /\ \A f \in Conns \ {e} : cc'[f] = cc[f]
    BY <1>0, <2>1 DEF ConnInv
  <2>3. current # e /\ \A f \in Conns : cc[f].sock \notin {"registering", "open"}
    BY <1>0, <2>1 DEF ConnInv
  <2>4. ConnInv'
    BY <1>0, <2>1, <2>2, <2>3 DEF ConnInv
  <2> QED  BY <1>0, <2>1, <2>2, <2>3, <2>4 DEF PauseConn, PauseInv, PauseMirrored
<1>4. ASSUME NEW e \in Conns, RegisterPublishes(e) PROVE PauseConn'
  <2>1. /\ mu = "register" /\ mu' = "free" /\ bridgeOn = e /\ bridgeOn' = e /\ current' = e
        /\ cc[e].sock = "registering" /\ paused' = paused
        /\ cc' = [f \in Conns |-> IF f = e THEN [cc[e] EXCEPT !.sock = "open"]
                              ELSE IF cc[f].sock \in {"open", "broken"}
                                   THEN ClosedConn(cc[f]) ELSE cc[f]]
    BY <1>0, <1>4 DEF RegisterPublishes, ConnInv
  <2>2. cc'[e].sock = "open" /\ cc'[e].mirror = paused
    BY <1>0, <1>t, <2>1 DEF PauseInv
  <2>3. \A f \in Conns \ {e} : \/ cc'[f] = cc[f] /\ cc[f].sock \notin {"open", "registering"}
                               \/ cc'[f].sock = "closed"
    BY <1>0, <2>1 DEF ConnInv, ClosedConn, NoConn
  <2>4. ConnInv'
    BY <1>0, <2>1, <2>2, <2>3 DEF ConnInv
  <2> QED  BY <1>0, <2>1, <2>2, <2>3, <2>4 DEF PauseConn, PauseInv, PauseMirrored
<1>5. ASSUME NEW e \in Conns, SocketBreaks(e) PROVE PauseConn'
  <2>1. /\ cc' = [cc EXCEPT ![e] = [cc[e] EXCEPT !.sock = "broken"]]
        /\ bridgeOn = e /\ bridgeOn' = 0 /\ cc[e].sock = "open" /\ UNCHANGED <<current, paused, mu>>
    BY <1>0, <1>5 DEF SocketBreaks
  <2>2. /\ cc'[e].sock = "broken" /\ cc'[e].mirror = cc[e].mirror
        /\ \A f \in Conns \ {e} : cc'[f] = cc[f] /\ cc[f].sock \notin {"open", "registering"}
    BY <1>0, <2>1 DEF ConnInv
  <2>4. ConnInv'
    BY <1>0, <2>1, <2>2 DEF ConnInv
  <2> QED  BY <1>0, <2>1, <2>2, <2>4 DEF PauseConn, PauseInv, PauseMirrored
<1>6. ASSUME NEW e \in Conns, HubNotices(e) PROVE PauseConn'
  <2>1. /\ cc' = [cc EXCEPT ![e] = ClosedConn(cc[e])] /\ cc[e].sock \in {"broken", "closed"}
        /\ current' = 0 /\ UNCHANGED <<bridgeOn, paused, mu>>
    BY <1>0, <1>6 DEF HubNotices
  <2>2. cc'[e].sock = "closed" /\ \A f \in Conns \ {e} : cc'[f] = cc[f]
    BY <1>0, <2>1 DEF ClosedConn, NoConn
  <2>4. ConnInv'
    BY <1>0, <2>1, <2>2 DEF ConnInv
  <2> QED  BY <1>0, <2>1, <2>2, <2>4 DEF PauseConn, PauseInv, PauseMirrored
<1>7. CASE HubRestart
  <2>1. /\ current' = 0 /\ mu' = "free" /\ bridgeOn' = 0
        /\ \A e \in Conns : /\ cc'[e].sock \in {"absent", "closed"} /\ cc'[e].step = "idle"
                            /\ cc'[e].busy = FALSE /\ cc'[e].turn = 0
    BY <1>0, <1>7 DEF HubRestart, NoConn
  <2> QED  BY <1>0, <2>1 DEF PauseConn, PauseInv, PauseMirrored, ConnInv
<1>8. CASE \/ ForcesFinish \/ TakeOver \/ BridgeRestarts
           \/ \E m \in RowIds : InjectHubMessage(m) \/ sendStreamingNudge(m) \/ recoverLostTurn(m)
           \/ \E e \in Conns : \/ SettlesRows(e) \/ Delivers(e) \/ MarkFails(e)
                               \/ BridgeReads(e) \/ HubReads(e)
                               \/ \E m \in RowIds : WakesAgent(e, m)
           \/ \E t \in turns : TurnStarts(t) \/ Streams(t) \/ TurnReplies(t)
  BY <1>8, DeliveryWithin, WithinKeeps
<1> QED  BY <1>1, <1>2, <1>3, <1>4, <1>5, <1>6, <1>7, <1>8 DEF TurnNext

\* The bridge knows what it runs, so a second copy of a row starts no second turn.
LEMMA SeenStep ==
    ASSUME TurnTypeInv, TurnTypeInv', SeenInv, TurnNext
    PROVE  SeenInv'
<1> USE DEF hubVars, bridgeVars, historyVars
<1>0. /\ ran \in [RowIds -> Nat] /\ seen \subseteq RowIds
      /\ \A t \in turns : t.id \in RowIds /\ t.running \in BOOLEAN /\ t \in [id : RowIds, on : Conns, running : BOOLEAN]
      /\ \A e \in Conns : down[e] \in Seq(RowIds)
  BY DEF TurnTypeInv, RowsType, QueuesType
<1>u. ASSUME UNCHANGED <<turns, seen, ran>> PROVE SeenInv'
  BY <1>u DEF SeenInv
<1>1. ASSUME NEW e \in Conns, BridgeReads(e) PROVE SeenInv'
  <2> DEFINE m == Head(down[e])
  <2>1. m \in RowIds /\ seen' = seen \cup {m} /\ ran' = ran
    BY <1>0, <1>1, QueueUpdates DEF BridgeReads
  <2>2. CASE turns' = turns
    BY <1>0, <2>1, <2>2 DEF SeenInv
  <2>3. CASE m \notin seen /\ turns' = turns \cup {[id |-> m, on |-> e, running |-> FALSE]}
    <3>1. ran[m] = 0
      BY <1>0, <2>1, <2>3 DEF SeenInv
    <3>2. \A t \in turns : t.id # m
      BY <2>3 DEF SeenInv
    <3> DEFINE v == [id |-> m, on |-> e, running |-> FALSE]
    <3>3. v.id = m /\ turns' = turns \cup {v}
      BY <2>3
    <3>4. \A t \in turns : t.id \in seen' /\ (~t.running => ran'[t.id] = 0)
      BY <1>0, <2>1 DEF SeenInv
    <3>5. \A t \in turns' : t.id \in seen' /\ (~t.running => ran'[t.id] = 0)
      BY <2>1, <3>1, <3>3, <3>4
    <3>6. \A t, u \in turns' : t.id = u.id => t = u
      BY <3>2, <3>3 DEF SeenInv
    <3>7. \A n \in RowIds : ran'[n] <= 1 /\ (ran'[n] > 0 => n \in seen')
      BY <2>1 DEF SeenInv
    <3> QED  BY <3>5, <3>6, <3>7 DEF SeenInv
  <2> QED  BY <1>1, <2>2, <2>3 DEF BridgeReads, AlreadySeen
<1>2. ASSUME NEW t \in turns, TurnStarts(t) PROVE SeenInv'
  <2> DEFINE v == [t EXCEPT !.running = TRUE]
  <2>1. /\ t.running = FALSE /\ turns' = (turns \ {t}) \cup {v} /\ seen' = seen
        /\ ran' = [ran EXCEPT ![t.id] = IF ran[t.id] < 2 THEN ran[t.id] + 1 ELSE ran[t.id]]
    BY <1>0, <1>2 DEF TurnStarts
  <2>2. v.id = t.id /\ v.running = TRUE /\ t.id \in seen /\ ran[t.id] = 0 /\ t.id \in RowIds
    BY <1>0, <2>1 DEF SeenInv
  <2>3. ran' = [ran EXCEPT ![t.id] = 1]
    BY <2>1, <2>2
  <2>4. \A u \in turns \ {t} : u.id # t.id
    BY DEF SeenInv
  <2>5. /\ \A u \in turns' : u.id \in seen' /\ (u.running = FALSE => ran'[u.id] = 0)
        /\ \A u, w \in turns' : u.id = w.id => u = w
    BY <1>0, <2>1, <2>2, <2>3, <2>4 DEF SeenInv
  <2>6. \A m \in RowIds : ran'[m] <= 1 /\ (ran'[m] > 0 => m \in seen')
    BY <1>0, <2>1, <2>2, <2>3 DEF SeenInv
  <2> QED  BY <2>5, <2>6 DEF SeenInv
<1>3. ASSUME NEW t \in turns, TurnReplies(t) PROVE SeenInv'
  <2>1. turns' = turns \ {t} /\ UNCHANGED <<seen, ran>>
    BY <1>3 DEF TurnReplies
  <2> QED  BY <2>1 DEF SeenInv
<1>4. CASE BridgeRestarts
  BY <1>4 DEF BridgeRestarts, SeenInv
<1>5. CASE \/ ResumeRow \/ PauseRow \/ PauseMirror \/ TakeOver \/ HubRestart
           \/ ForcesFinish \/ ResumeMirror \/ maybeLiftBridgeErrorPause
           \/ \E m \in RowIds : InjectHubMessage(m) \/ sendStreamingNudge(m) \/ recoverLostTurn(m)
           \/ \E t \in turns : Streams(t)
  <2>1. UNCHANGED <<turns, seen, ran>>
    BY <1>5 DEF ResumeRow, PauseRow, PauseMirror, TakeOver, HubRestart, ForcesFinish, ResumeMirror,
       maybeLiftBridgeErrorPause, InjectHubMessage, sendStreamingNudge, recoverLostTurn, Streams
  <2> QED  BY <1>u, <2>1
<1>6. CASE \E e \in Conns : \/ RegisterReads(e) \/ RegisterPublishes(e) \/ SocketBreaks(e)
                            \/ HubNotices(e) \/ SettlesRows(e) \/ Delivers(e) \/ MarkFails(e) \/ HubReads(e)
                            \/ \E m \in RowIds : WakesAgent(e, m)
  <2>1. UNCHANGED <<turns, seen, ran>>
    BY <1>6 DEF RegisterReads, RegisterPublishes, SocketBreaks, HubNotices, SettlesRows, Delivers, MarkFails,
       HubReads, WakesAgent, ReadsRow, ReservesTurn, WritesFrame, WriteFails, MarksDelivered
  <2> QED  BY <1>u, <2>1
<1> QED  BY <1>1, <1>2, <1>3, <1>4, <1>5, <1>6 DEF TurnNext

\* A row is marked after it was written.
LEMMA WrittenStep ==
    ASSUME TurnTypeInv, TurnTypeInv', WrittenInv, TurnNext
    PROVE  WrittenInv'
<1> USE DEF hubVars, bridgeVars, historyVars
<1>0. /\ cc \in [Conns -> GoodConns] /\ msgRow \in [RowIds -> {"none", "nag", "pending", "delivered", "wake", "settled"}]
      /\ current \in Conns \cup {0}
      /\ \A e \in Conns : cc[e].step # "idle" => cc[e].at \in RowIds
  BY DEF TurnTypeInv, RowsType, ConnsType, GoodConns
<1>t. \A e \in Conns : DOMAIN cc[e] = {"sock", "busy", "turn", "mirror", "step", "at"}
  BY <1>0 DEF GoodConns
<1>x. ASSUME NEW e, NEW x, cc' = [cc EXCEPT ![e] = x], x.step = "written" => cc[e].step = "written" /\ x.at = cc[e].at
      PROVE  \A f \in Conns : cc'[f].step = "written" => cc[f].step = "written" /\ cc'[f].at = cc[f].at
  BY <1>0, <1>x
\* nothing is marked, and no delivery comes to the end of its write
<1>k. ASSUME written \subseteq written',
             \A m \in RowIds : msgRow'[m] = "delivered" => msgRow[m] = "delivered",
             \A e \in Conns : cc'[e].step = "written" => cc[e].step = "written" /\ cc'[e].at = cc[e].at
      PROVE  WrittenInv'
  BY <1>k DEF WrittenInv
<1>m. /\ \A m \in RowIds : NagsDropped[m] = "delivered" => msgRow[m] = "delivered"
      /\ \A m \in RowIds : SettleAll[m] = "delivered" => msgRow[m] = "delivered"
      /\ NagsDropped \in [RowIds -> {"none", "nag", "pending", "delivered", "wake", "settled"}]
  BY <1>0 DEF NagsDropped, SettleAll
<1>1. ASSUME NEW e \in Conns, WritesFrame(e) PROVE WrittenInv'
  <2>1. /\ cc[e].at \in RowIds /\ written' = written \cup {cc[e].at} /\ msgRow' = msgRow
    BY <1>0, <1>1 DEF WritesFrame
  <2>2. \/ cc' = [cc EXCEPT ![e] = [cc[e] EXCEPT !.step = "idle", !.at = 0]]
        \/ cc' = [cc EXCEPT ![e] = [cc[e] EXCEPT !.step = "written"]]
    BY <1>0, <1>1 DEF WritesFrame
  <2>4. PICK x : cc' = [cc EXCEPT ![e] = x] /\ (x.step = "written" => x.at = cc[e].at)
    BY <1>t, <2>2
  <2>3. \A f \in Conns : cc'[f].step = "written" => \/ f = e /\ cc'[f].at = cc[e].at
                                                    \/ cc[f].step = "written" /\ cc'[f].at = cc[f].at
    BY <1>0, <2>4
  <2> QED  BY <2>1, <2>3 DEF WrittenInv
<1>2. ASSUME NEW e \in Conns, MarksDelivered(e) PROVE WrittenInv'
  <2>1. /\ cc[e].step = "written" /\ cc[e].at \in RowIds /\ msgRow' = Marked(cc[e].at) /\ written' = written
        /\ cc' = [cc EXCEPT ![e] = [cc[e] EXCEPT !.step = "idle", !.at = 0]]
    BY <1>0, <1>2 DEF MarksDelivered
  <2>2. cc[e].at \in written
    BY <2>1 DEF WrittenInv
  <2>3. \A m \in RowIds : msgRow'[m] = "delivered" => msgRow[m] = "delivered" \/ m = cc[e].at
    BY <1>0, <2>1 DEF Marked
  <2>4. \A f \in Conns : cc'[f].step = "written" => cc[f].step = "written" /\ cc'[f].at = cc[f].at
    BY <1>0, <1>t, <2>1
  <2> QED  BY <2>1, <2>2, <2>3, <2>4 DEF WrittenInv
<1>3. CASE \/ ResumeRow \/ PauseRow \/ TakeOver \/ BridgeRestarts
           \/ \E e \in Conns : BridgeReads(e)
           \/ \E t \in turns : TurnStarts(t) \/ Streams(t) \/ TurnReplies(t)
  <2>1. UNCHANGED <<cc, msgRow, written>>
    BY <1>3 DEF ResumeRow, PauseRow, TakeOver, BridgeRestarts, BridgeReads, TurnStarts, Streams, TurnReplies
  <2> QED  BY <1>k, <2>1
<1>4. CASE PauseMirror \/ ResumeMirror \/ maybeLiftBridgeErrorPause
  <2>1. UNCHANGED <<msgRow, written>> /\ (cc' = cc \/ \E b : cc' = [cc EXCEPT ![current] = [cc[current] EXCEPT !.mirror = b]])
    BY <1>0, <1>4 DEF PauseMirror, ResumeMirror, maybeLiftBridgeErrorPause
  <2>2. \A f \in Conns : cc'[f].step = cc[f].step /\ cc'[f].at = cc[f].at
    BY <1>0, <1>t, <2>1
  <2> QED  BY <1>k, <2>1, <2>2
<1>5. ASSUME NEW m \in RowIds, InjectHubMessage(m) \/ sendStreamingNudge(m) PROVE WrittenInv'
  <2>1. UNCHANGED <<cc, written>> /\ \A n \in RowIds : msgRow'[n] = "delivered" => msgRow[n] = "delivered"
    BY <1>0, <1>5 DEF InjectHubMessage, sendStreamingNudge
  <2> QED  BY <1>k, <2>1
<1>6. CASE ForcesFinish \/ \E m \in RowIds : recoverLostTurn(m)
  <2>1. /\ written' = written /\ cc' = [cc EXCEPT ![current] = Finished(cc[current])]
        /\ \/ msgRow' = NagsDropped
           \/ \E m \in RowIds : msgRow' = [NagsDropped EXCEPT ![m] = "pending"]
    BY <1>0, <1>6 DEF ForcesFinish, recoverLostTurn
  <2>2. \A f \in Conns : cc'[f].step = cc[f].step /\ cc'[f].at = cc[f].at
    BY <1>0, <1>t, <2>1 DEF Finished
  <2>3. \A n \in RowIds : msgRow'[n] = "delivered" => msgRow[n] = "delivered"
    BY <1>m, <2>1
  <2> QED  BY <1>k, <2>1, <2>2, <2>3
<1>7. ASSUME NEW e \in Conns, RegisterReads(e) \/ SocketBreaks(e) \/ HubNotices(e) PROVE WrittenInv'
  <2>1. UNCHANGED <<msgRow, written>>
    BY <1>7 DEF RegisterReads, SocketBreaks, HubNotices
  <2>2. \/ cc' = [cc EXCEPT ![e] = [cc[e] EXCEPT !.sock = "registering", !.mirror = paused]]
        \/ cc' = [cc EXCEPT ![e] = [cc[e] EXCEPT !.sock = "broken"]]
        \/ cc' = [cc EXCEPT ![e] = ClosedConn(cc[e])]
    BY <1>0, <1>7 DEF RegisterReads, SocketBreaks, HubNotices
  <2>3. \A f \in Conns : cc'[f].step = "written" => cc[f].step = "written" /\ cc'[f].at = cc[f].at
    <3>1. ASSUME NEW x \in {[cc[e] EXCEPT !.sock = "registering", !.mirror = paused],
                            [cc[e] EXCEPT !.sock = "broken"], ClosedConn(cc[e])}
          PROVE  x.step = "written" => cc[e].step = "written" /\ x.at = cc[e].at
      BY <1>t, <3>1 DEF ClosedConn, NoConn
    <3> QED  BY <1>x, <2>2, <3>1
  <2> QED  BY <1>k, <2>1, <2>3
<1>8. ASSUME NEW e \in Conns, RegisterPublishes(e) PROVE WrittenInv'
  <2>1. UNCHANGED <<msgRow, written>>
    BY <1>8 DEF RegisterPublishes
  <2>3. \A f \in Conns : cc'[f].step = "written" => cc[f].step = "written" /\ cc'[f].at = cc[f].at
    BY <1>0, <1>t, <1>8 DEF RegisterPublishes, ClosedConn, NoConn
  <2> QED  BY <1>k, <2>1, <2>3
<1>9. CASE HubRestart
  <2>1. UNCHANGED <<msgRow, written>> /\ \A f \in Conns : cc'[f].step = "idle"
    BY <1>9 DEF HubRestart, NoConn
  <2> QED  BY <1>k, <2>1
<1>10. ASSUME NEW e \in Conns, SettlesRows(e) \/ ReadsRow(e) \/ ReservesTurn(e) \/ WriteFails(e) \/ MarkFails(e)
       PROVE WrittenInv'
  <2>1. written' = written /\ (msgRow' = msgRow \/ msgRow' = SettleAll)
    BY <1>10 DEF SettlesRows, ReadsRow, ReservesTurn, WriteFails, MarkFails
  <2>2. \/ cc' = [cc EXCEPT ![e] = [cc[e] EXCEPT !.step = "idle", !.at = 0]]
        \/ \E m \in RowIds : cc' = [cc EXCEPT ![e] = [cc[e] EXCEPT !.step = "read", !.at = m]]
        \/ cc' = [cc EXCEPT ![e] = [cc[e] EXCEPT !.step = "reserved", !.busy = TRUE, !.turn = cc[e].at]]
        \/ cc' = [cc EXCEPT ![e] = [cc[e] EXCEPT !.busy = FALSE, !.turn = 0, !.step = "idle", !.at = 0]]
    BY <1>0, <1>10 DEF SettlesRows, ReadsRow, ReservesTurn, WriteFails, MarkFails, Aborted
  <2>3. \A f \in Conns : cc'[f].step = "written" => cc[f].step = "written" /\ cc'[f].at = cc[f].at
    <3>1. ASSUME NEW m, NEW x \in {[cc[e] EXCEPT !.step = "idle", !.at = 0], [cc[e] EXCEPT !.step = "read", !.at = m],
                     [cc[e] EXCEPT !.step = "reserved", !.busy = TRUE, !.turn = cc[e].at],
                     [cc[e] EXCEPT !.busy = FALSE, !.turn = 0, !.step = "idle", !.at = 0]}
          PROVE  x.step = "written" => cc[e].step = "written" /\ x.at = cc[e].at
      BY <1>t
    <3> QED  BY <1>x, <2>2, <3>1
  <2> QED  BY <1>k, <1>m, <2>1, <2>3
<1>11. ASSUME NEW e \in Conns, NEW m \in RowIds, WakesAgent(e, m) PROVE WrittenInv'
  <2>1. /\ written' = written /\ msgRow' = [msgRow EXCEPT ![m] = "wake"]
        /\ cc' = [cc EXCEPT ![e] = [cc[e] EXCEPT !.step = "reserved", !.at = m, !.busy = TRUE, !.turn = m]]
    BY <1>0, <1>11 DEF WakesAgent
  <2>3. \A f \in Conns : cc'[f].step = "written" => cc[f].step = "written" /\ cc'[f].at = cc[f].at
    BY <1>0, <1>t, <2>1
  <2> QED  BY <1>0, <1>k, <2>1, <2>3
<1>12. ASSUME NEW e \in Conns, HubReads(e) PROVE WrittenInv'
  <2>1. written' = written /\ (msgRow' = msgRow \/ msgRow' = NagsDropped)
    BY <1>12 DEF HubReads
  <2>2. \/ cc' = cc
        \/ current \in Conns /\ cc' = [cc EXCEPT ![current] = [cc[current] EXCEPT !.busy = TRUE]]
        \/ cc' = [cc EXCEPT ![e] = [cc[e] EXCEPT !.busy = FALSE, !.turn = 0]]
    BY <1>0, <1>12 DEF HubReads, Finished
  <2>3. \A f \in Conns : cc'[f].step = cc[f].step /\ cc'[f].at = cc[f].at
    <3>1. CASE cc' = cc
      BY <3>1
    <3>2. CASE current \in Conns /\ cc' = [cc EXCEPT ![current] = [cc[current] EXCEPT !.busy = TRUE]]
      BY <1>0, <1>t, <3>2
    <3>3. CASE cc' = [cc EXCEPT ![e] = [cc[e] EXCEPT !.busy = FALSE, !.turn = 0]]
      BY <1>0, <1>t, <3>3
    <3> QED  BY <2>2, <3>1, <3>2, <3>3
  <2> QED  BY <1>k, <1>m, <2>1, <2>3
<1> QED  BY <1>1, <1>2, <1>3, <1>4, <1>5, <1>6, <1>7, <1>8, <1>9, <1>10, <1>11, <1>12 DEF TurnNext, Delivers

\* Chunks and the reply at the end of a turn, as they are sent and read.
LEMMA TurnFrames ==
    ASSUME NEW s \in Seq(Frames), NEW m \in RowIds
    PROVE  /\ OnlyChunks(<<>>)
           /\ OnlyChunks(s) => OnlyChunks(Append(s, Chunk(m))) /\ EndsTurn(Append(s, Reply(m)), m)
           /\ OnlyChunks(s) /\ s # <<>> => Head(s).kind = "chunk" /\ OnlyChunks(Tail(s))
           /\ EndsTurn(s, m) /\ Head(s).kind = "chunk" => EndsTurn(Tail(s), m)
           /\ EndsTurn(s, m) /\ Head(s).kind # "chunk" => Tail(s) = <<>>
<1>0. Chunk(m) \in Frames /\ Reply(m) \in Frames /\ Chunk(m).kind = "chunk" /\ Reply(m).kind = "message"
  BY DEF Chunk, Reply, Frames
<1>q. \A q \in Seq(Frames) : Len(q) \in Nat /\ (q = <<>> <=> Len(q) = 0)
  BY EmptySeq, LenProperties
<1>l. Len(s) \in Nat /\ (s # <<>> => Len(s) > 0)
  BY <1>q
<1>1. OnlyChunks(<<>>)
  BY DEF OnlyChunks
<1>2. ASSUME OnlyChunks(s)
      PROVE  OnlyChunks(Append(s, Chunk(m))) /\ EndsTurn(Append(s, Reply(m)), m)
  BY <1>0, <1>l, <1>2, AppendProperties DEF OnlyChunks, EndsTurn
<1>3. ASSUME OnlyChunks(s), s # <<>>
      PROVE  Head(s).kind = "chunk" /\ OnlyChunks(Tail(s))
  BY <1>l, <1>3, HeadTailProperties DEF OnlyChunks
<1>4. ASSUME EndsTurn(s, m), Head(s).kind = "chunk"
      PROVE  EndsTurn(Tail(s), m)
  <2>1. /\ s # <<>> /\ Head(s) = s[1] /\ s[Len(s)].kind = "message"
        /\ Tail(s) \in Seq(Frames) /\ Len(Tail(s)) = Len(s) - 1
        /\ \A i \in 1 .. Len(Tail(s)) : Tail(s)[i] = s[i + 1]
    BY <1>0, <1>4, HeadTailProperties DEF EndsTurn
  <2>2. Len(s) # 1
    BY <1>4, <2>1
  <2>3. Len(Tail(s)) > 0 /\ Tail(s)[Len(Tail(s))] = s[Len(s)]
    BY <1>l, <2>1, <2>2
  <2>4. Tail(s) # <<>>
    <3>1. Tail(s) = <<>> <=> Len(Tail(s)) = 0
      BY <1>q, <2>1
    <3> QED  BY <2>3, <3>1
  <2>5. \A i \in 1 .. (Len(Tail(s)) - 1) : Tail(s)[i].kind = "chunk"
    BY <1>l, <1>4, <2>1 DEF EndsTurn
  <2> QED  BY <1>4, <2>3, <2>4, <2>5 DEF EndsTurn
<1>5. ASSUME EndsTurn(s, m), Head(s).kind # "chunk"
      PROVE  Tail(s) = <<>>
  <2>1. /\ s # <<>> /\ Head(s) = s[1] /\ Tail(s) \in Seq(Frames) /\ Len(Tail(s)) = Len(s) - 1
    BY <1>5, HeadTailProperties DEF EndsTurn
  <2>2. Len(s) = 1
    BY <1>l, <1>5, <2>1 DEF EndsTurn
  <2>3. Tail(s) = <<>> <=> Len(Tail(s)) = 0
    BY <1>q, <2>1
  <2> QED  BY <2>1, <2>2, <2>3
<1> QED  BY <1>1, <1>2, <1>3, <1>4, <1>5

\* While every turn belongs to its connection: nothing waits in the bridge's queue of
\* replies, only the bridge's connection is open, and its lane holds one turn.
PlacedTurns == TurnsConnected /\ Lanes

\* The facts about a lane the steps below share.
LEMMA LaneFacts ==
    ASSUME TurnTypeInv, PauseConn, PlacedTurns
    PROVE  /\ cc \in [Conns -> GoodConns] /\ current \in Conns \cup {0} /\ 0 \notin Conns
           /\ \A e \in Conns : /\ down[e] \in Seq(RowIds) /\ up[e] \in Seq(Frames)
                               /\ cc[e].sock # "open" => down[e] = <<>>
                               /\ cc[e].sock = "open" => OpenLane(e) /\ bridgeOn = e
                               /\ cc[e].sock \in {"absent", "registering"} => cc[e].step = "idle"
                               /\ cc[e].step # "idle" => cc[e].at \in RowIds
                               /\ cc[e].turn # 0 => cc[e].busy = TRUE /\ cc[e].turn \in RowIds
           /\ \A t \in turns : t.on \in Conns /\ t.id \in RowIds /\ bridgeOn = t.on /\ cc[t.on].sock = "open"
           /\ replies = <<>>
<1>1. \A e \in Conns : cc[e] \in GoodConns
  BY DEF TurnTypeInv, ConnsType
<1>2. \A e \in Conns : /\ cc[e].step # "idle" => cc[e].at \in RowIds
                       /\ cc[e].turn # 0 => cc[e].busy = TRUE /\ cc[e].turn \in RowIds
  BY <1>1 DEF GoodConns
<1> QED  BY <1>2 DEF TurnTypeInv, ConnsType, RowsType, QueuesType, PauseConn, ConnInv, PlacedTurns, Lanes,
                     Lane, TurnsConnected, Conns

\* A connection nothing of whose lane changes keeps it; so does one whose delivery
\* ends or moves on without a reservation, or that a chunk marks busy.
LEMMA LaneKept ==
    ASSUME NEW e \in Conns, Lane(e), turns' = turns, down'[e] = down[e], up'[e] = up[e],
           cc'[e].sock = cc[e].sock, cc'[e].turn = cc[e].turn,
           cc'[e].busy = cc[e].busy \/ cc'[e].busy = TRUE,
           cc'[e].step = "reserved" => cc[e].step = "reserved" /\ cc'[e].at = cc[e].at
    PROVE  Lane(e)'
<1>1. CASE cc[e].sock # "open"
  BY <1>1 DEF Lane
<1>2. CASE AtHub(e)
  <2>1. AtHub(e)'
    BY <1>2 DEF AtHub
  <2> QED  BY <2>1, <1>2 DEF Lane, OpenLane, AtHub
<1>3. CASE cc[e].step # "reserved" /\ cc[e].busy = TRUE /\ cc[e].turn # 0 /\ OnWire(e)
  BY <1>3 DEF Lane, OpenLane, OnWire
<1>4. CASE cc[e].step # "reserved" /\ cc[e].busy = TRUE /\ cc[e].turn # 0 /\ WithAgent(e)
  BY <1>4 DEF Lane, OpenLane, WithAgent
<1>5. CASE cc[e].step # "reserved" /\ cc[e].busy = TRUE /\ cc[e].turn # 0 /\ Answered(e)
  BY <1>5 DEF Lane, OpenLane, Answered
<1> QED  BY <1>1, <1>2, <1>3, <1>4, <1>5 DEF Lane, OpenLane

\* The steps on the hub that neither open nor end a turn.
LEMMA QuietLanes ==
    ASSUME TurnTypeInv, PauseConn, PlacedTurns,
           \/ ResumeRow \/ PauseRow \/ PauseMirror \/ TakeOver \/ ResumeMirror \/ maybeLiftBridgeErrorPause
           \/ \E m \in RowIds : InjectHubMessage(m) \/ sendStreamingNudge(m)
           \/ \E e \in Conns : SettlesRows(e) \/ ReadsRow(e) \/ MarksDelivered(e) \/ MarkFails(e)
    PROVE  PlacedTurns'
<1> USE DEF hubVars, bridgeVars, historyVars
<1>0. cc \in [Conns -> GoodConns] /\ current \in Conns \cup {0} /\ PlacedTurns
  BY LaneFacts
<1>t. \A e \in Conns : DOMAIN cc[e] = {"sock", "busy", "turn", "mirror", "step", "at"}
  BY <1>0 DEF GoodConns
<1>k. ASSUME UNCHANGED <<down, up, turns, bridgeOn, replies>>,
             \A e \in Conns : /\ cc'[e].sock = cc[e].sock /\ cc'[e].turn = cc[e].turn /\ cc'[e].busy = cc[e].busy
                              /\ cc'[e].step = "reserved" => cc[e].step = "reserved" /\ cc'[e].at = cc[e].at
      PROVE  PlacedTurns'
  <2>1. \A e \in Conns : Lane(e)'
    BY <1>0, <1>k, LaneKept DEF PlacedTurns, Lanes
  <2>2. TurnsConnected'
    BY <1>0, <1>k DEF PlacedTurns, TurnsConnected, TurnTypeInv, QueuesType
  <2> QED  BY <2>1, <2>2 DEF PlacedTurns, Lanes
<1>1. CASE \/ ResumeRow \/ PauseRow \/ TakeOver \/ \E m \in RowIds : InjectHubMessage(m) \/ sendStreamingNudge(m)
  <2>1. UNCHANGED <<down, up, turns, bridgeOn, replies, cc>>
    BY <1>1 DEF ResumeRow, PauseRow, TakeOver, InjectHubMessage, sendStreamingNudge
  <2> QED  BY <1>k, <2>1
<1>2. CASE PauseMirror \/ ResumeMirror \/ maybeLiftBridgeErrorPause
  <2>1. /\ UNCHANGED <<down, up, turns, bridgeOn, replies>>
        /\ cc' = cc \/ \E b : cc' = [cc EXCEPT ![current] = [cc[current] EXCEPT !.mirror = b]]
    BY <1>0, <1>2 DEF PauseMirror, ResumeMirror, maybeLiftBridgeErrorPause
  <2>2. \A e \in Conns : /\ cc'[e].sock = cc[e].sock /\ cc'[e].turn = cc[e].turn /\ cc'[e].busy = cc[e].busy
                         /\ cc'[e].step = "reserved" => cc[e].step = "reserved" /\ cc'[e].at = cc[e].at
    BY <1>0, <1>t, <2>1
  <2> QED  BY <1>k, <2>1, <2>2
<1>3. ASSUME NEW e \in Conns, SettlesRows(e) \/ ReadsRow(e) \/ MarksDelivered(e) \/ MarkFails(e)
      PROVE  PlacedTurns'
  <2>1. /\ UNCHANGED <<down, up, turns, bridgeOn, replies>>
        /\ \/ cc' = [cc EXCEPT ![e] = [cc[e] EXCEPT !.step = "idle", !.at = 0]]
           \/ \E m \in RowIds : cc' = [cc EXCEPT ![e] = [cc[e] EXCEPT !.step = "read", !.at = m]]
    BY <1>0, <1>3 DEF SettlesRows, ReadsRow, MarksDelivered, MarkFails
  <2>2. \A f \in Conns : /\ cc'[f].sock = cc[f].sock /\ cc'[f].turn = cc[f].turn /\ cc'[f].busy = cc[f].busy
                         /\ cc'[f].step = "reserved" => cc[f].step = "reserved" /\ cc'[f].at = cc[f].at
    <3>1. ASSUME NEW m, NEW x \in {[cc[e] EXCEPT !.step = "idle", !.at = 0], [cc[e] EXCEPT !.step = "read", !.at = m]}
          PROVE  x.sock = cc[e].sock /\ x.turn = cc[e].turn /\ x.busy = cc[e].busy /\ x.step # "reserved"
      BY <1>t
    <3>2. PICK x : cc' = [cc EXCEPT ![e] = x]
                   /\ x.sock = cc[e].sock /\ x.turn = cc[e].turn /\ x.busy = cc[e].busy /\ x.step # "reserved"
      BY <2>1, <3>1
    <3> QED  BY <1>0, <3>2
  <2> QED  BY <1>k, <2>1, <2>2
<1> QED  BY <1>1, <1>2, <1>3

\* A connection's coming and going: a lane opens and ends with nothing in it.
LEMMA ConnectionLanes ==
    ASSUME TurnTypeInv, PauseConn, PlacedTurns, carried' = FALSE,
           \/ HubRestart
           \/ \E e \in Conns : RegisterReads(e) \/ RegisterPublishes(e) \/ SocketBreaks(e) \/ HubNotices(e)
    PROVE  PlacedTurns'
<1> USE DEF hubVars, bridgeVars, historyVars
<1>0. /\ cc \in [Conns -> GoodConns] /\ current \in Conns \cup {0} /\ bridgeOn \in Conns \cup {0} /\ 0 \notin Conns
      /\ \A e \in Conns : cc[e].sock # "open" => down[e] = <<>>
      /\ \A e \in Conns : cc[e].sock = "open" => bridgeOn = e
      /\ \A t \in turns : bridgeOn = t.on /\ t.on \in Conns /\ cc[t.on].sock = "open"
      /\ down \in [Conns -> Seq(RowIds)] /\ up \in [Conns -> Seq(Frames)] /\ replies = <<>>
  BY LaneFacts DEF TurnTypeInv, QueuesType
<1>t. \A e \in Conns : DOMAIN cc[e] = {"sock", "busy", "turn", "mirror", "step", "at"}
  BY <1>0 DEF GoodConns
<1>1. CASE HubRestart
  <2>1. /\ \A e \in Conns : cc'[e].sock # "open" /\ down'[e] = <<>>
        /\ turns' = turns /\ turns = {} /\ replies' = replies
    BY <1>0, <1>1 DEF HubRestart, NoConn
  <2> QED  BY <1>0, <2>1 DEF PlacedTurns, Lanes, Lane, TurnsConnected
<1>2. ASSUME NEW e \in Conns, RegisterReads(e) PROVE PlacedTurns'
  <2>1. /\ UNCHANGED <<down, up, turns, replies>> /\ bridgeOn = 0 /\ cc[e].sock # "open"
        /\ cc' = [cc EXCEPT ![e] = [cc[e] EXCEPT !.sock = "registering", !.mirror = paused]]
    BY <1>0, <1>2 DEF RegisterReads
  <2>2. turns = {} /\ \A f \in Conns : cc'[f].sock # "open" /\ cc[f].sock # "open"
    BY <1>0, <1>t, <2>1
  <2> QED  BY <1>0, <2>1, <2>2 DEF PlacedTurns, Lanes, Lane, TurnsConnected
<1>3. ASSUME NEW e \in Conns, RegisterPublishes(e) PROVE PlacedTurns'
  <2>1. /\ cc[e].sock = "registering" /\ bridgeOn = e /\ UNCHANGED <<down, turns, bridgeOn>>
        /\ up' = [up EXCEPT ![e] = replies] /\ replies' = <<>>
        /\ cc' = [f \in Conns |-> IF f = e THEN [cc[e] EXCEPT !.sock = "open"]
                              ELSE IF cc[f].sock \in {"open", "broken"}
                                   THEN ClosedConn(cc[f]) ELSE cc[f]]
    BY <1>0, <1>3 DEF RegisterPublishes, PauseConn, ConnInv
  <2>2. turns = {} /\ \A f \in Conns : cc[f].sock # "open" /\ (f # e => cc'[f] = cc[f] \/ cc'[f] = ClosedConn(cc[f]))
    BY <1>0, <2>1
  <2>3. \A f \in Conns \ {e} : cc'[f].sock # "open" /\ down'[f] = <<>>
    BY <1>0, <1>t, <2>1, <2>2 DEF ClosedConn, NoConn
  <2>4. down'[e] = <<>> /\ up'[e] = <<>> /\ cc'[e].step = "idle" /\ turns' = {}
    BY <1>0, <1>t, <2>1, <2>2 DEF PauseConn, ConnInv
  <2>5. Lane(e)'
    BY <2>4 DEF Lane, OpenLane, AtHub, OnlyChunks
  <2> QED  BY <1>0, <2>1, <2>2, <2>3, <2>5 DEF PlacedTurns, Lanes, Lane, TurnsConnected
<1>4. ASSUME NEW e \in Conns, SocketBreaks(e) PROVE PlacedTurns'
  <2>1. /\ bridgeOn = e /\ UNCHANGED <<replies, turns>> /\ turns = {} /\ down' = [down EXCEPT ![e] = <<>>]
        /\ cc' = [cc EXCEPT ![e] = [cc[e] EXCEPT !.sock = "broken"]]
    BY <1>0, <1>4 DEF SocketBreaks
  <2>2. \A f \in Conns : cc'[f].sock # "open" /\ down'[f] = <<>>
    BY <1>0, <1>t, <2>1
  <2> QED  BY <1>0, <2>1, <2>2 DEF PlacedTurns, Lanes, Lane, TurnsConnected
<1>5. ASSUME NEW e \in Conns, HubNotices(e) PROVE PlacedTurns'
  <2>1. /\ cc[e].sock # "open" /\ UNCHANGED <<replies, turns, down, up, bridgeOn>>
        /\ cc' = [cc EXCEPT ![e] = ClosedConn(cc[e])]
    BY <1>5 DEF HubNotices
  <2>2. cc'[e].sock # "open"
    BY <1>0, <1>t, <2>1 DEF ClosedConn, NoConn
  <2>3. \A f \in Conns \ {e} : Lane(f)'
    <3> SUFFICES ASSUME NEW f \in Conns \ {e} PROVE Lane(f)'
      OBVIOUS
    <3>1. cc'[f] = cc[f] /\ Lane(f)
      BY <1>0, <2>1 DEF PlacedTurns, Lanes
    <3> QED  BY <2>1, <3>1, LaneKept
  <2>4. Lane(e)'
    BY <1>0, <2>1, <2>2 DEF Lane
  <2>5. TurnsConnected'
    BY <1>0, <2>1 DEF TurnsConnected
  <2> QED  BY <2>3, <2>4, <2>5 DEF PlacedTurns, Lanes
<1> QED  BY <1>1, <1>2, <1>3, <1>4, <1>5

\* A turn opens on a lane with nothing in it, its frame is the only one on it, and a
\* write fails on a lane that is gone.
LEMMA DeliveryLanes ==
    ASSUME TurnTypeInv, PauseConn, PlacedTurns, NEW e \in Conns,
           \/ ReservesTurn(e) \/ WritesFrame(e) \/ WriteFails(e) \/ \E m \in RowIds : WakesAgent(e, m)
    PROVE  PlacedTurns'
<1> USE DEF hubVars, bridgeVars, historyVars
<1>0. /\ cc \in [Conns -> GoodConns] /\ down \in [Conns -> Seq(RowIds)]
      /\ \A f \in Conns : Lane(f) /\ (cc[f].sock # "open" => down[f] = <<>>)
      /\ \A f \in Conns : cc[f].sock = "open" => OpenLane(f)
      /\ cc[e].step # "idle" => cc[e].at \in RowIds
      /\ TurnsConnected /\ \A t \in turns : t.on \in Conns
  BY LaneFacts DEF TurnTypeInv, QueuesType, PlacedTurns, Lanes
<1>t. \A f \in Conns : DOMAIN cc[f] = {"sock", "busy", "turn", "mirror", "step", "at"}
  BY <1>0 DEF GoodConns
<1>k. ASSUME UNCHANGED <<up, turns, bridgeOn, replies>>, NEW x, cc' = [cc EXCEPT ![e] = x], x.sock = cc[e].sock,
             \A f \in Conns \ {e} : down'[f] = down[f], Lane(e)'
      PROVE  PlacedTurns'
  <2>1. ASSUME NEW f \in Conns \ {e} PROVE Lane(f)'
    <3>1. cc'[f] = cc[f]
      BY <1>0, <1>k
    <3> QED  BY <1>0, <1>k, <3>1, LaneKept
  <2>2. TurnsConnected'
    BY <1>0, <1>k DEF TurnsConnected
  <2> QED  BY <1>k, <2>1, <2>2 DEF PlacedTurns, Lanes
\* a turn is reserved while none is open
<1>r. ASSUME UNCHANGED <<down, up, turns, bridgeOn, replies>>, cc[e].busy = FALSE, NEW m \in RowIds,
             cc' = [cc EXCEPT ![e] = [cc[e] EXCEPT !.step = "reserved", !.at = m, !.busy = TRUE, !.turn = m]]
      PROVE  PlacedTurns'
  <2> DEFINE x == [cc[e] EXCEPT !.step = "reserved", !.at = m, !.busy = TRUE, !.turn = m]
  <2>1. x.sock = cc[e].sock /\ x.busy = TRUE /\ x.turn = x.at
    BY <1>t
  <2>2. cc' = [cc EXCEPT ![e] = x] /\ cc'[e] = x
    BY <1>0, <1>r
  <2> HIDE DEF x
  <2>3. cc[e].sock = "open" => AtHub(e)'
    BY <1>0, <1>r, <2>1, <2>2 DEF OpenLane, AtHub
  <2>4. Lane(e)'
    BY <1>0, <1>r, <2>1, <2>2, <2>3 DEF Lane, OpenLane
  <2> QED  BY <1>k, <1>r, <2>1, <2>2, <2>4
<1>1. ASSUME ReservesTurn(e) PROVE PlacedTurns'
  <2>1. CASE cc[e].busy \/ cc[e].mirror
    <3> DEFINE x == [cc[e] EXCEPT !.step = "idle", !.at = 0]
    <3>1. cc' = [cc EXCEPT ![e] = x] /\ UNCHANGED <<down, up, turns, bridgeOn, replies>>
      BY <1>0, <1>1, <2>1 DEF ReservesTurn
    <3>2. /\ x.sock = cc[e].sock /\ x.turn = cc[e].turn /\ x.busy = cc[e].busy /\ x.step # "reserved"
      BY <1>t
    <3>3. cc'[e] = x
      BY <1>0, <3>1
    <3> HIDE DEF x
    <3>4. Lane(e)'
      BY <1>0, <3>1, <3>2, <3>3, LaneKept
    <3> QED  BY <1>k, <3>1, <3>2, <3>4
  <2>2. CASE ~(cc[e].busy \/ cc[e].mirror)
    <3>1. /\ cc' = [cc EXCEPT ![e] = [cc[e] EXCEPT !.step = "reserved", !.busy = TRUE, !.turn = cc[e].at]]
          /\ UNCHANGED <<down, up, turns, bridgeOn, replies>> /\ cc[e].at \in RowIds
      BY <1>0, <1>1, <2>2 DEF ReservesTurn
    <3>2. cc[e].busy = FALSE
      BY <1>0, <2>2 DEF GoodConns
    <3>3. [cc[e] EXCEPT !.step = "reserved", !.busy = TRUE, !.turn = cc[e].at]
            = [cc[e] EXCEPT !.step = "reserved", !.at = cc[e].at, !.busy = TRUE, !.turn = cc[e].at]
      BY <1>0 DEF GoodConns
    <3> QED  BY <1>r, <3>1, <3>2, <3>3
  <2> QED  BY <2>1, <2>2
<1>2. ASSUME NEW m \in RowIds, WakesAgent(e, m) PROVE PlacedTurns'
  <2>1. /\ cc' = [cc EXCEPT ![e] = [cc[e] EXCEPT !.step = "reserved", !.at = m, !.busy = TRUE, !.turn = m]]
        /\ UNCHANGED <<down, up, turns, bridgeOn, replies>>
    BY <1>0, <1>2 DEF WakesAgent
  <2>2. cc[e].busy = FALSE
    BY <1>0, <1>2 DEF WakesAgent, GoodConns
  <2> QED  BY <1>r, <2>1, <2>2
<1>3. ASSUME WritesFrame(e) PROVE PlacedTurns'
  <2>1. /\ cc[e].step = "reserved" /\ cc[e].at \in RowIds /\ UNCHANGED <<up, turns, bridgeOn, replies>>
        /\ down' = IF cc[e].sock = "open" THEN [down EXCEPT ![e] = Append(down[e], cc[e].at)] ELSE down
    BY <1>0, <1>3 DEF WritesFrame
  <2>2. PICK x \in {[cc[e] EXCEPT !.step = "idle", !.at = 0], [cc[e] EXCEPT !.step = "written"]} :
             cc' = [cc EXCEPT ![e] = x]
    BY <1>0, <1>3 DEF WritesFrame
  <2>3. x.sock = cc[e].sock /\ x.turn = cc[e].turn /\ x.busy = cc[e].busy /\ x.step # "reserved"
    BY <1>t
  <2>4. cc'[e] = x
    BY <1>0, <2>2
  <2>5. Lane(e)'
    <3>1. CASE cc[e].sock = "open"
      <4>1. AtHub(e)
        BY <1>0, <2>1, <3>1 DEF OpenLane
      <4>2. cc[e].busy = TRUE /\ cc[e].turn = cc[e].at /\ cc[e].at # 0 /\ down[e] = <<>>
        BY <2>1, <4>1 DEF AtHub, RowIds
      <4>3. down'[e] = <<cc[e].at>>
        <5>1. down'[e] = Append(<<>>, cc[e].at)
          BY <1>0, <2>1, <3>1, <4>2
        <5> QED  BY <5>1
      <4>4. OnWire(e)'
        BY <2>1, <2>3, <2>4, <4>1, <4>2, <4>3 DEF OnWire, AtHub
      <4> QED  BY <2>3, <2>4, <3>1, <4>2, <4>4 DEF Lane, OpenLane
    <3>2. CASE cc[e].sock # "open"
      BY <1>0, <2>1, <2>3, <2>4, <3>2 DEF Lane
    <3> QED  BY <3>1, <3>2
  <2>6. \A f \in Conns \ {e} : down'[f] = down[f]
    BY <1>0, <2>1
  <2> QED  BY <1>k, <2>1, <2>2, <2>3, <2>5, <2>6
<1>4. ASSUME WriteFails(e) PROVE PlacedTurns'
  <2>1. /\ cc[e].sock # "open" /\ UNCHANGED <<down, up, turns, bridgeOn, replies>>
        /\ cc' = [cc EXCEPT ![e] = Aborted(cc[e])]
    BY <1>0, <1>4 DEF WriteFails
  <2>2. Aborted(cc[e]).sock = cc[e].sock
    BY <1>t DEF Aborted
  <2>3. Lane(e)'
    BY <1>0, <2>1, <2>2 DEF Lane
  <2> QED  BY <1>k, <2>1, <2>2, <2>3
<1> QED  BY <1>1, <1>2, <1>3, <1>4

\* The bridge takes the only frame of its lane, runs the only turn, and answers it.
LEMMA BridgeLanes ==
    ASSUME TurnTypeInv, PauseConn, PlacedTurns,
           \/ \E e \in Conns : BridgeReads(e)
           \/ \E t \in turns : TurnStarts(t) \/ Streams(t) \/ TurnReplies(t)
    PROVE  PlacedTurns'
<1> USE DEF hubVars, bridgeVars, historyVars
<1>0. /\ cc \in [Conns -> GoodConns] /\ down \in [Conns -> Seq(RowIds)] /\ up \in [Conns -> Seq(Frames)]
      /\ \A f \in Conns : Lane(f) /\ (cc[f].sock = "open" => OpenLane(f) /\ bridgeOn = f)
      /\ \A f \in Conns : cc[f].turn # 0 => cc[f].turn \in RowIds
      /\ turns \subseteq [id : RowIds, on : Conns, running : BOOLEAN]
      /\ \A t \in turns : t.on \in Conns /\ t.id \in RowIds /\ bridgeOn = t.on /\ cc[t.on].sock = "open"
      /\ replies = <<>>
  BY LaneFacts DEF TurnTypeInv, QueuesType, PlacedTurns, Lanes
\* only the bridge's connection has a lane that matters
<1>k. ASSUME UNCHANGED <<cc, bridgeOn, replies>>, NEW e \in Conns, cc[e].sock = "open", OpenLane(e)',
             \A f \in Conns \ {e} : down'[f] = down[f],
             \A t \in turns' : t.on = e
      PROVE  PlacedTurns'
  <2>1. \A f \in Conns \ {e} : Lane(f)'
    BY <1>0, <1>k DEF Lane
  <2>2. Lane(e)'
    BY <1>k DEF Lane
  <2>3. TurnsConnected'
    BY <1>0, <1>k DEF TurnsConnected
  <2> QED  BY <2>1, <2>2, <2>3 DEF PlacedTurns, Lanes
<1>1. ASSUME NEW e \in Conns, BridgeReads(e) PROVE PlacedTurns'
  <2> DEFINE m == Head(down[e])
  <2>1. /\ UNCHANGED <<cc, bridgeOn, replies, up>> /\ cc[e].sock = "open" /\ bridgeOn = e /\ down[e] # <<>>
        /\ down' = [down EXCEPT ![e] = Tail(down[e])]
        /\ turns' = turns \/ turns' = turns \cup {[id |-> m, on |-> e, running |-> FALSE]}
    BY <1>1 DEF BridgeReads
  <2>2. /\ cc[e].step # "reserved" /\ cc[e].busy = TRUE /\ cc[e].turn # 0 /\ OnWire(e)
    BY <1>0, <2>1 DEF OpenLane, AtHub, WithAgent, Answered
  <2>3. down[e] = <<cc[e].turn>> /\ OnlyChunks(up[e]) /\ turns = {} /\ m = cc[e].turn
    BY <1>0, <2>1, <2>2 DEF OnWire
  <2>4. down'[e] = <<>>
    <3>1. Tail(down[e]) = <<>>
      BY <2>3
    <3> QED  BY <1>0, <2>1, <3>1
  <2>5. CASE turns' = turns
    <3>1. AtHub(e)'
      BY <2>1, <2>2, <2>3, <2>4, <2>5 DEF AtHub
    <3> QED  BY <1>0, <1>k, <2>1, <2>3, <2>5, <3>1 DEF OpenLane
  <2>6. CASE turns' = turns \cup {[id |-> m, on |-> e, running |-> FALSE]}
    <3> DEFINE v == [id |-> m, on |-> e, running |-> FALSE]
    <3>1. turns' = {v} /\ v.on = e /\ v.id = cc[e].turn
      BY <2>3, <2>6
    <3> HIDE DEF v
    <3>2. WithAgent(e)'
      BY <2>1, <2>3, <2>4, <3>1 DEF WithAgent
    <3> QED  BY <1>0, <1>k, <2>1, <2>2, <3>1, <3>2 DEF OpenLane
  <2> QED  BY <2>1, <2>5, <2>6
<1>2. ASSUME NEW t \in turns, TurnStarts(t) \/ Streams(t) \/ TurnReplies(t) PROVE PlacedTurns'
  <2> DEFINE e == t.on
  <2>1. e \in Conns /\ cc[e].sock = "open" /\ bridgeOn = e /\ UNCHANGED <<cc, bridgeOn, down>>
    BY <1>0, <1>2 DEF TurnStarts, Streams, TurnReplies
  <2>2. cc[e].step # "reserved" /\ cc[e].busy = TRUE /\ cc[e].turn # 0 /\ WithAgent(e)
    BY <1>0, <2>1 DEF OpenLane, AtHub, OnWire, Answered
  <2>3. turns = {t} /\ t.id = cc[e].turn /\ down[e] = <<>> /\ OnlyChunks(up[e])
    BY <2>2 DEF WithAgent
  <2>4. cc[e].turn \in RowIds /\ up[e] \in Seq(Frames)
    BY <1>0, <2>1, <2>2
  <2>5. CASE TurnStarts(t)
    <3> DEFINE v == [t EXCEPT !.running = TRUE]
    <3>1. turns' = {v} /\ v.on = e /\ v.id = cc[e].turn /\ UNCHANGED <<replies, up>>
      BY <1>0, <2>3, <2>5 DEF TurnStarts
    <3> HIDE DEF v
    <3>2. WithAgent(e)'
      BY <2>1, <2>3, <3>1 DEF WithAgent
    <3> QED  BY <1>0, <1>k, <2>1, <2>2, <3>1, <3>2 DEF OpenLane
  <2>6. CASE Streams(t)
    <3>1. /\ up' = [up EXCEPT ![e] = Append(up[e], Chunk(t.id))] /\ UNCHANGED <<replies, turns>>
      BY <2>6 DEF Streams
    <3>2. OnlyChunks(up'[e])
      BY <1>0, <2>1, <2>3, <2>4, <3>1, TurnFrames
    <3>3. WithAgent(e)'
      BY <2>1, <2>3, <3>1, <3>2 DEF WithAgent
    <3> QED  BY <1>0, <1>k, <2>1, <2>2, <2>3, <3>1, <3>3 DEF OpenLane
  <2>7. CASE TurnReplies(t)
    <3>1. /\ up' = [up EXCEPT ![e] = Append(up[e], Reply(t.id))] /\ replies' = replies /\ turns' = {}
      BY <2>1, <2>3, <2>7 DEF TurnReplies
    <3>2. EndsTurn(up'[e], cc[e].turn)
      BY <1>0, <2>1, <2>3, <2>4, <3>1, TurnFrames
    <3>3. Answered(e)'
      BY <2>1, <2>3, <3>1, <3>2 DEF Answered
    <3> QED  BY <1>0, <1>k, <2>1, <2>2, <3>1, <3>3 DEF OpenLane
  <2> QED  BY <1>2, <2>5, <2>6, <2>7
<1> QED  BY <1>1, <1>2

\* The hub reads a chunk of the turn, or the reply that ends it.
LEMMA HubReadsLanes ==
    ASSUME TurnTypeInv, PauseConn, PlacedTurns, NEW e \in Conns, HubReads(e), carried' = FALSE
    PROVE  PlacedTurns'
<1> USE DEF hubVars, bridgeVars, historyVars
<1>0. /\ cc \in [Conns -> GoodConns] /\ up \in [Conns -> Seq(Frames)] /\ current \in Conns \cup {0}
      /\ \A f \in Conns : Lane(f) /\ (cc[f].sock = "open" => OpenLane(f))
      /\ \A f \in Conns : cc[f].turn # 0 => cc[f].turn \in RowIds
      /\ TurnsConnected /\ \A t \in turns : t.on \in Conns
  BY LaneFacts DEF TurnTypeInv, QueuesType, PlacedTurns, Lanes
<1>t. \A f \in Conns : DOMAIN cc[f] = {"sock", "busy", "turn", "mirror", "step", "at"}
  BY <1>0 DEF GoodConns
<1>m. 1 \in RowIds
  BY TurnAssumption DEF RowIds
<1>1. /\ up[e] # <<>> /\ up' = [up EXCEPT ![e] = Tail(up[e])] /\ up'[e] = Tail(up[e])
      /\ UNCHANGED <<down, turns, bridgeOn, replies>>
  BY <1>0 DEF HubReads
<1>k. ASSUME Lane(e)', \A f \in Conns \ {e} : /\ cc'[f].sock = cc[f].sock /\ cc'[f].turn = cc[f].turn
                                              /\ cc'[f].busy = cc[f].busy \/ cc'[f].busy = TRUE
                                              /\ cc'[f].step = cc[f].step /\ cc'[f].at = cc[f].at,
             cc'[e].sock = cc[e].sock
      PROVE  PlacedTurns'
  <2>1. ASSUME NEW f \in Conns \ {e} PROVE Lane(f)'
    <3>1. up'[f] = up[f]
      BY <1>0, <1>1
    <3> QED  BY <1>0, <1>1, <1>k, <3>1, LaneKept
  <2>2. \A f \in Conns : cc'[f].sock = cc[f].sock
    BY <1>k
  <2>3. TurnsConnected'
    BY <1>0, <1>1, <2>2 DEF TurnsConnected
  <2> QED  BY <1>k, <2>1, <2>3 DEF PlacedTurns, Lanes
<1>c. \A f \in Conns : Finished(cc[f]).sock = cc[f].sock /\ Finished(cc[f]).step = cc[f].step
  BY <1>t DEF Finished
<1>2. CASE Head(up[e]).kind = "chunk"
  <2>1. cc' = cc \/ (current \in Conns /\ cc' = [cc EXCEPT ![current] = [cc[current] EXCEPT !.busy = TRUE]])
    BY <1>0, <1>2 DEF HubReads
  <2>2. \A f \in Conns : /\ cc'[f].sock = cc[f].sock /\ cc'[f].turn = cc[f].turn
                         /\ cc'[f].busy = cc[f].busy \/ cc'[f].busy = TRUE
                         /\ cc'[f].step = cc[f].step /\ cc'[f].at = cc[f].at
    <3>1. CASE cc' = cc
      BY <3>1
    <3>2. CASE current \in Conns /\ cc' = [cc EXCEPT ![current] = [cc[current] EXCEPT !.busy = TRUE]]
      BY <1>0, <1>t, <3>2
    <3> QED  BY <2>1, <3>1, <3>2
  <2>3. CASE cc[e].sock # "open"
    BY <1>0, <1>1, <1>k, <2>2, <2>3 DEF Lane
  <2>4. CASE cc[e].sock = "open" /\ AtHub(e)
    <3>1. OnlyChunks(up'[e])
      BY <1>0, <1>m, <1>1, <2>4, TurnFrames DEF AtHub
    <3>2. AtHub(e)'
      BY <1>1, <2>2, <2>4, <3>1 DEF AtHub
    <3> QED  BY <1>k, <2>2, <2>4, <3>2 DEF Lane, OpenLane
  <2>5. CASE /\ cc[e].sock = "open" /\ cc[e].step # "reserved" /\ cc[e].busy = TRUE /\ cc[e].turn # 0
             /\ OnWire(e) \/ WithAgent(e)
    <3>1. OnlyChunks(up'[e])
      BY <1>0, <1>1, <2>5, TurnFrames DEF OnWire, WithAgent
    <3>2. OnWire(e)' \/ WithAgent(e)'
      <4>1. CASE OnWire(e)
        BY <1>1, <2>2, <3>1, <4>1 DEF OnWire
      <4>2. CASE WithAgent(e)
        BY <1>1, <2>2, <3>1, <4>2 DEF WithAgent
      <4> QED  BY <2>5, <4>1, <4>2
    <3> QED  BY <1>k, <2>2, <2>5, <3>2 DEF Lane, OpenLane
  <2>6. CASE /\ cc[e].sock = "open" /\ cc[e].step # "reserved" /\ cc[e].busy = TRUE /\ cc[e].turn # 0
             /\ Answered(e)
    <3>1. EndsTurn(up'[e], cc[e].turn)
      BY <1>0, <1>1, <1>2, <2>6, TurnFrames DEF Answered
    <3>2. Answered(e)'
      BY <1>1, <2>2, <2>6, <3>1 DEF Answered
    <3> QED  BY <1>k, <2>2, <2>6, <3>2 DEF Lane, OpenLane
  <2> QED  BY <1>0, <2>3, <2>4, <2>5, <2>6 DEF OpenLane
<1>3. CASE Head(up[e]).kind # "chunk"
  <2>1. /\ cc' = [cc EXCEPT ![e] = Finished(cc[e])]
        /\ cc[e].sock = "open" => cc[e].turn = Head(up[e]).id
    BY <1>0, <1>3 DEF HubReads
  <2>2. cc'[e] = Finished(cc[e]) /\ \A f \in Conns \ {e} : cc'[f] = cc[f]
    BY <1>0, <2>1
  <2>3. CASE cc[e].sock # "open"
    BY <1>0, <1>1, <1>c, <1>k, <2>2, <2>3 DEF Lane
  <2>4. CASE cc[e].sock = "open"
    <3>1. ~OnlyChunks(up[e])
      BY <1>0, <1>m, <1>1, <1>3, TurnFrames
    <3>2. cc[e].step # "reserved" /\ Answered(e) /\ cc[e].turn # 0
      BY <1>0, <2>4, <3>1 DEF OpenLane, AtHub, OnWire, WithAgent
    <3>3. up'[e] = <<>>
      BY <1>0, <1>1, <1>3, <3>2, TurnFrames DEF Answered
    <3>4. OnlyChunks(up'[e])
      BY <3>3 DEF OnlyChunks
    <3>5. AtHub(e)'
      BY <1>1, <1>c, <2>2, <3>2, <3>3, <3>4 DEF AtHub, Answered
    <3> QED  BY <1>c, <1>k, <2>2, <2>4, <3>5 DEF Lane, OpenLane
  <2> QED  BY <2>3, <2>4
<1> QED  BY <1>2, <1>3

\* No step puts a second turn on a lane.
LEMMA LaneStep ==
    ASSUME TurnTypeInv, PauseConn, PlaceOfTurn, TurnNext
    PROVE  PlaceOfTurn'
<1> SUFFICES ASSUME carried' = FALSE PROVE PlacedTurns'
  BY DEF PlaceOfTurn, PlacedTurns
<1>1. carried = FALSE
  <2>0. carried \in BOOLEAN
    BY DEF TurnTypeInv, RowsType
  <2> USE DEF hubVars, bridgeVars, historyVars
  <2>1. CASE \/ ResumeRow \/ PauseRow \/ PauseMirror \/ TakeOver \/ HubRestart \/ BridgeRestarts
             \/ ForcesFinish \/ ResumeMirror \/ maybeLiftBridgeErrorPause
             \/ \E m \in RowIds : InjectHubMessage(m) \/ sendStreamingNudge(m) \/ recoverLostTurn(m)
             \/ \E t \in turns : TurnStarts(t) \/ Streams(t) \/ TurnReplies(t)
    BY <2>0, <2>1 DEF ResumeRow, PauseRow, PauseMirror, TakeOver, HubRestart, BridgeRestarts, ForcesFinish,
       ResumeMirror, maybeLiftBridgeErrorPause, InjectHubMessage, sendStreamingNudge, recoverLostTurn,
       TurnStarts, Streams, TurnReplies
  <2>2. ASSUME NEW e \in Conns, \/ RegisterReads(e) \/ RegisterPublishes(e) \/ SocketBreaks(e)
                                \/ HubNotices(e) \/ SettlesRows(e) \/ Delivers(e) \/ MarkFails(e)
                                \/ BridgeReads(e) \/ HubReads(e) \/ \E m \in RowIds : WakesAgent(e, m)
        PROVE  carried = FALSE
    BY <2>0, <2>2 DEF RegisterReads, RegisterPublishes, SocketBreaks, HubNotices, SettlesRows, Delivers, MarkFails,
       BridgeReads, HubReads, WakesAgent, ReadsRow, ReservesTurn, WritesFrame, WriteFails, MarksDelivered
  <2> QED  BY <2>1, <2>2 DEF TurnNext
<1>2. PlacedTurns
  BY <1>1 DEF PlaceOfTurn, PlacedTurns
<1>3. ~BridgeRestarts /\ ~ForcesFinish /\ \A m \in RowIds : ~recoverLostTurn(m)
  BY DEF BridgeRestarts, ForcesFinish, recoverLostTurn
<1>4. CASE \/ ResumeRow \/ PauseRow \/ PauseMirror \/ TakeOver \/ ResumeMirror \/ maybeLiftBridgeErrorPause
           \/ \E m \in RowIds : InjectHubMessage(m) \/ sendStreamingNudge(m)
           \/ \E e \in Conns : SettlesRows(e) \/ ReadsRow(e) \/ MarksDelivered(e) \/ MarkFails(e)
  BY <1>2, <1>4, QuietLanes
<1>5. CASE \/ HubRestart
           \/ \E e \in Conns : RegisterReads(e) \/ RegisterPublishes(e) \/ SocketBreaks(e) \/ HubNotices(e)
  BY <1>2, <1>5, ConnectionLanes
<1>6. CASE \E e \in Conns : \/ ReservesTurn(e) \/ WritesFrame(e) \/ WriteFails(e) \/ \E m \in RowIds : WakesAgent(e, m)
  BY <1>2, <1>6, DeliveryLanes
<1>7. CASE \/ \E e \in Conns : BridgeReads(e)
           \/ \E t \in turns : TurnStarts(t) \/ Streams(t) \/ TurnReplies(t)
  BY <1>2, <1>7, BridgeLanes
<1>8. CASE \E e \in Conns : HubReads(e)
  BY <1>2, <1>8, HubReadsLanes
<1> QED  BY <1>3, <1>4, <1>5, <1>6, <1>7, <1>8 DEF TurnNext, Delivers

\* At the start nothing is queued, connected or in flight.
LEMMA TurnInitInv == TurnInit => TurnInv
<1> SUFFICES ASSUME TurnInit PROVE TurnInv
  OBVIOUS
<1> USE TurnAssumption DEF TurnInit
<1>0. \A S : <<>> \in Seq(S)
  BY EmptySeq
<1>1. cc \in [Conns -> GoodConns]
  BY DEF NoConn, GoodConns
<1>2. TurnTypeInv
  <2>1. QueuesType
    BY <1>0 DEF QueuesType
  <2>2. RowsType
    <3>1. recoveries \in 0 .. LostTurnMax
      OBVIOUS
    <3>2. /\ msgRow \in [RowIds -> {"none", "nag", "pending", "delivered", "wake", "settled"}]
          /\ ran \in [RowIds -> Nat]
      OBVIOUS
    <3>3. current = 0 /\ mu = "free" /\ paused = FALSE /\ owned = FALSE /\ written = {} /\ carried = FALSE
      OBVIOUS
    <3> HIDE DEF TurnInit
    <3> QED  BY <3>1, <3>2, <3>3 DEF RowsType
  <2> QED  BY <1>1, <2>1, <2>2 DEF TurnTypeInv, ConnsType
<1>3. PauseConn
  BY DEF PauseConn, ConnInv, PauseInv, PauseMirrored, NoConn
<1>4. SeenInv /\ WrittenInv
  BY DEF SeenInv, WrittenInv, NoConn
<1>5. PlaceOfTurn
  BY DEF PlaceOfTurn, TurnsConnected, Lanes, Lane, NoConn
<1> QED  BY <1>2, <1>3, <1>4, <1>5 DEF TurnInv, PauseConn

\* Every step of the hub, the bridge and the agent keeps the invariant.
LEMMA TurnInvStep == TurnInv /\ [TurnNext]_turnVars => TurnInv'
<1> SUFFICES ASSUME TurnInv, [TurnNext]_turnVars PROVE TurnInv'
  OBVIOUS
<1>1. CASE TurnNext
  <2>1. TurnTypeInv /\ PauseConn /\ SeenInv /\ WrittenInv /\ PlaceOfTurn
    BY DEF TurnInv, PauseConn
  <2>2. TurnTypeInv'
    BY <1>1, <2>1, ConnsStep, QueuesStep, RowsStep DEF TurnTypeInv
  <2>3. PauseConn' /\ SeenInv' /\ WrittenInv' /\ PlaceOfTurn'
    BY <1>1, <2>1, <2>2, PauseStep, SeenStep, WrittenStep, LaneStep
  <2> QED  BY <2>2, <2>3 DEF TurnInv, PauseConn
<1>2. CASE UNCHANGED turnVars
  <2> USE <1>2 DEF turnVars
  <2>1. TurnTypeInv'
    BY DEF TurnInv, TurnTypeInv, ConnsType, QueuesType, RowsType
  <2>2. ConnInv' /\ PauseInv' /\ PauseMirrored'
    BY DEF TurnInv, ConnInv, PauseInv, PauseMirrored
  <2>3. SeenInv' /\ WrittenInv'
    BY DEF TurnInv, SeenInv, WrittenInv
  <2>4. PlaceOfTurn'
    BY DEF TurnInv, PlaceOfTurn, TurnsConnected, Lanes, Lane, OpenLane, AtHub, OnWire, WithAgent, Answered
  <2> QED  BY <2>1, <2>2, <2>3, <2>4 DEF TurnInv
<1> QED  BY <1>1, <1>2

\* At most the open turn's input is on the wire or with the agent of a connection.
LEMMA OneOutstanding == TurnInv => OneTurnAtATime
<1> SUFFICES ASSUME TurnInv, carried = FALSE, NEW e \in Conns
             PROVE  Cardinality(Outstanding(e)) <= 1
  BY DEF OneTurnAtATime, TurnInv, TurnTypeInv, RowsType
<1>1. PlacedTurns /\ TurnTypeInv /\ PauseConn
  BY DEF TurnInv, PlaceOfTurn, PlacedTurns, PauseConn
<1>2. Outstanding(e) \subseteq {cc[e].turn}
  <2>0. /\ cc[e].sock # "open" => down[e] = <<>> /\ \A t \in turns : t.on # e
        /\ cc[e].sock = "open" => OpenLane(e)
    BY <1>1, LaneFacts
  <2>1. CASE down[e] = <<>> /\ \A t \in turns : t.on # e
    BY <2>1 DEF Outstanding
  <2>2. CASE down[e] = <<cc[e].turn>> /\ \A t \in turns : t.on # e
    BY <2>2 DEF Outstanding
  <2>3. CASE down[e] = <<>> /\ \E t \in turns : turns = {t} /\ t.on = e /\ t.id = cc[e].turn
    BY <2>3 DEF Outstanding
  <2> QED  BY <2>0, <2>1, <2>2, <2>3 DEF OpenLane, AtHub, OnWire, WithAgent, Answered
<1>3. Outstanding(e) = {} \/ Outstanding(e) = {cc[e].turn}
  BY <1>2
<1>4. Cardinality({}) = 0 /\ Cardinality({cc[e].turn}) = 1
  BY FS_EmptySet, FS_Singleton
<1> QED  BY <1>3, <1>4

\* The message queue, the connections and the turns have the values the code writes.
THEOREM TurnTypes == TurnSpec => []TurnTypeOK
<1>1. TurnInv => TurnTypeOK
  BY DEF TurnInv, TurnTypeInv, ConnsType, QueuesType, RowsType, GoodConns, TurnTypeOK
<1> QED  BY <1>1, TurnInitInv, TurnInvStep, PTL DEF TurnSpec

\* A pause is mirrored: a connection the hub sends on says paused exactly when the row
\* of its claw does, through reconnects and late registrations (queue_processor.go).
THEOREM PauseFollowsTheRow == TurnSpec => []PauseMirrored
<1>1. TurnInv => PauseMirrored
  BY DEF TurnInv
<1> QED  BY <1>1, TurnInitInv, TurnInvStep, PTL DEF TurnSpec

\* A row marked delivered was written to a bridge, the agent runs a message once,
\* and one message is outstanding at a time, through reconnects, retries and crashes.
THEOREM MessagesDeliveredOnce == TurnSpec => []DeliveredOnce
<1>1. TurnInv => DeliveredOnce
  BY OneOutstanding DEF TurnInv, SeenInv, WrittenInv, DeliveredOnce, DeliveredWasWritten, RunsOnce
<1> QED  BY <1>1, TurnInitInv, TurnInvStep, PTL DEF TurnSpec

--------------------------------------------------------------------------------
(***************************************************************************)
(* The creation of claws. Every key has at most one claimant, and the      *)
(* claws of a key that no creator holds are the one its row names.         *)
(***************************************************************************)
Statuses == {"none", "pending", "active", "offline", "retrying", "error", "deleted"}
TrigRows == [status : {"none", "claimed", "active", "failed"}, claw : ClawIds \cup {NoClaw}, ripe : BOOLEAN]

\* Creators with the claws they made.
CreatorInv ==
    /\ creators \subseteq [key : Keys, path : AllPaths, pc : {"claim", "create", "complete"},
                           claw : ClawIds \cup {NoClaw}]
    /\ \A cr \in creators : IF cr.pc = "complete"
                            THEN cr.claw \in Existing /\ keyOf[cr.claw] = cr.key
                            ELSE cr.claw = NoClaw
CreationTypeInv ==
    /\ clawSt \in [ClawIds -> Statuses] /\ keyOf \in [ClawIds -> Keys \cup {NoKey}]
    /\ syncing \subseteq Existing /\ returned \subseteq ClawIds /\ doubted \subseteq Keys
    /\ trig \in [Keys -> TrigRows]
    /\ sweep \subseteq Existing /\ chosen \in Existing \cup {NoClaw} /\ promoteDue \in BOOLEAN
    /\ CreatorInv

\* What counts against a group's limit, and the room a chosen claw was given.
Admitted(g) == Active(g) \ returned
RoomInv ==
    /\ AdmissionLimit
    /\ \A g \in Groups : chosen # NoClaw /\ g = Group(chosen) /\ GroupLimit[g] > 0
                         => Cardinality(Admitted(g)) < GroupLimit[g]

\* The claws of a key that no creator holds and that live or will again.
Afoot(k) == {c \in Existing : /\ keyOf[c] = k /\ (Live(clawSt[c]) \/ clawSt[c] = "retrying")
                              /\ \A cr \in creators : cr.claw # c}
KeyInv(k) ==
    /\ \A a, b \in Claimants(k) : a = b
    /\ Claimants(k) # {} => trig[k].status = "claimed" /\ trig[k].claw = NoClaw /\ Afoot(k) = {}
    /\ Claimants(k) = {} => Afoot(k) \subseteq {trig[k].claw}
    /\ trig[k].status = "none" => trig[k].claw = NoClaw
ClaimsInv == \A k \in Keys \ doubted : KeyInv(k)

CreationInv == CreationTypeInv /\ RoomInv /\ ClaimsInv

\* The ids of claws are finitely many and none stands for no claw.
LEMMA ClawIdFacts == IsFiniteSet(ClawIds) /\ NoClaw \notin ClawIds
<1>1. IsFiniteSet(1 .. MaxClaws)
  BY CreationAssumption, FS_Interval
<1> QED  BY <1>1, CreationAssumption DEF ClawIds, NoClaw

\* What a claim makes of a row whose claw has status s, and who is granted it.
GoodOutcome(o, t, s) ==
    /\ o.granted \in BOOLEAN /\ o.row \in TrigRows
    /\ o.granted = TRUE => /\ o.row.status = "claimed" /\ o.row.claw = NoClaw
                           /\ ~(t.status \in {"claimed", "active"} /\ t.claw = NoClaw)
                           /\ t.status = "none" \/ t.claw = NoClaw \/ ~Live(s)
    /\ o.granted = FALSE => \/ o.row = t
                            \/ o.row.status = "failed" /\ o.row.claw = NoClaw /\ ~Live(s)

\* Claiming a trigger row: granted only where no creator and no living claw is.
LEMMA ClaimOutcomes ==
    ASSUME NEW t \in TrigRows, NEW s, NEW exempt \in BOOLEAN, NEW bornDead \in BOOLEAN
    PROVE  GoodOutcome(ClaimOutcome(t, s, exempt, bornDead), t, s)
<1>1. Reclaimed(t) \in TrigRows /\ Charged(t) \in TrigRows /\ [NoTrigger EXCEPT !.status = "claimed"] \in TrigRows
  BY DEF TrigRows, Reclaimed, Charged, NoTrigger
<1>2. Reclaimed(Charged(t)) \in TrigRows
  BY DEF TrigRows, Reclaimed, Charged
<1>3. /\ Reclaimed(t).status = "claimed" /\ Reclaimed(t).claw = NoClaw
      /\ Reclaimed(Charged(t)).status = "claimed" /\ Reclaimed(Charged(t)).claw = NoClaw
      /\ [NoTrigger EXCEPT !.status = "claimed"].status = "claimed"
      /\ [NoTrigger EXCEPT !.status = "claimed"].claw = NoClaw
      /\ Charged(t).status = "failed" /\ Charged(t).claw = NoClaw
  BY DEF TrigRows, Reclaimed, Charged, NoTrigger
<1>4. \A g, r : Outcome(g, r).granted = g /\ Outcome(g, r).row = r
  BY DEF Outcome
<1>5. ~Live("error") /\ ~Live("deleted")
  BY DEF Live
<1> DEFINE o == ClaimOutcome(t, s, exempt, bornDead)
<1> USE DEF GoodOutcome
<1>6. CASE t.status = "none"
  <2>1. o = Outcome(TRUE, [NoTrigger EXCEPT !.status = "claimed"])
    BY <1>6 DEF ClaimOutcome
  <2> HIDE DEF o
  <2>3. o.granted = TRUE /\ o.row = [NoTrigger EXCEPT !.status = "claimed"]
    BY <1>4, <2>1
  <2>2. GoodOutcome(o, t, s)
    BY <1>1, <1>3, <1>6, <2>3
  <2> QED  BY <2>2 DEF o
<1>7. CASE o = Outcome(FALSE, t)
  <2> HIDE DEF o
  <2>1. GoodOutcome(o, t, s)
    <3>1. o.granted = FALSE /\ o.row = t
      BY <1>4, <1>7
    <3> QED  BY <3>1
  <2> QED  BY <2>1 DEF o
<1>8. CASE (s = "error" \/ (s = "deleted" /\ bornDead)) /\ (o = Outcome(exempt, IF exempt THEN Reclaimed(Charged(t)) ELSE Charged(t)))
           /\ t.claw # NoClaw
  <2> HIDE DEF o
  <2>1. GoodOutcome(o, t, s)
    <3>1. CASE exempt = TRUE
      <4>1. o.granted = TRUE /\ o.row = Reclaimed(Charged(t))
        BY <1>4, <1>8, <3>1
      <4> QED  BY <1>2, <1>3, <1>5, <1>8, <4>1
    <3>2. CASE exempt = FALSE
      BY <1>1, <1>3, <1>4, <1>5, <1>8, <3>2
    <3> QED  BY <3>1, <3>2
  <2> QED  BY <2>1 DEF o
<1>9. CASE /\ o = Outcome(TRUE, Reclaimed(t))
           /\ ~(t.status \in {"claimed", "active"} /\ t.claw = NoClaw)
           /\ t.claw = NoClaw \/ ~Live(s)
  <2> HIDE DEF o
  <2>1. GoodOutcome(o, t, s)
    <3>1. o.granted = TRUE /\ o.row = Reclaimed(t)
      BY <1>4, <1>9
    <3> QED  BY <1>1, <1>3, <1>9, <3>1
  <2> QED  BY <2>1 DEF o
<1> QED  BY <1>6, <1>7, <1>8, <1>9 DEF ClaimOutcome

\* Whether a creation path is exempt from the retry cap is known.
LEMMA PathKinds == \A p \in Paths : p.exempt \in BOOLEAN
<1> DEFINE R == [looksFirst : BOOLEAN, exempt : BOOLEAN, launchFirst : BOOLEAN]
<1>1. \A a, b, c \in BOOLEAN : Path(a, b, c) \in R
  BY DEF Path
<1>2. AllPaths \subseteq R
  <2> HIDE DEF R
  <2>1. TRUE \in BOOLEAN /\ FALSE \in BOOLEAN
    OBVIOUS
  <2> QED  BY <1>1, <2>1 DEF AllPaths, createClawForIssue, createClawForLinearWorkflow, createClawForGitHubIssue,
       createClawForGitHubIssueWorkflow, createClawForGitHubPR, createClawForShortcutStory,
       createClawForShortcutWorkflow, createClawForJiraIssue, createClawForJiraWorkflow, processExternalFactoryTrigger
<1> QED  BY <1>2, PathsAssumption

\* Rows and memory keep their kinds; a claw's row, once there, stays, with its key.
LEMMA CreationTypeStep ==
    ASSUME CreationTypeInv, CreationNext
    PROVE  /\ CreationTypeInv'
           /\ Existing \subseteq Existing' /\ \A c \in Existing : keyOf'[c] = keyOf[c]
<1> DEFINE Goal == /\ CreationTypeInv'
                   /\ Existing \subseteq Existing' /\ \A c \in Existing : keyOf'[c] = keyOf[c]
<1>0. /\ clawSt \in [ClawIds -> Statuses] /\ keyOf \in [ClawIds -> Keys \cup {NoKey}]
      /\ syncing \subseteq Existing /\ returned \subseteq ClawIds /\ doubted \subseteq Keys
      /\ trig \in [Keys -> TrigRows]
      /\ sweep \subseteq Existing /\ chosen \in Existing \cup {NoClaw} /\ promoteDue \in BOOLEAN
      /\ CreatorInv /\ Existing \subseteq ClawIds
  BY DEF CreationTypeInv, Existing
<1>cr. \A cr \in creators : cr.key \in Keys /\ cr.path \in AllPaths /\ cr.pc \in {"claim", "create", "complete"}
                            /\ (cr.pc = "complete" => cr.claw \in ClawIds)
                            /\ cr \in [key : Keys, path : AllPaths, pc : {"claim", "create", "complete"},
                                       claw : ClawIds \cup {NoClaw}]
  BY <1>0 DEF CreatorInv
<1>e. ASSUME NEW c \in ClawIds, NEW s \in Statuses \ {"none"}, clawSt' = [clawSt EXCEPT ![c] = s]
      PROVE  clawSt' \in [ClawIds -> Statuses] /\ Existing \subseteq Existing' /\ Existing' \subseteq ClawIds
             /\ c \in Existing'
  BY <1>0, <1>e DEF Existing
<1>u. clawSt' = clawSt => Existing' = Existing
  BY DEF Existing
<1>k. ASSUME Existing \subseteq Existing', \A c \in Existing : keyOf'[c] = keyOf[c], creators' \subseteq creators
      PROVE  CreatorInv'
  BY <1>0, <1>k DEF CreatorInv
\* a step that leaves the creators alone, or lets some go
<1>s. ASSUME clawSt' \in [ClawIds -> Statuses], keyOf' = keyOf, Existing \subseteq Existing', creators' \subseteq creators,
             syncing' \subseteq Existing', returned' \subseteq ClawIds, doubted' \subseteq Keys,
             trig' \in [Keys -> TrigRows], sweep' \subseteq Existing', chosen' \in Existing' \cup {NoClaw},
             promoteDue' \in BOOLEAN
      PROVE  Goal
  BY <1>k, <1>s, <1>0 DEF CreationTypeInv
<1>t. /\ \A t \in TrigRows : /\ Charged(t) \in TrigRows /\ Unclaimed(t) \in TrigRows
                             /\ [t EXCEPT !.ripe = TRUE] \in TrigRows
                             /\ \A c \in ClawIds : [t EXCEPT !.claw = c, !.status = "active"] \in TrigRows
  BY DEF TrigRows, Charged, Unclaimed
<1>1. ASSUME NEW k \in Keys, NEW p \in Paths, LooksFirst(k, p) PROVE Goal
  <2>1. /\ UNCHANGED <<clawSt, keyOf, syncing, returned, trig, sweep, chosen, promoteDue, mishaps, doubted>>
        /\ creators' = creators \cup {Creator(k, p, "claim", NoClaw)}
    BY <1>1 DEF LooksFirst
  <2>2. /\ Creator(k, p, "claim", NoClaw) \in [key : Keys, path : AllPaths, pc : {"claim", "create", "complete"},
                           claw : ClawIds \cup {NoClaw}]
        /\ Creator(k, p, "claim", NoClaw).pc = "claim" /\ Creator(k, p, "claim", NoClaw).claw = NoClaw
    BY PathsAssumption DEF Creator
  <2>3. Existing' = Existing
    BY <1>u, <2>1
  <2>4. CreatorInv'
    BY <1>0, <2>1, <2>2, <2>3 DEF CreatorInv
  <2> QED  BY <1>0, <2>1, <2>3, <2>4 DEF CreationTypeInv
<1>2. ASSUME NEW k \in Keys, NEW p \in Paths, NEW bornDead \in BOOLEAN, claimFactoryTrigger(k, p, bornDead)
      PROVE  Goal
  <2> DEFINE o == ClaimOutcome(trig[k], RowStatus(trig[k].claw), p.exempt, bornDead)
             granted == Creator(k, p, "create", NoClaw)
  <2>0. p.exempt \in BOOLEAN
    BY PathKinds
  <2>1. /\ UNCHANGED <<clawSt, keyOf, syncing, returned, sweep, chosen, promoteDue, mishaps>>
        /\ trig' = [trig EXCEPT ![k] = o.row] /\ doubted' \in {doubted, doubted \cup {k}}
        /\ creators' \subseteq creators \cup {granted}
    BY <1>2 DEF claimFactoryTrigger
  <2>2. o.row \in TrigRows
    <3>1. GoodOutcome(o, trig[k], RowStatus(trig[k].claw))
      BY <1>0, <2>0, ClaimOutcomes
    <3> HIDE DEF o
    <3> QED  BY <3>1 DEF GoodOutcome
  <2>3. granted \in [key : Keys, path : AllPaths, pc : {"claim", "create", "complete"}, claw : ClawIds \cup {NoClaw}]
        /\ granted.pc = "create" /\ granted.claw = NoClaw
    BY PathsAssumption DEF Creator
  <2>4. Existing' = Existing
    BY <1>u, <2>1
  <2> HIDE DEF o, granted
  <2>5. CreatorInv'
    BY <1>0, <2>1, <2>3, <2>4 DEF CreatorInv
  <2> QED  BY <1>0, <2>1, <2>2, <2>4, <2>5 DEF CreationTypeInv
<1>3. ASSUME NEW k \in Keys, BackoffPasses(k) \/ ClaimExpires(k) PROVE Goal
  <2>1. /\ UNCHANGED <<clawSt, keyOf, syncing, returned, creators, sweep, chosen, promoteDue>>
        /\ doubted' \subseteq Keys
        /\ trig' = [trig EXCEPT ![k] = [trig[k] EXCEPT !.ripe = TRUE]] \/ trig' = [trig EXCEPT ![k] = Unclaimed(trig[k])]
    BY <1>0, <1>3 DEF BackoffPasses, ClaimExpires
  <2>2. trig[k] \in TrigRows /\ [trig[k] EXCEPT !.ripe = TRUE] \in TrigRows /\ Unclaimed(trig[k]) \in TrigRows
    BY <1>0, <1>t
  <2>3. trig' \in [Keys -> TrigRows]
    BY <1>0, <2>1, <2>2
  <2> QED  BY <1>0, <1>s, <1>u, <2>1, <2>3
<1>4. ASSUME NEW cr \in creators, CreationFails(cr) \/ completeFactoryTrigger(cr) PROVE Goal
  <2>1. /\ UNCHANGED <<clawSt, keyOf, syncing, returned, sweep, chosen, doubted>> /\ promoteDue' \in BOOLEAN
        /\ creators' = creators \ {cr}
    BY <1>0, <1>4 DEF CreationFails, completeFactoryTrigger
  <2>2. trig' \in [Keys -> TrigRows]
    <3>1. CASE CreationFails(cr)
      BY <1>0, <1>t, <1>cr, <3>1 DEF CreationFails, failFactoryTrigger
    <3>2. CASE completeFactoryTrigger(cr)
      <4>1. cr.claw \in ClawIds /\ trig' = [trig EXCEPT ![cr.key] = [trig[cr.key] EXCEPT !.claw = cr.claw, !.status = "active"]]
        BY <1>0, <1>cr, <3>2 DEF completeFactoryTrigger
      <4>2. [trig[cr.key] EXCEPT !.claw = cr.claw, !.status = "active"] \in TrigRows
        BY <1>0, <1>t, <1>cr, <4>1
      <4> QED  BY <1>0, <1>cr, <4>1, <4>2
    <3> QED  BY <1>4, <3>1, <3>2
  <2> QED  BY <1>0, <1>s, <1>u, <2>1, <2>2
<1>5. ASSUME NEW cr \in creators, CompletionFails(cr) PROVE Goal
  <2>1. /\ UNCHANGED <<keyOf, syncing, returned, sweep, chosen, doubted>> /\ promoteDue' \in BOOLEAN
        /\ creators' = creators \ {cr} /\ cr.claw \in ClawIds
        /\ clawSt' = [clawSt EXCEPT ![cr.claw] = IF clawSt[cr.claw] = "error" THEN clawSt[cr.claw] ELSE "deleted"]
    BY <1>cr, <1>5 DEF CompletionFails
  <2>2. trig' \in [Keys -> TrigRows]
    BY <1>0, <1>t, <1>cr, <1>5 DEF CompletionFails, failFactoryTrigger
  <2>3. clawSt' \in [ClawIds -> Statuses] /\ Existing \subseteq Existing'
    <3>1. PICK s \in {"error", "deleted"} : clawSt' = [clawSt EXCEPT ![cr.claw] = s]
      BY <2>1
    <3> QED  BY <1>e, <2>1, <3>1 DEF Statuses
  <2> QED  BY <1>0, <1>s, <2>1, <2>2, <2>3
<1>6. ASSUME NEW k \in Keys \cup {NoKey}, NEW c \in ClawIds, InsertClaw(k, c)
      PROVE  /\ clawSt' \in [ClawIds -> Statuses] /\ keyOf' \in [ClawIds -> Keys \cup {NoKey}]
             /\ Existing \subseteq Existing' /\ c \in Existing' /\ keyOf'[c] = k
             /\ \A d \in Existing : keyOf'[d] = keyOf[d]
  <2>1. PICK s \in Statuses \ {"none"} : clawSt' = [clawSt EXCEPT ![c] = s]
    <3>1. clawSt' = [clawSt EXCEPT ![c] = "pending"] \/ clawSt' = [clawSt EXCEPT ![c] = "active"]
      BY <1>6 DEF InsertClaw
    <3> QED  BY <3>1 DEF Statuses
  <2>2. clawSt[c] = "none" /\ keyOf' = [keyOf EXCEPT ![c] = k]
    BY <1>6 DEF InsertClaw
  <2> QED  BY <1>0, <1>e, <2>1, <2>2 DEF Existing
<1>7. ASSUME NEW cr \in creators, NEW c \in ClawIds, Insert(cr, c) PROVE Goal
  <2> DEFINE made == [cr EXCEPT !.pc = "complete", !.claw = c]
  <2>1. /\ UNCHANGED <<syncing, returned, trig, sweep, chosen, mishaps, doubted>> /\ promoteDue' \in BOOLEAN
        /\ creators' = (creators \ {cr}) \cup {made} /\ InsertClaw(cr.key, c)
    BY <1>0, <1>7 DEF Insert
  <2>2. /\ made \in [key : Keys, path : AllPaths, pc : {"claim", "create", "complete"}, claw : ClawIds \cup {NoClaw}]
        /\ made.pc = "complete" /\ made.claw = c /\ made.key = cr.key
    BY <1>cr
  <2>3. /\ clawSt' \in [ClawIds -> Statuses] /\ keyOf' \in [ClawIds -> Keys \cup {NoKey}]
        /\ Existing \subseteq Existing' /\ c \in Existing' /\ keyOf'[c] = cr.key
        /\ \A d \in Existing : keyOf'[d] = keyOf[d]
    BY <1>cr, <1>6, <2>1
  <2> HIDE DEF made
  <2>4. CreatorInv'
    BY <1>0, <2>1, <2>2, <2>3 DEF CreatorInv
  <2> QED  BY <1>0, <2>1, <2>3, <2>4 DEF CreationTypeInv
<1>8. ASSUME NEW c \in ClawIds, InsertManual(c) PROVE Goal
  <2>1. /\ UNCHANGED <<syncing, returned, trig, creators, sweep, chosen, mishaps, doubted>> /\ promoteDue' \in BOOLEAN
        /\ InsertClaw(NoKey, c)
    BY <1>0, <1>8 DEF InsertManual
  <2>3. /\ clawSt' \in [ClawIds -> Statuses] /\ keyOf' \in [ClawIds -> Keys \cup {NoKey}]
        /\ Existing \subseteq Existing' /\ \A d \in Existing : keyOf'[d] = keyOf[d]
    BY <1>6, <2>1
  <2>4. CreatorInv'
    BY <1>k, <2>1, <2>3
  <2> QED  BY <1>0, <2>1, <2>3, <2>4 DEF CreationTypeInv
<1>9. CASE PromoteBegins \/ PromoteLooks \/ ReaperPromotes
  <2>1. /\ UNCHANGED <<clawSt, keyOf, syncing, returned, trig, creators, mishaps, doubted>> /\ promoteDue' \in BOOLEAN
        /\ sweep' \subseteq Existing /\ chosen' \in Existing \cup {NoClaw}
    BY <1>0, <1>9 DEF PromoteBegins, PromoteLooks, ReaperPromotes
  <2> QED  BY <1>0, <1>s, <1>u, <2>1
<1>10. CASE PromoteWrites
  <2>1. /\ UNCHANGED <<keyOf, syncing, returned, trig, creators, sweep, promoteDue, mishaps, doubted>>
        /\ chosen \in Existing /\ chosen' = NoClaw /\ clawSt' = [clawSt EXCEPT ![chosen] = Promoted(chosen)]
    BY <1>0, <1>10 DEF PromoteWrites
  <2>2. Promoted(chosen) \in Statuses \ {"none"}
    BY <1>0, <2>1 DEF Promoted, Statuses, Existing
  <2>3. clawSt' \in [ClawIds -> Statuses] /\ Existing \subseteq Existing'
    BY <1>0, <1>e, <2>1, <2>2
  <2> QED  BY <1>0, <1>s, <2>1, <2>3
<1>11. ASSUME NEW c \in ClawIds, \/ \E s \in {"error", "deleted"}, inSync \in BOOLEAN : Ends(c, s, inSync)
                                 \/ GoesOffline(c) \/ Retries(c) \/ ComesBack(c)
       PROVE Goal
  <2>1. /\ UNCHANGED <<keyOf, trig, creators, sweep, chosen, doubted>> /\ promoteDue' \in BOOLEAN
        /\ returned' \subseteq ClawIds /\ syncing' \subseteq syncing \cup {c}
    BY <1>0, <1>11 DEF Ends, GoesOffline, Retries, ComesBack
  <2>2. PICK s \in {"error", "deleted", "offline", "retrying", "active"} : clawSt' = [clawSt EXCEPT ![c] = s]
    BY <1>11 DEF Ends, GoesOffline, Retries, ComesBack
  <2>3. clawSt' \in [ClawIds -> Statuses] /\ Existing \subseteq Existing' /\ c \in Existing'
    BY <1>e, <2>2 DEF Statuses
  <2>4. syncing' \subseteq Existing'
    BY <1>0, <2>1, <2>3
  <2>5. sweep' \subseteq Existing' /\ chosen' \in Existing' \cup {NoClaw}
    BY <1>0, <2>1, <2>3
  <2> QED  BY <1>0, <1>s, <2>1, <2>3, <2>4, <2>5
<1>12. ASSUME NEW c \in ClawIds, SlotGraceEnds(c) PROVE Goal
  <2>1. /\ UNCHANGED <<clawSt, keyOf, returned, trig, creators, sweep, chosen, promoteDue, mishaps, doubted>>
        /\ syncing' \subseteq syncing
    BY <1>12 DEF SlotGraceEnds
  <2> QED  BY <1>0, <1>s, <1>u, <2>1
<1>13. CASE HubRestarts
  <2>1. /\ UNCHANGED <<keyOf, syncing, returned>> /\ creators' = {} /\ sweep' = {} /\ chosen' = NoClaw /\ promoteDue' = TRUE
        /\ doubted' \subseteq Keys /\ trig' = [k \in Keys |-> Unclaimed(trig[k])]
        /\ clawSt' = [c \in ClawIds |-> IF clawSt[c] = "retrying" \/ Unassigned(c) THEN "error" ELSE clawSt[c]]
    BY <1>0, <1>13 DEF HubRestarts
  <2>2. trig' \in [Keys -> TrigRows]
    BY <1>0, <1>t, <2>1
  <2>3. clawSt' \in [ClawIds -> Statuses] /\ Existing \subseteq Existing'
    BY <1>0, <2>1 DEF Statuses, Existing
  <2> QED  BY <1>0, <1>s, <2>1, <2>2, <2>3
<1> QED  BY <1>1, <1>2, <1>3, <1>4, <1>5, <1>7, <1>8, <1>9, <1>10, <1>11, <1>12, <1>13
         DEF CreationNext, Creating, Promoting, Leaving

\* A claw row that says deleted keeps saying it, whatever was about to be done to it.
LEMMA DeletedStays ==
    ASSUME CreationTypeInv, CreationNext, NEW c \in ClawIds, clawSt[c] = "deleted"
    PROVE  clawSt'[c] = "deleted"
<1>0. /\ clawSt \in [ClawIds -> Statuses] /\ chosen \in Existing \cup {NoClaw} /\ Existing \subseteq ClawIds
      /\ \A cr \in creators : cr.pc = "complete" => cr.claw \in ClawIds
  BY DEF CreationTypeInv, CreatorInv, Existing
<1>1. ASSUME NEW k \in Keys, \/ \E p \in Paths : \/ LooksFirst(k, p)
                                                 \/ \E bornDead \in BOOLEAN : claimFactoryTrigger(k, p, bornDead)
                             \/ BackoffPasses(k) \/ ClaimExpires(k)
      PROVE  clawSt'[c] = "deleted"
  BY <1>1 DEF LooksFirst, claimFactoryTrigger, BackoffPasses, ClaimExpires
<1>2. ASSUME NEW cr \in creators, CreationFails(cr) \/ completeFactoryTrigger(cr) PROVE clawSt'[c] = "deleted"
  BY <1>2 DEF CreationFails, completeFactoryTrigger
<1>3. ASSUME NEW cr \in creators, CompletionFails(cr) PROVE clawSt'[c] = "deleted"
  BY <1>0, <1>3 DEF CompletionFails
<1>4. ASSUME NEW k, NEW d \in ClawIds, InsertClaw(k, d) PROVE clawSt'[c] = "deleted"
  BY <1>0, <1>4 DEF InsertClaw
<1>5. CASE PromoteBegins \/ PromoteLooks \/ ReaperPromotes
  BY <1>5 DEF PromoteBegins, PromoteLooks, ReaperPromotes
<1>6. CASE PromoteWrites
  BY <1>0, <1>6 DEF PromoteWrites, Promoted
<1>7. ASSUME NEW d \in ClawIds, \/ \E s \in {"error", "deleted"}, inSync \in BOOLEAN : Ends(d, s, inSync)
                                \/ GoesOffline(d) \/ Retries(d) \/ ComesBack(d) \/ SlotGraceEnds(d)
      PROVE  clawSt'[c] = "deleted"
  BY <1>0, <1>7 DEF Ends, GoesOffline, Retries, ComesBack, SlotGraceEnds
<1>8. CASE HubRestarts
  BY <1>0, <1>8 DEF HubRestarts, Unassigned
<1> QED  BY <1>1, <1>2, <1>3, <1>4, <1>5, <1>6, <1>7, <1>8
         DEF CreationNext, Creating, Promoting, Leaving, Insert, InsertManual

\* The claws that count against a limit are finitely many.
LEMMA AdmittedFinite ==
    ASSUME CreationTypeInv
    PROVE  \A g : /\ Admitted(g) \subseteq ClawIds /\ IsFiniteSet(Admitted(g)) /\ Cardinality(Admitted(g)) \in Nat
                  /\ \A T : T \subseteq Admitted(g) => Cardinality(T) \in Nat /\ Cardinality(T) <= Cardinality(Admitted(g))
                  /\ \A c \in ClawIds : \A T : T \subseteq Admitted(g) \cup {c}
                        => Cardinality(T) \in Nat /\ Cardinality(T) <= Cardinality(Admitted(g)) + 1
                  /\ Cardinality(Active(g)) \in Nat /\ Cardinality(Admitted(g)) <= Cardinality(Active(g))
<1> TAKE g
<1>1. Active(g) \subseteq ClawIds /\ Admitted(g) \subseteq Active(g)
  BY DEF Admitted, Active, Existing
<1>2. IsFiniteSet(Active(g)) /\ IsFiniteSet(Admitted(g))
  BY <1>1, ClawIdFacts, FS_Subset
<1>3. /\ Cardinality(Active(g)) \in Nat /\ Cardinality(Admitted(g)) \in Nat
      /\ Cardinality(Admitted(g)) <= Cardinality(Active(g))
  BY <1>1, <1>2, FS_CardinalityType, FS_Subset
<1>4. ASSUME NEW T, T \subseteq Admitted(g)
      PROVE  Cardinality(T) \in Nat /\ Cardinality(T) <= Cardinality(Admitted(g))
  BY <1>2, <1>4, FS_CardinalityType, FS_Subset
<1>5. ASSUME NEW c \in ClawIds, NEW T, T \subseteq Admitted(g) \cup {c}
      PROVE  Cardinality(T) \in Nat /\ Cardinality(T) <= Cardinality(Admitted(g)) + 1
  <2>1. /\ IsFiniteSet(Admitted(g) \cup {c})
        /\ Cardinality(Admitted(g) \cup {c}) = IF c \in Admitted(g) THEN Cardinality(Admitted(g))
                                               ELSE Cardinality(Admitted(g)) + 1
    BY <1>2, FS_AddElement
  <2>2. IsFiniteSet(T) /\ Cardinality(T) <= Cardinality(Admitted(g) \cup {c})
    BY <1>5, <2>1, FS_Subset
  <2>3. Cardinality(T) \in Nat
    BY <2>2, FS_CardinalityType
  <2> QED  BY <1>3, <2>1, <2>2, <2>3
<1> QED  BY <1>1, <1>2, <1>3, <1>4, <1>5

\* A step after which no group counts a claw it did not count before.
LEMMA CountsShrink ==
    ASSUME CreationTypeInv, RoomInv, \A c \in Existing : keyOf'[c] = keyOf[c], chosen' \in {chosen, NoClaw},
           \A g : Admitted(g)' \subseteq Admitted(g)
    PROVE  RoomInv'
<1>1. \A g \in Groups : GroupLimit[g] \in Nat
  BY CreationAssumption
<1>2. \A g : Cardinality(Admitted(g)') \in Nat /\ Cardinality(Admitted(g)') <= Cardinality(Admitted(g))
             /\ Cardinality(Admitted(g)) \in Nat
  BY AdmittedFinite
<1>3. AdmissionLimit'
  <2> SUFFICES ASSUME NEW g \in Groups, GroupLimit[g] > 0 PROVE Cardinality(Admitted(g)') <= GroupLimit[g]
    BY DEF AdmissionLimit, Admitted
  <2>1. Cardinality(Admitted(g)) <= GroupLimit[g]
    BY DEF RoomInv, AdmissionLimit, Admitted
  <2> QED  BY <1>1, <1>2, <2>1
<1>4. ASSUME NEW g \in Groups, chosen' # NoClaw, g = Group(chosen)', GroupLimit[g] > 0
      PROVE  Cardinality(Admitted(g)') < GroupLimit[g]
  <2>1. chosen' = chosen /\ chosen \in Existing
    BY <1>4 DEF CreationTypeInv
  <2>2. g = Group(chosen)
    BY <1>4, <2>1 DEF Group
  <2>3. Cardinality(Admitted(g)) < GroupLimit[g]
    BY <1>4, <2>1, <2>2 DEF RoomInv
  <2> QED  BY <1>1, <1>2, <2>3
<1> QED  BY <1>3, <1>4 DEF RoomInv

\* Creators and the promotion count under promoteMu: nobody is admitted past the limit.
LEMMA RoomStep ==
    ASSUME CreationTypeInv, CreationTypeInv', RoomInv, CreationNext
    PROVE  RoomInv'
<1>0. /\ clawSt \in [ClawIds -> Statuses] /\ keyOf \in [ClawIds -> Keys \cup {NoKey}]
      /\ syncing \subseteq Existing /\ chosen \in Existing \cup {NoClaw} /\ sweep \subseteq Existing
      /\ Existing \subseteq ClawIds
      /\ \A cr \in creators : cr.key \in Keys /\ (cr.pc = "complete" => cr.claw \in Existing)
  BY DEF CreationTypeInv, CreatorInv, Existing
<1>l. \A g \in Groups : GroupLimit[g] \in Nat
  BY CreationAssumption
\* a step that leaves the rows alone, or changes one so that it is counted no more than before
<1>s. ASSUME keyOf' = keyOf, chosen' \in {chosen, NoClaw}, returned \subseteq returned',
             \A c \in ClawIds : clawSt'[c] = "active" => clawSt[c] = "active" \/ c \in returned',
             \A c \in syncing' : c \in syncing \/ clawSt[c] = "active"
      PROVE  RoomInv'
  <2>1. \A g : Admitted(g)' \subseteq Admitted(g)
    BY <1>0, <1>s DEF Admitted, Active, Counted, Existing, Group
  <2> QED  BY <1>s, <2>1, CountsShrink
<1>1. ASSUME NEW k \in Keys, \/ \E p \in Paths : \/ LooksFirst(k, p)
                                                 \/ \E bornDead \in BOOLEAN : claimFactoryTrigger(k, p, bornDead)
                             \/ BackoffPasses(k) \/ ClaimExpires(k)
      PROVE  RoomInv'
  <2>1. UNCHANGED <<keyOf, chosen, returned, clawSt, syncing>>
    BY <1>1 DEF LooksFirst, claimFactoryTrigger, BackoffPasses, ClaimExpires
  <2> QED  BY <1>s, <2>1
<1>2. ASSUME NEW cr \in creators, CreationFails(cr) \/ completeFactoryTrigger(cr) PROVE RoomInv'
  <2>1. UNCHANGED <<keyOf, chosen, returned, clawSt, syncing>>
    BY <1>2 DEF CreationFails, completeFactoryTrigger
  <2> QED  BY <1>s, <2>1
<1>3. ASSUME NEW cr \in creators, CompletionFails(cr) PROVE RoomInv'
  <2>1. UNCHANGED <<keyOf, chosen, returned, syncing>> /\ \A c \in ClawIds : clawSt'[c] = "active" => clawSt[c] = "active"
    BY <1>0, <1>3 DEF CompletionFails
  <2> QED  BY <1>s, <2>1
\* a new claw is active only with room in its group
<1>4. ASSUME NEW k \in Keys \cup {NoKey}, NEW c \in ClawIds, InsertClaw(k, c), UNCHANGED <<returned, syncing, chosen>>
      PROVE  RoomInv'
  <2>1. /\ chosen = NoClaw /\ chosen' = NoClaw /\ clawSt[c] = "none" /\ c \notin Existing
        /\ keyOf' = [keyOf EXCEPT ![c] = k] /\ GroupOf[k] \in Groups
        /\ clawSt' = [clawSt EXCEPT ![c] = IF MustWait(GroupOf[k]) THEN "pending" ELSE "active"]
    BY <1>4, CreationAssumption DEF InsertClaw, MuFree, Existing
  <2>2. keyOf'[c] = k /\ \A d \in Existing : keyOf'[d] = keyOf[d] /\ clawSt'[d] = clawSt[d]
    BY <1>0, <2>1
  <2>3. Existing' = Existing \cup {c}
    BY <1>0, <2>1 DEF Existing
  <2>4. \A g : Admitted(g)' \subseteq Admitted(g) \cup {c}
    BY <1>0, <1>4, <2>1, <2>2, <2>3 DEF Admitted, Active, Counted, Group
  <2>5. \A g : g # GroupOf[k] \/ MustWait(g) => Admitted(g)' \subseteq Admitted(g)
    BY <1>0, <1>4, <2>1, <2>2, <2>3 DEF Admitted, Active, Counted, Group
  <2>6. AdmissionLimit'
    <3> SUFFICES ASSUME NEW g \in Groups, GroupLimit[g] > 0 PROVE Cardinality(Admitted(g)') <= GroupLimit[g]
      BY DEF AdmissionLimit, Admitted
    <3>1. Cardinality(Admitted(g)) <= GroupLimit[g]
      BY DEF RoomInv, AdmissionLimit, Admitted
    <3>2. CASE g # GroupOf[k] \/ MustWait(g)
      <4>1. Cardinality(Admitted(g)') \in Nat /\ Cardinality(Admitted(g)') <= Cardinality(Admitted(g))
            /\ Cardinality(Admitted(g)) \in Nat
        BY <2>5, <3>2, AdmittedFinite
      <4> QED  BY <1>l, <3>1, <4>1
    <3>3. CASE ~MustWait(g)
      <4>1. /\ Cardinality(Admitted(g)') \in Nat /\ Cardinality(Admitted(g)') <= Cardinality(Admitted(g)) + 1
            /\ Cardinality(Admitted(g)) \in Nat /\ Cardinality(Active(g)) \in Nat
            /\ Cardinality(Admitted(g)) <= Cardinality(Active(g))
        BY <2>4, AdmittedFinite
      <4>2. Cardinality(Active(g)) < GroupLimit[g]
        BY <1>l, <3>3, <4>1 DEF MustWait, AtCapacity
      <4> QED  BY <1>l, <4>1, <4>2
    <3> QED  BY <3>2, <3>3
  <2> QED  BY <2>1, <2>6 DEF RoomInv
<1>5. ASSUME NEW cr \in creators, NEW c \in ClawIds, Insert(cr, c) PROVE RoomInv'
  BY <1>0, <1>4, <1>5 DEF Insert
<1>6. ASSUME NEW c \in ClawIds, InsertManual(c) PROVE RoomInv'
  BY <1>0, <1>4, <1>6 DEF InsertManual
<1>7. CASE PromoteBegins \/ ReaperPromotes
  <2>1. UNCHANGED <<keyOf, chosen, returned, clawSt, syncing>>
    BY <1>7 DEF PromoteBegins, ReaperPromotes
  <2> QED  BY <1>s, <2>1
\* a waiting claw is chosen only with room in its group
<1>8. CASE PromoteLooks
  <2>1. PICK c \in Existing : /\ UNCHANGED <<clawSt, keyOf, syncing, returned>>
                              /\ chosen' = IF AtCapacity(Group(c)) THEN NoClaw ELSE c
    BY <1>0, <1>8 DEF PromoteLooks
  <2>2. \A g : Admitted(g)' = Admitted(g)
    BY <2>1 DEF Admitted, Active, Counted, Existing, Group
  <2>3. AdmissionLimit'
    BY <2>1 DEF RoomInv, AdmissionLimit, Active, Counted, Existing, Group
  <2>4. ASSUME NEW g \in Groups, chosen' # NoClaw, g = Group(chosen)', GroupLimit[g] > 0
        PROVE  Cardinality(Admitted(g)') < GroupLimit[g]
    <3>1. chosen' = c /\ ~AtCapacity(Group(c))
      BY <2>1, <2>4
    <3>2. g = Group(c)
      BY <2>1, <2>4, <3>1 DEF Group
    <3>3. Cardinality(Active(g)) \in Nat /\ Cardinality(Admitted(g)) <= Cardinality(Active(g))
          /\ Cardinality(Admitted(g)) \in Nat
      BY AdmittedFinite
    <3>4. Cardinality(Active(g)) < GroupLimit[g]
      BY <1>l, <2>4, <3>1, <3>2, <3>3 DEF AtCapacity
    <3>5. Cardinality(Admitted(g)) < GroupLimit[g]
      BY <1>l, <3>3, <3>4
    <3> QED  BY <2>2, <3>5
  <2> QED  BY <2>3, <2>4 DEF RoomInv
\* and takes that room
<1>9. CASE PromoteWrites
  <2>1. /\ chosen \in Existing /\ chosen # NoClaw /\ chosen' = NoClaw /\ UNCHANGED <<keyOf, syncing, returned>>
        /\ clawSt' = [clawSt EXCEPT ![chosen] = Promoted(chosen)]
    BY <1>0, <1>9 DEF PromoteWrites
  <2>2. Existing' = Existing
    BY <1>0, <2>1 DEF Existing, Promoted
  <2>3. \A g : Admitted(g)' \subseteq Admitted(g) \cup {chosen}
    BY <1>0, <2>1, <2>2 DEF Admitted, Active, Counted, Group
  <2>4. \A g : g # Group(chosen) => Admitted(g)' \subseteq Admitted(g)
    BY <1>0, <2>1, <2>2 DEF Admitted, Active, Counted, Group
  <2>5. AdmissionLimit'
    <3> SUFFICES ASSUME NEW g \in Groups, GroupLimit[g] > 0 PROVE Cardinality(Admitted(g)') <= GroupLimit[g]
      BY DEF AdmissionLimit, Admitted
    <3>1. CASE g # Group(chosen)
      <4>1. Cardinality(Admitted(g)) <= GroupLimit[g]
        BY DEF RoomInv, AdmissionLimit, Admitted
      <4>2. Cardinality(Admitted(g)') \in Nat /\ Cardinality(Admitted(g)') <= Cardinality(Admitted(g))
            /\ Cardinality(Admitted(g)) \in Nat
        BY <2>4, <3>1, AdmittedFinite
      <4> QED  BY <1>l, <4>1, <4>2
    <3>2. CASE g = Group(chosen)
      <4>1. Cardinality(Admitted(g)) < GroupLimit[g]
        BY <2>1, <3>2 DEF RoomInv
      <4>2. Cardinality(Admitted(g)') \in Nat /\ Cardinality(Admitted(g)') <= Cardinality(Admitted(g)) + 1
            /\ Cardinality(Admitted(g)) \in Nat
        BY <1>0, <2>1, <2>3, AdmittedFinite
      <4> QED  BY <1>l, <4>1, <4>2
    <3> QED  BY <3>1, <3>2
  <2> QED  BY <2>1, <2>5 DEF RoomInv
<1>10. ASSUME NEW c \in ClawIds, \/ \E s \in {"error", "deleted"}, inSync \in BOOLEAN : Ends(c, s, inSync)
                                 \/ GoesOffline(c) \/ Retries(c) \/ ComesBack(c)
       PROVE RoomInv'
  <2>1. /\ keyOf' = keyOf /\ chosen' = chosen /\ returned \subseteq returned'
        /\ \A d \in ClawIds : clawSt'[d] = "active" => clawSt[d] = "active" \/ d \in returned'
    BY <1>0, <1>10 DEF Ends, GoesOffline, Retries, ComesBack
  <2>2. \A d \in syncing' : d \in syncing \/ clawSt[d] = "active"
    BY <1>0, <1>10 DEF Ends, GoesOffline, Retries, ComesBack
  <2> QED  BY <1>s, <2>1, <2>2
<1>11. ASSUME NEW c \in ClawIds, SlotGraceEnds(c) PROVE RoomInv'
  <2>1. UNCHANGED <<keyOf, chosen, returned, clawSt>> /\ syncing' \subseteq syncing
    BY <1>11 DEF SlotGraceEnds
  <2> QED  BY <1>s, <2>1
<1>12. CASE HubRestarts
  <2>1. /\ UNCHANGED <<keyOf, returned, syncing>> /\ chosen' = NoClaw
        /\ \A c \in ClawIds : clawSt'[c] = "active" => clawSt[c] = "active"
    BY <1>0, <1>12 DEF HubRestarts
  <2> QED  BY <1>s, <2>1
<1> QED  BY <1>1, <1>2, <1>3, <1>5, <1>6, <1>7, <1>8, <1>9, <1>10, <1>11, <1>12
         DEF CreationNext, Creating, Promoting, Leaving

\* A key stays consistent when its row and claimants stay and no claw is added.
LEMMA KeyKept ==
    ASSUME NEW k, KeyInv(k), Claimants(k)' = Claimants(k), trig'[k].status = trig[k].status,
           trig'[k].claw = trig[k].claw, Afoot(k)' \subseteq Afoot(k)
    PROVE  KeyInv(k)'
<1>1. Claimants(k)' = {} <=> Claimants(k) = {}
  OBVIOUS
<1> QED  BY <1>1 DEF KeyInv

\* One claim of a key at a time, and what it made before is gone, as long as the claim
\* is not given up under its creator or under a claw that is being replaced.
LEMMA ClaimsStep ==
    ASSUME CreationTypeInv, CreationTypeInv', ClaimsInv, CreationNext
    PROVE  ClaimsInv'
<1> SUFFICES ASSUME NEW k \in Keys, k \notin doubted' PROVE KeyInv(k)'
  BY DEF ClaimsInv
<1>0. /\ clawSt \in [ClawIds -> Statuses] /\ keyOf \in [ClawIds -> Keys \cup {NoKey}] /\ Existing \subseteq ClawIds
      /\ trig \in [Keys -> TrigRows] /\ chosen \in Existing \cup {NoClaw}
      /\ NoClaw \notin ClawIds
  BY ClawIdFacts DEF CreationTypeInv, Existing
<1>cr. \A cr \in creators : /\ cr.key \in Keys /\ cr.pc \in {"claim", "create", "complete"}
                            /\ cr.pc = "complete" => cr.claw \in Existing /\ keyOf[cr.claw] = cr.key
                            /\ cr.pc # "complete" => cr.claw = NoClaw
  BY DEF CreationTypeInv, CreatorInv
<1>k. ASSUME k \notin doubted, Claimants(k)' = Claimants(k), trig'[k].status = trig[k].status,
             trig'[k].claw = trig[k].claw, Afoot(k)' \subseteq Afoot(k)
      PROVE  KeyInv(k)'
  BY <1>k, KeyKept DEF ClaimsInv
<1>i. k \notin doubted => KeyInv(k)
  BY DEF ClaimsInv
<1>1. ASSUME NEW j \in Keys, NEW p \in Paths, LooksFirst(j, p) PROVE KeyInv(k)'
  <2> DEFINE v == Creator(j, p, "claim", NoClaw)
  <2>1. /\ UNCHANGED <<clawSt, keyOf, trig, doubted>> /\ creators' = creators \cup {v}
        /\ v.pc = "claim" /\ v.claw = NoClaw
    BY <1>1 DEF LooksFirst, Creator
  <2> HIDE DEF v
  <2>2. Claimants(k)' = Claimants(k)
    BY <2>1 DEF Claimants
  <2>3. Afoot(k)' \subseteq Afoot(k)
    BY <1>0, <2>1 DEF Afoot, Existing
  <2> QED  BY <1>k, <2>1, <2>2, <2>3
<1>2. ASSUME NEW j \in Keys, NEW p \in Paths, NEW bornDead \in BOOLEAN, claimFactoryTrigger(j, p, bornDead)
      PROVE  KeyInv(k)'
  <2> DEFINE waiting == Creator(j, p, "claim", NoClaw)
             made == Creator(j, p, "create", NoClaw)
             held == trig[j].claw
             o == ClaimOutcome(trig[j], RowStatus(held), p.exempt, bornDead)
  <2>1. /\ UNCHANGED <<clawSt, keyOf>> /\ doubted \subseteq doubted'
        /\ trig' = [trig EXCEPT ![j] = o.row]
        /\ held # NoClaw /\ clawSt[held] = "retrying" => j \in doubted'
        /\ o.granted = TRUE => creators' = (creators \ {waiting}) \cup {made}
        /\ o.granted = FALSE => creators' = creators \ {waiting}
        /\ waiting.pc = "claim" /\ waiting.claw = NoClaw /\ made.pc = "create" /\ made.claw = NoClaw /\ made.key = j
    BY <1>2 DEF claimFactoryTrigger, Creator
  <2>2. p.exempt \in BOOLEAN /\ trig[j] \in TrigRows
    BY <1>0, PathKinds
  <2>g. GoodOutcome(o, trig[j], RowStatus(held))
    BY <2>2, ClaimOutcomes
  <2> HIDE DEF o, waiting, made, held
  <2>3. /\ o.granted \in BOOLEAN
        /\ o.granted = TRUE => o.row.status = "claimed" /\ o.row.claw = NoClaw
    BY <2>g DEF GoodOutcome
  <2>h. o.granted = TRUE => ~(trig[j].status \in {"claimed", "active"} /\ trig[j].claw = NoClaw)
    BY <2>g DEF GoodOutcome
  <2>l. o.granted = TRUE => trig[j].status = "none" \/ trig[j].claw = NoClaw \/ ~Live(RowStatus(held))
    BY <2>g DEF GoodOutcome
  <2>f. o.granted = FALSE => \/ o.row = trig[j]
                             \/ o.row.status = "failed" /\ o.row.claw = NoClaw /\ ~Live(RowStatus(held))
    BY <2>g DEF GoodOutcome
  <2>d. held = trig[j].claw
    BY DEF held
  <2>a. creators' \subseteq (creators \ {waiting}) \cup {made} /\ creators \ {waiting} \subseteq creators'
    BY <2>1, <2>3
  <2>4. Afoot(k)' = Afoot(k)
    <3>1. \A c \in ClawIds : (\A x \in creators' : x.claw # c) <=> (\A x \in creators : x.claw # c)
      BY <1>0, <2>1, <2>a
    <3>2. Existing' = Existing
      BY <2>1 DEF Existing
    <3> QED  BY <1>0, <2>1, <3>1, <3>2 DEF Afoot
  <2>5. CASE j # k
    <3>1. Claimants(k)' = Claimants(k)
      BY <2>1, <2>5, <2>a DEF Claimants
    <3>2. trig'[k] = trig[k]
      BY <1>0, <2>1, <2>5
    <3> QED  BY <1>k, <2>1, <2>4, <3>1, <3>2
  <2>6. CASE j = k
    <3>0. KeyInv(k) /\ trig'[k] = o.row /\ (held # NoClaw => clawSt[held] # "retrying") /\ trig[k].claw = held
      BY <1>0, <1>i, <2>1, <2>6, <2>d
\* a row whose claw is not live, and not being replaced, has nothing under way
    <3>1. ASSUME Claimants(k) = {}, held = NoClaw \/ ~Live(RowStatus(held))
          PROVE  Afoot(k) = {}
      <4>1. Afoot(k) \subseteq {held}
        BY <2>6, <3>0, <3>1 DEF KeyInv
      <4>2. held \notin Afoot(k)
        BY <1>0, <3>0, <3>1 DEF Afoot, RowStatus
      <4> QED  BY <4>1, <4>2
    <3>2. CASE o.granted = TRUE
      <4>1. Claimants(k) = {}
        BY <2>6, <2>h, <3>0, <3>2 DEF KeyInv
      <4>2. held = NoClaw \/ ~Live(RowStatus(held))
        <5>1. trig[k].status = "none" => held = NoClaw
          BY <3>0 DEF KeyInv
        <5> QED  BY <2>6, <2>d, <2>l, <3>2, <5>1
      <4>3. Afoot(k)' = {}
        BY <2>4, <3>1, <4>1, <4>2
      <4>4. Claimants(k)' = {made}
        BY <2>1, <2>6, <3>2, <4>1 DEF Claimants
      <4>5. trig'[k].status = "claimed" /\ trig'[k].claw = NoClaw
        <5>1. o.row.status = "claimed" /\ o.row.claw = NoClaw
          BY <2>3, <3>2
        <5> QED  BY <3>0, <5>1
      <4> QED  BY <4>3, <4>4, <4>5 DEF KeyInv
    <3>3. CASE o.granted = FALSE
      <4>1. Claimants(k)' = Claimants(k)
        BY <2>1, <3>3 DEF Claimants
      <4>2. CASE o.row = trig[j]
        BY <1>k, <2>1, <2>4, <2>6, <3>0, <4>1, <4>2
      <4>3. CASE o.row.status = "failed" /\ o.row.claw = NoClaw /\ ~Live(RowStatus(held)) /\ o.row # trig[j]
        <5>1. CASE Claimants(k) = {}
          <6>1. Afoot(k)' = {}
            BY <2>4, <3>1, <4>3, <5>1
          <6> QED  BY <3>0, <4>1, <4>3, <5>1, <6>1 DEF KeyInv
        <5>2. CASE Claimants(k) # {}
          <6>1. trig[k].status = "claimed" /\ held = NoClaw
            BY <3>0, <5>2 DEF KeyInv
          <6>2. o = Outcome(FALSE, trig[k])
            BY <2>6, <2>d, <6>1 DEF o, ClaimOutcome
          <6>3. o.row = trig[k]
            BY <6>2 DEF Outcome
          <6> QED  BY <2>6, <4>3, <6>3
        <5> QED  BY <5>1, <5>2
      <4> QED  BY <2>f, <3>3, <4>2, <4>3
    <3> QED  BY <2>3, <3>2, <3>3
  <2> QED  BY <2>5, <2>6
<1>3. ASSUME NEW j \in Keys, BackoffPasses(j) PROVE KeyInv(k)'
  <2>1. UNCHANGED <<clawSt, keyOf, creators, doubted>> /\ trig' = [trig EXCEPT ![j] = [trig[j] EXCEPT !.ripe = TRUE]]
    BY <1>3 DEF BackoffPasses
  <2>2. trig'[k].status = trig[k].status /\ trig'[k].claw = trig[k].claw
    BY <1>0, <2>1 DEF TrigRows
  <2>3. Claimants(k)' = Claimants(k) /\ Afoot(k)' = Afoot(k)
    BY <2>1 DEF Claimants, Afoot, Existing
  <2> QED  BY <1>k, <2>1, <2>2, <2>3
<1>4. ASSUME NEW j \in Keys, ClaimExpires(j) PROVE KeyInv(k)'
  <2>1. UNCHANGED <<clawSt, keyOf, creators>> /\ trig' = [trig EXCEPT ![j] = Unclaimed(trig[j])]
        /\ k # j /\ k \notin doubted
    BY <1>4 DEF ClaimExpires
  <2>2. trig'[k] = trig[k]
    BY <1>0, <2>1
  <2>3. Claimants(k)' = Claimants(k) /\ Afoot(k)' = Afoot(k)
    BY <2>1 DEF Claimants, Afoot, Existing
  <2> QED  BY <1>k, <2>1, <2>2, <2>3
\* a creator goes: for another key nothing changes
<1>g. ASSUME NEW cr \in creators, creators' = creators \ {cr}, keyOf' = keyOf, doubted' = doubted, cr.key # k,
             \A c \in ClawIds : keyOf[c] = k => clawSt'[c] = clawSt[c],
             trig'[k] = trig[k]
      PROVE  KeyInv(k)'
  <2>1. Claimants(k)' = Claimants(k)
    BY <1>g DEF Claimants
  <2>2. Afoot(k)' = Afoot(k)
    <3>1. cr.claw \in ClawIds => keyOf[cr.claw] # k
      BY <1>0, <1>cr, <1>g
    <3> QED  BY <1>0, <1>g, <3>1 DEF Afoot, Existing
  <2> QED  BY <1>g, <1>k, <2>1, <2>2
\* the key's own creator, with its claim: it was the only one
<1>o. ASSUME NEW cr \in creators, creators' = creators \ {cr}, cr.key = k, cr.pc # "claim", doubted' = doubted
      PROVE  Claimants(k) = {cr} /\ Claimants(k)' = {} /\ trig[k].status = "claimed" /\ trig[k].claw = NoClaw
             /\ Afoot(k) = {}
  <2>1. cr \in Claimants(k) /\ KeyInv(k)
    BY <1>o, <1>i DEF Claimants
  <2>2. Claimants(k) = {cr}
    BY <2>1 DEF KeyInv
  <2> QED  BY <1>o, <2>1, <2>2 DEF KeyInv, Claimants
<1>5. ASSUME NEW cr \in creators, CreationFails(cr) PROVE KeyInv(k)'
  <2>1. /\ creators' = creators \ {cr} /\ UNCHANGED <<clawSt, keyOf, doubted>> /\ cr.pc = "create" /\ cr.claw = NoClaw
        /\ trig' = [trig EXCEPT ![cr.key] = IF trig[cr.key].claw = NoClaw /\ trig[cr.key].status # "none"
                                            THEN Charged(trig[cr.key]) ELSE trig[cr.key]]
    BY <1>5, <1>cr DEF CreationFails, failFactoryTrigger
  <2>2. CASE cr.key # k
    BY <1>0, <1>g, <1>cr, <2>1, <2>2
  <2>3. CASE cr.key = k
    <3>1. Claimants(k)' = {} /\ Afoot(k) = {} /\ trig[k].status = "claimed" /\ trig[k].claw = NoClaw
      BY <1>o, <2>1, <2>3
    <3>2. trig'[k].status = "failed"
      BY <1>0, <2>1, <2>3, <3>1 DEF Charged, TrigRows
    <3>3. Afoot(k)' = {}
      BY <1>0, <2>1, <3>1 DEF Afoot, Existing
    <3> QED  BY <3>1, <3>2, <3>3 DEF KeyInv
  <2> QED  BY <2>2, <2>3
<1>6. ASSUME NEW cr \in creators, completeFactoryTrigger(cr) PROVE KeyInv(k)'
  <2>1. /\ creators' = creators \ {cr} /\ UNCHANGED <<clawSt, keyOf, doubted>> /\ cr.pc = "complete"
        /\ trig' = [trig EXCEPT ![cr.key] = [trig[cr.key] EXCEPT !.claw = cr.claw, !.status = "active"]]
    BY <1>6 DEF completeFactoryTrigger
  <2>2. CASE cr.key # k
    BY <1>0, <1>g, <1>cr, <2>1, <2>2
  <2>3. CASE cr.key = k
    <3>1. Claimants(k)' = {} /\ Afoot(k) = {}
      BY <1>o, <2>1, <2>3
    <3>2. trig'[k].status = "active" /\ trig'[k].claw = cr.claw
      BY <1>0, <2>1, <2>3 DEF TrigRows
    <3>3. Afoot(k)' \subseteq {cr.claw}
      BY <1>0, <2>1, <3>1 DEF Afoot, Existing
    <3> QED  BY <3>1, <3>2, <3>3 DEF KeyInv
  <2> QED  BY <2>2, <2>3
<1>7. ASSUME NEW cr \in creators, CompletionFails(cr) PROVE KeyInv(k)'
  <2>1. /\ creators' = creators \ {cr} /\ UNCHANGED <<keyOf, doubted>> /\ cr.pc = "complete"
        /\ clawSt' = [clawSt EXCEPT ![cr.claw] = IF clawSt[cr.claw] = "error" THEN clawSt[cr.claw] ELSE "deleted"]
        /\ trig' = [trig EXCEPT ![cr.key] = IF trig[cr.key].claw = NoClaw /\ trig[cr.key].status # "none"
                                            THEN Charged(trig[cr.key]) ELSE trig[cr.key]]
        /\ cr.claw \in ClawIds /\ keyOf[cr.claw] = cr.key
    BY <1>7, <1>0, <1>cr DEF CompletionFails, failFactoryTrigger
  <2>2. CASE cr.key # k
    <3>1. \A c \in ClawIds : keyOf[c] = k => clawSt'[c] = clawSt[c]
      BY <1>0, <2>1, <2>2
    <3>2. trig'[k] = trig[k]
      BY <1>0, <2>1, <2>2
    <3> QED  BY <1>g, <2>1, <2>2, <3>1, <3>2
  <2>3. CASE cr.key = k
    <3>1. Claimants(k)' = {} /\ Afoot(k) = {} /\ trig[k].status = "claimed" /\ trig[k].claw = NoClaw
      BY <1>o, <2>1, <2>3
    <3>2. trig'[k].status = "failed"
      BY <1>0, <2>1, <2>3, <3>1 DEF Charged, TrigRows
    <3>3. Afoot(k)' = {}
      <4>1. clawSt'[cr.claw] \in {"error", "deleted"} /\ \A c \in ClawIds \ {cr.claw} : clawSt'[c] = clawSt[c]
        BY <1>0, <2>1
      <4>2. cr.claw \notin Afoot(k)'
        BY <4>1 DEF Afoot, Live
      <4>3. \A c \in ClawIds \ {cr.claw} : c \notin Afoot(k)'
        BY <1>0, <2>1, <3>1, <4>1 DEF Afoot, Existing
      <4> QED  BY <4>2, <4>3 DEF Afoot, Existing
    <3> QED  BY <3>1, <3>2, <3>3 DEF KeyInv
  <2> QED  BY <2>2, <2>3
<1>8. ASSUME NEW cr \in creators, NEW c \in ClawIds, Insert(cr, c) PROVE KeyInv(k)'
  <2> DEFINE made == [cr EXCEPT !.pc = "complete", !.claw = c]
  <2>1. /\ UNCHANGED <<trig, doubted>> /\ creators' = (creators \ {cr}) \cup {made} /\ InsertClaw(cr.key, c)
        /\ cr.pc = "create"
    BY <1>8 DEF Insert
  <2>2. made.pc = "complete" /\ made.claw = c /\ made.key = cr.key
    BY DEF CreationTypeInv, CreatorInv
  <2> HIDE DEF made
  <2>3. /\ clawSt[c] = "none" /\ \A d \in ClawIds \ {c} : clawSt'[d] = clawSt[d] /\ keyOf'[d] = keyOf[d]
    BY <1>0, <2>1 DEF InsertClaw
  <2>4. Afoot(k)' \subseteq Afoot(k)
    <3>1. c \notin Afoot(k)'
      BY <2>1, <2>2 DEF Afoot
    <3>2. \A d \in ClawIds \ {c} : d \in Afoot(k)' => d \in Afoot(k)
      BY <1>0, <1>cr, <2>1, <2>2, <2>3 DEF Afoot, Existing
    <3> QED  BY <3>1, <3>2 DEF Afoot, Existing
  <2>5. CASE cr.key # k
    <3>1. Claimants(k)' = Claimants(k)
      BY <2>1, <2>2, <2>5 DEF Claimants
    <3> QED  BY <1>k, <2>1, <2>4, <3>1
  <2>6. CASE cr.key = k
    <3>1. cr \in Claimants(k) /\ KeyInv(k)
      BY <1>i, <2>1, <2>6 DEF Claimants
    <3>2. Claimants(k) = {cr} /\ Afoot(k) = {} /\ trig[k].status = "claimed" /\ trig[k].claw = NoClaw
      BY <3>1 DEF KeyInv
    <3>3. Claimants(k)' = {made}
      BY <2>1, <2>2, <2>6, <3>2 DEF Claimants
    <3> QED  BY <2>1, <2>4, <3>2, <3>3 DEF KeyInv
  <2> QED  BY <2>5, <2>6
<1>9. ASSUME NEW c \in ClawIds, InsertManual(c) PROVE KeyInv(k)'
  <2>1. /\ UNCHANGED <<trig, doubted, creators>> /\ InsertClaw(NoKey, c) /\ k # NoKey
    BY <1>9, CreationAssumption DEF InsertManual
  <2>2. keyOf'[c] = NoKey /\ \A d \in ClawIds \ {c} : clawSt'[d] = clawSt[d] /\ keyOf'[d] = keyOf[d]
    BY <1>0, <2>1 DEF InsertClaw
  <2>3. Afoot(k)' \subseteq Afoot(k)
    BY <1>0, <2>1, <2>2 DEF Afoot, Existing
  <2>4. Claimants(k)' = Claimants(k)
    BY <2>1 DEF Claimants
  <2> QED  BY <1>k, <2>1, <2>3, <2>4
<1>10. CASE PromoteBegins \/ PromoteLooks \/ ReaperPromotes \/ \E c \in ClawIds : SlotGraceEnds(c)
  <2>1. UNCHANGED <<clawSt, keyOf, trig, creators, doubted>>
    BY <1>10 DEF PromoteBegins, PromoteLooks, ReaperPromotes, SlotGraceEnds
  <2>2. Claimants(k)' = Claimants(k) /\ Afoot(k)' = Afoot(k)
    BY <2>1 DEF Claimants, Afoot, Existing
  <2> QED  BY <1>k, <2>1, <2>2
\* a claw that changes its status without coming to life
<1>11. ASSUME UNCHANGED <<keyOf, trig, creators, doubted>>, NEW c \in ClawIds, NEW s, clawSt' = [clawSt EXCEPT ![c] = s],
              c \in Existing, Live(s) \/ s = "retrying" => Live(clawSt[c]) \/ clawSt[c] = "retrying"
       PROVE KeyInv(k)'
  <2>1. Claimants(k)' = Claimants(k)
    BY <1>11 DEF Claimants
  <2>2. Afoot(k)' \subseteq Afoot(k)
    BY <1>0, <1>11 DEF Afoot, Existing
  <2> QED  BY <1>k, <1>11, <2>1, <2>2
<1>12. CASE PromoteWrites
  <2>1. /\ UNCHANGED <<keyOf, trig, creators, doubted>> /\ chosen \in ClawIds /\ chosen \in Existing
        /\ clawSt' = [clawSt EXCEPT ![chosen] = Promoted(chosen)]
    BY <1>0, <1>12 DEF PromoteWrites
  <2>2. Live(Promoted(chosen)) \/ Promoted(chosen) = "retrying" => Live(clawSt[chosen]) \/ clawSt[chosen] = "retrying"
    BY DEF Promoted, Live
  <2> QED  BY <1>11, <2>1, <2>2
<1>13. ASSUME NEW c \in ClawIds, \/ \E s \in {"error", "deleted"}, inSync \in BOOLEAN : Ends(c, s, inSync)
                                 \/ GoesOffline(c) \/ Retries(c) \/ ComesBack(c)
       PROVE KeyInv(k)'
  <2>1. /\ UNCHANGED <<keyOf, trig, creators, doubted>> /\ clawSt[c] \in {"pending", "active", "offline", "retrying"}
    BY <1>13 DEF Ends, GoesOffline, Retries, ComesBack
  <2>2. PICK s : clawSt' = [clawSt EXCEPT ![c] = s]
    BY <1>13 DEF Ends, GoesOffline, Retries, ComesBack
  <2>3. c \in Existing /\ (Live(clawSt[c]) \/ clawSt[c] = "retrying")
    BY <2>1 DEF Live, Existing
  <2> QED  BY <1>11, <2>1, <2>2, <2>3
<1>14. CASE HubRestarts
  <2>1. /\ keyOf' = keyOf /\ creators' = {} /\ trig' = [j \in Keys |-> Unclaimed(trig[j])]
        /\ doubted' = doubted \cup {j \in Keys : trig[j] # Unclaimed(trig[j])}
        /\ clawSt' = [c \in ClawIds |-> IF clawSt[c] = "retrying" \/ Unassigned(c) THEN "error" ELSE clawSt[c]]
    BY <1>14 DEF HubRestarts
  <2>2. KeyInv(k) /\ trig'[k] = trig[k] /\ Unclaimed(trig[k]) = trig[k]
    BY <1>i, <2>1
  <2>3. ~(trig[k].status = "claimed" /\ trig[k].claw = NoClaw)
    <3>1. ASSUME trig[k].status = "claimed", trig[k].claw = NoClaw PROVE FALSE
      <4>1. Unclaimed(trig[k]).status = "failed"
        BY <1>0, <3>1 DEF Unclaimed, TrigRows
      <4> QED  BY <2>2, <3>1, <4>1
    <3> QED  BY <3>1
  <2>4. Claimants(k) = {}
    BY <2>2, <2>3 DEF KeyInv
  <2>5. Afoot(k)' \subseteq Afoot(k)
    <3>1. \A cr \in creators : \A c \in ClawIds : cr.claw = c => keyOf[c] # k
      BY <1>0, <1>cr, <2>4 DEF Claimants
    <3> QED  BY <1>0, <2>1, <3>1 DEF Afoot, Existing, Live
  <2>6. Claimants(k)' = Claimants(k)
    BY <2>1, <2>4 DEF Claimants
  <2> QED  BY <2>2, <2>4, <2>5, <2>6, KeyKept
<1> QED  BY <1>1, <1>2, <1>3, <1>4, <1>5, <1>6, <1>7, <1>8, <1>9, <1>10, <1>12, <1>13, <1>14
         DEF CreationNext, Creating, Promoting, Leaving

\* At the start there is no claw and no trigger row.
LEMMA CreationInitInv == CreationInit => CreationInv
<1> SUFFICES ASSUME CreationInit PROVE CreationInv
  OBVIOUS
<1> USE DEF CreationInit
<1>0. Existing = {} /\ \A k : Claimants(k) = {} /\ Afoot(k) = {}
  BY DEF Existing, Claimants, Afoot
<1>1. CreationTypeInv
  BY <1>0 DEF CreationTypeInv, CreatorInv, Statuses, TrigRows, NoTrigger, NoClaw
<1>2. RoomInv
  <2>1. \A g : Active(g) \ returned = {}
    BY <1>0 DEF Active
  <2>2. \A g \in Groups : GroupLimit[g] \in Nat
    BY CreationAssumption
  <2>3. Cardinality({}) = 0
    BY FS_EmptySet
  <2>4. AdmissionLimit
    BY <2>1, <2>2, <2>3 DEF AdmissionLimit
  <2> QED  BY <2>4 DEF RoomInv
<1>3. ClaimsInv
  BY <1>0 DEF ClaimsInv, KeyInv, NoTrigger
<1> QED  BY <1>1, <1>2, <1>3 DEF CreationInv

\* Every step of the creation paths, the promotion and the claws' ends keeps it.
LEMMA CreationStep == CreationInv /\ [CreationNext]_creationVars => CreationInv'
<1> SUFFICES ASSUME CreationInv, [CreationNext]_creationVars PROVE CreationInv'
  OBVIOUS
<1>1. CASE CreationNext
  BY <1>1, CreationTypeStep, RoomStep, ClaimsStep DEF CreationInv
<1>2. CASE UNCHANGED creationVars
  <2> USE <1>2 DEF creationVars
  <2>1. CreationTypeInv'
    BY DEF CreationInv, CreationTypeInv, CreatorInv, Existing
  <2>2. RoomInv'
    BY DEF CreationInv, RoomInv, AdmissionLimit, Admitted, Active, Counted, Existing, Group
  <2>3. ClaimsInv'
    BY DEF CreationInv, ClaimsInv, KeyInv, Claimants, Afoot, Existing
  <2> QED  BY <2>1, <2>2, <2>3 DEF CreationInv
<1> QED  BY <1>1, <1>2

\* A trigger has one claw in play or one creator, never both.
LEMMA OneClaw == CreationInv => OneClawPerTrigger
<1> SUFFICES ASSUME CreationInv, NEW k \in Keys \ doubted
             PROVE  Cardinality(InPlay(k)) + Cardinality(Claimants(k)) <= 1
  BY DEF OneClawPerTrigger
<1>1. KeyInv(k) /\ InPlay(k) \subseteq Afoot(k)
  BY DEF CreationInv, ClaimsInv, InPlay, Afoot
<1>2. Cardinality({}) = 0 /\ \A x : Cardinality({x}) = 1
  BY FS_EmptySet, FS_Singleton
<1>3. CASE Claimants(k) = {}
  <2>1. InPlay(k) = {} \/ InPlay(k) = {trig[k].claw}
    BY <1>1, <1>3 DEF KeyInv
  <2>2. Cardinality(Claimants(k)) = 0 /\ (Cardinality(InPlay(k)) = 0 \/ Cardinality(InPlay(k)) = 1)
    BY <1>2, <1>3, <2>1
  <2> QED  BY <2>2
<1>4. CASE Claimants(k) # {}
  <2>1. InPlay(k) = {} /\ \E x : Claimants(k) = {x}
    BY <1>1, <1>4 DEF KeyInv
  <2>2. Cardinality(InPlay(k)) = 0 /\ Cardinality(Claimants(k)) = 1
    BY <1>2, <2>1
  <2> QED  BY <2>2
<1> QED  BY <1>3, <1>4

\* The claws, triggers, creators and the promotion have the values the code writes.
THEOREM CreationTypes == CreationSpec => []CreationTypeOK
<1>1. CreationInv => CreationTypeOK
  BY DEF CreationInv, CreationTypeInv, CreationTypeOK, Statuses, TrigRows, Existing
<1> QED  BY <1>1, CreationInitInv, CreationStep, PTL DEF CreationSpec

\* One claw per trigger and no more claws than a group admits, whatever webhooks, polls,
\* promotions, retries and restarts race (triggers.go, claw_admission.go).
THEOREM CreationIsExclusive == CreationSpec => []CreationHolds
<1>1. CreationInv => CreationHolds
  BY OneClaw DEF CreationInv, RoomInv, CreationHolds
<1> QED  BY <1>1, CreationInitInv, CreationStep, PTL DEF CreationSpec

\* No late callback, retry or promotion brings a deleted claw back.
THEOREM DeletedIsFinal == CreationSpec => DeletedStaysDeleted
<1>1. CreationInv /\ [CreationNext]_creationVars
      => [\A c \in ClawIds : clawSt[c] = "deleted" => clawSt'[c] = "deleted"]_creationVars
  BY DeletedStays DEF CreationInv
<1> QED  BY <1>1, CreationInitInv, CreationStep, PTL DEF CreationSpec, DeletedStaysDeleted
================================================================================
