-------------------------------- MODULE TurnQueue --------------------------------
(***************************************************************************)
(* The conversation of one claw: message rows on the hub, the connections  *)
(* they are written to, and the bridge that turns them into agent turns.   *)
(* pkg/hub: server.go (handleClawWS, sendNextQueuedMessage,                *)
(* sendWakeMessage, checkClawStatus), no_progress.go, bridge_error.go,     *)
(* lost_turn.go; cmd/claw-bridge/main.go (runHubLoop, msgQueue,            *)
(* messageDeduper).  The hub reserves a turn on the connection before it   *)
(* writes a row, marks the row delivered after, and takes the next one     *)
(* when the reply comes back.                                              *)
(***************************************************************************)
EXTENDS Naturals, Sequences, FiniteSets

CONSTANTS
    MaxRows,        \* bound on messages
    MaxConns,       \* bound on connections
    MaxBreaks,      \* bound on restarts, failed transactions, pauses and takeovers
    LostTurnMax     \* lostTurnRecoveryMax

VARIABLES
    msgRow,         \* messages: none, nag, pending, delivered, wake, settled
    current,        \* s.claws: the connection registered last, or 0
    cc,             \* clawConn by connection, see NoConn
    down,           \* frames from the hub the bridge has not read
    up,             \* frames from the bridge the hub has not read
    bridgeOn,       \* the connection the bridge uses, or 0
    seen,           \* messageDeduper
    turns,          \* runTurn goroutines: [id, on, running]
    replies,        \* msgQueue: completed replies awaiting a connection
    paused,         \* claws.no_progress_paused
    mu,             \* who holds noProgressMu
    owned,          \* a workflow v2 attempt owns the claw
    recoveries,     \* lost_turn_recovery_count
    breaks,
    written,        \* history: the rows written to some connection
    ran,            \* history: turns this bridge process began with each row
    carried         \* history: a turn outlived its connection or its reservation

turnVars == <<msgRow, current, cc, down, up, bridgeOn, seen, turns, replies, paused, mu, owned,
              recoveries, breaks, written, ran, carried>>
hubVars == <<msgRow, current, cc, paused, mu, owned, recoveries>>
bridgeVars == <<bridgeOn, seen, turns, replies>>
historyVars == <<written, ran, carried>>

RowIds == 1 .. MaxRows
Conns == 1 .. MaxConns
\* sock: absent, registering, open, broken (the bridge has left), closed.  turn:
\* the input of the open turn, or 0 for one that opened without an input.  step
\* and at: the sendNextQueuedMessage that has set deliveryInFlight.
NoConn == [sock |-> "absent", busy |-> FALSE, turn |-> 0, mirror |-> FALSE,
           step |-> "idle", at |-> 0]
\* A connection nobody delivers on any more is only known to be closed.
ClosedConn(c) == IF c.step = "idle" THEN [NoConn EXCEPT !.sock = "closed"]
                 ELSE [c EXCEPT !.sock = "closed"]
Reply(m) == [kind |-> "message", id |-> m]
Chunk(m) == [kind |-> "chunk", id |-> m]

ASSUME TurnAssumption == /\ MaxRows \in Nat \ {0} /\ MaxConns \in Nat \ {0}
                         /\ MaxBreaks \in Nat /\ LostTurnMax \in Nat

TurnInit ==
    /\ msgRow = [m \in RowIds |-> "none"]
    /\ current = 0 /\ cc = [e \in Conns |-> NoConn]
    /\ down = [e \in Conns |-> <<>>] /\ up = [e \in Conns |-> <<>>]
    /\ bridgeOn = 0 /\ seen = {} /\ turns = {} /\ replies = <<>>
    /\ paused = FALSE /\ mu = "free" /\ owned = FALSE /\ recoveries = 0 /\ breaks = 0
    /\ written = {} /\ ran = [m \in RowIds |-> 0] /\ carried = FALSE

Break == breaks < MaxBreaks /\ breaks' = breaks + 1
Undelivered(m) == msgRow[m] \in {"pending", "nag"}
Fresh(m) == msgRow[m] = "none" /\ \A n \in 1 .. (m - 1) : msgRow[n] # "none"

--------------------------------------------------------------------------------
(* Rows *)

\* A message is stored: the hub's own, or a user's (after the pause is lifted).
InjectHubMessage(m) ==
    /\ Fresh(m)
    /\ msgRow' = [msgRow EXCEPT ![m] = "pending"]
    /\ UNCHANGED <<current, cc, paused, mu, owned, recoveries, down, up, bridgeVars, breaks, historyVars>>

\* sendStreamingNudge, while a turn is open; equal pending nags are stored once.
sendStreamingNudge(m) ==
    /\ Fresh(m) /\ ~owned /\ current # 0 /\ cc[current].busy
    /\ \A n \in RowIds : msgRow[n] # "nag"
    /\ msgRow' = [msgRow EXCEPT ![m] = "nag"]
    /\ UNCHANGED <<current, cc, paused, mu, owned, recoveries, down, up, bridgeVars, breaks, historyVars>>

MutMuFree == TRUE
\* noProgressMu
MuIsFree == mu = "free"

\* A user's message: resumeNoProgressAfterUserInput clears the row and then the
\* connection, under noProgressMu; InjectHubMessage stores the message after it.
ResumeRow ==
    /\ MuIsFree /\ paused
    /\ paused' = FALSE /\ mu' = "resume"
    /\ UNCHANGED <<msgRow, current, cc, owned, recoveries, down, up, bridgeVars, breaks, historyVars>>

ResumeMirror ==
    /\ mu = "resume" /\ mu' = "free"
    /\ cc' = IF current = 0 THEN cc ELSE [cc EXCEPT ![current].mirror = FALSE]
    /\ UNCHANGED <<msgRow, current, paused, owned, recoveries, down, up, bridgeVars, breaks, historyVars>>

\* observeCompletedTurn, observeBridgeErrorTurn (pauseAutomaticContinuation): an
\* outcome pauses the claw, which can be after the next turn has begun.
PauseRow ==
    /\ MuIsFree /\ ~paused /\ ~owned /\ written # {}
    /\ Break
    /\ paused' = TRUE /\ mu' = "pause"
    /\ UNCHANGED <<msgRow, current, cc, owned, recoveries, down, up, bridgeVars, historyVars>>

PauseMirror ==
    /\ mu = "pause" /\ mu' = "free"
    /\ cc' = IF current = 0 THEN cc ELSE [cc EXCEPT ![current].mirror = TRUE]
    /\ UNCHANGED <<msgRow, current, paused, owned, recoveries, down, up, bridgeVars, breaks, historyVars>>

\* maybeLiftBridgeErrorPause, on a heartbeat: row and connection under the mutex,
\* then the resume message.
maybeLiftBridgeErrorPause ==
    /\ MuIsFree /\ paused /\ current # 0 /\ cc[current].mirror
    /\ paused' = FALSE
    /\ cc' = [cc EXCEPT ![current].mirror = FALSE]
    /\ UNCHANGED <<msgRow, current, mu, owned, recoveries, down, up, bridgeVars, breaks, historyVars>>

\* A workflow v2 run takes the claw over (OwnsClawExecution).
TakeOver == /\ ~owned /\ owned' = TRUE /\ Break
            /\ UNCHANGED <<msgRow, current, cc, paused, mu, recoveries, down, up, bridgeVars, historyVars>>

--------------------------------------------------------------------------------
(* Connections *)

\* runHubLoop dials and registers; handleClawWS reads the pause under
\* noProgressMu ...
RegisterReads(e) ==
    /\ bridgeOn = 0 /\ cc[e].sock = "absent" /\ \A f \in 1 .. (e - 1) : cc[f].sock # "absent"
    /\ MuIsFree
    /\ mu' = "register" /\ bridgeOn' = e
    /\ cc' = [cc EXCEPT ![e].sock = "registering", ![e].mirror = paused]
    /\ UNCHANGED <<msgRow, current, paused, owned, recoveries, down, up, seen, turns, replies, breaks, historyVars>>

\* ... and publishes the connection; the one it supersedes is closed.  The bridge
\* replays its completed replies on the new one.
RegisterPublishes(e) ==
    /\ cc[e].sock = "registering"
    /\ current' = e
    /\ mu' = IF mu = "register" THEN "free" ELSE mu
    /\ cc' = [f \in Conns |-> IF f = e THEN [cc[e] EXCEPT !.sock = "open"]
                              ELSE IF cc[f].sock \in {"open", "broken"}
                                   THEN ClosedConn(cc[f]) ELSE cc[f]]
    /\ up' = [up EXCEPT ![e] = replies]
    /\ replies' = <<>>
    /\ UNCHANGED <<msgRow, paused, owned, recoveries, down, bridgeOn, seen, turns, breaks, historyVars>>

\* The socket breaks: what is in it towards the bridge is lost, what is in it
\* towards the hub may be.
SocketBreaks(e) ==
    /\ bridgeOn = e /\ cc[e].sock = "open"
    /\ bridgeOn' = 0
    /\ cc' = [cc EXCEPT ![e].sock = "broken"]
    /\ down' = [down EXCEPT ![e] = <<>>]
    /\ \E s \in {up[e], <<>>} : up' = [up EXCEPT ![e] = s]
    /\ carried' = (carried \/ turns # {})
    /\ UNCHANGED <<msgRow, current, paused, mu, owned, recoveries, seen, turns, replies, breaks, written, ran>>

\* The read loop ends and its deferred function forgets the connection.
HubNotices(e) ==
    /\ cc[e].sock \in {"broken", "closed"} /\ up[e] = <<>> /\ current = e
    /\ current' = 0
    /\ cc' = [cc EXCEPT ![e] = ClosedConn(@)]
    /\ UNCHANGED <<msgRow, paused, mu, owned, recoveries, down, up, bridgeVars, breaks, historyVars>>

\* The hub process dies: connections, reservations and deliveries are gone.
HubRestart ==
    /\ Break
    /\ current' = 0 /\ mu' = "free" /\ bridgeOn' = 0
    /\ cc' = [e \in Conns |-> IF cc[e].sock = "absent" THEN NoConn
                              ELSE [NoConn EXCEPT !.sock = "closed"]]
    /\ down' = [e \in Conns |-> <<>>] /\ up' = [e \in Conns |-> <<>>]
    /\ carried' = (carried \/ turns # {})
    /\ UNCHANGED <<msgRow, paused, owned, recoveries, seen, turns, replies, written, ran>>

--------------------------------------------------------------------------------
(* sendNextQueuedMessage, and the wake *)

\* isBusyLocked, deliveryInFlight, deliveryBlockedLocked
IdleConn(e) == ~cc[e].busy /\ cc[e].step = "idle" /\ ~cc[e].mirror

SettleAll == [m \in RowIds |-> IF Undelivered(m) THEN "settled" ELSE msgRow[m]]

\* The rows of a claw that workflow v2 owns are display only.
SettlesRows(e) ==
    /\ owned /\ (cc[e].step = "read" \/ (e = current /\ cc[e].step = "idle"))
    /\ \E m \in RowIds : Undelivered(m)
    /\ msgRow' = SettleAll
    /\ cc' = [cc EXCEPT ![e].step = "idle", ![e].at = 0]
    /\ UNCHANGED <<current, paused, mu, owned, recoveries, down, up, bridgeVars, breaks, historyVars>>

\* Called after a registration, a stored message, a reply and on every watchdog
\* tick: claims the delivery and reads the oldest undelivered row.
ReadsRow(e) ==
    /\ e = current /\ ~owned /\ IdleConn(e)
    /\ \E m \in RowIds :
          /\ Undelivered(m) /\ \A n \in 1 .. (m - 1) : ~Undelivered(n)
          /\ cc' = [cc EXCEPT ![e].step = "read", ![e].at = m]
    /\ UNCHANGED <<msgRow, current, paused, mu, owned, recoveries, down, up, bridgeVars, breaks, historyVars>>

\* The ownership and the turn are looked at again, and the turn is reserved.
ReservesTurn(e) ==
    /\ cc[e].step = "read" /\ ~owned
    /\ cc' = IF cc[e].busy \/ cc[e].mirror
             THEN [cc EXCEPT ![e].step = "idle", ![e].at = 0]
             ELSE [cc EXCEPT ![e].step = "reserved", ![e].busy = TRUE, ![e].turn = cc[e].at]
    /\ UNCHANGED <<msgRow, current, paused, mu, owned, recoveries, down, up, bridgeVars, breaks, historyVars>>

\* sendWakeMessage, sendInitialPlanInstruction: a turn with a message of their own,
\* stored as delivered.
WakesAgent(e, m) ==
    /\ cc[e].sock = "open" /\ e = current /\ ~owned /\ Fresh(m)
    /\ ~cc[e].busy /\ ~cc[e].mirror /\ cc[e].step = "idle"
    /\ msgRow' = [msgRow EXCEPT ![m] = "wake"]
    /\ cc' = [cc EXCEPT ![e].step = "reserved", ![e].at = m, ![e].busy = TRUE, ![e].turn = m]
    /\ UNCHANGED <<current, paused, mu, owned, recoveries, down, up, bridgeVars, breaks, historyVars>>

\* A write succeeds on a connection not known to be closed, also when nobody reads
\* it any more.
WritesFrame(e) ==
    /\ cc[e].step = "reserved" /\ cc[e].sock \in {"open", "broken"}
    /\ down' = IF cc[e].sock = "open" THEN [down EXCEPT ![e] = Append(@, cc[e].at)] ELSE down
    /\ written' = written \cup {cc[e].at}
    /\ cc' = IF msgRow[cc[e].at] = "wake" THEN [cc EXCEPT ![e].step = "idle", ![e].at = 0]
             ELSE [cc EXCEPT ![e].step = "written"]
    /\ UNCHANGED <<msgRow, current, paused, mu, owned, recoveries, up, bridgeVars, breaks, ran, carried>>

\* abortTurnLocked, and the deferred end of the delivery
Aborted(c) == [c EXCEPT !.busy = FALSE, !.turn = 0, !.step = "idle", !.at = 0]

WriteFails(e) ==
    /\ cc[e].step = "reserved" /\ cc[e].sock \in {"broken", "closed"}
    /\ cc' = [cc EXCEPT ![e] = Aborted(@)]
    /\ UNCHANGED <<msgRow, current, paused, mu, owned, recoveries, down, up, bridgeVars, breaks, historyVars>>

\* UPDATE messages SET delivered_at ... WHERE delivered_at IS NULL
Marked(m) == [msgRow EXCEPT ![m] = IF Undelivered(m) THEN "delivered" ELSE @]

MarksDelivered(e) ==
    /\ cc[e].step = "written"
    /\ msgRow' = Marked(cc[e].at)
    /\ cc' = [cc EXCEPT ![e].step = "idle", ![e].at = 0]
    /\ UNCHANGED <<current, paused, mu, owned, recoveries, down, up, bridgeVars, breaks, historyVars>>

\* The transaction fails: the turn stays open and the row undelivered.
MarkFails(e) ==
    /\ cc[e].step = "written" /\ Break
    /\ cc' = [cc EXCEPT ![e].step = "idle", ![e].at = 0]
    /\ UNCHANGED <<msgRow, current, paused, mu, owned, recoveries, down, up, bridgeVars, historyVars>>

--------------------------------------------------------------------------------
(* The bridge *)

MutAlreadySeen(m) == FALSE
\* messageDeduper.seen; the 128 ids it keeps are more than a connection loses.
AlreadySeen(m) == m \in seen

BridgeReads(e) ==
    /\ bridgeOn = e /\ down[e] # <<>> /\ cc[e].sock = "open"
    /\ down' = [down EXCEPT ![e] = Tail(@)]
    /\ LET m == Head(down[e]) IN
       /\ seen' = seen \cup {m}
       /\ turns' = IF AlreadySeen(m) THEN turns
                   ELSE turns \cup {[id |-> m, on |-> e, running |-> FALSE]}
    /\ UNCHANGED <<hubVars, up, bridgeOn, replies, breaks, historyVars>>

\* SendMessage takes sendMu: one turn at a time, in any order.
TurnStarts(t) ==
    /\ t \in turns /\ ~t.running /\ \A u \in turns : ~u.running
    /\ turns' = (turns \ {t}) \cup {[t EXCEPT !.running = TRUE]}
    /\ ran' = [ran EXCEPT ![t.id] = IF @ < 2 THEN @ + 1 ELSE @]
    /\ UNCHANGED <<hubVars, down, up, bridgeOn, seen, replies, breaks, written, carried>>

\* Chunks and activity go to the connection the turn came on, or nowhere.
Streams(t) ==
    /\ t \in turns /\ t.running /\ bridgeOn = t.on /\ cc[t.on].sock = "open"
    /\ Len(up[t.on]) < 1
    /\ up' = [up EXCEPT ![t.on] = Append(@, Chunk(t.id))]
    /\ UNCHANGED <<hubVars, down, bridgeVars, breaks, historyVars>>

\* So does the reply, or it waits in the queue for the next registration.
TurnReplies(t) ==
    /\ t \in turns /\ t.running
    /\ turns' = turns \ {t}
    /\ IF bridgeOn = t.on /\ cc[t.on].sock = "open"
       THEN up' = [up EXCEPT ![t.on] = Append(@, Reply(t.id))] /\ UNCHANGED replies
       ELSE replies' = Append(replies, Reply(t.id)) /\ UNCHANGED up
    /\ UNCHANGED <<hubVars, down, bridgeOn, seen, breaks, historyVars>>

\* The sandbox's process restarts with nothing in memory.
BridgeRestarts ==
    /\ bridgeOn = 0 /\ Break
    /\ seen' = {} /\ turns' = {} /\ replies' = <<>>
    /\ carried' = TRUE /\ ran' = [m \in RowIds |-> 0]
    /\ UNCHANGED <<hubVars, down, up, bridgeOn, written>>

--------------------------------------------------------------------------------
(* What the hub reads, and the watchdog *)

\* finishTurnLocked
MutKeepsBusy(c) == [c EXCEPT !.turn = 0]
Finished(c) == [c EXCEPT !.busy = FALSE, !.turn = 0]
\* deleteStaleWatchdogNags
NagsDropped == [m \in RowIds |-> IF msgRow[m] = "nag" THEN "settled" ELSE msgRow[m]]

\* A chunk is put to the registered connection, a reply ends the turn of the
\* connection it was read from.
HubReads(e) ==
    /\ up[e] # <<>> /\ cc[e].sock \in {"open", "broken", "closed"}
    /\ up' = [up EXCEPT ![e] = Tail(@)]
    /\ IF Head(up[e]).kind = "chunk"
       THEN /\ cc' = IF current = 0 THEN cc ELSE [cc EXCEPT ![current].busy = TRUE]
            /\ UNCHANGED <<msgRow, carried>>
       ELSE /\ cc' = [cc EXCEPT ![e] = Finished(@)]
            /\ msgRow' = NagsDropped
            /\ carried' = (carried \/ (cc[e].sock = "open" /\ cc[e].turn # Head(up[e]).id))
    /\ UNCHANGED <<current, paused, mu, owned, recoveries, down, bridgeVars, breaks, written, ran>>

\* busyTurnMax has passed.
ForcesFinish ==
    /\ current # 0 /\ cc[current].busy
    /\ cc' = [cc EXCEPT ![current] = Finished(@)]
    /\ msgRow' = NagsDropped
    /\ carried' = TRUE
    /\ UNCHANGED <<current, paused, mu, owned, recoveries, down, up, bridgeVars, breaks, written, ran>>

\* recoverLostTurn: the heartbeats of the whole grace report no active turn.
recoverLostTurn(m) ==
    /\ current # 0 /\ cc[current].busy /\ ~owned /\ Fresh(m)
    /\ bridgeOn = current /\ turns = {} /\ down[current] = <<>> /\ up[current] = <<>>
    /\ recoveries < LostTurnMax /\ recoveries' = recoveries + 1
    /\ cc' = [cc EXCEPT ![current] = Finished(@)]
    /\ msgRow' = [NagsDropped EXCEPT ![m] = "pending"]
    /\ carried' = TRUE
    /\ UNCHANGED <<current, paused, mu, owned, down, up, bridgeVars, breaks, written, ran>>

--------------------------------------------------------------------------------
Delivers(e) == ReadsRow(e) \/ ReservesTurn(e) \/ WritesFrame(e) \/ WriteFails(e) \/ MarksDelivered(e)

TurnNext ==
    \/ ResumeRow \/ PauseRow \/ PauseMirror \/ TakeOver \/ HubRestart \/ BridgeRestarts
    \/ ForcesFinish \/ ResumeMirror \/ maybeLiftBridgeErrorPause
    \/ \E m \in RowIds : InjectHubMessage(m) \/ sendStreamingNudge(m) \/ recoverLostTurn(m)
    \/ \E e \in Conns : \/ RegisterReads(e) \/ RegisterPublishes(e) \/ SocketBreaks(e)
                        \/ HubNotices(e) \/ SettlesRows(e) \/ Delivers(e) \/ MarkFails(e)
                        \/ BridgeReads(e) \/ HubReads(e)
                        \/ \E m \in RowIds : WakesAgent(e, m)
    \/ \E t \in turns : TurnStarts(t) \/ Streams(t) \/ TurnReplies(t)

TurnSpec == TurnInit /\ [][TurnNext]_turnVars

--------------------------------------------------------------------------------
(* Properties *)

TurnTypeOK ==
    /\ msgRow \in [RowIds -> {"none", "nag", "pending", "delivered", "wake", "settled"}]
    /\ current \in Conns \cup {0} /\ bridgeOn \in Conns \cup {0}
    /\ cc \in [Conns -> [sock : {"absent", "registering", "open", "broken", "closed"},
                         busy : BOOLEAN, turn : RowIds \cup {0}, mirror : BOOLEAN,
                         step : {"idle", "read", "reserved", "written"}, at : RowIds \cup {0}]]
    /\ \A e \in Conns : cc[e].turn # 0 => cc[e].busy
    /\ seen \subseteq RowIds
    /\ \A t \in turns : t \in [id : RowIds, on : Conns, running : BOOLEAN]
    /\ paused \in BOOLEAN /\ owned \in BOOLEAN /\ recoveries \in 0 .. LostTurnMax

\* A row is only marked delivered after it was written to a connection: whatever
\* fails or dies in between, it is written again rather than lost.
DeliveredWasWritten == \A m \in RowIds : msgRow[m] = "delivered" => m \in written

\* A row written twice (its delivery could not be recorded, or the hub died before
\* it was) starts one turn: the bridge knows the id, unless it restarted itself.
RunsOnce == \A m \in RowIds : ran[m] <= 1

\* One turn at a time per connection: until a turn outlives its connection, or is
\* given up by the watchdog, the bridge holds no second input of a connection.
Outstanding(e) == {m \in RowIds : \/ \E i \in 1 .. Len(down[e]) : down[e][i] = m
                                  \/ \E t \in turns : t.id = m /\ t.on = e}
OneTurnAtATime == carried \/ \A e \in Conns : Cardinality(Outstanding(e)) <= 1

\* A stored message is never lost, never run twice, and never written on top of
\* another turn.
DeliveredOnce == DeliveredWasWritten /\ RunsOnce /\ OneTurnAtATime

\* Whoever pauses, resumes or lifts, and however the bridge reconnects meanwhile,
\* the registered connection's copy of the pause agrees with the row.
PauseMirrored == mu = "free" /\ current # 0 => cc[current].mirror = paused

\* A stored message is delivered (or settled) as long as the claw is connected and
\* not paused: no failed write, lost reply or stray chunk blocks the queue.
QueueDrains == \A m \in RowIds :
    msgRow[m] = "pending" ~> msgRow[m] # "pending" \/ paused \/ current = 0 \/ owned
================================================================================
