------------------------------- MODULE StopComment -------------------------------
(***************************************************************************)
(* The tracker comment a stopped claw owes its issue.  pkg/hub:            *)
(* pipeline_runner.go (stopAgentTerminalWithReason and the two comment     *)
(* functions), agent_failure_feedback.go, terminal_transitions.go,         *)
(* reaper.go.  claws.stop_comment_pending is 0 (none), 1 (owed) or 2 (a    *)
(* delivery goroutine has claimed it).                                     *)
(***************************************************************************)
EXTENDS Naturals, FiniteSets

CONSTANTS
    MaxStops,       \* bound on the times the claw stops
    MaxPosts        \* bound on comments posted for a stop

VARIABLES
    stopped,        \* claws.status = 'error'
    pending,        \* stop_comment_pending
    stops,          \* how often the claw has stopped
    dispatching,    \* the stop whose stopAgentTerminalWithReason is under way, or 0
    delivering,     \* deliveries under way: [stop, posted]
    comments,       \* the comments on the issue, by stop
    hubDied

commentVars == <<stopped, pending, stops, dispatching, delivering, comments, hubDied>>

ASSUME StopAssumption == MaxStops \in Nat \ {0} /\ MaxPosts \in Nat \ {0}

CommentInit ==
    /\ stopped = FALSE /\ pending = 0 /\ stops = 0 /\ dispatching = 0
    /\ delivering = {} /\ comments = [k \in 1 .. MaxStops |-> 0] /\ hubDied = FALSE

--------------------------------------------------------------------------------
\* finishClawTerminalTx(error): status and marker in one transaction, refused on
\* a claw that has already stopped.
StopClaw ==
    /\ ~stopped /\ stops < MaxStops /\ dispatching = 0
    /\ stopped' = TRUE /\ pending' = 1 /\ stops' = stops + 1
    /\ dispatching' = stops'
    /\ UNCHANGED <<delivering, comments, hubDied>>

\* Registering again takes a claw out of 'error' (handleClawWS).
RegisterAgain ==
    /\ stopped /\ stopped' = FALSE
    /\ UNCHANGED <<pending, stops, dispatching, delivering, comments, hubDied>>

\* dispatchStopComment
MutDispatch(k) ==
    /\ pending \in {1, 2} /\ pending' = 2
    /\ delivering' = delivering \cup {[stop |-> k, posted |-> pending = 2]}
dispatchStopComment(k) ==
    IF pending = 1
    THEN /\ pending' = 2
         /\ delivering' = delivering \cup {[stop |-> k, posted |-> FALSE]}
    ELSE UNCHANGED <<pending, delivering>>

\* The stop dispatches its own comment after the checkpoint and the volume sync.
StopDispatches ==
    /\ dispatching # 0
    /\ dispatchStopComment(dispatching)
    /\ dispatching' = 0
    /\ UNCHANGED <<stopped, stops, comments, hubDied>>

\* The reaper, after redriveGrace: only claws in 'error' with the marker at 1.
MutOwed == stopped /\ pending = 2
Owed1 == stopped /\ pending = 1
ReaperRedrives ==
    /\ Owed1
    /\ dispatchStopComment(stops)
    /\ UNCHANGED <<stopped, stops, dispatching, comments, hubDied>>

\* ... and a claw whose workflow or issue cannot be found any more owes nothing.
ReaperClears ==
    /\ Owed1 /\ pending' = 0
    /\ comments' = [comments EXCEPT ![stops] = MaxPosts]
    /\ UNCHANGED <<stopped, stops, dispatching, delivering, hubDied>>

\* The tracker takes the comment (external) ...
Post(d) ==
    /\ ~d.posted /\ comments[d.stop] < MaxPosts
    /\ comments' = [comments EXCEPT ![d.stop] = @ + 1]
    /\ delivering' = (delivering \ {d}) \cup {[d EXCEPT !.posted = TRUE]}
    /\ UNCHANGED <<stopped, pending, stops, dispatching, hubDied>>

\* ... and the delivery clears the marker, or, with an error from the tracker,
\* puts it back; either only if the marker is at 2.
DeliveryClears(d) ==
    /\ d.posted
    /\ pending' = IF pending = 2 THEN 0 ELSE pending
    /\ delivering' = delivering \ {d}
    /\ UNCHANGED <<stopped, stops, dispatching, comments, hubDied>>

DeliveryRetries(d) ==
    /\ pending' = IF pending = 2 THEN 1 ELSE pending
    /\ delivering' = delivering \ {d}
    /\ UNCHANGED <<stopped, stops, dispatching, comments, hubDied>>

\* No token or no usable issue any more: the comment is given up.
DeliveryGivesUp(d) ==
    /\ ~d.posted
    /\ pending' = IF pending = 2 THEN 0 ELSE pending
    /\ comments' = [comments EXCEPT ![d.stop] = MaxPosts]
    /\ delivering' = delivering \ {d}
    /\ UNCHANGED <<stopped, stops, dispatching, hubDied>>

\* The hub dies and comes back; nothing resets the marker on boot.
HubDies ==
    /\ ~hubDied /\ hubDied' = TRUE
    /\ dispatching' = 0 /\ delivering' = {}
    /\ UNCHANGED <<stopped, pending, stops, comments>>

CommentNext ==
    \/ StopClaw \/ RegisterAgain \/ StopDispatches \/ ReaperRedrives \/ ReaperClears \/ HubDies
    \/ \E d \in delivering : \/ Post(d) \/ DeliveryClears(d) \/ DeliveryRetries(d)
                             \/ DeliveryGivesUp(d)

CommentSpec == CommentInit /\ [][CommentNext]_commentVars

--------------------------------------------------------------------------------
(* Properties *)

\* The claim prevents two deliveries of the same stop at a time: the first one and
\* the reaper's redrive exclude each other, whatever the tracker's delay.  (After
\* the claw has stopped again, a delivery left over from the first stop can undo
\* the claim of the second, see the README.)
OneDelivery == stops = 1 => Cardinality(delivering) <= 1

\* The comment a stop owes is posted or given up: the stop's own dispatch, or the
\* reaper, delivers it, for a claw that stays stopped, in a hub that does not die.
CommentDelivered ==
    stops = 1 /\ pending # 0 ~> comments[1] > 0 \/ hubDied \/ ~stopped

CommentTypeOK ==
    /\ stopped \in BOOLEAN /\ hubDied \in BOOLEAN
    /\ pending \in 0 .. 2 /\ stops \in 0 .. MaxStops /\ dispatching \in 0 .. stops
    /\ delivering \subseteq [stop : 1 .. MaxStops, posted : BOOLEAN]
    /\ comments \in [1 .. MaxStops -> 0 .. MaxPosts]
    /\ stops = 0 => pending = 0
================================================================================
