----------------------------- MODULE LifecycleRoutes -----------------------------
(***************************************************************************)
(* Lifecycle notifications through several routes.  pkg/hub:               *)
(* lifecycle_notifier.go and lifecycle_claw_notifier.go.  One goroutine    *)
(* ticks; a tick brings the per-route state in line with the configured    *)
(* routes, then delivers the task-run events behind each route's cursor    *)
(* and the states of ad-hoc claws that have no delivery row for the route. *)
(* The hub may restart between any two steps of a tick.                    *)
(*                                                                         *)
(* What happened is one sequence; an entry is a task-run event (its index  *)
(* stands for the rowid) or a state a claw has entered after the ad-hoc    *)
(* grace (it lasts).  A notifier is named by its via.                      *)
(***************************************************************************)
EXTENDS Integers, Sequences, FiniteSets, FiniteSetsExt

CONSTANTS
    Names,          \* notifier names
    Types,          \* event types
    Kinds,          \* what can happen, pairs of a source ("task" or "claw") and a type
    Accepts,        \* [Names -> SUBSET Types], the routes' allow-lists
    Incumbent,      \* the `via` of a hub that predates routes
    MaxTransient,   \* lifecycleMaxTransientFailures
    MaxHappened,    \* bound on the events and claw states
    MaxChanges      \* bound on saves, outages, faults and restarts together

VARIABLES
    happened,       \* Seq of [src, type]
    nconf,          \* the saved config: [on, routes, muted]
    unbuildable,    \* notifiers whose secret does not resolve
    ndb,            \* slack_notifier_state and the two delivery tables
    stash,          \* lifecyclePendingDeliveries, pairs <<table, event>>
    tick,           \* the tick under way
    changes,        \* how often the surroundings have changed
    ledger          \* per notifier what it may get, is owed, got, and how

routeVars == <<happened, nconf, unbuildable, ndb, stash, tick, changes, ledger>>

Legacy == "legacy"
NoCursor == -1
Ids == 1 .. MaxHappened

ASSUME RoutesAssumption ==
    /\ IsFiniteSet(Names) /\ Incumbent \in Names /\ Legacy \notin Names
    /\ Accepts \in [Names -> SUBSET Types]
    /\ Kinds \subseteq {"task", "claw"} \X Types
    /\ MaxTransient \in Nat \ {0} /\ MaxHappened \in Nat \ {0} /\ MaxChanges \in Nat

NoTick == [pc |-> "idle", routes |-> {}, muted |-> {}, built |-> {}, wm |-> [n \in {} |-> 0],
         todo |-> {}, at |-> Legacy, cand |-> {}, handled |-> 0, floor |-> NoCursor,
         paused |-> {}, sent |-> 0]

FreshState ==
    [shared |-> NoCursor, cursor |-> [n \in Names |-> NoCursor], stamp |-> {},
     clawBase |-> FALSE, latch |-> FALSE, rows |-> [t \in Names \cup {Legacy} |-> {}],
     streak |-> [t \in Names \cup {Legacy} |-> [i \in Ids |-> 0]]]

\* A hub that has delivered through one `via` since before routes existed.
LegacyState == [FreshState EXCEPT !.shared = 0, !.clawBase = TRUE]

Of(src) == {i \in DOMAIN happened : happened[i].src = src}
Typed(ts) == {i \in DOMAIN happened : happened[i].type \in ts}
lifecycleMaxEventRowID == Max(Of("task") \cup {0})

--------------------------------------------------------------------------------
(* The per-route state, as functions of the tables *)

lifecycleRoutingSchemeLive(d) == d.latch \/ \E n \in Names : d.cursor[n] # NoCursor
lifecycleSingleViaIncumbent(d, n) == n \in d.stamp

lifecycleRoutesNeedOwnState(d, routes) ==
    \/ Cardinality(routes) >= 2
    \/ \E n \in routes : ~lifecycleSingleViaIncumbent(d, n) /\ lifecycleRoutingSchemeLive(d)

\* pruneLifecycleRouteState, clearLifecycleTransientFailures
MutPrune(d, routes) ==
    LET gone == {n \in Names \ routes : d.cursor[n] # NoCursor \/ n \in d.stamp}
    IN  [d EXCEPT !.latch = @ \/ \E n \in Names : d.cursor[n] # NoCursor,
                  !.cursor = [n \in Names |-> IF n \in gone THEN NoCursor ELSE @[n]],
                  !.stamp = @ \ gone]
pruneLifecycleRouteState(d, routes) ==
    LET gone == {n \in Names \ routes : d.cursor[n] # NoCursor \/ n \in d.stamp}
    IN  [d EXCEPT !.latch = @ \/ gone # {} \/ \E n \in Names : d.cursor[n] # NoCursor,
                  !.cursor = [n \in Names |-> IF n \in gone THEN NoCursor ELSE @[n]],
                  !.stamp = @ \ gone,
                  !.streak = [t \in DOMAIN @ |-> IF t \in gone THEN [i \in Ids |-> 0] ELSE @[t]]]

\* The position a route without a cursor is given.
MutStartHead(d, routes, n) == lifecycleMaxEventRowID
StartOf(d, routes, n) ==
    LET incumbents == routes \cap d.stamp
    IN  IF /\ d.shared # NoCursor
           /\ n \in incumbents \/ (~lifecycleRoutingSchemeLive(d) /\ incumbents = {})
        THEN d.shared ELSE lifecycleMaxEventRowID

ensureLifecycleRouteWatermarks(d, routes) ==
    IF ~lifecycleRoutesNeedOwnState(d, routes) THEN d
    ELSE [d EXCEPT !.shared = IF @ = NoCursor THEN lifecycleMaxEventRowID ELSE @,
                   !.cursor = [n \in Names |-> IF n \in routes /\ @[n] = NoCursor
                                               THEN StartOf(d, routes, n) ELSE @[n]],
                   !.latch = TRUE]

\* Rows with status skipped: one for all routes, or one of the route's own, which
\* also latches the scheme.
SkipForAll(d, ids) == [d EXCEPT !.rows[Legacy] = @ \cup ids]
lifecycleClawRouteSkip(d, n, ids) == [d EXCEPT !.rows[n] = @ \cup ids, !.latch = TRUE]

\* First run of the claw pass: everything so far is history, for every route.
seedLifecycleClawBaseline(d, routes) ==
    [SkipForAll(d, Of("claw")) EXCEPT !.clawBase = TRUE, !.stamp = @ \cup routes]

stampLifecycleLegacyIncumbent(d, routes) ==
    IF Cardinality(routes) = 1 /\ d.clawBase /\ ~lifecycleRoutingSchemeLive(d)
    THEN [d EXCEPT !.stamp = @ \cup routes] ELSE d

ensureLifecycleClawRouteBaselines(d, routes) ==
    LET new == {n \in routes \ d.stamp : d.cursor[n] # NoCursor}
    IN  IF ~lifecycleRoutesNeedOwnState(d, routes) THEN stampLifecycleLegacyIncumbent(d, routes)
        ELSE IF ~d.clawBase
        THEN IF \A n \in routes : d.cursor[n] # NoCursor
             THEN seedLifecycleClawBaseline(d, routes) ELSE d
        ELSE [d EXCEPT !.rows = [t \in DOMAIN @ |-> IF t \in new THEN @[t] \cup Of("claw") ELSE @[t]],
                       !.stamp = @ \cup new,
                       !.latch = @ \/ new # {}]

\* parkLifecycleWatermark, parkLifecycleClawState
parkLifecycleWatermark(d) ==
    LET head == lifecycleMaxEventRowID
        park(c) == IF c = NoCursor \/ c > head THEN c ELSE head
    IN  [d EXCEPT !.shared = park(@), !.cursor = [n \in Names |-> park(@[n])]]
parkLifecycleClawState(d) == IF d.clawBase THEN SkipForAll(d, Of("claw")) ELSE d

\* initLifecycleNotifierBaseline
BootState(d, routes) ==
    LET d1 == [d EXCEPT !.shared = IF @ = NoCursor THEN lifecycleMaxEventRowID ELSE @]
        d2 == IF ~d1.clawBase THEN seedLifecycleClawBaseline(d1, routes)
              ELSE IF d1.stamp # {} THEN d1
              ELSE IF ~lifecycleRoutingSchemeLive(d1) /\ Cardinality(routes) = 1
              THEN [d1 EXCEPT !.stamp = routes]
              ELSE [d1 EXCEPT !.latch = TRUE]
        d3 == pruneLifecycleRouteState(d2, routes)
    IN  ensureLifecycleClawRouteBaselines(ensureLifecycleRouteWatermarks(d3, routes), routes)

--------------------------------------------------------------------------------
(* What happens around the notifier *)

Change == changes < MaxChanges /\ changes' = changes + 1

\* A route is owed what happens once it is configured and has its place in both
\* sources, unless the tick under way has the type muted; it may be told what happens
\* from the tick on that first saw it.
Placed(n, type) ==
    /\ n \in ndb.stamp /\ ndb.clawBase /\ type \notin tick.muted
    /\ ndb.cursor[n] # NoCursor \/ ndb.shared # NoCursor
Happens(src, type) ==
    /\ Len(happened) < MaxHappened
    /\ happened' = Append(happened, [src |-> src, type |-> type])
    /\ LET i == Len(happened) + 1
           to == {n \in ledger.seen : type \in Accepts[n]}
       IN  ledger' = [ledger EXCEPT
               !.may = [n \in Names |-> IF n \in to THEN @[n] \cup {i} ELSE @[n]],
               !.owed = [n \in Names |-> IF n \in to /\ Placed(n, type) THEN @[n] \cup {i} ELSE @[n]]]
    /\ UNCHANGED <<nconf, unbuildable, ndb, stash, tick, changes>>

\* The operator saves a setting, a notifier's secret breaks or is repaired.
Saves ==
    /\ Change
    /\ \/ nconf' = [nconf EXCEPT !.on = ~@]
       \/ \E r \in (SUBSET Names) \ {{}, nconf.routes} : nconf' = [nconf EXCEPT !.routes = r]
       \/ \E t \in Types : nconf' = [nconf EXCEPT !.muted = IF t \in @ THEN @ \ {t} ELSE @ \cup {t}]
    /\ UNCHANGED <<happened, unbuildable, ndb, stash, tick, ledger>>
Breaks(n) ==
    /\ Change /\ n \notin unbuildable /\ unbuildable' = unbuildable \cup {n}
    /\ UNCHANGED <<happened, nconf, ndb, stash, tick, ledger>>
Repairs(n) ==
    /\ n \in unbuildable /\ unbuildable' = unbuildable \ {n}
    /\ UNCHANGED <<happened, nconf, ndb, stash, tick, changes, ledger>>

\* What the ledger says once a tick or a boot has seen the configured routes.
SeenBy(l, routes) ==
    [l EXCEPT !.seen = routes,
              !.may = [n \in Names |-> IF n \in routes THEN @[n] ELSE {}],
              !.owed = [n \in Names |-> IF n \in routes THEN @[n] ELSE {}],
              !.fails = [n \in Names |-> IF n \in routes THEN @[n] ELSE [i \in Ids |-> 0]]]

\* What happened is no longer due: notifications or its type are off.
Without(l, ids) == [l EXCEPT !.may = [n \in Names |-> @[n] \ ids],
                             !.owed = [n \in Names |-> @[n] \ ids]]

\* The hub dies and boots; rows that were still to be written are lost.
Restarts ==
    /\ Change
    /\ tick' = NoTick /\ stash' = {}
    /\ LET unwritten == {p[2] : p \in stash} \cup ({tick.sent} \ {0})
           l == [ledger EXCEPT !.lost = @ \cup unwritten,
                               !.half = @ \/ (ndb.shared # NoCursor /\ ~ndb.clawBase)]
       IN  IF nconf.on THEN ndb' = BootState(ndb, nconf.routes) /\ ledger' = SeenBy(l, nconf.routes)
           ELSE ledger' = l /\ UNCHANGED ndb
    /\ UNCHANGED <<happened, nconf, unbuildable>>

--------------------------------------------------------------------------------
(* lifecycleNotifierTick *)

\* flushPendingNotificationDeliveries, the config, and the per-route state brought in
\* line with it.  ok: the database takes the stashed rows; readable: the state can
\* be read, or ensureLifecycleRouteWatermarks returns early.
TickStarts(ok, readable) ==
    /\ tick = NoTick
    /\ IF ok /\ readable THEN UNCHANGED changes ELSE Change
    /\ ok \/ stash # {}
    /\ readable \/ nconf.on
    /\ LET routes == nconf.routes
           d == IF ok THEN [ndb EXCEPT !.rows = [t \in DOMAIN @ |->
                               @[t] \cup {p[2] : p \in {q \in stash : q[1] = t}}]] ELSE ndb
           d1 == pruneLifecycleRouteState(d, routes)
           d2 == IF readable THEN ensureLifecycleRouteWatermarks(d1, routes) ELSE d1
           l == [ledger EXCEPT !.half = @ \/ (~readable /\ Cardinality(routes) = 1)]
       IN  IF nconf.on
           THEN /\ ndb' = ensureLifecycleClawRouteBaselines(d2, routes)
                /\ ledger' = SeenBy(l, routes)
                /\ tick' = [NoTick EXCEPT !.pc = "build", !.routes = routes, !.muted = nconf.muted]
           ELSE /\ ndb' = parkLifecycleClawState(parkLifecycleWatermark(d))
                /\ ledger' = Without(ledger, Ids) /\ UNCHANGED tick
    /\ stash' = IF ok THEN {} ELSE stash
    /\ UNCHANGED <<happened, nconf, unbuildable>>

singleRoute == tick.built = tick.routes /\ Cardinality(tick.built) = 1

lifecycleWatermarkKeyFor(d, n, single) ==
    IF \/ ~single \/ d.cursor[n] # NoCursor
       \/ (~lifecycleSingleViaIncumbent(d, n) /\ lifecycleRoutingSchemeLive(d))
    THEN n ELSE Legacy
CursorAt(d, key) == IF key = Legacy THEN d.shared ELSE d.cursor[key]

\* skipLifecycleMutedEvents
skipLifecycleMutedEvents(d, after, muted) ==
    SkipForAll(d, {i \in Of("task") \cap Typed(muted) : i > after})

\* The notifiers are built and lifecycleTaskRunPass reads the cursors.
TickBuilds ==
    /\ tick.pc = "build"
    /\ LET built == tick.routes \ unbuildable
           single == built = tick.routes /\ Cardinality(built) = 1
           key(n) == lifecycleWatermarkKeyFor(ndb, n, single)
           with == {n \in built : CursorAt(ndb, key(n)) # NoCursor}
           wm == [n \in with |-> CursorAt(ndb, key(n))]
           first == \E n \in built \ with : key(n) = Legacy
           allMuted == Types \subseteq tick.muted
           lowest == Min({wm[n] : n \in with})
           next == [tick EXCEPT !.pc = "task", !.built = built, !.wm = wm, !.todo = with]
       IN  \/ /\ built = {} /\ tick' = NoTick /\ UNCHANGED <<ndb, ledger>>
           \/ /\ built # {} /\ with = {}
              /\ ndb' = IF first THEN [ndb EXCEPT !.shared = lifecycleMaxEventRowID] ELSE ndb
              /\ tick' = next /\ UNCHANGED ledger
           \/ /\ with # {} /\ allMuted
              /\ ndb' = parkLifecycleWatermark(ndb)
              /\ ledger' = Without(ledger, Of("task"))
              /\ tick' = [next EXCEPT !.todo = {}]
           \/ /\ with # {} /\ ~allMuted
              /\ ndb' = skipLifecycleMutedEvents(ndb, lowest, tick.muted)
              /\ ledger' = Without(ledger, {i \in Of("task") \cap Typed(tick.muted) : i > lowest})
              /\ tick' = next
    /\ UNCHANGED <<happened, nconf, unbuildable, stash, changes>>

\* lifecycleTaskRunRoutePass begins with selectLifecycleCandidateEvents.
TaskRouteStarts(n) ==
    /\ tick.pc = "task" /\ tick.at = Legacy /\ n \in tick.todo
    /\ tick' = [tick EXCEPT !.at = n, !.handled = tick.wm[n],
           !.cand = {i \in Of("task") \ (Typed(tick.muted) \cup ndb.rows[Legacy]) : i > tick.wm[n]}]
    /\ UNCHANGED <<happened, nconf, unbuildable, ndb, stash, changes, ledger>>

--------------------------------------------------------------------------------
(* One event through one route: postLifecycleRoute, handleLifecycleSendError *)

Sending == tick.at # Legacy /\ tick.cand # {} /\ tick.sent = 0
Event == Min(tick.cand)
Past(i) == [tick EXCEPT !.cand = @ \ {i}, !.sent = 0,
                        !.handled = IF tick.pc = "task" THEN i ELSE @]
Parked == [tick EXCEPT !.cand = {}, !.paused = @ \cup {tick.at}]

lifecycleRouteDelivered(n, i) ==
    \/ i \in ndb.rows[n] \cup ndb.rows[Legacy]
    \/ <<n, i>> \in stash \/ <<Legacy, i>> \in stash

\* The tables a delivery is recorded in.
RecordedIn(n) == IF singleRoute THEN {n, Legacy} ELSE {n}
WithRows(d, i) == [d EXCEPT !.rows = [t \in DOMAIN @ |->
                      IF t \in RecordedIn(tick.at) THEN @[t] \cup {i} ELSE @[t]]]

\* Not this route's type, or there is a row for it already.
PassesOver ==
    /\ Sending
    /\ \/ happened[Event].type \notin Accepts[tick.at]
       \/ lifecycleRouteDelivered(tick.at, Event)
    /\ tick' = Past(Event)
    /\ UNCHANGED <<happened, nconf, unbuildable, ndb, stash, changes, ledger>>

ToSend == /\ Sending /\ happened[Event].type \in Accepts[tick.at]
          /\ ~lifecycleRouteDelivered(tick.at, Event)

\* The provider (external) takes the message; the rows are written next, or, when
\* the database does not take them, stashed.
Sends ==
    /\ ToSend
    /\ tick' = [tick EXCEPT !.sent = Event]
    /\ ledger' = [ledger EXCEPT !.sends[tick.at][Event] = @ + 1,
                                !.fails[tick.at][Event] = 0,
                                !.done[tick.at] = @ \cup {Event}]
    /\ UNCHANGED <<happened, nconf, unbuildable, ndb, stash, changes>>

Records(ok) ==
    /\ tick.sent # 0
    /\ IF ok THEN UNCHANGED changes ELSE Change
    /\ LET d == IF ok THEN WithRows(ndb, tick.sent) ELSE ndb
       IN  ndb' = [d EXCEPT !.streak = [t \in DOMAIN @ |->
                       IF t \in RecordedIn(tick.at) THEN [@[t] EXCEPT ![tick.sent] = 0] ELSE @[t]]]
    /\ stash' = IF ok THEN stash ELSE stash \cup {<<t, tick.sent>> : t \in RecordedIn(tick.at)}
    /\ tick' = Past(tick.sent)
    /\ UNCHANGED <<happened, nconf, unbuildable, ledger>>

\* ErrorConfig pauses the route for this tick.
FailsConfig ==
    /\ ToSend /\ Change
    /\ tick' = Parked
    /\ UNCHANGED <<happened, nconf, unbuildable, ndb, stash, ledger>>

\* ErrorPermanent
FailsPermanently ==
    /\ ToSend /\ Change
    /\ ndb' = WithRows(ndb, Event)
    /\ tick' = Past(Event)
    /\ ledger' = [ledger EXCEPT !.done[tick.at] = @ \cup {Event}]
    /\ UNCHANGED <<happened, nconf, unbuildable, stash>>

\* The streak a transient failure continues: the key of the other shape counts
\* when this one has none.
MutStreak(key, prior, i) == 0
StreakSoFar(key, prior, i) ==
    IF ndb.streak[key][i] # 0 THEN ndb.streak[key][i] ELSE ndb.streak[prior][i]

FailsTransiently ==
    /\ ToSend
    /\ LET i == Event
           key == IF singleRoute THEN Legacy ELSE tick.at
           prior == IF singleRoute THEN tick.at ELSE Legacy
           count == StreakSoFar(key, prior, i) + 1
           d == IF ndb.streak[key][i] = 0 THEN [ndb EXCEPT !.streak[prior][i] = 0] ELSE ndb
       IN  /\ ledger' = [ledger EXCEPT !.fails[tick.at][i] = Min({@ + 1, MaxTransient + 1}),
                  !.done[tick.at] = IF count >= MaxTransient THEN @ \cup {i} ELSE @]
           /\ IF count >= MaxTransient
              THEN /\ ndb' = WithRows([d EXCEPT !.streak[key][i] = 0], i)
                   /\ tick' = Past(i)
              ELSE /\ ndb' = [d EXCEPT !.streak[key][i] = count]
                   /\ tick' = Parked
    /\ UNCHANGED <<happened, nconf, unbuildable, stash, changes>>

\* The route's cursor moves over what it handled; the write may fail.
TaskRouteEnds(ok) ==
    /\ tick.pc = "task" /\ tick.at # Legacy /\ tick.cand = {} /\ tick.sent = 0
    /\ IF ok THEN UNCHANGED changes ELSE Change /\ tick.handled > tick.wm[tick.at]
    /\ LET n == tick.at
           key == lifecycleWatermarkKeyFor(ndb, n, singleRoute)
       IN  /\ ndb' = IF ~ok \/ tick.handled <= tick.wm[n] THEN ndb
                     ELSE IF key = Legacy THEN [ndb EXCEPT !.shared = tick.handled]
                     ELSE [ndb EXCEPT !.cursor[n] = tick.handled]
           /\ tick' = [tick EXCEPT !.at = Legacy, !.todo = @ \ {n}, !.handled = 0,
                  !.floor = IF @ = NoCursor \/ tick.handled < @ THEN tick.handled ELSE @]
    /\ UNCHANGED <<happened, nconf, unbuildable, stash, ledger>>

\* advanceLifecycleWatermarkFloor; then lifecycleClawPass, whose first run only seeds.
TaskPassEnds ==
    /\ tick.pc = "task" /\ tick.at = Legacy /\ tick.todo = {}
    /\ LET rises == /\ ~singleRoute /\ tick.built = tick.routes /\ DOMAIN tick.wm = tick.built
                    /\ tick.floor > 0 /\ tick.floor > ndb.shared
           d == IF rises THEN [ndb EXCEPT !.shared = tick.floor] ELSE ndb
           off == Of("claw") \cap Typed(tick.muted)
       IN  IF ~d.clawBase
           THEN /\ ndb' = seedLifecycleClawBaseline(d, tick.routes)
                /\ tick' = NoTick /\ UNCHANGED ledger
           ELSE /\ ndb' = SkipForAll(d, off)
                /\ tick' = IF tick.built = tick.paused THEN NoTick
                           ELSE [tick EXCEPT !.pc = "claw", !.todo = tick.built \ tick.paused,
                                             !.wm = [n \in {} |-> 0], !.floor = NoCursor, !.paused = {}]
                /\ ledger' = Without(ledger, off)
    /\ UNCHANGED <<happened, nconf, unbuildable, stash, changes>>

--------------------------------------------------------------------------------
(* lifecycleClawRoutePass *)

\* ensureLifecycleClawRouteBaseline: whether the route may deliver, and the state.
BaselineOf(d, n) ==
    LET seeded == [lifecycleClawRouteSkip(d, n, Of("claw")) EXCEPT !.stamp = @ \cup {n}]
    IN  IF n \in d.stamp THEN [may |-> TRUE, db |-> d]
        ELSE IF singleRoute /\ ~lifecycleRoutingSchemeLive(d)
        THEN [may |-> TRUE, db |-> [d EXCEPT !.stamp = @ \cup {n}]]
        ELSE IF singleRoute \/ d.cursor[n] # NoCursor THEN [may |-> FALSE, db |-> seeded]
        ELSE [may |-> FALSE, db |-> d]

\* The tick is over after the last route.
AfterRoute(n) == IF tick.todo = {n} THEN NoTick
                 ELSE [tick EXCEPT !.at = Legacy, !.todo = @ \ {n}, !.cand = {}]

\* Enabled kinds the allow-list rejects are parked, the others selected.
ClawRouteStarts(n) ==
    /\ tick.pc = "claw" /\ tick.at = Legacy /\ n \in tick.todo
    /\ LET b == BaselineOf(ndb, n)
           rejected == (Types \ tick.muted) \ Accepts[n]
           d == IF rejected = {} THEN b.db
                ELSE lifecycleClawRouteSkip(b.db, n, Of("claw") \cap Typed(rejected))
       IN  IF b.may
           THEN /\ ndb' = d
                /\ tick' = [tick EXCEPT !.at = n, !.cand =
                       (Of("claw") \cap Typed(Accepts[n] \ tick.muted))
                           \ (d.rows[Legacy] \cup d.rows[n])]
           ELSE /\ ndb' = b.db
                /\ tick' = AfterRoute(n)
    /\ UNCHANGED <<happened, nconf, unbuildable, stash, changes, ledger>>

ClawRouteEnds ==
    /\ tick.pc = "claw" /\ tick.at # Legacy /\ tick.cand = {} /\ tick.sent = 0
    /\ tick' = AfterRoute(tick.at)
    /\ UNCHANGED <<happened, nconf, unbuildable, ndb, stash, changes, ledger>>

--------------------------------------------------------------------------------
Configs == [on : BOOLEAN, routes : (SUBSET Names) \ {{}}, muted : SUBSET Types]

NoLedger == [seen |-> {}, half |-> FALSE, lost |-> {}, may |-> [n \in Names |-> {}], owed |-> [n \in Names |-> {}],
             done |-> [n \in Names |-> {}], sends |-> [n \in Names |-> [i \in Ids |-> 0]],
             fails |-> [n \in Names |-> [i \in Ids |-> 0]]]

\* A hub that is booted for the first time, or after the upgrade that brought routes.
RoutesInit ==
    /\ happened = <<>> /\ unbuildable = {} /\ stash = {} /\ tick = NoTick
    /\ changes = 0
    /\ nconf \in {[on |-> o, routes |-> {Incumbent}, muted |-> {}] : o \in BOOLEAN}
    /\ \/ /\ nconf.on /\ ndb = BootState(LegacyState, nconf.routes)
          /\ ledger = SeenBy(NoLedger, nconf.routes)
       \/ ~nconf.on /\ ndb = FreshState /\ ledger = NoLedger

TickSteps ==
    \/ TickBuilds \/ PassesOver \/ Sends \/ Records(TRUE) \/ FailsTransiently
    \/ TaskRouteEnds(TRUE) \/ TaskPassEnds \/ ClawRouteEnds
    \/ \E n \in Names : TaskRouteStarts(n) \/ ClawRouteStarts(n)

RoutesNext ==
    \/ TickSteps
    \/ \E ok, readable \in BOOLEAN : TickStarts(ok, readable)
    \/ Records(FALSE) \/ TaskRouteEnds(FALSE) \/ FailsConfig \/ FailsPermanently \/ Restarts \/ Saves
    \/ \E k \in Kinds : Happens(k[1], k[2])
    \/ \E n \in Names : Breaks(n) \/ Repairs(n)

RoutesSpec == RoutesInit /\ [][RoutesNext]_routeVars

--------------------------------------------------------------------------------
(* Properties *)

RoutesTypeOK ==
    /\ happened \in Seq([src : {"task", "claw"}, type : Types]) /\ Len(happened) <= MaxHappened
    /\ nconf \in Configs /\ unbuildable \subseteq Names
    /\ ndb.shared \in -1 .. MaxHappened /\ ndb.cursor \in [Names -> -1 .. MaxHappened]
    /\ ndb.stamp \subseteq Names /\ ndb.rows \in [Names \cup {Legacy} -> SUBSET Ids]
    /\ stash \subseteq (Names \cup {Legacy}) \X Ids
    /\ \A t \in Names \cup {Legacy}, i \in Ids : ndb.streak[t][i] \in 0 .. MaxTransient - 1

\* A route is told nothing from before it was configured, from a time when
\* notifications were off, or of a kind that was muted.  Two exceptions, in
\* which a route that replaces the only one passes for it (see the README): the hub
\* died in its very first tick between the watermark and the claw baseline, or the
\* state was unreadable when the replacement was to get its cursor.
NoReplay ==
    [][\A n \in Names, i \in Ids :
          ledger'.sends[n][i] > ledger.sends[n][i] => i \in ledger.may[n] \/ ledger.half]_routeVars

\* A route never misses what is owed to it: no cursor passes an event, and no row
\* fences an event or a claw state, that was owed to the route and neither sent to it
\* nor given up for it, whatever routes are added, removed or broken beside it, and
\* whenever the hub restarts.
NothingMissed ==
    \A n \in Names : \A i \in ledger.owed[n] \ ledger.done[n] :
        /\ ~lifecycleRouteDelivered(n, i)
        /\ happened[i].src = "task" =>
              i > IF ndb.cursor[n] # NoCursor THEN ndb.cursor[n] ELSE ndb.shared

\* A route is told once, unless the hub died before the delivery was on record; and
\* an event is given up after lifecycleMaxTransientFailures failures at the latest,
\* counted since the route was last configured, through restarts and changes between
\* the one-route and the several-routes keys.  The exceptions of NoReplay apply: a
\* route that passes for the only one may go on counting another's failures.
ToldOnce ==
    \A n \in Names, i \in Ids :
        /\ ledger.sends[n][i] > 1 => i \in ledger.lost
        /\ ledger.fails[n][i] > MaxTransient => ledger.half

\* Every route gets what it is owed, once.
NotifiedOnce == NothingMissed /\ ToldOnce

\* What is owed to a route is delivered, given up, or no longer the route's, as long
\* as ticks go on and the destination works.
OwedIsTold ==
    \A n \in Names, i \in Ids :
        i \in ledger.owed[n] ~> \/ i \in ledger.done[n] \/ i \notin ledger.owed[n]
                                \/ n \in unbuildable
================================================================================
