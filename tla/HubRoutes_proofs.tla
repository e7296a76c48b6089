--------------------------- MODULE HubRoutes_proofs ---------------------------
(***************************************************************************)
(* Theorems about LifecycleRoutes, for any notifiers, types and bounds.    *)
(* The tables are brought in line by a chain of operators (BootState, a    *)
(* tick's start, the baselines); each has a lemma that says what it keeps, *)
(* and the steps are proved from these lemmas.  RouteInv: types, and a row *)
(* or a message under way for all that was sent.  OwingInv: what is owed   *)
(* is ahead of its route's place, and a pass still has it before it.       *)
(***************************************************************************)
EXTENDS LifecycleRoutes, HubRecords_proofs

Tables == Names \cup {Legacy}
Positions == -1 .. MaxHappened

\* The tables of the notifier, the tick under way and the ledger, typed.
Databases ==
    [shared : Positions, cursor : [Names -> Positions], stamp : SUBSET Names,
     clawBase : BOOLEAN, latch : BOOLEAN, rows : [Tables -> SUBSET Ids],
     streak : [Tables -> [Ids -> 0 .. MaxTransient - 1]]]

Watermarks == UNION {[S -> 0 .. MaxHappened] : S \in SUBSET Names}

Ticks ==
    [pc : {"idle", "build", "task", "claw"}, routes : SUBSET Names, muted : SUBSET Types,
     built : SUBSET Names, wm : Watermarks, todo : SUBSET Names, at : Tables,
     cand : SUBSET Ids, handled : 0 .. MaxHappened, floor : Positions,
     paused : SUBSET Names, sent : 0 .. MaxHappened]

\* A route is at work only in a pass, and a message is on its way only for one.
TickShape ==
    /\ tick.pc = "task" => /\ tick.todo \subseteq DOMAIN tick.wm
                           /\ tick.at # Legacy => tick.at \in DOMAIN tick.wm
    /\ tick.pc \in {"idle", "build"} => tick.at = Legacy
    /\ tick.at = Legacy => tick.sent = 0

Ledgers ==
    [seen : SUBSET Names, half : BOOLEAN, lost : SUBSET Ids,
     may : [Names -> SUBSET Ids], owed : [Names -> SUBSET Ids], done : [Names -> SUBSET Ids],
     sends : [Names -> [Ids -> Nat]], fails : [Names -> [Ids -> 0 .. MaxTransient + 1]]]

HappenedTypes ==
    happened \in Seq([src : {"task", "claw"}, type : Types]) /\ Len(happened) <= MaxHappened

RouteTypes ==
    /\ HappenedTypes
    /\ nconf \in Configs /\ unbuildable \subseteq Names
    /\ ndb \in Databases /\ stash \subseteq Tables \X Ids
    /\ tick \in Ticks /\ TickShape /\ ledger \in Ledgers

\* What the constants are.
LEMMA RouteNumbers ==
    /\ MaxHappened \in Nat \ {0} /\ MaxTransient \in Nat \ {0}
    /\ Ids \subseteq 1 .. MaxHappened /\ Ids = 1 .. MaxHappened
    /\ Legacy \notin Names /\ Legacy \in Tables /\ Names \subseteq Tables
    /\ NoCursor = -1 /\ NoCursor \in Positions /\ 0 .. MaxHappened \subseteq Positions
BY RoutesAssumption DEF Ids, Tables, Positions, NoCursor

\* The greatest and the least of a set of positions.
LEMMA MaxOf ==
    ASSUME NEW S, S \subseteq 0 .. MaxHappened, S # {}
    PROVE  Max(S) \in S /\ \A y \in S : Max(S) >= y
<1>1. PICK n \in S : \A m \in S : m <= n
  BY RouteNumbers, GreatestNat
<1>2. \E x \in S : \A y \in S : x >= y
  <2>1. \A y \in S : n >= y  BY <1>1
  <2> QED  BY <2>1
<1> QED  BY <1>2 DEF Max

LEMMA MinOf ==
    ASSUME NEW S, S \subseteq 0 .. MaxHappened, S # {}
    PROVE  Min(S) \in S /\ \A y \in S : Min(S) <= y
<1>1. \E x \in S : \A y \in S : x <= y
  <2>1. S \subseteq Nat  OBVIOUS
  <2> QED  BY <2>1, LeastNat
<1> QED  BY <1>1 DEF Min

\* Entries are identified by their position.
LEMMA EntryIds ==
    ASSUME HappenedTypes
    PROVE  /\ DOMAIN happened \subseteq Ids
           /\ \A src : Of(src) \subseteq Ids
           /\ lifecycleMaxEventRowID \in 0 .. MaxHappened
           /\ \A i \in Of("task") : i <= lifecycleMaxEventRowID
<1>1. DOMAIN happened \subseteq Ids
  BY RouteNumbers DEF HappenedTypes, Ids
<1>2. \A src : Of(src) \subseteq Ids
  BY <1>1 DEF Of
<1>3. Of("task") \cup {0} \subseteq 0 .. MaxHappened /\ Of("task") \cup {0} # {}
  BY <1>2, RouteNumbers
<1>4. /\ Max(Of("task") \cup {0}) \in Of("task") \cup {0}
      /\ \A y \in Of("task") \cup {0} : Max(Of("task") \cup {0}) >= y
  BY <1>3, MaxOf
<1>5. \A i \in Of("task") : i <= Max(Of("task") \cup {0})
  BY <1>3, <1>4
<1> QED  BY <1>1, <1>2, <1>3, <1>4, <1>5 DEF lifecycleMaxEventRowID

(***************************************************************************)
(* What brings the tables in line only ever adds rows.                     *)
(***************************************************************************)
Grown(d, e) == e \in Databases /\ \A t \in Tables : d.rows[t] \subseteq e.rows[t]

\* What is left alone has not shrunk.
LEMMA GrownOnce == ASSUME NEW d \in Databases PROVE Grown(d, d)
BY DEF Grown

\* One change after another.
LEMMA GrownTwice ==
    ASSUME NEW d, NEW e, NEW f, Grown(d, e), Grown(e, f) PROVE Grown(d, f)
<1>1. \A t \in Tables : d.rows[t] \subseteq e.rows[t] /\ e.rows[t] \subseteq f.rows[t]
  BY DEF Grown
<1> QED  BY <1>1 DEF Grown

\* Forgetting the routes that are no longer configured.
LEMMA PruneGrows ==
    ASSUME NEW d \in Databases, NEW routes \in SUBSET Names
    PROVE  Grown(d, pruneLifecycleRouteState(d, routes))
<1> DEFINE e == pruneLifecycleRouteState(d, routes)
           gone == {n \in Names \ routes : d.cursor[n] # NoCursor \/ n \in d.stamp}
<1>1. e = [d EXCEPT !.latch = d.latch \/ gone # {} \/ \E n \in Names : d.cursor[n] # NoCursor,
                  !.cursor = [n \in Names |-> IF n \in gone THEN NoCursor ELSE d.cursor[n]],
                  !.stamp = d.stamp \ gone,
                  !.streak = [t \in DOMAIN d.streak |-> IF t \in gone THEN [i \in Ids |-> 0] ELSE d.streak[t]]]
  BY DEF pruneLifecycleRouteState
<1>2. (d.latch \/ gone # {} \/ \E n \in Names : d.cursor[n] # NoCursor) \in BOOLEAN
  OBVIOUS
<1>3. [n \in Names |-> IF n \in gone THEN NoCursor ELSE d.cursor[n]] \in [Names -> Positions]
  BY RouteNumbers DEF Databases
<1>4. [t \in DOMAIN d.streak |-> IF t \in gone THEN [i \in Ids |-> 0] ELSE d.streak[t]]
         \in [Tables -> [Ids -> 0 .. MaxTransient - 1]]
  BY RouteNumbers DEF Databases
<1>5. d.stamp \ gone \in SUBSET Names
  BY DEF Databases
<1> HIDE DEF gone
<1>6. e \in Databases /\ e.rows = d.rows
  BY <1>1, <1>2, <1>3, <1>4, <1>5 DEF Databases
<1> QED  BY <1>6 DEF Grown

\* Rows with status skipped for all routes.
LEMMA SkipGrows ==
    ASSUME NEW d \in Databases, NEW ids \in SUBSET Ids
    PROVE  Grown(d, SkipForAll(d, ids))
<1> DEFINE e == SkipForAll(d, ids)
<1>1. e = [d EXCEPT !.rows = [d.rows EXCEPT ![Legacy] = d.rows[Legacy] \cup ids]]
  BY DEF SkipForAll
<1>2. [d.rows EXCEPT ![Legacy] = d.rows[Legacy] \cup ids] \in [Tables -> SUBSET Ids]
  BY RouteNumbers DEF Databases
<1>3. e \in Databases /\ e.rows = [d.rows EXCEPT ![Legacy] = d.rows[Legacy] \cup ids]
  BY <1>1, <1>2 DEF Databases
<1>4. \A t \in Tables : d.rows[t] \subseteq e.rows[t]
  BY <1>3 DEF Databases
<1> QED  BY <1>3, <1>4 DEF Grown

\* The cursors of the routes.
LEMMA WatermarksGrow ==
    ASSUME HappenedTypes, NEW d \in Databases, NEW routes \in SUBSET Names
    PROVE  Grown(d, ensureLifecycleRouteWatermarks(d, routes))
<1> DEFINE e == ensureLifecycleRouteWatermarks(d, routes)
           head == lifecycleMaxEventRowID
           cursor == [n \in Names |-> IF n \in routes /\ d.cursor[n] = NoCursor
                                      THEN StartOf(d, routes, n) ELSE d.cursor[n]]
<1>1. CASE ~lifecycleRoutesNeedOwnState(d, routes)
  BY <1>1, GrownOnce DEF ensureLifecycleRouteWatermarks
<1>2. CASE lifecycleRoutesNeedOwnState(d, routes)
  <2>1. e = [d EXCEPT !.shared = IF d.shared = NoCursor THEN head ELSE d.shared,
                      !.cursor = cursor, !.latch = TRUE]
    BY <1>2 DEF ensureLifecycleRouteWatermarks
  <2>2. head \in Positions  BY EntryIds, RouteNumbers
  <2>3. \A n : StartOf(d, routes, n) \in Positions
    BY <2>2 DEF StartOf, Databases
  <2>4. cursor \in [Names -> Positions]
    BY <2>3 DEF Databases
  <2> HIDE DEF cursor, head
  <2>5. e \in Databases /\ e.rows = d.rows
    BY <2>1, <2>2, <2>4 DEF Databases
  <2> QED  BY <2>5 DEF Grown
<1> QED  BY <1>1, <1>2

\* A stamp.
LEMMA StampGrows ==
    ASSUME NEW d \in Databases, NEW names \in SUBSET Names
    PROVE  Grown(d, [d EXCEPT !.stamp = d.stamp \cup names])
BY DEF Grown, Databases

\* The first claw baseline.
LEMMA SeedGrows ==
    ASSUME HappenedTypes, NEW d \in Databases, NEW routes \in SUBSET Names
    PROVE  Grown(d, seedLifecycleClawBaseline(d, routes))
<1> DEFINE s == SkipForAll(d, Of("claw"))
           e == seedLifecycleClawBaseline(d, routes)
<1>1. Grown(d, s)  BY EntryIds, SkipGrows
<1>2. e = [s EXCEPT !.clawBase = TRUE, !.stamp = s.stamp \cup routes]
  BY DEF seedLifecycleClawBaseline
<1>3. s \in Databases  BY <1>1 DEF Grown
<1> HIDE DEF s
<1>4. Grown(s, e)  BY <1>2, <1>3 DEF Grown, Databases
<1> QED  BY <1>1, <1>4, GrownTwice

\* The stamp of the incumbent.
LEMMA StampLegacyGrows ==
    ASSUME NEW d \in Databases, NEW routes \in SUBSET Names
    PROVE  Grown(d, stampLifecycleLegacyIncumbent(d, routes))
BY StampGrows, GrownOnce DEF stampLifecycleLegacyIncumbent

\* The claw baselines of the routes.
LEMMA BaselinesGrow ==
    ASSUME HappenedTypes, NEW d \in Databases, NEW routes \in SUBSET Names
    PROVE  Grown(d, ensureLifecycleClawRouteBaselines(d, routes))
<1> DEFINE e == ensureLifecycleClawRouteBaselines(d, routes)
           new == {n \in routes \ d.stamp : d.cursor[n] # NoCursor}
           rows == [t \in DOMAIN d.rows |-> IF t \in new THEN d.rows[t] \cup Of("claw") ELSE d.rows[t]]
<1>1. CASE ~lifecycleRoutesNeedOwnState(d, routes)
  BY <1>1, StampLegacyGrows DEF ensureLifecycleClawRouteBaselines
<1>2. CASE lifecycleRoutesNeedOwnState(d, routes) /\ ~d.clawBase
  BY <1>2, SeedGrows, GrownOnce DEF ensureLifecycleClawRouteBaselines
<1>3. CASE lifecycleRoutesNeedOwnState(d, routes) /\ d.clawBase
  <2>1. e = [d EXCEPT !.rows = rows, !.stamp = d.stamp \cup new, !.latch = d.latch \/ new # {}]
    BY <1>3 DEF ensureLifecycleClawRouteBaselines
  <2>2. rows \in [Tables -> SUBSET Ids] /\ \A t \in Tables : d.rows[t] \subseteq rows[t]
    BY EntryIds DEF Databases
  <2>3. (d.latch \/ new # {}) \in BOOLEAN /\ d.stamp \cup new \in SUBSET Names
    BY DEF Databases
  <2> HIDE DEF rows, new
  <2>4. e \in Databases /\ e.rows = rows
    BY <2>1, <2>2, <2>3 DEF Databases
  <2> QED  BY <2>2, <2>4 DEF Grown
<1> QED  BY <1>1, <1>2, <1>3

\* Parking while notifications are off.
LEMMA ParkGrows ==
    ASSUME HappenedTypes, NEW d \in Databases
    PROVE  Grown(d, parkLifecycleWatermark(d)) /\ Grown(d, parkLifecycleClawState(d))
<1>1. Grown(d, parkLifecycleClawState(d))
  BY EntryIds, SkipGrows, GrownOnce DEF parkLifecycleClawState
<1>2. Grown(d, parkLifecycleWatermark(d))
  <2> DEFINE park(c) == IF c = NoCursor \/ c > lifecycleMaxEventRowID THEN c ELSE lifecycleMaxEventRowID
             cursor == [n \in Names |-> park(d.cursor[n])]
             e == parkLifecycleWatermark(d)
  <2>1. \A c \in Positions : park(c) \in Positions  BY EntryIds, RouteNumbers
  <2>2. cursor \in [Names -> Positions] /\ park(d.shared) \in Positions
    BY <2>1 DEF Databases
  <2>3. e = [d EXCEPT !.shared = park(d.shared), !.cursor = cursor]
    BY DEF parkLifecycleWatermark
  <2> HIDE DEF park, cursor
  <2>4. e \in Databases /\ e.rows = d.rows  BY <2>2, <2>3 DEF Databases
  <2> QED  BY <2>4 DEF Grown
<1> QED  BY <1>1, <1>2

\* The boot runs all of them in turn.
LEMMA BootGrows ==
    ASSUME HappenedTypes, NEW d \in Databases, NEW routes \in SUBSET Names
    PROVE  Grown(d, BootState(d, routes))
<1> DEFINE d1 == [d EXCEPT !.shared = IF @ = NoCursor THEN lifecycleMaxEventRowID ELSE @]
           d2 == IF ~d1.clawBase THEN seedLifecycleClawBaseline(d1, routes)
                 ELSE IF d1.stamp # {} THEN d1
                 ELSE IF ~lifecycleRoutingSchemeLive(d1) /\ Cardinality(routes) = 1
                 THEN [d1 EXCEPT !.stamp = routes]
                 ELSE [d1 EXCEPT !.latch = TRUE]
           d3 == pruneLifecycleRouteState(d2, routes)
           d4 == ensureLifecycleRouteWatermarks(d3, routes)
<1>1. Grown(d, d1)
  <2>1. lifecycleMaxEventRowID \in Positions  BY EntryIds, RouteNumbers
  <2> QED  BY <2>1 DEF Grown, Databases
<1>2. d1 \in Databases  BY <1>1 DEF Grown
<1>a. BootState(d, routes) = ensureLifecycleClawRouteBaselines(d4, routes)
  BY DEF BootState
<1> HIDE DEF d1
<1>3. Grown(d1, d2)
  <2>1. Grown(d1, [d1 EXCEPT !.stamp = routes])  BY <1>2 DEF Grown, Databases
  <2>2. Grown(d1, [d1 EXCEPT !.latch = TRUE])  BY <1>2 DEF Grown, Databases
  <2> QED  BY <1>2, <2>1, <2>2, SeedGrows, GrownOnce
<1>4. d2 \in Databases  BY <1>3 DEF Grown
<1> HIDE DEF d2
<1>5. Grown(d2, d3)  BY <1>4, PruneGrows
<1>6. d3 \in Databases  BY <1>5 DEF Grown
<1> HIDE DEF d3
<1>7. Grown(d3, d4)  BY <1>6, WatermarksGrow
<1>8. d4 \in Databases  BY <1>7 DEF Grown
<1> HIDE DEF d4
<1>9. Grown(d4, ensureLifecycleClawRouteBaselines(d4, routes))  BY <1>8, BaselinesGrow
<1> QED  BY <1>a, <1>1, <1>3, <1>5, <1>7, <1>9, GrownTwice

\* Rows for one route, or for the tables of a delivery.
LEMMA RouteSkipGrows ==
    ASSUME NEW d \in Databases, NEW n \in Names, NEW ids \in SUBSET Ids
    PROVE  Grown(d, lifecycleClawRouteSkip(d, n, ids))
<1> DEFINE e == lifecycleClawRouteSkip(d, n, ids)
           rows == [d.rows EXCEPT ![n] = d.rows[n] \cup ids]
<1>1. e = [d EXCEPT !.rows = rows, !.latch = TRUE]
  BY DEF lifecycleClawRouteSkip
<1>2. rows \in [Tables -> SUBSET Ids] /\ \A t \in Tables : d.rows[t] \subseteq rows[t]
  BY RouteNumbers DEF Databases
<1> HIDE DEF rows
<1>3. e \in Databases /\ e.rows = rows  BY <1>1, <1>2 DEF Databases
<1> QED  BY <1>2, <1>3 DEF Grown

\* A delivery adds its rows.
LEMMA RowsGrow ==
    ASSUME NEW d \in Databases, NEW i \in Ids
    PROVE  /\ Grown(d, WithRows(d, i))
           /\ \A t \in RecordedIn(tick.at) \cap Tables : i \in WithRows(d, i).rows[t]
<1> DEFINE e == WithRows(d, i)
           rows == [t \in DOMAIN d.rows |-> IF t \in RecordedIn(tick.at) THEN d.rows[t] \cup {i} ELSE d.rows[t]]
<1>1. e = [d EXCEPT !.rows = rows]
  BY DEF WithRows
<1>2. /\ rows \in [Tables -> SUBSET Ids] /\ \A t \in Tables : d.rows[t] \subseteq rows[t]
      /\ \A t \in RecordedIn(tick.at) \cap Tables : i \in rows[t]
  BY DEF Databases
<1> HIDE DEF rows
<1>3. e \in Databases /\ e.rows = rows  BY <1>1, <1>2 DEF Databases
<1> QED  BY <1>2, <1>3 DEF Grown

\* The baseline a route gets when its claw pass starts.
LEMMA BaselineGrows ==
    ASSUME HappenedTypes, NEW d \in Databases, NEW n \in Names
    PROVE  Grown(d, BaselineOf(d, n).db)
<1> DEFINE s == lifecycleClawRouteSkip(d, n, Of("claw"))
<1>1. Grown(d, s) /\ s \in Databases
  BY EntryIds, RouteSkipGrows DEF Grown
<1>2. Grown(s, [s EXCEPT !.stamp = s.stamp \cup {n}])
  <2> HIDE DEF s
  <2> QED  BY <1>1, StampGrows
<1>3. Grown(d, [s EXCEPT !.stamp = s.stamp \cup {n}])
  <2> HIDE DEF s
  <2> QED  BY <1>1, <1>2, GrownTwice
<1>4. Grown(d, [d EXCEPT !.stamp = d.stamp \cup {n}])
  BY StampGrows
<1>5. BaselineOf(d, n).db \in {d, [d EXCEPT !.stamp = d.stamp \cup {n}], [s EXCEPT !.stamp = s.stamp \cup {n}]}
  BY DEF BaselineOf
<1> QED  BY <1>3, <1>4, <1>5, GrownOnce

\* A streak that starts, goes on or ends.
LEMMA StreakGrows ==
    ASSUME NEW d \in Databases, NEW t \in Tables, NEW i \in Ids, NEW k \in 0 .. MaxTransient - 1
    PROVE  Grown(d, [d EXCEPT !.streak[t][i] = k])
<1> DEFINE e == [d EXCEPT !.streak[t][i] = k]
           one == [d.streak[t] EXCEPT ![i] = k]
           streak == [d.streak EXCEPT ![t] = one]
<1>1. e = [d EXCEPT !.streak = streak]
  OBVIOUS
<1>2. d.streak[t] \in [Ids -> 0 .. MaxTransient - 1]
  BY DEF Databases
<1>3. one \in [Ids -> 0 .. MaxTransient - 1]  BY <1>2
<1> HIDE DEF one
<1>4. streak \in [Tables -> [Ids -> 0 .. MaxTransient - 1]]  BY <1>3 DEF Databases
<1> HIDE DEF streak
<1>5. e \in Databases /\ e.rows = d.rows  BY <1>1, <1>4 DEF Databases
<1> QED  BY <1>5 DEF Grown

\* A message that was sent is on record, stashed, under way or lost with a hub that
\* died, so it is sent again only in the last case.
SentInv ==
    \A n \in Names, i \in Ids :
        /\ ledger.sends[n][i] > 0 =>
              lifecycleRouteDelivered(n, i) \/ i \in ledger.lost \/ (tick.at = n /\ tick.sent = i)
        /\ ledger.sends[n][i] > 1 => i \in ledger.lost

\* What a step keeps of the deliveries: rows stay, a stashed row is written, stays
\* stashed or is lost with the hub, and so is the message that is under way.
DeliveriesKept ==
    /\ Grown(ndb, ndb') /\ ledger.lost \subseteq ledger'.lost
    /\ \A n \in Tables, i \in Ids : <<n, i>> \in stash =>
          <<n, i>> \in stash' \/ i \in ndb'.rows[n] \/ i \in ledger'.lost
    /\ tick.sent # 0 =>
          \/ tick'.at = tick.at /\ tick'.sent = tick.sent
          \/ tick.sent \in ndb'.rows[tick.at] \/ <<tick.at, tick.sent>> \in stash'
          \/ tick.sent \in ledger'.lost

\* Nothing is sent.
LEMMA NothingSent ==
    ASSUME RouteTypes, SentInv, DeliveriesKept, ledger'.sends = ledger.sends
    PROVE  SentInv'
<1> SUFFICES ASSUME NEW n \in Names, NEW i \in Ids
             PROVE  /\ ledger.sends[n][i] > 0 =>
                          \/ lifecycleRouteDelivered(n, i)' \/ i \in ledger'.lost
                          \/ (tick'.at = n /\ tick'.sent = i)
                    /\ ledger.sends[n][i] > 1 => i \in ledger'.lost
  BY DEF SentInv
<1>1. /\ ledger.sends[n][i] > 0 =>
              lifecycleRouteDelivered(n, i) \/ i \in ledger.lost \/ (tick.at = n /\ tick.sent = i)
      /\ ledger.sends[n][i] > 1 => i \in ledger.lost
  BY DEF SentInv
<1>2. ASSUME lifecycleRouteDelivered(n, i)
      PROVE  lifecycleRouteDelivered(n, i)' \/ i \in ledger'.lost
  <2>1. ndb.rows[n] \subseteq ndb'.rows[n] /\ ndb.rows[Legacy] \subseteq ndb'.rows[Legacy]
    BY RouteNumbers DEF DeliveriesKept, Grown
  <2>2. n \in Tables /\ Legacy \in Tables  BY RouteNumbers
  <2>3. i \in ndb.rows[n] \cup ndb.rows[Legacy] \/ <<n, i>> \in stash \/ <<Legacy, i>> \in stash
    BY <1>2 DEF lifecycleRouteDelivered
  <2>4. i \in ndb'.rows[n] \cup ndb'.rows[Legacy] \/ <<n, i>> \in stash' \/ <<Legacy, i>> \in stash'
           \/ i \in ledger'.lost
    BY <2>1, <2>2, <2>3 DEF DeliveriesKept
  <2> QED  BY <2>4 DEF lifecycleRouteDelivered
<1>3. ASSUME tick.at = n, tick.sent = i
      PROVE  lifecycleRouteDelivered(n, i)' \/ i \in ledger'.lost \/ (tick'.at = n /\ tick'.sent = i)
  <2>1. tick.sent # 0  BY <1>3, RouteNumbers
  <2>2. \/ tick'.at = tick.at /\ tick'.sent = tick.sent
        \/ tick.sent \in ndb'.rows[tick.at] \/ <<tick.at, tick.sent>> \in stash'
        \/ tick.sent \in ledger'.lost
    BY <2>1 DEF DeliveriesKept
  <2>3. CASE i \in ndb'.rows[n] \/ <<n, i>> \in stash'
    BY <2>3 DEF lifecycleRouteDelivered
  <2> QED  BY <1>3, <2>2, <2>3
<1>4. i \in ledger.lost => i \in ledger'.lost  BY DEF DeliveriesKept
<1> QED  BY <1>1, <1>2, <1>3, <1>4

\* Without a message under way only the tables and the stash matter.
LEMMA QuietDeliveries ==
    ASSUME RouteTypes, Grown(ndb, ndb'), stash' = stash, ledger'.lost = ledger.lost,
           tick.sent = 0 \/ (tick'.at = tick.at /\ tick'.sent = tick.sent)
    PROVE  DeliveriesKept
BY DEF DeliveriesKept

\* A row of every table a delivery is recorded in is one of the route's own.
LEMMA RecordedDelivers ==
    ASSUME NEW n \in Names
    PROVE  n \in RecordedIn(n) \cap Tables
BY RouteNumbers DEF RecordedIn

\* The event a route is at.
LEMMA EventIn ==
    ASSUME RouteTypes, Sending
    PROVE  tick.at \in Names /\ Event \in tick.cand /\ Event \in Ids /\ Event \in 0 .. MaxHappened
<1>1. tick.cand \subseteq 0 .. MaxHappened /\ tick.cand # {} /\ tick.cand \subseteq Ids
      /\ tick.at \in Tables /\ tick.at # Legacy
  BY RouteNumbers DEF RouteTypes, Ticks, Sending
<1>2. Min(tick.cand) \in tick.cand  BY <1>1, MinOf
<1> QED  BY <1>1, <1>2 DEF Event, Tables

\* The tick goes on to the next event.
LEMMA PastTyped ==
    ASSUME RouteTypes, NEW i \in Ids, tick.at # Legacy, tick' = Past(i)
    PROVE  tick' \in Ticks /\ TickShape' /\ tick'.at = tick.at /\ tick'.sent = 0
<1>1. i \in 0 .. MaxHappened /\ tick \in Ticks /\ TickShape  BY RouteNumbers DEF RouteTypes
<1>2. tick' = [tick EXCEPT !.cand = tick.cand \ {i}, !.sent = 0,
                        !.handled = IF tick.pc = "task" THEN i ELSE tick.handled]
  BY DEF Past
<1>3. (IF tick.pc = "task" THEN i ELSE tick.handled) \in 0 .. MaxHappened
  BY <1>1 DEF Ticks
<1>4. tick'.at = tick.at /\ tick'.sent = 0 /\ tick'.pc = tick.pc
      /\ tick'.todo = tick.todo /\ tick'.wm = tick.wm
  BY <1>1, <1>2 DEF Ticks
<1>5. tick' \in Ticks
  <2> DEFINE handled == IF tick.pc = "task" THEN i ELSE tick.handled
  <2>1. handled \in 0 .. MaxHappened /\ tick' = [tick EXCEPT !.cand = tick.cand \ {i}, !.sent = 0, !.handled = handled]
    BY <1>2, <1>3
  <2>2. tick.cand \ {i} \in SUBSET Ids /\ 0 \in 0 .. MaxHappened  BY <1>1, RouteNumbers DEF Ticks
  <2> HIDE DEF handled
  <2> QED  BY <1>1, <2>1, <2>2 DEF Ticks
<1> QED  BY <1>1, <1>4, <1>5 DEF TickShape

\* Between two ticks there is no pass.
LEMMA NoTickTyped == NoTick \in Ticks /\ NoTick.at = Legacy /\ NoTick.sent = 0 /\ NoTick.pc = "idle"
<1>1. [n \in {} |-> 0] \in Watermarks
  <2>1. [n \in {} |-> 0] \in [{} -> 0 .. MaxHappened]  OBVIOUS
  <2>2. {} \in SUBSET Names  OBVIOUS
  <2> QED  BY <2>1, <2>2 DEF Watermarks
<1>2. 0 \in 0 .. MaxHappened /\ NoCursor \in Positions /\ Legacy \in Tables
  BY RouteNumbers
<1> QED  BY <1>1, <1>2 DEF NoTick, Ticks

\* A tick that is over.
LEMMA NoTickShape == ASSUME tick' = NoTick PROVE tick' \in Ticks /\ TickShape'
BY NoTickTyped DEF TickShape

RouteInv == RouteTypes /\ SentInv

\* A step that touches neither what happened nor the config, and sends nothing.
LEMMA StepKeeps ==
    ASSUME RouteInv, UNCHANGED <<happened, nconf, unbuildable>>, stash' \subseteq Tables \X Ids,
           tick' \in Ticks, TickShape', ledger' \in Ledgers, ledger'.sends = ledger.sends,
           DeliveriesKept
    PROVE  RouteInv'
<1>1. ndb' \in Databases  BY DEF DeliveriesKept, Grown
<1>2. RouteTypes'  BY <1>1 DEF RouteInv, RouteTypes, HappenedTypes
<1>3. SentInv'  BY NothingSent DEF RouteInv
<1> QED  BY <1>2, <1>3 DEF RouteInv

\* No longer due, or configured again.
LEMMA WithoutTyped ==
    ASSUME ledger \in Ledgers, NEW ids, ledger' = Without(ledger, ids)
    PROVE  ledger' \in Ledgers /\ ledger'.sends = ledger.sends /\ ledger'.lost = ledger.lost
<1> DEFINE may == [n \in Names |-> ledger.may[n] \ ids]
           owed == [n \in Names |-> ledger.owed[n] \ ids]
<1>1. ledger' = [ledger EXCEPT !.may = may, !.owed = owed]
  BY DEF Without
<1>2. may \in [Names -> SUBSET Ids] /\ owed \in [Names -> SUBSET Ids]
  BY DEF Ledgers
<1> HIDE DEF may, owed
<1> QED  BY <1>1, <1>2 DEF Ledgers

\* What the ledger says of the configured routes.
LEMMA SeenTyped ==
    ASSUME NEW l \in Ledgers, NEW routes \in SUBSET Names
    PROVE  /\ SeenBy(l, routes) \in Ledgers
           /\ SeenBy(l, routes).sends = l.sends /\ SeenBy(l, routes).lost = l.lost
<1> DEFINE may == [n \in Names |-> IF n \in routes THEN l.may[n] ELSE {}]
           owed == [n \in Names |-> IF n \in routes THEN l.owed[n] ELSE {}]
           fails == [n \in Names |-> IF n \in routes THEN l.fails[n] ELSE [i \in Ids |-> 0]]
<1>1. SeenBy(l, routes) = [l EXCEPT !.seen = routes, !.may = may, !.owed = owed, !.fails = fails]
  BY DEF SeenBy
<1>2. may \in [Names -> SUBSET Ids] /\ owed \in [Names -> SUBSET Ids]
  BY DEF Ledgers
<1>3. fails \in [Names -> [Ids -> 0 .. MaxTransient + 1]]
  <2>1. [i \in Ids |-> 0] \in [Ids -> 0 .. MaxTransient + 1]  BY RouteNumbers
  <2> QED  BY <2>1 DEF Ledgers
<1> HIDE DEF may, owed, fails
<1> QED  BY <1>1, <1>2, <1>3 DEF Ledgers

--------------------------------------------------------------------------------
(* The steps around the notifier. *)

\* An event or a claw state is appended; what is sent stays.
LEMMA HappensKeeps ==
    ASSUME RouteInv, NEW k \in Kinds, Happens(k[1], k[2]) PROVE RouteInv'
<1> DEFINE i == Len(happened) + 1
           to == {n \in ledger.seen : k[2] \in Accepts[n]}
           may == [n \in Names |-> IF n \in to THEN ledger.may[n] \cup {i} ELSE ledger.may[n]]
           owed == [n \in Names |-> IF n \in to /\ Placed(n, k[2]) THEN ledger.owed[n] \cup {i} ELSE ledger.owed[n]]
<1>1. HappenedTypes /\ ledger \in Ledgers /\ Len(happened) \in Nat
  BY DEF RouteInv, RouteTypes, HappenedTypes
<1>2. k[1] \in {"task", "claw"} /\ k[2] \in Types
  BY RoutesAssumption
<1>3. HappenedTypes'
  <2>1. Len(happened) < MaxHappened /\ happened' = Append(happened, [src |-> k[1], type |-> k[2]])
    BY DEF Happens
  <2>2. [src |-> k[1], type |-> k[2]] \in [src : {"task", "claw"}, type : Types]
    BY <1>2
  <2>3. happened \in Seq([src : {"task", "claw"}, type : Types])
    BY <1>1 DEF HappenedTypes
  <2>4. happened' \in Seq([src : {"task", "claw"}, type : Types]) /\ Len(happened') = Len(happened) + 1
    BY <2>1, <2>2, <2>3
  <2> QED  BY <1>1, <2>1, <2>4, RouteNumbers DEF HappenedTypes
<1>4. i \in Ids
  <2>1. Len(happened) < MaxHappened  BY DEF Happens
  <2> QED  BY <1>1, <2>1, RouteNumbers
<1>5. /\ ledger' = [ledger EXCEPT !.may = may, !.owed = owed]
      /\ UNCHANGED <<nconf, unbuildable, ndb, stash, tick>>
  BY DEF Happens
<1>6. may \in [Names -> SUBSET Ids] /\ owed \in [Names -> SUBSET Ids]
  BY <1>1, <1>4 DEF Ledgers
<1> HIDE DEF may, owed, i, to
<1>7. ledger' \in Ledgers /\ ledger'.sends = ledger.sends /\ ledger'.lost = ledger.lost
  BY <1>1, <1>5, <1>6 DEF Ledgers
<1>8. Grown(ndb, ndb')  BY <1>5, GrownOnce DEF RouteInv, RouteTypes
<1>9. DeliveriesKept  BY <1>5, <1>7, <1>8, QuietDeliveries DEF RouteInv
<1>10. SentInv'  BY <1>7, <1>9, NothingSent DEF RouteInv
<1>11. RouteTypes'
  BY <1>3, <1>5, <1>7 DEF RouteInv, RouteTypes, TickShape
<1> QED  BY <1>10, <1>11 DEF RouteInv

\* The config and the secrets.
LEMMA SurroundingsKeep ==
    ASSUME RouteInv, Saves \/ \E n \in Names : Breaks(n) \/ Repairs(n) PROVE RouteInv'
<1>1. UNCHANGED <<happened, ndb, stash, tick, ledger>>
  BY DEF Saves, Breaks, Repairs
<1>2. nconf' \in Configs
  <2>1. nconf \in Configs  BY DEF RouteInv, RouteTypes
  <2>2. CASE nconf' = nconf  BY <2>1, <2>2
  <2>3. CASE nconf' = [nconf EXCEPT !.on = ~@]  BY <2>1, <2>3 DEF Configs
  <2>4. ASSUME NEW r \in (SUBSET Names) \ {{}, nconf.routes}, nconf' = [nconf EXCEPT !.routes = r]
        PROVE  nconf' \in Configs
    BY <2>1, <2>4 DEF Configs
  <2>5. ASSUME NEW t \in Types, nconf' = [nconf EXCEPT !.muted = IF t \in @ THEN @ \ {t} ELSE @ \cup {t}]
        PROVE  nconf' \in Configs
    BY <2>1, <2>5 DEF Configs
  <2>6. nconf' = nconf \/ Saves  BY DEF Breaks, Repairs
  <2> QED  BY <2>2, <2>3, <2>4, <2>5, <2>6 DEF Saves
<1>3. unbuildable' \subseteq Names
  BY DEF RouteInv, RouteTypes, Saves, Breaks, Repairs
<1>4. RouteTypes'  BY <1>1, <1>2, <1>3 DEF RouteInv, RouteTypes, HappenedTypes, TickShape
<1>5. SentInv'  BY <1>1 DEF RouteInv, SentInv, lifecycleRouteDelivered
<1> QED  BY <1>4, <1>5 DEF RouteInv

\* A restart loses what was to be written.
LEMMA RestartsKeeps == ASSUME RouteInv, Restarts PROVE RouteInv'
<1> DEFINE unwritten == {p[2] : p \in stash} \cup ({tick.sent} \ {0})
           l == [ledger EXCEPT !.lost = ledger.lost \cup unwritten,
                               !.half = ledger.half \/ (ndb.shared # NoCursor /\ ~ndb.clawBase)]
<1>1. /\ RouteTypes /\ ndb \in Databases /\ ledger \in Ledgers /\ tick \in Ticks
      /\ stash \subseteq Tables \X Ids /\ HappenedTypes /\ nconf.routes \in SUBSET Names
  BY DEF RouteInv, RouteTypes, Configs
<1>2. unwritten \subseteq Ids
  <2>1. \A p \in stash : p[2] \in Ids  BY <1>1
  <2>2. {tick.sent} \ {0} \subseteq Ids  BY <1>1, RouteNumbers DEF Ticks
  <2> QED  BY <2>1, <2>2
<1>3. /\ tick' = NoTick /\ stash' = {} /\ UNCHANGED <<happened, nconf, unbuildable>>
      /\ \/ ndb' = BootState(ndb, nconf.routes) /\ ledger' = SeenBy(l, nconf.routes)
         \/ ndb' = ndb /\ ledger' = l
  BY DEF Restarts
<1>a. \A n \in Tables, i \in Ids : <<n, i>> \in stash => i \in unwritten
  <2> SUFFICES ASSUME NEW n \in Tables, NEW i \in Ids, <<n, i>> \in stash PROVE i \in {p[2] : p \in stash}
    OBVIOUS
  <2>1. <<n, i>>[2] = i  OBVIOUS
  <2> QED  BY <2>1
<1>b. tick.sent # 0 => tick.sent \in unwritten  OBVIOUS
<1> HIDE DEF unwritten
<1>4. l \in Ledgers /\ l.sends = ledger.sends /\ l.lost = ledger.lost \cup unwritten
  <2>1. (ledger.half \/ (ndb.shared # NoCursor /\ ~ndb.clawBase)) \in BOOLEAN  OBVIOUS
  <2>2. ledger.lost \cup unwritten \in SUBSET Ids  BY <1>1, <1>2 DEF Ledgers
  <2> QED  BY <1>1, <2>1, <2>2 DEF Ledgers
<1> HIDE DEF l
<1>5. ledger' \in Ledgers /\ ledger'.sends = ledger.sends /\ ledger'.lost = ledger.lost \cup unwritten
  BY <1>1, <1>3, <1>4, SeenTyped
<1>6. Grown(ndb, ndb')  BY <1>1, <1>3, BootGrows, GrownOnce
<1>7. DeliveriesKept  BY <1>5, <1>6, <1>a, <1>b DEF DeliveriesKept
<1>8. tick' \in Ticks /\ TickShape'  BY <1>3, NoTickShape
<1> QED  BY <1>3, <1>5, <1>7, <1>8, StepKeeps

\* The stash is flushed into the tables, and the per-route state grows.
LEMMA StartsKeeps ==
    ASSUME RouteInv, NEW ok \in BOOLEAN, NEW readable \in BOOLEAN, TickStarts(ok, readable)
    PROVE  RouteInv'
<1> DEFINE routes == nconf.routes
           rows == [t \in DOMAIN ndb.rows |-> ndb.rows[t] \cup {p[2] : p \in {q \in stash : q[1] = t}}]
           d == IF ok THEN [ndb EXCEPT !.rows = rows] ELSE ndb
           d1 == pruneLifecycleRouteState(d, routes)
           d2 == IF readable THEN ensureLifecycleRouteWatermarks(d1, routes) ELSE d1
           l == [ledger EXCEPT !.half = ledger.half \/ (~readable /\ Cardinality(routes) = 1)]
<1>1. /\ RouteTypes /\ ndb \in Databases /\ ledger \in Ledgers /\ tick \in Ticks /\ TickShape
      /\ stash \subseteq Tables \X Ids /\ HappenedTypes /\ routes \in SUBSET Names /\ nconf.muted \in SUBSET Types
  BY DEF RouteInv, RouteTypes, Configs
<1>2. /\ tick = NoTick /\ UNCHANGED <<happened, nconf, unbuildable>>
      /\ stash' = IF ok THEN {} ELSE stash
      /\ \/ /\ ndb' = ensureLifecycleClawRouteBaselines(d2, routes) /\ ledger' = SeenBy(l, routes)
            /\ tick' = [NoTick EXCEPT !.pc = "build", !.routes = routes, !.muted = nconf.muted]
         \/ /\ ndb' = parkLifecycleClawState(parkLifecycleWatermark(d))
            /\ ledger' = Without(ledger, Ids) /\ tick' = tick
  BY DEF TickStarts
<1>3. tick.sent = 0  BY <1>2, NoTickTyped
<1>4. /\ rows \in [Tables -> SUBSET Ids]
      /\ \A t \in Tables : ndb.rows[t] \subseteq rows[t]
      /\ \A t \in Tables, i \in Ids : <<t, i>> \in stash => i \in rows[t]
  <2>1. DOMAIN ndb.rows = Tables /\ \A t \in Tables : ndb.rows[t] \subseteq Ids  BY <1>1 DEF Databases
  <2>2. \A q \in stash : q[2] \in Ids  BY <1>1
  <2>3. ASSUME NEW t \in Tables, NEW i \in Ids, <<t, i>> \in stash
        PROVE  i \in {p[2] : p \in {q \in stash : q[1] = t}}
    <3>1. <<t, i>> \in {q \in stash : q[1] = t} /\ <<t, i>>[2] = i  BY <2>3
    <3> QED  BY <3>1
  <2> QED  BY <2>1, <2>2, <2>3
<1> HIDE DEF rows
<1>5. d \in Databases /\ Grown(ndb, d) /\ (ok => d.rows = rows)
  <2>1. CASE ok
    <3>1. d = [ndb EXCEPT !.rows = rows]  BY <2>1
    <3> HIDE DEF d
    <3>2. d \in Databases /\ d.rows = rows  BY <1>1, <1>4, <3>1 DEF Databases
    <3> QED  BY <1>4, <3>2 DEF Grown
  <2>2. CASE ~ok  BY <1>1, <2>2, GrownOnce
  <2> QED  BY <2>1, <2>2
<1> HIDE DEF d
<1>6. Grown(d, d1) /\ d1 \in Databases  BY <1>1, <1>5, PruneGrows DEF Grown
<1> HIDE DEF d1
<1>7. Grown(d1, d2) /\ d2 \in Databases  BY <1>1, <1>6, WatermarksGrow, GrownOnce DEF Grown
<1> HIDE DEF d2
<1>8. Grown(d2, ensureLifecycleClawRouteBaselines(d2, routes))  BY <1>1, <1>7, BaselinesGrow
<1>9. Grown(d, parkLifecycleWatermark(d)) /\ parkLifecycleWatermark(d) \in Databases
  BY <1>1, <1>5, ParkGrows DEF Grown
<1>10. Grown(parkLifecycleWatermark(d), parkLifecycleClawState(parkLifecycleWatermark(d)))
  BY <1>1, <1>9, ParkGrows
<1>11. Grown(d, ndb')
  BY <1>2, <1>6, <1>7, <1>8, <1>9, <1>10, GrownTwice
<1>12. l \in Ledgers /\ l.sends = ledger.sends /\ l.lost = ledger.lost
  <2>1. (ledger.half \/ (~readable /\ Cardinality(routes) = 1)) \in BOOLEAN  OBVIOUS
  <2> QED  BY <1>1, <2>1 DEF Ledgers
<1> HIDE DEF l
<1>13. ledger' \in Ledgers /\ ledger'.sends = ledger.sends /\ ledger'.lost = ledger.lost
  BY <1>1, <1>2, <1>12, SeenTyped, WithoutTyped
<1>14. tick' \in Ticks /\ TickShape'
  <2>1. CASE tick' = tick  BY <1>1, <2>1 DEF TickShape
  <2>2. CASE tick' = [NoTick EXCEPT !.pc = "build", !.routes = routes, !.muted = nconf.muted]
    <3>1. tick' \in Ticks  BY <1>1, <2>2, NoTickTyped DEF Ticks
    <3>2. tick'.pc = "build" /\ tick'.at = Legacy /\ tick'.sent = 0  BY <2>2, NoTickTyped DEF Ticks
    <3> QED  BY <3>1, <3>2 DEF TickShape
  <2> QED  BY <1>2, <2>1, <2>2
<1>15. DeliveriesKept
  <2>1. Grown(ndb, ndb')  BY <1>5, <1>11, GrownTwice
  <2>2. \A n \in Tables, i \in Ids : <<n, i>> \in stash => <<n, i>> \in stash' \/ i \in ndb'.rows[n]
    <3>1. CASE ok
      <4>1. \A n \in Tables : rows[n] \subseteq ndb'.rows[n]  BY <1>5, <1>11, <3>1 DEF Grown
      <4> QED  BY <1>4, <4>1
    <3>2. CASE ~ok  BY <1>2, <3>2
    <3> QED  BY <3>1, <3>2
  <2> QED  BY <1>3, <1>13, <2>1, <2>2 DEF DeliveriesKept
<1>16. stash' \subseteq Tables \X Ids  BY <1>1, <1>2
<1> QED  BY <1>2, <1>13, <1>14, <1>15, <1>16, StepKeeps

--------------------------------------------------------------------------------
(* The steps of a tick. *)

\* The cursors the task pass reads.
LEMMA BuildsKeeps == ASSUME RouteInv, TickBuilds PROVE RouteInv'
<1> DEFINE built == tick.routes \ unbuildable
           single == built = tick.routes /\ Cardinality(built) = 1
           key(n) == lifecycleWatermarkKeyFor(ndb, n, single)
           with == {n \in built : CursorAt(ndb, key(n)) # NoCursor}
           wm == [n \in with |-> CursorAt(ndb, key(n))]
           lowest == Min({wm[n] : n \in with})
           next == [tick EXCEPT !.pc = "task", !.built = built, !.wm = wm, !.todo = with]
           off == {i \in Of("task") \cap Typed(tick.muted) : i > lowest}
<1>1. /\ RouteTypes /\ ndb \in Databases /\ ledger \in Ledgers /\ tick \in Ticks /\ TickShape
      /\ stash \subseteq Tables \X Ids /\ HappenedTypes
  BY DEF RouteInv, RouteTypes
<1>2. tick.pc = "build" /\ UNCHANGED <<happened, nconf, unbuildable, stash>>
  BY DEF TickBuilds
<1>3. tick.at = Legacy /\ tick.sent = 0  BY <1>1, <1>2 DEF TickShape
<1>4. built \in SUBSET Names /\ with \in SUBSET Names /\ with \subseteq built
  BY <1>1 DEF Ticks
<1>5. wm \in [with -> 0 .. MaxHappened]
  <2> SUFFICES ASSUME NEW n \in with PROVE CursorAt(ndb, key(n)) \in 0 .. MaxHappened
    OBVIOUS
  <2>1. n \in Names /\ CursorAt(ndb, key(n)) # NoCursor  BY <1>4
  <2>2. key(n) \in {n, Legacy}  BY DEF lifecycleWatermarkKeyFor
  <2>3. CursorAt(ndb, key(n)) \in Positions
    BY <1>1, <2>1, <2>2 DEF CursorAt, Databases
  <2> QED  BY <2>1, <2>3, RouteNumbers DEF Positions
<1>6. wm \in Watermarks /\ DOMAIN wm = with
  BY <1>4, <1>5 DEF Watermarks
<1>7. /\ ndb' \in {ndb, [ndb EXCEPT !.shared = lifecycleMaxEventRowID], parkLifecycleWatermark(ndb),
                   SkipForAll(ndb, off)}
      /\ ledger' \in {ledger, Without(ledger, Of("task")), Without(ledger, off)}
      /\ tick' \in {NoTick, next, [next EXCEPT !.todo = {}]}
  BY DEF TickBuilds, skipLifecycleMutedEvents
<1>8. Grown(ndb, ndb')
  <2>1. off \in SUBSET Ids  BY <1>1, EntryIds
  <2>2. Grown(ndb, [ndb EXCEPT !.shared = lifecycleMaxEventRowID])
    <3>1. lifecycleMaxEventRowID \in Positions  BY <1>1, EntryIds, RouteNumbers
    <3> QED  BY <1>1, <3>1 DEF Grown, Databases
  <2> HIDE DEF off
  <2> QED  BY <1>1, <1>7, <2>1, <2>2, GrownOnce, ParkGrows, SkipGrows
<1> HIDE DEF off
<1>9. ledger' \in Ledgers /\ ledger'.sends = ledger.sends /\ ledger'.lost = ledger.lost
  BY <1>1, <1>7, WithoutTyped
<1> HIDE DEF wm, with
<1>10. tick' \in Ticks /\ TickShape'
  <2>1. CASE tick' = NoTick  BY <2>1, NoTickShape
  <2>2. next \in Ticks /\ next.pc = "task" /\ next.at = Legacy /\ next.sent = 0 /\ next.wm = wm /\ next.todo = with
    BY <1>1, <1>3, <1>4, <1>6 DEF Ticks
  <2>3. CASE tick' = next  BY <1>6, <2>2, <2>3 DEF TickShape
  <2>4. CASE tick' = [next EXCEPT !.todo = {}]
    <3> HIDE DEF next
    <3>1. tick' \in Ticks /\ tick'.at = Legacy /\ tick'.sent = 0 /\ tick'.todo = {} /\ tick'.pc = "task"
      BY <2>2, <2>4 DEF Ticks
    <3> QED  BY <3>1 DEF TickShape
  <2> QED  BY <1>7, <2>1, <2>3, <2>4
<1>11. DeliveriesKept  BY <1>1, <1>2, <1>3, <1>8, <1>9, QuietDeliveries
<1>12. stash' \subseteq Tables \X Ids  BY <1>1, <1>2
<1> QED  BY <1>2, <1>9, <1>10, <1>11, <1>12, StepKeeps

\* A route selects its candidates.
LEMMA TaskRouteStartsKeeps ==
    ASSUME RouteInv, NEW n \in Names, TaskRouteStarts(n) PROVE RouteInv'
<1> DEFINE cand == {i \in Of("task") \ (Typed(tick.muted) \cup ndb.rows[Legacy]) : i > tick.wm[n]}
<1>1. /\ RouteTypes /\ ndb \in Databases /\ ledger \in Ledgers /\ tick \in Ticks /\ TickShape
      /\ stash \subseteq Tables \X Ids /\ HappenedTypes
  BY DEF RouteInv, RouteTypes
<1>2. /\ tick.pc = "task" /\ tick.at = Legacy /\ n \in tick.todo
      /\ tick' = [tick EXCEPT !.at = n, !.handled = tick.wm[n], !.cand = cand]
      /\ UNCHANGED <<happened, nconf, unbuildable, ndb, stash, ledger>>
  BY DEF TaskRouteStarts
<1>3. tick.sent = 0 /\ n \in DOMAIN tick.wm  BY <1>1, <1>2 DEF TickShape
<1>4. tick.wm[n] \in 0 .. MaxHappened  BY <1>1, <1>3 DEF Ticks, Watermarks
<1>5. cand \in SUBSET Ids  BY <1>1, EntryIds
<1> HIDE DEF cand
<1>6. tick' \in Ticks /\ tick'.sent = 0 /\ tick'.at = n /\ tick'.pc = "task"
      /\ tick'.todo = tick.todo /\ tick'.wm = tick.wm
  BY <1>1, <1>2, <1>3, <1>4, <1>5, RouteNumbers DEF Ticks
<1>7. TickShape'  BY <1>1, <1>2, <1>3, <1>6 DEF TickShape
<1>8. DeliveriesKept  BY <1>1, <1>2, <1>3, GrownOnce, QuietDeliveries
<1> QED  BY <1>1, <1>2, <1>6, <1>7, <1>8, StepKeeps

\* The steps of a route that only move on to the next event.
LEMMA MovesOnKeeps ==
    ASSUME RouteInv, NEW i \in Ids, tick.at \in Names, tick' = Past(i), Grown(ndb, ndb'),
           UNCHANGED <<happened, nconf, unbuildable, stash>>, tick.sent = 0,
           ledger' \in Ledgers, ledger'.sends = ledger.sends, ledger'.lost = ledger.lost
    PROVE  RouteInv'
<1>1. RouteTypes /\ stash \subseteq Tables \X Ids  BY DEF RouteInv, RouteTypes
<1>2. tick.at # Legacy  BY RouteNumbers
<1>3. tick' \in Ticks /\ TickShape'  BY <1>1, <1>2, PastTyped
<1>4. DeliveriesKept  BY <1>1, QuietDeliveries
<1> QED  BY <1>1, <1>3, <1>4, StepKeeps

\* A route is done for this tick.
LEMMA ParksKeeps ==
    ASSUME RouteInv, tick' = Parked, Sending, Grown(ndb, ndb'),
           UNCHANGED <<happened, nconf, unbuildable, stash>>,
           ledger' \in Ledgers, ledger'.sends = ledger.sends, ledger'.lost = ledger.lost
    PROVE  RouteInv'
<1>1. RouteTypes /\ stash \subseteq Tables \X Ids /\ tick \in Ticks /\ TickShape  BY DEF RouteInv, RouteTypes
<1>2. tick.at \in Names /\ tick.sent = 0  BY <1>1, EventIn DEF Sending
<1>3. tick' = [tick EXCEPT !.cand = {}, !.paused = tick.paused \cup {tick.at}]  BY DEF Parked
<1>4. tick' \in Ticks /\ tick'.sent = 0 /\ tick'.at = tick.at /\ tick'.pc = tick.pc
      /\ tick'.todo = tick.todo /\ tick'.wm = tick.wm
  <2> DEFINE paused == tick.paused \cup {tick.at}
  <2>1. paused \in SUBSET Names /\ {} \in SUBSET Ids  BY <1>1, <1>2 DEF Ticks
  <2>2. tick' = [tick EXCEPT !.cand = {}, !.paused = paused]  BY <1>3
  <2> HIDE DEF paused
  <2>3. tick' \in Ticks  BY <1>1, <2>1, <2>2 DEF Ticks
  <2> QED  BY <1>1, <1>2, <2>2, <2>3 DEF Ticks
<1>5. TickShape'  BY <1>1, <1>4 DEF TickShape
<1>6. DeliveriesKept  BY <1>1, <1>2, QuietDeliveries
<1> QED  BY <1>1, <1>4, <1>5, <1>6, StepKeeps

\* Nothing is sent for an event that is passed over.
LEMMA PassesOverKeeps == ASSUME RouteInv, PassesOver PROVE RouteInv'
<1>1. RouteTypes /\ ndb \in Databases /\ ledger \in Ledgers  BY DEF RouteInv, RouteTypes
<1>2. Sending /\ tick' = Past(Event) /\ UNCHANGED <<happened, nconf, unbuildable, ndb, stash, ledger>>
  BY DEF PassesOver
<1>3. tick.at \in Names /\ Event \in Ids /\ tick.sent = 0  BY <1>1, <1>2, EventIn DEF Sending
<1> QED  BY <1>1, <1>2, <1>3, GrownOnce, MovesOnKeeps

\* The send itself: nothing was on record, stashed or under way.
LEMMA SendsKeeps == ASSUME RouteInv, Sends PROVE RouteInv'
<1> DEFINE n == tick.at
           e == Event
           sends == [ledger.sends EXCEPT ![n] = [ledger.sends[n] EXCEPT ![e] = ledger.sends[n][e] + 1]]
           fails == [ledger.fails EXCEPT ![n] = [ledger.fails[n] EXCEPT ![e] = 0]]
           done == [ledger.done EXCEPT ![n] = ledger.done[n] \cup {e}]
<1>1. /\ RouteTypes /\ SentInv /\ ndb \in Databases /\ ledger \in Ledgers /\ tick \in Ticks /\ TickShape
      /\ stash \subseteq Tables \X Ids
  BY DEF RouteInv, RouteTypes
<1>2. /\ Sending /\ ~lifecycleRouteDelivered(n, e)
      /\ tick' = [tick EXCEPT !.sent = e]
      /\ ledger' = [ledger EXCEPT !.sends = sends, !.fails = fails, !.done = done]
      /\ UNCHANGED <<happened, nconf, unbuildable, ndb, stash>>
  BY DEF Sends, ToSend
<1>3. n \in Names /\ e \in Ids /\ tick.sent = 0 /\ e \in 0 .. MaxHappened /\ n # Legacy
  BY <1>1, <1>2, EventIn, RouteNumbers DEF Sending
<1> HIDE DEF n, e
<1>4. /\ sends \in [Names -> [Ids -> Nat]]
      /\ \A m \in Names, i \in Ids : ~(m = n /\ i = e) => sends[m][i] = ledger.sends[m][i]
      /\ sends[n][e] = ledger.sends[n][e] + 1 /\ ledger.sends[n][e] \in Nat
  <2>1. ledger.sends \in [Names -> [Ids -> Nat]]  BY <1>1 DEF Ledgers
  <2>2. ledger.sends[n] \in [Ids -> Nat]  BY <1>3, <2>1
  <2>3. ledger.sends[n][e] \in Nat  BY <1>3, <2>2
  <2> DEFINE one == [ledger.sends[n] EXCEPT ![e] = ledger.sends[n][e] + 1]
  <2>4. one \in [Ids -> Nat] /\ one[e] = ledger.sends[n][e] + 1
        /\ \A i \in Ids : i # e => one[i] = ledger.sends[n][i]
    BY <1>3, <2>2, <2>3
  <2> HIDE DEF one
  <2>5. [ledger.sends EXCEPT ![n] = one] \in [Names -> [Ids -> Nat]]
        /\ [ledger.sends EXCEPT ![n] = one][n] = one
        /\ \A m \in Names : m # n => [ledger.sends EXCEPT ![n] = one][m] = ledger.sends[m]
    BY <1>3, <2>1, <2>4
  <2>6. sends = [ledger.sends EXCEPT ![n] = one]  BY DEF one
  <2> HIDE DEF sends
  <2> QED  BY <2>3, <2>4, <2>5, <2>6
<1>5. fails \in [Names -> [Ids -> 0 .. MaxTransient + 1]]
  <2>1. ledger.fails \in [Names -> [Ids -> 0 .. MaxTransient + 1]]  BY <1>1 DEF Ledgers
  <2>2. [ledger.fails[n] EXCEPT ![e] = 0] \in [Ids -> 0 .. MaxTransient + 1]  BY <1>3, <2>1, RouteNumbers
  <2> QED  BY <2>1, <2>2
<1>6. done \in [Names -> SUBSET Ids]  BY <1>1, <1>3 DEF Ledgers
<1> HIDE DEF sends, fails, done
<1>7. ledger' \in Ledgers /\ ledger'.sends = sends /\ ledger'.lost = ledger.lost
  BY <1>1, <1>2, <1>4, <1>5, <1>6 DEF Ledgers
<1>8. tick' \in Ticks /\ tick'.sent = e /\ tick'.at = n /\ tick'.pc = tick.pc
      /\ tick'.todo = tick.todo /\ tick'.wm = tick.wm
  BY <1>1, <1>2, <1>3 DEF Ticks, n
<1>9. TickShape'  BY <1>1, <1>3, <1>8 DEF TickShape, n
<1>10. RouteTypes'
  BY <1>1, <1>2, <1>7, <1>8, <1>9 DEF RouteTypes, HappenedTypes
<1>11. ~(\E m \in Names, i \in Ids : tick.at = m /\ tick.sent = i)
  BY <1>3, RouteNumbers
<1>12. ledger.sends[n][e] > 0 => e \in ledger.lost
  BY <1>1, <1>2, <1>3, <1>11 DEF SentInv
<1>13. SentInv'
  <2> SUFFICES ASSUME NEW m \in Names, NEW i \in Ids
               PROVE  /\ sends[m][i] > 0 =>
                            \/ lifecycleRouteDelivered(m, i)' \/ i \in ledger'.lost
                            \/ (tick'.at = m /\ tick'.sent = i)
                      /\ sends[m][i] > 1 => i \in ledger'.lost
    BY <1>7 DEF SentInv
  <2>1. CASE m = n /\ i = e
    <3>1. sends[m][i] > 1 => ledger.sends[n][e] > 0  BY <1>4, <2>1
    <3> QED  BY <1>7, <1>8, <1>12, <2>1, <3>1
  <2>2. CASE ~(m = n /\ i = e)
    <3>1. sends[m][i] = ledger.sends[m][i]  BY <1>4, <2>2
    <3>2. lifecycleRouteDelivered(m, i) => lifecycleRouteDelivered(m, i)'
      BY <1>2 DEF lifecycleRouteDelivered
    <3> QED  BY <1>1, <1>7, <1>11, <3>1, <3>2 DEF SentInv
  <2> QED  BY <2>1, <2>2
<1> QED  BY <1>10, <1>13 DEF RouteInv

\* The rows are written, or stashed when the database does not take them.
LEMMA RecordsKeeps == ASSUME RouteInv, NEW ok \in BOOLEAN, Records(ok) PROVE RouteInv'
<1> DEFINE d == IF ok THEN WithRows(ndb, tick.sent) ELSE ndb
           streak == [t \in DOMAIN d.streak |->
                       IF t \in RecordedIn(tick.at) THEN [d.streak[t] EXCEPT ![tick.sent] = 0] ELSE d.streak[t]]
           new == {<<t, tick.sent>> : t \in RecordedIn(tick.at)}
<1>1. /\ RouteTypes /\ ndb \in Databases /\ ledger \in Ledgers /\ tick \in Ticks /\ TickShape
      /\ stash \subseteq Tables \X Ids
  BY DEF RouteInv, RouteTypes
<1>2. /\ tick.sent # 0 /\ ndb' = [d EXCEPT !.streak = streak] /\ tick' = Past(tick.sent)
      /\ stash' = IF ok THEN stash ELSE stash \cup new
      /\ UNCHANGED <<happened, nconf, unbuildable, ledger>>
  BY DEF Records
<1>3. tick.at # Legacy /\ tick.at \in Names /\ tick.sent \in Ids
  <2>1. tick.at # Legacy  BY <1>1, <1>2 DEF TickShape
  <2>2. tick.sent \in 0 .. MaxHappened /\ tick.at \in Tables  BY <1>1 DEF Ticks
  <2> QED  BY <1>2, <2>1, <2>2, RouteNumbers DEF Tables
<1>4. RecordedIn(tick.at) \subseteq Tables /\ tick.at \in RecordedIn(tick.at)
  BY <1>3, RouteNumbers DEF RecordedIn
<1>5. d \in Databases /\ Grown(ndb, d) /\ (ok => tick.sent \in d.rows[tick.at])
  BY <1>1, <1>3, <1>4, RowsGrow, GrownOnce DEF Grown
<1>6. new \subseteq Tables \X Ids /\ <<tick.at, tick.sent>> \in new
  BY <1>3, <1>4
<1> HIDE DEF d, new
<1>7. streak \in [Tables -> [Ids -> 0 .. MaxTransient - 1]]
  <2>1. d.streak \in [Tables -> [Ids -> 0 .. MaxTransient - 1]] /\ 0 \in 0 .. MaxTransient - 1
    BY <1>5, RouteNumbers DEF Databases
  <2>2. \A t \in Tables : [d.streak[t] EXCEPT ![tick.sent] = 0] \in [Ids -> 0 .. MaxTransient - 1]
    BY <1>3, <2>1
  <2> QED  BY <2>1, <2>2
<1> HIDE DEF streak
<1>8. ndb' \in Databases /\ ndb'.rows = d.rows  BY <1>2, <1>5, <1>7 DEF Databases
<1>9. Grown(ndb, ndb')  BY <1>5, <1>8 DEF Grown
<1>10. tick' \in Ticks /\ TickShape'  BY <1>1, <1>2, <1>3, PastTyped
<1>11. tick.sent \in ndb'.rows[tick.at] \/ <<tick.at, tick.sent>> \in stash'
  BY <1>2, <1>5, <1>6, <1>8
<1>12. stash \subseteq stash' /\ stash' \subseteq Tables \X Ids  BY <1>1, <1>2, <1>6
<1>13. DeliveriesKept  BY <1>2, <1>9, <1>11, <1>12 DEF DeliveriesKept
<1> QED  BY <1>1, <1>2, <1>10, <1>12, <1>13, StepKeeps

\* A permanent failure is recorded like a delivery, a config failure parks the route.
LEMMA FailsKeeps == ASSUME RouteInv, FailsConfig \/ FailsPermanently PROVE RouteInv'
<1> DEFINE done == [ledger.done EXCEPT ![tick.at] = ledger.done[tick.at] \cup {Event}]
<1>1. RouteTypes /\ ndb \in Databases /\ ledger \in Ledgers  BY DEF RouteInv, RouteTypes
<1>2. Sending /\ UNCHANGED <<happened, nconf, unbuildable, stash>>
  BY DEF FailsConfig, FailsPermanently, ToSend
<1>3. tick.at \in Names /\ Event \in Ids /\ tick.sent = 0  BY <1>1, <1>2, EventIn DEF Sending
<1>4. CASE FailsConfig
  <2>1. tick' = Parked /\ ndb' = ndb /\ ledger' = ledger  BY <1>4 DEF FailsConfig
  <2> QED  BY <1>1, <1>2, <2>1, GrownOnce, ParksKeeps
<1>5. CASE FailsPermanently
  <2>1. /\ ndb' = WithRows(ndb, Event) /\ tick' = Past(Event)
        /\ ledger' = [ledger EXCEPT !.done = done]
    BY <1>5 DEF FailsPermanently
  <2>2. done \in [Names -> SUBSET Ids]  BY <1>1, <1>3 DEF Ledgers
  <2> HIDE DEF done
  <2>3. ledger' \in Ledgers /\ ledger'.sends = ledger.sends /\ ledger'.lost = ledger.lost
    BY <1>1, <2>1, <2>2 DEF Ledgers
  <2>4. Grown(ndb, ndb')  BY <1>1, <1>3, <2>1, RowsGrow
  <2> QED  BY <1>2, <1>3, <2>1, <2>3, <2>4, MovesOnKeeps
<1> QED  BY <1>4, <1>5 DEF FailsConfig, FailsPermanently

\* A transient failure adds to a streak, and ends it with a row at the last.
LEMMA FailsTransientlyKeeps == ASSUME RouteInv, FailsTransiently PROVE RouteInv'
<1> DEFINE n == tick.at
           i == Event
           key == IF singleRoute THEN Legacy ELSE n
           prior == IF singleRoute THEN n ELSE Legacy
           count == StreakSoFar(key, prior, i) + 1
           d == IF ndb.streak[key][i] = 0 THEN [ndb EXCEPT !.streak[prior][i] = 0] ELSE ndb
           upto == Min({ledger.fails[n][i] + 1, MaxTransient + 1})
           fails == [ledger.fails EXCEPT ![n] = [ledger.fails[n] EXCEPT ![i] = upto]]
           done == [ledger.done EXCEPT ![n] = IF count >= MaxTransient THEN ledger.done[n] \cup {i} ELSE ledger.done[n]]
<1>1. RouteTypes /\ ndb \in Databases /\ ledger \in Ledgers  BY DEF RouteInv, RouteTypes
<1>2. /\ Sending /\ UNCHANGED <<happened, nconf, unbuildable, stash>>
      /\ ledger' = [ledger EXCEPT !.fails = fails, !.done = done]
      /\ \/ /\ count >= MaxTransient /\ ndb' = WithRows([d EXCEPT !.streak[key][i] = 0], i) /\ tick' = Past(i)
         \/ /\ ~(count >= MaxTransient) /\ ndb' = [d EXCEPT !.streak[key][i] = count] /\ tick' = Parked
  BY DEF FailsTransiently, ToSend
<1>3. n \in Names /\ i \in Ids /\ tick.sent = 0  BY <1>1, <1>2, EventIn DEF Sending
<1>4. key \in Tables /\ prior \in Tables  BY <1>3, RouteNumbers
<1>5. count \in 1 .. MaxTransient
  <2>1. \A t \in Tables : ndb.streak[t] \in [Ids -> 0 .. MaxTransient - 1]  BY <1>1 DEF Databases
  <2>2. ndb.streak[key][i] \in 0 .. MaxTransient - 1 /\ ndb.streak[prior][i] \in 0 .. MaxTransient - 1
    BY <1>3, <1>4, <2>1
  <2>3. StreakSoFar(key, prior, i) \in 0 .. MaxTransient - 1  BY <2>2 DEF StreakSoFar
  <2> HIDE DEF key, prior, i
  <2> QED  BY <2>3, RouteNumbers
<1>6. upto \in 0 .. MaxTransient + 1
  <2>1. ledger.fails \in [Names -> [Ids -> 0 .. MaxTransient + 1]]  BY <1>1 DEF Ledgers
  <2>2. ledger.fails[n][i] \in 0 .. MaxTransient + 1  BY <1>3, <2>1
  <2> DEFINE f == ledger.fails[n][i]
             S == {f + 1, MaxTransient + 1}
  <2> HIDE DEF f
  <2>3. S \subseteq Nat /\ S # {} /\ S \subseteq 0 .. MaxTransient + 2  BY <2>2, RouteNumbers DEF f
  <2>4. \E x \in S : \A y \in S : x <= y  BY <2>3, LeastNat
  <2>5. Min(S) \in S /\ \A y \in S : Min(S) <= y  BY <2>4 DEF Min
  <2>6. Min(S) \in Nat /\ Min(S) <= MaxTransient + 1  BY <2>3, <2>5
  <2>7. upto = Min(S)  BY DEF f
  <2> QED  BY <2>6, <2>7, RouteNumbers
<1>7. 0 \in 0 .. MaxTransient - 1  BY RouteNumbers
<1> HIDE DEF n, i, key, prior, count, upto
<1>8. fails \in [Names -> [Ids -> 0 .. MaxTransient + 1]]
  <2>1. ledger.fails \in [Names -> [Ids -> 0 .. MaxTransient + 1]]  BY <1>1 DEF Ledgers
  <2>2. [ledger.fails[n] EXCEPT ![i] = upto] \in [Ids -> 0 .. MaxTransient + 1]  BY <1>3, <1>6, <2>1
  <2> QED  BY <2>1, <2>2
<1>9. done \in [Names -> SUBSET Ids]  BY <1>1, <1>3 DEF Ledgers
<1> HIDE DEF fails, done
<1>10. ledger' \in Ledgers /\ ledger'.sends = ledger.sends /\ ledger'.lost = ledger.lost
  BY <1>1, <1>2, <1>8, <1>9 DEF Ledgers
<1>11. Grown(ndb, d) /\ d \in Databases
  <2>1. Grown(ndb, [ndb EXCEPT !.streak[prior][i] = 0])  BY <1>1, <1>3, <1>4, <1>7, StreakGrows
  <2> QED  BY <1>1, <2>1, GrownOnce DEF Grown
<1> HIDE DEF d
<1>12. CASE count >= MaxTransient
  <2> DEFINE e == [d EXCEPT !.streak[key][i] = 0]
  <2>1. Grown(d, e) /\ e \in Databases  BY <1>3, <1>4, <1>7, <1>11, StreakGrows DEF Grown
  <2>2. ndb' = WithRows(e, i) /\ tick' = Past(i)  BY <1>2, <1>12
  <2> HIDE DEF e
  <2>3. Grown(e, WithRows(e, i))  BY <1>3, <2>1, RowsGrow
  <2>4. Grown(ndb, ndb')  BY <1>11, <2>1, <2>2, <2>3, GrownTwice
  <2> QED  BY <1>2, <1>3, <1>10, <2>2, <2>4, MovesOnKeeps DEF n
<1>13. CASE ~(count >= MaxTransient)
  <2>1. count \in 0 .. MaxTransient - 1  BY <1>5, <1>13, RouteNumbers
  <2>2. Grown(d, [d EXCEPT !.streak[key][i] = count])  BY <1>3, <1>4, <1>11, <2>1, StreakGrows
  <2>3. Grown(ndb, ndb')  BY <1>2, <1>11, <1>13, <2>2, GrownTwice
  <2>4. tick' = Parked  BY <1>2, <1>13
  <2> QED  BY <1>2, <1>10, <2>3, <2>4, ParksKeeps
<1> QED  BY <1>12, <1>13

\* A cursor moves over what was handled.
LEMMA TaskRouteEndsKeeps == ASSUME RouteInv, NEW ok \in BOOLEAN, TaskRouteEnds(ok) PROVE RouteInv'
<1> DEFINE n == tick.at
           todo == tick.todo \ {n}
           floor == IF tick.floor = NoCursor \/ tick.handled < tick.floor THEN tick.handled ELSE tick.floor
<1>1. /\ RouteTypes /\ ndb \in Databases /\ ledger \in Ledgers /\ tick \in Ticks /\ TickShape
      /\ stash \subseteq Tables \X Ids
  BY DEF RouteInv, RouteTypes
<1>2. /\ tick.pc = "task" /\ n # Legacy /\ tick.sent = 0
      /\ ndb' \in {ndb, [ndb EXCEPT !.shared = tick.handled], [ndb EXCEPT !.cursor[n] = tick.handled]}
      /\ tick' = [tick EXCEPT !.at = Legacy, !.todo = todo, !.handled = 0, !.floor = floor]
      /\ UNCHANGED <<happened, nconf, unbuildable, stash, ledger>>
  BY DEF TaskRouteEnds
<1>3. tick.handled \in Positions /\ tick.handled \in 0 .. MaxHappened /\ 0 \in 0 .. MaxHappened
  BY <1>1, RouteNumbers DEF Ticks
<1>4. Grown(ndb, ndb')
  <2>1. Grown(ndb, [ndb EXCEPT !.shared = tick.handled])  BY <1>1, <1>3 DEF Grown, Databases
  <2>2. Grown(ndb, [ndb EXCEPT !.cursor[n] = tick.handled])
    <3> DEFINE cursor == [ndb.cursor EXCEPT ![n] = tick.handled]
               e == [ndb EXCEPT !.cursor = cursor]
    <3>1. cursor \in [Names -> Positions]  BY <1>1, <1>3 DEF Databases
    <3> HIDE DEF cursor
    <3>2. e \in Databases /\ e.rows = ndb.rows  BY <1>1, <3>1 DEF Databases
    <3>3. [ndb EXCEPT !.cursor[n] = tick.handled] = e  BY DEF cursor
    <3> QED  BY <3>2, <3>3 DEF Grown
  <2> QED  BY <1>1, <1>2, <2>1, <2>2, GrownOnce
<1>5. floor \in Positions /\ todo \in SUBSET Names /\ todo \subseteq tick.todo /\ Legacy \in Tables
  BY <1>1, <1>3, RouteNumbers DEF Ticks
<1> HIDE DEF floor, todo
<1>6. tick' \in Ticks  BY <1>1, <1>2, <1>3, <1>5 DEF Ticks
<1>7. tick'.at = Legacy /\ tick'.sent = 0 /\ tick'.pc = "task" /\ tick'.todo = todo /\ tick'.wm = tick.wm
  BY <1>1, <1>2 DEF Ticks
<1>8. TickShape'  BY <1>1, <1>2, <1>5, <1>7 DEF TickShape
<1>9. DeliveriesKept  BY <1>1, <1>2, <1>4, QuietDeliveries
<1> QED  BY <1>1, <1>2, <1>6, <1>8, <1>9, StepKeeps

\* The watermark floor, and the claw baseline.
LEMMA TaskPassEndsKeeps == ASSUME RouteInv, TaskPassEnds PROVE RouteInv'
<1> DEFINE rises == /\ ~singleRoute /\ tick.built = tick.routes /\ DOMAIN tick.wm = tick.built
                    /\ tick.floor > 0 /\ tick.floor > ndb.shared
           d == IF rises THEN [ndb EXCEPT !.shared = tick.floor] ELSE ndb
           off == Of("claw") \cap Typed(tick.muted)
           next == [tick EXCEPT !.pc = "claw", !.todo = tick.built \ tick.paused,
                                !.wm = [n \in {} |-> 0], !.floor = NoCursor, !.paused = {}]
<1>1. /\ RouteTypes /\ ndb \in Databases /\ ledger \in Ledgers /\ tick \in Ticks /\ TickShape
      /\ stash \subseteq Tables \X Ids /\ HappenedTypes
  BY DEF RouteInv, RouteTypes
<1>2. /\ tick.pc = "task" /\ tick.at = Legacy
      /\ UNCHANGED <<happened, nconf, unbuildable, stash>>
      /\ ndb' \in {seedLifecycleClawBaseline(d, tick.routes), SkipForAll(d, off)}
      /\ tick' \in {NoTick, next}
      /\ ledger' \in {ledger, Without(ledger, off)}
  BY DEF TaskPassEnds
<1>3. tick.sent = 0  BY <1>1, <1>2 DEF TickShape
<1>4. d \in Databases /\ Grown(ndb, d)
  <2>1. tick.floor \in Positions  BY <1>1 DEF Ticks
  <2>2. Grown(ndb, [ndb EXCEPT !.shared = tick.floor])  BY <1>1, <2>1 DEF Grown, Databases
  <2> HIDE DEF rises
  <2> QED  BY <1>1, <2>2, GrownOnce DEF Grown
<1>5. off \in SUBSET Ids /\ tick.routes \in SUBSET Names  BY <1>1, EntryIds DEF Ticks
<1> HIDE DEF d, off
<1>6. Grown(ndb, ndb')
  <2>1. Grown(d, ndb')  BY <1>1, <1>2, <1>4, <1>5, SeedGrows, SkipGrows
  <2> QED  BY <1>4, <2>1, GrownTwice
<1>7. ledger' \in Ledgers /\ ledger'.sends = ledger.sends /\ ledger'.lost = ledger.lost
  BY <1>1, <1>2, WithoutTyped
<1>8. tick' \in Ticks /\ TickShape'
  <2>1. CASE tick' = NoTick  BY <2>1, NoTickShape
  <2>2. CASE tick' = next
    <3> DEFINE none == [n \in {} |-> 0]
               left == tick.built \ tick.paused
    <3>1. none \in Watermarks  BY NoTickTyped DEF NoTick, Ticks
    <3>2. left \in SUBSET Names /\ {} \in SUBSET Names /\ NoCursor \in Positions  BY <1>1, RouteNumbers DEF Ticks
    <3>3. tick' = [tick EXCEPT !.pc = "claw", !.todo = left, !.wm = none, !.floor = NoCursor, !.paused = {}]
      BY <2>2
    <3> HIDE DEF none, left, next
    <3>4. tick' \in Ticks  BY <1>1, <3>1, <3>2, <3>3 DEF Ticks
    <3>5. tick'.pc = "claw" /\ tick'.at = Legacy /\ tick'.sent = 0  BY <1>1, <1>2, <1>3, <3>3 DEF Ticks
    <3> QED  BY <3>4, <3>5 DEF TickShape
  <2> QED  BY <1>2, <2>1, <2>2
<1>9. DeliveriesKept  BY <1>1, <1>2, <1>3, <1>6, <1>7, QuietDeliveries
<1>10. stash' \subseteq Tables \X Ids  BY <1>1, <1>2
<1> QED  BY <1>2, <1>7, <1>8, <1>9, <1>10, StepKeeps

\* After a route of the claw pass.
LEMMA AfterRouteTyped ==
    ASSUME RouteTypes, tick.pc = "claw", tick.sent = 0, NEW n, tick' = AfterRoute(n)
    PROVE  tick' \in Ticks /\ TickShape'
<1>1. tick \in Ticks /\ TickShape  BY DEF RouteTypes
<1>2. CASE tick' = NoTick  BY <1>2, NoTickShape
<1>3. CASE tick' = [tick EXCEPT !.at = Legacy, !.todo = @ \ {n}, !.cand = {}]
  <2> DEFINE todo == tick.todo \ {n}
  <2>1. tick' = [tick EXCEPT !.at = Legacy, !.todo = todo, !.cand = {}]  BY <1>3
  <2>2. todo \in SUBSET Names /\ {} \in SUBSET Ids /\ Legacy \in Tables  BY <1>1, RouteNumbers DEF Ticks
  <2> HIDE DEF todo
  <2>3. tick' \in Ticks  BY <1>1, <2>1, <2>2 DEF Ticks
  <2>4. tick'.pc = "claw" /\ tick'.sent = 0 /\ tick'.at = Legacy  BY <1>1, <2>1 DEF Ticks
  <2> QED  BY <2>3, <2>4 DEF TickShape
<1> QED  BY <1>2, <1>3 DEF AfterRoute

\* The claw states a route may deliver.
LEMMA ClawRouteStartsKeeps ==
    ASSUME RouteInv, NEW n \in Names, ClawRouteStarts(n) PROVE RouteInv'
<1> DEFINE b == BaselineOf(ndb, n)
           rejected == (Types \ tick.muted) \ Accepts[n]
           off == Of("claw") \cap Typed(rejected)
           d == IF rejected = {} THEN b.db ELSE lifecycleClawRouteSkip(b.db, n, off)
           cand == (Of("claw") \cap Typed(Accepts[n] \ tick.muted)) \ (d.rows[Legacy] \cup d.rows[n])
<1>1. /\ RouteTypes /\ ndb \in Databases /\ ledger \in Ledgers /\ tick \in Ticks /\ TickShape
      /\ stash \subseteq Tables \X Ids /\ HappenedTypes
  BY DEF RouteInv, RouteTypes
<1>2. /\ tick.pc = "claw" /\ tick.at = Legacy
      /\ UNCHANGED <<happened, nconf, unbuildable, stash, ledger>>
      /\ \/ ndb' = d /\ tick' = [tick EXCEPT !.at = n, !.cand = cand]
         \/ ndb' = b.db /\ tick' = AfterRoute(n)
  BY DEF ClawRouteStarts
<1>3. tick.sent = 0  BY <1>1, <1>2 DEF TickShape
<1>4. Grown(ndb, b.db) /\ b.db \in Databases  BY <1>1, BaselineGrows DEF Grown
<1>5. off \in SUBSET Ids /\ cand \in SUBSET Ids  BY <1>1, EntryIds
<1> HIDE DEF b, off, cand, rejected
<1>6. Grown(b.db, d)  BY <1>4, <1>5, RouteSkipGrows, GrownOnce
<1>7. Grown(ndb, ndb')  BY <1>2, <1>4, <1>6, GrownTwice
<1>8. tick' \in Ticks /\ TickShape'
  <2>1. CASE tick' = AfterRoute(n)  BY <1>1, <1>2, <1>3, <2>1, AfterRouteTyped
  <2>2. CASE tick' = [tick EXCEPT !.at = n, !.cand = cand]
    <3>1. n \in Tables  BY RouteNumbers
    <3>2. tick' \in Ticks  BY <1>1, <1>5, <2>2, <3>1 DEF Ticks
    <3>3. tick'.pc = "claw" /\ tick'.sent = 0  BY <1>1, <1>2, <1>3, <2>2 DEF Ticks
    <3> QED  BY <3>2, <3>3 DEF TickShape
  <2> QED  BY <1>2, <2>1, <2>2
<1>9. DeliveriesKept  BY <1>1, <1>2, <1>3, <1>7, QuietDeliveries
<1> QED  BY <1>1, <1>2, <1>8, <1>9, StepKeeps

\* The claw pass of a route is over.
LEMMA ClawRouteEndsKeeps == ASSUME RouteInv, ClawRouteEnds PROVE RouteInv'
<1>1. RouteTypes /\ ndb \in Databases /\ ledger \in Ledgers /\ stash \subseteq Tables \X Ids
  BY DEF RouteInv, RouteTypes
<1>2. /\ tick.pc = "claw" /\ tick.sent = 0 /\ tick' = AfterRoute(tick.at)
      /\ UNCHANGED <<happened, nconf, unbuildable, ndb, stash, ledger>>
  BY DEF ClawRouteEnds
<1>3. tick' \in Ticks /\ TickShape'  BY <1>1, <1>2, AfterRouteTyped
<1>4. DeliveriesKept  BY <1>1, <1>2, GrownOnce, QuietDeliveries
<1> QED  BY <1>1, <1>2, <1>3, <1>4, StepKeeps

\* The tables a hub starts from.
LEMMA FreshTyped == FreshState \in Databases /\ LegacyState \in Databases
<1>1. FreshState \in Databases
  <2>1. [n \in Names |-> NoCursor] \in [Names -> Positions]  BY RouteNumbers
  <2>2. [t \in Names \cup {Legacy} |-> {}] \in [Tables -> SUBSET Ids]  BY DEF Tables
  <2>3. [t \in Names \cup {Legacy} |-> [i \in Ids |-> 0]] \in [Tables -> [Ids -> 0 .. MaxTransient - 1]]
    <3>1. [i \in Ids |-> 0] \in [Ids -> 0 .. MaxTransient - 1]  BY RouteNumbers
    <3> QED  BY <3>1 DEF Tables
  <2> QED  BY <2>1, <2>2, <2>3, RouteNumbers DEF FreshState, Databases
<1>2. 0 \in Positions  BY RouteNumbers
<1> QED  BY <1>1, <1>2 DEF LegacyState, Databases

--------------------------------------------------------------------------------
\* At the start.
LEMMA InitRoutes == RoutesInit => RouteInv
<1> SUFFICES ASSUME RoutesInit PROVE RouteInv  OBVIOUS
<1>1. /\ happened = <<>> /\ unbuildable = {} /\ stash = {} /\ tick = NoTick
      /\ nconf \in {[on |-> o, routes |-> {Incumbent}, muted |-> {}] : o \in BOOLEAN}
  BY DEF RoutesInit
<1>2. HappenedTypes
  <2>1. <<>> \in Seq([src : {"task", "claw"}, type : Types]) /\ Len(<<>>) = 0  OBVIOUS
  <2> QED  BY <1>1, <2>1, RouteNumbers DEF HappenedTypes
<1>3. nconf \in Configs
  <2>1. {Incumbent} \in (SUBSET Names) \ {{}} /\ {} \in SUBSET Types  BY RoutesAssumption
  <2> QED  BY <1>1, <2>1 DEF Configs
<1>4. FreshState \in Databases /\ LegacyState \in Databases  BY FreshTyped
<1>6. NoLedger \in Ledgers /\ \A n \in Names, i \in Ids : NoLedger.sends[n][i] = 0
  <2>1. [n \in Names |-> {}] \in [Names -> SUBSET Ids]  OBVIOUS
  <2>2. [n \in Names |-> [i \in Ids |-> 0]] \in [Names -> [Ids -> Nat]]  OBVIOUS
  <2>3. [n \in Names |-> [i \in Ids |-> 0]] \in [Names -> [Ids -> 0 .. MaxTransient + 1]]
    <3>1. [i \in Ids |-> 0] \in [Ids -> 0 .. MaxTransient + 1]  BY RouteNumbers
    <3> QED  BY <3>1
  <2> QED  BY <2>1, <2>2, <2>3 DEF NoLedger, Ledgers
<1>7. nconf.routes \in SUBSET Names  BY <1>3 DEF Configs
<1>8. ndb \in Databases
  <2>1. CASE ndb = BootState(LegacyState, nconf.routes)
    BY <1>2, <1>4, <1>7, <2>1, BootGrows DEF Grown
  <2> QED  BY <1>4, <2>1 DEF RoutesInit
<1>9. ledger \in Ledgers /\ ledger.sends = NoLedger.sends
  BY <1>6, <1>7, SeenTyped DEF RoutesInit
<1>10. TickShape  BY <1>1, NoTickTyped DEF TickShape
<1>11. RouteTypes  BY <1>1, <1>2, <1>3, <1>8, <1>9, <1>10, NoTickTyped DEF RouteTypes
<1>12. SentInv
  <2>1. \A n \in Names, i \in Ids : ledger.sends[n][i] = 0  BY <1>6, <1>9
  <2>2. \A n \in Names, i \in Ids : ~(ledger.sends[n][i] > 0) /\ ~(ledger.sends[n][i] > 1)  BY <2>1
  <2> QED  BY <2>2 DEF SentInv
<1> QED  BY <1>11, <1>12 DEF RouteInv

\* Every step keeps it.
LEMMA NextRoutes == ASSUME RouteInv, [RoutesNext]_routeVars PROVE RouteInv'
<1>1. CASE TickSteps
  BY <1>1, BuildsKeeps, PassesOverKeeps, SendsKeeps, RecordsKeeps, FailsTransientlyKeeps,
     TaskRouteEndsKeeps, TaskPassEndsKeeps, ClawRouteEndsKeeps, TaskRouteStartsKeeps,
     ClawRouteStartsKeeps DEF TickSteps
<1>2. CASE \E ok, readable \in BOOLEAN : TickStarts(ok, readable)
  BY <1>2, StartsKeeps
<1>3. CASE Records(FALSE) \/ TaskRouteEnds(FALSE) \/ FailsConfig \/ FailsPermanently
  BY <1>3, RecordsKeeps, TaskRouteEndsKeeps, FailsKeeps
<1>4. CASE Restarts  BY <1>4, RestartsKeeps
<1>5. CASE Saves \/ \E n \in Names : Breaks(n) \/ Repairs(n)  BY <1>5, SurroundingsKeep
<1>6. CASE \E k \in Kinds : Happens(k[1], k[2])  BY <1>6, HappensKeeps
<1>7. CASE UNCHANGED routeVars
  BY <1>7 DEF routeVars, RouteInv, RouteTypes, HappenedTypes, TickShape, SentInv, lifecycleRouteDelivered
<1> QED  BY <1>1, <1>2, <1>3, <1>4, <1>5, <1>6, <1>7 DEF RoutesNext

\* The invariant holds of every behaviour.
LEMMA RoutesHold == RoutesSpec => []RouteInv
BY InitRoutes, NextRoutes, PTL DEF RoutesSpec

\* The notifier's tables, the tick and the stash hold values of the kinds the code
\* writes: no cursor runs ahead of what can have happened, and no streak reaches
\* lifecycleMaxTransientFailures, where the delivery is given up.
THEOREM RouteTypesHold == RoutesSpec => []RoutesTypeOK
<1>1. RouteInv => RoutesTypeOK
  <2> SUFFICES ASSUME RouteInv PROVE RoutesTypeOK  OBVIOUS
  <2>1. RouteTypes /\ ndb \in Databases  BY DEF RouteInv, RouteTypes
  <2>2. \A t \in Names \cup {Legacy}, i \in Ids : ndb.streak[t][i] \in 0 .. MaxTransient - 1
    BY <2>1 DEF Databases, Tables
  <2> QED  BY <2>1, <2>2 DEF RouteTypes, HappenedTypes, Databases, Tables, Positions, RoutesTypeOK
<1> QED  BY <1>1, RoutesHold, PTL

\* A route is told once of what happened, unless the hub died with the delivery not
\* yet on record: a row, a stashed row or the message under way stands for every
\* message that was sent, whatever routes come and go and whichever tables one or
\* several routes write.  (The half of ToldOnce about messages.)
THEOREM RoutesToldOnce ==
    RoutesSpec => [](\A n \in Names, i \in Ids : ledger.sends[n][i] > 1 => i \in ledger.lost)
<1>1. RouteInv => \A n \in Names, i \in Ids : ledger.sends[n][i] > 1 => i \in ledger.lost
  BY DEF RouteInv, SentInv
<1> QED  BY <1>1, RoutesHold, PTL

--------------------------------------------------------------------------------
(***************************************************************************)
(* What is owed.  A route that is owed something has its place in both     *)
(* sources (Owing), and what it is owed is ahead of its position (Pos).    *)
(* Bringing the tables in line leaves the place of such a route alone, as  *)
(* long as the route stays configured.                                     *)
(***************************************************************************)
Pos(d, n) == IF d.cursor[n] # NoCursor THEN d.cursor[n] ELSE d.shared
Owing(d, n) == n \in d.stamp /\ d.clawBase /\ Pos(d, n) # NoCursor

\* No cursor and no row runs ahead of what has happened.
Within(d) ==
    /\ d.shared <= Len(happened) /\ \A n \in Names : d.cursor[n] <= Len(happened)
    /\ \A t \in Tables : d.rows[t] \subseteq DOMAIN happened

InLine(d, e, routes) ==
    /\ Within(d) => Within(e)
    /\ \A n \in routes : Owing(d, n) =>
          /\ Owing(e, n) /\ Pos(e, n) = Pos(d, n)
          /\ e.rows[n] = d.rows[n] /\ e.rows[Legacy] = d.rows[Legacy]

\* What is left alone is in line.
LEMMA InLineOnce == ASSUME NEW d, NEW routes PROVE InLine(d, d, routes)
BY DEF InLine

\* One change after another.
LEMMA InLineTwice ==
    ASSUME NEW d, NEW e, NEW f, NEW routes, InLine(d, e, routes), InLine(e, f, routes)
    PROVE  InLine(d, f, routes)
<1>1. Within(d) => Within(f)  BY DEF InLine
<1>2. ASSUME NEW n \in routes, Owing(d, n)
      PROVE  /\ Owing(f, n) /\ Pos(f, n) = Pos(d, n)
             /\ f.rows[n] = d.rows[n] /\ f.rows[Legacy] = d.rows[Legacy]
  <2>1. /\ Owing(e, n) /\ Pos(e, n) = Pos(d, n)
        /\ e.rows[n] = d.rows[n] /\ e.rows[Legacy] = d.rows[Legacy]
    BY <1>2 DEF InLine
  <2>2. /\ Owing(f, n) /\ Pos(f, n) = Pos(e, n)
        /\ f.rows[n] = e.rows[n] /\ f.rows[Legacy] = e.rows[Legacy]
    BY <2>1 DEF InLine
  <2> QED  BY <2>1, <2>2
<1> QED  BY <1>1, <1>2 DEF InLine

\* The head of the events and the claw states have happened.
LEMMA HeadWithin ==
    ASSUME HappenedTypes
    PROVE  /\ lifecycleMaxEventRowID \in Nat /\ lifecycleMaxEventRowID <= Len(happened)
           /\ Len(happened) \in Nat /\ DOMAIN happened = 1 .. Len(happened)
           /\ \A src : Of(src) \subseteq DOMAIN happened
<1>1. Len(happened) \in Nat /\ DOMAIN happened = 1 .. Len(happened)
  BY DEF HappenedTypes
<1>2. \A src : Of(src) \subseteq DOMAIN happened  BY DEF Of
<1>3. Of("task") \cup {0} \subseteq 0 .. MaxHappened /\ Of("task") \cup {0} # {}
  BY EntryIds, RouteNumbers
<1>4. Max(Of("task") \cup {0}) \in Of("task") \cup {0}
  BY <1>3, MaxOf
<1>5. Max(Of("task") \cup {0}) \in 0 .. Len(happened)
  BY <1>1, <1>2, <1>4
<1> QED  BY <1>1, <1>2, <1>5 DEF lifecycleMaxEventRowID

\* What the parts of a database are.
LEMMA DatabaseParts ==
    ASSUME NEW d \in Databases
    PROVE  /\ d.shared \in Int /\ d.cursor \in [Names -> Int] /\ d.stamp \subseteq Names
           /\ d.clawBase \in BOOLEAN /\ d.latch \in BOOLEAN
           /\ d.rows \in [Tables -> SUBSET Ids]
           /\ d.shared \in Positions /\ \A n \in Names : d.cursor[n] \in Positions
BY RouteNumbers DEF Databases, Positions

\* Forgetting the routes that are no longer configured.
LEMMA PruneInLine ==
    ASSUME NEW d \in Databases, NEW routes \in SUBSET Names, HappenedTypes
    PROVE  InLine(d, pruneLifecycleRouteState(d, routes), routes)
<1> DEFINE gone == {n \in Names \ routes : d.cursor[n] # NoCursor \/ n \in d.stamp}
           cursor == [n \in Names |-> IF n \in gone THEN NoCursor ELSE d.cursor[n]]
           latch == d.latch \/ gone # {} \/ \E n \in Names : d.cursor[n] # NoCursor
           streak == [t \in DOMAIN d.streak |-> IF t \in gone THEN [i \in Ids |-> 0] ELSE d.streak[t]]
           e == pruneLifecycleRouteState(d, routes)
<1>1. e = [d EXCEPT !.latch = latch, !.cursor = cursor, !.stamp = d.stamp \ gone, !.streak = streak]
  BY DEF pruneLifecycleRouteState
<1>2. \A n \in routes : cursor[n] = d.cursor[n]  OBVIOUS
<1>3. \A n \in Names : cursor[n] = d.cursor[n] \/ cursor[n] = NoCursor  OBVIOUS
<1>4. \A n \in routes : n \in d.stamp => n \in d.stamp \ gone  OBVIOUS
<1> HIDE DEF cursor, latch, streak, gone
<1>5. e.shared = d.shared /\ e.cursor = cursor /\ e.stamp = d.stamp \ gone /\ e.clawBase = d.clawBase
      /\ e.rows = d.rows
  BY <1>1 DEF Databases
<1> HIDE DEF e
<1>6. Within(d) => Within(e)
  BY <1>3, <1>5, HeadWithin, RouteNumbers DEF Within
<1>7. \A n \in routes : Owing(d, n) => Owing(e, n) /\ Pos(e, n) = Pos(d, n)
  BY <1>2, <1>4, <1>5 DEF Owing, Pos
<1> QED  BY <1>5, <1>6, <1>7 DEF InLine, e

\* Every route gets a cursor: the incumbent the shared one, which is its place already.
LEMMA WatermarksInLine ==
    ASSUME HappenedTypes, NEW d \in Databases, NEW routes \in SUBSET Names
    PROVE  InLine(d, ensureLifecycleRouteWatermarks(d, routes), routes)
<1> DEFINE e == ensureLifecycleRouteWatermarks(d, routes)
           head == lifecycleMaxEventRowID
           shared == IF d.shared = NoCursor THEN head ELSE d.shared
           cursor == [n \in Names |-> IF n \in routes /\ d.cursor[n] = NoCursor
                                      THEN StartOf(d, routes, n) ELSE d.cursor[n]]
<1>1. CASE ~lifecycleRoutesNeedOwnState(d, routes)
  BY <1>1, InLineOnce DEF ensureLifecycleRouteWatermarks
<1>2. CASE lifecycleRoutesNeedOwnState(d, routes)
  <2>1. e = [d EXCEPT !.shared = shared, !.cursor = cursor, !.latch = TRUE]
    BY <1>2 DEF ensureLifecycleRouteWatermarks
  <2>2. head \in Nat /\ head <= Len(happened)  BY HeadWithin
  <2>3. \A n : StartOf(d, routes, n) \in {d.shared, head}  BY DEF StartOf
  <2>4. \A n \in Names : cursor[n] \in {d.cursor[n], d.shared, head}
    BY <2>3
  <2>5. ASSUME NEW n \in routes, n \in d.stamp, Pos(d, n) # NoCursor
        PROVE  /\ d.cursor[n] # NoCursor => cursor[n] = d.cursor[n]
               /\ d.cursor[n] = NoCursor => cursor[n] = d.shared /\ d.shared # NoCursor
    <3>1. n \in routes \cap d.stamp  BY <2>5
    <3>2. d.cursor[n] = NoCursor => d.shared # NoCursor  BY <2>5 DEF Pos
    <3>3. d.cursor[n] = NoCursor => StartOf(d, routes, n) = d.shared
      BY <3>1, <3>2 DEF StartOf
    <3> QED  BY <3>2, <3>3
  <2> HIDE DEF cursor, head
  <2>6. e.shared = shared /\ e.cursor = cursor /\ e.stamp = d.stamp /\ e.clawBase = d.clawBase
        /\ e.rows = d.rows
    BY <2>1 DEF Databases
  <2> HIDE DEF e
  <2>7. Within(d) => Within(e)
    BY <2>2, <2>4, <2>6, HeadWithin, DatabaseParts DEF Within
  <2>8. ASSUME NEW n \in routes, Owing(d, n) PROVE Owing(e, n) /\ Pos(e, n) = Pos(d, n)
    BY <2>5, <2>6, <2>8 DEF Owing, Pos
  <2> QED  BY <2>6, <2>7, <2>8 DEF InLine, e
<1> QED  BY <1>1, <1>2

\* A new route gets its rows; nothing is owed to it yet.
LEMMA BaselinesInLine ==
    ASSUME HappenedTypes, NEW d \in Databases, NEW routes \in SUBSET Names
    PROVE  InLine(d, ensureLifecycleClawRouteBaselines(d, routes), routes)
<1> DEFINE e == ensureLifecycleClawRouteBaselines(d, routes)
           new == {n \in routes \ d.stamp : d.cursor[n] # NoCursor}
           rows == [t \in DOMAIN d.rows |-> IF t \in new THEN d.rows[t] \cup Of("claw") ELSE d.rows[t]]
<1>1. ASSUME NEW stamp, e = [d EXCEPT !.stamp = d.stamp \cup stamp] PROVE InLine(d, e, routes)
  <2> HIDE DEF e
  <2>1. e.shared = d.shared /\ e.cursor = d.cursor /\ e.stamp = d.stamp \cup stamp
        /\ e.clawBase = d.clawBase /\ e.rows = d.rows
    BY <1>1 DEF Databases
  <2> QED  BY <2>1 DEF InLine, Within, Owing, Pos
<1>2. CASE ~lifecycleRoutesNeedOwnState(d, routes)
  <2>1. e = stampLifecycleLegacyIncumbent(d, routes)
    BY <1>2 DEF ensureLifecycleClawRouteBaselines
  <2>2. e = d \/ e = [d EXCEPT !.stamp = d.stamp \cup routes]
    BY <2>1 DEF stampLifecycleLegacyIncumbent
  <2> HIDE DEF e
  <2>3. CASE e = d  BY <2>3, InLineOnce DEF e
  <2> QED  BY <1>1, <2>2, <2>3 DEF e
<1>3. CASE lifecycleRoutesNeedOwnState(d, routes) /\ ~d.clawBase
  <2>1. e = d \/ e = [SkipForAll(d, Of("claw")) EXCEPT !.clawBase = TRUE,
                         !.stamp = SkipForAll(d, Of("claw")).stamp \cup routes]
    BY <1>3 DEF ensureLifecycleClawRouteBaselines, seedLifecycleClawBaseline
  <2> DEFINE all == [d.rows EXCEPT ![Legacy] = d.rows[Legacy] \cup Of("claw")]
             s == SkipForAll(d, Of("claw"))
  <2>2. s = [d EXCEPT !.rows = all]  BY DEF SkipForAll
  <2>3. \A t \in Tables : all[t] \subseteq d.rows[t] \cup Of("claw")  BY DatabaseParts
  <2> HIDE DEF all, e
  <2>4. s.shared = d.shared /\ s.cursor = d.cursor /\ s.rows = all  BY <2>2 DEF Databases
  <2>5. e.shared = d.shared /\ e.cursor = d.cursor /\ (e.rows = d.rows \/ e.rows = all)
    <3>1. s \in Databases  BY EntryIds, SkipGrows DEF Grown
    <3> HIDE DEF s
    <3> QED  BY <2>1, <2>4, <3>1 DEF Databases, s
  <2>6. Within(d) => Within(e)  BY <2>3, <2>5, HeadWithin DEF Within
  <2>7. \A n : ~Owing(d, n)  BY <1>3 DEF Owing
  <2> QED  BY <2>6, <2>7 DEF InLine, e
<1>4. CASE lifecycleRoutesNeedOwnState(d, routes) /\ d.clawBase
  <2>1. e = [d EXCEPT !.rows = rows, !.stamp = d.stamp \cup new, !.latch = d.latch \/ new # {}]
    BY <1>4 DEF ensureLifecycleClawRouteBaselines
  <2>2. \A t \in Tables : rows[t] \subseteq d.rows[t] \cup Of("claw")  BY DatabaseParts
  <2>3. \A n \in d.stamp \cup {Legacy} : n \in Tables => rows[n] = d.rows[n]
    BY RouteNumbers, DatabaseParts
  <2>4. (d.latch \/ new # {}) \in BOOLEAN  OBVIOUS
  <2> HIDE DEF rows, new
  <2>5. e.shared = d.shared /\ e.cursor = d.cursor /\ e.stamp = d.stamp \cup new
        /\ e.clawBase = d.clawBase /\ e.rows = rows
    BY <2>1 DEF Databases
  <2> HIDE DEF e
  <2>6. Within(d) => Within(e)  BY <2>2, <2>5, HeadWithin DEF Within
  <2>7. ASSUME NEW n \in routes, Owing(d, n)
        PROVE  /\ Owing(e, n) /\ Pos(e, n) = Pos(d, n)
               /\ e.rows[n] = d.rows[n] /\ e.rows[Legacy] = d.rows[Legacy]
    BY <2>3, <2>5, <2>7, RouteNumbers DEF Owing, Pos
  <2> QED  BY <2>6, <2>7 DEF InLine, e
<1> QED  BY <1>2, <1>3, <1>4

\* What the boot brings in line.
LEMMA BootInLine ==
    ASSUME HappenedTypes, NEW d \in Databases, NEW routes \in SUBSET Names
    PROVE  InLine(d, BootState(d, routes), routes)
<1> DEFINE head == lifecycleMaxEventRowID
           shared == IF d.shared = NoCursor THEN head ELSE d.shared
           d1 == [d EXCEPT !.shared = shared]
           d2 == IF ~d1.clawBase THEN seedLifecycleClawBaseline(d1, routes)
                 ELSE IF d1.stamp # {} THEN d1
                 ELSE IF ~lifecycleRoutingSchemeLive(d1) /\ Cardinality(routes) = 1
                 THEN [d1 EXCEPT !.stamp = routes]
                 ELSE [d1 EXCEPT !.latch = TRUE]
           d3 == pruneLifecycleRouteState(d2, routes)
           d4 == ensureLifecycleRouteWatermarks(d3, routes)
<1>a. BootState(d, routes) = ensureLifecycleClawRouteBaselines(d4, routes)
  BY DEF BootState
<1>1. d1 \in Databases /\ InLine(d, d1, routes)
  <2>1. shared \in Positions /\ (d.shared # NoCursor => shared = d.shared)
        /\ (d.shared <= Len(happened) => shared <= Len(happened))
    BY EntryIds, HeadWithin, RouteNumbers, DatabaseParts
  <2> HIDE DEF shared
  <2>2. d1 \in Databases  BY <2>1 DEF Databases
  <2>3. d1.shared = shared /\ d1.cursor = d.cursor /\ d1.stamp = d.stamp
        /\ d1.clawBase = d.clawBase /\ d1.rows = d.rows
    BY <2>1 DEF Databases
  <2> HIDE DEF d1
  <2>4. Within(d) => Within(d1)  BY <2>1, <2>3 DEF Within
  <2>5. \A n \in routes : Owing(d, n) => Owing(d1, n) /\ Pos(d1, n) = Pos(d, n)
    BY <2>1, <2>3 DEF Owing, Pos
  <2> QED  BY <2>2, <2>3, <2>4, <2>5 DEF InLine
<1> HIDE DEF d1
<1>2. d2 \in Databases /\ InLine(d1, d2, routes)
  <2>1. CASE ~d1.clawBase
    <3> DEFINE all == [d1.rows EXCEPT ![Legacy] = d1.rows[Legacy] \cup Of("claw")]
               s == SkipForAll(d1, Of("claw"))
    <3>1. d2 = [s EXCEPT !.clawBase = TRUE, !.stamp = s.stamp \cup routes]
      BY <2>1 DEF seedLifecycleClawBaseline
    <3>2. s = [d1 EXCEPT !.rows = all]  BY DEF SkipForAll
    <3>3. \A t \in Tables : all[t] \subseteq d1.rows[t] \cup Of("claw")  BY <1>1, DatabaseParts
    <3> HIDE DEF all
    <3>4. s.shared = d1.shared /\ s.cursor = d1.cursor /\ s.rows = all  BY <1>1, <3>2 DEF Databases
    <3>5. s \in Databases  BY <1>1, EntryIds, SkipGrows DEF Grown
    <3> HIDE DEF s
    <3>6. d2 \in Databases /\ d2.shared = d1.shared /\ d2.cursor = d1.cursor /\ d2.rows = all
      <4>1. s.stamp \cup routes \in SUBSET Names  BY <3>5 DEF Databases
      <4> HIDE DEF d2
      <4> QED  BY <3>1, <3>4, <3>5, <4>1 DEF Databases
    <3> HIDE DEF d2
    <3>7. Within(d1) => Within(d2)  BY <3>3, <3>6, HeadWithin DEF Within
    <3>8. \A n : ~Owing(d1, n)  BY <2>1 DEF Owing
    <3> QED  BY <3>6, <3>7, <3>8 DEF InLine, d2
  <2>2. CASE d1.clawBase /\ d1.stamp # {}
    BY <1>1, <2>2, InLineOnce
  <2>3. CASE d1.clawBase /\ d1.stamp = {}
    <3>1. d2 = [d1 EXCEPT !.stamp = routes] \/ d2 = [d1 EXCEPT !.latch = TRUE]
      BY <2>3
    <3> HIDE DEF d2
    <3>2. d2 \in Databases /\ d2.shared = d1.shared /\ d2.cursor = d1.cursor /\ d2.rows = d1.rows
      BY <1>1, <3>1 DEF Databases
    <3>3. \A n : ~Owing(d1, n)  BY <2>3 DEF Owing
    <3> QED  BY <3>2, <3>3 DEF InLine, Within, d2
  <2> QED  BY <2>1, <2>2, <2>3
<1> HIDE DEF d2
<1>3. d3 \in Databases /\ InLine(d2, d3, routes)  BY <1>2, PruneGrows, PruneInLine DEF Grown
<1> HIDE DEF d3
<1>4. d4 \in Databases /\ InLine(d3, d4, routes)  BY <1>3, WatermarksGrow, WatermarksInLine DEF Grown
<1> HIDE DEF d4
<1>5. InLine(d4, ensureLifecycleClawRouteBaselines(d4, routes), routes)  BY <1>4, BaselinesInLine
<1> QED  BY <1>a, <1>1, <1>2, <1>3, <1>4, <1>5, InLineTwice

--------------------------------------------------------------------------------
(***************************************************************************)
(* NothingMissed.  OwedInv is the property with its reason: what a route   *)
(* is still owed has no row and lies ahead of the route's place.  It       *)
(* survives a tick because of PassInv: the pass has what is due to a route *)
(* still before it, as a candidate or beyond all candidates, so the cursor *)
(* it stores passes nothing that was not told or given up.                 *)
(***************************************************************************)
\* What a route is still to be told, and the happenings of its types.
Due(n) == ledger.owed[n] \ ledger.done[n]
Accepted(n) == {i \in DOMAIN happened : happened[i].type \in Accepts[n]}

\* A tick works on the routes it has seen, and on a pass's own cursors; with
\* several routes each has one.  The message under way is the least candidate.
TickLinks ==
    /\ tick.pc # "idle" => tick.routes = ledger.seen /\ tick.built \subseteq tick.routes
    /\ tick.pc \in {"task", "claw"} => /\ tick.todo \subseteq tick.built
                                       /\ tick.at # Legacy => tick.at \in tick.built
    /\ tick.pc = "task" => DOMAIN tick.wm \subseteq tick.built
    /\ tick.pc = "task" /\ ~singleRoute => \A n \in DOMAIN tick.wm : ndb.cursor[n] # NoCursor
    /\ tick.sent # 0 => /\ tick.sent \in ledger.done[tick.at] /\ tick.sent \in tick.cand
                        /\ \A j \in tick.cand : tick.sent <= j

\* Nothing is ahead of what has happened.
Behind ==
    /\ Within(ndb) /\ \A p \in stash : p[2] \in DOMAIN happened
    /\ \A n \in DOMAIN tick.wm : tick.wm[n] <= Len(happened)
    /\ tick.handled <= Len(happened) /\ tick.floor <= Len(happened)
    /\ tick.cand \subseteq DOMAIN happened

\* Only the configured routes are owed anything.
Unseen == \A n \in Names \ ledger.seen : ledger.owed[n] = {}

\* What is owed is of the route's types, and ahead of its place.
OwedInv ==
    \A n \in Names : \A i \in ledger.owed[n] :
        /\ Owing(ndb, n) /\ i \in Accepted(n)
        /\ i \notin ledger.done[n] =>
              ~lifecycleRouteDelivered(n, i) /\ (i \in Of("task") => i > Pos(ndb, n))

\* A pass still has before it what is due.
PassInv ==
    tick.pc = "task" =>
        /\ \A n \in tick.todo : \A i \in Due(n) \cap Of("task") :
              i > tick.wm[n] /\ i \notin Typed(tick.muted)
        /\ tick.at # Legacy =>
              \A i \in Due(tick.at) \cap Of("task") :
                 i > tick.handled /\ (i \in tick.cand \/ \A j \in tick.cand : i > j)

OwingInv == TickLinks /\ Behind /\ Unseen /\ OwedInv /\ PassInv

\* What the parts of the tick and of the ledger are.
LEMMA TickParts ==
    ASSUME RouteTypes
    PROVE  /\ tick.routes \subseteq Names /\ tick.built \subseteq Names /\ tick.todo \subseteq Names
           /\ tick.at \in Names \cup {Legacy} /\ tick.cand \subseteq Ids /\ tick.cand \subseteq Int
           /\ tick.handled \in Nat /\ tick.floor \in Int /\ tick.sent \in Nat
           /\ DOMAIN tick.wm \subseteq Names /\ \A n \in DOMAIN tick.wm : tick.wm[n] \in Nat
           /\ Ids \subseteq Int /\ ndb \in Databases /\ HappenedTypes
           /\ \A n \in Names : ledger.owed[n] \subseteq Ids
<1>1. tick \in Ticks /\ ledger \in Ledgers  BY DEF RouteTypes
<1>2. DOMAIN tick.wm \subseteq Names /\ \A n \in DOMAIN tick.wm : tick.wm[n] \in Nat
  <2>1. PICK S \in SUBSET Names : tick.wm \in [S -> 0 .. MaxHappened]
    BY <1>1 DEF Ticks, Watermarks
  <2> QED  BY <2>1, RouteNumbers
<1>3. \A n \in Names : ledger.owed[n] \subseteq Ids  BY <1>1 DEF Ledgers
<1>4. Ids \subseteq Int  BY RouteNumbers
<1>5. tick.handled \in Nat /\ tick.floor \in Int /\ tick.sent \in Nat
  BY <1>1, RouteNumbers DEF Ticks, Positions
<1> QED  BY <1>1, <1>2, <1>3, <1>4, <1>5 DEF Ticks, Tables, RouteTypes

\* One route means that a tick that delivers through it has no other.
LEMMA OneRoute ==
    ASSUME RouteTypes, singleRoute, NEW n \in tick.built
    PROVE  tick.routes = {n}
<1>1. IsFiniteSet(tick.built)
  <2>1. tick.built \in SUBSET Names  BY TickParts
  <2> QED  BY <2>1, FS_Subset, RoutesAssumption
<1>2. \E x : tick.built = {x}  BY <1>1, FS_Singleton DEF singleRoute
<1> QED  BY <1>2 DEF singleRoute

\* Beside the only route nobody is owed anything.
LEMMA OthersOwedNothing ==
    ASSUME RouteTypes, OwingInv, singleRoute, tick.pc # "idle", NEW n \in tick.built,
           NEW m \in Names, m # n
    PROVE  ledger.owed[m] = {}
<1>1. tick.routes = {n} /\ tick.routes = ledger.seen  BY OneRoute DEF OwingInv, TickLinks
<1> QED  BY <1>1 DEF OwingInv, Unseen

\* Steps that leave the tables, and what is owed, alone.
LEMMA StillOwed ==
    ASSUME OwedInv, UNCHANGED <<happened, ndb, stash>>,
           \A n \in Names : ledger'.owed[n] \subseteq ledger.owed[n] /\ ledger.done[n] \subseteq ledger'.done[n]
    PROVE  OwedInv'
<1> SUFFICES ASSUME NEW n \in Names, NEW i \in ledger'.owed[n]
             PROVE  /\ Owing(ndb', n) /\ i \in Accepted(n)'
                    /\ i \notin ledger'.done[n] =>
                          ~lifecycleRouteDelivered(n, i)' /\ (i \in Of("task")' => i > Pos(ndb', n))
  BY DEF OwedInv
<1>1. /\ Owing(ndb, n) /\ i \in Accepted(n)
      /\ i \notin ledger.done[n] =>
            ~lifecycleRouteDelivered(n, i) /\ (i \in Of("task") => i > Pos(ndb, n))
  BY DEF OwedInv
<1>2. Accepted(n)' = Accepted(n) /\ Of("task")' = Of("task")  BY DEF Accepted, Of
<1>3. lifecycleRouteDelivered(n, i)' <=> lifecycleRouteDelivered(n, i)
  BY DEF lifecycleRouteDelivered
<1> QED  BY <1>1, <1>2, <1>3

\* Steps that leave the pass where it is.
LEMMA SamePass ==
    ASSUME PassInv, UNCHANGED happened,
           tick'.pc = tick.pc, tick'.todo \subseteq tick.todo, tick'.wm = tick.wm, tick'.muted = tick.muted,
           tick'.at = tick.at, tick'.handled = tick.handled, tick'.cand \in {tick.cand, {}},
           \A n \in Names : ledger'.owed[n] \subseteq ledger.owed[n] /\ ledger.done[n] \subseteq ledger'.done[n],
           tick.todo \subseteq Names, tick.at \in Names \cup {Legacy}
    PROVE  PassInv'
<1>1. \A n \in Names : Due(n)' \subseteq Due(n)  BY DEF Due
<1>2. Of("task")' = Of("task") /\ Typed(tick.muted)' = Typed(tick.muted)  BY DEF Of, Typed
<1>3. tick'.cand = {} => \A i : \A j \in tick'.cand : i > j  OBVIOUS
<1>4. ASSUME tick.pc = "task", NEW n \in tick'.todo, NEW i \in Due(n)' \cap Of("task")
      PROVE  i > tick.wm[n] /\ i \notin Typed(tick.muted)
  BY <1>1, <1>4 DEF PassInv
<1>5. ASSUME tick.pc = "task", tick.at # Legacy, NEW i \in ledger'.owed[tick.at] \ ledger'.done[tick.at], i \in Of("task")
      PROVE  i > tick.handled /\ (i \in tick'.cand \/ \A j \in tick'.cand : i > j)
  <2>1. i \in Due(tick.at)  BY <1>5 DEF Due
  <2>2. i > tick.handled /\ (i \in tick.cand \/ \A j \in tick.cand : i > j)
    BY <1>5, <2>1 DEF PassInv
  <2> QED  BY <1>3, <2>2
<1>6. tick.at # Legacy => Due(tick.at)' = ledger'.owed[tick.at] \ ledger'.done[tick.at]  BY DEF Due
<1> QED  BY <1>2, <1>4, <1>5, <1>6 DEF PassInv

\* Outside the task pass there is nothing to say of it.
LEMMA NoPass == ASSUME tick'.pc # "task" PROVE PassInv'
BY DEF PassInv

\* The next event of a route: what is passed is not due, or no longer.
LEMMA MovesPast ==
    ASSUME RouteTypes, PassInv, NEW e \in tick.cand, \A j \in tick.cand : e <= j, tick.at \in Names,
           tick' = Past(e), UNCHANGED happened, ledger'.owed = ledger.owed,
           \A n \in Names : ledger.done[n] \subseteq ledger'.done[n],
           e \in ledger.owed[tick.at] => e \in ledger'.done[tick.at]
    PROVE  PassInv'
<1>1. /\ tick'.pc = tick.pc /\ tick'.todo = tick.todo /\ tick'.wm = tick.wm /\ tick'.muted = tick.muted
      /\ tick'.at = tick.at /\ tick'.cand = tick.cand \ {e} /\ (tick.pc = "task" => tick'.handled = e)
  BY DEF Past, RouteTypes, Ticks
<1>2. \A n \in Names : Due(n)' \subseteq Due(n)  BY DEF Due
<1>3. Of("task")' = Of("task") /\ Typed(tick.muted)' = Typed(tick.muted)  BY <1>1 DEF Of, Typed
<1>4. Due(tick.at)' = ledger'.owed[tick.at] \ ledger'.done[tick.at]  BY <1>1 DEF Due
<1>5. tick.cand \subseteq Int /\ tick.todo \subseteq Names /\ tick.at # Legacy /\ \A n \in Names : ledger.owed[n] \subseteq Int
  BY TickParts, RouteNumbers
<1>6. ASSUME tick.pc = "task", NEW n \in tick.todo, NEW i \in Due(n)' \cap Of("task")
      PROVE  i > tick.wm[n] /\ i \notin Typed(tick.muted)
  BY <1>2, <1>5, <1>6 DEF PassInv
<1>7. ASSUME tick.pc = "task", NEW i \in Due(tick.at)' \cap Of("task")
      PROVE  i > e /\ (i \in tick.cand \ {e} \/ \A j \in tick.cand \ {e} : i > j)
  <2>1. i \in Due(tick.at) /\ i # e  BY <1>1, <1>2, <1>4
  <2>2. i \in tick.cand \/ \A j \in tick.cand : i > j  BY <1>5, <1>7, <2>1 DEF PassInv
  <2>3. i \in Int  BY <1>5, <2>1 DEF Due
  <2>4. CASE i \in tick.cand  BY <1>5, <2>1, <2>3, <2>4
  <2>5. CASE \A j \in tick.cand : i > j  BY <2>5
  <2> QED  BY <2>2, <2>4, <2>5
<1> QED  BY <1>1, <1>3, <1>6, <1>7 DEF PassInv

\* Rows written for an event the route of the tick is done with.
LEMMA WritesRecorded ==
    ASSUME RouteTypes, OwingInv, tick.at \in Names, tick.pc \in {"task", "claw"}, NEW e,
           e \in ledger'.done[tick.at], \A n \in Names : ledger.done[n] \subseteq ledger'.done[n],
           \A t \in Tables : \A j : j \in ndb'.rows[t] \/ <<t, j>> \in stash' =>
              j \in ndb.rows[t] \/ <<t, j>> \in stash \/ (j = e /\ t \in RecordedIn(tick.at)),
           NEW n \in Names, NEW i \in ledger.owed[n], i \notin ledger'.done[n]
    PROVE  ~lifecycleRouteDelivered(n, i)'
<1>1. ~lifecycleRouteDelivered(n, i)  BY DEF OwingInv, OwedInv
<1>2. n \in Tables /\ Legacy \in Tables /\ n # Legacy /\ tick.at # Legacy  BY RouteNumbers
<1>3. SUFFICES ASSUME lifecycleRouteDelivered(n, i)' PROVE FALSE  OBVIOUS
<1>4. \E t \in {n, Legacy} : i \in ndb'.rows[t] \/ <<t, i>> \in stash'
  BY <1>3 DEF lifecycleRouteDelivered
<1>5. PICK t \in {n, Legacy} : i \in ndb'.rows[t] \/ <<t, i>> \in stash'  BY <1>4
<1>6. i \in ndb.rows[t] \/ <<t, i>> \in stash \/ (i = e /\ t \in RecordedIn(tick.at))
  BY <1>2, <1>5
<1>7. i = e /\ t \in RecordedIn(tick.at)
  BY <1>1, <1>6 DEF lifecycleRouteDelivered
<1>8. n # tick.at  BY <1>7
<1>9. t = Legacy /\ singleRoute  BY <1>2, <1>7, <1>8 DEF RecordedIn
<1>10. tick.at \in tick.built  BY <1>2 DEF OwingInv, TickLinks
<1>11. ledger.owed[n] = {}  BY <1>8, <1>9, <1>10, OthersOwedNothing
<1> QED  BY <1>11

\* A step that moves on to the next event, and may write rows for this one.
LEMMA MovesOnOwing ==
    ASSUME RouteTypes, OwingInv, tick.at \in Names, NEW e \in tick.cand,
           \A j \in tick.cand : e <= j, tick' = Past(e), UNCHANGED happened,
           ledger'.owed = ledger.owed, ledger'.seen = ledger.seen,
           \A n \in Names : ledger.done[n] \subseteq ledger'.done[n],
           e \in ledger.owed[tick.at] => e \in ledger'.done[tick.at],
           ndb'.shared = ndb.shared, ndb'.cursor = ndb.cursor, ndb'.stamp = ndb.stamp,
           ndb'.clawBase = ndb.clawBase,
           \A t \in Tables : \A j : j \in ndb'.rows[t] \/ <<t, j>> \in stash' =>
              j \in ndb.rows[t] \/ <<t, j>> \in stash \/ j = e,
           stash' \subseteq Tables \X Ids,
           \A n \in Names : \A i \in ledger.owed[n] \ ledger'.done[n] : ~lifecycleRouteDelivered(n, i)'
    PROVE  OwingInv'
<1>1. /\ tick'.pc = tick.pc /\ tick'.todo = tick.todo /\ tick'.wm = tick.wm /\ tick'.muted = tick.muted
      /\ tick'.at = tick.at /\ tick'.cand = tick.cand \ {e} /\ tick'.sent = 0
      /\ tick'.handled \in {tick.handled, e} /\ tick'.floor = tick.floor
      /\ tick'.routes = tick.routes /\ tick'.built = tick.built
  BY DEF Past, RouteTypes, Ticks
<1>2. TickLinks'
  <2>1. singleRoute' <=> singleRoute  BY <1>1 DEF singleRoute
  <2> QED  BY <1>1, <2>1 DEF OwingInv, TickLinks
<1>3. Behind'
  <2>1. Within(ndb) /\ (\A p \in stash : p[2] \in DOMAIN happened) /\ e \in DOMAIN happened
    BY DEF OwingInv, Behind
  <2>2. \A t \in Tables : ndb'.rows[t] \subseteq DOMAIN happened
    <3> SUFFICES ASSUME NEW t \in Tables, NEW j \in ndb'.rows[t] PROVE j \in DOMAIN happened
      OBVIOUS
    <3>1. j \in ndb.rows[t] \/ <<t, j>> \in stash \/ j = e  OBVIOUS
    <3>2. <<t, j>>[2] = j  OBVIOUS
    <3> QED  BY <2>1, <3>1, <3>2 DEF Within
  <2>3. \A p \in stash' : p[2] \in DOMAIN happened
    <3> SUFFICES ASSUME NEW p \in stash' PROVE p[2] \in DOMAIN happened
      OBVIOUS
    <3>1. p[1] \in Tables /\ p = <<p[1], p[2]>>  OBVIOUS
    <3>2. p[2] \in ndb.rows[p[1]] \/ p \in stash \/ p[2] = e  BY <3>1
    <3> QED  BY <2>1, <3>1, <3>2 DEF Within
  <2>4. Within(ndb)'  BY <2>1, <2>2 DEF Within
  <2>5. e <= Len(happened)  BY <2>1, TickParts, HeadWithin
  <2>6. tick'.handled <= Len(happened)  BY <1>1, <2>5 DEF OwingInv, Behind
  <2> QED  BY <1>1, <2>3, <2>4, <2>6 DEF OwingInv, Behind
<1>4. Unseen'  BY DEF OwingInv, Unseen
<1>5. OwedInv'
  <2> SUFFICES ASSUME NEW n \in Names, NEW i \in ledger'.owed[n]
               PROVE  /\ Owing(ndb', n) /\ i \in Accepted(n)'
                      /\ i \notin ledger'.done[n] =>
                            ~lifecycleRouteDelivered(n, i)' /\ (i \in Of("task")' => i > Pos(ndb', n))
    BY DEF OwedInv
  <2>1. /\ Owing(ndb, n) /\ i \in Accepted(n)
        /\ i \notin ledger.done[n] => (i \in Of("task") => i > Pos(ndb, n))
    BY DEF OwingInv, OwedInv
  <2>2. Accepted(n)' = Accepted(n) /\ Of("task")' = Of("task")  BY DEF Accepted, Of
  <2>3. Pos(ndb', n) = Pos(ndb, n) /\ (Owing(ndb', n) <=> Owing(ndb, n))  BY DEF Pos, Owing
  <2>4. i \notin ledger'.done[n] => i \notin ledger.done[n]  OBVIOUS
  <2> QED  BY <2>1, <2>2, <2>3, <2>4
<1>6. PassInv'  BY MovesPast DEF OwingInv
<1> QED  BY <1>2, <1>3, <1>4, <1>5, <1>6 DEF OwingInv

\* The event under way is the least candidate.
LEMMA EventLeast ==
    ASSUME RouteTypes, Sending
    PROVE  /\ tick.at \in Names /\ Event \in tick.cand /\ Event \in Ids /\ tick.sent = 0
           /\ \A j \in tick.cand : Event <= j
           /\ tick.pc \in {"task", "claw"}
<1>1. tick.cand \subseteq 0 .. MaxHappened /\ tick.cand # {}
  BY TickParts, RouteNumbers DEF Sending
<1>2. \A j \in tick.cand : Min(tick.cand) <= j  BY <1>1, MinOf
<1>3. tick.pc \in {"idle", "build", "task", "claw"} /\ TickShape  BY DEF RouteTypes, Ticks
<1> QED  BY <1>2, <1>3, EventIn DEF Event, Sending, TickShape

\* What is passed over is not of the route's types, or on record.
LEMMA PassesOverOwing == ASSUME RouteInv, OwingInv, PassesOver PROVE OwingInv'
<1>1. RouteTypes /\ Sending  BY DEF RouteInv, PassesOver
<1>2. /\ tick' = Past(Event) /\ UNCHANGED <<happened, nconf, unbuildable, ndb, stash, ledger>>
      /\ \/ happened[Event].type \notin Accepts[tick.at]
         \/ lifecycleRouteDelivered(tick.at, Event)
  BY DEF PassesOver
<1>3. tick.at \in Names /\ Event \in tick.cand /\ \A j \in tick.cand : Event <= j
  BY <1>1, EventLeast
<1>4. Event \in ledger.owed[tick.at] => Event \in ledger.done[tick.at]
  BY <1>2, <1>3 DEF OwingInv, OwedInv, Accepted
<1>5. \A n \in Names : \A i \in ledger.owed[n] \ ledger'.done[n] : ~lifecycleRouteDelivered(n, i)'
  BY <1>2 DEF OwingInv, OwedInv, lifecycleRouteDelivered
<1>6. stash' \subseteq Tables \X Ids  BY <1>1, <1>2 DEF RouteTypes
<1> HIDE DEF Event
<1> QED  BY <1>1, <1>2, <1>3, <1>4, <1>5, <1>6, MovesOnOwing

\* What is sent is done.
LEMMA SendsOwing == ASSUME RouteInv, OwingInv, Sends PROVE OwingInv'
<1> DEFINE e == Event
           done == [ledger.done EXCEPT ![tick.at] = ledger.done[tick.at] \cup {e}]
<1>1. RouteTypes /\ Sending /\ tick \in Ticks /\ ledger \in Ledgers  BY DEF RouteInv, RouteTypes, Sends, ToSend
<1>2. /\ tick' = [tick EXCEPT !.sent = e] /\ UNCHANGED <<happened, nconf, unbuildable, ndb, stash, changes>>
      /\ ledger'.done = done /\ ledger'.owed = ledger.owed /\ ledger'.seen = ledger.seen
  BY <1>1 DEF Sends, Ledgers
<1>3. tick.at \in Names /\ e \in tick.cand /\ \A j \in tick.cand : e <= j
  BY <1>1, EventLeast
<1> HIDE DEF e
<1>4. e \in done[tick.at] /\ \A n \in Names : ledger.done[n] \subseteq done[n]
  BY <1>1, <1>3 DEF Ledgers
<1>5. /\ tick'.pc = tick.pc /\ tick'.todo = tick.todo /\ tick'.wm = tick.wm /\ tick'.muted = tick.muted
      /\ tick'.at = tick.at /\ tick'.cand = tick.cand /\ tick'.sent = e
      /\ tick'.handled = tick.handled /\ tick'.floor = tick.floor
      /\ tick'.routes = tick.routes /\ tick'.built = tick.built
  BY <1>1, <1>2 DEF Ticks
<1> HIDE DEF done
<1>6. TickLinks'
  <2>1. singleRoute' <=> singleRoute  BY <1>5 DEF singleRoute
  <2> QED  BY <1>2, <1>3, <1>4, <1>5, <2>1 DEF OwingInv, TickLinks
<1>7. Behind'  BY <1>2, <1>5 DEF OwingInv, Behind, Within
<1>8. Unseen'  BY <1>2 DEF OwingInv, Unseen
<1>9. OwedInv'  BY <1>2, <1>4, StillOwed DEF OwingInv
<1>10. PassInv'  BY <1>1, <1>2, <1>4, <1>5, SamePass, TickParts DEF OwingInv
<1> QED  BY <1>6, <1>7, <1>8, <1>9, <1>10 DEF OwingInv

\* What a delivery, or giving up, writes.
LEMMA RowsWritten ==
    ASSUME NEW d \in Databases, NEW i \in Ids
    PROVE  /\ WithRows(d, i) \in Databases
           /\ WithRows(d, i).shared = d.shared /\ WithRows(d, i).cursor = d.cursor
           /\ WithRows(d, i).stamp = d.stamp /\ WithRows(d, i).clawBase = d.clawBase
           /\ WithRows(d, i).latch = d.latch /\ WithRows(d, i).streak = d.streak
           /\ \A t \in Tables : \A j : j \in WithRows(d, i).rows[t] <=>
                 j \in d.rows[t] \/ (j = i /\ t \in RecordedIn(tick.at))
<1> DEFINE rows == [t \in DOMAIN d.rows |-> IF t \in RecordedIn(tick.at) THEN d.rows[t] \cup {i} ELSE d.rows[t]]
<1>1. WithRows(d, i) = [d EXCEPT !.rows = rows]  BY DEF WithRows
<1>2. rows \in [Tables -> SUBSET Ids]  BY DEF Databases
<1>3. \A t \in Tables : \A j : j \in rows[t] <=> j \in d.rows[t] \/ (j = i /\ t \in RecordedIn(tick.at))
  BY DEF Databases
<1> HIDE DEF rows
<1>4. WithRows(d, i).rows = rows  BY <1>1 DEF Databases
<1>5. WithRows(d, i) \in Databases  BY <1>1, <1>2 DEF Databases
<1> QED  BY <1>1, <1>3, <1>4, <1>5 DEF Databases

\* A step that writes rows of an event that is done, and moves on.
LEMMA WritesOwing ==
    ASSUME RouteInv, OwingInv, tick.at \in Names, tick.pc \in {"task", "claw"}, NEW e \in tick.cand,
           \A j \in tick.cand : e <= j, tick' = Past(e), UNCHANGED happened,
           ledger'.owed = ledger.owed, ledger'.seen = ledger.seen,
           \A n \in Names : ledger.done[n] \subseteq ledger'.done[n], e \in ledger'.done[tick.at],
           ndb'.shared = ndb.shared, ndb'.cursor = ndb.cursor, ndb'.stamp = ndb.stamp,
           ndb'.clawBase = ndb.clawBase,
           \A t \in Tables : \A j : j \in ndb'.rows[t] \/ <<t, j>> \in stash' =>
              j \in ndb.rows[t] \/ <<t, j>> \in stash \/ (j = e /\ t \in RecordedIn(tick.at)),
           stash' \subseteq Tables \X Ids
    PROVE  OwingInv'
<1>1. RouteTypes  BY DEF RouteInv
<1>2. \A n \in Names : \A i \in ledger.owed[n] \ ledger'.done[n] : ~lifecycleRouteDelivered(n, i)'
  BY <1>1, WritesRecorded
<1>3. \A t \in Tables : \A j : j \in ndb'.rows[t] \/ <<t, j>> \in stash' =>
              j \in ndb.rows[t] \/ <<t, j>> \in stash \/ j = e
  OBVIOUS
<1> QED  BY <1>1, <1>2, <1>3, MovesOnOwing

\* The rows of what was sent are written, or stashed.
LEMMA RecordsOwing == ASSUME RouteInv, OwingInv, NEW ok \in BOOLEAN, Records(ok) PROVE OwingInv'
<1> DEFINE e == tick.sent
           d == IF ok THEN WithRows(ndb, e) ELSE ndb
           streak == [t \in DOMAIN d.streak |->
                       IF t \in RecordedIn(tick.at) THEN [d.streak[t] EXCEPT ![e] = 0] ELSE d.streak[t]]
           new == {<<t, e>> : t \in RecordedIn(tick.at)}
<1>1. RouteTypes /\ ndb \in Databases /\ tick \in Ticks /\ TickShape /\ stash \subseteq Tables \X Ids
  BY DEF RouteInv, RouteTypes
<1>2. /\ e # 0 /\ ndb' = [d EXCEPT !.streak = streak] /\ tick' = Past(e)
      /\ stash' = IF ok THEN stash ELSE stash \cup new
      /\ UNCHANGED <<happened, ledger>>
  BY DEF Records
<1>3. /\ tick.at \in Names /\ tick.pc \in {"task", "claw"} /\ e \in tick.cand /\ e \in Ids
      /\ (\A j \in tick.cand : e <= j) /\ e \in ledger.done[tick.at]
  <2>1. tick.at # Legacy  BY <1>1, <1>2 DEF TickShape
  <2>2. tick.pc \in {"task", "claw"}  BY <1>1, <2>1 DEF TickShape, Ticks
  <2> QED  BY <1>1, <1>2, <2>1, <2>2, TickParts DEF OwingInv, TickLinks
<1>4. RecordedIn(tick.at) \subseteq Tables  BY <1>3, RouteNumbers DEF RecordedIn
<1>5. \A t, j : <<t, j>> \in new => j = e /\ t \in RecordedIn(tick.at)  OBVIOUS
<1>6. new \subseteq Tables \X Ids  BY <1>3, <1>4
<1> HIDE DEF new, e
<1>7. /\ d \in Databases /\ d.shared = ndb.shared /\ d.cursor = ndb.cursor
      /\ d.stamp = ndb.stamp /\ d.clawBase = ndb.clawBase
      /\ \A t \in Tables : \A j : j \in d.rows[t] => j \in ndb.rows[t] \/ (j = e /\ t \in RecordedIn(tick.at))
  BY <1>1, <1>3, RowsWritten
<1> HIDE DEF d, streak
<1>8. /\ ndb'.shared = d.shared /\ ndb'.cursor = d.cursor /\ ndb'.stamp = d.stamp
      /\ ndb'.clawBase = d.clawBase /\ ndb'.rows = d.rows
  BY <1>2, <1>7 DEF Databases
<1>9. stash' \subseteq Tables \X Ids  BY <1>1, <1>2, <1>6
<1>10. \A t \in Tables : \A j : j \in ndb'.rows[t] \/ <<t, j>> \in stash' =>
              j \in ndb.rows[t] \/ <<t, j>> \in stash \/ (j = e /\ t \in RecordedIn(tick.at))
  BY <1>2, <1>5, <1>7, <1>8
<1> QED  BY <1>2, <1>3, <1>7, <1>8, <1>9, <1>10, WritesOwing

\* A route that is parked for this tick.
LEMMA ParksOwing ==
    ASSUME RouteTypes, OwingInv, Sending, tick' = Parked, UNCHANGED <<happened, stash>>,
           ledger'.owed = ledger.owed, ledger'.seen = ledger.seen, ledger'.done = ledger.done,
           ndb'.shared = ndb.shared, ndb'.cursor = ndb.cursor, ndb'.stamp = ndb.stamp,
           ndb'.clawBase = ndb.clawBase, ndb'.rows = ndb.rows
    PROVE  OwingInv'
<1>1. /\ tick'.pc = tick.pc /\ tick'.todo = tick.todo /\ tick'.wm = tick.wm /\ tick'.muted = tick.muted
      /\ tick'.at = tick.at /\ tick'.cand = {} /\ tick'.sent = 0
      /\ tick'.handled = tick.handled /\ tick'.floor = tick.floor
      /\ tick'.routes = tick.routes /\ tick'.built = tick.built
  BY DEF Parked, RouteTypes, Ticks, Sending
<1>2. TickLinks'
  <2>1. singleRoute' <=> singleRoute  BY <1>1 DEF singleRoute
  <2> QED  BY <1>1, <2>1 DEF OwingInv, TickLinks
<1>3. Behind'  BY <1>1 DEF OwingInv, Behind, Within
<1>4. Unseen'  BY DEF OwingInv, Unseen
<1>5. OwedInv'
  <2> SUFFICES ASSUME NEW n \in Names, NEW i \in ledger'.owed[n]
               PROVE  /\ Owing(ndb', n) /\ i \in Accepted(n)'
                      /\ i \notin ledger'.done[n] =>
                            ~lifecycleRouteDelivered(n, i)' /\ (i \in Of("task")' => i > Pos(ndb', n))
    BY DEF OwedInv
  <2>1. /\ Owing(ndb, n) /\ i \in Accepted(n)
        /\ i \notin ledger.done[n] =>
              ~lifecycleRouteDelivered(n, i) /\ (i \in Of("task") => i > Pos(ndb, n))
    BY DEF OwingInv, OwedInv
  <2>2. Accepted(n)' = Accepted(n) /\ Of("task")' = Of("task")  BY DEF Accepted, Of
  <2>3. Pos(ndb', n) = Pos(ndb, n) /\ (Owing(ndb', n) <=> Owing(ndb, n))  BY DEF Pos, Owing
  <2>4. lifecycleRouteDelivered(n, i)' <=> lifecycleRouteDelivered(n, i)  BY DEF lifecycleRouteDelivered
  <2> QED  BY <2>1, <2>2, <2>3, <2>4
<1>6. PassInv'  BY <1>1, SamePass, TickParts DEF OwingInv
<1> QED  BY <1>2, <1>3, <1>4, <1>5, <1>6 DEF OwingInv

\* A route that is paused loses nothing.
LEMMA FailsConfigOwing == ASSUME RouteInv, OwingInv, FailsConfig PROVE OwingInv'
<1>1. RouteTypes /\ Sending /\ tick' = Parked /\ UNCHANGED <<happened, stash, ledger, ndb>>
  BY DEF RouteInv, FailsConfig, ToSend
<1> QED  BY <1>1, ParksOwing

\* What failed for good is done.
LEMMA FailsPermanentlyOwing == ASSUME RouteInv, OwingInv, FailsPermanently PROVE OwingInv'
<1> DEFINE e == Event
           done == [ledger.done EXCEPT ![tick.at] = ledger.done[tick.at] \cup {e}]
<1>1. RouteTypes /\ Sending /\ ndb \in Databases /\ ledger \in Ledgers /\ stash \subseteq Tables \X Ids
  BY DEF RouteInv, RouteTypes, FailsPermanently, ToSend
<1>2. /\ ndb' = WithRows(ndb, e) /\ tick' = Past(e) /\ UNCHANGED <<happened, stash>>
      /\ ledger'.done = done /\ ledger'.owed = ledger.owed /\ ledger'.seen = ledger.seen
  BY <1>1 DEF FailsPermanently, Ledgers
<1>3. /\ tick.at \in Names /\ e \in tick.cand /\ e \in Ids /\ (\A j \in tick.cand : e <= j)
      /\ tick.pc \in {"task", "claw"}
  BY <1>1, EventLeast
<1> HIDE DEF e
<1>4. e \in done[tick.at] /\ \A n \in Names : ledger.done[n] \subseteq done[n]
  BY <1>1, <1>3 DEF Ledgers
<1> HIDE DEF done
<1>5. \A t \in Tables : \A j : j \in ndb'.rows[t] \/ <<t, j>> \in stash' =>
              j \in ndb.rows[t] \/ <<t, j>> \in stash \/ (j = e /\ t \in RecordedIn(tick.at))
  BY <1>1, <1>2, <1>3, RowsWritten
<1>6. /\ ndb'.shared = ndb.shared /\ ndb'.cursor = ndb.cursor /\ ndb'.stamp = ndb.stamp
      /\ ndb'.clawBase = ndb.clawBase
  BY <1>1, <1>2, <1>3, RowsWritten
<1> QED  BY <1>1, <1>2, <1>3, <1>4, <1>5, <1>6, WritesOwing

\* A streak is all a transient failure that is not the last one changes.
LEMMA StreakWritten ==
    ASSUME NEW d \in Databases, NEW t \in Tables, NEW i \in Ids, NEW k \in 0 .. MaxTransient - 1
    PROVE  LET e == [d EXCEPT !.streak[t][i] = k]
           IN  /\ e \in Databases
               /\ e.shared = d.shared /\ e.cursor = d.cursor /\ e.stamp = d.stamp
               /\ e.clawBase = d.clawBase /\ e.latch = d.latch /\ e.rows = d.rows
               /\ e.streak = [d.streak EXCEPT ![t] = [d.streak[t] EXCEPT ![i] = k]]
<1> DEFINE one == [d.streak[t] EXCEPT ![i] = k]
           streak == [d.streak EXCEPT ![t] = one]
           e == [d EXCEPT !.streak = streak]
<1>1. [d EXCEPT !.streak[t][i] = k] = e
  OBVIOUS
<1>2. e \in Databases  BY <1>1, StreakGrows DEF Grown
<1> HIDE DEF streak
<1>3. /\ e.shared = d.shared /\ e.cursor = d.cursor /\ e.stamp = d.stamp
      /\ e.clawBase = d.clawBase /\ e.latch = d.latch /\ e.rows = d.rows /\ e.streak = streak
  BY DEF Databases
<1> HIDE DEF e
<1> QED  BY <1>1, <1>2, <1>3 DEF streak

\* What failed once too often is done, and what failed is tried again.
LEMMA FailsTransientlyOwing == ASSUME RouteInv, OwingInv, FailsTransiently PROVE OwingInv'
<1> DEFINE n == tick.at
           i == Event
           key == IF singleRoute THEN Legacy ELSE n
           prior == IF singleRoute THEN n ELSE Legacy
           count == StreakSoFar(key, prior, i) + 1
           d == IF ndb.streak[key][i] = 0 THEN [ndb EXCEPT !.streak[prior][i] = 0] ELSE ndb
           done == [ledger.done EXCEPT ![n] = IF count >= MaxTransient THEN ledger.done[n] \cup {i} ELSE ledger.done[n]]
<1>1. RouteTypes /\ ndb \in Databases /\ ledger \in Ledgers /\ stash \subseteq Tables \X Ids
  BY DEF RouteInv, RouteTypes
<1>2. /\ Sending /\ UNCHANGED <<happened, nconf, unbuildable, stash>>
      /\ IF count >= MaxTransient
         THEN ndb' = WithRows([d EXCEPT !.streak[key][i] = 0], i) /\ tick' = Past(i)
         ELSE ndb' = [d EXCEPT !.streak[key][i] = count] /\ tick' = Parked
  BY DEF FailsTransiently, ToSend
<1>3. ledger'.done = done /\ ledger'.owed = ledger.owed /\ ledger'.seen = ledger.seen
  BY <1>1 DEF FailsTransiently, Ledgers
<1>4. /\ tick.at \in Names /\ i \in tick.cand /\ i \in Ids /\ (\A j \in tick.cand : i <= j)
      /\ tick.pc \in {"task", "claw"} /\ key \in Tables /\ prior \in Tables
  BY <1>1, <1>2, EventLeast, RouteNumbers
<1>5. count \in Nat /\ count > 0 /\ 0 \in 0 .. MaxTransient - 1
  <2>1. ndb.streak \in [Tables -> [Ids -> 0 .. MaxTransient - 1]]  BY <1>1 DEF Databases
  <2>2. ndb.streak[key][i] \in 0 .. MaxTransient - 1 /\ ndb.streak[prior][i] \in 0 .. MaxTransient - 1
    BY <1>4, <2>1
  <2> HIDE DEF key, prior, i
  <2>3. StreakSoFar(key, prior, i) \in Nat  BY <2>2, RouteNumbers DEF StreakSoFar
  <2> QED  BY <2>3, RouteNumbers
<1> HIDE DEF i, key, prior, count
<1>6. /\ \A m \in Names : ledger.done[m] \subseteq done[m]
      /\ count >= MaxTransient => i \in done[n]
      /\ ~(count >= MaxTransient) => done = ledger.done
  BY <1>1, <1>4 DEF Ledgers
<1> HIDE DEF done
<1>7. /\ d \in Databases /\ d.shared = ndb.shared /\ d.cursor = ndb.cursor
      /\ d.stamp = ndb.stamp /\ d.clawBase = ndb.clawBase /\ d.rows = ndb.rows
  BY <1>1, <1>4, <1>5, StreakWritten
<1> HIDE DEF d
<1>8. CASE count >= MaxTransient
  <2> DEFINE f == [d EXCEPT !.streak[key][i] = 0]
  <2>1. ndb' = WithRows(f, i) /\ tick' = Past(i)  BY <1>2, <1>8
  <2>2. /\ f \in Databases /\ f.shared = ndb.shared /\ f.cursor = ndb.cursor
        /\ f.stamp = ndb.stamp /\ f.clawBase = ndb.clawBase /\ f.rows = ndb.rows
    <3>0. key \in Tables /\ i \in Ids /\ 0 \in 0 .. MaxTransient - 1 /\ d \in Databases
      BY <1>4, <1>5, <1>7
    <3>1. /\ f \in Databases /\ f.shared = d.shared /\ f.cursor = d.cursor
          /\ f.stamp = d.stamp /\ f.clawBase = d.clawBase /\ f.rows = d.rows
      BY <3>0, StreakWritten
    <3> HIDE DEF f
    <3> QED  BY <1>7, <3>1
  <2> HIDE DEF f
  <2>3. \A t \in Tables : \A j : j \in ndb'.rows[t] \/ <<t, j>> \in stash' =>
              j \in ndb.rows[t] \/ <<t, j>> \in stash \/ (j = i /\ t \in RecordedIn(tick.at))
    BY <1>2, <1>4, <2>1, <2>2, RowsWritten
  <2>4. /\ ndb'.shared = ndb.shared /\ ndb'.cursor = ndb.cursor /\ ndb'.stamp = ndb.stamp
        /\ ndb'.clawBase = ndb.clawBase
    BY <1>4, <2>1, <2>2, RowsWritten
  <2> QED  BY <1>1, <1>2, <1>3, <1>4, <1>6, <1>8, <2>1, <2>3, <2>4, WritesOwing
<1>9. CASE ~(count >= MaxTransient)
  <2>1. count \in 0 .. MaxTransient - 1  BY <1>5, <1>9, RouteNumbers
  <2>2. ndb' = [d EXCEPT !.streak[key][i] = count] /\ tick' = Parked  BY <1>2, <1>9
  <2>3. /\ ndb'.shared = ndb.shared /\ ndb'.cursor = ndb.cursor /\ ndb'.stamp = ndb.stamp
        /\ ndb'.clawBase = ndb.clawBase /\ ndb'.rows = ndb.rows
    BY <1>4, <1>7, <2>1, <2>2, StreakWritten
  <2> QED  BY <1>1, <1>2, <1>3, <1>6, <1>9, <2>2, <2>3, ParksOwing
<1> QED  BY <1>8, <1>9

\* The candidates of a route are all that is due to it.
LEMMA TaskRouteStartsOwing ==
    ASSUME RouteInv, OwingInv, NEW n \in Names, TaskRouteStarts(n) PROVE OwingInv'
<1> DEFINE cand == {i \in Of("task") \ (Typed(tick.muted) \cup ndb.rows[Legacy]) : i > tick.wm[n]}
<1>1. RouteTypes /\ tick \in Ticks /\ TickShape  BY DEF RouteInv, RouteTypes
<1>2. /\ tick.pc = "task" /\ tick.at = Legacy /\ n \in tick.todo
      /\ tick' = [tick EXCEPT !.at = n, !.handled = tick.wm[n], !.cand = cand]
      /\ UNCHANGED <<happened, ndb, stash, ledger>>
  BY DEF TaskRouteStarts
<1>3. cand \subseteq Of("task") /\ \A i \in Of("task") \ (Typed(tick.muted) \cup ndb.rows[Legacy]) : i > tick.wm[n] => i \in cand
  OBVIOUS
<1> HIDE DEF cand
<1>4. /\ tick'.pc = "task" /\ tick'.todo = tick.todo /\ tick'.wm = tick.wm /\ tick'.muted = tick.muted
      /\ tick'.at = n /\ tick'.cand = cand /\ tick'.sent = tick.sent
      /\ tick'.handled = tick.wm[n] /\ tick'.floor = tick.floor
      /\ tick'.routes = tick.routes /\ tick'.built = tick.built
  BY <1>1, <1>2 DEF Ticks
<1>5. tick.sent = 0 /\ n \in DOMAIN tick.wm /\ n \in tick.built
  BY <1>1, <1>2 DEF TickShape, OwingInv, TickLinks
<1>6. TickLinks'
  <2>1. singleRoute' <=> singleRoute  BY <1>4 DEF singleRoute
  <2> QED  BY <1>2, <1>4, <1>5, <2>1 DEF OwingInv, TickLinks
<1>7. Behind'
  <2>1. cand \subseteq DOMAIN happened  BY <1>1, <1>3, HeadWithin, TickParts
  <2> QED  BY <1>2, <1>4, <1>5, <2>1 DEF OwingInv, Behind, Within
<1>8. Unseen'  BY <1>2 DEF OwingInv, Unseen
<1>9. OwedInv'  BY <1>2, StillOwed DEF OwingInv
<1>10. PassInv'
  <2>1. Of("task")' = Of("task") /\ Typed(tick.muted)' = Typed(tick.muted)  BY <1>2, <1>4 DEF Of, Typed
  <2>2. \A m : Due(m)' = Due(m)  BY <1>2 DEF Due
  <2>3. \A m \in tick.todo : \A i \in Due(m) \cap Of("task") : i > tick.wm[m] /\ i \notin Typed(tick.muted)
    BY <1>2 DEF OwingInv, PassInv
  <2>4. \A i \in Due(n) \cap Of("task") : i \in cand
    <3> SUFFICES ASSUME NEW i \in Due(n) \cap Of("task") PROVE i \in cand  OBVIOUS
    <3>1. i > tick.wm[n] /\ i \notin Typed(tick.muted)  BY <1>2, <2>3
    <3>2. i \notin ndb.rows[Legacy]
      BY DEF Due, OwingInv, OwedInv, lifecycleRouteDelivered
    <3> QED  BY <1>3, <3>1, <3>2
  <2>5. Due(tick.at)' = Due(n)  BY <1>2, <1>4 DEF Due
  <2> QED  BY <1>2, <1>4, <2>1, <2>2, <2>3, <2>4, <2>5 DEF PassInv
<1> QED  BY <1>6, <1>7, <1>8, <1>9, <1>10 DEF OwingInv

\* The cursor moves over what the pass handled, and over nothing that is due.
LEMMA TaskRouteEndsOwing ==
    ASSUME RouteInv, OwingInv, NEW ok \in BOOLEAN, TaskRouteEnds(ok) PROVE OwingInv'
<1> DEFINE n == tick.at
           key == lifecycleWatermarkKeyFor(ndb, n, singleRoute)
           todo == tick.todo \ {n}
           floor == IF tick.floor = NoCursor \/ tick.handled < tick.floor THEN tick.handled ELSE tick.floor
           cursor == [ndb.cursor EXCEPT ![n] = tick.handled]
<1>1. RouteTypes /\ ndb \in Databases /\ tick \in Ticks /\ TickShape  BY DEF RouteInv, RouteTypes
<1>2. /\ tick.pc = "task" /\ n # Legacy /\ tick.sent = 0 /\ tick.cand = {}
      /\ tick' = [tick EXCEPT !.at = Legacy, !.todo = todo, !.handled = 0, !.floor = floor]
      /\ UNCHANGED <<happened, stash, ledger>>
      /\ \/ ndb' = ndb
         \/ key = Legacy /\ ndb' = [ndb EXCEPT !.shared = tick.handled]
         \/ key # Legacy /\ ndb' = [ndb EXCEPT !.cursor = cursor]
  BY DEF TaskRouteEnds
<1>3. n \in Names /\ n \in tick.built /\ tick.handled \in Nat /\ todo \subseteq tick.todo
      /\ floor \in {tick.handled, tick.floor}
  BY <1>1, <1>2, TickParts DEF OwingInv, TickLinks
<1>4. /\ key \in {n, Legacy}
      /\ key = Legacy => singleRoute /\ ndb.cursor[n] = NoCursor
  BY <1>2 DEF lifecycleWatermarkKeyFor
<1>5. /\ cursor[n] = tick.handled /\ \A m \in Names : m # n => cursor[m] = ndb.cursor[m]
  BY <1>1, <1>3, DatabaseParts
<1> HIDE DEF floor, todo, cursor, key
<1>6. /\ tick'.pc = "task" /\ tick'.todo = todo /\ tick'.wm = tick.wm /\ tick'.muted = tick.muted
      /\ tick'.at = Legacy /\ tick'.cand = {} /\ tick'.sent = 0
      /\ tick'.handled = 0 /\ tick'.floor = floor
      /\ tick'.routes = tick.routes /\ tick'.built = tick.built
  BY <1>1, <1>2 DEF Ticks
<1>7. /\ ndb'.stamp = ndb.stamp /\ ndb'.clawBase = ndb.clawBase /\ ndb'.rows = ndb.rows
      /\ \/ ndb'.shared = ndb.shared /\ ndb'.cursor = ndb.cursor
         \/ key = Legacy /\ ndb'.shared = tick.handled /\ ndb'.cursor = ndb.cursor
         \/ key # Legacy /\ ndb'.shared = ndb.shared /\ ndb'.cursor = cursor
  BY <1>1, <1>2 DEF Databases
<1>8. \A m \in Names : ndb'.cursor[m] = ndb.cursor[m] \/ ndb'.cursor[m] = tick.handled
  BY <1>5, <1>7
<1>9. TickLinks'
  <2>1. singleRoute' <=> singleRoute  BY <1>6 DEF singleRoute
  <2>2. \A m \in Names : ndb.cursor[m] # NoCursor => ndb'.cursor[m] # NoCursor
    BY <1>3, <1>8, RouteNumbers
  <2>3. DOMAIN tick.wm \subseteq Names  BY <1>1, TickParts
  <2>4. ~singleRoute => \A m \in DOMAIN tick.wm : ndb'.cursor[m] # NoCursor
    BY <1>2, <2>2, <2>3 DEF OwingInv, TickLinks
  <2> QED  BY <1>2, <1>3, <1>6, <2>1, <2>4 DEF OwingInv, TickLinks
<1>10. tick.handled <= Len(happened) /\ floor <= Len(happened) /\ 0 <= Len(happened)
  BY <1>1, <1>3, HeadWithin, TickParts DEF OwingInv, Behind
<1>11. Behind'
  <2>1. Within(ndb)'  BY <1>7, <1>8, <1>10, <1>2 DEF OwingInv, Behind, Within
  <2> QED  BY <1>2, <1>6, <1>10, <2>1 DEF OwingInv, Behind
<1>12. Unseen'  BY <1>2 DEF OwingInv, Unseen
<1>13. ASSUME NEW m \in Names, ledger.owed[m] # {}, m # n
       PROVE  Owing(ndb', m) /\ Pos(ndb', m) = Pos(ndb, m)
  <2>1. ~singleRoute  BY <1>1, <1>2, <1>3, <1>13, OthersOwedNothing
  <2>2. ndb'.shared = ndb.shared /\ ndb'.cursor[m] = ndb.cursor[m]
    BY <1>4, <1>5, <1>7, <1>13, <2>1
  <2>3. Owing(ndb, m)  BY <1>13 DEF OwingInv, OwedInv
  <2> QED  BY <1>7, <2>2, <2>3 DEF Owing, Pos
<1>14. ASSUME ledger.owed[n] # {}
       PROVE  Owing(ndb', n) /\ (Pos(ndb', n) = Pos(ndb, n) \/ Pos(ndb', n) = tick.handled)
  <2>1. Owing(ndb, n)  BY <1>3, <1>14 DEF OwingInv, OwedInv
  <2>2. tick.handled # NoCursor  BY <1>3, RouteNumbers
  <2>3. CASE ndb'.shared = ndb.shared /\ ndb'.cursor = ndb.cursor
    BY <1>7, <2>1, <2>3 DEF Owing, Pos
  <2>4. CASE key = Legacy /\ ndb'.shared = tick.handled /\ ndb'.cursor = ndb.cursor
    BY <1>4, <1>7, <2>1, <2>2, <2>4 DEF Owing, Pos
  <2>5. CASE key # Legacy /\ ndb'.shared = ndb.shared /\ ndb'.cursor = cursor
    BY <1>5, <1>7, <2>1, <2>2, <2>5 DEF Owing, Pos
  <2> QED  BY <1>7, <2>3, <2>4, <2>5
<1>15. OwedInv'
  <2> SUFFICES ASSUME NEW m \in Names, NEW i \in ledger.owed[m]
               PROVE  /\ Owing(ndb', m) /\ i \in Accepted(m)'
                      /\ i \notin ledger.done[m] =>
                            ~lifecycleRouteDelivered(m, i)' /\ (i \in Of("task")' => i > Pos(ndb', m))
    BY <1>2 DEF OwedInv
  <2>1. /\ Owing(ndb, m) /\ i \in Accepted(m)
        /\ i \notin ledger.done[m] =>
              ~lifecycleRouteDelivered(m, i) /\ (i \in Of("task") => i > Pos(ndb, m))
    BY DEF OwingInv, OwedInv
  <2>2. Accepted(m)' = Accepted(m) /\ Of("task")' = Of("task")  BY <1>2 DEF Accepted, Of
  <2>3. lifecycleRouteDelivered(m, i)' <=> lifecycleRouteDelivered(m, i)
    BY <1>2, <1>7 DEF lifecycleRouteDelivered
  <2>4. Owing(ndb', m)  BY <1>13, <1>14
  <2>5. ASSUME i \notin ledger.done[m], i \in Of("task") PROVE i > Pos(ndb', m)
    <3>1. i > Pos(ndb, m)  BY <2>1, <2>5
    <3>2. m = n => i > tick.handled
      BY <1>2, <2>5 DEF OwingInv, PassInv, Due
    <3> QED  BY <1>13, <1>14, <3>1, <3>2
  <2> QED  BY <2>1, <2>2, <2>3, <2>4, <2>5
<1>16. PassInv'
  <2>1. Of("task")' = Of("task") /\ Typed(tick.muted)' = Typed(tick.muted)  BY <1>2, <1>6 DEF Of, Typed
  <2>2. \A m : Due(m)' = Due(m)  BY <1>2 DEF Due
  <2> QED  BY <1>2, <1>3, <1>6, <2>1, <2>2 DEF OwingInv, PassInv
<1> QED  BY <1>9, <1>11, <1>12, <1>15, <1>16 DEF OwingInv

\* What the rows and the ledger are after they were written.
LEMMA SkipParts ==
    ASSUME NEW d \in Databases, NEW ids \in SUBSET Ids, NEW e, e = SkipForAll(d, ids)
    PROVE  /\ e \in Databases
           /\ e.shared = d.shared /\ e.cursor = d.cursor /\ e.stamp = d.stamp
           /\ e.clawBase = d.clawBase /\ e.latch = d.latch /\ e.streak = d.streak
           /\ \A t \in Tables : \A j : j \in e.rows[t] <=> j \in d.rows[t] \/ (t = Legacy /\ j \in ids)
<1> DEFINE rows == [d.rows EXCEPT ![Legacy] = d.rows[Legacy] \cup ids]
<1>1. e = [d EXCEPT !.rows = rows]  BY DEF SkipForAll
<1>2. rows \in [Tables -> SUBSET Ids]  BY RouteNumbers DEF Databases
<1>3. \A t \in Tables : \A j : j \in rows[t] <=> j \in d.rows[t] \/ (t = Legacy /\ j \in ids)
  BY RouteNumbers DEF Databases
<1> HIDE DEF rows
<1>4. e.rows = rows  BY <1>1 DEF Databases
<1>5. e \in Databases  BY <1>1, <1>2 DEF Databases
<1> QED  BY <1>1, <1>3, <1>4, <1>5 DEF Databases

\* The first claw baseline.
LEMMA SeedParts ==
    ASSUME HappenedTypes, NEW d \in Databases, NEW routes \in SUBSET Names,
           NEW e, e = seedLifecycleClawBaseline(d, routes)
    PROVE  /\ e \in Databases
           /\ e.shared = d.shared /\ e.cursor = d.cursor /\ e.stamp = d.stamp \cup routes
           /\ e.clawBase /\ e.latch = d.latch /\ e.streak = d.streak
           /\ \A t \in Tables : \A j : j \in e.rows[t] <=> j \in d.rows[t] \/ (t = Legacy /\ j \in Of("claw"))
<1> DEFINE s == SkipForAll(d, Of("claw"))
<1>1. Of("claw") \in SUBSET Ids  BY EntryIds
<1>2. /\ s \in Databases
      /\ s.shared = d.shared /\ s.cursor = d.cursor /\ s.stamp = d.stamp
      /\ s.clawBase = d.clawBase /\ s.latch = d.latch /\ s.streak = d.streak
      /\ \A t \in Tables : \A j : j \in s.rows[t] <=> j \in d.rows[t] \/ (t = Legacy /\ j \in Of("claw"))
  BY <1>1, SkipParts
<1>3. e = [s EXCEPT !.clawBase = TRUE, !.stamp = s.stamp \cup routes]
  BY DEF seedLifecycleClawBaseline
<1> HIDE DEF s
<1>4. s.stamp \cup routes \in SUBSET Names  BY <1>2 DEF Databases
<1>5. /\ e \in Databases
      /\ e.shared = s.shared /\ e.cursor = s.cursor /\ e.stamp = s.stamp \cup routes
      /\ e.clawBase /\ e.latch = s.latch /\ e.streak = s.streak /\ e.rows = s.rows
  BY <1>2, <1>3, <1>4 DEF Databases
<1> QED  BY <1>2, <1>5

\* Rows of a route of its own.
LEMMA RouteSkipParts ==
    ASSUME NEW d \in Databases, NEW n \in Names, NEW ids \in SUBSET Ids,
           NEW e, e = lifecycleClawRouteSkip(d, n, ids)
    PROVE  /\ e \in Databases
           /\ e.shared = d.shared /\ e.cursor = d.cursor /\ e.stamp = d.stamp
           /\ e.clawBase = d.clawBase /\ e.latch /\ e.streak = d.streak
           /\ \A t \in Tables : \A j : j \in e.rows[t] <=> j \in d.rows[t] \/ (t = n /\ j \in ids)
<1> DEFINE rows == [d.rows EXCEPT ![n] = d.rows[n] \cup ids]
<1>1. e = [d EXCEPT !.rows = rows, !.latch = TRUE]  BY DEF lifecycleClawRouteSkip
<1>2. rows \in [Tables -> SUBSET Ids]  BY RouteNumbers DEF Databases
<1>3. \A t \in Tables : \A j : j \in rows[t] <=> j \in d.rows[t] \/ (t = n /\ j \in ids)
  BY RouteNumbers DEF Databases
<1> HIDE DEF rows
<1>4. e.rows = rows  BY <1>1 DEF Databases
<1>5. e \in Databases  BY <1>1, <1>2 DEF Databases
<1> QED  BY <1>1, <1>3, <1>4, <1>5 DEF Databases

\* What is no longer due.
LEMMA WithoutParts ==
    ASSUME NEW l \in Ledgers, NEW ids, NEW m, m = Without(l, ids)
    PROVE  /\ m.seen = l.seen /\ m.half = l.half /\ m.done = l.done /\ m.fails = l.fails /\ m.sends = l.sends
           /\ \A n \in Names : m.may[n] = l.may[n] \ ids /\ m.owed[n] = l.owed[n] \ ids
<1> DEFINE may == [n \in Names |-> l.may[n] \ ids]
           owed == [n \in Names |-> l.owed[n] \ ids]
<1>1. m = [l EXCEPT !.may = may, !.owed = owed]  BY DEF Without
<1>2. \A n \in Names : may[n] = l.may[n] \ ids /\ owed[n] = l.owed[n] \ ids  OBVIOUS
<1> HIDE DEF may, owed
<1>3. m.may = may /\ m.owed = owed  BY <1>1 DEF Ledgers
<1> QED  BY <1>1, <1>2, <1>3 DEF Ledgers

\* What is left to the configured routes.
LEMMA SeenParts ==
    ASSUME NEW l \in Ledgers, NEW routes \in SUBSET Names, NEW m, m = SeenBy(l, routes)
    PROVE  /\ m.seen = routes /\ m.half = l.half /\ m.done = l.done /\ m.sends = l.sends
           /\ \A n \in routes : m.may[n] = l.may[n] /\ m.owed[n] = l.owed[n] /\ m.fails[n] = l.fails[n]
           /\ \A n \in Names \ routes : m.may[n] = {} /\ m.owed[n] = {} /\ m.fails[n] = [i \in Ids |-> 0]
<1> DEFINE may == [n \in Names |-> IF n \in routes THEN l.may[n] ELSE {}]
           owed == [n \in Names |-> IF n \in routes THEN l.owed[n] ELSE {}]
           fails == [n \in Names |-> IF n \in routes THEN l.fails[n] ELSE [i \in Ids |-> 0]]
<1>1. m = [l EXCEPT !.seen = routes, !.may = may, !.owed = owed, !.fails = fails]
  BY DEF SeenBy
<1>2. /\ \A n \in routes : may[n] = l.may[n] /\ owed[n] = l.owed[n] /\ fails[n] = l.fails[n]
      /\ \A n \in Names \ routes : may[n] = {} /\ owed[n] = {} /\ fails[n] = [i \in Ids |-> 0]
  OBVIOUS
<1> HIDE DEF may, owed, fails
<1>3. m.may = may /\ m.owed = owed /\ m.fails = fails  BY <1>1 DEF Ledgers
<1> QED  BY <1>1, <1>2, <1>3 DEF Ledgers

\* Nothing is owed to anyone before the first claw baseline.
LEMMA NothingOwed ==
    ASSUME OwingInv, ~ndb.clawBase, NEW n \in Names PROVE ledger.owed[n] = {}
BY DEF OwingInv, OwedInv, Owing

\* The owed of a route after a step, from where its place is.
LEMMA OwedFollows ==
    ASSUME OwingInv, UNCHANGED happened, NEW n \in Names, ledger'.owed[n] \subseteq ledger.owed[n],
           ledger.done[n] \subseteq ledger'.done[n], Owing(ndb', n),
           NEW i \in ledger'.owed[n],
           i \notin ledger'.done[n] => ~lifecycleRouteDelivered(n, i)',
           i \notin ledger'.done[n] /\ i \in Of("task") => i > Pos(ndb', n)
    PROVE  /\ Owing(ndb', n) /\ i \in Accepted(n)'
           /\ i \notin ledger'.done[n] =>
                 ~lifecycleRouteDelivered(n, i)' /\ (i \in Of("task")' => i > Pos(ndb', n))
<1>1. Accepted(n)' = Accepted(n) /\ Of("task")' = Of("task")  BY DEF Accepted, Of
<1>2. i \in Accepted(n)  BY DEF OwingInv, OwedInv
<1> QED  BY <1>1, <1>2

\* The floor rises below the cursors, and the first claw baseline comes before anything is owed.
LEMMA TaskPassEndsOwing == ASSUME RouteInv, OwingInv, TaskPassEnds PROVE OwingInv'
<1> DEFINE rises == /\ ~singleRoute /\ tick.built = tick.routes /\ DOMAIN tick.wm = tick.built
                    /\ tick.floor > 0 /\ tick.floor > ndb.shared
           d == IF rises THEN [ndb EXCEPT !.shared = tick.floor] ELSE ndb
           off == Of("claw") \cap Typed(tick.muted)
           next == [tick EXCEPT !.pc = "claw", !.todo = tick.built \ tick.paused,
                                !.wm = [n \in {} |-> 0], !.floor = NoCursor, !.paused = {}]
<1>1. /\ RouteTypes /\ ndb \in Databases /\ tick \in Ticks /\ TickShape /\ ledger \in Ledgers /\ HappenedTypes
      /\ tick.routes \in SUBSET Names
  BY DEF RouteInv, RouteTypes, Ticks
<1>2. /\ tick.pc = "task" /\ tick.at = Legacy /\ UNCHANGED <<happened, stash>>
      /\ IF ~d.clawBase
         THEN /\ ndb' = seedLifecycleClawBaseline(d, tick.routes) /\ tick' = NoTick /\ ledger' = ledger
         ELSE /\ ndb' = SkipForAll(d, off) /\ tick' \in {NoTick, next} /\ ledger' = Without(ledger, off)
  BY DEF TaskPassEnds
<1>3. tick.sent = 0  BY <1>1, <1>2 DEF TickShape
<1>4. /\ d \in Databases /\ d.cursor = ndb.cursor /\ d.stamp = ndb.stamp /\ d.clawBase = ndb.clawBase
      /\ d.rows = ndb.rows /\ d.shared \in {ndb.shared, tick.floor} /\ (~rises => d = ndb)
  <2>1. tick.floor \in Positions  BY <1>1 DEF Ticks
  <2> QED  BY <1>1, <2>1 DEF Databases
<1>5. off \in SUBSET Ids /\ off \subseteq DOMAIN happened  BY <1>1, EntryIds, HeadWithin
<1>6. ASSUME NEW n \in Names, ledger.owed[n] # {} PROVE rises => ndb.cursor[n] # NoCursor
  <2>1. n \in ledger.seen  BY <1>6 DEF OwingInv, Unseen
  <2> QED  BY <1>2, <2>1 DEF OwingInv, TickLinks
<1> HIDE DEF d, off, rises
<1>7. Within(d)  BY <1>4 DEF OwingInv, Behind, Within
<1>8. /\ tick' = NoTick \/ tick' = next
      /\ tick'.pc \in {"idle", "claw"} /\ tick'.at = Legacy /\ tick'.sent = 0
      /\ tick'.pc = "claw" => tick'.routes = tick.routes /\ tick'.built = tick.built /\ tick'.todo \subseteq tick.built
      /\ DOMAIN tick'.wm = {} /\ tick'.handled \in {0, tick.handled} /\ tick'.floor = NoCursor
      /\ tick'.cand \in {{}, tick.cand}
  <2>1. tick' = NoTick \/ tick' = next  BY <1>2
  <2>2. CASE tick' = NoTick  BY <2>2, NoTickTyped DEF NoTick
  <2>3. CASE tick' = next  BY <1>1, <1>2, <1>3, <2>3 DEF Ticks
  <2> QED  BY <2>1, <2>2, <2>3
<1>9. ledger'.seen = ledger.seen /\ ledger'.done = ledger.done
      /\ \A n \in Names : ledger'.owed[n] \subseteq ledger.owed[n]
  BY <1>1, <1>2, WithoutParts
<1>10. TickLinks'  BY <1>2, <1>8, <1>9 DEF OwingInv, TickLinks
<1>a. ASSUME ~d.clawBase
      PROVE  /\ ndb'.shared = d.shared /\ ndb'.cursor = d.cursor
             /\ \A t \in Tables : \A j : j \in ndb'.rows[t] <=> j \in d.rows[t] \/ (t = Legacy /\ j \in Of("claw"))
  <2>1. ndb' = seedLifecycleClawBaseline(d, tick.routes)  BY <1>2, <1>a
  <2>2. HappenedTypes /\ d \in Databases /\ tick.routes \in SUBSET Names  BY <1>1, <1>4
  <2> QED  BY <2>1, <2>2, SeedParts
<1>b. ASSUME d.clawBase
      PROVE  /\ ndb'.shared = d.shared /\ ndb'.cursor = d.cursor /\ ndb'.stamp = d.stamp /\ ndb'.clawBase = d.clawBase
             /\ \A t \in Tables : \A j : j \in ndb'.rows[t] <=> j \in d.rows[t] \/ (t = Legacy /\ j \in off)
  <2>1. ndb' = SkipForAll(d, off)  BY <1>2, <1>b
  <2> QED  BY <1>4, <1>5, <2>1, SkipParts
<1>11. Within(ndb)'
  <2>1. \A t \in Tables : \A j : j \in ndb'.rows[t] => j \in d.rows[t] \/ j \in DOMAIN happened
    BY <1>1, <1>5, <1>a, <1>b, HeadWithin
  <2>2. ndb'.shared = d.shared /\ ndb'.cursor = d.cursor  BY <1>a, <1>b
  <2> QED  BY <1>2, <1>7, <2>1, <2>2 DEF Within
<1>12. Behind'
  <2>1. 0 <= Len(happened) /\ NoCursor <= Len(happened)  BY <1>1, HeadWithin, RouteNumbers
  <2> QED  BY <1>2, <1>8, <1>11, <2>1 DEF OwingInv, Behind
<1>13. Unseen'  BY <1>9 DEF OwingInv, Unseen
<1>14. PassInv'  BY <1>8, NoPass
<1>15. OwedInv'
  <2>1. CASE ~d.clawBase
    <3>1. \A n \in Names : ledger'.owed[n] = {}  BY <1>2, <1>4, <2>1, NothingOwed
    <3> QED  BY <3>1 DEF OwedInv
  <2>2. CASE d.clawBase
    <3>1. /\ ndb'.shared = d.shared /\ ndb'.cursor = d.cursor /\ ndb'.stamp = d.stamp /\ ndb'.clawBase = d.clawBase
          /\ \A t \in Tables : \A j : j \in ndb'.rows[t] <=> j \in d.rows[t] \/ (t = Legacy /\ j \in off)
      BY <1>b, <2>2
    <3>2. \A n \in Names : ledger'.owed[n] = ledger.owed[n] \ off  BY <1>1, <1>2, <2>2, WithoutParts
    <3> SUFFICES ASSUME NEW n \in Names, NEW i \in ledger'.owed[n]
                 PROVE  /\ Owing(ndb', n) /\ i \in Accepted(n)'
                        /\ i \notin ledger'.done[n] =>
                              ~lifecycleRouteDelivered(n, i)' /\ (i \in Of("task")' => i > Pos(ndb', n))
      BY DEF OwedInv
    <3>3. i \in ledger.owed[n] /\ i \notin off  BY <3>2
    <3>4. /\ Owing(ndb, n)
          /\ i \notin ledger.done[n] =>
                ~lifecycleRouteDelivered(n, i) /\ (i \in Of("task") => i > Pos(ndb, n))
      BY <3>3 DEF OwingInv, OwedInv
    <3>5. Pos(ndb', n) = Pos(ndb, n)
      <4>1. rises => ndb.cursor[n] # NoCursor  BY <1>6, <3>3
      <4> QED  BY <1>4, <3>1, <4>1 DEF Pos
    <3>6. Owing(ndb', n)  BY <1>4, <3>1, <3>4, <3>5 DEF Owing
    <3>7. i \notin ledger'.done[n] => ~lifecycleRouteDelivered(n, i)'
      <4>1. n \in Tables /\ Legacy \in Tables  BY RouteNumbers
      <4> QED  BY <1>2, <1>4, <1>9, <3>1, <3>3, <3>4, <4>1 DEF lifecycleRouteDelivered
    <3> QED  BY <1>2, <1>9, <3>4, <3>5, <3>6, <3>7, OwedFollows
  <2> QED  BY <2>1, <2>2
<1> QED  BY <1>10, <1>12, <1>13, <1>14, <1>15 DEF OwingInv

\* A parked position is at the head, or ahead of it.
LEMMA ParkParts ==
    ASSUME HappenedTypes, NEW d \in Databases, NEW e, e = parkLifecycleWatermark(d)
    PROVE  /\ e \in Databases /\ e.stamp = d.stamp /\ (e.clawBase <=> d.clawBase) /\ (e.latch <=> d.latch)
           /\ e.rows = d.rows /\ e.streak = d.streak
           /\ e.shared \in {d.shared, lifecycleMaxEventRowID} /\ (d.shared = NoCursor <=> e.shared = NoCursor)
           /\ d.shared # NoCursor => e.shared >= lifecycleMaxEventRowID
           /\ \A n \in Names :
                 /\ e.cursor[n] \in {d.cursor[n], lifecycleMaxEventRowID}
                 /\ d.cursor[n] = NoCursor <=> e.cursor[n] = NoCursor
                 /\ d.cursor[n] # NoCursor => e.cursor[n] >= lifecycleMaxEventRowID
<1> DEFINE head == lifecycleMaxEventRowID
           park(c) == IF c = NoCursor \/ c > head THEN c ELSE head
           cursor == [n \in Names |-> park(d.cursor[n])]
<1>1. head \in Nat /\ head \in Positions  BY HeadWithin, EntryIds, RouteNumbers
<1>2. \A c \in Positions : /\ park(c) \in {c, head} /\ (c = NoCursor <=> park(c) = NoCursor)
                           /\ (c # NoCursor => park(c) >= head)
  <2>1. Positions \subseteq Int  BY RouteNumbers DEF Positions
  <2> HIDE DEF head
  <2> QED  BY <1>1, <2>1, RouteNumbers
<1>3. e = [d EXCEPT !.shared = park(d.shared), !.cursor = cursor]
  BY DEF parkLifecycleWatermark
<1>4. d.shared \in Positions /\ \A n \in Names : d.cursor[n] \in Positions /\ cursor[n] = park(d.cursor[n])
  BY DatabaseParts
<1>5. cursor \in [Names -> Positions] /\ park(d.shared) \in Positions
  <2>1. \A n \in Names : park(d.cursor[n]) \in Positions  BY <1>1, <1>2, <1>4
  <2> HIDE DEF park
  <2> QED  BY <1>1, <1>2, <1>4, <2>1
<1> HIDE DEF park, cursor, head
<1>6. /\ e \in Databases /\ e.stamp = d.stamp /\ e.clawBase = d.clawBase /\ e.latch = d.latch
      /\ e.rows = d.rows /\ e.streak = d.streak /\ e.shared = park(d.shared) /\ e.cursor = cursor
  BY <1>3, <1>5 DEF Databases
<1> QED  BY <1>2, <1>4, <1>6 DEF head

\* The cursors that are read are the places of the routes.
LEMMA BuildsOwing == ASSUME RouteInv, OwingInv, TickBuilds PROVE OwingInv'
<1> DEFINE built == tick.routes \ unbuildable
           single == built = tick.routes /\ Cardinality(built) = 1
           key(n) == lifecycleWatermarkKeyFor(ndb, n, single)
           with == {n \in built : CursorAt(ndb, key(n)) # NoCursor}
           wm == [n \in with |-> CursorAt(ndb, key(n))]
           first == \E n \in built \ with : key(n) = Legacy
           lowest == Min({wm[n] : n \in with})
           next == [tick EXCEPT !.pc = "task", !.built = built, !.wm = wm, !.todo = with]
           off == {i \in Of("task") \cap Typed(tick.muted) : i > lowest}
           head == lifecycleMaxEventRowID
<1>1. /\ RouteTypes /\ ndb \in Databases /\ ledger \in Ledgers /\ tick \in Ticks /\ TickShape
      /\ stash \subseteq Tables \X Ids /\ HappenedTypes
  BY DEF RouteInv, RouteTypes
<1>2. tick.pc = "build" /\ UNCHANGED <<happened, nconf, unbuildable, stash>>
  BY DEF TickBuilds
<1>3. tick.at = Legacy /\ tick.sent = 0 /\ tick.routes = ledger.seen /\ tick.routes \subseteq Names
  BY <1>1, <1>2, TickParts DEF TickShape, OwingInv, TickLinks
<1>4. with \subseteq built /\ built \subseteq tick.routes  OBVIOUS
<1>5. ASSUME NEW n \in with
      PROVE  /\ n \in Names /\ wm[n] = Pos(ndb, n) /\ wm[n] # NoCursor
             /\ ~single => ndb.cursor[n] # NoCursor
  <2>1. n \in Names /\ wm[n] = CursorAt(ndb, key(n)) /\ CursorAt(ndb, key(n)) # NoCursor  BY <1>3, <1>4
  <2>2. n # Legacy  BY <2>1, RouteNumbers
  <2>3. CASE key(n) = n
    BY <2>1, <2>2, <2>3 DEF CursorAt, Pos
  <2>4. CASE key(n) = Legacy /\ single /\ ndb.cursor[n] = NoCursor
    BY <2>1, <2>2, <2>4 DEF CursorAt, Pos
  <2> QED  BY <2>3, <2>4 DEF lifecycleWatermarkKeyFor
<1>6. first => ndb.shared = NoCursor
  <2> SUFFICES ASSUME NEW n \in built \ with, key(n) = Legacy PROVE ndb.shared = NoCursor
    OBVIOUS
  <2>1. CursorAt(ndb, key(n)) = NoCursor  OBVIOUS
  <2> QED  BY <2>1 DEF CursorAt
<1>7. \/ /\ built = {} /\ tick' = NoTick /\ UNCHANGED <<ndb, ledger>>
      \/ /\ with = {} /\ ndb' = (IF first THEN [ndb EXCEPT !.shared = head] ELSE ndb)
         /\ tick' = next /\ UNCHANGED ledger
      \/ /\ ndb' = parkLifecycleWatermark(ndb) /\ ledger' = Without(ledger, Of("task"))
         /\ tick' = [next EXCEPT !.todo = {}]
      \/ /\ ndb' = SkipForAll(ndb, off) /\ ledger' = Without(ledger, off) /\ tick' = next
         /\ with # {}
  BY DEF TickBuilds, skipLifecycleMutedEvents
<1>8. off \subseteq Of("task") /\ \A i \in Of("task") \cap Typed(tick.muted) : i > lowest => i \in off
  OBVIOUS
<1>9. off \in SUBSET Ids /\ off \subseteq DOMAIN happened /\ Of("task") \subseteq DOMAIN happened
      /\ head \in Nat /\ head <= Len(happened)
  BY <1>1, <1>8, EntryIds, HeadWithin
<1>a. \A n \in with : wm[n] \in 0 .. MaxHappened
  <2> SUFFICES ASSUME NEW n \in with PROVE wm[n] \in 0 .. MaxHappened  OBVIOUS
  <2>1. Pos(ndb, n) \in Positions  BY <1>1, <1>5, DatabaseParts DEF Pos
  <2>2. wm[n] \in Positions /\ wm[n] # NoCursor  BY <1>5, <2>1
  <2> QED  BY <2>2, RouteNumbers DEF Positions
<1>10. with # {} => lowest \in 0 .. MaxHappened /\ \A n \in with : lowest <= wm[n]
  <2> DEFINE S == {wm[n] : n \in with}
  <2>1. S \subseteq 0 .. MaxHappened /\ (with # {} => S # {})  BY <1>a
  <2> HIDE DEF wm, with
  <2>2. with # {} => Min(S) \in S /\ \A y \in S : Min(S) <= y  BY <2>1, MinOf
  <2> QED  BY <2>1, <2>2
<1> HIDE DEF off, lowest, first, head
<1>11. DOMAIN wm = with  OBVIOUS
<1> HIDE DEF wm, with
<1>12. tick' # NoTick =>
          /\ tick'.pc = "task" /\ tick'.built = built /\ tick'.wm = wm /\ tick'.todo \in {with, {}}
          /\ tick'.at = Legacy /\ tick'.sent = 0 /\ tick'.routes = tick.routes /\ tick'.muted = tick.muted
          /\ tick'.handled = tick.handled /\ tick'.floor = tick.floor /\ tick'.cand = tick.cand
  <2>1. /\ next.pc = "task" /\ next.built = built /\ next.wm = wm /\ next.todo = with
        /\ next.at = Legacy /\ next.sent = 0 /\ next.routes = tick.routes /\ next.muted = tick.muted
        /\ next.handled = tick.handled /\ next.floor = tick.floor /\ next.cand = tick.cand
        /\ DOMAIN next = DOMAIN tick /\ "todo" \in DOMAIN next
    BY <1>1, <1>3 DEF Ticks
  <2>2. tick' = NoTick \/ tick' = next \/ tick' = [next EXCEPT !.todo = {}]  BY <1>7
  <2> HIDE DEF next
  <2>3. CASE tick' = [next EXCEPT !.todo = {}]  BY <2>1, <2>3
  <2> QED  BY <2>1, <2>2, <2>3
<1>13. ledger'.seen = ledger.seen /\ ledger'.done = ledger.done
       /\ \A n \in Names : ledger'.owed[n] \subseteq ledger.owed[n]
  BY <1>1, <1>7, WithoutParts
<1>14. CASE tick' = NoTick
  <2>2. tick'.pc = "idle" /\ tick'.at = Legacy /\ tick'.sent = 0 /\ tick'.handled = 0 /\ tick'.floor = NoCursor
        /\ tick'.cand = {} /\ DOMAIN tick'.wm = {}
    BY <1>14 DEF NoTick
  <2>3. next.pc = "task"  BY <1>1 DEF Ticks
  <2>4. ndb' = ndb /\ ledger' = ledger
    <3>1. CASE tick' = next  BY <2>2, <2>3, <3>1
    <3>2. CASE tick' = [next EXCEPT !.todo = {}]
      <4>1. [next EXCEPT !.todo = {}].pc = next.pc  BY <1>1 DEF Ticks
      <4> QED  BY <2>2, <2>3, <3>2, <4>1
    <3> QED  BY <1>7, <3>1, <3>2
  <2>5. TickLinks'  BY <2>2 DEF TickLinks
  <2>6. 0 <= Len(happened) /\ NoCursor <= Len(happened)  BY <1>1, HeadWithin, RouteNumbers
  <2>7. Behind'  BY <1>2, <2>2, <2>4, <2>6 DEF OwingInv, Behind, Within
  <2>8. OwedInv'  BY <1>2, <2>4, StillOwed DEF OwingInv
  <2>9. PassInv'  BY <2>2, NoPass
  <2>10. Unseen'  BY <2>4 DEF OwingInv, Unseen
  <2> QED  BY <2>5, <2>7, <2>8, <2>9, <2>10 DEF OwingInv
<1>15. CASE tick' # NoTick
  <2>1. /\ tick'.pc = "task" /\ tick'.built = built /\ tick'.wm = wm /\ tick'.todo \in {with, {}}
        /\ tick'.at = Legacy /\ tick'.sent = 0 /\ tick'.routes = tick.routes /\ tick'.muted = tick.muted
        /\ tick'.handled = tick.handled /\ tick'.floor = tick.floor /\ tick'.cand = tick.cand
    BY <1>12, <1>15
  <2>a. ASSUME with = {}, ndb' = (IF first THEN [ndb EXCEPT !.shared = head] ELSE ndb), UNCHANGED ledger
        PROVE  OwingInv'
    <3>1. /\ ndb'.cursor = ndb.cursor /\ ndb'.stamp = ndb.stamp /\ ndb'.clawBase = ndb.clawBase
          /\ ndb'.rows = ndb.rows /\ (ndb'.shared = ndb.shared \/ (ndb'.shared = head /\ ndb.shared = NoCursor))
      BY <1>1, <1>6, <2>a DEF Databases
    <3>2. TickLinks'
      BY <1>3, <1>4, <1>11, <2>1, <2>a DEF TickLinks
    <3>3. Behind'  BY <1>2, <1>9, <1>11, <2>1, <2>a, <3>1 DEF OwingInv, Behind, Within
    <3>4. Unseen'  BY <1>13 DEF OwingInv, Unseen
    <3>5. OwedInv'
      <4> SUFFICES ASSUME NEW n \in Names, NEW i \in ledger'.owed[n]
                   PROVE  /\ Owing(ndb', n) /\ i \in Accepted(n)'
                          /\ i \notin ledger'.done[n] =>
                                ~lifecycleRouteDelivered(n, i)' /\ (i \in Of("task")' => i > Pos(ndb', n))
        BY DEF OwedInv
      <4>1. /\ Owing(ndb, n)
            /\ i \notin ledger.done[n] =>
                  ~lifecycleRouteDelivered(n, i) /\ (i \in Of("task") => i > Pos(ndb, n))
        BY <2>a DEF OwingInv, OwedInv
      <4>2. Pos(ndb', n) = Pos(ndb, n)  BY <3>1, <4>1 DEF Owing, Pos
      <4>3. Owing(ndb', n)  BY <3>1, <4>1, <4>2 DEF Owing
      <4>4. lifecycleRouteDelivered(n, i)' <=> lifecycleRouteDelivered(n, i)
        BY <1>2, <3>1 DEF lifecycleRouteDelivered
      <4> QED  BY <1>2, <1>13, <4>1, <4>2, <4>3, <4>4, OwedFollows
    <3>6. PassInv'  BY <2>1, <2>a DEF PassInv
    <3> QED  BY <3>2, <3>3, <3>4, <3>5, <3>6 DEF OwingInv
  <2>2. ASSUME ndb'.cursor = ndb.cursor \/ ndb' = parkLifecycleWatermark(ndb)
        PROVE  TickLinks'
    <3>1. \A n \in Names : ndb.cursor[n] # NoCursor => ndb'.cursor[n] # NoCursor
      BY <1>1, <2>2, ParkParts
    <3>2. singleRoute' <=> single  BY <2>1 DEF singleRoute
    <3>3. ~single => \A n \in with : ndb'.cursor[n] # NoCursor  BY <1>5, <3>1
    <3> HIDE DEF built, single
    <3> QED  BY <1>3, <1>4, <1>11, <1>13, <2>1, <3>2, <3>3 DEF TickLinks
  <2>3. ASSUME Within(ndb)' PROVE Behind'
    <3>1. ASSUME NEW n \in with PROVE wm[n] <= Len(happened)
      BY <1>5, <3>1 DEF OwingInv, Behind, Within, Pos
    <3> QED  BY <1>2, <1>11, <2>1, <2>3, <3>1 DEF OwingInv, Behind
  <2>4. Unseen'  BY <1>13 DEF OwingInv, Unseen
  <2>5. ASSUME ndb' = parkLifecycleWatermark(ndb), ledger' = Without(ledger, Of("task")),
               tick' = [next EXCEPT !.todo = {}]
        PROVE  OwingInv'
    <3>1. /\ ndb'.stamp = ndb.stamp /\ (ndb'.clawBase <=> ndb.clawBase) /\ ndb'.rows = ndb.rows
          /\ ndb'.shared \in {ndb.shared, head} /\ (ndb.shared = NoCursor <=> ndb'.shared = NoCursor)
          /\ \A n \in Names : /\ ndb'.cursor[n] \in {ndb.cursor[n], head}
                              /\ ndb.cursor[n] = NoCursor <=> ndb'.cursor[n] = NoCursor
      BY <1>1, <2>5, ParkParts DEF head
    <3>2. Within(ndb)'  BY <1>2, <1>9, <3>1 DEF OwingInv, Behind, Within
    <3>3. \A n \in Names : ledger'.owed[n] = ledger.owed[n] \ Of("task")  BY <1>1, <2>5, WithoutParts
    <3>4. tick'.todo = {}  BY <1>1, <2>5 DEF Ticks
    <3>5. OwedInv'
      <4> SUFFICES ASSUME NEW n \in Names, NEW i \in ledger'.owed[n]
                   PROVE  /\ Owing(ndb', n) /\ i \in Accepted(n)'
                          /\ i \notin ledger'.done[n] =>
                                ~lifecycleRouteDelivered(n, i)' /\ (i \in Of("task")' => i > Pos(ndb', n))
        BY DEF OwedInv
      <4>1. i \in ledger.owed[n] /\ i \notin Of("task")  BY <3>3
      <4>2. Owing(ndb, n) /\ (i \notin ledger.done[n] => ~lifecycleRouteDelivered(n, i))
        BY <4>1 DEF OwingInv, OwedInv
      <4>3. Owing(ndb', n)  BY <3>1, <4>2 DEF Owing, Pos
      <4>4. lifecycleRouteDelivered(n, i)' <=> lifecycleRouteDelivered(n, i)
        BY <1>2, <3>1 DEF lifecycleRouteDelivered
      <4> QED  BY <1>2, <1>13, <4>1, <4>2, <4>3, <4>4, OwedFollows
    <3>6. PassInv'  BY <2>1, <3>4 DEF PassInv
    <3> QED  BY <2>2, <2>3, <2>4, <2>5, <3>2, <3>5, <3>6 DEF OwingInv
  <2>6. ASSUME ndb' = SkipForAll(ndb, off), ledger' = Without(ledger, off), with # {}
        PROVE  OwingInv'
    <3>1. /\ ndb'.stamp = ndb.stamp /\ ndb'.clawBase = ndb.clawBase /\ ndb'.shared = ndb.shared
          /\ ndb'.cursor = ndb.cursor
          /\ \A t \in Tables : \A j : j \in ndb'.rows[t] <=> j \in ndb.rows[t] \/ (t = Legacy /\ j \in off)
      BY <1>1, <1>9, <2>6, SkipParts
    <3>2. Within(ndb)'  BY <1>2, <1>9, <3>1 DEF OwingInv, Behind, Within
    <3>3. \A n \in Names : ledger'.owed[n] = ledger.owed[n] \ off  BY <1>1, <2>6, WithoutParts
    <3>5. OwedInv'
      <4> SUFFICES ASSUME NEW n \in Names, NEW i \in ledger'.owed[n]
                   PROVE  /\ Owing(ndb', n) /\ i \in Accepted(n)'
                          /\ i \notin ledger'.done[n] =>
                                ~lifecycleRouteDelivered(n, i)' /\ (i \in Of("task")' => i > Pos(ndb', n))
        BY DEF OwedInv
      <4>1. i \in ledger.owed[n] /\ i \notin off  BY <3>3
      <4>2. /\ Owing(ndb, n)
            /\ i \notin ledger.done[n] =>
                  ~lifecycleRouteDelivered(n, i) /\ (i \in Of("task") => i > Pos(ndb, n))
        BY <4>1 DEF OwingInv, OwedInv
      <4>3. Owing(ndb', n) /\ Pos(ndb', n) = Pos(ndb, n)  BY <3>1, <4>2 DEF Owing, Pos
      <4>4. i \notin ledger'.done[n] => ~lifecycleRouteDelivered(n, i)'
        <5>1. n \in Tables /\ Legacy \in Tables  BY RouteNumbers
        <5> QED  BY <1>2, <1>13, <3>1, <4>1, <4>2, <5>1 DEF lifecycleRouteDelivered
      <4> QED  BY <1>2, <1>13, <4>1, <4>2, <4>3, <4>4, OwedFollows
    <3>6. PassInv'
      <4>1. Of("task")' = Of("task") /\ Typed(tick.muted)' = Typed(tick.muted)  BY <1>2, <2>1 DEF Of, Typed
      <4>2. ASSUME NEW n \in with, NEW i \in Due(n)' \cap Of("task")
            PROVE  i > wm[n] /\ i \notin Typed(tick.muted)
        <5>1. n \in Names  BY <1>5
        <5>2. i \in ledger.owed[n] /\ i \notin off /\ i \notin ledger.done[n]
          BY <1>13, <3>3, <4>2, <5>1 DEF Due
        <5>3. i > Pos(ndb, n)  BY <4>2, <5>1, <5>2 DEF OwingInv, OwedInv
        <5>4. i > wm[n]  BY <1>5, <5>3
        <5>5. lowest <= wm[n]  BY <1>10, <2>6
        <5>6. i \in Int /\ wm[n] \in Int /\ lowest \in Int
          <6>1. i \in Int  BY <1>1, <5>1, <5>2, TickParts
          <6>2. Pos(ndb, n) \in Int  BY <1>1, <5>1, DatabaseParts DEF Pos
          <6>3. wm[n] \in Int  BY <1>5, <6>2
          <6>4. lowest \in Int  BY <1>10, <2>6
          <6> QED  BY <6>1, <6>3, <6>4
        <5>7. i > lowest  BY <5>4, <5>5, <5>6
        <5> QED  BY <1>8, <4>2, <5>2, <5>4, <5>7
      <4> QED  BY <2>1, <4>1, <4>2 DEF PassInv
    <3> QED  BY <2>2, <2>3, <2>4, <3>1, <3>2, <3>5, <3>6 DEF OwingInv
  <2> QED  BY <1>7, <1>15, <2>a, <2>5, <2>6
<1> QED  BY <1>14, <1>15

\* After a route of the claw pass; its baseline and what the allow-list rejects only
\* fence the route itself.
LEMMA AfterRouteParts ==
    ASSUME RouteTypes, OwingInv, tick.pc = "claw", tick.sent = 0, NEW n, tick' = AfterRoute(n),
           UNCHANGED happened, ledger'.seen = ledger.seen, ledger'.done = ledger.done,
           Within(ndb)', stash' = stash
    PROVE  TickLinks' /\ Behind' /\ PassInv'
<1>1. tick \in Ticks /\ HappenedTypes  BY DEF RouteTypes
<1>2. 0 <= Len(happened) /\ NoCursor <= Len(happened)  BY <1>1, HeadWithin, RouteNumbers
<1>3. CASE tick' = NoTick
  <2>1. /\ tick'.pc = "idle" /\ tick'.sent = 0 /\ tick'.handled = 0 /\ tick'.floor = NoCursor
        /\ tick'.cand = {} /\ DOMAIN tick'.wm = {}
    BY <1>3 DEF NoTick
  <2>2. TickLinks'  BY <2>1 DEF TickLinks
  <2>3. Behind'  BY <1>2, <2>1 DEF OwingInv, Behind
  <2> QED  BY <2>1, <2>2, <2>3, NoPass
<1>4. CASE tick' = [tick EXCEPT !.at = Legacy, !.todo = @ \ {n}, !.cand = {}]
  <2>1. /\ tick'.pc = "claw" /\ tick'.sent = 0 /\ tick'.handled = tick.handled /\ tick'.floor = tick.floor
        /\ tick'.cand = {} /\ tick'.wm = tick.wm /\ tick'.at = Legacy /\ tick'.todo = tick.todo \ {n}
        /\ tick'.routes = tick.routes /\ tick'.built = tick.built
    BY <1>1, <1>4 DEF Ticks
  <2>2. TickLinks'  BY <2>1 DEF OwingInv, TickLinks
  <2>3. Behind'  BY <2>1 DEF OwingInv, Behind
  <2> QED  BY <2>1, <2>2, <2>3, NoPass
<1> QED  BY <1>3, <1>4 DEF AfterRoute

\* The claw pass of a route is over.
LEMMA ClawRouteEndsOwing == ASSUME RouteInv, OwingInv, ClawRouteEnds PROVE OwingInv'
<1>1. RouteTypes  BY DEF RouteInv
<1>2. /\ tick.pc = "claw" /\ tick.sent = 0 /\ tick' = AfterRoute(tick.at)
      /\ UNCHANGED <<happened, ndb, stash, ledger>>
  BY DEF ClawRouteEnds
<1>3. Within(ndb)'  BY <1>2 DEF OwingInv, Behind, Within
<1>4. TickLinks' /\ Behind' /\ PassInv'  BY <1>1, <1>2, <1>3, AfterRouteParts
<1>5. OwedInv'  BY <1>2, StillOwed DEF OwingInv
<1>6. Unseen'  BY <1>2 DEF OwingInv, Unseen
<1> QED  BY <1>4, <1>5, <1>6 DEF OwingInv

\* What the baseline of one route leaves alone.
LEMMA BaselineParts ==
    ASSUME HappenedTypes, NEW d \in Databases, NEW n \in Names, NEW b, b = BaselineOf(d, n)
    PROVE  /\ b.db \in Databases
           /\ b.db.shared = d.shared /\ b.db.cursor = d.cursor /\ (b.db.clawBase <=> d.clawBase)
           /\ b.db.stamp \in {d.stamp, d.stamp \cup {n}} /\ (n \in d.stamp => b.db = d)
           /\ b.db.streak = d.streak
           /\ \A t \in Tables : \A j : j \in b.db.rows[t] =>
                 j \in d.rows[t] \/ (t = n /\ j \in Of("claw") /\ n \notin d.stamp)
           /\ \A t \in Tables : d.rows[t] \subseteq b.db.rows[t]
<1> DEFINE s == lifecycleClawRouteSkip(d, n, Of("claw"))
           seeded == [s EXCEPT !.stamp = s.stamp \cup {n}]
           stamped == [d EXCEPT !.stamp = d.stamp \cup {n}]
<1>1. Of("claw") \in SUBSET Ids  BY EntryIds
<1>2. /\ s \in Databases
      /\ s.shared = d.shared /\ s.cursor = d.cursor /\ s.stamp = d.stamp
      /\ (s.clawBase <=> d.clawBase) /\ s.streak = d.streak
      /\ \A t \in Tables : \A j : j \in s.rows[t] <=> j \in d.rows[t] \/ (t = n /\ j \in Of("claw"))
  BY <1>1, RouteSkipParts
<1>3. b.db = d \/ (n \notin d.stamp /\ (b.db = stamped \/ b.db = seeded))
  BY DEF BaselineOf
<1>4. /\ stamped \in Databases
      /\ stamped.shared = d.shared /\ stamped.cursor = d.cursor /\ stamped.stamp = d.stamp \cup {n}
      /\ stamped.clawBase = d.clawBase /\ stamped.rows = d.rows /\ stamped.streak = d.streak
  BY DEF Databases
<1> HIDE DEF s, stamped
<1>5. /\ seeded \in Databases
      /\ seeded.shared = d.shared /\ seeded.cursor = d.cursor /\ seeded.stamp = d.stamp \cup {n}
      /\ (seeded.clawBase <=> d.clawBase) /\ seeded.rows = s.rows /\ seeded.streak = d.streak
  <2>1. s.stamp \cup {n} \in SUBSET Names  BY <1>2 DEF Databases
  <2> QED  BY <1>2, <2>1 DEF Databases
<1> HIDE DEF seeded
<1>6. CASE b.db = d  BY <1>6
<1>7. CASE n \notin d.stamp /\ b.db = stamped  BY <1>4, <1>7
<1>8. CASE n \notin d.stamp /\ b.db = seeded  BY <1>2, <1>5, <1>8
<1> QED  BY <1>3, <1>6, <1>7, <1>8

\* The rows written for a route are of states its allow-list rejects.
LEMMA ClawRouteStartsOwing ==
    ASSUME RouteInv, OwingInv, NEW n \in Names, ClawRouteStarts(n) PROVE OwingInv'
<1> DEFINE b == BaselineOf(ndb, n)
           rejected == (Types \ tick.muted) \ Accepts[n]
           off == Of("claw") \cap Typed(rejected)
           d == IF rejected = {} THEN b.db ELSE lifecycleClawRouteSkip(b.db, n, off)
           cand == (Of("claw") \cap Typed(Accepts[n] \ tick.muted)) \ (d.rows[Legacy] \cup d.rows[n])
<1>1. /\ RouteTypes /\ ndb \in Databases /\ tick \in Ticks /\ TickShape /\ HappenedTypes
  BY DEF RouteInv, RouteTypes
<1>2. /\ tick.pc = "claw" /\ tick.at = Legacy /\ n \in tick.todo
      /\ UNCHANGED <<happened, nconf, unbuildable, stash, ledger>>
      /\ \/ ndb' = d /\ tick' = [tick EXCEPT !.at = n, !.cand = cand]
         \/ ndb' = b.db /\ tick' = AfterRoute(n)
  BY DEF ClawRouteStarts
<1>3. tick.sent = 0  BY <1>1, <1>2 DEF TickShape
<1>4. /\ b.db \in Databases
      /\ b.db.shared = ndb.shared /\ b.db.cursor = ndb.cursor /\ (b.db.clawBase <=> ndb.clawBase)
      /\ b.db.stamp \in {ndb.stamp, ndb.stamp \cup {n}} /\ (n \in ndb.stamp => b.db = ndb)
      /\ \A t \in Tables : \A j : j \in b.db.rows[t] =>
            j \in ndb.rows[t] \/ (t = n /\ j \in Of("claw") /\ n \notin ndb.stamp)
  BY <1>1, BaselineParts
<1>5. off \in SUBSET Ids /\ off \subseteq DOMAIN happened /\ cand \subseteq DOMAIN happened
      /\ Of("claw") \subseteq DOMAIN happened
  BY <1>1, EntryIds, HeadWithin
<1>6. \A j \in off : j \notin Accepted(n)  BY DEF Typed, Accepted
<1> HIDE DEF b, off, cand, rejected
<1>7. /\ d.shared = ndb.shared /\ d.cursor = ndb.cursor /\ (d.clawBase <=> ndb.clawBase)
      /\ d.stamp \in {ndb.stamp, ndb.stamp \cup {n}}
      /\ \A t \in Tables : \A j : j \in d.rows[t] =>
            j \in ndb.rows[t] \/ (t = n /\ j \in Of("claw") /\ n \notin ndb.stamp) \/ (t = n /\ j \in off)
  <2>1. CASE d = b.db  BY <1>4, <2>1
  <2>2. CASE d = lifecycleClawRouteSkip(b.db, n, off)
    <3>1. /\ d.shared = b.db.shared /\ d.cursor = b.db.cursor /\ d.stamp = b.db.stamp
          /\ d.clawBase = b.db.clawBase
          /\ \A t \in Tables : \A j : j \in d.rows[t] <=> j \in b.db.rows[t] \/ (t = n /\ j \in off)
      BY <1>4, <1>5, <2>2, RouteSkipParts
    <3> HIDE DEF d
    <3> QED  BY <1>4, <3>1
  <2> QED  BY <2>1, <2>2
<1> HIDE DEF d
<1>8. /\ ndb'.shared = ndb.shared /\ ndb'.cursor = ndb.cursor /\ (ndb'.clawBase <=> ndb.clawBase)
      /\ ndb'.stamp \in {ndb.stamp, ndb.stamp \cup {n}}
      /\ \A t \in Tables : \A j : j \in ndb'.rows[t] =>
            j \in ndb.rows[t] \/ (t = n /\ j \in Of("claw") /\ n \notin ndb.stamp) \/ (t = n /\ j \in off)
  BY <1>2, <1>4, <1>7
<1>9. Within(ndb)'
  <2>1. \A t \in Tables : \A j : j \in ndb'.rows[t] => j \in ndb.rows[t] \/ j \in DOMAIN happened
    BY <1>5, <1>8
  <2> QED  BY <1>2, <1>8, <2>1 DEF OwingInv, Behind, Within
<1>10. TickLinks' /\ Behind' /\ PassInv'
  <2>1. CASE tick' = AfterRoute(n)  BY <1>1, <1>2, <1>3, <1>9, <2>1, AfterRouteParts
  <2>2. CASE tick' = [tick EXCEPT !.at = n, !.cand = cand]
    <3>1. /\ tick'.pc = "claw" /\ tick'.sent = 0 /\ tick'.handled = tick.handled /\ tick'.floor = tick.floor
          /\ tick'.cand = cand /\ tick'.wm = tick.wm /\ tick'.at = n /\ tick'.todo = tick.todo
          /\ tick'.routes = tick.routes /\ tick'.built = tick.built
      BY <1>1, <1>2, <1>3, <2>2 DEF Ticks
    <3>2. TickLinks'  BY <1>2, <3>1 DEF OwingInv, TickLinks
    <3>3. Behind'  BY <1>2, <1>5, <1>9, <3>1 DEF OwingInv, Behind
    <3> QED  BY <3>1, <3>2, <3>3, NoPass
  <2> QED  BY <1>2, <2>1, <2>2
<1>11. Unseen'  BY <1>2 DEF OwingInv, Unseen
<1>12. OwedInv'
  <2> SUFFICES ASSUME NEW m \in Names, NEW i \in ledger'.owed[m]
               PROVE  /\ Owing(ndb', m) /\ i \in Accepted(m)'
                      /\ i \notin ledger'.done[m] =>
                            ~lifecycleRouteDelivered(m, i)' /\ (i \in Of("task")' => i > Pos(ndb', m))
    BY DEF OwedInv
  <2>1. /\ Owing(ndb, m) /\ i \in Accepted(m)
        /\ i \notin ledger.done[m] =>
              ~lifecycleRouteDelivered(m, i) /\ (i \in Of("task") => i > Pos(ndb, m))
    BY <1>2 DEF OwingInv, OwedInv
  <2>2. Owing(ndb', m) /\ Pos(ndb', m) = Pos(ndb, m)  BY <1>8, <2>1 DEF Owing, Pos
  <2>3. i \notin ledger.done[m] => ~lifecycleRouteDelivered(m, i)'
    <3>1. m \in Tables /\ Legacy \in Tables /\ Legacy # n  BY RouteNumbers
    <3>2. m \in ndb.stamp  BY <2>1 DEF Owing
    <3>3. m = n => i \notin off  BY <1>6, <2>1
    <3>4. i \in ndb'.rows[m] => i \in ndb.rows[m]  BY <1>8, <3>1, <3>2, <3>3
    <3>5. i \in ndb'.rows[Legacy] => i \in ndb.rows[Legacy]  BY <1>8, <3>1
    <3> QED  BY <1>2, <2>1, <3>4, <3>5 DEF lifecycleRouteDelivered
  <2> QED  BY <1>2, <2>1, <2>2, <2>3, OwedFollows
<1> QED  BY <1>10, <1>11, <1>12 DEF OwingInv

\* What happens is ahead of every place, and of every row.
LEMMA HappensOwing ==
    ASSUME RouteInv, OwingInv, NEW k \in Kinds, Happens(k[1], k[2]) PROVE OwingInv'
<1> DEFINE e == Len(happened) + 1
           to == {n \in ledger.seen : k[2] \in Accepts[n]}
           owed == [n \in Names |-> IF n \in to /\ Placed(n, k[2]) THEN ledger.owed[n] \cup {e} ELSE ledger.owed[n]]
<1>1. /\ RouteTypes /\ ndb \in Databases /\ ledger \in Ledgers /\ HappenedTypes
  BY DEF RouteInv, RouteTypes
<1>2. /\ happened' = Append(happened, [src |-> k[1], type |-> k[2]])
      /\ UNCHANGED <<ndb, stash, tick>>
      /\ ledger'.seen = ledger.seen /\ ledger'.done = ledger.done /\ ledger'.owed = owed
  BY <1>1 DEF Happens, Ledgers
<1>3. Len(happened) \in Nat /\ DOMAIN happened = 1 .. Len(happened) /\ e \notin DOMAIN happened
  BY <1>1, HeadWithin
<1>4. /\ Len(happened') = e /\ DOMAIN happened' = DOMAIN happened \cup {e}
      /\ happened'[e] = [src |-> k[1], type |-> k[2]]
      /\ \A i \in DOMAIN happened : happened'[i] = happened[i]
  <2>1. happened \in Seq([src : {"task", "claw"}, type : Types])  BY <1>1 DEF HappenedTypes
  <2>2. [src |-> k[1], type |-> k[2]] \in [src : {"task", "claw"}, type : Types]  BY RoutesAssumption
  <2> QED  BY <1>2, <1>3, <2>1, <2>2
<1>5. \A n \in Names : \A i : i \in owed[n] <=> i \in ledger.owed[n] \/ (i = e /\ n \in to /\ Placed(n, k[2]))
  OBVIOUS
<1> HIDE DEF owed, e
<1>6. TickLinks'
  <2>1. singleRoute' <=> singleRoute  BY <1>2 DEF singleRoute
  <2> QED  BY <1>2, <2>1 DEF OwingInv, TickLinks
<1>7. Len(happened) <= Len(happened') /\ DOMAIN happened \subseteq DOMAIN happened'
  BY <1>3, <1>4 DEF e
<1>8. Within(ndb)'
  <2>1. Within(ndb)  BY DEF OwingInv, Behind
  <2>2. ndb.shared \in Int /\ \A n \in Names : ndb.cursor[n] \in Int  BY <1>1, DatabaseParts
  <2> QED  BY <1>2, <1>3, <1>4, <1>7, <2>1, <2>2 DEF Within, e
<1>9. Behind'
  <2>1. /\ tick.handled \in Int /\ tick.floor \in Int
        /\ \A n \in DOMAIN tick.wm : tick.wm[n] \in Int
    BY <1>1, TickParts
  <2> QED  BY <1>2, <1>3, <1>4, <1>7, <1>8, <2>1 DEF OwingInv, Behind, e
<1>10. Unseen'  BY <1>2, <1>5 DEF OwingInv, Unseen
<1>11. ASSUME NEW i \in DOMAIN happened
       PROVE  /\ i \in Of("task")' <=> i \in Of("task")
              /\ \A n : i \in Accepted(n)' <=> i \in Accepted(n)
              /\ i \in Typed(tick.muted)' <=> i \in Typed(tick.muted)
  BY <1>2, <1>4 DEF Of, Accepted, Typed
<1>12. \A n \in Names : ledger.owed[n] \subseteq DOMAIN happened  BY DEF OwingInv, OwedInv, Accepted
<1>13. OwedInv'
  <2> SUFFICES ASSUME NEW n \in Names, NEW i \in owed[n]
               PROVE  /\ Owing(ndb, n) /\ i \in Accepted(n)'
                      /\ i \notin ledger.done[n] =>
                            ~lifecycleRouteDelivered(n, i)' /\ (i \in Of("task")' => i > Pos(ndb, n))
    BY <1>2 DEF OwedInv
  <2>1. lifecycleRouteDelivered(n, i)' <=> lifecycleRouteDelivered(n, i)
    BY <1>2 DEF lifecycleRouteDelivered
  <2>2. CASE i \in ledger.owed[n]
    <3>1. i \in DOMAIN happened  BY <1>12, <2>2
    <3>2. /\ Owing(ndb, n) /\ i \in Accepted(n)
          /\ i \notin ledger.done[n] =>
                ~lifecycleRouteDelivered(n, i) /\ (i \in Of("task") => i > Pos(ndb, n))
      BY <2>2 DEF OwingInv, OwedInv
    <3> QED  BY <1>11, <2>1, <3>1, <3>2
  <2>3. CASE i = e /\ n \in to /\ Placed(n, k[2])
    <3>1. Owing(ndb, n)  BY <2>3 DEF Placed, Owing, Pos
    <3>2. i \in Accepted(n)'
      <4>1. k[2] \in Accepts[n]  BY <2>3
      <4> QED  BY <1>4, <2>3, <4>1 DEF Accepted
    <3>3. ~lifecycleRouteDelivered(n, i)
      <4>1. i \notin DOMAIN happened  BY <1>3, <2>3
      <4>2. n \in Tables /\ Legacy \in Tables  BY RouteNumbers
      <4>3. ndb.rows[n] \subseteq DOMAIN happened /\ ndb.rows[Legacy] \subseteq DOMAIN happened
        BY <4>2 DEF OwingInv, Behind, Within
      <4>4. \A t : <<t, i>> \notin stash
        <5> SUFFICES ASSUME NEW t, <<t, i>> \in stash PROVE FALSE  OBVIOUS
        <5>1. <<t, i>>[2] = i  OBVIOUS
        <5>2. \A p \in stash : p[2] \in DOMAIN happened  BY DEF OwingInv, Behind
        <5> QED  BY <4>1, <5>1, <5>2
      <4> QED  BY <4>1, <4>3, <4>4 DEF lifecycleRouteDelivered
    <3>4. i > Pos(ndb, n)
      <4>1. Pos(ndb, n) \in Int /\ Pos(ndb, n) <= Len(happened)
        BY <1>1, DatabaseParts DEF OwingInv, Behind, Within, Pos
      <4> QED  BY <1>3, <2>3, <4>1 DEF e
    <3> QED  BY <2>1, <3>1, <3>2, <3>3, <3>4
  <2> QED  BY <1>5, <2>2, <2>3
<1>14. PassInv'
  <2>0. tick.todo \subseteq Names /\ DOMAIN tick.wm \subseteq Names /\ tick.at \in Names \cup {Legacy}
        /\ \A n \in DOMAIN tick.wm : tick.wm[n] \in Int
    BY <1>1, TickParts
  <2>1. ASSUME NEW n \in Names, NEW i \in Due(n)', i \in DOMAIN happened
        PROVE  i \in Due(n)
    BY <1>2, <1>3, <1>5, <2>1 DEF Due
  <2>2. ASSUME NEW n \in Names, NEW i \in Due(n)', i \notin DOMAIN happened
        PROVE  i = e /\ Placed(n, k[2])
    BY <1>2, <1>5, <1>12, <2>2 DEF Due
  <2>3. ASSUME tick.pc = "task", NEW n \in tick.todo, NEW i \in Due(n)', i \in Of("task")'
        PROVE  i > tick.wm[n] /\ i \notin Typed(tick.muted)'
    <3>1. n \in Names /\ n \in DOMAIN tick.wm
      <4>1. TickShape  BY DEF RouteInv, RouteTypes
      <4> QED  BY <2>0, <2>3, <4>1 DEF TickShape
    <3>2. CASE i \in DOMAIN happened
      <4>1. i \in Due(n) \cap Of("task")  BY <1>11, <2>1, <2>3, <3>1, <3>2
      <4>2. i > tick.wm[n] /\ i \notin Typed(tick.muted)  BY <2>3, <4>1 DEF OwingInv, PassInv
      <4> QED  BY <1>11, <3>2, <4>2
    <3>3. CASE i \notin DOMAIN happened
      <4>1. i = e /\ Placed(n, k[2])  BY <2>2, <2>3, <3>1, <3>3
      <4>2. k[2] \notin tick.muted  BY <4>1 DEF Placed
      <4>3. i \notin Typed(tick.muted)'  BY <1>2, <1>4, <4>1, <4>2 DEF Typed
      <4>4. tick.wm[n] <= Len(happened) /\ tick.wm[n] \in Int  BY <2>0, <3>1 DEF OwingInv, Behind
      <4>5. i > tick.wm[n]  BY <1>3, <4>1, <4>4 DEF e
      <4> QED  BY <4>3, <4>5
    <3> QED  BY <3>2, <3>3
  <2>4. ASSUME tick.pc = "task", tick.at # Legacy, NEW i \in Due(tick.at)', i \in Of("task")'
        PROVE  i > tick.handled /\ (i \in tick.cand \/ \A j \in tick.cand : i > j)
    <3>0. tick.at \in Names /\ tick'.at = tick.at  BY <1>2, <2>0, <2>4
    <3>a. ASSUME NEW n \in Names, n = tick.at
          PROVE  i \in Due(n)'
      BY <1>2, <2>4, <3>a DEF Due
    <3>1. CASE i \in DOMAIN happened
      <4>1. i \in Due(tick.at) \cap Of("task")  BY <1>11, <2>1, <2>4, <3>0, <3>a, <3>1
      <4> QED  BY <2>4, <4>1 DEF OwingInv, PassInv
    <3>2. CASE i \notin DOMAIN happened
      <4>1. i = e  BY <2>2, <3>0, <3>a, <3>2
      <4>2. tick.handled <= Len(happened) /\ tick.cand \subseteq DOMAIN happened /\ tick.handled \in Int
        BY <1>1, TickParts DEF OwingInv, Behind
      <4> QED  BY <1>3, <4>1, <4>2 DEF e
    <3> QED  BY <3>1, <3>2
  <2> QED  BY <1>2, <2>3, <2>4 DEF PassInv
<1> QED  BY <1>6, <1>9, <1>10, <1>13, <1>14 DEF OwingInv

\* A step that leaves what is looked at alone.
LEMMA UnmovedOwing ==
    ASSUME OwingInv, UNCHANGED <<happened, ndb, stash, tick, ledger>> PROVE OwingInv'
<1>1. TickLinks'
  <2>1. singleRoute' <=> singleRoute  BY DEF singleRoute
  <2> QED  BY <2>1 DEF OwingInv, TickLinks
<1>2. Behind'  BY DEF OwingInv, Behind, Within
<1>3. Unseen'  BY DEF OwingInv, Unseen
<1>4. OwedInv'  BY StillOwed DEF OwingInv
<1>5. PassInv'  BY DEF OwingInv, PassInv, Due, Of, Typed
<1> QED  BY <1>1, <1>2, <1>3, <1>4, <1>5 DEF OwingInv

\* What happens around the notifier.
LEMMA SurroundingsOwing ==
    ASSUME OwingInv, Saves \/ \E n \in Names : Breaks(n) \/ Repairs(n) PROVE OwingInv'
<1>1. UNCHANGED <<happened, ndb, stash, tick, ledger>>  BY DEF Saves, Breaks, Repairs
<1> QED  BY <1>1, UnmovedOwing

\* A tick that starts, and a boot, bring the tables in line with the routes.
LEMMA AlignedOwing ==
    ASSUME RouteTypes, OwingInv, UNCHANGED happened, NEW d \in Databases, NEW routes \in SUBSET Names,
           InLine(d, ndb', routes),
           d.shared = ndb.shared, d.cursor = ndb.cursor, d.stamp = ndb.stamp, d.clawBase <=> ndb.clawBase,
           \A t \in Tables : \A j : j \in d.rows[t] => j \in ndb.rows[t] \/ <<t, j>> \in stash,
           stash' \subseteq stash, ledger'.done = ledger.done,
           \A n \in routes : ledger'.owed[n] \subseteq ledger.owed[n],
           \A n \in Names \ routes : ledger'.owed[n] = {},
           \A n \in Names \ ledger'.seen : ledger'.owed[n] = {},
           tick'.pc \in {"idle", "build"}, tick'.sent = 0, DOMAIN tick'.wm = {},
           tick'.handled = 0, tick'.floor = NoCursor, tick'.cand = {},
           tick'.pc = "build" => tick'.routes = ledger'.seen /\ tick'.built = {}
    PROVE  OwingInv'
<1>1. TickLinks'  BY DEF TickLinks
<1>2. Within(d)
  <2>1. \A p \in stash : p[2] \in DOMAIN happened  BY DEF OwingInv, Behind
  <2>2. \A t \in Tables : d.rows[t] \subseteq DOMAIN happened
    <3> SUFFICES ASSUME NEW t \in Tables, NEW j \in d.rows[t] PROVE j \in DOMAIN happened
      OBVIOUS
    <3>1. <<t, j>>[2] = j  OBVIOUS
    <3> QED  BY <2>1, <3>1 DEF OwingInv, Behind, Within
  <2> QED  BY <2>2 DEF OwingInv, Behind, Within
<1>3. Within(ndb)'
  <2>1. Within(ndb')  BY <1>2 DEF InLine
  <2> QED  BY <2>1 DEF Within
<1>4. Behind'
  <2>1. Len(happened) \in Nat  BY HeadWithin, TickParts
  <2> QED  BY <1>3, <2>1, RouteNumbers DEF OwingInv, Behind
<1>5. Unseen'  BY DEF Unseen
<1>6. PassInv'  BY NoPass
<1>7. OwedInv'
  <2> SUFFICES ASSUME NEW n \in Names, NEW i \in ledger'.owed[n]
               PROVE  /\ Owing(ndb', n) /\ i \in Accepted(n)'
                      /\ i \notin ledger'.done[n] =>
                            ~lifecycleRouteDelivered(n, i)' /\ (i \in Of("task")' => i > Pos(ndb', n))
    BY DEF OwedInv
  <2>1. n \in routes /\ i \in ledger.owed[n]  OBVIOUS
  <2>2. /\ Owing(ndb, n)
        /\ i \notin ledger.done[n] =>
              ~lifecycleRouteDelivered(n, i) /\ (i \in Of("task") => i > Pos(ndb, n))
    BY <2>1 DEF OwingInv, OwedInv
  <2>3. Owing(d, n) /\ Pos(d, n) = Pos(ndb, n)  BY <2>2 DEF Owing, Pos
  <2>4. /\ Owing(ndb', n) /\ Pos(ndb', n) = Pos(d, n)
        /\ ndb'.rows[n] = d.rows[n] /\ ndb'.rows[Legacy] = d.rows[Legacy]
    BY <2>1, <2>3 DEF InLine
  <2>5. i \notin ledger.done[n] => ~lifecycleRouteDelivered(n, i)'
    <3>1. n \in Tables /\ Legacy \in Tables  BY RouteNumbers
    <3> QED  BY <2>2, <2>4, <3>1 DEF lifecycleRouteDelivered
  <2> QED  BY <2>1, <2>2, <2>3, <2>4, <2>5, OwedFollows
<1> QED  BY <1>1, <1>4, <1>5, <1>6, <1>7 DEF OwingInv

\* A boot loses nothing that was due.
LEMMA RestartsOwing == ASSUME RouteInv, OwingInv, Restarts PROVE OwingInv'
<1> DEFINE unwritten == {p[2] : p \in stash} \cup ({tick.sent} \ {0})
           l == [ledger EXCEPT !.lost = @ \cup unwritten,
                               !.half = @ \/ (ndb.shared # NoCursor /\ ~ndb.clawBase)]
<1>1. /\ RouteTypes /\ ndb \in Databases /\ ledger \in Ledgers /\ HappenedTypes /\ stash \subseteq Tables \X Ids
      /\ nconf.routes \in SUBSET Names /\ tick \in Ticks
  BY DEF RouteInv, RouteTypes, Configs
<1>2. /\ tick' = NoTick /\ stash' = {} /\ UNCHANGED happened
      /\ IF nconf.on THEN ndb' = BootState(ndb, nconf.routes) /\ ledger' = SeenBy(l, nconf.routes)
         ELSE ledger' = l /\ UNCHANGED ndb
  BY DEF Restarts
<1>3. /\ l \in Ledgers /\ l.seen = ledger.seen /\ l.done = ledger.done /\ l.owed = ledger.owed
  <2>1. ledger.lost \cup unwritten \in SUBSET Ids
    <3>1. \A p \in stash : p[2] \in Ids  BY <1>1
    <3>2. {tick.sent} \ {0} \subseteq Ids  BY <1>1, RouteNumbers DEF Ticks
    <3> QED  BY <1>1, <3>1, <3>2 DEF Ledgers
  <2>2. (ledger.half \/ (ndb.shared # NoCursor /\ ~ndb.clawBase)) \in BOOLEAN  OBVIOUS
  <2> QED  BY <1>1, <2>1, <2>2 DEF Ledgers
<1> HIDE DEF l
<1>4. /\ tick'.pc = "idle" /\ tick'.sent = 0 /\ DOMAIN tick'.wm = {}
      /\ tick'.handled = 0 /\ tick'.floor = NoCursor /\ tick'.cand = {}
  BY <1>2 DEF NoTick
<1>5. CASE nconf.on
  <2>1. /\ ledger'.seen = nconf.routes /\ ledger'.done = ledger.done
        /\ \A n \in nconf.routes : ledger'.owed[n] = ledger.owed[n]
        /\ \A n \in Names \ nconf.routes : ledger'.owed[n] = {}
    BY <1>1, <1>2, <1>3, <1>5, SeenParts
  <2>2. InLine(ndb, ndb', nconf.routes)  BY <1>1, <1>2, <1>5, BootInLine
  <2> QED  BY <1>1, <1>2, <1>4, <2>1, <2>2, AlignedOwing
<1>6. CASE ~nconf.on
  <2>1. ledger'.seen = ledger.seen /\ ledger'.done = ledger.done /\ ledger'.owed = ledger.owed
    BY <1>2, <1>3, <1>6
  <2>2. \A n \in Names \ ledger'.seen : ledger'.owed[n] = {}  BY <2>1 DEF OwingInv, Unseen
  <2>3. InLine(ndb, ndb', Names)  BY <1>2, <1>6, InLineOnce
  <2>4. Names \in SUBSET Names /\ Names \ Names = {}  OBVIOUS
  <2> QED  BY <1>1, <1>2, <1>4, <2>1, <2>2, <2>3, <2>4, AlignedOwing
<1> QED  BY <1>5, <1>6

\* Nor does the start of a tick.
LEMMA StartsOwing ==
    ASSUME RouteInv, OwingInv, NEW ok \in BOOLEAN, NEW readable \in BOOLEAN, TickStarts(ok, readable)
    PROVE  OwingInv'
<1> DEFINE routes == nconf.routes
           rows == [t \in DOMAIN ndb.rows |-> ndb.rows[t] \cup {p[2] : p \in {q \in stash : q[1] = t}}]
           d == IF ok THEN [ndb EXCEPT !.rows = rows] ELSE ndb
           d1 == pruneLifecycleRouteState(d, routes)
           d2 == IF readable THEN ensureLifecycleRouteWatermarks(d1, routes) ELSE d1
           l == [ledger EXCEPT !.half = @ \/ (~readable /\ Cardinality(routes) = 1)]
           begun == [NoTick EXCEPT !.pc = "build", !.routes = routes, !.muted = nconf.muted]
<1>1. /\ RouteTypes /\ ndb \in Databases /\ ledger \in Ledgers /\ HappenedTypes /\ stash \subseteq Tables \X Ids
      /\ routes \in SUBSET Names /\ nconf.muted \in SUBSET Types
  BY DEF RouteInv, RouteTypes, Configs
<1>2. /\ tick = NoTick /\ UNCHANGED happened /\ stash' \in {stash, {}}
      /\ IF nconf.on
         THEN /\ ndb' = ensureLifecycleClawRouteBaselines(d2, routes)
              /\ ledger' = SeenBy(l, routes) /\ tick' = begun
         ELSE /\ ndb' = parkLifecycleClawState(parkLifecycleWatermark(d))
              /\ ledger' = Without(ledger, Ids) /\ UNCHANGED tick
  BY DEF TickStarts
<1>3. /\ d \in Databases
      /\ d.shared = ndb.shared /\ d.cursor = ndb.cursor /\ d.stamp = ndb.stamp /\ (d.clawBase <=> ndb.clawBase)
      /\ \A t \in Tables : \A j : j \in d.rows[t] => j \in ndb.rows[t] \/ <<t, j>> \in stash
  <2>1. /\ rows \in [Tables -> SUBSET Ids]
        /\ \A t \in Tables : \A j : j \in rows[t] => j \in ndb.rows[t] \/ <<t, j>> \in stash
    <3>1. ndb.rows \in [Tables -> SUBSET Ids]  BY <1>1 DEF Databases
    <3>2. \A t \in Tables : {p[2] : p \in {q \in stash : q[1] = t}} \subseteq Ids  BY <1>1
    <3>3. \A t : \A j : j \in {p[2] : p \in {q \in stash : q[1] = t}} => <<t, j>> \in stash
      <4> SUFFICES ASSUME NEW t, NEW q \in stash, q[1] = t PROVE <<t, q[2]>> \in stash
        OBVIOUS
      <4>1. q = <<q[1], q[2]>>  BY <1>1
      <4> QED  BY <4>1
    <3> QED  BY <3>1, <3>2, <3>3
  <2> HIDE DEF rows
  <2>2. CASE ok
    <3>1. d = [ndb EXCEPT !.rows = rows]  BY <2>2
    <3> HIDE DEF d
    <3>2. d \in Databases /\ d.rows = rows  BY <1>1, <2>1, <3>1 DEF Databases
    <3>3. d.shared = ndb.shared /\ d.cursor = ndb.cursor /\ d.stamp = ndb.stamp /\ d.clawBase = ndb.clawBase
      BY <1>1, <3>1 DEF Databases
    <3> QED  BY <2>1, <3>2, <3>3
  <2>3. CASE ~ok  BY <1>1, <2>3
  <2> QED  BY <2>2, <2>3
<1> HIDE DEF d, routes
<1>4. stash' \subseteq stash  BY <1>2
<1>5. CASE nconf.on
  <2>1. l \in Ledgers /\ l.seen = ledger.seen /\ l.done = ledger.done /\ l.owed = ledger.owed
    <3>1. (ledger.half \/ (~readable /\ Cardinality(routes) = 1)) \in BOOLEAN  OBVIOUS
    <3> QED  BY <1>1, <3>1 DEF Ledgers
  <2> HIDE DEF l
  <2>2. /\ ledger'.seen = routes /\ ledger'.done = ledger.done
        /\ \A n \in routes : ledger'.owed[n] = ledger.owed[n]
        /\ \A n \in Names \ routes : ledger'.owed[n] = {}
    BY <1>1, <1>2, <1>5, <2>1, SeenParts
  <2>3. d1 \in Databases /\ InLine(d, d1, routes)  BY <1>1, <1>3, PruneGrows, PruneInLine DEF Grown
  <2> HIDE DEF d1
  <2>4. d2 \in Databases /\ InLine(d, d2, routes)
    BY <1>1, <2>3, WatermarksGrow, WatermarksInLine, InLineTwice DEF Grown
  <2> HIDE DEF d2
  <2>5. InLine(d, ndb', routes)  BY <1>1, <1>2, <1>5, <2>4, BaselinesInLine, InLineTwice
  <2>6. /\ tick'.pc = "build" /\ tick'.sent = 0 /\ DOMAIN tick'.wm = {}
        /\ tick'.handled = 0 /\ tick'.floor = NoCursor /\ tick'.cand = {}
        /\ tick'.routes = routes /\ tick'.built = {}
    <3>1. tick' = begun  BY <1>2, <1>5
    <3>2. /\ NoTick.sent = 0 /\ DOMAIN NoTick.wm = {} /\ NoTick.handled = 0
          /\ NoTick.floor = NoCursor /\ NoTick.cand = {} /\ NoTick.built = {}
      BY DEF NoTick
    <3>3. NoTick \in Ticks  BY NoTickTyped
    <3> QED  BY <3>1, <3>2, <3>3 DEF Ticks
  <2> QED  BY <1>1, <1>2, <1>3, <1>4, <2>2, <2>5, <2>6, AlignedOwing
<1>6. CASE ~nconf.on
  <2> DEFINE p == parkLifecycleWatermark(d)
  <2>1. /\ ledger'.seen = ledger.seen /\ ledger'.done = ledger.done
        /\ \A n \in Names : ledger'.owed[n] = {}
    <3>1. /\ ledger'.seen = ledger.seen /\ ledger'.done = ledger.done
          /\ \A n \in Names : ledger'.owed[n] = ledger.owed[n] \ Ids
      BY <1>1, <1>2, <1>6, WithoutParts
    <3> QED  BY <1>1, <3>1, TickParts
  <2>2. /\ p \in Databases /\ p.rows = d.rows /\ p.shared \in {d.shared, lifecycleMaxEventRowID}
        /\ \A n \in Names : p.cursor[n] \in {d.cursor[n], lifecycleMaxEventRowID}
    BY <1>1, <1>3, ParkParts
  <2> HIDE DEF p
  <2>3. /\ ndb'.shared = p.shared /\ ndb'.cursor = p.cursor
        /\ \A t \in Tables : \A j : j \in ndb'.rows[t] => j \in p.rows[t] \/ j \in Of("claw")
    <3>1. CASE p.clawBase
      <4>1. ndb' = SkipForAll(p, Of("claw"))  BY <1>2, <1>6, <3>1 DEF parkLifecycleClawState, p
      <4>2. Of("claw") \in SUBSET Ids  BY <1>1, EntryIds
      <4> QED  BY <2>2, <4>1, <4>2, SkipParts
    <3>2. CASE ~p.clawBase
      <4>1. ndb' = p  BY <1>2, <1>6, <3>2 DEF parkLifecycleClawState, p
      <4> QED  BY <4>1
    <3> QED  BY <3>1, <3>2
  <2>4. InLine(d, ndb', {})
    <3>1. Within(d) => Within(ndb')
      <4>1. lifecycleMaxEventRowID <= Len(happened) /\ Of("claw") \subseteq DOMAIN happened
        BY <1>1, HeadWithin
      <4> QED  BY <2>2, <2>3, <4>1 DEF Within
    <3> QED  BY <3>1 DEF InLine
  <2>5. /\ tick'.pc = "idle" /\ tick'.sent = 0 /\ DOMAIN tick'.wm = {}
        /\ tick'.handled = 0 /\ tick'.floor = NoCursor /\ tick'.cand = {}
    BY <1>2, <1>6 DEF NoTick
  <2>6. {} \in SUBSET Names  OBVIOUS
  <2> QED  BY <1>1, <1>2, <1>3, <1>4, <2>1, <2>4, <2>5, <2>6, AlignedOwing
<1> QED  BY <1>5, <1>6

--------------------------------------------------------------------------------
\* At the start nothing is owed, and the tables are those of a hub that has just
\* been booted.
LEMMA InitOwing == RoutesInit => OwingInv
<1> SUFFICES ASSUME RoutesInit PROVE OwingInv  OBVIOUS
<1>1. happened = <<>> /\ stash = {} /\ tick = NoTick /\ RouteInv
  BY InitRoutes DEF RoutesInit
<1>2. RouteTypes /\ HappenedTypes /\ nconf.routes \in SUBSET Names /\ Len(happened) = 0
  BY <1>1 DEF RouteInv, RouteTypes, Configs
<1>3. \A n \in Names : ledger.owed[n] = {}
  <2>1. CASE ledger = NoLedger  BY <2>1 DEF NoLedger
  <2>2. CASE ledger = SeenBy(NoLedger, nconf.routes)  BY <2>2 DEF NoLedger, SeenBy
  <2> QED  BY <2>1, <2>2 DEF RoutesInit
<1>4. FreshState \in Databases /\ LegacyState \in Databases /\ Within(FreshState) /\ Within(LegacyState)
  <2>1. FreshState \in Databases
    <3>1. [n \in Names |-> NoCursor] \in [Names -> Positions]  BY RouteNumbers
    <3>2. [t \in Names \cup {Legacy} |-> {}] \in [Tables -> SUBSET Ids]  BY DEF Tables
    <3>3. [t \in Names \cup {Legacy} |-> [i \in Ids |-> 0]] \in [Tables -> [Ids -> 0 .. MaxTransient - 1]]
      <4>1. [i \in Ids |-> 0] \in [Ids -> 0 .. MaxTransient - 1]  BY RouteNumbers
      <4> QED  BY <4>1 DEF Tables
    <3> QED  BY <3>1, <3>2, <3>3, RouteNumbers DEF FreshState, Databases
  <2>2. LegacyState = [FreshState EXCEPT !.shared = 0, !.clawBase = TRUE]  BY DEF LegacyState
  <2>3. LegacyState \in Databases
    <3>1. 0 \in Positions  BY RouteNumbers
    <3> QED  BY <2>1, <2>2, <3>1 DEF Databases
  <2>4. /\ FreshState.shared = NoCursor /\ \A n \in Names : FreshState.cursor[n] = NoCursor
        /\ \A t \in Tables : FreshState.rows[t] = {}
    BY DEF FreshState, Tables
  <2>5. LegacyState.shared = 0 /\ LegacyState.cursor = FreshState.cursor /\ LegacyState.rows = FreshState.rows
    BY <2>1, <2>2 DEF Databases
  <2>6. NoCursor <= 0  BY RouteNumbers
  <2> QED  BY <1>2, <2>1, <2>3, <2>4, <2>5, <2>6 DEF Within
<1>5. Within(ndb)
  <2>1. CASE ndb = BootState(LegacyState, nconf.routes)
    BY <1>2, <1>4, <2>1, BootInLine DEF InLine
  <2> QED  BY <1>4, <2>1 DEF RoutesInit
<1>6. /\ tick.pc = "idle" /\ tick.sent = 0 /\ DOMAIN tick.wm = {}
      /\ tick.handled = 0 /\ tick.floor = NoCursor /\ tick.cand = {}
  BY <1>1 DEF NoTick
<1>7. TickLinks  BY <1>6 DEF TickLinks
<1>8. Behind  BY <1>1, <1>2, <1>5, <1>6, RouteNumbers DEF Behind
<1>9. Unseen /\ OwedInv  BY <1>3 DEF Unseen, OwedInv
<1>10. PassInv  BY <1>6 DEF PassInv
<1> QED  BY <1>7, <1>8, <1>9, <1>10 DEF OwingInv

\* Every step keeps it.
LEMMA NextOwing == ASSUME RouteInv, OwingInv, [RoutesNext]_routeVars PROVE OwingInv'
<1>1. CASE TickSteps
  <2>1. CASE TickBuilds  BY <2>1, BuildsOwing
  <2>2. CASE PassesOver  BY <2>2, PassesOverOwing
  <2>3. CASE Sends  BY <2>3, SendsOwing
  <2>4. CASE Records(TRUE)  BY <2>4, RecordsOwing
  <2>5. CASE FailsTransiently  BY <2>5, FailsTransientlyOwing
  <2>6. CASE TaskRouteEnds(TRUE)  BY <2>6, TaskRouteEndsOwing
  <2>7. CASE TaskPassEnds  BY <2>7, TaskPassEndsOwing
  <2>8. CASE ClawRouteEnds  BY <2>8, ClawRouteEndsOwing
  <2>9. CASE \E n \in Names : TaskRouteStarts(n) \/ ClawRouteStarts(n)
    BY <2>9, TaskRouteStartsOwing, ClawRouteStartsOwing
  <2> QED  BY <1>1, <2>1, <2>2, <2>3, <2>4, <2>5, <2>6, <2>7, <2>8, <2>9 DEF TickSteps
<1>2. CASE \E ok, readable \in BOOLEAN : TickStarts(ok, readable)
  BY <1>2, StartsOwing
<1>3. CASE Records(FALSE)  BY <1>3, RecordsOwing
<1>4. CASE TaskRouteEnds(FALSE)  BY <1>4, TaskRouteEndsOwing
<1>5. CASE FailsConfig  BY <1>5, FailsConfigOwing
<1>6. CASE FailsPermanently  BY <1>6, FailsPermanentlyOwing
<1>7. CASE Restarts  BY <1>7, RestartsOwing
<1>8. CASE Saves \/ \E n \in Names : Breaks(n) \/ Repairs(n)  BY <1>8, SurroundingsOwing
<1>9. CASE \E k \in Kinds : Happens(k[1], k[2])  BY <1>9, HappensOwing
<1>10. CASE UNCHANGED routeVars  BY <1>10, UnmovedOwing DEF routeVars
<1> QED  BY <1>1, <1>2, <1>3, <1>4, <1>5, <1>6, <1>7, <1>8, <1>9, <1>10 DEF RoutesNext

\* The invariant holds of every behaviour.
LEMMA OwingHold == RoutesSpec => []OwingInv
<1>1. RoutesInit => OwingInv  BY InitOwing
<1>2. RouteInv /\ OwingInv /\ [RoutesNext]_routeVars => OwingInv'  BY NextOwing
<1> QED  BY <1>1, <1>2, RoutesHold, PTL DEF RoutesSpec

\* A route never misses what is owed to it, whatever routes are added, removed or
\* broken beside it, whenever the hub restarts: no cursor has passed it and no row
\* fences it off before it was sent to the route, or given up for it.
THEOREM NothingIsMissed == RoutesSpec => []NothingMissed
<1>1. OwingInv => NothingMissed
  <2> SUFFICES ASSUME OwingInv, NEW n \in Names, NEW i \in ledger.owed[n] \ ledger.done[n]
               PROVE  /\ ~lifecycleRouteDelivered(n, i)
                      /\ happened[i].src = "task" =>
                            i > IF ndb.cursor[n] # NoCursor THEN ndb.cursor[n] ELSE ndb.shared
    BY DEF NothingMissed
  <2>1. i \in Accepted(n) /\ ~lifecycleRouteDelivered(n, i) /\ (i \in Of("task") => i > Pos(ndb, n))
    BY DEF OwingInv, OwedInv
  <2>2. happened[i].src = "task" => i \in Of("task")  BY <2>1 DEF Accepted, Of
  <2> QED  BY <2>1, <2>2 DEF Pos
<1> QED  BY <1>1, OwingHold, PTL
================================================================================
