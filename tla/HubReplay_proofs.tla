--------------------------- MODULE HubReplay_proofs ---------------------------
(***************************************************************************)
(* NoReplay and NotifiedOnce of LifecycleRoutes, for any notifiers, types  *)
(* and bounds.  ReplayInv: behind the position of a route there is nothing *)
(* of its types but what it may be told and what has a row.  StreakInv:    *)
(* the failures of an entry are counted under one key, whatever shape the  *)
(* configuration had when they occurred.                                   *)
(***************************************************************************)
EXTENDS HubRoutes_proofs

--------------------------------------------------------------------------------
(***************************************************************************)
(* NoReplay.  A route knows of an entry that it may be told, or for which  *)
(* there is a row; a position covers a route that knows all the events of  *)
(* its types behind the position.                                          *)
(***************************************************************************)
Known(m, d, n) == m[n] \cup d.rows[n] \cup d.rows[Legacy]
Covers(m, d, p, n) == \A i \in Of("task") \cap Accepted(n) : i > p => i \in Known(m, d, n)
KnowsClaws(m, d, n) == \A i \in Of("claw") \cap Accepted(n) : i \in Known(m, d, n)

Placing(m, d) ==
    \A n \in Names :
        /\ d.cursor[n] # NoCursor => Covers(m, d, d.cursor[n], n)
        /\ n \in d.stamp /\ d.cursor[n] = NoCursor /\ d.shared # NoCursor => Covers(m, d, d.shared, n)
        /\ n \in d.stamp => KnowsClaws(m, d, n)

\* The claw baseline is on record as somebody's, or the scheme is live.
Stamped(d) == d.clawBase => d.stamp # {} \/ d.latch
Based(d) == d.shared # NoCursor => d.clawBase
Pruned(d, routes) == \A n \in Names \ routes : d.cursor[n] = NoCursor /\ n \notin d.stamp

\* What a route knows it goes on knowing.
LEMMA CoversMore ==
    ASSUME NEW m, NEW d, NEW e, NEW p, NEW q, NEW n, Covers(m, d, p, n), HappenedTypes,
           p \in Int, q \in Int, q >= p, \A i : i \in Known(m, d, n) => i \in Known(m, e, n)
    PROVE  Covers(m, e, q, n)
<1>1. \A i \in Of("task") : i \in Int  BY EntryIds, RouteNumbers
<1> QED  BY <1>1 DEF Covers

\* Nothing has happened behind the head.
LEMMA HeadCovers ==
    ASSUME HappenedTypes, NEW m, NEW d, NEW n, NEW p \in Int, p >= lifecycleMaxEventRowID
    PROVE  Covers(m, d, p, n)
<1>1. \A i \in Of("task") : i \in Int /\ i <= lifecycleMaxEventRowID  BY EntryIds, RouteNumbers
<1>2. lifecycleMaxEventRowID \in Int  BY HeadWithin
<1> QED  BY <1>1, <1>2 DEF Covers

\* What the parts of the tables are once they were pruned.
LEMMA PruneParts ==
    ASSUME NEW d \in Databases, NEW routes \in SUBSET Names, NEW e, e = pruneLifecycleRouteState(d, routes)
    PROVE  /\ e \in Databases
           /\ e.shared = d.shared /\ (e.clawBase <=> d.clawBase) /\ e.rows = d.rows
           /\ \A n \in routes : e.cursor[n] = d.cursor[n] /\ (n \in e.stamp <=> n \in d.stamp)
           /\ Pruned(e, routes)
           /\ e.latch <=> d.latch \/ (\E n \in Names \ routes : n \in d.stamp)
                                  \/ \E n \in Names : d.cursor[n] # NoCursor
<1> DEFINE gone == {n \in Names \ routes : d.cursor[n] # NoCursor \/ n \in d.stamp}
           cursor == [n \in Names |-> IF n \in gone THEN NoCursor ELSE d.cursor[n]]
           latch == d.latch \/ gone # {} \/ \E n \in Names : d.cursor[n] # NoCursor
           streak == [t \in DOMAIN d.streak |-> IF t \in gone THEN [i \in Ids |-> 0] ELSE d.streak[t]]
<1>1. e = [d EXCEPT !.latch = latch, !.cursor = cursor, !.stamp = d.stamp \ gone, !.streak = streak]
  BY DEF pruneLifecycleRouteState
<1>2. \A n \in routes : cursor[n] = d.cursor[n]  OBVIOUS
<1>3. \A n \in Names \ routes : cursor[n] = NoCursor /\ n \notin d.stamp \ gone  OBVIOUS
<1>4. \A n \in routes : n \in d.stamp => n \in d.stamp \ gone  OBVIOUS
<1>5. latch <=> d.latch \/ (\E n \in Names \ routes : n \in d.stamp)
                        \/ \E n \in Names : d.cursor[n] # NoCursor
  OBVIOUS
<1> HIDE DEF cursor, latch, streak, gone
<1>6. /\ e.shared = d.shared /\ e.cursor = cursor /\ e.stamp = d.stamp \ gone /\ (e.clawBase <=> d.clawBase)
      /\ e.rows = d.rows
  BY <1>1 DEF Databases
<1>7. e.latch <=> latch  BY <1>1 DEF Databases
<1>8. e \in Databases  BY PruneGrows DEF Grown
<1> QED  BY <1>2, <1>3, <1>4, <1>5, <1>6, <1>7, <1>8 DEF Pruned

\* Forgetting the routes that are no longer configured moves no place.
LEMMA PrunePlacing ==
    ASSUME HappenedTypes, NEW m, NEW d \in Databases, NEW routes \in SUBSET Names, Placing(m, d), Stamped(d),
           d.stamp # {} => d.clawBase, NEW e, e = pruneLifecycleRouteState(d, routes)
    PROVE  /\ e \in Databases /\ Placing(m, e) /\ Stamped(e) /\ Pruned(e, routes)
           /\ e.stamp # {} => e.clawBase
           /\ Based(d) => Based(e)
<1>1. /\ e \in Databases
      /\ e.shared = d.shared /\ (e.clawBase <=> d.clawBase) /\ e.rows = d.rows
      /\ \A n \in routes : e.cursor[n] = d.cursor[n] /\ (n \in e.stamp <=> n \in d.stamp)
      /\ Pruned(e, routes)
      /\ e.latch <=> d.latch \/ (\E n \in Names \ routes : n \in d.stamp)
                             \/ \E n \in Names : d.cursor[n] # NoCursor
  BY PruneParts
<1>2. e.stamp \subseteq Names /\ d.stamp \subseteq Names  BY <1>1, DatabaseParts
<1>3. e.stamp \subseteq d.stamp  BY <1>1, <1>2 DEF Pruned
<1>4. Stamped(e)
  <2>1. SUFFICES ASSUME e.clawBase, e.stamp = {} PROVE e.latch  BY DEF Stamped
  <2>2. d.stamp # {} \/ d.latch  BY <1>1, <2>1 DEF Stamped
  <2>3. CASE d.stamp # {}
    <3>1. PICK n : n \in d.stamp  BY <2>3
    <3>2. n \in Names \ routes  BY <1>1, <1>2, <2>1, <3>1
    <3> QED  BY <1>1, <3>1, <3>2
  <2> QED  BY <1>1, <2>2, <2>3
<1>5. Placing(m, e)
  <2>1. ASSUME NEW n, NEW p PROVE Covers(m, e, p, n) <=> Covers(m, d, p, n)
    BY <1>1 DEF Covers, Known
  <2>2. ASSUME NEW n PROVE KnowsClaws(m, e, n) <=> KnowsClaws(m, d, n)
    BY <1>1 DEF KnowsClaws, Known
  <2>3. ASSUME NEW n \in Names
        PROVE  /\ e.cursor[n] # NoCursor => Covers(m, e, e.cursor[n], n)
               /\ n \in e.stamp /\ e.cursor[n] = NoCursor /\ e.shared # NoCursor => Covers(m, e, e.shared, n)
               /\ n \in e.stamp => KnowsClaws(m, e, n)
    <3>1. CASE n \in routes  BY <1>1, <2>1, <2>2, <3>1 DEF Placing
    <3>2. CASE n \notin routes  BY <1>1, <3>2 DEF Pruned
    <3> QED  BY <3>1, <3>2
  <2> QED  BY <2>3 DEF Placing
<1>6. e.stamp # {} => e.clawBase  BY <1>1, <1>3
<1>7. Based(d) => Based(e)  BY <1>1 DEF Based
<1> QED  BY <1>1, <1>4, <1>5, <1>6, <1>7

Lone(d, routes) ==
    \A n : routes = {n} /\ lifecycleRoutingSchemeLive(d) => n \in d.stamp \/ d.cursor[n] # NoCursor

\* What the tables are once every route has its cursor.
LEMMA WatermarkParts ==
    ASSUME HappenedTypes, NEW d \in Databases, NEW routes \in SUBSET Names,
           lifecycleRoutesNeedOwnState(d, routes), NEW e, e = ensureLifecycleRouteWatermarks(d, routes)
    PROVE  /\ e \in Databases /\ e.stamp = d.stamp /\ (e.clawBase <=> d.clawBase) /\ e.rows = d.rows /\ e.latch
           /\ e.shared # NoCursor /\ (d.shared # NoCursor => e.shared = d.shared)
           /\ \A n \in Names \ routes : e.cursor[n] = d.cursor[n]
           /\ \A n \in routes : /\ e.cursor[n] # NoCursor
                                /\ d.cursor[n] # NoCursor => e.cursor[n] = d.cursor[n]
                                /\ d.cursor[n] = NoCursor => e.cursor[n] = StartOf(d, routes, n)
<1> DEFINE head == lifecycleMaxEventRowID
           shared == IF d.shared = NoCursor THEN head ELSE d.shared
           cursor == [n \in Names |-> IF n \in routes /\ d.cursor[n] = NoCursor
                                      THEN StartOf(d, routes, n) ELSE d.cursor[n]]
<1>1. e = [d EXCEPT !.shared = shared, !.cursor = cursor, !.latch = TRUE]
  BY DEF ensureLifecycleRouteWatermarks
<1>2. head \in Nat /\ head # NoCursor /\ NoCursor = -1  BY HeadWithin, RouteNumbers
<1>3. \A n : StartOf(d, routes, n) # NoCursor  BY <1>2 DEF StartOf
<1>4. shared # NoCursor /\ (d.shared # NoCursor => shared = d.shared)  BY <1>2
<1>5. /\ \A n \in Names \ routes : cursor[n] = d.cursor[n]
      /\ \A n \in routes : /\ cursor[n] # NoCursor
                           /\ d.cursor[n] # NoCursor => cursor[n] = d.cursor[n]
                           /\ d.cursor[n] = NoCursor => cursor[n] = StartOf(d, routes, n)
  BY <1>3
<1> HIDE DEF shared, cursor, head
<1>6. e \in Databases  BY WatermarksGrow DEF Grown
<1>7. e.stamp = d.stamp /\ e.clawBase = d.clawBase /\ e.rows = d.rows /\ e.shared = shared /\ e.cursor = cursor
  BY <1>1 DEF Databases
<1>8. e.latch  BY <1>1 DEF Databases
<1> QED  BY <1>4, <1>5, <1>6, <1>7, <1>8

\* The start of a new route is the head; a route that inherits the shared cursor
\* is the incumbent, and knows what is behind it.
LEMMA StartCovers ==
    ASSUME HappenedTypes, NEW m, NEW d \in Databases, NEW routes \in SUBSET Names,
           Placing(m, d), Stamped(d), Based(d), Pruned(d, routes), NEW n \in routes, d.cursor[n] = NoCursor
    PROVE  Covers(m, d, StartOf(d, routes, n), n)
<1>1. lifecycleMaxEventRowID \in Int  BY HeadWithin
<1>2. CASE StartOf(d, routes, n) = lifecycleMaxEventRowID
  BY <1>1, <1>2, HeadCovers
<1>3. CASE StartOf(d, routes, n) # lifecycleMaxEventRowID
  <2>1. /\ StartOf(d, routes, n) = d.shared /\ d.shared # NoCursor
        /\ n \in d.stamp \/ (~lifecycleRoutingSchemeLive(d) /\ routes \cap d.stamp = {})
    BY <1>3 DEF StartOf
  <2>2. n \in d.stamp
    <3>1. SUFFICES ASSUME ~lifecycleRoutingSchemeLive(d), routes \cap d.stamp = {} PROVE FALSE
      BY <2>1
    <3>2. d.clawBase  BY <2>1 DEF Based
    <3>3. ~d.latch  BY <3>1 DEF lifecycleRoutingSchemeLive
    <3>4. d.stamp # {}  BY <3>2, <3>3 DEF Stamped
    <3>5. d.stamp \subseteq Names  BY DatabaseParts
    <3> QED  BY <3>1, <3>4, <3>5 DEF Pruned
  <2> QED  BY <2>1, <2>2 DEF Placing
<1> QED  BY <1>2, <1>3

\* Every route gets a cursor that covers it.
LEMMA WatermarksPlacing ==
    ASSUME HappenedTypes, NEW m, NEW d \in Databases, NEW routes \in SUBSET Names,
           Placing(m, d), Stamped(d), Based(d), Pruned(d, routes), d.stamp # {} => d.clawBase,
           NEW e, e = ensureLifecycleRouteWatermarks(d, routes)
    PROVE  /\ e \in Databases /\ Placing(m, e) /\ Stamped(e) /\ Pruned(e, routes)
           /\ e.stamp # {} => e.clawBase
           /\ Based(e) \/ (lifecycleRoutesNeedOwnState(e, routes) /\ \A n \in routes : e.cursor[n] # NoCursor)
           /\ Lone(e, routes)
<1>1. CASE ~lifecycleRoutesNeedOwnState(d, routes)
  <2>1. e = d  BY <1>1 DEF ensureLifecycleRouteWatermarks
  <2>2. \A n : routes = {n} /\ lifecycleRoutingSchemeLive(d) => n \in d.stamp
    BY <1>1 DEF lifecycleRoutesNeedOwnState, lifecycleSingleViaIncumbent
  <2> QED  BY <2>1, <2>2 DEF Lone
<1>2. CASE lifecycleRoutesNeedOwnState(d, routes)
  <2>1. /\ e \in Databases /\ e.stamp = d.stamp /\ (e.clawBase <=> d.clawBase) /\ e.rows = d.rows /\ e.latch
        /\ e.shared # NoCursor /\ (d.shared # NoCursor => e.shared = d.shared)
        /\ \A n \in Names \ routes : e.cursor[n] = d.cursor[n]
        /\ \A n \in routes : /\ e.cursor[n] # NoCursor
                             /\ d.cursor[n] # NoCursor => e.cursor[n] = d.cursor[n]
                             /\ d.cursor[n] = NoCursor => e.cursor[n] = StartOf(d, routes, n)
    BY <1>2, WatermarkParts
  <2>2. Stamped(e)  BY <2>1 DEF Stamped
  <2>3. Pruned(e, routes)  BY <2>1 DEF Pruned
  <2>4. Placing(m, e)
    <3>1. ASSUME NEW n, NEW p PROVE Covers(m, e, p, n) <=> Covers(m, d, p, n)
      BY <2>1 DEF Covers, Known
    <3>2. ASSUME NEW n PROVE KnowsClaws(m, e, n) <=> KnowsClaws(m, d, n)
      BY <2>1 DEF KnowsClaws, Known
    <3>3. ASSUME NEW n \in Names
          PROVE  /\ e.cursor[n] # NoCursor => Covers(m, e, e.cursor[n], n)
                 /\ n \in e.stamp /\ e.cursor[n] = NoCursor /\ e.shared # NoCursor => Covers(m, e, e.shared, n)
                 /\ n \in e.stamp => KnowsClaws(m, e, n)
      <4>1. CASE n \notin routes  BY <2>3, <4>1 DEF Pruned
      <4>2. CASE n \in routes /\ d.cursor[n] # NoCursor
        BY <2>1, <3>1, <3>2, <4>2 DEF Placing
      <4>3. CASE n \in routes /\ d.cursor[n] = NoCursor
        <5>1. Covers(m, d, StartOf(d, routes, n), n)  BY <4>3, StartCovers
        <5> QED  BY <2>1, <3>1, <3>2, <4>3, <5>1 DEF Placing
      <4> QED  BY <4>1, <4>2, <4>3
    <3> QED  BY <3>3 DEF Placing
  <2>5. lifecycleRoutesNeedOwnState(e, routes)
    BY <1>2, <2>1 DEF lifecycleRoutesNeedOwnState, lifecycleSingleViaIncumbent, lifecycleRoutingSchemeLive
  <2>6. Lone(e, routes)  BY <2>1 DEF Lone
  <2> QED  BY <2>1, <2>2, <2>3, <2>4, <2>5, <2>6
<1> QED  BY <1>1, <1>2

\* Rows and stamps that are added.
LEMMA StampsPlacing ==
    ASSUME NEW m, NEW d \in Databases, NEW e, Placing(m, d), e.shared = d.shared, e.cursor = d.cursor,
           \A t \in Tables : d.rows[t] \subseteq e.rows[t],
           \A n \in Names : n \in e.stamp /\ n \notin d.stamp =>
              KnowsClaws(m, e, n) /\ (e.cursor[n] # NoCursor \/ e.shared = NoCursor \/ Covers(m, d, d.shared, n))
    PROVE  Placing(m, e)
<1>1. ASSUME NEW n \in Names PROVE Known(m, d, n) \subseteq Known(m, e, n)
  <2>1. n \in Tables /\ Legacy \in Tables  BY RouteNumbers
  <2> QED  BY <2>1 DEF Known
<1>2. ASSUME NEW n \in Names, NEW p, Covers(m, d, p, n) PROVE Covers(m, e, p, n)
  BY <1>1, <1>2 DEF Covers
<1>3. ASSUME NEW n \in Names, KnowsClaws(m, d, n) PROVE KnowsClaws(m, e, n)
  BY <1>1, <1>3 DEF KnowsClaws
<1>4. ASSUME NEW n \in Names
      PROVE  /\ e.cursor[n] # NoCursor => Covers(m, e, e.cursor[n], n)
             /\ n \in e.stamp /\ e.cursor[n] = NoCursor /\ e.shared # NoCursor => Covers(m, e, e.shared, n)
             /\ n \in e.stamp => KnowsClaws(m, e, n)
  <2>1. /\ d.cursor[n] # NoCursor => Covers(m, d, d.cursor[n], n)
        /\ n \in d.stamp /\ d.cursor[n] = NoCursor /\ d.shared # NoCursor => Covers(m, d, d.shared, n)
        /\ n \in d.stamp => KnowsClaws(m, d, n)
    BY DEF Placing
  <2>2. CASE n \in d.stamp  BY <1>2, <1>3, <2>1, <2>2
  <2>3. CASE n \notin d.stamp  BY <1>2, <2>1, <2>3
  <2> QED  BY <2>2, <2>3
<1> QED  BY <1>4 DEF Placing

\* The first claw baseline: every claw state is on record for everyone.
LEMMA SeedPlacing ==
    ASSUME HappenedTypes, NEW m, NEW d \in Databases, NEW routes \in SUBSET Names, Placing(m, d),
           \A n \in routes : d.cursor[n] # NoCursor \/ d.shared = NoCursor \/ Covers(m, d, d.shared, n),
           NEW e, e = seedLifecycleClawBaseline(d, routes)
    PROVE  Placing(m, e)
<1>1. /\ e \in Databases
      /\ e.shared = d.shared /\ e.cursor = d.cursor /\ e.stamp = d.stamp \cup routes
      /\ \A t \in Tables : \A j : j \in e.rows[t] <=> j \in d.rows[t] \/ (t = Legacy /\ j \in Of("claw"))
  BY SeedParts
<1>2. \A t \in Tables : d.rows[t] \subseteq e.rows[t]  BY <1>1
<1>3. \A n : KnowsClaws(m, e, n)
  <2>1. Of("claw") \subseteq e.rows[Legacy]  BY <1>1, RouteNumbers
  <2> QED  BY <2>1 DEF KnowsClaws, Known
<1> QED  BY <1>1, <1>2, <1>3, StampsPlacing

\* The claw baselines of new routes.
LEMMA BaselinesPlacing ==
    ASSUME HappenedTypes, NEW m, NEW d \in Databases, NEW routes \in SUBSET Names, routes # {},
           Placing(m, d), Stamped(d), Pruned(d, routes), d.stamp # {} => d.clawBase,
           Based(d) \/ (lifecycleRoutesNeedOwnState(d, routes) /\ \A n \in routes : d.cursor[n] # NoCursor),
           Lone(d, routes), NEW e, e = ensureLifecycleClawRouteBaselines(d, routes)
    PROVE  /\ e \in Databases /\ Placing(m, e) /\ Stamped(e) /\ Pruned(e, routes) /\ Based(e)
           /\ e.stamp # {} => e.clawBase
           /\ Lone(e, routes)
<1> DEFINE new == {n \in routes \ d.stamp : d.cursor[n] # NoCursor}
           rows == [t \in DOMAIN d.rows |-> IF t \in new THEN d.rows[t] \cup Of("claw") ELSE d.rows[t]]
<1>0. e \in Databases  BY BaselinesGrow DEF Grown
<1>1. CASE e = d /\ Based(d)  BY <1>1
<1>2. CASE ~lifecycleRoutesNeedOwnState(d, routes)
  <2>1. e = stampLifecycleLegacyIncumbent(d, routes)
    BY <1>2 DEF ensureLifecycleClawRouteBaselines
  <2>2. Based(d)  BY <1>2
  <2>3. CASE Cardinality(routes) = 1 /\ d.clawBase /\ ~lifecycleRoutingSchemeLive(d)
    <3>1. PICK n : routes = {n}
      <4>1. IsFiniteSet(routes)  BY FS_Subset, RoutesAssumption
      <4> QED  BY <2>3, <4>1, FS_Singleton
    <3>2. d.stamp = routes
      <4>1. d.stamp # {}  BY <2>3 DEF Stamped, lifecycleRoutingSchemeLive
      <4>2. d.stamp \subseteq routes  BY DatabaseParts DEF Pruned
      <4> QED  BY <3>1, <4>1, <4>2
    <3>3. e = [d EXCEPT !.stamp = d.stamp \cup routes]
      BY <2>1, <2>3 DEF stampLifecycleLegacyIncumbent
    <3>4. e = d  BY <3>2, <3>3 DEF Databases
    <3> QED  BY <1>1, <2>2, <3>4
  <2>4. CASE ~(Cardinality(routes) = 1 /\ d.clawBase /\ ~lifecycleRoutingSchemeLive(d))
    <3>1. e = d  BY <2>1, <2>4 DEF stampLifecycleLegacyIncumbent
    <3> QED  BY <1>1, <2>2, <3>1
  <2> QED  BY <2>3, <2>4
<1>3. CASE lifecycleRoutesNeedOwnState(d, routes) /\ ~d.clawBase /\ \A n \in routes : d.cursor[n] # NoCursor
  <2>1. e = seedLifecycleClawBaseline(d, routes)
    BY <1>3 DEF ensureLifecycleClawRouteBaselines
  <2>2. /\ e.shared = d.shared /\ e.cursor = d.cursor /\ e.stamp = d.stamp \cup routes
        /\ e.clawBase /\ e.latch = d.latch
    BY <2>1, SeedParts
  <2>3. Placing(m, e)  BY <1>3, <2>1, SeedPlacing
  <2>4. Stamped(e) /\ Based(e)  BY <2>2 DEF Stamped, Based
  <2>5. Pruned(e, routes)  BY <2>2 DEF Pruned
  <2>6. Lone(e, routes)  BY <2>2 DEF Lone
  <2> QED  BY <1>0, <2>2, <2>3, <2>4, <2>5, <2>6
<1>4. CASE lifecycleRoutesNeedOwnState(d, routes) /\ ~d.clawBase /\ ~\A n \in routes : d.cursor[n] # NoCursor
  <2>1. e = d  BY <1>4 DEF ensureLifecycleClawRouteBaselines
  <2> QED  BY <1>1, <1>4, <2>1
<1>5. CASE lifecycleRoutesNeedOwnState(d, routes) /\ d.clawBase
  <2>1. e = [d EXCEPT !.rows = rows, !.stamp = d.stamp \cup new, !.latch = d.latch \/ new # {}]
    BY <1>5 DEF ensureLifecycleClawRouteBaselines
  <2>2. /\ \A t \in Tables : d.rows[t] \subseteq rows[t]
        /\ \A n \in new : Of("claw") \subseteq rows[n]
    BY DatabaseParts, RouteNumbers
  <2>3. \A n \in new : n \in routes /\ d.cursor[n] # NoCursor  OBVIOUS
  <2>4. (d.latch \/ new # {}) \in BOOLEAN  OBVIOUS
  <2> HIDE DEF rows, new
  <2>5. /\ e.shared = d.shared /\ e.cursor = d.cursor /\ e.stamp = d.stamp \cup new
        /\ e.rows = rows
    BY <2>1 DEF Databases
  <2>6. e.clawBase /\ (e.latch <=> d.latch \/ new # {})
    <3>1. e.clawBase  BY <1>5, <2>1 DEF Databases
    <3>2. e.latch = (d.latch \/ new # {})  BY <2>1 DEF Databases
    <3> QED  BY <3>1, <3>2
  <2>7. \A n \in new : KnowsClaws(m, e, n)  BY <2>2, <2>5 DEF KnowsClaws, Known
  <2>8. Placing(m, e)  BY <2>2, <2>3, <2>5, <2>7, StampsPlacing
  <2>9. Stamped(e) /\ Based(e)  BY <1>5, <2>5, <2>6 DEF Stamped, Based
  <2>10. Pruned(e, routes)  BY <2>3, <2>5 DEF Pruned
  <2>11. Lone(e, routes)
    <3> SUFFICES ASSUME NEW n, routes = {n}, lifecycleRoutingSchemeLive(e)
                 PROVE  n \in e.stamp \/ e.cursor[n] # NoCursor
      BY DEF Lone
    <3>1. CASE lifecycleRoutingSchemeLive(d)  BY <2>5, <3>1 DEF Lone
    <3>2. CASE ~lifecycleRoutingSchemeLive(d)
      <4>1. new # {}  BY <2>5, <2>6, <3>2 DEF lifecycleRoutingSchemeLive
      <4>2. n \in new  BY <2>3, <4>1
      <4> QED  BY <2>5, <4>2
    <3> QED  BY <3>1, <3>2
  <2> QED  BY <1>0, <2>6, <2>8, <2>9, <2>10, <2>11
<1> QED  BY <1>2, <1>3, <1>4, <1>5

\* A boot: the incumbent is stamped before anything else has happened, or the
\* baseline is on record as somebody's.
LEMMA BootPlacing ==
    ASSUME HappenedTypes, NEW m, NEW d \in Databases, NEW routes \in SUBSET Names, routes # {},
           Placing(m, d), Stamped(d) \/ happened = <<>>, Based(d), d.stamp # {} => d.clawBase,
           NEW e, e = BootState(d, routes)
    PROVE  /\ e \in Databases /\ Placing(m, e) /\ Stamped(e) /\ Pruned(e, routes) /\ Based(e)
           /\ e.stamp # {} => e.clawBase
           /\ Lone(e, routes)
<1> DEFINE head == lifecycleMaxEventRowID
           shared == IF d.shared = NoCursor THEN head ELSE d.shared
           d1 == [d EXCEPT !.shared = shared]
           d2 == IF ~d1.clawBase THEN seedLifecycleClawBaseline(d1, routes)
                 ELSE IF d1.stamp # {} THEN d1
                 ELSE IF ~lifecycleRoutingSchemeLive(d1) /\ Cardinality(routes) = 1
                 THEN [d1 EXCEPT !.stamp = routes]
                 ELSE [d1 EXCEPT !.latch = TRUE]
           d3 == pruneLifecycleRouteState(d2, routes)
           d4 == ensureLifecycleRouteWatermarks(d3, routes)
<1>a. e = ensureLifecycleClawRouteBaselines(d4, routes)
  BY DEF BootState
<1>1. /\ d1 \in Databases /\ d1.cursor = d.cursor /\ d1.stamp = d.stamp /\ (d1.clawBase <=> d.clawBase)
      /\ (d1.latch <=> d.latch) /\ d1.rows = d.rows /\ d1.shared = shared /\ shared # NoCursor
      /\ shared \in {d.shared, head}
  <2>1. shared \in Positions /\ shared # NoCursor /\ shared \in {d.shared, head}
    BY EntryIds, HeadWithin, RouteNumbers, DatabaseParts
  <2> HIDE DEF shared, head
  <2> QED  BY <2>1 DEF Databases
<1>b. shared \in Int /\ (shared = head => head \in Int)  BY <1>1, DatabaseParts
<1> HIDE DEF d1, shared
<1>2. Placing(m, d1)
  <2>1. ASSUME NEW n, NEW p PROVE Covers(m, d1, p, n) <=> Covers(m, d, p, n)
    BY <1>1 DEF Covers, Known
  <2>2. ASSUME NEW n PROVE KnowsClaws(m, d1, n) <=> KnowsClaws(m, d, n)
    BY <1>1 DEF KnowsClaws, Known
  <2>3. \A n : Covers(m, d1, head, n)
    <3>1. head \in Int /\ head >= lifecycleMaxEventRowID  BY HeadWithin
    <3> QED  BY <3>1, HeadCovers
  <2>4. ASSUME NEW n \in Names
        PROVE  /\ d1.cursor[n] # NoCursor => Covers(m, d1, d1.cursor[n], n)
               /\ n \in d1.stamp /\ d1.cursor[n] = NoCursor /\ d1.shared # NoCursor
                     => Covers(m, d1, d1.shared, n)
               /\ n \in d1.stamp => KnowsClaws(m, d1, n)
    <3>1. CASE shared = head  BY <1>1, <2>1, <2>2, <2>3, <3>1 DEF Placing
    <3>2. CASE shared # head  BY <1>1, <2>1, <2>2, <3>2 DEF Placing
    <3> QED  BY <3>1, <3>2
  <2> QED  BY <2>4 DEF Placing
<1>3. /\ d2 \in Databases /\ Placing(m, d2) /\ Stamped(d2) /\ d2.clawBase
  <2>1. CASE ~d1.clawBase
    <3>1. d2 = seedLifecycleClawBaseline(d1, routes)  BY <2>1
    <3> HIDE DEF d2
    <3>2. d2 \in Databases /\ d2.stamp = d1.stamp \cup routes /\ d2.clawBase  BY <1>1, <3>1, SeedParts
    <3>3. d.shared = NoCursor  BY <1>1, <2>1 DEF Based
    <3>4. \A n : Covers(m, d1, d1.shared, n)
      <4>1. d1.shared = head  BY <1>1, <3>3
      <4>2. head \in Int /\ head >= lifecycleMaxEventRowID  BY HeadWithin
      <4> QED  BY <4>1, <4>2, HeadCovers
    <3>5. Placing(m, d2)  BY <1>1, <1>2, <3>1, <3>4, SeedPlacing
    <3> QED  BY <3>2, <3>5 DEF Stamped
  <2>2. CASE d1.clawBase /\ d1.stamp # {}
    <3>1. d2 = d1  BY <2>2
    <3> QED  BY <1>1, <1>2, <2>2, <3>1 DEF Stamped
  <2>3. CASE d1.clawBase /\ d1.stamp = {} /\ ~lifecycleRoutingSchemeLive(d1) /\ Cardinality(routes) = 1
    <3>1. d2 = [d1 EXCEPT !.stamp = routes]  BY <2>3
    <3> HIDE DEF d2
    <3>2. /\ d2 \in Databases /\ d2.stamp = routes /\ d2.clawBase /\ d2.rows = d1.rows
          /\ d2.shared = d1.shared /\ d2.cursor = d1.cursor
      BY <1>1, <2>3, <3>1 DEF Databases
    <3>3. happened = <<>>
      <4>1. ~d.latch /\ d.stamp = {} /\ d.clawBase  BY <1>1, <2>3 DEF lifecycleRoutingSchemeLive
      <4> QED  BY <4>1 DEF Stamped
    <3>4. \A src : Of(src) = {}  BY <3>3 DEF Of
    <3>5. Placing(m, d2)  BY <3>4 DEF Placing, Covers, KnowsClaws
    <3> QED  BY <3>2, <3>5 DEF Stamped
  <2>4. CASE d1.clawBase /\ d1.stamp = {} /\ ~(~lifecycleRoutingSchemeLive(d1) /\ Cardinality(routes) = 1)
    <3>1. d2 = [d1 EXCEPT !.latch = TRUE]  BY <2>4
    <3> HIDE DEF d2
    <3>2. /\ d2 \in Databases /\ d2.stamp = d1.stamp /\ d2.rows = d1.rows
          /\ d2.shared = d1.shared /\ d2.cursor = d1.cursor
      BY <1>1, <3>1 DEF Databases
    <3>3. d2.latch /\ d2.clawBase  BY <1>1, <2>4, <3>1 DEF Databases
    <3>4. Placing(m, d2)  BY <1>1, <1>2, <3>2, StampsPlacing
    <3> QED  BY <3>2, <3>3, <3>4 DEF Stamped
  <2> QED  BY <2>1, <2>2, <2>3, <2>4
<1> HIDE DEF d2
<1>4. /\ d3 \in Databases /\ Placing(m, d3) /\ Stamped(d3) /\ Pruned(d3, routes) /\ Based(d3)
      /\ d3.stamp # {} => d3.clawBase
  <2>1. Based(d2)  BY <1>3 DEF Based
  <2> QED  BY <1>3, <2>1, PrunePlacing
<1> HIDE DEF d3
<1>5. /\ d4 \in Databases /\ Placing(m, d4) /\ Stamped(d4) /\ Pruned(d4, routes)
      /\ d4.stamp # {} => d4.clawBase
      /\ Based(d4) \/ (lifecycleRoutesNeedOwnState(d4, routes) /\ \A n \in routes : d4.cursor[n] # NoCursor)
      /\ Lone(d4, routes)
  BY <1>4, WatermarksPlacing
<1> HIDE DEF d4
<1> QED  BY <1>a, <1>5, BaselinesPlacing

\* Nothing is known of a route that is not configured.
Forgotten ==
    \A n \in Names \ ledger.seen :
        ledger.may[n] = {} /\ ndb.cursor[n] = NoCursor /\ n \notin ndb.stamp

\* A pass of events goes forward from the route's cursor; claw states wait for the
\* baseline.
Forward ==
    /\ ndb.stamp # {} => ndb.clawBase
    /\ tick.pc = "claw" => ndb.clawBase
    /\ tick.pc # "idle" => tick.routes # {}
    /\ tick.pc = "task" /\ tick.at # Legacy =>
          /\ tick.at \in tick.todo /\ tick.handled >= tick.wm[tick.at]
          /\ \A j \in tick.cand : j >= tick.wm[tick.at]

\* Every place covers its route; the shared cursor is set before the baseline only
\* within the first pass.
PlacesInv ==
    /\ Placing(ledger.may, ndb) /\ Stamped(ndb)
    /\ tick.pc # "task" => Based(ndb)
    /\ ~ndb.clawBase /\ ndb.shared # NoCursor =>
          \A n \in ledger.seen : ndb.cursor[n] = NoCursor => Covers(ledger.may, ndb, ndb.shared, n)
    /\ tick.pc # "idle" => Lone(ndb, ledger.seen)

\* What a pass has before it the routes know.
CandInv ==
    /\ tick.pc = "task" => \A n \in tick.todo : Covers(ledger.may, ndb, tick.wm[n], n)
    /\ tick.at # Legacy =>
          \A i \in tick.cand \cap Accepted(tick.at) : i \in Known(ledger.may, ndb, tick.at)

ReplayInv == Forgotten /\ Forward /\ (~ledger.half => PlacesInv /\ CandInv)

\* The parts of the invariant after a step, from what they say of the new tables.
LEMMA PlacesFollow ==
    ASSUME UNCHANGED happened, Placing(ledger'.may, ndb'), Stamped(ndb'), tick'.pc # "task" => Based(ndb'),
           ~ndb'.clawBase /\ ndb'.shared # NoCursor =>
              \A n \in ledger'.seen : ndb'.cursor[n] = NoCursor => Covers(ledger'.may, ndb', ndb'.shared, n),
           tick'.pc # "idle" => Lone(ndb', ledger'.seen)
    PROVE  PlacesInv'
<1>1. Of("task")' = Of("task") /\ Of("claw")' = Of("claw") /\ \A n : Accepted(n)' = Accepted(n)
  BY DEF Of, Accepted
<1>2. \A p, n : (\A i \in Of("task")' \cap Accepted(n)' : i > p => i \in Known(ledger'.may, ndb', n))
                  <=> Covers(ledger'.may, ndb', p, n)
  BY <1>1 DEF Covers
<1>3. Placing(ledger.may, ndb)'
  BY <1>1, <1>2 DEF Placing, KnowsClaws, Covers, Known
<1>4. Stamped(ndb)' /\ (tick'.pc # "task" => Based(ndb)') /\ (tick'.pc # "idle" => Lone(ndb, ledger.seen)')
  BY DEF Stamped, Based, Lone, lifecycleRoutingSchemeLive
<1>5. (~ndb.clawBase /\ ndb.shared # NoCursor =>
          \A n \in ledger.seen : ndb.cursor[n] = NoCursor => Covers(ledger.may, ndb, ndb.shared, n))'
  BY <1>1 DEF Covers, Known
<1> QED  BY <1>3, <1>4, <1>5 DEF PlacesInv

\* What a step has to show of the pass under way.
LEMMA CandFollows ==
    ASSUME UNCHANGED happened,
           tick'.pc = "task" => \A n \in tick'.todo : Covers(ledger'.may, ndb', tick'.wm[n], n),
           tick'.at # Legacy =>
              \A i \in tick'.cand \cap Accepted(tick'.at) : i \in Known(ledger'.may, ndb', tick'.at)
    PROVE  CandInv'
<1>1. Of("task")' = Of("task") /\ \A n : Accepted(n)' = Accepted(n)
  BY DEF Of, Accepted
<1>2. (tick.pc = "task" => \A n \in tick.todo : Covers(ledger.may, ndb, tick.wm[n], n))'
  BY <1>1 DEF Covers, Known
<1>3. (tick.at # Legacy => \A i \in tick.cand \cap Accepted(tick.at) : i \in Known(ledger.may, ndb, tick.at))'
  BY DEF Known, Accepted
<1> QED  BY <1>2, <1>3 DEF CandInv

\* The places stay where they are, and what is known does not shrink.
LEMMA KnownPlacing ==
    ASSUME NEW m, NEW d, NEW w, NEW e, Placing(m, d), e.shared = d.shared, e.cursor = d.cursor,
           e.stamp = d.stamp, \A n \in Names : \A i : i \in Known(m, d, n) => i \in Known(w, e, n)
    PROVE  Placing(w, e)
<1>1. ASSUME NEW n \in Names, NEW p, Covers(m, d, p, n) PROVE Covers(w, e, p, n)
  BY <1>1 DEF Covers
<1>2. ASSUME NEW n \in Names, KnowsClaws(m, d, n) PROVE KnowsClaws(w, e, n)
  BY <1>2 DEF KnowsClaws
<1> QED  BY <1>1, <1>2 DEF Placing

\* A step within the pass of one route.
LEMMA WithinPassReplay ==
    ASSUME RouteTypes, OwingInv, ReplayInv, UNCHANGED happened,
           ndb'.shared = ndb.shared, ndb'.cursor = ndb.cursor, ndb'.stamp = ndb.stamp,
           ndb'.clawBase <=> ndb.clawBase, ndb'.latch <=> ndb.latch,
           \A t \in Tables : ndb.rows[t] \subseteq ndb'.rows[t],
           ledger'.may = ledger.may, ledger'.seen = ledger.seen, ledger.half => ledger'.half,
           tick'.pc = tick.pc, tick'.routes = tick.routes, tick'.wm = tick.wm, tick'.todo = tick.todo,
           tick'.at = tick.at, tick'.cand \subseteq tick.cand,
           tick.pc = "task" => tick'.handled \in {tick.handled} \cup tick.cand
    PROVE  ReplayInv'
<1>1. Forgotten'  BY DEF ReplayInv, Forgotten
<1>2. Forward'
  <2>1. tick.pc = "task" /\ tick.at # Legacy => tick'.handled >= tick.wm[tick.at]
    BY DEF ReplayInv, Forward
  <2> QED  BY <2>1 DEF ReplayInv, Forward
<1>3. ASSUME ~ledger'.half PROVE PlacesInv' /\ CandInv'
  <2>1. PlacesInv /\ CandInv  BY <1>3 DEF ReplayInv
  <2>2. \A n \in Names : \A i : i \in Known(ledger.may, ndb, n) => i \in Known(ledger'.may, ndb', n)
    BY RouteNumbers DEF Known
  <2>3. ledger.seen \subseteq Names /\ tick.todo \subseteq Names /\ tick.at \in Names \cup {Legacy}
    BY DEF RouteTypes, Ledgers, Ticks, Tables
  <2>4. ASSUME NEW n \in Names, NEW p, Covers(ledger.may, ndb, p, n) PROVE Covers(ledger'.may, ndb', p, n)
    BY <2>2, <2>4 DEF Covers
  <2>5. Placing(ledger'.may, ndb')
    <3>1. Placing(ledger.may, ndb)  BY <2>1 DEF PlacesInv
    <3> QED  BY <2>2, <3>1, KnownPlacing
  <2>6. Stamped(ndb') /\ (tick'.pc # "task" => Based(ndb')) /\ (tick'.pc # "idle" => Lone(ndb', ledger'.seen))
    BY <2>1 DEF PlacesInv, Stamped, Based, Lone, lifecycleRoutingSchemeLive
  <2>7. ~ndb'.clawBase /\ ndb'.shared # NoCursor =>
          \A n \in ledger'.seen : ndb'.cursor[n] = NoCursor => Covers(ledger'.may, ndb', ndb'.shared, n)
    BY <2>1, <2>3, <2>4 DEF PlacesInv
  <2>8. PlacesInv'  BY <2>5, <2>6, <2>7, PlacesFollow
  <2>9. tick'.pc = "task" => \A n \in tick'.todo : Covers(ledger'.may, ndb', tick'.wm[n], n)
    BY <2>1, <2>3, <2>4 DEF CandInv
  <2>10. tick'.at # Legacy =>
            \A i \in tick'.cand \cap Accepted(tick'.at) : i \in Known(ledger'.may, ndb', tick'.at)
    BY <2>1, <2>2, <2>3 DEF CandInv
  <2>11. CandInv'  BY <2>9, <2>10, CandFollows
  <2> QED  BY <2>8, <2>11
<1> QED  BY <1>1, <1>2, <1>3 DEF ReplayInv

\* The step that passes an event by, or parks the route, within the pass.
LEMMA StaysWithin ==
    ASSUME RouteTypes, NEW e \in tick.cand, tick.at \in Names, tick' = Past(e) \/ tick' = Parked
    PROVE  /\ tick'.pc = tick.pc /\ tick'.routes = tick.routes /\ tick'.wm = tick.wm /\ tick'.todo = tick.todo
           /\ tick'.at = tick.at /\ tick'.cand \subseteq tick.cand /\ tick'.built = tick.built
           /\ tick.pc = "task" => tick'.handled \in {tick.handled} \cup tick.cand
<1>1. tick \in Ticks  BY DEF RouteTypes
<1>2. CASE tick' = Past(e)
  <2>1. tick' = [tick EXCEPT !.cand = tick.cand \ {e}, !.sent = 0,
                             !.handled = IF tick.pc = "task" THEN e ELSE tick.handled]
    BY <1>2 DEF Past
  <2> QED  BY <1>1, <2>1 DEF Ticks
<1>3. CASE tick' = Parked
  <2>1. tick' = [tick EXCEPT !.cand = {}, !.paused = tick.paused \cup {tick.at}]
    BY <1>3 DEF Parked
  <2> QED  BY <1>1, <2>1 DEF Ticks
<1> QED  BY <1>2, <1>3

\* An entry that is passed over leaves the places alone.
LEMMA PassesOverReplay == ASSUME RouteInv, OwingInv, ReplayInv, PassesOver PROVE ReplayInv'
<1>1. RouteTypes /\ Sending  BY DEF RouteInv, PassesOver
<1>2. tick' = Past(Event) /\ UNCHANGED <<happened, ndb, stash, ledger>>  BY DEF PassesOver
<1>3. tick.at \in Names /\ Event \in tick.cand  BY <1>1, EventLeast
<1> HIDE DEF Event
<1>4. /\ tick'.pc = tick.pc /\ tick'.routes = tick.routes /\ tick'.wm = tick.wm /\ tick'.todo = tick.todo
      /\ tick'.at = tick.at /\ tick'.cand \subseteq tick.cand
      /\ tick.pc = "task" => tick'.handled \in {tick.handled} \cup tick.cand
  BY <1>1, <1>2, <1>3, StaysWithin
<1> QED  BY <1>1, <1>2, <1>4, WithinPassReplay

\* So does a message.
LEMMA SendsReplay == ASSUME RouteInv, OwingInv, ReplayInv, Sends PROVE ReplayInv'
<1>1. RouteTypes /\ tick \in Ticks /\ ledger \in Ledgers  BY DEF RouteInv, RouteTypes
<1>2. /\ tick' = [tick EXCEPT !.sent = Event] /\ UNCHANGED <<happened, nconf, unbuildable, ndb, stash, changes>>
      /\ ledger'.may = ledger.may /\ ledger'.seen = ledger.seen /\ (ledger.half => ledger'.half)
  BY <1>1 DEF Sends, Ledgers
<1> HIDE DEF Event
<1>3. /\ tick'.pc = tick.pc /\ tick'.routes = tick.routes /\ tick'.wm = tick.wm /\ tick'.todo = tick.todo
      /\ tick'.at = tick.at /\ tick'.cand = tick.cand /\ tick'.handled = tick.handled
  BY <1>1, <1>2 DEF Ticks
<1> QED  BY <1>1, <1>2, <1>3, WithinPassReplay

\* What Records writes.
LEMMA RecordsParts ==
    ASSUME RouteInv, OwingInv, NEW ok \in BOOLEAN, Records(ok)
    PROVE  /\ tick' = Past(tick.sent) /\ tick.sent \in tick.cand /\ tick.sent \in Ids /\ tick.at \in Names
           /\ tick.at \in tick.built /\ UNCHANGED <<happened, ledger>>
           /\ ndb'.shared = ndb.shared /\ ndb'.cursor = ndb.cursor /\ ndb'.stamp = ndb.stamp
           /\ (ndb'.clawBase <=> ndb.clawBase) /\ (ndb'.latch <=> ndb.latch)
           /\ \A t \in Tables : ndb.rows[t] \subseteq ndb'.rows[t]
           /\ \A t \in Tables, j \in Ids :
                 ndb'.streak[t][j] = IF t \in RecordedIn(tick.at) /\ j = tick.sent THEN 0 ELSE ndb.streak[t][j]
<1> DEFINE e == tick.sent
           d == IF ok THEN WithRows(ndb, e) ELSE ndb
           streak == [t \in DOMAIN d.streak |->
                       IF t \in RecordedIn(tick.at) THEN [d.streak[t] EXCEPT ![e] = 0] ELSE d.streak[t]]
<1>1. RouteTypes /\ ndb \in Databases /\ tick \in Ticks /\ TickShape
  BY DEF RouteInv, RouteTypes
<1>2. /\ e # 0 /\ ndb' = [d EXCEPT !.streak = streak] /\ tick' = Past(e) /\ UNCHANGED <<happened, ledger>>
  BY DEF Records
<1>3. tick.at \in Names /\ tick.pc \in {"task", "claw"} /\ e \in tick.cand /\ e \in Ids
  <2>1. tick.at # Legacy  BY <1>1, <1>2 DEF TickShape
  <2>2. tick.pc \in {"task", "claw"}  BY <1>1, <2>1 DEF TickShape, Ticks
  <2> QED  BY <1>1, <1>2, <2>1, <2>2, TickParts DEF OwingInv, TickLinks
<1>4. tick.at \in tick.built
  <2>1. tick.at # Legacy  BY <1>3, RouteNumbers
  <2> QED  BY <1>3, <2>1 DEF OwingInv, TickLinks
<1> HIDE DEF e
<1>5. /\ d \in Databases /\ d.shared = ndb.shared /\ d.cursor = ndb.cursor
      /\ d.stamp = ndb.stamp /\ d.clawBase = ndb.clawBase /\ d.latch = ndb.latch /\ d.streak = ndb.streak
      /\ \A t \in Tables : ndb.rows[t] \subseteq d.rows[t]
  BY <1>1, <1>3, RowsWritten
<1> HIDE DEF d
<1>6. \A t \in Tables, j \in Ids :
         streak[t][j] = IF t \in RecordedIn(tick.at) /\ j = e THEN 0 ELSE ndb.streak[t][j]
  <2>1. d.streak \in [Tables -> [Ids -> 0 .. MaxTransient - 1]] /\ d.streak = ndb.streak  BY <1>5 DEF Databases
  <2> QED  BY <1>3, <2>1
<1> HIDE DEF streak
<1>7. /\ ndb'.shared = d.shared /\ ndb'.cursor = d.cursor /\ ndb'.stamp = d.stamp
      /\ ndb'.clawBase = d.clawBase /\ ndb'.latch = d.latch /\ ndb'.rows = d.rows /\ ndb'.streak = streak
  BY <1>2, <1>5 DEF Databases
<1> QED  BY <1>2, <1>3, <1>4, <1>5, <1>6, <1>7 DEF e

\* The rows of a delivery are written, or stashed.
LEMMA RecordsReplay ==
    ASSUME RouteInv, OwingInv, ReplayInv, NEW ok \in BOOLEAN, Records(ok) PROVE ReplayInv'
<1>1. RouteTypes  BY DEF RouteInv
<1>2. /\ tick' = Past(tick.sent) /\ tick.sent \in tick.cand /\ tick.at \in Names
      /\ UNCHANGED <<happened, ledger>>
      /\ ndb'.shared = ndb.shared /\ ndb'.cursor = ndb.cursor /\ ndb'.stamp = ndb.stamp
      /\ (ndb'.clawBase <=> ndb.clawBase) /\ (ndb'.latch <=> ndb.latch)
      /\ \A t \in Tables : ndb.rows[t] \subseteq ndb'.rows[t]
  BY RecordsParts
<1>3. /\ tick'.pc = tick.pc /\ tick'.routes = tick.routes /\ tick'.wm = tick.wm /\ tick'.todo = tick.todo
      /\ tick'.at = tick.at /\ tick'.cand \subseteq tick.cand
      /\ tick.pc = "task" => tick'.handled \in {tick.handled} \cup tick.cand
  BY <1>1, <1>2, StaysWithin
<1> QED  BY <1>1, <1>2, <1>3, WithinPassReplay

\* A route that is paused keeps its place.
LEMMA FailsConfigReplay == ASSUME RouteInv, OwingInv, ReplayInv, FailsConfig PROVE ReplayInv'
<1>1. RouteTypes /\ Sending /\ tick' = Parked /\ UNCHANGED <<happened, stash, ledger, ndb>>
  BY DEF RouteInv, FailsConfig, ToSend
<1>2. tick.at \in Names /\ Event \in tick.cand  BY <1>1, EventLeast
<1> HIDE DEF Event
<1>3. /\ tick'.pc = tick.pc /\ tick'.routes = tick.routes /\ tick'.wm = tick.wm /\ tick'.todo = tick.todo
      /\ tick'.at = tick.at /\ tick'.cand \subseteq tick.cand
      /\ tick.pc = "task" => tick'.handled \in {tick.handled} \cup tick.cand
  BY <1>1, <1>2, StaysWithin
<1> QED  BY <1>1, <1>3, WithinPassReplay

\* What failed for good has its rows.
LEMMA FailsPermanentlyReplay == ASSUME RouteInv, OwingInv, ReplayInv, FailsPermanently PROVE ReplayInv'
<1>1. RouteTypes /\ Sending /\ ndb \in Databases /\ ledger \in Ledgers
  BY DEF RouteInv, RouteTypes, FailsPermanently, ToSend
<1>2. /\ ndb' = WithRows(ndb, Event) /\ tick' = Past(Event) /\ UNCHANGED happened
      /\ ledger'.may = ledger.may /\ ledger'.seen = ledger.seen /\ (ledger.half => ledger'.half)
  BY <1>1 DEF FailsPermanently, Ledgers
<1>3. tick.at \in Names /\ Event \in tick.cand /\ Event \in Ids  BY <1>1, EventLeast
<1> HIDE DEF Event
<1>4. /\ ndb'.shared = ndb.shared /\ ndb'.cursor = ndb.cursor /\ ndb'.stamp = ndb.stamp
      /\ ndb'.clawBase = ndb.clawBase /\ ndb'.latch = ndb.latch
      /\ \A t \in Tables : ndb.rows[t] \subseteq ndb'.rows[t]
  BY <1>1, <1>2, <1>3, RowsWritten
<1>5. /\ tick'.pc = tick.pc /\ tick'.routes = tick.routes /\ tick'.wm = tick.wm /\ tick'.todo = tick.todo
      /\ tick'.at = tick.at /\ tick'.cand \subseteq tick.cand
      /\ tick.pc = "task" => tick'.handled \in {tick.handled} \cup tick.cand
  BY <1>1, <1>2, <1>3, StaysWithin
<1> QED  BY <1>1, <1>2, <1>4, <1>5, WithinPassReplay

\* What a transient failure writes: a streak that goes on, or a row that gives up.
LEMMA FailsTransientlyParts ==
    ASSUME RouteInv, OwingInv, FailsTransiently, NEW i, i = Event,
           NEW key, key = (IF singleRoute THEN Legacy ELSE tick.at),
           NEW prior, prior = (IF singleRoute THEN tick.at ELSE Legacy),
           NEW count, count = StreakSoFar(key, prior, i) + 1
    PROVE  /\ UNCHANGED happened /\ (tick' = Past(i) \/ tick' = Parked)
           /\ tick.at \in Names /\ tick.at \in tick.built /\ i \in tick.cand /\ i \in Ids /\ count \in Nat
           /\ ndb'.shared = ndb.shared /\ ndb'.cursor = ndb.cursor /\ ndb'.stamp = ndb.stamp
           /\ (ndb'.clawBase <=> ndb.clawBase) /\ (ndb'.latch <=> ndb.latch)
           /\ \A t \in Tables : ndb.rows[t] \subseteq ndb'.rows[t]
           /\ count >= MaxTransient => \A t \in RecordedIn(tick.at) : i \in ndb'.rows[t]
           /\ \A t \in Tables, j \in Ids :
                 ndb'.streak[t][j] = IF t = key /\ j = i THEN IF count >= MaxTransient THEN 0 ELSE count
                                     ELSE IF t = prior /\ j = i /\ ndb.streak[key][i] = 0 THEN 0
                                     ELSE ndb.streak[t][j]
<1> DEFINE d == IF ndb.streak[key][i] = 0 THEN [ndb EXCEPT !.streak[prior][i] = 0] ELSE ndb
           new == IF count >= MaxTransient THEN 0 ELSE count
           f == [d EXCEPT !.streak[key][i] = new]
<1>1. RouteTypes /\ ndb \in Databases  BY DEF RouteInv, RouteTypes
<1>2. /\ Sending /\ UNCHANGED happened
      /\ IF count >= MaxTransient
         THEN ndb' = WithRows([d EXCEPT !.streak[key][i] = 0], i) /\ tick' = Past(i)
         ELSE ndb' = [d EXCEPT !.streak[key][i] = count] /\ tick' = Parked
  BY DEF FailsTransiently, ToSend
<1>3. /\ tick.at \in Names /\ i \in tick.cand /\ i \in Ids /\ tick.pc \in {"task", "claw"}
      /\ key \in Tables /\ prior \in Tables /\ key # prior
  BY <1>1, <1>2, EventLeast, RouteNumbers
<1>4. tick.at \in tick.built
  <2>1. tick.at # Legacy  BY <1>3, RouteNumbers
  <2> QED  BY <1>3, <2>1 DEF OwingInv, TickLinks
<1>5. count \in Nat /\ 0 \in 0 .. MaxTransient - 1 /\ new \in 0 .. MaxTransient - 1
  <2>1. ndb.streak \in [Tables -> [Ids -> 0 .. MaxTransient - 1]]  BY <1>1 DEF Databases
  <2>2. ndb.streak[key][i] \in 0 .. MaxTransient - 1 /\ ndb.streak[prior][i] \in 0 .. MaxTransient - 1
    BY <1>3, <2>1
  <2>3. StreakSoFar(key, prior, i) \in Nat  BY <2>2, RouteNumbers DEF StreakSoFar
  <2>4. count \in Nat  BY <2>3
  <2> QED  BY <2>4, RouteNumbers
<1>6. /\ d \in Databases /\ d.shared = ndb.shared /\ d.cursor = ndb.cursor
      /\ d.stamp = ndb.stamp /\ d.clawBase = ndb.clawBase /\ d.latch = ndb.latch /\ d.rows = ndb.rows
  BY <1>1, <1>3, <1>5, StreakWritten
<1>7. \A t \in Tables, j \in Ids :
         d.streak[t][j] = IF t = prior /\ j = i /\ ndb.streak[key][i] = 0 THEN 0 ELSE ndb.streak[t][j]
  <2>1. CASE ndb.streak[key][i] = 0
    <3>1. d.streak = [ndb.streak EXCEPT ![prior] = [ndb.streak[prior] EXCEPT ![i] = 0]]
      BY <1>1, <1>3, <1>5, <2>1, StreakWritten
    <3> HIDE DEF d
    <3>2. ndb.streak \in [Tables -> [Ids -> 0 .. MaxTransient - 1]]  BY <1>1 DEF Databases
    <3> QED  BY <1>3, <2>1, <3>1, <3>2
  <2>2. CASE ndb.streak[key][i] # 0  BY <2>2
  <2> QED  BY <2>1, <2>2
<1> HIDE DEF d
<1>8. /\ f \in Databases /\ f.shared = d.shared /\ f.cursor = d.cursor /\ f.stamp = d.stamp
      /\ f.clawBase = d.clawBase /\ f.latch = d.latch /\ f.rows = d.rows
      /\ f.streak = [d.streak EXCEPT ![key] = [d.streak[key] EXCEPT ![i] = new]]
  BY <1>3, <1>5, <1>6, StreakWritten
<1>9. \A t \in Tables, j \in Ids : f.streak[t][j] = IF t = key /\ j = i THEN new ELSE d.streak[t][j]
  <2>1. d.streak \in [Tables -> [Ids -> 0 .. MaxTransient - 1]]  BY <1>6 DEF Databases
  <2> HIDE DEF f, new
  <2> QED  BY <1>3, <1>8, <2>1
<1>10. ndb' = (IF count >= MaxTransient THEN WithRows(f, i) ELSE f)  BY <1>2
<1>11. tick' = Past(i) \/ tick' = Parked  BY <1>2
<1> HIDE DEF f
<1>12. /\ ndb'.shared = f.shared /\ ndb'.cursor = f.cursor /\ ndb'.stamp = f.stamp
       /\ (ndb'.clawBase <=> f.clawBase) /\ (ndb'.latch <=> f.latch) /\ ndb'.streak = f.streak
       /\ \A t \in Tables : f.rows[t] \subseteq ndb'.rows[t]
       /\ count >= MaxTransient => \A t \in Tables : t \in RecordedIn(tick.at) => i \in ndb'.rows[t]
  <2>1. CASE count >= MaxTransient
    <3>1. ndb' = WithRows(f, i)  BY <1>10, <2>1
    <3> QED  BY <1>3, <1>8, <3>1, RowsWritten
  <2>2. CASE ~(count >= MaxTransient)  BY <1>10, <2>2
  <2> QED  BY <2>1, <2>2
<1>13. RecordedIn(tick.at) \subseteq Tables  BY <1>3, RouteNumbers DEF RecordedIn
<1>14. \A t \in Tables : ndb.rows[t] \subseteq ndb'.rows[t]  BY <1>6, <1>8, <1>12
<1>15. \A t \in Tables, j \in Ids : ndb'.streak[t][j] =
          IF t = key /\ j = i THEN new ELSE IF t = prior /\ j = i /\ ndb.streak[key][i] = 0 THEN 0
                                            ELSE ndb.streak[t][j]
  <2> HIDE DEF new
  <2> QED  BY <1>7, <1>9, <1>12
<1> QED  BY <1>2, <1>3, <1>4, <1>5, <1>6, <1>8, <1>11, <1>12, <1>13, <1>14, <1>15

\* What failed is tried again from the same place, or has its rows.
LEMMA FailsTransientlyReplay == ASSUME RouteInv, OwingInv, ReplayInv, FailsTransiently PROVE ReplayInv'
<1>1. RouteTypes /\ ledger \in Ledgers  BY DEF RouteInv, RouteTypes
<1>2. ledger'.may = ledger.may /\ ledger'.seen = ledger.seen /\ (ledger.half => ledger'.half)
  BY <1>1 DEF FailsTransiently, Ledgers
<1>3. /\ UNCHANGED happened /\ (tick' = Past(Event) \/ tick' = Parked)
      /\ tick.at \in Names /\ Event \in tick.cand
      /\ ndb'.shared = ndb.shared /\ ndb'.cursor = ndb.cursor /\ ndb'.stamp = ndb.stamp
      /\ (ndb'.clawBase <=> ndb.clawBase) /\ (ndb'.latch <=> ndb.latch)
      /\ \A t \in Tables : ndb.rows[t] \subseteq ndb'.rows[t]
  BY FailsTransientlyParts
<1> HIDE DEF Event
<1>4. /\ tick'.pc = tick.pc /\ tick'.routes = tick.routes /\ tick'.wm = tick.wm /\ tick'.todo = tick.todo
      /\ tick'.at = tick.at /\ tick'.cand \subseteq tick.cand
      /\ tick.pc = "task" => tick'.handled \in {tick.handled} \cup tick.cand
  BY <1>1, <1>3, StaysWithin
<1> QED  BY <1>1, <1>2, <1>3, <1>4, WithinPassReplay

\* The tables are left alone.
LEMMA SamePlaces ==
    ASSUME UNCHANGED <<happened, ndb>>, PlacesInv, ledger'.may = ledger.may, ledger'.seen = ledger.seen,
           tick'.pc # "task" => Based(ndb), tick'.pc # "idle" => Lone(ndb, ledger.seen)
    PROVE  PlacesInv'
BY PlacesFollow DEF PlacesInv

\* The candidates of a route are behind its position, which covers it.
LEMMA TaskRouteStartsReplay ==
    ASSUME RouteInv, OwingInv, ReplayInv, NEW n \in Names, TaskRouteStarts(n) PROVE ReplayInv'
<1> DEFINE cand == {i \in Of("task") \ (Typed(tick.muted) \cup ndb.rows[Legacy]) : i > tick.wm[n]}
<1>1. RouteTypes /\ tick \in Ticks /\ TickShape  BY DEF RouteInv, RouteTypes
<1>2. /\ tick.pc = "task" /\ tick.at = Legacy /\ n \in tick.todo
      /\ tick' = [tick EXCEPT !.at = n, !.handled = tick.wm[n], !.cand = cand]
      /\ UNCHANGED <<happened, ndb, stash, ledger>>
  BY DEF TaskRouteStarts
<1>3. cand \subseteq Of("task") /\ \A i \in cand : i > tick.wm[n]
  OBVIOUS
<1> HIDE DEF cand
<1>4. /\ tick'.pc = "task" /\ tick'.todo = tick.todo /\ tick'.wm = tick.wm /\ tick'.routes = tick.routes
      /\ tick'.at = n /\ tick'.cand = cand /\ tick'.handled = tick.wm[n]
  BY <1>1, <1>2 DEF Ticks
<1>5. tick.wm[n] \in Int /\ \A i \in cand : i \in Int
  <2>1. n \in DOMAIN tick.wm  BY <1>1, <1>2 DEF TickShape
  <2>2. tick.wm[n] \in Int  BY <1>1, <2>1, TickParts
  <2>3. \A i \in Of("task") : i \in Int  BY <1>1, TickParts, EntryIds
  <2> QED  BY <1>3, <2>2, <2>3
<1>6. Forgotten' /\ Forward'
  BY <1>2, <1>3, <1>4, <1>5 DEF ReplayInv, Forgotten, Forward
<1>7. ASSUME ~ledger.half PROVE PlacesInv' /\ CandInv'
  <2>1. PlacesInv /\ CandInv  BY <1>7 DEF ReplayInv
  <2>2. PlacesInv'  BY <1>2, <1>4, <2>1, SamePlaces DEF PlacesInv
  <2>3. \A i \in cand \cap Accepted(n) : i \in Known(ledger.may, ndb, n)
    BY <1>2, <1>3, <2>1 DEF CandInv, Covers
  <2>4. CandInv'  BY <1>2, <1>4, <2>1, <2>3, CandFollows DEF CandInv
  <2> QED  BY <2>2, <2>4
<1> QED  BY <1>2, <1>6, <1>7 DEF ReplayInv

\* The cursor moves forward.
LEMMA TaskRouteEndsReplay ==
    ASSUME RouteInv, OwingInv, ReplayInv, NEW ok \in BOOLEAN, TaskRouteEnds(ok) PROVE ReplayInv'
<1> DEFINE n == tick.at
           key == lifecycleWatermarkKeyFor(ndb, n, singleRoute)
           todo == tick.todo \ {n}
           floor == IF tick.floor = NoCursor \/ tick.handled < tick.floor THEN tick.handled ELSE tick.floor
           cursor == [ndb.cursor EXCEPT ![n] = tick.handled]
<1>1. RouteTypes /\ ndb \in Databases /\ tick \in Ticks /\ TickShape /\ HappenedTypes
  BY DEF RouteInv, RouteTypes
<1>2. /\ tick.pc = "task" /\ n # Legacy /\ tick.sent = 0 /\ tick.cand = {}
      /\ tick' = [tick EXCEPT !.at = Legacy, !.todo = todo, !.handled = 0, !.floor = floor]
      /\ UNCHANGED <<happened, stash, ledger>>
      /\ \/ ndb' = ndb
         \/ key = Legacy /\ ndb' = [ndb EXCEPT !.shared = tick.handled]
         \/ key # Legacy /\ ndb' = [ndb EXCEPT !.cursor = cursor]
  BY DEF TaskRouteEnds
<1>3. n \in Names /\ n \in tick.built /\ n \in ledger.seen /\ tick.handled \in Nat /\ todo \subseteq tick.todo
      /\ tick.routes = ledger.seen
  BY <1>1, <1>2, TickParts DEF OwingInv, TickLinks
<1>4. key = Legacy => singleRoute
  BY <1>2 DEF lifecycleWatermarkKeyFor
<1>5. /\ cursor[n] = tick.handled /\ \A m \in Names : m # n => cursor[m] = ndb.cursor[m]
  BY <1>1, <1>3, DatabaseParts
<1>6. key = Legacy => ledger.seen = {n}
  BY <1>1, <1>3, <1>4, OneRoute
<1> HIDE DEF floor, todo, cursor, key
<1>7. /\ tick'.pc = "task" /\ tick'.todo = todo /\ tick'.wm = tick.wm /\ tick'.routes = tick.routes
      /\ tick'.at = Legacy /\ tick'.cand = {}
  BY <1>1, <1>2 DEF Ticks
<1>8. /\ ndb'.stamp = ndb.stamp /\ (ndb'.clawBase <=> ndb.clawBase) /\ ndb'.rows = ndb.rows
      /\ (ndb'.latch <=> ndb.latch)
      /\ \/ ndb'.shared = ndb.shared /\ ndb'.cursor = ndb.cursor
         \/ key = Legacy /\ ndb'.shared = tick.handled /\ ndb'.cursor = ndb.cursor
         \/ key # Legacy /\ ndb'.shared = ndb.shared /\ ndb'.cursor = cursor
  BY <1>1, <1>2 DEF Databases
<1>9. tick.handled # NoCursor  BY <1>3, RouteNumbers
<1>10. \A m \in Names : m # n => ndb'.cursor[m] = ndb.cursor[m]  BY <1>5, <1>8
<1>11. Forgotten'
  BY <1>2, <1>3, <1>8, <1>10 DEF ReplayInv, Forgotten
<1>12. Forward'
  <2>1. (ndb.stamp # {} => ndb.clawBase) /\ tick.routes # {}  BY <1>2 DEF ReplayInv, Forward
  <2>2. (ndb'.stamp # {} => ndb'.clawBase) /\ tick'.routes # {}  BY <1>7, <1>8, <2>1
  <2> QED  BY <1>7, <2>2 DEF Forward
<1>13. ASSUME ~ledger.half PROVE PlacesInv' /\ CandInv'
  <2>1. PlacesInv /\ CandInv  BY <1>13 DEF ReplayInv
  <2>2. ASSUME NEW m, NEW p PROVE Covers(ledger.may, ndb', p, m) <=> Covers(ledger.may, ndb, p, m)
    BY <1>8 DEF Covers, Known
  <2>3. ASSUME NEW m PROVE KnowsClaws(ledger.may, ndb', m) <=> KnowsClaws(ledger.may, ndb, m)
    BY <1>8 DEF KnowsClaws, Known
  <2>4. Covers(ledger.may, ndb, tick.handled, n)
    <3>1. n \in tick.todo /\ tick.handled >= tick.wm[n]
      BY <1>2, <1>3 DEF ReplayInv, Forward
    <3>2. Covers(ledger.may, ndb, tick.wm[n], n)  BY <1>2, <2>1, <3>1 DEF CandInv
    <3>3. tick.wm[n] \in Int
      <4>1. n \in DOMAIN tick.wm  BY <1>1, <1>2, <3>1 DEF TickShape
      <4> QED  BY <1>1, <4>1, TickParts
    <3>4. tick.handled \in Int  BY <1>3
    <3> QED  BY <1>1, <3>1, <3>2, <3>3, <3>4, CoversMore
  <2>5. ASSUME NEW m \in Names
        PROVE  /\ ndb'.cursor[m] # NoCursor => Covers(ledger.may, ndb, ndb'.cursor[m], m)
               /\ m \in ndb.stamp /\ ndb'.cursor[m] = NoCursor /\ ndb'.shared # NoCursor
                     => Covers(ledger.may, ndb, ndb'.shared, m)
               /\ m \in ndb.stamp => KnowsClaws(ledger.may, ndb, m)
    <3>1. /\ ndb.cursor[m] # NoCursor => Covers(ledger.may, ndb, ndb.cursor[m], m)
          /\ m \in ndb.stamp /\ ndb.cursor[m] = NoCursor /\ ndb.shared # NoCursor
                => Covers(ledger.may, ndb, ndb.shared, m)
          /\ m \in ndb.stamp => KnowsClaws(ledger.may, ndb, m)
      BY <2>1 DEF PlacesInv, Placing
    <3>2. CASE ndb'.shared = ndb.shared /\ ndb'.cursor = ndb.cursor  BY <3>1, <3>2
    <3>3. CASE key = Legacy /\ ndb'.shared = tick.handled /\ ndb'.cursor = ndb.cursor
      <4>1. m # n => m \notin ndb.stamp /\ ndb.cursor[m] = NoCursor
        BY <1>6, <3>3 DEF ReplayInv, Forgotten
      <4> QED  BY <2>4, <3>1, <3>3, <4>1
    <3>4. CASE key # Legacy /\ ndb'.shared = ndb.shared /\ ndb'.cursor = cursor
      BY <1>5, <1>9, <2>4, <3>1, <3>4
    <3> QED  BY <1>8, <3>2, <3>3, <3>4
  <2>6. Placing(ledger'.may, ndb')
    BY <1>2, <1>8, <2>2, <2>3, <2>5 DEF Placing
  <2>7. Stamped(ndb')  BY <1>8, <2>1 DEF PlacesInv, Stamped
  <2>8. ~ndb'.clawBase /\ ndb'.shared # NoCursor =>
          \A m \in ledger'.seen : ndb'.cursor[m] = NoCursor => Covers(ledger'.may, ndb', ndb'.shared, m)
    <3> SUFFICES ASSUME ~ndb'.clawBase, ndb'.shared # NoCursor, NEW m \in ledger.seen, ndb'.cursor[m] = NoCursor
                 PROVE  Covers(ledger.may, ndb, ndb'.shared, m)
      BY <1>2, <2>2
    <3>0. m \in Names  BY <1>1 DEF RouteTypes, Ledgers
    <3>1. CASE ndb'.shared = ndb.shared /\ ndb'.cursor = ndb.cursor
      BY <1>8, <2>1, <3>1 DEF PlacesInv
    <3>2. CASE key = Legacy /\ ndb'.shared = tick.handled /\ ndb'.cursor = ndb.cursor
      BY <1>6, <2>4, <3>2
    <3>3. CASE key # Legacy /\ ndb'.shared = ndb.shared /\ ndb'.cursor = cursor
      <4>1. ndb.cursor[m] = NoCursor  BY <1>5, <1>9, <3>0, <3>3
      <4> QED  BY <1>8, <2>1, <3>3, <4>1 DEF PlacesInv
    <3> QED  BY <1>8, <3>1, <3>2, <3>3
  <2>9. Lone(ndb', ledger'.seen)
    <3> SUFFICES ASSUME NEW m, ledger.seen = {m}, lifecycleRoutingSchemeLive(ndb')
                 PROVE  m \in ndb.stamp \/ ndb'.cursor[m] # NoCursor
      BY <1>2, <1>8 DEF Lone
    <3>1. m = n  BY <1>3
    <3>2. CASE ndb'.cursor = ndb.cursor
      <4>1. lifecycleRoutingSchemeLive(ndb)  BY <1>8, <3>2 DEF lifecycleRoutingSchemeLive
      <4>2. Lone(ndb, ledger.seen)  BY <1>2, <2>1 DEF PlacesInv
      <4> QED  BY <3>2, <4>1, <4>2 DEF Lone
    <3>3. CASE ndb'.cursor = cursor  BY <1>5, <1>9, <3>1, <3>3
    <3> QED  BY <1>8, <3>2, <3>3
  <2>10. PlacesInv'  BY <1>2, <1>7, <2>6, <2>7, <2>8, <2>9, PlacesFollow
  <2>11. \A m \in tick'.todo : Covers(ledger'.may, ndb', tick'.wm[m], m)
    BY <1>2, <1>3, <1>7, <2>1, <2>2 DEF CandInv
  <2>12. CandInv'  BY <1>2, <1>7, <2>11, CandFollows
  <2> QED  BY <2>10, <2>12
<1> QED  BY <1>2, <1>11, <1>12, <1>13 DEF ReplayInv

\* The first claw baseline is for every route of the tick.
LEMMA TaskPassEndsReplay == ASSUME RouteInv, OwingInv, ReplayInv, TaskPassEnds PROVE ReplayInv'
<1> DEFINE rises == /\ ~singleRoute /\ tick.built = tick.routes /\ DOMAIN tick.wm = tick.built
                    /\ tick.floor > 0 /\ tick.floor > ndb.shared
           d == IF rises THEN [ndb EXCEPT !.shared = tick.floor] ELSE ndb
           off == Of("claw") \cap Typed(tick.muted)
           next == [tick EXCEPT !.pc = "claw", !.todo = tick.built \ tick.paused,
                                !.wm = [n \in {} |-> 0], !.floor = NoCursor, !.paused = {}]
<1>1. /\ RouteTypes /\ ndb \in Databases /\ tick \in Ticks /\ TickShape /\ ledger \in Ledgers /\ HappenedTypes
      /\ tick.routes \in SUBSET Names
  BY DEF RouteInv, RouteTypes, Ticks
<1>2. /\ tick.pc = "task" /\ tick.at = Legacy /\ UNCHANGED <<happened, stash>>
      /\ IF ~d.clawBase
         THEN /\ ndb' = seedLifecycleClawBaseline(d, tick.routes) /\ tick' = NoTick /\ ledger' = ledger
         ELSE /\ ndb' = SkipForAll(d, off) /\ tick' \in {NoTick, next} /\ ledger' = Without(ledger, off)
  BY DEF TaskPassEnds
<1>3. tick.routes = ledger.seen /\ tick.routes # {}
  BY <1>2 DEF OwingInv, TickLinks, ReplayInv, Forward
<1>4. /\ d \in Databases /\ d.cursor = ndb.cursor /\ d.stamp = ndb.stamp /\ (d.clawBase <=> ndb.clawBase)
      /\ (d.latch <=> ndb.latch) /\ d.rows = ndb.rows /\ (~rises => d.shared = ndb.shared)
  <2>1. tick.floor \in Positions  BY <1>1 DEF Ticks
  <2> QED  BY <1>1, <2>1 DEF Databases
<1>5. off \in SUBSET Ids  BY <1>1, EntryIds
<1>6. rises => \A n \in ledger.seen : ndb.cursor[n] # NoCursor
  BY <1>2, <1>3 DEF OwingInv, TickLinks
<1> HIDE DEF d, rises
<1>7. /\ tick'.pc \in {"idle", "claw"} /\ tick'.at = Legacy
      /\ tick'.pc = "claw" => tick' = next /\ tick'.routes = tick.routes
  <2>1. tick' = NoTick \/ tick' = next  BY <1>2
  <2>2. CASE tick' = NoTick  BY <2>2, NoTickTyped DEF NoTick
  <2>3. CASE tick' = next  BY <1>1, <1>2, <2>3 DEF Ticks
  <2> QED  BY <2>1, <2>2, <2>3
<1>8. ledger'.seen = ledger.seen /\ (ledger'.half <=> ledger.half)
      /\ \A n \in Names : ledger'.may[n] \subseteq ledger.may[n]
  BY <1>1, <1>2, WithoutParts
<1> HIDE DEF off
<1>a. ASSUME ~d.clawBase
      PROVE  /\ ndb'.shared = d.shared /\ ndb'.cursor = d.cursor /\ ndb'.stamp = d.stamp \cup ledger.seen
             /\ ndb'.clawBase
  <2>1. ndb' = seedLifecycleClawBaseline(d, tick.routes)  BY <1>2, <1>a
  <2> QED  BY <1>1, <1>3, <1>4, <2>1, SeedParts
<1>b. ASSUME d.clawBase
      PROVE  /\ ndb'.shared = d.shared /\ ndb'.cursor = d.cursor /\ ndb'.stamp = d.stamp /\ (ndb'.clawBase <=> d.clawBase)
             /\ (ndb'.latch <=> d.latch)
             /\ \A t \in Tables : \A j : j \in ndb'.rows[t] <=> j \in d.rows[t] \/ (t = Legacy /\ j \in off)
  <2>1. ndb' = SkipForAll(d, off)  BY <1>2, <1>b
  <2> QED  BY <1>4, <1>5, <2>1, SkipParts
<1>9. ndb'.clawBase /\ ndb'.cursor = ndb.cursor /\ \A n \in Names \ ledger.seen : n \in ndb'.stamp => n \in ndb.stamp
  <2>1. CASE ~d.clawBase  BY <1>4, <1>a, <2>1
  <2>2. CASE d.clawBase  BY <1>4, <1>b, <2>2
  <2> QED  BY <2>1, <2>2
<1>10. Forgotten'
  BY <1>8, <1>9 DEF ReplayInv, Forgotten
<1>11. Forward'
  BY <1>3, <1>7, <1>9 DEF Forward
<1>12. ASSUME ~ledger.half PROVE PlacesInv' /\ CandInv'
  <2>1. PlacesInv  BY <1>12 DEF ReplayInv
  <2>2. CandInv'
    BY <1>2, <1>7, CandFollows
  <2>3. ASSUME NEW n, NEW p PROVE Covers(ledger.may, d, p, n) <=> Covers(ledger.may, ndb, p, n)
    BY <1>4 DEF Covers, Known
  <2>4. ASSUME NEW n PROVE KnowsClaws(ledger.may, d, n) <=> KnowsClaws(ledger.may, ndb, n)
    BY <1>4 DEF KnowsClaws, Known
  <2>5. Placing(ledger.may, d)
    <3>1. ASSUME NEW n \in Names
          PROVE  /\ d.cursor[n] # NoCursor => Covers(ledger.may, d, d.cursor[n], n)
                 /\ n \in d.stamp /\ d.cursor[n] = NoCursor /\ d.shared # NoCursor
                       => Covers(ledger.may, d, d.shared, n)
                 /\ n \in d.stamp => KnowsClaws(ledger.may, d, n)
      <4>1. /\ ndb.cursor[n] # NoCursor => Covers(ledger.may, ndb, ndb.cursor[n], n)
            /\ n \in ndb.stamp /\ ndb.cursor[n] = NoCursor /\ ndb.shared # NoCursor
                  => Covers(ledger.may, ndb, ndb.shared, n)
            /\ n \in ndb.stamp => KnowsClaws(ledger.may, ndb, n)
        BY <2>1 DEF PlacesInv, Placing
      <4>2. CASE ~rises  BY <1>4, <2>3, <2>4, <4>1, <4>2
      <4>3. CASE rises
        <5>1. n \in ndb.stamp => ndb.cursor[n] # NoCursor
          BY <1>6, <4>3 DEF ReplayInv, Forgotten
        <5> QED  BY <1>4, <2>3, <2>4, <4>1, <5>1
      <4> QED  BY <4>2, <4>3
    <3> QED  BY <3>1 DEF Placing
  <2>6. Placing(ledger'.may, ndb') /\ Stamped(ndb')
    <3>1. CASE ~d.clawBase
      <4>1. ndb' = seedLifecycleClawBaseline(d, tick.routes) /\ ledger' = ledger  BY <1>2, <3>1
      <4>2. \A n \in tick.routes : d.cursor[n] # NoCursor \/ d.shared = NoCursor \/ Covers(ledger.may, d, d.shared, n)
        <5> SUFFICES ASSUME NEW n \in ledger.seen, ndb.cursor[n] = NoCursor, d.shared # NoCursor
                     PROVE  Covers(ledger.may, d, d.shared, n)
          BY <1>3, <1>4
        <5>1. d.shared = ndb.shared  BY <1>4, <1>6
        <5> QED  BY <1>4, <2>1, <2>3, <3>1, <5>1 DEF PlacesInv
      <4>3. Placing(ledger.may, ndb')  BY <1>1, <1>4, <2>5, <4>1, <4>2, SeedPlacing
      <4>4. Stamped(ndb')  BY <1>3, <1>a, <3>1 DEF Stamped
      <4> QED  BY <4>1, <4>3, <4>4
    <3>2. CASE d.clawBase
      <4>1. ASSUME NEW n \in Names, NEW i, i \in Known(ledger.may, d, n)
            PROVE  i \in Known(ledger'.may, ndb', n)
        <5>1. ledger'.may[n] = ledger.may[n] \ off  BY <1>1, <1>2, <3>2, WithoutParts
        <5>2. n \in Tables /\ Legacy \in Tables  BY RouteNumbers
        <5> QED  BY <1>b, <3>2, <4>1, <5>1, <5>2 DEF Known
      <4>2. Placing(ledger'.may, ndb')  BY <1>b, <2>5, <3>2, <4>1, KnownPlacing
      <4>3. Stamped(ndb')  BY <1>4, <1>b, <2>1, <3>2 DEF PlacesInv, Stamped
      <4> QED  BY <4>2, <4>3
    <3> QED  BY <3>1, <3>2
  <2>7. tick'.pc # "idle" => Lone(ndb', ledger'.seen)
    <3>1. SUFFICES ASSUME tick'.pc # "idle" PROVE Lone(ndb', ledger'.seen)  OBVIOUS
    <3>2. d.clawBase  BY <1>2, <3>1 DEF NoTick
    <3>3. Lone(ndb, ledger.seen)  BY <1>2, <2>1 DEF PlacesInv
    <3> QED  BY <1>4, <1>8, <1>b, <3>2, <3>3 DEF Lone, lifecycleRoutingSchemeLive
  <2>8. PlacesInv'  BY <1>2, <1>9, <2>6, <2>7, PlacesFollow DEF Based
  <2> QED  BY <2>2, <2>8
<1> QED  BY <1>8, <1>10, <1>11, <1>12 DEF ReplayInv

\* The position a pass reads covers its route: the route's own cursor, or the shared
\* one of the only route, which is the incumbent.
LEMMA KeyCovers ==
    ASSUME RouteTypes, ReplayInv, ~ledger.half, Based(ndb), NEW single, NEW n \in ledger.seen,
           single => ledger.seen = {n}, NEW key, key = lifecycleWatermarkKeyFor(ndb, n, single),
           CursorAt(ndb, key) # NoCursor
    PROVE  Covers(ledger.may, ndb, CursorAt(ndb, key), n)
<1>1. n \in Names /\ n # Legacy /\ ndb \in Databases
  BY RouteNumbers DEF RouteTypes, Ledgers
<1>2. PlacesInv  BY DEF ReplayInv
<1>3. CASE ndb.cursor[n] # NoCursor
  <2>1. key = n  BY <1>3 DEF lifecycleWatermarkKeyFor
  <2> QED  BY <1>1, <1>2, <1>3, <2>1 DEF CursorAt, PlacesInv, Placing
<1>4. CASE ndb.cursor[n] = NoCursor
  <2>1. key # n  BY <1>1, <1>4 DEF CursorAt
  <2>2. /\ key = Legacy /\ single
        /\ lifecycleSingleViaIncumbent(ndb, n) \/ ~lifecycleRoutingSchemeLive(ndb)
    BY <2>1 DEF lifecycleWatermarkKeyFor
  <2>3. ndb.shared # NoCursor /\ CursorAt(ndb, key) = ndb.shared  BY <2>2 DEF CursorAt
  <2>4. ndb.stamp \subseteq {n}
    <3>1. ndb.stamp \subseteq Names  BY <1>1, DatabaseParts
    <3> QED  BY <2>2, <3>1 DEF ReplayInv, Forgotten
  <2>5. n \in ndb.stamp
    <3>1. CASE lifecycleSingleViaIncumbent(ndb, n)  BY <3>1 DEF lifecycleSingleViaIncumbent
    <3>2. CASE ~lifecycleRoutingSchemeLive(ndb)
      <4>1. ndb.clawBase  BY <2>3 DEF Based
      <4>2. ~ndb.latch  BY <3>2 DEF lifecycleRoutingSchemeLive
      <4>3. ndb.stamp # {}  BY <1>2, <4>1, <4>2 DEF PlacesInv, Stamped
      <4> QED  BY <2>4, <4>3
    <3> QED  BY <2>2, <3>1, <3>2
  <2> QED  BY <1>1, <1>2, <1>4, <2>3, <2>5 DEF PlacesInv, Placing
<1> QED  BY <1>3, <1>4

\* The cursors that are read cover the routes, parked or with the muted events on
\* record.
LEMMA BuildsReplay == ASSUME RouteInv, OwingInv, ReplayInv, TickBuilds PROVE ReplayInv'
<1> DEFINE built == tick.routes \ unbuildable
           single == built = tick.routes /\ Cardinality(built) = 1
           key(n) == lifecycleWatermarkKeyFor(ndb, n, single)
           with == {n \in built : CursorAt(ndb, key(n)) # NoCursor}
           wm == [n \in with |-> CursorAt(ndb, key(n))]
           first == \E n \in built \ with : key(n) = Legacy
           lowest == Min({wm[n] : n \in with})
           next == [tick EXCEPT !.pc = "task", !.built = built, !.wm = wm, !.todo = with]
           off == {i \in Of("task") \cap Typed(tick.muted) : i > lowest}
           head == lifecycleMaxEventRowID
<1>1. /\ RouteTypes /\ ndb \in Databases /\ ledger \in Ledgers /\ tick \in Ticks /\ TickShape /\ HappenedTypes
  BY DEF RouteInv, RouteTypes
<1>2. tick.pc = "build" /\ UNCHANGED happened
  BY DEF TickBuilds
<1>3. tick.at = Legacy /\ tick.routes = ledger.seen /\ tick.routes \subseteq Names /\ tick.routes # {}
  BY <1>1, <1>2, TickParts DEF TickShape, OwingInv, TickLinks, ReplayInv, Forward
<1>4. with \subseteq built /\ built \subseteq tick.routes  OBVIOUS
<1>5. \A n \in with : wm[n] = CursorAt(ndb, key(n)) /\ CursorAt(ndb, key(n)) # NoCursor
  OBVIOUS
<1>6. ASSUME NEW n \in built, single PROVE ledger.seen = {n}
  <2>1. IsFiniteSet(built)  BY <1>3, FS_Subset, RoutesAssumption
  <2>2. \E x : built = {x}
    <3> HIDE DEF built
    <3> QED  BY <1>6, <2>1, FS_Singleton
  <2> QED  BY <1>3, <1>6, <2>2
<1>7. \/ /\ tick' = NoTick /\ UNCHANGED <<ndb, ledger>>
      \/ /\ with = {} /\ ndb' \in {ndb, [ndb EXCEPT !.shared = head]}
         /\ tick' = next /\ UNCHANGED ledger
      \/ /\ ndb' = parkLifecycleWatermark(ndb) /\ ledger' = Without(ledger, Of("task"))
         /\ tick' = [next EXCEPT !.todo = {}]
      \/ /\ ndb' = SkipForAll(ndb, off) /\ ledger' = Without(ledger, off) /\ tick' = next
  BY DEF TickBuilds, skipLifecycleMutedEvents
<1>8. off \in SUBSET Ids /\ off \subseteq Of("task")
  <2>1. off \subseteq Of("task")  OBVIOUS
  <2> QED  BY <1>1, <2>1, EntryIds
<1>9. head \in Nat /\ head \in Positions  BY <1>1, HeadWithin, EntryIds, RouteNumbers
<1> HIDE DEF off, lowest, first, head
<1>10. ASSUME ~ledger.half, NEW n \in with PROVE Covers(ledger.may, ndb, wm[n], n)
  <2>1. Based(ndb)  BY <1>2, <1>10 DEF ReplayInv, PlacesInv
  <2>2. n \in ledger.seen /\ (single => ledger.seen = {n})  BY <1>3, <1>4, <1>6
  <2>3. wm[n] = CursorAt(ndb, key(n)) /\ CursorAt(ndb, key(n)) # NoCursor  BY <1>5
  <2> HIDE DEF single, wm, with, built
  <2>4. Covers(ledger.may, ndb, CursorAt(ndb, key(n)), n)
    <3>1. PICK k : k = key(n)  OBVIOUS
    <3> QED  BY <1>1, <1>10, <2>1, <2>2, <2>3, <3>1, KeyCovers
  <2> QED  BY <2>3, <2>4
<1> HIDE DEF wm
<1>11. with \subseteq ledger.seen  BY <1>3, <1>4
<1> HIDE DEF with
<1>12. CASE tick' = NoTick /\ UNCHANGED <<ndb, ledger>>
  <2>1. tick'.pc = "idle" /\ tick'.at = Legacy  BY <1>12, NoTickTyped
  <2>2. Forgotten' /\ Forward'  BY <1>12, <2>1 DEF ReplayInv, Forgotten, Forward
  <2>3. ASSUME ~ledger.half PROVE PlacesInv' /\ CandInv'
    <3>1. PlacesInv /\ Based(ndb)  BY <1>2, <2>3 DEF ReplayInv, PlacesInv
    <3>2. PlacesInv'  BY <1>2, <1>12, <2>1, <3>1, SamePlaces
    <3>3. CandInv'  BY <1>2, <2>1, CandFollows
    <3> QED  BY <3>2, <3>3
  <2> QED  BY <1>12, <2>2, <2>3 DEF ReplayInv
<1>13. ASSUME tick' \in {next, [next EXCEPT !.todo = {}]}
       PROVE  /\ tick'.pc = "task" /\ tick'.wm = wm /\ tick'.todo \in {with, {}} /\ tick'.at = Legacy
              /\ tick'.routes = tick.routes /\ (tick' = [next EXCEPT !.todo = {}] => tick'.todo = {})
              /\ (tick' = next => tick'.todo = with)
  <2>1. /\ next.pc = "task" /\ next.wm = wm /\ next.todo = with
        /\ next.at = Legacy /\ next.routes = tick.routes
        /\ DOMAIN next = DOMAIN tick /\ "todo" \in DOMAIN next
    BY <1>1, <1>3 DEF Ticks
  <2> HIDE DEF next
  <2>2. CASE tick' = next  BY <2>1, <2>2
  <2>3. CASE tick' = [next EXCEPT !.todo = {}]  BY <2>1, <2>3
  <2> QED  BY <1>13, <2>2, <2>3
<1>14. ASSUME tick'.pc = "task", tick'.at = Legacy, tick'.routes = tick.routes, ndb'.stamp = ndb.stamp,
              ndb'.clawBase <=> ndb.clawBase
       PROVE  Forward'
  BY <1>3, <1>14 DEF ReplayInv, Forward
<1>15. CASE /\ with = {} /\ ndb' \in {ndb, [ndb EXCEPT !.shared = head]}
            /\ tick' = next /\ UNCHANGED ledger
  <2>1. /\ tick'.pc = "task" /\ tick'.todo = {} /\ tick'.at = Legacy /\ tick'.routes = tick.routes
    BY <1>13, <1>15
  <2>2. /\ ndb'.cursor = ndb.cursor /\ ndb'.stamp = ndb.stamp /\ ndb'.rows = ndb.rows
        /\ ndb'.shared \in {ndb.shared, head}
    BY <1>1, <1>9, <1>15 DEF Databases
  <2>3. (ndb'.clawBase <=> ndb.clawBase) /\ (ndb'.latch <=> ndb.latch)
    BY <1>1, <1>9, <1>15 DEF Databases
  <2>4. Forgotten' /\ Forward'  BY <1>14, <1>15, <2>1, <2>2, <2>3 DEF ReplayInv, Forgotten
  <2>5. ASSUME ~ledger.half PROVE PlacesInv' /\ CandInv'
    <3>1. PlacesInv  BY <2>5 DEF ReplayInv
    <3>2. ASSUME NEW n, NEW p PROVE Covers(ledger.may, ndb', p, n) <=> Covers(ledger.may, ndb, p, n)
      BY <2>2 DEF Covers, Known
    <3>3. ASSUME NEW n PROVE KnowsClaws(ledger.may, ndb', n) <=> KnowsClaws(ledger.may, ndb, n)
      BY <2>2 DEF KnowsClaws, Known
    <3>4. \A n : Covers(ledger.may, ndb, head, n)
      <4>1. head \in Int /\ head >= lifecycleMaxEventRowID  BY <1>9 DEF head
      <4> QED  BY <1>1, <4>1, HeadCovers
    <3>5. Placing(ledger.may, ndb)  BY <3>1 DEF PlacesInv
    <3>6. Placing(ledger'.may, ndb')
      <4>1. CASE ndb'.shared = ndb.shared  BY <1>15, <2>2, <3>2, <3>3, <3>5, <4>1 DEF Placing
      <4>2. CASE ndb'.shared = head  BY <1>15, <2>2, <3>2, <3>3, <3>4, <3>5, <4>2 DEF Placing
      <4> QED  BY <2>2, <4>1, <4>2
    <3>7. Stamped(ndb')  BY <2>2, <2>3, <3>1 DEF PlacesInv, Stamped
    <3>8. ~ndb'.clawBase /\ ndb'.shared # NoCursor =>
             \A n \in ledger'.seen : ndb'.cursor[n] = NoCursor => Covers(ledger'.may, ndb', ndb'.shared, n)
      <4>1. CASE ndb'.shared = ndb.shared  BY <1>15, <2>2, <2>3, <3>1, <3>2, <4>1 DEF PlacesInv
      <4>2. CASE ndb'.shared = head  BY <1>15, <3>2, <3>4, <4>2
      <4> QED  BY <2>2, <4>1, <4>2
    <3>9. Lone(ndb', ledger'.seen)
      BY <1>2, <1>15, <2>2, <2>3, <3>1 DEF PlacesInv, Lone, lifecycleRoutingSchemeLive
    <3>10. PlacesInv'  BY <1>2, <2>1, <3>6, <3>7, <3>8, <3>9, PlacesFollow
    <3>11. CandInv'  BY <1>2, <2>1, CandFollows
    <3> QED  BY <3>10, <3>11
  <2> QED  BY <1>15, <2>4, <2>5 DEF ReplayInv
<1>16. CASE /\ ndb' = parkLifecycleWatermark(ndb) /\ ledger' = Without(ledger, Of("task"))
            /\ tick' = [next EXCEPT !.todo = {}]
  <2>1. /\ tick'.pc = "task" /\ tick'.todo = {} /\ tick'.at = Legacy /\ tick'.routes = tick.routes
    BY <1>13, <1>16
  <2>2. /\ ndb'.stamp = ndb.stamp /\ (ndb'.clawBase <=> ndb.clawBase) /\ ndb'.rows = ndb.rows
        /\ (ndb'.latch <=> ndb.latch)
        /\ ndb.shared = NoCursor <=> ndb'.shared = NoCursor
        /\ ndb.shared # NoCursor => ndb'.shared >= head
        /\ \A n \in Names : /\ ndb.cursor[n] = NoCursor <=> ndb'.cursor[n] = NoCursor
                            /\ ndb.cursor[n] # NoCursor => ndb'.cursor[n] >= head
        /\ ndb'.shared \in Int /\ \A n \in Names : ndb'.cursor[n] \in Int
    <3>1. ndb' \in Databases  BY <1>1, <1>16, ParkParts
    <3> QED  BY <1>1, <1>16, <3>1, ParkParts, DatabaseParts DEF head
  <2>3. /\ ledger'.seen = ledger.seen /\ (ledger'.half <=> ledger.half)
        /\ \A n \in Names : ledger'.may[n] = ledger.may[n] \ Of("task")
    BY <1>1, <1>16, WithoutParts
  <2>4. Forgotten' /\ Forward'  BY <1>14, <2>1, <2>2, <2>3 DEF ReplayInv, Forgotten
  <2>5. ASSUME ~ledger.half PROVE PlacesInv' /\ CandInv'
    <3>1. PlacesInv  BY <2>5 DEF ReplayInv
    <3>2. ASSUME NEW n, NEW p \in Int, p >= head PROVE Covers(ledger'.may, ndb', p, n)
      BY <1>1, <3>2, HeadCovers DEF head
    <3>3. ASSUME NEW n \in Names, KnowsClaws(ledger.may, ndb, n) PROVE KnowsClaws(ledger'.may, ndb', n)
      <4>1. Of("claw") \cap Of("task") = {}  BY DEF Of
      <4> QED  BY <2>2, <2>3, <3>3, <4>1 DEF KnowsClaws, Known
    <3>4. Placing(ledger'.may, ndb')
      <4>1. \A n \in Names : n \in ndb.stamp => KnowsClaws(ledger.may, ndb, n)
        BY <3>1 DEF PlacesInv, Placing
      <4> QED  BY <2>2, <3>2, <3>3, <4>1 DEF Placing
    <3>5. Stamped(ndb')  BY <2>2, <3>1 DEF PlacesInv, Stamped
    <3>6. ~ndb'.clawBase /\ ndb'.shared # NoCursor =>
             \A n \in ledger'.seen : ndb'.cursor[n] = NoCursor => Covers(ledger'.may, ndb', ndb'.shared, n)
      BY <2>2, <3>2
    <3>7. Lone(ndb', ledger'.seen)
      <4> SUFFICES ASSUME NEW n, ledger.seen = {n}, lifecycleRoutingSchemeLive(ndb')
                   PROVE  n \in ndb'.stamp \/ ndb'.cursor[n] # NoCursor
        BY <2>3 DEF Lone
      <4>1. lifecycleRoutingSchemeLive(ndb)  BY <2>2 DEF lifecycleRoutingSchemeLive
      <4>2. n \in ndb.stamp \/ ndb.cursor[n] # NoCursor  BY <1>2, <3>1, <4>1 DEF PlacesInv, Lone
      <4>3. n \in Names  BY <1>3
      <4> QED  BY <2>2, <4>2, <4>3
    <3>8. PlacesInv'  BY <1>2, <2>1, <3>4, <3>5, <3>6, <3>7, PlacesFollow
    <3>9. CandInv'  BY <1>2, <2>1, CandFollows
    <3> QED  BY <3>8, <3>9
  <2> QED  BY <2>3, <2>4, <2>5 DEF ReplayInv
<1>17. CASE ndb' = SkipForAll(ndb, off) /\ ledger' = Without(ledger, off) /\ tick' = next
  <2>1. /\ tick'.pc = "task" /\ tick'.todo = with /\ tick'.at = Legacy /\ tick'.routes = tick.routes
        /\ tick'.wm = wm
    BY <1>13, <1>17
  <2>2. /\ ndb'.shared = ndb.shared /\ ndb'.cursor = ndb.cursor /\ ndb'.stamp = ndb.stamp
        /\ (ndb'.clawBase <=> ndb.clawBase) /\ (ndb'.latch <=> ndb.latch)
        /\ \A t \in Tables : \A j : j \in ndb'.rows[t] <=> j \in ndb.rows[t] \/ (t = Legacy /\ j \in off)
    BY <1>1, <1>8, <1>17, SkipParts
  <2>3. /\ ledger'.seen = ledger.seen /\ (ledger'.half <=> ledger.half)
        /\ \A n \in Names : ledger'.may[n] = ledger.may[n] \ off
    BY <1>1, <1>17, WithoutParts
  <2>4. Forgotten' /\ Forward'  BY <1>14, <2>1, <2>2, <2>3 DEF ReplayInv, Forgotten
  <2>5. ASSUME ~ledger.half PROVE PlacesInv' /\ CandInv'
    <3>1. PlacesInv  BY <2>5 DEF ReplayInv
    <3>2. \A n \in Names : \A i : i \in Known(ledger.may, ndb, n) => i \in Known(ledger'.may, ndb', n)
      BY <2>2, <2>3, RouteNumbers DEF Known
    <3>3. ASSUME NEW n \in Names, NEW p, Covers(ledger.may, ndb, p, n) PROVE Covers(ledger'.may, ndb', p, n)
      BY <3>2, <3>3 DEF Covers
    <3>4. Placing(ledger'.may, ndb')
      <4>1. Placing(ledger.may, ndb)  BY <3>1 DEF PlacesInv
      <4> QED  BY <2>2, <3>2, <4>1, KnownPlacing
    <3>5. Stamped(ndb')  BY <2>2, <3>1 DEF PlacesInv, Stamped
    <3>6. ~ndb'.clawBase /\ ndb'.shared # NoCursor =>
             \A n \in ledger'.seen : ndb'.cursor[n] = NoCursor => Covers(ledger'.may, ndb', ndb'.shared, n)
      BY <1>3, <2>2, <2>3, <3>1, <3>3 DEF PlacesInv
    <3>7. Lone(ndb', ledger'.seen)
      BY <1>2, <2>2, <2>3, <3>1 DEF PlacesInv, Lone, lifecycleRoutingSchemeLive
    <3>8. PlacesInv'  BY <1>2, <2>1, <3>4, <3>5, <3>6, <3>7, PlacesFollow
    <3>9. \A n \in with : Covers(ledger'.may, ndb', wm[n], n)
      BY <1>3, <1>10, <1>11, <2>5, <3>3
    <3>10. CandInv'  BY <1>2, <2>1, <3>9, CandFollows
    <3> QED  BY <3>8, <3>10
  <2> QED  BY <2>3, <2>4, <2>5 DEF ReplayInv
<1> QED  BY <1>7, <1>12, <1>15, <1>16, <1>17

\* What the baseline of one route adds: nothing, or its stamp, which comes with the
\* claw states so far on record unless the route is the only one of a hub that has
\* none of its own.
LEMMA BaselineStamps ==
    ASSUME HappenedTypes, NEW d \in Databases, NEW n \in Names, NEW b, b = BaselineOf(d, n)
    PROVE  /\ n \in d.stamp => b.may /\ b.db = d
           /\ b.may => n \in b.db.stamp
           /\ b.db = d \/ n \in b.db.stamp
           /\ n \notin d.stamp /\ n \in b.db.stamp =>
                 \/ singleRoute /\ ~lifecycleRoutingSchemeLive(d)
                 \/ /\ Of("claw") \subseteq b.db.rows[n]
                    /\ d.cursor[n] # NoCursor \/ (singleRoute /\ lifecycleRoutingSchemeLive(d))
<1> DEFINE s == lifecycleClawRouteSkip(d, n, Of("claw"))
           seeded == [s EXCEPT !.stamp = s.stamp \cup {n}]
           stamped == [d EXCEPT !.stamp = d.stamp \cup {n}]
<1>1. Of("claw") \in SUBSET Ids  BY EntryIds
<1>2. /\ s \in Databases
      /\ \A t \in Tables : \A j : j \in s.rows[t] <=> j \in d.rows[t] \/ (t = n /\ j \in Of("claw"))
  BY <1>1, RouteSkipParts
<1>3. CASE n \in d.stamp
  <2>1. b = [may |-> TRUE, db |-> d]  BY <1>3 DEF BaselineOf
  <2> QED  BY <1>3, <2>1
<1>4. CASE n \notin d.stamp /\ singleRoute /\ ~lifecycleRoutingSchemeLive(d)
  <2>1. b = [may |-> TRUE, db |-> stamped]  BY <1>4 DEF BaselineOf
  <2>2. stamped.stamp = d.stamp \cup {n}  BY DEF Databases
  <2> HIDE DEF stamped
  <2> QED  BY <1>4, <2>1, <2>2
<1>5. CASE n \notin d.stamp /\ ~(singleRoute /\ ~lifecycleRoutingSchemeLive(d)) /\ (singleRoute \/ d.cursor[n] # NoCursor)
  <2>1. b = [may |-> FALSE, db |-> seeded]  BY <1>5 DEF BaselineOf
  <2> HIDE DEF s
  <2>2. seeded.stamp = s.stamp \cup {n} /\ seeded.rows = s.rows  BY <1>2 DEF Databases
  <2>3. Of("claw") \subseteq s.rows[n]  BY <1>2, RouteNumbers
  <2> HIDE DEF seeded
  <2> QED  BY <1>5, <2>1, <2>2, <2>3
<1>6. CASE n \notin d.stamp /\ ~singleRoute /\ ~(d.cursor[n] # NoCursor)
  <2>1. b = [may |-> FALSE, db |-> d]  BY <1>6 DEF BaselineOf
  <2> QED  BY <1>6, <2>1
<1> QED  BY <1>3, <1>4, <1>5, <1>6

\* The tick after a route of the claw pass.
LEMMA AfterRouteReplay ==
    ASSUME RouteTypes, tick.pc = "claw", NEW n, tick' = AfterRoute(n)
    PROVE  tick'.pc \in {"idle", "claw"} /\ tick'.at = Legacy /\ (tick'.pc = "claw" => tick'.routes = tick.routes)
<1>1. CASE tick' = NoTick  BY <1>1, NoTickTyped
<1>2. CASE tick' = [tick EXCEPT !.at = Legacy, !.todo = @ \ {n}, !.cand = {}]
  BY <1>2 DEF Ticks, RouteTypes
<1> QED  BY <1>1, <1>2 DEF AfterRoute

\* The claw states a route selects it knows.
LEMMA ClawRouteStartsReplay ==
    ASSUME RouteInv, OwingInv, ReplayInv, NEW n \in Names, ClawRouteStarts(n) PROVE ReplayInv'
<1> DEFINE b == BaselineOf(ndb, n)
           rejected == (Types \ tick.muted) \ Accepts[n]
           off == Of("claw") \cap Typed(rejected)
           d == IF rejected = {} THEN b.db ELSE lifecycleClawRouteSkip(b.db, n, off)
           cand == (Of("claw") \cap Typed(Accepts[n] \ tick.muted)) \ (d.rows[Legacy] \cup d.rows[n])
<1>1. /\ RouteTypes /\ ndb \in Databases /\ tick \in Ticks /\ TickShape /\ HappenedTypes
  BY DEF RouteInv, RouteTypes
<1>2. /\ tick.pc = "claw" /\ tick.at = Legacy /\ n \in tick.todo
      /\ UNCHANGED <<happened, nconf, unbuildable, stash, ledger>>
      /\ \/ ndb' = d /\ tick' = [tick EXCEPT !.at = n, !.cand = cand] /\ b.may
         \/ ndb' = b.db /\ tick' = AfterRoute(n)
  BY DEF ClawRouteStarts
<1>3. n \in tick.built /\ n \in ledger.seen /\ tick.routes = ledger.seen /\ tick.routes # {} /\ ndb.clawBase
  BY <1>2 DEF OwingInv, TickLinks, ReplayInv, Forward
<1>4. /\ b.db \in Databases
      /\ b.db.shared = ndb.shared /\ b.db.cursor = ndb.cursor /\ (b.db.clawBase <=> ndb.clawBase)
      /\ b.db.stamp \in {ndb.stamp, ndb.stamp \cup {n}}
      /\ \A t \in Tables : ndb.rows[t] \subseteq b.db.rows[t]
  BY <1>1, BaselineParts
<1>5. /\ b.may => n \in b.db.stamp
      /\ b.db = ndb \/ n \in b.db.stamp
      /\ n \notin ndb.stamp /\ n \in b.db.stamp =>
            \/ singleRoute /\ ~lifecycleRoutingSchemeLive(ndb)
            \/ /\ Of("claw") \subseteq b.db.rows[n]
               /\ ndb.cursor[n] # NoCursor \/ (singleRoute /\ lifecycleRoutingSchemeLive(ndb))
  <2>1. PICK c : c = b  OBVIOUS
  <2> QED  BY <1>1, <2>1, BaselineStamps
<1>6. off \in SUBSET Ids /\ cand \subseteq Of("claw")
  BY <1>1, EntryIds
<1> HIDE DEF b, off, cand, rejected
<1>7. /\ d.shared = ndb.shared /\ d.cursor = ndb.cursor /\ (d.clawBase <=> ndb.clawBase)
      /\ d.stamp = b.db.stamp
      /\ \A t \in Tables : b.db.rows[t] \subseteq d.rows[t]
  <2>1. CASE d = b.db  BY <1>4, <2>1
  <2>2. CASE d = lifecycleClawRouteSkip(b.db, n, off)
    <3>1. /\ d.shared = b.db.shared /\ d.cursor = b.db.cursor /\ d.stamp = b.db.stamp
          /\ d.clawBase = b.db.clawBase
          /\ \A t \in Tables : \A j : j \in d.rows[t] <=> j \in b.db.rows[t] \/ (t = n /\ j \in off)
      BY <1>4, <1>6, <2>2, RouteSkipParts
    <3> HIDE DEF d
    <3> QED  BY <1>4, <3>1
  <2> QED  BY <2>1, <2>2
<1> HIDE DEF d
<1>8. /\ ndb'.shared = ndb.shared /\ ndb'.cursor = ndb.cursor /\ ndb'.clawBase
      /\ ndb'.stamp = b.db.stamp /\ \A t \in Tables : b.db.rows[t] \subseteq ndb'.rows[t]
      /\ \A t \in Tables : ndb.rows[t] \subseteq ndb'.rows[t]
      /\ ndb' = ndb \/ n \in ndb'.stamp
  BY <1>2, <1>3, <1>4, <1>5, <1>7
<1>9. /\ tick'.pc \in {"idle", "claw"} /\ (tick'.pc = "claw" => tick'.routes = tick.routes)
      /\ \/ tick'.at = Legacy
         \/ tick'.at = n /\ tick'.cand = cand /\ n \in ndb'.stamp
  <2>1. CASE tick' = AfterRoute(n)  BY <1>1, <1>2, <2>1, AfterRouteReplay
  <2>2. CASE tick' = [tick EXCEPT !.at = n, !.cand = cand] /\ ndb' = d /\ b.may
    <3>1. tick'.pc = "claw" /\ tick'.routes = tick.routes /\ tick'.at = n /\ tick'.cand = cand
      BY <1>1, <1>2, <2>2 DEF Ticks
    <3> QED  BY <1>5, <1>7, <2>2, <3>1
  <2> QED  BY <1>2, <2>1, <2>2
<1>10. \A m : m \in ndb'.stamp /\ m \notin ndb.stamp => m = n  BY <1>4, <1>8
<1>11. Forgotten'  BY <1>2, <1>3, <1>8, <1>10 DEF ReplayInv, Forgotten
<1>12. Forward'  BY <1>3, <1>8, <1>9 DEF Forward
<1>13. ASSUME ~ledger.half PROVE PlacesInv' /\ CandInv'
  <2>1. PlacesInv  BY <1>13 DEF ReplayInv
  <2>2. singleRoute => ledger.seen = {n}  BY <1>1, <1>3, OneRoute
  <2>3. n \notin ndb.stamp /\ n \in ndb'.stamp => Of("claw") \subseteq b.db.rows[n] /\ ndb.cursor[n] # NoCursor
    <3> SUFFICES ASSUME n \notin ndb.stamp, n \in b.db.stamp
                 PROVE  Of("claw") \subseteq b.db.rows[n] /\ ndb.cursor[n] # NoCursor
      BY <1>8
    <3>1. CASE singleRoute /\ ~lifecycleRoutingSchemeLive(ndb)
      <4>1. ndb.stamp # {}  BY <1>3, <2>1, <3>1 DEF PlacesInv, Stamped, lifecycleRoutingSchemeLive
      <4>2. ndb.stamp \subseteq Names  BY <1>1, DatabaseParts
      <4>3. ndb.stamp \subseteq {n}  BY <2>2, <3>1, <4>2 DEF ReplayInv, Forgotten
      <4> QED  BY <4>1, <4>3
    <3>2. CASE singleRoute /\ lifecycleRoutingSchemeLive(ndb)
      <4>1. Lone(ndb, ledger.seen)  BY <1>2, <2>1 DEF PlacesInv
      <4>2. ndb.cursor[n] # NoCursor  BY <2>2, <3>2, <4>1 DEF Lone
      <4> QED  BY <1>5, <3>2, <4>2
    <3> QED  BY <1>5, <3>1, <3>2
  <2>4. Placing(ledger.may, ndb')
    <3>1. Placing(ledger.may, ndb)  BY <2>1 DEF PlacesInv
    <3>2. ASSUME NEW m \in Names, m \in ndb'.stamp, m \notin ndb.stamp
          PROVE  KnowsClaws(ledger.may, ndb', m) /\ ndb'.cursor[m] # NoCursor
      <4>1. m = n /\ n \in Tables  BY <1>10, <3>2, RouteNumbers
      <4>2. Of("claw") \subseteq ndb'.rows[m]  BY <1>8, <2>3, <3>2, <4>1
      <4>3. ndb'.cursor[m] # NoCursor  BY <1>8, <2>3, <3>2, <4>1
      <4>4. KnowsClaws(ledger.may, ndb', m)  BY <4>2 DEF KnowsClaws, Known
      <4> QED  BY <4>3, <4>4
    <3> QED  BY <1>1, <1>8, <3>1, <3>2, StampsPlacing
  <2>5. Stamped(ndb')
    <3>1. CASE ndb' = ndb  BY <2>1, <3>1 DEF PlacesInv
    <3>2. CASE n \in ndb'.stamp  BY <3>2 DEF Stamped
    <3> QED  BY <1>8, <3>1, <3>2
  <2>6. Based(ndb')  BY <1>8 DEF Based
  <2>7. Lone(ndb', ledger'.seen)
    <3>1. CASE ndb' = ndb  BY <1>2, <2>1, <3>1 DEF PlacesInv
    <3>2. CASE n \in ndb'.stamp  BY <1>2, <1>3, <3>2 DEF Lone
    <3> QED  BY <1>8, <3>1, <3>2
  <2>8. PlacesInv'  BY <1>2, <1>8, <2>4, <2>5, <2>6, <2>7, PlacesFollow
  <2>9. tick'.at # Legacy =>
           \A i \in tick'.cand \cap Accepted(tick'.at) : i \in Known(ledger'.may, ndb', tick'.at)
    <3> SUFFICES ASSUME tick'.at # Legacy, NEW i \in tick'.cand \cap Accepted(tick'.at)
                 PROVE  i \in Known(ledger'.may, ndb', tick'.at)
      OBVIOUS
    <3>1. tick'.at = n /\ i \in Of("claw") \cap Accepted(n) /\ n \in ndb'.stamp  BY <1>6, <1>9
    <3>2. KnowsClaws(ledger.may, ndb', n)  BY <2>4, <3>1 DEF Placing
    <3> QED  BY <1>2, <3>1, <3>2 DEF KnowsClaws
  <2>10. CandInv'  BY <1>2, <1>9, <2>9, CandFollows
  <2> QED  BY <2>8, <2>10
<1> QED  BY <1>2, <1>11, <1>12, <1>13 DEF ReplayInv

\* The claw pass of a route is over.
LEMMA ClawRouteEndsReplay == ASSUME RouteInv, OwingInv, ReplayInv, ClawRouteEnds PROVE ReplayInv'
<1>1. RouteTypes  BY DEF RouteInv
<1>2. tick.pc = "claw" /\ tick' = AfterRoute(tick.at) /\ UNCHANGED <<happened, ndb, stash, ledger>>
  BY DEF ClawRouteEnds
<1>3. tick'.pc \in {"idle", "claw"} /\ tick'.at = Legacy /\ (tick'.pc = "claw" => tick'.routes = tick.routes)
  BY <1>1, <1>2, AfterRouteReplay
<1>4. Forgotten' /\ Forward'  BY <1>2, <1>3 DEF ReplayInv, Forgotten, Forward
<1>5. ASSUME ~ledger.half PROVE PlacesInv' /\ CandInv'
  <2>1. PlacesInv /\ Based(ndb)  BY <1>2, <1>5 DEF ReplayInv, PlacesInv
  <2>2. PlacesInv'  BY <1>2, <2>1, SamePlaces DEF PlacesInv
  <2>3. CandInv'  BY <1>2, <1>3, CandFollows
  <2> QED  BY <2>2, <2>3
<1> QED  BY <1>2, <1>4, <1>5 DEF ReplayInv

\* What happens a route knows of if it is configured, and nothing is looked at behind
\* it if it is not.
LEMMA HappensReplay ==
    ASSUME RouteInv, OwingInv, ReplayInv, NEW k \in Kinds, Happens(k[1], k[2]) PROVE ReplayInv'
<1> DEFINE e == Len(happened) + 1
           to == {n \in ledger.seen : k[2] \in Accepts[n]}
           may == [n \in Names |-> IF n \in to THEN ledger.may[n] \cup {e} ELSE ledger.may[n]]
<1>1. /\ RouteTypes /\ ndb \in Databases /\ ledger \in Ledgers /\ HappenedTypes
  BY DEF RouteInv, RouteTypes
<1>2. /\ happened' = Append(happened, [src |-> k[1], type |-> k[2]])
      /\ UNCHANGED <<ndb, tick>>
      /\ ledger'.seen = ledger.seen /\ (ledger'.half <=> ledger.half) /\ ledger'.may = may
  BY <1>1 DEF Happens, Ledgers
<1>3. Len(happened) \in Nat /\ DOMAIN happened = 1 .. Len(happened) /\ e \notin DOMAIN happened
  BY <1>1, HeadWithin
<1>4. /\ Len(happened') = e /\ DOMAIN happened' = DOMAIN happened \cup {e}
      /\ happened'[e] = [src |-> k[1], type |-> k[2]]
      /\ \A i \in DOMAIN happened : happened'[i] = happened[i]
  <2>1. happened \in Seq([src : {"task", "claw"}, type : Types])  BY <1>1 DEF HappenedTypes
  <2>2. [src |-> k[1], type |-> k[2]] \in [src : {"task", "claw"}, type : Types]  BY RoutesAssumption
  <2> QED  BY <1>2, <1>3, <2>1, <2>2
<1>5. \A n \in Names : \A i : i \in may[n] <=> i \in ledger.may[n] \/ (i = e /\ n \in to)
  OBVIOUS
<1> HIDE DEF may, e
<1>6. ledger.seen \subseteq Names  BY <1>1 DEF Ledgers
<1>7. Forgotten'  BY <1>2, <1>5 DEF ReplayInv, Forgotten
<1>8. Forward'  BY <1>2 DEF ReplayInv, Forward
<1>9. ASSUME ~ledger.half PROVE PlacesInv' /\ CandInv'
  <2>1. PlacesInv /\ CandInv  BY <1>9 DEF ReplayInv
  <2>2. ASSUME NEW i \in DOMAIN happened
        PROVE  /\ i \in Of("task")' <=> i \in Of("task")
               /\ i \in Of("claw")' <=> i \in Of("claw")
               /\ \A n : i \in Accepted(n)' <=> i \in Accepted(n)
    BY <1>2, <1>4 DEF Of, Accepted
  <2>3. ASSUME NEW n, NEW i, i \in Accepted(n)', i \notin DOMAIN happened
        PROVE  i = e /\ k[2] \in Accepts[n]
    BY <1>4, <2>3 DEF Accepted
  <2>4. ASSUME NEW n \in ledger.seen, NEW i, i \in Accepted(n)',
               i \in DOMAIN happened => i \in Known(ledger.may, ndb, n)
        PROVE  i \in Known(may, ndb, n)
    <3>1. n \in Names  BY <1>6
    <3>2. CASE i \in DOMAIN happened  BY <1>5, <2>4, <3>1, <3>2 DEF Known
    <3>3. CASE i \notin DOMAIN happened
      <4>1. i = e /\ n \in to  BY <2>3, <2>4, <3>3
      <4> QED  BY <1>5, <3>1, <4>1 DEF Known
    <3> QED  BY <3>2, <3>3
  <2>5. ASSUME NEW n \in ledger.seen, NEW p, Covers(ledger.may, ndb, p, n)
        PROVE  \A i \in Of("task")' \cap Accepted(n)' : i > p => i \in Known(may, ndb, n)
    <3> SUFFICES ASSUME NEW i \in Of("task")' \cap Accepted(n)', i > p PROVE i \in Known(may, ndb, n)
      OBVIOUS
    <3>1. i \in DOMAIN happened => i \in Known(ledger.may, ndb, n)
      <4>1. i \in DOMAIN happened => i \in Of("task") \cap Accepted(n)  BY <2>2
      <4> QED  BY <2>5, <4>1 DEF Covers
    <3> QED  BY <2>4, <3>1
  <2>6. ASSUME NEW n \in ledger.seen, KnowsClaws(ledger.may, ndb, n)
        PROVE  \A i \in Of("claw")' \cap Accepted(n)' : i \in Known(may, ndb, n)
    <3> SUFFICES ASSUME NEW i \in Of("claw")' \cap Accepted(n)' PROVE i \in Known(may, ndb, n)
      OBVIOUS
    <3>1. i \in DOMAIN happened => i \in Known(ledger.may, ndb, n)
      <4>1. i \in DOMAIN happened => i \in Of("claw") \cap Accepted(n)  BY <2>2
      <4> QED  BY <2>6, <4>1 DEF KnowsClaws
    <3> QED  BY <2>4, <3>1
  <2>7. ASSUME NEW n \in ledger.seen, NEW p, Covers(ledger.may, ndb, p, n)
        PROVE  Covers(ledger.may, ndb, p, n)'
    <3>1. \A i \in Of("task")' \cap Accepted(n)' : i > p => i \in Known(may, ndb, n)  BY <2>5, <2>7
    <3> QED  BY <1>2, <3>1 DEF Covers, Known
  <2>8. ASSUME NEW n \in ledger.seen, KnowsClaws(ledger.may, ndb, n)
        PROVE  KnowsClaws(ledger.may, ndb, n)'
    <3>1. \A i \in Of("claw")' \cap Accepted(n)' : i \in Known(may, ndb, n)  BY <2>6, <2>8
    <3> QED  BY <1>2, <3>1 DEF KnowsClaws, Known
  <2>9. Placing(ledger.may, ndb)'
    <3>1. ASSUME NEW n \in Names
          PROVE  /\ ndb.cursor[n] # NoCursor => Covers(ledger.may, ndb, ndb.cursor[n], n)'
                 /\ n \in ndb.stamp /\ ndb.cursor[n] = NoCursor /\ ndb.shared # NoCursor
                       => Covers(ledger.may, ndb, ndb.shared, n)'
                 /\ n \in ndb.stamp => KnowsClaws(ledger.may, ndb, n)'
      <4>1. /\ ndb.cursor[n] # NoCursor => Covers(ledger.may, ndb, ndb.cursor[n], n)
            /\ n \in ndb.stamp /\ ndb.cursor[n] = NoCursor /\ ndb.shared # NoCursor
                  => Covers(ledger.may, ndb, ndb.shared, n)
            /\ n \in ndb.stamp => KnowsClaws(ledger.may, ndb, n)
        BY <2>1 DEF PlacesInv, Placing
      <4>2. CASE n \in ledger.seen
        <5>1. PICK c : c = ndb.cursor[n]  OBVIOUS
        <5>2. PICK s : s = ndb.shared  OBVIOUS
        <5>3. ndb.cursor[n] # NoCursor => Covers(ledger.may, ndb, c, n)'  BY <2>7, <4>1, <4>2, <5>1
        <5>4. n \in ndb.stamp /\ ndb.cursor[n] = NoCursor /\ ndb.shared # NoCursor
                 => Covers(ledger.may, ndb, s, n)'
          BY <2>7, <4>1, <4>2, <5>2
        <5>5. n \in ndb.stamp => KnowsClaws(ledger.may, ndb, n)'  BY <2>8, <4>1, <4>2
        <5> QED  BY <1>2, <5>1, <5>2, <5>3, <5>4, <5>5 DEF Covers
      <4>3. CASE n \notin ledger.seen  BY <4>3 DEF ReplayInv, Forgotten
      <4> QED  BY <4>2, <4>3
    <3> QED  BY <1>2, <3>1 DEF Placing
  <2>10. (~ndb.clawBase /\ ndb.shared # NoCursor =>
             \A n \in ledger.seen : ndb.cursor[n] = NoCursor => Covers(ledger.may, ndb, ndb.shared, n))'
    <3> SUFFICES ASSUME ~ndb.clawBase, ndb.shared # NoCursor, NEW n \in ledger.seen, ndb.cursor[n] = NoCursor
                 PROVE  Covers(ledger.may, ndb, ndb.shared, n)'
      BY <1>2
    <3>1. PICK s : s = ndb.shared  OBVIOUS
    <3>2. Covers(ledger.may, ndb, s, n)  BY <2>1, <3>1 DEF PlacesInv
    <3>3. Covers(ledger.may, ndb, s, n)'  BY <2>7, <3>2
    <3> QED  BY <1>2, <3>1, <3>3 DEF Covers
  <2>11. PlacesInv'
    <3>1. Stamped(ndb)' /\ (tick'.pc # "task" => Based(ndb)') /\ (tick'.pc # "idle" => Lone(ndb, ledger.seen)')
      BY <1>2, <2>1 DEF PlacesInv, Stamped, Based, Lone, lifecycleRoutingSchemeLive
    <3> QED  BY <2>9, <2>10, <3>1 DEF PlacesInv
  <2>12. (tick.pc = "task" => \A n \in tick.todo : Covers(ledger.may, ndb, tick.wm[n], n))'
    <3> SUFFICES ASSUME tick.pc = "task", NEW n \in tick.todo PROVE Covers(ledger.may, ndb, tick.wm[n], n)'
      BY <1>2
    <3>1. PICK p : p = tick.wm[n]  OBVIOUS
    <3>2. n \in ledger.seen  BY DEF OwingInv, TickLinks
    <3>3. Covers(ledger.may, ndb, p, n)  BY <2>1, <3>1 DEF CandInv
    <3>4. Covers(ledger.may, ndb, p, n)'  BY <2>7, <3>2, <3>3
    <3> QED  BY <1>2, <3>1, <3>4 DEF Covers
  <2>13. (tick.at # Legacy =>
             \A i \in tick.cand \cap Accepted(tick.at) : i \in Known(ledger.may, ndb, tick.at))'
    <3> SUFFICES ASSUME tick.at # Legacy, NEW n, n = tick.at, NEW i \in tick.cand, i \in Accepted(n)'
                 PROVE  i \in Known(may, ndb, n)
      BY <1>2 DEF Known, Accepted
    <3>1. n \in Names /\ i \in DOMAIN happened
      BY <1>1, TickParts DEF OwingInv, Behind
    <3>2. i \in Accepted(n)  BY <2>2, <3>1
    <3>3. i \in Known(ledger.may, ndb, n)  BY <2>1, <3>2 DEF CandInv
    <3> QED  BY <1>5, <3>1, <3>3 DEF Known
  <2>14. CandInv'  BY <2>12, <2>13 DEF CandInv
  <2> QED  BY <2>11, <2>14
<1> QED  BY <1>2, <1>7, <1>8, <1>9 DEF ReplayInv

\* A step that leaves what is looked at alone.
LEMMA UnmovedReplay ==
    ASSUME ReplayInv, UNCHANGED <<happened, ndb, tick, ledger>> PROVE ReplayInv'
<1>1. Forgotten' /\ Forward'  BY DEF ReplayInv, Forgotten, Forward
<1>2. ASSUME ~ledger.half PROVE PlacesInv' /\ CandInv'
  <2>1. PlacesInv /\ CandInv  BY <1>2 DEF ReplayInv
  <2>2. PlacesInv'  BY <2>1, SamePlaces DEF PlacesInv
  <2>3. CandInv'  BY <2>1, CandFollows DEF CandInv
  <2> QED  BY <2>2, <2>3
<1> QED  BY <1>1, <1>2 DEF ReplayInv

\* What happens around the notifier.
LEMMA SurroundingsReplay ==
    ASSUME ReplayInv, Saves \/ \E n \in Names : Breaks(n) \/ Repairs(n) PROVE ReplayInv'
<1>1. UNCHANGED <<happened, ndb, tick, ledger>>  BY DEF Saves, Breaks, Repairs
<1> QED  BY <1>1, UnmovedReplay

\* Whatever is wrong, a route that was dropped leaves no trace, and a stamp comes with
\* the claw baseline.
LEMMA BaselinesShape ==
    ASSUME HappenedTypes, NEW d \in Databases, NEW routes \in SUBSET Names, Pruned(d, routes),
           d.stamp # {} => d.clawBase, NEW e, e = ensureLifecycleClawRouteBaselines(d, routes)
    PROVE  e \in Databases /\ Pruned(e, routes) /\ (e.stamp # {} => e.clawBase)
<1> DEFINE new == {n \in routes \ d.stamp : d.cursor[n] # NoCursor}
           rows == [t \in DOMAIN d.rows |-> IF t \in new THEN d.rows[t] \cup Of("claw") ELSE d.rows[t]]
<1>0. e \in Databases  BY BaselinesGrow DEF Grown
<1>1. CASE e = d  BY <1>1
<1>2. CASE e = [d EXCEPT !.stamp = d.stamp \cup routes] /\ d.clawBase
  <2>1. e.cursor = d.cursor /\ e.stamp = d.stamp \cup routes /\ e.clawBase  BY <1>2 DEF Databases
  <2> QED  BY <1>0, <2>1 DEF Pruned
<1>3. CASE e = seedLifecycleClawBaseline(d, routes)
  <2>1. e.cursor = d.cursor /\ e.stamp = d.stamp \cup routes /\ e.clawBase  BY <1>3, SeedParts
  <2> QED  BY <1>0, <2>1 DEF Pruned
<1>4. CASE e = [d EXCEPT !.rows = rows, !.stamp = d.stamp \cup new, !.latch = d.latch \/ new # {}] /\ d.clawBase
  <2>1. new \subseteq routes  OBVIOUS
  <2> HIDE DEF rows, new
  <2>2. e.cursor = d.cursor /\ e.stamp = d.stamp \cup new  BY <1>4 DEF Databases
  <2>3. e.clawBase  BY <1>4 DEF Databases
  <2> QED  BY <1>0, <2>1, <2>2, <2>3 DEF Pruned
<1>5. CASE ~lifecycleRoutesNeedOwnState(d, routes)
  <2>1. e = stampLifecycleLegacyIncumbent(d, routes)  BY <1>5 DEF ensureLifecycleClawRouteBaselines
  <2> QED  BY <1>1, <1>2, <2>1 DEF stampLifecycleLegacyIncumbent
<1>6. CASE lifecycleRoutesNeedOwnState(d, routes) /\ ~d.clawBase
  <2>1. e = d \/ e = seedLifecycleClawBaseline(d, routes)  BY <1>6 DEF ensureLifecycleClawRouteBaselines
  <2> QED  BY <1>1, <1>3, <2>1
<1>7. CASE lifecycleRoutesNeedOwnState(d, routes) /\ d.clawBase
  <2>1. e = [d EXCEPT !.rows = rows, !.stamp = d.stamp \cup new, !.latch = d.latch \/ new # {}]
    BY <1>7 DEF ensureLifecycleClawRouteBaselines
  <2> QED  BY <1>4, <1>7, <2>1
<1> QED  BY <1>5, <1>6, <1>7

\* The cursors are those of configured routes.
LEMMA WatermarksShape ==
    ASSUME HappenedTypes, NEW d \in Databases, NEW routes \in SUBSET Names, Pruned(d, routes),
           d.stamp # {} => d.clawBase, NEW e, e = ensureLifecycleRouteWatermarks(d, routes)
    PROVE  e \in Databases /\ Pruned(e, routes) /\ (e.stamp # {} => e.clawBase)
<1>1. CASE ~lifecycleRoutesNeedOwnState(d, routes)
  <2>1. e = d  BY <1>1 DEF ensureLifecycleRouteWatermarks
  <2> QED  BY <2>1
<1>2. CASE lifecycleRoutesNeedOwnState(d, routes)
  <2>1. /\ e \in Databases /\ e.stamp = d.stamp /\ (e.clawBase <=> d.clawBase)
        /\ \A n \in Names \ routes : e.cursor[n] = d.cursor[n]
    BY <1>2, WatermarkParts
  <2> QED  BY <2>1 DEF Pruned
<1> QED  BY <1>1, <1>2

\* What a boot leaves is of configured routes.
LEMMA BootShape ==
    ASSUME HappenedTypes, NEW d \in Databases, NEW routes \in SUBSET Names, NEW e, e = BootState(d, routes)
    PROVE  e \in Databases /\ Pruned(e, routes) /\ (e.stamp # {} => e.clawBase)
<1> DEFINE head == lifecycleMaxEventRowID
           d1 == [d EXCEPT !.shared = IF d.shared = NoCursor THEN head ELSE d.shared]
           d2 == IF ~d1.clawBase THEN seedLifecycleClawBaseline(d1, routes)
                 ELSE IF d1.stamp # {} THEN d1
                 ELSE IF ~lifecycleRoutingSchemeLive(d1) /\ Cardinality(routes) = 1
                 THEN [d1 EXCEPT !.stamp = routes]
                 ELSE [d1 EXCEPT !.latch = TRUE]
           d3 == pruneLifecycleRouteState(d2, routes)
           d4 == ensureLifecycleRouteWatermarks(d3, routes)
<1>a. e = ensureLifecycleClawRouteBaselines(d4, routes)
  BY DEF BootState
<1>1. d1 \in Databases
  <2>1. (IF d.shared = NoCursor THEN head ELSE d.shared) \in Positions
    BY EntryIds, HeadWithin, RouteNumbers, DatabaseParts
  <2> HIDE DEF head
  <2> QED  BY <2>1 DEF Databases
<1> HIDE DEF d1
<1>2. d2 \in Databases /\ d2.clawBase
  <2>1. CASE ~d1.clawBase
    <3>1. d2 = seedLifecycleClawBaseline(d1, routes)  BY <2>1
    <3> HIDE DEF d2
    <3> QED  BY <1>1, <3>1, SeedParts
  <2>2. CASE d1.clawBase
    <3>1. d2 = d1 \/ d2 = [d1 EXCEPT !.stamp = routes] \/ d2 = [d1 EXCEPT !.latch = TRUE]
      BY <2>2
    <3> HIDE DEF d2
    <3>2. CASE d2 = d1  BY <1>1, <2>2, <3>2
    <3>3. CASE d2 = [d1 EXCEPT !.stamp = routes]  BY <1>1, <2>2, <3>3 DEF Databases
    <3>4. CASE d2 = [d1 EXCEPT !.latch = TRUE]  BY <1>1, <2>2, <3>4 DEF Databases
    <3> QED  BY <3>1, <3>2, <3>3, <3>4
  <2> QED  BY <2>1, <2>2
<1> HIDE DEF d2
<1>3. d3 \in Databases /\ Pruned(d3, routes) /\ d3.clawBase  BY <1>2, PruneParts
<1> HIDE DEF d3
<1>4. d4 \in Databases /\ Pruned(d4, routes) /\ (d4.stamp # {} => d4.clawBase)
  BY <1>3, WatermarksShape
<1> HIDE DEF d4
<1> QED  BY <1>a, <1>4, BaselinesShape

\* Only what the configured routes may be told matters.
LEMMA SeenPlacing ==
    ASSUME NEW m, NEW w, NEW d, NEW routes, Placing(m, d), Pruned(d, routes), \A n \in routes : w[n] = m[n]
    PROVE  Placing(w, d)
<1>1. ASSUME NEW n \in routes, NEW p PROVE Covers(w, d, p, n) <=> Covers(m, d, p, n)
  BY DEF Covers, Known
<1>2. ASSUME NEW n \in routes PROVE KnowsClaws(w, d, n) <=> KnowsClaws(m, d, n)
  BY DEF KnowsClaws, Known
<1>3. ASSUME NEW n \in Names
      PROVE  /\ d.cursor[n] # NoCursor => Covers(w, d, d.cursor[n], n)
             /\ n \in d.stamp /\ d.cursor[n] = NoCursor /\ d.shared # NoCursor => Covers(w, d, d.shared, n)
             /\ n \in d.stamp => KnowsClaws(w, d, n)
  <2>1. CASE n \in routes  BY <1>1, <1>2, <2>1 DEF Placing
  <2>2. CASE n \notin routes  BY <2>2 DEF Pruned
  <2> QED  BY <2>1, <2>2
<1> QED  BY <1>3 DEF Placing

\* The tables brought in line with the routes by a boot or the start of a tick.
LEMMA AlignedReplay ==
    ASSUME UNCHANGED happened, NEW routes \in SUBSET Names, routes # {},
           Pruned(ndb', routes), ndb'.stamp # {} => ndb'.clawBase,
           ledger'.seen = routes, \A n \in routes : ledger'.may[n] = ledger.may[n],
           \A n \in Names \ routes : ledger'.may[n] = {},
           ~ledger'.half => Placing(ledger.may, ndb') /\ Stamped(ndb') /\ Based(ndb') /\ Lone(ndb', routes),
           tick'.pc \in {"idle", "build"}, tick'.at = Legacy, tick'.pc = "build" => tick'.routes = routes
    PROVE  ReplayInv'
<1>1. Forgotten'  BY DEF Forgotten, Pruned
<1>2. Forward'  BY DEF Forward
<1>3. ASSUME ~ledger'.half PROVE PlacesInv' /\ CandInv'
  <2>1. Placing(ledger'.may, ndb')  BY <1>3, SeenPlacing
  <2>2. PlacesInv'  BY <1>3, <2>1, PlacesFollow DEF Based
  <2>3. CandInv'  BY CandFollows
  <2> QED  BY <2>2, <2>3
<1> QED  BY <1>1, <1>2, <1>3 DEF ReplayInv

\* A boot, unless the hub died within its first tick.
LEMMA RestartsReplay == ASSUME RouteInv, OwingInv, ReplayInv, Restarts PROVE ReplayInv'
<1> DEFINE unwritten == {p[2] : p \in stash} \cup ({tick.sent} \ {0})
           l == [ledger EXCEPT !.lost = @ \cup unwritten,
                               !.half = @ \/ (ndb.shared # NoCursor /\ ~ndb.clawBase)]
<1>1. /\ RouteTypes /\ ndb \in Databases /\ ledger \in Ledgers /\ HappenedTypes /\ stash \subseteq Tables \X Ids
      /\ nconf.routes \in SUBSET Names /\ nconf.routes # {} /\ tick \in Ticks
  BY DEF RouteInv, RouteTypes, Configs
<1>2. /\ tick' = NoTick /\ UNCHANGED happened
      /\ IF nconf.on THEN ndb' = BootState(ndb, nconf.routes) /\ ledger' = SeenBy(l, nconf.routes)
         ELSE ledger' = l /\ UNCHANGED ndb
  BY DEF Restarts
<1>3. /\ l \in Ledgers /\ l.seen = ledger.seen /\ l.may = ledger.may
      /\ l.half <=> ledger.half \/ (ndb.shared # NoCursor /\ ~ndb.clawBase)
  <2>1. ledger.lost \cup unwritten \in SUBSET Ids
    <3>1. \A p \in stash : p[2] \in Ids  BY <1>1
    <3>2. {tick.sent} \ {0} \subseteq Ids  BY <1>1, RouteNumbers DEF Ticks
    <3> QED  BY <1>1, <3>1, <3>2 DEF Ledgers
  <2>2. (ledger.half \/ (ndb.shared # NoCursor /\ ~ndb.clawBase)) \in BOOLEAN  OBVIOUS
  <2> HIDE DEF unwritten
  <2>3. l \in Ledgers /\ l.seen = ledger.seen /\ l.may = ledger.may  BY <1>1, <2>1, <2>2 DEF Ledgers
  <2>4. l.half = (ledger.half \/ (ndb.shared # NoCursor /\ ~ndb.clawBase))  BY <1>1 DEF Ledgers
  <2> HIDE DEF l
  <2> QED  BY <2>3, <2>4
<1> HIDE DEF l
<1>4. tick'.pc = "idle" /\ tick'.at = Legacy  BY <1>2, NoTickTyped
<1>5. ASSUME ~l.half PROVE PlacesInv /\ ~ledger.half /\ Based(ndb)
  BY <1>3, <1>5 DEF ReplayInv, Based
<1>6. CASE nconf.on
  <2>1. /\ ledger'.seen = nconf.routes /\ ledger'.half = l.half
        /\ \A n \in nconf.routes : ledger'.may[n] = ledger.may[n]
        /\ \A n \in Names \ nconf.routes : ledger'.may[n] = {}
    BY <1>1, <1>2, <1>3, <1>6, SeenParts
  <2>2. Pruned(ndb', nconf.routes) /\ (ndb'.stamp # {} => ndb'.clawBase)
    BY <1>1, <1>2, <1>6, BootShape
  <2>3. ASSUME ~ledger'.half
        PROVE  /\ Placing(ledger.may, ndb') /\ Stamped(ndb') /\ Based(ndb') /\ Lone(ndb', nconf.routes)
    <3>1. Placing(ledger.may, ndb) /\ Stamped(ndb) /\ Based(ndb) /\ (ndb.stamp # {} => ndb.clawBase)
      BY <1>5, <2>1, <2>3 DEF PlacesInv, ReplayInv, Forward
    <3> QED  BY <1>1, <1>2, <1>6, <3>1, BootPlacing
  <2> QED  BY <1>1, <1>2, <1>4, <2>1, <2>2, <2>3, AlignedReplay
<1>7. CASE ~nconf.on
  <2>1. UNCHANGED <<happened, ndb>> /\ ledger' = l  BY <1>2, <1>7
  <2>2. Forgotten' /\ Forward'  BY <1>3, <1>4, <2>1 DEF ReplayInv, Forgotten, Forward
  <2>3. ASSUME ~ledger'.half PROVE PlacesInv' /\ CandInv'
    <3>1. PlacesInv /\ Based(ndb)  BY <1>5, <2>1, <2>3
    <3>2. PlacesInv'  BY <1>3, <1>4, <2>1, <3>1, SamePlaces
    <3>3. CandInv'  BY <1>2, <1>4, CandFollows
    <3> QED  BY <3>2, <3>3
  <2> QED  BY <2>2, <2>3 DEF ReplayInv
<1> QED  BY <1>6, <1>7

\* The start of a tick, unless the state was unreadable when a route replaced the
\* only one; with notifications off every place moves to the head.
LEMMA StartsReplay ==
    ASSUME RouteInv, OwingInv, ReplayInv, NEW ok \in BOOLEAN, NEW readable \in BOOLEAN, TickStarts(ok, readable)
    PROVE  ReplayInv'
<1> DEFINE routes == nconf.routes
           rows == [t \in DOMAIN ndb.rows |-> ndb.rows[t] \cup {p[2] : p \in {q \in stash : q[1] = t}}]
           d == IF ok THEN [ndb EXCEPT !.rows = rows] ELSE ndb
           d1 == pruneLifecycleRouteState(d, routes)
           d2 == IF readable THEN ensureLifecycleRouteWatermarks(d1, routes) ELSE d1
           l == [ledger EXCEPT !.half = @ \/ (~readable /\ Cardinality(routes) = 1)]
           begun == [NoTick EXCEPT !.pc = "build", !.routes = routes, !.muted = nconf.muted]
<1>1. /\ RouteTypes /\ ndb \in Databases /\ ledger \in Ledgers /\ HappenedTypes /\ stash \subseteq Tables \X Ids
      /\ routes \in SUBSET Names /\ routes # {} /\ nconf.muted \in SUBSET Types
  BY DEF RouteInv, RouteTypes, Configs
<1>2. /\ tick = NoTick /\ UNCHANGED happened
      /\ IF nconf.on
         THEN /\ ndb' = ensureLifecycleClawRouteBaselines(d2, routes)
              /\ ledger' = SeenBy(l, routes) /\ tick' = begun
         ELSE /\ ndb' = parkLifecycleClawState(parkLifecycleWatermark(d))
              /\ ledger' = Without(ledger, Ids) /\ UNCHANGED tick
  BY DEF TickStarts
<1>3. /\ d \in Databases
      /\ d.shared = ndb.shared /\ d.cursor = ndb.cursor /\ d.stamp = ndb.stamp
      /\ (d.clawBase <=> ndb.clawBase) /\ (d.latch <=> ndb.latch)
      /\ \A t \in Tables : ndb.rows[t] \subseteq d.rows[t]
  <2>1. rows \in [Tables -> SUBSET Ids] /\ \A t \in Tables : ndb.rows[t] \subseteq rows[t]
    <3>1. ndb.rows \in [Tables -> SUBSET Ids]  BY <1>1 DEF Databases
    <3>2. \A t \in Tables : {p[2] : p \in {q \in stash : q[1] = t}} \subseteq Ids  BY <1>1
    <3> QED  BY <3>1, <3>2
  <2> HIDE DEF rows
  <2>2. CASE ok
    <3>1. d = [ndb EXCEPT !.rows = rows]  BY <2>2
    <3> HIDE DEF d
    <3>2. d \in Databases /\ d.rows = rows  BY <1>1, <2>1, <3>1 DEF Databases
    <3>3. /\ d.shared = ndb.shared /\ d.cursor = ndb.cursor /\ d.stamp = ndb.stamp
          /\ d.clawBase = ndb.clawBase /\ d.latch = ndb.latch
      BY <1>1, <3>1 DEF Databases
    <3> QED  BY <2>1, <3>2, <3>3
  <2>3. CASE ~ok  BY <1>1, <2>3
  <2> QED  BY <2>2, <2>3
<1> HIDE DEF d, routes
<1>4. tick.pc = "idle"  BY <1>2, NoTickTyped
<1>5. (d.stamp # {} => d.clawBase) /\ \A n \in Names \ ledger.seen : ledger.may[n] = {} /\ ndb.cursor[n] = NoCursor
         /\ n \notin ndb.stamp
  BY <1>3 DEF ReplayInv, Forward, Forgotten
<1>6. ASSUME ~ledger.half PROVE Placing(ledger.may, d) /\ Stamped(d) /\ Based(d)
  <2>1. PlacesInv /\ Placing(ledger.may, ndb) /\ Stamped(ndb) /\ Based(ndb)
    BY <1>4, <1>6 DEF ReplayInv, PlacesInv
  <2>2. \A n \in Names : \A i : i \in Known(ledger.may, ndb, n) => i \in Known(ledger.may, d, n)
    BY <1>3, RouteNumbers DEF Known
  <2>3. Placing(ledger.may, d)  BY <1>3, <2>1, <2>2, KnownPlacing
  <2> QED  BY <1>3, <2>1, <2>3 DEF Stamped, Based
<1>7. CASE nconf.on
  <2>1. l \in Ledgers /\ l.may = ledger.may
        /\ (l.half <=> ledger.half \/ (~readable /\ Cardinality(routes) = 1))
    <3>1. (ledger.half \/ (~readable /\ Cardinality(routes) = 1)) \in BOOLEAN  OBVIOUS
    <3>2. l \in Ledgers /\ l.may = ledger.may  BY <1>1, <3>1 DEF Ledgers
    <3>3. l.half = (ledger.half \/ (~readable /\ Cardinality(routes) = 1))  BY <1>1 DEF Ledgers
    <3> HIDE DEF l
    <3> QED  BY <3>2, <3>3
  <2> HIDE DEF l
  <2>2. /\ ledger'.seen = routes /\ ledger'.half = l.half
        /\ \A n \in routes : ledger'.may[n] = ledger.may[n]
        /\ \A n \in Names \ routes : ledger'.may[n] = {}
    BY <1>1, <1>2, <1>7, <2>1, SeenParts
  <2>3. d1 \in Databases /\ Pruned(d1, routes) /\ (d1.stamp # {} => d1.clawBase)
    <3>1. PICK e : e = d1  OBVIOUS
    <3>2. /\ e \in Databases /\ (e.clawBase <=> d.clawBase) /\ Pruned(e, routes)
          /\ \A n \in routes : n \in e.stamp <=> n \in d.stamp
      BY <1>1, <1>3, <3>1, PruneParts
    <3>3. e.stamp \subseteq Names  BY <3>2, DatabaseParts
    <3>4. e.stamp \subseteq d.stamp  BY <3>2, <3>3 DEF Pruned
    <3> QED  BY <1>5, <3>1, <3>2, <3>4
  <2>4. ASSUME ~ledger.half
        PROVE  Placing(ledger.may, d1) /\ Stamped(d1) /\ Based(d1)
    <3>1. PICK e : e = d1  OBVIOUS
    <3>2. Placing(ledger.may, d) /\ Stamped(d) /\ Based(d)  BY <1>6, <2>4
    <3>3. Placing(ledger.may, e) /\ Stamped(e) /\ Based(e)  BY <1>1, <1>3, <1>5, <3>1, <3>2, PrunePlacing
    <3> QED  BY <3>1, <3>3
  <2> HIDE DEF d1
  <2>5. d2 \in Databases /\ Pruned(d2, routes) /\ (d2.stamp # {} => d2.clawBase)
    <3>1. CASE readable
      <4>1. PICK e : e = ensureLifecycleRouteWatermarks(d1, routes)  OBVIOUS
      <4>2. e \in Databases /\ Pruned(e, routes) /\ (e.stamp # {} => e.clawBase)
        BY <1>1, <2>3, <4>1, WatermarksShape
      <4> QED  BY <3>1, <4>1, <4>2
    <3>2. CASE ~readable  BY <2>3, <3>2
    <3> QED  BY <3>1, <3>2
  <2>6. ASSUME ~ledger'.half
        PROVE  /\ Placing(ledger.may, d2) /\ Stamped(d2)
               /\ Based(d2) \/ (lifecycleRoutesNeedOwnState(d2, routes) /\ \A n \in routes : d2.cursor[n] # NoCursor)
               /\ Lone(d2, routes)
    <3>1. ~ledger.half /\ ~(~readable /\ Cardinality(routes) = 1)  BY <2>1, <2>2, <2>6
    <3>2. Placing(ledger.may, d1) /\ Stamped(d1) /\ Based(d1)  BY <2>4, <3>1
    <3>3. CASE readable
      <4>1. PICK e : e = ensureLifecycleRouteWatermarks(d1, routes)  OBVIOUS
      <4>2. /\ Placing(ledger.may, e) /\ Stamped(e)
            /\ Based(e) \/ (lifecycleRoutesNeedOwnState(e, routes) /\ \A n \in routes : e.cursor[n] # NoCursor)
            /\ Lone(e, routes)
        BY <1>1, <2>3, <3>2, <4>1, WatermarksPlacing
      <4>3. d2 = e  BY <3>3, <4>1
      <4> HIDE DEF d2
      <4> QED  BY <4>2, <4>3
    <3>4. CASE ~readable
      <4>1. d2 = d1  BY <3>4
      <4> HIDE DEF d2
      <4>2. ASSUME NEW n, routes = {n} PROVE FALSE
        <5>1. Cardinality(routes) = 1  BY <4>2, FS_Singleton
        <5> QED  BY <3>1, <3>4, <5>1
      <4>3. Lone(d1, routes)  BY <4>2 DEF Lone
      <4> QED  BY <3>2, <4>1, <4>3
    <3> QED  BY <3>3, <3>4
  <2> HIDE DEF d2
  <2>7. Pruned(ndb', routes) /\ (ndb'.stamp # {} => ndb'.clawBase)
    BY <1>1, <1>2, <1>7, <2>5, BaselinesShape
  <2>8. ASSUME ~ledger'.half
        PROVE  Placing(ledger.may, ndb') /\ Stamped(ndb') /\ Based(ndb') /\ Lone(ndb', routes)
    <3>1. /\ Placing(ledger.may, d2) /\ Stamped(d2)
          /\ Based(d2) \/ (lifecycleRoutesNeedOwnState(d2, routes) /\ \A n \in routes : d2.cursor[n] # NoCursor)
          /\ Lone(d2, routes)
      BY <2>6, <2>8
    <3> QED  BY <1>1, <1>2, <1>7, <2>5, <3>1, BaselinesPlacing
  <2>9. tick'.pc = "build" /\ tick'.at = Legacy /\ tick'.routes = routes
    <3>1. tick' = begun  BY <1>2, <1>7
    <3> QED  BY <3>1, NoTickTyped DEF Ticks
  <2> QED  BY <1>1, <1>2, <2>2, <2>7, <2>8, <2>9, AlignedReplay
<1>8. CASE ~nconf.on
  <2> DEFINE p == parkLifecycleWatermark(d)
  <2>1. /\ ledger'.seen = ledger.seen /\ (ledger'.half <=> ledger.half)
        /\ \A n \in Names : ledger'.may[n] = {}
    <3>1. /\ ledger'.seen = ledger.seen /\ ledger'.half = ledger.half
          /\ \A n \in Names : ledger'.may[n] = ledger.may[n] \ Ids
      BY <1>1, <1>2, <1>8, WithoutParts
    <3>2. \A n \in Names : ledger.may[n] \subseteq Ids  BY <1>1 DEF Ledgers
    <3> QED  BY <3>1, <3>2
  <2>2. /\ p \in Databases /\ p.stamp = d.stamp /\ (p.clawBase <=> d.clawBase) /\ (p.latch <=> d.latch)
        /\ (d.shared = NoCursor <=> p.shared = NoCursor)
        /\ d.shared # NoCursor => p.shared >= lifecycleMaxEventRowID
        /\ \A n \in Names : /\ d.cursor[n] = NoCursor <=> p.cursor[n] = NoCursor
                            /\ d.cursor[n] # NoCursor => p.cursor[n] >= lifecycleMaxEventRowID
    BY <1>1, <1>3, ParkParts
  <2>3. p.shared \in Int /\ \A n \in Names : p.cursor[n] \in Int  BY <2>2, DatabaseParts
  <2> HIDE DEF p
  <2>4. /\ ndb'.shared = p.shared /\ ndb'.cursor = p.cursor /\ ndb'.stamp = p.stamp
        /\ (ndb'.clawBase <=> p.clawBase) /\ (ndb'.latch <=> p.latch)
        /\ p.clawBase => Of("claw") \subseteq ndb'.rows[Legacy]
    <3>1. CASE p.clawBase
      <4>1. ndb' = SkipForAll(p, Of("claw"))  BY <1>2, <1>8, <3>1 DEF parkLifecycleClawState, p
      <4>2. Of("claw") \in SUBSET Ids  BY <1>1, EntryIds
      <4>3. /\ ndb'.shared = p.shared /\ ndb'.cursor = p.cursor /\ ndb'.stamp = p.stamp
            /\ ndb'.clawBase = p.clawBase /\ ndb'.latch = p.latch
            /\ \A t \in Tables : \A j : j \in ndb'.rows[t] <=> j \in p.rows[t] \/ (t = Legacy /\ j \in Of("claw"))
        BY <2>2, <4>1, <4>2, SkipParts
      <4> QED  BY <4>3, RouteNumbers
    <3>2. CASE ~p.clawBase
      <4>1. ndb' = p  BY <1>2, <1>8, <3>2 DEF parkLifecycleClawState, p
      <4> QED  BY <3>2, <4>1
    <3> QED  BY <3>1, <3>2
  <2>5. tick'.pc = "idle" /\ tick'.at = Legacy  BY <1>2, <1>8, NoTickTyped
  <2>6. Forgotten'  BY <1>3, <1>5, <2>1, <2>2, <2>4 DEF Forgotten
  <2>7. Forward'  BY <1>5, <2>2, <2>4, <2>5 DEF Forward
  <2>8. ASSUME ~ledger'.half PROVE PlacesInv' /\ CandInv'
    <3>1. Stamped(d) /\ Based(d)  BY <1>6, <2>1, <2>8
    <3>2. Stamped(ndb') /\ Based(ndb')  BY <2>2, <2>4, <3>1 DEF Stamped, Based
    <3>3. Placing(ledger'.may, ndb')
      <4>1. ASSUME NEW n \in Names
            PROVE  /\ ndb'.cursor[n] # NoCursor => Covers(ledger'.may, ndb', ndb'.cursor[n], n)
                   /\ ndb'.shared # NoCursor => Covers(ledger'.may, ndb', ndb'.shared, n)
        BY <1>1, <2>2, <2>3, <2>4, HeadCovers
      <4>2. ASSUME NEW n \in Names, n \in ndb'.stamp PROVE KnowsClaws(ledger'.may, ndb', n)
        <5>1. Of("claw") \subseteq ndb'.rows[Legacy]  BY <1>5, <2>2, <2>4, <4>2
        <5> QED  BY <5>1 DEF KnowsClaws, Known
      <4> QED  BY <4>1, <4>2 DEF Placing
    <3>4. PlacesInv'  BY <1>2, <2>5, <3>2, <3>3, PlacesFollow DEF Based
    <3>5. CandInv'  BY <1>2, <2>5, CandFollows
    <3> QED  BY <3>4, <3>5
  <2> QED  BY <2>6, <2>7, <2>8 DEF ReplayInv
<1> QED  BY <1>7, <1>8

\* At the start nothing has happened.
LEMMA InitReplay == RoutesInit => ReplayInv
<1> SUFFICES ASSUME RoutesInit PROVE ReplayInv  OBVIOUS
<1>1. happened = <<>> /\ tick.pc = "idle" /\ tick.at = Legacy /\ RouteInv
  BY InitRoutes, NoTickTyped DEF RoutesInit
<1>2. RouteTypes /\ HappenedTypes /\ nconf.routes \in SUBSET Names /\ nconf.routes # {}
  BY <1>1 DEF RouteInv, RouteTypes, Configs
<1>3. \A src : Of(src) = {}  BY <1>1 DEF Of
<1>4. \A n \in Names : ledger.may[n] = {}
  <2>1. CASE ledger = NoLedger  BY <2>1 DEF NoLedger
  <2>2. CASE ledger = SeenBy(NoLedger, nconf.routes)  BY <2>2 DEF NoLedger, SeenBy
  <2> QED  BY <2>1, <2>2 DEF RoutesInit
<1>5. FreshState \in Databases /\ LegacyState \in Databases  BY FreshTyped
<1>6. /\ FreshState.stamp = {} /\ FreshState.shared = NoCursor /\ ~FreshState.clawBase
      /\ \A n \in Names : FreshState.cursor[n] = NoCursor
  BY DEF FreshState
<1>7. LegacyState.stamp = {} /\ LegacyState.clawBase
  BY <1>5, <1>6 DEF LegacyState, Databases
<1>8. CandInv  BY <1>1 DEF CandInv
<1>9. CASE ndb = BootState(LegacyState, nconf.routes) /\ ledger = SeenBy(NoLedger, nconf.routes)
  <2>1. ledger.seen = nconf.routes  BY <1>9 DEF SeenBy, NoLedger
  <2>2. Placing(ledger.may, LegacyState)  BY <1>3, <1>7 DEF Placing, Covers, KnowsClaws
  <2>3. Based(LegacyState)  BY <1>7 DEF Based
  <2>4. /\ Placing(ledger.may, ndb) /\ Stamped(ndb) /\ Pruned(ndb, nconf.routes) /\ Based(ndb)
        /\ ndb.stamp # {} => ndb.clawBase
    BY <1>1, <1>2, <1>5, <1>7, <1>9, <2>2, <2>3, BootPlacing
  <2>5. Forgotten /\ Forward  BY <1>1, <1>4, <2>1, <2>4 DEF Forgotten, Forward, Pruned
  <2>6. PlacesInv  BY <1>1, <2>4 DEF PlacesInv, Based
  <2> QED  BY <1>8, <2>5, <2>6 DEF ReplayInv
<1>10. CASE ndb = FreshState
  <2>1. Forgotten /\ Forward  BY <1>1, <1>4, <1>6, <1>10 DEF Forgotten, Forward
  <2>2. PlacesInv
    BY <1>1, <1>6, <1>10 DEF PlacesInv, Placing, Stamped, Based
  <2> QED  BY <1>8, <2>1, <2>2 DEF ReplayInv
<1> QED  BY <1>9, <1>10 DEF RoutesInit

\* Every step keeps it.
LEMMA NextReplay == ASSUME RouteInv, OwingInv, ReplayInv, [RoutesNext]_routeVars PROVE ReplayInv'
<1>1. CASE TickSteps
  <2>1. CASE TickBuilds  BY <2>1, BuildsReplay
  <2>2. CASE PassesOver  BY <2>2, PassesOverReplay
  <2>3. CASE Sends  BY <2>3, SendsReplay
  <2>4. CASE Records(TRUE)  BY <2>4, RecordsReplay
  <2>5. CASE FailsTransiently  BY <2>5, FailsTransientlyReplay
  <2>6. CASE TaskRouteEnds(TRUE)  BY <2>6, TaskRouteEndsReplay
  <2>7. CASE TaskPassEnds  BY <2>7, TaskPassEndsReplay
  <2>8. CASE ClawRouteEnds  BY <2>8, ClawRouteEndsReplay
  <2>9. CASE \E n \in Names : TaskRouteStarts(n) \/ ClawRouteStarts(n)
    BY <2>9, TaskRouteStartsReplay, ClawRouteStartsReplay
  <2> QED  BY <1>1, <2>1, <2>2, <2>3, <2>4, <2>5, <2>6, <2>7, <2>8, <2>9 DEF TickSteps
<1>2. CASE \E ok, readable \in BOOLEAN : TickStarts(ok, readable)
  BY <1>2, StartsReplay
<1>3. CASE Records(FALSE)  BY <1>3, RecordsReplay
<1>4. CASE TaskRouteEnds(FALSE)  BY <1>4, TaskRouteEndsReplay
<1>5. CASE FailsConfig  BY <1>5, FailsConfigReplay
<1>6. CASE FailsPermanently  BY <1>6, FailsPermanentlyReplay
<1>7. CASE Restarts  BY <1>7, RestartsReplay
<1>8. CASE Saves \/ \E n \in Names : Breaks(n) \/ Repairs(n)  BY <1>8, SurroundingsReplay
<1>9. CASE \E k \in Kinds : Happens(k[1], k[2])  BY <1>9, HappensReplay
<1>10. CASE UNCHANGED routeVars  BY <1>10, UnmovedReplay DEF routeVars
<1> QED  BY <1>1, <1>2, <1>3, <1>4, <1>5, <1>6, <1>7, <1>8, <1>9, <1>10 DEF RoutesNext

\* The invariant holds of every behaviour.
LEMMA ReplayHold == RoutesSpec => []ReplayInv
<1>1. RoutesInit => ReplayInv  BY InitReplay
<1>2. RouteInv /\ OwingInv /\ ReplayInv /\ [RoutesNext]_routeVars => ReplayInv'  BY NextReplay
<1> QED  BY <1>1, <1>2, RoutesHold, OwingHold, PTL DEF RoutesSpec

\* Only a message sent counts as one.
LEMMA OnlySends ==
    ASSUME RouteInv, [RoutesNext]_routeVars
    PROVE  Sends \/ ledger'.sends = ledger.sends
<1>1. ledger \in Ledgers /\ nconf.routes \in SUBSET Names  BY DEF RouteInv, RouteTypes, Configs
<1>2. ASSUME NEW ids, ledger' = Without(ledger, ids) PROVE ledger'.sends = ledger.sends
  BY <1>1, <1>2, WithoutParts
<1>3. ASSUME NEW l, l.sends = ledger.sends, ledger' = SeenBy(l, nconf.routes), "sends" \in DOMAIN l
      PROVE  ledger'.sends = ledger.sends
  BY <1>3 DEF SeenBy
<1>4. CASE TickBuilds  BY <1>2, <1>4 DEF TickBuilds
<1>5. CASE FailsTransiently  BY <1>1, <1>5 DEF FailsTransiently, Ledgers
<1>6. CASE FailsPermanently  BY <1>1, <1>6 DEF FailsPermanently, Ledgers
<1>7. CASE TaskPassEnds  BY <1>2, <1>7 DEF TaskPassEnds
<1>8. CASE \E ok, readable \in BOOLEAN : TickStarts(ok, readable)
  <2>1. PICK ok \in BOOLEAN, readable \in BOOLEAN : TickStarts(ok, readable)  BY <1>8
  <2> DEFINE l == [ledger EXCEPT !.half = @ \/ (~readable /\ Cardinality(nconf.routes) = 1)]
  <2>2. ledger' = SeenBy(l, nconf.routes) \/ ledger' = Without(ledger, Ids)  BY <2>1 DEF TickStarts
  <2>3. l.sends = ledger.sends /\ "sends" \in DOMAIN l  BY <1>1 DEF Ledgers
  <2> HIDE DEF l
  <2> QED  BY <1>2, <1>3, <2>2, <2>3
<1>9. CASE Restarts
  <2> DEFINE unwritten == {p[2] : p \in stash} \cup ({tick.sent} \ {0})
             l == [ledger EXCEPT !.lost = @ \cup unwritten,
                                 !.half = @ \/ (ndb.shared # NoCursor /\ ~ndb.clawBase)]
  <2>1. ledger' = SeenBy(l, nconf.routes) \/ ledger' = l  BY <1>9 DEF Restarts
  <2>2. l.sends = ledger.sends /\ "sends" \in DOMAIN l  BY <1>1 DEF Ledgers
  <2> HIDE DEF l
  <2> QED  BY <1>3, <2>1, <2>2
<1>10. CASE \E k \in Kinds : Happens(k[1], k[2])  BY <1>1, <1>10 DEF Happens, Ledgers
<1>11. CASE UNCHANGED ledger  BY <1>11
<1>12. ASSUME \/ PassesOver \/ Records(TRUE) \/ Records(FALSE) \/ TaskRouteEnds(TRUE) \/ TaskRouteEnds(FALSE)
              \/ ClawRouteEnds \/ FailsConfig \/ Saves
              \/ \E n \in Names : TaskRouteStarts(n) \/ ClawRouteStarts(n) \/ Breaks(n) \/ Repairs(n)
       PROVE  UNCHANGED ledger
  <2>1. ASSUME NEW n \in Names, TaskRouteStarts(n) \/ ClawRouteStarts(n) \/ Breaks(n) \/ Repairs(n)
        PROVE  UNCHANGED ledger
    BY <2>1 DEF TaskRouteStarts, ClawRouteStarts, Breaks, Repairs
  <2>2. ASSUME NEW ok \in BOOLEAN, Records(ok) \/ TaskRouteEnds(ok) PROVE UNCHANGED ledger
    BY <2>2 DEF Records, TaskRouteEnds
  <2>3. ASSUME PassesOver \/ ClawRouteEnds \/ FailsConfig \/ Saves PROVE UNCHANGED ledger
    BY <2>3 DEF PassesOver, ClawRouteEnds, FailsConfig, Saves
  <2> QED  BY <1>12, <2>1, <2>2, <2>3
<1>13. CASE UNCHANGED routeVars  BY <1>11, <1>13 DEF routeVars
<1> QED  BY <1>4, <1>5, <1>6, <1>7, <1>8, <1>9, <1>10, <1>11, <1>12, <1>13 DEF RoutesNext, TickSteps

\* A route is told nothing from before it was configured, from a time when
\* notifications were off, or of a kind that was muted, whatever else is configured,
\* fails or restarts; the exceptions are the two that ledger.half stands for.
THEOREM NothingIsReplayed == RoutesSpec => NoReplay
<1>1. ASSUME RouteInv, OwingInv, ReplayInv, [RoutesNext]_routeVars
      PROVE  \A n \in Names, i \in Ids :
                ledger'.sends[n][i] > ledger.sends[n][i] => i \in ledger.may[n] \/ ledger.half
  <2> SUFFICES ASSUME NEW n \in Names, NEW i \in Ids, ledger'.sends[n][i] > ledger.sends[n][i], ~ledger.half
               PROVE  i \in ledger.may[n]
    OBVIOUS
  <2>0. RouteTypes /\ ledger \in Ledgers /\ ledger.sends[n][i] \in Nat
    BY <1>1 DEF RouteInv, RouteTypes, Ledgers
  <2>1. Sends  BY <1>1, <2>0, OnlySends
  <2>2. ToSend /\ Sending /\ tick.at \in Names /\ Event \in tick.cand /\ Event \in Ids
    BY <2>0, <2>1, EventLeast DEF Sends, ToSend
  <2>3. n = tick.at /\ i = Event
    <3>1. ledger'.sends = [ledger.sends EXCEPT ![tick.at] =
                              [ledger.sends[tick.at] EXCEPT ![Event] = ledger.sends[tick.at][Event] + 1]]
      BY <2>0, <2>1 DEF Sends, Ledgers
    <3> HIDE DEF Event
    <3>2. ledger.sends \in [Names -> [Ids -> Nat]]  BY <2>0 DEF Ledgers
    <3>3. ~(n = tick.at /\ i = Event) => ledger'.sends[n][i] = ledger.sends[n][i]
      BY <2>2, <3>1, <3>2
    <3> QED  BY <2>0, <3>3
  <2>4. i \in tick.cand \cap Accepted(n)
    <3>1. tick.cand \subseteq DOMAIN happened  BY <1>1 DEF OwingInv, Behind
    <3> QED  BY <2>2, <2>3, <3>1 DEF ToSend, Accepted
  <2>5. i \in Known(ledger.may, ndb, n)
    <3>1. CandInv  BY <1>1 DEF ReplayInv
    <3> QED  BY <2>2, <2>3, <2>4, <3>1 DEF CandInv, Sending
  <2>6. i \notin ndb.rows[n] \cup ndb.rows[Legacy]
    BY <2>2, <2>3 DEF ToSend, lifecycleRouteDelivered
  <2> QED  BY <2>5, <2>6 DEF Known
<1> QED  BY <1>1, RoutesHold, OwingHold, ReplayHold, PTL DEF RoutesSpec, NoReplay

--------------------------------------------------------------------------------
(***************************************************************************)
(* ToldOnce, its half about failures.  A streak is kept under the key of   *)
(* one shape, for one route, and counts all the failures the route has had *)
(* of an entry that it still may be told.                                  *)
(***************************************************************************)
StreakInv ==
    \A n \in Names, i \in Ids :
        /\ ledger.fails[n][i] <= MaxTransient
        /\ ledger.fails[n][i] > 0 => i \in DOMAIN happened
        /\ tick.sent = i /\ tick.at = n => ledger.fails[n][i] = 0
        /\ ndb.streak[Legacy][i] # 0 =>
              i \in DOMAIN happened /\ \A m \in Names : i \in ledger.may[n] /\ i \in ledger.may[m] => m = n
        /\ i \in ledger.may[n] => ndb.streak[Legacy][i] = 0 \/ ndb.streak[n][i] = 0
        /\ i \in ledger.may[n] /\ i \notin ndb.rows[n] \cup ndb.rows[Legacy] =>
              ndb.streak[Legacy][i] + ndb.streak[n][i] >= ledger.fails[n][i]

FailInv == ~ledger.half => StreakInv

\* The streaks and the failures are numbers.
LEMMA StreakNumbers ==
    ASSUME RouteTypes
    PROVE  /\ \A t \in Tables, i \in Ids : ndb.streak[t][i] \in 0 .. MaxTransient - 1
           /\ \A n \in Names, i \in Ids : ledger.fails[n][i] \in Nat
           /\ \A i \in Ids : i # 0
<1>1. ndb \in Databases /\ ledger \in Ledgers  BY DEF RouteTypes
<1>2. \A t \in Tables, i \in Ids : ndb.streak[t][i] \in 0 .. MaxTransient - 1  BY <1>1 DEF Databases
<1>3. \A n \in Names, i \in Ids : ledger.fails[n][i] \in Nat
  <2>1. ledger.fails \in [Names -> [Ids -> 0 .. MaxTransient + 1]]  BY <1>1 DEF Ledgers
  <2> QED  BY <2>1, RouteNumbers
<1> QED  BY <1>2, <1>3, RouteNumbers

\* A step that starts nothing: routes lose what they may be told, or are forgotten.
LEMMA QuietStreak ==
    ASSUME FailInv, RouteTypes, ledger.half => ledger'.half, UNCHANGED happened,
           \A t \in Tables : ndb.rows[t] \subseteq ndb'.rows[t],
           \A i \in Ids : ndb'.streak[Legacy][i] = ndb.streak[Legacy][i],
           \A n \in Names :
              \/ /\ ledger'.may[n] \subseteq ledger.may[n]
                 /\ \A i \in Ids : ledger'.fails[n][i] = ledger.fails[n][i] /\ ndb'.streak[n][i] = ndb.streak[n][i]
              \/ ledger'.may[n] = {} /\ \A i \in Ids : ledger'.fails[n][i] = 0,
           tick'.sent = 0 \/ (tick'.sent = tick.sent /\ tick'.at = tick.at)
    PROVE  FailInv'
<1> SUFFICES ASSUME ~ledger'.half, NEW n \in Names, NEW i \in Ids
             PROVE  /\ ledger'.fails[n][i] <= MaxTransient
                    /\ ledger'.fails[n][i] > 0 => i \in DOMAIN happened
                    /\ tick'.sent = i /\ tick'.at = n => ledger'.fails[n][i] = 0
                    /\ ndb.streak[Legacy][i] # 0 => i \in DOMAIN happened /\
                          \A m \in Names : i \in ledger'.may[n] /\ i \in ledger'.may[m] => m = n
                    /\ i \in ledger'.may[n] => ndb.streak[Legacy][i] = 0 \/ ndb'.streak[n][i] = 0
                    /\ i \in ledger'.may[n] /\ i \notin ndb'.rows[n] \cup ndb'.rows[Legacy] =>
                          ndb.streak[Legacy][i] + ndb'.streak[n][i] >= ledger'.fails[n][i]
  BY DEF FailInv, StreakInv
<1>1. StreakInv  BY DEF FailInv
<1>2. MaxTransient \in Nat /\ i # 0 /\ n \in Tables /\ Legacy \in Tables  BY StreakNumbers, RouteNumbers
<1>3. \A m \in Names : ledger'.may[m] \subseteq ledger.may[m]  OBVIOUS
<1>4. /\ ledger.fails[n][i] <= MaxTransient
      /\ ledger.fails[n][i] > 0 => i \in DOMAIN happened
      /\ tick.sent = i /\ tick.at = n => ledger.fails[n][i] = 0
      /\ ndb.streak[Legacy][i] # 0 =>
            i \in DOMAIN happened /\ \A m \in Names : i \in ledger.may[n] /\ i \in ledger.may[m] => m = n
      /\ i \in ledger.may[n] => ndb.streak[Legacy][i] = 0 \/ ndb.streak[n][i] = 0
      /\ i \in ledger.may[n] /\ i \notin ndb.rows[n] \cup ndb.rows[Legacy] =>
            ndb.streak[Legacy][i] + ndb.streak[n][i] >= ledger.fails[n][i]
  BY <1>1 DEF StreakInv
<1>5. ndb.streak[Legacy][i] # 0 =>
         i \in DOMAIN happened /\ \A m \in Names : i \in ledger'.may[n] /\ i \in ledger'.may[m] => m = n
  BY <1>3, <1>4
<1>6. ledger'.fails[n][i] = ledger.fails[n][i] \/ ledger'.fails[n][i] = 0  OBVIOUS
<1>7. i \in ledger'.may[n] => /\ i \in ledger.may[n] /\ ledger'.fails[n][i] = ledger.fails[n][i]
                              /\ ndb'.streak[n][i] = ndb.streak[n][i]
  OBVIOUS
<1>8. ndb.rows[n] \subseteq ndb'.rows[n] /\ ndb.rows[Legacy] \subseteq ndb'.rows[Legacy]  BY <1>2
<1>9. /\ ledger'.fails[n][i] <= MaxTransient
      /\ ledger'.fails[n][i] > 0 => i \in DOMAIN happened
      /\ tick'.sent = i /\ tick'.at = n => ledger'.fails[n][i] = 0
  <2>1. CASE ledger'.fails[n][i] = ledger.fails[n][i]  BY <1>2, <1>4, <2>1
  <2>2. CASE ledger'.fails[n][i] = 0  BY <1>2, <2>2
  <2> QED  BY <1>6, <2>1, <2>2
<1>10. i \in ledger'.may[n] => ndb.streak[Legacy][i] = 0 \/ ndb'.streak[n][i] = 0  BY <1>4, <1>7
<1>11. i \in ledger'.may[n] /\ i \notin ndb'.rows[n] \cup ndb'.rows[Legacy] =>
          ndb.streak[Legacy][i] + ndb'.streak[n][i] >= ledger'.fails[n][i]
  BY <1>4, <1>7, <1>8
<1> QED  BY <1>5, <1>9, <1>10, <1>11

\* A step that leaves the ledger and the streaks alone.
LEMMA StillStreak ==
    ASSUME FailInv, RouteTypes, UNCHANGED <<happened, ledger>>,
           \A t \in Tables : ndb.rows[t] \subseteq ndb'.rows[t], ndb'.streak = ndb.streak,
           tick'.sent = 0 \/ (tick'.sent = tick.sent /\ tick'.at = tick.at)
    PROVE  FailInv'
BY QuietStreak

\* A message that is sent ends the failures.
LEMMA SendsStreak == ASSUME RouteInv, OwingInv, FailInv, Sends PROVE FailInv'
<1>1. RouteTypes /\ tick \in Ticks /\ ledger \in Ledgers  BY DEF RouteInv, RouteTypes
<1>2. Sending /\ tick.at \in Names /\ Event \in Ids  BY <1>1, EventLeast DEF Sends, ToSend
<1>3. /\ tick' = [tick EXCEPT !.sent = Event] /\ UNCHANGED <<happened, ndb>>
      /\ ledger'.may = ledger.may /\ (ledger'.half <=> ledger.half)
      /\ ledger'.fails = [ledger.fails EXCEPT ![tick.at] = [ledger.fails[tick.at] EXCEPT ![Event] = 0]]
  BY <1>1 DEF Sends, Ledgers
<1> HIDE DEF Event
<1>4. tick'.sent = Event /\ tick'.at = tick.at  BY <1>1, <1>3 DEF Ticks
<1>5. \A n \in Names, i \in Ids :
         ledger'.fails[n][i] = IF n = tick.at /\ i = Event THEN 0 ELSE ledger.fails[n][i]
  <2>1. ledger.fails \in [Names -> [Ids -> 0 .. MaxTransient + 1]]  BY <1>1 DEF Ledgers
  <2> QED  BY <1>2, <1>3, <2>1
<1> SUFFICES ASSUME ~ledger.half, NEW n \in Names, NEW i \in Ids
             PROVE  /\ ledger'.fails[n][i] <= MaxTransient
                    /\ ledger'.fails[n][i] > 0 => i \in DOMAIN happened
                    /\ tick'.sent = i /\ tick'.at = n => ledger'.fails[n][i] = 0
                    /\ ndb.streak[Legacy][i] # 0 => i \in DOMAIN happened /\
                          \A m \in Names : i \in ledger.may[n] /\ i \in ledger.may[m] => m = n
                    /\ i \in ledger.may[n] => ndb.streak[Legacy][i] = 0 \/ ndb.streak[n][i] = 0
                    /\ i \in ledger.may[n] /\ i \notin ndb.rows[n] \cup ndb.rows[Legacy] =>
                          ndb.streak[Legacy][i] + ndb.streak[n][i] >= ledger'.fails[n][i]
  BY <1>3 DEF FailInv, StreakInv
<1>6. /\ ledger.fails[n][i] <= MaxTransient
      /\ ledger.fails[n][i] > 0 => i \in DOMAIN happened
      /\ ndb.streak[Legacy][i] # 0 =>
            i \in DOMAIN happened /\ \A m \in Names : i \in ledger.may[n] /\ i \in ledger.may[m] => m = n
      /\ i \in ledger.may[n] => ndb.streak[Legacy][i] = 0 \/ ndb.streak[n][i] = 0
      /\ i \in ledger.may[n] /\ i \notin ndb.rows[n] \cup ndb.rows[Legacy] =>
            ndb.streak[Legacy][i] + ndb.streak[n][i] >= ledger.fails[n][i]
  BY DEF FailInv, StreakInv
<1>7. /\ MaxTransient \in Nat /\ ledger.fails[n][i] \in Nat
      /\ ndb.streak[Legacy][i] \in Nat /\ ndb.streak[n][i] \in Nat
  BY <1>1, StreakNumbers, RouteNumbers
<1>8. CASE n = tick.at /\ i = Event
  <2>1. ledger'.fails[n][i] = 0  BY <1>5, <1>8
  <2> QED  BY <1>6, <1>7, <2>1
<1>9. CASE ~(n = tick.at /\ i = Event)
  <2>1. ledger'.fails[n][i] = ledger.fails[n][i]  BY <1>5, <1>9
  <2> QED  BY <1>4, <1>6, <1>9, <2>1
<1> QED  BY <1>8, <1>9

\* A delivery on record ends the streak under every key it is recorded for.
LEMMA RecordsStreak ==
    ASSUME RouteInv, OwingInv, ReplayInv, FailInv, NEW ok \in BOOLEAN, Records(ok) PROVE FailInv'
<1>1. RouteTypes /\ tick \in Ticks /\ tick.pc # "idle"
  <2>1. RouteTypes /\ tick \in Ticks /\ TickShape  BY DEF RouteInv, RouteTypes
  <2>2. tick.sent # 0  BY DEF Records
  <2> QED  BY <2>1, <2>2 DEF TickShape
<1>2. /\ tick' = Past(tick.sent) /\ tick.sent \in Ids /\ tick.at \in Names
      /\ tick.at \in tick.built /\ UNCHANGED <<happened, ledger>>
      /\ \A t \in Tables : ndb.rows[t] \subseteq ndb'.rows[t]
      /\ \A t \in Tables, j \in Ids :
            ndb'.streak[t][j] = IF t \in RecordedIn(tick.at) /\ j = tick.sent THEN 0 ELSE ndb.streak[t][j]
  BY RecordsParts
<1>3. tick'.sent = 0  BY <1>1, <1>2 DEF Past, Ticks
<1> SUFFICES ASSUME ~ledger.half, NEW n \in Names, NEW i \in Ids
             PROVE  /\ ledger.fails[n][i] <= MaxTransient
                    /\ ledger.fails[n][i] > 0 => i \in DOMAIN happened
                    /\ tick'.sent = i /\ tick'.at = n => ledger.fails[n][i] = 0
                    /\ ndb'.streak[Legacy][i] # 0 => i \in DOMAIN happened /\
                          \A m \in Names : i \in ledger.may[n] /\ i \in ledger.may[m] => m = n
                    /\ i \in ledger.may[n] => ndb'.streak[Legacy][i] = 0 \/ ndb'.streak[n][i] = 0
                    /\ i \in ledger.may[n] /\ i \notin ndb'.rows[n] \cup ndb'.rows[Legacy] =>
                          ndb'.streak[Legacy][i] + ndb'.streak[n][i] >= ledger.fails[n][i]
  BY <1>2 DEF FailInv, StreakInv
<1>4. /\ ledger.fails[n][i] <= MaxTransient
      /\ ledger.fails[n][i] > 0 => i \in DOMAIN happened
      /\ tick.sent = i /\ tick.at = n => ledger.fails[n][i] = 0
      /\ ndb.streak[Legacy][i] # 0 =>
            i \in DOMAIN happened /\ \A m \in Names : i \in ledger.may[n] /\ i \in ledger.may[m] => m = n
      /\ i \in ledger.may[n] => ndb.streak[Legacy][i] = 0 \/ ndb.streak[n][i] = 0
      /\ i \in ledger.may[n] /\ i \notin ndb.rows[n] \cup ndb.rows[Legacy] =>
            ndb.streak[Legacy][i] + ndb.streak[n][i] >= ledger.fails[n][i]
  BY DEF FailInv, StreakInv
<1>5. /\ n \in Tables /\ Legacy \in Tables /\ n # Legacy /\ i # 0
      /\ ledger.fails[n][i] \in Nat /\ ndb.streak[Legacy][i] \in Nat /\ ndb.streak[n][i] \in Nat
  BY <1>1, StreakNumbers, RouteNumbers
<1>6. ndb'.streak[Legacy][i] \in {ndb.streak[Legacy][i], 0} /\ ndb'.streak[n][i] \in {ndb.streak[n][i], 0}
  BY <1>2, <1>5
<1>7. ndb.rows[n] \subseteq ndb'.rows[n] /\ ndb.rows[Legacy] \subseteq ndb'.rows[Legacy]  BY <1>2, <1>5
<1>8. i \in ledger.may[n] /\ i \notin ndb'.rows[n] \cup ndb'.rows[Legacy] =>
          ndb'.streak[Legacy][i] + ndb'.streak[n][i] >= ledger.fails[n][i]
  <2>1. CASE i = tick.sent /\ n = tick.at
    <3>1. ledger.fails[n][i] = 0  BY <1>4, <2>1
    <3>2. ndb'.streak[Legacy][i] \in Nat /\ ndb'.streak[n][i] \in Nat  BY <1>5, <1>6
    <3> QED  BY <3>1, <3>2
  <2>2. CASE i = tick.sent /\ n # tick.at /\ singleRoute
    <3>1. ledger.seen = {tick.at}  BY <1>1, <1>2, <2>2, OneRoute DEF OwingInv, TickLinks
    <3> QED  BY <2>2, <3>1 DEF ReplayInv, Forgotten
  <2>3. CASE i = tick.sent /\ n # tick.at /\ ~singleRoute
    <3>1. RecordedIn(tick.at) = {tick.at}  BY <2>3 DEF RecordedIn
    <3>2. ndb'.streak[Legacy][i] = ndb.streak[Legacy][i] /\ ndb'.streak[n][i] = ndb.streak[n][i]
      BY <1>2, <1>5, <2>3, <3>1, RouteNumbers
    <3> QED  BY <1>4, <1>7, <3>2
  <2>4. CASE i # tick.sent
    <3>1. ndb'.streak[Legacy][i] = ndb.streak[Legacy][i] /\ ndb'.streak[n][i] = ndb.streak[n][i]
      BY <1>2, <1>5, <2>4
    <3> QED  BY <1>4, <1>7, <3>1
  <2> QED  BY <2>1, <2>2, <2>3, <2>4
<1>9. i \in ledger.may[n] => ndb'.streak[Legacy][i] = 0 \/ ndb'.streak[n][i] = 0  BY <1>4, <1>6
<1> QED  BY <1>3, <1>4, <1>5, <1>6, <1>8, <1>9

\* A database whose tables have grown and in which the configured routes keep their
\* failures.
FailuresHeld(d, e, routes) ==
    /\ e \in Databases /\ \A t \in Tables : d.rows[t] \subseteq e.rows[t]
    /\ \A t \in routes \cup {Legacy} : e.streak[t] = d.streak[t]

\* What is left alone is held.
LEMMA HeldOnce == ASSUME NEW d \in Databases, NEW routes PROVE FailuresHeld(d, d, routes)
BY DEF FailuresHeld

\* One change after another.
LEMMA HeldTwice ==
    ASSUME NEW d, NEW e, NEW f, NEW routes, FailuresHeld(d, e, routes), FailuresHeld(e, f, routes)
    PROVE  FailuresHeld(d, f, routes)
<1>1. \A t \in Tables : d.rows[t] \subseteq e.rows[t] /\ e.rows[t] \subseteq f.rows[t]  BY DEF FailuresHeld
<1>2. \A t \in routes \cup {Legacy} : e.streak[t] = d.streak[t] /\ f.streak[t] = e.streak[t]  BY DEF FailuresHeld
<1> QED  BY <1>1, <1>2 DEF FailuresHeld

\* Only a route that is gone loses its streaks.
LEMMA PruneHeld ==
    ASSUME NEW d \in Databases, NEW routes \in SUBSET Names
    PROVE  FailuresHeld(d, pruneLifecycleRouteState(d, routes), routes)
<1> DEFINE e == pruneLifecycleRouteState(d, routes)
           gone == {n \in Names \ routes : d.cursor[n] # NoCursor \/ n \in d.stamp}
           streak == [t \in DOMAIN d.streak |-> IF t \in gone THEN [i \in Ids |-> 0] ELSE d.streak[t]]
<1>1. e.streak = streak  BY DEF pruneLifecycleRouteState, Databases
<1>2. DOMAIN d.streak = Tables  BY DEF Databases
<1>3. \A t \in routes \cup {Legacy} : t \in Tables /\ t \notin gone  BY RouteNumbers
<1>4. \A t \in routes \cup {Legacy} : streak[t] = d.streak[t]  BY <1>2, <1>3
<1> HIDE DEF e
<1>5. e \in Databases /\ \A t \in Tables : d.rows[t] \subseteq e.rows[t]  BY PruneGrows DEF Grown, e
<1> QED  BY <1>1, <1>4, <1>5 DEF FailuresHeld, e

\* The cursors of the routes have nothing to do with failures.
LEMMA WatermarksHeld ==
    ASSUME HappenedTypes, NEW d \in Databases, NEW routes \in SUBSET Names
    PROVE  FailuresHeld(d, ensureLifecycleRouteWatermarks(d, routes), routes)
<1>1. ensureLifecycleRouteWatermarks(d, routes).streak = d.streak
  BY DEF ensureLifecycleRouteWatermarks, Databases
<1> QED  BY <1>1, WatermarksGrow DEF FailuresHeld, Grown

\* Nor has the first claw baseline.
LEMMA SeedHeld ==
    ASSUME HappenedTypes, NEW d \in Databases, NEW routes \in SUBSET Names
    PROVE  FailuresHeld(d, seedLifecycleClawBaseline(d, routes), routes)
<1>1. PICK e : e = seedLifecycleClawBaseline(d, routes)  OBVIOUS
<1>2. e.streak = d.streak  BY <1>1, SeedParts
<1> QED  BY <1>1, <1>2, SeedGrows DEF FailuresHeld, Grown

\* Nor have those of the routes.
LEMMA BaselinesHeld ==
    ASSUME HappenedTypes, NEW d \in Databases, NEW routes \in SUBSET Names
    PROVE  FailuresHeld(d, ensureLifecycleClawRouteBaselines(d, routes), routes)
<1>1. seedLifecycleClawBaseline(d, routes).streak = d.streak
  <2>1. PICK e : e = seedLifecycleClawBaseline(d, routes)  OBVIOUS
  <2> QED  BY <2>1, SeedParts
<1>2. stampLifecycleLegacyIncumbent(d, routes).streak = d.streak
  BY DEF stampLifecycleLegacyIncumbent, Databases
<1>3. ensureLifecycleClawRouteBaselines(d, routes).streak = d.streak
  BY <1>1, <1>2 DEF ensureLifecycleClawRouteBaselines, Databases
<1> QED  BY <1>3, BaselinesGrow DEF FailuresHeld, Grown

\* So does a boot.
LEMMA BootHeld ==
    ASSUME HappenedTypes, NEW d \in Databases, NEW routes \in SUBSET Names
    PROVE  FailuresHeld(d, BootState(d, routes), routes)
<1> DEFINE d1 == [d EXCEPT !.shared = IF @ = NoCursor THEN lifecycleMaxEventRowID ELSE @]
           d2 == IF ~d1.clawBase THEN seedLifecycleClawBaseline(d1, routes)
                 ELSE IF d1.stamp # {} THEN d1
                 ELSE IF ~lifecycleRoutingSchemeLive(d1) /\ Cardinality(routes) = 1
                 THEN [d1 EXCEPT !.stamp = routes]
                 ELSE [d1 EXCEPT !.latch = TRUE]
           d3 == pruneLifecycleRouteState(d2, routes)
           d4 == ensureLifecycleRouteWatermarks(d3, routes)
<1>1. FailuresHeld(d, d1, routes)
  <2>1. lifecycleMaxEventRowID \in Positions  BY EntryIds, RouteNumbers
  <2> QED  BY <2>1 DEF FailuresHeld, Databases
<1>2. d1 \in Databases  BY <1>1 DEF FailuresHeld
<1>a. BootState(d, routes) = ensureLifecycleClawRouteBaselines(d4, routes)
  BY DEF BootState
<1> HIDE DEF d1
<1>3. FailuresHeld(d1, d2, routes)
  <2>1. FailuresHeld(d1, [d1 EXCEPT !.stamp = routes], routes)  BY <1>2 DEF FailuresHeld, Databases
  <2>2. FailuresHeld(d1, [d1 EXCEPT !.latch = TRUE], routes)  BY <1>2 DEF FailuresHeld, Databases
  <2> QED  BY <1>2, <2>1, <2>2, SeedHeld, HeldOnce
<1>4. d2 \in Databases  BY <1>3 DEF FailuresHeld
<1> HIDE DEF d2
<1>5. FailuresHeld(d2, d3, routes)  BY <1>4, PruneHeld
<1>6. d3 \in Databases  BY <1>5 DEF FailuresHeld
<1> HIDE DEF d3
<1>7. FailuresHeld(d3, d4, routes)  BY <1>6, WatermarksHeld
<1>8. d4 \in Databases  BY <1>7 DEF FailuresHeld
<1> HIDE DEF d4
<1>9. FailuresHeld(d4, ensureLifecycleClawRouteBaselines(d4, routes), routes)  BY <1>8, BaselinesHeld
<1> QED  BY <1>a, <1>1, <1>3, <1>5, <1>7, <1>9, HeldTwice

\* The configured routes are seen anew.
LEMMA SeenStreak ==
    ASSUME RouteInv, FailInv, UNCHANGED happened, NEW l \in Ledgers, l.may = ledger.may, l.fails = ledger.fails,
           ledger.half => l.half, NEW routes \in SUBSET Names, ledger' = SeenBy(l, routes),
           FailuresHeld(ndb, ndb', routes), tick'.sent = 0
    PROVE  FailInv'
<1>1. RouteTypes  BY DEF RouteInv
<1>2. /\ ledger'.half = l.half
      /\ \A n \in routes : ledger'.may[n] = ledger.may[n] /\ ledger'.fails[n] = ledger.fails[n]
      /\ \A n \in Names \ routes : ledger'.may[n] = {} /\ ledger'.fails[n] = [i \in Ids |-> 0]
  BY SeenParts
<1>3. /\ \A t \in Tables : ndb.rows[t] \subseteq ndb'.rows[t]
      /\ \A t \in routes \cup {Legacy} : ndb'.streak[t] = ndb.streak[t]
  BY DEF FailuresHeld
<1>4. \A n \in Names :
         \/ /\ ledger'.may[n] \subseteq ledger.may[n]
            /\ \A i \in Ids : ledger'.fails[n][i] = ledger.fails[n][i] /\ ndb'.streak[n][i] = ndb.streak[n][i]
         \/ ledger'.may[n] = {} /\ \A i \in Ids : ledger'.fails[n][i] = 0
  BY <1>2, <1>3
<1> QED  BY <1>1, <1>2, <1>3, <1>4, QuietStreak

\* Entries are no longer due.
LEMMA WithoutStreak ==
    ASSUME RouteInv, FailInv, UNCHANGED happened, NEW ids, ledger' = Without(ledger, ids),
           \A t \in Tables : ndb.rows[t] \subseteq ndb'.rows[t], ndb'.streak = ndb.streak, tick'.sent = 0
    PROVE  FailInv'
<1>1. RouteTypes /\ ledger \in Ledgers  BY DEF RouteInv, RouteTypes
<1>2. /\ ledger'.half = ledger.half /\ ledger'.fails = ledger.fails
      /\ \A n \in Names : ledger'.may[n] = ledger.may[n] \ ids
  BY <1>1, WithoutParts
<1> QED  BY <1>1, <1>2, QuietStreak

\* Failures survive a restart.
LEMMA RestartsStreak == ASSUME RouteInv, OwingInv, FailInv, Restarts PROVE FailInv'
<1> DEFINE unwritten == {p[2] : p \in stash} \cup ({tick.sent} \ {0})
           l == [ledger EXCEPT !.lost = @ \cup unwritten,
                               !.half = @ \/ (ndb.shared # NoCursor /\ ~ndb.clawBase)]
<1>1. /\ RouteTypes /\ ndb \in Databases /\ ledger \in Ledgers /\ HappenedTypes /\ stash \subseteq Tables \X Ids
      /\ nconf.routes \in SUBSET Names /\ tick \in Ticks
  BY DEF RouteInv, RouteTypes, Configs
<1>2. /\ tick' = NoTick /\ UNCHANGED happened
      /\ IF nconf.on THEN ndb' = BootState(ndb, nconf.routes) /\ ledger' = SeenBy(l, nconf.routes)
         ELSE ledger' = l /\ UNCHANGED ndb
  BY DEF Restarts
<1>3. l \in Ledgers /\ l.may = ledger.may /\ l.fails = ledger.fails /\ (ledger.half => l.half)
  <2>1. ledger.lost \cup unwritten \in SUBSET Ids
    <3>1. \A p \in stash : p[2] \in Ids  BY <1>1
    <3>2. {tick.sent} \ {0} \subseteq Ids  BY <1>1, RouteNumbers DEF Ticks
    <3> QED  BY <1>1, <3>1, <3>2 DEF Ledgers
  <2>2. (ledger.half \/ (ndb.shared # NoCursor /\ ~ndb.clawBase)) \in BOOLEAN  OBVIOUS
  <2> HIDE DEF unwritten
  <2>3. l \in Ledgers /\ l.may = ledger.may /\ l.fails = ledger.fails  BY <1>1, <2>1, <2>2 DEF Ledgers
  <2>4. l.half = (ledger.half \/ (ndb.shared # NoCursor /\ ~ndb.clawBase))  BY <1>1 DEF Ledgers
  <2> HIDE DEF l
  <2> QED  BY <2>3, <2>4
<1> HIDE DEF l
<1>4. tick'.sent = 0  BY <1>2, NoTickTyped
<1>5. CASE nconf.on
  <2>1. FailuresHeld(ndb, ndb', nconf.routes)  BY <1>1, <1>2, <1>5, BootHeld
  <2>2. ledger' = SeenBy(l, nconf.routes)  BY <1>2, <1>5
  <2> QED  BY <1>1, <1>2, <1>3, <1>4, <2>1, <2>2, SeenStreak
<1>6. CASE ~nconf.on
  <2>1. ledger' = l /\ ndb' = ndb  BY <1>2, <1>6
  <2> QED  BY <1>1, <1>2, <1>3, <1>4, <2>1, QuietStreak
<1> QED  BY <1>5, <1>6

\* The start of a tick forgets those of routes that are gone.
LEMMA StartsStreak ==
    ASSUME RouteInv, OwingInv, FailInv, NEW ok \in BOOLEAN, NEW readable \in BOOLEAN, TickStarts(ok, readable)
    PROVE  FailInv'
<1> DEFINE routes == nconf.routes
           rows == [t \in DOMAIN ndb.rows |-> ndb.rows[t] \cup {p[2] : p \in {q \in stash : q[1] = t}}]
           d == IF ok THEN [ndb EXCEPT !.rows = rows] ELSE ndb
           d1 == pruneLifecycleRouteState(d, routes)
           d2 == IF readable THEN ensureLifecycleRouteWatermarks(d1, routes) ELSE d1
           l == [ledger EXCEPT !.half = @ \/ (~readable /\ Cardinality(routes) = 1)]
           begun == [NoTick EXCEPT !.pc = "build", !.routes = routes, !.muted = nconf.muted]
<1>1. /\ RouteTypes /\ ndb \in Databases /\ ledger \in Ledgers /\ HappenedTypes /\ stash \subseteq Tables \X Ids
      /\ routes \in SUBSET Names /\ nconf.muted \in SUBSET Types
  BY DEF RouteInv, RouteTypes, Configs
<1>2. /\ tick = NoTick /\ UNCHANGED happened
      /\ IF nconf.on
         THEN /\ ndb' = ensureLifecycleClawRouteBaselines(d2, routes)
              /\ ledger' = SeenBy(l, routes) /\ tick' = begun
         ELSE /\ ndb' = parkLifecycleClawState(parkLifecycleWatermark(d))
              /\ ledger' = Without(ledger, Ids) /\ UNCHANGED tick
  BY DEF TickStarts
<1>3. d \in Databases /\ d.streak = ndb.streak /\ \A t \in Tables : ndb.rows[t] \subseteq d.rows[t]
  <2>1. rows \in [Tables -> SUBSET Ids] /\ \A t \in Tables : ndb.rows[t] \subseteq rows[t]
    <3>1. ndb.rows \in [Tables -> SUBSET Ids]  BY <1>1 DEF Databases
    <3>2. \A t \in Tables : {p[2] : p \in {q \in stash : q[1] = t}} \subseteq Ids  BY <1>1
    <3> QED  BY <3>1, <3>2
  <2> HIDE DEF rows
  <2>2. CASE ok
    <3>1. d = [ndb EXCEPT !.rows = rows]  BY <2>2
    <3> HIDE DEF d
    <3>2. d \in Databases /\ d.rows = rows /\ d.streak = ndb.streak  BY <1>1, <2>1, <3>1 DEF Databases
    <3> QED  BY <2>1, <3>2
  <2>3. CASE ~ok  BY <1>1, <2>3
  <2> QED  BY <2>2, <2>3
<1> HIDE DEF d, routes
<1>4. tick'.sent = 0
  <2>1. begun.sent = 0 /\ NoTick.sent = 0  BY NoTickTyped DEF Ticks
  <2> QED  BY <1>2, <2>1
<1>5. CASE nconf.on
  <2>1. FailuresHeld(ndb, d, routes)  BY <1>3 DEF FailuresHeld
  <2>2. FailuresHeld(d, d1, routes) /\ d1 \in Databases  BY <1>1, <1>3, PruneHeld DEF FailuresHeld
  <2> HIDE DEF d1
  <2>3. FailuresHeld(d1, d2, routes) /\ d2 \in Databases  BY <1>1, <2>2, WatermarksHeld, HeldOnce DEF FailuresHeld
  <2> HIDE DEF d2
  <2>4. FailuresHeld(d2, ndb', routes)  BY <1>1, <1>2, <1>5, <2>3, BaselinesHeld
  <2>5. FailuresHeld(ndb, ndb', routes)  BY <2>1, <2>2, <2>3, <2>4, HeldTwice
  <2>6. l \in Ledgers /\ l.may = ledger.may /\ l.fails = ledger.fails /\ (ledger.half => l.half)
    <3>1. (ledger.half \/ (~readable /\ Cardinality(routes) = 1)) \in BOOLEAN  OBVIOUS
    <3>2. l \in Ledgers /\ l.may = ledger.may /\ l.fails = ledger.fails  BY <1>1, <3>1 DEF Ledgers
    <3>3. l.half = (ledger.half \/ (~readable /\ Cardinality(routes) = 1))  BY <1>1 DEF Ledgers
    <3> HIDE DEF l
    <3> QED  BY <3>2, <3>3
  <2> HIDE DEF l
  <2>7. ledger' = SeenBy(l, routes)  BY <1>2, <1>5
  <2> QED  BY <1>1, <1>2, <1>4, <2>5, <2>6, <2>7, SeenStreak
<1>6. CASE ~nconf.on
  <2> DEFINE p == parkLifecycleWatermark(d)
  <2>1. p \in Databases /\ p.rows = d.rows /\ p.streak = d.streak  BY <1>1, <1>3, ParkParts
  <2>2. ndb' = parkLifecycleClawState(p) /\ ledger' = Without(ledger, Ids)  BY <1>2, <1>6
  <2> HIDE DEF p
  <2>3. ndb'.streak = p.streak /\ \A t \in Tables : p.rows[t] \subseteq ndb'.rows[t]
    <3>1. CASE p.clawBase
      <4>1. ndb' = SkipForAll(p, Of("claw"))  BY <2>2, <3>1 DEF parkLifecycleClawState
      <4>2. Of("claw") \in SUBSET Ids  BY <1>1, EntryIds
      <4> QED  BY <2>1, <4>1, <4>2, SkipParts
    <3>2. CASE ~p.clawBase
      <4>1. ndb' = p  BY <2>2, <3>2 DEF parkLifecycleClawState
      <4> QED  BY <4>1
    <3> QED  BY <3>1, <3>2
  <2>4. ndb'.streak = ndb.streak /\ \A t \in Tables : ndb.rows[t] \subseteq ndb'.rows[t]
    BY <1>3, <2>1, <2>3
  <2> QED  BY <1>2, <1>4, <2>2, <2>4, WithoutStreak
<1> QED  BY <1>5, <1>6

\* A failure too many is counted once.
LEMMA CountUp == ASSUME NEW k \in Nat, NEW m \in Nat, k < m PROVE Min({k + 1, m + 1}) = k + 1
<1> DEFINE S == {k + 1, m + 1}
<1>1. S \subseteq Nat /\ S # {} /\ k + 1 \in S  OBVIOUS
<1>2. \A y \in S : k + 1 <= y  OBVIOUS
<1> HIDE DEF S
<1>a. \E x \in S : \A y \in S : x <= y  BY <1>1, LeastNat
<1>3. Min(S) \in S /\ \A y \in S : Min(S) <= y  BY <1>a DEF Min
<1>4. Min(S) \in Nat /\ Min(S) <= k + 1 /\ k + 1 <= Min(S)  BY <1>1, <1>2, <1>3
<1>5. Min(S) = k + 1  BY <1>4
<1> QED  BY <1>5 DEF S

\* A transient failure adds to the one streak of the entry, or gives it up.
LEMMA FailsTransientlyStreak == ASSUME RouteInv, OwingInv, ReplayInv, FailInv, FailsTransiently PROVE FailInv'
<1>1. /\ RouteTypes /\ tick \in Ticks /\ ledger \in Ledgers /\ ndb \in Databases /\ Sending
      /\ happened[Event].type \in Accepts[tick.at] /\ ~lifecycleRouteDelivered(tick.at, Event)
      /\ tick.sent = 0 /\ tick.at # Legacy
  BY DEF RouteInv, RouteTypes, FailsTransiently, ToSend, Sending
<1>2. PICK e : e = Event  OBVIOUS
<1>3. PICK key : key = (IF singleRoute THEN Legacy ELSE tick.at)  OBVIOUS
<1>4. PICK prior : prior = (IF singleRoute THEN tick.at ELSE Legacy)  OBVIOUS
<1>5. PICK count : count = StreakSoFar(key, prior, e) + 1  OBVIOUS
<1>6. /\ UNCHANGED happened /\ (tick' = Past(e) \/ tick' = Parked)
      /\ tick.at \in Names /\ tick.at \in tick.built /\ e \in tick.cand /\ e \in Ids /\ count \in Nat
      /\ \A t \in Tables : ndb.rows[t] \subseteq ndb'.rows[t]
      /\ count >= MaxTransient => \A t \in RecordedIn(tick.at) : e \in ndb'.rows[t]
      /\ \A t \in Tables, j \in Ids :
            ndb'.streak[t][j] = IF t = key /\ j = e THEN IF count >= MaxTransient THEN 0 ELSE count
                                ELSE IF t = prior /\ j = e /\ ndb.streak[key][e] = 0 THEN 0
                                ELSE ndb.streak[t][j]
  BY <1>2, <1>3, <1>4, <1>5, FailsTransientlyParts
<1>7. /\ ledger'.may = ledger.may /\ (ledger'.half <=> ledger.half)
      /\ ledger'.fails = [ledger.fails EXCEPT ![tick.at] = [ledger.fails[tick.at] EXCEPT
            ![e] = Min({ledger.fails[tick.at][e] + 1, MaxTransient + 1})]]
  <2>1. ledger' = [ledger EXCEPT !.fails[tick.at][Event] = Min({@ + 1, MaxTransient + 1}),
                  !.done[tick.at] = IF StreakSoFar(key, prior, Event) + 1 >= MaxTransient THEN @ \cup {Event} ELSE @]
    BY <1>3, <1>4 DEF FailsTransiently
  <2> HIDE DEF Event
  <2>2. ledger' = [ledger EXCEPT !.fails[tick.at][e] = Min({@ + 1, MaxTransient + 1}),
                  !.done[tick.at] = IF StreakSoFar(key, prior, e) + 1 >= MaxTransient THEN @ \cup {e} ELSE @]
    BY <1>2, <2>1
  <2> QED  BY <1>1, <2>2 DEF Ledgers
<1>8. tick'.sent = 0
  <2>1. CASE tick' = Past(e)  BY <1>1, <2>1 DEF Past, Ticks
  <2>2. CASE tick' = Parked  BY <1>1, <2>2 DEF Parked, Ticks
  <2> QED  BY <1>6, <2>1, <2>2
<1>9. CASE ledger.half  BY <1>7, <1>9 DEF FailInv
<1>10. CASE ~ledger.half
  <2> DEFINE at == tick.at
             failed == Min({ledger.fails[at][e] + 1, MaxTransient + 1})
  <2>1. StreakInv /\ CandInv  BY <1>10 DEF FailInv, ReplayInv
  <2>2. e \notin ndb.rows[at] \cup ndb.rows[Legacy]  BY <1>1, <1>2 DEF lifecycleRouteDelivered
  <2>3. e \in DOMAIN happened /\ e \in ledger.may[at]
    <3>1. tick.cand \subseteq DOMAIN happened  BY DEF OwingInv, Behind
    <3>2. e \in tick.cand \cap Accepted(at)  BY <1>1, <1>2, <1>6, <3>1 DEF Accepted
    <3>3. e \in Known(ledger.may, ndb, at)  BY <1>1, <2>1, <3>2 DEF CandInv
    <3> QED  BY <2>2, <3>1, <3>2, <3>3 DEF Known
  <2>4. singleRoute => \A m \in Names : m # at => ledger.may[m] = {}
    <3> SUFFICES ASSUME singleRoute, NEW m \in Names, m # at PROVE ledger.may[m] = {}
      OBVIOUS
    <3>1. tick.pc # "idle"  BY <1>1 DEF RouteTypes, TickShape
    <3>2. ledger.seen = {at}  BY <1>1, <1>6, <3>1, OneRoute DEF OwingInv, TickLinks
    <3> QED  BY <3>2 DEF ReplayInv, Forgotten
  <2>5. /\ at \in Tables /\ Legacy \in Tables /\ at # Legacy /\ MaxTransient \in Nat /\ MaxTransient > 0
        /\ ndb.streak[Legacy][e] \in 0 .. MaxTransient - 1 /\ ndb.streak[at][e] \in 0 .. MaxTransient - 1
        /\ ledger.fails[at][e] \in Nat
    BY <1>1, <1>6, StreakNumbers, RouteNumbers
  <2>6. /\ ndb.streak[Legacy][e] = 0 \/ ndb.streak[at][e] = 0
        /\ ndb.streak[Legacy][e] + ndb.streak[at][e] >= ledger.fails[at][e]
        /\ ndb.streak[Legacy][e] # 0 => \A m \in Names : e \in ledger.may[m] => m = at
    BY <1>6, <2>1, <2>2, <2>3 DEF StreakInv
  <2>7. count = ndb.streak[Legacy][e] + ndb.streak[at][e] + 1
    <3>1. CASE singleRoute
      <4>1. key = Legacy /\ prior = at  BY <1>3, <1>4, <3>1
      <4> QED  BY <1>5, <2>5, <2>6, <4>1 DEF StreakSoFar
    <3>2. CASE ~singleRoute
      <4>1. key = at /\ prior = Legacy  BY <1>3, <1>4, <3>2
      <4> QED  BY <1>5, <2>5, <2>6, <4>1 DEF StreakSoFar
    <3> QED  BY <3>1, <3>2
  <2>8. failed = ledger.fails[at][e] + 1 /\ failed \in Nat /\ failed <= MaxTransient /\ count >= failed
    <3>1. ledger.fails[at][e] < MaxTransient  BY <2>5, <2>6
    <3>2. failed = ledger.fails[at][e] + 1  BY <2>5, <3>1, CountUp
    <3> HIDE DEF failed
    <3> QED  BY <2>5, <2>6, <2>7, <3>1, <3>2
  <2>9. \A n \in Names, j \in Ids :
           ledger'.fails[n][j] = IF n = at /\ j = e THEN failed ELSE ledger.fails[n][j]
    <3>1. ledger.fails \in [Names -> [Ids -> 0 .. MaxTransient + 1]]  BY <1>1 DEF Ledgers
    <3> HIDE DEF failed
    <3> QED  BY <1>6, <1>7, <3>1 DEF failed
  <2> HIDE DEF failed
  <2>a. UNCHANGED happened /\ ledger'.may = ledger.may  BY <1>6, <1>7
  <2> SUFFICES ASSUME NEW n \in Names, NEW j \in Ids
               PROVE  /\ ledger'.fails[n][j] <= MaxTransient
                      /\ ledger'.fails[n][j] > 0 => j \in DOMAIN happened
                      /\ tick'.sent = j /\ tick'.at = n => ledger'.fails[n][j] = 0
                      /\ ndb'.streak[Legacy][j] # 0 => j \in DOMAIN happened /\
                            \A m \in Names : j \in ledger.may[n] /\ j \in ledger.may[m] => m = n
                      /\ j \in ledger.may[n] => ndb'.streak[Legacy][j] = 0 \/ ndb'.streak[n][j] = 0
                      /\ j \in ledger.may[n] /\ j \notin ndb'.rows[n] \cup ndb'.rows[Legacy] =>
                            ndb'.streak[Legacy][j] + ndb'.streak[n][j] >= ledger'.fails[n][j]
    BY <2>a DEF FailInv, StreakInv
  <2>10. tick'.sent # j  BY <1>1, <1>8, StreakNumbers
  <2>11. /\ ledger.fails[n][j] <= MaxTransient
         /\ ledger.fails[n][j] > 0 => j \in DOMAIN happened
         /\ ndb.streak[Legacy][j] # 0 => j \in DOMAIN happened /\
               \A m \in Names : j \in ledger.may[n] /\ j \in ledger.may[m] => m = n
         /\ j \in ledger.may[n] => ndb.streak[Legacy][j] = 0 \/ ndb.streak[n][j] = 0
         /\ j \in ledger.may[n] /\ j \notin ndb.rows[n] \cup ndb.rows[Legacy] =>
               ndb.streak[Legacy][j] + ndb.streak[n][j] >= ledger.fails[n][j]
    BY <2>1 DEF StreakInv
  <2>12. n \in Tables /\ ndb.rows[n] \subseteq ndb'.rows[n] /\ ndb.rows[Legacy] \subseteq ndb'.rows[Legacy]
    BY <1>6, RouteNumbers
  <2>13. CASE j # e
    <3>1. /\ ledger'.fails[n][j] = ledger.fails[n][j]
          /\ ndb'.streak[Legacy][j] = ndb.streak[Legacy][j] /\ ndb'.streak[n][j] = ndb.streak[n][j]
      BY <1>6, <2>5, <2>9, <2>12, <2>13
    <3> QED  BY <2>10, <2>11, <2>12, <3>1
  <2>14. CASE j = e /\ n = at
    <3>1. ledger'.fails[n][j] = failed  BY <2>9, <2>14
    <3>2. \A m \in Names : j \in ledger.may[m] /\ ndb'.streak[Legacy][j] # 0 => m = n
      <4>1. CASE singleRoute  BY <2>4, <2>14, <4>1
      <4>2. CASE ~singleRoute
        <5>1. key = at /\ prior = Legacy  BY <1>3, <1>4, <4>2
        <5>2. ndb'.streak[Legacy][j] = IF ndb.streak[at][e] = 0 THEN 0 ELSE ndb.streak[Legacy][e]
          BY <1>6, <2>5, <2>14, <5>1
        <5>3. ndb'.streak[Legacy][j] = 0  BY <2>6, <5>2
        <5> QED  BY <5>3
      <4> QED  BY <4>1, <4>2
    <3>3. /\ ndb'.streak[Legacy][j] = 0 \/ ndb'.streak[n][j] = 0
          /\ count < MaxTransient => ndb'.streak[Legacy][j] + ndb'.streak[n][j] = count
      <4>1. CASE singleRoute
        <5>1. key = Legacy /\ prior = at  BY <1>3, <1>4, <4>1
        <5>2. /\ ndb'.streak[Legacy][j] = IF count >= MaxTransient THEN 0 ELSE count
              /\ ndb'.streak[n][j] = IF ndb.streak[Legacy][e] = 0 THEN 0 ELSE ndb.streak[at][e]
          BY <1>6, <2>5, <2>14, <5>1
        <5>3. ndb'.streak[n][j] = 0  BY <2>6, <5>2
        <5> QED  BY <1>6, <2>5, <5>2, <5>3
      <4>2. CASE ~singleRoute
        <5>1. key = at /\ prior = Legacy  BY <1>3, <1>4, <4>2
        <5>2. /\ ndb'.streak[n][j] = IF count >= MaxTransient THEN 0 ELSE count
              /\ ndb'.streak[Legacy][j] = IF ndb.streak[at][e] = 0 THEN 0 ELSE ndb.streak[Legacy][e]
          BY <1>6, <2>5, <2>14, <5>1
        <5>3. ndb'.streak[Legacy][j] = 0  BY <2>6, <5>2
        <5> QED  BY <1>6, <2>5, <5>2, <5>3
      <4> QED  BY <4>1, <4>2
    <3>4. j \notin ndb'.rows[n] => count < MaxTransient
      <4>1. at \in RecordedIn(at)  BY RecordedDelivers, <1>6
      <4> QED  BY <1>6, <2>5, <2>14, <4>1
    <3>5. j \notin ndb'.rows[n] \cup ndb'.rows[Legacy] =>
             ndb'.streak[Legacy][j] + ndb'.streak[n][j] >= ledger'.fails[n][j]
      BY <2>8, <3>1, <3>3, <3>4
    <3> QED  BY <2>3, <2>8, <2>10, <2>14, <3>1, <3>2, <3>3, <3>5
  <2>15. CASE j = e /\ n # at
    <3>1. ledger'.fails[n][j] = ledger.fails[n][j]  BY <2>9, <2>15
    <3>2. j \in ledger.may[n] => /\ ~singleRoute /\ ndb.streak[Legacy][j] = 0
                                 /\ ndb'.streak[Legacy][j] = 0 /\ ndb'.streak[n][j] = ndb.streak[n][j]
      <4> SUFFICES ASSUME j \in ledger.may[n] PROVE /\ ~singleRoute /\ ndb.streak[Legacy][j] = 0
                              /\ ndb'.streak[Legacy][j] = 0 /\ ndb'.streak[n][j] = ndb.streak[n][j]
        OBVIOUS
      <4>1. ~singleRoute  BY <2>4, <2>15
      <4>2. key = at /\ prior = Legacy  BY <1>3, <1>4, <4>1
      <4>3. ndb.streak[Legacy][j] = 0  BY <2>6, <2>15
      <4>4. n # Legacy  BY RouteNumbers
      <4> QED  BY <1>6, <2>5, <2>12, <2>15, <4>1, <4>2, <4>3, <4>4
    <3>3. j \in ledger.may[n] /\ j \notin ndb'.rows[n] \cup ndb'.rows[Legacy] =>
             ndb'.streak[Legacy][j] + ndb'.streak[n][j] >= ledger'.fails[n][j]
      BY <2>11, <2>12, <3>1, <3>2
    <3> QED  BY <2>3, <2>10, <2>11, <2>15, <3>1, <3>2, <3>3
  <2> QED  BY <2>13, <2>14, <2>15
<1> QED  BY <1>9, <1>10

\* Steps that send nothing and count no failure.
LEMMA MovesStreak ==
    ASSUME RouteInv, OwingInv, FailInv, Sending, tick' = Past(Event) \/ tick' = Parked,
           UNCHANGED <<happened, ndb, ledger>>
    PROVE  FailInv'
<1>1. RouteTypes /\ tick \in Ticks /\ tick.sent = 0  BY DEF RouteInv, RouteTypes, Sending
<1>2. tick'.sent = 0
  <2> HIDE DEF Event
  <2>1. CASE tick' = Past(Event)  BY <1>1, <2>1 DEF Past, Ticks
  <2>2. CASE tick' = Parked  BY <1>1, <2>2 DEF Parked, Ticks
  <2> QED  BY <2>1, <2>2
<1> QED  BY <1>1, <1>2, StillStreak

\* An entry that is passed over has not failed.
LEMMA PassesOverStreak == ASSUME RouteInv, OwingInv, FailInv, PassesOver PROVE FailInv'
BY MovesStreak DEF PassesOver

\* Nor has one that is left for the next tick.
LEMMA FailsConfigStreak == ASSUME RouteInv, OwingInv, FailInv, FailsConfig PROVE FailInv'
BY MovesStreak DEF FailsConfig, ToSend

\* A permanent failure does not count as a transient one.
LEMMA FailsPermanentlyStreak == ASSUME RouteInv, OwingInv, FailInv, FailsPermanently PROVE FailInv'
<1>1. RouteTypes /\ Sending /\ ndb \in Databases /\ ledger \in Ledgers /\ tick \in Ticks /\ tick.sent = 0
  BY DEF RouteInv, RouteTypes, FailsPermanently, ToSend, Sending
<1>2. /\ ndb' = WithRows(ndb, Event) /\ tick' = Past(Event) /\ UNCHANGED happened
      /\ ledger'.may = ledger.may /\ ledger'.fails = ledger.fails /\ (ledger.half => ledger'.half)
  BY <1>1 DEF FailsPermanently, Ledgers
<1>3. Event \in Ids  BY <1>1, EventLeast
<1> HIDE DEF Event
<1>4. ndb'.streak = ndb.streak /\ \A t \in Tables : ndb.rows[t] \subseteq ndb'.rows[t]
  BY <1>1, <1>2, <1>3, RowsWritten
<1>5. tick'.sent = 0  BY <1>1, <1>2 DEF Past, Ticks
<1> QED  BY <1>1, <1>2, <1>4, <1>5, QuietStreak

\* A route begins.
LEMMA TaskRouteStartsStreak ==
    ASSUME RouteInv, OwingInv, FailInv, NEW n \in Names, TaskRouteStarts(n) PROVE FailInv'
<1>1. RouteTypes /\ tick \in Ticks  BY DEF RouteInv, RouteTypes
<1>2. UNCHANGED <<happened, ndb, ledger>>  BY DEF TaskRouteStarts
<1>3. tick.sent = 0  BY <1>1 DEF RouteTypes, TickShape, TaskRouteStarts
<1>4. tick'.sent = 0  BY <1>1, <1>3 DEF TaskRouteStarts, Ticks
<1> QED  BY <1>1, <1>2, <1>4, StillStreak

\* A cursor moves.
LEMMA TaskRouteEndsStreak ==
    ASSUME RouteInv, OwingInv, FailInv, NEW ok \in BOOLEAN, TaskRouteEnds(ok) PROVE FailInv'
<1> DEFINE cursor == [ndb.cursor EXCEPT ![tick.at] = tick.handled]
<1>1. RouteTypes /\ tick \in Ticks /\ ndb \in Databases  BY DEF RouteInv, RouteTypes
<1>2. /\ UNCHANGED <<happened, ledger>> /\ tick.sent = 0
      /\ \/ ndb' = ndb
         \/ ndb' = [ndb EXCEPT !.shared = tick.handled]
         \/ ndb' = [ndb EXCEPT !.cursor = cursor]
  BY DEF TaskRouteEnds
<1>3. tick'.sent = 0  BY <1>1, <1>2 DEF TaskRouteEnds, Ticks
<1>4. ndb'.streak = ndb.streak /\ ndb'.rows = ndb.rows
  <2> HIDE DEF cursor
  <2> QED  BY <1>1, <1>2 DEF Databases
<1> QED  BY <1>1, <1>2, <1>3, <1>4, StillStreak

\* The floor rises, the claw baseline is seeded.
LEMMA TaskPassEndsStreak == ASSUME RouteInv, OwingInv, FailInv, TaskPassEnds PROVE FailInv'
<1> DEFINE rises == /\ ~singleRoute /\ tick.built = tick.routes /\ DOMAIN tick.wm = tick.built
                    /\ tick.floor > 0 /\ tick.floor > ndb.shared
           d == IF rises THEN [ndb EXCEPT !.shared = tick.floor] ELSE ndb
           off == Of("claw") \cap Typed(tick.muted)
           next == [tick EXCEPT !.pc = "claw", !.todo = tick.built \ tick.paused,
                                !.wm = [n \in {} |-> 0], !.floor = NoCursor, !.paused = {}]
<1>1. /\ RouteTypes /\ ndb \in Databases /\ tick \in Ticks /\ ledger \in Ledgers /\ HappenedTypes
      /\ tick.routes \in SUBSET Names
  BY DEF RouteInv, RouteTypes, Ticks
<1>2. /\ tick.pc = "task" /\ tick.at = Legacy /\ UNCHANGED happened
      /\ IF ~d.clawBase
         THEN /\ ndb' = seedLifecycleClawBaseline(d, tick.routes) /\ tick' = NoTick /\ ledger' = ledger
         ELSE /\ ndb' = SkipForAll(d, off) /\ tick' \in {NoTick, next} /\ ledger' = Without(ledger, off)
  BY DEF TaskPassEnds
<1>3. tick.sent = 0  BY <1>1, <1>2 DEF RouteTypes, TickShape
<1>4. tick'.sent = 0
  <2>1. next.sent = 0 /\ NoTick.sent = 0  BY <1>1, <1>3, NoTickTyped DEF Ticks
  <2> QED  BY <1>2, <2>1
<1>5. d \in Databases /\ d.rows = ndb.rows /\ d.streak = ndb.streak
  <2>1. tick.floor \in Positions  BY <1>1 DEF Ticks
  <2> QED  BY <1>1, <2>1 DEF Databases
<1>6. off \in SUBSET Ids  BY <1>1, EntryIds
<1> HIDE DEF d, off, rises, next
<1>7. CASE ~d.clawBase
  <2>1. ndb' = seedLifecycleClawBaseline(d, tick.routes) /\ ledger' = ledger  BY <1>2, <1>7
  <2>2. FailuresHeld(d, ndb', tick.routes) /\ ndb'.streak = d.streak  BY <1>1, <1>5, <2>1, SeedHeld, SeedParts
  <2>3. ndb'.streak = ndb.streak /\ \A t \in Tables : ndb.rows[t] \subseteq ndb'.rows[t]
    BY <1>5, <2>2 DEF FailuresHeld
  <2> QED  BY <1>1, <1>2, <1>4, <2>1, <2>3, StillStreak
<1>8. CASE d.clawBase
  <2>1. ndb' = SkipForAll(d, off) /\ ledger' = Without(ledger, off)  BY <1>2, <1>8
  <2>2. ndb'.streak = d.streak /\ \A t \in Tables : \A j : j \in d.rows[t] => j \in ndb'.rows[t]
    BY <1>5, <1>6, <2>1, SkipParts
  <2>3. ndb'.streak = ndb.streak /\ \A t \in Tables : ndb.rows[t] \subseteq ndb'.rows[t]
    BY <1>5, <2>2
  <2> QED  BY <1>1, <1>2, <1>4, <2>1, <2>3, WithoutStreak
<1> QED  BY <1>7, <1>8

\* The cursors are read.
LEMMA BuildsStreak == ASSUME RouteInv, OwingInv, FailInv, TickBuilds PROVE FailInv'
<1> DEFINE built == tick.routes \ unbuildable
           single == built = tick.routes /\ Cardinality(built) = 1
           key(n) == lifecycleWatermarkKeyFor(ndb, n, single)
           with == {n \in built : CursorAt(ndb, key(n)) # NoCursor}
           wm == [n \in with |-> CursorAt(ndb, key(n))]
           lowest == Min({wm[n] : n \in with})
           next == [tick EXCEPT !.pc = "task", !.built = built, !.wm = wm, !.todo = with]
           off == {i \in Of("task") \cap Typed(tick.muted) : i > lowest}
           head == lifecycleMaxEventRowID
<1>1. /\ RouteTypes /\ ndb \in Databases /\ ledger \in Ledgers /\ tick \in Ticks /\ TickShape /\ HappenedTypes
  BY DEF RouteInv, RouteTypes
<1>2. /\ tick.pc = "build" /\ UNCHANGED happened
      /\ tick' \in {NoTick, next, [next EXCEPT !.todo = {}]}
      /\ \/ ndb' \in {ndb, [ndb EXCEPT !.shared = head]} /\ UNCHANGED ledger
         \/ ndb' = parkLifecycleWatermark(ndb) /\ ledger' = Without(ledger, Of("task"))
         \/ ndb' = SkipForAll(ndb, off) /\ ledger' = Without(ledger, off)
  BY DEF TickBuilds, skipLifecycleMutedEvents
<1>3. tick.sent = 0  BY <1>1, <1>2 DEF TickShape
<1> HIDE DEF built, with, wm
<1>4. tick'.sent = 0
  <2>1. next.sent = 0 /\ [next EXCEPT !.todo = {}].sent = 0 /\ NoTick.sent = 0
    BY <1>1, <1>3, NoTickTyped DEF Ticks
  <2> QED  BY <1>2, <2>1
<1>5. off \in SUBSET Ids  BY <1>1, EntryIds
<1> HIDE DEF off, next
<1>6. CASE ndb' \in {ndb, [ndb EXCEPT !.shared = head]} /\ UNCHANGED ledger
  <2>1. ndb'.streak = ndb.streak /\ ndb'.rows = ndb.rows  BY <1>1, <1>6 DEF Databases
  <2> QED  BY <1>1, <1>2, <1>4, <1>6, <2>1, StillStreak
<1>7. CASE ndb' = parkLifecycleWatermark(ndb) /\ ledger' = Without(ledger, Of("task"))
  <2>1. ndb'.streak = ndb.streak /\ ndb'.rows = ndb.rows  BY <1>1, <1>7, ParkParts
  <2> QED  BY <1>2, <1>4, <1>7, <2>1, WithoutStreak
<1>8. CASE ndb' = SkipForAll(ndb, off) /\ ledger' = Without(ledger, off)
  <2>1. ndb'.streak = ndb.streak /\ \A t \in Tables : \A j : j \in ndb.rows[t] => j \in ndb'.rows[t]
    BY <1>1, <1>5, <1>8, SkipParts
  <2>2. \A t \in Tables : ndb.rows[t] \subseteq ndb'.rows[t]  BY <2>1
  <2> QED  BY <1>2, <1>4, <1>8, <2>1, <2>2, WithoutStreak
<1> QED  BY <1>2, <1>6, <1>7, <1>8

\* After a route nothing is under way.
LEMMA AfterRouteStreak ==
    ASSUME RouteInv, tick.sent = 0, NEW n, tick' = AfterRoute(n) PROVE tick'.sent = 0
<1>1. tick \in Ticks  BY DEF RouteInv, RouteTypes
<1> QED  BY <1>1, NoTickTyped DEF AfterRoute, Ticks

\* A baseline is written.
LEMMA ClawRouteStartsStreak ==
    ASSUME RouteInv, OwingInv, FailInv, NEW n \in Names, ClawRouteStarts(n) PROVE FailInv'
<1> DEFINE b == BaselineOf(ndb, n)
           rejected == (Types \ tick.muted) \ Accepts[n]
           off == Of("claw") \cap Typed(rejected)
           d == IF rejected = {} THEN b.db ELSE lifecycleClawRouteSkip(b.db, n, off)
           cand == (Of("claw") \cap Typed(Accepts[n] \ tick.muted)) \ (d.rows[Legacy] \cup d.rows[n])
<1>1. /\ RouteTypes /\ ndb \in Databases /\ tick \in Ticks /\ TickShape /\ HappenedTypes
  BY DEF RouteInv, RouteTypes
<1>2. /\ tick.pc = "claw" /\ tick.at = Legacy /\ UNCHANGED <<happened, ledger>>
      /\ \/ ndb' = d /\ tick' = [tick EXCEPT !.at = n, !.cand = cand]
         \/ ndb' = b.db /\ tick' = AfterRoute(n)
  BY DEF ClawRouteStarts
<1>3. tick.sent = 0  BY <1>1, <1>2 DEF TickShape
<1>4. b.db \in Databases /\ b.db.streak = ndb.streak /\ \A t \in Tables : ndb.rows[t] \subseteq b.db.rows[t]
  <2>1. PICK c : c = b  OBVIOUS
  <2>2. c.db \in Databases /\ c.db.streak = ndb.streak /\ \A t \in Tables : ndb.rows[t] \subseteq c.db.rows[t]
    BY <1>1, <2>1, BaselineParts
  <2> QED  BY <2>1, <2>2
<1>5. off \in SUBSET Ids  BY <1>1, EntryIds
<1> HIDE DEF b, off, cand, rejected
<1>6. d.streak = ndb.streak /\ \A t \in Tables : ndb.rows[t] \subseteq d.rows[t]
  <2>1. CASE d = b.db  BY <1>4, <2>1
  <2>2. CASE d = lifecycleClawRouteSkip(b.db, n, off)
    <3>1. /\ d.streak = b.db.streak
          /\ \A t \in Tables : \A j : j \in d.rows[t] <=> j \in b.db.rows[t] \/ (t = n /\ j \in off)
      BY <1>4, <1>5, <2>2, RouteSkipParts
    <3> HIDE DEF d
    <3> QED  BY <1>4, <3>1
  <2> QED  BY <2>1, <2>2
<1> HIDE DEF d
<1>7. ndb'.streak = ndb.streak /\ \A t \in Tables : ndb.rows[t] \subseteq ndb'.rows[t]  BY <1>2, <1>4, <1>6
<1>8. tick'.sent = 0
  <2>1. [tick EXCEPT !.at = n, !.cand = cand].sent = 0  BY <1>1, <1>3 DEF Ticks
  <2> QED  BY <1>2, <1>3, <2>1, AfterRouteStreak
<1> QED  BY <1>1, <1>2, <1>7, <1>8, StillStreak

\* The claw pass of a route is over.
LEMMA ClawRouteEndsStreak == ASSUME RouteInv, OwingInv, FailInv, ClawRouteEnds PROVE FailInv'
<1>1. RouteTypes /\ UNCHANGED <<happened, ndb, ledger>> /\ tick.sent = 0  BY DEF RouteInv, ClawRouteEnds
<1>2. tick'.sent = 0  BY <1>1, AfterRouteStreak DEF ClawRouteEnds
<1> QED  BY <1>1, <1>2, StillStreak

\* Nothing of the notifier changes.
LEMMA SurroundingsStreak ==
    ASSUME RouteInv, FailInv, UNCHANGED <<happened, ndb, tick, ledger>> PROVE FailInv'
<1>1. RouteTypes  BY DEF RouteInv
<1> QED  BY <1>1, StillStreak

\* What happens has no failures yet.
LEMMA HappensStreak ==
    ASSUME RouteInv, OwingInv, FailInv, NEW k \in Kinds, Happens(k[1], k[2]) PROVE FailInv'
<1> DEFINE e == Len(happened) + 1
           to == {n \in ledger.seen : k[2] \in Accepts[n]}
           may == [n \in Names |-> IF n \in to THEN ledger.may[n] \cup {e} ELSE ledger.may[n]]
<1>1. RouteTypes /\ ndb \in Databases /\ ledger \in Ledgers /\ HappenedTypes
  BY DEF RouteInv, RouteTypes
<1>2. /\ happened' = Append(happened, [src |-> k[1], type |-> k[2]])
      /\ UNCHANGED <<ndb, tick>>
      /\ ledger'.fails = ledger.fails /\ (ledger'.half <=> ledger.half) /\ ledger'.may = may
  BY <1>1 DEF Happens, Ledgers
<1>3. Len(happened) \in Nat /\ DOMAIN happened = 1 .. Len(happened) /\ e \notin DOMAIN happened
  BY <1>1, HeadWithin
<1>4. DOMAIN happened \subseteq DOMAIN happened'
  <2>1. happened \in Seq([src : {"task", "claw"}, type : Types])  BY <1>1 DEF HappenedTypes
  <2>2. [src |-> k[1], type |-> k[2]] \in [src : {"task", "claw"}, type : Types]  BY RoutesAssumption
  <2> QED  BY <1>2, <1>3, <2>1, <2>2
<1>5. \A n \in Names : \A i : i # e => (i \in may[n] <=> i \in ledger.may[n])
  OBVIOUS
<1> HIDE DEF may, e
<1> SUFFICES ASSUME ~ledger.half, NEW n \in Names, NEW i \in Ids
             PROVE  /\ ledger.fails[n][i] <= MaxTransient
                    /\ ledger.fails[n][i] > 0 => i \in DOMAIN happened'
                    /\ tick.sent = i /\ tick.at = n => ledger.fails[n][i] = 0
                    /\ ndb.streak[Legacy][i] # 0 => i \in DOMAIN happened' /\
                          \A m \in Names : i \in may[n] /\ i \in may[m] => m = n
                    /\ i \in may[n] => ndb.streak[Legacy][i] = 0 \/ ndb.streak[n][i] = 0
                    /\ i \in may[n] /\ i \notin ndb.rows[n] \cup ndb.rows[Legacy] =>
                          ndb.streak[Legacy][i] + ndb.streak[n][i] >= ledger.fails[n][i]
  BY <1>2 DEF FailInv, StreakInv
<1>6. /\ ledger.fails[n][i] <= MaxTransient
      /\ ledger.fails[n][i] > 0 => i \in DOMAIN happened
      /\ tick.sent = i /\ tick.at = n => ledger.fails[n][i] = 0
      /\ ndb.streak[Legacy][i] # 0 =>
            i \in DOMAIN happened /\ \A m \in Names : i \in ledger.may[n] /\ i \in ledger.may[m] => m = n
      /\ i \in ledger.may[n] => ndb.streak[Legacy][i] = 0 \/ ndb.streak[n][i] = 0
      /\ i \in ledger.may[n] /\ i \notin ndb.rows[n] \cup ndb.rows[Legacy] =>
            ndb.streak[Legacy][i] + ndb.streak[n][i] >= ledger.fails[n][i]
  BY DEF FailInv, StreakInv
<1>7. CASE i # e  BY <1>4, <1>5, <1>6, <1>7
<1>8. CASE i = e
  <2>1. ndb.streak[Legacy][i] = 0  BY <1>3, <1>6, <1>8
  <2>2. ledger.fails[n][i] \in Nat /\ ndb.streak[n][i] \in Nat /\ ~(ledger.fails[n][i] > 0)
    BY <1>1, <1>3, <1>6, <1>8, StreakNumbers, RouteNumbers
  <2>3. ledger.fails[n][i] = 0  BY <2>2
  <2>4. ndb.streak[Legacy][i] + ndb.streak[n][i] >= ledger.fails[n][i]  BY <2>1, <2>2, <2>3
  <2>5. ~(ledger.fails[n][i] > 0)  BY <2>2
  <2> QED  BY <1>6, <2>1, <2>3, <2>4, <2>5
<1> QED  BY <1>7, <1>8

\* At the start nothing has failed.
LEMMA InitStreak == RoutesInit => FailInv
<1> SUFFICES ASSUME RoutesInit PROVE FailInv  OBVIOUS
<1>1. RouteInv /\ tick.sent = 0  BY InitRoutes, NoTickTyped DEF RoutesInit
<1>2. RouteTypes /\ HappenedTypes /\ nconf.routes \in SUBSET Names
  BY <1>1 DEF RouteInv, RouteTypes, Configs
<1>3. \A n \in Names, i \in Ids : ledger.may[n] = {} /\ ledger.fails[n][i] = 0
  <2>1. CASE ledger = NoLedger  BY <2>1 DEF NoLedger
  <2>2. CASE ledger = SeenBy(NoLedger, nconf.routes)  BY <2>2 DEF NoLedger, SeenBy
  <2> QED  BY <2>1, <2>2 DEF RoutesInit
<1>4. FreshState \in Databases /\ LegacyState \in Databases  BY FreshTyped
<1>5. \A i \in Ids : FreshState.streak[Legacy][i] = 0 /\ LegacyState.streak[Legacy][i] = 0
  <2>1. \A i \in Ids : FreshState.streak[Legacy][i] = 0  BY DEF FreshState
  <2>2. LegacyState.streak = FreshState.streak  BY <1>4 DEF LegacyState, Databases
  <2> QED  BY <2>1, <2>2
<1>6. \A i \in Ids : ndb.streak[Legacy][i] = 0
  <2>1. CASE ndb = BootState(LegacyState, nconf.routes)
    <3>1. FailuresHeld(LegacyState, ndb, nconf.routes)  BY <1>2, <1>4, <2>1, BootHeld
    <3>2. ndb.streak[Legacy] = LegacyState.streak[Legacy]  BY <3>1 DEF FailuresHeld
    <3> QED  BY <1>5, <3>2
  <2>2. CASE ndb = FreshState  BY <1>5, <2>2
  <2> QED  BY <2>1, <2>2 DEF RoutesInit
<1>7. MaxTransient \in Nat /\ ~(0 > 0) /\ 0 <= MaxTransient  BY RouteNumbers
<1> QED  BY <1>3, <1>6, <1>7 DEF FailInv, StreakInv

\* Every step keeps it.
LEMMA NextStreak == ASSUME RouteInv, OwingInv, ReplayInv, FailInv, [RoutesNext]_routeVars PROVE FailInv'
<1>1. CASE TickSteps
  <2>1. CASE TickBuilds  BY <2>1, BuildsStreak
  <2>2. CASE PassesOver  BY <2>2, PassesOverStreak
  <2>3. CASE Sends  BY <2>3, SendsStreak
  <2>4. CASE Records(TRUE)  BY <2>4, RecordsStreak
  <2>5. CASE FailsTransiently  BY <2>5, FailsTransientlyStreak
  <2>6. CASE TaskRouteEnds(TRUE)  BY <2>6, TaskRouteEndsStreak
  <2>7. CASE TaskPassEnds  BY <2>7, TaskPassEndsStreak
  <2>8. CASE ClawRouteEnds  BY <2>8, ClawRouteEndsStreak
  <2>9. CASE \E n \in Names : TaskRouteStarts(n) \/ ClawRouteStarts(n)
    BY <2>9, TaskRouteStartsStreak, ClawRouteStartsStreak
  <2> QED  BY <1>1, <2>1, <2>2, <2>3, <2>4, <2>5, <2>6, <2>7, <2>8, <2>9 DEF TickSteps
<1>2. CASE \E ok, readable \in BOOLEAN : TickStarts(ok, readable)
  BY <1>2, StartsStreak
<1>3. CASE Records(FALSE)  BY <1>3, RecordsStreak
<1>4. CASE TaskRouteEnds(FALSE)  BY <1>4, TaskRouteEndsStreak
<1>5. CASE FailsConfig  BY <1>5, FailsConfigStreak
<1>6. CASE FailsPermanently  BY <1>6, FailsPermanentlyStreak
<1>7. CASE Restarts  BY <1>7, RestartsStreak
<1>8. CASE Saves \/ \E n \in Names : Breaks(n) \/ Repairs(n)
  <2>1. UNCHANGED <<happened, ndb, tick, ledger>>  BY <1>8 DEF Saves, Breaks, Repairs
  <2> QED  BY <2>1, SurroundingsStreak
<1>9. CASE \E k \in Kinds : Happens(k[1], k[2])  BY <1>9, HappensStreak
<1>10. CASE UNCHANGED routeVars  BY <1>10, SurroundingsStreak DEF routeVars
<1> QED  BY <1>1, <1>2, <1>3, <1>4, <1>5, <1>6, <1>7, <1>8, <1>9, <1>10 DEF RoutesNext

\* The invariant holds of every behaviour.
LEMMA StreakHold == RoutesSpec => []FailInv
<1>1. RoutesInit => FailInv  BY InitStreak
<1>2. RouteInv /\ OwingInv /\ ReplayInv /\ FailInv /\ [RoutesNext]_routeVars => FailInv'  BY NextStreak
<1> QED  BY <1>1, <1>2, RoutesHold, OwingHold, ReplayHold, PTL DEF RoutesSpec

\* Every route gets what it is owed, once, and an event is given up after
\* lifecycleMaxTransientFailures failures at the latest, whatever routes are added,
\* removed or broken beside it and whenever the hub restarts.
THEOREM RoutesNotifiedOnce == RoutesSpec => []NotifiedOnce
<1>1. RouteInv /\ FailInv => ToldOnce
  <2> SUFFICES ASSUME RouteInv, FailInv, NEW n \in Names, NEW i \in Ids
               PROVE  /\ ledger.sends[n][i] > 1 => i \in ledger.lost
                      /\ ledger.fails[n][i] > MaxTransient => ledger.half
    BY DEF ToldOnce
  <2>1. ledger.sends[n][i] > 1 => i \in ledger.lost  BY DEF RouteInv, SentInv
  <2>2. ~ledger.half => ~(ledger.fails[n][i] > MaxTransient)
    <3>1. ledger.fails[n][i] \in Nat /\ MaxTransient \in Nat  BY StreakNumbers, RouteNumbers DEF RouteInv
    <3>2. ~ledger.half => ledger.fails[n][i] <= MaxTransient  BY DEF FailInv, StreakInv
    <3> QED  BY <3>1, <3>2
  <2> QED  BY <2>1, <2>2
<1>2. NothingMissed /\ ToldOnce => NotifiedOnce  BY DEF NotifiedOnce
<1> QED  BY <1>1, <1>2, RoutesHold, StreakHold, NothingIsMissed, PTL
===============================================================================
