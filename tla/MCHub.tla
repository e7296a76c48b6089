--------------------------------- MODULE MCHub ---------------------------------
(***************************************************************************)
(* The parts of the hub that share no state with one another, for TLC: a   *)
(* behaviour follows one of the parts named by Foci while the others rest  *)
(* in their initial state.                                                 *)
(***************************************************************************)
EXTENDS ClawCreation, CronSlots, StopComment, TurnQueue, UsageLimit, VolumeLeases,
    DeliveryPolicy, LifecycleRoutes

CONSTANT Foci       \* the parts this run is about

Parts == {"creation", "cron", "comment", "turns", "limit", "volumes", "delivery", "routes"}

ASSUME FociAssumption == Foci \subseteq Parts

VARIABLE focus      \* the part that runs

hubPartVars == <<focus, creationVars, cronVars, commentVars, turnVars, limitVars, volVars,
                 deliveryVars, routeVars>>

MCGroupOf == [k \in Keys \cup {NoKey} |-> IF k = "k2" THEN "g2" ELSE "g1"]
MCGroupLimit == [g \in Groups |-> 1]
MCAccepts == [n \in Names |-> IF n = Incumbent THEN {"a"} ELSE Types]
MCKinds == {<<"task", t>> : t \in Types} \cup {<<"claw", "b">>}
MCPaths == {createClawForGitHubPR, processExternalFactoryTrigger}
MCOnePath == {processExternalFactoryTrigger}

PartsInit ==
    /\ focus \in Foci
    /\ CreationInit /\ CronInit /\ CommentInit /\ TurnInit /\ LimitInit /\ VolInit
    /\ DeliveryInit /\ RoutesInit
    /\ focus # "cron" => gen = "v1" /\ policy = "skip"
    /\ focus # "delivery" => domain = "ci" /\ pr.sub = "none"
    /\ focus # "routes" => ~nconf.on
    /\ focus # "volumes" => vmode = [c \in VClaws |-> "ro"]

PartsNext ==
    \/ /\ focus = "creation" /\ CreationNext
       /\ UNCHANGED <<focus, cronVars, commentVars, turnVars, limitVars, volVars, deliveryVars, routeVars>>
    \/ /\ focus = "cron" /\ CronNext
       /\ UNCHANGED <<focus, creationVars, commentVars, turnVars, limitVars, volVars, deliveryVars, routeVars>>
    \/ /\ focus = "comment" /\ CommentNext
       /\ UNCHANGED <<focus, creationVars, cronVars, turnVars, limitVars, volVars, deliveryVars, routeVars>>
    \/ /\ focus = "turns" /\ TurnNext
       /\ UNCHANGED <<focus, creationVars, cronVars, commentVars, limitVars, volVars, deliveryVars, routeVars>>
    \/ /\ focus = "volumes" /\ VolNext
       /\ UNCHANGED <<focus, creationVars, cronVars, commentVars, turnVars, limitVars, deliveryVars, routeVars>>
    \/ /\ focus = "limit" /\ LimitNext
       /\ UNCHANGED <<focus, creationVars, cronVars, commentVars, turnVars, volVars, deliveryVars, routeVars>>
    \/ /\ focus = "delivery" /\ DeliveryNext
       /\ UNCHANGED <<focus, creationVars, cronVars, commentVars, turnVars, limitVars, volVars,
                       routeVars>>
    \/ /\ focus = "routes" /\ RoutesNext
       /\ UNCHANGED <<focus, creationVars, cronVars, commentVars, turnVars, limitVars, volVars,
                       deliveryVars>>

PartsSpec == PartsInit /\ [][PartsNext]_hubPartVars

\* The rows, the memory and what is in flight have values of the kinds the code
\* writes; among them the overlap counter of a cron workflow, never negative.
PartsTypeOK ==
    CASE focus = "creation" -> CreationTypeOK
      [] focus = "cron" -> CronTypeOK
      [] focus = "comment" -> CommentTypeOK
      [] focus = "turns" -> TurnTypeOK
      [] focus = "limit" -> LimitTypeOK
      [] focus = "volumes" -> VolTypeOK
      [] focus = "delivery" -> DeliveryTypeOK
      [] focus = "routes" -> RoutesTypeOK

(***************************************************************************)
(* Fairness.  Actions that cannot go on for ever by themselves share one   *)
(* condition.                                                              *)
(***************************************************************************)

\* promotePendingClaws and ends keep coming (every end, every reaper tick), and a
\* run ends: its own deadline and the reaper see to it.
CreationFairness ==
    /\ WF_creationVars(focus = "creation" /\ Promoting)
    /\ WF_creationVars(focus = "creation" /\ \E c \in ClawIds : SlotGraceEnds(c))
    /\ WF_creationVars(focus = "creation" /\ ReaperPromotes)
    /\ SF_creationVars(focus = "creation" /\ \E c \in ClawIds, inSync \in BOOLEAN :
                           clawSt[c] = "active" /\ Ends(c, "deleted", inSync))

\* The goroutines that noticed an end, and failing starts, go on.
CronFairness ==
    /\ \A h \in Hooks : WF_cronVars(focus = "cron" /\ HookNext(h))
    /\ WF_cronVars(focus = "cron" /\ \E r \in CronRuns : FailCronRun(r))

\* Goroutines go on, the reaper ticks, and the tracker accepts a comment that is
\* posted again and again.
CommentFairness ==
    /\ WF_commentVars(focus = "comment" /\ (StopDispatches \/ ReaperRedrives))
    /\ SF_commentVars(focus = "comment" /\ \E d \in delivering : Post(d))
    /\ WF_commentVars(focus = "comment" /\ \E d \in delivering :
                          d.posted /\ (DeliveryClears(d) \/ DeliveryRetries(d)))

\* The bridge reconnects, both ends read what they are sent, mutexes are released,
\* turns end (agentTurnTimeout), and the watchdog keeps ticking.
TurnFairness ==
    /\ WF_turnVars(focus = "turns" /\ \E e \in Conns :
                       RegisterReads(e) \/ RegisterPublishes(e) \/ HubNotices(e))
    /\ WF_turnVars(focus = "turns" /\ (PauseMirror \/ ResumeMirror))
    /\ WF_turnVars(focus = "turns" /\ \E e \in Conns : Delivers(e))
    /\ WF_turnVars(focus = "turns" /\ \E e \in Conns : HubReads(e))
    /\ WF_turnVars(focus = "turns" /\ ((\E e \in Conns : BridgeReads(e)) \/ \E t \in turns : TurnStarts(t)))
    /\ WF_turnVars(focus = "turns" /\ \E t \in turns : TurnReplies(t))
    /\ WF_turnVars(focus = "turns" /\ ForcesFinish)

\* The scheduler ticks, deadlines pass, claws connect and take the turns they are
\* given, and the provider answers.
LimitFairness ==
    /\ WF_limitVars(focus = "limit" /\ (TimePasses \/ ReleaseRecord))
    /\ WF_limitVars(focus = "limit" /\ SchedulerTicks)
    /\ \A c \in LClaws :
          /\ WF_limitVars(focus = "limit" /\ (TurnBegins(c) \/ ProviderAnswers(c)
                              \/ handleLLMUsageLimit(c) \/ observeAuthoredTurnForLLMLimit(c)))
          /\ WF_limitVars(focus = "limit" /\ (ConnectL(c) \/ seedLLMLimitForConnection(c)))

\* The reconciler keeps ticking, and a goroutine that has begun goes on or fails.
DeliveryFairness ==
    /\ WF_deliveryVars(focus = "delivery" /\ (ReadsTarget("poll") \/ PollSkips \/ Works("poll")))
    /\ WF_deliveryVars(focus = "delivery" /\ \E w \in Workers \ {"poll"} : Works(w))

\* The notifier keeps ticking, and a tick that has begun goes on.
RoutesFairness ==
    /\ WF_routeVars(focus = "routes" /\ TickSteps)
    /\ WF_routeVars(focus = "routes" /\ TickStarts(TRUE, TRUE))

PartsFairSpec ==
    /\ PartsSpec
    /\ CreationFairness /\ CronFairness /\ CommentFairness /\ TurnFairness /\ LimitFairness
    /\ DeliveryFairness /\ RoutesFairness
================================================================================
