------------------------------ MODULE ClawCreation ------------------------------
(***************************************************************************)
(* How claws come to be: the trigger rows that webhooks, polls and manual  *)
(* runs claim, the creators that insert a claw for a claim, the            *)
(* concurrency groups that make it wait, and the promotion of waiting      *)
(* claws.  pkg/hub: factory_triggers.go, linear.go, factory_creator.go,    *)
(* workflow_creator.go, github_issues.go, github_webhook.go, shortcut.go,  *)
(* jira.go, external_webhook.go, reaper.go.  A claw's life once it runs is *)
(* in ClawLifecycle; here it is what the counts and the claims see of it.  *)
(***************************************************************************)
EXTENDS Naturals, FiniteSets

CONSTANTS
    MaxClaws,       \* bound on claws created
    Keys,           \* trigger keys: issues, stories, pull requests, deliveries
    Groups,         \* concurrency groups
    GroupOf,        \* of each key, and of a manual trigger (NoKey)
    GroupLimit,     \* 0 is unlimited
    NoKey,
    Paths,          \* the creators in use, see AllPaths
    MaxCreators,    \* bound on creators at a time
    MaxMishaps      \* bound on failed creations, slow claims, restarts

VARIABLES
    clawSt,         \* claws.status, as far as it is read here
    keyOf,          \* the issue or delivery the claw was created for
    syncing,        \* ended claws that hold a writable volume lease
    returned,       \* history: claws that came back without admission
    trig,           \* factory_triggers
    creators,       \* handlers between their claim and its completion
    sweep,          \* promotePendingClaws: the rows it has still to look at
    chosen,         \* ... the claw it found capacity for
    promoteDue,     \* a promotePendingClaws waits for promoteMu
    mishaps,
    doubted         \* history: keys whose claim was given up while it was used

creationVars == <<clawSt, keyOf, syncing, returned, trig, creators, sweep, chosen,
                  promoteDue, mishaps, doubted>>

ClawIds == 1 .. MaxClaws
NoClaw == 0
Existing == {c \in ClawIds : clawSt[c] # "none"}
Group(c) == GroupOf[keyOf[c]]

ASSUME CreationAssumption ==
    /\ MaxClaws \in Nat \ {0} /\ MaxCreators \in Nat \ {0}
    /\ MaxMishaps \in Nat
    /\ NoKey \notin Keys
    /\ GroupOf \in [Keys \cup {NoKey} -> Groups]
    /\ GroupLimit \in [Groups -> Nat]

\* A row: ripe when the backoff its retry_count asks for has passed.
NoTrigger == [status |-> "none", claw |-> NoClaw, ripe |-> FALSE]

\* status NOT IN ('error','deleted')
Live(s) == s \in {"pending", "active", "offline"}
\* A claw being replaced has status 'error' until its replacement starts.
RowStatus(c) == IF c = NoClaw THEN "none"
                ELSE IF clawSt[c] = "retrying" THEN "error" ELSE clawSt[c]

Mishap == /\ mishaps < MaxMishaps
          /\ mishaps' = mishaps + 1

CreationInit ==
    /\ clawSt = [c \in ClawIds |-> "none"]
    /\ keyOf = [c \in ClawIds |-> NoKey]
    /\ syncing = {} /\ returned = {}
    /\ trig = [k \in Keys |-> NoTrigger]
    /\ creators = {}
    /\ sweep = {} /\ chosen = NoClaw
    /\ promoteDue = FALSE
    /\ mishaps = 0
    /\ doubted = {}

--------------------------------------------------------------------------------
(***************************************************************************)
(* The creators.  They differ in whether they look for a live claw of the  *)
(* issue first, whether their trigger source is exempt from the backoff,   *)
(* and whether they launch the claw before they complete the claim.        *)
(***************************************************************************)
Path(looksFirst, exempt, launchFirst) ==
    [looksFirst |-> looksFirst, exempt |-> exempt, launchFirst |-> launchFirst]

createClawForIssue == Path(FALSE, FALSE, TRUE)
createClawForLinearWorkflow == Path(TRUE, FALSE, TRUE)
createClawForGitHubIssue == Path(FALSE, FALSE, FALSE)
createClawForGitHubIssueWorkflow == Path(TRUE, FALSE, TRUE)
createClawForGitHubPR == Path(TRUE, FALSE, FALSE)
createClawForShortcutStory == Path(FALSE, FALSE, FALSE)
createClawForShortcutWorkflow == Path(TRUE, FALSE, TRUE)
createClawForJiraIssue == Path(FALSE, FALSE, TRUE)
createClawForJiraWorkflow == Path(TRUE, FALSE, TRUE)
processExternalFactoryTrigger == Path(FALSE, TRUE, TRUE)

AllPaths == {createClawForIssue, createClawForLinearWorkflow, createClawForGitHubIssue,
             createClawForGitHubIssueWorkflow, createClawForGitHubPR,
             createClawForShortcutStory, createClawForShortcutWorkflow,
             createClawForJiraIssue, createClawForJiraWorkflow,
             processExternalFactoryTrigger}
ASSUME PathsAssumption == Paths \subseteq AllPaths

Creator(k, p, pc, c) == [key |-> k, path |-> p, pc |-> pc, claw |-> c]

\* A webhook or a poll: workflow and pull request creators look for a live claw,
\* and go on to the claim when there is none.
LooksFirst(k, p) ==
    /\ p.looksFirst /\ Cardinality(creators) < MaxCreators
    /\ \A c \in Existing : keyOf[c] = k => ~Live(clawSt[c])
    /\ creators' = creators \cup {Creator(k, p, "claim", NoClaw)}
    /\ UNCHANGED <<clawSt, keyOf, syncing, returned, trig, sweep, chosen, promoteDue,
                   mishaps, doubted>>

Charged(t) == [t EXCEPT !.claw = NoClaw, !.status = "failed", !.ripe = FALSE]
Reclaimed(t) == [t EXCEPT !.claw = NoClaw, !.status = "claimed", !.ripe = FALSE]
Outcome(granted, t) == [granted |-> granted, row |-> t]

MutClaimAnyway(t, s, exempt, bornDead) == Outcome(TRUE, Reclaimed(t))

\* claimFactoryTrigger, one transaction: t is the row, s the status of its claw,
\* bornDead whether a deleted claw had lived for at most bornDeadClawMax.
ClaimOutcome(t, s, exempt, bornDead) ==
    LET clawFailed == s = "error" \/ (s = "deleted" /\ bornDead) IN
    IF t.status = "none" THEN Outcome(TRUE, [NoTrigger EXCEPT !.status = "claimed"])
    ELSE IF t.claw # NoClaw /\ Live(s) THEN Outcome(FALSE, t)
    ELSE IF t.claw = NoClaw /\ t.status \in {"claimed", "active"} THEN Outcome(FALSE, t)
    ELSE IF t.claw = NoClaw /\ t.status = "failed" /\ ~exempt /\ ~t.ripe THEN Outcome(FALSE, t)
    ELSE IF t.claw # NoClaw /\ clawFailed
         THEN Outcome(exempt, IF exempt THEN Reclaimed(Charged(t)) ELSE Charged(t))
    ELSE Outcome(TRUE, Reclaimed(t))

claimFactoryTrigger(k, p, bornDead) ==
    LET waiting == Creator(k, p, "claim", NoClaw)
        held == trig[k].claw
        o == ClaimOutcome(trig[k], RowStatus(held), p.exempt, bornDead) IN
    /\ IF p.looksFirst THEN waiting \in creators ELSE Cardinality(creators) < MaxCreators
    /\ trig' = [trig EXCEPT ![k] = o.row]
    /\ creators' = (creators \ {waiting}) \cup
           (IF o.granted THEN {Creator(k, p, "create", NoClaw)} ELSE {})
    /\ doubted' = IF held # NoClaw /\ clawSt[held] = "retrying" THEN doubted \cup {k} ELSE doubted
    /\ UNCHANGED <<clawSt, keyOf, syncing, returned, sweep, chosen, promoteDue, mishaps>>

\* factoryTriggerBackoff has passed since the row was updated.
BackoffPasses(k) ==
    /\ trig[k].status = "failed" /\ ~trig[k].ripe
    /\ trig' = [trig EXCEPT ![k].ripe = TRUE]
    /\ UNCHANGED <<clawSt, keyOf, syncing, returned, creators, sweep, chosen, promoteDue,
                   mishaps, doubted>>

\* failFactoryTrigger, deferred by every creator until the claim is completed.
failFactoryTrigger(k) ==
    trig' = [trig EXCEPT ![k] = IF @.claw = NoClaw /\ @.status # "none" THEN Charged(@) ELSE @]

\* The issue is unreadable, the template missing, no provider, ...
CreationFails(cr) ==
    /\ cr \in creators /\ cr.pc = "create"
    /\ Mishap
    /\ failFactoryTrigger(cr.key)
    /\ creators' = creators \ {cr}
    /\ UNCHANGED <<clawSt, keyOf, syncing, returned, sweep, chosen, promoteDue, doubted>>

--------------------------------------------------------------------------------
(***************************************************************************)
(* Admission, under promoteMu.                                             *)
(***************************************************************************)
\* promotePendingClaws holds promoteMu for the whole of its loop.
MuFree == sweep = {} /\ chosen = NoClaw

\* countActiveClawsInGroup
Counted(c) == clawSt[c] = "active" \/ c \in syncing
Active(g) == {c \in Existing : Group(c) = g /\ Counted(c)}
hasPendingInGroup(g) == \E c \in Existing : Group(c) = g /\ clawSt[c] = "pending"

AtCapacity(g) == GroupLimit[g] > 0 /\ Cardinality(Active(g)) >= GroupLimit[g]
\* A new claw queues behind the waiting ones of its group.
MustWait(g) == GroupLimit[g] > 0 /\ (AtCapacity(g) \/ hasPendingInGroup(g))

InsertClaw(k, c) ==
    /\ MuFree
    /\ clawSt[c] = "none" /\ \A d \in 1 .. (c - 1) : clawSt[d] # "none"
    /\ clawSt' = [clawSt EXCEPT ![c] = IF MustWait(GroupOf[k]) THEN "pending" ELSE "active"]
    /\ keyOf' = [keyOf EXCEPT ![c] = k]

\* The claw row; a creator that launches first is promoting or provisioning now,
\* the others once their claim is complete.
Insert(cr, c) ==
    /\ cr \in creators /\ cr.pc = "create"
    /\ InsertClaw(cr.key, c)
    /\ creators' = (creators \ {cr}) \cup {[cr EXCEPT !.pc = "complete", !.claw = c]}
    /\ promoteDue' = (promoteDue \/ (cr.path.launchFirst /\ MustWait(GroupOf[cr.key])))
    /\ UNCHANGED <<syncing, returned, trig, sweep, chosen, mishaps, doubted>>

\* The trigger buttons and the API create without a claim.
InsertManual(c) ==
    /\ InsertClaw(NoKey, c)
    /\ promoteDue' = (promoteDue \/ MustWait(GroupOf[NoKey]))
    /\ UNCHANGED <<syncing, returned, trig, creators, sweep, chosen, mishaps, doubted>>

\* completeFactoryTrigger, whatever has become of the claim.
completeFactoryTrigger(cr) ==
    /\ cr \in creators /\ cr.pc = "complete"
    /\ trig' = [trig EXCEPT ![cr.key].claw = cr.claw, ![cr.key].status = "active"]
    /\ creators' = creators \ {cr}
    /\ promoteDue' = (promoteDue \/ clawSt[cr.claw] = "pending")
    /\ UNCHANGED <<clawSt, keyOf, syncing, returned, sweep, chosen, mishaps, doubted>>

\* It fails, or what the creator records before it: the claw goes again and the
\* deferred call releases the claim.
CompletionFails(cr) ==
    /\ cr \in creators /\ cr.pc = "complete"
    /\ Mishap
    /\ clawSt' = [clawSt EXCEPT ![cr.claw] = IF @ = "error" THEN @ ELSE "deleted"]
    /\ failFactoryTrigger(cr.key)
    /\ creators' = creators \ {cr}
    /\ promoteDue' = TRUE
    /\ UNCHANGED <<keyOf, syncing, returned, sweep, chosen, doubted>>

\* promotePendingClaws: the claws that wait now, and then each, oldest first.
PromoteBegins ==
    /\ promoteDue /\ MuFree
    /\ sweep' = {c \in Existing : clawSt[c] = "pending"}
    /\ promoteDue' = FALSE
    /\ UNCHANGED <<clawSt, keyOf, syncing, returned, trig, creators, chosen, mishaps, doubted>>

\* A claw of a full group is passed over for the next.
PromoteLooks ==
    /\ chosen = NoClaw
    /\ \E c \in sweep :
          /\ \A d \in sweep : c <= d
          /\ sweep' = sweep \ {c}
          /\ chosen' = IF AtCapacity(Group(c)) THEN NoClaw ELSE c
    /\ UNCHANGED <<clawSt, keyOf, syncing, returned, trig, creators, promoteDue, mishaps, doubted>>

MutPromoteAny(c) == "active"

\* UPDATE ... WHERE status='pending'
Promoted(c) == IF clawSt[c] = "pending" THEN "active" ELSE clawSt[c]

PromoteWrites ==
    /\ chosen # NoClaw
    /\ clawSt' = [clawSt EXCEPT ![chosen] = Promoted(chosen)]
    /\ chosen' = NoClaw
    /\ UNCHANGED <<keyOf, syncing, returned, trig, creators, sweep, promoteDue, mishaps, doubted>>

--------------------------------------------------------------------------------
(***************************************************************************)
(* What running claws do to the counts, the reaper and the hub's restart.  *)
(***************************************************************************)
\* A claw ends; every end starts a promotion.  Its volumes are synced after it.
Ends(c, s, inSync) ==
    /\ clawSt[c] \in {"pending", "active", "offline"}
    /\ s = "error" => clawSt[c] # "pending"
    /\ clawSt' = [clawSt EXCEPT ![c] = s]
    /\ syncing' = IF inSync /\ clawSt[c] = "active" THEN syncing \cup {c} ELSE syncing
    /\ promoteDue' = TRUE
    /\ UNCHANGED <<keyOf, returned, trig, creators, sweep, chosen, mishaps, doubted>>

MutGraceForever(c) == FALSE /\ UNCHANGED creationVars

\* The lease is released, or its heartbeat is older than volumeLeaseSlotGrace.
SlotGraceEnds(c) ==
    /\ c \in syncing
    /\ syncing' = syncing \ {c}
    /\ UNCHANGED <<clawSt, keyOf, returned, trig, creators, sweep, chosen, promoteDue, mishaps,
                   doubted>>

GoesOffline(c) ==
    /\ clawSt[c] = "active"
    /\ clawSt' = [clawSt EXCEPT ![c] = "offline"]
    /\ UNCHANGED <<keyOf, syncing, returned, trig, creators, sweep, chosen, promoteDue, mishaps,
                   doubted>>

\* prepareClawRetry marks a failed claw 'error' until it is replaced.
Retries(c) ==
    /\ clawSt[c] \in {"active", "offline"}
    /\ Mishap
    /\ clawSt' = [clawSt EXCEPT ![c] = "retrying"]
    /\ promoteDue' = TRUE
    /\ UNCHANGED <<keyOf, syncing, returned, trig, creators, sweep, chosen, doubted>>

\* Heartbeats and replacements make it active again past the limit.
ComesBack(c) ==
    /\ clawSt[c] \in {"offline", "retrying"}
    /\ clawSt' = [clawSt EXCEPT ![c] = "active"]
    /\ returned' = returned \cup {c}
    /\ UNCHANGED <<keyOf, syncing, trig, creators, sweep, chosen, promoteDue, mishaps, doubted>>

\* The reaper promotes at the end of every tick, ...
ReaperPromotes ==
    /\ ~promoteDue
    /\ \E c \in Existing : clawSt[c] = "pending"
    /\ promoteDue' = TRUE
    /\ UNCHANGED <<clawSt, keyOf, syncing, returned, trig, creators, sweep, chosen, mishaps, doubted>>

Unclaimed(t) == IF t.status = "claimed" /\ t.claw = NoClaw
                THEN [t EXCEPT !.status = "failed", !.ripe = FALSE] ELSE t

\* ... and fails a claim that is claimTTL old, of a creator that is slow.
ClaimExpires(k) ==
    /\ trig[k].status = "claimed" /\ trig[k].claw = NoClaw
    /\ Mishap
    /\ trig' = [trig EXCEPT ![k] = Unclaimed(@)]
    /\ doubted' = doubted \cup {k}
    /\ UNCHANGED <<clawSt, keyOf, syncing, returned, creators, sweep, chosen, promoteDue>>

\* A claw so young that it has no sandbox yet.
Unassigned(c) == clawSt[c] = "active" /\ \E cr \in creators : cr.claw = c

\* A new hub process: handlers and replacements are gone, reconcileOnBoot stops
\* what was being provisioned, fails the open claims and promotes.
HubRestarts ==
    /\ Mishap
    /\ clawSt' = [c \in ClawIds |-> IF clawSt[c] = "retrying" \/ Unassigned(c) THEN "error"
                                    ELSE clawSt[c]]
    /\ trig' = [k \in Keys |-> Unclaimed(trig[k])]
    /\ doubted' = doubted \cup {k \in Keys : trig[k] # Unclaimed(trig[k])}
    /\ creators' = {}
    /\ sweep' = {} /\ chosen' = NoClaw /\ promoteDue' = TRUE
    /\ UNCHANGED <<keyOf, syncing, returned>>

--------------------------------------------------------------------------------
Creating ==
    \/ \E k \in Keys, p \in Paths :
          LooksFirst(k, p) \/ \E bornDead \in BOOLEAN : claimFactoryTrigger(k, p, bornDead)
    \/ \E cr \in creators :
          (\E c \in ClawIds : Insert(cr, c)) \/ completeFactoryTrigger(cr)
Promoting == PromoteBegins \/ PromoteLooks \/ PromoteWrites
Leaving == \E c \in ClawIds, s \in {"error", "deleted"}, inSync \in BOOLEAN : Ends(c, s, inSync)

CreationNext ==
    \/ Creating \/ Promoting \/ Leaving \/ ReaperPromotes \/ HubRestarts
    \/ \E k \in Keys : BackoffPasses(k) \/ ClaimExpires(k)
    \/ \E cr \in creators : CreationFails(cr) \/ CompletionFails(cr)
    \/ \E c \in ClawIds :
          \/ InsertManual(c) \/ SlotGraceEnds(c)
          \/ GoesOffline(c) \/ Retries(c) \/ ComesBack(c)

CreationSpec == CreationInit /\ [][CreationNext]_creationVars

CreationTypeOK ==
    /\ clawSt \in [ClawIds -> {"none", "pending", "active", "offline", "retrying", "error", "deleted"}]
    /\ keyOf \in [ClawIds -> Keys \cup {NoKey}]
    /\ syncing \subseteq ClawIds /\ returned \subseteq ClawIds /\ doubted \subseteq Keys
    /\ \A k \in Keys :
          /\ trig[k].status \in {"none", "claimed", "active", "failed"}
          /\ trig[k].claw \in ClawIds \cup {NoClaw} /\ trig[k].ripe \in BOOLEAN
    /\ sweep \subseteq ClawIds /\ chosen \in ClawIds \cup {NoClaw} /\ promoteDue \in BOOLEAN

\* Creators that count the group at the same time as promotePendingClaws never
\* admit more claws than the group's limit between them; only a claw that comes
\* back (a heartbeat, a replacement) can exceed it.
AdmissionLimit ==
    \A g \in Groups :
        GroupLimit[g] > 0 => Cardinality(Active(g) \ returned) <= GroupLimit[g]

\* A claw that was deleted while it waited is never launched by a promotion that
\* had listed it.
DeletedStaysDeleted ==
    [][\A c \in ClawIds : clawSt[c] = "deleted" => clawSt'[c] = "deleted"]_creationVars

\* What is under way for a trigger: its live claws and the creators with its claim.
InPlay(k) == {c \in Existing : keyOf[c] = k /\ Live(clawSt[c])
                               /\ \A cr \in creators : cr.claw # c}
Claimants(k) == {cr \in creators : cr.key = k /\ cr.pc # "claim"}

\* Webhooks, polls and retried deliveries for one issue make one claw at a time,
\* as long as its claim is not given up under the creator (a restart, claimTTL)
\* or under a claw that is being replaced.
OneClawPerTrigger ==
    \A k \in Keys \ doubted : Cardinality(InPlay(k)) + Cardinality(Claimants(k)) <= 1

\* What creation guarantees between concurrent creators: one claw per trigger, and
\* no more claws than the group admits.
CreationHolds == AdmissionLimit /\ OneClawPerTrigger

\* A claw that waits for its group is promoted or ended.
PendingIsPromoted ==
    \A c \in ClawIds : (clawSt[c] = "pending") ~> (clawSt[c] # "pending")
================================================================================
