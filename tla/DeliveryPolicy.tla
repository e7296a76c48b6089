----------------------------- MODULE DeliveryPolicy -----------------------------
(***************************************************************************)
(* What a workflow v2 run knows of its pull request: GitHub's side, the    *)
(* delivery row, the evidence about its head and the facts the policy      *)
(* publishes.  pkg/hub/workflowv2: delivery.go, pr_registration.go,        *)
(* reconciliation.go, evidence.go; pkg/hub: workflow_v2_github*.go.  The   *)
(* periodic reconciler, the webhooks and the agent's control messages read *)
(* GitHub first and write in transactions of their own later, each in its  *)
(* own goroutine.  One pull request with one check (or one reviewer); the  *)
(* policy wants it to pass and completion all_merged.                      *)
(***************************************************************************)
EXTENDS Naturals, FiniteSets, FiniteSetsExt

CONSTANTS
    Heads,          \* commits the branch may point to, the first one h1
    FirstHead,
    Workers,        \* which of poll, hook and agent run
    MaxClaims,      \* bound on the agent's control messages
    MaxPushes,      \* bound on changes of the branch
    MaxReports,     \* bound on what CI or the reviewer reports
    MaxFaults,      \* bound on failures, crashes and rejected events
    PublishTries    \* evaluations a publication may need (5 in the code)

VARIABLES
    domain,         \* "ci" or "review": whose evidence this is
    gh,             \* GitHub: the pull request, [head, st]
    report,         \* GitHub: the check or review of each head, [id, st, at]
    clock, pushes,
    runUp,          \* workflow_v2_runs.status = 'active'
    pr,             \* the delivery row, [sub, head, st, gen]
    evidence,       \* workflow_v2_evidence of the current generation
    policyFact,     \* ci.policy_revision and ci.status (or review.*)
    deliveryFact,   \* delivery.policy_revision and delivery.satisfied
    workers,        \* the goroutines, see NoWork
    faults, claims,
    earned,         \* history: heads GitHub has reported a success for
    unpublished     \* history: a row that is no longer open was not evaluated

githubVars == <<gh, report, clock, pushes>>
rowVars == <<runUp, pr, evidence, policyFact, deliveryFact>>
deliveryVars == <<domain, githubVars, rowVars, workers, faults, claims, earned, unpublished>>

NoFact == [rev |-> <<>>, status |-> "none"]
NoReport == [id |-> 0, st |-> "pending", at |-> 0]
\* pc: idle, verified (target and pull request read), fetched (report read),
\* evaluate, publish, deliver (the two publications).  half: the pull request or
\* its evidence.  target and seen: what the row and GitHub said.
NoWork == [pc |-> "idle", half |-> "pr", target |-> [head |-> FirstHead, st |-> "none"],
           seen |-> [head |-> FirstHead, st |-> "none"], got |-> NoReport, since |-> 0,
           rev |-> <<>>, tries |-> 0]

ASSUME DeliveryAssumption ==
    /\ FirstHead \in Heads /\ Workers \subseteq {"poll", "hook", "agent"}
    /\ {MaxClaims, MaxPushes, MaxReports, MaxFaults, PublishTries} \subseteq Nat

DeliveryInit ==
    /\ domain \in {"ci", "review"}
    /\ gh = [head |-> FirstHead, st |-> "open"]
    /\ report = [h \in Heads |-> NoReport]
    /\ clock = 0 /\ pushes = 0
    /\ runUp = TRUE
    /\ \/ /\ pr = [sub |-> "none", head |-> FirstHead, st |-> "none", gen |-> 0]
          /\ deliveryFact = NoFact
       \* submitted and evaluated
       \/ /\ pr = [sub |-> "delivered", head |-> FirstHead, st |-> "open", gen |-> 1]
          /\ deliveryFact = [rev |-> <<"open", FirstHead, 1, {}>>, status |-> "no"]
    /\ evidence = {} /\ policyFact = NoFact
    /\ workers = [w \in Workers |-> NoWork] /\ faults = 0 /\ claims = 0
    /\ earned = {} /\ unpublished = FALSE

--------------------------------------------------------------------------------
(* GitHub.  Reports carry even times, the hub's own clock reads odd ones.  *)

Push(h) ==
    /\ gh.st = "open" /\ h # gh.head /\ pushes < MaxPushes
    /\ pushes' = pushes + 1 /\ gh' = [gh EXCEPT !.head = h]
    /\ UNCHANGED <<domain, report, clock, rowVars, workers, faults, claims, earned, unpublished>>

\* Closed, reopened, or merged for good.
Moves(st) ==
    /\ gh.st # "merged" /\ st # gh.st /\ pushes < MaxPushes
    /\ pushes' = pushes + 1 /\ gh' = [gh EXCEPT !.st = st]
    /\ UNCHANGED <<domain, report, clock, rowVars, workers, faults, claims, earned, unpublished>>

\* A check run completes, a review is submitted: completed_at, submitted_at.
Reports(h, st) ==
    /\ clock < MaxReports /\ clock' = clock + 1
    /\ IF domain = "ci" THEN report[h].id > 0 /\ report[h].st = "pending" ELSE h = gh.head
    /\ report' = [report EXCEPT ![h] = [id |-> IF domain = "ci" THEN @.id ELSE 1,
                                        st |-> st, at |-> 2 * clock']]
    /\ earned' = IF st = "success" THEN earned \cup {h} ELSE earned
    /\ UNCHANGED <<domain, gh, pushes, rowVars, workers, faults, claims, unpublished>>

\* A check starts, or starts over as a new check run, with no completed_at; a
\* review is dismissed and keeps its submitted_at.
StartsOver(h) ==
    /\ IF report[h].id = 0 THEN domain = "ci" /\ h = gh.head ELSE report[h].st # "pending"
    /\ domain = "ci" => report[h].id < MaxReports
    /\ report' = [report EXCEPT ![h] = IF domain = "ci" THEN [NoReport EXCEPT !.id = report[h].id + 1]
                                       ELSE [@ EXCEPT !.st = "pending"]]
    /\ UNCHANGED <<domain, gh, clock, pushes, rowVars, workers, faults, claims, earned, unpublished>>

--------------------------------------------------------------------------------
(* The policy *)

\* loadDeliveryPolicySubjects, loadCurrentEvidence
Counting == {e \in evidence : e.live}
Revision == IF pr.sub = "delivered" THEN <<pr.st, pr.head, pr.gen, Counting>> ELSE <<>>

\* evaluateEvidenceLeaf: the latest observation decides, and among equal ones the
\* higher id.
Latest == CHOOSE e \in Counting :
              \A f \in Counting : f.obs < e.obs \/ (f.obs = e.obs /\ f.id <= e.id)
evaluateEvidenceLeaf ==
    IF Counting = {} THEN "pending"
    ELSE CASE Latest.st = "failure" -> "unsatisfied"
           [] Latest.st = "success" -> "satisfied"
           [] OTHER -> "pending"

\* evaluateDeliveryPolicy: minimum met, evidence satisfied, all merged
Satisfied == IF evaluateEvidenceLeaf = "satisfied" /\ pr.st = "merged" THEN "yes" ELSE "no"

--------------------------------------------------------------------------------
(* Rows *)

Fault == faults < MaxFaults /\ faults' = faults + 1

\* A head other than the row's starts a generation, and nothing known of the pull
\* request counts any more: evidence of an earlier generation is not read again.
Amended(sub, now) ==
    /\ pr' = [sub |-> sub, head |-> now.head, st |-> now.st,
              gen |-> IF pr.sub = "none" \/ now.head # pr.head THEN pr.gen + 1 ELSE pr.gen]
    /\ evidence' = IF now.head = pr.head THEN evidence ELSE {}

\* An event of the run: its facts and rows stay when no transition fits it and the
\* run is suspended; a transition makes a suspended run active again.
EventAccepted == runUp' \in {runUp, TRUE} /\ UNCHANGED faults
EventRejected == runUp' = FALSE /\ Fault

\* recordEvidenceSet: what the snapshot does not contain is superseded up to the
\* time of its latest observation, then each observation replaces the row of its id
\* unless that row was observed later.
Superseded(upTo) ==
    {[e EXCEPT !.live = @ /\ e.obs > upTo] : e \in evidence}
MutNotOlder(obs, e) == obs > e.obs
NotOlder(obs, e) == obs >= e.obs
Upserted(rows, id, st, obs) ==
    LET old == {e \in rows : e.id = id}
        new == [id |-> id, st |-> st, obs |-> obs, live |-> TRUE]
    IN  IF \A e \in old : NotOlder(obs, e) THEN (rows \ old) \cup {new} ELSE rows

--------------------------------------------------------------------------------
(* Goroutines *)

Goes(w, rec) == workers' = [workers EXCEPT ![w] = rec]
WorkEnds(w) == Goes(w, NoWork)
\* The goroutine ends between its row and the publication.
Unpublishes(w) == unpublished' = (unpublished \/ workers[w].seen.st # "open" \/ pr.st # "open")
\* evaluateAndPublishDeliveryPolicy follows a committed transaction.
ThenEvaluates(w, half) ==
    Goes(w, [NoWork EXCEPT !.pc = "evaluate", !.half = half, !.seen = workers[w].seen])

\* After the pull request the poll goes on to the evidence; the others are done.
ThenGoesOn(w) ==
    IF w = "poll" /\ workers[w].half = "pr" /\ workers[w].seen.st = "open"
    THEN Goes(w, [NoWork EXCEPT !.pc = "check", !.half = "evidence", !.seen = workers[w].seen])
    ELSE WorkEnds(w)

\* ActiveDeliveryTargets*, then verifyWorkflowV2PullRequest: the row is read first.
\* reconcileWorkflowV2GitHub for the poll, processWorkflowV2GitHubPREvent for a hook.
ReadsTarget(w) ==
    /\ w \in {"poll", "hook"} /\ workers[w].pc = "idle"
    /\ pr.sub = "delivered" /\ runUp
    /\ Goes(w, [NoWork EXCEPT !.pc = "target", !.target = [head |-> pr.head, st |-> pr.st]])
    /\ UNCHANGED <<domain, githubVars, rowVars, faults, claims, earned, unpublished>>

Verifies(w) ==
    /\ workers[w].pc = "target"
    /\ Goes(w, [workers[w] EXCEPT !.pc = "verified", !.seen = gh])
    /\ UNCHANGED <<domain, githubVars, rowVars, faults, claims, earned, unpublished>>

\* workflowV2ReconciledPREventKind: the poll has nothing to tell about a row that
\* agrees with GitHub and goes on to the evidence of an open pull request.
PollSkips ==
    /\ "poll" \in Workers /\ workers["poll"].pc = "verified" /\ workers["poll"].target = workers["poll"].seen
    /\ ThenGoesOn("poll")
    /\ UNCHANGED <<domain, githubVars, rowVars, faults, claims, earned, unpublished>>

\* ReconcilePullRequest: refused when the row is no longer what was read.
TargetHolds(w) == pr.sub = "delivered" /\ workers[w].target = [head |-> pr.head, st |-> pr.st]
ReconcilePullRequest(w) ==
    /\ workers[w].pc = "verified" /\ w \in {"poll", "hook"}
    /\ w = "poll" => workers[w].target # workers[w].seen
    /\ IF ~TargetHolds(w) THEN WorkEnds(w) /\ UNCHANGED <<rowVars, faults, unpublished>>
       ELSE /\ Amended("delivered", workers[w].seen)
            /\ \/ EventAccepted /\ ThenEvaluates(w, "pr") /\ UNCHANGED unpublished
               \/ EventRejected /\ ThenGoesOn(w) /\ Unpublishes(w)
            /\ UNCHANGED <<policyFact, deliveryFact>>
    /\ UNCHANGED <<domain, githubVars, claims, earned>>

\* submitDelivery and registerPullRequests: the claim is verified, then upserted
\* whatever the row says by then; a registration never touches a delivery.
AgentVerifies ==
    /\ "agent" \in Workers /\ workers["agent"].pc = "idle" /\ runUp
    /\ claims < MaxClaims /\ claims' = claims + 1
    /\ Goes("agent", [NoWork EXCEPT !.pc = "verified", !.seen = gh])
    /\ UNCHANGED <<domain, githubVars, rowVars, faults, earned, unpublished>>

registerPullRequests ==
    /\ "agent" \in Workers /\ workers["agent"].pc = "verified" /\ WorkEnds("agent")
    /\ IF pr.sub = "delivered" THEN UNCHANGED <<pr, evidence>>
       ELSE Amended("registered", workers["agent"].seen)
    /\ UNCHANGED <<domain, githubVars, runUp, policyFact, deliveryFact, faults, claims, earned, unpublished>>

submitDelivery ==
    /\ "agent" \in Workers /\ workers["agent"].pc = "verified"
    /\ Amended("delivered", workers["agent"].seen)
    /\ \/ EventAccepted /\ ThenEvaluates("agent", "pr") /\ UNCHANGED unpublished
       \/ EventRejected /\ WorkEnds("agent") /\ Unpublishes("agent")
    /\ UNCHANGED <<domain, githubVars, policyFact, deliveryFact, claims, earned>>

\* A check or review webhook looks for targets with the head it is about.
HookReadsHead ==
    /\ "hook" \in Workers /\ workers["hook"].pc = "idle" /\ pr.sub = "delivered" /\ runUp
    /\ domain = "review" => report[pr.head].id # 0
    /\ Goes("hook", [NoWork EXCEPT !.pc = "check", !.half = "evidence",
                                   !.seen = [head |-> pr.head, st |-> pr.st]])
    /\ UNCHANGED <<domain, githubVars, rowVars, faults, claims, earned, unpublished>>

\* reconcileWorkflowV2GitHubChecks, -Reviews: the latest check runs, the reviews.
Fetches(w) ==
    /\ workers[w].pc = "check"
    /\ Goes(w, [workers[w] EXCEPT !.pc = "fetched", !.got = report[workers[w].seen.head],
                                  !.since = clock])
    /\ UNCHANGED <<domain, githubVars, rowVars, faults, claims, earned, unpublished>>

\* parseGitHubTime: what has no completed_at is stamped with the time after the
\* answer has arrived; an empty snapshot counts as of now.
Times(w) == LET got == workers[w].got
            IN  IF got.id # 0 /\ (domain = "review" \/ got.st # "pending") THEN {got.at}
                ELSE {2 * t + 1 : t \in workers[w].since .. clock}

MutHeadHolds(w) == pr.sub = "delivered"
HeadHolds(w) == pr.sub = "delivered" /\ pr.head = workers[w].seen.head

\* ReconcileEvidenceSnapshot, RecordEvidence: the head must still be the row's.
recordEvidenceSet(w) ==
    /\ workers[w].pc = "fetched"
    /\ IF ~HeadHolds(w) THEN WorkEnds(w) /\ UNCHANGED evidence
       ELSE \E obs \in Times(w) :
              /\ LET got == workers[w].got
                     rest == IF w = "hook" /\ domain = "review" THEN evidence ELSE Superseded(obs)
                 IN  evidence' = IF got.id = 0 THEN rest ELSE Upserted(rest, got.id, got.st, obs)
              /\ ThenEvaluates(w, "evidence")
    /\ UNCHANGED <<domain, githubVars, runUp, pr, policyFact, deliveryFact, faults, claims, earned, unpublished>>

\* evaluateAndPublishDeliveryPolicy: EvaluateDeliveryPolicy reads the revision ...
Evaluates(w) ==
    /\ workers[w].pc = "evaluate"
    /\ IF workers[w].tries < PublishTries
       THEN Goes(w, [workers[w] EXCEPT !.rev = Revision, !.tries = @ + 1,
                        !.pc = IF workers[w].half = "evidence" THEN "publish" ELSE "deliver"])
       ELSE WorkEnds(w)
    /\ IF workers[w].tries < PublishTries THEN UNCHANGED unpublished ELSE Unpublishes(w)
    /\ UNCHANGED <<domain, githubVars, rowVars, faults, claims, earned>>

\* ... and a publication writes it only while it is still the revision
\* (errDeliveryPolicyChanged), and only once.
StillCurrent(w) == workers[w].rev = Revision

PublishesPolicy(w) ==
    /\ workers[w].pc = "publish"
    /\ IF policyFact.rev = workers[w].rev
       THEN Goes(w, [workers[w] EXCEPT !.pc = "deliver"]) /\ UNCHANGED <<runUp, policyFact, faults, unpublished>>
       ELSE IF ~StillCurrent(w)
       THEN Goes(w, [workers[w] EXCEPT !.pc = "evaluate", !.rev = <<>>]) /\ UNCHANGED <<runUp, policyFact, faults, unpublished>>
       ELSE /\ policyFact' = [rev |-> workers[w].rev, status |-> evaluateEvidenceLeaf]
            /\ \/ EventAccepted /\ Goes(w, [workers[w] EXCEPT !.pc = "deliver"]) /\ UNCHANGED unpublished
               \/ EventRejected /\ WorkEnds(w) /\ Unpublishes(w)
    /\ UNCHANGED <<domain, githubVars, pr, evidence, deliveryFact, claims, earned>>

PublishesDelivery(w) ==
    /\ workers[w].pc = "deliver"
    /\ IF deliveryFact.rev = workers[w].rev
       THEN ThenGoesOn(w) /\ UNCHANGED <<runUp, deliveryFact, faults, unpublished>>
       ELSE IF ~StillCurrent(w)
       THEN Goes(w, [workers[w] EXCEPT !.pc = "evaluate", !.rev = <<>>]) /\ UNCHANGED <<runUp, deliveryFact, faults, unpublished>>
       ELSE /\ deliveryFact' = [rev |-> workers[w].rev, status |-> Satisfied]
            /\ unpublished' = FALSE
            /\ \/ EventAccepted /\ ThenGoesOn(w)
               \/ EventRejected /\ WorkEnds(w)
    /\ UNCHANGED <<domain, githubVars, pr, evidence, policyFact, claims, earned>>

\* GitHub does not answer, the time runs out, the attempt was replaced, or the hub
\* dies: what a goroutine has committed stays.
WorkFails(w) ==
    /\ workers[w].pc # "idle" /\ Fault /\ WorkEnds(w)
    /\ IF workers[w].pc \in {"evaluate", "publish", "deliver"} THEN Unpublishes(w) ELSE UNCHANGED unpublished
    /\ UNCHANGED <<domain, githubVars, rowVars, claims, earned>>

\* Another event takes a transition.
RunContinues ==
    /\ ~runUp /\ runUp' = TRUE
    /\ UNCHANGED <<domain, githubVars, pr, evidence, policyFact, deliveryFact, workers, faults, claims, earned, unpublished>>

GitHubNext == \/ \E h \in Heads : Push(h) \/ StartsOver(h) \/ \E st \in {"success", "failure"} : Reports(h, st)
              \/ \E st \in {"open", "closed", "merged"} : Moves(st)

Works(w) == \/ Verifies(w) \/ ReconcilePullRequest(w) \/ Fetches(w) \/ recordEvidenceSet(w)
            \/ Evaluates(w) \/ PublishesPolicy(w) \/ PublishesDelivery(w)

DeliveryNext ==
    \/ GitHubNext \/ PollSkips \/ AgentVerifies \/ registerPullRequests \/ submitDelivery
    \/ HookReadsHead \/ RunContinues
    \/ \E w \in Workers : ReadsTarget(w) \/ Works(w) \/ WorkFails(w)

DeliverySpec == DeliveryInit /\ [][DeliveryNext]_deliveryVars

--------------------------------------------------------------------------------
(* Properties *)

DeliveryTypeOK ==
    /\ gh \in [head : Heads, st : {"open", "closed", "merged"}]
    /\ pr.sub \in {"none", "registered", "delivered"} /\ pr.gen \in Nat
    /\ (pr.sub = "none") = (pr.gen = 0)
    /\ \A e \in evidence : e.obs \in 0 .. 2 * MaxReports + 1
    /\ \A e, f \in evidence : e.id = f.id => e = f

\* Whatever pushes, late answers and stale readers do, facts that carry the current
\* revision are true: success was reported for the very head the row names, and a
\* satisfied delivery is merged at GitHub with that head.
SatisfiedWasEarned ==
    /\ policyFact.rev = Revision /\ policyFact.status = "satisfied" => pr.head \in earned
    /\ deliveryFact.rev = Revision /\ deliveryFact.status = "yes" =>
          pr.head \in earned /\ gh = [head |-> pr.head, st |-> "merged"]

\* What the facts should say of the pull request as GitHub has it.
Verdict == CASE report[gh.head].st = "success" -> "satisfied"
             [] report[gh.head].st = "failure" -> "unsatisfied"
             [] OTHER -> "pending"
Agrees ==
    /\ [head |-> pr.head, st |-> pr.st] = gh /\ deliveryFact.rev = Revision
    /\ gh.st = "open" => policyFact = [rev |-> Revision, status |-> Verdict]
\* A pending check was stamped later than the completion GitHub reports now.
Blocked == /\ report[pr.head].st # "pending"
           /\ \E e \in evidence : /\ e.obs > report[pr.head].at
                                 /\ (e.live \/ e.id = report[pr.head].id)

\* workflow_v2_github_reconciler.go:22: webhooks are "an optimization rather than a
\* correctness dependency": once GitHub settles, the reconciler alone brings row and
\* facts to what GitHub says, unless the evidence is Blocked or a row was left
\* unpublished.
DeliveryConverges == []<>(pr.sub = "delivered" /\ runUp => Agrees \/ Blocked \/ unpublished)

\* The same with no exception.
ReconcilerSuffices == []<>(pr.sub = "delivered" /\ runUp => Agrees)
================================================================================
