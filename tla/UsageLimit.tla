------------------------------- MODULE UsageLimit -------------------------------
(***************************************************************************)
(* The usage limit of one model provider key and the claws that spend it.  *)
(* pkg/hub/llm_usage_limit.go.  A rejected turn opens a limit and parks    *)
(* every claw of the key; the scheduler releases it when it is due, which  *)
(* is a probe until a turn is answered; a second rejection is the same     *)
(* episode and costs a retry.  Each action that takes llmLimitMu is one    *)
(* step, but for the release, which writes the claws and then the record.  *)
(***************************************************************************)
EXTENDS Naturals, FiniteSets

CONSTANTS
    LClaws,             \* the claws that spend the key
    MaxAutoRetries,     \* llmLimitMaxAutoRetries
    MaxUpheavals        \* bound on caps, restarts, failed writes and operator clears

VARIABLES
    limit,          \* llm_usage_limits: [st, retries]
    ripe,           \* retry_at, or the episode's memory, has passed
    parked,         \* claws.llm_limited_until, as a set
    deletedL,       \* deleted claws
    mirror,         \* clawConn.llmLimitedUntil: off (no connection), free, parked
    seeding,        \* connections registered and not yet seeded
    asking,         \* turns by claw: none, asking, rejected, authored
    capped,         \* the provider rejects (external)
    probing,        \* llmLimitProbing
    announced,      \* the provider_limit_released event of this record's retry
    releasing,      \* a release between its two writes
    recon,          \* reconcileLLMUsageLimitLatches: [pc, orphans]
    confirming,     \* an operator's clear between release and confirmation
    upheavals,
    releases,       \* history: releases of this episode
    dbFailed,       \* history: a write failed
    staleFreed      \* history: a claw was freed on an outdated list of limits

limitVars == <<limit, ripe, parked, deletedL, mirror, seeding, asking, capped, probing, announced,
               releasing, recon, confirming, upheavals, releases, dbFailed, staleFreed>>

NoLimit == [st |-> "none", retries |-> 0]
NoRecon == [pc |-> "idle", orphans |-> {}]

ASSUME LimitAssumption == MaxAutoRetries \in Nat /\ MaxUpheavals \in Nat

LimitInit ==
    /\ limit = NoLimit /\ ripe = FALSE
    /\ parked = {} /\ deletedL = {}
    /\ mirror = [c \in LClaws |-> "off"] /\ seeding = {} /\ asking = [c \in LClaws |-> "none"]
    /\ capped = FALSE /\ probing = FALSE /\ announced = FALSE
    /\ releasing = FALSE /\ recon = NoRecon /\ confirming = FALSE
    /\ upheavals = 0 /\ releases = 0 /\ dbFailed = FALSE /\ staleFreed = FALSE

Upheaval == upheavals < MaxUpheavals /\ upheavals' = upheavals + 1
\* llmLimitMu
LimitMuFree == ~releasing
\* clawsForLLMKey: errored claws too
OnKey == LClaws \ deletedL
\* setClawLLMLimitMirror, for the claws that have a connection
Mirrored(S, to) == [c \in LClaws |-> IF c \in S /\ mirror[c] # "off" THEN to ELSE mirror[c]]

--------------------------------------------------------------------------------
(* The provider, the clock and the claws *)

CapToggles ==
    /\ (~capped => Upheaval) /\ (capped => UNCHANGED upheavals)
    /\ capped' = ~capped
    /\ UNCHANGED <<seeding, limit, ripe, parked, deletedL, mirror, asking, probing, announced, releasing,
                   recon, confirming, releases, dbFailed, staleFreed>>

TimePasses ==
    /\ limit.st # "none" /\ ~ripe /\ ripe' = TRUE
    /\ UNCHANGED <<seeding, limit, parked, deletedL, mirror, asking, capped, probing, announced, releasing,
                   recon, confirming, upheavals, releases, dbFailed, staleFreed>>

\* handleClawWS publishes the connection before it seeds the copy ...
ConnectL(c) ==
    /\ c \notin deletedL /\ mirror[c] = "off"
    /\ mirror' = [mirror EXCEPT ![c] = "free"] /\ seeding' = seeding \cup {c}
    /\ UNCHANGED <<limit, ripe, parked, deletedL, asking, capped, probing, announced, releasing,
                   recon, confirming, upheavals, releases, dbFailed, staleFreed>>

MutSeedFree(c) ==
    /\ c \in seeding /\ seeding' = seeding \ {c}
    /\ UNCHANGED <<limit, ripe, parked, deletedL, mirror, asking, capped, probing, announced,
                   releasing, recon, confirming, upheavals, releases, dbFailed, staleFreed>>

\* ... and the key's record alone decides.
seedLLMLimitForConnection(c) ==
    /\ c \in seeding /\ LimitMuFree /\ seeding' = seeding \ {c}
    /\ mirror' = [mirror EXCEPT ![c] = IF limit.st = "active" THEN "parked" ELSE "free"]
    /\ parked' = IF limit.st = "active" THEN parked \cup {c} ELSE parked \ {c}
    /\ UNCHANGED <<limit, ripe, deletedL, asking, capped, probing, announced, releasing, recon,
                   confirming, upheavals, releases, dbFailed, staleFreed>>

DisconnectL(c) ==
    /\ mirror[c] # "off" /\ Upheaval
    /\ mirror' = [mirror EXCEPT ![c] = "off"] /\ seeding' = seeding \ {c}
    /\ asking' = [asking EXCEPT ![c] = "none"]
    /\ UNCHANGED <<limit, ripe, parked, deletedL, capped, probing, announced, releasing, recon,
                   confirming, releases, dbFailed, staleFreed>>

DeleteL(c) ==
    /\ c \notin deletedL /\ Upheaval
    /\ deletedL' = deletedL \cup {c}
    /\ mirror' = [mirror EXCEPT ![c] = "off"] /\ seeding' = seeding \ {c}
    /\ asking' = [asking EXCEPT ![c] = "none"]
    /\ UNCHANGED <<limit, ripe, parked, capped, probing, announced, releasing, recon, confirming,
                   releases, dbFailed, staleFreed>>

\* The delivery gate reads the connection's copy (deliveryBlockedLocked); a
\* released claw is given a turn (resumeClawAfterLLMLimit).
TurnBegins(c) ==
    /\ mirror[c] = "free" /\ asking[c] = "none"
    /\ asking' = [asking EXCEPT ![c] = "asking"]
    /\ UNCHANGED <<seeding, limit, ripe, parked, deletedL, mirror, capped, probing, announced, releasing,
                   recon, confirming, upheavals, releases, dbFailed, staleFreed>>

\* The provider's answer; the hub handles it later.
ProviderAnswers(c) ==
    /\ asking[c] = "asking"
    /\ asking' = [asking EXCEPT ![c] = IF capped THEN "rejected" ELSE "authored"]
    /\ UNCHANGED <<seeding, limit, ripe, parked, deletedL, mirror, capped, probing, announced, releasing,
                   recon, confirming, upheavals, releases, dbFailed, staleFreed>>

--------------------------------------------------------------------------------
(* Limits *)

\* A new episode, the same one, or the same one released too early.
CapAgain == CASE limit.st = "none" -> [st |-> "active", retries |-> 0]
              [] limit.st = "active" -> limit
              [] limit.st = "released" -> [st |-> "active", retries |-> limit.retries + 1]

handleLLMUsageLimit(c) ==
    /\ asking[c] = "rejected" /\ LimitMuFree
    /\ asking' = [asking EXCEPT ![c] = "none"]
    /\ limit' = CapAgain
    /\ ripe' = (ripe /\ limit.st = "active")
    /\ probing' = FALSE
    /\ announced' = (announced /\ limit.st = "active")
    /\ releases' = IF limit.st = "none" THEN 0 ELSE releases
    /\ parked' = parked \cup OnKey
    /\ mirror' = Mirrored(OnKey, "parked")
    /\ UNCHANGED <<seeding, deletedL, capped, releasing, recon, confirming, upheavals, dbFailed, staleFreed>>

\* storeLLMUsageLimit fails: the probe is dropped already.
StoreFails(c) ==
    /\ asking[c] = "rejected" /\ LimitMuFree /\ limit.st # "active" /\ Upheaval
    /\ asking' = [asking EXCEPT ![c] = "none"]
    /\ probing' = FALSE /\ dbFailed' = TRUE
    /\ UNCHANGED <<seeding, limit, ripe, parked, deletedL, mirror, capped, announced, releasing, recon,
                   confirming, releases, staleFreed>>

\* releaseLLMUsageLimit: the claws first ...
ReleaseClaws ==
    /\ LimitMuFree /\ limit.st = "active"
    /\ parked' = parked \cap deletedL
    /\ mirror' = Mirrored(OnKey, "free")
    /\ releasing' = TRUE

Exhausted == limit.retries >= MaxAutoRetries

MutReleaseOnce ==
    /\ recon.pc = "idle" /\ ripe /\ limit.retries = 0
    /\ ReleaseClaws
    /\ UNCHANGED <<seeding, limit, ripe, deletedL, asking, capped, probing, announced, recon,
                   confirming, upheavals, releases, dbFailed, staleFreed>>

\* ... by the scheduler, when the limit is due and retries are left,
releaseDueLLMUsageLimits ==
    /\ recon.pc = "idle" /\ ripe /\ ~Exhausted
    /\ ReleaseClaws
    /\ UNCHANGED <<seeding, limit, ripe, deletedL, asking, capped, probing, announced, recon, confirming,
                   upheavals, releases, dbFailed, staleFreed>>

\* or by an operator, whose word is the proof.
OperatorClears ==
    /\ ~confirming /\ Upheaval /\ confirming' = TRUE
    /\ ReleaseClaws
    /\ UNCHANGED <<seeding, limit, ripe, deletedL, asking, capped, probing, announced, recon, releases,
                   dbFailed, staleFreed>>

\* ... and then the record.
ReleaseRecord ==
    /\ releasing /\ releasing' = FALSE
    /\ limit' = [limit EXCEPT !.st = "released"]
    /\ ripe' = FALSE /\ probing' = TRUE
    /\ releases' = IF releases <= MaxAutoRetries + MaxUpheavals THEN releases + 1 ELSE releases
    /\ UNCHANGED <<seeding, parked, deletedL, mirror, asking, capped, announced, recon, confirming,
                   upheavals, dbFailed, staleFreed>>

ReleaseFails ==
    /\ releasing /\ releasing' = FALSE /\ Upheaval /\ dbFailed' = TRUE
    /\ UNCHANGED <<seeding, limit, ripe, parked, deletedL, mirror, asking, capped, probing, announced, recon,
                   confirming, releases, staleFreed>>

\* confirmLLMLimitLift: the event is recorded for a limit that is still released.
Confirm ==
    /\ LimitMuFree /\ probing' = FALSE
    /\ announced' = (announced \/ limit.st = "released")

observeAuthoredTurnForLLMLimit(c) ==
    /\ asking[c] = "authored"
    /\ asking' = [asking EXCEPT ![c] = "none"]
    /\ IF probing THEN Confirm ELSE UNCHANGED <<probing, announced>>
    /\ UNCHANGED <<seeding, limit, ripe, parked, deletedL, mirror, capped, releasing, recon, confirming,
                   upheavals, releases, dbFailed, staleFreed>>

OperatorConfirms ==
    /\ confirming /\ confirming' = FALSE
    /\ Confirm
    /\ UNCHANGED <<seeding, limit, ripe, parked, deletedL, mirror, asking, capped, releasing, recon,
                   upheavals, releases, dbFailed, staleFreed>>

\* pruneReleasedLLMUsageLimit
Prunable == limit.st = "released" /\ ripe /\ ~probing

Prune ==
    /\ recon.pc = "idle" /\ LimitMuFree /\ Prunable
    /\ limit' = NoLimit /\ ripe' = FALSE /\ announced' = FALSE /\ releases' = 0
    /\ UNCHANGED <<seeding, parked, deletedL, mirror, asking, capped, probing, releasing, recon, confirming,
                   upheavals, dbFailed, staleFreed>>

--------------------------------------------------------------------------------
(* reconcileLLMUsageLimitLatches, after the releases in the same goroutine: the *)
(* limits are read, then the claws, and the orphans are freed one by one.       *)

ReconReads ==
    /\ recon.pc = "idle" /\ limit.st # "active" /\ parked # {}
    /\ recon' = [recon EXCEPT !.pc = "list"]
    /\ UNCHANGED <<seeding, limit, ripe, parked, deletedL, mirror, asking, capped, probing, announced,
                   releasing, confirming, upheavals, releases, dbFailed, staleFreed>>

ReconLists ==
    /\ recon.pc = "list"
    /\ recon' = IF parked \ deletedL = {} THEN NoRecon
                ELSE [pc |-> "free", orphans |-> parked \ deletedL]
    /\ UNCHANGED <<seeding, limit, ripe, parked, deletedL, mirror, asking, capped, probing, announced,
                   releasing, confirming, upheavals, releases, dbFailed, staleFreed>>

ReconFrees(c) ==
    /\ recon.pc = "free" /\ c \in recon.orphans /\ LimitMuFree
    /\ parked' = parked \ {c}
    /\ mirror' = Mirrored({c}, "free")
    /\ recon' = IF recon.orphans = {c} THEN NoRecon ELSE [recon EXCEPT !.orphans = @ \ {c}]
    /\ staleFreed' = (staleFreed \/ limit.st = "active")
    /\ UNCHANGED <<seeding, limit, ripe, deletedL, asking, capped, probing, announced, releasing,
                   confirming, upheavals, releases, dbFailed>>

\* A restart, with seedLLMLimitProbes.
Seeded == limit.st = "released" /\ ~announced
LimitRestart ==
    /\ Upheaval
    /\ mirror' = [c \in LClaws |-> "off"] /\ seeding' = {} /\ asking' = [c \in LClaws |-> "none"]
    /\ probing' = Seeded
    /\ releasing' = FALSE /\ recon' = NoRecon /\ confirming' = FALSE
    /\ UNCHANGED <<limit, ripe, parked, deletedL, capped, announced, releases, dbFailed, staleFreed>>

SchedulerTicks == releaseDueLLMUsageLimits \/ ReconReads \/ ReconLists \/ \E c \in LClaws : ReconFrees(c)

LimitNext ==
    \/ CapToggles \/ TimePasses \/ SchedulerTicks \/ OperatorClears \/ ReleaseRecord \/ ReleaseFails
    \/ OperatorConfirms \/ Prune \/ LimitRestart
    \/ \E c \in LClaws : \/ ConnectL(c) \/ seedLLMLimitForConnection(c) \/ DisconnectL(c)
                         \/ DeleteL(c) \/ TurnBegins(c) \/ ProviderAnswers(c)
                         \/ handleLLMUsageLimit(c) \/ StoreFails(c)
                         \/ observeAuthoredTurnForLLMLimit(c)

LimitSpec == LimitInit /\ [][LimitNext]_limitVars

--------------------------------------------------------------------------------
(* Properties *)

LimitTypeOK ==
    /\ limit \in [st : {"none", "active", "released"}, retries : Nat] /\ ripe \in BOOLEAN
    /\ parked \subseteq LClaws /\ deletedL \subseteq LClaws
    /\ mirror \in [LClaws -> {"off", "free", "parked"}] /\ seeding \subseteq LClaws
    /\ asking \in [LClaws -> {"none", "asking", "rejected", "authored"}]
    /\ recon.pc \in {"idle", "list", "free"} /\ recon.orphans \subseteq LClaws
    /\ limit.st = "none" => ~probing /\ limit.retries = 0

\* An episode spends one retry per release that failed, however many claws run
\* into the wall together: each of their rejections after the first finds the
\* limit active.
RetriesSpentOnce == limit.retries <= releases

\* A key that is capped holds back every claw whose connection is set up: a claw
\* that joined late, one revived and one that was here agree, whatever release,
\* restart or reconnection came between.  (A failed write, or a reconciliation
\* that read the limits before the cap, can let a claw slip.)
CappedKeyParks ==
    limit.st = "active" /\ LimitMuFree /\ ~dbFailed /\ ~staleFreed =>
        \A c \in OnKey \ seeding : mirror[c] # "free"

\* A release whose lift has not been announced is known to be waiting for its
\* proof, after a restart too, and its record is not pruned.
LiftIsPending ==
    limit.st = "released" /\ ~announced /\ ~dbFailed => probing

\* The three things a record of a limit stands for: who is held back, how often it
\* was tried, and that its end is still to be announced.
LimitRecordHolds == CappedKeyParks /\ RetriesSpentOnce /\ LiftIsPending

\* A parked claw is freed, unless it is deleted or the limit is left to an
\* operator: no half-done release, restart or pruned record parks it for ever.
ParkedIsFreed ==
    \A c \in LClaws : c \in parked ~> (c \notin parked \/ c \in deletedL
                                       \/ (limit.st = "active" /\ Exhausted))
================================================================================
