------------------------------ MODULE VolumeLeases ------------------------------
(***************************************************************************)
(* One hub volume and the leases of the claws that mount it.               *)
(* pkg/hub/volumes.go and artifact/local.go on the hub, volumes.go in      *)
(* cmd/claw-bridge.  A volume's tag points to a manifest; a lease records  *)
(* the manifest it was taken on, the bridge downloads that archive into    *)
(* the mount, and a writable mount is uploaded when the claw ends, if the  *)
(* tag is still where the lease found it.                                  *)
(***************************************************************************)
EXTENDS Naturals, FiniteSets

CONSTANTS
    VClaws,         \* the claws that mount the volume
    MaxVersions     \* bound on manifests

VARIABLES
    vmode,          \* "ro" or "rw", the mode of each claw's mount
    vclaw,          \* "up", "ended"
    vconn,          \* the bridges connected
    attach,         \* startWorkflowAfterVolumes on the current connection
    lease,          \* volume_leases: [st, dig]
    mount,          \* what is in the mount: the set of claws whose writes it has
    dir,            \* the mount's directory: "absent", "partial", "whole"
    sync,           \* dispatchVolumeSync: "idle", "sent", "stored"
    put,            \* handleVolumeArchivePut past its checks: the body, or NoPut
    ref,            \* the manifest the tag names, 0 if none
    body,           \* what each manifest holds
    versions,
    renewed,        \* history: an expired lease was renewed
    raced,          \* history: a tag moved while another upload was past its checks
    partial         \* history: a mount was uploaded before its download was complete

volVars == <<vmode, vclaw, vconn, attach, lease, mount, sync, put, ref, body, versions, renewed, raced, partial, dir>>

NoPut == [on |-> FALSE, body |-> {}]
NoLease == [st |-> "none", dig |-> 0]

ASSUME VolumeAssumption == /\ IsFiniteSet(VClaws) /\ MaxVersions \in Nat \ {0}

VolInit ==
    /\ vmode \in [VClaws -> {"ro", "rw"}]
    /\ vclaw = [c \in VClaws |-> "up"]
    /\ vconn = {}
    /\ attach = [c \in VClaws |-> "idle"]
    /\ lease = [c \in VClaws |-> NoLease]
    /\ mount = [c \in VClaws |-> {}]
    /\ sync = [c \in VClaws |-> "idle"]
    /\ put = [c \in VClaws |-> NoPut]
    /\ ref = 0 /\ body = [v \in 1 .. MaxVersions |-> {}] /\ versions = 0
    /\ renewed = FALSE /\ raced = FALSE /\ partial = FALSE
    /\ dir = [c \in VClaws |-> "absent"]

--------------------------------------------------------------------------------
\* workflowVolumeLeaseActive
Held(c) == lease[c].st = "held"

\* resolveVolumeManifest: the first use of a volume creates its empty manifest,
\* even if the lease is then refused.
resolveVolumeManifest ==
    IF ref = 0 THEN versions < MaxVersions /\ ref' = versions + 1 /\ versions' = versions + 1
               ELSE UNCHANGED <<ref, versions>>

\* The active leases that a lease of c conflicts with: any, or the writable ones.
Conflicting(c) == {d \in VClaws : Held(d) /\ (vmode[c] = "rw" \/ vmode[d] = "rw")}

\* releaseWorkflowVolumeLeases
Released(l) == IF l.st \in {"held", "expired"} THEN [l EXCEPT !.st = "released"] ELSE l

VConnect(c) ==
    /\ vclaw[c] = "up" /\ c \notin vconn
    /\ vconn' = vconn \cup {c}
    /\ attach' = [attach EXCEPT ![c] = "begun"]
    /\ UNCHANGED <<vclaw, lease, mount, sync, put, ref, body, versions, renewed, raced, partial, dir>>

\* The connection and its context end; an attach under way fails with it.
VDisconnect(c) ==
    /\ c \in vconn
    /\ vconn' = vconn \ {c}
    /\ IF attach[c] \in {"begun", "leased", "filling"}
       THEN /\ vclaw' = [vclaw EXCEPT ![c] = "ended"]
            /\ lease' = [lease EXCEPT ![c] = Released(@)]
       ELSE UNCHANGED <<vclaw, lease>>
    /\ attach' = [attach EXCEPT ![c] = "idle"]
    /\ UNCHANGED <<mount, sync, put, ref, body, versions, renewed, raced, partial, dir>>

\* attachWorkflowVolumes: a claw without a lease takes one, a claw that comes
\* back keeps the one it has; a refused lease stops the claw.
attachWorkflowVolumes(c) ==
    /\ attach[c] = "begun"
    /\ IF lease[c].st # "none"
       THEN /\ attach' = [attach EXCEPT ![c] = "leased"]
            /\ UNCHANGED <<vclaw, lease, ref, versions>>
       ELSE /\ resolveVolumeManifest
            /\ IF Conflicting(c) = {}
               THEN /\ lease' = [lease EXCEPT ![c] = [st |-> "held", dig |-> ref']]
                    /\ attach' = [attach EXCEPT ![c] = "leased"]
                    /\ UNCHANGED vclaw
               ELSE /\ vclaw' = [vclaw EXCEPT ![c] = "ended"]
                    /\ attach' = [attach EXCEPT ![c] = "idle"]
                    /\ UNCHANGED lease
    /\ UNCHANGED <<vconn, mount, sync, put, body, renewed, raced, partial, dir>>

\* The bridge makes the mount's directory and asks for the archive; the hub
\* refuses a lease that is not active, and the claw is stopped.
attachVolume(c) ==
    /\ attach[c] = "leased"
    /\ \/ /\ Held(c)
          /\ attach' = [attach EXCEPT ![c] = "filling"]
          /\ UNCHANGED <<vclaw, lease>>
       \/ /\ ~Held(c)
          /\ vclaw' = [vclaw EXCEPT ![c] = "ended"]
          /\ lease' = [lease EXCEPT ![c] = Released(@)]
          /\ attach' = [attach EXCEPT ![c] = "idle"]
    /\ dir' = [dir EXCEPT ![c] = IF @ = "absent" THEN "partial" ELSE @]
    /\ UNCHANGED <<vconn, mount, sync, put, ref, body, versions, renewed, raced, partial>>

\* It extracts the archive over the mount, also when it had it already.
extractTarGzip(c) ==
    /\ attach[c] = "filling"
    /\ mount' = [mount EXCEPT ![c] = body[lease[c].dig]]
    /\ dir' = [dir EXCEPT ![c] = "whole"]
    /\ attach' = [attach EXCEPT ![c] = "done"]
    /\ UNCHANGED <<vclaw, vconn, lease, sync, put, ref, body, versions, renewed, raced, partial>>

\* The agent writes in its mount (external).
AgentWrites(c) ==
    /\ attach[c] = "done" /\ vclaw[c] = "up" /\ c \notin mount[c]
    /\ mount' = [mount EXCEPT ![c] = @ \cup {c}]
    /\ UNCHANGED <<vclaw, vconn, attach, lease, sync, put, ref, body, versions, renewed, raced, partial, dir>>

\* heartbeatWorkflowVolumeLeases renews every lease not released.
heartbeatWorkflowVolumeLeases(c) ==
    /\ c \in vconn /\ lease[c].st = "expired"
    /\ lease' = [lease EXCEPT ![c].st = "held"]
    /\ renewed' = TRUE
    /\ UNCHANGED <<vclaw, vconn, attach, mount, sync, put, ref, body, versions, raced, partial, dir>>

\* volumeLeaseTTL passes without a heartbeat.
LeaseExpires(c) ==
    /\ c \notin vconn /\ Held(c)
    /\ lease' = [lease EXCEPT ![c].st = "expired"]
    /\ UNCHANGED <<vclaw, vconn, attach, mount, sync, put, ref, body, versions, renewed, raced, partial, dir>>

\* syncWorkflowVolumes, when the claw ends: a disconnected claw with an active
\* writable lease keeps it until it expires; with nothing to upload the leases
\* are released; otherwise the bridge is asked to upload.
syncWorkflowVolumes(c) ==
    /\ vclaw[c] = "up"
    /\ vclaw' = [vclaw EXCEPT ![c] = "ended"]
    /\ LET uploads == vmode[c] = "rw" /\ Held(c) IN
       /\ lease' = [lease EXCEPT ![c] = IF uploads THEN @ ELSE Released(@)]
       /\ sync' = [sync EXCEPT ![c] = IF uploads /\ c \in vconn THEN "sent" ELSE @]
    /\ UNCHANGED <<vconn, attach, mount, put, ref, body, versions, renewed, raced, partial, dir>>

\* A claw that is killed neither syncs nor releases.
VKill(c) ==
    /\ vclaw[c] = "up" /\ lease[c].st # "none"
    /\ vclaw' = [vclaw EXCEPT ![c] = "ended"]
    /\ UNCHANGED <<vconn, attach, lease, mount, sync, put, ref, body, versions, renewed, raced, partial, dir>>

\* handleVolumeArchivePut checks the lease and that the tag has not moved ...
MutCurrent(c) == TRUE
Current(c) == ref = lease[c].dig
PutChecks(c) ==
    /\ sync[c] = "sent" /\ c \in vconn /\ ~put[c].on
    /\ Held(c) /\ Current(c) /\ dir[c] # "absent"
    /\ partial' = (partial \/ dir[c] = "partial")
    /\ put' = [put EXCEPT ![c] = [on |-> TRUE, body |-> mount[c]]]
    /\ UNCHANGED <<vclaw, vconn, attach, lease, mount, sync, ref, body, versions, renewed, raced, dir>>

\* ... and, the archive stored, moves the tag and the lease's manifest.
PutTags(c) ==
    /\ put[c].on /\ versions < MaxVersions
    /\ versions' = versions + 1
    /\ ref' = versions'
    /\ body' = [body EXCEPT ![versions'] = put[c].body]
    /\ lease' = [lease EXCEPT ![c].dig = versions']
    /\ put' = [put EXCEPT ![c] = NoPut]
    /\ sync' = [sync EXCEPT ![c] = IF @ = "sent" THEN "stored" ELSE @]
    /\ raced' = (raced \/ \E d \in VClaws \ {c} : put[d].on)
    /\ UNCHANGED <<vclaw, vconn, attach, mount, renewed, partial, dir>>

\* The bridge's acknowledgement releases the leases of the claw.
SyncAcked(c) ==
    /\ sync[c] = "stored" /\ c \in vconn
    /\ sync' = [sync EXCEPT ![c] = "idle"]
    /\ lease' = [lease EXCEPT ![c] = Released(@)]
    /\ UNCHANGED <<vclaw, vconn, attach, mount, put, ref, body, versions, renewed, raced, partial, dir>>

\* A refusal, an error or volumeSyncWait: the lease is kept until it expires.
SyncFails(c) ==
    /\ sync[c] \in {"sent", "stored"}
    /\ sync' = [sync EXCEPT ![c] = "idle"]
    /\ UNCHANGED <<vclaw, vconn, attach, lease, mount, put, ref, body, versions, renewed, raced, partial, dir>>

VolNext ==
    /\ UNCHANGED vmode
    /\ \E c \in VClaws :
        \/ VConnect(c) \/ VDisconnect(c) \/ attachWorkflowVolumes(c) \/ attachVolume(c)
        \/ extractTarGzip(c) \/ AgentWrites(c) \/ heartbeatWorkflowVolumeLeases(c)
        \/ LeaseExpires(c) \/ syncWorkflowVolumes(c) \/ VKill(c) \/ PutChecks(c)
        \/ PutTags(c) \/ SyncAcked(c) \/ SyncFails(c)

VolSpec == VolInit /\ [][VolNext]_volVars

--------------------------------------------------------------------------------
(* Properties *)

\* While no expired lease has been renewed, a writable lease is alone on the
\* volume: acquireWorkflowVolumeLeases refuses every lease that conflicts.
WritersExclusive ==
    renewed \/ \A c, d \in VClaws : c # d /\ Held(c) /\ Held(d) => vmode[c] = "ro" /\ vmode[d] = "ro"

\* What was stored stays stored: a later upload contains the earlier ones, even
\* when two writable leases are active after a renewal, unless two uploads were
\* past their checks together or a mount was uploaded while it was still being
\* downloaded.
StoredSurvives ==
    [][ref # 0 /\ ~raced' /\ ~partial' => body[ref] \subseteq body'[ref']]_volVars

\* Leases keep writers apart, and the checks of an upload catch what leases let pass.
VolumesSafe == []WritersExclusive /\ StoredSurvives

VolTypeOK ==
    /\ vmode \in [VClaws -> {"ro", "rw"}] /\ vclaw \in [VClaws -> {"up", "ended"}]
    /\ vconn \subseteq VClaws
    /\ attach \in [VClaws -> {"idle", "begun", "leased", "filling", "done"}]
    /\ lease \in [VClaws -> [st : {"none", "held", "expired", "released"}, dig : 0 .. MaxVersions]]
    /\ mount \in [VClaws -> SUBSET VClaws] /\ dir \in [VClaws -> {"absent", "partial", "whole"}]
    /\ sync \in [VClaws -> {"idle", "sent", "stored"}]
    /\ put \in [VClaws -> [on : BOOLEAN, body : SUBSET VClaws]]
    /\ ref \in 0 .. MaxVersions /\ versions \in 0 .. MaxVersions
    /\ body \in [1 .. MaxVersions -> SUBSET VClaws]
    /\ \A c \in VClaws : (lease[c].st = "none") = (lease[c].dig = 0)
================================================================================
