-------------------------- MODULE HubRecords_proofs --------------------------
(***************************************************************************)
(* Theorems about the hub's smaller protocols: the leases of volumes, the  *)
(* comment on a stopped claw, the usage limit of a provider key, the       *)
(* overlap slots of cron workflows, and what a workflow run knows of its   *)
(* pull request. Each part defines an inductive invariant, shows that the  *)
(* initial states satisfy it and every step preserves it, and draws the    *)
(* properties the runs check from it.                                      *)
(***************************************************************************)
EXTENDS VolumeLeases, StopComment, UsageLimit, CronSlots, DeliveryPolicy,
        FiniteSetTheorems, WellFoundedInduction, TLAPS

--------------------------------------------------------------------------------
(***************************************************************************)
(* Volume leases. What is attached, mounted, synced or uploaded rests on a *)
(* lease; a mount holds at least the manifest of its lease, and an upload  *)
(* past its checks at least what the tag names. Without these a second     *)
(* writer, or an upload of an older tree, could not be excluded.           *)
(***************************************************************************)
\* Nothing is attached, mounted, synced or uploaded without a lease, and only a
\* claw that has ended syncs or uploads.
PlaceInv ==
    \A c \in VClaws :
        /\ \/ attach[c] \in {"leased", "filling", "done"} \/ dir[c] # "absent"
           \/ put[c].on \/ sync[c] # "idle"
           => lease[c].st # "none"
        /\ sync[c] # "idle" \/ put[c].on => vclaw[c] = "ended"

\* Every lease and the tag name a manifest that exists.
VersionInv ==
    /\ \A c \in VClaws : lease[c].dig <= versions
    /\ ref <= versions

\* A mount that may still be uploaded holds at least the manifest of its lease.
MountInv ==
    \A c \in VClaws :
        (vclaw[c] = "up" \/ sync[c] = "sent") /\ ~put[c].on /\ dir[c] = "whole"
        => body[lease[c].dig] \subseteq mount[c]

\* An upload past its checks holds at least what the tag names.
PutInv ==
    raced \/ partial \/ \A c \in VClaws : put[c].on => ref # 0 /\ body[ref] \subseteq put[c].body

VolInv == VolTypeOK /\ PlaceInv /\ VersionInv /\ MountInv /\ PutInv /\ WritersExclusive

\* At the start no claw has a lease and the volume has no version.
LEMMA VolInitInv == VolInit => VolInv
  BY VolumeAssumption DEF VolInit, VolInv, VolTypeOK, PlaceInv, VersionInv, MountInv, PutInv, WritersExclusive,
   NoLease, NoPut, Held

VLeases == [st : {"none", "held", "expired", "released"}, dig : 0 .. MaxVersions]

\* A lease that is released keeps its manifest and is not held again.
LEMMA ReleasedLease ==
    ASSUME NEW l \in VLeases
    PROVE  /\ Released(l) \in VLeases /\ Released(l).dig = l.dig
           /\ Released(l).st # "held" /\ (Released(l).st = "none") = (l.st = "none")
  BY DEF Released, VLeases

\* Every step of the leases, mounts, syncs and uploads keeps the invariant.
LEMMA VolStep ==
    ASSUME VolInv, [VolNext]_volVars
    PROVE  VolInv'
<1> USE VolumeAssumption
<1>t. /\ VolTypeOK /\ PlaceInv /\ VersionInv /\ MountInv /\ PutInv /\ WritersExclusive
     /\ \A c \in VClaws : lease[c] \in VLeases
  BY DEF VolInv, VolTypeOK, VLeases
<1>r. \A c \in VClaws : /\ Released(lease[c]) \in VLeases /\ Released(lease[c]).dig = lease[c].dig
                        /\ Released(lease[c]).st # "held" /\ (Released(lease[c]).st = "none") = (lease[c].st = "none")
  BY <1>t, ReleasedLease
<1>0. CASE UNCHANGED volVars
  BY <1>0, <1>t DEF volVars, VolInv, VolTypeOK, PlaceInv, VersionInv, MountInv, PutInv, WritersExclusive, Held
<1>1. ASSUME NEW c \in VClaws, VConnect(c), vmode' = vmode PROVE VolInv'
  <2>1. VolTypeOK'  BY <1>1, <1>t DEF VConnect, VolTypeOK, PlaceInv, VLeases
  <2>2. PlaceInv'  BY <1>1, <1>t DEF VConnect, VolTypeOK, PlaceInv, VLeases
  <2>3. VersionInv'  BY <1>1, <1>t DEF VConnect, VolTypeOK, VersionInv, VLeases
  <2>4. MountInv'  BY <1>1, <1>t DEF VConnect, VolTypeOK, PlaceInv, VersionInv, MountInv, VLeases
  <2>5. PutInv'  BY <1>1, <1>t DEF VConnect, VolTypeOK, PlaceInv, VersionInv, MountInv, PutInv, VLeases
  <2>6. WritersExclusive'  BY <1>1, <1>t DEF VConnect, VolTypeOK, PlaceInv, WritersExclusive, VLeases, Held
  <2> QED  BY <2>1, <2>2, <2>3, <2>4, <2>5, <2>6 DEF VolInv
<1>2. ASSUME NEW c \in VClaws, VDisconnect(c), vmode' = vmode PROVE VolInv'
  <2>0. /\ lease' \in [VClaws -> VLeases] /\ vclaw' \in [VClaws -> {"up", "ended"}]
        /\ \A d \in VClaws : /\ lease'[d].dig = lease[d].dig
                             /\ (lease'[d].st = "none") = (lease[d].st = "none")
                             /\ lease'[d].st = "held" => lease[d].st = "held"
                             /\ vclaw'[d] = vclaw[d] \/ vclaw'[d] = "ended"
    <3>1. CASE attach[c] \in {"begun", "leased", "filling"}
      <4>1. vclaw' = [vclaw EXCEPT ![c] = "ended"] /\ lease' = [lease EXCEPT ![c] = Released(lease[c])]
        BY <1>2, <3>1 DEF VDisconnect
      <4>2. vclaw \in [VClaws -> {"up", "ended"}] /\ lease \in [VClaws -> VLeases]
        BY <1>t DEF VolTypeOK, VLeases
      <4>3. vclaw' \in [VClaws -> {"up", "ended"}] /\ lease' \in [VClaws -> VLeases]
        BY <1>r, <4>1, <4>2
      <4>4. ASSUME NEW d \in VClaws
            PROVE  /\ lease'[d].dig = lease[d].dig /\ (lease'[d].st = "none") = (lease[d].st = "none")
                   /\ lease'[d].st = "held" => lease[d].st = "held"
                   /\ vclaw'[d] = vclaw[d] \/ vclaw'[d] = "ended"
        BY <1>r, <4>1, <4>2
      <4> QED  BY <4>3, <4>4
    <3>2. CASE attach[c] \notin {"begun", "leased", "filling"}
      BY <1>2, <1>t, <3>2 DEF VDisconnect, VolTypeOK, VLeases
    <3> QED  BY <3>1, <3>2
  <2>9. /\ attach' = [attach EXCEPT ![c] = "idle"] /\ vconn' = vconn \ {c}
        /\ UNCHANGED <<mount, sync, put, ref, body, versions, renewed, raced, partial, dir>>
    BY <1>2 DEF VDisconnect
  <2>1. VolTypeOK'  BY <1>2, <1>t, <2>0, <2>9 DEF VolTypeOK, VLeases
  <2>2. PlaceInv'  BY <1>t, <2>0, <2>9 DEF VolTypeOK, PlaceInv
  <2>3. VersionInv'  BY <1>t, <2>0, <2>9 DEF VersionInv
  <2>4. MountInv'  BY <1>t, <2>0, <2>9 DEF MountInv, PlaceInv, VolTypeOK
  <2>5. PutInv'  BY <1>t, <2>9 DEF PutInv
  <2>6. WritersExclusive'  BY <1>2, <1>t, <2>0, <2>9 DEF WritersExclusive, Held
  <2> QED  BY <2>1, <2>2, <2>3, <2>4, <2>5, <2>6 DEF VolInv
<1>3. ASSUME NEW c \in VClaws, attachWorkflowVolumes(c), vmode' = vmode PROVE VolInv'
  <2>9. /\ attach[c] = "begun"
        /\ UNCHANGED <<vconn, mount, sync, put, body, renewed, raced, partial, dir>>
    BY <1>3 DEF attachWorkflowVolumes
  <2>k. CASE lease[c].st # "none"
    <3>1. attach' = [attach EXCEPT ![c] = "leased"] /\ UNCHANGED <<vclaw, lease, ref, versions>>
      BY <1>3, <2>k DEF attachWorkflowVolumes
    <3> QED  BY <1>3, <1>t, <2>9, <2>k, <3>1 DEF VolInv, VolTypeOK, PlaceInv, VersionInv, MountInv,
                PutInv, WritersExclusive, Held
  <2>n. CASE lease[c].st = "none"
    <3>1. /\ resolveVolumeManifest /\ lease[c].dig = 0 /\ dir[c] = "absent" /\ ~put[c].on
          /\ sync[c] = "idle"
      BY <1>3, <1>t, <2>n DEF attachWorkflowVolumes, VolTypeOK, PlaceInv
    <3>2. /\ ref' \in 1 .. MaxVersions /\ versions' \in 0 .. MaxVersions
          /\ ref' <= versions' /\ versions <= versions' /\ (ref # 0 => ref' = ref)
      BY <1>t, <3>1 DEF resolveVolumeManifest, VolTypeOK, VersionInv
    <3>5. PutInv'
      BY <1>t, <2>9, <3>2 DEF PutInv
    <3>3. CASE Conflicting(c) = {}
      <4>1. /\ lease' = [lease EXCEPT ![c] = [st |-> "held", dig |-> ref']]
            /\ attach' = [attach EXCEPT ![c] = "leased"] /\ vclaw' = vclaw
        BY <1>3, <2>n, <3>3 DEF attachWorkflowVolumes
      <4>2. /\ lease' \in [VClaws -> VLeases] /\ lease'[c].dig = ref' /\ lease'[c].st = "held"
            /\ \A d \in VClaws \ {c} : lease'[d] = lease[d]
        BY <1>t, <3>2, <4>1 DEF VolTypeOK, VLeases
      <4>3. VolTypeOK'  BY <1>3, <1>t, <2>9, <3>2, <4>1, <4>2 DEF VolTypeOK, VLeases
      <4>4. PlaceInv'  BY <1>t, <2>9, <3>1, <4>1, <4>2 DEF VolTypeOK, PlaceInv
      <4>5. VersionInv'
        <5>1. /\ versions \in Nat /\ versions' \in Nat /\ versions <= versions'
              /\ \A d \in VClaws : lease[d].dig \in Nat /\ lease[d].dig <= versions
          BY <1>t, <3>2 DEF VersionInv, VolTypeOK, VLeases
        <5>2. \A d \in VClaws : lease'[d].dig = ref' \/ lease'[d] = lease[d]
          BY <4>2
        <5> QED  BY <3>2, <5>1, <5>2 DEF VersionInv
      <4>6. MountInv'  BY <1>t, <2>9, <3>1, <4>1, <4>2 DEF MountInv, VolTypeOK
      <4>7. WritersExclusive'
        <5>1. \A d \in VClaws : Held(d) => vmode[c] = "ro" /\ vmode[d] = "ro"
          BY <1>t, <3>3 DEF Conflicting, VolTypeOK
        <5>2. \A d \in VClaws \ {c} : lease'[d].st = "held" => Held(d)
          BY <4>2 DEF Held
        <5> QED  BY <1>3, <1>t, <2>9, <5>1, <5>2 DEF WritersExclusive, Held
      <4> QED  BY <3>5, <4>3, <4>4, <4>5, <4>6, <4>7 DEF VolInv
    <3>4. CASE Conflicting(c) # {}
      <4>1. /\ vclaw' = [vclaw EXCEPT ![c] = "ended"] /\ lease' = lease
            /\ attach' = [attach EXCEPT ![c] = "idle"]
        BY <1>3, <2>n, <3>4 DEF attachWorkflowVolumes
      <4>3. VolTypeOK'  BY <1>3, <1>t, <2>9, <3>2, <4>1 DEF VolTypeOK
      <4>4. PlaceInv'  BY <1>t, <2>9, <3>1, <4>1 DEF VolTypeOK, PlaceInv
      <4>5. VersionInv'  BY <1>t, <3>2, <4>1 DEF VersionInv, VolTypeOK, VLeases
      <4>6. MountInv'  BY <1>t, <2>9, <3>1, <4>1 DEF MountInv, VolTypeOK
      <4>7. WritersExclusive'  BY <1>3, <1>t, <2>9, <4>1 DEF WritersExclusive, Held
      <4> QED  BY <3>5, <4>3, <4>4, <4>5, <4>6, <4>7 DEF VolInv
    <3> QED  BY <3>3, <3>4
  <2> QED  BY <2>k, <2>n
<1>4. ASSUME NEW c \in VClaws, attachVolume(c), vmode' = vmode PROVE VolInv'
  <2>0. /\ lease' \in [VClaws -> VLeases] /\ vclaw' \in [VClaws -> {"up", "ended"}]
        /\ attach' \in [VClaws -> {"idle", "begun", "leased", "filling", "done"}]
        /\ \A d \in VClaws : /\ lease'[d].dig = lease[d].dig
                             /\ (lease'[d].st = "none") = (lease[d].st = "none")
                             /\ lease'[d].st = "held" => lease[d].st = "held"
                             /\ vclaw'[d] = vclaw[d] \/ vclaw'[d] = "ended"
                             /\ d # c => attach'[d] = attach[d]
    <3>1. CASE Held(c)
      BY <1>4, <1>t, <3>1 DEF attachVolume, VolTypeOK, VLeases
    <3>2. CASE ~Held(c)
      <4>1. /\ vclaw' = [vclaw EXCEPT ![c] = "ended"] /\ attach' = [attach EXCEPT ![c] = "idle"]
            /\ lease' = [lease EXCEPT ![c] = Released(@)]
        BY <1>4, <3>2 DEF attachVolume
      <4> QED  BY <1>t, <1>r, <4>1 DEF VolTypeOK
    <3> QED  BY <3>1, <3>2
  <2>9. /\ attach[c] = "leased" /\ dir' = [dir EXCEPT ![c] = IF @ = "absent" THEN "partial" ELSE @]
        /\ UNCHANGED <<vconn, mount, sync, put, ref, body, versions, renewed, raced, partial>>
    BY <1>4 DEF attachVolume
  <2>1. VolTypeOK'  BY <1>4, <1>t, <2>0, <2>9 DEF VolTypeOK, VLeases
  <2>2. PlaceInv'  BY <1>t, <2>0, <2>9 DEF VolTypeOK, PlaceInv
  <2>3. VersionInv'  BY <1>t, <2>0, <2>9 DEF VersionInv
  <2>4. MountInv'
    <3>1. \A d \in VClaws : dir'[d] = "whole" => dir[d] = "whole"
      BY <1>t, <2>9 DEF VolTypeOK
    <3> QED  BY <1>t, <2>0, <2>9, <3>1 DEF MountInv, PlaceInv, VolTypeOK
  <2>5. PutInv'  BY <1>t, <2>9 DEF PutInv
  <2>6. WritersExclusive'  BY <1>4, <1>t, <2>0, <2>9 DEF WritersExclusive, Held
  <2> QED  BY <2>1, <2>2, <2>3, <2>4, <2>5, <2>6 DEF VolInv
<1>5. ASSUME NEW c \in VClaws, extractTarGzip(c), vmode' = vmode PROVE VolInv'
  <2>1. VolTypeOK'  BY <1>5, <1>t DEF extractTarGzip, VolTypeOK, PlaceInv, VLeases
  <2>2. PlaceInv'  BY <1>5, <1>t DEF extractTarGzip, VolTypeOK, PlaceInv, VLeases
  <2>3. VersionInv'  BY <1>5, <1>t DEF extractTarGzip, VolTypeOK, VersionInv, VLeases
  <2>4. MountInv'  BY <1>5, <1>t DEF extractTarGzip, VolTypeOK, PlaceInv, VersionInv, MountInv, VLeases
  <2>5. PutInv'  BY <1>5, <1>t DEF extractTarGzip, VolTypeOK, PlaceInv, VersionInv, MountInv, PutInv, VLeases
  <2>6. WritersExclusive'  BY <1>5, <1>t DEF extractTarGzip, VolTypeOK, PlaceInv, WritersExclusive, VLeases, Held
  <2> QED  BY <2>1, <2>2, <2>3, <2>4, <2>5, <2>6 DEF VolInv
<1>6. ASSUME NEW c \in VClaws, AgentWrites(c), vmode' = vmode PROVE VolInv'
  <2>1. VolTypeOK'  BY <1>6, <1>t DEF AgentWrites, VolTypeOK, PlaceInv, VLeases
  <2>2. PlaceInv'  BY <1>6, <1>t DEF AgentWrites, VolTypeOK, PlaceInv, VLeases
  <2>3. VersionInv'  BY <1>6, <1>t DEF AgentWrites, VolTypeOK, VersionInv, VLeases
  <2>4. MountInv'  BY <1>6, <1>t DEF AgentWrites, VolTypeOK, PlaceInv, VersionInv, MountInv, VLeases
  <2>5. PutInv'  BY <1>6, <1>t DEF AgentWrites, VolTypeOK, PlaceInv, VersionInv, MountInv, PutInv, VLeases
  <2>6. WritersExclusive'  BY <1>6, <1>t DEF AgentWrites, VolTypeOK, PlaceInv, WritersExclusive, VLeases, Held
  <2> QED  BY <2>1, <2>2, <2>3, <2>4, <2>5, <2>6 DEF VolInv
<1>7. ASSUME NEW c \in VClaws, heartbeatWorkflowVolumeLeases(c), vmode' = vmode PROVE VolInv'
  <2>1. VolTypeOK'  BY <1>7, <1>t DEF heartbeatWorkflowVolumeLeases, VolTypeOK, PlaceInv, VLeases
  <2>2. PlaceInv'  BY <1>7, <1>t DEF heartbeatWorkflowVolumeLeases, VolTypeOK, PlaceInv, VLeases
  <2>3. VersionInv'  BY <1>7, <1>t DEF heartbeatWorkflowVolumeLeases, VolTypeOK, VersionInv, VLeases
  <2>4. MountInv'  BY <1>7, <1>t DEF heartbeatWorkflowVolumeLeases, VolTypeOK, PlaceInv, VersionInv, MountInv, VLeases
  <2>5. PutInv'  BY <1>7, <1>t DEF heartbeatWorkflowVolumeLeases, VolTypeOK, PlaceInv, VersionInv, MountInv, PutInv, VLeases
  <2>6. WritersExclusive'  BY <1>7, <1>t DEF heartbeatWorkflowVolumeLeases, VolTypeOK, PlaceInv, WritersExclusive, VLeases, Held
  <2> QED  BY <2>1, <2>2, <2>3, <2>4, <2>5, <2>6 DEF VolInv
<1>8. ASSUME NEW c \in VClaws, LeaseExpires(c), vmode' = vmode PROVE VolInv'
  <2>1. VolTypeOK'  BY <1>8, <1>t DEF LeaseExpires, VolTypeOK, PlaceInv, VLeases, Held
  <2>2. PlaceInv'  BY <1>8, <1>t DEF LeaseExpires, VolTypeOK, PlaceInv, VLeases, Held
  <2>3. VersionInv'  BY <1>8, <1>t DEF LeaseExpires, VolTypeOK, VersionInv, VLeases, Held
  <2>4. MountInv'  BY <1>8, <1>t DEF LeaseExpires, VolTypeOK, PlaceInv, VersionInv, MountInv, VLeases, Held
  <2>5. PutInv'  BY <1>8, <1>t DEF LeaseExpires, VolTypeOK, PlaceInv, VersionInv, MountInv, PutInv, VLeases, Held
  <2>6. WritersExclusive'  BY <1>8, <1>t DEF LeaseExpires, VolTypeOK, PlaceInv, WritersExclusive, VLeases, Held
  <2> QED  BY <2>1, <2>2, <2>3, <2>4, <2>5, <2>6 DEF VolInv
<1>9. ASSUME NEW c \in VClaws, syncWorkflowVolumes(c), vmode' = vmode PROVE VolInv'
  <2>1. VolTypeOK'  BY <1>9, <1>t, <1>r DEF syncWorkflowVolumes, VolTypeOK, PlaceInv, VLeases, Held
  <2>2. PlaceInv'  BY <1>9, <1>t, <1>r DEF syncWorkflowVolumes, VolTypeOK, PlaceInv, VLeases, Held
  <2>3. VersionInv'  BY <1>9, <1>t, <1>r DEF syncWorkflowVolumes, VolTypeOK, VersionInv, VLeases, Held
  <2>4. MountInv'  BY <1>9, <1>t, <1>r DEF syncWorkflowVolumes, VolTypeOK, PlaceInv, VersionInv, MountInv, VLeases, Held
  <2>5. PutInv'  BY <1>9, <1>t, <1>r DEF syncWorkflowVolumes, VolTypeOK, PlaceInv, VersionInv, MountInv, PutInv, VLeases, Held
  <2>6. WritersExclusive'  BY <1>9, <1>t, <1>r DEF syncWorkflowVolumes, VolTypeOK, PlaceInv, WritersExclusive, VLeases, Held
  <2> QED  BY <2>1, <2>2, <2>3, <2>4, <2>5, <2>6 DEF VolInv
<1>10. ASSUME NEW c \in VClaws, VKill(c), vmode' = vmode PROVE VolInv'
  <2>1. VolTypeOK'  BY <1>10, <1>t DEF VKill, VolTypeOK, PlaceInv, VLeases
  <2>2. PlaceInv'  BY <1>10, <1>t DEF VKill, VolTypeOK, PlaceInv, VLeases
  <2>3. VersionInv'  BY <1>10, <1>t DEF VKill, VolTypeOK, VersionInv, VLeases
  <2>4. MountInv'  BY <1>10, <1>t DEF VKill, VolTypeOK, PlaceInv, VersionInv, MountInv, VLeases
  <2>5. PutInv'  BY <1>10, <1>t DEF VKill, VolTypeOK, PlaceInv, VersionInv, MountInv, PutInv, VLeases
  <2>6. WritersExclusive'  BY <1>10, <1>t DEF VKill, VolTypeOK, PlaceInv, WritersExclusive, VLeases, Held
  <2> QED  BY <2>1, <2>2, <2>3, <2>4, <2>5, <2>6 DEF VolInv
<1>11. ASSUME NEW c \in VClaws, PutChecks(c), vmode' = vmode PROVE VolInv'
  <2>1. VolTypeOK'  BY <1>11, <1>t DEF PutChecks, Current, VolTypeOK, PlaceInv, VLeases, Held
  <2>2. PlaceInv'  BY <1>11, <1>t DEF PutChecks, Current, VolTypeOK, PlaceInv, VLeases, Held
  <2>3. VersionInv'  BY <1>11, <1>t DEF PutChecks, Current, VolTypeOK, VersionInv, VLeases, Held
  <2>4. MountInv'  BY <1>11, <1>t DEF PutChecks, Current, VolTypeOK, PlaceInv, VersionInv, MountInv, VLeases, Held
  <2>5. PutInv'  BY <1>11, <1>t DEF PutChecks, Current, VolTypeOK, PlaceInv, VersionInv, MountInv, PutInv, VLeases, Held
  <2>6. WritersExclusive'  BY <1>11, <1>t DEF PutChecks, Current, VolTypeOK, PlaceInv, WritersExclusive, VLeases, Held
  <2> QED  BY <2>1, <2>2, <2>3, <2>4, <2>5, <2>6 DEF VolInv
<1>12. ASSUME NEW c \in VClaws, PutTags(c), vmode' = vmode PROVE VolInv'
  <2>0. /\ versions' \in 1 .. MaxVersions /\ put[c].body \in SUBSET VClaws /\ lease[c].st # "none"
    BY <1>12, <1>t DEF PutTags, VolTypeOK, PlaceInv
  <2>1. VolTypeOK'
    <3>1. lease' \in [VClaws -> VLeases] /\ \A d \in VClaws : (lease'[d].st = "none") = (lease'[d].dig = 0)
      <4>1. /\ [lease[c] EXCEPT !.dig = versions'] \in VLeases
            /\ [lease[c] EXCEPT !.dig = versions'].st # "none"
            /\ [lease[c] EXCEPT !.dig = versions'].dig # 0
        BY <1>t, <2>0 DEF VLeases
      <4>2. lease' = [lease EXCEPT ![c] = [lease[c] EXCEPT !.dig = versions']]
        BY <1>12 DEF PutTags
      <4> QED  BY <1>t, <4>1, <4>2 DEF VolTypeOK
    <3>2. body' \in [1 .. MaxVersions -> SUBSET VClaws]
      BY <1>12, <1>t, <2>0 DEF PutTags, VolTypeOK
    <3>3. put' \in [VClaws -> [on : BOOLEAN, body : SUBSET VClaws]]
      BY <1>12, <1>t DEF PutTags, VolTypeOK, NoPut
    <3>4. sync' \in [VClaws -> {"idle", "sent", "stored"}]
      BY <1>12, <1>t DEF PutTags, VolTypeOK
    <3> QED  BY <1>12, <1>t, <2>0, <3>1, <3>2, <3>3, <3>4 DEF PutTags, VolTypeOK, VLeases
  <2>2. PlaceInv'  BY <1>12, <1>t DEF PutTags, NoPut, VolTypeOK, PlaceInv, VLeases
  <2>3. VersionInv'  BY <1>12, <1>t DEF PutTags, NoPut, VolTypeOK, VersionInv, VLeases
  <2>4. MountInv'  BY <1>12, <1>t DEF PutTags, NoPut, VolTypeOK, PlaceInv, VersionInv, MountInv, VLeases
  <2>5. PutInv'  BY <1>12, <1>t DEF PutTags, NoPut, VolTypeOK, PlaceInv, VersionInv, MountInv, PutInv, VLeases
  <2>6. WritersExclusive'  BY <1>12, <1>t DEF PutTags, NoPut, VolTypeOK, PlaceInv, WritersExclusive, VLeases, Held
  <2> QED  BY <2>1, <2>2, <2>3, <2>4, <2>5, <2>6 DEF VolInv
<1>13. ASSUME NEW c \in VClaws, SyncAcked(c), vmode' = vmode PROVE VolInv'
  <2>1. VolTypeOK'  BY <1>13, <1>t, <1>r DEF SyncAcked, VolTypeOK, PlaceInv, VLeases
  <2>2. PlaceInv'  BY <1>13, <1>t, <1>r DEF SyncAcked, VolTypeOK, PlaceInv, VLeases
  <2>3. VersionInv'  BY <1>13, <1>t, <1>r DEF SyncAcked, VolTypeOK, VersionInv, VLeases
  <2>4. MountInv'  BY <1>13, <1>t, <1>r DEF SyncAcked, VolTypeOK, PlaceInv, VersionInv, MountInv, VLeases
  <2>5. PutInv'  BY <1>13, <1>t, <1>r DEF SyncAcked, VolTypeOK, PlaceInv, VersionInv, MountInv, PutInv, VLeases
  <2>6. WritersExclusive'  BY <1>13, <1>t, <1>r DEF SyncAcked, VolTypeOK, PlaceInv, WritersExclusive, VLeases, Held
  <2> QED  BY <2>1, <2>2, <2>3, <2>4, <2>5, <2>6 DEF VolInv
<1>14. ASSUME NEW c \in VClaws, SyncFails(c), vmode' = vmode PROVE VolInv'
  <2>1. VolTypeOK'  BY <1>14, <1>t DEF SyncFails, VolTypeOK, PlaceInv, VLeases
  <2>2. PlaceInv'  BY <1>14, <1>t DEF SyncFails, VolTypeOK, PlaceInv, VLeases
  <2>3. VersionInv'  BY <1>14, <1>t DEF SyncFails, VolTypeOK, VersionInv, VLeases
  <2>4. MountInv'  BY <1>14, <1>t DEF SyncFails, VolTypeOK, PlaceInv, VersionInv, MountInv, VLeases
  <2>5. PutInv'  BY <1>14, <1>t DEF SyncFails, VolTypeOK, PlaceInv, VersionInv, MountInv, PutInv, VLeases
  <2>6. WritersExclusive'  BY <1>14, <1>t DEF SyncFails, VolTypeOK, PlaceInv, WritersExclusive, VLeases, Held
  <2> QED  BY <2>1, <2>2, <2>3, <2>4, <2>5, <2>6 DEF VolInv
<1> QED  BY <1>0, <1>1, <1>2, <1>3, <1>4, <1>5, <1>6, <1>7, <1>8, <1>9, <1>10, <1>11, <1>12, <1>13, <1>14 DEF VolNext

\* While the tag's manifest is read, an upload that moves it holds what it held.
LEMMA UploadsExtend ==
    ASSUME VolInv, [VolNext]_volVars, ref # 0, ~raced', ~partial'
    PROVE  body[ref] \subseteq body'[ref']
<1>t. VolTypeOK /\ VersionInv /\ PutInv
  BY DEF VolInv
<1>1. ASSUME NEW c \in VClaws, PutTags(c) PROVE body[ref] \subseteq body'[ref']
  <2>1. put[c].on /\ ~raced /\ ~partial
    BY <1>1 DEF PutTags
  <2>2. body[ref] \subseteq put[c].body
    BY <1>t, <2>1 DEF PutInv
  <2>3. ref' \in 1 .. MaxVersions /\ body' = [body EXCEPT ![ref'] = put[c].body]
    BY <1>1, <1>t, VolumeAssumption DEF PutTags, VolTypeOK
  <2> QED  BY <1>t, <2>2, <2>3 DEF VolTypeOK
<1>2. ASSUME UNCHANGED <<ref, body>> PROVE body[ref] \subseteq body'[ref']
  BY <1>2
<1>3. ASSUME NEW c \in VClaws, attachWorkflowVolumes(c) PROVE UNCHANGED <<ref, body>>
  BY <1>3 DEF attachWorkflowVolumes, resolveVolumeManifest
<1>4. ASSUME NEW c \in VClaws,
             \/ VConnect(c) \/ VDisconnect(c) \/ attachVolume(c)
             \/ extractTarGzip(c) \/ AgentWrites(c) \/ heartbeatWorkflowVolumeLeases(c)
             \/ LeaseExpires(c) \/ syncWorkflowVolumes(c) \/ VKill(c) \/ PutChecks(c)
             \/ SyncAcked(c) \/ SyncFails(c)
      PROVE UNCHANGED <<ref, body>>
  BY <1>4 DEF VConnect, VDisconnect, attachVolume, extractTarGzip, AgentWrites,
      heartbeatWorkflowVolumeLeases, LeaseExpires, syncWorkflowVolumes, VKill, PutChecks,
      SyncAcked, SyncFails
<1>5. CASE UNCHANGED volVars
  BY <1>5, <1>2 DEF volVars
<1> QED  BY <1>1, <1>2, <1>3, <1>4, <1>5 DEF VolNext

\* The invariant holds of every behaviour.
LEMMA VolHold == VolSpec => []VolInv
<1>1. VolInit => VolInv
  BY VolInitInv
<1>2. VolInv /\ [VolNext]_volVars => VolInv'
  BY VolStep
<1> QED  BY <1>1, <1>2, PTL DEF VolSpec

\* Whatever syncs, uploads and lease expiries race: two claws never hold a writer
\* lease of the volume together, and a new version of it loses nothing the last one
\* had, unless a listed race or a partial sync happened (volume leases and publish).
THEOREM LeasesProtectVolumes == VolSpec => VolumesSafe
<1>1. VolInv => WritersExclusive
  BY DEF VolInv
<1>2. VolInv /\ [VolNext]_volVars
      => [ref # 0 /\ ~raced' /\ ~partial' => body[ref] \subseteq body'[ref']]_volVars
  BY UploadsExtend
<1> QED  BY <1>1, <1>2, VolHold, PTL DEF VolSpec, VolumesSafe, StoredSurvives

--------------------------------------------------------------------------------
(***************************************************************************)
(* The stop comment. As long as the claw has stopped once, the delivery    *)
(* under way is the one that moved the marker from 1 to 2.                 *)
(***************************************************************************)
\* While the claw has stopped at most once: the only delivery holds the marker at 2.
ClaimInv ==
    /\ stops = 0 => delivering = {}
    /\ stops <= 1 => \A d, e \in delivering : d = e
    /\ stops <= 1 /\ delivering # {} => pending = 2

CommentInv == CommentTypeOK /\ ClaimInv

\* A dispatch adds a delivery of a stop that happened, and only while the marker is at 1.
LEMMA DispatchClaims ==
    ASSUME CommentInv, NEW k \in 1 .. stops, dispatchStopComment(k),
           UNCHANGED <<stops, comments, stopped, hubDied>>, dispatching' \in 0 .. stops
    PROVE  CommentInv'
<1> USE StopAssumption
<1>1. CASE pending = 1
  <2>1. /\ delivering' = delivering \cup {[stop |-> k, posted |-> FALSE]} /\ pending' = 2
        /\ [stop |-> k, posted |-> FALSE] \in [stop : 1 .. MaxStops, posted : BOOLEAN]
    BY <1>1 DEF dispatchStopComment, CommentInv, CommentTypeOK
  <2>2. stops \in Nat /\ stops # 0
    BY DEF CommentInv, CommentTypeOK
  <2>3. stops <= 1 => delivering = {}
    BY <1>1 DEF CommentInv, ClaimInv
  <2>4. CommentTypeOK'
    <3>1. delivering' \subseteq [stop : 1 .. MaxStops, posted : BOOLEAN]
      BY <2>1 DEF CommentInv, CommentTypeOK
    <3>2. pending' \in 0 .. 2 /\ (stops' = 0 => pending' = 0)
      BY <2>1, <2>2
    <3> QED  BY <3>1, <3>2 DEF CommentInv, CommentTypeOK
  <2>5. ClaimInv'
    BY <2>1, <2>2, <2>3 DEF ClaimInv
  <2> QED  BY <2>4, <2>5 DEF CommentInv
<1>2. CASE pending # 1
  BY <1>2 DEF dispatchStopComment, CommentInv, CommentTypeOK, ClaimInv
<1> QED  BY <1>1, <1>2

\* A delivery that posts, clears, retries or gives up leaves the marker consistent.
LEMMA DeliverySteps ==
    ASSUME CommentInv, NEW d \in delivering,
           Post(d) \/ DeliveryClears(d) \/ DeliveryRetries(d) \/ DeliveryGivesUp(d)
    PROVE  CommentInv'
<1> USE StopAssumption
<1>0. /\ d.stop \in 1 .. MaxStops /\ d.posted \in BOOLEAN /\ stops # 0
      /\ d \in [stop : 1 .. MaxStops, posted : BOOLEAN]
      /\ CommentTypeOK /\ ClaimInv
  BY DEF CommentInv, CommentTypeOK, ClaimInv
<1>1. CASE Post(d)
  <2>1. [d EXCEPT !.posted = TRUE] \in [stop : 1 .. MaxStops, posted : BOOLEAN]
    BY <1>0
  <2>2. CommentTypeOK'
    <3>1. comments[d.stop] \in 0 .. MaxPosts /\ comments[d.stop] < MaxPosts
      BY <1>0, <1>1 DEF CommentTypeOK, Post
    <3>2. comments[d.stop] + 1 \in 0 .. MaxPosts
      BY <3>1
    <3>3. comments' \in [1 .. MaxStops -> 0 .. MaxPosts]
      BY <1>0, <1>1, <3>2 DEF CommentTypeOK, Post
    <3>4. delivering' \subseteq [stop : 1 .. MaxStops, posted : BOOLEAN]
      BY <1>0, <1>1, <2>1 DEF CommentTypeOK, Post
    <3> QED  BY <1>0, <1>1, <3>3, <3>4 DEF CommentTypeOK, Post
  <2>3. stops <= 1 => delivering' = {[d EXCEPT !.posted = TRUE]}
    BY <1>0, <1>1 DEF ClaimInv, Post
  <2>4. ClaimInv'
    BY <1>0, <1>1, <2>3 DEF ClaimInv, Post
  <2> QED  BY <2>2, <2>4 DEF CommentInv
<1>2. CASE DeliveryClears(d) \/ DeliveryRetries(d) \/ DeliveryGivesUp(d)
  <2>1. /\ delivering' = delivering \ {d} /\ pending' \in 0 .. 2
        /\ UNCHANGED <<stopped, stops, dispatching, hubDied>>
        /\ comments' \in [1 .. MaxStops -> 0 .. MaxPosts]
    BY <1>0, <1>2 DEF DeliveryClears, DeliveryRetries, DeliveryGivesUp, CommentTypeOK
  <2>2. stops <= 1 => delivering' = {}
    BY <1>0, <2>1 DEF ClaimInv
  <2> QED  BY <1>0, <2>1, <2>2 DEF CommentInv, CommentTypeOK, ClaimInv
<1> QED  BY <1>1, <1>2

\* Every step of the stop comment keeps the invariant.
LEMMA CommentStep ==
    ASSUME CommentInv, [CommentNext]_commentVars
    PROVE  CommentInv'
<1> USE StopAssumption
<1>0. CommentTypeOK /\ ClaimInv
  BY DEF CommentInv
<1>1. CASE StopClaw
  <2>1. stops' = stops + 1 /\ stops' \in 1 .. MaxStops /\ delivering' = delivering
    BY <1>0, <1>1 DEF StopClaw, CommentTypeOK
  <2>2. stops' <= 1 => delivering' = {}
    BY <1>0, <2>1 DEF ClaimInv, CommentTypeOK
  <2>3. CommentTypeOK'
    BY <1>0, <1>1, <2>1 DEF StopClaw, CommentTypeOK
  <2>4. ClaimInv'
    BY <1>0, <2>1, <2>2 DEF ClaimInv, CommentTypeOK
  <2> QED  BY <2>3, <2>4 DEF CommentInv
<1>2. CASE RegisterAgain
  BY <1>0, <1>2 DEF RegisterAgain, CommentInv, CommentTypeOK, ClaimInv
<1>3. CASE StopDispatches
  <2>1. dispatching \in 1 .. stops /\ dispatching' \in 0 .. stops
    BY <1>0, <1>3 DEF StopDispatches, CommentTypeOK
  <2> QED  BY <1>3, <2>1, DispatchClaims DEF StopDispatches
<1>4. CASE ReaperRedrives
  <2>1. stops \in 1 .. stops /\ dispatching' \in 0 .. stops
    BY <1>0, <1>4 DEF ReaperRedrives, CommentTypeOK, Owed1
  <2> QED  BY <1>4, <2>1, DispatchClaims DEF ReaperRedrives
<1>5. CASE ReaperClears
  BY <1>0, <1>5 DEF ReaperClears, Owed1, CommentInv, CommentTypeOK, ClaimInv
<1>6. CASE HubDies
  BY <1>0, <1>6 DEF HubDies, CommentInv, CommentTypeOK, ClaimInv
<1>7. ASSUME NEW d \in delivering,
             Post(d) \/ DeliveryClears(d) \/ DeliveryRetries(d) \/ DeliveryGivesUp(d)
      PROVE  CommentInv'
  BY <1>7, DeliverySteps
<1>8. CASE UNCHANGED commentVars
  BY <1>0, <1>8 DEF commentVars, CommentInv, CommentTypeOK, ClaimInv
<1> QED  BY <1>1, <1>2, <1>3, <1>4, <1>5, <1>6, <1>7, <1>8 DEF CommentNext

\* The invariant holds of every behaviour.
LEMMA CommentHold == CommentSpec => []CommentInv
<1>1. CommentInit => CommentInv
  <2> SUFFICES ASSUME CommentInit PROVE CommentTypeOK /\ ClaimInv
    BY DEF CommentInv
  <2>1. CommentTypeOK
    <3>1. stopped \in BOOLEAN /\ hubDied \in BOOLEAN
      BY DEF CommentInit
    <3>2. comments \in [1 .. MaxStops -> 0 .. MaxPosts]
      BY StopAssumption DEF CommentInit
    <3> QED  BY <3>1, <3>2, StopAssumption DEF CommentInit, CommentTypeOK
  <2>2. ClaimInv  BY DEF CommentInit, ClaimInv
  <2> QED  BY <2>1, <2>2
<1>2. CommentInv /\ [CommentNext]_commentVars => CommentInv'
  BY CommentStep
<1> QED  BY <1>1, <1>2, PTL DEF CommentSpec

\* The comment that says a claw has stopped is under delivery once at a time while
\* the claw has stopped once: the marker in the claw row is claimed, not read.
THEOREM OneDeliveryAtATime == CommentSpec => []OneDelivery
<1>1. CommentInv => OneDelivery
  <2> SUFFICES ASSUME CommentInv, stops = 1 PROVE Cardinality(delivering) <= 1
    BY DEF OneDelivery
  <2>1. CASE delivering = {}
    BY <2>1, FS_EmptySet
  <2>2. CASE delivering # {}
    <3>1. PICK d : delivering = {d}
      BY <2>2 DEF CommentInv, ClaimInv
    <3>2. Cardinality({d}) = 1
      BY FS_Singleton
    <3> QED  BY <3>1, <3>2
  <2> QED  BY <2>1, <2>2
<1> QED  BY <1>1, CommentHold, PTL

--------------------------------------------------------------------------------
(***************************************************************************)
(* The usage limit. The number of releases of an episode is bounded by the *)
(* automatic ones and the clears of an operator.                           *)
(***************************************************************************)
\* What the record and the flags say of a release that has begun or is complete.
EpisodeInv ==
    /\ upheavals \in 0 .. MaxUpheavals /\ releases \in Nat
    /\ capped \in BOOLEAN /\ probing \in BOOLEAN /\ announced \in BOOLEAN /\ releasing \in BOOLEAN
    /\ confirming \in BOOLEAN /\ dbFailed \in BOOLEAN /\ staleFreed \in BOOLEAN
    /\ releasing => limit.st = "active"

\* A release beyond the automatic ones costs an operator's clear, so that the
\* retries of an episode are bounded, and those of a released one were paid for.
RetryInv ==
    /\ limit.retries <= MaxAutoRetries + upheavals
    /\ releasing \/ limit.st = "released" => limit.retries + 1 <= MaxAutoRetries + upheavals
    /\ limit.retries <= releases
    /\ limit.st = "released" => limit.retries + 1 <= releases

LimitInv == LimitTypeOK /\ EpisodeInv /\ RetryInv /\ CappedKeyParks /\ LiftIsPending

\* At the start there is no usage-limit record and nothing is parked.
LEMMA InitLimit == LimitInit => LimitInv
<1> SUFFICES ASSUME LimitInit PROVE LimitInv
  OBVIOUS
<1>1. LimitTypeOK  BY DEF LimitInit, LimitTypeOK, NoLimit, NoRecon
<1>2. EpisodeInv
  <2>1. upheavals \in 0 .. MaxUpheavals /\ releases \in Nat
    BY LimitAssumption DEF LimitInit
  <2> QED  BY <2>1 DEF LimitInit, EpisodeInv
<1>3. RetryInv  BY LimitAssumption DEF LimitInit, RetryInv, NoLimit
<1>4. CappedKeyParks /\ LiftIsPending  BY DEF LimitInit, CappedKeyParks, LiftIsPending, NoLimit
<1> QED  BY <1>1, <1>2, <1>3, <1>4 DEF LimitInv

\* The mirrors a claw loop sets are mirrors.
LEMMA MirroredType ==
    ASSUME LimitTypeOK, NEW S, NEW to \in {"free", "parked"}
    PROVE  /\ Mirrored(S, to) \in [LClaws -> {"off", "free", "parked"}]
           /\ \A c \in LClaws : Mirrored(S, to)[c] = IF c \in S /\ mirror[c] # "off" THEN to ELSE mirror[c]
  BY DEF Mirrored, LimitTypeOK

\* The steps of one claw, of its connection and of its turns.
ClawStep(c) ==
    \/ ConnectL(c) \/ seedLLMLimitForConnection(c) \/ DisconnectL(c) \/ DeleteL(c)
    \/ TurnBegins(c) \/ ProviderAnswers(c) \/ observeAuthoredTurnForLLMLimit(c)

\* What a claw and its turns do leaves the record and the release alone.
LEMMA ClawKeepsRecord ==
    ASSUME NEW c \in LClaws, ClawStep(c)
    PROVE  /\ UNCHANGED <<limit, ripe, capped, releasing, recon, confirming, releases, dbFailed, staleFreed>>
           /\ upheavals' = upheavals \/ Upheaval
           /\ \/ UNCHANGED <<probing, announced>>
              \/ probing' = FALSE /\ announced' = (announced \/ limit.st = "released")
  BY DEF ClawStep, ConnectL, seedLLMLimitForConnection, DisconnectL, DeleteL, TurnBegins,
       ProviderAnswers, observeAuthoredTurnForLLMLimit, Confirm

\* Connecting, disconnecting, asking and answering keep the invariant.
LEMMA ClawStepInv ==
    ASSUME LimitInv, NEW c \in LClaws, ClawStep(c)
    PROVE  LimitInv'
<1> USE LimitAssumption
<1>0. LimitTypeOK /\ EpisodeInv /\ RetryInv /\ CappedKeyParks /\ LiftIsPending
  BY DEF LimitInv
<1>1. /\ UNCHANGED <<limit, ripe, capped, releasing, recon, confirming, releases, dbFailed, staleFreed>>
      /\ upheavals' = upheavals \/ Upheaval
      /\ \/ UNCHANGED <<probing, announced>>
         \/ probing' = FALSE /\ announced' = (announced \/ limit.st = "released")
  BY ClawKeepsRecord
<1>2. upheavals' \in 0 .. MaxUpheavals /\ upheavals <= upheavals'
  BY <1>0, <1>1 DEF Upheaval, EpisodeInv
<1>3. EpisodeInv'
  BY <1>0, <1>1, <1>2 DEF EpisodeInv
<1>4. RetryInv'
  BY <1>0, <1>1, <1>2 DEF RetryInv, EpisodeInv, LimitTypeOK
<1>5. LiftIsPending'
  BY <1>0, <1>1 DEF LiftIsPending, EpisodeInv
<1>6. LimitTypeOK'
  <2>1. /\ mirror' \in [LClaws -> {"off", "free", "parked"}]
        /\ asking' \in [LClaws -> {"none", "asking", "rejected", "authored"}]
        /\ parked' \subseteq LClaws /\ deletedL' \subseteq LClaws /\ seeding' \subseteq LClaws
    BY <1>0 DEF ClawStep, ConnectL, seedLLMLimitForConnection, DisconnectL, DeleteL, TurnBegins,
                ProviderAnswers, observeAuthoredTurnForLLMLimit, LimitTypeOK
  <2>2. limit.st = "none" => ~probing'
    BY <1>0, <1>1 DEF LimitTypeOK
  <2> QED  BY <1>0, <1>1, <2>1, <2>2 DEF LimitTypeOK
<1>7. CappedKeyParks'
  <2>1. \A d \in LClaws : mirror'[d] = "free" /\ d \notin deletedL' \cup seeding'
                          => \/ mirror[d] = "free" /\ d \notin deletedL \cup seeding
                             \/ limit.st # "active"
    BY <1>0 DEF ClawStep, ConnectL, seedLLMLimitForConnection, DisconnectL, DeleteL, TurnBegins,
                ProviderAnswers, observeAuthoredTurnForLLMLimit, LimitTypeOK
  <2> QED  BY <1>0, <1>1, <2>1 DEF CappedKeyParks, OnKey, LimitMuFree
<1> QED  BY <1>3, <1>4, <1>5, <1>6, <1>7 DEF LimitInv

\* A capped answer opens or reopens the record and keeps the invariant.
LEMMA HandleInv ==
    ASSUME LimitInv, NEW c \in LClaws, handleLLMUsageLimit(c)
    PROVE  LimitInv'
<1> USE LimitAssumption
<1>0. LimitTypeOK /\ EpisodeInv /\ RetryInv /\ CappedKeyParks /\ LiftIsPending
  BY DEF LimitInv
<1>1. /\ limit' \in [st : {"none", "active", "released"}, retries : Nat] /\ limit'.st = "active"
      /\ limit'.retries = IF limit.st = "released" THEN limit.retries + 1 ELSE limit.retries
  BY <1>0 DEF handleLLMUsageLimit, CapAgain, LimitTypeOK
<1>2. /\ mirror' \in [LClaws -> {"off", "free", "parked"}]
      /\ \A d \in OnKey : mirror'[d] # "free"
  BY <1>0, MirroredType DEF handleLLMUsageLimit, OnKey
<1>3. LimitTypeOK'
  BY <1>0, <1>1, <1>2 DEF handleLLMUsageLimit, LimitTypeOK, OnKey
<1>4. EpisodeInv'
  BY <1>0, <1>1 DEF handleLLMUsageLimit, EpisodeInv, LimitMuFree
<1>5. RetryInv'
  BY <1>0, <1>1 DEF handleLLMUsageLimit, RetryInv, EpisodeInv, LimitMuFree, LimitTypeOK
<1>6. CappedKeyParks' /\ LiftIsPending'
  BY <1>1, <1>2 DEF handleLLMUsageLimit, CappedKeyParks, LiftIsPending, OnKey
<1> QED  BY <1>3, <1>4, <1>5, <1>6 DEF LimitInv

\* A release that begins, at the reset time or by an operator, keeps the invariant.
LEMMA ReleaseInv ==
    ASSUME LimitInv, releaseDueLLMUsageLimits \/ OperatorClears
    PROVE  LimitInv'
<1> USE LimitAssumption
<1>0. LimitTypeOK /\ EpisodeInv /\ RetryInv /\ CappedKeyParks /\ LiftIsPending
  BY DEF LimitInv
<1>1. /\ limit.st = "active" /\ releasing' = TRUE /\ parked' \subseteq LClaws
      /\ confirming' \in BOOLEAN
      /\ UNCHANGED <<seeding, limit, ripe, deletedL, asking, capped, probing, announced, recon,
                     releases, dbFailed, staleFreed>>
      /\ mirror' = Mirrored(OnKey, "free")
  BY <1>0 DEF releaseDueLLMUsageLimits, OperatorClears, ReleaseClaws, LimitTypeOK, EpisodeInv
<1>2. /\ upheavals' \in 0 .. MaxUpheavals
      /\ limit.retries + 1 <= MaxAutoRetries + upheavals'
  BY <1>0 DEF releaseDueLLMUsageLimits, OperatorClears, Exhausted, Upheaval, EpisodeInv, RetryInv, LimitTypeOK
<1>3. mirror' \in [LClaws -> {"off", "free", "parked"}]
  BY <1>0, <1>1, MirroredType
<1>4. LimitTypeOK'
  BY <1>0, <1>1, <1>3 DEF LimitTypeOK
<1>5. EpisodeInv'
  BY <1>0, <1>1, <1>2 DEF EpisodeInv
<1>6. RetryInv'
  BY <1>0, <1>1, <1>2 DEF RetryInv, LimitTypeOK, EpisodeInv
<1>7. CappedKeyParks' /\ LiftIsPending'
  BY <1>0, <1>1 DEF CappedKeyParks, LiftIsPending, LimitMuFree
<1> QED  BY <1>4, <1>5, <1>6, <1>7 DEF LimitInv

\* The release that completes and the prune of an old record keep the invariant.
LEMMA RecordMovesInv ==
    ASSUME LimitInv, ReleaseRecord \/ Prune
    PROVE  LimitInv'
<1> USE LimitAssumption
<1>0. LimitTypeOK /\ EpisodeInv /\ RetryInv /\ CappedKeyParks /\ LiftIsPending
  BY DEF LimitInv
<1>1. CASE ReleaseRecord
  <2>1. /\ limit' \in [st : {"none", "active", "released"}, retries : Nat] /\ limit'.st = "released"
        /\ limit'.retries = limit.retries
    BY <1>0, <1>1 DEF ReleaseRecord, LimitTypeOK
  <2>2. releases' \in Nat /\ limit.retries + 1 <= releases'
    BY <1>0, <1>1 DEF ReleaseRecord, LimitTypeOK, EpisodeInv, RetryInv
  <2>3. LimitTypeOK'  BY <1>0, <1>1, <2>1 DEF ReleaseRecord, LimitTypeOK
  <2>4. EpisodeInv'  BY <1>0, <1>1, <2>1, <2>2 DEF ReleaseRecord, EpisodeInv
  <2>5. RetryInv'  BY <1>0, <1>1, <2>1, <2>2 DEF ReleaseRecord, RetryInv, LimitTypeOK, EpisodeInv
  <2>6. CappedKeyParks' /\ LiftIsPending'
    BY <1>1, <2>1 DEF ReleaseRecord, CappedKeyParks, LiftIsPending
  <2> QED  BY <2>3, <2>4, <2>5, <2>6 DEF LimitInv
<1>2. CASE Prune
  <2>1. limit'.st = "none" /\ limit'.retries = 0 /\ releases' = 0 /\ ~probing'
        /\ limit' \in [st : {"none", "active", "released"}, retries : Nat]
    BY <1>2 DEF Prune, NoLimit, Prunable
  <2>3. LimitTypeOK'  BY <1>0, <1>2, <2>1 DEF Prune, LimitTypeOK
  <2>4. EpisodeInv'  BY <1>0, <1>2, <2>1 DEF Prune, EpisodeInv, LimitMuFree
  <2>5. RetryInv'  BY <1>0, <1>2, <2>1 DEF Prune, RetryInv, EpisodeInv, LimitMuFree
  <2>6. CappedKeyParks' /\ LiftIsPending'
    BY <2>1 DEF CappedKeyParks, LiftIsPending
  <2> QED  BY <2>3, <2>4, <2>5, <2>6 DEF LimitInv
<1> QED  BY <1>1, <1>2

\* Every step of the usage limit keeps the invariant.
LEMMA LimitStep ==
    ASSUME LimitInv, [LimitNext]_limitVars
    PROVE  LimitInv'
<1> USE LimitAssumption
<1>0. LimitTypeOK /\ EpisodeInv /\ RetryInv /\ CappedKeyParks /\ LiftIsPending
  BY DEF LimitInv
<1>1. CASE CapToggles \/ TimePasses
  <2>1. /\ UNCHANGED <<seeding, limit, parked, deletedL, mirror, asking, probing, announced, releasing,
                       recon, confirming, releases, dbFailed, staleFreed>>
        /\ ripe' \in BOOLEAN /\ capped' \in BOOLEAN
        /\ upheavals' \in 0 .. MaxUpheavals /\ upheavals <= upheavals'
    <3>1. CASE CapToggles
      BY <1>0, <3>1 DEF CapToggles, Upheaval, EpisodeInv, LimitTypeOK
    <3>2. CASE TimePasses
      BY <1>0, <3>2 DEF TimePasses, EpisodeInv, LimitTypeOK
    <3> QED  BY <1>1, <3>1, <3>2
  <2>2. LimitTypeOK'  BY <1>0, <2>1 DEF LimitTypeOK
  <2>3. EpisodeInv'  BY <1>0, <2>1 DEF EpisodeInv
  <2>4. RetryInv'  BY <1>0, <2>1 DEF RetryInv, EpisodeInv, LimitTypeOK
  <2>5. CappedKeyParks' /\ LiftIsPending'
    BY <1>0, <2>1 DEF CappedKeyParks, LiftIsPending, OnKey, LimitMuFree
  <2> QED  BY <2>2, <2>3, <2>4, <2>5 DEF LimitInv
<1>2. CASE ReconReads \/ ReconLists \/ \E c \in LClaws : ReconFrees(c)
  <2>1. /\ UNCHANGED <<seeding, limit, ripe, deletedL, asking, capped, probing, announced, releasing,
                       confirming, upheavals, releases, dbFailed>>
        /\ parked' \subseteq LClaws
        /\ recon'.pc \in {"idle", "list", "free"} /\ recon'.orphans \subseteq LClaws
        /\ \/ UNCHANGED <<mirror, staleFreed>>
           \/ /\ mirror' \in [LClaws -> {"off", "free", "parked"}]
              /\ staleFreed' = (staleFreed \/ limit.st = "active")
    <3>1. CASE ReconReads
      BY <1>0, <3>1 DEF ReconReads, LimitTypeOK
    <3>2. CASE ReconLists
      BY <1>0, <3>2 DEF ReconLists, NoRecon, LimitTypeOK
    <3>3. CASE \E c \in LClaws : ReconFrees(c)
      BY <1>0, <3>3, MirroredType DEF ReconFrees, NoRecon, LimitTypeOK
    <3> QED  BY <1>2, <3>1, <3>2, <3>3
  <2>2. LimitTypeOK'  BY <1>0, <2>1 DEF LimitTypeOK
  <2>3. EpisodeInv'  BY <1>0, <2>1 DEF EpisodeInv
  <2>4. RetryInv'  BY <1>0, <2>1 DEF RetryInv, EpisodeInv, LimitTypeOK
  <2>5. CappedKeyParks'
    <3>1. CASE UNCHANGED <<mirror, staleFreed>>
      BY <1>0, <2>1, <3>1 DEF CappedKeyParks, OnKey, LimitMuFree
    <3>2. CASE staleFreed' = (staleFreed \/ limit.st = "active")
      BY <2>1, <3>2 DEF CappedKeyParks
    <3> QED  BY <2>1, <3>1, <3>2
  <2>6. LiftIsPending'
    BY <1>0, <2>1 DEF LiftIsPending
  <2> QED  BY <2>2, <2>3, <2>4, <2>5, <2>6 DEF LimitInv
<1>3. CASE ReleaseFails \/ OperatorConfirms \/ \E c \in LClaws : StoreFails(c)
  <2>1. /\ UNCHANGED <<seeding, limit, ripe, parked, deletedL, mirror, capped, recon, releases, staleFreed>>
        /\ asking' \in [LClaws -> {"none", "asking", "rejected", "authored"}]
        /\ upheavals' \in 0 .. MaxUpheavals /\ upheavals <= upheavals'
        /\ probing' \in BOOLEAN /\ announced' \in BOOLEAN /\ confirming' \in BOOLEAN
        /\ releasing' \in BOOLEAN /\ dbFailed' \in BOOLEAN
    <3>1. CASE ReleaseFails
      <4>1. upheavals' \in 0 .. MaxUpheavals /\ upheavals <= upheavals'
        BY <1>0, <3>1 DEF ReleaseFails, Upheaval, EpisodeInv
      <4> QED  BY <1>0, <3>1, <4>1 DEF ReleaseFails, EpisodeInv, LimitTypeOK
    <3>2. CASE OperatorConfirms
      <4>1. announced' \in BOOLEAN /\ probing' \in BOOLEAN
        BY <1>0, <3>2 DEF OperatorConfirms, Confirm, EpisodeInv
      <4>2. upheavals' \in 0 .. MaxUpheavals /\ upheavals <= upheavals'
        BY <1>0, <3>2 DEF OperatorConfirms, EpisodeInv
      <4> QED  BY <1>0, <3>2, <4>1, <4>2 DEF OperatorConfirms, EpisodeInv, LimitTypeOK
    <3>3. ASSUME NEW c \in LClaws, StoreFails(c)
          PROVE  /\ UNCHANGED <<seeding, limit, ripe, parked, deletedL, mirror, capped, recon, releases, staleFreed>>
                 /\ asking' \in [LClaws -> {"none", "asking", "rejected", "authored"}]
                 /\ upheavals' \in 0 .. MaxUpheavals /\ upheavals <= upheavals'
                 /\ probing' \in BOOLEAN /\ announced' \in BOOLEAN /\ confirming' \in BOOLEAN
                 /\ releasing' \in BOOLEAN /\ dbFailed' \in BOOLEAN
      <4>1. upheavals' \in 0 .. MaxUpheavals /\ upheavals <= upheavals'
        BY <1>0, <3>3 DEF StoreFails, Upheaval, EpisodeInv
      <4>2. asking' \in [LClaws -> {"none", "asking", "rejected", "authored"}]
        BY <1>0, <3>3 DEF StoreFails, LimitTypeOK
      <4> QED  BY <1>0, <3>3, <4>1, <4>2 DEF StoreFails, EpisodeInv
    <3> QED  BY <1>3, <3>1, <3>2, <3>3
  <2>2. /\ releasing' => releasing
        /\ (probing' = FALSE \/ probing' = probing)
        /\ (dbFailed' \/ dbFailed' = dbFailed)
        /\ dbFailed' \/ releasing' = releasing
        /\ dbFailed' \/ announced' \/ limit.st # "released" \/ probing' = probing
        /\ announced => announced'
    BY <1>0, <1>3 DEF ReleaseFails, OperatorConfirms, StoreFails, Confirm, EpisodeInv
  <2>3. LimitTypeOK'  BY <1>0, <2>1, <2>2 DEF LimitTypeOK
  <2>4. EpisodeInv'  BY <1>0, <2>1, <2>2 DEF EpisodeInv
  <2>5. RetryInv'  BY <1>0, <2>1, <2>2 DEF RetryInv, EpisodeInv, LimitTypeOK
  <2>6. CappedKeyParks'
    BY <1>0, <2>1, <2>2 DEF CappedKeyParks, OnKey, LimitMuFree
  <2>7. LiftIsPending'
    BY <1>0, <2>1, <2>2 DEF LiftIsPending
  <2> QED  BY <2>3, <2>4, <2>5, <2>6, <2>7 DEF LimitInv
<1>4. CASE LimitRestart
  <2>1. /\ mirror' = [c \in LClaws |-> "off"] /\ asking' = [c \in LClaws |-> "none"]
        /\ seeding' = {} /\ releasing' = FALSE /\ confirming' = FALSE
        /\ probing' = (limit.st = "released" /\ ~announced)
        /\ recon'.pc = "idle" /\ recon'.orphans = {}
        /\ upheavals' \in 0 .. MaxUpheavals /\ upheavals <= upheavals'
        /\ UNCHANGED <<limit, ripe, parked, deletedL, capped, announced, releases, dbFailed, staleFreed>>
    BY <1>0, <1>4 DEF LimitRestart, Seeded, NoRecon, Upheaval, EpisodeInv
  <2>2. LimitTypeOK'  BY <1>0, <2>1 DEF LimitTypeOK
  <2>3. EpisodeInv'  BY <1>0, <2>1 DEF EpisodeInv
  <2>4. RetryInv'  BY <1>0, <2>1 DEF RetryInv, EpisodeInv, LimitTypeOK
  <2>5. CappedKeyParks' /\ LiftIsPending'
    BY <1>0, <2>1 DEF CappedKeyParks, LiftIsPending, OnKey
  <2> QED  BY <2>2, <2>3, <2>4, <2>5 DEF LimitInv
<1>5. ASSUME NEW c \in LClaws, ClawStep(c) PROVE LimitInv'
  BY <1>5, ClawStepInv
<1>6. ASSUME NEW c \in LClaws, handleLLMUsageLimit(c) PROVE LimitInv'
  BY <1>6, HandleInv
<1>7. CASE releaseDueLLMUsageLimits \/ OperatorClears
  BY <1>7, ReleaseInv
<1>8. CASE ReleaseRecord \/ Prune
  BY <1>8, RecordMovesInv
<1>9. CASE UNCHANGED limitVars
  BY <1>0, <1>9 DEF limitVars, LimitInv, LimitTypeOK, EpisodeInv, RetryInv, CappedKeyParks,
                    LiftIsPending, OnKey, LimitMuFree
<1> QED  BY <1>1, <1>2, <1>3, <1>4, <1>5, <1>6, <1>7, <1>8, <1>9
         DEF LimitNext, SchedulerTicks, ClawStep

\* The invariant holds of every behaviour.
LEMMA LimitHold == LimitSpec => []LimitInv
<1>1. LimitInit => LimitInv
  BY InitLimit
<1>2. LimitInv /\ [LimitNext]_limitVars => LimitInv'
  BY LimitStep
<1> QED  BY <1>1, <1>2, PTL DEF LimitSpec

\* The record of a capped key: whoever asks is parked while the key is capped, a
\* lift is pending while somebody is parked, and the automatic retries of an episode
\* are spent once each, an operator clear paying for every further one.
THEOREM LimitRecord == LimitSpec => []LimitRecordHolds
<1>1. LimitInv => LimitRecordHolds
  BY DEF LimitInv, LimitRecordHolds, RetryInv, RetriesSpentOnce
<1> QED  BY <1>1, LimitHold, PTL

--------------------------------------------------------------------------------
(***************************************************************************)
(* The slots of cron runs. A run that is under way holds the slot this     *)
(* process gave it; of the goroutines that end a v2 run only the one that  *)
(* took the marker gives it back; the counter is at least the number of    *)
(* slots held.                                                             *)
(***************************************************************************)
RunRecord ==
    [pc : {"none", "admitted", "recorded", "created", "linked", "failing", "failed", "started"},
     db : {"none", "active", "done"}, row : {"none", "running", "failed", "finished"},
     linked : BOOLEAN, claw : {"none", "up", "ended"}, released : BOOLEAN,
     tracked : BOOLEAN, mine : BOOLEAN, held : BOOLEAN]
HookRecord == [run : CronRuns \cup {0}, pc : {"none", "cancel", "load", "mark", "dec", "claw"}]
CronRecords ==
    /\ gen \in {"v1", "v2"} /\ policy \in {"skip", "parallel"} /\ job \in {"skip", "parallel"}
    /\ slots \in Nat /\ robbed \in BOOLEAN
    /\ crun \in [CronRuns -> RunRecord] /\ hook \in [Hooks -> HookRecord]

\* Where a run c of the scheduler g must still have the slot it took.
HasSlot(c, g) ==
    /\ c.held = TRUE => c.mine = TRUE
    /\ c.tracked = TRUE => g = "v1" /\ c.pc = "started" /\ c.held = TRUE
    /\ c.released = TRUE => c.db = "done"
    /\ c.pc \in {"admitted", "recorded", "created", "linked", "failing"} => c.mine = TRUE
    /\ c.pc = "none" => c.db = "none" /\ c.claw = "none" /\ c.mine = FALSE
    /\ c.pc \in {"admitted", "recorded"} => c.held = TRUE /\ c.db = "none" /\ c.claw = "none"
    /\ g = "v1" => c.db = "none"
    /\ g = "v1" /\ c.pc \in {"created", "linked", "failing"} => c.held = TRUE
    /\ g = "v1" /\ c.pc = "failing" => c.claw = "none"
    /\ g = "v1" /\ c.claw = "up" /\ c.mine = TRUE => c.held = TRUE
    /\ g = "v2" /\ c.pc \in {"created", "linked"} => c.db # "none"
    /\ g = "v2" /\ c.pc = "failing" /\ c.db = "none" => c.held = TRUE
    /\ g = "v2" /\ c.mine = TRUE /\ c.db # "none" /\ c.released = FALSE => c.held = TRUE
SlotInv == \A r \in CronRuns : HasSlot(crun[r], gen)

\* A goroutine k past the end of its run c; the one that holds the marker gives
\* the slot back, and no other does.
Finishes(k, c) ==
    /\ k.pc # "none" => gen = "v2" /\ k.run \in CronRuns
    /\ k.pc \in {"mark", "dec", "claw"} => c.db = "done"
    /\ k.pc = "dec" => c.released = TRUE /\ (c.mine = TRUE => c.held = TRUE)
HookInv ==
    /\ \A h \in Hooks : Finishes(hook[h], crun[hook[h].run])
    /\ \A h, k \in Hooks :
         hook[h].pc = "dec" /\ hook[k].pc = "dec" /\ hook[h].run = hook[k].run => h = k

HeldRuns == {r \in CronRuns : crun[r].held = TRUE}
MineRuns == {r \in CronRuns : crun[r].mine = TRUE}
CounterInv ==
    /\ slots <= Cardinality(MineRuns)
    /\ robbed = FALSE => Cardinality(HeldRuns) <= slots

CronInv == CronRecords /\ SlotInv /\ HookInv /\ CounterInv

\* The runs that hold a slot and those of this process are finitely many.
LEMMA RunSets == IsFiniteSet(HeldRuns) /\ IsFiniteSet(MineRuns)
                 /\ Cardinality(HeldRuns) \in Nat /\ Cardinality(MineRuns) \in Nat
<1>1. HeldRuns \subseteq CronRuns /\ MineRuns \subseteq CronRuns
  BY DEF HeldRuns, MineRuns
<1>2. IsFiniteSet(CronRuns)
  BY CronAssumption
<1>3. IsFiniteSet(HeldRuns) /\ IsFiniteSet(MineRuns)
  BY <1>1, <1>2, FS_Subset
<1> QED  BY <1>3, FS_CardinalityType

\* A run that changes to a record that fits leaves the others as they were.
LEMMA RunChanges ==
    ASSUME CronRecords, SlotInv, gen' = gen, NEW r \in CronRuns, NEW x \in RunRecord,
           HasSlot(x, gen), crun' = [crun EXCEPT ![r] = x]
    PROVE  /\ crun' \in [CronRuns -> RunRecord] /\ SlotInv'
           /\ crun'[r] = x /\ \A q \in CronRuns \ {r} : crun'[q] = crun[q]
<1>1. crun' \in [CronRuns -> RunRecord] /\ crun'[r] = x
  BY DEF CronRecords
<1>2. \A q \in CronRuns \ {r} : crun'[q] = crun[q]
  BY DEF CronRecords
<1>3. ASSUME NEW q \in CronRuns  PROVE HasSlot(crun'[q], gen')
  <2>1. CASE q = r
    BY <2>1, <1>1
  <2>2. CASE q # r
    <3>1. crun'[q] = crun[q]  BY <2>2, <1>2
    <3> QED  BY <3>1 DEF SlotInv
  <2> QED  BY <2>1, <2>2
<1> QED  BY <1>1, <1>2, <1>3 DEF SlotInv

\* The counter covers the slots as long as neither moves.
LEMMA CounterKept ==
    ASSUME CronRecords, CounterInv, slots' = slots, robbed' = robbed,
           \A q \in CronRuns : crun'[q].held = crun[q].held /\ crun'[q].mine = crun[q].mine
    PROVE  CounterInv'
<1>1. HeldRuns' = HeldRuns  BY DEF HeldRuns
<1>2. MineRuns' = MineRuns  BY DEF MineRuns
<1> QED  BY <1>1, <1>2 DEF CounterInv

\* A decrement on behalf of a run that has its slot takes that slot and no other.
LEMMA CounterGiven ==
    ASSUME CronRecords, CounterInv, NEW r \in CronRuns, GivesBack(r),
           crun[r].mine = TRUE => crun[r].held = TRUE,
           crun'[r].held = FALSE, crun'[r].mine = crun[r].mine,
           \A q \in CronRuns \ {r} : crun'[q] = crun[q]
    PROVE  slots' \in Nat /\ robbed' \in BOOLEAN /\ CounterInv'
<1>1. slots' \in Nat /\ slots' <= slots /\ (slots # 0 => slots' = slots - 1)
  BY DEF CronRecords, GivesBack, Decremented
<1>2. robbed' = (robbed \/ ~crun[r].mine) /\ crun[r].mine \in BOOLEAN /\ robbed \in BOOLEAN
  BY DEF GivesBack, CronRecords, RunRecord
<1>3. robbed' \in BOOLEAN /\ (robbed' = FALSE => robbed = FALSE /\ crun[r].mine = TRUE)
  BY <1>2
<1>4. MineRuns' = MineRuns
  BY DEF MineRuns
<1>5. slots' <= Cardinality(MineRuns)
  BY <1>1, RunSets DEF CounterInv, CronRecords
<1>6. ASSUME robbed' = FALSE  PROVE Cardinality(HeldRuns') <= slots'
  <2>1. robbed = FALSE /\ crun[r].held = TRUE
    BY <1>3, <1>6
  <2>2. HeldRuns' = HeldRuns \ {r} /\ r \in HeldRuns
    BY <2>1 DEF HeldRuns
  <2>3. Cardinality(HeldRuns \ {r}) = Cardinality(HeldRuns) - 1
    BY <2>2, RunSets, FS_RemoveElement
  <2>4. Cardinality(HeldRuns) <= slots /\ Cardinality(HeldRuns) \in Nat /\ slots \in Nat
    BY <2>1, RunSets DEF CounterInv, CronRecords
  <2>5. Cardinality(HeldRuns') \in Nat
    BY <2>2, RunSets, FS_RemoveElement, FS_CardinalityType
  <2>6. slots # 0
    BY <2>2, <2>3, <2>4, <2>5
  <2> QED  BY <1>1, <2>2, <2>3, <2>4, <2>6
<1> QED  BY <1>1, <1>3, <1>4, <1>5, <1>6 DEF CounterInv

\* A change of a run that has not ended, or that changes nothing a finishing
\* goroutine relies on, leaves the goroutines right.
LEMMA HooksStillFinish ==
    ASSUME CronRecords, HookInv, NEW r \in CronRuns,
           crun[r].db = "done" => /\ crun'[r].db = "done" /\ crun'[r].mine = crun[r].mine
                                  /\ crun'[r].held = crun[r].held
                                  /\ crun[r].released = TRUE => crun'[r].released = TRUE,
           \A q \in CronRuns \ {r} : crun'[q] = crun[q]
    PROVE  \A h \in Hooks : Finishes(hook[h], crun'[hook[h].run])
<1>1. TAKE h \in Hooks
<1>2. Finishes(hook[h], crun[hook[h].run]) /\ hook[h] \in HookRecord
  BY DEF HookInv, CronRecords
<1>3. CASE hook[h].run = r
  BY <1>2, <1>3 DEF Finishes
<1>4. CASE hook[h].run \in CronRuns \ {r}
  BY <1>2, <1>4 DEF Finishes
<1>5. CASE hook[h].run \notin CronRuns
  <2>1. hook[h].pc = "none"
    BY <1>2, <1>5 DEF Finishes
  <2> QED  BY <2>1 DEF Finishes
<1> QED  BY <1>3, <1>4, <1>5

\* ... and so the goroutines keep their invariant when none of them moves.
LEMMA HooksKept ==
    ASSUME HookInv, gen' = gen, hook' = hook,
           \A h \in Hooks : Finishes(hook[h], crun'[hook[h].run])
    PROVE  HookInv'
  BY DEF HookInv, Finishes

\* One goroutine moves: only one at a time is about to give the slot of a run back.
LEMMA HookMoves ==
    ASSUME CronRecords, HookInv, gen' = gen, NEW h \in Hooks, NEW k \in HookRecord,
           hook' = [hook EXCEPT ![h] = k], Finishes(k, crun'[k.run]),
           \A j \in Hooks \ {h} : Finishes(hook[j], crun'[hook[j].run]),
           k.pc = "dec" => \A j \in Hooks \ {h} : hook[j].pc = "dec" => hook[j].run # k.run
    PROVE  hook' \in [Hooks -> HookRecord] /\ HookInv'
<1>1. hook' \in [Hooks -> HookRecord] /\ hook'[h] = k
      /\ \A j \in Hooks \ {h} : hook'[j] = hook[j]
  BY DEF CronRecords
<1>2. ASSUME NEW j \in Hooks  PROVE Finishes(hook[j], crun[hook[j].run])'
  <2>1. CASE j = h
    BY <2>1, <1>1 DEF Finishes
  <2>2. CASE j # h
    <3>1. hook'[j] = hook[j] /\ Finishes(hook[j], crun'[hook[j].run])
      BY <2>2, <1>1
    <3> QED  BY <3>1 DEF Finishes
  <2> QED  BY <2>1, <2>2
<1>3. ASSUME NEW i \in Hooks, NEW j \in Hooks, hook'[i].pc = "dec", hook'[j].pc = "dec",
             hook'[i].run = hook'[j].run
      PROVE  i = j
  <2>1. CASE i = h /\ j # h
    BY <2>1, <1>1, <1>3
  <2>2. CASE i # h /\ j = h
    BY <2>2, <1>1, <1>3
  <2>3. CASE i # h /\ j # h
    BY <2>3, <1>1, <1>3 DEF HookInv
  <2> QED  BY <2>1, <2>2, <2>3
<1>4. \A j \in Hooks : Finishes(hook[j], crun[hook[j].run])'
  BY <1>2
<1> QED  BY <1>1, <1>3, <1>4 DEF HookInv

\* A step of one run that keeps its slot as it is.
LEMMA RunMoves ==
    ASSUME CronInv, gen' = gen, NEW r \in CronRuns, NEW x \in RunRecord, HasSlot(x, gen),
           crun' = [crun EXCEPT ![r] = x], slots' = slots, robbed' = robbed,
           x.mine = crun[r].mine, x.held = crun[r].held,
           crun[r].db = "done" => x.db = "done", crun[r].released = TRUE => x.released = TRUE
    PROVE  /\ crun' \in [CronRuns -> RunRecord] /\ SlotInv' /\ CounterInv'
           /\ crun'[r] = x /\ \A h \in Hooks : Finishes(hook[h], crun'[hook[h].run])
<1>1. /\ crun' \in [CronRuns -> RunRecord] /\ SlotInv'
      /\ crun'[r] = x /\ \A q \in CronRuns \ {r} : crun'[q] = crun[q]
  BY RunChanges DEF CronInv
<1>2. \A q \in CronRuns : crun'[q].held = crun[q].held /\ crun'[q].mine = crun[q].mine
  BY <1>1
<1>3. CounterInv'
  BY <1>2, CounterKept DEF CronInv
<1>4. crun[r].db = "done" => /\ crun'[r].db = "done" /\ crun'[r].mine = crun[r].mine
                             /\ crun'[r].held = crun[r].held
                             /\ crun[r].released = TRUE => crun'[r].released = TRUE
  BY <1>1
<1>5. \A h \in Hooks : Finishes(hook[h], crun'[hook[h].run])
  BY <1>1, <1>4, HooksStillFinish DEF CronInv
<1> QED  BY <1>1, <1>3, <1>5

\* ... with no goroutine moving.
LEMMA RunMovesAlone ==
    ASSUME CronInv, Quiet, NEW r \in CronRuns, NEW x \in RunRecord, HasSlot(x, gen),
           crun' = [crun EXCEPT ![r] = x], slots' = slots, robbed' = robbed, hook' = hook,
           x.mine = crun[r].mine, x.held = crun[r].held,
           crun[r].db = "done" => x.db = "done", crun[r].released = TRUE => x.released = TRUE
    PROVE  CronInv'
<1>0. gen' = gen  BY DEF Quiet
<1>1. /\ crun' \in [CronRuns -> RunRecord] /\ SlotInv' /\ CounterInv'
      /\ \A h \in Hooks : Finishes(hook[h], crun'[hook[h].run])
  BY <1>0, RunMoves
<1>2. HookInv'
  BY <1>0, <1>1, HooksKept DEF CronInv
<1>3. CronRecords'
  BY <1>1 DEF CronInv, CronRecords, Quiet
<1> QED  BY <1>1, <1>2, <1>3 DEF CronInv

\* ... and a goroutine moving with it; the marker is taken by the first only.
LEMMA RunMovesWithHook ==
    ASSUME CronInv, Quiet, NEW r \in CronRuns, NEW x \in RunRecord, HasSlot(x, gen),
           crun' = [crun EXCEPT ![r] = x], slots' = slots, robbed' = robbed,
           x.mine = crun[r].mine, x.held = crun[r].held,
           crun[r].db = "done" => x.db = "done", crun[r].released = TRUE => x.released = TRUE,
           NEW h \in Hooks, NEW k \in HookRecord, hook' = [hook EXCEPT ![h] = k],
           k.pc = "none" \/ (k.run = r /\ Finishes(k, x)),
           k.pc = "dec" => crun[r].released = FALSE
    PROVE  CronInv'
<1>0. gen' = gen  BY DEF Quiet
<1>1. /\ crun' \in [CronRuns -> RunRecord] /\ SlotInv' /\ CounterInv'
      /\ crun'[r] = x /\ \A j \in Hooks : Finishes(hook[j], crun'[hook[j].run])
  BY <1>0, RunMoves
<1>2. Finishes(k, crun'[k.run])
  <2>1. CASE k.pc = "none"
    BY <2>1 DEF Finishes
  <2>2. CASE k.run = r /\ Finishes(k, x)
    BY <2>2, <1>1
  <2> QED  BY <2>1, <2>2
<1>3. ASSUME k.pc = "dec", NEW j \in Hooks \ {h}, hook[j].pc = "dec", hook[j].run = k.run
      PROVE  FALSE
  <2>1. k.run = r /\ crun[r].released = FALSE
    BY <1>3
  <2>2. Finishes(hook[j], crun[hook[j].run])
    BY DEF CronInv, HookInv
  <2>3. crun[hook[j].run].released = TRUE
    BY <1>3, <2>2 DEF Finishes
  <2> QED  BY <1>3, <2>1, <2>3
<1>4. hook' \in [Hooks -> HookRecord] /\ HookInv'
  BY <1>0, <1>1, <1>2, <1>3, HookMoves DEF CronInv
<1>5. CronRecords'
  BY <1>1, <1>4 DEF CronInv, CronRecords, Quiet
<1> QED  BY <1>1, <1>4, <1>5 DEF CronInv

\* A step of one run that gives its slot back.
LEMMA RunGives ==
    ASSUME CronInv, Quiet, NEW r \in CronRuns, NEW x \in RunRecord, HasSlot(x, gen),
           crun' = [crun EXCEPT ![r] = x], GivesBack(r),
           x.mine = crun[r].mine, x.held = FALSE, crun[r].mine = TRUE => crun[r].held = TRUE
    PROVE  /\ crun' \in [CronRuns -> RunRecord] /\ SlotInv' /\ CounterInv'
           /\ slots' \in Nat /\ robbed' \in BOOLEAN
           /\ crun'[r] = x /\ \A q \in CronRuns \ {r} : crun'[q] = crun[q]
<1>0. gen' = gen  BY DEF Quiet
<1>1. /\ crun' \in [CronRuns -> RunRecord] /\ SlotInv'
      /\ crun'[r] = x /\ \A q \in CronRuns \ {r} : crun'[q] = crun[q]
  BY <1>0, RunChanges DEF CronInv
<1>2. crun'[r].held = FALSE /\ crun'[r].mine = crun[r].mine
  BY <1>1
<1>3. slots' \in Nat /\ robbed' \in BOOLEAN /\ CounterInv'
  BY <1>1, <1>2, CounterGiven DEF CronInv
<1> QED  BY <1>1, <1>3

\* ... on a path where no v2 run has ended, so no goroutine gives it back too.
LEMMA RunGivesAlone ==
    ASSUME CronInv, Quiet, NEW r \in CronRuns, NEW x \in RunRecord, HasSlot(x, gen),
           crun' = [crun EXCEPT ![r] = x], GivesBack(r), hook' = hook, crun[r].db # "done",
           x.mine = crun[r].mine, x.held = FALSE, crun[r].mine = TRUE => crun[r].held = TRUE
    PROVE  CronInv'
<1>0. gen' = gen  BY DEF Quiet
<1>1. /\ crun' \in [CronRuns -> RunRecord] /\ SlotInv' /\ CounterInv'
      /\ slots' \in Nat /\ robbed' \in BOOLEAN
      /\ \A q \in CronRuns \ {r} : crun'[q] = crun[q]
  BY RunGives
<1>2. \A h \in Hooks : Finishes(hook[h], crun'[hook[h].run])
  BY <1>1, HooksStillFinish DEF CronInv
<1>3. HookInv'
  BY <1>0, <1>2, HooksKept DEF CronInv
<1>4. CronRecords'
  BY <1>1 DEF CronInv, CronRecords, Quiet
<1> QED  BY <1>1, <1>3, <1>4 DEF CronInv

\* What a record of the table is, and what the invariant says of it.
LEMMA RunIs ==
    ASSUME CronInv, NEW r \in CronRuns
    PROVE  crun[r] \in RunRecord /\ HasSlot(crun[r], gen) /\ gen \in {"v1", "v2"}
  BY DEF CronInv, CronRecords, SlotInv

\* The steps of runWorkflow that go well keep the slot.
LEMMA StartSteps ==
    ASSUME CronInv, NEW r \in CronRuns,
           RecordCronRunStarted(r) \/ createClaw(r) \/ CreateClawFails(r) \/ LinkRow(r)
             \/ Started(r) \/ EventEnds(r)
    PROVE  CronInv'
<1> DEFINE c == crun[r]
<1>0. c \in RunRecord /\ HasSlot(c, gen) /\ gen \in {"v1", "v2"}
  BY RunIs
<1>1. CASE RecordCronRunStarted(r)
  <2> DEFINE x == [c EXCEPT !.pc = "recorded", !.row = "running"]
  <2>1. c.pc = "admitted" /\ crun' = [crun EXCEPT ![r] = x]
    BY <1>1 DEF RecordCronRunStarted, Step
  <2>2. x \in RunRecord /\ HasSlot(x, gen) /\ x.mine = c.mine /\ x.held = c.held
        /\ x.db = c.db /\ x.released = c.released
    BY <1>0, <2>1 DEF RunRecord, HasSlot
  <2>3. slots' = slots /\ robbed' = robbed /\ hook' = hook /\ Quiet
    BY <1>1 DEF RecordCronRunStarted
  <2> HIDE DEF x
  <2> QED  BY <2>1, <2>2, <2>3, RunMovesAlone
<1>2. CASE createClaw(r)
  <2>0. PICK d \in {"active", "none"} : d = IF gen = "v2" THEN "active" ELSE "none"
    OBVIOUS
  <2> DEFINE x == [c EXCEPT !.pc = "created", !.claw = "up", !.db = d]
  <2>1. c.pc = "recorded" /\ crun' = [crun EXCEPT ![r] = x]
    BY <1>2, <2>0 DEF createClaw, Step
  <2>2. x \in RunRecord /\ HasSlot(x, gen) /\ x.mine = c.mine /\ x.held = c.held
        /\ c.db = "none" /\ x.released = c.released
    BY <1>0, <2>0, <2>1 DEF RunRecord, HasSlot
  <2>3. slots' = slots /\ robbed' = robbed /\ hook' = hook /\ Quiet
    BY <1>2 DEF createClaw
  <2> HIDE DEF x
  <2> QED  BY <2>1, <2>2, <2>3, RunMovesAlone
<1>3. CASE CreateClawFails(r)
  <2> DEFINE x == [c EXCEPT !.pc = "failing"]
  <2>1. c.pc = "recorded" /\ crun' = [crun EXCEPT ![r] = x]
    BY <1>3 DEF CreateClawFails, Step
  <2>2. x \in RunRecord /\ HasSlot(x, gen) /\ x.mine = c.mine /\ x.held = c.held
        /\ x.db = c.db /\ x.released = c.released
    BY <1>0, <2>1 DEF RunRecord, HasSlot
  <2>3. slots' = slots /\ robbed' = robbed /\ hook' = hook /\ Quiet
    BY <1>3 DEF CreateClawFails
  <2> HIDE DEF x
  <2> QED  BY <2>1, <2>2, <2>3, RunMovesAlone
<1>4. CASE LinkRow(r)
  <2>0. PICK w \in {"none", "running", "failed", "finished"} :
               w = IF gen = "v1" THEN "running" ELSE c.row
    BY <1>0 DEF RunRecord
  <2> DEFINE x == [c EXCEPT !.pc = "linked", !.linked = TRUE, !.row = w]
  <2>1. c.pc = "created" /\ crun' = [crun EXCEPT ![r] = x]
    BY <1>4, <2>0 DEF LinkRow, Step
  <2>2. x \in RunRecord /\ HasSlot(x, gen) /\ x.mine = c.mine /\ x.held = c.held
        /\ x.db = c.db /\ x.released = c.released
    BY <1>0, <2>0, <2>1 DEF RunRecord, HasSlot
  <2>3. slots' = slots /\ robbed' = robbed /\ hook' = hook /\ Quiet
    BY <1>4 DEF LinkRow
  <2> HIDE DEF x
  <2> QED  BY <2>1, <2>2, <2>3, RunMovesAlone
<1>5. CASE Started(r)
  <2>0. PICK b \in BOOLEAN : b = (gen = "v1")
    OBVIOUS
  <2> DEFINE x == [c EXCEPT !.pc = "started", !.tracked = b]
  <2>1. c.pc = "linked" /\ crun' = [crun EXCEPT ![r] = x]
    BY <1>5, <2>0 DEF Started, Step
  <2>2. x \in RunRecord /\ HasSlot(x, gen) /\ x.mine = c.mine /\ x.held = c.held
        /\ x.db = c.db /\ x.released = c.released
    BY <1>0, <2>0, <2>1 DEF RunRecord, HasSlot
  <2>3. slots' = slots /\ robbed' = robbed /\ hook' = hook /\ Quiet
    BY <1>5 DEF Started
  <2> HIDE DEF x
  <2> QED  BY <2>1, <2>2, <2>3, RunMovesAlone
<1>6. CASE EventEnds(r)
  <2> DEFINE x == [c EXCEPT !.db = "done"]
  <2>1. c.pc = "started" /\ c.db = "active" /\ crun' = [crun EXCEPT ![r] = x]
    BY <1>6 DEF EventEnds
  <2>2. x \in RunRecord /\ HasSlot(x, gen) /\ x.mine = c.mine /\ x.held = c.held
        /\ x.db = "done" /\ x.released = c.released
    BY <1>0, <2>1 DEF RunRecord, HasSlot
  <2>3. slots' = slots /\ robbed' = robbed /\ hook' = hook /\ Quiet
    BY <1>6 DEF EventEnds
  <2> HIDE DEF x
  <2> QED  BY <2>1, <2>2, <2>3, RunMovesAlone
<1> QED  BY <1>1, <1>2, <1>3, <1>4, <1>5, <1>6

\* A start that fails gives the slot back once, and only if no v2 run exists.
LEMMA FailSteps ==
    ASSUME CronInv, NEW r \in CronRuns, RecordFails(r) \/ FailCronRun(r)
    PROVE  CronInv'
<1> DEFINE c == crun[r]
<1>0. c \in RunRecord /\ HasSlot(c, gen) /\ gen \in {"v1", "v2"}
  BY RunIs
<1>1. CASE RecordFails(r)
  <2> DEFINE x == [c EXCEPT !.pc = "failed", !.held = FALSE]
  <2>1. c.pc = "admitted" /\ gen = "v2" /\ crun' = [crun EXCEPT ![r] = x]
    BY <1>1 DEF RecordFails, Step
  <2>2. x \in RunRecord /\ HasSlot(x, gen) /\ x.mine = c.mine /\ x.held = FALSE
        /\ c.db = "none" /\ c.held = TRUE
    BY <1>0, <2>1 DEF RunRecord, HasSlot
  <2>3. GivesBack(r) /\ hook' = hook /\ Quiet
    BY <1>1 DEF RecordFails
  <2> HIDE DEF x
  <2> QED  BY <2>1, <2>2, <2>3, RunGivesAlone
<1>2. CASE FailCronRun(r)
  <2>0. PICK w \in {"none", "running", "failed", "finished"} :
               w = IF c.row = "running" THEN "failed" ELSE c.row
    BY <1>0 DEF RunRecord
  <2>1. CASE c.db = "none"
    <3> DEFINE x == [c EXCEPT !.pc = "failed", !.row = w, !.held = FALSE]
    <3>1. c.pc = "failing" /\ crun' = [crun EXCEPT ![r] = x]
      BY <1>2, <2>0, <2>1 DEF FailCronRun, Step
    <3>2. x \in RunRecord /\ HasSlot(x, gen) /\ x.mine = c.mine /\ x.held = FALSE
          /\ c.held = TRUE
      BY <1>0, <2>0, <2>1, <3>1 DEF RunRecord, HasSlot
    <3>3. GivesBack(r) /\ hook' = hook /\ Quiet
      BY <1>2, <2>1 DEF FailCronRun
    <3> HIDE DEF x
    <3> QED  BY <2>1, <3>1, <3>2, <3>3, RunGivesAlone
  <2>2. CASE c.db # "none"
    <3> DEFINE x == [c EXCEPT !.pc = "failed", !.row = w]
    <3>1. c.pc = "failing" /\ crun' = [crun EXCEPT ![r] = x]
      BY <1>0, <1>2, <2>0, <2>2 DEF FailCronRun, Step, RunRecord
    <3>2. x \in RunRecord /\ HasSlot(x, gen) /\ x.mine = c.mine /\ x.held = c.held
          /\ x.db = c.db /\ x.released = c.released
      BY <1>0, <2>0, <2>2, <3>1 DEF RunRecord, HasSlot
    <3>3. slots' = slots /\ robbed' = robbed /\ hook' = hook /\ Quiet
      BY <1>2, <2>2 DEF FailCronRun
    <3> HIDE DEF x
    <3> QED  BY <3>1, <3>2, <3>3, RunMovesAlone
  <2> QED  BY <2>1, <2>2
<1> QED  BY <1>1, <1>2

\* A failed link or activation, an envelope and a timeout start a goroutine.
LEMMA HookedSteps ==
    ASSUME CronInv, NEW r \in CronRuns, NEW h \in Hooks,
           LinkFails(r, h) \/ ActivationFails(r, h) \/ Envelope(r, h) \/ RunTimesOut(r, h)
    PROVE  CronInv'
<1> DEFINE c == crun[r]
<1>0. c \in RunRecord /\ HasSlot(c, gen) /\ gen \in {"v1", "v2"}
  BY RunIs
<1>1. CASE LinkFails(r, h)
  <2> DEFINE x == [c EXCEPT !.pc = "failing", !.claw = "ended"]
             k == [run |-> r, pc |-> "cancel"]
  <2>1. c.pc = "created" /\ gen = "v2" /\ crun' = [crun EXCEPT ![r] = x]
        /\ hook' = [hook EXCEPT ![h] = k]
    BY <1>1 DEF LinkFails, Step
  <2>2. x \in RunRecord /\ HasSlot(x, gen) /\ x.mine = c.mine /\ x.held = c.held
        /\ x.db = c.db /\ x.released = c.released
    BY <1>0, <2>1 DEF RunRecord, HasSlot
  <2>3. k \in HookRecord /\ k.run = r /\ k.pc = "cancel" /\ Finishes(k, x)
    BY <2>1 DEF HookRecord, Finishes
  <2>4. slots' = slots /\ robbed' = robbed /\ Quiet
    BY <1>1 DEF LinkFails
  <2> HIDE DEF x, k
  <2> QED  BY <2>1, <2>2, <2>3, <2>4, RunMovesWithHook
<1>2. CASE ActivationFails(r, h)
  <2> DEFINE x == [c EXCEPT !.pc = "failing", !.db = "done"]
             k == [run |-> r, pc |-> "mark"]
  <2>1. c.pc = "linked" /\ gen = "v2" /\ hook' = [hook EXCEPT ![h] = k]
    BY <1>2 DEF ActivationFails, Step
  <2>2. c.db \in {"active", "done"}
    BY <1>0, <2>1 DEF HasSlot, RunRecord
  <2>3. crun' = [crun EXCEPT ![r] = [c EXCEPT !.pc = "failing",
                                        !.db = IF @ = "active" THEN "done" ELSE @]]
    BY <1>2 DEF ActivationFails, Step
  <2>4. (IF c.db = "active" THEN "done" ELSE c.db) = "done"
    BY <2>2
  <2>5. crun' = [crun EXCEPT ![r] = x]
    BY <2>3, <2>4
  <2>6. x \in RunRecord /\ HasSlot(x, gen) /\ x.mine = c.mine /\ x.held = c.held
        /\ x.db = "done" /\ x.released = c.released
    BY <1>0, <2>1, <2>2 DEF RunRecord, HasSlot
  <2>7. k \in HookRecord /\ k.run = r /\ k.pc = "mark" /\ Finishes(k, x)
    BY <2>1, <2>6 DEF HookRecord, Finishes
  <2>8. slots' = slots /\ robbed' = robbed /\ Quiet
    BY <1>2 DEF ActivationFails
  <2> HIDE DEF x, k
  <2> QED  BY <2>1, <2>5, <2>6, <2>7, <2>8, RunMovesWithHook
<1>3. CASE Envelope(r, h)
  <2>0. PICK s \in {c.db, "done"} : crun' = [crun EXCEPT ![r].db = s]
    BY <1>3 DEF Envelope
  <2> DEFINE x == [c EXCEPT !.db = s]
             k == [run |-> r, pc |-> "load"]
  <2>1. c.pc = "started" /\ c.db # "none" /\ gen = "v2"
    BY <1>0, <1>3 DEF Envelope, HasSlot
  <2>2. crun' = [crun EXCEPT ![r] = x] /\ hook' = [hook EXCEPT ![h] = k]
    BY <1>3, <2>0 DEF Envelope
  <2>3. x \in RunRecord /\ HasSlot(x, gen) /\ x.mine = c.mine /\ x.held = c.held
        /\ (c.db = "done" => x.db = "done") /\ x.released = c.released
    BY <1>0, <2>0, <2>1 DEF RunRecord, HasSlot
  <2>4. k \in HookRecord /\ k.run = r /\ k.pc = "load" /\ Finishes(k, x)
    BY <2>1 DEF HookRecord, Finishes
  <2>5. slots' = slots /\ robbed' = robbed /\ Quiet
    BY <1>3 DEF Envelope
  <2> HIDE DEF x, k
  <2> QED  BY <2>2, <2>3, <2>4, <2>5, RunMovesWithHook
<1>4. CASE RunTimesOut(r, h)
  <2> DEFINE x == [c EXCEPT !.db = "done"]
             k == [run |-> r, pc |-> "load"]
  <2>1. c.pc \in {"started", "failed"} /\ c.db = "active" /\ gen = "v2"
    BY <1>0, <1>4 DEF RunTimesOut, HasSlot
  <2>2. crun' = [crun EXCEPT ![r] = x] /\ hook' = [hook EXCEPT ![h] = k]
    BY <1>4 DEF RunTimesOut
  <2>3. x \in RunRecord /\ HasSlot(x, gen) /\ x.mine = c.mine /\ x.held = c.held
        /\ x.db = "done" /\ x.released = c.released
    BY <1>0, <2>1 DEF RunRecord, HasSlot
  <2>4. k \in HookRecord /\ k.run = r /\ k.pc = "load" /\ Finishes(k, x)
    BY <2>1 DEF HookRecord, Finishes
  <2>5. slots' = slots /\ robbed' = robbed /\ Quiet
    BY <1>4 DEF RunTimesOut
  <2> HIDE DEF x, k
  <2> QED  BY <2>2, <2>3, <2>4, <2>5, RunMovesWithHook
<1> QED  BY <1>1, <1>2, <1>3, <1>4

\* The end of a claw gives a v1 slot back if the claw is in clawWorkflow.
LEMMA ClawEndsStep ==
    ASSUME CronInv, NEW r \in CronRuns, NEW h \in Hooks, ClawEnds(r, h)
    PROVE  CronInv'
<1> DEFINE c == crun[r]
<1>0. c \in RunRecord /\ HasSlot(c, gen) /\ gen \in {"v1", "v2"} /\ c.claw = "up" /\ Quiet
  BY RunIs DEF ClawEnds
<1>1. CASE gen = "v2"
  <2> DEFINE x == [c EXCEPT !.claw = "ended"]
             k == [run |-> r, pc |-> "cancel"]
  <2>1. crun' = [crun EXCEPT ![r] = x] /\ hook' = [hook EXCEPT ![h] = k]
        /\ slots' = slots /\ robbed' = robbed
    BY <1>1 DEF ClawEnds
  <2>2. x \in RunRecord /\ HasSlot(x, gen) /\ x.mine = c.mine /\ x.held = c.held
        /\ x.db = c.db /\ x.released = c.released
    BY <1>0, <1>1 DEF RunRecord, HasSlot
  <2>3. k \in HookRecord /\ k.run = r /\ k.pc = "cancel" /\ Finishes(k, x)
    BY <1>1 DEF HookRecord, Finishes
  <2> HIDE DEF x, k
  <2> QED  BY <1>0, <2>1, <2>2, <2>3, RunMovesWithHook
<1>2. CASE gen = "v1"
  <2>0. PICK w \in {"none", "running", "failed", "finished"} :
               w = IF c.linked /\ c.row = "running" THEN "finished" ELSE c.row
    BY <1>0 DEF RunRecord
  <2>1. hook' = hook /\ c.db = "none"
    BY <1>0, <1>2 DEF ClawEnds, HasSlot
  <2>5. PICK b \in BOOLEAN : b = (c.held /\ ~c.tracked)
    OBVIOUS
  <2>6. crun' = [crun EXCEPT ![r] =
                  [c EXCEPT !.claw = "ended", !.tracked = FALSE, !.row = w, !.held = b]]
    <3>1. crun' = [crun EXCEPT ![r] =
                [c EXCEPT !.claw = "ended", !.tracked = FALSE,
                          !.row = IF c.linked /\ @ = "running" THEN "finished" ELSE @,
                          !.held = @ /\ ~c.tracked]]
      BY <1>0, <1>2 DEF ClawEnds
    <3>2. (IF c.linked /\ c.row = "running" THEN "finished" ELSE c.row) = w
      BY <2>0
    <3>3. (c.held /\ ~c.tracked) = b
      BY <2>5
    <3>4. [c EXCEPT !.claw = "ended", !.tracked = FALSE,
                    !.row = IF c.linked /\ @ = "running" THEN "finished" ELSE @,
                    !.held = @ /\ ~c.tracked]
            = [c EXCEPT !.claw = "ended", !.tracked = FALSE, !.row = w, !.held = b]
      BY <3>2, <3>3
    <3> QED  BY <3>1, <3>4
  <2>2. CASE c.tracked = TRUE
    <3> DEFINE x == [c EXCEPT !.claw = "ended", !.tracked = FALSE, !.row = w, !.held = FALSE]
    <3>0. b = FALSE
      BY <2>2, <2>5
    <3>1. crun' = [crun EXCEPT ![r] = x] /\ GivesBack(r)
      BY <1>0, <1>2, <2>2, <2>6, <3>0 DEF ClawEnds
    <3>2. x \in RunRecord /\ HasSlot(x, gen) /\ x.mine = c.mine /\ x.held = FALSE
          /\ c.held = TRUE
      BY <1>0, <1>2, <2>0, <2>2 DEF RunRecord, HasSlot
    <3> HIDE DEF x
    <3> QED  BY <1>0, <2>1, <3>1, <3>2, RunGivesAlone
  <2>3. CASE c.tracked = FALSE
    <3> DEFINE x == [c EXCEPT !.claw = "ended", !.tracked = FALSE, !.row = w, !.held = b]
    <3>0. c.held \in BOOLEAN /\ b = c.held
      BY <1>0, <2>3, <2>5 DEF RunRecord
    <3>1. crun' = [crun EXCEPT ![r] = x] /\ slots' = slots /\ robbed' = robbed
      BY <1>0, <1>2, <2>3, <2>6, <3>0 DEF ClawEnds
    <3>3. c.pc \in {"created", "linked", "failed", "started"}
      BY <1>0, <1>2 DEF RunRecord, HasSlot
    <3>4. x \in RunRecord
      BY <1>0, <2>0 DEF RunRecord
    <3>5. /\ x.pc = c.pc /\ x.db = c.db /\ x.claw = "ended" /\ x.released = c.released
          /\ x.tracked = FALSE /\ x.mine = c.mine /\ x.held = c.held
      BY <1>0, <3>0 DEF RunRecord
    <3>6. HasSlot(x, gen)
      BY <1>0, <1>2, <3>3, <3>5 DEF HasSlot
    <3> HIDE DEF x
    <3> QED  BY <1>0, <2>1, <3>1, <3>4, <3>5, <3>6, RunMovesAlone
  <2>4. c.tracked \in BOOLEAN
    BY <1>0 DEF RunRecord
  <2> QED  BY <2>2, <2>3, <2>4
<1> QED  BY <1>0, <1>1, <1>2

\* A v2 run that is done is past its start and not tracked by its claw.
LEMMA EndedRun ==
    ASSUME NEW c \in RunRecord, HasSlot(c, "v2"), c.db = "done"
    PROVE  c.pc \notin {"none", "admitted", "recorded"} /\ c.tracked # TRUE
<1>1. c.pc # "none"
  BY DEF HasSlot
<1>2. c.pc \notin {"admitted", "recorded"}
  BY DEF HasSlot
<1>3. c.tracked # TRUE
  BY DEF HasSlot
<1> QED  BY <1>1, <1>2, <1>3

\* A goroutine that has nothing more to do.
LEMMA RunMovesHookEnds ==
    ASSUME CronInv, Quiet, NEW r \in CronRuns, NEW x \in RunRecord, HasSlot(x, gen),
           crun' = [crun EXCEPT ![r] = x], slots' = slots, robbed' = robbed,
           x.mine = crun[r].mine, x.held = crun[r].held,
           crun[r].db = "done" => x.db = "done", crun[r].released = TRUE => x.released = TRUE,
           NEW h \in Hooks, hook' = [hook EXCEPT ![h] = Idle]
    PROVE  CronInv'
<1>0. Idle \in HookRecord /\ Idle.pc = "none"
  BY DEF Idle, HookRecord
<1>1. PICK k \in HookRecord : k = Idle /\ k.pc = "none"
  BY <1>0
<1>2. hook' = [hook EXCEPT ![h] = k]
  BY <1>1
<1>3. k.pc = "none" /\ k.pc # "dec"
  BY <1>1
<1>4. k.pc = "none" \/ (k.run = r /\ Finishes(k, x))
  BY <1>3
<1>5. k.pc = "dec" => crun[r].released = FALSE
  BY <1>3
<1> QED  BY <1>2, <1>4, <1>5, RunMovesWithHook, Zenon

\* The goroutine that ends a v2 run: cancel, load, mark, end the claw.
LEMMA HookSteps ==
    ASSUME CronInv, NEW h \in Hooks,
           HookCancels(h) \/ HookLoads(h) \/ HookMarks(h) \/ HookEndsClaw(h)
    PROVE  CronInv'
<1> DEFINE r == hook[h].run
           c == crun[r]
<1>1. hook[h] \in HookRecord /\ Finishes(hook[h], c) /\ hook[h].pc # "none"
  BY DEF CronInv, CronRecords, HookInv, HookCancels, HookLoads, HookMarks, HookEndsClaw, HookStep
<1>2. r \in CronRuns /\ gen = "v2"
  BY <1>1 DEF Finishes
<1>3. c \in RunRecord /\ HasSlot(c, gen)
  BY <1>2, RunIs
<1>5. crun = [crun EXCEPT ![r] = c]
  BY DEF CronInv, CronRecords
<1>6. CASE HookCancels(h)
  <2>1. CASE c.db = "active"
    <3> DEFINE x == [c EXCEPT !.db = "done"]
               k == [hook[h] EXCEPT !.pc = "load"]
    <3>1. crun' = [crun EXCEPT ![r] = x] /\ hook' = [hook EXCEPT ![h] = k]
          /\ slots' = slots /\ robbed' = robbed /\ Quiet
      BY <1>6, <2>1 DEF HookCancels, HookStep
    <3>2. x \in RunRecord /\ HasSlot(x, gen) /\ x.mine = c.mine /\ x.held = c.held
          /\ x.db = "done" /\ x.released = c.released
      BY <1>2, <1>3, <2>1 DEF RunRecord, HasSlot
    <3>3. k \in HookRecord /\ k.run = r /\ k.pc = "load" /\ Finishes(k, x)
      BY <1>1, <1>2 DEF HookRecord, Finishes
    <3> HIDE DEF x, k
    <3> QED  BY <1>2, <3>1, <3>2, <3>3, RunMovesWithHook
  <2>2. CASE c.db # "active"
    <3>1. crun' = crun /\ hook' = [hook EXCEPT ![h] = Idle]
          /\ slots' = slots /\ robbed' = robbed /\ Quiet
      BY <1>6, <2>2 DEF HookCancels, HookStep
    <3>2. crun' = [crun EXCEPT ![r] = c]
      BY <1>5, <3>1
    <3> QED  BY <1>2, <1>3, <3>1, <3>2, RunMovesHookEnds
  <2> QED  BY <2>1, <2>2
<1>7. CASE HookLoads(h)
  <2>1. CASE c.db = "done"
    <3>0. PICK w \in {"none", "running", "failed", "finished"} :
                 w = IF c.linked /\ c.row = "running" THEN "finished" ELSE c.row
      BY <1>3 DEF RunRecord
    <3> DEFINE x == [c EXCEPT !.row = w]
               k == [hook[h] EXCEPT !.pc = "mark"]
    <3>1. crun' = [crun EXCEPT ![r] = x] /\ hook' = [hook EXCEPT ![h] = k]
          /\ slots' = slots /\ robbed' = robbed /\ Quiet
      BY <1>3, <1>7, <2>1, <3>0 DEF HookLoads, HookStep
    <3>2. x \in RunRecord /\ HasSlot(x, gen) /\ x.mine = c.mine /\ x.held = c.held
          /\ x.db = "done" /\ x.released = c.released
      BY <1>2, <1>3, <2>1, <3>0 DEF RunRecord, HasSlot
    <3>3. k \in HookRecord /\ k.run = r /\ k.pc = "mark" /\ Finishes(k, x)
      BY <1>1, <1>2, <3>2 DEF HookRecord, Finishes
    <3> HIDE DEF x, k
    <3> QED  BY <1>2, <3>1, <3>2, <3>3, RunMovesWithHook
  <2>2. CASE c.db # "done"
    <3>1. crun' = crun /\ hook' = [hook EXCEPT ![h] = Idle]
          /\ slots' = slots /\ robbed' = robbed /\ Quiet
      BY <1>7, <2>2 DEF HookLoads, HookStep
    <3>2. crun' = [crun EXCEPT ![r] = c]
      BY <1>5, <3>1
    <3> QED  BY <1>2, <1>3, <3>1, <3>2, RunMovesHookEnds
  <2> QED  BY <2>1, <2>2
<1>8. CASE HookMarks(h)
  <2>0. c.db = "done"
    BY <1>1, <1>8 DEF HookMarks, HookStep, Finishes
  <2>1. PICK to \in {"claw", "dec"} : to = IF c.released THEN "claw" ELSE "dec"
    OBVIOUS
  <2>2. to = "dec" => c.released = FALSE
    BY <1>3, <2>1 DEF RunRecord
  <2> DEFINE x == [c EXCEPT !.released = TRUE]
             k == [hook[h] EXCEPT !.pc = to]
  <2>3. crun' = [crun EXCEPT ![r] = x] /\ slots' = slots /\ robbed' = robbed /\ Quiet
    BY <1>8 DEF HookMarks, HookStep
  <2>4. hook' = [hook EXCEPT ![h] = k]
    BY <1>8, <2>1 DEF HookMarks, HookStep
  <2>5. x \in RunRecord /\ HasSlot(x, gen) /\ x.mine = c.mine /\ x.held = c.held
        /\ x.db = "done" /\ x.released = TRUE
    <3>1. c.pc \notin {"none", "admitted", "recorded"} /\ c.tracked # TRUE
      BY <1>2, <1>3, <2>0, EndedRun
    <3>2. /\ x \in RunRecord /\ x.pc = c.pc /\ x.db = c.db /\ x.released = TRUE
          /\ x.tracked = c.tracked /\ x.mine = c.mine /\ x.held = c.held
      BY <1>3 DEF RunRecord
    <3> HIDE DEF x
    <3> QED  BY <1>2, <1>3, <2>0, <3>1, <3>2 DEF HasSlot
  <2>6. to = "dec" => (c.mine = TRUE => c.held = TRUE)
    BY <1>2, <1>3, <2>0, <2>2 DEF HasSlot
  <2>7. k \in HookRecord /\ k.run = r /\ k.pc = to
    BY <1>1 DEF HookRecord
  <2>8. Finishes(k, x)
    BY <1>2, <2>5, <2>6, <2>7 DEF Finishes
  <2> HIDE DEF x, k
  <2> QED  BY <1>2, <2>2, <2>3, <2>4, <2>5, <2>7, <2>8, RunMovesWithHook
<1>9. CASE HookEndsClaw(h)
  <2>0. c.db = "done"
    BY <1>1, <1>9 DEF HookEndsClaw, HookStep, Finishes
  <2> DEFINE x == [c EXCEPT !.claw = "ended"]
  <2>1. crun' = [crun EXCEPT ![r] = x] /\ slots' = slots /\ robbed' = robbed /\ Quiet
        /\ hook' = [hook EXCEPT ![h] = Idle]
    BY <1>9 DEF HookEndsClaw, HookStep
  <2>2. x \in RunRecord /\ HasSlot(x, gen) /\ x.mine = c.mine /\ x.held = c.held
        /\ x.db = "done" /\ x.released = c.released
    BY <1>2, <1>3, <2>0 DEF RunRecord, HasSlot
  <2> HIDE DEF x
  <2> QED  BY <1>2, <2>1, <2>2, RunMovesHookEnds
<1> QED  BY <1>6, <1>7, <1>8, <1>9

\* The goroutine that took the marker gives the slot back; no other does.
LEMMA DecrementStep ==
    ASSUME CronInv, NEW h \in Hooks, HookDecrements(h)
    PROVE  CronInv'
<1> DEFINE r == hook[h].run
           c == crun[r]
           x == [c EXCEPT !.held = FALSE]
           k == [hook[h] EXCEPT !.pc = "claw"]
<1>1. hook[h] \in HookRecord /\ Finishes(hook[h], c) /\ hook[h].pc = "dec"
  BY DEF CronInv, CronRecords, HookInv, HookDecrements, HookStep
<1>2. /\ r \in CronRuns /\ gen = "v2" /\ c.db = "done"
      /\ c.released = TRUE /\ (c.mine = TRUE => c.held = TRUE)
  BY <1>1 DEF Finishes
<1>3. c \in RunRecord /\ HasSlot(c, gen)
  BY <1>2, RunIs
<1>4. crun' = [crun EXCEPT ![r] = x] /\ GivesBack(r) /\ Quiet
      /\ hook' = [hook EXCEPT ![h] = k]
  BY DEF HookDecrements, HookStep
<1>5. x \in RunRecord /\ HasSlot(x, gen) /\ x.mine = c.mine /\ x.held = FALSE /\ x.db = "done"
  <2>1. c.pc \notin {"none", "admitted", "recorded"} /\ c.tracked # TRUE
    BY <1>2, <1>3, EndedRun
  <2>2. /\ x \in RunRecord /\ x.pc = c.pc /\ x.db = c.db /\ x.released = c.released
        /\ x.tracked = c.tracked /\ x.mine = c.mine /\ x.held = FALSE
    BY <1>3 DEF RunRecord
  <2> HIDE DEF x
  <2> QED  BY <1>2, <1>3, <2>1, <2>2 DEF HasSlot
<1>6. k \in HookRecord /\ k.run = r /\ k.pc = "claw" /\ Finishes(k, x)
  BY <1>1, <1>2, <1>5 DEF HookRecord, Finishes
<1> HIDE DEF x, k
<1>7. /\ crun' \in [CronRuns -> RunRecord] /\ SlotInv' /\ CounterInv'
      /\ slots' \in Nat /\ robbed' \in BOOLEAN
      /\ crun'[r] = x /\ \A q \in CronRuns \ {r} : crun'[q] = crun[q]
  BY <1>2, <1>4, <1>5, RunGives
<1>8. ASSUME NEW j \in Hooks \ {h}  PROVE Finishes(hook[j], crun'[hook[j].run])
  <2>1. Finishes(hook[j], crun[hook[j].run])
    BY DEF CronInv, HookInv
  <2>2. CASE hook[j].run = r
    <3>1. hook[j].pc # "dec"
      BY <1>1, <2>2 DEF CronInv, HookInv
    <3>2. crun'[hook[j].run].db = "done"
      BY <1>5, <1>7, <2>2
    <3> QED  BY <2>1, <3>1, <3>2 DEF Finishes
  <2>3. CASE hook[j].run \in CronRuns \ {r}
    BY <1>7, <2>1, <2>3
  <2>4. CASE hook[j].run \notin CronRuns
    <3>1. hook[j].pc = "none"
      BY <2>1, <2>4 DEF Finishes
    <3> QED  BY <3>1 DEF Finishes
  <2> QED  BY <2>2, <2>3, <2>4
<1>9. hook' \in [Hooks -> HookRecord] /\ HookInv'
  <2>1. Finishes(k, crun'[k.run])
    BY <1>6, <1>7
  <2>2. gen' = gen /\ k.pc # "dec"
    BY <1>4, <1>6 DEF Quiet
  <2> QED  BY <1>4, <1>6, <1>8, <2>1, <2>2, HookMoves DEF CronInv
<1>10. CronRecords'
  BY <1>4, <1>7, <1>9 DEF CronInv, CronRecords, Quiet
<1> QED  BY <1>7, <1>9, <1>10 DEF CronInv

\* An admission takes a slot for a run that had none.
LEMMA AdmitStep ==
    ASSUME CronInv, NEW r \in CronRuns, NEW p, Admit(r, p)
    PROVE  CronInv'
<1> DEFINE c == crun[r]
           x == [c EXCEPT !.pc = "admitted", !.mine = TRUE, !.held = TRUE]
<1>1. c.pc = "none" /\ crun' = [crun EXCEPT ![r] = x] /\ slots' = slots + 1
  BY DEF Admit
<1>2. gen' = gen /\ policy' = policy /\ job' = job /\ hook' = hook /\ robbed' = robbed
  BY DEF Admit
<1>3. c \in RunRecord /\ HasSlot(c, gen) /\ gen \in {"v1", "v2"}
  BY RunIs
<1>4. c.db = "none" /\ c.claw = "none" /\ c.tracked = FALSE /\ c.released = FALSE
      /\ c.mine = FALSE /\ c.held = FALSE
  BY <1>1, <1>3 DEF HasSlot, RunRecord
<1>5. x \in RunRecord /\ HasSlot(x, gen) /\ x.held = TRUE /\ x.mine = TRUE
  <2>1. /\ x \in RunRecord /\ x.pc = "admitted" /\ x.db = "none" /\ x.claw = "none"
        /\ x.tracked = FALSE /\ x.released = FALSE /\ x.held = TRUE /\ x.mine = TRUE
    BY <1>3, <1>4 DEF RunRecord
  <2> HIDE DEF x
  <2> QED  BY <1>3, <2>1 DEF HasSlot
<1> HIDE DEF x
<1>6. /\ crun' \in [CronRuns -> RunRecord] /\ SlotInv'
      /\ crun'[r] = x /\ \A q \in CronRuns \ {r} : crun'[q] = crun[q]
  BY <1>1, <1>2, <1>5, RunChanges DEF CronInv
<1>7. HookInv'
  <2>1. \A h \in Hooks : Finishes(hook[h], crun'[hook[h].run])
    <3>1. c.db # "done"
      BY <1>4
    <3> QED  BY <1>6, <3>1, HooksStillFinish DEF CronInv
  <2> QED  BY <1>2, <2>1, HooksKept DEF CronInv
<1>8. CounterInv'
  <2>1. HeldRuns' = HeldRuns \cup {r} /\ r \notin HeldRuns
    BY <1>4, <1>5, <1>6 DEF HeldRuns
  <2>2. MineRuns' = MineRuns \cup {r} /\ r \notin MineRuns
    BY <1>4, <1>5, <1>6 DEF MineRuns
  <2>3. Cardinality(HeldRuns \cup {r}) = Cardinality(HeldRuns) + 1
    BY <2>1, RunSets, FS_AddElement
  <2>4. Cardinality(MineRuns \cup {r}) = Cardinality(MineRuns) + 1
    BY <2>2, RunSets, FS_AddElement
  <2>5. slots \in Nat /\ Cardinality(HeldRuns) \in Nat /\ Cardinality(MineRuns) \in Nat
    BY RunSets DEF CronInv, CronRecords
  <2>6. slots' <= Cardinality(MineRuns')
    BY <1>1, <2>2, <2>4, <2>5 DEF CronInv, CounterInv
  <2>7. robbed' = FALSE => Cardinality(HeldRuns') <= slots'
    BY <1>1, <1>2, <2>1, <2>3, <2>5 DEF CronInv, CounterInv
  <2> QED  BY <2>6, <2>7 DEF CounterInv
<1>9. CronRecords'
  <2>1. slots' \in Nat
    BY <1>1 DEF CronInv, CronRecords
  <2> QED  BY <1>2, <1>6, <2>1 DEF CronInv, CronRecords
<1> QED  BY <1>6, <1>7, <1>8, <1>9 DEF CronInv

\* A step that changes policies at most keeps the invariant.
LEMMA CronUnchanged ==
    ASSUME CronInv, gen' = gen, slots' = slots, robbed' = robbed, crun' = crun, hook' = hook,
           policy' \in {"skip", "parallel"}, job' \in {"skip", "parallel"}
    PROVE  CronInv'
<1>1. CronRecords' /\ SlotInv'
  BY DEF CronInv, CronRecords, SlotInv
<1>2. HookInv'
  BY HooksKept DEF CronInv, HookInv
<1>3. CounterInv'
  BY CounterKept DEF CronInv
<1> QED  BY <1>1, <1>2, <1>3 DEF CronInv

\* A save of the workspace moves policies only.
LEMMA ReloadStep == ASSUME CronInv, reloadWorkflows  PROVE CronInv'
<1>1. gen' = gen /\ slots' = slots /\ robbed' = robbed /\ crun' = crun /\ hook' = hook
  BY DEF reloadWorkflows
<1>2. policy' \in {"skip", "parallel"} /\ job' \in {"skip", "parallel"}
  BY DEF reloadWorkflows, CronInv, CronRecords
<1> QED  BY <1>1, <1>2, CronUnchanged

\* A restart forgets the counter together with every slot of the process.
LEMMA RestartStep == ASSUME CronInv, CronRestart  PROVE CronInv'
<1>0. gen' = gen /\ policy' = policy /\ job' = policy /\ slots' = 0 /\ robbed' = FALSE
      /\ hook' = [h \in Hooks |-> Idle]
  BY DEF CronRestart
<1>1. ASSUME NEW q \in CronRuns
      PROVE  /\ crun'[q] \in RunRecord /\ HasSlot(crun'[q], gen)
             /\ crun'[q].mine = FALSE /\ crun'[q].held = FALSE
  <2> DEFINE c == crun[q]
  <2>0. c \in RunRecord /\ HasSlot(c, gen) /\ gen \in {"v1", "v2"}
    BY RunIs
  <2>1. PICK u \in {"none", "started", "failed"} :
               u = IF c.pc \in {"none", "started"} THEN c.pc ELSE "failed"
    OBVIOUS
  <2>2. PICK w \in {"none", "running", "failed", "finished"} :
               w = IF gen = "v1" /\ c.row = "running" /\ (~c.linked \/ c.claw # "up")
                   THEN "failed" ELSE c.row
    BY <2>0 DEF RunRecord
  <2> DEFINE x == [c EXCEPT !.pc = u, !.mine = FALSE, !.held = FALSE, !.tracked = FALSE, !.row = w]
  <2>3. crun'[q] = x
    BY <2>1, <2>2 DEF CronRestart
  <2>4. /\ x \in RunRecord /\ x.pc = u /\ x.db = c.db /\ x.released = c.released
        /\ x.tracked = FALSE /\ x.mine = FALSE /\ x.held = FALSE
    BY <2>0, <2>1, <2>2 DEF RunRecord
  <2> HIDE DEF x
  <2>6. HasSlot(x, gen)
    <3>1. x.claw = c.claw
      BY <2>0 DEF RunRecord, x
    <3> QED  BY <2>0, <2>1, <2>4, <3>1 DEF HasSlot
  <2> QED  BY <2>3, <2>4, <2>6
<1>2. crun' \in [CronRuns -> RunRecord]
  BY <1>1 DEF CronRestart
<1>3. SlotInv'
  BY <1>0, <1>1 DEF SlotInv
<1>4. hook' \in [Hooks -> HookRecord] /\ \A h \in Hooks : hook'[h].pc = "none"
  BY <1>0 DEF HookRecord, Idle
<1>5. HookInv'
  BY <1>4 DEF HookInv, Finishes
<1>6. CounterInv'
  <2>1. HeldRuns' = {} /\ MineRuns' = {}
    BY <1>1 DEF HeldRuns, MineRuns
  <2>2. Cardinality({}) = 0
    BY FS_EmptySet
  <2> QED  BY <1>0, <2>1, <2>2 DEF CounterInv
<1>7. CronRecords'
  BY <1>0, <1>2, <1>4 DEF CronInv, CronRecords
<1> QED  BY <1>3, <1>5, <1>6, <1>7 DEF CronInv

\* At the start no run holds a slot and the counter is zero.
LEMMA CronInitInv == CronInit => CronInv
<1>1. SUFFICES ASSUME CronInit  PROVE CronInv
  OBVIOUS
<1>2. CronRecords
  BY <1>1 DEF CronInit, CronRecords, RunRecord, HookRecord, NoRun, Idle
<1>3. SlotInv
  BY <1>1 DEF CronInit, SlotInv, HasSlot, NoRun
<1>4. HookInv
  BY <1>1 DEF CronInit, HookInv, Finishes, Idle
<1>5. CounterInv
  <2>1. HeldRuns = {} /\ MineRuns = {}
    BY <1>1 DEF CronInit, HeldRuns, MineRuns, NoRun
  <2>2. Cardinality({}) = 0
    BY FS_EmptySet
  <2> QED  BY <1>1, <2>1, <2>2 DEF CronInit, CounterInv
<1> QED  BY <1>2, <1>3, <1>4, <1>5 DEF CronInv

\* Every step of the schedulers keeps the invariant.
LEMMA CronStep == CronInv /\ [CronNext]_cronVars => CronInv'
<1>1. SUFFICES ASSUME CronInv, [CronNext]_cronVars  PROVE CronInv'
  OBVIOUS
<1>2. CASE reloadWorkflows
  BY <1>1, <1>2, ReloadStep
<1>3. CASE CronRestart
  BY <1>1, <1>3, RestartStep
<1>4. ASSUME NEW p, Skips(p)  PROVE CronInv'
  <2>1. gen' = gen /\ slots' = slots /\ robbed' = robbed /\ crun' = crun /\ hook' = hook
        /\ policy' = policy /\ job' = job
    BY <1>4 DEF Skips
  <2>2. policy' \in {"skip", "parallel"} /\ job' \in {"skip", "parallel"}
    BY <1>1, <2>1 DEF CronInv, CronRecords
  <2> QED  BY <1>1, <2>1, <2>2, CronUnchanged
<1>5. CASE Tick \/ manualTrigger
  BY <1>1, <1>4, <1>5, AdmitStep DEF Tick, manualTrigger
<1>6. ASSUME NEW r \in CronRuns, RunNext(r)  PROVE CronInv'
  BY <1>1, <1>6, StartSteps, FailSteps, HookedSteps, ClawEndsStep DEF RunNext
<1>7. ASSUME NEW h \in Hooks, HookNext(h)  PROVE CronInv'
  BY <1>1, <1>7, HookSteps, DecrementStep DEF HookNext
<1>8. CASE UNCHANGED cronVars
  <2>1. gen' = gen /\ slots' = slots /\ robbed' = robbed /\ crun' = crun /\ hook' = hook
        /\ policy' = policy /\ job' = job
    BY <1>8 DEF cronVars
  <2>2. policy' \in {"skip", "parallel"} /\ job' \in {"skip", "parallel"}
    BY <1>1, <2>1 DEF CronInv, CronRecords
  <2> QED  BY <1>1, <2>1, <2>2, CronUnchanged
<1> QED  BY <1>1, <1>2, <1>3, <1>5, <1>6, <1>7, <1>8 DEF CronNext

\* The inductive invariant of the cron slots.
LEMMA CronInvariant == CronSpec => []CronInv
  BY CronInitInv, CronStep, PTL DEF CronSpec

\* A run under way that this process started has its slot.
LEMMA UnderWayHasSlot ==
    ASSUME CronInv, NEW r \in CronRuns, UnderWay(r)
    PROVE  /\ crun[r].mine = TRUE => crun[r].held = TRUE
           /\ crun[r].mine = TRUE \/ gen = "v1" \/ crun[r].db = "active"
<1>1. crun[r] \in RunRecord /\ HasSlot(crun[r], gen) /\ gen \in {"v1", "v2"}
  BY RunIs
<1>2. CASE crun[r].pc \in {"admitted", "recorded"}
  BY <1>1, <1>2 DEF HasSlot
<1>3. CASE gen = "v2" /\ crun[r].db = "active"
  <2>1. crun[r].released = FALSE
    BY <1>1, <1>3 DEF HasSlot, RunRecord
  <2> QED  BY <1>1, <1>3, <2>1 DEF HasSlot
<1>4. CASE gen = "v1" /\ crun[r].claw = "up"
  BY <1>1, <1>4 DEF HasSlot
<1> QED  BY <1>1, <1>2, <1>3, <1>4 DEF UnderWay

\* The counter is at least the number of runs of this process under way.
LEMMA SlotsCover == CronInv => SlotsCoverRuns
<1>1. SUFFICES ASSUME CronInv, robbed = FALSE
               PROVE  Cardinality({r \in CronRuns : crun[r].mine /\ UnderWay(r)}) <= slots
  BY DEF SlotsCoverRuns, CronInv, CronRecords
<1> DEFINE U == {r \in CronRuns : crun[r].mine /\ UnderWay(r)}
<1>2. U \subseteq HeldRuns
  <2>1. ASSUME NEW r \in CronRuns, crun[r].mine, UnderWay(r)  PROVE crun[r].held = TRUE
    <3>1. crun[r].mine = TRUE
      BY <1>1, <2>1 DEF CronInv, CronRecords, RunRecord
    <3> QED  BY <1>1, <2>1, <3>1, UnderWayHasSlot
  <2> QED  BY <2>1 DEF HeldRuns
<1>3. Cardinality(U) <= Cardinality(HeldRuns) /\ Cardinality(U) \in Nat
  BY <1>2, RunSets, FS_Subset, FS_CardinalityType
<1>4. Cardinality(HeldRuns) <= slots /\ slots \in Nat
  BY <1>1 DEF CronInv, CounterInv, CronRecords
<1> QED  BY <1>3, <1>4, RunSets

\* An admission under the policy "skip" finds no other run under way.
LEMMA AdmittedAloneStep ==
    ASSUME CronInv, NEW r \in CronRuns, NEW p, Admit(r, p), p # "parallel", robbed = FALSE,
           NEW q \in CronRuns \ {r}, UnderWay(q)
    PROVE  gen = "v1" /\ ~crun[q].mine
<1>1. ActiveSeen = 0
  BY DEF Admit
<1>2. slots = 0 /\ (gen = "v2" => countActiveV2Runs = 0)
  BY <1>1 DEF ActiveSeen
<1>3. Cardinality(HeldRuns) = 0
  BY <1>2, RunSets DEF CronInv, CounterInv
<1>4. HeldRuns = {}
  BY <1>3, RunSets, FS_EmptySet
<1>5. crun[q].held # TRUE
  BY <1>4 DEF HeldRuns
<1>6. crun[q].mine # TRUE
  BY <1>5, UnderWayHasSlot
<1>7. gen # "v2"
  <2>1. SUFFICES ASSUME gen = "v2"  PROVE FALSE
    OBVIOUS
  <2>2. crun[q].db = "active"
    BY <1>6, <2>1, UnderWayHasSlot
  <2> DEFINE A == {a \in CronRuns : crun[a].db = "active"}
  <2>3. IsFiniteSet(A)
    <3>1. A \subseteq CronRuns /\ IsFiniteSet(CronRuns)
      BY CronAssumption
    <3> QED  BY <3>1, FS_Subset
  <2>4. Cardinality(A) = 0
    BY <1>2, <2>1 DEF countActiveV2Runs
  <2>5. A = {}
    BY <2>3, <2>4, FS_EmptySet
  <2> QED  BY <2>2, <2>5
<1>8. gen = "v1" /\ crun[q].mine \in BOOLEAN
  BY <1>7 DEF CronInv, CronRecords, RunRecord
<1> QED  BY <1>6, <1>8

\* Only an admission takes a run from "none" to "admitted".
LEMMA OnlyAdmitStarts ==
    ASSUME CronInv, [CronNext]_cronVars, NEW r \in CronRuns,
           crun[r].pc = "none", crun'[r].pc = "admitted", policy = "skip", job = "skip"
    PROVE  Admit(r, "skip")
<1>1. CASE Tick \/ manualTrigger
  <2>1. Skips("skip") \/ \E q \in CronRuns : Admit(q, "skip")
    BY <1>1 DEF Tick, manualTrigger
  <2>2. CASE Skips("skip")
    BY <2>2 DEF Skips
  <2>3. ASSUME NEW q \in CronRuns, Admit(q, "skip"), q # r  PROVE FALSE
    BY <2>3 DEF Admit, CronInv, CronRecords
  <2> QED  BY <2>1, <2>2, <2>3
<1>2. CASE reloadWorkflows \/ UNCHANGED cronVars
  BY <1>2 DEF reloadWorkflows, cronVars
<1>3. CASE CronRestart
  <2>1. crun'[r].pc = IF crun[r].pc \in {"none", "started"} THEN crun[r].pc ELSE "failed"
    BY <1>3 DEF CronRestart, CronInv, CronRecords, RunRecord
  <2> QED  BY <2>1
<1>4. ASSUME NEW q \in CronRuns, NEW x, crun' = [crun EXCEPT ![q] = x],
             x.pc # "admitted" \/ x.pc = crun[q].pc
      PROVE  FALSE
  <2>1. CASE q = r
    BY <1>4, <2>1 DEF CronInv, CronRecords
  <2>2. CASE q # r
    BY <1>4, <2>2 DEF CronInv, CronRecords
  <2> QED  BY <2>1, <2>2
<1>5. crun \in [CronRuns -> RunRecord]
  BY DEF CronInv, CronRecords
<1>6. ASSUME NEW q \in CronRuns, RunNext(q)  PROVE FALSE
  <2>1. PICK y \in RunRecord : y = crun[q]
    BY <1>5
  <2>2. CASE RecordCronRunStarted(q)
    BY <1>4, <2>1, <2>2 DEF RecordCronRunStarted, Step, RunRecord
  <2>3. CASE RecordFails(q)
    BY <1>4, <2>1, <2>3 DEF RecordFails, Step, RunRecord
  <2>4. CASE createClaw(q)
    BY <1>4, <2>1, <2>4 DEF createClaw, Step, RunRecord
  <2>5. CASE CreateClawFails(q)
    BY <1>4, <2>1, <2>5 DEF CreateClawFails, Step, RunRecord
  <2>6. CASE LinkRow(q)
    BY <1>4, <2>1, <2>6 DEF LinkRow, Step, RunRecord
  <2>7. CASE Started(q)
    BY <1>4, <2>1, <2>7 DEF Started, Step, RunRecord
  <2>8. CASE FailCronRun(q)
    BY <1>4, <2>1, <2>8 DEF FailCronRun, Step, RunRecord
  <2>9. CASE EventEnds(q)
    BY <1>4, <2>1, <2>9 DEF EventEnds, RunRecord
  <2>10. ASSUME NEW h \in Hooks, LinkFails(q, h)  PROVE FALSE
    BY <1>4, <2>1, <2>10 DEF LinkFails, Step, RunRecord
  <2>11. ASSUME NEW h \in Hooks, ActivationFails(q, h)  PROVE FALSE
    BY <1>4, <2>1, <2>11 DEF ActivationFails, Step, RunRecord
  <2>12. ASSUME NEW h \in Hooks, Envelope(q, h)  PROVE FALSE
    BY <1>4, <2>1, <2>12 DEF Envelope, RunRecord
  <2>13. ASSUME NEW h \in Hooks, RunTimesOut(q, h)  PROVE FALSE
    BY <1>4, <2>1, <2>13 DEF RunTimesOut, RunRecord
  <2>14. ASSUME NEW h \in Hooks, ClawEnds(q, h)  PROVE FALSE
    <3>1. CASE gen = "v2"
      BY <1>4, <2>1, <2>14, <3>1 DEF ClawEnds, RunRecord
    <3>2. CASE gen # "v2"
      <4> DEFINE x == [crun[q] EXCEPT !.claw = "ended", !.tracked = FALSE,
                          !.row = IF crun[q].linked /\ @ = "running" THEN "finished" ELSE @,
                          !.held = @ /\ ~crun[q].tracked]
      <4>1. crun' = [crun EXCEPT ![q] = x]
        BY <2>14, <3>2 DEF ClawEnds
      <4>2. x.pc = crun[q].pc
        BY <2>1 DEF RunRecord
      <4> HIDE DEF x
      <4> QED  BY <1>4, <4>1, <4>2
    <3> QED  BY <3>1, <3>2
  <2> QED  BY <1>6, <2>2, <2>3, <2>4, <2>5, <2>6, <2>7, <2>8, <2>9, <2>10, <2>11, <2>12,
              <2>13, <2>14 DEF RunNext
<1>7. ASSUME NEW h \in Hooks, HookNext(h)  PROVE FALSE
  <2> DEFINE q == hook[h].run
  <2>1. CASE crun' = crun
    BY <2>1
  <2>2. Finishes(hook[h], crun[q]) /\ hook[h] \in HookRecord
    BY DEF CronInv, CronRecords, HookInv
  <2>3. hook[h].pc # "none" => q \in CronRuns
    BY <2>2 DEF Finishes
  <2>4. CASE HookCancels(h)
    BY <1>4, <1>5, <2>1, <2>3, <2>4 DEF HookCancels, HookStep, RunRecord
  <2>5. CASE HookLoads(h)
    BY <1>4, <1>5, <2>1, <2>3, <2>5 DEF HookLoads, HookStep, RunRecord
  <2>6. CASE HookMarks(h)
    BY <1>4, <1>5, <2>3, <2>6 DEF HookMarks, HookStep, RunRecord
  <2>7. CASE HookDecrements(h)
    BY <1>4, <1>5, <2>3, <2>7 DEF HookDecrements, HookStep, RunRecord
  <2>8. CASE HookEndsClaw(h)
    BY <1>4, <1>5, <2>3, <2>8 DEF HookEndsClaw, HookStep, RunRecord
  <2> QED  BY <1>7, <2>4, <2>5, <2>6, <2>7, <2>8 DEF HookNext
<1> QED  BY <1>1, <1>2, <1>3, <1>6, <1>7 DEF CronNext

\* The overlap counter of a cron workflow stays between zero and the number of runs
\* this process started, and rows, claws and goroutines have the values the code writes.
THEOREM CronTypes == CronSpec => []CronTypeOK
<1>1. CronInv => CronTypeOK
  <2>1. SUFFICES ASSUME CronInv  PROVE CronTypeOK
    OBVIOUS
  <2>2. slots \in 0 .. Cardinality(CronRuns)
    <3>1. MineRuns \subseteq CronRuns /\ IsFiniteSet(CronRuns)
      BY CronAssumption DEF MineRuns
    <3>2. Cardinality(MineRuns) <= Cardinality(CronRuns) /\ Cardinality(CronRuns) \in Nat
      BY <3>1, FS_Subset, FS_CardinalityType
    <3>3. slots <= Cardinality(MineRuns) /\ slots \in Nat
      BY <2>1 DEF CronInv, CounterInv, CronRecords
    <3> QED  BY <3>2, <3>3, RunSets
  <2>3. \A r \in CronRuns :
         /\ crun[r].pc \in {"none", "admitted", "recorded", "created", "linked", "failing", "failed",
                           "started"}
         /\ crun[r].db \in {"none", "active", "done"}
         /\ crun[r].row \in {"none", "running", "failed", "finished"}
         /\ crun[r].claw \in {"none", "up", "ended"}
    BY <2>1 DEF CronInv, CronRecords, RunRecord
  <2>4. \A h \in Hooks : hook[h] \in [run : CronRuns \cup {0},
                                     pc : {"none", "cancel", "load", "mark", "dec", "claw"}]
    BY <2>1 DEF CronInv, CronRecords, HookRecord
  <2> QED  BY <2>1, <2>2, <2>3, <2>4 DEF CronTypeOK, CronInv, CronRecords
<1> QED  BY <1>1, CronInvariant, PTL

\* The overlap policy is respected: the counter never understates the runs under way,
\* however many goroutines end them, and under "skip" no run is admitted beside another,
\* unless a run of an earlier process has given back a slot late.
THEOREM CronOverlap == CronSpec => OverlapRespected
<1> DEFINE Alone == \A r \in CronRuns :
          crun[r].pc = "none" /\ crun'[r].pc = "admitted" /\ policy = "skip" /\ job = "skip"
            /\ ~robbed
          => \A q \in CronRuns \ {r} :
                UnderWay(q) => gen = "v1" /\ ~crun[q].mine
<1>1. CronInv /\ [CronNext]_cronVars => [Alone]_cronVars
  <2>1. SUFFICES ASSUME CronInv, [CronNext]_cronVars, NEW r \in CronRuns,
                        crun[r].pc = "none", crun'[r].pc = "admitted",
                        policy = "skip", job = "skip", ~robbed,
                        NEW q \in CronRuns \ {r}, UnderWay(q)
                 PROVE  gen = "v1" /\ ~crun[q].mine
    BY Zenon
  <2>2. Admit(r, "skip")
    BY <2>1, OnlyAdmitStarts
  <2>3. robbed = FALSE
    BY <2>1 DEF CronInv, CronRecords
  <2> QED  BY <2>1, <2>2, <2>3, AdmittedAloneStep
<1>2. CronSpec => AdmittedAlone
  BY <1>1, CronInvariant, PTL DEF CronSpec, AdmittedAlone
<1>3. CronSpec => []SlotsCoverRuns
  BY CronInvariant, SlotsCover, PTL
<1> QED  BY <1>2, <1>3, PTL DEF OverlapRespected

--------------------------------------------------------------------------------
(***************************************************************************)
(* What a run knows of its pull request. What a goroutine has read of      *)
(* GitHub stays true of the head it was read for, and a verdict names the  *)
(* head it is about.                                                       *)
(***************************************************************************)
\* A set of numbers that is not empty has a least element.
LEMMA LeastNat ==
    ASSUME NEW S, S \subseteq Nat, S # {}
    PROVE  \E n \in S : \A m \in S : n <= m
<1>1. PICK n \in S : \A m \in S : <<m, n>> \notin OpToRel(<, Nat)
  BY NatLessThanWellFounded, WFMin
<1>2. ASSUME NEW m \in S  PROVE n <= m
  <2>1. m \in Nat /\ n \in Nat
    OBVIOUS
  <2>2. <<m, n>> \in Nat \X Nat
    BY <2>1
  <2>3. ~(m < n)
    BY <1>1, <2>2 DEF OpToRel
  <2> QED  BY <2>1, <2>3
<1> QED  BY <1>2

\* ... and a bounded one a greatest.
LEMMA GreatestNat ==
    ASSUME NEW b \in Nat, NEW S, S \subseteq 0 .. b, S # {}
    PROVE  \E n \in S : \A m \in S : m <= n
<1> DEFINE T == {b - n : n \in S}
<1>1. T \subseteq Nat /\ T # {}
  OBVIOUS
<1>2. PICK k \in T : \A j \in T : k <= j
  BY <1>1, LeastNat
<1>3. PICK n \in S : k = b - n
  BY <1>2
<1>4. ASSUME NEW m \in S  PROVE m <= n
  <2>1. b - m \in T
    OBVIOUS
  <2>2. b - n <= b - m
    BY <1>2, <1>3, <2>1
  <2>3. m \in Nat /\ n \in Nat
    OBVIOUS
  <2> QED  BY <2>2, <2>3
<1> QED  BY <1>4

PullStates == {"none", "open", "closed", "merged"}
PullRequest == [head : Heads, st : PullStates]
ReportRecord == [id : 0 .. MaxReports + 1, st : {"pending", "success", "failure"},
                 at : 0 .. 2 * MaxReports]
EvidenceRecord == [id : 0 .. MaxReports + 1, st : {"pending", "success", "failure"},
                   obs : 0 .. 2 * MaxReports + 1, live : BOOLEAN]
Revisions == {<<>>} \cup (PullStates \X Heads \X Nat \X SUBSET EvidenceRecord)
WorkRecord ==
    [pc : {"idle", "target", "verified", "check", "fetched", "evaluate", "publish", "deliver"},
     half : {"pr", "evidence"}, target : PullRequest, seen : PullRequest, got : ReportRecord,
     since : 0 .. MaxReports, rev : Revisions, tries : Nat]
DeliveryRecords ==
    /\ domain \in {"ci", "review"} /\ clock \in 0 .. MaxReports
    /\ gh \in [head : Heads, st : {"open", "closed", "merged"}]
    /\ report \in [Heads -> ReportRecord]
    /\ pr \in [sub : {"none", "registered", "delivered"}, head : Heads, st : PullStates, gen : Nat]
    /\ pr.sub = "none" <=> pr.gen = 0
    /\ evidence \subseteq EvidenceRecord
    /\ \A e, f \in evidence : e.id = f.id => e = f
    /\ workers \in [Workers -> WorkRecord]

\* A goroutine's knowledge x stays true, given the heads that earned a success, the
\* pull request at GitHub and the submission: of a fetched success, of a merge it
\* saw, and a policy is evaluated for delivered pull requests only.
KnowsTruth(x, ok, hub, sub) ==
    /\ x.pc = "fetched" /\ x.got.st = "success" => x.seen.head \in ok
    /\ x.seen.st = "merged" => hub.head = x.seen.head /\ hub.st = "merged"
    /\ x.pc \in {"evaluate", "publish", "deliver"} => sub = "delivered"
WorkInv == \A w \in Workers : KnowsTruth(workers[w], earned, gh, pr.sub)

RowInv ==
    /\ \A h \in Heads : report[h].st = "success" => h \in earned
    /\ pr.st = "merged" => gh.head = pr.head /\ gh.st = "merged"
    /\ \A e \in evidence : e.st = "success" => pr.head \in earned
FactInv ==
    /\ policyFact.status = "satisfied" => policyFact.rev # <<>> /\ policyFact.rev[2] \in earned
    /\ deliveryFact.status = "yes" =>
          /\ deliveryFact.rev # <<>> /\ deliveryFact.rev[2] \in earned
          /\ gh.head = deliveryFact.rev[2] /\ gh.st = "merged"

DeliveryInv == DeliveryRecords /\ WorkInv /\ RowInv /\ FactInv

\* What no step takes back.
Persists ==
    /\ earned \subseteq earned'
    /\ gh.st = "merged" => gh' = gh
    /\ pr.sub = "delivered" => pr'.sub = "delivered"

\* What a goroutine knows stays true under any step.
LEMMA TruthKept ==
    ASSUME Persists, NEW x, KnowsTruth(x, earned, gh, pr.sub)
    PROVE  KnowsTruth(x, earned', gh', pr'.sub)
  BY DEF Persists, KnowsTruth

\* An idle goroutine knows nothing.
LEMMA NoWorkKnows ==
    NoWork \in WorkRecord /\ \A ok, hub, sub : KnowsTruth(NoWork, ok, hub, sub)
<1>1. NoWork \in WorkRecord
  BY DeliveryAssumption DEF NoWork, WorkRecord, PullRequest, PullStates, NoReport, ReportRecord,
     Revisions
<1>2. NoWork.pc = "idle" /\ NoWork.seen.st = "none"
  BY DEF NoWork
<1> QED  BY <1>1, <1>2 DEF KnowsTruth

\* A goroutine goes on, the others stay where they are.
LEMMA GoesOn ==
    ASSUME DeliveryInv, Persists, NEW w \in Workers, NEW x \in WorkRecord, Goes(w, x),
           KnowsTruth(x, earned', gh', pr'.sub)
    PROVE  workers' \in [Workers -> WorkRecord] /\ WorkInv'
<1>1. workers' \in [Workers -> WorkRecord] /\ workers'[w] = x
      /\ \A v \in Workers \ {w} : workers'[v] = workers[v]
  BY DEF Goes, DeliveryInv, DeliveryRecords
<1>2. ASSUME NEW v \in Workers  PROVE KnowsTruth(workers'[v], earned', gh', pr'.sub)
  <2>1. CASE v = w
    BY <2>1, <1>1
  <2>2. CASE v # w
    <3>1. workers'[v] = workers[v] /\ KnowsTruth(workers[v], earned, gh, pr.sub)
      BY <1>1, <2>2 DEF DeliveryInv, WorkInv
    <3> QED  BY <3>1, TruthKept
  <2> QED  BY <2>1, <2>2
<1> QED  BY <1>1, <1>2 DEF WorkInv

\* All goroutines stay where they are.
LEMMA AllStay ==
    ASSUME DeliveryInv, Persists, workers' = workers
    PROVE  workers' \in [Workers -> WorkRecord] /\ WorkInv'
  BY TruthKept DEF DeliveryInv, DeliveryRecords, WorkInv

\* One goroutine ends.
LEMMA OneEnds ==
    ASSUME DeliveryInv, Persists, NEW w \in Workers, WorkEnds(w)
    PROVE  workers' \in [Workers -> WorkRecord] /\ WorkInv'
  BY GoesOn, NoWorkKnows DEF WorkEnds

\* What a goroutine w knows, and what it still knows after the step.
LEMMA WorkIs ==
    ASSUME DeliveryInv, Persists, NEW w \in Workers
    PROVE  /\ workers[w] \in WorkRecord
           /\ KnowsTruth(workers[w], earned, gh, pr.sub)
           /\ KnowsTruth(workers[w], earned', gh', pr'.sub)
<1>1. workers[w] \in WorkRecord /\ KnowsTruth(workers[w], earned, gh, pr.sub)
  BY DEF DeliveryInv, DeliveryRecords, WorkInv
<1> QED  BY <1>1, TruthKept

\* After a pull request the poll turns to its evidence with what it saw of it.
LEMMA OneGoesOn ==
    ASSUME DeliveryInv, Persists, NEW w \in Workers, ThenGoesOn(w)
    PROVE  workers' \in [Workers -> WorkRecord] /\ WorkInv'
<1>1. CASE WorkEnds(w)
  BY <1>1, OneEnds
<1>2. CASE ~WorkEnds(w)
  <2> DEFINE x == [NoWork EXCEPT !.pc = "check", !.half = "evidence", !.seen = workers[w].seen]
  <2>1. w = "poll" /\ Goes(w, x)
    BY <1>2 DEF ThenGoesOn
  <2>2. workers[w].seen \in PullRequest /\ NoWork \in WorkRecord
    BY WorkIs, NoWorkKnows DEF WorkRecord
  <2>3. x \in WorkRecord /\ x.pc = "check" /\ x.seen = workers[w].seen
    BY <2>2 DEF WorkRecord
  <2> HIDE DEF x
  <2>4. KnowsTruth(x, earned', gh', pr'.sub)
    BY <2>3, WorkIs DEF KnowsTruth
  <2> QED  BY <2>1, <2>3, <2>4, GoesOn
<1> QED  BY <1>1, <1>2

\* After a committed row of a delivered pull request its goroutine evaluates.
LEMMA OneEvaluates ==
    ASSUME DeliveryInv, Persists, NEW w \in Workers, NEW half \in {"pr", "evidence"},
           ThenEvaluates(w, half), pr'.sub = "delivered"
    PROVE  workers' \in [Workers -> WorkRecord] /\ WorkInv'
<1> DEFINE x == [NoWork EXCEPT !.pc = "evaluate", !.half = half, !.seen = workers[w].seen]
<1>1. Goes(w, x)
  BY DEF ThenEvaluates
<1>2. workers[w].seen \in PullRequest /\ NoWork \in WorkRecord
  BY WorkIs, NoWorkKnows DEF WorkRecord
<1>3. x \in WorkRecord /\ x.pc = "evaluate" /\ x.seen = workers[w].seen
  BY <1>2 DEF WorkRecord
<1> HIDE DEF x
<1>4. KnowsTruth(x, earned', gh', pr'.sub)
  BY <1>3, WorkIs DEF KnowsTruth
<1> QED  BY <1>1, <1>3, <1>4, GoesOn

\* A goroutine that only moves on: its knowledge of GitHub is what it was.
LEMMA OneMoves ==
    ASSUME DeliveryInv, Persists, NEW w \in Workers, NEW p, NEW n, NEW r, NEW x,
           x = [workers[w] EXCEPT !.pc = p, !.tries = n, !.rev = r], Goes(w, x),
           p \in {"evaluate", "publish", "deliver"}, n \in Nat, r \in Revisions,
           pr'.sub = "delivered"
    PROVE  workers' \in [Workers -> WorkRecord] /\ WorkInv'
<1>1. workers[w] \in WorkRecord
  BY WorkIs
<1>2. x \in WorkRecord /\ x.pc = p /\ x.seen = workers[w].seen
  BY <1>1 DEF WorkRecord
<1>3. KnowsTruth(x, earned', gh', pr'.sub)
  BY <1>2, WorkIs DEF KnowsTruth
<1> QED  BY <1>2, <1>3, GoesOn

\* Published facts stay true when they are not replaced.
LEMMA FactsKept ==
    ASSUME FactInv, Persists, policyFact' = policyFact, deliveryFact' = deliveryFact
    PROVE  FactInv'
  BY DEF FactInv, Persists

\* A step of the goroutines that leaves GitHub, the rows and the facts alone.
LEMMA OnlyWork ==
    ASSUME DeliveryInv, UNCHANGED <<domain, githubVars, pr, evidence, policyFact, deliveryFact, earned>>,
           Persists => workers' \in [Workers -> WorkRecord] /\ WorkInv'
    PROVE  DeliveryInv'
<1>0. /\ domain' = domain /\ gh' = gh /\ report' = report /\ clock' = clock /\ pr' = pr
      /\ evidence' = evidence /\ policyFact' = policyFact /\ deliveryFact' = deliveryFact
      /\ earned' = earned
  BY DEF githubVars
<1>1. Persists
  BY <1>0 DEF Persists
<1>2. workers' \in [Workers -> WorkRecord] /\ WorkInv'
  BY <1>1
<1>3. DeliveryRecords'
  BY <1>0, <1>2 DEF DeliveryInv, DeliveryRecords
<1>4. RowInv'
  BY <1>0 DEF DeliveryInv, RowInv
<1>5. FactInv'
  BY <1>0, <1>1, FactsKept DEF DeliveryInv
<1> QED  BY <1>2, <1>3, <1>4, <1>5 DEF DeliveryInv

\* A step of GitHub that leaves the rows, the facts and the goroutines alone.
LEMMA OnlyGitHub ==
    ASSUME DeliveryInv, domain' = domain, UNCHANGED rowVars, workers' = workers, Persists,
           clock' \in 0 .. MaxReports, report' \in [Heads -> ReportRecord],
           gh' \in [head : Heads, st : {"open", "closed", "merged"}],
           \A h \in Heads : report'[h].st = "success" => h \in earned'
    PROVE  DeliveryInv'
<1>0. /\ pr' = pr /\ evidence' = evidence
      /\ policyFact' = policyFact /\ deliveryFact' = deliveryFact
  BY DEF rowVars
<1>2. workers' \in [Workers -> WorkRecord] /\ WorkInv'
  BY AllStay
<1>3. DeliveryRecords'
  BY <1>0, <1>2 DEF DeliveryInv, DeliveryRecords
<1>4. RowInv'
  BY <1>0 DEF DeliveryInv, RowInv, Persists
<1>5. FactInv'
  BY <1>0, FactsKept DEF DeliveryInv
<1> QED  BY <1>2, <1>3, <1>4, <1>5 DEF DeliveryInv

\* A push, a close, a reopening and a merge: never after a merge.
LEMMA BranchMoves ==
    ASSUME DeliveryInv, NEW h \in Heads, NEW st \in {"open", "closed", "merged"},
           Push(h) \/ Moves(st)
    PROVE  DeliveryInv'
<1>0. gh \in [head : Heads, st : {"open", "closed", "merged"}] /\ clock \in 0 .. MaxReports
      /\ report \in [Heads -> ReportRecord]
      /\ \A k \in Heads : report[k].st = "success" => k \in earned
  BY DEF DeliveryInv, DeliveryRecords, RowInv
<1>1. /\ gh.st # "merged" /\ domain' = domain /\ report' = report /\ clock' = clock
      /\ workers' = workers /\ earned' = earned /\ UNCHANGED rowVars
  BY DEF Push, Moves
<1>2. gh' \in [head : Heads, st : {"open", "closed", "merged"}]
  BY <1>0 DEF Push, Moves
<1>3. Persists
  BY <1>1 DEF Persists, rowVars
<1> QED  BY <1>0, <1>1, <1>2, <1>3, OnlyGitHub

\* A check or review reports, and a success is earned by the head it is about.
LEMMA ReportsStep ==
    ASSUME DeliveryInv, NEW h \in Heads, NEW st \in {"success", "failure"}, Reports(h, st)
    PROVE  DeliveryInv'
<1>0. /\ report \in [Heads -> ReportRecord] /\ clock \in 0 .. MaxReports /\ MaxReports \in Nat
      /\ gh \in [head : Heads, st : {"open", "closed", "merged"}]
      /\ \A k \in Heads : report[k].st = "success" => k \in earned
  BY DeliveryAssumption DEF DeliveryInv, DeliveryRecords, RowInv
<1>1. /\ clock < MaxReports /\ clock' = clock + 1
      /\ domain' = domain /\ gh' = gh /\ workers' = workers /\ UNCHANGED rowVars
  BY DEF Reports
<1>2. clock' \in 0 .. MaxReports /\ 2 * clock' \in 0 .. 2 * MaxReports
  BY <1>0, <1>1
<1>3. PICK i \in 0 .. MaxReports + 1 : i = IF domain = "ci" THEN report[h].id ELSE 1
  BY <1>0 DEF ReportRecord
<1> DEFINE x == [id |-> i, st |-> st, at |-> 2 * clock']
<1>4. report' = [report EXCEPT ![h] = x]
  BY <1>3 DEF Reports
<1>5. x \in ReportRecord /\ x.st = st
  BY <1>2 DEF ReportRecord
<1> HIDE DEF x
<1>6. report' \in [Heads -> ReportRecord] /\ report'[h] = x
      /\ \A k \in Heads \ {h} : report'[k] = report[k]
  BY <1>0, <1>4, <1>5
<1>7. earned \subseteq earned' /\ (st = "success" => h \in earned')
  BY DEF Reports
<1>8. \A k \in Heads : report'[k].st = "success" => k \in earned'
  BY <1>0, <1>5, <1>6, <1>7
<1>9. Persists
  BY <1>1, <1>7 DEF Persists, rowVars
<1> QED  BY <1>0, <1>1, <1>2, <1>6, <1>8, <1>9, OnlyGitHub

\* A check that starts over or a dismissed review is pending.
LEMMA StartsOverStep ==
    ASSUME DeliveryInv, NEW h \in Heads, StartsOver(h)
    PROVE  DeliveryInv'
<1>0. /\ report \in [Heads -> ReportRecord] /\ clock \in 0 .. MaxReports /\ MaxReports \in Nat
      /\ gh \in [head : Heads, st : {"open", "closed", "merged"}]
      /\ \A k \in Heads : report[k].st = "success" => k \in earned
  BY DeliveryAssumption DEF DeliveryInv, DeliveryRecords, RowInv
<1>1. /\ domain' = domain /\ gh' = gh /\ workers' = workers /\ clock' = clock /\ earned' = earned
      /\ UNCHANGED rowVars
  BY DEF StartsOver
<1>2. PICK x \in ReportRecord : x.st = "pending" /\ report' = [report EXCEPT ![h] = x]
  <2>1. report[h] \in ReportRecord
    BY <1>0
  <2>2. CASE domain = "ci"
    <3>1. report[h].id \in 0 .. MaxReports
      BY <1>0, <2>1, <2>2 DEF StartsOver, ReportRecord
    <3>2. [NoReport EXCEPT !.id = report[h].id + 1] \in ReportRecord
          /\ [NoReport EXCEPT !.id = report[h].id + 1].st = "pending"
      BY <1>0, <3>1 DEF NoReport, ReportRecord
    <3> QED  BY <2>2, <3>2 DEF StartsOver
  <2>3. CASE domain # "ci"
    <3>1. [report[h] EXCEPT !.st = "pending"] \in ReportRecord
          /\ [report[h] EXCEPT !.st = "pending"].st = "pending"
      BY <2>1 DEF ReportRecord
    <3> QED  BY <2>3, <3>1 DEF StartsOver
  <2> QED  BY <2>2, <2>3
<1>6. report' \in [Heads -> ReportRecord] /\ report'[h] = x
      /\ \A k \in Heads \ {h} : report'[k] = report[k]
  BY <1>0, <1>2
<1>8. \A k \in Heads : report'[k].st = "success" => k \in earned'
  BY <1>0, <1>1, <1>2, <1>6
<1>9. Persists
  BY <1>1 DEF Persists, rowVars
<1> QED  BY <1>0, <1>1, <1>6, <1>8, <1>9, OnlyGitHub

\* Reading the target, GitHub or the report, evaluating and failing: the goroutine
\* learns something true, or forgets it.
LEMMA ReadingSteps ==
    ASSUME DeliveryInv, NEW w \in Workers,
           ReadsTarget(w) \/ Verifies(w) \/ Fetches(w) \/ Evaluates(w) \/ WorkFails(w)
    PROVE  DeliveryInv'
<1>1. UNCHANGED <<domain, githubVars, pr, evidence, policyFact, deliveryFact, earned>>
  BY DEF ReadsTarget, Verifies, Fetches, Evaluates, WorkFails, rowVars
<1>2. ASSUME Persists  PROVE workers' \in [Workers -> WorkRecord] /\ WorkInv'
  <2>0. /\ workers[w] \in WorkRecord /\ NoWork \in WorkRecord
        /\ KnowsTruth(workers[w], earned', gh', pr'.sub)
    BY <1>2, WorkIs, NoWorkKnows
  <2>1. /\ pr \in [sub : {"none", "registered", "delivered"}, head : Heads, st : PullStates, gen : Nat]
        /\ gh \in [head : Heads, st : {"open", "closed", "merged"}]
        /\ report \in [Heads -> ReportRecord] /\ clock \in 0 .. MaxReports
    BY DEF DeliveryInv, DeliveryRecords
  <2>2. gh' = gh /\ earned' = earned /\ pr' = pr
    BY <1>1 DEF githubVars
  <2>3. CASE ReadsTarget(w)
    <3> DEFINE t == [head |-> pr.head, st |-> pr.st]
               x == [NoWork EXCEPT !.pc = "target", !.target = t]
    <3>1. t \in PullRequest
      BY <2>1 DEF PullRequest
    <3> HIDE DEF t
    <3>2. x \in WorkRecord /\ x.pc = "target" /\ x.seen = NoWork.seen
      BY <2>0, <3>1 DEF WorkRecord
    <3>3. Goes(w, x)
      BY <2>3 DEF ReadsTarget, t
    <3> HIDE DEF x
    <3>4. KnowsTruth(x, earned', gh', pr'.sub)
      BY <3>2 DEF KnowsTruth, NoWork
    <3> QED  BY <1>2, <3>2, <3>3, <3>4, GoesOn
  <2>4. CASE Verifies(w)
    <3> DEFINE x == [workers[w] EXCEPT !.pc = "verified", !.seen = gh]
    <3>1. gh \in PullRequest
      BY <2>1 DEF PullRequest, PullStates
    <3>2. x \in WorkRecord /\ x.pc = "verified" /\ x.seen = gh
      BY <2>0, <3>1 DEF WorkRecord
    <3>3. Goes(w, x)
      BY <2>4 DEF Verifies
    <3> HIDE DEF x
    <3>4. KnowsTruth(x, earned', gh', pr'.sub)
      BY <2>2, <3>2 DEF KnowsTruth
    <3> QED  BY <1>2, <3>2, <3>3, <3>4, GoesOn
  <2>5. CASE Fetches(w)
    <3> DEFINE g == report[workers[w].seen.head]
               x == [workers[w] EXCEPT !.pc = "fetched", !.got = g, !.since = clock]
    <3>1. workers[w].seen.head \in Heads
      BY <2>0 DEF WorkRecord, PullRequest
    <3>2. g \in ReportRecord /\ (g.st = "success" => workers[w].seen.head \in earned)
      BY <2>1, <3>1 DEF DeliveryInv, RowInv
    <3>3. Goes(w, x)
      BY <2>5 DEF Fetches
    <3> HIDE DEF g
    <3>4. x \in WorkRecord /\ x.pc = "fetched" /\ x.seen = workers[w].seen /\ x.got = g
      BY <2>0, <2>1, <3>2 DEF WorkRecord
    <3> HIDE DEF x
    <3>5. KnowsTruth(x, earned', gh', pr'.sub)
      BY <2>0, <2>2, <3>2, <3>4 DEF KnowsTruth
    <3> QED  BY <1>2, <3>3, <3>4, <3>5, GoesOn
  <2>6. CASE Evaluates(w)
    <3>1. CASE workers[w].tries < PublishTries
      <4>1. PICK p \in {"publish", "deliver"} :
                   p = IF workers[w].half = "evidence" THEN "publish" ELSE "deliver"
        OBVIOUS
      <4>2. workers[w].tries + 1 \in Nat
        BY <2>0 DEF WorkRecord
      <4>3. Revision \in Revisions
        <5>1. Counting \in SUBSET EvidenceRecord
          BY DEF Counting, DeliveryInv, DeliveryRecords
        <5>2. pr.st \in PullStates /\ pr.head \in Heads /\ pr.gen \in Nat
          BY <2>1
        <5> QED  BY <5>1, <5>2 DEF Revision, Revisions
      <4>4. pr'.sub = "delivered"
        BY <2>0, <2>6 DEF Evaluates, KnowsTruth
      <4> DEFINE x == [workers[w] EXCEPT !.pc = p, !.tries = workers[w].tries + 1, !.rev = Revision]
      <4>5. Goes(w, x)
        <5>1. Goes(w, [workers[w] EXCEPT !.rev = Revision, !.tries = @ + 1,
                        !.pc = IF workers[w].half = "evidence" THEN "publish" ELSE "deliver"])
          BY <2>6, <3>1 DEF Evaluates
        <5>2. [workers[w] EXCEPT !.rev = Revision, !.tries = @ + 1,
                        !.pc = IF workers[w].half = "evidence" THEN "publish" ELSE "deliver"] = x
          BY <2>0, <4>1 DEF WorkRecord
        <5> QED  BY <5>1, <5>2
      <4> QED  BY <1>2, <4>1, <4>2, <4>3, <4>4, <4>5, OneMoves
    <3>2. CASE ~(workers[w].tries < PublishTries)
      BY <1>2, <2>6, <3>2, OneEnds DEF Evaluates
    <3> QED  BY <3>1, <3>2
  <2>7. CASE WorkFails(w)
    BY <1>2, <2>7, OneEnds DEF WorkFails
  <2> QED  BY <2>3, <2>4, <2>5, <2>6, <2>7
<1> QED  BY <1>1, <1>2, OnlyWork

\* The poll, the agent and the hook begin; the run continues.
LEMMA LooseSteps ==
    ASSUME DeliveryInv, PollSkips \/ AgentVerifies \/ HookReadsHead \/ RunContinues
    PROVE  DeliveryInv'
<1>1. UNCHANGED <<domain, githubVars, pr, evidence, policyFact, deliveryFact, earned>>
  BY DEF PollSkips, AgentVerifies, HookReadsHead, RunContinues, rowVars
<1>2. ASSUME Persists  PROVE workers' \in [Workers -> WorkRecord] /\ WorkInv'
  <2>1. /\ pr \in [sub : {"none", "registered", "delivered"}, head : Heads, st : PullStates, gen : Nat]
        /\ gh \in [head : Heads, st : {"open", "closed", "merged"}]
        /\ NoWork \in WorkRecord
    BY NoWorkKnows DEF DeliveryInv, DeliveryRecords
  <2>2. gh' = gh /\ earned' = earned /\ pr' = pr
    BY <1>1 DEF githubVars
  <2>3. CASE PollSkips
    BY <1>2, <2>3, OneGoesOn DEF PollSkips
  <2>4. CASE AgentVerifies
    <3> DEFINE x == [NoWork EXCEPT !.pc = "verified", !.seen = gh]
    <3>1. gh \in PullRequest
      BY <2>1 DEF PullRequest, PullStates
    <3>2. x \in WorkRecord /\ x.pc = "verified" /\ x.seen = gh
      BY <2>1, <3>1 DEF WorkRecord
    <3>3. Goes("agent", x) /\ "agent" \in Workers
      BY <2>4 DEF AgentVerifies
    <3> HIDE DEF x
    <3>4. KnowsTruth(x, earned', gh', pr'.sub)
      BY <2>2, <3>2 DEF KnowsTruth
    <3> QED  BY <1>2, <3>2, <3>3, <3>4, GoesOn
  <2>5. CASE HookReadsHead
    <3> DEFINE t == [head |-> pr.head, st |-> pr.st]
               x == [NoWork EXCEPT !.pc = "check", !.half = "evidence", !.seen = t]
    <3>1. t \in PullRequest /\ t.head = pr.head /\ t.st = pr.st
      BY <2>1 DEF PullRequest
    <3>2. Goes("hook", x) /\ "hook" \in Workers
      BY <2>5 DEF HookReadsHead
    <3> HIDE DEF t
    <3>3. x \in WorkRecord /\ x.pc = "check" /\ x.seen = t
      BY <2>1, <3>1 DEF WorkRecord
    <3> HIDE DEF x
    <3>4. KnowsTruth(x, earned', gh', pr'.sub)
      BY <2>2, <3>1, <3>3 DEF KnowsTruth, DeliveryInv, RowInv
    <3> QED  BY <1>2, <3>2, <3>3, <3>4, GoesOn
  <2>6. CASE RunContinues
    BY <1>2, <2>6, AllStay DEF RunContinues
  <2> QED  BY <2>3, <2>4, <2>5, <2>6
<1> QED  BY <1>1, <1>2, OnlyWork

\* A row amended with what GitHub said starts over when the head changed.
LEMMA AmendedRow ==
    ASSUME DeliveryInv, NEW sub \in {"registered", "delivered"}, NEW now \in PullRequest,
           Amended(sub, now), pr.sub = "delivered" => sub = "delivered",
           now.st = "merged" => gh.head = now.head /\ gh.st = "merged",
           UNCHANGED <<domain, githubVars, policyFact, deliveryFact, earned>>,
           Persists /\ pr'.sub = sub => workers' \in [Workers -> WorkRecord] /\ WorkInv'
    PROVE  DeliveryInv'
<1>0. /\ domain' = domain /\ gh' = gh /\ report' = report /\ clock' = clock
      /\ policyFact' = policyFact /\ deliveryFact' = deliveryFact /\ earned' = earned
  BY DEF githubVars
<1>1. /\ pr \in [sub : {"none", "registered", "delivered"}, head : Heads, st : PullStates, gen : Nat]
      /\ now.head \in Heads /\ now.st \in PullStates
  BY DEF DeliveryInv, DeliveryRecords, PullRequest
<1>2. PICK n \in Nat : n = IF pr.sub = "none" \/ now.head # pr.head THEN pr.gen + 1 ELSE pr.gen
  BY <1>1
<1>3. n # 0
  BY <1>1, <1>2 DEF DeliveryInv, DeliveryRecords
<1>4. pr' = [sub |-> sub, head |-> now.head, st |-> now.st, gen |-> n]
  BY <1>2 DEF Amended
<1>5. /\ pr' \in [sub : {"none", "registered", "delivered"}, head : Heads, st : PullStates, gen : Nat]
      /\ pr'.sub = sub /\ pr'.head = now.head /\ pr'.st = now.st /\ pr'.gen = n
  BY <1>1, <1>4
<1>6. Persists
  BY <1>0, <1>5 DEF Persists
<1>7. workers' \in [Workers -> WorkRecord] /\ WorkInv'
  BY <1>5, <1>6
<1>8. evidence' \subseteq evidence /\ (now.head # pr.head => evidence' = {})
  BY DEF Amended
<1>9. DeliveryRecords'
  <2>1. evidence' \subseteq EvidenceRecord /\ \A e, f \in evidence' : e.id = f.id => e = f
    BY <1>8 DEF DeliveryInv, DeliveryRecords
  <2>2. pr'.sub = "none" <=> pr'.gen = 0
    BY <1>3, <1>5
  <2> QED  BY <1>0, <1>5, <1>7, <2>1, <2>2 DEF DeliveryInv, DeliveryRecords
<1>10. RowInv'
  <2>1. \A e \in evidence' : e.st = "success" => pr'.head \in earned
    BY <1>5, <1>8 DEF DeliveryInv, RowInv
  <2>2. pr'.st = "merged" => gh.head = pr'.head /\ gh.st = "merged"
    BY <1>5
  <2> QED  BY <1>0, <2>1, <2>2 DEF DeliveryInv, RowInv
<1>11. FactInv'
  BY <1>0, <1>6, FactsKept DEF DeliveryInv
<1> QED  BY <1>7, <1>9, <1>10, <1>11 DEF DeliveryInv

\* A registration never touches a delivery, and a submission may replace any row.
LEMMA RowSteps ==
    ASSUME DeliveryInv, registerPullRequests \/ submitDelivery
    PROVE  DeliveryInv'
<1> DEFINE now == workers["agent"].seen
<1>0. /\ "agent" \in Workers /\ UNCHANGED <<domain, githubVars, policyFact, deliveryFact, earned>>
  BY DEF registerPullRequests, submitDelivery
<1>1. now \in PullRequest /\ (now.st = "merged" => gh.head = now.head /\ gh.st = "merged")
  BY <1>0 DEF DeliveryInv, DeliveryRecords, WorkInv, WorkRecord, KnowsTruth
<1> HIDE DEF now
<1>2. CASE registerPullRequests /\ pr.sub = "delivered"
  <2>1. UNCHANGED <<domain, githubVars, pr, evidence, policyFact, deliveryFact, earned>>
        /\ WorkEnds("agent")
    BY <1>2 DEF registerPullRequests
  <2> QED  BY <1>0, <2>1, OneEnds, OnlyWork
<1>3. CASE registerPullRequests /\ pr.sub # "delivered"
  <2>1. Amended("registered", now) /\ WorkEnds("agent")
    BY <1>3 DEF registerPullRequests, now
  <2>2. Persists => workers' \in [Workers -> WorkRecord] /\ WorkInv'
    BY <1>0, <2>1, OneEnds
  <2> QED  BY <1>0, <1>1, <1>3, <2>1, <2>2, AmendedRow
<1>4. CASE submitDelivery
  <2>1. Amended("delivered", now) /\ (ThenEvaluates("agent", "pr") \/ WorkEnds("agent"))
    BY <1>4 DEF submitDelivery, now
  <2>2. Persists /\ pr'.sub = "delivered" => workers' \in [Workers -> WorkRecord] /\ WorkInv'
    BY <1>0, <2>1, OneEnds, OneEvaluates
  <2> QED  BY <1>0, <1>1, <2>1, <2>2, AmendedRow
<1> QED  BY <1>2, <1>3, <1>4

\* A reconciliation amends the row it was computed for and no other.
LEMMA ReconcileStep ==
    ASSUME DeliveryInv, NEW w \in Workers, ReconcilePullRequest(w)
    PROVE  DeliveryInv'
<1> DEFINE now == workers[w].seen
<1>1. now \in PullRequest /\ (now.st = "merged" => gh.head = now.head /\ gh.st = "merged")
  BY DEF DeliveryInv, DeliveryRecords, WorkInv, WorkRecord, KnowsTruth
<1>2. CASE TargetHolds(w)
  <2>1. /\ Amended("delivered", now) /\ (ThenEvaluates(w, "pr") \/ ThenGoesOn(w))
        /\ UNCHANGED <<domain, githubVars, policyFact, deliveryFact, earned>>
    BY <1>2 DEF ReconcilePullRequest
  <2> HIDE DEF now
  <2>2. Persists /\ pr'.sub = "delivered" => workers' \in [Workers -> WorkRecord] /\ WorkInv'
    BY <2>1, OneGoesOn, OneEvaluates
  <2> QED  BY <1>1, <2>1, <2>2, AmendedRow
<1>3. CASE ~TargetHolds(w)
  <2>1. UNCHANGED <<domain, githubVars, pr, evidence, policyFact, deliveryFact, earned>>
        /\ WorkEnds(w)
    BY <1>3 DEF ReconcilePullRequest, rowVars
  <2> QED  BY <2>1, OneEnds, OnlyWork
<1> QED  BY <1>2, <1>3

\* What recordEvidenceSet makes of the rows, of records and with one row per id.
EvidenceOK(rows, ok) ==
    /\ rows \subseteq EvidenceRecord /\ \A e, f \in rows : e.id = f.id => e = f
    /\ \A e \in rows : e.st = "success" => ok

\* Superseding changes which observations count, not what they say.
LEMMA SupersededOK ==
    ASSUME NEW ok, EvidenceOK(evidence, ok), NEW t \in 0 .. 2 * MaxReports + 1
    PROVE  EvidenceOK(Superseded(t), ok)
<1>1. ASSUME NEW e \in evidence
      PROVE  /\ [e EXCEPT !.live = @ /\ e.obs > t] \in EvidenceRecord
             /\ [e EXCEPT !.live = @ /\ e.obs > t].id = e.id
             /\ [e EXCEPT !.live = @ /\ e.obs > t].st = e.st
  <2>1. e \in EvidenceRecord
    BY DEF EvidenceOK
  <2>2. PICK b \in BOOLEAN : b = (e.live /\ e.obs > t)
    OBVIOUS
  <2>3. [e EXCEPT !.live = @ /\ e.obs > t] = [e EXCEPT !.live = b]
    BY <2>2
  <2>4. [e EXCEPT !.live = b] \in EvidenceRecord /\ [e EXCEPT !.live = b].id = e.id
        /\ [e EXCEPT !.live = b].st = e.st
    BY <2>1 DEF EvidenceRecord
  <2> QED  BY <2>3, <2>4
<1>2. Superseded(t) \subseteq EvidenceRecord
  BY <1>1 DEF Superseded
<1>3. ASSUME NEW e \in Superseded(t), NEW f \in Superseded(t), e.id = f.id  PROVE e = f
  <2>1. PICK a \in evidence : e = [a EXCEPT !.live = @ /\ a.obs > t]
    BY DEF Superseded
  <2>2. PICK b \in evidence : f = [b EXCEPT !.live = @ /\ b.obs > t]
    BY DEF Superseded
  <2>3. a = b
    BY <1>1, <1>3, <2>1, <2>2 DEF EvidenceOK
  <2> QED  BY <2>1, <2>2, <2>3
<1>4. ASSUME NEW e \in Superseded(t), e.st = "success"  PROVE ok
  <2>1. PICK a \in evidence : e = [a EXCEPT !.live = @ /\ a.obs > t]
    BY DEF Superseded
  <2> QED  BY <1>1, <1>4, <2>1 DEF EvidenceOK
<1> QED  BY <1>2, <1>3, <1>4 DEF EvidenceOK

\* An observation replaces the one of its id.
LEMMA UpsertedOK ==
    ASSUME NEW ok, NEW rows, EvidenceOK(rows, ok), NEW id \in 0 .. MaxReports + 1,
           NEW st \in {"pending", "success", "failure"}, NEW obs \in 0 .. 2 * MaxReports + 1,
           st = "success" => ok
    PROVE  EvidenceOK(Upserted(rows, id, st, obs), ok)
<1> DEFINE old == {e \in rows : e.id = id}
           new == [id |-> id, st |-> st, obs |-> obs, live |-> TRUE]
<1>1. new \in EvidenceRecord /\ new.id = id /\ new.st = st
  BY DEF EvidenceRecord
<1> HIDE DEF new
<1>2. EvidenceOK((rows \ old) \cup {new}, ok)
  BY <1>1 DEF EvidenceOK
<1> QED  BY <1>2 DEF Upserted, new

\* Evidence is recorded for the head the row names, or not at all.
LEMMA RecordEvidenceStep ==
    ASSUME DeliveryInv, NEW w \in Workers, recordEvidenceSet(w)
    PROVE  DeliveryInv'
<1> DEFINE got == workers[w].got
<1>0. workers[w] \in WorkRecord /\ KnowsTruth(workers[w], earned, gh, pr.sub)
  BY DEF DeliveryInv, DeliveryRecords, WorkInv
<1>1. /\ domain' = domain /\ gh' = gh /\ report' = report /\ clock' = clock /\ pr' = pr
      /\ policyFact' = policyFact /\ deliveryFact' = deliveryFact
      /\ earned' = earned /\ workers[w].pc = "fetched"
  BY DEF recordEvidenceSet, githubVars
<1>2. Persists
  BY <1>1 DEF Persists
<1>3. CASE ~HeadHolds(w)
  <2>1. WorkEnds(w) /\ evidence' = evidence
    BY <1>3 DEF recordEvidenceSet
  <2>2. UNCHANGED <<domain, githubVars, pr, evidence, policyFact, deliveryFact, earned>>
    BY <1>1, <2>1 DEF recordEvidenceSet
  <2> QED  BY <2>1, <2>2, OneEnds, OnlyWork
<1>4. CASE HeadHolds(w)
  <2>0. /\ got \in ReportRecord /\ (got.st = "success" => pr.head \in earned)
        /\ pr.sub = "delivered"
    BY <1>0, <1>1, <1>4 DEF WorkRecord, KnowsTruth, HeadHolds
  <2>1. ThenEvaluates(w, "evidence")
    BY <1>4 DEF recordEvidenceSet
  <2>2. workers' \in [Workers -> WorkRecord] /\ WorkInv'
    BY <1>1, <1>2, <2>0, <2>1, OneEvaluates
  <2>3. PICK obs \in Times(w) :
           evidence' = LET rest == IF w = "hook" /\ domain = "review" THEN evidence
                                   ELSE Superseded(obs)
                       IN  IF got.id = 0 THEN rest ELSE Upserted(rest, got.id, got.st, obs)
    BY <1>4 DEF recordEvidenceSet
  <2>4. obs \in 0 .. 2 * MaxReports + 1
    <3>1. got.at \in 0 .. 2 * MaxReports /\ workers[w].since \in 0 .. MaxReports
          /\ clock \in 0 .. MaxReports /\ MaxReports \in Nat
      BY <1>0, <2>0, DeliveryAssumption DEF ReportRecord, WorkRecord, DeliveryInv, DeliveryRecords
    <3>2. got.at \in 0 .. 2 * MaxReports + 1
          /\ \A t \in workers[w].since .. clock : 2 * t + 1 \in 0 .. 2 * MaxReports + 1
      BY <3>1
    <3>3. obs = got.at \/ \E t \in workers[w].since .. clock : obs = 2 * t + 1
      BY <2>3 DEF Times
    <3> QED  BY <3>2, <3>3
  <2>5. EvidenceOK(evidence, pr.head \in earned)
    BY DEF EvidenceOK, DeliveryInv, DeliveryRecords, RowInv
  <2>6. PICK rest : /\ rest = evidence \/ rest = Superseded(obs)
                    /\ evidence' = IF got.id = 0 THEN rest ELSE Upserted(rest, got.id, got.st, obs)
    BY <2>3
  <2>7. EvidenceOK(rest, pr.head \in earned)
    BY <2>4, <2>5, <2>6, SupersededOK
  <2>8. got.id \in 0 .. MaxReports + 1 /\ got.st \in {"pending", "success", "failure"}
    BY <2>0 DEF ReportRecord
  <2> HIDE DEF got
  <2>9. EvidenceOK(evidence', pr.head \in earned)
    BY <2>0, <2>4, <2>6, <2>7, <2>8, UpsertedOK
  <2>10. DeliveryRecords'
    BY <1>1, <2>2, <2>9 DEF DeliveryInv, DeliveryRecords, EvidenceOK
  <2>11. RowInv'
    BY <1>1, <2>9 DEF DeliveryInv, RowInv, EvidenceOK
  <2>12. FactInv'
    BY <1>1, <1>2, FactsKept DEF DeliveryInv
  <2> QED  BY <2>2, <2>10, <2>11, <2>12 DEF DeliveryInv
<1> QED  BY <1>3, <1>4

\* The observation that decides is one of those that count.
LEMMA LatestCounts ==
    ASSUME DeliveryInv, Counting # {}
    PROVE  Latest \in Counting
<1>0. Counting \subseteq EvidenceRecord /\ MaxReports \in Nat
  BY DeliveryAssumption DEF Counting, DeliveryInv, DeliveryRecords
<1> DEFINE S == {e.obs : e \in Counting}
<1>1. S \subseteq 0 .. 2 * MaxReports + 1 /\ S # {} /\ 2 * MaxReports + 1 \in Nat
  BY <1>0 DEF EvidenceRecord
<1>2. PICK o \in S : \A p \in S : p <= o
  BY <1>1, GreatestNat
<1> DEFINE T == {e \in Counting : e.obs = o}
           I == {e.id : e \in T}
<1>3. T # {}
  BY <1>2
<1>4. I \subseteq 0 .. MaxReports + 1 /\ I # {} /\ MaxReports + 1 \in Nat
  BY <1>0, <1>3 DEF EvidenceRecord
<1>5. PICK i \in I : \A j \in I : j <= i
  BY <1>4, GreatestNat
<1>6. PICK e \in Counting : e.obs = o /\ e.id = i
  BY <1>5
<1>7. ASSUME NEW f \in Counting  PROVE f.obs < e.obs \/ (f.obs = e.obs /\ f.id <= e.id)
  <2>1. f.obs \in S /\ f.obs \in Nat /\ e.obs \in Nat
    BY <1>0, <1>1
  <2>2. f.obs <= e.obs
    BY <1>2, <1>6, <2>1
  <2>3. f.obs = e.obs => f.id \in I
    BY <1>6
  <2>4. f.obs = e.obs => f.id <= e.id
    BY <1>5, <1>6, <2>3
  <2> QED  BY <2>1, <2>2, <2>4
<1>8. \E g \in Counting : \A f \in Counting : f.obs < g.obs \/ (f.obs = g.obs /\ f.id <= g.id)
  BY <1>7
<1> QED  BY <1>8, Zenon DEF Latest

\* Evidence that satisfies the policy was reported by GitHub for the row's head.
LEMMA LeafIsEarned ==
    ASSUME DeliveryInv, evaluateEvidenceLeaf = "satisfied"
    PROVE  pr.head \in earned
<1>1. Counting # {} /\ Latest.st = "success"
  BY DEF evaluateEvidenceLeaf
<1>2. Latest \in evidence
  BY <1>1, LatestCounts DEF Counting
<1> QED  BY <1>1, <1>2 DEF DeliveryInv, RowInv

\* A verdict is published for the revision it was computed from, or not at all.
LEMMA PublishingSteps ==
    ASSUME DeliveryInv, NEW w \in Workers, PublishesPolicy(w) \/ PublishesDelivery(w)
    PROVE  DeliveryInv'
<1>0. workers[w] \in WorkRecord /\ pr.sub = "delivered"
  BY DEF DeliveryInv, DeliveryRecords, WorkInv, KnowsTruth, PublishesPolicy, PublishesDelivery
<1>1. /\ domain' = domain /\ gh' = gh /\ report' = report /\ clock' = clock /\ pr' = pr
      /\ evidence' = evidence /\ earned' = earned
  BY DEF PublishesPolicy, PublishesDelivery, githubVars
<1>2. Persists
  BY <1>1 DEF Persists
<1>3. ASSUME Goes(w, [workers[w] EXCEPT !.pc = "deliver"])
      PROVE  workers' \in [Workers -> WorkRecord] /\ WorkInv'
  <2> DEFINE x == [workers[w] EXCEPT !.pc = "deliver"]
  <2>1. x \in WorkRecord /\ x.pc = "deliver" /\ x.seen = workers[w].seen
    BY <1>0 DEF WorkRecord
  <2> HIDE DEF x
  <2>2. KnowsTruth(x, earned', gh', pr'.sub)
    BY <1>0, <1>1, <1>2, <2>1, WorkIs DEF KnowsTruth
  <2> QED  BY <1>2, <1>3, <2>1, <2>2, GoesOn DEF x
<1>4. ASSUME Goes(w, [workers[w] EXCEPT !.pc = "evaluate", !.rev = <<>>])
      PROVE  workers' \in [Workers -> WorkRecord] /\ WorkInv'
  <2> DEFINE x == [workers[w] EXCEPT !.pc = "evaluate", !.rev = <<>>]
  <2>0. <<>> \in Revisions
    BY DEF Revisions
  <2>1. x \in WorkRecord /\ x.pc = "evaluate" /\ x.seen = workers[w].seen
    BY <1>0, <2>0 DEF WorkRecord
  <2> HIDE DEF x
  <2>2. KnowsTruth(x, earned', gh', pr'.sub)
    BY <1>0, <1>1, <1>2, <2>1, WorkIs DEF KnowsTruth
  <2> QED  BY <1>2, <1>4, <2>1, <2>2, GoesOn DEF x
<1>5. workers' \in [Workers -> WorkRecord] /\ WorkInv'
  <2>1. CASE PublishesPolicy(w)
    BY <1>2, <1>3, <1>4, <2>1, OneEnds DEF PublishesPolicy
  <2>2. CASE PublishesDelivery(w)
    BY <1>2, <1>4, <2>2, OneEnds, OneGoesOn DEF PublishesDelivery
  <2> QED  BY <2>1, <2>2
<1>6. DeliveryRecords' /\ RowInv'
  BY <1>1, <1>5 DEF DeliveryInv, DeliveryRecords, RowInv
<1>7. Revision # <<>> /\ Revision[1] = pr.st /\ Revision[2] = pr.head
  <2>1. Revision = <<pr.st, pr.head, pr.gen, Counting>>
    BY <1>0 DEF Revision
  <2> QED  BY <2>1
<1>8. CASE policyFact' = policyFact /\ deliveryFact' = deliveryFact
  BY <1>2, <1>5, <1>6, <1>8, FactsKept DEF DeliveryInv
<1>9. CASE policyFact' = [rev |-> Revision, status |-> evaluateEvidenceLeaf]
           /\ deliveryFact' = deliveryFact
  <2>1. policyFact'.status = "satisfied" => policyFact'.rev # <<>> /\ policyFact'.rev[2] \in earned'
    BY <1>1, <1>7, <1>9, LeafIsEarned
  <2> QED  BY <1>1, <1>5, <1>6, <1>9, <2>1 DEF DeliveryInv, FactInv
<1>10. CASE deliveryFact' = [rev |-> Revision, status |-> Satisfied] /\ policyFact' = policyFact
  <2>1. Satisfied = "yes" => /\ pr.head \in earned /\ gh.head = pr.head /\ gh.st = "merged"
    <3>1. Satisfied = "yes" => evaluateEvidenceLeaf = "satisfied" /\ pr.st = "merged"
      BY DEF Satisfied
    <3> QED  BY <3>1, LeafIsEarned DEF DeliveryInv, RowInv
  <2>2. deliveryFact'.status = "yes" => /\ deliveryFact'.rev # <<>> /\ deliveryFact'.rev[2] \in earned'
                                        /\ gh'.head = deliveryFact'.rev[2] /\ gh'.st = "merged"
    BY <1>1, <1>7, <1>10, <2>1
  <2> QED  BY <1>1, <1>5, <1>6, <1>10, <2>2 DEF DeliveryInv, FactInv
<1> QED  BY <1>8, <1>9, <1>10 DEF PublishesPolicy, PublishesDelivery, StillCurrent

\* At the start nothing is known, or an open pull request was submitted.
LEMMA DeliveryInitInv == DeliveryInit => DeliveryInv
<1>1. SUFFICES ASSUME DeliveryInit  PROVE DeliveryInv
  OBVIOUS
<1>2. /\ pr \in [sub : {"none", "registered", "delivered"}, head : Heads, st : PullStates, gen : Nat]
      /\ (pr.sub = "none" <=> pr.gen = 0) /\ pr.st \in {"none", "open"}
  BY <1>1, DeliveryAssumption DEF DeliveryInit, PullStates
<1>3. NoReport \in ReportRecord /\ NoReport.st = "pending"
  BY DeliveryAssumption DEF NoReport, ReportRecord
<1>4. report \in [Heads -> ReportRecord] /\ \A h \in Heads : report[h].st = "pending"
  BY <1>1, <1>3 DEF DeliveryInit
<1>5. gh \in [head : Heads, st : {"open", "closed", "merged"}] /\ clock \in 0 .. MaxReports
      /\ domain \in {"ci", "review"} /\ evidence = {}
  BY <1>1, DeliveryAssumption DEF DeliveryInit
<1>6. workers \in [Workers -> WorkRecord] /\ WorkInv
  BY <1>1, NoWorkKnows DEF DeliveryInit, WorkInv
<1>7. DeliveryRecords
  BY <1>2, <1>4, <1>5, <1>6 DEF DeliveryRecords
<1>8. RowInv
  BY <1>2, <1>4, <1>5 DEF RowInv
<1>9. FactInv
  <2>1. policyFact.status = "none" /\ deliveryFact.status \in {"none", "no"}
    BY <1>1 DEF DeliveryInit, NoFact
  <2> QED  BY <2>1 DEF FactInv
<1> QED  BY <1>6, <1>7, <1>8, <1>9 DEF DeliveryInv

\* Every step of GitHub, the poll, the hooks and the agent keeps the invariant.
LEMMA DeliveryStep == DeliveryInv /\ [DeliveryNext]_deliveryVars => DeliveryInv'
<1>1. SUFFICES ASSUME DeliveryInv, [DeliveryNext]_deliveryVars  PROVE DeliveryInv'
  OBVIOUS
<1>2. CASE GitHubNext
  <2>1. ASSUME NEW h \in Heads, Push(h)  PROVE DeliveryInv'
    <3>1. "open" \in {"open", "closed", "merged"}
      OBVIOUS
    <3> QED  BY <1>1, <2>1, <3>1, BranchMoves
  <2>2. ASSUME NEW st \in {"open", "closed", "merged"}, Moves(st)  PROVE DeliveryInv'
    BY <1>1, <2>2, BranchMoves, DeliveryAssumption
  <2> QED  BY <1>1, <1>2, <2>1, <2>2, ReportsStep, StartsOverStep DEF GitHubNext
<1>3. CASE PollSkips \/ AgentVerifies \/ HookReadsHead \/ RunContinues
  BY <1>1, <1>3, LooseSteps
<1>4. CASE registerPullRequests \/ submitDelivery
  BY <1>1, <1>4, RowSteps
<1>5. ASSUME NEW w \in Workers, ReadsTarget(w) \/ Works(w) \/ WorkFails(w)  PROVE DeliveryInv'
  BY <1>1, <1>5, ReadingSteps, ReconcileStep, RecordEvidenceStep, PublishingSteps DEF Works
<1>6. CASE UNCHANGED deliveryVars
  <2>1. UNCHANGED <<domain, githubVars, pr, evidence, policyFact, deliveryFact, earned>>
        /\ workers' = workers
    BY <1>6 DEF deliveryVars, rowVars, githubVars
  <2> QED  BY <1>1, <2>1, AllStay, OnlyWork
<1> QED  BY <1>1, <1>2, <1>3, <1>4, <1>5, <1>6 DEF DeliveryNext

\* The inductive invariant of the delivery.
LEMMA DeliveryInvariant == DeliverySpec => []DeliveryInv
  BY DeliveryInitInv, DeliveryStep, PTL DEF DeliverySpec

\* The delivery row, the evidence and the goroutines have the values the code writes,
\* one row per observation, and a generation from the first registration on.
THEOREM DeliveryTypes == DeliverySpec => []DeliveryTypeOK
<1>1. DeliveryInv => DeliveryTypeOK
  <2>1. SUFFICES ASSUME DeliveryInv  PROVE DeliveryTypeOK
    OBVIOUS
  <2>2. \A e \in evidence : e.obs \in 0 .. 2 * MaxReports + 1
    BY <2>1 DEF DeliveryInv, DeliveryRecords, EvidenceRecord
  <2>3. (pr.sub = "none") = (pr.gen = 0)
    BY <2>1 DEF DeliveryInv, DeliveryRecords
  <2> QED  BY <2>1, <2>2, <2>3 DEF DeliveryTypeOK, DeliveryInv, DeliveryRecords
<1> QED  BY <1>1, DeliveryInvariant, PTL

\* However late answers and pushes interleave, facts that carry the current revision
\* are true: the evidence was reported for the head the row names, and a satisfied
\* delivery is merged at GitHub with that head.
THEOREM SatisfiedIsEarned == DeliverySpec => []SatisfiedWasEarned
<1>1. DeliveryInv => SatisfiedWasEarned
  <2>1. SUFFICES ASSUME DeliveryInv  PROVE SatisfiedWasEarned
    OBVIOUS
  <2>2. gh = [head |-> gh.head, st |-> gh.st]
    BY <2>1 DEF DeliveryInv, DeliveryRecords
  <2>3. Revision # <<>> => Revision[2] = pr.head
    BY DEF Revision
  <2>4. policyFact.rev = Revision /\ policyFact.status = "satisfied" => pr.head \in earned
    BY <2>1, <2>3 DEF DeliveryInv, FactInv
  <2>5. deliveryFact.rev = Revision /\ deliveryFact.status = "yes" =>
          pr.head \in earned /\ gh = [head |-> pr.head, st |-> "merged"]
    BY <2>1, <2>2, <2>3 DEF DeliveryInv, FactInv
  <2> QED  BY <2>4, <2>5 DEF SatisfiedWasEarned
<1> QED  BY <1>1, DeliveryInvariant, PTL
================================================================================
