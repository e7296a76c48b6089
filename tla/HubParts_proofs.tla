---------------------------- MODULE HubParts_proofs ----------------------------
(***************************************************************************)
(* The hub's parts side by side.  MCHub is what TLC checks; the theorems   *)
(* about the parts are about their own specifications.  Here the two meet: *)
(* each part of a behaviour of MCHub is a behaviour of that part, for any  *)
(* choice of parts and any values of the constants, so what is proved of a *)
(* part holds in the composition.                                          *)
(***************************************************************************)
EXTENDS MCHub, HubClaws_proofs, HubReplay_proofs

\* A step of the composition is, for each part, a step of that part or none.
LEMMA StepsOfParts ==
    ASSUME [PartsNext]_hubPartVars
    PROVE  /\ [CreationNext]_creationVars /\ [CronNext]_cronVars /\ [CommentNext]_commentVars
           /\ [TurnNext]_turnVars /\ [LimitNext]_limitVars /\ [VolNext]_volVars
           /\ [DeliveryNext]_deliveryVars /\ [RoutesNext]_routeVars
           /\ focus' = focus
BY DEF PartsNext, hubPartVars

\* The parts do not disturb one another: whatever part runs, each of them sees the
\* steps its own code takes and no others.
THEOREM PartsAreParts ==
    PartsSpec => /\ CreationSpec /\ CronSpec /\ CommentSpec /\ TurnSpec
                 /\ LimitSpec /\ VolSpec /\ DeliverySpec /\ RoutesSpec
<1>1. PartsInit => /\ CreationInit /\ CronInit /\ CommentInit /\ TurnInit
                   /\ LimitInit /\ VolInit /\ DeliveryInit /\ RoutesInit
  BY DEF PartsInit
<1> QED
  BY <1>1, StepsOfParts, PTL
     DEF PartsSpec, CreationSpec, CronSpec, CommentSpec, TurnSpec, LimitSpec, VolSpec,
         DeliverySpec, RoutesSpec

\* The rows, the memory and what is in flight in all parts have values of the kinds
\* the code writes, in the composition as in each part.
THEOREM PartsTypes == PartsSpec => []PartsTypeOK
<1>1. PartsSpec => [](focus \in Parts)
  <2>1. PartsInit => focus \in Parts  BY FociAssumption DEF PartsInit
  <2>2. focus \in Parts /\ [PartsNext]_hubPartVars => (focus \in Parts)'  BY StepsOfParts
  <2> QED  BY <2>1, <2>2, PTL DEF PartsSpec
<1>2. CommentSpec => []CommentTypeOK
  <2>1. CommentInv => CommentTypeOK  BY DEF CommentInv
  <2> QED  BY <2>1, CommentHold, PTL
<1>3. LimitSpec => []LimitTypeOK
  <2>1. LimitInv => LimitTypeOK  BY DEF LimitInv
  <2> QED  BY <2>1, LimitHold, PTL
<1>4. VolSpec => []VolTypeOK
  <2>1. VolInv => VolTypeOK  BY DEF VolInv
  <2> QED  BY <2>1, VolHold, PTL
<1>5. /\ focus \in Parts
      /\ CreationTypeOK /\ CronTypeOK /\ CommentTypeOK /\ TurnTypeOK
      /\ LimitTypeOK /\ VolTypeOK /\ DeliveryTypeOK /\ RoutesTypeOK
      => PartsTypeOK
  BY DEF Parts, PartsTypeOK
<1> QED
  BY <1>1, <1>2, <1>3, <1>4, <1>5, PartsAreParts, CreationTypes, CronTypes, TurnTypes,
     DeliveryTypes, RouteTypesHold, PTL

\* What the parts promise they promise together.
THEOREM PartsSafe ==
    PartsSpec => /\ [](/\ CreationHolds /\ OneDelivery /\ DeliveredOnce /\ PauseMirrored
                       /\ LimitRecordHolds /\ SatisfiedWasEarned /\ NotifiedOnce)
                 /\ DeletedStaysDeleted /\ OverlapRespected /\ VolumesSafe /\ NoReplay
BY PartsAreParts, CreationIsExclusive, OneDeliveryAtATime, MessagesDeliveredOnce,
   PauseFollowsTheRow, LimitRecord, SatisfiedIsEarned, RoutesNotifiedOnce, DeletedIsFinal,
   CronOverlap, LeasesProtectVolumes, NothingIsReplayed, PTL
================================================================================
