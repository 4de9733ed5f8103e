--------------------------- MODULE ControllersProofs ---------------------------
(***************************************************************************)
(* Proofs about the smaller controllers and about all of them together:    *)
(*                                                                         *)
(*  - InfraConfig: its type invariant, and that the primary VIPs and the   *)
(*    first machine network are kept (PrimaryKept), for any specs and      *)
(*    statuses, any number of edits and any number of interrupted writes;  *)
(*  - Observability: its type invariant, and that a rollback is exact      *)
(*    (RollbackExact), for all timeouts and any number of failed calls and *)
(*    of changes made by users and by the cluster;                         *)
(*  - TrustBundle and CertSigner: their type invariants, and that only     *)
(*    approved requests are signed (SignedIfApproved);                     *)
(*  - MCControllers: a behaviour of it is one of each controller.          *)
(***************************************************************************)
EXTENDS MCControllers, OperConfigProofs, EndpointCheckerProofs

--------------------------------------------------------------------------------
(* InfraConfig: the inductive invariant.                                   *)

ObjectType == [spec : SpecType, status : StatusType]

(* What a status that is written is to the one it replaces: it has all     *)
(* VIPs in the new fields, the first ones are the primary ones of the old  *)
(* status and stand in the deprecated fields too.                          *)
Migrated(old, new) ==
  /\ \A f \in Fields : /\ new[f] # <<>> /\ new[f][1] = Primary(old, f)
                       /\ new.old[f] = new[f][1]
  /\ old.nets # <<>> => new.nets # <<>> /\ new.nets[1] = old.nets[1]

VIPsRecorded(status) == \A f \in Fields : status[f] # <<>> \/ status.old[f] # 0

(* Only the controller writes the status, and one reconciliation does it   *)
(* at a time: the status it has read is still there when it writes.        *)
StatusNotStale ==
  icPc # "idle" => /\ icRead.status = icObject.status
                   /\ \/ icWanted.status = icRead.status
                      \/ Migrated(icRead.status, icWanted.status)

IcInv ==
  /\ IcTypeOK
  /\ icObject \in ObjectType /\ icRead \in ObjectType /\ icWanted \in ObjectType
  /\ VIPsRecorded(icObject.status)
  /\ StatusNotStale

--------------------------------------------------------------------------------
(* Lemmas about the two synchronisations.                                  *)

(* A list that is not empty has a first element.                           *)
LEMMA FirstExists ==
  ASSUME NEW S, NEW s \in Seq(S), s # <<>>
  PROVE  s[1] \in S
  OBVIOUS

(* Synchronising the VIPs of one kind fills both its fields and leaves the *)
(* rest of the status alone.                                               *)
LEMMA SyncVIPsEffect ==
  ASSUME NEW s \in StatusType, NEW f \in Fields, s[f] # <<>> \/ s.old[f] # 0
  PROVE  /\ syncVIPs(s, f) \in StatusType
         /\ syncVIPs(s, f)[f] # <<>>
         /\ syncVIPs(s, f)[f][1] = Primary(s, f)
         /\ syncVIPs(s, f).old[f] = Primary(s, f)
         /\ \A g \in Fields \ {f} : syncVIPs(s, f)[g] = s[g] /\ syncVIPs(s, f).old[g] = s.old[g]
         /\ syncVIPs(s, f).nets = s.nets
  <1>1. CASE s[f] = <<>>
    <2>1. syncVIPs(s, f) = [s EXCEPT ![f] = <<s.old[f]>>] /\ s.old[f] # 0
      BY <1>1 DEF syncVIPs
    <2>2. <<s.old[f]>> \in Seq(Nat) /\ <<s.old[f]>> # <<>>
      BY DEF StatusType
    <2>3. syncVIPs(s, f) \in StatusType
      BY <2>1, <2>2 DEF StatusType, Fields
    <2>4. syncVIPs(s, f)[f] = <<s.old[f]>> /\ syncVIPs(s, f).old = s.old /\ syncVIPs(s, f).nets = s.nets
      BY <2>1 DEF StatusType, Fields
    <2>5. \A g \in Fields \ {f} : syncVIPs(s, f)[g] = s[g]
      BY <2>1 DEF StatusType, Fields
    <2> QED
      BY <1>1, <2>2, <2>3, <2>4, <2>5 DEF Primary
  <1>2. CASE s[f] # <<>>
    <2>1. syncVIPs(s, f) = [s EXCEPT !.old[f] = s[f][1]]
      BY <1>2 DEF syncVIPs
    <2>2. s[f] \in Seq(Nat)
      BY DEF StatusType, Fields
    <2>3. s[f][1] \in Nat
      BY <1>2, <2>2, FirstExists
    <2>4. [s.old EXCEPT ![f] = s[f][1]] \in [Fields -> Nat]
      BY <2>3 DEF StatusType
    <2>5. syncVIPs(s, f) = [s EXCEPT !.old = [s.old EXCEPT ![f] = s[f][1]]]
      BY <2>1
    <2>6. syncVIPs(s, f) \in StatusType
      BY <2>4, <2>5 DEF StatusType
    <2>7. /\ syncVIPs(s, f).old = [s.old EXCEPT ![f] = s[f][1]] /\ syncVIPs(s, f).nets = s.nets
          /\ \A g \in Fields : syncVIPs(s, f)[g] = s[g]
      BY <2>5 DEF StatusType, Fields
    <2>8. /\ syncVIPs(s, f).old[f] = s[f][1]
          /\ \A g \in Fields \ {f} : syncVIPs(s, f).old[g] = s.old[g]
      BY <2>7 DEF StatusType
    <2> QED
      BY <1>2, <2>6, <2>7, <2>8 DEF Primary
  <1> QED
    BY <1>1, <1>2

(* Synchronising both kinds migrates the status.                           *)
LEMMA VipsSynchronizeEffect ==
  ASSUME NEW obj \in ObjectType, VIPsRecorded(obj.status)
  PROVE  /\ VipsSynchronize(obj) \in ObjectType
         /\ VipsSynchronize(obj).spec = obj.spec
         /\ IF icPlatform.filled
              THEN /\ Migrated(obj.status, VipsSynchronize(obj).status)
                   /\ VipsSynchronize(obj).status.nets = obj.status.nets
              ELSE VipsSynchronize(obj) = obj
  <1> DEFINE s == obj.status
             t == syncVIPs(s, "api")
             u == syncVIPs(t, "ingress")
  <1>1. s \in StatusType /\ VIPsRecorded(s)
    BY DEF ObjectType
  <1>2. /\ t \in StatusType /\ t["api"] # <<>>
        /\ t["api"][1] = Primary(s, "api") /\ t.old["api"] = Primary(s, "api")
        /\ t["ingress"] = s["ingress"] /\ t.old["ingress"] = s.old["ingress"] /\ t.nets = s.nets
    <2> HIDE DEF s
    <2> QED
      BY <1>1, SyncVIPsEffect DEF VIPsRecorded, Fields
  <1>3. /\ u \in StatusType /\ u["ingress"] # <<>>
        /\ u["ingress"][1] = Primary(t, "ingress") /\ u.old["ingress"] = Primary(t, "ingress")
        /\ u["api"] = t["api"] /\ u.old["api"] = t.old["api"] /\ u.nets = t.nets
    <2>1. t["ingress"] # <<>> \/ t.old["ingress"] # 0
      BY <1>1, <1>2 DEF VIPsRecorded, Fields
    <2> HIDE DEF t
    <2> QED
      BY <1>2, <2>1, SyncVIPsEffect DEF Fields
  <1>4. Primary(t, "ingress") = Primary(s, "ingress")
    BY <1>2 DEF Primary
  <1>5. Migrated(s, u) /\ u.nets = s.nets
    <2> HIDE DEF s, t, u
    <2> QED
      BY <1>2, <1>3, <1>4 DEF Migrated, Fields
  <1>6. CASE icPlatform.filled
    <2>1. VipsSynchronize(obj) = [obj EXCEPT !.status = u]
      BY <1>6 DEF VipsSynchronize
    <2> HIDE DEF u
    <2> QED
      BY <1>3, <1>5, <1>6, <2>1 DEF ObjectType
  <1> QED
    BY <1>6 DEF VipsSynchronize

(* A valid spec becomes the status without a change of the primary VIPs.   *)
LEMMA SyncedEffect ==
  ASSUME NEW old \in StatusType, NEW obj \in ObjectType, Migrated(old, obj.status),
         obj.status.nets = old.nets, Valid(obj)
  PROVE  Synced(obj) \in ObjectType /\ Migrated(old, Synced(obj).status)
  <1> DEFINE vips(f) == IF obj.spec[f] = <<>> THEN obj.status[f] ELSE obj.spec[f]
             new == [api |-> vips("api"), ingress |-> vips("ingress"),
                     nets |-> obj.spec.nets, old |-> obj.status.old]
  <1>1. \A f \in Fields : /\ obj.spec[f] \in Seq(Nat) /\ obj.status[f] \in Seq(Nat)
                         /\ vips(f) \in Seq(Nat)
    BY DEF ObjectType, SpecType, StatusType, Fields
  <1>2. \A f \in Fields : vips(f) # <<>> /\ vips(f)[1] = Primary(old, f) /\ obj.status.old[f] = Primary(old, f)
    BY DEF Migrated, Valid, FirstVIPKept
  <1>3. obj.spec.nets \in Seq(SUBSET Nat) /\ obj.status.old \in [Fields -> Nat]
    BY DEF ObjectType, SpecType, StatusType
  <1>4. old.nets # <<>> => obj.spec.nets # <<>> /\ obj.spec.nets[1] = old.nets[1]
    BY DEF Valid, MachineNetworksKept
  <1>5. /\ Synced(obj).spec = [api |-> vips("api"), ingress |-> vips("ingress"), nets |-> obj.spec.nets]
        /\ Synced(obj).status = new
        /\ Synced(obj) = [spec |-> Synced(obj).spec, status |-> Synced(obj).status]
    BY DEF Synced
  <1>6. \A f \in Fields : new[f] = vips(f)
    BY DEF Fields
  <1>7. new.nets = obj.spec.nets /\ new.old = obj.status.old
    OBVIOUS
  <1>8. Synced(obj) \in ObjectType
    <2> HIDE DEF vips
    <2> QED
      BY <1>1, <1>3, <1>5 DEF ObjectType, SpecType, StatusType, Fields
  <1>9. Migrated(old, new)
    <2> HIDE DEF vips, new
    <2> QED
      BY <1>2, <1>4, <1>6, <1>7 DEF Migrated
  <1> QED
    BY <1>5, <1>8, <1>9

(* A status with all VIPs in the new fields has recorded them.             *)
LEMMA MigratedRecorded ==
  ASSUME NEW old, NEW new, Migrated(old, new)
  PROVE  VIPsRecorded(new)
  BY DEF Migrated, VIPsRecorded

(* The type invariant, but for the counters, follows from the objects.     *)
LEMMA ObjectTypes ==
  ASSUME NEW obj \in ObjectType
  PROVE  /\ \A f \in Fields : obj.spec[f] \in Seq(Nat) /\ obj.status[f] \in Seq(Nat)
         /\ obj.status.old \in [Fields -> Nat]
  BY DEF ObjectType, SpecType, StatusType, Fields

--------------------------------------------------------------------------------
(* The invariant holds initially.                                          *)
LEMMA IcInitInv == IcInit => IcInv
  <1> SUFFICES ASSUME IcInit PROVE IcInv
    OBVIOUS
  <1>1. icObject.spec = NoSpec /\ icObject.status \in InfraStatuses
        /\ icObject = [spec |-> icObject.spec, status |-> icObject.status]
    BY DEF IcInit
  <1>2. NoSpec \in SpecType
    BY DEF NoSpec, SpecType
  <1>3. icObject.status \in StatusType /\ VIPsRecorded(icObject.status)
    BY <1>1, InfraAssumption DEF VIPsRecorded
  <1>4. icObject \in ObjectType /\ icRead \in ObjectType /\ icWanted \in ObjectType
    BY <1>1, <1>2, <1>3 DEF ObjectType, IcInit
  <1>5. IcTypeOK
    <2>1. icLeft \in [edits : 0 .. MaxIcEdits, faults : 0 .. MaxIcFaults]
      BY InfraAssumption DEF IcInit
    <2>2. icDue \in BOOLEAN
      BY DEF IcInit
    <2> QED
      BY <1>4, <2>1, <2>2, ObjectTypes DEF IcInit, IcTypeOK
  <1> QED
    BY <1>3, <1>4, <1>5 DEF IcInv, StatusNotStale, IcInit

(* The reconciliation leaves the status of the object that it will replace *)
(* and a wanted status that keeps the primary VIPs.                        *)
LEMMA SynchronizeWants ==
  ASSUME IcInv, IcSynchronize, icPc' # "idle"
  PROVE  /\ icRead' = icObject /\ icWanted' \in ObjectType
         /\ icWanted'.status = icObject.status \/ Migrated(icObject.status, icWanted'.status)
  <1> DEFINE obj == VipsSynchronize(icObject)
  <1>1. /\ ~(HasSpec /\ ~Valid(obj)) /\ icRead' = icObject
        /\ icWanted' = IF HasSpec THEN Synced(obj) ELSE obj
    BY DEF IcSynchronize
  <1>2. icObject \in ObjectType /\ VIPsRecorded(icObject.status) /\ icObject.status \in StatusType
    BY DEF IcInv, ObjectType
  <1>3. /\ obj \in ObjectType
        /\ IF icPlatform.filled
             THEN /\ Migrated(icObject.status, obj.status)
                  /\ obj.status.nets = icObject.status.nets
             ELSE obj = icObject
    BY <1>2, VipsSynchronizeEffect
  <1> HIDE DEF obj
  <1>4. CASE HasSpec
    BY <1>1, <1>2, <1>3, <1>4, SyncedEffect DEF HasSpec
  <1>5. CASE ~HasSpec
    BY <1>1, <1>3, <1>5
  <1> QED
    BY <1>4, <1>5

(* Every step keeps the invariant: one step of the proof per action.       *)
LEMMA IcStepInv == IcInv /\ [IcNext]_icVars => IcInv'
  <1> SUFFICES ASSUME IcInv, [IcNext]_icVars PROVE IcInv'
    OBVIOUS
  <1>t. ASSUME icObject' \in ObjectType, icRead' \in ObjectType, icWanted' \in ObjectType,
               icPc' \in {"idle", "spec", "status"}, icDue' \in BOOLEAN,
               icReport' \in {"none", "Degraded", "MaybeDegraded", "NotDegraded"},
               icLeft' \in [edits : 0 .. MaxIcEdits, faults : 0 .. MaxIcFaults]
        PROVE  IcTypeOK'
    BY <1>t, ObjectTypes DEF IcTypeOK
  <1>b. /\ icLeft \in [edits : 0 .. MaxIcEdits, faults : 0 .. MaxIcFaults]
        /\ MaxIcEdits \in Nat /\ MaxIcFaults \in Nat
    BY InfraAssumption DEF IcInv, IcTypeOK
  <1>1. CASE IcSynchronize
    <2>1. icObject' = icObject /\ icLeft' = icLeft
      BY <1>1 DEF IcSynchronize
    <2>2. /\ icPc' \in {"idle", "spec"} /\ icDue' \in BOOLEAN
          /\ icReport' \in {icReport, "Degraded"}
          /\ icPc' = "idle" => icRead' = icRead /\ icWanted' = icWanted
      BY <1>1 DEF IcSynchronize, IcInv, IcTypeOK
    <2>3. icRead' \in ObjectType /\ icWanted' \in ObjectType /\ StatusNotStale'
      BY <1>1, <2>1, <2>2, SynchronizeWants DEF IcInv, StatusNotStale
    <2>4. IcTypeOK'
      BY <2>1, <2>2, <2>3, <1>t DEF IcInv, IcTypeOK
    <2>5. VIPsRecorded(icObject.status)'
      BY <2>1 DEF IcInv, VIPsRecorded
    <2> QED
      BY <2>1, <2>3, <2>4, <2>5 DEF IcInv
  <1>2. CASE IcWriteSpec
    <2>1. icObject' \in ObjectType /\ icObject'.status = icObject.status
      BY <1>2 DEF IcWriteSpec, IcInv, ObjectType
    <2>2. IcTypeOK'
      BY <1>2, <2>1, <1>t DEF IcWriteSpec, IcInv, IcTypeOK
    <2>3. VIPsRecorded(icObject.status)'
      BY <2>1 DEF IcInv, VIPsRecorded
    <2>4. StatusNotStale'
      BY <1>2, <2>1 DEF IcWriteSpec, IcInv, StatusNotStale
    <2> QED
      BY <1>2, <2>1, <2>2, <2>3, <2>4 DEF IcWriteSpec, IcInv
  <1>3. CASE IcWriteStatus
    <2>1. icObject' \in ObjectType /\ icDue' \in BOOLEAN
      BY <1>3 DEF IcWriteStatus, IcInv, IcTypeOK, ObjectType
    <2>2. icObject'.status = icWanted.status \/ icObject'.status = icObject.status
      BY <1>3 DEF IcWriteStatus, IcInv, ObjectType
    <2>3. VIPsRecorded(icWanted.status)
      BY <1>3, MigratedRecorded DEF IcWriteStatus, IcInv, StatusNotStale
    <2>4. VIPsRecorded(icObject.status)'
      BY <2>2, <2>3 DEF IcInv, VIPsRecorded
    <2>5. IcTypeOK'
      BY <1>3, <2>1, <1>t DEF IcWriteStatus, IcInv, IcTypeOK
    <2>6. StatusNotStale'
      BY <1>3 DEF IcWriteStatus, StatusNotStale
    <2> QED
      BY <1>3, <2>1, <2>4, <2>5, <2>6 DEF IcWriteStatus, IcInv
  <1>4. CASE IcFails
    <2>1. icLeft' \in [edits : 0 .. MaxIcEdits, faults : 0 .. MaxIcFaults]
      <3>1. icLeft.faults > 0 /\ icLeft' = [icLeft EXCEPT !.faults = @ - 1]
        BY <1>4 DEF IcFails, IcFault
      <3> QED
        BY <1>b, <3>1
    <2>2. /\ icPc' = "idle" /\ icDue' = TRUE /\ icReport' \in {icReport, "MaybeDegraded"}
          /\ UNCHANGED <<icObject, icRead, icWanted>>
      BY <1>4 DEF IcFails
    <2>3. IcTypeOK'
      BY <2>1, <2>2, <1>t DEF IcInv, IcTypeOK
    <2>4. VIPsRecorded(icObject.status)'
      BY <2>2 DEF IcInv, VIPsRecorded
    <2>5. StatusNotStale'
      BY <2>2 DEF StatusNotStale
    <2> QED
      BY <2>2, <2>3, <2>4, <2>5 DEF IcInv
  <1>5. CASE EditInfrastructure
    <2>1. icLeft' \in [edits : 0 .. MaxIcEdits, faults : 0 .. MaxIcFaults]
      <3>1. icLeft.edits > 0 /\ icLeft' = [icLeft EXCEPT !.edits = @ - 1]
        BY <1>5 DEF EditInfrastructure
      <3> QED
        BY <1>b, <3>1
    <2>2. icObject' \in ObjectType /\ icObject'.status = icObject.status
      BY <1>5, InfraAssumption DEF EditInfrastructure, IcInv, ObjectType
    <2>3. icDue' \in BOOLEAN
      BY <1>5 DEF EditInfrastructure
    <2>4. IcTypeOK'
      BY <1>5, <2>1, <2>2, <2>3, <1>t DEF EditInfrastructure, IcInv, IcTypeOK
    <2>5. VIPsRecorded(icObject.status)'
      BY <2>2 DEF IcInv, VIPsRecorded
    <2>6. StatusNotStale'
      BY <1>5, <2>2 DEF EditInfrastructure, IcInv, StatusNotStale
    <2> QED
      BY <1>5, <2>2, <2>4, <2>5, <2>6 DEF EditInfrastructure, IcInv
  <1>6. CASE UNCHANGED icVars
    <2>1. IcTypeOK'
      BY <1>6 DEF icVars, IcInv, IcTypeOK
    <2>2. VIPsRecorded(icObject.status)' /\ StatusNotStale'
      BY <1>6 DEF icVars, IcInv, VIPsRecorded, StatusNotStale
    <2> QED
      BY <1>6, <2>1, <2>2 DEF icVars, IcInv
  <1> QED
    BY <1>1, <1>2, <1>3, <1>4, <1>5, <1>6 DEF IcNext, IcReconcile

--------------------------------------------------------------------------------
(* Whatever users ask for, spec and status stay lists of VIPs and networks *)
(* and the controller between two writes (Reconcile).                      *)
THEOREM IcTypeCorrect == IcSpec => []IcTypeOK
  <1>1. IcInv => IcTypeOK
    BY DEF IcInv
  <1> QED
    BY <1>1, IcInitInv, IcStepInv, PTL DEF IcSpec

(* PrimaryKept for all specs, statuses, edits and interruptions: a status  *)
(* that is written keeps the first VIPs and the first machine network, and *)
(* shows the first VIP in the deprecated field (SpecStatusSynchronize,     *)
(* VipsSynchronize, updateInfrastructureConfig).                           *)
THEOREM PrimaryVIPsKept == IcSpec => PrimaryKept
  <1>1. IcInv /\ IcNext => PrimaryStep
    <2> SUFFICES ASSUME IcInv, IcNext PROVE PrimaryStep
      OBVIOUS
    <2>1. CASE icObject'.status = icObject.status
      BY <2>1 DEF PrimaryStep
    <2>2. CASE icObject'.status # icObject.status
      <3>1. IcWriteStatus
        BY <2>2 DEF IcNext, IcReconcile, IcSynchronize, IcWriteSpec, IcFails, EditInfrastructure,
                    IcInv, ObjectType
      <3>2. icObject'.status = icWanted.status /\ Migrated(icObject.status, icWanted.status)
        BY <2>2, <3>1 DEF IcWriteStatus, IcInv, StatusNotStale, ObjectType
      <3> QED
        BY <3>2 DEF PrimaryStep, Migrated, Primary
    <2> QED
      BY <2>1, <2>2
  <1>2. IcInv /\ [IcNext]_icVars => [PrimaryStep]_icVars
    BY <1>1
  <1> QED
    BY <1>2, IcInitInv, IcStepInv, PTL DEF IcSpec, PrimaryKept

--------------------------------------------------------------------------------
(* Observability: the inductive invariant.                                 *)

(* A namespace somebody else created does not carry CNO's annotation, and  *)
(* the reconciliation is not about to give it one, unless it raced.        *)
ForeignUnmarked ==
  /\ obWorld.ns = "absent" => ~obWorld.marked
  /\ obWorld.ns = "user" /\ ~obRaced => ~obWorld.marked
  /\ obPc = "Namespace" /\ obMark /\ obWorld.ns = "user" => obRaced

(* What the rollback has deleted stays deleted until the rollback is over: *)
(* the lifecycle manager finds no Subscription to install from.            *)
StaysTornDown ==
  /\ obPc \in {"DeleteOperatorGroup", "DeleteCSVs", "DeleteNamespace", "latch"} => ~obWorld.sub
  /\ obPc \in {"DeleteCSVs", "DeleteNamespace", "latch"} => ~obWorld.group
  /\ obPc \in {"DeleteNamespace", "latch"} => ~obWorld.csv
  /\ obPc = "latch" /\ obWorld.ns = "cno" => ~obWorld.marked

ObInv == ObTypeOK /\ ForeignUnmarked /\ StaysTornDown

--------------------------------------------------------------------------------
(* The condition that is written is one of the known ones.                 *)
LEMMA SetConditionType ==
  ASSUME NEW c \in [reason : Reasons, age : 0 .. clusterAvailableTimeout + 1], NEW r \in Reasons
  PROVE  /\ SetCondition(c, r) \in [reason : Reasons, age : 0 .. clusterAvailableTimeout + 1]
         /\ SetCondition(c, r).reason = r
  BY TimeoutsAssumption DEF SetCondition

(* The world without the operator's namespace is a possible one.           *)
LEMMA WithoutNamespaceType == ASSUME NEW w \in ObWorld PROVE WithoutNamespace(w) \in ObWorld
  BY DEF WithoutNamespace, ObWorld

(* The invariant holds initially.                                          *)
LEMMA ObInitInv == ObInit => ObInv
  <1> SUFFICES ASSUME ObInit PROVE ObInv
    OBVIOUS
  <1>1. ObTypeOK
    <2>1. obWorld \in ObWorld
      <3>1. {0} \subseteq 0 .. installTimeout + 1 /\ {"unset"} \subseteq Policies
        BY TimeoutsAssumption DEF Policies
      <3> QED
        BY <3>1, Zenon DEF ObInit, ObWorld
    <2>2. obLeft \in [faults : 0 .. MaxObFaults, edits : 0 .. MaxObEdits]
      BY ObBoundsAssumption DEF ObInit
    <2>3. obCond \in [reason : Reasons, age : 0 .. clusterAvailableTimeout + 1]
      BY TimeoutsAssumption DEF ObInit, Reasons
    <2> QED
      BY <2>1, <2>2, <2>3 DEF ObInit, ObTypeOK, ObSteps
  <1>2. ForeignUnmarked
    BY DEF ObInit, ForeignUnmarked
  <1>3. StaysTornDown
    BY DEF ObInit, StaysTornDown
  <1> QED
    BY <1>1, <1>2, <1>3 DEF ObInv

(* Every step keeps the invariant: one step of the proof per action.       *)
LEMMA ObStepInv == ObInv /\ [ObNext]_obVars => ObInv'
  <1> SUFFICES ASSUME ObInv, [ObNext]_obVars PROVE ObInv'
    OBVIOUS
  <1> USE TimeoutsAssumption, ObBoundsAssumption
      DEF ObInv, ObTypeOK, ForeignUnmarked, StaysTornDown
  <1>c. ASSUME NEW r \in Reasons, setNetworkObservabilityCondition(r)
        PROVE  obCond' \in [reason : Reasons, age : 0 .. clusterAvailableTimeout + 1]
    BY <1>c, SetConditionType DEF setNetworkObservabilityCondition
  <1>1. CASE ObDecide
    <2>1. shouldInstall(obCond.reason, obWorld) \in {"install", "stop"} \cup Reasons
      BY DEF shouldInstall, Reasons, openReasons, terminalReasons
    <2>2. obCond' \in [reason : Reasons, age : 0 .. clusterAvailableTimeout + 1]
      BY <1>1, <1>c, <2>1 DEF ObDecide, Continue, Return
    <2> QED
      BY <1>1, <2>2 DEF ObDecide, Continue, Return, ObSteps
  <1>2. CASE ObCheckTimeout
    <2>1. PICK seen \in BOOLEAN :
            /\ ReadAvailable(seen)
            /\ IF hasInstallTimedOut(obCond, obWorld, seen)
                 THEN Continue(teardownSteps[1]) /\ obVerdict' = installFailure(obWorld, seen)
                 ELSE Continue("check") /\ UNCHANGED obVerdict
      BY <1>2 DEF ObCheckTimeout
    <2>2. obLeft' \in [faults : 0 .. MaxObFaults, edits : 0 .. MaxObEdits]
      BY <2>1 DEF ReadAvailable
    <2>3. obVerdict' \in {"none"} \cup installFailureReasons
      BY <2>1 DEF installFailure, installFailureReasons
    <2>4. obPc' \in {"DeleteSubscription", "check"} /\ obDue' = obDue
      BY <2>1 DEF Continue, teardownSteps
    <2> QED
      BY <1>2, <2>2, <2>3, <2>4 DEF ObCheckTimeout, ObSteps
  <1>3. CASE ObCheckInstalled
    <2>1. obLeft' \in [faults : 0 .. MaxObFaults, edits : 0 .. MaxObEdits]
      BY <1>3 DEF ObCheckInstalled, ReadAvailable
    <2>2. obCond' \in [reason : Reasons, age : 0 .. clusterAvailableTimeout + 1]
      <3>1. {"InstallingOperator", "WaitingForCluster"} \subseteq Reasons
        BY DEF Reasons, installAttemptReasons, applyingReasons
      <3> QED
        BY <1>3, <1>c, <3>1 DEF ObCheckInstalled
    <2>3. obPc' \in {"collector", "mark", "idle"} /\ obDue' \in BOOLEAN
      BY <1>3 DEF ObCheckInstalled, Continue, Requeue
    <2> QED
      BY <1>3, <2>1, <2>2, <2>3 DEF ObCheckInstalled, ObSteps
  <1>4. CASE markNamespaceIfCNOOwned
    <2>0. obMark' \in BOOLEAN
      BY <1>4 DEF markNamespaceIfCNOOwned, IsCNOOwned, ObWorld
    <2>1. /\ obLeft' \in [faults : 0 .. MaxObFaults, edits : 0 .. MaxObEdits]
          /\ obPc' = "Namespace" /\ obDue' = obDue
      BY <1>4 DEF markNamespaceIfCNOOwned, IsCNOOwned, Continue, applySteps, ObWorld
    <2>2. obMark' /\ obWorld.ns = "user" => obRaced
      BY <1>4 DEF markNamespaceIfCNOOwned, IsCNOOwned
    <2> QED
      BY <1>4, <2>0, <2>1, <2>2 DEF markNamespaceIfCNOOwned, ObSteps
  <1>5. CASE installNetObservOperator
    <2>1. PICK i \in DOMAIN applySteps :
            /\ obPc = applySteps[i]
            /\ obWorld' = Applied(obWorld, obPc)
            /\ IF i = Len(applySteps) THEN Requeue ELSE Continue(applySteps[i + 1])
            /\ UNCHANGED <<obMark, obVerdict, obCond, obRaced, obLeft>>
      BY <1>5 DEF installNetObservOperator
    <2>2. \/ obPc = "Namespace" /\ obPc' = "OperatorGroup" /\ obDue' = obDue
          \/ obPc = "OperatorGroup" /\ obPc' = "Subscription" /\ obDue' = obDue
          \/ obPc = "Subscription" /\ obPc' = "idle" /\ obDue' = TRUE
      BY <2>1 DEF applySteps, Continue, Requeue
    <2>3. obWorld' \in ObWorld
      BY <2>1, <2>2 DEF Applied, ObWorld
    <2>4. obWorld'.marked = (IF obPc = "Namespace" THEN obMark ELSE obWorld.marked)
      BY <2>1, <2>2 DEF Applied, ObWorld
    <2>5. obWorld'.ns = (IF obPc = "Namespace" /\ obWorld.ns = "absent" THEN "cno" ELSE obWorld.ns)
      BY <2>1, <2>2 DEF Applied, ObWorld
    <2> QED
      BY <2>1, <2>2, <2>3, <2>4, <2>5 DEF ObSteps
  <1>6. CASE ObApplyRejected
    <2>1. "OperatorApplyFailed" \in Reasons
      BY DEF Reasons, installAttemptReasons, applyingReasons
    <2> QED
      BY <1>6, <1>c, <2>1 DEF ObApplyRejected, Requeue, ObSteps
  <1>7. CASE ObCheckCollector
    <2>1. "CreatingFlowCollector" \in Reasons
      BY DEF Reasons, installAttemptReasons, applyingReasons
    <2>2. obCond' \in [reason : Reasons, age : 0 .. clusterAvailableTimeout + 1]
      BY <1>7, <1>c, <2>1 DEF ObCheckCollector
    <2> QED
      BY <1>7, <2>2 DEF ObCheckCollector, Continue, ObSteps
  <1>8. CASE ObApplyCollector
    BY <1>8 DEF ObApplyCollector, Continue, ObSteps, ObWorld
  <1>9. CASE ObInstalled
    <2>1. "Installed" \in Reasons
      BY DEF Reasons, terminalReasons
    <2> QED
      BY <1>9, <1>c, <2>1 DEF ObInstalled, Return, ObSteps
  <1>10. CASE teardownNetObservOperator
    <2>1. PICK i \in DOMAIN teardownSteps :
            /\ obPc = teardownSteps[i]
            /\ obWorld' = TornDown(obWorld, obPc)
            /\ Continue(IF i = Len(teardownSteps) THEN "latch" ELSE teardownSteps[i + 1])
            /\ UNCHANGED <<obMark, obVerdict, obCond, obRaced, obLeft>>
      BY <1>10 DEF teardownNetObservOperator
    <2>2. /\ obDue' = obDue
          /\ \/ obPc = "DeleteSubscription" /\ obPc' = "DeleteOperatorGroup"
             \/ obPc = "DeleteOperatorGroup" /\ obPc' = "DeleteCSVs"
             \/ obPc = "DeleteCSVs" /\ obPc' = "DeleteNamespace"
             \/ obPc = "DeleteNamespace" /\ obPc' = "latch"
      BY <2>1 DEF teardownSteps, Continue
    <2>3. obWorld' \in ObWorld
      <3>1. CASE obPc = "DeleteNamespace"
        BY <2>1, <3>1, WithoutNamespaceType DEF TornDown
      <3>2. CASE obPc # "DeleteNamespace"
        BY <2>1, <2>2, <3>2 DEF TornDown, ObWorld
      <3> QED
        BY <3>1, <3>2
    <2>4. ForeignUnmarked'
      BY <2>1, <2>2 DEF TornDown, WithoutNamespace, ObWorld
    <2>5. StaysTornDown'
      BY <2>1, <2>2 DEF TornDown, WithoutNamespace, ObWorld
    <2> QED
      BY <2>1, <2>2, <2>3, <2>4, <2>5 DEF ObSteps
  <1>11. CASE ObLatchFailure
    <2>1. obVerdict \in Reasons
      BY DEF Reasons, terminalReasons
    <2> QED
      BY <1>11, <1>c, <2>1 DEF ObLatchFailure, Return, ObSteps
  <1>12. CASE ObCallFails
    <2>1. FailureReason \in Reasons
      BY DEF FailureReason, Reasons, installAttemptReasons, applyingReasons
    <2>2. obCond' \in [reason : Reasons, age : 0 .. clusterAvailableTimeout + 1]
      BY <1>12, <2>1, SetConditionType DEF ObCallFails
    <2> QED
      BY <1>12, <2>2 DEF ObCallFails, ObFault, Requeue, ObSteps
  <1>13. CASE ObTick
    <2>1. obWorld' \in ObWorld
      BY <1>13 DEF ObTick, ObOlder, ObWorld
    <2>2. obCond' \in [reason : Reasons, age : 0 .. clusterAvailableTimeout + 1]
      BY <1>13 DEF ObTick, ObOlder
    <2>3. \A f \in {"ns", "marked", "group", "sub", "csv"} : obWorld'[f] = obWorld[f]
      BY <1>13 DEF ObTick, ObWorld
    <2> QED
      BY <1>13, <2>1, <2>2, <2>3 DEF ObTick
  <1>14. CASE OlmInstalls
    <2>1. obWorld' \in ObWorld
      BY <1>14 DEF OlmInstalls, ObWorld
    <2>2. ForeignUnmarked' /\ StaysTornDown'
      BY <1>14 DEF OlmInstalls, ObWorld
    <2> QED
      BY <1>14, <2>1, <2>2 DEF OlmInstalls
  <1>15. CASE EditPolicy
    <2>1. obLeft' \in [faults : 0 .. MaxObFaults, edits : 0 .. MaxObEdits]
      BY <1>15 DEF EditPolicy, ObEdit
    <2>2. obWorld' \in ObWorld
      BY <1>15 DEF EditPolicy, ObWorld
    <2>3. \A f \in {"ns", "marked", "group", "sub", "csv"} : obWorld'[f] = obWorld[f]
      BY <1>15 DEF EditPolicy, ObWorld
    <2> QED
      BY <1>15, <2>1, <2>2, <2>3 DEF EditPolicy
  <1>16. CASE EditGate
    <2>1. obLeft' \in [faults : 0 .. MaxObFaults, edits : 0 .. MaxObEdits]
      BY <1>16 DEF EditGate, ObEdit
    <2>2. obWorld' \in ObWorld
      BY <1>16 DEF EditGate, ObWorld
    <2>3. \A f \in {"ns", "marked", "group", "sub", "csv"} : obWorld'[f] = obWorld[f]
      BY <1>16 DEF EditGate, ObWorld
    <2> QED
      BY <1>16, <2>1, <2>2, <2>3 DEF EditGate, ObSteps
  <1>17. CASE ClusterChanges
    <2>1. obLeft' \in [faults : 0 .. MaxObFaults, edits : 0 .. MaxObEdits]
      BY <1>17 DEF ClusterChanges, ObEdit
    <2>2. obWorld' \in ObWorld
      <3>1. CASE obWorld' = [obWorld EXCEPT !.sno = ~@]
        BY <3>1 DEF ObWorld
      <3>2. CASE obWorld' = [obWorld EXCEPT !.available = ~@, !.availableAge = 0]
        <4>1. ASSUME NEW w \in ObWorld PROVE [w EXCEPT !.availableAge = 0] \in ObWorld
          BY DEF ObWorld
        <4>2. [obWorld EXCEPT !.available = ~@] \in ObWorld
          BY DEF ObWorld
        <4>3. obWorld' = [[obWorld EXCEPT !.available = ~@] EXCEPT !.availableAge = 0]
          BY <3>2
        <4> QED
          BY <4>1, <4>2, <4>3
      <3> QED
        BY <1>17, <3>1, <3>2 DEF ClusterChanges
    <2>3. \A f \in {"ns", "marked", "group", "sub", "csv"} : obWorld'[f] = obWorld[f]
      BY <1>17 DEF ClusterChanges, ObWorld
    <2> QED
      BY <1>17, <2>1, <2>2, <2>3 DEF ClusterChanges
  <1>18. CASE UserInstalls
    <2>1. obLeft' \in [faults : 0 .. MaxObFaults, edits : 0 .. MaxObEdits]
      BY <1>18 DEF UserInstalls, ObEdit
    <2>2. obWorld' \in ObWorld /\ obRaced' \in BOOLEAN
      BY <1>18 DEF UserInstalls, ObWorld
    <2>3. ForeignUnmarked' /\ StaysTornDown'
      BY <1>18 DEF UserInstalls, ObWorld
    <2> QED
      BY <1>18, <2>1, <2>2, <2>3 DEF UserInstalls
  <1>19. CASE UserDeletesNamespace
    <2>1. obLeft' \in [faults : 0 .. MaxObFaults, edits : 0 .. MaxObEdits]
      BY <1>19 DEF UserDeletesNamespace, ObEdit
    <2>2. obWorld' \in ObWorld
      BY <1>19, WithoutNamespaceType DEF UserDeletesNamespace
    <2>3. ForeignUnmarked' /\ StaysTornDown'
      BY <1>19 DEF UserDeletesNamespace, WithoutNamespace, ObWorld
    <2> QED
      BY <1>19, <2>1, <2>2, <2>3 DEF UserDeletesNamespace
  <1>20. CASE UNCHANGED obVars
    BY <1>20 DEF obVars
  <1> QED
    BY <1>1, <1>2, <1>3, <1>4, <1>5, <1>6, <1>7, <1>8, <1>9, <1>10, <1>11, <1>12, <1>13,
       <1>14, <1>15, <1>16, <1>17, <1>18, <1>19, <1>20 DEF ObNext, ObReconcile

(* Whatever is read, written and retried, the condition keeps one of the   *)
(* known reasons and the clocks stay within their timeouts                 *)
(* (network_observability_controller.go, Reconcile).                       *)
THEOREM ObTypeCorrect == ObSpec => []ObTypeOK
  <1>1. ObSpec => []ObInv
    BY ObInitInv, ObStepInv, PTL DEF ObSpec
  <1>2. ObInv => ObTypeOK
    BY DEF ObInv
  <1> QED
    BY <1>1, <1>2, PTL

(* Only the end of the rollback writes a reason that makes a failure final *)
LEMMA FailureLatched ==
  ASSUME ObInv, ObNext,
         obCond.reason \notin installFailureReasons, obCond'.reason \in installFailureReasons
  PROVE  ObLatchFailure
  <1> USE DEF ObInv, ObTypeOK
  <1>c. ASSUME NEW r \in Reasons \ installFailureReasons, setNetworkObservabilityCondition(r)
        PROVE  FALSE
    BY <1>c, SetConditionType DEF setNetworkObservabilityCondition
  <1>r. {"InstallingOperator", "WaitingForCluster", "OperatorApplyFailed", "CreatingFlowCollector",
         "FlowCollectorApplyFailed", "RollbackFailed", "Installed", "PreExisting",
         "FeatureGateDisabled", "NoAction", "SNO"} \subseteq Reasons \ installFailureReasons
    BY DEF Reasons, installAttemptReasons, applyingReasons, terminalReasons, openReasons,
           installFailureReasons
  <1>1. CASE ObDecide
    <2>1. shouldInstall(obCond.reason, obWorld)
            \in {"install", "stop", "FeatureGateDisabled", "NoAction", "PreExisting", "SNO"}
      BY DEF shouldInstall
    <2> QED
      BY <1>1, <1>c, <1>r, <2>1 DEF ObDecide
  <1>2. CASE ObCheckInstalled
    BY <1>2, <1>c, <1>r DEF ObCheckInstalled
  <1>3. CASE ObApplyRejected \/ ObInstalled \/ ObCheckCollector
    BY <1>3, <1>c, <1>r DEF ObApplyRejected, ObInstalled, ObCheckCollector
  <1>4. CASE ObCallFails
    <2>1. FailureReason \in Reasons \ installFailureReasons
      BY <1>r DEF FailureReason
    <2> QED
      BY <1>4, <2>1, SetConditionType DEF ObCallFails
  <1>5. CASE ObTick
    BY <1>5 DEF ObTick
  <1> QED
    BY <1>1, <1>2, <1>3, <1>4, <1>5
    DEF ObNext, ObReconcile, ObCheckTimeout, markNamespaceIfCNOOwned, installNetObservOperator,
        ObApplyCollector, teardownNetObservOperator, OlmInstalls, EditPolicy, EditGate,
        ClusterChanges, UserInstalls, UserDeletesNamespace

(* Only the deletion of a marked namespace can take a user's one away.     *)
LEMMA UserNamespaceKept ==
  ASSUME ObInv, ObNext, obWorld.ns = "user", ~obRaced
  PROVE  obWorld'.ns = "user"
  <1> USE DEF ObInv, ObTypeOK, ForeignUnmarked
  <1>1. CASE installNetObservOperator
    BY <1>1 DEF installNetObservOperator, Applied, applySteps, ObWorld
  <1>2. CASE teardownNetObservOperator
    BY <1>2 DEF teardownNetObservOperator, TornDown, teardownSteps, ObWorld
  <1>3. CASE ObTick \/ OlmInstalls \/ ObApplyCollector
    BY <1>3 DEF ObTick, OlmInstalls, ObApplyCollector, ObWorld
  <1>4. CASE EditPolicy \/ EditGate \/ ClusterChanges \/ UserInstalls \/ UserDeletesNamespace
    BY <1>4 DEF EditPolicy, EditGate, ClusterChanges, UserInstalls, UserDeletesNamespace, ObWorld
  <1> QED
    BY <1>1, <1>2, <1>3, <1>4
    DEF ObNext, ObReconcile, ObDecide, ObCheckTimeout, ObCheckInstalled, markNamespaceIfCNOOwned,
        ObApplyRejected, ObCheckCollector, ObInstalled, ObLatchFailure, ObCallFails

(* RollbackExact of every installation: however often calls fail, the      *)
(* operator restarts and users interfere, a rollback never deletes a       *)
(* namespace that somebody else created and a failure becomes final only   *)
(* when nothing CNO knows as its own is left (teardownNetObservOperator,   *)
(* markNamespaceIfCNOOwned).                                               *)
THEOREM RollbackIsExact == ObSpec => RollbackExact
  <1>1. ObInv /\ ObNext => RollbackStep
    <2> SUFFICES ASSUME ObInv, ObNext PROVE RollbackStep
      OBVIOUS
    <2>1. obWorld.ns = "user" /\ ~obRaced => obWorld'.ns = "user"
      BY UserNamespaceKept
    <2>2. ASSUME obCond.reason \notin installFailureReasons, obCond'.reason \in installFailureReasons
          PROVE  /\ ~obWorld'.sub /\ ~obWorld'.group /\ ~obWorld'.csv
                 /\ obWorld'.ns = "cno" => ~obWorld'.marked
      <3>1. obPc = "latch" /\ obWorld' = obWorld
        BY <2>2, FailureLatched DEF ObLatchFailure
      <3> QED
        BY <3>1 DEF ObInv, StaysTornDown
    <2> QED
      BY <2>1, <2>2 DEF RollbackStep
  <1>2. ObInv /\ [ObNext]_obVars => [RollbackStep]_obVars
    BY <1>1
  <1> QED
    BY <1>2, ObInitInv, ObStepInv, PTL DEF ObSpec, RollbackExact

--------------------------------------------------------------------------------
(* TrustBundle: the inductive invariant.  The bundles that the two         *)
(* controllers hold between two steps have to be well formed too.          *)

ProxyStatuses == [settings : ProxySettings, noProxy : SUBSET (Networks \cup {"missing"} \cup NoProxies)]
WorkerRequests == {ProxyRequest} \cup CANames
InjectorRequests == {BundleRequest} \cup Labelled
WorkerType ==
  [queue : SUBSET WorkerRequests, request : WorkerRequests \cup {NoRequest}, bundle : SUBSET Certs]
InjectorType ==
  [queue : SUBSET InjectorRequests, request : InjectorRequests \cup {NoRequest}, known : SUBSET Certs,
   bundle : SUBSET Certs, todo : SUBSET Labelled, errors : 0 .. MaxErrors + 1]
TbLeftType == [edits : 0 .. MaxTbEdits, faults : 0 .. MaxTbFaults]
CAType == [CANames -> Certificates \cup {"absent", "invalid"}]
TbReportsType == [{"ProxyConfig", "InjectorConfig"} -> TbReports]

TbInv ==
  /\ tbProxy \in [spec : ProxySpecs, status : ProxyStatuses]
  /\ tbCAs \in CAType /\ tbNetwork \in Networks \cup {"missing"}
  /\ tbBundle \in SUBSET Certs /\ tbMaps \in [Labelled -> SUBSET Certs]
  /\ tbWorker \in WorkerType /\ tbInjector \in InjectorType
  /\ tbReports \in TbReportsType
  /\ tbLeft \in TbLeftType

(* Only certificates get into a bundle: what does not parse is refused     *)
(* before it is merged.                                                    *)
LEMMA MergedBundleType ==
  ASSUME TbInv, TrustedCAValid(tbProxy.spec)
  PROVE  MergedBundle(tbProxy.spec, tbCAs) \in SUBSET Certs
  <1>1. tbProxy.spec.ca \in CANames \cup {"unset"}
    BY DEF TbInv, ProxySpecs
  <1>2. tbProxy.spec.ca # "unset" => tbCAs[tbProxy.spec.ca] \in Certificates
    BY DEF TrustedCAValid, validateTrustedCA
  <1> QED
    BY <1>2 DEF MergedBundle, Certs

LEMMA NewStatusType ==
  ASSUME NEW spec \in ProxySpecs, NEW network \in Networks \cup {"missing"}
  PROVE  NewStatus(spec, network) \in ProxyStatuses
  BY DEF NewStatus, ProxyStatuses, ProxySpecs, MergeUserSystemNoProxy, NoProxies, ProxySettings

LEMMA WorkerUpdates ==
  ASSUME NEW w \in WorkerType, NEW q \in SUBSET WorkerRequests
  PROVE  /\ Enqueued(w, q) \in WorkerType
         /\ [w EXCEPT !.queue = @ \ q] \in WorkerType
         /\ [w EXCEPT !.request = NoRequest] \in WorkerType
  BY DEF WorkerType, Enqueued

LEMMA InjectorUpdates ==
  ASSUME NEW w \in InjectorType, NEW q \in SUBSET InjectorRequests
  PROVE  /\ Enqueued(w, q) \in InjectorType
         /\ [w EXCEPT !.queue = @ \ q] \in InjectorType
         /\ \A b \in SUBSET Certs : [w EXCEPT !.known = b] \in InjectorType
         /\ \A t \in SUBSET Labelled : /\ [w EXCEPT !.todo = t] \in InjectorType
                                       /\ [w EXCEPT !.request = NoRequest, !.todo = t] \in InjectorType
         /\ \A t \in SUBSET Labelled, n \in 0 .. MaxErrors + 1 :
              [w EXCEPT !.todo = t, !.errors = n] \in InjectorType
  BY DEF InjectorType, Enqueued

LEMMA InjectionStarts ==
  ASSUME NEW w \in InjectorType, NEW req \in InjectorRequests, NEW b \in SUBSET Certs,
         NEW t \in SUBSET Labelled, NEW n \in 0 .. MaxErrors + 1
  PROVE  [w EXCEPT !.queue = @ \ {req}, !.request = req, !.bundle = b, !.todo = t, !.errors = n]
           \in InjectorType
  BY DEF InjectorType

LEMMA TbCounters ==
  ASSUME TbInv
  PROVE  /\ TbFault => tbLeft' \in TbLeftType
         /\ TbEdit => tbLeft' \in TbLeftType
  BY TbAssumption DEF TbInv, TbFault, TbEdit, TbLeftType

LEMMA TbReported ==
  ASSUME TbInv, NEW who, NEW what \in TbReports, Report(who, what)
  PROVE  tbReports' \in TbReportsType
  BY DEF TbInv, TbReportsType, Report

LEMMA TbInitInv == TbInit => TbInv
  <1> SUFFICES ASSUME TbInit PROVE TbInv
    OBVIOUS
  <1>1. tbProxy \in [spec : ProxySpecs, status : ProxyStatuses]
    BY DEF TbInit, ProxySpecs, ProxyStatuses, ProxySettings, NoProxies
  <1>2. tbCAs \in CAType
    BY DEF TbInit, CAType
  <1>3. tbWorker \in WorkerType
    BY DEF TbInit, WorkerType, WorkerRequests
  <1>4. tbInjector \in InjectorType
    BY TbAssumption DEF TbInit, InjectorType, InjectorRequests
  <1>5. tbReports \in TbReportsType
    BY DEF TbInit, TbReports, TbReportsType
  <1>6. tbLeft \in TbLeftType
    BY TbAssumption DEF TbInit, TbLeftType
  <1> QED
    BY <1>1, <1>2, <1>3, <1>4, <1>5, <1>6 DEF TbInit, TbInv

LEMMA ProxyWorksInv ==
  ASSUME TbInv, ProxyWorks \/ RejectProxy PROVE TbInv'
  <1>1. CASE ReconcileProxy
    <2> DEFINE b == MergedBundle(tbProxy.spec, tbCAs)
               st == NewStatus(tbProxy.spec, tbNetwork)
               q == (tbWorker.queue \ {ProxyRequest})
                      \cup (IF tbProxy' = tbProxy THEN {} ELSE {ProxyRequest})
    <2>1. b \in SUBSET Certs /\ st \in ProxyStatuses
      BY <1>1, MergedBundleType, NewStatusType DEF ReconcileProxy, TbInv
    <2>2. q \in SUBSET WorkerRequests
      BY DEF TbInv, WorkerType, WorkerRequests
    <2> HIDE DEF b, st, q
    <2>3. tbProxy' \in [spec : ProxySpecs, status : ProxyStatuses]
      BY <1>1, <2>1 DEF ReconcileProxy, TbInv, st
    <2>4. tbWorker' = [queue |-> q, request |-> ProxyRequest, bundle |-> b]
      BY <1>1 DEF ReconcileProxy, q, b
    <2>5. tbWorker' \in WorkerType
      BY <2>1, <2>2, <2>4 DEF WorkerType, WorkerRequests
    <2> QED
      BY <1>1, <2>3, <2>5 DEF ReconcileProxy, TbInv
  <1>2. CASE SkipTrustedCA
    <2>1. PICK n \in CANames : tbWorker' = [tbWorker EXCEPT !.queue = @ \ {n}]
      BY <1>2 DEF SkipTrustedCA
    <2>2. {n} \in SUBSET WorkerRequests
      BY DEF WorkerRequests
    <2>3. tbWorker' \in WorkerType
      BY <2>1, <2>2, WorkerUpdates DEF TbInv
    <2> QED
      BY <1>2, <2>3 DEF SkipTrustedCA, TbInv
  <1>3. CASE ReconcileTrustedCA
    <2> DEFINE b == MergedBundle(tbProxy.spec, tbCAs)
    <2>1. PICK n \in CANames :
            /\ configMapIsProxyTrustedCA(n) /\ validateTrustedCA(n)
            /\ tbWorker' = [queue |-> tbWorker.queue \ {n}, request |-> n, bundle |-> b]
      BY <1>3 DEF ReconcileTrustedCA
    <2>2. b \in SUBSET Certs
      BY <2>1, MergedBundleType DEF configMapIsProxyTrustedCA, TrustedCAValid
    <2> HIDE DEF b
    <2>3. tbWorker' \in WorkerType
      BY <2>1, <2>2 DEF TbInv, WorkerType, WorkerRequests
    <2> QED
      BY <1>3, <2>3 DEF ReconcileTrustedCA, TbInv
  <1>4. CASE syncTrustedCABundle
    <2>1. tbBundle' \in SUBSET Certs
      BY <1>4 DEF syncTrustedCABundle, TbInv, WorkerType
    <2>2. tbWorker' \in WorkerType
      BY <1>4, WorkerUpdates DEF syncTrustedCABundle, TbInv
    <2>3. tbReports' \in TbReportsType
      BY <1>4, TbReported DEF syncTrustedCABundle, TbReports
    <2> QED
      BY <1>4, <2>1, <2>2, <2>3 DEF syncTrustedCABundle, TbInv
  <1>5. CASE RejectProxy
    <2>1. Report("ProxyConfig", "Degraded") \/ Report("ProxyConfig", "MaybeDegraded")
      BY <1>5 DEF RejectProxy
    <2>2. "Degraded" \in TbReports /\ "MaybeDegraded" \in TbReports
      BY DEF TbReports
    <2>3. tbReports' \in TbReportsType
      BY <2>1, <2>2, TbReported
    <2> QED
      BY <1>5, <2>3 DEF RejectProxy, TbInv
  <1> QED
    BY <1>1, <1>2, <1>3, <1>4, <1>5 DEF ProxyWorks

LEMMA InjectorWorksInv ==
  ASSUME TbInv, InjectorWorks PROVE TbInv'
  <1> DEFINE w == tbInjector
  <1>0. /\ w \in InjectorType /\ w.queue \subseteq InjectorRequests /\ w.known \in SUBSET Certs
        /\ w.bundle \in SUBSET Certs /\ w.todo \in SUBSET Labelled
        /\ w.request \in InjectorRequests \cup {NoRequest}
    BY DEF TbInv, InjectorType
  <1>1. CASE BundleEvent
    <2>1. {BundleRequest} \in SUBSET InjectorRequests
      BY DEF InjectorRequests
    <2>2. Enqueued(w, {BundleRequest}) \in InjectorType
      BY <1>0, <2>1, InjectorUpdates
    <2>3. tbInjector' \in InjectorType
      BY <1>1, <2>1, <2>2, InjectorUpdates DEF BundleEvent, TbInv
    <2> QED
      BY <1>1, <2>3 DEF BundleEvent, TbInv
  <1>2. CASE StartInjection
    <2>1. PICK req \in w.queue :
            tbInjector' =
              IF w.known = {} THEN [w EXCEPT !.queue = @ \ {req}]
              ELSE [w EXCEPT !.queue = @ \ {req}, !.request = req,
                             !.bundle = w.known, !.todo = configMapsToChange(req), !.errors = 0]
      BY <1>2 DEF StartInjection
    <2>2. req \in InjectorRequests /\ {req} \in SUBSET InjectorRequests
      BY <1>0
    <2>3. configMapsToChange(req) \in SUBSET Labelled
      BY <2>2 DEF configMapsToChange, InjectorRequests
    <2>4. 0 \in 0 .. MaxErrors + 1
      BY TbAssumption
    <2>5. [w EXCEPT !.queue = @ \ {req}] \in InjectorType
      BY <1>0, <2>2, InjectorUpdates
    <2>6. [w EXCEPT !.queue = @ \ {req}, !.request = req, !.bundle = w.known,
                    !.todo = configMapsToChange(req), !.errors = 0] \in InjectorType
      BY <1>0, <2>2, <2>3, <2>4, InjectionStarts, Zenon
    <2>7. tbInjector' \in InjectorType
      BY <2>1, <2>5, <2>6, Zenon
    <2> QED
      BY <1>2, <2>7 DEF StartInjection, TbInv
  <1>3. CASE Inject
    <2>1. PICK m \in w.todo :
            /\ tbMaps' = [tbMaps EXCEPT ![m] = w.bundle]
            /\ tbInjector' = [Enqueued(w, IF tbMaps' = tbMaps THEN {} ELSE {m}) EXCEPT !.todo = @ \ {m}]
      BY <1>3 DEF Inject
    <2> DEFINE q == IF tbMaps' = tbMaps THEN {} ELSE {m}
               e == Enqueued(w, q)
    <2>2. q \in SUBSET InjectorRequests
      BY <1>0 DEF InjectorRequests
    <2> HIDE DEF q
    <2>3. e \in InjectorType
      BY <1>0, <2>2, InjectorUpdates
    <2>4. tbInjector' = [e EXCEPT !.todo = @ \ {m}]
      BY <2>1 DEF q
    <2> HIDE DEF e
    <2>5. e.todo \ {m} \in SUBSET Labelled
      BY <2>3 DEF InjectorType
    <2>6. tbInjector' \in InjectorType
      BY <2>3, <2>4, <2>5 DEF InjectorType
    <2>7. tbMaps' \in [Labelled -> SUBSET Certs]
      BY <1>0, <2>1 DEF TbInv
    <2> QED
      BY <1>3, <2>6, <2>7 DEF Inject, TbInv
  <1>4. CASE FinishInjection
    <2> DEFINE q == IF w.errors > 0 THEN {w.request} ELSE {}
               e == Enqueued(w, q)
    <2>1. w.request # NoRequest
      BY <1>4 DEF FinishInjection
    <2>2. q \in SUBSET InjectorRequests
      BY <1>0, <2>1
    <2>3. tbInjector' = [Enqueued(w, q) EXCEPT !.request = NoRequest, !.todo = {}]
      BY <1>4 DEF FinishInjection
    <2> HIDE DEF q
    <2>4. e \in InjectorType
      BY <1>0, <2>2, InjectorUpdates
    <2>5. tbInjector' = [e EXCEPT !.request = NoRequest, !.todo = {}]
      BY <2>3
    <2> HIDE DEF e
    <2>6. tbInjector' \in InjectorType
      <3>1. {} \in SUBSET Labelled
        OBVIOUS
      <3>2. {} \in SUBSET InjectorRequests
        OBVIOUS
      <3> QED
        BY <2>4, <2>5, <3>1, <3>2, InjectorUpdates
    <2>7. Report("InjectorConfig", "MaybeDegraded") \/ Report("InjectorConfig", "NotDegraded")
      BY <1>4 DEF FinishInjection
    <2>8. "MaybeDegraded" \in TbReports /\ "NotDegraded" \in TbReports
      BY DEF TbReports
    <2>9. tbReports' \in TbReportsType
      BY <2>7, <2>8, TbReported
    <2> QED
      BY <1>4, <2>6, <2>9 DEF FinishInjection, TbInv
  <1> QED
    BY <1>1, <1>2, <1>3, <1>4 DEF InjectorWorks

LEMMA TbFaultsInv ==
  ASSUME TbInv, SyncFails \/ InjectFails \/ TbRestart PROVE TbInv'
  <1>1. CASE SyncFails
    <2> DEFINE e == Enqueued(tbWorker, {tbWorker.request})
    <2>1. tbLeft' \in TbLeftType
      BY <1>1, TbCounters DEF SyncFails
    <2>2. {tbWorker.request} \in SUBSET WorkerRequests
      BY <1>1 DEF SyncFails, TbInv, WorkerType
    <2>3. e \in WorkerType
      BY <2>2, WorkerUpdates DEF TbInv
    <2> HIDE DEF e
    <2>4. tbWorker' \in WorkerType
      BY <1>1, <2>2, <2>3, WorkerUpdates DEF SyncFails, e
    <2>5. tbReports' \in TbReportsType
      BY <1>1, TbReported DEF SyncFails, TbReports
    <2> QED
      BY <1>1, <2>1, <2>4, <2>5 DEF SyncFails, TbInv
  <1>2. CASE InjectFails
    <2>1. tbLeft' \in TbLeftType
      BY <1>2, TbCounters DEF InjectFails
    <2>2. PICK m \in tbInjector.todo :
            tbInjector' = [tbInjector EXCEPT !.todo = @ \ {m}, !.errors = @ + 1]
      BY <1>2 DEF InjectFails
    <2>3. /\ tbInjector.todo \ {m} \in SUBSET Labelled
          /\ tbInjector.errors + 1 \in 0 .. MaxErrors + 1
      <3>1. tbInjector.todo \in SUBSET Labelled /\ tbInjector.errors \in 0 .. MaxErrors + 1
        BY DEF TbInv, InjectorType
      <3>2. tbInjector.errors <= MaxErrors
        BY <1>2 DEF InjectFails
      <3> QED
        BY <3>1, <3>2, TbAssumption
    <2>4. tbInjector' = [tbInjector EXCEPT !.todo = tbInjector.todo \ {m},
                                           !.errors = tbInjector.errors + 1]
      BY <2>2
    <2>5. tbInjector' \in InjectorType
      BY <2>3, <2>4 DEF TbInv, InjectorType
    <2> QED
      BY <1>2, <2>1, <2>5 DEF InjectFails, TbInv
  <1>3. CASE TbRestart
    <2>1. tbLeft' \in TbLeftType
      BY <1>3, TbCounters DEF TbRestart
    <2>2. tbWorker' \in WorkerType
      BY <1>3 DEF TbRestart, WorkerType, WorkerRequests
    <2>3. tbInjector' \in InjectorType
      BY <1>3, TbAssumption DEF TbRestart, InjectorType, InjectorRequests, TbInv
    <2> QED
      BY <1>3, <2>1, <2>2, <2>3 DEF TbRestart, TbInv
  <1> QED
    BY <1>1, <1>2, <1>3

LEMMA TbEditsInv ==
  ASSUME TbInv, EditProxy \/ EditTrustedCA \/ NetworkStatusChanges \/ EditLabelled PROVE TbInv'
  <1>1. {ProxyRequest} \in SUBSET WorkerRequests /\ \A n \in CANames : {n} \in SUBSET WorkerRequests
    BY DEF WorkerRequests
  <1>2. tbLeft' \in TbLeftType
    BY TbCounters DEF EditProxy, EditTrustedCA, NetworkStatusChanges, EditLabelled
  <1>3. CASE EditProxy
    <2>1. tbProxy' \in [spec : ProxySpecs, status : ProxyStatuses]
      BY <1>3, TbAssumption DEF EditProxy, TbInv
    <2>2. tbWorker' \in WorkerType
      BY <1>1, <1>3, WorkerUpdates DEF EditProxy, TbInv
    <2> QED
      BY <1>2, <1>3, <2>1, <2>2 DEF EditProxy, TbInv
  <1>4. CASE EditTrustedCA
    <2>1. tbCAs' \in CAType
      BY <1>4 DEF EditTrustedCA, TbInv, CAType
    <2>2. tbWorker' \in WorkerType
      BY <1>1, <1>4, WorkerUpdates DEF EditTrustedCA, TbInv
    <2> QED
      BY <1>2, <1>4, <2>1, <2>2 DEF EditTrustedCA, TbInv
  <1>5. CASE NetworkStatusChanges
    <2>1. tbWorker' \in WorkerType
      BY <1>1, <1>5, WorkerUpdates DEF NetworkStatusChanges, TbInv
    <2> QED
      BY <1>2, <1>5, <2>1 DEF NetworkStatusChanges, TbInv
  <1>6. CASE EditLabelled
    <2>1. PICK m \in Labelled : /\ tbMaps' = [tbMaps EXCEPT ![m] = {}]
                                /\ tbInjector' = Enqueued(tbInjector, {m})
      BY <1>6 DEF EditLabelled
    <2>2. {m} \in SUBSET InjectorRequests
      BY DEF InjectorRequests
    <2>3. tbInjector' \in InjectorType
      BY <2>1, <2>2, InjectorUpdates DEF TbInv
    <2>4. tbMaps' \in [Labelled -> SUBSET Certs]
      BY <2>1 DEF TbInv
    <2> QED
      BY <1>2, <1>6, <2>3, <2>4 DEF EditLabelled, TbInv
  <1> QED
    BY <1>3, <1>4, <1>5, <1>6

LEMMA TbStepInv == TbInv /\ [TbNext]_tbVars => TbInv'
  <1>1. ASSUME TbInv, UNCHANGED tbVars PROVE TbInv'
    BY <1>1 DEF tbVars, TbInv
  <1> QED
    BY <1>1, ProxyWorksInv, InjectorWorksInv, TbFaultsInv, TbEditsInv DEF TbNext

LEMMA TbInvType == TbInv => TbTypeOK
  BY DEF TbInv, TbTypeOK, WorkerType, InjectorType, WorkerRequests, InjectorRequests, CAType,
         TbReportsType, TbLeftType

(* Whatever users write into the proxy and the config maps it names, and   *)
(* whatever fails, bundles and labelled config maps contain nothing but    *)
(* certificates, and an injection ends after MaxErrors failed updates      *)
(* (ReconcileProxyConfig.Reconcile, ReconcileConfigMapInjector.Reconcile). *)
THEOREM TbTypeCorrect == TbSpec => []TbTypeOK
  BY TbInitInv, TbStepInv, TbInvType, PTL DEF TbSpec

--------------------------------------------------------------------------------
(* CertSigner: the inductive invariant.                                    *)

SignerType ==
  [queue : SUBSET Requests, request : Requests, copy : CSRRecord, reason : SgReasons,
   at : {SignerIdle, "user", "approve", "ca", "sign", "fail"}]
PkiType == [queue : SUBSET AllPKIs, pkis : [AllPKIs -> 0 .. 2], pkiErrs : SUBSET AllPKIs]
SgReportsType == [{"CertificateSigner", "PKIConfig"} -> {"none", "NotDegraded", "MaybeDegraded"}]
SgLeftType == [edits : 0 .. MaxSgEdits, faults : 0 .. MaxSgFaults]

(* A request is never approved and denied (the API server sees to it), and *)
(* has a certificate only if it is approved and well formed.               *)
SoundCSR(csr) ==
  /\ ~(csr.approved /\ csr.denied)
  /\ csr.cert => csr.approved /\ ~csr.denied /\ csr.decodable

(* The signer has seen in its copy what it needs for the step it is at.    *)
(* The copy may be stale then: what is signed is the copy.                 *)
CopyChecked(s) ==
  /\ s.at \in {"ca", "sign"} => s.copy.approved /\ ~s.copy.denied
  /\ s.at = "sign" => s.copy.decodable

SgInv ==
  /\ sgStored \in [Requests -> CSRRecord] /\ sgNodes \subseteq Requests
  /\ sgCA \in [AllPKIs -> {"absent", "good", "corrupt"}] /\ sgSpecs \in [AllPKIs -> 0 .. 2]
  /\ sgSigner \in SignerType /\ sgPki \in PkiType
  /\ sgReports \in SgReportsType /\ sgLeft \in SgLeftType
  /\ \A c \in Requests : SoundCSR(sgStored[c])
  /\ CopyChecked(sgSigner)

--------------------------------------------------------------------------------
(* CertSigner: the updates of the state keep its type.                     *)

LEMMA NewSignerSound ==
  /\ NewSigner \in SignerType /\ CopyChecked(NewSigner)
  /\ NewPkiReconciler \in PkiType
  <1>1. (CHOOSE c \in Requests : TRUE) \in Requests
    BY SgAssumption
  <1>2. NewCSR(TRUE) \in CSRRecord
    BY DEF NewCSR, CSRRecord, SgReasons
  <1>3. NewSigner \in SignerType
    BY <1>1, <1>2 DEF NewSigner, SignerType, SgReasons
  <1>4. CopyChecked(NewSigner)
    BY DEF NewSigner, CopyChecked, SignerIdle
  <1>5. NewPkiReconciler \in PkiType
    BY DEF NewPkiReconciler, PkiType
  <1> QED
    BY <1>3, <1>4, <1>5

(* A request that is handled leaves nothing to be checked.                 *)
HandledWell(again) == Handled(again) \in SignerType /\ CopyChecked(Handled(again))

LEMMA HandledSound ==
  ASSUME SgInv, NEW again \in BOOLEAN PROVE HandledWell(again)
  <1> DEFINE more == IF again THEN {sgSigner.request} ELSE {}
  <1>1. more \in SUBSET Requests
    BY DEF SgInv, SignerType
  <1>2. Handled(again) = [sgSigner EXCEPT !.at = SignerIdle, !.queue = sgSigner.queue \cup more]
    BY DEF Handled
  <1> HIDE DEF more
  <1>3. Handled(again) \in SignerType /\ Handled(again).at = SignerIdle
    <2>1. sgSigner \in SignerType
      BY DEF SgInv
    <2> QED
      BY <1>1, <1>2, <2>1 DEF SignerType, SignerIdle
  <1> QED
    BY <1>3 DEF CopyChecked, SignerIdle, HandledWell

LEMMA GoSound ==
  ASSUME SgInv, NEW step \in {"approve", "ca", "sign"}, Go(step),
         step \in {"ca", "sign"} => Copy.approved /\ ~Copy.denied,
         step = "sign" => Copy.decodable
  PROVE  sgSigner' \in SignerType /\ CopyChecked(sgSigner')
  <1>1. sgSigner' = [sgSigner EXCEPT !.at = step]
    BY DEF Go
  <1>2. sgSigner' \in SignerType /\ sgSigner'.at = step /\ sgSigner'.copy = sgSigner.copy
    BY <1>1 DEF SgInv, SignerType
  <1> QED
    BY <1>2 DEF CopyChecked, Copy

LEMMA GoFailSound ==
  ASSUME SgInv, NEW reason \in SgReasons, GoFail(reason)
  PROVE  sgSigner' \in SignerType /\ CopyChecked(sgSigner')
  <1>1. sgSigner' = [sgSigner EXCEPT !.at = "fail", !.reason = reason]
    BY DEF GoFail
  <1>2. sgSigner' \in SignerType /\ sgSigner'.at = "fail"
    BY <1>1 DEF SgInv, SignerType
  <1> QED
    BY <1>2 DEF CopyChecked

LEMMA QueueSound ==
  ASSUME SgInv, NEW q \in SUBSET Requests
  PROVE  LET s == [sgSigner EXCEPT !.queue = @ \cup q] IN s \in SignerType /\ CopyChecked(s)
  BY DEF SgInv, SignerType, CopyChecked

LEMMA SgCounters ==
  ASSUME SgInv
  PROVE  /\ SgFault => sgLeft' \in SgLeftType
         /\ SgEdit => sgLeft' \in SgLeftType
  BY SgAssumption DEF SgInv, SgFault, SgEdit, SgLeftType

LEMMA SgReported ==
  ASSUME SgInv, NEW who, NEW what \in {"none", "NotDegraded", "MaybeDegraded"}, SgReport(who, what)
  PROVE  sgReports' \in SgReportsType
  BY DEF SgInv, SgReportsType, SgReport

(* The writes to a request: what each needs for the request to stay sound. *)
Write(c, csr) ==
  csr \in CSRRecord /\ SoundCSR(csr) /\ sgStored' = [sgStored EXCEPT ![c] = csr]

LEMMA WriteSound ==
  ASSUME SgInv, NEW c \in Requests, NEW csr, Write(c, csr)
  PROVE  sgStored' \in [Requests -> CSRRecord] /\ \A d \in Requests : SoundCSR(sgStored'[d])
  BY DEF SgInv, Write

LEMMA FieldWrites ==
  ASSUME NEW csr \in CSRRecord, SoundCSR(csr)
  PROVE  /\ ~csr.denied =>
              LET w == [csr EXCEPT !.approved = TRUE] IN w \in CSRRecord /\ SoundCSR(w)
         /\ ~csr.approved =>
              LET w == [csr EXCEPT !.denied = TRUE] IN w \in CSRRecord /\ SoundCSR(w)
         /\ LET w == [csr EXCEPT !.exists = FALSE] IN w \in CSRRecord /\ SoundCSR(w)
         /\ csr.approved /\ ~csr.denied /\ csr.decodable =>
              LET w == [csr EXCEPT !.cert = TRUE] IN w \in CSRRecord /\ SoundCSR(w)
         /\ \A r \in SgReasons :
              LET w == [csr EXCEPT !.failed = r] IN w \in CSRRecord /\ SoundCSR(w)
  BY DEF CSRRecord, SoundCSR

--------------------------------------------------------------------------------
(* CertSigner: the steps.                                                  *)

LEMMA SgInitInv == SgInit => SgInv
  <1> SUFFICES ASSUME SgInit PROVE SgInv
    OBVIOUS
  <1>1. \A ok \in BOOLEAN : NewCSR(ok) \in CSRRecord /\ SoundCSR(NewCSR(ok))
    BY DEF NewCSR, CSRRecord, SgReasons, SoundCSR
  <1>2. /\ sgStored \in [Requests -> CSRRecord]
        /\ \A c \in Requests : SoundCSR(sgStored[c])
    BY <1>1 DEF SgInit
  <1>3. sgReports \in SgReportsType
    BY DEF SgInit, SgReportsType
  <1>4. sgLeft \in SgLeftType
    BY SgAssumption DEF SgInit, SgLeftType
  <1>5. /\ sgCA \in [AllPKIs -> {"absent", "good", "corrupt"}]
        /\ sgSpecs \in [AllPKIs -> 0 .. 2]
    BY DEF SgInit
  <1> QED
    BY <1>2, <1>3, <1>4, <1>5, NewSignerSound DEF SgInit, SgInv

LEMMA GetCSRInv ==
  ASSUME SgInv, NEW c \in Requests, GetCSR(c) PROVE SgInv'
  <1> DEFINE step == IF sgStored[c].exists THEN "user" ELSE SignerIdle
  <1>1. sgStored[c] \in CSRRecord /\ step \in {"user", SignerIdle}
    BY DEF SgInv
  <1>2. sgSigner' = [sgSigner EXCEPT !.queue = sgSigner.queue \ {c}, !.request = c,
                                     !.copy = sgStored[c], !.at = step]
    BY DEF GetCSR
  <1> HIDE DEF step
  <1>3. sgSigner' \in SignerType /\ sgSigner'.at = step
    <2>1. sgSigner \in SignerType
      BY DEF SgInv
    <2> QED
      BY <1>1, <1>2, <2>1 DEF SignerType, SignerIdle
  <1>4. CopyChecked(sgSigner')
    BY <1>1, <1>3 DEF CopyChecked, SignerIdle
  <1> QED
    BY <1>3, <1>4 DEF GetCSR, SgInv

LEMMA CheckCSRInv ==
  ASSUME SgInv, CheckCSR PROVE SgInv'
  <1>1. sgSigner' \in SignerType /\ CopyChecked(sgSigner')
    <2>1. CASE GoFail("CSRInvalidUser")
      BY <2>1, GoFailSound DEF SgReasons
    <2>2. CASE sgSigner' = Handled(FALSE)
      BY <2>2, HandledSound DEF HandledWell
    <2>3. CASE Go("approve")
      BY <2>3, GoSound
    <2>4. CASE Go("ca") /\ isCertificateRequestApproved(Copy)
      BY <2>4, GoSound DEF isCertificateRequestApproved
    <2> QED
      BY <2>1, <2>2, <2>3, <2>4 DEF CheckCSR
  <1> QED
    BY <1>1 DEF CheckCSR, SgInv

(* The approval is written only to a request that is still what it was.    *)
LEMMA ApproveInv ==
  ASSUME SgInv, Approve PROVE SgInv'
  <1>1. sgSigner' \in SignerType /\ CopyChecked(sgSigner')
    BY HandledSound DEF Approve, HandledWell
  <1>2. /\ sgStored' \in [Requests -> CSRRecord]
        /\ \A c \in Requests : SoundCSR(sgStored'[c])
    <2>1. CASE Stored = Copy /\ ~Copy.denied
      <3> DEFINE r == sgSigner.request
                 w == [sgStored[r] EXCEPT !.approved = TRUE]
      <3>1. r \in Requests /\ sgStored[r] \in CSRRecord /\ SoundCSR(sgStored[r])
        BY DEF SgInv, SignerType
      <3>2. ~sgStored[r].denied
        BY <2>1 DEF Stored
      <3>3. w \in CSRRecord /\ SoundCSR(w)
        BY <3>1, <3>2, FieldWrites
      <3>4. sgStored' = [sgStored EXCEPT ![r] = w]
        BY <2>1, <3>1 DEF Approve, SgInv
      <3> HIDE DEF w
      <3> QED
        BY <3>1, <3>3, <3>4, WriteSound DEF Write
    <2>2. CASE UNCHANGED sgStored
      BY <2>2 DEF SgInv
    <2> QED
      BY <2>1, <2>2 DEF Approve
  <1> QED
    BY <1>1, <1>2 DEF Approve, SgInv

LEMMA GetCAInv ==
  ASSUME SgInv, GetCA PROVE SgInv'
  <1>1. sgSigner' \in SignerType /\ CopyChecked(sgSigner')
    <2>1. CASE \E reason \in SgReasons : GoFail(reason)
      BY <2>1, GoFailSound
    <2>2. CASE Go("sign") /\ Copy.decodable
      <3>1. Copy.approved /\ ~Copy.denied
        BY DEF GetCA, SignerAt, SgInv, CopyChecked, Copy
      <3> QED
        BY <2>2, <3>1, GoSound
    <2> QED
      BY <2>1, <2>2 DEF GetCA, SgReasons
  <1> QED
    BY <1>1 DEF GetCA, SgInv

(* The certificate is written only to a request that is still the copy     *)
(* that was checked.                                                       *)
LEMMA signCSRInv ==
  ASSUME SgInv, signCSR PROVE SgInv'
  <1>1. sgSigner' \in SignerType /\ CopyChecked(sgSigner')
    BY HandledSound DEF signCSR, HandledWell
  <1>2. /\ sgStored' \in [Requests -> CSRRecord]
        /\ \A c \in Requests : SoundCSR(sgStored'[c])
    <2>1. CASE Stored = Copy
      <3> DEFINE r == sgSigner.request
                 w == [sgStored[r] EXCEPT !.cert = TRUE]
      <3>1. r \in Requests /\ sgStored[r] \in CSRRecord /\ SoundCSR(sgStored[r])
        BY DEF SgInv, SignerType
      <3>2. Copy.approved /\ ~Copy.denied /\ Copy.decodable
        BY DEF signCSR, SignerAt, SgInv, CopyChecked, Copy
      <3>3. sgStored[r].approved /\ ~sgStored[r].denied /\ sgStored[r].decodable
        BY <2>1, <3>2 DEF Stored
      <3>4. w \in CSRRecord /\ SoundCSR(w)
        BY <3>1, <3>3, FieldWrites
      <3>5. sgStored' = [sgStored EXCEPT ![r] = w]
        BY <2>1, <3>1 DEF signCSR, SgInv
      <3> HIDE DEF w
      <3> QED
        BY <3>1, <3>4, <3>5, WriteSound DEF Write
    <2>2. CASE UNCHANGED sgStored
      BY <2>2 DEF SgInv
    <2> QED
      BY <2>1, <2>2 DEF signCSR
  <1>3. sgReports' \in SgReportsType
    <2>1. SgReport("CertificateSigner", "NotDegraded") => sgReports' \in SgReportsType
      BY SgReported
    <2>2. UNCHANGED sgReports => sgReports' \in SgReportsType
      BY DEF SgInv
    <2> QED
      BY <2>1, <2>2 DEF signCSR
  <1> QED
    BY <1>1, <1>2, <1>3 DEF signCSR, SgInv

LEMMA UpdateCSRInv ==
  ASSUME SgInv, UpdateCSRStatusConditions PROVE SgInv'
  <1>1. PICK event \in BOOLEAN :
          /\ \/ sgSigner' = Handled(event \/ ReturnsError(sgSigner.reason))
             \/ sgSigner' = Handled(ReturnsError(sgSigner.reason))
          /\ \/ UNCHANGED sgStored
             \/ sgStored' = [sgStored EXCEPT ![sgSigner.request].failed = sgSigner.reason]
          /\ UNCHANGED sgReports \/ SgReport("CertificateSigner", "MaybeDegraded")
    BY DEF UpdateCSRStatusConditions
  <1>2. sgSigner' \in SignerType /\ CopyChecked(sgSigner')
    <2>1. /\ (event \/ ReturnsError(sgSigner.reason)) \in BOOLEAN
          /\ ReturnsError(sgSigner.reason) \in BOOLEAN
      BY DEF ReturnsError
    <2>2. HandledWell(event \/ ReturnsError(sgSigner.reason)) /\ HandledWell(ReturnsError(sgSigner.reason))
      BY <2>1, HandledSound, Zenon
    <2> QED
      BY <1>1, <2>2 DEF HandledWell
  <1>3. /\ sgStored' \in [Requests -> CSRRecord]
        /\ \A c \in Requests : SoundCSR(sgStored'[c])
    <2>1. CASE sgStored' = [sgStored EXCEPT ![sgSigner.request].failed = sgSigner.reason]
      <3> DEFINE r == sgSigner.request
                 w == [sgStored[r] EXCEPT !.failed = sgSigner.reason]
      <3>1. /\ r \in Requests /\ sgStored[r] \in CSRRecord /\ SoundCSR(sgStored[r])
            /\ sgSigner.reason \in SgReasons
        BY DEF SgInv, SignerType
      <3>2. w \in CSRRecord /\ SoundCSR(w)
        BY <3>1, FieldWrites
      <3>3. sgStored' = [sgStored EXCEPT ![r] = w]
        BY <2>1, <3>1 DEF SgInv
      <3> HIDE DEF w
      <3> QED
        BY <3>1, <3>2, <3>3, WriteSound DEF Write
    <2>2. CASE UNCHANGED sgStored
      BY <2>2 DEF SgInv
    <2> QED
      BY <1>1, <2>1, <2>2
  <1>4. sgReports' \in SgReportsType
    <2>1. SgReport("CertificateSigner", "MaybeDegraded") => sgReports' \in SgReportsType
      BY SgReported
    <2> QED
      BY <1>1, <2>1 DEF SgInv
  <1> QED
    BY <1>2, <1>3, <1>4 DEF UpdateCSRStatusConditions, SgInv

LEMMA PkiInv ==
  ASSUME SgInv, NEW p \in AllPKIs, PkiDeleted(p) \/ ReconcilePKI(p) PROVE SgInv'
  <1>1. CASE PkiDeleted(p)
    <2>1. sgPki' \in PkiType
      BY <1>1 DEF PkiDeleted, SgInv, PkiType
    <2> QED
      BY <1>1, <2>1 DEF PkiDeleted, SgInv
  <1>2. CASE ReconcilePKI(p)
    <2> DEFINE fails == sgCA[p] = "corrupt"
               errs == IF fails THEN sgPki.pkiErrs \cup {p} ELSE sgPki.pkiErrs \ {p}
               ca == IF fails THEN sgCA[p] ELSE "good"
    <2>1. /\ sgPki.pkiErrs \in SUBSET AllPKIs /\ sgPki.pkis \in [AllPKIs -> 0 .. 2]
          /\ sgCA[p] \in {"absent", "good", "corrupt"} /\ sgSpecs[p] \in 0 .. 2
      BY DEF SgInv, PkiType
    <2>2. errs \in SUBSET AllPKIs
      BY <2>1
    <2>3. ca \in {"absent", "good", "corrupt"}
      BY <2>1
    <2>4. sgCA' = [sgCA EXCEPT ![p] = ca] /\ setStatus(errs)
      BY <1>2 DEF ReconcilePKI
    <2>5. sgPki' = [sgPki EXCEPT !.pkis = [sgPki.pkis EXCEPT ![p] = sgSpecs[p]], !.pkiErrs = errs]
      BY <1>2 DEF ReconcilePKI
    <2> HIDE DEF errs, ca
    <2>6. sgPki' \in PkiType
      <3> DEFINE specs == [sgPki.pkis EXCEPT ![p] = sgSpecs[p]]
      <3>1. specs \in [AllPKIs -> 0 .. 2]
        BY <2>1
      <3>2. sgPki' = [sgPki EXCEPT !.pkis = specs, !.pkiErrs = errs]
        BY <2>5
      <3> HIDE DEF specs
      <3> QED
        BY <2>2, <3>1, <3>2 DEF SgInv, PkiType
    <2>7. sgCA' \in [AllPKIs -> {"absent", "good", "corrupt"}]
      BY <2>3, <2>4 DEF SgInv
    <2>8. sgReports' \in SgReportsType
      BY <2>4, SgReported DEF setStatus
    <2> QED
      BY <1>2, <2>6, <2>7, <2>8 DEF ReconcilePKI, SgInv
  <1> QED
    BY <1>1, <1>2

LEMMA SgFaultsInv ==
  ASSUME SgInv, SignerCallFails \/ GetCAFails \/ PkiSyncFails \/ SgRestart PROVE SgInv'
  <1>1. sgLeft' \in SgLeftType
    BY SgCounters DEF SignerCallFails, GetCAFails, PkiSyncFails, SgRestart
  <1>2. CASE SignerCallFails
    <2>1. sgSigner' \in SignerType /\ CopyChecked(sgSigner')
      BY <1>2, HandledSound DEF SignerCallFails, HandledWell
    <2> QED
      BY <1>1, <1>2, <2>1 DEF SignerCallFails, SgInv
  <1>3. CASE GetCAFails
    <2>1. sgSigner' \in SignerType /\ CopyChecked(sgSigner')
      BY <1>3, GoFailSound DEF GetCAFails, SgReasons
    <2> QED
      BY <1>1, <1>3, <2>1 DEF GetCAFails, SgInv
  <1>4. CASE PkiSyncFails
    <2>1. PICK p \in sgPki.queue :
            sgPki' = [sgPki EXCEPT !.pkis[p] = sgSpecs[p], !.pkiErrs = @ \cup {p}]
      BY <1>4 DEF PkiSyncFails
    <2> DEFINE specs == [sgPki.pkis EXCEPT ![p] = sgSpecs[p]]
               errs == sgPki.pkiErrs \cup {p}
    <2>2. specs \in [AllPKIs -> 0 .. 2] /\ errs \in SUBSET AllPKIs
      BY <2>1 DEF SgInv, PkiType
    <2>3. sgPki' = [sgPki EXCEPT !.pkis = specs, !.pkiErrs = errs]
      BY <2>1
    <2> HIDE DEF specs, errs
    <2>4. sgPki' \in PkiType
      BY <2>2, <2>3 DEF SgInv, PkiType
    <2>5. sgReports' \in SgReportsType
      BY <1>4, SgReported DEF PkiSyncFails
    <2> QED
      BY <1>1, <1>4, <2>4, <2>5 DEF PkiSyncFails, SgInv
  <1>5. CASE SgRestart
    BY <1>1, <1>5, NewSignerSound DEF SgRestart, SgInv
  <1> QED
    BY <1>2, <1>3, <1>4, <1>5

LEMMA SgEditsInv ==
  ASSUME SgInv, EditCSR \/ NodesChange \/ EditCA \/ EditPKI PROVE SgInv'
  <1>1. sgLeft' \in SgLeftType
    BY SgCounters DEF EditCSR, NodesChange, EditCA, EditPKI
  <1>2. CASE EditCSR
    <2>1. PICK c \in Requests :
            /\ \/ ~sgStored[c].denied /\ sgStored' = [sgStored EXCEPT ![c].approved = TRUE]
               \/ ~sgStored[c].approved /\ sgStored' = [sgStored EXCEPT ![c].denied = TRUE]
               \/ sgStored' = [sgStored EXCEPT ![c].exists = FALSE]
            /\ sgSigner' = [sgSigner EXCEPT !.queue = @ \cup {c}]
      BY <1>2 DEF EditCSR
    <2>2. sgSigner' \in SignerType /\ CopyChecked(sgSigner')
      <3>1. {c} \in SUBSET Requests
        OBVIOUS
      <3> QED
        BY <2>1, <3>1, QueueSound
    <2>3. sgStored[c] \in CSRRecord /\ SoundCSR(sgStored[c])
      BY DEF SgInv
    <2>4. PICK w : Write(c, w)
      <3>1. CASE ~sgStored[c].denied /\ sgStored' = [sgStored EXCEPT ![c].approved = TRUE]
        <4> DEFINE w == [sgStored[c] EXCEPT !.approved = TRUE]
        <4>1. w \in CSRRecord /\ SoundCSR(w)
          BY <2>3, <3>1, FieldWrites
        <4>2. sgStored' = [sgStored EXCEPT ![c] = w]
          BY <3>1 DEF SgInv
        <4> QED
          BY <4>1, <4>2, Zenon DEF Write
      <3>2. CASE ~sgStored[c].approved /\ sgStored' = [sgStored EXCEPT ![c].denied = TRUE]
        <4> DEFINE w == [sgStored[c] EXCEPT !.denied = TRUE]
        <4>1. w \in CSRRecord /\ SoundCSR(w)
          BY <2>3, <3>2, FieldWrites
        <4>2. sgStored' = [sgStored EXCEPT ![c] = w]
          BY <3>2 DEF SgInv
        <4> QED
          BY <4>1, <4>2, Zenon DEF Write
      <3>3. CASE sgStored' = [sgStored EXCEPT ![c].exists = FALSE]
        <4> DEFINE w == [sgStored[c] EXCEPT !.exists = FALSE]
        <4>1. w \in CSRRecord /\ SoundCSR(w)
          BY <2>3, FieldWrites
        <4>2. sgStored' = [sgStored EXCEPT ![c] = w]
          BY <3>3 DEF SgInv
        <4> QED
          BY <4>1, <4>2, Zenon DEF Write
      <3> QED
        BY <2>1, <3>1, <3>2, <3>3
    <2>5. /\ sgStored' \in [Requests -> CSRRecord]
          /\ \A d \in Requests : SoundCSR(sgStored'[d])
      BY <2>4, WriteSound
    <2> QED
      BY <1>1, <1>2, <2>2, <2>5 DEF EditCSR, SgInv
  <1>3. CASE NodesChange
    BY <1>1, <1>3 DEF NodesChange, SgInv
  <1>4. CASE EditCA
    <2>1. sgCA' \in [AllPKIs -> {"absent", "good", "corrupt"}]
      BY <1>4 DEF EditCA, SgInv
    <2> QED
      BY <1>1, <1>4, <2>1 DEF EditCA, SgInv
  <1>5. CASE EditPKI
    <2>1. sgSpecs' \in [AllPKIs -> 0 .. 2]
      BY <1>5 DEF EditPKI, SgInv
    <2>2. sgPki' \in PkiType
      BY <1>5 DEF EditPKI, SgInv, PkiType
    <2> QED
      BY <1>1, <1>5, <2>1, <2>2 DEF EditPKI, SgInv
  <1> QED
    BY <1>2, <1>3, <1>4, <1>5

LEMMA SgStepInv == SgInv /\ [SgNext]_sgVars => SgInv'
  <1>1. ASSUME SgInv, UNCHANGED sgVars PROVE SgInv'
    BY <1>1 DEF sgVars, SgInv, CopyChecked
  <1> QED
    BY <1>1, GetCSRInv, CheckCSRInv, ApproveInv, GetCAInv, signCSRInv, UpdateCSRInv, PkiInv,
       SgFaultsInv, SgEditsInv DEF SgNext, SignerSteps

LEMMA SgInvType == SgInv => SgTypeOK /\ SignedIfApproved
  BY DEF SgInv, SgTypeOK, SignerType, PkiType, SgReportsType, SgLeftType, SignedIfApproved, SoundCSR

(* Type correctness of the signer and the PKI controller, for any number   *)
(* of requests, authorities, edits and faults (ReconcileCSR.Reconcile,     *)
(* PKIReconciler.Reconcile).                                               *)
THEOREM SgTypeCorrect == SgSpec => []SgTypeOK
  BY SgInitInv, SgStepInv, SgInvType, PTL DEF SgSpec

(* Only requests that are approved, not denied and well formed are ever    *)
(* signed, though the signer works on a copy and requests are decided on,  *)
(* denied and deleted between any two of its calls (signCSR).  What makes  *)
(* it inductive is CopyChecked and that a stale copy is never written.     *)
THEOREM OnlyApprovedSigned == SgSpec => []SignedIfApproved
  BY SgInitInv, SgStepInv, SgInvType, PTL DEF SgSpec

--------------------------------------------------------------------------------
(* All controllers together.  They share no variable: a step of MCControllers *)
(* is one of the controller that is selected and changes nothing of the others. *)

LEMMA CtStepParts ==
  ASSUME [CtNext]_ctVars
  PROVE  /\ sel' = sel
         /\ [OcNext]_vars /\ [EpNext]_epVars /\ [ObNext]_obVars
         /\ [IcNext]_icVars /\ [TbNext]_tbVars /\ [SgNext]_sgVars
  BY Zenon DEF CtNext, ctVars

(* Every behaviour of MCControllers is one of each controller's own        *)
(* specification, so that what is proved of a controller by itself holds   *)
(* where the runs check it.                                                *)
THEOREM CtComposes ==
  CtSpec => /\ OcSpec /\ EpSpec /\ ObSpec
            /\ IcSpec /\ TbSpec /\ SgSpec /\ [](sel \in Selected)
  <1>1. CtInit => /\ OcInit /\ EpInit /\ ObInit /\ IcInit /\ TbInit /\ SgInit
                  /\ sel \in Selected
    BY Zenon DEF CtInit
  <1>2. [CtNext]_ctVars => /\ [OcNext]_vars /\ [EpNext]_epVars /\ [ObNext]_obVars
                           /\ [IcNext]_icVars /\ [TbNext]_tbVars /\ [SgNext]_sgVars
    BY CtStepParts, Zenon
  <1>3. sel \in Selected /\ [CtNext]_ctVars => (sel \in Selected)'
    BY CtStepParts, Zenon
  <1> QED
    BY <1>1, <1>2, <1>3, PTL DEF CtSpec, OcSpec, EpSpec, ObSpec, IcSpec, TbSpec, SgSpec

(* All controllers of MCControllers are type correct, for every value of   *)
(* the constants.                                                          *)
THEOREM CtTypeCorrect == CtSpec => []CtTypeOK
  <1>1. /\ sel \in Selected
        /\ OcTypeOK /\ EpTypeOK /\ ObTypeOK /\ IcTypeOK /\ TbTypeOK /\ SgTypeOK
        => CtTypeOK
    BY Zenon DEF CtTypeOK
  <1> QED
    BY <1>1, CtComposes, OcTypeCorrect, EpTypeCorrect, ObTypeCorrect, IcTypeCorrect,
       TbTypeCorrect, SgTypeCorrect, PTL

(* The safety properties of all controllers, where the run of MCControllers *)
(* checks them and for every value of the constants: outages are exact,     *)
(* only approved requests are signed, no unsafe change of the configuration *)
(* takes effect, operands keep their addresses, a rollback is exact and the *)
(* primary VIPs are kept.                                                   *)
THEOREM CtSafe ==
  CtSpec => /\ []OutageExact /\ []SignedIfApproved
            /\ ChangesAreSafe /\ AddressesKept /\ RollbackExact /\ PrimaryKept
  BY CtComposes, OutagesExact, OnlyApprovedSigned, ConfigChangesSafe, OperandsKeepAddresses,
     RollbackIsExact, PrimaryVIPsKept, PTL

================================================================================
