------------------------------ MODULE InfraConfig ------------------------------
(***************************************************************************)
(* The controller of Infrastructure "cluster": it migrates the VIPs of old *)
(* releases to the fields of new ones and carries the VIPs and machine     *)
(* networks a user asks for in the spec over to the status, from where the *)
(* on-premise components take them.                                        *)
(*                                                                         *)
(* Spec and status are written one after the other, both from the object   *)
(* read at the beginning, and server-side apply takes them whatever has    *)
(* happened to the object since.                                           *)
(***************************************************************************)
EXTENDS Integers, Sequences

CONSTANTS
  IPv6VIPs,       \* the VIPs that are IPv6 addresses
  InfraSpecs,     \* specs users ask for: VIPs and machine networks
  InfraStatuses,  \* statuses the installer may have left
  MaxIcEdits, MaxIcFaults

VARIABLES
  icObject,   \* the Infrastructure object
  icPlatform, \* the type of the platform, and whether its status is filled in
  icPc,       \* "idle", or the write that comes next
  icRead,     \* the object as it was read
  icWanted,   \* the object as it is to become
  icDue,      \* a request is queued
  icReport,   \* the last report to the status manager
  icLeft      \* edits and faults left

icVars == <<icObject, icPlatform, icPc, icRead, icWanted, icDue, icReport, icLeft>>

Fields == {"api", "ingress"}
onPremPlatforms == {"BareMetal", "VSphere", "OpenStack", "Ovirt", "Nutanix"}
specPlatforms == {"BareMetal", "VSphere", "OpenStack"}

NoSpec == [api |-> <<>>, ingress |-> <<>>, nets |-> <<>>]

(* A VIP is a number, 0 if it is not set; a network is the set of its      *)
(* addresses.                                                              *)
SpecType == [api : Seq(Nat), ingress : Seq(Nat), nets : Seq(SUBSET Nat)]
StatusType == [api : Seq(Nat), ingress : Seq(Nat), nets : Seq(SUBSET Nat), old : [Fields -> Nat]]

(* The installer leaves every VIP in the new field or in the old one.      *)
ASSUME InfraAssumption ==
  /\ MaxIcEdits \in Nat /\ MaxIcFaults \in Nat
  /\ \A spec \in InfraSpecs : spec \in SpecType
  /\ \A status \in InfraStatuses :
       status \in StatusType /\ \A f \in Fields : status[f] # <<>> \/ status.old[f] # 0

--------------------------------------------------------------------------------
(* VipsSynchronize: the deprecated single VIP (0 if not set) and the list. *)

syncVIPs(s, f) ==
  IF s[f] = <<>>
    THEN IF s.old[f] = 0 THEN s ELSE [s EXCEPT ![f] = <<s.old[f]>>]
    ELSE [s EXCEPT !.old[f] = s[f][1]]

(* Not for a platform whose status has not been filled in.                 *)
VipsSynchronize(obj) ==
  IF icPlatform.filled
    THEN [obj EXCEPT !.status = syncVIPs(syncVIPs(@, "api"), "ingress")]
    ELSE obj

--------------------------------------------------------------------------------
(* SpecStatusSynchronize                                                   *)

IsDualStack(vips) ==
  /\ \E i \in DOMAIN vips : vips[i] \in IPv6VIPs
  /\ \E i \in DOMAIN vips : vips[i] \notin IPv6VIPs

validateVipsWithVips(spec) ==
  /\ Len(spec.api) <= 2 /\ Len(spec.ingress) = Len(spec.api)
  /\ icPlatform.elb \/ \A i \in DOMAIN spec.api : spec.api[i] # spec.ingress[i]
  /\ Len(spec.api) > 1 => IsDualStack(spec.api) /\ IsDualStack(spec.ingress)

validateVipsWithMachineNetworks(vips, nets) ==
  nets # <<>> => \A i \in DOMAIN vips : \E j \in DOMAIN nets : vips[i] \in nets[j]

MachineNetworksKept(spec, status) ==
  status.nets # <<>> => spec.nets # <<>> /\ spec.nets[1] = status.nets[1]

\* Mutant: only the number of VIPs is compared.
Bug_AnyVIP(spec, status, f) == spec[f] = <<>> \/ Len(spec[f]) >= Len(status[f])

FirstVIPKept(spec, status, f) == spec[f] = <<>> \/ spec[f][1] = status[f][1]

Valid(obj) ==
  /\ MachineNetworksKept(obj.spec, obj.status)
  /\ validateVipsWithVips(obj.spec)
  /\ \A f \in Fields : validateVipsWithMachineNetworks(obj.spec[f], obj.spec.nets)
  /\ \A f \in Fields : FirstVIPKept(obj.spec, obj.status, f)

(* syncMachineNetworks and syncVips: an empty spec is filled from the      *)
(* status, any other becomes the status.                                   *)
Synced(obj) ==
  LET vips(f) == IF obj.spec[f] = <<>> THEN obj.status[f] ELSE obj.spec[f]
  IN  [spec |-> [api |-> vips("api"), ingress |-> vips("ingress"), nets |-> obj.spec.nets],
       status |-> [api |-> vips("api"), ingress |-> vips("ingress"),
                   nets |-> obj.spec.nets, old |-> obj.status.old]]

HasSpec == icPlatform.filled /\ icPlatform.type \in specPlatforms

--------------------------------------------------------------------------------
(* Reconcile                                                               *)

(* An error is retried.                                                    *)
IcSynchronize ==
  /\ icPc = "idle" /\ icDue
  /\ LET obj == VipsSynchronize(icObject)
     IN  IF HasSpec /\ ~Valid(obj)
           THEN /\ icReport' = "Degraded"
                /\ UNCHANGED <<icPc, icRead, icWanted, icDue>>
           ELSE /\ icWanted' = IF HasSpec THEN Synced(obj) ELSE obj
                /\ icRead' = icObject /\ icPc' = "spec" /\ icDue' = FALSE
                /\ UNCHANGED icReport
  /\ UNCHANGED <<icObject, icPlatform, icLeft>>

(* What is written is an event for this controller.                        *)
IcWriteSpec ==
  /\ icPc = "spec" /\ icPc' = "status"
  /\ IF icWanted.spec = icRead.spec THEN UNCHANGED <<icObject, icDue>>
     ELSE icObject' = [icObject EXCEPT !.spec = icWanted.spec] /\ icDue' = TRUE
  /\ UNCHANGED <<icPlatform, icRead, icWanted, icReport, icLeft>>

IcWriteStatus ==
  /\ icPc = "status" /\ icPc' = "idle"
  /\ IF icWanted.status = icRead.status THEN UNCHANGED <<icObject, icDue>>
     ELSE icObject' = [icObject EXCEPT !.status = icWanted.status] /\ icDue' = TRUE
  /\ icReport' = "NotDegraded"
  /\ UNCHANGED <<icPlatform, icRead, icWanted, icLeft>>

IcFault == icLeft.faults > 0 /\ icLeft' = [icLeft EXCEPT !.faults = @ - 1]

(* A write fails, or the process is restarted between the two.             *)
IcFails ==
  /\ icPc # "idle" /\ icPc' = "idle" /\ icDue' = TRUE
  /\ icReport' \in {icReport, "MaybeDegraded"}
  /\ IcFault
  /\ UNCHANGED <<icObject, icPlatform, icRead, icWanted>>

(* Events of other platforms are filtered out.                             *)
EditInfrastructure ==
  /\ icLeft.edits > 0 /\ icLeft' = [icLeft EXCEPT !.edits = @ - 1]
  /\ \E spec \in InfraSpecs : icObject' = [icObject EXCEPT !.spec = spec]
  /\ icDue' = (icDue \/ icPlatform.type \in onPremPlatforms)
  /\ UNCHANGED <<icPlatform, icPc, icRead, icWanted, icReport>>

(* A cluster of the platform that was installed with an old or with a new  *)
(* release.                                                                *)
IcInit ==
  /\ icObject \in [spec : {NoSpec}, status : InfraStatuses]
  /\ icPlatform \in [type : {"BareMetal", "Nutanix", "None"}, filled : {TRUE}, elb : BOOLEAN]
                      \cup [type : {"VSphere"}, filled : {FALSE}, elb : {FALSE}]
  /\ icPc = "idle" /\ icRead = icObject /\ icWanted = icObject
  /\ icDue = (icPlatform.type \in onPremPlatforms)
  /\ icReport = "none"
  /\ icLeft = [edits |-> MaxIcEdits, faults |-> MaxIcFaults]

IcReconcile == IcSynchronize \/ IcWriteSpec \/ IcWriteStatus
IcNext == IcReconcile \/ IcFails \/ EditInfrastructure

IcSpec == IcInit /\ [][IcNext]_icVars

--------------------------------------------------------------------------------
IcTypeOK ==
  /\ icPc \in {"idle", "spec", "status"} /\ icDue \in BOOLEAN
  /\ icReport \in {"none", "Degraded", "MaybeDegraded", "NotDegraded"}
  /\ icLeft \in [edits : 0 .. MaxIcEdits, faults : 0 .. MaxIcFaults]
  /\ \A obj \in {icObject, icRead, icWanted} :
       /\ \A f \in Fields : obj.spec[f] \in Seq(Nat) /\ obj.status[f] \in Seq(Nat)
       /\ obj.status.old \in [Fields -> Nat]

Primary(s, f) == IF s[f] = <<>> THEN s.old[f] ELSE s[f][1]
PrimaryStep ==
  LET old == icObject.status
      new == icObject'.status
  IN  /\ \A f \in Fields : Primary(new, f) = Primary(old, f)
      /\ old.nets # <<>> => new.nets # <<>> /\ new.nets[1] = old.nets[1]
      /\ new # old => \A f \in Fields : new.old[f] = new[f][1]

(* Whatever users ask for and however the two writes are interrupted, the  *)
(* status keeps the first VIPs and the first machine network the cluster   *)
(* was installed with, wherever they were recorded, and every status that  *)
(* is written shows the first VIP in the deprecated field too              *)
(* (syncVips, syncMachineNetworks, syncVIPs).                              *)
PrimaryKept == [][PrimaryStep]_icVars
================================================================================
