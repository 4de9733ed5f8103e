------------------------------- MODULE OperConfig -------------------------------
(***************************************************************************)
(* The path of the network configuration through the operator.  A user     *)
(* writes network.config; the cluster configuration controller copies it   *)
(* into network.operator, where the user sets the rest; the operator       *)
(* configuration controller merges both again, validates the result, fills *)
(* in what is not set, compares it with the configuration applied last     *)
(* (kept in a config map), writes it back, records it as applied and       *)
(* applies the objects rendered from it.                                   *)
(*                                                                         *)
(* One reconciliation is several steps: users write, the other controller  *)
(* writes and the process dies in between.  A write of network.operator    *)
(* carries the resource version of the copy read at the start and conflicts *)
(* if the object has changed since, by this very reconciliation too.       *)
(*                                                                         *)
(* A configuration holds the fields that decide anything: service and      *)
(* cluster networks, network type, MTU and its migration, and one value    *)
(* for each of the other validated parts.  Networks are numbers as in      *)
(* SafeConfig; addresses are numbered in the order of their text.          *)
(***************************************************************************)
EXTENDS Integers, Sequences

CONSTANTS
  ClusterConfigs,  \* specs of network.config a user may write
  Installed,       \* those the cluster may be installed with
  Settings,        \* what a user may write into network.operator
  BlockSizes,      \* numbers of addresses a network may have, powers of two
  FirstIPv6,       \* the first number that is an IPv6 address
  HostMTUs,        \* MTUs the prober may find on a host
  MinMTUIPv4, MinMTUIPv6, MaxMTU, Overhead,
  Platform,        \* the platform of the cluster
  GatedPlatforms,  \* AWS, Azure, GCP: those whose dual-stack gate is enabled
  HyperShift,      \* whether the control plane is hosted
  MaxEdits,        \* bound on the changes made by users
  MaxFaults        \* bound on failed calls and crashes

(* `host`: how many of a network's addresses each node is given.           *)
OVNKubernetes == "OVNKubernetes"
NetworkTypes == {"", OVNKubernetes, "ovnkubernetes", "Other"}
ServiceNets == [net : Nat, size : BlockSizes]
PodNets == [net : Nat, size : BlockSizes, host : Nat]
SettingsType ==
  [mtu : Nat, mig : [on : BOOLEAN, from : Nat, to : Nat, machine : Nat],
   noOverlay : BOOLEAN, multi : {"unset", "enabled", "disabled"},
   extra : {"none", "valid", "invalid"}, proxy : {"", "0.0.0.0", "::", "custom", "invalid"},
   state : {"", "Managed", "Unmanaged"}]

(* Of two blocks' sizes the smaller divides the larger; a host's MTU has   *)
(* room for the overhead; a migration without a target cannot be rendered. *)
ASSUME OperConfigAssumption ==
  /\ Installed \subseteq ClusterConfigs
  /\ ClusterConfigs \subseteq [sn : Seq(ServiceNets), cn : Seq(PodNets), type : NetworkTypes]
  /\ Settings \subseteq SettingsType /\ \A s \in Settings : s.mig.on => s.mig.to # 0
  /\ BlockSizes \subseteq Nat \ {0}
  /\ \A s, t \in BlockSizes : s <= t => \E k \in 1 .. t : t = k * s
  /\ FirstIPv6 \in Nat /\ HostMTUs \subseteq Nat
  /\ {MinMTUIPv4, MinMTUIPv6, MaxMTU, Overhead} \subseteq Nat
  /\ \A host \in HostMTUs : host > Overhead
  /\ HyperShift \in BOOLEAN /\ MaxEdits \in Nat /\ MaxFaults \in Nat

VARIABLES
  clusterConfig,  \* spec of network.config
  clusterStatus,  \* status of network.config
  operConfig,     \* spec of network.operator, NoConfig while there is none
  applied,        \* the config map applied-cluster
  deployed,       \* the configuration the operands were last given
  broken,         \* history: no chain of accepted changes leads from `deployed` to the record
  mtuMap,         \* the config map mtu, 0 while there is none
  prober,         \* whether the objects of the MTU prober exist
  cleanedUp,      \* mtuProberCleanedUp
  queued,         \* a request for the operator configuration controller
  clusterQueued,  \* a request for the cluster configuration controller
  run,            \* the reconciliation in progress and its local variables
  report,         \* last status call at level OperatorConfig
  clusterReport,  \* last status call at level ClusterConfig
  edits, faults

vars == <<clusterConfig, clusterStatus, operConfig, applied, deployed, broken, mtuMap,
          prober, cleanedUp, queued, clusterQueued, run, report, clusterReport,
          edits, faults>>

(* The promise, about the record and what runs.                            *)
Safe == INSTANCE SafeConfig WITH record <- applied, running <- deployed

NoMigration == Safe!NoMigration
NoConfig == Safe!NoConfig
NoStatus == [sn |-> <<>>, cn |-> <<>>, type |-> "", mtu |-> 0, mig |-> NoMigration]

(* `oper` and `next` are operConfig and newOperConfig of the code; `fresh`: *)
(* network.operator still has the resource version of the copy.            *)
Idle == [pc |-> "idle", fresh |-> FALSE, oper |-> NoConfig, prev |-> NoConfig,
         next |-> NoConfig, mtu |-> 0, failed |-> FALSE]

IsIPv6(n) == Safe!IsIPv6(n)
Elements(s) == {s[i] : i \in DOMAIN s}
Families(s) == {IsIPv6(n) : n \in Elements(s)}

--------------------------------------------------------------------------------
(* Validation                                                              *)

(* iputil.IPPool: no network overlaps one added before.                    *)
NoOverlap(s) ==
  \A i, j \in DOMAIN s : i < j => Safe!Block(s[i]) \cap Safe!Block(s[j]) = {}

HostPrefixOK(n, type) ==
  type = OVNKubernetes \/ n.host # 0 => n.host <= n.size /\ n.host >= 4

validateIPPools(c) ==
  /\ NoOverlap(c.sn \o c.cn)
  /\ Len(c.sn) \in {1, 2} /\ (Len(c.sn) = 2 => Families(c.sn) = BOOLEAN)
  /\ Len(c.cn) >= 1 /\ \A n \in Elements(c.cn) : HostPrefixOK(n, c.type)
  /\ Families(c.cn) = Families(c.sn)

isSupportedDualStackPlatform ==
  Platform \in {"BareMetal", "None", "VSphere", "OpenStack", "KubeVirt"} \cup GatedPlatforms
isConversionToDualStackSupported == Platform \in {"BareMetal", "None", "VSphere"}

ValidateClusterConfig(c) ==
  /\ validateIPPools(c)
  /\ c.type # ""
  /\ Families(c.sn) = BOOLEAN => isSupportedDualStackPlatform

MinMTU(c) == IF TRUE \in Families(c.cn) THEN MinMTUIPv6 ELSE MinMTUIPv4

(* Ports, internal subnets and the migration of the network type, which is *)
(* always refused, are left out.                                           *)
validateOVNKubernetes(c) ==
  /\ Families(c.cn) = Families(c.sn) /\ Families(c.cn) # {}
  /\ c.mtu # 0 => c.mtu \in MinMTU(c) .. MaxMTU

usesKubeProxy(c) == c.type # OVNKubernetes
validateKubeProxy(c) == IF usesKubeProxy(c) THEN c.proxy # "invalid"
                        ELSE c.proxy \in {"", "0.0.0.0", "::"}

validateMultus(c) == c.multi = "disabled" => c.extra = "none"

Validate(c) ==
  /\ validateIPPools(c)
  /\ c.type = OVNKubernetes => validateOVNKubernetes(c)
  /\ validateMultus(c)
  /\ validateKubeProxy(c)

DeprecatedCanonicalize(c) ==
  [c EXCEPT !.type = IF @ = "ovnkubernetes" THEN OVNKubernetes ELSE @]

--------------------------------------------------------------------------------
(* Merging and defaults                                                    *)

\* Mutant: the networks are only taken over when there are none.
Bug_MergeOnce(o, c) ==
  [o EXCEPT !.sn = IF @ = <<>> THEN c.sn ELSE @, !.cn = IF @ = <<>> THEN c.cn ELSE @,
            !.type = c.type, !.state = IF @ = "" THEN "Managed" ELSE @]

MergeClusterConfig(o, c) ==
  [o EXCEPT !.sn = c.sn, !.cn = c.cn, !.type = c.type,
            !.state = IF @ = "" THEN "Managed" ELSE @]

needsMTU(c) == c = NoConfig \/ (c.type = OVNKubernetes /\ c.mtu = 0)
NeedMTUProbe(p, n) == needsMTU(p) /\ needsMTU(n)

fillOVNKubernetesDefaults(c, p, host) ==
  IF c.type # OVNKubernetes \/ c.mtu # 0 THEN c.mtu
  ELSE IF p.mtu # 0 THEN p.mtu
  ELSE IF c.noOverlay THEN host ELSE host - Overhead

fillKubeProxyDefaults(c) ==
  IF ~usesKubeProxy(c) \/ c.proxy # "" THEN c.proxy
  ELSE IF IsIPv6(c.cn[1]) THEN "::" ELSE "0.0.0.0"

\* Mutant: a default is left implicit.
Bug_ImplicitDefault(c, p, host) ==
  [c EXCEPT !.mtu = fillOVNKubernetesDefaults(c, p, host), !.proxy = fillKubeProxyDefaults(c)]

FillDefaults(c, p, host) ==
  [c EXCEPT !.multi = IF @ = "unset" THEN "enabled" ELSE @,
            !.mtu = fillOVNKubernetesDefaults(c, p, host),
            !.proxy = fillKubeProxyDefaults(c)]

ValidateMTUForNoOverlay(c, host) ==
  c.type = OVNKubernetes /\ c.noOverlay /\ host # 0 => c.mtu <= host

--------------------------------------------------------------------------------
(* Which changes are safe                                                  *)

Sorted(s) ==
  LET order == CHOOSE p \in [DOMAIN s -> DOMAIN s] :
                 /\ Elements(p) = DOMAIN s
                 /\ \A i, j \in DOMAIN s : i < j => s[p[i]].net <= s[p[j]].net
  IN  [i \in DOMAIN s |-> s[order[i]]]

\* Mutant: a smaller range is accepted as well.
Bug_AnyMask(p, n) ==
  /\ Len(p.cn) = Len(n.cn) /\ n.type = OVNKubernetes
  /\ \A i \in DOMAIN p.cn : LET a == Sorted(p.cn)[i]
                                b == Sorted(n.cn)[i]
                            IN  a.host = b.host /\ a.net = b.net

isClusterNetworkChangeSafe(p, n) ==
  /\ Len(p.cn) = Len(n.cn) /\ n.type = OVNKubernetes
  /\ \A i \in DOMAIN p.cn : LET a == Sorted(p.cn)[i]
                                b == Sorted(n.cn)[i]
                            IN  a.host = b.host /\ a.net = b.net /\ a.size <= b.size

(* To or from dual stack.                                                  *)
isStackChangeSafe(single, dual) ==
  /\ single.sn[1] = dual.sn[1]
  /\ \A i \in DOMAIN dual.cn :
       IF i <= Len(single.cn) THEN single.cn[i] = dual.cn[i]
       ELSE IsIPv6(dual.cn[i]) # IsIPv6(single.cn[1])

isNetworkChangeSafe(p, n) ==
  IF p.mig.on THEN p.sn = n.sn
  ELSE IF p.cn = n.cn /\ p.sn = n.sn THEN TRUE
  ELSE IF Len(p.sn) < Len(n.sn)
    THEN isConversionToDualStackSupported /\ isStackChangeSafe(p, n)
  ELSE IF Len(p.sn) > Len(n.sn) THEN isStackChangeSafe(n, p)
  ELSE p.sn = n.sn /\ isClusterNetworkChangeSafe(p, n)

\* Mutant: the MTU a migration starts from is not compared with the one in use.
Bug_AnyFrom(p, n) ==
  IF n.mig.on
    THEN /\ 0 \notin {n.mig.from, n.mig.to, n.mig.machine}
         /\ {n.mig.to, n.mig.machine} \subseteq MinMTU(n) .. MaxMTU
         /\ n.mig.to + Overhead <= n.mig.machine
    ELSE p.mtu = n.mtu

isOVNKubernetesChangeSafe(p, n) ==
  IF n.mig.on
    THEN /\ 0 \notin {n.mig.from, n.mig.to, n.mig.machine}
         /\ (p.mig.on /\ p.mig.from = n.mig.from) \/ n.mig.from = p.mtu
         /\ {n.mig.to, n.mig.machine} \subseteq MinMTU(n) .. MaxMTU
         /\ n.mig.to + Overhead <= n.mig.machine
    ELSE p.mtu = n.mtu

isDefaultNetworkChangeSafe(p, n) ==
  p.type = n.type /\ (p.type = OVNKubernetes => isOVNKubernetesChangeSafe(p, n))

IsChangeSafe(p, n) ==
  \/ p = NoConfig \/ p = n
  \/ isNetworkChangeSafe(p, n) /\ isDefaultNetworkChangeSafe(p, n) /\ p.multi = n.multi

(* The check sorts the cluster networks it compares in place, and so those *)
(* of the configuration that is written and applied.                       *)
Checked(p, n) ==
  IF /\ p # NoConfig /\ p # n /\ ~p.mig.on /\ p.cn # n.cn /\ p.sn = n.sn
     /\ Len(p.cn) = Len(n.cn) /\ n.type = OVNKubernetes
  THEN [n EXCEPT !.cn = Sorted(@)] ELSE n

--------------------------------------------------------------------------------
(* What every step does besides.                                           *)

apiObjects == <<clusterConfig, clusterStatus, operConfig, applied, deployed, broken>>
probing == <<mtuMap, prober, cleanedUp>>
clusterSide == <<clusterQueued, clusterReport>>

Fault == faults < MaxFaults /\ faults' = faults + 1

(* The error is returned and the request is retried; `r` is the status call. *)
ReturnError(r) == run' = Idle /\ queued' = TRUE /\ report' = r

(* A write of network.operator starts its watchers if the spec changes.    *)
WriteOper(o) ==
  LET new == [o EXCEPT !.mig = operConfig.mig,
                       !.state = IF operConfig.state # "" THEN operConfig.state ELSE @]
  IN  operConfig' = new

OcInit ==
  /\ clusterConfig \in Installed
  /\ clusterStatus = NoStatus /\ operConfig = NoConfig
  /\ applied = NoConfig /\ deployed = NoConfig /\ broken = FALSE
  /\ mtuMap = 0 /\ prober = FALSE /\ cleanedUp = FALSE
  /\ queued = TRUE /\ clusterQueued = TRUE /\ run = Idle
  /\ report = "none" /\ clusterReport = "none"
  /\ edits = 0 /\ faults = 0

--------------------------------------------------------------------------------
(* The cluster configuration controller                                    *)

ClusterConfigReconcile ==
  /\ clusterQueued
  /\ IF ValidateClusterConfig(clusterConfig)
       THEN /\ operConfig' = MergeClusterConfig(operConfig, clusterConfig)
            /\ queued' = (queued \/ operConfig' # operConfig)
            /\ run' = [run EXCEPT !.fresh = @ /\ operConfig' = operConfig]
            /\ clusterQueued' = FALSE /\ clusterReport' = "ok"
       ELSE clusterReport' = "InvalidClusterConfig" /\ UNCHANGED <<operConfig, queued, run, clusterQueued>>
  /\ UNCHANGED <<clusterConfig, clusterStatus, applied, deployed, broken, probing, report, edits, faults>>

(* Reading the infrastructure, or the write, fails.                        *)
ClusterConfigFails ==
  /\ clusterQueued /\ Fault
  /\ clusterReport' \in {clusterReport, "failing"}
  /\ UNCHANGED <<apiObjects, probing, queued, clusterQueued, run, report, edits>>

--------------------------------------------------------------------------------
(* The operator configuration controller, one reconciliation               *)

Start ==
  /\ run.pc = "idle" /\ queued
  /\ IF operConfig = NoConfig
       THEN queued' = FALSE /\ report' = "NoOperatorConfig" /\ UNCHANGED run
     ELSE IF operConfig.state = "Unmanaged"
       THEN queued' = FALSE /\ UNCHANGED <<report, run>>
     ELSE /\ run' = [Idle EXCEPT !.pc = "merge", !.fresh = TRUE, !.oper = operConfig]
          /\ queued' = FALSE /\ UNCHANGED report
  /\ UNCHANGED <<apiObjects, probing, clusterSide, edits, faults>>

(* A cluster configuration that is not valid is ignored.                   *)
Merge ==
  LET merged == IF ValidateClusterConfig(clusterConfig)
                  THEN MergeClusterConfig(run.oper, clusterConfig) ELSE run.oper
  IN  /\ run.pc = "merge"
      /\ IF merged = run.oper
           THEN /\ run' = [run EXCEPT !.pc = "validate"]
                /\ UNCHANGED <<operConfig, queued, report>>
         ELSE IF run.fresh
           THEN /\ WriteOper(merged) /\ queued' = TRUE
                /\ run' = [run EXCEPT !.pc = "validate", !.oper = merged, !.fresh = FALSE]
                /\ UNCHANGED report
         ELSE ReturnError(report) /\ UNCHANGED operConfig
      /\ UNCHANGED <<clusterConfig, clusterStatus, applied, deployed, broken, probing,
                     clusterSide, edits, faults>>

(* Validate, and read the applied configuration.                           *)
ValidateConfig ==
  LET c == DeprecatedCanonicalize(run.oper)
  IN  /\ run.pc = "validate"
      /\ IF Validate(c)
           THEN /\ run' = [run EXCEPT !.oper = c, !.prev = applied,
                             !.pc = IF \/ NeedMTUProbe(applied, c)
                                       \/ mtuMap = 0 /\ ~HyperShift
                                    THEN "probe" ELSE "check"]
                /\ UNCHANGED <<queued, report>>
           ELSE ReturnError("InvalidOperatorConfig")
      /\ UNCHANGED <<apiObjects, probing, clusterSide, edits, faults>>

deleteMTUProber == prober' = (prober /\ cleanedUp) /\ cleanedUp' = TRUE

(* Some hosted control planes use a fixed MTU.  Otherwise it is known, or  *)
(* the prober is deployed to find it.                                      *)
FixedMTU == HyperShift /\ Platform \in {"AWS", "Azure"}

ProbeMTU ==
  /\ run.pc = "probe"
  /\ IF FixedMTU \/ mtuMap # 0
       THEN /\ \E host \in IF FixedMTU THEN HostMTUs ELSE {mtuMap} :
                 run' = [run EXCEPT !.pc = "check", !.mtu = host]
            /\ IF FixedMTU THEN UNCHANGED <<prober, cleanedUp>> ELSE deleteMTUProber
       ELSE prober' = TRUE /\ cleanedUp' = FALSE /\ run' = [run EXCEPT !.pc = "wait"]
  /\ UNCHANGED <<apiObjects, mtuMap, clusterSide, queued, report, edits, faults>>

(* The config map has appeared.                                            *)
ProbeDone ==
  /\ run.pc = "wait" /\ mtuMap # 0
  /\ deleteMTUProber
  /\ run' = [run EXCEPT !.pc = "check", !.mtu = mtuMap]
  /\ UNCHANGED <<apiObjects, mtuMap, clusterSide, queued, report, edits, faults>>

(* 100 seconds have passed without a result.                               *)
ProbeTimeout ==
  /\ run.pc = "wait" /\ mtuMap = 0 /\ Fault
  /\ deleteMTUProber /\ ReturnError("failing")
  /\ UNCHANGED <<apiObjects, mtuMap, clusterSide, edits>>

(* Fill in the defaults, and compare with the applied configuration.       *)
CheckConfig ==
  LET p == IF run.prev = NoConfig THEN NoConfig ELSE FillDefaults(run.prev, run.prev, run.mtu)
      n == FillDefaults(run.oper, p, run.mtu)
  IN  /\ run.pc = "check"
      /\ IF ValidateMTUForNoOverlay(n, run.mtu) /\ IsChangeSafe(p, n)
           THEN /\ run' = [run EXCEPT !.pc = "update", !.next = Checked(p, n)]
                /\ UNCHANGED <<queued, report>>
           ELSE ReturnError("InvalidOperatorConfig")
      /\ UNCHANGED <<apiObjects, probing, clusterSide, edits, faults>>

(* Write back what has changed.                                            *)
UpdateOperConfig ==
  /\ run.pc = "update"
  /\ IF run.oper = run.next
       THEN run' = [run EXCEPT !.pc = "render"] /\ UNCHANGED <<operConfig, queued, report>>
     ELSE IF run.fresh
       THEN /\ WriteOper(run.next)
            /\ queued' = (queued \/ operConfig' # operConfig)
            /\ run' = [run EXCEPT !.pc = "render", !.fresh = FALSE] /\ UNCHANGED report
     ELSE ReturnError(report) /\ UNCHANGED operConfig
  /\ UNCHANGED <<clusterConfig, clusterStatus, applied, deployed, broken, probing,
                 clusterSide, edits, faults>>

(* Rendering a migration sets the MTU of the configuration to its target.  *)
RenderedMTU(c) == IF c.type = OVNKubernetes /\ c.mig.on THEN c.mig.to ELSE c.mtu

(* An additional network may hold a configuration that is not JSON.        *)
renderAdditionalNetworks(c) == c.extra # "invalid"

Render ==
  /\ run.pc = "render"
  /\ IF ~renderAdditionalNetworks(run.next) THEN ReturnError("failing")
     ELSE /\ run' = [run EXCEPT !.pc = "record", !.next.mtu = RenderedMTU(run.next)]
          /\ UNCHANGED <<queued, report>>
  /\ UNCHANGED <<apiObjects, probing, clusterSide, edits, faults>>

(* Nothing, or a migration, was applied before: the pod networks were not  *)
(* compared.                                                               *)
Unchecked == broken \/ run.prev = NoConfig \/ run.prev.mig.on

(* The record of the configuration is the first object applied.            *)
ApplyRecord ==
  /\ run.pc = "record"
  /\ applied' = run.next /\ broken' = Unchecked
  /\ run' = [run EXCEPT !.pc = "operands"]
  /\ UNCHANGED <<clusterConfig, clusterStatus, operConfig, deployed, probing, clusterSide,
                 queued, report, edits, faults>>

(* It fails, and the loop goes on with the other objects.                  *)
ApplyRecordFails ==
  /\ run.pc = "record" /\ Fault
  /\ broken' = Unchecked
  /\ run' = [run EXCEPT !.pc = "operands", !.failed = TRUE]
  /\ UNCHANGED <<clusterConfig, clusterStatus, operConfig, applied, deployed, probing,
                 clusterSide, queued, report, edits>>

ApplyOperands ==
  /\ run.pc = "operands"
  /\ deployed' = run.next /\ broken' = run.failed
  /\ IF run.failed THEN ReturnError("failing")
     ELSE run' = [run EXCEPT !.pc = "status"] /\ UNCHANGED <<queued, report>>
  /\ UNCHANGED <<clusterConfig, clusterStatus, operConfig, applied, probing,
                 clusterSide, edits, faults>>

(* Some of the other objects could not be applied.                         *)
ApplyOperandsFails ==
  /\ run.pc = "operands" /\ Fault
  /\ \/ deployed' = run.next /\ broken' = run.failed
     \/ UNCHANGED <<deployed, broken>>
  /\ ReturnError("failing")
  /\ UNCHANGED <<clusterConfig, clusterStatus, operConfig, applied, probing,
                 clusterSide, edits>>

StatusFromOperatorConfig(c, old) ==
  IF c.type = OVNKubernetes
    THEN [sn |-> c.sn, cn |-> c.cn, type |-> c.type, mtu |-> c.mtu, mig |-> c.mig]
    ELSE [sn |-> IF old.sn = <<>> THEN c.sn ELSE old.sn,
          cn |-> IF old.cn = <<>> THEN c.cn ELSE old.cn,
          type |-> IF old.type = "" THEN c.type ELSE old.type,
          mtu |-> old.mtu, mig |-> c.mig]

(* The last object is the status of network.config; the request comes back *)
(* after the resync period.                                                *)
ClusterNetworkStatus ==
  /\ run.pc = "status"
  /\ clusterStatus' = StatusFromOperatorConfig(run.next, clusterStatus)
  /\ report' = "ok" /\ queued' = TRUE /\ run' = Idle
  /\ UNCHANGED <<clusterConfig, operConfig, applied, deployed, broken, probing,
                 clusterSide, edits, faults>>

(* A read, a write or the preparation of the platform fails.  A write of   *)
(* the status of network.operator in between is a conflict as well.        *)
StepFails ==
  /\ run.pc \in {"merge", "validate", "probe", "update", "render", "status"} /\ Fault
  /\ \E r \in {report, "failing"} :
       /\ run.pc = "validate" => r = report
       /\ run.pc \in {"probe", "render", "status"} => r = "failing"
       /\ ReturnError(r)
  /\ prober' \in IF run.pc = "probe" /\ mtuMap = 0 THEN {prober, TRUE} ELSE {prober}
  /\ UNCHANGED <<apiObjects, mtuMap, cleanedUp, clusterSide, edits>>

--------------------------------------------------------------------------------
(* The rest of the world                                                   *)

Prober ==
  /\ prober /\ mtuMap = 0
  /\ mtuMap' \in HostMTUs /\ queued' = TRUE
  /\ UNCHANGED <<apiObjects, prober, cleanedUp, clusterSide, run, report, edits, faults>>

Edit == edits < MaxEdits /\ edits' = edits + 1 /\ UNCHANGED <<clusterReport, report, faults>>

EditClusterConfig ==
  /\ Edit
  /\ clusterConfig' \in ClusterConfigs \ {clusterConfig} /\ clusterQueued' = TRUE
  /\ UNCHANGED <<clusterStatus, operConfig, applied, deployed, broken, probing, queued, run>>

(* A value that is already set stays set: the operator owns it.            *)
EditOperConfig ==
  /\ Edit /\ operConfig # NoConfig
  /\ \E s \in Settings :
       operConfig' = [operConfig EXCEPT !.mtu = s.mtu, !.mig = s.mig, !.noOverlay = s.noOverlay,
                        !.multi = s.multi, !.extra = s.extra, !.proxy = s.proxy, !.state = s.state]
  /\ operConfig' # operConfig
  /\ queued' = TRUE /\ run' = [run EXCEPT !.fresh = FALSE]
  /\ UNCHANGED <<clusterConfig, clusterStatus, applied, deployed, broken, probing, clusterQueued>>

(* The documented way to force a change.                                   *)
DeleteApplied ==
  /\ Edit /\ applied # NoConfig /\ applied' = NoConfig
  /\ UNCHANGED <<clusterConfig, clusterStatus, operConfig, deployed, broken, probing,
                 clusterQueued, queued, run>>

DeleteMtuMap ==
  /\ Edit /\ mtuMap # 0 /\ mtuMap' = 0 /\ queued' = TRUE
  /\ UNCHANGED <<apiObjects, prober, cleanedUp, clusterQueued, run>>

Crash ==
  /\ Fault
  /\ run' = Idle /\ queued' = TRUE /\ clusterQueued' = TRUE /\ cleanedUp' = FALSE
  /\ report' = "none" /\ clusterReport' = "none"
  /\ UNCHANGED <<apiObjects, mtuMap, prober, edits>>

--------------------------------------------------------------------------------
Step ==
  \/ Start \/ Merge \/ ValidateConfig \/ ProbeMTU \/ ProbeDone \/ CheckConfig
  \/ UpdateOperConfig \/ Render \/ ApplyRecord \/ ApplyOperands \/ ClusterNetworkStatus

OcNext ==
  \/ Step \/ ProbeTimeout \/ ApplyRecordFails \/ ApplyOperandsFails \/ StepFails
  \/ ClusterConfigReconcile \/ ClusterConfigFails
  \/ Prober \/ EditClusterConfig \/ EditOperConfig \/ DeleteApplied \/ DeleteMtuMap \/ Crash

OcSpec == OcInit /\ [][OcNext]_vars

(* Both controllers work on their requests, and the prober's job runs.     *)
OcFairness == WF_vars(Step) /\ WF_vars(ClusterConfigReconcile) /\ WF_vars(Prober)

OcFairSpec == OcSpec /\ OcFairness

--------------------------------------------------------------------------------
Configs == [sn : Seq(ServiceNets), cn : Seq(PodNets), type : NetworkTypes, mtu : Nat,
            mig : [on : BOOLEAN, from : Nat, to : Nat, machine : Nat],
            noOverlay : BOOLEAN, multi : {"unset", "enabled", "disabled"},
            extra : {"none", "valid", "invalid"}, proxy : {"", "0.0.0.0", "::", "custom", "invalid"},
            state : {"", "Managed", "Unmanaged"}]

(* Type correctness; what runs and what is recorded has all defaults       *)
(* explicit and is valid by itself.  Its MTU need not be in range: a       *)
(* default and, where nothing was recorded, a migration's target are not   *)
(* looked at.                                                              *)
OcTypeOK ==
  /\ clusterConfig \in ClusterConfigs
  /\ {operConfig, applied, deployed, run.oper, run.prev, run.next} \subseteq Configs
  /\ run.pc \in {"idle", "merge", "validate", "probe", "wait", "check", "update",
                 "render", "record", "operands", "status"}
  /\ {broken, prober, cleanedUp, queued, clusterQueued, run.fresh, run.failed} \subseteq BOOLEAN
  /\ mtuMap \in HostMTUs \cup {0} /\ run.mtu \in HostMTUs \cup {0}
  /\ report \in {"none", "ok", "failing", "NoOperatorConfig", "InvalidOperatorConfig"}
  /\ clusterReport \in {"none", "ok", "failing", "InvalidClusterConfig"}
  /\ edits \in 0 .. MaxEdits /\ faults \in 0 .. MaxFaults
  /\ \A c \in {applied, deployed} \ {NoConfig} :
       Validate([c EXCEPT !.mtu = 0]) /\ c.multi # "unset" /\ ~needsMTU(c)

(* What is recorded as applied and what the operands are given changes     *)
(* only as SafeConfig allows, whatever users write, wherever the process   *)
(* dies and whichever write fails (IsChangeSafe, GetAppliedConfiguration). *)
ChangesAreSafe == Safe!SafeSpec

KeepAddresses ==
  deployed' # deployed /\ deployed # NoConfig /\ ~broken =>
    Safe!KeepsAddresses(deployed, deployed')

(* From one configuration of the operands to the next, over any number of  *)
(* reconciliations that failed in between, services keep the primary       *)
(* service network and no pod loses its address, as long as every change   *)
(* was recorded and none was forced or made during a migration.            *)
AddressesKept == [][KeepAddresses]_vars

InEffect ==
  /\ report = "ok"
  /\ deployed.sn = clusterConfig.sn /\ Elements(deployed.cn) = Elements(clusterConfig.cn)
  /\ deployed.type = OVNKubernetes =>
       deployed.mtu = IF operConfig.mig.on THEN operConfig.mig.to ELSE operConfig.mtu

(* Once users stop, their configuration is in effect and reported as such, *)
(* or one of the two levels says that it is not (Reconcile of both         *)
(* controllers, and their retries).                                        *)
TakesEffect ==
  <>[](\/ InEffect \/ operConfig.state = "Unmanaged"
       \/ clusterReport = "InvalidClusterConfig"
       \/ report \in {"InvalidOperatorConfig", "failing"})

(* The cluster networks of network.operator end up as those of             *)
(* network.config: the documentation says that conflicting fields of the   *)
(* operator configuration are overwritten, and the sort in                 *)
(* isClusterNetworkChangeSafe is there to compare.                         *)
OperatorFollowsCluster == <>[](operConfig.cn = clusterConfig.cn)
=================================================================================
