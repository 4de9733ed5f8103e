------------------------------- MODULE OvnRollout -------------------------------
(***************************************************************************)
(* In which order the two halves of OVN-Kubernetes, the ovnkube-node       *)
(* DaemonSet and the ovnkube-control-plane Deployment, are given a new     *)
(* release or a new IP family mode.                                        *)
(*                                                                         *)
(* No state of the roll-out is kept by the operator: every reconciliation  *)
(* looks at the three workloads (the third is the DaemonSet that pulls the *)
(* new image before it is needed), and three gates, one after the other,   *)
(* decide which of them may be updated this time.  The decision is carried *)
(* out some time later, one object after the other, and each may fail.     *)
(*                                                                         *)
(* The template of a workload is reduced to the release and the IP family  *)
(* mode it is annotated with, the status to what the gates look at.        *)
(***************************************************************************)
EXTENDS Integers

CONSTANTS
  Releases,     \* releases of the operator, ordered as their versions are
  Families,     \* IP family modes of the configuration
  Desired,      \* number of pods of every workload
  Hanging,      \* DaemonSets whose roll-out may be marked as hung
  Failing,      \* workloads whose pods may become unavailable
  Deletable     \* workloads whose deletion is explored

Node == "node"
ControlPlane == "control-plane"
Prepuller == "prepuller"
Workloads == {Node, ControlPlane, Prepuller}
Both == {Node, ControlPlane}

NoVersion == 0   \* an annotation that is no version
NoFamily == "no family"

ASSUME OvnAssumption ==
  /\ Releases \subseteq Nat \ {NoVersion} /\ Releases # {}
  /\ NoFamily \notin Families /\ Families # {}
  /\ Desired \in Nat
  /\ Hanging \subseteq {Node, Prepuller}
  /\ Failing \subseteq Workloads /\ Deletable \subseteq Workloads

--------------------------------------------------------------------------------
VARIABLES
  release,    \* RELEASE_VERSION of the running operator
  family,     \* the IP family mode of the configuration
  workloads,  \* workloads[x]: the object in the API
  plan,       \* what the running reconciliation has decided and not applied yet
  listed      \* whether the related objects hold the pre-puller

vars == <<release, family, workloads, plan, listed>>

(* `behind`: pods that are not updated; `down`: a pod is unavailable, or   *)
(* none is available; `observed`: the status is about this generation.     *)
Workload == [exists : BOOLEAN, version : Releases \cup {NoVersion},
             family : Families \cup {NoFamily}, observed : BOOLEAN,
             behind : 0 .. Desired, down : BOOLEAN, hung : BOOLEAN]
Absent == [exists |-> FALSE, version |-> NoVersion, family |-> NoFamily,
           observed |-> FALSE, behind |-> 0, down |-> FALSE, hung |-> FALSE]
Fresh(v, f, seen) == [exists |-> TRUE, version |-> v, family |-> f,
                      observed |-> seen, behind |-> 0, down |-> FALSE, hung |-> FALSE]

Plan == [family : Families \cup {NoFamily}, updates : SUBSET Both, todo : SUBSET Workloads]
NoPlan == [family |-> NoFamily, updates |-> {}, todo |-> {}]

OvnTypeOK ==
  /\ release \in Releases /\ family \in Families
  /\ workloads \in [Workloads -> Workload]
  /\ plan \in Plan
  /\ listed \in {"unknown", "yes", "no"}

--------------------------------------------------------------------------------
(* What bootstrapOVN finds out about a workload.                           *)

MaxBehind == IF Desired \div 10 > 1 THEN Desired \div 10 ELSE 1

(* A roll-out that hangs with few pods behind counts as finished.          *)
daemonSetProgressing(w) ==
  /\ w.behind > 0 \/ w.down \/ ~w.observed
  /\ ~(w.hung /\ w.behind <= MaxBehind)

deploymentProgressing(w) == w.behind > 0 \/ w.down \/ ~w.observed

CompareVersions(from, to) ==
  IF from = to THEN "same"
  ELSE IF from = NoVersion \/ to = NoVersion THEN "unknown"
  ELSE IF from < to THEN "upgrade" ELSE "downgrade"

Running == workloads[Node].exists /\ workloads[ControlPlane].exists

--------------------------------------------------------------------------------
(* The gates: which of the two may be updated.                             *)

\* Mutant: the node DaemonSet does not wait for the control plane's template.
Bug_NoFamilyOrder(to) ==
  LET node == workloads[Node]
      cp == workloads[ControlPlane]
  IN  IF \/ ~Running
         \/ node.family = NoFamily \/ cp.family = NoFamily
         \/ node.family = to /\ cp.family = to
        THEN Both
      ELSE IF cp.family = to /\ deploymentProgressing(cp) THEN {ControlPlane} ELSE Both

shouldUpdateOVNKonIPFamilyChange(to) ==
  LET node == workloads[Node]
      cp == workloads[ControlPlane]
  IN  IF \/ ~Running
         \/ node.family = NoFamily \/ cp.family = NoFamily
         \/ node.family = to /\ cp.family = to
        THEN Both
      ELSE IF cp.family # to \/ deploymentProgressing(cp) THEN {ControlPlane} ELSE Both

\* Mutant: an upgrade does not hold the control plane back.
Bug_UpgradeTogether ==
  LET node == CompareVersions(workloads[Node].version, release)
      cp == CompareVersions(workloads[ControlPlane].version, release)
  IN  IF ~Running THEN Both
      ELSE IF cp = "upgrade" /\ node = "upgrade" THEN Both
      ELSE IF cp = "downgrade" /\ node = "downgrade" THEN {ControlPlane}
      ELSE IF cp = "same" /\ node = "downgrade" /\ deploymentProgressing(workloads[ControlPlane])
        THEN {ControlPlane}
      ELSE Both

\* Mutant: a downgrade goes the same way as an upgrade.
Bug_NodeAlwaysFirst ==
  LET node == CompareVersions(workloads[Node].version, release)
      cp == CompareVersions(workloads[ControlPlane].version, release)
  IN  IF ~Running THEN Both
      ELSE IF cp # "same" /\ node # "same" THEN {Node}
      ELSE IF cp # "same" /\ daemonSetProgressing(workloads[Node]) THEN {Node}
      ELSE Both

(* Nodes first when the release is newer, the control plane first when it  *)
(* is older.  Everything is updated when the versions say nothing, or make *)
(* no sense together.                                                      *)
shouldUpdateOVNKonUpgrade ==
  LET node == CompareVersions(workloads[Node].version, release)
      cp == CompareVersions(workloads[ControlPlane].version, release)
  IN  IF ~Running THEN Both
      ELSE IF cp = "upgrade" /\ node = "upgrade" THEN {Node}
      ELSE IF cp = "upgrade" /\ node = "same" /\ daemonSetProgressing(workloads[Node])
        THEN {Node}
      ELSE IF cp = "downgrade" /\ node = "downgrade" THEN {ControlPlane}
      ELSE IF cp = "same" /\ node = "downgrade" /\ deploymentProgressing(workloads[ControlPlane])
        THEN {ControlPlane}
      ELSE Both

(* shouldUpdateOVNKonPrepull: the image is on the nodes, or not needed.    *)
Prepulled ==
  \/ ~workloads[Node].exists
  \/ workloads[Node].version = release
  \/ /\ workloads[Prepuller].exists
     /\ workloads[Prepuller].version = release
     /\ ~daemonSetProgressing(workloads[Prepuller])

\* Mutant: the pre-puller is rendered only until it exists.
Bug_PrepullOnce ==
  LET byFamily == shouldUpdateOVNKonIPFamilyChange(family)
      updates == IF byFamily = Both THEN shouldUpdateOVNKonUpgrade ELSE byFamily
      wait == Node \in updates /\ ~Prepulled
      prepull == wait /\ ~workloads[Prepuller].exists
  IN  [prepull |-> prepull,
       plan |-> [family |-> family,
                 updates |-> IF wait THEN updates \ {Node} ELSE updates,
                 todo |-> Both \cup (IF prepull THEN {Prepuller} ELSE {})]]

(* The end of renderOVNKubernetes: versions are looked at only when no IP  *)
(* family change is going on, and the image is pulled only when the nodes  *)
(* are next.                                                               *)
Render ==
  LET byFamily == shouldUpdateOVNKonIPFamilyChange(family)
      updates == IF byFamily = Both THEN shouldUpdateOVNKonUpgrade ELSE byFamily
      prepull == Node \in updates /\ ~Prepulled
  IN  [prepull |-> prepull,
       plan |-> [family |-> family,
                 updates |-> IF prepull THEN updates \ {Node} ELSE updates,
                 todo |-> Both \cup (IF prepull THEN {Prepuller} ELSE {})]]

--------------------------------------------------------------------------------
(* A reconciliation of the operator configuration.  Nobody but the operator*)
(* changes the releases and modes of the workloads, so their three reads   *)
(* are one step; the related objects are handed over before the first      *)
(* object is applied.                                                      *)
Reconcile ==
  /\ plan = NoPlan
  /\ plan' = Render.plan
  /\ listed' = IF Render.prepull THEN "yes" ELSE "no"
  /\ UNCHANGED <<release, family, workloads>>

(* In the order of the manifests.                                          *)
IsNext(x) ==
  /\ x \in plan.todo
  /\ x = ControlPlane => Prepuller \notin plan.todo
  /\ x = Node => plan.todo = {Node}

\* Mutant: the mode is not set on a workload that is created.
Bug_NoFamilyOnCreate(w, mode) ==
  IF ~w.exists THEN Fresh(release, "unset", FALSE)
  ELSE IF w.version = release /\ w.family = mode THEN w
  ELSE [w EXCEPT !.version = release, !.family = mode, !.observed = FALSE]

(* A new template is a new generation; status and hung mark stay as they   *)
(* are until their owners look at it.                                      *)
Applied(w, mode) ==
  IF ~w.exists THEN Fresh(release, mode, FALSE)
  ELSE IF w.version = release /\ w.family = mode THEN w
  ELSE [w EXCEPT !.version = release, !.family = mode, !.observed = FALSE]

(* A workload that must not be updated is "create-only".                   *)
Apply(x, ok) ==
  /\ IsNext(x)
  /\ plan' = IF plan.todo = {x} THEN NoPlan ELSE [plan EXCEPT !.todo = @ \ {x}]
  /\ LET update == x = Prepuller \/ x \in plan.updates \/ ~workloads[x].exists
         mode == IF x = Prepuller THEN NoFamily ELSE plan.family
     IN  workloads' = IF ok /\ update
                        THEN [workloads EXCEPT ![x] = Applied(@, mode)] ELSE workloads
  /\ UNCHANGED <<release, family, listed>>

(* The status manager deletes what is not rendered (RelatedObjects).       *)
DeleteNotRendered ==
  /\ listed = "no" /\ workloads[Prepuller].exists
  /\ workloads' = [workloads EXCEPT ![Prepuller] = Absent]
  /\ UNCHANGED <<release, family, plan, listed>>

NewProcess ==
  /\ plan' = NoPlan
  /\ listed' = "unknown"
  /\ UNCHANGED workloads
Restart == NewProcess /\ UNCHANGED <<release, family>>
ChangeRelease == NewProcess /\ release' \in Releases \ {release} /\ UNCHANGED family
ChangeFamily ==
  /\ family' \in Families \ {family}
  /\ UNCHANGED <<release, workloads, plan, listed>>

--------------------------------------------------------------------------------
(* Kubernetes, and the pod watcher that marks roll-outs as hung.           *)

Becomes(x, w) ==
  /\ workloads[x].exists
  /\ workloads' = [workloads EXCEPT ![x] = w]
  /\ UNCHANGED <<release, family, plan, listed>>

Observe(x) ==
  /\ ~workloads[x].observed
  /\ Becomes(x, [workloads[x] EXCEPT !.observed = TRUE, !.behind = Desired])
Advance(x) ==
  /\ workloads[x].observed /\ workloads[x].behind > 0
  /\ Becomes(x, [workloads[x] EXCEPT !.behind = @ - 1])
PodsDown(x) ==
  /\ x \in Failing /\ workloads[x].observed /\ ~workloads[x].down
  /\ Becomes(x, [workloads[x] EXCEPT !.down = TRUE])
PodsUp(x) == workloads[x].down /\ Becomes(x, [workloads[x] EXCEPT !.down = FALSE])
MarkHung(x) ==
  /\ x \in Hanging /\ (workloads[x].hung \/ workloads[x].behind > 0)
  /\ Becomes(x, [workloads[x] EXCEPT !.hung = ~@])
Delete(x) == x \in Deletable /\ Becomes(x, Absent)

--------------------------------------------------------------------------------
(* A new cluster, or one whose roll-out has finished.                      *)
Init ==
  /\ release \in Releases /\ family \in Families
  /\ plan = NoPlan
  /\ listed = "unknown"
  /\ \/ workloads = [x \in Workloads |-> Absent]
     \/ \E v \in Releases, f \in Families :
          workloads = [x \in Workloads |->
            IF x = Prepuller THEN Absent ELSE Fresh(v, f, TRUE)]

Progress ==
  \/ Reconcile
  \/ \E x \in Workloads : \/ Apply(x, TRUE) \/ Observe(x) \/ Advance(x)
                          \/ PodsUp(x) \/ MarkHung(x)
  \/ DeleteNotRendered

Disturbance ==
  \/ \E x \in Workloads : Apply(x, FALSE) \/ PodsDown(x) \/ Delete(x)
  \/ Restart
  \/ ChangeRelease
  \/ ChangeFamily

Next == Progress \/ Disturbance

Spec == Init /\ [][Next]_vars

(* The configuration is reconciled every ResyncPeriod, which applies every *)
(* object and calls set(); Kubernetes rolls out what it is given.          *)
Fairness ==
  /\ WF_vars(Reconcile)
  /\ WF_vars(DeleteNotRendered)
  /\ \A x \in Workloads : /\ WF_vars(Apply(x, TRUE))
                          /\ WF_vars(Observe(x))
                          /\ WF_vars(Advance(x))
                          /\ WF_vars(PodsUp(x))
FairSpec == Spec /\ Fairness

--------------------------------------------------------------------------------
(* Properties.                                                             *)

Updated(x) == workloads[x].exists /\ workloads'[x].exists

UpgradesInOrder ==
  /\ Updated(ControlPlane) /\ workloads[Node].exists
  /\ workloads'[ControlPlane].version > workloads[ControlPlane].version
  => \/ workloads[Node].version >= workloads'[ControlPlane].version
     \/ workloads[Node].family # workloads'[ControlPlane].family
     \/ workloads[ControlPlane].family # workloads'[ControlPlane].family

(* The control plane is never given a newer release than the nodes have,   *)
(* whatever releases come and go half-way, unless an IP family change is   *)
(* going on, which takes precedence (shouldUpdateOVNKonUpgrade: "We roll   *)
(* out node first, then control plane").                                   *)
NodeUpgradedFirst == [][UpgradesInOrder]_vars

DowngradesInOrder ==
  /\ Updated(Node) /\ workloads[ControlPlane].exists
  /\ workloads'[Node].version < workloads[Node].version
  => workloads[ControlPlane].version <= workloads'[Node].version

(* The nodes are never given an older release than the control plane has   *)
(* ("In downgrades, we do the opposite").                                  *)
ControlPlaneDowngradedFirst == [][DowngradesInOrder]_vars

FamilyChangesInOrder ==
  /\ Updated(Node) /\ workloads[ControlPlane].exists
  /\ workloads'[Node].family # workloads[Node].family
  => workloads[ControlPlane].family = workloads'[Node].family

(* The nodes are given a new IP family mode only after the control plane   *)
(* (shouldUpdateOVNKonIPFamilyChange: "We rollout changes on control-plane *)
(* first").                                                                *)
ControlPlaneFamilyFirst == [][FamilyChangesInOrder]_vars

RolledOut ==
  /\ \A x \in Both : /\ workloads[x].exists
                     /\ workloads[x].version = release
                     /\ workloads[x].family = family
  /\ ~workloads[Prepuller].exists

(* Once nothing disturbs it any more, every roll-out comes to its end: the *)
(* gates do not wait for each other, whatever mix of releases and modes    *)
(* was left behind, and the pre-puller is gone.                            *)
RolloutCompletes == <>[][Progress]_vars => <>[]RolledOut
=================================================================================
