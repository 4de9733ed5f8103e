---------------------------- MODULE OvnRolloutProofs ----------------------------
(***************************************************************************)
(* The order of the roll-outs, for all releases, IP family modes and       *)
(* numbers of nodes.  The gates decide on what a reconciliation has seen;  *)
(* the invariant says that the decision still stands when the objects are  *)
(* applied, although workloads are deleted and disturbed in between.       *)
(***************************************************************************)
EXTENDS OvnRollout, TLAPS

(* A workload that exists carries a release and an IP family mode.         *)
Annotated ==
  \A x \in Both : workloads[x].exists =>
    workloads[x].version \in Releases /\ workloads[x].family \in Families

(* A plan that is being carried out has a mode.                            *)
PlanHasMode == plan.todo # {} => plan.family \in Families

(* A control plane about to be upgraded: the nodes are there already, or   *)
(* an IP family change goes on.                                            *)
UpgradeSound ==
  ControlPlane \in plan.todo /\ ControlPlane \in plan.updates /\ Running
    /\ workloads[ControlPlane].version < release
    => \/ workloads[Node].version >= release
       \/ workloads[Node].family # plan.family
       \/ workloads[ControlPlane].family # plan.family

(* Nodes about to be downgraded: the control plane is there already.       *)
DowngradeSound ==
  Node \in plan.todo /\ Node \in plan.updates /\ Running
    /\ workloads[Node].version > release
    => workloads[ControlPlane].version <= release

(* Nodes about to get a new mode: the control plane has it already.        *)
FamilySound ==
  Node \in plan.todo /\ Node \in plan.updates /\ Running
    /\ workloads[Node].family # plan.family
    => workloads[ControlPlane].family = plan.family

PlanSound == UpgradeSound /\ DowngradeSound /\ FamilySound

OvnInv == OvnTypeOK /\ Annotated /\ PlanHasMode /\ PlanSound

USE DEF Node, ControlPlane, Prepuller

--------------------------------------------------------------------------------
(* What is known of a plan just made: each gate decides on its own.        *)
LEMMA GatesSound ==
  ASSUME OvnTypeOK, Annotated
  PROVE  /\ Render.plan \in Plan
         /\ Render.plan.family = family
         /\ ControlPlane \in Render.plan.updates /\ Running
              /\ workloads[ControlPlane].version < release
              => \/ workloads[Node].version >= release
                 \/ workloads[Node].family # family
                 \/ workloads[ControlPlane].family # family
         /\ Node \in Render.plan.updates /\ Running
              => /\ workloads[Node].version > release
                      => workloads[ControlPlane].version <= release
                 /\ workloads[Node].family # family
                      => workloads[ControlPlane].family = family
<1> DEFINE byFamily == shouldUpdateOVNKonIPFamilyChange(family)
           updates == IF byFamily = Both THEN shouldUpdateOVNKonUpgrade ELSE byFamily
<1>types. /\ release \in Nat /\ NoVersion \notin Releases /\ family \in Families
          /\ Running => /\ workloads[Node].version \in Nat
                        /\ workloads[ControlPlane].version \in Nat
                        /\ workloads[Node].family # NoFamily
                        /\ workloads[ControlPlane].family # NoFamily
  <2>1. release \in Nat /\ family \in Families
    BY OvnAssumption DEF OvnTypeOK
  <2>2. NoVersion \notin Releases
    BY OvnAssumption
  <2>3. ASSUME Running, NEW x \in Both
        PROVE  workloads[x].version \in Nat /\ workloads[x].family \in Families
    BY <2>3, OvnAssumption DEF Annotated, Running, Both
  <2>4. Node \in Both /\ ControlPlane \in Both
    BY DEF Both
  <2> QED BY <2>1, <2>2, <2>3, <2>4, OvnAssumption
<1>both. /\ Both # {ControlPlane} /\ Both # {Node}
         /\ Node \in Both /\ ControlPlane \in Both /\ Node \notin {ControlPlane}
         /\ {Node} \subseteq Both /\ {ControlPlane} \subseteq Both
  BY DEF Both
<1>1. byFamily = Both \/ byFamily = {ControlPlane}
  BY Zenon DEF shouldUpdateOVNKonIPFamilyChange
<1>2. Running /\ byFamily = Both /\ workloads[Node].family # family
        => workloads[ControlPlane].family = family
  BY <1>types, <1>both DEF shouldUpdateOVNKonIPFamilyChange
<1>3. Running /\ byFamily # Both
        => workloads[Node].family # family \/ workloads[ControlPlane].family # family
  BY DEF shouldUpdateOVNKonIPFamilyChange
<1>4. \/ shouldUpdateOVNKonUpgrade = Both
      \/ shouldUpdateOVNKonUpgrade = {Node}
      \/ shouldUpdateOVNKonUpgrade = {ControlPlane}
  BY DEF shouldUpdateOVNKonUpgrade
<1>order. ASSUME NEW v \in Releases
          PROVE  /\ v < release => CompareVersions(v, release) = "upgrade"
                 /\ v = release => CompareVersions(v, release) = "same"
                 /\ v > release => CompareVersions(v, release) = "downgrade"
  <2>1. release \in Releases /\ Releases \subseteq Nat /\ NoVersion \notin Releases
    BY OvnAssumption DEF OvnTypeOK
  <2> QED BY <2>1 DEF CompareVersions
<1>known. Running => \A x \in Both : workloads[x].version \in Releases
  BY DEF Annotated, Running, Both
<1>5. Running /\ ControlPlane \in shouldUpdateOVNKonUpgrade
        /\ workloads[ControlPlane].version < release
        => workloads[Node].version >= release
  BY <1>types, <1>both, <1>order, <1>known DEF shouldUpdateOVNKonUpgrade
<1>6. Running /\ Node \in shouldUpdateOVNKonUpgrade
        /\ workloads[Node].version > release
        => workloads[ControlPlane].version <= release
  BY <1>types, <1>both, <1>order, <1>known DEF shouldUpdateOVNKonUpgrade
<1>7. /\ Render.plan.updates = updates \/ Render.plan.updates = updates \ {Node}
      /\ Render.plan.family = family
      /\ Render.plan.todo = Both \/ Render.plan.todo = Both \cup {Prepuller}
      /\ Render.plan = [family |-> family, updates |-> Render.plan.updates,
                         todo |-> Render.plan.todo]
  BY DEF Render, Both
<1> HIDE DEF byFamily
<1>8. updates \subseteq Both
  BY <1>1, <1>4, <1>both
<1>9. Render.plan \in Plan
  <2>1. Render.plan.updates \in SUBSET Both
    BY <1>7, <1>8
  <2>2. Render.plan.todo \in SUBSET Workloads
    BY <1>7 DEF Both, Workloads
  <2> QED BY <1>7, <1>types, <2>1, <2>2 DEF Plan
<1>10. ControlPlane \in updates /\ Running
         /\ workloads[ControlPlane].version < release
         => \/ workloads[Node].version >= release
            \/ workloads[Node].family # family
            \/ workloads[ControlPlane].family # family
  BY <1>3, <1>5
<1>11. Node \in updates /\ Running
         => /\ workloads[Node].version > release
                 => workloads[ControlPlane].version <= release
            /\ workloads[Node].family # family
                 => workloads[ControlPlane].family = family
  BY <1>1, <1>2, <1>6, <1>both
<1>12. Render.plan.updates \subseteq updates
  BY <1>7
<1> HIDE DEF updates
<1> QED BY <1>7, <1>9, <1>10, <1>11, <1>12

LEMMA RecordsTyped ==
  /\ Absent \in Workload /\ ~Absent.exists
  /\ \A v \in Releases, f \in Families \cup {NoFamily}, seen \in BOOLEAN :
       /\ Fresh(v, f, seen) \in Workload
       /\ Fresh(v, f, seen).version = v /\ Fresh(v, f, seen).family = f
<1>1. 0 \in 0 .. Desired
  BY OvnAssumption
<1>2. Absent \in Workload /\ ~Absent.exists
  BY <1>1 DEF Workload, Absent
<1>3. ASSUME NEW v \in Releases, NEW f \in Families \cup {NoFamily}, NEW seen \in BOOLEAN
      PROVE  /\ Fresh(v, f, seen) \in Workload
             /\ Fresh(v, f, seen).version = v /\ Fresh(v, f, seen).family = f
  BY <1>1 DEF Workload, Fresh
<1> QED BY <1>2, <1>3

LEMMA NoPlanTyped == NoPlan \in Plan /\ NoPlan.todo = {}
BY DEF NoPlan, Plan

LEMMA InitEstablishes == Init => OvnInv
<1> SUFFICES ASSUME Init PROVE OvnInv
  OBVIOUS
<1>1. workloads \in [Workloads -> Workload] /\ Annotated
  <2>1. CASE workloads = [x \in Workloads |-> Absent]
    BY <2>1, RecordsTyped DEF Annotated, Both, Workloads
  <2>2. ASSUME NEW v \in Releases, NEW f \in Families,
               workloads = [x \in Workloads |->
                              IF x = Prepuller THEN Absent ELSE Fresh(v, f, TRUE)]
        PROVE  workloads \in [Workloads -> Workload] /\ Annotated
    BY <2>2, RecordsTyped DEF Annotated, Both, Workloads
  <2> QED BY <2>1, <2>2 DEF Init
<1>2. OvnTypeOK
  BY <1>1, NoPlanTyped DEF Init, OvnTypeOK
<1>3. PlanHasMode /\ PlanSound
  BY NoPlanTyped
  DEF Init, PlanHasMode, PlanSound, UpgradeSound, DowngradeSound, FamilySound
<1> QED BY <1>1, <1>2, <1>3 DEF OvnInv

--------------------------------------------------------------------------------
(* The invariant step by step.                                             *)

(* No workload is given another template, and the plan is kept or dropped. *)
TemplatesKept ==
  \A x \in Both : workloads'[x].exists =>
    /\ workloads[x].exists
    /\ workloads'[x].version = workloads[x].version
    /\ workloads'[x].family = workloads[x].family

LEMMA KeptPreserves ==
  ASSUME OvnInv, OvnTypeOK', TemplatesKept,
         plan' = NoPlan \/ (plan' = plan /\ release' = release)
  PROVE  OvnInv'
<1>1. Node \in Both /\ ControlPlane \in Both
  BY DEF Both
<1>2. Annotated'
  BY DEF OvnInv, Annotated, TemplatesKept
<1>3. CASE plan' = NoPlan
  BY <1>2, <1>3, NoPlanTyped
  DEF OvnInv, PlanHasMode, PlanSound, UpgradeSound, DowngradeSound, FamilySound
<1>4. CASE plan' = plan /\ release' = release
  <2>1. Running' => Running
    BY <1>1 DEF Running, TemplatesKept
  <2>2. ASSUME Running', NEW x \in Both
        PROVE  /\ workloads'[x].version = workloads[x].version
               /\ workloads'[x].family = workloads[x].family
    BY <2>2 DEF Running, TemplatesKept, Both
  <2>3. PlanHasMode'
    BY <1>4 DEF OvnInv, PlanHasMode
  <2>4. PlanSound'
    BY <1>1, <1>4, <2>1, <2>2
    DEF OvnInv, PlanSound, UpgradeSound, DowngradeSound, FamilySound
  <2> QED BY <1>2, <2>3, <2>4 DEF OvnInv
<1> QED BY <1>3, <1>4

LEMMA BecomesPreserves ==
  ASSUME OvnInv, NEW x \in Workloads, NEW w \in Workload, Becomes(x, w),
         w.exists => /\ w.version = workloads[x].version
                     /\ w.family = workloads[x].family
  PROVE  OvnInv' /\ TemplatesKept
<1>1. OvnTypeOK'
  BY DEF OvnInv, OvnTypeOK, Becomes
<1>2. TemplatesKept
  BY DEF OvnInv, OvnTypeOK, Becomes, TemplatesKept, Both, Workloads
<1> QED BY <1>1, <1>2, KeptPreserves DEF Becomes

LEMMA ReconcilePreserves == ASSUME OvnInv, Reconcile PROVE OvnInv'
<1>1. /\ Render.plan \in Plan /\ Render.plan.family = family
      /\ family \in Families /\ UNCHANGED <<release, family, workloads>>
      /\ plan' = Render.plan /\ listed' \in {"unknown", "yes", "no"}
  BY GatesSound DEF Reconcile, OvnInv, OvnTypeOK
<1>2. OvnTypeOK' /\ Annotated' /\ PlanHasMode'
  BY <1>1 DEF OvnInv, OvnTypeOK, Annotated, PlanHasMode
<1>3. PlanSound'
  BY <1>1, GatesSound
  DEF OvnInv, PlanSound, UpgradeSound, DowngradeSound, FamilySound, Running
<1> QED BY <1>2, <1>3 DEF OvnInv

(* What an application may do to a workload.                               *)
LEMMA AppliedTyped ==
  ASSUME OvnTypeOK, NEW w \in Workload, NEW mode \in Families \cup {NoFamily}
  PROVE  /\ Applied(w, mode) \in Workload
         /\ Applied(w, mode).version = release /\ Applied(w, mode).family = mode
<1>1. release \in Releases
  BY DEF OvnTypeOK
<1>2. CASE ~w.exists
  BY <1>1, <1>2, RecordsTyped DEF Applied
<1>3. CASE w.exists /\ w.version = release /\ w.family = mode
  BY <1>3 DEF Applied
<1>4. CASE w.exists /\ ~(w.version = release /\ w.family = mode)
  <2>1. Applied(w, mode) = [w EXCEPT !.version = release, !.family = mode, !.observed = FALSE]
    BY <1>4 DEF Applied
  <2> QED BY <1>1, <2>1 DEF Workload
<1> QED BY <1>2, <1>3, <1>4

(* An application changes one workload only, to what the plan says.        *)
LEMMA ApplyEffect ==
  ASSUME OvnInv, NEW x \in Workloads, NEW ok \in BOOLEAN, Apply(x, ok)
  PROVE  /\ workloads' \in [Workloads -> Workload]
         /\ \A y \in Workloads \ {x} : workloads'[y] = workloads[y]
         /\ \/ workloads'[x] = workloads[x]
            \/ /\ workloads'[x].version = release
               /\ x \in Both => workloads'[x].family = plan.family
               /\ x \in Both => x \in plan.updates \/ ~workloads[x].exists
<1> DEFINE mode == IF x = Prepuller THEN NoFamily ELSE plan.family
<1>1. workloads \in [Workloads -> Workload] /\ plan.family \in Families \cup {NoFamily}
  BY DEF OvnInv, OvnTypeOK, Plan
<1>2. /\ Applied(workloads[x], mode) \in Workload
      /\ Applied(workloads[x], mode).version = release
      /\ Applied(workloads[x], mode).family = mode
  BY <1>1, AppliedTyped DEF OvnInv
<1>3. x \in Both => x # Prepuller
  BY DEF Both
<1>4. \/ workloads' = workloads
      \/ /\ workloads' = [workloads EXCEPT ![x] = Applied(workloads[x], mode)]
         /\ x = Prepuller \/ x \in plan.updates \/ ~workloads[x].exists
  BY Zenon DEF Apply
<1>5. CASE workloads' = workloads
  BY <1>1, <1>5
<1>6. CASE /\ workloads' = [workloads EXCEPT ![x] = Applied(workloads[x], mode)]
           /\ x = Prepuller \/ x \in plan.updates \/ ~workloads[x].exists
  <2>1. workloads'[x] = Applied(workloads[x], mode)
    BY <1>1, <1>6
  <2>2. workloads' \in [Workloads -> Workload]
    BY <1>1, <1>2, <1>6
  <2>3. \A y \in Workloads \ {x} : workloads'[y] = workloads[y]
    BY <1>1, <1>6
  <2> QED BY <1>2, <1>3, <1>6, <2>1, <2>2, <2>3
<1> QED BY <1>4, <1>5, <1>6

LEMMA ApplyPreserves ==
  ASSUME OvnInv, NEW x \in Workloads, NEW ok \in BOOLEAN, Apply(x, ok)
  PROVE  OvnInv'
<1>0. Node \in Both /\ ControlPlane \in Both /\ Both \subseteq Workloads
  BY DEF Both, Workloads
<1>1. /\ UNCHANGED <<release, family, listed>> /\ x \in plan.todo
      /\ x = Node => plan.todo = {Node}
      /\ plan' = IF plan.todo = {x} THEN NoPlan ELSE [plan EXCEPT !.todo = @ \ {x}]
  BY DEF Apply, IsNext
<1>2. plan' = NoPlan \/ (plan' \in Plan /\ plan'.family = plan.family
                          /\ plan'.updates = plan.updates /\ plan'.todo = plan.todo \ {x})
  BY <1>1 DEF OvnInv, OvnTypeOK, Plan
<1>3. OvnTypeOK'
  BY <1>1, <1>2, ApplyEffect, NoPlanTyped DEF OvnInv, OvnTypeOK
<1>4. plan.family \in Families
  BY <1>1 DEF OvnInv, PlanHasMode
<1>5. Annotated'
  <2> SUFFICES ASSUME NEW y \in Both, workloads'[y].exists
               PROVE  workloads'[y].version \in Releases /\ workloads'[y].family \in Families
    BY DEF Annotated
  <2>1. CASE workloads'[y] = workloads[y]
    BY <2>1 DEF OvnInv, Annotated
  <2>2. CASE workloads'[y] # workloads[y]
    BY <1>0, <1>4, <2>2, ApplyEffect DEF OvnInv, OvnTypeOK
  <2> QED BY <2>1, <2>2
<1>6. PlanHasMode'
  BY <1>2, <1>4, NoPlanTyped DEF PlanHasMode
<1>7. PlanSound'
  <2>1. CASE plan' = NoPlan
    BY <2>1, NoPlanTyped DEF PlanSound, UpgradeSound, DowngradeSound, FamilySound
  <2>2. CASE plan' # NoPlan
    <3>1. x # Node
      BY <1>1, <2>2
    <3>2. /\ plan'.family = plan.family /\ plan'.updates = plan.updates
          /\ plan'.todo = plan.todo \ {x}
      BY <1>2, <2>2
    <3>3. CASE x = Prepuller
      <4>1. \A y \in Both : workloads'[y] = workloads[y]
        BY <3>3, ApplyEffect DEF Both, Workloads
      <4> QED BY <1>0, <1>1, <3>2, <4>1
              DEF OvnInv, PlanSound, UpgradeSound, DowngradeSound, FamilySound, Running
    <3>4. CASE x = ControlPlane
      <4>1. workloads'[Node] = workloads[Node]
        BY <1>0, <3>4, ApplyEffect
      <4>2. UpgradeSound'
        BY <3>2, <3>4 DEF UpgradeSound
      <4>3. CASE workloads'[ControlPlane] = workloads[ControlPlane]
        BY <1>1, <3>2, <4>1, <4>2, <4>3
        DEF OvnInv, PlanSound, DowngradeSound, FamilySound, Running
      <4>4. CASE /\ workloads'[ControlPlane].version = release
                 /\ workloads'[ControlPlane].family = plan.family
        <5>1. release \in Nat
          BY OvnAssumption DEF OvnInv, OvnTypeOK
        <5> QED BY <1>1, <3>2, <4>2, <4>4, <5>1
                DEF PlanSound, DowngradeSound, FamilySound
      <4> QED BY <1>0, <3>4, <4>3, <4>4, ApplyEffect
    <3> QED BY <3>1, <3>3, <3>4 DEF Workloads
  <2> QED BY <2>1, <2>2
<1> QED BY <1>3, <1>5, <1>6, <1>7 DEF OvnInv

(* The steps of Kubernetes and of the pod watcher leave the templates      *)
(* alone, or remove the object.                                            *)
LEMMA EnvironmentPreserves ==
  ASSUME OvnInv, NEW x \in Workloads,
         \/ Observe(x) \/ Advance(x) \/ PodsDown(x) \/ PodsUp(x)
         \/ MarkHung(x) \/ Delete(x) \/ (x = Prepuller /\ DeleteNotRendered)
  PROVE  OvnInv' /\ TemplatesKept
<1>1. workloads[x] \in Workload /\ Desired \in Nat
  BY OvnAssumption DEF OvnInv, OvnTypeOK
<1>2. CASE Observe(x)
  <2>0. Desired \in 0 .. Desired
    BY <1>1
  <2>1. [workloads[x] EXCEPT !.observed = TRUE, !.behind = Desired] \in Workload
    BY <1>1, <2>0 DEF Workload
  <2> QED BY <1>1, <1>2, <2>1, BecomesPreserves DEF Observe, Workload
<1>3. CASE Advance(x)
  <2>1. [workloads[x] EXCEPT !.behind = workloads[x].behind - 1] \in Workload
    BY <1>1, <1>3 DEF Workload, Advance
  <2> QED BY <1>1, <1>3, <2>1, BecomesPreserves DEF Advance, Workload
<1>4. CASE PodsDown(x)
  <2>1. [workloads[x] EXCEPT !.down = TRUE] \in Workload
    BY <1>1 DEF Workload
  <2> QED BY <1>1, <1>4, <2>1, BecomesPreserves DEF PodsDown, Workload
<1>5. CASE PodsUp(x)
  <2>1. [workloads[x] EXCEPT !.down = FALSE] \in Workload
    BY <1>1 DEF Workload
  <2> QED BY <1>1, <1>5, <2>1, BecomesPreserves DEF PodsUp, Workload
<1>6. CASE MarkHung(x)
  <2>1. [workloads[x] EXCEPT !.hung = ~workloads[x].hung] \in Workload
    BY <1>1 DEF Workload
  <2> QED BY <1>1, <1>6, <2>1, BecomesPreserves DEF MarkHung, Workload
<1>7. CASE Delete(x) \/ (x = Prepuller /\ DeleteNotRendered)
  <2>1. Becomes(x, Absent)
    BY <1>7 DEF Delete, DeleteNotRendered, Becomes
  <2> QED BY <2>1, RecordsTyped, BecomesPreserves
<1> QED BY <1>2, <1>3, <1>4, <1>5, <1>6, <1>7

(* Every step keeps the invariant, and only Apply changes a template.      *)
LEMMA StepPreserves ==
  ASSUME OvnInv, [Next]_vars
  PROVE  /\ OvnInv'
         /\ TemplatesKept \/ \E x \in Workloads, ok \in BOOLEAN : Apply(x, ok)
<1>1. Prepuller \in Workloads
  BY DEF Workloads
<1>2. CASE Reconcile
  BY <1>2, ReconcilePreserves DEF Reconcile, TemplatesKept
<1>3. CASE \E x \in Workloads : Apply(x, TRUE) \/ Apply(x, FALSE)
  BY <1>3, ApplyPreserves
<1>4. CASE DeleteNotRendered \/ \E x \in Workloads :
             \/ Observe(x) \/ Advance(x) \/ PodsDown(x) \/ PodsUp(x)
             \/ MarkHung(x) \/ Delete(x)
  BY <1>1, <1>4, EnvironmentPreserves
<1>5. CASE Restart \/ ChangeRelease
  <2>1. OvnTypeOK' /\ TemplatesKept /\ plan' = NoPlan
    BY <1>5, NoPlanTyped
    DEF Restart, ChangeRelease, NewProcess, OvnInv, OvnTypeOK, TemplatesKept
  <2> QED BY <2>1, KeptPreserves
<1>6. CASE ChangeFamily \/ UNCHANGED vars
  <2>1. OvnTypeOK' /\ TemplatesKept /\ plan' = plan /\ release' = release
    BY <1>6 DEF ChangeFamily, vars, OvnInv, OvnTypeOK, TemplatesKept
  <2> QED BY <2>1, KeptPreserves
<1> QED BY <1>2, <1>3, <1>4, <1>5, <1>6 DEF Next, Progress, Disturbance

--------------------------------------------------------------------------------
(* Theorems.                                                               *)

(* The order is kept by every step, from what the invariant says of plans. *)
LEMMA StepsInOrder ==
  ASSUME OvnInv, [Next]_vars
  PROVE  UpgradesInOrder /\ DowngradesInOrder /\ FamilyChangesInOrder
<1>0. Node \in Both /\ ControlPlane \in Both /\ Both \subseteq Workloads
  BY DEF Both, Workloads
<1>1. \A y \in Both : workloads[y].exists => workloads[y].version \in Nat
  BY OvnAssumption DEF OvnInv, Annotated
<1>2. release \in Nat
  BY OvnAssumption DEF OvnInv, OvnTypeOK
<1>3. CASE TemplatesKept
  BY <1>0, <1>1, <1>3
  DEF TemplatesKept, Updated, UpgradesInOrder, DowngradesInOrder, FamilyChangesInOrder
<1>4. ASSUME NEW x \in Workloads, NEW ok \in BOOLEAN, Apply(x, ok)
      PROVE  UpgradesInOrder /\ DowngradesInOrder /\ FamilyChangesInOrder
  <2>1. x \in plan.todo
    BY <1>4 DEF Apply, IsNext
  <2>2. \A y \in Both : \/ workloads'[y] = workloads[y]
                       \/ /\ y = x
                          /\ workloads'[y].version = release
                          /\ workloads'[y].family = plan.family
                          /\ y \in plan.updates \/ ~workloads[y].exists
    BY <1>0, <1>4, ApplyEffect
  <2>3. UpgradesInOrder
    BY <1>0, <1>1, <1>2, <2>1, <2>2
    DEF UpgradesInOrder, Updated, OvnInv, PlanSound, UpgradeSound, Running
  <2>4. DowngradesInOrder
    BY <1>0, <1>1, <1>2, <2>1, <2>2
    DEF DowngradesInOrder, Updated, OvnInv, PlanSound, DowngradeSound, Running
  <2>5. FamilyChangesInOrder
    BY <1>0, <2>1, <2>2
    DEF FamilyChangesInOrder, Updated, OvnInv, PlanSound, FamilySound, Running
  <2> QED BY <2>3, <2>4, <2>5
<1> QED BY <1>3, <1>4, StepPreserves

(* A decision of the gates holds until it has been carried out.            *)
THEOREM OvnInvariance == Spec => []OvnInv
<1>1. Init => OvnInv
  BY InitEstablishes
<1>2. OvnInv /\ [Next]_vars => OvnInv'
  BY StepPreserves
<1> QED BY <1>1, <1>2, PTL DEF Spec

(* The type invariant: in particular the IP family mode of a workload that *)
(* is created is one of the configuration.                                 *)
THEOREM OvnTypeCorrect == Spec => []OvnTypeOK
<1>1. OvnInv => OvnTypeOK
  BY DEF OvnInv
<1> QED BY <1>1, OvnInvariance, PTL

(* Upgrades reach the nodes first, for any number of releases.             *)
THEOREM UpgradeOrder == Spec => NodeUpgradedFirst
<1>1. OvnInv /\ [Next]_vars => [UpgradesInOrder]_vars
  BY StepsInOrder
<1> QED BY <1>1, OvnInvariance, PTL DEF Spec, NodeUpgradedFirst

(* Downgrades reach the control plane first.                               *)
THEOREM DowngradeOrder == Spec => ControlPlaneDowngradedFirst
<1>1. OvnInv /\ [Next]_vars => [DowngradesInOrder]_vars
  BY StepsInOrder
<1> QED BY <1>1, OvnInvariance, PTL DEF Spec, ControlPlaneDowngradedFirst

(* IP family changes reach the control plane first.                        *)
THEOREM FamilyOrder == Spec => ControlPlaneFamilyFirst
<1>1. OvnInv /\ [Next]_vars => [FamilyChangesInOrder]_vars
  BY StepsInOrder
<1> QED BY <1>1, OvnInvariance, PTL DEF Spec, ControlPlaneFamilyFirst
=================================================================================
