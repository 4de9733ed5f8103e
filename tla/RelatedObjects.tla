----------------------------- MODULE RelatedObjects -----------------------------
(***************************************************************************)
(* How objects that are no longer rendered leave the cluster.              *)
(*                                                                         *)
(* The operator configuration controller hands the list of what it renders *)
(* to the status manager, then applies the objects.  Every set() of the    *)
(* manager compares that list with the one recorded in                     *)
(* ClusterOperator.status.relatedObjects, deletes what is recorded and not *)
(* rendered, and records the new list.  An object that could not or must   *)
(* not be deleted yet is put back on the list, to be found again.          *)
(*                                                                         *)
(* The objects of the management cluster (hyperShiftConfig.RelatedObjects, *)
(* recorded in an annotation) go through the same loop without the two     *)
(* exceptions: an instance with Rbac and KeepCRDs empty.                   *)
(***************************************************************************)
EXTENDS Naturals

CONSTANTS
  Objects,      \* the objects the operator renders in some configuration
  Rbac,         \* those of group rbac.authorization.k8s.io
  KeepCRDs,     \* those of keepCRDs
  Renderings    \* sets of objects rendered together

ASSUME RelatedAssumption ==
  /\ Rbac \subseteq Objects /\ KeepCRDs \subseteq Objects
  /\ Rbac \cap KeepCRDs = {}
  /\ Renderings \subseteq SUBSET Objects

VARIABLES
  want,             \* what the current configuration and release render
  objects,          \* the operator's objects in the API
  recorded,         \* ClusterOperator.status.relatedObjects
  related,          \* StatusManager.relatedObjects
  known,            \* relatedObjects # nil
  toApply,          \* what the running reconciliation has still to apply
  installComplete,  \* StatusManager.installComplete
  persisted,        \* InstallComplete in the annotation of the ClusterOperator
  rolledOut         \* the operands are all at the release of the operator

roVars == <<want, objects, recorded, related, known, toApply,
          installComplete, persisted, rolledOut>>

RelatedTypeOK ==
  /\ want \in SUBSET Objects /\ objects \in SUBSET Objects
  /\ recorded \in SUBSET Objects /\ related \in SUBSET Objects
  /\ toApply \in SUBSET Objects
  /\ known \in BOOLEAN /\ installComplete \in BOOLEAN
  /\ persisted \in BOOLEAN /\ rolledOut \in BOOLEAN

--------------------------------------------------------------------------------
(* The operator configuration controller.                                  *)

\* Mutant: the new list is added to the old one.
Bug_AppendRelated(unmapped) ==
  /\ toApply = {} /\ unmapped \subseteq want
  /\ related' = related \cup (want \ unmapped) /\ known' = TRUE
  /\ toApply' = want
  /\ UNCHANGED <<want, objects, recorded, installComplete, persisted, rolledOut>>

(* The list is replaced, with all that set() had put back on it.  Objects  *)
(* whose REST mapping is not found are applied without being listed.       *)
SetRelatedObjects(unmapped) ==
  /\ toApply = {} /\ unmapped \subseteq want
  /\ related' = want \ unmapped /\ known' = TRUE
  /\ toApply' = want
  /\ UNCHANGED <<want, objects, recorded, installComplete, persisted, rolledOut>>

(* An object that cannot be applied does not stop the others.              *)
ApplyObject(x, ok) ==
  /\ x \in toApply
  /\ toApply' = toApply \ {x}
  /\ objects' = IF ok THEN objects \cup {x} ELSE objects
  /\ UNCHANGED <<want, recorded, related, known, installComplete, persisted, rolledOut>>

--------------------------------------------------------------------------------
(* set(), called by any controller at any time.                            *)

\* Mutant: an object without a name is put on the list.
Bug_Unnamed(failed) ==
  failed \cup {"unnamed"} \cup (IF installComplete THEN {} ELSE (recorded \ related) \cap Rbac)

(* What is put back on the list: roles and bindings while an upgrade is    *)
(* thought to be going on, and what cannot be deleted.                     *)
Deferred(failed) ==
  failed \cup (IF installComplete THEN {} ELSE (recorded \ related) \cap Rbac)

\* Mutant: what could not be deleted is not put back on the list.
Bug_NotPutBack(failed) ==
  /\ failed \subseteq recorded \ related
  /\ related' = related
  /\ objects' = objects \ ((recorded \ related) \ (Deferred(failed) \cup KeepCRDs))

(* `failed`: errors when looking the kind of an object up or deleting it.  *)
deleteRelatedObjectsNotRendered(failed) ==
  /\ failed \subseteq recorded \ related
  /\ related' = related \cup Deferred(failed)
  /\ objects' = objects \ ((recorded \ related) \ (Deferred(failed) \cup KeepCRDs))

(* Nothing is known of what is rendered before the first reconciliation of *)
(* a process.  A failed write of the ClusterOperator undoes no deletion.   *)
SetAndDelete(failed, written) ==
  /\ known
  /\ deleteRelatedObjectsNotRendered(failed)
  /\ recorded' = IF written THEN related' ELSE recorded
  /\ UNCHANGED <<want, known, toApply, installComplete, persisted, rolledOut>>

--------------------------------------------------------------------------------
(* The pod watcher (PodStatus), reduced to the record of the installation, *)
(* and the operands reaching the release of the operator.                  *)
SetFromPods ==
  /\ installComplete' = (installComplete \/ persisted \/ rolledOut)
  /\ persisted' = installComplete'
  /\ UNCHANGED <<want, objects, recorded, related, known, toApply, rolledOut>>

RollOut ==
  /\ known /\ toApply = {} /\ want \subseteq objects
  /\ rolledOut' = TRUE
  /\ UNCHANGED <<want, objects, recorded, related, known, toApply, installComplete, persisted>>

--------------------------------------------------------------------------------
NewOperator ==
  /\ related' = {} /\ known' = FALSE /\ toApply' = {}
  /\ installComplete' = FALSE
  /\ UNCHANGED <<objects, recorded, persisted>>

RestartOperator == NewOperator /\ UNCHANGED <<want, rolledOut>>
Upgrade == NewOperator /\ want' \in Renderings /\ rolledOut' = FALSE
ChangeConfiguration ==
  /\ want' \in Renderings
  /\ UNCHANGED <<objects, recorded, related, known, toApply,
                 installComplete, persisted, rolledOut>>

RoInit ==
  /\ want \in Renderings
  /\ objects = {} /\ recorded = {} /\ related = {} /\ toApply = {}
  /\ known = FALSE /\ installComplete = FALSE /\ persisted = FALSE /\ rolledOut = FALSE

RoNext ==
  \/ \E unmapped \in SUBSET Objects : SetRelatedObjects(unmapped)
  \/ \E x \in Objects, ok \in BOOLEAN : ApplyObject(x, ok)
  \/ \E failed \in SUBSET Objects, written \in BOOLEAN : SetAndDelete(failed, written)
  \/ SetFromPods
  \/ RollOut
  \/ RestartOperator
  \/ Upgrade
  \/ ChangeConfiguration

RoSpec == RoInit /\ [][RoNext]_roVars

(* The configuration is reconciled every ResyncPeriod, and every           *)
(* reconciliation ends in a set(): strong fairness, since it has something *)
(* to do only between two of them.  The operands roll out in between too,  *)
(* and the pod watcher sees it.                                            *)
RoFairness ==
  /\ WF_roVars(SetRelatedObjects({}))
  /\ \A x \in Objects : WF_roVars(ApplyObject(x, TRUE))
  /\ SF_roVars(SetAndDelete({}, TRUE))
  /\ WF_roVars(SetFromPods)
  /\ SF_roVars(RollOut)
RoFairSpec == RoSpec /\ RoFairness

--------------------------------------------------------------------------------
(* Properties.                                                             *)

(* The record of an object is given up only when the object is gone or is  *)
(* one that must be kept: no failed deletion or write, deferral or restart *)
(* makes the operator forget an object it recorded once                    *)
(* (deleteRelatedObjectsNotRendered and set).                              *)
RecordKept ==
  [][\A x \in recorded \ recorded' : x \notin objects' \/ x \in KeepCRDs]_roVars

(* Once the configuration stays and the API calls succeed, exactly what is *)
(* rendered remains: all of it is there and stays, and nothing else that   *)
(* was recorded is left but what must be kept.  Rendered objects that an   *)
(* old or incomplete list had deleted come back; deletions that failed, or *)
(* were put off until the operands were rolled out, are made up for.       *)
Calm ==
  \/ SetRelatedObjects({})
  \/ \E x \in Objects : ApplyObject(x, TRUE)
  \/ SetAndDelete({}, TRUE)
  \/ SetFromPods
  \/ RollOut
Converges ==
  <>[][Calm]_roVars
    => <>[](want \subseteq objects /\ objects \cap recorded \subseteq want \cup KeepCRDs)

(* set() deletes roles and bindings only when the operands are at the      *)
(* release of the operator (deleteRelatedObjectsNotRendered: "Do not       *)
(* remove old rbac definitions before upgrade completes to avoid           *)
(* disruptions").                                                          *)
RbacOutlivesUpgrade == [][\A x \in (objects \ objects') \cap Rbac : rolledOut]_roVars
=================================================================================
