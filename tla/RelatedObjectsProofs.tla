-------------------------- MODULE RelatedObjectsProofs --------------------------
(***************************************************************************)
(* Proofs about RelatedObjects for any objects and renderings, and about   *)
(* the two parts of set() together: what is proved of each by itself holds *)
(* in MCStatusRelated, where a run checks it.                              *)
(***************************************************************************)
EXTENDS MCStatusRelated, StatusManagerProofs

(* Type correctness: the lists, the record and the API hold objects only.  *)
THEOREM RelatedTypeCorrect == RoSpec => []RelatedTypeOK
<1>1. RoInit => RelatedTypeOK
  BY RelatedAssumption DEF RoInit, RelatedTypeOK
<1>2. RelatedTypeOK /\ [RoNext]_roVars => RelatedTypeOK'
  <2> SUFFICES ASSUME RelatedTypeOK, [RoNext]_roVars PROVE RelatedTypeOK'
    OBVIOUS
  <2> USE RelatedAssumption DEF RelatedTypeOK
  <2>1. ASSUME NEW unmapped \in SUBSET Objects, SetRelatedObjects(unmapped)
        PROVE  RelatedTypeOK'
    BY <2>1 DEF SetRelatedObjects
  <2>2. ASSUME NEW x \in Objects, NEW ok \in BOOLEAN, ApplyObject(x, ok) PROVE RelatedTypeOK'
    BY <2>2 DEF ApplyObject
  <2>3. ASSUME NEW failed \in SUBSET Objects, NEW written \in BOOLEAN, SetAndDelete(failed, written)
        PROVE  RelatedTypeOK'
    <3>1. Deferred(failed) \subseteq Objects
      BY DEF Deferred
    <3> QED BY <2>3, <3>1 DEF SetAndDelete, deleteRelatedObjectsNotRendered
  <2>4. CASE SetFromPods \/ RollOut
    BY <2>4 DEF SetFromPods, RollOut
  <2>5. CASE RestartOperator \/ Upgrade \/ ChangeConfiguration
    BY <2>5 DEF RestartOperator, Upgrade, ChangeConfiguration, NewOperator
  <2>6. CASE UNCHANGED roVars
    BY <2>6 DEF roVars
  <2> QED BY <2>1, <2>2, <2>3, <2>4, <2>5, <2>6 DEF RoNext
<1> QED BY <1>1, <1>2, PTL DEF RoSpec

(* The record of an object is given up only when set() has deleted it or   *)
(* must keep it, whatever fails.                                           *)
THEOREM RecordsKept == RoSpec => RecordKept
<1> DEFINE Kept == \A x \in recorded \ recorded' : x \notin objects' \/ x \in KeepCRDs
<1>1. [RoNext]_roVars => [Kept]_roVars
  <2> SUFFICES ASSUME RoNext PROVE Kept
    OBVIOUS
  <2>1. ASSUME NEW failed \in SUBSET Objects, NEW written \in BOOLEAN, SetAndDelete(failed, written)
        PROVE  Kept
    <3> SUFFICES ASSUME NEW x \in recorded, x \notin recorded', x \notin KeepCRDs
                 PROVE  x \notin objects'
      OBVIOUS
    <3>1. x \notin related /\ x \notin Deferred(failed)
      BY <2>1 DEF SetAndDelete, deleteRelatedObjectsNotRendered
    <3> QED BY <2>1, <3>1 DEF SetAndDelete, deleteRelatedObjectsNotRendered
  <2>2. CASE recorded' = recorded
    BY <2>2
  <2> QED BY <2>1, <2>2 DEF RoNext, SetRelatedObjects, ApplyObject, SetFromPods, RollOut,
                            RestartOperator, Upgrade, ChangeConfiguration, NewOperator
<1> QED BY <1>1, PTL DEF RoSpec, RecordKept

--------------------------------------------------------------------------------
(* The conditions and the related objects.  A step of MCStatusRelated is   *)
(* one of the part that runs and changes nothing of the other.             *)

(* Every behaviour of MCStatusRelated is one of both specifications.       *)
THEOREM SrComposes == SrSpec => Spec /\ RoSpec
<1>1. SrInit => Init /\ RoInit
  BY Zenon DEF SrInit
<1>2. [SrNext]_<<part, statusVars, roVars>> => [Next]_statusVars /\ [RoNext]_roVars
  BY Zenon DEF SrNext
<1> QED BY <1>1, <1>2, PTL DEF SrSpec, Spec, RoSpec

(* The safety properties of set() where the run of MCStatusRelated checks  *)
(* them, for any levels, threshold, failures, objects and renderings: both *)
(* objects show exactly the lowest degraded level and hide no progress,    *)
(* the mirrors agree, degrading is debounced and no object that is left    *)
(* over loses its record.                                                  *)
THEOREM SrSafe ==
  SrSpec => /\ []TypeOK /\ []RelatedTypeOK
            /\ []DegradedExact /\ []ProgressNotHidden /\ []MirrorsAgree
            /\ Debounced /\ RecordKept
  BY SrComposes, TypeCorrect, RelatedTypeCorrect, DegradedExactness, ProgressVisible,
     MirrorsRepaired, DebounceCorrect, RecordsKept, PTL
=================================================================================
