---------------------------- MODULE MCStatusRelated ----------------------------
(* The two parts of set() for TLC: the conditions (StatusManager) and the  *)
(* related objects (RelatedObjects).  They share no state: a behaviour is  *)
(* one of a single part, the other stays in a fixed initial state.         *)
EXTENDS MCStatusManager, MCRelatedObjects

VARIABLE part

SrInit ==
  /\ part \in {"conditions", "related"}
  /\ Init /\ RoInit /\ (part = "conditions" => want = MCObjects)

SrNext ==
  \/ part = "conditions" /\ Next /\ UNCHANGED <<part, roVars>>
  \/ part = "related" /\ RoNext /\ UNCHANGED <<part, statusVars>>

(* RoFairness, when its part is the one that runs.                         *)
SrFairness ==
  /\ WF_roVars(part = "related" /\ SetRelatedObjects({}))
  /\ \A x \in Objects : WF_roVars(part = "related" /\ ApplyObject(x, TRUE))
  /\ SF_roVars(part = "related" /\ SetAndDelete({}, TRUE))
  /\ WF_roVars(part = "related" /\ SetFromPods)
  /\ SF_roVars(part = "related" /\ RollOut)

SrSpec == SrInit /\ [][SrNext]_<<part, statusVars, roVars>> /\ SrFairness

(* Converges of RelatedObjects: exactly what is rendered remains           *)
(* (deleteRelatedObjectsNotRendered).                                      *)
RelatedConverges == part = "related" => Converges
================================================================================
