---------------------------- MODULE MCRelatedObjects ----------------------------
(* A small instance of RelatedObjects for TLC. *)
EXTENDS RelatedObjects

CONSTANTS role, crd, pod

MCObjects == {role, crd, pod}
MCRbac == {role}
MCKeepCRDs == {crd}
\* A configuration with everything and two smaller ones.
MCRenderings == {MCObjects, {role}, {pod}}
=================================================================================
