------------------------------ MODULE MCOvnRollout ------------------------------
(* A small instance of OvnRollout for TLC. *)
EXTENDS OvnRollout

MCHanging == {Node}
MCFailing == {ControlPlane}
MCDeletable == {ControlPlane}
=================================================================================
