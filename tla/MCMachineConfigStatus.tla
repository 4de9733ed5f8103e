------------------------- MODULE MCMachineConfigStatus -------------------------
(* Small instances of MachineConfigStatus for TLC. *)
EXTENDS MachineConfigStatus

CONSTANTS master, worker, pool

MCLevels == {PanicLevel, MachineConfig}
\* What the conditions say depends on the slots alone and nothing depends on it,
\* so one state of the published objects, in which none of the writes of set()
\* has succeeded, stands for all.
MCUnpublished == {[AllOk EXCEPT !.apply = FALSE, !.writeCO = FALSE]}
MCRoles == {master, worker}
\* One pool that follows the machine configs of all roles, and what may befall
\* it.
MCPools == {pool}
MCSelects == [p \in MCPools |-> MCRoles]
ModeOf(paused, degraded) == [paused |-> paused, degraded |-> degraded]
MCPoolModes ==
  [p \in MCPools |-> {ModeOf(FALSE, FALSE), ModeOf(TRUE, FALSE), ModeOf(FALSE, TRUE)}]
\* Nothing, one machine config or both.
MCRenderings == {{}, {worker}, MCRoles}
================================================================================
