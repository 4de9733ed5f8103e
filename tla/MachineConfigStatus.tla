-------------------------- MODULE MachineConfigStatus --------------------------
(***************************************************************************)
(* The part of the status manager that follows machine configs: which of   *)
(* them the operator has rendered, which it has stopped rendering, and     *)
(* whether the machine config pools have caught up.                        *)
(*                                                                         *)
(* The bundled manifests hold one machine config for each role, so a       *)
(* machine config is named by its role here.                               *)
(*                                                                         *)
(* Three controllers take part: the operator configuration controller,     *)
(* which calls SetMachineConfigs, and the watchers of MachineConfigs and   *)
(* MachineConfigPools.  Each of them lists the pools BEFORE it takes the   *)
(* lock of the status manager, and works on that list once it has it: a    *)
(* list may be out of date, and two may be used in the opposite order.     *)
(***************************************************************************)
EXTENDS StatusManager

CONSTANTS
  Roles,        \* roles with a machine config
  Pools,        \* machine config pools
  Selects,      \* Selects[p]: the roles whose machine configs pool p selects
  PoolModes,    \* PoolModes[p]: the conditions of pool p that are explored
  Renderings,   \* sets of machine configs the operator may want to render
  Watchers      \* the watchers, by the kind of their events

Oper == "oper"                    \* the operator configuration controller
Callers == Watchers \cup {Oper}

Mode == [paused : BOOLEAN, degraded : BOOLEAN]
Pool == [mode : Mode, source : SUBSET Roles]
NoList == [p \in Pools |-> [mode |-> [paused |-> FALSE, degraded |-> FALSE], source |-> {}]]
(* A call: before it, between the lock and the list of the pools, with the *)
(* list, and about to apply the manifests.                                 *)
Call == [stage : {"idle", "listing", "listed", "apply"}, list : [Pools -> Pool]]
Idle == [stage |-> "idle", list |-> NoList]
Listing == [stage |-> "listing", list |-> NoList]
Listed(list) == [stage |-> "listed", list |-> list]
Applying == [stage |-> "apply", list |-> NoList]

ASSUME MachineConfigAssumption ==
  /\ MachineConfig \in Levels \ (DegradedLevels \cup ProgressLevels)
  /\ Oper \notin Watchers
  /\ Renderings \subseteq SUBSET Roles
  /\ \A p \in Pools : Selects[p] \subseteq Roles /\ PoolModes[p] \subseteq Mode

--------------------------------------------------------------------------------
VARIABLES
  rendered,      \* renderedMachineConfigs
  beingRemoved,  \* machineConfigsBeingRemoved
  saved,         \* the annotation of the ClusterOperator that backs `rendered`
  calls,         \* calls[c]: how far controller c is in its call
  queued,        \* queued[w]: watcher w has a request in its queue
  pools,         \* the pools in the API
  objects,       \* the operator's machine configs in the API
  want,          \* the machine configs the current configuration renders
  asked,         \* those the last SetRelatedObjects and SetMachineConfigs named
  \* Observability.
  unsaved        \* the last write of the annotation failed

caches == <<rendered, beingRemoved, saved, unsaved>>
mcVars == <<caches, calls, queued, pools, objects, want, asked>>
vars == <<statusVars, mcVars>>

McTypeOK ==
  /\ rendered \subseteq Roles /\ beingRemoved \subseteq Roles
  /\ saved \subseteq Roles /\ asked \subseteq Roles
  /\ objects \subseteq Roles /\ want \subseteq Roles
  /\ pools \in [Pools -> Pool]
  /\ calls \in [Callers -> Call]
  /\ queued \in [Watchers -> BOOLEAN]
  /\ unsaved \in BOOLEAN

--------------------------------------------------------------------------------
(* SetMachineConfigs.                                                      *)

\* Mutant: the pools are listed only when there is something new.
Bug_ReconcileOnlyNew(ok) ==
  /\ calls[Oper] = Idle
  /\ asked' = want
  /\ IF want = rendered
       THEN UNCHANGED caches /\ calls' = [calls EXCEPT ![Oper] = Applying]
       ELSE /\ rendered' = rendered \cup want
            /\ beingRemoved' = rendered \ want
            /\ IF want \subseteq rendered
                 THEN UNCHANGED <<saved, unsaved>>
                 ELSE /\ saved' = IF ok THEN rendered' ELSE saved
                      /\ unsaved' = ~ok
            /\ calls' = IF want \subseteq rendered THEN [calls EXCEPT ![Oper] = Applying]
                        ELSE IF ok THEN [calls EXCEPT ![Oper] = Listing] ELSE calls
  /\ UNCHANGED <<statusVars, queued, pools, objects, want>>

(* The part under the lock.  Nothing is done, not even about a removal in  *)
(* progress, when exactly the machine configs that are cached are rendered.*)
(* If the annotation cannot be written the caches stay as they are now.    *)
SetMachineConfigs(ok) ==
  /\ calls[Oper] = Idle
  /\ asked' = want
  /\ IF want = rendered
       THEN UNCHANGED caches /\ calls' = [calls EXCEPT ![Oper] = Applying]
       ELSE /\ rendered' = rendered \cup want
            /\ beingRemoved' = rendered \ want
            /\ IF want \subseteq rendered
                 THEN UNCHANGED <<saved, unsaved>>
                 ELSE /\ saved' = IF ok THEN rendered' ELSE saved
                      /\ unsaved' = ~ok
            /\ calls' = IF ok \/ want \subseteq rendered
                          THEN [calls EXCEPT ![Oper] = Listing] ELSE calls
  /\ UNCHANGED <<statusVars, queued, pools, objects, want>>

(* Then the pools are listed from the API, which may fail.                 *)
ListPools(next) ==
  /\ calls[Oper] = Listing
  /\ calls' = [calls EXCEPT ![Oper] = next]
  /\ UNCHANGED <<statusVars, caches, queued, pools, objects, want, asked>>
OperList == ListPools(Listed(pools))
OperListFails == ListPools(Idle)

(* When SetMachineConfigs has succeeded the caller applies what it renders.*)
Changed(now) ==
  /\ objects' = now
  /\ queued' = [w \in Watchers |-> queued[w] \/ (w = "mc" /\ now # objects)]

ApplyMachineConfigs ==
  /\ calls[Oper] = Applying
  /\ calls' = [calls EXCEPT ![Oper] = Idle]
  /\ Changed(objects \cup asked)
  /\ UNCHANGED <<statusVars, caches, pools, want, asked>>

(* set() deletes the objects that are not rendered any more, also on       *)
(* behalf of the controllers that are not part of this module.             *)
DeleteNotRendered ==
  /\ objects \ asked # {}
  /\ Changed(objects \cap asked)
  /\ UNCHANGED <<statusVars, caches, calls, pools, want, asked>>

--------------------------------------------------------------------------------
(* SetFromMachineConfigPool, on a list of the pools.                       *)

PoolsOf(r) == {p \in Pools : r \in Selects[p]}
Active(r, list) == {p \in PoolsOf(r) : ~list[p].mode.paused}

DegradedPool(list) == \E r \in rendered : \E p \in PoolsOf(r) : list[p].mode.degraded

(* A pool that is not paused has not picked the machine config up yet, or  *)
(* has not dropped it yet.                                                 *)
Lagging(r, p, list) == r \in beingRemoved <=> r \in list[p].source
Blocked(list) == {r \in rendered : \E p \in Active(r, list) : Lagging(r, p, list)}

\* Mutant: a role without an active pool counts as caught up.
Bug_PausedIsDone(list) == (rendered \cap beingRemoved) \ Blocked(list)

(* A removal all pools have caught up with; paused ones do not count.      *)
Removed(list) ==
  {r \in (rendered \cap beingRemoved) \ Blocked(list) : Active(r, list) # {}}

\* Mutant: the removal stays on record.
Bug_KeepBeingRemoved(gone, lost) ==
  /\ rendered' = rendered \ gone
  /\ beingRemoved' = beingRemoved
  /\ saved' = IF gone \ lost # {} THEN rendered \ (gone \ lost) ELSE saved
  /\ unsaved' = IF gone = {} THEN unsaved ELSE lost # {}

\* Mutant: the annotation is not written.
Bug_ForgetInMemoryOnly(gone, lost) ==
  /\ rendered' = rendered \ gone
  /\ beingRemoved' = beingRemoved \ gone
  /\ saved' = saved
  /\ unsaved' = IF gone = {} THEN unsaved ELSE lost # {}

(* forgetRemovedMachineConfig for each role in `gone`: the annotation is   *)
(* written every time, and the write fails for those in `lost`.            *)
Forget(gone, lost) ==
  /\ rendered' = rendered \ gone
  /\ beingRemoved' = beingRemoved \ gone
  /\ saved' = IF gone \ lost # {} THEN rendered \ (gone \ lost) ELSE saved
  /\ unsaved' = IF gone = {} THEN unsaved ELSE lost # {}

(* The roles are taken in no particular order: those in `done` came before *)
(* the one that made the method return.  Each ends in unsetProgressing;    *)
(* the repeated ones publish the same as the first.  What these set()      *)
(* delete is the action DeleteNotRendered, since a deletion may fail.      *)
Cleared(done, o) ==
  LET notDegraded == setNotDegraded(Self, MachineConfig, o)
  IN  IF done = {} THEN notDegraded ELSE unsetProgressing(notDegraded, MachineConfig, o)

ReportDegradedPool(list, o) ==
  /\ DegradedPool(list)
  /\ Locked(setDegraded(Self, MachineConfig, o))
  /\ Forget({}, {})

ReportBlocked(list, o) ==
  /\ ~DegradedPool(list) /\ Blocked(list) # {}
  /\ \E done \in SUBSET (rendered \ Blocked(list)) :
       /\ Locked(setProgressing(Cleared(done, o), MachineConfig, o))
       /\ Forget(done \cap Removed(list), {})

ReportDone(list, o) ==
  /\ ~DegradedPool(list) /\ Blocked(list) = {}
  /\ Locked(Cleared(rendered, o))
  /\ Forget(Removed(list), {})

(* The annotation cannot be written after r was forgotten: an error.       *)
ForgetFails(list, o) ==
  /\ ~DegradedPool(list)
  /\ \E r \in Removed(list) : \E done \in SUBSET (rendered \ (Blocked(list) \cup {r})) :
       /\ Locked(Cleared(done, o))
       /\ Forget((done \cap Removed(list)) \cup {r}, {r})

(* A watcher that gets the error puts its request back; the operator       *)
(* configuration controller runs again anyway.                             *)
SetFromMachineConfigPool(c) ==
  /\ calls[c].stage = "listed"
  /\ \E o \in Outcomes :
       \/ /\ \/ ReportDegradedPool(calls[c].list, o)
             \/ ReportBlocked(calls[c].list, o)
             \/ ReportDone(calls[c].list, o)
          /\ calls' = [calls EXCEPT ![c] = IF c = Oper THEN Applying ELSE Idle]
          /\ UNCHANGED queued
       \/ /\ ForgetFails(calls[c].list, o)
          /\ calls' = [calls EXCEPT ![c] = Idle]
          /\ queued' = [w \in Watchers |-> queued[w] \/ w = c]
  /\ UNCHANGED <<quiet, pools, objects, want, asked>>

--------------------------------------------------------------------------------
(* The watchers, whose requests are coalesced and served one at a time.    *)

WatcherList(w) ==
  /\ queued[w] /\ calls[w] = Idle
  /\ queued' = [queued EXCEPT ![w] = FALSE]
  /\ calls' = [calls EXCEPT ![w] = Listed(pools)]
  /\ UNCHANGED <<statusVars, caches, pools, objects, want, asked>>

\* Mutant: without an annotation the cache is a nil map.
Bug_NilMap ==
  /\ rendered' = IF saved = {} THEN {"nil"} ELSE saved
  /\ beingRemoved' = {} /\ unsaved' = FALSE
  /\ calls' = [c \in Callers |-> Idle]
  /\ queued' = [w \in Watchers |-> TRUE]
  /\ asked' = objects
  /\ UNCHANGED <<saved, pools, objects, want>>

(* AddMachineConfigWatchers of the new process reads the annotation; the   *)
(* first lists of its watchers are events.  Nothing is deleted before the  *)
(* related objects are known.                                              *)
AddMachineConfigWatchers ==
  /\ rendered' = saved /\ beingRemoved' = {} /\ unsaved' = FALSE
  /\ calls' = [c \in Callers |-> Idle]
  /\ queued' = [w \in Watchers |-> TRUE]
  /\ asked' = objects
  /\ UNCHANGED <<saved, pools, objects, want>>
McRestart == Restart /\ AddMachineConfigWatchers

--------------------------------------------------------------------------------
(* The configuration, and the machine config operator with its pools.      *)

ChangeConfiguration ==
  /\ want' \in Renderings \ {want}
  /\ UNCHANGED <<statusVars, caches, calls, queued, pools, objects, asked>>

PoolEvent(p, pool) ==
  /\ pool # pools[p]
  /\ pools' = [pools EXCEPT ![p] = pool]
  /\ queued' = [w \in Watchers |-> queued[w] \/ w = "mcp"]
  /\ UNCHANGED <<statusVars, caches, calls, objects, want, asked>>

(* A pool that is not paused catches up with the machine configs there are.*)
PoolUpdate(p) ==
  /\ ~pools[p].mode.paused
  /\ PoolEvent(p, [pools[p] EXCEPT !.source = objects \cap Selects[p]])
PoolCondition(p) ==
  \E m \in PoolModes[p] : PoolEvent(p, [pools[p] EXCEPT !.mode = m])

--------------------------------------------------------------------------------
McInit ==
  /\ Init
  /\ rendered = {} /\ beingRemoved = {} /\ saved = {}
  /\ asked = {} /\ want = {} /\ objects = {}
  /\ calls = [c \in Callers |-> Idle]
  /\ queued = [w \in Watchers |-> TRUE]
  /\ pools = NoList
  /\ unsaved = FALSE

McNext ==
  \/ \E ok \in BOOLEAN : SetMachineConfigs(ok)
  \/ OperList
  \/ OperListFails
  \/ ApplyMachineConfigs
  \/ DeleteNotRendered
  \/ \E c \in Callers : SetFromMachineConfigPool(c)
  \/ \E w \in Watchers : WatcherList(w)
  \/ McRestart
  \/ ChangeConfiguration
  \/ \E p \in Pools : PoolUpdate(p) \/ PoolCondition(p)

McSpec == McInit /\ [][McNext]_vars

(* The operator configuration is reconciled every ResyncPeriod and its     *)
(* list of the pools succeeds again and again; the watchers serve their    *)
(* queues, and a method that has the list gets the lock.                   *)
McFairness ==
  /\ WF_vars(\E ok \in BOOLEAN : SetMachineConfigs(ok))
  /\ SF_vars(OperList)
  /\ WF_vars(ApplyMachineConfigs)
  /\ \A w \in Watchers : WF_vars(WatcherList(w))
  /\ \A c \in Callers : []<>(calls[c].stage # "listed")
McFairSpec == McSpec /\ McFairness

--------------------------------------------------------------------------------
(* Properties.                                                             *)

(* A removal that is waited for is always one of a cached machine config,  *)
(* so SetFromMachineConfigPool gets to see it and can end the wait.        *)
RemovalTracked == beingRemoved \subseteq rendered

(* The annotation agrees with the cache unless the last write of it failed,*)
(* so a process that takes over knows of every machine config that may     *)
(* still be on the nodes.                                                  *)
AnnotationCurrent == unsaved \/ saved = rendered

(* Once a process has been told that a machine config is not rendered any  *)
(* more, the machine config is forgotten only on the word of a list in     *)
(* which an active pool of its role exists and no active pool holds it.    *)
ForgottenWhenGone ==
  [][\A r \in rendered \ rendered' :
       \/ AddMachineConfigWatchers
       \/ \E c \in Callers :
            /\ calls[c].stage = "listed" /\ calls'[c].stage # "listed"
            /\ \E p \in Pools : r \in Selects[p] /\ ~calls[c].list[p].mode.paused
            /\ \A p \in Pools : r \in Selects[p] /\ ~calls[c].list[p].mode.paused
                               => r \notin calls[c].list[p].source]_vars

(* When nothing is rendered any more and every pool has dropped the        *)
(* machine configs, the removal comes to its end: nothing is cached and    *)
(* the level neither progresses nor is degraded.  Lists that are out of    *)
(* date, failed writes of the annotation and failed lists do not matter.   *)
Clean(p) == pools[p].source = {} /\ ~pools[p].mode.paused /\ ~pools[p].mode.degraded
RemovalCompletes ==
  (<>[](want = {} /\ \A p \in Pools : Clean(p)) /\ <>[][~AddMachineConfigWatchers]_vars)
    => <>[](rendered = {} /\ failing[MachineConfig] = "none")

(* A machine config the operator was last asked to render is not waited    *)
(* for to be removed (SetMachineConfigs: "update status.                   *)
(* machineConfigsBeingRemoved cache").                                     *)
RemovalOnlyUndesired == beingRemoved \cap asked = {}
================================================================================
