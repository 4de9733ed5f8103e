-------------------------- MODULE MachineConfigProofs --------------------------
(***************************************************************************)
(* Proofs about MachineConfigStatus for any roles, pools, renderings and   *)
(* watchers, and any failures of the API calls.                            *)
(*                                                                         *)
(* The caches, the annotation and the note that its last write failed      *)
(* change in three ways only: SetMachineConfigs takes up a rendering,      *)
(* Forget drops roles, and a new process starts from the annotation.       *)
(* CacheStep says so of every step, and the invariants follow from it.     *)
(***************************************************************************)
EXTENDS MachineConfigStatus, TLAPS

TakeUp ==
  /\ want # rendered
  /\ rendered' = rendered \cup want
  /\ beingRemoved' = rendered \ want
  /\ \/ want \subseteq rendered /\ saved' = saved /\ unsaved' = unsaved
     \/ saved' = rendered' /\ unsaved' = FALSE
     \/ saved' = saved /\ unsaved' = TRUE

(* The list on which a role is forgotten.                                  *)
ForgetSome ==
  \E c \in Callers, gone \in SUBSET rendered, lost \in SUBSET Roles :
    /\ calls[c].stage = "listed" /\ calls'[c].stage # "listed"
    /\ gone \subseteq Removed(calls[c].list)
    /\ Forget(gone, lost)
    /\ lost \subseteq gone

CacheStep ==
  \/ UNCHANGED caches
  \/ TakeUp
  \/ ForgetSome
  \/ AddMachineConfigWatchers

(* Every step changes the caches in one of the ways CacheStep lists.       *)
LEMMA CacheSteps ==
  ASSUME McTypeOK, McNext
  PROVE  CacheStep
<1> USE DEF McTypeOK
<1>1. ASSUME NEW ok \in BOOLEAN, SetMachineConfigs(ok) PROVE CacheStep
  BY <1>1 DEF SetMachineConfigs, CacheStep, TakeUp, caches
<1>2. CASE OperList \/ OperListFails \/ ApplyMachineConfigs \/ DeleteNotRendered
  BY <1>2 DEF OperList, OperListFails, ListPools, ApplyMachineConfigs, DeleteNotRendered,
              Changed, CacheStep, caches
<1>3. ASSUME NEW c \in Callers, SetFromMachineConfigPool(c) PROVE CacheStep
  <2> DEFINE L == calls[c].list
  <2>1. calls[c].stage = "listed" /\ calls'[c].stage # "listed"
    <3>1. calls' \in {[calls EXCEPT ![c] = Idle], [calls EXCEPT ![c] = Applying]}
      BY <1>3 DEF SetFromMachineConfigPool
    <3>2. Idle.stage = "idle" /\ Applying.stage = "apply"
      BY DEF Idle, Applying
    <3> QED BY <1>3, <3>1, <3>2, Zenon DEF SetFromMachineConfigPool
  <2>2. PICK o \in Outcomes : \/ ReportDegradedPool(L, o) \/ ReportBlocked(L, o)
                              \/ ReportDone(L, o) \/ ForgetFails(L, o)
    BY <1>3 DEF SetFromMachineConfigPool
  <2>3. Removed(L) \subseteq rendered
    BY DEF Removed
  <2> SUFFICES \E gone \in SUBSET rendered, lost \in SUBSET Roles :
                  gone \subseteq Removed(L) /\ Forget(gone, lost) /\ lost \subseteq gone
    BY <2>1 DEF CacheStep, ForgetSome
  <2>4. CASE ReportDegradedPool(L, o)
    BY <2>4 DEF ReportDegradedPool
  <2>5. CASE ReportBlocked(L, o)
    <3>1. PICK done \in SUBSET (rendered \ Blocked(L)) : Forget(done \cap Removed(L), {})
      BY <2>5 DEF ReportBlocked
    <3> QED BY <3>1, <2>3
  <2>6. CASE ReportDone(L, o)
    BY <2>6, <2>3 DEF ReportDone
  <2>7. CASE ForgetFails(L, o)
    <3>1. PICK r \in Removed(L) : \E done \in SUBSET (rendered \ (Blocked(L) \cup {r})) :
             Forget((done \cap Removed(L)) \cup {r}, {r})
      BY <2>7 DEF ForgetFails
    <3>2. PICK done \in SUBSET (rendered \ (Blocked(L) \cup {r})) :
             Forget((done \cap Removed(L)) \cup {r}, {r})
      BY <3>1
    <3> QED BY <3>2, <2>3
  <2> QED BY <2>2, <2>4, <2>5, <2>6, <2>7
<1>4. ASSUME NEW w \in Watchers, WatcherList(w) PROVE CacheStep
  BY <1>4 DEF WatcherList, CacheStep, caches
<1>5. CASE McRestart
  BY <1>5 DEF McRestart, CacheStep
<1>6. CASE ChangeConfiguration
  BY <1>6 DEF ChangeConfiguration, CacheStep, caches
<1>7. ASSUME NEW p \in Pools, PoolUpdate(p) \/ PoolCondition(p) PROVE CacheStep
  BY <1>7 DEF PoolUpdate, PoolCondition, PoolEvent, CacheStep, caches
<1> QED BY <1>1, <1>2, <1>3, <1>4, <1>5, <1>6, <1>7 DEF McNext

(* What every step preserves of the types.                                 *)
LEMMA TypeStep ==
  ASSUME McTypeOK, McNext
  PROVE  McTypeOK'
<1> USE MachineConfigAssumption DEF McTypeOK
<1>0. /\ Idle \in Call /\ Listing \in Call /\ Applying \in Call
      /\ \A list \in [Pools -> Pool] : Listed(list) \in Call
  BY DEF Idle, Listing, Applying, Listed, Call, NoList, Pool, Mode
<1>1. rendered' \subseteq Roles /\ beingRemoved' \subseteq Roles /\ saved' \subseteq Roles
      /\ unsaved' \in BOOLEAN
  <2>1. CacheStep
    BY CacheSteps
  <2>2. CASE UNCHANGED caches
    BY <2>2 DEF caches
  <2>3. CASE TakeUp
    BY <2>3 DEF TakeUp
  <2>4. CASE ForgetSome
    BY <2>4 DEF ForgetSome, Forget
  <2>5. CASE AddMachineConfigWatchers
    BY <2>5 DEF AddMachineConfigWatchers
  <2> QED BY <2>1, <2>2, <2>3, <2>4, <2>5 DEF CacheStep
<1> DEFINE Rest == /\ asked' \subseteq Roles /\ objects' \subseteq Roles /\ want' \subseteq Roles
                   /\ pools' \in [Pools -> Pool]
                   /\ calls' \in [Callers -> Call]
                   /\ queued' \in [Watchers -> BOOLEAN]
<1>2. ASSUME NEW ok \in BOOLEAN, SetMachineConfigs(ok) PROVE Rest
  BY <1>0, <1>2 DEF SetMachineConfigs
<1>3. ASSUME OperList \/ OperListFails PROVE Rest
  BY <1>0, <1>3 DEF OperList, OperListFails, ListPools
<1>4. ASSUME ApplyMachineConfigs \/ DeleteNotRendered PROVE Rest
  BY <1>0, <1>4 DEF ApplyMachineConfigs, DeleteNotRendered, Changed
<1>5. ASSUME NEW c \in Callers, SetFromMachineConfigPool(c) PROVE Rest
  <2>1. calls' \in {[calls EXCEPT ![c] = Idle], [calls EXCEPT ![c] = Applying]}
    BY <1>5 DEF SetFromMachineConfigPool
  <2>2. queued' \in [Watchers -> BOOLEAN]
    BY <1>5 DEF SetFromMachineConfigPool
  <2> QED BY <1>0, <1>5, <2>1, <2>2 DEF SetFromMachineConfigPool
<1>6. ASSUME NEW w \in Watchers, WatcherList(w) PROVE Rest
  BY <1>0, <1>6 DEF WatcherList
<1>7. ASSUME McRestart PROVE Rest
  BY <1>0, <1>7 DEF McRestart, AddMachineConfigWatchers
<1>8. ASSUME ChangeConfiguration PROVE Rest
  BY <1>8 DEF ChangeConfiguration
<1>9. ASSUME NEW p \in Pools, PoolUpdate(p) \/ PoolCondition(p) PROVE Rest
  <2>1. pools[p] \in [mode : Mode, source : SUBSET Roles]
    BY DEF Pool
  <2>2. ASSUME NEW S \in SUBSET Roles PROVE [pools[p] EXCEPT !.source = S] \in Pool
    BY <2>1 DEF Pool
  <2>3. ASSUME NEW m \in Mode PROVE [pools[p] EXCEPT !.mode = m] \in Pool
    BY <2>1 DEF Pool
  <2>4. PICK q \in Pool : PoolEvent(p, q)
    <3>1. CASE PoolUpdate(p)
      BY <3>1, <2>2 DEF PoolUpdate
    <3>2. CASE PoolCondition(p)
      BY <3>2, <2>3 DEF PoolCondition
    <3> QED BY <1>9, <3>1, <3>2
  <2> QED BY <2>4 DEF PoolEvent
<1>10. Rest
  BY <1>2, <1>3, <1>4, <1>5, <1>6, <1>7, <1>8, <1>9 DEF McNext
<1> QED BY <1>1, <1>10

McInv == McTypeOK /\ RemovalTracked /\ AnnotationCurrent

LEMMA McInitEstablishes ==
  ASSUME McInit
  PROVE  McInv
<1>1. McTypeOK
  BY DEF McInit, McTypeOK, NoList, Idle, Call, Pool, Mode
<1> QED BY <1>1 DEF McInit, McInv, RemovalTracked, AnnotationCurrent

LEMMA McStepPreserves ==
  ASSUME McInv, [McNext]_vars
  PROVE  McInv'
<1> USE DEF McInv
<1>1. CASE McNext
  <2>1. McTypeOK'
    BY <1>1, TypeStep
  <2>2. CacheStep
    BY <1>1, CacheSteps
  <2>3. CASE UNCHANGED caches
    BY <2>1, <2>3 DEF caches, RemovalTracked, AnnotationCurrent
  <2>4. CASE TakeUp
    BY <2>1, <2>4 DEF TakeUp, RemovalTracked, AnnotationCurrent
  <2>5. CASE ForgetSome
    BY <2>1, <2>5 DEF ForgetSome, Forget, RemovalTracked, AnnotationCurrent
  <2>6. CASE AddMachineConfigWatchers
    BY <2>1, <2>6 DEF AddMachineConfigWatchers, RemovalTracked, AnnotationCurrent
  <2> QED BY <2>2, <2>3, <2>4, <2>5, <2>6 DEF CacheStep
<1>2. CASE UNCHANGED vars
  BY <1>2 DEF vars, mcVars, caches, McTypeOK, RemovalTracked, AnnotationCurrent
<1> QED BY <1>1, <1>2

(* The inductive invariant of the machine config status holds in every     *)
(* state of the three controllers, the pools and a restarting process.     *)
THEOREM McInvariance == McSpec => []McInv
<1>1. McInit => McInv
  BY McInitEstablishes
<1>2. McInv /\ [McNext]_vars => McInv'
  BY McStepPreserves
<1> QED BY <1>1, <1>2, PTL DEF McSpec

(* Caches, annotation, pools and lists in flight stay well-typed.          *)
THEOREM McTypeCorrect == McSpec => []McTypeOK
<1>1. McInv => McTypeOK
  BY DEF McInv
<1> QED BY <1>1, McInvariance, PTL

(* A removal that is waited for is one of a cached machine config, so      *)
(* SetFromMachineConfigPool, which walks over the cached ones, sees it.    *)
THEOREM RemovalsTracked == McSpec => []RemovalTracked
<1>1. McInv => RemovalTracked
  BY DEF McInv
<1> QED BY <1>1, McInvariance, PTL

(* The annotation a new process starts from agrees with the cache of the   *)
(* old one unless the last write of it failed.                             *)
THEOREM AnnotationsCurrent == McSpec => []AnnotationCurrent
<1>1. McInv => AnnotationCurrent
  BY DEF McInv
<1> QED BY <1>1, McInvariance, PTL

(* No interleaving of the three controllers, however old their lists are,  *)
(* makes SetFromMachineConfigPool forget a machine config that an active   *)
(* pool of its list still holds, or that only paused pools could drop.     *)
THEOREM ForgottenOnlyWhenGone == McSpec => ForgottenWhenGone
<1> DEFINE Gone(r) ==
      \/ AddMachineConfigWatchers
      \/ \E c \in Callers :
           /\ calls[c].stage = "listed" /\ calls'[c].stage # "listed"
           /\ \E p \in Pools : r \in Selects[p] /\ ~calls[c].list[p].mode.paused
           /\ \A p \in Pools : r \in Selects[p] /\ ~calls[c].list[p].mode.paused
                               => r \notin calls[c].list[p].source
<1>1. McInv /\ [McNext]_vars => [\A r \in rendered \ rendered' : Gone(r)]_vars
  <2> SUFFICES ASSUME McInv, McNext, NEW r \in rendered \ rendered'
               PROVE  Gone(r)
    OBVIOUS
  <2>1. CacheStep
    BY CacheSteps DEF McInv
  <2>2. CASE ForgetSome
    <3>1. PICK c \in Callers :
             /\ calls[c].stage = "listed" /\ calls'[c].stage # "listed"
             /\ r \in Removed(calls[c].list)
      BY <2>2 DEF ForgetSome, Forget
    <3> QED BY <3>1 DEF Removed, Active, PoolsOf, Blocked, Lagging
  <2>3. ~UNCHANGED caches /\ ~TakeUp
    BY DEF caches, TakeUp
  <2> QED BY <2>1, <2>2, <2>3 DEF CacheStep
<1> QED BY <1>1, McInvariance, PTL DEF McSpec, ForgottenWhenGone
================================================================================
