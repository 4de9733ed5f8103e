----------------------------- MODULE StatusManager -----------------------------
(***************************************************************************)
(* The status manager of the cluster network operator: the single place    *)
(* through which every controller reports Degraded and Progressing, and    *)
(* which publishes the result on three API objects: network.operator,      *)
(* the ClusterOperator "network" and, on HyperShift, the                   *)
(* HostedControlPlane.                                                     *)
(*                                                                         *)
(* The manager keeps ONE slot per StatusLevel (`failing`), shared by the   *)
(* two condition types, and publishes for each type the condition of the   *)
(* lowest level whose slot holds that type.  All its methods run under one *)
(* mutex, so each is one action here; every API call inside a method may   *)
(* fail on its own (an Outcome), and a failure is only logged, never       *)
(* retried.  A crash in the middle of a method is a run of failures        *)
(* followed by Restart, because the memory it leaves behind is lost.       *)
(*                                                                         *)
(* Time is abstracted to ages that saturate where the code stops telling   *)
(* them apart, so no run bounds the number of ticks.                       *)
(***************************************************************************)
EXTENDS Integers

CONSTANTS
  Levels,            \* the StatusLevels of this instance, a subset of StatusLevel
  DegradedLevels,    \* levels a controller reports through the Degraded calls
  ProgressLevels,    \* levels a controller reports through the Progressing calls
  Threshold,         \* degradedFailureDurationThreshold, in ticks
  Outcomes,          \* which results of the API calls of set() are explored
  HyperShiftEnabled, \* hyperShiftConfig.Enabled
  Disruptions        \* which environment disruptions are explored

--------------------------------------------------------------------------------
(* Status levels, in the order of their iota: a lower level hides a higher. *)
PanicLevel == 0
ClusterConfig == 1
OperatorConfig == 2
OperatorRender == 3
ProxyConfig == 4
InjectorConfig == 5
MachineConfig == 6
PodDeployment == 7
PKIConfig == 8
EgressRouterConfig == 9
RolloutHung == 10
PodCrashLoopBackOff == 11
CertificateSigner == 12
InfrastructureConfig == 13
DashboardConfig == 14
StatusLevel == PanicLevel .. DashboardConfig

NotSeen == -1        \* no entry in failureFirstSeen
NoCause == -1        \* a condition without a reason
NoOperConfig == -2   \* the reason "NoOperConfig" of the ClusterOperator
NoVersion == -1      \* ClusterOperator.status.versions is empty

Slot == {"none", "Degraded", "Progressing"}
Types == {"Degraded", "Progressing", "Available"}
Reported == {"Degraded", "Progressing"}

(* A published condition.  The cause stands for reason and message, which  *)
(* name the level that raised it.                                          *)
Condition == [status : {"Unset", "True", "False", "Unknown"},
              cause : StatusLevel \cup {NoCause, NoOperConfig}]
Unset == [status |-> "Unset", cause |-> NoCause]
CondFalse == [status |-> "False", cause |-> NoCause]
CondTrue == [status |-> "True", cause |-> NoCause]
CondUnknown == [status |-> "Unknown", cause |-> NoOperConfig]
Raised(c) == [status |-> "True", cause |-> c]

(* Results of the API calls one set() makes: reading network.operator,     *)
(* reading the ClusterOperator to seed missing conditions, applying the    *)
(* status of network.operator, writing the ClusterOperator (all conflict   *)
(* retries included) and writing the HostedControlPlane.                   *)
Outcome == [getOper : BOOLEAN, readCO : BOOLEAN, apply : BOOLEAN,
            writeCO : BOOLEAN, writeHCP : BOOLEAN]
AllOk == [getOper |-> TRUE, readCO |-> TRUE, apply |-> TRUE,
          writeCO |-> TRUE, writeHCP |-> TRUE]

ASSUME LevelsAssumption ==
  /\ Levels \subseteq StatusLevel
  /\ PanicLevel \in Levels
  /\ DegradedLevels \subseteq Levels \ {PanicLevel}
  /\ ProgressLevels \subseteq Levels \ {PanicLevel}
  /\ DegradedLevels \cap ProgressLevels = {}
ASSUME ThresholdAssumption == Threshold \in Nat \ {0}
ASSUME OutcomesAssumption == Outcomes \subseteq Outcome
ASSUME HyperShiftAssumption == HyperShiftEnabled \in BOOLEAN

--------------------------------------------------------------------------------
VARIABLES
  failing,     \* failing[l]: the slot of level l
  firstSeen,   \* failureFirstSeen[l]: age of the first debounced failure
  api,         \* the three API objects, see Api
  \* Observability: what the properties compare the state with.
  quiet,       \* age of the last success, hard failure or restart of a level
  synced,      \* synced[t]: the last write of t, to both objects, was a sync
  mirrored     \* no API call of the last set() failed

statusVars == <<failing, firstSeen, api, quiet, synced, mirrored>>

(* The API objects.  `versions` is the operator version reported in the    *)
(* ClusterOperator, `release` the RELEASE_VERSION of the running binary.   *)
Api == [operExists : BOOLEAN, oper : [Types -> Condition],
        coExists : BOOLEAN, co : [Types -> Condition], versions : Int,
        hcp : [Types -> Condition], release : Int]

NoConditions == [t \in Types |-> Unset]
NoFailures == [l \in Levels |-> "none"]
NothingSeen == [l \in Levels |-> NotSeen]
NothingSynced == [t \in Reported |-> FALSE]

TypeOK ==
  /\ failing \in [Levels -> Slot]
  /\ firstSeen \in [Levels -> {NotSeen} \cup 0 .. Threshold]
  /\ api \in Api
  /\ quiet \in [DegradedLevels -> 0 .. Threshold]
  /\ synced \in [Reported -> BOOLEAN]
  /\ mirrored \in BOOLEAN

--------------------------------------------------------------------------------
(* set(): compute the status of network.operator, apply it, mirror it.     *)

Overlay(over, under) ==
  [t \in Types |-> IF over[t] = Unset THEN under[t] ELSE over[t]]

OperRead(a, o) == a.operExists /\ o.getOper

\* Mutant: network.operator without conditions is not seeded.
Bug_NoSeed(a, o) == a.oper

(* The status computed from what network.operator holds: seeded from the   *)
(* ClusterOperator while there is no Available condition, then the new     *)
(* condition, then Available=False while the very first roll-out runs.     *)
Seeded(a, o) ==
  IF a.oper["Available"] = Unset /\ o.readCO /\ a.coExists
    THEN Overlay(a.co, a.oper) ELSE a.oper

\* Mutant: the seed is laid over the new condition instead of under it.
Bug_SeedLast(a, type, cond, o) ==
  LET withCond == [a.oper EXCEPT ![type] = cond]
      seeded == IF a.oper["Available"] = Unset /\ o.readCO /\ a.coExists
                  THEN Overlay(a.co, withCond) ELSE withCond
  IN  IF seeded["Available"] = Unset /\ seeded["Progressing"].status = "True"
        THEN [seeded EXCEPT !["Available"] = CondFalse] ELSE seeded

OperStatus(a, type, cond, o) ==
  LET withCond == [Seeded(a, o) EXCEPT ![type] = cond]
  IN  IF withCond["Available"] = Unset /\ withCond["Progressing"].status = "True"
        THEN [withCond EXCEPT !["Available"] = CondFalse] ELSE withCond

\* Mutant: conditions the ClusterOperator already has are not replaced.
Bug_KeepOldConditions(a, reached, operStatus, o) ==
  IF ~o.writeCO THEN a
  ELSE IF ~a.coExists
    THEN [a EXCEPT !.coExists = TRUE, !.co = NoConditions, !.versions = NoVersion]
  ELSE IF ~OperRead(a, o)
    THEN [a EXCEPT !.co = [@ EXCEPT !["Degraded"] = Raised(NoOperConfig)]]
  ELSE [a EXCEPT !.co = Overlay(@, operStatus),
                 !.versions = IF reached THEN a.release ELSE @]

(* A ClusterOperator that has to be created starts with an empty status:   *)
(* status is a subresource and Create does not write it.                   *)
SetClusterOperator(a, reached, operStatus, o) ==
  IF ~o.writeCO THEN a
  ELSE IF ~a.coExists
    THEN [a EXCEPT !.coExists = TRUE, !.co = NoConditions, !.versions = NoVersion]
  ELSE IF ~OperRead(a, o)
    THEN [a EXCEPT !.co = [@ EXCEPT !["Degraded"] = Raised(NoOperConfig)]]
  ELSE [a EXCEPT !.co = Overlay(operStatus, @),
                 !.versions = IF reached THEN a.release ELSE @]

(* writeHypershiftStatus: the computed status again, or Available=Unknown. *)
SetHostedControlPlane(a, read, operStatus, o) ==
  IF ~HyperShiftEnabled \/ ~o.writeHCP THEN a
  ELSE IF ~read THEN [a EXCEPT !.hcp = [@ EXCEPT !["Available"] = CondUnknown]]
  ELSE [a EXCEPT !.hcp = Overlay(operStatus, @)]

(* A failed ApplyStatus does not stop the ClusterOperator from receiving   *)
(* the computed status.                                                    *)
Set(a, reached, type, cond, o) ==
  LET operStatus == OperStatus(a, type, cond, o)
      afterCO == SetClusterOperator(a, reached, operStatus, o)
      afterHCP == SetHostedControlPlane(afterCO, OperRead(a, o), operStatus, o)
  IN  IF OperRead(a, o) /\ o.apply
        THEN [afterHCP EXCEPT !.oper = operStatus] ELSE afterHCP

(* syncDegraded and syncProgressing: the slot of the lowest level wins.    *)
Holding(slots, type) == {l \in Levels : slots[l] = type}
Lowest(S) == CHOOSE l \in S : \A k \in S : l <= k
Sync(slots, type) ==
  IF Holding(slots, type) = {} THEN CondFalse ELSE Raised(Lowest(Holding(slots, type)))

Publish(a, slots, type, o) == Set(a, FALSE, type, Sync(slots, type), o)

(* Bookkeeping of the observability variables for one publication.         *)
Landed(a, o) == OperRead(a, o) /\ o.apply /\ o.writeCO /\ a.coExists
Unmarked(s, a, o) ==
  IF OperRead(a, o) THEN s ELSE [s EXCEPT !["Degraded"] = FALSE]
Mark(s, a, type, o) == [Unmarked(s, a, o) EXCEPT ![type] = Landed(a, o)]
Mirrored(a, o) == Landed(a, o) /\ o.writeHCP

--------------------------------------------------------------------------------
(* The methods, as functions of the memory and the API objects they find:  *)
(* a caller that holds the lock chains several of them in one step.        *)

Self == [slots |-> failing, seen |-> firstSeen, api |-> api,
         synced |-> synced, mirrored |-> mirrored]

(* The end of a method: the slots as they are now are published for type.  *)
Publishing(r, slots, seen, type, o) ==
  [slots |-> slots, seen |-> seen, api |-> Publish(r.api, slots, type, o),
   synced |-> Mark(r.synced, r.api, type, o), mirrored |-> Mirrored(r.api, o)]

setDegraded(r, l, o) ==
  Publishing(r, [r.slots EXCEPT ![l] = "Degraded"], [r.seen EXCEPT ![l] = NotSeen],
             "Degraded", o)

(* The first failure only notes the time, one that is not yet persistent   *)
(* changes nothing, and once the level degrades the debounce starts again. *)
maybeSetDegraded(r, l, o) ==
  IF r.seen[l] = NotSeen THEN [r EXCEPT !.seen = [r.seen EXCEPT ![l] = 0]]
  ELSE IF r.seen[l] < Threshold THEN r
  ELSE setDegraded(r, l, o)

\* Mutant: the first-seen time of the failure outlives the success.
Bug_KeepFirstSeen(r, l, o) ==
  Publishing(r, [r.slots EXCEPT ![l] = "none"], r.seen, "Degraded", o)

\* Mutant: the slot is cleared and the change is not published.
Bug_ClearWithoutSync(r, l, o) ==
  [r EXCEPT !.slots = [r.slots EXCEPT ![l] = "none"],
            !.seen = [r.seen EXCEPT ![l] = NotSeen]]

setNotDegraded(r, l, o) ==
  Publishing(r, [r.slots EXCEPT ![l] = "none"], [r.seen EXCEPT ![l] = NotSeen],
             "Degraded", o)

\* Mutant: the slot gets a condition type no sync looks for.
Bug_WrongConditionType(r, l, o) ==
  Publishing(r, [r.slots EXCEPT ![l] = "Available"], r.seen, "Progressing", o)

setProgressing(r, l, o) ==
  Publishing(r, [r.slots EXCEPT ![l] = "Progressing"], r.seen, "Progressing", o)

\* Mutant: nothing is published when the slot was already empty.
Bug_UnsetOnlyIfSet(r, l, o) ==
  IF r.slots[l] = "none" THEN r
  ELSE Publishing(r, [r.slots EXCEPT ![l] = "none"], r.seen, "Progressing", o)

(* Clears the slot whatever type it holds.                                 *)
unsetProgressing(r, l, o) ==
  Publishing(r, [r.slots EXCEPT ![l] = "none"], r.seen, "Progressing", o)

--------------------------------------------------------------------------------
(* The calls the controllers make: each method under the lock.             *)

Locked(r) ==
  /\ failing' = r.slots
  /\ firstSeen' = r.seen
  /\ api' = r.api
  /\ synced' = r.synced
  /\ mirrored' = r.mirrored

SetDegraded(l, o) ==
  Locked(setDegraded(Self, l, o)) /\ quiet' = [quiet EXCEPT ![l] = 0]
MaybeSetDegraded(l, o) ==
  Locked(maybeSetDegraded(Self, l, o)) /\ UNCHANGED quiet
SetNotDegraded(l, o) ==
  Locked(setNotDegraded(Self, l, o)) /\ quiet' = [quiet EXCEPT ![l] = 0]
SetProgressing(l, o) ==
  Locked(setProgressing(Self, l, o)) /\ UNCHANGED quiet
UnsetProgressing(l, o) ==
  Locked(unsetProgressing(Self, l, o)) /\ UNCHANGED quiet

(* The process dies and starts again: only the API objects survive.        *)
ForgetMemory ==
  /\ failing' = NoFailures
  /\ firstSeen' = NothingSeen
  /\ quiet' = [l \in DegradedLevels |-> 0]
  /\ synced' = NothingSynced

(* Degraded is published at PanicLevel and the panic goes on.              *)
SetDegradedOnPanicAndCrash(o) ==
  /\ api' = Publish(api, [failing EXCEPT ![PanicLevel] = "Degraded"], "Degraded", o)
  /\ mirrored' = Mirrored(api, o)
  /\ ForgetMemory

--------------------------------------------------------------------------------
(* Environment.                                                            *)

Older(age, cap) == IF age \in 0 .. cap - 1 THEN age + 1 ELSE age

AgeStatus ==
  /\ firstSeen' = [l \in Levels |-> Older(firstSeen[l], Threshold)]
  /\ quiet' = [l \in DegradedLevels |-> Older(quiet[l], Threshold)]

Tick == AgeStatus /\ UNCHANGED <<failing, api, synced, mirrored>>

Restart ==
  /\ "restart" \in Disruptions
  /\ ForgetMemory
  /\ UNCHANGED <<api, mirrored>>

(* Somebody deletes, and re-creates, one of the objects being reported on. *)
DeleteOperConfig ==
  /\ "oper" \in Disruptions /\ api.operExists
  /\ api' = [api EXCEPT !.operExists = FALSE, !.oper = NoConditions]
  /\ synced' = NothingSynced
  /\ mirrored' = FALSE
  /\ UNCHANGED <<failing, firstSeen, quiet>>

CreateOperConfig ==
  /\ "oper" \in Disruptions /\ ~api.operExists
  /\ api' = [api EXCEPT !.operExists = TRUE]
  /\ UNCHANGED <<failing, firstSeen, quiet, synced, mirrored>>

DeleteClusterOperator ==
  /\ "co" \in Disruptions /\ api.coExists
  /\ api' = [api EXCEPT !.coExists = FALSE, !.co = NoConditions, !.versions = NoVersion]
  /\ synced' = NothingSynced
  /\ mirrored' = FALSE
  /\ UNCHANGED <<failing, firstSeen, quiet>>

--------------------------------------------------------------------------------
InitApi == [operExists |-> TRUE, oper |-> NoConditions,
            coExists |-> TRUE, co |-> NoConditions, versions |-> NoVersion,
            hcp |-> NoConditions, release |-> 0]

InitStatus ==
  /\ failing = NoFailures
  /\ firstSeen = NothingSeen
  /\ quiet = [l \in DegradedLevels |-> 0]
  /\ synced = NothingSynced
  /\ mirrored = FALSE

Init == InitStatus /\ api = InitApi

Report(o) ==
  \/ \E l \in DegradedLevels :
       SetDegraded(l, o) \/ MaybeSetDegraded(l, o) \/ SetNotDegraded(l, o)
  \/ \E l \in ProgressLevels : SetProgressing(l, o) \/ UnsetProgressing(l, o)

Controllers == \E o \in Outcomes : Report(o) \/ SetDegradedOnPanicAndCrash(o)

Environment ==
  \/ Tick
  \/ Restart
  \/ DeleteOperConfig
  \/ CreateOperConfig
  \/ DeleteClusterOperator

Next == Controllers \/ Environment

Spec == Init /\ [][Next]_statusVars

(* Fairness of the liveness run: the operator configuration is reconciled  *)
(* again every ResyncPeriod (operconfig_controller.go), which ends in      *)
(* these two calls when the reconciliation succeeds.                       *)
PeriodicReconcile ==
  /\ \A l \in DegradedLevels : WF_statusVars(SetNotDegraded(l, AllOk))
  /\ \A l \in ProgressLevels : WF_statusVars(UnsetProgressing(l, AllOk))

FairSpec == Spec /\ PeriodicReconcile

--------------------------------------------------------------------------------
(* Properties.                                                             *)

Shows(type, cond) == api.oper[type] = cond /\ api.co[type] = cond

(* Once a syncDegraded reached both objects, network.operator and the      *)
(* ClusterOperator show exactly the Degraded slot of the lowest level, or  *)
(* Degraded=False when there is none: no later publication of another      *)
(* type, with or without failed API calls, makes them show anything else   *)
(* (status_manager.go set, syncDegraded).                                  *)
DegradedExact == synced["Degraded"] => Shows("Degraded", Sync(failing, "Degraded"))

(* Once a syncProgressing reached both objects they agree, and a level     *)
(* that is progressing is never hidden: what they show is the lowest       *)
(* progressing level.  (They may go on showing Progressing=True after its  *)
(* slot was taken over by Degraded, which calls no syncProgressing.)       *)
ProgressNotHidden ==
  synced["Progressing"] =>
    /\ api.oper["Progressing"] = api.co["Progressing"]
    /\ Holding(failing, "Progressing") # {}
         => Shows("Progressing", Sync(failing, "Progressing"))

(* After a set() none of whose API calls failed, every condition of        *)
(* network.operator is shown unchanged by the ClusterOperator and, on      *)
(* HyperShift, by the HostedControlPlane: set() copies all conditions, not *)
(* only the one it was called with, so it repairs what an earlier failed   *)
(* call left behind.                                                       *)
MirrorsAgree ==
  mirrored => \A t \in Types : api.oper[t] # Unset =>
                /\ api.co[t] = api.oper[t]
                /\ HyperShiftEnabled => api.hcp[t] = api.oper[t]

(* maybeSetDegraded degrades a level only if during the whole threshold    *)
(* before it the level reported no success, no hard failure, and the       *)
(* process did not restart: a failure that comes and goes never adds up.   *)
Debounced ==
  [][\A l \in DegradedLevels :
       (/\ \E o \in Outcomes : MaybeSetDegraded(l, o)
        /\ firstSeen[l] # NotSeen /\ firstSeen'[l] = NotSeen)
       => quiet[l] = Threshold]_statusVars

(* From some point on every controller reports success, the API works and  *)
(* both objects exist: then the ClusterOperator ends up showing neither    *)
(* Degraded nor Progressing for good, whatever the failures before left in *)
(* the objects, a crash included.                                          *)
CalmStep ==
  \/ \E l \in DegradedLevels : SetNotDegraded(l, AllOk)
  \/ \E l \in ProgressLevels : UnsetProgressing(l, AllOk)
  \/ Tick
  \/ Restart
Settles ==
  (<>[](api.operExists /\ api.coExists) /\ <>[][CalmStep]_statusVars)
    => <>[](Shows("Degraded", CondFalse) /\ Shows("Progressing", CondFalse))

================================================================================
