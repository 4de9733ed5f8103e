------------------------------- MODULE PodStatus -------------------------------
(***************************************************************************)
(* The pod watcher and SetFromPods: the status of the network's DaemonSets,*)
(* StatefulSets and Deployments (the operands) turned into Available,      *)
(* Progressing and Degraded, and into the version the ClusterOperator      *)
(* reports.                                                                *)
(*                                                                         *)
(* What must survive a restart of the operator (since when a roll-out has  *)
(* made no progress, and whether the installation has completed) is kept   *)
(* in an annotation of the ClusterOperator, `lastSeen`.  The watcher is a  *)
(* queue of one request, `pending`: every event about an operand sets it,  *)
(* and nothing else does, since the informers have no resync period.       *)
(*                                                                         *)
(* `operands` is what the informers hold.  It composes with StatusManager: *)
(* all of SetFromPods runs under that manager's lock.                      *)
(***************************************************************************)
EXTENDS StatusManager

CONSTANTS
  DaemonSets, StatefulSets, Deployments,
  NonCritical,      \* operands with the non-critical annotation
  Removable,        \* operands whose deletion is explored
  Statuses,         \* Statuses[o]: the replica counts operand o may report
  ProgressTimeout,  \* in ticks
  Calls,            \* which results of the API calls of SetFromPods are explored
  MaxRelease        \* bound on the number of upgrades

Operands == DaemonSets \cup StatefulSets \cup Deployments
Critical == Operands \ NonCritical
PodLevels == {PodDeployment, RolloutHung, PodCrashLoopBackOff}

(* The status of an operand.  `current` is CurrentNumberScheduled of a     *)
(* DaemonSet and Replicas of the others; `observed` is the generation its  *)
(* controller has seen, one generation per release.                        *)
Counts == [desired : Nat, current : Nat, updated : Nat, ready : Nat,
           available : Nat, unavailable : Nat, observed : Int]
Fresh == [desired |-> 0, current |-> 0, updated |-> 0, ready |-> 0,
          available |-> 0, unavailable |-> 0, observed |-> NoVersion]

(* What the annotation says of one operand: the status last seen and its   *)
(* age; and of the installation ("legacy": written by a release that did   *)
(* not yet record it, "absent": no annotation at all).                     *)
Entry == [seen : Counts, age : Int]
NoEntry == [seen |-> Fresh, age |-> NotSeen]
NoEntries == [o \in Operands |-> NoEntry]
InstallRecord == {"absent", "legacy", "false", "true"}

(* Results of the API calls of one SetFromPods: reading the annotation,    *)
(* writing it, annotating the operands, listing their pods, and the (at    *)
(* most) five calls of set() in their order.                               *)
Call == [read : BOOLEAN, annotate : BOOLEAN, mark : BOOLEAN, pods : BOOLEAN,
         sets : [1 .. 5 -> Outcome]]
AllCallsOk == [read |-> TRUE, annotate |-> TRUE, mark |-> TRUE, pods |-> TRUE,
               sets |-> [i \in 1 .. 5 |-> AllOk]]

ASSUME PodLevelsAssumption ==
  /\ PodLevels \subseteq Levels
  /\ PodLevels \cap (DegradedLevels \cup ProgressLevels) = {}
ASSUME OperandsAssumption ==
  /\ NonCritical \subseteq Operands
  /\ DaemonSets \cap StatefulSets = {}
  /\ Deployments \cap (DaemonSets \cup StatefulSets) = {}
ASSUME StatusesAssumption == \A o \in Operands : Statuses[o] \subseteq Counts
ASSUME PodBoundsAssumption == ProgressTimeout \in Nat /\ MaxRelease \in Nat
ASSUME CallsAssumption == Calls \subseteq Call

--------------------------------------------------------------------------------
VARIABLES
  operands,         \* operands[o]: the object in the informer's cache
  lastSeen,         \* the annotation of the ClusterOperator
  installComplete,  \* StatusManager.installComplete
  pending,          \* the pod watcher has a request in its queue
  \* Observability: what HungExact compares the reports with.
  clock,            \* clock[o]: since when o has been seen to make no progress
  overdue           \* some clock was over the timeout when last looked at

podVars == <<operands, lastSeen, installComplete, pending, clock, overdue>>
vars == <<statusVars, podVars>>

Operand == [exists : BOOLEAN, status : Counts, version : Int,
            hung : BOOLEAN, crashing : BOOLEAN]
NoOperand == [exists |-> FALSE, status |-> Fresh, version |-> NoVersion,
              hung |-> FALSE, crashing |-> FALSE]
Live == {o \in Operands : operands[o].exists}

Ages == {NotSeen} \cup 0 .. ProgressTimeout + 1

PodTypeOK ==
  /\ operands \in [Operands -> Operand]
  /\ lastSeen.install \in InstallRecord
  /\ lastSeen.states \in [Operands -> Entry]
  /\ \A o \in Operands : lastSeen.states[o].age \in Ages /\ clock[o].age \in Ages
  /\ clock \in [Operands -> Entry]
  /\ installComplete \in BOOLEAN
  /\ pending \in BOOLEAN /\ overdue \in BOOLEAN

--------------------------------------------------------------------------------
(* How one operand is judged from its counts.                              *)

Updating(s) == s.updated < s.current

(* A non-critical operand that waits for other operators during install.   *)
Waiting(o, s) ==
  o \in NonCritical /\ IF o \in Deployments THEN s.unavailable > 0 ELSE s.ready = 0

Unavailable(o, s) ==
  IF o \in StatefulSets THEN s.ready > 0 /\ s.ready < s.current ELSE s.unavailable > 0

(* A DaemonSet that matches no node is not unscheduled, once its           *)
(* controller has looked at it.                                            *)
Unscheduled(o, s, version) ==
  s.available = 0 /\ (o \in DaemonSets => s.desired > 0 \/ s.observed < version)

(* Outside of an update, pods that are missing count as a roll-out only    *)
(* until the installation is complete; afterwards they are reboot churn.   *)
Progressing(o, install) ==
  LET s == operands[o].status
  IN  \/ Updating(s)
      \/ ~install /\ (\/ Waiting(o, s)
                      \/ Unavailable(o, s)
                      \/ Unscheduled(o, s, operands[o].version))

(* Pods are examined for CrashLoopBackOff when that is what was found      *)
(* first about a critical operand.                                         *)
CrashLooping(o) ==
  LET s == operands[o].status
  IN  o \in Critical /\ ~Updating(s) /\ Unavailable(o, s) /\ operands[o].crashing

--------------------------------------------------------------------------------
(* SetFromPods.                                                            *)

\* Mutant: an annotation without the install record counts as not installed.
Bug_NoLegacyFallback == lastSeen.install = "true"

InstallRecorded ==
  \/ lastSeen.install = "true"
  \/ lastSeen.install = "legacy" /\ api.co["Available"].status = "True"

\* Mutant: a new entry keeps the zero value of LastChangeTime.
Bug_ZeroTime(e, s) ==
  IF e.age = NotSeen \/ e.seen # s THEN [seen |-> s, age |-> ProgressTimeout + 2] ELSE e

(* The entry of an operand that is rolling out and shows status s.         *)
Noted(e, s) == IF e.age = NotSeen \/ e.seen # s THEN [seen |-> s, age |-> 0] ELSE e

\* Mutant: the entry of an operand that has finished is not deleted.
Bug_KeepFinished(past, critical) ==
  [o \in Operands |-> IF o \in critical THEN Noted(past[o], operands[o].status) ELSE past[o]]

(* The entry of an operand that is not listed any more is kept.            *)
NewEntries(past, critical) ==
  [o \in Operands |-> IF o \in critical THEN Noted(past[o], operands[o].status)
                      ELSE IF o \in Live THEN NoEntry ELSE past[o]]

\* Mutant: the release of the Deployments is not compared.
Bug_DaemonSetsOnly(critical) ==
  /\ Live # {} /\ critical = {}
  /\ \A o \in Live \cap DaemonSets : operands[o].version = api.release

(* reachedAvailableLevel: every operand is at the release of the operator  *)
(* and no critical one is rolling out.                                     *)
ReachedAvailableLevel(critical) ==
  /\ Live # {} /\ critical = {}
  /\ \A o \in Live : operands[o].version = api.release

(* Everything SetFromPods concludes before it reports.                     *)
Verdict(c) ==
  LET read == c.read /\ api.coExists
      install == installComplete \/ (read /\ InstallRecorded)
      past == IF read THEN lastSeen.states ELSE NoEntries
      progressing == {o \in Live : Progressing(o, install)}
      critical == progressing \cap Critical
      states == NewEntries(past, critical)
      reached == ReachedAvailableLevel(critical)
  IN  [deploying |-> progressing # {} \/ Live = {},
       critical |-> critical,
       reached |-> reached,
       complete |-> install \/ (reached /\ progressing = {}),
       states |-> states,
       hung |-> {o \in critical : states[o].age > ProgressTimeout},
       crashing |-> {o \in Live : c.pods /\ CrashLooping(o)}]

(* The calls that report it, in their order.                               *)
ReportVersion(r, o) ==
  [r EXCEPT !.api = Set(r.api, TRUE, "Available", CondTrue, o),
            !.synced = Unmarked(r.synced, r.api, o),
            !.mirrored = Mirrored(r.api, o)]

ReportVerdict(v, sets) ==
  LET cleared == setNotDegraded(Self, PodDeployment, sets[1])
      progress == IF v.deploying THEN setProgressing(cleared, PodDeployment, sets[2])
                                 ELSE unsetProgressing(cleared, PodDeployment, sets[2])
      available == IF v.reached THEN ReportVersion(progress, sets[3]) ELSE progress
      hung == IF v.hung # {} THEN setDegraded(available, RolloutHung, sets[4])
                             ELSE setNotDegraded(available, RolloutHung, sets[4])
  IN  IF v.crashing # {} THEN maybeSetDegraded(hung, PodCrashLoopBackOff, sets[5])
                         ELSE setNotDegraded(hung, PodCrashLoopBackOff, sets[5])

(* The annotation is patched after the first report, which may have had to *)
(* create the ClusterOperator.  Marking an operand as hung, or removing    *)
(* the mark, is itself an event.                                           *)
SetFromPods(c) ==
  /\ pending
  /\ LET v == Verdict(c)
         cleared == setNotDegraded(Self, PodDeployment, c.sets[1])
         marked == {o \in Live : c.mark /\ operands[o].hung # (o \in v.hung)}
     IN  /\ Locked(ReportVerdict(v, c.sets))
         /\ installComplete' = v.complete
         /\ lastSeen' = IF c.annotate /\ cleared.api.coExists
                          THEN [install |-> IF v.complete THEN "true" ELSE "false",
                                states |-> v.states]
                          ELSE lastSeen
         /\ operands' = [o \in Operands |->
                           IF o \in marked THEN [operands[o] EXCEPT !.hung = ~@] ELSE operands[o]]
         /\ pending' = (marked # {})
         /\ clock' = [o \in Operands |->
                        IF o \in v.critical THEN Noted(clock[o], operands[o].status) ELSE NoEntry]
         /\ overdue' = \E o \in Operands : clock'[o].age > ProgressTimeout
  /\ UNCHANGED quiet

--------------------------------------------------------------------------------
(* The operands, as the operator configuration controller applies them and *)
(* their own controllers and nodes change them.                            *)

Event(o, new) ==
  /\ operands' = [operands EXCEPT ![o] = new]
  /\ pending' = TRUE
  /\ UNCHANGED <<statusVars, lastSeen, installComplete, overdue>>

CreateOperand(o) ==
  /\ ~operands[o].exists
  /\ Event(o, [NoOperand EXCEPT !.exists = TRUE, !.version = api.release])
  /\ UNCHANGED clock

UpdateOperand(o) ==
  /\ operands[o].exists /\ operands[o].version # api.release
  /\ Event(o, [operands[o] EXCEPT !.version = api.release])
  /\ UNCHANGED clock

\* The controller of the operand writes the generation it has seen with it.
StatusChange(o) ==
  \E s \in Statuses[o] :
    LET new == [s EXCEPT !.observed = operands[o].version]
    IN  /\ operands[o].exists /\ operands[o].status # new
        /\ Event(o, [operands[o] EXCEPT !.status = new,
                                        !.crashing = @ /\ Unavailable(o, new)])
        /\ UNCHANGED clock

(* An operand that is no longer rendered, or whose owner was deleted.      *)
DeleteOperand(o) ==
  /\ o \in Removable /\ operands[o].exists
  /\ Event(o, NoOperand)
  /\ clock' = [clock EXCEPT ![o] = NoEntry]

(* A pod that is not available enters or leaves CrashLoopBackOff, which is *)
(* no event of its own.  Only the pods of critical operands are looked at. *)
PodCrash(o) ==
  /\ operands[o].exists /\ o \in Critical /\ Unavailable(o, operands[o].status)
  /\ operands' = [operands EXCEPT ![o].crashing = ~@]
  /\ UNCHANGED <<statusVars, lastSeen, installComplete, pending, clock, overdue>>

--------------------------------------------------------------------------------
(* The rest of the operator and its environment.                           *)

(* A new process lists the operands, which is an event for each of them.   *)
ForgetPods ==
  /\ installComplete' = FALSE
  /\ pending' = (Live # {})
  /\ overdue' = FALSE
  /\ UNCHANGED <<operands, lastSeen, clock>>

PodPanic == (\E o \in Outcomes : SetDegradedOnPanicAndCrash(o)) /\ ForgetPods
PodRestart == Restart /\ ForgetPods

Upgrade ==
  /\ api.release < MaxRelease
  /\ ForgetMemory
  /\ api' = [api EXCEPT !.release = @ + 1]
  /\ UNCHANGED mirrored
  /\ ForgetPods

Aged(entries) ==
  [o \in Operands |-> [entries[o] EXCEPT !.age = Older(@, ProgressTimeout + 1)]]

PodTick ==
  /\ Tick
  /\ lastSeen' = [lastSeen EXCEPT !.states = Aged(@)]
  /\ clock' = Aged(clock)
  /\ UNCHANGED <<operands, installComplete, pending, overdue>>

PodDeleteOperConfig == (DeleteOperConfig \/ CreateOperConfig) /\ UNCHANGED podVars

(* The annotation goes with the object that carries it.                    *)
PodDeleteClusterOperator ==
  /\ DeleteClusterOperator
  /\ lastSeen' = [install |-> "absent", states |-> NoEntries]
  /\ clock' = NoEntries
  /\ UNCHANGED <<operands, installComplete, pending, overdue>>

--------------------------------------------------------------------------------
(* A new cluster, or one installed and left by an older release whose      *)
(* operands are all in some state it left them in.                         *)
InitNewCluster ==
  /\ api = InitApi
  /\ operands = [o \in Operands |-> NoOperand]
  /\ lastSeen = [install |-> "absent", states |-> NoEntries]
  /\ pending = FALSE

InitLegacyCluster ==
  /\ LET healthy == [t \in Types |-> IF t = "Available" THEN CondTrue ELSE CondFalse]
     IN  api = [InitApi EXCEPT !.oper = healthy, !.co = healthy, !.versions = 0, !.release = 1]
  /\ \E s \in [Operands -> UNION {Statuses[o] : o \in Operands}] :
       /\ \A o \in Operands : s[o] \in Statuses[o]
       /\ operands = [o \in Operands |->
                        [NoOperand EXCEPT !.exists = TRUE, !.version = 0,
                                          !.status = [s[o] EXCEPT !.observed = 0]]]
  /\ lastSeen = [install |-> "legacy", states |-> NoEntries]
  /\ pending = TRUE

PodInit ==
  /\ InitStatus
  /\ InitNewCluster \/ InitLegacyCluster
  /\ installComplete = FALSE
  /\ clock = NoEntries
  /\ overdue = FALSE

Operate ==
  \/ \E c \in Calls : SetFromPods(c)
  \/ PodPanic
  \/ PodRestart
  \/ Upgrade

Surroundings ==
  \/ \E o \in Operands : \/ CreateOperand(o) \/ UpdateOperand(o)
                         \/ StatusChange(o) \/ DeleteOperand(o) \/ PodCrash(o)
  \/ PodTick
  \/ PodDeleteOperConfig
  \/ PodDeleteClusterOperator

PodNext == Operate \/ Surroundings

PodSpec == PodInit /\ [][PodNext]_vars

(* The watcher serves its queue, and time passes.  A request is all that   *)
(* SetFromPods waits for, so this is its weak fairness.                    *)
PodFairness ==
  /\ []<>~pending \/ []<><<\E c \in Calls : SetFromPods(c)>>_vars
  /\ WF_vars(PodTick)
PodFairSpec == PodSpec /\ PodFairness

--------------------------------------------------------------------------------
(* Properties.                                                             *)

(* The ClusterOperator never reports a version that one of the operands in *)
(* the cluster has not been given yet: across upgrades, restarts, lost     *)
(* writes and operands that come and go (SetFromPods, reachedAvailableLevel*)
(* and set).                                                               *)
VersionNotAhead == \A o \in Live : api.versions <= operands[o].version

(* Once the ClusterOperator says Available=True it goes on saying so, also *)
(* when network.operator is deleted and comes back without conditions      *)
(* while an operand is rolling out: set() seeds it from the ClusterOperator*)
(* before it would report that the network is starting up.                 *)
AvailableKept ==
  [][api.co["Available"] = CondTrue /\ api'.coExists
       => api'.co["Available"] = CondTrue]_vars

(* SetFromPods reports RolloutHung exactly when a critical operand has     *)
(* been seen rolling out with one and the same status for longer than      *)
(* ProgressTimeout, however often the operator restarted in the meantime.  *)
HungExact == failing[RolloutHung] = "Degraded" <=> overdue

(* Once the ClusterOperator records that the installation is complete, or  *)
(* shows it in a legacy annotation, a later process cannot lose that: pods *)
(* missing after a reboot are never taken for a roll-out again             *)
(* (installCompleteFromLastPodState).                                      *)
Installed ==
  lastSeen.install = "true" \/ (lastSeen.install = "legacy" /\ api.co["Available"] = CondTrue)
BootstrapNotReentered ==
  [][Installed /\ api'.coExists => Installed']_vars

(* An operand that stays in the middle of a roll-out without any change is *)
(* reported as hung, if the two objects that are written stay in place     *)
(* (docs/operands.md).                                                     *)
HungEventuallyReported ==
  \A o \in Critical :
    (/\ <>[](operands[o].exists /\ Updating(operands[o].status))
     /\ <>[][operands'[o].status = operands[o].status]_vars
     /\ <>[](api.operExists /\ api.coExists))
    => <>(failing[RolloutHung] = "Degraded")
================================================================================
