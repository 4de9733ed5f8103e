----------------------------- MODULE Observability -----------------------------
(***************************************************************************)
(* The controller that installs the Network Observability operator once    *)
(* and then leaves it alone.  Its memory is the condition                  *)
(* NetworkObservabilityInstalledByCNO of network.operator: the reason says *)
(* how far the installation is, the transition time is the clock of its    *)
(* timeouts.                                                               *)
(*                                                                         *)
(* A reconciliation is a sequence of API calls, each of which may fail; a  *)
(* failed reconciliation is repeated after a while.  A crash between two   *)
(* calls looks the same: only the API objects outlive either.              *)
(***************************************************************************)
EXTENDS Integers, Sequences, Functions

CONSTANTS
  installTimeout,            \* 20 minutes, in ticks
  clusterAvailableTimeout,   \* 90 minutes, in ticks
  MaxObFaults,               \* bound on failed calls and restarts
  MaxObEdits                 \* bound on what users and the cluster change

ASSUME TimeoutsAssumption ==
  /\ installTimeout \in Nat /\ clusterAvailableTimeout \in Nat
  /\ installTimeout < clusterAvailableTimeout

ASSUME ObBoundsAssumption == MaxObFaults \in Nat /\ MaxObEdits \in Nat

VARIABLES
  obPc,      \* the next call of the reconciliation, "idle" between two
  obDue,     \* a request is queued or will be after a while
  obMark,    \* the applied Namespace carries the created-by-cno annotation
  obVerdict, \* terminal reason of the running rollback
  obCond,    \* the condition: its reason and the age of its transition
  obWorld,   \* what the controller reads and writes, see ObWorld
  obRaced,   \* the namespace was created between the look at it and the apply
  obLeft     \* faults and edits left

obVars == <<obPc, obDue, obMark, obVerdict, obCond, obWorld, obRaced, obLeft>>

installFailureReasons == {"ClusterNotAvailable", "OperatorInstallFailed", "FlowCollectorCreateFailed"}
terminalReasons == {"Installed", "PreExisting"} \cup installFailureReasons
applyingReasons == {"InstallingOperator", "OperatorApplyFailed", "CreatingFlowCollector",
                    "FlowCollectorApplyFailed", "RollbackFailed"}
installAttemptReasons == {"WaitingForCluster"} \cup applyingReasons
openReasons == {"FeatureGateDisabled", "NoAction", "SNO"}
Reasons == {"none"} \cup openReasons \cup installAttemptReasons \cup terminalReasons

(* `ns` says who created the operator's namespace, `marked` is the         *)
(* annotation of it; group, sub and csv are the resources in it.  `ours`   *)
(* tells a CRD that came from the Subscription CNO applied.                *)
Policies == {"unset", "InstallAndEnable", "NoAction"}
ObWorld == [gate : BOOLEAN, policy : Policies, sno : BOOLEAN,
            available : BOOLEAN, availableAge : 0 .. installTimeout + 1,
            ns : {"absent", "user", "cno"}, marked : BOOLEAN,
            group : BOOLEAN, sub : BOOLEAN, csv : BOOLEAN,
            crd : BOOLEAN, ours : BOOLEAN, collector : BOOLEAN]

applySteps == <<"Namespace", "OperatorGroup", "Subscription">>
teardownSteps == <<"DeleteSubscription", "DeleteOperatorGroup", "DeleteCSVs", "DeleteNamespace">>
ObSteps == {"idle", "timeout", "check", "mark", "Namespace", "OperatorGroup", "Subscription",
            "collector", "FlowCollector", "installed",
            "DeleteSubscription", "DeleteOperatorGroup", "DeleteCSVs", "DeleteNamespace", "latch"}

--------------------------------------------------------------------------------
(* The condition                                                           *)

(* The transition time is set when the status changes, and when an attempt *)
(* starts from a reason that is not one.                                   *)
SetCondition(c, reason) ==
  LET starts == reason \in installAttemptReasons /\ c.reason \notin installAttemptReasons
      changes == c.reason = "none" \/ (reason = "Installed") # (c.reason = "Installed")
  IN  [reason |-> reason, age |-> IF starts \/ changes THEN 0 ELSE c.age]

setNetworkObservabilityCondition(reason) == obCond' = SetCondition(obCond, reason)

(* A written condition is an event for the controller that wrote it.       *)
Return == obPc' = "idle" /\ obDue' = (obCond' # obCond)
Requeue == obPc' = "idle" /\ obDue' = TRUE
Continue(step) == obPc' = step /\ UNCHANGED obDue

--------------------------------------------------------------------------------
(* Reconcile                                                               *)

(* What shouldInstallAndSetCondition answers: to install, to stop as it    *)
(* is, or to stop with a reason.                                           *)
shouldInstall(reason, w) ==
  IF reason \in terminalReasons THEN "stop"
  ELSE IF reason \in applyingReasons THEN "install"
  ELSE IF ~w.gate THEN "FeatureGateDisabled"
  ELSE IF w.policy = "NoAction" THEN "NoAction"
  ELSE IF w.crd THEN "PreExisting"
  ELSE IF w.policy = "InstallAndEnable" THEN "install"
  ELSE IF reason = "SNO" THEN "stop"
  ELSE IF w.sno THEN "SNO"
  ELSE "install"

ObDecide ==
  /\ obPc = "idle" /\ obDue
  /\ LET answer == shouldInstall(obCond.reason, obWorld)
     IN  CASE answer = "install" -> Continue("timeout") /\ UNCHANGED obCond
           [] answer = "stop" -> UNCHANGED obCond /\ Return
           [] OTHER -> setNetworkObservabilityCondition(answer) /\ Return
  /\ UNCHANGED <<obMark, obVerdict, obWorld, obRaced, obLeft>>

(* ClusterVersion is read once more by every step that asks for it; a      *)
(* failed read counts as not available.                                    *)
ReadAvailable(seen) ==
  \/ seen = obWorld.available /\ UNCHANGED obLeft
  \/ ~seen /\ obWorld.available /\ obLeft.faults > 0 /\ obLeft' = [obLeft EXCEPT !.faults = @ - 1]

\* Mutant: an installation that waits for the cluster is never abandoned.
Bug_NoBackstop(c, w, seen) ==
  \/ c.reason \in installFailureReasons
  \/ /\ c.reason \in installAttemptReasons
     /\ seen /\ c.age > installTimeout /\ w.availableAge > installTimeout

(* The later of two starts has the smaller age.                            *)
hasInstallTimedOut(c, w, seen) ==
  \/ c.reason \in installFailureReasons
  \/ /\ c.reason \in installAttemptReasons
     /\ \/ c.age > clusterAvailableTimeout
        \/ seen /\ c.age > installTimeout /\ w.availableAge > installTimeout

installFailure(w, seen) ==
  IF ~seen THEN "ClusterNotAvailable"
  ELSE IF w.crd THEN "FlowCollectorCreateFailed" ELSE "OperatorInstallFailed"

ObCheckTimeout ==
  /\ obPc = "timeout"
  /\ \E seen \in BOOLEAN :
       /\ ReadAvailable(seen)
       /\ IF hasInstallTimedOut(obCond, obWorld, seen)
            THEN Continue(teardownSteps[1]) /\ obVerdict' = installFailure(obWorld, seen)
            ELSE Continue("check") /\ UNCHANGED obVerdict
  /\ UNCHANGED <<obMark, obCond, obWorld, obRaced>>

ObCheckInstalled ==
  /\ obPc = "check"
  /\ \/ obWorld.crd /\ Continue("collector") /\ UNCHANGED <<obCond, obLeft>>
     \/ /\ ~obWorld.crd
        /\ \E seen \in BOOLEAN :
             /\ ReadAvailable(seen)
             /\ IF seen
                  THEN setNetworkObservabilityCondition("InstallingOperator") /\ Continue("mark")
                  ELSE setNetworkObservabilityCondition("WaitingForCluster") /\ Requeue
  /\ UNCHANGED <<obMark, obVerdict, obWorld, obRaced>>

\* Mutant: every namespace that is applied is marked.
Bug_MarkAlways(w) == TRUE

(* A namespace that is not there, or already is CNO's.                     *)
IsCNOOwned(w) == w.ns = "absent" \/ w.marked

(* If the namespace cannot be read it is not claimed.                      *)
markNamespaceIfCNOOwned ==
  /\ obPc = "mark"
  /\ \/ obMark' = IsCNOOwned(obWorld) /\ UNCHANGED obLeft
     \/ /\ obMark' = FALSE
        /\ obLeft.faults > 0 /\ obLeft' = [obLeft EXCEPT !.faults = @ - 1]
  /\ Continue(applySteps[1])
  /\ UNCHANGED <<obVerdict, obCond, obWorld, obRaced>>

(* Server-side apply: an annotation that is not applied again goes away,   *)
(* and nothing can be applied into a namespace that is not there.          *)
Applied(w, step) ==
  CASE step = "Namespace" -> [w EXCEPT !.ns = IF @ = "absent" THEN "cno" ELSE @, !.marked = obMark]
    [] step = "OperatorGroup" -> [w EXCEPT !.group = TRUE]
    [] step = "Subscription" -> [w EXCEPT !.sub = TRUE]

installNetObservOperator ==
  \E i \in DOMAIN applySteps :
    /\ obPc = applySteps[i]
    /\ i > 1 => obWorld.ns # "absent"
    /\ obWorld' = Applied(obWorld, obPc)
    /\ IF i = Len(applySteps) THEN Requeue ELSE Continue(applySteps[i + 1])
    /\ UNCHANGED <<obMark, obVerdict, obCond, obRaced, obLeft>>

ObCheckCollector ==
  /\ obPc = "collector"
  /\ IF obWorld.collector THEN Continue("installed") /\ UNCHANGED obCond
     ELSE setNetworkObservabilityCondition("CreatingFlowCollector") /\ Continue("FlowCollector")
  /\ UNCHANGED <<obMark, obVerdict, obWorld, obRaced, obLeft>>

ObApplyCollector ==
  /\ obPc = "FlowCollector"
  /\ obWorld' = [obWorld EXCEPT !.collector = TRUE]
  /\ Continue("installed")
  /\ UNCHANGED <<obMark, obVerdict, obCond, obRaced, obLeft>>

ObInstalled ==
  /\ obPc = "installed"
  /\ setNetworkObservabilityCondition("Installed") /\ Return
  /\ UNCHANGED <<obMark, obVerdict, obWorld, obRaced, obLeft>>

(* Deleting a namespace deletes what is in it.                             *)
WithoutNamespace(w) ==
  [w EXCEPT !.ns = "absent", !.marked = FALSE, !.group = FALSE, !.sub = FALSE, !.csv = FALSE]

TornDown(w, step) ==
  CASE step = "DeleteSubscription" -> [w EXCEPT !.sub = FALSE]
    [] step = "DeleteOperatorGroup" -> [w EXCEPT !.group = FALSE]
    [] step = "DeleteCSVs" -> [w EXCEPT !.csv = FALSE]
    [] step = "DeleteNamespace" -> IF w.marked THEN WithoutNamespace(w) ELSE w

teardownNetObservOperator ==
  \E i \in DOMAIN teardownSteps :
    /\ obPc = teardownSteps[i]
    /\ obWorld' = TornDown(obWorld, obPc)
    /\ Continue(IF i = Len(teardownSteps) THEN "latch" ELSE teardownSteps[i + 1])
    /\ UNCHANGED <<obMark, obVerdict, obCond, obRaced, obLeft>>

ObLatchFailure ==
  /\ obPc = "latch"
  /\ setNetworkObservabilityCondition(obVerdict) /\ Return
  /\ UNCHANGED <<obMark, obVerdict, obWorld, obRaced, obLeft>>

(* A call fails: the reason that reports it is written, or cannot be.      *)
FailureReason ==
  CASE obPc \in Range(applySteps) -> "OperatorApplyFailed"
    [] obPc = "FlowCollector" -> "FlowCollectorApplyFailed"
    [] obPc \in Range(teardownSteps) -> "RollbackFailed"
    [] OTHER -> obCond.reason

ObFault == obLeft.faults > 0 /\ obLeft' = [obLeft EXCEPT !.faults = @ - 1]

ObCallFails ==
  /\ obPc # "idle" /\ Requeue
  /\ obCond' = SetCondition(obCond, FailureReason) \/ UNCHANGED obCond
  /\ ObFault
  /\ UNCHANGED <<obMark, obVerdict, obWorld, obRaced>>

(* The namespace has been deleted under the installation.                  *)
ObApplyRejected ==
  /\ obPc \in {"OperatorGroup", "Subscription"} /\ obWorld.ns = "absent"
  /\ setNetworkObservabilityCondition("OperatorApplyFailed") /\ Requeue
  /\ UNCHANGED <<obMark, obVerdict, obWorld, obRaced, obLeft>>

ObReconcile ==
  \/ ObDecide \/ ObCheckTimeout \/ ObCheckInstalled \/ markNamespaceIfCNOOwned
  \/ installNetObservOperator \/ ObApplyRejected
  \/ ObCheckCollector \/ ObApplyCollector \/ ObInstalled
  \/ teardownNetObservOperator \/ ObLatchFailure

--------------------------------------------------------------------------------
(* Environment                                                             *)

ObOlder(age, timeout) == IF age <= timeout THEN age + 1 ELSE age

ObTick ==
  /\ obCond' = [obCond EXCEPT !.age = IF obCond.reason = "none" THEN 0
                                      ELSE ObOlder(@, clusterAvailableTimeout)]
  /\ obWorld' = [obWorld EXCEPT !.availableAge = ObOlder(@, installTimeout)]
  /\ UNCHANGED <<obPc, obDue, obMark, obVerdict, obRaced, obLeft>>

(* The operator lifecycle manager installs what a Subscription asks for.   *)
OlmInstalls ==
  /\ \/ obWorld.sub /\ ~obWorld.csv /\ obWorld' = [obWorld EXCEPT !.csv = TRUE]
     \/ obWorld.csv /\ ~obWorld.crd /\ obWorld' = [obWorld EXCEPT !.crd = TRUE, !.ours = TRUE]
  /\ UNCHANGED <<obPc, obDue, obMark, obVerdict, obCond, obRaced, obLeft>>

ObEdit == obLeft.edits > 0 /\ obLeft' = [obLeft EXCEPT !.edits = @ - 1]

EditPolicy ==
  /\ ObEdit
  /\ \E p \in Policies \ {obWorld.policy} : obWorld' = [obWorld EXCEPT !.policy = p]
  /\ obDue' = TRUE
  /\ UNCHANGED <<obPc, obMark, obVerdict, obCond, obRaced>>

(* Another feature gate restarts the operator.                             *)
EditGate ==
  /\ ObEdit
  /\ obWorld' = [obWorld EXCEPT !.gate = ~@]
  /\ obPc' = "idle" /\ obDue' = TRUE
  /\ UNCHANGED <<obMark, obVerdict, obCond, obRaced>>

ClusterChanges ==
  /\ ObEdit
  /\ \/ obWorld' = [obWorld EXCEPT !.available = ~@, !.availableAge = 0]
     \/ obWorld' = [obWorld EXCEPT !.sno = ~@]
  /\ UNCHANGED <<obPc, obDue, obMark, obVerdict, obCond, obRaced>>

(* A user creates the namespace or installs the operator.                  *)
UserInstalls ==
  /\ ObEdit
  /\ \/ /\ obWorld.ns = "absent" /\ obWorld' = [obWorld EXCEPT !.ns = "user"]
        /\ obRaced' = (obPc = "Namespace" /\ obMark)
     \/ /\ ~obWorld.crd /\ obWorld' = [obWorld EXCEPT !.crd = TRUE]
        /\ UNCHANGED obRaced
  /\ UNCHANGED <<obPc, obDue, obMark, obVerdict, obCond>>

UserDeletesNamespace ==
  /\ ObEdit
  /\ obWorld.ns = "cno" /\ obWorld' = WithoutNamespace(obWorld)
  /\ UNCHANGED <<obPc, obDue, obMark, obVerdict, obCond, obRaced>>

ObInit ==
  /\ obPc = "idle" /\ obDue = TRUE /\ obMark = FALSE /\ obVerdict = "none"
  /\ obCond = [reason |-> "none", age |-> 0]
  /\ obWorld \in [gate : {TRUE}, policy : {"unset"}, sno : BOOLEAN,
                  available : BOOLEAN, availableAge : {0},
                  ns : {"absent", "user"}, marked : {FALSE},
                  group : {FALSE}, sub : {FALSE}, csv : {FALSE},
                  crd : {FALSE}, ours : {FALSE}, collector : {FALSE}]
  /\ obRaced = FALSE
  /\ obLeft = [faults |-> MaxObFaults, edits |-> MaxObEdits]

ObNext ==
  \/ ObReconcile \/ ObCallFails \/ ObTick \/ OlmInstalls
  \/ EditPolicy \/ EditGate \/ ClusterChanges \/ UserInstalls \/ UserDeletesNamespace

(* Requests are requeued and time passes; the lifecycle manager may hang.  *)
ObFairness == WF_obVars(ObReconcile) /\ WF_obVars(ObTick)

ObSpec == ObInit /\ [][ObNext]_obVars
ObFairSpec == ObSpec /\ ObFairness

--------------------------------------------------------------------------------
ObTypeOK ==
  /\ obPc \in ObSteps /\ obDue \in BOOLEAN /\ obMark \in BOOLEAN /\ obRaced \in BOOLEAN
  /\ obVerdict \in {"none"} \cup installFailureReasons
  /\ obCond \in [reason : Reasons, age : 0 .. clusterAvailableTimeout + 1]
  /\ obWorld \in ObWorld
  /\ obLeft \in [faults : 0 .. MaxObFaults, edits : 0 .. MaxObEdits]

RollbackStep ==
  /\ obWorld.ns = "user" /\ ~obRaced => obWorld'.ns = "user"
  /\ obCond.reason \notin installFailureReasons /\ obCond'.reason \in installFailureReasons
       => /\ ~obWorld'.sub /\ ~obWorld'.group /\ ~obWorld'.csv
          /\ obWorld'.ns = "cno" => ~obWorld'.marked

(* A rollback, however often it is repeated, never deletes a namespace     *)
(* that somebody else created (unless it appeared between the look at it   *)
(* and the apply), and a failure becomes final only when nothing that CNO  *)
(* installed and still knows as its own is left                            *)
(* (markNamespaceIfCNOOwned, teardownNetObservOperator).                   *)
RollbackExact == [][RollbackStep]_obVars

(* An installation that has begun does not stay under way: it ends as      *)
(* installed, abandoned or, while it still waits for the cluster, as not   *)
(* wanted any more, even if the operator never comes up, the cluster never *)
(* becomes available or the rollback has to be repeated                    *)
(* (hasInstallTimedOut, handleInstallTimeout).                             *)
Concludes == obCond.reason \in installAttemptReasons ~> obCond.reason \in terminalReasons \cup openReasons

OwnCRDStep ==
  obWorld.ours => ~(obCond.reason # "PreExisting" /\ obCond'.reason = "PreExisting")

(* A CRD that came from the Subscription CNO applied is never reported as  *)
(* installed by somebody else (shouldInstallAndSetCondition).              *)
OwnCRDNotPreExisting == [][OwnCRDStep]_obVars
================================================================================
