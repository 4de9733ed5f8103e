---------------------------- MODULE PodStatusProofs ----------------------------
(***************************************************************************)
(* Machine-checked proofs about PodStatus, for any operands, statuses,     *)
(* timeout and releases.  One SetFromPods is a chain of up to five calls   *)
(* of set(); the lemmas follow what each link does to the three API        *)
(* objects and to the slots.                                               *)
(*                                                                         *)
(* What needs the API calls to succeed says which of them: the definitions *)
(* SeedReadable, AvailableLands, AnnotationRead and AnnotationWritten.     *)
(***************************************************************************)
EXTENDS PodStatus, StatusManagerProofs

--------------------------------------------------------------------------------
(* One set()                                                               *)

SetResult(a, b, reached, type, cond, o) ==
  /\ b \in Api /\ b.release = a.release /\ b.operExists = a.operExists
  /\ b.oper = IF OperRead(a, o) /\ o.apply THEN OperStatus(a, type, cond, o) ELSE a.oper
  /\ ~o.writeCO => b.co = a.co /\ b.coExists = a.coExists /\ b.versions = a.versions
  /\ o.writeCO => b.coExists
  /\ o.writeCO /\ ~a.coExists => b.co = NoConditions /\ b.versions = NoVersion
  /\ o.writeCO /\ a.coExists /\ ~OperRead(a, o) =>
       b.co["Available"] = a.co["Available"] /\ b.versions = a.versions
  /\ o.writeCO /\ a.coExists /\ OperRead(a, o) =>
       /\ b.co = Overlay(OperStatus(a, type, cond, o), a.co)
       /\ b.versions = IF reached THEN a.release ELSE a.versions

LEMMA SetFields ==
  ASSUME NEW a \in Api, NEW reached \in BOOLEAN, NEW type \in Types,
         NEW cond \in Condition, NEW o \in Outcome, NEW b, b = Set(a, reached, type, cond, o)
  PROVE  SetResult(a, b, reached, type, cond, o)
  <1> DEFINE os == OperStatus(a, type, cond, o)
             afterCO == SetClusterOperator(a, reached, os, o)
             afterHCP == SetHostedControlPlane(afterCO, OperRead(a, o), os, o)
  <1>1. b = IF OperRead(a, o) /\ o.apply THEN [afterHCP EXCEPT !.oper = os] ELSE afterHCP
    BY DEF Set
  <1>2. os \in [Types -> Condition] /\ b \in Api
    BY OperStatusType, SetType
  <1> HIDE DEF os
  <1>3. afterCO \in Api
    BY <1>2, SetClusterOperatorType
  <1>4. /\ afterCO.release = a.release /\ afterCO.operExists = a.operExists /\ afterCO.oper = a.oper
        /\ ~o.writeCO => /\ afterCO.co = a.co /\ afterCO.coExists = a.coExists
                         /\ afterCO.versions = a.versions
        /\ o.writeCO => afterCO.coExists
        /\ o.writeCO /\ ~a.coExists => afterCO.co = NoConditions /\ afterCO.versions = NoVersion
        /\ o.writeCO /\ a.coExists /\ OperRead(a, o) =>
             /\ afterCO.co = Overlay(os, a.co)
             /\ afterCO.versions = IF reached THEN a.release ELSE a.versions
    BY DEF SetClusterOperator, Api
  <1>5. o.writeCO /\ a.coExists /\ ~OperRead(a, o) =>
          afterCO.co["Available"] = a.co["Available"] /\ afterCO.versions = a.versions
    BY DEF SetClusterOperator, Api, Types
  <1> HIDE DEF afterCO
  <1>6. /\ afterHCP \in Api /\ afterHCP.release = afterCO.release
        /\ afterHCP.operExists = afterCO.operExists /\ afterHCP.oper = afterCO.oper
        /\ afterHCP.co = afterCO.co /\ afterHCP.coExists = afterCO.coExists
        /\ afterHCP.versions = afterCO.versions
    <2>1. afterHCP \in Api
      BY <1>2, <1>3, SetHostedControlPlaneType
    <2> QED
      BY <1>3, <2>1 DEF SetHostedControlPlane, Api
  <1> HIDE DEF afterHCP
  <1>7. /\ b.release = afterHCP.release /\ b.operExists = afterHCP.operExists
        /\ b.oper = (IF OperRead(a, o) /\ o.apply THEN os ELSE afterHCP.oper)
        /\ b.co = afterHCP.co /\ b.coExists = afterHCP.coExists /\ b.versions = afterHCP.versions
    BY <1>1, <1>2, <1>6 DEF Api
  <1> QED
    BY <1>2, <1>4, <1>5, <1>6, <1>7 DEF os, SetResult

(* The version is left alone, unless it is the release that is reported.   *)
VersionStep(a, b) == b.release = a.release /\ b.versions \in {a.versions, NoVersion}

LEMMA SetVersion ==
  ASSUME NEW a, NEW b, NEW reached \in BOOLEAN, NEW type, NEW cond, NEW o,
         SetResult(a, b, reached, type, cond, o)
  PROVE  /\ b.release = a.release /\ b.versions \in {a.versions, NoVersion, a.release}
         /\ ~reached => VersionStep(a, b)
         /\ a.coExists => b.coExists
  BY DEF VersionStep, SetResult

(* network.operator says nothing about Available, or the same, when the    *)
(* ClusterOperator says True.                                              *)
AvailableAgrees(a) ==
  a.co["Available"] = CondTrue => a.coExists /\ a.oper["Available"] \in {CondTrue, Unset}

AvailableStep(a, b) == a.co["Available"] = CondTrue => b.co["Available"] = CondTrue

LEMMA AvailableComputed ==
  ASSUME NEW a \in Api, NEW type \in Reported, NEW cond \in Condition, NEW o \in Outcome, o.readCO
  PROVE  /\ a.oper["Available"] # Unset =>
              OperStatus(a, type, cond, o)["Available"] = a.oper["Available"]
         /\ a.oper["Available"] = Unset /\ a.coExists =>
              OperStatus(a, type, cond, o)["Available"] \in
                IF a.co["Available"] = Unset THEN {Unset, CondFalse} ELSE {a.co["Available"]}
  <1>1. /\ "Available" \in Types /\ "Available" # type /\ type \in Types
        /\ a.oper \in [Types -> Condition] /\ a.co \in [Types -> Condition]
    BY DEF Reported, Types, Api
  <1> DEFINE w == [Seeded(a, o) EXCEPT ![type] = cond]
  <1>2. Seeded(a, o) \in [Types -> Condition]
    BY <1>1, OverlayType DEF Seeded
  <1>3. w \in [Types -> Condition] /\ w["Available"] = Seeded(a, o)["Available"]
    BY <1>1, <1>2
  <1>4. OperStatus(a, type, cond, o) = IF w["Available"] = Unset /\ w["Progressing"].status = "True"
                                       THEN [w EXCEPT !["Available"] = CondFalse] ELSE w
    BY DEF OperStatus
  <1> HIDE DEF w
  <1>5. OperStatus(a, type, cond, o)["Available"] \in
          IF w["Available"] = Unset THEN {Unset, CondFalse} ELSE {w["Available"]}
    BY <1>1, <1>3, <1>4
  <1>6. CASE a.oper["Available"] # Unset
    <2>1. Seeded(a, o) = a.oper
      BY <1>6 DEF Seeded
    <2> QED
      BY <1>3, <1>5, <1>6, <2>1
  <1>7. CASE a.oper["Available"] = Unset /\ a.coExists
    <2>1. Seeded(a, o)["Available"] = a.co["Available"]
      BY <1>1, <1>7 DEF Seeded, Overlay
    <2> QED
      BY <1>3, <1>5, <1>7, <2>1
  <1> QED
    BY <1>6, <1>7

LEMMA Conditions3 == CondTrue # Unset /\ CondTrue # CondFalse /\ CondTrue \in Condition /\ Unset \in Condition
  BY DEF CondTrue, CondFalse, Unset, Condition

(* Degraded and Progressing are published with Available as it was.        *)
LEMMA SetKeepsAvailable ==
  ASSUME NEW a \in Api, NEW type \in Reported, NEW cond \in Condition, NEW o \in Outcome,
         o.readCO, AvailableAgrees(a), NEW b, SetResult(a, b, FALSE, type, cond, o)
  PROVE  AvailableAgrees(b) /\ AvailableStep(a, b)
  <1>1. "Available" \in Types /\ type \in Types
        /\ a.oper \in [Types -> Condition] /\ a.co \in [Types -> Condition]
    BY DEF Types, Reported, Api
  <1> DEFINE os == OperStatus(a, type, cond, o)
  <1>2. /\ a.oper["Available"] # Unset => os["Available"] = a.oper["Available"]
        /\ a.oper["Available"] = Unset /\ a.coExists =>
             os["Available"] \in IF a.co["Available"] = Unset THEN {Unset, CondFalse} ELSE {a.co["Available"]}
    BY AvailableComputed
  <1>3. /\ b.oper = IF OperRead(a, o) /\ o.apply THEN os ELSE a.oper
        /\ ~o.writeCO => b.co = a.co /\ b.coExists = a.coExists
        /\ o.writeCO => b.coExists
        /\ o.writeCO /\ ~a.coExists => b.co = NoConditions
        /\ o.writeCO /\ a.coExists /\ ~OperRead(a, o) => b.co["Available"] = a.co["Available"]
        /\ o.writeCO /\ a.coExists /\ OperRead(a, o) => b.co = Overlay(os, a.co)
    BY DEF SetResult
  <1> HIDE DEF os
  <1>4. CASE ~o.writeCO
    BY <1>2, <1>3, <1>4, Conditions3 DEF AvailableAgrees, AvailableStep
  <1>5. CASE o.writeCO /\ ~a.coExists
    <2>1. b.co["Available"] = Unset
      BY <1>1, <1>3, <1>5 DEF NoConditions
    <2> QED
      BY <1>5, <2>1, Conditions3 DEF AvailableAgrees, AvailableStep
  <1>6. CASE o.writeCO /\ a.coExists /\ ~OperRead(a, o)
    BY <1>3, <1>6 DEF AvailableAgrees, AvailableStep
  <1>7. CASE o.writeCO /\ a.coExists /\ OperRead(a, o)
    <2>1. b.co["Available"] = IF os["Available"] = Unset THEN a.co["Available"] ELSE os["Available"]
      BY <1>1, <1>3, <1>7 DEF Overlay
    <2>2. b.oper["Available"] \in {os["Available"], a.oper["Available"]}
      BY <1>3
    <2> QED
      BY <1>2, <1>3, <1>7, <2>1, <2>2, Conditions3 DEF AvailableAgrees, AvailableStep
  <1> QED
    BY <1>4, <1>5, <1>6, <1>7

(* One that finds network.operator repairs the agreement of the two.       *)
LEMMA SetRepairsAvailable ==
  ASSUME NEW a \in Api, NEW type \in Reported, NEW cond \in Condition, NEW o \in Outcome,
         o.readCO, OperRead(a, o), o.writeCO, NEW b, SetResult(a, b, FALSE, type, cond, o)
  PROVE  AvailableAgrees(b)
  <1>1. "Available" \in Types /\ type \in Types
        /\ a.oper \in [Types -> Condition] /\ a.co \in [Types -> Condition]
    BY DEF Types, Reported, Api
  <1> DEFINE os == OperStatus(a, type, cond, o)
  <1>2. /\ a.oper["Available"] # Unset => os["Available"] = a.oper["Available"]
        /\ a.oper["Available"] = Unset /\ a.coExists =>
             os["Available"] \in IF a.co["Available"] = Unset THEN {Unset, CondFalse} ELSE {a.co["Available"]}
    BY AvailableComputed
  <1>3. /\ b.oper = (IF o.apply THEN os ELSE a.oper) /\ b.coExists
        /\ ~a.coExists => b.co = NoConditions
        /\ a.coExists => b.co = Overlay(os, a.co)
    BY DEF SetResult
  <1> HIDE DEF os
  <1>4. CASE ~a.coExists
    <2>1. b.co["Available"] = Unset
      BY <1>1, <1>3, <1>4 DEF NoConditions
    <2> QED
      BY <2>1, Conditions3 DEF AvailableAgrees
  <1>5. CASE a.coExists
    <2>1. b.co["Available"] = IF os["Available"] = Unset THEN a.co["Available"] ELSE os["Available"]
      BY <1>1, <1>3, <1>5 DEF Overlay
    <2>2. b.oper["Available"] \in {os["Available"], a.oper["Available"]}
      BY <1>3
    <2> QED
      BY <1>2, <1>3, <1>5, <2>1, <2>2, Conditions3 DEF AvailableAgrees
  <1> QED
    BY <1>4, <1>5

(* Available=True itself is published; if only the ClusterOperator got it, *)
(* the two may disagree until the next set().                              *)
LEMMA SetAvailable ==
  ASSUME NEW a \in Api, NEW o \in Outcome, AvailableAgrees(a),
         NEW b, SetResult(a, b, TRUE, "Available", CondTrue, o)
  PROVE  /\ AvailableStep(a, b)
         /\ AvailableAgrees(b) \/ (~o.apply /\ o.writeCO /\ OperRead(a, o) /\ b.operExists)
         /\ a.co["Available"] = CondTrue => AvailableAgrees(b)
  <1>1. "Available" \in Types /\ a.oper \in [Types -> Condition] /\ a.co \in [Types -> Condition]
    BY DEF Types, Api
  <1> DEFINE os == OperStatus(a, "Available", CondTrue, o)
  <1>2. os["Available"] = CondTrue
    <2>1. Seeded(a, o) \in [Types -> Condition]
      BY <1>1, OverlayType DEF Seeded
    <2> QED
      BY <1>1, <2>1, Conditions3 DEF OperStatus
  <1>3. /\ b.oper = (IF OperRead(a, o) /\ o.apply THEN os ELSE a.oper) /\ b.operExists = a.operExists
        /\ ~o.writeCO => b.co = a.co /\ b.coExists = a.coExists
        /\ o.writeCO => b.coExists
        /\ o.writeCO /\ ~a.coExists => b.co = NoConditions
        /\ o.writeCO /\ a.coExists /\ ~OperRead(a, o) => b.co["Available"] = a.co["Available"]
        /\ o.writeCO /\ a.coExists /\ OperRead(a, o) => b.co = Overlay(os, a.co)
    BY DEF SetResult
  <1> HIDE DEF os
  <1>4. CASE ~o.writeCO
    BY <1>2, <1>3, <1>4, Conditions3 DEF AvailableAgrees, AvailableStep
  <1>5. CASE o.writeCO /\ ~a.coExists
    <2>1. b.co["Available"] = Unset
      BY <1>1, <1>3, <1>5 DEF NoConditions
    <2> QED
      BY <1>5, <2>1, Conditions3 DEF AvailableAgrees, AvailableStep
  <1>6. CASE o.writeCO /\ a.coExists /\ ~OperRead(a, o)
    BY <1>3, <1>6 DEF AvailableAgrees, AvailableStep
  <1>7. CASE o.writeCO /\ a.coExists /\ OperRead(a, o)
    <2>1. b.co["Available"] = CondTrue
      BY <1>1, <1>2, <1>3, <1>7, Conditions3 DEF Overlay
    <2>2. b.oper["Available"] = IF o.apply THEN CondTrue ELSE a.oper["Available"]
      BY <1>2, <1>3, <1>7
    <2>3. b.operExists
      BY <1>3, <1>7 DEF OperRead
    <2> QED
      BY <1>3, <1>7, <2>1, <2>2, <2>3 DEF AvailableAgrees, AvailableStep
  <1> QED
    BY <1>4, <1>5, <1>6, <1>7

--------------------------------------------------------------------------------
(* One method under the lock                                               *)

Memory == [slots : [Levels -> Slot], seen : [Levels -> {NotSeen} \cup 0 .. Threshold],
           api : Api, synced : [Reported -> BOOLEAN], mirrored : BOOLEAN]

Published(a, b, o) ==
  \E type \in Reported, cond \in Condition : SetResult(a, b, FALSE, type, cond, o)

(* What follows a call: the memory it leaves, and the objects as they were *)
(* or with one more condition published.                                   *)
Link(r, q, o) == q \in Memory /\ (q.api = r.api \/ Published(r.api, q.api, o))

LEMMA PublishingLink ==
  ASSUME NEW r \in Memory, NEW slots \in [Levels -> Slot],
         NEW seen \in [Levels -> {NotSeen} \cup 0 .. Threshold], NEW type \in Reported, NEW o \in Outcome,
         NEW q, q = Publishing(r, slots, seen, type, o)
  PROVE  /\ q \in Memory /\ Published(r.api, q.api, o)
         /\ q.slots = slots /\ q.seen = seen
  <1>1. r.api \in Api /\ r.synced \in [Reported -> BOOLEAN] /\ type \in Types /\ "Degraded" \in Reported
    BY DEF Memory, Reported, Types
  <1>2. /\ q.slots = slots /\ q.seen = seen /\ q.api = Publish(r.api, slots, type, o)
        /\ q.synced = Mark(r.synced, r.api, type, o) /\ q.mirrored = Mirrored(r.api, o)
        /\ q = [slots |-> q.slots, seen |-> q.seen, api |-> q.api, synced |-> q.synced, mirrored |-> q.mirrored]
    BY DEF Publishing
  <1>3. SetResult(r.api, q.api, FALSE, type, Sync(slots, type), o)
    BY <1>1, <1>2, SyncType, SetFields DEF Publish
  <1>4. q.api \in Api /\ Published(r.api, q.api, o)
    BY <1>3, SyncType DEF Published, SetResult
  <1>5. Landed(r.api, o) \in BOOLEAN /\ q.mirrored \in BOOLEAN
    BY <1>1, <1>2 DEF Mirrored, Landed, OperRead, Api, Outcome
  <1>6. q.synced \in [Reported -> BOOLEAN]
    BY <1>1, <1>2, <1>5 DEF Mark, Unmarked
  <1> QED
    BY <1>2, <1>4, <1>5, <1>6 DEF Memory

KeepsOtherSlots(r, q, l) == \A k \in Levels \ {l} : q.slots[k] = r.slots[k]

(* The five methods.                                                       *)
LEMMA MethodLinks ==
  ASSUME NEW r \in Memory, NEW l \in Levels, NEW o \in Outcome
  PROVE  /\ Link(r, setDegraded(r, l, o), o)
         /\ Published(r.api, setDegraded(r, l, o).api, o)
         /\ setDegraded(r, l, o).slots = [r.slots EXCEPT ![l] = "Degraded"]
         /\ Link(r, setNotDegraded(r, l, o), o)
         /\ Published(r.api, setNotDegraded(r, l, o).api, o)
         /\ setNotDegraded(r, l, o).slots = [r.slots EXCEPT ![l] = "none"]
         /\ Link(r, setProgressing(r, l, o), o) /\ Link(r, unsetProgressing(r, l, o), o)
         /\ Link(r, maybeSetDegraded(r, l, o), o)
         /\ KeepsOtherSlots(r, maybeSetDegraded(r, l, o), l)
  <1>1. /\ r.slots \in [Levels -> Slot] /\ r.seen \in [Levels -> {NotSeen} \cup 0 .. Threshold]
        /\ "Degraded" \in Reported /\ "Progressing" \in Reported /\ Threshold \in Nat
    BY ThresholdAssumption DEF Memory, Reported
  <1>2. /\ \A x \in Slot : [r.slots EXCEPT ![l] = x] \in [Levels -> Slot]
        /\ [r.seen EXCEPT ![l] = NotSeen] \in [Levels -> {NotSeen} \cup 0 .. Threshold]
        /\ [r.seen EXCEPT ![l] = 0] \in [Levels -> {NotSeen} \cup 0 .. Threshold]
        /\ {"none", "Degraded", "Progressing"} \subseteq Slot
    BY <1>1 DEF Slot
  <1>3. /\ Link(r, setDegraded(r, l, o), o) /\ Published(r.api, setDegraded(r, l, o).api, o)
        /\ setDegraded(r, l, o).slots = [r.slots EXCEPT ![l] = "Degraded"]
    BY <1>1, <1>2, PublishingLink DEF setDegraded, Link
  <1>4. /\ Link(r, setNotDegraded(r, l, o), o) /\ Published(r.api, setNotDegraded(r, l, o).api, o)
        /\ setNotDegraded(r, l, o).slots = [r.slots EXCEPT ![l] = "none"]
    BY <1>1, <1>2, PublishingLink DEF setNotDegraded, Link
  <1>5. Link(r, setProgressing(r, l, o), o) /\ Link(r, unsetProgressing(r, l, o), o)
    BY <1>1, <1>2, PublishingLink DEF setProgressing, unsetProgressing, Link
  <1>6. /\ Link(r, maybeSetDegraded(r, l, o), o)
        /\ KeepsOtherSlots(r, maybeSetDegraded(r, l, o), l)
    <2>1. CASE maybeSetDegraded(r, l, o) = setDegraded(r, l, o)
      BY <1>1, <1>3, <2>1 DEF KeepsOtherSlots
    <2>2. CASE maybeSetDegraded(r, l, o) = r
      BY <2>2 DEF Link, KeepsOtherSlots
    <2>3. CASE maybeSetDegraded(r, l, o) = [r EXCEPT !.seen = [r.seen EXCEPT ![l] = 0]]
      BY <1>2, <2>3 DEF Link, Memory, KeepsOtherSlots
    <2> QED
      BY <2>1, <2>2, <2>3 DEF maybeSetDegraded
  <1> QED
    BY <1>3, <1>4, <1>5, <1>6

(* The report of the version.                                              *)
LEMMA VersionLink ==
  ASSUME NEW r \in Memory, NEW o \in Outcome, NEW q, q = ReportVersion(r, o)
  PROVE  /\ q \in Memory /\ q.slots = r.slots
         /\ SetResult(r.api, q.api, TRUE, "Available", CondTrue, o)
  <1>1. r.api \in Api /\ r.synced \in [Reported -> BOOLEAN] /\ "Available" \in Types /\ "Degraded" \in Reported
    BY DEF Memory, Reported, Types
  <1>2. /\ q.slots = r.slots /\ q.seen = r.seen /\ q.api = Set(r.api, TRUE, "Available", CondTrue, o)
        /\ q.synced = Unmarked(r.synced, r.api, o) /\ q.mirrored = Mirrored(r.api, o)
        /\ q = [r EXCEPT !.api = q.api, !.synced = q.synced, !.mirrored = q.mirrored]
    BY DEF ReportVersion, Memory
  <1>3. SetResult(r.api, q.api, TRUE, "Available", CondTrue, o)
    BY <1>1, <1>2, Conditions3, SetFields
  <1>4. q.api \in Api
    BY <1>3 DEF SetResult
  <1>5. q.mirrored \in BOOLEAN
    BY <1>1, <1>2 DEF Mirrored, Landed, OperRead, Api, Outcome
  <1>6. q.synced \in [Reported -> BOOLEAN]
    BY <1>1, <1>2 DEF Unmarked
  <1> QED
    BY <1>2, <1>3, <1>4, <1>5, <1>6 DEF Memory

LEMMA LinkVersion ==
  ASSUME NEW r, NEW q, NEW o, Link(r, q, o)
  PROVE  VersionStep(r.api, q.api) /\ (r.api.coExists => q.api.coExists)
  BY SetVersion DEF Link, Published, VersionStep

LEMMA LinkAvailable ==
  ASSUME NEW r \in Memory, NEW q, NEW o \in Outcome, Link(r, q, o), o.readCO, AvailableAgrees(r.api)
  PROVE  AvailableAgrees(q.api) /\ AvailableStep(r.api, q.api)
  <1>1. r.api \in Api
    BY DEF Memory
  <1>2. CASE q.api = r.api
    BY <1>2 DEF AvailableStep
  <1>3. CASE Published(r.api, q.api, o)
    BY <1>1, <1>3, SetKeepsAvailable DEF Published
  <1> QED
    BY <1>2, <1>3 DEF Link

--------------------------------------------------------------------------------
(* The chain of one SetFromPods                                            *)

(* What the third call writes to the ClusterOperator alone is compared     *)
(* with network.operator by the fourth.                                    *)
Lands(sets) == sets[3].apply \/ ~sets[3].writeCO \/ (sets[4].getOper /\ sets[4].writeCO)

LEMMA SelfType ==
  ASSUME TypeOK PROVE Self \in Memory /\ Self.api = api
  BY DEF TypeOK, Self, Memory

LEMMA PodLevelFacts ==
  /\ PodDeployment \in Levels /\ RolloutHung \in Levels /\ PodCrashLoopBackOff \in Levels
  /\ RolloutHung # PodCrashLoopBackOff
  BY PodLevelsAssumption DEF PodLevels, RolloutHung, PodCrashLoopBackOff

(* The links of the chain.                                                 *)
Chain(v, sets, r, c, p, m, h) ==
  /\ c = setNotDegraded(Self, PodDeployment, sets[1])
  /\ Link(Self, c, sets[1]) /\ Published(Self.api, c.api, sets[1])
  /\ Link(c, p, sets[2])
  /\ m \in Memory
  /\ IF v.reached THEN SetResult(p.api, m.api, TRUE, "Available", CondTrue, sets[3]) ELSE m = p
  /\ Link(m, h, sets[4]) /\ Published(m.api, h.api, sets[4])
  /\ h.slots[RolloutHung] = "Degraded" <=> v.hung # {}
  /\ Link(h, r, sets[5]) /\ r.slots[RolloutHung] = h.slots[RolloutHung]

LEMMA ChainExists ==
  ASSUME TypeOK, NEW v, NEW sets \in [1 .. 5 -> Outcome], NEW r, r = ReportVerdict(v, sets)
  PROVE  \E c, p, m, h : Chain(v, sets, r, c, p, m, h)
  <1>1. \A i \in 1 .. 5 : sets[i] \in Outcome
    OBVIOUS
  <1>2. sets[1] \in Outcome /\ sets[2] \in Outcome /\ sets[3] \in Outcome /\ sets[4] \in Outcome /\ sets[5] \in Outcome
    BY <1>1
  <1> DEFINE c == setNotDegraded(Self, PodDeployment, sets[1])
             p == IF v.deploying THEN setProgressing(c, PodDeployment, sets[2])
                                 ELSE unsetProgressing(c, PodDeployment, sets[2])
             m == IF v.reached THEN ReportVersion(p, sets[3]) ELSE p
             h == IF v.hung # {} THEN setDegraded(m, RolloutHung, sets[4])
                                 ELSE setNotDegraded(m, RolloutHung, sets[4])
  <1>3. r = IF v.crashing # {} THEN maybeSetDegraded(h, PodCrashLoopBackOff, sets[5])
                               ELSE setNotDegraded(h, PodCrashLoopBackOff, sets[5])
    BY DEF ReportVerdict
  <1>4. /\ Link(Self, c, sets[1]) /\ Published(Self.api, c.api, sets[1]) /\ c \in Memory
        /\ c = setNotDegraded(Self, PodDeployment, sets[1])
    BY <1>2, SelfType, PodLevelFacts, MethodLinks DEF Link
  <1> HIDE DEF c
  <1>5. Link(c, p, sets[2]) /\ p \in Memory
    BY <1>2, <1>4, PodLevelFacts, MethodLinks DEF Link
  <1> HIDE DEF p
  <1>6. /\ m \in Memory
        /\ IF v.reached THEN SetResult(p.api, m.api, TRUE, "Available", CondTrue, sets[3]) ELSE m = p
    BY <1>2, <1>5, VersionLink
  <1> HIDE DEF m
  <1>7. /\ Link(m, h, sets[4]) /\ Published(m.api, h.api, sets[4]) /\ h \in Memory
        /\ h.slots = [m.slots EXCEPT ![RolloutHung] = IF v.hung # {} THEN "Degraded" ELSE "none"]
    BY <1>2, <1>6, PodLevelFacts, MethodLinks DEF Link
  <1>8. h.slots[RolloutHung] = "Degraded" <=> v.hung # {}
    <2>1. m.slots \in [Levels -> Slot]
      BY <1>6 DEF Memory
    <2> QED
      BY <1>7, <2>1, PodLevelFacts
  <1> HIDE DEF h
  <1>9. Link(h, r, sets[5]) /\ r.slots[RolloutHung] = h.slots[RolloutHung]
    <2>1. CASE r = maybeSetDegraded(h, PodCrashLoopBackOff, sets[5])
      <3>1. /\ Link(h, maybeSetDegraded(h, PodCrashLoopBackOff, sets[5]), sets[5])
            /\ KeepsOtherSlots(h, maybeSetDegraded(h, PodCrashLoopBackOff, sets[5]), PodCrashLoopBackOff)
        BY <1>2, <1>7, PodLevelFacts, MethodLinks
      <3> QED
        BY <2>1, <3>1, PodLevelFacts DEF KeepsOtherSlots
    <2>2. CASE r = setNotDegraded(h, PodCrashLoopBackOff, sets[5])
      <3>1. /\ Link(h, setNotDegraded(h, PodCrashLoopBackOff, sets[5]), sets[5])
            /\ setNotDegraded(h, PodCrashLoopBackOff, sets[5]).slots
                 = [h.slots EXCEPT ![PodCrashLoopBackOff] = "none"]
        BY <1>2, <1>7, PodLevelFacts, MethodLinks
      <3>2. h.slots \in [Levels -> Slot]
        BY <1>7 DEF Memory
      <3> QED
        BY <2>2, <3>1, <3>2, PodLevelFacts
    <2> QED
      BY <1>3, <2>1, <2>2
  <1>10. Chain(v, sets, r, c, p, m, h)
    BY <1>4, <1>5, <1>6, <1>7, <1>8, <1>9 DEF Chain
  <1> QED
    BY <1>10

LEMMA ChainResult ==
  ASSUME TypeOK, NEW v, NEW sets \in [1 .. 5 -> Outcome], NEW r, r = ReportVerdict(v, sets)
  PROVE  /\ r \in Memory
         /\ r.slots[RolloutHung] = "Degraded" <=> v.hung # {}
         /\ r.api.release = api.release /\ (api.coExists => r.api.coExists)
         /\ r.api.versions \in {api.versions, NoVersion} \/ (v.reached /\ r.api.versions = api.release)
         /\ sets[1].writeCO => setNotDegraded(Self, PodDeployment, sets[1]).api.coExists
         /\ setNotDegraded(Self, PodDeployment, sets[1]).api.coExists => r.api.coExists
  <1>1. PICK c, p, m, h : Chain(v, sets, r, c, p, m, h)
    BY ChainExists
  <1>2. Self.api = api
    BY SelfType
  <1>3. VersionStep(api, c.api) /\ (api.coExists => c.api.coExists)
    BY <1>1, <1>2, LinkVersion DEF Chain
  <1>4. VersionStep(c.api, p.api) /\ (c.api.coExists => p.api.coExists)
    BY <1>1, LinkVersion DEF Chain
  <1>5. /\ m.api.release = p.api.release /\ (p.api.coExists => m.api.coExists)
        /\ m.api.versions \in {p.api.versions, NoVersion} \/ (v.reached /\ m.api.versions = p.api.release)
    <2>1. CASE v.reached
      <3>1. SetResult(p.api, m.api, TRUE, "Available", CondTrue, sets[3])
        BY <1>1, <2>1 DEF Chain
      <3>2. /\ m.api.release = p.api.release /\ (p.api.coExists => m.api.coExists)
            /\ m.api.versions \in {p.api.versions, NoVersion, p.api.release}
        BY <3>1 DEF SetResult
      <3> QED
        BY <2>1, <3>2
    <2>2. CASE ~v.reached
      BY <1>1, <2>2 DEF Chain
    <2> QED
      BY <2>1, <2>2
  <1>6. VersionStep(m.api, h.api) /\ (m.api.coExists => h.api.coExists)
    BY <1>1, LinkVersion DEF Chain
  <1>7. VersionStep(h.api, r.api) /\ (h.api.coExists => r.api.coExists)
    BY <1>1, LinkVersion DEF Chain
  <1>8. r \in Memory /\ (r.slots[RolloutHung] = "Degraded" <=> v.hung # {})
    BY <1>1 DEF Chain, Link
  <1>9. c = setNotDegraded(Self, PodDeployment, sets[1]) /\ (sets[1].writeCO => c.api.coExists)
    BY <1>1 DEF Chain, Published, SetResult
  <1> QED
    BY <1>3, <1>4, <1>5, <1>6, <1>7, <1>8, <1>9 DEF VersionStep

(* Available=True survives the chain.                                      *)
LEMMA ChainAvailable ==
  ASSUME TypeOK, NEW v, NEW sets \in [1 .. 5 -> Outcome], NEW r, r = ReportVerdict(v, sets),
         \A i \in 1 .. 5 : sets[i].readCO, Lands(sets), AvailableAgrees(api)
  PROVE  AvailableAgrees(r.api) /\ AvailableStep(api, r.api)
  <1>1. PICK c, p, m, h : Chain(v, sets, r, c, p, m, h)
    BY ChainExists
  <1>2. Self.api = api /\ Self \in Memory /\ c \in Memory /\ p \in Memory /\ m \in Memory /\ h \in Memory
    BY <1>1, SelfType DEF Chain, Link
  <1>3. /\ sets[1] \in Outcome /\ sets[2] \in Outcome /\ sets[3] \in Outcome
        /\ sets[4] \in Outcome /\ sets[5] \in Outcome
        /\ sets[1].readCO /\ sets[2].readCO /\ sets[4].readCO /\ sets[5].readCO
    OBVIOUS
  <1>4. AvailableAgrees(c.api) /\ AvailableStep(api, c.api)
    BY <1>1, <1>2, <1>3, LinkAvailable DEF Chain
  <1>5. AvailableAgrees(p.api) /\ AvailableStep(c.api, p.api)
    BY <1>1, <1>2, <1>3, <1>4, LinkAvailable DEF Chain
  <1>6. CASE AvailableAgrees(m.api) /\ AvailableStep(p.api, m.api)
    <2>1. AvailableAgrees(h.api) /\ AvailableStep(m.api, h.api)
      BY <1>1, <1>2, <1>3, <1>6, LinkAvailable DEF Chain
    <2>2. AvailableAgrees(r.api) /\ AvailableStep(h.api, r.api)
      BY <1>1, <1>2, <1>3, <2>1, LinkAvailable DEF Chain
    <2> QED
      BY <1>4, <1>5, <1>6, <2>1, <2>2 DEF AvailableStep
  <1>7. CASE v.reached /\ ~AvailableAgrees(m.api)
    <2>1. p.api \in Api /\ m.api \in Api /\ SetResult(p.api, m.api, TRUE, "Available", CondTrue, sets[3])
      BY <1>1, <1>2, <1>7 DEF Chain, Memory
    <2>2. /\ ~sets[3].apply /\ sets[3].writeCO /\ m.api.operExists
          /\ p.api.co["Available"] # CondTrue
      BY <1>3, <1>5, <1>7, <2>1, SetAvailable
    <2>3. OperRead(m.api, sets[4]) /\ sets[4].writeCO
      BY <2>2 DEF Lands, OperRead
    <2>4. PICK type \in Reported, cond \in Condition : SetResult(m.api, h.api, FALSE, type, cond, sets[4])
      BY <1>1 DEF Chain, Published
    <2>7. AvailableAgrees(h.api)
      BY <1>3, <2>1, <2>3, <2>4, SetRepairsAvailable
    <2>5. AvailableAgrees(r.api)
      BY <1>1, <1>2, <1>3, <2>7, LinkAvailable DEF Chain
    <2>6. QED
      BY <1>4, <1>5, <2>2, <2>5 DEF AvailableStep
  <1>8. CASE v.reached /\ AvailableAgrees(m.api)
    <2>1. p.api \in Api /\ SetResult(p.api, m.api, TRUE, "Available", CondTrue, sets[3])
      BY <1>1, <1>2, <1>8 DEF Chain, Memory
    <2>2. AvailableStep(p.api, m.api)
      BY <1>3, <1>5, <2>1, SetAvailable
    <2> QED
      BY <1>6, <1>8, <2>2
  <1>9. CASE ~v.reached
    BY <1>1, <1>5, <1>6, <1>9 DEF Chain, AvailableStep
  <1> QED
    BY <1>7, <1>8, <1>9

--------------------------------------------------------------------------------
(* The verdict                                                             *)

EntriesOK(entries) == entries \in [Operands -> Entry] /\ \A o \in Operands : entries[o].age \in Ages

PodType ==
  /\ TypeOK
  /\ operands \in [Operands -> Operand]
  /\ lastSeen \in [install : InstallRecord, states : [Operands -> Entry]]
  /\ EntriesOK(lastSeen.states) /\ EntriesOK(clock)
  /\ installComplete \in BOOLEAN /\ pending \in BOOLEAN /\ overdue \in BOOLEAN

LEMMA NoEntryType == /\ Fresh \in Counts /\ NoEntry \in Entry /\ NoEntry.age = NotSeen
                     /\ EntriesOK(NoEntries) /\ NoOperand \in Operand /\ ~NoOperand.exists
  <1>1. Fresh \in Counts
    BY DEF Fresh, Counts, NoVersion
  <1>2. NoEntry \in Entry /\ NoEntry.age = NotSeen /\ NotSeen \in Ages
    BY <1>1 DEF NoEntry, Entry, NotSeen, Ages
  <1>3. NoOperand \in Operand /\ ~NoOperand.exists
    BY <1>1 DEF NoOperand, Operand, NoVersion
  <1> QED
    BY <1>1, <1>2, <1>3 DEF NoEntries, EntriesOK

LEMMA NotedType ==
  ASSUME NEW e \in Entry, e.age \in Ages, NEW s \in Counts
  PROVE  Noted(e, s) \in Entry /\ Noted(e, s).age \in Ages
  <1>1. 0 \in Ages /\ ProgressTimeout \in Nat
    BY PodBoundsAssumption DEF Ages
  <1> QED
    BY <1>1 DEF Noted, Entry

LEMMA NewEntriesType ==
  ASSUME PodType, NEW past, EntriesOK(past), NEW critical
  PROVE  EntriesOK(NewEntries(past, critical))
  <1>1. ASSUME NEW o \in Operands
        PROVE  NewEntries(past, critical)[o] \in Entry /\ NewEntries(past, critical)[o].age \in Ages
    <2>1. past[o] \in Entry /\ past[o].age \in Ages /\ operands[o].status \in Counts
      BY DEF EntriesOK, PodType, Operand
    <2>2. NoEntry \in Entry /\ NoEntry.age \in Ages
      BY NoEntryType DEF Ages
    <2>3. Noted(past[o], operands[o].status) \in Entry /\ Noted(past[o], operands[o].status).age \in Ages
      BY <2>1, NotedType
    <2> QED
      BY <2>1, <2>2, <2>3 DEF NewEntries
  <1>2. NewEntries(past, critical) = [o \in Operands |-> NewEntries(past, critical)[o]]
    BY DEF NewEntries
  <1> QED
    BY <1>1, <1>2 DEF EntriesOK

(* The entries read, and whether the installation counts as complete.      *)
Past(c) == IF c.read /\ api.coExists THEN lastSeen.states ELSE NoEntries
InstallSeen(c) == installComplete \/ (c.read /\ api.coExists /\ InstallRecorded)

LEMMA VerdictParts ==
  ASSUME NEW c, NEW v, v = Verdict(c)
  PROVE  /\ v.critical \subseteq Live \cap Critical
         /\ v.states = NewEntries(Past(c), v.critical)
         /\ v.hung = {o \in v.critical : v.states[o].age > ProgressTimeout}
         /\ v.reached <=> ReachedAvailableLevel(v.critical)
         /\ v.complete \in BOOLEAN /\ (InstallSeen(c) => v.complete)
  <1> DEFINE install == installComplete \/ (c.read /\ api.coExists /\ InstallRecorded)
             progressing == {o \in Live : Progressing(o, install)}
             critical == progressing \cap Critical
             states == NewEntries(Past(c), critical)
             reached == ReachedAvailableLevel(critical)
  <1>1. /\ v.critical = critical /\ v.states = states /\ v.reached = reached
        /\ v.hung = {o \in critical : states[o].age > ProgressTimeout}
        /\ v.complete = (install \/ (reached /\ progressing = {}))
    BY DEF Verdict, Past
  <1>2. v.critical \subseteq Live \cap Critical
    BY <1>1
  <1> HIDE DEF install, progressing, critical, states, reached
  <1>3. v.complete \in BOOLEAN /\ (install => v.complete)
    BY <1>1
  <1>4. InstallSeen(c) => install
    BY DEF InstallSeen, install
  <1> QED
    BY <1>1, <1>2, <1>3, <1>4 DEF states, reached

(* What one SetFromPods does to the variables.                             *)
LEMMA SetFromPodsParts ==
  ASSUME NEW c, SetFromPods(c), NEW v, v = Verdict(c)
  PROVE  /\ pending /\ UNCHANGED quiet /\ Locked(ReportVerdict(v, c.sets))
         /\ installComplete' = v.complete
         /\ lastSeen' = IF c.annotate /\ setNotDegraded(Self, PodDeployment, c.sets[1]).api.coExists
                          THEN [install |-> IF v.complete THEN "true" ELSE "false", states |-> v.states]
                          ELSE lastSeen
         /\ \E marked \in SUBSET Live :
              /\ operands' = [o \in Operands |->
                                IF o \in marked THEN [operands[o] EXCEPT !.hung = ~@] ELSE operands[o]]
              /\ pending' = (marked # {})
         /\ clock' = [o \in Operands |->
                        IF o \in v.critical THEN Noted(clock[o], operands[o].status) ELSE NoEntry]
         /\ overdue' = \E o \in Operands : clock'[o].age > ProgressTimeout
  <1>1. {o \in Live : c.mark /\ operands[o].hung # (o \in v.hung)} \in SUBSET Live
    OBVIOUS
  <1> QED
    BY <1>1 DEF SetFromPods

--------------------------------------------------------------------------------
(* Type correctness                                                        *)

LEMMA ForgetType ==
  ASSUME ForgetMemory, api' \in Api, mirrored' \in BOOLEAN
  PROVE  TypeOK'
  <1>1. 0 \in 0 .. Threshold
    BY ThresholdAssumption
  <1> QED
    BY <1>1 DEF ForgetMemory, TypeOK, NoFailures, Slot, NothingSeen, NothingSynced

LEMMA CallFacts ==
  ASSUME NEW c \in Calls
  PROVE  c.sets \in [1 .. 5 -> Outcome] /\ c.read \in BOOLEAN /\ c.annotate \in BOOLEAN
  BY CallsAssumption DEF Call

(* The objects after a panic: Degraded is published once more.             *)
LEMMA PanicPublished ==
  ASSUME TypeOK, NEW o \in Outcomes, SetDegradedOnPanicAndCrash(o)
  PROVE  Published(api, api', o) /\ api' \in Api /\ o \in Outcome /\ mirrored' \in BOOLEAN /\ ForgetMemory
  <1> DEFINE slots == [failing EXCEPT ![PanicLevel] = "Degraded"]
  <1>1. /\ api' = Set(api, FALSE, "Degraded", Sync(slots, "Degraded"), o)
        /\ mirrored' = Mirrored(api, o) /\ ForgetMemory
    BY DEF SetDegradedOnPanicAndCrash, Publish
  <1>2. o \in Outcome /\ api \in Api /\ "Degraded" \in Types /\ "Degraded" \in Reported
    BY OutcomesAssumption DEF TypeOK, Types, Reported
  <1>3. Sync(slots, "Degraded") \in Condition
    BY SyncType
  <1>4. SetResult(api, api', FALSE, "Degraded", Sync(slots, "Degraded"), o)
    BY <1>1, <1>2, <1>3, SetFields
  <1>5. Published(api, api', o) /\ api' \in Api
    BY <1>2, <1>3, <1>4 DEF Published, SetResult
  <1>6. mirrored' \in BOOLEAN
    BY <1>1, <1>2 DEF Mirrored, Landed, OperRead, Api, Outcome
  <1> QED
    BY <1>1, <1>2, <1>5, <1>6

LEMMA StatusTypeStep ==
  ASSUME PodType, PodNext PROVE TypeOK'
  <1>0. TypeOK
    BY DEF PodType
  <1>1. ASSUME NEW c \in Calls, SetFromPods(c) PROVE TypeOK'
    <2>1. PICK v : v = Verdict(c)
      OBVIOUS
    <2>2. PICK r : r = ReportVerdict(v, c.sets)
      OBVIOUS
    <2>3. r \in Memory
      BY <1>0, <2>2, CallFacts, ChainResult
    <2>4. /\ failing' = r.slots /\ firstSeen' = r.seen /\ api' = r.api /\ synced' = r.synced
          /\ mirrored' = r.mirrored /\ quiet' = quiet
      BY <1>1, <2>1, <2>2, SetFromPodsParts DEF Locked
    <2> QED
      BY <1>0, <2>3, <2>4 DEF Memory, TypeOK
  <1>2. CASE PodPanic
    BY <1>0, <1>2, PanicPublished, ForgetType DEF PodPanic
  <1>3. CASE PodRestart
    BY <1>0, <1>3, ForgetType DEF PodRestart, Restart, TypeOK
  <1>4. CASE Upgrade
    <2>1. api' \in Api
      BY <1>0, <1>4 DEF Upgrade, TypeOK, Api
    <2> QED
      BY <1>0, <1>4, <2>1, ForgetType DEF Upgrade, TypeOK
  <1>5. ASSUME NEW o \in Operands,
               CreateOperand(o) \/ UpdateOperand(o) \/ StatusChange(o) \/ DeleteOperand(o) \/ PodCrash(o)
        PROVE  TypeOK'
    <2>1. UNCHANGED statusVars
      BY <1>5 DEF CreateOperand, UpdateOperand, StatusChange, DeleteOperand, PodCrash, Event
    <2> QED
      BY <1>0, <2>1 DEF statusVars, TypeOK
  <1>6. CASE PodTick
    <2>1. Threshold \in Nat
      BY ThresholdAssumption
    <2>2. \A age \in {NotSeen} \cup 0 .. Threshold : Older(age, Threshold) \in {NotSeen} \cup 0 .. Threshold
      BY <2>1 DEF Older, NotSeen
    <2>3. \A age \in 0 .. Threshold : Older(age, Threshold) \in 0 .. Threshold
      BY <2>1 DEF Older
    <2> QED
      BY <1>0, <1>6, <2>2, <2>3, LevelsAssumption DEF PodTick, Tick, AgeStatus, TypeOK
  <1>7. CASE PodDeleteOperConfig \/ PodDeleteClusterOperator
    <2>1. NoConditions \in [Types -> Condition] /\ NoVersion \in Int
      BY Conditions3 DEF NoConditions, NoVersion
    <2>2. api' \in Api
      BY <1>0, <1>7, <2>1
      DEF PodDeleteOperConfig, PodDeleteClusterOperator, DeleteOperConfig, CreateOperConfig,
          DeleteClusterOperator, TypeOK, Api
    <2>3. /\ UNCHANGED <<failing, firstSeen, quiet>>
          /\ synced' \in {synced, NothingSynced} /\ mirrored' \in {mirrored, FALSE}
      BY <1>7 DEF PodDeleteOperConfig, PodDeleteClusterOperator, DeleteOperConfig, CreateOperConfig,
                  DeleteClusterOperator
    <2> QED
      BY <1>0, <2>2, <2>3 DEF TypeOK, NothingSynced
  <1> QED
    BY <1>1, <1>2, <1>3, <1>4, <1>5, <1>6, <1>7 DEF PodNext, Operate, Surroundings

(* Ages saturate one beyond the timeout.                                   *)
LEMMA AgedType ==
  ASSUME NEW entries, EntriesOK(entries)
  PROVE  EntriesOK(Aged(entries))
  <1>1. \A age \in Ages : Older(age, ProgressTimeout + 1) \in Ages /\ Older(age, ProgressTimeout + 1) \in Int
    BY PodBoundsAssumption DEF Ages, Older, NotSeen
  <1>2. ASSUME NEW o \in Operands PROVE Aged(entries)[o] \in Entry /\ Aged(entries)[o].age \in Ages
    <2>1. entries[o] \in Entry /\ entries[o].age \in Ages
      BY DEF EntriesOK
    <2>2. Aged(entries)[o] = [entries[o] EXCEPT !.age = Older(entries[o].age, ProgressTimeout + 1)]
      BY <2>1 DEF Aged, Entry
    <2> QED
      BY <1>1, <2>1, <2>2 DEF Entry
  <1>3. Aged(entries) = [o \in Operands |-> Aged(entries)[o]]
    BY DEF Aged
  <1> QED
    BY <1>2, <1>3 DEF EntriesOK

LEMMA OperandTypeStep ==
  ASSUME PodType, PodNext PROVE operands' \in [Operands -> Operand]
  <1>0. operands \in [Operands -> Operand] /\ api.release \in Int
    BY DEF PodType, TypeOK, Api
  <1>1. ASSUME NEW c \in Calls, SetFromPods(c) PROVE operands' \in [Operands -> Operand]
    <2>1. PICK marked : operands' = [o \in Operands |->
                          IF o \in marked THEN [operands[o] EXCEPT !.hung = ~@] ELSE operands[o]]
      BY <1>1, SetFromPodsParts
    <2>2. \A o \in Operands : [operands[o] EXCEPT !.hung = ~@] \in Operand
      BY <1>0 DEF Operand
    <2> QED
      BY <1>0, <2>1, <2>2
  <1>2. ASSUME NEW o \in Operands, NEW new \in Operand, operands' = [operands EXCEPT ![o] = new]
        PROVE  operands' \in [Operands -> Operand]
    BY <1>0, <1>2
  <1>3. ASSUME NEW o \in Operands, CreateOperand(o) \/ UpdateOperand(o) \/ DeleteOperand(o) \/ PodCrash(o)
        PROVE  operands' \in [Operands -> Operand]
    <2>1. /\ [NoOperand EXCEPT !.exists = TRUE, !.version = api.release] \in Operand
          /\ [operands[o] EXCEPT !.version = api.release] \in Operand
          /\ NoOperand \in Operand /\ [operands[o] EXCEPT !.crashing = ~@] \in Operand
      BY <1>0, NoEntryType DEF Operand
    <2>2. CASE CreateOperand(o)
      BY <1>2, <2>1, <2>2 DEF CreateOperand, Event
    <2>3. CASE UpdateOperand(o)
      BY <1>2, <2>1, <2>3 DEF UpdateOperand, Event
    <2>4. CASE DeleteOperand(o)
      BY <1>2, <2>1, <2>4 DEF DeleteOperand, Event
    <2>5. CASE PodCrash(o)
      <3>1. operands' = [operands EXCEPT ![o] = [operands[o] EXCEPT !.crashing = ~@]]
        BY <1>0, <2>5 DEF PodCrash, Operand
      <3> QED
        BY <1>2, <2>1, <3>1
    <2> QED
      BY <1>3, <2>2, <2>3, <2>4, <2>5
  <1>4. ASSUME NEW o \in Operands, StatusChange(o) PROVE operands' \in [Operands -> Operand]
    <2>1. PICK s \in Statuses[o] :
            operands' = [operands EXCEPT ![o] =
                           [operands[o] EXCEPT !.status = [s EXCEPT !.observed = operands[o].version],
                                               !.crashing = @ /\ Unavailable(o, [s EXCEPT !.observed = operands[o].version])]]
      BY <1>4 DEF StatusChange, Event
    <2> DEFINE t == [s EXCEPT !.observed = operands[o].version]
               b == operands[o].crashing /\ Unavailable(o, t)
    <2>2. t \in Counts
      BY <1>0, StatusesAssumption DEF Counts, Operand
    <2>3. b \in BOOLEAN
      OBVIOUS
    <2> HIDE DEF t, b
    <2>4. [operands[o] EXCEPT !.status = t, !.crashing = b] \in Operand
      BY <1>0, <2>2, <2>3 DEF Operand
    <2>5. operands' = [operands EXCEPT ![o] = [operands[o] EXCEPT !.status = t, !.crashing = b]]
      BY <1>0, <2>1 DEF t, b, Operand
    <2> QED
      BY <1>2, <2>4, <2>5
  <1>5. CASE PodPanic \/ PodRestart \/ Upgrade \/ PodTick \/ PodDeleteOperConfig \/ PodDeleteClusterOperator
    BY <1>0, <1>5 DEF PodPanic, PodRestart, Upgrade, PodTick, PodDeleteOperConfig,
                      PodDeleteClusterOperator, ForgetPods, podVars
  <1> QED
    BY <1>1, <1>3, <1>4, <1>5 DEF PodNext, Operate, Surroundings

(* The annotation and the clock.                                           *)
LEMMA EntriesTypeStep ==
  ASSUME PodType, PodNext
  PROVE  /\ lastSeen' \in [install : InstallRecord, states : [Operands -> Entry]]
         /\ EntriesOK(lastSeen.states)' /\ EntriesOK(clock)'
  <1>0. /\ lastSeen \in [install : InstallRecord, states : [Operands -> Entry]]
        /\ EntriesOK(lastSeen.states) /\ EntriesOK(clock) /\ EntriesOK(NoEntries)
    BY NoEntryType DEF PodType
  <1>1. ASSUME NEW i \in InstallRecord, NEW states, EntriesOK(states), NEW entries, EntriesOK(entries),
               lastSeen' = [install |-> i, states |-> states], clock' = entries
        PROVE  /\ lastSeen' \in [install : InstallRecord, states : [Operands -> Entry]]
               /\ EntriesOK(lastSeen.states)' /\ EntriesOK(clock)'
    <2>1. states \in [Operands -> Entry] /\ lastSeen'.states = states
      BY <1>1 DEF EntriesOK
    <2> QED
      BY <1>1, <2>1 DEF EntriesOK
  <1>2. ASSUME NEW entries, EntriesOK(entries), UNCHANGED lastSeen, clock' = entries
        PROVE  /\ lastSeen' \in [install : InstallRecord, states : [Operands -> Entry]]
               /\ EntriesOK(lastSeen.states)' /\ EntriesOK(clock)'
    BY <1>0, <1>2 DEF EntriesOK
  <1>3. ASSUME NEW c \in Calls, SetFromPods(c)
        PROVE  /\ lastSeen' \in [install : InstallRecord, states : [Operands -> Entry]]
               /\ EntriesOK(lastSeen.states)' /\ EntriesOK(clock)'
    <2>1. PICK v : v = Verdict(c)
      OBVIOUS
    <2>2. EntriesOK(Past(c))
      BY <1>0 DEF Past
    <2>3. EntriesOK(v.states)
      BY <2>1, <2>2, VerdictParts, NewEntriesType
    <2>4. EntriesOK(clock')
      <3>1. clock' = [o \in Operands |->
                        IF o \in v.critical THEN Noted(clock[o], operands[o].status) ELSE NoEntry]
        BY <1>3, <2>1, SetFromPodsParts
      <3>2. ASSUME NEW o \in Operands
            PROVE  clock'[o] \in Entry /\ clock'[o].age \in Ages
        <4>1. clock[o] \in Entry /\ clock[o].age \in Ages /\ operands[o].status \in Counts
          BY DEF PodType, EntriesOK, Operand
        <4>2. NoEntry \in Entry /\ NoEntry.age \in Ages
          BY NoEntryType DEF Ages
        <4>3. clock'[o] \in {NoEntry, Noted(clock[o], operands[o].status)}
          BY <3>1
        <4> QED
          BY <4>1, <4>2, <4>3, NotedType
      <3>3. clock' = [o \in Operands |-> clock'[o]]
        BY <3>1
      <3> QED
        BY <3>2, <3>3 DEF EntriesOK
    <2>5. lastSeen' = lastSeen \/ lastSeen' = [install |-> IF v.complete THEN "true" ELSE "false", states |-> v.states]
      BY <1>3, <2>1, SetFromPodsParts
    <2>6. (IF v.complete THEN "true" ELSE "false") \in InstallRecord
      BY DEF InstallRecord
    <2> QED
      BY <1>1, <1>2, <2>3, <2>4, <2>5, <2>6
  <1>4. ASSUME NEW o \in Operands,
               CreateOperand(o) \/ UpdateOperand(o) \/ StatusChange(o) \/ DeleteOperand(o) \/ PodCrash(o)
        PROVE  /\ lastSeen' \in [install : InstallRecord, states : [Operands -> Entry]]
               /\ EntriesOK(lastSeen.states)' /\ EntriesOK(clock)'
    <2>1. lastSeen' = lastSeen /\ clock' \in {clock, [clock EXCEPT ![o] = NoEntry]}
      BY <1>4 DEF CreateOperand, UpdateOperand, StatusChange, DeleteOperand, PodCrash, Event
    <2>2. EntriesOK([clock EXCEPT ![o] = NoEntry])
      BY <1>0, NoEntryType DEF EntriesOK, Ages
    <2> QED
      BY <1>0, <1>2, <2>1, <2>2
  <1>5. CASE PodTick
    <2>1. /\ lastSeen' = [lastSeen EXCEPT !.states = Aged(lastSeen.states)] /\ clock' = Aged(clock)
      BY <1>5 DEF PodTick
    <2>2. lastSeen' = [install |-> lastSeen.install, states |-> Aged(lastSeen.states)]
      BY <1>0, <2>1
    <2> QED
      BY <1>0, <1>1, <2>1, <2>2, AgedType
  <1>6. CASE PodDeleteClusterOperator
    <2>1. lastSeen' = [install |-> "absent", states |-> NoEntries] /\ clock' = NoEntries
      BY <1>6 DEF PodDeleteClusterOperator
    <2> QED
      BY <1>0, <1>1, <2>1 DEF InstallRecord
  <1>7. CASE PodPanic \/ PodRestart \/ Upgrade \/ PodDeleteOperConfig
    <2>1. UNCHANGED <<lastSeen, clock>>
      BY <1>7 DEF PodPanic, PodRestart, Upgrade, PodDeleteOperConfig, ForgetPods, podVars
    <2> QED
      BY <1>0, <1>2, <2>1
  <1> QED
    BY <1>3, <1>4, <1>5, <1>6, <1>7 DEF PodNext, Operate, Surroundings

LEMMA FlagTypeStep ==
  ASSUME PodType, PodNext
  PROVE  installComplete' \in BOOLEAN /\ pending' \in BOOLEAN /\ overdue' \in BOOLEAN
  <1>1. ASSUME NEW c \in Calls, SetFromPods(c)
        PROVE  installComplete' \in BOOLEAN /\ pending' \in BOOLEAN /\ overdue' \in BOOLEAN
    <2>1. PICK v : v = Verdict(c)
      OBVIOUS
    <2>2. v.complete \in BOOLEAN
      BY <2>1, VerdictParts
    <2>3. /\ installComplete' = v.complete /\ (pending' = TRUE \/ pending' = FALSE)
          /\ overdue' = \E o \in Operands : clock'[o].age > ProgressTimeout
      BY <1>1, <2>1, SetFromPodsParts
    <2> QED
      BY <2>2, <2>3
  <1>2. ASSUME NEW o \in Operands,
               CreateOperand(o) \/ UpdateOperand(o) \/ StatusChange(o) \/ DeleteOperand(o) \/ PodCrash(o)
        PROVE  installComplete' \in BOOLEAN /\ pending' \in BOOLEAN /\ overdue' \in BOOLEAN
    <2>1. installComplete' = installComplete /\ overdue' = overdue
      BY <1>2 DEF CreateOperand, UpdateOperand, StatusChange, DeleteOperand, PodCrash, Event
    <2>2. CASE PodCrash(o)
      <3>1. pending' = pending
        BY <2>2 DEF PodCrash
      <3> QED
        BY <2>1, <3>1 DEF PodType
    <2>3. CASE CreateOperand(o) \/ UpdateOperand(o) \/ StatusChange(o) \/ DeleteOperand(o)
      <3>1. pending' = TRUE
        BY <2>3 DEF CreateOperand, UpdateOperand, StatusChange, DeleteOperand, Event
      <3> QED
        BY <2>1, <3>1 DEF PodType
    <2> QED
      BY <1>2, <2>2, <2>3
  <1>3. CASE PodPanic \/ PodRestart \/ Upgrade \/ PodTick \/ PodDeleteOperConfig \/ PodDeleteClusterOperator
    BY <1>3 DEF PodType, PodPanic, PodRestart, Upgrade, PodTick, PodDeleteOperConfig,
                PodDeleteClusterOperator, ForgetPods, podVars
  <1> QED
    BY <1>1, <1>2, <1>3 DEF PodNext, Operate, Surroundings

(* The two kinds of cluster the operator may find.                         *)
LEMMA PodInitType ==
  ASSUME PodInit PROVE PodType
  <1>1. NoConditions \in [Types -> Condition] /\ NoVersion \in Int
    BY Conditions3 DEF NoConditions, NoVersion
  <1>2. InitApi \in Api
    BY <1>1 DEF InitApi, Api
  <1>3. api \in Api
    <2>1. CASE InitNewCluster
      BY <1>2, <2>1 DEF InitNewCluster
    <2>2. CASE InitLegacyCluster
      <3> DEFINE healthy == [t \in Types |-> IF t = "Available" THEN CondTrue ELSE CondFalse]
      <3>1. api = [InitApi EXCEPT !.oper = healthy, !.co = healthy, !.versions = 0, !.release = 1]
        BY <2>2 DEF InitLegacyCluster
      <3>2. healthy \in [Types -> Condition]
        <4>1. CondTrue \in Condition /\ CondFalse \in Condition
          BY DEF CondTrue, CondFalse, Condition
        <4> QED
          BY <4>1
      <3> HIDE DEF healthy
      <3>3. api = [operExists |-> TRUE, oper |-> healthy, coExists |-> TRUE, co |-> healthy,
                   versions |-> 0, hcp |-> NoConditions, release |-> 1]
        BY <3>1 DEF InitApi
      <3> QED
        BY <1>1, <3>2, <3>3 DEF Api
    <2> QED
      BY <2>1, <2>2 DEF PodInit
  <1>4. TypeOK
    <2>1. 0 \in 0 .. Threshold
      BY ThresholdAssumption
    <2> QED
      BY <1>3, <2>1 DEF PodInit, InitStatus, TypeOK, NoFailures, Slot, NothingSeen, NothingSynced
  <1>5. operands \in [Operands -> Operand]
    <2>1. CASE InitNewCluster
      BY <2>1, NoEntryType DEF InitNewCluster
    <2>2. CASE InitLegacyCluster
      <3>1. PICK s : /\ \A o \in Operands : s[o] \in Statuses[o]
                    /\ operands = [o \in Operands |->
                                     [NoOperand EXCEPT !.exists = TRUE, !.version = 0,
                                                       !.status = [s[o] EXCEPT !.observed = 0]]]
        BY <2>2 DEF InitLegacyCluster
      <3>2. ASSUME NEW o \in Operands PROVE operands[o] \in Operand
        <4>1. s[o] \in Counts
          BY <3>1, StatusesAssumption
        <4>2. [s[o] EXCEPT !.observed = 0] \in Counts
          BY <4>1 DEF Counts
        <4>3. \A t \in Counts, n \in Int :
                [NoOperand EXCEPT !.exists = TRUE, !.version = n, !.status = t] \in Operand
          BY NoEntryType DEF Operand
        <4>4. operands[o] = [NoOperand EXCEPT !.exists = TRUE, !.version = 0,
                                              !.status = [s[o] EXCEPT !.observed = 0]]
          BY <3>1
        <4>5. 0 \in Int
          OBVIOUS
        <4> QED
          BY <4>2, <4>3, <4>4, <4>5, Zenon
      <3> QED
        BY <3>1, <3>2
    <2> QED
      BY <2>1, <2>2 DEF PodInit
  <1>6. \E i \in InstallRecord : lastSeen = [install |-> i, states |-> NoEntries]
    BY DEF PodInit, InitNewCluster, InitLegacyCluster, InstallRecord
  <1>7. /\ lastSeen \in [install : InstallRecord, states : [Operands -> Entry]]
        /\ EntriesOK(lastSeen.states) /\ EntriesOK(clock)
    BY <1>6, NoEntryType DEF PodInit, EntriesOK
  <1>8. installComplete \in BOOLEAN /\ pending \in BOOLEAN /\ overdue \in BOOLEAN
    BY DEF PodInit, InitNewCluster, InitLegacyCluster
  <1> QED
    BY <1>4, <1>5, <1>7, <1>8 DEF PodType

LEMMA PodTypeInvariant == PodSpec => []PodType
  <1>1. PodInit => PodType
    BY PodInitType
  <1>2. PodType /\ [PodNext]_vars => PodType'
    <2>1. ASSUME PodType, PodNext PROVE PodType'
      BY <2>1, StatusTypeStep, OperandTypeStep, EntriesTypeStep, FlagTypeStep DEF PodType
    <2>2. ASSUME PodType, UNCHANGED vars PROVE PodType'
      BY <2>2 DEF vars, statusVars, podVars, PodType, TypeOK, EntriesOK
    <2> QED
      BY <2>1, <2>2
  <1> QED
    BY <1>1, <1>2, PTL DEF PodSpec

(* Every reachable state of PodStatus is well typed, and no entry is older *)
(* than what the comparison with the timeout tells apart (SetFromPods).    *)
THEOREM PodTypeCorrect == PodSpec => []PodTypeOK
  <1>1. PodType => PodTypeOK
    BY DEF PodType, PodTypeOK, EntriesOK
  <1> QED
    BY <1>1, PodTypeInvariant, PTL

--------------------------------------------------------------------------------
(* The reported version                                                    *)

(* VersionNotAhead is not inductive alone: the release may be reported, or *)
(* given to an operand, at any time, and a ClusterOperator that is created *)
(* anew reports no version.                                                *)
VersionInv ==
  /\ NoVersion <= api.release /\ api.versions <= api.release
  /\ \A o \in Live : NoVersion <= operands[o].version /\ api.versions <= operands[o].version

SameVersions == \A o \in Operands : /\ operands'[o].exists = operands[o].exists
                                    /\ operands'[o].version = operands[o].version

LEMMA VersionTypes ==
  ASSUME PodType
  PROVE  /\ api.release \in Int /\ api.versions \in Int /\ NoVersion \in Int
         /\ \A o \in Operands : operands[o].version \in Int
  BY DEF PodType, TypeOK, Api, Operand, NoVersion

(* A step that leaves the version, or removes it.                          *)
LEMMA VersionKept ==
  ASSUME PodType, VersionInv, SameVersions, VersionStep(api, api')
  PROVE  VersionInv'
  <1>1. \A o \in Live' : o \in Live
    BY DEF SameVersions, Live
  <1> QED
    BY <1>1, VersionTypes DEF VersionInv, SameVersions, VersionStep, Live

(* SetFromPods reports the release only when all operands are at it.       *)
LEMMA VersionReported ==
  ASSUME PodType, VersionInv, NEW c \in Calls, SetFromPods(c)
  PROVE  VersionInv'
  <1>1. PICK v : v = Verdict(c)
    OBVIOUS
  <1>2. PICK r : r = ReportVerdict(v, c.sets)
    OBVIOUS
  <1>3. /\ r.api.release = api.release
        /\ r.api.versions \in {api.versions, NoVersion} \/ (v.reached /\ r.api.versions = api.release)
    BY <1>2, CallFacts, ChainResult DEF PodType
  <1>4. api' = r.api
    BY <1>1, <1>2, SetFromPodsParts DEF Locked
  <1>5. SameVersions
    <2>1. PICK marked : operands' = [o \in Operands |->
                          IF o \in marked THEN [operands[o] EXCEPT !.hung = ~@] ELSE operands[o]]
      BY SetFromPodsParts
    <2> QED
      BY <2>1 DEF PodType, Operand, SameVersions
  <1>6. CASE r.api.versions \in {api.versions, NoVersion}
    BY <1>3, <1>4, <1>5, <1>6, VersionKept DEF VersionStep
  <1>7. CASE v.reached /\ r.api.versions = api.release
    <2>1. \A o \in Live : operands[o].version = api.release
      BY <1>1, <1>7, VerdictParts DEF ReachedAvailableLevel
    <2>2. \A o \in Live' : o \in Live /\ operands'[o].version = operands[o].version
      BY <1>5 DEF SameVersions, Live
    <2> QED
      BY <1>3, <1>4, <1>7, <2>1, <2>2, VersionTypes DEF VersionInv
  <1> QED
    BY <1>3, <1>6, <1>7

LEMMA VersionStepInv ==
  ASSUME PodType, VersionInv, PodNext PROVE VersionInv'
  <1>0. operands \in [Operands -> Operand] /\ api \in Api
    BY DEF PodType, TypeOK
  <1>1. ASSUME NEW c \in Calls, SetFromPods(c) PROVE VersionInv'
    BY <1>1, VersionReported
  <1>2. ASSUME UNCHANGED operands, VersionStep(api, api') PROVE VersionInv'
    BY <1>2, VersionKept DEF SameVersions
  <1>3. CASE PodPanic
    <2>1. PICK o \in Outcomes : SetDegradedOnPanicAndCrash(o)
      BY <1>3 DEF PodPanic
    <2>2. VersionStep(api, api')
      BY <2>1, PanicPublished, SetVersion DEF Published, PodType
    <2> QED
      BY <1>2, <1>3, <2>2 DEF PodPanic, ForgetPods
  <1>4. CASE PodRestart \/ PodTick \/ PodDeleteOperConfig \/ PodDeleteClusterOperator
    <2>1. VersionStep(api, api')
      BY <1>0, <1>4 DEF PodRestart, Restart, PodTick, Tick, PodDeleteOperConfig, DeleteOperConfig,
        CreateOperConfig, PodDeleteClusterOperator, DeleteClusterOperator, VersionStep, Api
    <2>2. UNCHANGED operands
      BY <1>4 DEF PodRestart, PodTick, PodDeleteOperConfig, PodDeleteClusterOperator, ForgetPods, podVars
    <2> QED
      BY <1>2, <2>1, <2>2
  <1>5. CASE Upgrade
    <2>1. api'.release = api.release + 1 /\ api'.versions = api.versions /\ UNCHANGED operands
      BY <1>0, <1>5 DEF Upgrade, ForgetPods, Api
    <2> QED
      BY <2>1, VersionTypes DEF VersionInv, Live
  <1>6. ASSUME NEW o \in Operands, NEW new \in Operand, operands' = [operands EXCEPT ![o] = new],
               UNCHANGED api, ~new.exists \/ new.version \in {api.release, operands[o].version},
               new.exists /\ new.version # api.release => operands[o].exists
        PROVE  VersionInv'
    <2>1. ASSUME NEW k \in Live'
          PROVE  NoVersion <= operands'[k].version /\ api.versions <= operands'[k].version
      <3>1. CASE k = o
        BY <1>0, <1>6, <2>1, <3>1, VersionTypes DEF VersionInv, Live
      <3>2. CASE k # o
        BY <1>0, <1>6, <2>1, <3>2 DEF VersionInv, Live
      <3> QED
        BY <3>1, <3>2
    <2> QED
      BY <1>6, <2>1 DEF VersionInv
  <1>7. ASSUME NEW o \in Operands,
               CreateOperand(o) \/ UpdateOperand(o) \/ StatusChange(o) \/ DeleteOperand(o) \/ PodCrash(o)
        PROVE  VersionInv'
    <2>0. operands[o] \in Operand /\ api.release \in Int /\ UNCHANGED api
      BY <1>0, <1>7 DEF Api, CreateOperand, UpdateOperand, StatusChange, DeleteOperand, PodCrash,
                        Event, statusVars
    <2>1. CASE CreateOperand(o)
      <3> DEFINE new == [NoOperand EXCEPT !.exists = TRUE, !.version = api.release]
      <3>1. new \in Operand /\ new.version = api.release
        BY <2>0, NoEntryType DEF Operand
      <3>2. operands' = [operands EXCEPT ![o] = new]
        BY <2>1 DEF CreateOperand, Event
      <3> HIDE DEF new
      <3> QED
        BY <1>6, <2>0, <3>1, <3>2
    <2>2. CASE UpdateOperand(o)
      <3> DEFINE new == [operands[o] EXCEPT !.version = api.release]
      <3>1. new \in Operand /\ new.version = api.release
        BY <2>0 DEF Operand
      <3>2. operands' = [operands EXCEPT ![o] = new]
        BY <2>2 DEF UpdateOperand, Event
      <3> HIDE DEF new
      <3> QED
        BY <1>6, <2>0, <3>1, <3>2
    <2>3. CASE DeleteOperand(o)
      BY <1>6, <2>0, <2>3, NoEntryType DEF DeleteOperand, Event
    <2>4. CASE StatusChange(o) \/ PodCrash(o)
      <3>1. SameVersions
        <4>1. CASE StatusChange(o)
          <5>1. PICK s, b : operands' = [operands EXCEPT ![o] = [operands[o] EXCEPT !.status = s, !.crashing = b]]
            BY <4>1 DEF StatusChange, Event
          <5> QED
            BY <1>0, <5>1 DEF SameVersions, Operand
        <4>2. CASE PodCrash(o)
          <5>1. PICK b : operands' = [operands EXCEPT ![o] = [operands[o] EXCEPT !.crashing = b]]
            BY <1>0, <4>2 DEF PodCrash
          <5> QED
            BY <1>0, <5>1 DEF SameVersions, Operand
        <4> QED
          BY <2>4, <4>1, <4>2
      <3> QED
        BY <2>0, <3>1, VersionKept DEF VersionStep
    <2> QED
      BY <1>7, <2>1, <2>2, <2>3, <2>4
  <1> QED
    BY <1>1, <1>3, <1>4, <1>5, <1>7 DEF PodNext, Operate, Surroundings

LEMMA VersionInit ==
  ASSUME PodInit PROVE VersionInv
  <1>1. CASE InitNewCluster
    <2>1. Live = {}
      BY <1>1, NoEntryType DEF InitNewCluster, Live
    <2>2. api.release = 0 /\ api.versions = NoVersion
      BY <1>1 DEF InitNewCluster, InitApi
    <2> QED
      BY <2>1, <2>2 DEF VersionInv, NoVersion
  <1>2. CASE InitLegacyCluster
    <2>1. api.release = 1 /\ api.versions = 0
      BY <1>2 DEF InitLegacyCluster, InitApi
    <2>2. ASSUME NEW o \in Operands PROVE operands[o].version = 0
      <3>1. PICK s : operands = [k \in Operands |->
                                   [NoOperand EXCEPT !.exists = TRUE, !.version = 0,
                                                     !.status = [s[k] EXCEPT !.observed = 0]]]
        BY <1>2 DEF InitLegacyCluster
      <3>2. operands[o] = [NoOperand EXCEPT !.exists = TRUE, !.version = 0,
                                            !.status = [s[o] EXCEPT !.observed = 0]]
        BY <3>1
      <3>3. \A n, t : [NoOperand EXCEPT !.exists = TRUE, !.version = n, !.status = t].version = n
        BY DEF NoOperand
      <3> QED
        BY <3>2, <3>3, Zenon
    <2> QED
      BY <2>1, <2>2 DEF VersionInv, NoVersion, Live
  <1> QED
    BY <1>1, <1>2 DEF PodInit

(* The ClusterOperator never reports a version that an operand in the      *)
(* cluster has not been given yet (SetFromPods, reachedAvailableLevel).    *)
THEOREM VersionNeverAhead == PodSpec => []VersionNotAhead
  <1>1. PodInit => VersionInv
    BY VersionInit
  <1>2. PodType /\ VersionInv /\ [PodNext]_vars => VersionInv'
    <2>1. ASSUME VersionInv, UNCHANGED vars PROVE VersionInv'
      BY <2>1 DEF vars, statusVars, podVars, VersionInv, Live
    <2> QED
      BY <2>1, VersionStepInv
  <1>3. VersionInv => VersionNotAhead
    BY DEF VersionInv, VersionNotAhead
  <1> QED
    BY <1>1, <1>2, <1>3, PodTypeInvariant, PTL DEF PodSpec

--------------------------------------------------------------------------------
(* RolloutHung                                                             *)

(* Every SetFromPods reads the annotation, and writes it; an operand whose *)
(* roll-out is timed is not deleted, since the annotation keeps the entry  *)
(* of an operand that is not listed any more and one created again under   *)
(* its name would inherit it.                                              *)
AnnotationRead == \A c \in Calls : c.read
AnnotationWritten == \A c \in Calls : c.annotate /\ c.sets[1].writeCO
WatchedStay == Removable \cap Critical = {}

(* The annotation is the clock: what a new process reads is since when     *)
(* each operand has in fact made no progress.                              *)
HungInv ==
  /\ clock = lastSeen.states
  /\ \A o \in Operands : o \notin Live \cap Critical => clock[o] = NoEntry
  /\ ~api.coExists => clock = NoEntries
  /\ HungExact

LEMMA AgedNothing == Aged(NoEntries) = NoEntries
  <1>1. ASSUME NEW o \in Operands PROVE [NoEntries[o] EXCEPT !.age = Older(@, ProgressTimeout + 1)] = NoEntry
    <2>1. Older(NotSeen, ProgressTimeout + 1) = NotSeen
      BY DEF Older, NotSeen
    <2> QED
      BY <2>1 DEF NoEntries, NoEntry
  <1> QED
    BY <1>1 DEF Aged, NoEntries

(* One SetFromPods moves the annotation as it moves the clock.             *)
LEMMA HungReported ==
  ASSUME PodType, HungInv, AnnotationRead, AnnotationWritten, NEW c \in Calls, SetFromPods(c)
  PROVE  HungInv'
  <1>0. c.read /\ c.annotate /\ c.sets[1].writeCO /\ ProgressTimeout \in Nat
    BY PodBoundsAssumption DEF AnnotationRead, AnnotationWritten
  <1>1. PICK v : v = Verdict(c)
    OBVIOUS
  <1>2. PICK r : r = ReportVerdict(v, c.sets)
    OBVIOUS
  <1>3. /\ r.slots[RolloutHung] = "Degraded" <=> v.hung # {}
        /\ setNotDegraded(Self, PodDeployment, c.sets[1]).api.coExists /\ r.api.coExists
    BY <1>0, <1>2, CallFacts, ChainResult DEF PodType
  <1>4. api' = r.api /\ failing' = r.slots
    BY <1>1, <1>2, SetFromPodsParts DEF Locked
  <1>5. /\ v.critical \subseteq Live \cap Critical /\ v.states = NewEntries(Past(c), v.critical)
        /\ v.hung = {o \in v.critical : v.states[o].age > ProgressTimeout}
    BY <1>1, VerdictParts
  <1>6. clock' = [o \in Operands |->
                    IF o \in v.critical THEN Noted(clock[o], operands[o].status) ELSE NoEntry]
    BY <1>1, SetFromPodsParts
  <1>7. Past(c) = clock
    BY <1>0 DEF Past, HungInv
  <1>8. v.states = clock'
    <2>1. ASSUME NEW o \in Operands
          PROVE  (IF o \in v.critical THEN Noted(clock[o], operands[o].status)
                  ELSE IF o \in Live THEN NoEntry ELSE clock[o])
                 = IF o \in v.critical THEN Noted(clock[o], operands[o].status) ELSE NoEntry
      BY DEF HungInv
    <2> QED
      BY <1>5, <1>6, <1>7, <2>1 DEF NewEntries
  <1>9. lastSeen' = [install |-> IF v.complete THEN "true" ELSE "false", states |-> v.states]
    BY <1>0, <1>1, <1>3, SetFromPodsParts
  <1>10. overdue' <=> v.hung # {}
    <2>1. overdue' = \E o \in Operands : clock'[o].age > ProgressTimeout
      BY <1>1, SetFromPodsParts
    <2>2. \A o \in Operands : o \notin v.critical => ~(clock'[o].age > ProgressTimeout)
      BY <1>0, <1>6, NoEntryType DEF NotSeen
    <2>3. v.critical \subseteq Operands
      BY <1>5 DEF Live
    <2> QED
      BY <1>5, <1>8, <2>1, <2>2, <2>3
  <1>11. HungExact'
    BY <1>3, <1>4, <1>10 DEF HungExact
  <1>12. Live' = Live
    <2>1. PICK marked : operands' = [o \in Operands |->
                          IF o \in marked THEN [operands[o] EXCEPT !.hung = ~@] ELSE operands[o]]
      BY SetFromPodsParts
    <2> QED
      BY <2>1 DEF PodType, Operand, Live
  <1>13. \A o \in Operands : o \notin Live' \cap Critical => clock'[o] = NoEntry
    BY <1>5, <1>6, <1>12
  <1>14. clock' = lastSeen'.states /\ api'.coExists
    BY <1>3, <1>4, <1>8, <1>9
  <1> QED
    BY <1>11, <1>13, <1>14 DEF HungInv

LEMMA HungStep ==
  ASSUME PodType, HungInv, AnnotationRead, AnnotationWritten, WatchedStay, PodNext
  PROVE  HungInv'
  <1>0. /\ operands \in [Operands -> Operand] /\ api \in Api /\ TypeOK
        /\ clock \in [Operands -> Entry] /\ lastSeen \in [install : InstallRecord, states : [Operands -> Entry]]
        /\ RolloutHung \in Levels
    BY PodLevelFacts DEF PodType, TypeOK, EntriesOK
  <1>1. ASSUME NEW c \in Calls, SetFromPods(c) PROVE HungInv'
    BY <1>1, HungReported
  <1>2. ASSUME api.coExists => api'.coExists, failing' = NoFailures, ForgetPods PROVE HungInv'
    <2>1. UNCHANGED <<operands, lastSeen, clock>> /\ overdue' = FALSE
      BY <1>2 DEF ForgetPods
    <2>2. HungExact'
      BY <1>0, <1>2, <2>1 DEF HungExact, NoFailures
    <2> QED
      BY <1>2, <2>1, <2>2 DEF HungInv, Live
  <1>3. CASE PodPanic \/ PodRestart \/ Upgrade
    <2>1. CASE PodPanic
      <3>1. PICK o \in Outcomes : SetDegradedOnPanicAndCrash(o)
        BY <2>1 DEF PodPanic
      <3>2. (api.coExists => api'.coExists) /\ ForgetMemory
        BY <1>0, <3>1, PanicPublished, SetVersion DEF Published
      <3> QED
        BY <1>2, <2>1, <3>2 DEF PodPanic, ForgetMemory
    <2>2. CASE PodRestart
      BY <1>2, <2>2 DEF PodRestart, Restart, ForgetMemory
    <2>3. CASE Upgrade
      <3>1. api'.coExists = api.coExists
        BY <1>0, <2>3 DEF Upgrade, Api
      <3> QED
        BY <1>2, <2>3, <3>1 DEF Upgrade, ForgetMemory
    <2> QED
      BY <1>3, <2>1, <2>2, <2>3
  <1>4. ASSUME NEW o \in Operands,
               CreateOperand(o) \/ UpdateOperand(o) \/ StatusChange(o) \/ DeleteOperand(o) \/ PodCrash(o)
        PROVE  HungInv'
    <2>1. UNCHANGED <<statusVars, lastSeen, overdue>>
      BY <1>4 DEF CreateOperand, UpdateOperand, StatusChange, DeleteOperand, PodCrash, Event
    <2>2. clock' = clock
      <3>1. CASE DeleteOperand(o)
        <4>1. o \notin Critical /\ clock' = [clock EXCEPT ![o] = NoEntry]
          BY <3>1 DEF DeleteOperand, WatchedStay
        <4> QED
          BY <1>0, <4>1 DEF HungInv
      <3> QED
        BY <1>4, <3>1 DEF CreateOperand, UpdateOperand, StatusChange, PodCrash
    <2>3. ASSUME NEW k \in Operands, k \notin Live' \cap Critical PROVE clock[k] = NoEntry
      <3>1. CASE k = o /\ DeleteOperand(o)
        BY <3>1 DEF DeleteOperand, WatchedStay, HungInv
      <3>2. CASE ~(k = o /\ DeleteOperand(o))
        <4>1. k \in Live => k \in Live'
          <5>0. PICK new : operands' = [operands EXCEPT ![o] = new] /\ (DeleteOperand(o) \/ new.exists)
            <6>1. CASE CreateOperand(o)
              <7>1. operands' = [operands EXCEPT ![o] = [NoOperand EXCEPT !.exists = TRUE, !.version = api.release]]
                BY <6>1 DEF CreateOperand, Event
              <7>2. [NoOperand EXCEPT !.exists = TRUE, !.version = api.release].exists
                BY NoEntryType DEF Operand
              <7> QED
                BY <7>1, <7>2
            <6>2. CASE UpdateOperand(o)
              <7>1. /\ operands' = [operands EXCEPT ![o] = [operands[o] EXCEPT !.version = api.release]]
                    /\ operands[o].exists
                BY <6>2 DEF UpdateOperand, Event
              <7>2. [operands[o] EXCEPT !.version = api.release].exists
                BY <1>0, <7>1 DEF Operand
              <7> QED
                BY <7>1, <7>2
            <6>3. CASE StatusChange(o)
              <7>1. PICK t, b : operands' = [operands EXCEPT ![o] =
                                               [operands[o] EXCEPT !.status = t, !.crashing = b]]
                                /\ operands[o].exists
                BY <6>3 DEF StatusChange, Event
              <7>2. [operands[o] EXCEPT !.status = t, !.crashing = b].exists
                BY <1>0, <7>1 DEF Operand
              <7> QED
                BY <7>1, <7>2
            <6>4. CASE DeleteOperand(o)
              BY <6>4 DEF DeleteOperand, Event
            <6>5. CASE PodCrash(o)
              <7>1. PICK b : operands' = [operands EXCEPT ![o] = [operands[o] EXCEPT !.crashing = b]]
                             /\ operands[o].exists
                BY <1>0, <6>5 DEF PodCrash
              <7>2. [operands[o] EXCEPT !.crashing = b].exists
                BY <1>0, <7>1 DEF Operand
              <7> QED
                BY <7>1, <7>2
            <6> QED
              BY <1>4, <6>1, <6>2, <6>3, <6>4, <6>5
          <5>1. k \in Live => operands'[k].exists
            BY <1>0, <3>2, <5>0 DEF Live
          <5> QED
            BY <5>1 DEF Live
        <4> QED
          BY <2>3, <4>1 DEF HungInv
      <3> QED
        BY <3>1, <3>2
    <2>4. HungExact'
      BY <2>1 DEF statusVars, HungExact, HungInv
    <2> QED
      BY <2>1, <2>2, <2>3, <2>4 DEF HungInv, statusVars
  <1>5. CASE PodTick
    <2>1. /\ UNCHANGED <<failing, api, operands, overdue>> /\ clock' = Aged(clock)
          /\ lastSeen' = [lastSeen EXCEPT !.states = Aged(lastSeen.states)]
      BY <1>0, <1>5 DEF PodTick, Tick
    <2>2. lastSeen'.states = clock'
      BY <1>0, <2>1 DEF HungInv
    <2>3. ASSUME NEW o \in Operands, clock[o] = NoEntry PROVE Aged(clock)[o] = NoEntry
      <3>1. Aged(clock)[o] = [NoEntries[o] EXCEPT !.age = Older(@, ProgressTimeout + 1)]
        BY <2>3 DEF Aged, NoEntries
      <3>2. Aged(NoEntries)[o] = [NoEntries[o] EXCEPT !.age = Older(@, ProgressTimeout + 1)]
        BY DEF Aged
      <3> QED
        BY <3>1, <3>2, AgedNothing DEF NoEntries
    <2>4. HungExact'
      BY <2>1 DEF HungExact, HungInv
    <2> QED
      BY <2>1, <2>2, <2>3, <2>4, AgedNothing DEF HungInv, Live
  <1>6. CASE PodDeleteOperConfig
    <2>1. UNCHANGED podVars /\ api'.coExists = api.coExists /\ UNCHANGED failing
      BY <1>0, <1>6 DEF PodDeleteOperConfig, DeleteOperConfig, CreateOperConfig, Api
    <2> QED
      BY <2>1 DEF podVars, HungInv, HungExact, Live
  <1>7. CASE PodDeleteClusterOperator
    <2>1. /\ UNCHANGED <<failing, operands, overdue>> /\ clock' = NoEntries
          /\ lastSeen' = [install |-> "absent", states |-> NoEntries]
      BY <1>7 DEF PodDeleteClusterOperator, DeleteClusterOperator
    <2>2. HungExact'
      BY <2>1 DEF HungExact, HungInv
    <2> QED
      BY <2>1, <2>2 DEF HungInv, NoEntries
  <1> QED
    BY <1>1, <1>3, <1>4, <1>5, <1>6, <1>7 DEF PodNext, Operate, Surroundings

LEMMA HungInit ==
  ASSUME PodInit PROVE HungInv
  <1>0. PICK i : lastSeen = [install |-> i, states |-> NoEntries]
    BY DEF PodInit, InitNewCluster, InitLegacyCluster
  <1>1. lastSeen.states = NoEntries /\ clock = NoEntries /\ failing = NoFailures /\ overdue = FALSE
    BY <1>0 DEF PodInit, InitStatus
  <1>2. HungExact
    BY <1>1, PodLevelFacts DEF HungExact, NoFailures
  <1> QED
    BY <1>1, <1>2 DEF HungInv, NoEntries

(* If the annotation can be read and written, and no operand whose         *)
(* roll-out is timed is deleted, RolloutHung is reported exactly when one  *)
(* of them has shown the same status for longer than ProgressTimeout,      *)
(* however often the operator restarted (SetFromPods, lastPodState).       *)
THEOREM HungIsExact ==
  ASSUME AnnotationRead, AnnotationWritten, WatchedStay
  PROVE  PodSpec => []HungExact
  <1>1. PodInit => HungInv
    BY HungInit
  <1>2. PodType /\ HungInv /\ [PodNext]_vars => HungInv'
    <2>1. ASSUME HungInv, UNCHANGED vars PROVE HungInv'
      BY <2>1 DEF vars, statusVars, podVars, HungInv, HungExact, Live
    <2> QED
      BY <2>1, HungStep
  <1>3. HungInv => HungExact
    BY DEF HungInv
  <1> QED
    BY <1>1, <1>2, <1>3, PodTypeInvariant, PTL DEF PodSpec

--------------------------------------------------------------------------------
(* Available, and the record of the installation                           *)

(* Whenever set() wants to seed network.operator it can read the           *)
(* ClusterOperator; and Available=True, if it reached the ClusterOperator  *)
(* alone, is followed by a set() that compares the two.                    *)
SeedReadable == /\ \A o \in Outcomes : o.readCO
                /\ \A c \in Calls : \A i \in 1 .. 5 : c.sets[i].readCO
AvailableLands == \A c \in Calls : Lands(c.sets)

(* The seed that keeps Available=True is there whenever it is needed, and  *)
(* so is the annotation's object.                                          *)
AvailableInv == AvailableAgrees(api) /\ (lastSeen.install # "absent" => api.coExists)

(* SetFromPods and the panic handler publish; the rest leaves Available.   *)
LEMMA AvailableReported ==
  ASSUME PodType, AvailableInv, SeedReadable, AvailableLands, NEW c \in Calls, SetFromPods(c)
  PROVE  AvailableInv' /\ AvailableStep(api, api')
  <1>1. PICK v : v = Verdict(c)
    OBVIOUS
  <1>2. PICK r : r = ReportVerdict(v, c.sets)
    OBVIOUS
  <1>3. TypeOK /\ c.sets \in [1 .. 5 -> Outcome] /\ Lands(c.sets) /\ \A i \in 1 .. 5 : c.sets[i].readCO
    BY CallFacts DEF PodType, SeedReadable, AvailableLands
  <1>4. AvailableAgrees(r.api) /\ AvailableStep(api, r.api)
    BY <1>2, <1>3, ChainAvailable DEF AvailableInv
  <1>5. /\ api.coExists => r.api.coExists
        /\ setNotDegraded(Self, PodDeployment, c.sets[1]).api.coExists => r.api.coExists
    BY <1>2, <1>3, ChainResult
  <1>6. api' = r.api
    BY <1>1, <1>2, SetFromPodsParts DEF Locked
  <1>7. lastSeen'.install # "absent" => api'.coExists
    <2>1. CASE lastSeen' = lastSeen
      BY <1>5, <1>6, <2>1 DEF AvailableInv
    <2>2. CASE lastSeen' # lastSeen
      BY <1>1, <1>5, <1>6, <2>2, SetFromPodsParts
    <2> QED
      BY <2>1, <2>2
  <1>8. AvailableAgrees(api')
    BY <1>4, <1>6
  <1> QED
    BY <1>4, <1>6, <1>7, <1>8 DEF AvailableInv, AvailableAgrees

LEMMA AvailableNext ==
  ASSUME PodType, AvailableInv, SeedReadable, AvailableLands, PodNext
  PROVE  AvailableInv' /\ (api'.coExists => AvailableStep(api, api'))
  <1>0. api \in Api /\ TypeOK
    BY DEF PodType, TypeOK
  <1>1. ASSUME NEW c \in Calls, SetFromPods(c)
        PROVE  AvailableInv' /\ AvailableStep(api, api')
    BY <1>1, AvailableReported
  <1>2. CASE PodPanic
    <2>1. PICK o \in Outcomes : SetDegradedOnPanicAndCrash(o)
      BY <1>2 DEF PodPanic
    <2>2. Published(api, api', o) /\ o \in Outcome /\ o.readCO
      BY <1>0, <2>1, PanicPublished DEF SeedReadable
    <2>3. PICK type \in Reported, cond \in Condition : SetResult(api, api', FALSE, type, cond, o)
      BY <2>2 DEF Published
    <2>4. AvailableAgrees(api') /\ AvailableStep(api, api')
      BY <1>0, <2>2, <2>3, SetKeepsAvailable DEF AvailableInv
    <2>5. api.coExists => api'.coExists
      BY <2>3 DEF SetResult
    <2>6. UNCHANGED lastSeen
      BY <1>2 DEF PodPanic, ForgetPods
    <2> QED
      BY <2>4, <2>5, <2>6 DEF AvailableInv, AvailableAgrees
  <1>3. ASSUME api'.co = api.co, api'.coExists = api.coExists,
               api'.oper["Available"] \in {api.oper["Available"], Unset},
               lastSeen'.install = lastSeen.install
        PROVE  AvailableInv' /\ AvailableStep(api, api')
    BY <1>3 DEF AvailableInv, AvailableAgrees, AvailableStep
  <1>4. CASE PodRestart \/ Upgrade
    <2>1. api'.co = api.co /\ api'.coExists = api.coExists /\ api'.oper = api.oper
      BY <1>0, <1>4 DEF PodRestart, Restart, Upgrade, Api
    <2> QED
      BY <1>3, <1>4, <2>1 DEF PodRestart, Upgrade, ForgetPods
  <1>5. ASSUME NEW o \in Operands,
               CreateOperand(o) \/ UpdateOperand(o) \/ StatusChange(o) \/ DeleteOperand(o) \/ PodCrash(o)
        PROVE  AvailableInv' /\ AvailableStep(api, api')
    <2>1. UNCHANGED <<statusVars, lastSeen>>
      BY <1>5 DEF CreateOperand, UpdateOperand, StatusChange, DeleteOperand, PodCrash, Event
    <2> QED
      BY <1>3, <2>1 DEF statusVars
  <1>6. CASE PodTick
    <2>1. lastSeen'.install = lastSeen.install /\ api' = api
      BY <1>6 DEF PodTick, Tick, PodType
    <2> QED
      BY <1>3, <2>1
  <1>7. CASE PodDeleteOperConfig
    <2>1. /\ api'.co = api.co /\ api'.coExists = api.coExists
          /\ api'.oper \in {api.oper, NoConditions} /\ UNCHANGED lastSeen
      BY <1>0, <1>7 DEF PodDeleteOperConfig, DeleteOperConfig, CreateOperConfig, podVars, Api
    <2>2. NoConditions["Available"] = Unset
      BY DEF NoConditions, Types
    <2> QED
      BY <1>3, <2>1, <2>2
  <1>8. CASE PodDeleteClusterOperator
    <2>1. /\ api'.co = NoConditions /\ api'.coExists = FALSE /\ lastSeen'.install = "absent"
      BY <1>0, <1>8 DEF PodDeleteClusterOperator, DeleteClusterOperator, Api
    <2>2. NoConditions["Available"] # CondTrue
      BY Conditions3 DEF NoConditions, Types
    <2> QED
      BY <2>1, <2>2 DEF AvailableInv, AvailableAgrees
  <1> QED
    BY <1>1, <1>2, <1>4, <1>5, <1>6, <1>7, <1>8 DEF PodNext, Operate, Surroundings

LEMMA AvailableInit ==
  ASSUME PodInit PROVE AvailableInv
  <1>1. NoConditions["Available"] # CondTrue
    BY Conditions3 DEF NoConditions, Types
  <1>2. CASE InitNewCluster
    BY <1>1, <1>2 DEF InitNewCluster, InitApi, AvailableInv, AvailableAgrees
  <1>3. CASE InitLegacyCluster
    <2>1. api.coExists = TRUE
      BY <1>3 DEF InitLegacyCluster, InitApi
    <2>2. api.oper["Available"] = CondTrue
      BY <1>3 DEF InitLegacyCluster, InitApi, Types
    <2> QED
      BY <2>1, <2>2 DEF AvailableInv, AvailableAgrees
  <1> QED
    BY <1>2, <1>3 DEF PodInit

LEMMA AvailableInvariant ==
  ASSUME SeedReadable, AvailableLands
  PROVE  PodSpec => []AvailableInv
  <1>1. PodInit => AvailableInv
    BY AvailableInit
  <1>2. PodType /\ AvailableInv /\ [PodNext]_vars => AvailableInv'
    <2>1. ASSUME AvailableInv, UNCHANGED vars PROVE AvailableInv'
      BY <2>1 DEF vars, statusVars, podVars, AvailableInv, AvailableAgrees
    <2> QED
      BY <2>1, AvailableNext
  <1> QED
    BY <1>1, <1>2, PodTypeInvariant, PTL DEF PodSpec

(* Once the ClusterOperator says Available=True it goes on saying so, if   *)
(* the seed can be read and Available lands (set, SetFromPods).            *)
THEOREM AvailableStays ==
  ASSUME SeedReadable, AvailableLands
  PROVE  PodSpec => AvailableKept
  <1>1. PodType /\ AvailableInv /\ [PodNext]_vars =>
          [api.co["Available"] = CondTrue /\ api'.coExists => api'.co["Available"] = CondTrue]_vars
    <2>1. ASSUME PodType, AvailableInv, PodNext, api.co["Available"] = CondTrue, api'.coExists
          PROVE  api'.co["Available"] = CondTrue
      BY <2>1, AvailableNext DEF AvailableStep
    <2> QED
      BY <2>1
  <1> QED
    BY <1>1, AvailableInvariant, PodTypeInvariant, PTL DEF PodSpec, AvailableKept

(* What is installed stays so, unless the ClusterOperator goes.            *)
LEMMA InstalledStep ==
  ASSUME PodType, AvailableInv, SeedReadable, AvailableLands, AnnotationRead, PodNext,
         Installed, api'.coExists
  PROVE  Installed'
  <1>0. AvailableStep(api, api')
    BY AvailableNext
  <1>1. ASSUME lastSeen'.install = lastSeen.install PROVE Installed'
    BY <1>0, <1>1 DEF Installed, AvailableStep
  <1>2. ASSUME NEW c \in Calls, SetFromPods(c) PROVE Installed'
    <2>1. PICK v : v = Verdict(c)
      OBVIOUS
    <2>2. api.coExists /\ InstallRecorded /\ c.read
      <3>1. c.read
        BY DEF AnnotationRead
      <3>2. lastSeen.install \in {"true", "legacy"}
        BY DEF Installed
      <3>3. api.coExists
        BY <3>2 DEF AvailableInv
      <3>4. CondTrue.status = "True"
        BY DEF CondTrue
      <3>5. InstallRecorded
        BY <3>4 DEF Installed, InstallRecorded
      <3> QED
        BY <3>1, <3>3, <3>5
    <2>3. v.complete
      BY <2>1, <2>2, VerdictParts DEF InstallSeen
    <2>4. lastSeen' = lastSeen \/ lastSeen' = [install |-> "true", states |-> v.states]
      BY <1>2, <2>1, <2>3, SetFromPodsParts
    <2> QED
      BY <1>1, <2>4 DEF Installed
  <1>3. CASE PodPanic \/ PodRestart \/ Upgrade \/ PodDeleteOperConfig
    BY <1>1, <1>3 DEF PodPanic, PodRestart, Upgrade, PodDeleteOperConfig, ForgetPods, podVars
  <1>4. ASSUME NEW o \in Operands,
               CreateOperand(o) \/ UpdateOperand(o) \/ StatusChange(o) \/ DeleteOperand(o) \/ PodCrash(o)
        PROVE  Installed'
    <2>1. UNCHANGED lastSeen
      BY <1>4 DEF CreateOperand, UpdateOperand, StatusChange, DeleteOperand, PodCrash, Event
    <2> QED
      BY <1>1, <2>1
  <1>5. CASE PodTick
    BY <1>1, <1>5 DEF PodTick, PodType
  <1>6. CASE PodDeleteClusterOperator
    <2>1. api'.coExists = FALSE
      BY <1>6 DEF PodDeleteClusterOperator, DeleteClusterOperator, PodType, TypeOK, Api
    <2> QED
      BY <2>1
  <1> QED
    BY <1>2, <1>3, <1>4, <1>5, <1>6 DEF PodNext, Operate, Surroundings

(* If moreover the annotation can be read, an installation recorded as     *)
(* complete, also by a release that only showed it as Available=True, is   *)
(* never forgotten (installCompleteFromLastPodState).                      *)
THEOREM BootstrapStays ==
  ASSUME SeedReadable, AvailableLands, AnnotationRead
  PROVE  PodSpec => BootstrapNotReentered
  <1>1. PodType /\ AvailableInv /\ [PodNext]_vars => [Installed /\ api'.coExists => Installed']_vars
    <2>1. ASSUME PodType, AvailableInv, PodNext, Installed, api'.coExists PROVE Installed'
      BY <2>1, InstalledStep
    <2> QED
      BY <2>1
  <1> QED
    BY <1>1, AvailableInvariant, PodTypeInvariant, PTL DEF PodSpec, BootstrapNotReentered

================================================================================
