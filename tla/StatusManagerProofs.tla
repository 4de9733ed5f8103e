-------------------------- MODULE StatusManagerProofs --------------------------
(***************************************************************************)
(* Machine-checked proofs about StatusManager, for every set of levels,    *)
(* threshold, set of explored failures and platform.                       *)
(***************************************************************************)
EXTENDS StatusManager, TLAPS

--------------------------------------------------------------------------------
(* A non-empty set of levels has a lowest one.                             *)
LEMMA LowestLevel ==
  ASSUME NEW S \in SUBSET StatusLevel, S # {}
  PROVE  Lowest(S) \in S /\ \A k \in S : Lowest(S) <= k
<1>1. S \subseteq 0 .. 14
  BY DEF StatusLevel, PanicLevel, DashboardConfig
<1>2. \E x \in S : \A y \in S : x <= y
  <2> SUFFICES ASSUME \A x \in S : \E y \in S : ~ (x <= y)
               PROVE  FALSE
    OBVIOUS
  <2>1. \A x \in S : \E y \in S : y < x
    BY <1>1
  <2>2. 0 \notin S /\ 1 \notin S /\ 2 \notin S /\ 3 \notin S
    BY <1>1, <2>1
  <2>3. 4 \notin S /\ 5 \notin S /\ 6 \notin S /\ 7 \notin S
    BY <1>1, <2>1, <2>2
  <2>4. 8 \notin S /\ 9 \notin S /\ 10 \notin S /\ 11 \notin S
    BY <1>1, <2>1, <2>2, <2>3
  <2>5. 12 \notin S /\ 13 \notin S /\ 14 \notin S
    BY <1>1, <2>1, <2>2, <2>3, <2>4
  <2>6. PICK x \in S : TRUE
    OBVIOUS
  <2>7. x \in 0 .. 14
    BY <1>1
  <2>8. QED
    BY <2>2, <2>3, <2>4, <2>5, <2>7
<1>3. QED
  BY <1>2 DEF Lowest

(* The condition a sync publishes is a raised level or False, never unset. *)
LEMMA SyncType ==
  ASSUME NEW slots, NEW type
  PROVE  Sync(slots, type) \in Condition /\ Sync(slots, type) # Unset
<1>1. Holding(slots, type) \in SUBSET StatusLevel
  BY LevelsAssumption DEF Holding
<1>2. CASE Holding(slots, type) = {}
  BY <1>2 DEF Sync, CondFalse, Condition, Unset
<1>3. CASE Holding(slots, type) # {}
  <2>1. Lowest(Holding(slots, type)) \in StatusLevel
    BY <1>1, <1>3, LowestLevel
  <2>2. QED
    BY <1>3, <2>1 DEF Sync, Raised, Condition, Unset
<1>4. QED
  BY <1>2, <1>3

(* Only which levels hold a type decides what its sync publishes.          *)
LEMMA SyncCongruence ==
  ASSUME NEW f, NEW g, NEW type,
         \A l \in Levels : f[l] = type <=> g[l] = type
  PROVE  Sync(f, type) = Sync(g, type)
<1>1. Holding(f, type) = Holding(g, type)
  BY DEF Holding
<1>2. QED
  BY <1>1 DEF Sync

(* Laying one set of conditions over another yields conditions again.      *)
LEMMA OverlayType ==
  ASSUME NEW f \in [Types -> Condition], NEW g \in [Types -> Condition]
  PROVE  Overlay(f, g) \in [Types -> Condition]
BY DEF Overlay

LEMMA OperStatusType ==
  ASSUME NEW a \in Api, NEW type \in Types, NEW cond \in Condition, NEW o \in Outcome
  PROVE  OperStatus(a, type, cond, o) \in [Types -> Condition]
<1>1. a.oper \in [Types -> Condition] /\ a.co \in [Types -> Condition]
  BY DEF Api
<1>2. Seeded(a, o) \in [Types -> Condition]
  BY <1>1, OverlayType DEF Seeded
<1>3. CondFalse \in Condition
  BY DEF CondFalse, Condition
<1>4. QED
  BY <1>2, <1>3 DEF OperStatus

(* The two mirrors stay well-formed, whatever calls fail.                  *)
LEMMA SetClusterOperatorType ==
  ASSUME NEW a \in Api, NEW reached, NEW os \in [Types -> Condition], NEW o \in Outcome
  PROVE  SetClusterOperator(a, reached, os, o) \in Api
<1>1. /\ a.co \in [Types -> Condition]
      /\ NoConditions \in [Types -> Condition]
      /\ Raised(NoOperConfig) \in Condition
      /\ NoVersion \in Int
  BY DEF Api, NoConditions, Unset, Condition, Raised, NoVersion
<1>2. Overlay(os, a.co) \in [Types -> Condition]
  BY <1>1, OverlayType
<1>3. QED
  BY <1>1, <1>2 DEF SetClusterOperator, Api

LEMMA SetHostedControlPlaneType ==
  ASSUME NEW a \in Api, NEW read, NEW os \in [Types -> Condition], NEW o \in Outcome
  PROVE  SetHostedControlPlane(a, read, os, o) \in Api
<1>1. CondUnknown \in Condition
  BY DEF CondUnknown, Condition
<1>2. Overlay(os, a.hcp) \in [Types -> Condition]
  BY OverlayType DEF Api
<1>3. QED
  BY <1>1, <1>2 DEF SetHostedControlPlane, Api

(* set() keeps the API objects well-formed, whatever calls fail.           *)
LEMMA SetType ==
  ASSUME NEW a \in Api, NEW reached, NEW type \in Types,
         NEW cond \in Condition, NEW o \in Outcome
  PROVE  Set(a, reached, type, cond, o) \in Api
<1> DEFINE os == OperStatus(a, type, cond, o)
           afterCO == SetClusterOperator(a, reached, os, o)
           afterHCP == SetHostedControlPlane(afterCO, OperRead(a, o), os, o)
<1>1. os \in [Types -> Condition]
  BY OperStatusType
<1>2. afterCO \in Api
  BY <1>1, SetClusterOperatorType
<1>3. afterHCP \in Api
  BY <1>1, <1>2, SetHostedControlPlaneType
<1>4. Set(a, reached, type, cond, o) =
        IF OperRead(a, o) /\ o.apply THEN [afterHCP EXCEPT !.oper = os] ELSE afterHCP
  BY DEF Set
<1> HIDE DEF os, afterHCP
<1>5. QED
  BY <1>1, <1>3, <1>4 DEF Api

(* The status computed for one reported type: the new condition for that   *)
(* type; for the other one, what both objects already agreed on.           *)
LEMMA OperStatusValue ==
  ASSUME NEW a \in Api, NEW type \in Reported, NEW cond \in Condition, NEW o \in Outcome
  PROVE  /\ OperStatus(a, type, cond, o)[type] = cond
         /\ \A t \in Reported \ {type} : a.oper[t] = a.co[t]
              => OperStatus(a, type, cond, o)[t] = a.oper[t]
<1>1. Reported \subseteq Types /\ "Available" \in Types /\ "Available" \notin Reported
  BY DEF Reported, Types
<1>2. a.oper \in [Types -> Condition] /\ a.co \in [Types -> Condition]
  BY DEF Api
<1>3. Seeded(a, o) \in [Types -> Condition]
  BY <1>2, OverlayType DEF Seeded
<1>4. \A t \in Reported : a.oper[t] = a.co[t] => Seeded(a, o)[t] = a.oper[t]
  BY <1>1, <1>2 DEF Seeded, Overlay
<1>5. QED
  BY <1>1, <1>3, <1>4 DEF OperStatus

(* What set() does to the two conditions of a reported type: it lands the  *)
(* new one on both objects when no call failed, and leaves the other type  *)
(* alone, NoOperConfig excepted.                                           *)
SetEffect(a, b, type, cond, o) ==
  /\ a.coExists => b.coExists
  /\ Landed(a, o) => b.oper[type] = cond /\ b.co[type] = cond
  /\ \A t \in Reported \ {type} :
       /\ a.coExists /\ a.oper[t] = a.co[t] /\ a.oper[t] # Unset
       /\ OperRead(a, o) \/ t # "Degraded"
       => b.oper[t] = a.oper[t] /\ b.co[t] = a.co[t]

LEMMA SetValue ==
  ASSUME NEW a \in Api, NEW type \in Reported, NEW cond \in Condition,
         cond # Unset, NEW o \in Outcome
  PROVE  SetEffect(a, Set(a, FALSE, type, cond, o), type, cond, o)
<1> DEFINE os == OperStatus(a, type, cond, o)
           afterCO == SetClusterOperator(a, FALSE, os, o)
           afterHCP == SetHostedControlPlane(afterCO, OperRead(a, o), os, o)
           b == Set(a, FALSE, type, cond, o)
<1>1. Reported \subseteq Types
  BY DEF Reported, Types
<1>2. os \in [Types -> Condition]
  BY <1>1, OperStatusType
<1>3. /\ os[type] = cond
      /\ \A t \in Reported \ {type} : a.oper[t] = a.co[t] => os[t] = a.oper[t]
  BY OperStatusValue
<1> HIDE DEF os
<1>4. afterCO \in Api
  BY <1>2, SetClusterOperatorType
<1>5. /\ afterCO.operExists = a.operExists
      /\ a.coExists => afterCO.coExists
      /\ afterCO.oper = a.oper
      /\ a.coExists /\ ~o.writeCO => afterCO.co = a.co
      /\ a.coExists /\ o.writeCO /\ OperRead(a, o) => afterCO.co = Overlay(os, a.co)
      /\ a.coExists /\ o.writeCO /\ ~OperRead(a, o)
           => \A t \in Types \ {"Degraded"} : afterCO.co[t] = a.co[t]
  BY DEF SetClusterOperator, Api
<1> HIDE DEF afterCO
<1>6. /\ afterHCP \in Api
      /\ afterHCP.operExists = afterCO.operExists
      /\ afterHCP.coExists = afterCO.coExists
      /\ afterHCP.oper = afterCO.oper
      /\ afterHCP.co = afterCO.co
  <2>1. afterHCP \in Api
    BY <1>2, <1>4, SetHostedControlPlaneType
  <2>2. QED
    BY <1>4, <2>1 DEF SetHostedControlPlane, Api
<1> HIDE DEF afterHCP
<1>7. b = IF OperRead(a, o) /\ o.apply THEN [afterHCP EXCEPT !.oper = os] ELSE afterHCP
  BY DEF Set, b, os, afterCO, afterHCP
<1> HIDE DEF b
<1>8. /\ b.operExists = afterHCP.operExists
      /\ b.coExists = afterHCP.coExists
      /\ b.co = afterHCP.co
      /\ b.oper = IF OperRead(a, o) /\ o.apply THEN os ELSE afterHCP.oper
  BY <1>6, <1>7 DEF Api
<1>9. Landed(a, o) => b.oper[type] = cond /\ b.co[type] = cond
  BY <1>1, <1>3, <1>5, <1>6, <1>8 DEF Landed, Overlay
<1>10. ASSUME NEW t \in Reported \ {type},
              a.coExists, a.oper[t] = a.co[t], a.oper[t] # Unset,
              OperRead(a, o) \/ t # "Degraded"
       PROVE  b.oper[t] = a.oper[t] /\ b.co[t] = a.co[t]
  <2>1. os[t] = a.oper[t]
    BY <1>3, <1>10
  <2>2. Overlay(os, a.co)[t] = a.co[t]
    BY <1>1, <1>10, <2>1 DEF Overlay
  <2>3. afterCO.co[t] = a.co[t]
    BY <1>1, <1>5, <1>10, <2>2
  <2>4. QED
    BY <1>5, <1>6, <1>8, <2>1, <2>3
<1>11. QED
  BY <1>5, <1>6, <1>8, <1>9, <1>10 DEF b, SetEffect

--------------------------------------------------------------------------------
(* The inductive invariant.                                                *)

(* The slots of a level only ever hold the type its controller reports:    *)
(* without it a sync of one type could follow a change of the other.       *)
SlotsInv ==
  \A l \in Levels : /\ failing[l] = "Degraded" => l \in DegradedLevels
                    /\ failing[l] = "Progressing" => l \in ProgressLevels

(* DegradedExact for both types, and the ClusterOperator it was written to *)
(* still exists.                                                           *)
SyncedInv ==
  \A t \in Reported : synced[t] => api.coExists /\ Shows(t, Sync(failing, t))

(* A noted failure is not older than the last success or restart.          *)
DebounceInv == \A l \in DegradedLevels : firstSeen[l] # NotSeen => firstSeen[l] <= quiet[l]

IInv == TypeOK /\ SlotsInv /\ SyncedInv /\ DebounceInv

(* One locked method that ends in one set().                               *)
SyncStep(type, o) ==
  /\ api' = Publish(api, failing', type, o)
  /\ synced' = Mark(synced, api, type, o)
  /\ mirrored' = Mirrored(api, o)

(* One publication keeps the API objects and the bookkeeping well-formed   *)
(* and the other type exact, as long as it changes no slot of that type.   *)
LEMMA SyncStepPreserves ==
  ASSUME TypeOK, SyncedInv, NEW type \in Reported, NEW o \in Outcome,
         SyncStep(type, o),
         \A t \in Reported \ {type} : \A l \in Levels : failing'[l] = t <=> failing[l] = t
  PROVE  /\ api' \in Api
         /\ synced' \in [Reported -> BOOLEAN]
         /\ mirrored' \in BOOLEAN
         /\ SyncedInv'
<1> DEFINE cond == Sync(failing', type)
<1>1. Reported \subseteq Types /\ "Degraded" \in Reported
  BY DEF Reported, Types
<1>2. cond \in Condition /\ cond # Unset
  BY SyncType
<1>3. api' = Set(api, FALSE, type, cond, o)
  BY DEF SyncStep, Publish
<1>4. api \in Api /\ synced \in [Reported -> BOOLEAN]
  BY DEF TypeOK
<1> HIDE DEF cond
<1>5. api' \in Api
  BY <1>1, <1>2, <1>3, <1>4, SetType
<1>6. SetEffect(api, api', type, cond, o)
  BY <1>2, <1>3, <1>4, SetValue
<1>7. /\ synced' = [Unmarked(synced, api, o) EXCEPT ![type] = Landed(api, o)]
      /\ mirrored' \in BOOLEAN
  BY <1>4 DEF SyncStep, Mark, Mirrored, Landed, OperRead, Outcome, Api
<1>8. /\ Unmarked(synced, api, o) \in [Reported -> BOOLEAN]
      /\ Landed(api, o) \in BOOLEAN
  BY <1>1, <1>4 DEF Unmarked, Landed, OperRead, Outcome, Api
<1>9. synced' \in [Reported -> BOOLEAN]
  BY <1>7, <1>8
<1>10. ASSUME NEW t \in Reported, synced'[t]
      PROVE  api'.coExists /\ Shows(t, Sync(failing, t))'
  <2>1. CASE t = type
    <3>1. Landed(api, o)
      BY <1>7, <1>8, <1>10, <2>1
    <3>2. api'.oper[type] = cond /\ api'.co[type] = cond /\ api'.coExists
      BY <1>6, <3>1 DEF Landed, SetEffect
    <3>3. QED
      BY <2>1, <3>2 DEF Shows, cond
  <2>2. CASE t # type
    <3>1. Unmarked(synced, api, o)[t]
      BY <1>7, <1>8, <1>10, <2>2
    <3>2. synced[t] /\ (OperRead(api, o) \/ t # "Degraded")
      BY <1>1, <1>4, <3>1 DEF Unmarked
    <3>3. /\ api.coExists
          /\ api.oper[t] = Sync(failing, t)
          /\ api.co[t] = Sync(failing, t)
      BY <3>2 DEF SyncedInv, Shows
    <3>4. Sync(failing, t) # Unset
      BY SyncType
    <3>5. api'.coExists /\ api'.oper[t] = api.oper[t] /\ api'.co[t] = api.co[t]
      BY <1>6, <2>2, <3>2, <3>3, <3>4 DEF SetEffect
    <3>6. Sync(failing', t) = Sync(failing, t)
      BY <2>2, SyncCongruence
    <3>7. QED
      BY <3>3, <3>5, <3>6 DEF Shows
  <2>3. QED
    BY <2>1, <2>2
<1>11. QED
  BY <1>5, <1>7, <1>9, <1>10 DEF SyncedInv

--------------------------------------------------------------------------------
(* Initial states, and one lemma per kind of step.                         *)

LEMMA InitEstablishes == Init => IInv
<1> SUFFICES ASSUME Init PROVE IInv
  OBVIOUS
<1>1. api \in Api
  BY DEF Init, InitApi, Api, NoConditions, Condition, Unset, NoCause, NoVersion
<1>2. TypeOK
  <2>1. 0 \in 0 .. Threshold
    BY ThresholdAssumption
  <2>2. failing \in [Levels -> Slot] /\ quiet \in [DegradedLevels -> 0 .. Threshold]
    BY <2>1 DEF Init, InitStatus, NoFailures, Slot
  <2>3. firstSeen \in [Levels -> {NotSeen} \cup 0 .. Threshold]
    BY DEF Init, InitStatus, NothingSeen
  <2>4. synced \in [Reported -> BOOLEAN] /\ mirrored \in BOOLEAN
    BY DEF Init, InitStatus, NothingSynced
  <2>5. QED
    BY <1>1, <2>2, <2>3, <2>4 DEF TypeOK
<1>3. SlotsInv
  BY DEF Init, InitStatus, SlotsInv, NoFailures
<1>4. SyncedInv
  BY DEF Init, InitStatus, SyncedInv, NothingSynced
<1>5. DebounceInv
  BY LevelsAssumption DEF Init, InitStatus, DebounceInv, NothingSeen
<1>6. QED
  BY <1>2, <1>3, <1>4, <1>5 DEF IInv

(* A method that writes `slot` into the slot of level l and then syncs the *)
(* type that level reports.                                                *)
LEMMA SlotStep ==
  ASSUME IInv, NEW l \in Levels, NEW slot \in Slot, NEW type \in Reported, NEW o \in Outcome,
         \/ type = "Degraded" /\ l \in DegradedLevels /\ slot \in {"none", "Degraded"}
         \/ type = "Progressing" /\ l \in ProgressLevels /\ slot \in {"none", "Progressing"},
         failing' = [failing EXCEPT ![l] = slot],
         SyncStep(type, o),
         firstSeen' \in [Levels -> {NotSeen} \cup 0 .. Threshold],
         quiet' \in [DegradedLevels -> 0 .. Threshold],
         DebounceInv'
  PROVE  IInv'
<1>1. /\ TypeOK /\ SlotsInv /\ SyncedInv
      /\ failing \in [Levels -> Slot]
      /\ failing' \in [Levels -> Slot]
  BY DEF IInv, TypeOK
<1>2. DegradedLevels \cap ProgressLevels = {}
  BY LevelsAssumption
<1>3. \A t \in Reported \ {type} : \A k \in Levels : failing'[k] = t <=> failing[k] = t
  BY <1>1, <1>2 DEF SlotsInv, Reported
<1>4. /\ api' \in Api
      /\ synced' \in [Reported -> BOOLEAN]
      /\ mirrored' \in BOOLEAN
      /\ SyncedInv'
  BY <1>1, <1>3, SyncStepPreserves
<1>5. SlotsInv'
  BY <1>1 DEF SlotsInv
<1>6. QED
  BY <1>1, <1>4, <1>5 DEF IInv, TypeOK

(* What the calls do to the variables.                                     *)
LEMMA CallEffects ==
  ASSUME NEW l, NEW o
  PROVE  /\ SetDegraded(l, o) =>
              /\ failing' = [failing EXCEPT ![l] = "Degraded"]
              /\ firstSeen' = [firstSeen EXCEPT ![l] = NotSeen]
              /\ quiet' = [quiet EXCEPT ![l] = 0]
              /\ SyncStep("Degraded", o)
         /\ SetNotDegraded(l, o) =>
              /\ failing' = [failing EXCEPT ![l] = "none"]
              /\ firstSeen' = [firstSeen EXCEPT ![l] = NotSeen]
              /\ quiet' = [quiet EXCEPT ![l] = 0]
              /\ SyncStep("Degraded", o)
         /\ SetProgressing(l, o) =>
              /\ failing' = [failing EXCEPT ![l] = "Progressing"]
              /\ UNCHANGED <<firstSeen, quiet>>
              /\ SyncStep("Progressing", o)
         /\ UnsetProgressing(l, o) =>
              /\ failing' = [failing EXCEPT ![l] = "none"]
              /\ UNCHANGED <<firstSeen, quiet>>
              /\ SyncStep("Progressing", o)
  BY DEF SetDegraded, setDegraded, SetNotDegraded, setNotDegraded, SetProgressing,
         setProgressing, UnsetProgressing, unsetProgressing, Locked, Self, Publishing, SyncStep

(* The three branches of MaybeSetDegraded.                                 *)
NoteFailure(l) ==
  /\ firstSeen' = [firstSeen EXCEPT ![l] = 0]
  /\ UNCHANGED <<failing, api, quiet, synced, mirrored>>
DegradePersistent(l, o) ==
  /\ failing' = [failing EXCEPT ![l] = "Degraded"]
  /\ firstSeen' = [firstSeen EXCEPT ![l] = NotSeen]
  /\ UNCHANGED quiet
  /\ SyncStep("Degraded", o)

LEMMA MaybeSetDegradedEffect ==
  ASSUME NEW l, NEW o, MaybeSetDegraded(l, o)
  PROVE  \/ firstSeen[l] = NotSeen /\ NoteFailure(l)
         \/ firstSeen[l] # NotSeen /\ firstSeen[l] < Threshold /\ UNCHANGED statusVars
         \/ firstSeen[l] # NotSeen /\ ~(firstSeen[l] < Threshold) /\ DegradePersistent(l, o)
<1>1. CASE firstSeen[l] = NotSeen
  BY <1>1 DEF MaybeSetDegraded, maybeSetDegraded, Locked, Self, NoteFailure
<1>2. CASE firstSeen[l] # NotSeen /\ firstSeen[l] < Threshold
  BY <1>2 DEF MaybeSetDegraded, maybeSetDegraded, Locked, Self, statusVars
<1>3. CASE firstSeen[l] # NotSeen /\ ~(firstSeen[l] < Threshold)
  BY <1>3 DEF MaybeSetDegraded, maybeSetDegraded, setDegraded, Locked, Self, Publishing,
              SyncStep, DegradePersistent
<1>4. QED
  BY <1>1, <1>2, <1>3

LEMMA ControllersPreserve ==
  ASSUME IInv, Controllers
  PROVE  IInv'
<1>1. PICK o \in Outcomes :
        \/ \E l \in DegradedLevels :
             SetDegraded(l, o) \/ MaybeSetDegraded(l, o) \/ SetNotDegraded(l, o)
        \/ \E l \in ProgressLevels : SetProgressing(l, o) \/ UnsetProgressing(l, o)
        \/ SetDegradedOnPanicAndCrash(o)
  BY DEF Controllers, Report
<1>2. /\ o \in Outcome
      /\ DegradedLevels \subseteq Levels /\ ProgressLevels \subseteq Levels
      /\ Threshold \in Nat
  BY LevelsAssumption, OutcomesAssumption, ThresholdAssumption
<1>3. /\ firstSeen \in [Levels -> {NotSeen} \cup 0 .. Threshold]
      /\ quiet \in [DegradedLevels -> 0 .. Threshold]
      /\ DebounceInv
  BY DEF IInv, TypeOK
<1>4. ASSUME NEW l \in DegradedLevels, SetDegraded(l, o) PROVE IInv'
  <2>1. DebounceInv'
    BY <1>2, <1>3, <1>4, CallEffects DEF DebounceInv
  <2>2. /\ firstSeen' \in [Levels -> {NotSeen} \cup 0 .. Threshold]
        /\ quiet' \in [DegradedLevels -> 0 .. Threshold]
    BY <1>2, <1>3, <1>4, CallEffects
  <2>3. QED
    BY <1>2, <1>4, <2>1, <2>2, SlotStep, CallEffects DEF Slot, Reported
<1>5. ASSUME NEW l \in DegradedLevels, SetNotDegraded(l, o) PROVE IInv'
  <2>1. DebounceInv'
    BY <1>2, <1>3, <1>5, CallEffects DEF DebounceInv
  <2>2. /\ firstSeen' \in [Levels -> {NotSeen} \cup 0 .. Threshold]
        /\ quiet' \in [DegradedLevels -> 0 .. Threshold]
    BY <1>2, <1>3, <1>5, CallEffects
  <2>3. QED
    BY <1>2, <1>5, <2>1, <2>2, SlotStep, CallEffects DEF Slot, Reported
<1>6. ASSUME NEW l \in DegradedLevels, MaybeSetDegraded(l, o) PROVE IInv'
  <2>1. CASE NoteFailure(l)
    <3>1. DebounceInv'
      BY <1>2, <1>3, <2>1 DEF NoteFailure, DebounceInv, NotSeen
    <3>2. TypeOK'
      BY <1>2, <1>3, <2>1 DEF NoteFailure, IInv, TypeOK
    <3>3. SlotsInv' /\ SyncedInv'
      BY <2>1 DEF NoteFailure, IInv, SlotsInv, SyncedInv, Shows
    <3>4. QED
      BY <3>1, <3>2, <3>3 DEF IInv
  <2>2. CASE DegradePersistent(l, o)
    <3>1. DebounceInv'
      BY <1>2, <1>3, <2>2 DEF DegradePersistent, DebounceInv
    <3>2. QED
      BY <1>2, <1>3, <2>2, <3>1, SlotStep DEF DegradePersistent, Slot, Reported
  <2>3. CASE UNCHANGED statusVars
    BY <2>3 DEF statusVars, IInv, TypeOK, SlotsInv, SyncedInv, DebounceInv, Shows
  <2>4. QED
    BY <1>6, <2>1, <2>2, <2>3, MaybeSetDegradedEffect
<1>7. ASSUME NEW l \in ProgressLevels, SetProgressing(l, o) PROVE IInv'
  <2>1. DebounceInv'
    BY <1>3, <1>7, CallEffects DEF DebounceInv
  <2>2. QED
    BY <1>2, <1>3, <1>7, <2>1, SlotStep, CallEffects DEF Slot, Reported
<1>8. ASSUME NEW l \in ProgressLevels, UnsetProgressing(l, o) PROVE IInv'
  <2>1. DebounceInv'
    BY <1>3, <1>8, CallEffects DEF DebounceInv
  <2>2. QED
    BY <1>2, <1>3, <1>8, <2>1, SlotStep, CallEffects DEF Slot, Reported
<1>9. ASSUME SetDegradedOnPanicAndCrash(o) PROVE IInv'
  <2> DEFINE slots == [failing EXCEPT ![PanicLevel] = "Degraded"]
  <2>1. api' = Set(api, FALSE, "Degraded", Sync(slots, "Degraded"), o)
    BY <1>9 DEF SetDegradedOnPanicAndCrash, Publish
  <2>2. Sync(slots, "Degraded") \in Condition /\ "Degraded" \in Types
    BY SyncType DEF Types
  <2>3. api' \in Api
    BY <1>2, <2>1, <2>2, SetType DEF IInv, TypeOK
  <2>4. mirrored' \in BOOLEAN
    BY <1>2, <1>9 DEF SetDegradedOnPanicAndCrash, Mirrored, Landed, OperRead, Outcome,
                      IInv, TypeOK, Api
  <2>5. ForgetMemory
    BY <1>9 DEF SetDegradedOnPanicAndCrash
  <2>6. TypeOK'
    BY <1>2, <2>3, <2>4, <2>5
       DEF ForgetMemory, TypeOK, NoFailures, Slot, NothingSeen, NothingSynced
  <2>7. SlotsInv' /\ SyncedInv' /\ DebounceInv'
    BY <1>2, <2>5 DEF ForgetMemory, SlotsInv, SyncedInv, DebounceInv, NoFailures,
                NothingSeen, NothingSynced
  <2>8. QED
    BY <2>6, <2>7 DEF IInv
<1>10. QED
  BY <1>1, <1>4, <1>5, <1>6, <1>7, <1>8, <1>9

LEMMA EnvironmentPreserves ==
  ASSUME IInv, Environment
  PROVE  IInv'
<1> USE DEF IInv
<1>1. Threshold \in Nat /\ 0 \in 0 .. Threshold
  BY ThresholdAssumption
<1>2. NoConditions \in [Types -> Condition] /\ NoVersion \in Int
  BY DEF NoConditions, Unset, Condition, NoCause, NoVersion
<1>3. ASSUME Tick PROVE IInv'
  <2>1. /\ firstSeen' = [l \in Levels |-> Older(firstSeen[l], Threshold)]
        /\ quiet' = [l \in DegradedLevels |-> Older(quiet[l], Threshold)]
        /\ UNCHANGED <<failing, api, synced, mirrored>>
    BY <1>3 DEF Tick, AgeStatus
  <2>2. TypeOK'
    BY <1>1, <2>1 DEF TypeOK, Older
  <2>3. DebounceInv'
    BY LevelsAssumption, <1>1, <2>1 DEF TypeOK, DebounceInv, Older, NotSeen
  <2>4. SlotsInv' /\ SyncedInv'
    BY <2>1 DEF SlotsInv, SyncedInv, Shows
  <2>5. QED
    BY <2>2, <2>3, <2>4
<1>4. ASSUME Restart PROVE IInv'
  <2>1. ForgetMemory /\ UNCHANGED <<api, mirrored>>
    BY <1>4 DEF Restart
  <2>2. TypeOK'
    BY <1>1, <2>1 DEF ForgetMemory, TypeOK, NoFailures, Slot, NothingSeen, NothingSynced
  <2>3. SlotsInv' /\ SyncedInv' /\ DebounceInv'
    BY LevelsAssumption, <2>1 DEF ForgetMemory, SlotsInv, SyncedInv, DebounceInv, NoFailures,
                NothingSeen, NothingSynced
  <2>4. QED
    BY <2>2, <2>3
<1>5. ASSUME DeleteOperConfig PROVE IInv'
  <2>1. api' \in Api
    BY <1>2, <1>5 DEF DeleteOperConfig, TypeOK, Api
  <2>2. TypeOK'
    BY <1>5, <2>1 DEF DeleteOperConfig, TypeOK, NothingSynced
  <2>3. SlotsInv' /\ SyncedInv' /\ DebounceInv'
    BY <1>5 DEF DeleteOperConfig, SlotsInv, SyncedInv, DebounceInv, NothingSynced
  <2>4. QED
    BY <2>2, <2>3
<1>6. ASSUME CreateOperConfig PROVE IInv'
  <2>1. /\ api' \in Api
        /\ api'.coExists = api.coExists /\ api'.oper = api.oper /\ api'.co = api.co
    BY <1>6 DEF CreateOperConfig, TypeOK, Api
  <2>2. TypeOK'
    BY <1>6, <2>1 DEF CreateOperConfig, TypeOK
  <2>3. SlotsInv' /\ SyncedInv' /\ DebounceInv'
    BY <1>6, <2>1 DEF CreateOperConfig, SlotsInv, SyncedInv, DebounceInv, Shows
  <2>4. QED
    BY <2>2, <2>3
<1>7. ASSUME DeleteClusterOperator PROVE IInv'
  <2>1. api' \in Api
    BY <1>2, <1>7 DEF DeleteClusterOperator, TypeOK, Api
  <2>2. TypeOK'
    BY <1>7, <2>1 DEF DeleteClusterOperator, TypeOK, NothingSynced
  <2>3. SlotsInv' /\ SyncedInv' /\ DebounceInv'
    BY <1>7 DEF DeleteClusterOperator, SlotsInv, SyncedInv, DebounceInv, NothingSynced
  <2>4. QED
    BY <2>2, <2>3
<1>8. QED
  BY <1>3, <1>4, <1>5, <1>6, <1>7 DEF Environment

--------------------------------------------------------------------------------
(* The invariant is inductive: it holds initially, every method and every  *)
(* environment step preserves it.                                          *)
THEOREM Invariance == Spec => []IInv
<1>1. Init => IInv
  BY InitEstablishes
<1>2. IInv /\ [Next]_statusVars => IInv'
  <2> SUFFICES ASSUME IInv, [Next]_statusVars PROVE IInv'
    OBVIOUS
  <2>1. CASE Next
    BY <2>1, ControllersPreserve, EnvironmentPreserves DEF Next
  <2>2. CASE UNCHANGED statusVars
    BY <2>2 DEF statusVars, IInv, TypeOK, SlotsInv, SyncedInv, DebounceInv, Shows
  <2>3. QED
    BY <2>1, <2>2
<1>3. QED
  BY <1>1, <1>2, PTL DEF Spec

(* Every reachable state of the status manager is well-typed.              *)
THEOREM TypeCorrect == Spec => []TypeOK
<1>1. IInv => TypeOK
  BY DEF IInv
<1>2. QED
  BY <1>1, Invariance, PTL

(* A Degraded condition that reached both objects stays exact: they show   *)
(* the slot of the lowest degraded level until the next syncDegraded.      *)
THEOREM DegradedExactness == Spec => []DegradedExact
<1>1. IInv => DegradedExact
  BY DEF IInv, SyncedInv, DegradedExact, Reported
<1>2. QED
  BY <1>1, Invariance, PTL

(* A progressing level is never hidden once its sync reached both objects. *)
THEOREM ProgressVisible == Spec => []ProgressNotHidden
<1>1. IInv => ProgressNotHidden
  BY DEF IInv, SyncedInv, ProgressNotHidden, Reported, Shows
<1>2. QED
  BY <1>1, Invariance, PTL

(* MaybeSetDegraded degrades a level only after a whole threshold without  *)
(* a success, a hard failure or a restart of that level.                   *)
THEOREM DebounceCorrect == Spec => Debounced
<1>1. IInv /\ [Next]_statusVars =>
        [\A l \in DegradedLevels :
           (/\ \E o \in Outcomes : MaybeSetDegraded(l, o)
            /\ firstSeen[l] # NotSeen /\ firstSeen'[l] = NotSeen)
           => quiet[l] = Threshold]_statusVars
  <2> SUFFICES ASSUME IInv, NEW l \in DegradedLevels, NEW o \in Outcomes,
                      MaybeSetDegraded(l, o),
                      firstSeen[l] # NotSeen, firstSeen'[l] = NotSeen
               PROVE  quiet[l] = Threshold
    OBVIOUS
  <2>1. l \in Levels /\ Threshold \in Nat
    BY LevelsAssumption, ThresholdAssumption
  <2>2. ~(firstSeen[l] < Threshold)
    BY MaybeSetDegradedEffect DEF statusVars
  <2>3. firstSeen[l] \in 0 .. Threshold
    BY <2>1 DEF IInv, TypeOK
  <2>4. firstSeen[l] <= quiet[l] /\ quiet[l] \in 0 .. Threshold
    BY <2>1 DEF IInv, TypeOK, DebounceInv
  <2>5. QED
    BY <2>1, <2>2, <2>3, <2>4
<1>2. QED
  BY <1>1, Invariance, PTL DEF Spec, Debounced

--------------------------------------------------------------------------------
(* A set() none of whose calls failed leaves all its copies equal, whatever *)
(* they showed before.                                                     *)
Agree(a) ==
  \A t \in Types : a.oper[t] # Unset =>
    /\ a.co[t] = a.oper[t]
    /\ HyperShiftEnabled => a.hcp[t] = a.oper[t]

LEMMA SetMirrors ==
  ASSUME NEW a \in Api, NEW type \in Types, NEW cond \in Condition, NEW o \in Outcome,
         Mirrored(a, o)
  PROVE  Agree(Set(a, FALSE, type, cond, o))
<1> DEFINE os == OperStatus(a, type, cond, o)
           afterCO == SetClusterOperator(a, FALSE, os, o)
           afterHCP == SetHostedControlPlane(afterCO, OperRead(a, o), os, o)
           b == Set(a, FALSE, type, cond, o)
<1>1. OperRead(a, o) /\ o.apply /\ o.writeCO /\ a.coExists /\ o.writeHCP
  BY DEF Mirrored, Landed
<1>2. b = [afterHCP EXCEPT !.oper = os]
  BY <1>1 DEF Set
<1>3. os \in [Types -> Condition]
  BY OperStatusType
<1> HIDE DEF os
<1>4. afterCO \in Api /\ afterCO.co = Overlay(os, a.co)
  <2>1. afterCO \in Api
    BY <1>3, SetClusterOperatorType
  <2>2. QED
    BY <1>1, <2>1 DEF SetClusterOperator, Api
<1> HIDE DEF afterCO
<1>5. /\ afterHCP \in Api
      /\ afterHCP.co = afterCO.co
      /\ HyperShiftEnabled => afterHCP.hcp = Overlay(os, afterCO.hcp)
  <2>1. afterHCP \in Api
    BY <1>3, <1>4, SetHostedControlPlaneType
  <2>2. QED
    BY <1>1, <1>4, <2>1 DEF SetHostedControlPlane, Api
<1> HIDE DEF afterHCP
<1>6. /\ b.oper = os /\ b.co = Overlay(os, a.co)
      /\ HyperShiftEnabled => b.hcp = Overlay(os, afterCO.hcp)
  BY <1>2, <1>4, <1>5 DEF Api
<1>7. QED
  BY <1>6 DEF Agree, Overlay

(* After a set() without a failed call the three objects agree: whatever   *)
(* earlier failures left behind, one successful set() repairs it.          *)
THEOREM MirrorsRepaired == Spec => []MirrorsAgree
<1>1. Init => MirrorsAgree
  BY DEF Init, InitStatus, MirrorsAgree
<1>2. IInv /\ MirrorsAgree /\ [Next]_statusVars => MirrorsAgree'
  <2> SUFFICES ASSUME IInv, MirrorsAgree, [Next]_statusVars, mirrored'
               PROVE  Agree(api')
    BY DEF MirrorsAgree, Agree
  <2>1. api \in Api /\ "Degraded" \in Types /\ "Progressing" \in Types
    BY DEF IInv, TypeOK, Types
  <2>2. ASSUME NEW o \in Outcomes, NEW type \in Types, SyncStep(type, o) PROVE Agree(api')
    <3>1. o \in Outcome /\ Mirrored(api, o)
      BY <2>2, OutcomesAssumption DEF SyncStep
    <3>2. QED
      BY <2>1, <2>2, <3>1, SyncType, SetMirrors DEF SyncStep, Publish
  <2>3. ASSUME NEW o \in Outcomes, SetDegradedOnPanicAndCrash(o) PROVE Agree(api')
    <3>1. o \in Outcome /\ Mirrored(api, o)
      BY <2>3, OutcomesAssumption DEF SetDegradedOnPanicAndCrash
    <3>2. QED
      BY <2>1, <2>3, <3>1, SyncType, SetMirrors DEF SetDegradedOnPanicAndCrash, Publish
  <2>4. ASSUME UNCHANGED <<api, mirrored>> PROVE Agree(api')
    BY <2>4 DEF MirrorsAgree, Agree
  <2>5. ASSUME NEW o \in Outcomes, Report(o) PROVE Agree(api')
    <3>1. ASSUME NEW l \in DegradedLevels, MaybeSetDegraded(l, o) PROVE Agree(api')
      <4>1. CASE NoteFailure(l)
        BY <2>4, <4>1 DEF NoteFailure
      <4>2. CASE UNCHANGED statusVars
        BY <2>4, <4>2 DEF statusVars
      <4>3. CASE DegradePersistent(l, o)
        BY <2>1, <2>2, <4>3 DEF DegradePersistent
      <4>4. QED
        BY <3>1, <4>1, <4>2, <4>3, MaybeSetDegradedEffect
    <3>2. QED
      BY <2>1, <2>2, <2>5, <3>1, CallEffects DEF Report
  <2>6. CASE Controllers
    BY <2>3, <2>5, <2>6 DEF Controllers
  <2>7. CASE Environment
    <3>1. CASE CreateOperConfig
      BY <2>1, <3>1 DEF CreateOperConfig, MirrorsAgree, Agree, Api
    <3>2. CASE Tick \/ Restart
      BY <2>4, <3>2 DEF Tick, Restart
    <3>3. CASE DeleteOperConfig \/ DeleteClusterOperator
      BY <3>3 DEF DeleteOperConfig, DeleteClusterOperator
    <3>4. QED
      BY <2>7, <3>1, <3>2, <3>3 DEF Environment
  <2>8. CASE UNCHANGED statusVars
    BY <2>4, <2>8 DEF statusVars
  <2>9. QED
    BY <2>6, <2>7, <2>8 DEF Next
<1>3. QED
  BY <1>1, <1>2, Invariance, PTL DEF Spec
================================================================================
