----------------------------- MODULE EndpointChecker -----------------------------
(***************************************************************************)
(* The endpoint checker of one PodNetworkConnectivityCheck.  A ticker       *)
(* starts a check every period in a goroutine of its own, so results come  *)
(* in any order.  They wait in a sorting queue, move to a processing queue *)
(* and are applied in batches to the status of the check: two logs, newest *)
(* entry first, the outages derived from them and the condition Reachable. *)
(*                                                                         *)
(* The status is computed on the object of the informer's cache, which the *)
(* update also overwrites, before it is written to the API; a write that   *)
(* fails leaves the batch in the queue, to be applied again on top.        *)
(***************************************************************************)
EXTENDS Integers, Sequences

CONSTANTS
  checkPeriod, checkTimeout,
  BatchSize,    \* number of queued functions that are not written yet (20)
  MaxLogs,      \* length of a log (10)
  MaxOutages,   \* number of outages kept (20)
  MaxChecks,    \* bound on the checks started
  MaxEpFaults   \* bound on failed writes and restarts

(* Entries of one check are less than a period apart, and of each list     *)
(* something is kept.                                                      *)
ASSUME EpAssumption ==
  /\ checkPeriod \in Nat /\ checkPeriod > 1 /\ checkTimeout \in Nat
  /\ MaxLogs \in Nat \ {0} /\ MaxOutages \in Nat \ {0}
  /\ MaxChecks \in Nat /\ MaxEpFaults \in Nat

VARIABLES
  ticks,        \* checks started
  inflight,     \* start times of the checks without a result
  checker,      \* the checker's queues
  cached,       \* status of the object in the informer's cache
  stored,       \* status of the object in the API
  epFaults

epVars == <<ticks, inflight, checker, cached, stored, epFaults>>

(* A result: when the check started and how it ended.  "resolved" is a     *)
(* failure to connect after a successful DNS lookup.                       *)
Kinds == {"success", "failure", "resolved"}

NoCheckStatus == [successes |-> <<>>, failures |-> <<>>, outages |-> <<>>, reachable |-> "unknown"]
NewChecker == [waiting |-> <<>>, last |-> 0, processing |-> <<>>]

--------------------------------------------------------------------------------
(* The functions a result is turned into                                   *)

Newest(log) == IF log = <<>> THEN 0 ELSE log[1]
Truncate(s, n) == IF Len(s) > n THEN SubSeq(s, 1, n) ELSE s

(* The order that sorts a list by these keys, the greatest first.          *)
Sorting(keys) ==
  CHOOSE p \in [DOMAIN keys -> DOMAIN keys] :
    /\ \A i \in DOMAIN keys : \E j \in DOMAIN keys : p[j] = i
    /\ \A i, j \in DOMAIN keys : i < j => keys[p[i]] >= keys[p[j]]

Rearranged(s, p) == [i \in DOMAIN s |-> s[p[i]]]

\* Mutant: the new entry is put first, whenever the check started.
Bug_Unsorted(log, t) == Truncate(<<t>> \o log, MaxLogs)

appendLogEntry(log, t) ==
  LET all == <<t>> \o log IN Truncate(Rearranged(all, Sorting(all)), MaxLogs)

manageStatusLogs(s, r) ==
  CASE r.kind = "success"  -> [s EXCEPT !.successes = appendLogEntry(@, r.at)]
    [] r.kind = "failure"  -> [s EXCEPT !.failures = appendLogEntry(@, r.at)]
    [] r.kind = "resolved" -> [s EXCEPT !.successes = appendLogEntry(@, r.at),
                                        !.failures = appendLogEntry(@, r.at + 1)]

Open(outages) == outages # <<>> /\ outages[1].end = 0
InOutage(s) == Open(s.outages)

NextOutages(outages, failure, success) ==
  IF ~Open(outages) /\ failure > success THEN <<[start |-> failure, end |-> 0]>> \o outages
  ELSE IF Open(outages) /\ success > failure THEN [outages EXCEPT ![1].end = success]
  ELSE outages

manageStatusOutage(s) ==
  [s EXCEPT !.outages =
     Truncate(NextOutages(@, Newest(s.failures), Newest(s.successes)), MaxOutages)]

manageStatusConditions(s) ==
  [s EXCEPT !.reachable = IF InOutage(s) THEN "false" ELSE "true"]

Queued(q) == 3 * Len(q) + Len(SelectSeq(q, LAMBDA r : r.kind = "resolved"))

ApplyResult(s, r) == manageStatusConditions(manageStatusOutage(manageStatusLogs(s, r)))

ApplyAll(s, q) ==
  LET applied[n \in 0 .. Len(q)] == IF n = 0 THEN s ELSE ApplyResult(applied[n - 1], q[n])
  IN  applied[Len(q)]

--------------------------------------------------------------------------------
(* Queues                                                                  *)

(* The waiting results in the order of their start: one that follows the   *)
(* last one closely, or has waited long enough, is released.               *)
Release(c, latest, r) ==
  IF r.at - c.last < 2 * checkPeriod \/ latest - r.at > checkTimeout + checkPeriod
    THEN [c EXCEPT !.last = r.at, !.processing = Append(@, r)]
    ELSE [c EXCEPT !.waiting = Append(@, r)]

ReleaseAll(c, latest, q) ==
  LET released[n \in 0 .. Len(q)] == IF n = 0 THEN c ELSE Release(released[n - 1], latest, q[n])
  IN  released[Len(q)]

UpdatesAdd(c, r) ==
  LET all == Append(c.waiting, r)
      ordered == Rearranged(all, Sorting([i \in DOMAIN all |-> -all[i].at]))
  IN  ReleaseAll([c EXCEPT !.waiting = <<>>], ordered[Len(ordered)].at, ordered)

--------------------------------------------------------------------------------
EpInit ==
  /\ ticks = 0 /\ inflight = {} /\ checker = NewChecker
  /\ cached = NoCheckStatus /\ stored = NoCheckStatus /\ epFaults = 0

EpFault == epFaults < MaxEpFaults /\ epFaults' = epFaults + 1

(* Check number n starts n periods after the third: the time before the    *)
(* first check is longer than any window.                                  *)
StartCheck ==
  /\ ticks < MaxChecks
  /\ ticks' = ticks + 1 /\ inflight' = inflight \cup {(ticks + 3) * checkPeriod}
  /\ UNCHANGED <<checker, cached, stored, epFaults>>

(* A check ends; there is no limit on the time the TLS handshake takes.    *)
checkEndpoint ==
  /\ \E t \in inflight, k \in Kinds :
       /\ inflight' = inflight \ {t}
       /\ checker' = UpdatesAdd(checker, [at |-> t, kind |-> k])
  /\ UNCHANGED <<ticks, cached, stored, epFaults>>

(* updateStatus, at the end of every check and when the checker stops.     *)
Process ==
  /\ Queued(checker.processing) > BatchSize
  /\ stored' = ApplyAll(cached, checker.processing) /\ cached' = stored'
  /\ checker' = [checker EXCEPT !.processing = <<>>]
  /\ UNCHANGED <<ticks, inflight, epFaults>>

(* The write fails, or conflicts and is tried again.                       *)
ProcessFails ==
  /\ Queued(checker.processing) > BatchSize /\ EpFault
  /\ cached' = ApplyAll(cached, checker.processing)
  /\ UNCHANGED <<ticks, inflight, checker, stored>>

(* The informer delivers the object because its spec has changed.          *)
CacheEvent ==
  /\ cached # stored /\ cached' = stored
  /\ UNCHANGED <<ticks, inflight, checker, stored, epFaults>>

(* The pod restarts, or the check is given to another pod, or deleted and  *)
(* created again: Stop does not flush what is queued (it calls Process as  *)
(* a check does), Sync starts another checker.                             *)
NewConnectionChecker ==
  /\ EpFault
  /\ stored' \in {stored, NoCheckStatus} /\ cached' = stored'
  /\ checker' = NewChecker /\ inflight' = {} /\ UNCHANGED ticks

EpNext ==
  \/ StartCheck \/ checkEndpoint \/ Process \/ ProcessFails
  \/ CacheEvent \/ NewConnectionChecker

EpSpec == EpInit /\ [][EpNext]_epVars

--------------------------------------------------------------------------------
Times == 0 .. (MaxChecks + 3) * checkPeriod
Log == Seq(Times)
Results == [at : Times, kind : Kinds]
Outage == [start : Times, end : Times]

EpStatusOK(s) ==
  /\ s.successes \in Log /\ s.failures \in Log
  /\ Len(s.successes) <= MaxLogs /\ Len(s.failures) <= MaxLogs
  /\ s.outages \in Seq(Outage) /\ Len(s.outages) <= MaxOutages
  /\ s.reachable \in {"unknown", "true", "false"}

EpTypeOK ==
  /\ ticks \in 0 .. MaxChecks /\ inflight \subseteq Times /\ epFaults \in 0 .. MaxEpFaults
  /\ checker.waiting \in Seq(Results) /\ checker.last \in Times
  /\ checker.processing \in Seq(Results)
  /\ EpStatusOK(cached) /\ EpStatusOK(stored)

(* The newest entry of a log, wherever it stands.                          *)
LatestOf(log) ==
  IF log = <<>> THEN 0 ELSE log[CHOOSE i \in DOMAIN log : \A j \in DOMAIN log : log[j] <= log[i]]

(* The outages tell the true history of the entries: one is open exactly   *)
(* while the latest entry of the two logs is a failure, which Reachable    *)
(* says too, and the closed ones do not overlap, newest first, although    *)
(* checks end out of order, logs are cut and batches whose write failed    *)
(* are applied twice (manageStatusOutage, which assumes one new entry at a *)
(* time, and appendLogEntry).                                              *)
OutageExact ==
  \A s \in {cached, stored} :
    /\ InOutage(s) <=> LatestOf(s.failures) > LatestOf(s.successes)
    /\ s.reachable = "false" <=> InOutage(s)
    /\ \A i \in DOMAIN s.outages :
         /\ i > 1 \/ ~InOutage(s) => s.outages[i].end > s.outages[i].start
         /\ i > 1 => s.outages[i].end < s.outages[i - 1].start
==================================================================================
