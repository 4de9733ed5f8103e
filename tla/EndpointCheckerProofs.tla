------------------------- MODULE EndpointCheckerProofs -------------------------
(***************************************************************************)
(* Proofs about EndpointChecker: its type invariant, and that the outages  *)
(* are exact (OutageExact), for any period and timeout, any lengths of the *)
(* logs and batches, and any number of checks, failed writes and restarts. *)
(*                                                                         *)
(* Batches and the waiting results are worked off one by one, by recursive *)
(* functions; what they preserve is proved by induction over their length, *)
(* with a principle of induction for sets of numbers.                      *)
(***************************************************************************)
EXTENDS EndpointChecker, TLAPS, FiniteSetTheorems, FunctionTheorems, WellFoundedInduction

--------------------------------------------------------------------------------
(* A set that has 0, and the successor of each number it has, has all.     *)
LEMMA NatSetInduction ==
  ASSUME NEW S, 0 \in S, \A n \in Nat : n \in S => n + 1 \in S
  PROVE  Nat \subseteq S
  <1> SUFFICES ASSUME Nat \ S # {} PROVE FALSE
    OBVIOUS
  <1> DEFINE less == {ss \in Nat \X Nat : ss[1] < ss[2]}
             rest == Nat \ S
  <1>1. IsWellFoundedOn(less, Nat)
    BY NatLessThanWellFounded DEF OpToRel
  <1>2. rest \subseteq Nat /\ rest # {}
    OBVIOUS
  <1> HIDE DEF less, rest
  <1>3. PICK m \in rest : \A y \in rest : <<y, m>> \notin less
    BY <1>1, <1>2, WFMin, Zenon
  <1>4. \A y \in rest : ~ (y < m)
    BY <1>2, <1>3 DEF less
  <1>5. m \in Nat /\ m \notin S
    BY DEF rest
  <1>6. m # 0 /\ m - 1 \in Nat
    BY <1>5
  <1>7. m - 1 \in S
    BY <1>4, <1>5, <1>6 DEF rest
  <1>8. (m - 1) + 1 \in S
    BY <1>6, <1>7, Zenon
  <1> QED
    BY <1>5, <1>6, <1>8

--------------------------------------------------------------------------------
(* Sorting (sort.SliceStable in appendLogEntry, sort.Slice in Add).        *)

IsSorting(keys, p) ==
  /\ p \in [DOMAIN keys -> DOMAIN keys]
  /\ \A i \in DOMAIN keys : \E j \in DOMAIN keys : p[j] = i
  /\ \A i, j \in DOMAIN keys : i < j => keys[p[i]] >= keys[p[j]]

(* The place of an entry is the number of those that are greater, or equal *)
(* and not behind it.                                                      *)
LEMMA SortingExists ==
  ASSUME NEW keys \in Seq(Int)
  PROVE  IsSorting(keys, Sorting(keys))
  <1> DEFINE D == DOMAIN keys
             ahead(i) == {j \in D : keys[j] > keys[i] \/ (keys[j] = keys[i] /\ j <= i)}
             rank == [i \in D |-> Cardinality(ahead(i))]
  <1>1. D = 1 .. Len(keys) /\ Len(keys) \in Nat
    OBVIOUS
  <1>2. \A i \in D : keys[i] \in Int /\ i \in Int
    BY <1>1
  <1>3. IsFiniteSet(D) /\ Cardinality(D) = Len(keys)
    BY <1>1, FS_Interval
  <1>4. \A i \in D : /\ IsFiniteSet(ahead(i)) /\ Cardinality(ahead(i)) \in Nat
                     /\ Cardinality(ahead(i)) \in D
    <2> TAKE i \in D
    <2>1. ahead(i) \subseteq D /\ i \in ahead(i)
      BY <1>2
    <2>2. IsFiniteSet(ahead(i)) /\ Cardinality(ahead(i)) <= Len(keys) /\ Cardinality(ahead(i)) \in Nat
      BY <1>3, <2>1, FS_Subset, FS_CardinalityType
    <2>3. Cardinality(ahead(i)) # 0
      BY <2>1, <2>2, FS_EmptySet
    <2> QED
      BY <1>1, <2>2, <2>3
  <1>5. ASSUME NEW i \in D, NEW j \in D, keys[i] > keys[j] \/ (keys[i] = keys[j] /\ i < j)
        PROVE  Cardinality(ahead(i)) < Cardinality(ahead(j))
    <2>1. ahead(i) \subseteq ahead(j)
      BY <1>2, <1>5
    <2>2. j \in ahead(j) /\ j \notin ahead(i)
      BY <1>2, <1>5
    <2>3. Cardinality(ahead(i)) <= Cardinality(ahead(j)) /\ Cardinality(ahead(i)) # Cardinality(ahead(j))
      BY <1>4, <2>1, <2>2, FS_Subset
    <2>4. Cardinality(ahead(i)) \in Nat /\ Cardinality(ahead(j)) \in Nat
      BY <1>4
    <2> QED
      BY <2>3, <2>4
  <1> HIDE DEF ahead
  <1>6. rank \in [D -> D]
    BY <1>4
  <1>7. ASSUME NEW i \in D, NEW j \in D, rank[i] = rank[j] PROVE i = j
    <2>1. CASE keys[i] > keys[j] \/ (keys[i] = keys[j] /\ i < j)
      BY <1>1, <1>4, <1>5, <1>7, <2>1
    <2>2. CASE keys[j] > keys[i] \/ (keys[j] = keys[i] /\ j < i)
      BY <1>1, <1>4, <1>5, <1>7, <2>2
    <2> QED
      BY <1>2, <2>1, <2>2
  <1>8. \A k \in D : \E i \in D : rank[i] = k
    <2>1. rank \in Injection(D, D)
      BY <1>6, <1>7 DEF Injection, IsInjective
    <2>2. rank \in Surjection(D, D)
      BY <1>3, <2>1, FS_Injection
    <2> QED
      BY <2>2 DEF Surjection
  <1> DEFINE p == [k \in D |-> CHOOSE i \in D : rank[i] = k]
  <1>9. \A k \in D : p[k] \in D /\ rank[p[k]] = k
    BY <1>8
  <1>10. p \in [D -> D]
    BY <1>9
  <1>11. \A i \in D : rank[i] \in D /\ p[rank[i]] = i
    BY <1>6, <1>7, <1>9
  <1> HIDE DEF p
  <1>12. ASSUME NEW i \in D, NEW j \in D, i < j PROVE keys[p[i]] >= keys[p[j]]
    <2>1. p[i] \in D /\ p[j] \in D /\ rank[p[i]] = i /\ rank[p[j]] = j
      BY <1>9
    <2>2. CASE keys[p[j]] > keys[p[i]]
      <3>1. Cardinality(ahead(p[j])) < Cardinality(ahead(p[i]))
        BY <1>5, <2>1, <2>2
      <3> QED
        BY <1>1, <1>12, <2>1, <3>1
    <2> QED
      BY <1>2, <2>1, <2>2
  <1>13. IsSorting(keys, p)
    BY <1>10, <1>11, <1>12 DEF IsSorting
  <1>14. \E q \in [DOMAIN keys -> DOMAIN keys] : IsSorting(keys, q)
    BY <1>10, <1>13
  <1> QED
    BY <1>14 DEF IsSorting, Sorting

(* A list in another order has the same entries and the same length.       *)
Entries(s) == {s[i] : i \in DOMAIN s}

LEMMA RearrangedSame ==
  ASSUME NEW T, NEW s \in Seq(T), NEW keys, DOMAIN keys = DOMAIN s, NEW p, IsSorting(keys, p)
  PROVE  /\ Rearranged(s, p) \in Seq(T) /\ Len(Rearranged(s, p)) = Len(s)
         /\ DOMAIN Rearranged(s, p) = DOMAIN s
         /\ \A i \in DOMAIN s : Rearranged(s, p)[i] = s[p[i]] /\ p[i] \in DOMAIN s
         /\ Entries(Rearranged(s, p)) = Entries(s)
  <1> DEFINE r == Rearranged(s, p)
  <1>1. DOMAIN s = 1 .. Len(s) /\ Len(s) \in Nat
    OBVIOUS
  <1>2. \A i \in DOMAIN s : p[i] \in DOMAIN s /\ s[p[i]] \in T
    BY <1>1 DEF IsSorting
  <1>3. \A i \in DOMAIN s : \E j \in DOMAIN s : p[j] = i
    BY DEF IsSorting
  <1>4. r = [i \in 1 .. Len(s) |-> s[p[i]]]
    BY <1>1 DEF Rearranged
  <1>5. r \in Seq(T) /\ Len(r) = Len(s) /\ DOMAIN r = DOMAIN s
    BY <1>1, <1>2, <1>4
  <1>6. \A i \in DOMAIN s : r[i] = s[p[i]]
    BY <1>1, <1>4
  <1> HIDE DEF r
  <1>7. Entries(r) = Entries(s)
    BY <1>2, <1>3, <1>5, <1>6 DEF Entries
  <1> QED
    BY <1>2, <1>5, <1>6, <1>7 DEF r

--------------------------------------------------------------------------------
(* The logs                                                                *)

Descending(log) == \A i, j \in DOMAIN log : i < j => log[i] >= log[j]

IsLog(log) == log \in Log /\ Len(log) <= MaxLogs /\ Descending(log)

(* What a log is after an entry is added to it: the newest entry is the    *)
(* newer one of the entry and the newest one before.                       *)
Extended(old, t, new) ==
  /\ IsLog(new) /\ new # <<>>
  /\ Entries(new) \subseteq Entries(old) \cup {t}
  /\ Newest(new) >= t /\ Newest(new) >= Newest(old)
  /\ Newest(new) \in Entries(new)

LEMMA TimesType == Times \subseteq Nat
  BY DEF Times

LEMMA SeqTimes ==
  ASSUME NEW s \in Seq(Times)
  PROVE  /\ s \in Seq(Int)
         /\ \A i \in DOMAIN s : /\ s[i] \in Times /\ s[i] \in Nat
                                /\ i \in Nat /\ (i = 1 \/ 1 < i)
  <1>1. \A i \in DOMAIN s : s[i] \in Times
    OBVIOUS
  <1>2. \A i \in DOMAIN s : s[i] \in Nat
    BY <1>1, TimesType, Zenon
  <1>3. DOMAIN s = 1 .. Len(s) /\ Len(s) \in Nat
    OBVIOUS
  <1>4. s \in Seq(Int)
    <2>1. s = [i \in 1 .. Len(s) |-> s[i]]
      OBVIOUS
    <2>2. \A i \in 1 .. Len(s) : s[i] \in Int
      BY <1>2, <1>3
    <2>3. [i \in 1 .. Len(s) |-> s[i]] \in Seq(Int)
      BY <1>3, <2>2
    <2> QED
      BY <2>1, <2>3, Zenon
  <1> QED
    BY <1>1, <1>2, <1>3, <1>4

LEMMA NewestType ==
  ASSUME NEW log, IsLog(log)
  PROVE  /\ Newest(log) \in Nat
         /\ log # <<>> => Newest(log) \in Entries(log)
         /\ \A t \in Entries(log) : t \in Nat /\ Newest(log) >= t
  <1>1. log \in Seq(Times)
    BY DEF IsLog, Log
  <1>2. \A i \in DOMAIN log : log[i] \in Nat
    BY <1>1, SeqTimes
  <1>3. DOMAIN log = 1 .. Len(log) /\ Len(log) \in Nat /\ (log # <<>> => 1 \in DOMAIN log)
    BY <1>1
  <1>4. \A i \in DOMAIN log : 1 \in DOMAIN log /\ log # <<>> /\ log[1] >= log[i]
    BY <1>2, <1>3 DEF IsLog, Descending
  <1> QED
    BY <1>2, <1>3, <1>4 DEF Newest, Entries

(* What is kept of a list is its beginning.                                *)
LEMMA TruncateKeeps ==
  ASSUME NEW T, NEW s \in Seq(T), NEW n \in Nat \ {0}
  PROVE  /\ Truncate(s, n) \in Seq(T) /\ Len(Truncate(s, n)) <= n
         /\ DOMAIN Truncate(s, n) \subseteq DOMAIN s
         /\ \A i \in DOMAIN Truncate(s, n) : Truncate(s, n)[i] = s[i]
         /\ s # <<>> => Truncate(s, n) # <<>>
  BY DEF Truncate

LEMMA appendLogEntryExtends ==
  ASSUME NEW log, IsLog(log), NEW t \in Times
  PROVE  Extended(log, t, appendLogEntry(log, t))
  <1> DEFINE all == <<t>> \o log
             p == Sorting(all)
             sorted == Rearranged(all, p)
             new == Truncate(sorted, MaxLogs)
  <1>1. log \in Seq(Times) /\ all \in Seq(Times) /\ Len(all) = Len(log) + 1
    BY DEF IsLog, Log
  <1>2. all \in Seq(Int) /\ \A i \in DOMAIN all : all[i] \in Nat
    BY <1>1, SeqTimes, Zenon
  <1>3. Entries(all) = Entries(log) \cup {t}
    <2>1. DOMAIN all = 1 .. Len(log) + 1 /\ DOMAIN log = 1 .. Len(log) /\ Len(log) \in Nat
      BY <1>1
    <2>2. all[1] = t /\ \A i \in DOMAIN log : i + 1 \in DOMAIN all /\ all[i + 1] = log[i]
      BY <1>1
    <2>3. \A i \in DOMAIN all : i = 1 \/ (i - 1 \in DOMAIN log /\ all[i] = log[i - 1])
      BY <1>1
    <2> HIDE DEF all
    <2> QED
      BY <2>1, <2>2, <2>3 DEF Entries
  <1> HIDE DEF all
  <1>4. IsSorting(all, p)
    BY <1>2, SortingExists
  <1> HIDE DEF p
  <1>5. /\ sorted \in Seq(Times) /\ Len(sorted) = Len(all) /\ DOMAIN sorted = DOMAIN all
        /\ Entries(sorted) = Entries(all)
        /\ \A i \in DOMAIN all : sorted[i] = all[p[i]] /\ p[i] \in DOMAIN all
    BY <1>1, <1>4, RearrangedSame
  <1>6. Descending(sorted)
    BY <1>2, <1>4, <1>5 DEF Descending, IsSorting
  <1>7. sorted # <<>> /\ 1 \in DOMAIN sorted
    BY <1>1, <1>5 DEF IsLog, Log
  <1> HIDE DEF sorted
  <1>8. /\ new \in Seq(Times) /\ Len(new) <= MaxLogs /\ DOMAIN new \subseteq DOMAIN sorted
        /\ \A i \in DOMAIN new : new[i] = sorted[i]
        /\ new # <<>>
    BY <1>5, <1>7, EpAssumption, TruncateKeeps
  <1> HIDE DEF new
  <1>9. IsLog(new)
    BY <1>6, <1>8 DEF IsLog, Log, Descending
  <1>10. Entries(new) \subseteq Entries(log) \cup {t}
    BY <1>3, <1>5, <1>8 DEF Entries
  <1>11. 1 \in DOMAIN new /\ Newest(new) = sorted[1]
    BY <1>8 DEF Newest
  <1>12. \A u \in Entries(sorted) : sorted[1] >= u
    <2>1. \A i \in DOMAIN sorted : sorted[i] \in Nat /\ i \in Nat /\ (i = 1 \/ 1 < i)
      BY <1>5, SeqTimes, Zenon
    <2> QED
      BY <1>6, <1>7, <2>1 DEF Entries, Descending
  <1>13. Newest(new) >= t /\ Newest(new) >= Newest(log)
    <2>1. CASE log = <<>>
      <3>1. Newest(log) = 0 /\ t \in Nat
        BY <2>1, TimesType DEF Newest
      <3>2. Newest(new) \in Nat
        BY <1>9, NewestType
      <3> QED
        BY <1>3, <1>5, <1>11, <1>12, <3>1, <3>2
    <2>2. CASE log # <<>>
      BY <1>3, <1>5, <1>11, <1>12, <2>2, NewestType
    <2> QED
      BY <2>1, <2>2
  <1>14. Newest(new) \in Entries(new)
    BY <1>8, <1>9, NewestType
  <1> QED
    BY <1>8, <1>9, <1>10, <1>13, <1>14 DEF Extended, appendLogEntry, new, sorted, p, all

--------------------------------------------------------------------------------
(* The outages                                                             *)

OutagesOrdered(os) ==
  \A i \in DOMAIN os :
    /\ i > 1 \/ os[i].end # 0 => os[i].end > os[i].start
    /\ i > 1 => os[i].end < os[i - 1].start

(* The outages fit the newest failure and the newest success: the last one *)
(* is open exactly if the failure is newer, and is not later than these.   *)
OutagesFit(os, failure, success) ==
  /\ os \in Seq(Outage) /\ Len(os) <= MaxOutages
  /\ OutagesOrdered(os)
  /\ Open(os) <=> failure > success
  /\ os # <<>> => os[1].start <= failure /\ os[1].end <= success

LEMMA OutageFields ==
  ASSUME NEW os \in Seq(Outage)
  PROVE  /\ DOMAIN os = 1 .. Len(os) /\ Len(os) \in Nat /\ (os # <<>> => 1 \in DOMAIN os)
         /\ \A i \in DOMAIN os : /\ os[i] \in Outage /\ os[i].start \in Times /\ os[i].end \in Times
                                 /\ os[i].start \in Nat /\ os[i].end \in Nat
  <1>1. \A i \in DOMAIN os : os[i] \in Outage
    OBVIOUS
  <1>2. \A i \in DOMAIN os : os[i].start \in Times /\ os[i].end \in Times
    BY <1>1 DEF Outage
  <1>3. \A i \in DOMAIN os : os[i].start \in Nat /\ os[i].end \in Nat
    BY <1>2, TimesType, Zenon
  <1>4. DOMAIN os = 1 .. Len(os) /\ Len(os) \in Nat /\ (os # <<>> => 1 \in DOMAIN os)
    OBVIOUS
  <1> QED
    BY <1>1, <1>2, <1>3, <1>4

(* The beginning of a list of outages that fit does.                       *)
LEMMA TruncateFits ==
  ASSUME NEW os \in Seq(Outage), OutagesOrdered(os), NEW failure, NEW success,
         Open(os) <=> failure > success,
         os # <<>> => os[1].start <= failure /\ os[1].end <= success
  PROVE  OutagesFit(Truncate(os, MaxOutages), failure, success)
  <1> DEFINE new == Truncate(os, MaxOutages)
  <1>1. /\ new \in Seq(Outage) /\ Len(new) <= MaxOutages
        /\ DOMAIN new \subseteq DOMAIN os
        /\ \A i \in DOMAIN new : new[i] = os[i]
        /\ os # <<>> => new # <<>>
    BY EpAssumption, TruncateKeeps
  <1> HIDE DEF new
  <1>2. (new # <<>> => 1 \in DOMAIN new /\ os # <<>>) /\ (os # <<>> => 1 \in DOMAIN new)
    BY <1>1, OutageFields
  <1>3. \A i \in DOMAIN new : i > 1 => i - 1 \in DOMAIN new
    BY <1>1
  <1>4. OutagesOrdered(new)
    BY <1>1, <1>3 DEF OutagesOrdered
  <1>5. Open(new) <=> Open(os)
    BY <1>1, <1>2 DEF Open
  <1> QED
    BY <1>1, <1>2, <1>4, <1>5 DEF OutagesFit, new

(* One more entry in a log (manageStatusOutage): if the two newest entries *)
(* are never of the same time, the outages keep fitting.                   *)
LEMMA NextOutagesFit ==
  ASSUME NEW os, NEW f0 \in Nat, NEW s0 \in Nat, OutagesFit(os, f0, s0),
         NEW f \in Times, NEW s \in Times, f >= f0, s >= s0, f # s
  PROVE  OutagesFit(Truncate(NextOutages(os, f, s), MaxOutages), f, s)
  <1>1. os \in Seq(Outage) /\ OutagesOrdered(os) /\ (Open(os) <=> f0 > s0)
    BY DEF OutagesFit
  <1>2. f \in Nat /\ s \in Nat
    BY TimesType
  <1>3. os # <<>> => os[1].start <= f0 /\ os[1].end <= s0
    BY DEF OutagesFit
  <1>4. CASE ~Open(os) /\ f > s
    <2> DEFINE first == [start |-> f, end |-> 0]
               new == <<first>> \o os
    <2>1. first \in Outage /\ first.start = f /\ first.end = 0
      BY EpAssumption DEF Outage, Times
    <2> HIDE DEF first
    <2>2. /\ new \in Seq(Outage) /\ new # <<>> /\ new[1] = first
          /\ DOMAIN new = 1 .. Len(os) + 1
          /\ \A i \in DOMAIN new : i > 1 => i - 1 \in DOMAIN os /\ new[i] = os[i - 1]
      BY <1>1, <2>1
    <2> HIDE DEF new
    <2>3. OutagesOrdered(new)
      <3> SUFFICES ASSUME NEW i \in DOMAIN new
                   PROVE  /\ i > 1 \/ new[i].end # 0 => new[i].end > new[i].start
                          /\ i > 1 => new[i].end < new[i - 1].start
        BY DEF OutagesOrdered
      <3>1. CASE i = 1
        BY <2>1, <2>2, <3>1
      <3>2. CASE i = 2
        <4>1. 1 \in DOMAIN os /\ new[i] = os[1] /\ new[i - 1] = first
          BY <2>2, <3>2
        <4>2. os # <<>> /\ os[1].end \in Nat /\ os[1].start \in Nat
          BY <1>1, <4>1, OutageFields
        <4>3. os[1].end # 0 /\ os[1].end > os[1].start
          BY <1>1, <1>4, <4>1, <4>2 DEF Open, OutagesOrdered
        <4>4. os[1].end < f
          BY <1>2, <1>3, <1>4, <4>2
        <4> QED
          BY <2>1, <4>1, <4>3, <4>4
      <3>3. CASE i > 2
        <4>1. /\ i - 1 \in DOMAIN os /\ i - 1 > 1 /\ new[i] = os[i - 1]
              /\ new[i - 1] = os[(i - 1) - 1]
          BY <2>2, <3>3
        <4> QED
          BY <1>1, <4>1 DEF OutagesOrdered
      <3> QED
        BY <2>2, <3>1, <3>2, <3>3
    <2>4. Open(new)
      BY <2>1, <2>2 DEF Open
    <2>5. NextOutages(os, f, s) = new
      BY <1>4 DEF NextOutages, new, first
    <2>6. new[1].start <= f /\ new[1].end <= s
      BY <1>2, <2>1, <2>2
    <2> QED
      BY <1>4, <2>2, <2>3, <2>4, <2>5, <2>6, TruncateFits
  <1>5. CASE Open(os) /\ s > f
    <2> DEFINE new == [os EXCEPT ![1].end = s]
    <2>1. os # <<>> /\ 1 \in DOMAIN os /\ DOMAIN os = 1 .. Len(os) /\ os[1] \in Outage
      BY <1>1, <1>5, OutageFields DEF Open
    <2>2. /\ DOMAIN new = DOMAIN os /\ new[1] \in Outage
          /\ new[1].end = s /\ new[1].start = os[1].start
          /\ \A i \in DOMAIN os : i # 1 => new[i] = os[i]
      BY <2>1 DEF Outage
    <2>3. new \in Seq(Outage) /\ new # <<>>
      BY <1>1, <2>1, <2>2
    <2> HIDE DEF new
    <2>4. \A i \in DOMAIN os : new[i].start = os[i].start
      BY <2>2
    <2>5. os[1].start \in Nat /\ os[1].start <= f
      BY <1>1, <1>2, <1>3, <2>1, OutageFields
    <2>6. OutagesOrdered(new)
      <3> SUFFICES ASSUME NEW i \in DOMAIN os
                   PROVE  /\ i > 1 \/ new[i].end # 0 => new[i].end > new[i].start
                          /\ i > 1 => new[i].end < new[i - 1].start
        BY <2>2 DEF OutagesOrdered
      <3>1. CASE i = 1
        BY <1>2, <1>5, <2>2, <2>5, <3>1
      <3>2. CASE i > 1
        <4>1. i - 1 \in DOMAIN os /\ new[i] = os[i] /\ i # 1
          BY <2>1, <2>2, <3>2
        <4> QED
          BY <1>1, <2>4, <3>2, <4>1 DEF OutagesOrdered
      <3> QED
        BY <2>1, <3>1, <3>2
    <2>7. ~Open(new)
      BY <1>2, <1>5, <2>2 DEF Open
    <2>8. NextOutages(os, f, s) = new
      BY <1>5 DEF NextOutages, new
    <2>9. new[1].start <= f /\ new[1].end <= s
      BY <1>2, <2>2, <2>5
    <2> QED
      BY <1>2, <1>5, <2>3, <2>6, <2>7, <2>8, <2>9, TruncateFits
  <1>6. CASE ~(~Open(os) /\ f > s) /\ ~(Open(os) /\ s > f)
    <2>1. NextOutages(os, f, s) = os
      BY <1>6 DEF NextOutages
    <2>2. Open(os) <=> f > s
      BY <1>2, <1>6
    <2>3. os # <<>> => os[1].start <= f /\ os[1].end <= s
      BY <1>1, <1>2, <1>3, OutageFields
    <2> QED
      BY <1>1, <2>1, <2>2, <2>3, TruncateFits
  <1> QED
    BY <1>4, <1>5, <1>6

--------------------------------------------------------------------------------
(* The status                                                              *)

Verdicts == [Nat -> Kinds]

(* E are the start times of checks that have ended: positive, and so far   *)
(* apart that the entries of two checks are not mixed up.                  *)
Spaced(E) ==
  \A t \in E : /\ t \in Times /\ t + 1 \in Times /\ t > 0
               /\ \A u \in E : t < u => t + 1 < u

(* The verdict v tells how the check that started at a time ended.  An     *)
(* entry of a log is one that a check with this verdict left.              *)
SuccessEntry(t, E, v) == t \in E /\ v[t] # "failure"
FailureEntry(t, E, v) ==
  \/ t \in E /\ v[t] = "failure"
  \/ t - 1 \in E /\ v[t - 1] = "resolved"

LogsAgree(s, E, v) ==
  /\ \A t \in Entries(s.successes) : SuccessEntry(t, E, v)
  /\ \A t \in Entries(s.failures) : FailureEntry(t, E, v)

CheckStatusType ==
  [successes : Log, failures : Log, outages : Seq(Outage), reachable : {"unknown", "true", "false"}]

ExactStatus(s) ==
  /\ s \in CheckStatusType /\ IsLog(s.successes) /\ IsLog(s.failures)
  /\ OutagesFit(s.outages, Newest(s.failures), Newest(s.successes))
  /\ s.reachable = "false" <=> InOutage(s)

(* No entry is both: a host is not looked up, found and not found.         *)
LEMMA EntriesDiffer ==
  ASSUME NEW E, Spaced(E), NEW v, NEW t \in Nat, NEW u \in Nat,
         SuccessEntry(t, E, v), FailureEntry(u, E, v)
  PROVE  t # u /\ t > 0 /\ u > 0
  <1>1. CASE u \in E /\ v[u] = "failure"
    BY <1>1 DEF SuccessEntry, Spaced
  <1>2. CASE u - 1 \in E /\ v[u - 1] = "resolved"
    <2>1. t \in E /\ t > 0 /\ u - 1 > 0
      BY <1>2 DEF SuccessEntry, Spaced
    <2>2. u - 1 < t => (u - 1) + 1 < t
      BY <1>2, <2>1 DEF Spaced
    <2> QED
      BY <2>1, <2>2
  <1> QED
    BY <1>1, <1>2 DEF FailureEntry

(* The logs after a result is added (manageStatusLogs).                    *)
LogsExtended(s, r, new) ==
  /\ new \in CheckStatusType /\ new.outages = s.outages
  /\ IsLog(new.successes) /\ IsLog(new.failures)
  /\ Newest(new.successes) >= Newest(s.successes) /\ Newest(new.failures) >= Newest(s.failures)
  /\ new.successes # <<>> \/ new.failures # <<>>

LEMMA manageStatusLogsExtends ==
  ASSUME NEW E, Spaced(E), NEW v \in Verdicts,
         NEW s \in CheckStatusType, IsLog(s.successes), IsLog(s.failures), LogsAgree(s, E, v),
         NEW r \in Results, r.at \in E, v[r.at] = r.kind
  PROVE  LogsExtended(s, r, manageStatusLogs(s, r)) /\ LogsAgree(manageStatusLogs(s, r), E, v)
  <1> DEFINE new == manageStatusLogs(s, r)
             good == appendLogEntry(s.successes, r.at)
             bad == appendLogEntry(s.failures, r.at)
             late == appendLogEntry(s.failures, r.at + 1)
  <1>1. r.at \in Times /\ r.at + 1 \in Times /\ r.at \in Nat /\ r.kind \in Kinds
    BY TimesType DEF Results, Spaced
  <1>2. /\ Extended(s.successes, r.at, good) /\ Extended(s.failures, r.at, bad)
        /\ Extended(s.failures, r.at + 1, late)
    BY <1>1, appendLogEntryExtends
  <1>3. Newest(s.successes) \in Nat /\ Newest(s.failures) \in Nat
    BY NewestType
  <1> HIDE DEF good, bad, late
  <1>4. good \in Log /\ bad \in Log /\ late \in Log
    BY <1>2 DEF Extended, IsLog
  <1>5. CASE r.kind = "success"
    <2>1. /\ new \in CheckStatusType /\ new.outages = s.outages
          /\ new.successes = good /\ new.failures = s.failures
      BY <1>4, <1>5 DEF manageStatusLogs, CheckStatusType, good
    <2>2. SuccessEntry(r.at, E, v)
      BY <1>5 DEF SuccessEntry
    <2> HIDE DEF new
    <2>3. LogsAgree(new, E, v)
      BY <1>2, <2>1, <2>2 DEF LogsAgree, Extended
    <2>4. LogsExtended(s, r, new)
      BY <1>2, <1>3, <2>1 DEF LogsExtended, Extended
    <2> QED
      BY <2>3, <2>4 DEF new
  <1>6. CASE r.kind = "failure"
    <2>1. /\ new \in CheckStatusType /\ new.outages = s.outages
          /\ new.successes = s.successes /\ new.failures = bad
      BY <1>4, <1>6 DEF manageStatusLogs, CheckStatusType, bad
    <2>2. FailureEntry(r.at, E, v)
      BY <1>6 DEF FailureEntry
    <2> HIDE DEF new
    <2>3. LogsAgree(new, E, v)
      BY <1>2, <2>1, <2>2 DEF LogsAgree, Extended
    <2>4. LogsExtended(s, r, new)
      BY <1>2, <1>3, <2>1 DEF LogsExtended, Extended
    <2> QED
      BY <2>3, <2>4 DEF new
  <1>7. CASE r.kind = "resolved"
    <2>1. /\ new \in CheckStatusType /\ new.outages = s.outages
          /\ new.successes = good /\ new.failures = late
      BY <1>4, <1>7 DEF manageStatusLogs, CheckStatusType, good, late
    <2>2. SuccessEntry(r.at, E, v) /\ FailureEntry(r.at + 1, E, v)
      <3>1. (r.at + 1) - 1 = r.at
        BY <1>1
      <3> QED
        BY <1>7, <3>1 DEF SuccessEntry, FailureEntry
    <2> HIDE DEF new
    <2>3. LogsAgree(new, E, v)
      BY <1>2, <2>1, <2>2 DEF LogsAgree, Extended
    <2>4. LogsExtended(s, r, new)
      BY <1>2, <1>3, <2>1 DEF LogsExtended, Extended
    <2> QED
      BY <2>3, <2>4 DEF new
  <1> QED
    BY <1>1, <1>5, <1>6, <1>7 DEF Kinds

(* One result more leaves the status exact.                                *)
LEMMA ApplyResultExact ==
  ASSUME NEW E, Spaced(E), NEW v \in Verdicts,
         NEW s, ExactStatus(s), LogsAgree(s, E, v),
         NEW r \in Results, r.at \in E, v[r.at] = r.kind
  PROVE  ExactStatus(ApplyResult(s, r)) /\ LogsAgree(ApplyResult(s, r), E, v)
  <1> DEFINE logged == manageStatusLogs(s, r)
             f == Newest(logged.failures)
             g == Newest(logged.successes)
             os == Truncate(NextOutages(logged.outages, f, g), MaxOutages)
             judged == manageStatusOutage(logged)
             new == manageStatusConditions(judged)
  <1>1. s \in CheckStatusType /\ IsLog(s.successes) /\ IsLog(s.failures)
    BY DEF ExactStatus
  <1>2. LogsExtended(s, r, logged) /\ LogsAgree(logged, E, v)
    BY <1>1, manageStatusLogsExtends
  <1> HIDE DEF logged
  <1>3. /\ logged \in CheckStatusType /\ logged.outages = s.outages
        /\ IsLog(logged.successes) /\ IsLog(logged.failures)
    BY <1>2 DEF LogsExtended
  <1>4. Newest(s.failures) \in Nat /\ Newest(s.successes) \in Nat /\ f \in Nat /\ g \in Nat
    BY <1>1, <1>3, NewestType
  <1>5. f >= Newest(s.failures) /\ g >= Newest(s.successes)
    BY <1>2 DEF LogsExtended
  <1>6. f # g /\ f \in Times /\ g \in Times
    <2>1. ASSUME logged.failures # <<>> PROVE FailureEntry(f, E, v) /\ f \in Entries(logged.failures)
      BY <1>2, <1>3, <2>1, NewestType DEF LogsAgree
    <2>2. ASSUME logged.successes # <<>> PROVE SuccessEntry(g, E, v) /\ g \in Entries(logged.successes)
      BY <1>2, <1>3, <2>2, NewestType DEF LogsAgree
    <2>3. ASSUME logged.failures = <<>> PROVE f = 0
      BY <2>3 DEF Newest
    <2>4. ASSUME logged.successes = <<>> PROVE g = 0
      BY <2>4 DEF Newest
    <2>5. logged.successes # <<>> \/ logged.failures # <<>>
      BY <1>2 DEF LogsExtended
    <2>6. 0 \in Times
      BY EpAssumption DEF Times
    <2>7. ASSUME SuccessEntry(g, E, v) PROVE g > 0 /\ g \in Times
      BY <2>7 DEF SuccessEntry, Spaced
    <2>8. ASSUME FailureEntry(f, E, v) PROVE f > 0 /\ f \in Times
      <3>1. CASE f \in E
        BY <3>1 DEF Spaced
      <3>2. CASE f - 1 \in E
        <4>1. (f - 1) + 1 = f /\ f - 1 > 0 /\ (f - 1) + 1 \in Times
          BY <1>4, <3>2 DEF Spaced
        <4> QED
          BY <1>4, <4>1
      <3> QED
        BY <2>8, <3>1, <3>2 DEF FailureEntry
    <2>9. ASSUME SuccessEntry(g, E, v), FailureEntry(f, E, v) PROVE f # g
      BY <1>4, <2>9, EntriesDiffer
    <2> QED
      BY <1>4, <2>1, <2>2, <2>3, <2>4, <2>5, <2>6, <2>7, <2>8, <2>9
  <1> HIDE DEF f, g
  <1>7. OutagesFit(s.outages, Newest(s.failures), Newest(s.successes))
    BY DEF ExactStatus
  <1>8. OutagesFit(os, f, g)
    BY <1>3, <1>4, <1>5, <1>6, <1>7, NextOutagesFit
  <1>9. os \in Seq(Outage)
    BY <1>8 DEF OutagesFit
  <1> HIDE DEF os
  <1>10. /\ judged \in CheckStatusType /\ judged.outages = os
         /\ judged.successes = logged.successes /\ judged.failures = logged.failures
    BY <1>3, <1>9 DEF manageStatusOutage, CheckStatusType, os, f, g
  <1> HIDE DEF judged
  <1>11. /\ new \in CheckStatusType /\ new.outages = os
         /\ new.successes = logged.successes /\ new.failures = logged.failures
         /\ new.reachable = IF InOutage(judged) THEN "false" ELSE "true"
    BY <1>10 DEF manageStatusConditions, CheckStatusType
  <1>12. InOutage(new) <=> InOutage(judged)
    BY <1>10, <1>11 DEF InOutage
  <1>13. new = ApplyResult(s, r)
    BY DEF ApplyResult, new, judged, logged
  <1> HIDE DEF new
  <1>14. LogsAgree(new, E, v)
    BY <1>2, <1>11 DEF LogsAgree
  <1>15. ExactStatus(new)
    BY <1>3, <1>8, <1>11, <1>12 DEF ExactStatus, f, g
  <1> QED
    BY <1>13, <1>14, <1>15

--------------------------------------------------------------------------------
(* Recursion over a list, with values in X: it is well defined, and what   *)
(* every step preserves holds at the end.                                  *)

IsRecursion(X, x, N, step, f) ==
  /\ f \in [0 .. N -> X] /\ f[0] = x
  /\ \A n \in 1 .. N : f[n] = step[n][f[n - 1]]

LEMMA RecursionExists ==
  ASSUME NEW X, NEW x \in X, NEW N \in Nat, NEW step \in [1 .. N -> [X -> X]]
  PROVE  \E f : IsRecursion(X, x, N, step, f)
  <1> DEFINE steps(n, f) == /\ f[0] = x
                            /\ \A i \in 1 .. n : i <= N => f[i] = step[i][f[i - 1]]
             S == {n \in Nat : \E f \in [0 .. n -> X] : steps(n, f)}
  <1>1. 0 \in S
    <2>1. [i \in 0 .. 0 |-> x] \in [0 .. 0 -> X] /\ steps(0, [i \in 0 .. 0 |-> x])
      OBVIOUS
    <2> QED
      BY <2>1
  <1>2. ASSUME NEW n \in Nat, n \in S PROVE n + 1 \in S
    <2>1. PICK f \in [0 .. n -> X] : steps(n, f)
      BY <1>2
    <2> DEFINE last == IF n + 1 <= N THEN step[n + 1][f[n]] ELSE x
               g == [i \in 0 .. n + 1 |-> IF i = n + 1 THEN last ELSE f[i]]
    <2>2. last \in X
      BY <2>1
    <2> HIDE DEF last
    <2>3. g \in [0 .. n + 1 -> X] /\ g[0] = x
      BY <2>1, <2>2
    <2>4. ASSUME NEW i \in 1 .. n + 1, i <= N PROVE g[i] = step[i][g[i - 1]]
      <3>1. i - 1 \in 0 .. n /\ g[i - 1] = f[i - 1]
        OBVIOUS
      <3>2. CASE i = n + 1
        <4>1. i - 1 = n /\ g[i] = step[n + 1][f[n]]
          BY <2>4, <3>2 DEF last
        <4> QED
          BY <3>1, <3>2, <4>1
      <3>3. CASE i # n + 1
        <4>1. i \in 1 .. n /\ g[i] = f[i]
          BY <3>3
        <4> QED
          BY <2>1, <2>4, <3>1, <4>1
      <3> QED
        BY <3>2, <3>3
    <2>5. steps(n + 1, g)
      BY <2>3, <2>4
    <2> HIDE DEF g, steps
    <2> QED
      BY <2>3, <2>5
  <1> HIDE DEF S
  <1>3. Nat \subseteq S
    BY <1>1, <1>2, NatSetInduction
  <1>4. N \in S
    BY <1>3
  <1> QED
    BY <1>4 DEF S, IsRecursion

LEMMA RecursionStays ==
  ASSUME NEW X, NEW N \in Nat, NEW h, h[0] \in X,
         \A n \in 1 .. N : h[n - 1] \in X => h[n] \in X
  PROVE  h[N] \in X
  <1> DEFINE S == {n \in Nat : n <= N => h[n] \in X}
  <1>1. 0 \in S
    OBVIOUS
  <1>2. ASSUME NEW n \in Nat, n \in S PROVE n + 1 \in S
    <2> SUFFICES ASSUME n + 1 <= N PROVE h[n + 1] \in X
      OBVIOUS
    <2>1. n + 1 \in 1 .. N /\ (n + 1) - 1 = n /\ h[n] \in X
      BY <1>2
    <2> QED
      BY <2>1
  <1> HIDE DEF S
  <1>3. Nat \subseteq S
    BY <1>1, <1>2, NatSetInduction
  <1> QED
    BY <1>3 DEF S

(* A batch leaves the status exact, though it is applied a second time.    *)
LEMMA ApplyAllExact ==
  ASSUME NEW E, Spaced(E), NEW v \in Verdicts,
         NEW s, ExactStatus(s), LogsAgree(s, E, v),
         NEW q \in Seq(Results), \A r \in Entries(q) : r.at \in E /\ v[r.at] = r.kind
  PROVE  ExactStatus(ApplyAll(s, q)) /\ LogsAgree(ApplyAll(s, q), E, v)
  <1> DEFINE X == {x \in CheckStatusType : ExactStatus(x) /\ LogsAgree(x, E, v)}
             N == Len(q)
             def(h) == [n \in 0 .. N |-> IF n = 0 THEN s ELSE ApplyResult(h[n - 1], q[n])]
             applied == CHOOSE h : h = def(h)
             step == [n \in 1 .. N |-> [x \in X |-> ApplyResult(x, q[n])]]
  <1>1. s \in X /\ N \in Nat
    BY DEF ExactStatus
  <1>2. ASSUME NEW n \in 1 .. N, NEW x \in X PROVE ApplyResult(x, q[n]) \in X
    <2>1. q[n] \in Results /\ q[n] \in Entries(q)
      BY DEF Entries
    <2> DEFINE r == q[n]
    <2>2. r \in Results /\ r.at \in E /\ v[r.at] = r.kind
      BY <2>1
    <2> HIDE DEF r
    <2>3. ExactStatus(ApplyResult(x, r)) /\ LogsAgree(ApplyResult(x, r), E, v)
      BY <2>2, ApplyResultExact
    <2> QED
      BY <2>3 DEF r, ExactStatus
  <1> HIDE DEF X
  <1>3. step \in [1 .. N -> [X -> X]]
    BY <1>2
  <1>4. PICK f : IsRecursion(X, s, N, step, f)
    <2> HIDE DEF N, step
    <2> QED
      BY <1>1, <1>3, RecursionExists, Zenon
  <1>5. f = def(f)
    <2>1. f \in [0 .. N -> X] /\ f[0] = s
      BY <1>4 DEF IsRecursion
    <2>2. ASSUME NEW n \in 1 .. N PROVE f[n] = ApplyResult(f[n - 1], q[n])
      <3>1. f[n - 1] \in X
        BY <1>1, <2>1
      <3>2. f[n] = step[n][f[n - 1]]
        BY <1>4 DEF IsRecursion
      <3> QED
        BY <3>1, <3>2
    <2>3. \A n \in 0 .. N : n = 0 \/ n \in 1 .. N
      BY <1>1
    <2> QED
      BY <2>1, <2>2, <2>3
  <1>6. applied = def(applied)
    BY <1>5
  <1>7. ApplyAll(s, q) = applied[N]
    BY DEF ApplyAll
  <1> HIDE DEF applied
  <1>8. applied[0] = s /\ \A n \in 1 .. N : applied[n] = ApplyResult(applied[n - 1], q[n])
    BY <1>1, <1>6
  <1>9. \A n \in 1 .. N : applied[n - 1] \in X => applied[n] \in X
    BY <1>2, <1>8
  <1> HIDE DEF N
  <1>10. applied[N] \in X
    BY <1>1, <1>8, <1>9, RecursionStays
  <1> QED
    BY <1>7, <1>10 DEF X

--------------------------------------------------------------------------------
(* The queues                                                              *)

CheckerType == [waiting : Seq(Results), last : Times, processing : Seq(Results)]
Pending(c) == Entries(c.waiting) \cup Entries(c.processing)

LEMMA AppendEntries ==
  ASSUME NEW T, NEW q \in Seq(T), NEW r \in T
  PROVE  Append(q, r) \in Seq(T) /\ Entries(Append(q, r)) = Entries(q) \cup {r}
  <1> DEFINE new == Append(q, r)
  <1>1. new \in Seq(T) /\ DOMAIN new = 1 .. Len(q) + 1 /\ DOMAIN q = 1 .. Len(q) /\ Len(q) \in Nat
    OBVIOUS
  <1>2. new[Len(q) + 1] = r /\ \A i \in DOMAIN q : new[i] = q[i]
    OBVIOUS
  <1> HIDE DEF new
  <1>3. \A i \in DOMAIN new : i = Len(q) + 1 \/ i \in DOMAIN q
    BY <1>1
  <1>4. Len(q) + 1 \in DOMAIN new /\ DOMAIN q \subseteq DOMAIN new
    BY <1>1
  <1>5. Entries(new) = Entries(q) \cup {r}
    BY <1>2, <1>3, <1>4 DEF Entries
  <1> QED
    BY <1>1, <1>5 DEF new

(* A result that is released or goes on waiting stays in one of the queues *)
(* and nothing else comes into them.                                       *)
LEMMA ReleaseKeeps ==
  ASSUME NEW c \in CheckerType, NEW latest, NEW r \in Results
  PROVE  /\ Release(c, latest, r) \in CheckerType
         /\ Pending(Release(c, latest, r)) = Pending(c) \cup {r}
  <1> DEFINE w == Append(c.waiting, r)
             p == Append(c.processing, r)
             new == Release(c, latest, r)
  <1>1. c.waiting \in Seq(Results) /\ c.processing \in Seq(Results) /\ r.at \in Times
    BY DEF CheckerType, Results
  <1>2. /\ w \in Seq(Results) /\ Entries(w) = Entries(c.waiting) \cup {r}
        /\ p \in Seq(Results) /\ Entries(p) = Entries(c.processing) \cup {r}
    BY <1>1, AppendEntries
  <1> HIDE DEF w, p
  <1>3. /\ new \in CheckerType
        /\ \/ new.waiting = w /\ new.processing = c.processing
           \/ new.waiting = c.waiting /\ new.processing = p
    BY <1>1, <1>2 DEF Release, CheckerType, w, p
  <1> HIDE DEF new
  <1>4. Pending(new) = Pending(c) \cup {r}
    BY <1>2, <1>3 DEF Pending
  <1> QED
    BY <1>3, <1>4 DEF new

LEMMA ReleaseAllKeeps ==
  ASSUME NEW c \in CheckerType, NEW latest, NEW q \in Seq(Results)
  PROVE  /\ ReleaseAll(c, latest, q) \in CheckerType
         /\ Pending(ReleaseAll(c, latest, q)) \subseteq Pending(c) \cup Entries(q)
  <1> DEFINE X == {x \in CheckerType : Pending(x) \subseteq Pending(c) \cup Entries(q)}
             N == Len(q)
             def(h) == [n \in 0 .. N |-> IF n = 0 THEN c ELSE Release(h[n - 1], latest, q[n])]
             released == CHOOSE h : h = def(h)
             step == [n \in 1 .. N |-> [x \in X |-> Release(x, latest, q[n])]]
  <1>1. c \in X /\ N \in Nat
    OBVIOUS
  <1>2. ASSUME NEW n \in 1 .. N, NEW x \in X PROVE Release(x, latest, q[n]) \in X
    <2>1. q[n] \in Results /\ q[n] \in Entries(q)
      BY DEF Entries
    <2> DEFINE r == q[n]
    <2>2. r \in Results /\ r \in Entries(q)
      BY <2>1
    <2> HIDE DEF r
    <2>3. Release(x, latest, r) \in CheckerType /\ Pending(Release(x, latest, r)) = Pending(x) \cup {r}
      BY <2>2, ReleaseKeeps
    <2>4. Release(x, latest, r) \in X
      BY <2>2, <2>3
    <2> QED
      BY <2>4 DEF r
  <1> HIDE DEF X
  <1>3. step \in [1 .. N -> [X -> X]]
    BY <1>2
  <1>4. PICK f : IsRecursion(X, c, N, step, f)
    <2> HIDE DEF N, step
    <2> QED
      BY <1>1, <1>3, RecursionExists, Zenon
  <1>5. f = def(f)
    <2>1. f \in [0 .. N -> X] /\ f[0] = c
      BY <1>4 DEF IsRecursion
    <2>2. ASSUME NEW n \in 1 .. N PROVE f[n] = Release(f[n - 1], latest, q[n])
      <3>1. f[n - 1] \in X
        BY <1>1, <2>1
      <3>2. f[n] = step[n][f[n - 1]]
        BY <1>4 DEF IsRecursion
      <3> QED
        BY <3>1, <3>2
    <2>3. \A n \in 0 .. N : n = 0 \/ n \in 1 .. N
      BY <1>1
    <2> QED
      BY <2>1, <2>2, <2>3
  <1>6. released = def(released)
    BY <1>5
  <1>7. ReleaseAll(c, latest, q) = released[N]
    BY DEF ReleaseAll
  <1> HIDE DEF released
  <1>8. released[0] = c /\ \A n \in 1 .. N : released[n] = Release(released[n - 1], latest, q[n])
    BY <1>1, <1>6
  <1>9. \A n \in 1 .. N : released[n - 1] \in X => released[n] \in X
    BY <1>2, <1>8
  <1> HIDE DEF N
  <1>10. released[N] \in X
    BY <1>1, <1>8, <1>9, RecursionStays
  <1> QED
    BY <1>7, <1>10 DEF X

(* Add: no result appears that was not there.                              *)
LEMMA UpdatesAddKeeps ==
  ASSUME NEW c \in CheckerType, NEW r \in Results
  PROVE  /\ UpdatesAdd(c, r) \in CheckerType
         /\ Pending(UpdatesAdd(c, r)) \subseteq Pending(c) \cup {r}
  <1> DEFINE all == Append(c.waiting, r)
             keys == [i \in DOMAIN all |-> -all[i].at]
             ordered == Rearranged(all, Sorting(keys))
             empty == [c EXCEPT !.waiting = <<>>]
  <1>1. c.waiting \in Seq(Results) /\ c.processing \in Seq(Results)
    BY DEF CheckerType
  <1>2. all \in Seq(Results) /\ Entries(all) = Entries(c.waiting) \cup {r}
    BY <1>1, AppendEntries
  <1> HIDE DEF all
  <1>3. keys \in Seq(Int) /\ DOMAIN keys = DOMAIN all
    <2>1. \A i \in DOMAIN all : all[i] \in Results
      BY <1>2
    <2>2. \A i \in DOMAIN all : all[i].at \in Times
      BY <2>1 DEF Results
    <2>3. \A i \in DOMAIN all : all[i].at \in Nat
      BY <2>2, TimesType, Zenon
    <2>4. \A i \in DOMAIN all : -all[i].at \in Int
      BY <2>3
    <2>5. DOMAIN all = 1 .. Len(all) /\ Len(all) \in Nat
      BY <1>2
    <2> QED
      BY <2>4, <2>5
  <1> HIDE DEF keys
  <1>4. ordered \in Seq(Results) /\ Entries(ordered) = Entries(all)
    BY <1>2, <1>3, SortingExists, RearrangedSame
  <1> HIDE DEF ordered
  <1>5. empty \in CheckerType /\ empty.waiting = <<>> /\ empty.processing = c.processing
    <2>1. <<>> \in Seq(Results)
      OBVIOUS
    <2>2. \A w \in Seq(Results) : /\ [c EXCEPT !.waiting = w] \in CheckerType
                                   /\ [c EXCEPT !.waiting = w].waiting = w
                                   /\ [c EXCEPT !.waiting = w].processing = c.processing
      BY DEF CheckerType
    <2> QED
      BY <2>1, <2>2, Zenon
  <1>6. Pending(empty) \subseteq Pending(c)
    BY <1>5 DEF Pending, Entries
  <1> HIDE DEF empty
  <1> DEFINE new == ReleaseAll(empty, ordered[Len(ordered)].at, ordered)
  <1>7. new \in CheckerType /\ Pending(new) \subseteq Pending(empty) \cup Entries(ordered)
    BY <1>4, <1>5, ReleaseAllKeeps
  <1>8. UpdatesAdd(c, r) = new
    BY DEF UpdatesAdd, new, empty, ordered, keys, all
  <1> HIDE DEF new
  <1>9. Pending(new) \subseteq Pending(c) \cup {r}
    BY <1>2, <1>4, <1>6, <1>7 DEF Pending
  <1> QED
    BY <1>7, <1>8, <1>9

--------------------------------------------------------------------------------
(* The start times                                                         *)

StartOf(n) == (n + 3) * checkPeriod
StartedBy(k) == {StartOf(n) : n \in 0 .. k - 1}

LEMMA Multiples ==
  ASSUME NEW n \in Nat, NEW m \in Nat, n < m, NEW p \in Nat
  PROVE  n * p \in Nat /\ m * p \in Nat /\ n * p + p <= m * p
  <1>1. PICK d \in Nat : m = n + 1 + d
    <2>1. m - n - 1 \in Nat /\ m = n + 1 + (m - n - 1)
      OBVIOUS
    <2> QED
      BY <2>1
  <1>2. d * p \in Nat /\ n * p \in Nat
    OBVIOUS
  <1>3. m * p = n * p + p + d * p
    BY <1>1
  <1> QED
    BY <1>2, <1>3

LEMMA StartsSpaced ==
  ASSUME NEW k \in 0 .. MaxChecks
  PROVE  /\ Spaced(StartedBy(k))
         /\ StartOf(k) \in Times /\ StartOf(k) \notin StartedBy(k)
         /\ StartedBy(k + 1) = StartedBy(k) \cup {StartOf(k)}
  <1> DEFINE p == checkPeriod
  <1>1. p \in Nat /\ p > 1 /\ MaxChecks \in Nat /\ k \in Nat /\ k <= MaxChecks
    BY EpAssumption
  <1>2. \A n, m \in Nat : n < m => /\ StartOf(n) \in Nat /\ StartOf(m) \in Nat
                                   /\ StartOf(n) + p <= StartOf(m)
    <2> SUFFICES ASSUME NEW n \in Nat, NEW m \in Nat, n < m
                 PROVE  /\ StartOf(n) \in Nat /\ StartOf(m) \in Nat
                        /\ StartOf(n) + p <= StartOf(m)
      OBVIOUS
    <2>1. n + 3 \in Nat /\ m + 3 \in Nat /\ n + 3 < m + 3
      OBVIOUS
    <2> QED
      BY <1>1, <2>1, Multiples DEF StartOf
  <1>3. \A n \in Nat : StartOf(n) \in Nat /\ StartOf(n) > 0
    <2> TAKE n \in Nat
    <2>1. 0 * p + p <= (n + 3) * p /\ (n + 3) * p \in Nat /\ 0 * p \in Nat
      BY <1>1, Multiples
    <2> QED
      BY <1>1, <2>1 DEF StartOf
  <1>4. Times = 0 .. StartOf(MaxChecks)
    BY DEF Times, StartOf
  <1>5. ASSUME NEW n \in Nat, n < MaxChecks
        PROVE  StartOf(n) \in Times /\ StartOf(n) + 1 \in Times
    <2>1. /\ StartOf(n) \in Nat /\ StartOf(MaxChecks) \in Nat
          /\ StartOf(n) + p <= StartOf(MaxChecks)
      BY <1>1, <1>2, <1>5
    <2> HIDE DEF p
    <2> QED
      BY <1>1, <1>4, <2>1
  <1>6. StartOf(k) \in Times
    <2>1. StartOf(MaxChecks) \in Times
      BY <1>1, <1>3, <1>4
    <2> QED
      BY <1>1, <1>5, <2>1
  <1>7. ASSUME NEW t \in StartedBy(k) PROVE \E n \in Nat : n < k /\ t = StartOf(n)
    BY <1>1 DEF StartedBy
  <1>8. Spaced(StartedBy(k))
    <2> SUFFICES ASSUME NEW t \in StartedBy(k), NEW u \in StartedBy(k)
                 PROVE  /\ t \in Times /\ t + 1 \in Times /\ t > 0
                        /\ t < u => t + 1 < u
      BY DEF Spaced
    <2>1. PICK n \in Nat : n < k /\ t = StartOf(n)
      BY <1>7
    <2>2. PICK m \in Nat : m < k /\ u = StartOf(m)
      BY <1>7
    <2>3. t \in Times /\ t + 1 \in Times /\ t > 0
      BY <1>1, <1>3, <1>5, <2>1
    <2>4. CASE n < m
      BY <1>1, <1>2, <2>1, <2>2, <2>3, <2>4
    <2>5. CASE m < n
      BY <1>1, <1>2, <2>1, <2>2, <2>3, <2>5
    <2>6. CASE m = n
      BY <1>3, <2>1, <2>2, <2>3, <2>6
    <2> QED
      BY <2>3, <2>4, <2>5, <2>6
  <1>9. StartOf(k) \notin StartedBy(k)
    <2> SUFFICES ASSUME NEW n \in Nat, n < k, StartOf(k) = StartOf(n) PROVE FALSE
      BY <1>7
    <2> QED
      BY <1>1, <1>2
  <1>10. StartedBy(k + 1) = StartedBy(k) \cup {StartOf(k)}
    <2>1. 0 .. (k + 1) - 1 = (0 .. k - 1) \cup {k}
      BY <1>1
    <2> QED
      BY <2>1 DEF StartedBy
  <1> QED
    BY <1>6, <1>8, <1>9, <1>10

--------------------------------------------------------------------------------
(* The inductive invariant: there is one verdict for every check that has  *)
(* ended, which the results in the queues and the entries of all logs tell *)
(* of, and both statuses are exact.                                        *)

Started == StartedBy(ticks)
Ended == Started \ inflight

Agree(E, v) ==
  /\ \A r \in Pending(checker) : r.at \in E /\ v[r.at] = r.kind
  /\ LogsAgree(cached, E, v) /\ LogsAgree(stored, E, v)

EpInv ==
  /\ ticks \in 0 .. MaxChecks /\ epFaults \in 0 .. MaxEpFaults
  /\ inflight \subseteq Started /\ checker \in CheckerType
  /\ ExactStatus(cached) /\ ExactStatus(stored)
  /\ \E v \in Verdicts : Agree(Ended, v)

(* The checks that end leave the logs as they are.                         *)
LEMMA LogsAgreeLonger ==
  ASSUME NEW s, NEW E, NEW F, E \subseteq F, NEW v, NEW w, \A t \in E : w[t] = v[t],
         LogsAgree(s, E, v)
  PROVE  LogsAgree(s, F, w)
  BY DEF LogsAgree, SuccessEntry, FailureEntry

(* A status or a checker without entries.                                  *)
LEMMA NewIsExact ==
  /\ ExactStatus(NoCheckStatus) /\ NewChecker \in CheckerType
  /\ Pending(NewChecker) = {}
  /\ \A E, v : LogsAgree(NoCheckStatus, E, v)
  <1>1. /\ NoCheckStatus.successes = <<>> /\ NoCheckStatus.failures = <<>>
        /\ NoCheckStatus.outages = <<>> /\ NoCheckStatus.reachable = "unknown"
        /\ NoCheckStatus \in CheckStatusType
    BY DEF NoCheckStatus, CheckStatusType, Log
  <1>2. IsLog(<<>>) /\ Newest(<<>>) = 0
    BY EpAssumption DEF IsLog, Log, Descending, Newest
  <1>3. OutagesFit(<<>>, 0, 0)
    BY EpAssumption DEF OutagesFit, OutagesOrdered, Open
  <1>4. ~InOutage(NoCheckStatus)
    BY <1>1 DEF InOutage, Open
  <1>5. ExactStatus(NoCheckStatus)
    BY <1>1, <1>2, <1>3, <1>4 DEF ExactStatus
  <1>6. Entries(<<>>) = {}
    BY DEF Entries
  <1>7. \A E, v : LogsAgree(NoCheckStatus, E, v)
    BY <1>1, <1>6 DEF LogsAgree
  <1>8. NewChecker.waiting = <<>> /\ NewChecker.processing = <<>>
    BY DEF NewChecker
  <1>9. NewChecker \in CheckerType
    <2>1. 0 \in Times
      BY EpAssumption DEF Times
    <2> QED
      BY <2>1 DEF NewChecker, CheckerType
  <1>10. Pending(NewChecker) = {}
    BY <1>6, <1>8 DEF Pending
  <1> QED
    BY <1>5, <1>7, <1>9, <1>10

LEMMA EpInitInv == EpInit => EpInv
  <1> SUFFICES ASSUME EpInit PROVE EpInv
    OBVIOUS
  <1>1. [n \in Nat |-> "success"] \in Verdicts
    BY DEF Verdicts, Kinds
  <1>2. Agree(Ended, [n \in Nat |-> "success"])
    BY NewIsExact DEF EpInit, Agree
  <1>3. ticks \in 0 .. MaxChecks /\ epFaults \in 0 .. MaxEpFaults /\ inflight \subseteq Started
    BY EpAssumption DEF EpInit
  <1> QED
    BY <1>1, <1>2, <1>3, NewIsExact DEF EpInit, EpInv

(* Every batch in the queue can be applied to the cached status.           *)
LEMMA BatchExact ==
  ASSUME EpInv, NEW v \in Verdicts, Agree(Ended, v)
  PROVE  /\ ExactStatus(ApplyAll(cached, checker.processing))
         /\ LogsAgree(ApplyAll(cached, checker.processing), Ended, v)
  <1> DEFINE q == checker.processing
  <1>1. q \in Seq(Results)
    BY DEF EpInv, CheckerType
  <1>2. Spaced(Ended)
    <2>1. Spaced(Started)
      BY StartsSpaced DEF EpInv, Started
    <2> QED
      BY <2>1 DEF Spaced, Ended
  <1>3. \A r \in Entries(q) : r.at \in Ended /\ v[r.at] = r.kind
    BY DEF Agree, Pending
  <1>4. ExactStatus(cached) /\ LogsAgree(cached, Ended, v)
    BY DEF EpInv, Agree
  <1> HIDE DEF q
  <1>5. ExactStatus(ApplyAll(cached, q)) /\ LogsAgree(ApplyAll(cached, q), Ended, v)
    BY <1>1, <1>2, <1>3, <1>4, ApplyAllExact
  <1> QED
    BY <1>5 DEF q

LEMMA StartCheckInv == EpInv /\ StartCheck => EpInv'
  <1> SUFFICES ASSUME EpInv, StartCheck PROVE EpInv'
    OBVIOUS
  <1> USE DEF StartCheck
  <1>1. ticks \in 0 .. MaxChecks /\ ticks < MaxChecks /\ MaxChecks \in Nat
    BY EpAssumption DEF EpInv
  <1>2. /\ StartOf(ticks) \notin Started /\ Started' = Started \cup {StartOf(ticks)}
    BY <1>1, StartsSpaced DEF Started
  <1>3. inflight' = inflight \cup {StartOf(ticks)}
    BY DEF StartOf
  <1>4. ticks' \in 0 .. MaxChecks
    BY <1>1
  <1>5. Ended' = Ended /\ inflight' \subseteq Started'
    BY <1>2, <1>3 DEF Ended, EpInv
  <1>6. \E v \in Verdicts : Agree(Ended, v)'
    BY <1>5 DEF EpInv, Agree
  <1> QED
    BY <1>4, <1>5, <1>6 DEF EpInv

LEMMA checkEndpointInv == EpInv /\ checkEndpoint => EpInv'
  <1> SUFFICES ASSUME EpInv, checkEndpoint PROVE EpInv'
    OBVIOUS
  <1>1. PICK t \in inflight, k \in Kinds :
          /\ inflight' = inflight \ {t}
          /\ checker' = UpdatesAdd(checker, [at |-> t, kind |-> k])
    BY DEF checkEndpoint
  <1>2. UNCHANGED <<ticks, cached, stored, epFaults>>
    BY DEF checkEndpoint
  <1>3. PICK v \in Verdicts : Agree(Ended, v)
    BY DEF EpInv
  <1> DEFINE r == [at |-> t, kind |-> k]
             w == [v EXCEPT ![t] = k]
  <1>4. t \in Times /\ t \in Started /\ t \notin Ended
    <2>1. t \in Started /\ t \notin Ended
      BY DEF EpInv, Ended
    <2> QED
      BY <2>1, StartsSpaced DEF EpInv, Started, Spaced
  <1>5. r \in Results /\ r.at = t /\ r.kind = k
    BY <1>4 DEF Results
  <1> HIDE DEF r
  <1>6. checker' \in CheckerType /\ Pending(checker') \subseteq Pending(checker) \cup {r}
    BY <1>1, <1>5, UpdatesAddKeeps DEF EpInv, r
  <1>7. Started' = Started /\ Ended' = Ended \cup {t}
    BY <1>1, <1>2, <1>4 DEF Started, Ended
  <1>8. w \in Verdicts /\ w[t] = k /\ \A u \in Ended : w[u] = v[u]
    <2>1. t \in Nat
      BY <1>4, TimesType
    <2> QED
      BY <1>4, <2>1 DEF Verdicts
  <1> HIDE DEF w
  <1>9. LogsAgree(cached, Ended', w) /\ LogsAgree(stored, Ended', w)
    BY <1>3, <1>7, <1>8, LogsAgreeLonger DEF Agree
  <1>10. \A x \in Pending(checker') : x.at \in Ended' /\ w[x.at] = x.kind
    BY <1>3, <1>5, <1>6, <1>7, <1>8 DEF Agree
  <1>11. Agree(Ended, w)'
    BY <1>2, <1>9, <1>10 DEF Agree
  <1>12. inflight' \subseteq Started'
    BY <1>1, <1>7 DEF EpInv
  <1> QED
    BY <1>2, <1>6, <1>8, <1>11, <1>12 DEF EpInv

LEMMA ProcessInv == EpInv /\ (Process \/ ProcessFails) => EpInv'
  <1> SUFFICES ASSUME EpInv, Process \/ ProcessFails PROVE EpInv'
    OBVIOUS
  <1>1. PICK v \in Verdicts : Agree(Ended, v)
    BY DEF EpInv
  <1> DEFINE new == ApplyAll(cached, checker.processing)
  <1>2. ExactStatus(new) /\ LogsAgree(new, Ended, v)
    BY <1>1, BatchExact
  <1> HIDE DEF new
  <1>3. UNCHANGED <<ticks, inflight>> /\ cached' = new /\ stored' \in {stored, new}
    BY DEF Process, ProcessFails, new
  <1>4. Started' = Started /\ Ended' = Ended
    BY <1>3 DEF Started, Ended
  <1>5. checker' \in CheckerType /\ Pending(checker') \subseteq Pending(checker)
    <2>1. CASE Process
      <3>1. <<>> \in Seq(Results) /\ Entries(<<>>) = {}
        BY DEF Entries
      <3>2. \A q \in Seq(Results) :
              /\ [checker EXCEPT !.processing = q] \in CheckerType
              /\ [checker EXCEPT !.processing = q].waiting = checker.waiting
              /\ [checker EXCEPT !.processing = q].processing = q
        BY DEF EpInv, CheckerType
      <3>3. checker' \in CheckerType /\ checker'.waiting = checker.waiting /\ checker'.processing = <<>>
        BY <2>1, <3>1, <3>2, Zenon DEF Process
      <3> QED
        BY <3>1, <3>3 DEF Pending
    <2>2. CASE ProcessFails
      BY <2>2 DEF ProcessFails, EpInv
    <2> QED
      BY <2>1, <2>2
  <1>6. epFaults' \in 0 .. MaxEpFaults
    BY EpAssumption DEF Process, ProcessFails, EpFault, EpInv
  <1>7. ExactStatus(cached') /\ ExactStatus(stored')
    BY <1>2, <1>3 DEF EpInv
  <1>8. Agree(Ended, v)'
    BY <1>1, <1>2, <1>3, <1>4, <1>5 DEF Agree
  <1>9. ticks' \in 0 .. MaxChecks /\ inflight' \subseteq Started'
    BY <1>3, <1>4 DEF EpInv
  <1> QED
    BY <1>5, <1>6, <1>7, <1>8, <1>9 DEF EpInv

LEMMA CacheEventInv == EpInv /\ CacheEvent => EpInv'
  <1> SUFFICES ASSUME EpInv, CacheEvent PROVE EpInv'
    OBVIOUS
  <1> USE DEF CacheEvent
  <1>1. Started' = Started /\ Ended' = Ended
    BY DEF Started, Ended
  <1>2. \E v \in Verdicts : Agree(Ended, v)'
    BY <1>1 DEF EpInv, Agree
  <1> QED
    BY <1>1, <1>2 DEF EpInv

LEMMA NewConnectionCheckerInv == EpInv /\ NewConnectionChecker => EpInv'
  <1> SUFFICES ASSUME EpInv, NewConnectionChecker PROVE EpInv'
    OBVIOUS
  <1> USE DEF NewConnectionChecker
  <1>1. PICK v \in Verdicts : Agree(Ended, v)
    BY DEF EpInv
  <1>2. Started' = Started /\ Ended \subseteq Ended' /\ inflight' \subseteq Started'
    BY DEF Started, Ended
  <1>3. ExactStatus(cached') /\ ExactStatus(stored')
    BY NewIsExact DEF EpInv
  <1>4. LogsAgree(stored, Ended', v)
    BY <1>1, <1>2, LogsAgreeLonger DEF Agree
  <1>5. LogsAgree(cached', Ended', v) /\ LogsAgree(stored', Ended', v)
    BY <1>4, NewIsExact
  <1>6. checker' \in CheckerType /\ Pending(checker') = {}
    BY NewIsExact
  <1>7. Agree(Ended, v)'
    BY <1>5, <1>6 DEF Agree
  <1>8. epFaults' \in 0 .. MaxEpFaults
    BY EpAssumption DEF EpFault, EpInv
  <1> QED
    BY <1>2, <1>3, <1>6, <1>7, <1>8 DEF EpInv

LEMMA EpNextInv == EpInv /\ [EpNext]_epVars => EpInv'
  <1> SUFFICES ASSUME EpInv, [EpNext]_epVars PROVE EpInv'
    OBVIOUS
  <1>1. CASE UNCHANGED epVars
    <2>1. Started' = Started /\ Ended' = Ended
      BY <1>1 DEF epVars, Started, Ended
    <2>2. \E v \in Verdicts : Agree(Ended, v)'
      BY <1>1, <2>1 DEF epVars, EpInv, Agree
    <2> QED
      BY <1>1, <2>1, <2>2 DEF epVars, EpInv
  <1> QED
    BY <1>1, StartCheckInv, checkEndpointInv, ProcessInv, CacheEventInv, NewConnectionCheckerInv
    DEF EpNext

--------------------------------------------------------------------------------
(* What the invariant implies.                                             *)

LEMMA EpInvType == EpInv => EpTypeOK
  <1> SUFFICES ASSUME EpInv PROVE EpTypeOK
    OBVIOUS
  <1>1. inflight \subseteq Times
    BY StartsSpaced DEF EpInv, Started, Spaced
  <1>2. ASSUME NEW s, ExactStatus(s) PROVE EpStatusOK(s)
    <2>1. s.outages \in Seq(Outage) /\ Len(s.outages) <= MaxOutages
      BY <1>2 DEF ExactStatus, OutagesFit
    <2>2. s.reachable \in {"unknown", "true", "false"}
      BY <1>2 DEF ExactStatus, CheckStatusType
    <2> QED
      BY <1>2, <2>1, <2>2 DEF EpStatusOK, ExactStatus, IsLog
  <1> QED
    BY <1>1, <1>2 DEF EpTypeOK, EpInv, CheckerType

LEMMA LatestIsNewest ==
  ASSUME NEW log, IsLog(log)
  PROVE  LatestOf(log) = Newest(log)
  <1>1. CASE log = <<>>
    BY <1>1 DEF LatestOf, Newest
  <1>2. CASE log # <<>>
    <2>1. log \in Seq(Times)
      BY DEF IsLog, Log
    <2>2. 1 \in DOMAIN log /\ Newest(log) = log[1] /\ \A i \in DOMAIN log : log[i] \in Nat
      BY <1>2, <2>1, SeqTimes DEF Newest
    <2>3. \A j \in DOMAIN log : log[j] <= log[1]
      BY <2>2, NewestType DEF Entries
    <2> DEFINE i == CHOOSE i \in DOMAIN log : \A j \in DOMAIN log : log[j] <= log[i]
    <2>4. i \in DOMAIN log /\ \A j \in DOMAIN log : log[j] <= log[i]
      BY <2>2, <2>3
    <2>5. LatestOf(log) = log[i]
      BY <1>2 DEF LatestOf
    <2> HIDE DEF i
    <2> QED
      BY <2>2, <2>3, <2>4, <2>5
  <1> QED
    BY <1>1, <1>2

LEMMA EpInvExact == EpInv => OutageExact
  <1> SUFFICES ASSUME EpInv, NEW s \in {cached, stored}
               PROVE  /\ InOutage(s) <=> LatestOf(s.failures) > LatestOf(s.successes)
                      /\ s.reachable = "false" <=> InOutage(s)
                      /\ \A i \in DOMAIN s.outages :
                           /\ i > 1 \/ ~InOutage(s) => s.outages[i].end > s.outages[i].start
                           /\ i > 1 => s.outages[i].end < s.outages[i - 1].start
    BY DEF OutageExact
  <1>1. ExactStatus(s)
    BY DEF EpInv
  <1>2. LatestOf(s.failures) = Newest(s.failures) /\ LatestOf(s.successes) = Newest(s.successes)
    BY <1>1, LatestIsNewest DEF ExactStatus
  <1>3. OutagesFit(s.outages, Newest(s.failures), Newest(s.successes))
    BY <1>1 DEF ExactStatus
  <1>4. InOutage(s) <=> LatestOf(s.failures) > LatestOf(s.successes)
    BY <1>2, <1>3 DEF OutagesFit, InOutage
  <1>5. s.reachable = "false" <=> InOutage(s)
    BY <1>1 DEF ExactStatus
  <1>6. ASSUME NEW i \in DOMAIN s.outages
        PROVE  /\ i > 1 \/ ~InOutage(s) => s.outages[i].end > s.outages[i].start
               /\ i > 1 => s.outages[i].end < s.outages[i - 1].start
    <2> DEFINE os == s.outages
    <2>1. os \in Seq(Outage) /\ OutagesOrdered(os)
      BY <1>3 DEF OutagesFit
    <2>2. InOutage(s) <=> Open(os)
      BY DEF InOutage
    <2>3. i \in DOMAIN os
      BY <1>6
    <2> HIDE DEF os
    <2>4. i \in Nat /\ (i = 1 \/ i > 1) /\ os # <<>>
      BY <2>1, <2>3
    <2>5. ~Open(os) /\ i = 1 => os[i].end # 0
      BY <2>4 DEF Open
    <2>6. /\ i > 1 \/ ~Open(os) => os[i].end > os[i].start
          /\ i > 1 => os[i].end < os[i - 1].start
      BY <2>1, <2>3, <2>4, <2>5 DEF OutagesOrdered
    <2> QED
      BY <2>2, <2>6 DEF os
  <1> QED
    BY <1>4, <1>5, <1>6

LEMMA EpInvariance == EpSpec => []EpInv
  BY EpInitInv, EpNextInv, PTL DEF EpSpec

(* Types: logs and outages never grow beyond their limits, and all times   *)
(* are those of checks (Add, UpdateStatus).                                *)
THEOREM EpTypeCorrect == EpSpec => []EpTypeOK
  BY EpInvariance, EpInvType, PTL

(* The outages tell the true history of the entries (manageStatusOutage).  *)
THEOREM OutagesExact == EpSpec => []OutageExact
  BY EpInvariance, EpInvExact, PTL

================================================================================
