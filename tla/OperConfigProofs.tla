--------------------------- MODULE OperConfigProofs ----------------------------
(***************************************************************************)
(* Proofs about OperConfig: that it implements SafeConfig and that the     *)
(* operands keep their addresses, for any configurations, any hosts, any   *)
(* number of users' changes, of failed calls and of crashes.               *)
(***************************************************************************)
EXTENDS OperConfig, FiniteSetTheorems, SequenceTheorems, TLAPS

--------------------------------------------------------------------------------
(* Blocks of addresses                                                     *)

(* The address a network is written with is one of its addresses.          *)
LEMMA InOwnBlock ==
  ASSUME NEW net \in Nat, NEW s \in Nat \ {0}
  PROVE  /\ (net \div s) \in Nat
         /\ (net \div s) * s <= net /\ net < (net \div s) * s + s
  OBVIOUS

(* The multiples of the larger size are multiples of the smaller one.      *)
LEMMA BlockArithmetic ==
  ASSUME NEW net \in Nat, NEW s \in Nat \ {0}, NEW k \in Nat \ {0}
  PROVE  /\ (net \div (k * s)) * (k * s) <= (net \div s) * s
         /\ (net \div s) * s + s <= (net \div (k * s)) * (k * s) + k * s
  <1> DEFINE q == net \div s
             r == net \div (k * s)
  <1>1. k * s \in Nat \ {0}
    OBVIOUS
  <1>2. /\ q \in Nat /\ q * s <= net /\ net < q * s + s
    BY InOwnBlock
  <1>3. r \in Nat /\ r * (k * s) <= net /\ net < r * (k * s) + k * s
    BY <1>1, InOwnBlock
  <1> HIDE DEF q, r
  <1>4. r * (k * s) = (r * k) * s /\ r * (k * s) + k * s = (r * k + k) * s /\ q * s + s = (q + 1) * s
        /\ r * k \in Nat /\ r * k + k \in Nat
    BY <1>2, <1>3
  <1>5. ASSUME NEW a \in Nat, NEW b \in Nat, a * s < b * s PROVE a < b
    BY <1>5
  <1>6. ASSUME NEW a \in Nat, NEW b \in Nat, a <= b PROVE a * s <= b * s
    BY <1>6
  <1>7. r * k < q + 1
    BY <1>2, <1>3, <1>4, <1>5
  <1>8. q < r * k + k
    BY <1>2, <1>3, <1>4, <1>5
  <1>9. r * k <= q /\ q + 1 <= r * k + k
    BY <1>2, <1>4, <1>7, <1>8
  <1>10. (r * k) * s <= q * s /\ (q + 1) * s <= (r * k + k) * s
    BY <1>2, <1>4, <1>6, <1>9
  <1> QED
    BY <1>4, <1>10 DEF q, r

Nets == [net : Nat, size : BlockSizes] \cup [net : Nat, size : BlockSizes, host : Nat]

LEMMA NetInBlock ==
  ASSUME NEW n \in Nets
  PROVE  n.net \in Safe!Block(n)
  <1>1. n.net \in Nat /\ n.size \in Nat \ {0}
    BY OperConfigAssumption DEF Nets
  <1> QED
    BY <1>1, InOwnBlock DEF Safe!Block

(* A network that is enlarged keeps all its addresses.                     *)
LEMMA BlockGrows ==
  ASSUME NEW a \in Nets, NEW b \in Nets, a.net = b.net, a.size <= b.size
  PROVE  Safe!Block(a) \subseteq Safe!Block(b)
  <1>1. a.net \in Nat /\ a.size \in BlockSizes /\ b.size \in BlockSizes
    BY DEF Nets
  <1>2. a.size \in Nat \ {0} /\ b.size \in Nat \ {0}
    BY <1>1, OperConfigAssumption
  <1>3. PICK k \in 1 .. b.size : b.size = k * a.size
    BY <1>1, OperConfigAssumption
  <1> DEFINE q == (a.net \div a.size) * a.size
             r == (b.net \div b.size) * b.size
  <1>4. q \in Nat /\ r \in Nat
    BY <1>1, <1>2, InOwnBlock
  <1>5. r <= q /\ q + a.size <= r + b.size
    <2>1. k \in Nat \ {0}
      BY <1>2
    <2>2. r = (a.net \div (k * a.size)) * (k * a.size)
      BY <1>3
    <2> QED
      BY <1>1, <1>2, <1>3, <2>1, <2>2, BlockArithmetic
  <1>6. Safe!Block(a) = q .. q + a.size - 1 /\ Safe!Block(b) = r .. r + b.size - 1
    BY DEF Safe!Block
  <1> HIDE DEF q, r
  <1> QED
    BY <1>2, <1>4, <1>5, <1>6

--------------------------------------------------------------------------------
(* Sorting                                                                 *)

(* Networks that do not overlap are written with different addresses, so   *)
(* that counting the smaller ones gives each its place: an order exists.   *)
Distinct(s) == \A i, j \in DOMAIN s : s[i].net = s[j].net => i = j

IsOrder(s, p) ==
  /\ p \in [DOMAIN s -> DOMAIN s] /\ Elements(p) = DOMAIN s
  /\ \A i, j \in DOMAIN s : i < j => s[p[i]].net <= s[p[j]].net

LEMMA OrderExists ==
  ASSUME NEW s \in Seq(PodNets), Distinct(s)
  PROVE  \E p : IsOrder(s, p)
  <1> DEFINE D == DOMAIN s
             upTo(i) == {j \in D : s[j].net <= s[i].net}
             rank == [i \in D |-> Cardinality(upTo(i))]
  <1>1. D = 1 .. Len(s) /\ Len(s) \in Nat
    OBVIOUS
  <1>2. \A i \in D : s[i].net \in Nat
    <2>1. \A i \in D : s[i] \in PodNets
      OBVIOUS
    <2> QED
      BY <2>1 DEF PodNets
  <1>3. IsFiniteSet(D) /\ Cardinality(D) = Len(s)
    BY <1>1, FS_Interval
  <1>4. \A i \in D : /\ IsFiniteSet(upTo(i)) /\ Cardinality(upTo(i)) \in Nat
                     /\ Cardinality(upTo(i)) \in D
    <2> TAKE i \in D
    <2>1. upTo(i) \subseteq D /\ i \in upTo(i)
      BY <1>2
    <2>2. IsFiniteSet(upTo(i)) /\ Cardinality(upTo(i)) <= Len(s) /\ Cardinality(upTo(i)) \in Nat
      BY <1>3, <2>1, FS_Subset, FS_CardinalityType
    <2>3. Cardinality(upTo(i)) # 0
      BY <2>1, <2>2, FS_EmptySet
    <2> QED
      BY <1>1, <2>2, <2>3
  <1>5. ASSUME NEW i \in D, NEW j \in D, s[i].net < s[j].net
        PROVE  Cardinality(upTo(i)) < Cardinality(upTo(j))
    <2>1. upTo(i) \subseteq upTo(j)
      BY <1>2, <1>5
    <2>2. j \in upTo(j) /\ j \notin upTo(i)
      BY <1>2, <1>5
    <2>3. Cardinality(upTo(i)) <= Cardinality(upTo(j)) /\ Cardinality(upTo(i)) # Cardinality(upTo(j))
      BY <1>4, <2>1, <2>2, FS_Subset
    <2>4. Cardinality(upTo(i)) \in Nat /\ Cardinality(upTo(j)) \in Nat
      BY <1>4
    <2> QED
      BY <2>3, <2>4
  <1> HIDE DEF upTo
  <1>6. rank \in [D -> D]
    BY <1>4
  <1>7. \A i, j \in D : rank[i] = rank[j] => i = j
    <2> TAKE i, j \in D
    <2>1. CASE s[i].net = s[j].net
      BY <2>1 DEF Distinct
    <2>2. CASE s[i].net < s[j].net
      BY <1>1, <1>4, <1>5, <2>2
    <2>3. CASE s[j].net < s[i].net
      BY <1>1, <1>4, <1>5, <2>3
    <2> QED
      BY <1>2, <2>1, <2>2, <2>3
  <1>8. \A k \in D : \E i \in D : rank[i] = k
    <2>1. rank \in Injection(D, D)
      BY <1>6, <1>7 DEF Injection, IsInjective
    <2>2. rank \in Surjection(D, D)
      BY <1>3, <2>1, FS_Injection
    <2> QED
      BY <2>2 DEF Surjection
  <1> DEFINE p == [k \in D |-> CHOOSE i \in D : rank[i] = k]
  <1>9. \A k \in D : p[k] \in D /\ rank[p[k]] = k
    BY <1>8
  <1>10. p \in [D -> D]
    BY <1>9
  <1>11. \A i \in D : p[rank[i]] = i
    BY <1>6, <1>7, <1>9
  <1> HIDE DEF p
  <1>12. Elements(p) = D
    <2>1. DOMAIN p = D
      BY <1>10
    <2>2. \A i \in D : rank[i] \in D
      BY <1>6
    <2> HIDE DEF rank, D
    <2>3. Elements(p) \subseteq D
      BY <2>1, <1>9 DEF Elements
    <2>4. ASSUME NEW i \in D PROVE i \in Elements(p)
      <3>1. rank[i] \in DOMAIN p /\ p[rank[i]] = i
        BY <2>1, <2>2, <1>11
      <3> QED
        BY <3>1 DEF Elements
    <2> QED
      BY <2>3, <2>4
  <1>13. ASSUME NEW i \in D, NEW j \in D, i < j PROVE s[p[i]].net <= s[p[j]].net
    <2>1. p[i] \in D /\ p[j] \in D /\ rank[p[i]] = i /\ rank[p[j]] = j
      BY <1>9
    <2>2. CASE s[p[j]].net < s[p[i]].net
      <3>1. Cardinality(upTo(p[j])) < Cardinality(upTo(p[i]))
        BY <1>5, <2>1, <2>2
      <3> QED
        BY <1>1, <1>13, <2>1, <3>1
    <2> QED
      BY <1>2, <2>1, <2>2
  <1> QED
    BY <1>10, <1>12, <1>13 DEF IsOrder

(* Sorting rearranges a list: it keeps its length and its elements.        *)
LEMMA SortedRearranges ==
  ASSUME NEW s \in Seq(PodNets), Distinct(s)
  PROVE  \E p : /\ IsOrder(s, p)
                /\ Sorted(s) = [i \in DOMAIN s |-> s[p[i]]]
  <1> DEFINE p == CHOOSE q \in [DOMAIN s -> DOMAIN s] :
                    /\ Elements(q) = DOMAIN s
                    /\ \A i, j \in DOMAIN s : i < j => s[q[i]].net <= s[q[j]].net
  <1>1. IsOrder(s, p)
    BY OrderExists DEF IsOrder
  <1>2. Sorted(s) = [i \in DOMAIN s |-> s[p[i]]]
    BY DEF Sorted
  <1> HIDE DEF p
  <1> QED
    BY <1>1, <1>2

--------------------------------------------------------------------------------
(* Valid configurations                                                    *)

(* The networks of a configuration, in one list.                           *)
LEMMA AllNets ==
  ASSUME NEW sn \in Seq(ServiceNets), NEW cn \in Seq(PodNets)
  PROVE  /\ sn \o cn \in Seq(Nets) /\ DOMAIN (sn \o cn) = 1 .. Len(sn) + Len(cn)
         /\ \A i \in 1 .. Len(sn) : (sn \o cn)[i] = sn[i]
         /\ \A i \in 1 .. Len(cn) : (sn \o cn)[Len(sn) + i] = cn[i]
  <1>1. sn \in Seq(Nets) /\ cn \in Seq(Nets)
    <2>1. ServiceNets \subseteq Nets /\ PodNets \subseteq Nets
      BY DEF Nets, ServiceNets, PodNets
    <2> QED
      BY <2>1
  <1>2. sn \o cn \in Seq(Nets) /\ Len(sn \o cn) = Len(sn) + Len(cn)
        /\ \A i \in 1 .. Len(sn) + Len(cn) :
             (sn \o cn)[i] = IF i <= Len(sn) THEN sn[i] ELSE cn[i - Len(sn)]
    BY <1>1, ConcatProperties
  <1>3. Len(sn) \in Nat /\ Len(cn) \in Nat
    OBVIOUS
  <1>4. ASSUME NEW i \in 1 .. Len(cn) PROVE (sn \o cn)[Len(sn) + i] = cn[i]
    BY <1>2, <1>3
  <1>5. ASSUME NEW i \in 1 .. Len(sn) PROVE (sn \o cn)[i] = sn[i]
    BY <1>2, <1>3
  <1>6. DOMAIN (sn \o cn) = 1 .. Len(sn) + Len(cn)
    BY <1>2
  <1> QED
    BY <1>2, <1>4, <1>5, <1>6

(* Pod networks that do not overlap are written with different addresses.  *)
LEMMA DistinctNets ==
  ASSUME NEW sn \in Seq(ServiceNets), NEW cn \in Seq(PodNets), NoOverlap(sn \o cn)
  PROVE  Distinct(cn)
  <1> DEFINE a == sn \o cn
  <1>1. Len(sn) \in Nat /\ Len(cn) \in Nat /\ DOMAIN cn = 1 .. Len(cn)
    OBVIOUS
  <1>2. \A i \in DOMAIN cn : Len(sn) + i \in DOMAIN a /\ a[Len(sn) + i] = cn[i] /\ cn[i] \in Nets
    <2> TAKE i \in DOMAIN cn
    <2>1. DOMAIN a = 1 .. Len(sn) + Len(cn) /\ a[Len(sn) + i] = cn[i]
      BY <1>1, AllNets
    <2>2. cn[i] \in Nets
      <3>1. cn[i] \in PodNets
        OBVIOUS
      <3> QED
        BY <3>1 DEF Nets, PodNets
    <2>3. Len(sn) + i \in 1 .. Len(sn) + Len(cn)
      BY <1>1
    <2> HIDE DEF a
    <2> QED
      BY <2>1, <2>2, <2>3
  <1>3. ASSUME NEW i \in DOMAIN cn, NEW j \in DOMAIN cn, i < j, cn[i].net = cn[j].net
        PROVE  FALSE
    <2>1. Len(sn) + i < Len(sn) + j
      BY <1>1, <1>3
    <2>2. Safe!Block(a[Len(sn) + i]) \cap Safe!Block(a[Len(sn) + j]) = {}
      BY <1>2, <2>1 DEF NoOverlap
    <2>3. cn[i].net \in Safe!Block(cn[i]) /\ cn[i].net \in Safe!Block(cn[j])
      BY <1>2, <1>3, NetInBlock
    <2> QED
      BY <1>2, <2>2, <2>3
  <1>4. \A i, j \in DOMAIN cn : i = j \/ i < j \/ j < i
    BY <1>1
  <1> QED
    BY <1>3, <1>4 DEF Distinct

(* Networks that do not overlap still do not when the pod networks are     *)
(* sorted.                                                                 *)
LEMMA SortedFacts ==
  ASSUME NEW sn \in Seq(ServiceNets), NEW cn \in Seq(PodNets), NoOverlap(sn \o cn)
  PROVE  /\ Sorted(cn) \in Seq(PodNets) /\ Len(Sorted(cn)) = Len(cn)
         /\ Elements(Sorted(cn)) = Elements(cn)
         /\ NoOverlap(sn \o Sorted(cn))
  <1> DEFINE D == DOMAIN cn
             t == Sorted(cn)
  <1>1. PICK p : IsOrder(cn, p) /\ t = [i \in D |-> cn[p[i]]]
    BY DistinctNets, SortedRearranges
  <1>2. Len(sn) \in Nat /\ Len(cn) \in Nat /\ D = 1 .. Len(cn) /\ DOMAIN sn = 1 .. Len(sn)
    OBVIOUS
  <1>3. p \in [D -> D] /\ \A k \in D : \E i \in D : p[i] = k
    BY <1>1 DEF IsOrder, Elements
  <1>4. \A i, j \in D : p[i] = p[j] => i = j
    <2>0. IsFiniteSet(D)
      BY <1>2, FS_Interval
    <2>1. p \in Surjection(D, D)
      BY <1>3 DEF Surjection
    <2>2. p \in Injection(D, D)
      BY <2>0, <2>1, FS_SurjSameCardinalityImpliesInj
    <2> QED
      BY <2>2 DEF Injection, IsInjective
  <1>5. \A i \in D : p[i] \in D /\ cn[p[i]] \in PodNets /\ t[i] = cn[p[i]]
    BY <1>1, <1>3
  <1>6. t \in [1 .. Len(cn) -> PodNets]
    BY <1>1, <1>2, <1>5
  <1>7. t \in Seq(PodNets) /\ Len(t) = Len(cn) /\ DOMAIN t = D
    BY <1>2, <1>6
  <1>8. Elements(t) = Elements(cn)
    <2> HIDE DEF t, D
    <2>1. ASSUME NEW i \in D PROVE t[i] \in Elements(cn)
      BY <1>5 DEF Elements, D
    <2>2. ASSUME NEW k \in D PROVE cn[k] \in Elements(t)
      <3>1. PICK i \in D : p[i] = k
        BY <1>3
      <3>2. t[i] = cn[k] /\ i \in DOMAIN t
        BY <1>5, <1>7, <3>1
      <3> QED
        BY <3>2 DEF Elements
    <2> QED
      BY <1>7, <2>1, <2>2 DEF Elements, D
  <1>9. NoOverlap(sn \o t)
    <2> DEFINE a == sn \o cn
               b == sn \o t
               home(i) == IF i <= Len(sn) THEN i ELSE Len(sn) + p[i - Len(sn)]
    <2>1. DOMAIN a = 1 .. Len(sn) + Len(cn) /\ DOMAIN b = 1 .. Len(sn) + Len(cn)
      BY <1>7, AllNets
    <2>2. ASSUME NEW i \in DOMAIN b
          PROVE  home(i) \in DOMAIN a /\ a[home(i)] = b[i]
      <3>1. CASE i <= Len(sn)
        BY <1>2, <1>7, <2>1, <3>1, AllNets
      <3>2. CASE i > Len(sn)
        <4>1. i - Len(sn) \in D /\ i = Len(sn) + (i - Len(sn))
          BY <1>2, <2>1, <3>2
        <4>2. PICK k : k = i - Len(sn)
          OBVIOUS
        <4>3. b[Len(sn) + k] = t[k] /\ t[k] = cn[p[k]] /\ p[k] \in D
          BY <1>2, <1>5, <1>7, <4>1, <4>2, AllNets
        <4>4. a[Len(sn) + p[k]] = cn[p[k]]
          BY <1>2, <4>3, AllNets
        <4>5. home(i) = Len(sn) + p[k]
          BY <1>2, <2>1, <3>2, <4>2
        <4> HIDE DEF a, b, t, home
        <4> QED
          BY <1>2, <2>1, <4>1, <4>2, <4>3, <4>4, <4>5
      <3> QED
        BY <1>2, <2>1, <3>1, <3>2
    <2>3. ASSUME NEW i \in DOMAIN b, NEW j \in DOMAIN b, i < j
          PROVE  home(i) # home(j)
      <3>1. CASE i <= Len(sn) /\ j <= Len(sn)
        BY <1>2, <2>1, <2>3, <3>1
      <3>2. CASE i <= Len(sn) /\ j > Len(sn)
        <4>1. j - Len(sn) \in D
          BY <1>2, <2>1, <3>2
        <4>2. p[j - Len(sn)] \in 1 .. Len(cn)
          BY <1>2, <1>3, <4>1
        <4> QED
          BY <1>2, <2>1, <3>2, <4>2
      <3>3. CASE i > Len(sn)
        <4>1. i - Len(sn) \in D /\ j - Len(sn) \in D /\ i - Len(sn) # j - Len(sn)
          BY <1>2, <2>1, <2>3, <3>3
        <4>2. /\ p[i - Len(sn)] # p[j - Len(sn)]
              /\ p[i - Len(sn)] \in 1 .. Len(cn) /\ p[j - Len(sn)] \in 1 .. Len(cn)
          BY <1>2, <1>3, <1>4, <4>1
        <4> QED
          BY <1>2, <2>1, <2>3, <3>3, <4>2
      <3> QED
        BY <1>2, <2>1, <2>3, <3>1, <3>2, <3>3
    <2>4. \A i, j \in DOMAIN a : i # j => Safe!Block(a[i]) \cap Safe!Block(a[j]) = {}
      <3>1. \A i, j \in DOMAIN a : i # j => i < j \/ j < i
        BY <2>1, <1>2
      <3> HIDE DEF a
      <3>2. NoOverlap(a)
        BY DEF a
      <3> QED
        BY <3>1, <3>2 DEF NoOverlap
    <2> HIDE DEF a, b, home
    <2>5. NoOverlap(b)
      BY <2>2, <2>3, <2>4 DEF NoOverlap
    <2> QED
      BY <2>5 DEF b
  <1> QED
    BY <1>7, <1>8, <1>9

(* What sorting the pod networks leaves as it is.                          *)
OtherFields == {"sn", "type", "mtu", "mig", "noOverlay", "multi", "extra", "proxy", "state"}

LEMMA CheckedFacts ==
  ASSUME NEW p, NEW n \in Configs, validateIPPools(n)
  PROVE  /\ Checked(p, n) \in Configs /\ validateIPPools(Checked(p, n))
         /\ \A f \in OtherFields : Checked(p, n)[f] = n[f]
         /\ Elements(Checked(p, n).cn) = Elements(n.cn) /\ Len(Checked(p, n).cn) = Len(n.cn)
         /\ Checked(p, n).cn \in {n.cn, Sorted(n.cn)}
  <1>1. CASE Checked(p, n) = n
    BY <1>1
  <1>2. CASE Checked(p, n) = [n EXCEPT !.cn = Sorted(@)]
    <2>1. n.sn \in Seq(ServiceNets) /\ n.cn \in Seq(PodNets) /\ NoOverlap(n.sn \o n.cn)
      BY DEF Configs, validateIPPools
    <2>2. /\ Sorted(n.cn) \in Seq(PodNets) /\ Len(Sorted(n.cn)) = Len(n.cn)
          /\ Elements(Sorted(n.cn)) = Elements(n.cn)
          /\ NoOverlap(n.sn \o Sorted(n.cn))
      BY <2>1, SortedFacts
    <2>3. PICK c : c = Checked(p, n)
      OBVIOUS
    <2>4. c = [n EXCEPT !.cn = Sorted(n.cn)]
      BY <1>2, <2>3
    <2>5. c \in Configs /\ c.cn = Sorted(n.cn)
      BY <2>2, <2>4 DEF Configs
    <2>6. \A f \in OtherFields : c[f] = n[f]
      BY <2>4 DEF Configs, OtherFields
    <2>7. c.sn = n.sn /\ c.type = n.type
      BY <2>6 DEF OtherFields
    <2>8. validateIPPools(c)
      BY <2>2, <2>5, <2>7 DEF validateIPPools, Families
    <2> QED
      BY <2>2, <2>3, <2>5, <2>6, <2>8
  <1> QED
    BY <1>1, <1>2 DEF Checked

--------------------------------------------------------------------------------
(* What the checks of a change establish                                   *)

(* A configuration whose networks cover those of the primary family of     *)
(* another keeps the addresses of that one.                                *)
LEMMA Covered ==
  ASSUME NEW p, NEW c, c.sn[1] = p.sn[1],
         \A i \in DOMAIN p.cn :
           IsIPv6(p.cn[i]) = IsIPv6(p.sn[1]) =>
             \E k \in DOMAIN c.cn : /\ IsIPv6(c.cn[k]) = IsIPv6(p.cn[i])
                                   /\ Safe!Block(p.cn[i]) \subseteq Safe!Block(c.cn[k])
  PROVE  Safe!KeepsAddresses(p, c)
  <1>1. ASSUME NEW x \in Safe!PodAddresses(p) PROVE x \in Safe!PodAddresses(c)
    <2>1. PICK i \in DOMAIN p.cn : Safe!IsIPv6(p.cn[i]) = Safe!IsIPv6(p.sn[1]) /\ x \in Safe!Block(p.cn[i])
      BY <1>1 DEF Safe!PodAddresses
    <2>2. PICK k \in DOMAIN c.cn : /\ Safe!IsIPv6(c.cn[k]) = Safe!IsIPv6(p.cn[i])
                                  /\ Safe!Block(p.cn[i]) \subseteq Safe!Block(c.cn[k])
      BY <2>1 DEF IsIPv6
    <2>3. k \in {j \in DOMAIN c.cn : Safe!IsIPv6(c.cn[j]) = Safe!IsIPv6(c.sn[1])} /\ x \in Safe!Block(c.cn[k])
      BY <2>1, <2>2
    <2> QED
      BY <2>3 DEF Safe!PodAddresses
  <1> QED
    BY <1>1 DEF Safe!KeepsAddresses

(* Every configuration keeps its own addresses, and so does a chain of     *)
(* changes that keep them.                                                 *)
LEMMA KeepsReflexive ==
  ASSUME NEW c PROVE Safe!KeepsAddresses(c, c)
  BY DEF Safe!KeepsAddresses

LEMMA KeepsTransitive ==
  ASSUME NEW a, NEW b, NEW c, Safe!KeepsAddresses(a, b), Safe!KeepsAddresses(b, c)
  PROVE  Safe!KeepsAddresses(a, c)
  BY DEF Safe!KeepsAddresses

(* A list of one or two networks is not empty.                             *)
LEMMA NotEmpty ==
  ASSUME NEW S, NEW s \in Seq(S), Len(s) \in {1, 2}
  PROVE  s # <<>>
  OBVIOUS

(* A valid configuration has service and pod networks of the same          *)
(* families: one if there is one service network, both if there are two.   *)
LEMMA StackFacts ==
  ASSUME NEW c \in Configs, validateIPPools(c)
  PROVE  /\ c.cn \in Seq(PodNets) /\ DOMAIN c.cn = 1 .. Len(c.cn) /\ Len(c.cn) \in Nat \ {0}
         /\ c.sn \in Seq(ServiceNets) /\ Len(c.sn) \in {1, 2} /\ 1 \in DOMAIN c.sn /\ c.sn # <<>>
         /\ Len(c.sn) = 1 => \A i \in DOMAIN c.cn : IsIPv6(c.cn[i]) = IsIPv6(c.sn[1])
         /\ Len(c.sn) = 2 => \A b \in BOOLEAN : \E i \in DOMAIN c.cn : IsIPv6(c.cn[i]) = b
  <1>1. /\ c.cn \in Seq(PodNets) /\ DOMAIN c.cn = 1 .. Len(c.cn) /\ Len(c.cn) \in Nat \ {0}
        /\ c.sn \in Seq(ServiceNets) /\ Len(c.sn) \in {1, 2} /\ 1 \in DOMAIN c.sn /\ c.sn # <<>>
    <2>1. c.cn \in Seq(PodNets) /\ c.sn \in Seq(ServiceNets)
      BY DEF Configs
    <2>2. Len(c.sn) \in {1, 2} /\ Len(c.cn) >= 1
      BY DEF validateIPPools
    <2>3. DOMAIN c.cn = 1 .. Len(c.cn) /\ Len(c.cn) \in Nat /\ DOMAIN c.sn = 1 .. Len(c.sn)
      BY <2>1
    <2>4. c.sn # <<>>
      BY <2>1, <2>2, NotEmpty, Zenon
    <2> QED
      BY <2>1, <2>2, <2>3, <2>4
  <1>2. Families(c.cn) = Families(c.sn) /\ (Len(c.sn) = 2 => Families(c.sn) = BOOLEAN)
    BY DEF validateIPPools
  <1>3. ASSUME Len(c.sn) = 1, NEW i \in DOMAIN c.cn PROVE IsIPv6(c.cn[i]) = IsIPv6(c.sn[1])
    <2>1. IsIPv6(c.cn[i]) \in Families(c.sn)
      BY <1>2, <1>3 DEF Families, Elements
    <2>2. DOMAIN c.sn = {1}
      BY <1>1, <1>3
    <2> QED
      BY <2>1, <2>2 DEF Families, Elements
  <1>4. ASSUME Len(c.sn) = 2, NEW b \in BOOLEAN PROVE \E i \in DOMAIN c.cn : IsIPv6(c.cn[i]) = b
    <2>1. b \in Families(c.cn)
      BY <1>2, <1>4
    <2> QED
      BY <2>1 DEF Families, Elements
  <1> QED
    BY <1>1, <1>3, <1>4

(* A second family is added: the pod networks of the first stay.           *)
LEMMA ToDualKeeps ==
  ASSUME NEW p \in Configs, NEW n \in Configs, validateIPPools(p), validateIPPools(n),
         Len(p.sn) < Len(n.sn), isStackChangeSafe(p, n)
  PROVE  Safe!KeepsAddresses(p, n)
  <1>1. /\ Len(p.cn) \in Nat \ {0} /\ Len(n.cn) \in Nat \ {0}
        /\ DOMAIN p.cn = 1 .. Len(p.cn) /\ DOMAIN n.cn = 1 .. Len(n.cn)
        /\ Len(p.sn) = 1 /\ Len(n.sn) = 2
    BY StackFacts
  <1>2. p.sn[1] = n.sn[1] /\ \A i \in DOMAIN n.cn : i <= Len(p.cn) => p.cn[i] = n.cn[i]
    BY DEF isStackChangeSafe
  <1>3. PICK i \in DOMAIN n.cn : IsIPv6(n.cn[i]) # IsIPv6(p.sn[1])
    <2>1. \E i \in DOMAIN n.cn : IsIPv6(n.cn[i]) = TRUE
      BY <1>1, StackFacts
    <2>2. \E i \in DOMAIN n.cn : IsIPv6(n.cn[i]) = FALSE
      BY <1>1, StackFacts
    <2> QED
      BY <2>1, <2>2
  <1>4. i > Len(p.cn)
    <2>1. CASE i <= Len(p.cn)
      <3>1. i \in DOMAIN p.cn /\ p.cn[i] = n.cn[i]
        BY <1>1, <1>2, <2>1
      <3>2. IsIPv6(p.cn[i]) = IsIPv6(p.sn[1])
        BY <1>1, <3>1, StackFacts
      <3> QED
        BY <1>3, <3>1, <3>2
    <2> QED
      BY <1>1, <2>1
  <1>5. \A k \in DOMAIN p.cn : k \in DOMAIN n.cn /\ p.cn[k] = n.cn[k]
    BY <1>1, <1>2, <1>4
  <1> QED
    BY <1>2, <1>5, Covered

(* One of two families is dropped: it is not the primary one.              *)
LEMMA ToSingleKeeps ==
  ASSUME NEW p \in Configs, NEW n \in Configs, validateIPPools(p), validateIPPools(n),
         Len(p.sn) > Len(n.sn), isStackChangeSafe(n, p)
  PROVE  Safe!KeepsAddresses(p, n)
  <1>1. /\ Len(p.cn) \in Nat \ {0} /\ Len(n.cn) \in Nat \ {0}
        /\ DOMAIN p.cn = 1 .. Len(p.cn) /\ DOMAIN n.cn = 1 .. Len(n.cn)
        /\ Len(p.sn) = 2 /\ Len(n.sn) = 1
    BY StackFacts
  <1>2. /\ p.sn[1] = n.sn[1]
        /\ \A i \in DOMAIN p.cn : IF i <= Len(n.cn) THEN n.cn[i] = p.cn[i]
                                  ELSE IsIPv6(p.cn[i]) # IsIPv6(n.cn[1])
    BY DEF isStackChangeSafe
  <1>3. IsIPv6(n.cn[1]) = IsIPv6(p.sn[1])
    BY <1>1, <1>2, StackFacts
  <1>4. \A i \in DOMAIN p.cn : IsIPv6(p.cn[i]) = IsIPv6(p.sn[1]) =>
          i \in DOMAIN n.cn /\ n.cn[i] = p.cn[i]
    BY <1>1, <1>2, <1>3
  <1> QED
    BY <1>2, <1>4, Covered

(* Pod networks are enlarged: each is compared with the one in its place   *)
(* after both lists have been sorted, and covers it.                       *)
LEMMA EnlargedKeeps ==
  ASSUME NEW p \in Configs, NEW n \in Configs, NEW c \in Configs,
         validateIPPools(p), validateIPPools(n),
         p.sn = n.sn, isClusterNetworkChangeSafe(p, n),
         c.sn = n.sn, c.cn = Sorted(n.cn)
  PROVE  Safe!KeepsAddresses(p, c)
  <1> DEFINE a == Sorted(p.cn)
             b == Sorted(n.cn)
  <1>1. /\ p.sn \in Seq(ServiceNets) /\ p.cn \in Seq(PodNets) /\ NoOverlap(p.sn \o p.cn)
        /\ n.sn \in Seq(ServiceNets) /\ n.cn \in Seq(PodNets) /\ NoOverlap(n.sn \o n.cn)
    BY DEF Configs, validateIPPools
  <1>2. /\ a \in Seq(PodNets) /\ Len(a) = Len(p.cn) /\ Elements(a) = Elements(p.cn)
        /\ b \in Seq(PodNets) /\ Len(b) = Len(n.cn)
    BY <1>1, SortedFacts
  <1>3. /\ Len(p.cn) = Len(n.cn)
        /\ \A i \in DOMAIN p.cn : a[i].net = b[i].net /\ a[i].size <= b[i].size
    BY DEF isClusterNetworkChangeSafe
  <1> HIDE DEF a, b
  <1>4. DOMAIN a = DOMAIN p.cn /\ DOMAIN b = DOMAIN p.cn
    <2>1. DOMAIN a = 1 .. Len(a) /\ DOMAIN b = 1 .. Len(b) /\ DOMAIN p.cn = 1 .. Len(p.cn)
      BY <1>1, <1>2
    <2> QED
      BY <1>2, <1>3, <2>1
  <1>5. ASSUME NEW i \in DOMAIN p.cn
        PROVE  \E k \in DOMAIN c.cn : /\ IsIPv6(c.cn[k]) = IsIPv6(p.cn[i])
                                     /\ Safe!Block(p.cn[i]) \subseteq Safe!Block(c.cn[k])
    <2>1. p.cn[i] \in Elements(a)
      BY <1>2 DEF Elements
    <2>2. PICK k \in DOMAIN a : a[k] = p.cn[i]
      BY <2>1 DEF Elements
    <2>3. a[k] \in PodNets /\ b[k] \in PodNets
      BY <1>2, <1>4
    <2>4. a[k] \in Nets /\ b[k] \in Nets
      BY <2>3 DEF Nets, PodNets
    <2>5. a[k].net = b[k].net /\ a[k].size <= b[k].size
      BY <1>3, <1>4
    <2>6. Safe!Block(a[k]) \subseteq Safe!Block(b[k])
      BY <2>4, <2>5, BlockGrows
    <2>7. IsIPv6(b[k]) = IsIPv6(a[k])
      BY <2>5 DEF IsIPv6, Safe!IsIPv6
    <2>8. c.cn = b /\ k \in DOMAIN c.cn
      BY <1>4 DEF b
    <2> QED
      BY <2>2, <2>6, <2>7, <2>8
  <1> QED
    BY <1>5, Covered

(* Whatever kind of change is accepted, the configuration that is recorded *)
(* keeps the addresses, unless a migration of the MTU is recorded.         *)
LEMMA NetworkChangeKeeps ==
  ASSUME NEW p \in Configs, NEW n \in Configs, validateIPPools(p), validateIPPools(n),
         p # NoConfig, p # n, isNetworkChangeSafe(p, n)
  PROVE  /\ Checked(p, n).sn[1] = p.sn[1]
         /\ p.mig.on \/ Safe!KeepsAddresses(p, Checked(p, n))
  <1>1. CASE p.mig.on
    <2>1. p.sn = n.sn /\ Checked(p, n) = n
      BY <1>1 DEF isNetworkChangeSafe, Checked
    <2> QED
      BY <1>1, <2>1
  <1>2. CASE ~p.mig.on /\ p.cn = n.cn /\ p.sn = n.sn
    <2>1. Checked(p, n) = n
      BY <1>2 DEF Checked
    <2> QED
      BY <1>2, <2>1 DEF Safe!KeepsAddresses, Safe!PodAddresses
  <1>3. CASE ~p.mig.on /\ ~(p.cn = n.cn /\ p.sn = n.sn) /\ Len(p.sn) < Len(n.sn)
    <2>1. isStackChangeSafe(p, n) /\ Checked(p, n) = n
      BY <1>3, StackFacts DEF isNetworkChangeSafe, Checked
    <2> QED
      BY <1>3, <2>1, ToDualKeeps DEF Safe!KeepsAddresses
  <1>4. CASE ~p.mig.on /\ ~(p.cn = n.cn /\ p.sn = n.sn) /\ Len(p.sn) > Len(n.sn)
    <2>1. isStackChangeSafe(n, p) /\ Checked(p, n) = n
      BY <1>4, StackFacts DEF isNetworkChangeSafe, Checked
    <2> QED
      BY <1>4, <2>1, ToSingleKeeps DEF Safe!KeepsAddresses
  <1>5. CASE ~p.mig.on /\ ~(p.cn = n.cn /\ p.sn = n.sn) /\ Len(p.sn) = Len(n.sn)
    <2>1. p.sn = n.sn /\ isClusterNetworkChangeSafe(p, n)
      BY <1>5, StackFacts DEF isNetworkChangeSafe
    <2>2. Checked(p, n) = [n EXCEPT !.cn = Sorted(@)]
      BY <1>5, <2>1 DEF Checked, isClusterNetworkChangeSafe
    <2>3. Checked(p, n) \in Configs /\ Checked(p, n).sn = n.sn
      BY CheckedFacts DEF OtherFields
    <2>4. Checked(p, n).cn = Sorted(n.cn)
      BY <2>2 DEF Configs
    <2>5. Safe!KeepsAddresses(p, Checked(p, n))
      BY <2>1, <2>3, <2>4, EnlargedKeeps
    <2> QED
      BY <2>1, <2>3, <2>5
  <1>6. Len(p.sn) \in Nat /\ Len(n.sn) \in Nat
    BY StackFacts
  <1> QED
    BY <1>1, <1>2, <1>3, <1>4, <1>5, <1>6

--------------------------------------------------------------------------------
(* Defaults                                                                *)

(* A configuration that may be recorded: valid but for the range of its    *)
(* MTU, with all defaults filled in.                                       *)
Explicit(c) ==
  /\ c \in Configs /\ Validate([c EXCEPT !.mtu = 0])
  /\ c.multi # "unset" /\ ~needsMTU(c) /\ (usesKubeProxy(c) => c.proxy # "")

(* The target of a migration is set.                                       *)
HasTarget(c) == c.mig.on => c.mig.to # 0

LEMMA NoConfigType == NoConfig \in Configs /\ HasTarget(NoConfig) /\ NoConfig.multi = "unset"
  BY DEF NoConfig, Safe!NoConfig, Safe!NoMigration, Configs, HasTarget, NetworkTypes

(* The MTU is of no concern to the rest of the validation.                 *)
LEMMA ValidButMTU ==
  ASSUME NEW c \in Configs
  PROVE  Validate([c EXCEPT !.mtu = 0]) <=>
           /\ validateIPPools(c) /\ validateMultus(c) /\ validateKubeProxy(c)
           /\ c.type = OVNKubernetes => Families(c.cn) = Families(c.sn) /\ Families(c.cn) # {}
  <1> DEFINE d == [c EXCEPT !.mtu = 0]
  <1>1. /\ d.sn = c.sn /\ d.cn = c.cn /\ d.type = c.type /\ d.multi = c.multi /\ d.extra = c.extra
        /\ d.proxy = c.proxy /\ d.mtu = 0
    BY DEF Configs
  <1> HIDE DEF d
  <1>2. validateIPPools(d) <=> validateIPPools(c)
    BY <1>1 DEF validateIPPools
  <1>3. (validateMultus(d) <=> validateMultus(c)) /\ (validateKubeProxy(d) <=> validateKubeProxy(c))
    BY <1>1 DEF validateMultus, validateKubeProxy, usesKubeProxy
  <1>4. validateOVNKubernetes(d) <=> Families(c.cn) = Families(c.sn) /\ Families(c.cn) # {}
    BY <1>1 DEF validateOVNKubernetes
  <1>5. Validate(d) <=>
           /\ validateIPPools(c) /\ validateMultus(c) /\ validateKubeProxy(c)
           /\ c.type = OVNKubernetes => Families(c.cn) = Families(c.sn) /\ Families(c.cn) # {}
    BY <1>1, <1>2, <1>3, <1>4 DEF Validate
  <1> QED
    BY <1>5 DEF d

LEMMA ExplicitFacts ==
  ASSUME NEW c, Explicit(c)
  PROVE  /\ c \in Configs /\ c # NoConfig /\ validateIPPools(c)
         /\ c.type = OVNKubernetes => c.mtu # 0
  BY ValidButMTU, NoConfigType DEF Explicit, needsMTU

(* Nothing is left to fill in.                                             *)
LEMMA DefaultsIdempotent ==
  ASSUME NEW c, Explicit(c), NEW host
  PROVE  FillDefaults(c, c, host) = c
  <1>1. c \in Configs /\ c.multi # "unset" /\ fillOVNKubernetesDefaults(c, c, host) = c.mtu
        /\ fillKubeProxyDefaults(c) = c.proxy
    BY ExplicitFacts DEF Explicit, fillOVNKubernetesDefaults, fillKubeProxyDefaults
  <1>2. FillDefaults(c, c, host) = [c EXCEPT !.multi = c.multi, !.mtu = c.mtu, !.proxy = c.proxy]
    BY <1>1 DEF FillDefaults
  <1> QED
    BY <1>1, <1>2 DEF Configs

(* What the fields are after the defaults have been filled in.             *)
LEMMA FilledFields ==
  ASSUME NEW c \in Configs, NEW p, NEW host
  PROVE  /\ \A f \in {"sn", "cn", "type", "mig", "noOverlay", "extra", "state"} :
              FillDefaults(c, p, host)[f] = c[f]
         /\ FillDefaults(c, p, host).multi = IF c.multi = "unset" THEN "enabled" ELSE c.multi
         /\ FillDefaults(c, p, host).mtu = fillOVNKubernetesDefaults(c, p, host)
         /\ FillDefaults(c, p, host).proxy = fillKubeProxyDefaults(c)
  BY DEF FillDefaults, Configs

(* The MTU is known whenever a default is needed for a change that is      *)
(* accepted: it is the recorded one, or the host's was asked for.          *)
LEMMA FilledExplicit ==
  ASSUME NEW c \in Configs, Validate(c), NEW p, p = NoConfig \/ Explicit(p),
         NEW host \in HostMTUs \cup {0}, host = 0 => ~NeedMTUProbe(p, c),
         IsChangeSafe(p, FillDefaults(c, p, host))
  PROVE  Explicit(FillDefaults(c, p, host))
  <1> DEFINE n == FillDefaults(c, p, host)
  <1>1. /\ n.sn = c.sn /\ n.cn = c.cn /\ n.type = c.type /\ n.mig = c.mig /\ n.extra = c.extra
        /\ n.noOverlay = c.noOverlay /\ n.state = c.state
        /\ n.multi = IF c.multi = "unset" THEN "enabled" ELSE c.multi
        /\ n.mtu = fillOVNKubernetesDefaults(c, p, host) /\ n.proxy = fillKubeProxyDefaults(c)
    BY FilledFields
  <1>2. n.mtu \in Nat /\ (n.type = OVNKubernetes => n.mtu # 0)
    <2>1. CASE c.type # OVNKubernetes \/ c.mtu # 0
      BY <1>1, <2>1 DEF fillOVNKubernetesDefaults, Configs
    <2>2. CASE c.type = OVNKubernetes /\ c.mtu = 0 /\ p.mtu # 0
      <3>1. p \in Configs
        BY NoConfigType DEF Explicit
      <3> QED
        BY <1>1, <2>2, <3>1 DEF fillOVNKubernetesDefaults, Configs
    <2>3. CASE c.type = OVNKubernetes /\ c.mtu = 0 /\ p.mtu = 0 /\ p = NoConfig
      <3>1. host \in HostMTUs
        BY <2>3 DEF NeedMTUProbe, needsMTU
      <3>2. host \in Nat /\ Overhead \in Nat /\ host > Overhead
        BY <3>1, OperConfigAssumption
      <3>3. n.mtu = host \/ n.mtu = host - Overhead
        BY <1>1, <2>3 DEF fillOVNKubernetesDefaults
      <3> HIDE DEF n
      <3> QED
        BY <3>2, <3>3
    <2>4. CASE c.type = OVNKubernetes /\ c.mtu = 0 /\ p.mtu = 0 /\ Explicit(p)
      <3>1. p # NoConfig /\ p.type # OVNKubernetes
        BY <2>4, ExplicitFacts
      <3>2. p.type = n.type
        BY <3>1 DEF IsChangeSafe, isDefaultNetworkChangeSafe
      <3> QED
        BY <1>1, <2>4, <3>1, <3>2
    <2> QED
      BY <2>1, <2>2, <2>3, <2>4
  <1>3. n.multi \in {"enabled", "disabled"}
    BY <1>1 DEF Configs
  <1>4. /\ n.proxy \in {"", "0.0.0.0", "::", "custom", "invalid"}
        /\ usesKubeProxy(n) => n.proxy # ""
    BY <1>1 DEF fillKubeProxyDefaults, usesKubeProxy, Configs
  <1>5. n \in Configs
    <2>1. n = [c EXCEPT !.multi = n.multi, !.mtu = n.mtu, !.proxy = n.proxy]
      BY <1>1 DEF FillDefaults
    <2> HIDE DEF n
    <2> QED
      BY <1>2, <1>3, <1>4, <2>1 DEF Configs
  <1> HIDE DEF n
  <1>6. validateIPPools(n)
    BY <1>1 DEF Validate, validateIPPools
  <1>7. validateMultus(n)
    BY <1>1 DEF Validate, validateMultus
  <1>8. validateKubeProxy(n)
    BY <1>1 DEF Validate, validateKubeProxy, usesKubeProxy, fillKubeProxyDefaults
  <1>9. n.type = OVNKubernetes => Families(n.cn) = Families(n.sn) /\ Families(n.cn) # {}
    BY <1>1 DEF Validate, validateOVNKubernetes
  <1>10. Validate([n EXCEPT !.mtu = 0])
    BY <1>5, <1>6, <1>7, <1>8, <1>9, ValidButMTU
  <1>11. ~needsMTU(n)
    BY <1>2, <1>3, NoConfigType DEF needsMTU
  <1>12. Explicit(n)
    BY <1>3, <1>4, <1>5, <1>10, <1>11 DEF Explicit
  <1> QED
    BY <1>12 DEF n

(* Sorting its pod networks leaves a configuration explicit.               *)
LEMMA CheckedExplicit ==
  ASSUME NEW p, NEW n, Explicit(n)
  PROVE  Explicit(Checked(p, n)) /\ (HasTarget(n) => HasTarget(Checked(p, n)))
  <1>1. n \in Configs /\ n # NoConfig /\ validateIPPools(n)
    BY ExplicitFacts
  <1> DEFINE c == Checked(p, n)
  <1>2. /\ c \in Configs /\ validateIPPools(c) /\ \A f \in OtherFields : c[f] = n[f]
        /\ Elements(c.cn) = Elements(n.cn)
    BY <1>1, CheckedFacts
  <1> HIDE DEF c
  <1>3. /\ c.sn = n.sn /\ c.type = n.type /\ c.mtu = n.mtu /\ c.mig = n.mig /\ c.multi = n.multi
        /\ c.extra = n.extra /\ c.proxy = n.proxy
    BY <1>2 DEF OtherFields
  <1>4. validateMultus(n) /\ validateKubeProxy(n)
        /\ (n.type = OVNKubernetes => Families(n.cn) = Families(n.sn) /\ Families(n.cn) # {})
    BY <1>1, ValidButMTU DEF Explicit
  <1>5. validateMultus(c) /\ validateKubeProxy(c)
    BY <1>3, <1>4 DEF validateMultus, validateKubeProxy, usesKubeProxy
  <1>6. c.type = OVNKubernetes => Families(c.cn) = Families(c.sn) /\ Families(c.cn) # {}
    BY <1>2, <1>3, <1>4 DEF Families
  <1>7. Validate([c EXCEPT !.mtu = 0])
    BY <1>2, <1>5, <1>6, ValidButMTU
  <1>8. ~needsMTU(c) /\ c.multi # "unset" /\ (usesKubeProxy(c) => c.proxy # "")
    BY <1>3, NoConfigType DEF Explicit, needsMTU, usesKubeProxy
  <1>9. Explicit(c) /\ (HasTarget(n) => HasTarget(c))
    BY <1>2, <1>3, <1>7, <1>8 DEF Explicit, HasTarget
  <1> QED
    BY <1>9 DEF c

(* What the check of a change establishes of the configuration that is     *)
(* going to be recorded.  A migration starts from the MTU in use, or is    *)
(* the one that is recorded.                                               *)
MTUAccepted(p, c) ==
  IF c.mig.on THEN c.mig.from = p.mtu \/ (p.mig.on /\ c.mig.from = p.mig.from)
  ELSE c.mtu = p.mtu

Accepted(p, c) ==
  p # NoConfig =>
    /\ c.type = p.type /\ c.multi = p.multi /\ c.sn[1] = p.sn[1]
    /\ p.mig.on \/ Safe!KeepsAddresses(p, c)
    /\ p.type = OVNKubernetes => MTUAccepted(p, c)

LEMMA ChangeAccepted ==
  ASSUME NEW p, p = NoConfig \/ Explicit(p), NEW n, Explicit(n), IsChangeSafe(p, n)
  PROVE  Accepted(p, Checked(p, n))
  <1>1. CASE p = NoConfig
    BY <1>1 DEF Accepted
  <1>2. CASE p = n
    <2>1. Checked(p, n) = n
      BY <1>2 DEF Checked
    <2> QED
      BY <1>2, <2>1, KeepsReflexive DEF Accepted, MTUAccepted
  <1>3. CASE p # NoConfig /\ p # n
    <2>1. isNetworkChangeSafe(p, n) /\ isDefaultNetworkChangeSafe(p, n) /\ p.multi = n.multi
      BY <1>3 DEF IsChangeSafe
    <2>2. p \in Configs /\ validateIPPools(p) /\ n \in Configs /\ validateIPPools(n)
      BY <1>3, ExplicitFacts
    <2> DEFINE c == Checked(p, n)
    <2>3. c.sn[1] = p.sn[1] /\ (p.mig.on \/ Safe!KeepsAddresses(p, c))
      BY <1>3, <2>1, <2>2, NetworkChangeKeeps
    <2>4. c.type = n.type /\ c.mtu = n.mtu /\ c.mig = n.mig /\ c.multi = n.multi
      BY <2>2, CheckedFacts DEF OtherFields
    <2> HIDE DEF c
    <2>5. c.type = p.type /\ c.multi = p.multi /\ (p.type = OVNKubernetes => MTUAccepted(p, c))
      BY <2>1, <2>4 DEF isDefaultNetworkChangeSafe, isOVNKubernetesChangeSafe, MTUAccepted
    <2>6. Accepted(p, c)
      BY <2>3, <2>5 DEF Accepted
    <2> QED
      BY <2>6 DEF c
  <1> QED
    BY <1>1, <1>2, <1>3

(* Rendering a migration moves the MTU to the target and changes nothing   *)
(* else: what is recorded is a safe change.                                *)
LEMMA RenderedSafe ==
  ASSUME NEW p, NEW n, Explicit(n), HasTarget(n), Accepted(p, n)
  PROVE  /\ Explicit([n EXCEPT !.mtu = RenderedMTU(n)])
         /\ Safe!SafeChange(p, [n EXCEPT !.mtu = RenderedMTU(n)])
         /\ p # NoConfig /\ ~p.mig.on => Safe!KeepsAddresses(p, [n EXCEPT !.mtu = RenderedMTU(n)])
  <1> DEFINE c == [n EXCEPT !.mtu = RenderedMTU(n)]
  <1>1. n \in Configs /\ validateIPPools(n) /\ (n.type = OVNKubernetes => n.mtu # 0)
    BY ExplicitFacts
  <1>2. RenderedMTU(n) \in Nat /\ (n.type = OVNKubernetes => RenderedMTU(n) # 0)
    BY <1>1 DEF RenderedMTU, HasTarget, Configs
  <1>3. c \in Configs /\ c.mtu = RenderedMTU(n) /\ \A f \in {"sn", "cn", "type", "mig", "multi", "proxy"} : c[f] = n[f]
    BY <1>1, <1>2 DEF Configs
  <1>4. [c EXCEPT !.mtu = 0] = [n EXCEPT !.mtu = 0]
    BY <1>1 DEF Configs
  <1> HIDE DEF c
  <1>5. c.sn = n.sn /\ c.cn = n.cn /\ c.type = n.type /\ c.mig = n.mig /\ c.multi = n.multi /\ c.proxy = n.proxy
    BY <1>3
  <1>6. Explicit(c)
    BY <1>2, <1>3, <1>4, <1>5, NoConfigType DEF Explicit, needsMTU, usesKubeProxy
  <1>7. p # NoConfig => (p.mig.on \/ Safe!KeepsAddresses(p, c))
    BY <1>5 DEF Accepted, Safe!KeepsAddresses, Safe!PodAddresses
  <1>8. p # NoConfig /\ p.type = OVNKubernetes => Safe!KeepsMTU(p, c)
    BY <1>3, <1>5 DEF Accepted, MTUAccepted, RenderedMTU, Safe!KeepsMTU
  <1>9. Safe!SafeChange(p, c)
    BY <1>5, <1>7, <1>8 DEF Accepted, Safe!SafeChange, NoConfig, OVNKubernetes
  <1> QED
    BY <1>6, <1>7, <1>9 DEF c

--------------------------------------------------------------------------------
(* The inductive invariant                                                 *)

RecordOK(c) == c = NoConfig \/ Explicit(c)

ApiType ==
  /\ clusterConfig \in ClusterConfigs /\ operConfig \in Configs /\ HasTarget(operConfig)
  /\ RecordOK(applied) /\ RecordOK(deployed) /\ broken \in BOOLEAN

RunType ==
  /\ run \in [pc : {"idle", "merge", "validate", "probe", "wait", "check", "update",
                    "render", "record", "operands", "status"},
              fresh : BOOLEAN, oper : Configs, prev : Configs, next : Configs,
              mtu : HostMTUs \cup {0}, failed : BOOLEAN]
  /\ HasTarget(run.oper)

ScalarType ==
  /\ prober \in BOOLEAN /\ cleanedUp \in BOOLEAN /\ queued \in BOOLEAN /\ clusterQueued \in BOOLEAN
  /\ mtuMap \in HostMTUs \cup {0}
  /\ report \in {"none", "ok", "failing", "NoOperatorConfig", "InvalidOperatorConfig"}
  /\ clusterReport \in {"none", "ok", "failing", "InvalidClusterConfig"}
  /\ edits \in 0 .. MaxEdits /\ faults \in 0 .. MaxFaults

(* The steps between the reading of the record and its replacement.        *)
Deciding == run.pc \in {"probe", "wait", "check", "update", "render", "record"}

(* A chain of accepted changes leads from what the operands run to `c`.    *)
Followed(c) == broken \/ deployed = NoConfig \/ c = NoConfig \/ Safe!KeepsAddresses(deployed, c)

(* The record is replaced by this reconciliation only, and otherwise only  *)
(* deleted: what was read is not stale when the decision made from it is   *)
(* carried out.                                                            *)
RecordNotStale ==
  /\ Deciding => RecordOK(run.prev) /\ applied \in {run.prev, NoConfig}
  /\ run.failed => run.pc = "operands"
  /\ run.pc \in {"probe", "wait", "check"} => Validate(run.oper)
  /\ run.pc = "check" /\ run.mtu = 0 => ~NeedMTUProbe(run.prev, run.oper)

(* What is going to be recorded, and then run, is a safe change.           *)
DecisionSafe ==
  /\ run.pc \in {"update", "render"} =>
       Explicit(run.next) /\ HasTarget(run.next) /\ Accepted(run.prev, run.next)
  /\ run.pc = "record" =>
       /\ Explicit(run.next) /\ Safe!SafeChange(run.prev, run.next)
       /\ run.prev # NoConfig /\ ~run.prev.mig.on => Safe!KeepsAddresses(run.prev, run.next)
  /\ run.pc = "operands" =>
       /\ Explicit(run.next) /\ Safe!SafeChange(applied, run.next)
       /\ ~run.failed => applied \in {run.next, NoConfig}

ChainKept ==
  /\ Followed(applied)
  /\ Deciding => Followed(run.prev)
  /\ run.pc = "operands" => Followed(run.next)

RunInv == RecordNotStale /\ DecisionSafe /\ ChainKept

OcInv == ApiType /\ RunType /\ ScalarType /\ RunInv

LEMMA IdleType ==
  /\ Idle.pc = "idle" /\ HasTarget(Idle.oper) /\ Idle.failed = FALSE
  /\ Idle \in [pc : {"idle", "merge", "validate", "probe", "wait", "check", "update",
                     "render", "record", "operands", "status"},
               fresh : BOOLEAN, oper : Configs, prev : Configs, next : Configs,
               mtu : HostMTUs \cup {0}, failed : BOOLEAN]
  BY NoConfigType DEF Idle

LEMMA OcInitInv == OcInit => OcInv
  <1> SUFFICES ASSUME OcInit PROVE OcInv
    OBVIOUS
  <1>1. ApiType
    BY NoConfigType, OperConfigAssumption DEF OcInit, ApiType, RecordOK
  <1>2. RunType
    BY IdleType DEF OcInit, RunType
  <1>3. ScalarType
    <2>1. MaxEdits \in Nat /\ MaxFaults \in Nat
      BY OperConfigAssumption
    <2>2. edits \in 0 .. MaxEdits /\ faults \in 0 .. MaxFaults
      BY <2>1 DEF OcInit
    <2>3. prober \in BOOLEAN /\ cleanedUp \in BOOLEAN /\ queued \in BOOLEAN /\ clusterQueued \in BOOLEAN
      BY DEF OcInit
    <2> QED
      BY <2>2, <2>3 DEF OcInit, ScalarType
  <1>4. RunInv
    BY IdleType DEF OcInit, RunInv, RecordNotStale, DecisionSafe, ChainKept, Deciding, Followed
  <1> QED
    BY <1>1, <1>2, <1>3, <1>4 DEF OcInv

(* The invariant contains the type invariant.                              *)
LEMMA InvType == OcInv => OcTypeOK
  <1> SUFFICES ASSUME OcInv PROVE OcTypeOK
    OBVIOUS
  <1>1. \A c \in {applied, deployed} : c \in Configs
    BY NoConfigType DEF OcInv, ApiType, RecordOK, Explicit
  <1>2. \A c \in {applied, deployed} \ {NoConfig} :
          Validate([c EXCEPT !.mtu = 0]) /\ c.multi # "unset" /\ ~needsMTU(c)
    <2>1. \A c \in {applied, deployed} \ {NoConfig} : Explicit(c)
      BY DEF OcInv, ApiType, RecordOK
    <2> QED
      BY <2>1 DEF Explicit
  <1>3. /\ run.oper \in Configs /\ run.prev \in Configs /\ run.next \in Configs
        /\ run.pc \in {"idle", "merge", "validate", "probe", "wait", "check", "update",
                       "render", "record", "operands", "status"}
        /\ run.fresh \in BOOLEAN /\ run.failed \in BOOLEAN /\ run.mtu \in HostMTUs \cup {0}
    BY DEF OcInv, RunType
  <1>4. {broken, prober, cleanedUp, queued, clusterQueued, run.fresh, run.failed} \subseteq BOOLEAN
    BY <1>3, Zenon DEF OcInv, ApiType, ScalarType
  <1> QED
    BY <1>1, <1>2, <1>3, <1>4 DEF OcInv, ApiType, ScalarType, OcTypeOK

(* A reconciliation that ends leaves nothing to keep but the record.       *)
LEMMA RunEnds ==
  ASSUME OcInv, UNCHANGED <<applied, deployed, broken>>, run' = Idle
  PROVE  RunType' /\ RunInv'
  <1>1. RunType'
    BY IdleType DEF RunType
  <1>2. RunInv'
    BY IdleType DEF OcInv, RunInv, RecordNotStale, DecisionSafe, ChainKept, Deciding, Followed
  <1> QED
    BY <1>1, <1>2

(* Nor does the resource version of the copy matter.                       *)
LEMMA RunKept ==
  ASSUME OcInv, UNCHANGED <<applied, deployed, broken>>, NEW b \in BOOLEAN, run' = [run EXCEPT !.fresh = b]
  PROVE  RunType' /\ RunInv'
  <1>1. \A f \in {"pc", "oper", "prev", "next", "mtu", "failed"} : run'[f] = run[f]
    BY DEF OcInv, RunType
  <1>2. run'.pc = run.pc /\ run'.oper = run.oper /\ run'.prev = run.prev /\ run'.next = run.next
        /\ run'.mtu = run.mtu /\ run'.failed = run.failed
    BY <1>1
  <1>3. RunType'
    BY <1>2 DEF OcInv, RunType
  <1>4. RecordNotStale' /\ DecisionSafe'
    BY <1>2 DEF OcInv, RunInv, RecordNotStale, DecisionSafe, Deciding
  <1>5. ChainKept'
    BY <1>2 DEF OcInv, RunInv, ChainKept, Deciding, Followed
  <1> QED
    BY <1>3, <1>4, <1>5 DEF RunInv

LEMMA RunUnchanged ==
  ASSUME OcInv, UNCHANGED <<applied, deployed, broken, run>>
  PROVE  RunType' /\ RunInv'
  <1>1. RunType'
    BY DEF OcInv, RunType
  <1>2. RecordNotStale' /\ DecisionSafe'
    BY DEF OcInv, RunInv, RecordNotStale, DecisionSafe, Deciding
  <1>3. ChainKept'
    BY DEF OcInv, RunInv, ChainKept, Deciding, Followed
  <1> QED
    BY <1>1, <1>2, <1>3 DEF RunInv

--------------------------------------------------------------------------------
(* The requests, the reports and the counters                              *)

LEMMA CounterStep ==
  ASSUME ScalarType
  PROVE  /\ Fault => faults' \in 0 .. MaxFaults
         /\ Edit => edits' \in 0 .. MaxEdits /\ faults' = faults /\ UNCHANGED <<report, clusterReport>>
  <1>1. MaxEdits \in Nat /\ MaxFaults \in Nat
    BY OperConfigAssumption
  <1> QED
    BY <1>1 DEF ScalarType, Fault, Edit

LEMMA ScalarStep ==
  ASSUME OcInv, OcNext PROVE ScalarType'
  <1>0. ScalarType
    BY DEF OcInv
  <1> USE DEF ScalarType
  <1>1. CASE Start \/ Merge \/ ValidateConfig \/ CheckConfig \/ UpdateOperConfig \/ Render
    <2>1. UNCHANGED <<mtuMap, prober, cleanedUp, clusterQueued, clusterReport, edits, faults>>
      BY <1>1 DEF Start, Merge, ValidateConfig, CheckConfig, UpdateOperConfig, Render, probing, clusterSide
    <2>2. queued' \in BOOLEAN /\ report' \in {report, "NoOperatorConfig", "InvalidOperatorConfig", "failing"}
      BY <1>0, <1>1 DEF Start, Merge, ValidateConfig, CheckConfig, UpdateOperConfig, Render, ReturnError
    <2> QED
      BY <1>0, <2>1, <2>2
  <1>2. CASE ApplyRecord \/ ApplyOperands \/ ClusterNetworkStatus
    <2>1. UNCHANGED <<mtuMap, prober, cleanedUp, clusterQueued, clusterReport, edits, faults>>
      BY <1>2 DEF ApplyRecord, ApplyOperands, ClusterNetworkStatus, probing, clusterSide
    <2>2. queued' \in BOOLEAN /\ report' \in {report, "ok", "failing"}
      BY <1>0, <1>2 DEF ApplyRecord, ApplyOperands, ClusterNetworkStatus, ReturnError
    <2> QED
      BY <1>0, <2>1, <2>2
  <1>3. CASE ProbeMTU \/ ProbeDone
    <2>1. UNCHANGED <<mtuMap, queued, report, clusterQueued, clusterReport, edits, faults>>
      BY <1>3 DEF ProbeMTU, ProbeDone, clusterSide
    <2>2. prober' \in BOOLEAN /\ cleanedUp' \in BOOLEAN
      BY <1>0, <1>3 DEF ProbeMTU, ProbeDone, deleteMTUProber
    <2> QED
      BY <1>0, <2>1, <2>2
  <1>4. CASE ProbeTimeout
    <2>1. faults' \in 0 .. MaxFaults /\ UNCHANGED <<mtuMap, clusterQueued, clusterReport, edits>>
      BY <1>0, <1>4, CounterStep DEF ProbeTimeout, clusterSide
    <2>2. prober' \in BOOLEAN /\ cleanedUp' \in BOOLEAN /\ queued' \in BOOLEAN /\ report' = "failing"
      BY <1>0, <1>4 DEF ProbeTimeout, deleteMTUProber, ReturnError
    <2> QED
      BY <1>0, <2>1, <2>2
  <1>5. CASE ApplyRecordFails \/ ApplyOperandsFails
    <2>1. /\ faults' \in 0 .. MaxFaults
          /\ UNCHANGED <<mtuMap, prober, cleanedUp, clusterQueued, clusterReport, edits>>
      BY <1>0, <1>5, CounterStep DEF ApplyRecordFails, ApplyOperandsFails, probing, clusterSide
    <2>2. queued' \in BOOLEAN /\ report' \in {report, "failing"}
      BY <1>0, <1>5 DEF ApplyRecordFails, ApplyOperandsFails, ReturnError
    <2> QED
      BY <1>0, <2>1, <2>2
  <1>6. CASE StepFails
    <2>1. faults' \in 0 .. MaxFaults /\ UNCHANGED <<mtuMap, cleanedUp, clusterQueued, clusterReport, edits>>
      BY <1>0, <1>6, CounterStep DEF StepFails, clusterSide
    <2>2. prober' \in BOOLEAN /\ queued' \in BOOLEAN /\ report' \in {report, "failing"}
      BY <1>0, <1>6 DEF StepFails, ReturnError
    <2> QED
      BY <1>0, <2>1, <2>2
  <1>7. CASE ClusterConfigReconcile
    <2>1. UNCHANGED <<mtuMap, prober, cleanedUp, report, edits, faults>>
      BY <1>7 DEF ClusterConfigReconcile, probing
    <2>2. queued' \in BOOLEAN /\ clusterQueued' \in BOOLEAN /\ clusterReport' \in {"ok", "InvalidClusterConfig"}
      BY <1>0, <1>7 DEF ClusterConfigReconcile
    <2> QED
      BY <1>0, <2>1, <2>2
  <1>8. CASE ClusterConfigFails
    <2>1. faults' \in 0 .. MaxFaults /\ clusterReport' \in {clusterReport, "failing"}
          /\ UNCHANGED <<mtuMap, prober, cleanedUp, queued, clusterQueued, report, edits>>
      BY <1>0, <1>8, CounterStep DEF ClusterConfigFails, probing
    <2> QED
      BY <1>0, <2>1
  <1>9. CASE Prober
    <2>1. UNCHANGED <<prober, cleanedUp, clusterQueued, clusterReport, report, edits, faults>>
          /\ mtuMap' \in HostMTUs /\ queued' = TRUE
      BY <1>9 DEF Prober, clusterSide
    <2> QED
      BY <1>0, <2>1
  <1>10. CASE EditClusterConfig \/ EditOperConfig \/ DeleteApplied \/ DeleteMtuMap
    <2>1. edits' \in 0 .. MaxEdits /\ faults' = faults /\ UNCHANGED <<report, clusterReport>>
      BY <1>0, <1>10, CounterStep DEF EditClusterConfig, EditOperConfig, DeleteApplied, DeleteMtuMap
    <2>2. /\ prober' = prober /\ cleanedUp' = cleanedUp /\ mtuMap' \in {mtuMap, 0}
          /\ queued' \in {queued, TRUE} /\ clusterQueued' \in {clusterQueued, TRUE}
      BY <1>10 DEF EditClusterConfig, EditOperConfig, DeleteApplied, DeleteMtuMap, probing
    <2> QED
      BY <1>0, <2>1, <2>2
  <1>11. CASE Crash
    <2>1. /\ faults' \in 0 .. MaxFaults /\ UNCHANGED <<mtuMap, prober, edits>>
          /\ queued' = TRUE /\ clusterQueued' = TRUE /\ cleanedUp' = FALSE
          /\ report' = "none" /\ clusterReport' = "none"
      BY <1>0, <1>11, CounterStep DEF Crash
    <2> QED
      BY <1>0, <2>1
  <1> QED
    BY <1>1, <1>2, <1>3, <1>4, <1>5, <1>6, <1>7, <1>8, <1>9, <1>10, <1>11 DEF OcNext, Step

--------------------------------------------------------------------------------
(* The objects                                                             *)

LEMMA MergedType ==
  ASSUME NEW o \in Configs, HasTarget(o), NEW c \in ClusterConfigs
  PROVE  MergeClusterConfig(o, c) \in Configs /\ HasTarget(MergeClusterConfig(o, c))
  <1>1. c.sn \in Seq(ServiceNets) /\ c.cn \in Seq(PodNets) /\ c.type \in NetworkTypes
    BY OperConfigAssumption
  <1> QED
    BY <1>1 DEF MergeClusterConfig, Configs, HasTarget

LEMMA WrittenType ==
  ASSUME operConfig \in Configs, HasTarget(operConfig), NEW o \in Configs, WriteOper(o)
  PROVE  operConfig' \in Configs /\ HasTarget(operConfig')
  BY DEF WriteOper, Configs, HasTarget

LEMMA CanonicalType ==
  ASSUME NEW o \in Configs, HasTarget(o)
  PROVE  DeprecatedCanonicalize(o) \in Configs /\ HasTarget(DeprecatedCanonicalize(o))
  BY DEF DeprecatedCanonicalize, Configs, HasTarget, NetworkTypes

LEMMA EditedType ==
  ASSUME NEW o \in Configs, NEW s \in Settings,
         operConfig' = [o EXCEPT !.mtu = s.mtu, !.mig = s.mig, !.noOverlay = s.noOverlay,
                        !.multi = s.multi, !.extra = s.extra, !.proxy = s.proxy, !.state = s.state]
  PROVE  operConfig' \in Configs /\ HasTarget(operConfig')
  <1>1. s \in SettingsType /\ (s.mig.on => s.mig.to # 0)
    BY OperConfigAssumption
  <1>2. operConfig' \in Configs
    BY <1>1 DEF Configs, SettingsType
  <1>3. operConfig'.mig = s.mig
    BY DEF Configs
  <1> QED
    BY <1>1, <1>2, <1>3 DEF HasTarget

LEMMA ApiStep ==
  ASSUME OcInv, OcNext PROVE ApiType'
  <1>0. ApiType /\ RunType /\ RunInv
    BY DEF OcInv
  <1>r. run.oper \in Configs /\ run.next \in Configs /\ HasTarget(run.oper) /\ run.failed \in BOOLEAN
    BY <1>0 DEF RunType
  <1>a. clusterConfig \in ClusterConfigs /\ operConfig \in Configs /\ HasTarget(operConfig)
        /\ RecordOK(applied) /\ RecordOK(deployed) /\ broken \in BOOLEAN
    BY <1>0 DEF ApiType
  <1>u. CASE UNCHANGED apiObjects
    BY <1>a, <1>u DEF apiObjects, ApiType, RecordOK
  <1>1. CASE Merge
    <2>1. UNCHANGED <<clusterConfig, applied, deployed, broken>>
      BY <1>1 DEF Merge
    <2>2. operConfig' \in Configs /\ HasTarget(operConfig')
      <3>1. MergeClusterConfig(run.oper, clusterConfig) \in Configs
        BY <1>a, <1>r, MergedType
      <3> QED
        BY <1>1, <1>a, <1>r, <3>1, WrittenType DEF Merge
    <2> QED
      BY <1>a, <2>1, <2>2 DEF ApiType
  <1>2. CASE UpdateOperConfig
    <2>1. UNCHANGED <<clusterConfig, applied, deployed, broken>>
      BY <1>2 DEF UpdateOperConfig
    <2>2. operConfig' \in Configs /\ HasTarget(operConfig')
      BY <1>2, <1>a, <1>r, WrittenType DEF UpdateOperConfig
    <2> QED
      BY <1>a, <2>1, <2>2 DEF ApiType
  <1>3. CASE ApplyRecord
    <2>1. applied' = run.next /\ Explicit(run.next) /\ UNCHANGED <<clusterConfig, operConfig, deployed>>
      BY <1>0, <1>3 DEF ApplyRecord, RunInv, DecisionSafe
    <2>2. broken' \in BOOLEAN
      <3>1. run.prev \in Configs
        BY <1>0 DEF RunType
      <3>2. run.prev.mig.on \in BOOLEAN
        BY <3>1 DEF Configs
      <3> QED
        BY <1>3, <1>a, <3>2 DEF ApplyRecord, Unchecked
    <2> QED
      BY <1>a, <2>1, <2>2 DEF ApiType, RecordOK
  <1>4. CASE ApplyRecordFails
    <2>1. UNCHANGED <<clusterConfig, operConfig, applied, deployed>>
      BY <1>4 DEF ApplyRecordFails
    <2>2. broken' \in BOOLEAN
      <3>1. run.prev \in Configs
        BY <1>0 DEF RunType
      <3>2. run.prev.mig.on \in BOOLEAN
        BY <3>1 DEF Configs
      <3> QED
        BY <1>4, <1>a, <3>2 DEF ApplyRecordFails, Unchecked
    <2> QED
      BY <1>a, <2>1, <2>2 DEF ApiType, RecordOK
  <1>5. CASE ApplyOperands \/ ApplyOperandsFails
    <2>1. UNCHANGED <<clusterConfig, operConfig, applied>>
      BY <1>5 DEF ApplyOperands, ApplyOperandsFails
    <2>2. Explicit(run.next)
      BY <1>0, <1>5 DEF ApplyOperands, ApplyOperandsFails, RunInv, DecisionSafe
    <2>3. deployed' \in {deployed, run.next} /\ broken' \in {broken, run.failed}
      BY <1>5 DEF ApplyOperands, ApplyOperandsFails
    <2> QED
      BY <1>a, <1>r, <2>1, <2>2, <2>3 DEF ApiType, RecordOK
  <1>6. CASE ClusterConfigReconcile
    <2>1. UNCHANGED <<clusterConfig, applied, deployed, broken>>
      BY <1>6 DEF ClusterConfigReconcile
    <2>2. operConfig' \in Configs /\ HasTarget(operConfig')
      BY <1>6, <1>a, MergedType DEF ClusterConfigReconcile
    <2> QED
      BY <1>a, <2>1, <2>2 DEF ApiType
  <1>7. CASE EditClusterConfig
    BY <1>7, <1>a DEF EditClusterConfig, ApiType, RecordOK
  <1>8. CASE EditOperConfig
    <2>1. UNCHANGED <<clusterConfig, applied, deployed, broken>>
      BY <1>8 DEF EditOperConfig
    <2>2. operConfig' \in Configs /\ HasTarget(operConfig')
      BY <1>8, <1>a, EditedType DEF EditOperConfig
    <2> QED
      BY <1>a, <2>1, <2>2 DEF ApiType
  <1>9. CASE DeleteApplied
    BY <1>9, <1>a DEF DeleteApplied, ApiType, RecordOK
  <1>10. CASE ClusterNetworkStatus
    BY <1>10, <1>a DEF ClusterNetworkStatus, ApiType, RecordOK
  <1> QED
    BY <1>u, <1>1, <1>2, <1>3, <1>4, <1>5, <1>6, <1>7, <1>8, <1>9, <1>10
    DEF OcNext, Step, Start, ValidateConfig, ProbeMTU, ProbeDone, CheckConfig, Render, ProbeTimeout,
        StepFails, ClusterConfigFails, Prober, DeleteMtuMap, Crash

--------------------------------------------------------------------------------
(* One reconciliation, step by step                                        *)

LEMMA StartStep ==
  ASSUME OcInv, Start PROVE RunType' /\ RunInv'
  <1>1. UNCHANGED <<applied, deployed, broken>>
    BY DEF Start, apiObjects
  <1>2. CASE run' = run
    BY <1>1, <1>2, RunUnchanged
  <1>3. CASE run' = [Idle EXCEPT !.pc = "merge", !.fresh = TRUE, !.oper = operConfig]
    <2>1. operConfig \in Configs /\ HasTarget(operConfig) /\ Followed(applied)
      BY DEF OcInv, ApiType, RunInv, ChainKept
    <2>2. run'.pc = "merge" /\ run'.oper = operConfig /\ run'.failed = FALSE
      BY <1>3, IdleType
    <2>3. RunType'
      BY <1>3, <2>1, <2>2, IdleType DEF RunType
    <2>4. RecordNotStale' /\ DecisionSafe' /\ ChainKept'
      BY <1>1, <2>1, <2>2 DEF RecordNotStale, DecisionSafe, ChainKept, Deciding, Followed
    <2> QED
      BY <2>3, <2>4 DEF RunInv
  <1> QED
    BY <1>2, <1>3 DEF Start

LEMMA MergeStep ==
  ASSUME OcInv, Merge PROVE RunType' /\ RunInv'
  <1>1. UNCHANGED <<applied, deployed, broken>>
    BY DEF Merge
  <1>2. CASE run' = Idle
    BY <1>1, <1>2, RunEnds
  <1>3. ASSUME NEW o \in Configs, HasTarget(o), NEW b \in BOOLEAN,
               run' = [run EXCEPT !.pc = "validate", !.oper = o, !.fresh = b]
        PROVE  RunType' /\ RunInv'
    <2>1. run'.pc = "validate" /\ run'.oper = o /\ run'.failed = run.failed /\ RunType'
      BY <1>3 DEF OcInv, RunType
    <2>2. Followed(applied) /\ ~run.failed
      BY DEF Merge, OcInv, RunInv, ChainKept, RecordNotStale
    <2>3. RecordNotStale' /\ DecisionSafe' /\ ChainKept'
      BY <1>1, <2>1, <2>2 DEF RecordNotStale, DecisionSafe, ChainKept, Deciding, Followed
    <2> QED
      BY <2>1, <2>3 DEF RunInv
  <1>4. run.oper \in Configs /\ HasTarget(run.oper) /\ run.fresh \in BOOLEAN /\ clusterConfig \in ClusterConfigs
    BY DEF OcInv, RunType, ApiType
  <1>5. CASE run' = [run EXCEPT !.pc = "validate"]
    <2>1. run' = [run EXCEPT !.pc = "validate", !.oper = run.oper, !.fresh = run.fresh]
      BY <1>5 DEF OcInv, RunType
    <2> QED
      BY <1>3, <1>4, <2>1
  <1>6. CASE \E o \in {run.oper, MergeClusterConfig(run.oper, clusterConfig)} :
               run' = [run EXCEPT !.pc = "validate", !.oper = o, !.fresh = FALSE]
    <2>1. MergeClusterConfig(run.oper, clusterConfig) \in Configs
          /\ HasTarget(MergeClusterConfig(run.oper, clusterConfig))
      BY <1>4, MergedType
    <2> QED
      BY <1>3, <1>4, <1>6, <2>1
  <1> QED
    BY <1>2, <1>5, <1>6 DEF Merge, ReturnError

(* The record is read.                                                     *)
LEMMA ValidateStep ==
  ASSUME OcInv, ValidateConfig PROVE RunType' /\ RunInv'
  <1>1. UNCHANGED <<applied, deployed, broken>> /\ run.pc = "validate"
    BY DEF ValidateConfig, apiObjects
  <1>2. CASE run' = Idle
    BY <1>1, <1>2, RunEnds
  <1> DEFINE c == DeprecatedCanonicalize(run.oper)
  <1>3. ASSUME NEW x \in {"probe", "check"}, x = "check" => ~NeedMTUProbe(applied, c), Validate(c),
               run' = [run EXCEPT !.oper = c, !.prev = applied, !.pc = x]
        PROVE  RunType' /\ RunInv'
    <2>1. c \in Configs /\ HasTarget(c)
      BY CanonicalType DEF OcInv, RunType
    <2>2. applied \in Configs /\ RecordOK(applied) /\ Followed(applied)
      BY NoConfigType DEF OcInv, ApiType, RunInv, ChainKept, RecordOK, Explicit
    <2> HIDE DEF c
    <2>3. run'.oper = c /\ run'.prev = applied /\ run'.failed = run.failed /\ run'.pc = x
      BY <1>3 DEF OcInv, RunType
    <2>4. RunType'
      BY <1>3, <2>1, <2>2, <2>3 DEF OcInv, RunType
    <2>5. ~run.failed
      BY <1>1 DEF OcInv, RunInv, RecordNotStale
    <2>6. RecordNotStale'
      BY <1>1, <1>3, <2>2, <2>3, <2>5 DEF RecordNotStale, RecordOK, Deciding
    <2>7. DecisionSafe' /\ ChainKept'
      BY <1>1, <1>3, <2>2, <2>3 DEF DecisionSafe, ChainKept, Deciding, Followed
    <2> QED
      BY <2>4, <2>6, <2>7 DEF RunInv
  <1>4. CASE Validate(c)
    <2> DEFINE x == IF NeedMTUProbe(applied, c) \/ (mtuMap = 0 /\ ~HyperShift) THEN "probe" ELSE "check"
    <2>1. run' = [run EXCEPT !.oper = c, !.prev = applied, !.pc = x]
      BY <1>4 DEF ValidateConfig
    <2>2. x \in {"probe", "check"} /\ (x = "check" => ~NeedMTUProbe(applied, c))
      OBVIOUS
    <2> HIDE DEF x, c
    <2> QED
      BY <1>3, <1>4, <2>1, <2>2
  <1> QED
    BY <1>2, <1>4 DEF ValidateConfig, ReturnError

(* The MTU is asked for, and found: no host has none.                      *)
LEMMA ProbeStep ==
  ASSUME OcInv, ProbeMTU \/ ProbeDone PROVE RunType' /\ RunInv'
  <1>1. UNCHANGED <<applied, deployed, broken>> /\ run.pc \in {"probe", "wait"}
    BY DEF ProbeMTU, ProbeDone, apiObjects
  <1>2. /\ RecordOK(run.prev) /\ applied \in {run.prev, NoConfig} /\ ~run.failed /\ Validate(run.oper)
        /\ Followed(applied) /\ Followed(run.prev)
    BY <1>1 DEF OcInv, RunInv, RecordNotStale, ChainKept, Deciding
  <1>3. ASSUME NEW x \in {"wait", "check"}, NEW m \in HostMTUs \cup {0}, x = "check" => m # 0,
               run' = [run EXCEPT !.pc = x, !.mtu = m]
        PROVE  RunType' /\ RunInv'
    <2>1. /\ run'.oper = run.oper /\ run'.prev = run.prev /\ run'.failed = run.failed
          /\ run'.pc = x /\ run'.mtu = m
      BY <1>3 DEF OcInv, RunType
    <2>2. RunType'
      BY <1>3, <2>1 DEF OcInv, RunType
    <2>3. RecordNotStale'
      BY <1>1, <1>2, <1>3, <2>1 DEF RecordNotStale, RecordOK, Deciding
    <2>4. DecisionSafe' /\ ChainKept'
      BY <1>1, <1>2, <1>3, <2>1 DEF DecisionSafe, ChainKept, Deciding, Followed
    <2> QED
      BY <2>2, <2>3, <2>4 DEF RunInv
  <1>4. run.mtu \in HostMTUs \cup {0} /\ mtuMap \in HostMTUs \cup {0} /\ \A host \in HostMTUs : host # 0
    BY OperConfigAssumption DEF OcInv, RunType, ScalarType
  <1>5. CASE run' = [run EXCEPT !.pc = "wait"]
    <2>1. run' = [run EXCEPT !.pc = "wait", !.mtu = run.mtu]
      BY <1>5 DEF OcInv, RunType
    <2> QED
      BY <1>3, <1>4, <2>1
  <1>6. CASE \E m \in HostMTUs \cup {mtuMap} : m # 0 /\ run' = [run EXCEPT !.pc = "check", !.mtu = m]
    BY <1>3, <1>4, <1>6
  <1> QED
    BY <1>4, <1>5, <1>6 DEF ProbeMTU, ProbeDone

(* The change is accepted, on the grounds of the record that was read.     *)
LEMMA CheckStep ==
  ASSUME OcInv, CheckConfig PROVE RunType' /\ RunInv'
  <1>1. UNCHANGED <<applied, deployed, broken>> /\ run.pc = "check"
    BY DEF CheckConfig, apiObjects
  <1>2. CASE run' = Idle
    BY <1>1, <1>2, RunEnds
  <1>3. /\ RecordOK(run.prev) /\ applied \in {run.prev, NoConfig} /\ ~run.failed
        /\ Validate(run.oper) /\ (run.mtu = 0 => ~NeedMTUProbe(run.prev, run.oper))
        /\ Followed(applied) /\ Followed(run.prev)
    BY <1>1 DEF OcInv, RunInv, RecordNotStale, ChainKept, Deciding
  <1>4. run.oper \in Configs /\ HasTarget(run.oper) /\ run.mtu \in HostMTUs \cup {0}
    BY DEF OcInv, RunType
  <1> DEFINE p == IF run.prev = NoConfig THEN NoConfig ELSE FillDefaults(run.prev, run.prev, run.mtu)
  <1>5. p = run.prev
    BY <1>3, DefaultsIdempotent DEF RecordOK
  <1> HIDE DEF p
  <1> DEFINE n == FillDefaults(run.oper, p, run.mtu)
             c == Checked(p, n)
  <1>6. CASE IsChangeSafe(p, n) /\ run' = [run EXCEPT !.pc = "update", !.next = c]
    <2>1. Explicit(n)
      BY <1>3, <1>4, <1>5, <1>6, FilledExplicit DEF RecordOK
    <2>2. HasTarget(n)
      <3>1. n.mig = run.oper.mig
        BY <1>4, FilledFields
      <3> QED
        BY <1>4, <3>1 DEF HasTarget
    <2> HIDE DEF n
    <2>3. Explicit(c) /\ HasTarget(c)
      BY <2>1, <2>2, CheckedExplicit
    <2>4. Accepted(run.prev, c)
      BY <1>3, <1>5, <1>6, <2>1, ChangeAccepted DEF RecordOK
    <2> HIDE DEF c
    <2>5. run'.pc = "update" /\ run'.next = c /\ run'.prev = run.prev /\ run'.failed = run.failed /\ run'.oper = run.oper
      BY <1>6 DEF OcInv, RunType
    <2>6. RunType'
      BY <1>6, <2>3, <2>5 DEF OcInv, RunType, Explicit
    <2>7. RecordNotStale' /\ DecisionSafe'
      BY <1>1, <1>3, <2>3, <2>4, <2>5 DEF RecordNotStale, DecisionSafe, RecordOK, Deciding
    <2>8. ChainKept'
      BY <1>1, <1>3, <2>5 DEF ChainKept, Deciding, Followed
    <2> QED
      BY <2>6, <2>7, <2>8 DEF RunInv
  <1> QED
    BY <1>2, <1>6 DEF CheckConfig, ReturnError, p

LEMMA UpdateStep ==
  ASSUME OcInv, UpdateOperConfig PROVE RunType' /\ RunInv'
  <1>1. UNCHANGED <<applied, deployed, broken>> /\ run.pc = "update"
    BY DEF UpdateOperConfig
  <1>2. CASE run' = Idle
    BY <1>1, <1>2, RunEnds
  <1>3. ASSUME NEW b \in BOOLEAN, run' = [run EXCEPT !.pc = "render", !.fresh = b]
        PROVE  RunType' /\ RunInv'
    <2>1. /\ run'.pc = "render" /\ run'.next = run.next /\ run'.prev = run.prev
          /\ run'.failed = run.failed /\ run'.oper = run.oper
      BY <1>3 DEF OcInv, RunType
    <2>2. RunType'
      BY <1>3, <2>1 DEF OcInv, RunType
    <2>3. RecordNotStale' /\ DecisionSafe'
      BY <1>1, <2>1 DEF OcInv, RunInv, RecordNotStale, DecisionSafe, Deciding
    <2>4. ChainKept'
      BY <1>1, <2>1 DEF OcInv, RunInv, ChainKept, Deciding, Followed
    <2> QED
      BY <2>2, <2>3, <2>4 DEF RunInv
  <1>4. CASE run' = [run EXCEPT !.pc = "render"]
    <2>1. run' = [run EXCEPT !.pc = "render", !.fresh = run.fresh] /\ run.fresh \in BOOLEAN
      BY <1>4 DEF OcInv, RunType
    <2> QED
      BY <1>3, <2>1
  <1> QED
    BY <1>2, <1>3, <1>4 DEF UpdateOperConfig, ReturnError

(* The MTU of a migration is set to its target.                            *)
LEMMA RenderStep ==
  ASSUME OcInv, Render PROVE RunType' /\ RunInv'
  <1>1. UNCHANGED <<applied, deployed, broken>> /\ run.pc = "render"
    BY DEF Render, apiObjects
  <1>2. CASE run' = Idle
    BY <1>1, <1>2, RunEnds
  <1> DEFINE c == [run.next EXCEPT !.mtu = RenderedMTU(run.next)]
  <1>3. CASE run' = [run EXCEPT !.pc = "record", !.next.mtu = RenderedMTU(run.next)]
    <2>1. Explicit(run.next) /\ HasTarget(run.next) /\ Accepted(run.prev, run.next) /\ ~run.failed
      BY <1>1 DEF OcInv, RunInv, DecisionSafe, RecordNotStale
    <2>2. /\ Explicit(c) /\ Safe!SafeChange(run.prev, c)
          /\ run.prev # NoConfig /\ ~run.prev.mig.on => Safe!KeepsAddresses(run.prev, c)
      BY <2>1, RenderedSafe
    <2>3. run' = [run EXCEPT !.pc = "record", !.next = c]
      BY <1>3 DEF OcInv, RunType
    <2> HIDE DEF c
    <2>4. /\ run'.pc = "record" /\ run'.next = c /\ run'.prev = run.prev
          /\ run'.failed = run.failed /\ run'.oper = run.oper
      BY <2>3 DEF OcInv, RunType
    <2>5. RunType'
      BY <2>2, <2>3, <2>4 DEF OcInv, RunType, Explicit
    <2>6. RecordNotStale' /\ DecisionSafe'
      BY <1>1, <2>1, <2>2, <2>4 DEF OcInv, RunInv, RecordNotStale, DecisionSafe, Deciding
    <2>7. ChainKept'
      BY <1>1, <2>4 DEF OcInv, RunInv, ChainKept, Deciding, Followed
    <2> QED
      BY <2>5, <2>6, <2>7 DEF RunInv
  <1> QED
    BY <1>2, <1>3 DEF Render, ReturnError

(* Every change of a configuration into itself is safe.                    *)
LEMMA SafeReflexive ==
  ASSUME NEW c PROVE Safe!SafeChange(c, c)
  BY KeepsReflexive DEF Safe!SafeChange, Safe!KeepsMTU

(* The record is replaced: the chain of accepted changes gets one longer,  *)
(* unless the pod networks were not compared.                              *)
LEMMA RecordStep ==
  ASSUME OcInv, ApplyRecord PROVE RunType' /\ RunInv'
  <1>1. /\ applied' = run.next /\ broken' = Unchecked /\ deployed' = deployed
        /\ run' = [run EXCEPT !.pc = "operands"] /\ run.pc = "record"
    BY DEF ApplyRecord
  <1>2. run'.pc = "operands" /\ run'.next = run.next /\ run'.failed = run.failed /\ run'.oper = run.oper
    BY <1>1 DEF OcInv, RunType
  <1>3. RunType'
    BY <1>1, <1>2 DEF OcInv, RunType
  <1>4. /\ Explicit(run.next) /\ Followed(run.prev)
        /\ run.prev # NoConfig /\ ~run.prev.mig.on => Safe!KeepsAddresses(run.prev, run.next)
    BY <1>1 DEF OcInv, RunInv, DecisionSafe, ChainKept, Deciding
  <1>5. RecordNotStale' /\ DecisionSafe'
    BY <1>1, <1>2, <1>4, SafeReflexive DEF RecordNotStale, DecisionSafe, Deciding
  <1>6. broken' \/ deployed = NoConfig \/ Safe!KeepsAddresses(deployed, run.next)
    BY <1>1, <1>4, KeepsTransitive DEF Followed, Unchecked
  <1>7. ChainKept'
    BY <1>1, <1>2, <1>6 DEF ChainKept, Deciding, Followed
  <1> QED
    BY <1>3, <1>5, <1>7 DEF RunInv

(* It is not replaced, and the operands get the configuration all the      *)
(* same: a safe change of the record there still is.                       *)
LEMMA RecordFailsStep ==
  ASSUME OcInv, ApplyRecordFails PROVE RunType' /\ RunInv'
  <1>1. /\ broken' = Unchecked /\ UNCHANGED <<applied, deployed>>
        /\ run' = [run EXCEPT !.pc = "operands", !.failed = TRUE] /\ run.pc = "record"
    BY DEF ApplyRecordFails
  <1>2. run'.pc = "operands" /\ run'.next = run.next /\ run'.failed = TRUE /\ run'.oper = run.oper
    BY <1>1 DEF OcInv, RunType
  <1>3. RunType'
    BY <1>1, <1>2 DEF OcInv, RunType
  <1>4. /\ Explicit(run.next) /\ Safe!SafeChange(run.prev, run.next) /\ Followed(run.prev) /\ Followed(applied)
        /\ applied \in {run.prev, NoConfig}
        /\ run.prev # NoConfig /\ ~run.prev.mig.on => Safe!KeepsAddresses(run.prev, run.next)
    BY <1>1 DEF OcInv, RunInv, RecordNotStale, DecisionSafe, ChainKept, Deciding
  <1>5. Safe!SafeChange(applied, run.next)
    BY <1>4 DEF Safe!SafeChange, NoConfig
  <1>6. RecordNotStale' /\ DecisionSafe'
    BY <1>1, <1>2, <1>4, <1>5 DEF RecordNotStale, DecisionSafe, Deciding
  <1>7. broken' \/ deployed = NoConfig \/ Safe!KeepsAddresses(deployed, run.next)
    BY <1>1, <1>4, KeepsTransitive DEF Followed, Unchecked
  <1>t. broken => broken'
    BY <1>1, Zenon DEF Unchecked
  <1>8. ChainKept'
    BY <1>1, <1>2, <1>4, <1>7, <1>t DEF ChainKept, Deciding, Followed
  <1> QED
    BY <1>3, <1>6, <1>8 DEF RunInv

(* The operands get it: the chain starts anew from what they run.          *)
LEMMA OperandsStep ==
  ASSUME OcInv, ApplyOperands \/ ApplyOperandsFails PROVE RunType' /\ RunInv'
  <1>1. applied' = applied /\ run.pc = "operands"
    BY DEF ApplyOperands, ApplyOperandsFails
  <1>2. /\ run' = Idle \/ (run' = [run EXCEPT !.pc = "status"] /\ ~run.failed)
        /\ (deployed' = run.next /\ broken' = run.failed) \/ UNCHANGED <<deployed, broken>>
    BY DEF ApplyOperands, ApplyOperandsFails, ReturnError
  <1>3. RunType' /\ run'.pc \in {"idle", "status"} /\ ~run'.failed
    <2>1. CASE run' = Idle
      BY <2>1, IdleType DEF RunType
    <2>2. CASE run' = [run EXCEPT !.pc = "status"] /\ ~run.failed
      BY <2>2 DEF OcInv, RunType
    <2> QED
      BY <1>2, <2>1, <2>2
  <1>4. Followed(applied) /\ (~run.failed => applied \in {run.next, NoConfig})
    BY <1>1 DEF OcInv, RunInv, ChainKept, DecisionSafe
  <1>5. Followed(applied)'
    <2>1. CASE UNCHANGED <<deployed, broken>>
      BY <1>1, <1>4, <2>1 DEF Followed
    <2>2. CASE deployed' = run.next /\ broken' = run.failed
      BY <1>1, <1>4, <2>2, KeepsReflexive DEF Followed
    <2> QED
      BY <1>2, <2>1, <2>2
  <1>6. RecordNotStale' /\ DecisionSafe' /\ ChainKept'
    BY <1>3, <1>5 DEF RecordNotStale, DecisionSafe, ChainKept, Deciding
  <1> QED
    BY <1>3, <1>6 DEF RunInv

(* An administrator deletes the record, at any moment.                     *)
LEMMA DeleteStep ==
  ASSUME OcInv, DeleteApplied PROVE RunType' /\ RunInv'
  <1>1. applied' = NoConfig /\ UNCHANGED <<deployed, broken, run>>
    BY DEF DeleteApplied
  <1>2. RunType'
    BY <1>1 DEF OcInv, RunType
  <1>3. RecordNotStale'
    BY <1>1 DEF OcInv, RunInv, RecordNotStale, Deciding
  <1>4. DecisionSafe'
    BY <1>1 DEF OcInv, RunInv, DecisionSafe, Safe!SafeChange, NoConfig
  <1>5. ChainKept'
    BY <1>1 DEF OcInv, RunInv, ChainKept, Deciding, Followed
  <1> QED
    BY <1>2, <1>3, <1>4, <1>5 DEF RunInv

LEMMA RunStep ==
  ASSUME OcInv, OcNext PROVE RunType' /\ RunInv'
  <1>1. CASE Start \/ Merge \/ ValidateConfig
    BY <1>1, StartStep, MergeStep, ValidateStep
  <1>2. CASE ProbeMTU \/ ProbeDone \/ CheckConfig \/ UpdateOperConfig \/ Render
    BY <1>2, ProbeStep, CheckStep, UpdateStep, RenderStep
  <1>3. CASE ApplyRecord \/ ApplyRecordFails \/ ApplyOperands \/ ApplyOperandsFails
    BY <1>3, RecordStep, RecordFailsStep, OperandsStep
  <1>4. CASE ClusterNetworkStatus \/ ProbeTimeout \/ StepFails \/ Crash
    <2>1. run' = Idle /\ UNCHANGED <<applied, deployed, broken>>
      BY <1>4 DEF ClusterNetworkStatus, ProbeTimeout, StepFails, Crash, ReturnError, apiObjects
    <2> QED
      BY <2>1, RunEnds
  <1>5. CASE ClusterConfigReconcile \/ EditOperConfig
    <2>1. UNCHANGED <<applied, deployed, broken>>
      BY <1>5 DEF ClusterConfigReconcile, EditOperConfig
    <2>2. CASE run' = run
      BY <2>1, <2>2, RunUnchanged
    <2>3. CASE run' = [run EXCEPT !.fresh = FALSE]
      BY <2>1, <2>3, RunKept
    <2>4. CASE run' = [run EXCEPT !.fresh = @ /\ operConfig' = operConfig]
      <3>1. CASE operConfig' = operConfig
        <4>1. run' = run
          BY <2>4, <3>1 DEF OcInv, RunType
        <4> QED
          BY <2>1, <4>1, RunUnchanged
      <3>2. CASE operConfig' # operConfig
        <4>1. run' = [run EXCEPT !.fresh = FALSE]
          BY <2>4, <3>2 DEF OcInv, RunType
        <4> QED
          BY <2>1, <4>1, RunKept
      <3> QED
        BY <3>1, <3>2
    <2> QED
      BY <1>5, <2>2, <2>3, <2>4 DEF ClusterConfigReconcile, EditOperConfig
  <1>6. CASE ClusterConfigFails \/ Prober \/ EditClusterConfig \/ DeleteMtuMap
    <2>1. UNCHANGED <<applied, deployed, broken, run>>
      BY <1>6 DEF ClusterConfigFails, Prober, EditClusterConfig, DeleteMtuMap, apiObjects
    <2> QED
      BY <2>1, RunUnchanged
  <1>7. CASE DeleteApplied
    BY <1>7, DeleteStep
  <1> QED
    BY <1>1, <1>2, <1>3, <1>4, <1>5, <1>6, <1>7 DEF OcNext, Step

LEMMA OcInvInductive == OcInv /\ [OcNext]_vars => OcInv'
  <1>1. ASSUME OcInv, OcNext PROVE OcInv'
    BY <1>1, ApiStep, RunStep, ScalarStep DEF OcInv
  <1>2. ASSUME OcInv, UNCHANGED vars PROVE OcInv'
    <2>1. ApiType'
      BY <1>2 DEF vars, OcInv, ApiType, RecordOK
    <2>2. RunType' /\ RunInv'
      BY <1>2, RunUnchanged DEF vars
    <2>3. ScalarType'
      BY <1>2 DEF vars, OcInv, ScalarType
    <2> QED
      BY <2>1, <2>2, <2>3 DEF OcInv
  <1> QED
    BY <1>1, <1>2

LEMMA OcInvariant == OcSpec => []OcInv
  BY OcInitInv, OcInvInductive, PTL DEF OcSpec

--------------------------------------------------------------------------------
(* The results                                                             *)

(* Every reachable state of OperConfig is well typed; what is recorded and *)
(* what the operands run is valid by itself and has all defaults explicit  *)
(* (Validate, FillDefaults, Reconcile).                                    *)
THEOREM OcTypeCorrect == OcSpec => []OcTypeOK
  BY OcInvariant, InvType, PTL

(* Every step changes the record and the operands as SafeConfig allows.    *)
LEMMA StepIsSafe ==
  ASSUME OcInv, [OcNext]_vars PROVE [Safe!SafeNext]_(Safe!safeVars)
  <1>1. CASE ApplyRecord
    <2>1. applied' = run.next /\ deployed' = deployed /\ run.pc = "record"
      BY <1>1 DEF ApplyRecord
    <2>2. /\ Explicit(run.next) /\ Safe!SafeChange(run.prev, run.next)
          /\ applied \in {run.prev, NoConfig}
      BY <2>1 DEF OcInv, RunInv, DecisionSafe, RecordNotStale, Deciding
    <2>3. run.next # Safe!NoConfig /\ Safe!SafeChange(applied, run.next)
      BY <2>2, ExplicitFacts DEF Safe!SafeChange, NoConfig
    <2> QED
      BY <2>1, <2>3 DEF Safe!SafeNext, Safe!Record
  <1>2. CASE ApplyOperands \/ ApplyOperandsFails
    <2>1. applied' = applied /\ deployed' \in {deployed, run.next} /\ run.pc = "operands"
      BY <1>2 DEF ApplyOperands, ApplyOperandsFails
    <2>2. Explicit(run.next) /\ Safe!SafeChange(applied, run.next)
      BY <2>1 DEF OcInv, RunInv, DecisionSafe
    <2>3. run.next # Safe!NoConfig
      BY <2>2, ExplicitFacts DEF NoConfig
    <2> QED
      BY <2>1, <2>2, <2>3 DEF Safe!SafeNext, Safe!Run, Safe!safeVars
  <1>3. CASE DeleteApplied
    BY <1>3 DEF DeleteApplied, NoConfig, Safe!SafeNext, Safe!ForgetRecord
  <1>4. CASE UNCHANGED <<applied, deployed>>
    BY <1>4 DEF Safe!safeVars
  <1>5. CASE OcNext
    BY <1>1, <1>2, <1>3, <1>4, <1>5
    DEF OcNext, Step, Start, Merge, ValidateConfig, ProbeMTU, ProbeDone, CheckConfig, UpdateOperConfig,
        Render, ClusterNetworkStatus, ProbeTimeout, ApplyRecordFails, StepFails, ClusterConfigReconcile,
        ClusterConfigFails, Prober, EditClusterConfig, EditOperConfig, DeleteMtuMap, Crash, apiObjects
  <1> QED
    BY <1>4, <1>5 DEF vars

(* The operator implements SafeConfig for any networks, settings, edits    *)
(* and faults: what it records as applied and what it gives the operands   *)
(* changes only as IsChangeSafe promises, although the decision is made    *)
(* several steps before it is carried out, users and the other controller  *)
(* write in between, and the record may fail to be written or be deleted.  *)
THEOREM ConfigChangesSafe == OcSpec => ChangesAreSafe
  <1>1. OcInit => Safe!SafeInit
    BY DEF OcInit, Safe!SafeInit, NoConfig
  <1>2. OcInv /\ [OcNext]_vars => [Safe!SafeNext]_(Safe!safeVars)
    BY StepIsSafe
  <1> QED
    BY <1>1, <1>2, OcInvariant, PTL DEF OcSpec, ChangesAreSafe, Safe!SafeSpec

(* Between two configurations given to the operands there may be several   *)
(* records; a chain of accepted changes keeps the primary service network  *)
(* and the pods' addresses from the first of them to the last.             *)
THEOREM OperandsKeepAddresses == OcSpec => AddressesKept
  <1>1. ASSUME OcInv, [OcNext]_vars PROVE [KeepAddresses]_vars
    <2>1. CASE ApplyOperands \/ ApplyOperandsFails
      <3>1. deployed' \in {deployed, run.next} /\ run.pc = "operands"
        BY <2>1 DEF ApplyOperands, ApplyOperandsFails
      <3>2. Followed(run.next) /\ run.next # NoConfig
        BY <1>1, <3>1, ExplicitFacts DEF OcInv, RunInv, ChainKept, DecisionSafe
      <3> QED
        BY <3>1, <3>2 DEF KeepAddresses, Followed
    <2>2. CASE deployed' = deployed
      BY <2>2 DEF KeepAddresses
    <2>3. CASE OcNext
      BY <2>1, <2>2, <2>3
      DEF OcNext, Step, Start, Merge, ValidateConfig, ProbeMTU, ProbeDone, CheckConfig, UpdateOperConfig,
          Render, ApplyRecord, ClusterNetworkStatus, ProbeTimeout, ApplyRecordFails, StepFails,
          ClusterConfigReconcile, ClusterConfigFails, Prober, EditClusterConfig, EditOperConfig,
          DeleteApplied, DeleteMtuMap, Crash, apiObjects
    <2> QED
      BY <1>1, <2>2, <2>3 DEF vars
  <1> QED
    BY <1>1, OcInvariant, PTL DEF OcSpec, AddressesKept

================================================================================
