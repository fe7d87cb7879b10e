--------------------------- MODULE PartitionProofs ---------------------------
(***************************************************************************)
(* Theorems of Partition: what its operators compute, what its actions do, *)
(* types, versions of the map, what departs and what a migration sheds;    *)
(* then that everyone is in its zone, assemblies are together and blocks   *)
(* have one owner.                                                         *)
(***************************************************************************)
EXTENDS Partition, FiniteSetTheorems, WellFoundedInduction, TLAPS

(***************************************************************************)
(* Sets of numbers, and sequences of the members of a set.                 *)
(***************************************************************************)
Less == {ss \in Nat \X Nat : ss[1] < ss[2]}

\* Every non-empty set of naturals has a least element.
LEMMA LeastExists ==
    ASSUME NEW T, T \subseteq Nat, T # {}
    PROVE  \E x \in T : \A y \in T : x <= y
<1>1. IsWellFoundedOn(Less, Nat)
    BY NatLessThanWellFounded, Zenon DEF OpToRel, Less
<1>2. PICK x \in T : \A y \in T : ~(<<y, x>> \in Less)
    BY <1>1, WFMin, Zenon
<1>3. \A y \in T : ~(y < x)
    BY <1>2 DEF Less
<1> QED
    BY <1>3

\* The greatest of some indexes up to n is one of them.
LEMMA MaxIs ==
    ASSUME NEW n \in Nat, NEW S, S \subseteq 1 .. n, S # {}
    PROVE  Max(S) \in S
<1> DEFINE T == {n - i : i \in S}
<1>1. T \subseteq Nat
    OBVIOUS
<1>2. T # {}
    <2>1. PICK i \in S : TRUE
        OBVIOUS
    <2>2. n - i \in T
        OBVIOUS
    <2> QED
        BY <2>2
<1>3. PICK x \in T : \A y \in T : x <= y
    <2> HIDE DEF T
    <2> QED
        BY <1>1, <1>2, LeastExists
<1>4. PICK i \in S : x = n - i
    OBVIOUS
<1>5. \A j \in S : n - i <= n - j
    BY <1>3, <1>4
<1>6. \A j \in S : i >= j
    <2> SUFFICES ASSUME NEW j \in S PROVE i >= j
        OBVIOUS
    <2>1. i \in Int /\ j \in Int /\ n \in Int
        OBVIOUS
    <2> QED
        BY <1>5, <2>1
<1>7. \E k \in S : \A j \in S : k >= j
    BY <1>6
<1> QED
    BY <1>7 DEF Max

\* The strip of a position is the one its edges enclose it with.
LEMMA StripIndexIs ==
    ASSUME bounds \in Seq(Int), Increasing(bounds), NEW x \in Int
    PROVE  LET k == StripIndex(x) IN
           /\ k \in 0 .. Len(bounds)
           /\ k > 0 => x >= bounds[k]
           /\ k < Len(bounds) => x < bounds[k + 1]
<1> DEFINE n == Len(bounds)
           S == {i \in DOMAIN bounds : x >= bounds[i]}
           T == (1 .. n + 1) \ S
<1>1. n \in Nat /\ DOMAIN bounds = 1 .. n /\ \A i \in 1 .. n : bounds[i] \in Int
    OBVIOUS
<1>2. T \subseteq Nat /\ n + 1 \in T
    BY <1>1
<1>3. PICK m \in T : \A i \in T : m <= i
    <2> HIDE DEF T
    <2> QED
        BY <1>2, LeastExists
<1>4. m \in 1 .. n + 1
    BY <1>1
<1>5. \A i \in 1 .. m - 1 : i \in S
    BY <1>1, <1>3, <1>4
<1>6. \A i \in S : i <= m - 1
    <2> SUFFICES ASSUME NEW i \in S, i >= m PROVE FALSE
        BY <1>1, <1>4
    <2>1. i # m /\ i \in 1 .. n /\ m \in 1 .. n
        BY <1>1, <1>4
    <2>2. bounds[m] < bounds[i]
        BY <1>1, <2>1 DEF Increasing
    <2>3. ~(x >= bounds[m])
        BY <1>1, <2>1
    <2> QED
        BY <1>1, <2>1, <2>2, <2>3
<1>7. S = 1 .. m - 1
    BY <1>1, <1>4, <1>5, <1>6
<1>8. Cardinality(S) = m - 1
    <2>1. Cardinality(1 .. m - 1) = m - 1
        <3>1. m - 1 \in Int
            BY <1>4
        <3>2. Cardinality(1 .. m - 1) = IF 1 > m - 1 THEN 0 ELSE m - 1 - 1 + 1
            BY <3>1, FS_Interval
        <3> QED
            BY <1>4, <3>2
    <2> QED
        BY <1>7, <2>1
<1>9. StripIndex(x) = m - 1
    BY <1>8 DEF StripIndex, Count
<1>10. m - 1 > 0 => x >= bounds[m - 1]
    BY <1>4, <1>7
<1>11. m - 1 < n => x < bounds[m]
    <2> SUFFICES ASSUME m - 1 < n PROVE x < bounds[m]
        OBVIOUS
    <2>1. m \in 1 .. n /\ m \notin S
        BY <1>1, <1>4
    <2> QED
        BY <1>1, <2>1
<1> QED
    BY <1>1, <1>4, <1>9, <1>10, <1>11

\* SetToSeq lists a finite set, each of its members once.
LEMMA SetToSeqIs ==
    ASSUME NEW S, IsFiniteSet(S)
    PROVE  /\ SetToSeq(S) \in Seq(S)
           /\ \A x \in S : \E i \in DOMAIN SetToSeq(S) : SetToSeq(S)[i] = x
           /\ \A i, j \in DOMAIN SetToSeq(S) : SetToSeq(S)[i] = SetToSeq(S)[j] => i = j
<1> DEFINE n == Cardinality(S)  f == SetToSeq(S)
<1>1. n \in Nat /\ ExistsBijection(1 .. n, S)
    BY FS_CardinalityType
<1>2. \E g \in [1 .. n -> S] : IsInjective(g)
    BY <1>1 DEF ExistsBijection, Bijection, Injection, IsInjective
<1>3. f \in [1 .. n -> S] /\ IsInjective(f)
    BY <1>2 DEF SetToSeq
<1>4. f \in Injection(1 .. n, S)
    BY <1>3 DEF Injection
<1>5. f \in Surjection(1 .. n, S)
    <2>1. IsFiniteSet(1 .. n) /\ Cardinality(1 .. n) = n
        BY <1>1, FS_Interval
    <2> QED
        BY <1>4, <2>1, FS_Injection
<1> HIDE DEF f, n
<1>6. f \in Seq(S) /\ DOMAIN f = 1 .. n
    BY <1>1, <1>3
<1>7. \A x \in S : \E i \in DOMAIN f : f[i] = x
    BY <1>5, <1>6 DEF Surjection
<1>8. \A i, j \in DOMAIN f : f[i] = f[j] => i = j
    BY <1>3 DEF IsInjective
<1> QED
    BY <1>6, <1>7, <1>8 DEF f

(***************************************************************************)
(* Where a position belongs.                                               *)
(***************************************************************************)
\* The region after a movement to p out of a region.
At(p, region) ==
    IF conf.grid THEN Region2DAfter(p, region) ELSE MovementRegionAfter(p[1], region)

\* The strips and the sub-boundaries in force.
LEMMA MapIs ==
    TypeOK => /\ rev \in Nat /\ bounds \in Seq(Int) /\ Increasing(bounds)
              /\ \A zone \in Zones :
                    zone \in Zone /\ splits[zone] \in Seq(Int) /\ Len(splits[zone]) = 1
<1>1. CurrentMap.rev = rev /\ CurrentMap.bounds = bounds /\ CurrentMap.splits = splits
    BY DEF CurrentMap
<1> QED
    BY <1>1 DEF TypeOK, IsMap, Zones

\* A zone has at most one sub-boundary, and two bands then.
LEMMA RefineIs ==
    TypeOK => \A zone \in Zone, x \in Int :
        Refine(zone, x) = <<zone, IF zone \in Zones /\ x >= splits[zone][1] THEN 1 ELSE 0>>
<1> SUFFICES ASSUME TypeOK, NEW zone \in Zone, NEW x \in Int
             PROVE  Refine(zone, x) = <<zone, IF zone \in Zones /\ x >= splits[zone][1] THEN 1 ELSE 0>>
    OBVIOUS
<1>1. CASE zone \in Zones
    <2>1. splits[zone] \in Seq(Int) /\ Len(splits[zone]) = 1
        BY <1>1, MapIs
    <2>2. DOMAIN splits[zone] = {1}
        BY <2>1
    <2>3. ToSet(splits[zone]) = {splits[zone][1]}
        BY <2>2 DEF ToSet
    <2>4. Cardinality({b \in {splits[zone][1]} : x >= b})
              = IF x >= splits[zone][1] THEN 1 ELSE 0
        <3> DEFINE S == {b \in {splits[zone][1]} : x >= b}
        <3>1. Cardinality({splits[zone][1]}) = 1 /\ Cardinality({}) = 0
            BY FS_Singleton, FS_EmptySet
        <3>2. S = IF x >= splits[zone][1] THEN {splits[zone][1]} ELSE {}
            OBVIOUS
        <3> QED
            BY <3>1, <3>2
    <2> QED
        BY <1>1, <2>3, <2>4 DEF Refine, Count
<1>2. CASE zone \notin Zones
    BY <1>2 DEF Refine
<1> QED
    BY <1>1, <1>2

\* The strips have names and the names numbers.
LEMMA StripNames ==
    TypeOK => /\ \A i \in 0 .. Len(bounds) :
                    /\ StripName(i) \in Zone /\ IsStrip(StripName(i))
                    /\ IndexOfName(StripName(i)) = i
              /\ \A zone \in Zone : IsStrip(zone) => IndexOfName(zone) \in 0 .. Len(bounds)
<1> SUFFICES ASSUME TypeOK
             PROVE  /\ \A i \in 0 .. Len(bounds) :
                          /\ StripName(i) \in Zone /\ IsStrip(StripName(i))
                          /\ IndexOfName(StripName(i)) = i
                    /\ \A zone \in Zone : IsStrip(zone) => IndexOfName(zone) \in 0 .. Len(bounds)
    OBVIOUS
<1>1. Len(bounds) \in Nat /\ (bounds # <<>> <=> Len(bounds) > 0)
    BY MapIs
<1>2. ASSUME NEW i \in 0 .. Len(bounds)
      PROVE  /\ StripName(i) \in Zone /\ IsStrip(StripName(i))
             /\ IndexOfName(StripName(i)) = i
    <2>1. StripName(i) \in Zone
        BY <1>1 DEF StripName, Zone, W, E, Z
    <2>2. Z(i)[1] = "Z" /\ Z(i)[2] = i /\ Z(i) # W /\ Z(i) # E /\ W # E
          /\ W[1] # "Z" /\ E[1] # "Z"
        BY DEF Z, W, E
    <2>3. CASE Len(bounds) > 1
        <3>1. StripName(i) = Z(i)
            BY <2>3 DEF StripName
        <3> QED
            BY <1>1, <2>1, <2>2, <2>3, <3>1 DEF IsStrip, IndexOfName
    <2>4. CASE Len(bounds) <= 1
        <3>1. StripName(i) = IF i = 0 /\ Len(bounds) = 1 THEN W ELSE E
            <4>1. ~(Len(bounds) > 1) /\ (bounds # <<>> <=> Len(bounds) = 1)
                BY <1>1, <2>4
            <4> QED
                BY <4>1, Zenon DEF StripName
        <3>2. IndexOfName(W) = 0 /\ IndexOfName(E) = Len(bounds)
            BY <2>2 DEF IndexOfName
        <3> QED
            BY <1>1, <2>1, <2>4, <3>1, <3>2 DEF IsStrip
    <2> QED
        BY <1>1, <2>3, <2>4
<1>3. ASSUME NEW zone \in Zone, IsStrip(zone)
      PROVE  IndexOfName(zone) \in 0 .. Len(bounds)
    <2>1. zone[2] \in Nat
        BY DEF Zone
    <2>2. CASE Len(bounds) > 1
        BY <1>1, <1>3, <2>1, <2>2 DEF IsStrip, IndexOfName, W, E
    <2>3. CASE Len(bounds) <= 1
        BY <1>1, <1>3, <2>1, <2>3 DEF IsStrip, IndexOfName, W, E
    <2> QED
        BY <1>1, <2>2, <2>3
<1> QED
    BY <1>2, <1>3

\* x is in a strip, give or take H.
InStrip(x, zone) ==
    LET i == IndexOfName(zone) IN
    /\ i > 0 => x >= bounds[i] - H
    /\ i < Len(bounds) => x < bounds[i + 1] + H

\* The strip of a position encloses it, and a movement there stays in it.
LEMMA StripOfPosition ==
    TypeOK => \A x \in Int :
        LET zone == StripName(StripIndex(x)) IN
        /\ zone \in Zone /\ IsStrip(zone)
        /\ InStrip(x, zone) /\ RegionAfter(x, zone) = zone
<1> SUFFICES ASSUME TypeOK, NEW x \in Int
             PROVE  LET zone == StripName(StripIndex(x)) IN
                    /\ zone \in Zone /\ IsStrip(zone)
                    /\ InStrip(x, zone) /\ RegionAfter(x, zone) = zone
    OBVIOUS
<1> DEFINE k == StripIndex(x)  zone == StripName(k)
<1>1. bounds \in Seq(Int) /\ Increasing(bounds)
    BY MapIs
<1>2. k \in 0 .. Len(bounds) /\ (k > 0 => x >= bounds[k]) /\ (k < Len(bounds) => x < bounds[k + 1])
    BY <1>1, StripIndexIs
<1>3. Len(bounds) \in Nat /\ \A i \in 1 .. Len(bounds) : bounds[i] \in Int
    BY <1>1
<1> HIDE DEF k
<1>4. zone \in Zone /\ IsStrip(zone) /\ IndexOfName(zone) = k
    BY <1>2, StripNames
<1> HIDE DEF zone
<1>5. (k > 0 => k \in 1 .. Len(bounds)) /\ (k < Len(bounds) => k + 1 \in 1 .. Len(bounds))
    BY <1>2, <1>3
<1>6. InStrip(x, zone)
    BY <1>2, <1>3, <1>4, <1>5 DEF InStrip, H
<1>7. RegionAfter(x, zone) = zone
    BY <1>2, <1>3, <1>4, <1>5 DEF RegionAfter, H
<1> QED
    BY <1>4, <1>6, <1>7 DEF zone, k

\* The same for the strip after a movement.
LEMMA StripAfter ==
    TypeOK => \A x \in Int, old \in Zone :
        LET zone == RegionAfter(x, old) IN
        IsStrip(old) => /\ zone \in Zone /\ IsStrip(zone)
                        /\ InStrip(x, zone) /\ RegionAfter(x, zone) = zone
<1> SUFFICES ASSUME TypeOK, NEW x \in Int, NEW old \in Zone, IsStrip(old)
             PROVE  LET zone == RegionAfter(x, old) IN
                    /\ zone \in Zone /\ IsStrip(zone)
                    /\ InStrip(x, zone) /\ RegionAfter(x, zone) = zone
    OBVIOUS
<1>1. CASE RegionAfter(x, old) = StripName(StripIndex(x))
    BY <1>1, StripOfPosition
<1>2. CASE RegionAfter(x, old) = old /\ RegionAfter(x, old) # StripName(StripIndex(x))
    <2> DEFINE i == IndexOfName(old)
    <2>1. i \in 0 .. Len(bounds)
        BY StripNames
    <2>2. /\ ~(i < Len(bounds) /\ x >= bounds[i + 1] + H)
          /\ ~(i > 0 /\ x < bounds[i] - H)
        BY <1>2 DEF RegionAfter
    <2>3. Len(bounds) \in Nat /\ \A j \in 1 .. Len(bounds) : bounds[j] \in Int
        BY MapIs
    <2>4. InStrip(x, old)
        <3>1. i > 0 => i \in 1 .. Len(bounds)
            BY <2>1, <2>3
        <3>2. i < Len(bounds) => i + 1 \in 1 .. Len(bounds)
            BY <2>1, <2>3
        <3> QED
            BY <2>1, <2>2, <2>3, <3>1, <3>2 DEF InStrip, H
    <2> QED
        BY <1>2, <2>4
<1> QED
    BY <1>1, <1>2 DEF RegionAfter

\* Multiples of a positive number.
LEMMA Multiples ==
    ASSUME NEW c \in Nat \ {0}, NEW a \in Int, NEW b \in Int
    PROVE  /\ a * c \in Int /\ (a + 1) * c = a * c + c
           /\ a <= b <=> a * c <= b * c
<1>1. a * c \in Int /\ b * c \in Int /\ (a + 1) * c = a * c + c
    OBVIOUS
<1>2. b * c - a * c = (b - a) * c
    OBVIOUS
<1>3. \A k \in Nat : k * c >= 0
    OBVIOUS
<1>4. \A k \in Nat \ {0} : k * c > 0
    OBVIOUS
<1>5. CASE a <= b
    <2>1. b - a \in Nat
        BY <1>5
    <2> QED
        BY <1>1, <1>2, <1>3, <1>5, <2>1
<1>6. CASE a > b
    <2>1. a - b \in Nat \ {0} /\ a * c - b * c = (a - b) * c
        BY <1>6
    <2> QED
        BY <1>1, <1>4, <1>6, <2>1
<1> QED
    BY <1>1, <1>5, <1>6

\* x is in the i-th cell of n, give or take H, and a movement there stays in it.
CellHolds(x, i, n) ==
    i \in Nat /\ i \in 0 .. n - 1 /\ InCell(x, i, n) /\ HystereticCell(x, i, n) = i

\* So is a position in its cell, and in the one after a movement.
LEMMA CellOfPosition ==
    TypeOK /\ conf.grid => \A x \in Int, n \in Nat \ {0} :
        /\ CellHolds(x, Clamp(x \div conf.cell, n), n)
        /\ \A i \in Nat : CellHolds(x, HystereticCell(x, i, n), n)
<1> SUFFICES ASSUME TypeOK, conf.grid, NEW x \in Int, NEW n \in Nat \ {0}
             PROVE  /\ CellHolds(x, Clamp(x \div conf.cell, n), n)
                    /\ \A i \in Nat : CellHolds(x, HystereticCell(x, i, n), n)
    OBVIOUS
<1> DEFINE c == conf.cell  q == x \div c  M(k) == k * c
<1>1. c \in Nat \ {0}
    BY DeploymentTypes DEF TypeOK
<1>2. q \in Int /\ M(q) <= x /\ x < M(q) + c
    <2> HIDE DEF c
    <2> QED
        BY <1>1
<1>3. /\ \A a \in Int : M(a) \in Int /\ M(a + 1) = M(a) + c
      /\ \A a, b \in Int : a <= b <=> M(a) <= M(b)
    <2> HIDE DEF c
    <2> QED
        BY <1>1, Multiples
<1>4. M(0) = 0
    BY <1>1
<1>5. ASSUME NEW i \in Nat
      PROVE  InCell(x, i, n) <=> /\ i = 0 \/ x >= M(i) - H
                                 /\ i = n - 1 \/ x < M(i + 1) + H
    BY Zenon DEF InCell
<1>10. ASSUME NEW i \in Nat
       PROVE  HystereticCell(x, i, n) =
                  IF x >= M(i + 1) + H \/ x < M(i) - H THEN Clamp(q, n) ELSE Clamp(i, n)
    BY Zenon DEF HystereticCell
<1> HIDE DEF M, q, c
<1>6. \A j \in 0 .. n - 1 : Clamp(j, n) = j /\ j \in Nat
    BY DEF Clamp
<1>7. InCell(x, Clamp(q, n), n) /\ Clamp(q, n) \in 0 .. n - 1
    <2>1. CASE q < 0
        <3>1. q + 1 <= 0 /\ q + 1 \in Int /\ Clamp(q, n) = 0 /\ 0 \in 0 .. n - 1
            BY <1>2, <2>1 DEF Clamp
        <3>2. M(0 + 1) = 0 + c
            BY <1>3, <1>4
        <3>3. M(q) + c <= 0 /\ M(q) \in Int
            <4>1. M(q + 1) <= M(0)
                BY <1>2, <1>3, <3>1
            <4> QED
                BY <1>2, <1>3, <1>4, <4>1
        <3> QED
            BY <1>1, <1>2, <1>5, <1>10, <3>1, <3>2, <3>3 DEF H
    <2>2. CASE q >= n
        <3>1. Clamp(q, n) = n - 1 /\ n - 1 \in 0 .. n - 1 /\ n - 1 \in Int /\ n - 1 <= q
            BY <1>2, <2>2 DEF Clamp
        <3>2. M(n - 1) <= M(q) /\ M(n - 1) \in Int /\ M(q) \in Int
            BY <1>2, <1>3, <3>1
        <3> QED
            BY <1>2, <1>5, <1>10, <3>1, <3>2 DEF H
    <2>3. CASE q \in 0 .. n - 1
        <3>1. Clamp(q, n) = q
            BY <1>6, <2>3
        <3>2. M(q) \in Int /\ M(q + 1) = M(q) + c
            BY <1>2, <1>3
        <3> QED
            BY <1>1, <1>2, <1>5, <1>10, <2>3, <3>1, <3>2 DEF H
    <2> QED
        BY <1>2, <2>1, <2>2, <2>3
<1>8. CellHolds(x, Clamp(q, n), n)
    BY <1>5, <1>10, <1>6, <1>7 DEF CellHolds
<1>9. ASSUME NEW i \in Nat PROVE CellHolds(x, HystereticCell(x, i, n), n)
    <2> DEFINE past == x >= M(i + 1) + H \/ x < M(i) - H
    <2>1. CASE past
        BY <1>5, <1>10, <1>8, <2>1
    <2>2. CASE ~past /\ i < n
        <3>1. M(i) \in Int /\ M(i + 1) \in Int /\ HystereticCell(x, i, n) = i
            BY <1>3, <1>5, <1>10, <1>6, <2>2
        <3>2. InCell(x, i, n)
            BY <1>5, <1>10, <2>2, <3>1 DEF H
        <3> QED
            BY <2>2, <3>1, <3>2 DEF CellHolds
    <2>3. CASE ~past /\ i >= n
        <3>1. HystereticCell(x, i, n) = n - 1 /\ n - 1 \in 0 .. n - 1 /\ n - 1 \in Nat
            BY <1>5, <1>10, <2>3 DEF Clamp
        <3>2. M(n - 1) <= M(i) /\ M(n - 1) \in Int /\ M(i) \in Int
            BY <1>3, <2>3
        <3>3. x >= M(n - 1) - H
            BY <2>3, <3>2 DEF H
        <3>4. InCell(x, n - 1, n)
            BY <1>5, <1>10, <3>1, <3>3
        <3>5. HystereticCell(x, n - 1, n) = n - 1
            <4>1. HystereticCell(x, n - 1, n) =
                      IF x >= M(n) + H \/ x < M(n - 1) - H THEN Clamp(q, n) ELSE Clamp(n - 1, n)
                <5>1. n - 1 + 1 = n
                    OBVIOUS
                <5> QED
                    BY <1>5, <1>10, <3>1, <5>1
            <4>2. x >= M(n) + H => Clamp(q, n) = n - 1
                <5> SUFFICES ASSUME x >= M(n) + H PROVE Clamp(q, n) = n - 1
                    OBVIOUS
                <5>1. q + 1 \in Int /\ M(q + 1) > x /\ M(q + 1) \in Int /\ M(n) \in Int
                    BY <1>2, <1>3
                <5>2. ~(M(q + 1) <= M(n))
                    BY <5>1 DEF H
                <5>3. ~(q + 1 <= n)
                    BY <1>3, <5>1, <5>2
                <5> QED
                    BY <1>2, <5>3 DEF Clamp
            <4> QED
                BY <1>6, <3>1, <3>2, <3>3, <4>1, <4>2 DEF H
        <3> QED
            BY <3>1, <3>4, <3>5 DEF CellHolds
    <2> QED
        BY <2>1, <2>2, <2>3
<1> QED
    BY <1>8, <1>9 DEF c, q

\* A movement to p out of a place that is settled stays there, and p is in it.
SettledAt(p, region) ==
    region \in Region /\ At(p, region) = region /\ Within(p, region) /\ InBand(p, region)

\* A zone that movements to p stay in, and the band of p in it.
LEMMA RefineSettles ==
    TypeOK /\ ~conf.grid => \A p \in Position, zone \in Zone :
        (IsStrip(zone) => InStrip(p[1], zone) /\ RegionAfter(p[1], zone) = zone)
            => SettledAt(p, Refine(zone, p[1]))
<1> SUFFICES ASSUME TypeOK, ~conf.grid, NEW p \in Position, NEW zone \in Zone,
                    IsStrip(zone) => InStrip(p[1], zone) /\ RegionAfter(p[1], zone) = zone
             PROVE  SettledAt(p, Refine(zone, p[1]))
    OBVIOUS
<1> DEFINE x == p[1]  band == IF zone \in Zones /\ x >= splits[zone][1] THEN 1 ELSE 0
<1>1. x \in Int
    BY DEF Position
<1>2. Refine(zone, x) = <<zone, band>>
    BY <1>1, RefineIs
<1>3. band \in {0, 1} /\ <<zone, band>> \in Region
    BY DEF Region
<1>4. At(p, <<zone, band>>) = <<zone, band>>
    BY <1>2 DEF At, MovementRegionAfter
<1>5. Within(p, <<zone, band>>)
    BY DEF Within, InStrip
<1>6. InBand(p, <<zone, band>>)
    <2>1. zone \in Zones => splits[zone][1] \in Int
        BY MapIs
    <2> QED
        BY <1>1, <2>1 DEF InBand
<1> QED
    BY <1>2, <1>3, <1>4, <1>5, <1>6 DEF SettledAt

\* A cell that movements to p stay in.
LEMMA CellSettles ==
    TypeOK /\ conf.grid => \A p \in Position, i, j \in Nat :
        CellHolds(p[1], i, conf.cols) /\ CellHolds(p[2], j, conf.rows)
            => SettledAt(p, <<Cell(i, j), 0>>)
<1> SUFFICES ASSUME TypeOK, conf.grid, NEW p \in Position, NEW i \in Nat, NEW j \in Nat,
                    CellHolds(p[1], i, conf.cols), CellHolds(p[2], j, conf.rows)
             PROVE  SettledAt(p, <<Cell(i, j), 0>>)
    OBVIOUS
<1>1. Cell(i, j) \in Zone /\ Cell(i, j)[1] = "cell" /\ Cell(i, j)[2] = i /\ Cell(i, j)[3] = j
    BY DEF Cell, Zone
<1>2. <<Cell(i, j), 0>> \in Region
    BY <1>1 DEF Region
<1>3. At(p, <<Cell(i, j), 0>>) = <<Cell(i, j), 0>>
    BY <1>1 DEF At, Region2DAfter, CellHolds
<1>4. Within(p, <<Cell(i, j), 0>>)
    BY <1>1 DEF Within, CellHolds
<1>5. InBand(p, <<Cell(i, j), 0>>)
    BY DEF InBand, TypeOK
<1> QED
    BY <1>2, <1>3, <1>4, <1>5 DEF SettledAt

\* The sizes of a grid.
LEMMA GridSizes == TypeOK /\ conf.grid => {conf.cols, conf.rows} \subseteq Nat \ {0}
BY DeploymentTypes DEF TypeOK

\* Where a movement leads is settled; it leads out of no zone without a place.
LEMMA AtSettles ==
    TypeOK => \A p \in Position, region \in Region :
        /\ SettledAt(p, At(p, region))
        /\ ~conf.grid /\ ~IsStrip(region[1]) => At(p, region)[1] = region[1]
        /\ ~conf.grid /\ At(p, region)[1] \notin Zones => At(p, region)[2] = 0
<1> SUFFICES ASSUME TypeOK, NEW p \in Position, NEW region \in Region
             PROVE  /\ SettledAt(p, At(p, region))
                    /\ ~conf.grid /\ ~IsStrip(region[1]) => At(p, region)[1] = region[1]
                    /\ ~conf.grid /\ At(p, region)[1] \notin Zones => At(p, region)[2] = 0
    OBVIOUS
<1>1. p[1] \in Int /\ p[2] \in Int /\ region[1] \in Zone
    BY DEF Position, Region
<1>2. CASE ~conf.grid
    <2> DEFINE zone == IF IsStrip(region[1]) THEN RegionAfter(p[1], region[1]) ELSE region[1]
    <2>1. At(p, region) = Refine(zone, p[1])
        BY <1>2 DEF At, MovementRegionAfter
    <2>2. /\ zone \in Zone
          /\ IsStrip(zone) => InStrip(p[1], zone) /\ RegionAfter(p[1], zone) = zone
        BY <1>1, StripAfter
    <2>3. ~IsStrip(region[1]) => zone = region[1]
        OBVIOUS
    <2> HIDE DEF zone
    <2>4. SettledAt(p, Refine(zone, p[1]))
        BY <1>2, <2>2, RefineSettles
    <2>5. Refine(zone, p[1])[1] = zone /\ (zone \notin Zones => Refine(zone, p[1])[2] = 0)
        BY <1>1, <2>2, RefineIs
    <2> QED
        BY <1>2, <2>1, <2>3, <2>4, <2>5
<1>3. CASE conf.grid
    <2>1. conf.cols \in Nat \ {0} /\ conf.rows \in Nat \ {0}
        BY <1>3, GridSizes
    <2>2. CASE region[1][1] = "cell"
        <3> DEFINE i == HystereticCell(p[1], region[1][2], conf.cols)
                   j == HystereticCell(p[2], region[1][3], conf.rows)
        <3>1. region[1][2] \in Nat /\ region[1][3] \in Nat
            BY <1>1 DEF Zone
        <3>2. CellHolds(p[1], i, conf.cols) /\ CellHolds(p[2], j, conf.rows)
            BY <1>1, <1>3, <2>1, <3>1, CellOfPosition
        <3>3. At(p, region) = <<Cell(i, j), 0>>
            BY <1>3, <2>2 DEF At, Region2DAfter
        <3> HIDE DEF i, j
        <3>4. i \in Nat /\ j \in Nat
            BY <3>2 DEF CellHolds
        <3> QED
            BY <1>3, <3>2, <3>3, <3>4, CellSettles
    <2>3. CASE region[1][1] # "cell"
        <3> DEFINE i == Clamp(p[1] \div conf.cell, conf.cols)
                   j == Clamp(p[2] \div conf.cell, conf.rows)
        <3>2. CellHolds(p[1], i, conf.cols) /\ CellHolds(p[2], j, conf.rows)
            BY <1>1, <1>3, <2>1, CellOfPosition
        <3>3. At(p, region) = <<Cell(i, j), 0>>
            BY <1>3, <2>3 DEF At, Region2DAfter, Region2D
        <3> HIDE DEF i, j
        <3>4. i \in Nat /\ j \in Nat
            BY <3>2 DEF CellHolds
        <3> QED
            BY <1>3, <3>2, <3>3, <3>4, CellSettles
    <2> QED
        BY <2>2, <2>3
<1> QED
    BY <1>2, <1>3

\* So is the region an entity is spawned in.
LEMMA SpawnSettles ==
    TypeOK => \A p \in Position :
        /\ conf.grid => SettledAt(p, Region2D(p))
        /\ ~conf.grid => \A requested \in Zone \cup {None} :
              SettledAt(p, SpawnRegion(p[1], requested))
<1> SUFFICES ASSUME TypeOK, NEW p \in Position
             PROVE  /\ conf.grid => SettledAt(p, Region2D(p))
                    /\ ~conf.grid => \A requested \in Zone \cup {None} :
                          SettledAt(p, SpawnRegion(p[1], requested))
    OBVIOUS
<1>1. p[1] \in Int /\ p[2] \in Int
    BY DEF Position
<1>2. ASSUME conf.grid PROVE SettledAt(p, Region2D(p))
    <2> DEFINE i == Clamp(p[1] \div conf.cell, conf.cols)
               j == Clamp(p[2] \div conf.cell, conf.rows)
    <2>1. conf.cols \in Nat \ {0} /\ conf.rows \in Nat \ {0}
        BY <1>2, GridSizes
    <2>2. CellHolds(p[1], i, conf.cols) /\ CellHolds(p[2], j, conf.rows)
        BY <1>1, <1>2, <2>1, CellOfPosition
    <2>3. Region2D(p) = <<Cell(i, j), 0>>
        BY DEF Region2D
    <2> HIDE DEF i, j
    <2>4. i \in Nat /\ j \in Nat
        BY <2>2 DEF CellHolds
    <2> QED
        BY <1>2, <2>2, <2>3, <2>4, CellSettles
<1>3. ASSUME ~conf.grid, NEW requested \in Zone \cup {None}
      PROVE  SettledAt(p, SpawnRegion(p[1], requested))
    <2>1. CASE requested # None /\ ~IsStrip(requested)
        BY <1>3, <2>1, RefineSettles DEF SpawnRegion
    <2>2. CASE ~(requested # None /\ ~IsStrip(requested))
        <3> DEFINE zone == StripName(StripIndex(p[1]))
        <3>1. zone \in Zone /\ InStrip(p[1], zone) /\ RegionAfter(p[1], zone) = zone
            BY <1>1, StripOfPosition
        <3>2. SpawnRegion(p[1], requested) = Refine(zone, p[1])
            BY <2>2, Zenon DEF SpawnRegion
        <3> HIDE DEF zone
        <3> QED
            BY <1>3, <3>1, <3>2, RefineSettles
    <2> QED
        BY <2>1, <2>2
<1> QED
    BY <1>2, <1>3

(***************************************************************************)
(* Staging hand-offs.                                                      *)
(***************************************************************************)
\* ents is ent, but for positions.
Repositioned(ents) ==
    /\ ents \in [Entities -> Placement \cup {None}]
    /\ \A e \in Entities : /\ Live(ents[e]) <=> Live(ent[e])
                           /\ Live(ent[e]) => /\ ents[e].region = ent[e].region
                                              /\ ents[e].owner = ent[e].owner

OneEach(q) == \A i, j \in DOMAIN q : q[i].eid = q[j].eid => i = j

\* The children that go with e.
Parts(q, ents, e, to, bad) ==
    {c \in Children(e) : ents[c].region # to} \ ({q[i].eid : i \in DOMAIN q} \cup bad)

\* What QueueLocal makes of q: nothing, or q with e and its children behind it.
Queued(q, r, ents, e, to, bad) ==
    /\ StagedOf(q, e) = {} /\ e \notin bad
    /\ Len(q) + 1 <= Len(r) /\ (\A i \in 1 .. Len(q) : r[i] = q[i])
    /\ r[Len(q) + 1] = Prepared(ents, e, to)
    /\ \A i \in Len(q) + 2 .. Len(r) :
          \E c \in Parts(q, ents, e, to, bad) : r[i] = Prepared(ents, c, to)
    /\ \A c \in Parts(q, ents, e, to, bad) :
          \E i \in Len(q) + 2 .. Len(r) : r[i] = Prepared(ents, c, to)

\* An owner of a region is a worker or nobody.
LEMMA OwnerType == TypeOK => \A region : OwnerOf(region) \in Owner
BY DEF TypeOK, OwnerOf, Owner

\* A prepared hand-off is one.
LEMMA PreparedType ==
    ASSUME TypeOK, NEW ents, Repositioned(ents), NEW e \in Entities, Live(ents[e]),
           NEW to \in Region
    PROVE  Prepared(ents, e, to) \in Handoffs /\ Prepared(ents, e, to).eid = e
<1>1. ents[e] \in Placement
    BY DEF Repositioned, Live
<1>2. ents[e].pos \in Position /\ ents[e].owner \in Owner
    BY <1>1 DEF Placement
<1>3. NextOwner(ents[e], OwnerOf(ents[e].region), OwnerOf(to)) \in Owner
    BY <1>2, OwnerType DEF NextOwner
<1> QED
    BY <1>2, <1>3 DEF Prepared, Handoffs

LEMMA QueueIs ==
    ASSUME TypeOK, NEW ents, Repositioned(ents), NEW q \in Seq(Handoffs),
           NEW e \in Entities, Live(ents[e]), NEW to \in Region, NEW bad
    PROVE  LET r == QueueLocal(q, ents, e, to, bad) IN
           /\ r \in Seq(Handoffs)
           /\ OneEach(q) => OneEach(r)
           /\ r = q \/ Queued(q, r, ents, e, to, bad)
           /\ StagedOf(q, e) = {} /\ e \notin bad => Queued(q, r, ents, e, to, bad)
<1> DEFINE r == QueueLocal(q, ents, e, to, bad)
           busy == {q[i].eid : i \in DOMAIN q}
           parts == Parts(q, ents, e, to, bad)
           staged == {Prepared(ents, c, to) : c \in parts}
           tail == SetToSeq(staged)
<1>1. e \in busy <=> StagedOf(q, e) # {}
    BY DEF StagedOf
<1>2. CASE e \in busy \cup bad
    <2>1. r = q
        BY <1>2 DEF QueueLocal
    <2> QED
        BY <1>1, <1>2, <2>1
<1>3. CASE e \notin busy \cup bad
    <2>1. r = Append(q, Prepared(ents, e, to)) \o tail
        BY <1>3 DEF QueueLocal, Parts
    <2>2. parts \subseteq Entities /\ \A c \in parts : Live(ents[c]) /\ c # e /\ c \notin busy
        <3>1. \A c \in Children(e) : c \in Entities /\ Parent[c] = e /\ Live(ent[c])
            BY DEF Children
        <3>2. e # None /\ (Parent[e] = e => Parent[Parent[e]] = None)
            BY PartitionBounds
        <3> QED
            BY <3>1, <3>2 DEF Parts, Repositioned
    <2>3. staged \subseteq Handoffs
        BY <2>2, PreparedType
    <2>4. IsFiniteSet(staged)
        <3>1. IsFiniteSet(parts)
            BY <2>2, PartitionBounds, FS_Subset
        <3>2. DEFINE f == [c \in parts |-> Prepared(ents, c, to)]
        <3>3. f \in Surjection(parts, staged)
            BY DEF Surjection
        <3> QED
            BY <3>1, <3>3, FS_Surjection
    <2> HIDE DEF staged
    <2>5. /\ tail \in Seq(staged)
          /\ \A x \in staged : \E i \in DOMAIN tail : tail[i] = x
          /\ \A i, j \in DOMAIN tail : tail[i] = tail[j] => i = j
        BY <2>4, SetToSeqIs
    <2> HIDE DEF tail
    <2>6. tail \in Seq(Handoffs)
        BY <2>3, <2>5
    <2> DEFINE head == Append(q, Prepared(ents, e, to))
    <2>7. Prepared(ents, e, to) \in Handoffs /\ Prepared(ents, e, to).eid = e
        BY PreparedType
    <2>8. /\ head \in Seq(Handoffs) /\ Len(head) = Len(q) + 1
          /\ head[Len(q) + 1] = Prepared(ents, e, to) /\ \A i \in 1 .. Len(q) : head[i] = q[i]
        BY <2>7
    <2> HIDE DEF head
    <2>9. /\ r \in Seq(Handoffs) /\ Len(r) = Len(head) + Len(tail)
          /\ \A i \in 1 .. Len(head) : r[i] = head[i]
          /\ \A i \in 1 .. Len(tail) : r[Len(head) + i] = tail[i]
        BY <2>1, <2>6, <2>8 DEF head
    <2> HIDE DEF r
    <2>10. Len(q) \in Nat /\ Len(tail) \in Nat /\ DOMAIN tail = 1 .. Len(tail)
           /\ DOMAIN q = 1 .. Len(q) /\ DOMAIN r = 1 .. Len(q) + 1 + Len(tail)
           /\ Len(r) = Len(q) + 1 + Len(tail)
        BY <2>6, <2>8, <2>9
    <2>11. /\ \A i \in 1 .. Len(q) : r[i] = q[i]
           /\ r[Len(q) + 1] = Prepared(ents, e, to)
           /\ \A i \in 1 .. Len(tail) : r[Len(q) + 1 + i] = tail[i]
        BY <2>8, <2>9, <2>10
    <2>12. ASSUME NEW i \in Len(q) + 2 .. Len(r)
           PROVE  i - (Len(q) + 1) \in 1 .. Len(tail) /\ r[i] = tail[i - (Len(q) + 1)]
        <3>1. i - (Len(q) + 1) \in 1 .. Len(tail) /\ i = Len(q) + 1 + (i - (Len(q) + 1))
            BY <2>10
        <3> QED
            BY <2>11, <3>1
    <2>13. \A i \in Len(q) + 2 .. Len(r) : \E c \in parts : r[i] = Prepared(ents, c, to)
        <3> SUFFICES ASSUME NEW i \in Len(q) + 2 .. Len(r)
                     PROVE  \E c \in parts : r[i] = Prepared(ents, c, to)
            OBVIOUS
        <3>1. r[i] \in staged
            BY <2>5, <2>10, <2>12
        <3> QED
            BY <3>1 DEF staged
    <2>14. \A c \in parts : \E i \in Len(q) + 2 .. Len(r) : r[i] = Prepared(ents, c, to)
        <3> SUFFICES ASSUME NEW c \in parts
                     PROVE  \E i \in Len(q) + 2 .. Len(r) : r[i] = Prepared(ents, c, to)
            OBVIOUS
        <3>1. Prepared(ents, c, to) \in staged
            BY DEF staged
        <3>2. PICK i \in DOMAIN tail : tail[i] = Prepared(ents, c, to)
            BY <2>5, <3>1
        <3>3. i \in 1 .. Len(tail) /\ Len(q) + 1 + i \in Len(q) + 2 .. Len(r)
            BY <2>10
        <3> QED
            BY <2>11, <3>2, <3>3
    <2>15. Queued(q, r, ents, e, to, bad)
        <3>1. Len(q) + 1 <= Len(r)
            BY <2>10
        <3> QED
            BY <1>1, <1>3, <2>11, <2>13, <2>14, <3>1 DEF Queued
    <2>16. ASSUME OneEach(q) PROVE OneEach(r)
        <3>1. \A c \in parts : Prepared(ents, c, to).eid = c
            BY DEF Prepared
        <3>2. \A i \in Len(q) + 2 .. Len(r) : r[i].eid \notin busy \cup {e}
            BY <2>2, <2>13, <3>1
        <3>3. \A i \in 1 .. Len(q) : r[i].eid \in busy
            BY <2>10, <2>11
        <3>4. r[Len(q) + 1].eid = e
            BY <2>7, <2>11
        <3>5. \A i, j \in Len(q) + 2 .. Len(r) : r[i].eid = r[j].eid => i = j
            <4> SUFFICES ASSUME NEW i \in Len(q) + 2 .. Len(r), NEW j \in Len(q) + 2 .. Len(r),
                                r[i].eid = r[j].eid
                         PROVE  i = j
                OBVIOUS
            <4>1. r[i] = r[j]
                BY <2>13, <3>1
            <4>2. /\ i - (Len(q) + 1) \in DOMAIN tail /\ r[i] = tail[i - (Len(q) + 1)]
                  /\ j - (Len(q) + 1) \in DOMAIN tail /\ r[j] = tail[j - (Len(q) + 1)]
                BY <2>10, <2>12
            <4> DEFINE a == i - (Len(q) + 1)
                       b == j - (Len(q) + 1)
            <4>4. a \in DOMAIN tail /\ b \in DOMAIN tail /\ tail[a] = tail[b]
                BY <4>1, <4>2
            <4>5. a = b
                <5> HIDE DEF a, b
                <5> QED
                    BY <2>5, <4>4
            <4>3. i - (Len(q) + 1) = j - (Len(q) + 1)
                BY <4>5
            <4> QED
                BY <2>10, <4>3
        <3>6. \A i, j \in 1 .. Len(q) : r[i].eid = r[j].eid => i = j
            BY <2>10, <2>11, <2>16 DEF OneEach
        <3>7. \A i \in DOMAIN r :
                  i \in 1 .. Len(q) \/ i = Len(q) + 1 \/ i \in Len(q) + 2 .. Len(r)
            BY <2>10
        <3> QED
            BY <1>3, <3>2, <3>3, <3>4, <3>5, <3>6, <3>7 DEF OneEach
    <2> QED
        BY <2>9, <2>15, <2>16 DEF r
<1> QED
    BY <1>2, <1>3

(***************************************************************************)
(* The flush.                                                              *)
(***************************************************************************)
\* e is where ents has it; e is where a staged hand-off takes it.
Stays(ents, next, e) == next[e].pos = ents[e].pos /\ next[e].region = ents[e].region
Goes(hs, next, e) ==
    \E i \in StagedOf(hs, e) : next[e].pos = hs[i].pos /\ next[e].region = hs[i].to

\* The hand-offs that are applied are staged.
LEMMA ApplyHandoffsIs ==
    ASSUME NEW ents \in [Entities -> Placement \cup {None}], NEW hs \in Seq(Handoffs)
    PROVE  LET next == ApplyHandoffs(ents, hs) IN
           /\ next \in [Entities -> Placement \cup {None}]
           /\ \A e \in Entities :
                 /\ Live(next[e]) <=> Live(ents[e])
                 /\ StagedOf(hs, e) = {} => next[e] = ents[e]
                 /\ Live(ents[e]) /\ StagedOf(hs, e) # {} =>
                       \E i \in StagedOf(hs, e) :
                           next[e] = [pos |-> hs[i].pos, region |-> hs[i].to, owner |-> hs[i].owner]
<1> DEFINE next == ApplyHandoffs(ents, hs)
<1>1. ASSUME NEW e \in Entities
      PROVE  /\ next[e] \in Placement \cup {None} /\ (Live(next[e]) <=> Live(ents[e]))
             /\ StagedOf(hs, e) = {} => next[e] = ents[e]
             /\ Live(ents[e]) /\ StagedOf(hs, e) # {} =>
                   \E i \in StagedOf(hs, e) :
                       next[e] = [pos |-> hs[i].pos, region |-> hs[i].to, owner |-> hs[i].owner]
    <2>1. CASE Live(ents[e]) /\ StagedOf(hs, e) # {}
        <3> DEFINE i == Max(StagedOf(hs, e))
                   p == [pos |-> hs[i].pos, region |-> hs[i].to, owner |-> hs[i].owner]
        <3>1. StagedOf(hs, e) \subseteq 1 .. Len(hs) /\ Len(hs) \in Nat
            BY DEF StagedOf
        <3>2. i \in StagedOf(hs, e)
            BY <2>1, <3>1, MaxIs
        <3>3. next[e] = p
            BY <2>1 DEF ApplyHandoffs
        <3> HIDE DEF i
        <3>4. hs[i] \in Handoffs
            BY <3>1, <3>2
        <3>5. p \in Placement
            BY <3>4 DEF Handoffs, Placement
        <3>6. p # None
            BY <3>5, PartitionBounds
        <3> QED
            BY <2>1, <3>2, <3>3, <3>5, <3>6 DEF Live
    <2>2. CASE ~(Live(ents[e]) /\ StagedOf(hs, e) # {})
        <3>1. next[e] = ents[e]
            BY <2>2 DEF ApplyHandoffs
        <3> QED
            BY <2>2, <3>1
    <2> QED
        BY <2>1, <2>2
<1>2. next \in [Entities -> Placement \cup {None}]
    BY <1>1 DEF ApplyHandoffs
<1> QED
    BY <1>1, <1>2

\* Staged grants are to workers.
LEMMA GrantedType ==
    TypeOK => \A i \in DOMAIN migrations : LET m == migrations[i] IN
        /\ m.to \in Workers /\ m.block \in DOMAIN regionWorker
        /\ DOMAIN m.grants \subseteq Entities /\ \A e \in DOMAIN m.grants : m.grants[e] \in Workers
<1> SUFFICES ASSUME TypeOK, NEW i \in DOMAIN migrations
             PROVE  /\ migrations[i].to \in Workers /\ migrations[i].block \in DOMAIN regionWorker
                    /\ DOMAIN migrations[i].grants \subseteq Entities
                    /\ \A e \in DOMAIN migrations[i].grants : migrations[i].grants[e] \in Workers
    OBVIOUS
<1>1. migrations[i] \in Migrations /\ migrations[i].block \in DOMAIN regionWorker
    BY DEF TypeOK
<1>2. PICK S \in SUBSET Entities : migrations[i].grants \in [S -> Workers]
    BY <1>1 DEF Migrations
<1> QED
    BY <1>1, <1>2 DEF Migrations

\* The grants that are applied are staged.
LEMMA ApplyMigrationsIs ==
    ASSUME TypeOK, NEW ents \in [Entities -> Placement \cup {None}]
    PROVE  LET next == ApplyMigrations(ents) IN
           /\ next \in [Entities -> Placement \cup {None}]
           /\ \A e \in Entities :
                 /\ Live(next[e]) <=> Live(ents[e])
                 /\ Granting(e) = {} => next[e] = ents[e]
                 /\ Live(ents[e]) => Stays(ents, next, e)
                 /\ Live(ents[e]) /\ Granting(e) # {} =>
                       \E i \in Granting(e) : next[e].owner = migrations[i].grants[e]
<1> DEFINE next == ApplyMigrations(ents)
<1>1. ASSUME NEW e \in Entities
      PROVE  /\ next[e] \in Placement \cup {None} /\ (Live(next[e]) <=> Live(ents[e]))
             /\ Granting(e) = {} => next[e] = ents[e]
             /\ Live(ents[e]) => Stays(ents, next, e)
             /\ Live(ents[e]) /\ Granting(e) # {} =>
                   \E i \in Granting(e) : next[e].owner = migrations[i].grants[e]
    <2>1. CASE Live(ents[e]) /\ Granting(e) # {}
        <3> DEFINE i == Max(Granting(e))  w == migrations[i].grants[e]
        <3>1. Granting(e) \subseteq 1 .. Len(migrations) /\ Len(migrations) \in Nat
            BY DEF Granting, TypeOK
        <3>2. i \in Granting(e)
            BY <2>1, <3>1, MaxIs
        <3>3. next[e] = [ents[e] EXCEPT !.owner = w]
            BY <2>1 DEF ApplyMigrations
        <3> HIDE DEF i
        <3>4. w \in Workers
            BY <3>2, GrantedType DEF Granting
        <3>5. ents[e] \in Placement
            BY <2>1 DEF Live
        <3> HIDE DEF w, next
        <3>6. /\ next[e] \in Placement /\ next[e].owner = w
              /\ next[e].pos = ents[e].pos /\ next[e].region = ents[e].region
            BY <3>3, <3>4, <3>5 DEF Placement, Owner
        <3>7. next[e] # None
            BY <3>6, PartitionBounds
        <3> QED
            BY <2>1, <3>2, <3>6, <3>7 DEF Live, Stays, w, next
    <2>2. CASE ~(Live(ents[e]) /\ Granting(e) # {})
        <3>1. next[e] = ents[e]
            BY <2>2 DEF ApplyMigrations
        <3> QED
            BY <2>2, <3>1 DEF Stays
    <2> QED
        BY <2>1, <2>2
<1>2. next \in [Entities -> Placement \cup {None}]
    BY <1>1 DEF ApplyMigrations
<1> QED
    BY <1>1, <1>2

\* The blocks that are applied change hands, and have a worker before and after.
LEMMA MovedWorkersIs ==
    TypeOK => /\ MovedWorkers \in [DOMAIN regionWorker -> Workers]
              /\ \A region \in DOMAIN regionWorker :
                    /\ Moving(region) = {} => MovedWorkers[region] = regionWorker[region]
                    /\ Moving(region) # {} => \E i \in Moving(region) :
                          MovedWorkers[region] = migrations[i].to
<1> SUFFICES ASSUME TypeOK
             PROVE  /\ MovedWorkers \in [DOMAIN regionWorker -> Workers]
                    /\ \A region \in DOMAIN regionWorker :
                          /\ Moving(region) = {} => MovedWorkers[region] = regionWorker[region]
                          /\ Moving(region) # {} => \E i \in Moving(region) :
                                MovedWorkers[region] = migrations[i].to
    OBVIOUS
<1>1. ASSUME NEW region \in DOMAIN regionWorker
      PROVE  /\ MovedWorkers[region] \in Workers
             /\ Moving(region) = {} => MovedWorkers[region] = regionWorker[region]
             /\ Moving(region) # {} => \E i \in Moving(region) :
                   MovedWorkers[region] = migrations[i].to
    <2>1. CASE Moving(region) = {}
        <3>1. MovedWorkers[region] = regionWorker[region]
            BY <2>1 DEF MovedWorkers
        <3> QED
            BY <2>1, <3>1 DEF TypeOK
    <2>2. CASE Moving(region) # {}
        <3> DEFINE i == Max(Moving(region))
        <3>1. Moving(region) \subseteq 1 .. Len(migrations) /\ Len(migrations) \in Nat
            BY DEF Moving, TypeOK
        <3>2. i \in Moving(region)
            BY <2>2, <3>1, MaxIs
        <3>3. MovedWorkers[region] = migrations[i].to
            BY <2>2 DEF MovedWorkers
        <3> HIDE DEF i
        <3>4. migrations[i].to \in Workers
            BY <3>2, GrantedType DEF Moving
        <3> QED
            BY <2>2, <3>2, <3>3, <3>4
    <2> QED
        BY <2>1, <2>2
<1> QED
    BY <1>1 DEF MovedWorkers

\* What a flush does, if the barriers of the hand-offs and of the blocks hold or not.
Flushed(ents, hs, held, moved) ==
    /\ ent' \in [Entities -> Placement \cup {None}]
    /\ departed' \in [Entities -> Departure \cup {None}]
    /\ handoffs' = (IF held THEN <<>> ELSE hs) /\ remote' = {} /\ migrations' = <<>>
    /\ regionWorker' = IF moved THEN MovedWorkers ELSE regionWorker
    /\ raced' = IF migrations = <<>> THEN raced ELSE raced \cup {hs[i].eid : i \in DOMAIN hs}
FlushedOne(ents, hs, held, moved, e) ==
    /\ Live(ent'[e]) =>
          /\ Live(ents[e])
          /\ IF held /\ StagedOf(hs, e) # {} THEN Goes(hs, ent', e) ELSE Stays(ents, ent', e)
          /\ moved /\ Granting(e) # {} =>
                \E i \in Granting(e) : ent'[e].owner = migrations[i].grants[e]
          /\ ~(moved /\ Granting(e) # {}) =>
                IF held /\ StagedOf(hs, e) # {}
                THEN \E i \in StagedOf(hs, e) : ent'[e].owner = hs[i].owner
                ELSE ent'[e].owner = ents[e].owner
    /\ Live(ents[e]) /\ ~Live(ent'[e]) => departed'[e] # None
    /\ departed'[e] = departed[e] \/ (departed'[e] # None /\ departed'[e].belonged)

LEMMA FlushIs ==
    ASSUME TypeOK, NEW ents \in [Entities -> Placement \cup {None}], NEW hs \in Seq(Handoffs),
           NEW rs, rs \subseteq Entities \X Region, NEW bad, Flush(ents, hs, rs, bad)
    PROVE  \E held, moved \in BOOLEAN :
               /\ Flushed(ents, hs, held, moved)
               /\ \A e \in Entities : FlushedOne(ents, hs, held, moved, e)
<1> DEFINE Local(held) == IF held THEN ApplyHandoffs(ents, hs) ELSE ents
           All(held, moved) == IF moved THEN ApplyMigrations(Local(held)) ELSE Local(held)
           Gone(leaving) == {r[1] : r \in leaving}
           To(leaving, e) == (CHOOSE r \in leaving : r[1] = e)[2]
<1> DEFINE Effect(held, moved, leaving) ==
              /\ ent' = [e \in Entities |-> IF e \in Gone(leaving) THEN None
                                                            ELSE All(held, moved)[e]]
              /\ departed' = [e \in Entities |->
                    IF e \in Gone(leaving)
                    THEN [to |-> To(leaving, e),
                          belonged |-> Within(All(held, moved)[e].pos, To(leaving, e))]
                    ELSE departed[e]]
              /\ handoffs' = IF held THEN <<>> ELSE hs
              /\ remote' = {} /\ migrations' = <<>>
              /\ regionWorker' = IF moved THEN MovedWorkers ELSE regionWorker
              /\ raced' = IF migrations = <<>> THEN raced
                          ELSE raced \cup {hs[i].eid : i \in DOMAIN hs}
<1>1. PICK held \in BOOLEAN, moved \in BOOLEAN :
          \E leaving \in SUBSET {r \in rs : TargetStillCurrent(All(held, moved), r)} :
              Effect(held, moved, leaving)
    <2>1. \E held \in (IF hs = <<>> THEN {TRUE} ELSE BOOLEAN),
             moved \in (IF migrations = <<>> THEN {TRUE} ELSE BOOLEAN) :
          \E leaving \in SUBSET {r \in rs : TargetStillCurrent(All(held, moved), r)} :
              Effect(held, moved, leaving)
        BY Zenon DEF Flush
    <2>2. /\ (IF hs = <<>> THEN {TRUE} ELSE BOOLEAN) \subseteq BOOLEAN
          /\ (IF migrations = <<>> THEN {TRUE} ELSE BOOLEAN) \subseteq BOOLEAN
        OBVIOUS
    <2> HIDE DEF Effect, All
    <2> QED
        BY <2>1, <2>2, Zenon
<1> DEFINE local == Local(held)  all == All(held, moved)
<1>2. PICK leaving \in SUBSET {r \in rs : TargetStillCurrent(all, r)} :
          Effect(held, moved, leaving)
    BY <1>1
<1>8. /\ ent' = [e \in Entities |-> IF e \in Gone(leaving) THEN None ELSE all[e]]
      /\ departed' = [e \in Entities |->
            IF e \in Gone(leaving)
            THEN [to |-> To(leaving, e), belonged |-> Within(all[e].pos, To(leaving, e))]
            ELSE departed[e]]
      /\ handoffs' = IF held THEN <<>> ELSE hs
      /\ remote' = {} /\ migrations' = <<>>
      /\ regionWorker' = IF moved THEN MovedWorkers ELSE regionWorker
      /\ raced' = IF migrations = <<>> THEN raced ELSE raced \cup {hs[i].eid : i \in DOMAIN hs}
    BY <1>2
<1> HIDE DEF Effect
<1>3. /\ local \in [Entities -> Placement \cup {None}]
      /\ \A e \in Entities :
            /\ Live(local[e]) <=> Live(ents[e])
            /\ ~(held /\ StagedOf(hs, e) # {}) => local[e] = ents[e]
            /\ Live(ents[e]) /\ held /\ StagedOf(hs, e) # {} =>
                  \E i \in StagedOf(hs, e) :
                      local[e] = [pos |-> hs[i].pos, region |-> hs[i].to, owner |-> hs[i].owner]
    <2>1. CASE held
        BY <2>1, ApplyHandoffsIs
    <2>2. CASE ~held
        BY <2>2
    <2> QED
        BY <2>1, <2>2
<1> HIDE DEF local
<1>4. /\ all \in [Entities -> Placement \cup {None}]
      /\ \A e \in Entities :
            /\ Live(all[e]) <=> Live(local[e])
            /\ ~(moved /\ Granting(e) # {}) => all[e] = local[e]
            /\ Live(local[e]) => Stays(local, all, e)
            /\ Live(local[e]) /\ moved /\ Granting(e) # {} =>
                  \E i \in Granting(e) : all[e].owner = migrations[i].grants[e]
    <2>1. CASE moved
        <3>1. all = ApplyMigrations(local)
            BY <2>1 DEF local
        <3> QED
            BY <1>3, <2>1, <3>1, ApplyMigrationsIs
    <2>2. CASE ~moved
        <3>1. all = local
            BY <2>2 DEF local
        <3> QED
            BY <1>3, <2>2, <3>1 DEF Stays
    <2> QED
        BY <2>1, <2>2
<1> HIDE DEF all
<1>5. ASSUME NEW e \in Entities, e \in Gone(leaving)
      PROVE  LET d == [to |-> To(leaving, e), belonged |-> Within(all[e].pos, To(leaving, e))]
             IN  d \in Departure /\ d.belonged
    <2> DEFINE r == CHOOSE r \in leaving : r[1] = e
    <2>1. r \in leaving /\ r[1] = e
        BY <1>5
    <2> HIDE DEF r
    <2>2. r[2] \in Region /\ TargetStillCurrent(all, r)
        BY <2>1
    <2>3. Live(all[e]) /\ RegionOf(all[e]) = r[2]
        BY <2>1, <2>2 DEF TargetStillCurrent
    <2>4. all[e] \in Placement
        BY <1>4, <2>3 DEF Live
    <2>5. all[e].pos \in Position /\ all[e].region \in Region
        BY <2>4 DEF Placement
    <2>6. At(all[e].pos, all[e].region) = r[2]
        BY <2>3 DEF At, RegionOf
    <2>7. Within(all[e].pos, r[2])
        BY <2>5, <2>6, AtSettles DEF SettledAt
    <2>8. To(leaving, e) = r[2]
        BY DEF r
    <2>9. Within(all[e].pos, r[2]) = TRUE
        BY <2>7 DEF Within, InCell
    <2> QED
        BY <2>2, <2>7, <2>8, <2>9 DEF Departure
<1>6. Flushed(ents, hs, held, moved)
    <2>1. ent' \in [Entities -> Placement \cup {None}]
        BY <1>8, <1>4
    <2>2. departed' \in [Entities -> Departure \cup {None}]
        <3> HIDE DEF To, Gone
        <3>1. departed \in [Entities -> Departure \cup {None}]
            BY DEF TypeOK
        <3> QED
            BY <1>8, <1>5, <3>1
    <2> QED
        BY <1>8, <2>1, <2>2 DEF Flushed
<1>7. ASSUME NEW e \in Entities PROVE FlushedOne(ents, hs, held, moved, e)
    <2>1. CASE e \in Gone(leaving)
        <3> HIDE DEF To, Gone
        <3>1. ent'[e] = None /\ departed'[e] \in Departure /\ departed'[e].belonged
            BY <1>8, <1>5, <2>1
        <3> QED
            BY <3>1, PartitionBounds DEF FlushedOne, Live
    <2>2. CASE e \notin Gone(leaving)
        <3> HIDE DEF To, Gone
        <3>1. ent'[e] = all[e] /\ departed'[e] = departed[e]
            BY <1>8, <2>2
        <3>2. (Live(ent'[e]) <=> Live(ents[e])) /\ (Live(ents[e]) => Live(local[e]))
            BY <1>3, <1>4, <3>1
        <3>3. ASSUME Live(ents[e])
              PROVE  /\ IF held /\ StagedOf(hs, e) # {} THEN Goes(hs, ent', e) ELSE Stays(ents, ent', e)
                     /\ moved /\ Granting(e) # {} =>
                           \E i \in Granting(e) : ent'[e].owner = migrations[i].grants[e]
                     /\ ~(moved /\ Granting(e) # {}) =>
                           IF held /\ StagedOf(hs, e) # {}
                           THEN \E i \in StagedOf(hs, e) : ent'[e].owner = hs[i].owner
                           ELSE ent'[e].owner = ents[e].owner
            <4>1. Live(local[e]) /\ Stays(local, all, e)
                BY <1>3, <1>4, <3>3
            <4>2. CASE held /\ StagedOf(hs, e) # {}
                <5>1. PICK i \in StagedOf(hs, e) :
                          local[e] = [pos |-> hs[i].pos, region |-> hs[i].to, owner |-> hs[i].owner]
                    BY <1>3, <3>3, <4>2
                <5>2. Goes(hs, ent', e)
                    BY <3>1, <4>1, <5>1 DEF Goes, Stays
                <5> QED
                    BY <1>4, <3>1, <4>1, <4>2, <5>1, <5>2
            <4>3. CASE ~(held /\ StagedOf(hs, e) # {})
                <5>1. local[e] = ents[e]
                    BY <1>3, <4>3
                <5>2. Stays(ents, ent', e)
                    BY <3>1, <4>1, <5>1 DEF Stays
                <5> QED
                    BY <1>4, <3>1, <4>1, <4>3, <5>1, <5>2
            <4> QED
                BY <4>2, <4>3
        <3> QED
            BY <3>1, <3>2, <3>3 DEF FlushedOne
    <2> QED
        BY <2>1, <2>2
<1> QED
    BY <1>6, <1>7

(***************************************************************************)
(* What the actions do.                                                    *)
(***************************************************************************)
\* The staged hand-offs hs, and those deferred, after those of e (if any) to a
\* region were added; the first if the region is here and it could be.
Added(ents, e, to, bad, hs) ==
    /\ hs \in Seq(Handoffs) /\ (OneEach(handoffs) => OneEach(hs))
    /\ hs = handoffs \/ Queued(handoffs, hs, ents, e, to, bad)
    /\ ~IsRemote(to) /\ ~Staged(e) /\ e \notin bad => Queued(handoffs, hs, ents, e, to, bad)

LEMMA HandoffIs ==
    ASSUME TypeOK, NEW ents, Repositioned(ents), NEW e \in Entities, Live(ents[e]),
           NEW to \in Region, NEW bad
    PROVE  LET s == Handoff([handoffs |-> handoffs, remote |-> remote], ents, e, to, bad) IN
           s.remote \subseteq Entities \X Region /\ Added(ents, e, to, bad, s.handoffs)
<1> DEFINE s0 == [handoffs |-> handoffs, remote |-> remote]
           s == Handoff(s0, ents, e, to, bad)
           r == QueueLocal(handoffs, ents, e, to, bad)
<1>1. handoffs \in Seq(Handoffs) /\ remote \subseteq Entities \X Region
    BY DEF TypeOK
<1>2. /\ r \in Seq(Handoffs) /\ (OneEach(handoffs) => OneEach(r))
      /\ r = handoffs \/ Queued(handoffs, r, ents, e, to, bad)
      /\ StagedOf(handoffs, e) = {} /\ e \notin bad => Queued(handoffs, r, ents, e, to, bad)
    BY <1>1, QueueIs
<1>3. Staged(e) <=> StagedOf(handoffs, e) # {}
    BY DEF Staged, StagedOf
<1>4. CASE IsRemote(to)
    <2>1. s.handoffs = handoffs /\ s.remote = {x \in remote : x[1] # e} \cup {<<e, to>>}
        BY <1>4 DEF Handoff
    <2> QED
        BY <1>1, <1>4, <2>1 DEF Added
<1>5. CASE ~IsRemote(to)
    <2>1. s.handoffs = r /\ s.remote = remote
        BY <1>5 DEF Handoff
    <2>2. Added(ents, e, to, bad, r)
        <3> HIDE DEF r
        <3> QED
            BY <1>2, <1>3, <1>5 DEF Added
    <2> QED
        BY <1>1, <2>1, <2>2
<1> QED
    BY <1>4, <1>5

\* A movement: of a root that changes region, its hand-off is added; then the flush.
Moved(e, p) == [ent EXCEPT ![e].pos = p]
Zoned(e, p) == Parent[e] = None /\ RegionOf(Moved(e, p)[e]) # ent[e].region

LEMMA MovedIs ==
    ASSUME TypeOK, NEW e \in Entities, Live(ent[e]), NEW p \in Position
    PROVE  /\ Repositioned(Moved(e, p)) /\ Live(Moved(e, p)[e]) /\ Moved(e, p)[e].pos = p
           /\ RegionOf(Moved(e, p)[e]) = At(p, ent[e].region)
           /\ At(p, ent[e].region) \in Region
           /\ \A x \in Entities \ {e} : Moved(e, p)[x] = ent[x]
<1>1. ent \in [Entities -> Placement \cup {None}] /\ ent[e] \in Placement
    BY DEF TypeOK, Live
<1> DEFINE m == Moved(e, p)
<1>2. m \in [Entities -> Placement \cup {None}] /\ m[e] = [ent[e] EXCEPT !.pos = p]
    BY <1>1 DEF Placement, Moved
<1>3. m[e].pos = p /\ m[e].region = ent[e].region /\ m[e].owner = ent[e].owner /\ m[e] \in Placement
    BY <1>1, <1>2 DEF Placement
<1>4. \A x \in Entities \ {e} : m[x] = ent[x]
    BY <1>1 DEF Moved
<1>5. Live(m[e])
    BY <1>3, PartitionBounds DEF Live
<1>6. RegionOf(m[e]) = At(p, ent[e].region)
    BY <1>3 DEF RegionOf, At
<1>7. ent[e].region \in Region
    BY <1>1 DEF Placement
<1>8. At(p, ent[e].region) \in Region
    BY <1>7, AtSettles DEF SettledAt
<1> HIDE DEF m
<1>9. Repositioned(m)
    BY <1>2, <1>3, <1>4, <1>5 DEF Repositioned
<1> QED
    BY <1>3, <1>4, <1>5, <1>6, <1>8, <1>9 DEF m

LEMMA MoveIs ==
    ASSUME TypeOK, NEW e \in Entities, NEW p \in conf.spots, NEW bad, Move(e, p, bad)
    PROVE  LET ents == Moved(e, p)
               to == At(p, ent[e].region)
               zoned == Parent[e] = None /\ to # ent[e].region
           IN  /\ Live(ent[e]) /\ p \in Position
               /\ bad # {} => zoned /\ ~Staged(e)
               /\ \E hs, held, moved :
                     /\ held \in BOOLEAN /\ moved \in BOOLEAN
                     /\ hs \in Seq(Handoffs) /\ (OneEach(handoffs) => OneEach(hs))
                     /\ IF zoned THEN Added(ents, e, to, bad, hs) ELSE hs = handoffs
                     /\ Flushed(ents, hs, held, moved)
                     /\ \A x \in Entities : FlushedOne(ents, hs, held, moved, x)
<1> DEFINE ents == Moved(e, p)  to == At(p, ent[e].region)
           s0 == [handoffs |-> handoffs, remote |-> remote]
           zoned == Parent[e] = None /\ to # ent[e].region
           s == IF zoned THEN Handoff(s0, ents, e, to, bad) ELSE s0
<1>1. Live(ent[e]) /\ p \in Position
    BY DeploymentTypes DEF Move, TypeOK
<1>2. /\ Repositioned(ents) /\ Live(ents[e]) /\ to \in Region
      /\ RegionOf(ents[e]) = to /\ ents[e].region = ent[e].region
    BY <1>1, MovedIs DEF Repositioned
<1>3. LET t == RegionOf(ents[e])
          z == Parent[e] = None /\ t # ent[e].region
          h == IF z THEN Handoff(s0, ents, e, t, bad) ELSE s0
      IN  (bad # {} => z /\ ~Staged(e)) /\ Flush(ents, h.handoffs, h.remote, bad)
    BY Zenon DEF Move, Moved
<1> HIDE DEF ents, to
<1>4. (bad # {} => zoned /\ ~Staged(e)) /\ Flush(ents, s.handoffs, s.remote, bad)
    BY <1>2, <1>3
<1>5. /\ s.remote \subseteq Entities \X Region /\ s.handoffs \in Seq(Handoffs)
      /\ OneEach(handoffs) => OneEach(s.handoffs)
      /\ IF zoned THEN Added(ents, e, to, bad, s.handoffs) ELSE s.handoffs = handoffs
    <2>1. CASE zoned
        <3>1. s = Handoff(s0, ents, e, to, bad)
            BY <2>1
        <3>2. s.remote \subseteq Entities \X Region /\ Added(ents, e, to, bad, s.handoffs)
            BY <1>2, <3>1, HandoffIs
        <3> HIDE DEF s
        <3> QED
            BY <2>1, <3>2 DEF Added
    <2>2. CASE ~zoned
        <3>1. s = s0
            BY <2>2
        <3> QED
            BY <2>2, <3>1 DEF TypeOK
    <2> QED
        BY <2>1, <2>2
<1> DEFINE hs == s.handoffs
<1>6. \E held, moved \in BOOLEAN : /\ Flushed(ents, hs, held, moved)
                                   /\ \A x \in Entities : FlushedOne(ents, hs, held, moved, x)
    <2> HIDE DEF s
    <2>1. ents \in [Entities -> Placement \cup {None}]
        BY <1>2 DEF Repositioned
    <2> QED
        BY <1>4, <1>5, <2>1, FlushIs
<1> HIDE DEF s
<1>7. \E h, held, moved :
          /\ held \in BOOLEAN /\ moved \in BOOLEAN
          /\ h \in Seq(Handoffs) /\ (OneEach(handoffs) => OneEach(h))
          /\ IF zoned THEN Added(ents, e, to, bad, h) ELSE h = handoffs
          /\ Flushed(ents, h, held, moved)
          /\ \A x \in Entities : FlushedOne(ents, h, held, moved, x)
    BY <1>5, <1>6
<1> QED
    BY <1>1, <1>4, <1>7 DEF ents, to

LEMMA TickIs ==
    ASSUME TypeOK, Tick
    PROVE  \E held, moved \in BOOLEAN :
              /\ Flushed(ent, handoffs, held, moved)
              /\ \A x \in Entities : FlushedOne(ent, handoffs, held, moved, x)
<1>1. Flush(ent, handoffs, remote, {})
    BY DEF Tick
<1>2. /\ ent \in [Entities -> Placement \cup {None}] /\ handoffs \in Seq(Handoffs)
      /\ remote \subseteq Entities \X Region
    BY DEF TypeOK
<1> QED
    BY <1>1, <1>2, FlushIs

(***************************************************************************)
(* Types.                                                                  *)
(***************************************************************************)
\* The part of TypeOK that is about the map.
MapOK == IsMap(CurrentMap) /\ IsMap(logged)

LEMMA MapKept ==
    ASSUME TypeOK, UNCHANGED <<bounds, splits, rev, logged>>
    PROVE  MapOK'
<1>1. CurrentMap' = CurrentMap
    BY DEF CurrentMap
<1>2. IsMap(CurrentMap') /\ IsMap(logged')
    BY <1>1 DEF TypeOK
<1> QED
    BY <1>2 DEF MapOK

LEMMA FlushType ==
    ASSUME TypeOK, NEW ents, NEW hs \in Seq(Handoffs), NEW held \in BOOLEAN, NEW moved \in BOOLEAN,
           Flushed(ents, hs, held, moved), UNCHANGED <<conf, topology, standbys, job>>
    PROVE  TypeOK'
<1>1. MapOK'
    BY MapKept DEF topology
<1>2. /\ DOMAIN regionWorker' = DOMAIN regionWorker
      /\ regionWorker' \in [DOMAIN regionWorker' -> Workers]
    <2>1. regionWorker' = MovedWorkers \/ regionWorker' = regionWorker
        BY DEF Flushed
    <2>2. MovedWorkers \in [DOMAIN regionWorker -> Workers]
        BY MovedWorkersIs
    <2>3. regionWorker \in [DOMAIN regionWorker -> Workers]
        BY DEF TypeOK
    <2> QED
        BY <2>1, <2>2, <2>3
<1>3. handoffs' \in Seq(Handoffs)
    BY DEF Flushed
<1>4. migrations' = <<>> /\ DOMAIN migrations' = {}
    BY DEF Flushed
<1>5. Zones' = Zones
    BY DEF Zones, topology
<1> QED
    BY <1>1, <1>2, <1>3, <1>4, <1>5 DEF TypeOK, Flushed, MapOK, topology

LEMMA InitType == Init => TypeOK
<1> SUFFICES ASSUME Init PROVE TypeOK
    OBVIOUS
<1>1. conf \in Deployments /\ conf.bounds \in Seq(Int) /\ Increasing(conf.bounds)
    BY DeploymentTypes DEF Init
<1>2. /\ DOMAIN conf.owners \subseteq Region /\ conf.owners \in [DOMAIN conf.owners -> Workers]
      /\ conf.standbys \in Seq(Workers)
    BY <1>1, DeploymentTypes
<1>3. DOMAIN splits = {}
    BY DEF Init
<1>4. IsMap(CurrentMap) /\ logged = CurrentMap
    BY <1>1, <1>3 DEF Init, CurrentMap, IsMap
<1>5. DOMAIN migrations = {} /\ handoffs \in Seq(Handoffs) /\ migrations \in Seq(Migrations)
    BY DEF Init
<1> QED
    BY <1>1, <1>2, <1>3, <1>4, <1>5 DEF Init, TypeOK, Zones

LEMMA MoveType ==
    ASSUME TypeOK, NEW e \in Entities, NEW p \in conf.spots, NEW bad, Move(e, p, bad)
    PROVE  TypeOK'
<1>1. PICK hs, held, moved :
          /\ held \in BOOLEAN /\ moved \in BOOLEAN /\ hs \in Seq(Handoffs)
          /\ Flushed(Moved(e, p), hs, held, moved)
    BY MoveIs
<1>2. UNCHANGED <<conf, topology, standbys, job>>
    BY DEF Move
<1> QED
    BY <1>1, <1>2, FlushType

LEMMA TickType == TypeOK /\ Tick => TypeOK'
<1> SUFFICES ASSUME TypeOK, Tick PROVE TypeOK'
    OBVIOUS
<1>1. PICK held \in BOOLEAN, moved \in BOOLEAN : Flushed(ent, handoffs, held, moved)
    BY TickIs
<1>2. UNCHANGED <<conf, topology, standbys, job>> /\ handoffs \in Seq(Handoffs)
    BY DEF Tick, TypeOK
<1> QED
    BY <1>1, <1>2, FlushType

LEMMA ArriveType ==
    ASSUME TypeOK, NEW e \in Entities, NEW p \in Position, NEW region \in Region,
           Arrive(e, p, region), departed' \in [Entities -> Departure \cup {None}]
    PROVE  TypeOK'
<1>1. MapOK'
    BY MapKept DEF topology, Arrive
<1>2. [pos |-> p, region |-> region, owner |-> OwnerOf(region)] \in Placement
    BY OwnerType DEF Placement
<1>3. ent' \in [Entities -> Placement \cup {None}]
    BY <1>2 DEF TypeOK, Arrive
<1>4. Zones' = Zones
    BY DEF Zones, topology, Arrive
<1> QED
    BY <1>1, <1>3, <1>4 DEF TypeOK, Arrive, topology, pending, MapOK

\* Who arrives is in a region.
SpawnsIn(p, requested) == IF conf.grid THEN Region2D(p) ELSE SpawnRegion(p[1], requested)
LEMMA SpawnIs ==
    ASSUME TypeOK, NEW e \in Entities, NEW p \in conf.spots, NEW requested \in {None, Planet},
           Spawn(e, p, requested)
    PROVE  LET region == SpawnsIn(p, requested) IN
           /\ p \in Position /\ region \in Region /\ SettledAt(p, region)
           /\ ~Live(ent[e]) /\ departed[e] = None
           /\ Arrive(e, p, region)
<1>1. p \in Position
    BY DeploymentTypes DEF TypeOK
<1>2. Planet \in Zone
    BY DEF Planet, Zone
<1>3. SettledAt(p, SpawnsIn(p, requested))
    BY <1>1, <1>2, SpawnSettles DEF SpawnsIn
<1> QED
    BY <1>1, <1>3, Zenon DEF Spawn, SettledAt, SpawnsIn

LEMMA SpawnType ==
    ASSUME TypeOK, NEW e \in Entities, NEW p \in conf.spots, NEW requested \in {None, Planet},
           Spawn(e, p, requested)
    PROVE  TypeOK'
<1>1. departed' \in [Entities -> Departure \cup {None}]
    BY DEF Spawn, TypeOK
<1> QED
    BY <1>1, SpawnIs, ArriveType

LEMMA AdoptIs ==
    ASSUME TypeOK, NEW e \in Entities, NEW p \in conf.spots, NEW target \in Targets,
           Adopt(e, p, target)
    PROVE  /\ p \in Position /\ ReceivingRegion(p, target) \in Region
           /\ Arrive(e, p, ReceivingRegion(p, target))
<1>1. p \in Position /\ p[1] \in Int /\ conf.home \in Region \cup {None}
    BY DeploymentTypes DEF TypeOK, Position
<1>2. target # None => target \in Region /\ target[1] \in Zone
    BY DEF Targets, TypeOK, Region
<1>3. ReceivingRegion(p, target) # None /\ Arrive(e, p, ReceivingRegion(p, target))
    BY DEF Adopt
<1>4. ReceivingRegion(p, target) \in Region
    <2>1. CASE conf.grid
        <3>1. Region2D(p) \in Region
            BY <1>1, <2>1, SpawnSettles DEF SettledAt
        <3>2. \/ ReceivingRegion(p, target) = None \/ ReceivingRegion(p, target) = Region2D(p)
              \/ ReceivingRegion(p, target) = target /\ target # None
            BY <2>1, Zenon DEF ReceivingRegion
        <3> QED
            BY <1>2, <1>3, <3>1, <3>2
    <2>2. CASE ~conf.grid
        <3>1. SpawnRegion(p[1], None) \in Region
            BY <1>1, <2>2, SpawnSettles DEF SettledAt
        <3>2. target # None => Refine(target[1], p[1]) \in Region
            BY <1>1, <1>2, RefineIs DEF Region
        <3>3. \/ ReceivingRegion(p, target) = conf.home /\ conf.home # None
              \/ ReceivingRegion(p, target) = SpawnRegion(p[1], None)
              \/ ReceivingRegion(p, target) = Refine(target[1], p[1]) /\ target # None
            BY <2>2, Zenon DEF ReceivingRegion
        <3> QED
            BY <1>1, <3>1, <3>2, <3>3
    <2> QED
        BY <2>1, <2>2
<1> QED
    BY <1>1, <1>3, <1>4

LEMMA AdoptType ==
    ASSUME TypeOK, NEW e \in Entities, NEW p \in conf.spots, NEW target \in Targets,
           Adopt(e, p, target)
    PROVE  TypeOK'
<1>1. departed' \in [Entities -> Departure \cup {None}]
    BY DEF Adopt, TypeOK
<1> QED
    BY <1>1, AdoptIs, ArriveType

\* A new map.
LEMMA PersistIs ==
    ASSUME TypeOK, PersistTopology, bounds' \in Seq(Int), Increasing(bounds'),
           \A zone \in DOMAIN splits' :
               zone \in Zone /\ splits'[zone] \in Seq(Int) /\ Len(splits'[zone]) = 1
    PROVE  /\ MapOK' /\ rev' = rev + 1
           /\ logged' = CurrentMap' \/ (unlogged' /\ logged' = logged)
           /\ unlogged' = unlogged \/ unlogged'
           /\ published' = IF unlogged' \/ rev' <= published.rev THEN published ELSE CurrentMap'
<1> DEFINE map == [rev |-> rev + 1, bounds |-> bounds', splits |-> splits']
<1>1. rev' = rev + 1 /\ CurrentMap' = map
    BY DEF PersistTopology, CurrentMap
<1>2. rev + 1 \in Nat
    BY MapIs
<1>3. IsMap(map)
    BY <1>2 DEF IsMap
<1>4. /\ \/ logged' = map /\ unlogged' = unlogged
         \/ logged' \in {logged, map} /\ unlogged' = TRUE
      /\ published' = IF unlogged' \/ rev' <= published.rev THEN published ELSE map
    BY DEF PersistTopology
<1> HIDE DEF map
<1>5. IsMap(logged)
    BY DEF TypeOK
<1>6. MapOK'
    BY <1>1, <1>3, <1>4, <1>5, Zenon DEF MapOK
<1> QED
    BY <1>1, <1>4, <1>6

LEMMA TopologyType ==
    ASSUME TypeOK, TopologyMoves, MapOK', job' \subseteq Entities, DOMAIN regionWorker' \subseteq Region,
           regionWorker' \in [DOMAIN regionWorker' -> Workers], standbys' \in Seq(Workers)
    PROVE  TypeOK'
<1>1. ~conf.grid
    BY DEF TopologyMoves
<1>2. migrations = <<>> /\ DOMAIN migrations = {}
    BY <1>1 DEF TypeOK
<1> QED
    BY <1>1, <1>2 DEF TypeOK, TopologyMoves, MapOK

LEMMA RebalanceType ==
    ASSUME TypeOK, NEW way \in {Step, -Step}, Rebalance(way)
    PROVE  TypeOK' /\ MapOK'
<1>1. /\ bounds[1] \in Int /\ bounds' = <<bounds[1] + way>> /\ splits' = splits
      /\ PersistTopology
    BY MapIs DEF Rebalance, TopologyMoves
<1>2. bounds' \in Seq(Int) /\ Increasing(bounds')
    <2>1. bounds[1] + way \in Int
        BY <1>1 DEF Step
    <2>2. bounds' \in Seq(Int) /\ DOMAIN bounds' = {1}
        BY <1>1, <2>1
    <2> QED
        BY <2>2 DEF Increasing
<1>3. MapOK'
    BY <1>1, <1>2, PersistIs, MapIs DEF Zones
<1>4. job' \subseteq Entities
    BY DEF Rebalance, Misplaced
<1>5. UNCHANGED <<regionWorker, standbys>>
    BY DEF Rebalance
<1> QED
    BY <1>3, <1>4, <1>5, TopologyType DEF Rebalance, TypeOK

\* A split adds the upper half of a region, and gives it to a standby.
SplitAt(region, median) ==
    /\ region \in Region /\ region \in DOMAIN regionWorker
    /\ region[2] = 0 /\ region[1] \notin Zones /\ median \in Int
    /\ splits' = With(splits, region[1], <<median>>)
    /\ DOMAIN splits' = Zones \cup {region[1]} /\ splits'[region[1]] = <<median>>
    /\ \A zone \in Zones : splits'[zone] = splits[zone]
    /\ job' = {e \in InRegion(region) : ent[e].pos[1] >= median}

LEMMA SplitIs ==
    ASSUME TypeOK, NEW region \in DOMAIN regionWorker, Split(region)
    PROVE  (\E median : SplitAt(region, median)) /\ TypeOK' /\ MapOK'
<1> DEFINE inside == InRegion(region)
<1>1. /\ region[2] = 0 /\ region[1] \notin Zones /\ standbys # <<>> /\ region \in Region
      /\ bounds' = bounds /\ PersistTopology /\ region[1] \in Zone
      /\ regionWorker' = With(regionWorker, <<region[1], 1>>, Head(standbys))
      /\ standbys' = Tail(standbys) /\ TopologyMoves
    BY DEF Split, TopologyMoves, TypeOK, Region
<1>2. PICK median \in {ent[e].pos[1] : e \in inside} :
          /\ splits' = With(splits, region[1], <<median>>)
          /\ job' = {e \in inside : ent[e].pos[1] >= median}
    BY DEF Split
<1>3. median \in Int
    <2>1. PICK e \in inside : median = ent[e].pos[1]
        BY <1>2
    <2>2. ent[e] \in Placement
        BY <2>1 DEF InRegion, Live, TypeOK
    <2> QED
        BY <2>1, <2>2 DEF Placement, Position
<1>4. /\ DOMAIN splits' = Zones \cup {region[1]} /\ splits'[region[1]] = <<median>>
      /\ \A zone \in Zones : splits'[zone] = splits[zone]
    BY <1>1, <1>2 DEF Zones, With
<1>5. <<median>> \in Seq(Int) /\ Len(<<median>>) = 1
    BY <1>3
<1>6. \A zone \in DOMAIN splits' :
          zone \in Zone /\ splits'[zone] \in Seq(Int) /\ Len(splits'[zone]) = 1
    BY <1>1, <1>4, <1>5, MapIs
<1>7. MapOK'
    BY <1>1, <1>6, PersistIs, MapIs
<1>8. Head(standbys) \in Workers /\ standbys' \in Seq(Workers)
    BY <1>1 DEF TypeOK
<1>9. /\ DOMAIN regionWorker' = DOMAIN regionWorker \cup {<<region[1], 1>>}
      /\ \A r \in DOMAIN regionWorker' : regionWorker'[r] \in Workers
      /\ regionWorker' \in [DOMAIN regionWorker' -> Workers]
    <2>1. regionWorker \in [DOMAIN regionWorker -> Workers]
        BY DEF TypeOK
    <2> QED
        BY <1>1, <1>8, <2>1 DEF With
<1>10. DOMAIN regionWorker' \subseteq Region
    BY <1>1, <1>9 DEF TypeOK, Region
<1>11. job' \subseteq Entities
    BY <1>2 DEF InRegion
<1>12. TypeOK'
    BY <1>1, <1>7, <1>8, <1>9, <1>10, <1>11, TopologyType
<1> QED
    BY <1>1, <1>2, <1>3, <1>4, <1>7, <1>12 DEF SplitAt

\* A step of a job.
Routed(e) == Live(ent[e]) /\ IsStrip(ent[e].region[1]) /\ RegionOf(ent[e]) # ent[e].region
LEMMA RerouteIs ==
    ASSUME TypeOK, NEW e \in job, NEW bad, Reroute(e, bad)
    PROVE  /\ e \in Entities /\ (bad # {} => Routed(e)) /\ job' = job \ {e}
           /\ remote' \subseteq Entities \X Region
           /\ handoffs' \in Seq(Handoffs) /\ (OneEach(handoffs) => OneEach(handoffs'))
           /\ IF Routed(e) THEN Added(ent, e, RegionOf(ent[e]), bad, handoffs')
              ELSE handoffs' = handoffs
<1> DEFINE s0 == [handoffs |-> handoffs, remote |-> remote]
           s == IF Routed(e) THEN Handoff(s0, ent, e, RegionOf(ent[e]), bad) ELSE s0
<1>1. e \in Entities
    BY DEF TypeOK
<1>2. /\ bad # {} => Routed(e)
      /\ job' = job \ {e} /\ handoffs' = s.handoffs /\ remote' = s.remote
    BY Zenon DEF Reroute, Routed
<1>3. CASE Routed(e)
    <2>1. Repositioned(ent) /\ ent[e] \in Placement
        BY <1>1, <1>3 DEF Repositioned, TypeOK, Routed, Live
    <2>2. RegionOf(ent[e]) \in Region
        BY <2>1, AtSettles DEF At, RegionOf, SettledAt, Placement
    <2>3. s = Handoff(s0, ent, e, RegionOf(ent[e]), bad)
        BY <1>3
    <2>4. Live(ent[e])
        BY <1>3 DEF Routed
    <2>5. s.remote \subseteq Entities \X Region /\ Added(ent, e, RegionOf(ent[e]), bad, s.handoffs)
        BY <1>1, <2>1, <2>2, <2>3, <2>4, HandoffIs
    <2> HIDE DEF s
    <2> QED
        BY <1>1, <1>2, <1>3, <2>5 DEF Added
<1>4. CASE ~Routed(e)
    <2>1. s = s0
        BY <1>4
    <2> QED
        BY <1>1, <1>2, <1>4, <2>1 DEF TypeOK
<1> QED
    BY <1>3, <1>4

LEMMA RerouteType ==
    ASSUME TypeOK, NEW e \in job, NEW bad, Reroute(e, bad)
    PROVE  TypeOK'
<1>1. UNCHANGED <<conf, topology, regionWorker, standbys, ent, departed, migrations>>
    BY DEF Reroute
<1>2. MapOK' /\ Zones' = Zones
    BY <1>1, MapKept DEF topology, Zones
<1>3. /\ job' = job \ {e} /\ remote' \subseteq Entities \X Region
      /\ handoffs' \in Seq(Handoffs)
    BY RerouteIs
<1> QED
    BY <1>1, <1>2, <1>3 DEF TypeOK, MapOK

\* The migration of a block.
Staging(hot, cold, block) ==
    /\ block \in DOMAIN regionWorker /\ regionWorker[block] = hot /\ hot # cold /\ cold \in Workers
    /\ \A i \in DOMAIN migrations : migrations[i].block # block
    /\ migrations' = Append(migrations,
           [block |-> block, to |-> cold, grants |-> Grants(block, hot, cold)])

LEMMA RebalanceBlocksType ==
    ASSUME TypeOK, NEW hot \in Workers, NEW cold \in Workers, RebalanceBlocks(hot, cold)
    PROVE  (\E block : Staging(hot, cold, block)) /\ TypeOK'
<1>1. PICK block \in ClosestToHalf(hot, Load(hot) - Load(cold)) :
          /\ \A i \in DOMAIN migrations : migrations[i].block # block
          /\ migrations' = Append(migrations,
                 [block |-> block, to |-> cold, grants |-> Grants(block, hot, cold)])
    BY DEF RebalanceBlocks
<1>2. block \in DOMAIN regionWorker /\ regionWorker[block] = hot
    BY <1>1 DEF ClosestToHalf, BlocksOf
<1>3. Staging(hot, cold, block)
    BY <1>1, <1>2 DEF Staging, RebalanceBlocks
<1>4. block \in Region
    BY <1>2 DEF TypeOK
<1> DEFINE S == {x \in InRegion(block) : ent[x].owner \in {hot, None}}
           m == [block |-> block, to |-> cold, grants |-> Grants(block, hot, cold)]
<1>5. Grants(block, hot, cold) \in [S -> Workers] /\ S \in SUBSET Entities
    BY DEF Grants, InRegion
<1>6. m \in Migrations
    BY <1>4, <1>5 DEF Migrations
<1>7. /\ migrations' \in Seq(Migrations)
      /\ \A i \in DOMAIN migrations' : migrations'[i].block \in DOMAIN regionWorker
    <2>1. m.block = block /\ migrations' = Append(migrations, m)
        BY <1>1
    <2> HIDE DEF m
    <2> QED
        BY <1>2, <1>6, <2>1 DEF TypeOK
<1>8. /\ conf.grid
      /\ UNCHANGED <<conf, topology, regionWorker, standbys, ent, departed, job, handoffs, remote>>
    BY DEF RebalanceBlocks
<1>9. MapOK' /\ Zones' = Zones
    BY <1>8, MapKept DEF topology, Zones
<1> QED
    BY <1>3, <1>7, <1>8, <1>9 DEF TypeOK, MapOK

\* A restart applies the first of the staged hand-offs.
LEMMA RestartIs ==
    ASSUME TypeOK, Restart
    PROVE  /\ ~conf.grid /\ migrations = <<>>
           /\ \E n \in 0 .. Len(handoffs), line \in Seq(Handoffs) :
                 LET lost == {handoffs[i].eid : i \in n + 1 .. Len(handoffs)}
                 IN  /\ DOMAIN line = 1 .. n
                     /\ \A i \in 1 .. n : line[i] = handoffs[i]
                     /\ ent' = ApplyHandoffs(ent, line)
                     /\ overtaken' = IF logged.bounds = bounds /\ logged.splits = splits
                                     THEN overtaken \cup job \cup lost ELSE Entities
                     /\ alone' = alone \cup {e \in lost : Parent[e] # None}
<1>1. ~conf.grid /\ migrations = <<>>
    BY DEF TypeOK, Restart
<1>2. PICK n \in 0 .. Len(handoffs) :
          LET lost == {handoffs[i].eid : i \in n + 1 .. Len(handoffs)} IN
          /\ ent' = ApplyHandoffs(ent, SubSeq(handoffs, 1, n))
          /\ overtaken' = IF logged.bounds = bounds /\ logged.splits = splits
                          THEN overtaken \cup job \cup lost ELSE Entities
          /\ alone' = alone \cup {e \in lost : Parent[e] # None}
    BY Zenon DEF Restart
<1>3. handoffs \in Seq(Handoffs)
    BY DEF TypeOK
<1>4. /\ SubSeq(handoffs, 1, n) \in Seq(Handoffs) /\ DOMAIN SubSeq(handoffs, 1, n) = 1 .. n
      /\ \A i \in 1 .. n : SubSeq(handoffs, 1, n)[i] = handoffs[i]
    BY <1>3
<1> QED
    BY <1>1, <1>2, <1>4, Zenon

LEMMA RestartType == TypeOK /\ Restart => TypeOK'
<1> SUFFICES ASSUME TypeOK, Restart PROVE TypeOK'
    OBVIOUS
<1>1. ent' \in [Entities -> Placement \cup {None}]
    <2>1. PICK line \in Seq(Handoffs) : ent' = ApplyHandoffs(ent, line)
        BY RestartIs, Zenon
    <2>2. ent \in [Entities -> Placement \cup {None}]
        BY DEF TypeOK
    <2> QED
        BY <2>1, <2>2, ApplyHandoffsIs
<1>2. /\ UNCHANGED <<conf, logged, departed, migrations>>
      /\ rev' = logged.rev /\ bounds' = logged.bounds /\ splits' = logged.splits
      /\ regionWorker' = conf.owners /\ standbys' = conf.standbys
      /\ job' = {} /\ handoffs' = <<>> /\ remote' = {}
    BY DEF Restart, RestoredVersion
<1>3. MapOK'
    <2>1. logged = [rev |-> logged.rev, bounds |-> logged.bounds, splits |-> logged.splits]
        BY DEF TypeOK, IsMap
    <2>2. CurrentMap' = logged
        BY <1>2, <2>1 DEF CurrentMap
    <2>3. IsMap(CurrentMap') /\ IsMap(logged')
        BY <1>2, <2>2 DEF TypeOK
    <2> QED
        BY <2>3 DEF MapOK
<1>4. /\ DOMAIN conf.owners \subseteq Region /\ conf.owners \in [DOMAIN conf.owners -> Workers]
      /\ conf.standbys \in Seq(Workers)
    BY DeploymentTypes DEF TypeOK
<1>5. ~conf.grid /\ migrations = <<>> /\ DOMAIN migrations = {}
    BY RestartIs
<1> QED
    BY <1>1, <1>2, <1>3, <1>4, <1>5 DEF TypeOK, MapOK

LEMMA TypeStep == TypeOK /\ [Next]_vars => TypeOK'
<1> SUFFICES ASSUME TypeOK, [Next]_vars PROVE TypeOK'
    OBVIOUS
<1>1. ASSUME NEW e \in Entities, NEW p \in conf.spots, NEW bad, Move(e, p, bad)
      PROVE  TypeOK'
    BY <1>1, MoveType
<1>2. ASSUME NEW e \in Entities, NEW p \in conf.spots, NEW requested \in {None, Planet},
             Spawn(e, p, requested)
      PROVE  TypeOK'
    BY <1>2, SpawnType
<1>3. ASSUME NEW e \in Entities, NEW p \in conf.spots, NEW target \in Targets, Adopt(e, p, target)
      PROVE  TypeOK'
    BY <1>3, AdoptType
<1>4. CASE Tick
    BY <1>4, TickType
<1>5. ASSUME NEW way \in {Step, -Step}, Rebalance(way) PROVE TypeOK'
    BY <1>5, RebalanceType
<1>6. ASSUME NEW region \in DOMAIN regionWorker, Split(region) PROVE TypeOK'
    BY <1>6, SplitIs
<1>7. ASSUME NEW e \in job, NEW bad, Reroute(e, bad) PROVE TypeOK'
    BY <1>7, RerouteType
<1>8. ASSUME NEW hot \in Workers, NEW cold \in Workers, RebalanceBlocks(hot, cold) PROVE TypeOK'
    BY <1>8, RebalanceBlocksType
<1>9. CASE Restart
    BY <1>9, RestartType
<1>10. CASE UNCHANGED vars
    <2>1. UNCHANGED <<conf, bounds, splits, rev, logged, regionWorker, standbys, ent, departed,
                      job, handoffs, remote, migrations>>
        BY <1>10 DEF vars, topology, pending
    <2>2. MapOK' /\ Zones' = Zones
        BY <2>1, MapKept DEF Zones
    <2> QED
        BY <2>1, <2>2 DEF TypeOK, MapOK
<1> QED
    BY <1>1, <1>2, <1>3, <1>4, <1>5, <1>6, <1>7, <1>8, <1>9, <1>10, Zenon DEF Next

\* Every state is made of strips and bands in order, regions with workers, entities
\* with a place, and hand-offs and migrations of this broker's entities.
THEOREM TypeCorrect == Spec => []TypeOK
BY InitType, TypeStep, PTL DEF Spec

(***************************************************************************)
(* A version names one map.                                                *)
(***************************************************************************)
\* Unless an append was lost, the newest map is in force and in the log.
MapInv == ~unlogged => published = logged /\ logged = CurrentMap

LEMMA MapStep == TypeOK /\ MapInv /\ [Next]_vars => MapInv'
<1> SUFFICES ASSUME TypeOK, MapInv, [Next]_vars PROVE MapInv'
    OBVIOUS
<1>1. ASSUME UNCHANGED topology PROVE MapInv'
    <2>1. UNCHANGED <<bounds, splits, rev, logged, published, unlogged>>
        BY <1>1 DEF topology
    <2>2. CurrentMap' = CurrentMap
        BY <2>1 DEF CurrentMap
    <2> QED
        BY <2>1, <2>2 DEF MapInv
<1>2. ASSUME PersistTopology, /\ logged' = CurrentMap' \/ (unlogged' /\ logged' = logged)
                              /\ published' = IF unlogged' \/ rev' <= published.rev
                                              THEN published ELSE CurrentMap'
                              /\ rev' = rev + 1
      PROVE  MapInv'
    <2> SUFFICES ASSUME ~unlogged' PROVE published' = logged' /\ logged' = CurrentMap'
        BY DEF MapInv
    <2>1. unlogged' = unlogged \/ unlogged' = TRUE
        BY <1>2 DEF PersistTopology
    <2>2. published = CurrentMap
        BY <2>1 DEF MapInv
    <2>3. published.rev = rev /\ rev \in Nat
        BY <2>2, MapIs DEF CurrentMap
    <2> QED
        BY <1>2, <2>3
<1>3. ASSUME NEW way \in {Step, -Step}, Rebalance(way) PROVE MapInv'
    <2>1. bounds' \in Seq(Int) /\ Increasing(bounds') /\ splits' = splits /\ PersistTopology
        <3>1. TypeOK' /\ PersistTopology /\ splits' = splits
            BY <1>3, RebalanceType DEF Rebalance, TopologyMoves
        <3>2. IsMap(CurrentMap') /\ CurrentMap' = [rev |-> rev', bounds |-> bounds', splits |-> splits']
            BY <3>1 DEF TypeOK, CurrentMap
        <3> QED
            BY <3>1, <3>2 DEF IsMap
    <2> QED
        BY <1>2, <2>1, PersistIs, MapIs DEF Zones
<1>4. ASSUME NEW region \in DOMAIN regionWorker, Split(region) PROVE MapInv'
    <2>1. TypeOK' /\ PersistTopology
        BY <1>4, SplitIs DEF Split, TopologyMoves
    <2>2. IsMap(CurrentMap') /\ CurrentMap' = [rev |-> rev', bounds |-> bounds', splits |-> splits']
        BY <2>1 DEF TypeOK, CurrentMap
    <2>3. /\ bounds' \in Seq(Int) /\ Increasing(bounds')
          /\ \A zone \in DOMAIN splits' :
                zone \in Zone /\ splits'[zone] \in Seq(Int) /\ Len(splits'[zone]) = 1
        BY <2>2 DEF IsMap
    <2> QED
        BY <1>2, <2>1, <2>3, PersistIs
<1>5. CASE Restart
    <2>1. /\ rev' = logged.rev /\ bounds' = logged.bounds /\ splits' = logged.splits
          /\ UNCHANGED <<logged, published, unlogged>>
        BY <1>5 DEF Restart, RestoredVersion
    <2>2. logged = [rev |-> logged.rev, bounds |-> logged.bounds, splits |-> logged.splits]
        BY DEF TypeOK, IsMap
    <2>3. CurrentMap' = logged
        BY <2>1, <2>2 DEF CurrentMap
    <2> QED
        BY <2>1, <2>3 DEF MapInv
<1>6. ASSUME ~Restart, \A way \in {Step, -Step} : ~Rebalance(way),
             \A region \in DOMAIN regionWorker : ~Split(region)
      PROVE  UNCHANGED topology
    <2>1. ASSUME NEW e \in Entities, NEW p, NEW bad, Move(e, p, bad) PROVE UNCHANGED topology
        BY <2>1 DEF Move
    <2>2. ASSUME NEW e \in Entities, NEW p, NEW r, Spawn(e, p, r) PROVE UNCHANGED topology
        BY <2>2 DEF Spawn, Arrive
    <2>3. ASSUME NEW e \in Entities, NEW p, NEW t, Adopt(e, p, t) PROVE UNCHANGED topology
        BY <2>3 DEF Adopt, Arrive
    <2>4. ASSUME Tick PROVE UNCHANGED topology
        BY <2>4 DEF Tick
    <2>5. ASSUME NEW e \in job, NEW bad, Reroute(e, bad) PROVE UNCHANGED topology
        BY <2>5 DEF Reroute
    <2>6. ASSUME NEW hot \in Workers, NEW cold \in Workers, RebalanceBlocks(hot, cold)
          PROVE  UNCHANGED topology
        BY <2>6 DEF RebalanceBlocks
    <2>7. ASSUME UNCHANGED vars PROVE UNCHANGED topology
        BY <2>7 DEF vars
    <2> QED
        BY <1>6, <2>1, <2>2, <2>3, <2>4, <2>5, <2>6, <2>7, Zenon DEF Next
<1> QED
    BY <1>1, <1>3, <1>4, <1>5, <1>6, Zenon

LEMMA MapNames == TypeOK /\ MapInv => VersionNamesMap
<1> SUFFICES ASSUME TypeOK, MapInv PROVE VersionNamesMap
    OBVIOUS
<1>1. rev \in Nat /\ CurrentMap.rev = rev
    BY MapIs DEF CurrentMap
<1> QED
    BY <1>1 DEF MapInv, VersionNamesMap

\* A version of the zone topology is never given to two maps, in memory, in the log
\* or after a restart, unless an append was lost.
THEOREM VersionsNameMaps == Spec => []VersionNamesMap
<1>1. Init => MapInv
    BY DEF Init, MapInv
<1>2. Spec => []MapInv
    BY <1>1, InitType, TypeStep, MapStep, PTL DEF Spec
<1> QED
    BY <1>2, TypeCorrect, MapNames, PTL

(***************************************************************************)
(* What is forwarded belonged to its target; one staged hand-off for each  *)
(* entity; the regions of a deployment keep a worker.                      *)
(***************************************************************************)
LEMMA DepartedStep == TypeOK /\ DepartedBelongs /\ [Next]_vars => DepartedBelongs'
<1> SUFFICES ASSUME TypeOK, DepartedBelongs, [Next]_vars, NEW e \in Entities, departed'[e] # None
             PROVE  departed'[e].belonged
    BY DEF DepartedBelongs
<1>1. ASSUME departed'[e] = departed[e] PROVE departed'[e].belonged
    BY <1>1 DEF DepartedBelongs
<1>2. ASSUME NEW ents, NEW hs, NEW held, NEW moved, FlushedOne(ents, hs, held, moved, e)
      PROVE  departed'[e].belonged
    BY <1>1, <1>2 DEF FlushedOne
<1>3. ASSUME NEW x \in Entities, NEW p \in conf.spots, NEW bad, Move(x, p, bad)
      PROVE  departed'[e].belonged
    <2>1. PICK hs, held, moved : FlushedOne(Moved(x, p), hs, held, moved, e)
        BY <1>3, MoveIs
    <2> QED
        BY <1>2, <2>1
<1>4. CASE Tick
    <2>1. PICK held, moved : FlushedOne(ent, handoffs, held, moved, e)
        BY <1>4, TickIs
    <2> QED
        BY <1>2, <2>1
<1>5. ASSUME NEW x \in Entities, NEW p, NEW t, Adopt(x, p, t) PROVE departed'[e].belonged
    BY <1>1, <1>5 DEF Adopt, TypeOK
<1>6. ASSUME NEW x \in Entities, NEW p, NEW r, Spawn(x, p, r) PROVE departed' = departed
    BY <1>6 DEF Spawn
<1>7. ASSUME NEW way, Rebalance(way) PROVE departed' = departed
    BY <1>7 DEF Rebalance, TopologyMoves
<1>8. ASSUME NEW r, Split(r) PROVE departed' = departed
    BY <1>8 DEF Split, TopologyMoves
<1>9. ASSUME NEW x, NEW bad, Reroute(x, bad) PROVE departed' = departed
    BY <1>9 DEF Reroute
<1>10. ASSUME NEW hot, NEW cold, RebalanceBlocks(hot, cold) PROVE departed' = departed
    BY <1>10 DEF RebalanceBlocks
<1>11. CASE Restart
    BY <1>1, <1>11 DEF Restart
<1>12. CASE UNCHANGED vars
    BY <1>1, <1>12 DEF vars
<1> QED
    BY <1>1, <1>3, <1>4, <1>5, <1>6, <1>7, <1>8, <1>9, <1>10, <1>11, <1>12 DEF Next

\* What is forwarded to another broker belonged to the target region with the
\* position it left with, for every deployment.
THEOREM WhatDepartsBelongs == Spec => []DepartedBelongs
<1>1. Init => DepartedBelongs
    BY DEF Init, DepartedBelongs
<1> QED
    BY <1>1, InitType, TypeStep, DepartedStep, PTL DEF Spec

OwnersStay == ~conf.grid => DOMAIN conf.owners \subseteq DOMAIN regionWorker
Base == TypeOK /\ OneEach(handoffs) /\ OwnersStay

LEMMA BaseStep == Base /\ [Next]_vars => Base'
<1> SUFFICES ASSUME Base, [Next]_vars PROVE Base'
    OBVIOUS
<1>1. TypeOK /\ TypeOK' /\ OneEach(handoffs) /\ OwnersStay
    BY TypeStep DEF Base
<1>2. OneEach(<<>>)
    BY DEF OneEach
<1>3. ASSUME handoffs' = handoffs \/ handoffs' = <<>>, UNCHANGED conf,
             DOMAIN regionWorker \subseteq DOMAIN regionWorker'
      PROVE  Base'
    BY <1>1, <1>2, <1>3 DEF Base, OwnersStay
<1>4. ASSUME NEW ents, NEW hs, NEW held \in BOOLEAN, NEW moved \in BOOLEAN,
             Flushed(ents, hs, held, moved)
      PROVE  (handoffs' = hs \/ handoffs' = <<>>) /\ DOMAIN regionWorker' = DOMAIN regionWorker
    <2>1. DOMAIN MovedWorkers = DOMAIN regionWorker
        BY DEF MovedWorkers
    <2> QED
        BY <1>4, <2>1 DEF Flushed
<1>5. ASSUME NEW x \in Entities, NEW p \in conf.spots, NEW bad, Move(x, p, bad)
      PROVE  Base'
    <2>1. PICK hs, held, moved :
              /\ held \in BOOLEAN /\ moved \in BOOLEAN /\ (OneEach(handoffs) => OneEach(hs))
              /\ Flushed(Moved(x, p), hs, held, moved)
        BY <1>1, <1>5, MoveIs
    <2>2. OneEach(handoffs') /\ DOMAIN regionWorker' = DOMAIN regionWorker
        BY <1>1, <1>2, <1>4, <2>1
    <2>3. conf' = conf
        BY <1>5 DEF Move
    <2> QED
        BY <1>1, <2>2, <2>3 DEF Base, OwnersStay
<1>6. CASE Tick
    <2>1. PICK held \in BOOLEAN, moved \in BOOLEAN : Flushed(ent, handoffs, held, moved)
        BY <1>1, <1>6, TickIs
    <2> QED
        BY <1>3, <1>4, <1>6, <2>1 DEF Tick
<1>7. ASSUME NEW x, NEW p, NEW r, Arrive(x, p, r) PROVE Base'
    BY <1>3, <1>7 DEF Arrive, pending
<1>8. ASSUME NEW way, Rebalance(way) PROVE Base'
    BY <1>3, <1>8 DEF Rebalance, TopologyMoves
<1>9. ASSUME NEW r, Split(r) PROVE Base'
    BY <1>3, <1>9 DEF Split, TopologyMoves, With
<1>10. ASSUME NEW x \in job, NEW bad, Reroute(x, bad) PROVE Base'
    <2>1. OneEach(handoffs') /\ UNCHANGED <<conf, regionWorker>>
        BY <1>1, <1>10, RerouteIs DEF Reroute
    <2> QED
        BY <1>1, <2>1 DEF Base, OwnersStay
<1>11. ASSUME NEW hot, NEW cold, RebalanceBlocks(hot, cold) PROVE Base'
    BY <1>3, <1>11 DEF RebalanceBlocks
<1>12. CASE Restart
    <2>1. handoffs' = <<>> /\ regionWorker' = conf.owners /\ conf' = conf
        BY <1>12 DEF Restart
    <2> QED
        BY <1>1, <1>2, <2>1 DEF Base, OwnersStay
<1>13. CASE UNCHANGED vars
    BY <1>3, <1>13 DEF vars, pending
<1>14. ASSUME NEW e \in Entities, NEW p, NEW r, Spawn(e, p, r) PROVE Base'
    BY <1>7, <1>14 DEF Spawn
<1>15. ASSUME NEW e \in Entities, NEW p, NEW t, Adopt(e, p, t) PROVE Base'
    BY <1>7, <1>15 DEF Adopt
<1> QED
    BY <1>5, <1>6, <1>14, <1>15, <1>8, <1>9, <1>10, <1>11, <1>12, <1>13, Zenon DEF Next

LEMMA BaseHolds == Spec => []Base
<1>1. Init => Base
    BY InitType DEF Init, Base, OneEach, OwnersStay
<1> QED
    BY <1>1, BaseStep, PTL DEF Spec

(***************************************************************************)
(* The weight of a block.                                                  *)
(***************************************************************************)
\* The sum of w over s, if g has it for smaller sets.
Sum(w, g, s) == IF s = {} THEN 0 ELSE LET x == CHOOSE x \in s : TRUE IN w[x] + g[s \ {x}]
IsSum(w, g, S) == g = [s \in SUBSET S |-> Sum(w, g, s)]

\* Sets of at most n elements.
Small(S, n) == {s \in SUBSET S : Cardinality(s) <= n}

LEMMA Smaller ==
    ASSUME NEW S, IsFiniteSet(S), NEW s \in SUBSET S, s # {}
    PROVE  LET x == CHOOSE x \in s : TRUE IN
           /\ x \in s /\ s \ {x} \in SUBSET S
           /\ Cardinality(s) \in Nat \ {0} /\ Cardinality(s \ {x}) = Cardinality(s) - 1
<1>1. IsFiniteSet(s)
    BY FS_Subset
<1>2. (CHOOSE x \in s : TRUE) \in s
    OBVIOUS
<1>3. Cardinality(s) \in Nat /\ Cardinality(s) # 0
    BY <1>1, FS_CardinalityType, FS_EmptySet
<1> QED
    BY <1>1, <1>2, <1>3, FS_RemoveElement

LEMMA SumExists ==
    ASSUME NEW S, IsFiniteSet(S), NEW w, \A e \in S : w[e] \in Nat
    PROVE  \E g : IsSum(w, g, S)
<1> DEFINE Has(n) == \E g : g = [s \in Small(S, n) |-> g[s]] /\ \A s \in Small(S, n) : g[s] = Sum(w, g, s)
           bad == {n \in Nat : ~Has(n)}
<1>1. Has(0)
    <2> DEFINE g == [s \in Small(S, 0) |-> 0]
    <2>1. ASSUME NEW s \in Small(S, 0) PROVE s = {}
        <3>1. s \in SUBSET S /\ Cardinality(s) <= 0
            BY DEF Small
        <3>2. s # {} => Cardinality(s) \in Nat \ {0}
            BY <3>1, Smaller
        <3> QED
            BY <3>1, <3>2
    <2>2. g = [s \in Small(S, 0) |-> g[s]] /\ \A s \in Small(S, 0) : g[s] = Sum(w, g, s)
        BY <2>1 DEF Sum
    <2> HIDE DEF g
    <2> QED
        BY <2>2
<1>2. ASSUME NEW n \in Nat, Has(n) PROVE Has(n + 1)
    <2>1. PICK g : g = [s \in Small(S, n) |-> g[s]] /\ \A s \in Small(S, n) : g[s] = Sum(w, g, s)
        BY <1>2
    <2> DEFINE f == [s \in Small(S, n + 1) |-> Sum(w, g, s)]
    <2>2. \A s \in Small(S, n) : s \in Small(S, n + 1) /\ f[s] = g[s]
        <3>1. \A s \in SUBSET S : Cardinality(s) \in Nat
            BY FS_Subset, FS_CardinalityType
        <3>2. \A s \in Small(S, n) : s \in Small(S, n + 1)
            BY <3>1 DEF Small
        <3> QED
            BY <2>1, <3>2
    <2>3. ASSUME NEW s \in Small(S, n + 1) PROVE Sum(w, f, s) = Sum(w, g, s)
        <3>1. CASE s = {}
            BY <3>1 DEF Sum
        <3>2. CASE s # {}
            <4> DEFINE x == CHOOSE x \in s : TRUE
            <4>1. s \in SUBSET S /\ Cardinality(s) <= n + 1
                BY DEF Small
            <4>2. /\ s \ {x} \in SUBSET S /\ Cardinality(s) \in Nat
                  /\ Cardinality(s \ {x}) = Cardinality(s) - 1
                BY <3>2, <4>1, Smaller
            <4>3. s \ {x} \in Small(S, n)
                BY <4>1, <4>2 DEF Small
            <4>4. f[s \ {x}] = g[s \ {x}]
                BY <2>2, <4>3
            <4> HIDE DEF f
            <4> QED
                BY <3>2, <4>4 DEF Sum
        <3> QED
            BY <3>1, <3>2
    <2>4. f = [s \in Small(S, n + 1) |-> f[s]] /\ \A s \in Small(S, n + 1) : f[s] = Sum(w, f, s)
        BY <2>3
    <2> HIDE DEF f
    <2> QED
        BY <2>4
<1>3. bad = {}
    <2> HIDE DEF Has
    <2>1. SUFFICES ASSUME bad # {} PROVE FALSE
        OBVIOUS
    <2>2. PICK n \in bad : \A m \in bad : n <= m
        <3>1. bad \subseteq Nat
            OBVIOUS
        <3> QED
            BY <2>1, <3>1, LeastExists
    <2>3. n # 0 /\ n \in Nat
        BY <1>1
    <2>4. Has(n - 1)
        BY <2>2, <2>3
    <2> QED
        BY <1>2, <2>2, <2>3, <2>4
<1>4. Has(Cardinality(S))
    <2> HIDE DEF Has
    <2> QED
        BY <1>3, FS_CardinalityType
<1>5. Small(S, Cardinality(S)) = SUBSET S
    BY FS_Subset DEF Small
<1>6. PICK g : g = [s \in SUBSET S |-> g[s]] /\ \A s \in SUBSET S : g[s] = Sum(w, g, s)
    BY <1>4, <1>5
<1> QED
    BY <1>6 DEF IsSum

LEMMA SumIsNat ==
    ASSUME NEW S, IsFiniteSet(S), NEW w, \A e \in S : w[e] \in Nat, NEW g, IsSum(w, g, S)
    PROVE  \A s \in SUBSET S : g[s] \in Nat
<1> DEFINE bad == {s \in SUBSET S : g[s] \notin Nat}
           sizes == {Cardinality(s) : s \in bad}
<1>1. SUFFICES ASSUME bad # {} PROVE FALSE
    OBVIOUS
<1>2. sizes \subseteq Nat /\ sizes # {}
    BY <1>1, FS_Subset, FS_CardinalityType
<1>3. PICK n \in sizes : \A m \in sizes : n <= m
    <2> HIDE DEF sizes
    <2> QED
        BY <1>2, LeastExists
<1>4. PICK s \in bad : n = Cardinality(s)
    BY <1>3
<1>5. g[s] = Sum(w, g, s) /\ s \in SUBSET S /\ s # {}
    BY <1>4 DEF IsSum, Sum
<1> DEFINE x == CHOOSE x \in s : TRUE
<1>6. /\ x \in s /\ s \ {x} \in SUBSET S /\ Cardinality(s) \in Nat
      /\ Cardinality(s \ {x}) = Cardinality(s) - 1
    BY <1>5, Smaller
<1>7. g[s \ {x}] \in Nat
    BY <1>3, <1>4, <1>6
<1>8. g[s] = w[x] + g[s \ {x}]
    BY <1>5 DEF Sum
<1> HIDE DEF x
<1> QED
    BY <1>4, <1>6, <1>7, <1>8

LEMMA WeightType == TypeOK /\ conf.grid => \A regions : WeightIn(regions) \in Nat
<1> SUFFICES ASSUME TypeOK, conf.grid, NEW regions PROVE WeightIn(regions) \in Nat
    OBVIOUS
<1> DEFINE S == {e \in Entities : Live(ent[e]) /\ ent[e].region \in regions}
           w == conf.weight
<1>1. IsFiniteSet(S) /\ \A e \in S : w[e] \in Nat
    BY PartitionBounds, DeploymentTypes, FS_Subset DEF TypeOK
<1>2. WeightIn(regions) = (CHOOSE g : g = [s \in SUBSET S |->
          IF s = {} THEN 0 ELSE LET x == CHOOSE x \in s : TRUE IN w[x] + g[s \ {x}]])[S]
    BY Zenon DEF WeightIn, MapThenSumSet, MapThenFoldSet
<1>3. WeightIn(regions) = (CHOOSE g : IsSum(w, g, S))[S]
    BY <1>2, Zenon DEF IsSum, Sum
<1> HIDE DEF S, w
<1>4. IsSum(w, CHOOSE g : IsSum(w, g, S), S)
    BY <1>1, SumExists
<1> QED
    BY <1>1, <1>3, <1>4, SumIsNat

\* Of several weights the closest to the half of the gap is not above the gap, if any
\* is not.
LEMMA ClosestFits ==
    ASSUME NEW chosen \in Nat, NEW other \in Nat, NEW gap \in Nat, other <= gap,
           Distance(chosen, gap \div 2) <= Distance(other, gap \div 2)
    PROVE  chosen <= gap
<1>1. gap \div 2 \in Nat /\ gap \div 2 <= gap - (gap \div 2)
    OBVIOUS
<1> DEFINE half == gap \div 2
<1> HIDE DEF half
<1> QED
    BY <1>1 DEF Distance, half

\* What a step may not do to the load, as Sheds has it.
Shed ==
    Len(migrations') > Len(migrations) =>
        LET m == Last(migrations')
            hot == regionWorker[m.block]
        IN  \/ WeightIn({m.block}) <= Load(hot) - Load(m.to)
            \/ \A b \in BlocksOf(hot) : WeightIn({b}) > Load(hot) - Load(m.to)

LEMMA RebalanceSheds ==
    ASSUME TypeOK, NEW hot \in Workers, NEW cold \in Workers, RebalanceBlocks(hot, cold)
    PROVE  Shed
<1>1. PICK block \in ClosestToHalf(hot, Load(hot) - Load(cold)) :
          migrations' = Append(migrations,
              [block |-> block, to |-> cold, grants |-> Grants(block, hot, cold)])
    BY DEF RebalanceBlocks
<1>2. /\ block \in BlocksOf(hot) /\ regionWorker[block] = hot
      /\ \A b \in BlocksOf(hot) : Distance(WeightIn({block}), (Load(hot) - Load(cold)) \div 2)
                                      <= Distance(WeightIn({b}), (Load(hot) - Load(cold)) \div 2)
    BY <1>1 DEF ClosestToHalf, BlocksOf
<1>3. conf.grid /\ 2 * Load(hot) >= 3 * Load(cold) + 8
    BY DEF RebalanceBlocks
<1>4. Load(hot) \in Nat /\ Load(cold) \in Nat /\ \A b : WeightIn({b}) \in Nat
    BY <1>3, WeightType DEF Load
<1>5. Load(hot) - Load(cold) \in Nat
    BY <1>3, <1>4
<1>6. \/ WeightIn({block}) <= Load(hot) - Load(cold)
      \/ \A b \in BlocksOf(hot) : WeightIn({b}) > Load(hot) - Load(cold)
    <2> SUFFICES ASSUME NEW b \in BlocksOf(hot), ~(WeightIn({b}) > Load(hot) - Load(cold))
                 PROVE  WeightIn({block}) <= Load(hot) - Load(cold)
        OBVIOUS
    <2> DEFINE gap == Load(hot) - Load(cold)  wb == WeightIn({b})
    <2>1. gap \in Nat /\ wb \in Nat /\ ~(wb > gap)
        BY <1>4, <1>5
    <2> HIDE DEF gap, wb
    <2>2. wb <= gap
        BY <2>1
    <2> QED
        BY <1>2, <1>4, <2>1, <2>2, ClosestFits DEF gap, wb
<1> DEFINE m == [block |-> block, to |-> cold, grants |-> Grants(block, hot, cold)]
<1>7. m.block = block /\ m.to = cold
    OBVIOUS
<1>8. Last(migrations') = m
    <2> HIDE DEF m
    <2>1. migrations \in Seq(Migrations) /\ migrations' = Append(migrations, m)
        BY <1>1 DEF TypeOK, m
    <2> QED
        BY <2>1 DEF Last
<1> HIDE DEF m
<1> QED
    BY <1>2, <1>6, <1>7, <1>8 DEF Shed

LEMMA StepSheds == TypeOK /\ [Next]_vars => Shed
<1> SUFFICES ASSUME TypeOK, [Next]_vars PROVE Shed
    OBVIOUS
<1>1. ASSUME migrations' = migrations \/ migrations' = <<>> PROVE Shed
    <2>1. Len(migrations) \in Nat
        BY DEF TypeOK
    <2> QED
        BY <1>1, <2>1 DEF Shed
<1>2. ASSUME NEW ents, NEW hs, NEW rs, NEW bad, Flush(ents, hs, rs, bad) PROVE migrations' = <<>>
    BY <1>2 DEF Flush
<1>3. ASSUME NEW e \in Entities, NEW p, NEW bad, Move(e, p, bad) PROVE Shed
    BY <1>1, <1>2, <1>3, Zenon DEF Move
<1>4. ASSUME NEW e \in Entities, NEW p, NEW r, Spawn(e, p, r) PROVE Shed
    BY <1>1, <1>4 DEF Spawn, Arrive, pending
<1>5. ASSUME NEW e \in Entities, NEW p, NEW t, Adopt(e, p, t) PROVE Shed
    BY <1>1, <1>5 DEF Adopt, Arrive, pending
<1>6. CASE Tick
    BY <1>1, <1>2, <1>6 DEF Tick
<1>7. ASSUME NEW way, Rebalance(way) PROVE Shed
    BY <1>1, <1>7 DEF Rebalance, TopologyMoves
<1>8. ASSUME NEW region, Split(region) PROVE Shed
    BY <1>1, <1>8 DEF Split, TopologyMoves
<1>9. ASSUME NEW e, NEW bad, Reroute(e, bad) PROVE Shed
    BY <1>1, <1>9 DEF Reroute
<1>10. ASSUME NEW hot \in Workers, NEW cold \in Workers, RebalanceBlocks(hot, cold) PROVE Shed
    BY <1>10, RebalanceSheds
<1>11. CASE Restart
    BY <1>1, <1>11 DEF Restart
<1>12. CASE UNCHANGED vars
    BY <1>1, <1>12 DEF vars, pending
<1> QED
    BY <1>3, <1>4, <1>5, <1>6, <1>7, <1>8, <1>9, <1>10, <1>11, <1>12, Zenon DEF Next

\* No migration sheds more than the gap between the two workers, if a block that is
\* not above it could be shed, for all weights and numbers of blocks.
THEOREM MigrationsShed == Spec => Sheds
<1>1. TypeOK /\ [Next]_vars => [Shed]_vars
    BY StepSheds
<1>2. Spec => [][Shed]_vars
    BY <1>1, TypeCorrect, PTL DEF Spec
<1> QED
    BY <1>2, PTL DEF Sheds, Shed

(***************************************************************************)
(* Theorems of Partition: everyone is in its zone, assemblies are together *)
(* and blocks have one owner.                                              *)
(***************************************************************************)

(***************************************************************************)
(* Every entity is in its zone.                                            *)
(***************************************************************************)
Named(region) == conf.grid \/ IsStrip(region[1])

\* The same strips, bands and cells: the same answers.
LEMMA PlacesKept ==
    ASSUME UNCHANGED <<conf, bounds, splits>>
    PROVE  \A p, region : /\ At(p, region)' = At(p, region)
                          /\ Named(region)' = Named(region)
<1> SUFFICES ASSUME NEW p, NEW region
             PROVE  At(p, region)' = At(p, region) /\ Named(region)' = Named(region)
    OBVIOUS
<1>1. ASSUME NEW zone, NEW x PROVE Refine(zone, x)' = Refine(zone, x)
    BY DEF Refine, Zones, Count
<1>2. ASSUME NEW i PROVE StripName(i)' = StripName(i)
    BY DEF StripName
<1>3. ASSUME NEW zone PROVE IndexOfName(zone)' = IndexOfName(zone) /\ IsStrip(zone)' = IsStrip(zone)
    BY DEF IndexOfName, IsStrip
<1>4. ASSUME NEW x PROVE StripIndex(x)' = StripIndex(x)
    BY DEF StripIndex, Count
<1>5. ASSUME NEW x, NEW zone PROVE RegionAfter(x, zone)' = RegionAfter(x, zone)
    BY <1>2, <1>3, <1>4 DEF RegionAfter
<1>6. MovementRegionAfter(p[1], region)' = MovementRegionAfter(p[1], region)
    BY <1>1, <1>3, <1>5 DEF MovementRegionAfter
<1>7. Region2DAfter(p, region)' = Region2DAfter(p, region)
    BY DEF Region2DAfter, Region2D, HystereticCell, Clamp
<1> QED
    BY <1>3, <1>6, <1>7 DEF At, Named

\* A movement at the position leads to no other region of this broker.
Rests(p, region) == At(p, region) = region \/ IsRemote(At(p, region))

\* Of entities at ents, with hs staged: a root that is not exempt rests, or will
\* where its hand-off takes it, or is in jobs.
ZoneOf(ents, hs, jobs, exempt) ==
    /\ \A e \in Entities \ exempt :
          Parent[e] = None /\ Live(ents[e]) /\ StagedOf(hs, e) = {} /\ e \notin jobs
              /\ Named(ents[e].region)
          => Rests(ents[e].pos, ents[e].region)
    /\ \A i \in DOMAIN hs : Parent[hs[i].eid] = None /\ hs[i].eid \notin exempt
          => At(hs[i].pos, hs[i].to) = hs[i].to
ZoneInv == ZoneOf(ent, handoffs, job, overtaken)

\* A remote region stays one if it gets no worker.
LEMMA RemoteKept ==
    ASSUME TypeOK, UNCHANGED conf, DOMAIN regionWorker' \subseteq DOMAIN regionWorker,
           NEW region, IsRemote(region)
    PROVE  IsRemote(region)'
<1>1. region \in conf.mesh /\ region \notin DOMAIN regionWorker
    BY PartitionBounds DEF IsRemote, OwnerOf, TypeOK
<1> QED
    BY <1>1 DEF IsRemote, OwnerOf

LEMMA FlushZone ==
    ASSUME TypeOK, NEW ents, NEW hs \in Seq(Handoffs), NEW held \in BOOLEAN, NEW moved \in BOOLEAN,
           Flushed(ents, hs, held, moved),
           \A e \in Entities : FlushedOne(ents, hs, held, moved, e),
           UNCHANGED <<conf, topology, job>>, ZoneOf(ents, hs, job, overtaken')
    PROVE  ZoneInv'
<1>1. UNCHANGED <<conf, bounds, splits>>
    BY DEF topology
<1>2. DOMAIN regionWorker' = DOMAIN regionWorker
    BY DEF Flushed, MovedWorkers
<1>3. ASSUME NEW p, NEW region, Rests(p, region) PROVE Rests(p, region)'
    BY <1>1, <1>2, <1>3, PlacesKept, RemoteKept DEF Rests
<1>4. ASSUME NEW e \in Entities \ overtaken', Parent[e] = None, Live(ent'[e]),
             StagedOf(handoffs', e) = {}, e \notin job', Named(ent[e].region)'
      PROVE  Rests(ent[e].pos, ent[e].region)'
    <2>1. CASE held /\ StagedOf(hs, e) # {}
        <3>1. PICK i \in StagedOf(hs, e) : ent'[e].pos = hs[i].pos /\ ent'[e].region = hs[i].to
            BY <1>4, <2>1 DEF FlushedOne, Goes
        <3>2. At(hs[i].pos, hs[i].to) = hs[i].to
            BY <1>4, <3>1 DEF ZoneOf, StagedOf
        <3> QED
            BY <1>3, <3>1, <3>2 DEF Rests
    <2>2. CASE ~(held /\ StagedOf(hs, e) # {})
        <3>1. StagedOf(hs, e) = {}
            BY <1>4, <2>2 DEF Flushed
        <3>2. Live(ents[e]) /\ ent'[e].pos = ents[e].pos /\ ent'[e].region = ents[e].region
            BY <1>4, <2>2 DEF FlushedOne, Stays
        <3>3. e \notin job /\ Named(ents[e].region)
            BY <1>1, <1>4, <3>2, PlacesKept
        <3>4. Rests(ents[e].pos, ents[e].region)
            BY <1>4, <3>1, <3>2, <3>3 DEF ZoneOf
        <3> QED
            BY <1>3, <3>2, <3>4
    <2> QED
        BY <2>1, <2>2
<1>5. ASSUME NEW i \in DOMAIN handoffs', Parent[handoffs'[i].eid] = None,
             handoffs'[i].eid \notin overtaken'
      PROVE  At(handoffs[i].pos, handoffs[i].to)' = handoffs'[i].to
    <2>1. handoffs' = hs
        BY <1>5 DEF Flushed
    <2>2. At(hs[i].pos, hs[i].to) = hs[i].to
        BY <1>5, <2>1 DEF ZoneOf
    <2> QED
        BY <1>1, <2>1, <2>2, PlacesKept
<1> QED
    BY <1>4, <1>5 DEF ZoneInv, ZoneOf, StagedOf

\* A hand-off that is added takes a root where it rests.
LEMMA AddedZone ==
    ASSUME TypeOK, ZoneInv, NEW ents, Repositioned(ents), NEW e \in Entities, Live(ents[e]),
           \A x \in Entities \ {e} : ents[x] = ent[x],
           NEW to, to = At(ents[e].pos, ents[e].region), NEW bad, NEW hs,
           \/ Added(ents, e, to, bad, hs)
           \/ hs = handoffs /\ (Parent[e] # None \/ to = ents[e].region),
           NEW exempt, overtaken \subseteq exempt \cup {e}, Staged(e) => overtaken \subseteq exempt,
           ~Staged(e) /\ e \in bad => e \in exempt
    PROVE  ZoneOf(ents, hs, job \ {e}, exempt)
<1>1. StagedOf(handoffs, e) # {} <=> Staged(e)
    BY DEF Staged, StagedOf
<1>2. handoffs \in Seq(Handoffs)
    BY DEF TypeOK
<1>3. ents[e] \in Placement /\ ents[e].pos \in Position /\ ents[e].region \in Region
    BY DEF Repositioned, Live, Placement
<1>4. to \in Region /\ At(ents[e].pos, to) = to
    BY <1>3, AtSettles DEF SettledAt
<1>5. CASE hs = handoffs
    <2>1. ASSUME NEW x \in Entities \ exempt, Parent[x] = None, Live(ents[x]),
                 StagedOf(hs, x) = {}, x \notin job \ {e}, Named(ents[x].region)
          PROVE  Rests(ents[x].pos, ents[x].region)
        <3>1. CASE x # e
            BY <1>5, <2>1, <3>1 DEF ZoneInv, ZoneOf
        <3>2. CASE x = e
            <4>1. ~Staged(e) /\ e \notin bad
                BY <1>1, <1>5, <2>1, <3>2
            <4>2. CASE to = ents[e].region
                BY <3>2, <4>2 DEF Rests
            <4>3. CASE to # ents[e].region
                <5>1. Added(ents, e, to, bad, hs)
                    BY <2>1, <3>2, <4>3
                <5>2. IsRemote(to) \/ Queued(handoffs, hs, ents, e, to, bad)
                    BY <4>1, <5>1 DEF Added
                <5>3. ~Queued(handoffs, hs, ents, e, to, bad)
                    BY <1>2, <1>5 DEF Queued
                <5> QED
                    BY <3>2, <5>2, <5>3 DEF Rests
            <4> QED
                BY <4>2, <4>3
        <3> QED
            BY <3>1, <3>2
    <2>2. ASSUME NEW i \in DOMAIN hs, Parent[hs[i].eid] = None, hs[i].eid \notin exempt
          PROVE  At(hs[i].pos, hs[i].to) = hs[i].to
        <3>1. hs[i].eid \notin overtaken
            <4>1. CASE hs[i].eid = e
                BY <1>1, <1>5, <2>2, <4>1 DEF StagedOf
            <4>2. CASE hs[i].eid # e
                BY <2>2, <4>2
            <4> QED
                BY <4>1, <4>2
        <3> QED
            BY <1>5, <2>2, <3>1 DEF ZoneInv, ZoneOf
    <2> QED
        BY <2>1, <2>2 DEF ZoneOf
<1>6. CASE hs # handoffs
    <2>1. /\ Queued(handoffs, hs, ents, e, to, bad) /\ hs \in Seq(Handoffs)
        BY <1>6 DEF Added
    <2>2. ~Staged(e) /\ DOMAIN hs = 1 .. Len(hs) /\ DOMAIN handoffs = 1 .. Len(handoffs)
        BY <1>1, <1>2, <2>1 DEF Queued
    <2>3. /\ \A i \in DOMAIN handoffs : i \in DOMAIN hs /\ hs[i] = handoffs[i]
          /\ Len(handoffs) + 1 \in DOMAIN hs
          /\ hs[Len(handoffs) + 1] = Prepared(ents, e, to)
          /\ \A i \in DOMAIN hs : \/ i \in DOMAIN handoffs \/ i = Len(handoffs) + 1
                                  \/ \E c \in Parts(handoffs, ents, e, to, bad) :
                                        hs[i] = Prepared(ents, c, to)
        BY <1>2, <2>1, <2>2 DEF Queued
    <2>4. \A c \in Parts(handoffs, ents, e, to, bad) : Parent[c] = e /\ e # None
        BY PartitionBounds DEF Parts, Children
    <2>5. \A c : Prepared(ents, c, to).eid = c /\ Prepared(ents, c, to).to = to
                 /\ Prepared(ents, c, to).pos = ents[c].pos
        BY DEF Prepared
    <2>6. ASSUME NEW x \in Entities \ exempt, Parent[x] = None, Live(ents[x]),
                 StagedOf(hs, x) = {}, x \notin job \ {e}, Named(ents[x].region)
          PROVE  Rests(ents[x].pos, ents[x].region)
        <3>1. x # e
            BY <2>3, <2>5, <2>6 DEF StagedOf
        <3>2. StagedOf(handoffs, x) = {}
            BY <2>3, <2>6 DEF StagedOf
        <3> QED
            BY <2>6, <3>1, <3>2 DEF ZoneInv, ZoneOf
    <2>7. ASSUME NEW i \in DOMAIN hs, Parent[hs[i].eid] = None, hs[i].eid \notin exempt
          PROVE  At(hs[i].pos, hs[i].to) = hs[i].to
        <3>1. CASE i \in DOMAIN handoffs
            <4>1. hs[i] = handoffs[i] /\ handoffs[i].eid # e
                BY <1>1, <2>2, <2>3, <3>1 DEF StagedOf
            <4> QED
                BY <2>7, <3>1, <4>1 DEF ZoneInv, ZoneOf
        <3>2. CASE i = Len(handoffs) + 1
            <4>1. hs[i].to = to /\ hs[i].pos = ents[e].pos
                BY <2>3, <2>5, <3>2
            <4> QED
                BY <1>4, <4>1
        <3>3. CASE \E c \in Parts(handoffs, ents, e, to, bad) : hs[i] = Prepared(ents, c, to)
            BY <2>4, <2>5, <2>7, <3>3
        <3> QED
            BY <2>3, <3>1, <3>2, <3>3
    <2> QED
        BY <2>6, <2>7 DEF ZoneOf
<1> QED
    BY <1>5, <1>6

\* The zone a movement leads to, whatever its bands.
ZoneAt(x, region) == IF IsStrip(region[1]) THEN RegionAfter(x, region[1]) ELSE region[1]

LEMMA ZoneAtIs ==
    TypeOK /\ ~conf.grid => \A p \in Position, region \in Region :
        LET zone == ZoneAt(p[1], region) IN
        /\ zone \in Zone
        /\ At(p, region) = <<zone, IF zone \in Zones /\ p[1] >= splits[zone][1] THEN 1 ELSE 0>>
<1> SUFFICES ASSUME TypeOK, ~conf.grid, NEW p \in Position, NEW region \in Region
             PROVE  LET zone == ZoneAt(p[1], region) IN
                    /\ zone \in Zone
                    /\ At(p, region) = <<zone, IF zone \in Zones /\ p[1] >= splits[zone][1] THEN 1 ELSE 0>>
    OBVIOUS
<1>1. p[1] \in Int /\ region[1] \in Zone
    BY DEF Position, Region
<1>2. ZoneAt(p[1], region) \in Zone
    BY <1>1, StripAfter DEF ZoneAt
<1>3. At(p, region) = Refine(ZoneAt(p[1], region), p[1])
    BY DEF At, MovementRegionAfter, ZoneAt
<1> QED
    BY <1>1, <1>2, <1>3, RefineIs

LEMMA ZoneAtIsNext ==
    (TypeOK /\ ~conf.grid => \A p \in Position, region \in Region :
        LET zone == ZoneAt(p[1], region) IN
        /\ zone \in Zone
        /\ At(p, region) = <<zone, IF zone \in Zones /\ p[1] >= splits[zone][1] THEN 1 ELSE 0>>)'
BY ZoneAtIs, PTL

\* The strips do not depend on the bands.
LEMMA StripsKept ==
    ASSUME UNCHANGED bounds
    PROVE  \A x, region : /\ IsStrip(region[1])' = IsStrip(region[1])
                          /\ ZoneAt(x, region)' = ZoneAt(x, region)
<1> SUFFICES ASSUME NEW x, NEW region
             PROVE  /\ IsStrip(region[1])' = IsStrip(region[1])
                    /\ ZoneAt(x, region)' = ZoneAt(x, region)
    OBVIOUS
<1>1. ASSUME NEW i PROVE StripName(i)' = StripName(i)
    BY DEF StripName
<1>2. ASSUME NEW zone PROVE IndexOfName(zone)' = IndexOfName(zone) /\ IsStrip(zone)' = IsStrip(zone)
    BY DEF IndexOfName, IsStrip
<1>3. StripIndex(x)' = StripIndex(x)
    BY DEF StripIndex, Count
<1>4. ASSUME NEW zone PROVE RegionAfter(x, zone)' = RegionAfter(x, zone)
    BY <1>1, <1>2, <1>3 DEF RegionAfter
<1> QED
    BY <1>2, <1>4 DEF ZoneAt

LEMMA SplitZone ==
    ASSUME TypeOK, ZoneInv, NEW region \in DOMAIN regionWorker, Split(region)
    PROVE  ZoneInv'
<1>1. PICK median : SplitAt(region, median)
    BY SplitIs
<1>2. /\ ~conf.grid /\ job = {} /\ UNCHANGED <<conf, ent, handoffs>> /\ bounds' = bounds
      /\ overtaken' = overtaken \cup {handoffs[i].eid : i \in DOMAIN handoffs}
      /\ DOMAIN regionWorker' = DOMAIN regionWorker \cup {<<region[1], 1>>}
    BY DEF Split, TopologyMoves, With
<1>3. TypeOK'
    BY SplitIs
<1>4. ASSUME NEW p \in Position, NEW r \in Region, Rests(p, r), r = region => p[1] < median
      PROVE  Rests(p, r)'
    <2> DEFINE zone == ZoneAt(p[1], r)
    <2>1. At(p, r) = <<zone, IF zone \in Zones /\ p[1] >= splits[zone][1] THEN 1 ELSE 0>>
        BY <1>2, ZoneAtIs
    <2>2. At(p, r)' = <<zone, IF zone \in Zones' /\ p[1] >= splits'[zone][1] THEN 1 ELSE 0>>
        <3>1. ZoneAt(p[1], r)' = zone
            BY <1>2, StripsKept
        <3>2. ~conf'.grid
            BY <1>2
        <3> QED
            BY <1>3, <3>1, <3>2, ZoneAtIsNext
    <2>3. CASE zone # region[1]
        <3>1. At(p, r)' = At(p, r)
            BY <1>1, <2>1, <2>2, <2>3 DEF SplitAt, Zones
        <3>2. ASSUME NEW q, q # <<region[1], 1>>, IsRemote(q) PROVE IsRemote(q)'
            <4>1. q \in conf.mesh /\ q \notin DOMAIN regionWorker
                BY <3>2, PartitionBounds DEF IsRemote, OwnerOf, TypeOK
            <4> QED
                BY <1>2, <3>2, <4>1 DEF IsRemote, OwnerOf
        <3>3. At(p, r) # <<region[1], 1>>
            BY <2>1, <2>3
        <3> QED
            BY <1>4, <3>1, <3>2, <3>3 DEF Rests
    <2>4. CASE zone = region[1]
        <3>1. region = <<region[1], 0>> /\ region[1] \notin Zones
            BY <1>1 DEF SplitAt, Region
        <3>2. At(p, r) = region
            BY <2>1, <2>4, <3>1
        <3>3. ~IsRemote(region)
            BY <1>1, PartitionBounds DEF IsRemote, OwnerOf, TypeOK, SplitAt
        <3>4. r = region /\ p[1] < median
            BY <1>4, <3>2, <3>3 DEF Rests
        <3>5. p[1] \in Int /\ median \in Int /\ splits'[zone][1] = median
            BY <1>1, <2>4 DEF SplitAt, Position
        <3>6. At(p, r)' = region
            BY <2>2, <2>4, <3>1, <3>4, <3>5
        <3> QED
            BY <3>4, <3>6 DEF Rests
    <2> QED
        BY <2>3, <2>4
<1>5. ASSUME NEW e \in Entities \ overtaken', Parent[e] = None, Live(ent[e]),
             StagedOf(handoffs, e) = {}, e \notin job', Named(ent[e].region)'
      PROVE  Rests(ent[e].pos, ent[e].region)'
    <2>1. ent[e] \in Placement /\ ent[e].pos \in Position /\ ent[e].region \in Region
        BY <1>5 DEF TypeOK, Live, Placement
    <2>2. Named(ent[e].region)
        BY <1>2, <1>5, StripsKept DEF Named
    <2>3. Rests(ent[e].pos, ent[e].region)
        BY <1>2, <1>5, <2>2 DEF ZoneInv, ZoneOf
    <2>4. ent[e].region = region => ent[e].pos[1] < median
        <3>1. ent[e].pos[1] \in Int /\ median \in Int
            BY <1>1, <2>1 DEF SplitAt, Position
        <3> QED
            BY <1>1, <1>5, <3>1 DEF SplitAt, InRegion
    <2> QED
        BY <1>2, <1>4, <2>1, <2>3, <2>4
<1>6. \A i \in DOMAIN handoffs' : handoffs'[i].eid \in overtaken'
    BY <1>2
<1> QED
    BY <1>2, <1>5, <1>6 DEF ZoneInv, ZoneOf, StagedOf

LEMMA RebalanceZone ==
    ASSUME TypeOK, NEW way \in {Step, -Step}, Rebalance(way)
    PROVE  ZoneInv'
<1>1. /\ ~conf.grid /\ UNCHANGED <<conf, ent, handoffs>> /\ job' = Misplaced'
      /\ overtaken' = overtaken \cup {handoffs[i].eid : i \in DOMAIN handoffs}
    BY DEF Rebalance, TopologyMoves
<1>2. ASSUME NEW e \in Entities, Live(ent'[e]), e \notin job', Named(ent[e].region)'
      PROVE  Rests(ent[e].pos, ent[e].region)'
    <2>1. MovementRegionAfter(ent[e].pos[1], ent[e].region)' = ent'[e].region
        BY <1>1, <1>2 DEF Misplaced, Named
    <2> QED
        BY <1>1, <2>1 DEF Rests, At
<1>3. \A i \in DOMAIN handoffs' : handoffs'[i].eid \in overtaken'
    BY <1>1
<1> QED
    BY <1>2, <1>3 DEF ZoneInv, ZoneOf

LEMMA MoveZone ==
    ASSUME TypeOK, ZoneInv, NEW e \in Entities, NEW p \in conf.spots, NEW bad, Move(e, p, bad)
    PROVE  ZoneInv'
<1> DEFINE ents == Moved(e, p)
           to == At(p, ent[e].region)
           zoned == Parent[e] = None /\ to # ent[e].region
<1>1. /\ Live(ent[e]) /\ p \in Position /\ (bad # {} => zoned /\ ~Staged(e))
      /\ \E hs, held, moved :
            /\ held \in BOOLEAN /\ moved \in BOOLEAN /\ hs \in Seq(Handoffs)
            /\ IF zoned THEN Added(ents, e, to, bad, hs) ELSE hs = handoffs
            /\ Flushed(ents, hs, held, moved)
            /\ \A x \in Entities : FlushedOne(ents, hs, held, moved, x)
    BY MoveIs
<1>2. PICK hs, held, moved :
            /\ held \in BOOLEAN /\ moved \in BOOLEAN /\ hs \in Seq(Handoffs)
            /\ IF zoned THEN Added(ents, e, to, bad, hs) ELSE hs = handoffs
            /\ Flushed(ents, hs, held, moved)
            /\ \A x \in Entities : FlushedOne(ents, hs, held, moved, x)
    BY <1>1, Zenon
<1>3. /\ Repositioned(ents) /\ Live(ents[e]) /\ ents[e].pos = p /\ ents[e].region = ent[e].region
      /\ \A x \in Entities \ {e} : ents[x] = ent[x]
    BY <1>1, MovedIs DEF Repositioned
<1>4. /\ UNCHANGED <<conf, topology, job>>
      /\ overtaken' = IF Staged(e) THEN overtaken
                      ELSE IF e \in bad THEN overtaken \cup {e} ELSE overtaken \ {e}
    BY Zenon DEF Move
<1>5. ZoneOf(ents, hs, job \ {e}, overtaken')
    <2>1. to = At(ents[e].pos, ents[e].region)
        BY <1>3
    <2>2. \/ Added(ents, e, to, bad, hs)
          \/ hs = handoffs /\ (Parent[e] # None \/ to = ents[e].region)
        BY <1>2, <1>3
    <2>3. /\ overtaken \subseteq overtaken' \cup {e} /\ (Staged(e) => overtaken \subseteq overtaken')
          /\ ~Staged(e) /\ e \in bad => e \in overtaken'
        BY <1>4
    <2> HIDE DEF ents, to
    <2> QED
        BY <1>3, <2>1, <2>2, <2>3, AddedZone
<1>6. ZoneOf(ents, hs, job, overtaken')
    BY <1>5 DEF ZoneOf
<1> HIDE DEF ents
<1> QED
    BY <1>2, <1>4, <1>6, FlushZone

LEMMA RerouteZone ==
    ASSUME TypeOK, ZoneInv, NEW e \in job, NEW bad, Reroute(e, bad)
    PROVE  ZoneInv'
<1> DEFINE to == RegionOf(ent[e])
<1>1. /\ e \in Entities /\ (bad # {} => Routed(e)) /\ job' = job \ {e}
      /\ handoffs' \in Seq(Handoffs)
      /\ IF Routed(e) THEN Added(ent, e, to, bad, handoffs') ELSE handoffs' = handoffs
    BY RerouteIs
<1>2. /\ UNCHANGED <<conf, topology, regionWorker, ent>>
      /\ overtaken' = overtaken \cup (bad \cap {e})
    BY DEF Reroute
<1>3. ~conf.grid
    BY DEF TypeOK
<1>4. to = At(ent[e].pos, ent[e].region)
    BY DEF RegionOf, At
<1>5. ZoneOf(ent, handoffs', job \ {e}, overtaken')
    <2>1. CASE Live(ent[e]) /\ (Routed(e) \/ to = ent[e].region)
        <3>1. Repositioned(ent)
            BY DEF Repositioned, TypeOK
        <3>2. \/ Added(ent, e, to, bad, handoffs')
              \/ handoffs' = handoffs /\ (Parent[e] # None \/ to = ent[e].region)
            BY <1>1, <2>1
        <3>3. /\ overtaken \subseteq overtaken' \cup {e}
              /\ (Staged(e) => overtaken \subseteq overtaken')
              /\ ~Staged(e) /\ e \in bad => e \in overtaken'
            BY <1>2
        <3> HIDE DEF to
        <3> QED
            BY <1>1, <1>4, <2>1, <3>1, <3>2, <3>3, AddedZone
    <2>2. CASE ~(Live(ent[e]) /\ (Routed(e) \/ to = ent[e].region))
        <3>1. handoffs' = handoffs /\ ~(Live(ent[e]) /\ Named(ent[e].region))
            BY <1>1, <1>3, <2>2 DEF Routed, Named
        <3>2. overtaken \subseteq overtaken'
            BY <1>2
        <3> QED
            BY <3>1, <3>2 DEF ZoneInv, ZoneOf
    <2> QED
        BY <2>1, <2>2
<1> HIDE DEF to
<1>6. UNCHANGED <<conf, bounds, splits>>
    BY <1>2 DEF topology
<1>7. ASSUME NEW q, NEW region, Rests(q, region) PROVE Rests(q, region)'
    BY <1>2, <1>6, <1>7, PlacesKept, RemoteKept DEF Rests
<1>8. ASSUME NEW x \in Entities \ overtaken', Parent[x] = None, Live(ent'[x]),
             StagedOf(handoffs', x) = {}, x \notin job', Named(ent[x].region)'
      PROVE  Rests(ent[x].pos, ent[x].region)'
    <2>1. Named(ent[x].region)
        BY <1>2, <1>6, <1>8, PlacesKept
    <2>2. Rests(ent[x].pos, ent[x].region)
        BY <1>1, <1>2, <1>5, <1>8, <2>1 DEF ZoneOf
    <2> QED
        BY <1>2, <1>7, <2>2
<1>9. ASSUME NEW i \in DOMAIN handoffs', Parent[handoffs'[i].eid] = None,
             handoffs'[i].eid \notin overtaken'
      PROVE  At(handoffs[i].pos, handoffs[i].to)' = handoffs'[i].to
    BY <1>5, <1>6, <1>9, PlacesKept DEF ZoneOf
<1> QED
    BY <1>8, <1>9 DEF ZoneInv, ZoneOf, StagedOf

\* What is where it was, under the same map, rests where it did.
LEMMA SameZone ==
    ASSUME TypeOK, ZoneInv, UNCHANGED <<conf, bounds, splits, job, handoffs>>,
           DOMAIN regionWorker' \subseteq DOMAIN regionWorker, overtaken \subseteq overtaken',
           \A e \in Entities \ overtaken' : ent'[e] = ent[e] \/ Rests(ent[e].pos, ent[e].region)'
    PROVE  ZoneInv'
<1>1. ASSUME NEW q, NEW region, Rests(q, region) PROVE Rests(q, region)'
    BY <1>1, PlacesKept, RemoteKept DEF Rests
<1>2. ASSUME NEW x \in Entities \ overtaken', Parent[x] = None, Live(ent'[x]),
             StagedOf(handoffs', x) = {}, x \notin job', Named(ent[x].region)', ent'[x] = ent[x]
      PROVE  Rests(ent[x].pos, ent[x].region)'
    <2>1. Named(ent[x].region)
        BY <1>2, PlacesKept
    <2>2. Rests(ent[x].pos, ent[x].region)
        BY <1>2, <2>1 DEF ZoneInv, ZoneOf
    <2> QED
        BY <1>1, <1>2, <2>2
<1>3. ASSUME NEW i \in DOMAIN handoffs', Parent[handoffs'[i].eid] = None,
             handoffs'[i].eid \notin overtaken'
      PROVE  At(handoffs[i].pos, handoffs[i].to)' = handoffs'[i].to
    <2>1. At(handoffs[i].pos, handoffs[i].to) = handoffs[i].to
        BY <1>3 DEF ZoneInv, ZoneOf
    <2> QED
        BY <2>1, PlacesKept
<1> QED
    BY <1>2, <1>3 DEF ZoneInv, ZoneOf, StagedOf

LEMMA SpawnZone ==
    ASSUME TypeOK, ZoneInv, NEW e \in Entities, NEW p \in conf.spots,
           NEW requested \in {None, Planet}, Spawn(e, p, requested)
    PROVE  ZoneInv'
<1>1. PICK region : SettledAt(p, region) /\ Arrive(e, p, region)
    BY SpawnIs
<1>2. overtaken' = overtaken
    BY DEF Spawn
<1>3. /\ UNCHANGED <<conf, bounds, splits, job, handoffs, regionWorker>>
      /\ ent' = [ent EXCEPT ![e] = [pos |-> p, region |-> region, owner |-> OwnerOf(region)]]
    BY <1>1 DEF Arrive, topology, pending
<1>4. ASSUME NEW x \in Entities \ overtaken'
      PROVE  ent'[x] = ent[x] \/ Rests(ent[x].pos, ent[x].region)'
    <2>1. CASE x = e
        <3>1. ent'[x].pos = p /\ ent'[x].region = region
            BY <1>3, <2>1 DEF TypeOK
        <3>2. At(p, region)' = region
            BY <1>1, <1>3, PlacesKept DEF SettledAt
        <3> QED
            BY <3>1, <3>2 DEF Rests
    <2>2. CASE x # e
        BY <1>3, <2>2 DEF TypeOK
    <2> QED
        BY <2>1, <2>2
<1> QED
    BY <1>2, <1>3, <1>4, SameZone

LEMMA AdoptZone ==
    ASSUME TypeOK, ZoneInv, NEW e \in Entities, NEW p \in conf.spots, NEW target \in Targets,
           Adopt(e, p, target)
    PROVE  ZoneInv'
<1>1. Arrive(e, p, ReceivingRegion(p, target)) /\ overtaken' = overtaken \cup {e}
    BY DEF Adopt
<1>2. /\ UNCHANGED <<conf, bounds, splits, job, handoffs, regionWorker>>
      /\ \A x \in Entities \ overtaken' : ent'[x] = ent[x]
    BY <1>1 DEF Arrive, topology, pending, TypeOK
<1> QED
    BY <1>1, <1>2, SameZone

LEMMA RestartZone ==
    ASSUME Base, ZoneInv, Restart
    PROVE  ZoneInv'
<1> USE DEF Base
<1>1. PICK n \in 0 .. Len(handoffs), line \in Seq(Handoffs) :
          LET lost == {handoffs[i].eid : i \in n + 1 .. Len(handoffs)}
          IN  /\ DOMAIN line = 1 .. n
              /\ \A i \in 1 .. n : line[i] = handoffs[i]
              /\ ent' = ApplyHandoffs(ent, line)
              /\ overtaken' = IF logged.bounds = bounds /\ logged.splits = splits
                              THEN overtaken \cup job \cup lost ELSE Entities
    BY RestartIs, Zenon
<1> DEFINE lost == {handoffs[i].eid : i \in n + 1 .. Len(handoffs)}
<1>2. /\ ~conf.grid /\ conf' = conf /\ bounds' = logged.bounds /\ splits' = logged.splits
      /\ regionWorker' = conf.owners /\ handoffs' = <<>>
    BY DEF Restart
<1>3. CASE ~(logged.bounds = bounds /\ logged.splits = splits)
    BY <1>1, <1>2, <1>3 DEF ZoneInv, ZoneOf
<1>4. CASE logged.bounds = bounds /\ logged.splits = splits
    <2>1. UNCHANGED <<conf, bounds, splits>> /\ overtaken' = overtaken \cup job \cup lost
        BY <1>1, <1>2, <1>4
    <2>2. ASSUME NEW q, NEW region, Rests(q, region) PROVE Rests(q, region)'
        <3>1. DOMAIN regionWorker' \subseteq DOMAIN regionWorker
            BY <1>2 DEF OwnersStay
        <3> QED
            BY <2>1, <2>2, <3>1, PlacesKept, RemoteKept DEF Rests
    <2>3. ASSUME NEW e \in Entities \ overtaken', Parent[e] = None, Live(ent'[e]), Named(ent[e].region)'
          PROVE  Rests(ent[e].pos, ent[e].region)'
        <3>1. /\ (Live(ent'[e]) <=> Live(ent[e])) /\ (StagedOf(line, e) = {} => ent'[e] = ent[e])
              /\ Live(ent[e]) /\ StagedOf(line, e) # {} =>
                    \E i \in StagedOf(line, e) :
                        ent'[e] = [pos |-> line[i].pos, region |-> line[i].to, owner |-> line[i].owner]
            <4>1. ent \in [Entities -> Placement \cup {None}]
                BY DEF TypeOK
            <4> QED
                BY <1>1, <4>1, ApplyHandoffsIs
        <3>2. CASE StagedOf(line, e) = {}
            <4>1. ent'[e] = ent[e] /\ e \notin overtaken /\ e \notin job /\ e \notin lost
                BY <2>1, <2>3, <3>1, <3>2
            <4>2. StagedOf(handoffs, e) = {}
                <5> SUFFICES ASSUME NEW i \in DOMAIN handoffs, handoffs[i].eid = e PROVE FALSE
                    BY DEF StagedOf
                <5>1. i \in 1 .. n
                    BY <4>1 DEF TypeOK
                <5>2. i \in StagedOf(line, e)
                    BY <1>1, <5>1 DEF StagedOf
                <5> QED
                    BY <3>2, <5>2
            <4>3. Named(ent[e].region)
                BY <2>1, <2>3, <4>1, PlacesKept
            <4>4. Rests(ent[e].pos, ent[e].region)
                BY <2>3, <3>1, <4>1, <4>2, <4>3 DEF ZoneInv, ZoneOf
            <4> QED
                BY <2>2, <4>1, <4>4
        <3>3. CASE StagedOf(line, e) # {}
            <4>1. PICK i \in StagedOf(line, e) :
                      ent'[e] = [pos |-> line[i].pos, region |-> line[i].to, owner |-> line[i].owner]
                BY <2>3, <3>1, <3>3
            <4>2. line[i] = handoffs[i] /\ handoffs[i].eid = e /\ i \in DOMAIN handoffs
                BY <1>1, <4>1 DEF StagedOf, TypeOK
            <4>3. ent'[e].pos = handoffs[i].pos /\ ent'[e].region = handoffs[i].to
                BY <4>1, <4>2
            <4>4. At(handoffs[i].pos, handoffs[i].to) = handoffs[i].to
                BY <2>1, <2>3, <4>2 DEF ZoneInv, ZoneOf
            <4>5. Rests(handoffs[i].pos, handoffs[i].to)
                BY <4>4 DEF Rests
            <4> QED
                BY <2>2, <4>3, <4>5
        <3> QED
            BY <3>2, <3>3
    <2> QED
        BY <1>2, <2>3 DEF ZoneInv, ZoneOf
<1> QED
    BY <1>3, <1>4

LEMMA ZoneStep == Base /\ ZoneInv /\ [Next]_vars => ZoneInv'
<1> SUFFICES ASSUME Base, TypeOK, ZoneInv, [Next]_vars PROVE ZoneInv'
    BY DEF Base
<1>1. ASSUME NEW e \in Entities, NEW p \in conf.spots, NEW bad, Move(e, p, bad)
      PROVE  ZoneInv'
    BY <1>1, MoveZone
<1>2. ASSUME NEW e \in Entities, NEW p \in conf.spots, NEW requested \in {None, Planet},
             Spawn(e, p, requested)
      PROVE  ZoneInv'
    BY <1>2, SpawnZone
<1>3. ASSUME NEW e \in Entities, NEW p \in conf.spots, NEW target \in Targets, Adopt(e, p, target)
      PROVE  ZoneInv'
    BY <1>3, AdoptZone
<1>4. CASE Tick
    <2>1. PICK held \in BOOLEAN, moved \in BOOLEAN :
              /\ Flushed(ent, handoffs, held, moved)
              /\ \A x \in Entities : FlushedOne(ent, handoffs, held, moved, x)
        BY <1>4, TickIs
    <2>2. UNCHANGED <<conf, topology, job, overtaken>> /\ handoffs \in Seq(Handoffs)
        BY <1>4 DEF Tick, TypeOK
    <2>3. ZoneOf(ent, handoffs, job, overtaken')
        BY <2>2 DEF ZoneInv
    <2> QED
        BY <2>1, <2>2, <2>3, FlushZone
<1>5. ASSUME NEW way \in {Step, -Step}, Rebalance(way) PROVE ZoneInv'
    BY <1>5, RebalanceZone
<1>6. ASSUME NEW region \in DOMAIN regionWorker, Split(region) PROVE ZoneInv'
    BY <1>6, SplitZone
<1>7. ASSUME NEW e \in job, NEW bad, Reroute(e, bad) PROVE ZoneInv'
    BY <1>7, RerouteZone
<1>8. ASSUME UNCHANGED <<conf, topology, job, handoffs, regionWorker, overtaken, ent>>
      PROVE  ZoneInv'
    BY <1>8, SameZone DEF topology
<1>9. ASSUME NEW hot \in Workers, NEW cold \in Workers, RebalanceBlocks(hot, cold) PROVE ZoneInv'
    BY <1>8, <1>9 DEF RebalanceBlocks
<1>10. CASE Restart
    BY <1>10, RestartZone
<1>11. CASE UNCHANGED vars
    BY <1>8, <1>11 DEF vars, pending, histories
<1> QED
    BY <1>1, <1>2, <1>3, <1>4, <1>5, <1>6, <1>7, <1>9, <1>10, <1>11, Zenon DEF Next

LEMMA RestsInItsZone == TypeOK /\ ZoneInv => InItsZone
<1> SUFFICES ASSUME TypeOK, ZoneInv, job = {}, handoffs = <<>>, NEW e \in Entities \ overtaken,
                    Live(ent[e]), Parent[e] = None, ~IsRemote(RegionOf(ent[e])),
                    conf.grid \/ IsStrip(ent[e].region[1])
             PROVE  Within(ent[e].pos, ent[e].region) /\ InBand(ent[e].pos, ent[e].region)
    BY DEF InItsZone
<1>1. ent[e] \in Placement /\ ent[e].pos \in Position /\ ent[e].region \in Region
    BY DEF TypeOK, Live, Placement
<1>2. StagedOf(handoffs, e) = {}
    BY DEF StagedOf
<1>3. Rests(ent[e].pos, ent[e].region)
    BY <1>2 DEF ZoneInv, ZoneOf, Named
<1>4. RegionOf(ent[e]) = At(ent[e].pos, ent[e].region)
    BY DEF RegionOf, At
<1>5. At(ent[e].pos, ent[e].region) = ent[e].region
    BY <1>3, <1>4 DEF Rests
<1> QED
    BY <1>1, <1>5, AtSettles DEF SettledAt

\* With no re-routing in progress every root that has not been overtaken is in its
\* strip or cell, give or take the hysteresis, and in the right band, however the
\* boundaries moved, whatever was split and handed off, and across restarts.
THEOREM EveryoneInItsZone == Spec => []InItsZone
<1>1. Init => ZoneInv
    <2> SUFFICES ASSUME Init PROVE ZoneInv
        OBVIOUS
    <2>1. handoffs = <<>> /\ \A e \in Entities : ~Live(ent[e])
        BY DEF Init, Live
    <2> QED
        BY <2>1 DEF ZoneInv, ZoneOf
<1>2. Spec => []ZoneInv
    <2>1. Init /\ [][Next]_vars /\ []Base => []ZoneInv
        BY <1>1, ZoneStep, PTL
    <2> QED
        BY <2>1, BaseHolds, PTL DEF Spec
<1> QED
    BY <1>2, TypeCorrect, RestsInItsZone, PTL

(***************************************************************************)
(* An assembly stays together.                                             *)
(***************************************************************************)
\* Of entities at ents, with hs staged: a child that is not exempt is where its
\* root is, or both are staged, the root before the child and to the same region.
TogetherOf(ents, hs, exempt) ==
    /\ \A k \in Entities \ exempt : LET r == Parent[k] IN
          r # None /\ Live(ents[k]) /\ Live(ents[r]) =>
              /\ StagedOf(hs, r) # {} => StagedOf(hs, k) # {}
              /\ StagedOf(hs, r) = {} => ents[k].region = ents[r].region
    /\ \A i \in DOMAIN hs : hs[i].eid \notin exempt /\ Parent[hs[i].eid] # None =>
          \E j \in DOMAIN hs : j < i /\ hs[j].eid = Parent[hs[i].eid] /\ hs[j].to = hs[i].to
AssemblyInv == TogetherOf(ent, handoffs, alone)

\* Roots are entities, and have no root.
LEMMA RootsAre ==
    \A k \in Entities : Parent[k] # None =>
        Parent[k] \in Entities /\ Parent[Parent[k]] = None /\ Parent[k] # k
BY PartitionBounds

LEMMA FlushTogether ==
    ASSUME TypeOK, NEW ents, NEW hs \in Seq(Handoffs), OneEach(hs), NEW held \in BOOLEAN,
           NEW moved \in BOOLEAN, Flushed(ents, hs, held, moved),
           \A e \in Entities : FlushedOne(ents, hs, held, moved, e), TogetherOf(ents, hs, alone')
    PROVE  AssemblyInv'
<1>1. ASSUME NEW k \in Entities \ alone', Parent[k] # None, Live(ent'[k]), Live(ent'[Parent[k]])
      PROVE  /\ StagedOf(handoffs', Parent[k]) # {} => StagedOf(handoffs', k) # {}
             /\ StagedOf(handoffs', Parent[k]) = {} => ent'[k].region = ent'[Parent[k]].region
    <2> DEFINE r == Parent[k]
    <2>1. r \in Entities /\ k \in Entities
        BY <1>1, RootsAre
    <2>2. /\ Live(ents[k]) /\ Live(ents[r])
          /\ IF held /\ StagedOf(hs, k) # {} THEN Goes(hs, ent', k) ELSE Stays(ents, ent', k)
          /\ IF held /\ StagedOf(hs, r) # {} THEN Goes(hs, ent', r) ELSE Stays(ents, ent', r)
        BY <1>1, <2>1 DEF FlushedOne
    <2>3. /\ StagedOf(hs, r) # {} => StagedOf(hs, k) # {}
          /\ StagedOf(hs, r) = {} => ents[k].region = ents[r].region
        BY <1>1, <2>2 DEF TogetherOf
    <2>4. ASSUME NEW i \in StagedOf(hs, k)
          PROVE  \E j \in StagedOf(hs, r) : hs[j].to = hs[i].to
        BY <1>1, <2>4 DEF TogetherOf, StagedOf
    <2>5. CASE held
        <3>1. StagedOf(handoffs', r) = {}
            BY <2>5 DEF Flushed, StagedOf
        <3>2. CASE StagedOf(hs, r) = {}
            <4>1. StagedOf(hs, k) = {}
                BY <2>4, <3>2
            <4> QED
                BY <2>2, <2>3, <3>1, <3>2, <4>1 DEF Stays
        <3>3. CASE StagedOf(hs, r) # {}
            <4>1. PICK i \in StagedOf(hs, k) : ent'[k].region = hs[i].to
                BY <2>2, <2>3, <2>5, <3>3 DEF Goes
            <4>2. PICK j \in StagedOf(hs, r) : ent'[r].region = hs[j].to
                BY <2>2, <2>5, <3>3 DEF Goes
            <4>3. PICK l \in StagedOf(hs, r) : hs[l].to = hs[i].to
                BY <2>4
            <4>4. j = l
                BY <4>2, <4>3 DEF StagedOf, OneEach
            <4> QED
                BY <3>1, <4>1, <4>2, <4>3, <4>4
        <3> QED
            BY <3>2, <3>3
    <2>6. CASE ~held
        <3>1. handoffs' = hs
            BY <2>6 DEF Flushed
        <3> QED
            BY <2>2, <2>3, <2>6, <3>1 DEF Stays
    <2> QED
        BY <2>5, <2>6
<1>2. ASSUME NEW i \in DOMAIN handoffs', handoffs'[i].eid \notin alone', Parent[handoffs'[i].eid] # None
      PROVE  \E j \in DOMAIN handoffs' : /\ j < i /\ handoffs'[j].eid = Parent[handoffs'[i].eid]
                                         /\ handoffs'[j].to = handoffs'[i].to
    <2>1. handoffs' = hs
        BY <1>2 DEF Flushed
    <2> QED
        BY <1>2, <2>1 DEF TogetherOf
<1>3. TogetherOf(ent', handoffs', alone')
    BY <1>1, <1>2 DEF TogetherOf
<1> QED
    BY <1>3 DEF AssemblyInv, TogetherOf, StagedOf

\* The children go where their root goes.
LEMMA AddedTogether ==
    ASSUME TypeOK, AssemblyInv, NEW ents, Repositioned(ents), NEW e \in Entities, Live(ents[e]),
           NEW to, to # ents[e].region, NEW bad, NEW hs, Added(ents, e, to, bad, hs),
           NEW exempt, alone \cup (bad \ {e}) \subseteq exempt, Parent[e] # None => e \in exempt
    PROVE  TogetherOf(ents, hs, exempt)
<1>1. handoffs \in Seq(Handoffs)
    BY DEF TypeOK
<1>2. \A x \in Entities : /\ Live(ents[x]) <=> Live(ent[x])
                          /\ Live(ent[x]) => ents[x].region = ent[x].region
    BY DEF Repositioned
<1>3. CASE hs = handoffs
    <2>1. TogetherOf(ents, handoffs, exempt)
        BY <1>2, RootsAre DEF AssemblyInv, TogetherOf
    <2> QED
        BY <1>3, <2>1
<1>4. CASE hs # handoffs
    <2>1. Queued(handoffs, hs, ents, e, to, bad) /\ hs \in Seq(Handoffs)
        BY <1>4 DEF Added
    <2> DEFINE n == Len(handoffs)  parts == Parts(handoffs, ents, e, to, bad)
    <2>0. n \in Nat /\ Len(hs) \in Nat /\ DOMAIN hs = 1 .. Len(hs) /\ DOMAIN handoffs = 1 .. n
        BY <1>1, <2>1
    <2> HIDE DEF parts
    <2>2. /\ n \in Nat /\ DOMAIN hs = 1 .. Len(hs) /\ DOMAIN handoffs = 1 .. n
          /\ StagedOf(handoffs, e) = {}
          /\ \A i \in DOMAIN handoffs : i \in DOMAIN hs /\ hs[i] = handoffs[i]
          /\ n + 1 \in DOMAIN hs /\ hs[n + 1] = Prepared(ents, e, to)
          /\ \A i \in DOMAIN hs : \/ i \in DOMAIN handoffs \/ i = n + 1
                                  \/ i > n + 1 /\ \E c \in parts : hs[i] = Prepared(ents, c, to)
          /\ \A c \in parts : \E i \in DOMAIN hs : hs[i] = Prepared(ents, c, to)
        <3>1. /\ StagedOf(handoffs, e) = {} /\ n + 1 <= Len(hs) /\ \A i \in 1 .. n : hs[i] = handoffs[i]
              /\ hs[n + 1] = Prepared(ents, e, to)
              /\ \A i \in n + 2 .. Len(hs) : \E c \in parts : hs[i] = Prepared(ents, c, to)
              /\ \A c \in parts : \E i \in n + 2 .. Len(hs) : hs[i] = Prepared(ents, c, to)
            BY <2>1 DEF Queued, parts
        <3>2. /\ \A i \in DOMAIN handoffs : i \in DOMAIN hs /\ hs[i] = handoffs[i]
              /\ n + 1 \in DOMAIN hs
            BY <2>0, <3>1
        <3>3. \A i \in DOMAIN hs : \/ i \in DOMAIN handoffs \/ i = n + 1
                                   \/ i > n + 1 /\ \E c \in parts : hs[i] = Prepared(ents, c, to)
            BY <2>0, <3>1
        <3>4. ASSUME NEW c \in parts PROVE \E i \in DOMAIN hs : hs[i] = Prepared(ents, c, to)
            <4>1. PICK i \in n + 2 .. Len(hs) : hs[i] = Prepared(ents, c, to)
                BY <3>1
            <4>2. i \in DOMAIN hs
                BY <2>0, <4>1
            <4> QED
                BY <4>1, <4>2
        <3> QED
            BY <2>0, <3>1, <3>2, <3>3, <3>4
    <2>3. \A c : Prepared(ents, c, to).eid = c /\ Prepared(ents, c, to).to = to
        BY DEF Prepared
    <2>4. \A c \in parts : c \in Entities /\ Parent[c] = e /\ e # None
        BY PartitionBounds DEF parts, Parts, Children
    <2>5. \A x : StagedOf(handoffs, x) # {} => StagedOf(hs, x) # {}
        BY <2>2 DEF StagedOf
    <2>6. \A x : StagedOf(hs, x) # {} => x = e \/ x \in parts \/ StagedOf(handoffs, x) # {}
        BY <2>2, <2>3 DEF StagedOf
    <2> HIDE DEF n
    <2>7. ASSUME NEW k \in Entities \ exempt, Parent[k] # None, Live(ents[k]), Live(ents[Parent[k]])
          PROVE  /\ StagedOf(hs, Parent[k]) # {} => StagedOf(hs, k) # {}
                 /\ StagedOf(hs, Parent[k]) = {} => ents[k].region = ents[Parent[k]].region
        <3>1. /\ k \in Entities /\ Parent[k] \in Entities /\ Parent[Parent[k]] = None /\ k \notin alone
              /\ Live(ent[k]) /\ Live(ent[Parent[k]]) /\ ents[k].region = ent[k].region
              /\ ents[Parent[k]].region = ent[Parent[k]].region
            BY <1>2, <2>7, RootsAre
        <3>2. /\ StagedOf(handoffs, Parent[k]) # {} => StagedOf(handoffs, k) # {}
              /\ StagedOf(handoffs, Parent[k]) = {} => ent[k].region = ent[Parent[k]].region
            BY <2>7, <3>1 DEF AssemblyInv, TogetherOf
        <3>3. CASE Parent[k] # e
            <4>1. Parent[k] \notin parts
                BY <2>4, <3>1
            <4> QED
                BY <2>5, <2>6, <3>1, <3>2, <3>3, <4>1
        <3>4. CASE Parent[k] = e
            <4>1. ents[k].region # to
                BY <2>2, <3>1, <3>2, <3>4
            <4>2. StagedOf(handoffs, k) = {}
                BY <2>2, <2>7, <3>1, <3>4 DEF AssemblyInv, TogetherOf, StagedOf
            <4>3. k \notin bad
                BY <2>7, <3>4, RootsAre
            <4>4. k \in parts
                BY <3>1, <3>4, <4>1, <4>2, <4>3 DEF parts, Parts, Children, StagedOf
            <4>5. StagedOf(hs, k) # {} /\ StagedOf(hs, e) # {}
                BY <2>2, <2>3, <4>4 DEF StagedOf
            <4> QED
                BY <3>4, <4>5
        <3> QED
            BY <3>3, <3>4
    <2>8. ASSUME NEW i \in DOMAIN hs, hs[i].eid \notin exempt, Parent[hs[i].eid] # None
          PROVE  \E j \in DOMAIN hs : j < i /\ hs[j].eid = Parent[hs[i].eid] /\ hs[j].to = hs[i].to
        <3>1. CASE i \in DOMAIN handoffs
            <4>1. hs[i] = handoffs[i] /\ handoffs[i].eid \notin alone
                BY <2>2, <2>8, <3>1
            <4>2. PICK j \in DOMAIN handoffs : /\ j < i /\ handoffs[j].eid = Parent[hs[i].eid]
                                               /\ handoffs[j].to = hs[i].to
                BY <2>8, <3>1, <4>1 DEF AssemblyInv, TogetherOf
            <4> QED
                BY <2>2, <4>2
        <3>2. CASE i = n + 1
            BY <2>2, <2>3, <2>8, <3>2
        <3>3. CASE i > n + 1 /\ \E c \in parts : hs[i] = Prepared(ents, c, to)
            <4>1. Parent[hs[i].eid] = e /\ hs[i].to = to
                BY <2>3, <2>4, <3>3
            <4>2. hs[n + 1].eid = e /\ hs[n + 1].to = to /\ n + 1 < i
                BY <2>2, <2>3, <3>3
            <4> QED
                BY <2>2, <4>1, <4>2
        <3> QED
            BY <2>2, <3>1, <3>2, <3>3
    <2> QED
        BY <2>7, <2>8 DEF TogetherOf
<1> QED
    BY <1>3, <1>4

LEMMA MoveTogether ==
    ASSUME Base, AssemblyInv, NEW e \in Entities, NEW p \in conf.spots, NEW bad, Move(e, p, bad)
    PROVE  AssemblyInv'
<1> DEFINE ents == Moved(e, p)
           to == At(p, ent[e].region)
           zoned == Parent[e] = None /\ to # ent[e].region
<1>1. TypeOK /\ OneEach(handoffs)
    BY DEF Base
<1>2. /\ Live(ent[e]) /\ p \in Position
      /\ \E hs, held, moved :
            /\ held \in BOOLEAN /\ moved \in BOOLEAN /\ hs \in Seq(Handoffs)
            /\ OneEach(handoffs) => OneEach(hs)
            /\ IF zoned THEN Added(ents, e, to, bad, hs) ELSE hs = handoffs
            /\ Flushed(ents, hs, held, moved)
            /\ \A x \in Entities : FlushedOne(ents, hs, held, moved, x)
    BY <1>1, MoveIs
<1>3. PICK hs, held, moved :
            /\ held \in BOOLEAN /\ moved \in BOOLEAN /\ hs \in Seq(Handoffs)
            /\ OneEach(handoffs) => OneEach(hs)
            /\ IF zoned THEN Added(ents, e, to, bad, hs) ELSE hs = handoffs
            /\ Flushed(ents, hs, held, moved)
            /\ \A x \in Entities : FlushedOne(ents, hs, held, moved, x)
    BY <1>2, Zenon
<1>4. /\ Repositioned(ents) /\ Live(ents[e]) /\ ents[e].region = ent[e].region
      /\ \A x \in Entities : /\ Live(ents[x]) <=> Live(ent[x])
                             /\ Live(ent[x]) => ents[x].region = ent[x].region
    BY <1>1, <1>2, MovedIs DEF Repositioned
<1>5. alone' = alone \cup (bad \ {e})
    BY Zenon DEF Move
<1>6. TogetherOf(ents, hs, alone')
    <2>1. CASE zoned
        <3>1. to # ents[e].region /\ Added(ents, e, to, bad, hs) /\ Parent[e] = None
            BY <1>3, <1>4, <2>1
        <3> HIDE DEF ents, to
        <3> QED
            BY <1>1, <1>4, <1>5, <3>1, AddedTogether
    <2>2. CASE ~zoned
        <3>1. hs = handoffs
            BY <1>3, <2>2
        <3> HIDE DEF ents, to
        <3>2. TogetherOf(ents, handoffs, alone')
            BY <1>4, <1>5, RootsAre DEF AssemblyInv, TogetherOf
        <3> QED
            BY <3>1, <3>2
    <2> QED
        BY <2>1, <2>2
<1> HIDE DEF ents, to
<1> QED
    BY <1>1, <1>3, <1>6, FlushTogether

LEMMA RerouteTogether ==
    ASSUME TypeOK, AssemblyInv, NEW e \in job, NEW bad, Reroute(e, bad)
    PROVE  AssemblyInv'
<1>1. /\ e \in Entities /\ (bad # {} => Routed(e))
      /\ IF Routed(e) THEN Added(ent, e, RegionOf(ent[e]), bad, handoffs') ELSE handoffs' = handoffs
    BY RerouteIs
<1>2. /\ ent' = ent
      /\ alone' = alone \cup (bad \ {e}) \cup
                     (IF Routed(e) /\ Parent[e] # None THEN {e} ELSE {})
    BY Zenon DEF Reroute, Routed
<1>3. TogetherOf(ent, handoffs', alone')
    <2>1. CASE Routed(e)
        <3>1. Repositioned(ent) /\ Live(ent[e]) /\ RegionOf(ent[e]) # ent[e].region
            BY <2>1 DEF Repositioned, TypeOK, Routed
        <3>2. alone \cup (bad \ {e}) \subseteq alone' /\ (Parent[e] # None => e \in alone')
            BY <1>2, <2>1
        <3>3. Added(ent, e, RegionOf(ent[e]), bad, handoffs')
            BY <1>1, <2>1
        <3> QED
            BY <1>1, <3>1, <3>2, <3>3, AddedTogether
    <2>2. CASE ~Routed(e)
        BY <1>1, <1>2, <2>2 DEF AssemblyInv, TogetherOf
    <2> QED
        BY <2>1, <2>2
<1> QED
    BY <1>2, <1>3 DEF AssemblyInv, TogetherOf, StagedOf

\* Who arrives apart from its assembly is a history of its own.
LEMMA ArriveTogether ==
    ASSUME TypeOK, AssemblyInv, NEW e \in Entities, NEW p, NEW region, Arrive(e, p, region)
    PROVE  AssemblyInv'
<1>1. handoffs' = handoffs /\ alone' = alone \cup Apart(ent', e)
    BY DEF Arrive, pending
<1>2. \A x \in Entities \ {e} : ent'[x] = ent[x]
    BY DEF Arrive, TypeOK
<1>3. ASSUME NEW k \in Entities \ alone', Parent[k] # None, Live(ent'[k]), Live(ent'[Parent[k]])
      PROVE  /\ StagedOf(handoffs, Parent[k]) # {} => StagedOf(handoffs, k) # {}
             /\ StagedOf(handoffs, Parent[k]) = {} => ent'[k].region = ent'[Parent[k]].region
    <2>1. CASE e \in {k, Parent[k]}
        <3>1. k \notin Apart(ent', e)
            BY <1>1, <1>3
        <3>2. ent'[k].region = ent'[Parent[k]].region /\ ~Staged(Parent[k])
            BY <1>3, <2>1, <3>1 DEF Apart
        <3> QED
            BY <3>2 DEF Staged, StagedOf
    <2>2. CASE e \notin {k, Parent[k]}
        <3>1. ent'[k] = ent[k] /\ ent'[Parent[k]] = ent[Parent[k]]
            BY <1>2, <1>3, <2>2, RootsAre
        <3> QED
            BY <1>1, <1>3, <3>1 DEF AssemblyInv, TogetherOf
    <2> QED
        BY <2>1, <2>2
<1>4. TogetherOf(ent', handoffs, alone')
    BY <1>1, <1>3 DEF AssemblyInv, TogetherOf
<1> QED
    BY <1>1, <1>4 DEF AssemblyInv, TogetherOf, StagedOf

\* The root's line is before its children's.
LEMMA RestartTogether ==
    ASSUME Base, AssemblyInv, Restart
    PROVE  AssemblyInv'
<1> USE DEF Base
<1>1. PICK n \in 0 .. Len(handoffs), line \in Seq(Handoffs) :
          LET lost == {handoffs[i].eid : i \in n + 1 .. Len(handoffs)}
          IN  /\ DOMAIN line = 1 .. n
              /\ \A i \in 1 .. n : line[i] = handoffs[i]
              /\ ent' = ApplyHandoffs(ent, line)
              /\ alone' = alone \cup {e \in lost : Parent[e] # None}
    BY RestartIs, Zenon
<1> DEFINE lost == {handoffs[i].eid : i \in n + 1 .. Len(handoffs)}
<1>2. handoffs' = <<>> /\ handoffs \in Seq(Handoffs)
    BY DEF Restart, TypeOK
<1>3. \A e \in Entities :
          /\ Live(ent'[e]) <=> Live(ent[e])
          /\ StagedOf(line, e) = {} => ent'[e] = ent[e]
          /\ Live(ent[e]) /\ StagedOf(line, e) # {} =>
                \E i \in StagedOf(line, e) : ent'[e].region = line[i].to
    <2>1. ent \in [Entities -> Placement \cup {None}]
        BY DEF TypeOK
    <2>2. \A e \in Entities :
              /\ Live(ent'[e]) <=> Live(ent[e])
              /\ StagedOf(line, e) = {} => ent'[e] = ent[e]
              /\ Live(ent[e]) /\ StagedOf(line, e) # {} =>
                    \E i \in StagedOf(line, e) :
                        ent'[e] = [pos |-> line[i].pos, region |-> line[i].to, owner |-> line[i].owner]
        BY <1>1, <2>1, ApplyHandoffsIs
    <2>3. ASSUME NEW e \in Entities, Live(ent[e]), StagedOf(line, e) # {}
          PROVE  \E i \in StagedOf(line, e) : ent'[e].region = line[i].to
        <3>1. PICK i \in StagedOf(line, e) :
                  ent'[e] = [pos |-> line[i].pos, region |-> line[i].to, owner |-> line[i].owner]
            BY <2>2, <2>3
        <3>2. ent'[e].region = line[i].to
            BY <3>1
        <3> QED
            BY <3>2
    <2> QED
        BY <2>2, <2>3
<1>4. ASSUME NEW k \in Entities \ alone', Parent[k] # None, Live(ent'[k]), Live(ent'[Parent[k]])
      PROVE  ent'[k].region = ent'[Parent[k]].region
    <2> DEFINE r == Parent[k]
    <2>1. /\ k \in Entities /\ r \in Entities /\ Live(ent[k]) /\ Live(ent[r]) /\ k \notin alone
          /\ k \notin lost
        BY <1>1, <1>3, <1>4, RootsAre
    <2>2. \A i \in DOMAIN handoffs : handoffs[i].eid = k => i \in 1 .. n
        BY <1>2, <2>1
    <2>3. /\ StagedOf(handoffs, r) # {} => StagedOf(handoffs, k) # {}
          /\ StagedOf(handoffs, r) = {} => ent[k].region = ent[r].region
        BY <1>4, <2>1 DEF AssemblyInv, TogetherOf
    <2>4. ASSUME NEW i \in StagedOf(line, k)
          PROVE  \E j \in StagedOf(line, r) : line[j].to = line[i].to
        <3>1. i \in 1 .. n /\ i \in DOMAIN handoffs /\ handoffs[i].eid = k /\ line[i] = handoffs[i]
            BY <1>1, <1>2, <2>4 DEF StagedOf
        <3>2. PICK j \in DOMAIN handoffs : j < i /\ handoffs[j].eid = r /\ handoffs[j].to = handoffs[i].to
            BY <1>4, <2>1, <3>1 DEF AssemblyInv, TogetherOf
        <3>3. j \in 1 .. n
            BY <1>2, <3>1, <3>2
        <3> QED
            BY <1>1, <3>1, <3>2, <3>3 DEF StagedOf
    <2>5. StagedOf(line, k) = {} => StagedOf(handoffs, k) = {}
        BY <1>1, <2>2 DEF StagedOf
    <2>6. StagedOf(line, r) # {} => StagedOf(handoffs, r) # {}
        BY <1>1, <1>2 DEF StagedOf
    <2>7. CASE StagedOf(line, k) = {}
        <3>1. StagedOf(handoffs, r) = {} /\ StagedOf(line, r) = {}
            BY <2>3, <2>5, <2>6, <2>7
        <3> QED
            BY <1>3, <2>1, <2>3, <2>7, <3>1
    <2>8. CASE StagedOf(line, k) # {}
        <3>1. PICK i \in StagedOf(line, k) : ent'[k].region = line[i].to
            BY <1>3, <2>1, <2>8
        <3>2. PICK j \in StagedOf(line, r) : line[j].to = line[i].to
            BY <2>4
        <3>3. PICK l \in StagedOf(line, r) : ent'[r].region = line[l].to
            BY <1>3, <2>1, <3>2
        <3>4. j = l
            BY <1>1, <1>2, <3>2, <3>3 DEF StagedOf, OneEach
        <3> QED
            BY <3>1, <3>2, <3>3, <3>4
    <2> QED
        BY <2>7, <2>8
<1> QED
    BY <1>2, <1>4 DEF AssemblyInv, TogetherOf, StagedOf

LEMMA AssemblyStep == Base /\ AssemblyInv /\ [Next]_vars => AssemblyInv'
<1> SUFFICES ASSUME Base, TypeOK, AssemblyInv, [Next]_vars PROVE AssemblyInv'
    BY DEF Base
<1>1. ASSUME NEW e \in Entities, NEW p \in conf.spots, NEW bad, Move(e, p, bad)
      PROVE  AssemblyInv'
    BY <1>1, MoveTogether
<1>2. ASSUME NEW e \in Entities, NEW p, NEW requested, Spawn(e, p, requested)
      PROVE  AssemblyInv'
    BY <1>2, ArriveTogether DEF Spawn
<1>3. ASSUME NEW e \in Entities, NEW p, NEW target, Adopt(e, p, target) PROVE AssemblyInv'
    BY <1>3, ArriveTogether DEF Adopt
<1>4. CASE Tick
    <2>1. PICK held \in BOOLEAN, moved \in BOOLEAN :
              /\ Flushed(ent, handoffs, held, moved)
              /\ \A x \in Entities : FlushedOne(ent, handoffs, held, moved, x)
        BY <1>4, TickIs
    <2>2. alone' = alone /\ handoffs \in Seq(Handoffs) /\ OneEach(handoffs)
        BY <1>4 DEF Tick, TypeOK, Base
    <2>3. TogetherOf(ent, handoffs, alone')
        BY <2>2 DEF AssemblyInv
    <2> QED
        BY <2>1, <2>2, <2>3, FlushTogether
<1>5. ASSUME UNCHANGED <<ent, handoffs, alone>> PROVE AssemblyInv'
    BY <1>5 DEF AssemblyInv, TogetherOf, StagedOf
<1>6. ASSUME NEW way, Rebalance(way) PROVE AssemblyInv'
    BY <1>5, <1>6 DEF Rebalance, TopologyMoves
<1>7. ASSUME NEW region, Split(region) PROVE AssemblyInv'
    BY <1>5, <1>7 DEF Split, TopologyMoves
<1>8. ASSUME NEW e \in job, NEW bad, Reroute(e, bad) PROVE AssemblyInv'
    BY <1>8, RerouteTogether
<1>9. ASSUME NEW hot, NEW cold, RebalanceBlocks(hot, cold) PROVE AssemblyInv'
    BY <1>5, <1>9 DEF RebalanceBlocks
<1>10. CASE Restart
    BY <1>10, RestartTogether
<1>11. CASE UNCHANGED vars
    BY <1>5, <1>11 DEF vars, pending, histories
<1> QED
    BY <1>1, <1>2, <1>3, <1>4, <1>6, <1>7, <1>8, <1>9, <1>10, <1>11, Zenon DEF Next

LEMMA TogetherIs == AssemblyInv => AssemblyTogether
BY DEF AssemblyInv, TogetherOf, StagedOf, AssemblyTogether

\* A child is in the region of its root whenever nothing is staged, whatever failed
\* to be written, for assemblies of any size and across restarts.
THEOREM AssembliesStayTogether == Spec => []AssemblyTogether
<1>1. Init => AssemblyInv
    <2> SUFFICES ASSUME Init PROVE AssemblyInv
        OBVIOUS
    <2>1. handoffs = <<>> /\ \A e \in Entities : ~Live(ent[e])
        BY DEF Init, Live
    <2> QED
        BY <2>1 DEF AssemblyInv, TogetherOf
<1>2. Spec => []AssemblyInv
    <2>1. Init /\ [][Next]_vars /\ []Base => []AssemblyInv
        BY <1>1, AssemblyStep, PTL
    <2> QED
        BY <2>1, BaseHolds, PTL DEF Spec
<1> QED
    BY <1>2, TogetherIs, PTL

(***************************************************************************)
(* A block has one owner.                                                  *)
(***************************************************************************)
\* Of entities at ents, with hs staged: who is not exempt is owned by the worker of
\* its region, or will be when its hand-off is applied.
OwnedOf(ents, hs, exempt) ==
    /\ \A e \in Entities \ exempt : Live(ents[e]) /\ StagedOf(hs, e) = {}
          => ents[e].owner = OwnerOf(ents[e].region)
    /\ \A i \in DOMAIN hs : hs[i].eid \notin exempt => hs[i].owner = OwnerOf(hs[i].to)

\* The migrations are of different blocks, each with all who are in the block and
\* have not come since.
MigrationsOf(ents, exempt) ==
    /\ \A i, j \in DOMAIN migrations : migrations[i].block = migrations[j].block => i = j
    /\ \A i \in DOMAIN migrations : LET m == migrations[i] IN
          /\ \A e \in DOMAIN m.grants : m.grants[e] = m.to
          /\ \A e \in Entities \ exempt : Live(ents[e]) =>
                ~Staged(e) /\ (e \in DOMAIN m.grants <=> ents[e].region = m.block)
BlockInv == conf.grid => OwnedOf(ent, handoffs, raced) /\ MigrationsOf(ent, raced)

LEMMA AddedOwned ==
    ASSUME TypeOK, OwnedOf(ent, handoffs, raced), NEW ents, Repositioned(ents), NEW e \in Entities,
           Live(ents[e]), NEW to, NEW bad, NEW hs, hs = handoffs \/ Added(ents, e, to, bad, hs)
    PROVE  /\ OwnedOf(ents, hs, raced)
           /\ \A x : Staged(x) => StagedOf(hs, x) # {}
<1>1. handoffs \in Seq(Handoffs) /\ (\A x : Staged(x) <=> StagedOf(handoffs, x) # {})
    BY DEF TypeOK, Staged, StagedOf
<1>2. \A x \in Entities : /\ Live(ents[x]) <=> Live(ent[x])
                          /\ Live(ent[x]) => ents[x].region = ent[x].region /\ ents[x].owner = ent[x].owner
    BY DEF Repositioned
<1>3. CASE hs = handoffs
    <2>1. OwnedOf(ents, handoffs, raced)
        BY <1>2 DEF OwnedOf
    <2> QED
        BY <1>1, <1>3, <2>1
<1>4. CASE hs # handoffs
    <2> DEFINE n == Len(handoffs)  parts == Parts(handoffs, ents, e, to, bad)
    <2>1. Queued(handoffs, hs, ents, e, to, bad) /\ hs \in Seq(Handoffs)
        BY <1>4 DEF Added
    <2>2. n \in Nat /\ Len(hs) \in Nat /\ DOMAIN hs = 1 .. Len(hs) /\ DOMAIN handoffs = 1 .. n
        BY <1>1, <2>1
    <2> HIDE DEF parts
    <2>3. /\ StagedOf(handoffs, e) = {} /\ n + 1 <= Len(hs) /\ \A i \in 1 .. n : hs[i] = handoffs[i]
          /\ hs[n + 1] = Prepared(ents, e, to)
          /\ \A i \in n + 2 .. Len(hs) : \E c \in parts : hs[i] = Prepared(ents, c, to)
        BY <2>1 DEF Queued, parts
    <2>4. \A c \in parts \cup {e} : c \in Entities /\ Live(ents[c]) /\ StagedOf(handoffs, c) = {}
        BY <1>2, <2>3 DEF parts, Parts, Children, StagedOf
    <2>5. \A i \in DOMAIN hs : \/ i \in DOMAIN handoffs /\ hs[i] = handoffs[i]
                               \/ \E c \in parts \cup {e} : hs[i] = Prepared(ents, c, to)
        BY <2>2, <2>3
    <2>6. \A i \in DOMAIN handoffs : i \in DOMAIN hs /\ hs[i] = handoffs[i]
        BY <2>2, <2>3
    <2> HIDE DEF n
    <2>7. \A x : StagedOf(handoffs, x) # {} => StagedOf(hs, x) # {}
        BY <2>6 DEF StagedOf
    <2>8. ASSUME NEW x \in Entities \ raced, Live(ents[x]), StagedOf(handoffs, x) = {}
          PROVE  ents[x].owner = OwnerOf(ents[x].region)
        BY <1>2, <2>8 DEF OwnedOf
    <2>9. ASSUME NEW i \in DOMAIN hs, hs[i].eid \notin raced
          PROVE  hs[i].owner = OwnerOf(hs[i].to)
        <3>1. CASE i \in DOMAIN handoffs /\ hs[i] = handoffs[i]
            BY <2>9, <3>1 DEF OwnedOf
        <3>2. ASSUME NEW c \in parts \cup {e}, hs[i] = Prepared(ents, c, to)
              PROVE  hs[i].owner = OwnerOf(hs[i].to)
            <4>1. hs[i].eid = c /\ hs[i].to = to
                  /\ hs[i].owner = NextOwner(ents[c], OwnerOf(ents[c].region), OwnerOf(to))
                BY <3>2 DEF Prepared
            <4>2. ents[c].owner = OwnerOf(ents[c].region)
                BY <2>4, <2>8, <2>9, <4>1
            <4> QED
                BY <4>1, <4>2 DEF NextOwner
        <3> QED
            BY <2>5, <3>1, <3>2
    <2> QED
        BY <1>1, <2>7, <2>8, <2>9 DEF OwnedOf
<1> QED
    BY <1>3, <1>4

LEMMA FlushBlock ==
    ASSUME TypeOK, BlockInv, NEW ents, Repositioned(ents), NEW hs \in Seq(Handoffs), OneEach(hs),
           OwnedOf(ents, hs, raced), NEW held \in BOOLEAN, NEW moved \in BOOLEAN,
           Flushed(ents, hs, held, moved),
           \A e \in Entities : FlushedOne(ents, hs, held, moved, e), UNCHANGED conf, conf.grid
    PROVE  BlockInv'
<1>1. /\ migrations' = <<>> /\ DOMAIN migrations' = {} /\ (handoffs' = hs \/ handoffs' = <<>>)
      /\ held => handoffs' = <<>>
      /\ ~held => handoffs' = hs
      /\ regionWorker' = IF moved THEN MovedWorkers ELSE regionWorker
      /\ raced' = IF migrations = <<>> THEN raced ELSE raced \cup {hs[i].eid : i \in DOMAIN hs}
    BY DEF Flushed
<1>2. DOMAIN regionWorker' = DOMAIN regionWorker
    BY <1>1 DEF MovedWorkers
<1>3. \A region : /\ Moving(region) = {} => OwnerOf(region)' = OwnerOf(region)
                  /\ ~moved => OwnerOf(region)' = OwnerOf(region)
                  /\ moved /\ Moving(region) # {} => \E i \in Moving(region) :
                        OwnerOf(region)' = migrations[i].to
    <2>1. \A region : Moving(region) # {} => region \in DOMAIN regionWorker
        BY GrantedType DEF Moving
    <2> QED
        BY <1>1, <1>2, <2>1, MovedWorkersIs DEF OwnerOf
<1>4. CASE migrations = <<>>
    <2>1. /\ DOMAIN migrations = {} /\ \A e : Granting(e) = {}
          /\ \A region : OwnerOf(region)' = OwnerOf(region)
        <3>1. DOMAIN migrations = {}
            BY <1>4
        <3>2. \A e : Granting(e) = {}
            BY <3>1 DEF Granting
        <3>3. \A region : Moving(region) = {}
            BY <3>1 DEF Moving
        <3> QED
            BY <1>3, <3>1, <3>2, <3>3
    <2>2. ASSUME NEW e \in Entities \ raced, Live(ent'[e]), StagedOf(handoffs', e) = {}
          PROVE  ent'[e].owner = OwnerOf(ent'[e].region)
        <3>1. /\ Live(ents[e])
              /\ IF held /\ StagedOf(hs, e) # {} THEN Goes(hs, ent', e) ELSE Stays(ents, ent', e)
              /\ IF held /\ StagedOf(hs, e) # {}
                 THEN \E i \in StagedOf(hs, e) : ent'[e].owner = hs[i].owner
                 ELSE ent'[e].owner = ents[e].owner
            BY <2>1, <2>2 DEF FlushedOne
        <3>2. CASE held /\ StagedOf(hs, e) # {}
            <4>1. PICK i \in StagedOf(hs, e) : ent'[e].region = hs[i].to
                BY <3>1, <3>2 DEF Goes
            <4>2. PICK j \in StagedOf(hs, e) : ent'[e].owner = hs[j].owner
                BY <3>1, <3>2
            <4>3. i = j
                BY <4>1, <4>2 DEF StagedOf, OneEach
            <4>4. i \in DOMAIN hs /\ hs[i].eid = e
                BY <4>1 DEF StagedOf
            <4> QED
                BY <2>2, <4>1, <4>2, <4>3, <4>4 DEF OwnedOf
        <3>3. CASE ~(held /\ StagedOf(hs, e) # {})
            <4>1. StagedOf(hs, e) = {}
                BY <1>1, <2>2, <3>3
            <4> QED
                BY <2>2, <3>1, <3>3, <4>1 DEF OwnedOf, Stays
        <3> QED
            BY <3>2, <3>3
    <2>3. ASSUME NEW i \in DOMAIN handoffs', handoffs'[i].eid \notin raced
          PROVE  handoffs'[i].owner = OwnerOf(handoffs'[i].to)
        <3>1. handoffs' = hs
            BY <1>1, <2>3
        <3> QED
            BY <2>3, <3>1 DEF OwnedOf
    <2>4. OwnedOf(ent', handoffs', raced)
        BY <2>2, <2>3 DEF OwnedOf
    <2>5. OwnedOf(ent, handoffs, raced)'
        BY <1>1, <1>4, <2>1, <2>4 DEF OwnedOf, StagedOf
    <2> QED
        BY <1>1, <2>5 DEF BlockInv, MigrationsOf
<1>5. CASE migrations # <<>>
    <2>1. OwnedOf(ent, handoffs, raced) /\ MigrationsOf(ent, raced)
        BY DEF BlockInv
    <2>2. ASSUME NEW e \in Entities \ raced', Live(ent'[e])
          PROVE  ent'[e].owner = OwnerOf(ent[e].region)'
        <3>1. e \notin raced /\ StagedOf(hs, e) = {}
            BY <1>1, <1>5, <2>2 DEF StagedOf
        <3>2. /\ Live(ents[e]) /\ ent'[e].region = ents[e].region
              /\ moved /\ Granting(e) # {} =>
                    \E i \in Granting(e) : ent'[e].owner = migrations[i].grants[e]
              /\ ~(moved /\ Granting(e) # {}) => ent'[e].owner = ents[e].owner
            BY <2>2, <3>1 DEF FlushedOne, Stays
        <3>3. Live(ent[e]) /\ ents[e].region = ent[e].region
            BY <2>2, <3>2 DEF Repositioned
        <3>4. ents[e].owner = OwnerOf(ents[e].region)
            BY <3>1, <3>2 DEF OwnedOf
        <3> DEFINE region == ents[e].region
        <3>5. \A i \in DOMAIN migrations : i \in Granting(e) <=> i \in Moving(region)
            BY <2>1, <3>1, <3>3 DEF MigrationsOf, Granting, Moving
        <3>6. Granting(e) \subseteq DOMAIN migrations /\ Moving(region) \subseteq DOMAIN migrations
            BY DEF Granting, Moving
        <3>7. CASE moved /\ Granting(e) # {}
            <4>1. PICK i \in Granting(e) : ent'[e].owner = migrations[i].grants[e]
                BY <3>2, <3>7
            <4>2. PICK j \in Moving(region) : OwnerOf(region)' = migrations[j].to
                BY <1>3, <3>5, <3>6, <3>7
            <4>3. i = j /\ e \in DOMAIN migrations[i].grants
                BY <2>1, <3>5, <3>6, <4>1, <4>2 DEF MigrationsOf, Moving, Granting
            <4>4. migrations[i].grants[e] = migrations[i].to
                BY <2>1, <3>6, <4>1, <4>3 DEF MigrationsOf
            <4> QED
                BY <3>2, <4>1, <4>2, <4>3, <4>4
        <3>8. CASE ~(moved /\ Granting(e) # {})
            <4>1. OwnerOf(region)' = OwnerOf(region)
                BY <1>3, <3>5, <3>6, <3>8
            <4> QED
                BY <3>2, <3>4, <3>8, <4>1
        <3> QED
            BY <3>7, <3>8
    <2>3. \A i \in DOMAIN handoffs' : handoffs'[i].eid \in raced'
        BY <1>1, <1>5
    <2>4. OwnedOf(ent, handoffs, raced)'
        BY <2>2, <2>3 DEF OwnedOf
    <2> QED
        BY <1>1, <2>4 DEF BlockInv, MigrationsOf
<1> QED
    BY <1>4, <1>5

LEMMA MoveBlock ==
    ASSUME Base, BlockInv, NEW e \in Entities, NEW p \in conf.spots, NEW bad, Move(e, p, bad),
           conf.grid
    PROVE  BlockInv'
<1> DEFINE ents == Moved(e, p)
           to == At(p, ent[e].region)
           zoned == Parent[e] = None /\ to # ent[e].region
<1>1. TypeOK /\ OneEach(handoffs) /\ OwnedOf(ent, handoffs, raced)
    BY DEF Base, BlockInv
<1>2. /\ Live(ent[e]) /\ p \in Position
      /\ \E hs, held, moved :
            /\ held \in BOOLEAN /\ moved \in BOOLEAN /\ hs \in Seq(Handoffs)
            /\ OneEach(handoffs) => OneEach(hs)
            /\ IF zoned THEN Added(ents, e, to, bad, hs) ELSE hs = handoffs
            /\ Flushed(ents, hs, held, moved)
            /\ \A x \in Entities : FlushedOne(ents, hs, held, moved, x)
    BY <1>1, MoveIs
<1>3. PICK hs, held, moved :
            /\ held \in BOOLEAN /\ moved \in BOOLEAN /\ hs \in Seq(Handoffs)
            /\ OneEach(handoffs) => OneEach(hs)
            /\ IF zoned THEN Added(ents, e, to, bad, hs) ELSE hs = handoffs
            /\ Flushed(ents, hs, held, moved)
            /\ \A x \in Entities : FlushedOne(ents, hs, held, moved, x)
    BY <1>2, Zenon
<1>4. Repositioned(ents) /\ Live(ents[e])
    BY <1>1, <1>2, MovedIs
<1>5. conf' = conf /\ (hs = handoffs \/ Added(ents, e, to, bad, hs))
    BY <1>3 DEF Move
<1> HIDE DEF ents, to
<1>6. OwnedOf(ents, hs, raced)
    BY <1>1, <1>4, <1>5, AddedOwned
<1> QED
    BY <1>1, <1>3, <1>4, <1>5, <1>6, FlushBlock

LEMMA TickBlock == Base /\ BlockInv /\ Tick /\ conf.grid => BlockInv'
<1> SUFFICES ASSUME Base, BlockInv, Tick, conf.grid PROVE BlockInv'
    OBVIOUS
<1>1. TypeOK /\ OneEach(handoffs) /\ OwnedOf(ent, handoffs, raced) /\ handoffs \in Seq(Handoffs)
    BY DEF Base, BlockInv, TypeOK
<1>2. PICK held \in BOOLEAN, moved \in BOOLEAN :
          /\ Flushed(ent, handoffs, held, moved)
          /\ \A x \in Entities : FlushedOne(ent, handoffs, held, moved, x)
    BY <1>1, TickIs
<1>3. Repositioned(ent) /\ conf' = conf
    BY <1>1 DEF Repositioned, TypeOK, Tick
<1> QED
    BY <1>1, <1>2, <1>3, FlushBlock

LEMMA ArriveBlock ==
    ASSUME TypeOK, BlockInv, NEW e \in Entities, NEW p, NEW region, Arrive(e, p, region), conf.grid
    PROVE  BlockInv'
<1>1. /\ UNCHANGED <<conf, handoffs, migrations, regionWorker>>
      /\ raced' = IF migrations = <<>> THEN raced ELSE raced \cup {e}
    BY DEF Arrive, pending
<1>2. /\ \A x \in Entities \ {e} : ent'[x] = ent[x]
      /\ ent'[e].region = region /\ ent'[e].owner = OwnerOf(region)
    BY DEF Arrive, TypeOK
<1>3. OwnedOf(ent, handoffs, raced) /\ MigrationsOf(ent, raced)
    BY DEF BlockInv
<1>4. \A r : OwnerOf(r)' = OwnerOf(r)
    BY <1>1 DEF OwnerOf
<1>5. ASSUME NEW x \in Entities \ raced', Live(ent'[x]), StagedOf(handoffs', x) = {}
      PROVE  ent'[x].owner = OwnerOf(ent[x].region)'
    <2>1. CASE x = e
        BY <1>2, <1>4, <2>1
    <2>2. CASE x # e
        <3>1. ent[x].owner = OwnerOf(ent[x].region) /\ ent'[x] = ent[x]
            BY <1>1, <1>2, <1>3, <1>5, <2>2 DEF OwnedOf
        <3> QED
            BY <1>4, <3>1
    <2> QED
        BY <2>1, <2>2
<1>6. ASSUME NEW i \in DOMAIN handoffs', handoffs'[i].eid \notin raced'
      PROVE  handoffs'[i].owner = OwnerOf(handoffs[i].to)'
    <2>1. handoffs[i].owner = OwnerOf(handoffs[i].to)
        BY <1>1, <1>3, <1>6 DEF OwnedOf
    <2> QED
        BY <1>1, <1>4, <2>1
<1>7. OwnedOf(ent, handoffs, raced)'
    BY <1>5, <1>6 DEF OwnedOf, StagedOf
<1>8. MigrationsOf(ent, raced)'
    <2>1. CASE migrations = <<>>
        <3>1. DOMAIN migrations' = {}
            BY <1>1, <2>1
        <3> QED
            BY <3>1 DEF MigrationsOf
    <2>2. CASE migrations # <<>>
        <3>1. \A x \in Entities \ raced' : ent'[x] = ent[x] /\ x \notin raced
            BY <1>1, <1>2, <2>2
        <3> QED
            BY <1>1, <1>3, <3>1 DEF MigrationsOf, Staged
    <2> QED
        BY <2>1, <2>2
<1> QED
    BY <1>7, <1>8 DEF BlockInv

LEMMA RebalanceBlock ==
    ASSUME TypeOK, BlockInv, NEW hot \in Workers, NEW cold \in Workers, RebalanceBlocks(hot, cold)
    PROVE  BlockInv'
<1>1. PICK block : Staging(hot, cold, block)
    BY RebalanceBlocksType
<1> DEFINE m == [block |-> block, to |-> cold, grants |-> Grants(block, hot, cold)]
           n == Len(migrations)
<1>2. /\ UNCHANGED <<conf, ent, handoffs, regionWorker>> /\ conf.grid
      /\ raced' = raced \cup {handoffs[i].eid : i \in DOMAIN handoffs}
    BY DEF RebalanceBlocks
<1>3. /\ migrations \in Seq(Migrations) /\ migrations' = Append(migrations, m)
      /\ block \in DOMAIN regionWorker /\ regionWorker[block] = hot
      /\ \A i \in DOMAIN migrations : migrations[i].block # block
    BY <1>1 DEF Staging, TypeOK
<1>4. /\ m.block = block /\ m.to = cold
      /\ DOMAIN m.grants = {x \in InRegion(block) : ent[x].owner \in {hot, None}}
      /\ \A e \in DOMAIN m.grants : m.grants[e] = cold
    BY DEF Grants
<1> HIDE DEF m
<1>5. /\ n \in Nat /\ DOMAIN migrations = 1 .. n /\ DOMAIN migrations' = 1 .. (n + 1)
      /\ migrations'[n + 1] = m /\ \A i \in 1 .. n : migrations'[i] = migrations[i]
    <2>1. n \in Nat /\ DOMAIN migrations = 1 .. n
        BY <1>3
    <2>2. DOMAIN Append(migrations, m) = 1 .. (n + 1)
        BY <1>3
    <2> QED
        BY <1>3, <2>1, <2>2
<1> HIDE DEF n
<1>6. OwnedOf(ent, handoffs, raced) /\ MigrationsOf(ent, raced)
    BY <1>2 DEF BlockInv
<1>7. \A r : OwnerOf(r)' = OwnerOf(r)
    BY <1>2 DEF OwnerOf
<1>8. OwnedOf(ent, handoffs, raced)'
    <2>1. OwnedOf(ent', handoffs', raced')
        BY <1>2, <1>6 DEF OwnedOf
    <2> QED
        BY <1>7, <2>1 DEF OwnedOf, StagedOf
<1>9. \A e \in Entities \ raced' : e \notin raced /\ ~Staged(e) /\ StagedOf(handoffs, e) = {}
    BY <1>2 DEF Staged, StagedOf
<1>10. ASSUME NEW e \in Entities \ raced', Live(ent[e])
       PROVE  e \in DOMAIN m.grants <=> ent[e].region = block
    <2>1. ent[e].owner = OwnerOf(ent[e].region)
        BY <1>6, <1>9, <1>10 DEF OwnedOf
    <2>2. OwnerOf(block) = hot
        BY <1>3 DEF OwnerOf
    <2> QED
        BY <1>4, <1>10, <2>1, <2>2 DEF InRegion
<1>11. MigrationsOf(ent, raced)'
    <2>1. ASSUME NEW i \in DOMAIN migrations', NEW j \in DOMAIN migrations',
                 migrations'[i].block = migrations'[j].block
          PROVE  i = j
        BY <1>3, <1>4, <1>5, <1>6, <2>1 DEF MigrationsOf
    <2>2. ASSUME NEW i \in DOMAIN migrations'
          PROVE  /\ \A e \in DOMAIN migrations'[i].grants :
                        migrations'[i].grants[e] = migrations'[i].to
                 /\ \A e \in Entities \ raced' : Live(ent'[e]) =>
                        (e \in DOMAIN migrations'[i].grants <=> ent'[e].region = migrations'[i].block)
        <3>1. CASE i = n + 1
            BY <1>2, <1>4, <1>5, <1>10, <3>1
        <3>2. CASE i \in 1 .. n
            BY <1>2, <1>5, <1>6, <1>9, <3>2 DEF MigrationsOf
        <3> QED
            BY <1>5, <2>2, <3>1, <3>2
    <2>3. \A e : Staged(e)' <=> Staged(e)
        BY <1>2 DEF Staged
    <2> QED
        BY <1>9, <2>1, <2>2, <2>3 DEF MigrationsOf
<1> QED
    BY <1>8, <1>11 DEF BlockInv

LEMMA BlockStep == Base /\ BlockInv /\ [Next]_vars => BlockInv'
<1> SUFFICES ASSUME Base, TypeOK, BlockInv, [Next]_vars, conf'.grid PROVE BlockInv'
    BY DEF Base, BlockInv
<1>1. ASSUME NEW e \in Entities, NEW p \in conf.spots, NEW bad, Move(e, p, bad)
      PROVE  BlockInv'
    BY <1>1, MoveBlock DEF Move
<1>2. ASSUME NEW e \in Entities, NEW p, NEW requested, Spawn(e, p, requested)
      PROVE  BlockInv'
    BY <1>2, ArriveBlock DEF Spawn, Arrive
<1>3. ASSUME NEW e \in Entities, NEW p, NEW target, Adopt(e, p, target) PROVE BlockInv'
    BY <1>3, ArriveBlock DEF Adopt, Arrive
<1>4. CASE Tick
    BY <1>4, TickBlock DEF Tick
<1>5. ASSUME NEW way, Rebalance(way) PROVE FALSE
    BY <1>5 DEF Rebalance, TopologyMoves
<1>6. ASSUME NEW region, Split(region) PROVE FALSE
    BY <1>6 DEF Split, TopologyMoves
<1>7. ASSUME NEW e \in job, NEW bad, Reroute(e, bad) PROVE FALSE
    BY <1>7 DEF Reroute, TypeOK
<1>8. ASSUME NEW hot \in Workers, NEW cold \in Workers, RebalanceBlocks(hot, cold) PROVE BlockInv'
    BY <1>8, RebalanceBlock
<1>9. CASE Restart
    BY <1>9 DEF Restart
<1>10. CASE UNCHANGED vars
    <2>1. UNCHANGED <<conf, ent, handoffs, migrations, raced, regionWorker>>
        BY <1>10 DEF vars, pending, histories
    <2>2. \A r : OwnerOf(r)' = OwnerOf(r)
        BY <2>1 DEF OwnerOf
    <2>3. OwnedOf(ent, handoffs, raced) /\ MigrationsOf(ent, raced)
        BY <2>1 DEF BlockInv
    <2>4. OwnedOf(ent, handoffs, raced)'
        BY <2>1, <2>2, <2>3 DEF OwnedOf, StagedOf
    <2>5. MigrationsOf(ent, raced)'
        BY <2>1, <2>3 DEF MigrationsOf, Staged
    <2> QED
        BY <2>4, <2>5 DEF BlockInv
<1> QED
    BY <1>1, <1>2, <1>3, <1>4, <1>5, <1>6, <1>7, <1>8, <1>9, <1>10, Zenon DEF Next

LEMMA BlockIsWhole == BlockInv => BlockWhole
BY DEF BlockInv, OwnedOf, StagedOf, BlockWhole

\* Whatever blocks migrate, and whatever moves through the grid meanwhile, who was
\* not on the way while a block migrated is owned by the worker of its block.
THEOREM BlocksStayWhole == Spec => []BlockWhole
<1>1. Init => BlockInv
    <2> SUFFICES ASSUME Init PROVE BlockInv
        OBVIOUS
    <2>1. /\ handoffs = <<>> /\ (\A e \in Entities : ~Live(ent[e])) /\ migrations = <<>>
          /\ DOMAIN migrations = {} /\ DOMAIN handoffs = {}
        BY DEF Init, Live
    <2> QED
        BY <2>1 DEF BlockInv, OwnedOf, MigrationsOf
<1>2. Spec => []BlockInv
    <2>1. Init /\ [][Next]_vars /\ []Base => []BlockInv
        BY <1>1, BlockStep, PTL
    <2> QED
        BY <2>1, BaseHolds, PTL DEF Spec
<1> QED
    BY <1>2, BlockIsWhole, PTL

=============================================================================
