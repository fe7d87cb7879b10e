---------------------------- MODULE WalFileProofs ----------------------------
(***************************************************************************)
(* Theorems of WalFile, for every number of records and crashes: types,    *)
(* what a crash leaves of what was promised, what a cut replays to, and    *)
(* that the file is a DurableLog.                                          *)
(***************************************************************************)
EXTENDS WalFile, FiniteSetTheorems, WellFoundedInduction, TLAPS

(***************************************************************************)
(* The least of a set.                                                     *)
(***************************************************************************)
Less == {ss \in Nat \X Nat : ss[1] < ss[2]}

\* Every non-empty set of naturals has a least element.
LEMMA LeastExists ==
    ASSUME NEW T, T \subseteq Nat, T # {}
    PROVE  \E x \in T : \A y \in T : x <= y
<1>1. IsWellFoundedOn(Less, Nat)
    BY NatLessThanWellFounded, Zenon DEF OpToRel, Less
<1>2. PICK x \in T : \A y \in T : ~(<<y, x>> \in Less)
    BY <1>1, WFMin, Zenon
<1>3. \A y \in T : ~(y < x)
    BY <1>2 DEF Less
<1> QED
    BY <1>3

(***************************************************************************)
(* Positions in order.                                                     *)
(***************************************************************************)
UpTo(S, a) == {b \in S : b <= a}
Rank(S, a) == Cardinality(UpTo(S, a))
Positions(S) == S \subseteq Nat /\ IsFiniteSet(S)

LEMMA NthIs == \A S, k : Nth(S, k) = CHOOSE a \in S : Rank(S, a) = k
BY DEF Nth, Rank, UpTo

LEMMA RankType ==
    ASSUME NEW S, Positions(S), NEW a \in S
    PROVE  Rank(S, a) \in 1 .. Cardinality(S)
<1>1. UpTo(S, a) \in SUBSET S /\ a \in UpTo(S, a)
    BY DEF UpTo, Positions
<1>2. /\ IsFiniteSet(UpTo(S, a)) /\ Cardinality(UpTo(S, a)) \in Nat
      /\ Cardinality(UpTo(S, a)) <= Cardinality(S) /\ Cardinality(S) \in Nat
    BY <1>1, FS_Subset, FS_CardinalityType DEF Positions
<1>3. Cardinality(UpTo(S, a)) # 0
    BY <1>1, <1>2, FS_EmptySet
<1> QED
    BY <1>2, <1>3 DEF Rank

\* A later position has a higher rank.
LEMMA RankGrows ==
    ASSUME NEW S, Positions(S), NEW a \in S, NEW b \in S, a < b
    PROVE  Rank(S, a) < Rank(S, b)
<1>1. a \in Nat /\ b \in Nat /\ S \subseteq Nat
    BY DEF Positions
<1>2. UpTo(S, a) \in SUBSET UpTo(S, b) /\ b \in UpTo(S, b) /\ b \notin UpTo(S, a)
    <2>1. \A c \in S : c \in Nat /\ (c <= a => c <= b)
        BY <1>1
    <2>2. b <= b /\ ~(b <= a)
        BY <1>1
    <2> QED
        BY <2>1, <2>2 DEF UpTo
<1>3. IsFiniteSet(UpTo(S, b))
    <2>1. UpTo(S, b) \in SUBSET S
        BY DEF UpTo
    <2> QED
        BY <2>1, FS_Subset DEF Positions
<1>4. /\ Cardinality(UpTo(S, a)) <= Cardinality(UpTo(S, b))
      /\ Cardinality(UpTo(S, a)) # Cardinality(UpTo(S, b))
    BY <1>2, <1>3, FS_Subset
<1>5. Cardinality(UpTo(S, a)) \in Nat /\ Cardinality(UpTo(S, b)) \in Nat
    BY <1>2, <1>3, FS_Subset, FS_CardinalityType
<1> QED
    BY <1>4, <1>5 DEF Rank

LEMMA RankIsOne ==
    ASSUME NEW S, Positions(S), NEW a \in S, NEW b \in S, Rank(S, a) = Rank(S, b)
    PROVE  a = b
<1>1. a \in Nat /\ b \in Nat
    BY DEF Positions
<1>2. Rank(S, a) \in Int /\ Rank(S, b) \in Int
    BY RankType
<1>3. ~(a < b) /\ ~(b < a)
    BY <1>2, RankGrows
<1> QED
    BY <1>1, <1>3

\* There is a position of every rank.
LEMMA RankOnto ==
    ASSUME NEW S, Positions(S), NEW k \in 1 .. Cardinality(S)
    PROVE  \E a \in S : Rank(S, a) = k
<1> DEFINE n == Cardinality(S)
           f == [a \in S |-> Rank(S, a)]
<1>1. n \in Nat
    BY FS_CardinalityType DEF Positions
<1>2. f \in [S -> 1 .. n]
    BY RankType
<1>3. f \in Injection(S, 1 .. n)
    <2>1. \A a, b \in S : f[a] = f[b] => a = b
        BY RankIsOne
    <2> HIDE DEF f, n
    <2> QED
        BY <1>2, <2>1 DEF Injection, IsInjective
<1>4. IsFiniteSet(1 .. n) /\ Cardinality(1 .. n) = n
    BY <1>1, FS_Interval
<1>5. f \in Surjection(S, 1 .. n)
    <2> HIDE DEF f
    <2>1. Cardinality(S) = Cardinality(1 .. n)
        BY <1>4
    <2> QED
        BY <1>3, <1>4, <2>1, FS_Injection
<1>6. \E a \in S : f[a] = k
    <2> HIDE DEF f, n
    <2>1. k \in 1 .. n
        BY DEF n
    <2> QED
        BY <1>5, <2>1 DEF Surjection
<1> QED
    BY <1>6

LEMMA NthType ==
    ASSUME NEW S, Positions(S), NEW k \in 1 .. Cardinality(S)
    PROVE  Nth(S, k) \in S /\ Rank(S, Nth(S, k)) = k
BY RankOnto, NthIs

LEMMA NthOfRank ==
    ASSUME NEW S, Positions(S), NEW a \in S
    PROVE  Rank(S, a) \in 1 .. Cardinality(S) /\ Nth(S, Rank(S, a)) = a
BY RankType, NthType, RankIsOne

\* The first positions of a set are those of any part of it that comes first.
LEMMA NthOfPart ==
    ASSUME NEW S, Positions(S), NEW T \in SUBSET S, \A a \in T, b \in S \ T : a < b
    PROVE  /\ Cardinality(T) <= Cardinality(S)
           /\ \A k \in 1 .. Cardinality(T) : k \in 1 .. Cardinality(S) /\ Nth(S, k) = Nth(T, k)
<1>1. Positions(T) /\ Cardinality(T) <= Cardinality(S)
    BY FS_Subset DEF Positions
<1>2. Cardinality(T) \in Nat /\ Cardinality(S) \in Nat
    BY <1>1, FS_CardinalityType DEF Positions
<1>3. ASSUME NEW a \in T PROVE Rank(S, a) = Rank(T, a)
    <2>1. S \subseteq Nat
        BY DEF Positions
    <2>2. \A b \in S : b <= a => b \in T
        <3>1. \A b \in S \ T : a < b /\ a \in Nat /\ b \in Nat
            BY <1>3, <2>1
        <3> QED
            BY <3>1
    <2>3. UpTo(S, a) = UpTo(T, a)
        BY <2>2 DEF UpTo
    <2> QED
        BY <2>3 DEF Rank
<1>4. ASSUME NEW k \in 1 .. Cardinality(T) PROVE k \in 1 .. Cardinality(S) /\ Nth(S, k) = Nth(T, k)
    <2>1. k \in 1 .. Cardinality(S)
        BY <1>1, <1>2
    <2>2. Nth(T, k) \in T /\ Rank(T, Nth(T, k)) = k
        BY <1>1, NthType
    <2>3. Rank(S, Nth(T, k)) = k /\ Nth(T, k) \in S
        BY <1>3, <2>2
    <2> QED
        BY <2>1, <2>3, NthType, RankIsOne
<1> QED
    BY <1>1, <1>4

\* What is read at positions: a sequence of what is there, of one and in order.
LEMMA ReplayedIs ==
    ASSUME NEW f, NEW S, Positions(S)
    PROVE  /\ Replayed(f, S) = [k \in 1 .. Cardinality(S) |-> f[Nth(S, k)][2]]
           /\ Cardinality(S) \in Nat
           /\ Len(Replayed(f, S)) = Cardinality(S)
           /\ DOMAIN Replayed(f, S) = 1 .. Cardinality(S)
           /\ \A k \in 1 .. Cardinality(S) : Replayed(f, S)[k] = f[Nth(S, k)][2]
<1>1. Replayed(f, S) = [k \in 1 .. Cardinality(S) |-> f[Nth(S, k)][2]]
    BY DEF Replayed
<1>2. Cardinality(S) \in Nat
    BY FS_CardinalityType DEF Positions
<1> QED
    BY <1>1, <1>2

LEMMA ReplayedType ==
    ASSUME NEW f, NEW S, Positions(S), NEW V, \A a \in S : f[a][2] \in V
    PROVE  Replayed(f, S) \in Seq(V)
<1>1. \A k \in 1 .. Cardinality(S) : f[Nth(S, k)][2] \in V
    BY NthType
<1> QED
    BY <1>1, ReplayedIs

LEMMA ReplayedAgrees ==
    ASSUME NEW f, NEW g, NEW S, Positions(S), \A a \in S : f[a][2] = g[a][2]
    PROVE  Replayed(f, S) = Replayed(g, S)
<1>1. \A k \in 1 .. Cardinality(S) : f[Nth(S, k)][2] = g[Nth(S, k)][2]
    BY NthType
<1> QED
    BY <1>1 DEF Replayed

LEMMA ReplayedSet ==
    ASSUME NEW f, NEW S, Positions(S)
    PROVE  ToSet(Replayed(f, S)) = {f[a][2] : a \in S}
<1>1. ToSet(Replayed(f, S)) = {f[Nth(S, k)][2] : k \in 1 .. Cardinality(S)}
    BY ReplayedIs DEF ToSet
<1>2. \A k \in 1 .. Cardinality(S) : Nth(S, k) \in S
    BY NthType
<1>3. \A a \in S : Rank(S, a) \in 1 .. Cardinality(S) /\ Nth(S, Rank(S, a)) = a
    BY NthOfRank
<1> QED
    BY <1>1, <1>2, <1>3

LEMMA ReplayedPart ==
    ASSUME NEW f, NEW g, NEW S, Positions(S), NEW T \in SUBSET S,
           \A a \in T, b \in S \ T : a < b, \A a \in T : f[a][2] = g[a][2]
    PROVE  /\ Len(Replayed(g, T)) <= Len(Replayed(f, S))
           /\ \A k \in DOMAIN Replayed(g, T) :
                 k \in DOMAIN Replayed(f, S) /\ Replayed(g, T)[k] = Replayed(f, S)[k]
<1>1. Positions(T)
    BY FS_Subset DEF Positions
<1>2. \A k \in 1 .. Cardinality(T) : Nth(T, k) \in T
    BY <1>1, NthType
<1>3. /\ Cardinality(T) <= Cardinality(S)
      /\ \A k \in 1 .. Cardinality(T) : k \in 1 .. Cardinality(S) /\ Nth(S, k) = Nth(T, k)
    BY NthOfPart
<1> QED
    BY <1>1, <1>2, <1>3, ReplayedIs

\* One position more, behind the others: one more is read, at the end.
OneMore(f, g, T, m) == Replayed(f, T \cup {m}) = Append(Replayed(g, T), f[m][2])
LEMMA ReplayedGrows ==
    ASSUME NEW f, NEW g, NEW T, NEW m, Positions(T), m \in Nat,
           \A a \in T : a < m /\ f[a][2] = g[a][2]
    PROVE  Positions(T \cup {m}) /\ OneMore(f, g, T, m)
<1> DEFINE S == T \cup {m}
<1>1. m \notin T
    BY DEF Positions
<1>2. Positions(S) /\ Cardinality(S) = Cardinality(T) + 1
    BY <1>1, FS_AddElement DEF Positions
<1>3. T \in SUBSET S /\ \A a \in T, b \in S \ T : a < b
    OBVIOUS
<1>4. /\ Len(Replayed(g, T)) <= Len(Replayed(f, S))
      /\ \A k \in DOMAIN Replayed(g, T) :
            k \in DOMAIN Replayed(f, S) /\ Replayed(g, T)[k] = Replayed(f, S)[k]
    <2>1. \A a \in T : f[a][2] = g[a][2]
        OBVIOUS
    <2> HIDE DEF S
    <2> QED
        BY <1>2, <1>3, <2>1, ReplayedPart
<1>5. Rank(S, m) = Cardinality(S)
    <2>1. \A a \in S : a <= m
        <3>1. \A a \in T : a \in Nat /\ a < m
            BY DEF Positions
        <3> QED
            BY <3>1
    <2>2. UpTo(S, m) = S
        BY <2>1 DEF UpTo
    <2> QED
        BY <2>2 DEF Rank
<1>6. Nth(S, Cardinality(S)) = m
    <2>1. m \in S
        OBVIOUS
    <2> HIDE DEF S
    <2> QED
        BY <1>2, <1>5, <2>1, NthOfRank
<1> DEFINE long == Replayed(f, S)  short == Replayed(g, T)  n == Cardinality(T)
<1>7. /\ n \in Nat /\ Len(short) = n /\ DOMAIN short = 1 .. n
      /\ short = [k \in 1 .. n |-> g[Nth(T, k)][2]]
    BY ReplayedIs
<1>8. long = [k \in 1 .. n + 1 |-> f[Nth(S, k)][2]]
    BY <1>2 DEF Replayed
<1>9. long[n + 1] = f[m][2]
    <2> HIDE DEF S
    <2> QED
        BY <1>2, <1>6, <1>7, <1>8
<1>10. \A k \in 1 .. n : long[k] = short[k]
    BY <1>4, <1>7
<1> HIDE DEF S, long, short, n
<1>11. \A k \in 1 .. n + 1 : Append(short, f[m][2])[k] = long[k]
    BY <1>7, <1>9, <1>10
<1>12. long = Append(short, f[m][2])
    BY <1>7, <1>8, <1>11
<1> QED
    BY <1>2, <1>12 DEF S, long, short, OneMore

(***************************************************************************)
(* Types.                                                                  *)
(***************************************************************************)
LEMMA ChunksApart ==
    /\ Newline \in Chunk /\ Header \in Chunk /\ Torn \in Chunk
    /\ \A i \in Records \cup {Marker} : Body(i) \in Chunk
    /\ Newline # Header /\ Newline # Torn /\ Header # Torn
    /\ \A i : Body(i) # Newline /\ Body(i) # Header /\ Body(i) # Torn
    /\ \A i : Body(i)[1] = "record" /\ Body(i)[2] = i
    /\ Newline[1] # "record" /\ Header[1] # "record" /\ Torn[1] # "record"
    /\ Marker \notin Records
<1>1. "newline" # "header" /\ "newline" # "torn" /\ "header" # "torn" /\ "newline" # "record"
          /\ "header" # "record" /\ "torn" # "record"
    OBVIOUS
<1>2. Newline[1] = "newline" /\ Header[1] = "header" /\ Torn[1] = "torn"
          /\ \A i : Body(i)[1] = "record" /\ Body(i)[2] = i
    BY DEF Newline, Header, Torn, Body
<1>3. Newline # Header /\ Newline # Torn /\ Header # Torn
          /\ \A i : Body(i) # Newline /\ Body(i) # Header /\ Body(i) # Torn
    BY <1>1, <1>2
<1>4. Marker \notin Records
    BY DEF Marker, Records
<1> QED
    BY <1>1, <1>2, <1>3, <1>4 DEF Chunk

LEMMA ChunkIs ==
    ASSUME NEW c \in Chunk
    PROVE  /\ c \in {Newline, Header, Torn} \/ (c[1] = "record" /\ c = Body(c[2]))
           /\ c[1] = "record" /\ c # Body(Marker) => c[2] \in Records
           /\ c[1] = "record" => c[2] \in Records \cup {Marker}
BY ChunksApart DEF Chunk

\* The positions of the records that are replayed.
Plain(f) == {a \in DOMAIN f : f[a][1] = "record" /\ f[a] # Body(Marker)}

LEMMA ReplaysType ==
    ASSUME NEW f \in Seq(Chunk), NEW S \in SUBSET Replays(f)
    PROVE  /\ Positions(S) /\ S \subseteq Plain(f)
           /\ \A a \in S : a \in DOMAIN f /\ f[a][2] \in Records /\ f[a] = Body(f[a][2])
<1>1. Replays(f) \subseteq Plain(f)
    BY DEF Replays, Decodable, RecordLines, LineStarts, Plain
<1>2. DOMAIN f = 1 .. Len(f) /\ Len(f) \in Nat /\ \A a \in DOMAIN f : f[a] \in Chunk
    OBVIOUS
<1>3. IsFiniteSet(DOMAIN f) /\ DOMAIN f \subseteq Nat
    BY <1>2, FS_Interval
<1>4. S \in SUBSET DOMAIN f
    BY <1>1 DEF Plain
<1>5. Positions(S)
    BY <1>3, <1>4, FS_Subset DEF Positions
<1>6. \A a \in S : f[a] \in Chunk /\ f[a][1] = "record" /\ f[a] # Body(Marker)
    BY <1>1, <1>2 DEF Plain
<1>7. \A a \in S : f[a][2] \in Records /\ f[a] = Body(f[a][2])
    BY <1>6, ChunkIs, ChunksApart
<1> QED
    BY <1>1, <1>4, <1>5, <1>7

LEMMA EventsType ==
    ASSUME NEW f \in Seq(Chunk), NEW offset
    PROVE  EventsTo(f, offset) \in Seq(Records)
<1> DEFINE S == {a \in Replays(f) : LineEnd(f, a) <= offset}
<1>1. S \in SUBSET Replays(f)
    OBVIOUS
<1>2. Positions(S) /\ \A a \in S : f[a][2] \in Records
    <2> HIDE DEF S
    <2> QED
        BY <1>1, ReplaysType
<1> HIDE DEF S
<1>3. Replayed(f, S) \in Seq(Records)
    BY <1>2, ReplayedType
<1> QED
    BY <1>3 DEF EventsTo, S

LEMMA SnapshotType ==
    ASSUME NEW s \in Seq(Records)
    PROVE  /\ SnapshotFile(s) \in Seq(Chunk) /\ Len(SnapshotFile(s)) = 2 * Len(s) + 2
           /\ \A a \in 1 .. 2 * Len(s) + 2 :
                 SnapshotFile(s)[a] =
                     IF a % 2 = 0 THEN Newline ELSE IF a = 1 THEN Header ELSE Body(s[a \div 2])
<1> DEFINE n == 2 * Len(s) + 2
           f == SnapshotFile(s)
<1>1. n \in Nat
    OBVIOUS
<1>2. f = [a \in 1 .. n |-> IF a % 2 = 0 THEN Newline
                             ELSE IF a = 1 THEN Header ELSE Body(s[a \div 2])]
    BY DEF SnapshotFile
<1>3. ASSUME NEW a \in 1 .. n, a % 2 # 0, a # 1 PROVE a \div 2 \in 1 .. Len(s)
    BY <1>3
<1>4. \A a \in 1 .. n : f[a] \in Chunk
    <2> SUFFICES ASSUME NEW a \in 1 .. n PROVE f[a] \in Chunk
        OBVIOUS
    <2>1. CASE a % 2 # 0 /\ a # 1
        <3>1. s[a \div 2] \in Records
            BY <1>3, <2>1
        <3> QED
            BY <1>2, <2>1, <3>1, ChunksApart
    <2> QED
        BY <1>2, <2>1, ChunksApart
<1> HIDE DEF f
<1> QED
    BY <1>1, <1>2, <1>4 DEF f

LEMMA SurvivorsType ==
    ASSUME NEW f \in Seq(Chunk), NEW firm \in 0 .. Len(f), NEW g \in Survivors(f, firm)
    PROVE  /\ g \in Seq(Chunk) /\ firm <= Len(g)
           /\ \E n \in firm .. Len(f) :
                 /\ Len(g) = n \/ (Len(g) = n + 1 /\ g[n + 1] = Torn
                                      /\ n + 1 \in DOMAIN f /\ f[n + 1] # Newline)
                 /\ \A a \in 1 .. n : a \in DOMAIN g /\ a \in DOMAIN f /\ g[a] = f[a]
<1>1. ASSUME NEW n \in firm .. Len(f)
      PROVE  /\ SubSeq(f, 1, n) \in Seq(Chunk) /\ Len(SubSeq(f, 1, n)) = n
             /\ \A a \in 1 .. n : SubSeq(f, 1, n)[a] = f[a] /\ a \in DOMAIN f
    OBVIOUS
<1>2. CASE \E n \in firm .. Len(f) : g = SubSeq(f, 1, n)
    BY <1>1, <1>2
<1>3. CASE \E n \in firm .. Len(f) - 1 : g = Append(SubSeq(f, 1, n), Torn) /\ f[n + 1] # Newline
    <2>1. PICK n \in firm .. Len(f) - 1 : g = Append(SubSeq(f, 1, n), Torn) /\ f[n + 1] # Newline
        BY <1>3
    <2>2. n \in firm .. Len(f)
        OBVIOUS
    <2> DEFINE h == SubSeq(f, 1, n)
    <2>3. h \in Seq(Chunk) /\ Len(h) = n /\ \A a \in 1 .. n : h[a] = f[a] /\ a \in DOMAIN f
        BY <1>1, <2>2
    <2> HIDE DEF h
    <2>4. g = Append(h, Torn)
        BY <2>1 DEF h
    <2>5. g \in Seq(Chunk) /\ Len(g) = n + 1 /\ g[n + 1] = Torn /\ \A a \in 1 .. n : g[a] = h[a]
        BY <2>3, <2>4, ChunksApart
    <2> QED
        BY <2>1, <2>2, <2>3, <2>5
<1> QED
    BY <1>2, <1>3 DEF Survivors

LEMMA PrefixType ==
    ASSUME NEW f \in Seq(Chunk)
    PROVE  RecoverablePrefix(f) \in 0 .. Len(f)
<1> DEFINE tail == CorruptTail(f)
<1>1. tail \subseteq 1 .. Len(f)
    BY DEF CorruptTail, RecordLines, LineStarts
<1>2. CASE tail # {}
    <2>1. tail \subseteq Nat
        BY <1>1
    <2>2. \E a \in tail : \A b \in tail : a <= b
        <3> HIDE DEF tail
        <3> QED
            BY <1>2, <2>1, LeastExists
    <2>3. (CHOOSE a \in tail : \A b \in tail : a <= b) \in 1 .. Len(f)
        BY <1>1, <2>2
    <2> QED
        BY <1>2, <2>3 DEF RecoverablePrefix
<1> QED
    BY <1>2 DEF RecoverablePrefix

LEMMA FragmentsType ==
    ASSUME NEW body \in Chunk, NEW f \in Fragments(body)
    PROVE  /\ f \in Seq(Chunk) /\ Len(f) \in {0, 1}
           /\ f = <<>> \/ (Len(f) = 1 /\ f[1] = Torn) \/ (Len(f) = 1 /\ f[1] = body)
<1>1. CASE f = <<>>
    BY <1>1
<1>2. ASSUME NEW c \in Chunk, f = <<c>> PROVE f \in Seq(Chunk) /\ Len(f) = 1 /\ f[1] = c
    BY <1>2
<1>3. Torn \in Chunk
    BY ChunksApart
<1> QED
    BY <1>1, <1>2, <1>3 DEF Fragments

LEMMA WriteType ==
    ASSUME TypeOK, NEW body \in Chunk, NEW ok \in BOOLEAN, Write(body, ok)
    PROVE  /\ file' \in Seq(Chunk) /\ Len(file) <= Len(file') /\ Len(file) \in Nat
           /\ Len(file') \in Nat
           /\ walBytes' \in Nat /\ botched' \in BOOLEAN
           /\ synced \in 0 .. Len(file') /\ Synced(file') \in 0 .. Len(file')
<1>1. /\ file \in Seq(Chunk) /\ Len(file) \in Nat /\ walBytes \in Nat /\ botched \in BOOLEAN
      /\ synced \in 0 .. Len(file)
    BY DEF TypeOK
<1>2. file' \in Seq(Chunk) /\ Len(file) <= Len(file') /\ walBytes' \in Nat /\ botched' \in BOOLEAN
    <2>1. CASE ~open
        BY <1>1, <2>1 DEF Write
    <2>2. CASE open /\ ok
        <3>1. file' = file \o <<body, Newline>> /\ walBytes' = walBytes + 2
              /\ botched' = (botched \/ Unterminated(file))
            BY <2>2 DEF Write
        <3>2. Unterminated(file) \in BOOLEAN
            BY DEF Unterminated
        <3> QED
            BY <1>1, <3>1, <3>2, ChunksApart
    <2>3. CASE open /\ ~ok
        <3>1. PICK rest \in Fragments(body) :
                 /\ file' = file \o rest /\ walBytes' = walBytes
                 /\ botched' = (botched \/ (rest # <<>> /\ Unterminated(file)))
            BY <2>3 DEF Write
        <3>2. rest \in Seq(Chunk)
            BY FragmentsType
        <3>3. Unterminated(file) \in BOOLEAN
            BY DEF Unterminated
        <3> QED
            BY <1>1, <3>1, <3>2, <3>3
    <2> QED
        BY <2>1, <2>2, <2>3
<1> QED
    BY <1>1, <1>2 DEF Synced

LEMMA StageType == TypeOK /\ Stage => TypeOK'
<1> SUFFICES ASSUME TypeOK, Stage PROVE TypeOK'
    OBVIOUS
<1>1. /\ written' = written + 1 /\ written' \in Records /\ written' \in 0 .. MaxRecords
      /\ UNCHANGED <<synced, open, ram, serving, cut, snapshotSeen, crashes, promised, restored,
                     overtaken>>
    BY WalBounds DEF Stage, TypeOK, Records
<1>2. \E ok \in BOOLEAN : Write(Body(written'), ok)
    BY DEF Stage
<1>3. degraded' \in BOOLEAN /\ staged' \in Seq(Records)
    <2>1. degraded \in BOOLEAN /\ staged \in Seq(Records)
        BY DEF TypeOK
    <2>2. degraded' = degraded \/ degraded' = TRUE
        BY Zenon DEF Stage
    <2>3. staged' = Append(staged, written') \/ staged' = staged
        BY DEF Stage
    <2>4. staged' \in Seq(Records)
        BY <1>1, <2>1, <2>3
    <2> QED
        BY <2>1, <2>2, <2>4, Zenon
<1>4. /\ file' \in Seq(Chunk) /\ walBytes' \in Nat /\ botched' \in BOOLEAN
      /\ synced \in 0 .. Len(file')
    BY <1>1, <1>2, WriteType, ChunksApart
<1> QED
    BY <1>1, <1>3, <1>4 DEF TypeOK

LEMMA BarrierType == TypeOK /\ Barrier => TypeOK'
<1> SUFFICES ASSUME TypeOK, Barrier PROVE TypeOK'
    OBVIOUS
<1>1. ram \in Seq(Records) /\ staged \in Seq(Records) /\ Len(file) \in Nat
    BY DEF TypeOK
<1>2. ToSet(staged) \subseteq Records /\ ram \o staged \in Seq(Records)
    BY <1>1 DEF ToSet
<1>3. Synced(file) \in 0 .. Len(file)
    BY <1>1 DEF Synced, TypeOK
<1>4. \/ synced' = synced /\ degraded' = TRUE /\ ram' = ram /\ promised' = promised
      \/ /\ synced' = Synced(file) /\ degraded' = degraded
         /\ ram' = ram \o staged /\ promised' = promised \cup ToSet(staged)
    BY DEF Barrier
<1>5. synced' \in 0 .. Len(file) /\ degraded' \in BOOLEAN /\ ram' \in Seq(Records)
      /\ promised' \subseteq Records
    BY <1>1, <1>2, <1>3, <1>4 DEF TypeOK
<1>6. staged' = <<>> /\ staged' \in Seq(Records)
    BY DEF Barrier
<1> QED
    BY <1>5, <1>6 DEF Barrier, TypeOK

LEMMA DurableType == TypeOK /\ Durable => TypeOK'
<1> SUFFICES ASSUME TypeOK, Durable PROVE TypeOK'
    OBVIOUS
<1>1. /\ written' = written + 1 /\ written' \in Records /\ written' \in 0 .. MaxRecords
      /\ UNCHANGED <<open, staged, serving, cut, snapshotSeen, crashes, restored>>
    BY WalBounds DEF Durable, TypeOK, Records
<1>2. \E ok \in BOOLEAN : Write(Body(written'), ok)
    BY DEF Durable
<1>3. /\ file' \in Seq(Chunk) /\ walBytes' \in Nat /\ botched' \in BOOLEAN
      /\ synced \in 0 .. Len(file') /\ Synced(file') \in 0 .. Len(file')
    BY <1>1, <1>2, WriteType, ChunksApart
<1>4. /\ degraded' \in BOOLEAN /\ ram' \in Seq(Records) /\ promised' \subseteq Records
      /\ synced' \in 0 .. Len(file') /\ overtaken' \subseteq Records \X Records
    <2>1. degraded \in BOOLEAN /\ ram \in Seq(Records) /\ promised \subseteq Records
        BY DEF TypeOK
    <2>2. degraded' = degraded \/ degraded' = TRUE
        BY Zenon DEF Durable
    <2>3. \/ /\ synced' = Synced(file')
             /\ ram' = Append(ram, written') /\ promised' = promised \cup {written'}
          \/ synced' = synced /\ ram' \in {ram, Append(ram, written')} /\ promised' = promised
        BY DEF Durable
    <2>4. ram' \in Seq(Records) /\ promised' \subseteq Records /\ synced' \in 0 .. Len(file')
        <3>1. Append(ram, written') \in Seq(Records)
            BY <1>1, <2>1
        <3> QED
            BY <1>1, <1>3, <2>1, <2>3, <3>1
    <2>5. overtaken' \subseteq Records \X Records
        <3>1. ToSet(staged) \subseteq Records /\ overtaken \subseteq Records \X Records
            BY DEF TypeOK, ToSet
        <3>2. overtaken' = overtaken \/ overtaken' = overtaken \cup (ToSet(staged) \X {written'})
            BY DEF Durable
        <3> QED
            BY <1>1, <3>1, <3>2
    <2> QED
        BY <2>1, <2>2, <2>4, <2>5, Zenon
<1> QED
    BY <1>1, <1>3, <1>4 DEF TypeOK

LEMMA MarkerType == TypeOK /\ SnapshotMarker => TypeOK'
<1> SUFFICES ASSUME TypeOK, SnapshotMarker PROVE TypeOK'
    OBVIOUS
<1>1. \E ok \in BOOLEAN : Write(Body(Marker), ok)
    BY DEF SnapshotMarker
<1>2. /\ file' \in Seq(Chunk) /\ walBytes' \in Nat /\ botched' \in BOOLEAN
      /\ synced \in 0 .. Len(file') /\ Synced(file') \in 0 .. Len(file')
    BY <1>1, WriteType, ChunksApart
<1>3. /\ degraded' \in BOOLEAN /\ snapshotSeen' \in BOOLEAN
      /\ cut' \in [offset : Nat, ram : Seq(Records), valid : BOOLEAN]
      /\ synced' \in 0 .. Len(file')
    <2>1. /\ degraded \in BOOLEAN /\ snapshotSeen \in BOOLEAN /\ ram \in Seq(Records)
          /\ cut \in [offset : Nat, ram : Seq(Records), valid : BOOLEAN]
        BY DEF TypeOK
    <2>2. (degraded' = degraded \/ degraded' = TRUE)
              /\ (snapshotSeen' = snapshotSeen \/ snapshotSeen' = TRUE)
        BY Zenon DEF SnapshotMarker
    <2>3. synced' = Synced(file') \/ synced' = synced
        BY DEF SnapshotMarker
    <2>4. cut' = [offset |-> walBytes', ram |-> ram, valid |-> TRUE] \/ cut' = cut
        BY DEF SnapshotMarker
    <2>5. cut' \in [offset : Nat, ram : Seq(Records), valid : BOOLEAN]
        <3> DEFINE new == [offset |-> walBytes', ram |-> ram, valid |-> TRUE]
        <3>1. new \in [offset : Nat, ram : Seq(Records), valid : BOOLEAN]
            BY <1>2, <2>1
        <3> HIDE DEF new
        <3> QED
            BY <2>1, <2>4, <3>1 DEF new
    <2>6. synced' \in 0 .. Len(file')
        BY <1>2, <2>3
    <2> QED
        BY <2>1, <2>2, <2>5, <2>6, Zenon
<1> QED
    BY <1>2, <1>3 DEF SnapshotMarker, TypeOK

\* What a compaction does: a whole one, or one that fails with the old file or the new.
LEMMA CompactIs ==
    ASSUME TypeOK, Compact
    PROVE  /\ serving = "up" /\ ~degraded /\ staged = <<>>
           /\ \/ file' = file /\ synced' = synced /\ walBytes' = walBytes /\ degraded'
                 /\ UNCHANGED <<cut, promised>>
              \/ /\ file' = SnapshotFile(ram) /\ synced' = Len(file')
                 /\ (degraded' /\ walBytes' = walBytes)
                      \/ (walBytes' = Len(file') /\ UNCHANGED <<degraded, open>>)
                 /\ cut' = NoCut
                 /\ promised' = IF restored THEN promised \cap ToSet(ram) ELSE promised
           /\ open' \in BOOLEAN /\ degraded' \in BOOLEAN
           /\ UNCHANGED <<staged, ram, serving, snapshotSeen, written, crashes, botched, restored,
                          overtaken>>
<1>1. open \in BOOLEAN /\ degraded \in BOOLEAN
    BY DEF TypeOK
<1> QED
    BY <1>1 DEF Compact, disk

LEMMA CompactType == TypeOK /\ Compact => TypeOK'
<1> SUFFICES ASSUME TypeOK, Compact PROVE TypeOK'
    OBVIOUS
<1>1. ram \in Seq(Records)
    BY DEF TypeOK
<1>2. SnapshotFile(ram) \in Seq(Chunk) /\ Len(SnapshotFile(ram)) \in Nat
    BY <1>1, SnapshotType
<1>3. NoCut \in [offset : Nat, ram : Seq(Records), valid : BOOLEAN]
    BY DEF NoCut
<1>4. /\ file' \in Seq(Chunk) /\ synced' \in 0 .. Len(file') /\ walBytes' \in Nat
      /\ cut' \in [offset : Nat, ram : Seq(Records), valid : BOOLEAN] /\ promised' \subseteq Records
    BY <1>2, <1>3, CompactIs DEF TypeOK
<1> QED
    BY <1>4, CompactIs DEF TypeOK

LEMMA DownType == TypeOK /\ (Kill \/ PowerLoss) => TypeOK'
<1> SUFFICES ASSUME TypeOK, Kill \/ PowerLoss PROVE TypeOK'
    OBVIOUS
<1>1. Down
    BY DEF Kill, PowerLoss
<1>2. file' \in Seq(Chunk) /\ synced' \in 0 .. Len(file')
    <2>1. CASE Kill
        BY <2>1 DEF Kill, disk, TypeOK
    <2>2. CASE PowerLoss
        <3>1. file' \in Survivors(file, synced) /\ synced' = Len(file')
            BY <2>2 DEF PowerLoss
        <3>2. file' \in Seq(Chunk)
            BY <3>1, SurvivorsType DEF TypeOK
        <3> QED
            BY <3>1, <3>2
    <2> QED
        BY <2>1, <2>2
<1>3. crashes' \in 0 .. MaxCrashes
    BY <1>1, WalBounds DEF Down, TypeOK
<1>4. <<>> \in Seq(Records)
    OBVIOUS
<1> QED
    BY <1>1, <1>2, <1>3, <1>4 DEF Down, histories, TypeOK

\* A recovery: refused, or the file cut and served, or an empty one given its header.
LEMMA RecoverIs ==
    ASSUME TypeOK, NEW offset, RecoverTo(offset)
    PROVE  \/ /\ MidCorrupt(file) /\ serving' = "refused"
              /\ UNCHANGED <<file, synced, walBytes, open, degraded, ram>>
           \/ /\ ~MidCorrupt(file) /\ serving' = "up" /\ open' = TRUE
              /\ ram' = EventsTo(file, offset)
              /\ \/ /\ file' = SubSeq(file, 1, RecoverablePrefix(file))
                    /\ synced' = SyncedAfterCut(RecoverablePrefix(file))
                    /\ walBytes' = RecoverablePrefix(file) /\ UNCHANGED degraded
                 \/ /\ RecoverablePrefix(file) = 0
                    /\ file' = <<Header, Newline>> /\ synced' = 2 /\ walBytes' = 2
                    /\ UNCHANGED degraded
                 \/ /\ RecoverablePrefix(file) = 0
                    /\ file' \in Fragments(Header) \cup {<<Header, Newline>>}
                    /\ synced' = 0 /\ walBytes' = 0 /\ degraded' = TRUE
BY DEF RecoverTo, disk

LEMMA RecoverType ==
    ASSUME TypeOK, NEW offset, RecoverTo(offset)
    PROVE  /\ file' \in Seq(Chunk) /\ synced' \in 0 .. Len(file') /\ walBytes' \in Nat
           /\ serving' \in {"up", "refused"} /\ open' \in BOOLEAN /\ degraded' \in BOOLEAN
           /\ ram' \in Seq(Records)
<1> DEFINE keep == RecoverablePrefix(file)
<1>1. file \in Seq(Chunk) /\ synced \in 0 .. Len(file) /\ walBytes \in Nat /\ degraded \in BOOLEAN
      /\ open \in BOOLEAN /\ ram \in Seq(Records)
    BY DEF TypeOK
<1>2. keep \in 0 .. Len(file) /\ EventsTo(file, offset) \in Seq(Records)
    BY <1>1, PrefixType, EventsType
<1>3. ASSUME file' = SubSeq(file, 1, keep), synced' = SyncedAfterCut(keep)
      PROVE  file' \in Seq(Chunk) /\ synced' \in 0 .. Len(file')
    <2> HIDE DEF keep
    <2>1. file' \in Seq(Chunk) /\ Len(file') = keep
        BY <1>1, <1>2, <1>3
    <2> QED
        BY <1>1, <1>2, <1>3, <2>1 DEF SyncedAfterCut
<1>4. ASSUME NEW f \in Fragments(Header) \cup {<<Header, Newline>>} PROVE f \in Seq(Chunk)
    <2>1. f \in Fragments(Header) => f \in Seq(Chunk)
        BY ChunksApart, FragmentsType
    <2>2. <<Header, Newline>> \in Seq(Chunk)
        BY ChunksApart
    <2> QED
        BY <2>1, <2>2
<1>5. <<Header, Newline>> \in Seq(Chunk) /\ Len(<<Header, Newline>>) = 2
    BY ChunksApart
<1> HIDE DEF keep
<1>6. CASE MidCorrupt(file)
    BY <1>1, <1>6, RecoverIs
<1>7. CASE ~MidCorrupt(file)
    <2>1. serving' = "up" /\ open' = TRUE /\ ram' \in Seq(Records)
        BY <1>2, <1>7, RecoverIs
    <2>2. CASE file' = SubSeq(file, 1, keep) /\ synced' = SyncedAfterCut(keep)
               /\ walBytes' = keep /\ degraded' = degraded
        BY <1>1, <1>2, <1>3, <2>1, <2>2
    <2>3. CASE file' = <<Header, Newline>> /\ synced' = 2 /\ walBytes' = 2 /\ degraded' = degraded
        BY <1>1, <1>5, <2>1, <2>3
    <2>4. CASE file' \in Fragments(Header) \cup {<<Header, Newline>>} /\ synced' = 0
               /\ walBytes' = 0 /\ degraded' = TRUE
        <3>1. file' \in Seq(Chunk) /\ Len(file') \in Nat
            BY <1>4, <2>4
        <3> QED
            BY <2>1, <2>4, <3>1
    <2> QED
        BY <1>7, <2>2, <2>3, <2>4, RecoverIs DEF keep
<1> QED
    BY <1>6, <1>7

LEMMA StartType == TypeOK /\ (Start \/ Restore) => TypeOK'
<1> SUFFICES ASSUME TypeOK, Start \/ Restore PROVE TypeOK'
    OBVIOUS
<1>1. PICK offset : RecoverTo(offset)
    BY DEF Start, Restore
<1>2. restored' \in BOOLEAN
      /\ UNCHANGED <<staged, cut, snapshotSeen, written, crashes, promised, botched, overtaken>>
    BY DEF Start, Restore
<1> QED
    BY <1>1, <1>2, RecoverType DEF TypeOK

LEMMA TypeStep == TypeOK /\ [Next]_vars => TypeOK'
<1> SUFFICES ASSUME TypeOK, [Next]_vars PROVE TypeOK'
    OBVIOUS
<1>1. CASE UNCHANGED vars
    BY <1>1 DEF vars, disk, broker, histories, TypeOK
<1> QED
    BY <1>1, StageType, BarrierType, DurableType, MarkerType, CompactType, DownType, StartType
    DEF Next

LEMMA TypeInit == Init => TypeOK
<1>1. <<>> \in Seq(Records) /\ <<>> \in Seq(Chunk) /\ Len(<<>>) = 0
    OBVIOUS
<1>2. NoCut \in [offset : Nat, ram : Seq(Records), valid : BOOLEAN]
    BY <1>1 DEF NoCut
<1>3. 0 \in 0 .. 0 /\ 0 \in Nat /\ 0 \in 0 .. MaxRecords /\ 0 \in 0 .. MaxCrashes
    BY WalBounds
<1> QED
    BY <1>1, <1>2, <1>3 DEF Init, TypeOK

\* Every variable keeps its type, whatever was botched: an offset is of the file, what
\* is replayed are records, and nothing is beyond what was synced.
THEOREM TypeCorrect == Spec => []TypeOK
BY TypeInit, TypeStep, PTL DEF Spec

(***************************************************************************)
(* The invariant.                                                          *)
(***************************************************************************)
\* Lines of one chunk each; only the last may be torn or lack its newline.
Lined(f) ==
    \A a \in DOMAIN f :
        /\ f[a] = Newline <=> a % 2 = 0
        /\ f[a] = Header => a = 1
        /\ f[a] = Torn => a = Len(f)
\* No record is in the file twice, none is from the future, and they come in the order
\* of their numbers but for one that has overtaken another.
Once(f) == \A a, b \in Plain(f) : f[a] = f[b] => a = b
Numbered(f) ==
    \A a \in Plain(f) :
        /\ f[a][2] <= written
        /\ \A b \in Plain(f) : a < b => f[a][2] < f[b][2] \/ <<f[b][2], f[a][2]>> \in overtaken

InFile(f, r, bytes) == \E a \in Plain(f) : a <= bytes /\ f[a] = Body(r)
PromisedIsSynced == \A r \in promised : InFile(file, r, synced)
InOrder(s, passed) ==
    \A i, j \in DOMAIN s : i < j => s[i] < s[j] \/ <<s[j], s[i]>> \in passed
SameRecords(s, t) == Len(s) = Len(t) /\ ToSet(s) = ToSet(t)
CutIsSynced ==
    cut.valid => /\ cut.offset <= synced /\ cut.offset % 2 = 0
                 /\ SameRecords(EventsTo(file, cut.offset), cut.ram)
                 /\ InOrder(cut.ram, overtaken)
StagedIsWritten ==
    /\ \A i \in DOMAIN staged : InFile(file, staged[i], Len(file))
    /\ staged # <<>> => open
    /\ serving # "up" => staged = <<>>
Distinct(s) == \A i, j \in DOMAIN s : s[i] = s[j] => i = j
Proper(s, n, passed) ==
    /\ Distinct(s) /\ InOrder(s, passed)
    /\ \A i \in DOMAIN s : s[i] <= n
RamOnce == Proper(ram \o staged, written, overtaken)
\* A broker that is not degraded has replayed or applied what is in the file, except
\* what a cut it was started at left out.
RamIsFile ==
    serving = "up" /\ ~degraded =>
        /\ open /\ walBytes = Len(file)
        /\ ~restored \/ ~cut.valid =>
              /\ SameRecords(Events(file), ram \o staged)
              /\ overtaken = {} => Events(file) = ram \o staged

Kept ==
    /\ Lined(file) /\ Once(file) /\ Numbered(file)
    /\ PromisedIsSynced /\ CutIsSynced /\ StagedIsWritten /\ RamOnce /\ RamIsFile
KeptInv == ~botched => Kept

(***************************************************************************)
(* Reading a lined file.                                                   *)
(***************************************************************************)
LEMMA LinedReads ==
    ASSUME NEW f \in Seq(Chunk), Lined(f)
    PROVE  /\ Decodable(f) = {a \in DOMAIN f : f[a][1] = "record"} /\ Replays(f) = Plain(f)
           /\ ~MidCorrupt(f)
           /\ \A a \in Plain(f) : a \in 1 .. Len(f) /\ a % 2 = 1
           /\ CorruptTail(f) \subseteq {a \in DOMAIN f : f[a] = Torn /\ a = Len(f)}
<1> DEFINE R == {a \in DOMAIN f : f[a][1] = "record"}
<1>1. DOMAIN f = 1 .. Len(f) /\ Len(f) \in Nat /\ \A a \in DOMAIN f : f[a] \in Chunk
    OBVIOUS
<1>2. \A a \in DOMAIN f : f[a] = Newline \/ f[a] = Header \/ f[a] = Torn \/ a \in R
    BY <1>1, ChunkIs
<1>3. \A a \in R : f[a] # Newline /\ f[a] # Header /\ f[a] # Torn /\ a % 2 = 1
    BY <1>1, ChunksApart DEF Lined
<1>4. \A a \in R : a # 1 => a - 1 \in DOMAIN f /\ f[a - 1] = Newline
    BY <1>1, <1>3 DEF Lined
<1>5. \A a \in R : AloneOnLine(f, a)
    <2>1. \A a \in R : a # Len(f) => a + 1 \in DOMAIN f /\ (a + 1) % 2 = 0
        BY <1>1, <1>3
    <2> QED
        BY <2>1 DEF Lined, AloneOnLine
<1>6. \A a \in R : a \in RecordLines(f)
    BY <1>3, <1>4 DEF RecordLines, LineStarts, HasHeader
<1>7. Decodable(f) = R
    BY <1>5, <1>6 DEF Decodable, RecordLines, LineStarts
<1>8. Replays(f) = Plain(f)
    BY <1>7 DEF Replays, Plain
<1>9. ASSUME HasHeader(f), NEW a \in RecordLines(f) PROVE a \in R \/ (f[a] = Torn /\ a = Len(f))
    <2>1. a \in DOMAIN f /\ a # 1 /\ f[a - 1] = Newline /\ a - 1 \in DOMAIN f
        BY <1>1, <1>9 DEF RecordLines, LineStarts
    <2>2. a % 2 = 1
        BY <1>1, <2>1 DEF Lined
    <2> QED
        BY <1>2, <2>1, <2>2 DEF Lined
<1>10. ASSUME HasHeader(f) PROVE Decodable(f) = RecordLines(f) \ CorruptTail(f)
    <2>1. CorruptTail(f) = {a \in RecordLines(f) : \A b \in R : b < a}
        BY <1>7, <1>10 DEF CorruptTail
    <2>2. \A a \in R : a \in RecordLines(f) /\ ~(a < a)
        BY <1>1, <1>6
    <2>3. \A a \in RecordLines(f) : a \notin R => \A b \in R : b < a
        <3> SUFFICES ASSUME NEW a \in RecordLines(f), a \notin R, NEW b \in R PROVE b < a
            OBVIOUS
        <3>1. f[a] = Torn /\ a = Len(f)
            BY <1>9, <1>10
        <3>2. f[b] # Torn
            BY <1>3
        <3> QED
            BY <1>1, <3>1, <3>2
    <2> QED
        BY <1>7, <2>1, <2>2, <2>3
<1>11. \A a \in Plain(f) : a \in 1 .. Len(f) /\ a % 2 = 1
    BY <1>1, <1>3 DEF Plain
<1>12. CorruptTail(f) \subseteq {a \in DOMAIN f : f[a] = Torn /\ a = Len(f)}
    <2>1. ASSUME NEW a \in CorruptTail(f) PROVE HasHeader(f) /\ a \in RecordLines(f) /\ a \notin R
        <3>1. HasHeader(f)
            BY <2>1 DEF CorruptTail
        <3>2. a \in RecordLines(f) /\ \A b \in R : b < a
            BY <1>7, <2>1, <3>1 DEF CorruptTail
        <3>3. a \in R => a < a /\ a \in Nat
            BY <1>1, <3>2
        <3> QED
            BY <3>1, <3>2, <3>3
    <2>2. \A a \in CorruptTail(f) : a \in DOMAIN f /\ f[a] = Torn /\ a = Len(f)
        BY <1>9, <2>1 DEF RecordLines, LineStarts
    <2> QED
        BY <2>2
<1> QED
    BY <1>7, <1>8, <1>10, <1>11, <1>12 DEF MidCorrupt

\* What is before an even offset, and all there is.
Before(f, offset) == {a \in Plain(f) : a < offset}

LEMMA LinedEvents ==
    ASSUME NEW f \in Seq(Chunk), Lined(f)
    PROVE  /\ Positions(Plain(f)) /\ Events(f) = Replayed(f, Plain(f))
           /\ \A a \in Plain(f) : f[a][2] \in Records /\ f[a] = Body(f[a][2])
           /\ \A offset \in Nat : offset % 2 = 0 =>
                 EventsTo(f, offset) = Replayed(f, Before(f, offset))
<1>1. Replays(f) = Plain(f) /\ \A a \in Plain(f) : a \in 1 .. Len(f) /\ a % 2 = 1
    BY LinedReads
<1>2. Len(f) \in Nat
    OBVIOUS
<1>3. \A a \in Plain(f) : LineEnd(f, a) <= Len(f)
    BY <1>1, <1>2 DEF LineEnd
<1>4. {a \in Replays(f) : LineEnd(f, a) <= Len(f)} = Plain(f)
    BY <1>1, <1>3
<1>5. ASSUME NEW offset \in Nat, offset % 2 = 0, NEW a \in Plain(f)
      PROVE  LineEnd(f, a) <= offset <=> a < offset
    <2>1. a \in Nat /\ a % 2 = 1
        BY <1>1
    <2>2. a # offset
        BY <1>5, <2>1
    <2> QED
        BY <2>1, <2>2 DEF LineEnd
<1>6. ASSUME NEW offset \in Nat, offset % 2 = 0
      PROVE  {a \in Replays(f) : LineEnd(f, a) <= offset} = Before(f, offset)
    BY <1>1, <1>5, <1>6 DEF Before
<1> QED
    BY <1>1, <1>4, <1>6, ReplaysType DEF Events, EventsTo

\* g is f up to n, and nothing to replay behind that.
CutAt(f, g, n) ==
    /\ n \in 0 .. Len(f)
    /\ \A a \in 1 .. n : a \in DOMAIN g /\ a \in DOMAIN f /\ g[a] = f[a]
    /\ \A a \in Plain(g) : a \in 1 .. n

LEMMA CutReads ==
    ASSUME NEW f \in Seq(Chunk), NEW g \in Seq(Chunk), Lined(f), Lined(g), NEW n, CutAt(f, g, n)
    PROVE  /\ Plain(g) = {a \in Plain(f) : a <= n}
           /\ \A a \in Plain(g) : g[a] = f[a]
           /\ Len(Events(g)) <= Len(Events(f))
           /\ \A k \in DOMAIN Events(g) :
                 k \in DOMAIN Events(f) /\ Events(g)[k] = Events(f)[k]
           /\ \A offset \in 0 .. n : offset % 2 = 0 => EventsTo(g, offset) = EventsTo(f, offset)
           /\ (\A a \in Plain(f) : a <= n) => Events(g) = Events(f)
<1>1. n \in Nat /\ \A a \in 1 .. n : a \in DOMAIN g /\ a \in DOMAIN f /\ g[a] = f[a]
    BY DEF CutAt
<1>2. \A a \in Plain(f) : a \in 1 .. Len(f)
    BY LinedReads
<1>3. Plain(g) = {a \in Plain(f) : a <= n}
    <2>1. \A a \in Plain(g) : a \in 1 .. n
        BY DEF CutAt
    <2>2. \A a \in Plain(g) : a \in Plain(f) /\ a <= n
        BY <1>1, <2>1 DEF Plain
    <2>3. \A a \in Plain(f) : a <= n => a \in 1 .. n /\ a \in Plain(g)
        BY <1>1, <1>2 DEF Plain
    <2> QED
        BY <2>2, <2>3
<1>4. \A a \in Plain(g) : g[a] = f[a] /\ a \in Nat
    BY <1>1, <1>2, <1>3
<1>5. /\ Positions(Plain(f)) /\ Positions(Plain(g))
      /\ Events(f) = Replayed(f, Plain(f)) /\ Events(g) = Replayed(g, Plain(g))
    BY LinedEvents
<1>6. Plain(g) \in SUBSET Plain(f) /\ \A a \in Plain(g), b \in Plain(f) \ Plain(g) : a < b
    BY <1>1, <1>2, <1>3
<1>7. /\ Len(Events(g)) <= Len(Events(f))
      /\ \A k \in DOMAIN Events(g) : k \in DOMAIN Events(f) /\ Events(g)[k] = Events(f)[k]
    BY <1>4, <1>5, <1>6, ReplayedPart
<1>8. ASSUME NEW offset \in 0 .. n, offset % 2 = 0 PROVE EventsTo(g, offset) = EventsTo(f, offset)
    <2>1. offset \in Nat
        OBVIOUS
    <2>2. EventsTo(g, offset) = Replayed(g, Before(g, offset))
          /\ EventsTo(f, offset) = Replayed(f, Before(f, offset))
        BY <1>8, <2>1, LinedEvents
    <2>3. Before(g, offset) = Before(f, offset)
        BY <1>1, <1>2, <1>3, <1>8 DEF Before
    <2>4. Positions(Before(g, offset)) /\ \A a \in Before(g, offset) : g[a] = f[a]
        <3>1. Before(g, offset) \in SUBSET Plain(g)
            BY DEF Before
        <3> QED
            BY <1>4, <1>5, <3>1, FS_Subset DEF Positions
    <2> QED
        BY <2>2, <2>3, <2>4, ReplayedAgrees
<1>9. ASSUME \A a \in Plain(f) : a <= n PROVE Events(g) = Events(f)
    <2>1. Plain(g) = Plain(f)
        BY <1>3, <1>9
    <2> QED
        BY <1>4, <1>5, <2>1, ReplayedAgrees
<1> QED
    BY <1>3, <1>4, <1>7, <1>8, <1>9

\* What a crash leaves of a lined file is one, cut somewhere behind what is firm.
LEMMA SurvivorIsCut ==
    ASSUME NEW f \in Seq(Chunk), Lined(f), NEW firm \in 0 .. Len(f), NEW g \in Survivors(f, firm)
    PROVE  /\ g \in Seq(Chunk) /\ Lined(g)
           /\ \E n \in firm .. Len(f) : CutAt(f, g, n) /\ n <= Len(g)
<1>1. PICK n \in firm .. Len(f) :
        /\ Len(g) = n \/ (Len(g) = n + 1 /\ g[n + 1] = Torn
                             /\ n + 1 \in DOMAIN f /\ f[n + 1] # Newline)
        /\ \A a \in 1 .. n : a \in DOMAIN g /\ a \in DOMAIN f /\ g[a] = f[a]
    BY SurvivorsType
<1>2. g \in Seq(Chunk)
    BY SurvivorsType
<1>3. DOMAIN g = 1 .. Len(g) /\ Len(g) \in Nat /\ n \in Nat /\ Len(f) \in Nat /\ DOMAIN f = 1 .. Len(f)
    BY <1>2
<1>8. n <= Len(f) /\ n <= Len(g) /\ (Len(g) = n \/ (Len(g) = n + 1 /\ n < Len(f)))
    <2>1. n <= Len(f) /\ firm \in Nat
        BY <1>3
    <2>2. Len(g) = n \/ (Len(g) = n + 1 /\ n + 1 \in DOMAIN f)
        BY <1>1
    <2>3. n + 1 \in DOMAIN f => n < Len(f)
        BY <1>3
    <2>4. Len(g) = n + 1 => n <= Len(g)
        BY <1>3
    <2>5. Len(g) = n => n <= Len(g)
        BY <1>3
    <2> QED
        BY <2>1, <2>2, <2>3, <2>4, <2>5
<1>9. Len(g) # n => Len(g) = n + 1 /\ g[n + 1] = Torn /\ (n + 1) % 2 # 0
    BY <1>1 DEF Lined
<1>4. \A a \in DOMAIN g : a \in 1 .. n \/ (a = n + 1 /\ a = Len(g) /\ g[a] = Torn /\ a % 2 # 0)
    <2> SUFFICES ASSUME NEW a \in DOMAIN g, a \notin 1 .. n
                 PROVE  a = n + 1 /\ a = Len(g) /\ g[a] = Torn /\ a % 2 # 0
        OBVIOUS
    <2>1. a \in Nat /\ 1 <= a /\ a <= Len(g)
        BY <1>3
    <2>2. n < a
        BY <1>3, <2>1
    <2>3. a = n + 1 /\ a = Len(g) /\ Len(g) # n
        <3>1. CASE Len(g) = n
            BY <1>3, <2>1, <2>2, <3>1
        <3>2. CASE Len(g) = n + 1
            BY <1>3, <2>1, <2>2, <3>2
        <3> QED
            BY <1>8, <3>1, <3>2
    <2> QED
        BY <1>9, <2>3
<1>5. Lined(g)
    <2> SUFFICES ASSUME NEW a \in DOMAIN g
                 PROVE  /\ g[a] = Newline <=> a % 2 = 0
                        /\ g[a] = Header => a = 1
                        /\ g[a] = Torn => a = Len(g)
        BY DEF Lined
    <2>1. CASE a \in 1 .. n
        <3>1. a \in DOMAIN f /\ g[a] = f[a]
            BY <1>1, <2>1
        <3>2. /\ f[a] = Newline <=> a % 2 = 0
              /\ f[a] = Header => a = 1
              /\ f[a] = Torn => a = Len(f)
            BY <3>1 DEF Lined
        <3>3. a = Len(f) => n = Len(f) /\ Len(g) = n
            <4>1. a <= n /\ a \in Nat
                BY <2>1
            <4>2. n < Len(f) => a # Len(f)
                BY <1>3, <4>1
            <4>3. a = Len(f) => n = Len(f)
                BY <1>8, <4>1
            <4> QED
                BY <1>8, <4>2, <4>3
        <3> QED
            BY <3>1, <3>2, <3>3
    <2>2. CASE a = n + 1 /\ a = Len(g) /\ g[a] = Torn /\ a % 2 # 0
        BY <2>2, ChunksApart
    <2> QED
        BY <1>4, <2>1, <2>2
<1>6. \A a \in Plain(g) : a \in 1 .. n
    BY <1>4, ChunksApart DEF Plain
<1>7. CutAt(f, g, n) /\ n <= Len(g)
    <2>1. n \in 0 .. Len(f)
        BY <1>8
    <2> QED
        BY <1>1, <1>6, <1>8, <2>1 DEF CutAt
<1> QED
    BY <1>2, <1>5, <1>7

\* g is f with a line more, or the beginning of one: with a record more, or with none.
GrownBy(f, g, r) ==
    /\ Len(f) <= Len(g)
    /\ \A a \in 1 .. Len(f) : a \in DOMAIN g /\ g[a] = f[a]
    /\ \/ Plain(g) = Plain(f)
       \/ /\ r # Marker /\ Plain(g) = Plain(f) \cup {Len(f) + 1}
          /\ g[Len(f) + 1] = Body(r)

LEMMA GrownReads ==
    ASSUME NEW f \in Seq(Chunk), NEW g \in Seq(Chunk), Lined(f), Lined(g), NEW r, GrownBy(f, g, r)
    PROVE  /\ Plain(f) \subseteq Plain(g) /\ \A a \in Plain(f) : g[a] = f[a] /\ a < Len(f) + 1
           /\ \/ Plain(g) = Plain(f) /\ Events(g) = Events(f)
              \/ /\ r # Marker /\ Plain(g) = Plain(f) \cup {Len(f) + 1}
                 /\ g[Len(f) + 1] = Body(r)
                 /\ Events(g) = Append(Events(f), r)
           /\ \A offset \in 0 .. Len(f) : offset % 2 = 0 =>
                 EventsTo(g, offset) = EventsTo(f, offset)
<1>1. Len(f) \in Nat /\ \A a \in Plain(f) : a \in 1 .. Len(f)
    BY LinedReads
<1>2. \A a \in Plain(f) : g[a] = f[a] /\ a \in Nat /\ a < Len(f) + 1
    BY <1>1 DEF GrownBy
<1>3. /\ Positions(Plain(f)) /\ Positions(Plain(g))
      /\ Events(f) = Replayed(f, Plain(f)) /\ Events(g) = Replayed(g, Plain(g))
    BY LinedEvents
<1>4. \/ Plain(g) = Plain(f) /\ Events(g) = Events(f)
      \/ /\ r # Marker /\ Plain(g) = Plain(f) \cup {Len(f) + 1}
         /\ g[Len(f) + 1] = Body(r)
         /\ Events(g) = Append(Events(f), r)
    <2>1. CASE Plain(g) = Plain(f)
        BY <1>2, <1>3, <2>1, ReplayedAgrees
    <2>2. CASE r # Marker /\ Plain(g) = Plain(f) \cup {Len(f) + 1} /\ g[Len(f) + 1] = Body(r)
        <3>1. Len(f) + 1 \in Nat /\ \A a \in Plain(f) : a < Len(f) + 1
            BY <1>1, <1>2
        <3>2. Replayed(g, Plain(f) \cup {Len(f) + 1}) = Append(Replayed(f, Plain(f)), g[Len(f) + 1][2])
            <4>1. \A a \in Plain(f) : g[a][2] = f[a][2]
                BY <1>2
            <4> DEFINE T == Plain(f)  m == Len(f) + 1
            <4>2. Positions(T) /\ m \in Nat /\ (\A a \in T : a < m) /\ \A a \in T : g[a][2] = f[a][2]
                BY <1>3, <3>1, <4>1
            <4> HIDE DEF T, m
            <4>3. OneMore(g, f, T, m)
                <5>1. \A a \in T : a < m /\ g[a][2] = f[a][2]
                    BY <4>2
                <5>2. Positions(T) /\ m \in Nat
                    BY <4>2
                <5> QED
                    BY <5>1, <5>2, ReplayedGrows
            <4> QED
                BY <4>3 DEF T, m, OneMore
        <3> QED
            BY <1>3, <2>2, <3>2, ChunksApart
    <2> QED
        BY <2>1, <2>2 DEF GrownBy
<1>5. ASSUME NEW offset \in 0 .. Len(f), offset % 2 = 0
      PROVE  EventsTo(g, offset) = EventsTo(f, offset)
    <2>1. offset \in Nat /\ offset <= Len(f)
        BY <1>1
    <2>2. EventsTo(g, offset) = Replayed(g, Before(g, offset))
          /\ EventsTo(f, offset) = Replayed(f, Before(f, offset))
        BY <1>5, <2>1, LinedEvents
    <2>3. Before(g, offset) = Before(f, offset)
        <3>1. ~(Len(f) + 1 < offset)
            BY <1>1, <2>1
        <3> QED
            BY <1>4, <3>1 DEF Before
    <2>4. Positions(Before(f, offset)) /\ \A a \in Before(f, offset) : g[a] = f[a]
        <3>1. Before(f, offset) \in SUBSET Plain(f)
            BY DEF Before
        <3> QED
            BY <1>2, <1>3, <3>1, FS_Subset DEF Positions
    <2> QED
        BY <2>2, <2>3, <2>4, ReplayedAgrees
<1> QED
    BY <1>2, <1>4, <1>5

LEMMA WriteGrows ==
    ASSUME TypeOK, Lined(file), NEW r \in Records \cup {Marker}, NEW ok \in BOOLEAN,
           Write(Body(r), ok), ~botched'
    PROVE  /\ open /\ Lined(file') /\ GrownBy(file, file', r)
           /\ ok => /\ walBytes' = walBytes + 2 /\ Len(file') = Len(file) + 2
                    /\ Len(file') % 2 = 0
                    /\ r # Marker => Len(file) + 1 \in Plain(file') /\ file'[Len(file) + 1] = Body(r)
<1> DEFINE n == Len(file)
<1>1. file \in Seq(Chunk) /\ file' \in Seq(Chunk) /\ n \in Nat /\ Len(file') \in Nat
    BY WriteType, ChunksApart DEF TypeOK
<1>2. open
    BY DEF Write
<1>3. PICK rest : /\ file' = file \o rest
                  /\ rest # <<>> => ~Unterminated(file)
                  /\ ok => rest = <<Body(r), Newline>> /\ walBytes' = walBytes + 2
                  /\ ~ok => rest \in Fragments(Body(r))
    BY <1>2, Zenon DEF Write
<1>4. rest \in Seq(Chunk)
    <2>1. Body(r) \in Chunk /\ Newline \in Chunk
        BY ChunksApart
    <2>2. <<Body(r), Newline>> \in Seq(Chunk)
        BY <2>1
    <2>3. CASE ok
        BY <1>3, <2>2, <2>3
    <2>4. CASE ~ok
        BY <1>3, <2>1, <2>4, FragmentsType
    <2> QED
        BY <2>3, <2>4
<1>5. ~Unterminated(file) => n % 2 = 0
    <2>1. CASE file = <<>>
        BY <2>1
    <2>2. CASE file # <<>>
        <3>1. n \in DOMAIN file
            BY <1>1, <2>2
        <3> QED
            BY <2>2, <3>1 DEF Lined, Unterminated, Last
    <2> QED
        BY <2>1, <2>2
<1>6. /\ Len(file') = n + Len(rest)
      /\ \A a \in 1 .. n : a \in DOMAIN file' /\ file'[a] = file[a]
      /\ \A k \in 1 .. Len(rest) : n + k \in DOMAIN file' /\ file'[n + k] = rest[k]
      /\ \A a \in DOMAIN file' : a \in 1 .. n \/ \E k \in 1 .. Len(rest) : a = n + k
    <2>1. Len(rest) \in Nat
        BY <1>4
    <2>2. \A a \in 1 .. n + Len(rest) : a \in 1 .. n \/ a - n \in 1 .. Len(rest)
        BY <1>1, <2>1
    <2> QED
        <3>1. file' = file \o rest
            BY <1>3
        <3>2. Len(file') = n + Len(rest) /\ DOMAIN file' = 1 .. n + Len(rest)
            BY <1>1, <1>4, <3>1
        <3>3. \A a \in 1 .. n : a \in DOMAIN file' /\ file'[a] = file[a]
            BY <1>1, <1>4, <2>1, <3>1, <3>2
        <3>4. \A k \in 1 .. Len(rest) : n + k \in DOMAIN file' /\ file'[n + k] = rest[k]
            BY <1>1, <1>4, <2>1, <3>1, <3>2
        <3>5. ASSUME NEW a \in DOMAIN file', a \notin 1 .. n
              PROVE  \E k \in 1 .. Len(rest) : a = n + k
            <4>1. a - n \in 1 .. Len(rest) /\ a \in Nat /\ n \in Nat
                BY <1>1, <2>1, <2>2, <3>2, <3>5
            <4>2. a = n + (a - n)
                BY <4>1
            <4> QED
                BY <4>1, <4>2
        <3> QED
            BY <3>2, <3>3, <3>4, <3>5
<1> HIDE DEF n
<1>7. DOMAIN file = 1 .. n
    BY <1>1 DEF n
<1>8. ASSUME NEW a \in 1 .. n
      PROVE  /\ file'[a] = Newline <=> a % 2 = 0
             /\ file'[a] = Header => a = 1
             /\ file'[a] = Torn => a = n
             /\ a \in Plain(file') <=> a \in Plain(file)
    BY <1>6, <1>7 DEF Lined, Plain, n
<1>9. \A a \in Plain(file) : a \in 1 .. n
    BY <1>7 DEF Plain
<1>10. CASE rest = <<>>
    <2>1. Len(rest) = 0
        BY <1>10
    <2>2. \A a \in DOMAIN file' : a \in 1 .. n
        BY <1>6, <2>1
    <2>3. Len(file') = n
        BY <1>1, <1>6, <2>1
    <2>4. Lined(file')
        BY <1>8, <2>2, <2>3 DEF Lined
    <2>5. Plain(file') = Plain(file)
        <3>1. \A a \in Plain(file') : a \in 1 .. n
            BY <2>2 DEF Plain
        <3> QED
            BY <1>8, <1>9, <3>1
    <2>6. GrownBy(file, file', r)
        BY <1>1, <1>6, <2>3, <2>5 DEF GrownBy, n
    <2>7. ~ok
        <3>1. <<Body(r), Newline>> # <<>>
            OBVIOUS
        <3> QED
            BY <1>3, <1>10, <3>1
    <2> QED
        BY <1>2, <2>4, <2>6, <2>7
<1>11. CASE rest # <<>>
    <2>1. n % 2 = 0 /\ (n + 1) % 2 = 1 /\ (n + 2) % 2 = 0
        BY <1>1, <1>3, <1>5, <1>11
    <2>2. \A a \in 1 .. n : a # n + 1 /\ (file'[a] = Torn => FALSE)
        <3>1. file'[n] = Torn /\ n \in 1 .. n => FALSE
            BY <1>8, <2>1, ChunksApart
        <3>2. \A a \in 1 .. n : a # n + 1
            BY <1>1
        <3> QED
            BY <1>8, <3>1, <3>2
    <2>3. n + 1 # n + 2 /\ n + 1 \notin 1 .. n /\ n + 2 \notin 1 .. n
        BY <1>1
    <2>4. CASE rest = <<Body(r), Newline>>
        <3>1. Len(rest) = 2 /\ rest[1] = Body(r) /\ rest[2] = Newline
            BY <2>4
        <3>2. /\ Len(file') = n + 2 /\ n + 1 \in DOMAIN file' /\ n + 2 \in DOMAIN file'
              /\ file'[n + 1] = Body(r) /\ file'[n + 2] = Newline
              /\ \A a \in DOMAIN file' : a \in 1 .. n \/ a = n + 1 \/ a = n + 2
            BY <1>6, <3>1
        <3>3. Lined(file')
            <4> SUFFICES ASSUME NEW a \in DOMAIN file'
                         PROVE  /\ file'[a] = Newline <=> a % 2 = 0
                                /\ file'[a] = Header => a = 1
                                /\ file'[a] = Torn => a = Len(file')
                BY DEF Lined
            <4>1. CASE a \in 1 .. n
                BY <1>8, <2>2, <4>1
            <4>2. CASE a = n + 1
                BY <2>1, <3>2, <4>2, ChunksApart
            <4>3. CASE a = n + 2
                BY <2>1, <3>2, <4>3, ChunksApart
            <4> QED
                BY <3>2, <4>1, <4>2, <4>3
        <3>4. n + 2 \notin Plain(file')
            BY <3>2, ChunksApart DEF Plain
        <3>5. n + 1 \in Plain(file') <=> r # Marker
            BY <3>2, ChunksApart DEF Plain
        <3>6. \A a \in Plain(file') : a \in 1 .. n \/ a = n + 1
            BY <3>2, <3>4 DEF Plain
        <3>7. Plain(file') = IF r = Marker THEN Plain(file) ELSE Plain(file) \cup {n + 1}
            <4>1. \A a \in 1 .. n : a \in Plain(file') <=> a \in Plain(file)
                BY <1>8
            <4>2. CASE r = Marker
                BY <1>9, <3>5, <3>6, <4>1, <4>2
            <4>3. CASE r # Marker
                BY <1>9, <3>5, <3>6, <4>1, <4>3
            <4> QED
                BY <4>2, <4>3
        <3>8. GrownBy(file, file', r)
            <4>1. n <= Len(file')
                BY <1>1, <3>2
            <4> QED
                BY <1>6, <3>2, <3>7, <4>1 DEF GrownBy, n
        <3> QED
            BY <1>2, <1>3, <2>1, <3>2, <3>3, <3>5, <3>8 DEF n
    <2>5. CASE rest # <<Body(r), Newline>>
        <3>1. ~ok /\ rest \in Fragments(Body(r))
            BY <1>3, <2>5
        <3>2. Len(rest) = 1 /\ rest[1] \in {Torn, Body(r)}
            BY <1>11, <3>1, ChunksApart, FragmentsType
        <3>3. /\ Len(file') = n + 1 /\ n + 1 \in DOMAIN file'
              /\ file'[n + 1] \in {Torn, Body(r)}
              /\ \A a \in DOMAIN file' : a \in 1 .. n \/ a = n + 1
            BY <1>6, <3>2
        <3>4. Lined(file')
            <4> SUFFICES ASSUME NEW a \in DOMAIN file'
                         PROVE  /\ file'[a] = Newline <=> a % 2 = 0
                                /\ file'[a] = Header => a = 1
                                /\ file'[a] = Torn => a = Len(file')
                BY DEF Lined
            <4>1. CASE a \in 1 .. n
                BY <1>8, <2>2, <4>1
            <4>2. CASE a = n + 1
                BY <2>1, <3>3, <4>2, ChunksApart
            <4> QED
                BY <3>3, <4>1, <4>2
        <3>5. \A a \in Plain(file') : a \in 1 .. n \/ a = n + 1
            BY <3>3 DEF Plain
        <3>6. n + 1 \in Plain(file') <=> file'[n + 1] = Body(r) /\ r # Marker
            BY <3>3, ChunksApart DEF Plain
        <3>7. \/ Plain(file') = Plain(file)
              \/ r # Marker /\ Plain(file') = Plain(file) \cup {n + 1} /\ file'[n + 1] = Body(r)
            BY <1>8, <1>9, <2>3, <3>5, <3>6
        <3>8. GrownBy(file, file', r)
            <4>1. n <= Len(file')
                BY <1>1, <3>3
            <4> QED
                BY <1>6, <3>7, <4>1 DEF GrownBy, n
        <3> QED
            BY <1>2, <3>1, <3>4, <3>8
    <2> QED
        BY <2>4, <2>5
<1> QED
    BY <1>10, <1>11

(***************************************************************************)
(* Records in a file and in a sequence.                                    *)
(***************************************************************************)
LEMMA EventsDistinct ==
    ASSUME NEW f \in Seq(Chunk), Lined(f), Once(f), Numbered(f), NEW offset
    PROVE  Proper(EventsTo(f, offset), written, overtaken)
<1> DEFINE S == {a \in Replays(f) : LineEnd(f, a) <= offset}
<1>1. EventsTo(f, offset) = Replayed(f, S) /\ S \in SUBSET Replays(f) /\ S \subseteq Plain(f)
    BY LinedReads DEF EventsTo
<1> HIDE DEF S
<1>2. Positions(S) /\ \A a \in S : f[a] = Body(f[a][2])
    BY <1>1, ReplaysType
<1>3. /\ Cardinality(S) \in Nat /\ DOMAIN Replayed(f, S) = 1 .. Cardinality(S)
      /\ \A k \in 1 .. Cardinality(S) : Replayed(f, S)[k] = f[Nth(S, k)][2]
    BY <1>2, ReplayedIs
<1>4. \A k \in 1 .. Cardinality(S) : Nth(S, k) \in S /\ Rank(S, Nth(S, k)) = k
    BY <1>2, NthType
<1>5. \A a, b \in S : f[a][2] = f[b][2] => a = b
    BY <1>1, <1>2 DEF Once
<1>6. \A a \in S : /\ f[a][2] <= written
                   /\ \A b \in S : a < b => f[a][2] < f[b][2] \/ <<f[b][2], f[a][2]>> \in overtaken
    BY <1>1 DEF Numbered
<1>7. ASSUME NEW i \in 1 .. Cardinality(S), NEW j \in 1 .. Cardinality(S),
             Replayed(f, S)[i] = Replayed(f, S)[j]
      PROVE  i = j
    <2>1. Nth(S, i) = Nth(S, j)
        BY <1>3, <1>4, <1>5, <1>7
    <2> QED
        BY <1>4, <2>1
<1>8. \A i \in 1 .. Cardinality(S) : Replayed(f, S)[i] <= written
    BY <1>3, <1>4, <1>6
<1>9. ASSUME NEW i \in 1 .. Cardinality(S), NEW j \in 1 .. Cardinality(S), i < j
      PROVE  \/ Replayed(f, S)[i] < Replayed(f, S)[j]
             \/ <<Replayed(f, S)[j], Replayed(f, S)[i]>> \in overtaken
    <2> DEFINE a == Nth(S, i)  b == Nth(S, j)
    <2>1. a \in S /\ b \in S /\ Rank(S, a) = i /\ Rank(S, b) = j
        BY <1>4
    <2> HIDE DEF a, b
    <2>2. a \in Nat /\ b \in Nat /\ i \in Nat /\ j \in Nat
        BY <1>2, <1>3, <2>1 DEF Positions
    <2>3. b < a => j < i
        BY <1>2, <2>1, RankGrows
    <2>4. a # b
        BY <1>9, <2>1, <2>2
    <2>5. a < b
        BY <1>9, <2>2, <2>3, <2>4
    <2>6. f[a][2] < f[b][2] \/ <<f[b][2], f[a][2]>> \in overtaken
        BY <1>6, <2>1, <2>5
    <2> QED
        BY <1>3, <2>6 DEF a, b
<1> QED
    BY <1>1, <1>3, <1>7, <1>8, <1>9 DEF Proper, InOrder, Distinct

LEMMA EventsSet ==
    ASSUME NEW f \in Seq(Chunk), Lined(f)
    PROVE  ToSet(Events(f)) = {f[a][2] : a \in Plain(f)}
BY LinedEvents, ReplayedSet

\* What is proper stays so with a higher bound and more that has overtaken.
LEMMA OrderStays ==
    ASSUME NEW s, NEW passed, NEW more, passed \subseteq more, InOrder(s, passed)
    PROVE  InOrder(s, more)
BY DEF InOrder

LEMMA ProperStays ==
    ASSUME NEW s \in Seq(Records), NEW n \in Nat, NEW m \in Nat, n <= m,
           NEW passed, NEW more, passed \subseteq more, Proper(s, n, passed)
    PROVE  Proper(s, m, more)
<1>1. \A i \in DOMAIN s : s[i] \in Nat
    <2>1. Records \subseteq Nat
        BY DEF Records
    <2>2. \A i \in DOMAIN s : s[i] \in Records
        OBVIOUS
    <2> QED
        BY <2>1, <2>2
<1>2. \A i \in DOMAIN s : s[i] <= m
    BY <1>1 DEF Proper
<1> QED
    BY <1>2, OrderStays DEF Proper

\* A record put at the end overtakes none.
LEMMA ProperAppends ==
    ASSUME NEW s \in Seq(Records), NEW n \in Nat, NEW passed, Proper(s, n, passed),
           n + 1 \in Records
    PROVE  Proper(Append(s, n + 1), n + 1, passed)
<1> DEFINE v == Append(s, n + 1)
<1>1. /\ Len(s) \in Nat /\ DOMAIN s = 1 .. Len(s) /\ DOMAIN v = 1 .. Len(s) + 1
      /\ v[Len(s) + 1] = n + 1 /\ \A i \in 1 .. Len(s) : v[i] = s[i]
    OBVIOUS
<1> HIDE DEF v
<1>2. \A i \in 1 .. Len(s) + 1 : i \in 1 .. Len(s) \/ i = Len(s) + 1
    BY <1>1
<1>3. \A i \in 1 .. Len(s) : v[i] \in Nat /\ v[i] <= n
    <2>1. Records \subseteq Nat
        BY DEF Records
    <2>2. \A i \in 1 .. Len(s) : s[i] \in Records /\ s[i] <= n
        BY <1>1 DEF Proper
    <2> QED
        BY <1>1, <2>1, <2>2
<1>4. Distinct(s) /\ InOrder(s, passed)
    BY DEF Proper
<1>5. Distinct(v)
    <2> SUFFICES ASSUME NEW i \in 1 .. Len(s) + 1, NEW j \in 1 .. Len(s) + 1, v[i] = v[j]
                 PROVE  i = j
        BY <1>1 DEF Distinct
    <2>1. CASE i \in 1 .. Len(s) /\ j \in 1 .. Len(s)
        BY <1>1, <1>4, <2>1 DEF Distinct
    <2>2. CASE i = Len(s) + 1 \/ j = Len(s) + 1
        BY <1>1, <1>2, <1>3, <2>2
    <2> QED
        BY <1>2, <2>1, <2>2
<1>6. InOrder(v, passed)
    <2> SUFFICES ASSUME NEW i \in 1 .. Len(s) + 1, NEW j \in 1 .. Len(s) + 1, i < j
                 PROVE  v[i] < v[j] \/ <<v[j], v[i]>> \in passed
        BY <1>1 DEF InOrder
    <2>1. CASE i \in 1 .. Len(s) /\ j \in 1 .. Len(s)
        BY <1>1, <1>4, <2>1 DEF InOrder
    <2>2. CASE j = Len(s) + 1
        <3>1. i \in 1 .. Len(s)
            BY <1>1, <2>2
        <3> QED
            BY <1>1, <1>3, <2>2, <3>1
    <2>3. i = Len(s) + 1 => j \notin 1 .. Len(s) /\ j # Len(s) + 1
        BY <1>1
    <2> QED
        BY <1>2, <2>1, <2>2, <2>3
<1>7. \A i \in DOMAIN v : v[i] <= n + 1
    BY <1>1, <1>2, <1>3
<1>8. Proper(v, n + 1, passed)
    BY <1>5, <1>6, <1>7 DEF Proper
<1> QED
    BY <1>8 DEF v

\* A record put into a sequence ahead of its last part, which it overtakes.
LEMMA ProperGrows ==
    ASSUME NEW s \in Seq(Records), NEW t \in Seq(Records), NEW n \in Nat, NEW passed,
           Proper(s \o t, n, passed), n + 1 \in Records,
           NEW more, more = passed \cup (ToSet(t) \X {n + 1})
    PROVE  /\ Proper(Append(s, n + 1) \o t, n + 1, more)
           /\ Len(Append(s, n + 1) \o t) = Len(s \o t) + 1
           /\ ToSet(Append(s, n + 1) \o t) = ToSet(s \o t) \cup {n + 1}
<1> DEFINE u == s \o t
           v == Append(s, n + 1) \o t
           old(i) == IF i <= Len(s) THEN i ELSE i - 1
<1>1. /\ Len(s) \in Nat /\ Len(t) \in Nat /\ u \in Seq(Records) /\ v \in Seq(Records)
      /\ Len(u) = Len(s) + Len(t) /\ Len(v) = Len(u) + 1
      /\ DOMAIN u = 1 .. Len(u) /\ DOMAIN v = 1 .. Len(v)
    OBVIOUS
<1>2. v[Len(s) + 1] = n + 1
    BY <1>1
<1>3. \A i \in DOMAIN v : i # Len(s) + 1 => old(i) \in DOMAIN u /\ v[i] = u[old(i)]
    <2> SUFFICES ASSUME NEW i \in DOMAIN v, i # Len(s) + 1
                 PROVE  old(i) \in DOMAIN u /\ v[i] = u[old(i)]
        OBVIOUS
    <2>1. CASE i <= Len(s)
        BY <1>1, <2>1
    <2>2. CASE i > Len(s) + 1
        <3>1. v[i] = t[i - (Len(s) + 1)] /\ u[i - 1] = t[(i - 1) - Len(s)]
            BY <1>1, <2>2
        <3>2. i - (Len(s) + 1) = (i - 1) - Len(s)
            BY <1>1
        <3> QED
            BY <1>1, <2>2, <3>1, <3>2
    <2> QED
        BY <1>1, <2>1, <2>2
<1>4. \A i \in DOMAIN v : i > Len(s) + 1 => v[i] \in ToSet(t)
    <2> SUFFICES ASSUME NEW i \in DOMAIN v, i > Len(s) + 1 PROVE v[i] \in ToSet(t)
        OBVIOUS
    <2>1. v[i] = t[i - (Len(s) + 1)] /\ i - (Len(s) + 1) \in DOMAIN t
        BY <1>1
    <2> QED
        BY <2>1 DEF ToSet
<1>5. \A i \in DOMAIN u : \E j \in DOMAIN v : v[j] = u[i]
    <2> SUFFICES ASSUME NEW i \in DOMAIN u PROVE \E j \in DOMAIN v : v[j] = u[i]
        OBVIOUS
    <2>1. CASE i <= Len(s)
        BY <1>1, <2>1
    <2>2. CASE i > Len(s)
        <3>1. i + 1 \in DOMAIN v /\ i + 1 # Len(s) + 1 /\ old(i + 1) = i
            BY <1>1, <2>2
        <3> QED
            BY <1>3, <3>1
    <2> QED
        BY <1>1, <2>1, <2>2
<1>6. \A i \in DOMAIN u : u[i] \in Nat /\ u[i] <= n
    <2>1. \A i \in DOMAIN u : u[i] \in Records
        <3> HIDE DEF u
        <3> QED
            BY <1>1
    <2>2. Records \subseteq Nat
        BY DEF Records
    <2> QED
        BY <2>1, <2>2 DEF Proper
<1>7. \A i, j \in DOMAIN v : i # Len(s) + 1 /\ j # Len(s) + 1 =>
          /\ i < j => old(i) < old(j)
          /\ old(i) = old(j) => i = j
    BY <1>1
<1>8. /\ Distinct(u)
      /\ \A i, j \in DOMAIN u : i < j => u[i] < u[j] \/ <<u[j], u[i]>> \in passed
    BY DEF Proper, InOrder
<1> HIDE DEF u, v, old
<1>9. Distinct(v)
    <2> SUFFICES ASSUME NEW i \in DOMAIN v, NEW j \in DOMAIN v, v[i] = v[j] PROVE i = j
        BY DEF Distinct
    <2>1. CASE i = Len(s) + 1 \/ j = Len(s) + 1
        BY <1>2, <1>3, <1>6, <2>1
    <2>2. CASE i # Len(s) + 1 /\ j # Len(s) + 1
        BY <1>3, <1>7, <1>8, <2>2 DEF Distinct
    <2> QED
        BY <2>1, <2>2
<1>10. \A i \in DOMAIN v : v[i] <= n + 1
    BY <1>2, <1>3, <1>6
<1>11. InOrder(v, more)
    <2> SUFFICES ASSUME NEW i \in DOMAIN v, NEW j \in DOMAIN v, i < j
                 PROVE  v[i] < v[j] \/ <<v[j], v[i]>> \in more
        BY DEF InOrder
    <2>1. CASE i = Len(s) + 1
        <3>1. j > Len(s) + 1
            BY <2>1
        <3> QED
            BY <1>2, <1>4, <2>1, <3>1
    <2>2. CASE j = Len(s) + 1
        <3>1. i # Len(s) + 1
            BY <1>1, <2>2
        <3> QED
            BY <1>2, <1>3, <1>6, <2>2, <3>1
    <2>3. CASE i # Len(s) + 1 /\ j # Len(s) + 1
        <3>1. old(i) \in DOMAIN u /\ old(j) \in DOMAIN u /\ old(i) < old(j)
              /\ v[i] = u[old(i)] /\ v[j] = u[old(j)]
            BY <1>3, <1>7, <2>3
        <3> QED
            BY <1>8, <3>1
    <2> QED
        BY <2>1, <2>2, <2>3
<1>12. ToSet(v) = ToSet(u) \cup {n + 1}
    <2>1. Len(s) + 1 \in DOMAIN v
        BY <1>1
    <2>2. \A i \in DOMAIN v : v[i] \in ToSet(u) \cup {n + 1}
        BY <1>2, <1>3 DEF ToSet
    <2>3. \A i \in DOMAIN u : u[i] \in ToSet(v)
        BY <1>5 DEF ToSet
    <2>4. n + 1 \in ToSet(v)
        BY <1>2, <2>1 DEF ToSet
    <2> QED
        BY <2>2, <2>3, <2>4 DEF ToSet
<1>13. Proper(v, n + 1, more) /\ Len(v) = Len(u) + 1
    BY <1>1, <1>9, <1>10, <1>11 DEF Proper
<1> QED
    BY <1>12, <1>13 DEF u, v

LEMMA AppendSet ==
    ASSUME NEW s \in Seq(Records), NEW x \in Records
    PROVE  ToSet(Append(s, x)) = ToSet(s) \cup {x} /\ Len(Append(s, x)) = Len(s) + 1
<1>1. /\ Len(s) \in Nat /\ DOMAIN s = 1 .. Len(s) /\ DOMAIN Append(s, x) = 1 .. Len(s) + 1
      /\ Append(s, x)[Len(s) + 1] = x /\ \A i \in 1 .. Len(s) : Append(s, x)[i] = s[i]
    OBVIOUS
<1>2. \A i \in 1 .. Len(s) + 1 : i \in 1 .. Len(s) \/ i = Len(s) + 1
    BY <1>1
<1>3. Len(s) + 1 \in 1 .. Len(s) + 1 /\ \A i \in 1 .. Len(s) : i \in 1 .. Len(s) + 1
    BY <1>1
<1>4. ToSet(Append(s, x)) = {Append(s, x)[i] : i \in 1 .. Len(s) + 1}
      /\ ToSet(s) = {s[i] : i \in 1 .. Len(s)}
    BY <1>1 DEF ToSet
<1>5. \A y \in ToSet(Append(s, x)) : y \in ToSet(s) \cup {x}
    BY <1>1, <1>2, <1>4
<1>6. \A y \in ToSet(s) \cup {x} : y \in ToSet(Append(s, x))
    BY <1>1, <1>3, <1>4
<1> QED
    BY <1>5, <1>6

LEMMA SameGrow ==
    ASSUME NEW s \in Seq(Records), NEW t \in Seq(Records), NEW x \in Records, SameRecords(s, t)
    PROVE  SameRecords(Append(s, x), Append(t, x))
<1>1. ToSet(Append(s, x)) = ToSet(s) \cup {x} /\ ToSet(Append(t, x)) = ToSet(t) \cup {x}
    BY AppendSet, Zenon
<1>2. Len(Append(s, x)) = Len(s) + 1 /\ Len(Append(t, x)) = Len(t) + 1
    BY AppendSet
<1> QED
    BY <1>1, <1>2 DEF SameRecords

\* The first part of a sequence of distinct records.
LEMMA ProperPart ==
    ASSUME NEW s \in Seq(Records), NEW t \in Seq(Records), NEW n, NEW passed,
           Proper(s \o t, n, passed)
    PROVE  Proper(s, n, passed) /\ s \o <<>> = s
<1>1. \A i \in DOMAIN s : i \in DOMAIN (s \o t) /\ (s \o t)[i] = s[i]
    OBVIOUS
<1> QED
    BY <1>1 DEF Proper, InOrder, Distinct

LEMMA CatAppend ==
    ASSUME NEW V, NEW s \in Seq(V), NEW t \in Seq(V), NEW x \in V
    PROVE  s \o Append(t, x) = Append(s \o t, x)
OBVIOUS

LEMMA OddsCounted ==
    ASSUME NEW n \in Nat
    PROVE  /\ IsFiniteSet({2 * k + 1 : k \in 1 .. n})
           /\ Cardinality({2 * k + 1 : k \in 1 .. n}) = n
<1> DEFINE O == {2 * k + 1 : k \in 1 .. n}
           b == [k \in 1 .. n |-> 2 * k + 1]
<1>1. b \in Bijection(1 .. n, O)
    <2>1. b \in [1 .. n -> O]
        OBVIOUS
    <2>2. \A i, j \in 1 .. n : b[i] = b[j] => i = j
        OBVIOUS
    <2>3. \A y \in O : \E k \in 1 .. n : b[k] = y
        OBVIOUS
    <2> HIDE DEF b, O
    <2>4. b \in Injection(1 .. n, O)
        BY <2>1, <2>2 DEF Injection, IsInjective
    <2>5. b \in Surjection(1 .. n, O)
        BY <2>1, <2>3 DEF Surjection
    <2> QED
        BY <2>4, <2>5 DEF Bijection
<1>2. IsFiniteSet(1 .. n) /\ Cardinality(1 .. n) = n
    BY FS_Interval
<1> HIDE DEF b, O
<1>3. IsFiniteSet(O) /\ Cardinality(O) = n
    BY <1>1, <1>2, FS_Bijection DEF ExistsBijection
<1> QED
    BY <1>3 DEF O

\* A compacted file replays to what it was made of.
LEMMA SnapshotReads ==
    ASSUME NEW s \in Seq(Records)
    PROVE  /\ SnapshotFile(s) \in Seq(Chunk) /\ Lined(SnapshotFile(s))
           /\ Plain(SnapshotFile(s)) = {2 * k + 1 : k \in 1 .. Len(s)}
           /\ \A k \in 1 .. Len(s) : SnapshotFile(s)[2 * k + 1] = Body(s[k])
           /\ Events(SnapshotFile(s)) = s
<1> DEFINE n == Len(s)
           f == SnapshotFile(s)
           O == {2 * k + 1 : k \in 1 .. n}
<1>1. n \in Nat /\ \A k \in 1 .. n : s[k] \in Records
    OBVIOUS
<1>2. f \in Seq(Chunk) /\ Len(f) = 2 * n + 2
      /\ \A a \in 1 .. 2 * n + 2 :
             f[a] = IF a % 2 = 0 THEN Newline ELSE IF a = 1 THEN Header ELSE Body(s[a \div 2])
    BY SnapshotType
<1> HIDE DEF f, n
<1>3. \A a \in DOMAIN f : a \in 1 .. 2 * n + 2
    BY <1>1, <1>2
<1>4. \A k \in 1 .. n : /\ 2 * k + 1 \in 1 .. 2 * n + 2 /\ 2 * k + 1 # 1
                        /\ (2 * k + 1) % 2 # 0 /\ (2 * k + 1) \div 2 = k
    BY <1>1
<1>5. \A k \in 1 .. n : f[2 * k + 1] = Body(s[k]) /\ 2 * k + 1 \in DOMAIN f
    BY <1>1, <1>2, <1>4
<1>6. ASSUME NEW a \in 1 .. 2 * n + 2, a % 2 # 0, a # 1
      PROVE  \E k \in 1 .. n : a = 2 * k + 1
    <2>1. a \div 2 \in 1 .. n /\ a = 2 * (a \div 2) + 1
        BY <1>1, <1>6
    <2> QED
        BY <2>1
<1>7. Lined(f)
    <2> SUFFICES ASSUME NEW a \in DOMAIN f
                 PROVE  /\ f[a] = Newline <=> a % 2 = 0
                        /\ f[a] = Header => a = 1
                        /\ f[a] = Torn => a = Len(f)
        BY DEF Lined
    <2>1. f[a] = IF a % 2 = 0 THEN Newline ELSE IF a = 1 THEN Header ELSE Body(s[a \div 2])
        BY <1>2, <1>3
    <2> QED
        BY <2>1, ChunksApart
<1>8. Plain(f) = O
    <2>1. ASSUME NEW a \in Plain(f) PROVE a \in O
        <3>1. a \in 1 .. 2 * n + 2 /\ f[a][1] = "record"
            BY <1>3, <2>1 DEF Plain
        <3>2. f[a] # Newline /\ f[a] # Header
            BY <3>1, ChunksApart
        <3>3. a % 2 # 0 /\ a # 1
            BY <1>2, <3>1, <3>2
        <3> QED
            BY <1>6, <3>1, <3>3
    <2>2. ASSUME NEW k \in 1 .. n PROVE 2 * k + 1 \in Plain(f)
        <3>1. f[2 * k + 1] = Body(s[k]) /\ 2 * k + 1 \in DOMAIN f /\ s[k] \in Records
            BY <1>1, <1>5
        <3>2. Body(s[k]) # Body(Marker)
            BY <3>1, ChunksApart
        <3> QED
            BY <3>1, <3>2, ChunksApart DEF Plain
    <2> QED
        BY <2>1, <2>2
<1>9. IsFiniteSet(O) /\ Cardinality(O) = n /\ O \subseteq Nat
    <2>1. IsFiniteSet(O) /\ Cardinality(O) = n
        BY <1>1, OddsCounted
    <2> QED
        BY <1>1, <2>1
<1>10. ASSUME NEW k \in 1 .. n PROVE Nth(O, k) = 2 * k + 1
    <2>1. 2 * k + 1 \in O
        OBVIOUS
    <2>2. UpTo(O, 2 * k + 1) = {2 * j + 1 : j \in 1 .. k}
        BY <1>1 DEF UpTo
    <2>3. Rank(O, 2 * k + 1) = k
        <3>1. k \in Nat
            BY <1>1
        <3>2. Cardinality({2 * j + 1 : j \in 1 .. k}) = k
            BY <3>1, OddsCounted
        <3> HIDE DEF O
        <3> QED
            BY <2>2, <3>2 DEF Rank
    <2> HIDE DEF O
    <2> QED
        BY <1>9, <2>1, <2>3, NthOfRank DEF Positions
<1> HIDE DEF O
<1>11. Events(f) = Replayed(f, O)
    BY <1>2, <1>7, <1>8, LinedEvents
<1>12. Events(f) = [k \in 1 .. n |-> f[Nth(O, k)][2]]
    BY <1>9, <1>11 DEF Replayed
<1>13. \A k \in 1 .. n : f[Nth(O, k)][2] = s[k]
    BY <1>5, <1>10, ChunksApart
<1>14. s = [k \in 1 .. n |-> s[k]]
    BY DEF n
<1>15. Events(f) = s
    BY <1>12, <1>13, <1>14
<1> QED
    BY <1>2, <1>5, <1>7, <1>8, <1>15 DEF f, O, n

(***************************************************************************)
(* The invariant is kept.                                                  *)
(***************************************************************************)
LEMMA InFileFacts ==
    ASSUME TypeOK, Lined(file)
    PROVE  /\ Len(file) \in Nat /\ \A a \in Plain(file) : a \in 1 .. Len(file) /\ a % 2 = 1
           /\ \A r : InFile(file, r, synced) => InFile(file, r, Len(file))
           /\ \A a \in Plain(file) : file[a] = Body(file[a][2]) /\ file[a][2] \in Records
           /\ ToSet(Events(file)) = {file[a][2] : a \in Plain(file)}
           /\ \A r : InFile(file, r, Len(file)) <=> r \in ToSet(Events(file))
<1>1. file \in Seq(Chunk) /\ Len(file) \in Nat
    BY DEF TypeOK
<1>2. \A a \in Plain(file) : a \in 1 .. Len(file) /\ a % 2 = 1
    BY <1>1, LinedReads
<1>3. \A a \in Plain(file) : file[a] = Body(file[a][2]) /\ file[a][2] \in Records
    BY <1>1, LinedEvents
<1>4. \A a \in Plain(file) : a <= Len(file)
    BY <1>1, <1>2
<1>5. ToSet(Events(file)) = {file[a][2] : a \in Plain(file)}
    BY <1>1, EventsSet
<1>6. \A r : InFile(file, r, Len(file)) <=> r \in ToSet(Events(file))
    BY <1>3, <1>4, <1>5, ChunksApart DEF InFile
<1> QED
    BY <1>1, <1>2, <1>3, <1>4, <1>5, <1>6 DEF InFile

\* What a write does to a file in order: everything is where it was, and there may be
\* one record more.
Written(r) ==
    /\ open /\ file' \in Seq(Chunk) /\ Len(file') \in Nat /\ Len(file) \in Nat
    /\ Len(file) <= Len(file')
    /\ Lined(file') /\ Once(file') /\ Numbered(file)'
    /\ \A q : /\ InFile(file, q, synced) => InFile(file', q, synced')  \/ synced' < synced
              /\ InFile(file, q, Len(file)) => InFile(file', q, Len(file'))
    /\ Events(file') = Events(file) \/ (r # Marker /\ Events(file') = Append(Events(file), r))
    /\ \A offset \in 0 .. Len(file) :
           offset % 2 = 0 => EventsTo(file', offset) = EventsTo(file, offset)
WrittenWhole(r) ==
    /\ walBytes' = walBytes + 2 /\ Len(file') = Len(file) + 2 /\ Len(file') % 2 = 0
    /\ r # Marker => InFile(file', r, Len(file')) /\ Events(file') = Append(Events(file), r)

LEMMA WriteKeeps ==
    ASSUME TypeOK, TypeOK', Kept, NEW r \in Records \cup {Marker}, NEW ok \in BOOLEAN,
           Write(Body(r), ok), ~botched', synced' \in {synced, Synced(file')},
           \/ r = Marker /\ written' = written
           \/ r = written + 1 /\ written' = written + 1,
           overtaken \subseteq overtaken'
    PROVE  Written(r) /\ (ok => WrittenWhole(r))
<1> DEFINE n == Len(file)
<1>1. /\ Lined(file) /\ Once(file) /\ Numbered(file) /\ file \in Seq(Chunk) /\ n \in Nat
      /\ written \in Nat /\ synced \in 0 .. n /\ file' \in Seq(Chunk) /\ Len(file') \in Nat
    BY DEF Kept, TypeOK
<1>2. /\ open /\ Lined(file') /\ GrownBy(file, file', r)
      /\ ok => /\ walBytes' = walBytes + 2 /\ Len(file') = n + 2 /\ Len(file') % 2 = 0
               /\ r # Marker => n + 1 \in Plain(file') /\ file'[n + 1] = Body(r)
    BY <1>1, WriteGrows
<1>3. n <= Len(file')
    BY <1>2 DEF GrownBy
<1>4. /\ Plain(file) \subseteq Plain(file')
      /\ \A a \in Plain(file) : file'[a] = file[a] /\ a < n + 1
      /\ \/ Plain(file') = Plain(file) /\ Events(file') = Events(file)
         \/ /\ r # Marker /\ Plain(file') = Plain(file) \cup {n + 1}
            /\ file'[n + 1] = Body(r)
            /\ Events(file') = Append(Events(file), r)
      /\ \A offset \in 0 .. n :
            offset % 2 = 0 => EventsTo(file', offset) = EventsTo(file, offset)
    BY <1>1, <1>2, GrownReads
<1>5. \A a \in Plain(file) : file[a] = Body(file[a][2]) /\ file[a][2] <= written
                                   /\ file[a][2] \in Nat /\ a \in Nat
    <2>1. Records \subseteq Nat
        BY DEF Records
    <2> QED
        <3>1. \A a \in Plain(file) : a \in 1 .. n /\ file[a] = Body(file[a][2])
                                          /\ file[a][2] \in Records
            BY <1>1, InFileFacts
        <3>2. \A a \in Plain(file) : file[a][2] <= written
            BY <1>1 DEF Numbered
        <3> SUFFICES ASSUME NEW a \in Plain(file)
                     PROVE  /\ file[a] = Body(file[a][2]) /\ file[a][2] <= written
                            /\ file[a][2] \in Nat /\ a \in Nat
            OBVIOUS
        <3>3. a \in 1 .. n
            BY <3>1
        <3>4. a \in Nat
            BY <1>1, <3>3
        <3> QED
            BY <2>1, <3>1, <3>2, <3>4
<1>6. Once(file') /\ Numbered(file)'
    <2>1. CASE Plain(file') = Plain(file)
        <3>1. Once(file')
            BY <1>1, <1>4, <2>1 DEF Once
        <3>2. \A a \in Plain(file') : file'[a][2] <= written'
            BY <1>1, <1>4, <1>5, <2>1
        <3>3. \A a, b \in Plain(file') :
                 a < b => file'[a][2] < file'[b][2] \/ <<file'[b][2], file'[a][2]>> \in overtaken'
            BY <1>1, <1>4, <2>1 DEF Numbered
        <3> QED
            BY <3>1, <3>2, <3>3 DEF Numbered
    <2>2. CASE r # Marker /\ Plain(file') = Plain(file) \cup {n + 1} /\ file'[n + 1] = Body(r)
        <3>1. r = written + 1 /\ written' = written + 1
            BY <2>2
        <3>2. \A a \in Plain(file) : file'[a] # Body(r)
            BY <1>1, <1>4, <1>5, <3>1, ChunksApart
        <3>3. Once(file')
            BY <1>1, <1>4, <2>2, <3>2 DEF Once
        <3>4. \A a \in Plain(file) : file'[a][2] <= written + 1
            BY <1>1, <1>4, <1>5
        <3>5. \A a \in Plain(file') : file'[a][2] <= written'
            BY <1>1, <2>2, <3>1, <3>4, ChunksApart
        <3>6. \A a, b \in Plain(file) :
                 a < b => file'[a][2] < file'[b][2] \/ <<file'[b][2], file'[a][2]>> \in overtaken'
            BY <1>1, <1>4 DEF Numbered
        <3>7. \A a \in Plain(file) : file'[a][2] < file'[n + 1][2] /\ ~(n + 1 < a)
            <4>1. file'[n + 1][2] = written + 1
                BY <2>2, <3>1 DEF Body
            <4>2. \A a \in Plain(file) : file'[a][2] = file[a][2]
                BY <1>4
            <4> QED
                BY <1>1, <1>4, <1>5, <4>1, <4>2
        <3>8. ~(n + 1 < n + 1)
            BY <1>1
        <3>9. \A a, b \in Plain(file') :
                 a < b => file'[a][2] < file'[b][2] \/ <<file'[b][2], file'[a][2]>> \in overtaken'
            BY <2>2, <3>6, <3>7, <3>8
        <3> QED
            BY <3>3, <3>5, <3>9 DEF Numbered
    <2> QED
        BY <1>4, <2>1, <2>2
<1>7. ASSUME NEW q
      PROVE  /\ InFile(file, q, synced) => InFile(file', q, synced')  \/ synced' < synced
             /\ InFile(file, q, Len(file)) => InFile(file', q, Len(file'))
    <2>1. \A a \in Plain(file) : a <= n => a <= Len(file')
        BY <1>1, <1>3, <1>5
    <2>2. synced' < synced \/ synced <= synced'
        BY <1>1 DEF TypeOK
    <2>3. \A a \in Plain(file) : a <= synced /\ synced <= synced' => a <= synced'
        BY <1>1, <1>5 DEF TypeOK
    <2> QED
        BY <1>4, <2>1, <2>2, <2>3 DEF InFile
<1>8. ASSUME ok PROVE WrittenWhole(r)
    <2>1. /\ walBytes' = walBytes + 2 /\ Len(file') = n + 2 /\ Len(file') % 2 = 0
          /\ r # Marker => n + 1 \in Plain(file') /\ file'[n + 1] = Body(r)
        BY <1>2, <1>8
    <2>2. n + 1 \notin Plain(file) /\ n + 1 <= Len(file')
        <3>1. ~(n + 1 < n + 1)
            BY <1>1
        <3> QED
            BY <1>1, <1>4, <2>1, <3>1
    <2>3. r # Marker => Events(file') = Append(Events(file), r)
        BY <1>4, <2>1, <2>2
    <2>4. r # Marker => InFile(file', r, Len(file'))
        BY <2>1, <2>2 DEF InFile
    <2> QED
        BY <2>1, <2>3, <2>4 DEF WrittenWhole
<1>9. Events(file') = Events(file) \/ (r # Marker /\ Events(file') = Append(Events(file), r))
    BY <1>4
<1> QED
    BY <1>1, <1>2, <1>3, <1>4, <1>6, <1>7, <1>8, <1>9 DEF Written

\* The log a reader finds is as it was, or has a record more.
Logged == Events(file') = Events(file) \/ \E r : Events(file') = Append(Events(file), r)

LEMMA StageKeeps ==
    ASSUME TypeOK, TypeOK', Kept, Stage, ~botched'
    PROVE  Kept' /\ Logged
<1> DEFINE r == written + 1
<1>1. /\ written' = r /\ r \in Records /\ r # Marker /\ serving = "up"
      /\ UNCHANGED <<synced, open, ram, serving, cut, snapshotSeen, promised, restored, overtaken>>
    BY WalBounds, ChunksApart DEF Stage, TypeOK, Records
<1>2. PICK ok \in BOOLEAN :
        /\ Write(Body(r), ok)
        /\ ok => staged' = Append(staged, r) /\ degraded' = degraded
        /\ ~ok => staged' = staged /\ degraded' = TRUE
    BY <1>1 DEF Stage
<1>3. Written(r) /\ (ok => WrittenWhole(r))
    BY <1>1, <1>2, WriteKeeps
<1>4. /\ synced \in 0 .. Len(file) /\ Len(file) \in Nat /\ ram \in Seq(Records) /\ staged \in Seq(Records)
      /\ ram \o staged \in Seq(Records) /\ written \in Nat
      /\ cut \in [offset : Nat, ram : Seq(Records), valid : BOOLEAN]
    BY DEF TypeOK
<1>5. PromisedIsSynced'
    <2>1. ~(synced' < synced)
        BY <1>1, <1>4
    <2>2. \A q \in promised : InFile(file, q, synced)
        BY DEF Kept, PromisedIsSynced
    <2>3. \A q : InFile(file, q, synced) => InFile(file', q, synced')
        BY <1>3, <2>1 DEF Written
    <2> QED
        BY <1>1, <2>2, <2>3 DEF PromisedIsSynced
<1>6. CutIsSynced'
    <2>1. cut.valid => cut.offset \in 0 .. Len(file)
        BY <1>4 DEF Kept, CutIsSynced
    <2> QED
        BY <1>1, <1>3, <2>1 DEF CutIsSynced, Written, Kept
<1>7. StagedIsWritten'
    <2>1. \A i \in DOMAIN staged : InFile(file', staged[i], Len(file'))
        <3>1. \A i \in DOMAIN staged : InFile(file, staged[i], Len(file))
            BY DEF Kept, StagedIsWritten
        <3>2. \A q : InFile(file, q, Len(file)) => InFile(file', q, Len(file'))
            BY <1>3 DEF Written
        <3> QED
            BY <3>1, <3>2
    <2>2. CASE ok
        <3>1. staged' = Append(staged, r) /\ InFile(file', r, Len(file'))
            BY <1>1, <1>2, <1>3, <2>2 DEF WrittenWhole
        <3>2. \A i \in DOMAIN Append(staged, r) :
                 Append(staged, r)[i] = r
                     \/ (i \in DOMAIN staged /\ Append(staged, r)[i] = staged[i])
            BY <1>4
        <3>3. \A i \in DOMAIN staged' : InFile(file', staged'[i], Len(file'))
            BY <2>1, <3>1, <3>2 DEF InFile
        <3> QED
            BY <1>1, <1>3, <3>3 DEF StagedIsWritten, Written
    <2>3. CASE ~ok
        BY <1>1, <1>2, <1>3, <2>1, <2>3 DEF StagedIsWritten, Written
    <2> QED
        BY <2>2, <2>3
<1>8. RamOnce'
    <2>1. Proper(ram \o staged, written, overtaken)
        BY DEF Kept, RamOnce
    <2>2. CASE ok
        <3>1. ram' \o staged' = Append(ram \o staged, r)
            <4> HIDE DEF r
            <4>1. ram \o Append(staged, r) = Append(ram \o staged, r)
                BY <1>1, <1>4, CatAppend
            <4> QED
                BY <1>1, <1>2, <2>2, <4>1
        <3> QED
            BY <1>1, <1>4, <2>1, <3>1, ProperAppends DEF RamOnce
    <2>3. CASE ~ok
        <3>1. ram' \o staged' = ram \o staged
            BY <1>1, <1>2, <2>3
        <3>2. written <= written' /\ written' \in Nat
            BY <1>1, <1>4
        <3> QED
            BY <1>1, <1>4, <2>1, <3>1, <3>2, ProperStays DEF RamOnce
    <2> QED
        BY <2>2, <2>3
<1>9. RamIsFile'
    <2>1. SUFFICES ASSUME ~degraded'
                   PROVE  /\ open' /\ walBytes' = Len(file')
                          /\ ~restored' \/ ~cut'.valid =>
                                /\ SameRecords(Events(file'), ram' \o staged')
                                /\ overtaken' = {} => Events(file') = ram' \o staged'
        BY DEF RamIsFile, Events, SameRecords
    <2>2. ok /\ ~degraded /\ staged' = Append(staged, r)
        BY <1>2, <2>1 DEF Stage
    <2>3. /\ open /\ walBytes = Len(file)
          /\ ~restored \/ ~cut.valid =>
                /\ SameRecords(Events(file), ram \o staged)
                /\ overtaken = {} => Events(file) = ram \o staged
        BY <1>1, <2>2 DEF Kept, RamIsFile
    <2>4. walBytes' = Len(file') /\ Events(file') = Append(Events(file), r)
        BY <1>1, <1>3, <2>2, <2>3 DEF WrittenWhole
    <2>5. ram' \o staged' = Append(ram \o staged, r)
        BY <1>1, <1>4, <2>2
    <2>6. SameRecords(Events(file), ram \o staged) =>
              SameRecords(Append(Events(file), r), Append(ram \o staged, r))
        <3>1. Events(file) \in Seq(Records)
            BY EventsType DEF TypeOK, Events
        <3> QED
            BY <1>1, <1>4, <3>1, SameGrow
    <2> QED
        BY <1>1, <2>3, <2>4, <2>5, <2>6
<1>14. Logged
    BY <1>3 DEF Written, Logged
<1> QED
    BY <1>3, <1>14, <1>5, <1>6, <1>7, <1>8, <1>9 DEF Kept, Written

\* What is applied stays proper when a record is logged and, perhaps, applied ahead of
\* what is staged.
LEMMA RamGrows ==
    ASSUME TypeOK, RamOnce, staged' = staged, written' = written + 1, written + 1 \in Records,
           \/ ram' = ram /\ overtaken' = overtaken
           \/ /\ ram' = Append(ram, written + 1)
              /\ overtaken' = overtaken \cup (ToSet(staged) \X {written + 1})
    PROVE  /\ RamOnce'
           /\ ram' = Append(ram, written + 1) =>
                 /\ Len(ram' \o staged') = Len(ram \o staged) + 1
                 /\ ToSet(ram' \o staged') = ToSet(ram \o staged) \cup {written + 1}
<1>1. /\ ram \in Seq(Records) /\ staged \in Seq(Records) /\ ram \o staged \in Seq(Records)
      /\ written \in Nat /\ written + 1 \in Nat /\ written <= written + 1
    BY DEF TypeOK
<1>2. Proper(ram \o staged, written, overtaken)
    BY DEF RamOnce
<1>3. CASE ram' = ram /\ overtaken' = overtaken
    <2>1. Proper(ram \o staged, written + 1, overtaken)
        BY <1>1, <1>2, ProperStays
    <2>2. ram # Append(ram, written + 1)
        <3>1. Len(ram) \in Nat /\ Len(Append(ram, written + 1)) = Len(ram) + 1
            BY <1>1
        <3> QED
            BY <3>1
    <2> QED
        BY <1>3, <2>1, <2>2 DEF RamOnce
<1>4. CASE /\ ram' = Append(ram, written + 1)
           /\ overtaken' = overtaken \cup (ToSet(staged) \X {written + 1})
    <2> DEFINE u == Append(ram, written + 1) \o staged
               more == overtaken \cup (ToSet(staged) \X {written + 1})
    <2>1. /\ Proper(u, written + 1, more) /\ Len(u) = Len(ram \o staged) + 1
          /\ ToSet(u) = ToSet(ram \o staged) \cup {written + 1}
        BY <1>1, <1>2, ProperGrows
    <2>2. ram' \o staged' = u /\ overtaken' = more /\ written' = written + 1
        BY <1>4
    <2> HIDE DEF u, more
    <2> QED
        BY <2>1, <2>2 DEF RamOnce
<1> QED
    BY <1>3, <1>4

LEMMA DurableKeeps ==
    ASSUME TypeOK, TypeOK', Kept, Durable, ~botched'
    PROVE  Kept' /\ Logged
<1> DEFINE r == written + 1
<1>1. /\ written' = r /\ r \in Records /\ r # Marker /\ serving = "up"
      /\ UNCHANGED <<open, staged, serving, cut, snapshotSeen, restored>>
    BY WalBounds, ChunksApart DEF Durable, TypeOK, Records
<1>2. PICK ok \in BOOLEAN :
        /\ Write(Body(r), ok)
        /\ \/ /\ ok /\ synced' = Synced(file') /\ degraded' = degraded
              /\ ram' = Append(ram, r) /\ promised' = promised \cup {r}
           \/ degraded' = TRUE /\ synced' = synced /\ promised' = promised
        /\ \/ ram' = ram /\ overtaken' = overtaken
           \/ /\ ram' = Append(ram, r) /\ overtaken' = overtaken \cup (ToSet(staged) \X {r})
    <2>1. Append(ram, r) # ram
        <3>1. Len(ram) \in Nat /\ Len(Append(ram, r)) = Len(ram) + 1
            BY DEF TypeOK
        <3> QED
            BY <3>1
    <2> QED
        BY <1>1, <2>1 DEF Durable
<1>13. overtaken \subseteq overtaken'
    BY <1>2
<1>3. Written(r) /\ (ok => WrittenWhole(r))
    BY <1>1, <1>2, <1>13, WriteKeeps
<1>4. /\ synced \in 0 .. Len(file) /\ Len(file) \in Nat /\ Len(file') \in Nat
      /\ cut \in [offset : Nat, ram : Seq(Records), valid : BOOLEAN]
    BY <1>3 DEF TypeOK, Written
<1>5. synced' = Len(file') \/ synced' = synced
    BY <1>2, <1>3 DEF Synced, Written
<1>6. synced <= synced' /\ ~(synced' < synced)
    BY <1>3, <1>4, <1>5 DEF Written
<1>7. \A q : InFile(file, q, synced) => InFile(file', q, synced')
    BY <1>3, <1>6 DEF Written
<1>8. PromisedIsSynced'
    <2>1. \A q \in promised : InFile(file', q, synced')
        BY <1>7 DEF Kept, PromisedIsSynced
    <2>2. CASE promised' = promised
        BY <2>1, <2>2 DEF PromisedIsSynced
    <2>3. CASE ok /\ synced' = Synced(file') /\ promised' = promised \cup {r}
        <3>1. InFile(file', r, synced')
            BY <1>1, <1>3, <2>3 DEF Written, WrittenWhole, Synced
        <3> QED
            BY <2>1, <2>3, <3>1 DEF PromisedIsSynced
    <2> QED
        BY <1>2, <2>2, <2>3
<1>9. CutIsSynced'
    <2>1. ASSUME cut.valid PROVE cut.offset \in 0 .. Len(file) /\ cut.offset <= synced'
        <3>1. cut.offset \in Nat /\ cut.offset <= synced
            BY <1>4, <2>1 DEF Kept, CutIsSynced
        <3>2. synced \in Nat /\ synced' \in Nat /\ synced <= Len(file)
            BY <1>4, <1>5
        <3> QED
            BY <1>4, <1>6, <3>1, <3>2
    <2>2. ASSUME cut.valid
          PROVE  /\ EventsTo(file', cut.offset) = EventsTo(file, cut.offset)
                 /\ InOrder(cut.ram, overtaken')
        BY <1>3, <1>13, <2>1, <2>2, OrderStays DEF CutIsSynced, Written, Kept
    <2> QED
        BY <1>1, <2>1, <2>2 DEF CutIsSynced, SameRecords, Kept
<1>10. StagedIsWritten'
    <2>1. \A i \in DOMAIN staged : InFile(file, staged[i], Len(file))
        BY DEF Kept, StagedIsWritten
    <2>2. \A i \in DOMAIN staged' : InFile(file', staged'[i], Len(file'))
        BY <1>1, <1>3, <2>1 DEF Written
    <2> QED
        BY <1>1, <1>3, <2>2 DEF StagedIsWritten, Written
<1>11. /\ RamOnce'
       /\ ram' = Append(ram, r) =>
             /\ Len(ram' \o staged') = Len(ram \o staged) + 1
             /\ ToSet(ram' \o staged') = ToSet(ram \o staged) \cup {r}
    BY <1>1, <1>2, RamGrows DEF Kept
<1>12. RamIsFile'
    <2>1. SUFFICES ASSUME ~degraded'
                   PROVE  /\ open' /\ walBytes' = Len(file')
                          /\ ~restored' \/ ~cut'.valid =>
                                /\ SameRecords(Events(file'), ram' \o staged')
                                /\ overtaken' = {} => Events(file') = ram' \o staged'
        BY DEF RamIsFile, Events, SameRecords
    <2>2. ok /\ ~degraded /\ ram' = Append(ram, r) /\ overtaken' = overtaken \cup (ToSet(staged) \X {r})
        <3>1. Append(ram, r) # ram
            <4>1. Len(ram) \in Nat /\ Len(Append(ram, r)) = Len(ram) + 1
                BY DEF TypeOK
            <4> QED
                BY <4>1
        <3> QED
            BY <1>2, <2>1, <3>1
    <2>3. /\ open /\ walBytes = Len(file)
          /\ ~restored \/ ~cut.valid =>
                /\ SameRecords(Events(file), ram \o staged)
                /\ overtaken = {} => Events(file) = ram \o staged
        BY <1>1, <2>2 DEF Kept, RamIsFile
    <2>4. walBytes' = Len(file') /\ Events(file') = Append(Events(file), r)
        BY <1>1, <1>3, <2>2, <2>3 DEF WrittenWhole
    <2>5. SameRecords(Events(file), ram \o staged) => SameRecords(Events(file'), ram' \o staged')
        <3>1. Events(file) \in Seq(Records)
            BY EventsType DEF TypeOK, Events
        <3> QED
            BY <1>1, <1>11, <2>2, <2>4, <3>1, AppendSet DEF SameRecords
    <2>6. ASSUME overtaken' = {}
          PROVE  overtaken = {} /\ ram' \o staged' = Append(ram, r) /\ ram \o staged = ram
        <3>1. staged \in Seq(Records) /\ ram \in Seq(Records)
            BY DEF TypeOK
        <3>2. ToSet(staged) = {}
            <4>1. \A q \in ToSet(staged) : <<q, r>> \in overtaken'
                BY <2>2
            <4> QED
                BY <2>6, <4>1
        <3>3. staged = <<>>
            <4>1. staged # <<>> => staged[1] \in ToSet(staged)
                BY <3>1 DEF ToSet
            <4> QED
                BY <3>2, <4>1
        <3>4. ram \o <<>> = ram /\ Append(ram, r) \o <<>> = Append(ram, r)
            BY <1>1, <3>1
        <3> QED
            BY <1>1, <2>2, <2>6, <3>3, <3>4
    <2> QED
        BY <1>1, <2>2, <2>3, <2>4, <2>5, <2>6
<1>14. Logged
    BY <1>3 DEF Written, Logged
<1> QED
    BY <1>3, <1>14, <1>8, <1>9, <1>10, <1>11, <1>12 DEF Kept, Written

LEMMA MarkerKeeps ==
    ASSUME TypeOK, TypeOK', Kept, SnapshotMarker, ~botched'
    PROVE  Kept' /\ Logged
<1>1. /\ serving = "up" /\ staged = <<>> /\ ~degraded /\ ~cut.valid
      /\ UNCHANGED <<open, staged, ram, serving, written, promised, restored, overtaken>>
    BY DEF SnapshotMarker
<1>2. PICK ok \in BOOLEAN :
        /\ Write(Body(Marker), ok)
        /\ \/ /\ ok /\ synced' = Synced(file') /\ degraded' = degraded
              /\ cut' = [offset |-> walBytes', ram |-> ram, valid |-> TRUE]
           \/ degraded' = TRUE /\ synced' = synced /\ cut' = cut
    BY DEF SnapshotMarker
<1>3. Written(Marker) /\ (ok => WrittenWhole(Marker))
    BY <1>1, <1>2, WriteKeeps
<1>4. synced \in 0 .. Len(file) /\ Len(file) \in Nat /\ Len(file') \in Nat
    BY <1>3 DEF TypeOK, Written
<1>5. synced' = Len(file') \/ synced' = synced
    BY <1>2, <1>3 DEF Synced, Written
<1>6. synced <= synced' /\ ~(synced' < synced)
    BY <1>3, <1>4, <1>5 DEF Written
<1>7. \A q : InFile(file, q, synced) => InFile(file', q, synced')
    BY <1>3, <1>6 DEF Written
<1>8. PromisedIsSynced'
    BY <1>1, <1>7 DEF Kept, PromisedIsSynced
<1>9. /\ open /\ walBytes = Len(file) /\ SameRecords(Events(file), ram)
      /\ overtaken = {} => Events(file) = ram
      /\ Events(file') = Events(file) /\ ram \o staged = ram /\ InOrder(ram, overtaken)
    <2>1. ram \in Seq(Records)
        BY DEF TypeOK
    <2>2. ram \o <<>> = ram
        BY <2>1
    <2> QED
        BY <1>1, <1>3, <2>2 DEF Kept, RamIsFile, RamOnce, Proper, Written
<1>10. CutIsSynced'
    <2>1. CASE cut' = cut
        BY <1>1, <2>1 DEF CutIsSynced
    <2>2. CASE ok /\ synced' = Synced(file') /\ cut' = [offset |-> walBytes', ram |-> ram, valid |-> TRUE]
        <3>1. walBytes' = Len(file') /\ Len(file') % 2 = 0 /\ synced' = Len(file')
            BY <1>3, <1>9, <2>2 DEF WrittenWhole, Written, Synced
        <3>2. SameRecords(EventsTo(file', Len(file')), ram)
            BY <1>9 DEF Events
        <3> QED
            BY <1>1, <1>4, <1>9, <2>2, <3>1, <3>2 DEF CutIsSynced, SameRecords
    <2> QED
        BY <1>2, <2>1, <2>2
<1>11. StagedIsWritten'
    BY <1>1 DEF StagedIsWritten
<1>12. RamOnce'
    BY <1>1 DEF Kept, RamOnce
<1>13. RamIsFile'
    <2>1. SUFFICES ASSUME ~degraded'
                   PROVE  /\ open' /\ walBytes' = Len(file')
                          /\ SameRecords(Events(file'), ram' \o staged')
                          /\ overtaken' = {} => Events(file') = ram' \o staged'
        BY DEF RamIsFile, Events, SameRecords
    <2>2. ok
        BY <1>2, <2>1
    <2> QED
        BY <1>1, <1>3, <1>9, <2>2 DEF WrittenWhole
<1>14. Logged
    BY <1>3 DEF Written, Logged
<1> QED
    BY <1>3, <1>14, <1>8, <1>10, <1>11, <1>12, <1>13 DEF Kept, Written

LEMMA BarrierKeeps ==
    ASSUME TypeOK, TypeOK', Kept, Barrier, ~botched'
    PROVE  Kept'
<1>1. /\ serving = "up" /\ staged # <<>> /\ staged' = <<>>
      /\ UNCHANGED <<file, walBytes, open, serving, cut, written, restored, overtaken>>
      /\ \/ /\ synced' = Synced(file) /\ degraded' = degraded
            /\ ram' = ram \o staged /\ promised' = promised \cup ToSet(staged)
         \/ degraded' = TRUE /\ synced' = synced /\ ram' = ram /\ promised' = promised
    BY DEF Barrier
<1>2. /\ synced \in 0 .. Len(file) /\ Len(file) \in Nat /\ Lined(file)
      /\ ram \in Seq(Records) /\ staged \in Seq(Records) /\ ram \o staged \in Seq(Records)
    BY DEF TypeOK, Kept
<1>3. open /\ \A i \in DOMAIN staged : InFile(file, staged[i], Len(file))
    BY <1>1 DEF Kept, StagedIsWritten
<1>4. synced' = Len(file) \/ synced' = synced
    BY <1>1, <1>3 DEF Synced
<1>5. \A q : InFile(file, q, synced) => InFile(file, q, synced')
    BY <1>2, <1>4, InFileFacts
<1>6. PromisedIsSynced'
    <2>1. \A q \in promised : InFile(file, q, synced')
        BY <1>5 DEF Kept, PromisedIsSynced
    <2>2. CASE promised' = promised
        BY <1>1, <2>1, <2>2 DEF PromisedIsSynced
    <2>3. CASE synced' = Synced(file) /\ promised' = promised \cup ToSet(staged)
        <3>1. \A q \in ToSet(staged) : InFile(file, q, synced')
            BY <1>3, <2>3 DEF ToSet, Synced
        <3> QED
            BY <1>1, <2>1, <2>3, <3>1 DEF PromisedIsSynced
    <2> QED
        BY <1>1, <2>2, <2>3
<1>7. CutIsSynced'
    <2>1. ASSUME cut.valid PROVE cut.offset <= synced'
        <3>1. cut \in [offset : Nat, ram : Seq(Records), valid : BOOLEAN]
            BY DEF TypeOK
        <3>2. cut.offset \in Nat /\ cut.offset <= synced
            BY <2>1, <3>1 DEF Kept, CutIsSynced
        <3> QED
            BY <1>2, <1>4, <3>2
    <2> QED
        BY <1>1, <2>1 DEF CutIsSynced, SameRecords, Kept
<1>8. StagedIsWritten'
    BY <1>1 DEF StagedIsWritten
<1>9. (ram \o staged) \o <<>> = ram \o staged
    BY <1>2
<1>10. RamOnce'
    <2>1. Proper(ram \o staged, written, overtaken)
        BY DEF Kept, RamOnce
    <2>2. CASE ram' = ram \o staged
        <3>1. ram' \o staged' = ram \o staged
            BY <1>1, <1>9, <2>2
        <3> QED
            BY <1>1, <2>1, <3>1 DEF RamOnce
    <2>3. CASE ram' = ram
        <3>1. Proper(ram, written, overtaken) /\ ram \o <<>> = ram
            BY <1>2, <2>1, ProperPart
        <3>2. ram' \o staged' = ram
            BY <1>1, <2>3, <3>1
        <3> QED
            BY <1>1, <3>1, <3>2 DEF RamOnce
    <2> QED
        BY <1>1, <2>2, <2>3
<1>11. RamIsFile'
    <2>1. SUFFICES ASSUME ~degraded'
                   PROVE  /\ open' /\ walBytes' = Len(file')
                          /\ ~restored' \/ ~cut'.valid =>
                                /\ SameRecords(Events(file'), ram' \o staged')
                                /\ overtaken' = {} => Events(file') = ram' \o staged'
        BY DEF RamIsFile, Events, SameRecords
    <2>2. ~degraded /\ ram' = ram \o staged
        BY <1>1, <2>1
    <2>3. ram' \o staged' = ram \o staged
        BY <1>1, <1>9, <2>2
    <2> QED
        BY <1>1, <2>2, <2>3 DEF Kept, RamIsFile, Events
<1> QED
    BY <1>1, <1>6, <1>7, <1>8, <1>10, <1>11 DEF Kept, Numbered

LEMMA CompactKeeps ==
    ASSUME TypeOK, TypeOK', Kept, Compact, ~botched'
    PROVE  Kept' /\ (restored \/ overtaken # {} \/ (Logged /\ promised' = promised))
<1>1. /\ serving = "up" /\ ~degraded /\ staged = <<>>
      /\ UNCHANGED <<staged, ram, serving, written, restored, overtaken>>
    BY CompactIs
<1>2. ram \in Seq(Records) /\ ram \o <<>> = ram
    BY DEF TypeOK
<1>3. /\ open /\ walBytes = Len(file)
      /\ ~restored =>
            /\ SameRecords(Events(file), ram)
            /\ overtaken = {} => Events(file) = ram
    BY <1>1, <1>2 DEF Kept, RamIsFile
<1>4. StagedIsWritten' /\ RamOnce'
    BY <1>1 DEF StagedIsWritten, RamOnce, Kept
<1>5. CASE file' = file /\ synced' = synced /\ walBytes' = walBytes /\ degraded'
           /\ UNCHANGED <<cut, promised>>
    <2>1. PromisedIsSynced'
        BY <1>5 DEF Kept, PromisedIsSynced
    <2>2. CutIsSynced'
        BY <1>1, <1>5 DEF Kept, CutIsSynced, SameRecords
    <2>3. RamIsFile'
        BY <1>5 DEF RamIsFile
    <2>4. Kept'
        BY <1>1, <1>4, <1>5, <2>1, <2>2, <2>3 DEF Kept, Numbered
    <2> QED
        BY <1>5, <2>4 DEF Logged
<1>6. CASE /\ file' = SnapshotFile(ram) /\ synced' = Len(file')
           /\ (degraded' /\ walBytes' = walBytes)
                \/ (walBytes' = Len(file') /\ UNCHANGED <<degraded, open>>)
           /\ cut' = NoCut
           /\ promised' = IF restored THEN promised \cap ToSet(ram) ELSE promised
    <2>1. /\ Lined(file') /\ Plain(file') = {2 * k + 1 : k \in 1 .. Len(ram)}
          /\ \A k \in 1 .. Len(ram) : file'[2 * k + 1] = Body(ram[k])
          /\ Events(file') = ram
        BY <1>2, <1>6, SnapshotReads
    <2>2. /\ Distinct(ram) /\ \A k \in 1 .. Len(ram) : ram[k] <= written
          /\ \A j, k \in 1 .. Len(ram) : j < k => ram[j] < ram[k] \/ <<ram[k], ram[j]>> \in overtaken
        <3>1. ram \o staged = ram
            BY <1>1, <1>2
        <3>2. \A k \in 1 .. Len(ram) : k \in DOMAIN ram
            BY <1>2
        <3> QED
            BY <3>1, <3>2 DEF Kept, RamOnce, Proper, InOrder
    <2>3. Once(file')
        <3>1. \A j, k \in 1 .. Len(ram) : ram[j] = ram[k] => j = k
            <4>1. \A k \in 1 .. Len(ram) : k \in DOMAIN ram
                BY <1>2
            <4> QED
                BY <2>2, <4>1 DEF Distinct
        <3>3. \A j, k \in 1 .. Len(ram) : Body(ram[j]) = Body(ram[k]) => j = k
            BY <3>1 DEF Body
        <3>2. \A j, k \in 1 .. Len(ram) : file'[2 * j + 1] = file'[2 * k + 1] => j = k
            BY <2>1, <3>3
        <3> QED
            BY <2>1, <3>2 DEF Once
    <2>4. Numbered(file)'
        <3>1. \A k \in 1 .. Len(ram) : file'[2 * k + 1][2] = ram[k]
            BY <2>1 DEF Body
        <3>2. Len(ram) \in Nat
            BY <1>2
        <3>3. \A j, k \in 1 .. Len(ram) : 2 * j + 1 < 2 * k + 1 => j < k
            BY <3>2
        <3>4. \A k \in 1 .. Len(ram) : file'[2 * k + 1][2] <= written'
            BY <1>1, <2>2, <3>1
        <3>5. \A j, k \in 1 .. Len(ram) : 2 * j + 1 < 2 * k + 1 =>
                 \/ file'[2 * j + 1][2] < file'[2 * k + 1][2]
                 \/ <<file'[2 * k + 1][2], file'[2 * j + 1][2]>> \in overtaken'
            BY <1>1, <2>2, <3>1, <3>3
        <3> QED
            BY <2>1, <3>4, <3>5 DEF Numbered
    <2>5. promised' \subseteq ToSet(ram)
        <3>1. CASE restored
            BY <1>6, <3>1
        <3>2. CASE ~restored
            <4>1. Lined(file) /\ \A q \in promised : InFile(file, q, synced)
                BY DEF Kept, PromisedIsSynced
            <4>2. \A q \in promised : q \in ToSet(Events(file))
                BY <4>1, InFileFacts
            <4> QED
                BY <1>3, <1>6, <3>2, <4>2 DEF SameRecords
        <3> QED
            BY <3>1, <3>2
    <2>6. \A q \in ToSet(ram) : InFile(file', q, Len(file'))
        <3> SUFFICES ASSUME NEW q \in ToSet(ram) PROVE InFile(file', q, Len(file'))
            OBVIOUS
        <3>1. PICK k \in 1 .. Len(ram) : q = ram[k]
            BY <1>2 DEF ToSet
        <3>2. 2 * k + 1 \in Plain(file') /\ file'[2 * k + 1] = Body(q)
            BY <2>1, <3>1
        <3>3. 2 * k + 1 <= Len(file')
            BY <1>2, <1>6, <3>1, SnapshotType
        <3> QED
            BY <3>2, <3>3 DEF InFile
    <2>7. PromisedIsSynced'
        BY <1>6, <2>5, <2>6 DEF PromisedIsSynced
    <2>8. CutIsSynced'
        BY <1>6 DEF CutIsSynced, NoCut
    <2>9. RamIsFile'
        BY <1>1, <1>2, <1>3, <1>6, <2>1 DEF RamIsFile, Events, SameRecords
    <2>10. Kept'
        BY <1>4, <2>1, <2>3, <2>4, <2>7, <2>8, <2>9 DEF Kept
    <2>11. ~restored /\ overtaken = {} => Logged /\ promised' = promised
        BY <1>3, <1>6, <2>1 DEF Logged
    <2> QED
        BY <2>10, <2>11
<1> QED
    BY <1>5, <1>6, CompactIs

\* A file cut behind what was synced, or of a torn tail only, keeps what the invariant
\* says of it.
LEMMA CutKeeps ==
    ASSUME TypeOK, TypeOK', Kept, Lined(file'), NEW n \in Nat, CutAt(file, file', n),
           \A a \in Plain(file) : a <= synced => a <= n /\ a <= synced',
           cut.valid => cut.offset <= n /\ cut.offset <= synced',
           UNCHANGED <<cut, written, promised, overtaken>>
    PROVE  Once(file') /\ Numbered(file)' /\ PromisedIsSynced' /\ CutIsSynced'
<1>1. file \in Seq(Chunk) /\ file' \in Seq(Chunk) /\ Lined(file)
    BY DEF TypeOK, Kept
<1>2. /\ Plain(file') = {a \in Plain(file) : a <= n}
      /\ \A a \in Plain(file') : file'[a] = file[a]
      /\ \A offset \in 0 .. n : offset % 2 = 0 => EventsTo(file', offset) = EventsTo(file, offset)
    BY <1>1, CutReads
<1>3. Once(file') /\ Numbered(file)'
    <2>1. Once(file) /\ Numbered(file)
        BY DEF Kept
    <2>2. Once(file')
        BY <1>2, <2>1 DEF Once
    <2>3. \A a \in Plain(file') : file'[a][2] <= written'
        BY <1>2, <2>1 DEF Numbered
    <2>4. \A a, b \in Plain(file') :
             a < b => file'[a][2] < file'[b][2] \/ <<file'[b][2], file'[a][2]>> \in overtaken'
        BY <1>2, <2>1 DEF Numbered
    <2> QED
        BY <2>2, <2>3, <2>4 DEF Numbered
<1>4. PromisedIsSynced'
    <2>1. \A q \in promised : InFile(file, q, synced)
        BY DEF Kept, PromisedIsSynced
    <2>2. \A q : InFile(file, q, synced) => InFile(file', q, synced')
        BY <1>2 DEF InFile
    <2> QED
        BY <2>1, <2>2 DEF PromisedIsSynced
<1>5. CutIsSynced'
    <2>1. ASSUME cut.valid
          PROVE  /\ cut.offset <= synced' /\ cut.offset % 2 = 0
                 /\ SameRecords(EventsTo(file', cut.offset), cut.ram) /\ InOrder(cut.ram, overtaken')
        <3>1. cut.offset % 2 = 0 /\ SameRecords(EventsTo(file, cut.offset), cut.ram)
              /\ InOrder(cut.ram, overtaken)
            BY <2>1 DEF Kept, CutIsSynced
        <3>2. cut \in [offset : Nat, ram : Seq(Records), valid : BOOLEAN]
            BY DEF TypeOK
        <3>3. cut.offset \in 0 .. n
            BY <2>1, <3>2
        <3> QED
            BY <1>2, <2>1, <3>1, <3>3
    <2> QED
        BY <2>1 DEF CutIsSynced, SameRecords
<1> QED
    BY <1>3, <1>4, <1>5

LEMMA DownKeeps ==
    ASSUME TypeOK, TypeOK', Kept, Kill \/ PowerLoss
    PROVE  Kept'
<1>1. /\ serving' = "down" /\ staged' = <<>> /\ ram' = <<>>
      /\ UNCHANGED <<cut, written, promised, overtaken>>
    BY DEF Kill, PowerLoss, Down, histories
<1>2. StagedIsWritten' /\ RamOnce' /\ RamIsFile'
    BY <1>1 DEF StagedIsWritten, RamOnce, Proper, InOrder, RamIsFile, Distinct
<1>3. CASE Kill
    <2>1. UNCHANGED <<file, synced>>
        BY <1>3 DEF Kill, disk
    <2>2. PromisedIsSynced'
        BY <1>1, <2>1 DEF Kept, PromisedIsSynced
    <2>3. CutIsSynced'
        BY <1>1, <2>1 DEF Kept, CutIsSynced, SameRecords
    <2> QED
        BY <1>1, <1>2, <2>1, <2>2, <2>3 DEF Kept, Numbered
<1>4. CASE PowerLoss
    <2>1. file \in Seq(Chunk) /\ synced \in 0 .. Len(file) /\ Lined(file)
          /\ file' \in Survivors(file, synced) /\ synced' = Len(file')
        BY <1>4 DEF PowerLoss, TypeOK, Kept
    <2>2. PICK n \in synced .. Len(file) : CutAt(file, file', n) /\ n <= Len(file')
        BY <2>1, SurvivorIsCut
    <2>3. Lined(file') /\ n \in Nat /\ synced <= n /\ synced \in Nat /\ Len(file') \in Nat
        BY <2>1, SurvivorIsCut
    <2>4. \A a \in Plain(file) : a <= synced => a <= n /\ a <= synced'
        <3>1. \A a \in Plain(file) : a \in 1 .. Len(file)
            BY <2>1, LinedReads
        <3>2. \A a \in Plain(file) : a \in Nat
            BY <2>1, <3>1
        <3> QED
            BY <2>1, <2>2, <2>3, <3>2
    <2>5. ASSUME cut.valid PROVE cut.offset <= n /\ cut.offset <= synced'
        <3>1. cut \in [offset : Nat, ram : Seq(Records), valid : BOOLEAN]
            BY DEF TypeOK
        <3>2. cut.offset \in Nat /\ cut.offset <= synced
            BY <2>5, <3>1 DEF Kept, CutIsSynced
        <3> QED
            BY <2>1, <2>2, <2>3, <3>2
    <2>6. Once(file') /\ Numbered(file)' /\ PromisedIsSynced' /\ CutIsSynced'
        BY <1>1, <2>2, <2>3, <2>4, <2>5, CutKeeps
    <2> QED
        BY <1>2, <2>3, <2>6 DEF Kept
<1> QED
    BY <1>3, <1>4

\* Recovery keeps the whole of a lined file, or drops the torn chunk at its end.
LEMMA PrefixIs ==
    ASSUME NEW f \in Seq(Chunk), Lined(f)
    PROVE  /\ RecoverablePrefix(f) \in 0 .. Len(f)
           /\ \/ RecoverablePrefix(f) = Len(f)
              \/ RecoverablePrefix(f) = Len(f) - 1 /\ f[Len(f)] = Torn /\ 1 < Len(f)
                    /\ Len(f) \in DOMAIN f
<1> DEFINE tail == CorruptTail(f)
<1>1. Len(f) \in Nat /\ tail \subseteq {a \in DOMAIN f : f[a] = Torn /\ a = Len(f)}
    BY LinedReads
<1>2. \A a \in tail : a # 1
    BY DEF CorruptTail, RecordLines
<1>3. CASE tail = {}
    BY <1>1, <1>3 DEF RecoverablePrefix
<1>4. CASE tail # {}
    <2>1. tail = {Len(f)} /\ Len(f) \in DOMAIN f /\ f[Len(f)] = Torn /\ Len(f) # 1
        BY <1>1, <1>2, <1>4
    <2>2. Len(f) - 1 \in 0 .. Len(f) /\ 1 < Len(f)
        BY <1>1, <2>1
    <2>3. (CHOOSE a \in tail : \A b \in tail : a <= b) = Len(f)
        <3> HIDE DEF tail
        <3>1. \A b \in {Len(f)} : Len(f) <= b
            BY <1>1
        <3> QED
            BY <2>1, <3>1
    <2>4. RecoverablePrefix(f) = Len(f) - 1
        BY <1>4, <2>3 DEF RecoverablePrefix
    <2> QED
        BY <2>1, <2>2, <2>4
<1> QED
    BY <1>3, <1>4, PrefixType

\* What an empty file may be given as a header is lined, and holds no record.
LEMMA HeaderIs ==
    ASSUME NEW f \in Fragments(Header) \cup {<<Header, Newline>>}
    PROVE  f \in Seq(Chunk) /\ Lined(f) /\ Plain(f) = {}
<1>1. /\ f \in Seq(Chunk)
      /\ \A a \in DOMAIN f : \/ a = 1 /\ f[a] = Header
                             \/ a = 1 /\ Len(f) = 1 /\ f[a] = Torn
                             \/ a = 2 /\ f[a] = Newline
    <2>1. CASE f \in Fragments(Header)
        <3>1. f \in Seq(Chunk) /\ Len(f) \in {0, 1}
              /\ (f = <<>> \/ (Len(f) = 1 /\ f[1] = Torn) \/ (Len(f) = 1 /\ f[1] = Header))
            BY <2>1, ChunksApart, FragmentsType
        <3>2. \A a \in DOMAIN f : a = 1 /\ f # <<>>
            BY <3>1
        <3> QED
            BY <3>1, <3>2
    <2>2. CASE f = <<Header, Newline>>
        BY <2>2, ChunksApart
    <2> QED
        BY <2>1, <2>2
<1>2. Lined(f)
    <2>1. 1 % 2 = 1 /\ 2 % 2 = 0
        OBVIOUS
    <2> QED
        BY <1>1, <2>1, ChunksApart DEF Lined
<1>3. Plain(f) = {}
    BY <1>1, ChunksApart DEF Plain
<1> QED
    BY <1>1, <1>2, <1>3

LEMMA RecoverKeeps ==
    ASSUME TypeOK, TypeOK', Kept, serving = "down", NEW offset, RecoverTo(offset),
           UNCHANGED <<staged, cut, written, promised, overtaken>>,
           ~restored' \/ ~cut.valid => offset = Len(file)
    PROVE  Kept' /\ Logged
<1> DEFINE keep == RecoverablePrefix(file)
<1>1. /\ file \in Seq(Chunk) /\ Lined(file) /\ Once(file) /\ Numbered(file) /\ Len(file) \in Nat
      /\ synced \in 0 .. Len(file) /\ written \in Nat /\ file' \in Seq(Chunk)
    BY DEF TypeOK, Kept
<1>2. staged' = <<>> /\ StagedIsWritten'
    BY DEF Kept, StagedIsWritten
<1>3. /\ ~MidCorrupt(file)
      /\ \A a \in Plain(file) : a \in 1 .. Len(file)
    BY <1>1, LinedReads
<1>4. keep \in 0 .. Len(file)
      /\ \/ keep = Len(file)
         \/ keep = Len(file) - 1 /\ file[Len(file)] = Torn /\ 1 < Len(file) /\ Len(file) \in DOMAIN file
    BY <1>1, PrefixIs
<1> HIDE DEF keep
<1>5. serving' = "up" /\ open' = TRUE /\ ram' = EventsTo(file, offset) /\ ram' \in Seq(Records)
      /\ \/ /\ file' = SubSeq(file, 1, keep) /\ synced' = SyncedAfterCut(keep) /\ walBytes' = keep
         \/ /\ keep = 0 /\ file' = <<Header, Newline>> /\ synced' = 2 /\ walBytes' = 2
         \/ /\ keep = 0 /\ file' \in Fragments(Header) \cup {<<Header, Newline>>}
            /\ synced' = 0 /\ degraded' = TRUE
    BY <1>3, RecoverIs, RecoverType DEF keep
<1>6. RamOnce'
    <2>1. Proper(EventsTo(file, offset), written, overtaken)
        BY <1>1, EventsDistinct
    <2>2. ram' \o staged' = ram'
        BY <1>2, <1>5
    <2> QED
        BY <1>5, <2>1, <2>2 DEF RamOnce
<1>7. \A a \in Plain(file) : a <= keep /\ a \in Nat
    <2> SUFFICES ASSUME NEW a \in Plain(file) PROVE a <= keep /\ a \in Nat
        OBVIOUS
    <2>1. a \in Nat /\ a <= Len(file)
        BY <1>1, <1>3
    <2>2. file[Len(file)] = Torn => a # Len(file)
        BY ChunksApart DEF Plain
    <2> QED
        BY <1>1, <1>4, <2>1, <2>2
<1>8. ASSUME cut.valid PROVE cut.offset \in 0 .. keep /\ cut.offset <= synced
    <2>1. cut \in [offset : Nat, ram : Seq(Records), valid : BOOLEAN]
        BY DEF TypeOK
    <2>2. cut.offset \in Nat /\ cut.offset <= synced /\ cut.offset % 2 = 0
        BY <1>8, <2>1 DEF Kept, CutIsSynced
    <2>3. keep = Len(file) - 1 => Len(file) % 2 # 0
        <3>1. Len(file) \in DOMAIN file /\ file[Len(file)] = Torn => Len(file) % 2 # 0
            BY <1>1, ChunksApart DEF Lined
        <3> QED
            BY <1>1, <1>4, <3>1
    <2>4. keep = Len(file) - 1 => cut.offset # Len(file)
        BY <2>2, <2>3
    <2>5. keep = Len(file) \/ keep = Len(file) - 1
        BY <1>4
    <2>6. cut.offset <= Len(file)
        BY <1>1, <2>2
    <2>7. cut.offset <= keep
        BY <1>1, <2>2, <2>4, <2>5, <2>6
    <2> QED
        BY <1>1, <1>4, <2>2, <2>7
<1>9. ASSUME Lined(file'), CutAt(file, file', keep),
             \A a \in Plain(file) : a <= synced => a <= synced',
             cut.valid => cut.offset <= synced',
             ~degraded' => walBytes' = Len(file')
      PROVE  Kept' /\ Logged
    <2>1. keep \in Nat /\ cut.valid => cut.offset <= keep
        BY <1>1, <1>4, <1>8
    <2>2. Once(file') /\ Numbered(file)' /\ PromisedIsSynced' /\ CutIsSynced'
        <3>1. \A a \in Plain(file) : a <= synced => a <= keep /\ a <= synced'
            BY <1>7, <1>9
        <3>2. cut.valid => cut.offset <= keep /\ cut.offset <= synced'
            BY <1>8, <1>9, <2>1
        <3>3. keep \in Nat
            BY <1>1, <1>4
        <3> QED
            BY <1>9, <3>1, <3>2, <3>3, CutKeeps
    <2>3. Events(file') = Events(file)
        BY <1>1, <1>7, <1>9, CutReads
    <2>4. ram' \o staged' = ram'
        BY <1>2, <1>5
    <2>5. RamIsFile'
        BY <1>5, <1>9, <2>3, <2>4 DEF RamIsFile, Events, SameRecords
    <2> QED
        BY <1>2, <1>6, <1>9, <2>2, <2>3, <2>5 DEF Kept, Logged
<1>10. CASE file' = SubSeq(file, 1, keep) /\ synced' = SyncedAfterCut(keep) /\ walBytes' = keep
    <2>1. /\ Len(file') = keep /\ \A a \in 1 .. keep : a \in DOMAIN file' /\ a \in DOMAIN file
                                                        /\ file'[a] = file[a]
          /\ \A a \in DOMAIN file' : a \in 1 .. keep
        BY <1>1, <1>4, <1>10
    <2>2. Lined(file')
        <3> SUFFICES ASSUME NEW a \in DOMAIN file'
                     PROVE  /\ file'[a] = Newline <=> a % 2 = 0
                            /\ file'[a] = Header => a = 1
                            /\ file'[a] = Torn => a = Len(file')
            BY DEF Lined
        <3>1. a \in 1 .. keep /\ a \in DOMAIN file /\ file'[a] = file[a]
            BY <2>1
        <3>2. /\ file[a] = Newline <=> a % 2 = 0
              /\ file[a] = Header => a = 1
              /\ file[a] = Torn => a = Len(file)
            BY <1>1, <3>1 DEF Lined
        <3>3. a = Len(file) => a = keep
            BY <1>1, <1>4, <3>1
        <3> QED
            BY <2>1, <3>1, <3>2, <3>3
    <2>3. CutAt(file, file', keep)
        BY <1>4, <2>1 DEF CutAt, Plain
    <2>4. synced' = synced \/ synced' = keep
        BY <1>10 DEF SyncedAfterCut
    <2>5. \A a \in Plain(file) : a <= synced => a <= synced'
        BY <1>7, <2>4
    <2>6. cut.valid => cut.offset <= synced'
        BY <1>1, <1>4, <1>8, <2>4
    <2> QED
        BY <1>9, <1>10, <2>1, <2>2, <2>3, <2>5, <2>6
<1>11. CASE /\ keep = 0 /\ file' \in Fragments(Header) \cup {<<Header, Newline>>}
            /\ synced' \in Nat
            /\ degraded' = TRUE \/ (file' = <<Header, Newline>> /\ walBytes' = 2)
    <2>1. Lined(file') /\ Plain(file') = {}
        BY <1>11, HeaderIs
    <2>2. Len(file) = 0
        BY <1>1, <1>4, <1>11
    <2>3. CutAt(file, file', keep)
        BY <1>1, <1>11, <2>1 DEF CutAt
    <2>4. \A a \in Plain(file) : a <= synced => a <= synced'
        BY <1>3, <2>2
    <2>5. cut.valid => cut.offset <= synced'
        BY <1>8, <1>11
    <2>6. ~degraded' => walBytes' = Len(file')
        BY <1>11
    <2> QED
        BY <1>9, <2>1, <2>3, <2>4, <2>5, <2>6
<1>12. CASE keep = 0 /\ file' = <<Header, Newline>> /\ synced' = 2 /\ walBytes' = 2
    <2>1. file' \in Fragments(Header) \cup {<<Header, Newline>>} /\ synced' \in Nat
        BY <1>12
    <2> QED
        BY <1>11, <1>12, <2>1
<1>13. CASE /\ keep = 0 /\ file' \in Fragments(Header) \cup {<<Header, Newline>>}
            /\ synced' = 0 /\ degraded' = TRUE
    <2>1. synced' \in Nat
        BY <1>13
    <2> QED
        BY <1>11, <1>13, <2>1
<1> QED
    BY <1>5, <1>10, <1>12, <1>13

LEMMA BotchedStays == TypeOK /\ [Next]_vars /\ ~botched' => ~botched
<1> SUFFICES ASSUME TypeOK, [Next]_vars, ~botched' PROVE ~botched
    OBVIOUS
<1>1. botched \in BOOLEAN
    BY DEF TypeOK
<1>2. ASSUME NEW body, NEW ok, Write(body, ok) PROVE ~botched
    BY <1>1, <1>2 DEF Write
<1>3. CASE Stage
    BY <1>2, <1>3 DEF Stage
<1>4. CASE Durable
    BY <1>2, <1>4 DEF Durable
<1>5. CASE SnapshotMarker
    BY <1>2, <1>5 DEF SnapshotMarker
<1>6. CASE Barrier
    BY <1>6 DEF Barrier
<1>7. CASE Compact
    BY <1>7 DEF Compact
<1>8. CASE Kill \/ PowerLoss
    BY <1>8 DEF Kill, PowerLoss, Down, histories
<1>9. CASE Start \/ Restore
    BY <1>9 DEF Start, Restore
<1>10. CASE UNCHANGED vars
    BY <1>10 DEF vars, histories
<1> QED
    BY <1>3, <1>4, <1>5, <1>6, <1>7, <1>8, <1>9, <1>10 DEF Next

LEMMA KeptStep == TypeOK /\ TypeOK' /\ KeptInv /\ [Next]_vars => KeptInv'
<1> SUFFICES ASSUME TypeOK, TypeOK', KeptInv, [Next]_vars, ~botched' PROVE Kept'
    BY DEF KeptInv
<1>1. ~botched
    BY BotchedStays
<1>2. Kept
    BY <1>1 DEF KeptInv
<1>3. CASE Start
    <2>1. /\ serving = "down" /\ RecoverTo(Len(file))
          /\ UNCHANGED <<staged, cut, written, promised, overtaken>>
        BY <1>3 DEF Start
    <2> QED
        BY <1>2, <2>1, RecoverKeeps
<1>4. CASE Restore
    <2>1. /\ serving = "down" /\ RecoverTo(cut.offset) /\ cut.valid /\ restored' = TRUE
          /\ UNCHANGED <<staged, cut, written, promised, overtaken>>
        BY <1>4 DEF Restore
    <2> QED
        BY <1>2, <2>1, RecoverKeeps
<1>5. CASE UNCHANGED vars
    BY <1>2, <1>5 DEF vars, disk, broker, histories, Kept, Numbered, PromisedIsSynced, CutIsSynced,
                     StagedIsWritten, RamOnce, RamIsFile, SameRecords
<1> QED
    BY <1>2, <1>3, <1>4, <1>5, StageKeeps, BarrierKeeps, DurableKeeps, CompactKeeps, MarkerKeeps,
       DownKeeps DEF Next

\* Unless a record was botched, the whole file and whatever a crash may leave of it read as
\* the records whose barriers held, in order but for those that overtook another, in every
\* reachable state.
THEOREM KeptAlways == Spec => [](TypeOK /\ KeptInv)
<1>1. Init => TypeOK /\ KeptInv
    <2> SUFFICES ASSUME Init PROVE TypeOK /\ Kept
        BY DEF KeptInv
    <2>1. TypeOK
        BY TypeInit
    <2>2. file = <<>> /\ promised = {} /\ staged = <<>> /\ ram = <<>> /\ serving = "down" /\ ~cut.valid
        BY DEF Init, NoCut
    <2>3. Lined(file) /\ Once(file) /\ Numbered(file)
        BY <2>2 DEF Lined, Once, Numbered, Plain
    <2>4. RamOnce
        BY <2>2 DEF RamOnce, Proper, InOrder, Distinct
    <2> QED
        BY <2>1, <2>2, <2>3, <2>4 DEF Kept, PromisedIsSynced, CutIsSynced, StagedIsWritten, RamIsFile
<1>2. TypeOK /\ KeptInv /\ [Next]_vars => TypeOK' /\ KeptInv'
    BY TypeStep, KeptStep
<1> QED
    BY <1>1, <1>2, PTL DEF Spec

(***************************************************************************)
(* What follows.                                                           *)
(***************************************************************************)
\* Two sequences of the same records, each in order, agree on the order of any two of
\* which none has overtaken the other.
LEMMA PrecedesAgrees ==
    ASSUME NEW s \in Seq(Records), NEW t \in Seq(Records), SameRecords(s, t),
           InOrder(s, overtaken), InOrder(t, overtaken), NEW x \in Records, NEW y \in Records,
           <<x, y>> \notin overtaken, <<y, x>> \notin overtaken, x # y, Precedes(s, x, y)
    PROVE  Precedes(t, x, y)
<1>1. PICK i \in DOMAIN s, j \in DOMAIN s : i < j /\ s[i] = x /\ s[j] = y
    BY DEF Precedes
<1>2. x < y
    BY <1>1 DEF InOrder
<1>3. x \in ToSet(t) /\ y \in ToSet(t)
    BY <1>1 DEF SameRecords, ToSet
<1>4. PICK k \in DOMAIN t, l \in DOMAIN t : t[k] = x /\ t[l] = y
    BY <1>3 DEF ToSet
<1>5. x \in Nat /\ y \in Nat /\ k \in Nat /\ l \in Nat
    BY DEF Records
<1>6. k # l /\ ~(y < x)
    BY <1>2, <1>4, <1>5
<1>7. ~(l < k)
    BY <1>4, <1>6 DEF InOrder
<1>8. k < l
    BY <1>5, <1>6, <1>7
<1> QED
    BY <1>4, <1>8 DEF Precedes

LEMMA OrdersAgree ==
    ASSUME NEW s \in Seq(Records), NEW t \in Seq(Records), SameRecords(s, t),
           InOrder(s, overtaken), InOrder(t, overtaken)
    PROVE  ReplaysTo(s, t)
<1> SUFFICES ASSUME NEW x \in Records, NEW y \in Records,
                    <<x, y>> \notin overtaken, <<y, x>> \notin overtaken
             PROVE  Precedes(s, x, y) <=> Precedes(t, x, y)
    BY DEF ReplaysTo, SameRecords
<1>1. SameRecords(t, s)
    BY DEF SameRecords
<1>2. CASE x # y
    BY <1>1, <1>2, PrecedesAgrees
<1>3. CASE x = y
    <2>1. x \in Nat
        BY DEF Records
    <2>2. \A u : InOrder(u, overtaken) => ~Precedes(u, x, y)
        BY <1>3, <2>1 DEF InOrder, Precedes
    <2> QED
        BY <2>2
<1> QED
    BY <1>2, <1>3

\* A survivor of a power loss: lined, and everything up to what was synced.
LEMMA SurvivorReads ==
    ASSUME TypeOK, Kept, NEW g \in Survivors(file, synced)
    PROVE  /\ ~MidCorrupt(g) /\ promised \subseteq ToSet(Events(g))
           /\ cut.valid => ReplaysTo(EventsTo(g, cut.offset), cut.ram)
           /\ Len(Events(g)) <= Len(Events(file))
           /\ \A k \in DOMAIN Events(g) :
                 k \in DOMAIN Events(file) /\ Events(g)[k] = Events(file)[k]
<1>1. file \in Seq(Chunk) /\ Lined(file) /\ synced \in 0 .. Len(file) /\ Len(file) \in Nat
    BY DEF TypeOK, Kept
<1>2. g \in Seq(Chunk) /\ Lined(g)
    BY <1>1, SurvivorIsCut
<1>3. PICK n \in synced .. Len(file) : CutAt(file, g, n)
    BY <1>1, SurvivorIsCut
<1>4. n \in Nat /\ synced <= n /\ synced \in Nat
    BY <1>1
<1>5. /\ Plain(g) = {a \in Plain(file) : a <= n}
      /\ \A a \in Plain(g) : g[a] = file[a]
      /\ Len(Events(g)) <= Len(Events(file))
      /\ \A k \in DOMAIN Events(g) : k \in DOMAIN Events(file) /\ Events(g)[k] = Events(file)[k]
      /\ \A offset \in 0 .. n : offset % 2 = 0 => EventsTo(g, offset) = EventsTo(file, offset)
    BY <1>1, <1>2, <1>3, CutReads
<1>6. promised \subseteq ToSet(Events(g))
    <2> SUFFICES ASSUME NEW q \in promised PROVE q \in ToSet(Events(g))
        OBVIOUS
    <2>1. PICK a \in Plain(file) : a <= synced /\ file[a] = Body(q)
        BY DEF Kept, PromisedIsSynced, InFile
    <2>2. a \in Nat
        <3>1. a \in 1 .. Len(file)
            BY <1>1, LinedReads
        <3> QED
            BY <1>1, <3>1
    <2>3. a \in Plain(g) /\ g[a] = Body(q)
        BY <1>4, <1>5, <2>1, <2>2
    <2>4. g[a][2] = q
        BY <2>3 DEF Body
    <2> QED
        BY <1>2, <2>3, <2>4, EventsSet
<1>7. ASSUME cut.valid PROVE ReplaysTo(EventsTo(g, cut.offset), cut.ram)
    <2>1. cut.offset \in Nat /\ cut.ram \in Seq(Records)
        BY DEF TypeOK
    <2>2. cut.offset <= synced /\ cut.offset % 2 = 0
          /\ SameRecords(EventsTo(file, cut.offset), cut.ram) /\ InOrder(cut.ram, overtaken)
        BY <1>7 DEF Kept, CutIsSynced
    <2>3. cut.offset \in 0 .. n
        BY <1>4, <2>1, <2>2
    <2>4. EventsTo(g, cut.offset) = EventsTo(file, cut.offset)
        BY <1>5, <2>2, <2>3
    <2>5. InOrder(EventsTo(file, cut.offset), overtaken) /\ EventsTo(file, cut.offset) \in Seq(Records)
        BY <1>1, EventsDistinct, EventsType DEF Kept, Proper
    <2> QED
        BY <2>1, <2>2, <2>4, <2>5, OrdersAgree
<1> QED
    BY <1>2, <1>5, <1>6, <1>7, LinedReads

\* Whatever power loss comes, every record whose barrier held is replayed and the file
\* is not refused, as long as no record was botched: for any number of records, of
\* crashes, of failed writes and of torn lines, and through every compaction.
THEOREM PromisedIsKept == Spec => []PromisedSurvives
<1>1. TypeOK /\ KeptInv => PromisedSurvives
    BY SurvivorReads DEF KeptInv, PromisedSurvives
<1> QED
    BY <1>1, KeptAlways, PTL

\* Up to its offset the file replays to the records the last manifest was taken of, in
\* the order they were applied in but for those that overtook another, after any crash,
\* until a later life compacts the file.
THEOREM CutIsKept == Spec => []CutReplays
<1>1. TypeOK /\ KeptInv => CutReplays
    BY SurvivorReads DEF KeptInv, CutReplays
<1> QED
    BY <1>1, KeptAlways, PTL

(***************************************************************************)
(* The file is a DurableLog.                                               *)
(***************************************************************************)
LEMMA GreatestExists ==
    ASSUME NEW n \in Nat, NEW S \in SUBSET (1 .. n), S # {}
    PROVE  \E i \in S : \A j \in S : j <= i
<1> DEFINE T == {n - i : i \in S}
<1>1. T \subseteq Nat /\ T # {}
    <2>1. \A i \in S : n - i \in Nat
        OBVIOUS
    <2>2. \E i \in S : n - i \in T
        OBVIOUS
    <2> QED
        BY <2>1, <2>2
<1>2. PICK m \in T : \A k \in T : m <= k
    <2> HIDE DEF T
    <2> QED
        BY <1>1, LeastExists
<1>3. PICK i \in S : m = n - i
    BY <1>2
<1>4. \A j \in S : n - i <= n - j
    BY <1>2, <1>3
<1>5. \A j \in S : j <= i
    BY <1>4
<1> QED
    BY <1>5

\* How much of a log is firm: up to the last record of a set.
Highest(S) == IF S = {} THEN 0 ELSE CHOOSE i \in S : \A j \in S : j <= i
FirmOf(s, sure) == Highest({i \in DOMAIN s : s[i] \in sure})

LEMMA FirmIs ==
    ASSUME NEW s \in Seq(Records), NEW sure
    PROVE  /\ FirmOf(s, sure) \in 0 .. Len(s)
           /\ \A i \in DOMAIN s : s[i] \in sure => i <= FirmOf(s, sure)
           /\ FirmOf(s, sure) # 0 =>
                 FirmOf(s, sure) \in DOMAIN s /\ s[FirmOf(s, sure)] \in sure
<1> DEFINE here == {i \in DOMAIN s : s[i] \in sure}
<1>1. Len(s) \in Nat /\ here \in SUBSET (1 .. Len(s))
    OBVIOUS
<1>2. CASE here = {}
    <2>1. FirmOf(s, sure) = 0
        BY <1>2 DEF FirmOf, Highest
    <2>2. \A i \in DOMAIN s : s[i] \notin sure
        BY <1>2
    <2> QED
        BY <1>1, <2>1, <2>2
<1>3. CASE here # {}
    <2>1. \E i \in here : \A j \in here : j <= i
        <3> HIDE DEF here
        <3> QED
            BY <1>1, <1>3, GreatestExists
    <2>2. FirmOf(s, sure) \in here /\ \A j \in here : j <= FirmOf(s, sure)
        BY <1>3, <2>1 DEF FirmOf, Highest
    <2> QED
        BY <1>1, <2>2
<1> QED
    BY <1>2, <1>3

\* It grows with the log and with the set, and is what it was of a shorter log that
\* has all of it.
LEMMA FirmGrows ==
    ASSUME NEW s \in Seq(Records), NEW t \in Seq(Records), NEW P, NEW Q, P \subseteq Q,
           \A i \in DOMAIN s : i \in DOMAIN t /\ t[i] = s[i]
    PROVE  FirmOf(t, Q) \in FirmOf(s, P) .. Len(t)
<1>1. FirmOf(s, P) \in 0 .. Len(s) /\ FirmOf(t, Q) \in 0 .. Len(t) /\ Len(s) \in Nat /\ Len(t) \in Nat
    BY FirmIs
<1>2. CASE FirmOf(s, P) = 0
    BY <1>1, <1>2
<1>3. CASE FirmOf(s, P) # 0
    <2>1. FirmOf(s, P) \in DOMAIN s /\ s[FirmOf(s, P)] \in P
        BY <1>3, FirmIs
    <2>2. FirmOf(s, P) <= FirmOf(t, Q)
        BY <2>1, FirmIs
    <2> QED
        BY <1>1, <2>2
<1> QED
    BY <1>2, <1>3

LEMMA FirmStays ==
    ASSUME NEW s \in Seq(Records), NEW t \in Seq(Records), NEW P, Distinct(s),
           \A i \in DOMAIN t : i \in DOMAIN s /\ t[i] = s[i], P \subseteq ToSet(t)
    PROVE  FirmOf(t, P) = FirmOf(s, P)
<1>1. ASSUME NEW i \in DOMAIN s, s[i] \in P PROVE i \in DOMAIN t
    <2>1. PICK j \in DOMAIN t : t[j] = s[i]
        BY <1>1 DEF ToSet
    <2> QED
        BY <2>1 DEF Distinct
<1>2. {i \in DOMAIN t : t[i] \in P} = {i \in DOMAIN s : s[i] \in P}
    BY <1>1
<1> QED
    BY <1>2 DEF FirmOf

LEMMA PrefixByElements ==
    ASSUME NEW s \in Seq(Records), NEW t \in Seq(Records), Len(s) <= Len(t),
           \A i \in DOMAIN s : i \in DOMAIN t /\ s[i] = t[i]
    PROVE  Log!IsPrefixOf(s, t)
<1>1. Len(s) \in Nat /\ Len(t) \in Nat /\ \A i \in 1 .. Len(s) : s[i] = t[i]
    OBVIOUS
<1>2. SubSeq(t, 1, Len(s)) = [i \in 1 .. Len(s) |-> t[i]]
    BY <1>1
<1>3. s = [i \in 1 .. Len(s) |-> s[i]]
    OBVIOUS
<1>4. SubSeq(t, 1, Len(s)) = s
    BY <1>1, <1>2, <1>3
<1> QED
    BY <1>4 DEF Log!IsPrefixOf

\* A step that leaves the events or adds one, and takes back no promise.
LEMMA GrowsLog ==
    ASSUME TypeOK, TypeOK', promised \subseteq promised', Logged
    PROVE  Log!Grow
<1> DEFINE s == Events(file)  t == Events(file')
<1>1. s \in Seq(Records) /\ t \in Seq(Records)
    BY EventsType DEF TypeOK, Events
<1>2. Firm(file) = FirmOf(s, promised) /\ Firm(file)' = FirmOf(t, promised')
    BY DEF Firm, FirmOf, Highest
<1>3. t = s \/ \E r : t = Append(s, r)
    BY DEF Logged
<1> HIDE DEF s, t
<1>4. /\ Len(s) <= Len(t) /\ Len(t) <= Len(s) + 1
      /\ \A i \in DOMAIN s : i \in DOMAIN t /\ t[i] = s[i]
    BY <1>1, <1>3
<1>5. Log!IsPrefixOf(s, t)
    BY <1>1, <1>4, PrefixByElements
<1>6. FirmOf(t, promised') \in FirmOf(s, promised) .. Len(t)
    BY <1>1, <1>4, FirmGrows
<1> QED
    BY <1>2, <1>4, <1>5, <1>6 DEF Log!Grow, s, t

LEMMA PowerLossCutsLog ==
    ASSUME TypeOK, TypeOK', Kept, PowerLoss
    PROVE  Log!Crash
<1> DEFINE s == Events(file)  t == Events(file')
<1>1. s \in Seq(Records) /\ t \in Seq(Records)
    BY EventsType DEF TypeOK, Events
<1>2. promised' = promised
    BY DEF PowerLoss, Down, histories
<1>3. Firm(file) = FirmOf(s, promised) /\ Firm(file)' = FirmOf(t, promised)
    BY <1>2 DEF Firm, FirmOf, Highest
<1>4. /\ promised \subseteq ToSet(t) /\ Len(t) <= Len(s)
      /\ \A i \in DOMAIN t : i \in DOMAIN s /\ t[i] = s[i]
    BY SurvivorReads DEF PowerLoss
<1>5. Distinct(s)
    BY EventsDistinct DEF Kept, TypeOK, Events, Proper
<1> HIDE DEF s, t
<1>6. FirmOf(t, promised) = FirmOf(s, promised)
    BY <1>1, <1>4, <1>5, FirmStays
<1>7. FirmOf(s, promised) <= Len(t)
    BY <1>1, <1>6, FirmIs
<1>8. Log!IsPrefixOf(t, s)
    BY <1>1, <1>4, PrefixByElements
<1> QED
    BY <1>3, <1>6, <1>7, <1>8 DEF Log!Crash, s, t

LEMMA LogStep ==
    TypeOK /\ KeptInv /\ TypeOK' /\ [Next]_vars =>
        [\/ botched' \/ (Compact /\ (restored \/ overtaken # {}))
         \/ Log!LogNext]_<<Events(file), Firm(file)>>
<1> SUFFICES ASSUME TypeOK, KeptInv, TypeOK', [Next]_vars, ~botched',
                    ~(Compact /\ (restored \/ overtaken # {}))
             PROVE  Log!LogNext \/ UNCHANGED <<Events(file), Firm(file)>>
    OBVIOUS
<1>1. Kept
    BY BotchedStays DEF KeptInv
<1>2. CASE Stage
    <2>1. promised' = promised
        BY <1>2 DEF Stage
    <2> QED
        BY <1>1, <1>2, <2>1, StageKeeps, GrowsLog DEF Log!LogNext
<1>3. CASE Durable
    <2>1. promised \subseteq promised'
        BY <1>3 DEF Durable
    <2> QED
        BY <1>1, <1>3, <2>1, DurableKeeps, GrowsLog DEF Log!LogNext
<1>4. CASE SnapshotMarker
    <2>1. promised' = promised
        BY <1>4 DEF SnapshotMarker
    <2> QED
        BY <1>1, <1>4, <2>1, MarkerKeeps, GrowsLog DEF Log!LogNext
<1>5. CASE Barrier
    <2>1. promised \subseteq promised' /\ file' = file
        BY <1>5 DEF Barrier
    <2> QED
        BY <2>1, GrowsLog DEF Log!LogNext, Logged
<1>6. CASE Compact
    BY <1>1, <1>6, CompactKeeps, GrowsLog DEF Log!LogNext
<1>7. CASE Kill
    <2>1. promised' = promised /\ file' = file
        BY <1>7 DEF Kill, Down, disk, histories
    <2> QED
        BY <2>1, GrowsLog DEF Log!LogNext, Logged
<1>8. CASE PowerLoss
    BY <1>1, <1>8, PowerLossCutsLog DEF Log!LogNext
<1>9. CASE Start \/ Restore
    <2>1. /\ serving = "down" /\ promised' = promised
          /\ UNCHANGED <<staged, cut, written, promised, overtaken>>
        BY <1>9 DEF Start, Restore
    <2>2. PICK offset : RecoverTo(offset) /\ (~restored' \/ ~cut.valid => offset = Len(file))
        BY <1>9 DEF Start, Restore
    <2> QED
        BY <1>1, <2>1, <2>2, RecoverKeeps, GrowsLog DEF Log!LogNext
<1>10. CASE UNCHANGED vars
    BY <1>10 DEF vars, disk, histories, Firm
<1> QED
    BY <1>2, <1>3, <1>4, <1>5, <1>6, <1>7, <1>8, <1>9, <1>10 DEF Next

\* The file implements the log its users were promised: every step adds a record at most,
\* a crash takes some from the end and none that is firm, and only a compaction does
\* otherwise: in a life started at an offset, or after a record has overtaken another.
THEOREM FileIsDurableLog == Spec => ImplementsDurableLog
<1>1. TypeOK /\ KeptInv /\ (TypeOK /\ KeptInv)' /\ [Next]_vars =>
        [\/ botched' \/ (Compact /\ (restored \/ overtaken # {}))
         \/ Log!LogNext]_<<Events(file), Firm(file)>>
    BY LogStep
<1> QED
    BY <1>1, KeptAlways, PTL DEF Spec, ImplementsDurableLog
=============================================================================
