---------------------------- MODULE RegionProofs ----------------------------
(***************************************************************************)
(* Theorems of the regions of one broker: of RegionLease, for every set of *)
(* workers, regions and entities and every number of sessions, with or     *)
(* without failures; and, in the second part, of ZoneWorker, for every set *)
(* of workers and entities and all deployments.                            *)
(***************************************************************************)
EXTENDS RegionLease, ZoneWorker, SequenceTheorems, FiniteSetTheorems,
        WellFoundedInduction, TLAPS

(***************************************************************************)
(* The inductive invariant.                                                *)
(***************************************************************************)
\* A failover moves entities of its region, and leaves some behind only where
\* a connect has taken the region over from their owner.
StagedTakeAll ==
    \A i \in DOMAIN failovers : \A e \in Entities :
        /\ e \in failovers[i].moved => region[e] = failovers[i].region
        /\ region[e] = failovers[i].region =>
              e \in failovers[i].moved \/ region[e] \in takenOver

\* The failover i is staged and takes e.
Takes(i, e) == i \in DOMAIN failovers /\ e \in failovers[i].moved

\* Until a barrier fails, what a crash may leave of an owner is what RAM has,
\* nothing where only a connect granted it, or what a staged failover will give;
\* and the whole log has all that is staged.
LogAgrees ==
    ~degraded =>
        /\ \A s \in mayRecover, e \in Entities :
              \/ s[e] \in {None, owner[e]}
              \/ \E i \in DOMAIN failovers : Takes(i, e) /\ s[e] = failovers[i].to
        /\ \A e \in Entities :
              \/ logged[e] \in {None, owner[e]} /\ \A i \in DOMAIN failovers : ~Takes(i, e)
              \/ \E i \in DOMAIN failovers : Takes(i, e) /\ logged[e] = failovers[i].to

Inv == TypeOK /\ StagedTakeAll /\ FailoverUnites /\ LogAgrees

(***************************************************************************)
(* Granting.                                                               *)
(***************************************************************************)
\* A list of well-typed failovers of distinct regions that take entities of
\* their own region only.
WellStaged(fs, n) ==
    /\ \A i \in 1..n : fs[i] \in Failover
    /\ \A i, j \in 1..n : i # j => fs[i].region # fs[j].region
    /\ \A i \in 1..n : \A e \in fs[i].moved : region[e] = fs[i].region

\* Granted gives an entity to the failover that takes it, if any.
LEMMA GrantedIs ==
    ASSUME NEW s, NEW fs, NEW n \in Nat, WellStaged(fs, n), NEW e \in Entities
    PROVE  /\ (\A i \in 1..n : e \notin fs[i].moved) => Granted(s, fs, n)[e] = s[e]
           /\ \A i \in 1..n : e \in fs[i].moved => Granted(s, fs, n)[e] = fs[i].to
<1> DEFINE is == {i \in 1..n : e \in fs[i].moved}
<1>1. Granted(s, fs, n)[e] =
         IF is = {} THEN s[e] ELSE fs[CHOOSE i \in is : \A j \in is : j <= i].to
    BY DEF Granted
<1>2. ASSUME NEW i \in 1..n, e \in fs[i].moved
      PROVE  Granted(s, fs, n)[e] = fs[i].to
    <2>1. \A j \in is : j = i
        BY <1>2 DEF WellStaged
    <2>2. i \in is /\ \A j \in is : j <= i
        BY <1>2, <2>1
    <2>3. (CHOOSE j \in is : \A l \in is : l <= j) = i
        <3> HIDE DEF is
        <3> QED
            BY <2>1, <2>2
    <2> QED
        BY <1>1, <2>2, <2>3
<1>3. (\A i \in 1..n : e \notin fs[i].moved) => Granted(s, fs, n)[e] = s[e]
    BY <1>1
<1> QED
    BY <1>2, <1>3

\* What results are owners.
LEMMA GrantedType ==
    ASSUME NEW s \in Owners, NEW fs, NEW n \in Nat, WellStaged(fs, n)
    PROVE  Granted(s, fs, n) \in Owners
<1>1. ASSUME NEW e \in Entities
      PROVE  Granted(s, fs, n)[e] \in Workers \cup {None}
    <2>1. CASE \A i \in 1..n : e \notin fs[i].moved
        BY <2>1, GrantedIs DEF Owners
    <2>2. CASE \E i \in 1..n : e \in fs[i].moved
        BY <2>2, GrantedIs DEF WellStaged, Failover
    <2> QED
        BY <2>1, <2>2
<1> QED
    BY <1>1 DEF Granted, Owners

(***************************************************************************)
(* Sessions and leases.                                                    *)
(***************************************************************************)
LEMMA InitInv == ASSUME Init PROVE Inv
<1>1. 0 \in 0..MaxSessions
    BY LeaseBounds
<1>2. owner \in Owners /\ failovers \in Seq(Failover) /\ standbys \in Seq(Workers)
    BY EmptySeq DEF Init, Owners
<1>3. DOMAIN failovers = {}
    BY DEF Init
<1>4. TypeOK
    BY <1>1, <1>2, <1>3 DEF Init, TypeOK
<1>5. StagedTakeAll /\ LogAgrees
    BY <1>3 DEF Init, StagedTakeAll, LogAgrees, Takes
<1>6. FailoverUnites
    BY DEF Init, FailoverUnites, Separated
<1> QED
    BY <1>4, <1>5, <1>6 DEF Inv

\* Granting a worker what nobody owns in its own regions.
LEMMA CheckedOutIs ==
    ASSUME TypeOK, NEW w \in Workers, NEW leases \in [Regions -> Workers \cup {None}],
           NEW e \in Entities
    PROVE  /\ CheckedOut(w, leases) \in Owners
           /\ owner[e] # None => CheckedOut(w, leases)[e] = owner[e]
           /\ CheckedOut(w, leases)[e] # owner[e] =>
                 /\ owner[e] = None
                 /\ CheckedOut(w, leases)[e] = leases[region[e]]
BY DEF TypeOK, Owners, CheckedOut

\* A session that opens keeps the types of the session variables.
LEMMA OpenSessionType ==
    ASSUME TypeOK, NEW w \in Workers, OpenSession(w)
    PROVE  /\ used' \in [Workers -> 0..MaxSessions]
           /\ handle' \in [Workers -> 0..MaxSessions]
           /\ open' \in [Workers -> SUBSET (1..MaxSessions)]
<1>1. used[w] + 1 \in 1..MaxSessions
    BY LeaseBounds DEF TypeOK, OpenSession
<1> QED
    BY <1>1 DEF TypeOK, OpenSession

LEMMA ConnectInv == ASSUME Inv, NEW w \in Workers, NEW r \in Regions, Connect(w, r) PROVE Inv'
<1> USE DEF Inv
<1>1. regionWorker' \in [Regions -> Workers \cup {None}] /\ live' \in SUBSET Regions
    BY DEF Connect, TypeOK
<1>2. owner' \in Owners /\ \A e \in Entities : owner[e] # None => owner'[e] = owner[e]
    <2>1. owner' \in Owners
        BY <1>1 DEF Connect, CheckedOut, TypeOK, Owners
    <2> QED
        BY <1>1, <2>1, CheckedOutIs DEF Connect
<1>3. OpenSession(w) /\ takenOver' = takenOver \cup Separated(owner', regionWorker')
      /\ UNCHANGED <<region, standbys, failovers, log>>
    BY DEF Connect
<1>4. takenOver' \in SUBSET Regions
    BY <1>3 DEF TypeOK, Separated
<1>5. TypeOK'
    BY <1>1, <1>2, <1>3, <1>4, OpenSessionType DEF TypeOK, log
<1>6. StagedTakeAll' /\ FailoverUnites'
    <2>1. StagedTakeAll'
        BY <1>3 DEF StagedTakeAll
    <2>2. FailoverUnites'
        BY <1>3 DEF FailoverUnites, Separated
    <2> QED
        BY <2>1, <2>2
<1>7. LogAgrees'
    BY <1>2, <1>3 DEF LogAgrees, Takes, log, TypeOK, Owners
<1> QED
    BY <1>5, <1>6, <1>7

LEMMA ConnectStandbyInv == ASSUME Inv, NEW w \in Workers, ConnectStandby(w) PROVE Inv'
<1> USE DEF Inv
<1>1. OpenSession(w) /\ owner' = CheckedOut(w, regionWorker) /\ standbys' = Append(standbys, w)
      /\ UNCHANGED <<region, regionWorker, live, failovers, log, takenOver>>
    BY DEF ConnectStandby
<1>2. owner' \in Owners /\ \A e \in Entities : owner[e] # None => owner'[e] = owner[e]
    BY <1>1 DEF CheckedOut, TypeOK, Owners
<1>3. \A e \in Entities : owner'[e] # owner[e] => owner'[e] = regionWorker[region[e]]
    BY <1>1 DEF CheckedOut, TypeOK, Owners
<1>4. standbys' \in Seq(Workers)
    BY <1>1, AppendProperties DEF TypeOK
<1>5. TypeOK'
    BY <1>1, <1>2, <1>4, OpenSessionType DEF TypeOK, log
<1>6. StagedTakeAll'
    BY <1>1 DEF StagedTakeAll
<1>7. FailoverUnites'
    <2>1. SUFFICES ASSUME NEW e \in Entities, regionWorker[region[e]] # None,
                          owner'[e] \notin {None, regionWorker[region[e]]}
                   PROVE  region[e] \in takenOver
        BY <1>1 DEF FailoverUnites, Separated
    <2>2. owner[e] \notin {None, regionWorker[region[e]]}
        BY <1>3, <2>1
    <2> QED
        BY <2>1, <2>2 DEF FailoverUnites, Separated
<1>8. LogAgrees'
    <2>1. UNCHANGED <<logged, mayRecover, degraded, failovers>>
        BY <1>1 DEF log
    <2>2. ASSUME ~degraded, NEW s \in mayRecover, NEW e \in Entities
          PROVE  \/ s[e] \in {None, owner'[e]}
                 \/ \E i \in DOMAIN failovers : Takes(i, e) /\ s[e] = failovers[i].to
        BY <1>2, <2>2 DEF LogAgrees
    <2>3. ASSUME ~degraded, NEW e \in Entities
          PROVE  \/ logged[e] \in {None, owner'[e]} /\ \A i \in DOMAIN failovers : ~Takes(i, e)
                 \/ \E i \in DOMAIN failovers : Takes(i, e) /\ logged[e] = failovers[i].to
        BY <1>2, <2>3 DEF LogAgrees
    <2> QED
        BY <2>1, <2>2, <2>3 DEF LogAgrees, Takes
<1> QED
    BY <1>5, <1>6, <1>7, <1>8

\* What the invariant says of owners, leases and the log is left alone.
LEMMA SessionOrLeaseInv ==
    ASSUME Inv, UNCHANGED <<region, owner, regionWorker, failovers, log, takenOver>>, TypeOK'
    PROVE  Inv'
BY DEF Inv, StagedTakeAll, FailoverUnites, Separated, LogAgrees, Takes, log

LEMMA SessionsInv ==
    ASSUME Inv, NEW w \in Workers,
           Reap(w) \/ Renew(w) \/ \E n \in 1..MaxSessions : Teardown(w, n)
    PROVE  Inv'
<1> USE DEF Inv
<1>0. 0 \in 0..MaxSessions
    BY LeaseBounds
<1>1. CASE Reap(w)
    <2>1. TypeOK' /\ UNCHANGED <<region, owner, regionWorker, failovers, log, takenOver>>
        BY <1>0, <1>1 DEF Reap, TypeOK, grants, log
    <2> QED
        BY <2>1, SessionOrLeaseInv
<1>2. CASE Renew(w)
    <2>1. TypeOK' /\ UNCHANGED <<region, owner, regionWorker, failovers, log, takenOver>>
        BY <1>2 DEF Renew, TypeOK, sessions, log
    <2> QED
        BY <2>1, SessionOrLeaseInv
<1>3. ASSUME NEW n \in 1..MaxSessions, Teardown(w, n) PROVE Inv'
    <2>1. TypeOK' /\ UNCHANGED <<region, owner, regionWorker, failovers, log, takenOver>>
        BY <1>0, <1>3 DEF Teardown, TypeOK, grants, log
    <2> QED
        BY <2>1, SessionOrLeaseInv
<1> QED
    BY <1>1, <1>2, <1>3

LEMMA LapseInv == ASSUME Inv, NEW r \in Regions, Lapse(r) PROVE Inv'
<1>1. TypeOK' /\ UNCHANGED <<region, owner, regionWorker, failovers, log, takenOver>>
    BY DEF Lapse, Inv, TypeOK, sessions, log
<1> QED
    BY <1>1, SessionOrLeaseInv

(***************************************************************************)
(* Staging and flushing failovers.                                         *)
(***************************************************************************)
\* The staged failovers satisfy what GrantedIs asks.
LEMMA StagedWell ==
    ASSUME Inv
    PROVE  Len(failovers) \in Nat /\ WellStaged(failovers, Len(failovers))
<1>1. /\ failovers \in Seq(Failover) /\ DOMAIN failovers = 1..Len(failovers)
      /\ Len(failovers) \in Nat
      /\ \A i, j \in DOMAIN failovers : i # j => failovers[i].region # failovers[j].region
    BY DEF Inv, TypeOK
<1>2. \A i \in 1..Len(failovers) : failovers[i] \in Failover
    BY <1>1, ElementOfSeq
<1>3. ASSUME NEW i \in 1..Len(failovers), NEW e \in failovers[i].moved
      PROVE  region[e] = failovers[i].region
    <2>1. e \in Entities
        BY <1>2 DEF Failover
    <2> QED
        BY <1>1, <2>1 DEF Inv, StagedTakeAll
<1> QED
    BY <1>1, <1>2, <1>3 DEF WellStaged

LEMMA CheckLeasesInv == ASSUME Inv, CheckLeases PROVE Inv'
<1> USE DEF Inv
<1>0. PICK k \in 0..Len(standbys), failed \in BOOLEAN :
        \E q \in Arrangements(Lapsed, k) :
          LET new == [i \in 1..k |-> [region |-> q[i], to |-> standbys[i],
                                      moved |-> Moved(q[i])]]
          IN  /\ degraded' = (degraded \/ failed)
              /\ failovers' = failovers \o new
              /\ standbys' = SubSeq(standbys, k + 1, Len(standbys))
              /\ logged' = Granted(logged, new, k)
              /\ mayRecover' = mayRecover \cup {Granted(logged, new, i) : i \in 1..k}
    BY Zenon DEF CheckLeases
<1>1. PICK q \in Arrangements(Lapsed, k) :
        LET new == [i \in 1..k |-> [region |-> q[i], to |-> standbys[i],
                                    moved |-> Moved(q[i])]]
        IN  /\ degraded' = (degraded \/ failed)
            /\ failovers' = failovers \o new
            /\ standbys' = SubSeq(standbys, k + 1, Len(standbys))
            /\ logged' = Granted(logged, new, k)
            /\ mayRecover' = mayRecover \cup {Granted(logged, new, i) : i \in 1..k}
    BY <1>0
<1> DEFINE new == [i \in 1..k |-> [region |-> q[i], to |-> standbys[i], moved |-> Moved(q[i])]]
           m == Len(failovers)
<1>2. UNCHANGED <<region, owner, regionWorker, live, used, open, handle, takenOver>>
    BY DEF CheckLeases, grants, sessions
<1>3. /\ k \in Nat /\ Len(standbys) \in Nat /\ k <= Len(standbys)
      /\ standbys \in Seq(Workers) /\ failovers \in Seq(Failover) /\ m \in Nat
      /\ DOMAIN failovers = 1..m
    BY DEF TypeOK
<1>4. \A i \in 1..k : q[i] \in Lapsed /\ standbys[i] \in Workers
    BY <1>3, ElementOfSeq DEF Arrangements
<1>5. \A i \in 1..k :
         /\ new[i].region = q[i] /\ new[i].to = standbys[i] /\ new[i].moved = Moved(q[i])
         /\ new[i] \in Failover
    BY <1>4 DEF Failover, Moved, Lapsed
<1>6. \A i, j \in 1..k : i # j => new[i].region # new[j].region
    BY <1>5 DEF Arrangements
<1>7. \A i \in 1..k : \A e \in new[i].moved : region[e] = new[i].region
    BY <1>5 DEF Moved
<1>8. new \in Seq(Failover) /\ Len(new) = k
    BY <1>3, <1>5
<1> HIDE DEF new
<1>9. \A n \in 0..k : WellStaged(new, n)
    <2> SUFFICES ASSUME NEW n \in 0..k PROVE WellStaged(new, n)
        OBVIOUS
    <2>1. \A i \in 1..n : i \in 1..k
        BY <1>3
    <2>2. \A i \in 1..n : new[i] \in Failover
        BY <1>5, <2>1
    <2>3. \A i, j \in 1..n : i # j => new[i].region # new[j].region
        BY <1>6, <2>1
    <2>4. \A i \in 1..n : \A e \in new[i].moved : region[e] = new[i].region
        BY <1>7, <2>1
    <2> QED
        BY <2>2, <2>3, <2>4 DEF WellStaged
<1>10. /\ failovers' = failovers \o new
       /\ standbys' = SubSeq(standbys, k + 1, Len(standbys))
       /\ degraded' = (degraded \/ failed)
       /\ logged' = Granted(logged, new, k)
       /\ mayRecover' = mayRecover \cup {Granted(logged, new, i) : i \in 1..k}
    BY <1>1 DEF new
<1>11. /\ failovers' \in Seq(Failover) /\ DOMAIN failovers' = 1..(m + k)
       /\ \A i \in 1..m : failovers'[i] = failovers[i]
       /\ \A i \in 1..k : m + i \in 1..(m + k) /\ failovers'[m + i] = new[i]
    <2>1. failovers' \in Seq(Failover) /\ Len(failovers') = m + k
        BY <1>3, <1>8, <1>10, ConcatProperties
    <2>2. \A i \in 1..m : failovers'[i] = failovers[i]
        BY <1>3, <1>8, <1>10
    <2>3. \A i \in 1..k : m + i \in 1..(m + k) /\ failovers'[m + i] = new[i]
        BY <1>3, <1>8, <1>10
    <2> QED
        BY <2>1, <2>2, <2>3
<1>12. \A i \in 1..(m + k) : i \in 1..m \/ \E j \in 1..k : i = m + j
    <2> SUFFICES ASSUME NEW i \in 1..(m + k), i \notin 1..m PROVE \E j \in 1..k : i = m + j
        OBVIOUS
    <2>1. i - m \in 1..k /\ i = m + (i - m)
        BY <1>3
    <2> QED
        BY <2>1
<1>13. \A i, j \in 1..(m + k) : i # j => failovers'[i].region # failovers'[j].region
    <2>1. ASSUME NEW i \in 1..m, NEW j \in 1..k PROVE failovers[i].region # new[j].region
        <3>1. new[j].region = q[j] /\ q[j] \in Lapsed
            BY <1>4, <1>5
        <3>2. ~Staged(q[j])
            BY <3>1 DEF Lapsed
        <3>3. i \in DOMAIN failovers
            BY <1>3
        <3> QED
            BY <3>1, <3>2, <3>3 DEF Staged
    <2>2. \A i, j \in 1..m : i # j => failovers[i].region # failovers[j].region
        BY <1>3 DEF TypeOK
    <2> SUFFICES ASSUME NEW i \in 1..(m + k), NEW j \in 1..(m + k), i # j
                 PROVE  failovers'[i].region # failovers'[j].region
        OBVIOUS
    <2>3. CASE i \in 1..m
        <3>1. CASE j \in 1..m
            BY <1>11, <2>2, <2>3, <3>1
        <3>2. ASSUME NEW l \in 1..k, j = m + l PROVE failovers'[i].region # failovers'[j].region
            BY <1>11, <2>1, <2>3, <3>2
        <3> QED
            BY <1>12, <3>1, <3>2
    <2>4. ASSUME NEW n \in 1..k, i = m + n PROVE failovers'[i].region # failovers'[j].region
        <3>1. CASE j \in 1..m
            BY <1>11, <2>1, <2>4, <3>1
        <3>2. ASSUME NEW l \in 1..k, j = m + l PROVE failovers'[i].region # failovers'[j].region
            BY <1>6, <1>11, <2>4, <3>2
        <3> QED
            BY <1>12, <3>1, <3>2
    <2> QED
        BY <1>12, <2>3, <2>4
<1>14. TypeOK'
    <2>1. standbys' \in Seq(Workers)
        BY <1>3, <1>10, SubSeqProperties
    <2>2. \A n \in 0..k : Granted(logged, new, n) \in Owners
        BY <1>3, <1>9, GrantedType DEF TypeOK
    <2>4. logged' \in Owners /\ mayRecover' \in SUBSET Owners
        <3>1. k \in 0..k /\ 1..k \subseteq 0..k
            BY <1>3
        <3> QED
            BY <1>10, <2>2, <3>1 DEF TypeOK
    <2>3. degraded' \in BOOLEAN
        BY <1>10
    <2> QED
        BY <1>2, <1>11, <1>13, <2>1, <2>3, <2>4 DEF TypeOK
<1>15. StagedTakeAll'
    <2>1. ASSUME NEW i \in 1..k, NEW e \in Entities
          PROVE  /\ e \in new[i].moved => region[e] = new[i].region
                 /\ region[e] = new[i].region => e \in new[i].moved \/ region[e] \in takenOver
        <3>1. region[e] = q[i] /\ e \notin Moved(q[i]) => region[e] \in Separated(owner, regionWorker)
            BY <1>4 DEF Moved, Separated, Lapsed
        <3> QED
            BY <1>5, <1>7, <3>1 DEF FailoverUnites
    <2>2. ASSUME NEW i \in 1..m, NEW e \in Entities
          PROVE  /\ e \in failovers[i].moved => region[e] = failovers[i].region
                 /\ region[e] = failovers[i].region =>
                       e \in failovers[i].moved \/ region[e] \in takenOver
        BY <1>3, <2>2 DEF StagedTakeAll
    <2>3. \A i \in 1..(m + k) : \A e \in Entities :
             /\ e \in failovers'[i].moved => region[e] = failovers'[i].region
             /\ region[e] = failovers'[i].region =>
                   e \in failovers'[i].moved \/ region[e] \in takenOver
        <3> SUFFICES ASSUME NEW i \in 1..(m + k), NEW e \in Entities
                     PROVE  /\ e \in failovers'[i].moved => region[e] = failovers'[i].region
                            /\ region[e] = failovers'[i].region =>
                                  e \in failovers'[i].moved \/ region[e] \in takenOver
            OBVIOUS
        <3>1. CASE i \in 1..m
            BY <1>11, <2>2, <3>1
        <3>2. ASSUME NEW j \in 1..k, i = m + j
              PROVE  /\ e \in failovers'[i].moved => region[e] = failovers'[i].region
                     /\ region[e] = failovers'[i].region =>
                           e \in failovers'[i].moved \/ region[e] \in takenOver
            BY <1>11, <2>1, <3>2
        <3> QED
            BY <1>12, <3>1, <3>2
    <2> QED
        BY <1>2, <1>11, <2>3 DEF StagedTakeAll
<1>16. FailoverUnites'
    BY <1>2 DEF FailoverUnites, Separated
<1>17. LogAgrees'
    <2>0. DOMAIN failovers' = 1..(m + k) /\ owner' = owner
        BY <1>2, <1>11
    <2>1. SUFFICES ASSUME ~degraded'
          PROVE  /\ \A s \in mayRecover', e \in Entities :
                       \/ s[e] \in {None, owner[e]}
                       \/ \E i \in 1..(m + k) : e \in failovers'[i].moved /\ s[e] = failovers'[i].to
                 /\ \A e \in Entities :
                       \/ /\ logged'[e] \in {None, owner[e]}
                          /\ \A i \in 1..(m + k) : e \notin failovers'[i].moved
                       \/ \E i \in 1..(m + k) : e \in failovers'[i].moved /\ logged'[e] = failovers'[i].to
        BY <2>0 DEF LogAgrees, Takes
    <2>2. ~degraded
        BY <1>10, <2>1
    <2>3. \A i \in 1..m : i \in 1..(m + k)
        BY <1>3
    <2>4. ASSUME NEW e \in Entities, NEW s,
                 \E i \in 1..m : e \in failovers[i].moved /\ s[e] = failovers[i].to
          PROVE  \E i \in 1..(m + k) : e \in failovers'[i].moved /\ s[e] = failovers'[i].to
        BY <1>11, <2>3, <2>4
    <2>5. ASSUME NEW e \in Entities
          PROVE  \/ logged[e] \in {None, owner[e]} /\ \A i \in 1..m : e \notin failovers[i].moved
                 \/ \E i \in 1..m : e \in failovers[i].moved /\ logged[e] = failovers[i].to
        BY <1>3, <2>2 DEF LogAgrees, Takes
    <2>6. ASSUME NEW n \in 1..k, NEW e \in Entities, NEW i \in 1..n, e \in new[i].moved
          PROVE  \E j \in 1..(m + k) : /\ e \in failovers'[j].moved
                                       /\ Granted(logged, new, n)[e] = failovers'[j].to
        <3>1. i \in 1..k /\ n \in Nat /\ n \in 0..k
            BY <1>3
        <3>2. Granted(logged, new, n)[e] = new[i].to
            BY <1>9, <2>6, <3>1, GrantedIs
        <3> QED
            BY <1>11, <2>6, <3>1, <3>2
    <2>7. ASSUME NEW n \in 0..k, NEW e \in Entities, \A i \in 1..n : e \notin new[i].moved
          PROVE  Granted(logged, new, n)[e] = logged[e]
        <3>1. n \in Nat /\ WellStaged(new, n)
            BY <1>3, <1>9
        <3> QED
            BY <2>7, <3>1, GrantedIs
    <2>8. ASSUME NEW s \in mayRecover', NEW e \in Entities
          PROVE  \/ s[e] \in {None, owner[e]}
                 \/ \E i \in 1..(m + k) : e \in failovers'[i].moved /\ s[e] = failovers'[i].to
        <3>1. CASE s \in mayRecover
            <4>1. \/ s[e] \in {None, owner[e]}
                  \/ \E i \in 1..m : e \in failovers[i].moved /\ s[e] = failovers[i].to
                BY <1>3, <2>2, <3>1 DEF LogAgrees, Takes
            <4> QED
                BY <2>4, <4>1
        <3>2. ASSUME NEW n \in 1..k, s = Granted(logged, new, n)
              PROVE  \/ s[e] \in {None, owner[e]}
                     \/ \E i \in 1..(m + k) : e \in failovers'[i].moved /\ s[e] = failovers'[i].to
            <4>1. CASE \E i \in 1..n : e \in new[i].moved
                BY <2>6, <3>2, <4>1
            <4>2. CASE \A i \in 1..n : e \notin new[i].moved
                <5>1. n \in 0..k
                    BY <1>3
                <5>2. s[e] = logged[e]
                    BY <2>7, <3>2, <4>2, <5>1
                <5> QED
                    BY <2>4, <2>5, <5>2
            <4> QED
                BY <4>1, <4>2
        <3> QED
            BY <1>10, <3>1, <3>2
    <2>9. ASSUME NEW e \in Entities
          PROVE  \/ /\ logged'[e] \in {None, owner[e]}
                    /\ \A i \in 1..(m + k) : e \notin failovers'[i].moved
                 \/ \E i \in 1..(m + k) : e \in failovers'[i].moved /\ logged'[e] = failovers'[i].to
        <3>1. CASE \E i \in 1..k : e \in new[i].moved
            <4>1. k \in 1..k
                BY <1>3, <3>1
            <4> QED
                BY <1>10, <2>6, <3>1, <4>1
        <3>2. CASE \A i \in 1..k : e \notin new[i].moved
            <4>1. k \in 0..k
                BY <1>3
            <4>2. logged'[e] = logged[e]
                BY <1>10, <2>7, <3>2, <4>1
            <4>3. CASE logged[e] \in {None, owner[e]} /\ \A i \in 1..m : e \notin failovers[i].moved
                BY <1>11, <1>12, <3>2, <4>2, <4>3
            <4>4. CASE \E i \in 1..m : e \in failovers[i].moved /\ logged[e] = failovers[i].to
                BY <1>11, <2>3, <4>2, <4>4
            <4> QED
                BY <2>5, <4>3, <4>4
        <3> QED
            BY <3>1, <3>2
    <2> QED
        BY <2>8, <2>9
<1> QED
    BY <1>14, <1>15, <1>16, <1>17

LEMMA FlushInv == ASSUME Inv, Flush PROVE Inv'
<1> USE DEF Inv
<1>1. /\ failovers' = <<>> /\ DOMAIN failovers' = {} /\ failovers' \in Seq(Failover)
      /\ UNCHANGED <<region, standbys, used, open, handle, takenOver>>
    BY EmptySeq DEF Flush, sessions
<1>2. StagedTakeAll'
    BY <1>1 DEF StagedTakeAll
<1>3. CASE FlushFails
    <2>1. UNCHANGED <<owner, regionWorker, live, logged, mayRecover>> /\ degraded' = TRUE
        BY <1>3 DEF FlushFails, grants
    <2>2. TypeOK'
        BY <1>1, <2>1 DEF TypeOK
    <2>3. FailoverUnites' /\ LogAgrees'
        BY <1>1, <2>1 DEF FailoverUnites, Separated, LogAgrees
    <2> QED
        BY <1>2, <2>2, <2>3
<1>4. CASE FlushApplies
    <2> DEFINE m == Len(failovers)
               new == {failovers[i].region : i \in DOMAIN failovers}
    <2>1. /\ regionWorker' = [r \in Regions |->
                IF r \in new
                THEN failovers[CHOOSE i \in DOMAIN failovers : failovers[i].region = r].to
                ELSE regionWorker[r]]
          /\ live' = live \cup new
          /\ owner' = Granted(owner, failovers, m)
          /\ mayRecover' = {logged} /\ logged' = logged /\ degraded' = degraded
        BY <1>4 DEF FlushApplies
    <2>2. m \in Nat /\ WellStaged(failovers, m) /\ DOMAIN failovers = 1..m
        BY StagedWell DEF TypeOK
    <2>3. \A i \in 1..m : failovers[i].to \in Workers /\ failovers[i].region \in Regions
        BY <2>2 DEF WellStaged, Failover
    <2>4. owner' \in Owners
        BY <2>1, <2>2, GrantedType DEF TypeOK
    <2>5. \A i \in 1..m : regionWorker'[failovers[i].region] = failovers[i].to
        <3> SUFFICES ASSUME NEW i \in 1..m PROVE regionWorker'[failovers[i].region] = failovers[i].to
            OBVIOUS
        <3>1. (CHOOSE j \in DOMAIN failovers : failovers[j].region = failovers[i].region) = i
            BY <2>2 DEF WellStaged
        <3> QED
            BY <2>1, <2>2, <2>3, <3>1
    <2>6. \A r \in Regions : r \notin new => regionWorker'[r] = regionWorker[r]
        BY <2>1
    <2>7. regionWorker' \in [Regions -> Workers \cup {None}] /\ live' \in SUBSET Regions
        <3>1. ASSUME NEW r \in Regions PROVE regionWorker'[r] \in Workers \cup {None}
            <4>1. CASE r \in new
                <5>1. PICK i \in 1..m : failovers[i].region = r
                    BY <2>2, <4>1
                <5> QED
                    BY <2>3, <2>5, <5>1
            <4>2. CASE r \notin new
                BY <2>6, <4>2 DEF TypeOK
            <4> QED
                BY <4>1, <4>2
        <3> QED
            BY <2>1, <2>2, <2>3, <3>1 DEF TypeOK
    <2>8. TypeOK'
        BY <1>1, <2>1, <2>4, <2>7 DEF TypeOK
    <2>9. FailoverUnites'
        <3>1. SUFFICES ASSUME NEW e \in Entities, regionWorker'[region[e]] # None,
                              owner'[e] \notin {None, regionWorker'[region[e]]}
                       PROVE  region[e] \in takenOver
            BY <1>1 DEF FailoverUnites, Separated
        <3>2. region[e] \in Regions
            BY DEF TypeOK
        <3>3. CASE region[e] \in new
            <4>1. PICK i \in 1..m : failovers[i].region = region[e]
                BY <2>2, <3>3
            <4>2. CASE e \in failovers[i].moved
                BY <2>1, <2>2, <2>5, <3>1, <4>1, <4>2, GrantedIs
            <4>3. CASE e \notin failovers[i].moved
                BY <2>2, <4>1, <4>3 DEF StagedTakeAll
            <4> QED
                BY <4>2, <4>3
        <3>4. CASE region[e] \notin new
            <4>1. \A i \in 1..m : e \notin failovers[i].moved
                BY <2>2, <3>4 DEF WellStaged
            <4>2. owner'[e] = owner[e]
                BY <2>1, <2>2, <4>1, GrantedIs
            <4> QED
                BY <2>6, <3>1, <3>2, <3>4, <4>2 DEF FailoverUnites, Separated
        <3> QED
            BY <3>3, <3>4
    <2>10. LogAgrees'
        <3>1. SUFFICES ASSUME ~degraded, NEW e \in Entities
                       PROVE  logged[e] \in {None, owner'[e]}
            BY <1>1, <2>1 DEF LogAgrees, Takes
        <3>2. CASE \E i \in 1..m : e \in failovers[i].moved
            <4>1. PICK i \in 1..m : e \in failovers[i].moved
                BY <3>2
            <4>2. \A j \in 1..m : e \in failovers[j].moved => j = i
                BY <2>2, <4>1 DEF WellStaged
            <4>3. logged[e] = failovers[i].to
                BY <2>2, <3>1, <4>1, <4>2 DEF LogAgrees, Takes
            <4> QED
                BY <2>1, <2>2, <4>1, <4>3, GrantedIs
        <3>3. CASE \A i \in 1..m : e \notin failovers[i].moved
            <4>1. owner'[e] = owner[e]
                BY <2>1, <2>2, <3>3, GrantedIs
            <4> QED
                BY <2>2, <3>1, <3>3, <4>1 DEF LogAgrees, Takes
        <3> QED
            BY <3>2, <3>3
    <2> QED
        BY <1>2, <2>8, <2>9, <2>10
<1> QED
    BY <1>3, <1>4 DEF Flush

(***************************************************************************)
(* Compaction and restart.                                                 *)
(***************************************************************************)
LEMMA CompactInv == ASSUME Inv, Compact PROVE Inv'
<1> USE DEF Inv
<1>1. /\ failovers = <<>> /\ DOMAIN failovers = {} /\ ~degraded
      /\ UNCHANGED <<region, owner, regionWorker, live, standbys, failovers,
                     used, open, handle, takenOver>>
      /\ degraded' \in BOOLEAN
      /\ logged' \in {logged, owner} /\ mayRecover' \subseteq mayRecover \cup {owner}
    <2>1. ~degraded /\ failovers = <<>> /\ degraded \in BOOLEAN /\ DOMAIN failovers = {}
        BY DEF Compact, TypeOK
    <2>2. UNCHANGED <<region, owner, regionWorker, live, standbys, failovers,
                     used, open, handle, takenOver>>
        BY DEF Compact, grants, sessions
    <2>3. /\ degraded' \in BOOLEAN
          /\ logged' \in {logged, owner} /\ mayRecover' \subseteq mayRecover \cup {owner}
        BY <2>1 DEF Compact
    <2> QED
        BY <2>1, <2>2, <2>3
<1>2. TypeOK'
    BY <1>1 DEF TypeOK
<1>3. StagedTakeAll' /\ FailoverUnites'
    BY <1>1 DEF StagedTakeAll, FailoverUnites, Separated
<1>4. LogAgrees'
    <2>1. ASSUME NEW s \in mayRecover', NEW e \in Entities PROVE s[e] \in {None, owner[e]}
        BY <1>1, <2>1 DEF LogAgrees, Takes
    <2>2. ASSUME NEW e \in Entities PROVE logged'[e] \in {None, owner[e]}
        BY <1>1, <2>2 DEF LogAgrees, Takes
    <2> QED
        BY <1>1, <2>1, <2>2 DEF LogAgrees, Takes
<1> QED
    BY <1>2, <1>3, <1>4

LEMMA RestartInv == ASSUME Inv, Restart PROVE Inv'
<1> USE DEF Inv
<1>1. PICK s \in mayRecover : owner' = s /\ logged' = s /\ mayRecover' = {s}
    BY DEF Restart
<1>2. /\ regionWorker' = [r \in Regions |-> None] /\ live' = {}
      /\ standbys' = <<>> /\ failovers' = <<>> /\ degraded' = FALSE /\ takenOver' = {}
      /\ open' = [w \in Workers |-> {}] /\ handle' = [w \in Workers |-> 0]
      /\ UNCHANGED <<region, used>>
    BY DEF Restart
<1>3. 0 \in 0..MaxSessions /\ DOMAIN failovers' = {}
      /\ failovers' \in Seq(Failover) /\ standbys' \in Seq(Workers)
    BY <1>2, LeaseBounds, EmptySeq
<1>4. TypeOK'
    <2>1. \A i, j \in DOMAIN failovers' : i # j => failovers'[i].region # failovers'[j].region
        BY <1>3
    <2> QED
        BY <1>1, <1>2, <1>3, <2>1 DEF TypeOK
<1>5. StagedTakeAll' /\ LogAgrees'
    BY <1>1, <1>2, <1>3 DEF StagedTakeAll, LogAgrees, Takes
<1>6. FailoverUnites'
    <2>1. \A e \in Entities : regionWorker'[region'[e]] = None
        BY <1>2 DEF TypeOK
    <2> QED
        BY <2>1 DEF FailoverUnites, Separated
<1> QED
    BY <1>4, <1>5, <1>6

(***************************************************************************)
(* Theorems.                                                               *)
(***************************************************************************)
LEMMA NextInv == ASSUME Inv, [Next]_vars PROVE Inv'
<1>1. CASE UNCHANGED vars
    BY <1>1 DEF vars, grants, log, sessions, Inv, TypeOK, StagedTakeAll, FailoverUnites,
                Separated, LogAgrees, Takes
<1>2. ASSUME NEW w \in Workers,
             \/ ConnectStandby(w) \/ Reap(w) \/ Renew(w)
             \/ \E r \in Regions : Connect(w, r)
             \/ \E n \in 1..MaxSessions : Teardown(w, n)
      PROVE  Inv'
    BY <1>2, ConnectStandbyInv, ConnectInv, SessionsInv
<1>3. CASE \E r \in Regions : Lapse(r)
    BY <1>3, LapseInv
<1> QED
    BY <1>1, <1>2, <1>3, CheckLeasesInv, FlushInv, CompactInv, RestartInv DEF Next

\* Inv is an invariant.
THEOREM Invariance == Spec => []Inv
<1>1. Init => Inv
    BY InitInv
<1>2. Inv /\ [Next]_vars => Inv'
    BY NextInv
<1> QED
    BY <1>1, <1>2, PTL DEF Spec

\* Sessions, leases, standbys, failovers and the log stay well typed, and no
\* region ever has two failovers staged (check_leases, flush_pending_failovers).
THEOREM LeaseTypeCorrect == Spec => []TypeOK
<1>1. Inv => TypeOK
    BY DEF Inv
<1> QED
    BY <1>1, Invariance, PTL

\* No failover parts a region from its entities (apply_prepared_failover).
THEOREM FailoversUnite == Spec => []FailoverUnites
<1>1. Inv => FailoverUnites
    BY DEF Inv
<1> QED
    BY <1>1, Invariance, PTL

\* A restart gives an entity to its owner in RAM or to nobody (recovery and
\* flush_pending_failovers).
THEOREM OwnersAreReplayed == Spec => []OwnerIsReplay
<1>1. Inv => OwnerIsReplay
    BY DEF Inv, OwnerIsReplay, LogAgrees, Takes
<1> QED
    BY <1>1, Invariance, PTL

\* A live lease passes to another worker only by a failover staged when it had
\* lapsed (handle_conn's lease grant, apply_prepared_failover).
THEOREM LiveLeasesKept == Spec => LiveLeaseKept
<1> DEFINE Kept == \A r \in Regions : r \in live /\ regionWorker[r] # None =>
                      regionWorker'[r] \in {regionWorker[r], None} \/ Staged(r)
<1>1. ASSUME Inv, [Next]_vars PROVE Kept
    <2> SUFFICES ASSUME NEW r \in Regions, r \in live, regionWorker[r] # None, ~Staged(r)
                 PROVE  regionWorker'[r] \in {regionWorker[r], None}
        OBVIOUS
    <2>1. ASSUME NEW w \in Workers, NEW x \in Regions, Connect(w, x)
          PROVE  regionWorker'[r] \in {regionWorker[r], None}
        BY <1>1, <2>1 DEF Connect, HeldByAnother, Inv, TypeOK
    <2>2. ASSUME Flush PROVE regionWorker'[r] \in {regionWorker[r], None}
        BY <2>2 DEF Flush, FlushApplies, FlushFails, grants, Staged
    <2>3. ASSUME Restart PROVE regionWorker'[r] \in {regionWorker[r], None}
        BY <2>3 DEF Restart
    <2>4. ASSUME UNCHANGED regionWorker PROVE regionWorker'[r] \in {regionWorker[r], None}
        BY <2>4
    <2>5. ASSUME NEW w \in Workers,
                 \/ ConnectStandby(w) \/ Reap(w) \/ Renew(w)
                 \/ \E n \in 1..MaxSessions : Teardown(w, n)
          PROVE  UNCHANGED regionWorker
        BY <2>5 DEF ConnectStandby, Reap, Renew, Teardown, grants
    <2>6. ASSUME \/ \E x \in Regions : Lapse(x)
                 \/ CheckLeases \/ Compact \/ UNCHANGED vars
          PROVE  UNCHANGED regionWorker
        BY <2>6 DEF Lapse, CheckLeases, Compact, vars, grants
    <2> QED
        BY <1>1, <2>1, <2>2, <2>3, <2>4, <2>5, <2>6 DEF Next
<1>2. Inv /\ Inv' /\ [Next]_vars => [Kept]_vars
    BY <1>1
<1> QED
    BY <1>2, Invariance, PTL DEF Spec, LiveLeaseKept

(***************************************************************************)
(* The zone workers.                                                       *)
(*                                                                         *)
(* The invariant speaks of what a worker will have in mind once it has     *)
(* read its channel (Ear): then it simulates only what it owns, or what a  *)
(* failover or a late hand-off took from it silently; what it answers for  *)
(* it owns, and simulates with the right epoch or is folding; what it is   *)
(* shown is there and where it last heard, unless that was shed.  Each     *)
(* operator of the broker asks some of this of fewer pairs of a worker and *)
(* an entity than the next one gives back; a step asks and gives all of it.*)
(***************************************************************************)

(***************************************************************************)
(* Zone workers: types.                                                    *)
(***************************************************************************)
Mind == [body : [Entities -> Bots \cup {None}], mirror : [Entities -> Points \cup {None}]]
Reasons == {"entity not found", "not authoritative", "stale authority epoch", "cannot fold",
            "wal_sync_failed", "wal_persist_failed", "fold handoff failed"}
Queues == {"writes", "handoffs", "failovers"}
Frame == [op : {"Add", "Revoke", "Remove"}, eid : Entities]
    \cup [op : {"Pos"}, eid : Entities, pos : Points]
    \cup [op : {"Grant"}, eid : Entities, epoch : Nat, at : Points \cup {None}]
    \cup [op : {"Reject"}, eid : Entities, reason : Reasons]
    \cup [op : {"Reject"}, eid : {None}, reason : {"degraded"}]
    \cup [op : {"Imminent"}, eid : Entities, epoch : Nat]
Pairs == Workers \X Entities
Authority == [owner : Workers \cup {None}, epoch : Nat]
Writes == [eid : Entities, pos : Points, writer : Workers]
Handoffs == [eid : Entities, to : Sides, pos : Points, old : Workers \cup {None},
             new : Workers \cup {None}, moved : BOOLEAN, authority : Authority]
Failovers == [region : Sides, new : Workers, grants : SUBSET [eid : Entities, authority : Authority]]
Brokers ==
    [ents : [Entities -> Placed \cup {None}], holder : [Sides -> Workers \cup {None}],
     lapsed : SUBSET Sides, standbys : Seq(Workers), writes : Seq(Writes),
     handoffs : Seq(Handoffs), failovers : Seq(Failovers),
     intents : [Entities -> [target : Sides, epoch : Nat] \cup {None}],
     online : SUBSET Workers, aoi : SUBSET Workers,
     serves : [Workers -> Sides \cup {"STANDBY", None}], view : [Workers -> SUBSET Entities],
     out : [Workers -> Seq(Frame)], refused : SUBSET Entities, unsynced : SUBSET Queues,
     degraded : BOOLEAN,
     stranded : SUBSET Entities, untold : SUBSET Pairs, blurred : SUBSET Pairs]

(***************************************************************************)
(* What a worker will know once it has read its channel.  c has the minds  *)
(* of the workers and fold, whose folds of which entities are on their way.*)
(***************************************************************************)
Read(z, q) == FoldLeft(Hear, z, q)
Chan(s, w) == down[w] \o s.out[w]
Ear(c, s, w) == Read(c.mind[w], Chan(s, w))

(***************************************************************************)
(* The invariant, of a worker that is connected and an entity.             *)
(***************************************************************************)
Simulates(c, s, w, e) == Ear(c, s, w).body[e] # None
\* It simulates what is its own, or what a failover or a late hand-off took.
OwnOnly(c, s, w, e) ==
    Simulates(c, s, w, e) => Live(s, e) /\ (s.ents[e].owner = w \/ <<w, e>> \in s.untold)
\* What it answers for it owns, and simulates or folds.
AllOwn(c, s, w, e) ==
    Live(s, e) /\ e \notin s.stranded /\ Responsible(s, e) = w =>
        /\ s.ents[e].owner = w
        /\ <<w, e>> \notin c.fold =>
              Simulates(c, s, w, e) /\ Ear(c, s, w).body[e].epoch = s.ents[e].epoch
\* What it is shown is there, where it will have it last, unless that was shed.
Shown(s, w, e) == e \in s.view[w] => Live(s, e)
Placid(c, s, w, e) ==
    e \in s.view[w] /\ <<w, e>> \notin s.blurred => Ear(c, s, w).mirror[e] = s.ents[e].pos
Adopts(c, s) ==
    \A w \in s.online : \A n \in 1..Len(Chan(s, w)) :
        LET m == Chan(s, w)[n]
            z == Read(c.mind[w], SubSeq(Chan(s, w), 1, n - 1))
        IN  m.op = "Grant" /\ m.at # None /\ z.body[m.eid] = None => Hear(z, m).body[m.eid].pos = m.at
\* What is staged is of entities that are there, and gives to the worker it names.
StagedLive(s) ==
    /\ \A i \in DOMAIN s.writes : Live(s, s.writes[i].eid)
    /\ \A i \in DOMAIN s.handoffs :
          /\ Live(s, s.handoffs[i].eid)
          /\ s.handoffs[i].moved => s.handoffs[i].authority.owner = s.handoffs[i].new
    /\ \A i \in DOMAIN s.failovers :
          /\ IsFiniteSet(s.failovers[i].grants)
          /\ \A g \in s.failovers[i].grants :
                Live(s, g.eid) /\ g.authority.owner = s.failovers[i].new
Sound(c, s) ==
    /\ s \in Brokers /\ StagedLive(s) /\ down \in [Workers -> Seq(Frame)]
    /\ \A w \in Workers : Ear(c, s, w) \in Mind
    /\ Adopts(c, s)
    /\ \A w \in s.online, e \in Entities : Shown(s, w, e)
\* r, q and p are the pairs of which a part is not asked.
Holds(c, r, q, p, s) ==
    /\ Sound(c, s)
    /\ \A w \in s.online, e \in Entities :
          /\ <<w, e>> \notin r => OwnOnly(c, s, w, e)
          /\ <<w, e>> \notin q => AllOwn(c, s, w, e)
          /\ <<w, e>> \notin p => Placid(c, s, w, e)

(***************************************************************************)
(* Going through a sequence.                                               *)
(***************************************************************************)
Step(kind, a, s, x) ==
    CASE kind = "hear" -> Hear(s, x)
      [] kind = "propagate" -> PropagateTo(s, x, a)
      [] kind = "appear" -> ShowTo(s, x, a)
      [] kind = "greet" -> ShowTo(s, a, x)
      [] kind = "unseen" -> SendFull(s, a, x)
      [] kind = "write" -> ApplyWrite(s, x)
      [] kind = "handoff" -> ApplyHandoff(s, x)
      [] kind = "failover" -> ApplyFailover(s, x)
      [] kind = "regrant" -> Regrant(s, a, x)
      [] kind = "refuse" -> Reject(s, x.writer, x.eid, "wal_sync_failed")
      [] kind = "update" -> Update(s, a, x)
\* h tells what is there after each set of places; a set of places ends in the last.
After(kind, a, base, q, h, T) ==
    IF T = {} THEN base ELSE LET i == Max(T) IN Step(kind, a, h[T \ {i}], q[i])
Goes(kind, a, base, q, h) ==
    h = [T \in SUBSET DOMAIN q |-> After(kind, a, base, q, h, T)]
\* r tells what is there after each of the first n elements of q.
Runs(kind, a, base, q, n, r) ==
    r[0] = base /\ \A k \in 1..n : r[k] = Step(kind, a, r[k - 1], q[k])
Ends(kind, a, base, q, t) ==
    \E r : Runs(kind, a, base, q, Len(q), r) /\ t = r[Len(q)]
Below == {nn \in Nat \X Nat : nn[1] < nn[2]}

\* A set of naturals that has a member has a least one.
LEMMA FirstExists ==
    ASSUME NEW T, T \subseteq Nat, T # {}
    PROVE  \E x \in T : \A y \in T : x <= y
<1>1. IsWellFoundedOn(Below, Nat)
    BY NatLessThanWellFounded, Zenon DEF OpToRel, Below
<1>2. PICK x \in T : \A y \in T : ~(<<y, x>> \in Below)
    BY <1>1, WFMin, Zenon
<1>3. \A y \in T : ~(y < x)
    BY <1>2 DEF Below
<1> QED
    BY <1>3

\* From 0 to n, where each is reached from the one before.
LEMMA Along ==
    ASSUME NEW n \in Nat, NEW good, 0 \in good, \A k \in 1..n : k - 1 \in good => k \in good
    PROVE  \A k \in 0..n : k \in good
<1> DEFINE bad == {k \in 0..n : k \notin good}
<1>1. SUFFICES ASSUME bad # {} PROVE FALSE
    OBVIOUS
<1>2. bad \subseteq Nat
    OBVIOUS
<1>3. PICK k \in bad : \A j \in bad : k <= j
    <2> HIDE DEF bad
    <2> QED
        BY <1>1, <1>2, FirstExists
<1>4. k \in 1..n /\ k - 1 \in 0..n /\ ~(k <= k - 1)
    OBVIOUS
<1>5. k - 1 \in good
    BY <1>3, <1>4
<1> QED
    BY <1>4, <1>5

LEMMA LastExists ==
    ASSUME NEW n \in Nat, NEW T, T \subseteq 1..n, T # {}
    PROVE  Max(T) \in T /\ \A y \in T : Max(T) >= y
<1> DEFINE flipped == {n - y : y \in T}
<1>1. \A y \in T : y \in Nat /\ y <= n
    OBVIOUS
<1>2. flipped \subseteq Nat /\ flipped # {}
    <2>1. \A y \in T : n - y \in Nat
        BY <1>1
    <2> QED
        BY <2>1
<1>3. PICK d \in flipped : \A y \in flipped : d <= y
    <2> HIDE DEF flipped
    <2> QED
        BY <1>2, FirstExists
<1>4. PICK x \in T : d = n - x
    BY <1>3
<1>5. \A y \in T : n - x <= n - y
    BY <1>3, <1>4
<1>6. \A y \in T : x >= y
    BY <1>1, <1>4, <1>5
<1> QED
    BY <1>6 DEF Max

LEMMA Shorter ==
    ASSUME NEW n \in Nat, NEW T \in SUBSET (1..n), T # {}
    PROVE  /\ Max(T) \in T /\ T \ {Max(T)} \in SUBSET (1..n)
           /\ Cardinality(T) \in Nat \ {0} /\ Cardinality(T \ {Max(T)}) = Cardinality(T) - 1
<1>0. IsFiniteSet(1..n)
    BY FS_Interval
<1>1. IsFiniteSet(T)
    BY <1>0, FS_Subset
<1>2. Max(T) \in T
    BY LastExists
<1>3. Cardinality(T) \in Nat /\ Cardinality(T) # 0
    BY <1>1, FS_CardinalityType, FS_EmptySet
<1> QED
    BY <1>1, <1>2, <1>3, FS_RemoveElement

LEMMA GoesExists ==
    ASSUME NEW kind, NEW a, NEW base, NEW F, NEW q \in Seq(F)
    PROVE  \E h : Goes(kind, a, base, q, h)
<1> DEFINE S == DOMAIN q
           Small(n) == {T \in SUBSET S : Cardinality(T) <= n}
           Has(n)  == \E h : /\ h = [T \in Small(n) |-> h[T]]
                             /\ \A T \in Small(n) : h[T] = After(kind, a, base, q, h, T)
           all == {n \in Nat : Has(n)}
<1>0. PICK len \in Nat : S = 1..len
    BY DEF S
<1>a. IsFiniteSet(S) /\ Cardinality(S) = len
    BY <1>0, FS_Interval
<1>1. \A T \in SUBSET S : IsFiniteSet(T) /\ Cardinality(T) \in Nat
    BY <1>a, FS_Subset, FS_CardinalityType
<1>2. Has(0)
    <2> DEFINE h == [T \in Small(0) |-> base]
    <2>1. ASSUME NEW T \in Small(0) PROVE T = {}
        BY <1>1, FS_EmptySet
    <2>2. h = [T \in Small(0) |-> h[T]]
          /\ \A T \in Small(0) : h[T] = After(kind, a, base, q, h, T)
        BY <2>1 DEF After
    <2> HIDE DEF h
    <2> QED
        BY <2>2
<1>3. ASSUME NEW n \in Nat, Has(n) PROVE Has(n + 1)
    <2>1. PICK g : /\ g = [T \in Small(n) |-> g[T]]
                   /\ \A T \in Small(n) : g[T] = After(kind, a, base, q, g, T)
        BY <1>3
    <2> DEFINE h == [T \in Small(n + 1) |-> After(kind, a, base, q, g, T)]
    <2>2. \A T \in Small(n) : T \in Small(n + 1) /\ h[T] = g[T]
        BY <1>1, <2>1
    <2>3. ASSUME NEW T \in Small(n + 1)
          PROVE  After(kind, a, base, q, h, T) = After(kind, a, base, q, g, T)
        <3>1. CASE T = {}
            BY <3>1 DEF After
        <3>2. CASE T # {}
            <4>1. T \in SUBSET S /\ Cardinality(T) <= n + 1
                OBVIOUS
            <4>2. /\ T \ {Max(T)} \in SUBSET S /\ Cardinality(T) \in Nat
                  /\ Cardinality(T \ {Max(T)}) = Cardinality(T) - 1
                BY <1>0, <3>2, <4>1, Shorter
            <4>3. T \ {Max(T)} \in Small(n)
                BY <4>1, <4>2
            <4>4. h[T \ {Max(T)}] = g[T \ {Max(T)}]
                BY <2>2, <4>3
            <4> HIDE DEF h
            <4> QED
                BY <3>2, <4>4 DEF After
        <3> QED
            BY <3>1, <3>2
    <2>4. h = [T \in Small(n + 1) |-> h[T]]
          /\ \A T \in Small(n + 1) : h[T] = After(kind, a, base, q, h, T)
        BY <2>3
    <2> HIDE DEF h
    <2> QED
        BY <2>4
<1>4. len \in all
    <2>1. 0 \in all
        BY <1>2
    <2>2. \A k \in 1..len : k - 1 \in all => k \in all
        <3> HIDE DEF Has
        <3>1. \A k \in 1..len : k - 1 \in Nat /\ (k - 1) + 1 = k /\ k \in Nat
            BY <1>0
        <3> QED
            BY <1>3, <3>1
    <2> HIDE DEF all
    <2>3. \A k \in 0..len : k \in all
        BY <1>0, <2>1, <2>2, Along
    <2> QED
        BY <1>0, <2>3
<1>5. Small(len) = SUBSET S
    <2>1. ASSUME NEW T \in SUBSET S PROVE Cardinality(T) <= len
        BY <1>a, FS_Subset
    <2> QED
        BY <2>1
<1>6. PICK h : /\ h = [T \in SUBSET S |-> h[T]]
               /\ \A T \in SUBSET S : h[T] = After(kind, a, base, q, h, T)
    <2>1. Has(len)
        BY <1>4
    <2> HIDE DEF Small
    <2> QED
        BY <1>5, <2>1
<1> QED
    BY <1>6 DEF Goes

LEMMA GoesEnds ==
    ASSUME NEW kind, NEW a, NEW base, NEW F, NEW q \in Seq(F), NEW g, Goes(kind, a, base, q, g)
    PROVE  Ends(kind, a, base, q, g[DOMAIN q])
<1> DEFINE n == Len(q)
           r == [k \in 0..n |-> g[1..k]]
<1>0. n \in Nat /\ DOMAIN q = 1..n
    OBVIOUS
<1>1. r[0] = base
    <2>1. g[{}] = base
        BY DEF Goes, After
    <2>2. 1..0 = {}
        OBVIOUS
    <2> QED
        BY <1>0, <2>1, <2>2
<1>2. ASSUME NEW k \in 1..n PROVE r[k] = Step(kind, a, r[k - 1], q[k])
    <2>1. Max(1..k) = k
        <3>1. k \in 1..k /\ \A y \in 1..k : k >= y
            BY <1>0
        <3>2. \A x \in 1..k : (\A y \in 1..k : x >= y) => x = k
            BY <1>0
        <3> QED
            BY <3>1, <3>2 DEF Max
    <2>2. (1..k) \ {k} = 1..(k - 1) /\ 1..k # {} /\ 1..k \subseteq DOMAIN q
        <3>1. k \in Nat /\ 1 <= k /\ k <= n
            BY <1>0
        <3>2. \A i : i \in (1..k) \ {k} <=> i \in 1..(k - 1)
            BY <3>1
        <3>3. 1 \in 1..k /\ \A i \in 1..k : i \in 1..n
            BY <1>0, <3>1
        <3> QED
            BY <1>0, <3>2, <3>3
    <2>3. g[1..k] = Step(kind, a, g[1..(k - 1)], q[k])
        <3>1. 1..k \in SUBSET DOMAIN q
            BY <2>2
        <3>2. g[1..k] = After(kind, a, base, q, g, 1..k)
            BY <3>1 DEF Goes
        <3> QED
            BY <2>1, <2>2, <3>2 DEF After
    <2> QED
        BY <1>0, <2>3
<1> HIDE DEF r
<1>3. r[n] = g[DOMAIN q]
    BY <1>0 DEF r
<1> QED
    BY <1>1, <1>2, <1>3 DEF Ends, Runs

LEMMA HearRuns ==
    ASSUME NEW z, NEW F, NEW q \in Seq(F) PROVE Ends("hear", None, z, q, Read(z, q))
<1> DEFINE Iter(h) == [T \in SUBSET DOMAIN q |-> IF T = {} THEN z
                          ELSE LET i == Max(T) IN Hear(h[T \ {i}], q[i])]
           g == CHOOSE h : h = Iter(h)
<1>1. Read(z, q) = g[DOMAIN q]
    BY Zenon DEF Read, FoldLeft, MapThenFoldSet
<1>2. \A h : h = Iter(h) <=> Goes("hear", None, z, q, h)
    BY DEF Goes, After, Step
<1>3. Goes("hear", None, z, q, g)
    <2> HIDE DEF Iter
    <2> QED
        BY <1>2, GoesExists
<1> HIDE DEF g
<1> QED
    BY <1>1, <1>3, GoesEnds

\* A run is told by where it starts and what it goes through.
LEMMA RunsAgree ==
    ASSUME NEW kind, NEW a, NEW base, NEW q, NEW n \in Nat,
           NEW r, Runs(kind, a, base, q, n, r), NEW t, Runs(kind, a, base, q, n, t)
    PROVE  r[n] = t[n]
<1> DEFINE good == {k \in 0..n : r[k] = t[k]}
<1>1. 0 \in good
    BY DEF Runs
<1>2. \A k \in 1..n : k - 1 \in good => k \in good
    BY DEF Runs
<1> HIDE DEF good
<1>3. n \in good
    BY <1>1, <1>2, Along
<1> QED
    BY <1>3 DEF good

LEMMA ReadNothing == ASSUME NEW z PROVE Read(z, <<>>) = z
<1> DEFINE q == <<>>
<1>1. q \in Seq({}) /\ Len(q) = 0
    OBVIOUS
<1> HIDE DEF q
<1>2. Ends("hear", None, z, q, Read(z, q))
    BY <1>1, HearRuns
<1>3. Read(z, q) = z
    BY <1>1, <1>2 DEF Ends, Runs
<1> QED
    BY <1>3 DEF q

\* Reading one frame more is hearing it.
LEMMA ReadMore ==
    ASSUME NEW z, NEW F, NEW q \in Seq(F), NEW m \in F
    PROVE  Read(z, Append(q, m)) = Hear(Read(z, q), m)
<1> DEFINE qm == Append(q, m)
           n == Len(q)
<1>1. /\ qm \in Seq(F) /\ Len(qm) = n + 1 /\ n \in Nat /\ qm[n + 1] = m
      /\ \A k \in 1..n : qm[k] = q[k]
    OBVIOUS
<1> HIDE DEF qm
<1>2. PICK r : Runs("hear", None, z, q, n, r) /\ Read(z, q) = r[n]
    BY HearRuns DEF Ends
<1>3. PICK t : Runs("hear", None, z, qm, n + 1, t) /\ Read(z, qm) = t[n + 1]
    BY <1>1, HearRuns DEF Ends
<1>4. t[n + 1] = Hear(t[n], m)
    <2>1. t[n + 1] = Step("hear", None, t[(n + 1) - 1], qm[n + 1])
        BY <1>1, <1>3 DEF Runs
    <2> QED
        BY <1>1, <2>1 DEF Step
<1>5. t[n] = r[n]
    <2>1. Runs("hear", None, z, q, n, t)
        BY <1>1, <1>3 DEF Runs
    <2>2. n \in Nat
        BY <1>1
    <2> HIDE DEF n
    <2> QED
        BY <1>2, <2>1, <2>2, RunsAgree
<1> QED
    BY <1>2, <1>3, <1>4, <1>5 DEF qm

(***************************************************************************)
(* What goes through which sequence, from where.                           *)
(***************************************************************************)
FailoverOf(s, f) ==
    LET missed == {e \in Entities : /\ Live(s, e) /\ s.ents[e].region = f.region
                                    /\ s.ents[e].owner = None /\ \A g \in f.grants : g.eid # e}
    IN  [s EXCEPT !.holder[f.region] = f.new, !.lapsed = @ \ {f.region},
                  !.serves[f.new] = IF f.new \in s.online THEN f.region ELSE @,
                  !.stranded = @ \cup missed]
BornIn(s, m) ==
    [s EXCEPT !.ents[m.eid] = [pos |-> m.pos, region |-> StripOf(m.pos), owner |-> None, epoch |-> 1],
              !.stranded = @ \ {m.eid}]
There(s, w) ==
    [s EXCEPT !.online = @ \cup {w}, !.aoi = @ \ {w}, !.serves[w] = conf.home[w], !.view[w] = {}]
Batched(s, w, q) == FoldLeft(LAMBDA t, u : Update(t, w, u), s, q)

LEMMA PropagateRuns ==
    ASSUME NEW s, NEW e, NEW F, SetToSeq(s.online) \in Seq(F)
    PROVE  Ends("propagate", e, s, SetToSeq(s.online), Propagate(s, e))
<1> DEFINE q == SetToSeq(s.online)
           b == s
           Iter(h) == [T \in SUBSET DOMAIN q |-> IF T = {} THEN b
                          ELSE LET i == Max(T) IN PropagateTo(h[T \ {i}], q[i], e)]
           y == CHOOSE h : h = Iter(h)
<1>1. Propagate(s, e) = y[DOMAIN q]
    BY Zenon DEF FoldLeft, MapThenFoldSet, Propagate, Over
<1> HIDE DEF q, b
<1>2. \A h : h = Iter(h) <=> Goes("propagate", e, b, q, h)
    BY DEF Goes, After, Step
<1>3. Goes("propagate", e, b, q, y)
    <2>1. q \in Seq(F)
        BY DEF q
    <2> HIDE DEF Iter
    <2> QED
        BY <1>2, <2>1, GoesExists
<1> HIDE DEF y
<1>4. Ends("propagate", e, b, q, y[DOMAIN q])
    <2>1. q \in Seq(F)
        BY DEF q
    <2> QED
        BY <1>3, <2>1, GoesEnds
<1> QED
    BY <1>1, <1>4 DEF q, b

LEMMA BornRuns ==
    ASSUME NEW s, NEW m, NEW F, SetToSeq(s.online) \in Seq(F)
    PROVE  Ends("appear", m.eid, BornIn(s, m), SetToSeq(s.online), Born(s, m))
<1> DEFINE q == SetToSeq(s.online)
           b == BornIn(s, m)
           Iter(h) == [T \in SUBSET DOMAIN q |-> IF T = {} THEN b
                          ELSE LET i == Max(T) IN ShowTo(h[T \ {i}], q[i], m.eid)]
           y == CHOOSE h : h = Iter(h)
<1>1. Born(s, m) = y[DOMAIN q]
    BY Zenon DEF FoldLeft, MapThenFoldSet, Born, Over, BornIn
<1> HIDE DEF q, b
<1>2. \A h : h = Iter(h) <=> Goes("appear", m.eid, b, q, h)
    BY DEF Goes, After, Step
<1>3. Goes("appear", m.eid, b, q, y)
    <2>1. q \in Seq(F)
        BY DEF q
    <2> HIDE DEF Iter
    <2> QED
        BY <1>2, <2>1, GoesExists
<1> HIDE DEF y
<1>4. Ends("appear", m.eid, b, q, y[DOMAIN q])
    <2>1. q \in Seq(F)
        BY DEF q
    <2> QED
        BY <1>3, <2>1, GoesEnds
<1> QED
    BY <1>1, <1>4 DEF q, b

LEMMA AdmittedRuns ==
    ASSUME NEW s, NEW w, NEW F, SetToSeq({e \in Entities : Live(s, e)}) \in Seq(F)
    PROVE  Ends("greet", w, Claim(There(s, w), w), SetToSeq({e \in Entities : Live(s, e)}), Admitted(s, w))
<1> DEFINE q == SetToSeq({e \in Entities : Live(s, e)})
           b == Claim(There(s, w), w)
           Iter(h) == [T \in SUBSET DOMAIN q |-> IF T = {} THEN b
                          ELSE LET i == Max(T) IN ShowTo(h[T \ {i}], w, q[i])]
           y == CHOOSE h : h = Iter(h)
<1>1. Admitted(s, w) = y[DOMAIN q]
    BY Zenon DEF FoldLeft, MapThenFoldSet, Admitted, There, Over
<1> HIDE DEF q, b
<1>2. \A h : h = Iter(h) <=> Goes("greet", w, b, q, h)
    BY DEF Goes, After, Step
<1>3. Goes("greet", w, b, q, y)
    <2>1. q \in Seq(F)
        BY DEF q
    <2> HIDE DEF Iter
    <2> QED
        BY <1>2, <2>1, GoesExists
<1> HIDE DEF y
<1>4. Ends("greet", w, b, q, y[DOMAIN q])
    <2>1. q \in Seq(F)
        BY DEF q
    <2> QED
        BY <1>3, <2>1, GoesEnds
<1> QED
    BY <1>1, <1>4 DEF q, b

LEMMA InterestRuns ==
    ASSUME NEW s, NEW w, NEW F,
           SetToSeq({e \in Entities : Live(s, e) /\ e \notin s.view[w]}) \in Seq(F)
    PROVE  Ends("unseen", w, [s EXCEPT !.aoi = @ \cup {w}], SetToSeq({e \in Entities : Live(s, e) /\ e \notin s.view[w]}), InterestArrives(s, w))
<1> DEFINE q == SetToSeq({e \in Entities : Live(s, e) /\ e \notin s.view[w]})
           b == [s EXCEPT !.aoi = @ \cup {w}]
           Iter(h) == [T \in SUBSET DOMAIN q |-> IF T = {} THEN b
                          ELSE LET i == Max(T) IN SendFull(h[T \ {i}], w, q[i])]
           y == CHOOSE h : h = Iter(h)
<1>1. InterestArrives(s, w) = y[DOMAIN q]
    BY Zenon DEF FoldLeft, MapThenFoldSet, InterestArrives, Over
<1> HIDE DEF q, b
<1>2. \A h : h = Iter(h) <=> Goes("unseen", w, b, q, h)
    BY DEF Goes, After, Step
<1>3. Goes("unseen", w, b, q, y)
    <2>1. q \in Seq(F)
        BY DEF q
    <2> HIDE DEF Iter
    <2> QED
        BY <1>2, <2>1, GoesExists
<1> HIDE DEF y
<1>4. Ends("unseen", w, b, q, y[DOMAIN q])
    <2>1. q \in Seq(F)
        BY DEF q
    <2> QED
        BY <1>3, <2>1, GoesEnds
<1> QED
    BY <1>1, <1>4 DEF q, b

LEMMA FailoverRuns ==
    ASSUME NEW s, NEW f, NEW F, SetToSeq(f.grants) \in Seq(F)
    PROVE  Ends("regrant", f.new, FailoverOf(s, f), SetToSeq(f.grants), ApplyFailover(s, f))
<1> DEFINE q == SetToSeq(f.grants)
           b == FailoverOf(s, f)
           Iter(h) == [T \in SUBSET DOMAIN q |-> IF T = {} THEN b
                          ELSE LET i == Max(T) IN Regrant(h[T \ {i}], f.new, q[i])]
           y == CHOOSE h : h = Iter(h)
<1>1. ApplyFailover(s, f) = y[DOMAIN q]
    BY Zenon DEF FoldLeft, MapThenFoldSet, ApplyFailover, FailoverOf, Over
<1> HIDE DEF q, b
<1>2. \A h : h = Iter(h) <=> Goes("regrant", f.new, b, q, h)
    BY DEF Goes, After, Step
<1>3. Goes("regrant", f.new, b, q, y)
    <2>1. q \in Seq(F)
        BY DEF q
    <2> HIDE DEF Iter
    <2> QED
        BY <1>2, <2>1, GoesExists
<1> HIDE DEF y
<1>4. Ends("regrant", f.new, b, q, y[DOMAIN q])
    <2>1. q \in Seq(F)
        BY DEF q
    <2> QED
        BY <1>3, <2>1, GoesEnds
<1> QED
    BY <1>1, <1>4 DEF q, b

LEMMA BatchRuns ==
    ASSUME NEW s, NEW w, NEW F, NEW us \in Seq(F)
    PROVE  Ends("update", w, s, us, Batched(s, w, us))
<1> DEFINE q == us
           b == s
           Iter(h) == [T \in SUBSET DOMAIN q |-> IF T = {} THEN b
                          ELSE LET i == Max(T) IN Update(h[T \ {i}], w, q[i])]
           y == CHOOSE h : h = Iter(h)
<1>1. Batched(s, w, us) = y[DOMAIN q]
    BY Zenon DEF FoldLeft, MapThenFoldSet, Batched
<1> HIDE DEF q, b
<1>2. \A h : h = Iter(h) <=> Goes("update", w, b, q, h)
    BY DEF Goes, After, Step
<1>3. Goes("update", w, b, q, y)
    <2>1. q \in Seq(F)
        BY DEF q
    <2> HIDE DEF Iter
    <2> QED
        BY <1>2, <2>1, GoesExists
<1> HIDE DEF y
<1>4. Ends("update", w, b, q, y[DOMAIN q])
    <2>1. q \in Seq(F)
        BY DEF q
    <2> QED
        BY <1>3, <2>1, GoesEnds
<1> QED
    BY <1>1, <1>4 DEF q, b

LEMMA RefusedRuns ==
    ASSUME NEW s, NEW F, s.writes \in Seq(F)
    PROVE  Ends("refuse", None, [s EXCEPT !.writes = <<>>, !.degraded = TRUE], s.writes, RefuseWrites(s))
<1> DEFINE q == s.writes
           b == [s EXCEPT !.writes = <<>>, !.degraded = TRUE]
           Iter(h) == [T \in SUBSET DOMAIN q |-> IF T = {} THEN b
                          ELSE LET i == Max(T) IN Reject(h[T \ {i}], q[i].writer, q[i].eid, "wal_sync_failed")]
           y == CHOOSE h : h = Iter(h)
<1>1. RefuseWrites(s) = y[DOMAIN q]
    BY Zenon DEF FoldLeft, MapThenFoldSet, RefuseWrites
<1> HIDE DEF q, b
<1>2. \A h : h = Iter(h) <=> Goes("refuse", None, b, q, h)
    BY DEF Goes, After, Step
<1>3. Goes("refuse", None, b, q, y)
    <2>1. q \in Seq(F)
        BY DEF q
    <2> HIDE DEF Iter
    <2> QED
        BY <1>2, <2>1, GoesExists
<1> HIDE DEF y
<1>4. Ends("refuse", None, b, q, y[DOMAIN q])
    <2>1. q \in Seq(F)
        BY DEF q
    <2> QED
        BY <1>3, <2>1, GoesEnds
<1> QED
    BY <1>1, <1>4 DEF q, b

LEMMA WrittenRuns ==
    ASSUME NEW s, NEW F, s.writes \in Seq(F)
    PROVE  Ends("write", None, [s EXCEPT !.writes = <<>>], s.writes, ApplyWrites(s))
<1> DEFINE q == s.writes
           b == [s EXCEPT !.writes = <<>>]
           Iter(h) == [T \in SUBSET DOMAIN q |-> IF T = {} THEN b
                          ELSE LET i == Max(T) IN ApplyWrite(h[T \ {i}], q[i])]
           y == CHOOSE h : h = Iter(h)
<1>1. ApplyWrites(s) = y[DOMAIN q]
    BY Zenon DEF FoldLeft, MapThenFoldSet, ApplyWrites
<1> HIDE DEF q, b
<1>2. \A h : h = Iter(h) <=> Goes("write", None, b, q, h)
    BY DEF Goes, After, Step
<1>3. Goes("write", None, b, q, y)
    <2>1. q \in Seq(F)
        BY DEF q
    <2> HIDE DEF Iter
    <2> QED
        BY <1>2, <2>1, GoesExists
<1> HIDE DEF y
<1>4. Ends("write", None, b, q, y[DOMAIN q])
    <2>1. q \in Seq(F)
        BY DEF q
    <2> QED
        BY <1>3, <2>1, GoesEnds
<1> QED
    BY <1>1, <1>4 DEF q, b

LEMMA HandoffsRun ==
    ASSUME NEW s, NEW F, s.handoffs \in Seq(F)
    PROVE  Ends("handoff", None, [s EXCEPT !.handoffs = <<>>], s.handoffs, ApplyHandoffs(s))
<1> DEFINE q == s.handoffs
           b == [s EXCEPT !.handoffs = <<>>]
           Iter(h) == [T \in SUBSET DOMAIN q |-> IF T = {} THEN b
                          ELSE LET i == Max(T) IN ApplyHandoff(h[T \ {i}], q[i])]
           y == CHOOSE h : h = Iter(h)
<1>1. ApplyHandoffs(s) = y[DOMAIN q]
    BY Zenon DEF FoldLeft, MapThenFoldSet, ApplyHandoffs
<1> HIDE DEF q, b
<1>2. \A h : h = Iter(h) <=> Goes("handoff", None, b, q, h)
    BY DEF Goes, After, Step
<1>3. Goes("handoff", None, b, q, y)
    <2>1. q \in Seq(F)
        BY DEF q
    <2> HIDE DEF Iter
    <2> QED
        BY <1>2, <2>1, GoesExists
<1> HIDE DEF y
<1>4. Ends("handoff", None, b, q, y[DOMAIN q])
    <2>1. q \in Seq(F)
        BY DEF q
    <2> QED
        BY <1>3, <2>1, GoesEnds
<1> QED
    BY <1>1, <1>4 DEF q, b

LEMMA FailoversRun ==
    ASSUME NEW s, NEW F, s.failovers \in Seq(F)
    PROVE  Ends("failover", None, [s EXCEPT !.failovers = <<>>], s.failovers, ApplyFailovers(s))
<1> DEFINE q == s.failovers
           b == [s EXCEPT !.failovers = <<>>]
           Iter(h) == [T \in SUBSET DOMAIN q |-> IF T = {} THEN b
                          ELSE LET i == Max(T) IN ApplyFailover(h[T \ {i}], q[i])]
           y == CHOOSE h : h = Iter(h)
<1>1. ApplyFailovers(s) = y[DOMAIN q]
    BY Zenon DEF FoldLeft, MapThenFoldSet, ApplyFailovers
<1> HIDE DEF q, b
<1>2. \A h : h = Iter(h) <=> Goes("failover", None, b, q, h)
    BY DEF Goes, After, Step
<1>3. Goes("failover", None, b, q, y)
    <2>1. q \in Seq(F)
        BY DEF q
    <2> HIDE DEF Iter
    <2> QED
        BY <1>2, <2>1, GoesExists
<1> HIDE DEF y
<1>4. Ends("failover", None, b, q, y[DOMAIN q])
    <2>1. q \in Seq(F)
        BY DEF q
    <2> QED
        BY <1>3, <2>1, GoesEnds
<1> QED
    BY <1>1, <1>4 DEF q, b

LEMMA SetToSeqIs == ASSUME NEW S, IsFiniteSet(S) PROVE SetToSeq(S) \in Seq(S) /\ \A x \in S : \E i \in DOMAIN SetToSeq(S) : SetToSeq(S)[i] = x
<1> DEFINE n == Cardinality(S)
<1>1. n \in Nat /\ ExistsBijection(1..n, S)
    BY FS_CardinalityType
<1>2. PICK f \in [1..n -> S] : IsInjective(f)
    BY <1>1 DEF ExistsBijection, Bijection, Injection, IsInjective
<1> DEFINE g == SetToSeq(S)
<1>3. g \in [1..n -> S] /\ IsInjective(g)
    BY <1>2 DEF SetToSeq
<1> HIDE DEF g
<1>4. g \in Seq(S) /\ DOMAIN g = 1..n
    BY <1>1, <1>3
<1>5. ASSUME NEW x \in S PROVE \E i \in DOMAIN g : g[i] = x
    <2> DEFINE R == {g[i] : i \in 1..n}
    <2>1. R \subseteq S
        BY <1>3
    <2>2. IsFiniteSet(1..n) /\ Cardinality(1..n) = n
        BY <1>1, FS_Interval
    <2>3. g \in Bijection(1..n, R)
        BY <1>3 DEF Bijection, Injection, Surjection, IsInjective
    <2>4. ExistsBijection(1..n, R)
        BY <2>3 DEF ExistsBijection
    <2>5. IsFiniteSet(R) /\ Cardinality(R) = n
        <3> HIDE DEF R, n
        <3> QED
            BY <2>2, <2>4, FS_Bijection
    <2>6. R = S
        <3> HIDE DEF R
        <3> QED
            BY <2>1, <2>5, FS_Subset
    <2> QED
        BY <2>6, <1>4
<1> QED
    BY <1>4, <1>5 DEF g

(***************************************************************************)
(* What each frame tells.                                                  *)
(***************************************************************************)
LEMMA NoneIs ==
    /\ None \notin Workers /\ None \notin Entities /\ None \notin Points
    /\ None \notin Sides /\ None \notin Placed /\ None \notin Bots
    /\ IsFiniteSet(Workers) /\ IsFiniteSet(Entities)
BY ZoneWorkerConstants

LEMMA Names4 ==
    ASSUME NEW e \in Entities
    PROVE  /\ [op |-> "Add", eid |-> e] \in Frame /\ [op |-> "Revoke", eid |-> e] \in Frame
           /\ [op |-> "Remove", eid |-> e] \in Frame
           /\ \A x \in Points : [op |-> "Pos", eid |-> e, pos |-> x] \in Frame
           /\ \A n \in Nat : [op |-> "Imminent", eid |-> e, epoch |-> n] \in Frame
           /\ \A n \in Nat, x \in Points \cup {None} :
                  [op |-> "Grant", eid |-> e, epoch |-> n, at |-> x] \in Frame
           /\ \A y \in Reasons : [op |-> "Reject", eid |-> e, reason |-> y] \in Frame
           /\ [op |-> "Reject", eid |-> None, reason |-> "degraded"] \in Frame
BY DEF Frame

LEMMA HearAdd ==
    ASSUME NEW z \in Mind, NEW e \in Entities
    PROVE  LET t == Hear(z, [op |-> "Add", eid |-> e]) IN
           /\ t \in Mind /\ t.body = z.body
           /\ \A x \in Entities : x # e => t.mirror[x] = z.mirror[x]
BY DEF Hear, Mind, Origin, Points

LEMMA HearPos ==
    ASSUME NEW z \in Mind, NEW e \in Entities, NEW x \in Points
    PROVE  LET t == Hear(z, [op |-> "Pos", eid |-> e, pos |-> x]) IN
           /\ t \in Mind /\ t.body = z.body /\ t.mirror[e] = x
           /\ \A y \in Entities : y # e => t.mirror[y] = z.mirror[y]
BY DEF Hear, Mind

LEMMA HearGrant ==
    ASSUME NEW z \in Mind, NEW e \in Entities, NEW n \in Nat, NEW at
    PROVE  LET t == Hear(z, [op |-> "Grant", eid |-> e, epoch |-> n, at |-> at]) IN
           /\ t \in Mind /\ t.mirror = z.mirror
           /\ \A x \in Entities : x # e => t.body[x] = z.body[x]
           /\ t.body[e] # None /\ t.body[e].epoch = n
           /\ z.body[e] = None /\ z.mirror[e] # None => t.body[e].pos = z.mirror[e]
<1> DEFINE m == [op |-> "Grant", eid |-> e, epoch |-> n, at |-> at]
           known == IF z.mirror[e] = None THEN Origin ELSE z.mirror[e]
<1>1. z.body \in [Entities -> Bots \cup {None}] /\ z.mirror \in [Entities -> Points \cup {None}]
    BY DEF Mind
<1>2. known \in Points
    BY <1>1 DEF Origin, Points
<1>3. CASE z.body[e] # None
    <2> DEFINE b == [z.body[e] EXCEPT !.epoch = n]
    <2>1. Hear(z, m) = [z EXCEPT !.body[e] = b]
        BY <1>3 DEF Hear
    <2>2. z.body[e] \in Bots
        BY <1>1, <1>3
    <2>3. b \in Bots /\ b.epoch = n
        BY <2>2 DEF Bots
    <2>4. b # None
        BY <2>3, NoneIs
    <2> HIDE DEF b
    <2> QED
        BY <1>1, <1>3, <2>1, <2>3, <2>4 DEF Mind
<1>4. CASE z.body[e] = None
    <2>1. Hear(z, m) = [z EXCEPT !.body[e] = [pos |-> known, epoch |-> n]]
        BY <1>4 DEF Hear
    <2>2. [pos |-> known, epoch |-> n] \in Bots
        BY <1>2 DEF Bots
    <2> QED
        BY <1>1, <1>4, <2>1, <2>2, NoneIs DEF Mind
<1> QED
    BY <1>3, <1>4

LEMMA HearGone ==
    ASSUME NEW z \in Mind, NEW e \in Entities, NEW op \in {"Revoke", "Remove"}
    PROVE  LET t == Hear(z, [op |-> op, eid |-> e]) IN
           /\ t \in Mind /\ t.body[e] = None
           /\ \A x \in Entities : x # e => t.body[x] = z.body[x] /\ t.mirror[x] = z.mirror[x]
           /\ op = "Revoke" => t.mirror = z.mirror
BY DEF Hear, Mind

LEMMA HearDrop ==
    ASSUME NEW z \in Mind, NEW e \in Entities
    PROVE  LET t == Hear(z, [op |-> "Reject", eid |-> e, reason |-> "not authoritative"]) IN
           /\ t \in Mind /\ t.mirror = z.mirror /\ t.body[e] = None
           /\ \A x \in Entities : x # e => t.body[x] = z.body[x]
BY DEF Hear, Rejected, Mind

LEMMA HearImminent ==
    ASSUME NEW z, NEW e, NEW n
    PROVE  Hear(z, [op |-> "Imminent", eid |-> e, epoch |-> n]) = z
BY DEF Hear

(***************************************************************************)
(* Telling a worker.                                                       *)
(***************************************************************************)
LEMMA ConcatAppend ==
    ASSUME NEW F, NEW q \in Seq(F), NEW r \in Seq(F), NEW m \in F
    PROVE  q \o Append(r, m) = Append(q \o r, m)
<1> DEFINE x == q \o Append(r, m)
           y == Append(q \o r, m)
<1>1. x \in Seq(F) /\ y \in Seq(F) /\ Len(x) = Len(q) + Len(r) + 1 /\ Len(y) = Len(x)
    OBVIOUS
<1>2. \A i \in 1..Len(x) : x[i] = y[i]
    OBVIOUS
<1> HIDE DEF x, y
<1>3. x = y
    BY <1>1, <1>2
<1> QED
    BY <1>3 DEF x, y

\* t is s, and w is told m.
Told(s, t, w, m) == t.online = s.online /\ t.out = [s.out EXCEPT ![w] = Append(@, m)]

LEMMA Telling ==
    ASSUME NEW c, NEW s \in Brokers, NEW t \in Brokers, down \in [Workers -> Seq(Frame)],
           NEW w \in s.online, NEW m \in Frame, Told(s, t, w, m), Adopts(c, s),
           m.op = "Grant" /\ m.at # None /\ Ear(c, s, w).body[m.eid] = None =>
               Hear(Ear(c, s, w), m).body[m.eid].pos = m.at
    PROVE  /\ Ear(c, t, w) = Hear(Ear(c, s, w), m)
           /\ \A v \in Workers : v # w => Ear(c, t, v) = Ear(c, s, v)
           /\ Adopts(c, t)
<1>1. w \in Workers /\ s.out \in [Workers -> Seq(Frame)]
    BY DEF Brokers
<1>t. t.online = s.online /\ t.out = [s.out EXCEPT ![w] = Append(@, m)]
    BY DEF Told
<1>2. \A v \in Workers : v # w => Chan(t, v) = Chan(s, v)
    BY <1>1, <1>t DEF Chan
<1>3. Chan(t, w) = Append(Chan(s, w), m) /\ Chan(s, w) \in Seq(Frame)
    <2> DEFINE d == down[w]
               o == s.out[w]
    <2>1. d \in Seq(Frame) /\ o \in Seq(Frame) /\ t.out[w] = Append(o, m)
        BY <1>1, <1>t
    <2>2. Chan(s, w) = d \o o /\ Chan(t, w) = d \o Append(o, m)
        BY <2>1 DEF Chan
    <2> HIDE DEF d, o
    <2>3. d \o Append(o, m) = Append(d \o o, m)
        <3>1. \A x, y \in Seq(Frame) : x \o Append(y, m) = Append(x \o y, m)
            BY ConcatAppend
        <3> QED
            BY <2>1, <3>1
    <2>4. d \o o \in Seq(Frame)
        BY <2>1
    <2> QED
        BY <2>2, <2>3, <2>4
<1>4. Ear(c, t, w) = Hear(Ear(c, s, w), m)
    BY <1>3, ReadMore DEF Ear
<1>5. \A v \in Workers : v # w => Ear(c, t, v) = Ear(c, s, v)
    BY <1>2 DEF Ear
<1>6. ASSUME NEW v \in t.online, NEW n \in 1..Len(Chan(t, v)),
             Chan(t, v)[n].op = "Grant", Chan(t, v)[n].at # None,
             Read(c.mind[v], SubSeq(Chan(t, v), 1, n - 1)).body[Chan(t, v)[n].eid] = None
      PROVE  Hear(Read(c.mind[v], SubSeq(Chan(t, v), 1, n - 1)), Chan(t, v)[n]).body[Chan(t, v)[n].eid].pos
             = Chan(t, v)[n].at
    <2>0. v \in s.online /\ v \in Workers
        BY <1>t DEF Brokers
    <2>1. CASE v # w
        BY <1>2, <1>6, <2>0, <2>1 DEF Adopts
    <2>2. CASE v = w
        <3> DEFINE q == Chan(s, w)
        <3>1. q \in Seq(Frame) /\ Chan(t, v) = Append(q, m) /\ Len(Chan(t, v)) = Len(q) + 1
            BY <1>3, <2>2
        <3> HIDE DEF q
        <3>2. CASE n \in 1..Len(q)
            <4>1. Append(q, m)[n] = q[n] /\ SubSeq(Append(q, m), 1, n - 1) = SubSeq(q, 1, n - 1)
                BY <3>1, <3>2
            <4>2. Chan(t, v)[n] = Chan(s, w)[n] /\ SubSeq(Chan(t, v), 1, n - 1) = SubSeq(Chan(s, w), 1, n - 1)
                  /\ n \in 1..Len(Chan(s, w))
                BY <3>1, <3>2, <4>1 DEF q
            <4> DEFINE f == Chan(s, w)[n]
                       z == Read(c.mind[w], SubSeq(Chan(s, w), 1, n - 1))
            <4>3. f.op = "Grant" /\ f.at # None /\ z.body[f.eid] = None => Hear(z, f).body[f.eid].pos = f.at
                BY <4>2 DEF Adopts
            <4>4. Chan(t, v)[n] = f /\ Read(c.mind[v], SubSeq(Chan(t, v), 1, n - 1)) = z
                BY <2>2, <4>2
            <4> HIDE DEF f, z
            <4> QED
                BY <1>6, <4>3, <4>4
        <3>3. CASE n = Len(q) + 1
            <4>1. Append(q, m)[n] = m /\ SubSeq(Append(q, m), 1, n - 1) = q
                BY <3>1, <3>3
            <4>2. Chan(t, v)[n] = m /\ Read(c.mind[v], SubSeq(Chan(t, v), 1, n - 1)) = Ear(c, s, w)
                BY <2>2, <3>1, <4>1 DEF q, Ear
            <4> QED
                BY <1>6, <4>2
        <3> QED
            BY <3>1, <3>2, <3>3
    <2> QED
        BY <2>1, <2>2
<1>7. Adopts(c, t)
    BY <1>6 DEF Adopts
<1> QED
    BY <1>4, <1>5, <1>7

\* Nothing is told.
LEMMA Silent ==
    ASSUME NEW c, NEW s, NEW t, t.online = s.online, t.out = s.out
    PROVE  /\ \A v : Ear(c, t, v) = Ear(c, s, v)
           /\ Adopts(c, s) => Adopts(c, t)
BY DEF Ear, Chan, Adopts

(***************************************************************************)
(* What keeps the invariant of a worker and an entity.                     *)
(***************************************************************************)
Alike(c, s, t, w, e) ==
    /\ Ear(c, t, w).body[e] = Ear(c, s, w).body[e] /\ Ear(c, t, w).mirror[e] = Ear(c, s, w).mirror[e]
    /\ t.ents[e] = s.ents[e] /\ (Live(s, e) => Responsible(t, e) = Responsible(s, e))
    /\ e \in t.view[w] <=> e \in s.view[w]
    /\ e \in s.stranded => e \in t.stranded
    /\ <<w, e>> \in s.untold => <<w, e>> \in t.untold
    /\ <<w, e>> \in s.blurred => <<w, e>> \in t.blurred
\* No entity, nothing staged and nobody's place has changed.
Rest(s, t) ==
    /\ t.online = s.online /\ t.ents = s.ents /\ t.holder = s.holder
    /\ t.writes = s.writes /\ t.handoffs = s.handoffs /\ t.failovers = s.failovers

LEMMA RestSelf == ASSUME NEW s PROVE Rest(s, s)
BY DEF Rest

LEMMA RestOn == ASSUME NEW s, NEW t, NEW u, Rest(s, t), Rest(t, u) PROVE Rest(s, u)
BY DEF Rest

LEMMA RestIs ==
    ASSUME NEW s, NEW t, Rest(s, t)
    PROVE  /\ t.online = s.online /\ t.ents = s.ents /\ (StagedLive(s) => StagedLive(t))
           /\ \A e : Responsible(t, e) = Responsible(s, e) /\ Live(t, e) = Live(s, e)
BY DEF Rest, StagedLive, Responsible, HolderOf, Live

LEMMA AlikeKeeps ==
    ASSUME NEW c, NEW s, NEW t, NEW w, NEW e, Alike(c, s, t, w, e)
    PROVE  /\ Shown(s, w, e) => Shown(t, w, e)
           /\ OwnOnly(c, s, w, e) => OwnOnly(c, t, w, e)
           /\ AllOwn(c, s, w, e) => AllOwn(c, t, w, e)
           /\ Placid(c, s, w, e) => Placid(c, t, w, e)
<1>1. Live(t, e) <=> Live(s, e)
    BY DEF Alike, Live
<1> QED
    BY <1>1 DEF Alike, Shown, OwnOnly, AllOwn, Placid, Simulates

Kept(c, r, r2, q, q2, p, p2, s, t, w, e) ==
    \/ /\ Alike(c, s, t, w, e)
       /\ (<<w, e>> \in r => <<w, e>> \in r2) /\ (<<w, e>> \in q => <<w, e>> \in q2)
       /\ (<<w, e>> \in p => <<w, e>> \in p2)
    \/ /\ Shown(t, w, e)
       /\ <<w, e>> \notin r2 => OwnOnly(c, t, w, e)
       /\ <<w, e>> \notin q2 => AllOwn(c, t, w, e)
       /\ <<w, e>> \notin p2 => Placid(c, t, w, e)

LEMMA Keeps ==
    ASSUME NEW c, NEW r, NEW r2, NEW q, NEW q2, NEW p, NEW p2, NEW s, Holds(c, r, q, p, s),
           NEW t \in Brokers, t.online = s.online, StagedLive(t), Adopts(c, t),
           \A v \in Workers : Ear(c, t, v) \in Mind,
           \A v \in s.online, x \in Entities : Kept(c, r, r2, q, q2, p, p2, s, t, v, x)
    PROVE  Holds(c, r2, q2, p2, t)
<1>1. ASSUME NEW v \in s.online, NEW x \in Entities
      PROVE  /\ Shown(t, v, x)
             /\ <<v, x>> \notin r2 => OwnOnly(c, t, v, x)
             /\ <<v, x>> \notin q2 => AllOwn(c, t, v, x)
             /\ <<v, x>> \notin p2 => Placid(c, t, v, x)
    <2>1. Kept(c, r, r2, q, q2, p, p2, s, t, v, x)
        OBVIOUS
    <2>2. /\ Shown(s, v, x)
          /\ <<v, x>> \notin r => OwnOnly(c, s, v, x)
          /\ <<v, x>> \notin q => AllOwn(c, s, v, x)
          /\ <<v, x>> \notin p => Placid(c, s, v, x)
        BY DEF Holds, Sound
    <2> QED
        BY <2>1, <2>2, AlikeKeeps DEF Kept
<1>2. down \in [Workers -> Seq(Frame)]
    BY DEF Holds, Sound
<1> QED
    BY <1>1, <1>2 DEF Holds, Sound

LEMMA HoldsIs ==
    ASSUME NEW c, NEW r, NEW q, NEW p, NEW s, Holds(c, r, q, p, s)
    PROVE  /\ s \in Brokers /\ StagedLive(s) /\ down \in [Workers -> Seq(Frame)] /\ Adopts(c, s)
           /\ s.online \subseteq Workers
           /\ \A w \in Workers : Ear(c, s, w) \in Mind
           /\ \A w \in s.online, e \in Entities :
                 /\ Shown(s, w, e)
                 /\ <<w, e>> \notin r => OwnOnly(c, s, w, e)
                 /\ <<w, e>> \notin q => AllOwn(c, s, w, e)
                 /\ <<w, e>> \notin p => Placid(c, s, w, e)
BY DEF Holds, Sound, Brokers

LEMMA HoldsAt ==
    ASSUME NEW c, NEW r, NEW q, NEW p, NEW s, Holds(c, r, q, p, s), NEW w \in s.online,
           NEW e \in Entities
    PROVE  /\ w \in Workers /\ Shown(s, w, e)
           /\ <<w, e>> \notin r => OwnOnly(c, s, w, e)
           /\ <<w, e>> \notin q => AllOwn(c, s, w, e)
           /\ <<w, e>> \notin p => Placid(c, s, w, e)
BY HoldsIs

LEMMA HoldsOwn ==
    ASSUME NEW c, NEW q, NEW p, NEW s, Holds(c, {}, q, p, s), NEW w \in s.online,
           NEW e \in Entities
    PROVE  w \in Workers /\ OwnOnly(c, s, w, e)
<1> DEFINE r == {}
<1>1. <<w, e>> \notin r
    OBVIOUS
<1>2. Holds(c, r, q, p, s)
    OBVIOUS
<1> HIDE DEF r
<1> QED
    BY <1>1, <1>2, HoldsAt

LEMMA HoldsPlacid ==
    ASSUME NEW c, NEW r, NEW q, NEW s, Holds(c, r, q, {}, s), NEW w \in s.online,
           NEW e \in Entities
    PROVE  Placid(c, s, w, e)
<1> DEFINE p == {}
<1>1. <<w, e>> \notin p
    OBVIOUS
<1>2. Holds(c, r, q, p, s)
    OBVIOUS
<1> HIDE DEF p
<1> QED
    BY <1>1, <1>2, HoldsAt

\* What answers for e has been asked of everybody.
LEMMA HoldsFewer ==
    ASSUME NEW c, NEW r, NEW q, NEW p, NEW s, Holds(c, r, q, p, s), NEW e \in Entities,
           \A v \in s.online : AllOwn(c, s, v, e), NEW q2, q \subseteq q2 \cup (Workers \X {e})
    PROVE  Holds(c, r, q2, p, s)
<1>1. ASSUME NEW v \in s.online, NEW x \in Entities, <<v, x>> \notin q2 PROVE AllOwn(c, s, v, x)
    <2>1. CASE x = e
        BY <2>1
    <2>2. CASE x # e
        <3>1. <<v, x>> \notin q
            BY <1>1, <2>2
        <3> QED
            BY <3>1, HoldsAt
    <2> QED
        BY <2>1, <2>2
<1> QED
    BY <1>1 DEF Holds

LEMMA EmitIs ==
    ASSUME NEW s \in Brokers, NEW w \in s.online, NEW m \in Frame
    PROVE  LET t == Emit(s, w, m) IN
           /\ t \in Brokers /\ Rest(s, t) /\ Told(s, t, w, m) /\ t.view = s.view
           /\ t.stranded = s.stranded /\ t.untold = s.untold /\ t.blurred = s.blurred
<1> DEFINE o == [s.out EXCEPT ![w] = Append(@, m)]
           t == [s EXCEPT !.out = o]
<1>1. s.out \in [Workers -> Seq(Frame)] /\ w \in Workers
    BY DEF Brokers
<1>2. o \in [Workers -> Seq(Frame)]
    <2>1. s.out[w] \in Seq(Frame)
        BY <1>1
    <2>2. Append(s.out[w], m) \in Seq(Frame)
        BY <2>1
    <2> QED
        BY <1>1, <2>2
<1>3. Emit(s, w, m) = t
    BY DEF Brokers, Emit
<1>4. t.out = o
    BY DEF Brokers
<1>5. Told(s, t, w, m)
    BY <1>4 DEF Told, Brokers
<1> HIDE DEF o
<1>6. t \in Brokers /\ Rest(s, t) /\ t.view = s.view
      /\ t.stranded = s.stranded /\ t.untold = s.untold /\ t.blurred = s.blurred
    BY <1>2 DEF Brokers, Rest
<1> QED
    BY <1>3, <1>5, <1>6

\* A frame that tells nothing.
LEMMA EmptyFrameKeeps ==
    ASSUME NEW c, NEW r, NEW q, NEW p, NEW s, Holds(c, r, q, p, s), NEW w, NEW m \in Frame,
           m.op # "Grant", \A z : Hear(z, m) = z
    PROVE  Holds(c, r, q, p, Emit(s, w, m)) /\ Rest(s, Emit(s, w, m))
<1>1. CASE w \notin s.online
    <2>1. Emit(s, w, m) = s
        BY <1>1 DEF Emit
    <2> QED
        BY <2>1, RestSelf
<1>2. CASE w \in s.online
    <2> DEFINE t == Emit(s, w, m)
    <2>1. s \in Brokers /\ down \in [Workers -> Seq(Frame)] /\ Adopts(c, s) /\ w \in Workers
          /\ StagedLive(s) /\ \A v \in Workers : Ear(c, s, v) \in Mind
        BY <1>2, HoldsIs
    <2>2. /\ t \in Brokers /\ Rest(s, t) /\ Told(s, t, w, m) /\ t.view = s.view
          /\ t.stranded = s.stranded /\ t.untold = s.untold /\ t.blurred = s.blurred
        BY <1>2, <2>1, EmitIs
    <2> HIDE DEF t
    <2>4. Adopts(c, t) /\ \A v \in Workers : Ear(c, t, v) = Ear(c, s, v)
        BY <1>2, <2>1, <2>2, Telling
    <2>5. \A v \in s.online, x \in Entities : Kept(c, r, r, q, q, p, p, s, t, v, x)
        BY <2>1, <2>2, <2>4, RestIs DEF Kept, Alike, Brokers
    <2>6. Holds(c, r, q, p, t)
        BY <2>1, <2>2, <2>4, <2>5, Keeps, RestIs
    <2> QED
        BY <2>2, <2>6 DEF t
<1> QED
    BY <1>1, <1>2

LEMMA StrandKeeps ==
    ASSUME NEW c, NEW r, NEW q, NEW p, NEW s, Holds(c, r, q, p, s), NEW e \in Entities
    PROVE  /\ Holds(c, r, q \ (Workers \X {e}), p, Strand(s, e)) /\ Rest(s, Strand(s, e))
           /\ Strand(s, e).view = s.view
<1> DEFINE t == Strand(s, e)
<1>1. s \in Brokers /\ Adopts(c, s) /\ StagedLive(s) /\ \A v \in Workers : Ear(c, s, v) \in Mind
    BY HoldsIs
<1>2. /\ t \in Brokers /\ Rest(s, t) /\ t.out = s.out
      /\ t.view = s.view /\ t.stranded = s.stranded \cup {e} /\ t.untold = s.untold /\ t.blurred = s.blurred
    BY <1>1 DEF Brokers, Strand, Rest
<1> HIDE DEF t
<1>3. Adopts(c, t) /\ \A v \in Workers : Ear(c, t, v) = Ear(c, s, v)
    BY <1>1, <1>2, Silent DEF Rest
<1> DEFINE q2 == q \ (Workers \X {e})
<1>4. ASSUME NEW v \in s.online, NEW x \in Entities
      PROVE  Kept(c, r, r, q, q2, p, p, s, t, v, x)
    <2>1. Alike(c, s, t, v, x)
        BY <1>1, <1>2, <1>3, RestIs DEF Alike, Brokers
    <2>2. CASE x # e
        BY <2>1, <2>2 DEF Kept
    <2>3. CASE x = e
        <3>1. AllOwn(c, t, v, x)
            BY <1>2, <2>3 DEF AllOwn
        <3> QED
            BY <2>1, <3>1, AlikeKeeps, HoldsIs DEF Kept
    <2> QED
        BY <2>2, <2>3
<1>5. Holds(c, r, q2, p, t)
    BY <1>1, <1>2, <1>3, <1>4, Keeps, RestIs
<1> QED
    BY <1>2, <1>5 DEF t

(***************************************************************************)
(* What the broker tells keeps the invariant.                              *)
(***************************************************************************)
\* A position that is sent is the one the worker has, and one that is shed is blurred.
LEMMA EmitPosKeeps ==
    ASSUME NEW c, NEW r, NEW q, NEW p, NEW s, Holds(c, r, q, p, s), NEW w \in s.online,
           NEW e \in Entities, Live(s, e)
    PROVE  LET t == EmitPos(s, w, e) IN
           Holds(c, r, q, p \ {<<w, e>>}, t) /\ Rest(s, t) /\ t.view = s.view
<1> DEFINE p2 == p \ {<<w, e>>}
<1>1. /\ s \in Brokers /\ down \in [Workers -> Seq(Frame)] /\ Adopts(c, s) /\ StagedLive(s)
      /\ w \in Workers /\ \A v \in Workers : Ear(c, s, v) \in Mind
    BY HoldsIs
<1>2. CASE Sheds(s, w)
    <2> DEFINE b == s.blurred \cup {<<w, e>>}
               t == [s EXCEPT !.blurred = b]
    <2>1. EmitPos(s, w, e) = t
        BY <1>2 DEF EmitPos
    <2>a. b \in SUBSET Pairs
        BY <1>1 DEF Brokers, Pairs
    <2> HIDE DEF b
    <2>b. /\ t \in Brokers /\ Rest(s, t) /\ t.out = s.out /\ t.view = s.view
          /\ t.stranded = s.stranded /\ t.untold = s.untold /\ t.blurred = b
        BY <1>1, <2>a DEF Brokers, Rest
    <2>2. /\ t \in Brokers /\ Rest(s, t) /\ t.out = s.out /\ t.view = s.view
          /\ t.stranded = s.stranded /\ t.untold = s.untold /\ t.blurred = s.blurred \cup {<<w, e>>}
        BY <2>b DEF b
    <2> HIDE DEF t
    <2>3. Adopts(c, t) /\ \A v \in Workers : Ear(c, t, v) = Ear(c, s, v)
        <3>1. t.online = s.online
            BY <2>2 DEF Rest
        <3>2. t.out = s.out
            BY <2>2
        <3>3. (Adopts(c, s) => Adopts(c, t)) /\ \A v : Ear(c, t, v) = Ear(c, s, v)
            BY <3>1, <3>2, Silent
        <3> QED
            BY <1>1, <3>3
    <2>4. ASSUME NEW v \in s.online, NEW x \in Entities
          PROVE  Kept(c, r, r, q, q, p, p2, s, t, v, x)
        <3>1. Alike(c, s, t, v, x)
            BY <1>1, <2>2, <2>3, RestIs DEF Alike, Brokers
        <3>2. CASE v = w /\ x = e
            <4>1. Placid(c, t, v, x)
                BY <2>2, <3>2 DEF Placid
            <4> QED
                BY <3>1, <4>1, AlikeKeeps, HoldsIs DEF Kept
        <3>3. CASE ~(v = w /\ x = e)
            BY <3>1, <3>3 DEF Kept
        <3> QED
            BY <3>2, <3>3
    <2>5. Holds(c, r, q, p2, t)
        BY <1>1, <2>2, <2>3, <2>4, Keeps, RestIs
    <2> QED
        BY <2>1, <2>2, <2>5
<1>3. CASE ~Sheds(s, w)
    <2> DEFINE m == [op |-> "Pos", eid |-> e, pos |-> s.ents[e].pos]
               u == Emit(s, w, m)
               t == [u EXCEPT !.blurred = @ \ {<<w, e>>}]
    <2>1. s.ents[e].pos \in Points
        BY <1>1 DEF Brokers, Placed, Live
    <2>2. m \in Frame
        BY <2>1, Names4
    <2>3. /\ u \in Brokers /\ Rest(s, u) /\ Told(s, u, w, m) /\ u.view = s.view
          /\ u.stranded = s.stranded /\ u.untold = s.untold /\ u.blurred = s.blurred
        BY <1>1, <2>2, EmitIs
    <2>4. EmitPos(s, w, e) = t
        BY <1>3 DEF EmitPos
    <2> HIDE DEF u
    <2>5. /\ t \in Brokers /\ Rest(s, t) /\ Told(s, t, w, m)
          /\ t.view = s.view /\ t.stranded = s.stranded /\ t.untold = s.untold
          /\ t.blurred = s.blurred \ {<<w, e>>}
        BY <2>3 DEF Brokers, Rest, Told
    <2>6. m.op # "Grant"
        OBVIOUS
    <2> HIDE DEF t, m
    <2>7. /\ Adopts(c, t) /\ Ear(c, t, w) = Hear(Ear(c, s, w), m)
          /\ \A v \in Workers : v # w => Ear(c, t, v) = Ear(c, s, v)
        BY <1>1, <2>2, <2>5, <2>6, Telling
    <2>8. /\ Ear(c, t, w) \in Mind /\ Ear(c, t, w).body = Ear(c, s, w).body
          /\ Ear(c, t, w).mirror[e] = s.ents[e].pos
          /\ \A y \in Entities : y # e => Ear(c, t, w).mirror[y] = Ear(c, s, w).mirror[y]
        BY <1>1, <2>1, <2>7, HearPos DEF m
    <2>9. ASSUME NEW v \in s.online, NEW x \in Entities
          PROVE  Kept(c, r, r, q, q, p, p2, s, t, v, x)
        <3>1. CASE v = w /\ x = e
            <4>1. Shown(s, v, x) /\ (<<v, x>> \notin r => OwnOnly(c, s, v, x))
                  /\ (<<v, x>> \notin q => AllOwn(c, s, v, x))
                BY HoldsIs
            <4>2. Shown(t, v, x) /\ Placid(c, t, v, x)
                BY <2>5, <2>8, <3>1 DEF Rest, Shown, Placid, Live
            <4>3. OwnOnly(c, s, v, x) => OwnOnly(c, t, v, x)
                BY <2>5, <2>8, <3>1 DEF Rest, OwnOnly, Simulates, Live
            <4>4. AllOwn(c, s, v, x) => AllOwn(c, t, v, x)
                BY <2>5, <2>8, <3>1, RestIs DEF AllOwn, Simulates
            <4> QED
                BY <4>1, <4>2, <4>3, <4>4 DEF Kept
        <3>2. CASE ~(v = w /\ x = e)
            <4>1. Ear(c, t, v).body[x] = Ear(c, s, v).body[x] /\ Ear(c, t, v).mirror[x] = Ear(c, s, v).mirror[x]
                BY <1>1, <2>7, <2>8, <3>2, HoldsIs
            <4>2. <<v, x>> \in s.blurred => <<v, x>> \in t.blurred
                BY <2>5, <3>2
            <4>3. Alike(c, s, t, v, x)
                BY <2>5, <4>1, <4>2, RestIs DEF Alike
            <4> QED
                BY <3>2, <4>3 DEF Kept
        <3> QED
            BY <3>1, <3>2
    <2>b. \A v \in Workers : Ear(c, t, v) \in Mind
        BY <1>1, <2>7, <2>8
    <2>c. Holds(c, r, q, p2, t)
        BY <1>1, <2>5, <2>7, <2>9, <2>b, Keeps, RestIs
    <2> QED
        BY <2>4, <2>5, <2>c
<1> QED
    BY <1>2, <1>3

LEMMA SendFullKeeps ==
    ASSUME NEW c, NEW r, NEW q, NEW p, NEW s, Holds(c, r, q, p, s), NEW w \in s.online,
           NEW e \in Entities, Live(s, e)
    PROVE  LET t == SendFull(s, w, e) IN
           Holds(c, r, q, p \ {<<w, e>>}, t) /\ Rest(s, t) /\ e \in t.view[w]
<1> DEFINE m == [op |-> "Add", eid |-> e]
           p2 == p \cup {<<w, e>>}
           u == [s EXCEPT !.view[w] = @ \cup {e}]
           t == Emit(u, w, m)
<1>1. /\ s \in Brokers /\ down \in [Workers -> Seq(Frame)] /\ Adopts(c, s) /\ StagedLive(s)
      /\ w \in Workers /\ \A v \in Workers : Ear(c, s, v) \in Mind
    BY HoldsIs
<1>2. m \in Frame
    BY Names4
<1>3. /\ u \in Brokers /\ Rest(s, u) /\ u.out = s.out /\ w \in u.online
      /\ u.view = [s.view EXCEPT ![w] = @ \cup {e}] /\ u.stranded = s.stranded
      /\ u.untold = s.untold /\ u.blurred = s.blurred
    BY <1>1 DEF Brokers, Rest
<1>4. m.op # "Grant"
    OBVIOUS
<1> HIDE DEF u, m
<1>5. t \in Brokers /\ Rest(u, t) /\ Told(u, t, w, m)
    BY <1>2, <1>3, EmitIs
<1>6. t.view = u.view /\ t.stranded = u.stranded /\ t.untold = u.untold /\ t.blurred = u.blurred
    BY <1>2, <1>3, EmitIs
<1> HIDE DEF t
<1>7. Rest(s, t)
    BY <1>3, <1>5, RestOn
<1>8. /\ Adopts(c, t) /\ Ear(c, t, w) = Hear(Ear(c, s, w), m)
      /\ \A v \in Workers : v # w => Ear(c, t, v) = Ear(c, s, v)
    <2>1. Told(s, t, w, m)
        BY <1>3, <1>5 DEF Told, Rest
    <2> QED
        BY <1>1, <1>2, <1>4, <1>5, <2>1, Telling
<1>9. /\ Ear(c, t, w) \in Mind /\ Ear(c, t, w).body = Ear(c, s, w).body
      /\ \A y \in Entities : y # e => Ear(c, t, w).mirror[y] = Ear(c, s, w).mirror[y]
    BY <1>1, <1>8, HearAdd DEF m
<1>10. ASSUME NEW v \in s.online, NEW x \in Entities
       PROVE  Kept(c, r, r, q, q, p, p2, s, t, v, x)
    <2>1. CASE v = w /\ x = e
        <3>1. (<<v, x>> \notin r => OwnOnly(c, s, v, x)) /\ (<<v, x>> \notin q => AllOwn(c, s, v, x))
            BY HoldsIs
        <3>2. Shown(t, v, x)
            BY <1>7, <2>1 DEF Rest, Shown, Live
        <3>3. OwnOnly(c, s, v, x) => OwnOnly(c, t, v, x)
            BY <1>3, <1>6, <1>7, <1>9, <2>1 DEF Rest, OwnOnly, Simulates, Live
        <3>4. AllOwn(c, s, v, x) => AllOwn(c, t, v, x)
            BY <1>3, <1>6, <1>7, <1>9, <2>1, RestIs DEF AllOwn, Simulates
        <3> QED
            BY <2>1, <3>1, <3>2, <3>3, <3>4 DEF Kept
    <2>2. CASE ~(v = w /\ x = e)
        <3>1. Ear(c, t, v).body[x] = Ear(c, s, v).body[x] /\ Ear(c, t, v).mirror[x] = Ear(c, s, v).mirror[x]
            BY <1>1, <1>8, <1>9, <2>2, HoldsIs
        <3>2. x \in t.view[v] <=> x \in s.view[v]
            BY <1>1, <1>3, <1>6, <2>2, HoldsIs DEF Brokers
        <3>3. Alike(c, s, t, v, x)
            BY <1>3, <1>6, <1>7, <3>1, <3>2, RestIs DEF Alike
        <3> QED
            BY <2>2, <3>3 DEF Kept
    <2> QED
        BY <2>1, <2>2
<1>11. \A v \in Workers : Ear(c, t, v) \in Mind
    BY <1>1, <1>8, <1>9
<1>12. Holds(c, r, q, p2, t)
    BY <1>1, <1>5, <1>7, <1>8, <1>10, <1>11, Keeps, RestIs
<1>13. t.online = s.online /\ Live(t, e)
    BY <1>7 DEF Rest, Live
<1> DEFINE y == EmitPos(t, w, e)
<1>14. Holds(c, r, q, p2 \ {<<w, e>>}, y) /\ Rest(t, y) /\ y.view = t.view
    BY <1>12, <1>13, EmitPosKeeps
<1>15. SendFull(s, w, e) = y
    BY DEF SendFull, t, u, m
<1>16. p2 \ {<<w, e>>} = p \ {<<w, e>>}
    OBVIOUS
<1>17. e \in t.view[w]
    BY <1>1, <1>3, <1>6 DEF Brokers
<1> HIDE DEF y
<1> QED
    BY <1>7, <1>14, <1>15, <1>16, <1>17, RestOn

LEMMA PlacedIs ==
    ASSUME NEW s \in Brokers, NEW e \in Entities, Live(s, e)
    PROVE  /\ s.ents[e] \in Placed /\ s.ents[e].pos \in Points /\ s.ents[e].region \in Sides
           /\ s.ents[e].owner \in Workers \cup {None} /\ s.ents[e].epoch \in Nat
BY DEF Brokers, Live, Placed

Owned(s, e, o, S, U) == [s EXCEPT !.ents[e].owner = o, !.stranded = S, !.untold = U]
Owning(s, e, o, S, U, u) ==
    /\ u \in Brokers /\ u.out = s.out /\ u.view = s.view /\ u.online = s.online
    /\ u.stranded = S /\ u.untold = U /\ u.blurred = s.blurred /\ u.holder = s.holder
    /\ u.ents[e].owner = o /\ u.ents[e].pos = s.ents[e].pos
    /\ u.ents[e].region = s.ents[e].region /\ u.ents[e].epoch = s.ents[e].epoch
    /\ \A x \in Entities : (x # e => u.ents[x] = s.ents[x]) /\ (Live(u, x) <=> Live(s, x))
    /\ StagedLive(s) => StagedLive(u)
    /\ u.writes = s.writes /\ u.handoffs = s.handoffs /\ u.failovers = s.failovers

\* What is staged stays sound as long as every entity stays.
LEMMA StagedOn ==
    ASSUME NEW s \in Brokers, StagedLive(s), NEW t, t.writes = s.writes, t.handoffs = s.handoffs,
           t.failovers = s.failovers, \A x \in Entities : Live(s, x) => Live(t, x)
    PROVE  StagedLive(t)
<1>1. s.writes \in Seq(Writes) /\ s.handoffs \in Seq(Handoffs) /\ s.failovers \in Seq(Failovers)
    BY DEF Brokers
<1>2. \A i \in DOMAIN s.writes : s.writes[i].eid \in Entities
    <2>1. ASSUME NEW i \in DOMAIN s.writes PROVE s.writes[i] \in Writes
        BY <1>1
    <2> QED
        BY <2>1 DEF Writes
<1>3. \A i \in DOMAIN s.handoffs : s.handoffs[i].eid \in Entities
    <2>1. ASSUME NEW i \in DOMAIN s.handoffs PROVE s.handoffs[i] \in Handoffs
        BY <1>1
    <2> QED
        BY <2>1 DEF Handoffs
<1>4. \A i \in DOMAIN s.failovers : \A g \in s.failovers[i].grants : g.eid \in Entities
    <2>1. ASSUME NEW i \in DOMAIN s.failovers PROVE s.failovers[i] \in Failovers
        BY <1>1
    <2> QED
        BY <2>1 DEF Failovers
<1> QED
    BY <1>2, <1>3, <1>4 DEF StagedLive

\* Who owns an entity does not say where anything is.
LEMMA OwnedIs ==
    ASSUME NEW s \in Brokers, NEW e \in Entities, Live(s, e), NEW o \in Workers \cup {None},
           NEW S \in SUBSET Entities, NEW U \in SUBSET Pairs
    PROVE  Owning(s, e, o, S, U, Owned(s, e, o, S, U))
<1> DEFINE x == [s.ents[e] EXCEPT !.owner = o]
           n == [s.ents EXCEPT ![e] = x]
           u == [s EXCEPT !.ents = n, !.stranded = S, !.untold = U]
<1>1. s.ents[e] \in Placed
    BY PlacedIs
<1>2. /\ x \in Placed /\ x.owner = o /\ x.pos = s.ents[e].pos /\ x.region = s.ents[e].region
      /\ x.epoch = s.ents[e].epoch
    BY <1>1 DEF Placed
<1>3. x # None
    BY <1>2, NoneIs
<1>4. s.ents \in [Entities -> Placed \cup {None}]
    BY DEF Brokers
<1> HIDE DEF x
<1>5. n \in [Entities -> Placed \cup {None}] /\ n[e] = x /\ \A y \in Entities : y # e => n[y] = s.ents[y]
    BY <1>2, <1>4
<1>6. Owned(s, e, o, S, U) = u
    BY DEF Brokers, x, Owned
<1> HIDE DEF n
<1>7. /\ u \in Brokers /\ u.out = s.out /\ u.view = s.view /\ u.online = s.online
      /\ u.stranded = S /\ u.untold = U /\ u.blurred = s.blurred /\ u.holder = s.holder
      /\ u.ents = n /\ u.writes = s.writes /\ u.handoffs = s.handoffs /\ u.failovers = s.failovers
    BY <1>5 DEF Brokers
<1> HIDE DEF u
<1>8. \A y \in Entities : Live(u, y) <=> Live(s, y)
    BY <1>3, <1>5, <1>7 DEF Live
<1>9. StagedLive(s) => StagedLive(u)
    BY <1>7, <1>8, StagedOn
<1> QED
    BY <1>2, <1>5, <1>6, <1>7, <1>8, <1>9 DEF Owning

\* The same entities are there, and all but e are what they were.
Else(s, t, e) ==
    /\ t.online = s.online /\ t.holder = s.holder
    /\ \A x \in Entities : (x # e => t.ents[x] = s.ents[x]) /\ (Live(t, x) <=> Live(s, x))
    /\ t.ents[e].region = s.ents[e].region
    /\ t.writes = s.writes /\ t.handoffs = s.handoffs /\ t.failovers = s.failovers

\* Nobody but w simulates e, except who has not been told.
Alone(c, s, w, e) ==
    \A v \in s.online : v # w /\ Simulates(c, s, v, e) => <<v, e>> \in s.untold

LEMMA RestElse == ASSUME NEW s, NEW t, Rest(s, t), NEW e PROVE Else(s, t, e)
BY DEF Rest, Else, Live
LEMMA ElseOn ==
    ASSUME NEW s, NEW t, NEW u, NEW e \in Entities, Else(s, t, e), Else(t, u, e)
    PROVE  Else(s, u, e)
BY DEF Else

\* Who is granted an entity that is shown to it simulates it where the broker has it, and
\* nobody else does unless it has not been told.
LEMMA GrantKeeps ==
    ASSUME NEW c, NEW r, NEW q, NEW p, NEW s, Holds(c, r, q, p, s), NEW w \in s.online,
           NEW e \in Entities, Live(s, e), e \in s.view[w], <<w, e>> \notin p,
           Alone(c, s, w, e)
    PROVE  LET t == Grant(s, w, e) IN
           /\ Holds(c, r \ (Workers \X {e}), q \ (Workers \X {e}), p, t) /\ Else(s, t, e)
           /\ t.view = s.view /\ t.ents[e].owner = w
<1> DEFINE r2 == r \ (Workers \X {e})
           q2 == q \ (Workers \X {e})
           at == IF <<w, e>> \in s.blurred THEN None ELSE s.ents[e].pos
           m == [op |-> "Grant", eid |-> e, epoch |-> s.ents[e].epoch, at |-> at]
           S == s.stranded \ {e}
           U == s.untold \ {<<w, e>>}
           u == Owned(s, e, w, S, U)
           t == Emit(u, w, m)
<1>1. /\ s \in Brokers /\ down \in [Workers -> Seq(Frame)] /\ Adopts(c, s) /\ StagedLive(s)
      /\ w \in Workers /\ \A v \in Workers : Ear(c, s, v) \in Mind
    BY HoldsIs
<1>2. Grant(s, w, e) = t
    BY DEF Grant, Owned
<1>3. s.ents[e].pos \in Points /\ s.ents[e].epoch \in Nat
    BY <1>1, PlacedIs
<1>4. m \in Frame
    <2>1. at \in Points \cup {None}
        BY <1>3
    <2> HIDE DEF at
    <2> QED
        BY <1>3, <2>1, Names4
<1>5. S \in SUBSET Entities /\ U \in SUBSET Pairs /\ S = s.stranded \ {e} /\ U = s.untold \ {<<w, e>>}
    BY <1>1 DEF Brokers
<1> HIDE DEF S, U
<1>6. /\ u \in Brokers /\ u.out = s.out /\ u.view = s.view /\ u.online = s.online
      /\ u.stranded = S /\ u.untold = U /\ u.blurred = s.blurred /\ u.holder = s.holder
      /\ u.ents[e].owner = w /\ u.ents[e].pos = s.ents[e].pos
      /\ u.ents[e].region = s.ents[e].region /\ u.ents[e].epoch = s.ents[e].epoch
      /\ \A x \in Entities : (x # e => u.ents[x] = s.ents[x]) /\ (Live(u, x) <=> Live(s, x))
      /\ StagedLive(u)
      /\ u.writes = s.writes /\ u.handoffs = s.handoffs /\ u.failovers = s.failovers
    <2>1. w \in Workers \cup {None}
        BY <1>1
    <2> HIDE DEF m, at
    <2>2. s \in Brokers /\ S \in SUBSET Entities /\ U \in SUBSET Pairs /\ StagedLive(s) /\ Live(s, e)
        BY <1>1, <1>5
    <2>3. Owning(s, e, w, S, U, u)
        BY <2>1, <2>2, OwnedIs
    <2> HIDE DEF u
    <2> QED
        BY <2>2, <2>3 DEF Owning
<1> HIDE DEF u
<1>7. /\ t \in Brokers /\ Rest(u, t) /\ Told(u, t, w, m) /\ t.view = u.view
      /\ t.stranded = u.stranded /\ t.untold = u.untold /\ t.blurred = u.blurred
    BY <1>4, <1>6, EmitIs
<1> HIDE DEF t
<1>8. Told(s, t, w, m) /\ t.online = s.online /\ t.holder = s.holder /\ t.ents = u.ents
      /\ t.writes = s.writes /\ t.handoffs = s.handoffs /\ t.failovers = s.failovers /\ StagedLive(t)
    BY <1>6, <1>7, RestIs DEF Told, Rest
<1>9. /\ Hear(Ear(c, s, w), m) \in Mind /\ Hear(Ear(c, s, w), m).mirror = Ear(c, s, w).mirror
      /\ \A x \in Entities : x # e => Hear(Ear(c, s, w), m).body[x] = Ear(c, s, w).body[x]
      /\ Hear(Ear(c, s, w), m).body[e] # None
      /\ Hear(Ear(c, s, w), m).body[e].epoch = s.ents[e].epoch
      /\ Ear(c, s, w).body[e] = None /\ Ear(c, s, w).mirror[e] # None =>
            Hear(Ear(c, s, w), m).body[e].pos = Ear(c, s, w).mirror[e]
    BY <1>1, <1>3, HearGrant
<1>10. m.op = "Grant" /\ m.at # None /\ Ear(c, s, w).body[m.eid] = None =>
          Hear(Ear(c, s, w), m).body[m.eid].pos = m.at
    <2>1. SUFFICES ASSUME at # None, Ear(c, s, w).body[e] = None
                   PROVE  Hear(Ear(c, s, w), m).body[e].pos = at
        OBVIOUS
    <2>2. at = s.ents[e].pos /\ <<w, e>> \notin s.blurred
        BY <2>1
    <2>3. Ear(c, s, w).mirror[e] = s.ents[e].pos
        BY <2>2, HoldsIs DEF Placid
    <2>4. Ear(c, s, w).mirror[e] # None
        BY <1>3, <2>3, NoneIs
    <2> HIDE DEF m, at
    <2> QED
        BY <1>9, <2>1, <2>2, <2>3, <2>4
<1> HIDE DEF m
<1>11. /\ Adopts(c, t) /\ Ear(c, t, w) = Hear(Ear(c, s, w), m)
       /\ \A v \in Workers : v # w => Ear(c, t, v) = Ear(c, s, v)
    BY <1>1, <1>4, <1>7, <1>8, <1>10, Telling
<1>12. ASSUME NEW v \in s.online, NEW x \in Entities
       PROVE  Kept(c, r, r2, q, q2, p, p, s, t, v, x)
    <2>1. CASE x # e
        <3>1. Ear(c, t, v).body[x] = Ear(c, s, v).body[x] /\ Ear(c, t, v).mirror[x] = Ear(c, s, v).mirror[x]
            BY <1>1, <1>9, <1>11, <2>1, HoldsIs
        <3>2. t.ents[x] = s.ents[x] /\ Responsible(t, x) = Responsible(s, x)
            BY <1>6, <1>8, <2>1 DEF Responsible, HolderOf
        <3>3. Alike(c, s, t, v, x)
            BY <1>5, <1>6, <1>7, <2>1, <3>1, <3>2 DEF Alike
        <3> QED
            BY <2>1, <3>3 DEF Kept
    <2>2. CASE x = e
        <3>1. Responsible(t, e) = w /\ Live(t, e)
            BY <1>1, <1>6, <1>8, NoneIs DEF Responsible, Live
        <3>2. Shown(t, v, x)
            BY <2>2, <3>1 DEF Shown
        <3>3. OwnOnly(c, t, v, x)
            <4>1. CASE v = w
                BY <1>6, <1>8, <2>2, <3>1, <4>1 DEF OwnOnly
            <4>2. CASE v # w
                BY <1>1, <1>5, <1>6, <1>7, <1>11, <2>2, <3>1, <4>2, HoldsIs DEF OwnOnly, Simulates, Alone
            <4> QED
                BY <4>1, <4>2
        <3>4. AllOwn(c, t, v, x)
            BY <1>6, <1>8, <1>9, <1>11, <2>2, <3>1 DEF AllOwn, Simulates
        <3>5. Placid(c, s, v, x) => Placid(c, t, v, x)
            BY <1>1, <1>6, <1>7, <1>8, <1>9, <1>11, <2>2, HoldsIs DEF Placid
        <3>6. <<v, x>> \notin p => Placid(c, s, v, x)
            BY HoldsIs
        <3> QED
            BY <3>2, <3>3, <3>4, <3>5, <3>6 DEF Kept
    <2> QED
        BY <2>1, <2>2
<1>13. \A v \in Workers : Ear(c, t, v) \in Mind
    BY <1>1, <1>9, <1>11
<1>14. Holds(c, r2, q2, p, t)
    BY <1>7, <1>8, <1>11, <1>12, <1>13, Keeps
<1>15. \A x \in Entities : Live(t, x) <=> Live(s, x)
    BY <1>6, <1>8 DEF Live
<1> HIDE DEF r2, q2
<1>16. Holds(c, r2, q2, p, t) /\ Else(s, t, e) /\ t.view = s.view /\ t.ents[e].owner = w
    BY <1>6, <1>7, <1>8, <1>14, <1>15 DEF Else
<1> QED
    BY <1>2, <1>16 DEF r2, q2

LEMMA RejectKeeps ==
    ASSUME NEW c, NEW r, NEW q, NEW p, NEW s, Holds(c, r, q, p, s), NEW w,
           NEW e \in Entities, NEW y \in Reasons,
           y = "not authoritative" => w \in s.online /\ Responsible(s, e) # w
    PROVE  Holds(c, r, q, p, Reject(s, w, e, y)) /\ Rest(s, Reject(s, w, e, y))
<1> DEFINE m == [op |-> "Reject", eid |-> e, reason |-> y]
<1>1. /\ s \in Brokers /\ down \in [Workers -> Seq(Frame)] /\ Adopts(c, s) /\ StagedLive(s)
      /\ s.online \subseteq Workers /\ \A v \in Workers : Ear(c, s, v) \in Mind
    BY HoldsIs
<1>2. m \in Frame /\ m.op # "Grant"
    BY Names4
<1>3. CASE y # "not authoritative"
    <2>1. Reject(s, w, e, y) = Emit(s, w, m)
        <3>1. [s EXCEPT !.untold = s.untold] = s
            BY <1>1 DEF Brokers
        <3> QED
            BY <1>3, <3>1 DEF Reject
    <2>2. \A z : Hear(z, m) = z
        BY <1>3 DEF Hear, Rejected
    <2> HIDE DEF m
    <2> QED
        BY <1>2, <2>1, <2>2, EmptyFrameKeeps
<1>4. CASE y = "not authoritative"
    <2> DEFINE U == s.untold \ {<<w, e>>}
               u == [s EXCEPT !.untold = U]
               t == Emit(u, w, m)
    <2>1. w \in s.online /\ w \in Workers /\ Responsible(s, e) # w
        BY <1>1, <1>4
    <2>2. Reject(s, w, e, y) = t
        BY <1>4 DEF Reject
    <2>3. U \in SUBSET Pairs /\ U = s.untold \ {<<w, e>>}
        BY <1>1 DEF Brokers
    <2> HIDE DEF U
    <2>4. /\ u \in Brokers /\ Rest(s, u) /\ u.out = s.out /\ u.view = s.view /\ u.untold = U
          /\ u.stranded = s.stranded /\ u.blurred = s.blurred
        BY <1>1, <2>3 DEF Brokers, Rest
    <2>5. w \in u.online
        BY <2>1, <2>4 DEF Rest
    <2> HIDE DEF u
    <2>6. /\ t \in Brokers /\ Rest(u, t) /\ Told(u, t, w, m) /\ t.view = u.view
          /\ t.stranded = u.stranded /\ t.untold = u.untold /\ t.blurred = u.blurred
        BY <1>2, <2>4, <2>5, EmitIs
    <2> HIDE DEF t
    <2>7. Told(s, t, w, m) /\ Rest(s, t)
        BY <2>4, <2>6, RestOn DEF Told, Rest
    <2>8. /\ Hear(Ear(c, s, w), m) \in Mind /\ Hear(Ear(c, s, w), m).mirror = Ear(c, s, w).mirror
          /\ Hear(Ear(c, s, w), m).body[e] = None
          /\ \A x \in Entities : x # e => Hear(Ear(c, s, w), m).body[x] = Ear(c, s, w).body[x]
        <3> DEFINE z == Ear(c, s, w)
        <3>1. z \in Mind
            BY <1>1, <2>1
        <3> HIDE DEF z
        <3>2. /\ Hear(z, m) \in Mind /\ Hear(z, m).mirror = z.mirror /\ Hear(z, m).body[e] = None
              /\ \A x \in Entities : x # e => Hear(z, m).body[x] = z.body[x]
            BY <1>4, <3>1 DEF Hear, Rejected, Mind
        <3> QED
            BY <3>2 DEF z
    <2> HIDE DEF m
    <2>r. t.ents = s.ents /\ \A x : Responsible(t, x) = Responsible(s, x)
        BY <2>7, RestIs
    <2>9. /\ Adopts(c, t) /\ Ear(c, t, w) = Hear(Ear(c, s, w), m)
          /\ \A v \in Workers : v # w => Ear(c, t, v) = Ear(c, s, v)
        BY <1>1, <1>2, <2>1, <2>6, <2>7, Telling
    <2>10. ASSUME NEW v \in s.online, NEW x \in Entities
           PROVE  Kept(c, r, r, q, q, p, p, s, t, v, x)
        <3>1. CASE v = w /\ x = e
            <4>1. OwnOnly(c, t, v, x)
                BY <2>8, <2>9, <3>1 DEF OwnOnly, Simulates
            <4>2. AllOwn(c, t, v, x)
                BY <2>1, <2>r, <3>1 DEF AllOwn
            <4>3. Shown(s, v, x) => Shown(t, v, x)
                BY <2>4, <2>6, <2>7 DEF Shown, Rest, Live
            <4>4. Placid(c, s, v, x) => Placid(c, t, v, x)
                BY <2>4, <2>6, <2>7, <2>8, <2>9, <3>1 DEF Placid, Rest
            <4> QED
                BY <4>1, <4>2, <4>3, <4>4, HoldsIs DEF Kept
        <3>2. CASE ~(v = w /\ x = e)
            <4>1. Ear(c, t, v).body[x] = Ear(c, s, v).body[x] /\ Ear(c, t, v).mirror[x] = Ear(c, s, v).mirror[x]
                BY <1>1, <2>8, <2>9, <3>2
            <4>2. <<v, x>> \in s.untold => <<v, x>> \in t.untold
                BY <2>3, <2>4, <2>6, <3>2
            <4>3. Alike(c, s, t, v, x)
                BY <2>4, <2>6, <2>r, <4>1, <4>2 DEF Alike
            <4> QED
                BY <4>3 DEF Kept
        <3> QED
            BY <3>1, <3>2
    <2>11. \A v \in Workers : Ear(c, t, v) \in Mind
        BY <1>1, <2>8, <2>9
    <2>12. Holds(c, r, q, p, t)
        BY <1>1, <2>6, <2>7, <2>9, <2>10, <2>11, Keeps, RestIs
    <2> QED
        BY <2>2, <2>7, <2>12
<1> QED
    BY <1>3, <1>4

\* Who is told that it has lost an entity no longer simulates it.
LEMMA RevokeKeeps ==
    ASSUME NEW c, NEW r, NEW q, NEW p, NEW s, Holds(c, r, q, p, s), NEW w \in s.online,
           NEW e \in Entities, Live(s, e)
    PROVE  LET t == Revoke(s, w, e) IN
           /\ Holds(c, r \ {<<w, e>>}, q \cup (Workers \X {e}), p, t) /\ Else(s, t, e)
           /\ t.view = s.view /\ t.stranded = s.stranded
           /\ t.ents[e].owner = IF s.ents[e].owner = w THEN None ELSE s.ents[e].owner
<1> DEFINE r2 == r \ {<<w, e>>}
           q2 == q \cup (Workers \X {e})
           m == [op |-> "Revoke", eid |-> e]
           o == IF s.ents[e].owner = w THEN None ELSE s.ents[e].owner
           u == IF s.ents[e].owner = w THEN Owned(s, e, None, s.stranded, s.untold) ELSE s
           t == Emit(u, w, m)
<1>1. /\ s \in Brokers /\ down \in [Workers -> Seq(Frame)] /\ Adopts(c, s) /\ StagedLive(s)
      /\ w \in Workers /\ \A v \in Workers : Ear(c, s, v) \in Mind
    BY HoldsIs
<1>2. Revoke(s, w, e) = t
    <2>1. [s EXCEPT !.ents[e].owner = None] = Owned(s, e, None, s.stranded, s.untold)
        BY <1>1 DEF Brokers, Owned
    <2> QED
        BY <2>1 DEF Revoke
<1>3. m \in Frame /\ m.op # "Grant"
    BY Names4
<1>4. /\ u \in Brokers /\ u.out = s.out /\ u.view = s.view /\ u.online = s.online
      /\ u.stranded = s.stranded /\ u.untold = s.untold /\ u.blurred = s.blurred /\ u.holder = s.holder
      /\ u.ents[e].owner = o /\ u.ents[e].pos = s.ents[e].pos
      /\ u.ents[e].region = s.ents[e].region /\ u.ents[e].epoch = s.ents[e].epoch
      /\ \A x \in Entities : (x # e => u.ents[x] = s.ents[x]) /\ (Live(u, x) <=> Live(s, x))
      /\ StagedLive(u)
      /\ u.writes = s.writes /\ u.handoffs = s.handoffs /\ u.failovers = s.failovers
    <2>1. CASE s.ents[e].owner = w
        <3>1. u = Owned(s, e, None, s.stranded, s.untold) /\ o = None
            BY <2>1
        <3>2. None \in Workers \cup {None} /\ s.stranded \in SUBSET Entities /\ s.untold \in SUBSET Pairs
            BY <1>1 DEF Brokers
        <3> HIDE DEF u, o, m
        <3>3. s \in Brokers /\ StagedLive(s) /\ Live(s, e)
            BY <1>1
        <3> DEFINE y == Owned(s, e, None, s.stranded, s.untold)
        <3>4. /\ y \in Brokers /\ y.out = s.out /\ y.view = s.view /\ y.online = s.online
              /\ y.stranded = s.stranded /\ y.untold = s.untold /\ y.blurred = s.blurred /\ y.holder = s.holder
              /\ y.ents[e].owner = None /\ y.ents[e].pos = s.ents[e].pos
              /\ y.ents[e].region = s.ents[e].region /\ y.ents[e].epoch = s.ents[e].epoch
              /\ \A x \in Entities : (x # e => y.ents[x] = s.ents[x]) /\ (Live(y, x) <=> Live(s, x))
              /\ StagedLive(y)
              /\ y.writes = s.writes /\ y.handoffs = s.handoffs /\ y.failovers = s.failovers
            <4>1. Owning(s, e, None, s.stranded, s.untold, y)
                BY <3>2, <3>3, OwnedIs
            <4> HIDE DEF y
            <4> QED
                BY <3>3, <4>1 DEF Owning
        <3> HIDE DEF y
        <3> QED
            BY <3>1, <3>4 DEF y
    <2>2. CASE s.ents[e].owner # w
        BY <1>1, <2>2
    <2> QED
        BY <2>1, <2>2
<1>o. o # w /\ (s.ents[e].owner # w => o = s.ents[e].owner)
    BY <1>1, NoneIs
<1> HIDE DEF u, o
<1>5. w \in u.online
    BY <1>4
<1>6. /\ t \in Brokers /\ Rest(u, t) /\ Told(u, t, w, m) /\ t.view = u.view
      /\ t.stranded = u.stranded /\ t.untold = u.untold /\ t.blurred = u.blurred
    BY <1>3, <1>4, <1>5, EmitIs
<1> HIDE DEF t
<1>7. Told(s, t, w, m) /\ t.online = s.online /\ t.holder = s.holder /\ t.ents = u.ents
      /\ t.writes = s.writes /\ t.handoffs = s.handoffs /\ t.failovers = s.failovers /\ StagedLive(t)
    BY <1>4, <1>6, RestIs DEF Told, Rest
<1>8. /\ Hear(Ear(c, s, w), m) \in Mind /\ Hear(Ear(c, s, w), m).mirror = Ear(c, s, w).mirror
      /\ Hear(Ear(c, s, w), m).body[e] = None
      /\ \A x \in Entities : x # e => Hear(Ear(c, s, w), m).body[x] = Ear(c, s, w).body[x]
    BY <1>1, HearGone
<1> HIDE DEF m
<1>9. /\ Adopts(c, t) /\ Ear(c, t, w) = Hear(Ear(c, s, w), m)
      /\ \A v \in Workers : v # w => Ear(c, t, v) = Ear(c, s, v)
    BY <1>1, <1>3, <1>6, <1>7, Telling
<1>10. ASSUME NEW v \in s.online, NEW x \in Entities
       PROVE  Kept(c, r, r2, q, q2, p, p, s, t, v, x)
    <2>1. CASE x # e
        <3>1. Ear(c, t, v).body[x] = Ear(c, s, v).body[x] /\ Ear(c, t, v).mirror[x] = Ear(c, s, v).mirror[x]
            BY <1>1, <1>8, <1>9, <2>1, HoldsIs
        <3>2. t.ents[x] = s.ents[x] /\ Responsible(t, x) = Responsible(s, x)
            BY <1>4, <1>7, <2>1 DEF Responsible, HolderOf
        <3>3. Alike(c, s, t, v, x)
            BY <1>4, <1>6, <2>1, <3>1, <3>2 DEF Alike
        <3> QED
            BY <2>1, <3>3 DEF Kept
    <2>2. CASE x = e
        <3>1. Live(t, e) /\ v \in Workers
            BY <1>1, <1>4, <1>7, HoldsIs DEF Live
        <3>2. Shown(t, v, x)
            BY <2>2, <3>1 DEF Shown
        <3>3. <<v, x>> \notin r2 => OwnOnly(c, t, v, x)
            <4>1. CASE v = w
                BY <1>8, <1>9, <2>2, <4>1 DEF OwnOnly, Simulates
            <4>2. CASE v # w
                <5>1. <<v, x>> \notin r => OwnOnly(c, s, v, x)
                    BY HoldsIs
                <5>2. Simulates(c, t, v, x) => Simulates(c, s, v, x)
                    BY <1>9, <3>1, <4>2 DEF Simulates
                <5> QED
                    BY <1>4, <1>6, <1>7, <1>o, <2>2, <3>1, <4>2, <5>1, <5>2 DEF OwnOnly
            <4> QED
                BY <4>1, <4>2
        <3>4. <<v, x>> \in q2
            BY <2>2, <3>1
        <3>5. Placid(c, s, v, x) => Placid(c, t, v, x)
            BY <1>4, <1>6, <1>7, <1>8, <1>9, <2>2, <3>1 DEF Placid
        <3>6. <<v, x>> \notin p => Placid(c, s, v, x)
            BY HoldsIs
        <3> QED
            BY <3>2, <3>3, <3>4, <3>5, <3>6 DEF Kept
    <2> QED
        BY <2>1, <2>2
<1>11. \A v \in Workers : Ear(c, t, v) \in Mind
    BY <1>1, <1>8, <1>9
<1>12. Holds(c, r2, q2, p, t)
    BY <1>6, <1>7, <1>9, <1>10, <1>11, Keeps
<1>13. \A x \in Entities : Live(t, x) <=> Live(s, x)
    BY <1>4, <1>7 DEF Live
<1> HIDE DEF r2, q2
<1>14. /\ Holds(c, r2, q2, p, t) /\ Else(s, t, e) /\ t.view = s.view /\ t.ents[e].owner = o
       /\ t.stranded = s.stranded
    BY <1>4, <1>6, <1>7, <1>12, <1>13 DEF Else
<1> QED
    BY <1>2, <1>14 DEF r2, q2, o

LEMMA HoldsMore ==
    ASSUME NEW c, NEW r, NEW q, NEW p, NEW s, Holds(c, r, q, p, s),
           NEW r2, r \subseteq r2, NEW q2, q \subseteq q2, NEW p2, p \subseteq p2
    PROVE  Holds(c, r2, q2, p2, s)
BY DEF Holds

\* What a worker is told to remove it neither sees nor simulates.
LEMMA RemoveKeeps ==
    ASSUME NEW c, NEW r, NEW q, NEW p, NEW s, Holds(c, r, q, p, s), NEW w \in s.online,
           NEW e \in Entities, Live(s, e)
    PROVE  LET t == Emit([s EXCEPT !.view[w] = @ \ {e}], w, [op |-> "Remove", eid |-> e]) IN
           /\ Holds(c, r, q \cup {<<w, e>>}, p \ {<<w, e>>}, t) /\ Rest(s, t)
           /\ t.stranded = s.stranded
<1> DEFINE q2 == q \cup {<<w, e>>}
           p2 == p \ {<<w, e>>}
           m == [op |-> "Remove", eid |-> e]
           u == [s EXCEPT !.view[w] = @ \ {e}]
           t == Emit(u, w, m)
<1>1. /\ s \in Brokers /\ down \in [Workers -> Seq(Frame)] /\ Adopts(c, s) /\ StagedLive(s)
      /\ w \in Workers /\ s.online \subseteq Workers /\ \A v \in Workers : Ear(c, s, v) \in Mind
    BY HoldsIs
<1>2. m \in Frame /\ m.op # "Grant"
    BY Names4
<1>3. /\ u \in Brokers /\ Rest(s, u) /\ u.out = s.out /\ w \in u.online
      /\ u.view = [s.view EXCEPT ![w] = @ \ {e}] /\ u.stranded = s.stranded
      /\ u.untold = s.untold /\ u.blurred = s.blurred
    BY <1>1 DEF Brokers, Rest
<1>4. /\ Hear(Ear(c, s, w), m) \in Mind /\ Hear(Ear(c, s, w), m).body[e] = None
      /\ \A x \in Entities : x # e => /\ Hear(Ear(c, s, w), m).body[x] = Ear(c, s, w).body[x]
                                      /\ Hear(Ear(c, s, w), m).mirror[x] = Ear(c, s, w).mirror[x]
    BY <1>1, HearGone
<1> HIDE DEF u, m
<1>5. /\ t \in Brokers /\ Rest(u, t) /\ Told(u, t, w, m) /\ t.view = u.view
      /\ t.stranded = u.stranded /\ t.untold = u.untold /\ t.blurred = u.blurred
    BY <1>2, <1>3, EmitIs
<1> HIDE DEF t
<1>6. Told(s, t, w, m) /\ Rest(s, t)
    BY <1>3, <1>5, RestOn DEF Told, Rest
<1>7. t.ents = s.ents /\ \A x : Responsible(t, x) = Responsible(s, x)
    BY <1>6, RestIs
<1>8. /\ Adopts(c, t) /\ Ear(c, t, w) = Hear(Ear(c, s, w), m)
      /\ \A v \in Workers : v # w => Ear(c, t, v) = Ear(c, s, v)
    BY <1>1, <1>2, <1>5, <1>6, Telling
<1>9. ASSUME NEW v \in s.online, NEW x \in Entities
      PROVE  Kept(c, r, r, q, q2, p, p2, s, t, v, x)
    <2>1. CASE v = w /\ x = e
        <3>1. x \notin t.view[v]
            BY <1>1, <1>3, <1>5, <2>1 DEF Brokers
        <3>2. OwnOnly(c, t, v, x)
            BY <1>4, <1>8, <2>1 DEF OwnOnly, Simulates
        <3> QED
            BY <2>1, <3>1, <3>2 DEF Kept, Shown, Placid
    <2>2. CASE ~(v = w /\ x = e)
        <3>1. Ear(c, t, v).body[x] = Ear(c, s, v).body[x] /\ Ear(c, t, v).mirror[x] = Ear(c, s, v).mirror[x]
            BY <1>1, <1>4, <1>8, <2>2
        <3>2. x \in t.view[v] <=> x \in s.view[v]
            BY <1>1, <1>3, <1>5, <2>2 DEF Brokers
        <3>3. Alike(c, s, t, v, x)
            BY <1>3, <1>5, <1>7, <3>1, <3>2 DEF Alike
        <3> QED
            BY <2>2, <3>3 DEF Kept
    <2> QED
        BY <2>1, <2>2
<1>10. \A v \in Workers : Ear(c, t, v) \in Mind
    BY <1>1, <1>4, <1>8
<1>11. Holds(c, r, q2, p2, t)
    BY <1>1, <1>5, <1>6, <1>8, <1>9, <1>10, Keeps, RestIs
<1> QED
    BY <1>3, <1>5, <1>6, <1>11 DEF t, u, m

\* A viewer of an entity that has moved sees where it is, or no longer has it.
LEMMA PropagateToKeeps ==
    ASSUME NEW c, NEW r, NEW q, NEW p, NEW s, Holds(c, r, q, p, s), NEW w \in s.online,
           NEW e \in Entities, Live(s, e), <<w, e>> \notin q
    PROVE  LET t == PropagateTo(s, w, e) IN Holds(c, r, q, p \ {<<w, e>>}, t) /\ Rest(s, t)
<1> DEFINE t == PropagateTo(s, w, e)
           p2 == p \ {<<w, e>>}
<1>1. CASE Visible(s, w, e) /\ e \in s.view[w]
    <2>1. t = EmitPos(s, w, e)
        BY <1>1 DEF PropagateTo
    <2> QED
        BY <2>1, EmitPosKeeps
<1>2. CASE Visible(s, w, e) /\ e \notin s.view[w]
    <2>1. t = SendFull(s, w, e)
        BY <1>2 DEF PropagateTo
    <2> QED
        BY <2>1, SendFullKeeps
<1>3. CASE ~Visible(s, w, e) /\ e \in s.view[w]
    <2> DEFINE u == Emit([s EXCEPT !.view[w] = @ \ {e}], w, [op |-> "Remove", eid |-> e])
               q2 == q \cup {<<w, e>>}
    <2>1. t = IF s.ents[e].owner = w THEN Strand(u, e) ELSE u
        BY <1>3 DEF PropagateTo
    <2>2. Holds(c, r, q2, p2, u) /\ Rest(s, u) /\ u.stranded = s.stranded
        BY RemoveKeeps
    <2> HIDE DEF u
    <2>3. CASE s.ents[e].owner = w
        <3> DEFINE q3 == q2 \ (Workers \X {e})
        <3>1. Holds(c, r, q3, p2, Strand(u, e)) /\ Rest(u, Strand(u, e))
            BY <2>2, StrandKeeps
        <3>2. q3 \subseteq q
            BY HoldsIs
        <3> HIDE DEF q3, p2, q2, t
        <3>3. Holds(c, r, q, p2, Strand(u, e))
            BY <3>1, <3>2, HoldsMore
        <3>4. Rest(s, Strand(u, e))
            BY <2>2, <3>1, RestOn
        <3> QED
            BY <2>1, <2>3, <3>3, <3>4 DEF p2, t
    <2>4. CASE s.ents[e].owner # w
        <3>1. AllOwn(c, u, w, e)
            <4>1. AllOwn(c, s, w, e)
                BY HoldsIs
            <4> QED
                BY <2>2, <2>4, <4>1, RestIs DEF AllOwn
        <3>2. Holds(c, r, q, p2, u)
            BY <2>2, <3>1 DEF Holds
        <3> QED
            BY <2>1, <2>2, <2>4, <3>2
    <2> QED
        BY <2>3, <2>4
<1>4. CASE ~Visible(s, w, e) /\ e \notin s.view[w]
    <2>1. t = s
        BY <1>4 DEF PropagateTo
    <2>2. Placid(c, s, w, e)
        BY <1>4 DEF Placid
    <2>3. Holds(c, r, q, p2, s)
        BY <2>2 DEF Holds
    <2> QED
        BY <2>1, <2>3, RestSelf
<1> QED
    BY <1>1, <1>2, <1>3, <1>4

\* A worker to whom an entity is shown as it comes, or the entity as it appears, is granted
\* what it should own; where it is not, the entity is stranded.
LEMMA ShowToKeeps ==
    ASSUME NEW c, NEW q, NEW p, NEW s, Holds(c, {}, q, p, s), NEW w \in s.online,
           NEW e \in Entities, Live(s, e)
    PROVE  LET t == ShowTo(s, w, e) IN Holds(c, {}, q \ {<<w, e>>}, p, t) /\ Else(s, t, e)
<1> DEFINE t == ShowTo(s, w, e)
           u == SendFull(s, w, e)
           p1 == p \ {<<w, e>>}
           q2 == q \ {<<w, e>>}
           q3 == q \ (Workers \X {e})
<1>1. s \in Brokers /\ w \in Workers /\ None \notin Workers
    BY HoldsIs, NoneIs
<1>2. Holds(c, {}, q, p1, u) /\ Rest(s, u) /\ e \in u.view[w]
    BY SendFullKeeps
<1>3. /\ u.online = s.online /\ u.ents = s.ents /\ u.holder = s.holder /\ Live(u, e)
      /\ Responsible(u, e) = Responsible(s, e)
    BY <1>2, RestIs DEF Rest
<1>4. q3 \subseteq q2 /\ p1 \subseteq p /\ <<w, e>> \notin p1
    BY <1>1
<1>5. CASE Visible(s, w, e) /\ RegionGrants(s, w, e)
    <2> DEFINE g == Grant(u, w, e)
    <2>1. RegionGrants(u, w, e)
        BY <1>3, <1>5 DEF RegionGrants
    <2>2. t = g
        <3>1. Show(s, w, e) = g
            BY <1>5, <2>1 DEF Show
        <3>2. HolderOf(s, s.ents[e].region) = w
            BY <1>5 DEF RegionGrants, HolderOf
        <3> QED
            BY <1>5, <3>1, <3>2 DEF ShowTo
    <2>3. ASSUME NEW v \in u.online, v # w, Simulates(c, u, v, e) PROVE <<v, e>> \in u.untold
        <3>1. OwnOnly(c, u, v, e) /\ v \in Workers
            <4> HIDE DEF u
            <4> HIDE DEF p1
            <4> QED
                BY <1>2, <2>3, HoldsOwn
        <3>2. u.ents[e].owner \in {w, None}
            BY <2>1 DEF RegionGrants
        <3> QED
            BY <1>1, <2>3, <3>1, <3>2 DEF OwnOnly
    <2> HIDE DEF u
    <2>4. Holds(c, {} \ (Workers \X {e}), q3, p1, g) /\ Else(u, g, e)
        <3>1. /\ Holds(c, {}, q, p1, u) /\ w \in u.online /\ Live(u, e) /\ e \in u.view[w]
              /\ <<w, e>> \notin p1
              /\ Alone(c, u, w, e)
            BY <1>2, <1>3, <1>4, <2>3 DEF Alone
        <3> HIDE DEF p1
        <3> QED
            BY <3>1, GrantKeeps
    <2> HIDE DEF g, p1, q2, q3, t
    <2>5. Holds(c, {}, q2, p, g)
        <3>1. {} \ (Workers \X {e}) \subseteq {}
            OBVIOUS
        <3> QED
            BY <1>4, <2>4, <3>1, HoldsMore
    <2>6. Else(s, g, e)
        <3>1. Else(s, u, e)
            BY <1>2, RestElse
        <3> QED
            BY <2>4, <3>1, ElseOn
    <2> QED
        BY <2>2, <2>5, <2>6 DEF q2, t
<1>6. CASE ~(Visible(s, w, e) /\ RegionGrants(s, w, e))
    <2> DEFINE g == Show(s, w, e)
    <2>1. Holds(c, {}, q, p, g) /\ Rest(s, g)
        <3>1. CASE Visible(s, w, e)
            <4>1. ~RegionGrants(u, w, e)
                BY <1>3, <1>6, <3>1 DEF RegionGrants
            <4>2. ~RegionGrants(s, w, e)
                BY <1>6, <3>1
            <4>3. g = u
                BY <3>1, <4>2 DEF Show
            <4> HIDE DEF g, u, p1
            <4> QED
                BY <1>2, <1>4, <4>3, HoldsMore
        <3>2. CASE ~Visible(s, w, e)
            BY <3>2, RestSelf DEF Show
        <3> QED
            BY <3>1, <3>2
    <2> HIDE DEF g
    <2>2. CASE Responsible(s, e) = w /\ ~(Visible(s, w, e) /\ HolderOf(s, s.ents[e].region) = w)
        <3>1. t = Strand(g, e)
            BY <2>2 DEF ShowTo, g
        <3>2. Holds(c, {}, q3, p, Strand(g, e)) /\ Rest(g, Strand(g, e))
            BY <2>1, StrandKeeps
        <3> HIDE DEF q3, q2, t
        <3>3. Holds(c, {}, q2, p, Strand(g, e))
            BY <1>4, <3>2, HoldsMore
        <3>4. Else(s, Strand(g, e), e)
            BY <2>1, <3>2, RestOn, RestElse
        <3> QED
            BY <3>1, <3>3, <3>4 DEF q2, t
    <2>3. CASE ~(Responsible(s, e) = w /\ ~(Visible(s, w, e) /\ HolderOf(s, s.ents[e].region) = w))
        <3>1. t = g
            BY <2>3 DEF ShowTo, g
        <3>2. Responsible(s, e) # w
            <4>1. SUFFICES ASSUME Responsible(s, e) = w PROVE FALSE
                OBVIOUS
            <4>2. Visible(s, w, e) /\ HolderOf(s, s.ents[e].region) = w /\ ~RegionGrants(s, w, e)
                BY <1>6, <2>3, <4>1
            <4> QED
                BY <1>1, <4>1, <4>2 DEF RegionGrants, HolderOf, Responsible
        <3>3. AllOwn(c, g, w, e)
            BY <2>1, <3>2, RestIs DEF AllOwn
        <3>4. Holds(c, {}, q2, p, g)
            BY <2>1, <3>3 DEF Holds
        <3> QED
            BY <2>1, <3>1, <3>4, RestElse
    <2> QED
        BY <2>2, <2>3
<1> QED
    BY <1>5, <1>6

(***************************************************************************)
(* Changing an entity.                                                     *)
(***************************************************************************)
Changed(s, e, x, S, U, B) ==
    [s EXCEPT !.ents[e] = x, !.stranded = S, !.untold = U, !.blurred = B]
Changing(s, e, x, S, U, B, u) ==
    /\ u \in Brokers /\ u.out = s.out /\ u.view = s.view /\ u.online = s.online
    /\ u.stranded = S /\ u.untold = U /\ u.blurred = B /\ u.holder = s.holder
    /\ u.ents[e] = x /\ Live(u, e)
    /\ \A y \in Entities : y # e => u.ents[y] = s.ents[y] /\ (Live(u, y) <=> Live(s, y))
    /\ StagedLive(s) => StagedLive(u)
    /\ u.writes = s.writes /\ u.handoffs = s.handoffs /\ u.failovers = s.failovers
    /\ u.intents = s.intents /\ u.degraded = s.degraded

LEMMA ChangedIs ==
    ASSUME NEW s \in Brokers, NEW e \in Entities, NEW x \in Placed,
           NEW S \in SUBSET Entities, NEW U \in SUBSET Pairs, NEW B \in SUBSET Pairs
    PROVE  Changing(s, e, x, S, U, B, Changed(s, e, x, S, U, B))
<1> DEFINE u == Changed(s, e, x, S, U, B)
<1>1. x # None
    BY NoneIs
<1>2. s.ents \in [Entities -> Placed \cup {None}]
    BY DEF Brokers
<1>3. u \in Brokers
    BY DEF Changed, Brokers
<1>4. /\ u.out = s.out /\ u.view = s.view /\ u.online = s.online
      /\ u.stranded = S /\ u.untold = U /\ u.blurred = B /\ u.holder = s.holder
      /\ u.ents = [s.ents EXCEPT ![e] = x]
      /\ u.writes = s.writes /\ u.handoffs = s.handoffs /\ u.failovers = s.failovers
      /\ u.intents = s.intents /\ u.degraded = s.degraded
    BY DEF Changed, Brokers
<1> HIDE DEF u
<1>5. u.ents[e] = x /\ \A y \in Entities : y # e => u.ents[y] = s.ents[y]
    BY <1>2, <1>4
<1>6. Live(u, e) /\ \A y \in Entities : (y # e => (Live(u, y) <=> Live(s, y))) /\ (Live(s, y) => Live(u, y))
    BY <1>1, <1>5 DEF Live
<1>7. ASSUME StagedLive(s) PROVE StagedLive(u)
    BY <1>4, <1>6, <1>7, StagedOn
<1> QED
    BY <1>3, <1>4, <1>5, <1>6, <1>7 DEF Changing, u

\* What changes without a word.
LEMMA Quiet ==
    ASSUME NEW c, NEW r, NEW r2, NEW q, NEW q2, NEW p, NEW p2, NEW s, Holds(c, r, q, p, s),
           NEW t \in Brokers, t.online = s.online, t.out = s.out, StagedLive(t),
           \A v \in s.online, x \in Entities : Kept(c, r, r2, q, q2, p, p2, s, t, v, x)
    PROVE  Holds(c, r2, q2, p2, t)
<1>1. Adopts(c, s) /\ \A v \in Workers : Ear(c, s, v) \in Mind
    BY HoldsIs
<1>2. Adopts(c, t) /\ \A v : Ear(c, t, v) = Ear(c, s, v)
    BY <1>1, Silent
<1>3. \A v \in Workers : Ear(c, t, v) \in Mind
    BY <1>1, <1>2
<1> QED
    BY <1>2, <1>3, Keeps

\* A new owner, of whom nothing is asked yet; who had it is remembered as not told.
LEMMA RegrantKeeps ==
    ASSUME NEW c, NEW q, NEW s, Holds(c, {}, q, {}, s), NEW new \in Workers,
           NEW g \in [eid : Entities, authority : Authority], Live(s, g.eid),
           g.authority.owner = new
    PROVE  LET t == Regrant(s, new, g) IN
           Holds(c, {}, q \ (Workers \X {g.eid}), {}, t) /\ Else(s, t, g.eid)
<1> DEFINE e == g.eid
           loser == s.ents[e].owner
           lost == IF loser \in s.online \ {new} THEN {<<loser, e>>} ELSE {}
           next == [Snapshot(s, e, g.authority) EXCEPT !.stranded = @ \ {e}, !.untold = @ \cup lost]
           x == [s.ents[e] EXCEPT !.owner = g.authority.owner, !.epoch = g.authority.epoch]
           S == s.stranded \ {e}
           U == s.untold \cup lost
           u == Changed(s, e, x, S, U, s.blurred)
           q1 == q \cup {<<new, e>>}
           q2 == q \ (Workers \X {e})
           t == Regrant(s, new, g)
<1>1. /\ s \in Brokers /\ s.online \subseteq Workers /\ StagedLive(s)
      /\ e \in Entities /\ g.authority \in Authority /\ None \notin Workers
    BY HoldsIs, NoneIs
<1>2. /\ s.ents[e] \in Placed /\ s.ents[e].pos \in Points /\ s.ents[e].region \in Sides
      /\ g.authority.epoch \in Nat
    BY <1>1, PlacedIs DEF Authority
<1>x. x \in Placed /\ x.owner = new /\ x.pos = s.ents[e].pos /\ x.region = s.ents[e].region
    BY <1>2 DEF Placed
<1>3. next = u
    <2> DEFINE a == [s.ents EXCEPT ![e] = x]
    <2>1. Snapshot(s, e, g.authority) = [s EXCEPT !.ents = a]
        BY <1>1, <1>2 DEF Snapshot, Brokers, Placed
    <2> HIDE DEF x, lost
    <2>2. u = [s EXCEPT !.ents = a, !.stranded = S, !.untold = U]
        BY <1>1 DEF Changed, Brokers
    <2> HIDE DEF a, u
    <2> QED
        BY <1>1, <2>1, <2>2 DEF Brokers
<1>4. Changing(s, e, x, S, U, s.blurred, u)
    <2>2. lost \in SUBSET Pairs
        BY <1>1 DEF Pairs
    <2>3. S \in SUBSET Entities /\ U \in SUBSET Pairs /\ s.blurred \in SUBSET Pairs
        BY <1>1, <2>2 DEF Brokers
    <2> HIDE DEF x, S, U, lost
    <2> QED
        BY <1>1, <1>x, <2>3, ChangedIs
<1> HIDE DEF u, x
<1>5. /\ u \in Brokers /\ u.out = s.out /\ u.view = s.view /\ u.online = s.online
      /\ u.stranded = S /\ u.untold = U /\ u.blurred = s.blurred /\ u.holder = s.holder
      /\ u.ents[e] = x /\ Live(u, e) /\ StagedLive(u)
      /\ \A y \in Entities : y # e => u.ents[y] = s.ents[y] /\ (Live(u, y) <=> Live(s, y))
    BY <1>1, <1>4 DEF Changing
<1>6. Else(s, u, e)
    BY <1>4, <1>x DEF Changing, Else
<1>7. Responsible(u, e) = new /\ u.ents[e].owner = new
    BY <1>1, <1>5, <1>x DEF Responsible
<1>8. \A v : Ear(c, u, v) = Ear(c, s, v)
    BY <1>5, Silent
<1>9. ASSUME NEW v \in s.online, NEW y \in Entities
      PROVE  Kept(c, {}, {}, q, q1, {}, {}, s, u, v, y)
    <2>1. CASE y # e
        <3>1. u.ents[y] = s.ents[y] /\ Responsible(u, y) = Responsible(s, y)
            BY <1>5, <2>1 DEF Responsible, HolderOf
        <3>2. /\ y \in s.stranded => y \in u.stranded
              /\ <<v, y>> \in s.untold => <<v, y>> \in u.untold
            BY <1>5, <2>1
        <3>3. Alike(c, s, u, v, y)
            BY <1>5, <1>8, <3>1, <3>2 DEF Alike
        <3> QED
            BY <3>3 DEF Kept
    <2>2. CASE y = e
        <3>1. Shown(u, v, y)
            BY <1>5, <2>2 DEF Shown
        <3>2. OwnOnly(c, u, v, y)
            <4>1. SUFFICES ASSUME Simulates(c, u, v, e), v # new PROVE <<v, e>> \in U
                BY <1>5, <1>7, <2>2 DEF OwnOnly
            <4>2. OwnOnly(c, s, v, e) /\ Simulates(c, s, v, e)
                BY <1>8, <2>2, <4>1, HoldsOwn DEF Simulates
            <4> QED
                BY <4>1, <4>2 DEF OwnOnly
        <3>3. <<v, y>> \notin q1 => AllOwn(c, u, v, y)
            BY <1>7, <2>2 DEF AllOwn
        <3>4. Placid(c, u, v, y)
            <4>1. Placid(c, s, v, e)
                BY HoldsPlacid, <2>2
            <4>2. u.ents[e].pos = s.ents[e].pos
                BY <1>5, <1>x
            <4> QED
                BY <1>5, <1>8, <2>2, <4>1, <4>2 DEF Placid
        <3> QED
            BY <3>1, <3>2, <3>3, <3>4 DEF Kept
    <2> QED
        BY <2>1, <2>2
<1> HIDE DEF S, U
<1>10. Holds(c, {}, q1, {}, u)
    BY <1>5, <1>9, Quiet
<1>11. CASE new \notin s.online
    <2>1. t = u
        BY <1>3, <1>11 DEF Regrant
    <2>2. ASSUME NEW v \in u.online PROVE AllOwn(c, u, v, e)
        BY <1>5, <1>7, <1>11, <2>2 DEF AllOwn
    <2>3. Holds(c, {}, q2, {}, u)
        BY <1>1, <1>10, <2>2, HoldsFewer
    <2> QED
        BY <1>6, <2>1, <2>3
<1>12. CASE new \in s.online
    <2> DEFINE sent == SendFull(u, new, e)
               shown == IF e \in u.view[new] THEN u ELSE sent
    <2>1. Holds(c, {}, q1, {}, shown) /\ Rest(u, shown) /\ e \in shown.view[new]
        <3>1. Holds(c, {}, q1, {} \ {<<new, e>>}, sent) /\ Rest(u, sent) /\ e \in sent.view[new]
            BY <1>1, <1>5, <1>10, <1>12, SendFullKeeps
        <3>2. {} \ {<<new, e>>} = {}
            OBVIOUS
        <3> HIDE DEF sent, q1
        <3> QED
            BY <1>10, <3>1, <3>2, RestSelf
    <2>2. t = Grant(shown, new, e)
        BY <1>3, <1>12 DEF Regrant
    <2> HIDE DEF shown, q1
    <2>3. shown.online = s.online /\ Live(shown, e) /\ shown.ents[e].owner = new
        BY <1>5, <1>7, <2>1, RestIs
    <2>4. Alone(c, shown, new, e)
        <3>1. SUFFICES ASSUME NEW v \in shown.online, v # new, Simulates(c, shown, v, e)
                       PROVE  <<v, e>> \in shown.untold
            BY DEF Alone
        <3>2. OwnOnly(c, shown, v, e)
            BY <1>1, <2>1, HoldsOwn
        <3> QED
            BY <2>3, <3>1, <3>2 DEF OwnOnly
    <2> DEFINE k == Grant(shown, new, e)
               q3 == q1 \ (Workers \X {e})
               r3 == {} \ (Workers \X {e})
    <2>5. <<new, e>> \notin {}
        OBVIOUS
    <2>6. Holds(c, r3, q3, {}, k) /\ Else(shown, k, e)
        BY <1>1, <1>12, <2>1, <2>3, <2>4, <2>5, GrantKeeps
    <2>7. q3 \subseteq q2 /\ r3 \subseteq {}
        BY DEF q1
    <2> HIDE DEF k, q3, r3, q2, t
    <2>8. Holds(c, {}, q2, {}, k)
        BY <2>6, <2>7, HoldsMore
    <2>9. Else(s, k, e)
        <3>1. Else(u, shown, e)
            BY <2>1, RestElse
        <3>2. Else(s, shown, e)
            BY <1>1, <1>6, <3>1, ElseOn
        <3> QED
            BY <1>1, <2>6, <3>2, ElseOn
    <2> QED
        BY <2>2, <2>8, <2>9 DEF k, q2, t
<1> QED
    BY <1>11, <1>12

(***************************************************************************)
(* A failover.                                                             *)
(***************************************************************************)
\* The same are connected and there, and the same is staged.
Company(s, t) ==
    /\ t.online = s.online /\ \A x \in Entities : Live(t, x) <=> Live(s, x)
    /\ t.writes = s.writes /\ t.handoffs = s.handoffs /\ t.failovers = s.failovers

LEMMA ElseIs == ASSUME NEW s, NEW t, NEW e, Else(s, t, e) PROVE Company(s, t) /\ t.holder = s.holder
BY DEF Else, Company
LEMMA CompanySelf == ASSUME NEW s PROVE Company(s, s)
BY DEF Company
LEMMA CompanyOn == ASSUME NEW s, NEW t, NEW u, Company(s, t), Company(t, u) PROVE Company(s, u)
BY DEF Company

Missed(s, f) == {e \in Entities : /\ Live(s, e) /\ s.ents[e].region = f.region
                                  /\ s.ents[e].owner = None /\ \A g \in f.grants : g.eid # e}
LEMMA FailoverOfIs ==
    ASSUME NEW s \in Brokers, StagedLive(s), NEW f \in Failovers
    PROVE  LET u == FailoverOf(s, f) IN
           /\ u \in Brokers /\ u.online = s.online /\ u.out = s.out /\ u.ents = s.ents
           /\ u.view = s.view /\ u.untold = s.untold /\ u.blurred = s.blurred
           /\ u.stranded = s.stranded \cup Missed(s, f) /\ StagedLive(u)
           /\ u.holder[f.region] = f.new
           /\ \A y \in Sides : y # f.region => u.holder[y] = s.holder[y]
           /\ Company(s, u)
<1> DEFINE M == Missed(s, f)
           u == FailoverOf(s, f)
<1>1. M \subseteq Entities /\ f.region \in Sides /\ f.new \in Workers
    BY DEF Missed, Failovers
<1>2. u = [s EXCEPT !.holder[f.region] = f.new, !.lapsed = @ \ {f.region},
                    !.serves[f.new] = IF f.new \in s.online THEN f.region ELSE @,
                    !.stranded = @ \cup M]
    BY DEF FailoverOf, Missed
<1> HIDE DEF M
<1> DEFINE k == IF f.new \in s.online THEN f.region ELSE s.serves[f.new]
<1>3. /\ [s.holder EXCEPT ![f.region] = f.new] \in [Sides -> Workers \cup {None}]
      /\ [s.serves EXCEPT ![f.new] = k] \in [Workers -> Sides \cup {"STANDBY", None}]
      /\ s.lapsed \ {f.region} \in SUBSET Sides /\ s.stranded \cup M \in SUBSET Entities
    BY <1>1 DEF Brokers
<1>4. u = [s EXCEPT !.holder = [s.holder EXCEPT ![f.region] = f.new], !.lapsed = s.lapsed \ {f.region},
                    !.serves = [s.serves EXCEPT ![f.new] = k], !.stranded = s.stranded \cup M]
    BY <1>2 DEF Brokers
<1> HIDE DEF u, k
<1>5. /\ u \in Brokers /\ u.online = s.online /\ u.out = s.out /\ u.ents = s.ents
      /\ u.view = s.view /\ u.untold = s.untold /\ u.blurred = s.blurred
      /\ u.stranded = s.stranded \cup M /\ u.holder = [s.holder EXCEPT ![f.region] = f.new]
      /\ u.writes = s.writes /\ u.handoffs = s.handoffs /\ u.failovers = s.failovers
    BY <1>3, <1>4 DEF Brokers
<1>6. \A x : Live(u, x) <=> Live(s, x)
    BY <1>5 DEF Live
<1>7. StagedLive(u) /\ Company(s, u)
    BY <1>5, <1>6 DEF StagedLive, Company
<1>8. u.holder[f.region] = f.new /\ \A y \in Sides : y # f.region => u.holder[y] = s.holder[y]
    BY <1>1, <1>5 DEF Brokers
<1> QED
    BY <1>5, <1>7, <1>8 DEF u, M

\* Who takes a region answers for what nobody owns there: it is to be granted, or was missed.
LEMMA FailoverTakes ==
    ASSUME NEW c, NEW s, Holds(c, {}, {}, {}, s), NEW f \in Failovers,
           NEW q, \A g \in f.grants : <<f.new, g.eid>> \in q
    PROVE  LET u == FailoverOf(s, f) IN Holds(c, {}, q, {}, u) /\ Company(s, u)
<1> DEFINE u == FailoverOf(s, f)
<1>1. s \in Brokers /\ StagedLive(s) /\ None \notin Workers /\ s.online \subseteq Workers
    BY HoldsIs, NoneIs
<1>2. /\ u \in Brokers /\ u.online = s.online /\ u.out = s.out /\ u.ents = s.ents
      /\ u.view = s.view /\ u.untold = s.untold /\ u.blurred = s.blurred
      /\ u.stranded = s.stranded \cup Missed(s, f) /\ StagedLive(u)
      /\ u.holder[f.region] = f.new
      /\ \A y \in Sides : y # f.region => u.holder[y] = s.holder[y]
      /\ Company(s, u)
    BY <1>1, FailoverOfIs
<1> HIDE DEF u
<1>3. \A v : Ear(c, u, v) = Ear(c, s, v)
    BY <1>2, Silent
<1>4. ASSUME NEW v \in s.online, NEW x \in Entities
      PROVE  Kept(c, {}, {}, {}, q, {}, {}, s, u, v, x)
    <2>1. CASE Live(s, x) => Responsible(u, x) = Responsible(s, x)
        <3>1. Alike(c, s, u, v, x)
            BY <1>2, <1>3, <2>1 DEF Alike
        <3> QED
            BY <3>1 DEF Kept
    <2>2. CASE Live(s, x) /\ Responsible(u, x) # Responsible(s, x)
        <3>1. s.ents[x].owner = None /\ s.ents[x].region = f.region /\ Responsible(u, x) = f.new
            <4>1. s.ents[x].region \in Sides
                BY <1>1, <2>2, PlacedIs
            <4> QED
                BY <1>2, <2>2, <4>1 DEF Responsible, HolderOf
        <3>2. <<v, x>> \notin q => AllOwn(c, u, v, x)
            <4>1. CASE \E g \in f.grants : g.eid = x
                BY <3>1, <4>1 DEF AllOwn
            <4>2. CASE ~\E g \in f.grants : g.eid = x
                <5>1. x \in Missed(s, f)
                    BY <2>2, <3>1, <4>2 DEF Missed
                <5> QED
                    BY <1>2, <5>1 DEF AllOwn
            <4> QED
                BY <4>1, <4>2
        <3>3. Shown(u, v, x)
            BY <1>2, <2>2 DEF Shown, Live
        <3>4. OwnOnly(c, s, v, x) /\ Placid(c, s, v, x)
            BY HoldsOwn, HoldsPlacid
        <3>5. OwnOnly(c, u, v, x) /\ Placid(c, u, v, x)
            BY <1>2, <1>3, <3>4 DEF OwnOnly, Placid, Simulates, Live
        <3> QED
            BY <3>2, <3>3, <3>5 DEF Kept
    <2> QED
        BY <2>1, <2>2
<1>5. Holds(c, {}, q, {}, u)
    BY <1>2, <1>4, Quiet
<1> QED
    BY <1>2, <1>5 DEF u

LEMMA FailoverKeeps ==
    ASSUME NEW c, NEW s, Holds(c, {}, {}, {}, s), NEW f \in Failovers, IsFiniteSet(f.grants),
           \A g \in f.grants : Live(s, g.eid) /\ g.authority.owner = f.new
    PROVE  LET t == ApplyFailover(s, f) IN Holds(c, {}, {}, {}, t) /\ Company(s, t)
<1> DEFINE u == FailoverOf(s, f)
           t == ApplyFailover(s, f)
           q == SetToSeq(f.grants)
           n == Len(q)
           left(k) == {<<f.new, q[i].eid>> : i \in (k + 1)..n}
<1>1. q \in Seq(f.grants) /\ \A g \in f.grants : \E i \in DOMAIN q : q[i] = g
    BY SetToSeqIs
<1>2. Ends("regrant", f.new, u, q, t)
    BY <1>1, FailoverRuns
<1> HIDE DEF q, u, t
<1>3. PICK run : Runs("regrant", f.new, u, q, n, run) /\ t = run[n]
    BY <1>2 DEF Ends
<1> DEFINE good == {k \in 0..n : Holds(c, {}, left(k), {}, run[k]) /\ Company(s, run[k])}
<1>4. n \in Nat /\ DOMAIN q = 1..n
    BY <1>1
<1>5. 0 \in good
    <2>1. \A g \in f.grants : <<f.new, g.eid>> \in left(0)
        BY <1>1, <1>4
    <2> HIDE DEF left
    <2>2. Holds(c, {}, left(0), {}, u) /\ Company(s, u)
        BY <2>1, FailoverTakes DEF u
    <2> QED
        BY <1>3, <1>4, <2>2 DEF Runs
<1>6. ASSUME NEW k \in 1..n, k - 1 \in good PROVE k \in good
    <2> DEFINE g == q[k]
               p == left(k - 1)
               y == run[k - 1]
    <2>1. Holds(c, {}, p, {}, y) /\ Company(s, y)
        BY <1>6
    <2>2. g \in f.grants /\ f.new \in Workers /\ g \in [eid : Entities, authority : Authority]
        BY <1>1, <1>4 DEF Failovers
    <2>3. Live(y, g.eid) /\ g.authority.owner = f.new
        BY <2>1, <2>2 DEF Company
    <2>4. run[k] = Regrant(y, f.new, g)
        BY <1>3 DEF Runs, Step
    <2>5. p \ (Workers \X {g.eid}) \subseteq left(k)
        <3>1. ASSUME NEW i \in ((k - 1) + 1)..n, q[i].eid # g.eid PROVE i \in (k + 1)..n
            BY <1>4, <3>1
        <3> QED
            BY <2>2, <3>1
    <2> HIDE DEF g, p, y, left
    <2>6. Holds(c, {}, p \ (Workers \X {g.eid}), {}, run[k]) /\ Else(y, run[k], g.eid)
        <3> DEFINE z == Regrant(y, f.new, g)
        <3>1. Holds(c, {}, p \ (Workers \X {g.eid}), {}, z) /\ Else(y, z, g.eid)
            BY <2>1, <2>2, <2>3, RegrantKeeps
        <3> QED
            BY <2>4, <3>1
    <2>7. Holds(c, {}, left(k), {}, run[k])
        BY <2>5, <2>6, HoldsMore
    <2>8. Company(s, run[k])
        BY <2>1, <2>6, ElseIs, CompanyOn
    <2> QED
        BY <2>7, <2>8
<1> HIDE DEF good, n
<1>7. n \in good
    <2>1. \A k \in 1..n : k - 1 \in good => k \in good
        BY <1>6
    <2>2. n \in 0..n
        BY <1>4
    <2>3. \A k \in 0..n : k \in good
        BY <1>4, <1>5, <2>1, Along
    <2> QED
        BY <2>2, <2>3
<1>8. left(n) = {}
    <2>1. (n + 1)..n = {}
        BY <1>4
    <2> QED
        BY <2>1
<1> QED
    BY <1>3, <1>7, <1>8 DEF good, t

(***************************************************************************)
(* A hand-off.                                                             *)
(***************************************************************************)
\* However late, it is of an entity that is there, and gives to the worker it names.
Meant(s, h) == Live(s, h.eid) /\ (h.moved => h.authority.owner = h.new)
\* Only e may be elsewhere, or another's.
Besides(s, t, e) ==
    /\ Company(s, t) /\ t.holder = s.holder
    /\ \A x \in Entities : x # e => t.ents[x] = s.ents[x]

LEMMA ElseBesides == ASSUME NEW s, NEW t, NEW e, Else(s, t, e) PROVE Besides(s, t, e)
BY DEF Else, Besides, Company
LEMMA RestBesides == ASSUME NEW s, NEW t, NEW e, Rest(s, t) PROVE Besides(s, t, e)
BY RestElse, ElseBesides
LEMMA BesidesOn ==
    ASSUME NEW s, NEW t, NEW u, NEW e, Besides(s, t, e), Besides(t, u, e) PROVE Besides(s, u, e)
BY DEF Besides, Company

Blur(s, h) == IF h.pos = s.ents[h.eid].pos THEN {} ELSE {<<w, h.eid>> : w \in s.online}
\* Who has it when the hand-off comes is told only if it had it then, or is to have it.
Lost(s, h) ==
    LET loser == s.ents[h.eid].owner IN
    IF loser \in s.online \ (IF h.moved THEN {h.old, h.new} ELSE {h.authority.owner})
    THEN {<<loser, h.eid>>} ELSE {}
Same(s, h) ==
    LET loser == s.ents[h.eid].owner IN
    loser # None /\ h.authority = [owner |-> loser, epoch |-> s.ents[h.eid].epoch]
Put(k, e, pos, to, blur, lost) ==
    [k EXCEPT !.ents[e].pos = pos, !.ents[e].region = to, !.blurred = @ \cup blur,
              !.untold = @ \cup lost]
PutOn(k, e, pos, to, blur, lost) ==
    [k EXCEPT !.ents = [k.ents EXCEPT ![e] = [k.ents[e] EXCEPT !.pos = pos, !.region = to]],
              !.blurred = k.blurred \cup blur, !.untold = k.untold \cup lost]
PlacedBy(s, h) ==
    LET placed == Put(Snapshot(s, h.eid, h.authority), h.eid, h.pos, h.to, Blur(s, h), Lost(s, h))
    IN  IF Same(s, h) \/ (h.moved /\ h.new \in s.online) THEN placed ELSE Strand(placed, h.eid)
StrandedBy(s, h) ==
    IF Same(s, h) \/ (h.moved /\ h.new \in s.online) THEN s.stranded ELSE s.stranded \cup {h.eid}
TakenBy(s, h) ==
    IF h.moved /\ h.old \in s.online THEN Revoke(PlacedBy(s, h), h.old, h.eid) ELSE PlacedBy(s, h)
ShownBy(s, h) ==
    LET taken == TakenBy(s, h) IN
    IF h.new \in s.online /\ h.eid \notin taken.view[h.new]
    THEN SendFull(taken, h.new, h.eid) ELSE taken

LEMMA HandoffIs ==
    ASSUME NEW s, NEW h
    PROVE  ApplyHandoff(s, h) = IF h.moved /\ h.new \in s.online
                                THEN Grant(ShownBy(s, h), h.new, h.eid) ELSE ShownBy(s, h)
BY Zenon DEF ApplyHandoff, ShownBy, TakenBy, PlacedBy, Blur, Lost, Same, Put

LEMMA PutThere ==
    ASSUME NEW k \in Brokers, NEW e \in Entities, k.ents[e] \in Placed, NEW p, NEW r, NEW b, NEW l
    PROVE  Put(k, e, p, r, b, l) = PutOn(k, e, p, r, b, l)
<1>1. [k EXCEPT !.ents[e].pos = p, !.ents[e].region = r]
      = [k EXCEPT !.ents = [k.ents EXCEPT ![e] = [k.ents[e] EXCEPT !.pos = p, !.region = r]]]
    BY DEF Placed, Brokers
<1>2. ASSUME NEW f, NEW g
      PROVE  [[k EXCEPT !.ents[e].pos = p, !.ents[e].region = r] EXCEPT !.blurred = f, !.untold = g]
             = [[k EXCEPT !.ents = [k.ents EXCEPT ![e] = [k.ents[e] EXCEPT !.pos = p, !.region = r]]]
                EXCEPT !.blurred = f, !.untold = g]
    BY <1>1
<1>3. /\ [k EXCEPT !.ents[e].pos = p, !.ents[e].region = r].blurred = k.blurred
      /\ [k EXCEPT !.ents = [k.ents EXCEPT ![e] = [k.ents[e] EXCEPT !.pos = p, !.region = r]]].blurred = k.blurred
      /\ [k EXCEPT !.ents[e].pos = p, !.ents[e].region = r].untold = k.untold
      /\ [k EXCEPT !.ents = [k.ents EXCEPT ![e] = [k.ents[e] EXCEPT !.pos = p, !.region = r]]].untold = k.untold
    BY DEF Brokers
<1> QED
    BY <1>2, <1>3 DEF Brokers, Put, PutOn

LEMMA PlacedByIs ==
    ASSUME NEW s \in Brokers, NEW h \in Handoffs, Meant(s, h)
    PROVE  LET u == PlacedBy(s, h) IN
           \E x \in Placed : /\ Changing(s, h.eid, x, StrandedBy(s, h), s.untold \cup Lost(s, h),
                                         s.blurred \cup Blur(s, h), u)
                             /\ x.pos = h.pos /\ x.region = h.to
                             /\ x.owner = h.authority.owner /\ x.epoch = h.authority.epoch
<1> DEFINE e == h.eid
           S == StrandedBy(s, h)
           U == s.untold \cup Lost(s, h)
           B == s.blurred \cup Blur(s, h)
           y == [s.ents[e] EXCEPT !.owner = h.authority.owner, !.epoch = h.authority.epoch]
           x == [y EXCEPT !.pos = h.pos, !.region = h.to]
           u == PlacedBy(s, h)
<1>1. /\ e \in Entities /\ h.pos \in Points /\ h.to \in Sides /\ h.authority \in Authority
      /\ h.moved \in BOOLEAN /\ Live(s, e) /\ s.online \subseteq Workers
    BY DEF Handoffs, Meant, Brokers
<1>2. s.ents[e] \in Placed
    BY <1>1, PlacedIs
<1>3. y \in Placed /\ y.owner = h.authority.owner /\ y.epoch = h.authority.epoch
    BY <1>1, <1>2 DEF Placed, Authority
<1>4. /\ x \in Placed /\ x.pos = h.pos /\ x.region = h.to
      /\ x.owner = h.authority.owner /\ x.epoch = h.authority.epoch
    <2> HIDE DEF y
    <2> QED
        BY <1>1, <1>3 DEF Placed
<1>5. S \in SUBSET Entities /\ U \in SUBSET Pairs /\ B \in SUBSET Pairs
    <2>1. Blur(s, h) \in SUBSET Pairs /\ Lost(s, h) \in SUBSET Pairs
        BY <1>1 DEF Blur, Lost, Pairs
    <2> QED
        BY <1>1, <2>1 DEF Brokers, StrandedBy
<1>6. s.ents \in [Entities -> Placed \cup {None}]
    BY DEF Brokers
<1>7. u = Changed(s, e, x, S, U, B)
    <2> DEFINE k == Snapshot(s, e, h.authority)
               l == Put(k, e, h.pos, h.to, Blur(s, h), Lost(s, h))
               z == [s.ents EXCEPT ![e] = x]
    <2>1. k = [s EXCEPT !.ents = [s.ents EXCEPT ![e] = y]]
        <3>1. k = [s EXCEPT !.ents = [s.ents EXCEPT ![e] = [s.ents[e] EXCEPT !.owner = h.authority.owner, !.epoch = h.authority.epoch]]]
            BY <1>1, <1>2, <1>6 DEF Snapshot, Brokers, Placed
        <3> QED
            BY <3>1
    <2>2. /\ k.ents = [s.ents EXCEPT ![e] = y] /\ k.ents[e] = y /\ k.blurred = s.blurred
          /\ k.stranded = s.stranded /\ k.untold = s.untold
        <3> HIDE DEF y, k
        <3> QED
            BY <1>1, <1>6, <2>1 DEF Brokers
    <2>k. k \in Brokers
        <3>1. [s.ents EXCEPT ![e] = y] \in [Entities -> Placed \cup {None}]
            BY <1>1, <1>3, <1>6
        <3> HIDE DEF y, k
        <3> QED
            BY <2>1, <3>1 DEF Brokers
    <2>3. l = [s EXCEPT !.ents = z, !.blurred = B, !.untold = U]
        <3>1. l = [k EXCEPT !.ents = [k.ents EXCEPT ![e] = [k.ents[e] EXCEPT !.pos = h.pos, !.region = h.to]],
                            !.blurred = k.blurred \cup Blur(s, h), !.untold = k.untold \cup Lost(s, h)]
            <4> HIDE DEF y
            <4>1. k.ents[e] \in Placed /\ k.ents = [s.ents EXCEPT ![e] = y]
                BY <1>3, <2>2
            <4>2. e \in Entities /\ k.ents \in [Entities -> Placed \cup {None}]
                BY <1>1, <2>k DEF Brokers
            <4> HIDE DEF k
            <4>3. l = PutOn(k, e, h.pos, h.to, Blur(s, h), Lost(s, h))
                BY <2>k, <4>1, <4>2, PutThere
            <4> QED
                BY <4>3 DEF PutOn
        <3>2. [k.ents EXCEPT ![e] = [k.ents[e] EXCEPT !.pos = h.pos, !.region = h.to]] = z
            <4> HIDE DEF y, k
            <4>1. [k.ents EXCEPT ![e] = x] = z
                BY <1>1, <1>6, <2>2
            <4> QED
                BY <2>2, <4>1
        <3>3. k.blurred \cup Blur(s, h) = B /\ k.untold \cup Lost(s, h) = U
            BY <2>2
        <3>4. l = [k EXCEPT !.ents = z, !.blurred = B, !.untold = U]
            <4> HIDE DEF k, l, z, B, U
            <4> QED
                BY <3>1, <3>2, <3>3
        <3> DEFINE a == [s.ents EXCEPT ![e] = y]
        <3>5. k = [s EXCEPT !.ents = a]
            BY <2>1
        <3> HIDE DEF k, l, z, B, U, a
        <3> QED
            BY <3>4, <3>5 DEF Brokers
    <2> DEFINE calm == Same(s, h) \/ (h.moved /\ h.new \in s.online)
    <2>4. u = IF calm THEN l ELSE Strand(l, e)
        BY DEF PlacedBy
    <2>5. Changed(s, e, x, S, U, B) = [s EXCEPT !.ents = z, !.stranded = S, !.untold = U, !.blurred = B]
        <3> HIDE DEF x, S, U, B
        <3> QED
            BY DEF Changed, Brokers
    <2>6. S = IF calm THEN s.stranded ELSE s.stranded \cup {e}
        BY DEF StrandedBy
    <2> HIDE DEF l, z, B, U, S, x, y, u, calm
    <2>7. CASE ~calm
        <3> DEFINE D == s.stranded \cup {e}
        <3>1. S = D /\ l.stranded = s.stranded
            BY <2>3, <2>6, <2>7 DEF Brokers
        <3>2. u = [l EXCEPT !.stranded = D]
            BY <2>4, <2>7, <3>1 DEF Strand
        <3> HIDE DEF D
        <3> QED
            BY <2>3, <2>5, <3>1, <3>2 DEF Brokers
    <2>8. CASE calm
        BY <2>3, <2>4, <2>5, <2>6, <2>8 DEF Brokers
    <2> QED
        BY <2>7, <2>8
<1> HIDE DEF x, S, U, B, u
<1>8. Changing(s, e, x, S, U, B, u)
    BY <1>1, <1>4, <1>5, <1>7, ChangedIs
<1> QED
    BY <1>4, <1>8 DEF u, S, U, B

\* Where it is put down, who had it when it was staged has yet to be told, who has it now is
\* remembered as not told, and who is to have it to be granted.
LEMMA HandoffPlaces ==
    ASSUME NEW c, NEW s, Holds(c, {}, {}, {}, s), NEW h \in Handoffs, Meant(s, h)
    PROVE  LET u == PlacedBy(s, h)
               r1 == IF h.moved THEN {<<h.old, h.eid>>} ELSE {}
               q1 == IF h.moved THEN Workers \X {h.eid} ELSE {} IN
           /\ Holds(c, r1, q1, {}, u) /\ Besides(s, u, h.eid)
           /\ u.ents[h.eid].owner = h.authority.owner
           /\ h.moved /\ h.new \notin s.online => h.eid \in u.stranded \/ h.new # None
<1> DEFINE u == PlacedBy(s, h)
           e == h.eid
           r1 == IF h.moved THEN {<<h.old, e>>} ELSE {}
           q1 == IF h.moved THEN Workers \X {e} ELSE {}
           S == StrandedBy(s, h)
           U == s.untold \cup Lost(s, h)
           B == s.blurred \cup Blur(s, h)
           loser == s.ents[e].owner
<1>1. /\ s \in Brokers /\ StagedLive(s) /\ None \notin Workers /\ s.online \subseteq Workers
      /\ e \in Entities /\ Live(s, e) /\ h.moved \in BOOLEAN
      /\ h.moved => h.authority.owner = h.new
    BY HoldsIs, NoneIs DEF Handoffs, Meant
<1>2. PICK x \in Placed : /\ Changing(s, e, x, S, U, B, u) /\ x.pos = h.pos /\ x.region = h.to
                          /\ x.owner = h.authority.owner /\ x.epoch = h.authority.epoch
    <2> HIDE DEF u, B, S, U
    <2> QED
        BY <1>1, PlacedByIs DEF u, B, S, U
<1> HIDE DEF u
<1>4. /\ u \in Brokers /\ u.out = s.out /\ u.view = s.view /\ u.online = s.online
      /\ u.stranded = S /\ u.untold = U /\ u.blurred = B /\ u.holder = s.holder
      /\ u.ents[e] = x /\ Live(u, e) /\ StagedLive(u)
      /\ \A y \in Entities : y # e => u.ents[y] = s.ents[y] /\ (Live(u, y) <=> Live(s, y))
      /\ u.writes = s.writes /\ u.handoffs = s.handoffs /\ u.failovers = s.failovers
    BY <1>1, <1>2 DEF Changing
<1>5. \A v : Ear(c, u, v) = Ear(c, s, v)
    BY <1>4, Silent
<1>6. Besides(s, u, e)
    BY <1>1, <1>4 DEF Besides, Company
<1>7. \A v \in s.online : h.pos # s.ents[e].pos => <<v, e>> \in B
    BY DEF Blur
<1>8. /\ \A y : y \in s.stranded => y \in S
      /\ ~Same(s, h) /\ ~(h.moved /\ h.new \in s.online) => e \in S
    BY DEF StrandedBy
<1>9. (\A y : y \in s.blurred => y \in B) /\ (\A y : y \in s.untold => y \in U)
    OBVIOUS
<1>l. loser \in s.online /\ loser # h.authority.owner /\ ~(h.moved /\ loser = h.old) => <<loser, e>> \in U
    BY <1>1 DEF Lost
<1>m. Same(s, h) => loser # None /\ h.authority.owner = loser /\ h.authority.epoch = s.ents[e].epoch
    BY DEF Same
<1> HIDE DEF S, U, B
<1>10. ASSUME NEW v \in s.online, NEW y \in Entities
       PROVE  Kept(c, {}, r1, {}, q1, {}, {}, s, u, v, y)
    <2>1. CASE y # e
        <3>1. u.ents[y] = s.ents[y] /\ Responsible(u, y) = Responsible(s, y)
            BY <1>4, <2>1 DEF Responsible, HolderOf
        <3>2. Alike(c, s, u, v, y)
            BY <1>4, <1>5, <1>8, <1>9, <3>1 DEF Alike
        <3> QED
            BY <3>2 DEF Kept
    <2>2. CASE y = e
        <3>1. Shown(u, v, y)
            BY <1>4, <2>2 DEF Shown
        <3>2. OwnOnly(c, s, v, e) /\ Placid(c, s, v, e)
            BY <1>1, HoldsOwn, HoldsPlacid
        <3>3. <<v, y>> \notin r1 => OwnOnly(c, u, v, y)
            <4>1. SUFFICES ASSUME ~(h.moved /\ v = h.old), Simulates(c, u, v, e),
                                  h.authority.owner # v
                           PROVE  <<v, e>> \in u.untold
                BY <1>2, <1>4, <2>2 DEF OwnOnly
            <4>2. Simulates(c, s, v, e)
                BY <1>5, <4>1 DEF Simulates
            <4>3. v = loser \/ <<v, e>> \in s.untold
                BY <3>2, <4>2 DEF OwnOnly
            <4> QED
                BY <1>4, <1>9, <1>l, <4>1, <4>3
        <3>4. <<v, y>> \notin q1 => AllOwn(c, u, v, y)
            <4>1. CASE h.moved
                BY <1>1, <2>2, <4>1
            <4>2. CASE ~h.moved
                <5>1. CASE ~Same(s, h)
                    BY <1>4, <1>8, <2>2, <4>2, <5>1 DEF AllOwn
                <5>2. CASE Same(s, h)
                    <6>1. AllOwn(c, s, v, e)
                        <7> DEFINE qq == {}
                        <7>1. <<v, e>> \notin qq /\ Holds(c, {}, qq, {}, s)
                            OBVIOUS
                        <7> HIDE DEF qq
                        <7> QED
                            BY <1>1, <7>1, HoldsAt
                    <6>2. Responsible(u, e) = loser /\ Responsible(s, e) = loser
                        BY <1>2, <1>4, <1>m, <5>2 DEF Responsible
                    <6> QED
                        BY <1>1, <1>2, <1>4, <1>5, <1>8, <1>m, <2>2, <5>2, <6>1, <6>2 DEF AllOwn, Simulates
                <5> QED
                    BY <5>1, <5>2
            <4> QED
                BY <4>1, <4>2
        <3>5. Placid(c, u, v, y)
            <4>1. SUFFICES ASSUME e \in s.view[v], <<v, e>> \notin B PROVE Ear(c, s, v).mirror[e] = h.pos
                BY <1>2, <1>4, <1>5, <2>2 DEF Placid
            <4>2. h.pos = s.ents[e].pos /\ <<v, e>> \notin s.blurred
                BY <1>7, <1>9, <4>1
            <4> QED
                BY <3>2, <4>1, <4>2 DEF Placid
        <3> QED
            BY <3>1, <3>3, <3>4, <3>5 DEF Kept
    <2> QED
        BY <2>1, <2>2
<1> HIDE DEF r1, q1
<1>11. Holds(c, r1, q1, {}, u)
    BY <1>4, <1>10, Quiet
<1>12. h.moved /\ h.new \notin s.online => e \in u.stranded \/ h.new # None
    BY <1>1, <1>4, <1>8, <1>m
<1> QED
    BY <1>2, <1>4, <1>6, <1>11, <1>12 DEF u, r1, q1

\* Nothing is asked of who is not connected.
LEMMA HoldsThere ==
    ASSUME NEW c, NEW r, NEW q, NEW p, NEW s, Holds(c, r, q, p, s), NEW r2,
           \A v \in s.online, x \in Entities : <<v, x>> \in r => <<v, x>> \in r2
    PROVE  Holds(c, r2, q, p, s)
BY DEF Holds

LEMMA HandoffKeeps ==
    ASSUME NEW c, NEW s, Holds(c, {}, {}, {}, s), NEW h \in Handoffs, Meant(s, h)
    PROVE  LET t == ApplyHandoff(s, h) IN Holds(c, {}, {}, {}, t) /\ Besides(s, t, h.eid)
<1> DEFINE e == h.eid
           W == Workers \X {e}
           o == h.old
           n == h.new
           r1 == IF h.moved THEN {<<o, e>>} ELSE {}
           q1 == IF h.moved THEN W ELSE {}
           u == PlacedBy(s, h)
           taken == TakenBy(s, h)
           shown == ShownBy(s, h)
           t == ApplyHandoff(s, h)
<1>1. /\ s \in Brokers /\ None \notin Workers /\ s.online \subseteq Workers
      /\ e \in Entities /\ Live(s, e) /\ h.moved \in BOOLEAN
      /\ n \in Workers \cup {None}
    BY HoldsIs, NoneIs DEF Handoffs, Meant
<1>2. /\ Holds(c, r1, q1, {}, u) /\ Besides(s, u, e)
      /\ u.ents[e].owner = h.authority.owner
      /\ h.moved /\ n \notin s.online => e \in u.stranded \/ n # None
    BY HandoffPlaces
<1>3. u.online = s.online /\ u.holder = s.holder /\ Live(u, e)
    BY <1>1, <1>2 DEF Besides, Company
<1>4. h.moved => h.authority.owner = n
    BY DEF Meant
<1>5. CASE ~h.moved
    <2>1. taken = u /\ t = shown
        BY <1>5, HandoffIs DEF TakenBy
    <2>2. Holds(c, {}, {}, {}, u)
        BY <1>2, <1>5
    <2> DEFINE sent == SendFull(u, n, e)
    <2>3. CASE n \in s.online /\ e \notin u.view[n]
        <3>1. shown = sent
            BY <2>1, <2>3 DEF ShownBy
        <3> HIDE DEF u
        <3>2. Holds(c, {}, {}, {} \ {<<n, e>>}, sent) /\ Rest(u, sent)
            BY <1>1, <1>3, <2>2, <2>3, SendFullKeeps
        <3>3. {} \ {<<n, e>>} = {}
            OBVIOUS
        <3> HIDE DEF sent, shown, t
        <3>4. Besides(s, sent, e)
            BY <1>2, <3>2, RestBesides, BesidesOn
        <3> QED
            BY <2>1, <3>1, <3>2, <3>3, <3>4 DEF t
    <2>4. CASE ~(n \in s.online /\ e \notin u.view[n])
        <3>1. shown = u
            BY <2>1, <2>4 DEF ShownBy
        <3> QED
            BY <1>2, <2>1, <2>2, <3>1
    <2> QED
        BY <2>3, <2>4
<1>6. CASE h.moved
    <2>1. /\ Holds(c, {}, W, {}, taken) /\ Besides(s, taken, e)
          /\ taken.ents[e].owner \in {n, None}
          /\ n \notin s.online => e \in taken.stranded \/ (taken.ents[e].owner = n /\ n # None)
        <3>1. CASE o \in s.online
            <4> DEFINE z == Revoke(u, o, e)
            <4>1. taken = z
                BY <1>6, <3>1 DEF TakenBy
            <4> HIDE DEF u, r1, q1
            <4>2. /\ Holds(c, r1 \ {<<o, e>>}, q1 \cup W, {}, z) /\ Else(u, z, e)
                  /\ z.stranded = u.stranded
                  /\ z.ents[e].owner = IF u.ents[e].owner = o THEN None ELSE u.ents[e].owner
                <5>1. o \in u.online /\ Live(u, e) /\ e \in Entities /\ Holds(c, r1, q1, {}, u)
                    BY <1>1, <1>2, <1>3, <3>1
                <5> HIDE DEF e, o
                <5> QED
                    BY <5>1, RevokeKeeps
            <4>3. r1 \ {<<o, e>>} = {} /\ q1 \cup W = W
                BY <1>6 DEF r1, q1
            <4>4. Besides(s, z, e)
                <5>1. Besides(u, z, e)
                    BY <4>2, ElseBesides
                <5> HIDE DEF z
                <5> QED
                    BY <1>2, <5>1, BesidesOn
            <4> HIDE DEF z, taken, W
            <4>5. /\ z.ents[e].owner \in {n, None}
                  /\ n \notin s.online => e \in z.stranded \/ (z.ents[e].owner = n /\ n # None)
                BY <1>2, <1>4, <1>6, <3>1, <4>2
            <4> QED
                BY <4>1, <4>2, <4>3, <4>4, <4>5
        <3>2. CASE o \notin s.online
            <4>1. taken = u
                BY <1>6, <3>2 DEF TakenBy
            <4>2. q1 = W
                BY <1>6
            <4>3. \A v \in u.online, x \in Entities : <<v, x>> \in r1 => <<v, x>> \in {}
                BY <1>3, <3>2
            <4> HIDE DEF u, r1, q1
            <4>4. Holds(c, {}, q1, {}, u)
                BY <1>2, <4>3, HoldsThere
            <4> QED
                BY <1>2, <1>4, <1>6, <4>1, <4>2, <4>4
        <3> QED
            BY <3>1, <3>2
    <2> DEFINE sent == SendFull(taken, n, e)
    <2>2. taken.online = s.online /\ taken.holder = s.holder /\ Live(taken, e)
        BY <1>1, <2>1 DEF Besides, Company
    <2>3. CASE n \in s.online
        <3>1. Holds(c, {}, W, {}, shown) /\ Rest(taken, shown) /\ e \in shown.view[n]
            <4>1. shown = IF e \notin taken.view[n] THEN sent ELSE taken
                BY <2>3 DEF ShownBy
            <4> HIDE DEF taken, W
            <4>2. Holds(c, {}, W, {} \ {<<n, e>>}, sent) /\ Rest(taken, sent) /\ e \in sent.view[n]
                BY <1>1, <2>1, <2>2, <2>3, SendFullKeeps
            <4>3. {} \ {<<n, e>>} = {}
                OBVIOUS
            <4> HIDE DEF sent, shown
            <4> QED
                BY <2>1, <4>1, <4>2, <4>3, RestSelf
        <3> DEFINE k == Grant(shown, n, e)
        <3>2. t = k
            BY <1>6, <2>3, HandoffIs
        <3> HIDE DEF shown, taken
        <3>3. shown.online = s.online /\ Live(shown, e) /\ shown.ents[e].owner \in {n, None}
            BY <2>1, <2>2, <3>1, RestIs
        <3>4. Alone(c, shown, n, e)
            <4>1. SUFFICES ASSUME NEW v \in shown.online, v # n, Simulates(c, shown, v, e)
                           PROVE  <<v, e>> \in shown.untold
                BY DEF Alone
            <4>2. OwnOnly(c, shown, v, e) /\ v \in Workers
                BY <1>1, <3>1, HoldsOwn
            <4> QED
                BY <1>1, <3>3, <4>1, <4>2 DEF OwnOnly
        <3>5. <<n, e>> \notin {}
            OBVIOUS
        <3> DEFINE r0 == {}
                   r3 == r0 \ W
                   q3 == W \ W
        <3>6. Holds(c, r3, q3, {}, k) /\ Else(shown, k, e)
            <4> DEFINE p0 == {}
            <4>1. <<n, e>> \notin p0 /\ Holds(c, r0, W, p0, shown)
                BY <3>1
            <4>2. n \in shown.online
                BY <2>3, <3>3
            <4> HIDE DEF p0, r0
            <4>3. Holds(c, r3, q3, p0, k) /\ Else(shown, k, e)
                <5> HIDE DEF n, e
                <5> QED
                    BY <1>1, <3>1, <3>3, <3>4, <4>1, <4>2, GrantKeeps
            <4> QED
                BY <4>3 DEF p0
        <3>7. r3 = {} /\ q3 = {}
            OBVIOUS
        <3> HIDE DEF k, r3, q3, t
        <3>8. Besides(s, k, e)
            <4>1. Besides(s, shown, e)
                BY <2>1, <3>1, RestBesides, BesidesOn
            <4>2. Besides(shown, k, e)
                BY <3>6, ElseBesides
            <4> QED
                BY <4>1, <4>2, BesidesOn
        <3> QED
            BY <3>2, <3>6, <3>7, <3>8 DEF t
    <2>4. CASE n \notin s.online
        <3>1. shown = taken /\ t = shown
            BY <2>4, HandoffIs DEF ShownBy
        <3> HIDE DEF taken
        <3>2. ASSUME NEW v \in taken.online PROVE AllOwn(c, taken, v, e)
            BY <2>1, <2>2, <2>4, <3>2 DEF AllOwn, Responsible
        <3>3. Holds(c, {}, {}, {}, taken)
            <4>1. W \subseteq {} \cup (Workers \X {e})
                OBVIOUS
            <4> HIDE DEF W
            <4> QED
                BY <1>1, <2>1, <3>2, <4>1, HoldsFewer
        <3> QED
            BY <2>1, <3>1, <3>3
    <2> QED
        BY <2>3, <2>4
<1> QED
    BY <1>1, <1>5, <1>6

\* What the invariant does not speak of may change.
Aside(s, t) ==
    /\ t.online = s.online /\ t.out = s.out /\ t.ents = s.ents /\ t.holder = s.holder
    /\ t.view = s.view /\ t.untold = s.untold /\ t.blurred = s.blurred
    /\ s.stranded \subseteq t.stranded

LEMMA AsideKeeps ==
    ASSUME NEW c, NEW r, NEW q, NEW p, NEW s, Holds(c, r, q, p, s),
           NEW t \in Brokers, Aside(s, t), StagedLive(t)
    PROVE  Holds(c, r, q, p, t)
<1>1. \A v : Ear(c, t, v) = Ear(c, s, v)
    BY Silent DEF Aside
<1>2. ASSUME NEW v \in s.online, NEW x \in Entities PROVE Kept(c, r, r, q, q, p, p, s, t, v, x)
    <2>1. Alike(c, s, t, v, x)
        BY <1>1 DEF Alike, Aside, Responsible, HolderOf
    <2> QED
        BY <2>1 DEF Kept
<1>3. t.online = s.online /\ t.out = s.out
    BY DEF Aside
<1> QED
    BY <1>2, <1>3, Quiet

\* That the log has failed is not known to anybody.
LEMMA DegradedKeeps ==
    ASSUME NEW c, NEW r, NEW q, NEW p, NEW s, Holds(c, r, q, p, s)
    PROVE  LET t == [s EXCEPT !.degraded = TRUE] IN
           Holds(c, r, q, p, t) /\ Rest(s, t) /\ Aside(s, t)
<1> DEFINE t == [s EXCEPT !.degraded = TRUE]
<1>1. s \in Brokers /\ StagedLive(s)
    BY HoldsIs
<1>2. t \in Brokers /\ Rest(s, t) /\ Aside(s, t)
    BY <1>1 DEF Brokers, Rest, Aside
<1> HIDE DEF t
<1>3. StagedLive(t)
    BY <1>1, <1>2, RestIs
<1>4. Holds(c, r, q, p, t)
    BY <1>2, <1>3, AsideKeeps
<1> QED
    BY <1>2, <1>4 DEF t

\* Who is connected, what is there and who holds the regions are the same.
Later(s, t) ==
    /\ t.online = s.online /\ \A x \in Entities : Live(t, x) <=> Live(s, x)
    /\ t.holder = s.holder /\ t.writes = s.writes /\ t.failovers = s.failovers
LEMMA BesidesLater ==
    ASSUME NEW s, NEW t, NEW u, NEW e, Later(s, t), Besides(t, u, e)
    PROVE  Later(s, u) /\ u.handoffs = t.handoffs
BY DEF Besides, Company, Later

LEMMA HandoffsKeep ==
    ASSUME NEW c, NEW s, Holds(c, {}, {}, {}, s)
    PROVE  LET t == ApplyHandoffs(s) IN
           Holds(c, {}, {}, {}, t) /\ Later(s, t) /\ t.handoffs = <<>>
<1> DEFINE u == [s EXCEPT !.handoffs = <<>>]
           t == ApplyHandoffs(s)
           q == s.handoffs
           n == Len(q)
<1>1. s \in Brokers /\ StagedLive(s) /\ q \in Seq(Handoffs)
    BY HoldsIs DEF Brokers
<1>2. Ends("handoff", None, u, q, t)
    BY <1>1, HandoffsRun
<1>3. /\ u \in Brokers /\ Aside(s, u) /\ u.handoffs = <<>> /\ Later(s, u)
      /\ u.ents = s.ents /\ u.holder = s.holder /\ u.writes = s.writes /\ u.failovers = s.failovers
    <2>1. /\ u \in Brokers /\ u.online = s.online /\ u.out = s.out /\ u.view = s.view
          /\ u.untold = s.untold /\ u.blurred = s.blurred /\ u.stranded = s.stranded
          /\ u.ents = s.ents /\ u.holder = s.holder /\ u.writes = s.writes
          /\ u.failovers = s.failovers /\ u.handoffs = <<>>
        <3> DEFINE z == <<>>
        <3>1. z \in Seq(Handoffs) /\ s \in Brokers /\ u = [s EXCEPT !.handoffs = z]
            BY <1>1
        <3> HIDE DEF z, u
        <3> QED
            BY <3>1 DEF Brokers, z
    <2> HIDE DEF u
    <2> QED
        BY <2>1 DEF Aside, Later, Live
<1> HIDE DEF u, t
<1>4. StagedLive(u)
    <2>1. \A i : i \notin DOMAIN u.handoffs
        BY <1>3
    <2> QED
        BY <1>1, <1>3, <2>1 DEF StagedLive, Live
<1>5. Holds(c, {}, {}, {}, u)
    BY <1>3, <1>4, AsideKeeps
<1>6. /\ n \in Nat /\ DOMAIN q = 1..n
      /\ \A i \in 1..n : Meant(s, q[i]) /\ q[i] \in Handoffs /\ q[i].eid \in Entities
    <2>1. n \in Nat /\ DOMAIN q = 1..n /\ \A i \in 1..n : q[i] \in Handoffs
        BY <1>1
    <2> QED
        BY <1>1, <2>1 DEF StagedLive, Meant, Handoffs
<1> HIDE DEF q
<1>7. PICK run : Runs("handoff", None, u, q, n, run) /\ t = run[n]
    BY <1>2 DEF Ends
<1> HIDE DEF n
<1> DEFINE good == {k \in 0..n : /\ Holds(c, {}, {}, {}, run[k]) /\ Later(s, run[k])
                                 /\ run[k].handoffs = <<>>}
<1>8. 0 \in good
    BY <1>3, <1>5, <1>6, <1>7 DEF Runs
<1>9. ASSUME NEW k \in 1..n, k - 1 \in good PROVE k \in good
    <2> DEFINE y == run[k - 1]
               h == q[k]
               z == run[k]
    <2>1. Holds(c, {}, {}, {}, y) /\ Later(s, y) /\ y.handoffs = <<>>
        BY <1>9
    <2>2. h \in Handoffs /\ Meant(y, h) /\ z = ApplyHandoff(y, h)
        <3>1. h \in Handoffs /\ Meant(s, h) /\ h.eid \in Entities /\ z = ApplyHandoff(y, h)
            BY <1>6, <1>7 DEF Runs, Step
        <3> HIDE DEF y, h, z
        <3> QED
            BY <2>1, <3>1 DEF Later, Meant
    <2> HIDE DEF y, h, z
    <2>3. Holds(c, {}, {}, {}, z) /\ Besides(y, z, h.eid)
        BY <2>1, <2>2, HandoffKeeps
    <2>4. Later(s, z) /\ z.handoffs = <<>>
        BY <2>1, <2>3, BesidesLater
    <2> QED
        BY <2>3, <2>4 DEF z
<1> HIDE DEF good
<1>10. n \in good
    <2>1. \A k \in 1..n : k - 1 \in good => k \in good
        BY <1>9
    <2>2. n \in 0..n
        BY <1>6
    <2>3. \A k \in 0..n : k \in good
        BY <1>6, <1>8, <2>1, Along
    <2> QED
        BY <2>2, <2>3
<1> QED
    BY <1>7, <1>10 DEF good, t

\* Behind a barrier that fails they stay.
LEMMA FlushHandoffsKeep ==
    ASSUME NEW c, NEW s, Holds(c, {}, {}, {}, s)
    PROVE  Holds(c, {}, {}, {}, FlushHandoffs(s)) /\ Later(s, FlushHandoffs(s))
<1> DEFINE t == [s EXCEPT !.degraded = TRUE]
           z == ApplyHandoffs(s)
<1>1. Holds(c, {}, {}, {}, t) /\ Rest(s, t)
    BY DegradedKeeps
<1>2. Holds(c, {}, {}, {}, z) /\ Later(s, z)
    BY HandoffsKeep
<1>3. FlushHandoffs(s) = t \/ FlushHandoffs(s) = z
    BY DEF FlushHandoffs
<1> HIDE DEF t, z
<1>4. Later(s, t)
    BY <1>1, RestIs DEF Rest, Later
<1> QED
    BY <1>1, <1>2, <1>3, <1>4

(***************************************************************************)
(* A write is applied.                                                     *)
(***************************************************************************)
\* Everybody who is connected has been shown where e is.
LEMMA PropagateKeeps ==
    ASSUME NEW c, NEW s, NEW e \in Entities, Holds(c, {}, {}, Workers \X {e}, s), Live(s, e)
    PROVE  LET t == Propagate(s, e) IN Holds(c, {}, {}, {}, t) /\ Rest(s, t)
<1> DEFINE q == SetToSeq(s.online)
           t == Propagate(s, e)
           n == Len(q)
           left(k) == {<<q[i], e>> : i \in (k + 1)..n}
           nobody == {}
<1>1. s.online \subseteq Workers /\ IsFiniteSet(s.online)
    BY HoldsIs, NoneIs, FS_Subset
<1>2. q \in Seq(s.online) /\ \A w \in s.online : \E i \in DOMAIN q : q[i] = w
    BY <1>1, SetToSeqIs
<1>3. Ends("propagate", e, s, q, t)
    BY <1>2, PropagateRuns
<1> HIDE DEF q, t
<1>4. n \in Nat /\ DOMAIN q = 1..n
    BY <1>2
<1>5. PICK run : Runs("propagate", e, s, q, n, run) /\ t = run[n]
    BY <1>3 DEF Ends
<1>6. Holds(c, {}, nobody, left(0), s)
    <2>1. \A v \in s.online, x \in Entities : <<v, x>> \in Workers \X {e} => <<v, x>> \in left(0)
        BY <1>2, <1>4
    <2> HIDE DEF left
    <2> QED
        BY <2>1 DEF Holds
<1>7. \A v : <<v, e>> \notin nobody
    OBVIOUS
<1> HIDE DEF nobody
<1> DEFINE good == {k \in 0..n : Holds(c, {}, nobody, left(k), run[k]) /\ Rest(s, run[k])}
<1>8. 0 \in good
    <2> HIDE DEF left
    <2> QED
        BY <1>4, <1>5, <1>6, RestSelf DEF Runs
<1>9. ASSUME NEW k \in 1..n, k - 1 \in good PROVE k \in good
    <2> DEFINE y == run[k - 1]
               w == q[k]
               z == PropagateTo(y, w, e)
               p == left(k - 1)
    <2>1. Holds(c, {}, nobody, p, y) /\ Rest(s, y)
        BY <1>9
    <2>2. w \in s.online /\ run[k] = z
        BY <1>2, <1>4, <1>5 DEF Runs, Step
    <2>3. p \ {<<w, e>>} \subseteq left(k)
        <3>1. ASSUME NEW i \in ((k - 1) + 1)..n, q[i] # w PROVE i \in (k + 1)..n
            BY <1>4, <3>1
        <3> QED
            BY <3>1
    <2> HIDE DEF y, w, p, left
    <2>4. w \in y.online /\ Live(y, e)
        BY <2>1, <2>2, RestIs
    <2>5. Holds(c, {}, nobody, p \ {<<w, e>>}, z) /\ Rest(y, z)
        BY <1>7, <2>1, <2>4, PropagateToKeeps
    <2> HIDE DEF z
    <2>6. Holds(c, {}, nobody, left(k), z)
        BY <2>3, <2>5, HoldsMore
    <2>7. Rest(s, z)
        BY <2>1, <2>5, RestOn
    <2> QED
        BY <2>2, <2>6, <2>7
<1>10. n \in good
    <2> HIDE DEF good, n
    <2>1. \A k \in 1..n : k - 1 \in good => k \in good
        BY <1>9
    <2>2. n \in 0..n
        BY <1>4
    <2>3. \A k \in 0..n : k \in good
        BY <1>4, <1>8, <2>1, Along
    <2> QED
        BY <2>2, <2>3
<1>11. left(n) = {}
    <2>1. (n + 1)..n = {}
        BY <1>4
    <2> QED
        BY <2>1
<1> QED
    BY <1>5, <1>10, <1>11 DEF t, nobody

\* Of an entity that moved: its view is not asked, until it is told.
Holding(c, p, s, t) ==
    /\ Holds(c, {}, {}, p, t) /\ t.ents = s.ents /\ t.online = s.online
    /\ t.holder = s.holder /\ t.writes = s.writes /\ t.failovers = s.failovers
LEMMA HoldingOn ==
    ASSUME NEW c, NEW p, NEW s, NEW t, NEW u, Holding(c, p, s, t), Holding(c, p, t, u)
    PROVE  Holding(c, p, s, u)
BY DEF Holding

LEMMA AsideHolding ==
    ASSUME NEW c, NEW p, NEW s, Holds(c, {}, {}, p, s), NEW t \in Brokers, Aside(s, t),
           t.writes = s.writes, t.handoffs = s.handoffs, t.failovers = s.failovers
    PROVE  Holding(c, p, s, t)
<1>1. t.ents = s.ents /\ t.holder = s.holder /\ t.online = s.online
    BY DEF Aside
<1>2. StagedLive(t)
    <2>1. StagedLive(s)
        BY HoldsIs
    <2> QED
        BY <1>1, <2>1 DEF StagedLive, Live
<1>3. Holds(c, {}, {}, p, t)
    BY <1>2, AsideKeeps
<1> QED
    BY <1>1, <1>3 DEF Holding

LEMMA IntentsAside ==
    ASSUME NEW s \in Brokers, NEW e, NEW x, [s.intents EXCEPT ![e] = x] \in [Entities -> [target : Sides, epoch : Nat] \cup {None}]
    PROVE  LET t == [s EXCEPT !.intents[e] = x] IN
           /\ t \in Brokers /\ Aside(s, t) /\ t.writes = s.writes /\ t.handoffs = s.handoffs
           /\ t.failovers = s.failovers
<1> DEFINE y == [s.intents EXCEPT ![e] = x]
<1>1. [s EXCEPT !.intents[e] = x] = [s EXCEPT !.intents = y]
    OBVIOUS
<1> HIDE DEF y
<1> QED
    BY <1>1 DEF Brokers, Aside, y

\* What is queued is meant, whether the log takes it or not.
LEMMA QueueIs ==
    ASSUME NEW s \in Brokers, StagedLive(s), NEW e \in Entities, Live(s, e), NEW new \in Sides,
           NEW pos \in Points
    PROVE  LET t == QueueLocalHandoff(s, e, new, pos) IN
           /\ t \in Brokers /\ Aside(s, t) /\ StagedLive(t)
           /\ t.writes = s.writes /\ t.failovers = s.failovers
<1> DEFINE old == HolderOf(s, s.ents[e].region)
           next == HolderOf(s, new)
           h == [eid |-> e, to |-> new, pos |-> pos, old |-> old, new |-> next,
                 moved |-> Advances(s, e, old), authority |-> Advance(s, e, old, next)]
           d == [s EXCEPT !.degraded = TRUE]
           u == [s EXCEPT !.handoffs = Append(@, h)]
           t == QueueLocalHandoff(s, e, new, pos)
<1>1. old \in Workers \cup {None} /\ next \in Workers \cup {None} /\ s.handoffs \in Seq(Handoffs)
    BY PlacedIs DEF HolderOf, Brokers
<1>2. h \in Handoffs
    <2>1. s.ents[e].owner \in Workers \cup {None} /\ s.ents[e].epoch \in Nat
        BY PlacedIs
    <2>2. Advance(s, e, old, next) \in Authority
        <3> HIDE DEF old, next
        <3> QED
            BY <1>1, <2>1 DEF Advance, Authority
    <2>3. Advances(s, e, old) \in BOOLEAN
        BY DEF Advances
    <2> HIDE DEF old, next
    <2> QED
        BY <1>1, <2>2, <2>3 DEF Handoffs
<1>3. Meant(s, h)
    <2>1. Advances(s, e, old) => Advance(s, e, old, next).owner = next
        <3> HIDE DEF old, next
        <3> QED
            BY DEF Advance
    <2> HIDE DEF old, next
    <2> QED
        BY <2>1 DEF Meant
<1>4. t \in {s, d, u}
    BY DEF QueueLocalHandoff
<1> HIDE DEF h, old, t
<1>5. /\ d \in Brokers /\ Aside(s, d) /\ StagedLive(d)
      /\ d.writes = s.writes /\ d.failovers = s.failovers
    <2>1. d \in Brokers /\ Rest(s, d) /\ Aside(s, d)
        BY DEF Brokers, Rest, Aside
    <2> HIDE DEF d
    <2> QED
        BY <2>1, RestIs DEF Rest
<1>6. /\ u \in Brokers /\ Aside(s, u) /\ StagedLive(u)
      /\ u.writes = s.writes /\ u.failovers = s.failovers
    <2> DEFINE q == s.handoffs
               n == Len(q)
               x == Append(q, h)
    <2>1. /\ n \in Nat /\ DOMAIN q = 1..n /\ DOMAIN x = 1..(n + 1) /\ x[n + 1] = h
          /\ \A i \in 1..n : x[i] = q[i]
        BY <1>1
    <2>2. x \in Seq(Handoffs) /\ u = [s EXCEPT !.handoffs = x]
        BY <1>1, <1>2
    <2>3. \A i \in 1..n : Meant(s, q[i])
        BY <2>1 DEF StagedLive, Meant
    <2> HIDE DEF x, u, q, n
    <2>4. /\ u \in Brokers /\ u.handoffs = x /\ Aside(s, u) /\ u.ents = s.ents
          /\ u.writes = s.writes /\ u.failovers = s.failovers
        BY <2>2 DEF Brokers, Aside
    <2>5. \A i \in DOMAIN u.handoffs : Meant(s, u.handoffs[i])
        <3>1. \A i \in 1..(n + 1) : i \in 1..n \/ i = n + 1
            BY <2>1
        <3>2. \A i \in 1..(n + 1) : Meant(s, x[i])
            BY <1>3, <2>1, <2>3, <3>1
        <3> QED
            BY <2>1, <2>4, <3>2
    <2>6. StagedLive(u)
        BY <2>4, <2>5 DEF StagedLive, Meant, Live
    <2> QED
        BY <2>4, <2>6
<1>7. Aside(s, s)
    BY DEF Aside
<1> HIDE DEF d, u
<1> QED
    BY <1>4, <1>5, <1>6, <1>7 DEF t

LEMMA LossKeeps ==
    ASSUME NEW c, NEW p, NEW s, Holds(c, {}, {}, p, s), NEW e \in Entities, Live(s, e),
           NEW target \in Sides
    PROVE  Holding(c, p, s, LossImminent(s, e, target))
<1> DEFINE intent == [target |-> target, epoch |-> s.ents[e].epoch]
           u == [s EXCEPT !.intents[e] = intent]
           o == s.ents[e].owner
           m == [op |-> "Imminent", eid |-> e, epoch |-> intent.epoch]
           t == LossImminent(s, e, target)
<1>1. s \in Brokers /\ s.ents[e].epoch \in Nat
    BY HoldsIs, PlacedIs
<1>2. [s.intents EXCEPT ![e] = intent] \in [Entities -> [target : Sides, epoch : Nat] \cup {None}]
    BY <1>1 DEF Brokers
<1>3. m \in Frame /\ m.op # "Grant" /\ \A z : Hear(z, m) = z
    <2>1. intent.epoch \in Nat
        BY <1>1
    <2> HIDE DEF intent
    <2> QED
        BY <2>1, Names4, HearImminent
<1>4. t = s \/ t = Emit(u, o, m)
    BY DEF LossImminent
<1> HIDE DEF m, t, intent, o
<1>5. Holding(c, p, s, u)
    <2>1. /\ u \in Brokers /\ Aside(s, u) /\ u.writes = s.writes /\ u.handoffs = s.handoffs
          /\ u.failovers = s.failovers
        BY <1>1, <1>2, IntentsAside
    <2> HIDE DEF u
    <2> QED
        BY <2>1, AsideHolding
<1> HIDE DEF u
<1>6. Holding(c, p, u, Emit(u, o, m))
    <2>1. Holds(c, {}, {}, p, u)
        BY <1>5 DEF Holding
    <2>2. Holds(c, {}, {}, p, Emit(u, o, m)) /\ Rest(u, Emit(u, o, m))
        BY <1>3, <2>1, EmptyFrameKeeps
    <2> DEFINE z == Emit(u, o, m)
    <2> HIDE DEF z
    <2> QED
        BY <2>2 DEF Holding, Rest, z
<1>7. Holding(c, p, s, s)
    BY DEF Holding
<1> QED
    BY <1>4, <1>5, <1>6, <1>7, HoldingOn DEF t

LEMMA ZoneKeeps ==
    ASSUME NEW c, NEW p, NEW s, Holds(c, {}, {}, p, s), NEW e \in Entities, Live(s, e)
    PROVE  Holding(c, p, s, Zone(s, e))
<1> DEFINE x == s.ents[e]
           next == RegionAfter(x.pos, x.region)
           target == IntentTarget(x.pos, x.region)
           calm == [s EXCEPT !.intents[e] = None]
           t == Zone(s, e)
<1>1. s \in Brokers /\ x.pos \in Points /\ x.region \in Sides
    BY HoldsIs, PlacedIs
<1>2. next \in Sides /\ target \in Sides \cup {None}
    <2> HIDE DEF x
    <2> QED
        BY <1>1 DEF RegionAfter, IntentTarget, Sides
<1>3. Holding(c, p, s, calm)
    <2>1. [s.intents EXCEPT ![e] = None] \in [Entities -> [target : Sides, epoch : Nat] \cup {None}]
        BY <1>1 DEF Brokers
    <2>2. /\ calm \in Brokers /\ Aside(s, calm) /\ calm.writes = s.writes /\ calm.handoffs = s.handoffs
          /\ calm.failovers = s.failovers
        BY <1>1, <2>1, IntentsAside
    <2> HIDE DEF calm
    <2> QED
        BY <2>2, AsideHolding
<1>4. CASE next # x.region
    <2> DEFINE u == QueueLocalHandoff(calm, e, next, x.pos)
    <2>1. t = u
        BY <1>4 DEF Zone
    <2> HIDE DEF calm, next, x
    <2>2. calm \in Brokers /\ Live(calm, e) /\ StagedLive(calm) /\ Holds(c, {}, {}, p, calm)
        BY <1>3, HoldsIs DEF Holding, Live
    <2>3. /\ u \in Brokers /\ Aside(calm, u) /\ u.writes = calm.writes /\ u.failovers = calm.failovers
          /\ StagedLive(u)
        BY <1>1, <1>2, <2>2, QueueIs
    <2> HIDE DEF u
    <2>4. Holding(c, p, calm, u)
        <3>1. u.ents = calm.ents /\ u.holder = calm.holder /\ u.online = calm.online
            BY <2>3 DEF Aside
        <3>2. Holds(c, {}, {}, p, u)
            BY <2>2, <2>3, AsideKeeps
        <3> QED
            BY <2>3, <3>1, <3>2 DEF Holding
    <2>5. Holding(c, p, s, u)
        BY <1>3, <2>4, HoldingOn
    <2> QED
        BY <2>1, <2>5
<1>5. CASE next = x.region /\ target # None
    <2>1. t = LossImminent(s, e, target)
        BY <1>5 DEF Zone
    <2>2. target \in Sides
        BY <1>2, <1>5
    <2> HIDE DEF target, next, x
    <2> QED
        BY <2>1, <2>2, LossKeeps
<1>6. CASE next = x.region /\ target = None
    <2>1. t = calm
        BY <1>6 DEF Zone
    <2> QED
        BY <1>3, <2>1
<1> QED
    BY <1>4, <1>5, <1>6

LEMMA WriteMoves ==
    ASSUME NEW c, NEW s, Holds(c, {}, {}, {}, s), NEW u \in Writes, Live(s, u.eid)
    PROVE  LET t == RenewLeases([s EXCEPT !.ents[u.eid].pos = u.pos], u.writer) IN
           /\ Holds(c, {}, {}, Workers \X {u.eid}, t)
           /\ Later(s, t) /\ Live(t, u.eid)
<1> DEFINE e == u.eid
           x == [s.ents[e] EXCEPT !.pos = u.pos]
           y == Changed(s, e, x, s.stranded, s.untold, s.blurred)
           p == Workers \X {e}
           L == {r \in s.lapsed : s.holder[r] # u.writer}
           t == RenewLeases([s EXCEPT !.ents[u.eid].pos = u.pos], u.writer)
<1>1. s \in Brokers /\ StagedLive(s) /\ e \in Entities /\ u.pos \in Points /\ s.online \subseteq Workers
    BY HoldsIs DEF Writes
<1>2. s.ents[e] \in Placed /\ s.ents[e].region \in Sides
    BY <1>1, PlacedIs
<1>3. /\ x \in Placed /\ x.owner = s.ents[e].owner /\ x.epoch = s.ents[e].epoch
      /\ x.region = s.ents[e].region
    BY <1>1, <1>2 DEF Placed
<1>4. t = [y EXCEPT !.lapsed = L]
    <2>1. [s EXCEPT !.ents[u.eid].pos = u.pos] = y
        BY <1>1, <1>2 DEF Changed, Brokers, Placed
    <2>2. y.holder = s.holder /\ y.lapsed = s.lapsed
        BY <1>1 DEF Changed, Brokers
    <2> HIDE DEF y
    <2> QED
        BY <2>1, <2>2 DEF RenewLeases
<1>5. s.stranded \in SUBSET Entities /\ s.untold \in SUBSET Pairs /\ s.blurred \in SUBSET Pairs
      /\ L \in SUBSET Sides
    BY <1>1 DEF Brokers
<1> HIDE DEF x, y, t, L
<1>6. Changing(s, e, x, s.stranded, s.untold, s.blurred, y)
    BY <1>1, <1>3, <1>5, ChangedIs DEF y
<1>7. /\ y \in Brokers /\ y.out = s.out /\ y.view = s.view /\ y.online = s.online
      /\ y.stranded = s.stranded /\ y.untold = s.untold /\ y.blurred = s.blurred /\ y.holder = s.holder
      /\ y.ents[e] = x /\ Live(y, e) /\ StagedLive(y)
      /\ \A z \in Entities : z # e => y.ents[z] = s.ents[z] /\ (Live(y, z) <=> Live(s, z))
      /\ y.writes = s.writes /\ y.handoffs = s.handoffs /\ y.failovers = s.failovers
    BY <1>1, <1>6 DEF Changing
<1>8. \A v : Ear(c, y, v) = Ear(c, s, v)
    BY <1>7, Silent
<1>9. ASSUME NEW v \in s.online, NEW z \in Entities
      PROVE  Kept(c, {}, {}, {}, {}, {}, p, s, y, v, z)
    <2>1. CASE z # e
        <3>1. Alike(c, s, y, v, z)
            BY <1>7, <1>8, <2>1 DEF Alike, Responsible, HolderOf
        <3> QED
            BY <3>1 DEF Kept
    <2>2. CASE z = e
        <3>1. Shown(y, v, z) /\ <<v, z>> \in p
            BY <1>1, <1>7, <2>2 DEF Shown
        <3>2. OwnOnly(c, s, v, e) /\ AllOwn(c, s, v, e)
            <4>1. OwnOnly(c, s, v, e)
                BY <1>1, HoldsOwn
            <4>2. AllOwn(c, s, v, e)
                BY <1>1 DEF Holds
            <4> QED
                BY <4>1, <4>2
        <3>3. Responsible(y, e) = Responsible(s, e)
            BY <1>3, <1>7 DEF Responsible, HolderOf
        <3>4. OwnOnly(c, y, v, e) /\ AllOwn(c, y, v, e)
            BY <1>3, <1>7, <1>8, <3>2, <3>3 DEF OwnOnly, AllOwn, Simulates
        <3> HIDE DEF p
        <3> QED
            BY <2>2, <3>1, <3>4 DEF Kept
    <2> QED
        BY <2>1, <2>2
<1> HIDE DEF p
<1>10. Holds(c, {}, {}, p, y)
    BY <1>7, <1>9, Quiet
<1>12. /\ t \in Brokers /\ t.online = y.online /\ t.out = y.out /\ t.ents = y.ents /\ t.holder = y.holder
       /\ t.view = y.view /\ t.untold = y.untold /\ t.blurred = y.blurred /\ t.stranded = y.stranded
       /\ t.writes = y.writes /\ t.handoffs = y.handoffs /\ t.failovers = y.failovers
    BY <1>4, <1>5, <1>7 DEF Brokers
<1>13. Holding(c, p, y, t)
    BY <1>10, <1>12, AsideHolding DEF Aside
<1>14. Later(s, t) /\ Live(t, e)
    BY <1>1, <1>7, <1>12 DEF Later, Live
<1> QED
    BY <1>13, <1>14 DEF Holding, p, t

LEMMA WriteKeeps ==
    ASSUME NEW c, NEW s, Holds(c, {}, {}, {}, s), NEW u \in Writes, Live(s, u.eid)
    PROVE  LET t == ApplyWrite(s, u) IN
           Holds(c, {}, {}, {}, t) /\ Later(s, t)
<1> DEFINE e == u.eid
           p == Workers \X {e}
           y == RenewLeases([s EXCEPT !.ents[u.eid].pos = u.pos], u.writer)
           z == Zone(y, e)
           t == Propagate(z, e)
<1>1. e \in Entities /\ ApplyWrite(s, u) = t
    BY DEF Writes, ApplyWrite
<1>2. Holds(c, {}, {}, p, y) /\ Later(s, y) /\ Live(y, e)
    BY WriteMoves
<1> HIDE DEF y, p
<1>3. Holding(c, p, y, z)
    BY <1>1, <1>2, ZoneKeeps
<1> HIDE DEF z
<1>4. Holds(c, {}, {}, p, z) /\ Later(s, z) /\ Live(z, e)
    BY <1>2, <1>3 DEF Holding, Later, Live
<1>5. Holds(c, {}, {}, {}, t) /\ Rest(z, t)
    BY <1>1, <1>4, PropagateKeeps DEF p
<1> HIDE DEF t
<1>6. Later(s, t)
    BY <1>4, <1>5 DEF Rest, Later, Live
<1> QED
    BY <1>1, <1>5, <1>6

\* The writes that were staged, in their order.
LEMMA WrittenKeeps ==
    ASSUME NEW c, NEW s, Holds(c, {}, {}, {}, s)
    PROVE  LET t == ApplyWrites(s) IN
           /\ Holds(c, {}, {}, {}, t)
           /\ t.online = s.online /\ t.failovers = s.failovers /\ t.writes = <<>>
<1> DEFINE u == [s EXCEPT !.writes = <<>>]
           t == ApplyWrites(s)
           q == s.writes
           n == Len(q)
<1>1. s \in Brokers /\ StagedLive(s) /\ q \in Seq(Writes)
    BY HoldsIs DEF Brokers
<1>2. Ends("write", None, u, q, t)
    BY <1>1, WrittenRuns
<1>3. /\ u \in Brokers /\ u.online = s.online /\ u.out = s.out /\ u.view = s.view
      /\ u.untold = s.untold /\ u.blurred = s.blurred /\ u.stranded = s.stranded
      /\ u.ents = s.ents /\ u.holder = s.holder /\ u.writes = <<>>
      /\ u.failovers = s.failovers /\ u.handoffs = s.handoffs
    <2> DEFINE z == <<>>
    <2>1. z \in Seq(Writes) /\ s \in Brokers /\ u = [s EXCEPT !.writes = z]
        BY <1>1
    <2> HIDE DEF z, u
    <2> QED
        BY <2>1 DEF Brokers, z
<1> HIDE DEF u, t
<1>4. StagedLive(u) /\ Aside(s, u)
    <2>1. DOMAIN u.writes = {}
        BY <1>3
    <2>2. StagedLive(u)
        BY <1>1, <1>3, <2>1 DEF StagedLive, Live
    <2> QED
        BY <1>3, <2>2 DEF Aside
<1>5. Holds(c, {}, {}, {}, u)
    BY <1>3, <1>4, AsideKeeps
<1>6. /\ n \in Nat /\ DOMAIN q = 1..n
      /\ \A i \in 1..n : q[i] \in Writes /\ q[i].eid \in Entities /\ Live(u, q[i].eid)
    <2>1. n \in Nat /\ DOMAIN q = 1..n /\ \A i \in 1..n : q[i] \in Writes
        BY <1>1
    <2> QED
        BY <1>1, <1>3, <2>1 DEF StagedLive, Writes, Live
<1> HIDE DEF q, n
<1>7. PICK run : Runs("write", None, u, q, n, run) /\ t = run[n]
    BY <1>2 DEF Ends, n
<1> DEFINE good == {k \in 0..n : Holds(c, {}, {}, {}, run[k]) /\ Later(u, run[k])}
<1>8. 0 \in good
    <2>1. Later(u, u)
        BY DEF Later
    <2> QED
        BY <1>4, <1>5, <1>6, <1>7, <2>1 DEF Runs
<1>9. ASSUME NEW k \in 1..n, k - 1 \in good PROVE k \in good
    <2> DEFINE y == run[k - 1]
               w == q[k]
               z == run[k]
    <2>1. Holds(c, {}, {}, {}, y) /\ Later(u, y)
        BY <1>9
    <2>2. w \in Writes /\ Live(y, w.eid) /\ z = ApplyWrite(y, w)
        BY <1>6, <1>7, <2>1 DEF Runs, Step, Later
    <2> HIDE DEF y, w, z
    <2>3. Holds(c, {}, {}, {}, z) /\ Later(y, z)
        BY <2>1, <2>2, WriteKeeps
    <2>4. Later(u, z)
        BY <2>1, <2>3 DEF Later
    <2> QED
        BY <2>3, <2>4 DEF z
<1> HIDE DEF good
<1>10. n \in good
    <2>1. \A k \in 1..n : k - 1 \in good => k \in good
        BY <1>9
    <2>2. n \in 0..n
        BY <1>6
    <2>3. \A k \in 0..n : k \in good
        BY <1>6, <1>8, <2>1, Along
    <2> QED
        BY <2>2, <2>3
<1> QED
    BY <1>3, <1>7, <1>10 DEF good, t, Later

(***************************************************************************)
(* The durability tick.                                                    *)
(***************************************************************************)
LEMMA FailoversKeep ==
    ASSUME NEW c, NEW s, Holds(c, {}, {}, {}, s)
    PROVE  LET t == ApplyFailovers(s) IN
           /\ Holds(c, {}, {}, {}, t) /\ t.online = s.online /\ t.writes = s.writes
           /\ t.handoffs = s.handoffs
<1> DEFINE u == [s EXCEPT !.failovers = <<>>]
           t == ApplyFailovers(s)
           q == s.failovers
           n == Len(q)
<1>1. s \in Brokers /\ StagedLive(s) /\ q \in Seq(Failovers)
    BY HoldsIs DEF Brokers
<1>2. Ends("failover", None, u, q, t)
    BY <1>1, FailoversRun
<1>3. /\ u \in Brokers /\ u.online = s.online /\ u.out = s.out /\ u.view = s.view
      /\ u.untold = s.untold /\ u.blurred = s.blurred /\ u.stranded = s.stranded
      /\ u.ents = s.ents /\ u.holder = s.holder /\ u.writes = s.writes
      /\ u.failovers = <<>> /\ u.handoffs = s.handoffs
    <2> DEFINE z == <<>>
    <2>1. z \in Seq(Failovers) /\ s \in Brokers /\ u = [s EXCEPT !.failovers = z]
        BY <1>1
    <2> HIDE DEF z, u
    <2> QED
        BY <2>1 DEF Brokers, z
<1> HIDE DEF u, t
<1>4. StagedLive(u) /\ Aside(s, u)
    <2>1. DOMAIN u.failovers = {}
        BY <1>3
    <2> QED
        BY <1>1, <1>3, <2>1 DEF StagedLive, Live, Aside
<1>5. Holds(c, {}, {}, {}, u)
    BY <1>3, <1>4, AsideKeeps
<1>6. /\ n \in Nat /\ DOMAIN q = 1..n
      /\ \A i \in 1..n : /\ q[i] \in Failovers /\ IsFiniteSet(q[i].grants)
                         /\ \A g \in q[i].grants : /\ g.eid \in Entities /\ Live(u, g.eid)
                                                   /\ g.authority.owner = q[i].new
    <2>1. n \in Nat /\ DOMAIN q = 1..n /\ \A i \in 1..n : q[i] \in Failovers
        BY <1>1
    <2>2. \A i \in 1..n : \A g \in q[i].grants : g.eid \in Entities
        BY <2>1 DEF Failovers
    <2> QED
        BY <1>1, <1>3, <2>1, <2>2 DEF StagedLive, Live
<1> HIDE DEF q, n
<1>7. PICK run : Runs("failover", None, u, q, n, run) /\ t = run[n]
    BY <1>2 DEF Ends, n
<1> DEFINE good == {k \in 0..n : Holds(c, {}, {}, {}, run[k]) /\ Company(u, run[k])}
<1>8. 0 \in good
    BY <1>5, <1>6, <1>7, CompanySelf DEF Runs
<1>9. ASSUME NEW k \in 1..n, k - 1 \in good PROVE k \in good
    <2> DEFINE y == run[k - 1]
               f == q[k]
               z == run[k]
    <2>1. Holds(c, {}, {}, {}, y) /\ Company(u, y)
        BY <1>9
    <2>2. f \in Failovers /\ IsFiniteSet(f.grants) /\ z = ApplyFailover(y, f)
        BY <1>6, <1>7 DEF Runs, Step
    <2>3. \A g \in f.grants : Live(y, g.eid) /\ g.authority.owner = f.new
        BY <1>6, <2>1 DEF Company
    <2> HIDE DEF y, f, z
    <2>4. Holds(c, {}, {}, {}, z) /\ Company(y, z)
        BY <2>1, <2>2, <2>3, FailoverKeeps
    <2> QED
        BY <2>1, <2>4, CompanyOn DEF z
<1> HIDE DEF good
<1>10. n \in good
    <2>1. \A k \in 1..n : k - 1 \in good => k \in good
        BY <1>9
    <2>2. n \in 0..n
        BY <1>6
    <2>3. \A k \in 0..n : k \in good
        BY <1>6, <1>8, <2>1, Along
    <2> QED
        BY <2>2, <2>3
<1> QED
    BY <1>3, <1>7, <1>10 DEF good, t, Company

\* Behind a barrier that fails they are given up.
LEMMA FlushFailoversKeep ==
    ASSUME NEW c, NEW s, Holds(c, {}, {}, {}, s)
    PROVE  LET t == FlushFailovers(s) IN Holds(c, {}, {}, {}, t) /\ t.online = s.online
<1> DEFINE y == [s EXCEPT !.failovers = <<>>, !.degraded = TRUE]
           z == ApplyFailovers(s)
<1>1. s \in Brokers /\ StagedLive(s)
    BY HoldsIs
<1>2. y \in Brokers /\ Aside(s, y) /\ StagedLive(y) /\ y.online = s.online
    <2> DEFINE x == <<>>
    <2>1. x \in Seq(Failovers) /\ s \in Brokers /\ y = [s EXCEPT !.failovers = x, !.degraded = TRUE] /\ DOMAIN x = {}
        BY <1>1
    <2> HIDE DEF x, y
    <2>2. /\ y \in Brokers /\ y.online = s.online /\ y.out = s.out /\ y.view = s.view
          /\ y.untold = s.untold /\ y.blurred = s.blurred /\ y.stranded = s.stranded
          /\ y.ents = s.ents /\ y.holder = s.holder /\ y.writes = s.writes
          /\ y.failovers = x /\ y.handoffs = s.handoffs
        BY <2>1 DEF Brokers
    <2> QED
        BY <1>1, <2>1, <2>2 DEF Aside, StagedLive, Live
<1>3. Holds(c, {}, {}, {}, z) /\ z.online = s.online
    BY FailoversKeep
<1>4. FlushFailovers(s) = y \/ FlushFailovers(s) = z
    BY DEF FlushFailovers
<1> HIDE DEF y, z
<1>5. Holds(c, {}, {}, {}, y)
    BY <1>2, AsideKeeps
<1> QED
    BY <1>2, <1>3, <1>4, <1>5

\* Who wrote is told, and nothing else comes of it.
LEMMA RefuseWritesKeep ==
    ASSUME NEW c, NEW s, Holds(c, {}, {}, {}, s)
    PROVE  LET t == RefuseWrites(s) IN Holds(c, {}, {}, {}, t) /\ t.online = s.online
<1> DEFINE u == [s EXCEPT !.writes = <<>>, !.degraded = TRUE]
           t == RefuseWrites(s)
           q == s.writes
           n == Len(q)
<1>1. s \in Brokers /\ StagedLive(s) /\ q \in Seq(Writes)
    BY HoldsIs DEF Brokers
<1>3. Ends("refuse", None, u, q, t)
    BY <1>1, RefusedRuns
<1>5. /\ u \in Brokers /\ Aside(s, u) /\ StagedLive(u) /\ u.online = s.online /\ u.handoffs = s.handoffs
    <2> DEFINE z == <<>>
    <2>1. z \in Seq(Writes) /\ s \in Brokers /\ u = [s EXCEPT !.writes = z, !.degraded = TRUE] /\ DOMAIN z = {}
        BY <1>1
    <2> HIDE DEF z, u
    <2>2. /\ u \in Brokers /\ u.online = s.online /\ u.out = s.out /\ u.view = s.view
          /\ u.untold = s.untold /\ u.blurred = s.blurred /\ u.stranded = s.stranded
          /\ u.ents = s.ents /\ u.holder = s.holder /\ u.writes = z
          /\ u.failovers = s.failovers /\ u.handoffs = s.handoffs
        BY <2>1 DEF Brokers
    <2> QED
        BY <1>1, <2>1, <2>2 DEF Aside, StagedLive, Live
<1> HIDE DEF u, t
<1>6. Holds(c, {}, {}, {}, u)
    BY <1>5, AsideKeeps
<1>7. n \in Nat /\ DOMAIN q = 1..n /\ \A i \in 1..n : q[i] \in Writes
    BY <1>1
<1> HIDE DEF q, n
<1>8. PICK run : Runs("refuse", None, u, q, n, run) /\ t = run[n]
    BY <1>3 DEF Ends, n
<1> DEFINE good == {k \in 0..n : Holds(c, {}, {}, {}, run[k]) /\ Rest(u, run[k])}
<1>9. 0 \in good
    BY <1>6, <1>7, <1>8, RestSelf DEF Runs
<1>10. ASSUME NEW k \in 1..n, k - 1 \in good PROVE k \in good
    <2> DEFINE x == run[k - 1]
               w == q[k]
               z == run[k]
    <2>1. Holds(c, {}, {}, {}, x) /\ Rest(u, x)
        BY <1>10
    <2>2. w \in Writes /\ z = Reject(x, w.writer, w.eid, "wal_sync_failed")
        BY <1>7, <1>8 DEF Runs, Step
    <2> DEFINE why == "wal_sync_failed"
    <2>3. w.eid \in Entities /\ why \in Reasons /\ why # "not authoritative"
        BY <2>2 DEF Writes, Reasons
    <2> HIDE DEF x, w
    <2>4. Holds(c, {}, {}, {}, Reject(x, w.writer, w.eid, why)) /\ Rest(x, Reject(x, w.writer, w.eid, why))
        <3> HIDE DEF why
        <3> QED
            BY <2>1, <2>3, RejectKeeps
    <2> HIDE DEF z
    <2>5. Holds(c, {}, {}, {}, z) /\ Rest(x, z)
        BY <2>2, <2>4
    <2> QED
        BY <2>1, <2>5, RestOn DEF z
<1> HIDE DEF good
<1>11. n \in good
    <2>1. \A k \in 1..n : k - 1 \in good => k \in good
        BY <1>10
    <2>2. n \in 0..n
        BY <1>7
    <2>3. \A k \in 0..n : k \in good
        BY <1>7, <1>9, <2>1, Along
    <2> QED
        BY <2>2, <2>3
<1>12. Holds(c, {}, {}, {}, t) /\ t.online = s.online
    BY <1>5, <1>8, <1>11 DEF good, Rest
<1> QED
    BY <1>12 DEF t

LEMMA FlushedKeeps ==
    ASSUME NEW c, NEW s, Holds(c, {}, {}, {}, s)
    PROVE  LET t == Flushed(s) IN Holds(c, {}, {}, {}, t) /\ t.online = s.online
<1> DEFINE x == RefuseWrites(s)
           y == ApplyWrites(s)
           z == FlushHandoffs(y)
           t == FlushFailovers(z)
<1>1. Flushed(s) = x \/ Flushed(s) = t
    BY Zenon DEF Flushed
<1>2. Holds(c, {}, {}, {}, x) /\ x.online = s.online
    BY RefuseWritesKeep
<1>3. Holds(c, {}, {}, {}, y) /\ y.online = s.online
    BY WrittenKeeps
<1> HIDE DEF x, y
<1>4. Holds(c, {}, {}, {}, z) /\ z.online = y.online
    BY <1>3, FlushHandoffsKeep DEF Later
<1> HIDE DEF z
<1>5. Holds(c, {}, {}, {}, t) /\ t.online = z.online
    BY <1>4, FlushFailoversKeep
<1> QED
    BY <1>1, <1>2, <1>3, <1>4, <1>5

(***************************************************************************)
(* The frames of a worker.                                                 *)
(***************************************************************************)
Entries == [eid : Entities, pos : Points, epoch : Nat]
\* Who is connected is the same.
Goods(c, s, t) == Holds(c, {}, {}, {}, t) /\ t.online = s.online
LEMMA GoodsOn == ASSUME NEW c, NEW s, NEW t, NEW u, Goods(c, s, t), Goods(c, t, u) PROVE Goods(c, s, u)
BY DEF Goods
LEMMA RestGoods == ASSUME NEW c, NEW s, NEW t, Holds(c, {}, {}, {}, t), Rest(s, t) PROVE Goods(c, s, t)
BY DEF Goods, Rest
LEMMA AsideGoods ==
    ASSUME NEW c, NEW s, Holds(c, {}, {}, {}, s), NEW t \in Brokers, Aside(s, t), StagedLive(t)
    PROVE  Goods(c, s, t)
<1>1. Holds(c, {}, {}, {}, t)
    BY AsideKeeps
<1> QED
    BY <1>1 DEF Goods, Aside

\* The log does not take a line: who sent it is told so.
LEMMA UnwrittenKeeps ==
    ASSUME NEW c, NEW s, Holds(c, {}, {}, {}, s), NEW w, NEW e \in Entities
    PROVE  Goods(c, s, Unwritten(s, w, e))
<1> DEFINE d == [s EXCEPT !.degraded = TRUE]
           y == "wal_persist_failed"
           t == Reject(d, w, e, y)
<1>1. Holds(c, {}, {}, {}, d) /\ Rest(s, d)
    BY DegradedKeeps
<1>2. y \in Reasons /\ y # "not authoritative" /\ Unwritten(s, w, e) = t
    BY DEF Reasons, Unwritten
<1> HIDE DEF d, y
<1>3. Holds(c, {}, {}, {}, t) /\ Rest(d, t)
    BY <1>1, <1>2, RejectKeeps
<1> HIDE DEF t
<1> QED
    BY <1>1, <1>2, <1>3, RestOn, RestGoods

LEMMA UpdateKeeps ==
    ASSUME NEW c, NEW s, Holds(c, {}, {}, {}, s), NEW w \in s.online, NEW u \in Entries
    PROVE  Goods(c, s, Update(s, w, u))
<1> DEFINE e == u.eid
           t == Update(s, w, u)
<1>1. s \in Brokers /\ StagedLive(s) /\ w \in Workers /\ e \in Entities /\ u.pos \in Points
    BY HoldsIs DEF Entries
<1>2. ASSUME NEW y \in Reasons, y = "not authoritative" => Responsible(s, e) # w, t = Reject(s, w, e, y)
      PROVE  Goods(c, s, t)
    <2> HIDE DEF t
    <2>1. Holds(c, {}, {}, {}, Reject(s, w, e, y)) /\ Rest(s, Reject(s, w, e, y))
        BY <1>1, <1>2, RejectKeeps
    <2> QED
        BY <1>2, <2>1, RestGoods
<1>3. CASE ~Live(s, e)
    <2> DEFINE y == "entity not found"
    <2>1. t = Reject(s, w, e, y) /\ y \in Reasons /\ y # "not authoritative"
        BY <1>3 DEF Update, Reasons
    <2> HIDE DEF y, t
    <2> QED
        BY <1>2, <2>1 DEF t
<1>4. CASE Live(s, e) /\ Responsible(s, e) # w
    <2> DEFINE y == "not authoritative"
    <2>1. t = Reject(s, w, e, y) /\ y \in Reasons
        BY <1>4 DEF Update, Reasons
    <2> HIDE DEF y, t
    <2> QED
        BY <1>2, <1>4, <2>1 DEF t
<1>5. CASE Live(s, e) /\ Responsible(s, e) = w /\ u.epoch # s.ents[e].epoch
    <2> DEFINE y == "stale authority epoch"
    <2>1. t = Reject(s, w, e, y) /\ y \in Reasons /\ y # "not authoritative"
        BY <1>5 DEF Update, Reasons
    <2> HIDE DEF y, t
    <2> QED
        BY <1>2, <2>1 DEF t
<1>6. CASE Live(s, e) /\ Responsible(s, e) = w /\ u.epoch = s.ents[e].epoch /\ e \in s.refused
    <2>1. t = Unwritten(s, w, e)
        BY <1>6 DEF Update
    <2> HIDE DEF t
    <2> QED
        BY <1>1, <2>1, UnwrittenKeeps DEF t
<1>7. CASE Live(s, e) /\ Responsible(s, e) = w /\ u.epoch = s.ents[e].epoch /\ e \notin s.refused
    <2> DEFINE m == [eid |-> e, pos |-> u.pos, writer |-> w]
               q == s.writes
               z == Append(q, m)
    <2>1. t = [s EXCEPT !.writes = z]
        BY <1>7 DEF Update
    <2>2. z \in Seq(Writes) /\ q \in Seq(Writes) /\ m.eid = e /\ m \in Writes
        BY <1>1 DEF Brokers, Writes
    <2>3. \A i \in DOMAIN z : z[i] = m \/ (i \in DOMAIN q /\ z[i] = q[i])
        <3> HIDE DEF m, q
        <3> DEFINE n == Len(q)
        <3>1. /\ n \in Nat /\ DOMAIN q = 1..n /\ DOMAIN z = 1..(n + 1) /\ z[n + 1] = m
              /\ \A i \in 1..n : z[i] = q[i]
            BY <2>2
        <3> HIDE DEF n, z
        <3>2. \A i \in 1..(n + 1) : i \in 1..n \/ i = n + 1
            BY <3>1
        <3> QED
            BY <3>1, <3>2
    <2>4. \A i \in DOMAIN z : Live(s, z[i].eid)
        <3>1. \A i \in DOMAIN q : Live(s, q[i].eid)
            BY <1>1 DEF StagedLive
        <3> HIDE DEF m, q, z
        <3> QED
            BY <1>7, <2>2, <2>3, <3>1
    <2> HIDE DEF t, z, q
    <2>5. /\ t \in Brokers /\ t.online = s.online /\ t.out = s.out /\ t.view = s.view
          /\ t.untold = s.untold /\ t.blurred = s.blurred /\ t.stranded = s.stranded
          /\ t.ents = s.ents /\ t.holder = s.holder /\ t.writes = z
          /\ t.failovers = s.failovers /\ t.handoffs = s.handoffs
        BY <1>1, <2>1, <2>2 DEF Brokers
    <2>6. StagedLive(t) /\ Aside(s, t)
        BY <1>1, <2>4, <2>5 DEF StagedLive, Aside, Live
    <2> QED
        BY <2>5, <2>6, AsideGoods DEF t
<1> QED
    BY <1>3, <1>4, <1>5, <1>6, <1>7

LEMMA BatchKeeps ==
    ASSUME NEW c, NEW s, Holds(c, {}, {}, {}, s), NEW w \in s.online, NEW us \in Seq(Entries)
    PROVE  Goods(c, s, Batched(s, w, us))
<1> DEFINE t == Batched(s, w, us)
           n == Len(us)
<1>1. Ends("update", w, s, us, t)
    BY BatchRuns
<1> HIDE DEF t
<1>2. n \in Nat /\ DOMAIN us = 1..n /\ \A i \in 1..n : us[i] \in Entries
    OBVIOUS
<1> HIDE DEF n
<1>3. PICK run : Runs("update", w, s, us, n, run) /\ t = run[n]
    BY <1>1 DEF Ends, n
<1> DEFINE good == {k \in 0..n : Goods(c, s, run[k])}
<1>4. 0 \in good
    BY <1>2, <1>3 DEF Runs, Goods
<1>5. ASSUME NEW k \in 1..n, k - 1 \in good PROVE k \in good
    <2> DEFINE x == run[k - 1]
               u == us[k]
               z == run[k]
    <2>1. Goods(c, s, x) /\ Holds(c, {}, {}, {}, x) /\ w \in x.online
        BY <1>5 DEF Goods
    <2>2. u \in Entries /\ z = Update(x, w, u)
        BY <1>2, <1>3 DEF Runs, Step
    <2> HIDE DEF x, u, z
    <2>3. Goods(c, x, z)
        BY <2>1, <2>2, UpdateKeeps
    <2> QED
        BY <2>1, <2>3, GoodsOn DEF z
<1> HIDE DEF good
<1>6. n \in good
    <2>1. \A k \in 1..n : k - 1 \in good => k \in good
        BY <1>5
    <2>2. n \in 0..n
        BY <1>2
    <2>3. \A k \in 0..n : k \in good
        BY <1>2, <1>4, <2>1, Along
    <2> QED
        BY <2>2, <2>3
<1> QED
    BY <1>3, <1>6 DEF good, t

\* A worker says what interests it: it is shown what it has not seen.
LEMMA InterestKeeps ==
    ASSUME NEW c, NEW s, Holds(c, {}, {}, {}, s), NEW w \in s.online
    PROVE  Goods(c, s, InterestArrives(s, w))
<1> DEFINE u == [s EXCEPT !.aoi = @ \cup {w}]
           S == {e \in Entities : Live(s, e) /\ e \notin s.view[w]}
           q == SetToSeq(S)
           t == InterestArrives(s, w)
           n == Len(q)
<1>1. s \in Brokers /\ StagedLive(s) /\ w \in Workers /\ IsFiniteSet(S)
    BY HoldsIs, NoneIs, FS_Subset
<1>2. q \in Seq(S)
    <2> HIDE DEF S
    <2> QED
        BY <1>1, SetToSeqIs
<1>3. Ends("unseen", w, u, q, t)
    BY <1>2, InterestRuns
<1>4. Goods(c, s, u) /\ \A x : Live(u, x) <=> Live(s, x)
    <2>1. /\ u \in Brokers /\ u.online = s.online /\ u.out = s.out /\ u.view = s.view
          /\ u.untold = s.untold /\ u.blurred = s.blurred /\ u.stranded = s.stranded
          /\ u.ents = s.ents /\ u.holder = s.holder /\ u.writes = s.writes
          /\ u.failovers = s.failovers /\ u.handoffs = s.handoffs
        BY <1>1 DEF Brokers
    <2> HIDE DEF u
    <2> QED
        BY <1>1, <2>1, AsideGoods DEF Aside, StagedLive, Live
<1>5. n \in Nat /\ DOMAIN q = 1..n /\ \A i \in 1..n : q[i] \in Entities /\ Live(s, q[i])
    <2>1. \A x \in S : x \in Entities /\ Live(s, x)
        OBVIOUS
    <2> HIDE DEF S
    <2> QED
        BY <1>2, <2>1
<1> HIDE DEF u, S, q, t, n
<1>6. PICK run : Runs("unseen", w, u, q, n, run) /\ t = run[n]
    BY <1>3 DEF Ends, n
<1> DEFINE good == {k \in 0..n : Goods(c, s, run[k]) /\ Rest(u, run[k])}
<1>7. 0 \in good
    BY <1>4, <1>5, <1>6, RestSelf DEF Runs
<1>8. ASSUME NEW k \in 1..n, k - 1 \in good PROVE k \in good
    <2> DEFINE x == run[k - 1]
               e == q[k]
               z == run[k]
    <2>1. Goods(c, s, x) /\ Holds(c, {}, {}, {}, x) /\ w \in x.online /\ Rest(u, x)
        BY <1>8 DEF Goods
    <2>2. e \in Entities /\ Live(x, e) /\ z = SendFull(x, w, e)
        BY <1>4, <1>5, <1>6, <2>1, RestIs DEF Runs, Step
    <2> HIDE DEF x, e, z
    <2>3. Holds(c, {}, {}, {} \ {<<w, e>>}, z) /\ Rest(x, z)
        BY <2>1, <2>2, SendFullKeeps
    <2>4. {} \ {<<w, e>>} = {}
        OBVIOUS
    <2>5. Goods(c, x, z)
        BY <2>3, <2>4, RestGoods
    <2> QED
        BY <2>1, <2>3, <2>5, GoodsOn, RestOn DEF z
<1> HIDE DEF good
<1>9. n \in good
    <2>1. \A k \in 1..n : k - 1 \in good => k \in good
        BY <1>8
    <2>2. n \in 0..n
        BY <1>5
    <2>3. \A k \in 0..n : k \in good
        BY <1>5, <1>7, <2>1, Along
    <2> QED
        BY <2>2, <2>3
<1> QED
    BY <1>6, <1>9 DEF good, t

\* An entity appears: whoever sees it is shown it, and who holds its region gets it.
LEMMA BornKeeps ==
    ASSUME NEW c, NEW s, Holds(c, {}, {}, {}, s), NEW m, m.eid \in Entities, m.pos \in Points,
           ~Live(s, m.eid)
    PROVE  LET t == BornIn(s, m) IN
           /\ Holds(c, {}, Workers \X {m.eid}, {}, t) /\ t.online = s.online
           /\ Live(t, m.eid)
<1> DEFINE e == m.eid
           x == [pos |-> m.pos, region |-> StripOf(m.pos), owner |-> None, epoch |-> 1]
           S == s.stranded \ {e}
           q == Workers \X {e}
           t == BornIn(s, m)
<1>1. s \in Brokers /\ StagedLive(s) /\ s.online \subseteq Workers
    BY HoldsIs
<1>2. x \in Placed
    BY DEF Placed, StripOf, Sides
<1>3. S \in SUBSET Entities /\ s.untold \in SUBSET Pairs /\ s.blurred \in SUBSET Pairs
    BY <1>1 DEF Brokers
<1>4. t = Changed(s, e, x, S, s.untold, s.blurred)
    <2> HIDE DEF x
    <2> QED
        BY <1>1 DEF BornIn, Changed, Brokers, x
<1> HIDE DEF t, x
<1>5. Changing(s, e, x, S, s.untold, s.blurred, t)
    BY <1>1, <1>2, <1>3, <1>4, ChangedIs
<1>6. /\ t \in Brokers /\ t.out = s.out /\ t.view = s.view /\ t.online = s.online
      /\ t.stranded = S /\ t.untold = s.untold /\ t.blurred = s.blurred /\ t.holder = s.holder
      /\ t.ents[e] = x /\ Live(t, e) /\ StagedLive(t)
      /\ \A y \in Entities : y # e => t.ents[y] = s.ents[y] /\ (Live(t, y) <=> Live(s, y))
      /\ t.writes = s.writes /\ t.handoffs = s.handoffs /\ t.failovers = s.failovers
    BY <1>1, <1>5 DEF Changing
<1>7. \A v : Ear(c, t, v) = Ear(c, s, v)
    BY <1>6, Silent
<1>8. ASSUME NEW v \in s.online, NEW y \in Entities
      PROVE  Kept(c, {}, {}, {}, q, {}, {}, s, t, v, y)
    <2>1. CASE y # e
        <3>1. y \in s.stranded => y \in t.stranded
            BY <1>6, <2>1
        <3>2. Alike(c, s, t, v, y)
            BY <1>6, <1>7, <2>1, <3>1 DEF Alike, Responsible, HolderOf
        <3> QED
            BY <3>2 DEF Kept
    <2>2. CASE y = e
        <3>1. OwnOnly(c, s, v, e) /\ Shown(s, v, e)
            BY HoldsOwn, HoldsAt
        <3>2. ~Simulates(c, t, v, e) /\ e \notin t.view[v]
            BY <1>6, <1>7, <3>1 DEF OwnOnly, Shown, Simulates
        <3>3. <<v, e>> \in q
            BY <1>1
        <3> QED
            BY <2>2, <3>2, <3>3 DEF Kept, Shown, OwnOnly, Placid
    <2> QED
        BY <2>1, <2>2
<1> HIDE DEF q
<1>9. Holds(c, {}, q, {}, t)
    BY <1>6, <1>8, Quiet
<1> QED
    BY <1>6, <1>9 DEF t, q

LEMMA CreateKeeps ==
    ASSUME NEW c, NEW s, Holds(c, {}, {}, {}, s), NEW w, NEW m, m.eid \in Entities, m.pos \in Points
    PROVE  Goods(c, s, Create(s, w, m))
<1> DEFINE e == m.eid
           u == BornIn(s, m)
           q == SetToSeq(s.online)
           t == Born(s, m)
           n == Len(q)
           left(k) == {<<q[i], e>> : i \in (k + 1)..n}
<1>1. CASE Live(s, e)
    BY <1>1 DEF Create, Goods
<1>2. CASE ~Live(s, e) /\ e \in s.refused
    <2>1. Create(s, w, m) = Unwritten(s, w, e)
        BY <1>2 DEF Create
    <2> QED
        BY <2>1, UnwrittenKeeps
<1>3. CASE ~Live(s, e) /\ e \notin s.refused
    <2>c. Create(s, w, m) = t
        BY <1>3 DEF Create
    <2>1. s.online \subseteq Workers /\ IsFiniteSet(s.online)
        BY HoldsIs, NoneIs, FS_Subset
    <2>2. q \in Seq(s.online) /\ \A v \in s.online : \E i \in DOMAIN q : q[i] = v
        BY <2>1, SetToSeqIs
    <2>3. Ends("appear", e, u, q, t)
        BY <2>2, BornRuns
    <2>4. Holds(c, {}, Workers \X {e}, {}, u) /\ u.online = s.online /\ Live(u, e)
        BY <1>3, BornKeeps
    <2> HIDE DEF q, t, u
    <2>5. n \in Nat /\ DOMAIN q = 1..n
        BY <2>2
    <2>6. PICK run : Runs("appear", e, u, q, n, run) /\ t = run[n]
        BY <2>3 DEF Ends
    <2>7. Holds(c, {}, left(0), {}, u)
        <3>1. \A v \in u.online, x \in Entities : <<v, x>> \in Workers \X {e} => <<v, x>> \in left(0)
            BY <2>2, <2>4, <2>5
        <3> HIDE DEF left
        <3> QED
            BY <2>4, <3>1 DEF Holds
    <2> DEFINE good == {k \in 0..n : Holds(c, {}, left(k), {}, run[k]) /\ Else(u, run[k], e)}
    <2>8. 0 \in good
        <3>1. Else(u, u, e)
            BY DEF Else
        <3> HIDE DEF left
        <3> QED
            BY <2>5, <2>6, <2>7, <3>1 DEF Runs
    <2>9. ASSUME NEW k \in 1..n, k - 1 \in good PROVE k \in good
        <3> DEFINE y == run[k - 1]
                   v == q[k]
                   z == ShowTo(y, v, e)
                   p == left(k - 1)
        <3>1. Holds(c, {}, p, {}, y) /\ Else(u, y, e)
            BY <2>9
        <3>2. v \in s.online /\ run[k] = z
            BY <2>2, <2>5, <2>6 DEF Runs, Step
        <3>3. p \ {<<v, e>>} \subseteq left(k)
            <4>1. ASSUME NEW i \in ((k - 1) + 1)..n, q[i] # v PROVE i \in (k + 1)..n
                BY <2>5, <4>1
            <4> QED
                BY <4>1
        <3> HIDE DEF y, v, p, left
        <3>4. v \in y.online /\ Live(y, e)
            BY <2>4, <3>1, <3>2 DEF Else
        <3>5. Holds(c, {}, p \ {<<v, e>>}, {}, z) /\ Else(y, z, e)
            BY <3>1, <3>4, ShowToKeeps
        <3> HIDE DEF z
        <3>6. Holds(c, {}, left(k), {}, z)
            BY <3>3, <3>5, HoldsMore
        <3>7. Else(u, z, e)
            BY <3>1, <3>5, ElseOn
        <3> QED
            BY <3>2, <3>6, <3>7
    <2>10. n \in good
        <3> HIDE DEF good, n
        <3>1. \A k \in 1..n : k - 1 \in good => k \in good
            BY <2>9
        <3>2. n \in 0..n
            BY <2>5
        <3>3. \A k \in 0..n : k \in good
            BY <2>5, <2>8, <3>1, Along
        <3> QED
            BY <3>2, <3>3
    <2>11. left(n) = {}
        <3>1. (n + 1)..n = {}
            BY <2>5
        <3> QED
            BY <3>1
    <2> QED
        BY <2>c, <2>4, <2>6, <2>10, <2>11 DEF Goods, Else
<1> QED
    BY <1>1, <1>2, <1>3

(***************************************************************************)
(* A worker that comes, and one that goes.                                 *)
(***************************************************************************)
LEMMA ClaimIs ==
    ASSUME NEW s \in Brokers, NEW w \in Workers, conf.home[w] \in Sides \cup {"STANDBY"}
    PROVE  LET t == Claim(s, w) IN
           /\ t \in Brokers /\ t.online = s.online /\ t.out = s.out /\ t.ents = s.ents
           /\ t.view = s.view /\ t.untold = s.untold /\ t.blurred = s.blurred
           /\ t.stranded = s.stranded /\ t.writes = s.writes /\ t.handoffs = s.handoffs
           /\ t.failovers = s.failovers
           /\ \A r \in Sides : t.holder[r] \in {s.holder[r], w}
<1> DEFINE home == conf.home[w]
           q == Append(s.standbys, w)
<1>1. CASE home = "STANDBY"
    <2>1. Claim(s, w) = [s EXCEPT !.standbys = q]
        BY <1>1 DEF Claim, Sides
    <2>2. q \in Seq(Workers)
        BY DEF Brokers
    <2> HIDE DEF q
    <2> QED
        BY <2>1, <2>2 DEF Brokers
<1>2. CASE home # "STANDBY" /\ s.holder[home] \notin {w, None} /\ home \notin s.lapsed
    BY <1>2 DEF Claim
<1>3. CASE home # "STANDBY" /\ ~(s.holder[home] \notin {w, None} /\ home \notin s.lapsed)
    <2>1. Claim(s, w) = [s EXCEPT !.holder[home] = w, !.lapsed = @ \ {home}]
        BY <1>3 DEF Claim
    <2>2. home \in Sides
        BY <1>3
    <2> DEFINE H == [s.holder EXCEPT ![home] = w]
               L == s.lapsed \ {home}
    <2>3. Claim(s, w) = [s EXCEPT !.holder = H, !.lapsed = L]
        BY <2>1 DEF Brokers
    <2>4. /\ H \in [Sides -> Workers \cup {None}] /\ L \in SUBSET Sides
          /\ \A r \in Sides : H[r] \in {s.holder[r], w}
        BY <2>2 DEF Brokers
    <2> HIDE DEF H, L
    <2> QED
        BY <2>3, <2>4 DEF Brokers
<1> QED
    BY <1>1, <1>2, <1>3

LEMMA ThereIs ==
    ASSUME NEW s \in Brokers, NEW w \in Workers, conf.home[w] \in Sides \cup {"STANDBY"}
    PROVE  LET t == There(s, w) IN
           /\ t \in Brokers /\ t.online = s.online \cup {w} /\ t.out = s.out /\ t.ents = s.ents
           /\ t.view = [s.view EXCEPT ![w] = {}] /\ t.untold = s.untold /\ t.blurred = s.blurred
           /\ t.stranded = s.stranded /\ t.writes = s.writes /\ t.handoffs = s.handoffs
           /\ t.failovers = s.failovers /\ t.holder = s.holder
<1> DEFINE home == conf.home[w]
           L == {}
           t == [s EXCEPT !.online = @ \cup {w}, !.aoi = @ \ {w}, !.serves[w] = home, !.view[w] = L]
<1>1. There(s, w) = t
    BY DEF There
<1>2. L \in SUBSET Entities /\ home \in Sides \cup {"STANDBY", None}
    OBVIOUS
<1> HIDE DEF L, home
<1>3. /\ t \in Brokers /\ t.online = s.online \cup {w} /\ t.out = s.out /\ t.ents = s.ents
      /\ t.view = [s.view EXCEPT ![w] = L] /\ t.untold = s.untold /\ t.blurred = s.blurred
      /\ t.stranded = s.stranded /\ t.writes = s.writes /\ t.handoffs = s.handoffs
      /\ t.failovers = s.failovers /\ t.holder = s.holder
    BY <1>2 DEF Brokers
<1> QED
    BY <1>1, <1>3 DEF L

\* Who comes simulates nothing and is shown nothing; it answers for what nobody owns in the
\* region it takes, which is not asked yet.
LEMMA ArrivesKeeps ==
    ASSUME NEW c, NEW s, Holds(c, {}, {}, {}, s), NEW w \in Workers, w \notin s.online,
           conf.home[w] \in Sides \cup {"STANDBY"}, Len(Chan(s, w)) = 0,
           \A e \in Entities : ~Simulates(c, s, w, e)
    PROVE  LET t == Claim(There(s, w), w) IN
           /\ Holds(c, {}, {w} \X Entities, {}, t) /\ t.online = s.online \cup {w}
           /\ t.handoffs = s.handoffs /\ \A e \in Entities : Live(t, e) <=> Live(s, e)
<1> DEFINE y == There(s, w)
           t == Claim(y, w)
           q == {w} \X Entities
<1>1. s \in Brokers /\ StagedLive(s) /\ Adopts(c, s) /\ down \in [Workers -> Seq(Frame)]
      /\ (\A v \in Workers : Ear(c, s, v) \in Mind) /\ s.online \subseteq Workers
    BY HoldsIs
<1>2. /\ y \in Brokers /\ y.online = s.online \cup {w} /\ y.out = s.out /\ y.ents = s.ents
      /\ y.view = [s.view EXCEPT ![w] = {}] /\ y.untold = s.untold /\ y.blurred = s.blurred
      /\ y.stranded = s.stranded /\ y.writes = s.writes /\ y.handoffs = s.handoffs
      /\ y.failovers = s.failovers /\ y.holder = s.holder
    BY <1>1, ThereIs
<1> HIDE DEF y
<1>3. /\ t \in Brokers /\ t.online = y.online /\ t.out = y.out /\ t.ents = y.ents
      /\ t.view = y.view /\ t.untold = y.untold /\ t.blurred = y.blurred
      /\ t.stranded = y.stranded /\ t.writes = y.writes /\ t.handoffs = y.handoffs
      /\ t.failovers = y.failovers
      /\ \A r \in Sides : t.holder[r] \in {y.holder[r], w}
    BY <1>2, ClaimIs
<1> HIDE DEF t
<1>4. /\ t.view[w] = {} /\ \A v \in Workers : v # w => t.view[v] = s.view[v]
    BY <1>1, <1>2, <1>3 DEF Brokers
<1>5. \A v : Chan(t, v) = Chan(s, v) /\ Ear(c, t, v) = Ear(c, s, v)
    BY <1>2, <1>3 DEF Ear, Chan
<1>6. \A e : Live(t, e) <=> Live(s, e)
    BY <1>2, <1>3 DEF Live
<1>7. Adopts(c, t)
    <2> DEFINE Good(k, v) == \A n \in 1..Len(Chan(k, v)) :
                   LET m == Chan(k, v)[n]
                       z == Read(c.mind[v], SubSeq(Chan(k, v), 1, n - 1))
                   IN  m.op = "Grant" /\ m.at # None /\ z.body[m.eid] = None =>
                           Hear(z, m).body[m.eid].pos = m.at
    <2>1. \A k : Adopts(c, k) <=> (\A v \in k.online : Good(k, v))
        BY DEF Adopts
    <2>2. Good(t, w)
        <3>1. \A n \in 1..Len(Chan(t, w)) : FALSE
            BY <1>5
        <3> QED
            BY <3>1
    <2>3. ASSUME NEW v \in s.online PROVE Good(t, v)
        <3>1. Good(s, v) /\ Chan(t, v) = Chan(s, v)
            BY <1>1, <1>5, <2>1
        <3> QED
            BY <3>1
    <2> HIDE DEF Good
    <2>4. \A v \in t.online : v = w \/ v \in s.online
        BY <1>2, <1>3
    <2>5. \A v \in t.online : Good(t, v)
        BY <2>2, <2>3, <2>4
    <2> QED
        BY <2>1, <2>5
<1>8. ASSUME NEW v \in t.online, NEW e \in Entities
      PROVE  /\ Shown(t, v, e) /\ OwnOnly(c, t, v, e) /\ Placid(c, t, v, e)
             /\ <<v, e>> \notin q => AllOwn(c, t, v, e)
    <2>1. CASE v = w
        <3>1. ~Simulates(c, t, v, e)
            BY <1>5, <2>1 DEF Simulates
        <3>2. <<v, e>> \in q
            BY <2>1
        <3> QED
            BY <1>4, <2>1, <3>1, <3>2 DEF Shown, OwnOnly, Placid
    <2>2. CASE v # w
        <3>1. v \in s.online /\ v \in Workers
            BY <1>1, <1>2, <1>3, <2>2
        <3>2. Shown(s, v, e) /\ OwnOnly(c, s, v, e) /\ AllOwn(c, s, v, e) /\ Placid(c, s, v, e)
            BY <3>1 DEF Holds, Sound
        <3>3. Shown(t, v, e) /\ OwnOnly(c, t, v, e) /\ Placid(c, t, v, e)
            BY <1>2, <1>3, <1>4, <1>5, <1>6, <2>2, <3>1, <3>2 DEF Shown, OwnOnly, Placid, Simulates
        <3>4. AllOwn(c, t, v, e)
            <4>1. SUFFICES ASSUME Live(t, e), e \notin t.stranded, Responsible(t, e) = v
                           PROVE  /\ t.ents[e].owner = v
                                  /\ <<v, e>> \notin c.fold =>
                                        Simulates(c, t, v, e) /\ Ear(c, t, v).body[e].epoch = t.ents[e].epoch
                BY DEF AllOwn
            <4>2. Live(s, e) /\ s.ents[e].region \in Sides
                BY <1>1, <1>6, <4>1, PlacedIs
            <4>3. Responsible(s, e) = v
                BY <1>2, <1>3, <2>2, <4>1, <4>2 DEF Responsible, HolderOf
            <4> QED
                BY <1>2, <1>3, <1>5, <3>2, <4>1, <4>2, <4>3 DEF AllOwn, Simulates
        <3> QED
            BY <3>3, <3>4
    <2> QED
        BY <2>1, <2>2
<1>9. StagedLive(t)
    BY <1>1, <1>2, <1>3, <1>6 DEF StagedLive
<1> HIDE DEF q
<1>10. Holds(c, {}, q, {}, t)
    BY <1>1, <1>3, <1>5, <1>7, <1>8, <1>9 DEF Holds, Sound
<1> QED
    BY <1>2, <1>3, <1>6, <1>10 DEF t, y, q

LEMMA AdmittedKeeps ==
    ASSUME NEW c, NEW s, Holds(c, {}, {}, {}, s), NEW w \in Workers, w \notin s.online,
           conf.home[w] \in Sides \cup {"STANDBY"}, Len(Chan(s, w)) = 0,
           \A e \in Entities : ~Simulates(c, s, w, e)
    PROVE  LET t == Admitted(s, w) IN
           Holds(c, {}, {}, {}, t) /\ t.online = s.online \cup {w} /\ t.handoffs = s.handoffs
<1> DEFINE u == Claim(There(s, w), w)
           S == {e \in Entities : Live(s, e)}
           q == SetToSeq(S)
           t == Admitted(s, w)
           n == Len(q)
           left(k) == {<<w, q[i]>> : i \in (k + 1)..n}
<1>1. /\ Holds(c, {}, {w} \X Entities, {}, u) /\ u.online = s.online \cup {w}
      /\ u.handoffs = s.handoffs /\ \A e \in Entities : Live(u, e) <=> Live(s, e)
    BY ArrivesKeeps
<1>2. q \in Seq(S) /\ \A e \in S : \E i \in DOMAIN q : q[i] = e
    <2>1. IsFiniteSet(S)
        BY NoneIs, FS_Subset
    <2> HIDE DEF S
    <2> QED
        BY <2>1, SetToSeqIs
<1>3. Ends("greet", w, u, q, t)
    BY <1>2, AdmittedRuns
<1> HIDE DEF q, t, u
<1>4. n \in Nat /\ DOMAIN q = 1..n /\ \A i \in 1..n : q[i] \in Entities /\ Live(u, q[i])
    BY <1>1, <1>2
<1>5. PICK run : Runs("greet", w, u, q, n, run) /\ t = run[n]
    BY <1>3 DEF Ends
<1>6. Holds(c, {}, left(0), {}, u)
    <2>1. ASSUME NEW v \in u.online, NEW e \in Entities, <<v, e>> \notin left(0)
          PROVE  AllOwn(c, u, v, e)
        <3>1. CASE v # w
            <4>1. <<v, e>> \notin {w} \X Entities
                BY <3>1
            <4> QED
                BY <1>1, <4>1 DEF Holds
        <3>2. CASE v = w
            <4>1. e \notin S
                BY <1>2, <1>4, <2>1, <3>2
            <4> QED
                BY <1>1, <4>1 DEF AllOwn
        <3> QED
            BY <3>1, <3>2
    <2> HIDE DEF left
    <2> QED
        BY <1>1, <2>1 DEF Holds
<1> DEFINE good == {k \in 0..n : Holds(c, {}, left(k), {}, run[k]) /\ Company(u, run[k])}
<1>7. 0 \in good
    <2> HIDE DEF left
    <2> QED
        BY <1>4, <1>5, <1>6, CompanySelf DEF Runs
<1>8. ASSUME NEW k \in 1..n, k - 1 \in good PROVE k \in good
    <2> DEFINE y == run[k - 1]
               e == q[k]
               z == ShowTo(y, w, e)
               p == left(k - 1)
    <2>1. Holds(c, {}, p, {}, y) /\ Company(u, y)
        BY <1>8
    <2>2. e \in Entities /\ Live(u, e) /\ run[k] = z
        BY <1>4, <1>5 DEF Runs, Step
    <2>3. p \ {<<w, e>>} \subseteq left(k)
        <3>1. ASSUME NEW i \in ((k - 1) + 1)..n, q[i] # e PROVE i \in (k + 1)..n
            BY <1>4, <3>1
        <3> QED
            BY <3>1
    <2> HIDE DEF y, e, p, left
    <2>4. w \in y.online /\ Live(y, e)
        BY <1>1, <2>1, <2>2 DEF Company
    <2>5. Holds(c, {}, p \ {<<w, e>>}, {}, z) /\ Else(y, z, e)
        BY <2>1, <2>2, <2>4, ShowToKeeps
    <2> HIDE DEF z
    <2>6. Holds(c, {}, left(k), {}, z)
        BY <2>3, <2>5, HoldsMore
    <2>7. Company(u, z)
        BY <2>1, <2>5, ElseIs, CompanyOn
    <2> QED
        BY <2>2, <2>6, <2>7
<1>9. n \in good
    <2> HIDE DEF good, n
    <2>1. \A k \in 1..n : k - 1 \in good => k \in good
        BY <1>8
    <2>2. n \in 0..n
        BY <1>4
    <2>3. \A k \in 0..n : k \in good
        BY <1>4, <1>7, <2>1, Along
    <2> QED
        BY <2>2, <2>3
<1>10. left(n) = {}
    <2>1. (n + 1)..n = {}
        BY <1>4
    <2> QED
        BY <2>1
<1> QED
    BY <1>1, <1>5, <1>9, <1>10 DEF t, Company

\* Of who goes nothing is asked any more.
LEMMA GoneKeeps ==
    ASSUME NEW c, NEW s, Holds(c, {}, {}, {}, s), NEW w
    PROVE  LET t == Gone(s, w) IN
           Holds(c, {}, {}, {}, t) /\ t.online = s.online \ {w} /\ t.handoffs = s.handoffs
<1> DEFINE U == {p \in s.untold : p[1] # w}
           B == {p \in s.blurred : p[1] # w}
           t == Gone(s, w)
<1>1. s \in Brokers /\ StagedLive(s) /\ Adopts(c, s) /\ down \in [Workers -> Seq(Frame)]
      /\ (\A v \in Workers : Ear(c, s, v) \in Mind) /\ s.online \subseteq Workers
    BY HoldsIs
<1>2. U \in SUBSET Pairs /\ B \in SUBSET Pairs
    BY <1>1 DEF Brokers
<1>3. t = [s EXCEPT !.online = @ \ {w}, !.untold = U, !.blurred = B]
    BY <1>1 DEF Gone, Brokers
<1>4. \A v, e : v # w => /\ <<v, e>> \in s.untold => <<v, e>> \in U
                         /\ <<v, e>> \in s.blurred => <<v, e>> \in B
    OBVIOUS
<1> HIDE DEF U, B, t
<1>5. /\ t \in Brokers /\ t.online = s.online \ {w} /\ t.out = s.out /\ t.ents = s.ents
      /\ t.view = s.view /\ t.untold = U /\ t.blurred = B /\ t.holder = s.holder
      /\ t.stranded = s.stranded /\ t.writes = s.writes /\ t.handoffs = s.handoffs
      /\ t.failovers = s.failovers
    BY <1>1, <1>2, <1>3 DEF Brokers
<1>6. /\ \A v : Chan(t, v) = Chan(s, v) /\ Ear(c, t, v) = Ear(c, s, v)
      /\ \A e : (Live(t, e) <=> Live(s, e)) /\ Responsible(t, e) = Responsible(s, e)
    BY <1>5 DEF Ear, Chan, Live, Responsible, HolderOf
<1>7. Adopts(c, t) /\ StagedLive(t)
    BY <1>1, <1>5, <1>6 DEF Adopts, StagedLive
<1>8. ASSUME NEW v \in t.online, NEW e \in Entities
      PROVE  /\ Shown(t, v, e) /\ OwnOnly(c, t, v, e) /\ Placid(c, t, v, e)
             /\ AllOwn(c, t, v, e)
    <2>1. v \in s.online /\ v # w
        BY <1>5
    <2>2. Shown(s, v, e) /\ OwnOnly(c, s, v, e) /\ AllOwn(c, s, v, e) /\ Placid(c, s, v, e)
        BY <2>1 DEF Holds, Sound
    <2> QED
        BY <1>4, <1>5, <1>6, <2>1, <2>2 DEF Shown, OwnOnly, Placid, AllOwn, Simulates
<1> QED
    BY <1>1, <1>5, <1>6, <1>7, <1>8 DEF Holds, Sound, t

(***************************************************************************)
(* A fold: its sender has let go of the body.                              *)
(***************************************************************************)
Answers(s, w, e) ==
    Live(s, e) /\ e \notin s.stranded /\ Responsible(s, e) = w => s.ents[e].owner = w

\* Of a worker that does not answer for an entity nothing is asked.
LEMMA HoldsElse ==
    ASSUME NEW c, NEW p, NEW s, NEW w, NEW e, Holds(c, {}, {<<w, e>>}, p, s),
           ~Live(s, e) \/ Responsible(s, e) # w \/ e \in s.stranded
    PROVE  Holds(c, {}, {}, p, s)
<1> DEFINE q == {<<w, e>>}
           nobody == {}
<1>1. \A v \in s.online, x \in Entities : AllOwn(c, s, v, x)
    <2>1. ASSUME NEW v \in s.online, NEW x \in Entities PROVE AllOwn(c, s, v, x)
        <3>1. CASE <<v, x>> \in q
            <4>1. v = w /\ x = e
                BY <3>1
            <4> QED
                BY <4>1 DEF AllOwn
        <3>2. CASE <<v, x>> \notin q
            BY <3>2 DEF Holds
        <3> QED
            BY <3>1, <3>2
    <2> QED
        BY <2>1
<1> HIDE DEF q
<1>2. Holds(c, nobody, q, p, s)
    BY DEF q
<1> HIDE DEF nobody
<1>3. Holds(c, nobody, {}, p, s)
    BY <1>1, <1>2 DEF Holds
<1> QED
    BY <1>3 DEF nobody

LEMMA LetGoKeeps ==
    ASSUME NEW c, NEW s, NEW w \in s.online, NEW e \in Entities, Holds(c, {}, {<<w, e>>}, {}, s),
           Answers(s, w, e)
    PROVE  LET t == LetGo(s, w, e) IN Holds(c, {}, {}, {}, t) /\ Rest(s, t)
<1>1. CASE s.ents[e].owner = w
    <2> DEFINE q == {<<w, e>>}
               t == Strand(s, e)
    <2>1. LetGo(s, w, e) = t
        BY <1>1 DEF LetGo
    <2>2. w \in Workers
        BY HoldsAt
    <2>3. q \ (Workers \X {e}) = {}
        BY <2>2
    <2> HIDE DEF q, t
    <2>4. Holds(c, {}, q \ (Workers \X {e}), {}, t) /\ Rest(s, t)
        BY StrandKeeps DEF q, t
    <2> QED
        BY <2>1, <2>3, <2>4
<1>2. CASE s.ents[e].owner # w
    <2>1. LetGo(s, w, e) = s
        BY <1>2 DEF LetGo
    <2>2. Holds(c, {}, {}, {}, s)
        BY <1>2, HoldsElse DEF Answers
    <2> QED
        BY <2>1, <2>2, RestSelf
<1> QED
    BY <1>1, <1>2

\* A fold that is carried hands the body to who holds the region it goes to, now or when
\* the barrier holds; where the body is, is told in any case.
LEMMA CarriedKeeps ==
    ASSUME NEW c, NEW s, Holds(c, {}, {}, {}, s), NEW e \in Entities, Live(s, e)
    PROVE  Goods(c, s, Propagate(FlushHandoffs(s), e))
<1> DEFINE t == FlushHandoffs(s)
           z == Propagate(t, e)
           p == Workers \X {e}
           nobody == {}
<1>1. Holds(c, {}, {}, {}, t) /\ t.online = s.online /\ Live(t, e)
    BY FlushHandoffsKeep DEF Later
<1> HIDE DEF t
<1>2. Holds(c, {}, {}, p, t)
    <2> HIDE DEF p
    <2>1. Holds(c, nobody, nobody, nobody, t) /\ nobody \subseteq p
        BY <1>1 DEF nobody
    <2> HIDE DEF nobody
    <2>2. Holds(c, nobody, nobody, p, t)
        BY <2>1, HoldsMore
    <2> QED
        BY <2>2 DEF nobody
<1>3. Holds(c, {}, {}, {}, z) /\ Rest(t, z)
    BY <1>1, <1>2, PropagateKeeps
<1> QED
    BY <1>1, <1>3 DEF Goods, Rest, z, t

LEMMA FoldKeeps ==
    ASSUME NEW c, NEW s, NEW w \in s.online, NEW m, m.eid \in Entities, m.region \in Sides,
           m.pos \in Points, Holds(c, {}, {<<w, m.eid>>}, {}, s), Answers(s, w, m.eid)
    PROVE  Goods(c, s, Fold(s, w, m))
<1> DEFINE e == m.eid
           x == s.ents[e]
           t == Fold(s, w, m)
           y == LetGo(s, w, e)
           q == QueueLocalHandoff(y, e, m.region, m.pos)
<1>1. CASE x = None
    <2>1. t = s
        BY <1>1 DEF Fold
    <2>2. Holds(c, {}, {}, {}, s)
        BY <1>1, HoldsElse DEF Live
    <2> QED
        BY <2>1, <2>2 DEF Goods
<1>2. Holds(c, {}, {}, {}, y) /\ Rest(s, y)
    BY LetGoKeeps
<1>3. CASE x # None /\ HolderOf(s, x.region) # w
    <2> DEFINE why == "cannot fold"
    <2>1. t = Reject(y, w, e, "cannot fold")
        BY <1>3 DEF Fold
    <2>2. why \in Reasons /\ why # "not authoritative"
        BY DEF Reasons
    <2>3. t = Reject(y, w, e, why)
        BY <2>1
    <2> HIDE DEF why, y, t
    <2>4. Holds(c, {}, {}, {}, t) /\ Rest(y, t)
        BY <1>2, <2>2, <2>3, RejectKeeps
    <2> QED
        BY <1>2, <2>4, RestGoods, RestOn DEF t
<1>4. CASE x # None /\ HolderOf(s, x.region) = w /\ m.region = x.region
    <2>1. t = y
        BY <1>4 DEF Fold
    <2> QED
        BY <1>2, <2>1, RestGoods
<1>5. CASE x # None /\ HolderOf(s, x.region) = w /\ m.region # x.region
    <2>1. t = IF Carried(q, e) THEN Propagate(FlushHandoffs(q), e)
              ELSE Reject(q, w, e, "fold handoff failed")
        BY <1>5 DEF Fold
    <2>2. y \in Brokers /\ StagedLive(y) /\ Live(y, e) /\ Goods(c, s, y)
        <3> HIDE DEF y
        <3> QED
            BY <1>2, <1>5, HoldsIs, RestIs, RestGoods DEF Live
    <2> HIDE DEF y, t
    <2>3. q \in Brokers /\ Aside(y, q) /\ StagedLive(q)
        BY <2>2, QueueIs
    <2> HIDE DEF q
    <2>4. Goods(c, y, q)
        BY <1>2, <2>3, AsideGoods
    <2>5. Holds(c, {}, {}, {}, q) /\ Live(q, e)
        BY <2>2, <2>3, <2>4 DEF Goods, Aside, Live
    <2>6. Goods(c, q, t)
        <3>1. CASE Carried(q, e)
            BY <2>1, <2>5, <3>1, CarriedKeeps
        <3>2. CASE ~Carried(q, e)
            <4> DEFINE why == "fold handoff failed"
            <4>1. why \in Reasons /\ why # "not authoritative" /\ t = Reject(q, w, e, why)
                BY <2>1, <3>2 DEF Reasons
            <4> HIDE DEF why
            <4>2. Holds(c, {}, {}, {}, t) /\ Rest(q, t)
                BY <2>5, <4>1, RejectKeeps
            <4> QED
                BY <4>2, RestGoods
        <3> QED
            BY <3>1, <3>2
    <2> QED
        BY <2>2, <2>4, <2>6, GoodsOn DEF t
<1> QED
    BY <1>1, <1>3, <1>4, <1>5

(***************************************************************************)
(* The frames of a worker.                                                 *)
(***************************************************************************)
Words ==
    [op : {"Interest", "Heartbeat"}]
    \cup [op : {"Create"}, eid : Entities, pos : Points]
    \cup [op : {"Batch"}, updates : Seq(Entries)]
    \cup [op : {"Fold"}, eid : Entities, region : Sides, pos : Points]

LEMMA RefuseKeeps ==
    ASSUME NEW c, NEW s, NEW w \in s.online, NEW m,
           \/ m.op # "Fold" /\ Holds(c, {}, {}, {}, s)
           \/ /\ m.op = "Fold" /\ m.eid \in Entities /\ Holds(c, {}, {<<w, m.eid>>}, {}, s)
              /\ Answers(s, w, m.eid)
    PROVE  Goods(c, s, Refuse(s, w, m))
<1> DEFINE y == IF m.op = "Fold" /\ Live(s, m.eid) THEN LetGo(s, w, m.eid) ELSE s
           k == [op |-> "Reject", eid |-> None, reason |-> "degraded"]
           t == Emit(y, w, k)
<1>1. Refuse(s, w, m) = t
    BY DEF Refuse
<1>2. Holds(c, {}, {}, {}, y) /\ Rest(s, y)
    <2>1. CASE m.op # "Fold"
        BY <2>1, RestSelf
    <2>2. CASE m.op = "Fold" /\ Live(s, m.eid)
        BY <2>2, LetGoKeeps
    <2>3. CASE m.op = "Fold" /\ ~Live(s, m.eid)
        BY <2>3, HoldsElse, RestSelf
    <2> QED
        BY <2>1, <2>2, <2>3
<1>3. k \in Frame /\ k.op # "Grant"
    BY DEF Frame
<1>4. \A z : Hear(z, k) = z
    BY DEF Hear, Rejected
<1> HIDE DEF y, k
<1>5. Holds(c, {}, {}, {}, t) /\ Rest(y, t)
    BY <1>2, <1>3, <1>4, EmptyFrameKeeps
<1> QED
    BY <1>1, <1>2, <1>5, RestGoods, RestOn

LEMMA RenewKeeps ==
    ASSUME NEW c, NEW s, Holds(c, {}, {}, {}, s), NEW w
    PROVE  Goods(c, s, RenewLeases(s, w))
<1> DEFINE L == {r \in s.lapsed : s.holder[r] # w}
           t == RenewLeases(s, w)
<1>1. s \in Brokers /\ StagedLive(s)
    BY HoldsIs
<1>2. L \in SUBSET Sides /\ t = [s EXCEPT !.lapsed = L]
    BY <1>1 DEF RenewLeases, Brokers
<1> HIDE DEF L, t
<1>3. /\ t \in Brokers /\ t.online = s.online /\ t.out = s.out /\ t.view = s.view
      /\ t.untold = s.untold /\ t.blurred = s.blurred /\ t.stranded = s.stranded
      /\ t.ents = s.ents /\ t.holder = s.holder /\ t.writes = s.writes
      /\ t.failovers = s.failovers /\ t.handoffs = s.handoffs
    BY <1>1, <1>2 DEF Brokers
<1>4. Aside(s, t) /\ StagedLive(t)
    BY <1>1, <1>3 DEF Aside, StagedLive, Live
<1> QED
    BY <1>3, <1>4, AsideGoods DEF t

\* The folds of a mind are fewer, and nothing else is.
LEMMA FoldHeard ==
    ASSUME NEW c, NEW d, NEW F, NEW s, Holds(c, {}, {}, {}, s), d.mind = c.mind,
           c.fold \subseteq d.fold \cup F
    PROVE  Holds(d, {}, F, {}, s) /\ \A w \in s.online, e \in Entities : Answers(s, w, e)
<1>1. \A w : Ear(d, s, w) = Ear(c, s, w)
    BY DEF Ear
<1>2. Adopts(d, s)
    <2>1. Adopts(c, s)
        BY HoldsIs
    <2> QED
        BY <2>1 DEF Adopts
<1>3. Sound(d, s)
    BY <1>1, <1>2 DEF Sound, Holds
<1>4. ASSUME NEW w \in s.online, NEW e \in Entities
      PROVE  /\ OwnOnly(d, s, w, e) /\ Placid(d, s, w, e) /\ Answers(s, w, e)
             /\ <<w, e>> \notin F => AllOwn(d, s, w, e)
    <2>1. OwnOnly(c, s, w, e) /\ Placid(c, s, w, e) /\ AllOwn(c, s, w, e)
        BY DEF Holds
    <2>2. <<w, e>> \notin F => (<<w, e>> \in c.fold => <<w, e>> \in d.fold)
        OBVIOUS
    <2> QED
        BY <1>1, <2>1, <2>2 DEF OwnOnly, Placid, AllOwn, Answers, Simulates
<1> DEFINE nobody == {}
<1> HIDE DEF nobody
<1>5. Holds(d, nobody, F, nobody, s)
    BY <1>3, <1>4 DEF Holds
<1> QED
    BY <1>4, <1>5 DEF nobody

LEMMA DispatchKeeps ==
    ASSUME NEW c, NEW d, NEW s, Holds(c, {}, {}, {}, s), d.mind = c.mind, NEW w \in s.online,
           NEW m \in Words,
           c.fold \subseteq d.fold \cup (IF m.op = "Fold" THEN {<<w, m.eid>>} ELSE {})
    PROVE  Goods(d, s, Dispatch(s, w, m))
<1> DEFINE t == Dispatch(s, w, m)
<1>1. /\ m.op \in {"Interest", "Heartbeat", "Create", "Batch", "Fold"}
      /\ m.op = "Create" => m.eid \in Entities /\ m.pos \in Points
      /\ m.op = "Batch" => m.updates \in Seq(Entries)
      /\ m.op = "Fold" => m.eid \in Entities /\ m.region \in Sides /\ m.pos \in Points
    BY DEF Words
<1>2. t = CASE s.degraded /\ m.op \in PersistentOps -> Refuse(s, w, m)
            [] m.op = "Interest" -> InterestArrives(s, w)
            [] m.op = "Heartbeat" -> RenewLeases(s, w)
            [] m.op = "Create" /\ ~s.degraded -> Create(s, w, m)
            [] m.op = "Batch" /\ ~s.degraded -> Batched(s, w, m.updates)
            [] m.op = "Fold" /\ ~s.degraded -> Fold(s, w, m)
    BY Zenon DEF Dispatch, Batched
<1> HIDE DEF t
<1>3. CASE m.op = "Fold"
    <2> DEFINE F == {<<w, m.eid>>}
    <2>1. c.fold \subseteq d.fold \cup F
        BY <1>3
    <2> HIDE DEF F
    <2>2. Holds(d, {}, F, {}, s) /\ Answers(s, w, m.eid)
        BY <1>1, <1>3, <2>1, FoldHeard
    <2>3. CASE s.degraded
        <3>1. t = Refuse(s, w, m)
            BY <1>2, <1>3, <2>3 DEF PersistentOps
        <3> QED
            BY <1>1, <1>3, <2>2, <3>1, RefuseKeeps DEF F, t
    <2>4. CASE ~s.degraded
        <3>1. t = Fold(s, w, m)
            BY <1>2, <1>3, <2>4
        <3> QED
            BY <1>1, <1>3, <2>2, <3>1, FoldKeeps DEF F, t
    <2> QED
        BY <2>3, <2>4
<1>4. CASE m.op # "Fold"
    <2>1. Holds(d, {}, {}, {}, s)
        <3> DEFINE F == {}
        <3>1. c.fold \subseteq d.fold \cup F
            BY <1>4
        <3> HIDE DEF F
        <3>2. Holds(d, {}, F, {}, s)
            BY <3>1, FoldHeard
        <3> QED
            BY <3>2 DEF F
    <2>2. CASE s.degraded /\ m.op \in PersistentOps
        <3>1. t = Refuse(s, w, m)
            BY <1>2, <2>2 DEF PersistentOps
        <3> QED
            BY <1>4, <2>1, <3>1, RefuseKeeps DEF t
    <2>3. CASE m.op = "Interest"
        <3>1. t = InterestArrives(s, w)
            BY <1>2, <2>3 DEF PersistentOps
        <3> QED
            BY <2>1, <3>1, InterestKeeps DEF t
    <2>4. CASE m.op = "Heartbeat"
        <3>1. t = RenewLeases(s, w)
            BY <1>2, <2>4 DEF PersistentOps
        <3> QED
            BY <2>1, <3>1, RenewKeeps DEF t
    <2>5. CASE m.op = "Create" /\ ~s.degraded
        <3>1. t = Create(s, w, m)
            BY <1>2, <2>5
        <3> QED
            BY <1>1, <2>1, <2>5, <3>1, CreateKeeps DEF t
    <2>6. CASE m.op = "Batch" /\ ~s.degraded
        <3>1. t = Batched(s, w, m.updates)
            BY <1>2, <2>6
        <3> QED
            BY <1>1, <2>1, <2>6, <3>1, BatchKeeps DEF t
    <2> QED
        BY <1>1, <1>4, <2>2, <2>3, <2>4, <2>5, <2>6 DEF PersistentOps
<1> QED
    BY <1>3, <1>4

(***************************************************************************)
(* The inductive invariant.                                                *)
(***************************************************************************)
\* What the workers have in mind and which folds are on their way.
Ctx ==
    [mind |-> [w \in Workers |-> [body |-> body[w], mirror |-> mirror[w]]],
     fold |-> {p \in Pairs : \E i \in DOMAIN up[p[1]] :
                                up[p[1]][i].op = "Fold" /\ up[p[1]][i].eid = p[2]}]
Typed ==
    /\ conf \in Deployments
    /\ up \in [Workers -> Seq(Words)]
    /\ body \in [Workers -> [Entities -> Bots \cup {None}]]
    /\ mirror \in [Workers -> [Entities -> Points \cup {None}]]
Idle ==
    /\ state.out = Broker.out /\ state.refused = {} /\ state.unsynced = {}
    /\ \A w \in Workers : w \notin state.online => up[w] = <<>> /\ down[w] = <<>>
Minded == Typed /\ Idle /\ Holds(Ctx, {}, {}, {}, state)

CtxSays ==
    /\ \A w \in Workers : Ctx.mind[w] = [body |-> body[w], mirror |-> mirror[w]]
    /\ \A w \in Workers : Ctx.mind[w] \in Mind
    /\ \A w \in Workers, e \in Entities :
          <<w, e>> \in Ctx.fold <=>
              \E i \in 1..Len(up[w]) : up[w][i].op = "Fold" /\ up[w][i].eid = e

LEMMA CtxIs == ASSUME Typed PROVE CtxSays
<1>1. \A w \in Workers : Ctx.mind[w] = [body |-> body[w], mirror |-> mirror[w]]
    BY DEF Ctx
<1>2. ASSUME NEW w \in Workers PROVE Ctx.mind[w] \in Mind
    <2>1. /\ body[w] \in [Entities -> Bots \cup {None}]
          /\ mirror[w] \in [Entities -> Points \cup {None}]
        BY DEF Typed
    <2>2. Ctx.mind[w] = [body |-> body[w], mirror |-> mirror[w]]
        BY <1>1
    <2> QED
        BY <2>1, <2>2 DEF Mind
<1>3. ASSUME NEW w \in Workers, NEW e \in Entities
      PROVE  <<w, e>> \in Ctx.fold <=>
                 \E i \in 1..Len(up[w]) : up[w][i].op = "Fold" /\ up[w][i].eid = e
    <2>1. DOMAIN up[w] = 1..Len(up[w])
        BY DEF Typed
    <2>2. <<w, e>> \in Pairs
        BY DEF Pairs
    <2> QED
        BY <2>1, <2>2 DEF Ctx
<1> QED
    BY <1>1, <1>2, <1>3 DEF CtxSays

LEMMA CtxThen == Typed' => CtxSays'
<1>1. Typed => CtxSays
    BY CtxIs
<1> QED
    BY <1>1, PTL

\* What the broker emits in a step is in the channels after it.
LEMMA Delivered ==
    ASSUME NEW c, NEW s, Holds(c, {}, {}, {}, s), Becomes(s), Typed',
           \A w \in s.online : Ctx'.mind[w] = c.mind[w],
           \A w \in s.online, e \in Entities : <<w, e>> \in c.fold => <<w, e>> \in Ctx'.fold
    PROVE  /\ Holds(Ctx, {}, {}, {}, state)' /\ state'.out = Broker.out
           /\ state'.refused = {} /\ state'.unsynced = {} /\ state'.online = s.online
           /\ \A w \in Workers : w \notin s.online => down'[w] = <<>>
<1> DEFINE out == Broker.out
           none == {}
           k == [s EXCEPT !.out = out, !.refused = none, !.unsynced = none]
<1>1. s \in Brokers /\ StagedLive(s) /\ Adopts(c, s) /\ down \in [Workers -> Seq(Frame)]
      /\ (\A v \in Workers : Ear(c, s, v) \in Mind) /\ s.online \subseteq Workers
    BY HoldsIs
<1>2. out = [w \in Workers |-> <<>>] /\ out \in [Workers -> Seq(Frame)]
    BY DEF Broker
<1>3. state' = k /\ none \in SUBSET Entities /\ none \in SUBSET Queues
    BY DEF Becomes
<1>4. /\ down' \in [Workers -> Seq(Frame)]
      /\ \A w \in s.online : down'[w] = Chan(s, w)
      /\ \A w \in Workers : w \notin s.online => down'[w] = <<>>
    <2>1. s.out \in [Workers -> Seq(Frame)]
        BY <1>1 DEF Brokers
    <2>2. down' = [w \in Workers |-> IF w \in s.online THEN down[w] \o s.out[w] ELSE <<>>]
        BY DEF Becomes
    <2>3. \A w \in Workers : down[w] \o s.out[w] \in Seq(Frame)
        BY <1>1, <2>1
    <2>4. \A w \in Workers : down'[w] = IF w \in s.online THEN down[w] \o s.out[w] ELSE <<>>
        BY <2>2
    <2>5. ASSUME NEW w \in Workers PROVE down'[w] \in Seq(Frame)
        <3>1. CASE w \in s.online
            BY <2>3, <2>4, <3>1
        <3>2. CASE w \notin s.online
            <4>1. down'[w] = <<>>
                BY <2>4, <3>2
            <4> QED
                BY <4>1
        <3> QED
            BY <3>1, <3>2
    <2>6. down' \in [Workers -> Seq(Frame)]
        BY <2>2, <2>5
    <2> QED
        BY <1>1, <2>4, <2>6 DEF Chan
<1> HIDE DEF out, none
<1>5. /\ k \in Brokers /\ k.online = s.online /\ k.out = out /\ k.ents = s.ents
      /\ k.view = s.view /\ k.untold = s.untold /\ k.blurred = s.blurred /\ k.holder = s.holder
      /\ k.stranded = s.stranded /\ k.writes = s.writes /\ k.handoffs = s.handoffs
      /\ k.failovers = s.failovers /\ k.refused = none /\ k.unsynced = none
    BY <1>1, <1>2, <1>3 DEF Brokers
<1> HIDE DEF k
<1>6. /\ state' \in Brokers /\ state'.online = s.online /\ state'.out = out /\ state'.ents = s.ents
      /\ state'.view = s.view /\ state'.untold = s.untold /\ state'.blurred = s.blurred
      /\ state'.holder = s.holder /\ state'.stranded = s.stranded /\ state'.writes = s.writes
      /\ state'.handoffs = s.handoffs /\ state'.failovers = s.failovers
      /\ state'.refused = none /\ state'.unsynced = none
    BY <1>3, <1>5
<1>7. ASSUME NEW w \in Workers PROVE Chan(state, w)' = down'[w]
    <2>1. down'[w] \in Seq(Frame) /\ state'.out[w] = <<>>
        BY <1>2, <1>4, <1>6
    <2>2. down'[w] \o <<>> = down'[w]
        BY <2>1
    <2> QED
        BY <2>1, <2>2 DEF Chan
<1>8. ASSUME NEW w \in s.online
      PROVE  Chan(state, w)' = Chan(s, w) /\ Ear(Ctx, state, w)' = Ear(c, s, w)
    <2>1. Chan(state, w)' = Chan(s, w)
        BY <1>1, <1>4, <1>7
    <2> QED
        BY <2>1 DEF Ear
<1>9. ASSUME NEW w \in Workers, w \notin s.online PROVE Ear(Ctx, state, w)' \in Mind
    <2>1. Chan(state, w)' = <<>>
        BY <1>4, <1>7, <1>9
    <2>2. Ear(Ctx, state, w)' = Read(Ctx'.mind[w], <<>>)
        BY <2>1 DEF Ear
    <2>3. Ctx'.mind[w] \in Mind
        BY CtxThen DEF CtxSays
    <2> QED
        BY <2>2, <2>3, ReadNothing
<1>10. \A e : /\ Live(state, e)' <=> Live(s, e)
              /\ Responsible(state, e)' = Responsible(s, e)
    BY <1>6 DEF Live, Responsible, HolderOf
<1>11. StagedLive(state)'
    BY <1>1, <1>6, <1>10 DEF StagedLive
<1>12. Adopts(Ctx, state)'
    <2>1. ASSUME NEW w \in s.online, NEW n \in 1..Len(Chan(s, w))
          PROVE  LET m == Chan(s, w)[n]
                     z == Read(Ctx'.mind[w], SubSeq(Chan(s, w), 1, n - 1))
                 IN  m.op = "Grant" /\ m.at # None /\ z.body[m.eid] = None =>
                         Hear(z, m).body[m.eid].pos = m.at
        BY <1>1 DEF Adopts
    <2> QED
        BY <1>6, <1>8, <2>1 DEF Adopts
<1>13. ASSUME NEW w \in s.online, NEW e \in Entities
       PROVE  /\ Shown(state, w, e)' /\ OwnOnly(Ctx, state, w, e)' /\ Placid(Ctx, state, w, e)'
              /\ AllOwn(Ctx, state, w, e)'
    <2>1. Shown(s, w, e) /\ OwnOnly(c, s, w, e) /\ AllOwn(c, s, w, e) /\ Placid(c, s, w, e)
        BY DEF Holds, Sound
    <2> QED
        BY <1>6, <1>8, <1>10, <2>1 DEF Shown, OwnOnly, Placid, AllOwn, Simulates
<1>14. Sound(Ctx, state)'
    BY <1>1, <1>4, <1>6, <1>8, <1>9, <1>11, <1>12, <1>13 DEF Sound
<1>15. Holds(Ctx, {}, {}, {}, state)'
    BY <1>6, <1>13, <1>14 DEF Holds
<1> QED
    BY <1>4, <1>6, <1>15 DEF out, none

(***************************************************************************)
(* The frames of a tick.                                                   *)
(***************************************************************************)
LEMMA ImageFinite ==
    ASSUME NEW S, IsFiniteSet(S), NEW f
    PROVE  IsFiniteSet({f[x] : x \in S})
<1> DEFINE g == [x \in S |-> f[x]]
           T == {f[x] : x \in S}
<1>1. g \in Surjection(S, T)
    BY DEF Surjection
<1> QED
    BY <1>1, FS_Surjection

LEMMA FoldTargetIs ==
    ASSUME NEW w, NEW n
    PROVE  FoldTarget(w, n) # None => FoldTarget(w, n) \in Sides
BY DEF FoldTarget, StripOf, Sides

\* What a worker says in a tick, and that it says which bodies it folds.
LEMMA FramesAre ==
    ASSUME NEW w, NEW z \in [Entities -> Bots \cup {None}]
    PROVE  /\ FramesOf(w, z) \in Seq(Words)
           /\ \A e \in Entities : z[e] # None /\ FoldTarget(w, z[e].pos) # None =>
                 \E i \in 1..Len(FramesOf(w, z)) :
                     FramesOf(w, z)[i].op = "Fold" /\ FramesOf(w, z)[i].eid = e
<1> DEFINE held == {e \in Entities : z[e] # None}
           S == {e \in held : FoldTarget(w, z[e].pos) # None}
           told == {e \in held \ S : ~Repeats(w, e, z[e])}
           fold(e) == [op |-> "Fold", eid |-> e, region |-> FoldTarget(w, z[e].pos),
                       pos |-> z[e].pos]
           entry(e) == [eid |-> e, pos |-> z[e].pos, epoch |-> z[e].epoch]
           F == {fold(e) : e \in S}
           N == {entry(e) : e \in told}
           batch == [op |-> "Batch", updates |-> SetToSeq(N)]
           tail == IF told = {} THEN <<>> ELSE <<batch>>
           q == SetToSeq(F)
<1>1. FramesOf(w, z) = q \o tail
    BY DEF FramesOf
<1>2. IsFiniteSet(F) /\ IsFiniteSet(N)
    <2>1. IsFiniteSet(S) /\ IsFiniteSet(told)
        BY NoneIs, FS_Subset
    <2> DEFINE f == [e \in Entities |-> fold(e)]
               g == [e \in Entities |-> entry(e)]
    <2>2. F = {f[e] : e \in S} /\ N = {g[e] : e \in told}
        OBVIOUS
    <2> HIDE DEF f, g, F, N, S, told
    <2> QED
        BY <2>1, <2>2, ImageFinite
<1>3. \A e \in held : z[e].pos \in Points /\ z[e].epoch \in Nat
    BY DEF Bots
<1>4. F \subseteq Words /\ N \subseteq Entries
    <2>1. ASSUME NEW e \in S PROVE fold(e) \in Words
        BY <1>3, FoldTargetIs DEF Words
    <2>2. ASSUME NEW e \in told PROVE entry(e) \in Entries
        BY <1>3 DEF Entries
    <2> QED
        BY <2>1, <2>2
<1>5. /\ q \in Seq(F) /\ \A x \in F : \E i \in DOMAIN q : q[i] = x
      /\ SetToSeq(N) \in Seq(N)
    <2> HIDE DEF F, N
    <2> QED
        BY <1>2, SetToSeqIs
<1>6. \A e \in S : fold(e) \in F /\ fold(e).op = "Fold" /\ fold(e).eid = e
    OBVIOUS
<1> HIDE DEF F, N, fold, entry, q
<1>7. tail \in Seq(Words) /\ q \in Seq(Words)
    <2>1. batch \in Words
        BY <1>4, <1>5 DEF Words
    <2> HIDE DEF batch, told
    <2> QED
        BY <1>4, <1>5, <2>1
<1> HIDE DEF tail
<1>8. \A i \in 1..Len(q) : i \in 1..Len(q \o tail) /\ (q \o tail)[i] = q[i]
    BY <1>7
<1>9. ASSUME NEW e \in S PROVE \E i \in 1..Len(q \o tail) : (q \o tail)[i].op = "Fold" /\ (q \o tail)[i].eid = e
    <2>1. PICK i \in 1..Len(q) : q[i] = fold(e)
        BY <1>5, <1>6, <1>7
    <2> QED
        BY <1>6, <1>8, <2>1
<1> QED
    BY <1>1, <1>7, <1>9

\* What it then still has in mind.
LEMMA StaysIs ==
    ASSUME NEW w, NEW z \in [Entities -> Bots \cup {None}]
    PROVE  /\ Stays(w, z) \in [Entities -> Bots \cup {None}]
           /\ \A e \in Entities :
                 /\ Stays(w, z)[e] # None => z[e] # None
                 /\ z[e] # None /\ FoldTarget(w, z[e].pos) = None => Stays(w, z)[e] = z[e]
BY DEF Stays

LEMMA WanderedIs ==
    ASSUME NEW z \in [Entities -> Bots \cup {None}], NEW f \in Steps(z)
    PROVE  /\ Wandered(z, f) \in [Entities -> Bots \cup {None}]
           /\ \A e \in Entities :
                 /\ Wandered(z, f)[e] # None <=> z[e] # None
                 /\ z[e] # None => Wandered(z, f)[e].epoch = z[e].epoch
<1> DEFINE t == Wandered(z, f)
<1>1. t = [e \in Entities |-> t[e]]
    BY DEF Wandered
<1>2. ASSUME NEW e \in Entities
      PROVE  /\ t[e] \in Bots \cup {None} /\ (t[e] # None <=> z[e] # None)
             /\ z[e] # None => t[e].epoch = z[e].epoch
    <2>1. t[e] = IF z[e] = None THEN None ELSE [z[e] EXCEPT !.pos = @ + f[e]]
        BY DEF Wandered
    <2>2. CASE z[e] = None
        BY <2>1, <2>2
    <2>3. CASE z[e] # None
        <3>1. z[e].pos + f[e] \in Points
            BY <2>3 DEF Steps
        <3>2. z[e] \in Bots
            BY <2>3
        <3> DEFINE x == z[e].pos + f[e]
        <3>3. t[e] = [z[e] EXCEPT !.pos = x]
            BY <2>1, <2>3
        <3> HIDE DEF x
        <3>4. t[e] \in Bots /\ t[e].epoch = z[e].epoch
            BY <3>1, <3>2, <3>3 DEF Bots, x
        <3> QED
            BY <2>3, <3>4, NoneIs
    <2> QED
        BY <2>2, <2>3
<1> HIDE DEF t
<1>3. t \in [Entities -> Bots \cup {None}]
    BY <1>1, <1>2
<1> QED
    BY <1>2, <1>3 DEF t

(***************************************************************************)
(* The steps keep the invariant.                                           *)
(***************************************************************************)
\* A mind that hears the same.
LEMMA MindElse ==
    ASSUME NEW c, NEW d, NEW s, Holds(c, {}, {}, {}, s), d.fold = c.fold,
           \A w \in s.online : d.mind[w] = c.mind[w], \A w \in Workers : Ear(d, s, w) \in Mind
    PROVE  Holds(d, {}, {}, {}, s)
<1>1. \A w \in s.online : Ear(d, s, w) = Ear(c, s, w)
    BY DEF Ear
<1>2. Adopts(d, s)
    <2>1. Adopts(c, s)
        BY HoldsIs
    <2> QED
        BY <2>1 DEF Adopts
<1>3. Sound(d, s)
    BY <1>2 DEF Sound, Holds
<1>4. ASSUME NEW w \in s.online, NEW e \in Entities
      PROVE  OwnOnly(d, s, w, e) /\ Placid(d, s, w, e) /\ AllOwn(d, s, w, e)
    <2>1. OwnOnly(c, s, w, e) /\ Placid(c, s, w, e) /\ AllOwn(c, s, w, e)
        BY DEF Holds
    <2> QED
        BY <1>1, <2>1 DEF OwnOnly, Placid, AllOwn, Simulates
<1> QED
    BY <1>3, <1>4 DEF Holds

LEMMA BrokerIs ==
    /\ Broker \in Brokers /\ Broker.out = [w \in Workers |-> <<>>] /\ Broker.online = {}
    /\ Broker.refused = {} /\ Broker.unsynced = {} /\ StagedLive(Broker)
<1> DEFINE z == <<>>
           ents == [e \in Entities |-> None]
           holder == [r \in Sides |-> None]
           serves == [w \in Workers |-> None]
           view == [w \in Workers |-> {}]
           out == [w \in Workers |-> <<>>]
           nobody == {}
<1>1. /\ \A S : z \in Seq(S)
      /\ ents \in [Entities -> Placed \cup {None}] /\ holder \in [Sides -> Workers \cup {None}]
      /\ ents \in [Entities -> [target : Sides, epoch : Nat] \cup {None}]
      /\ serves \in [Workers -> Sides \cup {"STANDBY", None}]
      /\ view \in [Workers -> SUBSET Entities] /\ out \in [Workers -> Seq(Frame)]
      /\ \A S : nobody \in SUBSET S
    OBVIOUS
<1>2. Broker = [ents |-> ents, holder |-> holder, lapsed |-> nobody,
                standbys |-> z, writes |-> z, handoffs |-> z, failovers |-> z,
                intents |-> ents, online |-> nobody, aoi |-> nobody,
                serves |-> serves, view |-> view, out |-> out,
                refused |-> nobody, unsynced |-> nobody, degraded |-> FALSE,
                stranded |-> nobody, untold |-> nobody, blurred |-> nobody]
    BY DEF Broker
<1>3. DOMAIN z = {}
    OBVIOUS
<1> HIDE DEF z, ents, holder, serves, view, out, nobody
<1>4. Broker \in Brokers
    BY <1>1, <1>2 DEF Brokers
<1>5. Broker.out = out /\ Broker.online = nobody /\ Broker.handoffs = z
      /\ Broker.writes = z /\ Broker.failovers = z
      /\ Broker.refused = nobody /\ Broker.unsynced = nobody
    BY <1>2
<1>6. StagedLive(Broker)
    BY <1>3, <1>5 DEF StagedLive
<1> QED
    BY <1>4, <1>5, <1>6 DEF out, nobody

LEMMA ZoneInitMinded == ZoneInit => Minded
<1> SUFFICES ASSUME ZoneInit PROVE Minded
    OBVIOUS
<1>1. Typed
    <2>1. body \in [Workers -> [Entities -> Bots \cup {None}]]
        BY DEF ZoneInit
    <2>2. mirror \in [Workers -> [Entities -> Points \cup {None}]]
        BY DEF ZoneInit
    <2> QED
        BY <2>1, <2>2 DEF Typed, ZoneInit
<1>2. Idle
    BY BrokerIs DEF Idle, ZoneInit
<1>3. ASSUME NEW w \in Workers PROVE Ear(Ctx, state, w) \in Mind
    <2>1. down[w] = <<>> /\ state.out[w] = <<>>
        BY BrokerIs DEF ZoneInit
    <2>2. Chan(state, w) = <<>>
        BY <2>1 DEF Chan
    <2>3. Ctx.mind[w] \in Mind
        BY <1>1, CtxIs DEF CtxSays
    <2> QED
        BY <2>2, <2>3, ReadNothing DEF Ear
<1>4. state.online = {} /\ state \in Brokers /\ StagedLive(state)
    BY BrokerIs DEF ZoneInit
<1>5. down \in [Workers -> Seq(Frame)]
    <2> DEFINE z == <<>>
    <2>1. z \in Seq(Frame) /\ down = [w \in Workers |-> z]
        BY DEF ZoneInit
    <2> HIDE DEF z
    <2> QED
        BY <2>1
<1>6. Adopts(Ctx, state)
    BY <1>4 DEF Adopts
<1>7. Holds(Ctx, {}, {}, {}, state)
    BY <1>3, <1>4, <1>5, <1>6 DEF Holds, Sound
<1> QED
    BY <1>1, <1>2, <1>7 DEF Minded

\* What the invariant says of the channels.
LEMMA MindedIs ==
    ASSUME Minded
    PROVE  /\ Typed /\ Holds(Ctx, {}, {}, {}, state) /\ state.online \subseteq Workers
           /\ state \in Brokers /\ down \in [Workers -> Seq(Frame)] /\ StagedLive(state)
           /\ state.refused = {} /\ state.unsynced = {} /\ CtxSays
           /\ \A w \in Workers : /\ Chan(state, w) = down[w]
                                 /\ w \notin state.online => up[w] = <<>> /\ down[w] = <<>>
<1>1. /\ Typed /\ Holds(Ctx, {}, {}, {}, state) /\ state.refused = {} /\ state.unsynced = {}
      /\ \A w \in Workers : w \notin state.online => up[w] = <<>> /\ down[w] = <<>>
      /\ state.out = Broker.out
    BY DEF Minded, Idle
<1>2. /\ state.online \subseteq Workers /\ state \in Brokers /\ down \in [Workers -> Seq(Frame)]
      /\ StagedLive(state)
    BY <1>1, HoldsIs
<1>3. ASSUME NEW w \in Workers PROVE Chan(state, w) = down[w]
    <2>1. state.out[w] = <<>> /\ down[w] \in Seq(Frame)
        BY <1>1, <1>2, BrokerIs
    <2> QED
        BY <2>1 DEF Chan
<1> QED
    BY <1>1, <1>2, <1>3, CtxIs

\* A step of the broker after which nobody else is connected.
LEMMA BecomesKeeps ==
    ASSUME NEW c, NEW s, Holds(c, {}, {}, {}, s), Becomes(s), Typed',
           \A w \in s.online : Ctx'.mind[w] = c.mind[w],
           \A w \in s.online, e \in Entities : <<w, e>> \in c.fold => <<w, e>> \in Ctx'.fold,
           \A w \in Workers : w \notin s.online => up'[w] = <<>>
    PROVE  Minded'
<1>1. /\ Holds(Ctx, {}, {}, {}, state)' /\ state'.out = Broker.out
      /\ state'.refused = {} /\ state'.unsynced = {} /\ state'.online = s.online
      /\ \A w \in Workers : w \notin s.online => down'[w] = <<>>
    BY Delivered
<1>2. Idle'
    <2>1. Broker' = Broker
        BY DEF Broker
    <2> QED
        BY <1>1, <2>1 DEF Idle
<1> QED
    BY <1>1, <1>2 DEF Minded

\* What a step of the broker alone does.
LEMMA BrokerKeeps ==
    ASSUME NEW s, Minded, Goods(Ctx, state, s), Becomes(s), UNCHANGED <<conf, up, body, mirror>>
    PROVE  Minded'
<1>1. Holds(Ctx, {}, {}, {}, s) /\ s.online = state.online
    BY DEF Goods
<1>2. Typed'
    BY MindedIs DEF Typed
<1>3. Ctx' = Ctx
    BY DEF Ctx
<1>4. \A w \in Workers : w \notin s.online => up'[w] = <<>>
    BY <1>1, MindedIs
<1> DEFINE c == Ctx
<1>5. /\ Holds(c, {}, {}, {}, s) /\ \A w \in s.online : Ctx'.mind[w] = c.mind[w]
      /\ \A w \in s.online, e \in Entities : <<w, e>> \in c.fold => <<w, e>> \in Ctx'.fold
    BY <1>1, <1>3
<1> HIDE DEF c
<1> QED
    BY <1>1, <1>2, <1>4, <1>5, BecomesKeeps

LEMMA StartKeeps == ASSUME Minded, NEW w \in Workers, Start(w) PROVE Minded'
<1> DEFINE mine == conf.spawns[w]
           spawn(e) == [op |-> "Create", eid |-> e, pos |-> mine[e]]
           T == {spawn(e) : e \in DOMAIN mine}
           nothing == [e \in Entities |-> None]
           seen == [e \in Entities |-> IF e \in DOMAIN mine THEN mine[e] ELSE None]
           new == [body |-> nothing, mirror |-> seen]
           c == [mind |-> [Ctx.mind EXCEPT ![w] = new], fold |-> Ctx.fold]
           s == Admitted(state, w)
           first == [op |-> "Interest"]
           says == <<first>> \o SetToSeq(T)
<1>1. /\ w \in DOMAIN conf.home /\ w \notin state.online /\ conf' = conf /\ Becomes(s)
      /\ up' = [up EXCEPT ![w] = says] /\ mirror' = [mirror EXCEPT ![w] = seen]
      /\ body' = [body EXCEPT ![w] = nothing]
    BY DEF Start
<1>2. /\ Typed /\ Holds(Ctx, {}, {}, {}, state) /\ state.online \subseteq Workers
      /\ CtxSays
      /\ \A v \in Workers : /\ Chan(state, v) = down[v]
                            /\ v \notin state.online => up[v] = <<>> /\ down[v] = <<>>
    BY MindedIs
<1>3. /\ conf.home[w] \in Sides \cup {"STANDBY"}
      /\ DOMAIN mine \subseteq Entities /\ \A e \in DOMAIN mine : mine[e] \in Points
    BY <1>1, <1>2, ZoneWorkerConstants DEF Typed
<1>4. new \in Mind /\ nothing \in [Entities -> Bots \cup {None}] /\ seen \in [Entities -> Points \cup {None}]
    BY <1>3 DEF Mind
<1>5. says \in Seq(Words)
    <2>1. IsFiniteSet(DOMAIN mine)
        BY <1>3, NoneIs, FS_Subset
    <2> DEFINE f == [e \in DOMAIN mine |-> spawn(e)]
               S == DOMAIN mine
    <2>2. T = {f[e] : e \in S}
        OBVIOUS
    <2>3. T \subseteq Words
        BY <1>3 DEF Words
    <2> HIDE DEF f, S, T
    <2>4. IsFiniteSet(T)
        BY <2>1, <2>2, ImageFinite DEF S
    <2>5. SetToSeq(T) \in Seq(T)
        BY <2>4, SetToSeqIs
    <2>6. SetToSeq(T) \in Seq(Words)
        BY <2>3, <2>5
    <2>7. <<first>> \in Seq(Words)
        BY DEF Words
    <2> HIDE DEF first
    <2> QED
        BY <2>6, <2>7
<1> HIDE DEF says, nothing, seen, mine
<1>6. Typed'
    BY <1>1, <1>2, <1>4, <1>5 DEF Typed
<1>7. /\ \A v \in Workers : v # w => c.mind[v] = Ctx.mind[v]
      /\ c.mind[w] = new /\ c.fold = Ctx.fold
    BY DEF Ctx
<1>8. Ear(c, state, w) = new /\ Len(Chan(state, w)) = 0
    <2>1. Chan(state, w) = <<>>
        BY <1>1, <1>2
    <2> HIDE DEF c, new
    <2> QED
        BY <1>7, <2>1, ReadNothing DEF Ear
<1> HIDE DEF c
<1>9. Holds(c, {}, {}, {}, state)
    <2>1. \A v \in Workers : Ear(c, state, v) \in Mind
        <3>1. \A v \in Workers : v # w => Ear(c, state, v) = Ear(Ctx, state, v)
            BY <1>7 DEF Ear
        <3>2. \A v \in Workers : Ear(Ctx, state, v) \in Mind
            BY <1>2, HoldsIs
        <3> HIDE DEF new
        <3> QED
            BY <1>4, <1>8, <3>1, <3>2
    <2>2. \A v \in state.online : c.mind[v] = Ctx.mind[v]
        BY <1>1, <1>2, <1>7
    <2> QED
        BY <1>2, <1>7, <2>1, <2>2, MindElse
<1>10. \A e \in Entities : ~Simulates(c, state, w, e)
    BY <1>8 DEF Simulates, nothing
<1>11. Holds(c, {}, {}, {}, s) /\ s.online = state.online \cup {w}
    BY <1>1, <1>2, <1>3, <1>8, <1>9, <1>10, AdmittedKeeps
<1> HIDE DEF s
<1>12. CtxSays'
    BY <1>6, CtxThen
<1>13. \A v \in s.online : Ctx'.mind[v] = c.mind[v]
    <2>1. ASSUME NEW v \in s.online PROVE Ctx'.mind[v] = c.mind[v]
        <3>1. v \in Workers /\ Ctx'.mind[v] = [body |-> body'[v], mirror |-> mirror'[v]]
            BY <1>2, <1>11, <1>12 DEF CtxSays
        <3>2. CASE v = w
            BY <1>1, <1>2, <1>7, <3>1, <3>2 DEF Typed
        <3>3. CASE v # w
            BY <1>1, <1>2, <1>7, <3>1, <3>3 DEF Typed, CtxSays
        <3> QED
            BY <3>2, <3>3
    <2> QED
        BY <2>1
<1>14. \A v \in s.online, e \in Entities : <<v, e>> \in c.fold => <<v, e>> \in Ctx'.fold
    <2>1. ASSUME NEW v \in s.online, NEW e \in Entities, <<v, e>> \in c.fold PROVE <<v, e>> \in Ctx'.fold
        <3>1. v \in Workers
            BY <1>2, <1>11
        <3>2. PICK i \in 1..Len(up[v]) : up[v][i].op = "Fold" /\ up[v][i].eid = e
            BY <1>2, <1>7, <2>1, <3>1 DEF CtxSays
        <3>3. v # w
            BY <1>1, <1>2, <3>2
        <3>4. up'[v] = up[v]
            BY <1>1, <1>2, <3>1, <3>3 DEF Typed
        <3> QED
            BY <1>12, <3>1, <3>2, <3>4 DEF CtxSays
    <2> QED
        BY <2>1
<1>15. \A v \in Workers : v \notin s.online => up'[v] = <<>>
    BY <1>1, <1>2, <1>11 DEF Typed
<1> QED
    BY <1>1, <1>6, <1>11, <1>13, <1>14, <1>15, BecomesKeeps

LEMMA CutKeeps == ASSUME Minded, NEW w \in Workers, Cut(w) PROVE Minded'
<1> DEFINE nothing == [e \in Entities |-> None]
           empty == <<>>
           c == Ctx
           s == Gone(state, w)
<1>1. /\ conf' = conf /\ Becomes(s) /\ up' = [up EXCEPT ![w] = empty]
      /\ mirror' = [mirror EXCEPT ![w] = nothing] /\ body' = [body EXCEPT ![w] = nothing]
    BY DEF Cut
<1>2. /\ Typed /\ Holds(c, {}, {}, {}, state) /\ state.online \subseteq Workers
      /\ CtxSays
      /\ \A v \in Workers : v \notin state.online => up[v] = <<>> /\ down[v] = <<>>
    BY MindedIs
<1>3. /\ empty \in Seq(Words) /\ nothing \in [Entities -> Bots \cup {None}]
      /\ nothing \in [Entities -> Points \cup {None}]
    OBVIOUS
<1>4. Holds(c, {}, {}, {}, s) /\ s.online = state.online \ {w}
    BY <1>2, GoneKeeps
<1>5. \A v \in Workers : v \notin s.online => up'[v] = <<>>
    BY <1>1, <1>2, <1>4 DEF Typed
<1> HIDE DEF empty, nothing, s
<1>6. Typed'
    BY <1>1, <1>2, <1>3 DEF Typed
<1>7. CtxSays'
    BY <1>6, CtxThen
<1>8. \A v \in s.online : /\ v \in Workers /\ up'[v] = up[v] /\ body'[v] = body[v]
                          /\ mirror'[v] = mirror[v]
    BY <1>1, <1>2, <1>4 DEF Typed
<1>9. /\ \A v \in s.online : Ctx'.mind[v] = c.mind[v]
      /\ \A v \in s.online, e \in Entities : <<v, e>> \in c.fold => <<v, e>> \in Ctx'.fold
    <2>1. ASSUME NEW v \in s.online PROVE Ctx'.mind[v] = c.mind[v]
        <3>1. v \in Workers /\ c.mind[v] = [body |-> body[v], mirror |-> mirror[v]]
            BY <1>2, <1>8 DEF CtxSays
        <3>2. Ctx'.mind[v] = [body |-> body'[v], mirror |-> mirror'[v]]
            BY <1>7, <3>1 DEF CtxSays
        <3> QED
            BY <1>8, <3>1, <3>2
    <2>2. ASSUME NEW v \in s.online, NEW e \in Entities, <<v, e>> \in c.fold PROVE <<v, e>> \in Ctx'.fold
        <3>1. PICK i \in 1..Len(up[v]) : up[v][i].op = "Fold" /\ up[v][i].eid = e
            BY <1>2, <1>8, <2>2 DEF CtxSays
        <3> QED
            BY <1>7, <1>8, <3>1 DEF CtxSays
    <2> QED
        BY <2>1, <2>2
<1> HIDE DEF c
<1> QED
    BY <1>1, <1>4, <1>5, <1>6, <1>9, BecomesKeeps

\* That a step of the broker may fail is not known to anybody.
LEMMA UnderKeeps ==
    ASSUME Minded, NEW f \in Faults
    PROVE  Goods(Ctx, state, Under(f))
<1> DEFINE a == f.refused
           b == f.unsynced
           s == [state EXCEPT !.refused = a, !.unsynced = b]
           c == Ctx
<1>1. Holds(c, {}, {}, {}, state) /\ state \in Brokers /\ StagedLive(state)
    BY MindedIs
<1>2. a \in SUBSET Entities /\ b \in SUBSET Queues /\ Under(f) = s
    BY DEF Faults, Queues, Under
<1> HIDE DEF a, b, c
<1>3. s \in Brokers /\ Rest(state, s) /\ Aside(state, s)
    BY <1>1, <1>2 DEF Brokers, Rest, Aside
<1> HIDE DEF s
<1>4. StagedLive(s)
    BY <1>1, <1>3, RestIs
<1> QED
    BY <1>1, <1>2, <1>3, <1>4, AsideGoods DEF c

LEMMA ReceiveKeeps == ASSUME Minded, NEW w \in Workers, Receive(w) PROVE Minded'
<1> DEFINE m == Head(up[w])
           c == Ctx
<1>1. PICK f \in Faults : Becomes(Dispatch(Under(f), w, m))
    BY DEF Receive
<1> DEFINE y == Under(f)
           s == Dispatch(y, w, m)
<1>2. up[w] # <<>> /\ up' = [up EXCEPT ![w] = Tail(@)] /\ conf' = conf /\ body' = body /\ mirror' = mirror
    BY DEF Receive
<1>3. /\ Typed /\ Holds(c, {}, {}, {}, state) /\ state.online \subseteq Workers
      /\ CtxSays
      /\ \A v \in Workers : v \notin state.online => up[v] = <<>> /\ down[v] = <<>>
    BY MindedIs
<1>4. /\ m \in Words /\ Tail(up[w]) \in Seq(Words) /\ Len(up[w]) \in Nat /\ Len(up[w]) >= 1
      /\ Len(Tail(up[w])) = Len(up[w]) - 1 /\ up[w][1] = m
      /\ \A i \in 2..Len(up[w]) : i - 1 \in 1..Len(Tail(up[w])) /\ Tail(up[w])[i - 1] = up[w][i]
    <2>1. up[w] \in Seq(Words)
        BY <1>3 DEF Typed
    <2> QED
        BY <1>2, <2>1
<1>5. w \in state.online
    BY <1>2, <1>3
<1>6. Typed'
    BY <1>2, <1>3, <1>4 DEF Typed
<1>7. CtxSays'
    BY <1>6, CtxThen
<1> DEFINE d == [mind |-> Ctx.mind, fold |-> {p \in Ctx.fold : p[1] \notin state.online \/ p \in Ctx'.fold}]
           F == IF m.op = "Fold" THEN {<<w, m.eid>>} ELSE {}
<1>8. d.mind = c.mind
    OBVIOUS
<1>9. c.fold \subseteq d.fold \cup F
    <2>1. ASSUME NEW v \in state.online, NEW e \in Entities, <<v, e>> \in c.fold, <<v, e>> \notin F
          PROVE  <<v, e>> \in Ctx'.fold
        <3>1. PICK i \in 1..Len(up[v]) : up[v][i].op = "Fold" /\ up[v][i].eid = e
            BY <1>3, <2>1 DEF CtxSays
        <3>2. CASE v # w
            <4>1. up'[v] = up[v] /\ v \in Workers
                BY <1>2, <1>3, <3>2 DEF Typed
            <4> QED
                BY <1>7, <3>1, <4>1 DEF CtxSays
        <3>3. CASE v = w
            <4>1. i # 1
                BY <1>4, <2>1, <3>1, <3>3
            <4>2. up'[w] = Tail(up[w])
                BY <1>2, <1>3 DEF Typed
            <4>3. i \in 2..Len(up[w])
                BY <1>4, <3>1, <3>3, <4>1
            <4> DEFINE j == i - 1
            <4>4. j \in 1..Len(up'[w]) /\ up'[w][j] = up[w][i]
                BY <1>4, <4>2, <4>3
            <4> HIDE DEF j
            <4> QED
                BY <1>7, <3>1, <3>3, <4>4 DEF CtxSays
        <3> QED
            BY <3>2, <3>3
    <2>2. ASSUME NEW p \in c.fold PROVE p \in d.fold \cup F
        <3>1. PICK v \in Workers, e \in Entities : p = <<v, e>>
            BY DEF Ctx, Pairs
        <3> HIDE DEF F
        <3> QED
            BY <2>1, <3>1
    <2> HIDE DEF F
    <2> QED
        BY <2>2
<1>10. \A v \in state.online, e \in Entities : <<v, e>> \in d.fold => <<v, e>> \in Ctx'.fold
    OBVIOUS
<1> HIDE DEF d
<1>11. y.online = state.online /\ Goods(d, y, s)
    <2>1. Holds(c, {}, {}, {}, y) /\ y.online = state.online
        BY UnderKeeps DEF Goods
    <2> HIDE DEF c, y
    <2> QED
        BY <1>4, <1>5, <1>8, <1>9, <2>1, DispatchKeeps
<1> HIDE DEF s, y
<1>12. Holds(d, {}, {}, {}, s) /\ s.online = state.online
    BY <1>11 DEF Goods
<1>13. \A v \in s.online : Ctx'.mind[v] = d.mind[v]
    <2>1. ASSUME NEW v \in s.online PROVE Ctx'.mind[v] = d.mind[v]
        <3>1. v \in Workers /\ d.mind[v] = [body |-> body[v], mirror |-> mirror[v]]
            BY <1>3, <1>8, <1>12 DEF CtxSays
        <3>2. Ctx'.mind[v] = [body |-> body'[v], mirror |-> mirror'[v]]
            BY <1>7, <3>1 DEF CtxSays
        <3> QED
            BY <1>2, <3>1, <3>2
    <2> QED
        BY <2>1
<1>14. \A v \in Workers : v \notin s.online => up'[v] = <<>>
    BY <1>2, <1>3, <1>5, <1>12 DEF Typed
<1>15. \A v \in s.online, e \in Entities : <<v, e>> \in d.fold => <<v, e>> \in Ctx'.fold
    BY <1>10, <1>12
<1> QED
    BY <1>1, <1>6, <1>12, <1>13, <1>14, <1>15, BecomesKeeps DEF s, y

\* What a tick leaves of what its worker had in mind, and what it says of the rest.
LEMMA TickSays ==
    ASSUME Minded, NEW w \in Workers, Tick(w)
    PROVE  LET z == Ear(Ctx, state, w) IN
           /\ Typed' /\ w \in state.online /\ state' = state /\ down' = [down EXCEPT ![w] = <<>>]
           /\ mirror'[w] = z.mirror
           /\ \A v \in Workers : v # w => /\ up'[v] = up[v] /\ body'[v] = body[v]
                                          /\ mirror'[v] = mirror[v]
           /\ \A e \in Entities :
                 /\ body'[w][e] # None => z.body[e] # None
                 /\ <<w, e>> \in Ctx.fold => <<w, e>> \in Ctx'.fold
                 /\ z.body[e] # None /\ <<w, e>> \notin Ctx'.fold =>
                       body'[w][e] # None /\ body'[w][e].epoch = z.body[e].epoch
<1> DEFINE y == Heard(w, Len(down[w]))
           z == Ear(Ctx, state, w)
<1>1. /\ Typed /\ Holds(Ctx, {}, {}, {}, state) /\ down \in [Workers -> Seq(Frame)] /\ CtxSays
      /\ Chan(state, w) = down[w]
    BY MindedIs
<1>2. y = z /\ z \in Mind
    <2>1. SubSeq(down[w], 1, Len(down[w])) = down[w]
        BY <1>1
    <2>2. Ctx.mind[w] = [body |-> body[w], mirror |-> mirror[w]]
        BY <1>1 DEF CtxSays
    <2>3. y = Read(Ctx.mind[w], down[w])
        BY <2>1, <2>2, Zenon DEF Heard, Read
    <2> QED
        BY <1>1, <2>3, HoldsIs DEF Ear
<1>3. /\ w \in state.online /\ state' = state /\ conf' = conf /\ down' = [down EXCEPT ![w] = <<>>]
      /\ \E f \in Steps(y.body), beat \in BOOLEAN :
            LET bots == Wandered(y.body, f) IN
            /\ up' = [up EXCEPT ![w] = @ \o FramesOf(w, bots) \o
                         (IF beat THEN <<[op |-> "Heartbeat"]>> ELSE <<>>)]
            /\ body' = [body EXCEPT ![w] = Stays(w, bots)]
            /\ mirror' = [mirror EXCEPT ![w] = y.mirror]
    BY DEF Tick
<1> HIDE DEF y
<1>4. PICK f \in Steps(z.body), beat \in BOOLEAN :
            LET bots == Wandered(z.body, f) IN
            /\ up' = [up EXCEPT ![w] = @ \o FramesOf(w, bots) \o
                         (IF beat THEN <<[op |-> "Heartbeat"]>> ELSE <<>>)]
            /\ body' = [body EXCEPT ![w] = Stays(w, bots)]
            /\ mirror' = [mirror EXCEPT ![w] = z.mirror]
    BY <1>2, <1>3
<1> HIDE DEF z
<1> DEFINE bots == Wandered(z.body, f)
           says == FramesOf(w, bots)
           beats == IF beat THEN <<[op |-> "Heartbeat"]>> ELSE <<>>
           q == up[w]
           new == q \o says \o beats
           left == Stays(w, bots)
<1>5. z.body \in [Entities -> Bots \cup {None}] /\ z.mirror \in [Entities -> Points \cup {None}]
    BY <1>2 DEF Mind
<1>6. /\ bots \in [Entities -> Bots \cup {None}]
      /\ \A e \in Entities : /\ bots[e] # None <=> z.body[e] # None
                             /\ z.body[e] # None => bots[e].epoch = z.body[e].epoch
    BY <1>5, WanderedIs
<1>7. up' = [up EXCEPT ![w] = new] /\ body' = [body EXCEPT ![w] = left] /\ mirror' = [mirror EXCEPT ![w] = z.mirror]
    BY <1>4
<1> HIDE DEF bots
<1>8. /\ says \in Seq(Words)
      /\ \A e \in Entities : bots[e] # None /\ FoldTarget(w, bots[e].pos) # None =>
             \E i \in 1..Len(says) : says[i].op = "Fold" /\ says[i].eid = e
    BY <1>6, FramesAre
<1>9. /\ left \in [Entities -> Bots \cup {None}]
      /\ \A e \in Entities :
            /\ left[e] # None => bots[e] # None
            /\ bots[e] # None /\ FoldTarget(w, bots[e].pos) = None => left[e] = bots[e]
    BY <1>6, StaysIs
<1>10. beats \in Seq(Words) /\ q \in Seq(Words)
    <2>1. [op |-> "Heartbeat"] \in Words
        BY DEF Words
    <2> QED
        BY <1>1, <2>1 DEF Typed
<1> HIDE DEF says, beats, left, q
<1>11. /\ new \in Seq(Words)
       /\ \A i \in 1..Len(q) : i \in 1..Len(new) /\ new[i] = q[i]
       /\ \A i \in 1..Len(says) : Len(q) + i \in 1..Len(new) /\ new[Len(q) + i] = says[i]
    <2> DEFINE x == q \o says
    <2>1. /\ x \in Seq(Words) /\ Len(x) = Len(q) + Len(says)
          /\ \A i \in 1..Len(q) : i \in 1..Len(x) /\ x[i] = q[i]
          /\ \A i \in 1..Len(says) : Len(q) + i \in 1..Len(x) /\ x[Len(q) + i] = says[i]
        BY <1>8, <1>10
    <2> HIDE DEF x
    <2>2. x \o beats \in Seq(Words) /\ \A i \in 1..Len(x) : i \in 1..Len(x \o beats) /\ (x \o beats)[i] = x[i]
        BY <1>10, <2>1
    <2> QED
        BY <2>1, <2>2 DEF x
<1> HIDE DEF new
<1>12. /\ up'[w] = new /\ body'[w] = left /\ mirror'[w] = z.mirror
       /\ \A v \in Workers : v # w => up'[v] = up[v] /\ body'[v] = body[v] /\ mirror'[v] = mirror[v]
    BY <1>1, <1>7 DEF Typed
<1>13. Typed'
    BY <1>1, <1>3, <1>5, <1>7, <1>9, <1>11 DEF Typed
<1>14. CtxSays'
    BY <1>13, CtxThen
<1>15. ASSUME NEW e \in Entities, NEW i \in 1..Len(new), new[i].op = "Fold", new[i].eid = e
       PROVE  <<w, e>> \in Ctx'.fold
    BY <1>12, <1>14, <1>15 DEF CtxSays
<1>16. ASSUME NEW e \in Entities
       PROVE  /\ body'[w][e] # None => z.body[e] # None
              /\ <<w, e>> \in Ctx.fold => <<w, e>> \in Ctx'.fold
              /\ z.body[e] # None /\ <<w, e>> \notin Ctx'.fold =>
                    body'[w][e] # None /\ body'[w][e].epoch = z.body[e].epoch
    <2>1. body'[w][e] # None => z.body[e] # None
        BY <1>6, <1>9, <1>12
    <2>2. ASSUME <<w, e>> \in Ctx.fold PROVE <<w, e>> \in Ctx'.fold
        <3>1. PICK i \in 1..Len(q) : q[i].op = "Fold" /\ q[i].eid = e
            BY <1>1, <2>2 DEF CtxSays, q
        <3> QED
            BY <1>11, <1>15, <3>1
    <2>3. ASSUME z.body[e] # None, <<w, e>> \notin Ctx'.fold
          PROVE  body'[w][e] # None /\ body'[w][e].epoch = z.body[e].epoch
        <3>1. bots[e] # None /\ bots[e].epoch = z.body[e].epoch
            BY <1>6, <2>3
        <3>2. FoldTarget(w, bots[e].pos) = None
            <4>1. ASSUME FoldTarget(w, bots[e].pos) # None PROVE FALSE
                <5>1. PICK i \in 1..Len(says) : says[i].op = "Fold" /\ says[i].eid = e
                    BY <1>8, <3>1, <4>1
                <5> DEFINE j == Len(q) + i
                <5>2. j \in 1..Len(new) /\ new[j] = says[i]
                    BY <1>11
                <5> HIDE DEF j
                <5> QED
                    BY <1>15, <2>3, <5>1, <5>2
            <4> QED
                BY <4>1
        <3> QED
            BY <1>9, <1>12, <3>1, <3>2
    <2> QED
        BY <2>1, <2>2, <2>3
<1> QED
    BY <1>3, <1>12, <1>13, <1>16 DEF z

LEMMA TickKeeps == ASSUME Minded, NEW w \in Workers, Tick(w) PROVE Minded'
<1> DEFINE z == Ear(Ctx, state, w)
           empty == <<>>
<1>1. /\ Typed' /\ w \in state.online /\ state' = state /\ down' = [down EXCEPT ![w] = empty]
      /\ mirror'[w] = z.mirror
      /\ \A v \in Workers : v # w => /\ up'[v] = up[v] /\ body'[v] = body[v]
                                     /\ mirror'[v] = mirror[v]
      /\ \A e \in Entities :
            /\ body'[w][e] # None => z.body[e] # None
            /\ <<w, e>> \in Ctx.fold => <<w, e>> \in Ctx'.fold
            /\ z.body[e] # None /\ <<w, e>> \notin Ctx'.fold =>
                  body'[w][e] # None /\ body'[w][e].epoch = z.body[e].epoch
    BY TickSays
<1> HIDE DEF z
<1>2. /\ Typed /\ Holds(Ctx, {}, {}, {}, state) /\ state.online \subseteq Workers
      /\ state \in Brokers /\ down \in [Workers -> Seq(Frame)] /\ StagedLive(state)
      /\ CtxSays /\ CtxSays'
      /\ \A v \in Workers : Chan(state, v) = down[v]
    BY <1>1, MindedIs, CtxThen
<1>3. /\ down' \in [Workers -> Seq(Frame)] /\ down'[w] = empty
      /\ \A v \in Workers : v # w => down'[v] = down[v]
    <2>1. empty \in Seq(Frame)
        OBVIOUS
    <2> HIDE DEF empty
    <2> QED
        BY <1>1, <1>2, <2>1
<1>4. \A v \in Workers : Chan(state, v)' = down'[v]
    <2>1. ASSUME NEW v \in Workers PROVE Chan(state, v)' = down'[v]
        <3>1. state.out[v] = <<>> /\ down'[v] \in Seq(Frame)
            BY <1>3, BrokerIs DEF Minded, Idle
        <3> QED
            BY <1>1, <3>1 DEF Chan
    <2> QED
        BY <2>1
<1>5. ASSUME NEW v \in Workers, v # w
      PROVE  Ear(Ctx, state, v)' = Ear(Ctx, state, v) /\ Chan(state, v)' = Chan(state, v)
             /\ Ctx'.mind[v] = Ctx.mind[v]
             /\ \A e \in Entities : <<v, e>> \in Ctx.fold => <<v, e>> \in Ctx'.fold
    <2>1. Ctx'.mind[v] = Ctx.mind[v]
        <3>1. Ctx'.mind[v] = [body |-> body'[v], mirror |-> mirror'[v]]
            BY <1>2 DEF CtxSays
        <3>2. Ctx.mind[v] = [body |-> body[v], mirror |-> mirror[v]]
            BY <1>2 DEF CtxSays
        <3> QED
            BY <1>1, <1>5, <3>1, <3>2
    <2>2. Chan(state, v)' = Chan(state, v)
        BY <1>2, <1>3, <1>4, <1>5
    <2>3. \A e \in Entities : <<v, e>> \in Ctx.fold => <<v, e>> \in Ctx'.fold
        BY <1>1, <1>2, <1>5 DEF CtxSays
    <2> QED
        BY <2>1, <2>2, <2>3 DEF Ear
<1>6. /\ Ear(Ctx, state, w)' = Ctx'.mind[w] /\ Ctx'.mind[w] \in Mind
      /\ Ctx'.mind[w].body = body'[w] /\ Ctx'.mind[w].mirror = z.mirror
    <2>1. Ctx'.mind[w] = [body |-> body'[w], mirror |-> mirror'[w]] /\ Ctx'.mind[w] \in Mind
        BY <1>2 DEF CtxSays
    <2>2. Chan(state, w)' = <<>>
        BY <1>3, <1>4
    <2>3. Ear(Ctx, state, w)' = Read(Ctx'.mind[w], <<>>)
        BY <2>2 DEF Ear
    <2> QED
        BY <1>1, <2>1, <2>3, ReadNothing
<1>7. ASSUME NEW v \in state.online, NEW e \in Entities
      PROVE  /\ Shown(state, v, e)' /\ OwnOnly(Ctx, state, v, e)' /\ Placid(Ctx, state, v, e)'
             /\ AllOwn(Ctx, state, v, e)'
    <2>1. /\ Shown(state, v, e) /\ OwnOnly(Ctx, state, v, e) /\ AllOwn(Ctx, state, v, e)
          /\ Placid(Ctx, state, v, e) /\ v \in Workers
        BY <1>2 DEF Holds, Sound
    <2>2. /\ Live(state, e)' <=> Live(state, e)
          /\ Responsible(state, e)' = Responsible(state, e)
        BY <1>1 DEF Live, Responsible, HolderOf
    <2>3. CASE v # w
        BY <1>1, <1>5, <2>1, <2>2, <2>3 DEF Shown, OwnOnly, Placid, AllOwn, Simulates
    <2>4. CASE v = w
        <3>1. Simulates(Ctx, state, w, e)' => Simulates(Ctx, state, w, e)
            BY <1>1, <1>6 DEF Simulates, z
        <3>2. Simulates(Ctx, state, w, e) /\ <<w, e>> \notin Ctx'.fold =>
                  /\ Simulates(Ctx, state, w, e)'
                  /\ Ear(Ctx, state, w)'.body[e].epoch = Ear(Ctx, state, w).body[e].epoch
            BY <1>1, <1>6 DEF Simulates, z
        <3>3. Ear(Ctx, state, w)'.mirror = Ear(Ctx, state, w).mirror
            BY <1>6 DEF z
        <3>4. OwnOnly(Ctx, state, w, e)'
            BY <1>1, <2>1, <2>2, <2>4, <3>1 DEF OwnOnly
        <3>5. Placid(Ctx, state, w, e)' /\ Shown(state, w, e)'
            BY <1>1, <2>1, <2>2, <2>4, <3>3 DEF Placid, Shown
        <3>6. AllOwn(Ctx, state, w, e)'
            BY <1>1, <2>1, <2>2, <2>4, <3>2 DEF AllOwn
        <3> QED
            BY <2>4, <3>4, <3>5, <3>6
    <2> QED
        BY <2>3, <2>4
<1>8. Adopts(Ctx, state)'
    <2>1. Adopts(Ctx, state)
        BY <1>2, HoldsIs
    <2>2. ASSUME NEW v \in state.online, v # w, NEW n \in 1..Len(Chan(state, v))
          PROVE  LET m == Chan(state, v)[n]
                     k == Read(Ctx'.mind[v], SubSeq(Chan(state, v), 1, n - 1))
                 IN  m.op = "Grant" /\ m.at # None /\ k.body[m.eid] = None =>
                         Hear(k, m).body[m.eid].pos = m.at
        <3>1. Ctx'.mind[v] = Ctx.mind[v]
            BY <1>2, <1>5, <2>2
        <3> QED
            BY <2>1, <2>2, <3>1 DEF Adopts
    <2>3. \A v \in state.online : v # w => Chan(state, v)' = Chan(state, v)
        BY <1>2, <1>5
    <2>4. \A n \in 1..Len(Chan(state, w)') : FALSE
        BY <1>3, <1>4
    <2> QED
        BY <1>1, <2>2, <2>3, <2>4 DEF Adopts
<1>9. StagedLive(state)' /\ state' \in Brokers
    BY <1>1, <1>2 DEF StagedLive, Live
<1>10. \A v \in Workers : Ear(Ctx, state, v)' \in Mind
    <2>1. \A v \in Workers : Ear(Ctx, state, v) \in Mind
        BY <1>2, HoldsIs
    <2> QED
        BY <1>5, <1>6, <2>1
<1>11. Sound(Ctx, state)'
    BY <1>1, <1>3, <1>7, <1>8, <1>9, <1>10 DEF Sound
<1>12. Holds(Ctx, {}, {}, {}, state)'
    BY <1>1, <1>7, <1>11 DEF Holds
<1>13. Idle'
    <2>1. Broker' = Broker
        BY DEF Broker
    <2> QED
        BY <1>1, <1>3, <2>1 DEF Idle, Minded
<1> QED
    BY <1>1, <1>12, <1>13 DEF Minded

LEMMA PublishKeeps == ASSUME Minded, Publish PROVE Minded'
<1> DEFINE c == Ctx
<1>1. PICK f \in Faults : Becomes(Flushed(Under(f)))
    BY DEF Publish
<1>2. UNCHANGED <<conf, up, body, mirror>>
    BY DEF Publish
<1> DEFINE y == Under(f)
           s == Flushed(y)
<1>3. Holds(c, {}, {}, {}, y) /\ y.online = state.online
    BY UnderKeeps DEF Goods
<1> HIDE DEF c, y
<1>4. Holds(c, {}, {}, {}, s) /\ s.online = y.online
    BY <1>3, FlushedKeeps
<1> HIDE DEF s
<1>5. Goods(c, state, s)
    BY <1>3, <1>4 DEF Goods
<1> QED
    BY <1>1, <1>2, <1>5, BrokerKeeps DEF c, s, y

\* A step of the broker that tells nobody anything.
LEMMA Unheard ==
    ASSUME Minded, NEW s \in Brokers, s.out = state.out, s.online = state.online,
           s.refused = state.refused, s.unsynced = state.unsynced, state' = s, down' = down
    PROVE  Becomes(s)
<1> DEFINE out == Broker.out
           none == {}
<1>1. /\ down \in [Workers -> Seq(Frame)] /\ state.out = out
      /\ state.refused = none /\ state.unsynced = none
      /\ \A w \in Workers : w \notin state.online => down[w] = <<>>
    BY MindedIs DEF Minded, Idle
<1>2. \A w \in Workers : out[w] = <<>>
    BY BrokerIs
<1> HIDE DEF out, none
<1>3. [s EXCEPT !.out = out, !.refused = none, !.unsynced = none] = s
    BY <1>1 DEF Brokers
<1>4. \A w \in Workers : down[w] \o <<>> = down[w]
    BY <1>1
<1>5. ASSUME NEW w \in Workers
      PROVE  down[w] = IF w \in s.online THEN down[w] \o s.out[w] ELSE <<>>
    BY <1>1, <1>2, <1>4
<1>6. down = [w \in Workers |-> IF w \in s.online THEN down[w] \o s.out[w] ELSE <<>>]
    BY <1>1, <1>5
<1> QED
    BY <1>3, <1>6 DEF Becomes, out, none

LEMMA LeaseEndsKeeps == ASSUME Minded, NEW r \in Sides, LeaseEnds(r) PROVE Minded'
<1> DEFINE L == state.lapsed \cup {r}
           s == [state EXCEPT !.lapsed = L]
           c == Ctx
<1>1. state' = s /\ down' = down /\ UNCHANGED <<conf, up, body, mirror>>
    BY DEF LeaseEnds
<1>2. state \in Brokers /\ StagedLive(state) /\ Holds(c, {}, {}, {}, state)
    BY MindedIs
<1>3. L \in SUBSET Sides
    BY <1>2 DEF Brokers
<1> HIDE DEF L
<1>4. /\ s \in Brokers /\ s.online = state.online /\ s.out = state.out /\ s.view = state.view
      /\ s.untold = state.untold /\ s.blurred = state.blurred /\ s.stranded = state.stranded
      /\ s.ents = state.ents /\ s.holder = state.holder /\ s.writes = state.writes
      /\ s.failovers = state.failovers /\ s.handoffs = state.handoffs
      /\ s.refused = state.refused /\ s.unsynced = state.unsynced
    BY <1>2, <1>3 DEF Brokers
<1> HIDE DEF s, c
<1>5. Aside(state, s) /\ StagedLive(s)
    BY <1>2, <1>4 DEF Aside, StagedLive, Live
<1>6. Goods(c, state, s)
    BY <1>2, <1>4, <1>5, AsideGoods
<1>7. Becomes(s)
    BY <1>1, <1>4, Unheard
<1> QED
    BY <1>1, <1>6, <1>7, BrokerKeeps DEF c

\* The log does not take the failover.
LEMMA UnpromotedKeeps ==
    ASSUME Minded, UNCHANGED <<conf, up, down, body, mirror>>, state' = [state EXCEPT !.degraded = TRUE]
    PROVE  Minded'
<1> DEFINE s == [state EXCEPT !.degraded = TRUE]
           c == Ctx
<1>1. Holds(c, {}, {}, {}, state) /\ state \in Brokers
    BY MindedIs
<1> HIDE DEF c
<1>2. Holds(c, {}, {}, {}, s) /\ Rest(state, s)
    BY <1>1, DegradedKeeps
<1>3. /\ s \in Brokers /\ s.out = state.out /\ s.online = state.online
      /\ s.refused = state.refused /\ s.unsynced = state.unsynced
    BY <1>1 DEF Brokers
<1>4. state' = s /\ UNCHANGED <<conf, up, down, body, mirror>>
    OBVIOUS
<1> HIDE DEF s
<1>5. Goods(c, state, s) /\ Becomes(s)
    BY <1>2, <1>3, <1>4, RestGoods, Unheard
<1> QED
    BY <1>4, <1>5, BrokerKeeps DEF c

LEMMA PromotedKeeps ==
    ASSUME Minded, NEW r \in Sides, state.standbys # <<>>, UNCHANGED <<conf, up, down, body, mirror>>,
           state' = [QueueFailover(state, r, Head(state.standbys)) EXCEPT !.standbys = Tail(@)]
    PROVE  Minded'
<1> DEFINE old == HolderOf(state, r)
           new == Head(state.standbys)
           moved == {e \in Entities : /\ Live(state, e) /\ state.ents[e].region = r
                                      /\ Advances(state, e, old)}
           grant(e) == [eid |-> e, authority |-> Advance(state, e, old, new)]
           W == {grant(e) : e \in moved}
           f == [region |-> r, new |-> new, grants |-> W]
           D == Append(state.failovers, f)
           q == Tail(state.standbys)
           s == [state EXCEPT !.failovers = D, !.standbys = q]
           c == Ctx
<1>1. state \in Brokers /\ StagedLive(state) /\ Holds(c, {}, {}, {}, state)
    BY MindedIs
<1>2. state.standbys # <<>> /\ down' = down /\ UNCHANGED <<conf, up, body, mirror>>
    OBVIOUS
<1>3. state' = s
    <2>1. QueueFailover(state, r, new) = [state EXCEPT !.failovers = D]
        BY Zenon DEF QueueFailover
    <2>2. state' = [QueueFailover(state, r, new) EXCEPT !.standbys = Tail(@)]
        OBVIOUS
    <2>3. [state EXCEPT !.failovers = D].standbys = state.standbys
        BY <1>1 DEF Brokers
    <2> HIDE DEF D
    <2> QED
        BY <2>1, <2>2, <2>3
<1>4. new \in Workers /\ q \in Seq(Workers)
    <2>1. state.standbys \in Seq(Workers)
        BY <1>1 DEF Brokers
    <2> QED
        BY <1>2, <2>1
<1>5. \A e \in moved : grant(e) \in [eid : Entities, authority : Authority]
    <2>1. ASSUME NEW e \in moved PROVE Advance(state, e, old, new) \in Authority
        <3>1. state.ents[e].epoch \in Nat
            BY <1>1, PlacedIs
        <3> QED
            BY <1>4, <3>1 DEF Advance, Authority
    <2> QED
        BY <2>1
<1>6. \A g \in W : Live(state, g.eid) /\ g.authority.owner = new
    BY DEF Advance
<1>7. IsFiniteSet(W)
    <2> DEFINE k == [e \in moved |-> grant(e)]
    <2>1. W = {k[e] : e \in moved}
        OBVIOUS
    <2>2. IsFiniteSet(moved)
        BY NoneIs, FS_Subset
    <2> HIDE DEF k, W, moved
    <2> QED
        BY <2>1, <2>2, ImageFinite
<1>8. f \in Failovers
    BY <1>4, <1>5 DEF Failovers
<1> HIDE DEF W, moved, new, old
<1>9. f.grants = W /\ f.new = new
    OBVIOUS
<1> HIDE DEF f, q
<1>10. /\ D \in Seq(Failovers)
       /\ \A i \in DOMAIN D : (i \in DOMAIN state.failovers /\ D[i] = state.failovers[i]) \/ D[i] = f
    <2>1. state.failovers \in Seq(Failovers)
        BY <1>1 DEF Brokers
    <2> QED
        BY <1>8, <2>1
<1> HIDE DEF D
<1>11. /\ s \in Brokers /\ s.online = state.online /\ s.out = state.out /\ s.view = state.view
       /\ s.untold = state.untold /\ s.blurred = state.blurred /\ s.stranded = state.stranded
       /\ s.ents = state.ents /\ s.holder = state.holder /\ s.writes = state.writes
       /\ s.failovers = D /\ s.handoffs = state.handoffs
       /\ s.refused = state.refused /\ s.unsynced = state.unsynced
    BY <1>1, <1>4, <1>10 DEF Brokers
<1> HIDE DEF s, c
<1>12. Aside(state, s) /\ \A e : Live(s, e) <=> Live(state, e)
    BY <1>11 DEF Aside, Live
<1>13. StagedLive(s)
    <2>1. \A i \in DOMAIN s.writes : Live(s, s.writes[i].eid)
        BY <1>1, <1>11, <1>12 DEF StagedLive
    <2>2. ASSUME NEW i \in DOMAIN D
          PROVE  /\ IsFiniteSet(D[i].grants)
                 /\ \A g \in D[i].grants : Live(s, g.eid) /\ g.authority.owner = D[i].new
        <3>1. CASE i \in DOMAIN state.failovers /\ D[i] = state.failovers[i]
            BY <1>1, <1>12, <3>1 DEF StagedLive
        <3>2. CASE D[i] = f
            BY <1>6, <1>7, <1>9, <1>12, <3>2
        <3> QED
            BY <1>10, <3>1, <3>2
    <2>3. \A i \in DOMAIN s.handoffs : Meant(s, s.handoffs[i])
        BY <1>1, <1>11, <1>12 DEF StagedLive, Meant
    <2> QED
        BY <1>11, <2>1, <2>2, <2>3 DEF StagedLive, Meant
<1>14. Goods(c, state, s)
    BY <1>1, <1>11, <1>12, <1>13, AsideGoods
<1>15. Becomes(s)
    BY <1>2, <1>3, <1>11, Unheard
<1> QED
    BY <1>2, <1>14, <1>15, BrokerKeeps DEF c

LEMMA PromoteStandbyKeeps == ASSUME Minded, NEW r \in Sides, PromoteStandby(r) PROVE Minded'
<1>1. state.standbys # <<>> /\ UNCHANGED <<conf, up, down, body, mirror>>
    BY DEF PromoteStandby
<1>2. \/ state' = [QueueFailover(state, r, Head(state.standbys)) EXCEPT !.standbys = Tail(@)]
      \/ state' = [state EXCEPT !.degraded = TRUE]
    BY DEF PromoteStandby
<1> QED
    BY <1>1, <1>2, UnpromotedKeeps, PromotedKeeps

LEMMA ZoneNextMinded == Minded /\ [ZoneNext]_zoneVars => Minded'
<1> SUFFICES ASSUME Minded, [ZoneNext]_zoneVars PROVE Minded'
    OBVIOUS
<1>1. CASE ZoneNext
    BY <1>1, StartKeeps, CutKeeps, TickKeeps, ReceiveKeeps, PublishKeeps,
       LeaseEndsKeeps, PromoteStandbyKeeps DEF ZoneNext
<1>2. CASE UNCHANGED zoneVars
    <2>1. state' = state /\ down' = down /\ UNCHANGED <<conf, up, body, mirror>>
        BY <1>2 DEF zoneVars
    <2> DEFINE s == state
               c == Ctx
    <2>2. s \in Brokers /\ Holds(c, {}, {}, {}, s)
        BY MindedIs
    <2>3. Goods(c, s, s)
        <3> HIDE DEF s, c
        <3> QED
            BY <2>2 DEF Goods
    <2>4. Becomes(s)
        BY <2>1, <2>2, Unheard
    <2> QED
        BY <2>1, <2>3, <2>4, BrokerKeeps
<1> QED
    BY <1>1, <1>2

(***************************************************************************)
(* What the invariant shows.                                               *)
(***************************************************************************)
LEMMA HearElse ==
    ASSUME NEW z \in Mind, NEW m \in Frame, NEW e \in Entities
    PROVE  Hear(z, m) \in Mind /\ (~About(m, e) => Hear(z, m).body[e] = z.body[e])
<1>1. CASE m \in [op : {"Add", "Revoke", "Remove"}, eid : Entities]
    <2>1. m = [op |-> m.op, eid |-> m.eid] /\ m.eid \in Entities /\ m.op \in {"Add", "Revoke", "Remove"}
        BY <1>1
    <2>2. ~About(m, e) => m.eid # e
        BY <2>1 DEF About
    <2> DEFINE x == m.eid
    <2>3. x \in Entities
        BY <2>1
    <2>4. CASE m.op = "Add"
        <3>1. m = [op |-> "Add", eid |-> x]
            BY <2>1, <2>4
        <3> HIDE DEF x
        <3>2. Hear(z, m) \in Mind /\ Hear(z, m).body = z.body
            BY <2>3, <3>1, HearAdd
        <3> QED
            BY <3>2
    <2>5. CASE m.op \in {"Revoke", "Remove"}
        <3> DEFINE y == m.op
        <3>1. m = [op |-> y, eid |-> x] /\ y \in {"Revoke", "Remove"}
            BY <2>1, <2>5
        <3> HIDE DEF x, y
        <3>2. Hear(z, m) \in Mind /\ \A k \in Entities : k # x => Hear(z, m).body[k] = z.body[k]
            BY <2>3, <3>1, HearGone
        <3> QED
            BY <2>2, <3>2 DEF x
    <2> QED
        BY <2>1, <2>4, <2>5
<1>2. CASE m \in [op : {"Pos"}, eid : Entities, pos : Points]
    <2>1. m = [op |-> "Pos", eid |-> m.eid, pos |-> m.pos] /\ m.eid \in Entities /\ m.pos \in Points
        BY <1>2
    <2>2. ~About(m, e) => m.eid # e
        BY <2>1 DEF About
    <2> QED
        BY <2>1, <2>2, HearPos
<1>3. CASE m \in [op : {"Grant"}, eid : Entities, epoch : Nat, at : Points \cup {None}]
    <2>1. /\ m = [op |-> "Grant", eid |-> m.eid, epoch |-> m.epoch, at |-> m.at]
          /\ m.eid \in Entities /\ m.epoch \in Nat
        BY <1>3
    <2>2. ~About(m, e) => m.eid # e
        BY <2>1 DEF About
    <2> QED
        BY <2>1, <2>2, HearGrant
<1>4. CASE m \in [op : {"Reject"}, eid : Entities, reason : Reasons]
    <2>1. m = [op |-> "Reject", eid |-> m.eid, reason |-> m.reason] /\ m.eid \in Entities
          /\ m.op = "Reject"
        BY <1>4
    <2>2. ~About(m, e) => m.eid # e
        BY <2>1 DEF About
    <2>3. CASE m.reason = "not authoritative"
        <3> DEFINE x == m.eid
                   t == Hear(z, [op |-> "Reject", eid |-> x, reason |-> "not authoritative"])
        <3>1. m = [op |-> "Reject", eid |-> x, reason |-> "not authoritative"] /\ x \in Entities
            BY <2>1, <2>3
        <3> HIDE DEF x
        <3>2. t \in Mind /\ \A k \in Entities : k # x => t.body[k] = z.body[k]
            BY <3>1, HearDrop
        <3>3. Hear(z, m) = t
            BY <3>1
        <3> HIDE DEF t
        <3> QED
            BY <2>2, <3>2, <3>3 DEF x
    <2>4. CASE m.reason # "not authoritative"
        <3>1. Hear(z, m) = z
            BY <2>1, <2>4 DEF Hear, Rejected
        <3> QED
            BY <3>1
    <2> QED
        BY <2>3, <2>4
<1>5. CASE m \in [op : {"Reject"}, eid : {None}, reason : {"degraded"}]
    <2>1. m.op = "Reject" /\ m.reason = "degraded"
        BY <1>5
    <2>2. Hear(z, m) = z
        BY <2>1 DEF Hear, Rejected
    <2> QED
        BY <2>2
<1>6. CASE m \in [op : {"Imminent"}, eid : Entities, epoch : Nat]
    <2>1. m = [op |-> "Imminent", eid |-> m.eid, epoch |-> m.epoch]
        BY <1>6
    <2> QED
        BY <2>1, HearImminent
<1> QED
    BY <1>1, <1>2, <1>3, <1>4, <1>5, <1>6 DEF Frame

\* Frames that are not about an entity leave the body of it alone.
LEMMA ReadElse ==
    ASSUME NEW z \in Mind, NEW q \in Seq(Frame), NEW e \in Entities,
           \A i \in 1..Len(q) : ~About(q[i], e)
    PROVE  Read(z, q).body[e] = z.body[e]
<1> DEFINE n == Len(q)
<1>1. PICK run : Runs("hear", None, z, q, n, run) /\ Read(z, q) = run[n]
    BY HearRuns DEF Ends
<1>2. n \in Nat /\ \A i \in 1..n : q[i] \in Frame /\ ~About(q[i], e)
    OBVIOUS
<1> HIDE DEF n
<1> DEFINE good == {k \in 0..n : run[k] \in Mind /\ run[k].body[e] = z.body[e]}
<1>3. 0 \in good
    BY <1>1, <1>2 DEF Runs
<1>4. ASSUME NEW k \in 1..n, k - 1 \in good PROVE k \in good
    <2> DEFINE x == run[k - 1]
               m == q[k]
    <2>1. x \in Mind /\ x.body[e] = z.body[e] /\ m \in Frame /\ ~About(m, e)
        BY <1>2, <1>4
    <2>2. run[k] = Hear(x, m)
        BY <1>1 DEF Runs, Step
    <2> HIDE DEF x, m
    <2>3. run[k] \in Mind /\ run[k].body[e] = z.body[e]
        BY <2>1, <2>2, HearElse
    <2> QED
        BY <2>3
<1> HIDE DEF good
<1>5. n \in good
    <2>1. \A k \in 1..n : k - 1 \in good => k \in good
        BY <1>4
    <2>2. n \in 0..n
        BY <1>2
    <2>3. \A k \in 0..n : k \in good
        BY <1>2, <1>3, <2>1, Along
    <2> QED
        BY <2>2, <2>3
<1> QED
    BY <1>1, <1>5 DEF good

\* Once the frames to it are handled, a worker has in mind what it will.
LEMMA SettledIs ==
    ASSUME Minded, NEW w \in state.online, NEW e \in Entities, Settled(w, e)
    PROVE  /\ Ear(Ctx, state, w).body[e] = body[w][e] /\ <<w, e>> \notin Ctx.fold /\ w \in Workers
           /\ OwnOnly(Ctx, state, w, e) /\ AllOwn(Ctx, state, w, e)
<1>1. /\ Typed /\ Holds(Ctx, {}, {}, {}, state) /\ down \in [Workers -> Seq(Frame)] /\ CtxSays
      /\ w \in Workers /\ Chan(state, w) = down[w]
    BY MindedIs
<1>2. \A i \in 1..Len(down[w]) : ~About(down[w][i], e)
    BY <1>1 DEF Settled
<1>3. Ctx.mind[w] \in Mind /\ Ctx.mind[w].body = body[w]
    <2>1. Ctx.mind[w] \in Mind /\ Ctx.mind[w] = [body |-> body[w], mirror |-> mirror[w]]
        BY <1>1 DEF CtxSays
    <2> QED
        BY <2>1
<1>4. Ear(Ctx, state, w).body[e] = body[w][e]
    BY <1>1, <1>2, <1>3, ReadElse DEF Ear
<1>5. <<w, e>> \notin Ctx.fold
    <2>1. \A i \in 1..Len(up[w]) : ~About(up[w][i], e)
        BY <1>1 DEF Settled, Typed
    <2>2. \A m : m.op = "Fold" /\ m.eid = e => About(m, e)
        BY DEF About
    <2> QED
        BY <1>1, <2>1, <2>2 DEF CtxSays
<1>6. OwnOnly(Ctx, state, w, e) /\ AllOwn(Ctx, state, w, e)
    BY <1>1 DEF Holds
<1> QED
    BY <1>1, <1>4, <1>5, <1>6

LEMMA MindedNobodyElse == Minded => NobodyElseSimulates
<1> SUFFICES ASSUME Minded, NEW w \in state.online, NEW e \in Entities, Settled(w, e),
                    body[w][e] # None
             PROVE  state.ents[e].owner = w \/ <<w, e>> \in state.untold
    BY DEF NobodyElseSimulates
<1> QED
    BY SettledIs DEF OwnOnly, Simulates

LEMMA MindedOwner == Minded => OwnerSimulates
<1> SUFFICES ASSUME Minded, NEW e \in Entities, Live(state, e),
                    Responsible(state, e) \in state.online, Settled(Responsible(state, e), e),
                    e \notin state.stranded
             PROVE  LET w == Responsible(state, e) IN
                    body[w][e] # None /\ body[w][e].epoch = state.ents[e].epoch
    BY DEF OwnerSimulates
<1> DEFINE w == Responsible(state, e)
<1>1. /\ Ear(Ctx, state, w).body[e] = body[w][e] /\ <<w, e>> \notin Ctx.fold
      /\ AllOwn(Ctx, state, w, e)
    BY SettledIs
<1> QED
    BY <1>1 DEF AllOwn, Simulates

LEMMA MindedAdopts == Minded => AdoptsWhereItWas
<1> SUFFICES ASSUME Minded, NEW w \in state.online, NEW n \in DOMAIN down[w],
                    down[w][n].op = "Grant", down[w][n].at # None,
                    Heard(w, n - 1).body[down[w][n].eid] = None
             PROVE  Heard(w, n).body[down[w][n].eid].pos = down[w][n].at
    BY DEF AdoptsWhereItWas
<1> DEFINE m == down[w][n]
           q == down[w]
           c == Ctx
           x == SubSeq(q, 1, n - 1)
           z == Read(c.mind[w], x)
<1>1. /\ Adopts(c, state) /\ down \in [Workers -> Seq(Frame)] /\ CtxSays
      /\ w \in Workers /\ Chan(state, w) = q
    BY MindedIs, HoldsIs
<1>2. n \in 1..Len(q) /\ q \in Seq(Frame) /\ m \in Frame
    BY <1>1
<1>3. x \in Seq(Frame) /\ SubSeq(q, 1, n) = Append(x, m)
    BY <1>2
<1>4. c.mind[w] = [body |-> body[w], mirror |-> mirror[w]]
    BY <1>1 DEF CtxSays
<1>5. Heard(w, n - 1) = z /\ Heard(w, n) = Read(c.mind[w], SubSeq(q, 1, n))
    BY <1>4, Zenon DEF Heard, Read
<1>6. m.op = "Grant" /\ m.at # None /\ z.body[m.eid] = None => Hear(z, m).body[m.eid].pos = m.at
    BY <1>1, <1>2 DEF Adopts
<1> HIDE DEF x, c, m, q, z
<1>7. Read(c.mind[w], Append(x, m)) = Hear(z, m)
    BY <1>2, <1>3, ReadMore DEF z
<1> QED
    BY <1>3, <1>5, <1>6, <1>7 DEF m, z

\* The inductive invariant of the zone workers.
THEOREM ZoneMinded == ZoneSpec => []Minded
BY ZoneInitMinded, ZoneNextMinded, PTL DEF ZoneSpec

\* Once the frames between them are handled, a worker simulates nothing that is not its
\* own, except what a failover or a late hand-off took without telling it.
THEOREM StrangersLetGo == ZoneSpec => []NobodyElseSimulates
BY ZoneMinded, MindedNobodyElse, PTL

\* Whoever is responsible for an entity simulates it, with the epoch the broker will
\* accept, unless it was never told or has let go.
THEOREM OwnersSimulate == ZoneSpec => []OwnerSimulates
BY ZoneMinded, MindedOwner, PTL

\* A body that is adopted starts where the broker has it.
THEOREM AdoptedWhereItWas == ZoneSpec => []AdoptsWhereItWas
BY ZoneMinded, MindedAdopts, PTL
=============================================================================
