----------------------------- MODULE RegionLease -----------------------------
(***************************************************************************)
(* Who may write a region: leases, sessions, standbys and failover.        *)
(*                                                                         *)
(* A worker connects as a region's worker, and leases the region unless    *)
(* another holds a live lease on it, or as a standby.  Its frames renew    *)
(* its leases.  The monitor tick stages a failover of every lapsed region  *)
(* to the oldest standby; the durability tick fsyncs and applies it.       *)
(* Leases are not logged; the owners of entities are, by failovers and by  *)
(* compaction but not by connects.                                         *)
(*                                                                         *)
(* A session is numbered per worker.  The broker knows a worker's session  *)
(* by the worker's name, so the end of an old one removes a newer one.     *)
(* Time is abstracted: a live lease may lapse at any moment.  Entities     *)
(* keep their region here and are owned only through leases.               *)
(***************************************************************************)
EXTENDS Names, Naturals, Sequences

CONSTANTS
    Regions,
    Failures,       \* a write or an fsync may fail
    MaxSessions     \* per worker; a bound of the model, none in the code

ASSUME LeaseBounds == MaxSessions \in Nat /\ Failures \in BOOLEAN /\ None \notin Workers

VARIABLES
    region,        \* the region of each entity
    owner,         \* the owner of its components, in RAM
    regionWorker,  \* region_worker
    live,          \* the regions whose region_expires is still ahead
    standbys,      \* standbys, oldest first; a name may be in it twice or be gone
    failovers,     \* pending_failovers
    degraded,      \* wal_degraded
    logged,        \* the owners the whole log replays to
    mayRecover,    \* the owners its crash-surviving prefixes replay to
    used,          \* how many sessions each worker has opened
    open,          \* those the broker still reads from
    handle,        \* the session of workers[w]; 0 when there is none
    takenOver      \* history: the regions a connect took over from an owner

log == <<logged, mayRecover, degraded>>
sessions == <<used, open, handle>>
grants == <<owner, regionWorker, live>>
vars == <<region, grants, standbys, failovers, log, sessions, takenOver>>

Owners == [Entities -> Workers \cup {None}]
Failover == [region : Regions, to : Workers, moved : SUBSET Entities]

TypeOK ==
    /\ region \in [Entities -> Regions]
    /\ owner \in Owners /\ logged \in Owners /\ mayRecover \in SUBSET Owners
    /\ regionWorker \in [Regions -> Workers \cup {None}]
    /\ live \in SUBSET Regions
    /\ standbys \in Seq(Workers) /\ failovers \in Seq(Failover)
    /\ degraded \in BOOLEAN
    \* No region has two failovers staged: flushing would apply both.
    /\ \A i, j \in DOMAIN failovers : i # j => failovers[i].region # failovers[j].region
    /\ used \in [Workers -> 0..MaxSessions] /\ handle \in [Workers -> 0..MaxSessions]
    /\ open \in [Workers -> SUBSET (1..MaxSessions)]
    /\ takenOver \in SUBSET Regions

Init ==
    /\ region \in [Entities -> Regions]
    /\ owner = [e \in Entities |-> None]
    /\ logged = owner /\ mayRecover = {owner}
    /\ regionWorker = [r \in Regions |-> None] /\ live = {}
    /\ standbys = <<>> /\ failovers = <<>> /\ degraded = FALSE
    /\ used = [w \in Workers |-> 0] /\ handle = used
    /\ open = [w \in Workers |-> {}] /\ takenOver = {}

(***************************************************************************)
(* Sessions.                                                               *)
(***************************************************************************)
\* The new session takes over workers[w]; a previous one may still be read.
OpenSession(w) ==
    /\ used[w] < MaxSessions
    /\ used' = [used EXCEPT ![w] = @ + 1]
    /\ open' = [open EXCEPT ![w] = @ \cup {used[w] + 1}]
    /\ handle' = [handle EXCEPT ![w] = used[w] + 1]

\* checkout_all: w is granted what its regions hold, unless another owns it.
CheckedOut(w, leases) ==
    [e \in Entities |-> IF leases[region[e]] = w /\ owner[e] = None THEN w ELSE owner[e]]

HeldByConnected(w, r) ==
    regionWorker[r] \notin {None, w} /\ r \in live /\ handle[regionWorker[r]] # 0
HeldByAnother(w, r) == regionWorker[r] \notin {None, w} /\ r \in live

\* Regions with an entity that belongs to another than the region's worker: that
\* other may write it and the region's may not (authoritative_component_writer).
Separated(owners, leases) ==
    {region[e] : e \in {d \in Entities : leases[region[d]] # None
                                      /\ owners[d] \notin {None, leases[region[d]]}}}

Connect(w, r) ==
    /\ OpenSession(w)
    /\ IF HeldByAnother(w, r) THEN UNCHANGED <<regionWorker, live>>
       ELSE /\ regionWorker' = [regionWorker EXCEPT ![r] = w]
            /\ live' = live \cup {r}
    /\ owner' = CheckedOut(w, regionWorker')
    /\ takenOver' = takenOver \cup Separated(owner', regionWorker')
    /\ UNCHANGED <<region, standbys, failovers, log>>

ConnectStandby(w) ==
    /\ OpenSession(w)
    /\ standbys' = Append(standbys, w)
    /\ owner' = CheckedOut(w, regionWorker)
    /\ UNCHANGED <<region, regionWorker, live, failovers, log, takenOver>>

\* The reader of a session ends, on EOF, a Disconnect or the overflow flag, and
\* removes workers[w], whichever session holds it by then.
Teardown(w, n) ==
    /\ n \in open[w]
    /\ open' = [open EXCEPT ![w] = @ \ {n}]
    /\ handle' = [handle EXCEPT ![w] = 0]
    /\ UNCHANGED <<region, grants, standbys, failovers, log, used, takenOver>>

\* Egress overflowed on a critical frame: the handle goes at once, the reader
\* notices later.
Reap(w) ==
    /\ handle[w] # 0
    /\ handle' = [handle EXCEPT ![w] = 0]
    /\ UNCHANGED <<region, grants, standbys, failovers, log, used, open, takenOver>>

(***************************************************************************)
(* Leases.                                                                 *)
(***************************************************************************)
\* A heartbeat, or an applied write, in any session of w still read.
Renew(w) ==
    /\ open[w] # {}
    /\ live' = live \cup {r \in Regions : regionWorker[r] = w}
    /\ UNCHANGED <<region, owner, regionWorker, standbys, failovers, log, sessions, takenOver>>

Lapse(r) ==
    /\ r \in live
    /\ live' = live \ {r}
    /\ UNCHANGED <<region, owner, regionWorker, standbys, failovers, log, sessions, takenOver>>

(***************************************************************************)
(* Failover.                                                               *)
(***************************************************************************)
Staged(r) == \E i \in DOMAIN failovers : failovers[i].region = r
LapsedAgain == {r \in Regions : regionWorker[r] # None /\ r \notin live}
LapsedInSession ==
    {r \in Regions : /\ regionWorker[r] # None /\ r \notin live /\ ~Staged(r)
                     /\ handle[regionWorker[r]] # 0}
Lapsed == {r \in Regions : regionWorker[r] # None /\ r \notin live /\ ~Staged(r)}

\* Owners s after the first n of the failovers fs, which are of distinct regions.
Granted(s, fs, n) ==
    [e \in Entities |->
        LET is == {i \in 1..n : e \in fs[i].moved}
        IN  IF is = {} THEN s[e] ELSE fs[CHOOSE i \in is : \A j \in is : j <= i].to]

Arrangements(S, n) ==
    {q \in [1..n -> S] : \A i, j \in 1..n : i # j => q[i] # q[j]}

\* What the failover of r takes from its worker: the entities it owns and those
\* nobody owns.
Moved(r) == {e \in Entities : region[e] = r /\ owner[e] \in {None, regionWorker[r]}}

\* check_leases: lapsed regions, in any order, against standbys, in theirs.  A
\* record that cannot be written puts its standby back; no record is fsynced.
CheckLeases ==
    /\ Lapsed # {} /\ standbys # <<>>
    /\ \E k \in 0..Len(standbys), failed \in BOOLEAN : \E q \in Arrangements(Lapsed, k) :
         LET new == [i \in 1..k |-> [region |-> q[i], to |-> standbys[i],
                                     moved |-> Moved(q[i])]]
             left == Lapsed \ {q[i] : i \in 1..k}
         IN  /\ failed => Failures /\ left # {}
             /\ ~failed => left = {} \/ k = Len(standbys)
             /\ degraded' = (degraded \/ failed)
             /\ failovers' = failovers \o new
             /\ standbys' = SubSeq(standbys, k + 1, Len(standbys))
             /\ logged' = Granted(logged, new, k)
             /\ mayRecover' = mayRecover \cup {Granted(logged, new, i) : i \in 1..k}
    /\ UNCHANGED <<region, grants, sessions, takenOver>>

FlushFailsUnlatched ==
    /\ Failures
    /\ UNCHANGED <<grants, log>>
FlushFails ==
    /\ Failures
    /\ degraded' = TRUE
    /\ UNCHANGED <<grants, logged, mayRecover>>
FlushAppliesToRegionsOnly ==
    LET new == {failovers[i].region : i \in DOMAIN failovers} IN
    /\ regionWorker' = [r \in Regions |->
          IF r \in new
          THEN failovers[CHOOSE i \in DOMAIN failovers : failovers[i].region = r].to
          ELSE regionWorker[r]]
    /\ live' = live \cup new
    /\ UNCHANGED owner
    /\ mayRecover' = {logged}
    /\ UNCHANGED <<logged, degraded>>
FlushApplies ==
    LET new == {failovers[i].region : i \in DOMAIN failovers} IN
    /\ regionWorker' = [r \in Regions |->
          IF r \in new
          THEN failovers[CHOOSE i \in DOMAIN failovers : failovers[i].region = r].to
          ELSE regionWorker[r]]
    /\ live' = live \cup new
    /\ owner' = Granted(owner, failovers, Len(failovers))
    /\ mayRecover' = {logged}
    /\ UNCHANGED <<logged, degraded>>

\* Whether or not the fsync succeeds the queue is emptied: what did not cross
\* is dropped, its standby with it, and its line stays in the file.
Flush ==
    /\ failovers # <<>>
    /\ failovers' = <<>>
    /\ FlushApplies \/ FlushFails
    /\ UNCHANGED <<region, standbys, sessions, takenOver>>

(***************************************************************************)
(* Compaction and restart.                                                 *)
(***************************************************************************)
\* The new file registers every entity with the authority RAM has for it.
Compact ==
    /\ ~degraded /\ failovers = <<>>
    /\ \/ /\ logged' = owner /\ mayRecover' = {owner}
          /\ UNCHANGED degraded
       \/ /\ Failures /\ degraded' = TRUE
          /\ \/ UNCHANGED <<logged, mayRecover>>
             \/ logged' = owner /\ mayRecover' = mayRecover \cup {owner}
    /\ UNCHANGED <<region, grants, standbys, failovers, sessions, takenOver>>

Restart ==
    /\ \E s \in mayRecover : owner' = s /\ logged' = s /\ mayRecover' = {s}
    /\ regionWorker' = [r \in Regions |-> None] /\ live' = {}
    /\ standbys' = <<>> /\ failovers' = <<>> /\ degraded' = FALSE /\ takenOver' = {}
    /\ open' = [w \in Workers |-> {}] /\ handle' = [w \in Workers |-> 0]
    /\ UNCHANGED <<region, used>>

Next ==
    \/ \E w \in Workers :
          \/ ConnectStandby(w) \/ Reap(w) \/ Renew(w)
          \/ \E r \in Regions : Connect(w, r)
          \/ \E n \in 1..MaxSessions : Teardown(w, n)
    \/ \E r \in Regions : Lapse(r)
    \/ CheckLeases
    \/ Flush
    \/ Compact
    \/ Restart

Spec == Init /\ [][Next]_vars

\* The two ticks run; a session whose handle is gone or another's ends, or falls
\* silent, before long, for its write half is closed; a lease nobody renews lapses.
EndSession(w, n) == n # handle[w] /\ Teardown(w, n)
Expire(r) == (\A w \in Workers : regionWorker[r] = w => open[w] = {}) /\ Lapse(r)
Fairness ==
    /\ WF_vars(CheckLeases) /\ WF_vars(Flush)
    /\ \A w \in Workers : \A n \in 1..MaxSessions : WF_vars(EndSession(w, n))
    /\ \A r \in Regions : WF_vars(Expire(r))
FairSpec == Spec /\ Fairness

(***************************************************************************)
(* Properties.                                                             *)
(***************************************************************************)
\* Only a connect parts a region from its entities: no failover, however late
\* it is applied, over whatever was restored, and whoever has connected, renewed
\* or gone since it was staged, leaves them with another than its new worker.
FailoverUnites == Separated(owner, regionWorker) \subseteq takenOver

\* With nothing staged and no failed barrier, a restart yields every owner RAM
\* has, or none where only a connect granted one: it never gives an entity to a
\* worker that has lost it ("old dead owner is fenced by epoch").
OwnerIsReplay ==
    ~degraded /\ failovers = <<>> =>
        \A s \in mayRecover, e \in Entities : s[e] \in {None, owner[e]}

\* A live lease passes to another worker only by a failover that was decided
\* when it had lapsed, never by a connect, a reconnect or a late tick.
LiveLeaseKept ==
    [][\A r \in Regions : r \in live /\ regionWorker[r] # None =>
          regionWorker'[r] \in {regionWorker[r], None} \/ Staged(r)]_vars

\* While barriers hold, a region whose worker has no session does not stay so
\* with a connected standby listed: dead standbys, sessions cut by the teardown
\* of older ones, late renewals and reconnects only delay its reclaim ("a
\* monitor that fails a lapsed region over to a STANDBY").
Unserved(r) == regionWorker[r] # None /\ handle[regionWorker[r]] = 0
Spare == \E i \in DOMAIN standbys : handle[standbys[i]] # 0
Reclaimed == \A r \in Regions : []<>(degraded \/ ~(Unserved(r) /\ Spare))
=============================================================================
