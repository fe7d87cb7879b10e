-------------------------- MODULE FederationProofs --------------------------
(***************************************************************************)
(* Theorems of Federation, for any number of regions, of incarnations of   *)
(* each, and of entities: types, who owns an entity, and who keeps it.     *)
(***************************************************************************)
EXTENDS Federation, FiniteSetTheorems, TLAPS

(***************************************************************************)
(* Operators.                                                              *)
(***************************************************************************)
LEMMA MaxOfTwo ==
    ASSUME NEW i \in Nat, NEW j \in Nat
    PROVE  Max({i, j}) \in {i, j} /\ Max({i, j}) >= i /\ Max({i, j}) >= j
<1>1. \E x \in {i, j} : \A y \in {i, j} : x >= y
    OBVIOUS
<1> QED
    BY <1>1 DEF Max

\* SetToSeq lists the members of a finite set.
LEMMA SetToSeqIs ==
    ASSUME NEW S, IsFiniteSet(S)
    PROVE  SetToSeq(S) \in Seq(S)
<1> DEFINE n == Cardinality(S)
<1>1. n \in Nat /\ ExistsBijection(1 .. n, S)
    BY FS_CardinalityType
<1>2. \E g \in [1 .. n -> S] : IsInjective(g)
    BY <1>1 DEF ExistsBijection, Bijection, Injection, IsInjective
<1>3. SetToSeq(S) \in [1 .. n -> S]
    BY <1>2 DEF SetToSeq
<1> QED
    BY <1>1, <1>3

LEMMA FreshIs ==
    ASSUME NEW home \in SUBSET Entities
    PROVE  LET s == Fresh(home) IN
           /\ s \in Process /\ s.phase = "off" /\ s.spawned = {}
           /\ s.link = [r \in Regions |-> None] /\ s.logged = home
           /\ \A e \in Entities : /\ s.owned[e] = IF e \in home THEN 1 ELSE 0
                                  /\ s.forwarded[e] = 0 /\ s.parked[e] = None
BY DEF Fresh, Process

\* A process after it is gone has what its log has of entities, and nothing else.
LEMMA RecoveredIs ==
    ASSUME NEW s \in Process
    PROVE  LET d == Recovered(s) IN
           /\ d \in Process
           /\ d.phase = "off" /\ d.spawned = {} /\ d.link = [r \in Regions |-> None]
           /\ d.logged = s.logged /\ d.forwarded = s.forwarded /\ d.parked = s.parked
           /\ \A e \in Entities : d.owned[e] = IF e \in s.logged THEN s.owned[e] ELSE 0
<1> DEFINE f == Fresh({})
<1>1. /\ f \in Process /\ f.phase = "off" /\ f.spawned = {}
      /\ f.link = [r \in Regions |-> None]
    BY FreshIs
<1> DEFINE owned == [e \in Entities |-> IF e \in s.logged THEN s.owned[e] ELSE 0]
<1>2. owned \in [Entities -> Nat]
    BY DEF Process
<1>3. Recovered(s) = [f EXCEPT !.owned = owned, !.logged = s.logged, !.frozen = s.frozen,
                               !.forwarded = s.forwarded, !.parked = s.parked]
    BY DEF Recovered
<1> HIDE DEF f, owned
<1>4. /\ s.logged \in SUBSET Entities /\ s.frozen \in BOOLEAN
      /\ s.forwarded \in [Entities -> Nat] /\ s.parked \in [Entities -> Parked \cup {None}]
    BY DEF Process
<1>5. LET d == Recovered(s) IN
          /\ d \in Process /\ d.phase = f.phase /\ d.spawned = f.spawned /\ d.link = f.link
          /\ d.logged = s.logged /\ d.forwarded = s.forwarded /\ d.parked = s.parked
          /\ d.owned = owned
    BY <1>1, <1>2, <1>3, <1>4 DEF Process
<1> QED
    BY <1>1, <1>5 DEF owned

LEMMA StartedIs ==
    ASSUME NEW s \in Process, NEW lease \in Nat
    PROVE  LET d == [s EXCEPT !.phase = "up", !.lease = lease] IN
           /\ d \in Process /\ d.phase = "up" /\ d.spawned = s.spawned
           /\ d.link = s.link /\ d.logged = s.logged /\ d.owned = s.owned
           /\ d.forwarded = s.forwarded /\ d.parked = s.parked
BY DEF Process

\* mesh_forward takes the entities of S and parks them.
DepartsAs(s, S, r, d) ==
    /\ d \in Process
    /\ d.phase = s.phase /\ d.spawned = s.spawned /\ d.link = s.link
    /\ d.logged = s.logged \ S
    /\ \A e \in S : /\ d.owned[e] = 0
                    /\ d.forwarded[e] = Max({s.forwarded[e], s.owned[e] + 1})
                    /\ d.parked[e] = [to |-> r, epoch |-> s.owned[e] + 1, lease |-> s.lease]
    /\ \A e \in Entities \ S : /\ d.owned[e] = s.owned[e]
                               /\ d.forwarded[e] = s.forwarded[e]
                               /\ d.parked[e] = s.parked[e]
LEMMA DepartedIs ==
    ASSUME NEW s \in Process, NEW S \in SUBSET Entities, NEW r \in Regions
    PROVE  DepartsAs(s, S, r, Departed(s, S, r))
<1> DEFINE d == Departed(s, S, r)
<1>1. \A e \in Entities : Max({s.forwarded[e], s.owned[e] + 1}) \in Nat
    BY MaxOfTwo DEF Process
<1>2. \A e \in Entities : [to |-> r, epoch |-> s.owned[e] + 1, lease |-> s.lease] \in Parked
    BY DEF Process, Parked
<1>3. d.owned = [e \in Entities |-> IF e \in S THEN 0 ELSE s.owned[e]]
    BY DEF Departed, Process
<1>4. d.logged = s.logged \ S
    BY DEF Departed, Process
<1>5. d.forwarded = [e \in Entities |->
          IF e \in S THEN Max({s.forwarded[e], s.owned[e] + 1}) ELSE s.forwarded[e]]
    BY DEF Departed, Process
<1>6. d.parked = [e \in Entities |->
          IF e \in S THEN [to |-> r, epoch |-> s.owned[e] + 1, lease |-> s.lease] ELSE s.parked[e]]
    BY DEF Departed, Process
<1>7. d = [s EXCEPT !.owned = d.owned, !.logged = d.logged, !.forwarded = d.forwarded,
                    !.parked = d.parked]
    BY DEF Departed, Process
<1>8. d.owned \in [Entities -> Nat] /\ d.logged \in SUBSET Entities
      /\ d.forwarded \in [Entities -> Nat] /\ d.parked \in [Entities -> Parked \cup {None}]
    BY <1>1, <1>2, <1>3, <1>4, <1>5, <1>6 DEF Process
<1> HIDE DEF d
<1>9. d \in Process /\ d.phase = s.phase /\ d.spawned = s.spawned /\ d.link = s.link
    BY <1>7, <1>8 DEF Process
<1> QED
    BY <1>3, <1>4, <1>5, <1>6, <1>9 DEF d, DepartsAs

LEMMA LinkedAs ==
    ASSUME NEW s \in Process, NEW links \in [Regions -> Link \cup {None}]
    PROVE  LET d == [s EXCEPT !.link = links] IN
           /\ d \in Process /\ d.link = links /\ d.phase = s.phase /\ d.spawned = s.spawned
           /\ d.owned = s.owned /\ d.logged = s.logged
           /\ d.forwarded = s.forwarded /\ d.parked = s.parked
BY DEF Process

\* Cut takes links down and does nothing else.
LEMMA CutIs ==
    ASSUME NEW s \in [Nodes -> Process], NEW n \in Nodes
    PROVE  /\ Cut(s, n) \in [Nodes -> Process] /\ Cut(s, n)[n] = s[n]
           /\ \A m \in Nodes : LET d == Cut(s, n)[m] IN
                 /\ d.phase = s[m].phase /\ d.spawned = s[m].spawned
                 /\ d.owned = s[m].owned /\ d.logged = s[m].logged
                 /\ d.forwarded = s[m].forwarded /\ d.parked = s[m].parked
           /\ \A m \in Nodes \ {n}, r \in Regions : LET k == s[m].link[r] IN
                 Cut(s, n)[m].link[r] =
                     IF k # None /\ k.at = n THEN [k EXCEPT !.up = FALSE] ELSE k
<1> DEFINE links(m) == [r \in Regions |->
               IF s[m].link[r] # None /\ s[m].link[r].at = n
               THEN [s[m].link[r] EXCEPT !.up = FALSE] ELSE s[m].link[r]]
<1>1. Cut(s, n)[n] = s[n]
    BY DEF Cut
<1>2. \A m \in Nodes \ {n} : Cut(s, n)[m] = [s[m] EXCEPT !.link = links(m)]
    BY DEF Cut, Process
<1>3. \A m \in Nodes : links(m) \in [Regions -> Link \cup {None}]
    <2> SUFFICES ASSUME NEW m \in Nodes, NEW r \in Regions
                 PROVE  links(m)[r] \in Link \cup {None}
        OBVIOUS
    <2>1. s[m].link[r] \in Link \cup {None}
        BY DEF Process
    <2>2. \A k \in Link : [k EXCEPT !.up = FALSE] \in Link
        BY DEF Link
    <2> QED
        BY <2>1, <2>2
<1> HIDE DEF links
<1>4. \A m \in Nodes \ {n} : LET d == Cut(s, n)[m] IN
          /\ d \in Process /\ d.link = links(m) /\ d.phase = s[m].phase /\ d.spawned = s[m].spawned
          /\ d.owned = s[m].owned /\ d.logged = s[m].logged
          /\ d.forwarded = s[m].forwarded /\ d.parked = s[m].parked
    <2> SUFFICES ASSUME NEW m \in Nodes \ {n}
                 PROVE  LET d == [s[m] EXCEPT !.link = links(m)] IN
                        /\ d \in Process /\ d.link = links(m)
                        /\ d.phase = s[m].phase /\ d.spawned = s[m].spawned
                        /\ d.owned = s[m].owned /\ d.logged = s[m].logged
                        /\ d.forwarded = s[m].forwarded /\ d.parked = s[m].parked
        BY <1>2
    <2>1. s[m] \in Process /\ links(m) \in [Regions -> Link \cup {None}]
        BY <1>3
    <2> QED
        BY <2>1, LinkedAs
<1>5. Cut(s, n) = [m \in Nodes |-> Cut(s, n)[m]]
    BY DEF Cut
<1>6. Cut(s, n) \in [Nodes -> Process]
    BY <1>1, <1>4, <1>5
<1> QED
    BY <1>1, <1>4, <1>6 DEF links

\* A batch of parked hand-offs goes onto the connection of the link, if it is up.
SendsAs(n, s, S, r, fs) ==
    /\ fs \in [Conns -> Seq(Frames)]
    /\ \A c \in Conns :
          \/ fs[c] = frames[c]
          \/ /\ s.link[r] # None /\ s.link[r].up /\ c = <<n, s.link[r].at>>
             /\ \A f \in ToSet(fs[c]) : f \in ToSet(frames[c])
                    \/ (f.e \in S /\ f.epoch = s.parked[f.e].epoch)
LEMMA SentIs ==
    ASSUME TypeOK, NEW n \in Nodes, NEW s \in Process, NEW S \in SUBSET Entities,
           NEW r \in Regions, \A e \in S : s.parked[e] # None,
           s.link[r] # None => <<n, s.link[r].at>> \in Conns
    PROVE  SendsAs(n, s, S, r, Sent(n, s, S, r))
<1> DEFINE T == {Frame(e, s.parked[e]) : e \in S}
           batch == SetToSeq(T)
           conn == <<n, s.link[r].at>>
<1>1. CASE Sent(n, s, S, r) = frames
    BY <1>1 DEF TypeOK, SendsAs
<1>2. CASE Sent(n, s, S, r) # frames
    <2>1. /\ s.link[r] # None /\ s.link[r].up /\ conn \in Conns
          /\ Sent(n, s, S, r) = [frames EXCEPT ![conn] = @ \o batch]
        BY <1>2 DEF Sent
    <2>2. \A e \in S : s.parked[e] \in Parked
        BY DEF Process
    <2>3. T \subseteq Frames
        BY <2>2 DEF Frame, Frames, Parked
    <2>4. IsFiniteSet(S)
        BY FederationConstants, FS_Subset
    <2>5. IsFiniteSet(T)
        <3>1. [e \in S |-> Frame(e, s.parked[e])] \in Surjection(S, T)
            BY DEF Surjection
        <3> QED
            BY <2>4, <3>1, FS_Surjection
    <2>6. batch \in Seq(T)
        BY <2>5, SetToSeqIs
    <2>7. \A f \in T : f.e \in S /\ f.epoch = s.parked[f.e].epoch
        BY DEF Frame
    <2> HIDE DEF T, batch
    <2>8. batch \in Seq(Frames) /\ \A i \in 1 .. Len(batch) : batch[i] \in T
        BY <2>3, <2>6
    <2>9. frames[conn] \in Seq(Frames)
        BY <2>1 DEF TypeOK
    <2>10. frames[conn] \o batch \in Seq(Frames)
        BY <2>8, <2>9
    <2>11. \A f \in ToSet(frames[conn] \o batch) : f \in ToSet(frames[conn]) \/ f \in T
        <3> SUFFICES ASSUME NEW i \in DOMAIN (frames[conn] \o batch)
                     PROVE  (frames[conn] \o batch)[i] \in ToSet(frames[conn]) \cup T
            BY DEF ToSet
        <3>1. CASE i \in DOMAIN frames[conn]
            <4>1. (frames[conn] \o batch)[i] = frames[conn][i]
                BY <2>8, <2>9, <3>1
            <4> QED
                BY <3>1, <4>1 DEF ToSet
        <3>2. CASE i \notin DOMAIN frames[conn]
            <4>1. /\ i - Len(frames[conn]) \in 1 .. Len(batch)
                  /\ (frames[conn] \o batch)[i] = batch[i - Len(frames[conn])]
                BY <2>8, <2>9, <3>2
            <4> QED
                BY <2>8, <4>1
        <3> QED
            BY <3>1, <3>2
    <2> HIDE DEF conn
    <2>12. Sent(n, s, S, r) \in [Conns -> Seq(Frames)]
        BY <2>1, <2>10 DEF TypeOK
    <2>13. \A c \in Conns : Sent(n, s, S, r)[c] = IF c = conn THEN frames[conn] \o batch ELSE frames[c]
        BY <2>1 DEF TypeOK
    <2>14. ASSUME NEW c \in Conns, c # conn PROVE Sent(n, s, S, r)[c] = frames[c]
        BY <2>13, <2>14
    <2>15. Sent(n, s, S, r)[conn] = frames[conn] \o batch
        BY <2>1, <2>13
    <2>16. \A f \in ToSet(Sent(n, s, S, r)[conn]) :
              f \in ToSet(frames[conn]) \/ (f.e \in S /\ f.epoch = s.parked[f.e].epoch)
        BY <2>7, <2>11, <2>15
    <2> QED
        BY <2>1, <2>12, <2>14, <2>16 DEF conn, SendsAs
<1> QED
    BY <1>1, <1>2

(***************************************************************************)
(* What a step does to an entity.                                          *)
(***************************************************************************)
\* A hand-off of e to region r at epoch k, parked or in flight; an ack of one.
Offered(e, r, k) ==
    \/ \E n \in Nodes : LET p == node[n].parked[e] IN p # None /\ p.to = r /\ p.epoch = k
    \/ \E c \in Conns : RegionOf[c[2]] = r /\ \E f \in ToSet(frames[c]) : f.e = e /\ f.epoch = k
Acked(e, k) == \E c \in Conns : \E a \in ToSet(acks[c]) : a.e = e /\ a.epoch = k

\* Links lead out of a region, to a node of the region they are for; they are up, and
\* frames are in flight, only to nodes that are; who has exited has nothing.
Wiring ==
    /\ \A n \in Nodes : RegionOf[n] \notin node[n].spawned
    /\ \A n \in Nodes, r \in Regions : LET k == node[n].link[r] IN
          k # None => r # RegionOf[n] /\ RegionOf[k.at] = r /\ (k.up => Up(k.at))
    /\ \A c \in Conns : frames[c] # <<>> => Up(c[2])
    /\ \A n \in Nodes : node[n].phase = "exited" =>
          \A e \in Entities :
              node[n].owned[e] = 0 /\ node[n].parked[e] = None /\ e \notin node[n].logged

\* What a node has of e: an owner has parked nothing, what is parked has the epoch of
\* the fence, and RAM and log agree on whose it is unless an ack misled the log.
ShapeAt(n, e) == LET s == node[n] IN
    /\ s.owned[e] # 0 => s.forwarded[e] = 0 /\ s.parked[e] = None
    /\ s.parked[e] # None => s.parked[e].epoch = s.forwarded[e]
    /\ e \in s.logged => s.owned[e] # 0
    /\ s.owned[e] # 0 => e \in s.logged \/ e \in misled
Shape == \A n \in Nodes, e \in Entities : ShapeAt(n, e)

\* A node keeps what it has of e, but for what a crash takes that is not logged.
SameAt(n, e) ==
    /\ node'[n].forwarded[e] = node[n].forwarded[e] /\ node'[n].parked[e] = node[n].parked[e]
    /\ e \in node'[n].logged <=> e \in node[n].logged
    /\ \/ node'[n].owned[e] = node[n].owned[e]
       \/ node'[n].owned[e] = 0 /\ e \notin node[n].logged
NoNewOffer(e) == \A r \in Regions, k \in Nat : Offered(e, r, k)' => Offered(e, r, k)
NoNewAck(e) == \A k \in Nat : Acked(e, k)' => Acked(e, k)

\* An ack without an adoption: the target is past it, or has adopted it before.
Justified(e, k) ==
    \E t \in Nodes : /\ Offered(e, RegionOf[t], k)
                     /\ \/ node[t].forwarded[e] # 0 /\ k <= node[t].forwarded[e]
                        \/ node[t].owned[e] = k
Quiet(e) ==
    /\ \A n \in Nodes : SameAt(n, e)
    /\ NoNewOffer(e)
    /\ \A k \in Nat : Acked(e, k)' => Acked(e, k) \/ Justified(e, k)

\* Node n hands e over to region r.
Hands(e, n, r) ==
    LET k == node[n].owned[e] + 1 IN
    /\ r # RegionOf[n] /\ node[n].owned[e] # 0
    /\ node'[n].owned[e] = 0 /\ e \notin node'[n].logged /\ node'[n].forwarded[e] = k
    /\ node'[n].parked[e] # None /\ node'[n].parked[e].to = r /\ node'[n].parked[e].epoch = k
    /\ \A m \in Nodes \ {n} : SameAt(m, e)
    /\ \A s \in Regions, j \in Nat : Offered(e, s, j)' => Offered(e, s, j) \/ (s = r /\ j = k)
    /\ NoNewAck(e)

\* Node t adopts e at epoch k.
Takes(e, t, k) ==
    /\ k # 0 /\ Offered(e, RegionOf[t], k) /\ node[t].owned[e] = 0
    /\ node[t].forwarded[e] = 0 \/ k > node[t].forwarded[e]
    /\ node'[t].owned[e] = k /\ e \in node'[t].logged
    /\ node'[t].forwarded[e] = 0 /\ node'[t].parked[e] = None
    /\ \A m \in Nodes \ {t} : SameAt(m, e)
    /\ \A m \in Nodes \ {t} : RegionOf[m] = RegionOf[t] =>
          (node[m].owned[e] # 0 \/ node[m].forwarded[e] > k => e \in twins')
    /\ NoNewOffer(e)
    /\ \A j \in Nat : Acked(e, j)' => Acked(e, j) \/ j = k

\* Node n takes an ack of epoch k for one of its own: what it has parked goes.
Forgets(e, n, k) ==
    /\ Acked(e, k)
    /\ node'[n].owned[e] = node[n].owned[e] /\ node'[n].forwarded[e] = node[n].forwarded[e]
    /\ node'[n].parked[e] = None /\ e \notin node'[n].logged
    /\ \A m \in Nodes \ {n} : SameAt(m, e)
    /\ \/ e \in node[n].logged
       \/ node[n].parked[e] # None /\ node[n].parked[e].epoch # k
       => e \in misled'
    /\ NoNewOffer(e) /\ NoNewAck(e)

Affects(e) ==
    \/ Quiet(e)
    \/ \E n \in Nodes, r \in Regions : Hands(e, n, r)
    \/ \E t \in Nodes, k \in Nat : Takes(e, t, k)
    \/ \E n \in Nodes, k \in Nat : Forgets(e, n, k)
Stepped ==
    /\ TypeOK' /\ Wiring' /\ conf' = conf
    /\ misled \subseteq misled' /\ twins \subseteq twins'
    /\ \A e \in Entities : Affects(e)
Base == TypeOK /\ Wiring /\ Shape

LEMMA InitBase == Init => Base
<1> SUFFICES ASSUME Init PROVE Base
    OBVIOUS
<1> DEFINE home(n) == {e \in Entities : conf.home[e] = n}
<1>1. \A n \in Nodes : LET s == node[n] IN
          /\ s \in Process /\ s.phase # "exited" /\ s.spawned = {}
          /\ s.link = [r \in Regions |-> None] /\ s.logged = home(n)
          /\ \A e \in Entities : /\ s.owned[e] = IF e \in home(n) THEN 1 ELSE 0
                                 /\ s.forwarded[e] = 0 /\ s.parked[e] = None
    <2> SUFFICES ASSUME NEW n \in Nodes
                 PROVE  LET s == node[n] IN
          /\ s \in Process /\ s.phase # "exited" /\ s.spawned = {}
          /\ s.link = [r \in Regions |-> None] /\ s.logged = home(n)
          /\ \A e \in Entities : /\ s.owned[e] = IF e \in home(n) THEN 1 ELSE 0
                                 /\ s.forwarded[e] = 0 /\ s.parked[e] = None
        OBVIOUS
    <2>1. node[n] = IF n \in conf.first THEN [Fresh(home(n)) EXCEPT !.phase = "up", !.lease = 1]
                    ELSE Fresh(home(n))
        BY DEF Init
    <2>2. home(n) \in SUBSET Entities
        OBVIOUS
    <2> HIDE DEF home
    <2> DEFINE f == Fresh(home(n))
    <2>3. LET s == f IN
          /\ s \in Process /\ s.phase = "off" /\ s.spawned = {}
          /\ s.link = [r \in Regions |-> None] /\ s.logged = home(n)
          /\ \A e \in Entities : /\ s.owned[e] = IF e \in home(n) THEN 1 ELSE 0
                                 /\ s.forwarded[e] = 0 /\ s.parked[e] = None
        BY <2>2, FreshIs
    <2> HIDE DEF f
    <2>4. CASE node[n] = f
        BY <2>3, <2>4
    <2>5. CASE node[n] = [f EXCEPT !.phase = "up", !.lease = 1]
        <3>1. /\ node[n] \in Process /\ node[n].phase = "up" /\ node[n].spawned = f.spawned
              /\ node[n].link = f.link /\ node[n].logged = f.logged /\ node[n].owned = f.owned
              /\ node[n].forwarded = f.forwarded /\ node[n].parked = f.parked
            <4>1. f \in Process /\ 1 \in Nat
                BY <2>3
            <4>2. LET d == [f EXCEPT !.phase = "up", !.lease = 1] IN
                  /\ d \in Process /\ d.phase = "up" /\ d.spawned = f.spawned
                  /\ d.link = f.link /\ d.logged = f.logged /\ d.owned = f.owned
                  /\ d.forwarded = f.forwarded /\ d.parked = f.parked
                BY <4>1, StartedIs
            <4> QED
                BY <2>5, <4>2
        <3> QED
            BY <2>3, <3>1
    <2> QED
        BY <2>1, <2>4, <2>5 DEF f
<1>2. node \in [Nodes -> Process]
    BY <1>1 DEF Init
<1>3. registry \in [Regions -> Records \cup {None, Torn}]
    <2>1. conf.first \subseteq Nodes
        BY FederationConstants DEF Init
    <2> QED
        BY <2>1 DEF Init, Records
<1>4. TypeOK
    <2>1. frames \in [Conns -> Seq(Frames)] /\ acks \in [Conns -> Seq(Acks)]
        <3>1. <<>> \in Seq(Frames) /\ <<>> \in Seq(Acks)
            OBVIOUS
        <3> QED
            BY <3>1 DEF Init
    <2>2. handle \in [Nodes -> Nodes \cup {None}] /\ dying \subseteq Conns
        BY DEF Init
    <2>3. spent \in [starts : Nat, crashes : Nat, freezes : Nat, cuts : Nat, drains : Nat,
                    moves : Nat]
        BY DEF Init
    <2>4. conf \in Deployments /\ misled \subseteq Entities /\ twins \subseteq Entities
        BY DEF Init
    <2> QED
        BY <1>2, <1>3, <2>1, <2>2, <2>3, <2>4 DEF TypeOK
<1>5. Wiring
    <2>1. \A c \in Conns : frames[c] = <<>>
        BY DEF Init
    <2> QED
        BY <1>1, <2>1 DEF Wiring
<1>6. Shape
    <2> HIDE DEF home
    <2>1. \A n \in Nodes, e \in Entities :
              /\ node[n].forwarded[e] = 0 /\ node[n].parked[e] = None
              /\ e \in node[n].logged <=> e \in home(n)
              /\ node[n].owned[e] # 0 <=> e \in home(n)
        BY <1>1
    <2> QED
        BY <2>1 DEF Shape, ShapeAt
<1> QED
    BY <1>4, <1>5, <1>6 DEF Base

\* Steps that leave alone what nodes have of entities and what is in flight.
LEMMA Idle ==
    ASSUME TypeOK', Wiring', UNCHANGED <<conf, frames, acks, past>>,
           \A n \in Nodes : /\ node'[n].owned = node[n].owned /\ node'[n].logged = node[n].logged
                            /\ node'[n].forwarded = node[n].forwarded
                            /\ node'[n].parked = node[n].parked
    PROVE  Stepped
<1>1. ASSUME NEW e \in Entities PROVE Quiet(e)
    <2>1. \A n \in Nodes : SameAt(n, e)
        BY DEF SameAt
    <2>2. NoNewOffer(e)
        BY DEF NoNewOffer, Offered
    <2>3. \A k \in Nat : Acked(e, k)' => Acked(e, k)
        BY DEF Acked
    <2> QED
        BY <2>1, <2>2, <2>3 DEF Quiet
<1> QED
    BY <1>1 DEF Stepped, Affects, past

Counters == [starts : Nat, crashes : Nat, freezes : Nat, cuts : Nat, drains : Nat, moves : Nat]
LEMMA SpendType ==
    ASSUME TypeOK, NEW what \in {"starts", "crashes", "freezes", "cuts", "drains", "moves"},
           Spend(what)
    PROVE  spent' \in Counters
<1>1. spent \in Counters
    BY DEF TypeOK, Counters
<1>2. CASE what = "starts"
    BY <1>1, <1>2 DEF Spend, Counters
<1>3. CASE what = "crashes"
    BY <1>1, <1>3 DEF Spend, Counters
<1>4. CASE what = "freezes"
    BY <1>1, <1>4 DEF Spend, Counters
<1>5. CASE what = "cuts"
    BY <1>1, <1>5 DEF Spend, Counters
<1>6. CASE what = "drains"
    BY <1>1, <1>6 DEF Spend, Counters
<1>7. CASE what = "moves"
    BY <1>1, <1>7 DEF Spend, Counters
<1> QED
    BY <1>2, <1>3, <1>4, <1>5, <1>6, <1>7

\* One node steps, and nothing of entities changes.
IdlesAt(n, d) ==
    /\ node' = [node EXCEPT ![n] = d]
    /\ UNCHANGED <<conf, frames, acks, past>>
    /\ registry' \in [Regions -> Records \cup {None, Torn}] /\ dying' \subseteq Conns
    /\ handle' \in [Nodes -> Nodes \cup {None}] /\ spent' \in Counters
    /\ d.owned = node[n].owned /\ d.logged = node[n].logged
    /\ d.forwarded = node[n].forwarded /\ d.parked = node[n].parked
    /\ d.phase = node[n].phase \/ (node[n].phase # "up" /\ d.phase = "up")
    /\ RegionOf[n] \notin d.spawned
    /\ \A r \in Regions : LET k == d.link[r] IN
          \/ k = None \/ k = node[n].link[r]
          \/ r # RegionOf[n] /\ RegionOf[k.at] = r /\ k.at \in Nodes /\ Up(k.at)
LEMMA IdleAt ==
    ASSUME Base, NEW n \in Nodes, NEW d \in Process, IdlesAt(n, d)
    PROVE  Stepped
<1> USE DEF IdlesAt
<1>1. /\ node \in [Nodes -> Process]
      /\ node'[n] = d /\ \A m \in Nodes \ {n} : node'[m] = node[m]
    BY DEF Base, TypeOK
<1>2. TypeOK'
    BY <1>1 DEF Base, TypeOK, Counters, past
<1>3. \A m \in Nodes : Up(m) => Up(m)'
    BY <1>1 DEF Up
<1>4. Wiring'
    <2>1. \A m \in Nodes : RegionOf[m] \notin node'[m].spawned
        BY <1>1 DEF Base, Wiring
    <2>2. ASSUME NEW m \in Nodes, NEW r \in Regions, node'[m].link[r] # None
          PROVE  /\ r # RegionOf[m] /\ RegionOf[node'[m].link[r].at] = r
                 /\ node'[m].link[r].up => Up(node[m].link[r].at)'
        <3>1. CASE node'[m].link[r] = node[m].link[r]
            <4>1. node[m].link[r].at \in Nodes
                BY <2>2, <3>1 DEF Base, TypeOK, Process, Link
            <4> QED
                BY <1>3, <2>2, <3>1, <4>1 DEF Base, Wiring
        <3>2. CASE node'[m].link[r] # node[m].link[r]
            BY <1>1, <1>3, <2>2, <3>2
        <3> QED
            BY <3>1, <3>2
    <2>3. \A c \in Conns : frames'[c] # <<>> => Up(c[2])'
        BY <1>3 DEF Base, Wiring, Conns
    <2>4. \A m \in Nodes : node'[m].phase = "exited" =>
              \A e \in Entities :
                 node'[m].owned[e] = 0 /\ node'[m].parked[e] = None /\ e \notin node'[m].logged
        BY <1>1 DEF Base, Wiring
    <2> QED
        BY <2>1, <2>2, <2>3, <2>4 DEF Wiring
<1> QED
    BY <1>1, <1>2, <1>4, Idle

\* What all idle steps at a node have in common.
LEMMA AtNode ==
    ASSUME Base, NEW n \in Nodes
    PROVE  /\ node[n] \in Process /\ RegionOf[n] \in Regions
           /\ registry \in [Regions -> Records \cup {None, Torn}] /\ dying \subseteq Conns
           /\ handle \in [Nodes -> Nodes \cup {None}] /\ spent \in Counters
           /\ RegionOf[n] \notin node[n].spawned
BY FederationConstants DEF Base, TypeOK, Counters, Wiring

LEMMA StartStep == ASSUME Base, NEW n \in Nodes, Start(n) PROVE Stepped
<1> DEFINE lease == Claimed(RegionOf[n])
           d == [node[n] EXCEPT !.phase = "up", !.lease = lease]
<1>1. lease \in Nat
    BY AtNode DEF Claimed, RecordedLease, Recorded, Records
<1>2. node' = [node EXCEPT ![n] = d]
    BY AtNode DEF Start, Base, TypeOK
<1>3. spent' \in Counters
    BY SpendType DEF Start, Base
<1> HIDE DEF lease
<1>4. /\ d \in Process /\ d.phase = "up" /\ d.spawned = node[n].spawned
      /\ d.link = node[n].link /\ d.logged = node[n].logged /\ d.owned = node[n].owned
      /\ d.forwarded = node[n].forwarded /\ d.parked = node[n].parked
    <2>1. node[n] \in Process
        BY AtNode
    <2> QED
        BY <1>1, <2>1, StartedIs
<1> HIDE DEF d
<1>5. node[n].phase # "up"
    BY DEF Start
<1>6. UNCHANGED <<conf, registry, wire, past>>
    BY DEF Start
<1>7. IdlesAt(n, d)
    BY <1>2, <1>3, <1>4, <1>5, <1>6, AtNode DEF wire, IdlesAt
<1> QED
    BY <1>4, <1>7, IdleAt

LEMMA FreezeStep == ASSUME Base, NEW n \in Nodes, Freeze(n) \/ Thaw(n) PROVE Stepped
<1>1. PICK frozen \in BOOLEAN : node' = [node EXCEPT ![n].frozen = frozen]
    BY DEF Freeze, Thaw
<1> DEFINE d == [node[n] EXCEPT !.frozen = frozen]
<1>2. /\ d \in Process /\ d.phase = node[n].phase /\ d.spawned = node[n].spawned
      /\ d.link = node[n].link /\ d.logged = node[n].logged /\ d.owned = node[n].owned
      /\ d.forwarded = node[n].forwarded /\ d.parked = node[n].parked
    <2>1. node[n] \in Process
        BY AtNode
    <2> QED
        BY <2>1 DEF Process
<1>3. node' = [node EXCEPT ![n] = d]
    BY <1>1
<1> HIDE DEF d
<1>4. UNCHANGED <<conf, registry, wire, past>>
    BY DEF Freeze, Thaw
<1>5. spent' \in Counters
    BY AtNode, SpendType DEF Freeze, Thaw, Base
<1>6. IdlesAt(n, d)
    BY <1>2, <1>3, <1>4, <1>5, AtNode DEF wire, IdlesAt
<1> QED
    BY <1>2, <1>6, IdleAt

LEMMA DiscoversStep ==
    ASSUME Base, NEW n \in Nodes, NEW reg \in [Regions -> Records \cup {None, Torn}],
           registry' = reg, Discovers(n, reg), UNCHANGED <<conf, wire, spent, past>>
    PROVE  Stepped
<1> DEFINE s == node[n]
           others == Regions \ {RegionOf[n]}
           known(fresh) == [r \in Regions |->
               IF r \in fresh THEN Max({s.known[r], reg[r].lease}) ELSE s.known[r]]
           d(fresh) == [s EXCEPT !.task = "rest", !.fenced = s.fenced \/ Superseded(n, reg),
                                 !.known = known(fresh), !.spawned = s.spawned \cup fresh]
<1>1. PICK fresh \in SUBSET {r \in others : MayBeFresh(reg, r)} :
          node' = [node EXCEPT ![n] = d(fresh)]
    BY DEF Discovers
<1>2. /\ s \in Process /\ s.known \in [Regions -> Nat]
      /\ s.fenced \in BOOLEAN /\ s.spawned \in SUBSET Regions
    BY AtNode DEF Process
<1>3. known(fresh) \in [Regions -> Nat]
    <2>1. \A r \in fresh : reg[r].lease \in Nat
        BY DEF MayBeFresh, Records
    <2>2. ASSUME NEW r \in fresh PROVE Max({s.known[r], reg[r].lease}) \in Nat
        <3>1. s.known[r] \in Nat /\ reg[r].lease \in Nat
            BY <1>2, <2>1
        <3>2. \A i, j \in Nat : Max({i, j}) \in Nat
            BY MaxOfTwo
        <3> HIDE DEF s
        <3> QED
            BY <3>1, <3>2
    <2> QED
        BY <1>2, <2>2
<1>4. s.spawned \cup fresh \in SUBSET Regions /\ (s.fenced \/ Superseded(n, reg)) \in BOOLEAN
    BY <1>2
<1>5. RegionOf[n] \notin s.spawned \cup fresh
    BY AtNode
<1> HIDE DEF known
<1>6. LET e == d(fresh) IN
      /\ e \in Process /\ e.phase = s.phase /\ e.spawned = s.spawned \cup fresh
      /\ e.link = s.link /\ e.logged = s.logged /\ e.owned = s.owned
      /\ e.forwarded = s.forwarded /\ e.parked = s.parked
    BY <1>2, <1>3, <1>4 DEF Process
<1> HIDE DEF d
<1>7. spent' \in Counters
    BY AtNode
<1>8. IdlesAt(n, d(fresh))
    BY <1>1, <1>5, <1>6, <1>7, AtNode DEF wire, IdlesAt
<1> QED
    BY <1>6, <1>8, IdleAt

LEMMA RecordType ==
    ASSUME Base, NEW n \in Nodes
    PROVE  Record(n) \in [Regions -> Records \cup {None, Torn}]
<1>1. [at |-> n, lease |-> node[n].lease] \in Records
    BY AtNode DEF Process, Records
<1> QED
    BY <1>1, AtNode DEF Record

LEMMA TickStep == ASSUME Base, NEW n \in Nodes, Tick(n) PROVE Stepped
<1>1. registry' \in [Regions -> Records \cup {None, Torn}]
    BY RecordType, AtNode DEF Tick, RecordUnlessNewer
<1>2. Discovers(n, registry') /\ UNCHANGED <<conf, wire, spent, past>>
    BY DEF Tick
<1> DEFINE reg == registry'
<1>3. reg \in [Regions -> Records \cup {None, Torn}] /\ registry' = reg /\ Discovers(n, reg)
    BY <1>1, <1>2
<1> HIDE DEF reg
<1> QED
    BY <1>2, <1>3, DiscoversStep

LEMMA ReadStep == ASSUME Base, NEW n \in Nodes, Read(n) PROVE Stepped
<1>1. registry' = registry /\ Discovers(n, registry) /\ UNCHANGED <<conf, wire, spent, past>>
    BY DEF Read
<1> QED
    BY <1>1, AtNode, DiscoversStep

LEMMA TaskStep ==
    ASSUME Base, NEW n \in Nodes, Heartbeat(n) \/ Truncate(n) \/ Write(n) PROVE Stepped
<1>1. PICK task \in {"rest", "write", "torn", "read"} : node' = [node EXCEPT ![n].task = task]
    BY DEF Heartbeat, Truncate, Write
<1> DEFINE d == [node[n] EXCEPT !.task = task]
<1>2. /\ d \in Process /\ d.phase = node[n].phase /\ d.spawned = node[n].spawned
      /\ d.link = node[n].link /\ d.logged = node[n].logged /\ d.owned = node[n].owned
      /\ d.forwarded = node[n].forwarded /\ d.parked = node[n].parked
    <2>1. node[n] \in Process
        BY AtNode
    <2> QED
        BY <2>1 DEF Process
<1>3. node' = [node EXCEPT ![n] = d]
    BY <1>1
<1> HIDE DEF d
<1>4. UNCHANGED <<conf, wire, spent, past>>
    BY DEF Heartbeat, Truncate, Write
<1>5. registry' \in [Regions -> Records \cup {None, Torn}]
    BY RecordType, AtNode DEF Heartbeat, Truncate, Write
<1>6. IdlesAt(n, d)
    BY <1>2, <1>3, <1>4, <1>5, AtNode DEF wire, IdlesAt
<1> QED
    BY <1>2, <1>6, IdleAt

LEMMA ConnectStep ==
    ASSUME Base, NEW n \in Nodes, NEW r \in Regions, Connect(n, r) PROVE Stepped
<1> DEFINE t == registry[r].at
           k == [at |-> t, up |-> TRUE]
           links == [node[n].link EXCEPT ![r] = k]
           d == [node[n] EXCEPT !.link = links]
<1>1. t \in Nodes /\ Up(t) /\ RegionOf[t] = r /\ r # RegionOf[n]
    BY AtNode DEF Connect, Recorded, Records
<1>2. k \in Link /\ node[n].link \in [Regions -> Link \cup {None}]
    BY <1>1, AtNode DEF Link, Process
<1>3. links \in [Regions -> Link \cup {None}]
    BY <1>2
<1>4. node' = [node EXCEPT ![n] = d]
    BY DEF Connect
<1>5. \A q \in Regions : \/ links[q] = node[n].link[q]
                         \/ q # RegionOf[n] /\ RegionOf[links[q].at] = q /\ links[q].at \in Nodes
                            /\ Up(links[q].at)
    BY <1>1, <1>2
<1> HIDE DEF links
<1>6. /\ d \in Process /\ d.link = links /\ d.phase = node[n].phase /\ d.spawned = node[n].spawned
      /\ d.owned = node[n].owned /\ d.logged = node[n].logged
      /\ d.forwarded = node[n].forwarded /\ d.parked = node[n].parked
    BY <1>3, AtNode, LinkedAs
<1> HIDE DEF d
<1>7. handle' \in [Nodes -> Nodes \cup {None}] /\ dying' = dying /\ registry' = registry
    BY <1>1, AtNode DEF Connect
<1>8. UNCHANGED <<conf, frames, acks, past>> /\ spent' = spent
    BY DEF Connect
<1>9. \A q \in Regions : LET l == d.link[q] IN
          \/ l = None \/ l = node[n].link[q]
          \/ q # RegionOf[n] /\ RegionOf[l.at] = q /\ l.at \in Nodes /\ Up(l.at)
    BY <1>5, <1>6
<1>10. IdlesAt(n, d)
    BY <1>4, <1>6, <1>7, <1>8, <1>9, AtNode DEF IdlesAt
<1> QED
    BY <1>6, <1>10, IdleAt

LEMMA NoticeStep ==
    ASSUME Base, NEW n \in Nodes, NEW r \in Regions, Notice(n, r) PROVE Stepped
<1> DEFINE links == [node[n].link EXCEPT ![r] = None]
           d == [node[n] EXCEPT !.link = links]
<1>1. links \in [Regions -> Link \cup {None}]
    BY AtNode DEF Process
<1>2. \A q \in Regions : links[q] = None \/ links[q] = node[n].link[q]
    BY AtNode DEF Process
<1>3. node' = [node EXCEPT ![n] = d]
    BY DEF Notice
<1> HIDE DEF links
<1>4. /\ d \in Process /\ d.link = links /\ d.phase = node[n].phase /\ d.spawned = node[n].spawned
      /\ d.owned = node[n].owned /\ d.logged = node[n].logged
      /\ d.forwarded = node[n].forwarded /\ d.parked = node[n].parked
    BY <1>1, AtNode, LinkedAs
<1> HIDE DEF d
<1>5. UNCHANGED <<conf, registry, wire, spent, past>>
    BY DEF Notice
<1>6. IdlesAt(n, d)
    BY <1>2, <1>3, <1>4, <1>5, AtNode DEF wire, IdlesAt
<1> QED
    BY <1>4, <1>6, IdleAt

LEMMA TeardownStep == ASSUME Base, NEW c \in Conns, Teardown(c) PROVE Stepped
<1>1. handle' \in [Nodes -> Nodes \cup {None}] /\ dying' \subseteq Conns
    BY DEF Teardown, Base, TypeOK, Conns
<1>2. UNCHANGED <<conf, node, registry, frames, acks, spent, past>>
    BY DEF Teardown
<1>3. TypeOK'
    BY <1>1, <1>2 DEF Base, TypeOK, past
<1>4. Wiring'
    BY <1>2 DEF Base, Wiring, Up
<1> QED
    BY <1>2, <1>3, <1>4, Idle

\* What is in flight may be lost.
LEMMA Lost ==
    ASSUME \A c \in Conns : frames'[c] \in {frames[c], <<>>} /\ acks'[c] \in {acks[c], <<>>},
           \A n \in Nodes : node'[n].parked = node[n].parked
    PROVE  \A e : NoNewOffer(e) /\ NoNewAck(e)
<1> SUFFICES ASSUME NEW e PROVE NoNewOffer(e) /\ NoNewAck(e)
    OBVIOUS
<1>1. \A c \in Conns : ToSet(frames'[c]) \subseteq ToSet(frames[c])
    BY DEF ToSet
<1>2. \A c \in Conns : ToSet(acks'[c]) \subseteq ToSet(acks[c])
    BY DEF ToSet
<1>3. NoNewOffer(e)
    BY <1>1 DEF NoNewOffer, Offered
<1> QED
    BY <1>2, <1>3 DEF NoNewAck, Acked

LEMMA BreakStep == ASSUME Base, NEW n \in Nodes, NEW t \in Nodes, Break(n, t) PROVE Stepped
<1> DEFINE r == RegionOf[t]
           k == [node[n].link[r] EXCEPT !.up = FALSE]
           links == [node[n].link EXCEPT ![r] = k]
           d == [node[n] EXCEPT !.link = links]
<1>1. node[n].link[r] = [at |-> t, up |-> TRUE] /\ node[n].link[r] \in Link
    BY DEF Break, Linked, Link
<1>2. r # RegionOf[n] /\ <<n, t>> \in Conns /\ r \in Regions
    BY <1>1, AtNode, FederationConstants DEF Base, Wiring, Conns
<1>3. k \in Link /\ k.at = t /\ k.up = FALSE
    <2> DEFINE l == node[n].link[r]
    <2>1. l \in Link /\ l.at = t
        BY <1>1
    <2> HIDE DEF l
    <2>2. [l EXCEPT !.up = FALSE] \in Link /\ [l EXCEPT !.up = FALSE].at = t
          /\ [l EXCEPT !.up = FALSE].up = FALSE
        BY <2>1 DEF Link
    <2> QED
        BY <2>2 DEF l
<1>4. links \in [Regions -> Link \cup {None}]
    BY <1>3, AtNode DEF Process
<1>5. links[r] = k /\ \A q \in Regions \ {r} : links[q] = node[n].link[q]
    BY <1>2, AtNode DEF Process
<1>6. node' = [node EXCEPT ![n] = d]
    BY DEF Break
<1> HIDE DEF links
<1>7. /\ d \in Process /\ d.link = links /\ d.phase = node[n].phase /\ d.spawned = node[n].spawned
      /\ d.owned = node[n].owned /\ d.logged = node[n].logged
      /\ d.forwarded = node[n].forwarded /\ d.parked = node[n].parked
    BY <1>4, AtNode, LinkedAs
<1> HIDE DEF d, k
<1>8. /\ node \in [Nodes -> Process] /\ node' \in [Nodes -> Process]
      /\ node'[n] = d /\ \A m \in Nodes \ {n} : node'[m] = node[m]
    BY <1>6, <1>7 DEF Base, TypeOK
<1>9. \A m \in Nodes : LET s == node[m] IN
          /\ node'[m].phase = s.phase /\ node'[m].spawned = s.spawned
          /\ node'[m].owned = s.owned /\ node'[m].logged = s.logged
          /\ node'[m].forwarded = s.forwarded /\ node'[m].parked = s.parked
    BY <1>7, <1>8
<1>10. /\ frames' \in [Conns -> Seq(Frames)] /\ acks' \in [Conns -> Seq(Acks)]
       /\ \A c \in Conns : frames'[c] \in {frames[c], <<>>} /\ acks'[c] \in {acks[c], <<>>}
    <2>1. <<>> \in Seq(Frames) /\ <<>> \in Seq(Acks)
        OBVIOUS
    <2> QED
        BY <1>2, <2>1 DEF Break, Base, TypeOK
<1>11. dying' \subseteq Conns /\ spent' \in Counters
    BY <1>2, SpendType DEF Break, Base, TypeOK
<1>12. UNCHANGED <<conf, registry, handle, past>>
    BY DEF Break
<1>13. TypeOK'
    BY <1>8, <1>10, <1>11, <1>12 DEF Base, TypeOK, Counters, past
<1>14. Wiring'
    <2>1. ASSUME NEW m \in Nodes, NEW q \in Regions, node'[m].link[q] # None
          PROVE  /\ q # RegionOf[m] /\ RegionOf[node'[m].link[q].at] = q
                 /\ node'[m].link[q].up => Up(node[m].link[q].at)'
        <3>1. CASE m = n /\ q = r
            BY <1>2, <1>3, <1>5, <1>7, <1>8, <3>1
        <3>2. CASE ~(m = n /\ q = r)
            <4>1. node'[m].link[q] = node[m].link[q]
                BY <1>5, <1>7, <1>8, <3>2
            <4>2. node[m].link[q].at \in Nodes
                BY <1>8, <2>1, <4>1 DEF Process, Link
            <4> QED
                BY <1>9, <2>1, <4>1, <4>2 DEF Base, Wiring, Up
        <3> QED
            BY <3>1, <3>2
    <2>2. \A c \in Conns : frames'[c] # <<>> => Up(c[2])'
        BY <1>9, <1>10 DEF Base, Wiring, Conns, Up
    <2>3. \A m \in Nodes : RegionOf[m] \notin node'[m].spawned
        BY <1>9 DEF Base, Wiring
    <2>4. \A m \in Nodes : node'[m].phase = "exited" =>
              \A e \in Entities :
                 node'[m].owned[e] = 0 /\ node'[m].parked[e] = None /\ e \notin node'[m].logged
        BY <1>9 DEF Base, Wiring
    <2> QED
        BY <2>1, <2>2, <2>3, <2>4 DEF Wiring
<1>15. \A e : NoNewOffer(e) /\ NoNewAck(e)
    BY <1>9, <1>10, Lost
<1>16. \A m \in Nodes, e \in Entities : SameAt(m, e)
    BY <1>9 DEF SameAt
<1> QED
    BY <1>12, <1>13, <1>14, <1>15, <1>16 DEF Stepped, Affects, Quiet, NoNewAck, past

\* A process goes: what is logged stays, what is in flight to it and from it is lost.
Goes(n, d) ==
    /\ d.phase # "up" /\ d.spawned = {} /\ d.link = [r \in Regions |-> None]
    /\ d.logged = node[n].logged /\ d.forwarded = node[n].forwarded /\ d.parked = node[n].parked
    /\ \A e \in Entities : d.owned[e] = IF e \in node[n].logged THEN node[n].owned[e] ELSE 0
    /\ d.phase = "exited" => \A e \in Entities :
           d.owned[e] = 0 /\ d.parked[e] = None /\ e \notin d.logged
    /\ node' = Cut([node EXCEPT ![n] = d], n) /\ Hangup(n) /\ spent' \in Counters
    /\ UNCHANGED <<conf, registry, past>>

LEMMA GoneStep ==
    ASSUME Base, NEW n \in Nodes, NEW d \in Process, Goes(n, d) PROVE Stepped
<1> DEFINE s == [node EXCEPT ![n] = d]
<1>1. /\ node \in [Nodes -> Process] /\ s \in [Nodes -> Process] /\ s[n] = d
      /\ \A m \in Nodes \ {n} : s[m] = node[m]
    BY DEF Base, TypeOK
<1>0. node' = Cut(s, n)
    BY DEF Goes
<1> HIDE DEF s
<1>2. /\ node' \in [Nodes -> Process] /\ node'[n] = s[n]
      /\ \A m \in Nodes : LET x == node'[m] IN
            /\ x.phase = s[m].phase /\ x.spawned = s[m].spawned
            /\ x.owned = s[m].owned /\ x.logged = s[m].logged
            /\ x.forwarded = s[m].forwarded /\ x.parked = s[m].parked
      /\ \A m \in Nodes \ {n}, r \in Regions : LET k == s[m].link[r] IN
            node'[m].link[r] = IF k # None /\ k.at = n THEN [k EXCEPT !.up = FALSE] ELSE k
    <2>1. s \in [Nodes -> Process]
        BY <1>1
    <2>2. /\ Cut(s, n) \in [Nodes -> Process] /\ Cut(s, n)[n] = s[n]
          /\ \A m \in Nodes : LET x == Cut(s, n)[m] IN
                /\ x.phase = s[m].phase /\ x.spawned = s[m].spawned
                /\ x.owned = s[m].owned /\ x.logged = s[m].logged
                /\ x.forwarded = s[m].forwarded /\ x.parked = s[m].parked
          /\ \A m \in Nodes \ {n}, r \in Regions : LET k == s[m].link[r] IN
                Cut(s, n)[m].link[r] =
                    IF k # None /\ k.at = n THEN [k EXCEPT !.up = FALSE] ELSE k
        BY <2>1, CutIs
    <2> QED
        BY <1>0, <2>2
<1>3. \A m \in Nodes \ {n} : LET x == node'[m] IN
          /\ x.phase = node[m].phase /\ x.spawned = node[m].spawned
          /\ x.owned = node[m].owned /\ x.logged = node[m].logged
          /\ x.forwarded = node[m].forwarded /\ x.parked = node[m].parked
    BY <1>1, <1>2
<1>4. node'[n] = d
    BY <1>1, <1>2
<1>5. /\ frames' \in [Conns -> Seq(Frames)] /\ acks' \in [Conns -> Seq(Acks)]
      /\ \A c \in Conns : /\ frames'[c] = IF n \in {c[1], c[2]} THEN <<>> ELSE frames[c]
                          /\ acks'[c] = IF n \in {c[1], c[2]} THEN <<>> ELSE acks[c]
    <2>1. <<>> \in Seq(Frames) /\ <<>> \in Seq(Acks)
        OBVIOUS
    <2> QED
        BY <2>1 DEF Goes, Hangup, Base, TypeOK
<1>6. handle' \in [Nodes -> Nodes \cup {None}] /\ dying' \subseteq Conns
    BY DEF Goes, Hangup, Base, TypeOK
<1>7. TypeOK'
    BY <1>2, <1>5, <1>6 DEF Goes, Base, TypeOK, Counters, past
<1>8. Wiring'
    <2>1. ASSUME NEW m \in Nodes, NEW q \in Regions, node'[m].link[q] # None
          PROVE  /\ q # RegionOf[m] /\ RegionOf[node'[m].link[q].at] = q
                 /\ node'[m].link[q].up => Up(node[m].link[q].at)'
        <3>1. m # n
            BY <1>4, <2>1 DEF Goes
        <3>2. node[m].link[q] \in Link \cup {None}
            BY <1>1 DEF Process
        <3>3. CASE node[m].link[q] # None /\ node[m].link[q].at = n
            <4>1. node'[m].link[q] = [node[m].link[q] EXCEPT !.up = FALSE]
                BY <1>1, <1>2, <3>1, <3>3
            <4>2. node'[m].link[q].at = node[m].link[q].at /\ node'[m].link[q].up = FALSE
                BY <3>2, <3>3, <4>1 DEF Link
            <4> QED
                BY <3>3, <4>2 DEF Base, Wiring
        <3>4. CASE ~(node[m].link[q] # None /\ node[m].link[q].at = n)
            <4>1. node'[m].link[q] = node[m].link[q]
                <5>1. s[m] = node[m]
                    BY <1>1, <3>1
                <5>2. ~(s[m].link[q] # None /\ s[m].link[q].at = n)
                    BY <3>4, <5>1
                <5> QED
                    BY <1>2, <3>1, <5>1, <5>2
            <4>2. node[m].link[q].at \in Nodes \ {n}
                BY <2>1, <3>2, <3>4, <4>1 DEF Link
            <4> QED
                BY <1>3, <2>1, <4>1, <4>2 DEF Base, Wiring, Up
        <3> QED
            BY <3>3, <3>4
    <2>2. \A c \in Conns : frames'[c] # <<>> => Up(c[2])'
        BY <1>3, <1>5 DEF Base, Wiring, Conns, Up
    <2>3. \A m \in Nodes : RegionOf[m] \notin node'[m].spawned
        BY <1>3, <1>4 DEF Base, Wiring, Goes
    <2>4. \A m \in Nodes : node'[m].phase = "exited" =>
              \A e \in Entities :
                 node'[m].owned[e] = 0 /\ node'[m].parked[e] = None /\ e \notin node'[m].logged
        <3>1. ASSUME NEW m \in Nodes \ {n}, node'[m].phase = "exited", NEW e \in Entities
              PROVE  node'[m].owned[e] = 0 /\ node'[m].parked[e] = None /\ e \notin node'[m].logged
            BY <1>3, <3>1 DEF Base, Wiring
        <3> QED
            BY <1>4, <3>1 DEF Goes
    <2> QED
        BY <2>1, <2>2, <2>3, <2>4 DEF Wiring
<1>9. \A e : NoNewOffer(e) /\ NoNewAck(e)
    <2>1. \A m \in Nodes : node'[m].parked = node[m].parked
        BY <1>3, <1>4 DEF Goes
    <2> QED
        BY <1>5, <2>1, Lost
<1>10. \A m \in Nodes, e \in Entities : SameAt(m, e)
    <2>1. ASSUME NEW m \in Nodes \ {n}, NEW e \in Entities PROVE SameAt(m, e)
        BY <1>3 DEF SameAt
    <2>2. ASSUME NEW e \in Entities PROVE SameAt(n, e)
        BY <1>4 DEF SameAt, Goes
    <2> QED
        BY <2>1, <2>2
<1> QED
    BY <1>7, <1>8, <1>9, <1>10 DEF Stepped, Affects, Quiet, NoNewAck, Goes, past

LEMMA CrashStep == ASSUME Base, NEW n \in Nodes, Crash(n) PROVE Stepped
<1> DEFINE d == Recovered(node[n])
<1>1. /\ d \in Process
      /\ d.phase = "off" /\ d.spawned = {} /\ d.link = [r \in Regions |-> None]
      /\ d.logged = node[n].logged /\ d.forwarded = node[n].forwarded /\ d.parked = node[n].parked
      /\ \A e \in Entities : d.owned[e] = IF e \in node[n].logged THEN node[n].owned[e] ELSE 0
    BY AtNode, RecoveredIs
<1>2. node' = Cut([node EXCEPT ![n] = d], n) /\ Hangup(n) /\ UNCHANGED <<conf, registry, past>>
    BY DEF Crash
<1>3. spent' \in Counters
    BY SpendType DEF Crash, Base
<1> HIDE DEF d
<1> QED
    BY <1>1, <1>2, <1>3, GoneStep DEF Goes

LEMMA DrainExitStep == ASSUME Base, NEW n \in Nodes, DrainExit(n) PROVE Stepped
<1> DEFINE f == Recovered(node[n])
           d == [f EXCEPT !.phase = "exited"]
<1>1. /\ f \in Process
      /\ f.spawned = {} /\ f.link = [r \in Regions |-> None]
      /\ f.logged = node[n].logged /\ f.forwarded = node[n].forwarded /\ f.parked = node[n].parked
      /\ \A e \in Entities : f.owned[e] = IF e \in node[n].logged THEN node[n].owned[e] ELSE 0
    BY AtNode, RecoveredIs
<1>2. node' = Cut([node EXCEPT ![n] = d], n) /\ Hangup(n) /\ UNCHANGED <<conf, registry, spent, past>>
    BY DEF DrainExit
<1>3. spent' \in Counters
    BY <1>2, AtNode
<1> HIDE DEF f
<1>4. /\ d \in Process /\ d.phase = "exited" /\ d.spawned = f.spawned /\ d.link = f.link
      /\ d.logged = f.logged /\ d.forwarded = f.forwarded /\ d.parked = f.parked
      /\ d.owned = f.owned
    BY <1>1 DEF Process
<1> HIDE DEF d
<1>5. \A e \in Entities : node[n].owned[e] = 0 /\ node[n].parked[e] = None
    BY DEF DrainExit, OwnedBy, EmptyHanded
<1>6. \A e \in Entities : e \notin node[n].logged
    BY <1>5 DEF Base, Shape, ShapeAt
<1> QED
    BY <1>1, <1>2, <1>3, <1>4, <1>5, <1>6, GoneStep DEF Goes

\* Node n parks the entities of S for region r, and may send them.
HandsOver(n, s, S, r) ==
    LET d == Departed(s, S, r) IN
    /\ s.phase = node[n].phase /\ s.spawned = node[n].spawned /\ s.link = node[n].link
    /\ s.owned = node[n].owned /\ s.logged = node[n].logged
    /\ s.forwarded = node[n].forwarded /\ s.parked = node[n].parked
    /\ Up(n) /\ (S # {} => node[n].link[r] # None)
    /\ \A e \in S : node[n].owned[e] # 0
    /\ node' = [node EXCEPT ![n] = d] /\ frames' = Sent(n, d, S, r)
    /\ UNCHANGED <<conf, registry, acks, handle, dying, past>> /\ spent' \in Counters

LEMMA LinkIs ==
    ASSUME Base, NEW n \in Nodes, NEW r \in Regions, node[n].link[r] # None
    PROVE  LET k == node[n].link[r] IN
           /\ k \in Link /\ k.at \in Nodes /\ RegionOf[k.at] = r /\ r # RegionOf[n]
           /\ <<n, k.at>> \in Conns /\ (k.up => Up(k.at))
<1>1. node[n].link[r] \in Link
    BY AtNode DEF Process
<1> QED
    BY <1>1 DEF Link, Base, Wiring, Conns

LEMMA HandsOverStep ==
    ASSUME Base, NEW n \in Nodes, NEW s \in Process, NEW S \in SUBSET Entities,
           NEW r \in Regions, HandsOver(n, s, S, r)
    PROVE  Stepped
<1> DEFINE d == Departed(s, S, r)
           epoch(e) == node[n].owned[e] + 1
<1>1. /\ d \in Process
      /\ d.phase = node[n].phase /\ d.spawned = node[n].spawned /\ d.link = node[n].link
      /\ d.logged = node[n].logged \ S
      /\ \A e \in S : /\ d.owned[e] = 0
                      /\ d.forwarded[e] = Max({node[n].forwarded[e], epoch(e)})
                      /\ d.parked[e] = [to |-> r, epoch |-> epoch(e), lease |-> s.lease]
      /\ \A e \in Entities \ S : /\ d.owned[e] = node[n].owned[e]
                                 /\ d.forwarded[e] = node[n].forwarded[e]
                                 /\ d.parked[e] = node[n].parked[e]
    <2>1. /\ s.phase = node[n].phase /\ s.spawned = node[n].spawned /\ s.link = node[n].link
          /\ s.owned = node[n].owned /\ s.logged = node[n].logged
          /\ s.forwarded = node[n].forwarded /\ s.parked = node[n].parked
        BY DEF HandsOver
    <2>2. DepartsAs(s, S, r, d)
        BY DepartedIs
    <2> HIDE DEF d
    <2> QED
        BY <2>1, <2>2 DEF DepartsAs
<1>2. node' = [node EXCEPT ![n] = d] /\ frames' = Sent(n, d, S, r)
    BY DEF HandsOver
<1> HIDE DEF d
<1>3. /\ node \in [Nodes -> Process] /\ node' \in [Nodes -> Process]
      /\ node'[n] = d /\ \A m \in Nodes \ {n} : node'[m] = node[m]
    BY <1>1, <1>2 DEF Base, TypeOK
<1>4. ASSUME NEW e \in S
      PROVE  /\ node[n].owned[e] # 0 /\ epoch(e) \in Nat /\ d.owned[e] = 0
             /\ d.forwarded[e] = epoch(e) /\ d.parked[e] # None
             /\ d.parked[e].to = r /\ d.parked[e].epoch = epoch(e)
    <2>1. node[n].owned[e] \in Nat \ {0} /\ node[n].forwarded[e] = 0
        BY AtNode DEF HandsOver, Process, Base, Shape, ShapeAt
    <2>2. Max({0, epoch(e)}) = epoch(e)
        BY <2>1, MaxOfTwo
    <2>3. d.parked[e] \in Parked
        <3>1. s.lease \in Nat
            BY DEF Process
        <3>2. epoch(e) \in Nat \ {0}
            BY <2>1
        <3> HIDE DEF epoch
        <3>3. [to |-> r, epoch |-> epoch(e), lease |-> s.lease] \in Parked
            BY <3>1, <3>2 DEF Parked
        <3> QED
            BY <1>1, <3>3
    <2>4. d.parked[e] # None
        BY <2>3, FederationConstants
    <2>5. d.parked[e].to = r /\ d.parked[e].epoch = epoch(e) /\ d.owned[e] = 0
        <3>1. d.parked[e] = [to |-> r, epoch |-> epoch(e), lease |-> s.lease] /\ d.owned[e] = 0
            BY <1>1
        <3> HIDE DEF epoch
        <3> QED
            BY <3>1
    <2>6. d.forwarded[e] = epoch(e)
        BY <1>1, <2>1, <2>2
    <2> QED
        BY <2>1, <2>4, <2>5, <2>6
<1>5. S # {} => node[n].link[r] # None
    BY DEF HandsOver
<1>6. SendsAs(n, d, S, r, frames')
    <2>1. d.link[r] # None => <<n, d.link[r].at>> \in Conns
        BY <1>1, LinkIs
    <2>2. \A e \in S : d.parked[e] # None
        BY <1>4
    <2> QED
        <3>1. TypeOK /\ d \in Process
            BY <1>1 DEF Base
        <3>2. SendsAs(n, d, S, r, Sent(n, d, S, r))
            BY <2>1, <2>2, <3>1, SentIs
        <3> QED
            BY <1>2, <3>2
<1>7. TypeOK'
    BY <1>3, <1>6 DEF SendsAs, HandsOver, Base, TypeOK, Counters, past
<1>8. \A m \in Nodes : /\ node'[m].phase = node[m].phase /\ node'[m].spawned = node[m].spawned
                      /\ node'[m].link = node[m].link
    BY <1>1, <1>3
<1>9. Wiring'
    <2>1. ASSUME NEW m \in Nodes, NEW q \in Regions, node'[m].link[q] # None
          PROVE  /\ q # RegionOf[m] /\ RegionOf[node'[m].link[q].at] = q
                 /\ node'[m].link[q].up => Up(node[m].link[q].at)'
        <3>1. node[m].link[q] # None
            BY <1>8, <2>1
        <3>2. node[m].link[q].at \in Nodes
            BY <3>1, LinkIs
        <3> QED
            BY <1>8, <3>1, <3>2 DEF Base, Wiring, Up
    <2>2. ASSUME NEW c \in Conns, frames'[c] # <<>> PROVE Up(c[2])'
        <3>1. c[2] \in Nodes
            BY DEF Conns
        <3>2. Up(c[2])
            <4>1. CASE frames'[c] = frames[c]
                BY <2>2, <4>1 DEF Base, Wiring
            <4>2. CASE node[n].link[r] # None /\ node[n].link[r].up /\ c = <<n, node[n].link[r].at>>
                BY <4>2, LinkIs
            <4> QED
                BY <1>1, <1>6, <4>1, <4>2 DEF SendsAs
        <3> QED
            BY <1>8, <3>1, <3>2 DEF Up
    <2>3. \A m \in Nodes : RegionOf[m] \notin node'[m].spawned
        BY <1>8 DEF Base, Wiring
    <2>4. ASSUME NEW m \in Nodes, node'[m].phase = "exited", NEW e \in Entities
          PROVE  node'[m].owned[e] = 0 /\ node'[m].parked[e] = None /\ e \notin node'[m].logged
        <3>1. m # n
            BY <1>1, <1>3, <2>4 DEF HandsOver, Up
        <3> QED
            BY <1>3, <2>4, <3>1 DEF Base, Wiring
    <2> QED
        BY <2>1, <2>2, <2>3, <2>4 DEF Wiring
<1>10. ASSUME NEW e \in Entities, NEW q \in Regions, NEW j \in Nat, Offered(e, q, j)'
       PROVE  Offered(e, q, j) \/ (e \in S /\ q = r /\ j = epoch(e))
    <2>1. CASE \E m \in Nodes : LET p == node'[m].parked[e] IN p # None /\ p.to = q /\ p.epoch = j
        <3>1. PICK m \in Nodes : LET p == node'[m].parked[e] IN p # None /\ p.to = q /\ p.epoch = j
            BY <2>1
        <3>2. CASE m = n /\ e \in S
            BY <1>3, <1>4, <3>1, <3>2
        <3>3. CASE ~(m = n /\ e \in S)
            <4>1. node'[m].parked[e] = node[m].parked[e]
                BY <1>1, <1>3, <3>3
            <4> QED
                BY <3>1, <4>1 DEF Offered
        <3> QED
            BY <3>2, <3>3
    <2>2. CASE \E c \in Conns : RegionOf[c[2]] = q
                  /\ \E f \in ToSet(frames'[c]) : f.e = e /\ f.epoch = j
        <3>1. PICK c \in Conns : RegionOf[c[2]] = q
                  /\ \E f \in ToSet(frames'[c]) : f.e = e /\ f.epoch = j
            BY <2>2
        <3>2. PICK f \in ToSet(frames'[c]) : f.e = e /\ f.epoch = j
            BY <3>1
        <3>3. CASE f \in ToSet(frames[c])
            BY <3>1, <3>2, <3>3 DEF Offered
        <3>4. CASE f \notin ToSet(frames[c])
            <4>1. /\ d.link[r] # None /\ c = <<n, d.link[r].at>>
                  /\ e \in S /\ j = d.parked[e].epoch
                BY <1>6, <3>2, <3>4 DEF SendsAs
            <4>2. q = r
                BY <1>1, <3>1, <4>1, LinkIs
            <4> QED
                BY <1>4, <4>1, <4>2
        <3> QED
            BY <3>3, <3>4
    <2> QED
        BY <1>10, <2>1, <2>2 DEF Offered
<1>11. \A e : NoNewAck(e)
    BY DEF NoNewAck, Acked, HandsOver
<1>12. \A m \in Nodes \ {n}, e \in Entities : SameAt(m, e)
    BY <1>3 DEF SameAt
<1>13. ASSUME NEW e \in S PROVE Hands(e, n, r)
    <2>1. r # RegionOf[n]
        BY <1>5, LinkIs
    <2>2. e \notin node'[n].logged
        BY <1>1, <1>3
    <2> QED
        BY <1>3, <1>4, <1>10, <1>11, <1>12, <2>1, <2>2 DEF Hands
<1>14. ASSUME NEW e \in Entities \ S PROVE Quiet(e)
    <2>1. SameAt(n, e)
        BY <1>1, <1>3 DEF SameAt
    <2> QED
        BY <1>10, <1>11, <1>12, <2>1 DEF Quiet, NoNewOffer, NoNewAck
<1>15. \A e \in Entities : Affects(e)
    BY <1>13, <1>14 DEF Affects
<1> QED
    BY <1>7, <1>9, <1>15 DEF HandsOver, Stepped, past

LEMMA CrossStep ==
    ASSUME Base, NEW n \in Nodes, NEW e \in Entities, NEW r \in Regions, Cross(n, e, r)
    PROVE  Stepped
<1>1. node[n].link[r] # None /\ node[n].owned[e] # 0
    BY FederationConstants, AtNode DEF Cross, Departs, MayMove
<1>2. spent' \in Counters
    BY SpendType DEF Cross, Base
<1>3. HandsOver(n, node[n], {e}, r)
    BY <1>1, <1>2 DEF HandsOver, Cross
<1> QED
    BY <1>3, AtNode, HandsOverStep

LEMMA DrainStep ==
    ASSUME Base, NEW n \in Nodes, Drain(n) \/ DrainTick(n)
    PROVE  Stepped
<1>1. PICK r \in Regions : Drained(n, r)
    BY DEF Drain, DrainTick
<1> DEFINE S == Departs(n, OwnedBy(n), r)
           s == [node[n] EXCEPT !.draining = TRUE]
<1>2. /\ s \in Process
      /\ s.phase = node[n].phase /\ s.spawned = node[n].spawned /\ s.link = node[n].link
      /\ s.owned = node[n].owned /\ s.logged = node[n].logged
      /\ s.forwarded = node[n].forwarded /\ s.parked = node[n].parked
    <2>1. node[n] \in Process
        BY AtNode
    <2> QED
        BY <2>1 DEF Process
<1>3. S \in SUBSET Entities /\ \A e \in S : node[n].owned[e] # 0
    BY DEF Departs, OwnedBy
<1>4. S # {} => node[n].link[r] # None
    BY DEF Departs
<1>5. node' = [node EXCEPT ![n] = Departed(s, S, r)] /\ frames' = Sent(n, Departed(s, S, r), S, r)
    BY <1>1 DEF Drained
<1>6. spent' \in Counters
    BY AtNode, SpendType DEF Drain, DrainTick, Base
<1> HIDE DEF s, S
<1>7. Up(n) /\ UNCHANGED <<conf, registry, acks, handle, dying, past>>
    BY DEF Drain, DrainTick
<1>8. HandsOver(n, s, S, r)
    BY <1>2, <1>3, <1>4, <1>5, <1>6, <1>7 DEF HandsOver
<1> QED
    BY <1>2, <1>3, <1>8, HandsOverStep

LEMMA ResendStep ==
    ASSUME Base, NEW n \in Nodes, NEW r \in Regions, Resend(n, r) PROVE Stepped
<1> DEFINE S == {e \in Entities : node[n].parked[e] # None /\ node[n].parked[e].to = r}
<1>1. SendsAs(n, node[n], S, r, frames')
    <2>1. node[n].link[r] # None => <<n, node[n].link[r].at>> \in Conns
        BY LinkIs
    <2>2. S \in SUBSET Entities /\ \A e \in S : node[n].parked[e] # None
        OBVIOUS
    <2>3. TypeOK /\ node[n] \in Process
        BY AtNode DEF Base
    <2>4. frames' = Sent(n, node[n], S, r)
        BY DEF Resend
    <2> HIDE DEF S
    <2>5. SendsAs(n, node[n], S, r, Sent(n, node[n], S, r))
        BY <2>1, <2>2, <2>3, SentIs
    <2> QED
        BY <2>4, <2>5
<1>2. UNCHANGED <<conf, node, registry, acks, handle, dying, spent, past>>
    BY DEF Resend
<1>3. TypeOK'
    BY <1>1, <1>2 DEF SendsAs, Base, TypeOK, past
<1>4. Wiring'
    <2>1. ASSUME NEW c \in Conns, frames'[c] # <<>> PROVE Up(c[2])
        <3>1. CASE frames'[c] = frames[c]
            BY <2>1, <3>1 DEF Base, Wiring
        <3>2. CASE node[n].link[r] # None /\ node[n].link[r].up /\ c = <<n, node[n].link[r].at>>
            BY <3>2, LinkIs
        <3> QED
            BY <1>1, <3>1, <3>2 DEF SendsAs
    <2> QED
        BY <1>2, <2>1 DEF Base, Wiring, Up
<1>5. ASSUME NEW e \in Entities, NEW q \in Regions, NEW j \in Nat, Offered(e, q, j)'
      PROVE  Offered(e, q, j)
    <2>1. CASE \E c \in Conns : RegionOf[c[2]] = q
                  /\ \E f \in ToSet(frames'[c]) : f.e = e /\ f.epoch = j
        <3>1. PICK c \in Conns : RegionOf[c[2]] = q
                  /\ \E f \in ToSet(frames'[c]) : f.e = e /\ f.epoch = j
            BY <2>1
        <3>2. PICK f \in ToSet(frames'[c]) : f.e = e /\ f.epoch = j
            BY <3>1
        <3>3. CASE f \in ToSet(frames[c])
            BY <3>1, <3>2, <3>3 DEF Offered
        <3>4. CASE f \notin ToSet(frames[c])
            <4>1. /\ node[n].link[r] # None /\ c = <<n, node[n].link[r].at>>
                  /\ e \in S /\ j = node[n].parked[e].epoch
                BY <1>1, <3>2, <3>4 DEF SendsAs
            <4>2. q = r
                BY <3>1, <4>1, LinkIs
            <4> QED
                BY <4>1, <4>2 DEF Offered
        <3> QED
            BY <3>3, <3>4
    <2> QED
        BY <1>2, <1>5, <2>1 DEF Offered
<1>6. \A e \in Entities : Quiet(e)
    BY <1>2, <1>5 DEF Quiet, SameAt, NoNewOffer, Acked
<1> QED
    BY <1>2, <1>3, <1>4, <1>6 DEF Stepped, Affects, past

\* Heads, tails and one more at the end.
LEMMA TailIs ==
    ASSUME NEW T, NEW q \in Seq(T), q # <<>>
    PROVE  /\ Head(q) \in T /\ Head(q) \in ToSet(q)
           /\ Tail(q) \in Seq(T) /\ ToSet(Tail(q)) \subseteq ToSet(q)
<1>1. Head(q) = q[1] /\ 1 \in DOMAIN q /\ Tail(q) \in Seq(T)
    OBVIOUS
<1>2. \A i \in DOMAIN Tail(q) : i + 1 \in DOMAIN q /\ Tail(q)[i] = q[i + 1]
    OBVIOUS
<1> QED
    BY <1>1, <1>2 DEF ToSet
LEMMA AppendIs ==
    ASSUME NEW T, NEW q \in Seq(T), NEW x \in T
    PROVE  Append(q, x) \in Seq(T) /\ ToSet(Append(q, x)) \subseteq ToSet(q) \cup {x}
<1>1. Append(q, x) \in Seq(T)
    OBVIOUS
<1>2. \A i \in DOMAIN Append(q, x) :
          (i \in DOMAIN q /\ Append(q, x)[i] = q[i]) \/ Append(q, x)[i] = x
    OBVIOUS
<1> QED
    BY <1>1, <1>2 DEF ToSet

\* The handler of a hand-off takes what it hands over, at the epoch it has there.
AdoptsAs(s, f, d) ==
    /\ d \in Process
    /\ d.phase = s.phase /\ d.spawned = s.spawned /\ d.link = s.link
    /\ d.logged = s.logged \cup {f.e} /\ d.owned[f.e] = f.epoch
    /\ d.forwarded[f.e] = 0 /\ d.parked[f.e] = None
    /\ \A e \in Entities \ {f.e} : /\ d.owned[e] = s.owned[e]
                                   /\ d.forwarded[e] = s.forwarded[e]
                                   /\ d.parked[e] = s.parked[e]
LEMMA AdoptedIs ==
    ASSUME NEW s \in Process, NEW f \in Frames
    PROVE  AdoptsAs(s, f, Adopted(s, f))
<1> DEFINE d == Adopted(s, f)
           owned == [s.owned EXCEPT ![f.e] = f.epoch]
           forwarded == [s.forwarded EXCEPT ![f.e] = 0]
           parked == [s.parked EXCEPT ![f.e] = None]
<1>1. d = [s EXCEPT !.owned = owned, !.logged = s.logged \cup {f.e},
                    !.forwarded = forwarded, !.parked = parked]
    BY DEF Adopted, Process
<1>2. /\ f.e \in Entities /\ s.logged \cup {f.e} \in SUBSET Entities
      /\ owned \in [Entities -> Nat] /\ forwarded \in [Entities -> Nat]
      /\ parked \in [Entities -> Parked \cup {None}]
    BY DEF Process, Frames
<1>3. /\ owned[f.e] = f.epoch /\ forwarded[f.e] = 0 /\ parked[f.e] = None
      /\ \A e \in Entities \ {f.e} :
            owned[e] = s.owned[e] /\ forwarded[e] = s.forwarded[e] /\ parked[e] = s.parked[e]
    BY <1>2 DEF Process
<1> HIDE DEF d, owned, forwarded, parked
<1>4. /\ d \in Process
      /\ d.phase = s.phase /\ d.spawned = s.spawned /\ d.link = s.link
      /\ d.logged = s.logged \cup {f.e} /\ d.owned = owned
      /\ d.forwarded = forwarded /\ d.parked = parked
    BY <1>1, <1>2 DEF Process
<1> QED
    BY <1>3, <1>4 DEF d, AdoptsAs

\* The reply is one more ack of what was handed over, or nothing.
LEMMA ReplyIs ==
    ASSUME Base, NEW t \in Nodes, NEW f \in Frames, Reply(t, f)
    PROVE  /\ acks' \in [Conns -> Seq(Acks)]
           /\ \A e \in Entities, k \in Nat :
                 Acked(e, k)' => Acked(e, k) \/ (e = f.e /\ k = f.epoch)
<1> DEFINE ack == [e |-> f.e, epoch |-> f.epoch]
           back == <<handle[t], t>>
<1>1. CASE acks' = acks
    BY <1>1 DEF Base, TypeOK, Acked
<1>2. CASE acks' # acks
    <2>1. /\ handle[t] # None /\ Linked(handle[t], t)
          /\ acks' = [acks EXCEPT ![back] = Append(@, ack)]
        BY <1>2 DEF Reply
    <2>2. handle[t] \in Nodes /\ RegionOf[t] \in Regions
        BY <2>1, AtNode, FederationConstants
    <2>3. RegionOf[t] # RegionOf[handle[t]]
        <3>1. node[handle[t]].link[RegionOf[t]] # None
            <4>1. [at |-> t, up |-> TRUE] \in Link
                BY DEF Link
            <4> QED
                BY <2>1, <4>1, FederationConstants DEF Linked
        <3> QED
            BY <2>2, <3>1 DEF Base, Wiring
    <2>4. back \in Conns
        BY <2>2, <2>3 DEF Conns
    <2>5. ack \in Acks
        BY DEF Acks, Frames
    <2> HIDE DEF ack, back
    <2>6. acks[back] \in Seq(Acks)
        BY <2>4 DEF Base, TypeOK
    <2>7. Append(acks[back], ack) \in Seq(Acks)
          /\ ToSet(Append(acks[back], ack)) \subseteq ToSet(acks[back]) \cup {ack}
        BY <2>5, <2>6, AppendIs
    <2>8. /\ acks' \in [Conns -> Seq(Acks)]
          /\ acks'[back] = Append(acks[back], ack)
          /\ \A c \in Conns \ {back} : acks'[c] = acks[c]
        BY <2>1, <2>4, <2>7 DEF Base, TypeOK
    <2>9. ASSUME NEW e \in Entities, NEW k \in Nat, Acked(e, k)'
          PROVE  Acked(e, k) \/ (e = f.e /\ k = f.epoch)
        <3>1. PICK c \in Conns : \E a \in ToSet(acks'[c]) : a.e = e /\ a.epoch = k
            BY <2>9 DEF Acked
        <3>2. PICK a \in ToSet(acks'[c]) : a.e = e /\ a.epoch = k
            BY <3>1
        <3>3. a \in ToSet(acks[c]) \/ a = ack
            BY <2>7, <2>8, <3>2
        <3>4. CASE a = ack
            BY <3>2, <3>4 DEF ack
        <3>5. CASE a \in ToSet(acks[c])
            BY <3>2, <3>5 DEF Acked
        <3> QED
            BY <3>3, <3>4, <3>5
    <2> QED
        BY <2>8, <2>9
<1> QED
    BY <1>1, <1>2

LEMMA DeliverStep ==
    ASSUME Base, NEW n \in Nodes, NEW t \in Nodes, <<n, t>> \in Conns, Deliver(n, t)
    PROVE  Stepped
<1> DEFINE conn == <<n, t>>
<1>1. /\ conn \in Conns /\ frames[conn] \in Seq(Frames) /\ frames[conn] # <<>>
      /\ frames' = [frames EXCEPT ![conn] = Tail(@)]
    BY DEF Deliver, Base, TypeOK
<1>2. PICK f \in Frames : f = Head(frames[conn]) /\ f \in ToSet(frames[conn])
    BY <1>1, TailIs
<1>22. /\ Tail(frames[conn]) \in Seq(Frames)
       /\ ToSet(Tail(frames[conn])) \subseteq ToSet(frames[conn])
    BY <1>1, TailIs
<1> DEFINE adopts == ~(StaleLease(t, n, f) \/ Passed(t, f) \/ Present(t, f))
           d == Adopted(node[t], f)
<1>3. UNCHANGED <<conf, registry, handle, dying, spent>>
    BY DEF Deliver
<1>4. \/ acks' = acks
      \/ ~StaleLease(t, n, f) /\ Answered(t, f) /\ Reply(t, f)
    BY <1>2 DEF Deliver
<1>5. \/ ~adopts /\ UNCHANGED <<node, past>>
      \/ adopts /\ node' = [node EXCEPT ![t] = d]
         /\ twins' = (IF AdoptedTwice(t, f) THEN twins \cup {f.e} ELSE twins) /\ misled' = misled
    BY <1>2 DEF Deliver
<1>6. f.e \in Entities /\ f.epoch \in Nat \ {0}
    BY <1>2 DEF Frames
<1>7. Offered(f.e, RegionOf[t], f.epoch)
    BY <1>1, <1>2 DEF Offered
<1>8. AdoptsAs(node[t], f, d)
    BY <1>2, AtNode, AdoptedIs
<1>9. \A x \in Nodes : Up(x) => Up(x)'
    <2>1. CASE node' = node
        BY <2>1 DEF Up
    <2>2. CASE node' = [node EXCEPT ![t] = d]
        BY <1>8, <2>2 DEF Up, AdoptsAs, Base, TypeOK
    <2> QED
        BY <1>5, <2>1, <2>2
<1>10. frames' \in [Conns -> Seq(Frames)]
       /\ \A c \in Conns : ToSet(frames'[c]) \subseteq ToSet(frames[c])
                           /\ (frames[c] = <<>> => frames'[c] = <<>>)
    BY <1>1, <1>22 DEF Base, TypeOK
<1>11. /\ acks' \in [Conns -> Seq(Acks)]
       /\ \A e \in Entities, k \in Nat : Acked(e, k)' =>
             \/ Acked(e, k)
             \/ e = f.e /\ k = f.epoch /\ ~StaleLease(t, n, f) /\ Answered(t, f)
    <2>1. CASE acks' = acks
        BY <2>1 DEF Base, TypeOK, Acked
    <2>2. CASE ~StaleLease(t, n, f) /\ Answered(t, f) /\ Reply(t, f)
        BY <1>2, <2>2, ReplyIs
    <2> QED
        BY <1>4, <2>1, <2>2
<1>12. twins \subseteq twins' /\ misled' = misled /\ twins' \subseteq Entities
    BY <1>5, <1>6 DEF past, Base, TypeOK
<1>13. /\ node \in [Nodes -> Process] /\ node' \in [Nodes -> Process]
       /\ adopts => node'[t] = d /\ \A m \in Nodes \ {t} : node'[m] = node[m]
       /\ ~adopts => node' = node
    <2> HIDE DEF d, adopts
    <2> QED
        BY <1>5, <1>8 DEF AdoptsAs, Base, TypeOK
<1>14. TypeOK'
    BY <1>3, <1>10, <1>11, <1>12, <1>13 DEF Base, TypeOK
<1> HIDE DEF d, adopts
<1>15. Wiring'
    <2>1. Up(t)
        BY <1>1 DEF Base, Wiring
    <2>2. /\ node'[t].phase = node[t].phase
          /\ \A m \in Nodes : node'[m].spawned = node[m].spawned /\ node'[m].link = node[m].link
          /\ \A m \in Nodes \ {t} : node'[m] = node[m]
        BY <1>8, <1>13 DEF AdoptsAs
    <2>3. ASSUME NEW m \in Nodes, NEW q \in Regions, node'[m].link[q] # None
          PROVE  /\ q # RegionOf[m] /\ RegionOf[node'[m].link[q].at] = q
                 /\ node'[m].link[q].up => Up(node[m].link[q].at)'
        <3>1. node[m].link[q] # None
            BY <2>2, <2>3
        <3>2. node[m].link[q].at \in Nodes
            BY <3>1, LinkIs
        <3> QED
            BY <1>9, <2>2, <3>1, <3>2 DEF Base, Wiring
    <2>4. \A c \in Conns : frames'[c] # <<>> => Up(c[2])'
        BY <1>9, <1>10 DEF Base, Wiring, Conns
    <2>5. \A m \in Nodes : RegionOf[m] \notin node'[m].spawned
        BY <2>2 DEF Base, Wiring
    <2>6. ASSUME NEW m \in Nodes, node'[m].phase = "exited", NEW e \in Entities
          PROVE  node'[m].owned[e] = 0 /\ node'[m].parked[e] = None /\ e \notin node'[m].logged
        <3>1. m # t
            BY <2>1, <2>2, <2>6 DEF Up
        <3> QED
            BY <2>2, <2>6, <3>1 DEF Base, Wiring
    <2> QED
        BY <2>3, <2>4, <2>5, <2>6 DEF Wiring
<1>16. ASSUME NEW e \in Entities PROVE NoNewOffer(e)
    <2>1. ASSUME NEW r \in Regions, NEW k \in Nat, Offered(e, r, k)' PROVE Offered(e, r, k)
        <3>1. CASE \E m \in Nodes : LET p == node'[m].parked[e] IN p # None /\ p.to = r /\ p.epoch = k
            <4>1. PICK m \in Nodes : LET p == node'[m].parked[e] IN p # None /\ p.to = r /\ p.epoch = k
                BY <3>1
            <4>2. node'[m].parked[e] = node[m].parked[e]
                BY <1>8, <1>13, <4>1 DEF AdoptsAs
            <4> QED
                BY <4>1, <4>2 DEF Offered
        <3>2. CASE \E c \in Conns : RegionOf[c[2]] = r
                      /\ \E g \in ToSet(frames'[c]) : g.e = e /\ g.epoch = k
            BY <1>10, <3>2 DEF Offered
        <3> QED
            BY <2>1, <3>1, <3>2 DEF Offered
    <2> QED
        BY <2>1 DEF NoNewOffer
<1>17. ASSUME NEW e \in Entities, e # f.e \/ ~adopts PROVE Quiet(e)
    <2>1. \A m \in Nodes : SameAt(m, e)
        BY <1>8, <1>13, <1>17 DEF AdoptsAs, SameAt
    <2>2. ASSUME NEW k \in Nat, Acked(e, k)' PROVE Acked(e, k) \/ Justified(e, k)
        <3>1. CASE Acked(e, k)
            BY <3>1
        <3>2. CASE e = f.e /\ k = f.epoch /\ ~StaleLease(t, n, f) /\ Answered(t, f)
            <4>1. Passed(t, f) \/ node[t].owned[e] = k
                BY <1>17, <3>2 DEF Answered, Present, adopts
            <4> QED
                BY <1>7, <3>2, <4>1 DEF Justified, Passed
        <3> QED
            BY <1>11, <2>2, <3>1, <3>2
    <2> QED
        BY <1>16, <2>1, <2>2 DEF Quiet
<1>18. ASSUME adopts PROVE Takes(f.e, t, f.epoch)
    <2>1. node[t].owned[f.e] = 0
        BY <1>18 DEF adopts, Present
    <2>2. node[t].forwarded[f.e] = 0 \/ f.epoch > node[t].forwarded[f.e]
        <3>1. node[t].forwarded[f.e] \in Nat
            BY <1>6, AtNode DEF Process
        <3> QED
            BY <1>6, <1>18, <3>1 DEF adopts, Passed
    <2>3. /\ node'[t].owned[f.e] = f.epoch /\ f.e \in node'[t].logged
          /\ node'[t].forwarded[f.e] = 0 /\ node'[t].parked[f.e] = None
        BY <1>8, <1>13, <1>18 DEF AdoptsAs
    <2>4. \A m \in Nodes \ {t} : SameAt(m, f.e)
        BY <1>13, <1>18 DEF SameAt
    <2>5. ASSUME NEW m \in Nodes \ {t}, RegionOf[m] = RegionOf[t],
                 node[m].owned[f.e] # 0 \/ node[m].forwarded[f.e] > f.epoch
          PROVE  f.e \in twins'
        BY <1>5, <1>18, <2>5 DEF AdoptedTwice
    <2>6. \A j \in Nat : Acked(f.e, j)' => Acked(f.e, j) \/ j = f.epoch
        BY <1>6, <1>11
    <2>7. NoNewOffer(f.e)
        BY <1>6, <1>16
    <2> QED
        BY <1>6, <1>7, <2>1, <2>2, <2>3, <2>4, <2>5, <2>6, <2>7 DEF Takes
<1>19. \A e \in Entities : Affects(e)
    BY <1>6, <1>17, <1>18 DEF Affects
<1> QED
    BY <1>3, <1>12, <1>14, <1>15, <1>19 DEF Stepped

LEMMA ReceiveAckStep ==
    ASSUME Base, NEW n \in Nodes, NEW t \in Nodes, <<n, t>> \in Conns, ReceiveAck(n, t)
    PROVE  Stepped
<1> DEFINE conn == <<n, t>>
<1>1. /\ conn \in Conns /\ acks[conn] \in Seq(Acks) /\ acks[conn] # <<>>
      /\ acks' = [acks EXCEPT ![conn] = Tail(@)]
    BY DEF ReceiveAck, Base, TypeOK
<1> DEFINE d(ack) == [node[n] EXCEPT !.parked[ack.e] = None, !.logged = @ \ {ack.e}]
           p(ack) == node[n].parked[ack.e]
<1>2. PICK ack \in Acks :
          /\ ack \in ToSet(acks[conn])
          /\ node' = [node EXCEPT ![n] = d(ack)]
          /\ misled' = IF ack.e \in node[n].logged \/ (p(ack) # None /\ p(ack).epoch # ack.epoch)
                       THEN misled \cup {ack.e} ELSE misled
    <2> DEFINE head == Head(acks[conn])
    <2>1. head \in Acks /\ head \in ToSet(acks[conn])
        BY <1>1, TailIs
    <2>2. node' = [node EXCEPT ![n] = d(head)]
        BY DEF ReceiveAck
    <2>3. misled' = IF head.e \in node[n].logged
                       \/ (p(head) # None /\ p(head).epoch # head.epoch)
                    THEN misled \cup {head.e} ELSE misled
        BY DEF ReceiveAck
    <2> HIDE DEF head, d
    <2> QED
        BY <2>1, <2>2, <2>3
<1>3. UNCHANGED <<conf, registry, frames, handle, dying, spent, twins>>
    BY DEF ReceiveAck
<1>22. /\ Tail(acks[conn]) \in Seq(Acks)
       /\ ToSet(Tail(acks[conn])) \subseteq ToSet(acks[conn])
    BY <1>1, TailIs
<1>4. node' = [node EXCEPT ![n] = d(ack)]
    BY <1>2
<1> DEFINE parked == [node[n].parked EXCEPT ![ack.e] = None]
           s == d(ack)
<1>5. ack.e \in Entities /\ ack.epoch \in Nat /\ Acked(ack.e, ack.epoch)
    BY <1>1, <1>2 DEF Acks, Acked
<1>6. /\ parked \in [Entities -> Parked \cup {None}] /\ parked[ack.e] = None
      /\ \A e \in Entities \ {ack.e} : parked[e] = node[n].parked[e]
    BY <1>5, AtNode DEF Process
<1>7. /\ s \in Process /\ s.parked = parked /\ s.logged = node[n].logged \ {ack.e}
      /\ s.phase = node[n].phase /\ s.spawned = node[n].spawned /\ s.link = node[n].link
      /\ s.owned = node[n].owned /\ s.forwarded = node[n].forwarded
    <2>0. s = [node[n] EXCEPT !.parked = parked, !.logged = node[n].logged \ {ack.e}]
        BY AtNode DEF Process
    <2> HIDE DEF s, parked
    <2>1. node[n] \in Process /\ node[n].logged \ {ack.e} \in SUBSET Entities
        BY AtNode DEF Process
    <2> QED
        BY <1>6, <2>0, <2>1 DEF Process
<1> HIDE DEF parked, s, d
<1>8. /\ node \in [Nodes -> Process] /\ node' \in [Nodes -> Process]
      /\ node'[n] = s /\ \A m \in Nodes \ {n} : node'[m] = node[m]
    <2>1. node' = [node EXCEPT ![n] = s]
        BY <1>4 DEF s
    <2> QED
        BY <1>7, <2>1 DEF Base, TypeOK
<1>9. acks' \in [Conns -> Seq(Acks)] /\ \A c \in Conns : ToSet(acks'[c]) \subseteq ToSet(acks[c])
    BY <1>1, <1>22 DEF Base, TypeOK
<1>10. misled \subseteq misled' /\ misled' \subseteq Entities
    BY <1>2, <1>5 DEF Base, TypeOK
<1>11. TypeOK'
    BY <1>3, <1>8, <1>9, <1>10 DEF Base, TypeOK
<1>12. \A m \in Nodes : /\ node'[m].phase = node[m].phase /\ node'[m].spawned = node[m].spawned
                       /\ node'[m].link = node[m].link
    BY <1>7, <1>8
<1>13. Wiring'
    <2>1. ASSUME NEW m \in Nodes, NEW q \in Regions, node'[m].link[q] # None
          PROVE  /\ q # RegionOf[m] /\ RegionOf[node'[m].link[q].at] = q
                 /\ node'[m].link[q].up => Up(node[m].link[q].at)'
        <3>1. node[m].link[q] # None
            BY <1>12, <2>1
        <3>2. node[m].link[q].at \in Nodes
            BY <3>1, LinkIs
        <3> QED
            BY <1>12, <3>1, <3>2 DEF Base, Wiring, Up
    <2>2. \A c \in Conns : frames'[c] # <<>> => Up(c[2])'
        BY <1>3, <1>12 DEF Base, Wiring, Conns, Up
    <2>3. \A m \in Nodes : RegionOf[m] \notin node'[m].spawned
        BY <1>12 DEF Base, Wiring
    <2>4. ASSUME NEW m \in Nodes, node'[m].phase = "exited", NEW e \in Entities
          PROVE  node'[m].owned[e] = 0 /\ node'[m].parked[e] = None /\ e \notin node'[m].logged
        <3>1. node[m].owned[e] = 0 /\ node[m].parked[e] = None /\ e \notin node[m].logged
            BY <1>12, <2>4 DEF Base, Wiring
        <3> QED
            BY <1>6, <1>7, <1>8, <3>1
    <2> QED
        BY <2>1, <2>2, <2>3, <2>4 DEF Wiring
<1>14. \A m \in Nodes, e \in Entities : node'[m].parked[e] \in {node[m].parked[e], None}
    BY <1>6, <1>7, <1>8
<1>15. ASSUME NEW e \in Entities PROVE NoNewOffer(e) /\ NoNewAck(e)
    <2>1. NoNewOffer(e)
        BY <1>3, <1>14 DEF NoNewOffer, Offered
    <2> QED
        BY <1>9, <2>1 DEF NoNewAck, Acked
<1>16. ASSUME NEW e \in Entities \ {ack.e} PROVE Quiet(e)
    <2>1. \A m \in Nodes : SameAt(m, e)
        BY <1>6, <1>7, <1>8 DEF SameAt
    <2> QED
        BY <1>15, <2>1 DEF Quiet, NoNewAck
<1>17. Forgets(ack.e, n, ack.epoch)
    <2>1. \A m \in Nodes \ {n} : SameAt(m, ack.e)
        BY <1>8 DEF SameAt
    <2>2. \/ ack.e \in node[n].logged
          \/ node[n].parked[ack.e] # None /\ node[n].parked[ack.e].epoch # ack.epoch
          => ack.e \in misled'
        BY <1>2
    <2> QED
        BY <1>5, <1>6, <1>7, <1>8, <1>15, <2>1, <2>2 DEF Forgets
<1>18. \A e \in Entities : Affects(e)
    BY <1>5, <1>16, <1>17 DEF Affects
<1> QED
    BY <1>3, <1>10, <1>11, <1>13, <1>18 DEF Stepped

\* Every step is one of these for each entity.
LEMMA Step == ASSUME Base, [Next]_vars PROVE Stepped
<1>1. CASE UNCHANGED vars
    <2>1. TypeOK' /\ Wiring'
        BY <1>1 DEF vars, wire, past, Base, TypeOK, Wiring, Up
    <2> QED
        BY <1>1, <2>1, Idle DEF vars, wire, past
<1>2. ASSUME NEW n \in Nodes, Start(n) \/ Crash(n) \/ Freeze(n) \/ Thaw(n) PROVE Stepped
    BY <1>2, StartStep, CrashStep, FreezeStep
<1>3. ASSUME NEW n \in Nodes,
             Tick(n) \/ Heartbeat(n) \/ Truncate(n) \/ Write(n) \/ Read(n)
      PROVE  Stepped
    BY <1>3, TickStep, TaskStep, ReadStep
<1>4. ASSUME NEW n \in Nodes, Drain(n) \/ DrainTick(n) \/ DrainExit(n) PROVE Stepped
    BY <1>4, DrainStep, DrainExitStep
<1>5. ASSUME NEW n \in Nodes, NEW r \in Regions,
             \/ Connect(n, r) \/ Notice(n, r) \/ Resend(n, r)
             \/ \E e \in Entities : Cross(n, e, r)
      PROVE  Stepped
    BY <1>5, ConnectStep, NoticeStep, ResendStep, CrossStep
<1>6. ASSUME NEW c \in Conns,
             Break(c[1], c[2]) \/ Teardown(c) \/ Deliver(c[1], c[2]) \/ ReceiveAck(c[1], c[2])
      PROVE  Stepped
    <2>1. c[1] \in Nodes /\ c[2] \in Nodes /\ c = <<c[1], c[2]>>
        BY DEF Conns
    <2> QED
        BY <1>6, <2>1, BreakStep, TeardownStep, DeliverStep, ReceiveAckStep
<1> QED
    BY <1>1, <1>2, <1>3, <1>4, <1>5, <1>6 DEF Next

\* What a node has of an entity goes on fitting together.
LEMMA ShapeStep == ASSUME Base, Stepped PROVE Shape'
<1> SUFFICES ASSUME NEW n \in Nodes, NEW e \in Entities PROVE ShapeAt(n, e)'
    BY DEF Shape
<1>1. ShapeAt(n, e) /\ (e \in misled => e \in misled') /\ node[n].owned[e] \in Nat
    BY AtNode DEF Base, Shape, Stepped, Process
<1>2. ASSUME SameAt(n, e) PROVE ShapeAt(n, e)'
    BY <1>1, <1>2 DEF SameAt, ShapeAt
<1>3. CASE Quiet(e)
    BY <1>2, <1>3 DEF Quiet
<1>4. ASSUME NEW m \in Nodes, NEW r \in Regions, Hands(e, m, r) PROVE ShapeAt(n, e)'
    <2>1. CASE n = m
        BY <1>1, <1>4, <2>1 DEF Hands, ShapeAt
    <2> QED
        BY <1>2, <1>4, <2>1 DEF Hands
<1>5. ASSUME NEW t \in Nodes, NEW k \in Nat, Takes(e, t, k) PROVE ShapeAt(n, e)'
    <2>1. CASE n = t
        BY <1>5, <2>1 DEF Takes, ShapeAt
    <2> QED
        BY <1>2, <1>5, <2>1 DEF Takes
<1>6. ASSUME NEW m \in Nodes, NEW k \in Nat, Forgets(e, m, k) PROVE ShapeAt(n, e)'
    <2>1. CASE n = m
        BY <1>1, <1>6, <2>1 DEF Forgets, ShapeAt
    <2> QED
        BY <1>2, <1>6, <2>1 DEF Forgets
<1> QED
    BY <1>3, <1>4, <1>5, <1>6 DEF Stepped, Affects

LEMMA BaseStep == ASSUME Base, [Next]_vars PROVE Base' /\ Stepped
BY Step, ShapeStep DEF Base, Stepped

\* Every variable has its type, and what a node has of an entity fits together.
LEMMA BaseHolds == Spec => []Base
<1>1. Init => Base
    BY InitBase
<1>2. Base /\ [Next]_vars => Base'
    BY BaseStep
<1> QED
    BY <1>1, <1>2, PTL DEF Spec

(***************************************************************************)
(* Who owns an entity, when no ack has misled a log about it and no two    *)
(* incarnations of a region have adopted it.                               *)
(***************************************************************************)
\* Someone in region r has adopted what is offered at epoch k, or a later offer.
Past(e, r, k) ==
    \E m \in Nodes : RegionOf[m] = r /\ (node[m].owned[e] >= k \/ node[m].forwarded[e] > k)
\* The offer that stands: nobody owns e, and nothing is newer.
Newest(e, r, k) ==
    /\ \A n \in Nodes : node[n].owned[e] = 0 /\ node[n].forwarded[e] <= k
    /\ \A q \in Regions, j \in Nat : Offered(e, q, j) => j < k \/ (j = k /\ q = r)

OneOwns(e) == \A m, n \in Nodes : node[m].owned[e] # 0 /\ node[n].owned[e] # 0 => m = n
OwnerLeads(e) ==
    \A o \in Nodes : node[o].owned[e] # 0 =>
        /\ \A n \in Nodes : node[n].forwarded[e] <= node[o].owned[e]
        /\ \A r \in Regions, k \in Nat : Offered(e, r, k) => k <= node[o].owned[e]
OffersStand(e) ==
    \A r \in Regions, k \in Nat : Offered(e, r, k) => Past(e, r, k) \/ Newest(e, r, k)
\* Nobody has forwarded, at the epoch of an offer, from the region it is for.
NobodyPasses(e) ==
    \A r \in Regions, k \in Nat, t \in Nodes :
        Offered(e, r, k) /\ RegionOf[t] = r => node[t].forwarded[e] # k
Sound(e) == OneOwns(e) /\ OwnerLeads(e) /\ OffersStand(e) /\ NobodyPasses(e)

LEMMA AtEntity ==
    ASSUME Base, NEW n \in Nodes, NEW e \in Entities
    PROVE  /\ RegionOf[n] \in Regions
           /\ node[n].owned[e] \in Nat /\ node[n].forwarded[e] \in Nat
           /\ node[n].parked[e] # None =>
                 /\ node[n].parked[e].epoch \in Nat \ {0} /\ node[n].parked[e].to \in Regions
                 /\ node[n].parked[e].epoch = node[n].forwarded[e]
           /\ node[n].owned[e] # 0 => node[n].forwarded[e] = 0 /\ node[n].parked[e] = None
           /\ e \in node[n].logged => node[n].owned[e] # 0
           /\ node[n].owned[e] # 0 => e \in node[n].logged \/ e \in misled
<1>1. RegionOf[n] \in Regions /\ node[n] \in Process
    BY AtNode
<1>2. node[n].parked[e] \in Parked \cup {None}
    BY <1>1 DEF Process
<1> QED
    BY <1>1, <1>2 DEF Process, Parked, Base, Shape, ShapeAt

LEMMA OfferedIs ==
    ASSUME Base, NEW e \in Entities, NEW r, NEW k, Offered(e, r, k)
    PROVE  k \in Nat \ {0}
<1>1. CASE \E n \in Nodes : LET p == node[n].parked[e] IN p # None /\ p.to = r /\ p.epoch = k
    BY <1>1, AtEntity
<1>2. ASSUME NEW c \in Conns, NEW f \in ToSet(frames[c]), f.e = e, f.epoch = k
      PROVE  k \in Nat \ {0}
    <2>1. frames[c] \in Seq(Frames)
        BY DEF Base, TypeOK
    <2>2. f \in Frames
        BY <2>1 DEF ToSet
    <2> QED
        BY <1>2, <2>2 DEF Frames
<1> QED
    BY <1>1, <1>2 DEF Offered

\* Where log and RAM agree a crash takes nothing of an entity.
LEMMA SameValues ==
    ASSUME Base, NEW n \in Nodes, NEW e \in Entities \ misled, SameAt(n, e)
    PROVE  /\ node'[n].owned[e] = node[n].owned[e] /\ node'[n].forwarded[e] = node[n].forwarded[e]
           /\ node'[n].parked[e] = node[n].parked[e]
           /\ e \in node'[n].logged <=> e \in node[n].logged
BY AtEntity DEF SameAt

LEMMA SoundKept ==
    ASSUME NEW e \in Entities, Sound(e), NoNewOffer(e),
           \A n \in Nodes : /\ node'[n].owned[e] = node[n].owned[e]
                            /\ node'[n].forwarded[e] = node[n].forwarded[e]
    PROVE  Sound(e)'
<1>1. \A r \in Regions, k \in Nat : Offered(e, r, k)' => Offered(e, r, k)
    BY DEF NoNewOffer
<1>2. \A r \in Regions, k \in Nat : Past(e, r, k) => Past(e, r, k)'
    BY DEF Past
<1>3. \A r \in Regions, k \in Nat : Newest(e, r, k) => Newest(e, r, k)'
    BY <1>1 DEF Newest
<1>4. OneOwns(e)'
    BY DEF Sound, OneOwns
<1>5. OwnerLeads(e)'
    BY <1>1 DEF Sound, OwnerLeads
<1>6. OffersStand(e)'
    BY <1>1, <1>2, <1>3 DEF Sound, OffersStand
<1>7. NobodyPasses(e)'
    BY <1>1 DEF Sound, NobodyPasses
<1> QED
    BY <1>4, <1>5, <1>6, <1>7 DEF Sound

\* A hand-over leaves nobody with the entity, and one offer that stands.
LEMMA SoundHands ==
    ASSUME Base, NEW e \in Entities \ misled, Sound(e),
           NEW n \in Nodes, NEW r \in Regions, Hands(e, n, r)
    PROVE  Sound(e)'
<1> DEFINE k == node[n].owned[e] + 1
           o == node[n].owned[e]
<1>1. /\ o \in Nat \ {0} /\ node[n].forwarded[e] = 0 /\ RegionOf[n] # r
      /\ node'[n].owned[e] = 0 /\ node'[n].forwarded[e] = o + 1
    BY AtEntity DEF Hands
<1>2. \A m \in Nodes \ {n} : /\ node[m].owned[e] = 0 /\ node'[m].owned[e] = 0
                            /\ node'[m].forwarded[e] = node[m].forwarded[e]
                            /\ node[m].forwarded[e] \in Nat /\ node[m].forwarded[e] <= o
    <2>1. ASSUME NEW m \in Nodes \ {n}
          PROVE  node[m].owned[e] = 0 /\ node[m].forwarded[e] <= o
        BY <1>1 DEF Sound, OneOwns, OwnerLeads
    <2> QED
        BY <2>1, AtEntity, SameValues DEF Hands
<1>3. \A q \in Regions, j \in Nat : Offered(e, q, j)' =>
          (Offered(e, q, j) /\ j <= o) \/ (q = r /\ j = o + 1)
    BY <1>1 DEF Hands, Sound, OwnerLeads
<1> HIDE DEF o
<1>4. \A q \in Regions, j \in Nat : Offered(e, q, j) => Past(e, q, j)
    BY <1>1 DEF Sound, OffersStand, Newest, o
<1>5. ASSUME NEW q \in Regions, NEW j \in Nat, Past(e, q, j) PROVE Past(e, q, j)'
    <2>1. PICK m \in Nodes : RegionOf[m] = q
              /\ (node[m].owned[e] >= j \/ node[m].forwarded[e] > j)
        BY <1>5 DEF Past
    <2>2. CASE m = n
        <3>1. node'[n].forwarded[e] > j
            BY <1>1, <2>1, <2>2 DEF o
        <3> QED
            BY <2>1, <2>2, <3>1 DEF Past
    <2>3. CASE m # n
        <3>1. node'[m].owned[e] = node[m].owned[e] /\ node'[m].forwarded[e] = node[m].forwarded[e]
            BY <1>2, <2>3
        <3> QED
            BY <2>1, <3>1 DEF Past
    <2> QED
        BY <2>2, <2>3
<1>6. OneOwns(e)' /\ OwnerLeads(e)'
    BY <1>1, <1>2 DEF OneOwns, OwnerLeads
<1>7. ASSUME NEW j \in Nat, j = o + 1 PROVE Newest(e, r, j)'
    <2>1. \A m \in Nodes : node'[m].owned[e] = 0 /\ node'[m].forwarded[e] <= j
        BY <1>1, <1>2, <1>7
    <2>2. \A q \in Regions, i \in Nat : Offered(e, q, i)' => i < j \/ (i = j /\ q = r)
        BY <1>1, <1>3, <1>7
    <2> QED
        BY <2>1, <2>2 DEF Newest
<1>8. OffersStand(e)'
    BY <1>3, <1>4, <1>5, <1>7 DEF OffersStand
<1>9. NobodyPasses(e)'
    <2> SUFFICES ASSUME NEW q \in Regions, NEW j \in Nat, NEW t \in Nodes,
                        Offered(e, q, j)', RegionOf[t] = q
                 PROVE  node'[t].forwarded[e] # j
        BY DEF NobodyPasses
    <2>1. CASE Offered(e, q, j) /\ j <= o
        <3>1. CASE t = n
            BY <1>1, <2>1, <3>1
        <3>2. CASE t # n
            BY <1>2, <2>1, <3>2 DEF Sound, NobodyPasses
        <3> QED
            BY <3>1, <3>2
    <2>2. CASE q = r /\ j = o + 1
        BY <1>1, <1>2, <2>2
    <2> QED
        BY <1>3, <2>1, <2>2
<1> QED
    BY <1>6, <1>8, <1>9 DEF Sound

LEMMA TakenIsNotPast ==
    ASSUME Base, NEW e \in Entities, e \notin twins',
           NEW t \in Nodes, NEW k \in Nat, Takes(e, t, k)
    PROVE  ~Past(e, RegionOf[t], k)
<1>1. ASSUME NEW m \in Nodes, RegionOf[m] = RegionOf[t]
      PROVE  ~(node[m].owned[e] >= k \/ node[m].forwarded[e] > k)
    <2>1. node[m].owned[e] = 0 /\ node[m].forwarded[e] <= k
        BY <1>1, AtEntity DEF Takes
    <2> QED
        BY <2>1, AtEntity DEF Takes
<1> QED
    BY <1>1 DEF Past

\* Who adopts takes the offer that stands, or a twin of its region has adopted it too.
LEMMA SoundTakes ==
    ASSUME Base, NEW e \in Entities \ misled, Sound(e), e \notin twins',
           NEW t \in Nodes, NEW k \in Nat, Takes(e, t, k)
    PROVE  Sound(e)'
<1> DEFINE R == RegionOf[t]
<1>1. /\ R \in Regions /\ k # 0 /\ Offered(e, R, k)
      /\ node'[t].owned[e] = k /\ node'[t].forwarded[e] = 0
    BY AtEntity DEF Takes
<1>2. ~Past(e, R, k)
    BY TakenIsNotPast
<1>3. Newest(e, R, k)
    BY <1>1, <1>2 DEF Sound, OffersStand
<1>4. \A m \in Nodes \ {t} : /\ node'[m].owned[e] = 0 /\ node[m].owned[e] = 0
                            /\ node'[m].forwarded[e] = node[m].forwarded[e]
                            /\ node[m].forwarded[e] <= k /\ node[m].forwarded[e] \in Nat
    BY <1>3, SameValues, AtEntity DEF Takes, Newest
<1>5. \A q \in Regions, j \in Nat : Offered(e, q, j)' =>
          Offered(e, q, j) /\ (j < k \/ (j = k /\ q = R)) /\ j # 0
    BY <1>3, OfferedIs DEF Takes, NoNewOffer, Newest
<1>6. OneOwns(e)'
    BY <1>4 DEF OneOwns
<1>7. OwnerLeads(e)'
    <2> SUFFICES /\ \A n \in Nodes : node'[n].forwarded[e] <= k
                 /\ \A q \in Regions, j \in Nat : Offered(e, q, j)' => j <= k
        BY <1>1, <1>4 DEF OwnerLeads
    <2> QED
        BY <1>1, <1>4, <1>5
<1>8. OffersStand(e)'
    <2> SUFFICES ASSUME NEW q \in Regions, NEW j \in Nat, Offered(e, q, j)'
                 PROVE  Past(e, q, j)'
        BY DEF OffersStand
    <2>1. CASE q = R
        BY <1>1, <1>5, <2>1 DEF Past
    <2>2. CASE q # R
        <3>1. j < k /\ Offered(e, q, j)
            BY <1>5, <2>2
        <3>2. Past(e, q, j)
            BY <1>1, <3>1 DEF Sound, OffersStand, Newest
        <3>3. PICK m \in Nodes : RegionOf[m] = q
                  /\ (node[m].owned[e] >= j \/ node[m].forwarded[e] > j)
            BY <3>2 DEF Past
        <3>4. node'[m].owned[e] = node[m].owned[e] /\ node'[m].forwarded[e] = node[m].forwarded[e]
            BY <1>4, <2>2, <3>3
        <3> QED
            BY <3>3, <3>4 DEF Past
    <2> QED
        BY <2>1, <2>2
<1>9. NobodyPasses(e)'
    <2> SUFFICES ASSUME NEW q \in Regions, NEW j \in Nat, NEW m \in Nodes,
                        Offered(e, q, j)', RegionOf[m] = q
                 PROVE  node'[m].forwarded[e] # j
        BY DEF NobodyPasses
    <2>1. CASE m = t
        BY <1>1, <1>5, <2>1
    <2>2. CASE m # t
        BY <1>4, <1>5, <2>2 DEF Sound, NobodyPasses
    <2> QED
        BY <2>1, <2>2
<1> QED
    BY <1>6, <1>7, <1>8, <1>9 DEF Sound

LEMMA SoundStep ==
    ASSUME Base, Stepped, NEW e \in Entities, e \notin misled' \cup twins', Sound(e)
    PROVE  Sound(e)'
<1>1. e \in Entities \ misled
    BY DEF Stepped
<1>2. ASSUME \A n \in Nodes : SameAt(n, e) PROVE
             \A n \in Nodes : /\ node'[n].owned[e] = node[n].owned[e]
                              /\ node'[n].forwarded[e] = node[n].forwarded[e]
    BY <1>1, <1>2, SameValues
<1>3. CASE Quiet(e)
    BY <1>2, <1>3, SoundKept DEF Quiet
<1>4. ASSUME NEW n \in Nodes, NEW r \in Regions, Hands(e, n, r) PROVE Sound(e)'
    BY <1>1, <1>4, SoundHands
<1>5. ASSUME NEW t \in Nodes, NEW k \in Nat, Takes(e, t, k) PROVE Sound(e)'
    BY <1>1, <1>5, SoundTakes
<1>6. ASSUME NEW n \in Nodes, NEW k \in Nat, Forgets(e, n, k) PROVE Sound(e)'
    <2>1. \A m \in Nodes : /\ node'[m].owned[e] = node[m].owned[e]
                           /\ node'[m].forwarded[e] = node[m].forwarded[e]
        BY <1>1, <1>6, SameValues DEF Forgets
    <2> QED
        BY <1>6, <2>1, SoundKept DEF Forgets
<1> QED
    BY <1>3, <1>4, <1>5, <1>6 DEF Stepped, Affects

LEMMA InitEntity ==
    ASSUME Init, NEW e \in Entities
    PROVE  /\ \A n \in Nodes : /\ node[n].owned[e] = (IF conf.home[e] = n THEN 1 ELSE 0)
                               /\ e \in node[n].logged <=> conf.home[e] = n
                               /\ node[n].forwarded[e] = 0 /\ node[n].parked[e] = None
           /\ \A r \in Regions, k \in Nat : ~Offered(e, r, k)
           /\ \A k \in Nat : ~Acked(e, k)
           /\ conf.home[e] \in Nodes
<1>1. ASSUME NEW n \in Nodes
      PROVE  /\ node[n].owned[e] = (IF conf.home[e] = n THEN 1 ELSE 0)
             /\ e \in node[n].logged <=> conf.home[e] = n
             /\ node[n].forwarded[e] = 0 /\ node[n].parked[e] = None
    <2> DEFINE home == {x \in Entities : conf.home[x] = n}
               f == Fresh(home)
    <2>1. node[n] = IF n \in conf.first THEN [f EXCEPT !.phase = "up", !.lease = 1] ELSE f
        BY DEF Init
    <2>2. /\ f \in Process /\ f.owned[e] = (IF e \in home THEN 1 ELSE 0) /\ f.logged = home
          /\ f.forwarded[e] = 0 /\ f.parked[e] = None
        BY FreshIs
    <2>3. e \in home <=> conf.home[e] = n
        OBVIOUS
    <2> HIDE DEF f, home
    <2>4. LET d == [f EXCEPT !.phase = "up", !.lease = 1] IN
          /\ d.owned = f.owned /\ d.logged = f.logged
          /\ d.forwarded = f.forwarded /\ d.parked = f.parked
        BY <2>2 DEF Process
    <2> QED
        BY <2>1, <2>2, <2>3, <2>4
<1>2. \A c \in Conns : frames[c] = <<>> /\ acks[c] = <<>>
    BY DEF Init
<1>3. ToSet(<<>>) = {}
    BY DEF ToSet
<1>4. /\ \A r \in Regions, k \in Nat : ~Offered(e, r, k)
      /\ \A k \in Nat : ~Acked(e, k)
    BY <1>1, <1>2, <1>3 DEF Offered, Acked
<1>5. conf.home[e] \in Nodes
    BY FederationConstants DEF Init
<1> QED
    BY <1>1, <1>4, <1>5

LEMMA SoundInit == ASSUME Init, NEW e \in Entities PROVE Sound(e)
BY InitEntity DEF Sound, OneOwns, OwnerLeads, OffersStand, NobodyPasses

(***************************************************************************)
(* Who keeps an entity.                                                    *)
(***************************************************************************)
\* Someone has logged e at epoch k, or parked it at a later one.
KeepsAt(m, e, k) ==
    \/ e \in node[m].logged /\ node[m].owned[e] >= k
    \/ node[m].parked[e] # None /\ node[m].parked[e].epoch > k
Firm(e, k) == \E m \in Nodes : KeepsAt(m, e, k)

\* What is forwarded is parked or firm elsewhere, what is acked is firm, and someone
\* has e in its log.
ForwardedKept(e) ==
    \A n \in Nodes : node[n].forwarded[e] # 0 =>
        node[n].parked[e] # None \/ Firm(e, node[n].forwarded[e])
AckedKept(e) == \A k \in Nat : Acked(e, k) => Firm(e, k)
SomeoneKeeps(e) == \E n \in Nodes : e \in node[n].logged \/ node[n].parked[e] # None
Safe(e) == ForwardedKept(e) /\ AckedKept(e) /\ SomeoneKeeps(e)

LEMMA FirmDown ==
    ASSUME Base, NEW e \in Entities, NEW i \in Nat, NEW j \in Nat, i <= j, Firm(e, j)
    PROVE  Firm(e, i)
<1>1. PICK m \in Nodes : KeepsAt(m, e, j)
    BY DEF Firm
<1>2. KeepsAt(m, e, i)
    BY <1>1, AtEntity DEF KeepsAt
<1> QED
    BY <1>2 DEF Firm

\* Nodes that keep their values keep what was firm.
LEMMA KeepsSame ==
    ASSUME Base, NEW m \in Nodes, NEW e \in Entities \ misled, SameAt(m, e), NEW k,
           KeepsAt(m, e, k)
    PROVE  KeepsAt(m, e, k)'
BY SameValues DEF KeepsAt

\* What is firm stays so, and someone keeps e, when an entity is quiet.
LEMMA SafeQuiet ==
    ASSUME Base, NEW e \in Entities \ misled, Safe(e), NobodyPasses(e), Quiet(e)
    PROVE  Safe(e)'
<1>1. \A n \in Nodes : SameAt(n, e)
    BY DEF Quiet
<1>2. ASSUME NEW k \in Nat, Firm(e, k) PROVE Firm(e, k)'
    BY <1>1, <1>2, KeepsSame DEF Firm
<1>3. ForwardedKept(e)'
    <2> SUFFICES ASSUME NEW n \in Nodes, node'[n].forwarded[e] # 0
                 PROVE  node'[n].parked[e] # None \/ Firm(e, node[n].forwarded[e])'
        BY DEF ForwardedKept
    <2>1. /\ node'[n].forwarded[e] = node[n].forwarded[e] /\ node'[n].parked[e] = node[n].parked[e]
          /\ node[n].forwarded[e] \in Nat
        BY <1>1, SameValues, AtEntity
    <2>2. PICK k \in Nat : k = node[n].forwarded[e] /\ k = node'[n].forwarded[e]
        BY <2>1
    <2>3. CASE node[n].parked[e] # None
        BY <2>1, <2>3
    <2>4. CASE Firm(e, k)
        BY <1>2, <2>2, <2>4
    <2> QED
        BY <2>1, <2>2, <2>3, <2>4 DEF Safe, ForwardedKept
<1>4. AckedKept(e)'
    <2> SUFFICES ASSUME NEW k \in Nat, Acked(e, k)' PROVE Firm(e, k)'
        BY DEF AckedKept
    <2>1. CASE Acked(e, k)
        BY <1>2, <2>1 DEF Safe, AckedKept
    <2>2. CASE Justified(e, k)
        <3>1. PICK t \in Nodes :
                  /\ Offered(e, RegionOf[t], k)
                  /\ \/ node[t].forwarded[e] # 0 /\ k <= node[t].forwarded[e]
                     \/ node[t].owned[e] = k
            BY <2>2 DEF Justified
        <3>2. k # 0 /\ RegionOf[t] \in Regions /\ node[t].forwarded[e] \in Nat
            BY <3>1, OfferedIs, AtEntity
        <3>3. CASE node[t].owned[e] = k
            <4>1. e \in node[t].logged
                BY <3>2, <3>3, AtEntity
            <4>2. KeepsAt(t, e, k)
                BY <3>3, <4>1 DEF KeepsAt
            <4> QED
                BY <1>2, <4>2 DEF Firm
        <3>4. CASE node[t].forwarded[e] # 0 /\ k <= node[t].forwarded[e]
            <4>1. k < node[t].forwarded[e]
                BY <3>1, <3>2, <3>4 DEF NobodyPasses
            <4>2. CASE node[t].parked[e] # None
                <5>1. KeepsAt(t, e, k)
                    BY <4>1, <4>2, AtEntity DEF KeepsAt
                <5> QED
                    BY <1>2, <5>1 DEF Firm
            <4>3. CASE Firm(e, node[t].forwarded[e])
                BY <1>2, <3>2, <3>4, <4>3, FirmDown
            <4> QED
                BY <3>4, <4>2, <4>3 DEF Safe, ForwardedKept
        <3> QED
            BY <3>1, <3>3, <3>4
    <2> QED
        BY <2>1, <2>2 DEF Quiet
<1>5. SomeoneKeeps(e)'
    BY <1>1, SameValues DEF Safe, SomeoneKeeps
<1> QED
    BY <1>3, <1>4, <1>5 DEF Safe

LEMMA SafeHands ==
    ASSUME Base, NEW e \in Entities \ misled, Safe(e),
           NEW n \in Nodes, NEW r \in Regions, Hands(e, n, r)
    PROVE  Safe(e)'
<1>1. PICK o \in Nat : /\ o = node[n].owned[e] /\ node'[n].parked[e] # None
                       /\ node'[n].parked[e].epoch = o + 1
    BY AtEntity DEF Hands
<1>2. \A m \in Nodes \ {n} : SameAt(m, e)
    BY DEF Hands
<1>3. ASSUME NEW k \in Nat, Firm(e, k) PROVE Firm(e, k)'
    <2>1. PICK m \in Nodes : KeepsAt(m, e, k)
        BY <1>3 DEF Firm
    <2>2. CASE m = n
        <3>1. o >= k
            BY <1>1, <2>1, <2>2, AtEntity DEF KeepsAt, Hands
        <3>2. KeepsAt(n, e, k)'
            BY <1>1, <3>1 DEF KeepsAt
        <3> QED
            BY <3>2 DEF Firm
    <2>3. CASE m # n
        <3>1. KeepsAt(m, e, k)'
            BY <1>2, <2>1, <2>3, KeepsSame
        <3> QED
            BY <3>1 DEF Firm
    <2> QED
        BY <2>2, <2>3
<1>4. ForwardedKept(e)'
    <2> SUFFICES ASSUME NEW m \in Nodes, node'[m].forwarded[e] # 0
                 PROVE  node'[m].parked[e] # None \/ Firm(e, node[m].forwarded[e])'
        BY DEF ForwardedKept
    <2>1. CASE m = n
        BY <1>1, <2>1
    <2>2. CASE m # n
        <3>1. PICK k \in Nat : /\ k = node[m].forwarded[e] /\ k = node'[m].forwarded[e]
                               /\ node'[m].parked[e] = node[m].parked[e]
            BY <1>2, <2>2, SameValues, AtEntity
        <3>2. node[m].parked[e] # None \/ Firm(e, k)
            BY <3>1 DEF Safe, ForwardedKept
        <3> QED
            BY <1>3, <3>1, <3>2
    <2> QED
        BY <2>1, <2>2
<1>5. AckedKept(e)'
    BY <1>3 DEF Hands, NoNewAck, Safe, AckedKept
<1>6. SomeoneKeeps(e)'
    BY <1>1 DEF SomeoneKeeps
<1> QED
    BY <1>4, <1>5, <1>6 DEF Safe

LEMMA SafeTakes ==
    ASSUME Base, NEW e \in Entities \ misled, Safe(e),
           NEW t \in Nodes, NEW k \in Nat, Takes(e, t, k)
    PROVE  Safe(e)'
<1>1. \A m \in Nodes \ {t} : SameAt(m, e)
    BY DEF Takes
<1>2. ASSUME NEW j \in Nat, j <= k PROVE Firm(e, j)'
    <2>1. KeepsAt(t, e, j)'
        BY <1>2 DEF Takes, KeepsAt
    <2> QED
        BY <2>1 DEF Firm
<1>3. ASSUME NEW j \in Nat, Firm(e, j) PROVE Firm(e, j)'
    <2>1. PICK m \in Nodes : KeepsAt(m, e, j)
        BY <1>3 DEF Firm
    <2>2. CASE m = t
        <3>1. node[t].parked[e] # None /\ node[t].parked[e].epoch > j
            BY <2>1, <2>2, AtEntity DEF KeepsAt, Takes
        <3>2. j <= k
            BY <3>1, AtEntity DEF Takes
        <3> QED
            BY <1>2, <3>2
    <2>3. CASE m # t
        <3>1. KeepsAt(m, e, j)'
            BY <1>1, <2>1, <2>3, KeepsSame
        <3> QED
            BY <3>1 DEF Firm
    <2> QED
        BY <2>2, <2>3
<1>4. ForwardedKept(e)'
    <2> SUFFICES ASSUME NEW m \in Nodes, node'[m].forwarded[e] # 0
                 PROVE  node'[m].parked[e] # None \/ Firm(e, node[m].forwarded[e])'
        BY DEF ForwardedKept
    <2>1. m # t
        BY DEF Takes
    <2>2. PICK j \in Nat : /\ j = node[m].forwarded[e] /\ j = node'[m].forwarded[e]
                           /\ node'[m].parked[e] = node[m].parked[e]
        BY <1>1, <2>1, SameValues, AtEntity
    <2>3. node[m].parked[e] # None \/ Firm(e, j)
        BY <2>2 DEF Safe, ForwardedKept
    <2> QED
        BY <1>3, <2>2, <2>3
<1>5. AckedKept(e)'
    BY <1>2, <1>3 DEF Takes, Safe, AckedKept
<1>6. SomeoneKeeps(e)'
    BY DEF Takes, SomeoneKeeps
<1> QED
    BY <1>4, <1>5, <1>6 DEF Safe

\* What an ack forgets is firm elsewhere, or the ack was another's.
LEMMA SafeForgets ==
    ASSUME Base, NEW e \in Entities \ misled, e \notin misled', Safe(e),
           NEW n \in Nodes, NEW k \in Nat, Forgets(e, n, k)
    PROVE  Safe(e)'
<1>1. /\ e \notin node[n].logged /\ e \notin node'[n].logged /\ node'[n].parked[e] = None
      /\ node[n].parked[e] = None \/ node[n].parked[e].epoch = k
      /\ \A m \in Nodes \ {n} : SameAt(m, e)
    BY DEF Forgets
<1>2. PICK m \in Nodes : KeepsAt(m, e, k)
    BY DEF Forgets, Safe, AckedKept, Firm
<1>3. m # n
    BY <1>1, <1>2 DEF KeepsAt
<1>4. ASSUME NEW j \in Nat, j <= k PROVE Firm(e, j)'
    <2>1. KeepsAt(m, e, j)
        BY <1>2, <1>4, AtEntity DEF KeepsAt
    <2>2. KeepsAt(m, e, j)'
        BY <1>1, <1>3, <2>1, KeepsSame
    <2> QED
        BY <2>2 DEF Firm
<1>5. ASSUME NEW j \in Nat, Firm(e, j) PROVE Firm(e, j)'
    <2>1. PICK l \in Nodes : KeepsAt(l, e, j)
        BY <1>5 DEF Firm
    <2>2. CASE l = n
        <3>1. j <= k
            BY <1>1, <2>1, <2>2 DEF KeepsAt
        <3> QED
            BY <1>4, <3>1
    <2>3. CASE l # n
        <3>1. KeepsAt(l, e, j)'
            BY <1>1, <2>1, <2>3, KeepsSame
        <3> QED
            BY <3>1 DEF Firm
    <2> QED
        BY <2>2, <2>3
<1>6. ForwardedKept(e)'
    <2> SUFFICES ASSUME NEW l \in Nodes, node'[l].forwarded[e] # 0
                 PROVE  node'[l].parked[e] # None \/ Firm(e, node[l].forwarded[e])'
        BY DEF ForwardedKept
    <2>1. PICK j \in Nat : j = node[l].forwarded[e] /\ j = node'[l].forwarded[e]
        BY <1>1, SameValues, AtEntity DEF Forgets
    <2>2. node[l].parked[e] # None \/ Firm(e, j)
        BY <2>1 DEF Safe, ForwardedKept
    <2>3. CASE l = n
        <3>1. node[n].parked[e] # None => j = k
            BY <1>1, <2>1, <2>3, AtEntity
        <3> QED
            BY <1>4, <1>5, <2>1, <2>2, <2>3, <3>1
    <2>4. CASE l # n
        <3>1. node'[l].parked[e] = node[l].parked[e]
            BY <1>1, <2>4, SameValues
        <3> QED
            BY <1>5, <2>1, <2>2, <3>1
    <2> QED
        BY <2>3, <2>4
<1>7. AckedKept(e)'
    BY <1>5 DEF Forgets, NoNewAck, Safe, AckedKept
<1>8. SomeoneKeeps(e)'
    BY <1>1, <1>2, <1>3, SameValues DEF KeepsAt, SomeoneKeeps
<1> QED
    BY <1>6, <1>7, <1>8 DEF Safe

LEMMA SafeStep ==
    ASSUME Base, Stepped, NEW e \in Entities, e \notin misled', Safe(e), NobodyPasses(e)
    PROVE  Safe(e)'
<1>1. e \in Entities \ misled
    BY DEF Stepped
<1>2. CASE Quiet(e)
    BY <1>1, <1>2, SafeQuiet
<1>3. ASSUME NEW n \in Nodes, NEW r \in Regions, Hands(e, n, r) PROVE Safe(e)'
    BY <1>1, <1>3, SafeHands
<1>4. ASSUME NEW t \in Nodes, NEW k \in Nat, Takes(e, t, k) PROVE Safe(e)'
    BY <1>1, <1>4, SafeTakes
<1>5. ASSUME NEW n \in Nodes, NEW k \in Nat, Forgets(e, n, k) PROVE Safe(e)'
    BY <1>1, <1>5, SafeForgets
<1> QED
    BY <1>2, <1>3, <1>4, <1>5 DEF Stepped, Affects

LEMMA SafeInit == ASSUME Init, NEW e \in Entities PROVE Safe(e)
<1>1. ForwardedKept(e) /\ AckedKept(e)
    BY InitEntity DEF ForwardedKept, AckedKept
<1>2. SomeoneKeeps(e)
    BY InitEntity DEF SomeoneKeeps
<1> QED
    BY <1>1, <1>2 DEF Safe

(***************************************************************************)
(* Any number of regions.                                                  *)
(***************************************************************************)
Settled == \A e \in Entities \ (misled \cup twins) : Sound(e) /\ Safe(e)
LEMMA SettledHolds == Spec => []Settled
<1>1. Init => Settled
    BY SoundInit, SafeInit DEF Settled
<1>2. Base /\ Settled /\ [Next]_vars => Settled'
    <2> SUFFICES ASSUME Base, Settled, [Next]_vars, NEW e \in Entities,
                        e \notin misled' \cup twins'
                 PROVE  Sound(e)' /\ Safe(e)'
        BY DEF Settled
    <2>1. Stepped
        BY BaseStep
    <2>2. Sound(e) /\ Safe(e) /\ NobodyPasses(e)
        BY <2>1 DEF Stepped, Settled, Sound
    <2> QED
        BY <2>1, <2>2, SoundStep, SafeStep
<1> QED
    BY <1>1, <1>2, BaseHolds, PTL DEF Spec

\* An entity no ack has misled a log about, and no two incarnations of a region have
\* adopted, has one owner at most, and someone who has not exited has it in its log,
\* owned or parked: whatever breaks, crashes, freezes, drains and is resent.
OwnedOnceAndKept ==
    \A e \in Entities \ (misled \cup twins) :
        Cardinality(OwnersOf(e)) <= 1 /\ \E n \in Nodes : KeptBy(n, e)

\* At most one node owns an entity if any two that do are the same.
LEMMA OneOwner ==
    ASSUME NEW e \in Entities, OneOwns(e)
    PROVE  Cardinality(OwnersOf(e)) <= 1
<1>1. CASE OwnersOf(e) = {}
    BY <1>1, FS_EmptySet
<1>2. CASE OwnersOf(e) # {}
    <2>1. PICK o \in Nodes : o \in OwnersOf(e)
        BY <1>2 DEF OwnersOf
    <2>2. OwnersOf(e) = {o}
        BY <2>1 DEF OwnersOf, OneOwns
    <2>3. Cardinality({o}) = 1
        BY FS_Singleton
    <2> QED
        BY <2>2, <2>3
<1> QED
    BY <1>1, <1>2
LEMMA SomeoneIs ==
    ASSUME Base, NEW e \in Entities, SomeoneKeeps(e)
    PROVE  \E n \in Nodes : KeptBy(n, e)
BY DEF SomeoneKeeps, KeptBy, Base, Wiring

THEOREM OwnedOnce == Spec => []OwnedOnceAndKept
<1>1. Base /\ Settled => OwnedOnceAndKept
    BY OneOwner, SomeoneIs DEF Settled, OwnedOnceAndKept, Sound, Safe
<1> QED
    BY <1>1, BaseHolds, SettledHolds, PTL

(***************************************************************************)
(* Two regions.  Then an epoch tells where an entity is: it is odd in the  *)
(* region it started from.                                                 *)
(***************************************************************************)
TwoRegions == \A q, r, s \in Regions : q = r \/ q = s \/ r = s

Odd(k) == k % 2 = 1
Home(e) == RegionOf[conf.home[e]]
Parity(e) ==
    /\ \A n \in Nodes :
          /\ node[n].owned[e] # 0 => (Odd(node[n].owned[e]) <=> RegionOf[n] = Home(e))
          /\ node[n].forwarded[e] # 0 => (Odd(node[n].forwarded[e]) <=> RegionOf[n] # Home(e))
    /\ \A r \in Regions, k \in Nat : Offered(e, r, k) => (Odd(k) <=> r = Home(e))

LEMMA OddNext == ASSUME NEW k \in Nat PROVE Odd(k + 1) <=> ~Odd(k)
BY DEF Odd

LEMMA ParityStep ==
    ASSUME TwoRegions, Base, Stepped, NEW e \in Entities, Parity(e)
    PROVE  Parity(e)'
<1>1. PICK h0 \in Regions : h0 = Home(e) /\ h0 = Home(e)'
    <2>1. conf.home[e] \in Nodes
        BY FederationConstants DEF Base, TypeOK
    <2> QED
        BY <2>1, AtNode DEF Home, Stepped
<1>2. ASSUME NEW n \in Nodes, SameAt(n, e)
      PROVE  /\ node'[n].owned[e] # 0 => (Odd(node[n].owned[e])' <=> RegionOf[n] = h0)
             /\ node'[n].forwarded[e] # 0 => (Odd(node[n].forwarded[e])' <=> RegionOf[n] # h0)
    BY <1>1, <1>2 DEF SameAt, Parity, Odd
<1>3. ASSUME \A n \in Nodes :
                 /\ node'[n].owned[e] # 0 => (Odd(node[n].owned[e])' <=> RegionOf[n] = h0)
                 /\ node'[n].forwarded[e] # 0 => (Odd(node[n].forwarded[e])' <=> RegionOf[n] # h0),
             \A r \in Regions, k \in Nat : Offered(e, r, k)' => (Odd(k) <=> r = h0)
      PROVE  Parity(e)'
    BY <1>1, <1>3 DEF Parity, Odd
<1>4. ASSUME NoNewOffer(e)
      PROVE  \A r \in Regions, k \in Nat : Offered(e, r, k)' => (Odd(k) <=> r = h0)
    BY <1>1, <1>4 DEF NoNewOffer, Parity
<1>5. CASE Quiet(e)
    BY <1>2, <1>3, <1>4, <1>5 DEF Quiet
<1>6. ASSUME NEW n \in Nodes, NEW r \in Regions, Hands(e, n, r) PROVE Parity(e)'
    <2>1. PICK o \in Nat : o = node[n].owned[e] /\ o # 0
        BY <1>6, AtEntity DEF Hands
    <2>2. Odd(o + 1) <=> RegionOf[n] # h0
        BY <1>1, <2>1, OddNext DEF Parity
    <2>3. RegionOf[n] # h0 <=> r = h0
        BY <1>6, AtEntity DEF Hands, TwoRegions
    <2>4. \A q \in Regions, k \in Nat : Offered(e, q, k)' => (Odd(k) <=> q = h0)
        BY <1>1, <1>6, <2>1, <2>2, <2>3 DEF Hands, Parity
    <2>5. /\ node'[n].owned[e] # 0 => (Odd(node[n].owned[e])' <=> RegionOf[n] = h0)
          /\ node'[n].forwarded[e] # 0 => (Odd(node[n].forwarded[e])' <=> RegionOf[n] # h0)
        BY <1>6, <2>1, <2>2 DEF Hands, Odd
    <2> QED
        BY <1>2, <1>3, <1>6, <2>4, <2>5 DEF Hands
<1>7. ASSUME NEW t \in Nodes, NEW k \in Nat, Takes(e, t, k) PROVE Parity(e)'
    <2>1. Odd(k) <=> RegionOf[t] = h0
        BY <1>1, <1>7, AtEntity DEF Takes, Parity
    <2>2. /\ node'[t].owned[e] # 0 => (Odd(node[t].owned[e])' <=> RegionOf[t] = h0)
          /\ node'[t].forwarded[e] # 0 => (Odd(node[t].forwarded[e])' <=> RegionOf[t] # h0)
        BY <1>7, <2>1 DEF Takes, Odd
    <2> QED
        BY <1>2, <1>3, <1>4, <1>7, <2>2 DEF Takes
<1>8. ASSUME NEW n \in Nodes, NEW k \in Nat, Forgets(e, n, k) PROVE Parity(e)'
    <2>1. /\ node'[n].owned[e] # 0 => (Odd(node[n].owned[e])' <=> RegionOf[n] = h0)
          /\ node'[n].forwarded[e] # 0 => (Odd(node[n].forwarded[e])' <=> RegionOf[n] # h0)
        BY <1>1, <1>8 DEF Forgets, Parity, Odd
    <2> QED
        BY <1>2, <1>3, <1>4, <1>8, <2>1 DEF Forgets
<1> QED
    BY <1>5, <1>6, <1>7, <1>8 DEF Stepped, Affects

\* What is offered to a region is of another parity than what it has forwarded.
LEMMA ParityApart ==
    ASSUME Base, NEW e \in Entities, Parity(e)
    PROVE  NobodyPasses(e)
BY OfferedIs DEF Parity, NobodyPasses

\* The region of the owner is behind what it has offered, and every offer to the other
\* region is past; of offers to both regions one is past; and an offer is past, or the
\* offer before it is, in the region it came from.
OwnerApart(e) ==
    \A o \in Nodes, r \in Regions, k \in Nat :
        node[o].owned[e] # 0 /\ Offered(e, r, k) =>
            \/ r # RegionOf[o] /\ Past(e, r, k)
            \/ r = RegionOf[o] /\ \E q \in Regions \ {r} : Past(e, q, k - 1)
OffersApart(e) ==
    \A q, r \in Regions, j, k \in Nat :
        Offered(e, q, j) /\ Offered(e, r, k) /\ q # r => Past(e, q, j) \/ Past(e, r, k)
OffersFollow(e) ==
    \A r \in Regions, k \in Nat :
        Offered(e, r, k) => Past(e, r, k) \/ \E q \in Regions \ {r} : Past(e, q, k - 1)
Paired(e) == OneOwns(e) /\ OwnerApart(e) /\ OffersApart(e) /\ OffersFollow(e)

\* Nothing is handed over or adopted, and an owner may lose what it had not logged.
LEMMA PairedKept ==
    ASSUME Base, NEW e \in Entities, Paired(e), NoNewOffer(e),
           \A n \in Nodes : /\ node'[n].forwarded[e] = node[n].forwarded[e]
                            /\ node'[n].owned[e] \in {node[n].owned[e], 0}
    PROVE  Paired(e)'
<1>1. \A r \in Regions, k \in Nat : Offered(e, r, k)' => Offered(e, r, k)
    BY DEF NoNewOffer
<1>2. OneOwns(e)'
    BY DEF Paired, OneOwns
<1>3. CASE \A n \in Nodes : node'[n].owned[e] = node[n].owned[e]
    <2>1. \A r, k : Past(e, r, k) => Past(e, r, k)'
        BY <1>3 DEF Past
    <2>2. OwnerApart(e)'
        BY <1>1, <1>3, <2>1 DEF Paired, OwnerApart
    <2>3. OffersApart(e)'
        BY <1>1, <2>1 DEF Paired, OffersApart
    <2>4. OffersFollow(e)'
        BY <1>1, <2>1 DEF Paired, OffersFollow
    <2> QED
        BY <1>2, <2>2, <2>3, <2>4 DEF Paired
<1>4. ASSUME NEW o \in Nodes, node'[o].owned[e] # node[o].owned[e] PROVE Paired(e)'
    <2>1. node[o].owned[e] # 0 /\ node'[o].owned[e] = 0
        BY <1>4
    <2>2. \A m \in Nodes \ {o} : node[m].owned[e] = 0 /\ node'[m].owned[e] = 0
        BY <2>1 DEF Paired, OneOwns
    <2>3. ASSUME NEW r, NEW k, r # RegionOf[o], Past(e, r, k) PROVE Past(e, r, k)'
        BY <2>2, <2>3 DEF Past
    <2>4. OwnerApart(e)'
        BY <2>1, <2>2 DEF OwnerApart
    <2>5. OffersApart(e)'
        BY <1>1, <2>1, <2>3 DEF Paired, OwnerApart, OffersApart
    <2>6. OffersFollow(e)'
        BY <1>1, <2>1, <2>3 DEF Paired, OwnerApart, OffersFollow
    <2> QED
        BY <1>2, <2>4, <2>5, <2>6 DEF Paired
<1> QED
    BY <1>3, <1>4

LEMMA PairedHands ==
    ASSUME TwoRegions, Base, NEW e \in Entities, Paired(e), Parity(e),
           NEW n \in Nodes, NEW r \in Regions, Hands(e, n, r)
    PROVE  Paired(e)'
<1>1. PICK o \in Nat \ {0} : /\ o = node[n].owned[e]
                             /\ node'[n].forwarded[e] = o + 1 /\ node[n].forwarded[e] = 0
    BY AtEntity DEF Hands
<1>2. RegionOf[n] \in Regions \ {r} /\ node'[n].owned[e] = 0
    BY AtEntity DEF Hands
<1>3. \A m \in Nodes \ {n} : /\ node[m].owned[e] = 0 /\ node'[m].owned[e] = 0
                            /\ node'[m].forwarded[e] = node[m].forwarded[e]
                            /\ node[m].forwarded[e] \in Nat
    BY <1>1, AtEntity DEF Hands, SameAt, Paired, OneOwns
<1>4. ASSUME NEW q \in Regions, NEW j \in Nat, Past(e, q, j) PROVE Past(e, q, j)'
    <2>1. PICK m \in Nodes : RegionOf[m] = q
              /\ (node[m].owned[e] >= j \/ node[m].forwarded[e] > j)
        BY <1>4 DEF Past
    <2>2. CASE m = n
        <3>1. node'[n].forwarded[e] > j
            BY <1>1, <2>1, <2>2
        <3> QED
            BY <2>1, <2>2, <3>1 DEF Past
    <2>3. CASE m # n
        <3>1. node'[m].owned[e] = node[m].owned[e] /\ node'[m].forwarded[e] = node[m].forwarded[e]
            BY <1>3, <2>3
        <3> QED
            BY <2>1, <3>1 DEF Past
    <2> QED
        BY <2>2, <2>3
<1>5. \A q \in Regions, j \in Nat : Offered(e, q, j)' =>
          (Offered(e, q, j) /\ j # 0) \/ (q = r /\ j = o + 1)
    BY <1>1, OfferedIs DEF Hands
<1>6. ASSUME NEW j \in Nat, j <= o PROVE Past(e, RegionOf[n], j)'
    <2>1. node'[n].forwarded[e] > j
        BY <1>1, <1>6
    <2> QED
        BY <2>1 DEF Past
<1>7. OneOwns(e)' /\ OwnerApart(e)'
    BY <1>2, <1>3 DEF OneOwns, OwnerApart
<1>8. OffersFollow(e)'
    <2> SUFFICES ASSUME NEW q \in Regions, NEW j \in Nat, Offered(e, q, j)'
                 PROVE  Past(e, q, j)' \/ \E s \in Regions \ {q} : Past(e, s, j - 1)'
        BY DEF OffersFollow
    <2>1. CASE Offered(e, q, j) /\ j # 0
        <3>1. j - 1 \in Nat
            BY <2>1
        <3> QED
            BY <1>4, <2>1, <3>1 DEF Paired, OffersFollow
    <2>2. CASE q = r /\ j = o + 1
        <3>1. j - 1 = o /\ Past(e, RegionOf[n], o)'
            BY <1>1, <1>6, <2>2
        <3> QED
            BY <1>2, <2>2, <3>1
    <2> QED
        BY <1>5, <2>1, <2>2
<1>9. ASSUME NEW q \in Regions \ {r}, NEW j \in Nat \ {0}, Offered(e, q, j)
      PROVE  Past(e, q, j)' \/ Past(e, r, o + 1)'
    <2>1. q = RegionOf[n]
        BY <1>2 DEF TwoRegions
    <2>2. CASE j <= o
        BY <1>6, <2>1, <2>2
    <2>3. CASE j > o
        <3>1. j # o + 1
            BY <1>1, <1>9, <2>1, OddNext DEF Parity
        <3>2. PICK s \in Regions \ {q} : Past(e, s, j - 1)
            BY <1>1, <1>9, <2>1 DEF Paired, OwnerApart
        <3>3. s = r
            BY <1>2, <2>1 DEF TwoRegions
        <3>4. PICK m \in Nodes : RegionOf[m] = r
                  /\ (node[m].owned[e] >= j - 1 \/ node[m].forwarded[e] > j - 1)
            BY <3>2, <3>3 DEF Past
        <3>5. m # n
            BY <1>2, <3>4
        <3>6. node[m].forwarded[e] > o + 1
            BY <1>1, <1>3, <2>3, <3>1, <3>4, <3>5
        <3>7. node'[m].forwarded[e] > o + 1
            BY <1>3, <3>5, <3>6
        <3> QED
            BY <3>4, <3>7 DEF Past
    <2> QED
        BY <2>2, <2>3
<1>10. OffersApart(e)'
    <2> SUFFICES ASSUME NEW q \in Regions, NEW s \in Regions, NEW j \in Nat, NEW k \in Nat,
                        Offered(e, q, j)', Offered(e, s, k)', q # s
                 PROVE  Past(e, q, j)' \/ Past(e, s, k)'
        BY DEF OffersApart
    <2>1. CASE Offered(e, q, j) /\ Offered(e, s, k)
        BY <1>4, <2>1 DEF Paired, OffersApart
    <2>2. CASE q = r /\ j = o + 1
        BY <1>5, <1>9, <2>2
    <2>3. CASE s = r /\ k = o + 1
        BY <1>5, <1>9, <2>3
    <2> QED
        BY <1>5, <2>1, <2>2, <2>3
<1> QED
    BY <1>7, <1>8, <1>10 DEF Paired

LEMMA PairedTakes ==
    ASSUME TwoRegions, Base, NEW e \in Entities, Paired(e), e \notin twins',
           NEW t \in Nodes, NEW k \in Nat, Takes(e, t, k)
    PROVE  Paired(e)'
<1> DEFINE R == RegionOf[t]
<1>1. /\ R \in Regions /\ k # 0 /\ Offered(e, R, k)
      /\ node'[t].owned[e] = k /\ node[t].owned[e] = 0
    BY AtEntity DEF Takes
<1>2. ~Past(e, R, k)
    BY TakenIsNotPast
<1>3. ASSUME NEW m \in Nodes PROVE node[m].owned[e] = 0
    <2>1. CASE RegionOf[m] = R
        BY <1>1, <2>1 DEF Takes
    <2>2. CASE RegionOf[m] # R
        BY <1>1, <1>2, <2>2 DEF Paired, OwnerApart
    <2> QED
        BY <2>1, <2>2
<1>4. \A m \in Nodes \ {t} : /\ node'[m].owned[e] = 0
                            /\ node'[m].forwarded[e] = node[m].forwarded[e]
    BY <1>3 DEF Takes, SameAt
<1>5. ASSUME NEW q, NEW j, q # R, Past(e, q, j) PROVE Past(e, q, j)'
    BY <1>3, <1>4, <1>5 DEF Past
<1>6. \A q \in Regions, j \in Nat : Offered(e, q, j)' => Offered(e, q, j) /\ j # 0
    BY OfferedIs DEF Takes, NoNewOffer
<1>7. ASSUME NEW q \in Regions, NEW j \in Nat, Offered(e, q, j)', q # R PROVE Past(e, q, j)'
    BY <1>1, <1>2, <1>5, <1>6, <1>7 DEF Paired, OffersApart
<1>8. ASSUME NEW j \in Nat, Offered(e, R, j)'
      PROVE  \E q \in Regions \ {R} : Past(e, q, j - 1)'
    <2>1. Offered(e, R, j) /\ j # 0
        BY <1>1, <1>6, <1>8
    <2>2. CASE \E q \in Regions \ {R} : Past(e, q, j - 1)
        BY <1>5, <2>2
    <2>3. CASE Past(e, R, j)
        <3>1. PICK m \in Nodes : RegionOf[m] = R /\ node[m].forwarded[e] > j
            BY <1>3, <2>1, <2>3 DEF Past
        <3>2. node[m].forwarded[e] <= k
            BY <1>2, <3>1, AtEntity DEF Past
        <3>3. j < k
            BY <3>1, <3>2, AtEntity
        <3>4. PICK q \in Regions \ {R} : Past(e, q, k - 1)
            BY <1>1, <1>2 DEF Paired, OffersFollow
        <3>5. Past(e, q, j - 1)
            <4>1. PICK l \in Nodes : RegionOf[l] = q
                      /\ (node[l].owned[e] >= k - 1 \/ node[l].forwarded[e] > k - 1)
                BY <3>4 DEF Past
            <4>2. node[l].owned[e] >= j - 1 \/ node[l].forwarded[e] > j - 1
                BY <1>1, <3>3, <4>1, AtEntity
            <4> QED
                BY <4>1, <4>2 DEF Past
        <3> QED
            BY <1>5, <3>5
    <2> QED
        BY <1>1, <2>1, <2>2, <2>3 DEF Paired, OffersFollow
<1>9. OneOwns(e)'
    BY <1>4 DEF OneOwns
<1>10. OwnerApart(e)'
    <2> SUFFICES ASSUME NEW o \in Nodes, NEW r \in Regions, NEW j \in Nat,
                        node'[o].owned[e] # 0, Offered(e, r, j)'
                 PROVE  \/ r # RegionOf[o] /\ Past(e, r, j)'
                        \/ r = RegionOf[o] /\ \E q \in Regions \ {r} : Past(e, q, j - 1)'
        BY DEF OwnerApart
    <2>1. o = t
        BY <1>4
    <2> QED
        BY <1>7, <1>8, <2>1
<1>11. OffersApart(e)'
    <2> SUFFICES ASSUME NEW q \in Regions, NEW r \in Regions, NEW j \in Nat, NEW i \in Nat,
                        Offered(e, q, j)', Offered(e, r, i)', q # r
                 PROVE  Past(e, q, j)' \/ Past(e, r, i)'
        BY DEF OffersApart
    <2> QED
        BY <1>7
<1>12. OffersFollow(e)'
    <2> SUFFICES ASSUME NEW r \in Regions, NEW j \in Nat, Offered(e, r, j)'
                 PROVE  Past(e, r, j)' \/ \E q \in Regions \ {r} : Past(e, q, j - 1)'
        BY DEF OffersFollow
    <2> QED
        BY <1>7, <1>8
<1> QED
    BY <1>9, <1>10, <1>11, <1>12 DEF Paired

LEMMA PairedStep ==
    ASSUME TwoRegions, Base, Stepped, NEW e \in Entities, Paired(e), Parity(e), e \notin twins'
    PROVE  Paired(e)'
<1>1. CASE Quiet(e)
    BY <1>1, PairedKept DEF Quiet, SameAt
<1>2. ASSUME NEW n \in Nodes, NEW r \in Regions, Hands(e, n, r) PROVE Paired(e)'
    BY <1>2, PairedHands
<1>3. ASSUME NEW t \in Nodes, NEW k \in Nat, Takes(e, t, k) PROVE Paired(e)'
    BY <1>3, PairedTakes
<1>4. ASSUME NEW n \in Nodes, NEW k \in Nat, Forgets(e, n, k) PROVE Paired(e)'
    BY <1>4, PairedKept DEF Forgets, SameAt
<1> QED
    BY <1>1, <1>2, <1>3, <1>4 DEF Stepped, Affects

LEMMA PairedInit ==
    ASSUME Init, NEW e \in Entities
    PROVE  Paired(e) /\ Parity(e)
<1>1. Paired(e)
    BY InitEntity DEF Paired, OneOwns, OwnerApart, OffersApart, OffersFollow
<1>2. Odd(1)
    BY DEF Odd
<1>3. Parity(e)
    BY <1>2, InitEntity DEF Parity, Home
<1> QED
    BY <1>1, <1>3

TwoSided ==
    /\ \A e \in Entities : Parity(e)
    /\ \A e \in Entities \ misled : Safe(e)
    /\ \A e \in Entities \ twins : Paired(e)
LEMMA TwoSidedHolds == ASSUME TwoRegions PROVE Spec => []TwoSided
<1>1. Init => TwoSided
    BY PairedInit, SafeInit DEF TwoSided
<1>2. Base /\ TwoSided /\ [Next]_vars => TwoSided'
    <2> SUFFICES ASSUME Base, TwoSided, [Next]_vars, NEW e \in Entities
                 PROVE  /\ Parity(e)'
                        /\ e \notin misled' => Safe(e)'
                        /\ e \notin twins' => Paired(e)'
        BY DEF TwoSided
    <2>1. Stepped /\ Parity(e) /\ (e \notin misled' => Safe(e)) /\ (e \notin twins' => Paired(e))
        BY BaseStep DEF Stepped, TwoSided
    <2> QED
        BY <2>1, ParityStep, ParityApart, SafeStep, PairedStep
<1> QED
    BY <1>1, <1>2, BaseHolds, PTL DEF Spec

\* Between two regions an entity has one owner at most, unless two incarnations of one
\* region have adopted the same hand-off: whatever else an ack has misled a log about.
THEOREM TwoRegionsSingleOwner == ASSUME TwoRegions PROVE Spec => []SingleOwner
<1>1. TwoSided => SingleOwner
    BY OneOwner DEF TwoSided, Paired, SingleOwner
<1> QED
    BY <1>1, TwoSidedHolds, PTL

\* Between two regions no broker exits, and no ack is logged, before someone who stays
\* has the entity in its log, owned or parked, unless an ack was another's or late.
THEOREM TwoRegionsKept == ASSUME TwoRegions PROVE Spec => []Kept
<1>1. Base /\ TwoSided => Kept
    BY SomeoneIs DEF TwoSided, Safe, Kept
<1> QED
    BY <1>1, BaseHolds, TwoSidedHolds, PTL

\* Every variable has its type, whatever the environment does.
THEOREM TypeCorrect == Spec => []TypeOK
BY BaseHolds, PTL DEF Base
=============================================================================
