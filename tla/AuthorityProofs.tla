-------------------------- MODULE AuthorityProofs --------------------------
(***************************************************************************)
(* Theorems of Authority, for every set of entities, regions, workers,     *)
(* requests and deployments.                                               *)
(***************************************************************************)
EXTENDS Authority, WellFoundedInduction, TLAPS

(***************************************************************************)
(* The inductive invariant.                                                *)
(***************************************************************************)
\* One hand-off of an entity is staged at a time.
OneHandoff ==
    \A i, j \in DOMAIN handoffs : handoffs[i].eid = handoffs[j].eid => i = j

\* What is staged follows from what is published, unless the authority moved since.
StagedAgrees ==
    \A i \in DOMAIN handoffs : LET h == handoffs[i] IN
        /\ h.pos = ent[h.eid].pos
        /\ h.eid \notin overtaken =>
              /\ h.auth = Advance(ent[h.eid].auth, h.old, h.new)
              /\ h.moved = Moved(ent[h.eid].auth, h.old)
              /\ h.moved = {} \/ h.old = Serves[ent[h.eid].region]

\* The log is not behind the epochs in memory, nor behind those that are staged.
DiskAhead ==
    \A e \in Entities \ (overtaken \cup unlogged), c \in Comps :
        /\ disk[e].auth[c].epoch >= ent[e].auth[c].epoch
        /\ \A i \in DOMAIN handoffs :
              handoffs[i].eid = e => disk[e].auth[c].epoch >= handoffs[i].auth[c].epoch

\* A command a worker still has, and a pending one it would be taken to answer.
Matched ==
    \A m \in inbox : LET p == pending[m.req] IN
        p # None /\ p.owner = m.owner /\ p.eid = m.eid => p.serial = m.serial \/ p.again

WritesOf(e) == {i \in DOMAIN updates : updates[i].eid = e}
IsSparse(st) == st.auth["pos"].mode = "sparse"
\* Where e is, will be after the flush, or comes back; and whether clients may write it.
Places(e) == {ent[e].pos, disk[e].pos} \cup {updates[i].pos : i \in WritesOf(e)}
MaySparse(e) == IsSparse(ent[e]) \/ IsSparse(disk[e])

\* While no window held the writes of two bodies.
OneBody == ~blind => \A i, j \in DOMAIN updates : updates[i].eid = updates[j].eid
\* A broker that takes writes has in its log the modes and the positions it has in
\* memory, or is about to have.
SparseAgrees ==
    \A e \in Entities \ overtaken : ~degraded /\ IsSparse(disk[e]) => IsSparse(ent[e])
PlaceAgrees ==
    \A e \in Entities \ overtaken :
        /\ ~degraded /\ WritesOf(e) = {} => disk[e].pos = ent[e].pos
        /\ WritesOf(e) # {} =>
              /\ ~Staged(e)
              /\ \E i \in WritesOf(e) : (\A j \in WritesOf(e) : j <= i) /\ disk[e].pos = updates[i].pos
\* Bodies of clients are apart, wherever each of them may turn out to be.
PlacesApart ==
    ~blind => \A e, o \in conf.ids \ overtaken :
        e # o /\ MaySparse(e) /\ MaySparse(o) =>
            \A x \in Places(e), y \in Places(o) : Distance(x, y) > ContactRadius

(***************************************************************************)
(* Choosing a largest member.                                              *)
(***************************************************************************)
Less == {ss \in Nat \X Nat : ss[1] < ss[2]}

\* Every non-empty set of naturals has a least element.
LEMMA LeastExists ==
    ASSUME NEW T, T \subseteq Nat, T # {}
    PROVE  \E x \in T : \A y \in T : x <= y
<1>1. IsWellFoundedOn(Less, Nat)
    BY NatLessThanWellFounded, Zenon DEF OpToRel, Less
<1>2. PICK x \in T : \A y \in T : ~(<<y, x>> \in Less)
    BY <1>1, WFMin, Zenon
<1>3. \A y \in T : ~(y < x)
    BY <1>2 DEF Less
<1> QED
    BY <1>3

\* The largest of a non-empty set of indexes up to n.
LEMMA MaxOfIndexes ==
    ASSUME NEW n \in Nat, NEW S, S \subseteq 1 .. n, S # {}
    PROVE  Max(S) \in S /\ \A j \in S : j <= Max(S)
<1> DEFINE T == {n - i : i \in S}
<1>1. T \subseteq Nat
    OBVIOUS
<1>2. T # {}
    <2>1. PICK i \in S : TRUE
        OBVIOUS
    <2>2. n - i \in T
        OBVIOUS
    <2> QED
        BY <2>2
<1>3. PICK x \in T : \A y \in T : x <= y
    <2> HIDE DEF T
    <2> QED
        BY <1>1, <1>2, LeastExists
<1>4. PICK i \in S : x = n - i
    OBVIOUS
<1>5. \A j \in S : n - i <= n - j
    BY <1>3, <1>4
<1>6. \A j \in S : i >= j
    <2> SUFFICES ASSUME NEW j \in S PROVE i >= j
        OBVIOUS
    <2>1. i \in Int /\ j \in Int /\ n \in Int
        OBVIOUS
    <2> QED
        BY <1>5, <2>1
<1>7. \E k \in S : \A j \in S : k >= j
    BY <1>6
<1>8. Max(S) \in S /\ \A j \in S : Max(S) >= j
    BY <1>7 DEF Max
<1>9. Max(S) \in Int /\ \A j \in S : j \in Int
    <2>1. \A j \in S : j \in Int
        OBVIOUS
    <2> QED
        BY <1>8, <2>1
<1> QED
    BY <1>8, <1>9

(***************************************************************************)
(* Authority maps.                                                         *)
(***************************************************************************)
LEMMA CompsAre == Comps = {"pos", "gear"} /\ "pos" # "gear"
BY DEF Comps

\* The epoch a physics island goes to is above the epochs of all of it.
LEMMA TopEpochAbove ==
    ASSUME NEW auth \in AuthorityType
    PROVE  /\ TopEpoch(auth) \in Nat \ {0}
           /\ \A c \in Island(auth) : auth[c].epoch <= TopEpoch(auth)
<1> DEFINE S == {auth[c].epoch : c \in IF Island(auth) = {} THEN {"pos"} ELSE Island(auth)}
           p == auth["pos"].epoch
           g == auth["gear"].epoch
<1>1. p \in Nat \ {0} /\ g \in Nat \ {0}
    BY DEF AuthorityType, Comps
<1>2. Island(auth) \subseteq Comps
    BY DEF Island
<1>3. S \in {{p}, {g}, {p, g}}
    <2>1. CASE Island(auth) = {}
        BY <2>1
    <2>2. CASE Island(auth) = {"pos"}
        BY <2>2
    <2>3. CASE Island(auth) = {"gear"}
        BY <2>3
    <2>4. CASE Island(auth) = {"pos", "gear"}
        BY <2>4
    <2> QED
        BY <1>2, <2>1, <2>2, <2>3, <2>4 DEF Comps
<1>4. \E x \in S : \A y \in S : x >= y
    <2> HIDE DEF p, g, S
    <2>1. p >= p /\ g >= g /\ (p >= g \/ g >= p)
        BY <1>1
    <2> QED
        BY <1>3, <2>1
<1>5. Max(S) \in S /\ \A y \in S : Max(S) >= y
    BY <1>4 DEF Max
<1>6. S \subseteq Nat \ {0}
    <2> HIDE DEF p, g, S
    <2> QED
        BY <1>1, <1>3
<1>7. TopEpoch(auth) = Max(S)
    BY DEF TopEpoch
<1>8. \A c \in Island(auth) : auth[c].epoch \in S
    OBVIOUS
<1> HIDE DEF S
<1> QED
    BY <1>5, <1>6, <1>7, <1>8

\* What an advance of the island keeps: the type, the modes, the epochs or more, and
\* all of what does not move.
LEMMA AdvanceKeeps ==
    ASSUME NEW auth \in AuthorityType, NEW old, NEW new \in Workers \cup {None}
    PROVE  /\ Advance(auth, old, new) \in AuthorityType
           /\ \A c \in Comps :
                 /\ Advance(auth, old, new)[c].mode = auth[c].mode
                 /\ Advance(auth, old, new)[c].epoch >= auth[c].epoch
                 /\ c \notin Moved(auth, old) => Advance(auth, old, new)[c] = auth[c]
                 /\ c \in Moved(auth, old) => /\ Advance(auth, old, new)[c].owner = new
                                              /\ Advance(auth, old, new)[c].epoch # auth[c].epoch
<1>1. TopEpoch(auth) \in Nat \ {0} /\ \A c \in Island(auth) : auth[c].epoch <= TopEpoch(auth)
    BY TopEpochAbove
<1>2. \A c \in Moved(auth, old) : c \in Island(auth)
    BY DEF Moved
<1>3. \A c \in Comps : auth[c] \in [owner : Workers \cup {None}, epoch : Nat \ {0}, mode : Modes]
    BY DEF AuthorityType
<1>4. ASSUME NEW c \in Comps, c \notin Moved(auth, old)
      PROVE  Advance(auth, old, new)[c] = auth[c]
    BY <1>4 DEF Advance
<1>5. ASSUME NEW c \in Comps, c \in Moved(auth, old)
      PROVE  Advance(auth, old, new)[c]
                = [owner |-> new, epoch |-> TopEpoch(auth) + 1, mode |-> auth[c].mode]
    BY <1>3, <1>5 DEF Advance
<1>6. /\ TopEpoch(auth) + 1 \in Nat \ {0}
      /\ \A n \in Nat : n <= TopEpoch(auth) => TopEpoch(auth) + 1 >= n /\ TopEpoch(auth) + 1 # n
    BY <1>1
<1>7. ASSUME NEW c \in Comps
      PROVE  /\ Advance(auth, old, new)[c] \in [owner : Workers \cup {None}, epoch : Nat \ {0}, mode : Modes]
             /\ Advance(auth, old, new)[c].mode = auth[c].mode
             /\ Advance(auth, old, new)[c].epoch >= auth[c].epoch
             /\ c \notin Moved(auth, old) => Advance(auth, old, new)[c] = auth[c]
             /\ c \in Moved(auth, old) => /\ Advance(auth, old, new)[c].owner = new
                                          /\ Advance(auth, old, new)[c].epoch # auth[c].epoch
    <2>1. CASE c \in Moved(auth, old)
        <3>1. auth[c].epoch \in Nat /\ auth[c].mode \in Modes
            BY <1>3
        <3>2. auth[c].epoch <= TopEpoch(auth)
            BY <1>1, <1>2, <2>1
        <3>3. TopEpoch(auth) + 1 >= auth[c].epoch /\ TopEpoch(auth) + 1 # auth[c].epoch
            BY <1>6, <3>1, <3>2
        <3>4. PICK n \in Nat \ {0} : n = TopEpoch(auth) + 1
            BY <1>6
        <3>5. Advance(auth, old, new)[c] = [owner |-> new, epoch |-> n, mode |-> auth[c].mode]
            BY <1>5, <2>1, <3>4
        <3> HIDE DEF AuthorityType
        <3> QED
            BY <2>1, <3>1, <3>3, <3>4, <3>5
    <2>2. CASE c \notin Moved(auth, old)
        BY <1>3, <1>4, <2>2
    <2> QED
        BY <2>1, <2>2
<1>8. Advance(auth, old, new) \in AuthorityType
    <2>1. Advance(auth, old, new) = [c \in Comps |-> Advance(auth, old, new)[c]]
        BY DEF Advance
    <2> HIDE DEF AuthorityType
    <2> QED
        BY <1>7, <2>1 DEF AuthorityType
<1> QED
    BY <1>7, <1>8

(***************************************************************************)
(* Grants and revokes.                                                     *)
(***************************************************************************)
Takers == [Keys -> Workers \cup {None}]
RegrantedOwner(s, lost, gained, k) ==
    IF There(s, gained[k]) THEN gained[k]
    ELSE IF There(s, lost[k]) /\ s.ent[k[1]].auth[k[2]].owner = lost[k] THEN None
    ELSE s.ent[k[1]].auth[k[2]].owner

LEMMA OfTakes ==
    ASSUME NEW w \in Workers \cup {None}, NEW K
    PROVE  /\ Of(w, K) \in Takers
           /\ \A k \in Keys : Of(w, K)[k] = IF k \in K THEN w ELSE None
BY DEF Of, Takers

\* A grant or a revoke changes owners, and nothing else of the entities.
LEMMA RegrantEnt ==
    ASSUME NEW s, s.ent \in [Entities -> EntityType], NEW lost \in Takers, NEW gained \in Takers,
           NEW t, t = Regrant(s, lost, gained)
    PROVE  /\ t.ent \in [Entities -> EntityType]
           /\ \A e \in Entities :
                 /\ t.ent[e].pos = s.ent[e].pos /\ t.ent[e].region = s.ent[e].region
                 /\ t.ent[e].tx = s.ent[e].tx
                 /\ \A c \in Comps :
                       /\ t.ent[e].auth[c].epoch = s.ent[e].auth[c].epoch
                       /\ t.ent[e].auth[c].mode = s.ent[e].auth[c].mode
                       /\ t.ent[e].auth[c].owner = RegrantedOwner(s, lost, gained, <<e, c>>)
<1> DEFINE own(e, c) == RegrantedOwner(s, lost, gained, <<e, c>>)
           row(e) == [s.ent[e] EXCEPT !.auth = [c \in Comps |-> [@[c] EXCEPT !.owner = own(e, c)]]]
<1>1. t.ent = [e \in Entities |-> row(e)]
    BY DEF Regrant, RegrantedOwner
<1>2. ASSUME NEW e \in Entities
      PROVE  /\ row(e) \in EntityType
             /\ row(e).pos = s.ent[e].pos /\ row(e).region = s.ent[e].region /\ row(e).tx = s.ent[e].tx
             /\ \A c \in Comps :
                   /\ row(e).auth[c].epoch = s.ent[e].auth[c].epoch
                   /\ row(e).auth[c].mode = s.ent[e].auth[c].mode
                   /\ row(e).auth[c].owner = own(e, c)
    <2>1. s.ent[e] \in EntityType
        BY <1>2
    <2>2. s.ent[e].auth \in AuthorityType
        BY <2>1 DEF EntityType
    <2>3. ASSUME NEW c \in Comps
          PROVE  own(e, c) \in Workers \cup {None}
        <3>1. <<e, c>> \in Keys /\ <<e, c>>[1] = e /\ <<e, c>>[2] = c
            BY <1>2 DEF Keys
        <3>2. gained[<<e, c>>] \in Workers \cup {None}
            BY <3>1 DEF Takers
        <3>3. s.ent[e].auth[c].owner \in Workers \cup {None}
            BY <2>2 DEF AuthorityType
        <3> QED
            BY <3>1, <3>2, <3>3 DEF RegrantedOwner
    <2> HIDE DEF own
    <2> DEFINE au == [c \in Comps |-> [s.ent[e].auth[c] EXCEPT !.owner = own(e, c)]]
    <2>4. row(e) = [s.ent[e] EXCEPT !.auth = au]
        OBVIOUS
    <2>5. ASSUME NEW c \in Comps
          PROVE  /\ au[c] \in [owner : Workers \cup {None}, epoch : Nat \ {0}, mode : Modes]
                 /\ au[c].epoch = s.ent[e].auth[c].epoch /\ au[c].mode = s.ent[e].auth[c].mode
                 /\ au[c].owner = own(e, c)
        BY <2>2, <2>3, <2>5 DEF AuthorityType
    <2>6. au \in AuthorityType
        BY <2>5 DEF AuthorityType
    <2> HIDE DEF au, row
    <2> QED
        BY <2>1, <2>4, <2>5, <2>6 DEF EntityType
<1> HIDE DEF row
<1> QED
    BY <1>1, <1>2 DEF own

\* It changes the caches, and nothing else of the connections.
LEMMA RegrantWorkers ==
    ASSUME NEW s, s.ent \in [Entities -> EntityType], s.workers \in [Workers -> HandleType],
           NEW lost \in Takers, NEW gained \in Takers, NEW t, t = Regrant(s, lost, gained)
    PROVE  /\ t.workers \in [Workers -> HandleType]
           /\ \A w \in Workers :
                 /\ s.workers[w] = None => t.workers[w] = None
                 /\ s.workers[w] # None =>
                       /\ t.workers[w].view = s.workers[w].view
                       /\ \A k \in Keys : t.workers[w].cache[k] =
                             IF gained[k] = w THEN s.ent[k[1]].auth[k[2]].epoch
                             ELSE IF lost[k] = w THEN 0 ELSE s.workers[w].cache[k]
<1> DEFINE val(w, k) == IF gained[k] = w THEN s.ent[k[1]].auth[k[2]].epoch
                        ELSE IF lost[k] = w THEN 0 ELSE s.workers[w].cache[k]
           row(w) == IF s.workers[w] = None THEN None
                     ELSE [s.workers[w] EXCEPT !.cache = [k \in Keys |-> val(w, k)]]
<1>1. t.workers = [w \in Workers |-> row(w)]
    BY DEF Regrant
<1>2. \A k \in Keys : s.ent[k[1]].auth[k[2]].epoch \in Nat
    <2> SUFFICES ASSUME NEW k \in Keys PROVE s.ent[k[1]].auth[k[2]].epoch \in Nat
        OBVIOUS
    <2>1. k[1] \in Entities /\ k[2] \in Comps
        BY DEF Keys
    <2>2. s.ent[k[1]].auth \in AuthorityType
        BY <2>1 DEF EntityType
    <2> QED
        BY <2>1, <2>2 DEF AuthorityType
<1>3. ASSUME NEW w \in Workers, s.workers[w] # None
      PROVE  /\ row(w) \in HandleType
             /\ row(w).view = s.workers[w].view
             /\ \A k \in Keys : row(w).cache[k] = val(w, k)
    <2>1. s.workers[w] \in [view : SUBSET Entities, cache : [Keys -> Nat]]
        BY <1>3 DEF HandleType
    <2>2. \A k \in Keys : val(w, k) \in Nat
        BY <1>2, <2>1
    <2> HIDE DEF val
    <2>3. row(w) = [s.workers[w] EXCEPT !.cache = [k \in Keys |-> val(w, k)]]
        BY <1>3
    <2> QED
        BY <2>1, <2>2, <2>3 DEF HandleType
<1>4. \A w \in Workers : s.workers[w] = None => row(w) = None /\ row(w) \in HandleType
    BY DEF HandleType
<1> HIDE DEF row
<1> QED
    BY <1>1, <1>3, <1>4 DEF val

(***************************************************************************)
(* What the operations on [ent, workers] do.                               *)
(***************************************************************************)
Typed(s) == s.ent \in [Entities -> EntityType] /\ s.workers \in [Workers -> HandleType]
Auth(s, k) == s.ent[k[1]].auth[k[2]]
OnlyOwners(s, t) ==
    \A e \in Entities :
        /\ t.ent[e].pos = s.ent[e].pos /\ t.ent[e].region = s.ent[e].region
        /\ t.ent[e].tx = s.ent[e].tx
        /\ \A c \in Comps : /\ t.ent[e].auth[c].epoch = s.ent[e].auth[c].epoch
                            /\ t.ent[e].auth[c].mode = s.ent[e].auth[c].mode
ToldIn(s, w, k) ==
    s.workers[w] # None /\ s.workers[w].cache[k] # 0
        => s.workers[w].cache[k] = Auth(s, k).epoch /\ Auth(s, k).owner = w
\* Whoever s tells the truth t does too, but for the keys K.
KeepsTold(s, t, K) == \A w \in Workers, k \in Keys \ K : ToldIn(s, w, k) => ToldIn(t, w, k)
\* Nothing is different at key k, or for nobody anything is.
SameAt(s, t, k) ==
    /\ Auth(t, k) = Auth(s, k)
    /\ \A w \in Workers : s.workers[w] = None => t.workers[w] = None
    /\ \A w \in Workers : s.workers[w] # None => t.workers[w].cache[k] = s.workers[w].cache[k]

LEMMA SameTold ==
    ASSUME NEW s, NEW t, NEW k \in Keys, SameAt(s, t, k), NEW w \in Workers, ToldIn(s, w, k)
    PROVE  ToldIn(t, w, k)
BY DEF SameAt, ToldIn

LEMMA KeyParts ==
    ASSUME NEW k \in Keys
    PROVE  k[1] \in Entities /\ k[2] \in Comps /\ k = <<k[1], k[2]>>
BY DEF Keys

LEMMA AuthParts ==
    ASSUME NEW s, s.ent \in [Entities -> EntityType], NEW k \in Keys
    PROVE  /\ Auth(s, k) \in [owner : Workers \cup {None}, epoch : Nat \ {0}, mode : Modes]
           /\ Auth(s, k).owner \in Workers \cup {None} /\ Auth(s, k).epoch \in Nat \ {0}
<1>1. k[1] \in Entities /\ k[2] \in Comps
    BY KeyParts
<1>2. s.ent[k[1]].auth \in AuthorityType
    BY <1>1 DEF EntityType
<1>3. Auth(s, k) \in [owner : Workers \cup {None}, epoch : Nat \ {0}, mode : Modes]
    BY <1>1, <1>2 DEF AuthorityType, Auth
<1> QED
    BY <1>3

\* A grant of the keys K to w.
LEMMA GrantIs ==
    ASSUME NEW s, Typed(s), NEW w \in Workers \cup {None}, NEW K,
           NEW t, t = Grant(s, w, K)
    PROVE  /\ Typed(t) /\ OnlyOwners(s, t)
           /\ \A x \in Workers : s.workers[x] = None => t.workers[x] = None
           /\ \A x \in Workers : s.workers[x] # None => t.workers[x].view = s.workers[x].view
           /\ \A k \in Keys \ K : SameAt(s, t, k)
           /\ \A k \in Keys \cap K :
                 /\ Auth(t, k).epoch = Auth(s, k).epoch
                 /\ Auth(t, k).owner = IF There(s, w) THEN w ELSE Auth(s, k).owner
                 /\ \A x \in Workers : s.workers[x] # None =>
                       t.workers[x].cache[k] = IF x = w THEN Auth(s, k).epoch
                                               ELSE s.workers[x].cache[k]
<1> DEFINE lost == Of(None, {})
           gained == Of(w, K)
<1>1. /\ lost \in Takers /\ gained \in Takers
      /\ \A k \in Keys : lost[k] = None /\ gained[k] = IF k \in K THEN w ELSE None
    BY OfTakes
<1>2. t = Regrant(s, lost, gained)
    BY DEF Grant
<1> HIDE DEF lost, gained
<1>3. /\ t.ent \in [Entities -> EntityType] /\ OnlyOwners(s, t)
      /\ \A e \in Entities, c \in Comps :
            t.ent[e].auth[c].owner = RegrantedOwner(s, lost, gained, <<e, c>>)
    <2>1. s.ent \in [Entities -> EntityType]
        BY DEF Typed
    <2>2. /\ t.ent \in [Entities -> EntityType]
          /\ \A e \in Entities :
                /\ t.ent[e].pos = s.ent[e].pos /\ t.ent[e].region = s.ent[e].region
                /\ t.ent[e].tx = s.ent[e].tx
                /\ \A c \in Comps :
                      /\ t.ent[e].auth[c].epoch = s.ent[e].auth[c].epoch
                      /\ t.ent[e].auth[c].mode = s.ent[e].auth[c].mode
                      /\ t.ent[e].auth[c].owner = RegrantedOwner(s, lost, gained, <<e, c>>)
        BY <1>1, <1>2, <2>1, RegrantEnt
    <2> QED
        BY <2>2 DEF OnlyOwners
<1>4. /\ t.workers \in [Workers -> HandleType]
      /\ \A x \in Workers :
            /\ s.workers[x] = None => t.workers[x] = None
            /\ s.workers[x] # None =>
                  /\ t.workers[x].view = s.workers[x].view
                  /\ \A k \in Keys : t.workers[x].cache[k] =
                        IF gained[k] = x THEN s.ent[k[1]].auth[k[2]].epoch
                        ELSE IF lost[k] = x THEN 0 ELSE s.workers[x].cache[k]
    BY <1>1, <1>2, RegrantWorkers DEF Typed
<1>5. None \notin Workers
    BY AuthorityConstants
<1>6. ASSUME NEW k \in Keys
      PROVE  /\ Auth(t, k).owner = RegrantedOwner(s, lost, gained, k)
             /\ Auth(t, k).epoch = Auth(s, k).epoch /\ Auth(t, k).mode = Auth(s, k).mode
             /\ \A x \in Workers : s.workers[x] # None =>
                   t.workers[x].cache[k] = IF gained[k] = x THEN Auth(s, k).epoch
                                           ELSE s.workers[x].cache[k]
    <2>1. k[1] \in Entities /\ k[2] \in Comps /\ k = <<k[1], k[2]>>
        BY KeyParts
    <2>2. Auth(t, k).owner = RegrantedOwner(s, lost, gained, k)
        BY <1>3, <2>1 DEF Auth
    <2>3. Auth(t, k).epoch = Auth(s, k).epoch /\ Auth(t, k).mode = Auth(s, k).mode
        BY <1>3, <2>1 DEF Auth, OnlyOwners
    <2>4. lost[k] = None
        BY <1>1
    <2> QED
        BY <1>4, <1>5, <2>2, <2>3, <2>4 DEF Auth
<1>7. ASSUME NEW k \in Keys
      PROVE  RegrantedOwner(s, lost, gained, k)
                = IF k \in K /\ There(s, w) THEN w ELSE Auth(s, k).owner
    <2>1. ~There(s, None)
        BY DEF There
    <2> QED
        BY <1>1, <2>1 DEF RegrantedOwner, Auth
<1>8. ASSUME NEW k \in Keys, k \notin K
      PROVE  SameAt(s, t, k)
    <2>1. /\ Auth(t, k) \in [owner : Workers \cup {None}, epoch : Nat \ {0}, mode : Modes]
          /\ Auth(s, k) \in [owner : Workers \cup {None}, epoch : Nat \ {0}, mode : Modes]
        BY <1>3, AuthParts DEF Typed
    <2>2. Auth(t, k) = Auth(s, k)
        BY <1>6, <1>7, <1>8, <2>1
    <2>3. gained[k] = None
        BY <1>1, <1>8
    <2> QED
        BY <1>4, <1>5, <1>6, <2>2, <2>3 DEF SameAt
<1>9. ASSUME NEW k \in Keys, k \in K
      PROVE  /\ Auth(t, k).epoch = Auth(s, k).epoch
             /\ Auth(t, k).owner = IF There(s, w) THEN w ELSE Auth(s, k).owner
             /\ \A x \in Workers : s.workers[x] # None =>
                   t.workers[x].cache[k] = IF x = w THEN Auth(s, k).epoch
                                           ELSE s.workers[x].cache[k]
    <2>1. gained[k] = w
        BY <1>1, <1>9
    <2> QED
        BY <1>6, <1>7, <1>9, <2>1
<1> QED
    BY <1>3, <1>4, <1>8, <1>9 DEF Typed

\* Granting what nobody else has tells the truth.
LEMMA GrantTold ==
    ASSUME NEW s, Typed(s), NEW w \in Workers \cup {None}, NEW K, NEW L,
           \A k \in (Keys \cap K) \ L : Auth(s, k).owner \in {w, None}
    PROVE  KeepsTold(s, Grant(s, w, K), L)
<1> DEFINE t == Grant(s, w, K)
<1>0. t = Grant(s, w, K)
    OBVIOUS
<1> HIDE DEF t
<1>1. /\ \A x \in Workers : s.workers[x] = None => t.workers[x] = None
      /\ \A k \in Keys \ K : SameAt(s, t, k)
      /\ \A k \in Keys \cap K :
            /\ Auth(t, k).epoch = Auth(s, k).epoch
            /\ Auth(t, k).owner = IF There(s, w) THEN w ELSE Auth(s, k).owner
            /\ \A x \in Workers : s.workers[x] # None =>
                  t.workers[x].cache[k] = IF x = w THEN Auth(s, k).epoch
                                          ELSE s.workers[x].cache[k]
    BY <1>0, GrantIs
<1> SUFFICES ASSUME NEW x \in Workers, NEW k \in Keys \ L, ToldIn(s, x, k),
                    t.workers[x] # None, t.workers[x].cache[k] # 0
             PROVE  t.workers[x].cache[k] = Auth(t, k).epoch /\ Auth(t, k).owner = x
    BY DEF KeepsTold, ToldIn, t
<1>2. s.workers[x] # None
    BY <1>1
<1>3. CASE k \notin K
    BY <1>1, <1>2, <1>3, SameTold DEF ToldIn
<1>4. CASE k \in K /\ x = w
    BY <1>1, <1>2, <1>4, AuthorityConstants DEF There
<1>5. CASE k \in K /\ x # w
    <2>1. s.workers[x].cache[k] = t.workers[x].cache[k]
        BY <1>1, <1>2, <1>5
    <2>2. s.workers[x].cache[k] = Auth(s, k).epoch /\ Auth(s, k).owner = x
        BY <1>2, <2>1 DEF ToldIn
    <2>3. x \in {w, None}
        BY <1>5, <2>2
    <2> QED
        BY <1>5, <2>3, AuthorityConstants
<1> QED
    BY <1>3, <1>4, <1>5

\* Key k has a new authority, whoever had a grant of it and does not keep it is told,
\* and the new owner is granted it.
LEMMA ReplaceTold ==
    ASSUME NEW s, Typed(s), NEW u, Typed(u), NEW k \in Keys, NEW w \in Workers \cup {None},
           Auth(u, k).owner = w,
           \A x \in Workers : s.workers[x] = None => u.workers[x] = None,
           \A j \in Keys \ {k} : SameAt(s, u, j),
           \A x \in Workers \ {w} : s.workers[x] # None =>
               u.workers[x].cache[k] = IF x = Auth(s, k).owner THEN 0 ELSE s.workers[x].cache[k]
    PROVE  KeepsTold(s, Grant(u, w, {k}), {})
<1> DEFINE t == Grant(u, w, {k})
<1>1. /\ \A x \in Workers : u.workers[x] = None => t.workers[x] = None
      /\ \A j \in Keys \ {k} : SameAt(u, t, j)
      /\ Auth(t, k).epoch = Auth(u, k).epoch
      /\ Auth(t, k).owner = IF There(u, w) THEN w ELSE Auth(u, k).owner
      /\ \A x \in Workers : u.workers[x] # None =>
            t.workers[x].cache[k] = IF x = w THEN Auth(u, k).epoch
                                    ELSE u.workers[x].cache[k]
    BY GrantIs
<1> HIDE DEF t
<1> SUFFICES ASSUME NEW x \in Workers, NEW j \in Keys, ToldIn(s, x, j)
             PROVE  ToldIn(t, x, j)
    BY DEF KeepsTold, t
<1>2. CASE j # k
    BY <1>1, <1>2, SameTold
<1>3. CASE j = k /\ x = w
    BY <1>1, <1>3 DEF ToldIn
<1>4. CASE j = k /\ x # w
    <2> SUFFICES ASSUME t.workers[x] # None, t.workers[x].cache[k] # 0
                 PROVE  FALSE
        BY <1>4 DEF ToldIn
    <2>1. s.workers[x] # None /\ u.workers[x] # None
        BY <1>1
    <2>2. u.workers[x].cache[k] # 0
        BY <1>1, <1>4, <2>1
    <2>3. x # Auth(s, k).owner /\ s.workers[x].cache[k] # 0
        BY <1>4, <2>1, <2>2
    <2> QED
        BY <1>4, <2>1, <2>3 DEF ToldIn
<1> QED
    BY <1>2, <1>3, <1>4

LEMMA ToldChain ==
    ASSUME NEW s, NEW t, NEW u, NEW K, KeepsTold(s, t, K), KeepsTold(t, u, K)
    PROVE  KeepsTold(s, u, K)
BY DEF KeepsTold

LEMMA OwnersChain ==
    ASSUME NEW s, NEW t, NEW u, OnlyOwners(s, t), OnlyOwners(t, u)
    PROVE  OnlyOwners(s, u)
BY DEF OnlyOwners

\* A connection's handle is replaced by one with the same grants, or with none.
LEMMA HandleTold ==
    ASSUME NEW s, Typed(s), NEW w \in Workers,
           NEW h \in [view : SUBSET Entities, cache : [Keys -> Nat]],
           \/ \A k \in Keys : h.cache[k] = 0
           \/ s.workers[w] # None /\ h.cache = s.workers[w].cache,
           NEW t, t.ent = s.ent, t.workers = [s.workers EXCEPT ![w] = h]
    PROVE  Typed(t) /\ OnlyOwners(s, t) /\ KeepsTold(s, t, {})
<1>1. h \in HandleType
    BY DEF HandleType
<1>2. Typed(t)
    BY <1>1 DEF Typed
<1>3. OnlyOwners(s, t)
    BY DEF OnlyOwners
<1>4. \A k \in Keys : Auth(t, k) = Auth(s, k)
    BY DEF Auth
<1>5. t.workers[w] = h /\ \A x \in Workers \ {w} : t.workers[x] = s.workers[x]
    BY DEF Typed
<1>6. ASSUME NEW x \in Workers, NEW k \in Keys, ToldIn(s, x, k)
      PROVE  ToldIn(t, x, k)
    <2>1. CASE x # w
        BY <1>4, <1>5, <1>6, <2>1 DEF ToldIn
    <2>2. CASE x = w
        BY <1>4, <1>5, <1>6, <2>2 DEF ToldIn
    <2> QED
        BY <2>1, <2>2
<1> QED
    BY <1>2, <1>3, <1>6 DEF KeepsTold

\* What the entities and the connections are after a step.
NextWorld == [ent |-> ent', workers |-> workers']

LEMMA WorldTyped ==
    ASSUME TypeOK
    PROVE  Typed(World) /\ World.ent = ent /\ World.workers = workers
BY DEF TypeOK, Typed, World

LEMMA BecomesNext ==
    ASSUME NEW t, Becomes(t), Typed(t)
    PROVE  /\ NextWorld.ent = t.ent /\ NextWorld.workers = t.workers /\ Typed(NextWorld)
           /\ \A s : OnlyOwners(s, t) => OnlyOwners(s, NextWorld)
           /\ \A s, K : KeepsTold(s, t, K) => KeepsTold(s, NextWorld, K)
<1>1. NextWorld.ent = t.ent /\ NextWorld.workers = t.workers
    BY DEF NextWorld, Becomes
<1> QED
    BY <1>1 DEF Typed, OnlyOwners, KeepsTold, ToldIn, Auth

LEMMA AclOf ==
    ASSUME NEW w \in Workers, NEW e \in Entities
    PROVE  AclGrants(w, e) \subseteq Keys
BY DEF AclGrants, Keys, Comps

\* A worker that connects is granted what is its own, besides what the ACL gives it.
LEMMA ConnectEffect ==
    ASSUME TypeOK, NEW w \in Workers, Connect(w)
    PROVE  /\ Typed(NextWorld) /\ OnlyOwners(World, NextWorld)
           /\ KeepsTold(World, NextWorld, UNION {AclGrants(w, e) : e \in conf.ids})
<1> PICK s : s = World
    OBVIOUS
<1>1. Typed(s) /\ s.ent = ent /\ s.workers = workers
    BY WorldTyped
<1>2. conf.ids \subseteq Entities
    BY AuthorityConstants DEF TypeOK
<1> DEFINE L == UNION {AclGrants(w, e) : e \in conf.ids}
           R == {RegionGrants(w, e) : e \in conf.ids}
           K == UNION {AclGrants(w, e) \cup RegionGrants(w, e) : e \in conf.ids}
           plain == [s EXCEPT !.workers[w] = NoGrants]
           seen == Seen(plain, w, conf.ids)
<1>3. NoGrants \in [view : SUBSET Entities, cache : [Keys -> Nat]]
    BY DEF NoGrants
<1>4. \A k \in Keys : NoGrants.cache[k] = 0
    BY DEF NoGrants
<1>5. plain.ent = s.ent /\ plain.workers = [s.workers EXCEPT ![w] = NoGrants]
    BY <1>1 DEF World
<1>6. /\ Typed(plain) /\ OnlyOwners(s, plain) /\ KeepsTold(s, plain, {})
    <2> HIDE DEF plain
    <2> QED
        BY <1>1, <1>3, <1>4, <1>5, HandleTold
<1> DEFINE h == [NoGrants EXCEPT !.view = @ \cup conf.ids]
<1>7. /\ h \in [view : SUBSET Entities, cache : [Keys -> Nat]]
      /\ \A k \in Keys : h.cache[k] = 0
    BY <1>2 DEF NoGrants
<1>8. seen.ent = s.ent /\ seen.workers = [s.workers EXCEPT ![w] = h]
    BY <1>1 DEF Seen, World, Typed
<1>9. /\ Typed(seen) /\ OnlyOwners(s, seen) /\ KeepsTold(s, seen, {})
    <2> HIDE DEF seen, h
    <2> QED
        BY <1>1, <1>7, <1>8, HandleTold
<1>10. \A k \in (Keys \cap K) \ L : Auth(seen, k).owner \in {w, None}
    <2> SUFFICES ASSUME NEW k \in Keys, k \in K, k \notin L
                 PROVE  Auth(seen, k).owner \in {w, None}
        OBVIOUS
    <2>1. PICK e \in conf.ids : k \in RegionGrants(w, e)
        OBVIOUS
    <2>2. Auth(seen, k) = ent[k[1]].auth[k[2]]
        BY <1>1, <1>8 DEF Auth
    <2> QED
        BY <2>1, <2>2 DEF RegionGrants
<1>11. CheckoutAll(plain, w) = Grant(seen, w, K)
    BY DEF CheckoutAll
<1>12. /\ Typed(Grant(seen, w, K)) /\ OnlyOwners(seen, Grant(seen, w, K))
       /\ KeepsTold(seen, Grant(seen, w, K), L)
    <2> HIDE DEF seen, K, L
    <2> QED
        BY <1>9, <1>10, GrantIs, GrantTold
<1>13. PICK t : /\ t = IF w \in Range(Serves) THEN CheckoutAll(plain, w) ELSE plain
                /\ Becomes(t)
    BY DEF Connect
<1> HIDE DEF plain, seen, K, L
<1>14. KeepsTold(s, plain, L) /\ KeepsTold(s, seen, L)
    BY <1>6, <1>9 DEF KeepsTold
<1>15. Typed(t) /\ OnlyOwners(s, t) /\ KeepsTold(s, t, L)
    <2>1. CASE t = plain
        BY <1>6, <1>14, <2>1
    <2>2. CASE t = Grant(seen, w, K)
        BY <1>9, <1>12, <1>14, <2>2, OwnersChain, ToldChain
    <2> QED
        BY <1>11, <1>13, <2>1, <2>2
<1> QED
    BY <1>13, <1>15, BecomesNext DEF L

\* Checking an entity out gives what the ACL gives, and leaving it takes nothing.
LEMMA InterestEffect ==
    ASSUME TypeOK, NEW w \in Workers, NEW e \in Entities, Interest(w, e)
    PROVE  /\ Typed(NextWorld) /\ OnlyOwners(World, NextWorld)
           /\ KeepsTold(World, NextWorld, AclGrants(w, e))
<1> PICK s : s = World
    OBVIOUS
<1>1. Typed(s) /\ s.ent = ent /\ s.workers = workers
    BY WorldTyped
<1>2. workers[w] # None /\ workers[w] \in [view : SUBSET Entities, cache : [Keys -> Nat]]
    BY DEF Interest, Connected, TypeOK, HandleType
<1>3. ASSUME e \in workers[w].view
      PROVE  Typed(NextWorld) /\ OnlyOwners(s, NextWorld) /\ KeepsTold(s, NextWorld, {})
    <2> DEFINE h == [workers[w] EXCEPT !.view = @ \ {e}]
    <2>1. h \in [view : SUBSET Entities, cache : [Keys -> Nat]] /\ h.cache = workers[w].cache
        BY <1>2
    <2>2. ent' = ent /\ workers' = [workers EXCEPT ![w] = h]
        BY <1>3 DEF Interest, TypeOK
    <2>3. NextWorld.ent = s.ent /\ NextWorld.workers = [s.workers EXCEPT ![w] = h]
        BY <1>1, <2>2 DEF NextWorld
    <2> HIDE DEF h
    <2> QED
        BY <1>1, <1>2, <2>1, <2>3, HandleTold
<1>4. ASSUME e \notin workers[w].view
      PROVE  Typed(NextWorld) /\ OnlyOwners(s, NextWorld) /\ KeepsTold(s, NextWorld, AclGrants(w, e))
    <2> DEFINE h == [workers[w] EXCEPT !.view = @ \cup {e}]
               seen == Seen(s, w, {e})
               t == Grant(seen, w, AclGrants(w, e))
    <2>1. h \in [view : SUBSET Entities, cache : [Keys -> Nat]] /\ h.cache = workers[w].cache
        BY <1>2
    <2>2. seen.ent = s.ent /\ seen.workers = [s.workers EXCEPT ![w] = h]
        BY <1>1 DEF Seen, World, Typed
    <2>3. Typed(seen) /\ OnlyOwners(s, seen) /\ KeepsTold(s, seen, {})
        <3> HIDE DEF h, seen
        <3> QED
            BY <1>1, <1>2, <2>1, <2>2, HandleTold
    <2>4. Becomes(t)
        BY <1>4 DEF Interest, SendFull
    <2>5. /\ Typed(t) /\ OnlyOwners(seen, t) /\ KeepsTold(seen, t, AclGrants(w, e))
        <3> HIDE DEF seen
        <3> QED
            BY <2>3, GrantIs, GrantTold
    <2> HIDE DEF seen, t
    <2>6. KeepsTold(s, seen, AclGrants(w, e))
        BY <2>3 DEF KeepsTold
    <2>7. OnlyOwners(s, t) /\ KeepsTold(s, t, AclGrants(w, e))
        BY <2>3, <2>5, <2>6, OwnersChain, ToldChain
    <2> QED
        BY <2>4, <2>5, <2>7, BecomesNext
<1> QED
    BY <1>3, <1>4 DEF KeepsTold


\* What is not changed at any key but k, and how k is.
Replaces(s, t, k) ==
    /\ \A e \in Entities : /\ t.ent[e].pos = s.ent[e].pos /\ t.ent[e].region = s.ent[e].region
                           /\ t.ent[e].tx = s.ent[e].tx
    /\ \A j \in Keys \ {k} : Auth(t, j).epoch = Auth(s, j).epoch /\ Auth(t, j).mode = Auth(s, j).mode

\* Writing an authority of one component in the map of an entity.
LEMMA SetIs ==
    ASSUME NEW s \in [Entities -> EntityType], NEW e \in Entities, NEW c \in Comps,
           NEW ca \in [owner : Workers \cup {None}, epoch : Nat \ {0}, mode : Modes],
           NEW t, t = Set(s, e, c, ca)
    PROVE  /\ t \in [Entities -> EntityType]
           /\ \A d \in Entities : /\ t[d].pos = s[d].pos /\ t[d].region = s[d].region
                                  /\ t[d].tx = s[d].tx
           /\ t[e].auth[c] = ca
           /\ \A d \in Entities, b \in Comps : (d # e \/ b # c) => t[d].auth[b] = s[d].auth[b]
<1> DEFINE st == [s[e] EXCEPT !.auth[c] = ca]
<1>1. s[e] \in EntityType /\ s[e].auth \in AuthorityType
    BY DEF EntityType
<1>2. [s[e].auth EXCEPT ![c] = ca] \in AuthorityType
    BY <1>1 DEF AuthorityType
<1>3. st = [s[e] EXCEPT !.auth = [s[e].auth EXCEPT ![c] = ca]]
    OBVIOUS
<1>4. /\ st \in EntityType /\ st.pos = s[e].pos /\ st.region = s[e].region /\ st.tx = s[e].tx
      /\ st.auth = [s[e].auth EXCEPT ![c] = ca]
    <2> HIDE DEF st
    <2> QED
        BY <1>1, <1>2, <1>3 DEF EntityType
<1>5. st.auth[c] = ca /\ \A b \in Comps \ {c} : st.auth[b] = s[e].auth[b]
    BY <1>1, <1>4 DEF AuthorityType
<1>6. t = [s EXCEPT ![e] = st]
    BY DEF Set
<1> HIDE DEF st
<1>7. t[e] = st /\ \A d \in Entities \ {e} : t[d] = s[d]
    BY <1>6
<1> QED
    BY <1>4, <1>5, <1>6, <1>7

\* An escalation takes the component from whoever has it.
LEMMA EscalateIs ==
    ASSUME NEW s, Typed(s), NEW e \in Entities, NEW w \in Workers, NEW t, t = Escalate(s, e, w)
    PROVE  /\ Typed(t) /\ KeepsTold(s, t, {}) /\ Replaces(s, t, <<e, "pos">>)
           /\ Auth(t, <<e, "pos">>).epoch = Auth(s, <<e, "pos">>).epoch + 1
           /\ Auth(t, <<e, "pos">>).mode = "arbitrated"
<1> DEFINE k == <<e, "pos">>
           old == s.ent[e].auth["pos"]
           ca == Escalated(old, w)
           ws == IF old.owner \notin {None, w} /\ s.workers[old.owner] # None
                 THEN [s.workers EXCEPT ![old.owner].cache[k] = 0] ELSE s.workers
           u == [ent |-> Set(s.ent, e, "pos", ca), workers |-> ws]
<1>1. k \in Keys /\ k[1] = e /\ k[2] = "pos" /\ "pos" \in Comps
    BY DEF Keys, Comps
<1>2. old = Auth(s, k)
    BY <1>1 DEF Auth
<1>3. old \in [owner : Workers \cup {None}, epoch : Nat \ {0}, mode : Modes]
    BY <1>1, <1>2, AuthParts DEF Typed
<1>4. /\ ca \in [owner : Workers \cup {None}, epoch : Nat \ {0}, mode : Modes]
      /\ ca.owner = w /\ ca.epoch = old.epoch + 1 /\ ca.mode = "arbitrated"
    BY <1>3 DEF Escalated, Modes
<1>5. t = Grant(u, w, {k})
    BY Zenon DEF Escalate
<1>6. /\ u.ent \in [Entities -> EntityType]
      /\ \A d \in Entities : /\ u.ent[d].pos = s.ent[d].pos /\ u.ent[d].region = s.ent[d].region
                             /\ u.ent[d].tx = s.ent[d].tx
      /\ u.ent[e].auth["pos"] = ca
      /\ \A d \in Entities, b \in Comps : (d # e \/ b # "pos") => u.ent[d].auth[b] = s.ent[d].auth[b]
    <2>1. u.ent = Set(s.ent, e, "pos", ca) /\ s.ent \in [Entities -> EntityType]
        BY DEF Typed
    <2> HIDE DEF u, ca
    <2> QED
        BY <1>1, <1>4, <2>1, SetIs
<1>7. /\ u.workers = ws /\ ws \in [Workers -> HandleType]
      /\ \A x \in Workers : s.workers[x] = None => ws[x] = None
      /\ \A x \in Workers \ {w} : s.workers[x] # None =>
            ws[x].cache[k] = IF x = old.owner THEN 0 ELSE s.workers[x].cache[k]
      /\ \A x \in Workers, j \in Keys \ {k} : s.workers[x] # None =>
            ws[x].cache[j] = s.workers[x].cache[j]
    <2>0. old.owner \in Workers \cup {None} /\ s.workers \in [Workers -> HandleType] /\ u.workers = ws
        BY <1>3 DEF Typed
    <2> HIDE DEF u, ca, old, k
    <2>1. CASE old.owner \notin {None, w} /\ s.workers[old.owner] # None
        <3> DEFINE x0 == old.owner
                   cc == [s.workers[x0].cache EXCEPT ![k] = 0]
                   h == [s.workers[x0] EXCEPT !.cache = cc]
        <3>1. x0 \in Workers
            BY <2>0, <2>1
        <3>2. s.workers[x0] \in [view : SUBSET Entities, cache : [Keys -> Nat]]
            BY <2>0, <2>1, <3>1 DEF HandleType
        <3>3. /\ cc \in [Keys -> Nat] /\ cc[k] = 0
              /\ \A j \in Keys \ {k} : cc[j] = s.workers[x0].cache[j]
            BY <1>1, <3>2
        <3>4. ws = [s.workers EXCEPT ![x0] = h]
            BY <2>1
        <3> HIDE DEF cc, ws
        <3>5. h \in HandleType /\ h.cache = cc
            BY <3>2, <3>3 DEF HandleType
        <3> HIDE DEF h
        <3>6. ws[x0] = h /\ \A x \in Workers \ {x0} : ws[x] = s.workers[x]
            BY <2>0, <3>1, <3>4
        <3>7. ws \in [Workers -> HandleType]
            BY <2>0, <3>1, <3>4, <3>5
        <3>8. s.workers[x0] # None
            BY <2>1
        <3> HIDE DEF x0
        <3>9. \A x \in Workers : s.workers[x] = None => ws[x] = None
            BY <3>6, <3>8
        <3>10. \A x \in Workers :
                  ws[x].cache[k] = IF x = x0 THEN 0 ELSE s.workers[x].cache[k]
            BY <3>3, <3>5, <3>6
        <3>11. \A x \in Workers, j \in Keys \ {k} : ws[x].cache[j] = s.workers[x].cache[j]
            BY <3>3, <3>5, <3>6
        <3> QED
            BY <2>0, <3>7, <3>9, <3>10, <3>11 DEF x0
    <2>2. CASE ~(old.owner \notin {None, w} /\ s.workers[old.owner] # None)
        <3>1. ws = s.workers
            BY <2>2
        <3>2. None \notin Workers
            BY AuthorityConstants
        <3> HIDE DEF ws
        <3> QED
            BY <2>0, <2>2, <3>1, <3>2
    <2> QED
        BY <2>1, <2>2
<1> HIDE DEF u, ws, ca, old
<1>8. Typed(u)
    BY <1>6, <1>7 DEF Typed
<1>9. Auth(u, k) = ca
    BY <1>1, <1>6 DEF Auth
<1>10. ASSUME NEW j \in Keys, j # k
       PROVE  SameAt(s, u, j)
    <2>1. j[1] \in Entities /\ j[2] \in Comps /\ (j[1] # e \/ j[2] # "pos")
        BY <1>10, KeyParts
    <2>2. Auth(u, j) = Auth(s, j)
        BY <1>6, <2>1 DEF Auth
    <2> QED
        BY <1>7, <1>10, <2>2 DEF SameAt
<1> HIDE DEF k
<1>11. KeepsTold(s, t, {})
    <2>1. w \in Workers \cup {None} /\ k \in Keys /\ Auth(u, k).owner = w
        BY <1>1, <1>4, <1>9
    <2>2. \A x \in Workers : s.workers[x] = None => u.workers[x] = None
        BY <1>7
    <2>3. \A j \in Keys \ {k} : SameAt(s, u, j)
        BY <1>10
    <2>4. \A x \in Workers \ {w} : s.workers[x] # None =>
             u.workers[x].cache[k] = IF x = Auth(s, k).owner THEN 0 ELSE s.workers[x].cache[k]
        BY <1>2, <1>7
    <2> QED
        BY <1>5, <1>8, <2>1, <2>2, <2>3, <2>4, ReplaceTold
<1>12. Typed(t) /\ OnlyOwners(u, t)
    BY <1>5, <1>8, GrantIs
<1>13. \A j \in Keys : Auth(t, j).epoch = Auth(u, j).epoch /\ Auth(t, j).mode = Auth(u, j).mode
    BY <1>12, KeyParts DEF OnlyOwners, Auth
<1>14. Replaces(s, t, k)
    BY <1>6, <1>10, <1>12, <1>13 DEF Replaces, OnlyOwners, SameAt
<1> QED
    BY <1>1, <1>2, <1>4, <1>9, <1>11, <1>12, <1>13, <1>14 DEF k


\* A contact takes both components.
LEMMA ContactEffect ==
    ASSUME TypeOK, NEW w \in Workers, NEW e \in Entities, NEW x \in Spots, NEW other \in Entities,
           NEW written \in 0 .. 2, ContactRisk(w, e, x, other, written)
    PROVE  /\ e # other /\ e \in conf.ids /\ other \in conf.ids
           /\ Typed(NextWorld) /\ KeepsTold(World, NextWorld, {})
           /\ \A d \in Entities : /\ ent'[d].pos = ent[d].pos /\ ent'[d].region = ent[d].region
                                  /\ ent'[d].tx = ent[d].tx
           /\ \A d \in Entities, c \in Comps :
                 IF d \in {e, other} /\ c = "pos"
                 THEN ent'[d].auth[c].epoch = ent[d].auth[c].epoch + 1 /\ ent'[d].auth[c].mode = "arbitrated"
                 ELSE ent'[d].auth[c].epoch = ent[d].auth[c].epoch /\ ent'[d].auth[c].mode = ent[d].auth[c].mode
<1> PICK s : s = World
    OBVIOUS
<1>1. Typed(s) /\ s.ent = ent /\ s.workers = workers
    BY WorldTyped
<1>2. e # other /\ e \in conf.ids /\ other \in conf.ids
    BY DEF ContactRisk, Contacts, MayWrite
<1> DEFINE owner == Serves[ent[e].region]
<1>3. owner \in Workers
    <2>1. ent[e].region \in Regions
        BY DEF TypeOK, EntityType
    <2> QED
        BY <2>1, AuthorityConstants
<1> DEFINE t == Escalate(s, e, owner)
           u == Escalate(t, other, owner)
<1>4. Becomes(u)
    BY DEF ContactRisk
<1> HIDE DEF owner
<1>5. /\ Typed(t) /\ KeepsTold(s, t, {}) /\ Replaces(s, t, <<e, "pos">>)
      /\ Auth(t, <<e, "pos">>).epoch = Auth(s, <<e, "pos">>).epoch + 1
      /\ Auth(t, <<e, "pos">>).mode = "arbitrated"
    BY <1>1, <1>3, EscalateIs
<1> HIDE DEF t
<1>6. /\ Typed(u) /\ KeepsTold(t, u, {}) /\ Replaces(t, u, <<other, "pos">>)
      /\ Auth(u, <<other, "pos">>).epoch = Auth(t, <<other, "pos">>).epoch + 1
      /\ Auth(u, <<other, "pos">>).mode = "arbitrated"
    BY <1>3, <1>5, EscalateIs
<1> HIDE DEF u
<1>7. NextWorld.ent = u.ent /\ Typed(NextWorld) /\ KeepsTold(s, NextWorld, {}) /\ ent' = u.ent
    BY <1>4, <1>5, <1>6, BecomesNext, ToldChain DEF NextWorld
<1>8. \A d \in Entities : /\ u.ent[d].pos = s.ent[d].pos /\ u.ent[d].region = s.ent[d].region
                          /\ u.ent[d].tx = s.ent[d].tx
    BY <1>5, <1>6 DEF Replaces
<1>9. ASSUME NEW d \in Entities, NEW c \in Comps
      PROVE  IF d \in {e, other} /\ c = "pos"
             THEN u.ent[d].auth[c].epoch = s.ent[d].auth[c].epoch + 1 /\ u.ent[d].auth[c].mode = "arbitrated"
             ELSE u.ent[d].auth[c].epoch = s.ent[d].auth[c].epoch /\ u.ent[d].auth[c].mode = s.ent[d].auth[c].mode
    <2>1. /\ <<d, c>> \in Keys /\ <<e, "pos">> \in Keys /\ <<other, "pos">> \in Keys
          /\ <<e, "pos">> # <<other, "pos">>
        BY <1>2 DEF Keys, Comps
    <2>2. \A v : Auth(v, <<d, c>>) = v.ent[d].auth[c]
        BY DEF Auth
    <2>3. CASE <<d, c>> = <<e, "pos">>
        BY <1>5, <1>6, <2>1, <2>2, <2>3 DEF Replaces
    <2>4. CASE <<d, c>> = <<other, "pos">>
        BY <1>5, <1>6, <2>1, <2>2, <2>4 DEF Replaces
    <2>5. CASE <<d, c>> # <<e, "pos">> /\ <<d, c>> # <<other, "pos">>
        BY <1>5, <1>6, <2>1, <2>2, <2>5 DEF Replaces
    <2> QED
        BY <2>3, <2>4, <2>5
<1> QED
    BY <1>1, <1>2, <1>7, <1>8, <1>9

\* A revoke of the keys K from w.
LEMMA RevokeIs ==
    ASSUME NEW s, Typed(s), NEW w \in Workers \cup {None}, NEW K,
           NEW t, t = Revoke(s, w, K)
    PROVE  /\ Typed(t) /\ OnlyOwners(s, t)
           /\ \A x \in Workers : s.workers[x] = None => t.workers[x] = None
           /\ \A j \in Keys : (j \in K => Auth(s, j).owner # w) => Auth(t, j) = Auth(s, j)
           /\ \A x \in Workers, j \in Keys : s.workers[x] # None =>
                 t.workers[x].cache[j] = IF j \in K /\ x = w THEN 0 ELSE s.workers[x].cache[j]
<1> DEFINE lost == Of(w, K)
           gained == Of(None, {})
<1>1. /\ lost \in Takers /\ gained \in Takers
      /\ \A j \in Keys : gained[j] = None /\ lost[j] = IF j \in K THEN w ELSE None
    BY OfTakes
<1>2. t = Regrant(s, lost, gained)
    BY DEF Revoke
<1> HIDE DEF lost, gained
<1>3. s.ent \in [Entities -> EntityType] /\ s.workers \in [Workers -> HandleType]
    BY DEF Typed
<1>4. /\ t.ent \in [Entities -> EntityType]
      /\ \A e \in Entities :
            /\ t.ent[e].pos = s.ent[e].pos /\ t.ent[e].region = s.ent[e].region
            /\ t.ent[e].tx = s.ent[e].tx
            /\ \A c \in Comps :
                  /\ t.ent[e].auth[c].epoch = s.ent[e].auth[c].epoch
                  /\ t.ent[e].auth[c].mode = s.ent[e].auth[c].mode
                  /\ t.ent[e].auth[c].owner = RegrantedOwner(s, lost, gained, <<e, c>>)
    BY <1>1, <1>2, <1>3, RegrantEnt
<1>5. /\ t.workers \in [Workers -> HandleType]
      /\ \A x \in Workers :
            /\ s.workers[x] = None => t.workers[x] = None
            /\ s.workers[x] # None =>
                  /\ t.workers[x].view = s.workers[x].view
                  /\ \A j \in Keys : t.workers[x].cache[j] =
                        IF gained[j] = x THEN s.ent[j[1]].auth[j[2]].epoch
                        ELSE IF lost[j] = x THEN 0 ELSE s.workers[x].cache[j]
    BY <1>1, <1>2, <1>3, RegrantWorkers
<1>6. None \notin Workers
    BY AuthorityConstants
<1>7. ASSUME NEW j \in Keys, j \in K => Auth(s, j).owner # w
      PROVE  Auth(t, j) = Auth(s, j)
    <2>1. j[1] \in Entities /\ j[2] \in Comps /\ j = <<j[1], j[2]>>
        BY KeyParts
    <2>2. ~There(s, gained[j]) /\ (There(s, lost[j]) => j \in K /\ lost[j] = w)
        BY <1>1 DEF There
    <2>3. RegrantedOwner(s, lost, gained, j) = Auth(s, j).owner
        BY <1>7, <2>2 DEF RegrantedOwner, Auth
    <2>4. /\ Auth(t, j) \in [owner : Workers \cup {None}, epoch : Nat \ {0}, mode : Modes]
          /\ Auth(s, j) \in [owner : Workers \cup {None}, epoch : Nat \ {0}, mode : Modes]
        BY <1>3, <1>4, AuthParts
    <2>5. /\ Auth(t, j).owner = Auth(s, j).owner /\ Auth(t, j).epoch = Auth(s, j).epoch
          /\ Auth(t, j).mode = Auth(s, j).mode
        BY <1>4, <2>1, <2>3 DEF Auth
    <2> QED
        BY <2>4, <2>5
<1>8. ASSUME NEW x \in Workers, NEW j \in Keys, s.workers[x] # None
      PROVE  t.workers[x].cache[j] = IF j \in K /\ x = w THEN 0 ELSE s.workers[x].cache[j]
    <2>1. gained[j] # x /\ (lost[j] = x <=> (j \in K /\ x = w))
        BY <1>1, <1>6
    <2> QED
        BY <1>5, <1>8, <2>1
<1>9. Typed(t) /\ OnlyOwners(s, t)
    BY <1>4, <1>5 DEF Typed, OnlyOwners
<1> QED
    BY <1>5, <1>7, <1>8, <1>9

\* The administrator replaces the authority over one component.
LEMMA SetEffect ==
    ASSUME TypeOK, NEW e \in Entities, NEW c \in Comps, NEW owner \in Workers \cup {None},
           NEW mode \in Modes, NEW expected, SetComponentAuthority(e, c, owner, mode, expected)
    PROVE  /\ Typed(NextWorld) /\ KeepsTold(World, NextWorld, {})
           /\ \A d \in Entities : /\ ent'[d].pos = ent[d].pos /\ ent'[d].region = ent[d].region
                                  /\ ent'[d].tx = ent[d].tx
           /\ \A d \in Entities, b \in Comps :
                 IF d = e /\ b = c
                 THEN ent'[d].auth[b].epoch = ent[d].auth[b].epoch + 1 /\ ent'[d].auth[b].mode = mode
                 ELSE ent'[d].auth[b].epoch = ent[d].auth[b].epoch /\ ent'[d].auth[b].mode = ent[d].auth[b].mode
<1> PICK s : s = World
    OBVIOUS
<1>1. Typed(s) /\ s.ent = ent /\ s.workers = workers
    BY WorldTyped
<1> DEFINE k == <<e, c>>
           was == ent[e].auth[c]
           now == [owner |-> owner, epoch |-> was.epoch + 1, mode |-> mode]
           v == [s EXCEPT !.ent = Set(@, e, c, now)]
           u == IF was.owner # owner THEN Revoke(v, was.owner, {k}) ELSE v
           t == Grant(u, owner, {k})
<1>2. Becomes(t)
    BY DEF SetComponentAuthority
<1>3. k \in Keys /\ k[1] = e /\ k[2] = c
    BY DEF Keys
<1>4. /\ was = Auth(s, k)
      /\ was \in [owner : Workers \cup {None}, epoch : Nat \ {0}, mode : Modes]
    BY <1>1, <1>3, AuthParts DEF Auth, Typed
<1>5. /\ now \in [owner : Workers \cup {None}, epoch : Nat \ {0}, mode : Modes]
      /\ now.owner = owner /\ now.epoch = was.epoch + 1 /\ now.mode = mode
    BY <1>4
<1>6. v.ent = Set(s.ent, e, c, now) /\ v.workers = s.workers
    BY DEF World
<1> HIDE DEF v, was, now
<1>7. /\ v.ent \in [Entities -> EntityType]
      /\ \A d \in Entities : /\ v.ent[d].pos = s.ent[d].pos /\ v.ent[d].region = s.ent[d].region
                             /\ v.ent[d].tx = s.ent[d].tx
      /\ v.ent[e].auth[c] = now
      /\ \A d \in Entities, b \in Comps : (d # e \/ b # c) => v.ent[d].auth[b] = s.ent[d].auth[b]
    BY <1>1, <1>5, <1>6, SetIs DEF Typed
<1>8. Typed(v) /\ Auth(v, k) = now
    BY <1>1, <1>3, <1>6, <1>7 DEF Typed, Auth
<1>9. \A j \in Keys \ {k} : Auth(v, j) = Auth(s, j)
    <2> SUFFICES ASSUME NEW j \in Keys, j # k PROVE Auth(v, j) = Auth(s, j)
        OBVIOUS
    <2>1. j[1] \in Entities /\ j[2] \in Comps /\ (j[1] # e \/ j[2] # c)
        BY KeyParts
    <2> QED
        BY <1>7, <2>1 DEF Auth
<1> HIDE DEF k
<1>10. /\ Typed(u) /\ OnlyOwners(v, u)
       /\ \A x \in Workers : s.workers[x] = None => u.workers[x] = None
       /\ \A j \in Keys : Auth(u, j) = Auth(v, j)
       /\ \A x \in Workers, j \in Keys : s.workers[x] # None =>
             u.workers[x].cache[j] = IF j = k /\ x = was.owner /\ was.owner # owner THEN 0
                                     ELSE s.workers[x].cache[j]
    <2>1. CASE was.owner # owner
        <3>1. was.owner \in Workers \cup {None} /\ Auth(v, k).owner # was.owner
            BY <1>4, <1>5, <1>8, <2>1
        <3>2. PICK K : K = {k}
            OBVIOUS
        <3>3. u = Revoke(v, was.owner, K)
            BY <2>1, <3>2
        <3>a. Typed(v)
            BY <1>8
        <3>b. PICK o : o = was.owner
            OBVIOUS
        <3>c. o \in Workers \cup {None} /\ u = Revoke(v, o, K)
            BY <3>1, <3>3, <3>b
        <3> HIDE DEF u
        <3>4. /\ Typed(u) /\ OnlyOwners(v, u)
              /\ \A x \in Workers : v.workers[x] = None => u.workers[x] = None
              /\ \A j \in Keys : (j \in K => Auth(v, j).owner # o) => Auth(u, j) = Auth(v, j)
              /\ \A x \in Workers, j \in Keys : v.workers[x] # None =>
                    u.workers[x].cache[j] = IF j \in K /\ x = o THEN 0 ELSE v.workers[x].cache[j]
            BY <3>a, <3>c, RevokeIs
        <3>5. \A j \in Keys : j \in K => Auth(v, j).owner # was.owner
            BY <3>1, <3>2
        <3>6. \A j \in Keys : Auth(u, j) = Auth(v, j)
            BY <3>4, <3>5, <3>b
        <3>7. ASSUME NEW x \in Workers, NEW j \in Keys, s.workers[x] # None
              PROVE  u.workers[x].cache[j] = IF j = k /\ x = was.owner /\ was.owner # owner THEN 0
                                             ELSE s.workers[x].cache[j]
            BY <1>6, <2>1, <3>2, <3>4, <3>7, <3>b
        <3>8. \A x \in Workers : s.workers[x] = None => u.workers[x] = None
            BY <1>6, <3>4
        <3> QED
            BY <3>4, <3>6, <3>7, <3>8
    <2>2. CASE was.owner = owner
        <3>1. u = v
            BY <2>2
        <3> HIDE DEF u
        <3> QED
            BY <1>6, <1>8, <2>2, <3>1 DEF OnlyOwners
    <2> QED
        BY <2>1, <2>2
<1> HIDE DEF u
<1>11. Auth(u, k).owner = owner
    BY <1>3, <1>5, <1>8, <1>10
<1>12. \A j \in Keys \ {k} : SameAt(s, u, j)
    BY <1>9, <1>10 DEF SameAt
<1>13. \A x \in Workers \ {owner} : s.workers[x] # None =>
          u.workers[x].cache[k] = IF x = Auth(s, k).owner THEN 0 ELSE s.workers[x].cache[k]
    BY <1>3, <1>4, <1>10
<1>14. KeepsTold(s, t, {})
    BY <1>1, <1>3, <1>10, <1>11, <1>12, <1>13, ReplaceTold
<1>15. t = Grant(u, owner, {k})
    OBVIOUS
<1> HIDE DEF t
<1>16. Typed(t) /\ OnlyOwners(u, t)
    BY <1>10, <1>15, GrantIs
<1>17. NextWorld.ent = t.ent /\ Typed(NextWorld) /\ KeepsTold(s, NextWorld, {}) /\ ent' = t.ent
    BY <1>2, <1>14, <1>16, BecomesNext DEF NextWorld
<1>18. \A d \in Entities : /\ t.ent[d].pos = s.ent[d].pos /\ t.ent[d].region = s.ent[d].region
                           /\ t.ent[d].tx = s.ent[d].tx
    BY <1>7, <1>10, <1>16 DEF OnlyOwners
<1>19. ASSUME NEW d \in Entities, NEW b \in Comps
       PROVE  IF d = e /\ b = c
              THEN t.ent[d].auth[b].epoch = s.ent[d].auth[b].epoch + 1 /\ t.ent[d].auth[b].mode = mode
              ELSE t.ent[d].auth[b].epoch = s.ent[d].auth[b].epoch /\ t.ent[d].auth[b].mode = s.ent[d].auth[b].mode
    <2>1. t.ent[d].auth[b].epoch = v.ent[d].auth[b].epoch /\ t.ent[d].auth[b].mode = v.ent[d].auth[b].mode
        BY <1>10, <1>16 DEF OnlyOwners
    <2>2. CASE d = e /\ b = c
        BY <1>1, <1>5, <1>7, <2>1, <2>2 DEF was
    <2>3. CASE ~(d = e /\ b = c)
        BY <1>7, <2>1, <2>3
    <2> QED
        BY <2>2, <2>3
<1> QED
    BY <1>1, <1>17, <1>18, <1>19


(***************************************************************************)
(* Moves.                                                                  *)
(***************************************************************************)
\* The moves of a set, one of each entity.
Moves(H) ==
    /\ \A h \in H : /\ h.eid \in Entities /\ h.moved \subseteq Comps
                    /\ h.old \in Workers /\ h.new \in Workers
    /\ \A g, h \in H : g.eid = h.eid => g = h
MovedKeys(h) == {k \in Keys : k[1] = h.eid /\ k[2] \in h.moved}

LEMMA MoveOfIs ==
    ASSUME NEW H, Moves(H), NEW h \in H
    PROVE  MoveOf(H, h.eid) = h
BY DEF MoveOf, Moves

\* The transfer of the moves H out of s, in which the authority is what it will be; s0
\* is the world before.  The keys K are excepted.
LEMMA TransferIs ==
    ASSUME NEW s0, Typed(s0), NEW s, Typed(s), s.workers = s0.workers,
           NEW H, Moves(H), NEW K,
           \A h \in H : AclGrants(h.new, h.eid) \subseteq K,
           \A h \in H : \A k \in MovedKeys(h) \ K :
               Auth(s0, k).owner \in {h.old, None} /\ Auth(s, k).owner = h.new,
           \A k \in Keys \ K : (\A h \in H : k \notin MovedKeys(h)) => Auth(s, k) = Auth(s0, k),
           NEW t, t = Transfer(s, H)
    PROVE  Typed(t) /\ OnlyOwners(s, t) /\ KeepsTold(s0, t, K)
<1> DEFINE moves(k) == \E h \in H : h.eid = k[1] /\ k[2] \in h.moved
           checks(k) == \E h \in H : /\ There(s, h.new) /\ h.eid \notin s.workers[h.new].view
                                     /\ k \in AclGrants(h.new, h.eid)
           lost == [k \in Keys |-> IF moves(k) THEN MoveOf(H, k[1]).old ELSE None]
           gained == [k \in Keys |-> IF moves(k) \/ checks(k) THEN MoveOf(H, k[1]).new ELSE None]
           seen == [w \in Workers |->
                       IF s.workers[w] = None THEN None
                       ELSE [s.workers[w] EXCEPT !.view = @ \cup {h.eid : h \in {g \in H : g.new = w}}]]
           r == [ent |-> s.ent, workers |-> seen]
<1>1. t = Regrant(r, lost, gained)
    BY Zenon DEF Transfer
<1>2. None \notin Workers
    BY AuthorityConstants
<1>3. ASSUME NEW h \in H
      PROVE  MoveOf(H, h.eid) = h /\ h.old \in Workers /\ h.new \in Workers
    BY MoveOfIs DEF Moves
<1>4. \A k \in Keys : checks(k) => \E h \in H : k[1] = h.eid /\ k \in AclGrants(h.new, h.eid)
    BY DEF AclGrants
<1>5. ASSUME NEW k \in Keys
      PROVE  /\ lost[k] \in Workers \cup {None} /\ gained[k] \in Workers \cup {None}
             /\ lost[k] # None => \E h \in H : /\ k \in MovedKeys(h) /\ lost[k] = h.old
                                               /\ gained[k] = h.new
             /\ lost[k] = None /\ gained[k] # None =>
                   \E h \in H : k \in AclGrants(h.new, h.eid) /\ gained[k] = h.new
             /\ \A h \in H : k \in MovedKeys(h) => lost[k] = h.old
    <2>1. CASE moves(k)
        <3>1. PICK h \in H : h.eid = k[1] /\ k[2] \in h.moved
            BY <2>1
        <3>2. MoveOf(H, k[1]) = h /\ h.old \in Workers /\ h.new \in Workers
            BY <1>3, <3>1
        <3>3. lost[k] = h.old /\ gained[k] = h.new
            BY <2>1, <3>2
        <3>4. k \in MovedKeys(h)
            BY <3>1 DEF MovedKeys
        <3>5. \A g \in H : k \in MovedKeys(g) => g = h
            BY <3>1 DEF MovedKeys, Moves
        <3> HIDE DEF lost, gained, moves, checks
        <3> QED
            BY <1>2, <3>2, <3>3, <3>4, <3>5
    <2>2. CASE ~moves(k) /\ checks(k)
        <3>1. PICK h \in H : k[1] = h.eid /\ k \in AclGrants(h.new, h.eid)
            BY <1>4, <2>2
        <3>2. MoveOf(H, k[1]) = h /\ h.new \in Workers
            BY <1>3, <3>1
        <3>3. lost[k] = None /\ gained[k] = h.new
            BY <2>2, <3>2
        <3>4. \A g \in H : k \notin MovedKeys(g)
            BY <2>2 DEF MovedKeys
        <3> HIDE DEF lost, gained, moves, checks
        <3> QED
            BY <3>1, <3>2, <3>3, <3>4
    <2>3. CASE ~moves(k) /\ ~checks(k)
        <3>1. lost[k] = None /\ gained[k] = None
            BY <2>3
        <3>2. \A g \in H : k \notin MovedKeys(g)
            BY <2>3 DEF MovedKeys
        <3> HIDE DEF lost, gained, moves, checks
        <3> QED
            BY <3>1, <3>2
    <2> QED
        BY <2>1, <2>2, <2>3
<1>6. lost \in Takers /\ gained \in Takers
    <2>1. lost = [k \in Keys |-> lost[k]] /\ gained = [k \in Keys |-> gained[k]]
        OBVIOUS
    <2> HIDE DEF lost, gained, moves, checks
    <2> QED
        BY <1>5, <2>1 DEF Takers
<1>7. /\ seen \in [Workers -> HandleType]
      /\ \A w \in Workers : (s.workers[w] = None => seen[w] = None)
                            /\ (s.workers[w] # None => seen[w].cache = s.workers[w].cache)
    <2> DEFINE row(w) == IF s.workers[w] = None THEN None
                         ELSE [s.workers[w] EXCEPT !.view = @ \cup {h.eid : h \in {g \in H : g.new = w}}]
    <2>1. seen = [w \in Workers |-> row(w)]
        OBVIOUS
    <2>2. ASSUME NEW w \in Workers, s.workers[w] # None
          PROVE  row(w) \in HandleType /\ row(w).cache = s.workers[w].cache
        <3>1. s.workers[w] \in [view : SUBSET Entities, cache : [Keys -> Nat]]
            BY <2>2 DEF Typed, HandleType
        <3>2. PICK V : V = {h.eid : h \in {g \in H : g.new = w}}
            OBVIOUS
        <3>3. V \subseteq Entities
            BY <3>2 DEF Moves
        <3>4. row(w) = [s.workers[w] EXCEPT !.view = @ \cup V]
            BY <2>2, <3>2
        <3> HIDE DEF row
        <3> QED
            BY <3>1, <3>3, <3>4 DEF HandleType
    <2>3. \A w \in Workers : s.workers[w] = None => row(w) = None /\ None \in HandleType
        BY DEF HandleType
    <2> HIDE DEF row, seen
    <2> QED
        BY <2>1, <2>2, <2>3
<1>8. r.ent = s.ent /\ r.workers = seen
    OBVIOUS
<1> HIDE DEF lost, gained, seen, r, moves, checks
<1>9. Typed(r)
    BY <1>7, <1>8 DEF Typed
<1>10. /\ t.ent \in [Entities -> EntityType]
       /\ \A e \in Entities :
             /\ t.ent[e].pos = s.ent[e].pos /\ t.ent[e].region = s.ent[e].region
             /\ t.ent[e].tx = s.ent[e].tx
             /\ \A c \in Comps :
                   /\ t.ent[e].auth[c].epoch = s.ent[e].auth[c].epoch
                   /\ t.ent[e].auth[c].mode = s.ent[e].auth[c].mode
                   /\ t.ent[e].auth[c].owner = RegrantedOwner(r, lost, gained, <<e, c>>)
    <2>1. r.ent \in [Entities -> EntityType]
        BY <1>9 DEF Typed
    <2>2. /\ t.ent \in [Entities -> EntityType]
          /\ \A e \in Entities :
                /\ t.ent[e].pos = r.ent[e].pos /\ t.ent[e].region = r.ent[e].region
                /\ t.ent[e].tx = r.ent[e].tx
                /\ \A c \in Comps :
                      /\ t.ent[e].auth[c].epoch = r.ent[e].auth[c].epoch
                      /\ t.ent[e].auth[c].mode = r.ent[e].auth[c].mode
                      /\ t.ent[e].auth[c].owner = RegrantedOwner(r, lost, gained, <<e, c>>)
        BY <1>1, <1>6, <2>1, RegrantEnt
    <2> QED
        BY <1>8, <2>2
<1>11. /\ t.workers \in [Workers -> HandleType]
       /\ \A w \in Workers :
             /\ r.workers[w] = None => t.workers[w] = None
             /\ r.workers[w] # None =>
                   /\ t.workers[w].view = r.workers[w].view
                   /\ \A k \in Keys : t.workers[w].cache[k] =
                         IF gained[k] = w THEN r.ent[k[1]].auth[k[2]].epoch
                         ELSE IF lost[k] = w THEN 0 ELSE r.workers[w].cache[k]
    BY <1>1, <1>6, <1>9, RegrantWorkers DEF Typed
<1>12. Typed(t) /\ OnlyOwners(s, t)
    <2>1. Typed(t)
        BY <1>10, <1>11 DEF Typed
    <2>2. \A e \in Entities :
             /\ t.ent[e].pos = s.ent[e].pos /\ t.ent[e].region = s.ent[e].region
             /\ t.ent[e].tx = s.ent[e].tx
             /\ \A c \in Comps : /\ t.ent[e].auth[c].epoch = s.ent[e].auth[c].epoch
                                 /\ t.ent[e].auth[c].mode = s.ent[e].auth[c].mode
        BY <1>10
    <2> QED
        BY <2>1, <2>2, Zenon DEF OnlyOwners
<1>13. ASSUME NEW w \in Workers, NEW k \in Keys, k \notin K, ToldIn(s0, w, k),
              t.workers[w] # None, t.workers[w].cache[k] # 0
       PROVE  t.workers[w].cache[k] = Auth(t, k).epoch /\ Auth(t, k).owner = w
    <2>1. k[1] \in Entities /\ k[2] \in Comps /\ k = <<k[1], k[2]>>
        BY KeyParts
    <2>2. /\ Auth(t, k).epoch = Auth(s, k).epoch
          /\ Auth(t, k).owner = RegrantedOwner(r, lost, gained, k)
        BY <1>10, <2>1 DEF Auth
    <2>3. r.workers[w] # None /\ seen[w] # None /\ s.workers[w] # None
        BY <1>7, <1>8, <1>11, <1>13
    <2>4. t.workers[w].cache[k] = IF gained[k] = w THEN Auth(s, k).epoch
                                  ELSE IF lost[k] = w THEN 0 ELSE s.workers[w].cache[k]
        BY <1>7, <1>8, <1>11, <2>3 DEF Auth
    <2>5. CASE gained[k] = w
        <3>1. There(r, gained[k])
            BY <1>2, <1>8, <2>3, <2>5 DEF There
        <3>2. RegrantedOwner(r, lost, gained, k) = w
            BY <2>5, <3>1 DEF RegrantedOwner
        <3> QED
            BY <2>2, <2>4, <2>5, <3>2
    <2>6. CASE gained[k] # w
        <3>1. lost[k] # w /\ s.workers[w].cache[k] # 0 /\ t.workers[w].cache[k] = s.workers[w].cache[k]
            BY <1>13, <2>4, <2>6
        <3>2. s0.workers[w] # None /\ s0.workers[w].cache[k] # 0
            BY <2>3, <3>1
        <3>3. s0.workers[w].cache[k] = Auth(s0, k).epoch /\ Auth(s0, k).owner = w
            BY <1>13, <3>2 DEF ToldIn
        <3>4. \A h \in H : k \notin MovedKeys(h)
            <4> SUFFICES ASSUME NEW h \in H, k \in MovedKeys(h) PROVE FALSE
                OBVIOUS
            <4>1. lost[k] = h.old
                BY <1>5
            <4>2. Auth(s0, k).owner \in {h.old, None}
                BY <1>13
            <4> QED
                BY <1>2, <3>1, <3>3, <4>1, <4>2
        <3>5. lost[k] = None /\ gained[k] = None
            <4>1. lost[k] = None
                BY <1>5, <3>4
            <4>2. gained[k] = None
                BY <1>5, <1>13, <4>1
            <4> QED
                BY <4>1, <4>2
        <3>6. RegrantedOwner(r, lost, gained, k) = Auth(s, k).owner
            BY <1>8, <3>5 DEF RegrantedOwner, There, Auth
        <3>7. Auth(s, k) = Auth(s0, k)
            BY <1>13, <3>4
        <3> QED
            BY <2>2, <3>1, <3>3, <3>6, <3>7
    <2> QED
        BY <2>5, <2>6
<1> QED
    BY <1>12, <1>13 DEF KeepsTold, ToldIn


LEMMA MemberOf ==
    ASSUME NEW S, NEW q \in Seq(S), NEW i \in DOMAIN q
    PROVE  q[i] \in S
OBVIOUS

\* The last write of an entity places it.
LEMMA WrittenIs ==
    ASSUME TypeOK, NEW e \in Entities
    PROVE  /\ Written(e) \in EntityType
           /\ Written(e).region = ent[e].region /\ Written(e).tx = ent[e].tx
           /\ Written(e).auth = ent[e].auth
           /\ WritesOf(e) = {} => Written(e).pos = ent[e].pos
           /\ WritesOf(e) # {} => \E i \in WritesOf(e) : /\ Written(e).pos = updates[i].pos
                                                         /\ \A j \in WritesOf(e) : j <= i
<1>1. ent[e] \in EntityType /\ updates \in Seq([eid : Entities, pos : Spots])
    BY DEF TypeOK
<1>2. CASE WritesOf(e) = {}
    <2>1. Written(e) = ent[e]
        BY <1>2 DEF Written, WritesOf
    <2> QED
        BY <1>1, <1>2, <2>1
<1>3. CASE WritesOf(e) # {}
    <2> DEFINE i == Max(WritesOf(e))
    <2>1. Len(updates) \in Nat /\ WritesOf(e) \subseteq 1 .. Len(updates)
        BY <1>1 DEF WritesOf
    <2>2. i \in WritesOf(e) /\ \A j \in WritesOf(e) : j <= i
        BY <1>3, <2>1, MaxOfIndexes
    <2>3. Written(e) = [ent[e] EXCEPT !.pos = updates[i].pos]
        BY <1>3 DEF Written, WritesOf
    <2> HIDE DEF i
    <2>4. updates[i].pos \in Spots
        <3>1. i \in DOMAIN updates
            BY <2>2 DEF WritesOf
        <3>2. updates[i] \in [eid : Entities, pos : Spots]
            BY <1>1, <3>1, MemberOf
        <3> QED
            BY <3>2
    <2>5. /\ Written(e) \in EntityType /\ Written(e).pos = updates[i].pos
          /\ Written(e).region = ent[e].region /\ Written(e).tx = ent[e].tx
          /\ Written(e).auth = ent[e].auth
        BY <1>1, <2>3, <2>4 DEF EntityType
    <2> QED
        BY <1>3, <2>2, <2>5
<1> QED
    BY <1>2, <1>3

LEMMA StagedIs ==
    ASSUME TypeOK, NEW i \in DOMAIN handoffs
    PROVE  /\ handoffs[i] \in HandoffType /\ handoffs[i].eid \in Entities
           /\ handoffs[i].auth \in AuthorityType
<1>1. handoffs \in Seq(HandoffType)
    BY DEF TypeOK
<1>2. handoffs[i] \in HandoffType
    BY <1>1, MemberOf
<1> QED
    BY <1>2 DEF HandoffType

\* A flush puts in place what was written and what was staged.
LEMMA FlushEffect ==
    ASSUME TypeOK, OneHandoff, StagedAgrees, Flush
    PROVE  /\ Typed(NextWorld)
           /\ KeepsTold(World, NextWorld, (UNION {AclGrants(h.new, h.eid) : h \in ToSet(handoffs)})
                                              \cup (overtaken \X Comps))
           /\ \A e \in Entities : ~Staged(e) =>
                 /\ ent'[e].pos = Written(e).pos /\ ent'[e].region = ent[e].region
                 /\ \A c \in Comps : /\ ent'[e].auth[c].epoch = ent[e].auth[c].epoch
                                     /\ ent'[e].auth[c].mode = ent[e].auth[c].mode
           /\ \A i \in DOMAIN handoffs : LET h == handoffs[i] IN
                 /\ ent'[h.eid].pos = h.pos
                 /\ \A c \in Comps : /\ ent'[h.eid].auth[c].epoch = h.auth[c].epoch
                                     /\ ent'[h.eid].auth[c].mode = h.auth[c].mode
<1> DEFINE H == ToSet(handoffs)
           eids == {h.eid : h \in H}
           row(e) == IF e \in eids THEN ApplyHandoff(Written(e), MoveOf(H, e)) ELSE Written(e)
           placed == [World EXCEPT !.ent = [e \in Entities |-> row(e)]]
           t == Transfer(placed, H)
           L == UNION {AclGrants(h.new, h.eid) : h \in H}
           K == L \cup (overtaken \X Comps)
<1>1. Typed(World) /\ World.ent = ent /\ World.workers = workers
    BY WorldTyped
<1>2. Becomes(t)
    BY DEF Flush
<1>3. \A h \in H : \E i \in DOMAIN handoffs : h = handoffs[i]
    BY DEF ToSet
<1>4. \A i \in DOMAIN handoffs : handoffs[i] \in H
    BY DEF ToSet
<1>5. \A h \in H : h \in HandoffType
    BY <1>3, StagedIs
<1>6. Moves(H)
    <2>1. ASSUME NEW g \in H, NEW h \in H, g.eid = h.eid
          PROVE  g = h
        <3>1. PICK i, j \in DOMAIN handoffs : g = handoffs[i] /\ h = handoffs[j]
            BY <1>3
        <3> QED
            BY <2>1, <3>1 DEF OneHandoff
    <2> HIDE DEF H
    <2> QED
        BY <1>5, <2>1 DEF Moves, HandoffType
<1>7. \A e \in Entities : Staged(e) <=> e \in eids
    BY <1>3, <1>4 DEF Staged
<1> HIDE DEF H
<1>8. ASSUME NEW h \in H
      PROVE  /\ row(h.eid) \in EntityType /\ row(h.eid).pos = h.pos /\ row(h.eid).auth = h.auth
    <2>1. h \in HandoffType /\ h.eid \in Entities /\ MoveOf(H, h.eid) = h
        BY <1>5, <1>6, MoveOfIs DEF HandoffType
    <2>2. row(h.eid) = [Written(h.eid) EXCEPT !.region = h.to, !.pos = h.pos, !.auth = h.auth]
        BY <2>1 DEF ApplyHandoff
    <2>3. Written(h.eid) \in EntityType
        BY <2>1, WrittenIs
    <2> HIDE DEF row
    <2> QED
        BY <2>1, <2>2, <2>3 DEF EntityType, HandoffType
<1>9. ASSUME NEW e \in Entities, e \notin eids
      PROVE  row(e) = Written(e)
    BY <1>9
<1>10. \A e \in Entities : row(e) \in EntityType
    <2> SUFFICES ASSUME NEW e \in Entities PROVE row(e) \in EntityType
        OBVIOUS
    <2>1. CASE e \in eids
        <3>1. PICK h \in H : e = h.eid
            BY <2>1
        <3> HIDE DEF row
        <3> QED
            BY <1>8, <3>1
    <2>2. CASE e \notin eids
        BY <1>9, <2>2, WrittenIs
    <2> QED
        BY <2>1, <2>2
<1>11. placed.ent = [e \in Entities |-> row(e)] /\ placed.workers = workers
    BY DEF World
<1> HIDE DEF placed, row
<1>12. Typed(placed) /\ \A e \in Entities : placed.ent[e] = row(e)
    BY <1>1, <1>10, <1>11 DEF Typed
<1>13. ASSUME NEW h \in H, NEW k \in MovedKeys(h) \ K
       PROVE  Auth(World, k).owner \in {h.old, None} /\ Auth(placed, k).owner = h.new
    <2>1. PICK i \in DOMAIN handoffs : h = handoffs[i]
        BY <1>3
    <2>2. k \in Keys /\ k[1] = h.eid /\ k[2] \in h.moved /\ k[1] \in Entities /\ k[2] \in Comps
        BY KeyParts DEF MovedKeys
    <2>3. h.eid \notin overtaken
        <3>1. k \notin overtaken \X Comps
            OBVIOUS
        <3> QED
            BY <2>2, <3>1, KeyParts
    <2>4. h.auth = Advance(ent[h.eid].auth, h.old, h.new) /\ h.moved = Moved(ent[h.eid].auth, h.old)
        BY <2>1, <2>3 DEF StagedAgrees
    <2>5. ent[h.eid].auth \in AuthorityType /\ h.new \in Workers \cup {None}
        BY <1>5, <2>2 DEF TypeOK, EntityType, HandoffType
    <2>6. h.auth[k[2]].owner = h.new
        BY <2>2, <2>4, <2>5, AdvanceKeeps
    <2>7. Auth(World, k).owner \in {h.old, None}
        BY <1>1, <2>2, <2>4 DEF Moved, Auth
    <2>8. Auth(placed, k) = h.auth[k[2]]
        BY <1>8, <1>12, <2>2 DEF Auth
    <2> QED
        BY <2>6, <2>7, <2>8
<1>14. ASSUME NEW k \in Keys \ K, \A h \in H : k \notin MovedKeys(h)
       PROVE  Auth(placed, k) = Auth(World, k)
    <2>1. k \in Keys /\ k[1] \in Entities /\ k[2] \in Comps /\ k = <<k[1], k[2]>>
        BY KeyParts
    <2>2. CASE k[1] \in eids
        <3>1. PICK h \in H : k[1] = h.eid
            BY <2>2
        <3>2. PICK i \in DOMAIN handoffs : h = handoffs[i]
            BY <1>3
        <3>3. h.eid \notin overtaken
            <4>1. k \notin overtaken \X Comps
                OBVIOUS
            <4> QED
                BY <2>1, <3>1, <4>1
        <3>4. h.auth = Advance(ent[h.eid].auth, h.old, h.new) /\ h.moved = Moved(ent[h.eid].auth, h.old)
            BY <3>2, <3>3 DEF StagedAgrees
        <3>5. k[2] \notin h.moved
            BY <1>14, <2>1, <3>1 DEF MovedKeys
        <3>6. ent[h.eid].auth \in AuthorityType /\ h.new \in Workers \cup {None}
            BY <1>5, <2>1, <3>1 DEF TypeOK, EntityType, HandoffType
        <3>7. h.auth[k[2]] = ent[k[1]].auth[k[2]]
            BY <2>1, <3>1, <3>4, <3>5, <3>6, AdvanceKeeps
        <3> QED
            BY <1>1, <1>8, <1>12, <2>1, <3>1, <3>7 DEF Auth
    <2>3. CASE k[1] \notin eids
        BY <1>1, <1>9, <1>12, <2>1, <2>3, WrittenIs DEF Auth
    <2> QED
        BY <2>2, <2>3
<1>15. /\ Typed(t) /\ OnlyOwners(placed, t) /\ KeepsTold(World, t, K)
    <2>1. \A h \in H : AclGrants(h.new, h.eid) \subseteq K
        OBVIOUS
    <2> HIDE DEF K
    <2>2. placed.workers = World.workers
        BY <1>1, <1>11
    <2> QED
        BY <1>1, <1>6, <1>12, <1>13, <1>14, <2>1, <2>2, TransferIs
<1> HIDE DEF t, K
<1>16. NextWorld.ent = t.ent /\ ent' = t.ent /\ Typed(NextWorld) /\ KeepsTold(World, NextWorld, K)
    <2> PICK s : s = World
        OBVIOUS
    <2>1. KeepsTold(s, t, K)
        BY <1>15
    <2>2. KeepsTold(s, NextWorld, K) /\ NextWorld.ent = t.ent /\ Typed(NextWorld)
        BY <1>2, <1>15, <2>1, BecomesNext
    <2> QED
        BY <2>2 DEF NextWorld
<1>17. ASSUME NEW e \in Entities
       PROVE  /\ ent'[e].pos = row(e).pos /\ ent'[e].region = row(e).region
              /\ \A c \in Comps : /\ ent'[e].auth[c].epoch = row(e).auth[c].epoch
                                  /\ ent'[e].auth[c].mode = row(e).auth[c].mode
    BY <1>12, <1>15, <1>16 DEF OnlyOwners
<1>18. ASSUME NEW e \in Entities, ~Staged(e)
       PROVE  /\ ent'[e].pos = Written(e).pos /\ ent'[e].region = ent[e].region
              /\ \A c \in Comps : /\ ent'[e].auth[c].epoch = ent[e].auth[c].epoch
                                  /\ ent'[e].auth[c].mode = ent[e].auth[c].mode
    <2>1. row(e) = Written(e)
        BY <1>7, <1>9, <1>18
    <2> QED
        BY <1>17, <2>1, WrittenIs
<1>19. ASSUME NEW i \in DOMAIN handoffs
       PROVE  /\ ent'[handoffs[i].eid].pos = handoffs[i].pos
              /\ \A c \in Comps : /\ ent'[handoffs[i].eid].auth[c].epoch = handoffs[i].auth[c].epoch
                                  /\ ent'[handoffs[i].eid].auth[c].mode = handoffs[i].auth[c].mode
    <2>1. handoffs[i] \in H /\ handoffs[i].eid \in Entities
        BY <1>4, StagedIs
    <2> QED
        BY <1>8, <1>17, <2>1
<1>20. K = (UNION {AclGrants(h.new, h.eid) : h \in ToSet(handoffs)}) \cup (overtaken \X Comps)
    BY DEF K, H
<1> HIDE DEF L
<1> QED
    BY <1>16, <1>18, <1>19, <1>20


\* The record of a commit, in memory or in the log.
CommittedRow(st, region, auth) == [st EXCEPT !.tx = "commit", !.region = region, !.auth = auth]

LEMMA CommittedRowIs ==
    ASSUME NEW st \in EntityType, NEW region \in Regions, NEW auth \in AuthorityType
    PROVE  /\ CommittedRow(st, region, auth) \in EntityType
           /\ CommittedRow(st, region, auth).pos = st.pos
           /\ CommittedRow(st, region, auth).region = region
           /\ CommittedRow(st, region, auth).auth = auth
BY DEF EntityType, CommittedRow

\* A threshold that commits moves the island with the entity.
LEMMA CommitEffect ==
    ASSUME TypeOK, NEW w \in Workers, NEW e \in Entities, NEW to \in Regions \cup {None},
           NEW supplied, ThresholdCommit(w, e, to, supplied)
    PROVE  \E auth \in AuthorityType, K \in SUBSET Keys :
           /\ Typed(NextWorld) /\ KeepsTold(World, NextWorld, K) /\ NoteUntold(K)
           /\ \A d \in Entities : ent'[d].pos = ent[d].pos
           /\ \A d \in Entities \ {e} : ent'[d].region = ent[d].region
           /\ \A d \in Entities \ {e}, c \in Comps :
                 /\ ent'[d].auth[c].epoch = ent[d].auth[c].epoch
                 /\ ent'[d].auth[c].mode = ent[d].auth[c].mode
           /\ \A c \in Moved(ent[e].auth, Serves[ent[e].region]) : auth[c].epoch # ent[e].auth[c].epoch
           /\ \A c \in Comps :
                 /\ ent'[e].auth[c].epoch = auth[c].epoch /\ auth[c].epoch >= ent[e].auth[c].epoch
                 /\ ent'[e].auth[c].mode = auth[c].mode /\ auth[c].mode = ent[e].auth[c].mode
           /\ disk' \in [Entities -> EntityType]
           /\ disk'[e].auth = auth /\ disk'[e].pos = disk[e].pos
           /\ \A d \in Entities \ {e} : disk'[d] = disk[d]
<1> PICK s0 : s0 = World
    OBVIOUS
<1>1. Typed(s0) /\ s0.ent = ent /\ s0.workers = workers
    BY WorldTyped
<1> DEFINE old == Serves[ent[e].region]
           new == IF to = None THEN None ELSE Serves[to]
           region == IF to = None THEN ent[e].region ELSE to
           auth == Advance(ent[e].auth, old, new)
           moved == Moved(ent[e].auth, old)
           s == [s0 EXCEPT !.ent = [ent EXCEPT ![e] =
                    [@ EXCEPT !.tx = "commit", !.region = region, !.auth = auth]]]
           move == [eid |-> e, moved |-> moved, old |-> old, new |-> new]
           t == IF region # ent[e].region THEN Transfer(s, {move}) ELSE s
           K == IF region # ent[e].region THEN AclGrants(new, e) ELSE {e} \X moved
<1>2. ent[e] \in EntityType /\ ent[e].auth \in AuthorityType /\ ent[e].region \in Regions
    BY DEF TypeOK, EntityType
<1>3. old \in Workers /\ new \in Workers \cup {None} /\ region \in Regions
    BY <1>2, AuthorityConstants
<1>4. /\ auth \in AuthorityType
      /\ \A c \in Comps :
            /\ auth[c].mode = ent[e].auth[c].mode
            /\ auth[c].epoch >= ent[e].auth[c].epoch
            /\ c \notin moved => auth[c] = ent[e].auth[c]
            /\ c \in moved => auth[c].owner = new /\ auth[c].epoch # ent[e].auth[c].epoch
    <2> HIDE DEF old, new
    <2> QED
        BY <1>2, <1>3, AdvanceKeeps
<1>5. moved \subseteq Comps /\ \A c \in moved : ent[e].auth[c].owner \in {old, None}
    BY DEF Moved, Island
<1>6. Becomes(t) /\ NoteUntold(K)
    BY DEF ThresholdCommit
<1>7. disk' = [disk EXCEPT ![e] = CommittedRow(disk[e], region, auth)]
    BY DEF ThresholdCommit, CommittedRow
<1>8. region # ent[e].region => new \in Workers
    BY <1>3, AuthorityConstants
<1>9. s.ent = [ent EXCEPT ![e] = CommittedRow(ent[e], region, auth)] /\ s.workers = workers
    BY DEF World, CommittedRow
<1> HIDE DEF s, auth, region, new, old, moved
<1>10. /\ s.ent \in [Entities -> EntityType]
       /\ s.ent[e].pos = ent[e].pos /\ s.ent[e].region = region /\ s.ent[e].auth = auth
       /\ \A d \in Entities \ {e} : s.ent[d] = ent[d]
    <2>1. ent \in [Entities -> EntityType]
        BY DEF TypeOK
    <2>2. region \in Regions /\ auth \in AuthorityType
        BY <1>3, <1>4
    <2> DEFINE st == CommittedRow(ent[e], region, auth)
    <2>3. ent[e] \in EntityType
        BY <2>1
    <2>4. st \in EntityType /\ st.pos = ent[e].pos /\ st.region = region /\ st.auth = auth
        BY <2>2, <2>3, CommittedRowIs
    <2>5. s.ent = [ent EXCEPT ![e] = st]
        BY <1>9
    <2> HIDE DEF st
    <2> QED
        BY <2>1, <2>4, <2>5
<1>11. /\ disk' \in [Entities -> EntityType]
       /\ disk'[e].auth = auth /\ disk'[e].pos = disk[e].pos
       /\ \A d \in Entities \ {e} : disk'[d] = disk[d]
    <2>1. disk \in [Entities -> EntityType]
        BY DEF TypeOK
    <2>2. region \in Regions /\ auth \in AuthorityType
        BY <1>3, <1>4
    <2> DEFINE st == CommittedRow(disk[e], region, auth)
    <2>3. disk[e] \in EntityType
        BY <2>1
    <2>4. st \in EntityType /\ st.pos = disk[e].pos /\ st.region = region /\ st.auth = auth
        BY <2>2, <2>3, CommittedRowIs
    <2>5. disk' = [disk EXCEPT ![e] = st]
        BY <1>7
    <2> HIDE DEF st
    <2> QED
        BY <2>1, <2>4, <2>5
<1>12. Typed(s)
    BY <1>1, <1>9, <1>10 DEF Typed
<1>13. ASSUME NEW k \in Keys, ~(k[1] = e /\ k[2] \in moved)
       PROVE  Auth(s, k) = Auth(s0, k)
    <2>1. k[1] \in Entities /\ k[2] \in Comps
        BY KeyParts
    <2>2. CASE k[1] = e
        BY <1>1, <1>4, <1>10, <1>13, <2>1, <2>2 DEF Auth
    <2>3. CASE k[1] # e
        BY <1>1, <1>10, <2>1, <2>3 DEF Auth
    <2> QED
        BY <2>2, <2>3
<1>14. Typed(t) /\ OnlyOwners(s, t) /\ KeepsTold(s0, t, K)
    <2>1. CASE region # ent[e].region
        <3> DEFINE H == {move}
        <3>1. t = Transfer(s, H) /\ K = AclGrants(new, e)
            BY <2>1
        <3>2. /\ move \in H /\ \A h \in H : h = move
              /\ move.eid = e /\ move.moved = moved /\ move.old = old /\ move.new = new
            OBVIOUS
        <3> HIDE DEF H, t, K, move
        <3>3. Moves(H)
            BY <1>3, <1>5, <1>8, <2>1, <3>2 DEF Moves
        <3>4. \A h \in H : AclGrants(h.new, h.eid) \subseteq K
            BY <3>1, <3>2
        <3>5. ASSUME NEW h \in H, NEW k \in MovedKeys(h) \ K
              PROVE  Auth(s0, k).owner \in {h.old, None} /\ Auth(s, k).owner = h.new
            <4>1. k \in Keys /\ k[1] = e /\ k[2] \in moved
                BY <3>2 DEF MovedKeys
            <4> QED
                BY <1>1, <1>4, <1>5, <1>10, <3>2, <4>1 DEF Auth
        <3>6. ASSUME NEW k \in Keys \ K, \A h \in H : k \notin MovedKeys(h)
              PROVE  Auth(s, k) = Auth(s0, k)
            <4>1. ~(k[1] = e /\ k[2] \in moved)
                BY <3>2, <3>6 DEF MovedKeys
            <4> QED
                BY <1>13, <4>1
        <3>7. s.workers = s0.workers
            BY <1>1, <1>9
        <3> QED
            BY <1>1, <1>12, <3>1, <3>3, <3>4, <3>5, <3>6, <3>7, TransferIs
    <2>2. CASE region = ent[e].region
        <3>1. t = s /\ K = {e} \X moved
            BY <2>2
        <3> HIDE DEF t, K
        <3>2. ASSUME NEW k \in Keys \ K
              PROVE  SameAt(s0, s, k)
            <4>1. ~(k[1] = e /\ k[2] \in moved)
                BY <3>1, KeyParts
            <4> QED
                BY <1>1, <1>9, <1>13, <4>1 DEF SameAt
        <3> QED
            BY <1>12, <3>1, <3>2, SameTold DEF KeepsTold, OnlyOwners
    <2> QED
        BY <2>1, <2>2
<1> HIDE DEF t, K
<1>15. ent' = t.ent /\ Typed(NextWorld) /\ KeepsTold(s0, NextWorld, K)
    BY <1>6, <1>14, BecomesNext DEF Becomes
<1>16. /\ \A d \in Entities : ent'[d].pos = ent[d].pos
       /\ \A d \in Entities \ {e} : ent'[d].region = ent[d].region
       /\ \A d \in Entities \ {e}, c \in Comps :
             /\ ent'[d].auth[c].epoch = ent[d].auth[c].epoch
             /\ ent'[d].auth[c].mode = ent[d].auth[c].mode
       /\ \A c \in Comps :
             /\ ent'[e].auth[c].epoch = auth[c].epoch /\ auth[c].epoch >= ent[e].auth[c].epoch
             /\ ent'[e].auth[c].mode = auth[c].mode /\ auth[c].mode = ent[e].auth[c].mode
    BY <1>4, <1>10, <1>14, <1>15 DEF OnlyOwners
<1>17. K \subseteq Keys
    <2>1. CASE region # ent[e].region
        BY <1>8, <2>1, AclOf DEF K
    <2>2. CASE region = ent[e].region
        BY <1>5, <2>2 DEF K, Keys
    <2> QED
        BY <2>1, <2>2
<1>18. \A c \in Moved(ent[e].auth, Serves[ent[e].region]) : auth[c].epoch # ent[e].auth[c].epoch
    BY <1>4, <1>5 DEF moved, old
<1> QED
    BY <1>4, <1>6, <1>11, <1>15, <1>16, <1>17, <1>18


(***************************************************************************)
(* Types, and what is staged.                                              *)
(***************************************************************************)
LEMMA UntoldTyped ==
    ASSUME TypeOK, NEW K, K \subseteq Keys, NoteUntold(K)
    PROVE  untold' \subseteq Workers \X Keys
<1>1. untold' \subseteq untold \cup (Workers \X K)
    BY DEF NoteUntold
<1> QED
    BY <1>1 DEF TypeOK

LEMMA OvertakenTyped ==
    ASSUME TypeOK, NoteOvertaken
    PROVE  overtaken' \subseteq Entities /\ overtaken \subseteq overtaken'
BY DEF TypeOK, NoteOvertaken

LEMMA WorldTypedNext ==
    ASSUME Typed(NextWorld)
    PROVE  ent' \in [Entities -> EntityType] /\ workers' \in [Workers -> HandleType]
BY DEF Typed, NextWorld

LEMMA NothingUntold ==
    {} \subseteq Keys
OBVIOUS

LEMMA AclAll ==
    ASSUME TypeOK, NEW w \in Workers
    PROVE  UNION {AclGrants(w, e) : e \in conf.ids} \subseteq Keys
<1>1. conf.ids \subseteq Entities
    BY AuthorityConstants DEF TypeOK
<1>2. \A e \in conf.ids : AclGrants(w, e) \subseteq Keys
    BY <1>1, AclOf
<1> QED
    BY <1>2

\* What is left of TypeOK when the world is typed.
OtherTypes ==
    /\ conf \in Deployments
    /\ updates \in Seq([eid : Entities, pos : Spots]) /\ handoffs \in Seq(HandoffType)
    /\ pending \in [Requests -> PendingType]
    /\ inbox \subseteq [req : Requests, serial : Nat, eid : Entities, owner : Workers]
    /\ sent \in Nat /\ starts \in Nat /\ degraded \in BOOLEAN /\ blind \in BOOLEAN
    /\ overtaken \subseteq Entities /\ unlogged \subseteq Entities
    /\ untold \subseteq Workers \X Keys

LEMMA TypeParts ==
    TypeOK <=> /\ ent \in [Entities -> EntityType] /\ disk \in [Entities -> EntityType]
               /\ workers \in [Workers -> HandleType] /\ OtherTypes
BY DEF TypeOK, OtherTypes

LEMMA ConnectType ==
    ASSUME TypeOK, NEW w \in Workers, Connect(w)
    PROVE  TypeOK'
<1>1. ent' \in [Entities -> EntityType] /\ workers' \in [Workers -> HandleType]
    BY ConnectEffect, WorldTypedNext
<1>2. untold' \subseteq Workers \X Keys
    BY AclAll, UntoldTyped DEF Connect
<1>3. overtaken' \subseteq Entities
    BY OvertakenTyped DEF Connect
<1>4. UNCHANGED <<conf, disk, staged, commands, degraded, starts, blind, unlogged>>
    BY DEF Connect
<1> QED
    BY <1>1, <1>2, <1>3, <1>4 DEF TypeOK, staged, commands

LEMMA DisconnectType ==
    ASSUME TypeOK, NEW w \in Workers, Disconnect(w)
    PROVE  TypeOK'
<1>1. workers' \in [Workers -> HandleType]
    BY DEF Disconnect, TypeOK, HandleType
<1>2. untold' \subseteq Workers \X Keys
    BY NothingUntold, UntoldTyped DEF Disconnect
<1>3. inbox' \subseteq inbox
    BY DEF Disconnect
<1>4. UNCHANGED <<conf, ent, disk, staged, pending, sent, degraded, starts, overtaken, blind, unlogged>>
    BY DEF Disconnect
<1> QED
    BY <1>1, <1>2, <1>3, <1>4 DEF TypeOK, staged

LEMMA InterestType ==
    ASSUME TypeOK, NEW w \in Workers, NEW e \in Entities, Interest(w, e)
    PROVE  TypeOK'
<1>1. ent' \in [Entities -> EntityType] /\ workers' \in [Workers -> HandleType]
    BY InterestEffect, WorldTypedNext
<1>2. untold' \subseteq Workers \X Keys
    BY AclOf, UntoldTyped DEF Interest
<1>3. overtaken' \subseteq Entities
    BY OvertakenTyped DEF Interest
<1>4. UNCHANGED <<conf, disk, staged, commands, degraded, starts, blind, unlogged>>
    BY DEF Interest
<1> QED
    BY <1>1, <1>2, <1>3, <1>4 DEF TypeOK, staged, commands

\* Appending a member of T to a sequence over T.
LEMMA AppendInSeq ==
    ASSUME NEW T, NEW q \in Seq(T), NEW x \in T
    PROVE  /\ Append(q, x) \in Seq(T)
           /\ Len(q) \in Nat /\ DOMAIN q = 1 .. Len(q)
           /\ DOMAIN Append(q, x) = 1 .. Len(q) + 1
           /\ Append(q, x)[Len(q) + 1] = x
           /\ \A i \in DOMAIN q : Append(q, x)[i] = q[i]
OBVIOUS

\* A field of one row.
LEMMA RowTyped ==
    ASSUME NEW es \in [Entities -> EntityType], NEW e \in Entities
    PROVE  /\ \A x \in Spots : [es EXCEPT ![e].pos = x] \in [Entities -> EntityType]
           /\ \A tx \in {None, "prepare", "preload_ready", "commit"} :
                 [es EXCEPT ![e].tx = tx] \in [Entities -> EntityType]
BY DEF EntityType

LEMMA UpdateType ==
    ASSUME TypeOK, NEW w \in Workers, NEW e \in Entities, NEW x \in Spots, UpdateComponent(w, e, x)
    PROVE  TypeOK'
<1> DEFINE u == [eid |-> e, pos |-> x]
<1>1. updates' \in Seq([eid : Entities, pos : Spots])
    <2>1. u \in [eid : Entities, pos : Spots] /\ updates' = Append(updates, u)
        BY DEF UpdateComponent
    <2> HIDE DEF u
    <2> QED
        BY <2>1, AppendInSeq DEF TypeOK
<1>2. disk' \in [Entities -> EntityType]
    BY DEF UpdateComponent, TypeOK, EntityType
<1>3. blind' \in BOOLEAN /\ overtaken' \subseteq Entities
    BY DEF UpdateComponent, TypeOK
<1>4. UNCHANGED <<conf, ent, workers, handoffs, commands, degraded, starts, untold, unlogged>>
    BY DEF UpdateComponent
<1> QED
    BY <1>1, <1>2, <1>3, <1>4 DEF TypeOK, commands

LEMMA PosOf ==
    ASSUME NEW es \in [Entities -> EntityType], NEW d \in Entities
    PROVE  es[d] \in EntityType /\ es[d].auth \in AuthorityType /\ "pos" \in Comps
           /\ es[d].auth["pos"] \in [owner : Workers \cup {None}, epoch : Nat \ {0}, mode : Modes]
BY DEF EntityType, AuthorityType, Comps

\* The row of the log that an escalation writes.
EscalatedRow(st, ca) == [st EXCEPT !.auth["pos"] = ca]

LEMMA EscalatedRowIs ==
    ASSUME NEW st \in EntityType,
           NEW ca \in [owner : Workers \cup {None}, epoch : Nat \ {0}, mode : Modes]
    PROVE  /\ EscalatedRow(st, ca) \in EntityType /\ EscalatedRow(st, ca).pos = st.pos
           /\ EscalatedRow(st, ca).auth["pos"] = ca
           /\ \A c \in Comps \ {"pos"} : EscalatedRow(st, ca).auth[c] = st.auth[c]
<1> DEFINE au == [st.auth EXCEPT !["pos"] = ca]
<1>1. st.auth \in AuthorityType
    BY DEF EntityType
<1>2. au \in AuthorityType /\ au["pos"] = ca /\ \A c \in Comps \ {"pos"} : au[c] = st.auth[c]
    BY <1>1 DEF AuthorityType, Comps
<1>3. EscalatedRow(st, ca) = [st EXCEPT !.auth = au]
    BY DEF EscalatedRow
<1> HIDE DEF au
<1> QED
    BY <1>2, <1>3 DEF EntityType

\* What a contact leaves in the log.
LEMMA ContactDisk ==
    ASSUME TypeOK, NEW w \in Workers, NEW e \in Entities, NEW x \in Spots, NEW other \in Entities,
           NEW written \in 0 .. 2, ContactRisk(w, e, x, other, written)
    PROVE  /\ disk' \in [Entities -> EntityType]
           /\ \A d \in Entities : disk'[d].pos = disk[d].pos
           /\ \A d \in Entities : disk'[d] # disk[d] =>
                 /\ disk'[d].auth["pos"].epoch = ent[d].auth["pos"].epoch + 1
                 /\ disk'[d].auth["pos"].mode = "arbitrated" /\ d \in {e, other}
                 /\ \A c \in Comps \ {"pos"} : disk'[d].auth[c] = disk[d].auth[c]
           /\ \A d \in {e, other} \ unlogged' : disk'[d].auth["pos"].epoch = ent[d].auth["pos"].epoch + 1
           /\ degraded' \/ \A d \in {e, other} : disk'[d].auth["pos"].mode = "arbitrated"
<1> DEFINE owner == Serves[ent[e].region]
           pair == <<e, other>>
           row(d) == EscalatedRow(disk[d], Escalated(ent[d].auth["pos"], owner))
           D == {d \in Entities : \E i \in 1 .. written : pair[i] = d}
<1>1. disk' = [d \in Entities |-> IF d \in D THEN row(d) ELSE disk[d]]
    BY DEF ContactRisk, EscalatedRow
<1>2. owner \in Workers
    BY AuthorityConstants DEF TypeOK, EntityType
<1>3. ASSUME NEW d \in Entities
      PROVE  /\ row(d) \in EntityType /\ row(d).pos = disk[d].pos
             /\ row(d).auth["pos"].epoch = ent[d].auth["pos"].epoch + 1
             /\ row(d).auth["pos"].mode = "arbitrated"
             /\ \A c \in Comps \ {"pos"} : row(d).auth[c] = disk[d].auth[c]
    <2> DEFINE ca == Escalated(ent[d].auth["pos"], owner)
    <2>1. ent[d].auth["pos"].epoch \in Nat \ {0}
        BY PosOf DEF TypeOK
    <2>2. /\ ca \in [owner : Workers \cup {None}, epoch : Nat \ {0}, mode : Modes]
          /\ ca.epoch = ent[d].auth["pos"].epoch + 1 /\ ca.mode = "arbitrated"
        BY <1>2, <2>1 DEF Escalated, Modes
    <2>3. disk[d] \in EntityType
        BY DEF TypeOK
    <2> HIDE DEF ca
    <2> QED
        BY <2>2, <2>3, EscalatedRowIs DEF ca
<1>4. D \subseteq {e, other} /\ {e, other} \ unlogged' \subseteq D
    <2>1. unlogged' = unlogged \cup {pair[i] : i \in written + 1 .. 2}
        BY DEF ContactRisk
    <2>2. written \in {0, 1, 2}
        OBVIOUS
    <2> QED
        BY <2>1, <2>2
<1>5. degraded' \/ {e, other} \subseteq D
    <2>1. CASE written = 2
        BY <2>1
    <2>2. CASE written # 2
        <3>1. written < 2
            BY <2>2
        <3>2. degraded' = (written < 2)
            BY DEF ContactRisk
        <3> HIDE DEF D
        <3> QED
            BY <3>1, <3>2
    <2> QED
        BY <2>1, <2>2
<1>6. disk \in [Entities -> EntityType]
    BY DEF TypeOK
<1> HIDE DEF D, row
<1> QED
    BY <1>1, <1>3, <1>4, <1>5, <1>6

LEMMA ContactType ==
    ASSUME TypeOK, NEW w \in Workers, NEW e \in Entities, NEW x \in Spots, NEW other \in Entities,
           NEW written \in 0 .. 2, ContactRisk(w, e, x, other, written)
    PROVE  TypeOK'
<1>1. ent' \in [Entities -> EntityType] /\ workers' \in [Workers -> HandleType]
    BY ContactEffect, WorldTypedNext
<1>2. disk' \in [Entities -> EntityType]
    BY ContactDisk
<1>3. untold' \subseteq Workers \X Keys
    BY NothingUntold, UntoldTyped DEF ContactRisk
<1>4. overtaken' \subseteq Entities
    BY OvertakenTyped DEF ContactRisk
<1>5. degraded' \in BOOLEAN
    BY DEF ContactRisk
<1>6. unlogged' \subseteq Entities
    <2>1. \A i \in written + 1 .. 2 : i \in {1, 2}
        OBVIOUS
    <2>2. \A i \in {1, 2} : <<e, other>>[i] \in Entities
        OBVIOUS
    <2> QED
        BY <2>1, <2>2 DEF ContactRisk, TypeOK
<1>7. UNCHANGED <<conf, staged, commands, starts, blind>>
    BY DEF ContactRisk
<1> QED
    BY <1>1, <1>2, <1>3, <1>4, <1>5, <1>6, <1>7 DEF TypeOK, staged, commands


\* What the administrator leaves in the log.
LEMMA SetDisk ==
    ASSUME TypeOK, NEW e \in Entities, NEW c \in Comps, NEW owner \in Workers \cup {None},
           NEW mode \in Modes, NEW expected, SetComponentAuthority(e, c, owner, mode, expected)
    PROVE  /\ disk' \in [Entities -> EntityType]
           /\ \A d \in Entities : disk'[d].pos = disk[d].pos
           /\ disk'[e].auth[c].epoch = ent[e].auth[c].epoch + 1 /\ disk'[e].auth[c].mode = mode
           /\ \A d \in Entities, b \in Comps : (d # e \/ b # c) => disk'[d].auth[b] = disk[d].auth[b]
<1> DEFINE now == [owner |-> owner, epoch |-> ent[e].auth[c].epoch + 1, mode |-> mode]
<1>1. ent[e].auth[c].epoch \in Nat \ {0}
    BY DEF TypeOK, EntityType, AuthorityType
<1>2. /\ now \in [owner : Workers \cup {None}, epoch : Nat \ {0}, mode : Modes]
      /\ now.epoch = ent[e].auth[c].epoch + 1 /\ now.mode = mode
    BY <1>1
<1>3. disk' = Set(disk, e, c, now)
    BY DEF SetComponentAuthority
<1>4. disk \in [Entities -> EntityType]
    BY DEF TypeOK
<1> HIDE DEF now
<1>5. PICK t : t = disk'
    OBVIOUS
<1>6. /\ t \in [Entities -> EntityType]
      /\ \A d \in Entities : /\ t[d].pos = disk[d].pos /\ t[d].region = disk[d].region
                             /\ t[d].tx = disk[d].tx
      /\ t[e].auth[c] = now
      /\ \A d \in Entities, b \in Comps : (d # e \/ b # c) => t[d].auth[b] = disk[d].auth[b]
    BY <1>2, <1>3, <1>4, <1>5, SetIs
<1> QED
    BY <1>2, <1>5, <1>6

LEMMA SetType ==
    ASSUME TypeOK, NEW e \in Entities, NEW c \in Comps, NEW owner \in Workers \cup {None},
           NEW mode \in Modes, NEW expected, SetComponentAuthority(e, c, owner, mode, expected)
    PROVE  TypeOK'
<1>1. ent' \in [Entities -> EntityType] /\ workers' \in [Workers -> HandleType]
    BY SetEffect, WorldTypedNext
<1>2. disk' \in [Entities -> EntityType]
    BY SetDisk
<1>3. untold' \subseteq Workers \X Keys
    BY NothingUntold, UntoldTyped DEF SetComponentAuthority
<1>4. overtaken' \subseteq Entities
    BY OvertakenTyped DEF SetComponentAuthority
<1>5. UNCHANGED <<conf, staged, commands, degraded, starts, blind, unlogged>>
    BY DEF SetComponentAuthority
<1> QED
    BY <1>1, <1>2, <1>3, <1>4, <1>5 DEF TypeOK, staged, commands

\* The record of a hand-off.
HandoffRow(st, to, auth, pos) == [st EXCEPT !.region = to, !.auth = auth, !.pos = pos]

LEMMA HandoffRowIs ==
    ASSUME NEW st \in EntityType, NEW to \in Regions, NEW auth \in AuthorityType, NEW pos \in Spots
    PROVE  /\ HandoffRow(st, to, auth, pos) \in EntityType
           /\ HandoffRow(st, to, auth, pos).auth = auth /\ HandoffRow(st, to, auth, pos).pos = pos
BY DEF EntityType, HandoffRow

\* What is staged for an entity is what it would be now, and is in the log.
LEMMA QueueEffect ==
    ASSUME TypeOK, NEW e \in Entities, NEW to \in Regions, QueueHandoff(e, to)
    PROVE  \E h \in HandoffType :
           /\ handoffs' = Append(handoffs, h) /\ h.eid = e /\ h.pos = ent[e].pos
           /\ h.auth = Advance(ent[e].auth, h.old, h.new) /\ h.moved = Moved(ent[e].auth, h.old)
           /\ h.old = Serves[ent[e].region] /\ ~Staged(e)
           /\ disk' \in [Entities -> EntityType]
           /\ disk'[e].auth = h.auth /\ disk'[e].pos = ent[e].pos
           /\ \A d \in Entities \ {e} : disk'[d] = disk[d]
<1> DEFINE old == Serves[ent[e].region]
           new == Serves[to]
           auth == Advance(ent[e].auth, old, new)
           moved == Moved(ent[e].auth, old)
           h == [eid |-> e, to |-> to, pos |-> ent[e].pos, auth |-> auth, moved |-> moved,
                 old |-> old, new |-> new]
           row == HandoffRow(disk[e], to, auth, ent[e].pos)
<1>1. /\ ent[e] \in EntityType /\ ent[e].region \in Regions /\ ent[e].pos \in Spots
      /\ ent[e].auth \in AuthorityType
    BY DEF TypeOK, EntityType
<1>2. old \in Workers /\ new \in Workers
    BY <1>1, AuthorityConstants
<1>3. handoffs' = Append(handoffs, h) /\ ~Staged(e)
    BY DEF QueueHandoff
<1>4. disk' = [disk EXCEPT ![e] = row]
    BY DEF QueueHandoff, HandoffRow
<1>5. moved \subseteq Comps
    BY DEF Moved, Island
<1> HIDE DEF auth, old, new, moved
<1>6. auth \in AuthorityType
    BY <1>1, <1>2, AdvanceKeeps DEF auth
<1>7. /\ h \in HandoffType /\ h.eid = e /\ h.pos = ent[e].pos /\ h.auth = auth /\ h.moved = moved
      /\ h.old = old /\ h.new = new
    BY <1>1, <1>2, <1>5, <1>6 DEF HandoffType
<1> HIDE DEF h
<1>8. row \in EntityType /\ row.auth = auth /\ row.pos = ent[e].pos
    <2>1. disk[e] \in EntityType
        BY DEF TypeOK
    <2> QED
        BY <1>1, <1>6, <2>1, HandoffRowIs
<1> HIDE DEF row
<1>9. /\ disk' \in [Entities -> EntityType] /\ disk'[e] = row
      /\ \A d \in Entities \ {e} : disk'[d] = disk[d]
    BY <1>4, <1>8 DEF TypeOK
<1> QED
    BY <1>3, <1>7, <1>8, <1>9 DEF auth, moved, old

LEMMA QueueType ==
    ASSUME TypeOK, NEW e \in Entities, NEW to \in Regions, QueueHandoff(e, to)
    PROVE  TypeOK'
<1>1. handoffs' \in Seq(HandoffType) /\ disk' \in [Entities -> EntityType]
    <2>1. PICK h \in HandoffType : /\ handoffs' = Append(handoffs, h)
                                  /\ disk' \in [Entities -> EntityType]
        BY QueueEffect
    <2>2. handoffs \in Seq(HandoffType)
        BY DEF TypeOK
    <2>3. Append(handoffs, h) \in Seq(HandoffType)
        BY <2>2, AppendInSeq
    <2> QED
        BY <2>1, <2>3
<1>2. overtaken' \subseteq Entities
    BY DEF QueueHandoff, TypeOK
<1>3. UNCHANGED <<conf, ent, workers, updates, commands, degraded, starts, untold, blind, unlogged>>
    BY DEF QueueHandoff
<1> QED
    BY <1>1, <1>2, <1>3 DEF TypeOK, commands

LEMMA FlushType ==
    ASSUME TypeOK, OneHandoff, StagedAgrees, Flush
    PROVE  TypeOK'
<1>1. ent' \in [Entities -> EntityType] /\ workers' \in [Workers -> HandleType]
    BY FlushEffect, WorldTypedNext
<1>2. updates' = <<>> /\ handoffs' = <<>>
    BY DEF Flush
<1>3. pending' \in [Requests -> PendingType]
    BY DEF Flush, RejectStale, TypeOK, PendingType
<1>4. untold' \subseteq Workers \X Keys
    <2> DEFINE K == UNION {AclGrants(h.new, h.eid) : h \in ToSet(handoffs)}
    <2>1. NoteUntold(K)
        BY DEF Flush
    <2>2. \A h \in ToSet(handoffs) : AclGrants(h.new, h.eid) \subseteq Keys
        <3>1. \A h \in ToSet(handoffs) : h \in HandoffType
            BY StagedIs DEF ToSet
        <3> QED
            BY <3>1, AclOf DEF HandoffType
    <2>3. K \subseteq Keys
        BY <2>2
    <2> QED
        BY <2>1, <2>3, UntoldTyped
<1>5. UNCHANGED <<conf, disk, inbox, sent, answer, degraded, starts, overtaken, blind, unlogged>>
    BY DEF Flush
<1> QED
    BY <1>1, <1>2, <1>3, <1>4, <1>5 DEF TypeOK

LEMMA RequestType ==
    ASSUME TypeOK, NEW w \in Workers, NEW e \in Entities, NEW r \in Requests, CommandRequest(w, e, r)
    PROVE  TypeOK'
<1> DEFINE route == Route(e)
           m == [req |-> r, serial |-> sent + 1, eid |-> e, owner |-> route.owner]
           p == [caller |-> w, serial |-> m.serial, eid |-> e, owner |-> m.owner, epoch |-> route.epoch,
                 again |-> \E o \in inbox : o.req = r /\ o.owner = m.owner /\ o.eid = e]
<1>1. route.owner \in Workers /\ route.epoch \in Nat
    <2>1. /\ ent[e].auth["pos"].owner \in Workers \cup {None}
          /\ ent[e].auth["pos"].epoch \in Nat
        BY PosOf DEF TypeOK
    <2>2. Serves[ent[e].region] \in Workers
        BY AuthorityConstants DEF TypeOK, EntityType
    <2>3. CASE ent[e].auth["pos"].owner # None
        BY <2>1, <2>3 DEF Route
    <2>4. CASE ent[e].auth["pos"].owner = None
        BY <2>2, <2>4 DEF Route
    <2> QED
        BY <2>3, <2>4
<1>2. pending' = [pending EXCEPT ![r] = p] /\ inbox' = inbox \cup {m} /\ sent' = sent + 1
    BY DEF CommandRequest
<1> HIDE DEF route
<1>3. sent + 1 \in Nat
    BY DEF TypeOK
<1>4. m \in [req : Requests, serial : Nat, eid : Entities, owner : Workers]
    BY <1>1, <1>3
<1>5. p \in PendingType
    BY <1>1, <1>3 DEF PendingType
<1> HIDE DEF m, p
<1>6. /\ pending' \in [Requests -> PendingType] /\ sent' \in Nat
      /\ inbox' \subseteq [req : Requests, serial : Nat, eid : Entities, owner : Workers]
    BY <1>2, <1>3, <1>4, <1>5 DEF TypeOK
<1>7. UNCHANGED <<conf, world, staged, degraded, starts, histories>>
    BY DEF CommandRequest
<1> QED
    BY <1>6, <1>7 DEF TypeOK, world, staged, histories

LEMMA ResponseType ==
    ASSUME TypeOK, NEW m, CommandResponse(m)
    PROVE  TypeOK'
<1>1. pending' \in [Requests -> PendingType] /\ inbox' \subseteq inbox
    <2>1. pending \in [Requests -> PendingType] /\ None \in PendingType
        BY DEF TypeOK, PendingType
    <2>2. inbox' \subseteq inbox /\ (pending' = pending \/ pending' = [pending EXCEPT ![m.req] = None])
        BY DEF CommandResponse
    <2> QED
        BY <2>1, <2>2
<1>2. UNCHANGED <<conf, world, staged, sent, degraded, starts, histories>>
    BY DEF CommandResponse
<1> QED
    BY <1>1, <1>2 DEF TypeOK, world, staged, histories

LEMMA TxType ==
    ASSUME TypeOK, NEW e \in Entities, NEW tx \in {None, "prepare", "preload_ready", "commit"},
           SetTx(e, tx)
    PROVE  /\ ent' \in [Entities -> EntityType] /\ disk' \in [Entities -> EntityType]
           /\ \A d \in Entities :
                 /\ ent'[d].auth = ent[d].auth /\ disk'[d].auth = disk[d].auth
                 /\ ent'[d].pos = ent[d].pos /\ disk'[d].pos = disk[d].pos
                 /\ ent'[d].region = ent[d].region
<1>1. ent \in [Entities -> EntityType] /\ disk \in [Entities -> EntityType]
    BY DEF TypeOK
<1>2. ent' = [ent EXCEPT ![e].tx = tx] /\ disk' = [disk EXCEPT ![e].tx = tx]
    BY DEF SetTx
<1>3. ent' \in [Entities -> EntityType] /\ disk' \in [Entities -> EntityType]
    BY <1>1, <1>2, RowTyped
<1>4. ent[e] \in EntityType /\ disk[e] \in EntityType
    BY <1>1
<1>5. \A d \in Entities :
         /\ ent'[d].auth = ent[d].auth /\ ent'[d].pos = ent[d].pos /\ ent'[d].region = ent[d].region
    BY <1>1, <1>2, <1>4 DEF EntityType
<1>6. \A d \in Entities : disk'[d].auth = disk[d].auth /\ disk'[d].pos = disk[d].pos
    BY <1>1, <1>2, <1>4 DEF EntityType
<1> QED
    BY <1>3, <1>5, <1>6

LEMMA CommitType ==
    ASSUME TypeOK, NEW w \in Workers, NEW e \in Entities, NEW to \in Regions \cup {None},
           NEW supplied, ThresholdCommit(w, e, to, supplied)
    PROVE  TypeOK'
<1>1. /\ ent' \in [Entities -> EntityType] /\ workers' \in [Workers -> HandleType]
      /\ disk' \in [Entities -> EntityType] /\ untold' \subseteq Workers \X Keys
    BY CommitEffect, WorldTypedNext, UntoldTyped
<1>2. overtaken' \subseteq Entities
    BY OvertakenTyped DEF ThresholdCommit
<1>3. UNCHANGED <<conf, staged, commands, degraded, starts, blind, unlogged>>
    BY DEF ThresholdCommit
<1> QED
    BY <1>1, <1>2, <1>3 DEF TypeOK, staged, commands

\* What a restart brings back.
LEMMA RecoveredIs ==
    ASSUME TypeOK, Restart
    PROVE  /\ ent' \in [Entities -> EntityType]
           /\ \A e \in Entities : /\ ent'[e].auth = disk[e].auth /\ ent'[e].pos = disk[e].pos
                                  /\ ent'[e].region = disk[e].region
<1> DEFINE row(e) == [disk[e] EXCEPT !.tx = IF @ = "commit" THEN @ ELSE None]
<1>1. ent' = [e \in Entities |-> row(e)]
    BY DEF Restart, Recovered
<1>2. ASSUME NEW e \in Entities
      PROVE  /\ row(e) \in EntityType /\ row(e).auth = disk[e].auth /\ row(e).pos = disk[e].pos
             /\ row(e).region = disk[e].region
    BY DEF TypeOK, EntityType
<1> HIDE DEF row
<1> QED
    BY <1>1, <1>2

LEMMA RestartType ==
    ASSUME TypeOK, Restart
    PROVE  TypeOK'
<1>1. ent' \in [Entities -> EntityType]
    BY RecoveredIs
<1>2. /\ disk' = disk /\ workers' = [w \in Workers |-> None] /\ updates' = <<>> /\ handoffs' = <<>>
      /\ pending' = [r \in Requests |-> None] /\ inbox' = {} /\ starts' = starts + 1
      /\ degraded' = FALSE /\ untold' = {} /\ unlogged' = {}
      /\ UNCHANGED <<conf, sent, overtaken, blind>>
    BY DEF Restart
<1>3. workers' \in [Workers -> HandleType] /\ pending' \in [Requests -> PendingType]
    BY <1>2 DEF HandleType, PendingType
<1>4. starts' \in Nat
    BY <1>2 DEF TypeOK
<1>5. conf' \in Deployments /\ disk' \in [Entities -> EntityType] /\ sent' \in Nat
    BY <1>2 DEF TypeOK
<1>6. /\ updates' \in Seq([eid : Entities, pos : Spots]) /\ handoffs' \in Seq(HandoffType)
      /\ inbox' \subseteq [req : Requests, serial : Nat, eid : Entities, owner : Workers]
    BY <1>2
<1>7. /\ degraded' \in BOOLEAN /\ blind' \in BOOLEAN /\ overtaken' \subseteq Entities
      /\ unlogged' \subseteq Entities /\ untold' \subseteq Workers \X Keys
    BY <1>2 DEF TypeOK
<1> QED
    BY <1>1, <1>3, <1>4, <1>5, <1>6, <1>7 DEF TypeOK


(***************************************************************************)
(* The invariant of grants, epochs and answers.                            *)
(***************************************************************************)
Inv ==
    /\ TypeOK
    /\ OneHandoff /\ StagedAgrees
    /\ HeldIsCurrent /\ DiskAhead
    /\ Matched /\ AnswerFromHolder

\* Nothing is staged or taken back, and no position moves.
LEMMA StagedKept ==
    ASSUME TypeOK, OneHandoff, StagedAgrees, handoffs' = handoffs,
           \A e \in Entities : ent'[e].pos = ent[e].pos,
           overtaken \subseteq overtaken',
           \A e \in Entities : Staged(e) => e \in overtaken' \/ ent'[e].auth = ent[e].auth,
           \A i \in DOMAIN handoffs : LET h == handoffs[i] IN
              h.eid \in overtaken' \/ h.moved = {} \/ ent'[h.eid].region = ent[h.eid].region
    PROVE  OneHandoff' /\ StagedAgrees'
<1>1. OneHandoff'
    BY DEF OneHandoff
<1>2. ASSUME NEW i \in DOMAIN handoffs
      PROVE  LET h == handoffs[i] IN
             /\ h.pos = ent'[h.eid].pos
             /\ h.eid \notin overtaken' =>
                   /\ h.auth = Advance(ent'[h.eid].auth, h.old, h.new)
                   /\ h.moved = Moved(ent'[h.eid].auth, h.old)
                   /\ h.moved = {} \/ h.old = Serves[ent'[h.eid].region]
    <2>1. handoffs[i].eid \in Entities
        BY StagedIs
    <2>2. Staged(handoffs[i].eid)
        BY DEF Staged
    <2> QED
        BY <2>1, <2>2 DEF StagedAgrees
<1> QED
    BY <1>1, <1>2 DEF StagedAgrees

LEMMA NothingStaged ==
    ASSUME handoffs' = <<>>
    PROVE  OneHandoff' /\ StagedAgrees'
BY DEF OneHandoff, StagedAgrees

\* The step tells the truth to whoever was told it, but for the keys K.
LEMMA HeldStep ==
    ASSUME TypeOK, HeldIsCurrent, NEW K, KeepsTold(World, NextWorld, K \cup (overtaken \X Comps)),
           NoteUntold(K), overtaken \subseteq overtaken'
    PROVE  HeldIsCurrent'
<1> SUFFICES ASSUME NEW w \in Workers, NEW e \in Entities, e \notin overtaken', NEW c \in Comps,
                    ~Told(w, <<e, c>>)'
             PROVE  <<w, <<e, c>>>> \in untold'
    BY DEF HeldIsCurrent
<1> DEFINE k == <<e, c>>
<1>1. k \in Keys /\ k[1] = e /\ k[2] = c /\ k \notin overtaken \X Comps
    BY DEF Keys
<1>2. untold' = {t \in untold \cup (Workers \X K) : ~Told(t[1], t[2])'}
    BY DEF NoteUntold
<1>3. Told(w, k) => ToldIn(World, w, k)
    BY DEF Told, ToldIn, World, Connected, Auth
<1>4. ToldIn(NextWorld, w, k) => Told(w, k)'
    BY DEF Told, ToldIn, NextWorld, Connected, Auth
<1>5. <<w, k>> \in untold \/ Told(w, k)
    BY DEF HeldIsCurrent
<1>6. ~Told(w, k)'
    OBVIOUS
<1> HIDE DEF k
<1>7. <<w, k>> \in untold \/ k \in K
    <2> SUFFICES ASSUME k \notin K, Told(w, k) PROVE FALSE
        BY <1>5
    <2>1. k \in Keys \ (K \cup (overtaken \X Comps))
        BY <1>1
    <2>2. ToldIn(World, w, k)
        BY <1>3
    <2>3. ToldIn(NextWorld, w, k)
        BY <2>1, <2>2 DEF KeepsTold
    <2> QED
        BY <1>4, <1>6, <2>3
<1>8. <<w, k>> \in untold \cup (Workers \X K) /\ <<w, k>>[1] = w /\ <<w, k>>[2] = k
    BY <1>7
<1>9. <<w, k>> \in untold'
    <2> PICK t : t = <<w, k>>
        OBVIOUS
    <2>1. t \in untold \cup (Workers \X K) /\ t[1] = w /\ t[2] = k
        BY <1>8
    <2> QED
        BY <1>2, <1>6, <1>8
<1> QED
    BY <1>9 DEF k

LEMMA HeldKept ==
    ASSUME TypeOK, HeldIsCurrent, UNCHANGED <<ent, workers, untold>>, overtaken \subseteq overtaken'
    PROVE  HeldIsCurrent'
<1>1. ASSUME NEW w \in Workers, NEW k
      PROVE  Told(w, k) => Told(w, k)'
    BY DEF Told, Connected
<1>2. ASSUME NEW w \in Workers, NEW e \in Entities \ overtaken', NEW c \in Comps
      PROVE  <<w, <<e, c>>>> \in untold' \/ Told(w, <<e, c>>)'
    <2>1. <<w, <<e, c>>>> \in untold \/ Told(w, <<e, c>>)
        BY DEF HeldIsCurrent
    <2> QED
        BY <1>1, <2>1
<1> QED
    BY <1>2 DEF HeldIsCurrent

LEMMA AheadKept ==
    ASSUME TypeOK, DiskAhead, handoffs' = handoffs,
           overtaken \subseteq overtaken', unlogged \subseteq unlogged',
           \A e \in Entities, c \in Comps : ent'[e].auth[c].epoch = ent[e].auth[c].epoch,
           \A e \in Entities : disk'[e].auth = disk[e].auth
    PROVE  DiskAhead'
<1> SUFFICES ASSUME NEW e \in Entities, e \notin overtaken', e \notin unlogged', NEW c \in Comps
             PROVE  /\ disk'[e].auth[c].epoch >= ent'[e].auth[c].epoch
                    /\ \A i \in DOMAIN handoffs :
                          handoffs[i].eid = e => disk'[e].auth[c].epoch >= handoffs[i].auth[c].epoch
    BY DEF DiskAhead
<1>1. e \in Entities \ (overtaken \cup unlogged)
    OBVIOUS
<1> QED
    BY <1>1 DEF DiskAhead

LEMMA MatchedKept ==
    ASSUME Matched, inbox' \subseteq inbox, TypeOK,
           \A r \in Requests : pending'[r] \in {None, pending[r]}
    PROVE  Matched'
<1>1. \A m \in inbox : m.req \in Requests
    BY DEF TypeOK
<1> QED
    BY <1>1 DEF Matched

LEMMA AnswerKept ==
    ASSUME AnswerFromHolder, answer' = answer
    PROVE  AnswerFromHolder'
BY DEF AnswerFromHolder

LEMMA CommandsKept ==
    ASSUME Inv, UNCHANGED commands
    PROVE  Matched' /\ AnswerFromHolder'
<1>1. inbox' \subseteq inbox /\ answer' = answer /\ pending' = pending
    BY DEF commands
<1> QED
    BY <1>1, MatchedKept, AnswerKept DEF Inv


\* What is common to the steps that change grants only.
LEMMA GrantsStep ==
    ASSUME Inv, TypeOK', OnlyOwners(World, NextWorld), NoteOvertaken,
           NEW K, KeepsTold(World, NextWorld, K), NoteUntold(K),
           UNCHANGED <<disk, staged, commands, unlogged>>
    PROVE  Inv'
<1>1. overtaken \subseteq overtaken' /\ handoffs' = handoffs
    BY OvertakenTyped DEF Inv, staged
<1>2. /\ \A e \in Entities : ent'[e].pos = ent[e].pos /\ ent'[e].region = ent[e].region
      /\ \A e \in Entities, c \in Comps : ent'[e].auth[c].epoch = ent[e].auth[c].epoch
    BY DEF OnlyOwners, World, NextWorld
<1>3. \A e \in Entities : Staged(e) => e \in overtaken' \/ ent'[e].auth = ent[e].auth
    BY DEF NoteOvertaken
<1>4. OneHandoff' /\ StagedAgrees'
    BY <1>1, <1>2, <1>3, StagedIs, StagedKept DEF Inv
<1>5. HeldIsCurrent'
    <2>1. KeepsTold(World, NextWorld, K \cup (overtaken \X Comps))
        BY DEF KeepsTold
    <2> QED
        BY <1>1, <2>1, HeldStep DEF Inv
<1>6. DiskAhead'
    BY <1>1, <1>2, AheadKept DEF Inv
<1>7. Matched' /\ AnswerFromHolder'
    BY CommandsKept
<1> QED
    BY <1>4, <1>5, <1>6, <1>7 DEF Inv

LEMMA ConnectStep ==
    ASSUME Inv, NEW w \in Workers, Connect(w)
    PROVE  Inv'
<1> DEFINE K == UNION {AclGrants(w, e) : e \in conf.ids}
<1>1. OnlyOwners(World, NextWorld) /\ KeepsTold(World, NextWorld, K) /\ TypeOK'
    BY ConnectEffect, ConnectType DEF Inv
<1>2. NoteOvertaken /\ NoteUntold(K) /\ UNCHANGED <<disk, staged, commands, unlogged>>
    BY DEF Connect
<1> HIDE DEF K
<1> QED
    BY <1>1, <1>2, GrantsStep

LEMMA InterestStep ==
    ASSUME Inv, NEW w \in Workers, NEW e \in Entities, Interest(w, e)
    PROVE  Inv'
<1>1. OnlyOwners(World, NextWorld) /\ KeepsTold(World, NextWorld, AclGrants(w, e)) /\ TypeOK'
    BY InterestEffect, InterestType DEF Inv
<1>2. NoteOvertaken /\ NoteUntold(AclGrants(w, e)) /\ UNCHANGED <<disk, staged, commands, unlogged>>
    BY DEF Interest
<1> QED
    BY <1>1, <1>2, GrantsStep

LEMMA DisconnectStep ==
    ASSUME Inv, NEW w \in Workers, Disconnect(w)
    PROVE  Inv'
<1>1. TypeOK'
    BY DisconnectType DEF Inv
<1>2. /\ workers' = [workers EXCEPT ![w] = None] /\ inbox' \subseteq inbox /\ NoteUntold({})
      /\ UNCHANGED <<conf, ent, disk, staged, pending, sent, answer, degraded, starts, overtaken,
                     blind, unlogged>>
    BY DEF Disconnect
<1>3. OneHandoff' /\ StagedAgrees'
    BY <1>2, StagedKept DEF Inv, staged
<1>4. HeldIsCurrent'
    <2>1. ASSUME NEW x \in Workers, NEW k \in Keys, ToldIn(World, x, k)
          PROVE  ToldIn(NextWorld, x, k)
        <3>1. x = w => workers'[x] = None
            BY <1>2 DEF Inv, TypeOK
        <3>2. x # w => workers'[x] = workers[x]
            BY <1>2 DEF Inv, TypeOK
        <3>3. ent' = ent
            BY <1>2
        <3> QED
            BY <2>1, <3>1, <3>2, <3>3 DEF ToldIn, World, NextWorld, Auth
    <2>2. KeepsTold(World, NextWorld, {} \cup (overtaken \X Comps))
        BY <2>1 DEF KeepsTold
    <2> QED
        BY <1>2, <2>2, HeldStep DEF Inv
<1>5. DiskAhead'
    BY <1>2, AheadKept DEF Inv, staged
<1>6. Matched' /\ AnswerFromHolder'
    BY <1>2, MatchedKept, AnswerKept DEF Inv
<1> QED
    BY <1>1, <1>3, <1>4, <1>5, <1>6 DEF Inv

LEMMA UpdateStep ==
    ASSUME Inv, NEW w \in Workers, NEW e \in Entities, NEW x \in Spots, UpdateComponent(w, e, x)
    PROVE  Inv'
<1>1. TypeOK'
    BY UpdateType DEF Inv
<1>2. /\ disk' = [disk EXCEPT ![e].pos = x] /\ overtaken \subseteq overtaken'
      /\ UNCHANGED <<conf, ent, workers, handoffs, commands, degraded, starts, untold, unlogged>>
    BY DEF UpdateComponent
<1>3. OneHandoff' /\ StagedAgrees'
    BY <1>2, StagedKept DEF Inv
<1>4. HeldIsCurrent'
    BY <1>2, HeldKept DEF Inv
<1>5. \A d \in Entities : disk'[d].auth = disk[d].auth
    BY <1>2 DEF Inv, TypeOK, EntityType
<1>6. DiskAhead'
    BY <1>2, <1>5, AheadKept DEF Inv
<1>7. Matched' /\ AnswerFromHolder'
    BY <1>2, CommandsKept
<1> QED
    BY <1>1, <1>3, <1>4, <1>6, <1>7 DEF Inv

LEMMA ContactStep ==
    ASSUME Inv, NEW w \in Workers, NEW e \in Entities, NEW x \in Spots, NEW other \in Entities,
           NEW written \in 0 .. 2, ContactRisk(w, e, x, other, written)
    PROVE  Inv'
<1>0. TypeOK
    BY DEF Inv
<1>1. TypeOK'
    BY <1>0, ContactType
<1>2. /\ NoteOvertaken /\ NoteUntold({}) /\ unlogged \subseteq unlogged'
      /\ UNCHANGED <<conf, staged, commands, starts, blind>>
    BY DEF ContactRisk
<1>3. /\ KeepsTold(World, NextWorld, {})
      /\ \A d \in Entities : ent'[d].pos = ent[d].pos /\ ent'[d].region = ent[d].region
      /\ \A d \in Entities, c \in Comps :
            IF d \in {e, other} /\ c = "pos"
            THEN ent'[d].auth[c].epoch = ent[d].auth[c].epoch + 1
            ELSE ent'[d].auth[c].epoch = ent[d].auth[c].epoch
    BY <1>0, ContactEffect
<1>4. overtaken \subseteq overtaken' /\ handoffs' = handoffs
    BY <1>0, <1>2, OvertakenTyped DEF staged
<1>5. \A d \in Entities : Staged(d) => d \in overtaken' \/ ent'[d].auth = ent[d].auth
    BY <1>2 DEF NoteOvertaken
<1>6. OneHandoff' /\ StagedAgrees'
    BY <1>0, <1>3, <1>4, <1>5, StagedIs, StagedKept DEF Inv
<1>7. HeldIsCurrent'
    <2>1. KeepsTold(World, NextWorld, {} \cup (overtaken \X Comps))
        BY <1>3 DEF KeepsTold
    <2> QED
        BY <1>2, <1>4, <2>1, HeldStep DEF Inv
<1>8. DiskAhead'
    <2> SUFFICES ASSUME NEW d \in Entities, d \notin overtaken', d \notin unlogged', NEW c \in Comps
                 PROVE  /\ disk'[d].auth[c].epoch >= ent'[d].auth[c].epoch
                        /\ \A i \in DOMAIN handoffs' :
                              handoffs'[i].eid = d => disk'[d].auth[c].epoch >= handoffs'[i].auth[c].epoch
        BY DEF DiskAhead
    <2>1. d \in Entities \ (overtaken \cup unlogged)
        BY <1>2, <1>4
    <2>2. /\ disk[d].auth[c].epoch >= ent[d].auth[c].epoch
          /\ \A i \in DOMAIN handoffs :
                handoffs[i].eid = d => disk[d].auth[c].epoch >= handoffs[i].auth[c].epoch
        BY <2>1 DEF Inv, DiskAhead
    <2>3. /\ disk'[d] # disk[d] =>
                /\ disk'[d].auth["pos"].epoch = ent[d].auth["pos"].epoch + 1
                /\ d \in {e, other}
                /\ \A b \in Comps \ {"pos"} : disk'[d].auth[b] = disk[d].auth[b]
          /\ d \in {e, other} => disk'[d].auth["pos"].epoch = ent[d].auth["pos"].epoch + 1
        BY <1>0, ContactDisk
    <2>4. ent[d].auth[c].epoch \in Nat
        BY <1>0 DEF TypeOK, EntityType, AuthorityType
    <2>5. CASE d \in {e, other} /\ c = "pos"
        <3>1. disk'[d].auth[c].epoch = ent[d].auth[c].epoch + 1 /\ ent'[d].auth[c].epoch = ent[d].auth[c].epoch + 1
            BY <1>3, <2>3, <2>5
        <3>2. disk'[d].auth[c].epoch >= ent'[d].auth[c].epoch
            BY <2>4, <3>1
        <3>3. ~Staged(d)
            <4> SUFFICES ASSUME Staged(d) PROVE FALSE
                OBVIOUS
            <4>1. ent'[d].auth = ent[d].auth
                BY <1>5
            <4> QED
                BY <2>4, <3>1, <4>1
        <3> QED
            BY <1>4, <3>2, <3>3 DEF Staged
    <2>6. CASE ~(d \in {e, other} /\ c = "pos")
        <3>1. disk'[d].auth[c] = disk[d].auth[c] /\ ent'[d].auth[c].epoch = ent[d].auth[c].epoch
            BY <1>3, <2>3, <2>6
        <3> QED
            BY <1>4, <2>2, <3>1
    <2> QED
        BY <2>5, <2>6
<1>9. Matched' /\ AnswerFromHolder'
    BY <1>2, CommandsKept
<1> QED
    BY <1>1, <1>6, <1>7, <1>8, <1>9 DEF Inv

LEMMA SetStep ==
    ASSUME Inv, NEW e \in Entities, NEW c \in Comps, NEW owner \in Workers \cup {None},
           NEW mode \in Modes, NEW expected, SetComponentAuthority(e, c, owner, mode, expected)
    PROVE  Inv'
<1>0. TypeOK
    BY DEF Inv
<1>1. TypeOK'
    BY <1>0, SetType
<1>2. /\ NoteOvertaken /\ NoteUntold({})
      /\ UNCHANGED <<conf, staged, commands, degraded, starts, blind, unlogged>>
    BY DEF SetComponentAuthority
<1>3. /\ KeepsTold(World, NextWorld, {})
      /\ \A d \in Entities : ent'[d].pos = ent[d].pos /\ ent'[d].region = ent[d].region
      /\ \A d \in Entities, b \in Comps :
            IF d = e /\ b = c
            THEN ent'[d].auth[b].epoch = ent[d].auth[b].epoch + 1
            ELSE ent'[d].auth[b].epoch = ent[d].auth[b].epoch
    BY <1>0, SetEffect
<1>4. overtaken \subseteq overtaken' /\ handoffs' = handoffs
    BY <1>0, <1>2, OvertakenTyped DEF staged
<1>5. \A d \in Entities : Staged(d) => d \in overtaken' \/ ent'[d].auth = ent[d].auth
    BY <1>2 DEF NoteOvertaken
<1>6. OneHandoff' /\ StagedAgrees'
    BY <1>0, <1>3, <1>4, <1>5, StagedIs, StagedKept DEF Inv
<1>7. HeldIsCurrent'
    <2>1. KeepsTold(World, NextWorld, {} \cup (overtaken \X Comps))
        BY <1>3 DEF KeepsTold
    <2> QED
        BY <1>2, <1>4, <2>1, HeldStep DEF Inv
<1>8. DiskAhead'
    <2> SUFFICES ASSUME NEW d \in Entities, d \notin overtaken', d \notin unlogged', NEW b \in Comps
                 PROVE  /\ disk'[d].auth[b].epoch >= ent'[d].auth[b].epoch
                        /\ \A i \in DOMAIN handoffs' :
                              handoffs'[i].eid = d => disk'[d].auth[b].epoch >= handoffs'[i].auth[b].epoch
        BY DEF DiskAhead
    <2>1. d \in Entities \ (overtaken \cup unlogged)
        BY <1>2, <1>4
    <2>2. /\ disk[d].auth[b].epoch >= ent[d].auth[b].epoch
          /\ \A i \in DOMAIN handoffs :
                handoffs[i].eid = d => disk[d].auth[b].epoch >= handoffs[i].auth[b].epoch
        BY <2>1 DEF Inv, DiskAhead
    <2>3. /\ disk'[e].auth[c].epoch = ent[e].auth[c].epoch + 1
          /\ (d # e \/ b # c) => disk'[d].auth[b] = disk[d].auth[b]
        BY <1>0, SetDisk
    <2>4. ent[d].auth[b].epoch \in Nat
        BY <1>0 DEF TypeOK, EntityType, AuthorityType
    <2>5. CASE d = e /\ b = c
        <3>1. disk'[d].auth[b].epoch = ent[d].auth[b].epoch + 1 /\ ent'[d].auth[b].epoch = ent[d].auth[b].epoch + 1
            BY <1>3, <2>3, <2>5
        <3>2. disk'[d].auth[b].epoch >= ent'[d].auth[b].epoch
            BY <2>4, <3>1
        <3>3. ~Staged(d)
            <4> SUFFICES ASSUME Staged(d) PROVE FALSE
                OBVIOUS
            <4>1. ent'[d].auth = ent[d].auth
                BY <1>5
            <4> QED
                BY <2>4, <3>1, <4>1
        <3> QED
            BY <1>4, <3>2, <3>3 DEF Staged
    <2>6. CASE ~(d = e /\ b = c)
        <3>1. disk'[d].auth[b] = disk[d].auth[b] /\ ent'[d].auth[b].epoch = ent[d].auth[b].epoch
            BY <1>3, <2>3, <2>6
        <3> QED
            BY <1>4, <2>2, <3>1
    <2> QED
        BY <2>5, <2>6
<1>9. Matched' /\ AnswerFromHolder'
    BY <1>2, CommandsKept
<1> QED
    BY <1>1, <1>6, <1>7, <1>8, <1>9 DEF Inv


LEMMA QueueStep ==
    ASSUME Inv, NEW e \in Entities, NEW to \in Regions, QueueHandoff(e, to)
    PROVE  Inv'
<1>0. TypeOK
    BY DEF Inv
<1>1. TypeOK'
    BY <1>0, QueueType
<1>2. /\ overtaken \subseteq overtaken'
      /\ UNCHANGED <<conf, ent, workers, updates, commands, degraded, starts, untold, blind, unlogged>>
    BY DEF QueueHandoff
<1>3. PICK h \in HandoffType :
         /\ handoffs' = Append(handoffs, h) /\ h.eid = e /\ h.pos = ent[e].pos
         /\ h.auth = Advance(ent[e].auth, h.old, h.new) /\ h.moved = Moved(ent[e].auth, h.old)
         /\ h.old = Serves[ent[e].region] /\ ~Staged(e)
         /\ disk'[e].auth = h.auth
         /\ \A d \in Entities \ {e} : disk'[d] = disk[d]
    BY <1>0, QueueEffect
<1> DEFINE n == Len(handoffs) + 1
<1>4. /\ DOMAIN handoffs' = 1 .. n /\ handoffs'[n] = h
      /\ DOMAIN handoffs = 1 .. Len(handoffs) /\ Len(handoffs) \in Nat
      /\ \A i \in DOMAIN handoffs : handoffs'[i] = handoffs[i]
    <2>1. handoffs \in Seq(HandoffType)
        BY <1>0 DEF TypeOK
    <2> QED
        BY <1>3, <2>1, AppendInSeq
<1>5. \A i \in DOMAIN handoffs' : i = n \/ i \in DOMAIN handoffs
    BY <1>4
<1> HIDE DEF n
<1>6. \A i \in DOMAIN handoffs : handoffs[i].eid # e
    BY <1>3 DEF Staged
<1>7. OneHandoff'
    BY <1>3, <1>4, <1>5, <1>6 DEF Inv, OneHandoff
<1>8. StagedAgrees'
    <2> SUFFICES ASSUME NEW i \in DOMAIN handoffs'
                 PROVE  LET g == handoffs'[i] IN
                        /\ g.pos = ent[g.eid].pos
                        /\ g.eid \notin overtaken' =>
                              /\ g.auth = Advance(ent[g.eid].auth, g.old, g.new)
                              /\ g.moved = Moved(ent[g.eid].auth, g.old)
                              /\ g.moved = {} \/ g.old = Serves[ent[g.eid].region]
        BY <1>2 DEF StagedAgrees
    <2>1. CASE i = n
        BY <1>3, <1>4, <2>1
    <2>2. CASE i \in DOMAIN handoffs
        BY <1>2, <1>4, <2>2 DEF Inv, StagedAgrees
    <2> QED
        BY <1>5, <2>1, <2>2
<1>9. HeldIsCurrent'
    BY <1>0, <1>2, HeldKept DEF Inv
<1>10. DiskAhead'
    <2> SUFFICES ASSUME NEW d \in Entities, d \notin overtaken', d \notin unlogged', NEW c \in Comps
                 PROVE  /\ disk'[d].auth[c].epoch >= ent'[d].auth[c].epoch
                        /\ \A i \in DOMAIN handoffs' :
                              handoffs'[i].eid = d => disk'[d].auth[c].epoch >= handoffs'[i].auth[c].epoch
        BY DEF DiskAhead
    <2>1. d \in Entities \ (overtaken \cup unlogged)
        BY <1>2
    <2>2. CASE d = e
        <3>1. /\ ent[e].auth \in AuthorityType /\ h.new \in Workers \cup {None}
              /\ h.auth \in AuthorityType
            BY <1>0 DEF TypeOK, EntityType, HandoffType
        <3>2. h.auth[c].epoch >= ent[e].auth[c].epoch
            BY <1>3, <3>1, AdvanceKeeps
        <3>3. h.auth[c].epoch \in Nat /\ h.auth[c].epoch >= h.auth[c].epoch
            BY <3>1 DEF AuthorityType
        <3>4. \A i \in DOMAIN handoffs' : handoffs'[i].eid = e => handoffs'[i] = h
            BY <1>4, <1>5, <1>6
        <3> QED
            BY <1>2, <1>3, <2>2, <3>2, <3>3, <3>4
    <2>3. CASE d # e
        <3>1. \A i \in DOMAIN handoffs' : handoffs'[i].eid = d =>
                 i \in DOMAIN handoffs /\ handoffs'[i] = handoffs[i]
            BY <1>3, <1>4, <1>5, <2>3
        <3>2. disk'[d] = disk[d]
            BY <1>3, <2>3
        <3> QED
            BY <1>2, <2>1, <3>1, <3>2 DEF Inv, DiskAhead
    <2> QED
        BY <2>2, <2>3
<1>11. Matched' /\ AnswerFromHolder'
    BY <1>2, CommandsKept
<1> QED
    BY <1>1, <1>7, <1>8, <1>9, <1>10, <1>11 DEF Inv

\* A flush takes the epochs of what was staged, which the log has.
LEMMA FlushEpochs ==
    ASSUME Inv, Flush, NEW e \in Entities, NEW c \in Comps
    PROVE  /\ e \notin overtaken => ent'[e].auth[c].epoch >= ent[e].auth[c].epoch
           /\ e \notin overtaken \cup unlogged => disk[e].auth[c].epoch >= ent'[e].auth[c].epoch
<1>0. TypeOK
    BY DEF Inv
<1>1. /\ ent[e].auth \in AuthorityType
      /\ ent[e].auth[c].epoch \in Nat /\ ent[e].auth[c].epoch >= ent[e].auth[c].epoch
    BY <1>0 DEF TypeOK, EntityType, AuthorityType
<1>2. CASE ~Staged(e)
    <2>1. ent'[e].auth[c].epoch = ent[e].auth[c].epoch
        BY <1>0, <1>2, FlushEffect DEF Inv
    <2> QED
        BY <1>1, <2>1 DEF Inv, DiskAhead
<1>3. CASE Staged(e)
    <2>1. PICK i \in DOMAIN handoffs : handoffs[i].eid = e
        BY <1>3 DEF Staged
    <2> DEFINE h == handoffs[i]
    <2>2. ent'[e].auth[c].epoch = h.auth[c].epoch
        BY <1>0, <2>1, FlushEffect DEF Inv
    <2>3. ASSUME e \notin overtaken
          PROVE  h.auth[c].epoch >= ent[e].auth[c].epoch
        <3>1. h.auth = Advance(ent[e].auth, h.old, h.new)
            BY <2>1, <2>3 DEF Inv, StagedAgrees
        <3>2. h.new \in Workers \cup {None}
            BY <1>0, StagedIs DEF HandoffType
        <3> HIDE DEF h
        <3> QED
            BY <1>1, <3>1, <3>2, AdvanceKeeps
    <2>4. e \notin overtaken \cup unlogged => disk[e].auth[c].epoch >= h.auth[c].epoch
        BY <2>1 DEF Inv, DiskAhead
    <2> HIDE DEF h
    <2> QED
        BY <2>2, <2>3, <2>4
<1> QED
    BY <1>2, <1>3

LEMMA FlushStep ==
    ASSUME Inv, Flush
    PROVE  Inv'
<1>0. TypeOK
    BY DEF Inv
<1>1. TypeOK'
    BY <1>0, FlushType DEF Inv
<1> DEFINE K == UNION {AclGrants(h.new, h.eid) : h \in ToSet(handoffs)}
<1>2. /\ handoffs' = <<>> /\ NoteUntold(K)
      /\ UNCHANGED <<conf, disk, inbox, sent, answer, degraded, starts, overtaken, blind, unlogged>>
    BY DEF Flush
<1>3. OneHandoff' /\ StagedAgrees'
    BY <1>2, NothingStaged
<1>4. KeepsTold(World, NextWorld, K \cup (overtaken \X Comps))
    BY <1>0, FlushEffect DEF Inv
<1> HIDE DEF K
<1>5. HeldIsCurrent'
    BY <1>0, <1>2, <1>4, HeldStep DEF Inv
<1>6. DiskAhead'
    <2> SUFFICES ASSUME NEW e \in Entities, e \notin overtaken', e \notin unlogged', NEW c \in Comps
                 PROVE  disk'[e].auth[c].epoch >= ent'[e].auth[c].epoch
        BY <1>2 DEF DiskAhead
    <2> QED
        BY <1>2, FlushEpochs
<1>7. \A r \in Requests : pending'[r] \in {None, pending[r]}
    BY DEF Flush, RejectStale
<1>8. Matched' /\ AnswerFromHolder'
    BY <1>0, <1>2, <1>7, MatchedKept, AnswerKept DEF Inv
<1> QED
    BY <1>1, <1>3, <1>5, <1>6, <1>8 DEF Inv

LEMMA FlushFailsStep ==
    ASSUME Inv, FlushFails
    PROVE  Inv'
<1>0. TypeOK
    BY DEF Inv
<1>1. /\ handoffs' = <<>> /\ updates' = <<>> /\ degraded' = TRUE
      /\ UNCHANGED <<conf, world, commands, starts, histories>>
    BY DEF FlushFails
<1>2. TypeOK'
    BY <1>0, <1>1 DEF TypeOK, world, commands, histories
<1>3. OneHandoff' /\ StagedAgrees'
    BY <1>1, NothingStaged
<1>4. HeldIsCurrent'
    BY <1>0, <1>1, HeldKept DEF Inv, world, histories
<1>5. DiskAhead'
    BY <1>1 DEF Inv, DiskAhead, world, histories
<1>6. Matched' /\ AnswerFromHolder'
    BY <1>1, CommandsKept
<1> QED
    BY <1>2, <1>3, <1>4, <1>5, <1>6 DEF Inv

LEMMA RequestStep ==
    ASSUME Inv, NEW w \in Workers, NEW e \in Entities, NEW r \in Requests, CommandRequest(w, e, r)
    PROVE  Inv'
<1>0. TypeOK
    BY DEF Inv
<1>1. TypeOK'
    BY <1>0, RequestType
<1>2. UNCHANGED <<conf, world, staged, answer, degraded, starts, histories>>
    BY DEF CommandRequest
<1>3. OneHandoff' /\ StagedAgrees'
    BY <1>0, <1>2, StagedKept DEF Inv, world, staged, histories
<1>4. HeldIsCurrent'
    BY <1>0, <1>2, HeldKept DEF Inv, world, histories
<1>5. DiskAhead'
    BY <1>2 DEF Inv, DiskAhead, world, histories, staged
<1>6. AnswerFromHolder'
    BY <1>2, AnswerKept DEF Inv
<1> DEFINE route == Route(e)
           m == [req |-> r, serial |-> sent + 1, eid |-> e, owner |-> route.owner]
           p == [caller |-> w, serial |-> m.serial, eid |-> e, owner |-> m.owner, epoch |-> route.epoch,
                 again |-> \E o \in inbox : o.req = r /\ o.owner = m.owner /\ o.eid = e]
<1>7. pending' = [pending EXCEPT ![r] = p] /\ inbox' = inbox \cup {m}
    BY DEF CommandRequest
<1> HIDE DEF route
<1>8. /\ p.serial = m.serial /\ m.req = r /\ p.owner = m.owner /\ p.eid = e
      /\ p.again = \E o \in inbox : o.req = r /\ o.owner = m.owner /\ o.eid = e
    OBVIOUS
<1> HIDE DEF m, p
<1>9. Matched'
    <2> SUFFICES ASSUME NEW o \in inbox', pending'[o.req] # None, pending'[o.req].owner = o.owner,
                        pending'[o.req].eid = o.eid
                 PROVE  pending'[o.req].serial = o.serial \/ pending'[o.req].again
        BY DEF Matched
    <2>1. pending'[r] = p /\ \A q \in Requests \ {r} : pending'[q] = pending[q]
        BY <1>0, <1>7 DEF TypeOK
    <2>2. CASE o = m
        BY <1>8, <2>1, <2>2
    <2>3. CASE o \in inbox /\ o.req = r
        <3>1. p.again = TRUE
            BY <1>8, <2>1, <2>3
        <3> QED
            BY <2>1, <2>3, <3>1
    <2>4. CASE o \in inbox /\ o.req # r
        <3>1. pending'[o.req] = pending[o.req]
            BY <1>0, <2>1, <2>4 DEF TypeOK
        <3> QED
            BY <2>4, <3>1 DEF Inv, Matched
    <2> QED
        BY <1>7, <2>2, <2>3, <2>4
<1> QED
    BY <1>1, <1>3, <1>4, <1>5, <1>6, <1>9 DEF Inv

LEMMA ResponseStep ==
    ASSUME Inv, NEW m \in inbox, CommandResponse(m)
    PROVE  Inv'
<1>0. TypeOK
    BY DEF Inv
<1>1. TypeOK'
    BY <1>0, ResponseType
<1>2. UNCHANGED <<conf, world, staged, sent, degraded, starts, histories>>
    BY DEF CommandResponse
<1>3. OneHandoff' /\ StagedAgrees'
    BY <1>0, <1>2, StagedKept DEF Inv, world, staged, histories
<1>4. HeldIsCurrent'
    BY <1>0, <1>2, HeldKept DEF Inv, world, histories
<1>5. DiskAhead'
    BY <1>2 DEF Inv, DiskAhead, world, histories, staged
<1>6. Matched'
    <2>1. inbox' \subseteq inbox
        BY DEF CommandResponse
    <2>2. \A r \in Requests : pending'[r] \in {None, pending[r]}
        BY <1>0 DEF CommandResponse, TypeOK
    <2> QED
        BY <1>0, <2>1, <2>2, MatchedKept DEF Inv
<1>7. AnswerFromHolder'
    <2> DEFINE p == pending[m.req]
               ca == ent[m.eid].auth["pos"]
               good == p # None /\ p.owner = m.owner /\ p.eid = m.eid /\ AuthorityCurrent(World, p)
               a == [again |-> p.again, same |-> m.serial = p.serial,
                     held |-> ca.owner = m.owner /\ p.epoch \in {0, ca.epoch},
                     unowned |-> p.epoch = 0]
    <2>1. answer' = None \/ (good /\ answer' = a)
        BY DEF CommandResponse
    <2>2. ASSUME good
          PROVE  (a.same \/ a.again) /\ (a.held \/ a.unowned)
        <3>1. p.serial = m.serial \/ p.again
            BY <2>2 DEF Inv, Matched
        <3>2. p.epoch = 0 \/ (ca.owner = m.owner /\ p.epoch \in {0, ca.epoch})
            BY <2>2 DEF AuthorityCurrent, World
        <3> HIDE DEF p, ca
        <3> QED
            BY <3>1, <3>2
    <2> HIDE DEF good, a
    <2> QED
        BY <2>1, <2>2 DEF AnswerFromHolder
<1> QED
    BY <1>1, <1>3, <1>4, <1>5, <1>6, <1>7 DEF Inv

\* A transaction's record alone.
LEMMA TxStep ==
    ASSUME Inv, NEW e \in Entities, NEW tx \in {None, "prepare", "preload_ready", "commit"},
           SetTx(e, tx), UNCHANGED <<conf, workers, staged, commands, degraded, starts, histories>>
    PROVE  Inv'
<1>0. TypeOK
    BY DEF Inv
<1>1. /\ ent' \in [Entities -> EntityType] /\ disk' \in [Entities -> EntityType]
      /\ \A d \in Entities : /\ ent'[d].auth = ent[d].auth /\ disk'[d].auth = disk[d].auth
                             /\ ent'[d].pos = ent[d].pos /\ ent'[d].region = ent[d].region
    BY <1>0, TxType
<1>2. TypeOK'
    BY <1>0, <1>1 DEF TypeOK, staged, commands, histories
<1>3. OneHandoff' /\ StagedAgrees'
    BY <1>0, <1>1, StagedIs, StagedKept DEF Inv, staged, histories
<1>4. HeldIsCurrent'
    <2>1. ASSUME NEW w \in Workers, NEW k \in Keys
          PROVE  ToldIn(World, w, k) => ToldIn(NextWorld, w, k)
        <3>1. k[1] \in Entities
            BY KeyParts
        <3>2. Auth(NextWorld, k) = Auth(World, k)
            BY <1>1, <3>1 DEF Auth, World, NextWorld
        <3> QED
            BY <3>2 DEF ToldIn, World, NextWorld
    <2>2. KeepsTold(World, NextWorld, Keys \cup (overtaken \X Comps))
        BY DEF KeepsTold
    <2> SUFFICES ASSUME NEW w \in Workers, NEW d \in Entities, d \notin overtaken, NEW c \in Comps,
                        <<w, <<d, c>>>> \notin untold
                 PROVE  Told(w, <<d, c>>)'
        BY DEF HeldIsCurrent, histories
    <2>3. <<d, c>> \in Keys
        BY DEF Keys
    <2>4. Told(w, <<d, c>>)
        BY DEF Inv, HeldIsCurrent
    <2>5. ToldIn(World, w, <<d, c>>)
        BY <2>4 DEF Told, ToldIn, World, Connected, Auth
    <2>6. ToldIn(NextWorld, w, <<d, c>>)
        BY <2>1, <2>3, <2>5
    <2> QED
        BY <2>6 DEF Told, ToldIn, NextWorld, Connected, Auth
<1>5. DiskAhead'
    BY <1>0, <1>1, AheadKept DEF Inv, staged, histories
<1>6. Matched' /\ AnswerFromHolder'
    BY CommandsKept
<1> QED
    BY <1>2, <1>3, <1>4, <1>5, <1>6 DEF Inv

LEMMA CommitStep ==
    ASSUME Inv, NEW w \in Workers, NEW e \in Entities, NEW to \in Regions \cup {None},
           NEW supplied, ThresholdCommit(w, e, to, supplied)
    PROVE  Inv'
<1>0. TypeOK
    BY DEF Inv
<1>1. TypeOK'
    BY <1>0, CommitType
<1>2. NoteOvertaken /\ UNCHANGED <<conf, staged, commands, degraded, starts, blind, unlogged>>
    BY DEF ThresholdCommit
<1>3. PICK auth \in AuthorityType, K \in SUBSET Keys :
         /\ KeepsTold(World, NextWorld, K) /\ NoteUntold(K)
         /\ \A d \in Entities : ent'[d].pos = ent[d].pos
         /\ \A d \in Entities \ {e} : ent'[d].region = ent[d].region
         /\ \A c \in Moved(ent[e].auth, Serves[ent[e].region]) : auth[c].epoch # ent[e].auth[c].epoch
         /\ \A d \in Entities \ {e}, c \in Comps : ent'[d].auth[c].epoch = ent[d].auth[c].epoch
         /\ \A c \in Comps : ent'[e].auth[c].epoch = auth[c].epoch
         /\ disk'[e].auth = auth
         /\ \A d \in Entities \ {e} : disk'[d] = disk[d]
         /\ \A c \in Comps : auth[c].epoch >= ent[e].auth[c].epoch
    BY <1>0, CommitEffect
<1>4. overtaken \subseteq overtaken' /\ handoffs' = handoffs
    BY <1>0, <1>2, OvertakenTyped DEF staged
<1>5. \A d \in Entities : Staged(d) => d \in overtaken' \/ ent'[d].auth = ent[d].auth
    BY <1>2 DEF NoteOvertaken
\* A hand-off that is staged and not overtaken is of the epochs there were, so that it
\* moves nothing.
<1>9. ASSUME NEW i \in DOMAIN handoffs, handoffs[i].eid = e, e \notin overtaken'
      PROVE  /\ handoffs[i].moved = {}
             /\ \A c \in Comps : /\ auth[c].epoch = ent[e].auth[c].epoch
                                 /\ handoffs[i].auth[c] = ent[e].auth[c]
    <2> DEFINE h == handoffs[i]
               old == Serves[ent[e].region]
    <2>1. ent'[e].auth = ent[e].auth
        BY <1>5, <1>9 DEF Staged
    <2>2. \A c \in Comps : auth[c].epoch = ent[e].auth[c].epoch
        BY <1>3, <2>1
    <2>3. Moved(ent[e].auth, old) = {}
        <3>1. Moved(ent[e].auth, old) \subseteq Comps
            BY DEF Moved, Island
        <3> QED
            BY <1>3, <2>2, <3>1
    <2>4. e \notin overtaken
        BY <1>4, <1>9
    <2>5. /\ h.auth = Advance(ent[e].auth, h.old, h.new) /\ h.moved = Moved(ent[e].auth, h.old)
          /\ h.moved = {} \/ h.old = old
        BY <1>9, <2>4 DEF Inv, StagedAgrees
    <2>6. h.new \in Workers \cup {None} /\ ent[e].auth \in AuthorityType
        BY <1>0, StagedIs DEF HandoffType, TypeOK, EntityType
    <2> HIDE DEF h, old
    <2>7. h.moved = {}
        BY <2>3, <2>5
    <2>8. \A c \in Comps : h.auth[c] = ent[e].auth[c]
        <3>1. PICK a \in AuthorityType : a = ent[e].auth
            BY <2>6
        <3>2. PICK new \in Workers \cup {None} : new = h.new
            BY <2>6
        <3>3. PICK from : from = h.old
            OBVIOUS
        <3>4. \A c \in Comps : c \notin Moved(a, from) => Advance(a, from, new)[c] = a[c]
            BY AdvanceKeeps
        <3> QED
            BY <2>5, <2>7, <3>1, <3>2, <3>3, <3>4
    <2> QED
        BY <2>2, <2>7, <2>8 DEF h
<1>6. OneHandoff' /\ StagedAgrees'
    <2>1. ASSUME NEW i \in DOMAIN handoffs
          PROVE  LET h == handoffs[i] IN
                 h.eid \in overtaken' \/ h.moved = {} \/ ent'[h.eid].region = ent[h.eid].region
        <3>1. handoffs[i].eid \in Entities
            BY <1>0, StagedIs
        <3> QED
            BY <1>3, <1>9, <3>1
    <2> QED
        BY <1>0, <1>3, <1>4, <1>5, <2>1, StagedKept DEF Inv
<1>7. HeldIsCurrent'
    <2>1. KeepsTold(World, NextWorld, K \cup (overtaken \X Comps))
        BY <1>3 DEF KeepsTold
    <2> QED
        BY <1>0, <1>3, <1>4, <2>1, HeldStep DEF Inv
<1>8. Matched' /\ AnswerFromHolder'
    BY <1>2, CommandsKept
<1>10. DiskAhead'
    <2> SUFFICES ASSUME NEW d \in Entities, d \notin overtaken', d \notin unlogged', NEW c \in Comps
                 PROVE  /\ disk'[d].auth[c].epoch >= ent'[d].auth[c].epoch
                        /\ \A i \in DOMAIN handoffs' :
                              handoffs'[i].eid = d => disk'[d].auth[c].epoch >= handoffs'[i].auth[c].epoch
        BY DEF DiskAhead
    <2>1. d \in Entities \ (overtaken \cup unlogged)
        BY <1>2, <1>4
    <2>2. CASE d = e
        <3>1. auth[c].epoch \in Nat /\ auth[c].epoch >= auth[c].epoch
            BY DEF AuthorityType
        <3>2. ent'[d].auth[c].epoch = auth[c].epoch /\ disk'[d].auth[c].epoch = auth[c].epoch
            BY <1>3, <2>2
        <3>3. \A i \in DOMAIN handoffs : handoffs[i].eid = d => handoffs[i].auth[c].epoch = auth[c].epoch
            BY <1>9, <2>2
        <3> QED
            BY <1>4, <3>1, <3>2, <3>3
    <2>3. CASE d # e
        <3>1. disk'[d] = disk[d] /\ ent'[d].auth[c].epoch = ent[d].auth[c].epoch
            BY <1>3, <2>3
        <3> QED
            BY <1>4, <2>1, <3>1 DEF Inv, DiskAhead
    <2> QED
        BY <2>2, <2>3
<1> QED
    BY <1>1, <1>6, <1>7, <1>8, <1>10 DEF Inv


LEMMA RestartStep ==
    ASSUME Inv, Restart
    PROVE  Inv'
<1>0. TypeOK
    BY DEF Inv
<1>1. TypeOK'
    BY <1>0, RestartType
<1>2. /\ disk' = disk /\ workers' = [w \in Workers |-> None] /\ handoffs' = <<>>
      /\ inbox' = {} /\ answer' = None
    BY DEF Restart
<1>3. OneHandoff' /\ StagedAgrees'
    BY <1>2, NothingStaged
<1>4. HeldIsCurrent'
    BY <1>2 DEF HeldIsCurrent, Told, Connected
<1>5. DiskAhead'
    <2> SUFFICES ASSUME NEW e \in Entities, NEW c \in Comps
                 PROVE  disk'[e].auth[c].epoch >= ent'[e].auth[c].epoch
        BY <1>2 DEF DiskAhead
    <2>1. ent'[e].auth = disk[e].auth
        BY <1>0, RecoveredIs
    <2>2. disk[e].auth[c].epoch \in Nat
        BY <1>0 DEF TypeOK, EntityType, AuthorityType
    <2> QED
        BY <1>2, <2>1, <2>2
<1>6. Matched' /\ AnswerFromHolder'
    BY <1>2 DEF Matched, AnswerFromHolder
<1> QED
    BY <1>1, <1>3, <1>4, <1>5, <1>6 DEF Inv

\* Nobody is connected at the start, and the log has what there is.
LEMMA InitialRow ==
    ASSUME Init, NEW e \in Entities
    PROVE  /\ conf \in Deployments /\ conf.spot[e] \in Spots /\ conf.home \in Regions
           /\ ent[e] = [pos |-> conf.spot[e], region |-> conf.home, tx |-> None,
                        auth |-> InitialAuthority(e, conf)]
           /\ ent[e] \in EntityType
<1>1. conf \in Deployments
    BY DEF Init
<1>2. conf.spot[e] \in Spots /\ conf.home \in Regions
    BY <1>1, AuthorityConstants
<1>3. \A c \in Comps : DefaultMode(e, c, conf) \in Modes
    BY DEF DefaultMode, Modes
<1>4. InitialAuthority(e, conf) \in AuthorityType
    BY <1>3 DEF InitialAuthority, AuthorityType
<1>5. ent[e] = [pos |-> conf.spot[e], region |-> conf.home, tx |-> None,
                auth |-> InitialAuthority(e, conf)]
    BY DEF Init
<1> QED
    BY <1>1, <1>2, <1>4, <1>5 DEF EntityType

LEMMA InitInv ==
    ASSUME Init
    PROVE  Inv
<1>1. /\ conf \in Deployments /\ disk = ent /\ workers = [w \in Workers |-> None]
      /\ updates = <<>> /\ handoffs = <<>> /\ pending = [r \in Requests |-> None] /\ inbox = {}
      /\ sent = 0 /\ answer = None /\ degraded = FALSE /\ starts = 0
      /\ overtaken = {} /\ untold = {} /\ blind = FALSE /\ unlogged = {}
    BY DEF Init
<1>2. ent \in [Entities -> EntityType]
    <2>1. \A e \in Entities : ent[e] \in EntityType
        BY InitialRow
    <2>2. ent = [e \in Entities |-> ent[e]]
        BY DEF Init
    <2> QED
        BY <2>1, <2>2
<1>3. workers \in [Workers -> HandleType] /\ pending \in [Requests -> PendingType]
    BY <1>1 DEF HandleType, PendingType
<1>4. TypeOK
    <2>1. disk \in [Entities -> EntityType]
        BY <1>1, <1>2
    <2>2. updates \in Seq([eid : Entities, pos : Spots]) /\ handoffs \in Seq(HandoffType)
        BY <1>1
    <2>3. /\ inbox \subseteq [req : Requests, serial : Nat, eid : Entities, owner : Workers]
          /\ overtaken \subseteq Entities /\ unlogged \subseteq Entities /\ untold \subseteq Workers \X Keys
        BY <1>1
    <2>4. sent \in Nat /\ starts \in Nat /\ degraded \in BOOLEAN /\ blind \in BOOLEAN
        BY <1>1
    <2> QED
        BY <1>1, <1>2, <1>3, <2>1, <2>2, <2>3, <2>4 DEF TypeOK
<1>5. OneHandoff /\ StagedAgrees /\ Matched /\ AnswerFromHolder
    BY <1>1 DEF OneHandoff, StagedAgrees, Matched, AnswerFromHolder
<1>6. HeldIsCurrent
    BY <1>1 DEF HeldIsCurrent, Told, Connected
<1>7. DiskAhead
    <2> SUFFICES ASSUME NEW e \in Entities, NEW c \in Comps
                 PROVE  ent[e].auth[c].epoch >= ent[e].auth[c].epoch
        BY <1>1 DEF DiskAhead
    <2> QED
        BY <1>2 DEF EntityType, AuthorityType
<1> QED
    BY <1>4, <1>5, <1>6, <1>7 DEF Inv

LEMMA InvStep ==
    ASSUME Inv, [Next]_vars
    PROVE  Inv'
<1>0. TypeOK
    BY DEF Inv
<1>1. CASE UNCHANGED vars
    <2>1. UNCHANGED <<conf, ent, disk, workers, updates, handoffs, pending, inbox, sent, answer,
                      degraded, starts, overtaken, untold, blind, unlogged>>
        BY <1>1 DEF vars, world, staged, commands, histories
    <2>2. HeldIsCurrent'
        BY <1>0, <2>1, HeldKept DEF Inv
    <2>3. StagedAgrees' /\ OneHandoff'
        BY <1>0, <2>1, StagedKept DEF Inv
    <2>4. TypeOK' /\ DiskAhead' /\ Matched' /\ AnswerFromHolder'
        BY <2>1 DEF Inv, TypeOK, DiskAhead, Matched, AnswerFromHolder
    <2> QED
        BY <2>2, <2>3, <2>4 DEF Inv
<1>2. ASSUME NEW w \in Workers, NEW e \in Entities, NEW supplied,
             NEW phase \in {"prepare", "preload_ready", "adopt", "abort"},
             ThresholdPhase(w, e, phase, supplied)
      PROVE  Inv'
    <2> DEFINE tx == IF phase \in {"adopt", "abort"} THEN None ELSE phase
    <2>1. tx \in {None, "prepare", "preload_ready", "commit"}
        OBVIOUS
    <2>2. SetTx(e, tx) /\ UNCHANGED <<conf, workers, staged, commands, degraded, starts, histories>>
        BY <1>2 DEF ThresholdPhase
    <2> HIDE DEF tx
    <2> QED
        BY <2>1, <2>2, TxStep
<1>3. ASSUME NEW e \in Entities, ThresholdTimeout(e)
      PROVE  Inv'
    BY <1>3, TxStep DEF ThresholdTimeout
<1>4. ASSUME NEW e \in Entities, NEW c \in Comps, NEW s \in conf.sets, NEW expected,
             SetComponentAuthority(e, c, s[1], s[2], expected)
      PROVE  Inv'
    <2>1. s \in (Workers \cup {None}) \X Modes
        BY <1>0, AuthorityConstants DEF TypeOK
    <2> QED
        BY <1>4, <2>1, SetStep
<1> QED
    BY <1>1, <1>2, <1>3, <1>4, ConnectStep, DisconnectStep, InterestStep, UpdateStep, ContactStep,
       RequestStep, CommitStep, QueueStep, ResponseStep, FlushStep, FlushFailsStep, RestartStep
       DEF Next

THEOREM AuthorityInv == Spec => []Inv
<1>1. Init => Inv
    BY InitInv
<1>2. Inv /\ [Next]_vars => Inv'
    BY InvStep
<1> QED
    BY <1>1, <1>2, PTL DEF Spec


\* TypeOK: every variable is of its type, whatever the deployment.
THEOREM AuthorityTypeCorrect == Spec => []TypeOK
<1>1. Inv => TypeOK
    BY DEF Inv
<1> QED
    BY <1>1, AuthorityInv, PTL

\* HeldIsCurrent: what a connection was granted, it holds at that epoch, unless the
\* authority moved under a staged hand-off or in a step that tells nobody.
THEOREM AuthorityHeldIsCurrent == Spec => []HeldIsCurrent
<1>1. Inv => HeldIsCurrent
    BY DEF Inv
<1> QED
    BY <1>1, AuthorityInv, PTL

\* AnswerFromHolder: an answer that is forwarded is one to this request, by the holder
\* it was routed to, but for ids used again and commands routed by region alone.
THEOREM AuthorityAnswers == Spec => []AnswerFromHolder
<1>1. Inv => AnswerFromHolder
    BY DEF Inv
<1> QED
    BY <1>1, AuthorityInv, PTL

\* No step takes an epoch back but under a staged hand-off or after an escalation the
\* log does not have.
LEMMA EpochsStep ==
    ASSUME Inv, [Next]_vars, NEW e \in Entities, e \notin overtaken \cup unlogged, NEW c \in Comps
    PROVE  ent'[e].auth[c].epoch >= ent[e].auth[c].epoch
<1>0. TypeOK
    BY DEF Inv
<1> DEFINE n == ent[e].auth[c].epoch
           Grows == ent'[e].auth[c].epoch >= n
<1>1. n \in Nat /\ n >= n /\ n + 1 >= n
    BY <1>0 DEF TypeOK, EntityType, AuthorityType
<1>2. ASSUME UNCHANGED ent
      PROVE  Grows
    BY <1>1, <1>2
<1>3. ASSUME ent'[e].auth[c].epoch \in {n, n + 1}
      PROVE  Grows
    BY <1>1, <1>3
<1>4. ASSUME OnlyOwners(World, NextWorld)
      PROVE  Grows
    BY <1>1, <1>4 DEF OnlyOwners, World, NextWorld
<1>5. ASSUME UNCHANGED vars
     PROVE  Grows
    BY <1>2, <1>5 DEF vars, world
<1>6. ASSUME NEW w \in Workers, Connect(w)
      PROVE  Grows
    BY <1>0, <1>4, <1>6, ConnectEffect
<1>7. ASSUME NEW w \in Workers, NEW d \in Entities, Interest(w, d)
      PROVE  Grows
    BY <1>0, <1>4, <1>7, InterestEffect
<1>8. ASSUME NEW w \in Workers, Disconnect(w)
      PROVE  Grows
    BY <1>2, <1>8 DEF Disconnect
<1>9. ASSUME NEW w \in Workers, NEW d \in Entities, NEW x \in Spots, UpdateComponent(w, d, x)
      PROVE  Grows
    BY <1>2, <1>9 DEF UpdateComponent
<1>10. ASSUME NEW w \in Workers, NEW d \in Entities, NEW x \in Spots, NEW other \in Entities,
              NEW written \in 0 .. 2, ContactRisk(w, d, x, other, written)
       PROVE  Grows
    <2>1. ent'[e].auth[c].epoch \in {n, n + 1}
        BY <1>0, <1>10, ContactEffect
    <2> QED
        BY <1>3, <2>1
<1>11. ASSUME NEW w \in Workers, NEW d \in Entities, NEW r \in Requests, CommandRequest(w, d, r)
       PROVE  Grows
    BY <1>2, <1>11 DEF CommandRequest, world
<1>12. ASSUME NEW d \in Entities, NEW tx \in {None, "prepare", "preload_ready", "commit"}, SetTx(d, tx)
       PROVE  Grows
    BY <1>0, <1>1, <1>12, TxType
<1>13. ASSUME NEW w \in Workers, NEW d \in Entities, NEW supplied,
              NEW phase \in {"prepare", "preload_ready", "adopt", "abort"},
              ThresholdPhase(w, d, phase, supplied)
       PROVE  Grows
    <2> DEFINE tx == IF phase \in {"adopt", "abort"} THEN None ELSE phase
    <2>1. tx \in {None, "prepare", "preload_ready", "commit"} /\ SetTx(d, tx)
        BY <1>13 DEF ThresholdPhase
    <2> HIDE DEF tx
    <2> QED
        BY <1>12, <2>1
<1>14. ASSUME NEW d \in Entities, ThresholdTimeout(d)
       PROVE  Grows
    BY <1>12, <1>14 DEF ThresholdTimeout
<1>15. ASSUME NEW w \in Workers, NEW d \in Entities, NEW to \in Regions \cup {None},
              NEW supplied, ThresholdCommit(w, d, to, supplied)
       PROVE  Grows
    <2>1. PICK auth \in AuthorityType :
             /\ \A b \in Entities \ {d}, f \in Comps : ent'[b].auth[f].epoch = ent[b].auth[f].epoch
             /\ \A f \in Comps : /\ ent'[d].auth[f].epoch = auth[f].epoch
                                 /\ auth[f].epoch >= ent[d].auth[f].epoch
        BY <1>0, <1>15, CommitEffect
    <2> QED
        BY <1>1, <2>1
<1>16. ASSUME NEW d \in Entities, NEW b \in Comps, NEW s \in conf.sets, NEW expected,
              SetComponentAuthority(d, b, s[1], s[2], expected)
       PROVE  Grows
    <2>1. s[1] \in Workers \cup {None} /\ s[2] \in Modes
        BY <1>0, AuthorityConstants DEF TypeOK
    <2>2. ent'[e].auth[c].epoch \in {n, n + 1}
        BY <1>0, <1>16, <2>1, SetEffect
    <2> QED
        BY <1>3, <2>2
<1>17. ASSUME NEW d \in Entities, NEW to \in Regions, QueueHandoff(d, to)
       PROVE  Grows
    BY <1>2, <1>17 DEF QueueHandoff
<1>18. ASSUME NEW m \in inbox, CommandResponse(m)
       PROVE  Grows
    BY <1>2, <1>18 DEF CommandResponse, world
<1>19. ASSUME Flush
      PROVE  Grows
    BY <1>19, FlushEpochs
<1>20. ASSUME FlushFails
      PROVE  Grows
    BY <1>2, <1>20 DEF FlushFails, world
<1>21. ASSUME Restart
      PROVE  Grows
    <2>1. ent'[e].auth = disk[e].auth
        BY <1>0, <1>21, RecoveredIs
    <2> QED
        BY <2>1 DEF Inv, DiskAhead
<1> HIDE DEF n, Grows
<1>22. Grows
    BY <1>5, <1>6, <1>7, <1>8, <1>9, <1>10, <1>11, <1>13, <1>14, <1>15, <1>16, <1>17, <1>18, <1>19,
       <1>20, <1>21 DEF Next
<1> QED
    BY <1>22 DEF Grows, n

\* EpochsOnlyGrow: a fencing epoch never goes back, over restarts either.
THEOREM AuthorityEpochsOnlyGrow == Spec => EpochsOnlyGrow
<1>1. ASSUME Inv, [Next]_vars
      PROVE  [\A e \in Entities, c \in Comps :
                 e \notin overtaken \cup unlogged => ent'[e].auth[c].epoch >= ent[e].auth[c].epoch]_vars
    BY <1>1, EpochsStep
<1> QED
    BY <1>1, AuthorityInv, PTL DEF Spec, EpochsOnlyGrow


(***************************************************************************)
(* The invariant of contacts: bodies that clients may write are apart,     *)
(* wherever memory, the window or the log would put them.                  *)
(***************************************************************************)
Apart == OneBody /\ SparseAgrees /\ PlaceAgrees /\ PlacesApart

\* The administrator makes nothing sparse, and the bodies of clients start apart.
StartsApart ==
    \A d \in Deployments :
        /\ \A s \in d.sets : s[2] # "sparse"
        /\ \A e, o \in d.sparse : e # o => Distance(d.spot[e], d.spot[o]) > ContactRadius

LEMMA IdsIn ==
    ASSUME TypeOK
    PROVE  conf.ids \subseteq Entities
BY AuthorityConstants DEF TypeOK

LEMMA DistanceSymmetric ==
    ASSUME NEW x \in Spots, NEW y \in Spots
    PROVE  Distance(x, y) = Distance(y, x) /\ Distance(x, y) \in Nat
BY DEF Distance, Spots

LEMMA PlacesIn ==
    ASSUME TypeOK, NEW e \in Entities
    PROVE  Places(e) \subseteq Spots
<1>1. ent[e].pos \in Spots /\ disk[e].pos \in Spots
    BY DEF TypeOK, EntityType
<1>2. ASSUME NEW i \in WritesOf(e)
      PROVE  updates[i].pos \in Spots
    <2>1. updates \in Seq([eid : Entities, pos : Spots]) /\ i \in DOMAIN updates
        BY DEF TypeOK, WritesOf
    <2>2. updates[i] \in [eid : Entities, pos : Spots]
        BY <2>1, MemberOf
    <2> QED
        BY <2>2
<1> QED
    BY <1>1, <1>2 DEF Places

\* A step after which no body is in a place it was not in, nor sparse if it was not.
LEMMA PlacesShrink ==
    ASSUME TypeOK, PlacesApart, UNCHANGED conf, blind => blind', overtaken \subseteq overtaken',
           \A e \in Entities \ overtaken' : /\ MaySparse(e)' => MaySparse(e)
                                            /\ Places(e)' \subseteq Places(e)
    PROVE  PlacesApart'
<1> SUFFICES ASSUME ~blind', NEW e \in conf.ids, NEW o \in conf.ids, e \notin overtaken', o \notin overtaken',
                    e # o, MaySparse(e)', MaySparse(o)', NEW x \in Places(e)', NEW y \in Places(o)'
             PROVE  Distance(x, y) > ContactRadius
    BY DEF PlacesApart
<1>1. e \in Entities \ overtaken' /\ o \in Entities \ overtaken'
    BY IdsIn
<1>2. e \in conf.ids \ overtaken /\ o \in conf.ids \ overtaken
    OBVIOUS
<1>3. MaySparse(e) /\ MaySparse(o) /\ x \in Places(e) /\ y \in Places(o)
    BY <1>1
<1> QED
    BY <1>2, <1>3 DEF PlacesApart

\* A step that moves nothing and makes nothing sparse.
LEMMA StillApart ==
    ASSUME TypeOK, Apart, UNCHANGED <<conf, updates, handoffs, blind>>, degraded => degraded',
           overtaken \subseteq overtaken',
           \A e \in Entities : /\ ent'[e].pos = ent[e].pos /\ disk'[e].pos = disk[e].pos
                               /\ MaySparse(e)' => MaySparse(e),
           SparseAgrees'
    PROVE  Apart'
<1>1. OneBody'
    BY DEF Apart, OneBody
<1>2. ASSUME NEW e \in Entities
      PROVE  WritesOf(e)' = WritesOf(e) /\ Places(e)' = Places(e) /\ Staged(e)' = Staged(e)
    BY DEF WritesOf, Places, Staged
<1>3. PlaceAgrees'
    <2> SUFFICES ASSUME NEW e \in Entities, e \notin overtaken'
                 PROVE  /\ ~degraded' /\ WritesOf(e)' = {} => disk'[e].pos = ent'[e].pos
                        /\ WritesOf(e)' # {} =>
                              /\ ~Staged(e)'
                              /\ \E i \in WritesOf(e)' : (\A j \in WritesOf(e)' : j <= i)
                                                         /\ disk'[e].pos = updates'[i].pos
        BY DEF PlaceAgrees
    <2>1. e \in Entities \ overtaken
        OBVIOUS
    <2> QED
        BY <1>2, <2>1 DEF Apart, PlaceAgrees
<1>4. PlacesApart'
    BY <1>2, PlacesShrink DEF Apart
<1> QED
    BY <1>1, <1>3, <1>4 DEF Apart

\* A step that changes no mode and no position.
LEMMA SameApart ==
    ASSUME TypeOK, Apart, UNCHANGED <<conf, updates, handoffs, blind, degraded>>,
           overtaken \subseteq overtaken',
           \A e \in Entities : /\ ent'[e].pos = ent[e].pos /\ disk'[e].pos = disk[e].pos
                               /\ ent'[e].auth["pos"].mode = ent[e].auth["pos"].mode
                               /\ disk'[e].auth["pos"].mode = disk[e].auth["pos"].mode
    PROVE  Apart'
<1>1. \A e \in Entities : MaySparse(e)' = MaySparse(e)
    BY DEF MaySparse, IsSparse
<1>2. SparseAgrees'
    BY DEF Apart, SparseAgrees, IsSparse
<1> QED
    BY <1>1, <1>2, StillApart

LEMMA GrantsApart ==
    ASSUME TypeOK, Apart, OnlyOwners(World, NextWorld), NoteOvertaken,
           UNCHANGED <<conf, disk, staged, degraded, blind>>
    PROVE  Apart'
<1>1. \A e \in Entities : /\ ent'[e].pos = ent[e].pos
                          /\ ent'[e].auth["pos"].mode = ent[e].auth["pos"].mode
    BY CompsAre DEF OnlyOwners, World, NextWorld
<1>2. overtaken \subseteq overtaken'
    BY OvertakenTyped
<1> QED
    BY <1>1, <1>2, SameApart DEF staged

LEMMA ContactKeepsApart ==
    ASSUME TypeOK, Apart, NEW w \in Workers, NEW e \in Entities, NEW x \in Spots, NEW other \in Entities,
           NEW written \in 0 .. 2, ContactRisk(w, e, x, other, written)
    PROVE  Apart'
<1>1. NoteOvertaken /\ UNCHANGED <<conf, staged, blind>> /\ ~degraded
    BY DEF ContactRisk, MayWrite
<1>2. overtaken \subseteq overtaken'
    BY <1>1, OvertakenTyped
<1>3. /\ \A d \in Entities : ent'[d].pos = ent[d].pos
      /\ \A d \in {e, other} : ent'[d].auth["pos"].mode = "arbitrated"
      /\ \A d \in Entities \ {e, other} : ent'[d].auth["pos"].mode = ent[d].auth["pos"].mode
    BY CompsAre, ContactEffect
<1>4. /\ \A d \in Entities : disk'[d].pos = disk[d].pos
      /\ \A d \in Entities : disk'[d].auth["pos"].mode \in {disk[d].auth["pos"].mode, "arbitrated"}
      /\ degraded' \/ \A d \in {e, other} : disk'[d].auth["pos"].mode = "arbitrated"
    BY ContactDisk
<1>5. \A d \in Entities : MaySparse(d)' => MaySparse(d)
    BY <1>3, <1>4 DEF MaySparse, IsSparse
<1>6. SparseAgrees'
    <2> SUFFICES ASSUME NEW d \in Entities, d \notin overtaken', ~degraded', IsSparse(disk'[d])
                 PROVE  IsSparse(ent'[d])
        BY DEF SparseAgrees
    <2>1. d \notin {e, other} /\ IsSparse(disk[d])
        BY <1>4 DEF IsSparse
    <2>2. IsSparse(ent[d])
        BY <1>1, <1>2, <2>1 DEF Apart, SparseAgrees
    <2> QED
        BY <1>3, <2>1, <2>2 DEF IsSparse
<1> QED
    BY <1>1, <1>2, <1>3, <1>4, <1>5, <1>6, StillApart DEF staged

LEMMA SetKeepsApart ==
    ASSUME TypeOK, Apart, NEW e \in Entities, NEW c \in Comps, NEW owner \in Workers \cup {None},
           NEW mode \in Modes, mode # "sparse", NEW expected,
           SetComponentAuthority(e, c, owner, mode, expected)
    PROVE  Apart'
<1>1. NoteOvertaken /\ UNCHANGED <<conf, staged, blind, degraded>>
    BY DEF SetComponentAuthority
<1>2. overtaken \subseteq overtaken'
    BY <1>1, OvertakenTyped
<1>3. /\ \A d \in Entities : ent'[d].pos = ent[d].pos
      /\ \A d \in Entities :
            IF d = e /\ c = "pos" THEN ent'[d].auth["pos"].mode = mode
            ELSE ent'[d].auth["pos"].mode = ent[d].auth["pos"].mode
    BY CompsAre, SetEffect
<1>4. /\ \A d \in Entities : disk'[d].pos = disk[d].pos
      /\ \A d \in Entities :
            IF d = e /\ c = "pos" THEN disk'[d].auth["pos"].mode = mode
            ELSE disk'[d].auth["pos"].mode = disk[d].auth["pos"].mode
    BY CompsAre, SetDisk
<1>5. \A d \in Entities : MaySparse(d)' => MaySparse(d)
    BY <1>3, <1>4 DEF MaySparse, IsSparse
<1>6. SparseAgrees'
    BY <1>1, <1>2, <1>3, <1>4 DEF Apart, SparseAgrees, IsSparse
<1> QED
    BY <1>1, <1>2, <1>3, <1>4, <1>5, <1>6, StillApart DEF staged

LEMMA CommitKeepsApart ==
    ASSUME TypeOK, Apart, NEW w \in Workers, NEW e \in Entities, NEW to \in Regions \cup {None},
           NEW supplied, ThresholdCommit(w, e, to, supplied)
    PROVE  Apart'
<1>1. NoteOvertaken /\ UNCHANGED <<conf, staged, blind, degraded>>
    BY DEF ThresholdCommit
<1>2. overtaken \subseteq overtaken'
    BY <1>1, OvertakenTyped
<1>3. PICK auth \in AuthorityType :
         /\ \A d \in Entities : ent'[d].pos = ent[d].pos
         /\ \A d \in Entities \ {e}, c \in Comps : ent'[d].auth[c].mode = ent[d].auth[c].mode
         /\ \A c \in Comps : ent'[e].auth[c].mode = auth[c].mode /\ auth[c].mode = ent[e].auth[c].mode
         /\ disk'[e].auth = auth /\ disk'[e].pos = disk[e].pos
         /\ \A d \in Entities \ {e} : disk'[d] = disk[d]
    BY CommitEffect
<1>4. \A d \in Entities :
         /\ ent'[d].auth["pos"].mode = ent[d].auth["pos"].mode
         /\ disk'[d].auth["pos"].mode \in {disk[d].auth["pos"].mode, ent[d].auth["pos"].mode}
         /\ disk'[d].pos = disk[d].pos
    BY <1>3, CompsAre
<1>5. \A d \in Entities : MaySparse(d)' => MaySparse(d)
    BY <1>4 DEF MaySparse, IsSparse
<1>6. SparseAgrees'
    BY <1>1, <1>2, <1>4 DEF Apart, SparseAgrees, IsSparse
<1> QED
    BY <1>1, <1>2, <1>3, <1>4, <1>5, <1>6, StillApart DEF staged

LEMMA TxKeepsApart ==
    ASSUME TypeOK, Apart, NEW e \in Entities, NEW tx \in {None, "prepare", "preload_ready", "commit"},
           SetTx(e, tx), UNCHANGED <<conf, workers, staged, commands, degraded, starts, histories>>
    PROVE  Apart'
<1>1. \A d \in Entities :
         /\ ent'[d].auth = ent[d].auth /\ disk'[d].auth = disk[d].auth
         /\ ent'[d].pos = ent[d].pos /\ disk'[d].pos = disk[d].pos
    BY TxType
<1> QED
    BY <1>1, SameApart DEF staged, histories


LEMMA QueueKeepsApart ==
    ASSUME TypeOK, Apart, NEW e \in Entities, NEW to \in Regions, QueueHandoff(e, to)
    PROVE  Apart'
<1>1. /\ overtaken' = IF WritesOf(e) # {} THEN overtaken \cup {e} ELSE overtaken
      /\ UNCHANGED <<conf, ent, updates, blind, degraded>>
    BY DEF QueueHandoff, WritesOf
<1>2. PICK h \in HandoffType :
         /\ handoffs' = Append(handoffs, h) /\ h.eid = e
         /\ h.auth = Advance(ent[e].auth, h.old, h.new)
         /\ disk'[e].auth = h.auth /\ disk'[e].pos = ent[e].pos
         /\ \A d \in Entities \ {e} : disk'[d] = disk[d]
    BY QueueEffect
<1>3. h.auth["pos"].mode = ent[e].auth["pos"].mode
    <2>1. ent[e].auth \in AuthorityType /\ h.new \in Workers \cup {None}
        BY DEF TypeOK, EntityType, HandoffType
    <2> QED
        BY <1>2, <2>1, AdvanceKeeps, CompsAre
<1>4. \A d \in Entities : /\ MaySparse(d)' => MaySparse(d)
                          /\ WritesOf(d)' = WritesOf(d) /\ Places(d)' \subseteq Places(d)
    BY <1>1, <1>2, <1>3 DEF MaySparse, IsSparse, WritesOf, Places
<1>5. \A d \in Entities \ {e} : Staged(d)' => Staged(d)
    <2> SUFFICES ASSUME NEW d \in Entities \ {e}, NEW i \in DOMAIN handoffs', handoffs'[i].eid = d
                 PROVE  Staged(d)
        BY DEF Staged
    <2>1. handoffs \in Seq(HandoffType)
        BY DEF TypeOK
    <2>2. /\ DOMAIN handoffs' = 1 .. Len(handoffs) + 1 /\ handoffs'[Len(handoffs) + 1] = h
          /\ DOMAIN handoffs = 1 .. Len(handoffs) /\ Len(handoffs) \in Nat
          /\ \A j \in DOMAIN handoffs : handoffs'[j] = handoffs[j]
        BY <1>2, <2>1, AppendInSeq
    <2>3. i \in DOMAIN handoffs /\ handoffs'[i] = handoffs[i]
        BY <1>2, <2>2
    <2> QED
        BY <2>3 DEF Staged
<1>6. OneBody'
    BY <1>1 DEF Apart, OneBody
<1>7. SparseAgrees'
    BY <1>1, <1>2, <1>3 DEF Apart, SparseAgrees, IsSparse
<1>8. PlaceAgrees'
    <2> SUFFICES ASSUME NEW d \in Entities, d \notin overtaken'
                 PROVE  /\ ~degraded' /\ WritesOf(d)' = {} => disk'[d].pos = ent'[d].pos
                        /\ WritesOf(d)' # {} =>
                              /\ ~Staged(d)'
                              /\ \E i \in WritesOf(d)' : (\A j \in WritesOf(d)' : j <= i)
                                                         /\ disk'[d].pos = updates'[i].pos
        BY DEF PlaceAgrees
    <2>1. CASE d = e
        <3>1. WritesOf(d)' = {} /\ disk'[d].pos = ent'[d].pos
            BY <1>1, <1>2, <1>4, <2>1
        <3> QED
            BY <3>1
    <2>2. CASE d # e
        <3>1. d \in Entities \ overtaken /\ disk'[d] = disk[d]
            BY <1>1, <1>2, <2>2
        <3> QED
            BY <1>1, <1>4, <1>5, <2>2, <3>1 DEF Apart, PlaceAgrees
    <2> QED
        BY <2>1, <2>2
<1>9. PlacesApart'
    BY <1>1, <1>4, PlacesShrink DEF Apart
<1> QED
    BY <1>6, <1>7, <1>8, <1>9 DEF Apart

\* The check of a write against what is published is enough: what is published is what
\* the log and the window hold for every other body, while writes are taken.
LEMMA UpdateKeepsApart ==
    ASSUME TypeOK, Apart, NEW w \in Workers, NEW e \in Entities, NEW x \in Spots, UpdateComponent(w, e, x)
    PROVE  Apart'
<1> DEFINE u == [eid |-> e, pos |-> x]
           n == Len(updates) + 1
<1>1. /\ ~degraded /\ e \in conf.ids /\ Contacts(e, x) = {} /\ updates' = Append(updates, u)
      /\ disk' = [disk EXCEPT ![e].pos = x]
      /\ blind' = (blind \/ \E i \in DOMAIN updates : updates[i].eid # e)
      /\ overtaken' = IF Staged(e) THEN overtaken \cup {e} ELSE overtaken
      /\ UNCHANGED <<conf, ent, handoffs, degraded>>
    BY DEF UpdateComponent, MayWrite
<1>2. /\ DOMAIN updates' = 1 .. n /\ updates'[n] = u
      /\ DOMAIN updates = 1 .. Len(updates) /\ Len(updates) \in Nat
      /\ \A i \in DOMAIN updates : updates'[i] = updates[i]
    <2>1. updates \in Seq([eid : Entities, pos : Spots]) /\ u \in [eid : Entities, pos : Spots]
        BY DEF TypeOK
    <2> HIDE DEF u
    <2> QED
        BY <1>1, <2>1, AppendInSeq
<1>3. u.eid = e /\ u.pos = x
    OBVIOUS
<1>4. n \in Nat /\ \A i \in DOMAIN updates : i \in Nat /\ i <= n
    BY <1>2
<1>5. \A i \in DOMAIN updates' : i = n \/ i \in DOMAIN updates
    BY <1>2
<1>6. n \in DOMAIN updates' /\ DOMAIN updates \subseteq DOMAIN updates'
    BY <1>2
<1> HIDE DEF u, n
<1>7. /\ \A d \in Entities \ {e} : disk'[d] = disk[d]
      /\ disk'[e].pos = x /\ disk'[e].auth = disk[e].auth
    BY <1>1 DEF TypeOK, EntityType
<1>8. \A d \in Entities : IsSparse(disk'[d]) = IsSparse(disk[d]) /\ MaySparse(d)' = MaySparse(d)
    BY <1>1, <1>7 DEF IsSparse, MaySparse
<1>9. ASSUME NEW d \in Entities \ {e}
      PROVE  WritesOf(d)' = WritesOf(d) /\ Places(d)' = Places(d)
    <2>1. WritesOf(d)' = WritesOf(d)
        BY <1>2, <1>3, <1>5, <1>6 DEF WritesOf
    <2>2. \A i \in WritesOf(d) : updates'[i].pos = updates[i].pos
        BY <1>2 DEF WritesOf
    <2>3. disk'[d] = disk[d] /\ ent' = ent
        BY <1>1, <1>7
    <2>4. PICK D, U : D = {updates[i].pos : i \in WritesOf(d)} /\ U = {updates'[i].pos : i \in WritesOf(d)'}
        OBVIOUS
    <2>5. U = D
        BY <2>1, <2>2, <2>4
    <2>6. Places(d) = {ent[d].pos, disk[d].pos} \cup D
        BY <2>4 DEF Places
    <2>7. Places(d)' = {ent'[d].pos, disk'[d].pos} \cup U
        BY <2>4 DEF Places
    <2> QED
        BY <2>1, <2>3, <2>5, <2>6, <2>7
<1>10. n \in WritesOf(e)' /\ \A j \in WritesOf(e)' : j <= n
    BY <1>2, <1>3, <1>4, <1>5, <1>6 DEF WritesOf
<1>11. Places(e)' \subseteq Places(e) \cup {x}
    <2>1. \A i \in WritesOf(e)' : updates'[i].pos = x \/ (i \in WritesOf(e) /\ updates'[i].pos = updates[i].pos)
        BY <1>2, <1>3, <1>5 DEF WritesOf
    <2> QED
        BY <1>1, <1>7, <2>1 DEF Places
<1>12. OneBody'
    <2> SUFFICES ASSUME ~blind', NEW i \in DOMAIN updates'
                 PROVE  updates'[i].eid = e
        BY DEF OneBody
    <2> QED
        BY <1>1, <1>2, <1>3, <1>5
<1>13. SparseAgrees'
    BY <1>1, <1>8 DEF Apart, SparseAgrees
<1>14. PlaceAgrees'
    <2> SUFFICES ASSUME NEW d \in Entities, d \notin overtaken'
                 PROVE  /\ ~degraded' /\ WritesOf(d)' = {} => disk'[d].pos = ent'[d].pos
                        /\ WritesOf(d)' # {} =>
                              /\ ~Staged(d)'
                              /\ \E i \in WritesOf(d)' : (\A j \in WritesOf(d)' : j <= i)
                                                         /\ disk'[d].pos = updates'[i].pos
        BY DEF PlaceAgrees
    <2>1. d \in Entities \ overtaken /\ Staged(d)' = Staged(d)
        BY <1>1 DEF Staged
    <2>2. CASE d = e
        <3>1. ~Staged(e)
            BY <1>1, <2>2
        <3> QED
            BY <1>2, <1>3, <1>7, <1>10, <2>1, <2>2, <3>1
    <2>3. CASE d # e
        <3>1. d \in Entities \ {e}
            BY <2>3
        <3>2. WritesOf(d)' = WritesOf(d) /\ disk'[d] = disk[d]
            BY <1>7, <1>9, <3>1
        <3>3. \A i \in WritesOf(d) : updates'[i] = updates[i]
            BY <1>2 DEF WritesOf
        <3>4. /\ ~degraded /\ WritesOf(d) = {} => disk[d].pos = ent[d].pos
              /\ WritesOf(d) # {} =>
                    /\ ~Staged(d)
                    /\ \E i \in WritesOf(d) : (\A j \in WritesOf(d) : j <= i) /\ disk[d].pos = updates[i].pos
            BY <2>1 DEF Apart, PlaceAgrees
        <3>5. CASE WritesOf(d) = {}
            BY <1>1, <3>2, <3>4, <3>5
        <3>6. CASE WritesOf(d) # {}
            <4>1. PICK i \in WritesOf(d) : (\A j \in WritesOf(d) : j <= i) /\ disk[d].pos = updates[i].pos
                BY <3>4, <3>6
            <4>2. disk'[d].pos = updates'[i].pos
                BY <3>2, <3>3, <4>1
            <4> QED
                BY <2>1, <3>2, <3>4, <3>6, <4>1, <4>2
        <3> QED
            BY <3>5, <3>6
    <2> QED
        BY <2>2, <2>3
<1>15. ASSUME ~blind', e \notin overtaken', NEW o \in conf.ids, o # e, o \notin overtaken',
              MaySparse(e), MaySparse(o), NEW y \in Places(o)
       PROVE  Distance(x, y) > ContactRadius
    <2>1. e \in Entities \ overtaken /\ o \in Entities \ overtaken
        BY <1>1, <1>15, IdsIn
    <2>2. IsSparse(ent[e]) /\ IsSparse(ent[o])
        BY <1>1, <1>15, <2>1 DEF Apart, SparseAgrees, MaySparse
    <2>3. WritesOf(o) = {}
        BY <1>1, <1>15 DEF WritesOf
    <2>4. y = ent[o].pos
        BY <1>1, <1>15, <2>1, <2>3 DEF Apart, PlaceAgrees, Places
    <2>5. ~(Distance(x, ent[o].pos) <= ContactRadius)
        BY <1>1, <1>15, <2>2 DEF Contacts, IsSparse
    <2>6. Distance(x, y) \in Nat
        BY <2>1, <1>15, PlacesIn, DistanceSymmetric
    <2> QED
        BY <2>4, <2>5, <2>6 DEF ContactRadius
<1>16. PlacesApart'
    <2> SUFFICES ASSUME ~blind', NEW d \in conf.ids, NEW o \in conf.ids, d \notin overtaken', o \notin overtaken',
                        d # o, MaySparse(d)', MaySparse(o)', NEW y \in Places(d)', NEW z \in Places(o)'
                 PROVE  Distance(y, z) > ContactRadius
        BY <1>1 DEF PlacesApart
    <2>1. d \in Entities /\ o \in Entities /\ d \notin overtaken /\ o \notin overtaken /\ ~blind
        BY <1>1, IdsIn
    <2>2. MaySparse(d) /\ MaySparse(o)
        BY <1>8, <2>1
    <2>3. ASSUME y \in Places(d), z \in Places(o)
          PROVE  Distance(y, z) > ContactRadius
        BY <2>1, <2>2, <2>3 DEF Apart, PlacesApart
    <2>4. CASE d # e /\ o # e
        BY <1>9, <2>1, <2>3, <2>4
    <2>5. CASE d = e
        <3>1. z \in Places(o) /\ y \in Places(d) \cup {x}
            BY <1>9, <1>11, <2>1, <2>5
        <3>2. CASE y = x
            BY <1>15, <2>2, <2>5, <3>1, <3>2
        <3> QED
            BY <2>3, <3>1, <3>2
    <2>6. CASE o = e
        <3>1. y \in Places(d) /\ z \in Places(o) \cup {x}
            BY <1>9, <1>11, <2>1, <2>6
        <3>2. CASE z = x
            <4>1. Distance(z, y) > ContactRadius
                BY <1>15, <2>2, <2>6, <3>1, <3>2
            <4>2. y \in Spots /\ z \in Spots
                BY <2>1, <3>1, <3>2, PlacesIn
            <4> QED
                BY <4>1, <4>2, DistanceSymmetric
        <3> QED
            BY <2>3, <3>1, <3>2
    <2> QED
        BY <2>4, <2>5, <2>6
<1> QED
    BY <1>12, <1>13, <1>14, <1>16 DEF Apart


LEMMA FlushKeepsApart ==
    ASSUME TypeOK, OneHandoff, StagedAgrees, Apart, Flush
    PROVE  Apart'
<1>1. /\ updates' = <<>> /\ handoffs' = <<>>
      /\ UNCHANGED <<conf, disk, degraded, overtaken, blind>>
    BY DEF Flush
\* Where a flush puts an entity that was not overtaken, and in which mode.
<1>2. ASSUME NEW e \in Entities, ~Staged(e)
      PROVE  /\ ent'[e].auth["pos"].mode = ent[e].auth["pos"].mode
             /\ WritesOf(e) = {} => ent'[e].pos = ent[e].pos
             /\ WritesOf(e) # {} => \E i \in WritesOf(e) : /\ ent'[e].pos = updates[i].pos
                                                           /\ \A j \in WritesOf(e) : j <= i
    <2>1. ent'[e].pos = Written(e).pos /\ ent'[e].auth["pos"].mode = ent[e].auth["pos"].mode
        BY <1>2, FlushEffect, CompsAre
    <2> QED
        BY <2>1, WrittenIs
<1>3. ASSUME NEW e \in Entities \ overtaken, Staged(e)
      PROVE  ent'[e].auth["pos"].mode = ent[e].auth["pos"].mode /\ ent'[e].pos = ent[e].pos
    <2>1. PICK i \in DOMAIN handoffs : handoffs[i].eid = e
        BY <1>3 DEF Staged
    <2> DEFINE h == handoffs[i]
    <2>2. /\ h.pos = ent[e].pos /\ h.auth = Advance(ent[e].auth, h.old, h.new)
          /\ ent'[e].pos = h.pos /\ ent'[e].auth["pos"].mode = h.auth["pos"].mode
        BY <2>1, FlushEffect, CompsAre DEF StagedAgrees
    <2>3. ent[e].auth \in AuthorityType /\ h.new \in Workers \cup {None}
        BY StagedIs DEF TypeOK, EntityType, HandoffType
    <2> HIDE DEF h
    <2>4. h.auth["pos"].mode = ent[e].auth["pos"].mode
        BY <2>2, <2>3, AdvanceKeeps, CompsAre
    <2> QED
        BY <2>2, <2>4
<1>4. ASSUME NEW e \in Entities \ overtaken
      PROVE  /\ IsSparse(ent'[e]) = IsSparse(ent[e])
             /\ MaySparse(e)' = MaySparse(e)
             /\ WritesOf(e)' = {}
             /\ Places(e)' \subseteq Places(e)
    <2>1. ent'[e].auth["pos"].mode = ent[e].auth["pos"].mode
        BY <1>2, <1>3
    <2>2. ent'[e].pos \in Places(e)
        BY <1>2, <1>3 DEF Places
    <2>3. WritesOf(e)' = {}
        BY <1>1 DEF WritesOf
    <2>4. Places(e)' = {ent'[e].pos, disk[e].pos}
        BY <1>1, <2>3 DEF Places
    <2> QED
        BY <1>1, <2>1, <2>2, <2>3, <2>4 DEF IsSparse, MaySparse, Places
<1>5. OneBody'
    BY <1>1 DEF OneBody
<1>6. SparseAgrees'
    BY <1>1, <1>4 DEF Apart, SparseAgrees
<1>7. PlaceAgrees'
    <2> SUFFICES ASSUME NEW e \in Entities \ overtaken, ~degraded
                 PROVE  disk[e].pos = ent'[e].pos
        BY <1>1, <1>4 DEF PlaceAgrees
    <2>1. /\ WritesOf(e) = {} => disk[e].pos = ent[e].pos
          /\ WritesOf(e) # {} =>
                /\ ~Staged(e)
                /\ \E i \in WritesOf(e) : (\A j \in WritesOf(e) : j <= i) /\ disk[e].pos = updates[i].pos
        BY DEF Apart, PlaceAgrees
    <2>2. CASE WritesOf(e) = {}
        BY <1>2, <1>3, <2>1, <2>2
    <2>3. CASE WritesOf(e) # {}
        <3>1. PICK i \in WritesOf(e) : (\A j \in WritesOf(e) : j <= i) /\ disk[e].pos = updates[i].pos
            BY <2>1, <2>3
        <3>2. PICK k \in WritesOf(e) : ent'[e].pos = updates[k].pos /\ \A j \in WritesOf(e) : j <= k
            BY <1>2, <2>1, <2>3
        <3>3. i \in Nat /\ k \in Nat
            <4>1. updates \in Seq([eid : Entities, pos : Spots])
                BY DEF TypeOK
            <4>2. DOMAIN updates = 1 .. Len(updates) /\ Len(updates) \in Nat
                BY <4>1
            <4> QED
                BY <4>2 DEF WritesOf
        <3>4. i <= k /\ k <= i
            BY <3>1, <3>2
        <3>5. i = k
            BY <3>3, <3>4
        <3> QED
            BY <3>1, <3>2, <3>5
    <2> QED
        BY <2>2, <2>3
<1>8. PlacesApart'
    BY <1>1, <1>4, PlacesShrink DEF Apart
<1> QED
    BY <1>5, <1>6, <1>7, <1>8 DEF Apart

\* What was in the window is lost: the log alone has it.
LEMMA FlushFailsApart ==
    ASSUME TypeOK, Apart, FlushFails
    PROVE  Apart'
<1>1. /\ updates' = <<>> /\ degraded' = TRUE
      /\ UNCHANGED <<conf, ent, disk, overtaken, blind>>
    BY DEF FlushFails, world, histories
<1>2. ASSUME NEW e \in Entities
      PROVE  /\ MaySparse(e)' = MaySparse(e) /\ WritesOf(e)' = {}
             /\ Places(e)' \subseteq Places(e)
    <2>1. WritesOf(e)' = {}
        BY <1>1 DEF WritesOf
    <2> QED
        BY <1>1, <2>1 DEF MaySparse, Places
<1>3. OneBody' /\ SparseAgrees' /\ PlaceAgrees'
    BY <1>1, <1>2 DEF OneBody, SparseAgrees, PlaceAgrees
<1>4. PlacesApart'
    BY <1>1, <1>2, PlacesShrink DEF Apart
<1> QED
    BY <1>3, <1>4 DEF Apart

\* What the log has is one of the places.
LEMMA RestartApart ==
    ASSUME TypeOK, Apart, Restart
    PROVE  Apart'
<1>1. /\ updates' = <<>> /\ handoffs' = <<>>
      /\ UNCHANGED <<conf, disk, overtaken, blind>>
    BY DEF Restart
<1>2. ASSUME NEW e \in Entities
      PROVE  /\ ent'[e].pos = disk[e].pos /\ IsSparse(ent'[e]) = IsSparse(disk[e])
             /\ WritesOf(e)' = {}
             /\ MaySparse(e)' => MaySparse(e)
             /\ Places(e)' \subseteq Places(e)
    <2>1. ent'[e].auth = disk[e].auth /\ ent'[e].pos = disk[e].pos
        BY RecoveredIs
    <2>2. WritesOf(e)' = {}
        BY <1>1 DEF WritesOf
    <2> QED
        BY <1>1, <2>1, <2>2 DEF MaySparse, IsSparse, Places
<1>3. OneBody' /\ SparseAgrees' /\ PlaceAgrees'
    BY <1>1, <1>2 DEF OneBody, SparseAgrees, PlaceAgrees
<1>4. PlacesApart'
    BY <1>1, <1>2, PlacesShrink DEF Apart
<1> QED
    BY <1>3, <1>4 DEF Apart

LEMMA InitApart ==
    ASSUME StartsApart, Init
    PROVE  Apart
<1>1. conf \in Deployments /\ disk = ent /\ updates = <<>> /\ handoffs = <<>>
    BY DEF Init
<1>2. TypeOK
    BY InitInv DEF Inv
<1>3. ASSUME NEW e \in Entities
      PROVE  /\ WritesOf(e) = {} /\ Places(e) = {conf.spot[e]}
             /\ MaySparse(e) => e \in conf.sparse
    <2>1. /\ ent[e] = [pos |-> conf.spot[e], region |-> conf.home, tx |-> None,
                       auth |-> InitialAuthority(e, conf)]
        BY InitialRow
    <2>2. ent[e].auth["pos"].mode = DefaultMode(e, "pos", conf)
        BY <2>1, CompsAre DEF InitialAuthority
    <2>3. DefaultMode(e, "pos", conf) = "sparse" => e \in conf.sparse
        BY DEF DefaultMode
    <2>4. WritesOf(e) = {}
        BY <1>1 DEF WritesOf
    <2> QED
        BY <1>1, <2>1, <2>2, <2>3, <2>4 DEF Places, MaySparse, IsSparse
<1>4. OneBody /\ SparseAgrees /\ PlaceAgrees
    BY <1>1, <1>3 DEF OneBody, SparseAgrees, PlaceAgrees
<1>5. PlacesApart
    <2> SUFFICES ASSUME NEW e \in conf.ids, NEW o \in conf.ids, e # o, MaySparse(e), MaySparse(o),
                        NEW x \in Places(e), NEW y \in Places(o)
                 PROVE  Distance(x, y) > ContactRadius
        BY DEF PlacesApart
    <2>1. e \in conf.sparse /\ o \in conf.sparse /\ x = conf.spot[e] /\ y = conf.spot[o]
        BY <1>2, <1>3, IdsIn
    <2> QED
        BY <1>1, <2>1 DEF StartsApart
<1> QED
    BY <1>4, <1>5 DEF Apart

LEMMA ApartStep ==
    ASSUME StartsApart, Inv, Apart, [Next]_vars
    PROVE  Apart'
<1>0. TypeOK /\ OneHandoff /\ StagedAgrees
    BY DEF Inv
<1>1. ASSUME UNCHANGED <<conf, ent, disk, staged, degraded, overtaken, blind>>
      PROVE  Apart'
    BY <1>0, <1>1, SameApart DEF staged
<1>2. ASSUME UNCHANGED vars
      PROVE  Apart'
    BY <1>1, <1>2 DEF vars, world, histories
<1>3. ASSUME NEW w \in Workers, Connect(w)
      PROVE  Apart'
    BY <1>0, <1>3, ConnectEffect, GrantsApart DEF Connect
<1>4. ASSUME NEW w \in Workers, NEW e \in Entities, Interest(w, e)
      PROVE  Apart'
    BY <1>0, <1>4, InterestEffect, GrantsApart DEF Interest
<1>5. ASSUME NEW w \in Workers, Disconnect(w)
      PROVE  Apart'
    BY <1>1, <1>5 DEF Disconnect
<1>6. ASSUME NEW w \in Workers, NEW e \in Entities, NEW r \in Requests, CommandRequest(w, e, r)
      PROVE  Apart'
    BY <1>1, <1>6 DEF CommandRequest, world, histories
<1>7. ASSUME NEW m \in inbox, CommandResponse(m)
      PROVE  Apart'
    BY <1>1, <1>7 DEF CommandResponse, world, histories
<1>8. ASSUME NEW w \in Workers, NEW e \in Entities, NEW supplied,
             NEW phase \in {"prepare", "preload_ready", "adopt", "abort"},
             ThresholdPhase(w, e, phase, supplied)
      PROVE  Apart'
    <2> DEFINE tx == IF phase \in {"adopt", "abort"} THEN None ELSE phase
    <2>1. tx \in {None, "prepare", "preload_ready", "commit"}
        OBVIOUS
    <2>2. SetTx(e, tx) /\ UNCHANGED <<conf, workers, staged, commands, degraded, starts, histories>>
        BY <1>8 DEF ThresholdPhase
    <2> HIDE DEF tx
    <2> QED
        BY <1>0, <2>1, <2>2, TxKeepsApart
<1>9. ASSUME NEW e \in Entities, ThresholdTimeout(e)
      PROVE  Apart'
    BY <1>0, <1>9, TxKeepsApart DEF ThresholdTimeout
<1>10. ASSUME NEW e \in Entities, NEW c \in Comps, NEW s \in conf.sets, NEW expected,
              SetComponentAuthority(e, c, s[1], s[2], expected)
       PROVE  Apart'
    <2>1. s[1] \in Workers \cup {None} /\ s[2] \in Modes
        BY <1>0, AuthorityConstants DEF TypeOK
    <2>2. s[2] # "sparse"
        BY <1>0 DEF TypeOK, StartsApart
    <2> QED
        BY <1>0, <1>10, <2>1, <2>2, SetKeepsApart
<1>11. ASSUME Flush
       PROVE  Apart'
    BY <1>0, <1>11, FlushKeepsApart
<1> QED
    BY <1>0, <1>2, <1>3, <1>4, <1>5, <1>6, <1>7, <1>8, <1>9, <1>10, <1>11, UpdateKeepsApart,
       ContactKeepsApart, CommitKeepsApart, QueueKeepsApart, FlushFailsApart, RestartApart DEF Next

\* ContactApart: two bodies that clients may both write are never in contact, if they
\* start apart and the administrator makes nothing sparse.
THEOREM AuthorityContactApart ==
    ASSUME StartsApart
    PROVE  Spec => []ContactApart
<1>1. Init => Inv /\ Apart
    BY InitInv, InitApart
<1>2. Inv /\ Apart /\ [Next]_vars => (Inv /\ Apart)'
    BY InvStep, ApartStep
<1>3. Inv /\ Apart => ContactApart
    <2> SUFFICES ASSUME Inv, Apart, NEW e \in conf.ids, NEW o \in conf.ids, e # o, ~blind,
                        {e, o} \cap overtaken = {}, IsSparse(ent[e]), IsSparse(ent[o])
                 PROVE  Distance(ent[e].pos, ent[o].pos) > ContactRadius
        BY DEF ContactApart, IsSparse
    <2>1. MaySparse(e) /\ MaySparse(o) /\ ent[e].pos \in Places(e) /\ ent[o].pos \in Places(o)
        BY DEF MaySparse, Places
    <2> QED
        BY <2>1 DEF Apart, PlacesApart
<1> QED
    BY <1>1, <1>2, <1>3, PTL DEF Spec

=============================================================================
