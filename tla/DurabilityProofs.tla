-------------------------- MODULE DurabilityProofs --------------------------
(***************************************************************************)
(* Theorems of Durability, for every set of entities, regions, workers,    *)
(* components and values and every bound: types, and ids; then, on the     *)
(* settled schedules, what the broker shows, what a crash leaves and what  *)
(* the log replays to.                                                     *)
(***************************************************************************)
EXTENDS DurabilitySchedules, FiniteSetTheorems, WellFoundedInduction, TLAPS

(***************************************************************************)
(* Choosing an index.                                                      *)
(***************************************************************************)
Less == {ss \in Nat \X Nat : ss[1] < ss[2]}

\* Every non-empty set of naturals has a least element.
LEMMA LeastExists ==
    ASSUME NEW T, T \subseteq Nat, T # {}
    PROVE  \E x \in T : \A y \in T : x <= y
<1>1. IsWellFoundedOn(Less, Nat)
    BY NatLessThanWellFounded, Zenon DEF OpToRel, Less
<1>2. PICK x \in T : \A y \in T : ~(<<y, x>> \in Less)
    BY <1>1, WFMin, Zenon
<1>3. \A y \in T : ~(y < x)
    BY <1>2 DEF Less
<1> QED
    BY <1>3

\* FirstOf of a non-empty set of naturals is one of its members.
LEMMA FirstOfMember ==
    ASSUME NEW S, S \subseteq Nat, S # {}
    PROVE  FirstOf(S) \in S
BY LeastExists DEF FirstOf

\* LastOf of a non-empty set of indexes up to n is one of its members.
LEMMA LastOfMember ==
    ASSUME NEW n \in Nat, NEW S, S \subseteq 1 .. n, S # {}
    PROVE  LastOf(S) \in S
<1> DEFINE T == {n - i : i \in S}
<1>1. T \subseteq Nat
    OBVIOUS
<1>2. T # {}
    <2>1. PICK i \in S : TRUE
        OBVIOUS
    <2>2. n - i \in T
        OBVIOUS
    <2> QED
        BY <2>2
<1>3. PICK x \in T : \A y \in T : x <= y
    <2> HIDE DEF T
    <2> QED
        BY <1>1, <1>2, LeastExists
<1>4. PICK i \in S : x = n - i
    OBVIOUS
<1>5. \A j \in S : n - i <= n - j
    BY <1>3, <1>4
<1>6. \A j \in S : j <= i
    <2> SUFFICES ASSUME NEW j \in S PROVE j <= i
        OBVIOUS
    <2>1. i \in Int /\ j \in Int /\ n \in Int
        OBVIOUS
    <2> QED
        BY <1>5, <2>1
<1>7. \E k \in S : \A j \in S : j <= k
    BY <1>6
<1> QED
    BY <1>7 DEF LastOf

(***************************************************************************)
(* What the helpers return.                                                *)
(***************************************************************************)
\* Appending a member of T to a sequence over T.
LEMMA AppendInSeq ==
    ASSUME NEW T, NEW q \in Seq(T), NEW x \in T
    PROVE  Append(q, x) \in Seq(T)
OBVIOUS

\* A write, a hand-off and a grant take an entity to an entity.
LEMMA ApplyTypes ==
    ASSUME NEW st \in EntityState
    PROVE  /\ \A u \in Update : ApplyWrite(st, u) \in EntityState
           /\ \A h \in Handoff : ApplyHandoff(st, h) \in EntityState
           /\ \A g \in Grant : ApplyGrant(st, g) \in EntityState
BY DEF EntityState, Update, Handoff, Grant, ApplyWrite, ApplyHandoff,
       ApplyGrant, Fields, Data

\* A prepared hand-off is one.
LEMMA PrepareType ==
    ASSUME TypeOK, NEW st \in EntityState, NEW to \in Regions, NEW pos \in Data
    PROVE  PrepareHandoff(st, to, pos) \in Handoff
<1>1. regionWorker[to] \in Workers \cup {None}
    BY DEF TypeOK
<1>2. AdvanceIsland(st, regionWorker[st.region], regionWorker[to]) \in EntityState
    <2>1. \A ep \in Nat, new \in Workers \cup {None} :
              [st EXCEPT !.epoch = ep, !.owner = new] \in EntityState
        BY DEF EntityState
    <2>2. st.epoch + 1 \in Nat
        BY DEF EntityState
    <2> QED
        BY <1>1, <2>1, <2>2 DEF AdvanceIsland, Moves
<1> DEFINE next == AdvanceIsland(st, regionWorker[st.region], regionWorker[to])
<1>3. next.owner \in Workers \cup {None} /\ next.epoch \in Nat /\ st.ver + 1 \in Nat
    BY <1>2 DEF EntityState
<1> HIDE DEF next
<1>4. [to |-> to, pos |-> pos, ver |-> st.ver + 1, owner |-> next.owner,
       epoch |-> next.epoch] \in Handoff
    BY <1>3 DEF Handoff
<1> QED
    BY <1>4, Zenon DEF PrepareHandoff, next

\* Replaying a record takes a store to a store.
LEMMA ReplayTypes ==
    ASSUME NEW s \in Store
    PROVE  /\ \A e \in Entities : ReplayTombstone(s, e) \in Store
           /\ \A e \in Entities, st \in EntityState : ReplayRegister(s, e, st) \in Store
           /\ \A hs \in [Entities -> Handoff \cup {None}] : ReplayHandoffs(s, hs) \in Store
           /\ \A gs \in [Entities -> Grant \cup {None}] : ReplayGrants(s, gs) \in Store
<1>1. \A e \in Entities : ReplayTombstone(s, e) \in Store
    BY DEF Store, ReplayTombstone
<1>2. \A e \in Entities, st \in EntityState : ReplayRegister(s, e, st) \in Store
    BY DEF Store, ReplayRegister
<1>3. ASSUME NEW hs \in [Entities -> Handoff \cup {None}]
      PROVE  ReplayHandoffs(s, hs) \in Store
    <2>1. \A e \in Entities : s.entities[e] # None /\ hs[e] # None =>
                ApplyHandoff(s.entities[e], hs[e]) \in EntityState
        BY ApplyTypes DEF Store
    <2> QED
        BY <2>1 DEF Store, ReplayHandoffs
<1>4. ASSUME NEW gs \in [Entities -> Grant \cup {None}]
      PROVE  ReplayGrants(s, gs) \in Store
    <2>1. \A e \in Entities : s.entities[e] # None /\ gs[e] # None =>
                ApplyGrant(s.entities[e], gs[e]) \in EntityState
        BY ApplyTypes DEF Store
    <2> QED
        BY <2>1 DEF Store, ReplayGrants
<1> QED
    BY <1>1, <1>2, <1>3, <1>4

\* A record that yields an entity from a live one keeps the store a store.
LEMMA ReplayedType ==
    ASSUME NEW s \in Store, NEW e \in Entities, NEW st,
           s.entities[e] # None => st \in EntityState
    PROVE  Replayed(s, e, st) \in Store
BY DEF Store, Replayed

\* The outcomes of an append keep the disk well typed.
LEMMA AppendTypes ==
    ASSUME TypeOK, NEW s \in Store
    PROVE  AppendNoSync(s) \/ AppendFails \/ AppendSync(s) \/ AppendSyncFails(s) =>
              /\ logged' \in Store /\ mayRecover' \in SUBSET Store
              /\ degraded' \in BOOLEAN
BY DEF TypeOK, AppendNoSync, AppendFails, AppendSync, AppendSyncFails, disk

\* Choosing among staged writes: their indexes, their types.
LEMMA WritesOnType ==
    ASSUME TypeOK, NEW e \in Entities, NEW f \in Fields
    PROVE  /\ Len(writes[e]) \in Nat
           /\ WritesOn(e, f) \subseteq 1 .. Len(writes[e])
           /\ \A i \in WritesOn(e, f) :
                 /\ writes[e][i] \in Update
                 /\ writes[e][i].comp = f
                 /\ writes[e][i].val \in Data
                 /\ writes[e][i].ver \in Nat
                 /\ f = "pos" => writes[e][i].val \in Regions
<1>1. writes[e] \in Seq(Update)
    BY DEF TypeOK
<1>2. \A i \in WritesOn(e, f) : i \in 1 .. Len(writes[e]) /\ writes[e][i] \in Update
                                 /\ writes[e][i].comp = f
    BY <1>1 DEF WritesOn
<1>3. \A u \in Update : /\ u.val \in Data /\ u.ver \in Nat
                        /\ u.comp = "pos" => u.val \in Regions
    BY NoneAssumption DEF Update, Data
<1> QED
    BY <1>1, <1>2, <1>3

\* Applying staged writes to a live entity yields an entity.
LEMMA UpdatedType ==
    ASSUME TypeOK, NEW e \in Entities
    PROVE  IF entities[e] = None THEN Updated(e) = None ELSE Updated(e) \in EntityState
<1>1. CASE entities[e] = None \/ writes[e] = <<>>
    BY <1>1 DEF Updated, TypeOK
<1>2. CASE entities[e] # None /\ writes[e] # <<>>
    <2> DEFINE newVal == [f \in Fields |->
            IF WritesOn(e, f) = {} THEN entities[e].val[f]
            ELSE writes[e][LastOf(WritesOn(e, f))].val]
               newVer == writes[e][Len(writes[e])].ver
    <2>1. entities[e] \in EntityState
        BY <1>2 DEF TypeOK
    <2>2. newVal \in [Fields -> Data]
        <3>1. ASSUME NEW f \in Fields, WritesOn(e, f) # {}
              PROVE  writes[e][LastOf(WritesOn(e, f))].val \in Data
            BY <3>1, WritesOnType, LastOfMember
        <3>2. \A f \in Fields : entities[e].val[f] \in Data
            BY <2>1 DEF EntityState
        <3> QED
            BY <3>1, <3>2
    <2>3. newVer \in Nat
        <3>1. writes[e] \in Seq(Update)
            BY DEF TypeOK
        <3>2. writes[e][Len(writes[e])] \in Update
            BY <1>2, <3>1
        <3> QED
            BY <3>2 DEF Update
    <2> HIDE DEF newVal, newVer
    <2>4. [entities[e] EXCEPT !.val = newVal, !.ver = newVer] \in EntityState
        BY <2>1, <2>2, <2>3 DEF EntityState
    <2> QED
        BY <1>2, <2>4 DEF Updated, newVal, newVer
<1> QED
    BY <1>1, <1>2

\* The hand-off a flushed write stages is one.
LEMMA QueuedType ==
    ASSUME TypeOK, NEW S \in SUBSET Movers
    PROVE  Queued(S) \in [Entities -> Handoff \cup {None}]
<1> SUFFICES ASSUME NEW e \in S PROVE MoveOf(e) \in Handoff
    BY DEF Queued, TypeOK
<1> DEFINE u == writes[e][FirstOf(Crossings(e))]
<1>1. e \in Entities /\ entities[e] \in EntityState /\ Crossings(e) # {}
    BY DEF Movers, TypeOK
<1>2. u.val \in Regions /\ u.ver \in Nat
    <2>1. "pos" \in Fields
        BY DEF Fields
    <2>2. Crossings(e) \subseteq WritesOn(e, "pos")
        BY DEF Crossings
    <2>3. Crossings(e) \subseteq Nat
        BY <1>1, <2>1, <2>2, WritesOnType
    <2>4. FirstOf(Crossings(e)) \in WritesOn(e, "pos")
        BY <1>1, <2>2, <2>3, FirstOfMember
    <2> QED
        BY <1>1, <2>1, <2>4, WritesOnType
<1> HIDE DEF u
<1>3. [entities[e] EXCEPT !.ver = u.ver] \in EntityState
    BY <1>1, <1>2 DEF EntityState
<1>4. PrepareHandoff([entities[e] EXCEPT !.ver = u.ver], u.val, u.val) \in Handoff
    BY <1>2, <1>3, PrepareType DEF Data
<1> QED
    BY <1>4, Zenon DEF MoveOf, u

\* Applying a staged hand-off, or the staged grants, to a live entity yields an
\* entity.
LEMMA StagedApplyTypes ==
    ASSUME TypeOK, NEW e \in Entities, NEW st \in EntityState \cup {None}
    PROVE  IF st = None
           THEN /\ \A h \in Handoff \cup {None} : HandedOff(st, h) = None
                /\ Granted(st, e) = None
           ELSE /\ \A h \in Handoff \cup {None} : HandedOff(st, h) \in EntityState
                /\ Granted(st, e) \in EntityState
<1>1. \A h \in Handoff \cup {None} :
          IF st = None THEN HandedOff(st, h) = None ELSE HandedOff(st, h) \in EntityState
    BY ApplyTypes DEF HandedOff
<1>2. IF st = None THEN Granted(st, e) = None ELSE Granted(st, e) \in EntityState
    <2> DEFINE is == {i \in DOMAIN failovers : failovers[i].grants[e] # None}
    <2>1. CASE st = None \/ is = {}
        BY <2>1 DEF Granted
    <2>2. CASE st # None /\ is # {}
        <3>1. failovers \in Seq(Failover)
            BY DEF TypeOK
        <3>2. is \subseteq 1 .. Len(failovers) /\ Len(failovers) \in Nat
            BY <3>1
        <3>3. LastOf(is) \in is
            <4> HIDE DEF is
            <4> QED
                BY <2>2, <3>2, LastOfMember
        <3>4. failovers[LastOf(is)] \in Failover
            BY <3>1, <3>2, <3>3
        <3>5. failovers[LastOf(is)].grants[e] \in Grant
            BY <3>3, <3>4 DEF Failover
        <3> QED
            BY <2>2, <3>5, ApplyTypes DEF Granted
    <2> QED
        BY <2>1, <2>2
<1> QED
    BY <1>1, <1>2

\* A staged failover names a worker.
LEMMA FailedOverType ==
    ASSUME TypeOK, NEW r \in Regions, FailoversOf(r) # {}
    PROVE  FailedOverTo(r) \in Workers
<1>1. failovers \in Seq(Failover)
    BY DEF TypeOK
<1>2. FailoversOf(r) \subseteq 1 .. Len(failovers) /\ Len(failovers) \in Nat
    BY <1>1 DEF FailoversOf
<1>3. failovers[LastOf(FailoversOf(r))] \in Failover
    BY <1>1, <1>2, LastOfMember
<1> QED
    BY <1>3 DEF FailedOverTo, Failover

(***************************************************************************)
(* Type correctness.                                                       *)
(***************************************************************************)
\* A direct operation on a live entity.
LEMMA DirectType ==
    ASSUME TypeOK, NEW e \in Entities, NEW st \in EntityState, NEW loggedSt,
           logged.entities[e] # None => loggedSt \in EntityState,
           Direct(e, st, loggedSt)
    PROVE  TypeOK'
<1>1. Replayed(logged, e, loggedSt) \in Store
    BY ReplayedType DEF TypeOK
<1>2. logged' \in Store /\ mayRecover' \in SUBSET Store /\ degraded' \in BOOLEAN
    BY <1>1, AppendTypes DEF Direct
<1>3. entities' \in [Entities -> EntityState \cup {None}]
    BY DEF Direct, TypeOK
<1> QED
    BY <1>2, <1>3 DEF Direct, TypeOK, staged

\* The operations on a region keep the broker well typed.
LEMMA RegionOperationsType ==
    ASSUME TypeOK, NEW r \in Regions
    PROVE  /\ \A w \in Workers : Connect(w, r) => TypeOK'
           /\ \A w \in Workers : FailOver(r, w) => TypeOK'
           /\ \A e \in Entities : CreateEntity(e, r) => TypeOK'
           /\ \A e \in Entities : ReRoute(e, r) => TypeOK'
<1>1. ASSUME NEW w \in Workers, Connect(w, r) PROVE TypeOK'
    <2>1. \A x \in Entities : entities[x] # None =>
              [entities[x] EXCEPT !.owner = w] \in EntityState
        BY DEF TypeOK, EntityState
    <2>2. entities' \in [Entities -> EntityState \cup {None}]
        BY <1>1, <2>1 DEF Connect, TypeOK
    <2>3. regionWorker' \in [Regions -> Workers \cup {None}]
        BY <1>1 DEF Connect, TypeOK
    <2> QED
        BY <1>1, <2>2, <2>3 DEF Connect, TypeOK, staged, disk
<1>2. ASSUME NEW w \in Workers, FailOver(r, w) PROVE TypeOK'
    <2> DEFINE old == regionWorker[r]
               grants == [x \in Entities |->
                   IF entities[x] = None THEN None
                   ELSE IF entities[x].region = r /\ Moves(entities[x], old)
                   THEN [ver |-> entities[x].ver + 1, owner |-> w,
                         epoch |-> entities[x].epoch + 1]
                   ELSE None]
    <2>1. \A x \in Entities : entities[x] # None =>
              [ver |-> entities[x].ver + 1, owner |-> w,
               epoch |-> entities[x].epoch + 1] \in Grant
        BY DEF TypeOK, EntityState, Grant
    <2>2. grants \in [Entities -> Grant \cup {None}]
        BY <2>1
    <2>3. /\ \/ /\ AppendNoSync(ReplayGrants(logged, grants))
                /\ failovers' = Append(failovers,
                        [region |-> r, to |-> w, grants |-> grants])
             \/ AppendFails /\ UNCHANGED failovers
          /\ UNCHANGED <<entities, deleted, nextId, regionWorker, writes, handoffs>>
        BY <1>2 DEF FailOver
    <2> HIDE DEF grants
    <2>4. ReplayGrants(logged, grants) \in Store
        BY <2>2, ReplayTypes DEF TypeOK
    <2>5. logged' \in Store /\ mayRecover' \in SUBSET Store /\ degraded' \in BOOLEAN
        BY <2>3, <2>4, AppendTypes
    <2>6. [region |-> r, to |-> w, grants |-> grants] \in Failover
        BY <2>2 DEF Failover
    <2>7. failovers' \in Seq(Failover)
        <3>1. failovers \in Seq(Failover)
            BY DEF TypeOK
        <3>2. Append(failovers, [region |-> r, to |-> w, grants |-> grants])
                \in Seq(Failover)
            BY <2>6, <3>1, AppendInSeq
        <3> QED
            BY <2>3, <3>1, <3>2
    <2> QED
        BY <2>3, <2>5, <2>7 DEF TypeOK
<1>3. ASSUME NEW e \in Entities, CreateEntity(e, r) PROVE TypeOK'
    <2>1. NewEntity(r) \in EntityState
        <3> DEFINE val == [f \in Fields |-> IF f = "pos" THEN r ELSE None]
        <3>1. val \in [Fields -> Data]
            BY DEF Data
        <3> HIDE DEF val
        <3>2. [region |-> r, val |-> val, owner |-> None, epoch |-> 1, ver |-> 1]
                \in EntityState
            BY <3>1 DEF EntityState
        <3> QED
            BY <3>2, Zenon DEF NewEntity, val
    <2>2. [NewEntity(r) EXCEPT !.owner = regionWorker[r]] \in EntityState
        BY <2>1 DEF EntityState, TypeOK
    <2>3. ReplayRegister(logged, e, NewEntity(r)) \in Store
        BY <2>1, ReplayTypes DEF TypeOK
    <2>4. logged' \in Store /\ mayRecover' \in SUBSET Store /\ degraded' \in BOOLEAN
        BY <1>3, <2>3, AppendTypes DEF CreateEntity
    <2>5. entities' \in [Entities -> EntityState \cup {None}]
        BY <1>3, <2>2 DEF CreateEntity, TypeOK
    <2> QED
        BY <1>3, <2>4, <2>5 DEF CreateEntity, TypeOK, staged
<1>4. ASSUME NEW e \in Entities, ReRoute(e, r) PROVE TypeOK'
    <2> DEFINE h == PrepareHandoff(entities[e], r, entities[e].val["pos"])
    <2>1. h \in Handoff
        <3>1. entities[e] \in EntityState
            BY <1>4 DEF ReRoute, TypeOK
        <3>2. entities[e].val["pos"] \in Data
            BY <3>1 DEF EntityState, Fields
        <3> QED
            BY <3>1, <3>2, PrepareType
    <2>2. /\ \/ /\ AppendNoSync(ReplayHandoffs(logged, [NoHandoffs EXCEPT ![e] = h]))
                /\ handoffs' = [handoffs EXCEPT ![e] = h]
             \/ AppendFails /\ UNCHANGED handoffs
          /\ UNCHANGED <<entities, deleted, nextId, regionWorker, writes, failovers>>
        BY <1>4 DEF ReRoute
    <2> HIDE DEF h
    <2>3. [NoHandoffs EXCEPT ![e] = h] \in [Entities -> Handoff \cup {None}]
        BY <2>1 DEF NoHandoffs
    <2>4. ReplayHandoffs(logged, [NoHandoffs EXCEPT ![e] = h]) \in Store
        BY <2>3, ReplayTypes DEF TypeOK
    <2>5. logged' \in Store /\ mayRecover' \in SUBSET Store /\ degraded' \in BOOLEAN
        BY <2>2, <2>4, AppendTypes
    <2>6. handoffs' \in [Entities -> Handoff \cup {None}]
        BY <2>1, <2>2 DEF TypeOK
    <2> QED
        BY <2>2, <2>5, <2>6 DEF TypeOK
<1> QED
    BY <1>1, <1>2, <1>3, <1>4

\* Deleting an entity keeps the broker well typed.
LEMMA DeleteEntityType ==
    ASSUME TypeOK, NEW w \in Workers, NEW e \in Entities, DeleteEntity(w, e)
    PROVE  TypeOK'
<1>1. ReplayTombstone(logged, e) \in Store
    BY ReplayTypes DEF TypeOK
<1>2. logged' \in Store /\ mayRecover' \in SUBSET Store /\ degraded' \in BOOLEAN
    BY <1>1, AppendTypes DEF DeleteEntity
<1> QED
    BY <1>2 DEF DeleteEntity, TypeOK

\* The operations on components keep the broker well typed.
LEMMA ComponentOperationsType ==
    ASSUME TypeOK, NEW w \in Workers, NEW e \in Entities
    PROVE  /\ \A c \in Comps, v \in Values : AddComponent(w, e, c, v) => TypeOK'
           /\ \A c \in Comps : RemoveComponent(w, e, c) => TypeOK'
           /\ \A c \in Comps, v \in Values : UpdateComponent(w, e, c, v) => TypeOK'
           /\ \A r \in Regions : UpdateComponent(w, e, "pos", r) => TypeOK'
<1>1. ASSUME NEW c \in Comps, NEW v \in Values \cup {None}, entities[e] # None
      PROVE  LET u == [comp |-> c, val |-> v, ver |-> entities[e].ver + 1] IN
             \A st \in EntityState : ApplyWrite(st, u) \in EntityState
    <2>1. entities[e].ver + 1 \in Nat
        BY <1>1 DEF TypeOK, EntityState
    <2> QED
        BY <2>1 DEF ApplyWrite, EntityState, Fields, Data
<1>2. ASSUME NEW c \in Comps, NEW v \in Values, AddComponent(w, e, c, v)
      PROVE  TypeOK'
    <2> DEFINE u == [comp |-> c, val |-> v, ver |-> entities[e].ver + 1]
    <2>1. entities[e] # None /\ entities[e] \in EntityState
        BY <1>2 DEF AddComponent, MayWrite, TypeOK
    <2>2. Direct(e, ApplyWrite(entities[e], u), ApplyWrite(logged.entities[e], u))
        BY <1>2 DEF AddComponent
    <2>3. ApplyWrite(entities[e], u) \in EntityState
        BY <1>1, <2>1
    <2>4. logged.entities[e] # None => ApplyWrite(logged.entities[e], u) \in EntityState
        BY <1>1, <2>1 DEF TypeOK, Store
    <2> QED
        BY <2>2, <2>3, <2>4, DirectType
<1>3. ASSUME NEW c \in Comps, RemoveComponent(w, e, c)
      PROVE  TypeOK'
    <2> DEFINE u == [comp |-> c, val |-> None, ver |-> entities[e].ver + 1]
    <2>1. entities[e] # None /\ entities[e] \in EntityState
        BY <1>3 DEF RemoveComponent, MayWrite, TypeOK
    <2>2. Direct(e, ApplyWrite(entities[e], u), ApplyWrite(logged.entities[e], u))
        BY <1>3 DEF RemoveComponent
    <2>3. ApplyWrite(entities[e], u) \in EntityState
        BY <1>1, <2>1
    <2>4. logged.entities[e] # None => ApplyWrite(logged.entities[e], u) \in EntityState
        BY <1>1, <2>1 DEF TypeOK, Store
    <2> QED
        BY <2>2, <2>3, <2>4, DirectType
<1>5. ASSUME NEW c \in Fields, NEW v,
             \A n \in Nat : [comp |-> c, val |-> v, ver |-> n] \in Update,
             UpdateComponent(w, e, c, v)
      PROVE  TypeOK'
    <2> DEFINE u == [comp |-> c, val |-> v,
                     ver |-> entities[e].ver + Len(writes[e]) + 1]
    <2>1. entities[e] \in EntityState /\ writes[e] \in Seq(Update)
        BY <1>5 DEF UpdateComponent, MayWrite, TypeOK
    <2>2. u \in Update
        <3>1. entities[e].ver + Len(writes[e]) + 1 \in Nat
            BY <2>1 DEF EntityState
        <3> QED
            BY <1>5, <3>1
    <2>3. /\ \/ /\ AppendNoSync(Replayed(logged, e, ApplyWrite(logged.entities[e], u)))
                /\ writes' = [writes EXCEPT ![e] = Append(@, u)]
             \/ AppendFails /\ UNCHANGED writes
          /\ UNCHANGED <<entities, deleted, nextId, regionWorker, handoffs, failovers>>
        BY <1>5 DEF UpdateComponent
    <2> HIDE DEF u
    <2>4. Replayed(logged, e, ApplyWrite(logged.entities[e], u)) \in Store
        <3>1. logged \in Store
            BY DEF TypeOK
        <3>2. logged.entities[e] # None =>
                  ApplyWrite(logged.entities[e], u) \in EntityState
            BY <2>2, <3>1, ApplyTypes DEF Store
        <3> QED
            BY <3>1, <3>2, ReplayedType
    <2>5. logged' \in Store /\ mayRecover' \in SUBSET Store /\ degraded' \in BOOLEAN
        BY <2>3, <2>4, AppendTypes
    <2>6. writes' \in [Entities -> Seq(Update)]
        <3>1. Append(writes[e], u) \in Seq(Update)
            BY <2>1, <2>2, AppendInSeq
        <3> QED
            BY <2>3, <3>1 DEF TypeOK
    <2> QED
        BY <2>3, <2>5, <2>6 DEF TypeOK
<1>6. \A c \in Comps, v \in Values : UpdateComponent(w, e, c, v) => TypeOK'
    BY <1>5 DEF Update, Fields
<1>7. \A r \in Regions : UpdateComponent(w, e, "pos", r) => TypeOK'
    BY <1>5 DEF Update, Fields
<1> QED
    BY <1>2, <1>3, <1>6, <1>7

\* Granting a component to a worker, or to nobody, keeps the broker well typed.
LEMMA SetAuthorityType ==
    ASSUME TypeOK, NEW e \in Entities, NEW o \in Workers \cup {None},
           SetComponentAuthority(e, o)
    PROVE  TypeOK'
<1> DEFINE g == [ver |-> entities[e].ver + 1, owner |-> o,
                 epoch |-> entities[e].epoch + 1]
<1>1. entities[e] \in EntityState
    BY DEF SetComponentAuthority, TypeOK
<1>2. g \in Grant
    BY <1>1 DEF EntityState, Grant
<1>3. Direct(e, ApplyGrant(entities[e], g), ApplyGrant(logged.entities[e], g))
    BY DEF SetComponentAuthority
<1>4. ApplyGrant(entities[e], g) \in EntityState
    BY <1>1, <1>2, ApplyTypes
<1>5. logged.entities[e] # None => ApplyGrant(logged.entities[e], g) \in EntityState
    BY <1>2, ApplyTypes DEF TypeOK, Store
<1> QED
    BY <1>3, <1>4, <1>5, DirectType

\* Reserving ids keeps the broker well typed.
LEMMA ReserveType ==
    ASSUME TypeOK, ReserveEntityIds(1)
    PROVE  TypeOK'
<1> DEFINE store == [logged EXCEPT !.nextId =
                        IF nextId + 1 > @ THEN nextId + 1 ELSE @]
<1>1. store \in Store /\ nextId + 1 \in Nat
    <2>1. nextId + 1 \in Nat /\ logged \in Store
        BY DEF TypeOK
    <2>2. \A n \in Nat : [logged EXCEPT !.nextId = n] \in Store
        BY <2>1 DEF Store
    <2>3. logged.nextId \in Nat
        BY <2>1 DEF Store
    <2>4. (IF nextId + 1 > logged.nextId THEN nextId + 1 ELSE logged.nextId) \in Nat
        BY <2>1, <2>3
    <2> QED
        BY <2>1, <2>2, <2>4
<1>2. /\ \/ AppendSync(store) /\ nextId' = nextId + 1
         \/ AppendSyncFails(store) /\ UNCHANGED nextId
      /\ UNCHANGED <<entities, deleted, regionWorker, staged>>
    BY DEF ReserveEntityIds
<1> HIDE DEF store
<1>3. logged' \in Store /\ mayRecover' \in SUBSET Store /\ degraded' \in BOOLEAN
    BY <1>1, <1>2, AppendTypes
<1> QED
    BY <1>1, <1>2, <1>3 DEF TypeOK, staged

\* The durability tick keeps the broker well typed.
LEMMA FlushType ==
    ASSUME TypeOK, Flush
    PROVE  TypeOK'
<1>1. ASSUME FlushFails PROVE TypeOK'
    <2>1. writes' \in [Entities -> Seq(Update)]
        BY <1>1 DEF FlushFails, NoWrites
    <2> QED
        BY <1>1, <2>1 DEF FlushFails, TypeOK, disk
<1>2. ASSUME NEW S \in SUBSET Movers, NEW h \in BOOLEAN, NEW f \in BOOLEAN,
             FlushApplies(S, h, f)
      PROVE  TypeOK'
    <2> DEFINE queued == Queued(S)
               of(T) == [e \in Entities |-> IF e \in T THEN queued[e] ELSE None]
    <2>1. queued \in [Entities -> Handoff \cup {None}]
        BY QueuedType
    <2>2. ASSUME NEW T PROVE ReplayHandoffs(logged, of(T)) \in Store
        <3>1. of(T) \in [Entities -> Handoff \cup {None}]
            BY <2>1
        <3> QED
            BY <3>1, ReplayTypes DEF TypeOK
    <2>3. logged' = ReplayHandoffs(logged, of(S))
        BY <1>2 DEF FlushApplies
    <2>4. \/ mayRecover' = {ReplayHandoffs(logged, of(S))}
          \/ mayRecover' = {ReplayHandoffs(logged, of(T)) : T \in SUBSET S}
          \/ mayRecover' = mayRecover
        BY <1>2, Zenon DEF FlushApplies
    <2>5. logged' \in Store /\ mayRecover' \in SUBSET Store
        <3> HIDE DEF of
        <3>1. mayRecover \in SUBSET Store
            BY DEF TypeOK
        <3> QED
            BY <2>2, <2>3, <2>4, <3>1
    <2>6. entities' \in [Entities -> EntityState \cup {None}]
        <3> DEFINE st(e) == IF h THEN HandedOff(Updated(e), queued[e]) ELSE Updated(e)
        <3>1. ASSUME NEW e \in Entities
              PROVE  /\ st(e) \in EntityState \cup {None}
                     /\ Granted(st(e), e) \in EntityState \cup {None}
            <4>1. Updated(e) \in EntityState \cup {None}
                BY UpdatedType
            <4>2. st(e) \in EntityState \cup {None}
                BY <2>1, <4>1, StagedApplyTypes
            <4> QED
                BY <4>2, StagedApplyTypes
        <3>2. entities' = [e \in Entities |-> IF f THEN Granted(st(e), e) ELSE st(e)]
            BY <1>2 DEF FlushApplies
        <3> HIDE DEF st
        <3> QED
            BY <3>1, <3>2
    <2>7. regionWorker' \in [Regions -> Workers \cup {None}]
        BY <1>2, FailedOverType DEF FlushApplies, TypeOK
    <2>8. writes' \in [Entities -> Seq(Update)]
        BY <1>2 DEF FlushApplies, NoWrites
    <2>9. handoffs' \in [Entities -> Handoff \cup {None}]
        BY <1>2, <2>1 DEF FlushApplies, NoHandoffs
    <2>10. failovers' \in Seq(Failover) /\ degraded' \in BOOLEAN
        BY <1>2 DEF FlushApplies, TypeOK
    <2> QED
        BY <1>2, <2>5, <2>6, <2>7, <2>8, <2>9, <2>10 DEF FlushApplies, TypeOK
<1> QED
    BY <1>1, <1>2 DEF Flush

\* A portal fold keeps the broker well typed.
LEMMA FoldType ==
    ASSUME TypeOK, NEW w \in Workers, NEW e \in Entities, NEW to \in Regions,
           NEW pos \in Regions, Fold(w, e, to, pos)
    PROVE  TypeOK'
<1> DEFINE fresh == IF handoffs[e] = None THEN PrepareHandoff(entities[e], to, pos)
                                          ELSE None
           queued == IF fresh = None THEN handoffs ELSE [handoffs EXCEPT ![e] = fresh]
           store == IF fresh = None THEN logged
                    ELSE ReplayHandoffs(logged, [NoHandoffs EXCEPT ![e] = fresh])
<1>1. fresh \in Handoff \cup {None}
    <2>1. entities[e] \in EntityState
        BY DEF Fold, TypeOK
    <2>2. PrepareHandoff(entities[e], to, pos) \in Handoff
        BY <2>1, PrepareType DEF Data
    <2> QED
        BY <2>2
<1>2. /\ \/ /\ AppendSync(store)
            /\ entities' = [x \in Entities |-> HandedOff(entities[x], queued[x])]
            /\ handoffs' = NoHandoffs
         \/ /\ logged' = store /\ mayRecover' = mayRecover \cup {store}
            /\ degraded' = TRUE /\ handoffs' = queued /\ UNCHANGED entities
         \/ fresh # None /\ AppendFails /\ UNCHANGED <<entities, handoffs>>
      /\ UNCHANGED <<deleted, nextId, regionWorker, writes, failovers>>
    BY Zenon DEF Fold
<1> HIDE DEF fresh
<1>3. queued \in [Entities -> Handoff \cup {None}]
    BY <1>1 DEF TypeOK
<1>4. store \in Store
    <2>1. fresh # None =>
              [NoHandoffs EXCEPT ![e] = fresh] \in [Entities -> Handoff \cup {None}]
        BY <1>1 DEF NoHandoffs
    <2> QED
        BY <2>1, ReplayTypes DEF TypeOK
<1> HIDE DEF queued, store
<1>5. logged' \in Store /\ mayRecover' \in SUBSET Store /\ degraded' \in BOOLEAN
    BY <1>2, <1>4, AppendTypes DEF TypeOK
<1>6. handoffs' \in [Entities -> Handoff \cup {None}]
    BY <1>2, <1>3 DEF NoHandoffs, TypeOK
<1>7. entities' \in [Entities -> EntityState \cup {None}]
    <2>1. \A x \in Entities : HandedOff(entities[x], queued[x]) \in EntityState \cup {None}
        BY <1>3, StagedApplyTypes DEF TypeOK
    <2> QED
        BY <1>2, <2>1 DEF TypeOK
<1> QED
    BY <1>2, <1>5, <1>6, <1>7 DEF TypeOK

\* A restart from a store keeps the broker well typed.
LEMMA RecoverType ==
    ASSUME TypeOK, NEW s \in Store, Recover(s), mayRecover' \in SUBSET Store
    PROVE  TypeOK'
<1>1. NoWrites \in [Entities -> Seq(Update)]
    BY DEF NoWrites
<1>2. NoHandoffs \in [Entities -> Handoff \cup {None}] /\ <<>> \in Seq(Failover)
    BY DEF NoHandoffs
<1>3. /\ s.entities \in [Entities -> EntityState \cup {None}]
      /\ s.deleted \in SUBSET Entities /\ s.nextId \in Nat
    BY DEF Store
<1>4. [r \in Regions |-> None] \in [Regions -> Workers \cup {None}]
    OBVIOUS
<1> QED
    BY <1>1, <1>2, <1>3, <1>4 DEF Recover, TypeOK

\* Every step keeps the broker well typed.
LEMMA NextType ==
    ASSUME TypeOK, [Next]_vars
    PROVE  TypeOK'
<1>1. CASE UNCHANGED vars
    BY <1>1 DEF TypeOK, vars, staged, disk
<1>2. ASSUME Compact PROVE TypeOK'
    <2>1. Snapshot \in Store
        BY DEF Snapshot, Store, TypeOK
    <2>2. logged' \in Store /\ mayRecover' \in SUBSET Store /\ degraded' \in BOOLEAN
        BY <1>2, <2>1, AppendTypes DEF Compact
    <2> QED
        BY <1>2, <2>2 DEF Compact, TypeOK, staged
<1>3. ASSUME PowerLoss PROVE TypeOK'
    BY <1>3, RecoverType DEF PowerLoss, TypeOK
<1>4. ASSUME ProcessCrash PROVE TypeOK'
    BY <1>4, RecoverType DEF ProcessCrash, TypeOK
<1>5. CASE Next
    <2>1. ASSUME NEW w \in Workers, NEW r \in Regions,
                 Connect(w, r) \/ FailOver(r, w)
          PROVE  TypeOK'
        BY <2>1, RegionOperationsType
    <2>2. ASSUME NEW e \in Entities, NEW r \in Regions,
                 CreateEntity(e, r) \/ ReRoute(e, r)
          PROVE  TypeOK'
        BY <2>2, RegionOperationsType
    <2>3. ASSUME NEW w \in Workers, NEW e \in Entities,
                 \/ DeleteEntity(w, e)
                 \/ \E c \in Comps, v \in Values :
                       AddComponent(w, e, c, v) \/ UpdateComponent(w, e, c, v)
                 \/ \E c \in Comps : RemoveComponent(w, e, c)
                 \/ \E r \in Regions : UpdateComponent(w, e, "pos", r)
                 \/ \E to, pos \in Regions : Fold(w, e, to, pos)
          PROVE  TypeOK'
        BY <2>3, DeleteEntityType, ComponentOperationsType, FoldType
    <2>4. ASSUME NEW e \in Entities, NEW o \in Workers \cup {None},
                 SetComponentAuthority(e, o)
          PROVE  TypeOK'
        BY <2>4, SetAuthorityType
    <2>5. ASSUME ReserveEntityIds(1) PROVE TypeOK'
        BY <2>5, ReserveType
    <2> QED
        BY <1>2, <1>3, <1>4, <1>5, <2>1, <2>2, <2>3, <2>4, <2>5, FlushType
        DEF Next
<1> QED
    BY <1>1, <1>5

\* Type correctness: RAM, the staging queues, the log and every store that a
\* crash can leave hold well-formed entities, hand-offs and grants, whatever
\* the number of entities, regions and workers (ServerState).
THEOREM TypeCorrect == Spec => []TypeOK
<1>1. Init => TypeOK
    <2> SUFFICES ASSUME Init PROVE TypeOK
        OBVIOUS
    <2>1. EmptyStore \in Store
        BY DEF EmptyStore, Store
    <2>2. NoWrites \in [Entities -> Seq(Update)]
        BY DEF NoWrites
    <2>3. NoHandoffs \in [Entities -> Handoff \cup {None}] /\ <<>> \in Seq(Failover)
        BY DEF NoHandoffs
    <2>4. EmptyStore.entities \in [Entities -> EntityState \cup {None}]
        BY DEF EmptyStore
    <2> QED
        BY <2>1, <2>2, <2>3, <2>4 DEF Init, TypeOK
<1>2. TypeOK /\ [Next]_vars => TypeOK'
    BY NextType
<1> QED
    BY <1>1, <1>2, PTL DEF Spec

(***************************************************************************)
(* The broker implements the identity store, for every value of the        *)
(* constants, provided the process only dies with its machine.  A process  *)
(* that restarts over an unsynced page cache still replays RAM's ids, but  *)
(* what it serves a later power loss may take back, so the refinement does *)
(* not extend to it.                                                       *)
(*                                                                         *)
(* IdentityRecoverable is inductive, and so is its part about the whole    *)
(* log, LogIdentity.  Steps that are not a create, a delete or a restart   *)
(* keep RAM's identity and add no store of another identity to the ones a  *)
(* crash may leave; a create or delete that crosses its fsync moves both,  *)
(* one that does not fails closed and leaves exactly one undecided; a      *)
(* restart picks a store, so takes at most that one step.                  *)
(***************************************************************************)
Alike(s, t) == Live(s.entities) = Live(t.entities) /\ s.deleted = t.deleted

LogIdentity == logged \in mayRecover /\ IdentityReplayed

KeepsDisk ==
    /\ degraded => degraded'
    /\ logged' \in mayRecover' /\ Alike(logged', logged)
    /\ \A s \in mayRecover' : \E t \in mayRecover : Alike(s, t)
KeepsIdentity ==
    Live(entities') = Live(entities) /\ deleted' = deleted /\ KeepsDisk

(***************************************************************************)
(* Replay and staging leave identity alone.                                *)
(***************************************************************************)
\* An entity, a hand-off or a grant is never the absent one.
LEMMA Present == None \notin EntityState /\ None \notin Handoff /\ None \notin Grant
BY NoneAssumption

\* Replaying a component record, hand-offs or grants keeps a store's identity.
LEMMA ReplayKeeps ==
    ASSUME NEW s \in Store
    PROVE  /\ \A e \in Entities, st \in EntityState : Alike(Replayed(s, e, st), s)
           /\ \A st : \A e \in Entities : s.entities[e] = None => Replayed(s, e, st) = s
           /\ \A hs \in [Entities -> Handoff \cup {None}] : Alike(ReplayHandoffs(s, hs), s)
           /\ \A gs \in [Entities -> Grant \cup {None}] : Alike(ReplayGrants(s, gs), s)
<1>1. ASSUME NEW e \in Entities, NEW st \in EntityState
      PROVE  Alike(Replayed(s, e, st), s)
    BY Present DEF Alike, Live, Replayed, Store
<1>2. ASSUME NEW hs \in [Entities -> Handoff \cup {None}]
      PROVE  Alike(ReplayHandoffs(s, hs), s)
    <2>1. \A e \in Entities : s.entities[e] # None /\ hs[e] # None =>
              ApplyHandoff(s.entities[e], hs[e]) \in EntityState
        BY ApplyTypes DEF Store
    <2> QED
        BY <2>1, Present DEF Alike, Live, ReplayHandoffs, Store
<1>3. ASSUME NEW gs \in [Entities -> Grant \cup {None}]
      PROVE  Alike(ReplayGrants(s, gs), s)
    <2>1. \A e \in Entities : s.entities[e] # None /\ gs[e] # None =>
              ApplyGrant(s.entities[e], gs[e]) \in EntityState
        BY ApplyTypes DEF Store
    <2> QED
        BY <2>1, Present DEF Alike, Live, ReplayGrants, Store
<1> QED
    BY <1>1, <1>2, <1>3 DEF Replayed

\* Appending a record that keeps identity keeps the disk's, whether or not it
\* or its fsync fails.
LEMMA AppendKeeps ==
    ASSUME logged \in mayRecover, NEW s, Alike(s, logged),
           AppendNoSync(s) \/ AppendFails \/ AppendSync(s) \/ AppendSyncFails(s)
    PROVE  KeepsDisk
BY DEF AppendNoSync, AppendFails, AppendSync, AppendSyncFails, disk, KeepsDisk, Alike

(***************************************************************************)
(* Every step either keeps identity, creates, deletes, or restarts.        *)
(***************************************************************************)
\* A direct operation on a live entity keeps identity.
LEMMA DirectKeeps ==
    ASSUME TypeOK, LogIdentity,
           NEW e \in Entities, entities[e] # None, NEW st \in EntityState, NEW loggedSt,
           logged.entities[e] # None => loggedSt \in EntityState,
           Direct(e, st, loggedSt)
    PROVE  KeepsIdentity
<1>1. logged \in Store /\ logged \in mayRecover
    BY DEF TypeOK, LogIdentity
<1>2. Alike(Replayed(logged, e, loggedSt), logged)
    BY <1>1, ReplayKeeps DEF Alike
<1>3. KeepsDisk
    BY <1>1, <1>2, AppendKeeps DEF Direct
<1>4. Live(entities') = Live(entities)
    BY Present DEF Direct, Live, TypeOK
<1> QED
    BY <1>3, <1>4 DEF Direct, KeepsIdentity

\* Staging keeps identity: RAM is left alone and the record is not a lifecycle
\* record.
LEMMA StagingKeeps ==
    ASSUME LogIdentity, NEW s, Alike(s, logged),
           AppendNoSync(s) \/ AppendFails, UNCHANGED <<entities, deleted>>
    PROVE  KeepsIdentity
<1>1. KeepsDisk
    BY AppendKeeps DEF LogIdentity
<1> QED
    BY <1>1 DEF KeepsIdentity

\* The direct component operations keep identity.
LEMMA ComponentsKeep ==
    ASSUME TypeOK, LogIdentity, NEW w \in Workers, NEW e \in Entities
    PROVE  /\ \A c \in Comps, v \in Values : AddComponent(w, e, c, v) => KeepsIdentity
           /\ \A c \in Comps : RemoveComponent(w, e, c) => KeepsIdentity
<1>1. ASSUME NEW c \in Comps, NEW v \in Values \cup {None}, entities[e] # None
      PROVE  LET u == [comp |-> c, val |-> v, ver |-> entities[e].ver + 1] IN
             /\ ApplyWrite(entities[e], u) \in EntityState
             /\ logged.entities[e] # None =>
                   ApplyWrite(logged.entities[e], u) \in EntityState
    <2>1. entities[e].ver + 1 \in Nat /\ entities[e] \in EntityState
        BY <1>1 DEF TypeOK, EntityState
    <2>2. logged.entities[e] # None => logged.entities[e] \in EntityState
        BY DEF TypeOK, Store
    <2> QED
        BY <2>1, <2>2 DEF ApplyWrite, EntityState, Fields, Data
<1>2. ASSUME NEW c \in Comps, NEW v \in Values, AddComponent(w, e, c, v)
      PROVE  KeepsIdentity
    BY <1>1, <1>2, DirectKeeps DEF AddComponent, MayWrite
<1>3. ASSUME NEW c \in Comps, RemoveComponent(w, e, c)
      PROVE  KeepsIdentity
    BY <1>1, <1>3, DirectKeeps DEF RemoveComponent, MayWrite
<1> QED
    BY <1>2, <1>3

\* Granting a component keeps identity.
LEMMA SetAuthorityKeeps ==
    ASSUME TypeOK, LogIdentity, NEW e \in Entities,
           NEW o \in Workers \cup {None}, SetComponentAuthority(e, o)
    PROVE  KeepsIdentity
<1> DEFINE g == [ver |-> entities[e].ver + 1, owner |-> o,
                 epoch |-> entities[e].epoch + 1]
<1>1. entities[e] # None /\ entities[e] \in EntityState
    BY DEF SetComponentAuthority, TypeOK
<1>2. g \in Grant
    BY <1>1 DEF EntityState, Grant
<1>3. ApplyGrant(entities[e], g) \in EntityState
    BY <1>1, <1>2, ApplyTypes
<1>4. logged.entities[e] # None => ApplyGrant(logged.entities[e], g) \in EntityState
    BY <1>2, ApplyTypes DEF TypeOK, Store
<1>5. Direct(e, ApplyGrant(entities[e], g), ApplyGrant(logged.entities[e], g))
    BY DEF SetComponentAuthority
<1> HIDE DEF g
<1> QED
    BY <1>1, <1>3, <1>4, <1>5, DirectKeeps

\* A staged write keeps identity.
LEMMA UpdateKeeps ==
    ASSUME TypeOK, LogIdentity, NEW w \in Workers, NEW e \in Entities,
           NEW c \in Fields, NEW v, \A n \in Nat : [comp |-> c, val |-> v, ver |-> n] \in Update,
           UpdateComponent(w, e, c, v)
    PROVE  KeepsIdentity
<1> DEFINE u == [comp |-> c, val |-> v,
                 ver |-> entities[e].ver + Len(writes[e]) + 1]
<1>1. u \in Update
    <2>1. entities[e] \in EntityState /\ writes[e] \in Seq(Update)
        BY DEF UpdateComponent, MayWrite, TypeOK
    <2>2. entities[e].ver + Len(writes[e]) + 1 \in Nat
        BY <2>1 DEF EntityState
    <2> QED
        BY <2>2
<1>2. /\ \/ AppendNoSync(Replayed(logged, e, ApplyWrite(logged.entities[e], u)))
         \/ AppendFails
      /\ UNCHANGED <<entities, deleted>>
    BY DEF UpdateComponent
<1> HIDE DEF u
<1>3. logged \in Store
    BY DEF TypeOK
<1>4. logged.entities[e] # None => ApplyWrite(logged.entities[e], u) \in EntityState
    BY <1>1, <1>3, ApplyTypes DEF Store
<1>5. Alike(Replayed(logged, e, ApplyWrite(logged.entities[e], u)), logged)
    BY <1>3, <1>4, ReplayKeeps DEF Alike
<1> QED
    BY <1>2, <1>5, StagingKeeps

\* Leasing a region, re-routing an entity and failing a region over keep
\* identity.
LEMMA RegionOperationsKeep ==
    ASSUME TypeOK, LogIdentity, NEW r \in Regions
    PROVE  /\ \A w \in Workers : Connect(w, r) => KeepsIdentity
           /\ \A w \in Workers : FailOver(r, w) => KeepsIdentity
           /\ \A e \in Entities : ReRoute(e, r) => KeepsIdentity
<1>1. ASSUME NEW w \in Workers, Connect(w, r) PROVE KeepsIdentity
    <2>1. \A x \in Entities : entities[x] # None =>
              [entities[x] EXCEPT !.owner = w] \in EntityState
        BY DEF TypeOK, EntityState
    <2>2. Live(entities') = Live(entities)
        BY <1>1, <2>1, Present DEF Connect, Live
    <2>3. KeepsDisk
        BY <1>1 DEF Connect, disk, KeepsDisk, Alike, LogIdentity
    <2> QED
        BY <1>1, <2>2, <2>3 DEF Connect, KeepsIdentity
<1>2. ASSUME NEW w \in Workers, FailOver(r, w) PROVE KeepsIdentity
    <2> DEFINE old == regionWorker[r]
               grants == [x \in Entities |->
                   IF entities[x] = None THEN None
                   ELSE IF entities[x].region = r /\ Moves(entities[x], old)
                   THEN [ver |-> entities[x].ver + 1, owner |-> w,
                         epoch |-> entities[x].epoch + 1]
                   ELSE None]
    <2>1. \A x \in Entities : entities[x] # None =>
              [ver |-> entities[x].ver + 1, owner |-> w,
               epoch |-> entities[x].epoch + 1] \in Grant
        BY DEF TypeOK, EntityState, Grant
    <2>2. grants \in [Entities -> Grant \cup {None}]
        BY <2>1
    <2>3. /\ AppendNoSync(ReplayGrants(logged, grants)) \/ AppendFails
          /\ UNCHANGED <<entities, deleted>>
        BY <1>2 DEF FailOver
    <2> HIDE DEF grants
    <2>4. Alike(ReplayGrants(logged, grants), logged)
        BY <2>2, ReplayKeeps DEF TypeOK
    <2> QED
        BY <2>3, <2>4, StagingKeeps
<1>3. ASSUME NEW e \in Entities, ReRoute(e, r) PROVE KeepsIdentity
    <2> DEFINE h == PrepareHandoff(entities[e], r, entities[e].val["pos"])
    <2>1. entities[e] \in EntityState
        BY <1>3 DEF ReRoute, TypeOK
    <2>2. entities[e].val["pos"] \in Data
        BY <2>1 DEF EntityState, Fields
    <2>3. h \in Handoff
        BY <2>1, <2>2, PrepareType
    <2>4. /\ \/ AppendNoSync(ReplayHandoffs(logged, [NoHandoffs EXCEPT ![e] = h]))
             \/ AppendFails
          /\ UNCHANGED <<entities, deleted>>
        BY <1>3 DEF ReRoute
    <2> HIDE DEF h
    <2>5. [NoHandoffs EXCEPT ![e] = h] \in [Entities -> Handoff \cup {None}]
        BY <2>3 DEF NoHandoffs
    <2>6. Alike(ReplayHandoffs(logged, [NoHandoffs EXCEPT ![e] = h]), logged)
        BY <2>5, ReplayKeeps DEF TypeOK
    <2> QED
        BY <2>4, <2>6, StagingKeeps
<1> QED
    BY <1>1, <1>2, <1>3

\* Reserving ids keeps identity.
LEMMA ReserveKeeps ==
    ASSUME TypeOK, LogIdentity, ReserveEntityIds(1)
    PROVE  KeepsIdentity
<1> DEFINE store == [logged EXCEPT !.nextId =
                        IF nextId + 1 > @ THEN nextId + 1 ELSE @]
<1>1. AppendSync(store) \/ AppendSyncFails(store)
    BY DEF ReserveEntityIds
<1>2. Alike(store, logged)
    BY DEF Alike, TypeOK, Store
<1> HIDE DEF store
<1>3. KeepsDisk
    BY <1>1, <1>2, AppendKeeps DEF LogIdentity
<1> QED
    BY <1>3 DEF ReserveEntityIds, KeepsIdentity

\* The application of staged transitions creates and removes no entity.
LEMMA ApplyingKeepsLive ==
    ASSUME TypeOK, NEW e \in Entities
    PROVE  /\ Updated(e) = None <=> entities[e] = None
           /\ \A st \in EntityState \cup {None}, h \in Handoff \cup {None} :
                 HandedOff(st, h) = None <=> st = None
           /\ \A st \in EntityState \cup {None} : Granted(st, e) = None <=> st = None
BY UpdatedType, StagedApplyTypes, Present

\* The durability tick keeps identity.
LEMMA FlushKeeps ==
    ASSUME TypeOK, LogIdentity, Flush
    PROVE  KeepsIdentity
<1>1. ASSUME FlushFails PROVE KeepsIdentity
    BY <1>1 DEF FlushFails, KeepsIdentity, KeepsDisk, LogIdentity, Alike, disk
<1>2. ASSUME NEW S \in SUBSET Movers, NEW h \in BOOLEAN, NEW f \in BOOLEAN,
             FlushApplies(S, h, f)
      PROVE  KeepsIdentity
    <2> DEFINE queued == Queued(S)
               of(T) == [e \in Entities |-> IF e \in T THEN queued[e] ELSE None]
    <2>1. queued \in [Entities -> Handoff \cup {None}]
        BY QueuedType
    <2>2. ASSUME NEW T PROVE Alike(ReplayHandoffs(logged, of(T)), logged)
        <3>1. of(T) \in [Entities -> Handoff \cup {None}]
            BY <2>1
        <3> QED
            BY <3>1, ReplayKeeps DEF TypeOK
    <2>3. logged' = ReplayHandoffs(logged, of(S)) /\ (degraded => degraded')
        BY <1>2 DEF FlushApplies
    <2>4. \/ mayRecover' = {ReplayHandoffs(logged, of(S))}
          \/ mayRecover' = {ReplayHandoffs(logged, of(T)) : T \in SUBSET S}
          \/ mayRecover' = mayRecover /\ S = {}
        <3>1. writes = NoWrites => S = {}
            BY DEF NoWrites, Movers, Crossings, WritesOn
        <3> QED
            BY <1>2, <3>1, Zenon DEF FlushApplies
    <2>5. S = {} => ReplayHandoffs(logged, of(S)) = logged
        <3> SUFFICES ASSUME S = {} PROVE ReplayHandoffs(logged, of(S)) = logged
            OBVIOUS
        <3>1. \A e \in Entities : of(S)[e] = None
            OBVIOUS
        <3> HIDE DEF of
        <3>2. logged \in Store
            BY DEF TypeOK
        <3>3. [e \in Entities |-> IF logged.entities[e] = None \/ of(S)[e] = None
                THEN logged.entities[e] ELSE ApplyHandoff(logged.entities[e], of(S)[e])]
              = logged.entities
            BY <3>1, <3>2 DEF Store
        <3>4. [logged EXCEPT !.entities = logged.entities] = logged
            BY <3>2 DEF Store
        <3> QED
            BY <3>3, <3>4, Zenon DEF ReplayHandoffs
    <2> HIDE DEF of
    <2>6. logged' \in mayRecover'
        BY <2>3, <2>4, <2>5 DEF LogIdentity
    <2>7. KeepsDisk
        BY <2>2, <2>3, <2>4, <2>6 DEF KeepsDisk, LogIdentity, Alike
    <2>8. Live(entities') = Live(entities)
        <3> DEFINE st(e) == IF h THEN HandedOff(Updated(e), queued[e]) ELSE Updated(e)
        <3>1. ASSUME NEW e \in Entities
              PROVE  /\ st(e) = None <=> entities[e] = None
                     /\ Granted(st(e), e) = None <=> entities[e] = None
            <4>1. Updated(e) \in EntityState \cup {None}
                BY UpdatedType
            <4>2. st(e) \in EntityState \cup {None}
                BY <2>1, <4>1, StagedApplyTypes
            <4>3. st(e) = None <=> entities[e] = None
                BY <2>1, <4>1, ApplyingKeepsLive
            <4> QED
                BY <4>2, <4>3, ApplyingKeepsLive
        <3>2. entities' = [e \in Entities |-> IF f THEN Granted(st(e), e) ELSE st(e)]
            BY <1>2 DEF FlushApplies
        <3> HIDE DEF st
        <3> QED
            BY <3>1, <3>2 DEF Live
    <2> QED
        BY <1>2, <2>7, <2>8 DEF FlushApplies, KeepsIdentity
<1> QED
    BY <1>1, <1>2 DEF Flush

\* A portal fold keeps identity.
LEMMA FoldKeeps ==
    ASSUME TypeOK, LogIdentity, NEW w \in Workers, NEW e \in Entities,
           NEW to \in Regions, NEW pos \in Regions, Fold(w, e, to, pos)
    PROVE  KeepsIdentity
<1> DEFINE fresh == IF handoffs[e] = None THEN PrepareHandoff(entities[e], to, pos)
                                          ELSE None
           queued == IF fresh = None THEN handoffs ELSE [handoffs EXCEPT ![e] = fresh]
           store == IF fresh = None THEN logged
                    ELSE ReplayHandoffs(logged, [NoHandoffs EXCEPT ![e] = fresh])
<1>1. fresh \in Handoff \cup {None}
    <2>1. entities[e] \in EntityState
        BY DEF Fold, TypeOK
    <2>2. PrepareHandoff(entities[e], to, pos) \in Handoff
        BY <2>1, PrepareType DEF Data
    <2> QED
        BY <2>2
<1>2. /\ \/ /\ AppendSync(store)
            /\ entities' = [x \in Entities |-> HandedOff(entities[x], queued[x])]
            /\ handoffs' = NoHandoffs
         \/ /\ logged' = store /\ mayRecover' = mayRecover \cup {store}
            /\ degraded' = TRUE /\ handoffs' = queued /\ UNCHANGED entities
         \/ fresh # None /\ AppendFails /\ UNCHANGED <<entities, handoffs>>
      /\ UNCHANGED <<deleted, nextId, regionWorker, writes, failovers>>
    BY Zenon DEF Fold
<1> HIDE DEF fresh
<1>3. queued \in [Entities -> Handoff \cup {None}]
    BY <1>1 DEF TypeOK
<1>4. Alike(store, logged)
    <2>1. fresh # None =>
              [NoHandoffs EXCEPT ![e] = fresh] \in [Entities -> Handoff \cup {None}]
        BY <1>1 DEF NoHandoffs
    <2> QED
        BY <2>1, ReplayKeeps DEF TypeOK, Alike
<1> HIDE DEF queued, store
<1>5. KeepsDisk
    <2>1. CASE AppendSync(store) \/ AppendFails
        BY <1>4, <2>1, AppendKeeps DEF LogIdentity
    <2>2. CASE /\ logged' = store /\ mayRecover' = mayRecover \cup {store}
               /\ degraded' = TRUE
        BY <1>4, <2>2 DEF KeepsDisk, LogIdentity, Alike
    <2> QED
        BY <1>2, <2>1, <2>2
<1>6. Live(entities') = Live(entities)
    <2>1. \A x \in Entities : HandedOff(entities[x], queued[x]) = None <=> entities[x] = None
        BY <1>3, ApplyingKeepsLive DEF TypeOK
    <2> QED
        BY <1>2, <2>1 DEF Live
<1> QED
    BY <1>2, <1>5, <1>6 DEF KeepsIdentity

\* Compaction keeps identity.
LEMMA CompactKeeps ==
    ASSUME LogIdentity, Compact
    PROVE  KeepsIdentity
<1>1. Alike(Snapshot, logged)
    BY DEF Compact, LogIdentity, IdentityReplayed, SameIdentity, Snapshot, Alike
<1>2. KeepsDisk
    BY <1>1, AppendKeeps DEF Compact, LogIdentity
<1> QED
    BY <1>2 DEF Compact, KeepsIdentity

(***************************************************************************)
(* The inductive steps.                                                    *)
(***************************************************************************)
\* The whole log is one of the stores a crash may leave.
LEMMA RecoverableIsReplayed == IdentityRecoverable => LogIdentity
BY DEF IdentityRecoverable, LogIdentity, IdentityReplayed

\* A step that keeps identity preserves what the whole log replays to.
LEMMA KeepsLog ==
    ASSUME LogIdentity, KeepsIdentity
    PROVE  LogIdentity'
<1>1. Live(entities)' = Live(entities) /\ deleted' = deleted
    BY DEF KeepsIdentity, Live
<1>2. Live(logged.entities)' = Live(logged.entities) /\ logged'.deleted = logged.deleted
    BY DEF KeepsIdentity, KeepsDisk, Alike, Live
<1>3. CASE SameIdentity(logged)
    BY <1>1, <1>2, <1>3 DEF SameIdentity, LogIdentity, IdentityReplayed, KeepsIdentity,
        KeepsDisk, Live
<1>4. CASE degraded /\ OneAhead(logged)
    BY <1>1, <1>2, <1>4 DEF OneAhead, LogIdentity, IdentityReplayed, KeepsIdentity,
        KeepsDisk, Live
<1> QED
    BY <1>3, <1>4 DEF LogIdentity, IdentityReplayed

\* A step that keeps identity preserves the invariant and is a stuttering step
\* of the identity store.
LEMMA KeepsIsStutter ==
    ASSUME IdentityRecoverable, KeepsIdentity
    PROVE  IdentityRecoverable' /\ UNCHANGED Identity!vars
<1>1. Live(entities)' = Live(entities) /\ deleted' = deleted
    BY DEF KeepsIdentity, Live
<1>2. ASSUME NEW s \in mayRecover'
      PROVE  (SameIdentity(s) \/ (degraded /\ OneAhead(s)))'
    <2>1. PICK t \in mayRecover : Alike(s, t)
        BY DEF KeepsIdentity, KeepsDisk
    <2>2. CASE SameIdentity(t)
        BY <1>1, <2>1, <2>2 DEF SameIdentity, Alike, Live
    <2>3. CASE degraded /\ OneAhead(t)
        BY <1>1, <2>1, <2>3 DEF OneAhead, Alike, Live, KeepsIdentity, KeepsDisk
    <2> QED
        BY <2>2, <2>3 DEF IdentityRecoverable
<1> QED
    BY <1>1, <1>2 DEF IdentityRecoverable, KeepsIdentity, KeepsDisk, Identity!vars

\* A new entity is an entity.
LEMMA NewEntityType == \A r \in Regions : NewEntity(r) \in EntityState
<1> SUFFICES ASSUME NEW r \in Regions PROVE NewEntity(r) \in EntityState
    OBVIOUS
<1> DEFINE val == [f \in Fields |-> IF f = "pos" THEN r ELSE None]
<1>1. val \in [Fields -> Data]
    BY DEF Data
<1> HIDE DEF val
<1>2. [region |-> r, val |-> val, owner |-> None, epoch |-> 1, ver |-> 1] \in EntityState
    BY <1>1 DEF EntityState
<1> QED
    BY <1>2, Zenon DEF NewEntity, val

\* Creating an entity creates its id, or fails closed with one undecided.
LEMMA CreateIsCreate ==
    ASSUME TypeOK, IdentityRecoverable, NEW e \in Entities, NEW r \in Regions,
           CreateEntity(e, r)
    PROVE  IdentityRecoverable' /\ [Identity!Next]_(Identity!vars)
<1> DEFINE st == NewEntity(r)
           store == ReplayRegister(logged, e, st)
<1>1. st \in EntityState
    BY NewEntityType
<1>2. st # None /\ [st EXCEPT !.owner = regionWorker[r]] # None
    BY <1>1, Present DEF EntityState, TypeOK
<1> HIDE DEF st
<1>3. ~degraded /\ e \notin deleted /\ e \notin Live(entities)
    BY DEF CreateEntity, Live
<1>4. Live(store.entities) = Live(entities) \cup {e} /\ store.deleted = deleted
    <2>1. SameIdentity(logged) /\ logged \in Store
        BY <1>3 DEF IdentityRecoverable, TypeOK
    <2> QED
        BY <1>2, <1>3, <2>1 DEF SameIdentity, ReplayRegister, Store, Live
<1> HIDE DEF store
<1>5. CASE /\ AppendSync(store) /\ deleted' = deleted
           /\ entities' = [entities EXCEPT ![e] = [st EXCEPT !.owner = regionWorker[r]]]
    <2>1. Live(entities)' = Live(entities) \cup {e}
        BY <1>2, <1>5 DEF Live, TypeOK
    <2>2. IdentityRecoverable'
        BY <1>4, <1>5, <2>1 DEF AppendSync, IdentityRecoverable, SameIdentity, Live
    <2>3. Identity!Next
        BY <1>3, <1>5, <2>1 DEF Identity!Next, Identity!Create
    <2> QED
        BY <2>2, <2>3
<1>6. CASE AppendSyncFails(store) /\ UNCHANGED <<entities, deleted>>
    <2>1. UNCHANGED Identity!vars
        BY <1>6 DEF Identity!vars, Live
    <2>2. OneAhead(store)
        BY <1>3, <1>4 DEF OneAhead
    <2>3. \A s \in mayRecover : SameIdentity(s)
        BY <1>3 DEF IdentityRecoverable
    <2>4. IdentityRecoverable'
        BY <1>6, <2>2, <2>3 DEF AppendSyncFails, disk, IdentityRecoverable,
            SameIdentity, OneAhead, Live
    <2> QED
        BY <2>1, <2>4
<1> QED
    BY <1>5, <1>6 DEF CreateEntity, st, store

\* Deleting an entity deletes its id, or fails closed with one undecided.
LEMMA DeleteIsDelete ==
    ASSUME TypeOK, IdentityRecoverable, NEW w \in Workers, NEW e \in Entities,
           DeleteEntity(w, e)
    PROVE  IdentityRecoverable' /\ [Identity!Next]_(Identity!vars)
<1> DEFINE store == ReplayTombstone(logged, e)
<1>1. ~degraded /\ e \in Live(entities)
    BY DEF DeleteEntity, Live
<1>2. Live(store.entities) = Live(entities) \ {e} /\ store.deleted = deleted \cup {e}
    <2>1. SameIdentity(logged) /\ logged \in Store
        BY <1>1 DEF IdentityRecoverable, TypeOK
    <2> QED
        BY <2>1 DEF SameIdentity, ReplayTombstone, Store, Live
<1> HIDE DEF store
<1>3. CASE /\ AppendSync(store) /\ deleted' = deleted \cup {e}
           /\ entities' = [entities EXCEPT ![e] = None]
    <2>1. Live(entities)' = Live(entities) \ {e}
        BY <1>3 DEF Live, TypeOK
    <2>2. IdentityRecoverable'
        BY <1>2, <1>3, <2>1 DEF AppendSync, IdentityRecoverable, SameIdentity, Live
    <2>3. Identity!Next
        BY <1>1, <1>3, <2>1 DEF Identity!Next, Identity!Delete
    <2> QED
        BY <2>2, <2>3
<1>4. CASE AppendSyncFails(store) /\ UNCHANGED <<entities, deleted>>
    <2>1. UNCHANGED Identity!vars
        BY <1>4 DEF Identity!vars, Live
    <2>2. OneAhead(store)
        BY <1>1, <1>2 DEF OneAhead
    <2>3. \A s \in mayRecover : SameIdentity(s)
        BY <1>1 DEF IdentityRecoverable
    <2>4. IdentityRecoverable'
        BY <1>4, <2>2, <2>3 DEF AppendSyncFails, disk, IdentityRecoverable,
            SameIdentity, OneAhead, Live
    <2> QED
        BY <2>1, <2>4
<1> QED
    BY <1>3, <1>4 DEF DeleteEntity, store

\* A power loss settles what was undecided.
LEMMA PowerLossSettles ==
    ASSUME IdentityRecoverable, PowerLoss
    PROVE  IdentityRecoverable' /\ [Identity!Next]_(Identity!vars)
<1>1. PICK s \in mayRecover : Recover(s) /\ mayRecover' = {s}
    BY DEF PowerLoss
<1>2. IdentityRecoverable'
    BY <1>1 DEF Recover, IdentityRecoverable, SameIdentity
<1>3. Live(entities)' = Live(s.entities) /\ deleted' = s.deleted
    BY <1>1 DEF Recover, Live
<1>4. CASE SameIdentity(s)
    BY <1>2, <1>3, <1>4 DEF SameIdentity, Identity!vars
<1>5. CASE OneAhead(s)
    BY <1>2, <1>3, <1>5 DEF OneAhead, Identity!Next, Identity!Create, Identity!Delete
<1> QED
    BY <1>4, <1>5 DEF IdentityRecoverable

\* Every step keeps identity, or it creates, deletes or restarts.
LEMMA StepKinds ==
    ASSUME TypeOK, LogIdentity, [Next]_vars
    PROVE  \/ KeepsIdentity
           \/ \E e \in Entities, r \in Regions : CreateEntity(e, r)
           \/ \E w \in Workers, e \in Entities : DeleteEntity(w, e)
           \/ PowerLoss
           \/ ProcessCrash
<1>1. CASE UNCHANGED vars
    BY <1>1 DEF vars, staged, disk, KeepsIdentity, KeepsDisk, Alike, LogIdentity
<1>2. ASSUME NEW w \in Workers, NEW r \in Regions, Connect(w, r) \/ FailOver(r, w)
      PROVE  KeepsIdentity
    BY <1>2, RegionOperationsKeep
<1>3. ASSUME NEW e \in Entities, NEW r \in Regions, ReRoute(e, r)
      PROVE  KeepsIdentity
    BY <1>3, RegionOperationsKeep
<1>4. ASSUME NEW w \in Workers, NEW e \in Entities,
             \/ \E c \in Comps, v \in Values :
                   AddComponent(w, e, c, v) \/ UpdateComponent(w, e, c, v)
             \/ \E c \in Comps : RemoveComponent(w, e, c)
             \/ \E r \in Regions : UpdateComponent(w, e, "pos", r)
             \/ \E to, pos \in Regions : Fold(w, e, to, pos)
      PROVE  KeepsIdentity
    <2>1. ASSUME NEW c \in Comps, NEW v \in Values, UpdateComponent(w, e, c, v)
          PROVE  KeepsIdentity
        <3>1. c \in Fields /\ \A n \in Nat : [comp |-> c, val |-> v, ver |-> n] \in Update
            BY DEF Fields, Update
        <3> QED
            BY <2>1, <3>1, UpdateKeeps
    <2>2. ASSUME NEW r \in Regions, UpdateComponent(w, e, "pos", r)
          PROVE  KeepsIdentity
        <3>1. /\ "pos" \in Fields
              /\ \A n \in Nat : [comp |-> "pos", val |-> r, ver |-> n] \in Update
            BY DEF Fields, Update
        <3> QED
            BY <2>2, <3>1, UpdateKeeps
    <2> QED
        BY <1>4, <2>1, <2>2, ComponentsKeep, FoldKeeps
<1>5. ASSUME NEW e \in Entities, NEW o \in Workers \cup {None}, SetComponentAuthority(e, o)
      PROVE  KeepsIdentity
    BY <1>5, SetAuthorityKeeps
<1>6. ReserveEntityIds(1) \/ Flush \/ Compact => KeepsIdentity
    BY ReserveKeeps, FlushKeeps, CompactKeeps
<1>7. CASE Next
    BY <1>2, <1>3, <1>4, <1>5, <1>6, <1>7 DEF Next
<1> QED
    BY <1>1, <1>7

\* Every step preserves the invariant and is a step of the identity store.
LEMMA StepIsIdentityStep ==
    ASSUME TypeOK, IdentityRecoverable, [Next]_vars, ~ProcessCrashes
    PROVE  IdentityRecoverable' /\ [Identity!Next]_(Identity!vars)
<1> DEFINE Good == IdentityRecoverable' /\ [Identity!Next]_(Identity!vars)
<1>1. ASSUME KeepsIdentity PROVE Good
    BY <1>1, KeepsIsStutter
<1>2. ASSUME NEW e \in Entities, NEW r \in Regions, CreateEntity(e, r) PROVE Good
    BY <1>2, CreateIsCreate
<1>3. ASSUME NEW w \in Workers, NEW e \in Entities, DeleteEntity(w, e) PROVE Good
    BY <1>3, DeleteIsDelete
<1>4. ASSUME PowerLoss PROVE Good
    BY <1>4, PowerLossSettles
<1>5. ~ProcessCrash
    BY DEF ProcessCrash
<1> SUFFICES Good
    OBVIOUS
<1> HIDE DEF Good
<1> QED
    BY <1>1, <1>2, <1>3, <1>4, <1>5, StepKinds, RecoverableIsReplayed

(***************************************************************************)
(* The same for the whole log alone, which a restarting process reads.     *)
(***************************************************************************)
\* Creating an entity moves RAM and the log alike, or fails closed with the
\* log at most that one id ahead.
LEMMA CreateKeepsLog ==
    ASSUME TypeOK, LogIdentity, NEW e \in Entities, NEW r \in Regions, CreateEntity(e, r)
    PROVE  LogIdentity'
<1> DEFINE st == NewEntity(r)
           store == ReplayRegister(logged, e, st)
<1>1. st \in EntityState
    BY NewEntityType
<1>2. st # None /\ [st EXCEPT !.owner = regionWorker[r]] # None
    BY <1>1, Present DEF EntityState, TypeOK
<1> HIDE DEF st
<1>3. ~degraded /\ e \notin deleted /\ e \notin Live(entities)
    BY DEF CreateEntity, Live
<1>4. SameIdentity(logged) /\ logged \in Store
    BY <1>3 DEF LogIdentity, IdentityReplayed, TypeOK
<1>5. Live(store.entities) = Live(entities) \cup {e} /\ store.deleted = deleted
    BY <1>2, <1>3, <1>4 DEF SameIdentity, ReplayRegister, Store, Live
<1> HIDE DEF store
<1>6. CASE /\ AppendSync(store) /\ deleted' = deleted
           /\ entities' = [entities EXCEPT ![e] = [st EXCEPT !.owner = regionWorker[r]]]
    <2>1. Live(entities)' = Live(entities) \cup {e}
        BY <1>2, <1>6 DEF Live, TypeOK
    <2> QED
        BY <1>5, <1>6, <2>1 DEF AppendSync, LogIdentity, IdentityReplayed, SameIdentity, Live
<1>7. CASE AppendSyncFails(store) /\ UNCHANGED <<entities, deleted>>
    <2>1. OneAhead(store)
        BY <1>3, <1>5 DEF OneAhead
    <2> QED
        BY <1>4, <1>7, <2>1 DEF AppendSyncFails, disk, LogIdentity, IdentityReplayed,
            SameIdentity, OneAhead, Live
<1> QED
    BY <1>6, <1>7 DEF CreateEntity, st, store

\* So does deleting one.
LEMMA DeleteKeepsLog ==
    ASSUME TypeOK, LogIdentity, NEW w \in Workers, NEW e \in Entities, DeleteEntity(w, e)
    PROVE  LogIdentity'
<1> DEFINE store == ReplayTombstone(logged, e)
<1>1. ~degraded /\ e \in Live(entities)
    BY DEF DeleteEntity, Live
<1>2. SameIdentity(logged) /\ logged \in Store
    BY <1>1 DEF LogIdentity, IdentityReplayed, TypeOK
<1>3. Live(store.entities) = Live(entities) \ {e} /\ store.deleted = deleted \cup {e}
    BY <1>2 DEF SameIdentity, ReplayTombstone, Store, Live
<1> HIDE DEF store
<1>4. CASE /\ AppendSync(store) /\ deleted' = deleted \cup {e}
           /\ entities' = [entities EXCEPT ![e] = None]
    <2>1. Live(entities)' = Live(entities) \ {e}
        BY <1>4 DEF Live, TypeOK
    <2> QED
        BY <1>3, <1>4, <2>1 DEF AppendSync, LogIdentity, IdentityReplayed, SameIdentity, Live
<1>5. CASE AppendSyncFails(store) /\ UNCHANGED <<entities, deleted>>
    <2>1. OneAhead(store)
        BY <1>1, <1>3 DEF OneAhead
    <2> QED
        BY <1>2, <1>5, <2>1 DEF AppendSyncFails, disk, LogIdentity, IdentityReplayed,
            SameIdentity, OneAhead, Live
<1> QED
    BY <1>4, <1>5 DEF DeleteEntity, store

\* A restart serves the store it replayed, and keeps it as the log: a machine's
\* picks one a crash left, a process's the whole file.
LEMMA RestartKeepsLog ==
    ASSUME LogIdentity, PowerLoss \/ ProcessCrash
    PROVE  LogIdentity'
<1>1. PICK s : Recover(s) /\ s \in mayRecover'
    BY DEF PowerLoss, ProcessCrash, LogIdentity
<1> QED
    BY <1>1 DEF Recover, LogIdentity, IdentityReplayed, SameIdentity

(***************************************************************************)
(* The theorems.                                                           *)
(***************************************************************************)
\* Under power losses, failed writes and failed fsyncs at any point, the
\* surviving log has RAM's ids, or, when the broker has failed closed, is at
\* most one refused create or delete ahead.
THEOREM IdentityIsRecoverable ==
    ASSUME ~ProcessCrashes
    PROVE  Spec => []IdentityRecoverable
<1>1. Init => IdentityRecoverable
    BY DEF Init, EmptyStore, IdentityRecoverable, SameIdentity
<1>2. TypeOK /\ IdentityRecoverable /\ [Next]_vars => IdentityRecoverable'
    <2> SUFFICES ASSUME TypeOK, IdentityRecoverable, [Next]_vars
                 PROVE  IdentityRecoverable'
        OBVIOUS
    <2> QED
        BY StepIsIdentityStep, Zenon
<1> QED
    BY <1>1, <1>2, TypeCorrect, PTL DEF Spec

\* A process that restarts over everything its predecessor wrote, fsynced or
\* not, comes back with RAM's ids, or at most one refused create or delete
\* ahead: also when processes die with the machine still up.
THEOREM IdentityIsReplayed == Spec => []IdentityReplayed
<1>1. Init => LogIdentity
    BY DEF Init, EmptyStore, LogIdentity, IdentityReplayed, SameIdentity
<1>2. TypeOK /\ LogIdentity /\ [Next]_vars => LogIdentity'
    <2> SUFFICES ASSUME TypeOK, LogIdentity, [Next]_vars
                 PROVE  LogIdentity'
        OBVIOUS
    <2> QED
        BY StepKinds, KeepsLog, CreateKeepsLog, DeleteKeepsLog, RestartKeepsLog, Zenon
<1>3. LogIdentity => IdentityReplayed
    BY DEF LogIdentity
<1> QED
    BY <1>1, <1>2, <1>3, TypeCorrect, PTL DEF Spec

\* The broker implements the identity store: ids are only ever created and
\* deleted, deleted ones stay so, and no flush, compaction, failure or restart
\* is visible in them.
THEOREM IdentityRefinement ==
    ASSUME ~ProcessCrashes
    PROVE  Spec => ImplementsIdentityStore
<1>1. Init => Identity!Init
    BY DEF Init, EmptyStore, Live, Identity!Init
<1>2. TypeOK /\ IdentityRecoverable /\ [Next]_vars => [Identity!Next]_(Identity!vars)
    <2> SUFFICES ASSUME TypeOK, IdentityRecoverable, [Next]_vars
                 PROVE  [Identity!Next]_(Identity!vars)
        OBVIOUS
    <2> QED
        BY StepIsIdentityStep, Zenon
<1> QED
    BY <1>1, <1>2, TypeCorrect, IdentityIsRecoverable, PTL
    DEF Spec, ImplementsIdentityStore, Identity!Spec

(***************************************************************************)
(* What the broker shows, what a crash leaves and what the log replays to, *)
(* on the settled schedules, for every value of the constants, provided    *)
(* the process only dies with its machine.                                 *)
(*                                                                         *)
(* The invariant says of an entity what its staged transition will make of *)
(* it (Promised): at most one transition is staged, RAM is not ahead of    *)
(* any store a crash may leave, the whole log is not behind what is        *)
(* promised, and, unless a barrier has failed, it is exactly that.  A      *)
(* flush makes RAM what was promised; a failed one drops the promise and   *)
(* leaves its lines in the log, which only take the log further ahead.     *)
(***************************************************************************)

\* a is of b's version and authority epoch, or of later ones.
AsLate(a, b) == a.ver >= b.ver /\ a.epoch >= b.epoch

IsStaged(e) == writes[e] # <<>> \/ handoffs[e] # None \/ Grants(e) # {}
AtMostOne(e) ==
    /\ writes[e] # <<>> => handoffs[e] = None /\ Grants(e) = {}
    /\ handoffs[e] # None => Grants(e) = {}
    /\ \A i, j \in Grants(e) : i = j

\* What a flush makes of e out of the transition staged for it.
Promised(e) == Granted(HandedOff(Updated(e), handoffs[e]), e)

StagedIsLive(e) == IsStaged(e) => entities[e] # None
Covered(e) ==
    entities[e] # None =>
        /\ AsLate(Promised(e), entities[e])
        /\ \A s \in mayRecover :
              s.entities[e] # None => AsLate(s.entities[e], entities[e])
        /\ logged.entities[e] # None => AsLate(logged.entities[e], Promised(e))
        /\ ~degraded => Core(logged.entities[e]) = Core(Promised(e))

ReplayInv ==
    \A e \in Entities :
        AtMostOne(e) /\ ~WritesPastCrossing(e) /\ StagedIsLive(e) /\ Covered(e)

(***************************************************************************)
(* What a serial step gives for one entity, and what is to be shown of it. *)
(***************************************************************************)
SameStaged(e) ==
    writes'[e] = writes[e] /\ handoffs'[e] = handoffs[e] /\ Grants(e)' = Grants(e)
SerialAt(e) ==
    /\ AtMostOne(e)'
    /\ IsStaged(e) /\ SameStaged(e) =>
          logged'.entities[e] = logged.entities[e] /\ entities'[e] = entities[e]
StepAt(e) ==
    /\ TypeOK /\ IdentityRecoverable /\ ReplayInv
    /\ TypeOK' /\ IdentityRecoverable' /\ SerialAt(e)

Forward(e) ==
    entities[e] # None /\ entities'[e] # None => AsLate(entities'[e], entities[e])
Good(e) == StagedIsLive(e)' /\ Covered(e)' /\ Forward(e)

\* Nothing is logged about e.
SameLog(e) ==
    /\ logged'.entities[e] = logged.entities[e]
    /\ degraded => degraded'
    /\ \A s \in mayRecover' : \E t \in mayRecover : s.entities[e] = t.entities[e]

(***************************************************************************)
(* Staged transitions.                                                     *)
(***************************************************************************)
\* A finite set of indexes and how many it has.
LEMMA FewIndexes ==
    ASSUME NEW n \in Nat, NEW S \in SUBSET (1 .. n)
    PROVE  /\ Cardinality(S) \in Nat
           /\ Cardinality(S) = 0 <=> S = {}
           /\ Cardinality(S) = 1 => \A i, j \in S : i = j
<1>1. IsFiniteSet(S)
    <2>1. IsFiniteSet(1 .. n)
        BY FS_Interval
    <2> QED
        BY <2>1, FS_Subset
<1>2. Cardinality(S) \in Nat
    BY <1>1, FS_CardinalityType
<1>3. Cardinality(S) = 0 <=> S = {}
    BY <1>1, FS_EmptySet
<1>4. Cardinality(S) = 1 => \E x : S = {x}
    BY <1>1, FS_Singleton
<1> QED
    BY <1>2, <1>3, <1>4

\* The failovers that grant e.
GrantsTyped(e) ==
    /\ Len(failovers) \in Nat /\ Grants(e) \in SUBSET (1 .. Len(failovers))
    /\ \A i \in Grants(e) : failovers[i].grants[e] \in Grant
LEMMA GrantsType == \A e \in Entities : TypeOK => GrantsTyped(e)
<1> SUFFICES ASSUME NEW e \in Entities, TypeOK PROVE GrantsTyped(e)
    OBVIOUS
<1>1. failovers \in Seq(Failover)
    BY DEF TypeOK
<1>2. Grants(e) \subseteq 1 .. Len(failovers) /\ Len(failovers) \in Nat
    BY <1>1 DEF Grants
<1>3. \A i \in Grants(e) : failovers[i].grants[e] \in Grant
    <2> SUFFICES ASSUME NEW i \in Grants(e) PROVE failovers[i].grants[e] \in Grant
        OBVIOUS
    <2>1. failovers[i] \in Failover /\ failovers[i].grants[e] # None
        BY <1>1 DEF Grants
    <2> QED
        BY <2>1 DEF Failover
<1> QED
    BY <1>2, <1>3 DEF GrantsTyped

\* The same after a step.
LEMMA GrantsTypeAfter == \A e \in Entities : TypeOK' => GrantsTyped(e)'
<1>1. (\A e \in Entities : TypeOK => GrantsTyped(e))'
    BY GrantsType, PTL
<1> QED
    BY <1>1

\* A count of three kinds of transitions, and whether there are any.
LEMMA Counting ==
    ASSUME NEW w \in BOOLEAN, NEW h \in BOOLEAN, NEW n \in Nat
    PROVE  LET all == (IF w THEN 1 ELSE 0) + (IF h THEN 1 ELSE 0) + n IN
           /\ w \/ h \/ n # 0 => all > 0
           /\ ~(all > 1) => (w => ~h /\ n = 0) /\ (h => n = 0) /\ (n = 0 \/ n = 1)
OBVIOUS

\* A step that does not overlap transitions of e is serial at e.
LEMMA SerialSteps ==
    ASSUME TypeOK, TypeOK', NEW e \in Entities, ~Overlaps(e)
    PROVE  SerialAt(e)
<1> DEFINE G == Grants(e)'
<1>1. AtMostOne(e)'
    <2>1. GrantsTyped(e)'
        BY GrantsTypeAfter
    <2>2. /\ Cardinality(G) \in Nat /\ (Cardinality(G) = 0 <=> G = {})
          /\ Cardinality(G) = 1 => \A i, j \in G : i = j
        <3>1. Len(failovers') \in Nat /\ G \in SUBSET (1 .. Len(failovers'))
            BY <2>1 DEF GrantsTyped
        <3> HIDE DEF G
        <3> QED
            BY <3>1, FewIndexes
    <2>3. ~((IF writes'[e] # <<>> THEN 1 ELSE 0) + (IF handoffs'[e] # None THEN 1 ELSE 0)
                + Cardinality(G) > 1)
        BY DEF Overlaps, Staged
    <2> HIDE DEF G
    <2>4. /\ writes'[e] # <<>> => handoffs'[e] = None /\ G = {}
          /\ handoffs'[e] # None => G = {}
          /\ \A i, j \in G : i = j
        <3> DEFINE w == writes'[e] # <<>>
                   h == handoffs'[e] # None
                   n == Cardinality(G)
        <3>1. w \in BOOLEAN /\ h \in BOOLEAN
            OBVIOUS
        <3>2. ~((IF w THEN 1 ELSE 0) + (IF h THEN 1 ELSE 0) + n > 1)
            BY <2>3
        <3> HIDE DEF w, h, n
        <3>3. (w => ~h /\ n = 0) /\ (h => n = 0) /\ (n = 0 \/ n = 1)
            <4>1. n \in Nat
                BY <2>2 DEF n
            <4> QED
                BY <3>1, <3>2, <4>1, Counting
        <3> QED
            BY <2>2, <3>3 DEF w, h, n
    <2> QED
        BY <2>4, Zenon DEF AtMostOne, G
<1>2. IsStaged(e) => Staged(e) > 0
    <2>1. Cardinality(Grants(e)) \in Nat /\ (Cardinality(Grants(e)) = 0 <=> Grants(e) = {})
        BY GrantsType, FewIndexes DEF GrantsTyped
    <2>2. (writes[e] # <<>>) \in BOOLEAN /\ (handoffs[e] # None) \in BOOLEAN
        OBVIOUS
    <2>3. writes[e] # <<>> \/ handoffs[e] # None \/ Cardinality(Grants(e)) # 0 => Staged(e) > 0
        BY <2>1, <2>2, Counting DEF Staged
    <2> QED
        BY <2>1, <2>3 DEF IsStaged
<1> QED
    BY <1>1, <1>2 DEF SerialAt, SameStaged, Overlaps

\* Promised, by the kind of transition that is staged.
PromisedBy(e) ==
    /\ ~IsStaged(e) => Promised(e) = entities[e]
    /\ entities[e] # None /\ writes[e] # <<>> => Promised(e) = Updated(e)
    /\ entities[e] # None /\ handoffs[e] # None =>
          Promised(e) = ApplyHandoff(entities[e], handoffs[e])
    /\ entities[e] # None =>
          \A i \in Grants(e) : Promised(e) = ApplyGrant(entities[e], failovers[i].grants[e])
LEMMA PromisedCases ==
    \A e \in Entities : TypeOK /\ AtMostOne(e) => PromisedBy(e)
<1> SUFFICES ASSUME NEW e \in Entities, TypeOK, AtMostOne(e) PROVE PromisedBy(e)
    OBVIOUS
<1>1. Grants(e) = {} => \A st : Granted(st, e) = st
    BY DEF Grants, Granted
<1>2. writes[e] = <<>> => Updated(e) = entities[e]
    BY DEF Updated
<1>3. handoffs[e] = None => \A st : HandedOff(st, handoffs[e]) = st
    BY DEF HandedOff
<1>4. ASSUME ~IsStaged(e) PROVE Promised(e) = entities[e]
    BY <1>1, <1>2, <1>3, <1>4, Zenon DEF IsStaged, Promised
<1>5. ASSUME writes[e] # <<>> PROVE Promised(e) = Updated(e)
    BY <1>1, <1>3, <1>5, Zenon DEF AtMostOne, Promised
<1>6. ASSUME entities[e] # None, handoffs[e] # None
      PROVE  Promised(e) = ApplyHandoff(entities[e], handoffs[e])
    <2>1. writes[e] = <<>> /\ Grants(e) = {}
        BY <1>6 DEF AtMostOne
    <2>2. Promised(e) = HandedOff(entities[e], handoffs[e])
        BY <1>1, <1>2, <2>1 DEF Promised
    <2> QED
        BY <1>6, <2>2 DEF HandedOff
<1>7. ASSUME entities[e] # None, NEW i \in Grants(e)
      PROVE  Promised(e) = ApplyGrant(entities[e], failovers[i].grants[e])
    <2>1. writes[e] = <<>> /\ handoffs[e] = None
        BY <1>7 DEF AtMostOne
    <2>2. Promised(e) = Granted(entities[e], e)
        BY <1>2, <1>3, <2>1 DEF Promised
    <2>3. LastOf(Grants(e)) = i
        <3>1. Grants(e) = {i}
            BY <1>7 DEF AtMostOne
        <3>2. Len(failovers) \in Nat /\ Grants(e) \subseteq 1 .. Len(failovers)
            BY GrantsType DEF GrantsTyped
        <3>3. LastOf(Grants(e)) \in Grants(e)
            BY <3>1, <3>2, LastOfMember
        <3> QED
            BY <3>1, <3>3
    <2> QED
        BY <1>7, <2>2, <2>3 DEF Granted, Grants
<1> QED
    BY <1>4, <1>5, <1>6, <1>7 DEF PromisedBy

\* The same after a step.
LEMMA PromisedCasesAfter ==
    \A e \in Entities : TypeOK' /\ AtMostOne(e)' => PromisedBy(e)'
<1>1. (\A e \in Entities : TypeOK /\ AtMostOne(e) => PromisedBy(e))'
    BY PromisedCases, PTL
<1> QED
    BY <1>1

\* What is promised of a live entity is an entity.
LEMMA PromisedType ==
    ASSUME TypeOK, NEW e \in Entities, entities[e] # None
    PROVE  Promised(e) \in EntityState /\ Updated(e) \in EntityState
<1>1. Updated(e) \in EntityState
    BY UpdatedType
<1>2. HandedOff(Updated(e), handoffs[e]) \in EntityState
    BY <1>1, StagedApplyTypes, Present DEF TypeOK
<1> QED
    BY <1>1, <1>2, StagedApplyTypes, Present DEF Promised

\* Applying staged writes after a step.
LEMMA UpdatedTypeAfter ==
    \A e \in Entities :
        TypeOK' => (IF entities[e] = None THEN Updated(e) = None
                    ELSE Updated(e) \in EntityState)'
<1>1. \A e \in Entities : TypeOK => IF entities[e] = None THEN Updated(e) = None
                                     ELSE Updated(e) \in EntityState
    BY UpdatedType
<1>2. (\A e \in Entities : TypeOK => IF entities[e] = None THEN Updated(e) = None
                                      ELSE Updated(e) \in EntityState)'
    BY <1>1, PTL
<1> QED
    BY <1>2

(***************************************************************************)
(* Versions, epochs and cores.                                             *)
(***************************************************************************)
\* AsLate is a preorder on entities.
LEMMA AsLateOrder ==
    /\ \A a \in EntityState : AsLate(a, a)
    /\ \A a, b, c \in EntityState : AsLate(a, b) /\ AsLate(b, c) => AsLate(a, c)
BY DEF AsLate, EntityState

\* Of a live entity the core is all but its owner.
LEMMA CoreIs ==
    \A a, b \in EntityState :
        Core(a) = Core(b) <=> /\ a.region = b.region /\ a.val = b.val
                              /\ a.epoch = b.epoch /\ a.ver = b.ver
BY Present DEF Core

\* A hand-off or a grant decides the version and the epoch, and takes equal
\* cores to equal cores.
LEMMA ApplyFacts ==
    ASSUME NEW a \in EntityState, NEW b \in EntityState
    PROVE  /\ \A h \in Handoff :
                /\ ApplyHandoff(a, h).ver = h.ver /\ ApplyHandoff(a, h).epoch = h.epoch
                /\ AsLate(ApplyHandoff(a, h), ApplyHandoff(b, h))
                /\ Core(a) = Core(b) =>
                      Core(ApplyHandoff(a, h)) = Core(ApplyHandoff(b, h))
           /\ \A g \in Grant :
                /\ ApplyGrant(a, g).ver = g.ver /\ ApplyGrant(a, g).epoch = g.epoch
                /\ AsLate(ApplyGrant(a, g), ApplyGrant(b, g))
                /\ Core(a) = Core(b) =>
                      Core(ApplyGrant(a, g)) = Core(ApplyGrant(b, g))
<1>1. ASSUME NEW h \in Handoff
      PROVE  /\ ApplyHandoff(a, h).ver = h.ver /\ ApplyHandoff(a, h).epoch = h.epoch
             /\ ApplyHandoff(b, h).ver = h.ver /\ ApplyHandoff(b, h).epoch = h.epoch
             /\ ApplyHandoff(a, h).region = h.to /\ ApplyHandoff(b, h).region = h.to
             /\ a.val = b.val => ApplyHandoff(a, h).val = ApplyHandoff(b, h).val
             /\ h.ver \in Nat /\ h.epoch \in Nat
             /\ ApplyHandoff(a, h) \in EntityState /\ ApplyHandoff(b, h) \in EntityState
    <2>1. ApplyHandoff(a, h) \in EntityState /\ ApplyHandoff(b, h) \in EntityState
        BY ApplyTypes
    <2> QED
        BY <2>1 DEF ApplyHandoff, EntityState, Handoff
<1>2. ASSUME NEW g \in Grant
      PROVE  /\ ApplyGrant(a, g).ver = g.ver /\ ApplyGrant(a, g).epoch = g.epoch
             /\ ApplyGrant(b, g).ver = g.ver /\ ApplyGrant(b, g).epoch = g.epoch
             /\ ApplyGrant(a, g).region = a.region /\ ApplyGrant(b, g).region = b.region
             /\ ApplyGrant(a, g).val = a.val /\ ApplyGrant(b, g).val = b.val
             /\ g.ver \in Nat /\ g.epoch \in Nat
             /\ ApplyGrant(a, g) \in EntityState /\ ApplyGrant(b, g) \in EntityState
    <2>1. ApplyGrant(a, g) \in EntityState /\ ApplyGrant(b, g) \in EntityState
        BY ApplyTypes
    <2> QED
        BY <2>1 DEF ApplyGrant, EntityState, Grant
<1>3. ASSUME NEW h \in Handoff
      PROVE  /\ AsLate(ApplyHandoff(a, h), ApplyHandoff(b, h))
             /\ Core(a) = Core(b) => Core(ApplyHandoff(a, h)) = Core(ApplyHandoff(b, h))
    BY <1>1, CoreIs DEF AsLate
<1>4. ASSUME NEW g \in Grant
      PROVE  /\ AsLate(ApplyGrant(a, g), ApplyGrant(b, g))
             /\ Core(a) = Core(b) => Core(ApplyGrant(a, g)) = Core(ApplyGrant(b, g))
    BY <1>2, CoreIs DEF AsLate
<1> QED
    BY <1>1, <1>2, <1>3, <1>4

\* A prepared hand-off is of the next version and of no earlier epoch.
LEMMA PrepareFacts ==
    ASSUME TypeOK, NEW st \in EntityState, NEW to \in Regions, NEW pos \in Data
    PROVE  LET h == PrepareHandoff(st, to, pos) IN
           h \in Handoff /\ h.ver = st.ver + 1 /\ h.epoch >= st.epoch
<1> DEFINE next == AdvanceIsland(st, regionWorker[st.region], regionWorker[to])
<1>1. next.epoch >= st.epoch
    BY DEF AdvanceIsland, EntityState
<1> HIDE DEF next
<1> QED
    BY <1>1, PrepareType DEF PrepareHandoff, next

(***************************************************************************)
(* Two ways to preserve the invariant at an entity.                        *)
(***************************************************************************)
\* What is staged, shown and logged of e stays as it is.
LEMMA Undisturbed ==
    ASSUME NEW e \in Entities, StepAt(e), SameStaged(e), SameLog(e),
           \A i \in Grants(e) : failovers'[i].grants[e] = failovers[i].grants[e],
           entities'[e] = entities[e]
    PROVE  Good(e)
<1>1. StagedIsLive(e) /\ Covered(e) /\ TypeOK
    BY DEF StepAt, ReplayInv
<1>2. Updated(e)' = Updated(e)
    BY DEF Updated, WritesOn, SameStaged
<1>3. Promised(e)' = Promised(e)
    <2> DEFINE st == HandedOff(Updated(e), handoffs[e])
               after(is, fs) == IF st = None \/ is = {} THEN st
                                ELSE ApplyGrant(st, fs[LastOf(is)].grants[e])
    <2>1. Promised(e) = after(Grants(e), failovers)
        BY Zenon DEF Promised, Granted, Grants
    <2>2. Promised(e)' = after(Grants(e)', failovers')
        <3>1. HandedOff(Updated(e), handoffs[e])' = st
            BY <1>2 DEF HandedOff, SameStaged
        <3> QED
            BY <3>1, Zenon DEF Promised, Granted, Grants
    <2>3. Grants(e) # {} => failovers'[LastOf(Grants(e))].grants[e]
                                = failovers[LastOf(Grants(e))].grants[e]
        <3>1. Grants(e) # {} => LastOf(Grants(e)) \in Grants(e)
            BY <1>1, GrantsType, LastOfMember DEF GrantsTyped
        <3> QED
            BY <3>1
    <2>4. Grants(e)' = Grants(e)
        BY DEF SameStaged
    <2> HIDE DEF st
    <2> QED
        BY <2>1, <2>2, <2>3, <2>4
<1>4. StagedIsLive(e)'
    BY <1>1 DEF StagedIsLive, IsStaged, SameStaged
<1>5. Covered(e)'
    BY <1>1, <1>3 DEF Covered, SameLog
<1>6. Forward(e)
    BY <1>1, AsLateOrder DEF Forward, TypeOK
<1> QED
    BY <1>4, <1>5, <1>6 DEF Good

\* Nothing is staged for e afterwards: what a crash leaves and the whole log
\* are to be compared with RAM only.
LEMMA Settled ==
    ASSUME NEW e \in Entities, StepAt(e), ~IsStaged(e)', Forward(e),
           entities'[e] # None =>
              /\ \A s \in mayRecover' : s.entities[e] # None =>
                    AsLate(s.entities[e], entities'[e])
              /\ ~degraded' => Core(logged'.entities[e]) = Core(entities'[e])
    PROVE  Good(e)
<1>1. Promised(e)' = entities'[e]
    BY PromisedCasesAfter DEF StepAt, SerialAt, PromisedBy
<1>2. StagedIsLive(e)'
    BY DEF StagedIsLive
<1>3. Covered(e)'
    <2>1. entities'[e] # None => AsLate(entities'[e], entities'[e])
        BY AsLateOrder DEF StepAt, TypeOK
    <2>2. logged' \in mayRecover'
        BY DEF StepAt, IdentityRecoverable
    <2> QED
        BY <1>1, <2>1, <2>2 DEF Covered
<1> QED
    BY <1>2, <1>3 DEF Good

(***************************************************************************)
(* The log.                                                                *)
(***************************************************************************)
\* Appending a record that is not about e.
LEMMA AppendElsewhere ==
    ASSUME NEW e \in Entities, logged \in mayRecover, NEW store,
           store.entities[e] = logged.entities[e],
           AppendNoSync(store) \/ AppendFails \/ AppendSync(store) \/ AppendSyncFails(store)
    PROVE  SameLog(e)
BY DEF AppendNoSync, AppendFails, AppendSync, AppendSyncFails, disk, SameLog

\* Records are about one entity, or about those they name.
LEMMA ReplayElsewhere ==
    ASSUME NEW s \in Store, NEW x \in Entities
    PROVE  /\ \A e \in Entities \ {x} : \A st :
                /\ Replayed(s, e, st).entities[x] = s.entities[x]
                /\ ReplayRegister(s, e, st).entities[x] = s.entities[x]
                /\ ReplayTombstone(s, e).entities[x] = s.entities[x]
           /\ \A hs : hs[x] = None => ReplayHandoffs(s, hs).entities[x] = s.entities[x]
           /\ \A gs : gs[x] = None => ReplayGrants(s, gs).entities[x] = s.entities[x]
BY DEF Store, Replayed, ReplayRegister, ReplayTombstone, ReplayHandoffs, ReplayGrants

\* What a record does to the entity it is about.
LEMMA ReplayHere ==
    ASSUME NEW s \in Store, NEW x \in Entities
    PROVE  /\ \A st : Replayed(s, x, st).entities[x] =
                          IF s.entities[x] = None THEN None ELSE st
           /\ \A hs : hs[x] # None =>
                ReplayHandoffs(s, hs).entities[x] =
                    IF s.entities[x] = None THEN None ELSE ApplyHandoff(s.entities[x], hs[x])
           /\ \A gs : gs[x] # None =>
                ReplayGrants(s, gs).entities[x] =
                    IF s.entities[x] = None THEN None ELSE ApplyGrant(s.entities[x], gs[x])
BY DEF Store, Replayed, ReplayHandoffs, ReplayGrants

\* While the broker takes operations, the log has RAM's ids.
LEMMA LoggedIsLive ==
    ASSUME IdentityRecoverable, ~degraded, NEW e \in Entities
    PROVE  logged.entities[e] = None <=> entities[e] = None
BY DEF IdentityRecoverable, SameIdentity, Live

(***************************************************************************)
(* The operations, one lemma each.                                         *)
(***************************************************************************)
\* What StepAt gives at an entity.
LEMMA StepFacts ==
    ASSUME NEW e \in Entities, StepAt(e)
    PROVE  /\ StagedIsLive(e) /\ Covered(e) /\ AtMostOne(e) /\ PromisedBy(e)
           /\ logged \in mayRecover /\ logged \in Store
           /\ entities[e] # None => entities[e] \in EntityState
           /\ logged.entities[e] # None => logged.entities[e] \in EntityState
           /\ \A s \in mayRecover : /\ s \in Store
                                    /\ s.entities[e] # None => s.entities[e] \in EntityState
<1>1. StagedIsLive(e) /\ Covered(e) /\ AtMostOne(e)
    BY DEF StepAt, ReplayInv
<1>2. PromisedBy(e)
    BY <1>1, PromisedCases DEF StepAt
<1> QED
    BY <1>1, <1>2 DEF StepAt, TypeOK, Store, IdentityRecoverable

\* Leasing a region changes owners, of entities with nothing staged, in RAM
\* alone.
LEMMA ConnectGood ==
    ASSUME NEW x \in Entities, StepAt(x), NEW w \in Workers, NEW r \in Regions, Connect(w, r)
    PROVE  Good(x)
<1>1. SameStaged(x) /\ \A i \in Grants(x) : failovers'[i].grants[x] = failovers[i].grants[x]
    BY DEF Connect, staged, SameStaged, Grants
<1>2. SameLog(x)
    BY DEF Connect, disk, SameLog
<1>3. CASE IsStaged(x)
    BY <1>1, <1>2, <1>3, Undisturbed DEF StepAt, SerialAt
<1>4. CASE ~IsStaged(x)
    <2>1. ~IsStaged(x)'
        BY <1>1, <1>4 DEF SameStaged, IsStaged
    <2>2. entities[x] # None => [entities[x] EXCEPT !.owner = w] \in EntityState
        BY StepFacts DEF EntityState
    <2>3. entities'[x] # None =>
              /\ entities[x] # None /\ entities'[x] \in EntityState
              /\ entities'[x].ver = entities[x].ver /\ entities'[x].epoch = entities[x].epoch
              /\ Core(entities'[x]) = Core(entities[x])
        <3>1. \/ entities'[x] = entities[x]
              \/ entities[x] # None /\ entities'[x] = [entities[x] EXCEPT !.owner = w]
            BY DEF Connect
        <3>2. entities[x] # None =>
                 LET st == [entities[x] EXCEPT !.owner = w] IN
                 /\ st.ver = entities[x].ver /\ st.epoch = entities[x].epoch
                 /\ st.region = entities[x].region /\ st.val = entities[x].val
            BY StepFacts DEF EntityState
        <3>3. entities[x] # None => Core([entities[x] EXCEPT !.owner = w]) = Core(entities[x])
            BY <2>2, <3>2, CoreIs, StepFacts
        <3>4. CASE entities'[x] = entities[x]
            BY <3>4, StepFacts
        <3>5. CASE entities[x] # None /\ entities'[x] = [entities[x] EXCEPT !.owner = w]
            BY <2>2, <3>2, <3>3, <3>5
        <3> QED
            BY <3>1, <3>4, <3>5
    <2>4. Forward(x)
        BY <2>3, StepFacts DEF Forward, AsLate, EntityState
    <2>5. Promised(x) = entities[x]
        BY <1>4, StepFacts DEF PromisedBy
    <2>6. entities'[x] # None =>
              /\ \A s \in mayRecover' : s.entities[x] # None =>
                    AsLate(s.entities[x], entities'[x])
              /\ ~degraded' => Core(logged'.entities[x]) = Core(entities'[x])
        BY <2>3, <2>5, StepFacts DEF Connect, disk, Covered, AsLate
    <2> QED
        BY <2>1, <2>4, <2>6, Settled
<1> QED
    BY <1>3, <1>4

\* A create.
LEMMA CreateGood ==
    ASSUME NEW x \in Entities, StepAt(x), NEW e \in Entities, NEW r \in Regions,
           CreateEntity(e, r)
    PROVE  Good(x)
<1> DEFINE st == NewEntity(r)
           store == ReplayRegister(logged, e, st)
<1>1. st \in EntityState /\ [st EXCEPT !.owner = regionWorker[r]] \in EntityState
    <2>1. st \in EntityState
        BY NewEntityType
    <2> HIDE DEF st
    <2> QED
        BY <2>1 DEF EntityState, StepAt, TypeOK
<1> HIDE DEF st
<1>2. /\ ~degraded /\ e \notin deleted /\ entities[e] = None
      /\ \/ /\ AppendSync(store)
            /\ entities' = [entities EXCEPT ![e] = [st EXCEPT !.owner = regionWorker[r]]]
         \/ AppendSyncFails(store) /\ UNCHANGED entities
      /\ UNCHANGED staged
    BY Zenon DEF CreateEntity, st, staged
<1>3. SameStaged(x) /\ \A i \in Grants(x) : failovers'[i].grants[x] = failovers[i].grants[x]
    BY <1>2 DEF staged, SameStaged, Grants
<1>4. CASE x # e
    <2>1. SameLog(x)
        <3>1. store.entities[x] = logged.entities[x]
            BY <1>4, StepFacts, ReplayElsewhere
        <3> HIDE DEF store
        <3> QED
            BY <1>2, <3>1, StepFacts, AppendElsewhere
    <2>2. entities'[x] = entities[x]
        BY <1>2, <1>4 DEF StepAt, TypeOK
    <2> QED
        BY <1>3, <2>1, <2>2, Undisturbed
<1>5. CASE x = e
    <2>1. ~IsStaged(x)'
        BY <1>2, <1>3, <1>5, StepFacts DEF SameStaged, IsStaged, StagedIsLive
    <2>2. Forward(x)
        BY <1>2, <1>5 DEF Forward
    <2>3. ASSUME entities'[x] # None
          PROVE  /\ \A s \in mayRecover' : s.entities[x] # None =>
                        AsLate(s.entities[x], entities'[x])
                 /\ Core(logged'.entities[x]) = Core(entities'[x])
        <3>1. AppendSync(store) /\ entities'[x] = [st EXCEPT !.owner = regionWorker[r]]
            BY <1>2, <1>5, <2>3 DEF StepAt, TypeOK
        <3>2. store.entities[x] = st
            BY <1>2, <1>5, StepFacts
            DEF ReplayRegister, StepAt, IdentityRecoverable, SameIdentity, Store
        <3>3. /\ AsLate(st, [st EXCEPT !.owner = regionWorker[r]])
              /\ Core(st) = Core([st EXCEPT !.owner = regionWorker[r]])
            BY <1>1, CoreIs DEF AsLate, EntityState
        <3> QED
            BY <3>1, <3>2, <3>3 DEF AppendSync
    <2> QED
        BY <2>1, <2>2, <2>3, Settled
<1> QED
    BY <1>4, <1>5

\* A delete, which also drops a hand-off that is staged.
LEMMA DeleteGood ==
    ASSUME NEW x \in Entities, StepAt(x), NEW w \in Workers, NEW e \in Entities,
           DeleteEntity(w, e)
    PROVE  Good(x)
<1> DEFINE store == ReplayTombstone(logged, e)
<1>1. /\ ~degraded /\ entities[e] # None
      /\ \/ /\ AppendSync(store)
            /\ entities' = [entities EXCEPT ![e] = None]
            /\ handoffs' = [handoffs EXCEPT ![e] = None]
         \/ AppendSyncFails(store) /\ UNCHANGED <<entities, handoffs>>
      /\ UNCHANGED <<writes, failovers>>
    BY Zenon DEF DeleteEntity
<1>2. store.entities[e] = None
    BY StepFacts DEF ReplayTombstone, Store, StepAt, TypeOK
<1>3. x # e => store.entities[x] = logged.entities[x]
    BY StepFacts, ReplayElsewhere
<1> HIDE DEF store
<1>4. /\ writes'[x] = writes[x] /\ Grants(x)' = Grants(x)
      /\ \A i \in Grants(x) : failovers'[i].grants[x] = failovers[i].grants[x]
    BY <1>1 DEF Grants
<1>5. CASE x # e
    <2>1. SameLog(x)
        BY <1>1, <1>3, <1>5, StepFacts, AppendElsewhere
    <2>2. entities'[x] = entities[x] /\ handoffs'[x] = handoffs[x]
        BY <1>1, <1>5 DEF StepAt, TypeOK
    <2> QED
        BY <1>4, <2>1, <2>2, Undisturbed DEF SameStaged
<1>6. CASE x = e /\ AppendSync(store)
    <2>1. entities'[x] = None /\ handoffs'[x] = None
        BY <1>1, <1>6 DEF StepAt, TypeOK, AppendSync, AppendSyncFails
    <2>2. ~IsStaged(x)'
        <3>1. SUFFICES ASSUME writes[x] # <<>> \/ Grants(x) # {} PROVE FALSE
            BY <1>4, <2>1 DEF IsStaged
        <3>2. handoffs[x] = None /\ IsStaged(x)
            BY <3>1, StepFacts DEF AtMostOne, IsStaged
        <3>3. SameStaged(x)
            BY <1>4, <2>1, <3>2 DEF SameStaged
        <3> QED
            BY <1>1, <1>6, <2>1, <3>2, <3>3 DEF StepAt, SerialAt
    <2> QED
        BY <2>1, <2>2, Settled DEF Forward
<1>7. CASE x = e /\ AppendSyncFails(store) /\ UNCHANGED <<entities, handoffs>>
    <2>1. SameStaged(x)
        BY <1>4, <1>7 DEF SameStaged
    <2>2. CASE UNCHANGED disk
        <3>1. SameLog(x)
            BY <1>7, <2>2 DEF AppendSyncFails, disk, SameLog
        <3> QED
            BY <1>4, <1>7, <2>1, <3>1, Undisturbed
    <2>3. CASE logged' = store /\ mayRecover' = mayRecover \cup {store}
        <3>1. ~IsStaged(x)
            <4>1. logged'.entities[x] = None /\ logged.entities[x] # None
                BY <1>1, <1>2, <1>7, <2>3, LoggedIsLive DEF StepAt
            <4> QED
                BY <2>1, <4>1 DEF StepAt, SerialAt
        <3>2. ~IsStaged(x)'
            BY <2>1, <3>1 DEF SameStaged, IsStaged
        <3>3. Forward(x)
            BY <1>7, StepFacts, AsLateOrder DEF Forward
        <3>4. \A s \in mayRecover' : s.entities[x] # None => AsLate(s.entities[x], entities'[x])
            BY <1>1, <1>2, <1>7, <2>3, StepFacts DEF Covered
        <3> QED
            BY <1>7, <3>2, <3>3, <3>4, Settled DEF AppendSyncFails
    <2> QED
        BY <1>7, <2>2, <2>3 DEF AppendSyncFails
<1> QED
    BY <1>1, <1>5, <1>6, <1>7

\* A direct operation.  Of an entity with nothing staged, st and loggedSt are to
\* agree, and st is to be a step forward.
LEMMA DirectGood ==
    ASSUME NEW x \in Entities, StepAt(x), NEW e \in Entities, entities[e] # None,
           NEW st \in EntityState, NEW loggedSt,
           logged.entities[e] # None => loggedSt \in EntityState,
           Direct(e, st, loggedSt),
           x = e => /\ st # entities[e] /\ AsLate(st, entities[e])
                    /\ AsLate(logged.entities[e], entities[e]) => AsLate(loggedSt, st)
                    /\ Core(logged.entities[e]) = Core(entities[e]) => Core(loggedSt) = Core(st)
    PROVE  Good(x)
<1> DEFINE store == Replayed(logged, e, loggedSt)
<1>1. /\ ~degraded
      /\ \/ AppendSync(store) /\ entities' = [entities EXCEPT ![e] = st]
         \/ AppendSyncFails(store) /\ UNCHANGED entities
      /\ UNCHANGED staged
    BY Zenon DEF Direct, staged
<1>2. logged.entities[e] # None
    BY <1>1, LoggedIsLive DEF StepAt
<1>3. store.entities[e] = loggedSt
    BY <1>2, ReplayHere, StepFacts
<1>4. x # e => store.entities[x] = logged.entities[x]
    BY ReplayElsewhere, StepFacts
<1> HIDE DEF store
<1>5. SameStaged(x) /\ \A i \in Grants(x) : failovers'[i].grants[x] = failovers[i].grants[x]
    BY <1>1 DEF staged, SameStaged, Grants
<1>6. CASE x # e
    <2>1. SameLog(x)
        BY <1>1, <1>4, <1>6, StepFacts, AppendElsewhere
    <2>2. entities'[x] = entities[x]
        BY <1>1, <1>6 DEF StepAt, TypeOK
    <2> QED
        BY <1>5, <2>1, <2>2, Undisturbed
<1>7. CASE x = e /\ IsStaged(x)
    <2>1. logged'.entities[x] = logged.entities[x] /\ entities'[x] = entities[x]
        BY <1>5, <1>7 DEF StepAt, SerialAt
    <2>2. AppendSyncFails(store)
        BY <1>1, <1>7, <2>1 DEF StepAt, TypeOK
    <2>3. SameLog(x)
        BY <2>1, <2>2, StepFacts DEF SameLog, AppendSyncFails, disk
    <2> QED
        BY <1>5, <2>1, <2>3, Undisturbed
<1>8. CASE x = e /\ ~IsStaged(x)
    <2>1. ~IsStaged(x)'
        BY <1>5, <1>8 DEF SameStaged, IsStaged
    <2>2. /\ \A s \in mayRecover : s.entities[x] # None => AsLate(s.entities[x], entities[x])
          /\ Core(logged.entities[x]) = Core(entities[x])
          /\ AsLate(logged.entities[x], entities[x])
        BY <1>1, <1>2, <1>8, StepFacts DEF Covered, PromisedBy
    <2>3. AsLate(loggedSt, st) /\ Core(loggedSt) = Core(st) /\ AsLate(st, entities[x])
        BY <1>8, <2>2
    <2>4. AsLate(loggedSt, entities[x])
        BY <1>2, <1>8, <2>3, StepFacts, AsLateOrder
    <2>5. CASE AppendSync(store) /\ entities' = [entities EXCEPT ![e] = st]
        <3>1. entities'[x] = st
            BY <1>8, <2>5 DEF StepAt, TypeOK
        <3>2. Forward(x)
            BY <2>3, <3>1 DEF Forward
        <3> QED
            BY <1>3, <1>8, <2>1, <2>3, <2>5, <3>1, <3>2, Settled DEF AppendSync
    <2>6. CASE AppendSyncFails(store) /\ UNCHANGED entities
        <3>1. Forward(x)
            BY <2>6, StepFacts, AsLateOrder DEF Forward
        <3>2. \A s \in mayRecover' : s \in mayRecover \/ s = store
            BY <2>6 DEF AppendSyncFails, disk
        <3>3. \A s \in mayRecover' : s.entities[x] # None => AsLate(s.entities[x], entities'[x])
            BY <1>3, <1>8, <2>2, <2>4, <2>6, <3>2
        <3> QED
            BY <2>1, <2>6, <3>1, <3>3, Settled DEF AppendSyncFails
    <2> QED
        BY <1>1, <2>5, <2>6
<1> QED
    BY <1>6, <1>7, <1>8

\* Adding and removing a component.
LEMMA ComponentsGood ==
    ASSUME NEW x \in Entities, StepAt(x), NEW w \in Workers, NEW e \in Entities
    PROVE  /\ \A c \in Comps, v \in Values : AddComponent(w, e, c, v) => Good(x)
           /\ \A c \in Comps : RemoveComponent(w, e, c) => Good(x)
<1>1. ASSUME NEW c \in Comps, NEW v \in Values \cup {None}, entities[e] # None,
             LET u == [comp |-> c, val |-> v, ver |-> entities[e].ver + 1]
             IN  Direct(e, ApplyWrite(entities[e], u), ApplyWrite(logged.entities[e], u))
      PROVE  Good(x)
    <2> DEFINE u == [comp |-> c, val |-> v, ver |-> entities[e].ver + 1]
               st == ApplyWrite(entities[e], u)
               loggedSt == ApplyWrite(logged.entities[e], u)
    <2>1. entities[e] \in EntityState
        BY <1>1 DEF StepAt, TypeOK
    <2>2. ASSUME NEW a \in EntityState
          PROVE  /\ ApplyWrite(a, u) \in EntityState
                 /\ ApplyWrite(a, u).ver = entities[e].ver + 1
                 /\ ApplyWrite(a, u).epoch = a.epoch
                 /\ ApplyWrite(a, u).region = a.region
                 /\ ApplyWrite(a, u).val = [a.val EXCEPT ![c] = v]
        <3>1. u.ver \in Nat /\ u.val \in Data /\ c \in Fields
            BY <2>1 DEF EntityState, Fields, Data
        <3> QED
            BY <3>1 DEF ApplyWrite, EntityState
    <2>3. logged.entities[e] # None => logged.entities[e] \in EntityState
        BY DEF StepAt, TypeOK, Store
    <2>4. Direct(e, st, loggedSt)
        BY <1>1, Zenon
    <2> HIDE DEF u
    <2>5. logged.entities[e] # None
        BY <1>1, LoggedIsLive DEF StepAt, Direct
    <2>6. /\ st \in EntityState /\ st.ver = entities[e].ver + 1
          /\ st.epoch = entities[e].epoch /\ st.region = entities[e].region
          /\ st.val = [entities[e].val EXCEPT ![c] = v]
        BY <2>1, <2>2
    <2>7. /\ loggedSt \in EntityState /\ loggedSt.ver = entities[e].ver + 1
          /\ loggedSt.epoch = logged.entities[e].epoch
          /\ loggedSt.region = logged.entities[e].region
          /\ loggedSt.val = [logged.entities[e].val EXCEPT ![c] = v]
        BY <2>2, <2>3, <2>5
    <2> HIDE DEF st, loggedSt
    <2>8. st # entities[e] /\ AsLate(st, entities[e])
        <3>1. entities[e].ver \in Nat /\ entities[e].epoch \in Nat
            BY <2>1 DEF EntityState
        <3> QED
            BY <2>6, <3>1 DEF AsLate
    <2>9. AsLate(logged.entities[e], entities[e]) => AsLate(loggedSt, st)
        <3>1. entities[e].ver \in Nat
            BY <2>1 DEF EntityState
        <3> QED
            BY <2>6, <2>7, <3>1 DEF AsLate
    <2>10. Core(logged.entities[e]) = Core(entities[e]) => Core(loggedSt) = Core(st)
        BY <2>1, <2>3, <2>5, <2>6, <2>7, CoreIs
    <2> QED
        BY <1>1, <2>4, <2>6, <2>7, <2>8, <2>9, <2>10, DirectGood
<1>2. ASSUME NEW c \in Comps, NEW v \in Values, AddComponent(w, e, c, v) PROVE Good(x)
    BY <1>1, <1>2, Zenon DEF AddComponent, MayWrite
<1>3. ASSUME NEW c \in Comps, RemoveComponent(w, e, c) PROVE Good(x)
    <2>1. None \in Values \cup {None}
        OBVIOUS
    <2> QED
        BY <1>1, <1>3, <2>1, Zenon DEF RemoveComponent, MayWrite
<1> QED
    BY <1>2, <1>3

\* Granting a component.
LEMMA SetAuthorityGood ==
    ASSUME NEW x \in Entities, StepAt(x), NEW e \in Entities,
           NEW o \in Workers \cup {None}, SetComponentAuthority(e, o)
    PROVE  Good(x)
<1> DEFINE g == [ver |-> entities[e].ver + 1, owner |-> o,
                 epoch |-> entities[e].epoch + 1]
<1>1. entities[e] # None /\ entities[e] \in EntityState
    BY DEF SetComponentAuthority, StepAt, TypeOK
<1>2. g \in Grant /\ g.ver > entities[e].ver /\ g.epoch > entities[e].epoch
    BY <1>1 DEF EntityState, Grant
<1>3. Direct(e, ApplyGrant(entities[e], g), ApplyGrant(logged.entities[e], g))
    BY DEF SetComponentAuthority
<1> HIDE DEF g
<1>4. logged.entities[e] # None /\ logged.entities[e] \in EntityState
    BY <1>1, <1>3, LoggedIsLive DEF StepAt, Direct, TypeOK, Store
<1>5. /\ ApplyGrant(entities[e], g) \in EntityState
      /\ ApplyGrant(logged.entities[e], g) \in EntityState
    BY <1>1, <1>2, <1>4, ApplyTypes
<1>6. /\ AsLate(ApplyGrant(logged.entities[e], g), ApplyGrant(entities[e], g))
      /\ Core(logged.entities[e]) = Core(entities[e]) =>
            Core(ApplyGrant(logged.entities[e], g)) = Core(ApplyGrant(entities[e], g))
      /\ ApplyGrant(entities[e], g).ver = g.ver /\ ApplyGrant(entities[e], g).epoch = g.epoch
    BY <1>1, <1>2, <1>4, ApplyFacts
<1>7. ApplyGrant(entities[e], g) # entities[e] /\ AsLate(ApplyGrant(entities[e], g), entities[e])
    BY <1>1, <1>2, <1>6 DEF AsLate, EntityState, Grant
<1> QED
    BY <1>1, <1>3, <1>5, <1>6, <1>7, DirectGood

\* Reserving ids.
LEMMA ReserveGood ==
    ASSUME NEW x \in Entities, StepAt(x), ReserveEntityIds(1)
    PROVE  Good(x)
<1> DEFINE store == [logged EXCEPT !.nextId =
                        IF nextId + 1 > @ THEN nextId + 1 ELSE @]
<1>1. AppendSync(store) \/ AppendSyncFails(store)
    BY DEF ReserveEntityIds
<1>2. store.entities[x] = logged.entities[x]
    BY StepFacts DEF Store
<1> HIDE DEF store
<1>3. SameLog(x)
    BY <1>1, <1>2, StepFacts, AppendElsewhere
<1> QED
    BY <1>3, Undisturbed DEF ReserveEntityIds, staged, SameStaged, Grants

(***************************************************************************)
(* Staging.                                                                *)
(***************************************************************************)
\* Updated, field by field.
UpdatedFields(e) ==
    entities[e] # None =>
        /\ Updated(e).region = entities[e].region /\ Updated(e).epoch = entities[e].epoch
        /\ Updated(e).owner = entities[e].owner
        /\ Updated(e).ver = IF writes[e] = <<>> THEN entities[e].ver
                            ELSE writes[e][Len(writes[e])].ver
        /\ Updated(e).val = [f \in Fields |->
              IF WritesOn(e, f) = {} THEN entities[e].val[f]
              ELSE writes[e][LastOf(WritesOn(e, f))].val]
LEMMA UpdatedIs == \A e \in Entities : TypeOK => UpdatedFields(e)
<1> SUFFICES ASSUME NEW e \in Entities, TypeOK, entities[e] # None
             PROVE  UpdatedFields(e)
    BY DEF UpdatedFields
<1>1. entities[e] \in EntityState
    BY DEF TypeOK
<1>2. CASE writes[e] = <<>>
    <2>1. \A f : WritesOn(e, f) = {}
        BY <1>2 DEF WritesOn
    <2>2. Updated(e) = entities[e]
        BY <1>2 DEF Updated
    <2>3. entities[e].val = [f \in Fields |-> entities[e].val[f]]
        BY <1>1 DEF EntityState
    <2> QED
        BY <1>2, <2>1, <2>2, <2>3 DEF UpdatedFields
<1>3. CASE writes[e] # <<>>
    <2> DEFINE val == [f \in Fields |->
            IF WritesOn(e, f) = {} THEN entities[e].val[f]
            ELSE writes[e][LastOf(WritesOn(e, f))].val]
               ver == writes[e][Len(writes[e])].ver
    <2>1. Updated(e) = [entities[e] EXCEPT !.val = val, !.ver = ver]
        BY <1>3 DEF Updated
    <2> HIDE DEF val, ver
    <2>2. /\ Updated(e).region = entities[e].region /\ Updated(e).epoch = entities[e].epoch
          /\ Updated(e).owner = entities[e].owner
          /\ Updated(e).ver = ver /\ Updated(e).val = val
        BY <1>1, <2>1 DEF EntityState
    <2> QED
        BY <1>3, <2>2 DEF UpdatedFields, val, ver
<1> QED
    BY <1>2, <1>3

\* The same after a step.
LEMMA UpdatedIsAfter == \A e \in Entities : TypeOK' => UpdatedFields(e)'
<1>1. (\A e \in Entities : TypeOK => UpdatedFields(e))'
    BY UpdatedIs, PTL
<1> QED
    BY <1>1

\* The last of some indexes up to n, and of them with n + 1.
LEMMA LastAppended ==
    ASSUME NEW n \in Nat, NEW S \in SUBSET (1 .. n)
    PROVE  LastOf(S \cup {n + 1}) = n + 1
<1> DEFINE T == S \cup {n + 1}
<1>1. n + 1 \in T /\ \A j \in T : j <= n + 1
    OBVIOUS
<1>2. \A i \in T : (\A j \in T : j <= i) => i = n + 1
    BY <1>1
<1> HIDE DEF T
<1>3. LastOf(T) = n + 1
    BY <1>1, <1>2 DEF LastOf
<1> QED
    BY <1>3 DEF T

\* A further staged write of a live entity: what is promised takes it.
LEMMA AppendedWrite ==
    ASSUME TypeOK, TypeOK', NEW e \in Entities, entities[e] # None, NEW u \in Update,
           entities'[e] = entities[e], writes'[e] = Append(writes[e], u)
    PROVE  /\ Updated(e)'.region = Updated(e).region
           /\ Updated(e)'.epoch = Updated(e).epoch
           /\ Updated(e)'.ver = u.ver
           /\ Updated(e)'.val = [Updated(e).val EXCEPT ![u.comp] = u.val]
<1> DEFINE n == Len(writes[e])
<1>1. /\ writes[e] \in Seq(Update) /\ n \in Nat
      /\ Len(writes'[e]) = n + 1 /\ writes'[e][n + 1] = u /\ writes'[e] # <<>>
      /\ \A i \in 1 .. n : writes'[e][i] = writes[e][i]
      /\ DOMAIN writes'[e] = 1 .. (n + 1) /\ DOMAIN writes[e] = 1 .. n
    BY DEF TypeOK
<1>2. UpdatedFields(e) /\ UpdatedFields(e)'
    BY UpdatedIs, UpdatedIsAfter
<1>3. u.comp \in Fields
    BY DEF Update, Fields
<1> DEFINE was(f) == WritesOn(e, f)
           is(f) == WritesOn(e, f)'
<1>4. \A f : is(f) = {i \in 1 .. (n + 1) : writes'[e][i].comp = f}
    BY <1>1 DEF WritesOn
<1>5. \A f : was(f) = {i \in 1 .. n : writes[e][i].comp = f}
    BY <1>1 DEF WritesOn
<1> HIDE DEF n, was, is
<1>6. \A f : is(f) = IF f = u.comp THEN was(f) \cup {n + 1} ELSE was(f)
    <2> SUFFICES ASSUME NEW f PROVE is(f) = IF f = u.comp THEN was(f) \cup {n + 1} ELSE was(f)
        OBVIOUS
    <2>1. is(f) = {i \in 1 .. (n + 1) : writes'[e][i].comp = f}
        BY <1>4
    <2>2. was(f) = {i \in 1 .. n : writes[e][i].comp = f}
        BY <1>5
    <2>3. 1 .. (n + 1) = (1 .. n) \cup {n + 1}
        BY <1>1
    <2> QED
        BY <1>1, <2>1, <2>2, <2>3
<1>7. \A f : was(f) \in SUBSET (1 .. n)
    BY <1>5
<1>8. Updated(e)'.val = [f \in Fields |->
          IF is(f) = {} THEN entities[e].val[f] ELSE writes'[e][LastOf(is(f))].val]
    BY <1>2 DEF UpdatedFields, is
<1>9. Updated(e).val = [f \in Fields |->
          IF was(f) = {} THEN entities[e].val[f] ELSE writes[e][LastOf(was(f))].val]
    BY <1>2 DEF UpdatedFields, was
<1>10. ASSUME NEW f \in Fields
       PROVE  (IF is(f) = {} THEN entities[e].val[f] ELSE writes'[e][LastOf(is(f))].val)
              = IF f = u.comp THEN u.val
                ELSE IF was(f) = {} THEN entities[e].val[f]
                ELSE writes[e][LastOf(was(f))].val
    <2>1. CASE f = u.comp
        <3>1. is(f) # {} /\ LastOf(is(f)) = n + 1
            BY <1>1, <1>6, <1>7, <2>1, LastAppended
        <3> QED
            BY <1>1, <2>1, <3>1
    <2>2. CASE f # u.comp
        <3>1. is(f) = was(f)
            BY <1>6, <2>2
        <3>2. was(f) # {} => LastOf(was(f)) \in 1 .. n
            BY <1>1, <1>7, LastOfMember
        <3> QED
            BY <1>1, <2>2, <3>1, <3>2
    <2> QED
        BY <2>1, <2>2
<1>11. Updated(e)'.val = [Updated(e).val EXCEPT ![u.comp] = u.val]
    <2> DEFINE old(f) == IF was(f) = {} THEN entities[e].val[f]
                         ELSE writes[e][LastOf(was(f))].val
    <2>1. Updated(e)'.val = [f \in Fields |-> IF f = u.comp THEN u.val ELSE old(f)]
        BY <1>8, <1>10
    <2>2. Updated(e).val = [f \in Fields |-> old(f)]
        BY <1>9
    <2> HIDE DEF old
    <2> QED
        BY <1>3, <2>1, <2>2
<1>12. Updated(e)'.ver = u.ver
    BY <1>1, <1>2 DEF UpdatedFields
<1> QED
    BY <1>2, <1>11, <1>12 DEF UpdatedFields

\* A staged write.
LEMMA UpdateGood ==
    ASSUME NEW x \in Entities, StepAt(x), NEW w \in Workers, NEW e \in Entities,
           NEW c \in Fields, NEW v, \A n \in Nat : [comp |-> c, val |-> v, ver |-> n] \in Update,
           UpdateComponent(w, e, c, v)
    PROVE  Good(x)
<1> DEFINE u == [comp |-> c, val |-> v,
                 ver |-> entities[e].ver + Len(writes[e]) + 1]
           store == Replayed(logged, e, ApplyWrite(logged.entities[e], u))
<1>1. /\ ~degraded /\ entities[e] # None
      /\ \/ AppendNoSync(store) /\ writes' = [writes EXCEPT ![e] = Append(@, u)]
         \/ AppendFails /\ UNCHANGED writes
      /\ UNCHANGED <<entities, deleted, nextId, regionWorker, handoffs, failovers>>
    BY Zenon DEF UpdateComponent, MayWrite
<1>2. entities[e] \in EntityState /\ Len(writes[e]) \in Nat
    BY <1>1 DEF StepAt, TypeOK
<1>3. u \in Update /\ u.comp = c /\ u.val = v /\ u.ver \in Nat /\ u.ver >= entities[e].ver
    <2>1. u.ver \in Nat /\ u.ver >= entities[e].ver
        BY <1>2 DEF EntityState
    <2> QED
        BY <2>1
<1> HIDE DEF u
<1>4. logged.entities[e] # None /\ logged.entities[e] \in EntityState
    BY <1>1, LoggedIsLive DEF StepAt, TypeOK, Store
<1>5. store.entities[e] = ApplyWrite(logged.entities[e], u)
    BY <1>4, ReplayHere DEF StepAt, TypeOK
<1>6. x # e => store.entities[x] = logged.entities[x]
    BY StepFacts, ReplayElsewhere
<1> HIDE DEF store
<1>7. /\ entities'[x] = entities[x] /\ handoffs'[x] = handoffs[x] /\ Grants(x)' = Grants(x)
      /\ \A i \in Grants(x) : failovers'[i].grants[x] = failovers[i].grants[x]
    BY <1>1 DEF Grants
<1>8. CASE AppendFails /\ UNCHANGED writes
    <2>1. SameLog(x)
        BY <1>8 DEF AppendFails, disk, SameLog
    <2> QED
        BY <1>7, <1>8, <2>1, Undisturbed DEF SameStaged
<1>9. CASE AppendNoSync(store) /\ writes' = [writes EXCEPT ![e] = Append(@, u)]
    <2>1. CASE x # e
        <3>1. SameLog(x)
            BY <1>6, <1>9, <2>1, StepFacts, AppendElsewhere
        <3>2. SameStaged(x)
            BY <1>7, <1>9, <2>1 DEF SameStaged, StepAt, TypeOK
        <3> QED
            BY <1>7, <3>1, <3>2, Undisturbed
    <2>2. CASE x = e
        <3>1. writes'[x] = Append(writes[x], u) /\ writes'[x] # <<>>
            BY <1>3, <1>9, <2>2 DEF StepAt, TypeOK
        <3>2. handoffs[x] = None /\ Grants(x) = {}
            BY <1>7, <3>1 DEF StepAt, SerialAt, AtMostOne
        <3>3. Promised(x)' = Updated(x)'
            BY <1>1, <1>7, <2>2, <3>1, PromisedCasesAfter DEF StepAt, SerialAt, PromisedBy
        <3>4. Promised(x) = Updated(x) /\ Updated(x) \in EntityState
            <4>1. writes[x] = <<>> => ~IsStaged(x) /\ Updated(x) = entities[x]
                BY <3>2 DEF IsStaged, Updated
            <4> QED
                BY <1>1, <2>2, <4>1, StepFacts, PromisedType DEF PromisedBy, StepAt
        <3>5. /\ Updated(x)'.region = Updated(x).region
              /\ Updated(x)'.epoch = entities[x].epoch
              /\ Updated(x)'.ver = u.ver
              /\ Updated(x)'.val = [Updated(x).val EXCEPT ![c] = v]
            BY <1>1, <1>3, <1>7, <2>2, <3>1, AppendedWrite, UpdatedIs
            DEF StepAt, UpdatedFields
        <3>6. Updated(x)' \in EntityState
            BY <1>1, <1>7, <2>2, UpdatedTypeAfter DEF StepAt
        <3> DEFINE l == logged.entities[x]
                   m == ApplyWrite(l, u)
        <3>7. /\ m \in EntityState /\ m.region = l.region /\ m.epoch = l.epoch
              /\ m.ver = u.ver /\ m.val = [l.val EXCEPT ![c] = v]
            <4>1. m \in EntityState
                BY <1>3, <1>4, <2>2, ApplyTypes
            <4> QED
                BY <1>3, <1>4, <2>2, <4>1 DEF ApplyWrite, EntityState
        <3>8. AsLate(l, entities[x]) /\ Core(l) = Core(Promised(x))
            BY <1>1, <1>4, <2>2, StepFacts DEF Covered
        <3>9. Core(m) = Core(Updated(x)')
            <4>1. l.region = Updated(x).region /\ l.val = Updated(x).val
                  /\ l.epoch = Updated(x).epoch
                BY <1>4, <2>2, <3>4, <3>8, CoreIs
            <4>2. Updated(x).epoch = entities[x].epoch
                BY <1>1, <2>2, UpdatedIs DEF StepAt, UpdatedFields
            <4> HIDE DEF l, m
            <4> QED
                BY <3>5, <3>6, <3>7, <4>1, <4>2, CoreIs
        <3>10. AsLate(m, entities[x]) /\ AsLate(m, Updated(x)') /\ AsLate(Updated(x)', entities[x])
            <4>1. u.ver >= entities[x].ver /\ l.epoch >= entities[x].epoch
                BY <1>3, <2>2, <3>8 DEF AsLate
            <4>2. u.ver \in Nat /\ entities[x].epoch \in Nat
                BY <1>2, <1>3, <2>2 DEF EntityState
            <4> HIDE DEF l, m
            <4> QED
                BY <3>5, <3>7, <4>1, <4>2 DEF AsLate
        <3>11. logged'.entities[x] = m /\ mayRecover' = mayRecover \cup {store}
            BY <1>5, <1>9, <2>2 DEF AppendNoSync
        <3>12. Covered(x)'
            <4>1. \A s \in mayRecover' : s.entities[x] # None => AsLate(s.entities[x], entities'[x])
                BY <1>1, <1>5, <1>7, <2>2, <3>10, <3>11, StepFacts DEF Covered
            <4> HIDE DEF m, l
            <4> QED
                BY <1>7, <3>3, <3>9, <3>10, <3>11, <4>1 DEF Covered
        <3>13. StagedIsLive(x)' /\ Forward(x)
            BY <1>1, <1>2, <1>7, <2>2, AsLateOrder DEF StagedIsLive, Forward
        <3> QED
            BY <3>12, <3>13 DEF Good
    <2> QED
        BY <2>1, <2>2
<1> QED
    BY <1>1, <1>8, <1>9

\* A transition is staged, and logged, for a live entity that had none: it is to
\* promise p, which the log replays as q.
LEMMA TransitionStaged ==
    ASSUME NEW x \in Entities, StepAt(x), entities[x] # None, ~IsStaged(x),
           entities'[x] = entities[x], degraded => degraded',
           NEW p \in EntityState, NEW q, NEW store,
           Promised(x)' = p, AsLate(p, entities[x]),
           logged.entities[x] = None => store.entities[x] = None,
           logged.entities[x] # None =>
              /\ q \in EntityState /\ store.entities[x] = q /\ AsLate(q, p)
              /\ Core(logged.entities[x]) = Core(entities[x]) => Core(q) = Core(p),
           logged' = store, mayRecover' \subseteq mayRecover \cup {store}
    PROVE  Good(x)
<1>1. StagedIsLive(x)' /\ Forward(x)
    BY StepFacts, AsLateOrder DEF StagedIsLive, Forward
<1>2. Promised(x) = entities[x]
    BY StepFacts DEF PromisedBy
<1>3. store.entities[x] # None => AsLate(store.entities[x], entities[x])
    BY StepFacts, AsLateOrder
<1>4. \A s \in mayRecover' : s.entities[x] # None => AsLate(s.entities[x], entities[x])
    BY <1>3, StepFacts DEF Covered
<1>5. logged'.entities[x] # None => AsLate(logged'.entities[x], p)
    OBVIOUS
<1>6. ~degraded' => Core(logged'.entities[x]) = Core(p)
    BY <1>2, LoggedIsLive, StepFacts DEF Covered, StepAt
<1>7. Covered(x)'
    BY <1>4, <1>5, <1>6 DEF Covered
<1> QED
    BY <1>1, <1>7 DEF Good

\* The same for a hand-off.
LEMMA HandoffStaged ==
    ASSUME NEW x \in Entities, StepAt(x), entities[x] # None, ~IsStaged(x),
           entities'[x] = entities[x], degraded => degraded',
           NEW h \in Handoff, h.ver > entities[x].ver, h.epoch >= entities[x].epoch,
           handoffs'[x] = h, NEW store,
           store.entities[x] = IF logged.entities[x] = None THEN None
                               ELSE ApplyHandoff(logged.entities[x], h),
           logged' = store, mayRecover' \subseteq mayRecover \cup {store}
    PROVE  Good(x)
<1> DEFINE p == ApplyHandoff(entities[x], h)
           q == ApplyHandoff(logged.entities[x], h)
<1>1. Promised(x)' = p
    BY PromisedCasesAfter, Present DEF StepAt, SerialAt, PromisedBy
<1>2. p \in EntityState /\ AsLate(p, entities[x])
    <2>1. p.ver = h.ver /\ p.epoch = h.epoch /\ p \in EntityState
        BY StepFacts, ApplyFacts, ApplyTypes
    <2>2. entities[x].ver \in Nat /\ h.ver \in Nat
        BY StepFacts DEF EntityState, Handoff
    <2> HIDE DEF p
    <2> QED
        BY <2>1, <2>2 DEF AsLate
<1>3. logged.entities[x] # None =>
         /\ q \in EntityState /\ AsLate(q, p)
         /\ Core(logged.entities[x]) = Core(entities[x]) => Core(q) = Core(p)
    BY StepFacts, ApplyFacts, ApplyTypes
<1> HIDE DEF p, q
<1>4. /\ logged.entities[x] = None => store.entities[x] = None
      /\ logged.entities[x] # None => store.entities[x] = q
    BY DEF q
<1> QED
    BY <1>1, <1>2, <1>3, <1>4, TransitionStaged

\* And for a failover's grant.
LEMMA GrantStaged ==
    ASSUME NEW x \in Entities, StepAt(x), entities[x] # None, ~IsStaged(x),
           entities'[x] = entities[x], degraded => degraded',
           NEW g \in Grant, g.ver > entities[x].ver, g.epoch >= entities[x].epoch,
           NEW i \in Grants(x)', failovers'[i].grants[x] = g, NEW store,
           store.entities[x] = IF logged.entities[x] = None THEN None
                               ELSE ApplyGrant(logged.entities[x], g),
           logged' = store, mayRecover' \subseteq mayRecover \cup {store}
    PROVE  Good(x)
<1> DEFINE p == ApplyGrant(entities[x], g)
           q == ApplyGrant(logged.entities[x], g)
<1>1. Promised(x)' = p
    <2>1. PromisedBy(x)'
        BY PromisedCasesAfter DEF StepAt, SerialAt
    <2> QED
        BY <2>1 DEF PromisedBy
<1>2. p \in EntityState /\ AsLate(p, entities[x])
    <2>1. p.ver = g.ver /\ p.epoch = g.epoch /\ p \in EntityState
        BY StepFacts, ApplyFacts, ApplyTypes
    <2>2. entities[x].ver \in Nat /\ g.ver \in Nat
        BY StepFacts DEF EntityState, Grant
    <2> HIDE DEF p
    <2> QED
        BY <2>1, <2>2 DEF AsLate
<1>3. logged.entities[x] # None =>
         /\ q \in EntityState /\ AsLate(q, p)
         /\ Core(logged.entities[x]) = Core(entities[x]) => Core(q) = Core(p)
    BY StepFacts, ApplyFacts, ApplyTypes
<1> HIDE DEF p, q
<1>4. /\ logged.entities[x] = None => store.entities[x] = None
      /\ logged.entities[x] # None => store.entities[x] = q
    BY DEF q
<1> QED
    BY <1>1, <1>2, <1>3, <1>4, TransitionStaged

\* A re-route across a moved boundary.
LEMMA ReRouteGood ==
    ASSUME NEW x \in Entities, StepAt(x), NEW e \in Entities, NEW r \in Regions, ReRoute(e, r)
    PROVE  Good(x)
<1> DEFINE h == PrepareHandoff(entities[e], r, entities[e].val["pos"])
           hs == [NoHandoffs EXCEPT ![e] = h]
           store == ReplayHandoffs(logged, hs)
<1>1. /\ entities[e] # None /\ handoffs[e] = None
      /\ \/ AppendNoSync(store) /\ handoffs' = [handoffs EXCEPT ![e] = h]
         \/ AppendFails /\ UNCHANGED handoffs
      /\ UNCHANGED <<entities, deleted, nextId, regionWorker, writes, failovers>>
    BY Zenon DEF ReRoute
<1>2. h \in Handoff /\ h.ver > entities[e].ver /\ h.epoch >= entities[e].epoch
    <2>1. entities[e] \in EntityState
        BY <1>1 DEF StepAt, TypeOK
    <2>2. entities[e].val["pos"] \in Data /\ entities[e].ver \in Nat
        BY <2>1 DEF EntityState, Fields
    <2> QED
        BY <2>1, <2>2, PrepareFacts DEF StepAt
<1> HIDE DEF h
<1>3. hs[e] = h /\ (x # e => hs[x] = None)
    BY DEF NoHandoffs
<1> HIDE DEF hs
<1>4. store.entities[e] = IF logged.entities[e] = None THEN None
                          ELSE ApplyHandoff(logged.entities[e], h)
    <2>1. logged \in Store /\ hs[e] # None
        BY <1>2, <1>3, Present DEF StepAt, TypeOK
    <2> QED
        BY <1>3, <2>1, ReplayHere
<1>5. x # e => store.entities[x] = logged.entities[x]
    BY <1>3, ReplayElsewhere, StepFacts
<1> HIDE DEF store
<1>6. /\ writes'[x] = writes[x] /\ Grants(x)' = Grants(x) /\ entities'[x] = entities[x]
      /\ \A i \in Grants(x) : failovers'[i].grants[x] = failovers[i].grants[x]
    BY <1>1 DEF Grants
<1>7. CASE AppendFails /\ UNCHANGED handoffs
    <2>1. SameLog(x)
        BY <1>7 DEF AppendFails, disk, SameLog
    <2> QED
        BY <1>6, <1>7, <2>1, Undisturbed DEF SameStaged
<1>8. CASE AppendNoSync(store) /\ handoffs' = [handoffs EXCEPT ![e] = h] /\ x # e
    <2>1. SameLog(x)
        BY <1>5, <1>8, StepFacts, AppendElsewhere
    <2>2. SameStaged(x)
        BY <1>6, <1>8 DEF SameStaged, StepAt, TypeOK
    <2> QED
        BY <1>6, <2>1, <2>2, Undisturbed
<1>9. CASE AppendNoSync(store) /\ handoffs' = [handoffs EXCEPT ![e] = h] /\ x = e
    <2>1. handoffs'[x] = h /\ h # None
        BY <1>2, <1>9, Present DEF StepAt, TypeOK
    <2>2. ~IsStaged(x)
        BY <1>1, <1>6, <1>9, <2>1 DEF StepAt, SerialAt, AtMostOne, IsStaged
    <2>3. /\ logged' = store /\ mayRecover' \subseteq mayRecover \cup {store}
          /\ degraded => degraded'
        BY <1>9 DEF AppendNoSync
    <2> QED
        BY <1>1, <1>2, <1>4, <1>6, <1>9, <2>1, <2>2, <2>3, HandoffStaged
<1> QED
    BY <1>1, <1>7, <1>8, <1>9

\* A failover of a region, which grants the entities the old worker owns.
LEMMA FailOverGood ==
    ASSUME NEW x \in Entities, StepAt(x), NEW w \in Workers, NEW r \in Regions, FailOver(r, w)
    PROVE  Good(x)
<1> DEFINE old == regionWorker[r]
           grants == [e \in Entities |->
               IF entities[e] = None THEN None
               ELSE IF entities[e].region = r /\ Moves(entities[e], old)
               THEN [ver |-> entities[e].ver + 1, owner |-> w,
                     epoch |-> entities[e].epoch + 1]
               ELSE None]
           failover == [region |-> r, to |-> w, grants |-> grants]
           store == ReplayGrants(logged, grants)
           n == Len(failovers)
<1>1. /\ \/ AppendNoSync(store) /\ failovers' = Append(failovers, failover)
         \/ AppendFails /\ UNCHANGED failovers
      /\ UNCHANGED <<entities, deleted, nextId, regionWorker, writes, handoffs>>
    BY Zenon DEF FailOver
<1>2. grants[x] # None => /\ entities[x] # None
                          /\ grants[x] = [ver |-> entities[x].ver + 1, owner |-> w,
                                          epoch |-> entities[x].epoch + 1]
    OBVIOUS
<1>3. grants[x] # None => /\ grants[x] \in Grant
                          /\ grants[x].ver > entities[x].ver
                          /\ grants[x].epoch >= entities[x].epoch
    <2>1. entities[x] # None => entities[x].ver \in Nat /\ entities[x].epoch \in Nat
        BY StepFacts DEF EntityState
    <2> HIDE DEF grants
    <2> QED
        BY <1>2, <2>1 DEF Grant
<1> HIDE DEF grants
<1>4. failover.grants[x] = grants[x]
    OBVIOUS
<1> HIDE DEF failover
<1>5. store.entities[x] = IF grants[x] = None \/ logged.entities[x] = None
                          THEN logged.entities[x]
                          ELSE ApplyGrant(logged.entities[x], grants[x])
    BY ReplayElsewhere, ReplayHere, StepFacts
<1> HIDE DEF store
<1>6. writes'[x] = writes[x] /\ handoffs'[x] = handoffs[x] /\ entities'[x] = entities[x]
    BY <1>1
<1>7. CASE AppendFails /\ UNCHANGED failovers
    <2>1. SameLog(x)
        BY <1>7 DEF AppendFails, disk, SameLog
    <2> QED
        BY <1>6, <1>7, <2>1, Undisturbed DEF SameStaged, Grants
<1>8. CASE AppendNoSync(store) /\ failovers' = Append(failovers, failover)
    <2>1. /\ n \in Nat /\ failovers'[n + 1] = failover
          /\ \A i \in 1 .. n : failovers'[i] = failovers[i]
          /\ DOMAIN failovers' = 1 .. (n + 1) /\ DOMAIN failovers = 1 .. n
        BY <1>8 DEF StepAt, TypeOK
    <2> HIDE DEF n
    <2>2. Grants(x)' = IF grants[x] = None THEN Grants(x) ELSE Grants(x) \cup {n + 1}
        <3>1. Grants(x)' = {i \in 1 .. (n + 1) : failovers'[i].grants[x] # None}
            BY <2>1 DEF Grants
        <3>2. Grants(x) = {i \in 1 .. n : failovers[i].grants[x] # None}
            BY <2>1 DEF Grants
        <3>3. 1 .. (n + 1) = (1 .. n) \cup {n + 1}
            BY <2>1
        <3> QED
            BY <1>4, <2>1, <3>1, <3>2, <3>3
    <2>3. Grants(x) \subseteq 1 .. n
        BY <2>1 DEF Grants
    <2>4. CASE grants[x] = None
        <3>1. SameLog(x)
            BY <1>5, <1>8, <2>4, StepFacts, AppendElsewhere
        <3>2. SameStaged(x)
            BY <1>6, <2>2, <2>4 DEF SameStaged
        <3>3. \A i \in Grants(x) : failovers'[i].grants[x] = failovers[i].grants[x]
            BY <2>1, <2>3
        <3> QED
            BY <1>6, <3>1, <3>2, <3>3, Undisturbed
    <2>5. CASE grants[x] # None
        <3>1. n + 1 \in Grants(x)' /\ failovers'[n + 1].grants[x] = grants[x]
            BY <1>4, <2>1, <2>2, <2>5
        <3>2. ~IsStaged(x)
            <4>1. writes'[x] = <<>> /\ handoffs'[x] = None /\ \A i \in Grants(x)' : i = n + 1
                BY <3>1 DEF StepAt, SerialAt, AtMostOne
            <4>2. n + 1 \notin Grants(x)
                BY <2>1, <2>3
            <4> QED
                BY <1>6, <2>2, <2>5, <4>1, <4>2 DEF IsStaged
        <3>3. /\ logged' = store /\ mayRecover' \subseteq mayRecover \cup {store}
              /\ degraded => degraded'
            BY <1>8 DEF AppendNoSync
        <3>4. store.entities[x] = IF logged.entities[x] = None THEN None
                                  ELSE ApplyGrant(logged.entities[x], grants[x])
            BY <1>5, <2>5
        <3> QED
            BY <1>2, <1>3, <1>6, <2>5, <3>1, <3>2, <3>3, <3>4, GrantStaged
    <2> QED
        BY <2>4, <2>5
<1> QED
    BY <1>1, <1>7, <1>8

(***************************************************************************)
(* The durability tick.                                                    *)
(***************************************************************************)
\* The hand-off of a mover: of the version after its staged writes'.
LEMMA MoveFacts ==
    ASSUME NEW x \in Entities, StepAt(x), x \in Movers
    PROVE  /\ entities[x] # None /\ handoffs[x] = None /\ writes[x] # <<>>
           /\ MoveOf(x) \in Handoff
           /\ MoveOf(x).ver = Updated(x).ver + 1
           /\ MoveOf(x).epoch >= entities[x].epoch
<1> DEFINE n == Len(writes[x])
           i == FirstOf(Crossings(x))
           u == writes[x][i]
<1>1. entities[x] # None /\ handoffs[x] = None /\ Crossings(x) # {}
    BY DEF Movers
<1>2. entities[x] \in EntityState /\ writes[x] \in Seq(Update) /\ n \in Nat
    BY <1>1 DEF StepAt, TypeOK
<1>3. Crossings(x) \subseteq 1 .. n
    BY <1>2 DEF Crossings, WritesOn
<1>4. i \in Crossings(x)
    BY <1>1, <1>3, FirstOfMember
<1> HIDE DEF i
<1>5. i \in 1 .. n /\ u.comp = "pos" /\ u.val # entities[x].region /\ u \in Update
    BY <1>2, <1>3, <1>4 DEF Crossings, WritesOn
<1>6. i = n
    <2>1. ~WritesPastCrossing(x)
        BY DEF StepAt, ReplayInv
    <2>2. i \notin 1 .. (n - 1)
        BY <1>5, <2>1 DEF WritesPastCrossing
    <2> QED
        BY <1>2, <1>5, <2>2
<1>7. writes[x] # <<>>
    BY <1>2, <1>5
<1>8. Updated(x).ver = u.ver
    BY <1>1, <1>6, <1>7, UpdatedIs DEF StepAt, UpdatedFields
<1>9. u.val \in Regions /\ u.ver \in Nat
    BY <1>5, NoneAssumption DEF Update
<1> HIDE DEF u
<1> DEFINE st == [entities[x] EXCEPT !.ver = u.ver]
<1>10. st \in EntityState /\ st.ver = u.ver /\ st.epoch = entities[x].epoch
    BY <1>2, <1>9 DEF EntityState
<1> HIDE DEF st
<1>11. LET h == PrepareHandoff(st, u.val, u.val) IN
       h \in Handoff /\ h.ver = st.ver + 1 /\ h.epoch >= st.epoch
    BY <1>9, <1>10, PrepareFacts DEF StepAt, Data
<1>12. MoveOf(x) = PrepareHandoff(st, u.val, u.val)
    BY DEF MoveOf, st, u, i
<1> QED
    BY <1>1, <1>7, <1>8, <1>10, <1>11, <1>12

\* A flush whose group fsync fails drops the staged writes.
LEMMA FlushFailsGood ==
    ASSUME NEW x \in Entities, StepAt(x), FlushFails
    PROVE  Good(x)
<1>1. /\ writes'[x] = <<>> /\ handoffs'[x] = handoffs[x] /\ Grants(x)' = Grants(x)
      /\ \A i \in Grants(x) : failovers'[i].grants[x] = failovers[i].grants[x]
      /\ entities'[x] = entities[x] /\ degraded' = TRUE
    BY DEF FlushFails, NoWrites, Grants
<1>2. SameLog(x)
    BY DEF FlushFails, disk, SameLog
<1>3. CASE writes[x] = <<>>
    BY <1>1, <1>2, <1>3, Undisturbed DEF SameStaged
<1>4. CASE writes[x] # <<>>
    <2>1. ~IsStaged(x)'
        BY <1>1, <1>4, StepFacts DEF AtMostOne, IsStaged
    <2>2. Forward(x)
        BY <1>1, StepFacts, AsLateOrder DEF Forward
    <2>3. entities'[x] # None =>
              \A s \in mayRecover' : s.entities[x] # None => AsLate(s.entities[x], entities'[x])
        BY <1>1, StepFacts DEF FlushFails, disk, Covered
    <2> QED
        BY <1>1, <2>1, <2>2, <2>3, Settled
<1> QED
    BY <1>3, <1>4

\* What a flush does at x.
FlushedAt(x, S, h, f, full) ==
    /\ entities'[x] =
          LET st == IF h THEN HandedOff(Updated(x), Queued(S)[x]) ELSE Updated(x)
          IN  IF f THEN Granted(st, x) ELSE st
    /\ writes'[x] = <<>> /\ Grants(x)' = {}
    /\ handoffs'[x] = IF h THEN None ELSE Queued(S)[x]
    /\ degraded' = (degraded \/ S # Movers \/ ~h \/ ~f)
    /\ logged' = full
    /\ full.entities[x] =
          IF x \in S /\ logged.entities[x] # None
          THEN ApplyHandoff(logged.entities[x], MoveOf(x)) ELSE logged.entities[x]
    /\ \/ mayRecover' = {full}
       \/ /\ h => Queued(S) = NoHandoffs
          /\ f => failovers = <<>>
          /\ IF writes # NoWrites
             THEN \A s \in mayRecover' : s.entities[x] \in {logged.entities[x], full.entities[x]}
             ELSE mayRecover' = mayRecover
LEMMA FlushAt ==
    ASSUME NEW x \in Entities, StepAt(x), NEW S \in SUBSET Movers,
           NEW h \in BOOLEAN, NEW f \in BOOLEAN, FlushApplies(S, h, f)
    PROVE  \E full : FlushedAt(x, S, h, f, full)
<1> DEFINE queued == Queued(S)
           of(T) == [e \in Entities |-> IF e \in T THEN queued[e] ELSE None]
           full == ReplayHandoffs(logged, of(S))
           partial == {ReplayHandoffs(logged, of(T)) : T \in SUBSET S}
<1>1. /\ ~(queued # NoHandoffs) => h
      /\ ~(failovers # <<>>) => f
      /\ entities' = [e \in Entities |->
              LET st == IF h THEN HandedOff(Updated(e), queued[e]) ELSE Updated(e)
              IN  IF f THEN Granted(st, e) ELSE st]
      /\ writes' = NoWrites
      /\ handoffs' = IF h THEN NoHandoffs ELSE queued
      /\ failovers' = <<>>
      /\ degraded' = (degraded \/ S # Movers \/ ~h \/ ~f)
      /\ logged' = full
      /\ mayRecover' = IF (queued # NoHandoffs /\ h) \/ (failovers # <<>> /\ f) THEN {full}
                       ELSE IF writes # NoWrites THEN partial ELSE mayRecover
    BY Zenon DEF FlushApplies
<1>2. queued \in [Entities -> Handoff \cup {None}]
    BY QueuedType DEF StepAt
<1>3. x \in S => queued[x] = MoveOf(x) /\ MoveOf(x) # None
    BY MoveFacts, Present DEF Queued
<1> HIDE DEF queued
<1>4. \A T : of(T)[x] = IF x \in T THEN queued[x] ELSE None
    OBVIOUS
<1> HIDE DEF of
<1>5. \A T \in SUBSET S : ReplayHandoffs(logged, of(T)).entities[x] =
          IF x \in T /\ logged.entities[x] # None
          THEN ApplyHandoff(logged.entities[x], MoveOf(x)) ELSE logged.entities[x]
    BY <1>3, <1>4, StepFacts, ReplayHere, ReplayElsewhere
<1>6. full.entities[x] = IF x \in S /\ logged.entities[x] # None
          THEN ApplyHandoff(logged.entities[x], MoveOf(x)) ELSE logged.entities[x]
    BY <1>5
<1>7. \A s \in partial : s.entities[x] \in {logged.entities[x], full.entities[x]}
    BY <1>5, <1>6
<1> HIDE DEF full, partial
<1>8. Grants(x)' = {} /\ writes'[x] = <<>> /\ handoffs'[x] = IF h THEN None ELSE queued[x]
    BY <1>1 DEF Grants, NoWrites, NoHandoffs
<1>9. \/ mayRecover' = {full}
      \/ /\ h => queued = NoHandoffs
         /\ f => failovers = <<>>
         /\ IF writes # NoWrites
            THEN \A s \in mayRecover' : s.entities[x] \in {logged.entities[x], full.entities[x]}
            ELSE mayRecover' = mayRecover
    BY <1>1, <1>7
<1>10. entities'[x] =
          LET st == IF h THEN HandedOff(Updated(x), queued[x]) ELSE Updated(x)
          IN  IF f THEN Granted(st, x) ELSE st
    BY <1>1
<1> QED
    BY <1>1, <1>6, <1>8, <1>9, <1>10 DEF FlushedAt, queued

\* A flush at an entity whose staged write leaves its region: the hand-off it
\* stages is applied with the write, or stays queued.
LEMMA FlushMoverGood ==
    ASSUME NEW x \in Entities, StepAt(x), NEW S \in SUBSET Movers,
           NEW h \in BOOLEAN, NEW f \in BOOLEAN, NEW full, FlushedAt(x, S, h, f, full),
           x \in S
    PROVE  Good(x)
<1> DEFINE m == MoveOf(x)
           st == Updated(x)
           l == logged.entities[x]
<1>1. /\ entities[x] # None /\ handoffs[x] = None /\ writes[x] # <<>>
      /\ m \in Handoff /\ m.ver = st.ver + 1 /\ m.epoch >= entities[x].epoch
    BY MoveFacts
<1>2. Queued(S)[x] = m /\ Queued(S) # NoHandoffs
    BY <1>1, Present DEF Queued, NoHandoffs
<1>3. st \in EntityState /\ Promised(x) = st /\ st.epoch = entities[x].epoch
    BY <1>1, PromisedType, StepFacts, UpdatedIs DEF PromisedBy, StepAt, UpdatedFields
<1>4. AsLate(st, entities[x])
    BY <1>1, <1>3, StepFacts DEF Covered
<1>5. Grants(x) = {}
    BY <1>1, StepFacts DEF AtMostOne
<1>6. entities'[x] = IF h THEN ApplyHandoff(st, m) ELSE st
    <2>1. HandedOff(st, m) = ApplyHandoff(st, m)
        BY <1>1, <1>3, Present DEF HandedOff
    <2>2. \A a : Granted(a, x) = a
        BY <1>5 DEF Granted, Grants
    <2> QED
        BY <1>2, <2>1, <2>2 DEF FlushedAt
<1>7. full.entities[x] = IF l = None THEN None ELSE ApplyHandoff(l, m)
    BY DEF FlushedAt
<1>8. \A s \in mayRecover' : s.entities[x] = full.entities[x] \/ (~h /\ s.entities[x] = l)
    BY <1>1, <1>2 DEF FlushedAt, NoWrites
<1> HIDE DEF m, st
<1>9. ApplyHandoff(st, m) \in EntityState /\ AsLate(ApplyHandoff(st, m), st)
    <2>1. /\ ApplyHandoff(st, m) \in EntityState
          /\ ApplyHandoff(st, m).ver = m.ver /\ ApplyHandoff(st, m).epoch = m.epoch
        BY <1>1, <1>3, ApplyFacts, ApplyTypes
    <2>2. st.ver \in Nat
        BY <1>3 DEF EntityState
    <2> QED
        BY <1>1, <1>3, <2>1, <2>2 DEF AsLate
<1>10. l # None => /\ l \in EntityState /\ ApplyHandoff(l, m) \in EntityState
                   /\ AsLate(l, st) /\ AsLate(ApplyHandoff(l, m), ApplyHandoff(st, m))
                   /\ Core(l) = Core(st) => Core(ApplyHandoff(l, m)) = Core(ApplyHandoff(st, m))
    BY <1>1, <1>3, StepFacts, ApplyFacts, ApplyTypes DEF Covered
<1> DEFINE ml == ApplyHandoff(l, m)
           mst == ApplyHandoff(st, m)
<1>11. l # None => AsLate(ml, st)
    BY <1>3, <1>9, <1>10, AsLateOrder
<1>12. ~degraded' => l # None /\ Core(l) = Core(st) /\ h
    BY <1>1, <1>3, StepFacts, LoggedIsLive DEF FlushedAt, Covered, StepAt
<1>13. Forward(x)
    BY <1>1, <1>3, <1>4, <1>6, <1>9, StepFacts, AsLateOrder DEF Forward
<1>14. logged' = full
    BY DEF FlushedAt
<1> HIDE DEF l
<1>15. CASE h
    <2>1. ~IsStaged(x)'
        BY <1>15 DEF FlushedAt, IsStaged
    <2>2. \A s \in mayRecover' : s.entities[x] # None => AsLate(s.entities[x], entities'[x])
        BY <1>6, <1>7, <1>8, <1>10, <1>15
    <2>3. ~degraded' => Core(logged'.entities[x]) = Core(entities'[x])
        BY <1>6, <1>7, <1>10, <1>12, <1>14, <1>15
    <2> QED
        BY <1>13, <2>1, <2>2, <2>3, Settled
<1>16. CASE ~h
    <2>1. entities'[x] = st /\ handoffs'[x] = m /\ st # None
        BY <1>2, <1>3, <1>6, <1>16, Present DEF FlushedAt
    <2>2. Promised(x)' = mst
        <3>1. PromisedBy(x)'
            BY PromisedCasesAfter DEF StepAt, SerialAt
        <3> QED
            BY <1>1, <2>1, <3>1, Present DEF PromisedBy
    <2>3. \A s \in mayRecover' : s.entities[x] # None => AsLate(s.entities[x], entities'[x])
        BY <1>7, <1>8, <1>10, <1>11, <2>1
    <2>4. degraded'
        BY <1>12, <1>16 DEF StepAt, TypeOK
    <2>5. logged'.entities[x] # None => AsLate(logged'.entities[x], mst)
        BY <1>7, <1>10, <1>14
    <2>6. Covered(x)'
        BY <1>9, <2>1, <2>2, <2>3, <2>4, <2>5 DEF Covered
    <2>7. StagedIsLive(x)'
        BY <2>1 DEF StagedIsLive
    <2> QED
        BY <1>13, <2>6, <2>7 DEF Good
<1> QED
    BY <1>15, <1>16

\* A flush at any other entity: what is promised is shown, or is dropped, or
\* stays queued.
LEMMA FlushOtherGood ==
    ASSUME NEW x \in Entities, StepAt(x), NEW S \in SUBSET Movers,
           NEW h \in BOOLEAN, NEW f \in BOOLEAN, NEW full, FlushedAt(x, S, h, f, full),
           x \notin S
    PROVE  Good(x)
<1>1. Queued(S)[x] = handoffs[x]
    BY DEF Queued
<1>2. logged'.entities[x] = logged.entities[x] /\ (degraded => degraded')
    BY DEF FlushedAt
<1>3. /\ \A s \in mayRecover' : \E t \in mayRecover : s.entities[x] = t.entities[x]
      /\ \/ \A s \in mayRecover' : s.entities[x] = logged.entities[x]
         \/ /\ h => Queued(S) = NoHandoffs
            /\ f => failovers = <<>>
            /\ writes = NoWrites
    <2>1. full.entities[x] = logged.entities[x] /\ logged \in mayRecover
        BY StepFacts DEF FlushedAt
    <2> QED
        BY <2>1 DEF FlushedAt
<1>4. SameLog(x)
    BY <1>2, <1>3 DEF SameLog
\* RAM stays, and nothing is staged any more.
<1>5. ASSUME entities'[x] = entities[x], ~IsStaged(x)',
             ~degraded' => Promised(x) = entities[x]
      PROVE  Good(x)
    <2>1. Forward(x)
        BY <1>5, StepFacts, AsLateOrder DEF Forward
    <2>2. entities'[x] # None =>
              /\ \A s \in mayRecover' : s.entities[x] # None =>
                    AsLate(s.entities[x], entities'[x])
              /\ ~degraded' => Core(logged'.entities[x]) = Core(entities'[x])
        BY <1>2, <1>3, <1>5, StepFacts DEF Covered
    <2> QED
        BY <1>5, <2>1, <2>2, Settled
\* RAM becomes what was promised, and every crash leaves it.
<1>6. ASSUME entities[x] # None, entities'[x] = Promised(x), ~IsStaged(x)',
             \A s \in mayRecover' : s.entities[x] = logged.entities[x]
      PROVE  Good(x)
    <2>1. Forward(x)
        BY <1>6, StepFacts DEF Forward, Covered
    <2>2. /\ \A s \in mayRecover' : s.entities[x] # None =>
                    AsLate(s.entities[x], entities'[x])
          /\ ~degraded' => Core(logged'.entities[x]) = Core(entities'[x])
        BY <1>2, <1>6, StepFacts DEF Covered
    <2> QED
        BY <1>6, <2>1, <2>2, Settled
<1>7. CASE ~IsStaged(x)
    <2>1. Promised(x) = entities[x]
        BY <1>7, StepFacts DEF PromisedBy
    <2>2. entities'[x] = entities[x]
        <3>1. Updated(x) = entities[x] /\ Grants(x) = {} /\ handoffs[x] = None
            BY <1>7 DEF IsStaged, Updated
        <3>2. HandedOff(entities[x], None) = entities[x]
            BY DEF HandedOff
        <3>3. Granted(entities[x], x) = entities[x]
            BY <3>1 DEF Granted, Grants
        <3> QED
            BY <1>1, <3>1, <3>2, <3>3 DEF FlushedAt
    <2>3. ~IsStaged(x)'
        BY <1>1, <1>7 DEF FlushedAt, IsStaged
    <2> QED
        BY <1>5, <2>1, <2>2, <2>3
<1>8. CASE writes[x] # <<>>
    <2>1. handoffs[x] = None /\ Grants(x) = {} /\ entities[x] # None
        BY <1>8, StepFacts DEF AtMostOne, StagedIsLive, IsStaged
    <2>2. Promised(x) = Updated(x)
        BY <1>8, <2>1, StepFacts DEF PromisedBy
    <2>3. entities'[x] = Updated(x)
        <3>1. HandedOff(Updated(x), None) = Updated(x)
            BY DEF HandedOff
        <3>2. Granted(Updated(x), x) = Updated(x)
            BY <2>1 DEF Granted, Grants
        <3> QED
            BY <1>1, <2>1, <3>1, <3>2 DEF FlushedAt
    <2>4. ~IsStaged(x)'
        BY <1>1, <2>1 DEF FlushedAt, IsStaged
    <2>5. writes # NoWrites
        BY <1>8 DEF NoWrites
    <2> QED
        BY <1>3, <1>6, <2>1, <2>2, <2>3, <2>4, <2>5
<1>9. CASE handoffs[x] # None
    <2>1. writes[x] = <<>> /\ Grants(x) = {} /\ entities[x] # None
        BY <1>9, StepFacts DEF AtMostOne, StagedIsLive, IsStaged
    <2>2. Promised(x) = ApplyHandoff(entities[x], handoffs[x])
        BY <1>9, <2>1, StepFacts DEF PromisedBy
    <2>3. Updated(x) = entities[x]
        BY <2>1 DEF Updated
    <2>4. \A st : Granted(st, x) = st
        BY <2>1 DEF Granted, Grants
    <2>5. entities'[x] = IF h THEN ApplyHandoff(entities[x], handoffs[x]) ELSE entities[x]
        BY <1>1, <1>9, <2>1, <2>3, <2>4 DEF FlushedAt, HandedOff
    <2>6. CASE h
        <3>1. Queued(S) # NoHandoffs
            BY <1>1, <1>9 DEF NoHandoffs
        <3>2. ~IsStaged(x)'
            BY <2>6 DEF FlushedAt, IsStaged
        <3> QED
            BY <1>3, <1>6, <2>1, <2>2, <2>5, <2>6, <3>1, <3>2
    <2>7. CASE ~h
        <3>1. SameStaged(x)
            BY <1>1, <2>1, <2>7 DEF FlushedAt, SameStaged
        <3> QED
            BY <1>4, <2>1, <2>5, <2>7, <3>1, Undisturbed
    <2> QED
        BY <2>6, <2>7
<1>10. CASE Grants(x) # {}
    <2>1. writes[x] = <<>> /\ handoffs[x] = None /\ entities[x] # None
        BY <1>10, StepFacts DEF AtMostOne, StagedIsLive, IsStaged
    <2>2. Updated(x) = entities[x]
        BY <2>1 DEF Updated
    <2>3. HandedOff(entities[x], None) = entities[x]
        BY DEF HandedOff
    <2>4. Promised(x) = Granted(entities[x], x)
        BY <2>1, <2>2, <2>3 DEF Promised
    <2>5. entities'[x] = IF f THEN Granted(entities[x], x) ELSE entities[x]
        BY <1>1, <2>1, <2>2, <2>3 DEF FlushedAt
    <2>6. ~IsStaged(x)'
        BY <1>1, <2>1 DEF FlushedAt, IsStaged
    <2>7. failovers # <<>>
        BY <1>10 DEF Grants
    <2>8. ~f => degraded'
        BY DEF FlushedAt, StepAt, TypeOK
    <2> QED
        BY <1>3, <1>5, <1>6, <2>1, <2>4, <2>5, <2>6, <2>7, <2>8
<1> QED
    BY <1>7, <1>8, <1>9, <1>10 DEF IsStaged

\* A flush.
LEMMA FlushGood ==
    ASSUME NEW x \in Entities, StepAt(x), Flush
    PROVE  Good(x)
<1>1. ASSUME NEW S \in SUBSET Movers, NEW h \in BOOLEAN, NEW f \in BOOLEAN,
             FlushApplies(S, h, f)
      PROVE  Good(x)
    <2>1. PICK full : FlushedAt(x, S, h, f, full)
        BY <1>1, FlushAt
    <2> QED
        BY <2>1, FlushMoverGood, FlushOtherGood
<1> QED
    BY <1>1, FlushFailsGood DEF Flush

(***************************************************************************)
(* Folds, compaction and restarts.                                         *)
(***************************************************************************)
\* A portal fold: it applies every hand-off that is queued, its own included.
LEMMA FoldGood ==
    ASSUME NEW x \in Entities, StepAt(x), NEW w \in Workers, NEW e \in Entities,
           NEW to \in Regions, NEW pos \in Regions, Fold(w, e, to, pos)
    PROVE  Good(x)
<1> DEFINE fresh == IF handoffs[e] = None THEN PrepareHandoff(entities[e], to, pos)
                                          ELSE None
           queued == IF fresh = None THEN handoffs ELSE [handoffs EXCEPT ![e] = fresh]
           hs == [NoHandoffs EXCEPT ![e] = fresh]
           store == IF fresh = None THEN logged ELSE ReplayHandoffs(logged, hs)
<1>1. /\ entities[e] # None
      /\ \/ /\ AppendSync(store)
            /\ entities' = [y \in Entities |-> HandedOff(entities[y], queued[y])]
            /\ handoffs' = NoHandoffs
         \/ /\ logged' = store /\ mayRecover' = mayRecover \cup {store}
            /\ degraded' = TRUE /\ handoffs' = queued /\ UNCHANGED entities
         \/ fresh # None /\ AppendFails /\ UNCHANGED <<entities, handoffs>>
      /\ UNCHANGED <<deleted, nextId, regionWorker, writes, failovers>>
    BY Zenon DEF Fold
<1>2. fresh # None =>
         /\ fresh \in Handoff /\ handoffs[e] = None
         /\ fresh.ver > entities[e].ver /\ fresh.epoch >= entities[e].epoch
    <2>1. entities[e] \in EntityState /\ entities[e].ver \in Nat
        BY <1>1 DEF StepAt, TypeOK, EntityState
    <2> QED
        BY <2>1, PrepareFacts DEF StepAt, Data
<1>3. handoffs[e] = None => fresh # None
    <2>1. entities[e] \in EntityState
        BY <1>1 DEF StepAt, TypeOK
    <2>2. PrepareHandoff(entities[e], to, pos) # None
        BY <2>1, PrepareFacts, Present DEF StepAt, Data
    <2> QED
        BY <2>2
<1> HIDE DEF fresh
<1>4. queued[x] = IF fresh # None /\ x = e THEN fresh ELSE handoffs[x]
    BY DEF StepAt, TypeOK
<1>5. hs[x] = IF x = e THEN fresh ELSE None
    BY DEF NoHandoffs
<1> HIDE DEF queued, hs
<1>6. store.entities[x] =
          IF fresh # None /\ x = e /\ logged.entities[x] # None
          THEN ApplyHandoff(logged.entities[x], fresh) ELSE logged.entities[x]
    BY <1>5, ReplayElsewhere, ReplayHere, StepFacts
<1> HIDE DEF store
<1>7. /\ writes'[x] = writes[x] /\ Grants(x)' = Grants(x)
      /\ \A i \in Grants(x) : failovers'[i].grants[x] = failovers[i].grants[x]
    BY <1>1 DEF Grants
<1>8. CASE fresh # None /\ AppendFails /\ UNCHANGED <<entities, handoffs>>
    <2>1. SameLog(x)
        BY <1>8 DEF AppendFails, disk, SameLog
    <2> QED
        BY <1>7, <1>8, <2>1, Undisturbed DEF SameStaged
\* The hand-off of e itself.
<1>9. CASE x = e /\ fresh # None
    <2>1. handoffs[x] = None /\ queued[x] = fresh /\ entities[x] # None
        BY <1>1, <1>2, <1>4, <1>9
    <2>2. CASE AppendSync(store) /\ handoffs' = NoHandoffs
               /\ entities' = [y \in Entities |-> HandedOff(entities[y], queued[y])]
        <3> DEFINE p == ApplyHandoff(entities[x], fresh)
                   q == ApplyHandoff(logged.entities[x], fresh)
        <3>1. entities'[x] = p
            BY <1>9, <2>1, <2>2 DEF HandedOff
        <3>2. p.ver = fresh.ver /\ p.epoch = fresh.epoch /\ p \in EntityState
            BY <1>2, <1>9, <2>1, StepFacts, ApplyFacts, ApplyTypes
        <3>3. p # entities[x] /\ AsLate(p, entities[x])
            <4>1. entities[x].ver \in Nat /\ fresh.ver \in Nat
                BY <1>2, <1>9, <2>1, StepFacts DEF EntityState, Handoff
            <4> HIDE DEF p
            <4> QED
                BY <1>2, <1>9, <3>2, <4>1 DEF AsLate
        <3>4. handoffs'[x] = None
            BY <2>2 DEF NoHandoffs
        <3>5. ~IsStaged(x)
            BY <1>7, <2>1, <3>1, <3>3, <3>4 DEF StepAt, SerialAt, SameStaged
        <3>6. ~IsStaged(x)'
            BY <1>7, <3>4, <3>5 DEF IsStaged
        <3>7. logged.entities[x] # None =>
                  AsLate(q, p) /\ (Core(logged.entities[x]) = Core(entities[x]) => Core(q) = Core(p))
            BY <1>2, <1>9, <2>1, StepFacts, ApplyFacts
        <3>8. ~degraded => logged.entities[x] # None
                           /\ Core(logged.entities[x]) = Core(entities[x])
            BY <2>1, <3>5, StepFacts, LoggedIsLive DEF StepAt, Covered, PromisedBy
        <3>9. Forward(x)
            BY <3>1, <3>3 DEF Forward
        <3> HIDE DEF p
        <3>10. store.entities[x] # None => AsLate(store.entities[x], p)
            BY <1>6, <1>9, <3>7
        <3>11. ~degraded => Core(store.entities[x]) = Core(p)
            BY <1>6, <1>9, <3>7, <3>8
        <3> QED
            BY <2>2, <3>1, <3>6, <3>9, <3>10, <3>11, Settled DEF AppendSync
    <2>3. CASE /\ logged' = store /\ mayRecover' = mayRecover \cup {store}
               /\ degraded' = TRUE /\ handoffs' = queued /\ UNCHANGED entities
        <3>1. handoffs'[x] = fresh /\ fresh \in Handoff /\ entities'[x] = entities[x]
            BY <1>2, <1>9, <2>1, <2>3
        <3>2. ~IsStaged(x)
            BY <1>7, <1>9, <2>1, <3>1 DEF StepAt, SerialAt, AtMostOne, IsStaged
        <3>3. store.entities[x] = IF logged.entities[x] = None THEN None
                                  ELSE ApplyHandoff(logged.entities[x], fresh)
            BY <1>6, <1>9
        <3> QED
            BY <1>2, <1>9, <2>1, <2>3, <3>1, <3>2, <3>3, HandoffStaged
    <2> QED
        BY <1>1, <1>8, <2>2, <2>3
\* Those of the others.
<1>10. CASE ~(x = e /\ fresh # None)
    <2>1. queued[x] = handoffs[x] /\ store.entities[x] = logged.entities[x]
        BY <1>4, <1>6, <1>10
    <2>2. CASE AppendSync(store) /\ handoffs' = NoHandoffs
               /\ entities' = [y \in Entities |-> HandedOff(entities[y], queued[y])]
        <3>1. SameLog(x)
            BY <2>1, <2>2, StepFacts, AppendElsewhere
        <3>2. entities'[x] = HandedOff(entities[x], handoffs[x]) /\ handoffs'[x] = None
            BY <2>1, <2>2 DEF NoHandoffs
        <3>3. CASE handoffs[x] = None
            <4>1. entities'[x] = entities[x] /\ SameStaged(x)
                BY <1>7, <3>2, <3>3 DEF HandedOff, SameStaged
            <4> QED
                BY <1>7, <3>1, <4>1, Undisturbed
        <3>4. CASE handoffs[x] # None
            <4>1. entities[x] # None /\ writes[x] = <<>> /\ Grants(x) = {}
                BY <3>4, StepFacts DEF StagedIsLive, IsStaged, AtMostOne
            <4>2. entities'[x] = Promised(x)
                BY <3>2, <3>4, <4>1, StepFacts DEF PromisedBy, HandedOff
            <4>3. ~IsStaged(x)'
                BY <1>7, <3>2, <4>1 DEF IsStaged
            <4>4. Forward(x)
                BY <4>1, <4>2, StepFacts DEF Forward, Covered
            <4>5. \A s \in mayRecover' : s.entities[x] # None =>
                      AsLate(s.entities[x], entities'[x])
                BY <2>1, <2>2, <4>1, <4>2, StepFacts DEF AppendSync, Covered
            <4>6. ~degraded' => Core(logged'.entities[x]) = Core(entities'[x])
                BY <2>1, <2>2, <4>1, <4>2, StepFacts DEF AppendSync, Covered
            <4> QED
                BY <4>3, <4>4, <4>5, <4>6, Settled
        <3> QED
            BY <3>3, <3>4
    <2>3. CASE /\ logged' = store /\ mayRecover' = mayRecover \cup {store}
               /\ degraded' = TRUE /\ handoffs' = queued /\ UNCHANGED entities
        <3>1. SameLog(x)
            BY <2>1, <2>3, StepFacts DEF SameLog
        <3>2. SameStaged(x)
            BY <1>7, <2>1, <2>3 DEF SameStaged
        <3> QED
            BY <1>7, <2>3, <3>1, <3>2, Undisturbed
    <2> QED
        BY <1>1, <1>8, <2>2, <2>3
<1> QED
    BY <1>9, <1>10

\* A compaction, with nothing staged: the new file is RAM.
LEMMA CompactGood ==
    ASSUME NEW x \in Entities, StepAt(x), Compact
    PROVE  Good(x)
<1>1. /\ ~degraded /\ Idle
      /\ AppendSync(Snapshot) \/ AppendSyncFails(Snapshot)
      /\ UNCHANGED <<entities, staged>>
    BY DEF Compact
<1>2. ~IsStaged(x)
    BY <1>1 DEF Idle, NoWrites, NoHandoffs, IsStaged, Grants
<1>3. ~IsStaged(x)'
    BY <1>1, <1>2 DEF staged, IsStaged, Grants
<1>4. Forward(x)
    BY <1>1, StepFacts, AsLateOrder DEF Forward
<1>5. Snapshot.entities[x] = entities[x]
    BY DEF Snapshot
<1>6. \A s \in mayRecover' : s \in mayRecover \/ s = Snapshot
    BY <1>1 DEF AppendSync, AppendSyncFails, disk
<1>7. entities'[x] # None =>
         \A s \in mayRecover' : s.entities[x] # None => AsLate(s.entities[x], entities'[x])
    BY <1>1, <1>5, <1>6, StepFacts, AsLateOrder DEF Covered
<1>8. ~degraded' => Core(logged'.entities[x]) = Core(entities'[x])
    BY <1>1, <1>5 DEF AppendSync, AppendSyncFails
<1> QED
    BY <1>3, <1>4, <1>7, <1>8, Settled

\* A restart after a power loss: RAM is the store that survived.
LEMMA PowerLossGood ==
    ASSUME NEW x \in Entities, StepAt(x), PowerLoss
    PROVE  Good(x)
<1>1. PICK s \in mayRecover : Recover(s) /\ mayRecover' = {s}
    BY DEF PowerLoss
<1>2. ~IsStaged(x)'
    BY <1>1 DEF Recover, IsStaged, NoWrites, NoHandoffs, Grants
<1>3. entities'[x] = s.entities[x] /\ logged' = s
    BY <1>1 DEF Recover
<1>4. Forward(x)
    BY <1>1, <1>3, StepFacts DEF Forward, Covered
<1>5. entities'[x] # None => AsLate(entities'[x], entities'[x])
    BY <1>1, <1>3, StepFacts, AsLateOrder
<1> QED
    BY <1>1, <1>2, <1>3, <1>4, <1>5, Settled

(***************************************************************************)
(* The inductive step.                                                     *)
(***************************************************************************)
\* Every step of Next, serial at x, is good for x.
LEMMA NextGood ==
    ASSUME NEW x \in Entities, StepAt(x), [Next]_vars, ~ProcessCrashes
    PROVE  Good(x)
<1>1. CASE UNCHANGED vars
    <2>1. SameStaged(x) /\ SameLog(x)
        BY <1>1 DEF vars, staged, disk, SameStaged, SameLog, Grants
    <2> QED
        BY <1>1, <2>1, Undisturbed DEF vars, staged
<1>2. ASSUME NEW w \in Workers, NEW r \in Regions, Connect(w, r) \/ FailOver(r, w)
      PROVE  Good(x)
    BY <1>2, ConnectGood, FailOverGood
<1>3. ASSUME NEW e \in Entities, NEW r \in Regions, CreateEntity(e, r) \/ ReRoute(e, r)
      PROVE  Good(x)
    BY <1>3, CreateGood, ReRouteGood
<1>4. ASSUME NEW w \in Workers, NEW e \in Entities,
             \/ DeleteEntity(w, e)
             \/ \E c \in Comps, v \in Values :
                   AddComponent(w, e, c, v) \/ UpdateComponent(w, e, c, v)
             \/ \E c \in Comps : RemoveComponent(w, e, c)
             \/ \E r \in Regions : UpdateComponent(w, e, "pos", r)
             \/ \E to, pos \in Regions : Fold(w, e, to, pos)
      PROVE  Good(x)
    <2>1. ASSUME NEW c \in Comps, NEW v \in Values, UpdateComponent(w, e, c, v)
          PROVE  Good(x)
        <3>1. c \in Fields /\ \A n \in Nat : [comp |-> c, val |-> v, ver |-> n] \in Update
            BY DEF Fields, Update
        <3> QED
            BY <2>1, <3>1, UpdateGood
    <2>2. ASSUME NEW r \in Regions, UpdateComponent(w, e, "pos", r)
          PROVE  Good(x)
        <3>1. /\ "pos" \in Fields
              /\ \A n \in Nat : [comp |-> "pos", val |-> r, ver |-> n] \in Update
            BY DEF Fields, Update
        <3> QED
            BY <2>2, <3>1, UpdateGood
    <2> QED
        BY <1>4, <2>1, <2>2, DeleteGood, ComponentsGood, FoldGood
<1>5. ASSUME NEW e \in Entities, NEW o \in Workers \cup {None}, SetComponentAuthority(e, o)
      PROVE  Good(x)
    BY <1>5, SetAuthorityGood
<1>6. ReserveEntityIds(1) \/ Flush \/ Compact \/ PowerLoss => Good(x)
    BY ReserveGood, FlushGood, CompactGood, PowerLossGood
<1>7. ~ProcessCrash
    BY DEF ProcessCrash
<1>8. CASE Next
    BY <1>2, <1>3, <1>4, <1>5, <1>6, <1>7, <1>8 DEF Next
<1> QED
    BY <1>1, <1>8

\* A settled step preserves the invariant and rewinds nothing.
LEMMA SettledStep ==
    ASSUME TypeOK, IdentityRecoverable, ReplayInv, [SettledNext]_vars, ~ProcessCrashes
    PROVE  ReplayInv' /\ \A e \in Entities : Forward(e)
<1>1. [Next]_vars
    BY DEF SettledNext, SerialNext
<1>2. TypeOK' /\ IdentityRecoverable'
    BY <1>1, NextType, StepIsIdentityStep, Zenon
<1>3. ASSUME NEW e \in Entities
      PROVE  SerialAt(e) /\ ~WritesPastCrossing(e)'
    <2>1. CASE SettledNext
        BY <1>2, <2>1, SerialSteps DEF SettledNext, SerialNext
    <2>2. CASE UNCHANGED vars
        <3>1. AtMostOne(e) /\ ~WritesPastCrossing(e)
            BY DEF ReplayInv
        <3>2. UNCHANGED <<entities, writes, handoffs, failovers, logged>>
            BY <2>2 DEF vars, staged, disk
        <3> QED
            BY <3>1, <3>2 DEF SerialAt, AtMostOne, Grants, WritesPastCrossing
    <2> QED
        BY <2>1, <2>2
<1>4. ASSUME NEW e \in Entities PROVE Good(e)
    <2>1. StepAt(e)
        BY <1>2, <1>3 DEF StepAt
    <2> QED
        BY <1>1, <2>1, NextGood
<1> QED
    BY <1>3, <1>4 DEF ReplayInv, Good, SerialAt

(***************************************************************************)
(* The theorems.                                                           *)
(***************************************************************************)
\* A settled behavior is a behavior of the broker.
LEMMA SettledIsSpec == SettledSpec => Spec
<1>1. [SettledNext]_vars => [Next]_vars
    BY DEF SettledNext, SerialNext
<1> QED
    BY <1>1, PTL DEF SettledSpec, Spec

\* On the settled schedules, what is staged for an entity is what the log has
\* gained, and RAM is behind no store that a crash may leave.
THEOREM StagedIsLogged ==
    ASSUME ~ProcessCrashes
    PROVE  SettledSpec => [](TypeOK /\ IdentityRecoverable /\ ReplayInv)
<1>1. Init => ReplayInv
    <2> SUFFICES ASSUME Init, NEW e \in Entities
                 PROVE  AtMostOne(e) /\ ~WritesPastCrossing(e) /\ StagedIsLive(e) /\ Covered(e)
        BY DEF ReplayInv
    <2>1. writes[e] = <<>> /\ handoffs[e] = None /\ Grants(e) = {} /\ entities[e] = None
        BY DEF Init, NoWrites, NoHandoffs, Grants, EmptyStore
    <2> QED
        BY <2>1 DEF AtMostOne, WritesPastCrossing, StagedIsLive, IsStaged, Covered
<1>2. TypeOK /\ IdentityRecoverable /\ ReplayInv /\ [SettledNext]_vars => ReplayInv'
    <2> SUFFICES ASSUME TypeOK, IdentityRecoverable, ReplayInv, [SettledNext]_vars
                 PROVE  ReplayInv'
        OBVIOUS
    <2> QED
        BY SettledStep, Zenon
<1> QED
    BY <1>1, <1>2, TypeCorrect, IdentityIsRecoverable, SettledIsSpec, PTL DEF SettledSpec

\* No observer sees a version that a power loss can take back: publication
\* waits for the fsync (flush_pending_updates, flush_pending_handoffs).
THEOREM NothingShownIsLost ==
    ASSUME ~ProcessCrashes
    PROVE  SettledSpec => []VisibleIsDurable
<1>1. TypeOK /\ IdentityRecoverable /\ ReplayInv => VisibleIsDurable
    <2> SUFFICES ASSUME TypeOK, IdentityRecoverable, ReplayInv,
                        NEW s \in mayRecover, NEW e \in Entities, entities[e] # None
                 PROVE  \/ degraded /\ e \in s.deleted
                        \/ s.entities[e] # None /\ s.entities[e].ver >= entities[e].ver
        BY DEF VisibleIsDurable
    <2>1. CASE s.entities[e] # None
        BY <2>1 DEF ReplayInv, Covered, AsLate
    <2>2. CASE s.entities[e] = None
        <3>1. degraded /\ OneAhead(s) /\ ~SameIdentity(s)
            BY <2>2 DEF IdentityRecoverable, SameIdentity, Live
        <3> QED
            BY <2>2, <3>1 DEF OneAhead, Live
    <2> QED
        BY <2>1, <2>2
<1> QED
    BY <1>1, StagedIsLogged, PTL

\* With nothing staged and no failed barrier, replaying the log gives RAM, up
\* to the owners that connects grant.
THEOREM ReplayGivesRam ==
    ASSUME ~ProcessCrashes
    PROVE  SettledSpec => []RamIsReplay
<1>1. TypeOK /\ IdentityRecoverable /\ ReplayInv => RamIsReplay
    <2> SUFFICES ASSUME TypeOK, IdentityRecoverable, ReplayInv, ~degraded, Idle,
                        NEW e \in Entities
                 PROVE  Core(entities[e]) = Core(logged.entities[e])
        BY DEF RamIsReplay
    <2>1. CASE entities[e] = None
        BY <2>1, LoggedIsLive
    <2>2. CASE entities[e] # None
        <3>1. ~IsStaged(e)
            BY DEF Idle, NoWrites, NoHandoffs, IsStaged, Grants
        <3>2. Promised(e) = entities[e]
            BY <3>1, PromisedCases DEF ReplayInv, PromisedBy
        <3> QED
            BY <2>2, <3>2 DEF ReplayInv, Covered
    <2> QED
        BY <2>1, <2>2
<1> QED
    BY <1>1, StagedIsLogged, PTL

\* No step, no failed barrier and no power loss takes an entity back to an
\* earlier version or authority epoch.
THEOREM NothingRewinds ==
    ASSUME ~ProcessCrashes
    PROVE  SettledSpec => NeverRewinds
<1>1. TypeOK /\ IdentityRecoverable /\ ReplayInv /\ [SettledNext]_vars =>
          [\A e \in Entities : entities[e] # None /\ entities'[e] # None =>
              /\ entities'[e].ver >= entities[e].ver
              /\ entities'[e].epoch >= entities[e].epoch]_vars
    <2> SUFFICES ASSUME TypeOK, IdentityRecoverable, ReplayInv, [SettledNext]_vars,
                        NEW e \in Entities, entities[e] # None, entities'[e] # None
                 PROVE  /\ entities'[e].ver >= entities[e].ver
                        /\ entities'[e].epoch >= entities[e].epoch
        OBVIOUS
    <2>1. Forward(e)
        BY SettledStep
    <2> QED
        BY <2>1 DEF Forward, AsLate
<1> QED
    BY <1>1, StagedIsLogged, PTL DEF SettledSpec, NeverRewinds
=============================================================================
