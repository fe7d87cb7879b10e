----------------------------- MODULE Durability -----------------------------
(***************************************************************************)
(* One broker, its canonical RAM, its write-ahead log and the transitions  *)
(* staged between the two.                                                 *)
(*                                                                         *)
(* Every frame handler and every timer of the broker runs under one mutex, *)
(* so each is one action.  Component writes, hand-offs and failover grants *)
(* are appended to the log without fsync and staged; the durability tick   *)
(* (Flush) fsyncs and applies them.  Lifecycle and authority operations    *)
(* append, fsync and mutate RAM in one go, also while others are staged.   *)
(*                                                                         *)
(* The log is represented by what it replays to.  "logged" is the store    *)
(* that replaying the whole file yields; "mayRecover" is the set of stores *)
(* its crash-surviving prefixes yield: an append adds one, an fsync leaves *)
(* only "logged".  A position is the region that contains it: which region *)
(* a coordinate belongs to is the subject of other modules.                *)
(***************************************************************************)
EXTENDS Naturals, Sequences, FiniteSets

CONSTANTS
    Entities, Regions, Workers,
    Comps,            \* dynamic components, besides "pos"
    Values,           \* what they may hold
    None,             \* absent entity, component, owner or staged transition
    Compaction,       \* GW_WAL_COMPACT_BYTES > 0
    ProcessCrashes,   \* the process may die with the machine still up
    MaxVersion, MaxEpoch, MaxId   \* bounds of the model, none in the code

ASSUME BoundsAssumption ==
    /\ MaxVersion \in Nat /\ MaxEpoch \in Nat /\ MaxId \in Nat
    /\ Compaction \in BOOLEAN /\ ProcessCrashes \in BOOLEAN

Fields == Comps \cup {"pos"}
Data == Regions \cup Values \cup {None}

EntityState ==
    [region : Regions, val : [Fields -> Data], owner : Workers \cup {None},
     epoch : Nat, ver : Nat]
Update  == [comp : Comps, val : Values, ver : Nat]
           \cup [comp : {"pos"}, val : Regions, ver : Nat]
Handoff == [to : Regions, pos : Data, ver : Nat,
            owner : Workers \cup {None}, epoch : Nat]
Grant   == [ver : Nat, owner : Workers \cup {None}, epoch : Nat]

ASSUME NoneAssumption ==
    /\ None \notin Regions \cup Workers \cup Values
    /\ None \notin EntityState \cup Handoff \cup Grant
    /\ "pos" \notin Comps

VARIABLES
    entities,      \* canonical RAM: eid -> state, None when not live
    deleted,       \* deleted_entities, the tombstones
    nextId,        \* entity_id_reservations
    regionWorker,  \* region_worker, which the log does not carry
    writes,        \* pending_updates, per entity in arrival order
    handoffs,      \* pending_handoffs, at most one per entity
    failovers,     \* pending_failovers, at most one per region, oldest first
    degraded,      \* wal_degraded
    logged,        \* the store the whole log file replays to
    mayRecover     \* the stores its crash-surviving prefixes replay to

staged == <<writes, handoffs, failovers>>
disk == <<logged, mayRecover>>
vars == <<entities, deleted, nextId, regionWorker, staged, degraded, disk>>

Store == [entities : [Entities -> EntityState \cup {None}],
          deleted : SUBSET Entities, nextId : Nat]

Failover == [region : Regions, to : Workers, grants : [Entities -> Grant \cup {None}]]

TypeOK ==
    /\ entities \in [Entities -> EntityState \cup {None}]
    /\ deleted \in SUBSET Entities
    /\ nextId \in Nat
    /\ regionWorker \in [Regions -> Workers \cup {None}]
    /\ writes \in [Entities -> Seq(Update)]
    /\ handoffs \in [Entities -> Handoff \cup {None}]
    /\ failovers \in Seq(Failover)
    /\ degraded \in BOOLEAN
    /\ logged \in Store
    /\ mayRecover \in SUBSET Store

NoWrites == [e \in Entities |-> <<>>]
NoHandoffs == [e \in Entities |-> None]
FailoversOf(r) == {i \in DOMAIN failovers : failovers[i].region = r}
Idle == writes = NoWrites /\ handoffs = NoHandoffs /\ failovers = <<>>
EmptyStore == [entities |-> [e \in Entities |-> None], deleted |-> {}, nextId |-> 0]

Init ==
    /\ entities = EmptyStore.entities /\ deleted = {} /\ nextId = 0
    /\ regionWorker = [r \in Regions |-> None]
    /\ writes = NoWrites /\ handoffs = NoHandoffs /\ failovers = <<>>
    /\ degraded = FALSE
    /\ logged = EmptyStore /\ mayRecover = {EmptyStore}

(***************************************************************************)
(* What a record does to an entity: the same in RAM and in replay.         *)
(***************************************************************************)
ApplyWrite(st, u) == [st EXCEPT !.val[u.comp] = u.val, !.ver = u.ver]
ApplyHandoff(st, h) ==
    [st EXCEPT !.region = h.to, !.val["pos"] = h.pos, !.ver = h.ver,
               !.owner = h.owner, !.epoch = h.epoch]
ApplyGrant(st, g) ==
    [st EXCEPT !.ver = g.ver, !.owner = g.owner, !.epoch = g.epoch]

\* The island moves, and its epoch advances, only if its owner is the old one
\* or nobody.
Moves(st, old) == st.owner \in {old, None}
AdvanceIsland(st, old, new) ==
    IF Moves(st, old) THEN [st EXCEPT !.epoch = @ + 1, !.owner = new] ELSE st

PrepareHandoff(st, to, pos) ==
    LET next == AdvanceIsland(st, regionWorker[st.region], regionWorker[to])
    IN  [to |-> to, pos |-> pos, ver |-> st.ver + 1,
         owner |-> next.owner, epoch |-> next.epoch]

\* The reducer: records about an entity the log holds no live copy of are
\* skipped, and so is a register of a tombstoned id.
Replayed(store, e, st) ==
    IF store.entities[e] = None THEN store ELSE [store EXCEPT !.entities[e] = st]
ReplayRegister(store, e, st) ==
    IF e \in store.deleted THEN store ELSE [store EXCEPT !.entities[e] = st]
TombstoneForgotten(store, e) == [store EXCEPT !.entities[e] = None]
ReplayTombstone(store, e) ==
    [store EXCEPT !.entities[e] = None, !.deleted = @ \cup {e}]
ReplayHandoffs(store, hs) ==
    [store EXCEPT !.entities = [e \in Entities |->
        IF @[e] = None \/ hs[e] = None THEN @[e] ELSE ApplyHandoff(@[e], hs[e])]]
ReplayGrants(store, gs) ==
    [store EXCEPT !.entities = [e \in Entities |->
        IF @[e] = None \/ gs[e] = None THEN @[e] ELSE ApplyGrant(@[e], gs[e])]]

(***************************************************************************)
(* The log.  A failed write leaves the file alone, a failed fsync leaves   *)
(* the line in it; either one makes the broker fail-closed.                *)
(***************************************************************************)
AppendNoSync(store) ==
    /\ logged' = store
    /\ mayRecover' = mayRecover \cup {store}
    /\ UNCHANGED degraded
AppendFails == degraded' = TRUE /\ UNCHANGED disk

AppendSyncWithoutFsync(store) == AppendNoSync(store)
AppendSync(store) ==
    /\ logged' = store
    /\ mayRecover' = {store}
    /\ UNCHANGED degraded
AppendSyncFails(store) ==
    /\ degraded' = TRUE
    /\ \/ UNCHANGED disk
       \/ logged' = store /\ mayRecover' = mayRecover \cup {store}

(***************************************************************************)
(* Workers.                                                                *)
(***************************************************************************)
\* authoritative_component_writer: the component's owner, or the region's
\* worker when it has none.
MayWrite(w, e) ==
    /\ entities[e] # None
    /\ \/ entities[e].owner = w
       \/ entities[e].owner = None /\ regionWorker[entities[e].region] = w

\* A worker connects, leases a free region and is granted every unowned
\* entity of its regions: owners change in RAM only, no record is written.
Connect(w, r) ==
    /\ regionWorker[r] \in {None, w}
    /\ regionWorker' = [regionWorker EXCEPT ![r] = w]
    /\ entities' = [e \in Entities |->
          IF /\ entities[e] # None
             /\ regionWorker'[entities[e].region] = w
             /\ entities[e].owner \in {None, w}
          THEN [entities[e] EXCEPT !.owner = w] ELSE entities[e]]
    /\ UNCHANGED <<deleted, nextId, staged, degraded, disk>>

(***************************************************************************)
(* Direct operations: append, fsync, then RAM, whatever else is staged.    *)
(***************************************************************************)
NewEntity(r) ==
    [region |-> r, val |-> [f \in Fields |-> IF f = "pos" THEN r ELSE None],
     owner |-> None, epoch |-> 1, ver |-> 1]

CreateEntity(e, r) ==
    /\ ~degraded /\ e \notin deleted /\ entities[e] = None
    /\ LET st == NewEntity(r) IN
       \/ /\ AppendSync(ReplayRegister(logged, e, st))
          /\ entities' = [entities EXCEPT ![e] = [st EXCEPT !.owner = regionWorker[r]]]
       \/ /\ AppendSyncFails(ReplayRegister(logged, e, st))
          /\ UNCHANGED entities
    /\ UNCHANGED <<deleted, nextId, regionWorker, staged>>

DeleteEntity(w, e) ==
    /\ ~degraded /\ entities[e] # None
    /\ regionWorker[entities[e].region] = w
    /\ \/ /\ AppendSync(ReplayTombstone(logged, e))
          /\ entities' = [entities EXCEPT ![e] = None]
          /\ deleted' = deleted \cup {e}
          /\ handoffs' = [handoffs EXCEPT ![e] = None]
       \/ /\ AppendSyncFails(ReplayTombstone(logged, e))
          /\ UNCHANGED <<entities, deleted, handoffs>>
    /\ UNCHANGED <<nextId, regionWorker, writes, failovers>>

\* Append and fsync a record that takes entity e, live in RAM, to state st.
\* In replay it acts on the logged copy.
Direct(e, st, loggedSt) ==
    /\ ~degraded
    /\ \/ /\ AppendSync(Replayed(logged, e, loggedSt))
          /\ entities' = [entities EXCEPT ![e] = st]
       \/ /\ AppendSyncFails(Replayed(logged, e, loggedSt))
          /\ UNCHANGED entities
    /\ UNCHANGED <<deleted, nextId, regionWorker, staged>>

AddComponent(w, e, c, v) ==
    /\ MayWrite(w, e) /\ entities[e].ver < MaxVersion
    /\ entities[e].val[c] = None
    /\ LET u == [comp |-> c, val |-> v, ver |-> entities[e].ver + 1]
       IN  Direct(e, ApplyWrite(entities[e], u), ApplyWrite(logged.entities[e], u))

RemoveComponent(w, e, c) ==
    /\ MayWrite(w, e) /\ entities[e].ver < MaxVersion
    /\ entities[e].val[c] # None
    /\ LET u == [comp |-> c, val |-> None, ver |-> entities[e].ver + 1]
       IN  Direct(e, ApplyWrite(entities[e], u), ApplyWrite(logged.entities[e], u))

SetComponentAuthority(e, owner) ==
    /\ entities[e] # None
    /\ entities[e].ver < MaxVersion /\ entities[e].epoch < MaxEpoch
    /\ LET g == [ver |-> entities[e].ver + 1, owner |-> owner,
                 epoch |-> entities[e].epoch + 1]
       IN  Direct(e, ApplyGrant(entities[e], g), ApplyGrant(logged.entities[e], g))

ReserveEntityIds(n) ==
    /\ ~degraded /\ nextId + n <= MaxId
    /\ LET store == [logged EXCEPT !.nextId =
                        IF nextId + n > @ THEN nextId + n ELSE @] IN
       \/ AppendSync(store) /\ nextId' = nextId + n
       \/ AppendSyncFails(store) /\ UNCHANGED nextId
    /\ UNCHANGED <<entities, deleted, regionWorker, staged>>

(***************************************************************************)
(* Staging: append without fsync, queue, leave RAM alone.                  *)
(***************************************************************************)
UpdateComponent(w, e, c, v) ==
    /\ ~degraded /\ MayWrite(w, e)
    /\ entities[e].ver + Len(writes[e]) < MaxVersion
    /\ entities[e].epoch < MaxEpoch
    /\ LET u == [comp |-> c, val |-> v,
                 ver |-> entities[e].ver + Len(writes[e]) + 1] IN
       \/ /\ AppendNoSync(Replayed(logged, e, ApplyWrite(logged.entities[e], u)))
          /\ writes' = [writes EXCEPT ![e] = Append(@, u)]
       \/ AppendFails /\ UNCHANGED writes
    /\ UNCHANGED <<entities, deleted, nextId, regionWorker, handoffs, failovers>>

\* The rebalancer re-routes an entity across a moved boundary (monitor tick,
\* not gated by wal_degraded).
ReRoute(e, to) ==
    /\ entities[e] # None /\ handoffs[e] = None /\ to # entities[e].region
    /\ entities[e].ver < MaxVersion /\ entities[e].epoch < MaxEpoch
    /\ LET h == PrepareHandoff(entities[e], to, entities[e].val["pos"]) IN
       \/ /\ AppendNoSync(ReplayHandoffs(logged, [NoHandoffs EXCEPT ![e] = h]))
          /\ handoffs' = [handoffs EXCEPT ![e] = h]
       \/ AppendFails /\ UNCHANGED handoffs
    /\ UNCHANGED <<entities, deleted, nextId, regionWorker, writes, failovers>>

\* check_leases: a lapsed lease moves the region to a standby.
FailOver(r, w) ==
    /\ regionWorker[r] \notin {None, w} /\ FailoversOf(r) = {}
    /\ \A e \in Entities : entities[e] # None =>
          entities[e].ver < MaxVersion /\ entities[e].epoch < MaxEpoch
    /\ LET old == regionWorker[r]
           grants == [e \in Entities |->
               IF entities[e] = None THEN None
               ELSE IF entities[e].region = r /\ Moves(entities[e], old)
               THEN [ver |-> entities[e].ver + 1, owner |-> w,
                     epoch |-> entities[e].epoch + 1]
               ELSE None]
       IN \/ /\ AppendNoSync(ReplayGrants(logged, grants))
             /\ failovers' = Append(failovers,
                     [region |-> r, to |-> w, grants |-> grants])
          \/ AppendFails /\ UNCHANGED failovers
    /\ UNCHANGED <<entities, deleted, nextId, regionWorker, writes, handoffs>>

(***************************************************************************)
(* The durability tick.                                                    *)
(***************************************************************************)
\* Indexes of the staged writes of e that satisfy P.
WritesOn(e, c) == {i \in DOMAIN writes[e] : writes[e][i].comp = c}
LastOf(S) == CHOOSE i \in S : \A j \in S : j <= i
FirstOf(S) == CHOOSE i \in S : \A j \in S : i <= j

\* RAM after every staged write of e has been applied in order.
Updated(e) ==
    IF entities[e] = None \/ writes[e] = <<>> THEN entities[e]
    ELSE [entities[e] EXCEPT
            !.val = [f \in Fields |->
                IF WritesOn(e, f) = {} THEN @[f]
                ELSE writes[e][LastOf(WritesOn(e, f))].val],
            !.ver = writes[e][Len(writes[e])].ver]

\* zone_and_propagate runs after each write: the first position write that
\* leaves the region stages a hand-off, unless one is staged already.
Crossings(e) == {i \in WritesOn(e, "pos") : writes[e][i].val # entities[e].region}
Movers == {e \in Entities : /\ entities[e] # None /\ handoffs[e] = None
                            /\ Crossings(e) # {}}
MoveOf(e) ==
    LET u == writes[e][FirstOf(Crossings(e))]
    IN  PrepareHandoff([entities[e] EXCEPT !.ver = u.ver], u.val, u.val)

\* Staged hand-offs once the movers in S have joined them.
Queued(S) == [e \in Entities |-> IF e \in S THEN MoveOf(e) ELSE handoffs[e]]

HandedOffKeepingPos(st, h) ==
    IF st = None \/ h = None THEN st ELSE ApplyHandoff(st, [h EXCEPT !.pos = st.val["pos"]])
HandedOff(st, h) == IF st = None \/ h = None THEN st ELSE ApplyHandoff(st, h)
\* An entity that changed regions may be in several grants: the last one wins.
Granted(st, e) ==
    LET is == {i \in DOMAIN failovers : failovers[i].grants[e] # None}
    IN  IF st = None \/ is = {} THEN st
        ELSE ApplyGrant(st, failovers[LastOf(is)].grants[e])

\* The standby the last staged failover of region r names.
FailedOverFrom(r) == failovers[LastOf(FailoversOf(r))].region
FailedOverTo(r) == failovers[LastOf(FailoversOf(r))].to

\* Group fsync of the writes fails: they are rejected and dropped, their lines
\* stay in the file, nothing else is flushed.
FlushFailsButPublishes ==
    /\ writes # NoWrites
    /\ entities' = [e \in Entities |-> Updated(e)]
    /\ writes' = NoWrites
    /\ degraded' = TRUE
    /\ UNCHANGED <<deleted, nextId, regionWorker, handoffs, failovers, disk>>
FlushFails ==
    /\ writes # NoWrites
    /\ writes' = NoWrites
    /\ degraded' = TRUE
    /\ UNCHANGED <<entities, deleted, nextId, regionWorker, handoffs, failovers, disk>>

\* The writes cross the watermark; the movers in S log their hand-off (the
\* others hit a failed write); then hand-offs and failovers each fsync and
\* apply.  Failed hand-offs stay queued, failed failovers are dropped.
FlushApplies(S, handoffSync, failoverSync) ==
    LET queued == Queued(S)
        moved == Queued(S) # NoHandoffs
        failing == failovers # <<>>
        full == ReplayHandoffs(logged, [e \in Entities |->
                    IF e \in S THEN queued[e] ELSE None])
        partial == {ReplayHandoffs(logged, [e \in Entities |->
                        IF e \in T THEN queued[e] ELSE None]) : T \in SUBSET S}
    IN  /\ ~moved => handoffSync
        /\ ~failing => failoverSync
        /\ entities' = [e \in Entities |->
              LET st == IF handoffSync THEN HandedOff(Updated(e), queued[e])
                                       ELSE Updated(e)
              IN  IF failoverSync THEN Granted(st, e) ELSE st]
        /\ regionWorker' = [r \in Regions |->
              IF failoverSync /\ FailoversOf(r) # {}
              THEN FailedOverTo(r) ELSE regionWorker[r]]
        /\ writes' = NoWrites
        /\ handoffs' = IF handoffSync THEN NoHandoffs ELSE queued
        /\ failovers' = <<>>
        /\ degraded' = (degraded \/ S # Movers \/ ~handoffSync \/ ~failoverSync)
        /\ logged' = full
        /\ mayRecover' =
              IF (moved /\ handoffSync) \/ (failing /\ failoverSync) THEN {full}
              ELSE IF writes # NoWrites THEN partial ELSE mayRecover
        /\ UNCHANGED <<deleted, nextId>>

Flush ==
    /\ ~Idle
    /\ \/ FlushFails
       \/ \E S \in SUBSET Movers, h, f \in BOOLEAN : FlushApplies(S, h, f)

\* A portal fold: stage the hand-off (a pending one absorbs it) and flush the
\* hand-off queue at once, ahead of writes staged earlier.
Fold(w, e, to, pos) ==
    /\ ~degraded /\ entities[e] # None
    /\ regionWorker[entities[e].region] = w /\ to # entities[e].region
    /\ entities[e].ver < MaxVersion /\ entities[e].epoch < MaxEpoch
    /\ LET fresh == IF handoffs[e] = None THEN PrepareHandoff(entities[e], to, pos)
                                          ELSE None
           queued == IF fresh = None THEN handoffs ELSE [handoffs EXCEPT ![e] = fresh]
           store == IF fresh = None THEN logged
                    ELSE ReplayHandoffs(logged, [NoHandoffs EXCEPT ![e] = fresh])
       IN \/ /\ AppendSync(store)
             /\ entities' = [x \in Entities |-> HandedOff(entities[x], queued[x])]
             /\ handoffs' = NoHandoffs
          \/ /\ logged' = store /\ mayRecover' = mayRecover \cup {store}
             /\ degraded' = TRUE /\ handoffs' = queued /\ UNCHANGED entities
          \/ fresh # None /\ AppendFails /\ UNCHANGED <<entities, handoffs>>
    /\ UNCHANGED <<deleted, nextId, regionWorker, writes, failovers>>

(***************************************************************************)
(* Compaction and restart.                                                 *)
(***************************************************************************)
\* Rewrite the log as registers and tombstones and rename it into place.  The
\* reserved-id mark has no record in the new file.
SnapshotWithoutTombstones == [entities |-> entities, deleted |-> {}, nextId |-> 0]
Snapshot == [entities |-> entities, deleted |-> deleted, nextId |-> 0]
Compact ==
    /\ Compaction /\ ~degraded
    /\ Idle
    /\ AppendSync(Snapshot) \/ AppendSyncFails(Snapshot)
    /\ UNCHANGED <<entities, deleted, nextId, regionWorker, staged>>

Recover(store) ==
    /\ entities' = store.entities /\ deleted' = store.deleted
    /\ nextId' = store.nextId
    /\ regionWorker' = [r \in Regions |-> None]
    /\ writes' = NoWrites /\ handoffs' = NoHandoffs /\ failovers' = <<>>
    /\ degraded' = FALSE
    /\ logged' = store

\* The machine goes down: any prefix that reaches past the last fsync survives.
PowerLoss == \E store \in mayRecover : Recover(store) /\ mayRecover' = {store}

\* Only the process dies: the page cache keeps the whole file, and the restart
\* serves it without an fsync of its own.
ProcessCrash == ProcessCrashes /\ Recover(logged) /\ UNCHANGED mayRecover

Next ==
    \/ \E w \in Workers, r \in Regions : Connect(w, r) \/ FailOver(r, w)
    \/ \E e \in Entities, r \in Regions : CreateEntity(e, r) \/ ReRoute(e, r)
    \/ \E w \in Workers, e \in Entities :
          \/ DeleteEntity(w, e)
          \/ \E c \in Comps, v \in Values :
                AddComponent(w, e, c, v) \/ UpdateComponent(w, e, c, v)
          \/ \E c \in Comps : RemoveComponent(w, e, c)
          \/ \E r \in Regions : UpdateComponent(w, e, "pos", r)
          \/ \E to, pos \in Regions : Fold(w, e, to, pos)
    \/ \E e \in Entities, o \in Workers \cup {None} : SetComponentAuthority(e, o)
    \/ ReserveEntityIds(1)
    \/ Flush
    \/ Compact
    \/ PowerLoss
    \/ ProcessCrash

Spec == Init /\ [][Next]_vars

(***************************************************************************)
(* Properties.                                                             *)
(***************************************************************************)
Live(es) == {e \in Entities : es[e] # None}

\* A store with RAM's ids, or with those one create or delete later.
SameIdentity(s) == Live(s.entities) = Live(entities) /\ s.deleted = deleted
OneAhead(s) ==
    \E e \in Entities :
       \/ /\ e \notin Live(entities) \cup deleted
          /\ Live(s.entities) = Live(entities) \cup {e} /\ s.deleted = deleted
       \/ /\ e \in Live(entities)
          /\ Live(s.entities) = Live(entities) \ {e} /\ s.deleted = deleted \cup {e}

\* Whatever prefix of the log a power loss leaves, its ids, live and
\* tombstoned, are exactly RAM's; once a barrier has failed they may also be
\* ahead by the one operation that was refused for it.  No staged transition,
\* compaction or replay makes an id appear or go (CreateEntity, DeleteEntity,
\* maybe_compact_wal, apply_wal_events).
IdentityRecoverable ==
    /\ logged \in mayRecover
    /\ \A s \in mayRecover : SameIdentity(s) \/ (degraded /\ OneAhead(s))

\* So does a process that restarts over whatever its dead predecessor wrote,
\* fsynced or not: it comes back with the same ids, up to the one operation a
\* failed barrier had refused (recover_from_wal_report).
IdentityReplayed == SameIdentity(logged) \/ (degraded /\ OneAhead(logged))

\* The broker with its log, staging, compaction and restarts implements the
\* store in which ids are only created and deleted, and deleted for good.
Identity == INSTANCE IdentityStore WITH live <- Live(entities), deleted <- deleted
ImplementsIdentityStore == Identity!Spec

\* With nothing staged, RAM is what replaying the log yields, in all but the
\* owner, which Connect grants in RAM alone: "no live observer should see
\* state ... that recovery cannot reproduce from the WAL".
Core(st) == IF st = None THEN None
            ELSE [region |-> st.region, val |-> st.val, epoch |-> st.epoch, ver |-> st.ver]
RamIsReplay ==
    ~degraded /\ Idle =>
        \A e \in Entities : Core(entities[e]) = Core(logged.entities[e])

\* Whatever RAM shows is at least as old as every store a crash may leave,
\* also while failing closed: publication waits for the fsync.
VisibleIsDurable ==
    \A s \in mayRecover, e \in Entities :
        entities[e] # None =>
            \/ degraded /\ e \in s.deleted
            \/ s.entities[e] # None /\ s.entities[e].ver >= entities[e].ver

\* Neither a live step nor a crash takes an entity back to an earlier version
\* or authority epoch.
NeverRewinds ==
    [][\A e \in Entities : entities[e] # None /\ entities'[e] # None =>
          /\ entities'[e].ver >= entities[e].ver
          /\ entities'[e].epoch >= entities[e].epoch]_vars
=============================================================================
