------------------------------ MODULE Partition ------------------------------
(***************************************************************************)
(* Which region a position belongs to, and how entities follow when the    *)
(* answer changes: strips along x with hysteresis, the sliding boundary,   *)
(* the split of a hot strip with its budgeted job, the grid and its block  *)
(* migrations, hand-offs to remote regions, and restarts.                  *)
(*                                                                         *)
(* Lengths are integers, the unit is H.  A zone is a triple, a region is a *)
(* zone and a band of it ("W#1" is <<W, 1>>).  One position update is      *)
(* applied per durability tick; a larger batch is several ticks of which   *)
(* only the last has a barrier that holds.                                 *)
(***************************************************************************)
EXTENDS Integers, Sequences, FiniteSets, SequencesExt, FiniteSetsExt

CONSTANTS
    Entities, Workers, None,
    Parent,            \* [Entities -> Entities \cup {None}], the "parent" component
    Deployments,       \* configurations of the environment, see Deployment
    Reach,             \* how far the boundary slides to each side (7 in the code)
    MaxStaged          \* bound of the model on the block migrations in flight

H == 1
Step == 1
W == <<"W", 0, 0>>
E == <<"E", 0, 0>>
Z(i) == <<"Z", i, 0>>
Cell(i, j) == <<"cell", i, j>>

Live(entity) == entity # None

\* A deployment is what the environment fixes: grid, bounds (GW_BOUNDARIES) or cols,
\* rows and cell (GW_GRID2D, GW_ARENA); owners, the regions of the connected workers;
\* mesh, the remote regions (GW_MESH); home (GW_ADVERTISE); standbys; and for this
\* model ids, who lives there, spots, where they go, and weight, how many each one
\* stands for; and its bounds: how often the topology moves, a write or an fsync
\* fails (revs, fails) and the broker restarts.
Position == Int \X Int
Zone == {"W", "E", "Z", "cell", "planet"} \X Nat \X Nat
Region == Zone \X Nat
Owner == Workers \cup {None}
Placement == [pos : Position, region : Region, owner : Owner]
Handoffs == [eid : Entities, to : Region, pos : Position, owner : Owner]
Migrations ==
    [block : Region, to : Workers, grants : UNION {[S -> Workers] : S \in SUBSET Entities}]
Departure == [to : Region, belonged : BOOLEAN]
Increasing(b) == \A i, j \in DOMAIN b : i < j => b[i] < b[j]

ASSUME PartitionBounds ==
    /\ Reach \in Nat /\ MaxStaged \in Nat /\ IsFiniteSet(Entities)
    /\ None \notin Workers \cup Entities \cup Region \cup Placement \cup Departure
    /\ Parent \in [Entities -> Entities \cup {None}]
    /\ \A e \in Entities : Parent[e] # None => Parent[Parent[e]] = None
ASSUME DeploymentTypes ==
    \A d \in Deployments :
        /\ d.grid \in BOOLEAN /\ d.spots \subseteq Position
        /\ d.bounds \in Seq(Int) /\ Increasing(d.bounds)
        /\ d.grid => {d.cols, d.rows, d.cell} \subseteq Nat \ {0} /\ d.weight \in [Entities -> Nat]
        /\ DOMAIN d.owners \subseteq Region /\ d.mesh \subseteq Region
        /\ d.owners \in [DOMAIN d.owners -> Workers]
        /\ d.home \in Region \cup {None} /\ d.standbys \in Seq(Workers)

VARIABLES
    conf,           \* the deployment this broker runs in
    bounds,         \* boundaries
    splits,         \* zone -> sub-boundaries
    rev,            \* zone_topology_rev
    regionWorker,   \* region_worker
    standbys,
    ent,            \* entities: position, region, owner of the physics island
    departed,       \* forwarded: to which region, and whether it belonged there
    job,            \* entities the active RebalanceJob has still to re-route
    handoffs,       \* pending_handoffs, in order of their log lines
    remote,         \* pending_remote_handoffs
    migrations,     \* pending_block_migrations
    logged,         \* the last partition_config the log holds
    failures,
    restarts,
    overtaken,      \* history: entities the current topology has not re-routed
    alone,          \* history: children that were re-routed without their root
    raced,          \* history: entities that changed hands with a block in flight
    published,      \* history: the newest map published, until one is not logged
    unlogged        \* history: a partition_config was not appended

topology == <<bounds, splits, rev, logged, published, unlogged>>
pending == <<job, handoffs, remote, migrations>>
histories == <<overtaken, alone, raced>>
vars == <<conf, topology, regionWorker, standbys, ent, departed, pending, failures,
          restarts, histories>>

With(f, x, y) == [z \in DOMAIN f \cup {x} |-> IF z = x THEN y ELSE f[z]]
Count(S, Test(_)) == Cardinality({x \in S : Test(x)})
Zones == DOMAIN splits
OwnerOf(region) == IF region \in DOMAIN regionWorker THEN regionWorker[region] ELSE None
Children(e) == {c \in Entities : Parent[c] = e /\ Live(ent[c])}
Staged(e) == \E i \in DOMAIN handoffs : handoffs[i].eid = e

(***************************************************************************)
(* Where a position belongs.                                               *)
(***************************************************************************)
\* refine_region: the band, without hysteresis.
Refine(zone, x) ==
    <<zone, IF zone \in Zones THEN Count(ToSet(splits[zone]), LAMBDA b : x >= b) ELSE 0>>

StripIndex(x) == Count(DOMAIN bounds, LAMBDA i : x >= bounds[i])
StripName(i) ==
    IF Len(bounds) > 1 THEN Z(i) ELSE IF i = 0 /\ bounds # <<>> THEN W ELSE E
IndexOfName(zone) ==
    CASE zone = W -> 0
      [] zone = E -> Len(bounds)
      [] zone[1] = "Z" /\ zone[2] <= Len(bounds) -> zone[2]
      [] OTHER -> -1
IsStrip(zone) ==
    IF Len(bounds) <= 1 THEN IndexOfName(zone) >= 0
    ELSE zone[1] = "Z" /\ zone[2] <= Len(bounds)

\* region_after: past an edge by H, and then to the strip of the position.
RegionAfterOneStep(x, zone) ==
    LET i == IndexOfName(zone) IN
    CASE i < Len(bounds) /\ x >= bounds[i + 1] + H -> StripName(i + 1)
      [] i > 0 /\ x < bounds[i] - H -> StripName(i - 1)
      [] OTHER -> zone
RegionAfter(x, zone) ==
    LET i == IndexOfName(zone)
        up == i < Len(bounds) /\ x >= bounds[i + 1] + H
        down == i > 0 /\ x < bounds[i] - H
    IN  IF up \/ down THEN StripName(StripIndex(x)) ELSE zone
MovementRegionAfter(x, region) ==
    LET zone == region[1]
    IN  Refine(IF IsStrip(zone) THEN RegionAfter(x, zone) ELSE zone, x)
SpawnRegion(x, requested) ==
    Refine(IF requested # None /\ ~IsStrip(requested) THEN requested
           ELSE StripName(StripIndex(x)), x)

Clamp(i, n) == IF i < 0 THEN 0 ELSE IF i >= n THEN n - 1 ELSE i
Region2D(p) ==
    <<Cell(Clamp(p[1] \div conf.cell, conf.cols), Clamp(p[2] \div conf.cell, conf.rows)), 0>>
HystereticCell(x, i, n) ==
    IF x >= (i + 1) * conf.cell + H \/ x < i * conf.cell - H
    THEN Clamp(x \div conf.cell, n) ELSE Clamp(i, n)
Region2DAfter(p, region) ==
    LET zone == region[1] IN
    IF zone[1] # "cell" THEN Region2D(p)
    ELSE <<Cell(HystereticCell(p[1], zone[2], conf.cols),
                HystereticCell(p[2], zone[3], conf.rows)), 0>>

RegionOf(st) ==
    IF conf.grid THEN Region2DAfter(st.pos, st.region)
    ELSE MovementRegionAfter(st.pos[1], st.region)
IsRemote(region) == region \in conf.mesh /\ OwnerOf(region) = None

\* receiving_region_for_adopt; None rejects the adoption.
ReceivingRegion(p, target) ==
    LET owned(region) == OwnerOf(region) # None \/ conf.home = region IN
    IF conf.grid
    THEN IF target # None /\ target[1][1] = "cell"
         THEN IF owned(target) THEN target ELSE None
         ELSE IF owned(Region2D(p)) THEN Region2D(p) ELSE None
    ELSE IF conf.home # None THEN conf.home
    ELSE IF target # None /\ OwnerOf(target) # None THEN Refine(target[1], p[1])
    ELSE SpawnRegion(p[1], None)

\* The reference definition of hysteresis: a strip or a cell reaches H beyond its
\* edges, a cell at the border of the grid without end; a band does not, and
\* another zone is not a place.
InCell(x, i, n) ==
    /\ i = 0 \/ x >= i * conf.cell - H
    /\ i = n - 1 \/ x < (i + 1) * conf.cell + H
Within(p, region) ==
    LET zone == region[1]
        i == IndexOfName(zone)
    IN  IF conf.grid THEN InCell(p[1], zone[2], conf.cols) /\ InCell(p[2], zone[3], conf.rows)
        ELSE IsStrip(zone) => /\ i > 0 => p[1] >= bounds[i] - H
                              /\ i < Len(bounds) => p[1] < bounds[i + 1] + H
InBand(p, region) ==
    LET zone == region[1] IN
    zone \in Zones => /\ region[2] = 0 => p[1] < splits[zone][1]
                      /\ region[2] = 1 => p[1] >= splits[zone][1]

\* A partition_config: strips and at most one sub-boundary in each zone.
CurrentMap == [rev |-> rev, bounds |-> bounds, splits |-> splits]
IsMap(m) ==
    /\ m = [rev |-> m.rev, bounds |-> m.bounds, splits |-> m.splits] /\ m.rev \in Nat
    /\ m.bounds \in Seq(Int) /\ Increasing(m.bounds)
    /\ \A zone \in DOMAIN m.splits :
          zone \in Zone /\ m.splits[zone] \in Seq(Int) /\ Len(m.splits[zone]) = 1

TypeOK ==
    /\ conf \in Deployments
    /\ IsMap(CurrentMap) /\ IsMap(logged)
    /\ conf.grid => job = {} /\ Zones = {}
    /\ DOMAIN regionWorker \subseteq Region
    /\ regionWorker \in [DOMAIN regionWorker -> Workers] /\ standbys \in Seq(Workers)
    /\ ent \in [Entities -> Placement \cup {None}] /\ job \subseteq Entities
    /\ departed \in [Entities -> Departure \cup {None}]
    /\ handoffs \in Seq(Handoffs) /\ remote \subseteq Entities \X Region
    /\ migrations \in Seq(Migrations) /\ (migrations # <<>> => conf.grid)
    /\ \A i \in DOMAIN migrations : migrations[i].block \in DOMAIN regionWorker

Init ==
    /\ conf \in Deployments
    /\ bounds = conf.bounds /\ rev = 0
    /\ splits = <<>>
    /\ regionWorker = conf.owners /\ standbys = conf.standbys
    /\ ent = [e \in Entities |-> None] /\ departed = [e \in Entities |-> None]
    /\ job = {} /\ handoffs = <<>> /\ remote = {} /\ migrations = <<>>
    /\ logged = CurrentMap
    /\ failures = 0 /\ restarts = 0 /\ overtaken = {} /\ alone = {} /\ raced = {}
    /\ published = logged /\ unlogged = FALSE

(***************************************************************************)
(* Hand-offs.                                                              *)
(***************************************************************************)
\* advance_physics_island_authority: only from the old region's worker or nobody.
NextOwner(st, old, new) == IF st.owner \in {old, None} THEN new ELSE st.owner

Prepared(ents, e, to) ==
    [eid |-> e, to |-> to, pos |-> ents[e].pos,
     owner |-> NextOwner(ents[e], OwnerOf(ents[e].region), OwnerOf(to))]

\* queue_local_handoff: one staged hand-off per entity, then its children's.
\* "bad" are the entities whose line cannot be written.
QueueRootOnly(q, ents, e, to, bad) ==
    IF e \in bad \/ \E i \in DOMAIN q : q[i].eid = e THEN q
    ELSE Append(q, Prepared(ents, e, to))
QueueLocal(q, ents, e, to, bad) ==
    LET busy == {q[i].eid : i \in DOMAIN q}
        parts == {c \in Children(e) : ents[c].region # to} \ (busy \cup bad)
    IN  IF e \in busy \cup bad THEN q
        ELSE Append(q, Prepared(ents, e, to)) \o
             SetToSeq({Prepared(ents, c, to) : c \in parts})

\* handoff: to a remote region deferred, to a local one staged.
Handoff(s, ents, e, to, bad) ==
    IF IsRemote(to)
    THEN [s EXCEPT !.remote = {r \in @ : r[1] # e} \cup {<<e, to>>}]
    ELSE [s EXCEPT !.handoffs = QueueLocal(@, ents, e, to, bad)]

\* apply_prepared_handoff, of all that is staged: the staged position wins.
StagedOf(q, e) == {i \in DOMAIN q : q[i].eid = e}
ApplyHandoffs(ents, q) ==
    [e \in Entities |->
        LET h == q[Max(StagedOf(q, e))] IN
        IF Live(ents[e]) /\ StagedOf(q, e) # {}
        THEN [pos |-> h.pos, region |-> h.to, owner |-> h.owner] ELSE ents[e]]

\* apply_prepared_block_migration, of all that is staged.
Granting(e) == {i \in DOMAIN migrations : e \in DOMAIN migrations[i].grants}
ApplyMigrations(ents) ==
    [e \in Entities |->
        IF Live(ents[e]) /\ Granting(e) # {}
        THEN [ents[e] EXCEPT !.owner = migrations[Max(Granting(e))].grants[e]] ELSE ents[e]]
Moving(region) == {i \in DOMAIN migrations : migrations[i].block = region}
MovedWorkers ==
    [region \in DOMAIN regionWorker |->
        IF Moving(region) # {} THEN migrations[Max(Moving(region))].to ELSE regionWorker[region]]

\* remote_handoff_target_still_current
TargetQueued(ents, r) == Live(ents[r[1]])
TargetStillCurrent(ents, r) ==
    Live(ents[r[1]]) /\ RegionOf(ents[r[1]]) = r[2] /\ IsRemote(r[2])

Failing(n) == failures + n <= conf.fails /\ failures' = failures + n

\* The flush: staged hand-offs, block migrations, remote hand-offs, each with its
\* own fsync.  Hand-offs are kept when it fails, migrations are dropped.  What is
\* forwarded leaves if its link is up and its line is written.
Flush(ents, hs, rs, bad) ==
    \E held \in (IF hs = <<>> THEN {TRUE} ELSE BOOLEAN),
       moved \in (IF migrations = <<>> THEN {TRUE} ELSE BOOLEAN) :
    /\ Failing(Cardinality(bad) + (IF held THEN 0 ELSE 1) + (IF moved THEN 0 ELSE 1))
    /\ LET local == IF held THEN ApplyHandoffs(ents, hs) ELSE ents
           all == IF moved THEN ApplyMigrations(local) ELSE local
           due == {r \in rs : TargetStillCurrent(all, r)}
       IN
        \E leaving \in SUBSET due :
        LET gone == {r[1] : r \in leaving} IN
        /\ ent' = [e \in Entities |-> IF e \in gone THEN None ELSE all[e]]
        /\ departed' = [e \in Entities |->
              IF e \in gone
              THEN LET to == (CHOOSE r \in leaving : r[1] = e)[2]
                   IN  [to |-> to, belonged |-> Within(all[e].pos, to)]
              ELSE departed[e]]
        /\ handoffs' = IF held THEN <<>> ELSE hs
        /\ remote' = {} /\ migrations' = <<>>
        /\ regionWorker' = IF moved THEN MovedWorkers ELSE regionWorker
        /\ raced' = IF migrations = <<>> THEN raced
                    ELSE raced \cup {hs[i].eid : i \in DOMAIN hs}

Tick ==
    /\ handoffs # <<>> \/ remote # {} \/ migrations # <<>>
    /\ Flush(ent, handoffs, remote, {})
    /\ UNCHANGED <<conf, topology, standbys, job, restarts, overtaken, alone>>

\* A durability tick with one position update: it is applied, the entity is zoned
\* unless it is a child, then the flush.
Move(e, p, bad) ==
    /\ Live(ent[e]) /\ p # ent[e].pos
    /\ LET ents == [ent EXCEPT ![e].pos = p]
           to == RegionOf(ents[e])
           s0 == [handoffs |-> handoffs, remote |-> remote]
           zoned == Parent[e] = None /\ to # ent[e].region
           s == IF zoned THEN Handoff(s0, ents, e, to, bad) ELSE s0
       IN  /\ bad # {} => zoned /\ ~Staged(e)
           /\ Flush(ents, s.handoffs, s.remote, bad)
    /\ overtaken' = IF Staged(e) THEN overtaken
                    ELSE IF e \in bad THEN overtaken \cup {e}
                    ELSE overtaken \ {e}
    /\ alone' = alone \cup (bad \ {e})
    /\ UNCHANGED <<conf, topology, standbys, job, restarts>>

\* The entity and its children, of which any may fail to be written.
Unwritable(e) == SUBSET ({e} \cup Children(e))

(***************************************************************************)
(* Arrivals.                                                               *)
(***************************************************************************)
\* A child that is not where its root is, or whose root is about to leave.
Apart(ents, e) ==
    {c \in Entities : /\ Live(ents[c]) /\ Parent[c] # None /\ e \in {c, Parent[c]}
                      /\ Live(ents[Parent[c]])
                      /\ ents[c].region # ents[Parent[c]].region \/ Staged(Parent[c])}

Arrive(e, p, region) ==
    /\ ent' = [ent EXCEPT ![e] = [pos |-> p, region |-> region, owner |-> OwnerOf(region)]]
    /\ alone' = alone \cup Apart(ent', e)
    /\ raced' = IF migrations = <<>> THEN raced ELSE raced \cup {e}
    /\ UNCHANGED <<conf, topology, regionWorker, standbys, pending, failures, restarts>>

Spawn(e, p, requested) ==
    /\ e \in conf.ids /\ ~Live(ent[e]) /\ departed[e] = None
    /\ Arrive(e, p, IF conf.grid THEN Region2D(p) ELSE SpawnRegion(p[1], requested))
    /\ UNCHANGED <<departed, overtaken>>

\* Back over the mesh, into a region of this broker whatever its position.
Adopt(e, p, target) ==
    /\ departed[e] # None
    /\ ReceivingRegion(p, target) # None
    /\ Arrive(e, p, ReceivingRegion(p, target))
    /\ departed' = [departed EXCEPT ![e] = None]
    /\ overtaken' = overtaken \cup {e}

(***************************************************************************)
(* The strips move: rebalance, maybe_split and the job they share.         *)
(***************************************************************************)
\* wal_partition_config.  A failed append is ignored; the line may be there.
PersistTopology ==
    LET map == [rev |-> rev + 1, bounds |-> bounds', splits |-> splits'] IN
    /\ rev < conf.revs /\ rev' = rev + 1
    /\ \/ Failing(0) /\ logged' = map /\ UNCHANGED unlogged
       \/ Failing(1) /\ logged' \in {logged, map} /\ unlogged' = TRUE
    /\ published' = IF unlogged' \/ rev' <= published.rev THEN published ELSE map

Misplaced ==
    {e \in Entities : /\ Live(ent[e]) /\ IsStrip(ent[e].region[1])
                      /\ MovementRegionAfter(ent[e].pos[1], ent[e].region) # ent[e].region}

TopologyMoves ==
    /\ ~conf.grid /\ job = {}
    /\ PersistTopology
    /\ overtaken' = overtaken \cup {handoffs[i].eid : i \in DOMAIN handoffs}
    /\ UNCHANGED <<conf, ent, departed, handoffs, remote, migrations, restarts, alone, raced>>

\* rebalance: the loads say which way.
Rebalance(way) ==
    /\ Len(bounds) = 1
    /\ bounds[1] + way \in -Reach .. Reach
    /\ bounds' = <<bounds[1] + way>>
    /\ UNCHANGED <<splits, regionWorker, standbys>>
    /\ TopologyMoves
    /\ job' = Misplaced'

InRegion(region) == {e \in Entities : Live(ent[e]) /\ ent[e].region = region}
IsMedian(m, S) ==
    LET x(e) == ent[e].pos[1]
    IN  /\ Count(S, LAMBDA e : x(e) < m) <= Cardinality(S) \div 2
        /\ Count(S, LAMBDA e : x(e) <= m) > Cardinality(S) \div 2

\* maybe_split: a hot region that is not split, if a standby is free.
Split(region) ==
    LET inside == InRegion(region) IN
    /\ region \in DOMAIN regionWorker /\ region[2] = 0 /\ region[1] \notin Zones
    /\ standbys # <<>> /\ Cardinality(inside) >= 2
    /\ \E median \in {ent[e].pos[1] : e \in inside} :
        /\ IsMedian(median, inside)
        /\ splits' = With(splits, region[1], <<median>>)
        /\ job' = {e \in inside : ent[e].pos[1] >= median}
    /\ regionWorker' = With(regionWorker, <<region[1], 1>>, Head(standbys))
    /\ standbys' = Tail(standbys)
    /\ UNCHANGED bounds
    /\ TopologyMoves

\* process_rebalance_jobs and re_route_one, for the next entity of the job.
Reroute(e, bad) ==
    LET st == ent[e]
        routed == Live(st) /\ IsStrip(st.region[1]) /\ RegionOf(st) # st.region
        s == IF routed
             THEN Handoff([handoffs |-> handoffs, remote |-> remote], ent, e, RegionOf(st), bad)
             ELSE [handoffs |-> handoffs, remote |-> remote]
    IN  /\ e \in job /\ (bad # {} => routed)
        /\ job' = job \ {e}
        /\ Failing(Cardinality(bad))
        /\ handoffs' = s.handoffs /\ remote' = s.remote
        /\ overtaken' = overtaken \cup (bad \cap {e})
        /\ alone' = alone \cup (bad \ {e}) \cup
                    (IF routed /\ Parent[e] # None THEN {e} ELSE {})
        /\ UNCHANGED <<conf, topology, regionWorker, standbys, ent, departed, migrations,
                       restarts, raced>>

(***************************************************************************)
(* The grid's blocks: rebalance_2d.                                        *)
(***************************************************************************)
\* The weight of the entities in a set of regions.
WeightIn(regions) ==
    MapThenSumSet(LAMBDA e : conf.weight[e],
                  {e \in Entities : Live(ent[e]) /\ ent[e].region \in regions})
BlocksOf(w) == {r \in DOMAIN regionWorker : regionWorker[r] = w}
Load(w) == WeightIn(BlocksOf(w))
Loaded == {regionWorker[r] : r \in DOMAIN regionWorker}
Distance(a, b) == IF a < b THEN b - a ELSE a - b

\* The block to give away: the closest to half of the gap, any of them if several
\* are.
ClosestToGap(hot, gap) ==
    {b \in BlocksOf(hot) : \A c \in BlocksOf(hot) :
        Distance(WeightIn({b}), gap) <= Distance(WeightIn({c}), gap)}
ClosestToHalf(hot, gap) ==
    {b \in BlocksOf(hot) : \A c \in BlocksOf(hot) :
        Distance(WeightIn({b}), gap \div 2) <= Distance(WeightIn({c}), gap \div 2)}

\* queue_block_migration: the entities the hot worker owns at this moment.
GrantOfOne(block, hot, cold) ==
    LET owned == {x \in InRegion(block) : ent[x].owner \in {hot, None}}
    IN  IF owned = {} THEN <<>> ELSE (CHOOSE x \in owned : TRUE) :> cold
Grants(block, hot, cold) ==
    [e \in {x \in InRegion(block) : ent[x].owner \in {hot, None}} |-> cold]

RebalanceBlocks(hot, cold) ==
    /\ conf.grid /\ job = {} /\ Len(migrations) < MaxStaged
    /\ hot # cold /\ {hot, cold} \subseteq Loaded
    /\ \A w \in Loaded : Load(cold) <= Load(w) /\ Load(w) <= Load(hot)
    /\ 2 * Load(hot) >= 3 * Load(cold) + 8
    /\ Cardinality(BlocksOf(hot)) >= 2
    /\ \E block \in ClosestToHalf(hot, Load(hot) - Load(cold)) :
        /\ \A i \in DOMAIN migrations : migrations[i].block # block
        /\ migrations' = Append(migrations,
               [block |-> block, to |-> cold, grants |-> Grants(block, hot, cold)])
    /\ raced' = raced \cup {handoffs[i].eid : i \in DOMAIN handoffs}
    /\ UNCHANGED <<conf, topology, regionWorker, standbys, ent, departed, job, handoffs,
                   remote, failures, restarts, overtaken, alone>>

(***************************************************************************)
(* A crash and the next start: what was staged is applied as far as its    *)
(* lines are in the file, the topology is the logged one, jobs are gone,   *)
(* and the workers connect to the regions they are configured for.  (Who   *)
(* leads a block after a restart of a grid is the subject of RegionLease.) *)
(***************************************************************************)
ForgottenVersion == 0
RestoredVersion == logged.rev
Restart ==
    /\ ~conf.grid /\ restarts < conf.starts /\ restarts' = restarts + 1
    /\ \E n \in 0 .. Len(handoffs) :
        LET lost == {handoffs[i].eid : i \in n + 1 .. Len(handoffs)} IN
        /\ ent' = ApplyHandoffs(ent, SubSeq(handoffs, 1, n))
        /\ overtaken' = IF logged.bounds = bounds /\ logged.splits = splits
                        THEN overtaken \cup job \cup lost ELSE Entities
        /\ alone' = alone \cup {e \in lost : Parent[e] # None}
    /\ rev' = RestoredVersion /\ bounds' = logged.bounds /\ splits' = logged.splits
    /\ regionWorker' = conf.owners /\ standbys' = conf.standbys
    /\ job' = {} /\ handoffs' = <<>> /\ remote' = {}
    /\ UNCHANGED <<conf, logged, published, unlogged, departed, failures, migrations,
                   raced>>

Planet == <<"planet", 0, 0>>
Targets == {None} \cup DOMAIN regionWorker
Next ==
    \/ \E e \in Entities : \E p \in conf.spots :
        \/ \E bad \in Unwritable(e) : Move(e, p, bad)
        \/ \E requested \in {None, Planet} : Spawn(e, p, requested)
        \/ \E target \in Targets : Adopt(e, p, target)
    \/ Tick
    \/ \E way \in {Step, -Step} : Rebalance(way)
    \/ \E region \in DOMAIN regionWorker : Split(region)
    \/ \E e \in job : \E bad \in Unwritable(e) : Reroute(e, bad)
    \/ \E hot, cold \in Workers : RebalanceBlocks(hot, cold)
    \/ Restart

Spec == Init /\ [][Next]_vars

(***************************************************************************)
(* Properties.                                                             *)
(***************************************************************************)
\* With no re-routing in progress, every entity of a strip or cell is inside it,
\* give or take H, and in the right band ("the drain re-routes each via
\* movement_region_after").  Not so if the topology changed while its hand-off
\* was staged, or its re-routing was lost, until it moves again; or if it belongs
\* to a broker it could not be forwarded to.
InItsZone ==
    job = {} /\ handoffs = <<>> => \A e \in Entities \ overtaken :
        Live(ent[e]) /\ Parent[e] = None /\ ~IsRemote(RegionOf(ent[e]))
            /\ (conf.grid \/ IsStrip(ent[e].region[1]))
        => Within(ent[e].pos, ent[e].region) /\ InBand(ent[e].pos, ent[e].region)

\* A child is in the region of its root ("they apply together after wal_sync, not
\* as a visible parent/child tear"), unless a job re-routed it by its own
\* position, its line was not written, or it arrived elsewhere.
AssemblyTogether ==
    handoffs = <<>> => \A c \in Entities \ alone :
        Live(ent[c]) /\ Parent[c] # None /\ Live(ent[Parent[c]])
        => ent[c].region = ent[Parent[c]].region

\* What is forwarded belonged to the target with the position it left with,
\* whatever was applied since the hand-off was deferred.
DepartedBelongs ==
    \A e \in Entities : departed[e] # None => departed[e].belonged

\* A version names one map, also across restarts (VersionedPartitionMap), unless
\* an append of a partition_config was lost, which the code ignores.
VersionNamesMap ==
    /\ rev <= published.rev \/ unlogged
    /\ rev = published.rev /\ ~unlogged => published = CurrentMap

\* The entities of a block are owned by the worker of the block ("stage the whole
\* block as one durable transition"), except those that came or were on their way
\* while it migrated.
BlockWhole ==
    conf.grid /\ handoffs = <<>> /\ migrations = <<>> => \A e \in Entities \ raced :
        Live(ent[e]) /\ OwnerOf(ent[e].region) # None
        => ent[e].owner = OwnerOf(ent[e].region)

\* A block migration sheds no more than the gap ("converges without overshoot")
\* unless all of the hot worker's blocks hold more than that.
Sheds ==
    [][ Len(migrations') > Len(migrations) =>
        LET m == Last(migrations')
            hot == regionWorker[m.block]
        IN  \/ WeightIn({m.block}) <= Load(hot) - Load(m.to)
            \/ \A b \in BlocksOf(hot) : WeightIn({b}) > Load(hot) - Load(m.to) ]_vars
=============================================================================
