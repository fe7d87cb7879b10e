# Verification of the godworks broker

TLA+ models of the broker of godworks-os (`src/main.rs`, `src/wal.rs`) and of the two
programs at the other end of its connections that keep state, the client SDK's cache and
the zone worker, with the TLC runs that check them on small instances and the TLAPS
proofs of what holds for every instance.
`PROJECT.json` maps each definition to the source lines it stands for.

    tlc -config DurabilitySerial.cfg MCDurability     # one run
    tlapm DurabilityProofs.tla                        # one proof module

## 1. The system

A broker is one process that owns a set of regions of a world. Workers connect over
TCP, lease regions and simulate the entities in them; clients and inspectors watch. The
broker keeps the canonical entities in RAM (`ServerState`), logs every durable
transition to a write-ahead log, publishes deltas to interested peers, and hands
entities to other brokers when they cross a process seam ("mesh").

**Concurrency.** Every frame handler and every timer takes one `Mutex<ServerState>` for
its whole body. Inside a broker the interleavings that matter are therefore between
*handlers*, over state that is staged from one to the next: three queues that wait for
an fsync, commands waiting for an answer, hand-offs waiting for an ack. Between brokers
there are two TCP connections per pair, one dialled by each side, so a hand-off and the
ack of another hand-off have no order between them.

| Component | State | Operations | Hard part |
|---|---|---|---|
| Durability core | log file, `pending_updates`, `pending_handoffs`, `pending_failovers`, `wal_degraded` | `wal_append*`, `wal_sync`, 16 ms flush tick, `maybe_compact_wal`, recovery | staged against direct operations, failed fsync, compaction, crash between append and fsync |
| Mesh hand-off | `pending_mesh`, `mesh_forwarded_epoch`, `mesh`, `region_lease_epoch` | `mesh_forward`, `resend_pending_mesh`, `MeshHandoff`, `record_mesh_ack`, link tasks | resends, late acks, restarts at either end, stale incarnations |
| Region leases, failover, sessions | `region_worker`, `region_expires`, `standbys`, `orphaned_regions`, `workers` | `WorkerConnect`, `Heartbeat`, `check_leases`, failover grants, teardown | late heartbeats, dead standbys, an old session's teardown after a reconnect |
| Component authority and ACL | `Entity.authority`, `authority_epochs` of a worker | `SetComponentAuthority`, grants, contact arbitration, stale-epoch check | epochs from several paths |
| Commands | `pending_commands` | `CommandRequest`, `CommandResponse` | authority moving before the answer |
| Egress and ingress limits | `out_queue`, `load_level`, token bucket | `emit`, `reap_disconnecting`, `update_load_governor` | caps, critical frames |
| Interest and ghosts | `view`, interest grid, `ghosts` | `Interest`, `propagate`, `push_border_ghosts`, `reap_stale_ghosts` | stale mirrors |
| Partition and rebalance | boundaries, sub-boundaries, grid, the active job, `pending_block_migrations` | `region_after`, `rebalance`, `maybe_split`, `rebalance_2d`, the drain of a job | hysteresis at boundaries, entities that move while the map does |
| Threshold transactions | component `threshold.tx` | `ThresholdTx`, `gc_threshold_timeouts` | commit racing the timeout |
| Snapshot and restore | marker offset, `snapshot_seen` | `SnapshotMarker`, `GW_RESTORE_OFFSET` | cut while transitions are staged |
| Registry and drain | one JSON file per region, `superseded_regions`, `draining` | `registry_heartbeat`, the 1 s tick, epoch claim at start, `drain_handoff_owned` | read-then-write without a lock, several incarnations, exit while hand-offs are in flight |
| WAL reader (`wal.rs`) | none | `read_wal_events`, tail truncation | torn tail, torn header |
| Client SDK | `ClientCache` rows, critical sections | `apply`, resync, reconnect | frames dropped on the way, resync next to deltas |
| Zone worker | `bots`, mirrored positions, epochs | `handle_frame`, the physics tick | what it believes it owns against what the broker does |
| Other crates, binaries, examples | little | worker SDK, protocol types, load generators, offline tools | none |

What makes each correct:

- *Durability core*: nobody sees what a crash can take back; RAM and replay agree; no
  version, epoch, id block or deleted identity goes back.
- *Mesh*: an undeleted entity is in exactly one place; no two brokers own it, whatever
  is resent; every parked hand-off is released.
- *Leases and sessions*: a region has at most one worker that believes it owns it, and
  gets one again while standbys exist; a live session is not torn down by a dead one.
- *Authority*: one writer per component and epoch.
- *Commands*: at most one answer, from the owner it was routed to; eventually one.
- *Egress*: a session that stays open has missed no critical frame.
- *Interest, ghosts, client cache*: a view is what its interest asks for; a mirror
  that has read what was sent shows what its source has.
- *Zone worker*: a body is simulated by the worker that owns it and by no other.
- *Registry*: of several incarnations all but one fence themselves.
- *Partition*: one region per position, no flapping inside the hysteresis band.
- *WAL reader*: the longest valid prefix, and nothing else, is replayed.

## 2. Modules

| Module | What it is |
|---|---|
| `Durability` | one broker: RAM, log, staging, flush, compaction, crashes |
| `IdentityStore` | abstract specification: ids are created once and deleted once |
| `DurabilitySchedules` | `SerialSpec`, `SettledSpec`: the schedules in which transitions of an entity do not overlap |
| `DurabilityProofs` | `TypeCorrect`, `IdentityIsRecoverable`, `IdentityIsReplayed`, `IdentityRefinement`; `NothingShownIsLost`, `ReplayGivesRam`, `NothingRewinds`, from the invariant `ReplayInv` |
| `WalFile` | the log as bytes that tear: writes, fsync, header, reader, compaction, cuts |
| `DurableLog` | abstract specification: a log that grows at the end and of which a part is firm |
| `WalFileProofs` | `TypeCorrect`, `PromisedIsKept`, `CutIsKept`, `FileIsDurableLog`, from the invariant `KeptInv` |
| `MeshHandoff` | brokers, links, hand-offs, acks, leases, restarts |
| `MeshHandoffProofs` | `MeshSingleOwner`, `MeshOwnerIsNewest`, `MeshNothingLost`, from the invariant `MeshInv` |
| `Federation` | several incarnations of a region, the registry file, link tasks, drain |
| `FederationProofs` | `OwnedOnce`, `TwoRegionsSingleOwner`, `TwoRegionsKept`, from the invariants `Sound`, `Safe` and `Paired` |
| `RegionLease` | worker sessions, leases, standbys, failovers, the owners of entities |
| `Partition` | positions and regions, boundaries and grid that move, entities that follow |
| `PartitionProofs` | `TypeCorrect`, `VersionsNameMaps`, `WhatDepartsBelongs`, `MigrationsShed`; `EveryoneInItsZone`, `AssembliesStayTogether`, `BlocksStayWhole`, from the invariants `ZoneInv`, `AssemblyInv` and `BlockInv` |
| `Authority` | component authority, ACL writes, contacts, commands, thresholds |
| `AuthorityProofs` | `AuthorityHeldIsCurrent`, `AuthorityAnswers`, `AuthorityEpochsOnlyGrow`, `AuthorityContactApart`, from `AuthorityInv` and `Apart` |
| `View` | admission, interest, fan-out, egress, ghosts, events, the client's cache |
| `ViewProofs` | `ViewFollowsInterest`, `HashNamesWorkers`, `GhostsStayApart`, from the invariant `Inv`; `CacheFollowsView`, from `Cache` |
| `ZoneWorker` | the physics workers of two regions at one broker |
| `Names` | the constants that `RegionLease` and `ZoneWorker` share |
| `RegionProofs` | of `RegionLease`: `LeaseTypeCorrect`, `FailoversUnite`, `OwnersAreReplayed`, `LiveLeasesKept`, from `Inv`; of `ZoneWorker`: `StrangersLetGo`, `OwnersSimulate`, `AdoptedWhereItWas`, from `Minded` |
| `MC...` | for TLC: symmetry, deployments |

The modules overlap where components interact and each keeps whole what the others
hold still: `RegionLease` moves the owners of regions and `Authority` fixes them;
`Durability` has the barriers, and `View` takes the log as accepting; `MeshHandoff` has
brokers whose barriers fail, `Federation` has more of them with barriers that hold.
Composed are the broker with its log (`Durability`, `RegionLease`, `Authority`,
`Partition`, with restarts that replay it), broker with broker (`MeshHandoff`,
`Federation`), and broker with peer (`View` with the client, `ZoneWorker`).

**Deployments.** `Partition`, `Authority`, `View`, `ZoneWorker` and `Federation` have a
constant `Deployments` and a variable `conf` that picks one in `Init` and keeps it. A
deployment is an environment the broker can be started in (strips or a grid, who
connects and as what, which positions are reached, how small a channel is) with its
bounds (how many failures, restarts, moves). One run covers all of them; a deployment
says which operations happen in it, never what an operation does.

### Durability

| Variable | Code |
|---|---|
| `entities`, `deleted`, `nextId` | `entities`, `deleted_entities`, `entity_id_reservations` |
| `regionWorker` | `region_worker` (not logged; empty after a restart) |
| `writes`, `handoffs`, `failovers` | `pending_updates` per entity, `pending_handoffs`, `pending_failovers` |
| `degraded` | `wal_degraded` |
| `logged` | the store that `apply_wal_events` builds from the whole file |
| `mayRecover` | the stores its crash-surviving prefixes yield |

The log is not kept as a sequence of records. `logged` is the fold of the records, and
an append adds one store to `mayRecover`; an fsync leaves only `logged` there. Nothing
reads the log except recovery, so the two are all that a crash can tell apart. Each
`Replay...` operator is the arm of `apply_wal_events` for its record kind, and each
action computes RAM and replay separately: when the two differ, the model differs.

One action per handler. `UpdateComponent`, `ReRoute` and `FailOver` append without
fsync and stage. `Flush` is the durability tick: it syncs and applies the writes
(staging the hand-offs of those that crossed a boundary), then syncs and applies the
hand-offs, then the failovers, and every barrier may fail on its own. `CreateEntity`,
`DeleteEntity`, `AddComponent`, `RemoveComponent`, `SetComponentAuthority`,
`ReserveEntityIds` and `Fold` append, sync and apply in one go, with an append that
fails, or a sync that fails and leaves the line in the file. `PowerLoss` restarts from
any store of `mayRecover`, `ProcessCrash` from `logged`, which is what the page cache
holds.

Abstractions: a position is the region that contains it (a re-route may go to any other
region, which covers any movement of the boundaries); an entity's physics island is one
authority; a failed write leaves the file as it was; the rename of a compaction is
durable (the code syncs the file, not the directory). In other modules: block migration
and assembly children (`Partition`), snapshot markers and the restore offset (`WalFile`),
takeover of a lapsed lease by a connecting worker (`RegionLease`), threshold and contact
transitions (`Authority`).

### MeshHandoff

| Variable | Code |
|---|---|
| `ram[b]` | `entities` (as an epoch), `mesh_forwarded_epoch`, `pending_mesh`, `deleted_entities` |
| `logged`, `mayRecover`, `degraded` | as in Durability, per broker |
| `lease`, `known` | the incarnation's epoch and its registry file; `region_lease_epoch` |
| `up`, `frames`, `acks` | `mesh` senders and the two directions of each TCP connection |
| `handle` | `workers["mesh-link-<region>"]` at the target |
| `dying` | connections whose `handle_conn` has yet to run its teardown |

`Forward` is `mesh_forward`; `Resend` one entry of `resend_pending_mesh`; `ReceiveAck`
is `record_mesh_ack` in the link's reader. The `MeshHandoff` handler is split along its
ways out: `Refuse` (fail-closed gate, lease fence), `AckStale` (tombstone, forwarded
fence, parked without fence), `AckPresent` (already here) and `Adopt` with its failing
barriers. `Connect`, `Break` and `Teardown` are the link task and `handle_conn`;
`Restart` is a crash, recovery from any surviving prefix, and the claim of the next
lease epoch.

Abstractions: one region per broker, one incarnation of a region at a time (so
`superseded_regions` never applies); the first heartbeat is immediate; every entity
starts registered, so there is no `CreateEntity`; a broken connection loses what is in
flight on it. Ghost data: the `epoch` of an ack, which is not on the wire, and the history
variable `misled`; no guard and no other variable depends on them. In `Federation`:
several incarnations, the shared registry file, drain. Left out: static links without a
lease, a pinned `@epoch` advertisement, the test hooks that drop acks.

### RegionLease

| Variable | Code |
|---|---|
| `region`, `owner` | region of an entity; owner of its `ServerPhysicsIsland` components in RAM |
| `regionWorker`, `live` | `region_worker`; regions whose `region_expires` is ahead |
| `standbys`, `failovers` | `standbys`, `pending_failovers` |
| `degraded`, `logged`, `mayRecover` | as in Durability, for the owners alone |
| `used`, `open`, `handle` | sessions opened by a name, those still read, and the one in `workers` |
| `takenOver` | history: regions a connect took over from the owner of an entity |

`Connect` and `ConnectStandby` are `handle_conn` up to its read loop, `Teardown` its end,
`Reap` the removal of a handle whose egress overflowed. A worker is known by its name,
so the end of an old session removes the handle of a newer one. `Renew` is a heartbeat or
an applied write, `Lapse` the passing of `region_expires`. `CheckLeases` is the monitor
tick: every lapsed region that has no failover staged, in any order (`region_worker` is a
hash map), takes the next standby; an append that fails puts the standby back. `Flush`
empties the queue and applies it if the barrier holds. `Restart` forgets leases,
sessions and standbys and takes the owners from any surviving prefix.

Left out: entities that change region (Durability), epochs, the orphan list (a log line
and a metric), observers, egress itself; splits that take a standby and block migrations
are in `Partition`, the frames each worker is sent in `ZoneWorker`.

### WalFile

| Variable | Code |
|---|---|
| `file`, `synced` | what the operating system has of the log, and how much of it is durable |
| `walBytes`, `open`, `degraded` | `wal_bytes`, `wal.is_some()`, `wal_degraded` |
| `staged`, `ram` | records waiting for the barrier; records applied, in order |
| `cut`, `snapshotSeen` | the last manifest and `snapshot_seen` |
| `promised`, `botched`, `restored` | history: records whose barrier held; see section 4; this start was at an offset |
| `overtaken` | history: pairs of which the second was applied while the first, logged before it, was staged |

A file is a sequence of chunks (header, body of a record, newline, what is left of a
torn body). `RecoverablePrefix`, `CorruptTail`, `MidCorrupt`, `SyncedAfterCut` and `Start`
are `wal.rs` and what `main` does with it at start: a torn or unterminated last line is
cut off, corruption before it makes the broker exit. `Stage` and `Durable` are the two
kinds of append, `Barrier` the fsync with what waits for it, `Compact` writes a snapshot
and renames it, `SnapshotMarker` takes a cut, `Restore` starts at the offset of one.
`Durable` does not wait for what is staged, as its handlers (creation, deletion,
`SetComponentAuthority`, mesh acks and more) do not: what it logs last it applies first, so
RAM has the records of the file in another order. `CutReplays` therefore says that a cut replays to
the records it was taken of, in the order they were applied in except for the pairs in
`overtaken`; without such a pair the two are equal.
`Survivors` is the file system: any prefix that keeps `synced`, the last chunk whole
or torn. Left out: the refusal of a file of a newer version, the dry run, and what is
inside the checksums and the manifest's hashes. `DurableLog` is what `mayRecover` of the
other modules assumes of a log.

### Partition

| Variable | Code |
|---|---|
| `bounds`, `splits`, `rev`, `logged` | `boundaries`, `sub_boundaries`, `zone_topology_rev`, the last `partition_config` in the log |
| `regionWorker`, `standbys` | as in the code |
| `ent`, `departed` | position, region and owner of an entity; where it was forwarded to |
| `job`, `handoffs`, `remote`, `migrations` | the entities an active `RebalanceJob` still has; `pending_handoffs`, `pending_remote_handoffs`, `pending_block_migrations` |

`Move` is one durability tick with a position (the crossing, with its children, is staged
and applied in it), `Tick` a barrier that takes what is staged after a failed one,
`Spawn` and `Arrive` an entity new here, `Rebalance` the sliding boundary, `Split` a band
for a standby, `Reroute` one step of the drain of the job, `RebalanceBlocks` the grid's
migration of a whole block, `Restart` the replay of config and entities. `Unwritable` is
the set of an assembly whose lines the log did not take. Left out: seam intents
(`ZoneWorker` has them), island epochs, the restart of a grid broker. `Rebalance` moves the
boundary by any step within `Reach`: the code chooses by load, which the model does not
have for strips.

### Authority

| Variable | Code |
|---|---|
| `ent[e].auth[c]`, `ent[e].tx` | `Entity.authority` (owner, epoch, mode); `threshold.tx` |
| `disk` | what a replay of the log gives for the same |
| `workers[w]` | a connection: `view`, and `authority_epochs` as `cache` |
| `updates`, `handoffs`, `pending` | `pending_updates`, `pending_handoffs` with the map each captured, `pending_commands` |
| `inbox`, `answer` | frames a worker has not answered; history: the last answer forwarded |

`UpdateComponent` is the write with its checks in their order (writer, epoch, envelope of
a sparse client), `ContactRisk` and `Escalate` what the broker does when two clients'
bodies meet, `SetComponentAuthority` the administrator, `QueueHandoff` and `Flush` the
hand-off whose captured map replaces the authority of an entity, `CommandRequest`,
`CommandResponse` and `RejectStale` the routed commands, `ThresholdPhase`,
`ThresholdCommit` and `ThresholdTimeout` the transactions, `Interest` the checkout that
grants. Two components stand for the physics island and for the rest, positions are
points of a line. A request that is refused with a frame and no change of state is a
disabled action. Left out: who owns which region over time, deletion and creation.

### View

| Variable | Code |
|---|---|
| `ents`, `ghosts`, `tombs` | `entities` with `last_broadcast_cell`, `ghosts` with their age, `deleted_entities` |
| `away`, `link` | external: the neighbour's entity, and the frames from it |
| `peer[w]` | `WorkerHandle`: claims, area, `view`, `update_seq`, tokens, the bounded channel, the flag |
| `grid`, `global`, `level`, `outbox` | `interest_grid`, `global_workers`, `load_level`, `event_outbox` |
| `client[w]` | `ClientCache` of the SDK with its phase, rows and open critical sections |
| `up`, `loops` | connections open; read loops of replaced connections that have not ended |

`Resolve`, `Allows` and `Cost` are admission, role policy and ingress cost; `Propagate`,
`SendUpdate` and `Emit` the fan-out down to what `emit` sheds or flags;
`PushBorderGhosts`, `MeshGhost` and `MonitorTick` the mirrors; `Deliver` a peer that reads,
whose client applies every frame (`Apply`). `Dispatched` ends every handler with
`reap_disconnecting`, as the code does. The fields `lossy`, `stray`, `unseen`, `given` of a
peer are histories: values shed or coarsened, rows without view, rows only a query
showed or whose ghost mark was shed, entities shown with their authority. Left out: components other than the
position, and the workers' authority beyond what opens a view.

### ZoneWorker

| Variable | Code |
|---|---|
| `state` | one record for the broker's `ServerState`: entities, leases, standbys, staged queues, handles and their views |
| `up`, `down` | the two directions of each connection |
| `body`, `mirror` | the worker's `bots` (with the epoch it writes under) and `view_pos` |
| `spent` | counters for the bounds |

`Tick` is the worker's physics tick: it moves its bodies, sends positions, folds and a
heartbeat; `Hear` is what it does with one frame, `Heard` with several, `Rejected` the
table of reasons it acts on. `Receive` is the broker's dispatch of one frame (`Update`,
`Create`, `Fold`, `InterestArrives`), `Publish` the durability tick,
`LeaseEnds` the passing of `region_expires`, `PromoteStandby` the failover, `Start` and `Cut` a worker that connects or ends. The broker's
side is a chain of record updates, as the handlers are a chain of changes under one
lock. In every step of the broker each append and each barrier may fail by itself
(`Faults`): writes and failovers behind a failed barrier are given up, hand-offs are kept
(5307) and a later tick or fold applies them as they were captured, on a degraded broker
as on another, after whatever frames, connects and failovers came between. A degraded
broker refuses the persistent operations of workers; its own hand-offs and failovers are
only refused by an append that fails. The fields `stranded`, `untold` and `blurred` are histories, which say where the code
leaves a worker without word. Left out: velocities and physics, batches that are split, metrics.

### Federation

| Variable | Code |
|---|---|
| `node[n]` | one process: its lease, `superseded_regions` as `fenced`, `draining`, `region_lease_epoch` as `known`, the links of `mesh`, entities owned, forwarded and parked, and what its log replays to |
| `registry` | the file of each region: absent, torn, or who wrote it at which lease |
| `frames`, `acks`, `handle`, `dying` | as in `MeshHandoff`, per pair of processes |

A registry tick reads the file, truncates it, writes it and reads everybody's, with no
lock: where ticks may overlap these are steps (`Heartbeat`, `Truncate`, `Write`, `Read`),
in the other deployments a tick is one (`Tick`). `Start` claims a lease from what it finds,
`Freeze` and thaw are the registry out of reach (`GW_REG_FREEZE_FILE`), `Connect`,
`Break`, `Notice` and `Teardown` the dynamic link task, which resolves the registry only
after a write has failed, `Cross`, `Resend`, `Deliver`, `ReceiveAck` the hand-off with the
shared name `mesh-link-<region>`, `Drain`, `DrainTick`, `DrainExit` the rolling deploy,
`Crash` and a later `Start` a restart from the log. Left out: the `@epoch` pin of
`GW_ADVERTISE`, `GW_MESH` beside the registry, `GW_DRAIN_EXIT` off, two writes of one
registry file that mix, failing barriers.

## 3. Runs

| Run | Bounds | States | Shows |
|---|---|---|---|
| `durability_serial` | 1 entity, 2 regions, 2 workers, 1 component, version ≤ 5, epoch ≤ 4, compaction | 162k | `VisibleIsDurable`, `NeverRewinds`, `RamIsReplay` when transitions of one entity do not overlap |
| `durability_identity` | 2 entities, 1 worker, 1 id block, all overlaps, compaction | 1.0M | `IdentityRecoverable`, refinement of `IdentityStore` |
| `durability_process` | 1 entity, 2 workers, all overlaps, compaction, process crashes | 160k | `TypeOK`, `IdentityReplayed` |
| `wal_file` | 3 records, 2 crashes, every tear, failing writes and fsyncs | 532k | `PromisedSurvives`, `CutReplays`, refinement of `DurableLog` |
| `mesh` | 2 brokers, 1 entity, epoch ≤ 3, lease ≤ 2, 1 frame per direction, failing barriers | 1.5M | `SingleOwnerUnlessMisled`, `OwnerIsNewestUnlessMisled`, `NothingLostUnlessMisled` |
| `mesh_live` | the same without failing barriers or restarts, with compaction | 37k | `StuckOnlyIfRefused` |
| `federation` | 3 processes of 2 regions, 1 entity, 7 deployments | 59k | `SingleOwner`, `Kept`, `OneStands`, `DrainEnds` |
| `lease` | 2 workers, 2 regions, 1 entity, 2 sessions each, failing appends and barriers | 246k | `TypeOK`, `OwnerIsReplay`, `FailoverUnites`, `LiveLeaseKept`, `Reclaimed` |
| `partition` | up to 3 entities, strips and grids, 6 deployments | 133k | `InItsZone`, `AssemblyTogether`, `DepartedBelongs`, `VersionNamesMap`, `BlockWhole`, `Sheds` |
| `authority` | up to 2 entities, 5 connections, 6 deployments | 204k | `HeldIsCurrent`, `AnswerFromHolder`, `ContactApart`, `EpochsOnlyGrow` |
| `view` | 1 entity, up to 3 peers, 7 deployments | 83k | `ViewMatches`, `CacheFollows`, `GridNamesWorkers`, `GhostsApart` |
| `zone_worker` | 2 region workers and a standby, up to 2 bodies, 8 deployments | 119k | `NobodyElseSimulates`, `OwnerSimulates`, `AdoptsWhereItWas` |

A module has one `TypeOK`; those of `Durability` and `RegionLease` are in a run as well as
proved, those of `MeshHandoff`, `Authority`, `Partition` and `Federation` are proved.

*Exceptions with a name.* Where the code does something else than what one would state,
the property is stated for the rest and a history variable collects what is excepted
(`misled`, `overtaken`, `untold`...). No guard reads a history variable. A reader learns
from the property that nothing *else* breaks it, and from the variable's assignment
exactly which step does; section 4 lists them with their lines. Each is as narrow as TLC
allows: an entity, a connection or a component, until the state it stands for is repaired.

*The serial restriction.* The code lets a direct operation overtake a staged transition
of the same entity, and RAM and log then part. To see what holds otherwise, `SerialSpec`
keeps an entity alone while a transition of its own is staged:
no second transition is staged for it and nothing else is logged or applied for it.
Other entities, workers, regions, barriers and crashes are free. `SettledSpec`, which
`durability_serial` runs, also excludes the batches in which a
write of an entity follows the one that crossed: the hand-off then logs the earlier
version, so versions go back too. Both are in `DurabilitySchedules`; `durability_serial`
and the last three theorems of `DurabilityProofs` are about `SettledSpec`. `durability_identity`
and the other proofs do not use it: identity survives every overlap.

*The `misled` history.* A late ack may lose an entity, and with three brokers give it
two owners (section 4). `misled`
collects the entities for which a broker took an ack while it held the entity again,
while its log did (a register written but not fsynced: the ack's own line then retires
it at the next barrier), or while it had parked the entity again at another epoch; for
every other entity there is one owner, it is the newest, and nothing is lost. With two
brokers TLC finds no second owner for a misled entity either. `mesh` runs without compaction, because a compaction drops what is
parked: `maybe_compact_wal` does not look at `pending_mesh` (line 1906).

*Bounds.* `MaxVersion`, `MaxEpoch`, `MaxId`, `MaxLease`, `MaxQueue`, `MaxRecords`,
`MaxCrashes`, `MaxStaged` and the numbers of a deployment only limit the
state space. Version 3 lets two writes of one batch and a hand-off follow a create;
version 5 in
`durability_serial` leaves room for a second life in the new region. In `MeshHandoff`,
epoch 3 lets an entity leave, come back and leave again, which the fence is about;
lease 2 gives each broker a restart; one frame per direction is enough for a hop and
its resend to overtake each other, since they travel on different connections. The
configuration of `mesh` with one bound raised (epoch 4, or lease 3, or two frames per
direction: 6 to 7 million states, some five minutes each) finds no error either. Two
regions and two workers are what a crossing and a failover need. In `RegionLease` two
sessions per worker let an old one end after a reconnect, over two regions that fail
over in one tick; `MaxSessions` also bounds the standby list. A run with 2 entities,
without liveness and with symmetry, passes as well (160 thousand states).
In `WalFile` three records are a promised one, one torn behind it and one written after
the restart; two crashes let recovery itself be cut. In `Partition` the deployments are a line with a
parent, its child and a spare standby; the same line with a neighbour, with and without
a home region; three strips with a region that is none of them; a row of three cells
with weights that let a block be heavier than the gap, and a square with a remote
corner. In `Authority` two entities are a contact, and one client or two may drive them;
commands, thresholds and contacts have deployments of their own because they share only
the authority record. In `View` a peer with a channel of five frames meets every
threshold of the governor and of `emit`, with one entity to see; points 0 to 3 are
two cells of the spatial hash. In `ZoneWorker` four points let a body stand on its side of
the seam, in the hysteresis on either side, and beyond; one deployment adds an entity to a
region whose worker is gone and whose failover is staged. In `Federation` two incarnations
and a neighbour are what a takeover and a drain need.

*Deadlock.* Only the Durability and lease runs check it, whose brokers always have
something to do. In the others counters at their bounds, or a broker that exited, may
end a behaviour, as an idle broker does.

*What `RegionLease` says.* `FailoverUnites` is stated with a history variable because a
connect may part a region from its entities; nothing else does.
`LiveLeaseKept` exempts a region with a staged failover: a worker that connects between
the monitor tick and the flush gets a live lease and loses it to the standby within a
tick, as the grant is already logged. `OwnerIsReplay` allows `None` for owners that only a connect
granted: connects log nothing, and the restarted broker grants again. `Reclaimed` is
void while a barrier has failed, since the tick then drops or keeps standbys as
failures fall.

*Fairness.* `Durability`, `WalFile`, `Partition`, `Authority`, `View` and `ZoneWorker` have
none: their properties are safety, or speak of a moment when nothing is in flight. `MeshHandoff!FairSpec`
takes weak fairness of `Connect` (the link task loops with a back-off), `Teardown` (the
handler ends) and `Learn` (1 s tick); strong fairness of `Resend` (the monitor tick runs
every second whether or not the link is up at the moment) and of delivery on a link,
which says that a link that keeps coming up does now and then stay up long enough for
what is sent on it. `RegionLease!FairSpec` takes weak fairness of `CheckLeases` and
`Flush` (timers), of the end of a session whose handle is gone or another's (its write
half is closed, so the peer reads EOF; a peer that is dead sends no more, which is the
same to a lease), and of the lapse of a lease whose holder has no session.
`Federation!FairSpec` takes weak fairness of every step of the registry tick, of the
drain's tick and exit, of the link tasks, of the end of a handler, and of delivery:
breaks are bounded there, so a link that is up stays up in the end. Nothing is assumed
of connects, renewals, crossings, starts, thaws, operations or failures.

## 4. What modelling found

Each is a step the model takes as the code does, which a property then excepts, or a
schedule excludes, by the name given. Lines are of `src/main.rs` unless another file is named.

*Durability, mesh, leases*

- Direct operations overtake staged ones: RAM and replay stay apart (6698 and the
  other direct handlers; `SerialSpec`).
- Compaction forgets the reserved-id mark (1928), which
  `docs/engineering/wal-event-inventory.md:75` says recovery has: a block of ids can be
  issued twice after a restart. The identity properties speak of ids created, not of
  blocks handed out.
- A crossing write's hand-off overwrites later positions of its batch (4139; `SettledSpec`).
- A connect that takes over a lapsed lease gets none of the entities the former worker
  owns, and the live lease keeps any failover from bringing them (7851; `takenOver`).
- A late mesh ack is logged against the entity's next stay (5578): it is lost at the
  next restart (`misled`). With three brokers it may have two owners as well. An entity
  goes from A to C at epoch 2, on to B at 3 and back to C at 4; C's ack of the first hop
  was lost, so A goes on resending. The ack of epoch 3 reaches C late and is logged over
  the new stay, so a restarted C has neither the entity nor a fence: it adopts A's resend
  of epoch 2, hands it on to A at epoch 3, and then adopts B's resend of epoch 4.
- A compaction drops parked hand-offs from the log (1906); a hand-off restored after a
  restart keeps its old lease epoch (8137), and the target refuses it for ever; a resend
  of an entity whose epoch has advanced at the target is not acked (503). They are the
  cases of `StuckOnlyIfRefused`, or kept out of `mesh` by `Compaction = FALSE`.

*WalFile*

- A direct operation is applied before what is staged with an earlier line (6698, 5578 and
  the other direct handlers), so a snapshot marker that follows the barrier names an
  offset which replays such a pair in the other order than RAM had it, although the cut
  "must describe the canonical RAM state that the returned wal_offset can replay" (6602);
  and a compaction writes them in the order of RAM (`overtaken`).
- A crash exactly before a newline leaves a whole last record unterminated. Recovery keeps
  it, the next record goes onto the same line, and both are lost to the reader
  (`botched`).
- After a compaction that cannot reopen its file, `wal` is `None` and an append returns Ok
  without writing (1826; `botched`). The broker is degraded then, but `mesh_forward` and
  `record_mesh_ack` append without asking; so they do behind a write that failed half way.
- `snapshot_seen` is of one life of the broker, so a compaction of the next one may
  outdate a manifest; a start at an offset leaves the suffix in the file, and it is
  replayed by the next plain start.
- `mesh_forwarded_fence`, a record kind the compaction writes (1996), is missing in
  `is_known_wal_event_kind` (`src/wal.rs:105`): the reader counts it as unknown.

*Partition*

- The drain of a job re-routes an entity by its own position, children without their
  root included (`alone`; the comment at 5243 has children follow).
- A topology that changes while a hand-off is staged, or a job lost at a restart, leaves
  entities in a region they do not belong to until they move again (`overtaken`).
- The result of appending a `partition_config` is ignored (4624; `unlogged`).
- An entity that is handed off into or out of a block while the block migrates is not in
  the captured list (5425; `raced`).
- `rebalance_2d` moves the block closest to half the gap even if that is more than the
  gap (4855): the two workers change roles, contrary to "converges without overshoot".
  `Sheds` allows it when every block is heavier.

*Authority*

- A staged hand-off applies the authority map it captured: a change made in between is
  undone, epoch included (4279; `overtaken`).
- A threshold that commits without a move changes owners and epochs without telling the
  connections (7102; `untold`).
- A checkout grants a component to any client the ACL names, also while another client or
  the arbiter of a contact has it, which is not told (3470; `untold`).
- An escalation is applied before its line is appended, and the result is ignored (1389;
  `unlogged`); the contact check does not see two writes of one window (1430; `blind`).
- A command to an entity without an owner is answered by whoever serves the region, also
  after an owner was granted (4229, where `docs/protocol/event-command-semantics.md:101`
  has authority checked; `unowned`); a request id used again takes the older answer
  (`again`). A command has no timeout: it ends with an answer, a hand-off or a connection.

*View and client*

- A handle that is replaced by a reconnect under the same name leaves its cells in the
  spatial hash; after the peer is gone `propagate` indexes `workers` by that name and the
  task ends (4507, 4513; `superseded`).
- An entity moved by a hand-off or fold keeps its old cell of last broadcast, so viewers
  of the new place may not be told (4280; `jumped`).
- An `AuthorityChange` sent after the entity left the view puts a row into the client's
  cache that nothing removes (`stray`); a query shows ghosts the view does not hold
  (`unseen`); a create here of an entity the neighbour has shadows its ghost (`twice`).
- The mark that tells a ghost from an entity is a `ComponentUpdate` (3930), which `emit` may shed
  under load, and it is sent once: a client may take the ghost for the entity until the
  ghost goes (`unseen`).
- `MeshGhostRemove` is handled but never sent: ghosts go by age alone.

*Zone worker*

- A fold is granted before the folded position is published: the new worker adopts the
  body at the old place (5744, against 4305; `blurred`).
- A fold that is refused or not yet durable leaves an entity owned by a worker that has
  dropped the body (`stranded`); so does a reconnect, which grants only what is inside the
  default interest of the region's name (614, 5851).
- A failover does not revoke from the worker that lost the region (5372; `untold`): it
  finds out at its next rejected write. After a `stale_epoch` reject it keeps the epoch it
  has.
- A hand-off whose barrier failed is kept (5307) and applied by a later tick as it was
  captured (4273): it revokes from the worker that held the region then, and grants to the one
  that held the other region then. Who was given the entity by a failover in between
  is not told (`untold`) and simulates on beside the new owner, until a write of its is rejected as
  not its own, which on a degraded broker does not happen; and if nobody held the other region
  when it was captured, who has taken that region since answers for the entity and is
  not granted it (`stranded`).
- A failover grants what was in the region when it was staged (5329, 5381): an entity without an
  owner that appears there before it is applied has the new worker as its writer, and is
  granted to nobody (`stranded`).

*Federation*

- A resend follows the link to whoever the registry names: a second incarnation adopts
  what the first already did (7973; `twins`).
- All brokers that link to a region share the name `mesh-link-<region>`: an ack goes to
  the connection that holds it, and an end of one connection removes the other's (7979,
  7896; `misled`, and an obstacle of `DrainEnds`).
- Two incarnations that start together claim the same lease, and neither fences itself;
  `fs::write` truncates first, so a reader in between sees no record, claims lease 1 or
  overwrites a newer record. `OneStands` says when the older may stand: equal leases, or
  ticks that overlap for ever.
- A newer incarnation that dies leaves its record ahead of the older one that lives.
- A superseded broker still adopts what reaches it, and a link stays with it (7906,
  7975); it can neither forward nor finish a drain. Two brokers that drain hand an entity
  to and fro.

## 5. Proofs

All are statements about a `Spec` (the last three of `DurabilityProofs`: `SettledSpec`; of the zone
workers: `ZoneSpec`), for any sets of entities, regions, workers, brokers
and deployments, under the named ASSUMEs of the modules they are about (bounds are
naturals, flags are Booleans, `None` is not a value or a worker, a deployment has fields
of the types its comment gives). What one of them assumes beyond that is said here.

- `TypeCorrect`: `Spec => []TypeOK`. `TypeOK` is inductive; one lemma per group of
  operations. The only hard part is `Flush`, where the last write of a batch is picked
  by `CHOOSE` (`LeastExists`, `LastOfMember`).
- `IdentityIsRecoverable`: `Spec => []IdentityRecoverable`, assuming no process crash
  without a power loss. `IdentityRecoverable` says of *every* store in `mayRecover` that
  its live and tombstoned ids are RAM's, or one refused operation ahead once a barrier
  has failed; with `TypeOK` it is inductive. The one-ahead disjunct is what makes it so:
  a failed fsync leaves the line of the refused create or delete in the file. The
  argument is that every action but two leaves the ids of RAM and of all stores alone
  (`KeepsIdentity`, a lemma per group), that fail-closed gating allows at most one
  refused operation, and that a power loss settles on one store.
- `IdentityIsReplayed`: `Spec => []IdentityReplayed`, with process crashes too. It says
  of the *whole* log what `IdentityIsRecoverable` says of every surviving prefix; with
  `logged \in mayRecover` it is inductive (`LogIdentity`), because a restart takes
  one of the survivors as the new log and RAM is its replay.
- `IdentityRefinement`: the same specification implements `IdentityStore` under
  `live <- Live(entities)`: a create maps to `Create`, a delete to `Delete`, a power loss
  to a stutter or to the one step that was left undecided, everything else to a stutter.

- `NothingShownIsLost`, `ReplayGivesRam` and `NothingRewinds`: on the settled schedules,
  `VisibleIsDurable`, `RamIsReplay` and `NeverRewinds`, assuming no process crash
  without a power loss. None is inductive: a staged transition is in the log before it is in
  RAM. `Promised(e)` is what a flush will make of `e` out of the transition staged for
  it, and `Covered(e)` puts it between the two: RAM is not ahead of the promise nor of any
  store a crash may leave, the whole log is not behind the promise and, until a barrier
  fails, is exactly it. A flush makes RAM what was promised; a failing one drops the
  promise but not its lines, which only take the log further ahead. The settled
  schedules give the rest of `ReplayInv`: at most one transition of an entity is staged,
  and nothing follows a crossing in its batch. Each operation
  is one lemma, about one entity (`Good(e)`), under one of two hypotheses: nothing is
  logged about `e` (`SameLog`), or one line is, and a survivor either has it or is a
  survivor from before.

- `LeaseTypeCorrect`, `FailoversUnite`, `OwnersAreReplayed` and `LiveLeasesKept`: the
  type invariant and the three safety properties of `RegionLease`, from one inductive
  invariant, `Inv`. `FailoverUnites` needs to know of a *staged* failover that it takes
  every entity of its region that no connect has taken over (`StagedTakeAll`).
  `OwnerIsReplay` speaks of a moment with nothing staged; `LogAgrees` says what holds in
  between: an owner in a surviving store is RAM's, nobody, or the one a staged failover
  will give, and the whole log has everything that is staged. The types include that no
  two staged failovers are of one region, without which the order of applying them
  would matter (`GrantedIs`).

- `MeshSingleOwner`, `MeshOwnerIsNewest` and `MeshNothingLost`: the safety properties of
  `MeshHandoff` for any number of brokers and entities, with failing barriers, crashes and
  a log that may be compacted; the last one assumes `~Compaction`, since a compaction does
  drop parked hand-offs. They follow from `MeshInv`, with two parts. `LogSound` speaks of
  every entity: what a crash may bring back is what RAM has or what a failed barrier left
  undecided. `EntitySound` speaks of those that were not misled, and is what the exemption
  is for: copies in RAM, in every outcome in `mayRecover`, parked and on the wire are related to the
  newest epoch, and the entity is settled, that is, held by one broker, or on its
  way as one hand-off, or nowhere. The part that makes it inductive is `Seen`: whatever
  else is parked or in flight, its target is past it, so that taking it delivers nothing.
  Crash outcomes have to be in it, because a restart makes one of them the truth. One
  lemma per action.
- `AuthorityHeldIsCurrent`, `AuthorityAnswers`, `AuthorityEpochsOnlyGrow`: from
  `AuthorityInv`. `HeldIsCurrent` alone is not inductive: that a flush leaves the new
  owner with what it is told needs `StagedAgrees`, that a hand-off's captured map is the
  one an advance would give now, or the entity is in `overtaken`. `EpochsOnlyGrow` needs
  `DiskAhead`, the log not behind the epochs in memory *and* in the staged maps, which a
  threshold that commits under a staged hand-off keeps only because the two then move
  nothing. `AnswerFromHolder` needs `Matched`: a command that a worker still has and that
  would be taken for an answer to a pending one is that one, or the id was used again. The work
  is in the grants: `Regrant` gives and takes any set of keys at once, and
  `KeepsTold(s, t, K)` says whom it leaves with the truth; every handler is a
  chain of such steps (`ToldChain`).
- `AuthorityContactApart`: `ContactApart`, under the named assumption `StartsApart`, that the bodies
  start apart and that the administrator makes no component sparse (nothing checks
  either, and the run's deployments are such). The invariant is `Apart`: not only the published positions of
  two bodies are apart but all places they may turn out to be, in the window or in the
  log (`PlacesApart`). It is inductive with `SparseAgrees` and `PlaceAgrees`: a broker
  that takes writes has nothing in its log or window, of a body other than the one that
  is written, that the check does not see.
- `VersionsNameMaps`, `WhatDepartsBelongs`, `MigrationsShed` of `Partition`, under
  `PartitionBounds` and `DeploymentTypes` (boundaries increase, a grid has cells, an
  assembly has one level, weights are naturals). The types carry what the rest needs of a
  map: increasing boundaries, at most one sub-boundary in a zone, a worker for each block in
  migration. `MigrationsShed` needs that a sum over a set of entities is a natural number,
  of a fold whose typing would be an induction: `SumExists` argues from a least
  counterexample instead.
- `EveryoneInItsZone`: `InItsZone`. `ZoneInv` says more of a root that is neither staged nor
  in a job: it *rests*, that is, a movement at its position leads to no other region of
  this broker; and every staged hand-off takes its root to where it rests. That being
  within the zone give or take the hysteresis follows (`RestsInItsZone`), the converse
  does not: the invariant has to be about what the code will do. The one fact about
  positions is `AtSettles`, that the region a position leads to is one in which it rests,
  for strips, bands and grids of any size. A split or a slide changes where positions
  rest for exactly those entities that it puts into its job or that are staged.
- `AssembliesStayTogether`: `AssemblyTogether`. `AssemblyInv` gives the order of the lines:
  a child that is not exempt is staged whenever its root is, behind it and to the same
  region, and is where its root is otherwise. A crash keeps a prefix of the
  lines, which may cut between the two; the child is then in `alone`.
- `BlocksStayWhole`: `BlockWhole`. Of entities that are not in `raced`: each is owned by the
  worker of its region, or will be when its hand-off is applied, and while migrations are
  in flight none of them is staged, and the captured list of a migration is exactly those
  of its block. What a flush does to one entity is stated once (`FlushIs`,
  `FlushedOne`) and used by all three.

- `OwnedOnce`, `TwoRegionsSingleOwner` and `TwoRegionsKept` of `Federation`. First, every
  step of the system is, for each entity, one of four (`Affects`): nothing, a hand-over
  (`Hands`), an adoption (`Takes`) or an ack that is taken (`Forgets`); one lemma per
  action. The rest argues about these four. `Sound` is for entities that are neither in
  `misled` nor in `twins`: whoever owns one is not behind any offer, and an offer, parked or
  in flight, is either past, someone in the region it is for having adopted it or a later
  one, or is the newest and nobody owns the entity. `Safe` says what an ack is worth: what
  is acked, and what was forwarded and is not parked, is `Firm`, logged by someone at that
  epoch or parked by someone at a later one. An ack without an adoption is what needs
  `NobodyPasses`: that the receiver has forwarded the entity at a *later* epoch.
- The last two assume `TwoRegions` (each with any number of incarnations), as the run
  does. Then an epoch is odd exactly in the region the entity started from (`Parity`), so an
  offer to a region never has an epoch that region has forwarded at, whoever was misled;
  and `Paired` holds although a crash may take an owner the log was misled about: of
  offers to the two regions one is past, and an offer that is not past follows one that is.
  Among three regions `SingleOwner` does fail. TLC finds 29 steps, with one crash: W hands an
  entity to E, the ack goes to X, which holds the name `mesh-link-E`; X later has the entity, hands
  it back to E, and a misled log and a crash make E forget it; W, never acked, resends
  the first hand-off, X the last, and both are adopted, one after the other was forwarded on. Hence the
  exemption of `misled` in `OwnedOnce`.

- `TypeCorrect`, `PromisedIsKept`, `CutIsKept` and `FileIsDurableLog` of `WalFile`: the type
  invariant, `PromisedSurvives`, `CutReplays`, and that the file with its reader refines
  `DurableLog`. The invariant is `KeptInv`: unless a record was botched,
  the file is *lined* (a header that is whole, then lines each of which is whole unless it
  is the last), has each record once and in the order of their
  numbers (`Once`, `Numbered`) except for the pairs in `overtaken`, what was promised is in
  the synced part, the cut is a line's end there, what is staged is written, and RAM with
  what is staged has the records of the file, each once and in that order (`Proper`). A
  record put ahead of what is staged keeps this, because the pairs it makes go into
  `overtaken` (`ProperGrows`); two sequences of the same records that are both in order up to
  `overtaken` agree on every other pair (`OrdersAgree`), which is `CutReplays`. A crash leaves
  a prefix that is no shorter than what was synced, so a survivor is a cut of a lined file,
  and the reader of a lined file stops nowhere before its last line. What the reader
  returns is a fold, and the property of a fold would be an induction: instead a replay is
  told by rank, the n-th record of it being the one with n - 1 whole lines of records before
  it (`Nth`, `Replayed`), which needs cardinalities and no recursion.

- `ViewFollowsInterest`, `HashNamesWorkers` and `GhostsStayApart`: `ViewMatches`,
  `GridNamesWorkers` and `GhostsApart` of `View`, from `Inv`, for any number of peers and any deployment.
  `ViewMatches` is not inductive: that nobody is passed over needs `IndexOK`, that the
  hash has a connected peer under exactly the cells of its interest or among the global
  ones, and `Placed`, that `last_broadcast_cell` is the cell of the position unless a
  hand-off moved the entity. Then whoever sees a point, or saw the last one, is global or
  indexed by its cell (`SeenIsIndexed`). A handler that walks over the entities is a fold
  over a set, in an order that is the `HashMap`'s: what it leaves behind is stated entity by
  entity, by the argument from a least counterexample on the cardinality.
- `CacheFollowsView`: `CacheFollows`, for channels of any length. The property speaks of a client whose channel is
  empty, which says nothing about the steps that fill it. `Cache` speaks of `Will(c, s)`,
  what client `c` *will* have once it has read everything in the channel of `s`: unless the peer is cut
  off or flagged, every entity fits there (`Fits`: a row exactly if it is in the view,
  at its place and with its mark, but for what `lossy`, `stray`, `given` and `unseen` say), no
  critical section is open and every event has come. Reading a frame does not
  change `Will`, and sending one changes it by that frame (`Read` is a fold over the channel). `Wire`
  is what makes it inductive over a resync: a channel holds at most one answer to a query,
  and only while its client waits for it. Each function that sends frames is one lemma
  about one entity (`Tells`), with the others kept (`Kept`); a handler carries them
  over all entities (`Carried`, `Passes`).

- `StrangersLetGo`, `OwnersSimulate` and `AdoptedWhereItWas`: `NobodyElseSimulates`,
  `OwnerSimulates` and `AdoptsWhereItWas` of `ZoneWorker`, for any finite sets of workers and
  entities and any deployment. The first two speak of a pair with nothing on its way between them,
  and say nothing of the steps that bring it about. The invariant, `Minded`, speaks of
  `Ear(c, s, w)`, what worker `w` will have in mind once it has read its channel: it simulates only what
  it owns or what a failover or a late hand-off took (`OwnOnly`); what the broker holds it responsible for it
  owns, and simulates with the broker's epoch, or its fold of it is on the way (`AllOwn`); what is in its view it
  has at the broker's position, unless that was shed (`Placid`). A worker that reads does not change
  `Ear`, and a frame the broker sends changes it by that frame. A tick of the worker
  changes its bodies without the broker, but every body stays, or a fold of it is then under way; that
  fold is what `Fold` and `Refuse` take off again, with the body given up.
  `AdoptsWhereItWas` is about every grant in the channel and not only the last: `Adopts` says of
  each what holds when the frames before it have been read.
- Inside a handler `Minded` does not hold: between `Revoke` and `Grant` somebody is
  wrong about the entity. `Holds(c, r, q, p, s)` therefore says which pairs are not asked about;
  each operator of the broker is one lemma, that from `Holds` with some pairs excused it gives
  `Holds` with fewer (`Grant` takes an entity off all three for its new owner), and a handler
  is the chain of them. `FlushedKeeps` has the longest: writes, then hand-offs, then failovers, each behind a barrier of its
  own. `HandoffKeeps` assumes of a hand-off no more than `Meant`, that its entity is there and what it moves goes to
  who it grants: nothing that was true when it was captured still need be when it is applied, and what
  then goes wrong is what `untold` and `stranded` count. What a handler does to a set of
  workers or entities is a fold, told by what each step does (`Runs`) with `Along`,
  a least counterexample, in place of an induction. The proof found an entity that is
  nobody's: one that appears in a region after the failover of the region was staged, which it
  then misses. The model counts it in `stranded`, and the run has a deployment of it.

The assumption `~ProcessCrashes` is what the code gives: a process that
restarts over an unsynced line serves it (8034) and is no longer degraded, so a later power
loss may take back ids and versions that were shown. What survives process crashes as
well is `IdentityReplayed`, which `durability_process` checks and `IdentityIsReplayed` proves.

Only model-checked: liveness (`StuckOnlyIfRefused`, `Reclaimed`, `OneStands`, `DrainEnds`). Liveness under fairness is out of
the prover's reach, and `ENABLED` with it.

TLC checked the strengthenings before they were proved: `ReplayInv` on all of the
`durability_serial` instance, and by simulation with two entities; `MeshHandoff`'s on 2 brokers with
failures, with and without compaction (1.5 and 3.1 million states), and on 3 by
simulation; `Authority`'s on the deployments of its run, and by simulation on one in
which everything may happen; `Federation`'s on the instance of its run, and by simulation on 4
nodes of two regions, and of three for `Sound` and `Safe`; `KeptInv` on 2.6 million states of
`WalFile` with three crashes; `Minded` without its types on the instance of
`zone_worker`; `Inv` and `Cache` on the instance of `view`, and on larger
deployments with two entities, small channels and resyncs in which everything happens. These corrected the
model: a mark of a ghost that is shed was not counted in `unseen`, and `CacheFollows` was false
on a small channel.

## 6. Not modelled, and what comes next

Not modelled, and why:

- The replay tape and the offline model tools: append-only output, nothing reads it back.
- The protocol crate (types and JSON conversion), the load generators (traffic from
  outside), examples, probes and scripts (drivers of a running broker).
- Of the WAL reader: the refusal of a newer version, the dry run, `wal_inspect`; of
  snapshots: the hashes of a manifest. They change no state.
- Of `Partition`: seam intents and island epochs (in `ZoneWorker` and `Authority`), the
  restart of a grid broker.
- Of the mesh: static links without a lease, `@epoch` pins, `GW_DRAIN_EXIT` off, two
  writes that mix inside one registry file, failing barriers together with several
  incarnations (each alone is modelled).
- Of the client SDK: components other than the position, typed values, engine snapshots.
- Liveness of `Authority`, `View` and `ZoneWorker`: a command without an answer waits for
  ever, shed values wait for the next move, and nothing makes a zone worker move a body.

Every safety property that a run checks is stated by a theorem. What is left is liveness, and
the parts listed above.
