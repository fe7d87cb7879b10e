----------------------------- MODULE ZoneWorker -----------------------------
(***************************************************************************)
(* The physics workers of two neighbouring regions, and a standby, at one  *)
(* broker: a zone worker simulates the bodies it was granted, sends where  *)
(* they are once per tick and learns from the frames of the broker which   *)
(* bodies to create, to drop and to fence; the broker accepts or refuses,  *)
(* publishes with the durability tick and moves authority.                 *)
(*                                                                         *)
(* A line of four points: 0 and 1 are west of the seam, 2 and 3 east.  The *)
(* velocities follow the positions in every frame and are left out; one    *)
(* frame stands for the two batches of a tick.  A connection that ends     *)
(* takes its worker along: a zone worker never reconnects, and what it     *)
(* still computes then reaches nobody.                                     *)
(***************************************************************************)
EXTENDS Names, Integers, Sequences, FiniteSets, SequencesExt, FiniteSetsExt, Functions

CONSTANT Deployments    \* what the environment does, see below

\* A deployment has: home, the region each worker announces; spawns, for each worker
\* where it creates which entities; near, for each region the points in its default
\* interest; fold, the workers in fold mode; soft, EGRESS_SOFT_CAP; and the bounds of
\* the model: starts of each worker, cuts, moves and folds of bodies (moves), lapses of leases, failed
\* appends and barriers (fails), and frames and staged writes of a worker before it ticks again (pipe).
Points == 0..3
Origin == 1
Sides == {"W", "E"}
\* What the broker has of an entity, and a worker of a body it simulates.
Placed == [pos : Points, region : Sides, owner : Workers \cup {None}, epoch : Nat]
Bots == [pos : Points, epoch : Nat]

ASSUME ZoneWorkerConstants ==
    /\ IsFiniteSet(Workers) /\ IsFiniteSet(Entities)
    /\ None \notin Workers \cup Entities \cup Points
    /\ None \notin Sides \cup Placed \cup Bots
    /\ \A d \in Deployments :
          /\ d.soft \in Nat /\ d.pipe \in Nat /\ d.fold \subseteq Workers
          /\ DOMAIN d.home \subseteq Workers
          /\ \A w \in DOMAIN d.home : d.home[w] \in Sides \cup {"STANDBY"}
          /\ \A w \in DOMAIN d.home : DOMAIN d.spawns[w] \subseteq Entities
                                   /\ \A e \in DOMAIN d.spawns[w] : d.spawns[w][e] \in Points

VARIABLES
    conf,      \* the deployment
    state,     \* the broker's ServerState, see Broker
    up,        \* for each worker the frames on their way to the broker
    down,      \* and the channel from the broker to it
    body,      \* bots: entity -> position and epoch, or None
    mirror,    \* view_pos: entity -> where it was last seen, or None
    spent      \* counters for the bounds of the model

zoneVars == <<conf, state, up, down, body, mirror, spent>>

\* state: ents, position, region, owner and epoch of the physics island; holder and
\* lapsed, region_worker and the regions whose lease ran out; standbys; writes,
\* pending_updates; handoffs and failovers, which are staged; intents,
\* pending_handoff_intent; online, the handles, with serves, view and aoi (whose Interest
\* has come); degraded.  Of the step that is taken: out, what it emits; refused, the
\* entities whose lines the log does not take, and unsynced, the queues whose barrier fails.
\* And histories: stranded, entities whose owner was not told or has let go; untold,
\* workers who lost an entity to a failover or a late hand-off and have not been told;
\* blurred, workers whose last position is not the one.
Broker ==
    [ents |-> [e \in Entities |-> None], holder |-> [r \in Sides |-> None], lapsed |-> {},
     standbys |-> <<>>, writes |-> <<>>, handoffs |-> <<>>, failovers |-> <<>>,
     intents |-> [e \in Entities |-> None], online |-> {}, aoi |-> {},
     serves |-> [w \in Workers |-> None], view |-> [w \in Workers |-> {}],
     out |-> [w \in Workers |-> <<>>], refused |-> {}, unsynced |-> {}, degraded |-> FALSE,
     stranded |-> {}, untold |-> {}, blurred |-> {}]

Live(s, e) == s.ents[e] # None
Over(S, step(_, _), s) == FoldLeft(step, s, SetToSeq(S))
HolderOf(s, region) == s.holder[region]

(***************************************************************************)
(* Regions.                                                                *)
(***************************************************************************)
StripOf(p) == IF p < 2 THEN "W" ELSE "E"
\* region_after: past the seam by H.
RegionAfter(p, region) ==
    CASE region = "W" /\ p = 3 -> "E"
      [] region = "E" /\ p = 0 -> "W"
      [] OTHER -> region
IntentTarget(p, region) ==
    CASE region = "W" /\ p = 2 -> "E"
      [] region = "E" /\ p = 1 -> "W"
      [] OTHER -> None
\* fold_target: the cell of a worker is its side of the seam.
FoldTarget(w, p) ==
    IF w \in conf.fold /\ StripOf(p) # conf.home[w] THEN StripOf(p) ELSE None

(***************************************************************************)
(* What the broker tells a worker.                                         *)
(***************************************************************************)
Emit(s, w, m) == IF w \in s.online THEN [s EXCEPT !.out[w] = Append(@, m)] ELSE s
Sheds(s, w) == Len(down[w]) + Len(s.out[w]) > conf.soft

EmitPos(s, w, e) ==
    IF Sheds(s, w) THEN [s EXCEPT !.blurred = @ \cup {<<w, e>>}]
    ELSE [Emit(s, w, [op |-> "Pos", eid |-> e, pos |-> s.ents[e].pos])
          EXCEPT !.blurred = @ \ {<<w, e>>}]
\* Mutant: only the entity is announced.
SendFullBare(s, w, e) == Emit([s EXCEPT !.view[w] = @ \cup {e}], w, [op |-> "Add", eid |-> e])
SendFull(s, w, e) ==
    LET shown == [s EXCEPT !.view[w] = @ \cup {e}]
    IN  EmitPos(Emit(shown, w, [op |-> "Add", eid |-> e]), w, e)
\* The frame carries the position and the epoch; at is what the receiver should adopt.
Grant(s, w, e) ==
    LET at == IF <<w, e>> \in s.blurred THEN None ELSE s.ents[e].pos
        granted == [s EXCEPT !.ents[e].owner = w, !.stranded = @ \ {e}, !.untold = @ \ {<<w, e>>}]
    IN  Emit(granted, w, [op |-> "Grant", eid |-> e, epoch |-> s.ents[e].epoch, at |-> at])
\* Mutant: the loser of a hand-off is not told.
RevokeSilently(s, w, e) == IF s.ents[e].owner = w THEN [s EXCEPT !.ents[e].owner = None] ELSE s
Revoke(s, w, e) ==
    LET free == IF s.ents[e].owner = w THEN [s EXCEPT !.ents[e].owner = None] ELSE s
    IN  Emit(free, w, [op |-> "Revoke", eid |-> e])
Reject(s, w, e, reason) ==
    Emit([s EXCEPT !.untold = IF reason = "not authoritative" THEN @ \ {<<w, e>>} ELSE @],
         w, [op |-> "Reject", eid |-> e, reason |-> reason])

Visible(s, w, e) == w \in s.aoi \/ s.ents[e].pos \in conf.near[s.serves[w]]
\* region_physics_island_grants
\* Mutant: what a worker held when it was cut is not granted again.
RegionGrantsFree(s, w, e) ==
    s.holder[s.ents[e].region] = w /\ s.ents[e].owner = None
RegionGrants(s, w, e) ==
    s.holder[s.ents[e].region] = w /\ s.ents[e].owner \in {w, None}
Responsible(s, e) ==
    IF s.ents[e].owner # None THEN s.ents[e].owner ELSE HolderOf(s, s.ents[e].region)

Show(s, w, e) ==
    IF Visible(s, w, e)
    THEN LET full == SendFull(s, w, e) IN IF RegionGrants(s, w, e) THEN Grant(full, w, e) ELSE full
    ELSE s
Strand(s, e) == [s EXCEPT !.stranded = @ \cup {e}]
ShowTo(s, w, e) ==
    IF Responsible(s, e) = w /\ ~(Visible(s, w, e) /\ HolderOf(s, s.ents[e].region) = w)
    THEN Strand(Show(s, w, e), e) ELSE Show(s, w, e)

PropagateTo(s, w, e) ==
    CASE Visible(s, w, e) /\ e \in s.view[w] -> EmitPos(s, w, e)
      [] Visible(s, w, e) /\ e \notin s.view[w] -> SendFull(s, w, e)
      [] ~Visible(s, w, e) /\ e \in s.view[w] ->
            LET gone == Emit([s EXCEPT !.view[w] = @ \ {e}], w, [op |-> "Remove", eid |-> e])
            IN  IF s.ents[e].owner = w THEN Strand(gone, e) ELSE gone
      [] OTHER -> s
Propagate(s, e) == Over(s.online, LAMBDA t, w : PropagateTo(t, w, e), s)

(***************************************************************************)
(* Authority moves: staged, then applied behind the barrier.               *)
(***************************************************************************)
\* advance_physics_island_authority
Advances(s, e, old) == s.ents[e].owner \in {old, None}
Advance(s, e, old, new) ==
    IF Advances(s, e, old) THEN [owner |-> new, epoch |-> s.ents[e].epoch + 1]
    ELSE [owner |-> s.ents[e].owner, epoch |-> s.ents[e].epoch]

Carried(s, e) == \E i \in DOMAIN s.handoffs : s.handoffs[i].eid = e
QueueLocalHandoff(s, e, new, pos) ==
    LET old == HolderOf(s, s.ents[e].region)
        next == HolderOf(s, new)
        handoff == [eid |-> e, to |-> new, pos |-> pos, old |-> old, new |-> next,
                    moved |-> Advances(s, e, old), authority |-> Advance(s, e, old, next)]
    IN  CASE Carried(s, e) -> s
          [] ~Carried(s, e) /\ e \in s.refused -> [s EXCEPT !.degraded = TRUE]
          [] OTHER -> [s EXCEPT !.handoffs = Append(@, handoff)]

Snapshot(s, e, authority) ==
    [s EXCEPT !.ents[e].owner = authority.owner, !.ents[e].epoch = authority.epoch]
\* What the hand-off captured is put back, however late: who has taken the entity since is
\* not told, and who answers for it now is granted it only if it was to have it.
ApplyHandoff(s, h) ==
    LET e == h.eid
        loser == s.ents[e].owner
        told == IF h.moved THEN {h.old, h.new} ELSE {h.authority.owner}
        lost == IF loser \in s.online \ told THEN {<<loser, e>>} ELSE {}
        blur == IF h.pos = s.ents[e].pos THEN {} ELSE {<<w, e>> : w \in s.online}
        same == loser # None /\ h.authority = [owner |-> loser, epoch |-> s.ents[e].epoch]
        placed == [Snapshot(s, e, h.authority) EXCEPT
                     !.ents[e].pos = h.pos, !.ents[e].region = h.to,
                     !.blurred = @ \cup blur, !.untold = @ \cup lost]
        settled == IF same \/ (h.moved /\ h.new \in s.online) THEN placed ELSE Strand(placed, e)
        taken == IF h.moved /\ h.old \in s.online THEN Revoke(settled, h.old, e) ELSE settled
        shown == IF h.new \in s.online /\ e \notin taken.view[h.new]
                 THEN SendFull(taken, h.new, e) ELSE taken
    IN  IF h.moved /\ h.new \in s.online THEN Grant(shown, h.new, e) ELSE shown
ApplyHandoffs(s) == FoldLeft(ApplyHandoff, [s EXCEPT !.handoffs = <<>>], s.handoffs)
\* flush_pending_handoffs: behind a barrier that fails they stay for the next tick.
FlushHandoffs(s) ==
    IF s.handoffs # <<>> /\ "handoffs" \in s.unsynced THEN [s EXCEPT !.degraded = TRUE]
    ELSE ApplyHandoffs(s)

QueueFailover(s, region, new) ==
    LET old == HolderOf(s, region)
        moved == {e \in Entities : Live(s, e) /\ s.ents[e].region = region /\ Advances(s, e, old)}
    IN  [s EXCEPT !.failovers = Append(@,
            [region |-> region, new |-> new,
             grants |-> {[eid |-> e, authority |-> Advance(s, e, old, new)] : e \in moved}])]
Regrant(s, new, g) ==
    LET e == g.eid
        loser == s.ents[e].owner
        lost == IF loser \in s.online \ {new} THEN {<<loser, e>>} ELSE {}
        next == [Snapshot(s, e, g.authority) EXCEPT !.stranded = @ \ {e}, !.untold = @ \cup lost]
        shown == IF e \in next.view[new] THEN next ELSE SendFull(next, new, e)
    IN  IF new \in s.online THEN Grant(shown, new, e) ELSE next
\* An entity nobody owns that came to the region after the failover was staged is not in it.
ApplyFailover(s, f) ==
    LET missed == {e \in Entities : /\ Live(s, e) /\ s.ents[e].region = f.region
                                    /\ s.ents[e].owner = None /\ \A g \in f.grants : g.eid # e}
        taken == [s EXCEPT !.holder[f.region] = f.new, !.lapsed = @ \ {f.region},
                           !.serves[f.new] = IF f.new \in s.online THEN f.region ELSE @,
                           !.stranded = @ \cup missed]
    IN  Over(f.grants, LAMBDA t, g : Regrant(t, f.new, g), taken)
ApplyFailovers(s) == FoldLeft(ApplyFailover, [s EXCEPT !.failovers = <<>>], s.failovers)
\* flush_pending_failovers: these are given up.
FlushFailovers(s) ==
    IF s.failovers # <<>> /\ "failovers" \in s.unsynced
    THEN [s EXCEPT !.failovers = <<>>, !.degraded = TRUE]
    ELSE ApplyFailovers(s)

RenewLeases(s, w) == [s EXCEPT !.lapsed = {r \in @ : s.holder[r] # w}]

(***************************************************************************)
(* The durability tick.                                                    *)
(***************************************************************************)
\* maybe_emit_loss_imminent: once for each target and epoch.
LossImminent(s, e, target) ==
    LET intent == [target |-> target, epoch |-> s.ents[e].epoch]
    IN  IF None \in {s.ents[e].owner, HolderOf(s, target)} \/ s.intents[e] = intent THEN s
        ELSE Emit([s EXCEPT !.intents[e] = intent], s.ents[e].owner,
                  [op |-> "Imminent", eid |-> e, epoch |-> intent.epoch])
Zone(s, e) ==
    LET x == s.ents[e]
        next == RegionAfter(x.pos, x.region)
        target == IntentTarget(x.pos, x.region)
        calm == [s EXCEPT !.intents[e] = None]
    IN  CASE next # x.region -> QueueLocalHandoff(calm, e, next, x.pos)
          [] next = x.region /\ target # None -> LossImminent(s, e, target)
          [] OTHER -> calm
ApplyWrite(s, u) ==
    LET renewed == RenewLeases([s EXCEPT !.ents[u.eid].pos = u.pos], u.writer)
    IN  Propagate(Zone(renewed, u.eid), u.eid)
\* The barrier of the writes fails: they are given up, and the next tick sees the rest.
RefuseWrites(s) ==
    FoldLeft(LAMBDA t, u : Reject(t, u.writer, u.eid, "wal_sync_failed"),
             [s EXCEPT !.writes = <<>>, !.degraded = TRUE], s.writes)
ApplyWrites(s) == FoldLeft(ApplyWrite, [s EXCEPT !.writes = <<>>], s.writes)
Flushed(s) ==
    IF s.writes # <<>> /\ "writes" \in s.unsynced THEN RefuseWrites(s)
    ELSE FlushFailovers(FlushHandoffs(ApplyWrites(s)))

(***************************************************************************)
(* The frames of a worker at the broker.                                   *)
(***************************************************************************)
\* The log does not take the line.
Unwritten(s, w, e) == Reject([s EXCEPT !.degraded = TRUE], w, e, "wal_persist_failed")
\* apply_one_update, of an entry of a batch.
Update(s, w, u) ==
    CASE ~Live(s, u.eid) -> Reject(s, w, u.eid, "entity not found")
      [] Live(s, u.eid) /\ Responsible(s, u.eid) # w -> Reject(s, w, u.eid, "not authoritative")
      [] Live(s, u.eid) /\ Responsible(s, u.eid) = w /\ u.epoch # s.ents[u.eid].epoch ->
            Reject(s, w, u.eid, "stale authority epoch")
      [] OTHER ->
            IF u.eid \in s.refused THEN Unwritten(s, w, u.eid)
            ELSE [s EXCEPT !.writes = Append(@, [eid |-> u.eid, pos |-> u.pos, writer |-> w])]

Born(s, m) ==
    LET x == [pos |-> m.pos, region |-> StripOf(m.pos), owner |-> None, epoch |-> 1]
        born == [s EXCEPT !.ents[m.eid] = x, !.stranded = @ \ {m.eid}]
    IN  Over(s.online, LAMBDA t, v : ShowTo(t, v, m.eid), born)
Create(s, w, m) ==
    CASE Live(s, m.eid) -> s
      [] ~Live(s, m.eid) /\ m.eid \in s.refused -> Unwritten(s, w, m.eid)
      [] OTHER -> Born(s, m)

\* The body is gone at the worker that folds, whatever the broker answers.
LetGo(s, w, e) == IF s.ents[e].owner = w THEN Strand(s, e) ELSE s
Fold(s, w, m) ==
    LET x == s.ents[m.eid]
        left == LetGo(s, w, m.eid)
        queued == QueueLocalHandoff(left, m.eid, m.region, m.pos)
    IN  CASE x = None -> s
          [] x # None /\ HolderOf(s, x.region) # w -> Reject(left, w, m.eid, "cannot fold")
          [] x # None /\ HolderOf(s, x.region) = w /\ m.region = x.region -> left
          [] OTHER ->
                IF Carried(queued, m.eid) THEN Propagate(FlushHandoffs(queued), m.eid)
                ELSE Reject(queued, w, m.eid, "fold handoff failed")

InterestArrives(s, w) ==
    LET wide == [s EXCEPT !.aoi = @ \cup {w}]
        unseen == {e \in Entities : Live(s, e) /\ e \notin s.view[w]}
    IN  Over(unseen, LAMBDA t, e : SendFull(t, w, e), wide)

PersistentOps == {"Create", "Batch", "Fold"}
Refuse(s, w, m) ==
    Emit(IF m.op = "Fold" /\ Live(s, m.eid) THEN LetGo(s, w, m.eid) ELSE s,
         w, [op |-> "Reject", eid |-> None, reason |-> "degraded"])
Dispatch(s, w, m) ==
    CASE s.degraded /\ m.op \in PersistentOps -> Refuse(s, w, m)
      [] m.op = "Interest" -> InterestArrives(s, w)
      [] m.op = "Heartbeat" -> RenewLeases(s, w)
      [] m.op = "Create" /\ ~s.degraded -> Create(s, w, m)
      [] m.op = "Batch" /\ ~s.degraded ->
            FoldLeft(LAMBDA t, u : Update(t, w, u), s, m.updates)
      [] m.op = "Fold" /\ ~s.degraded -> Fold(s, w, m)

\* Admission: a region is taken if it is free or its lease ran out.
Claim(s, w) ==
    LET home == conf.home[w] IN
    CASE home = "STANDBY" -> [s EXCEPT !.standbys = Append(@, w)]
      [] home # "STANDBY" /\ s.holder[home] \notin {w, None} /\ home \notin s.lapsed -> s
      [] OTHER -> [s EXCEPT !.holder[home] = w, !.lapsed = @ \ {home}]
Admitted(s, w) ==
    LET there == [s EXCEPT !.online = @ \cup {w}, !.aoi = @ \ {w}, !.serves[w] = conf.home[w],
                           !.view[w] = {}]
    IN  Over({e \in Entities : Live(s, e)}, LAMBDA t, e : ShowTo(t, w, e), Claim(there, w))
Gone(s, w) ==
    [s EXCEPT !.online = @ \ {w}, !.untold = {p \in @ : p[1] # w},
              !.blurred = {p \in @ : p[1] # w}]

(***************************************************************************)
(* The worker: one frame of the broker, then a tick.                       *)
(***************************************************************************)
\* A rejected write drops the body only for one reason; for the others (a stale epoch, a
\* refused fold, a broker that fails closed) it is counted, and simulated on.
Rejected(z, m) ==
    IF m.reason = "not authoritative" THEN [z EXCEPT !.body[m.eid] = None] ELSE z

Hear(z, m) ==
    LET e == m.eid
        known == IF z.mirror[e] = None THEN Origin ELSE z.mirror[e]
    IN  CASE m.op = "Add" -> [z EXCEPT !.mirror[e] = known]
          [] m.op = "Pos" -> [z EXCEPT !.mirror[e] = m.pos]
          [] m.op = "Grant" /\ z.body[e] # None -> [z EXCEPT !.body[e].epoch = m.epoch]
          [] m.op = "Grant" /\ z.body[e] = None ->
                [z EXCEPT !.body[e] = [pos |-> known, epoch |-> m.epoch]]
          [] m.op = "Revoke" -> [z EXCEPT !.body[e] = None]
          [] m.op = "Reject" -> Rejected(z, m)
          [] m.op = "Remove" -> [z EXCEPT !.body[e] = None, !.mirror[e] = None]
          [] OTHER -> z
Heard(w, n) ==
    FoldLeft(Hear, [body |-> body[w], mirror |-> mirror[w]], SubSeq(down[w], 1, n))

\* The frames of a tick: the folds, the positions of the bodies that stay.  An entry
\* that repeats to the broker what it has, from the owner with the epoch, renews the lease
\* and changes nothing else: a heartbeat stands for it.
Said(w, e) ==
    LET sent == FoldLeft(LAMBDA q, m : IF m.op = "Batch" THEN q \o m.updates ELSE q,
                         state.writes, up[w])
        mine == SelectSeq(sent, LAMBDA u : u.eid = e)
    IN  IF mine = <<>> THEN state.ents[e].pos ELSE Last(mine).pos
Repeats(w, e, bot) ==
    /\ Live(state, e) /\ state.ents[e].owner = w
    /\ state.ents[e].epoch = bot.epoch /\ Said(w, e) = bot.pos
FramesOf(w, bots) ==
    LET held == {e \in Entities : bots[e] # None}
        out == {e \in held : FoldTarget(w, bots[e].pos) # None}
        told == {e \in held \ out : ~Repeats(w, e, bots[e])}
        fold(e) == [op |-> "Fold", eid |-> e, region |-> FoldTarget(w, bots[e].pos),
                    pos |-> bots[e].pos]
        entry(e) == [eid |-> e, pos |-> bots[e].pos, epoch |-> bots[e].epoch]
        batch == [op |-> "Batch", updates |-> SetToSeq({entry(e) : e \in told})]
    IN  SetToSeq({fold(e) : e \in out}) \o (IF told = {} THEN <<>> ELSE <<batch>>)
Stays(w, bots) ==
    [e \in Entities |-> IF bots[e] # None /\ FoldTarget(w, bots[e].pos) # None
                        THEN None ELSE bots[e]]

(***************************************************************************)
(* Actions.                                                                *)
(***************************************************************************)
ZoneInit ==
    /\ conf \in Deployments
    /\ state = Broker
    /\ up = [w \in Workers |-> <<>>] /\ down = [w \in Workers |-> <<>>]
    /\ body = [w \in Workers |-> [e \in Entities |-> None]]
    /\ mirror = body
    /\ spent = [starts |-> [w \in Workers |-> 0], cuts |-> 0, moves |-> 0, lapses |-> 0,
                fails |-> 0]

\* The appends and barriers of a step of the broker that fail: its log says degraded then,
\* but the next ones may hold.
Faults == [refused : SUBSET Entities, unsynced : SUBSET {"writes", "handoffs", "failovers"}]
Under(f) == [state EXCEPT !.refused = f.refused, !.unsynced = f.unsynced]
Suffers(f) ==
    LET fails == spent.fails + Cardinality(f.refused) + Cardinality(f.unsynced)
    IN  fails <= conf.fails /\ spent' = [spent EXCEPT !.fails = fails]
\* A step of the broker, which delivers what it emits.
Becomes(s) ==
    /\ state' = [s EXCEPT !.out = Broker.out, !.refused = {}, !.unsynced = {}]
    /\ down' = [w \in Workers |-> IF w \in s.online THEN down[w] \o s.out[w] ELSE <<>>]

\* main of the worker up to its loop, and handle_conn up to its own.
Start(w) ==
    /\ w \in DOMAIN conf.home /\ w \notin state.online /\ spent.starts[w] < conf.starts
    /\ spent' = [spent EXCEPT !.starts[w] = @ + 1]
    /\ LET mine == conf.spawns[w] IN
       /\ up' = [up EXCEPT ![w] = <<[op |-> "Interest"]>> \o
                    SetToSeq({[op |-> "Create", eid |-> e, pos |-> mine[e]] : e \in DOMAIN mine})]
       /\ mirror' = [mirror EXCEPT ![w] =
                        [e \in Entities |-> IF e \in DOMAIN mine THEN mine[e] ELSE None]]
    /\ body' = [body EXCEPT ![w] = [e \in Entities |-> None]]
    /\ Becomes(Admitted(state, w))
    /\ UNCHANGED conf

Cut(w) ==
    /\ w \in state.online /\ spent.cuts < conf.cuts
    /\ spent' = [spent EXCEPT !.cuts = @ + 1]
    /\ up' = [up EXCEPT ![w] = <<>>]
    /\ body' = [body EXCEPT ![w] = [e \in Entities |-> None]]
    /\ mirror' = [mirror EXCEPT ![w] = [e \in Entities |-> None]]
    /\ Becomes(Gone(state, w))
    /\ UNCHANGED conf

\* Ops that have come are applied, bodies move, the frames are written; every so often
\* a heartbeat, which matters if the lease has lapsed.
Wandered(bots, step) ==
    [e \in Entities |-> IF bots[e] = None THEN None
                        ELSE [bots[e] EXCEPT !.pos = @ + step[e]]]
Steps(bots) ==
    {step \in [Entities -> -1..1] : \A e \in Entities :
        IF bots[e] = None THEN step[e] = 0 ELSE bots[e].pos + step[e] \in Points}
Way(w, bots, step) ==
    Cardinality({e \in Entities : step[e] # 0 \/ bots[e] # Stays(w, bots)[e]})
InFlight(w) ==
    Len(up[w]) + Cardinality({i \in DOMAIN state.writes : state.writes[i].writer = w})
Tick(w) ==
    /\ w \in state.online /\ InFlight(w) <= conf.pipe
    /\ LET z == Heard(w, Len(down[w])) IN
       \E step \in Steps(z.body), beat \in BOOLEAN :
         LET bots == Wandered(z.body, step)
             moves == spent.moves + Way(w, bots, step)
         IN /\ moves <= conf.moves
            /\ beat => \E r \in state.lapsed : state.holder[r] = w
            /\ up' = [up EXCEPT ![w] = @ \o FramesOf(w, bots) \o
                         (IF beat THEN <<[op |-> "Heartbeat"]>> ELSE <<>>)]
            /\ body' = [body EXCEPT ![w] = Stays(w, bots)]
            /\ mirror' = [mirror EXCEPT ![w] = z.mirror]
            /\ spent' = [spent EXCEPT !.moves = moves]
    /\ down' = [down EXCEPT ![w] = <<>>]
    /\ UNCHANGED <<conf, state>>

Receive(w) ==
    /\ up[w] # <<>>
    /\ \E f \in Faults : Suffers(f) /\ Becomes(Dispatch(Under(f), w, Head(up[w])))
    /\ up' = [up EXCEPT ![w] = Tail(@)]
    /\ UNCHANGED <<conf, body, mirror>>

AnyStaged == state.writes # <<>> \/ state.handoffs # <<>> \/ state.failovers # <<>>
Publish ==
    /\ AnyStaged
    /\ \E f \in Faults : Suffers(f) /\ Becomes(Flushed(Under(f)))
    /\ UNCHANGED <<conf, up, body, mirror>>

LeaseEnds(r) ==
    /\ state.holder[r] # None /\ r \notin state.lapsed /\ spent.lapses < conf.lapses
    /\ state' = [state EXCEPT !.lapsed = @ \cup {r}]
    /\ spent' = [spent EXCEPT !.lapses = @ + 1]
    /\ UNCHANGED <<conf, up, down, body, mirror>>
PromoteStandby(r) ==
    /\ r \in state.lapsed /\ state.standbys # <<>>
    /\ \A i \in DOMAIN state.failovers : state.failovers[i].region # r
    /\ \/ /\ state' = [QueueFailover(state, r, Head(state.standbys)) EXCEPT !.standbys = Tail(@)]
          /\ UNCHANGED spent
       \/ /\ spent.fails < conf.fails /\ state' = [state EXCEPT !.degraded = TRUE]
          /\ spent' = [spent EXCEPT !.fails = @ + 1]
    /\ UNCHANGED <<conf, up, down, body, mirror>>

ZoneNext ==
    \/ \E w \in Workers : Start(w) \/ Cut(w) \/ Tick(w) \/ Receive(w)
    \/ Publish
    \/ \E r \in Sides : LeaseEnds(r) \/ PromoteStandby(r)

ZoneSpec == ZoneInit /\ [][ZoneNext]_zoneVars

(***************************************************************************)
(* Properties.                                                             *)
(***************************************************************************)
\* Nothing about e is on its way between w and the broker, or staged there.
About(m, e) ==
    CASE m.op = "Interest" -> TRUE
      [] m.op = "Heartbeat" -> FALSE
      [] m.op = "Batch" -> \E i \in DOMAIN m.updates : m.updates[i].eid = e
      [] OTHER -> m.eid = e
Settled(w, e) ==
    /\ \A i \in DOMAIN up[w] : ~About(up[w][i], e)
    /\ \A i \in DOMAIN down[w] : ~About(down[w][i], e)
    /\ \A i \in DOMAIN state.failovers : \A g \in state.failovers[i].grants : g.eid # e

\* Once the frames between them are handled, a worker simulates nothing that is not its
\* own, except what a failover took without telling it (the broker only grants), or a
\* hand-off whose barrier failed at first (it revokes from who had the entity then).
NobodyElseSimulates ==
    \A w \in state.online, e \in Entities :
        Settled(w, e) /\ body[w][e] # None /\ Live(state, e) =>
            state.ents[e].owner = w \/ <<w, e>> \in state.untold

\* And the worker that is responsible for an entity simulates it with the epoch the
\* broker will accept, except where it was never told or has let go: a checkout within
\* the default interest of the region name, a fold the broker did not carry out.
OwnerSimulates ==
    \A e \in Entities : Live(state, e) =>
        LET w == Responsible(state, e) IN
        w \in state.online /\ Settled(w, e) /\ e \notin state.stranded =>
            body[w][e] # None /\ body[w][e].epoch = state.ents[e].epoch

\* A worker that adopts a body starts it where the broker has it when it grants, unless
\* the last position was shed, a hand-off has put an older one back, or a fold granted
\* before it published.
AdoptsWhereItWas ==
    \A w \in state.online : \A n \in DOMAIN down[w] :
        LET m == down[w][n] IN
        m.op = "Grant" /\ m.at # None /\ Heard(w, n - 1).body[m.eid] = None =>
            Heard(w, n).body[m.eid].pos = m.at
=============================================================================
