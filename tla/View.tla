-------------------------------- MODULE View --------------------------------
(***************************************************************************)
(* What a consumer of one broker is shown: admission of a connection, its  *)
(* area of interest and the spatial hash over the areas, the fan-out of an *)
(* update, the bounded egress channel with its load governor, read-only    *)
(* ghosts of a neighbour broker's entities, transient events, and the      *)
(* cache of the client SDK at the other end.                               *)
(*                                                                         *)
(* Positions are points of a line.  The log is taken as accepting          *)
(* (Durability, WalFile), the owners of the two regions are fixed          *)
(* (RegionLease) and hand-off between brokers is one frame (MeshHandoff).  *)
(***************************************************************************)
EXTENDS Integers, Sequences, FiniteSets, SequencesExt, FiniteSetsExt, Functions

CONSTANTS
    Peers, Entities, None,
    Serves,        \* region -> the worker that owns it
    Deployments    \* what the environment does, see below

\* A deployment has: requests, what each peer that connects asks for; ids,
\* the entities; points, where they go; ops, what happens; resyncs, the peers whose
\* client asks for a full resync; aois, what the Interest frames of a peer ask for; soft and hard,
\* EGRESS_SOFT_CAP and CHANNEL_CAP; burst and rate of the ingress bucket (burst 0: it
\* never runs short); meshed, whether region E is the neighbour's; and the bounds of the
\* model: prompt, operations wait until consumers have read their channels, connects,
\* how often a peer connects, events, how many there are.
Points == 0..3
Cell == 2                 \* INTEREST_CELL
MaxCells == 2             \* MAX_GRID_CELLS, less than one for each cell of the line and its edges
Margin == 1               \* INTEREST_MARGIN (H is 0: Partition has the hysteresis)
Band == {2}               \* the neighbour's points within interest_band of the seam
GhostTTL == 1             \* in monitor ticks
VisualBudget == 2         \* 64 in the code
NoArea == [center |-> None, radius |-> 0, full |-> None, rate |-> 1, coarse |-> 1]

AreaType == [center : Int \cup {None}, radius : Nat, full : Nat \cup {None},
             rate : Nat \ {0}, coarse : Nat \ {0}]

Placement == [pos : Points, last : 0..1, region : {"W", "E"}]
Ghost == [pos : Points, age : Nat]

ASSUME ViewConstants ==
    /\ None \notin Peers \cup Entities \cup Int \cup Placement \cup Ghost
    /\ IsFiniteSet(Entities)
    /\ DOMAIN Serves = {"W", "E"} /\ Range(Serves) \subseteq Peers
    /\ \A d \in Deployments :
        /\ d.ids \subseteq Entities /\ d.points \subseteq Points /\ d.soft <= d.hard
        /\ \A w \in DOMAIN d.aois : d.aois[w] \subseteq AreaType

VARIABLES
    conf,        \* the deployment
    ents,        \* entities: pos, last (last_broadcast_cell), region; or None
    ghosts,      \* ghosts: pos and age; or None
    tombs,       \* deleted_entities
    away,        \* where an entity of the neighbour is, or None
    link,        \* frames from the neighbour
    peer,        \* for each peer its WorkerHandle (claims = None: there is none), its
                 \* channel, and what its client has missed; see Nobody
    grid,        \* interest_grid: <<cell, peer>>
    global,      \* global_workers
    level,       \* load_level
    outbox,      \* event_outbox
    client,      \* ClientCache: phase, rows, depth; asked, a query not yet handled; got
    up,          \* peers whose last connection is open
    loops,       \* read loops of abandoned connections that have not ended
    connects,
    crashed,     \* a propagate indexed workers by a peer that is not there
    jumped,      \* history: entities moved by a hand-off and not by a propagate
    twice,       \* history: entities that were a ghost and were created here
    superseded   \* history: peers whose handle was replaced while it had grid cells

scene == <<ents, ghosts, tombs, away, link>>
index == <<grid, global>>
session == <<client, up, loops, connects>>
histories == <<jumped, twice, superseded>>
vars == <<conf, scene, peer, index, level, outbox, session, crashed, histories>>

Does(op) == op \in conf.ops
Abs(n) == IF n < 0 THEN -n ELSE n
Here(w) == peer[w].claims # None
Drained == conf.prompt => \A w \in Peers : peer[w].wire = <<>>

(***************************************************************************)
(* Admission: claims, roles and what a role may send.                      *)
(***************************************************************************)
BrokerOwned == {"kernel_admin", "inspector", "observer", "ops"}
OwnedRegions == {"MESH", "OBS", "CLIENT"}
\* resolve_connect_claims and what handle_conn does without claims: None is a rejection.
\* A request has proto, tokens (whether GW_AUTH_CLAIMS is set), bound (the claims of the
\* token it shows, or None), region and attributes.
Resolve(r) ==
    IF r.proto # 1 \/ (~r.tokens /\ r.region \in OwnedRegions) THEN None
    ELSE IF r.tokens
         THEN IF /\ r.bound # None
                 /\ r.region \in {None, r.bound.region}
                 /\ r.attributes \subseteq r.bound.attributes
              THEN r.bound ELSE None
         ELSE [region |-> IF r.region = None THEN "OBS" ELSE r.region,
               attributes |-> r.attributes \ BrokerOwned]

Role(c) ==
    CASE c.region = "MESH" -> "mesh"
      [] c.region = "OBS" -> "observer"
      [] c.region = "CLIENT" -> "client"
      [] OTHER -> "worker"
Telemetry == {"Heartbeat", "LogMessage", "Metrics", "Disconnect"}
MeshOps == {"MeshHandoff", "MeshAck", "MeshGhost", "MeshGhostRemove"}
Allows(c, op) ==
    \/ op = "Health"
    \/ op = "InspectorQuery" /\ "inspector" \in c.attributes
    \/ CASE Role(c) = "worker" -> op \notin MeshOps
         [] Role(c) = "mesh" -> op \in MeshOps \cup Telemetry
         [] Role(c) = "client" -> op \in Telemetry \cup
                {"Interest", "EntityQuery", "CommandRequest", "UpdateComponent"}
         [] OTHER -> op \in Telemetry \cup {"Interest", "EntityQuery"}

Cost(op) == IF op = "EntityQuery" THEN 4 ELSE 1

(***************************************************************************)
(* Interest.                                                               *)
(***************************************************************************)
GlobalObserver(s) == Role(s.claims) = "observer" /\ "observer" \in s.claims.attributes
DefaultInterest(s, p) ==
    CASE Role(s.claims) = "observer" -> GlobalObserver(s)
      [] Role(s.claims) \in {"client", "mesh"} -> FALSE
      [] s.claims.region = "W" -> p < 2 + Margin
      [] OTHER -> p >= 2 - Margin
Interested(s, p) ==
    IF s.aoi.center # None THEN Abs(p - s.aoi.center) <= s.aoi.radius
    ELSE DefaultInterest(s, p)
\* visible: an entity of conf.hidden has an ACL that lets nobody but workers read it.
Visible(s, e, p) ==
    Interested(s, p) /\ (e \in conf.hidden => Role(s.claims) = "worker")

CellOf(p) == p \div Cell
CellsFor(aoi) ==
    LET cells == CellOf(aoi.center - aoi.radius)..CellOf(aoi.center + aoi.radius)
    IN  IF Cardinality(cells) > MaxCells THEN {} ELSE cells
Cells(s) == IF s.aoi.center = None THEN {} ELSE CellsFor(s.aoi)
IsGlobal(s) == Cells(s) = {} /\ (s.aoi.center # None \/ DefaultInterest(s, 2))

\* remove_from_interest_grid, then the cells of the new interest.
GridWithout(w, s) == {g \in grid : g[2] # w \/ g[1] \notin Cells(s)}
GridWith(w, s, old) == GridWithout(w, old) \cup {<<c, w>> : c \in Cells(s)}
GlobalWith(w, s) == IF IsGlobal(s) THEN global \cup {w} ELSE global \ {w}
UnindexedCells(w, s) == grid' = GridWithout(w, s) /\ global' = global
Unindexed(w, s) == grid' = GridWithout(w, s) /\ global' = global \ {w}

(***************************************************************************)
(* The egress channel.  A frame is a tuple: its op, the entity, a value.   *)
(***************************************************************************)
\* ComponentUpdate (ghost is the marker component) and InspectorFrame.
Degradable(f) == f[1] \in {"update", "ghost", "inspector"}
\* A frame that is not sent leaves the consumer without the last value of its entity, or
\* without the mark of a ghost, which is not sent again.
Shed(s, f) ==
    CASE f[1] = "update" -> [s EXCEPT !.lossy = @ \cup {f[2]}]
      [] f[1] = "ghost" -> [s EXCEPT !.unseen = @ \cup {f[2]}]
      [] OTHER -> s
Enqueue(s, f) ==
    [s EXCEPT !.wire = Append(@, f),
              !.lossy = IF f[1] = "update" THEN @ \ {f[2]} ELSE @,
              !.stray = CASE f[1] \in {"add", "remove"} -> @ \ {f[2]}
                          [] f[1] = "authority" /\ f[2] \notin s.view -> @ \cup {f[2]}
                          [] OTHER -> @,
              !.unseen = IF f[1] = "remove" THEN @ \ {f[2]} ELSE @,
              !.due = IF f[1] = "event" THEN @ + 1 ELSE @]
Full(s) == Len(s.wire) >= conf.hard
\* What may be shed is shed before the channel is full, the sooner the higher the load.
Sheds(s, f) == Degradable(f) /\ (Full(s) \/ Len(s.wire) > conf.soft \div 2^level)
EmitDropping(s, f) ==
    IF s.cut THEN s
    ELSE IF Sheds(s, f) THEN Shed(s, f)
    ELSE IF ~Full(s) THEN Enqueue(s, f)
    ELSE [s EXCEPT !.due = IF f[1] = "event" THEN @ + 1 ELSE @]
Emit(s, f) ==
    IF s.cut THEN s
    ELSE IF Sheds(s, f) THEN Shed(s, f)
    ELSE IF ~Full(s) THEN Enqueue(s, f)
    ELSE [s EXCEPT !.flag = TRUE]

Nobody ==
    [claims |-> None, aoi |-> NoArea, view |-> {}, seq |-> [e \in Entities |-> 0],
     tokens |-> 0, wire |-> <<>>, flag |-> FALSE, lossy |-> {}, stray |-> {}, unseen |-> {},
     given |-> {}, due |-> 0, cut |-> FALSE]
Gone(s) == [Nobody EXCEPT !.wire = s.wire, !.flag = s.flag]

\* reap_disconnecting, of what a handler leaves behind.
Reaped(p) == [w \in Peers |-> IF p[w].claims # None /\ p[w].flag THEN Gone(p[w]) ELSE p[w]]
Flagged(p) == {w \in Peers : p[w].claims # None /\ p[w].flag}
DispatchedWith(p, g, all) ==
    /\ peer' = Reaped(p)
    /\ grid' = {x \in g : ~(x[2] \in Flagged(p) /\ x[1] \in Cells(p[x[2]]))}
    /\ global' = all \ Flagged(p)
Dispatched(p) == DispatchedWith(p, grid, global)
Each(Op(_, _)) == [w \in Peers |-> IF Here(w) THEN Op(w, peer[w]) ELSE peer[w]]

(***************************************************************************)
(* Entities in a view.                                                     *)
(***************************************************************************)
\* send_full, with the grant a client with the ACL's attribute gets.
SendFull(s, e, p) ==
    LET row == Emit(Emit(s, <<"begin">>), <<"add", e>>)
        full == Emit(Emit(row, <<"update", e, p>>), <<"end">>)
        seen == [full EXCEPT !.view = @ \cup {e}]
    IN  IF "pilot" \in s.claims.attributes THEN Emit(seen, <<"authority", e>>) ELSE seen
SendRemove(s, e) ==
    [Emit(s, <<"remove", e>>) EXCEPT !.view = @ \ {e}, !.given = @ \ {e}]
RemoveFromView(s, e) == IF e \in s.view THEN SendRemove(s, e) ELSE s
RemoveAll(s, es) == FoldSet(LAMBDA e, t : RemoveFromView(t, e), s, es)

\* fidelity_update_for_worker: beyond the full radius one update of rate is sent, rounded.
FullFidelity(s, p) ==
    s.aoi.center = None \/ s.aoi.full = None \/ Abs(p - s.aoi.center) <= s.aoi.full
Quantize(p, g) == ((2 * p + g) \div (2 * g)) * g
SendUpdate(s, e, p) ==
    IF FullFidelity(s, p) THEN Emit(s, <<"update", e, p>>)
    ELSE LET next == [s EXCEPT !.seq[e] = (@ + 1) % s.aoi.rate]    \* the code counts on
         IN  IF s.seq[e] # 0 THEN [next EXCEPT !.lossy = @ \cup {e}]
             ELSE LET v == Quantize(p, s.aoi.coarse)
                      sent == Emit(next, <<"update", e, v>>)
                  IN  IF v = p THEN sent ELSE [sent EXCEPT !.lossy = @ \cup {e}]

PropagateTo(s, e, p) ==
    LET inside == Visible(s, e, p)
        has == e \in s.view
    IN  CASE inside /\ ~has -> SendFull(s, e, p)
          [] inside /\ has -> SendUpdate(s, e, p)
          [] ~inside /\ has -> SendRemove(s, e)
          [] OTHER -> s
TargetsHere(p, last) == global \cup {w \in Peers : <<CellOf(p), w>> \in grid}
\* propagate: the peers of the cell of pos, of the last cell, and the global ones.
Targets(p, last) == global \cup {w \in Peers : {<<CellOf(p), w>>, <<last, w>>} \cap grid # {}}
Propagate(ps, e, p, last) ==
    [w \in Peers |-> IF w \in Targets(p, last) /\ ps[w].claims # None
                     THEN PropagateTo(ps[w], e, p) ELSE ps[w]]
Panics(p, last) == \E w \in Targets(p, last) : ~Here(w)

\* apply_prepared_handoff: revoke, then checkout and grant.
Region(p) == IF p < 2 THEN "W" ELSE "E"
HandOver(ps, e, p, from, to) ==
    [w \in Peers |->
        IF ps[w].claims = None \/ from = to \/ w \notin {Serves[from], Serves[to]} THEN ps[w]
        ELSE LET seen == IF w = Serves[from] \/ e \in ps[w].view THEN ps[w]
                         ELSE [SendFull(ps[w], e, p) EXCEPT !.given = @ \cup {e}]
             IN  Emit(seen, <<"authority", e>>)]

(***************************************************************************)
(* Ghosts.                                                                 *)
(***************************************************************************)
SendGhost(s, e, p) ==
    LET row == Emit(Emit(Emit(s, <<"begin">>), <<"add", e>>), <<"ghost", e>>)
        full == Emit(Emit(row, <<"update", e, p>>), <<"end">>)
    IN  [full EXCEPT !.view = @ \cup {e}]
\* propagate_ghost.
GhostTo(s, e, p, first) ==
    LET inside == Visible(s, e, p)
        has == e \in s.view
    IN  CASE inside /\ ~has -> SendGhost(s, e, p)
          [] inside /\ has -> IF first THEN s ELSE Emit(s, <<"update", e, p>>)
          [] ~inside /\ has -> SendRemove(s, e)
          [] OTHER -> s

\* ClientCache::apply_op: whatever names an entity makes a row for it.
NoRow == [pos |-> None, ghost |-> FALSE]
Row(c, e) == IF e \in DOMAIN c.rows THEN c.rows[e] ELSE NoRow
SetRow(c, e, r) ==
    [c EXCEPT !.rows = [x \in DOMAIN c.rows \cup {e} |-> IF x = e THEN r ELSE c.rows[x]]]
Apply(c, f) ==
    CASE f[1] \in {"add", "authority"} -> SetRow(c, f[2], Row(c, f[2]))
      [] f[1] = "update" -> SetRow(c, f[2], [Row(c, f[2]) EXCEPT !.pos = f[3]])
      [] f[1] = "ghost" -> SetRow(c, f[2], [Row(c, f[2]) EXCEPT !.ghost = TRUE])
      [] f[1] = "remove" -> [c EXCEPT !.rows = Restrict(@, DOMAIN @ \ {f[2]})]
      [] f[1] = "begin" -> [c EXCEPT !.depth = @ + 1]
      [] f[1] = "end" -> [c EXCEPT !.depth = IF @ = 0 THEN 0 ELSE @ - 1]
      [] f[1] = "event" -> [c EXCEPT !.got = @ + 1]
      [] f[1] = "rows" -> IF c.phase = "Resyncing"
                          THEN [c EXCEPT !.rows = f[2], !.depth = 0, !.phase = "Live"] ELSE c
      [] OTHER -> c      \* visual events, InspectorFrame, UpdateRejected
NoRows == [e \in {} |-> NoRow]
Cleared(c) == [c EXCEPT !.rows = NoRows, !.depth = 0]
Closed == [phase |-> "Disconnected", rows |-> NoRows, depth |-> 0, asked |-> FALSE, got |-> 0]

-----------------------------------------------------------------------------
Init ==
    /\ conf \in Deployments
    /\ ents = [e \in Entities |-> None]
    /\ ghosts = [e \in Entities |-> None]
    /\ away = [e \in Entities |-> None]
    /\ tombs = {} /\ link = <<>>
    /\ peer = [w \in Peers |-> Nobody]
    /\ grid = {} /\ global = {} /\ level = 0 /\ outbox = <<>>
    /\ client = [w \in Peers |-> Closed]
    /\ up = {} /\ loops = [w \in Peers |-> 0] /\ connects = [w \in Peers |-> 0]
    /\ crashed = FALSE
    /\ jumped = [e \in Entities |-> 0] /\ twice = {} /\ superseded = {}

\* handle_conn: the registration and checkout_all.  A handle of the same id is replaced;
\* update_interest_grid then only knows the cells of the new one, none.
CheckoutTo(s, w, e) ==
    LET seen == SendFull(s, e, ents[e].pos)
    IN  IF Serves[ents[e].region] = w THEN Emit(seen, <<"authority", e>>) ELSE seen
CheckoutAll(s, w, es) == FoldSet(LAMBDA e, t : CheckoutTo(t, w, e), s, es)
Connect(w) ==
    /\ Drained /\ w \notin up /\ connects[w] < conf.connects
    /\ w \in DOMAIN conf.requests
    /\ \E r \in conf.requests[w] :
        /\ Resolve(r) # None
        /\ LET fresh == [Nobody EXCEPT !.claims = Resolve(r), !.tokens = conf.burst]
               shown == {e \in Entities : ents[e] # None /\ Visible(fresh, e, ents[e].pos)}
           IN  /\ peer' = [peer EXCEPT ![w] = CheckoutAll(fresh, w, shown)]
               /\ grid' = GridWith(w, fresh, Nobody)
               /\ global' = GlobalWith(w, fresh)
    /\ up' = up \cup {w}
    /\ client' = [client EXCEPT ![w] = [Closed EXCEPT !.phase = "Live"]]
    /\ connects' = [connects EXCEPT ![w] = @ + 1]
    /\ superseded' = IF Here(w) /\ Cells(peer[w]) # {} THEN superseded \cup {w} ELSE superseded
    /\ UNCHANGED <<conf, scene, level, outbox, loops, crashed, jumped, twice>>

\* The consumer closes, or reads the end of a channel whose handle is gone; the read loop
\* at the broker is a task of its own and ends later.
ClientCloses(w) ==
    /\ w \in up
    /\ \/ Does("drop") /\ loops[w] = 0
       \/ ~Here(w) /\ peer[w].wire = <<>>
    /\ up' = up \ {w}
    /\ loops' = [loops EXCEPT ![w] = @ + 1]
    /\ client' = [client EXCEPT ![w] = Closed]
    /\ peer' = [peer EXCEPT ![w].wire = <<>>, ![w].flag = Here(w) /\ @,
                        ![w].cut = Here(w)]
    /\ UNCHANGED <<conf, scene, index, level, outbox, connects, crashed, histories>>

\* The end of handle_conn: whatever handle the id has is removed.
LoopEnds(w) ==
    /\ loops[w] > 0
    /\ loops' = [loops EXCEPT ![w] = @ - 1]
    /\ Unindexed(w, peer[w])
    /\ peer' = [peer EXCEPT ![w] = Gone(@)]
    /\ UNCHANGED <<conf, scene, level, outbox, client, up, connects, crashed, histories>>
\* The read loop of a flagged connection ends by itself; what is queued is lost.
FlaggedEnds(w) ==
    /\ w \in up /\ peer[w].flag
    /\ Unindexed(w, peer[w])
    /\ peer' = [peer EXCEPT ![w] = Nobody]
    /\ up' = up \ {w}
    /\ client' = [client EXCEPT ![w] = Closed]
    /\ UNCHANGED <<conf, scene, level, outbox, loops, connects, crashed, histories>>
Reap ==     \* at the end of the durability tick
    /\ Flagged(peer) # {} /\ Dispatched(peer)
    /\ UNCHANGED <<conf, scene, level, outbox, session, crashed, histories>>

\* The writer task and the consumer, a frame at a time or (prompt) all there are.
Deliver ==
    /\ \E ws \in LET ready == {w \in up : peer[w].wire # <<>>}
                  IN  IF conf.prompt THEN {ready} \ {{}} ELSE {{w} : w \in ready} :
        LET n(w) == IF w \notin ws THEN 0 ELSE IF conf.prompt THEN Len(peer[w].wire) ELSE 1
        IN  /\ client' = [w \in Peers |-> FoldLeft(Apply, client[w], SubSeq(peer[w].wire, 1, n(w)))]
            /\ peer' = [w \in Peers |-> [peer[w] EXCEPT !.wire = SubSeq(@, n(w) + 1, Len(@))]]
    /\ UNCHANGED <<conf, scene, index, level, outbox, up, loops, connects, crashed, histories>>

(***************************************************************************)
(* Frames from a peer.                                                     *)
(***************************************************************************)
\* dispatch_frame: the ingress bucket, the role policy, and then the handler.
Paid(w, op) ==
    IF conf.burst > 0 THEN [peer[w] EXCEPT !.tokens = @ - Cost(op)] ELSE peer[w]
Ingress(w, op, accepted) ==
    LET short == conf.burst > 0 /\ peer[w].tokens < Cost(op)
    IN  /\ w \in up /\ Here(w)
        /\ CASE short ->
                  Dispatched([peer EXCEPT ![w] = Emit(@, <<"reject">>)])
             [] ~short /\ ~Allows(peer[w].claims, op) ->
                  Dispatched([peer EXCEPT ![w] = Emit(Paid(w, op), <<"reject">>)])
             [] OTHER -> accepted
Refill(w) ==
    /\ Here(w) /\ conf.rate > 0 /\ peer[w].tokens < conf.burst
    /\ peer' = [peer EXCEPT ![w].tokens = Min({conf.burst, @ + conf.rate})]
    /\ UNCHANGED <<conf, scene, index, level, outbox, session, crashed, histories>>

\* The view follows the new interest; ghosts wait for their next refresh.
ReconcileTo(s, e) ==
    CASE Visible(s, e, ents[e].pos) /\ e \notin s.view -> SendFull(s, e, ents[e].pos)
      [] ~Visible(s, e, ents[e].pos) /\ e \in s.view -> SendRemove(s, e)
      [] OTHER -> s
ReconcileAll(s, es) == FoldSet(LAMBDA e, t : ReconcileTo(t, e), s, es)
Interest(w, aoi) ==
    /\ Drained /\ peer[w].aoi # aoi
    /\ Ingress(w, "Interest",
        LET asked == [Paid(w, "Interest") EXCEPT !.aoi = aoi, !.seq = [e \in Entities |-> 0]]
            told == IF aoi.center = None /\ asked.claims.region = "OBS" /\ ~GlobalObserver(asked)
                    THEN Emit(asked, <<"reject">>) ELSE asked
            after == ReconcileAll(told, {e \in Entities : ents[e] # None})
        IN  DispatchedWith([peer EXCEPT ![w] = after], GridWith(w, asked, peer[w]),
                           GlobalWith(w, asked)))
    /\ UNCHANGED <<conf, scene, level, outbox, session, crashed, histories>>

\* begin_full_resync, the EntityQuery{all} it sends, and the answer.
BeginResync(w) ==
    /\ Drained /\ w \in conf.resyncs \cap up /\ ~client[w].asked
    /\ client[w].phase = "Live" \/ peer[w].wire = <<>>
    /\ client' = [client EXCEPT ![w] = [Cleared(@) EXCEPT !.phase = "Resyncing", !.asked = TRUE]]
    /\ UNCHANGED <<conf, scene, peer, index, level, outbox, up, loops, connects, crashed, histories>>
RowsFor(s) ==
    LET real == {e \in Entities : ents[e] # None /\ Visible(s, e, ents[e].pos)}
        mirrored == {e \in Entities \ real : ghosts[e] # None /\ Visible(s, e, ghosts[e].pos)}
    IN  [e \in real \cup mirrored |->
            IF e \in real THEN [pos |-> ents[e].pos, ghost |-> FALSE]
            ELSE [pos |-> ghosts[e].pos, ghost |-> TRUE]]
EntityQuery(w) ==
    /\ client[w].asked
    /\ Ingress(w, "EntityQuery",
        LET s == Paid(w, "EntityQuery")
            rows == RowsFor(s)
            answered == Emit(s, <<"rows", rows>>)
        IN  Dispatched([peer EXCEPT ![w] =
                [answered EXCEPT !.stray = (s.view \ DOMAIN rows) \cup (DOMAIN rows \ s.view),
                                 !.unseen = {e \in DOMAIN rows \ s.view : rows[e].ghost},
                                 !.lossy = @ \ DOMAIN rows]]))
    /\ client' = [client EXCEPT ![w].asked = FALSE]
    /\ UNCHANGED <<conf, scene, level, outbox, up, loops, connects, crashed, histories>>
InspectorQuery(w) ==
    /\ Drained /\ Does("inspect")
    /\ Ingress(w, "InspectorQuery",
        Dispatched([peer EXCEPT ![w] = Emit(Paid(w, "InspectorQuery"),
            <<IF "inspector" \in @.claims.attributes THEN "inspector" ELSE "reject">>)]))
    /\ UNCHANGED <<conf, scene, level, outbox, session, crashed, histories>>

\* EntityEvent: a critical event is sent at once, another waits for flush_events.
CriticalEvent(e) ==
    /\ Drained /\ Does("event") /\ ents[e] # None
    /\ \A w \in Peers : peer[w].due < conf.events
    /\ Dispatched(Each(LAMBDA w, s : IF Visible(s, e, ents[e].pos) THEN Emit(s, <<"event", e>>) ELSE s))
    /\ UNCHANGED <<conf, scene, level, outbox, session, crashed, histories>>
VisualEvent(e) ==
    /\ Drained /\ Does("visual") /\ ents[e] # None /\ Len(outbox) < conf.events
    /\ outbox' = Append(outbox, [eid |-> e, to |->
                    {w \in Peers : Here(w) /\ Visible(peer[w], e, ents[e].pos)}])
    /\ UNCHANGED <<conf, scene, peer, index, level, session, crashed, histories>>
SendVisuals(s, es) == FoldSet(LAMBDA e, t : Emit(t, <<"visual", e>>), s, es)
\* flush_events: one frame for each key, up to the budget; which ones is a HashMap's order.
FlushEvents ==
    /\ Drained /\ outbox # <<>>
    /\ LET keys(w) == {ev.eid : ev \in {x \in ToSet(outbox) : w \in x.to}}
           budget == VisualBudget \div 2^level
       IN  \E kept \in [Peers -> SUBSET Entities] :
            /\ \A w \in Peers : /\ kept[w] \subseteq keys(w)
                                /\ Cardinality(kept[w]) = Min({Cardinality(keys(w)), budget})
            /\ peer' = Each(LAMBDA w, s : SendVisuals(s, kept[w]))
    /\ outbox' = <<>>
    /\ UNCHANGED <<conf, scene, index, level, session, crashed, histories>>

(***************************************************************************)
(* Entities move, appear and leave.                                        *)
(***************************************************************************)
Alive(e) == ents[e] # None
At(p, last, region) == [pos |-> p, last |-> last, region |-> region]
\* A propagate that meets a peer which is not there ends its task; the model stops there.
Crashes ==
    /\ crashed' = TRUE
    /\ UNCHANGED <<conf, scene, peer, index, level, outbox, session, histories>>
\* A flush of one update of pos: applied, propagated, and then the hand-off it staged.
Move(e, p) ==
    /\ Drained /\ Does("move") /\ ~crashed /\ Alive(e) /\ p # ents[e].pos
    /\ ~(conf.meshed /\ Region(p) = "E")
    /\ IF Panics(p, ents[e].last) THEN Crashes
       ELSE /\ Dispatched(HandOver(Propagate(peer, e, p, ents[e].last),
                                   e, p, ents[e].region, Region(p)))
            /\ ents' = [ents EXCEPT ![e] = At(p, CellOf(p), Region(p))]
            /\ jumped' = [jumped EXCEPT ![e] = Min({@, 1})]
            /\ UNCHANGED <<conf, ghosts, tombs, away, link, level, outbox, session, crashed,
                           twice, superseded>>
\* Two updates in one window: the hand-off the first staged takes the entity back to it.
MoveTwice(e, p, q) ==
    /\ Drained /\ Does("move") /\ ~crashed /\ Alive(e) /\ ~conf.meshed
    /\ Region(p) # ents[e].region /\ p # q
    /\ IF Panics(p, ents[e].last) \/ Panics(q, CellOf(p)) THEN Crashes
       ELSE /\ Dispatched(HandOver(Propagate(Propagate(peer, e, p, ents[e].last), e, q, CellOf(p)),
                                   e, p, ents[e].region, Region(p)))
            /\ ents' = [ents EXCEPT ![e] = At(p, CellOf(p), Region(p))]
            /\ jumped' = [jumped EXCEPT ![e] = 2]
            /\ UNCHANGED <<conf, ghosts, tombs, away, link, level, outbox, session, crashed,
                           twice, superseded>>
\* Fold: the hand-off brings the position, and with it the cell of the last broadcast.
Fold(e, p) ==
    /\ Drained /\ Does("fold") /\ ~crashed /\ Alive(e) /\ Region(p) # ents[e].region
    /\ IF Panics(p, CellOf(p)) THEN Crashes
       ELSE /\ Dispatched(Propagate(HandOver(peer, e, p, ents[e].region, Region(p)),
                                    e, p, CellOf(p)))
            /\ ents' = [ents EXCEPT ![e] = At(p, CellOf(p), Region(p))]
            /\ jumped' = [jumped EXCEPT ![e] = 1]
            /\ UNCHANGED <<conf, ghosts, tombs, away, link, level, outbox, session, crashed,
                           twice, superseded>>

\* spawn_committed_region: whoever sees the entity gets it, in the view or not.
SpawnTo(w, s, e, p) ==
    IF ~Visible(s, e, p) THEN s
    ELSE LET seen == SendFull(s, e, p)
         IN  IF Serves[Region(p)] = w THEN Emit(seen, <<"authority", e>>) ELSE seen
Removed(e) == Each(LAMBDA w, s : RemoveFromView(s, e))
CreateEntity(e, p) ==
    /\ Drained /\ Does("create") /\ e \in conf.ids /\ ~Alive(e) /\ e \notin tombs
    /\ Region(p) = "W" \/ ~conf.meshed
    /\ away[e] = None \/ Does("recreate")
    /\ Dispatched(Each(LAMBDA w, s : SpawnTo(w, s, e, p)))
    /\ ents' = [ents EXCEPT ![e] = At(p, CellOf(p), Region(p))]
    /\ twice' = IF away[e] # None \/ ghosts[e] # None THEN twice \cup {e} ELSE twice
    /\ UNCHANGED <<conf, ghosts, tombs, away, link, level, outbox, session, crashed,
                   jumped, superseded>>
DeleteEntity(e) ==
    /\ Drained /\ Does("delete") /\ Alive(e)
    /\ Dispatched(Removed(e))
    /\ ents' = [ents EXCEPT ![e] = None]
    /\ tombs' = tombs \cup {e}
    /\ jumped' = [jumped EXCEPT ![e] = 0]
    /\ UNCHANGED <<conf, ghosts, away, link, level, outbox, session, crashed, twice, superseded>>

(***************************************************************************)
(* The neighbour broker, and what it sends.                                *)
(***************************************************************************)
\* An update takes the entity over the meshed seam: propagated, and then forwarded.
Depart(e, p) ==
    /\ Drained /\ conf.meshed /\ Does("move") /\ ~crashed /\ Alive(e) /\ e \notin twice
    /\ Region(p) = "E"
    /\ IF Panics(p, ents[e].last) THEN Crashes
       ELSE LET seen == Propagate(peer, e, p, ents[e].last)
            IN  /\ Dispatched([w \in Peers |-> IF Here(w) THEN RemoveFromView(seen[w], e) ELSE seen[w]])
                /\ ents' = [ents EXCEPT ![e] = None]
                /\ away' = [away EXCEPT ![e] = p]
                /\ jumped' = [jumped EXCEPT ![e] = 0]
                /\ UNCHANGED <<conf, ghosts, tombs, link, level, outbox, session, crashed,
                               twice, superseded>>
AwayMove(e, p) ==
    /\ conf.meshed /\ away[e] # None /\ Region(p) = "E" /\ p # away[e]
    /\ away' = [away EXCEPT ![e] = p]
    /\ UNCHANGED <<conf, ents, ghosts, tombs, link, peer, index, level, outbox, session,
                   crashed, histories>>
\* It comes back, or it is deleted there, which no frame tells.
AwayLeaves(e) ==
    /\ away[e] # None /\ Len(link) < 2
    /\ away' = [away EXCEPT ![e] = None]
    /\ \/ link' = Append(link, <<"handoff", e, 1>>) /\ tombs' = tombs
       \/ link' = link /\ tombs' = tombs \cup {e} /\ e \notin twice
    /\ UNCHANGED <<conf, ents, ghosts, peer, index, level, outbox, session, crashed, histories>>
PushBorderGhosts ==
    /\ conf.meshed /\ link = <<>>
    /\ \E e \in Entities : away[e] \in Band
    /\ link' = SetToSeq({<<"ghost", e, away[e]>> : e \in {x \in Entities : away[x] \in Band}})
    /\ UNCHANGED <<conf, ents, ghosts, tombs, away, peer, index, level, outbox, session,
                   crashed, histories>>
LoseGhost ==
    /\ link # <<>> /\ link[1][1] = "ghost"
    /\ link' = Tail(link)
    /\ UNCHANGED <<conf, ents, ghosts, tombs, away, peer, index, level, outbox, session,
                   crashed, histories>>

MeshGhost(e, p) ==
    /\ IF Alive(e) THEN UNCHANGED <<ghosts, peer, index>>
       ELSE /\ Dispatched(Each(LAMBDA w, s : GhostTo(s, e, p, ghosts[e] = None)))
            /\ ghosts' = [ghosts EXCEPT ![e] = [pos |-> p, age |-> 0]]
    /\ UNCHANGED <<ents, jumped>>
AdoptShadowed(e, p) ==
    /\ IF Alive(e) THEN UNCHANGED <<ents, peer, index>>
       ELSE /\ Dispatched(Each(LAMBDA w, s : SpawnTo(w, s, e, p)))
            /\ ents' = [ents EXCEPT ![e] = At(p, CellOf(p), Region(p))]
    /\ UNCHANGED <<ghosts, jumped>>
\* MeshHandoff: the ghost goes first, from the views too.
Adopt(e, p) ==
    LET without(s) == IF ghosts[e] # None THEN RemoveFromView(s, e) ELSE s
    IN  /\ ghosts' = [ghosts EXCEPT ![e] = None]
        /\ IF Alive(e) THEN Dispatched(Each(LAMBDA w, s : without(s))) /\ UNCHANGED ents
           ELSE /\ Dispatched(Each(LAMBDA w, s : SpawnTo(w, without(s), e, p)))
                /\ ents' = [ents EXCEPT ![e] = At(p, CellOf(p), Region(p))]
        /\ UNCHANGED jumped
ReceiveMesh ==
    /\ Drained /\ link # <<>>
    /\ link' = Tail(link)
    /\ LET f == Head(link)
       IN  IF f[1] = "ghost" THEN MeshGhost(f[2], f[3]) ELSE Adopt(f[2], f[3])
    /\ UNCHANGED <<conf, tombs, away, level, outbox, session, crashed, twice, superseded>>

\* The monitor tick: reap_stale_ghosts, then update_load_governor.
Governed(p) ==
    LET most == Max({Len(p[w].wire) : w \in Peers})
    IN  CASE most >= conf.soft -> 2
          [] most < conf.soft /\ 2 * most >= conf.soft -> 1
          [] 4 * most < conf.soft -> 0
          [] OTHER -> Min({level, 1})
MonitorTick ==
    /\ Drained
    /\ LET stale == {e \in Entities : ghosts[e] # None /\ ghosts[e].age = GhostTTL}
           told == Each(LAMBDA w, s : RemoveAll(s, stale))
       IN  /\ ghosts' = [e \in Entities |-> IF e \in stale \/ ghosts[e] = None THEN None
                                            ELSE [ghosts[e] EXCEPT !.age = @ + 1]]
           /\ peer' = told
           /\ level' = Governed(told)
    /\ UNCHANGED <<conf, ents, tombs, away, link, index, outbox, session, crashed, histories>>

Next ==
    \/ \E w \in Peers : \/ Connect(w) \/ ClientCloses(w) \/ LoopEnds(w) \/ FlaggedEnds(w)
                        \/ Refill(w) \/ BeginResync(w) \/ EntityQuery(w)
                        \/ InspectorQuery(w)
                        \/ w \in DOMAIN conf.aois /\ \E aoi \in conf.aois[w] : Interest(w, aoi)
    \/ Deliver \/ Reap \/ FlushEvents \/ MonitorTick
    \/ PushBorderGhosts \/ LoseGhost \/ ReceiveMesh
    \/ \E e \in Entities :
        \/ CriticalEvent(e) \/ VisualEvent(e) \/ DeleteEntity(e) \/ AwayLeaves(e)
        \/ \E p \in conf.points : \/ Move(e, p) \/ Fold(e, p) \/ CreateEntity(e, p)
                                  \/ Depart(e, p) \/ AwayMove(e, p)
                                  \/ \E q \in conf.points : MoveTwice(e, p, q)
Spec == Init /\ [][Next]_vars

-----------------------------------------------------------------------------
\* The shape of the state: channels hold at most CHANNEL_CAP frames, a bucket its burst.
TypeOK ==
    /\ conf \in Deployments
    /\ \A w \in Peers : /\ Len(peer[w].wire) <= conf.hard
                        /\ peer[w].tokens \in 0..conf.burst
                        /\ peer[w].view \cup peer[w].lossy \cup peer[w].stray \subseteq Entities
                        /\ client[w].phase \in {"Disconnected", "Resyncing", "Live"}
    /\ \A e \in Entities : ents[e] # None => ents[e].pos \in Points /\ ents[e].last \in 0..1
    /\ level \in 0..2 /\ up \subseteq Peers /\ tombs \subseteq Entities

\* After every operation the broker's view of a peer holds exactly the entities the peer is
\* interested in and may read, and those it was given with authority.  The spatial hash may
\* miss viewers of an entity that a hand-off moved (see jumped).
ViewMatches ==
    \A w \in Peers, e \in Entities :
        (/\ Here(w) /\ Alive(e) /\ e \notin twice /\ ~crashed
         /\ jumped[e] = 0 \/ (jumped[e] = 1 /\ w \in global)) =>
            LET s == peer[w] IN
            /\ Visible(s, e, ents[e].pos) => e \in s.view
            /\ e \in s.view => Visible(s, e, ents[e].pos) \/ e \in s.given

\* A consumer that has read its channel and was not cut off has a row for exactly the
\* entities of its view, with the position and the ghost mark they have, no open critical
\* section, and every critical event: only values may be missing, and only those shed or
\* coarsened.  Rows and the view may differ for an AuthorityChange sent after the entity
\* left the view (stray); a ghost that only a query showed, or whose mark was shed, may be
\* marked wrongly (unseen).
CacheFollows ==
    \A w \in Peers :
        LET s == peer[w]
            c == client[w]
        IN  (w \in up /\ Here(w) /\ ~s.cut /\ ~s.flag /\ s.wire = <<>> /\ c.phase = "Live" /\ ~crashed) =>
                /\ \A e \in Entities \ (s.stray \cup twice) : e \in DOMAIN c.rows <=> e \in s.view
                /\ \A e \in (Entities \cap s.view)
                              \ (s.stray \cup s.lossy \cup s.given \cup s.unseen \cup twice) :
                    IF Alive(e) THEN c.rows[e] = [pos |-> ents[e].pos, ghost |-> FALSE]
                                     \/ jumped[e] > 0
                    ELSE c.rows[e] = [pos |-> ghosts[e].pos, ghost |-> TRUE]
                /\ c.depth = 0
                /\ c.got = s.due

\* What propagate looks up are connected workers, or indexing workers ends the task that
\* publishes.  The cells of a handle that was replaced while it had some stay behind.
GridNamesWorkers ==
    /\ \A w \in global \cup {g[2] : g \in grid} : Here(w) \/ w \in superseded
    /\ crashed => superseded # {}

\* A ghost never coexists with the entity itself, and views name only what is there, unless
\* an entity was created here while the neighbour has it.
GhostsApart ==
    \A e \in Entities \ twice :
        /\ ents[e] = None \/ ghosts[e] = None
        /\ (\E w \in Peers : Here(w) /\ e \in peer[w].view) => ents[e] # None \/ ghosts[e] # None
=============================================================================
