----------------------------- MODULE Federation -----------------------------
(***************************************************************************)
(* Brokers that come and go: the incarnations of each region claim a lease *)
(* epoch from a shared registry, find one another in it, fence themselves  *)
(* when a newer incarnation is there, link to whoever the registry names,  *)
(* hand entities over those links, and drain themselves empty to exit.     *)
(*                                                                         *)
(* MeshHandoff has two brokers and their barriers that fail; here barriers *)
(* succeed, there are several incarnations of a region, and the registry   *)
(* file, the link tasks and the shared link names are what they are.  A    *)
(* node is a process with a log and an address of its own; the @epoch pin  *)
(* of GW_ADVERTISE is left out.                                            *)
(***************************************************************************)
EXTENDS Naturals, Sequences, FiniteSets, SequencesExt, FiniteSetsExt

CONSTANTS
    Nodes, Regions, Entities, None, Torn,
    RegionOf,      \* the region each node advertises
    MaxEpoch, MaxQueue,   \* bounds of the model: authority epochs, acks in flight
    Deployments    \* what the environment does

\* A deployment has: nodes, who takes part; first, the nodes that run at the start;
\* home, whose log each entity is in; whether registry ticks may overlap; and how many starts, crashes, freezes of a node's registry access,
\* broken connections (cuts), drains and crossings (moves) there are.
Link == [at : Nodes, up : BOOLEAN]
Parked == [to : Regions, epoch : Nat \ {0}, lease : Nat]
Frames == [e : Entities, epoch : Nat \ {0}, lease : Nat]
Acks == [e : Entities, epoch : Nat]
Records == [at : Nodes, lease : Nat]

ASSUME FederationConstants ==
    /\ {None, Torn} \cap (Nodes \cup Link \cup Parked \cup Records) = {} /\ Torn # None
    /\ RegionOf \in [Nodes -> Regions] /\ MaxEpoch \in Nat /\ MaxQueue \in Nat
    /\ IsFiniteSet(Entities)
    /\ \A d \in Deployments :
          d.first \subseteq d.nodes /\ d.nodes \subseteq Nodes /\ d.home \in [Entities -> d.nodes]

VARIABLES
    conf,      \* the deployment
    node,      \* what each process holds, and its log
    registry,  \* the file of each region: None, Torn or who wrote it, at which lease
    frames,    \* hand-offs in flight on the connection from one node to another
    acks,      \* acks in flight back on it
    handle,    \* workers["mesh-link-<region>"]: whose connection it is
    dying,     \* connections whose receiver has not torn them down yet
    spent,     \* counters for the bounds of the model
    misled,    \* history: entities an ack was logged for that was another's or late
    twins      \* history: entities two incarnations of a region have adopted

wire == <<frames, acks, handle, dying>>
past == <<misled, twins>>
vars == <<conf, node, registry, wire, spent, past>>

Conns == {c \in Nodes \X Nodes : RegionOf[c[1]] # RegionOf[c[2]]}
Up(n) == node[n].phase = "up"
Linked(n, t) == node[n].link[RegionOf[t]] = [at |-> t, up |-> TRUE]
Recorded(r) == registry[r] \notin {None, Torn}
RecordedLease(r) == IF Recorded(r) THEN registry[r].lease ELSE 0

(***************************************************************************)
(* A process: phase is off, up or exited; owned and forwarded are entities *)
(* and mesh_forwarded_epoch, by authority epoch; logged, the entities its  *)
(* log replays to; task, where its registry tick is.                       *)
(***************************************************************************)
Fresh(home) ==
    [phase |-> "off", lease |-> 0, fenced |-> FALSE, frozen |-> FALSE, draining |-> FALSE,
     known |-> [r \in Regions |-> 0], task |-> "rest",
     spawned |-> {}, link |-> [r \in Regions |-> None],
     owned |-> [e \in Entities |-> IF e \in home THEN 1 ELSE 0], logged |-> home,
     forwarded |-> [e \in Entities |-> 0], parked |-> [e \in Entities |-> None]]

Process ==
    [phase : {"off", "up", "exited"}, lease : Nat, fenced : BOOLEAN, frozen : BOOLEAN,
     draining : BOOLEAN, known : [Regions -> Nat], task : {"rest", "write", "torn", "read"},
     spawned : SUBSET Regions, link : [Regions -> Link \cup {None}],
     owned : [Entities -> Nat], logged : SUBSET Entities, forwarded : [Entities -> Nat],
     parked : [Entities -> Parked \cup {None}]]

TypeOK ==
    /\ conf \in Deployments
    /\ node \in [Nodes -> Process]
    /\ registry \in [Regions -> Records \cup {None, Torn}]
    /\ frames \in [Conns -> Seq(Frames)] /\ acks \in [Conns -> Seq(Acks)]
    /\ handle \in [Nodes -> Nodes \cup {None}] /\ dying \subseteq Conns
    /\ spent \in [starts : Nat, crashes : Nat, freezes : Nat, cuts : Nat, drains : Nat, moves : Nat]
    /\ misled \subseteq Entities /\ twins \subseteq Entities

\* The nodes that run at the start have each heartbeaten, as the first of their region.
Init ==
    /\ conf \in Deployments
    /\ node = [n \in Nodes |->
          LET f == Fresh({e \in Entities : conf.home[e] = n}) IN
          IF n \in conf.first THEN [f EXCEPT !.phase = "up", !.lease = 1] ELSE f]
    /\ registry = [r \in Regions |->
          IF \E n \in conf.first : RegionOf[n] = r
          THEN [at |-> CHOOSE n \in conf.first : RegionOf[n] = r, lease |-> 1] ELSE None]
    /\ frames = [c \in Conns |-> <<>>] /\ acks = [c \in Conns |-> <<>>]
    /\ handle = [n \in Nodes |-> None] /\ dying = {}
    /\ spent = [starts |-> 0, crashes |-> 0, freezes |-> 0, cuts |-> 0, drains |-> 0, moves |-> 0]
    /\ misled = {} /\ twins = {}

Spend(what) == /\ spent[what] < conf[what]
               /\ spent' = [spent EXCEPT ![what] = @ + 1]

(***************************************************************************)
(* Processes start, lose the registry, crash and exit.                     *)
(***************************************************************************)
\* What a process has after it is gone: its log.  A parked hand-off comes back as it
\* was logged, the lease of its day included.
Recovered(s) ==
    [Fresh({}) EXCEPT !.owned = [e \in Entities |-> IF e \in s.logged THEN s.owned[e] ELSE 0],
                      !.logged = s.logged, !.frozen = s.frozen,
                      !.forwarded = s.forwarded, !.parked = s.parked]

\* A starting process claims one lease more than the file shows, 1 if it shows none,
\* before it has written anything there.
Claimed(r) == RecordedLease(r) + 1
Start(n) ==
    /\ n \in conf.nodes /\ node[n].phase = "off" /\ Spend("starts")
    /\ node' = [node EXCEPT ![n].phase = "up", ![n].lease = Claimed(RegionOf[n])]
    /\ UNCHANGED <<conf, registry, wire, past>>

\* Every connection of n is cut: its own links are gone with it, a link to it is not
\* noticed before a write on it fails, and a receiver notices later.
Cut(s, n) ==
    [m \in Nodes |->
        IF m = n THEN s[n]
        ELSE [s[m] EXCEPT !.link = [r \in Regions |->
                IF @[r] # None /\ @[r].at = n THEN [@[r] EXCEPT !.up = FALSE] ELSE @[r]]]]
Hangup(n) ==
    /\ frames' = [c \in Conns |-> IF n \in {c[1], c[2]} THEN <<>> ELSE frames[c]]
    /\ acks' = [c \in Conns |-> IF n \in {c[1], c[2]} THEN <<>> ELSE acks[c]]
    /\ handle' = [handle EXCEPT ![n] = None]
    /\ dying' = {c \in dying \cup {c \in Conns : c[1] = n /\ Linked(n, c[2])} : c[2] # n}

Crash(n) ==
    /\ Up(n) /\ Spend("crashes")
    /\ node' = Cut([node EXCEPT ![n] = Recovered(@)], n)
    /\ Hangup(n)
    /\ UNCHANGED <<conf, registry, past>>

\* GW_REG_FREEZE_FILE: cut off from the registry, and back.
Freeze(n) ==
    /\ Up(n) /\ ~node[n].frozen /\ Spend("freezes")
    /\ node' = [node EXCEPT ![n].frozen = TRUE]
    /\ UNCHANGED <<conf, registry, wire, past>>
Thaw(n) ==
    /\ node[n].frozen
    /\ node' = [node EXCEPT ![n].frozen = FALSE]
    /\ UNCHANGED <<conf, registry, wire, spent, past>>

(***************************************************************************)
(* The registry tick: registry_heartbeat reads the file, and writes it (a  *)
(* truncation, then the bytes) unless it shows a higher lease; then        *)
(* registry_read reads every region's.  In a deployment whose ticks may    *)
(* overlap each of these is a step; otherwise a tick is one.               *)
(***************************************************************************)
YieldsNever(n) == FALSE
Yields(n) == node[n].lease < RecordedLease(RegionOf[n])
Record(n) == [registry EXCEPT ![RegionOf[n]] = [at |-> n, lease |-> node[n].lease]]
RecordUnlessNewer(n) == IF Yields(n) THEN registry ELSE Record(n)

\* A record is fresh for 5 s: while its writer runs and reaches the registry.
MayBeFresh(reg, r) == reg[r] \notin {None, Torn}
MustBeFresh(reg, r) ==
    MayBeFresh(reg, r) /\ Up(reg[r].at) /\ ~node[reg[r].at].frozen
Superseded(n, reg) ==
    LET own == reg[RegionOf[n]] IN
    own \notin {None, Torn} /\ own.lease > node[n].lease /\ own.at # n
Discovers(n, reg) ==
    LET s == node[n]
        others == Regions \ {RegionOf[n]}
        known(fresh) == [r \in Regions |->
            IF r \in fresh THEN Max({s.known[r], reg[r].lease}) ELSE s.known[r]]
    IN  \E fresh \in SUBSET {r \in others : MayBeFresh(reg, r)} :
        /\ {r \in others : MustBeFresh(reg, r)} \subseteq fresh
        /\ node' = [node EXCEPT ![n] =
              [s EXCEPT !.task = "rest", !.fenced = s.fenced \/ Superseded(n, reg),
                        !.known = known(fresh), !.spawned = s.spawned \cup fresh]]

Ticks(n) == Up(n) /\ ~node[n].frozen /\ node[n].task = "rest"
Tick(n) ==
    /\ Ticks(n) /\ ~conf.overlap
    /\ registry' = RecordUnlessNewer(n)
    /\ Discovers(n, registry')
    /\ UNCHANGED <<conf, wire, spent, past>>

Heartbeat(n) ==
    /\ Ticks(n) /\ conf.overlap
    /\ node' = [node EXCEPT ![n].task = IF Yields(n) THEN "read" ELSE "write"]
    /\ UNCHANGED <<conf, registry, wire, spent, past>>
Truncate(n) ==
    /\ node[n].task = "write"
    /\ node' = [node EXCEPT ![n].task = "torn"]
    /\ registry' = [registry EXCEPT ![RegionOf[n]] = Torn]
    /\ UNCHANGED <<conf, wire, spent, past>>
Write(n) ==
    /\ node[n].task = "torn"
    /\ node' = [node EXCEPT ![n].task = "read"]
    /\ registry' = Record(n)
    /\ UNCHANGED <<conf, wire, spent, past>>
Read(n) ==
    /\ node[n].task = "read"
    /\ Discovers(n, registry)
    /\ UNCHANGED <<conf, registry, wire, spent, past>>

(***************************************************************************)
(* Link tasks.                                                             *)
(***************************************************************************)
\* spawn_mesh_link_dynamic: connect to whoever the registry names now, and stay there
\* until a write fails.  The receiver files the connection under a name that is the
\* same for every broker that links to its region.
Connect(n, r) ==
    /\ Up(n) /\ r \in node[n].spawned /\ node[n].link[r] = None
    /\ Recorded(r)
    /\ LET t == registry[r].at IN
       /\ Up(t) /\ RegionOf[t] = r
       /\ node' = [node EXCEPT ![n].link[r] = [at |-> t, up |-> TRUE]]
       /\ handle' = [handle EXCEPT ![t] = n]
    /\ UNCHANGED <<conf, registry, frames, acks, dying, spent, past>>

\* The connection breaks: what is in flight is lost, both ends run on.
Break(n, t) ==
    /\ Linked(n, t) /\ Spend("cuts")
    /\ node' = [node EXCEPT ![n].link[RegionOf[t]].up = FALSE]
    /\ frames' = [frames EXCEPT ![<<n, t>>] = <<>>]
    /\ acks' = [acks EXCEPT ![<<n, t>>] = <<>>]
    /\ dying' = dying \cup {<<n, t>>}
    /\ UNCHANGED <<conf, registry, handle, past>>

\* A write fails (something is parked for the region, and resent): the sender goes.
Notice(n, r) ==
    /\ Up(n) /\ node[n].link[r] # None /\ ~node[n].link[r].up
    /\ \E e \in Entities : node[n].parked[e] # None /\ node[n].parked[e].to = r
    /\ node' = [node EXCEPT ![n].link[r] = None]
    /\ UNCHANGED <<conf, registry, wire, spent, past>>

\* The receiver's handler ends and removes the name, whoever holds it by now.
Teardown(c) ==
    /\ c \in dying
    /\ dying' = dying \ {c}
    /\ handle' = [handle EXCEPT ![c[2]] = None]
    /\ UNCHANGED <<conf, node, registry, frames, acks, spent, past>>

(***************************************************************************)
(* Hand-offs.                                                              *)
(***************************************************************************)
\* mesh_forward of the entities in S to region r: nothing without a link, and nothing
\* from a fenced incarnation.
Departs(n, S, r) == IF node[n].fenced \/ node[n].link[r] = None THEN {} ELSE S
Departed(s, S, r) ==
    [s EXCEPT !.owned = [e \in Entities |-> IF e \in S THEN 0 ELSE @[e]],
              !.logged = @ \ S,
              !.forwarded = [e \in Entities |-> IF e \in S THEN Max({@[e], s.owned[e] + 1}) ELSE @[e]],
              !.parked = [e \in Entities |->
                  IF e \in S THEN [to |-> r, epoch |-> s.owned[e] + 1, lease |-> s.lease] ELSE @[e]]]
Frame(e, p) == [e |-> e, epoch |-> p.epoch, lease |-> p.lease]
\* On a link nobody reads any more the write succeeds, and is lost.
Sent(n, s, S, r) ==
    LET conn == <<n, s.link[r].at>>
        batch == SetToSeq({Frame(e, s.parked[e]) : e \in S})
    IN  IF S = {} \/ s.link[r] = None \/ ~s.link[r].up THEN frames
        ELSE [frames EXCEPT ![conn] = @ \o batch]

OwnedBy(n) == {e \in Entities : node[n].owned[e] # 0}
MayMove(n, e) == node[n].owned[e] \in 1..(MaxEpoch - 1)

\* An entity crosses into region r.
Cross(n, e, r) ==
    /\ Up(n) /\ MayMove(n, e) /\ e \in Departs(n, {e}, r) /\ Spend("moves")
    /\ LET s == Departed(node[n], {e}, r) IN
       /\ node' = [node EXCEPT ![n] = s]
       /\ frames' = Sent(n, s, {e}, r)
    /\ UNCHANGED <<conf, registry, acks, handle, dying, past>>

\* resend_pending_mesh: all that is parked for a region, verbatim, a second later.
Resend(n, r) ==
    LET S == {e \in Entities : node[n].parked[e] # None /\ node[n].parked[e].to = r}
        link == node[n].link[r]
    IN  /\ Up(n) /\ S # {} /\ link # None /\ link.up
        /\ frames[<<n, link.at>>] = <<>>
        /\ frames' = Sent(n, node[n], S, r)
        /\ UNCHANGED <<conf, node, registry, acks, handle, dying, spent, past>>

\* The MeshHandoff handler at t.  It takes no notice of being fenced or draining.
StaleLease(t, n, f) == f.lease < node[t].known[RegionOf[n]]
PassedByNone(t, f) == FALSE
Passed(t, f) == node[t].forwarded[f.e] # 0 /\ f.epoch <= node[t].forwarded[f.e]
Present(t, f) == node[t].owned[f.e] # 0
AnsweredOnce(t, f) == ~Passed(t, f) /\ node[t].owned[f.e] = 0
Answered(t, f) == Passed(t, f) \/ node[t].owned[f.e] \in {0, f.epoch}
Adopted(s, f) ==
    [s EXCEPT !.owned[f.e] = f.epoch, !.logged = @ \cup {f.e},
              !.forwarded[f.e] = 0, !.parked[f.e] = None]
\* Another incarnation of t's region has adopted this very hand-off.
AdoptedTwice(t, f) ==
    \E m \in Nodes \ {t} :
        RegionOf[m] = RegionOf[t] /\ (node[m].owned[f.e] # 0 \/ node[m].forwarded[f.e] > f.epoch)
\* MeshAck goes to the connection that holds the name, or nowhere.
Reply(t, f) ==
    LET back == <<handle[t], t>> IN
    IF handle[t] # None /\ Linked(handle[t], t)
    THEN /\ Len(acks[back]) < MaxQueue
         /\ acks' = [acks EXCEPT ![back] = Append(@, [e |-> f.e, epoch |-> f.epoch])]
    ELSE acks' = acks

Deliver(n, t) ==
    /\ frames[<<n, t>>] # <<>>
    /\ LET f == Head(frames[<<n, t>>]) IN
       /\ frames' = [frames EXCEPT ![<<n, t>>] = Tail(@)]
       /\ IF StaleLease(t, n, f) \/ ~Answered(t, f) THEN UNCHANGED acks ELSE Reply(t, f)
       /\ IF StaleLease(t, n, f) \/ Passed(t, f) \/ Present(t, f)
          THEN UNCHANGED <<node, past>>
          ELSE /\ node' = [node EXCEPT ![t] = Adopted(@, f)]
               /\ twins' = IF AdoptedTwice(t, f) THEN twins \cup {f.e} ELSE twins
               /\ UNCHANGED misled
    /\ UNCHANGED <<conf, registry, handle, dying, spent>>

\* record_mesh_ack, whoever sent the hand-off and whenever: replay drops the entity.
ReceiveAck(n, t) ==
    /\ acks[<<n, t>>] # <<>>
    /\ LET ack == Head(acks[<<n, t>>])
           p == node[n].parked[ack.e]
       IN  /\ acks' = [acks EXCEPT ![<<n, t>>] = Tail(@)]
           /\ node' = [node EXCEPT ![n] =
                 [node[n] EXCEPT !.parked[ack.e] = None, !.logged = @ \ {ack.e}]]
           /\ misled' = IF ack.e \in node[n].logged \/ (p # None /\ p.epoch # ack.epoch)
                        THEN misled \cup {ack.e} ELSE misled
    /\ UNCHANGED <<conf, registry, frames, handle, dying, spent, twins>>

(***************************************************************************)
(* Draining.                                                               *)
(***************************************************************************)
\* drain_handoff_owned, to a region with a link: every entity in one go.
Drained(n, r) ==
    LET S == Departs(n, OwnedBy(n), r)
        s == Departed([node[n] EXCEPT !.draining = TRUE], S, r)
    IN  /\ \A e \in S : MayMove(n, e)
        /\ node' = [node EXCEPT ![n] = s]
        /\ frames' = Sent(n, s, S, r)
Drain(n) ==
    /\ Up(n) /\ ~node[n].draining /\ Spend("drains")
    /\ \E r \in Regions \ {RegionOf[n]} : Drained(n, r)
    /\ UNCHANGED <<conf, registry, acks, handle, dying, past>>

\* The monitor tick goes on with it, and exits when nothing is owned or parked.
DrainTick(n) ==
    /\ Up(n) /\ node[n].draining /\ OwnedBy(n) # {}
    /\ \E r \in Regions \ {RegionOf[n]} :
          Departs(n, OwnedBy(n), r) # {} /\ Drained(n, r)
    /\ UNCHANGED <<conf, registry, acks, handle, dying, spent, past>>
EmptyHandedAlways(n) == TRUE
EmptyHanded(n) == \A e \in Entities : node[n].parked[e] = None
DrainExit(n) ==
    /\ Up(n) /\ node[n].draining
    /\ OwnedBy(n) = {} /\ EmptyHanded(n) /\ \E r \in Regions : node[n].link[r] # None
    /\ node' = Cut([node EXCEPT ![n] = [Recovered(@) EXCEPT !.phase = "exited"]], n)
    /\ Hangup(n)
    /\ UNCHANGED <<conf, registry, spent, past>>

Next ==
    \/ \E n \in Nodes :
          \/ Start(n) \/ Crash(n) \/ Freeze(n) \/ Thaw(n)
          \/ Tick(n) \/ Heartbeat(n) \/ Truncate(n) \/ Write(n) \/ Read(n)
          \/ Drain(n) \/ DrainTick(n) \/ DrainExit(n)
          \/ \E r \in Regions : \/ Connect(n, r) \/ Notice(n, r) \/ Resend(n, r)
                                \/ \E e \in Entities : Cross(n, e, r)
    \/ \E c \in Conns : \/ Break(c[1], c[2]) \/ Teardown(c)
                        \/ Deliver(c[1], c[2]) \/ ReceiveAck(c[1], c[2])
Spec == Init /\ [][Next]_vars

\* Timers fire and handlers run.
Fairness ==
    /\ \A n \in Nodes :
          /\ WF_vars(Tick(n)) /\ WF_vars(Heartbeat(n)) /\ WF_vars(Truncate(n))
          /\ WF_vars(Write(n)) /\ WF_vars(Read(n))
          /\ WF_vars(DrainTick(n)) /\ WF_vars(DrainExit(n))
          /\ \A r \in Regions :
                WF_vars(Connect(n, r)) /\ WF_vars(Notice(n, r)) /\ WF_vars(Resend(n, r))
    /\ \A c \in Conns : /\ WF_vars(Teardown(c))
                        /\ WF_vars(Deliver(c[1], c[2])) /\ WF_vars(ReceiveAck(c[1], c[2]))
FairSpec == Spec /\ Fairness

(***************************************************************************)
(* Properties.                                                             *)
(***************************************************************************)
\* An entity has one owner, those that are down and will replay it included, however
\* often it is resent, whoever is superseded, and whichever link comes back (the
\* "exactly-once" of the 2-phase hand-off), unless two incarnations of one region
\* have adopted the same hand-off.  Among more than two regions a log that an ack has
\* misled may lead to a second owner as well.
OwnersOf(e) == {n \in Nodes : node[n].owned[e] # 0}
SingleOwner == \A e \in Entities \ twins : Cardinality(OwnersOf(e)) <= 1

\* No broker exits, and no ack is logged, before someone who stays has the entity in
\* its log, owned or parked (the drain's "every owned entity has been ACK'd onto a
\* neighbour"), unless an ack was logged for it that was another's or came late.
KeptBy(n, e) == node[n].phase # "exited" /\ (e \in node[n].logged \/ node[n].parked[e] # None)
Kept == \A e \in Entities \ misled : \E n \in Nodes : KeptBy(n, e)

\* Two incarnations of a region that reach the registry do not both stand for good:
\* the older fences itself, unless both claimed the same lease, or its tick falls into
\* the newer's write again and again.
Stands(n) == Up(n) /\ ~node[n].frozen /\ ~node[n].fenced
Older(n, m) == RegionOf[n] = RegionOf[m] /\ Stands(n) /\ Stands(m) /\ node[n].lease < node[m].lease
Overlapping(n, m) == node[n].task # "rest" /\ node[m].task \in {"write", "torn"}
Siblings == {p \in Nodes \X Nodes : p[1] # p[2] /\ RegionOf[p[1]] = RegionOf[p[2]]}
OneStands == \A p \in Siblings : <>[]Older(p[1], p[2]) => []<>Overlapping(p[1], p[2])

\* A drain that never ends has an obstacle it keeps meeting: the broker is fenced; it
\* finds nobody to link to; the target refuses the parked hand-off (it knows a newer
\* lease, or has the entity at another epoch) or acks it to someone else's connection;
\* or two brokers that drain hand an entity to and fro (here: until the bound).
Unreachable(n, r) ==
    /\ node[n].link[r] = None
    /\ r \in node[n].spawned => (~Recorded(r) \/ ~Up(registry[r].at))
RefusedBy(n, t) ==
    \E e \in Entities :
        LET p == node[n].parked[e] IN
        /\ p # None /\ Linked(n, t)
        /\ \/ p.lease < node[t].known[RegionOf[n]]
           \/ node[t].owned[e] \notin {0, p.epoch}
           \/ handle[t] # n
Obstacle(n) ==
    \/ node[n].fenced
    \/ \A r \in Regions \ {RegionOf[n]} : Unreachable(n, r)
    \/ \E t \in Nodes : RefusedBy(n, t)
    \/ \E e \in Entities : node[n].owned[e] = MaxEpoch
Draining(n) == Up(n) /\ node[n].draining
DrainEnds == \A n \in Nodes : <>[]Draining(n) => []<>Obstacle(n)
=============================================================================
