------------------------------ MODULE Authority ------------------------------
(***************************************************************************)
(* Who may write which component: owner, fencing epoch and mode of every   *)
(* component, the grants a connection holds, clients that write sparsely   *)
(* until a contact takes the component from them, commands routed to the   *)
(* authority and their answers, and threshold transactions.                *)
(*                                                                         *)
(* A position is a point of a line, pos and gear stand for the components  *)
(* of the physics island and for the others.  Rejections that change       *)
(* nothing but a frame to the sender are disabled actions.  The owners of  *)
(* the regions are fixed (RegionLease moves them).                         *)
(***************************************************************************)
EXTENDS Integers, Sequences, FiniteSets, SequencesExt, FiniteSetsExt, Functions

CONSTANTS
    Entities, Regions, Workers, None,
    Serves,        \* region -> its worker
    Pilots,        \* workers with the attribute the ACL's client_write asks for
    Admin,         \* the worker with kernel_admin
    Requests,      \* request ids
    Deployments    \* what the environment does, see below

\* A deployment has: entities ids, those whose pos is the pilots' (acl) in sparse;
\* home and spot, where they start; peers that connect, drops that disconnect; ops,
\* what happens; moves, entities that are handed off; sets, owners and modes the
\* administrator gives; and the bounds of the model: epochs, how far an epoch goes,
\* window, the writes staged at once, commands, how many are sent, starts, restarts.
Comps == {"pos", "gear"}
Keys == Entities \X Comps
Modes == {"sparse", "island", "arbitrated"}
Spots == {0, 2, 3}
MaxDelta == 2            \* authority.mode's max_position_delta
ContactRadius == 1       \* the sum of two contact_radius

ASSUME AuthorityConstants ==
    /\ Serves \in [Regions -> Workers] /\ Pilots \subseteq Workers /\ Admin \in Workers
    /\ None \notin Entities \cup Regions \cup Workers
    /\ \A d \in Deployments :
          /\ d.sparse \subseteq d.ids /\ d.ids \subseteq Entities
          /\ d.home \in Regions /\ d.spot \in [Entities -> Spots]
          /\ d.sets \subseteq (Workers \cup {None}) \X Modes

VARIABLES
    conf,       \* the deployment
    ent,        \* entities: pos, region, threshold.tx, authority
    disk,       \* what a replay of the log's lines gives for them
    workers,    \* connections: view and authority_epochs, or None
    updates,    \* pending_updates
    handoffs,   \* pending_handoffs
    pending,    \* pending_commands
    inbox,      \* CommandRequest frames the workers have not answered
    sent,       \* commands routed
    degraded,   \* wal_degraded
    starts,
    answer,     \* history: the last answer forwarded to a caller
    overtaken,  \* history: entities that changed under a staged hand-off, or the reverse
    untold,     \* history: connections with a grant that is over, which were not told
    blind,      \* history: the pos of both was staged at once
    unlogged    \* history: escalations the log does not have

world == <<ent, disk, workers>>
staged == <<updates, handoffs>>
commands == <<pending, inbox, sent, answer>>
histories == <<overtaken, untold, blind, unlogged>>
vars == <<conf, world, staged, commands, degraded, starts, histories>>

Does(op) == op \in conf.ops
Connected(w) == workers[w] # None
Staged(e) == \E i \in DOMAIN handoffs : handoffs[i].eid = e
Set(s, e, c, ca) == [s EXCEPT ![e].auth[c] = ca]

(***************************************************************************)
(* Authority maps.                                                         *)
(***************************************************************************)
\* default_authority_mode, for a component the spec says nothing about.
DefaultMode(e, c, d) ==
    CASE c = "pos" /\ e \in d.sparse -> "sparse"
      [] c = "pos" -> "island"
      [] OTHER -> "arbitrated"
InitialAuthority(e, d) ==
    [c \in Comps |-> [owner |-> None, epoch |-> 1, mode |-> DefaultMode(e, c, d)]]

Island(auth) == {c \in Comps : auth[c].mode = "island"}
TopEpoch(auth) == Max({auth[c].epoch : c \in IF Island(auth) = {} THEN {"pos"} ELSE Island(auth)})
\* advance_physics_island_authority: the components that change hands.
Moved(auth, old) ==
    {c \in Island(auth) : auth[c].owner \in {old, None}}
Advance(auth, old, new) ==
    [c \in Comps |-> IF c \in Moved(auth, old)
                     THEN [auth[c] EXCEPT !.epoch = TopEpoch(auth) + 1, !.owner = new]
                     ELSE auth[c]]

\* authoritative_entity_owner, authoritative_component_writer.
RegionOwner(w, e) == w = Admin \/ Serves[ent[e].region] = w
Writer(w, e, c) ==
    \/ w = Admin
    \/ ent[e].auth[c].mode = "sparse" /\ e \in conf.sparse /\ w \in Pilots
    \/ ent[e].auth[c].owner = w
    \/ ent[e].auth[c].owner = None /\ RegionOwner(w, e)

\* reject_stale_authority_epoch_val: the epoch in the frame, or else the one the
\* connection was granted.
Fresh(w, e, c, supplied) ==
    LET candidate == IF supplied # 0 THEN supplied ELSE workers[w].cache[<<e, c>>]
    IN  candidate \in {0, ent[e].auth[c].epoch}

\* Operations on [ent, workers].  lost[k] is who is told that it has lost k, gained[k]
\* who is given it at its epoch; neither is, if it is not connected.
World == [ent |-> ent, workers |-> workers]
There(s, w) == w # None /\ s.workers[w] # None
Regrant(s, lost, gained) ==
    LET ca(k) == s.ent[k[1]].auth[k[2]]
        Owner(k) == IF There(s, gained[k]) THEN gained[k]
                    ELSE IF There(s, lost[k]) /\ ca(k).owner = lost[k] THEN None
                    ELSE ca(k).owner
        Cached(w, k) == IF gained[k] = w THEN ca(k).epoch
                        ELSE IF lost[k] = w THEN 0 ELSE s.workers[w].cache[k]
    IN  [ent |-> [e \in Entities |->
                    [s.ent[e] EXCEPT !.auth = [c \in Comps |-> [@[c] EXCEPT !.owner = Owner(<<e, c>>)]]]],
         workers |-> [w \in Workers |->
                        IF s.workers[w] = None THEN None
                        ELSE [s.workers[w] EXCEPT !.cache = [k \in Keys |-> Cached(w, k)]]]]
Of(w, K) == [k \in Keys |-> IF k \in K THEN w ELSE None]
Grant(s, w, K) == Regrant(s, Of(None, {}), Of(w, K))
Revoke(s, w, K) == Regrant(s, Of(w, K), Of(None, {}))
Becomes(s) == ent' = s.ent /\ workers' = s.workers

\* send_full: the entity is in the view, and whoever has the attribute of the ACL is
\* granted the component, in whatever mode it is now.
AclGrants(w, e) == IF e \in conf.sparse /\ w \in Pilots THEN {<<e, "pos">>} ELSE {}
Seen(s, w, S) == [s EXCEPT !.workers[w].view = @ \cup S]
SendFull(s, w, e) == Grant(Seen(s, w, {e}), w, AclGrants(w, e))
\* checkout_all of a region's worker: with the physics islands of its region.
RegionGrants(w, e) ==
    {<<e, c>> : c \in {d \in Island(ent[e].auth) :
        /\ Serves[ent[e].region] = w
        /\ ~(e \in conf.sparse /\ d = "pos")
        /\ ent[e].auth[d].owner \in {w, None}}}
CheckoutAll(s, w) ==
    Grant(Seen(s, w, conf.ids), w, UNION {AclGrants(w, e) \cup RegionGrants(w, e) : e \in conf.ids})

\* The revokes and grants of moves, at most one of each entity: from the old worker,
\* to the new one, to which the entity is sent if it has not seen it.
MoveOf(H, e) == CHOOSE h \in H : h.eid = e
Transfer(s, H) ==
    LET moves(k) == \E h \in H : h.eid = k[1] /\ k[2] \in h.moved
        checks(k) == \E h \in H : /\ There(s, h.new) /\ h.eid \notin s.workers[h.new].view
                                  /\ k \in AclGrants(h.new, h.eid)
        lost == [k \in Keys |-> IF moves(k) THEN MoveOf(H, k[1]).old ELSE None]
        gained == [k \in Keys |-> IF moves(k) \/ checks(k) THEN MoveOf(H, k[1]).new ELSE None]
        seen == [w \in Workers |->
                    IF s.workers[w] = None THEN None
                    ELSE [s.workers[w] EXCEPT !.view = @ \cup {h.eid : h \in {g \in H : g.new = w}}]]
    IN  Regrant([ent |-> s.ent, workers |-> seen], lost, gained)

NoteOvertaken ==
    overtaken' = overtaken \cup {e \in Entities : Staged(e) /\ ent'[e].auth # ent[e].auth}
\* What w was granted is what there is; if not, nobody is excepted but who lost one of
\* the keys K to a step that tells nobody, until they are told.
Told(w, k) ==
    Connected(w) /\ workers[w].cache[k] # 0
        => LET ca == ent[k[1]].auth[k[2]] IN workers[w].cache[k] = ca.epoch /\ ca.owner = w
NoteUntold(K) ==
    untold' = {t \in untold \cup (Workers \X K) : ~Told(t[1], t[2])'}
Bounded(e) == \A c \in Comps : ent[e].auth[c].epoch < conf.epochs

(***************************************************************************)
(* Connections.                                                            *)
(***************************************************************************)
NoGrants == [view |-> {}, cache |-> [k \in Keys |-> 0]]

Connect(w) ==
    /\ ~Connected(w) /\ w \in conf.peers
    /\ LET s == [World EXCEPT !.workers[w] = NoGrants]
       IN  Becomes(IF w \in Range(Serves) THEN CheckoutAll(s, w) ELSE s)
    /\ NoteOvertaken /\ NoteUntold(UNION {AclGrants(w, e) : e \in conf.ids})
    /\ UNCHANGED <<conf, disk, staged, commands, degraded, starts, blind, unlogged>>

Disconnect(w) ==
    /\ w \in conf.drops /\ Connected(w)
    /\ workers' = [workers EXCEPT ![w] = None]
    /\ inbox' = {m \in inbox : m.owner # w}
    /\ UNCHANGED <<conf, ent, disk, staged, pending, sent, answer, degraded, starts, overtaken,
                   blind, unlogged>>
    /\ NoteUntold({})

\* Interest: an entity comes into a pilot's view or leaves it, and keeps its grants.
Interest(w, e) ==
    /\ w \in Pilots /\ Connected(w) /\ e \in conf.ids
    /\ IF e \in workers[w].view
       THEN /\ workers' = [workers EXCEPT ![w].view = @ \ {e}]
            /\ UNCHANGED ent
       ELSE Becomes(SendFull(World, w, e))
    /\ NoteOvertaken /\ NoteUntold(AclGrants(w, e))
    /\ UNCHANGED <<conf, disk, staged, commands, degraded, starts, blind, unlogged>>

(***************************************************************************)
(* Position writes of a client, and the contact that ends them.            *)
(***************************************************************************)
Distance(x, y) == IF x < y THEN y - x ELSE x - y
InEnvelope(e, x) == ent[e].auth["pos"].mode = "sparse" => Distance(x, ent[e].pos) <= MaxDelta
ContactsWithin(e, x) ==
    IF ent[e].auth["pos"].mode # "sparse" THEN {}
    ELSE {o \in conf.ids \ {e} : ent[o].auth["pos"].mode = "sparse"
                                 /\ Distance(x, ent[o].pos) < ContactRadius}
Contacts(e, x) ==
    IF ent[e].auth["pos"].mode # "sparse" THEN {}
    ELSE {o \in conf.ids \ {e} : ent[o].auth["pos"].mode = "sparse"
                                 /\ Distance(x, ent[o].pos) <= ContactRadius}

\* Clients send no epoch, so that they are held to the one of their grant.
MayWrite(w, e) ==
    /\ Does("write") /\ Connected(w) /\ e \in conf.ids
    /\ ~degraded
    /\ Writer(w, e, "pos")
    /\ Fresh(w, e, "pos", 0)

\* prepare_update: checked against what is published, applied by the next flush.
UpdateComponent(w, e, x) ==
    /\ MayWrite(w, e)
    /\ InEnvelope(e, x) /\ Contacts(e, x) = {}
    /\ Len(updates) < conf.window
    /\ updates' = Append(updates, [eid |-> e, pos |-> x])
    /\ disk' = [disk EXCEPT ![e].pos = x]
    /\ blind' = (blind \/ \E i \in DOMAIN updates : updates[i].eid # e)
    /\ overtaken' = IF Staged(e) THEN overtaken \cup {e} ELSE overtaken
    /\ UNCHANGED <<conf, ent, workers, handoffs, commands, degraded, starts, untold,
                   unlogged>>

\* escalate_component_to_server_arbitrated, to owner: first in memory.
Escalated(ca, owner) ==
    [owner |-> owner, epoch |-> ca.epoch + 1, mode |-> "arbitrated"]
EscalateSilently(s, e, owner) ==
    Grant([s EXCEPT !.ent = Set(@, e, "pos", Escalated(s.ent[e].auth["pos"], owner))],
                 owner, {<<e, "pos">>})
Escalate(s, e, owner) ==
    LET old == s.ent[e].auth["pos"]
        told == IF old.owner \notin {None, owner} /\ s.workers[old.owner] # None
                THEN [s.workers EXCEPT ![old.owner].cache[<<e, "pos">>] = 0] ELSE s.workers
        t == [ent |-> Set(s.ent, e, "pos", Escalated(old, owner)), workers |-> told]
    IN  Grant(t, owner, {<<e, "pos">>})

\* reject_and_escalate_contact_risk: both components are taken, each has a record,
\* and nobody looks whether it was written.  A write that fails degrades the broker,
\* and the ones after it fail too.
ContactRisk(w, e, x, other, written) ==
    LET owner == Serves[ent[e].region]
        pair == <<e, other>>
    IN  /\ MayWrite(w, e)
        /\ InEnvelope(e, x) /\ other \in Contacts(e, x)
        /\ Bounded(e) /\ Bounded(other)
        /\ Becomes(Escalate(Escalate(World, e, owner), other, owner))
        /\ disk' = [d \in Entities |->
                      IF \E i \in 1 .. written : pair[i] = d
                      THEN [disk[d] EXCEPT !.auth["pos"] = Escalated(ent[d].auth["pos"], owner)]
                      ELSE disk[d]]
        /\ (written < 2 => Does("wal"))
        /\ degraded' = (written < 2)
        /\ unlogged' = unlogged \cup {pair[i] : i \in written + 1 .. 2}
        /\ NoteOvertaken /\ NoteUntold({})
        /\ UNCHANGED <<conf, staged, commands, starts, blind>>

(***************************************************************************)
(* SetComponentAuthority.                                                  *)
(***************************************************************************)
SetComponentAuthority(e, c, owner, mode, expected) ==
    LET was == ent[e].auth[c]
        now == [owner |-> owner, epoch |-> was.epoch + 1, mode |-> mode]
        s == [World EXCEPT !.ent = Set(@, e, c, now)]
        revoked == IF was.owner # owner THEN Revoke(s, was.owner, {<<e, c>>}) ELSE s
    IN  /\ Connected(Admin) /\ ~degraded /\ e \in conf.ids
        /\ expected \in {0, was.epoch}
        /\ Bounded(e)
        /\ disk' = Set(disk, e, c, now)
        /\ Becomes(Grant(revoked, owner, {<<e, c>>}))
        /\ NoteOvertaken /\ NoteUntold({})
        /\ UNCHANGED <<conf, staged, commands, degraded, starts, blind, unlogged>>

(***************************************************************************)
(* Local hand-offs: the whole authority map is prepared when the line is   *)
(* written and put in place by the barrier.                                *)
(***************************************************************************)
QueueHandoff(e, to) ==
    LET old == Serves[ent[e].region]
        auth == Advance(ent[e].auth, old, Serves[to])
    IN  /\ e \in conf.moves /\ ~degraded
        /\ to # ent[e].region /\ ~Staged(e) /\ Bounded(e)
        /\ handoffs' = Append(handoffs, [eid |-> e, to |-> to, pos |-> ent[e].pos, auth |-> auth,
                                         moved |-> Moved(ent[e].auth, old),
                                         old |-> old, new |-> Serves[to]])
        /\ disk' = [disk EXCEPT ![e] = [@ EXCEPT !.region = to, !.auth = auth, !.pos = ent[e].pos]]
        /\ overtaken' = IF \E i \in DOMAIN updates : updates[i].eid = e
                        THEN overtaken \cup {e} ELSE overtaken
        /\ UNCHANGED <<conf, ent, workers, updates, commands, degraded, starts, untold,
                       blind, unlogged>>

\* pending_command_authority_current; epoch 0 is a command routed by region alone.
AuthorityCurrentOwner(s, p) ==
    IF p.epoch # 0 THEN s.ent[p.eid].auth["pos"].owner = p.owner
    ELSE Serves[s.ent[p.eid].region] = p.owner
AuthorityCurrent(s, p) ==
    IF p.epoch # 0
    THEN s.ent[p.eid].auth["pos"].owner = p.owner /\ s.ent[p.eid].auth["pos"].epoch = p.epoch
    ELSE Serves[s.ent[p.eid].region] = p.owner
RejectStale(s, eids, commandsNow) ==
    [r \in Requests |->
        IF commandsNow[r] # None /\ commandsNow[r].eid \in eids /\ ~AuthorityCurrent(s, commandsNow[r])
        THEN None ELSE commandsNow[r]]

ApplyHandoff(st, h) == [st EXCEPT !.region = h.to, !.pos = h.pos, !.auth = h.auth]

\* flush_pending_updates: the last write of an entity counts, then its hand-off.
Written(e) ==
    LET writes == {i \in DOMAIN updates : updates[i].eid = e}
    IN  IF writes = {} THEN ent[e] ELSE [ent[e] EXCEPT !.pos = updates[Max(writes)].pos]
Flush ==
    LET H == ToSet(handoffs)
        eids == {h.eid : h \in H}
        placed == [World EXCEPT !.ent =
                      [e \in Entities |-> IF e \in eids THEN ApplyHandoff(Written(e), MoveOf(H, e))
                                          ELSE Written(e)]]
    IN  /\ ~degraded /\ updates \o handoffs # <<>>
        /\ Becomes(Transfer(placed, H))
        /\ pending' = RejectStale(placed, eids, pending)
        /\ updates' = <<>> /\ handoffs' = <<>>
        /\ NoteUntold(UNION {AclGrants(h.new, h.eid) : h \in H})
        /\ UNCHANGED <<conf, disk, inbox, sent, answer, degraded, starts, overtaken, blind,
                       unlogged>>

\* The barrier fails: what was staged is dropped and stays in the file.
FlushFails ==
    /\ Does("wal") /\ updates \o handoffs # <<>>
    /\ degraded' = TRUE
    /\ updates' = <<>> /\ handoffs' = <<>>
    /\ UNCHANGED <<conf, world, commands, starts, histories>>

(***************************************************************************)
(* Commands.                                                               *)
(***************************************************************************)
Route(e) ==
    LET ca == ent[e].auth["pos"] IN
    IF ca.owner # None THEN [eid |-> e, owner |-> ca.owner, epoch |-> ca.epoch]
    ELSE [eid |-> e, owner |-> Serves[ent[e].region], epoch |-> 0]

CommandRequest(w, e, r) ==
    LET m == [req |-> r, serial |-> sent + 1, eid |-> e, owner |-> Route(e).owner]
    IN  /\ Does("command") /\ sent < conf.commands /\ w \in Pilots /\ Connected(w) /\ e \in conf.ids
        /\ pending[r] = None /\ Connected(m.owner)
        /\ pending' = [pending EXCEPT ![r] =
               [caller |-> w, serial |-> m.serial, eid |-> e, owner |-> m.owner,
                epoch |-> Route(e).epoch,
                again |-> \E o \in inbox : o.req = r /\ o.owner = m.owner /\ o.eid = e]]
        /\ inbox' = inbox \cup {m}
        /\ sent' = sent + 1
        /\ UNCHANGED <<conf, world, staged, answer, degraded, starts, histories>>

\* The worker m.owner answers m.
CommandResponse(m) ==
    LET p == pending[m.req]
        expected == p # None /\ p.owner = m.owner /\ p.eid = m.eid
    IN  /\ m \in inbox
        /\ inbox' = inbox \ {m}
        /\ pending' = IF expected THEN [pending EXCEPT ![m.req] = None] ELSE pending
        /\ answer' = IF expected /\ AuthorityCurrent(World, p) /\ Connected(p.caller)
                     THEN [again |-> p.again, same |-> m.serial = p.serial,
                           held |-> LET ca == ent[m.eid].auth["pos"] IN
                                    ca.owner = m.owner /\ p.epoch \in {0, ca.epoch},
                           unowned |-> p.epoch = 0]
                     ELSE None
        /\ UNCHANGED <<conf, world, staged, sent, degraded, starts, histories>>

(***************************************************************************)
(* Threshold transactions: prepare, preload_ready, commit, adopt, abort, in *)
(* any order, by the region's worker.                                      *)
(***************************************************************************)
\* threshold.tx has the epoch of pos, but no connection is granted it: a frame without
\* an epoch is not checked against any.
MayThreshold(w, e, supplied) ==
    /\ Does("threshold") /\ Connected(w) /\ ~degraded /\ e \in conf.ids
    /\ RegionOwner(w, e) /\ supplied \in {0, ent[e].auth["pos"].epoch}

SetTx(e, tx) ==
    /\ ent' = [ent EXCEPT ![e].tx = tx]
    /\ disk' = [disk EXCEPT ![e].tx = tx]

ThresholdPhase(w, e, phase, supplied) ==
    /\ MayThreshold(w, e, supplied)
    /\ SetTx(e, IF phase \in {"adopt", "abort"} THEN None ELSE phase)
    /\ UNCHANGED <<conf, workers, staged, commands, degraded, starts, histories>>

ThresholdCommit(w, e, to, supplied) ==
    LET old == Serves[ent[e].region]
        new == IF to = None THEN None ELSE Serves[to]
        region == IF to = None THEN ent[e].region ELSE to
        auth == Advance(ent[e].auth, old, new)
        Committed(es) == [es EXCEPT ![e] = [@ EXCEPT !.tx = "commit", !.region = region, !.auth = auth]]
        s == [World EXCEPT !.ent = Committed(ent)]
        move == [eid |-> e, moved |-> Moved(ent[e].auth, old), old |-> old, new |-> new]
        moves == region # ent[e].region
    IN  /\ MayThreshold(w, e, supplied) /\ Bounded(e)
        /\ disk' = Committed(disk)
        /\ Becomes(IF moves THEN Transfer(s, {move}) ELSE s)
        /\ NoteUntold(IF moves THEN AclGrants(new, e) ELSE {e} \X move.moved)
        /\ NoteOvertaken
        /\ UNCHANGED <<conf, staged, commands, degraded, starts, blind, unlogged>>

\* gc_threshold_timeouts.
ThresholdTimeout(e) ==
    /\ Does("threshold") /\ ~degraded
    /\ ent[e].tx \in {"prepare", "preload_ready"}
    /\ SetTx(e, None)
    /\ UNCHANGED <<conf, workers, staged, commands, degraded, starts, histories>>

(***************************************************************************)
(* A restart: every connection is gone, and a threshold that had not       *)
(* committed.                                                              *)
(***************************************************************************)
RecoveredUnfenced == [e \in Entities |->
                        [disk[e] EXCEPT !.auth = InitialAuthority(e, conf),
                                        !.tx = IF @ = "commit" THEN @ ELSE None]]
Recovered == [e \in Entities |->
                [disk[e] EXCEPT !.tx = IF @ = "commit" THEN @ ELSE None]]
Restart ==
    /\ starts < conf.starts
    /\ starts' = starts + 1
    /\ ent' = Recovered
    /\ disk' = disk
    /\ workers' = [w \in Workers |-> None]
    /\ updates' = <<>> /\ handoffs' = <<>>
    /\ pending' = [r \in Requests |-> None]
    /\ inbox' = {} /\ answer' = None
    /\ degraded' = FALSE
    /\ untold' = {} /\ unlogged' = {}
    /\ UNCHANGED <<conf, sent, overtaken, blind>>

Init ==
    /\ conf \in Deployments
    /\ ent = [e \in Entities |-> [pos |-> conf.spot[e], region |-> conf.home, tx |-> None,
                                  auth |-> InitialAuthority(e, conf)]]
    /\ disk = ent
    /\ workers = [w \in Workers |-> None]
    /\ updates = <<>> /\ handoffs = <<>>
    /\ pending = [r \in Requests |-> None] /\ inbox = {} /\ sent = 0 /\ answer = None
    /\ degraded = FALSE /\ starts = 0
    /\ overtaken = {} /\ untold = {} /\ blind = FALSE /\ unlogged = {}

Epochs(e, c) == {0, ent[e].auth[c].epoch}
Next ==
    \/ \E w \in Workers :
          \/ Connect(w) \/ Disconnect(w)
          \/ \E e \in Entities :
                \/ Interest(w, e)
                \/ \E x \in Spots :
                      \/ UpdateComponent(w, e, x)
                      \/ \E other \in Entities, written \in 0 .. 2 :
                            ContactRisk(w, e, x, other, written)
                \/ \E r \in Requests : CommandRequest(w, e, r)
                \/ \E supplied \in Epochs(e, "pos") :
                      \/ \E phase \in {"prepare", "preload_ready", "adopt", "abort"} :
                            ThresholdPhase(w, e, phase, supplied)
                      \/ \E to \in Regions \cup {None} : ThresholdCommit(w, e, to, supplied)
    \/ \E e \in Entities :
          \/ \E c \in Comps, s \in conf.sets :
                \E expected \in Epochs(e, c) : SetComponentAuthority(e, c, s[1], s[2], expected)
          \/ \E to \in Regions : QueueHandoff(e, to)
          \/ ThresholdTimeout(e)
    \/ \E m \in inbox : CommandResponse(m)
    \/ Flush \/ FlushFails \/ Restart

Spec == Init /\ [][Next]_vars

(***************************************************************************)
(* Properties.                                                             *)
(***************************************************************************)
AuthorityType == [Comps -> [owner : Workers \cup {None}, epoch : Nat \ {0}, mode : Modes]]
EntityType ==
    [pos : Spots, region : Regions, tx : {None, "prepare", "preload_ready", "commit"},
     auth : AuthorityType]
HandleType == {None} \cup [view : SUBSET Entities, cache : [Keys -> Nat]]
HandoffType == [eid : Entities, to : Regions, pos : Spots, auth : AuthorityType,
                moved : SUBSET Comps, old : Workers, new : Workers]
PendingType == {None} \cup [caller : Workers, serial : Nat, eid : Entities, owner : Workers,
                           epoch : Nat, again : BOOLEAN]

\* The types of the variables.
TypeOK ==
    /\ conf \in Deployments
    /\ ent \in [Entities -> EntityType] /\ disk \in [Entities -> EntityType]
    /\ workers \in [Workers -> HandleType]
    /\ updates \in Seq([eid : Entities, pos : Spots]) /\ handoffs \in Seq(HandoffType)
    /\ pending \in [Requests -> PendingType]
    /\ inbox \subseteq [req : Requests, serial : Nat, eid : Entities, owner : Workers]
    /\ sent \in Nat /\ starts \in Nat /\ degraded \in BOOLEAN /\ blind \in BOOLEAN
    /\ overtaken \subseteq Entities /\ unlogged \subseteq Entities
    /\ untold \subseteq Workers \X Keys

\* A connection that was told it has the authority over a component has it: it is the
\* owner, at the epoch it was given.  Otherwise its writes are rejected while nobody
\* else may write.  The code does not keep this when the authority changes under a
\* staged hand-off, whose older map then replaces it; when a threshold commits without
\* a move; and when a client the ACL names checks the entity out while another client,
\* or the arbiter of a contact, holds the component, which is not told.
HeldIsCurrent ==
    \A w \in Workers, e \in Entities \ overtaken, c \in Comps :
        <<w, <<e, c>>>> \in untold \/ Told(w, <<e, c>>)

\* A fencing epoch never goes back, across restarts either: a frame of an old holder
\* would pass the fence again.  The exceptions are the map of a hand-off that was
\* staged before the authority moved, and an escalation the log does not have.
EpochsOnlyGrow ==
    [][\A e \in Entities, c \in Comps :
          e \notin overtaken \cup unlogged => ent'[e].auth[c].epoch >= ent[e].auth[c].epoch]_vars

\* An answer that reaches a caller is one to this request, by the holder it was routed
\* to while it still holds the authority.  A command that was routed by region alone
\* is not checked against an owner granted since; and an id that is used again while
\* the same worker still has an older command of that id gets the older answer.
AnswerFromHolder ==
    answer # None => (answer.same \/ answer.again) /\ (answer.held \/ answer.unowned)

\* Two clients never drive their bodies into contact: while both write sparsely the
\* bodies are apart.  The check reads what is published, so two writes of one
\* window do not see each other; and a component may become sparse again by a staged
\* map that is older than the contact, or by the administrator, who is taken to look
\* first.
ContactApart ==
    \A e, o \in conf.ids :
        (/\ e # o /\ ~blind /\ {e, o} \cap overtaken = {}
         /\ ent[e].auth["pos"].mode = "sparse" /\ ent[o].auth["pos"].mode = "sparse")
            => Distance(ent[e].pos, ent[o].pos) > ContactRadius
=============================================================================
