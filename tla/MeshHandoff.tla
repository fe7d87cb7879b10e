---------------------------- MODULE MeshHandoff ----------------------------
(***************************************************************************)
(* Brokers hand entities across process seams.                             *)
(*                                                                         *)
(* A broker logs and fsyncs the departure (mesh_out), forgets the entity,  *)
(* parks the hand-off and sends it, again and again, over its link to the  *)
(* target, which logs and fsyncs a register and answers MeshAck; the ack   *)
(* is logged (mesh_acked) and releases the parked hand-off.  A fence, the  *)
(* epoch an entity last left at, tells resends of an old hop from a new    *)
(* hand-off.  Every broker owns one region, named after it.                *)
(*                                                                         *)
(* An entity is its authority epoch (0 where it is not).  As in Durability *)
(* the log is the store it replays to and the stores its crash-surviving   *)
(* prefixes replay to; every record here is fsynced by its own handler.    *)
(***************************************************************************)
EXTENDS Naturals, Sequences, FiniteSets

CONSTANTS
    Brokers, Entities,
    None,
    Compaction,             \* GW_WAL_COMPACT_BYTES > 0
    Failures,               \* a write or an fsync may fail
    MaxEpoch, MaxLease, MaxQueue   \* bounds of the model, none in the code

ASSUME MeshBounds ==
    /\ MaxEpoch \in Nat /\ MaxLease \in Nat \ {0} /\ MaxQueue \in Nat \ {0}
    /\ Compaction \in BOOLEAN /\ Failures \in BOOLEAN
    /\ None \notin Brokers

Links == {l \in Brokers \X Brokers : l[1] # l[2]}
\* A MeshHandoff frame.  A MeshAck carries the entity alone on the wire: its
\* epoch is here for the properties and no action reads it.
Frame == [e : Entities, epoch : Nat, lease : Nat]
AckFrame == [e : Entities, epoch : Nat]
Parked == [to : Brokers, epoch : Nat, lease : Nat]

ASSUME MeshNone == None \notin Parked

VARIABLES
    ram,         \* the store of each broker
    logged,      \* the store its whole log replays to
    mayRecover,  \* the stores the crash-surviving prefixes of the log replay to
    degraded,    \* wal_degraded
    lease,       \* the lease epoch of the broker's incarnation, and its registry file's
    known,       \* region_lease_epoch: what it knows of the others' leases
    up,          \* links that state.mesh holds a sender for
    frames,      \* hand-offs in flight on each link, in order
    acks,        \* acks in flight back on each link, in order
    handle,      \* whose connection is workers["mesh-link-<broker>"]
    dying,       \* broken links whose receiver has not torn them down yet
    misled       \* history: the entities some broker has taken a late ack for

disk == <<logged, mayRecover, degraded>>
wire == <<up, frames, acks, handle, dying>>
leases == <<lease, known>>
vars == <<ram, disk, leases, wire, misled>>

Store == [owned : [Entities -> Nat], forwarded : [Entities -> Nat],
          pending : [Entities -> Parked \cup {None}], deleted : SUBSET Entities]

TypeOK ==
    /\ ram \in [Brokers -> Store]
    /\ logged \in [Brokers -> Store]
    /\ mayRecover \in [Brokers -> SUBSET Store]
    /\ degraded \in [Brokers -> BOOLEAN]
    /\ lease \in [Brokers -> Nat] /\ known \in [Brokers -> [Brokers -> Nat]]
    /\ up \in SUBSET Links /\ dying \in SUBSET Links
    /\ frames \in [Links -> Seq(Frame)] /\ acks \in [Links -> Seq(AckFrame)]
    /\ handle \in [Brokers -> Brokers \cup {None}]
    /\ misled \in SUBSET Entities

\* Every entity starts registered at some broker, at epoch 1.
InitialStore(b, home) ==
    [owned |-> [e \in Entities |-> IF home[e] = b THEN 1 ELSE 0],
     forwarded |-> [e \in Entities |-> 0],
     pending |-> [e \in Entities |-> None], deleted |-> {}]
Init ==
    /\ \E home \in [Entities -> Brokers] :
          ram = [b \in Brokers |-> InitialStore(b, home)]
    /\ logged = ram /\ mayRecover = [b \in Brokers |-> {ram[b]}]
    /\ degraded = [b \in Brokers |-> FALSE]
    /\ lease = [b \in Brokers |-> 1]
    /\ known = [b \in Brokers |-> [c \in Brokers |-> 0]]
    /\ up = {} /\ dying = {}
    /\ frames = [l \in Links |-> <<>>] /\ acks = [l \in Links |-> <<>>]
    /\ handle = [b \in Brokers |-> None]
    /\ misled = {}

(***************************************************************************)
(* Records, as replay applies them, and the log.                           *)
(***************************************************************************)
DepartedUnfenced(s, e, p) == [s EXCEPT !.owned[e] = 0, !.pending[e] = p]
Departed(s, e, p) ==
    [s EXCEPT !.owned[e] = 0, !.pending[e] = p,
              !.forwarded[e] = IF p.epoch > @ THEN p.epoch ELSE @]
\* mesh_acked drops whatever copy of the entity the store holds.
AckReplayed(s, e) == [s EXCEPT !.owned[e] = 0, !.pending[e] = None]
RegisteredAtDefault(s, e, epoch) ==
    IF e \in s.deleted THEN s ELSE [s EXCEPT !.owned[e] = 1, !.forwarded[e] = 0]
Registered(s, e, epoch) ==
    IF e \in s.deleted THEN s ELSE [s EXCEPT !.owned[e] = epoch, !.forwarded[e] = 0]
Tombstoned(s, e) ==
    [s EXCEPT !.owned[e] = 0, !.forwarded[e] = 0, !.deleted = @ \cup {e}]
Granted(s, e, epoch) == IF s.owned[e] = 0 THEN s ELSE [s EXCEPT !.owned[e] = epoch]

\* A record is appended and fsynced; or is not: the broker fails closed and the
\* line may be in the file.
Durably(b, store) ==
    /\ logged' = [logged EXCEPT ![b] = store]
    /\ mayRecover' = [mayRecover EXCEPT ![b] = {store}]
    /\ UNCHANGED degraded
NotDurably(b, store) ==
    /\ Failures
    /\ degraded' = [degraded EXCEPT ![b] = TRUE]
    /\ \/ UNCHANGED <<logged, mayRecover>>
       \/ /\ logged' = [logged EXCEPT ![b] = store]
          /\ mayRecover' = [mayRecover EXCEPT ![b] = @ \cup {store}]

(***************************************************************************)
(* The source: departures, resends, acks.                                  *)
(***************************************************************************)
Send(b, e, p) ==
    frames' = IF <<b, p.to>> \in up
              THEN [frames EXCEPT ![<<b, p.to>>] =
                       Append(@, [e |-> e, epoch |-> p.epoch, lease |-> p.lease])]
              ELSE frames

\* mesh_forward, from a crossing write, a re-route or a drain; not gated by
\* wal_degraded.
Forward(b, c, e) ==
    /\ <<b, c>> \in up /\ Len(frames[<<b, c>>]) < MaxQueue
    /\ ram[b].owned[e] # 0 /\ ram[b].owned[e] < MaxEpoch
    /\ LET p == [to |-> c, epoch |-> ram[b].owned[e] + 1, lease |-> lease[b]]
       IN  \/ /\ Durably(b, Departed(logged[b], e, p))
              /\ ram' = [ram EXCEPT ![b] = Departed(@, e, p)]
              /\ Send(b, e, p)
           \/ /\ NotDurably(b, Departed(logged[b], e, p))
              /\ UNCHANGED <<ram, frames>>
    /\ UNCHANGED <<leases, up, acks, handle, dying, misled>>

\* Every monitor tick sends what has been parked for a second again, verbatim.
Resend(b, e) ==
    LET p == ram[b].pending[e] IN
    /\ p # None /\ <<b, p.to>> \in up /\ Len(frames[<<b, p.to>>]) < MaxQueue
    /\ Send(b, e, p)
    /\ UNCHANGED <<ram, disk, leases, up, acks, handle, dying, misled>>

\* An ack comes late if its broker owns the entity again, or its log says it does
\* (a register whose fsync failed), or it has parked it again at another epoch.
Late(b, ack) ==
    \/ ram[b].owned[ack.e] # 0 \/ logged[b].owned[ack.e] # 0
    \/ ram[b].pending[ack.e] # None /\ ram[b].pending[ack.e].epoch # ack.epoch

\* record_mesh_ack, straight from the link's reader: whatever is parked for the
\* entity goes, and the record is written even when nothing is.
ReceiveAck(l) ==
    /\ acks[l] # <<>>
    /\ LET b == l[1]
           e == Head(acks[l]).e
       IN \/ /\ Durably(b, AckReplayed(logged[b], e))
             /\ ram' = [ram EXCEPT ![b].pending[e] = None]
          \/ /\ NotDurably(b, AckReplayed(logged[b], e))
             /\ UNCHANGED ram
    /\ acks' = [acks EXCEPT ![l] = Tail(@)]
    /\ misled' = IF Late(l[1], Head(acks[l])) THEN misled \cup {Head(acks[l]).e}
                                                 ELSE misled
    /\ UNCHANGED <<leases, up, frames, handle, dying>>

(***************************************************************************)
(* The target: the MeshHandoff handler, one action per way out.            *)
(***************************************************************************)
\* emit to the handler's worker id, "mesh-link-<c>": the ack goes to whichever
\* broker's connection holds that id now, or nowhere.
Reply(l, epoch) ==
    LET c == l[2]
        back == <<handle[c], c>>
        ack == [e |-> Head(frames[l]).e, epoch |-> epoch]
    IN  IF back \in up
        THEN Len(acks[back]) < MaxQueue /\ acks' = [acks EXCEPT ![back] = Append(@, ack)]
        ELSE acks' = acks

\* The fence of the sender's incarnation: the frame's lease epoch is older than
\* the one the registry told this broker of.
StaleLease(l) == Head(frames[l]).lease < known[l[2]][l[1]]
FencedOff(s, f) == s.forwarded[f.e] # 0 /\ f.epoch <= s.forwarded[f.e]
\* Parked here and no fence to compare with: taken for a stale resend.
Unfenced(s, f) == s.forwarded[f.e] = 0 /\ s.pending[f.e] # None

Delivered(l) ==
    /\ frames[l] # <<>>
    /\ frames' = [frames EXCEPT ![l] = Tail(@)]
    /\ UNCHANGED <<leases, up, handle, dying, misled>>

Refuse(l) ==
    /\ Delivered(l)
    /\ degraded[l[2]] \/ StaleLease(l)
    /\ UNCHANGED <<ram, disk, acks>>

StaleIgnored(l) ==
    LET f == Head(frames[l])
        s == ram[l[2]]
    IN  /\ Delivered(l)
        /\ ~degraded[l[2]] /\ ~StaleLease(l)
        /\ f.e \in s.deleted \/ FencedOff(s, f) \/ Unfenced(s, f)
        /\ UNCHANGED <<ram, disk, acks>>
\* A tombstoned entity, or one already forwarded at this epoch or a later one:
\* answered, not adopted.
AckStale(l) ==
    LET f == Head(frames[l])
        s == ram[l[2]]
    IN  /\ Delivered(l)
        /\ ~degraded[l[2]] /\ ~StaleLease(l)
        /\ f.e \in s.deleted \/ FencedOff(s, f) \/ Unfenced(s, f)
        /\ Reply(l, f.epoch)
        /\ UNCHANGED <<ram, disk>>

\* A resend of what is already here: answered if epochs agree, else refused.
AckPresent(l) ==
    LET f == Head(frames[l])
        s == ram[l[2]]
    IN  /\ Delivered(l)
        /\ ~degraded[l[2]] /\ ~StaleLease(l) /\ f.e \notin s.deleted
        /\ s.owned[f.e] # 0 /\ s.forwarded[f.e] = 0 /\ s.pending[f.e] = None
        /\ IF s.owned[f.e] = f.epoch THEN Reply(l, f.epoch) ELSE UNCHANGED acks
        /\ UNCHANGED <<ram, disk>>

\* A new hand-off.  One that comes back while the entity is still parked here
\* acknowledges the parked one first, behind a barrier of its own; then the
\* entity is registered.  A failed register forgets the fence all the same.
Adopt(l) ==
    LET f == Head(frames[l])
        c == l[2]
        s == ram[c]
        parked == s.pending[f.e] # None
        acked == IF parked THEN AckReplayed(logged[c], f.e) ELSE logged[c]
        released == [s EXCEPT !.pending[f.e] = None]
    IN  /\ Delivered(l)
        /\ ~degraded[c] /\ ~StaleLease(l) /\ f.e \notin s.deleted
        /\ ~FencedOff(s, f) /\ ~Unfenced(s, f) /\ s.owned[f.e] = 0
        /\ \/ /\ Durably(c, Registered(acked, f.e, f.epoch))
              /\ ram' = [ram EXCEPT ![c] = Registered(released, f.e, f.epoch)]
              /\ Reply(l, f.epoch)
           \/ /\ parked /\ NotDurably(c, acked)
              /\ UNCHANGED <<ram, acks>>
           \/ /\ Failures
              /\ degraded' = [degraded EXCEPT ![c] = TRUE]
              /\ \E last \in {acked, Registered(acked, f.e, f.epoch)} :
                    /\ logged' = [logged EXCEPT ![c] = last]
                    /\ mayRecover' = [mayRecover EXCEPT ![c] =
                          (IF parked THEN {acked} ELSE @) \cup {last}]
              /\ ram' = [ram EXCEPT ![c] = [released EXCEPT !.forwarded[f.e] = 0]]
              /\ UNCHANGED acks

(***************************************************************************)
(* What else happens to an entity a broker owns.                           *)
(***************************************************************************)
\* An authority change inside the broker.
AdvanceEpoch(b, e) ==
    /\ ~degraded[b] /\ ram[b].owned[e] # 0 /\ ram[b].owned[e] < MaxEpoch
    /\ LET epoch == ram[b].owned[e] + 1 IN
       \/ /\ Durably(b, Granted(logged[b], e, epoch))
          /\ ram' = [ram EXCEPT ![b].owned[e] = epoch]
       \/ /\ NotDurably(b, Granted(logged[b], e, epoch)) /\ UNCHANGED ram
    /\ UNCHANGED <<leases, wire, misled>>

DeleteEntity(b, e) ==
    /\ ~degraded[b] /\ ram[b].owned[e] # 0
    /\ \/ /\ Durably(b, Tombstoned(logged[b], e))
          /\ ram' = [ram EXCEPT ![b] = Tombstoned(@, e)]
       \/ NotDurably(b, Tombstoned(logged[b], e)) /\ UNCHANGED ram
    /\ UNCHANGED <<leases, wire, misled>>

\* Registers, tombstones and the fences of absent entities; what is parked has
\* no record in the new file.
Snapshot(s) ==
    [s EXCEPT !.pending = [e \in Entities |-> None],
              !.forwarded = [e \in Entities |->
                  IF s.owned[e] # 0 \/ e \in s.deleted THEN 0 ELSE @[e]]]
Compact(b) ==
    /\ Compaction /\ ~degraded[b] /\ logged[b] # Snapshot(ram[b])
    /\ Durably(b, Snapshot(ram[b])) \/ NotDurably(b, Snapshot(ram[b]))
    /\ UNCHANGED <<ram, leases, wire, misled>>

(***************************************************************************)
(* Links, leases and restarts.                                             *)
(***************************************************************************)
\* The target registers the connection under an id that names the target, so
\* it takes the handle over from any other source's connection.
Connect(l) ==
    /\ l \notin up
    /\ up' = up \cup {l}
    /\ handle' = [handle EXCEPT ![l[2]] = l[1]]
    /\ UNCHANGED <<ram, disk, leases, frames, acks, dying, misled>>

Break(l) ==
    /\ l \in up
    /\ up' = up \ {l} /\ dying' = dying \cup {l}
    /\ frames' = [frames EXCEPT ![l] = <<>>] /\ acks' = [acks EXCEPT ![l] = <<>>]
    /\ UNCHANGED <<ram, disk, leases, handle, misled>>

\* The target's handler ends and removes the worker id, whoever holds it.
Teardown(l) ==
    /\ l \in dying
    /\ dying' = dying \ {l}
    /\ handle' = [handle EXCEPT ![l[2]] = None]
    /\ UNCHANGED <<ram, disk, leases, up, frames, acks, misled>>

\* The registry tick reads the epoch in the region's file.
Learn(c, b) ==
    /\ b # c /\ lease[b] > known[c][b]
    /\ known' = [known EXCEPT ![c][b] = lease[b]]
    /\ UNCHANGED <<ram, disk, lease, wire, misled>>

\* What a broker starts from: the parked hand-offs are the mesh_out records with
\* no mesh_acked, as they were logged, lease epoch included.
RecoveredWithoutParked(s) == [s EXCEPT !.pending = [e \in Entities |-> None]]
Recovered(s) == s

\* The broker goes down and comes back from a crash-surviving prefix of its
\* log, parked hand-offs included, as a new incarnation: its lease epoch is one
\* more than the registry's, and its first heartbeat writes it there at once.
Restart(b) ==
    /\ lease[b] < MaxLease
    /\ \E s \in mayRecover[b] :
          /\ ram' = [ram EXCEPT ![b] = Recovered(s)]
          /\ logged' = [logged EXCEPT ![b] = s]
          /\ mayRecover' = [mayRecover EXCEPT ![b] = {s}]
    /\ degraded' = [degraded EXCEPT ![b] = FALSE]
    /\ lease' = [lease EXCEPT ![b] = @ + 1]
    /\ known' = [known EXCEPT ![b] = [c \in Brokers |-> 0]]
    /\ LET cut == {l \in Links : b \in {l[1], l[2]}} IN
       /\ up' = up \ cut
       /\ dying' = {l \in dying \cup (up \cap cut) : l[2] # b}
       /\ frames' = [l \in Links |-> IF l \in cut THEN <<>> ELSE frames[l]]
       /\ acks' = [l \in Links |-> IF l \in cut THEN <<>> ELSE acks[l]]
    /\ handle' = [handle EXCEPT ![b] = None]
    /\ UNCHANGED misled

Next ==
    \/ \E b \in Brokers, e \in Entities :
          \/ Resend(b, e) \/ AdvanceEpoch(b, e) \/ DeleteEntity(b, e)
          \/ \E c \in Brokers \ {b} : Forward(b, c, e)
    \/ \E l \in Links :
          \/ Refuse(l) \/ AckStale(l) \/ AckPresent(l) \/ Adopt(l) \/ ReceiveAck(l)
          \/ Connect(l) \/ Break(l) \/ Teardown(l)
    \/ \E b \in Brokers : Compact(b) \/ Restart(b)
    \/ \E b, c \in Brokers : Learn(c, b)

Spec == Init /\ [][Next]_vars

\* Timers fire (Resend, Learn, the link task's reconnect) and handlers
\* run (WF); a link that keeps coming up stays up long enough, now and then, for
\* what is sent on it (SF).
Deliver(l) == Refuse(l) \/ AckStale(l) \/ AckPresent(l) \/ Adopt(l)
Fairness ==
    /\ \A l \in Links : /\ SF_vars(Deliver(l)) /\ SF_vars(ReceiveAck(l))
                        /\ WF_vars(Connect(l)) /\ WF_vars(Teardown(l))
    /\ \A b \in Brokers, e \in Entities : SF_vars(Resend(b, e))
    /\ \A b, c \in Brokers : WF_vars(Learn(c, b))
FairSpec == Spec /\ Fairness

(***************************************************************************)
(* Properties.                                                             *)
(***************************************************************************)
\* What broker b has, or may have after a crash.
Copies(b) == {ram[b]} \cup mayRecover[b]
Deleted(e) == \E b \in Brokers : \E s \in Copies(b) : e \in s.deleted

\* No two brokers own an entity, in RAM or in what either comes back with: a
\* departure is durable before it is sent, and a resend never brings back what
\* left (mesh_forward, mesh_forwarded_epoch; "must not create double
\* ownership"), unless a late ack was taken for its new stay: with three brokers
\* a crash may then forget the stay and its fence, and a resend be adopted again.
SingleOwnerUnlessMisled ==
    \A b, c \in Brokers : b # c =>
        \A s \in Copies(b), t \in Copies(c), e \in Entities \ misled :
            s.owned[e] = 0 \/ t.owned[e] = 0

\* An owner's epoch is the newest there is: none of the brokers the entity has
\* left, and no hand-off in flight, is ahead of it, so a writer is unique at an
\* epoch (with the same exception).
OwnerIsNewestUnlessMisled ==
    \A b \in Brokers, e \in Entities \ misled : ram[b].owned[e] # 0 =>
        /\ \A c \in Brokers : ram[c].forwarded[e] <= ram[b].owned[e]
        /\ \A l \in Links : \A i \in DOMAIN frames[l] :
              frames[l][i].e = e => frames[l][i].epoch <= ram[b].owned[e]

\* An entity nobody deleted is somewhere, owned or parked, in RAM and at a
\* broker whose every crash outcome still has it: no departure, resend, ack or
\* restart drops it ("or silently drop a durable pending transition"), unless a
\* late ack was taken for its new stay.
Holds(s, e) == s.owned[e] # 0 \/ s.pending[e] # None
NothingLostFor(e) ==
    Deleted(e) \/ /\ \E b \in Brokers : Holds(ram[b], e)
                  /\ \E b \in Brokers : \A s \in mayRecover[b] : Holds(s, e)
NothingLostUnlessMisled == \A e \in Entities \ misled : NothingLostFor(e)

\* A parked hand-off that stays parked for good ("re-sent until confirmed") is
\* refused over and over, for a reason the handler has: its target owns the entity
\* at another epoch, fails closed, knows a newer lease of this broker, or has
\* another connection, or none, under this link's id.
Parks(b, e) == ram[b].pending[e] # None
Refused(b, e) ==
    LET p == ram[b].pending[e] IN
    /\ p # None
    /\ \/ ram[p.to].owned[e] \notin {0, p.epoch}
       \/ degraded[p.to] \/ known[p.to][b] > p.lease
       \/ <<b, p.to>> \in up /\ handle[p.to] # b
StuckOnlyIfRefused ==
    \A b \in Brokers, e \in Entities : <>[]Parks(b, e) => []<>Refused(b, e)
=============================================================================
