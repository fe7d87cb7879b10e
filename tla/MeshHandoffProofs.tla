------------------------- MODULE MeshHandoffProofs -------------------------
(***************************************************************************)
(* Theorems of MeshHandoff, for every set of brokers and of entities and   *)
(* every bound, with or without failures.                                  *)
(***************************************************************************)
EXTENDS MeshHandoff, SequenceTheorems, TLAPS

(***************************************************************************)
(* The inductive invariant.                                                *)
(***************************************************************************)
\* What a broker's log may come back as includes what it logged, and until a
\* barrier fails nothing else.
LogSound ==
    \A b \in Brokers : /\ logged[b] \in mayRecover[b]
                       /\ ~degraded[b] => mayRecover[b] = {logged[b]}

\* An entity that is here is neither parked, fenced nor deleted here; what is
\* parked is bound elsewhere, at the epoch of its fence.
WellFormed(b, s, e) ==
    /\ s.owned[e] # 0 => s.forwarded[e] = 0 /\ s.pending[e] = None /\ e \notin s.deleted
    /\ s.pending[e] # None => /\ s.pending[e].to # b
                              /\ s.pending[e].epoch > 0
                              /\ s.pending[e].epoch = s.forwarded[e]

\* Until a barrier fails the log says of e what RAM says; a compaction may have
\* left out what is parked, and the fence of what is deleted.
LogAgrees(b, e) ==
    ~degraded[b] =>
        /\ logged[b].owned[e] = ram[b].owned[e]
        /\ (e \in logged[b].deleted <=> e \in ram[b].deleted)
        /\ e \notin ram[b].deleted => logged[b].forwarded[e] = ram[b].forwarded[e]
        /\ logged[b].pending[e] \in {None, ram[b].pending[e]}

\* The store s is past epoch k of e: a hand-off at k is not adopted there.
Past(s, e, k) ==
    \/ e \in s.deleted
    \/ s.forwarded[e] # 0 /\ k <= s.forwarded[e]
    \/ s.owned[e] # 0 /\ k <= s.owned[e]
\* Broker b is past it, whatever it comes back as.
Seen(b, e, k) == \A s \in mayRecover[b] : Past(s, e, k)
Gone(b, e) == \A s \in mayRecover[b] : e \in s.deleted

\* A hand-off, and an ack, of e at epoch k is in flight on l.
Flying(l, e, k) ==
    \E i \in DOMAIN frames[l] : frames[l][i].e = e /\ frames[l][i].epoch = k
Answered(l, e, k) ==
    \E i \in DOMAIN acks[l] : acks[l][i].e = e /\ acks[l][i].epoch = k

SourceMay(s, e, r) ==
    /\ s.owned[e] \in {0, r, r + 1} /\ s.forwarded[e] <= r + 1
    /\ s.pending[e] # None => s.pending[e].epoch = r + 1
    /\ e \in s.deleted \/ s.owned[e] # 0 \/ s.pending[e] # None
\* Broker h owns e: a crash may bring it back there as it is, one epoch later,
\* parked or deleted; nobody else has it, and whatever is parked or in flight
\* elsewhere its target is past.
Held(h, e) ==
    LET r == ram[h].owned[e] IN
    /\ r # 0
    /\ \A s \in mayRecover[h] : SourceMay(s, e, r)
    /\ \A x \in Brokers \ {h} : \A s \in Copies(x) :
          /\ s.owned[e] = 0 /\ s.forwarded[e] <= r
          /\ s.pending[e] # None => Seen(s.pending[e].to, e, s.pending[e].epoch)
    /\ \A l \in Links, k \in Nat :
          /\ Flying(l, e, k) => k <= r /\ Seen(l[2], e, k)
          /\ Answered(l, e, k) => k <= r

\* Broker h has handed e to c at epoch k, and c has not answered: only c may come
\* back with it, and whatever else is parked or in flight is older and seen.
Moving(h, c, k, e) ==
    /\ h # c /\ k > 0
    /\ \A x \in Brokers : ram[x].owned[e] = 0
    /\ \A x \in Brokers : \A s \in mayRecover[x] :
          s.owned[e] # 0 => x = c /\ s.owned[e] = k
    /\ \A x \in Brokers : \A s \in Copies(x) :
          /\ s.forwarded[e] <= k /\ (x # h => s.forwarded[e] < k)
          /\ s.pending[e] # None =>
                LET p == s.pending[e] IN
                \/ p.epoch < k /\ Seen(p.to, e, p.epoch)
                \/ x = h /\ p.to = c /\ p.epoch = k
    /\ \A l \in Links, j \in Nat :
          /\ Flying(l, e, j) => \/ j < k /\ Seen(l[2], e, j)
                                \/ l = <<h, c>> /\ j = k
          /\ Answered(l, e, j) => j < k

\* Nobody has it and nothing brings it back.
Quiet(e) ==
    /\ \A x \in Brokers : \A s \in Copies(x) :
          /\ s.owned[e] = 0
          /\ s.pending[e] # None => Seen(s.pending[e].to, e, s.pending[e].epoch)
    /\ \A l \in Links, k \in Nat : Flying(l, e, k) => Seen(l[2], e, k)

\* The hand-off of e is parked at h, for c, at epoch k, whatever h comes back as.
StaysParked(h, c, k, e) ==
    \A s \in Copies(h) : /\ s.pending[e] # None
                         /\ s.pending[e].to = c /\ s.pending[e].epoch = k

Settled(e) ==
    \/ \E h \in Brokers : Held(h, e)
    \/ \E h, c \in Brokers, k \in Nat : Moving(h, c, k, e)
    \/ Quiet(e)

\* Without compaction, what is not deleted for good is owned or parked.
Kept(e) ==
    \/ \E b \in Brokers : Gone(b, e)
    \/ \E h \in Brokers : Held(h, e)
    \/ \E h, c \in Brokers, k \in Nat : Moving(h, c, k, e) /\ StaysParked(h, c, k, e)

EntitySound(e) ==
    /\ \A b \in Brokers : \A s \in Copies(b) : WellFormed(b, s, e)
    /\ \A b \in Brokers : LogAgrees(b, e)
    /\ \A b \in Brokers : e \in ram[b].deleted => Gone(b, e)
    /\ Settled(e)
    /\ ~Compaction => Kept(e)

Inv == TypeOK /\ LogSound /\ \A e \in Entities \ misled : EntitySound(e)

(***************************************************************************)
(* The records: what each does to its entity, and that it leaves the       *)
(* others alone.                                                           *)
(***************************************************************************)
SameAt(s, t, e) ==
    /\ s.owned[e] = t.owned[e] /\ s.forwarded[e] = t.forwarded[e]
    /\ s.pending[e] = t.pending[e] /\ (e \in s.deleted <=> e \in t.deleted)
SameElsewhere(s, t, e) == \A d \in Entities \ {e} : SameAt(s, t, d)

\* mesh_out takes the entity away, parks the hand-off and raises the fence.
LEMMA DepartedIs ==
    ASSUME NEW s \in Store, NEW e \in Entities, NEW p \in Parked
    PROVE  LET t == Departed(s, e, p) IN
           /\ t \in Store /\ SameElsewhere(s, t, e)
           /\ t.owned[e] = 0 /\ t.pending[e] = p /\ t.deleted = s.deleted
           /\ t.forwarded[e] = IF p.epoch > s.forwarded[e] THEN p.epoch ELSE s.forwarded[e]
BY DEF Departed, Store, SameElsewhere, SameAt, Parked

\* mesh_acked drops the parked hand-off and whatever copy there is.
LEMMA AckReplayedIs ==
    ASSUME NEW s \in Store, NEW e \in Entities
    PROVE  LET t == AckReplayed(s, e) IN
           /\ t \in Store /\ SameElsewhere(s, t, e)
           /\ t.owned[e] = 0 /\ t.pending[e] = None /\ t.deleted = s.deleted
           /\ t.forwarded[e] = s.forwarded[e]
BY DEF AckReplayed, Store, SameElsewhere, SameAt

\* In RAM an ack releases the parked hand-off and touches nothing else.
LEMMA ReleasedIs ==
    ASSUME NEW s \in Store, NEW e \in Entities
    PROVE  LET t == [s EXCEPT !.pending[e] = None] IN
           /\ t \in Store /\ SameElsewhere(s, t, e)
           /\ t.owned[e] = s.owned[e] /\ t.pending[e] = None /\ t.deleted = s.deleted
           /\ t.forwarded[e] = s.forwarded[e]
BY DEF Store, SameElsewhere, SameAt

\* A register that failed has cleared the fence and nothing else.
LEMMA UnfencedIs ==
    ASSUME NEW s \in Store, NEW e \in Entities
    PROVE  LET t == [s EXCEPT !.forwarded[e] = 0] IN
           /\ t \in Store /\ SameElsewhere(s, t, e)
           /\ t.owned[e] = s.owned[e] /\ t.pending[e] = s.pending[e] /\ t.deleted = s.deleted
           /\ t.forwarded[e] = 0
BY DEF Store, SameElsewhere, SameAt

\* A register brings the entity and clears its fence, unless it is deleted.
LEMMA RegisteredIs ==
    ASSUME NEW s \in Store, NEW e \in Entities, NEW k \in Nat
    PROVE  LET t == Registered(s, e, k) IN
           /\ t \in Store /\ SameElsewhere(s, t, e) /\ t.deleted = s.deleted
           /\ e \in s.deleted => t = s
           /\ e \notin s.deleted => /\ t.owned[e] = k /\ t.forwarded[e] = 0
                                     /\ t.pending[e] = s.pending[e]
BY DEF Registered, Store, SameElsewhere, SameAt

\* A tombstone takes the entity and its fence; what is parked stays.
LEMMA TombstonedIs ==
    ASSUME NEW s \in Store, NEW e \in Entities
    PROVE  LET t == Tombstoned(s, e) IN
           /\ t \in Store /\ SameElsewhere(s, t, e)
           /\ t.owned[e] = 0 /\ t.forwarded[e] = 0 /\ t.pending[e] = s.pending[e]
           /\ t.deleted = s.deleted \cup {e}
BY DEF Tombstoned, Store, SameElsewhere, SameAt

\* A grant moves the epoch of an entity that is here.
LEMMA GrantedIs ==
    ASSUME NEW s \in Store, NEW e \in Entities, NEW k \in Nat
    PROVE  LET t == Granted(s, e, k) IN
           /\ t \in Store /\ SameElsewhere(s, t, e) /\ t.deleted = s.deleted
           /\ t.owned[e] = IF s.owned[e] = 0 THEN 0 ELSE k
           /\ t.forwarded[e] = s.forwarded[e] /\ t.pending[e] = s.pending[e]
BY DEF Granted, Store, SameElsewhere, SameAt

\* A compacted log keeps everything but what is parked and spent fences.
LEMMA SnapshotIs ==
    ASSUME NEW s \in Store
    PROVE  LET t == Snapshot(s) IN
           /\ t \in Store /\ t.deleted = s.deleted
           /\ \A e \in Entities :
                 /\ t.owned[e] = s.owned[e] /\ t.pending[e] = None
                 /\ t.forwarded[e] =
                       IF s.owned[e] # 0 \/ e \in s.deleted THEN 0 ELSE s.forwarded[e]
BY DEF Snapshot, Store

(***************************************************************************)
(* Types.                                                                  *)
(***************************************************************************)
\* A barrier keeps the types, and what the log may come back as.
LEMMA Barrier ==
    ASSUME TypeOK, LogSound, NEW b \in Brokers, NEW store \in Store,
           Durably(b, store) \/ NotDurably(b, store)
    PROVE  /\ logged' \in [Brokers -> Store] /\ mayRecover' \in [Brokers -> SUBSET Store]
           /\ degraded' \in [Brokers -> BOOLEAN] /\ LogSound'
<1>1. logged' \in [Brokers -> Store] /\ degraded' \in [Brokers -> BOOLEAN]
    BY DEF TypeOK, Durably, NotDurably
<1>2. mayRecover' \in [Brokers -> SUBSET Store]
    <2>1. CASE mayRecover' = [mayRecover EXCEPT ![b] = {store}]
        BY <2>1 DEF TypeOK
    <2>2. CASE mayRecover' = [mayRecover EXCEPT ![b] = @ \cup {store}]
        BY <2>2 DEF TypeOK
    <2> QED
        BY <2>1, <2>2 DEF Durably, NotDurably, TypeOK
<1>3. LogSound'
    <2>1. CASE Durably(b, store)
        BY <2>1 DEF TypeOK, LogSound, Durably
    <2>2. CASE NotDurably(b, store)
        BY <2>2 DEF TypeOK, LogSound, NotDurably
    <2> QED
        BY <2>1, <2>2
<1> QED
    BY <1>1, <1>2, <1>3

\* What is sent is a frame.
LEMMA SendType ==
    ASSUME TypeOK, NEW b \in Brokers, NEW e \in Entities, NEW p \in Parked, Send(b, e, p)
    PROVE  frames' \in [Links -> Seq(Frame)]
<1>1. CASE <<b, p.to>> \in up
    <2>1. <<b, p.to>> \in Links /\ [e |-> e, epoch |-> p.epoch, lease |-> p.lease] \in Frame
        BY <1>1 DEF TypeOK, Frame, Parked
    <2> QED
        BY <1>1, <2>1 DEF Send, TypeOK
<1> QED
    BY <1>1 DEF Send, TypeOK

\* The head of a queue of hand-offs.
LEMMA FrameType ==
    ASSUME TypeOK, NEW l \in Links, frames[l] # <<>>
    PROVE  /\ Head(frames[l]) \in Frame /\ Head(frames[l]).e \in Entities
           /\ Head(frames[l]).epoch \in Nat
           /\ l[1] \in Brokers /\ l[2] \in Brokers /\ l = <<l[1], l[2]>> /\ l[1] # l[2]
<1>1. frames[l] \in Seq(Frame)
    BY DEF TypeOK
<1>2. Head(frames[l]) \in Frame
    BY <1>1
<1>3. l[1] \in Brokers /\ l[2] \in Brokers /\ l = <<l[1], l[2]>> /\ l[1] # l[2]
    BY DEF Links
<1> QED
    BY <1>2, <1>3 DEF Frame

\* The head of a queue of acks.
LEMMA AckType ==
    ASSUME TypeOK, NEW l \in Links, acks[l] # <<>>
    PROVE  /\ Head(acks[l]) \in AckFrame /\ Head(acks[l]).e \in Entities
           /\ Head(acks[l]).epoch \in Nat
           /\ l[1] \in Brokers /\ l[2] \in Brokers /\ l = <<l[1], l[2]>> /\ l[1] # l[2]
<1>1. acks[l] \in Seq(AckFrame)
    BY DEF TypeOK
<1>2. Head(acks[l]) \in AckFrame
    BY <1>1
<1>3. l[1] \in Brokers /\ l[2] \in Brokers /\ l = <<l[1], l[2]>> /\ l[1] # l[2]
    BY DEF Links
<1> QED
    BY <1>2, <1>3 DEF AckFrame

\* What is answered is an ack.
LEMMA ReplyType ==
    ASSUME TypeOK, NEW l \in Links, frames[l] # <<>>, NEW k \in Nat, Reply(l, k)
    PROVE  acks' \in [Links -> Seq(AckFrame)]
<1>1. CASE <<handle[l[2]], l[2]>> \in up
    <2>1. <<handle[l[2]], l[2]>> \in Links /\ [e |-> Head(frames[l]).e, epoch |-> k] \in AckFrame
        BY <1>1, FrameType DEF TypeOK, AckFrame
    <2>2. acks' = [acks EXCEPT ![<<handle[l[2]], l[2]>>] =
                      Append(@, [e |-> Head(frames[l]).e, epoch |-> k])]
        BY <1>1 DEF Reply
    <2>3. acks \in [Links -> Seq(AckFrame)]
        BY DEF TypeOK
    <2> QED
        BY <2>1, <2>2, <2>3
<1> QED
    BY <1>1 DEF Reply, TypeOK

\* The brokers start with their types, each log saying what RAM does.
LEMMA InitTypes == ASSUME Init PROVE TypeOK /\ LogSound
<1>1. \A home \in [Entities -> Brokers], b \in Brokers : InitialStore(b, home) \in Store
    BY DEF InitialStore, Store
<1>2. ram \in [Brokers -> Store]
    BY <1>1 DEF Init
<1>3. \A l \in Links : <<>> \in Seq(Frame) /\ <<>> \in Seq(AckFrame)
    OBVIOUS
<1> QED
    BY <1>2, <1>3 DEF Init, TypeOK, LogSound

\* Every handler keeps the types and the shape of the log.
LEMMA StepTypes == ASSUME TypeOK, LogSound, [Next]_vars PROVE TypeOK' /\ LogSound'
<1>1. ASSUME NEW b \in Brokers, NEW c \in Brokers \ {b}, NEW e \in Entities, Forward(b, c, e)
      PROVE  TypeOK' /\ LogSound'
    <2> DEFINE p == [to |-> c, epoch |-> ram[b].owned[e] + 1, lease |-> lease[b]]
    <2>1. p \in Parked /\ ram[b] \in Store /\ logged[b] \in Store
        <3>1. ram[b] \in Store /\ logged[b] \in Store /\ lease[b] \in Nat
            BY DEF TypeOK
        <3>2. ram[b].owned[e] + 1 \in Nat
            BY <3>1 DEF Store
        <3> QED
            BY <3>1, <3>2 DEF Parked
    <2>2. Departed(ram[b], e, p) \in Store /\ Departed(logged[b], e, p) \in Store
        BY <2>1, DepartedIs
    <2>3. /\ Durably(b, Departed(logged[b], e, p)) \/ NotDurably(b, Departed(logged[b], e, p))
          /\ ram' = ram \/ ram' = [ram EXCEPT ![b] = Departed(@, e, p)]
          /\ Send(b, e, p) \/ UNCHANGED frames
          /\ UNCHANGED <<lease, known, up, acks, handle, dying, misled>>
        BY <1>1 DEF Forward, leases
    <2>4. ram' \in [Brokers -> Store]
        BY <2>2, <2>3 DEF TypeOK
    <2>5. frames' \in [Links -> Seq(Frame)]
        BY <2>1, <2>3, SendType DEF TypeOK
    <2> QED
        BY <2>2, <2>3, <2>4, <2>5, Barrier DEF TypeOK
<1>2. ASSUME NEW b \in Brokers, NEW e \in Entities, Resend(b, e)
      PROVE  TypeOK' /\ LogSound'
    <2>1. ram[b].pending[e] \in Parked
        BY <1>2 DEF Resend, TypeOK, Store
    <2> QED
        BY <1>2, <2>1, SendType DEF Resend, TypeOK, LogSound, disk, leases
<1>3. ASSUME NEW b \in Brokers, NEW e \in Entities, AdvanceEpoch(b, e)
      PROVE  TypeOK' /\ LogSound'
    <2> DEFINE k == ram[b].owned[e] + 1
    <2>1. k \in Nat /\ ram[b] \in Store /\ logged[b] \in Store
        BY DEF TypeOK, Store
    <2>2. Granted(logged[b], e, k) \in Store /\ [ram[b] EXCEPT !.owned[e] = k] \in Store
        <3>1. [ram[b] EXCEPT !.owned[e] = k] \in Store
            BY <2>1 DEF Store
        <3> QED
            BY <2>1, <3>1, GrantedIs
    <2>3. /\ Durably(b, Granted(logged[b], e, k)) \/ NotDurably(b, Granted(logged[b], e, k))
          /\ ram' = ram \/ ram' = [ram EXCEPT ![b] = [ram[b] EXCEPT !.owned[e] = k]]
          /\ UNCHANGED <<lease, known, up, frames, acks, handle, dying, misled>>
        BY <1>3 DEF AdvanceEpoch, leases, wire
    <2>4. ram' \in [Brokers -> Store]
        BY <2>2, <2>3 DEF TypeOK
    <2> QED
        BY <2>2, <2>3, <2>4, Barrier DEF TypeOK
<1>4. ASSUME NEW b \in Brokers, NEW e \in Entities, DeleteEntity(b, e)
      PROVE  TypeOK' /\ LogSound'
    <2>1. Tombstoned(logged[b], e) \in Store /\ Tombstoned(ram[b], e) \in Store
        BY TombstonedIs DEF TypeOK
    <2>2. /\ Durably(b, Tombstoned(logged[b], e)) \/ NotDurably(b, Tombstoned(logged[b], e))
          /\ ram' = ram \/ ram' = [ram EXCEPT ![b] = Tombstoned(@, e)]
          /\ UNCHANGED <<lease, known, up, frames, acks, handle, dying, misled>>
        BY <1>4 DEF DeleteEntity, leases, wire
    <2>3. ram' \in [Brokers -> Store]
        BY <2>1, <2>2 DEF TypeOK
    <2> QED
        BY <2>1, <2>2, <2>3, Barrier DEF TypeOK
<1>5. ASSUME NEW b \in Brokers, Compact(b)
      PROVE  TypeOK' /\ LogSound'
    <2>1. Snapshot(ram[b]) \in Store
        BY SnapshotIs DEF TypeOK
    <2> QED
        BY <1>5, <2>1, Barrier DEF Compact, TypeOK, leases, wire
<1>6. ASSUME NEW b \in Brokers, Restart(b)
      PROVE  TypeOK' /\ LogSound'
    <2>1. PICK s \in mayRecover[b] :
             /\ ram' = [ram EXCEPT ![b] = s] /\ logged' = [logged EXCEPT ![b] = s]
             /\ mayRecover' = [mayRecover EXCEPT ![b] = {s}]
        BY <1>6 DEF Restart, Recovered
    <2>2. s \in Store
        BY DEF TypeOK
    <2>3. /\ degraded' = [degraded EXCEPT ![b] = FALSE]
          /\ lease' = [lease EXCEPT ![b] = @ + 1]
          /\ known' = [known EXCEPT ![b] = [c \in Brokers |-> 0]]
          /\ handle' = [handle EXCEPT ![b] = None] /\ UNCHANGED misled
          /\ up' \subseteq up /\ dying' \subseteq dying \cup up
          /\ frames' \in [Links -> Seq(Frame)] /\ acks' \in [Links -> Seq(AckFrame)]
        <3>1. \A l \in Links : frames[l] \in Seq(Frame) /\ acks[l] \in Seq(AckFrame)
            BY DEF TypeOK
        <3>2. <<>> \in Seq(Frame) /\ <<>> \in Seq(AckFrame)
            OBVIOUS
        <3> QED
            BY <1>6, <3>1, <3>2 DEF Restart
    <2>4. LogSound'
        BY <2>1, <2>3 DEF LogSound, TypeOK
    <2> QED
        BY <2>1, <2>2, <2>3, <2>4 DEF TypeOK
<1>7. ASSUME NEW b \in Brokers, NEW c \in Brokers, Learn(c, b)
      PROVE  TypeOK' /\ LogSound'
    BY <1>7 DEF Learn, TypeOK, LogSound, disk, wire
<1>8. ASSUME NEW l \in Links, Refuse(l) \/ AckStale(l) \/ AckPresent(l)
      PROVE  TypeOK' /\ LogSound'
    <2>1. /\ Delivered(l) /\ UNCHANGED <<ram, disk>>
          /\ UNCHANGED acks \/ Reply(l, Head(frames[l]).epoch)
        BY <1>8 DEF Refuse, AckStale, AckPresent
    <2>2. acks' \in [Links -> Seq(AckFrame)]
        BY <2>1, ReplyType, FrameType DEF Delivered, TypeOK
    <2>3. frames' \in [Links -> Seq(Frame)]
        BY <2>1 DEF Delivered, TypeOK
    <2> QED
        BY <2>1, <2>2, <2>3 DEF Delivered, TypeOK, LogSound, disk, leases
<1>9. ASSUME NEW l \in Links, Adopt(l)
      PROVE  TypeOK' /\ LogSound'
    <2> DEFINE f == Head(frames[l])
               c == l[2]
               acked == IF ram[c].pending[f.e] # None THEN AckReplayed(logged[c], f.e)
                                                      ELSE logged[c]
               released == [ram[c] EXCEPT !.pending[f.e] = None]
               store == Registered(acked, f.e, f.epoch)
    <2>1. Delivered(l) /\ frames[l] # <<>>
        BY <1>9 DEF Adopt, Delivered
    <2>2. f.e \in Entities /\ f.epoch \in Nat /\ c \in Brokers
        BY <2>1, FrameType
    <2>3. ram[c] \in Store /\ logged[c] \in Store
        BY <2>2 DEF TypeOK
    <2>4. acked \in Store /\ released \in Store
        BY <2>2, <2>3, AckReplayedIs, ReleasedIs
    <2>5. store \in Store /\ Registered(released, f.e, f.epoch) \in Store
          /\ [released EXCEPT !.forwarded[f.e] = 0] \in Store
        BY <2>2, <2>4, RegisteredIs, UnfencedIs
    <2>6. acks' \in [Links -> Seq(AckFrame)]
        <3>1. UNCHANGED acks \/ Reply(l, f.epoch)
            BY <1>9 DEF Adopt
        <3> QED
            BY <2>1, <2>2, <3>1, ReplyType DEF TypeOK
    <2>7. frames' \in [Links -> Seq(Frame)] /\ UNCHANGED <<leases, up, handle, dying, misled>>
        BY <2>1 DEF Delivered, TypeOK
    <2>8. ram' \in [Brokers -> Store]
        <3>1. \/ ram' = ram \/ ram' = [ram EXCEPT ![c] = Registered(released, f.e, f.epoch)]
              \/ ram' = [ram EXCEPT ![c] = [released EXCEPT !.forwarded[f.e] = 0]]
            BY <1>9 DEF Adopt
        <3> HIDE DEF released, acked, store, c
        <3> QED
            BY <2>2, <2>5, <3>1 DEF TypeOK
    <2>9. /\ logged' \in [Brokers -> Store] /\ mayRecover' \in [Brokers -> SUBSET Store]
          /\ degraded' \in [Brokers -> BOOLEAN] /\ LogSound'
        <3>1. \/ Durably(c, store) \/ NotDurably(c, acked)
              \/ \E last \in {acked, store}, rest \in {{acked}, mayRecover[c]} :
                    /\ degraded' = [degraded EXCEPT ![c] = TRUE]
                    /\ logged' = [logged EXCEPT ![c] = last]
                    /\ mayRecover' = [mayRecover EXCEPT ![c] = rest \cup {last}]
            BY <1>9 DEF Adopt
        <3> HIDE DEF acked, store, c
        <3>2. CASE Durably(c, store) \/ NotDurably(c, acked)
            BY <2>2, <2>4, <2>5, <3>2, Barrier
        <3>3. ASSUME NEW last \in {acked, store}, NEW rest \in {{acked}, mayRecover[c]},
                     degraded' = [degraded EXCEPT ![c] = TRUE],
                     logged' = [logged EXCEPT ![c] = last],
                     mayRecover' = [mayRecover EXCEPT ![c] = rest \cup {last}]
              PROVE  /\ logged' \in [Brokers -> Store]
                     /\ mayRecover' \in [Brokers -> SUBSET Store]
                     /\ degraded' \in [Brokers -> BOOLEAN] /\ LogSound'
            <4>1. last \in Store /\ rest \in SUBSET Store
                BY <2>2, <2>4, <2>5 DEF TypeOK
            <4> QED
                BY <2>2, <3>3, <4>1 DEF TypeOK, LogSound
        <3> QED
            BY <3>1, <3>2, <3>3
    <2> QED
        BY <2>6, <2>7, <2>8, <2>9 DEF TypeOK, leases
<1>10. ASSUME NEW l \in Links, ReceiveAck(l)
       PROVE  TypeOK' /\ LogSound'
    <2> DEFINE b == l[1]
               e == Head(acks[l]).e
    <2>1. b \in Brokers /\ e \in Entities
        BY <1>10, AckType DEF ReceiveAck
    <2>2. AckReplayed(logged[b], e) \in Store /\ [ram[b] EXCEPT !.pending[e] = None] \in Store
        BY <2>1, AckReplayedIs, ReleasedIs DEF TypeOK
    <2>3. /\ Durably(b, AckReplayed(logged[b], e)) \/ NotDurably(b, AckReplayed(logged[b], e))
          /\ ram' = ram \/ ram' = [ram EXCEPT ![b] = [ram[b] EXCEPT !.pending[e] = None]]
        BY <1>10 DEF ReceiveAck
    <2>4. /\ acks' = [acks EXCEPT ![l] = Tail(@)] /\ misled' \subseteq misled \cup {e}
          /\ acks[l] # <<>> /\ UNCHANGED <<lease, known, up, frames, handle, dying>>
        BY <1>10 DEF ReceiveAck, leases
    <2>5. acks' \in [Links -> Seq(AckFrame)] /\ misled' \in SUBSET Entities
        BY <2>1, <2>4 DEF TypeOK
    <2>6. ram' \in [Brokers -> Store]
        <3> HIDE DEF b, e
        <3> QED
            BY <2>1, <2>2, <2>3 DEF TypeOK
    <2> HIDE DEF b, e
    <2> QED
        BY <2>1, <2>2, <2>3, <2>4, <2>5, <2>6, Barrier DEF TypeOK
<1>11. ASSUME NEW l \in Links, Connect(l) \/ Break(l) \/ Teardown(l)
       PROVE  TypeOK' /\ LogSound'
    <2>1. l[1] \in Brokers /\ l[2] \in Brokers /\ <<>> \in Seq(Frame) /\ <<>> \in Seq(AckFrame)
        BY DEF Links
    <2>2. UNCHANGED <<ram, disk, leases, misled>> /\ LogSound'
        BY <1>11 DEF Connect, Break, Teardown, LogSound, disk
    <2>3. /\ up' \in SUBSET Links /\ dying' \in SUBSET Links
          /\ handle' \in [Brokers -> Brokers \cup {None}]
        BY <1>11, <2>1 DEF Connect, Break, Teardown, TypeOK
    <2>4. frames' \in [Links -> Seq(Frame)] /\ acks' \in [Links -> Seq(AckFrame)]
        <3>1. \/ UNCHANGED <<frames, acks>>
              \/ frames' = [frames EXCEPT ![l] = <<>>] /\ acks' = [acks EXCEPT ![l] = <<>>]
            BY <1>11 DEF Connect, Break, Teardown
        <3> QED
            BY <2>1, <3>1 DEF TypeOK
    <2> QED
        BY <2>2, <2>3, <2>4 DEF TypeOK, disk, leases
<1>12. CASE UNCHANGED vars
    BY <1>12 DEF vars, disk, leases, wire, TypeOK, LogSound
<1> QED
    BY <1>1, <1>2, <1>3, <1>4, <1>5, <1>6, <1>7, <1>8, <1>9, <1>10, <1>11, <1>12 DEF Next

(***************************************************************************)
(* What is in flight.                                                      *)
(***************************************************************************)
LEMMA NothingNewInFlight ==
    ASSUME NEW l \in Links, NEW e, NEW k,
           frames'[l] = frames[l] \/ frames'[l] = <<>>,
           acks'[l] = acks[l] \/ acks'[l] = <<>>
    PROVE  /\ Flying(l, e, k)' => Flying(l, e, k)
           /\ Answered(l, e, k)' => Answered(l, e, k)
BY DEF Flying, Answered

\* An element of a longer queue was in it or is the new one.
LEMMA AppendIs ==
    ASSUME NEW S, NEW q \in Seq(S), NEW x \in S, NEW i \in DOMAIN Append(q, x)
    PROVE  (i \in DOMAIN q /\ Append(q, x)[i] = q[i]) \/ Append(q, x)[i] = x
OBVIOUS

\* An element of the rest of a queue was one place later in it.
LEMMA TailIs ==
    ASSUME NEW S, NEW q \in Seq(S), q # <<>>, NEW i \in DOMAIN Tail(q)
    PROVE  i + 1 \in DOMAIN q /\ Tail(q)[i] = q[i + 1]
OBVIOUS

\* A send puts in flight at most the hand-off that was parked.
LEMMA SendFlies ==
    ASSUME TypeOK, NEW b \in Brokers, NEW d \in Entities, NEW p \in Parked, Send(b, d, p),
           NEW l \in Links, NEW e \in Entities, NEW k \in Nat, Flying(l, e, k)'
    PROVE  Flying(l, e, k) \/ (e = d /\ l = <<b, p.to>> /\ k = p.epoch)
<1> DEFINE m == <<b, p.to>>
           f == [e |-> d, epoch |-> p.epoch, lease |-> p.lease]
<1>1. frames' = frames \/ (m \in up /\ frames' = [frames EXCEPT ![m] = Append(@, f)])
    BY DEF Send
<1>2. CASE frames'[l] = frames[l]
    BY <1>2 DEF Flying
<1>3. CASE frames'[l] # frames[l]
    <2>1. l = m /\ frames'[l] = Append(frames[l], f)
        BY <1>1, <1>3 DEF TypeOK
    <2>2. frames[l] \in Seq(Frame) /\ f \in Frame
        BY DEF TypeOK, Frame, Parked
    <2>3. PICK i \in DOMAIN frames'[l] : frames'[l][i].e = e /\ frames'[l][i].epoch = k
        BY DEF Flying
    <2>4. (i \in DOMAIN frames[l] /\ frames'[l][i] = frames[l][i]) \/ frames'[l][i] = f
        <3> HIDE DEF f
        <3> QED
            BY <2>1, <2>2, <2>3, AppendIs
    <2> QED
        BY <2>1, <2>3, <2>4 DEF Flying
<1> QED
    BY <1>2, <1>3

\* A delivery takes one hand-off and brings none.
LEMMA DeliveryFlies ==
    ASSUME TypeOK, NEW l \in Links, Delivered(l)
    PROVE  /\ Flying(l, Head(frames[l]).e, Head(frames[l]).epoch)
           /\ \A m \in Links : \A e, k : Flying(m, e, k)' => Flying(m, e, k)
<1>1. frames[l] \in Seq(Frame) /\ frames[l] # <<>> /\ frames' = [frames EXCEPT ![l] = Tail(@)]
    BY DEF TypeOK, Delivered
<1>2. Flying(l, Head(frames[l]).e, Head(frames[l]).epoch)
    BY <1>1 DEF Flying
<1>3. ASSUME NEW m \in Links, NEW e, NEW k, Flying(m, e, k)'
      PROVE  Flying(m, e, k)
    <2>1. CASE m # l
        BY <1>1, <1>3, <2>1 DEF Flying, TypeOK
    <2>2. CASE m = l
        <3>1. frames'[l] = Tail(frames[l])
            BY <1>1 DEF TypeOK
        <3>2. PICK i \in DOMAIN Tail(frames[l]) :
                 Tail(frames[l])[i].e = e /\ Tail(frames[l])[i].epoch = k
            BY <1>3, <2>2, <3>1 DEF Flying
        <3>3. i + 1 \in DOMAIN frames[l] /\ Tail(frames[l])[i] = frames[l][i + 1]
            BY <1>1, <3>2, TailIs
        <3> QED
            BY <2>2, <3>2, <3>3 DEF Flying
    <2> QED
        BY <2>1, <2>2
<1> QED
    BY <1>2, <1>3

\* A reply puts in flight at most the answer to the frame at hand.
LEMMA ReplyAnswers ==
    ASSUME TypeOK, NEW l \in Links, frames[l] # <<>>, NEW j \in Nat, Reply(l, j),
           NEW m \in Links, NEW e \in Entities, NEW k \in Nat, Answered(m, e, k)'
    PROVE  Answered(m, e, k) \/ (e = Head(frames[l]).e /\ k = j)
<1> DEFINE back == <<handle[l[2]], l[2]>>
           ack == [e |-> Head(frames[l]).e, epoch |-> j]
<1>1. acks' = acks \/ (back \in up /\ acks' = [acks EXCEPT ![back] = Append(@, ack)])
    BY DEF Reply
<1>2. CASE acks'[m] = acks[m]
    BY <1>2 DEF Answered
<1>3. CASE acks'[m] # acks[m]
    <2>1. acks'[m] = Append(acks[m], ack)
        BY <1>1, <1>3 DEF TypeOK
    <2>2. acks[m] \in Seq(AckFrame) /\ ack \in AckFrame
        BY FrameType DEF TypeOK, AckFrame
    <2>3. PICK i \in DOMAIN acks'[m] : acks'[m][i].e = e /\ acks'[m][i].epoch = k
        BY DEF Answered
    <2>4. (i \in DOMAIN acks[m] /\ acks'[m][i] = acks[m][i]) \/ acks'[m][i] = ack
        <3> HIDE DEF ack
        <3> QED
            BY <2>1, <2>2, <2>3, AppendIs
    <2> QED
        BY <2>3, <2>4 DEF Answered
<1> QED
    BY <1>2, <1>3

\* The reader of a link takes one ack and brings none.
LEMMA AckTaken ==
    ASSUME TypeOK, NEW l \in Links, acks[l] # <<>>, acks' = [acks EXCEPT ![l] = Tail(@)]
    PROVE  /\ Answered(l, Head(acks[l]).e, Head(acks[l]).epoch)
           /\ \A m \in Links : \A e, k : Answered(m, e, k)' => Answered(m, e, k)
<1>1. acks[l] \in Seq(AckFrame)
    BY DEF TypeOK
<1>2. Answered(l, Head(acks[l]).e, Head(acks[l]).epoch)
    BY <1>1 DEF Answered
<1>3. ASSUME NEW m \in Links, NEW e, NEW k, Answered(m, e, k)'
      PROVE  Answered(m, e, k)
    <2>1. CASE m # l
        BY <1>3, <2>1 DEF Answered, TypeOK
    <2>2. CASE m = l
        <3>1. acks'[l] = Tail(acks[l])
            BY DEF TypeOK
        <3>2. PICK i \in DOMAIN Tail(acks[l]) :
                 Tail(acks[l])[i].e = e /\ Tail(acks[l])[i].epoch = k
            BY <1>3, <2>2, <3>1 DEF Answered
        <3>3. i + 1 \in DOMAIN acks[l] /\ Tail(acks[l])[i] = acks[l][i + 1]
            BY <1>1, <3>2, TailIs
        <3> QED
            BY <2>2, <3>2, <3>3 DEF Answered
    <2> QED
        BY <2>1, <2>2
<1> QED
    BY <1>2, <1>3

\* What a broker has, or may come back as, is a store.
LEMMA CopyType ==
    ASSUME TypeOK, NEW b \in Brokers, NEW s \in Copies(b), NEW e \in Entities
    PROVE  /\ s \in Store /\ s.owned[e] \in Nat /\ s.forwarded[e] \in Nat
           /\ s.pending[e] # None => /\ s.pending[e] \in Parked /\ s.pending[e].to \in Brokers
                                     /\ s.pending[e].epoch \in Nat
<1>1. s \in Store
    BY DEF Copies, TypeOK
<1>2. s.pending[e] \in Parked \cup {None}
    BY <1>1 DEF Store
<1> QED
    BY <1>1, <1>2 DEF Store, Parked

\* The same after a step.
LEMMA CopyTypeNext ==
    ASSUME TypeOK', NEW b \in Brokers, NEW s \in Copies(b)', NEW e \in Entities
    PROVE  s \in Store /\ s.owned[e] \in Nat /\ s.forwarded[e] \in Nat
<1>1. ram'[b] \in Store /\ mayRecover'[b] \in SUBSET Store
    BY DEF TypeOK
<1>2. s \in Store
    BY <1>1 DEF Copies
<1> QED
    BY <1>2 DEF Store

(***************************************************************************)
(* An entity a step does not touch.                                        *)
(***************************************************************************)
Untouched(e) ==
    /\ \A b \in Brokers : SameAt(ram'[b], ram[b], e)
    /\ \A b \in Brokers : \A s \in mayRecover'[b] : \E t \in mayRecover[b] : SameAt(s, t, e)
    /\ \A b \in Brokers :
          ~degraded'[b] => ~degraded[b] /\ SameAt(logged'[b], logged[b], e)
    /\ \A l \in Links, k \in Nat : /\ Flying(l, e, k)' => Flying(l, e, k)
                                   /\ Answered(l, e, k)' => Answered(l, e, k)

\* An entity a step leaves alone in every store stays sound.
LEMMA UntouchedSound ==
    ASSUME TypeOK, NEW e \in Entities, EntitySound(e), Untouched(e)
    PROVE  EntitySound(e)'
<1>1. \A b \in Brokers : \A s \in Copies(b)' : \E t \in Copies(b) : SameAt(s, t, e)
    BY DEF Untouched, Copies
<1>2. \A b \in Brokers, k \in Nat : Seen(b, e, k) => Seen(b, e, k)'
    BY DEF Untouched, Seen, Past, SameAt
<1>3. \A b \in Brokers : Gone(b, e) => Gone(b, e)'
    BY DEF Untouched, Gone, SameAt
<1>4. \A b \in Brokers : \A s \in Copies(b) :
         s.pending[e] # None => s.pending[e].to \in Brokers /\ s.pending[e].epoch \in Nat
    BY CopyType
<1>5. \A b \in Brokers : \A s \in Copies(b)' : WellFormed(b, s, e)
    BY <1>1 DEF EntitySound, WellFormed, SameAt
<1>6. \A b \in Brokers : LogAgrees(b, e)'
    BY DEF EntitySound, LogAgrees, Untouched, SameAt
<1>7. \A b \in Brokers : e \in ram'[b].deleted => Gone(b, e)'
    BY <1>3 DEF EntitySound, Untouched, SameAt
<1>8. ASSUME NEW h \in Brokers, Held(h, e)
      PROVE  Held(h, e)'
    <2>1. ram'[h].owned[e] = ram[h].owned[e]
        BY DEF Untouched, SameAt
    <2>2. \A s \in mayRecover'[h] : SourceMay(s, e, ram[h].owned[e])
        BY <1>8 DEF Held, Untouched, SourceMay, SameAt
    <2>3. \A x \in Brokers \ {h} : \A s \in Copies(x)' :
             /\ s.owned[e] = 0 /\ s.forwarded[e] <= ram[h].owned[e]
             /\ s.pending[e] # None => Seen(s.pending[e].to, e, s.pending[e].epoch)'
        BY <1>1, <1>2, <1>4, <1>8 DEF Held, SameAt
    <2>4. \A l \in Links, k \in Nat :
             /\ Flying(l, e, k)' => k <= ram[h].owned[e] /\ Seen(l[2], e, k)'
             /\ Answered(l, e, k)' => k <= ram[h].owned[e]
        BY <1>2, <1>8 DEF Held, Untouched, Links
    <2> QED
        BY <1>8, <2>1, <2>2, <2>3, <2>4 DEF Held
<1>9. ASSUME NEW h \in Brokers, NEW c \in Brokers, NEW k \in Nat, Moving(h, c, k, e)
      PROVE  Moving(h, c, k, e)'
    <2>1. \A x \in Brokers : ram'[x].owned[e] = 0
        BY <1>9 DEF Moving, Untouched, SameAt
    <2>2. \A x \in Brokers : \A s \in mayRecover'[x] : s.owned[e] # 0 => x = c /\ s.owned[e] = k
        BY <1>9 DEF Moving, Untouched, SameAt
    <2>3. ASSUME NEW x \in Brokers, NEW s \in Copies(x)'
          PROVE  /\ s.forwarded[e] <= k /\ (x # h => s.forwarded[e] < k)
                 /\ s.pending[e] # None =>
                       LET p == s.pending[e] IN
                       \/ p.epoch < k /\ Seen(p.to, e, p.epoch)'
                       \/ x = h /\ p.to = c /\ p.epoch = k
        BY <1>1, <1>2, <1>4, <1>9 DEF Moving, SameAt
    <2>4. \A l \in Links, j \in Nat :
             /\ Flying(l, e, j)' => \/ j < k /\ Seen(l[2], e, j)'
                                    \/ l = <<h, c>> /\ j = k
             /\ Answered(l, e, j)' => j < k
        BY <1>2, <1>9 DEF Moving, Untouched, Links
    <2> QED
        BY <1>9, <2>1, <2>2, <2>3, <2>4 DEF Moving
<1>10. Quiet(e) => Quiet(e)'
    <2> SUFFICES ASSUME Quiet(e) PROVE Quiet(e)'
        OBVIOUS
    <2>1. ASSUME NEW x \in Brokers, NEW s \in Copies(x)'
          PROVE  /\ s.owned[e] = 0
                 /\ s.pending[e] # None => Seen(s.pending[e].to, e, s.pending[e].epoch)'
        BY <1>1, <1>2, <1>4 DEF Quiet, SameAt
    <2>2. \A l \in Links, k \in Nat : Flying(l, e, k)' => Seen(l[2], e, k)'
        BY <1>2 DEF Quiet, Untouched, Links
    <2> QED
        BY <2>1, <2>2 DEF Quiet
<1>11. Settled(e)'
    BY <1>8, <1>9, <1>10 DEF EntitySound, Settled
<1>12. ASSUME NEW h \in Brokers, NEW c \in Brokers, NEW k \in Nat, StaysParked(h, c, k, e)
       PROVE  StaysParked(h, c, k, e)'
    BY <1>1, <1>12 DEF StaysParked, SameAt
<1>13. ~Compaction => Kept(e)'
    BY <1>3, <1>8, <1>9, <1>12 DEF EntitySound, Kept
<1> QED
    BY <1>5, <1>6, <1>7, <1>11, <1>13 DEF EntitySound

\* A record about e leaves every other entity untouched.
LEMMA RecordUntouched ==
    ASSUME TypeOK, LogSound, NEW b \in Brokers, NEW e \in Entities, NEW d \in Entities \ {e},
           NEW store \in Store, NEW t \in Store,
           SameElsewhere(logged[b], store, e), SameElsewhere(ram[b], t, e),
           Durably(b, store) \/ NotDurably(b, store),
           ram' = ram \/ ram' = [ram EXCEPT ![b] = t],
           \A l \in Links, k \in Nat : /\ Flying(l, d, k)' => Flying(l, d, k)
                                       /\ Answered(l, d, k)' => Answered(l, d, k)
    PROVE  Untouched(d)
<1>1. /\ SameAt(store, logged[b], d) /\ SameAt(t, ram[b], d)
      /\ \A s : SameAt(s, s, d)
    BY DEF SameElsewhere, SameAt
<1>2. \A x \in Brokers : SameAt(ram'[x], ram[x], d)
    BY <1>1 DEF TypeOK
<1>3. \A x \in Brokers : \A s \in mayRecover'[x] : s \in mayRecover[x] \/ (x = b /\ s = store)
    BY DEF Durably, NotDurably, TypeOK
<1>4. logged[b] \in mayRecover[b]
    BY DEF LogSound
<1>5. \A x \in Brokers : \A s \in mayRecover'[x] : \E u \in mayRecover[x] : SameAt(s, u, d)
    BY <1>1, <1>3, <1>4
<1>6. \A x \in Brokers :
         ~degraded'[x] => ~degraded[x] /\ SameAt(logged'[x], logged[x], d)
    <2>1. CASE Durably(b, store)
        BY <2>1, <1>1 DEF Durably, TypeOK
    <2>2. CASE NotDurably(b, store)
        BY <2>2, <1>1 DEF NotDurably, TypeOK
    <2> QED
        BY <2>1, <2>2
<1> QED
    BY <1>2, <1>5, <1>6 DEF Untouched

\* A record that forgets no epoch of e and no deletion.
LEMMA RecordRemembers ==
    ASSUME TypeOK, LogSound, NEW b \in Brokers, NEW e \in Entities, NEW store \in Store,
           Durably(b, store) \/ NotDurably(b, store),
           \A j \in Nat : Past(logged[b], e, j) => Past(store, e, j),
           e \in logged[b].deleted => e \in store.deleted
    PROVE  /\ \A x \in Brokers, j \in Nat : Seen(x, e, j) => Seen(x, e, j)'
           /\ \A x \in Brokers : Gone(x, e) => Gone(x, e)'
           /\ \A x \in Brokers : \A s \in mayRecover'[x] :
                 s \in mayRecover[x] \/ (x = b /\ s = store)
<1>1. \A x \in Brokers : \A s \in mayRecover'[x] : s \in mayRecover[x] \/ (x = b /\ s = store)
    BY DEF Durably, NotDurably, TypeOK
<1>2. logged[b] \in mayRecover[b]
    BY DEF LogSound
<1> QED
    BY <1>1, <1>2 DEF Seen, Gone

\* The broker that owns a sound entity in RAM is the one that holds it.
LEMMA OwnerHolds ==
    ASSUME TypeOK, NEW b \in Brokers, NEW e \in Entities, EntitySound(e), ram[b].owned[e] # 0
    PROVE  Held(b, e)
BY DEF EntitySound, Settled, Held, Moving, Quiet, Copies

\* The store s has nothing of e that t has not.
Weaker(s, t, e) ==
    /\ s.owned[e] \in {0, t.owned[e]} /\ s.forwarded[e] <= t.forwarded[e]
    /\ s.pending[e] \in {None, t.pending[e]}

\* A store has nothing that it does not have.
LEMMA WeakerSelf ==
    ASSUME TypeOK, NEW b \in Brokers, NEW s \in Copies(b), NEW e \in Entities
    PROVE  Weaker(s, s, e)
BY CopyType DEF Weaker

\* What broker b owns it goes on owning, if its own log may only come back with
\* what a crash may make of that, the others gain nothing, and nothing newer or
\* unseen is in flight.
LEMMA HeldStays ==
    ASSUME TypeOK, TypeOK', NEW b \in Brokers, NEW e \in Entities, Held(b, e),
           NEW r \in Nat, r = ram'[b].owned[e], ram[b].owned[e] <= r,
           \A s \in mayRecover'[b] : SourceMay(s, e, r),
           \A x \in Brokers \ {b} : \A s \in Copies(x)' : \E t \in Copies(x) : Weaker(s, t, e),
           \A x \in Brokers, j \in Nat : Seen(x, e, j) => Seen(x, e, j)',
           \A l \in Links, j \in Nat :
              /\ Flying(l, e, j)' => Flying(l, e, j) \/ (j <= r /\ Seen(l[2], e, j))
              /\ Answered(l, e, j)' => Answered(l, e, j) \/ j <= r
    PROVE  Held(b, e)'
<1>1. ram[b].owned[e] \in Nat
    BY DEF TypeOK, Store
<1>2. ram'[b].owned[e] # 0
    BY <1>1 DEF Held
<1>3. ASSUME NEW x \in Brokers \ {b}, NEW s \in Copies(x)'
      PROVE  /\ s.owned[e] = 0 /\ s.forwarded[e] <= r
             /\ s.pending[e] # None => Seen(s.pending[e].to, e, s.pending[e].epoch)'
    <2>1. PICK t \in Copies(x) : Weaker(s, t, e)
        OBVIOUS
    <2>2. s.forwarded[e] \in Nat
        BY CopyTypeNext
    <2> QED
        BY <1>1, <2>1, <2>2, CopyType DEF Held, Weaker
<1>4. ASSUME NEW l \in Links, NEW j \in Nat
      PROVE  /\ Flying(l, e, j)' => j <= r /\ Seen(l[2], e, j)'
             /\ Answered(l, e, j)' => j <= r
    <2>1. l[2] \in Brokers
        BY DEF Links
    <2> QED
        BY <1>1, <2>1 DEF Held
<1> QED
    BY <1>2, <1>3, <1>4 DEF Held

\* What is under way from h to c stays so, if no broker gains anything of it but
\* what only c may come back with, and nothing newer or unseen is in flight.
LEMMA MovingStays ==
    ASSUME TypeOK, TypeOK', NEW h \in Brokers, NEW c \in Brokers, NEW k \in Nat,
           NEW e \in Entities, Moving(h, c, k, e),
           \A x \in Brokers : ram'[x].owned[e] = 0,
           \A x \in Brokers : \A s \in mayRecover'[x] :
              s.owned[e] # 0 => x = c /\ s.owned[e] = k,
           \A x \in Brokers : \A s \in Copies(x)' : \E t \in Copies(x) :
              /\ s.forwarded[e] <= t.forwarded[e] /\ s.pending[e] \in {None, t.pending[e]},
           \A x \in Brokers, j \in Nat : Seen(x, e, j) => Seen(x, e, j)',
           \A l \in Links, j \in Nat :
              /\ Flying(l, e, j)' => \/ Flying(l, e, j) \/ (j < k /\ Seen(l[2], e, j))
                                     \/ (l = <<h, c>> /\ j = k)
              /\ Answered(l, e, j)' => Answered(l, e, j) \/ j < k
    PROVE  Moving(h, c, k, e)'
<1>1. ASSUME NEW x \in Brokers, NEW s \in Copies(x)'
      PROVE  /\ s.forwarded[e] <= k /\ (x # h => s.forwarded[e] < k)
             /\ s.pending[e] # None =>
                   LET p == s.pending[e] IN
                   \/ p.epoch < k /\ Seen(p.to, e, p.epoch)'
                   \/ x = h /\ p.to = c /\ p.epoch = k
    <2>1. PICK t \in Copies(x) : /\ s.forwarded[e] <= t.forwarded[e]
                                 /\ s.pending[e] \in {None, t.pending[e]}
        OBVIOUS
    <2>2. s.forwarded[e] \in Nat /\ t.forwarded[e] \in Nat
        BY <2>1, CopyType, CopyTypeNext
    <2>3. t.forwarded[e] <= k /\ (x # h => t.forwarded[e] < k)
        BY <2>1 DEF Moving
    <2>4. ASSUME s.pending[e] # None
          PROVE  LET p == s.pending[e] IN
                 \/ p.epoch < k /\ Seen(p.to, e, p.epoch)'
                 \/ x = h /\ p.to = c /\ p.epoch = k
        <3>1. s.pending[e] = t.pending[e] /\ t.pending[e] # None
            BY <2>1, <2>4
        <3>2. t.pending[e].to \in Brokers /\ t.pending[e].epoch \in Nat
            BY <2>1, <3>1, CopyType
        <3> QED
            BY <2>1, <3>1, <3>2 DEF Moving
    <2> QED
        BY <2>1, <2>2, <2>3, <2>4
<1>2. ASSUME NEW l \in Links, NEW j \in Nat
      PROVE  /\ Flying(l, e, j)' => \/ j < k /\ Seen(l[2], e, j)'
                                    \/ l = <<h, c>> /\ j = k
             /\ Answered(l, e, j)' => j < k
    <2>1. l[2] \in Brokers
        BY DEF Links
    <2> QED
        BY <2>1 DEF Moving
<1>3. h # c /\ k > 0
    BY DEF Moving
<1> QED
    BY <1>1, <1>2, <1>3 DEF Moving

\* What nobody has nobody gets back, if no broker gains anything of it and
\* nothing unseen is in flight.
LEMMA QuietStays ==
    ASSUME TypeOK, NEW e \in Entities, Quiet(e),
           \A x \in Brokers : \A s \in Copies(x)' : \E t \in Copies(x) :
              /\ s.owned[e] \in {0, t.owned[e]} /\ s.pending[e] \in {None, t.pending[e]},
           \A x \in Brokers, j \in Nat : Seen(x, e, j) => Seen(x, e, j)',
           \A l \in Links, j \in Nat :
              Flying(l, e, j)' => Flying(l, e, j) \/ Seen(l[2], e, j)
    PROVE  Quiet(e)'
<1>1. ASSUME NEW x \in Brokers, NEW s \in Copies(x)'
      PROVE  /\ s.owned[e] = 0
             /\ s.pending[e] # None => Seen(s.pending[e].to, e, s.pending[e].epoch)'
    <2>1. PICK t \in Copies(x) :
             /\ s.owned[e] \in {0, t.owned[e]} /\ s.pending[e] \in {None, t.pending[e]}
        OBVIOUS
    <2> QED
        BY <2>1, CopyType DEF Quiet
<1>2. \A l \in Links, j \in Nat : Flying(l, e, j)' => Seen(l[2], e, j)'
    BY DEF Quiet, Links
<1> QED
    BY <1>1, <1>2 DEF Quiet

(***************************************************************************)
(* Departures, grants and deletes: the steps of an owner.                  *)
(***************************************************************************)
\* A departure that is durable puts e under way; one that fails leaves it held.
LEMMA ForwardSound ==
    ASSUME TypeOK, TypeOK', LogSound,
           NEW b \in Brokers, NEW c \in Brokers \ {b}, NEW e \in Entities,
           EntitySound(e), Forward(b, c, e)
    PROVE  EntitySound(e)'
<1>1. ram[b].owned[e] \in Nat \ {0} /\ lease[b] \in Nat /\ Held(b, e)
    <2>1. ram[b] \in Store /\ lease[b] \in Nat
        BY DEF TypeOK
    <2>2. ram[b].owned[e] \in Nat /\ ram[b].owned[e] # 0
        BY <2>1 DEF Store, Forward
    <2> QED
        BY <2>1, <2>2, OwnerHolds
<1>2. PICK r \in Nat \ {0}, k \in Nat, p \in Parked :
         /\ r = ram[b].owned[e] /\ k = r + 1
         /\ p = [to |-> c, epoch |-> k, lease |-> lease[b]]
    <2>1. [to |-> c, epoch |-> ram[b].owned[e] + 1, lease |-> lease[b]] \in Parked
        BY <1>1 DEF Parked
    <2> QED
        BY <1>1, <2>1
<1> DEFINE D == Departed(logged[b], e, p)
           R == Departed(ram[b], e, p)
<1>3. p.to = c /\ p.epoch = k /\ b # c /\ p # None
    BY <1>2, MeshNone
<1>4. ram[b] \in Store /\ logged[b] \in Store /\ logged[b] \in mayRecover[b]
    BY DEF TypeOK, LogSound
<1>5. /\ logged[b].forwarded[e] \in Nat /\ logged[b].forwarded[e] <= k
      /\ logged[b].owned[e] \in {0, r, k}
      /\ ram[b].forwarded[e] = 0 /\ e \notin ram[b].deleted /\ ram[b].pending[e] = None
    BY <1>2, <1>3, <1>1, <1>4 DEF Held, SourceMay, EntitySound, WellFormed, Copies, Store
<1>6. /\ D \in Store /\ D.owned[e] = 0 /\ D.pending[e] = p /\ D.forwarded[e] = k
      /\ D.deleted = logged[b].deleted
      /\ R \in Store /\ R.owned[e] = 0 /\ R.pending[e] = p /\ R.forwarded[e] = k
      /\ R.deleted = ram[b].deleted
    <2>1. p.epoch > logged[b].forwarded[e] \/ logged[b].forwarded[e] = k
        BY <1>2, <1>3, <1>5
    <2>2. p.epoch > ram[b].forwarded[e]
        BY <1>2, <1>3, <1>5
    <2> QED
        BY <1>2, <1>3, <1>4, <1>5, <2>1, <2>2, DepartedIs
<1>7. /\ \/ Durably(b, D) /\ ram' = [ram EXCEPT ![b] = R] /\ Send(b, e, p)
         \/ NotDurably(b, D) /\ UNCHANGED <<ram, frames>>
      /\ acks' = acks
    BY <1>2 DEF Forward
<1> HIDE DEF D, R
<1>8. /\ \A x \in Brokers, j \in Nat : Seen(x, e, j) => Seen(x, e, j)'
      /\ \A x \in Brokers : Gone(x, e) => Gone(x, e)'
      /\ \A x \in Brokers : \A s \in mayRecover'[x] : s \in mayRecover[x] \/ (x = b /\ s = D)
    <2>1. \A j \in Nat : Past(logged[b], e, j) => Past(D, e, j)
        BY <1>2, <1>3, <1>1, <1>5, <1>6 DEF Past
    <2> QED
        BY <1>6, <1>7, <2>1, RecordRemembers
<1>9. CASE NotDurably(b, D) /\ UNCHANGED <<ram, frames>>
    <2>1. \A x \in Brokers : \A s \in Copies(x)' : s \in Copies(x) \/ (x = b /\ s = D)
        BY <1>8, <1>9 DEF Copies
    <2>2. \A x \in Brokers : \A s \in Copies(x)' : WellFormed(x, s, e)
        BY <1>2, <1>3, <1>1, <1>6, <2>1 DEF EntitySound, WellFormed
    <2>3. \A x \in Brokers : LogAgrees(x, e)'
        <3>1. \A x \in Brokers : ~degraded'[x] => /\ ~degraded[x] /\ logged'[x] = logged[x]
                                                  /\ ram'[x] = ram[x]
            BY <1>9 DEF NotDurably, TypeOK
        <3> QED
            BY <3>1 DEF LogAgrees, EntitySound
    <2>4. \A x \in Brokers : e \in ram'[x].deleted => Gone(x, e)'
        BY <1>8, <1>9 DEF EntitySound
    <2>5. Held(b, e)'
        <3>1. ram'[b].owned[e] = r
            BY <1>2, <1>9
        <3>2. \A s \in mayRecover'[b] : SourceMay(s, e, r)
            BY <1>1, <1>2, <1>3, <1>6, <1>8 DEF Held, SourceMay
        <3>3. \A l \in Links, j \in Nat : /\ Flying(l, e, j)' => Flying(l, e, j)
                                          /\ Answered(l, e, j)' => Answered(l, e, j)
            BY <1>7, <1>9, NothingNewInFlight
        <3>4. \A x \in Brokers \ {b} : \A s \in Copies(x)' :
                 \E t \in Copies(x) : Weaker(s, t, e)
            BY <2>1, WeakerSelf
        <3>5. r \in Nat /\ r = ram'[b].owned[e] /\ ram[b].owned[e] <= r
            BY <1>2, <3>1
        <3>6. \A x \in Brokers, j \in Nat : Seen(x, e, j) => Seen(x, e, j)'
            BY <1>8
        <3> QED
            BY <1>1, <3>2, <3>3, <3>4, <3>5, <3>6, HeldStays
    <2> QED
        BY <2>2, <2>3, <2>4, <2>5 DEF EntitySound, Settled, Kept
<1>10. CASE Durably(b, D) /\ ram' = [ram EXCEPT ![b] = R] /\ Send(b, e, p)
    <2>1. /\ ram'[b] = R /\ mayRecover'[b] = {D} /\ logged'[b] = D
          /\ \A x \in Brokers \ {b} : /\ ram'[x] = ram[x] /\ mayRecover'[x] = mayRecover[x]
                                      /\ logged'[x] = logged[x]
          /\ degraded' = degraded
        BY <1>10 DEF Durably, TypeOK
    <2>2. /\ Copies(b)' = {R, D}
          /\ \A x \in Brokers \ {b} : Copies(x)' = Copies(x)
        BY <2>1 DEF Copies
    <2>3. \A x \in Brokers : \A s \in Copies(x)' : WellFormed(x, s, e)
        BY <1>2, <1>3, <1>1, <1>6, <2>2 DEF EntitySound, WellFormed
    <2>4. \A x \in Brokers : LogAgrees(x, e)'
        BY <1>6, <2>1 DEF LogAgrees, EntitySound
    <2>5. \A x \in Brokers : e \in ram'[x].deleted => Gone(x, e)'
        BY <1>5, <1>6, <1>8, <2>1 DEF EntitySound
    <2>6. Moving(b, c, k, e)'
        <3>1. b # c /\ k > 0 /\ k \in Nat
            BY <1>2, <1>3, <1>1
        <3>2. \A x \in Brokers : ram'[x].owned[e] = 0
            BY <1>2, <1>3, <1>1, <1>6, <2>1 DEF Held, Copies
        <3>3. \A x \in Brokers : \A s \in mayRecover'[x] : s.owned[e] = 0
            BY <1>2, <1>3, <1>1, <1>6, <2>1 DEF Held, Copies
        <3>4. ASSUME NEW x \in Brokers, NEW s \in Copies(x)'
              PROVE  /\ s.forwarded[e] <= k /\ (x # b => s.forwarded[e] < k)
                     /\ s.pending[e] # None =>
                           LET q == s.pending[e] IN
                           \/ q.epoch < k /\ Seen(q.to, e, q.epoch)'
                           \/ x = b /\ q.to = c /\ q.epoch = k
            <4>1. CASE x = b
                BY <1>2, <1>3, <1>1, <1>6, <2>2, <3>1, <4>1
            <4>2. CASE x # b
                <5>1. s \in Copies(x) /\ s.forwarded[e] <= r /\ s.forwarded[e] \in Nat
                    BY <1>2, <1>3, <1>1, <2>2, <4>2, CopyType DEF Held
                <5>2. ASSUME s.pending[e] # None
                      PROVE  /\ s.pending[e].epoch < k
                             /\ Seen(s.pending[e].to, e, s.pending[e].epoch)'
                    <6>1. /\ s.pending[e].to \in Brokers /\ s.pending[e].epoch \in Nat
                          /\ s.pending[e].epoch = s.forwarded[e]
                        BY <5>1, <5>2, CopyType DEF EntitySound, WellFormed
                    <6>2. Seen(s.pending[e].to, e, s.pending[e].epoch)
                        BY <1>2, <1>3, <1>1, <4>2, <5>1, <5>2 DEF Held
                    <6> QED
                        BY <1>2, <1>3, <1>1, <1>8, <5>1, <6>1, <6>2
                <5> QED
                    BY <1>2, <1>3, <1>1, <4>2, <5>1, <5>2
            <4> QED
                BY <4>1, <4>2
        <3>5. ASSUME NEW l \in Links, NEW j \in Nat
              PROVE  /\ Flying(l, e, j)' => \/ j < k /\ Seen(l[2], e, j)'
                                            \/ l = <<b, c>> /\ j = k
                     /\ Answered(l, e, j)' => j < k
            <4>1. Flying(l, e, j)' => Flying(l, e, j) \/ (l = <<b, c>> /\ j = k)
                BY <1>2, <1>3, <1>1, <1>10, SendFlies
            <4>2. Answered(l, e, j)' => Answered(l, e, j)
                BY <1>7 DEF Answered
            <4>3. l[2] \in Brokers
                BY DEF Links
            <4> QED
                BY <1>2, <1>3, <1>1, <1>8, <4>1, <4>2, <4>3 DEF Held
        <3> QED
            BY <3>1, <3>2, <3>3, <3>4, <3>5 DEF Moving
    <2>7. StaysParked(b, c, k, e)'
        BY <1>2, <1>3, <1>1, <1>6, <2>2 DEF StaysParked
    <2>8. k \in Nat
        BY <1>2, <1>3, <1>1
    <2> QED
        BY <2>3, <2>4, <2>5, <2>6, <2>7, <2>8 DEF EntitySound, Settled, Kept
<1> QED
    BY <1>7, <1>9, <1>10

\* AdvanceEpoch: the owner logs one epoch more and goes on owning.
LEMMA AdvanceSound ==
    ASSUME TypeOK, TypeOK', LogSound, NEW b \in Brokers, NEW e \in Entities,
           EntitySound(e), AdvanceEpoch(b, e)
    PROVE  EntitySound(e)'
<1>1. ram[b] \in Store /\ logged[b] \in Store /\ logged[b] \in mayRecover[b] /\ ~degraded[b]
    BY DEF TypeOK, LogSound, AdvanceEpoch
<1>2. ram[b].owned[e] \in Nat \ {0} /\ Held(b, e)
    <2>1. ram[b].owned[e] \in Nat /\ ram[b].owned[e] # 0
        BY <1>1 DEF AdvanceEpoch, Store
    <2> QED
        BY <2>1, OwnerHolds
<1>3. PICK r \in Nat \ {0}, k \in Nat : r = ram[b].owned[e] /\ k = r + 1
    BY <1>2
<1> DEFINE G == Granted(logged[b], e, k)
           R == Granted(ram[b], e, k)
<1>4. /\ logged[b].owned[e] = r /\ logged[b].forwarded[e] = 0 /\ logged[b].pending[e] = None
      /\ e \notin logged[b].deleted
      /\ ram[b].forwarded[e] = 0 /\ ram[b].pending[e] = None /\ e \notin ram[b].deleted
    BY <1>1, <1>3 DEF EntitySound, LogAgrees, WellFormed, Copies
<1>5. /\ G \in Store /\ G.owned[e] = k /\ G.forwarded[e] = 0 /\ G.pending[e] = None
      /\ e \notin G.deleted
      /\ R \in Store /\ R.owned[e] = k /\ R.forwarded[e] = 0 /\ R.pending[e] = None
      /\ e \notin R.deleted
    <2>1. logged[b].owned[e] # 0 /\ ram[b].owned[e] # 0
        BY <1>3, <1>4
    <2>2. /\ G \in Store /\ G.owned[e] = k /\ G.deleted = logged[b].deleted
          /\ G.forwarded[e] = logged[b].forwarded[e] /\ G.pending[e] = logged[b].pending[e]
        <3>1. logged[b] \in Store /\ logged[b].owned[e] # 0 /\ k \in Nat
            BY <1>1, <1>3, <2>1
        <3> QED
            BY <3>1, GrantedIs
    <2>3. /\ R \in Store /\ R.owned[e] = k /\ R.deleted = ram[b].deleted
          /\ R.forwarded[e] = ram[b].forwarded[e] /\ R.pending[e] = ram[b].pending[e]
        <3>1. ram[b] \in Store /\ ram[b].owned[e] # 0 /\ k \in Nat
            BY <1>1, <1>3, <2>1
        <3> QED
            BY <3>1, GrantedIs
    <2> QED
        BY <1>4, <2>2, <2>3
<1>6. /\ \/ Durably(b, G) /\ ram' = [ram EXCEPT ![b] = R]
         \/ NotDurably(b, G) /\ UNCHANGED ram
      /\ UNCHANGED <<frames, acks>>
    BY <1>3 DEF AdvanceEpoch, wire, Granted
<1> HIDE DEF G, R
<1>7. /\ \A x \in Brokers, j \in Nat : Seen(x, e, j) => Seen(x, e, j)'
      /\ \A x \in Brokers : Gone(x, e) => Gone(x, e)'
      /\ \A x \in Brokers : \A s \in mayRecover'[x] : s \in mayRecover[x] \/ (x = b /\ s = G)
    <2>1. \A j \in Nat : Past(logged[b], e, j) => Past(G, e, j)
        BY <1>3, <1>4, <1>5 DEF Past
    <2> QED
        BY <1>4, <1>5, <1>6, <2>1, RecordRemembers
<1>8. \A l \in Links, j \in Nat : /\ Flying(l, e, j)' => Flying(l, e, j)
                                  /\ Answered(l, e, j)' => Answered(l, e, j)
    BY <1>6, NothingNewInFlight
<1>9. \A x \in Brokers : \A s \in Copies(x)' :
         s \in Copies(x) \/ (x = b /\ (s = G \/ s = R))
    BY <1>6, <1>7 DEF Copies, TypeOK
<1>10. \A x \in Brokers : \A s \in Copies(x)' : WellFormed(x, s, e)
    BY <1>5, <1>9 DEF EntitySound, WellFormed
<1>11. \A x \in Brokers : LogAgrees(x, e)'
    <2>1. CASE Durably(b, G) /\ ram' = [ram EXCEPT ![b] = R]
        BY <1>5, <2>1 DEF Durably, LogAgrees, EntitySound, TypeOK
    <2>2. CASE NotDurably(b, G) /\ UNCHANGED ram
        BY <2>2 DEF NotDurably, LogAgrees, EntitySound, TypeOK
    <2> QED
        BY <1>6, <2>1, <2>2
<1>12. \A x \in Brokers : e \in ram'[x].deleted => Gone(x, e)'
    BY <1>5, <1>6, <1>7 DEF EntitySound, TypeOK
<1>13. Held(b, e)'
    <2>1. CASE Durably(b, G) /\ ram' = [ram EXCEPT ![b] = R]
        <3>1. k = ram'[b].owned[e] /\ ram[b].owned[e] <= k
            BY <1>3, <1>5, <2>1 DEF TypeOK
        <3>2. mayRecover'[b] = {G}
            BY <2>1 DEF Durably, TypeOK
        <3>3. \A s \in mayRecover'[b] : SourceMay(s, e, k)
            BY <1>3, <1>5, <3>2 DEF SourceMay
        <3> QED
            BY <1>2, <1>7, <1>8, <1>9, <3>1, <3>3, WeakerSelf, HeldStays
    <2>2. CASE NotDurably(b, G) /\ UNCHANGED ram
        <3>1. r = ram'[b].owned[e] /\ ram[b].owned[e] <= r
            BY <1>3, <2>2
        <3>2. \A s \in mayRecover'[b] : SourceMay(s, e, r)
            BY <1>2, <1>3, <1>5, <1>7 DEF SourceMay, Held
        <3> QED
            BY <1>2, <1>7, <1>8, <1>9, <3>1, <3>2, WeakerSelf, HeldStays
    <2> QED
        BY <1>6, <2>1, <2>2
<1> QED
    BY <1>10, <1>11, <1>12, <1>13 DEF EntitySound, Settled, Kept

\* A durable delete leaves nothing of e; one that fails leaves it held.
LEMMA DeleteSound ==
    ASSUME TypeOK, TypeOK', LogSound, NEW b \in Brokers, NEW e \in Entities,
           EntitySound(e), DeleteEntity(b, e)
    PROVE  EntitySound(e)'
<1>1. ram[b] \in Store /\ logged[b] \in Store /\ logged[b] \in mayRecover[b] /\ ~degraded[b]
    BY DEF TypeOK, LogSound, DeleteEntity
<1>2. ram[b].owned[e] \in Nat /\ ram[b].owned[e] # 0 /\ Held(b, e)
    <2>1. ram[b].owned[e] \in Nat /\ ram[b].owned[e] # 0
        BY <1>1 DEF DeleteEntity, Store
    <2> QED
        BY <2>1, OwnerHolds
<1> DEFINE T == Tombstoned(logged[b], e)
           R == Tombstoned(ram[b], e)
<1>3. ram[b].pending[e] = None /\ logged[b].pending[e] = None
    BY <1>1, <1>2 DEF EntitySound, LogAgrees, WellFormed, Copies
<1>4. /\ T \in Store /\ T.owned[e] = 0 /\ T.forwarded[e] = 0 /\ T.pending[e] = None
      /\ e \in T.deleted
      /\ R \in Store /\ R.owned[e] = 0 /\ R.forwarded[e] = 0 /\ R.pending[e] = None
      /\ e \in R.deleted
    BY <1>1, <1>3, TombstonedIs
<1>5. /\ \/ Durably(b, T) /\ ram' = [ram EXCEPT ![b] = R]
         \/ NotDurably(b, T) /\ UNCHANGED ram
      /\ UNCHANGED <<frames, acks>>
    BY DEF DeleteEntity, wire
<1> HIDE DEF T, R
<1>6. /\ \A x \in Brokers, j \in Nat : Seen(x, e, j) => Seen(x, e, j)'
      /\ \A x \in Brokers : Gone(x, e) => Gone(x, e)'
      /\ \A x \in Brokers : \A s \in mayRecover'[x] : s \in mayRecover[x] \/ (x = b /\ s = T)
    <2>1. \A j \in Nat : Past(logged[b], e, j) => Past(T, e, j)
        BY <1>4 DEF Past
    <2> QED
        BY <1>4, <1>5, <2>1, RecordRemembers
<1>7. \A l \in Links, j \in Nat : /\ Flying(l, e, j)' => Flying(l, e, j)
                                  /\ Answered(l, e, j)' => Answered(l, e, j)
    BY <1>5, NothingNewInFlight
<1>8. \A x \in Brokers : \A s \in Copies(x)' :
         s \in Copies(x) \/ (x = b /\ (s = T \/ s = R))
    BY <1>5, <1>6 DEF Copies, TypeOK
<1>9. \A x \in Brokers : \A s \in Copies(x)' : WellFormed(x, s, e)
    BY <1>4, <1>8 DEF EntitySound, WellFormed
<1>10. CASE Durably(b, T) /\ ram' = [ram EXCEPT ![b] = R]
    <2>1. /\ ram'[b] = R /\ mayRecover'[b] = {T} /\ logged'[b] = T
          /\ \A x \in Brokers \ {b} : /\ ram'[x] = ram[x] /\ mayRecover'[x] = mayRecover[x]
                                      /\ logged'[x] = logged[x]
          /\ degraded' = degraded
        BY <1>10 DEF Durably, TypeOK
    <2>2. \A x \in Brokers : LogAgrees(x, e)'
        BY <1>4, <2>1 DEF LogAgrees, EntitySound
    <2>3. Gone(b, e)'
        BY <1>4, <2>1 DEF Gone
    <2>4. \A x \in Brokers : e \in ram'[x].deleted => Gone(x, e)'
        BY <1>6, <2>1, <2>3 DEF EntitySound
    <2>5. Quiet(e)'
        <3>1. ASSUME NEW x \in Brokers, NEW s \in Copies(x)'
              PROVE  /\ s.owned[e] = 0
                     /\ s.pending[e] # None => Seen(s.pending[e].to, e, s.pending[e].epoch)'
            <4>1. CASE x = b
                BY <1>4, <2>1, <4>1 DEF Copies
            <4>2. CASE x # b
                <5>1. s \in Copies(x)
                    BY <1>8, <4>2
                <5> QED
                    BY <1>2, <1>6, <4>2, <5>1, CopyType DEF Held
            <4> QED
                BY <4>1, <4>2
        <3>2. \A l \in Links, j \in Nat : Flying(l, e, j)' => Seen(l[2], e, j)'
            BY <1>2, <1>6, <1>7 DEF Held, Links
        <3> QED
            BY <3>1, <3>2 DEF Quiet
    <2> QED
        BY <1>9, <2>2, <2>3, <2>4, <2>5 DEF EntitySound, Settled, Kept
<1>11. CASE NotDurably(b, T) /\ UNCHANGED ram
    <2>1. \A x \in Brokers : LogAgrees(x, e)'
        BY <1>11 DEF NotDurably, LogAgrees, EntitySound, TypeOK
    <2>2. \A x \in Brokers : e \in ram'[x].deleted => Gone(x, e)'
        BY <1>6, <1>11 DEF EntitySound
    <2>3. \A s \in mayRecover'[b] : SourceMay(s, e, ram[b].owned[e])
        BY <1>2, <1>4, <1>6 DEF SourceMay, Held
    <2>4. \A x \in Brokers \ {b} : \A s \in Copies(x)' : \E t \in Copies(x) : Weaker(s, t, e)
        BY <1>8, WeakerSelf
    <2>5. PICK r \in Nat : r = ram[b].owned[e]
        BY <1>2
    <2>6. Held(b, e)'
        BY <1>2, <1>6, <1>7, <1>11, <2>3, <2>4, <2>5, HeldStays
    <2> QED
        BY <1>9, <2>1, <2>2, <2>6 DEF EntitySound, Settled, Kept
<1> QED
    BY <1>5, <1>10, <1>11

(***************************************************************************)
(* Frames and acks.                                                        *)
(***************************************************************************)
\* A step that changes no store changes only where e stands on the wire.
LEMMA SameStores ==
    ASSUME TypeOK, NEW e \in Entities, EntitySound(e), UNCHANGED <<ram, disk>>
    PROVE  /\ \A x \in Brokers : Copies(x)' = Copies(x) /\ mayRecover'[x] = mayRecover[x]
           /\ \A x \in Brokers, j \in Nat : Seen(x, e, j) => Seen(x, e, j)'
           /\ \A x \in Brokers : Gone(x, e) => Gone(x, e)'
           /\ \A x \in Brokers : \A s \in Copies(x)' : WellFormed(x, s, e)
           /\ \A x \in Brokers : LogAgrees(x, e)'
           /\ \A x \in Brokers : e \in ram'[x].deleted => Gone(x, e)'
           /\ \A x \in Brokers : \A s \in Copies(x)' : \E t \in Copies(x) : Weaker(s, t, e)
           /\ \A h, c \in Brokers, k \in Nat :
                 StaysParked(h, c, k, e) => StaysParked(h, c, k, e)'
<1>1. ram' = ram /\ logged' = logged /\ mayRecover' = mayRecover /\ degraded' = degraded
    BY DEF disk
<1>2. \A x \in Brokers : Copies(x)' = Copies(x)
    BY <1>1 DEF Copies
<1>3. /\ \A x \in Brokers, j \in Nat : Seen(x, e, j) => Seen(x, e, j)'
      /\ \A x \in Brokers : Gone(x, e) => Gone(x, e)'
    BY <1>1 DEF Seen, Gone
<1>4. \A x \in Brokers : \A s \in Copies(x)' : \E t \in Copies(x) : Weaker(s, t, e)
    BY <1>2, WeakerSelf
<1> QED
    BY <1>1, <1>2, <1>3, <1>4 DEF EntitySound, LogAgrees, StaysParked

\* Resend: what is sent again is what is parked, so nothing new is in flight.
LEMMA ResendSound ==
    ASSUME TypeOK, TypeOK', NEW b \in Brokers, NEW e \in Entities,
           EntitySound(e), Resend(b, e)
    PROVE  EntitySound(e)'
<1>1. UNCHANGED <<ram, disk>> /\ ram[b].pending[e] # None /\ ram[b] \in Copies(b) /\ acks' = acks
    BY DEF Resend, Copies
<1>2. PICK p \in Parked : p = ram[b].pending[e] /\ Send(b, e, p)
    BY <1>1, CopyType DEF Resend
<1>3. p.to \in Brokers /\ p.epoch \in Nat /\ p # None
    BY <1>1, <1>2, CopyType
<1>4. p.epoch = ram[b].forwarded[e] /\ ram[b].owned[e] = 0
    BY <1>1, <1>2 DEF EntitySound, WellFormed
<1>5. \A l \in Links, j \in Nat :
         Flying(l, e, j)' => Flying(l, e, j) \/ (l = <<b, p.to>> /\ j = p.epoch)
    BY <1>2, SendFlies
<1>6. \A l \in Links, j \in Nat : Answered(l, e, j)' => Answered(l, e, j)
    BY <1>1 DEF Answered
<1>7. \A l \in Links : l = <<b, p.to>> => l[2] = p.to
    OBVIOUS
<1>8. ASSUME NEW h \in Brokers, Held(h, e)
      PROVE  Held(h, e)'
    <2>1. PICK r \in Nat : r = ram[h].owned[e] /\ r = ram'[h].owned[e]
        <3>1. ram[h] \in Copies(h)
            BY DEF Copies
        <3> QED
            BY <1>1, <3>1, CopyType
    <2>2. h # b
        BY <1>4, <1>8 DEF Held
    <2>3. p.epoch <= r /\ Seen(p.to, e, p.epoch)
        BY <1>1, <1>2, <1>3, <1>4, <1>8, <2>1, <2>2 DEF Held
    <2>4. \A s \in mayRecover'[h] : SourceMay(s, e, r)
        BY <1>1, <1>8, <2>1, SameStores DEF Held
    <2>5. \A l \in Links, j \in Nat :
             /\ Flying(l, e, j)' => Flying(l, e, j) \/ (j <= r /\ Seen(l[2], e, j))
             /\ Answered(l, e, j)' => Answered(l, e, j) \/ j <= r
        BY <1>5, <1>6, <1>7, <2>3
    <2>6. /\ \A x \in Brokers \ {h} : \A s \in Copies(x)' : \E t \in Copies(x) : Weaker(s, t, e)
          /\ \A x \in Brokers, j \in Nat : Seen(x, e, j) => Seen(x, e, j)'
        BY <1>1, SameStores
    <2>7. r = ram'[h].owned[e] /\ ram[h].owned[e] <= r
        BY <2>1
    <2> QED
        BY <1>8, <2>4, <2>5, <2>6, <2>7, HeldStays
<1>9. ASSUME NEW h \in Brokers, NEW c \in Brokers, NEW k \in Nat, Moving(h, c, k, e)
      PROVE  Moving(h, c, k, e)'
    <2>1. \/ p.epoch < k /\ Seen(p.to, e, p.epoch)
          \/ b = h /\ p.to = c /\ p.epoch = k
        BY <1>1, <1>2, <1>3, <1>9 DEF Moving
    <2>2. \A l \in Links, j \in Nat :
             /\ Flying(l, e, j)' => \/ Flying(l, e, j) \/ (j < k /\ Seen(l[2], e, j))
                                    \/ (l = <<h, c>> /\ j = k)
             /\ Answered(l, e, j)' => Answered(l, e, j) \/ j < k
        BY <1>5, <1>6, <1>7, <2>1
    <2>3. /\ \A x \in Brokers : ram'[x].owned[e] = 0
          /\ \A x \in Brokers : \A s \in mayRecover'[x] :
                s.owned[e] # 0 => x = c /\ s.owned[e] = k
        BY <1>1, <1>9, SameStores DEF Moving
    <2>4. \A x \in Brokers : \A s \in Copies(x)' : \E t \in Copies(x) :
             /\ s.forwarded[e] <= t.forwarded[e] /\ s.pending[e] \in {None, t.pending[e]}
        BY <1>1, SameStores DEF Weaker
    <2> QED
        BY <1>1, <1>9, <2>2, <2>3, <2>4, SameStores, MovingStays
<1>10. Quiet(e) => Quiet(e)'
    <2> SUFFICES ASSUME Quiet(e) PROVE Quiet(e)'
        OBVIOUS
    <2>1. Seen(p.to, e, p.epoch)
        BY <1>1, <1>2, <1>3 DEF Quiet
    <2>2. \A l \in Links, j \in Nat : Flying(l, e, j)' => Flying(l, e, j) \/ Seen(l[2], e, j)
        BY <1>5, <1>7, <2>1
    <2>3. \A x \in Brokers : \A s \in Copies(x)' : \E t \in Copies(x) :
             /\ s.owned[e] \in {0, t.owned[e]} /\ s.pending[e] \in {None, t.pending[e]}
        BY <1>1, SameStores DEF Weaker
    <2> QED
        BY <1>1, <2>2, <2>3, SameStores, QuietStays
<1>11. Settled(e)'
    BY <1>8, <1>9, <1>10 DEF EntitySound, Settled
<1>12. ~Compaction => Kept(e)'
    BY <1>1, <1>8, <1>9, SameStores DEF EntitySound, Kept
<1> QED
    BY <1>1, <1>11, <1>12, SameStores DEF EntitySound

\* An ack without an adopt: the entity is here at that epoch, or this broker is
\* past it; of what is under way only a deletion can say so.
LEMMA AnswerSound ==
    ASSUME TypeOK, TypeOK', NEW l \in Links, NEW e \in Entities, e = Head(frames[l]).e,
           EntitySound(e), AckStale(l) \/ AckPresent(l)
    PROVE  EntitySound(e)'
<1>1. /\ UNCHANGED <<ram, disk>> /\ Delivered(l) /\ frames[l] # <<>>
      /\ l[2] \in Brokers /\ l[1] \in Brokers
    BY FrameType DEF AckStale, AckPresent, Delivered
<1>2. PICK k0 \in Nat : k0 = Head(frames[l]).epoch
    BY <1>1, FrameType
<1>3. /\ Flying(l, e, k0)
      /\ \A m \in Links, j \in Nat : Flying(m, e, j)' => Flying(m, e, j)
    BY <1>1, <1>2, DeliveryFlies
<1>4. \A m \in Links, j \in Nat : Answered(m, e, j)' => Answered(m, e, j) \/ j = k0
    <2>1. UNCHANGED acks \/ Reply(l, k0)
        BY <1>2 DEF AckStale, AckPresent
    <2>2. CASE UNCHANGED acks
        BY <2>2 DEF Answered
    <2>3. CASE Reply(l, k0)
        BY <1>1, <1>2, <2>3, ReplyAnswers
    <2> QED
        BY <2>1, <2>2, <2>3
<1>5. ram[l[2]] \in Copies(l[2])
    BY DEF Copies
<1>6. ASSUME NEW h \in Brokers, Held(h, e)
      PROVE  Held(h, e)'
    <2>1. PICK r \in Nat : r = ram[h].owned[e] /\ r = ram'[h].owned[e]
        <3>1. ram[h] \in Copies(h)
            BY DEF Copies
        <3> QED
            BY <1>1, <3>1, CopyType
    <2>2. k0 <= r
        BY <1>3, <1>6, <2>1 DEF Held
    <2>3. \A s \in mayRecover'[h] : SourceMay(s, e, r)
        BY <1>1, <1>6, <2>1, SameStores DEF Held
    <2>4. \A m \in Links, j \in Nat :
             /\ Flying(m, e, j)' => Flying(m, e, j) \/ (j <= r /\ Seen(m[2], e, j))
             /\ Answered(m, e, j)' => Answered(m, e, j) \/ j <= r
        BY <1>3, <1>4, <2>2
    <2>6. /\ \A x \in Brokers \ {h} : \A s \in Copies(x)' : \E t \in Copies(x) : Weaker(s, t, e)
          /\ \A x \in Brokers, j \in Nat : Seen(x, e, j) => Seen(x, e, j)'
        BY <1>1, SameStores
    <2>7. r = ram'[h].owned[e] /\ ram[h].owned[e] <= r
        BY <2>1
    <2> QED
        BY <1>6, <2>3, <2>4, <2>6, <2>7, HeldStays
<1>7. ASSUME NEW h \in Brokers, NEW c \in Brokers, NEW k \in Nat, Moving(h, c, k, e)
      PROVE  Moving(h, c, k, e)' \/ (Quiet(e)' /\ Gone(c, e)')
    <2>1. CASE k0 < k
        <3>1. \A m \in Links, j \in Nat :
                 /\ Flying(m, e, j)' => \/ Flying(m, e, j) \/ (j < k /\ Seen(m[2], e, j))
                                        \/ (m = <<h, c>> /\ j = k)
                 /\ Answered(m, e, j)' => Answered(m, e, j) \/ j < k
            BY <1>3, <1>4, <2>1
        <3>2. /\ \A x \in Brokers : ram'[x].owned[e] = 0
              /\ \A x \in Brokers : \A s \in mayRecover'[x] :
                    s.owned[e] # 0 => x = c /\ s.owned[e] = k
            BY <1>1, <1>7, SameStores DEF Moving
        <3>3. \A x \in Brokers : \A s \in Copies(x)' : \E t \in Copies(x) :
                 /\ s.forwarded[e] <= t.forwarded[e] /\ s.pending[e] \in {None, t.pending[e]}
            BY <1>1, SameStores DEF Weaker
        <3> QED
            BY <1>1, <1>7, <3>1, <3>2, <3>3, SameStores, MovingStays
    <2>2. CASE ~(k0 < k)
        <3>1. l = <<h, c>> /\ k0 = k /\ l[2] = c
            BY <1>3, <1>7, <2>2 DEF Moving
        <3>2. /\ ram[c].owned[e] = 0 /\ ram[c].forwarded[e] \in Nat /\ ram[c].forwarded[e] < k
              /\ ram[c].pending[e] # None => ram[c].forwarded[e] # 0
            <4>1. h # c /\ ram[c].owned[e] = 0
                BY <1>7 DEF Moving
            <4>2. ram[c].forwarded[e] < k
                BY <1>5, <1>7, <3>1, <4>1 DEF Moving
            <4>3. ram[c].pending[e] # None => ram[c].forwarded[e] > 0
                BY <1>5, <3>1, CopyType DEF EntitySound, WellFormed
            <4> QED
                BY <1>5, <3>1, <4>1, <4>2, <4>3, CopyType
        <3>3. e \in ram[c].deleted
            BY <1>2, <3>1, <3>2 DEF AckStale, AckPresent, FencedOff, Unfenced
        <3>4. Gone(c, e) /\ Seen(c, e, k)
            BY <3>3 DEF EntitySound, Gone, Seen, Past
        <3>5. \A x \in Brokers : \A s \in Copies(x) :
                 /\ s.owned[e] = 0
                 /\ s.pending[e] # None => Seen(s.pending[e].to, e, s.pending[e].epoch)
            <4>1. \A s \in mayRecover[c] : s.owned[e] = 0
                BY <3>4 DEF Gone, EntitySound, WellFormed, Copies
            <4> QED
                BY <1>7, <3>4, <4>1 DEF Moving, Copies
        <3>6. \A m \in Links, j \in Nat : Flying(m, e, j) => Seen(m[2], e, j)
            BY <1>7, <3>4 DEF Moving
        <3>7. Quiet(e)
            BY <3>5, <3>6 DEF Quiet
        <3>8. \A x \in Brokers : \A s \in Copies(x)' : \E t \in Copies(x) :
                 /\ s.owned[e] \in {0, t.owned[e]} /\ s.pending[e] \in {None, t.pending[e]}
            BY <1>1, SameStores DEF Weaker
        <3> QED
            BY <1>1, <1>3, <3>4, <3>7, <3>8, SameStores, QuietStays
    <2> QED
        BY <2>1, <2>2
<1>8. Quiet(e) => Quiet(e)'
    <2>1. \A x \in Brokers : \A s \in Copies(x)' : \E t \in Copies(x) :
             /\ s.owned[e] \in {0, t.owned[e]} /\ s.pending[e] \in {None, t.pending[e]}
        BY <1>1, SameStores DEF Weaker
    <2> QED
        BY <1>1, <1>3, <2>1, SameStores, QuietStays
<1>9. Settled(e)'
    BY <1>6, <1>7, <1>8 DEF EntitySound, Settled
<1>10. ~Compaction => Kept(e)'
    BY <1>1, <1>6, <1>7, SameStores DEF EntitySound, Kept
<1> QED
    BY <1>1, <1>9, <1>10, SameStores DEF EntitySound

\* An ack that is not late drops no copy of e: only what it answers is released.
LEMMA AckSound ==
    ASSUME TypeOK, TypeOK', LogSound, NEW l \in Links, NEW e \in Entities,
           acks[l] # <<>>, e = Head(acks[l]).e, EntitySound(e), ReceiveAck(l), e \notin misled'
    PROVE  EntitySound(e)'
<1>1. PICK b \in Brokers : b = l[1]
    BY AckType
<1>2. PICK k0 \in Nat : k0 = Head(acks[l]).epoch
    BY AckType
<1>3. ram[b] \in Store /\ logged[b] \in Store /\ logged[b] \in mayRecover[b] /\ ram[b] \in Copies(b)
      /\ logged[b] \in Copies(b)
    BY DEF TypeOK, LogSound, Copies
<1>4. /\ ram[b].owned[e] = 0 /\ logged[b].owned[e] = 0
      /\ ram[b].pending[e] # None => ram[b].pending[e].epoch = k0
    BY <1>1, <1>2 DEF ReceiveAck, Late
<1> DEFINE A == AckReplayed(logged[b], e)
           R == [ram[b] EXCEPT !.pending[e] = None]
<1>5. /\ A \in Store /\ A.owned[e] = 0 /\ A.pending[e] = None /\ A.deleted = logged[b].deleted
      /\ A.forwarded[e] = logged[b].forwarded[e]
      /\ R \in Store /\ R.owned[e] = 0 /\ R.pending[e] = None /\ R.deleted = ram[b].deleted
      /\ R.forwarded[e] = ram[b].forwarded[e]
    BY <1>3, <1>4, AckReplayedIs, ReleasedIs
<1>6. /\ \/ Durably(b, A) /\ ram' = [ram EXCEPT ![b] = R]
         \/ NotDurably(b, A) /\ UNCHANGED ram
      /\ frames' = frames /\ acks' = [acks EXCEPT ![l] = Tail(@)]
    BY <1>1 DEF ReceiveAck
<1> HIDE DEF A, R
<1>7. /\ \A x \in Brokers, j \in Nat : Seen(x, e, j) => Seen(x, e, j)'
      /\ \A x \in Brokers : Gone(x, e) => Gone(x, e)'
      /\ \A x \in Brokers : \A s \in mayRecover'[x] : s \in mayRecover[x] \/ (x = b /\ s = A)
    <2>1. \A j \in Nat : Past(logged[b], e, j) => Past(A, e, j)
        BY <1>4, <1>5 DEF Past
    <2> QED
        BY <1>5, <1>6, <2>1, RecordRemembers
<1>8. /\ \A m \in Links, j \in Nat : Flying(m, e, j)' => Flying(m, e, j)
      /\ \A m \in Links, j \in Nat : Answered(m, e, j)' => Answered(m, e, j)
      /\ Answered(l, e, k0)
    BY <1>2, <1>6, AckTaken DEF Flying
<1>9. \A x \in Brokers : \A s \in Copies(x)' :
         s \in Copies(x) \/ (x = b /\ (s = A \/ s = R))
    BY <1>6, <1>7 DEF Copies, TypeOK
<1>10. Weaker(A, logged[b], e) /\ Weaker(R, ram[b], e)
    <2>1. logged[b].forwarded[e] \in Nat /\ ram[b].forwarded[e] \in Nat
        BY <1>3, CopyType
    <2> QED
        BY <1>4, <1>5, <2>1 DEF Weaker
<1>11. \A x \in Brokers : \A s \in Copies(x)' : \E t \in Copies(x) : Weaker(s, t, e)
    BY <1>3, <1>9, <1>10, WeakerSelf
<1>12. \A x \in Brokers : \A s \in Copies(x)' : WellFormed(x, s, e)
    BY <1>5, <1>9 DEF EntitySound, WellFormed
<1>13. \A x \in Brokers : LogAgrees(x, e)'
    <2>1. CASE Durably(b, A) /\ ram' = [ram EXCEPT ![b] = R]
        <3>1. /\ ram'[b] = R /\ logged'[b] = A /\ degraded' = degraded
              /\ \A x \in Brokers \ {b} : ram'[x] = ram[x] /\ logged'[x] = logged[x]
            BY <2>1 DEF Durably, TypeOK
        <3>2. LogAgrees(b, e)'
            BY <1>5, <3>1 DEF LogAgrees, EntitySound
        <3>3. \A x \in Brokers \ {b} : LogAgrees(x, e)'
            BY <3>1 DEF LogAgrees, EntitySound
        <3> QED
            BY <3>2, <3>3
    <2>2. CASE NotDurably(b, A) /\ UNCHANGED ram
        BY <2>2 DEF NotDurably, LogAgrees, EntitySound, TypeOK
    <2> QED
        BY <1>6, <2>1, <2>2
<1>14. \A x \in Brokers : e \in ram'[x].deleted => Gone(x, e)'
    <2>1. \A x \in Brokers : ram'[x].deleted = ram[x].deleted
        BY <1>5, <1>6 DEF TypeOK
    <2> QED
        BY <1>7, <2>1 DEF EntitySound
<1>15. ASSUME NEW h \in Brokers, Held(h, e)
       PROVE  Held(h, e)'
    <2>1. h # b
        BY <1>4, <1>15 DEF Held
    <2>2. ram'[h] = ram[h] /\ mayRecover'[h] = mayRecover[h] /\ ram[h] \in Copies(h)
        BY <1>6, <2>1 DEF Durably, NotDurably, TypeOK, Copies
    <2>3. PICK r \in Nat : r = ram[h].owned[e]
        BY <2>2, CopyType
    <2>4. \A s \in mayRecover'[h] : SourceMay(s, e, r)
        BY <1>15, <2>2, <2>3 DEF Held
    <2>5. r = ram'[h].owned[e] /\ ram[h].owned[e] <= r
        BY <2>2, <2>3
    <2>6. \A m \in Links, j \in Nat :
             /\ Flying(m, e, j)' => Flying(m, e, j) \/ (j <= r /\ Seen(m[2], e, j))
             /\ Answered(m, e, j)' => Answered(m, e, j) \/ j <= r
        BY <1>8
    <2> QED
        BY <1>7, <1>11, <1>15, <2>4, <2>5, <2>6, HeldStays
<1>16. ASSUME NEW h \in Brokers, NEW c \in Brokers, NEW k \in Nat, Moving(h, c, k, e)
       PROVE  /\ Moving(h, c, k, e)'
              /\ StaysParked(h, c, k, e) => StaysParked(h, c, k, e)'
    <2>1. \A m \in Links, j \in Nat :
             /\ Flying(m, e, j)' => \/ Flying(m, e, j) \/ (j < k /\ Seen(m[2], e, j))
                                    \/ (m = <<h, c>> /\ j = k)
             /\ Answered(m, e, j)' => Answered(m, e, j) \/ j < k
        BY <1>8
    <2>2. \A x \in Brokers : ram'[x].owned[e] = 0
        BY <1>5, <1>6, <1>16 DEF Moving, TypeOK
    <2>3. \A x \in Brokers : \A s \in mayRecover'[x] : s.owned[e] # 0 => x = c /\ s.owned[e] = k
        BY <1>5, <1>7, <1>16 DEF Moving
    <2>4. \A x \in Brokers : \A s \in Copies(x)' : \E t \in Copies(x) :
             /\ s.forwarded[e] <= t.forwarded[e] /\ s.pending[e] \in {None, t.pending[e]}
        BY <1>11 DEF Weaker
    <2>5. Moving(h, c, k, e)'
        BY <1>7, <1>16, <2>1, <2>2, <2>3, <2>4, MovingStays
    <2>6. ASSUME StaysParked(h, c, k, e)
          PROVE  StaysParked(h, c, k, e)'
        <3>1. k0 < k
            BY <1>8, <1>16 DEF Moving
        <3>2. b # h
            BY <1>3, <1>4, <2>6, <3>1 DEF StaysParked
        <3>3. \A s \in Copies(h)' : s \in Copies(h)
            BY <1>9, <3>2
        <3> QED
            BY <2>6, <3>3 DEF StaysParked
    <2> QED
        BY <2>5, <2>6
<1>17. Quiet(e) => Quiet(e)'
    <2>1. \A x \in Brokers : \A s \in Copies(x)' : \E t \in Copies(x) :
             /\ s.owned[e] \in {0, t.owned[e]} /\ s.pending[e] \in {None, t.pending[e]}
        BY <1>11 DEF Weaker
    <2> QED
        BY <1>7, <1>8, <2>1, QuietStays
<1>18. Settled(e)'
    BY <1>15, <1>16, <1>17 DEF EntitySound, Settled
<1>19. ~Compaction => Kept(e)'
    BY <1>7, <1>15, <1>16 DEF EntitySound, Kept
<1> QED
    BY <1>12, <1>13, <1>14, <1>18, <1>19 DEF EntitySound

(***************************************************************************)
(* Adoption.                                                               *)
(***************************************************************************)
\* A hand-off that its target adopts is the one under way: everything else in
\* flight the target is past.
LEMMA AdoptedIsMoving ==
    ASSUME TypeOK, LogSound, NEW l \in Links, NEW e \in Entities, NEW k0 \in Nat,
           frames[l] # <<>>, e = Head(frames[l]).e, k0 = Head(frames[l]).epoch,
           EntitySound(e), Adopt(l)
    PROVE  /\ ~Seen(l[2], e, k0) /\ ~Gone(l[2], e) /\ Moving(l[1], l[2], k0, e)
           /\ \A h, c \in Brokers, k \in Nat :
                 Moving(h, c, k, e) => h = l[1] /\ c = l[2] /\ k = k0
           /\ \A h \in Brokers : ~Held(h, e)
<1>1. PICK c \in Brokers : c = l[2]
    BY FrameType
<1>2. /\ ~degraded[c] /\ e \notin ram[c].deleted /\ ram[c].owned[e] = 0
      /\ ~(ram[c].forwarded[e] # 0 /\ k0 <= ram[c].forwarded[e]) /\ Delivered(l)
    BY <1>1 DEF Adopt, FencedOff
<1>3. ~Past(logged[c], e, k0) /\ e \notin logged[c].deleted /\ logged[c] \in mayRecover[c]
    BY <1>2 DEF EntitySound, LogAgrees, Past, LogSound
<1>4. ~Seen(l[2], e, k0) /\ ~Gone(l[2], e)
    BY <1>1, <1>3 DEF Seen, Gone
<1>5. Flying(l, e, k0)
    BY <1>2, DeliveryFlies
<1>6. \A h, d \in Brokers, k \in Nat :
         Moving(h, d, k, e) => h = l[1] /\ d = l[2] /\ k = k0
    <2> SUFFICES ASSUME NEW h \in Brokers, NEW d \in Brokers, NEW k \in Nat, Moving(h, d, k, e)
                 PROVE  h = l[1] /\ d = l[2] /\ k = k0
        OBVIOUS
    <2>1. l = <<h, d>> /\ k0 = k
        BY <1>4, <1>5 DEF Moving
    <2> QED
        BY <2>1
<1>7. \A h \in Brokers : ~Held(h, e)
    BY <1>4, <1>5 DEF Held
<1>8. ~Quiet(e)
    BY <1>4, <1>5 DEF Quiet
<1>9. Moving(l[1], l[2], k0, e)
    BY <1>6, <1>7, <1>8 DEF EntitySound, Settled
<1> QED
    BY <1>4, <1>6, <1>7, <1>9

\* What the target logs of an adopt: the ack of a hand-off parked there, then the
\* register.
AckedLog(c, e) ==
    IF ram[c].pending[e] # None THEN AckReplayed(logged[c], e) ELSE logged[c]
Released(c, e) == [ram[c] EXCEPT !.pending[e] = None]

\* The ways an adopt of e at k0 ends, with A and G the log after the ack and after
\* the register, and R and F the store when it is adopted and when it failed.
AdoptEnds(l, e, k0, A, G, R, F) ==
    LET c == l[2] IN
    \/ Durably(c, G) /\ ram' = [ram EXCEPT ![c] = R] /\ Reply(l, k0)
    \/ NotDurably(c, A) /\ UNCHANGED <<ram, acks>>
    \/ /\ degraded' = [degraded EXCEPT ![c] = TRUE]
       /\ \E last \in {A, G} :
             /\ logged' = [logged EXCEPT ![c] = last]
             /\ \/ mayRecover' = [mayRecover EXCEPT ![c] = {A} \cup {last}]
                \/ mayRecover' = [mayRecover EXCEPT ![c] = @ \cup {last}]
       /\ ram' = [ram EXCEPT ![c] = F]
       /\ UNCHANGED acks

\* What Adopt leaves: the log acknowledged or registered, RAM registered or released.
LEMMA AdoptIs ==
    ASSUME TypeOK, LogSound, NEW l \in Links, NEW e \in Entities, NEW k0 \in Nat,
           frames[l] # <<>>, e = Head(frames[l]).e, k0 = Head(frames[l]).epoch, Adopt(l)
    PROVE  LET c == l[2]
               A == AckedLog(c, e)
               G == Registered(A, e, k0)
               R == Registered(Released(c, e), e, k0)
               F == [Released(c, e) EXCEPT !.forwarded[e] = 0]
           IN  /\ A \in Store /\ G \in Store /\ R \in Store /\ F \in Store
               /\ SameElsewhere(logged[c], A, e) /\ SameElsewhere(logged[c], G, e)
               /\ SameElsewhere(ram[c], R, e) /\ SameElsewhere(ram[c], F, e)
               /\ AdoptEnds(l, e, k0, A, G, R, F)
<1> DEFINE c == l[2]
           A == AckedLog(c, e)
           P == Released(c, e)
           G == Registered(A, e, k0)
           R == Registered(P, e, k0)
           F == [P EXCEPT !.forwarded[e] = 0]
<1>1. c \in Brokers /\ ram[c] \in Store /\ logged[c] \in Store
    BY FrameType DEF TypeOK
<1>2. A \in Store /\ SameElsewhere(logged[c], A, e)
    BY <1>1, AckReplayedIs DEF AckedLog, SameElsewhere, SameAt
<1>3. P \in Store /\ SameElsewhere(ram[c], P, e)
    BY <1>1, ReleasedIs DEF Released
<1>4. G \in Store /\ SameElsewhere(A, G, e) /\ R \in Store /\ SameElsewhere(P, R, e)
    BY <1>2, <1>3, RegisteredIs
<1>5. F \in Store /\ SameElsewhere(P, F, e)
    BY <1>3, UnfencedIs
<1>6. AdoptEnds(l, e, k0, A, G, R, F)
    BY DEF Adopt, AdoptEnds, AckedLog, Released
<1> HIDE DEF A, P, G, R, F
<1>7. SameElsewhere(logged[c], G, e) /\ SameElsewhere(ram[c], R, e) /\ SameElsewhere(ram[c], F, e)
    BY <1>2, <1>3, <1>4, <1>5 DEF SameElsewhere, SameAt
<1> QED
    BY <1>2, <1>3, <1>4, <1>5, <1>6, <1>7 DEF A, P, G, R, F

\* Adopt touches the stores at the entity of its frame alone.
LEMMA AdoptUntouched ==
    ASSUME TypeOK, LogSound, NEW l \in Links, NEW e \in Entities, frames[l] # <<>>,
           e = Head(frames[l]).e, Adopt(l), NEW d \in Entities \ {e}
    PROVE  Untouched(d)
<1>1. PICK c \in Brokers, k0 \in Nat : c = l[2] /\ k0 = Head(frames[l]).epoch
    BY FrameType
<1>2. PICK A \in Store, G \in Store, R \in Store, F \in Store :
         /\ SameElsewhere(logged[c], A, e) /\ SameElsewhere(logged[c], G, e)
         /\ SameElsewhere(ram[c], R, e) /\ SameElsewhere(ram[c], F, e)
         /\ AdoptEnds(l, e, k0, A, G, R, F)
    BY <1>1, AdoptIs
<1>3. \A m \in Links, k \in Nat : /\ Flying(m, d, k)' => Flying(m, d, k)
                                  /\ Answered(m, d, k)' => Answered(m, d, k)
    <2>1. Delivered(l)
        BY DEF Adopt
    <2>2. \A m \in Links, k \in Nat : Flying(m, d, k)' => Flying(m, d, k)
        BY <2>1, DeliveryFlies
    <2>3. UNCHANGED acks \/ Reply(l, k0)
        BY <1>2 DEF AdoptEnds
    <2>4. \A m \in Links, k \in Nat : Answered(m, d, k)' => Answered(m, d, k)
        <3>1. CASE UNCHANGED acks
            BY <3>1 DEF Answered
        <3>2. CASE Reply(l, k0)
            BY <3>2, ReplyAnswers
        <3> QED
            BY <2>3, <3>1, <3>2
    <2> QED
        BY <2>2, <2>4
<1>4. CASE Durably(c, G) /\ ram' = [ram EXCEPT ![c] = R]
    BY <1>2, <1>3, <1>4, RecordUntouched
<1>5. CASE NotDurably(c, A) /\ UNCHANGED ram
    BY <1>2, <1>3, <1>5, RecordUntouched
<1>6. ASSUME NEW last \in {A, G},
             degraded' = [degraded EXCEPT ![c] = TRUE], logged' = [logged EXCEPT ![c] = last],
             \/ mayRecover' = [mayRecover EXCEPT ![c] = {A} \cup {last}]
             \/ mayRecover' = [mayRecover EXCEPT ![c] = @ \cup {last}],
             ram' = [ram EXCEPT ![c] = F]
      PROVE  Untouched(d)
    <2>1. /\ SameAt(A, logged[c], d) /\ SameAt(G, logged[c], d) /\ SameAt(F, ram[c], d)
          /\ \A s : SameAt(s, s, d)
        BY <1>2 DEF SameElsewhere, SameAt
    <2>2. \A x \in Brokers : SameAt(ram'[x], ram[x], d)
        BY <1>6, <2>1 DEF TypeOK
    <2>3. \A x \in Brokers : \A s \in mayRecover'[x] : s \in mayRecover[x] \/ (x = c /\ s \in {A, G})
        BY <1>6 DEF TypeOK
    <2>4. logged[c] \in mayRecover[c]
        BY DEF LogSound
    <2>5. \A x \in Brokers : \A s \in mayRecover'[x] : \E u \in mayRecover[x] : SameAt(s, u, d)
        BY <2>1, <2>3, <2>4
    <2>6. \A x \in Brokers :
             ~degraded'[x] => ~degraded[x] /\ SameAt(logged'[x], logged[x], d)
        BY <1>6, <2>1 DEF TypeOK
    <2> QED
        BY <1>3, <2>2, <2>5, <2>6 DEF Untouched
<1> QED
    BY <1>1, <1>2, <1>4, <1>5, <1>6 DEF AdoptEnds

\* A durable adopt makes the target the owner; one that fails leaves the hand-off
\* under way, and only there a crash may bring the entity back.
LEMMA AdoptSound ==
    ASSUME TypeOK, TypeOK', LogSound, NEW l \in Links, NEW e \in Entities, frames[l] # <<>>,
           e = Head(frames[l]).e, EntitySound(e), Adopt(l)
    PROVE  EntitySound(e)'
<1>1. PICK h \in Brokers, c \in Brokers, k \in Nat :
         h = l[1] /\ c = l[2] /\ k = Head(frames[l]).epoch
    BY FrameType
<1>2. /\ Moving(h, c, k, e) /\ h # c /\ k # 0 /\ k > 0 /\ ~Gone(c, e)
      /\ \A g, d \in Brokers, j \in Nat : Moving(g, d, j, e) => g = h /\ d = c /\ j = k
      /\ \A g \in Brokers : ~Held(g, e)
    <2>1. /\ Moving(h, c, k, e) /\ ~Gone(c, e)
          /\ \A g, d \in Brokers, j \in Nat : Moving(g, d, j, e) => g = h /\ d = c /\ j = k
          /\ \A g \in Brokers : ~Held(g, e)
        BY <1>1, AdoptedIsMoving
    <2>2. h # c /\ k > 0
        BY <2>1 DEF Moving
    <2> QED
        BY <1>1, <2>1, <2>2
<1>3. /\ ~degraded[c] /\ mayRecover[c] = {logged[c]}
      /\ e \notin ram[c].deleted /\ ram[c].owned[e] = 0
      /\ e \notin logged[c].deleted /\ logged[c].owned[e] = 0
      /\ logged[c].forwarded[e] = ram[c].forwarded[e]
      /\ logged[c].pending[e] \in {None, ram[c].pending[e]}
      /\ ram[c] \in Store /\ logged[c] \in Store
      /\ logged[c] \in Copies(c) /\ ram[c] \in Copies(c)
    <2>1. ~degraded[c] /\ e \notin ram[c].deleted /\ ram[c].owned[e] = 0
        BY <1>1 DEF Adopt
    <2>2. LogAgrees(c, e)
        BY DEF EntitySound
    <2> QED
        BY <2>1, <2>2 DEF LogAgrees, LogSound, TypeOK, Copies
<1>4. logged[c].forwarded[e] \in Nat /\ logged[c].forwarded[e] < k
    BY <1>2, <1>3, CopyType DEF Moving
<1> DEFINE A == AckedLog(c, e)
           P == Released(c, e)
           G == Registered(A, e, k)
           R == Registered(P, e, k)
           F == [P EXCEPT !.forwarded[e] = 0]
<1>5. /\ A \in Store /\ G \in Store /\ R \in Store /\ F \in Store
      /\ AdoptEnds(l, e, k, A, G, R, F)
    BY <1>1, AdoptIs
<1>6. /\ A.owned[e] = 0 /\ A.forwarded[e] = logged[c].forwarded[e] /\ A.pending[e] = None
      /\ e \notin A.deleted
    BY <1>3, AckReplayedIs DEF AckedLog
<1>7. P \in Store /\ P.owned[e] = 0 /\ P.pending[e] = None /\ e \notin P.deleted
    BY <1>3, ReleasedIs DEF Released
<1>8. /\ G.owned[e] = k /\ G.forwarded[e] = 0 /\ G.pending[e] = None /\ e \notin G.deleted
      /\ R.owned[e] = k /\ R.forwarded[e] = 0 /\ R.pending[e] = None /\ e \notin R.deleted
    <2> HIDE DEF A, P
    <2> QED
        BY <1>5, <1>6, <1>7, RegisteredIs
<1>9. F.owned[e] = 0 /\ F.forwarded[e] = 0 /\ F.pending[e] = None /\ e \notin F.deleted
    <2> HIDE DEF P
    <2> QED
        BY <1>7, UnfencedIs
<1> HIDE DEF A, P, G, R, F
<1>10. /\ \A x \in Brokers \ {c} :
             /\ Copies(x)' = Copies(x) /\ ram'[x] = ram[x] /\ logged'[x] = logged[x]
             /\ mayRecover'[x] = mayRecover[x] /\ degraded'[x] = degraded[x]
       /\ \A s \in mayRecover'[c] : s = logged[c] \/ s = A \/ s = G
       /\ ram'[c] = ram[c] \/ ram'[c] = R \/ ram'[c] = F
    <2>1. /\ \A x \in Brokers \ {c} :
                /\ ram'[x] = ram[x] /\ logged'[x] = logged[x]
                /\ mayRecover'[x] = mayRecover[x] /\ degraded'[x] = degraded[x]
          /\ \A s \in mayRecover'[c] : s = logged[c] \/ s = A \/ s = G
          /\ ram'[c] = ram[c] \/ ram'[c] = R \/ ram'[c] = F
        <3>1. CASE Durably(c, G) /\ ram' = [ram EXCEPT ![c] = R]
            BY <3>1 DEF Durably, TypeOK
        <3>2. CASE NotDurably(c, A) /\ UNCHANGED ram
            <4>1. \/ mayRecover' = mayRecover /\ logged' = logged
                  \/ /\ mayRecover' = [mayRecover EXCEPT ![c] = @ \cup {A}]
                     /\ logged' = [logged EXCEPT ![c] = A]
                BY <3>2 DEF NotDurably
            <4>2. degraded' = [degraded EXCEPT ![c] = TRUE] /\ ram' = ram
                BY <3>2 DEF NotDurably
            <4>3. \A s \in mayRecover'[c] : s = logged[c] \/ s = A
                BY <1>3, <4>1 DEF TypeOK
            <4>4. \A x \in Brokers \ {c} :
                     /\ logged'[x] = logged[x] /\ mayRecover'[x] = mayRecover[x]
                     /\ degraded'[x] = degraded[x]
                BY <4>1, <4>2 DEF TypeOK
            <4> QED
                BY <4>2, <4>3, <4>4
        <3>3. CASE /\ degraded' = [degraded EXCEPT ![c] = TRUE]
                   /\ \E last \in {A, G} :
                         /\ logged' = [logged EXCEPT ![c] = last]
                         /\ \/ mayRecover' = [mayRecover EXCEPT ![c] = {A} \cup {last}]
                            \/ mayRecover' = [mayRecover EXCEPT ![c] = @ \cup {last}]
                   /\ ram' = [ram EXCEPT ![c] = F]
            <4>1. ram'[c] = F /\ \A x \in Brokers \ {c} : ram'[x] = ram[x]
                BY <3>3 DEF TypeOK
            <4>2. \A x \in Brokers \ {c} :
                     /\ logged'[x] = logged[x] /\ mayRecover'[x] = mayRecover[x]
                     /\ degraded'[x] = degraded[x]
                BY <3>3 DEF TypeOK
            <4>3. \A s \in mayRecover'[c] : s = logged[c] \/ s = A \/ s = G
                BY <1>3, <3>3 DEF TypeOK
            <4> QED
                BY <4>1, <4>2, <4>3
        <3> QED
            BY <1>1, <1>5, <3>1, <3>2, <3>3 DEF AdoptEnds
    <2> QED
        BY <2>1 DEF Copies
<1>11. /\ \A x \in Brokers, j \in Nat : Seen(x, e, j) => Seen(x, e, j)'
       /\ \A x \in Brokers : Gone(x, e) => Gone(x, e)'
    <2>1. \A j \in Nat : Past(logged[c], e, j) => Past(A, e, j) /\ Past(G, e, j)
        BY <1>2, <1>3, <1>4, <1>6, <1>8 DEF Past
    <2>2. \A j \in Nat : Seen(c, e, j) => Seen(c, e, j)'
        BY <1>3, <1>10, <2>1 DEF Seen
    <2> QED
        BY <1>2, <1>10, <2>2 DEF Seen, Gone
<1>12. \A x \in Brokers : \A s \in Copies(x)' : WellFormed(x, s, e)
    <2>1. \A s \in Copies(c)' : s \in Copies(c) \/ s = A \/ s = G \/ s = R \/ s = F
        BY <1>3, <1>10 DEF Copies
    <2>2. \A s \in Copies(c)' : WellFormed(c, s, e)
        BY <1>6, <1>8, <1>9, <2>1 DEF EntitySound, WellFormed
    <2> QED
        BY <1>10, <2>2 DEF EntitySound
<1>13. \A x \in Brokers : LogAgrees(x, e)'
    <2>1. \A x \in Brokers \ {c} : LogAgrees(x, e)'
        BY <1>10 DEF EntitySound, LogAgrees
    <2>2. LogAgrees(c, e)'
        <3>1. CASE Durably(c, G) /\ ram' = [ram EXCEPT ![c] = R]
            BY <1>8, <3>1 DEF Durably, TypeOK, LogAgrees
        <3>2. CASE degraded' = [degraded EXCEPT ![c] = TRUE]
            BY <3>2 DEF TypeOK, LogAgrees
        <3> QED
            BY <1>1, <1>5, <3>1, <3>2 DEF AdoptEnds, NotDurably
    <2> QED
        BY <2>1, <2>2
<1>14. \A x \in Brokers : e \in ram'[x].deleted => Gone(x, e)'
    BY <1>3, <1>8, <1>9, <1>10, <1>11 DEF EntitySound
<1>15. /\ \A m \in Links, j \in Nat : Flying(m, e, j)' => Flying(m, e, j)
       /\ \A m \in Links, j \in Nat : Answered(m, e, j)' =>
             Answered(m, e, j) \/ (Reply(l, k) /\ j = k)
    <2>1. Delivered(l)
        BY DEF Adopt
    <2>2. UNCHANGED acks \/ Reply(l, k)
        BY <1>5 DEF AdoptEnds
    <2>3. CASE UNCHANGED acks
        BY <2>1, <2>3, DeliveryFlies DEF Answered
    <2>4. CASE Reply(l, k)
        BY <1>1, <2>1, <2>4, DeliveryFlies, ReplyAnswers
    <2> QED
        BY <2>2, <2>3, <2>4
<1>16. CASE Durably(c, G) /\ ram' = [ram EXCEPT ![c] = R]
    <2>1. ram'[c].owned[e] = k /\ mayRecover'[c] = {G}
        BY <1>8, <1>16 DEF Durably, TypeOK
    <2>2. \A s \in mayRecover'[c] : SourceMay(s, e, k)
        BY <1>2, <1>8, <2>1 DEF SourceMay
    <2>3. Seen(c, e, k)'
        BY <1>2, <1>8, <2>1 DEF Seen, Past
    <2>4. ASSUME NEW x \in Brokers \ {c}, NEW s \in Copies(x)'
          PROVE  /\ s.owned[e] = 0 /\ s.forwarded[e] <= k
                 /\ s.pending[e] # None => Seen(s.pending[e].to, e, s.pending[e].epoch)'
        <3>1. s \in Copies(x)
            BY <1>10
        <3>2. s.owned[e] = 0
            BY <1>2, <3>1 DEF Moving, Copies
        <3>3. s.forwarded[e] <= k
            BY <1>2, <3>1 DEF Moving
        <3>4. ASSUME s.pending[e] # None
              PROVE  Seen(s.pending[e].to, e, s.pending[e].epoch)'
            <4>1. s.pending[e].to \in Brokers /\ s.pending[e].epoch \in Nat
                BY <3>1, <3>4, CopyType
            <4>2. \/ Seen(s.pending[e].to, e, s.pending[e].epoch)
                  \/ s.pending[e].to = c /\ s.pending[e].epoch = k
                BY <1>2, <3>1, <3>4 DEF Moving
            <4> QED
                BY <1>11, <2>3, <4>1, <4>2
        <3> QED
            BY <3>2, <3>3, <3>4
    <2>5. ASSUME NEW m \in Links, NEW j \in Nat
          PROVE  /\ Flying(m, e, j)' => j <= k /\ Seen(m[2], e, j)'
                 /\ Answered(m, e, j)' => j <= k
        <3>1. m[2] \in Brokers /\ (m = <<h, c>> => m[2] = c)
            BY DEF Links
        <3>2. Flying(m, e, j) => (j < k /\ Seen(m[2], e, j)) \/ (m[2] = c /\ j = k)
            BY <1>2, <3>1 DEF Moving
        <3>3. Answered(m, e, j) => j < k
            BY <1>2 DEF Moving
        <3> QED
            BY <1>11, <1>15, <2>3, <3>1, <3>2, <3>3
    <2>6. Held(c, e)'
        BY <1>2, <2>1, <2>2, <2>4, <2>5 DEF Held
    <2> QED
        BY <1>12, <1>13, <1>14, <2>6 DEF EntitySound, Settled, Kept
<1>17. CASE (ram'[c] = ram[c] \/ ram'[c] = F) /\ UNCHANGED acks
    <2>1. \A x \in Brokers : ram'[x].owned[e] = 0
        <3>1. \A x \in Brokers \ {c} : ram'[x].owned[e] = 0
            BY <1>2, <1>10 DEF Moving
        <3>2. ram'[c].owned[e] = 0
            BY <1>3, <1>9, <1>17
        <3> QED
            BY <3>1, <3>2
    <2>2. \A x \in Brokers : \A s \in mayRecover'[x] : s.owned[e] # 0 => x = c /\ s.owned[e] = k
        BY <1>2, <1>3, <1>6, <1>8, <1>10 DEF Moving
    <2>3. \A x \in Brokers : \A s \in Copies(x)' : \E t \in Copies(x) :
             /\ s.forwarded[e] <= t.forwarded[e] /\ s.pending[e] \in {None, t.pending[e]}
        <3>1. ASSUME NEW s \in Copies(c)'
              PROVE  \E t \in Copies(c) :
                        /\ s.forwarded[e] <= t.forwarded[e]
                        /\ s.pending[e] \in {None, t.pending[e]}
            <4>1. s = ram[c] \/ s = logged[c] \/ s = A \/ s = G \/ s = F
                BY <1>10, <1>17 DEF Copies
            <4>2. s = ram[c] \/ s.forwarded[e] <= logged[c].forwarded[e]
                BY <1>4, <1>6, <1>8, <1>9, <4>1
            <4>3. s \in {ram[c], logged[c]} \/ s.pending[e] = None
                BY <1>6, <1>8, <1>9, <4>1
            <4>4. ram[c].forwarded[e] <= ram[c].forwarded[e]
                BY <1>3, <1>4
            <4> QED
                BY <1>3, <4>2, <4>3, <4>4
        <3> QED
            BY <1>10, <3>1, WeakerSelf DEF Weaker
    <2>4. \A m \in Links, j \in Nat :
             /\ Flying(m, e, j)' => \/ Flying(m, e, j) \/ (j < k /\ Seen(m[2], e, j))
                                    \/ (m = <<h, c>> /\ j = k)
             /\ Answered(m, e, j)' => Answered(m, e, j) \/ j < k
        BY <1>15, <1>17 DEF Answered
    <2>5. Moving(h, c, k, e)'
        BY <1>2, <1>11, <2>1, <2>2, <2>3, <2>4, MovingStays
    <2>6. StaysParked(h, c, k, e) => StaysParked(h, c, k, e)'
        BY <1>2, <1>10 DEF StaysParked
    <2>7. ~Compaction => Kept(e)'
        BY <1>2, <1>11, <2>5, <2>6 DEF EntitySound, Kept
    <2> QED
        BY <1>12, <1>13, <1>14, <2>5, <2>7 DEF EntitySound, Settled
<1> QED
    <2>1. ~(Durably(c, G) /\ ram' = [ram EXCEPT ![c] = R]) =>
             (ram'[c] = ram[c] \/ ram'[c] = F) /\ UNCHANGED acks
        BY <1>1, <1>5 DEF AdoptEnds, TypeOK
    <2> QED
        BY <1>16, <1>17, <2>1

(***************************************************************************)
(* Compaction and restarts: steps of every entity at once.                 *)
(***************************************************************************)
LEMMA CompactSound ==
    ASSUME TypeOK, TypeOK', LogSound, NEW b \in Brokers, NEW e \in Entities,
           EntitySound(e), Compact(b)
    PROVE  EntitySound(e)'
<1> DEFINE S == Snapshot(ram[b])
<1>1. /\ ~degraded[b] /\ ram[b] \in Store /\ logged[b] \in mayRecover[b] /\ logged[b] \in Store
      /\ ram[b] \in Copies(b) /\ ram[b].forwarded[e] \in Nat
    <2>1. /\ ~degraded[b] /\ ram[b] \in Store /\ logged[b] \in mayRecover[b] /\ logged[b] \in Store
          /\ ram[b] \in Copies(b)
        BY DEF Compact, LogSound, TypeOK, Copies
    <2> QED
        BY <2>1, CopyType
<1>2. /\ S \in Store /\ S.deleted = ram[b].deleted /\ S.owned[e] = ram[b].owned[e]
      /\ S.pending[e] = None
      /\ S.forwarded[e] = IF ram[b].owned[e] # 0 \/ e \in ram[b].deleted
                          THEN 0 ELSE ram[b].forwarded[e]
    BY <1>1, SnapshotIs
<1>3. Compaction /\ ram' = ram /\ (Durably(b, S) \/ NotDurably(b, S)) /\ UNCHANGED <<frames, acks>>
    BY DEF Compact, wire
<1> HIDE DEF S
<1>4. WellFormed(b, ram[b], e) /\ LogAgrees(b, e)
    BY <1>1 DEF EntitySound
<1>5. /\ \A x \in Brokers, j \in Nat : Seen(x, e, j) => Seen(x, e, j)'
      /\ \A x \in Brokers : Gone(x, e) => Gone(x, e)'
      /\ \A x \in Brokers : \A s \in mayRecover'[x] : s \in mayRecover[x] \/ (x = b /\ s = S)
    <2>1. \A j \in Nat : Past(logged[b], e, j) => Past(S, e, j)
        BY <1>1, <1>2, <1>4 DEF Past, WellFormed, LogAgrees
    <2>2. e \in logged[b].deleted => e \in S.deleted
        BY <1>1, <1>2, <1>4 DEF LogAgrees
    <2> QED
        BY <1>2, <1>3, <2>1, <2>2, RecordRemembers
<1>6. \A l \in Links, j \in Nat : /\ Flying(l, e, j)' => Flying(l, e, j)
                                  /\ Answered(l, e, j)' => Answered(l, e, j)
    BY <1>3, NothingNewInFlight
<1>7. \A x \in Brokers : \A s \in Copies(x)' : s \in Copies(x) \/ (x = b /\ s = S)
    BY <1>3, <1>5 DEF Copies
<1>8. Weaker(S, ram[b], e)
    BY <1>1, <1>2 DEF Weaker
<1>9. \A x \in Brokers : \A s \in Copies(x)' : \E t \in Copies(x) : Weaker(s, t, e)
    BY <1>1, <1>7, <1>8, WeakerSelf
<1>10. \A x \in Brokers : \A s \in Copies(x)' : WellFormed(x, s, e)
    <2>1. WellFormed(b, S, e)
        BY <1>2, <1>4 DEF WellFormed
    <2> QED
        BY <1>7, <2>1 DEF EntitySound
<1>11. \A x \in Brokers : LogAgrees(x, e)'
    <2>1. CASE Durably(b, S)
        <3>1. /\ logged'[b] = S /\ degraded' = degraded
              /\ \A x \in Brokers \ {b} : logged'[x] = logged[x]
            BY <2>1 DEF Durably, TypeOK
        <3>2. LogAgrees(b, e)'
            BY <1>2, <1>3, <1>4, <3>1 DEF LogAgrees, WellFormed
        <3>3. \A x \in Brokers \ {b} : LogAgrees(x, e)'
            BY <1>3, <3>1 DEF LogAgrees, EntitySound
        <3> QED
            BY <3>2, <3>3
    <2>2. CASE NotDurably(b, S)
        BY <1>3, <2>2 DEF NotDurably, LogAgrees, EntitySound, TypeOK
    <2> QED
        BY <1>3, <2>1, <2>2
<1>12. \A x \in Brokers : e \in ram'[x].deleted => Gone(x, e)'
    BY <1>3, <1>5 DEF EntitySound
<1>13. ASSUME NEW h \in Brokers, Held(h, e)
       PROVE  Held(h, e)'
    <2>1. ram[h] \in Copies(h)
        BY DEF Copies
    <2>2. PICK r \in Nat : r = ram[h].owned[e]
        BY <2>1, CopyType
    <2>3. r # 0 /\ \A s \in mayRecover[h] : SourceMay(s, e, r)
        BY <1>13, <2>2 DEF Held
    <2>4. h = b => SourceMay(S, e, r)
        BY <1>2, <2>2, <2>3 DEF SourceMay
    <2>5. \A s \in mayRecover'[h] : SourceMay(s, e, r)
        BY <1>5, <2>3, <2>4
    <2>6. r = ram'[h].owned[e] /\ ram[h].owned[e] <= r
        BY <1>3, <2>2
    <2>7. \A l \in Links, j \in Nat :
             /\ Flying(l, e, j)' => Flying(l, e, j) \/ (j <= r /\ Seen(l[2], e, j))
             /\ Answered(l, e, j)' => Answered(l, e, j) \/ j <= r
        BY <1>6
    <2> QED
        BY <1>5, <1>9, <1>13, <2>5, <2>6, <2>7, HeldStays
<1>14. ASSUME NEW h \in Brokers, NEW c \in Brokers, NEW k \in Nat, Moving(h, c, k, e)
       PROVE  Moving(h, c, k, e)'
    <2>1. \A l \in Links, j \in Nat :
             /\ Flying(l, e, j)' => \/ Flying(l, e, j) \/ (j < k /\ Seen(l[2], e, j))
                                    \/ (l = <<h, c>> /\ j = k)
             /\ Answered(l, e, j)' => Answered(l, e, j) \/ j < k
        BY <1>6
    <2>2. \A x \in Brokers : ram'[x].owned[e] = 0
        BY <1>3, <1>14 DEF Moving
    <2>3. \A x \in Brokers : \A s \in mayRecover'[x] : s.owned[e] # 0 => x = c /\ s.owned[e] = k
        BY <1>2, <1>5, <1>14 DEF Moving
    <2>4. \A x \in Brokers : \A s \in Copies(x)' : \E t \in Copies(x) :
             /\ s.forwarded[e] <= t.forwarded[e] /\ s.pending[e] \in {None, t.pending[e]}
        BY <1>9 DEF Weaker
    <2> QED
        BY <1>5, <1>14, <2>1, <2>2, <2>3, <2>4, MovingStays
<1>15. Quiet(e) => Quiet(e)'
    <2>1. \A x \in Brokers : \A s \in Copies(x)' : \E t \in Copies(x) :
             /\ s.owned[e] \in {0, t.owned[e]} /\ s.pending[e] \in {None, t.pending[e]}
        BY <1>9 DEF Weaker
    <2> QED
        BY <1>5, <1>6, <2>1, QuietStays
<1>16. Settled(e)'
    BY <1>13, <1>14, <1>15 DEF EntitySound, Settled
<1> QED
    BY <1>3, <1>10, <1>11, <1>12, <1>16 DEF EntitySound

\* A broker comes back from what its log may be: with what it owned, with what it
\* had parked, or, where it was the target of an adopt that failed, as the owner.
LEMMA RestartSound ==
    ASSUME TypeOK, TypeOK', LogSound, NEW b \in Brokers, NEW e \in Entities,
           EntitySound(e), Restart(b)
    PROVE  EntitySound(e)'
<1>1. PICK s \in mayRecover[b] :
         /\ ram' = [ram EXCEPT ![b] = s] /\ logged' = [logged EXCEPT ![b] = s]
         /\ mayRecover' = [mayRecover EXCEPT ![b] = {s}]
    BY DEF Restart, Recovered
<1>2. s \in Copies(b) /\ s.owned[e] \in Nat /\ s.forwarded[e] \in Nat /\ WellFormed(b, s, e)
    <2>1. s \in Copies(b)
        BY <1>1 DEF Copies
    <2> QED
        BY <2>1, CopyType DEF EntitySound
<1>3. /\ \A x \in Brokers \ {b} :
            /\ Copies(x)' = Copies(x) /\ ram'[x] = ram[x] /\ logged'[x] = logged[x]
            /\ mayRecover'[x] = mayRecover[x] /\ degraded'[x] = degraded[x]
      /\ Copies(b)' = {s} /\ ram'[b] = s /\ logged'[b] = s /\ mayRecover'[b] = {s}
    <2>1. degraded' = [degraded EXCEPT ![b] = FALSE]
        BY DEF Restart
    <2> QED
        BY <1>1, <2>1 DEF TypeOK, Copies
<1>4. \A x \in Brokers : mayRecover'[x] \subseteq mayRecover[x] /\ Copies(x)' \subseteq Copies(x)
    BY <1>1, <1>2, <1>3
<1>5. /\ \A x \in Brokers, j \in Nat : Seen(x, e, j) => Seen(x, e, j)'
      /\ \A x \in Brokers : Gone(x, e) => Gone(x, e)'
      /\ \A x \in Brokers : \A t \in Copies(x)' : \E u \in Copies(x) : Weaker(t, u, e)
    <2>1. /\ \A x \in Brokers, j \in Nat : Seen(x, e, j) => Seen(x, e, j)'
          /\ \A x \in Brokers : Gone(x, e) => Gone(x, e)'
        BY <1>4 DEF Seen, Gone
    <2> QED
        BY <1>4, <2>1, WeakerSelf
<1>6. \A l \in Links, j \in Nat : /\ Flying(l, e, j)' => Flying(l, e, j)
                                  /\ Answered(l, e, j)' => Answered(l, e, j)
    <2>1. \A l \in Links : /\ frames'[l] = frames[l] \/ frames'[l] = <<>>
                           /\ acks'[l] = acks[l] \/ acks'[l] = <<>>
        BY DEF Restart
    <2> QED
        BY <2>1, NothingNewInFlight
<1>7. \A x \in Brokers : \A t \in Copies(x)' : WellFormed(x, t, e)
    BY <1>4 DEF EntitySound
<1>8. \A x \in Brokers : LogAgrees(x, e)'
    <2>1. LogAgrees(b, e)'
        BY <1>3 DEF LogAgrees
    <2>2. \A x \in Brokers \ {b} : LogAgrees(x, e)'
        BY <1>3 DEF LogAgrees, EntitySound
    <2> QED
        BY <2>1, <2>2
<1>9. \A x \in Brokers : e \in ram'[x].deleted => Gone(x, e)'
    <2>1. e \in s.deleted => Gone(b, e)'
        BY <1>3 DEF Gone
    <2> QED
        BY <1>3, <1>5, <2>1 DEF EntitySound
<1>10. ASSUME NEW h \in Brokers, Held(h, e)
       PROVE  \/ Held(h, e)'
              \/ \E c \in Brokers, k \in Nat : Moving(h, c, k, e)' /\ StaysParked(h, c, k, e)'
              \/ Quiet(e)' /\ Gone(h, e)'
    <2>1. ram[h] \in Copies(h)
        BY DEF Copies
    <2>2. PICK r \in Nat : r = ram[h].owned[e]
        BY <2>1, CopyType
    <2>3. r # 0 /\ \A t \in mayRecover[h] : SourceMay(t, e, r)
        BY <1>10, <2>2 DEF Held
    <2>4. CASE h # b
        <3>1. r = ram'[h].owned[e] /\ ram[h].owned[e] <= r
            BY <1>3, <2>2, <2>4
        <3>2. \A t \in mayRecover'[h] : SourceMay(t, e, r)
            BY <1>4, <2>3
        <3>3. \A l \in Links, j \in Nat :
                 /\ Flying(l, e, j)' => Flying(l, e, j) \/ (j <= r /\ Seen(l[2], e, j))
                 /\ Answered(l, e, j)' => Answered(l, e, j) \/ j <= r
            BY <1>6
        <3> QED
            BY <1>5, <1>10, <3>1, <3>2, <3>3, HeldStays
    <2>5. CASE h = b /\ s.owned[e] # 0
        <3>1. PICK q \in Nat : q = s.owned[e]
            BY <1>2
        <3>2. q = ram'[h].owned[e] /\ ram[h].owned[e] <= q /\ q # 0
            BY <1>1, <1>3, <2>2, <2>3, <2>5, <3>1 DEF SourceMay
        <3>3. \A t \in mayRecover'[h] : SourceMay(t, e, q)
            BY <1>2, <1>3, <2>5, <3>1 DEF SourceMay, WellFormed
        <3>4. \A l \in Links, j \in Nat :
                 /\ Flying(l, e, j)' => Flying(l, e, j) \/ (j <= q /\ Seen(l[2], e, j))
                 /\ Answered(l, e, j)' => Answered(l, e, j) \/ j <= q
            BY <1>6
        <3> QED
            BY <1>5, <1>10, <3>2, <3>3, <3>4, HeldStays
    <2>6. CASE h = b /\ s.owned[e] = 0 /\ s.pending[e] # None
        <3>1. PICK c \in Brokers, k \in Nat : c = s.pending[e].to /\ k = s.pending[e].epoch
            BY <1>2, <2>6, CopyType
        <3>2. k = r + 1 /\ s.forwarded[e] = k /\ h # c
            BY <1>1, <1>2, <2>3, <2>6, <3>1 DEF SourceMay, WellFormed
        <3>3. \A x \in Brokers : \A t \in Copies(x)' : t.owned[e] = 0
            BY <1>3, <1>10, <2>6 DEF Held
        <3>4. ASSUME NEW x \in Brokers, NEW t \in Copies(x)'
              PROVE  /\ t.forwarded[e] <= k /\ (x # h => t.forwarded[e] < k)
                     /\ t.pending[e] # None =>
                           LET p == t.pending[e] IN
                           \/ p.epoch < k /\ Seen(p.to, e, p.epoch)'
                           \/ x = h /\ p.to = c /\ p.epoch = k
            <4>1. CASE x = h
                <5>1. t = s
                    BY <1>3, <2>6, <4>1
                <5>2. s.forwarded[e] <= k
                    BY <3>1, <3>2
                <5>3. s.pending[e].to = c /\ s.pending[e].epoch = k
                    BY <3>1
                <5> QED
                    BY <4>1, <5>1, <5>2, <5>3
            <4>2. CASE x # h
                <5>1. t \in Copies(x) /\ t.forwarded[e] <= r /\ t.forwarded[e] \in Nat
                    BY <1>4, <1>10, <2>2, <4>2, CopyType DEF Held
                <5>2. ASSUME t.pending[e] # None
                      PROVE  /\ t.pending[e].epoch < k
                             /\ Seen(t.pending[e].to, e, t.pending[e].epoch)'
                    <6>1. /\ t.pending[e].to \in Brokers /\ t.pending[e].epoch \in Nat
                          /\ t.pending[e].epoch = t.forwarded[e]
                        BY <5>1, <5>2, CopyType DEF EntitySound, WellFormed
                    <6>2. Seen(t.pending[e].to, e, t.pending[e].epoch)
                        BY <1>10, <4>2, <5>1, <5>2 DEF Held
                    <6> QED
                        BY <1>5, <3>2, <5>1, <6>1, <6>2
                <5> QED
                    BY <3>2, <4>2, <5>1, <5>2
            <4> QED
                BY <4>1, <4>2
        <3>5. ASSUME NEW l \in Links, NEW j \in Nat
              PROVE  /\ Flying(l, e, j)' => \/ j < k /\ Seen(l[2], e, j)'
                                            \/ l = <<h, c>> /\ j = k
                     /\ Answered(l, e, j)' => j < k
            <4>1. l[2] \in Brokers
                BY DEF Links
            <4>2. Flying(l, e, j) => j <= r /\ Seen(l[2], e, j)
                BY <1>10, <2>2 DEF Held
            <4>3. Answered(l, e, j) => j <= r
                BY <1>10, <2>2 DEF Held
            <4> QED
                BY <1>5, <1>6, <3>2, <4>1, <4>2, <4>3
        <3>6. /\ \A x \in Brokers : ram'[x].owned[e] = 0
              /\ \A x \in Brokers : \A t \in mayRecover'[x] : t.owned[e] = 0
            BY <3>3 DEF Copies
        <3>7. Moving(h, c, k, e)'
            BY <3>2, <3>4, <3>5, <3>6 DEF Moving
        <3>8. StaysParked(h, c, k, e)'
            BY <1>3, <2>6, <3>1 DEF StaysParked
        <3> QED
            BY <3>7, <3>8
    <2>7. CASE h = b /\ s.owned[e] = 0 /\ s.pending[e] = None
        <3>1. e \in s.deleted
            BY <1>1, <2>3, <2>7 DEF SourceMay
        <3>2. Gone(h, e)'
            BY <1>3, <2>7, <3>1 DEF Gone
        <3>3. ASSUME NEW x \in Brokers, NEW t \in Copies(x)'
              PROVE  /\ t.owned[e] = 0
                     /\ t.pending[e] # None => Seen(t.pending[e].to, e, t.pending[e].epoch)'
            <4>1. CASE x = h
                BY <1>3, <2>7, <4>1
            <4>2. CASE x # h
                <5>1. t \in Copies(x)
                    BY <1>4
                <5> QED
                    BY <1>5, <1>10, <4>2, <5>1, CopyType DEF Held
            <4> QED
                BY <4>1, <4>2
        <3>4. \A l \in Links, j \in Nat : Flying(l, e, j)' => Seen(l[2], e, j)'
            BY <1>5, <1>6, <1>10 DEF Held, Links
        <3>5. Quiet(e)'
            BY <3>3, <3>4 DEF Quiet
        <3> QED
            BY <3>2, <3>5
    <2> QED
        BY <2>4, <2>5, <2>6, <2>7
<1>11. ASSUME NEW h \in Brokers, NEW c \in Brokers, NEW k \in Nat, Moving(h, c, k, e)
       PROVE  \/ Held(c, e)'
              \/ /\ Moving(h, c, k, e)'
                 /\ StaysParked(h, c, k, e) => StaysParked(h, c, k, e)'
    <2>1. CASE s.owned[e] # 0
        <3>1. b = c /\ s.owned[e] = k /\ k # 0
            BY <1>1, <1>11, <2>1 DEF Moving
        <3>2. ram'[c].owned[e] = k /\ mayRecover'[c] = {s} /\ SourceMay(s, e, k)
            BY <1>2, <1>3, <3>1 DEF SourceMay, WellFormed
        <3>3. Seen(c, e, k)'
            BY <3>1, <3>2 DEF Seen, Past
        <3>4. ASSUME NEW x \in Brokers \ {c}, NEW t \in Copies(x)'
              PROVE  /\ t.owned[e] = 0 /\ t.forwarded[e] <= k
                     /\ t.pending[e] # None => Seen(t.pending[e].to, e, t.pending[e].epoch)'
            <4>1. t \in Copies(x)
                BY <1>4
            <4>2. t.owned[e] = 0
                BY <1>11, <4>1 DEF Moving, Copies
            <4>3. t.forwarded[e] <= k
                BY <1>11, <4>1 DEF Moving
            <4>4. ASSUME t.pending[e] # None
                  PROVE  Seen(t.pending[e].to, e, t.pending[e].epoch)'
                <5>1. t.pending[e].to \in Brokers /\ t.pending[e].epoch \in Nat
                    BY <4>1, <4>4, CopyType
                <5>2. \/ Seen(t.pending[e].to, e, t.pending[e].epoch)
                      \/ t.pending[e].to = c /\ t.pending[e].epoch = k
                    BY <1>11, <4>1, <4>4 DEF Moving
                <5> QED
                    BY <1>5, <3>3, <5>1, <5>2
            <4> QED
                BY <4>2, <4>3, <4>4
        <3>5. ASSUME NEW m \in Links, NEW j \in Nat
              PROVE  /\ Flying(m, e, j)' => j <= k /\ Seen(m[2], e, j)'
                     /\ Answered(m, e, j)' => j <= k
            <4>1. m[2] \in Brokers /\ (m = <<h, c>> => m[2] = c)
                BY DEF Links
            <4>2. Flying(m, e, j) => (j < k /\ Seen(m[2], e, j)) \/ (m[2] = c /\ j = k)
                BY <1>11, <4>1 DEF Moving
            <4>3. Answered(m, e, j) => j < k
                BY <1>11 DEF Moving
            <4> QED
                BY <1>5, <1>6, <3>3, <4>1, <4>2, <4>3
        <3>6. Held(c, e)'
            BY <3>1, <3>2, <3>4, <3>5 DEF Held
        <3> QED
            BY <3>6
    <2>2. CASE s.owned[e] = 0
        <3>1. \A x \in Brokers : ram'[x].owned[e] = 0
            BY <1>3, <1>11, <2>2 DEF Moving
        <3>2. \A x \in Brokers : \A t \in mayRecover'[x] : t.owned[e] # 0 => x = c /\ t.owned[e] = k
            BY <1>4, <1>11 DEF Moving
        <3>3. \A x \in Brokers : \A t \in Copies(x)' : \E u \in Copies(x) :
                 /\ t.forwarded[e] <= u.forwarded[e] /\ t.pending[e] \in {None, u.pending[e]}
            BY <1>5 DEF Weaker
        <3>4. \A l \in Links, j \in Nat :
                 /\ Flying(l, e, j)' => \/ Flying(l, e, j) \/ (j < k /\ Seen(l[2], e, j))
                                        \/ (l = <<h, c>> /\ j = k)
                 /\ Answered(l, e, j)' => Answered(l, e, j) \/ j < k
            BY <1>6
        <3>5. Moving(h, c, k, e)'
            BY <1>5, <1>11, <3>1, <3>2, <3>3, <3>4, MovingStays
        <3>6. StaysParked(h, c, k, e) => StaysParked(h, c, k, e)'
            BY <1>4 DEF StaysParked
        <3> QED
            BY <3>5, <3>6
    <2> QED
        BY <2>1, <2>2
<1>12. Quiet(e) => Quiet(e)'
    <2>1. \A x \in Brokers : \A t \in Copies(x)' : \E u \in Copies(x) :
             /\ t.owned[e] \in {0, u.owned[e]} /\ t.pending[e] \in {None, u.pending[e]}
        BY <1>5 DEF Weaker
    <2> QED
        BY <1>5, <1>6, <2>1, QuietStays
<1>13. Settled(e)'
    BY <1>10, <1>11, <1>12 DEF EntitySound, Settled
<1>14. ~Compaction => Kept(e)'
    BY <1>5, <1>10, <1>11 DEF EntitySound, Kept
<1> QED
    BY <1>7, <1>8, <1>9, <1>13, <1>14 DEF EntitySound

(***************************************************************************)
(* The invariant holds.                                                    *)
(***************************************************************************)
LEMMA InitInv == ASSUME Init PROVE Inv
<1>1. TypeOK /\ LogSound
    BY InitTypes
<1>2. PICK home \in [Entities -> Brokers] : ram = [b \in Brokers |-> InitialStore(b, home)]
    BY DEF Init
<1>3. ASSUME NEW e \in Entities PROVE EntitySound(e)
    <2>1. \A b \in Brokers : \A s \in Copies(b) :
             /\ s = ram[b] /\ s.owned[e] = (IF home[e] = b THEN 1 ELSE 0)
             /\ s.forwarded[e] = 0 /\ s.pending[e] = None /\ e \notin s.deleted
        BY <1>2 DEF Init, Copies, InitialStore
    <2>2. \A b \in Brokers : ram[b] \in Copies(b) /\ logged[b] = ram[b] /\ mayRecover[b] = {ram[b]}
        BY DEF Init, Copies
    <2>3. PICK h \in Brokers : h = home[e]
        OBVIOUS
    <2>4. \A l \in Links, k \in Nat : ~Flying(l, e, k) /\ ~Answered(l, e, k)
        BY DEF Init, Flying, Answered
    <2>5. ram[h].owned[e] = 1
        BY <2>1, <2>2, <2>3
    <2>6. \A s \in mayRecover[h] : SourceMay(s, e, 1)
        BY <2>1, <2>2, <2>3 DEF SourceMay
    <2>7. \A x \in Brokers \ {h} : \A s \in Copies(x) :
             s.owned[e] = 0 /\ s.forwarded[e] <= 1 /\ s.pending[e] = None
        BY <2>1, <2>3
    <2>8. Held(h, e)
        BY <2>4, <2>5, <2>6, <2>7 DEF Held
    <2>9. \A b \in Brokers : \A s \in Copies(b) : WellFormed(b, s, e)
        BY <2>1 DEF WellFormed
    <2>10. \A b \in Brokers : LogAgrees(b, e)
        BY <2>1, <2>2 DEF LogAgrees
    <2>11. \A b \in Brokers : e \notin ram[b].deleted
        BY <2>1, <2>2
    <2> QED
        BY <2>8, <2>9, <2>10, <2>11 DEF EntitySound, Settled, Kept
<1> QED
    BY <1>1, <1>3 DEF Inv

\* Every handler keeps every entity sound, or the entity has been misled.
LEMMA StepInv == ASSUME Inv, [Next]_vars PROVE Inv'
<1>1. TypeOK /\ LogSound /\ \A e \in Entities \ misled : EntitySound(e)
    BY DEF Inv
<1>2. TypeOK' /\ LogSound'
    BY <1>1, StepTypes
<1> SUFFICES ASSUME NEW e \in Entities, e \notin misled'
             PROVE  EntitySound(e)'
    BY <1>2 DEF Inv
<1>3. misled \subseteq misled' => EntitySound(e)
    BY <1>1
<1>4. ASSUME UNCHANGED <<ram, disk, misled>>,
             \A l \in Links, k \in Nat : /\ Flying(l, e, k)' => Flying(l, e, k)
                                         /\ Answered(l, e, k)' => Answered(l, e, k)
      PROVE  EntitySound(e)'
    <2>1. \A s : SameAt(s, s, e)
        BY DEF SameAt
    <2>2. Untouched(e)
        BY <1>4, <2>1 DEF Untouched, disk
    <2> QED
        BY <1>1, <1>3, <1>4, <2>2, UntouchedSound
<1>5. ASSUME NEW b \in Brokers, NEW c \in Brokers \ {b}, NEW d \in Entities, Forward(b, c, d)
      PROVE  EntitySound(e)'
    <2>1. EntitySound(e)
        BY <1>3, <1>5 DEF Forward
    <2>2. CASE d = e
        BY <1>1, <1>2, <1>5, <2>1, <2>2, ForwardSound
    <2>3. CASE d # e
        <3>1. PICK p \in Parked : p = [to |-> c, epoch |-> ram[b].owned[d] + 1, lease |-> lease[b]]
            <4>1. ram[b] \in Store /\ lease[b] \in Nat
                BY <1>1 DEF TypeOK
            <4>2. ram[b].owned[d] + 1 \in Nat
                BY <4>1 DEF Store
            <4> QED
                BY <4>1, <4>2 DEF Parked
        <3>2. /\ \/ Durably(b, Departed(logged[b], d, p))
                    /\ ram' = [ram EXCEPT ![b] = Departed(@, d, p)] /\ Send(b, d, p)
                 \/ NotDurably(b, Departed(logged[b], d, p)) /\ UNCHANGED <<ram, frames>>
              /\ acks' = acks
            BY <1>5, <3>1 DEF Forward
        <3>3. \A l \in Links, k \in Nat : /\ Flying(l, e, k)' => Flying(l, e, k)
                                          /\ Answered(l, e, k)' => Answered(l, e, k)
            BY <1>1, <2>3, <3>2, SendFlies DEF Answered, Flying
        <3>4. logged[b] \in Store /\ ram[b] \in Store
            BY <1>1 DEF TypeOK
        <3>5. Untouched(e)
            BY <1>1, <2>3, <3>2, <3>3, <3>4, DepartedIs, RecordUntouched
        <3> QED
            BY <1>1, <2>1, <3>5, UntouchedSound
    <2> QED
        BY <2>2, <2>3
<1>6. ASSUME NEW b \in Brokers, NEW d \in Entities, Resend(b, d)
      PROVE  EntitySound(e)'
    <2>1. EntitySound(e) /\ UNCHANGED <<ram, disk, misled>> /\ acks' = acks
        BY <1>3, <1>6 DEF Resend
    <2>2. CASE d = e
        BY <1>1, <1>2, <1>6, <2>1, <2>2, ResendSound
    <2>3. CASE d # e
        <3>1. PICK p \in Parked : Send(b, d, p)
            <4>1. ram[b] \in Copies(b) /\ ram[b].pending[d] # None
                BY <1>6 DEF Copies, Resend
            <4> QED
                BY <1>1, <1>6, <4>1, CopyType DEF Resend
        <3>2. \A l \in Links, k \in Nat : /\ Flying(l, e, k)' => Flying(l, e, k)
                                          /\ Answered(l, e, k)' => Answered(l, e, k)
            BY <1>1, <2>1, <2>3, <3>1, SendFlies DEF Answered
        <3> QED
            BY <1>4, <2>1, <3>2
    <2> QED
        BY <2>2, <2>3
<1>7. ASSUME NEW b \in Brokers, NEW d \in Entities, AdvanceEpoch(b, d)
      PROVE  EntitySound(e)'
    <2>1. EntitySound(e) /\ UNCHANGED <<frames, acks>>
        BY <1>3, <1>7 DEF AdvanceEpoch, wire
    <2>2. CASE d = e
        BY <1>1, <1>2, <1>7, <2>1, <2>2, AdvanceSound
    <2>3. CASE d # e
        <3>1. logged[b] \in Store /\ ram[b] \in Store
            BY <1>1 DEF TypeOK
        <3>2. PICK k \in Nat : k = ram[b].owned[d] + 1
            BY <3>1 DEF Store
        <3>3. /\ Durably(b, Granted(logged[b], d, k)) \/ NotDurably(b, Granted(logged[b], d, k))
              /\ ram' = ram \/ ram' = [ram EXCEPT ![b] = Granted(ram[b], d, k)]
            BY <1>7, <3>2 DEF AdvanceEpoch, Granted
        <3>4. \A l \in Links, j \in Nat : /\ Flying(l, e, j)' => Flying(l, e, j)
                                          /\ Answered(l, e, j)' => Answered(l, e, j)
            BY <2>1, NothingNewInFlight
        <3>5. Untouched(e)
            BY <1>1, <2>3, <3>1, <3>3, <3>4, GrantedIs, RecordUntouched
        <3> QED
            BY <1>1, <2>1, <3>5, UntouchedSound
    <2> QED
        BY <2>2, <2>3
<1>8. ASSUME NEW b \in Brokers, NEW d \in Entities, DeleteEntity(b, d)
      PROVE  EntitySound(e)'
    <2>1. EntitySound(e) /\ UNCHANGED <<frames, acks>>
        BY <1>3, <1>8 DEF DeleteEntity, wire
    <2>2. CASE d = e
        BY <1>1, <1>2, <1>8, <2>1, <2>2, DeleteSound
    <2>3. CASE d # e
        <3>1. logged[b] \in Store /\ ram[b] \in Store
            BY <1>1 DEF TypeOK
        <3>2. /\ Durably(b, Tombstoned(logged[b], d)) \/ NotDurably(b, Tombstoned(logged[b], d))
              /\ ram' = ram \/ ram' = [ram EXCEPT ![b] = Tombstoned(ram[b], d)]
            BY <1>8 DEF DeleteEntity
        <3>3. \A l \in Links, j \in Nat : /\ Flying(l, e, j)' => Flying(l, e, j)
                                          /\ Answered(l, e, j)' => Answered(l, e, j)
            BY <2>1, NothingNewInFlight
        <3>4. Untouched(e)
            BY <1>1, <2>3, <3>1, <3>2, <3>3, TombstonedIs, RecordUntouched
        <3> QED
            BY <1>1, <2>1, <3>4, UntouchedSound
    <2> QED
        BY <2>2, <2>3
<1>9. ASSUME NEW b \in Brokers, Compact(b)
      PROVE  EntitySound(e)'
    BY <1>1, <1>2, <1>3, <1>9, CompactSound DEF Compact
<1>10. ASSUME NEW b \in Brokers, Restart(b)
       PROVE  EntitySound(e)'
    BY <1>1, <1>2, <1>3, <1>10, RestartSound DEF Restart
<1>11. ASSUME NEW l \in Links, Refuse(l)
       PROVE  EntitySound(e)'
    <2>1. Delivered(l) /\ UNCHANGED <<ram, disk, misled, acks>>
        BY <1>11 DEF Refuse, Delivered
    <2>2. \A m \in Links, k \in Nat : /\ Flying(m, e, k)' => Flying(m, e, k)
                                      /\ Answered(m, e, k)' => Answered(m, e, k)
        BY <1>1, <2>1, DeliveryFlies DEF Answered
    <2> QED
        BY <1>4, <2>1, <2>2
<1>12. ASSUME NEW l \in Links, AckStale(l) \/ AckPresent(l)
       PROVE  EntitySound(e)'
    <2>1. /\ Delivered(l) /\ UNCHANGED <<ram, disk, misled>> /\ frames[l] # <<>>
          /\ UNCHANGED acks \/ Reply(l, Head(frames[l]).epoch)
        BY <1>12 DEF AckStale, AckPresent, Delivered
    <2>2. EntitySound(e)
        BY <1>3, <2>1
    <2>3. CASE e = Head(frames[l]).e
        BY <1>1, <1>2, <1>12, <2>2, <2>3, AnswerSound
    <2>4. CASE e # Head(frames[l]).e
        <3>1. \A m \in Links, k \in Nat : Flying(m, e, k)' => Flying(m, e, k)
            BY <1>1, <2>1, DeliveryFlies
        <3>2. \A m \in Links, k \in Nat : Answered(m, e, k)' => Answered(m, e, k)
            <4>1. CASE UNCHANGED acks
                BY <4>1 DEF Answered
            <4>2. CASE Reply(l, Head(frames[l]).epoch)
                <5>1. Head(frames[l]).epoch \in Nat
                    BY <1>1, <2>1, FrameType
                <5> QED
                    BY <1>1, <2>1, <2>4, <4>2, <5>1, ReplyAnswers
            <4> QED
                BY <2>1, <4>1, <4>2
        <3> QED
            BY <1>4, <2>1, <3>1, <3>2
    <2> QED
        BY <2>3, <2>4
<1>13. ASSUME NEW l \in Links, Adopt(l)
       PROVE  EntitySound(e)'
    <2>1. frames[l] # <<>> /\ misled' = misled
        BY <1>13 DEF Adopt, Delivered
    <2>2. EntitySound(e)
        BY <1>3, <2>1
    <2>3. CASE e = Head(frames[l]).e
        BY <1>1, <1>2, <1>13, <2>1, <2>2, <2>3, AdoptSound
    <2>4. CASE e # Head(frames[l]).e
        <3>1. Head(frames[l]).e \in Entities
            BY <1>1, <2>1, FrameType
        <3>2. Untouched(e)
            BY <1>1, <1>13, <2>1, <2>4, <3>1, AdoptUntouched
        <3> QED
            BY <1>1, <2>2, <3>2, UntouchedSound
    <2> QED
        BY <2>3, <2>4
<1>14. ASSUME NEW l \in Links, ReceiveAck(l)
       PROVE  EntitySound(e)'
    <2> DEFINE b == l[1]
               d == Head(acks[l]).e
    <2>1. acks[l] # <<>> /\ misled \subseteq misled' /\ acks' = [acks EXCEPT ![l] = Tail(@)]
          /\ frames' = frames
        BY <1>14 DEF ReceiveAck
    <2>2. EntitySound(e)
        BY <1>3, <2>1
    <2>3. CASE e = d
        BY <1>1, <1>2, <1>14, <2>1, <2>2, <2>3, AckSound
    <2>4. CASE e # d
        <3>1. b \in Brokers /\ d \in Entities
            BY <1>1, <2>1, AckType
        <3>2. logged[b] \in Store /\ ram[b] \in Store
            BY <1>1, <3>1 DEF TypeOK
        <3>3. /\ Durably(b, AckReplayed(logged[b], d)) \/ NotDurably(b, AckReplayed(logged[b], d))
              /\ ram' = ram \/ ram' = [ram EXCEPT ![b] = [ram[b] EXCEPT !.pending[d] = None]]
            BY <1>14 DEF ReceiveAck
        <3>4. \A m \in Links, k \in Nat : /\ Flying(m, e, k)' => Flying(m, e, k)
                                          /\ Answered(m, e, k)' => Answered(m, e, k)
            BY <1>1, <2>1, AckTaken DEF Flying
        <3>5. PICK a \in Brokers, o \in Entities : a = b /\ o = d
            BY <3>1
        <3>6. AckReplayed(logged[a], o) \in Store /\ [ram[a] EXCEPT !.pending[o] = None] \in Store
            BY <3>2, <3>5, AckReplayedIs, ReleasedIs
        <3>7. /\ SameElsewhere(logged[a], AckReplayed(logged[a], o), o)
              /\ SameElsewhere(ram[a], [ram[a] EXCEPT !.pending[o] = None], o)
            BY <3>2, <3>5, AckReplayedIs, ReleasedIs
        <3>8. Untouched(e)
            <4> HIDE DEF b, d
            <4> QED
                BY <1>1, <2>4, <3>3, <3>4, <3>5, <3>6, <3>7, RecordUntouched
        <3> QED
            BY <1>1, <2>2, <3>8, UntouchedSound
    <2> QED
        BY <2>3, <2>4
<1>15. ASSUME NEW l \in Links, Connect(l) \/ Break(l) \/ Teardown(l)
       PROVE  EntitySound(e)'
    <2>1. /\ UNCHANGED <<ram, disk, misled>>
          /\ \A m \in Links : /\ frames'[m] = frames[m] \/ frames'[m] = <<>>
                              /\ acks'[m] = acks[m] \/ acks'[m] = <<>>
        BY <1>1, <1>15 DEF Connect, Break, Teardown, TypeOK
    <2> QED
        BY <1>4, <2>1, NothingNewInFlight
<1>16. ASSUME NEW b \in Brokers, NEW c \in Brokers, Learn(c, b)
       PROVE  EntitySound(e)'
    BY <1>4, <1>16, NothingNewInFlight DEF Learn, wire
<1>17. CASE UNCHANGED vars
    BY <1>4, <1>17, NothingNewInFlight DEF vars, wire
<1> QED
    BY <1>5, <1>6, <1>7, <1>8, <1>9, <1>10, <1>11, <1>12, <1>13, <1>14, <1>15, <1>16, <1>17
    DEF Next

(***************************************************************************)
(* The theorems.                                                           *)
(***************************************************************************)
\* Whatever order hand-offs, resends, acks, failures and restarts come in, the
\* brokers' stores and logs stay in the invariant's shape: each entity has one
\* owner, or one hand-off on its way, or is nowhere.
THEOREM MeshInv == Spec => []Inv
<1>1. Init => Inv
    BY InitInv
<1>2. Inv /\ [Next]_vars => Inv'
    BY StepInv
<1> QED
    BY <1>1, <1>2, PTL DEF Spec

\* Every field keeps its type through every handler.
THEOREM MeshTypeCorrect == Spec => []TypeOK
<1>1. Inv => TypeOK
    BY DEF Inv
<1> QED
    BY <1>1, MeshInv, PTL

\* An owner leaves no copy elsewhere, and a hand-off on its way only its target's.
LEMMA OneOwner ==
    ASSUME Inv, NEW e \in Entities \ misled, NEW b \in Brokers, NEW c \in Brokers, b # c,
           NEW s \in Copies(b), NEW t \in Copies(c)
    PROVE  s.owned[e] = 0 \/ t.owned[e] = 0
<1>1. Settled(e)
    BY DEF Inv, EntitySound
<1>2. CASE \E h \in Brokers : Held(h, e)
    BY <1>2 DEF Held
<1>3. CASE \E h, d \in Brokers, k \in Nat : Moving(h, d, k, e)
    <2>1. PICK h \in Brokers, d \in Brokers, k \in Nat : Moving(h, d, k, e)
        BY <1>3
    <2>2. ASSUME NEW x \in Brokers, NEW u \in Copies(x), u.owned[e] # 0
          PROVE  x = d
        BY <2>1, <2>2 DEF Moving, Copies
    <2> QED
        BY <2>2
<1>4. CASE Quiet(e)
    BY <1>4 DEF Quiet
<1> QED
    BY <1>1, <1>2, <1>3, <1>4 DEF Settled

\* A departure is durable before it is sent and a resend never brings back what
\* left: no two brokers own an entity, in RAM or after whatever crash, unless a late
\* ack was taken for its new stay (mesh_forward, mesh_forwarded_epoch).
THEOREM MeshSingleOwner == Spec => []SingleOwnerUnlessMisled
<1>1. Inv => SingleOwnerUnlessMisled
    BY OneOwner DEF SingleOwnerUnlessMisled
<1> QED
    BY <1>1, MeshInv, PTL

\* An owner's epoch is ahead of every fence and of every hand-off in flight, so a
\* resend of an old hop never outranks it (the MeshHandoff handler's epoch tests).
THEOREM MeshOwnerIsNewest == Spec => []OwnerIsNewestUnlessMisled
<1>1. ASSUME Inv, NEW b \in Brokers, NEW e \in Entities \ misled, ram[b].owned[e] # 0
      PROVE  /\ \A c \in Brokers : ram[c].forwarded[e] <= ram[b].owned[e]
             /\ \A l \in Links : \A i \in DOMAIN frames[l] :
                   frames[l][i].e = e => frames[l][i].epoch <= ram[b].owned[e]
    <2>1. TypeOK /\ EntitySound(e)
        BY <1>1 DEF Inv
    <2>2. \A c \in Brokers : ram[c].owned[e] \in Nat /\ ram[c] \in Copies(c)
        BY <2>1 DEF TypeOK, Store, Copies
    <2>3. Held(b, e)
        BY <1>1, <2>1, OwnerHolds
    <2>4. ASSUME NEW c \in Brokers
          PROVE  ram[c].forwarded[e] <= ram[b].owned[e]
        <3>1. CASE c = b
            BY <1>1, <2>1, <2>2, <3>1 DEF EntitySound, WellFormed
        <3>2. CASE c # b
            BY <2>2, <2>3, <3>2 DEF Held
        <3> QED
            BY <3>1, <3>2
    <2>5. ASSUME NEW l \in Links, NEW i \in DOMAIN frames[l], frames[l][i].e = e
          PROVE  frames[l][i].epoch <= ram[b].owned[e]
        <3>1. frames[l][i].epoch \in Nat
            <4>1. frames[l] \in Seq(Frame)
                BY <2>1 DEF TypeOK
            <4>2. frames[l][i] \in Frame
                BY <4>1, <2>5
            <4> QED
                BY <4>2 DEF Frame
        <3>2. Flying(l, e, frames[l][i].epoch)
            BY <2>5 DEF Flying
        <3> QED
            BY <2>3, <3>1, <3>2 DEF Held
    <2> QED
        BY <2>4, <2>5
<1>2. Inv => OwnerIsNewestUnlessMisled
    BY <1>1 DEF OwnerIsNewestUnlessMisled
<1> QED
    BY <1>2, MeshInv, PTL

\* What the invariant keeps somewhere is owned or parked, in RAM and in every crash
\* outcome of one broker.
LEMMA KeptSomewhere ==
    ASSUME Inv, NEW e \in Entities \ misled, Kept(e)
    PROVE  NothingLostFor(e)
<1>1. TypeOK /\ LogSound
    BY DEF Inv
<1>2. CASE \E b \in Brokers : Gone(b, e)
    <2>1. PICK b \in Brokers : Gone(b, e)
        BY <1>2
    <2>2. logged[b] \in Copies(b) /\ e \in logged[b].deleted
        BY <1>1, <2>1 DEF LogSound, Gone, Copies
    <2> QED
        BY <2>2 DEF NothingLostFor, Deleted
<1>3. CASE \E h \in Brokers : Held(h, e)
    <2>1. PICK h \in Brokers : Held(h, e)
        BY <1>3
    <2>2. Holds(ram[h], e)
        BY <2>1 DEF Held, Holds
    <2>3. ~Deleted(e) => \A s \in mayRecover[h] : Holds(s, e)
        BY <2>1 DEF Held, SourceMay, Holds, Deleted, Copies
    <2> QED
        BY <2>2, <2>3 DEF NothingLostFor
<1>4. CASE \E h, c \in Brokers, k \in Nat : Moving(h, c, k, e) /\ StaysParked(h, c, k, e)
    <2>1. PICK h \in Brokers, c \in Brokers, k \in Nat : StaysParked(h, c, k, e)
        BY <1>4
    <2>2. \A s \in Copies(h) : Holds(s, e)
        BY <2>1 DEF StaysParked, Holds
    <2> QED
        BY <2>2 DEF NothingLostFor, Copies
<1> QED
    BY <1>2, <1>3, <1>4 DEF Kept

\* While no log is compacted, an entity nobody deleted is owned or parked at some
\* broker in RAM, and at some broker whatever it comes back as, unless a late ack
\* was taken for its new stay (mesh_forward, record_mesh_ack, replay).
THEOREM MeshNothingLost == ASSUME ~Compaction PROVE Spec => []NothingLostUnlessMisled
<1>1. Inv => NothingLostUnlessMisled
    BY KeptSomewhere DEF Inv, EntitySound, NothingLostUnlessMisled
<1> QED
    BY <1>1, MeshInv, PTL
=============================================================================
