----------------------------- MODULE ViewProofs -----------------------------
(***************************************************************************)
(* Theorems of View, for every number of peers and entities and all that   *)
(* they do: the spatial hash, the views, the ghosts, and the consumers.    *)
(***************************************************************************)
EXTENDS View, FiniteSetTheorems, WellFoundedInduction, TLAPS

(***************************************************************************)
(* Handles.  What a handler does to one is told by what it leaves alone.   *)
(***************************************************************************)
Fields == {"claims", "aoi", "view", "seq", "tokens", "wire", "flag", "lossy", "stray",
           "unseen", "given", "due", "cut"}
IsHandle(s) == DOMAIN s = Fields
\* The same connection, which sees the same.
Akin(s, t) == IsHandle(t) /\ t.claims = s.claims /\ t.aoi = s.aoi
Same(s, t) == Akin(s, t) /\ t.view = s.view /\ t.given = s.given
\* Of all entities only e may be shown or hidden.
Apart(s, t, e) ==
    \A x \in Entities : x # e => /\ x \in t.view <=> x \in s.view
                                 /\ x \in t.given <=> x \in s.given
Only(s, t, e) == Akin(s, t) /\ Apart(s, t, e)
Alike(s, t) ==
    Akin(s, t) /\ \A x \in Entities : /\ x \in t.view <=> x \in s.view
                                      /\ x \in t.given <=> x \in s.given
Sees(hidden, s, e, p) == Interested(s, p) /\ (e \in hidden => Role(s.claims) = "worker")
Right(hidden, s, e, p) ==
    /\ Sees(hidden, s, e, p) => e \in s.view
    /\ e \in s.view => Sees(hidden, s, e, p) \/ e \in s.given

LEMMA VisibleIsSees == \A s, e, p : Visible(s, e, p) <=> Sees(conf.hidden, s, e, p)
BY DEF Visible, Sees

\* What a peer sees depends on its claims and its interest alone.
LEMMA AkinSees ==
    ASSUME NEW s, NEW t, Akin(s, t)
    PROVE  /\ \A h, e, p : Sees(h, t, e, p) <=> Sees(h, s, e, p)
           /\ Cells(t) = Cells(s)
           /\ IsGlobal(t) <=> IsGlobal(s)
           /\ GlobalObserver(t) <=> GlobalObserver(s)
<1>1. t.claims = s.claims /\ t.aoi = s.aoi
    BY DEF Akin
<1>2. \A p : DefaultInterest(t, p) = DefaultInterest(s, p)
    BY <1>1, Zenon DEF DefaultInterest, GlobalObserver
<1>3. \A p : Interested(t, p) = Interested(s, p)
    BY <1>1, <1>2, Zenon DEF Interested
<1>4. Cells(t) = Cells(s)
    BY <1>1, Zenon DEF Cells
<1> QED
    BY <1>1, <1>2, <1>3, <1>4, Zenon DEF Sees, IsGlobal, GlobalObserver

LEMMA AkinSelf == ASSUME NEW s, IsHandle(s) PROVE Same(s, s) /\ \A e : Only(s, s, e)
BY DEF Same, Only, Akin, Apart

LEMMA SameSame == ASSUME NEW s, NEW t, NEW u, Same(s, t), Same(t, u) PROVE Same(s, u)
BY DEF Same, Akin

LEMMA OnlyOnly ==
    ASSUME NEW s, NEW t, NEW u, NEW e, Only(s, t, e), Only(t, u, e) PROVE Only(s, u, e)
BY DEF Only, Akin, Apart

LEMMA SameOnly ==
    ASSUME NEW s, NEW t, NEW e, Same(s, t) PROVE Only(s, t, e)
BY DEF Same, Only, Akin, Apart

LEMMA SameAlike == ASSUME NEW s, NEW t, Same(s, t) PROVE Alike(s, t)
BY DEF Same, Akin, Alike

LEMMA EmitSame == ASSUME NEW s, IsHandle(s), NEW f PROVE Same(s, Emit(s, f))
<1>1. Same(s, s) /\ Same(s, [s EXCEPT !.flag = TRUE])
    BY DEF Same, Akin, IsHandle, Fields
<1>2. Same(s, Shed(s, f))
    BY DEF Same, Akin, IsHandle, Fields, Shed
<1>3. Same(s, Enqueue(s, f))
    BY DEF Same, Akin, IsHandle, Fields, Enqueue
<1> QED
    BY <1>1, <1>2, <1>3, Zenon DEF Emit

LEMMA EmitsSame ==
    ASSUME NEW s, IsHandle(s), NEW t, Same(s, t), NEW f PROVE Same(s, Emit(t, f))
BY EmitSame, SameSame DEF Same, Akin

(***************************************************************************)
(* What each handler shows of the entity it is about.                      *)
(***************************************************************************)
LEMMA SendFullShows ==
    ASSUME NEW s, IsHandle(s), NEW e, NEW p
    PROVE  /\ Akin(s, SendFull(s, e, p))
           /\ SendFull(s, e, p).view = s.view \cup {e}
           /\ SendFull(s, e, p).given = s.given
<1> DEFINE row == Emit(Emit(s, <<"begin">>), <<"add", e>>)
           full == Emit(Emit(row, <<"update", e, p>>), <<"end">>)
           seen == [full EXCEPT !.view = @ \cup {e}]
<1>1. Same(s, row)
    BY EmitsSame, AkinSelf
<1>2. Same(s, full)
    <2> HIDE DEF row
    <2> QED
        BY <1>1, EmitsSame
<1> HIDE DEF full
<1>3. Akin(s, seen) /\ seen.view = s.view \cup {e} /\ seen.given = s.given
    BY <1>2 DEF Same, Akin, IsHandle, Fields
<1>4. SendFull(s, e, p) =
        IF "pilot" \in s.claims.attributes THEN Emit(seen, <<"authority", e>>) ELSE seen
    BY Zenon DEF SendFull, full
<1> HIDE DEF seen
<1>5. Same(seen, SendFull(s, e, p))
    BY <1>3, <1>4, EmitSame, AkinSelf DEF Akin
<1> QED
    BY <1>3, <1>5 DEF Same, Akin

LEMMA SendGhostShows ==
    ASSUME NEW s, IsHandle(s), NEW e, NEW p
    PROVE  /\ Akin(s, SendGhost(s, e, p))
           /\ SendGhost(s, e, p).view = s.view \cup {e}
           /\ SendGhost(s, e, p).given = s.given
<1> DEFINE row == Emit(Emit(Emit(s, <<"begin">>), <<"add", e>>), <<"ghost", e>>)
           full == Emit(Emit(row, <<"update", e, p>>), <<"end">>)
<1>1. Same(s, row)
    BY EmitsSame, AkinSelf
<1>2. Same(s, full)
    <2> HIDE DEF row
    <2> QED
        BY <1>1, EmitsSame
<1>3. SendGhost(s, e, p) = [full EXCEPT !.view = @ \cup {e}]
    BY Zenon DEF SendGhost
<1> HIDE DEF full
<1> QED
    BY <1>2, <1>3 DEF Same, Akin, IsHandle, Fields

LEMMA SendRemoveShows ==
    ASSUME NEW s, IsHandle(s), NEW e
    PROVE  /\ Akin(s, SendRemove(s, e))
           /\ SendRemove(s, e).view = s.view \ {e}
           /\ SendRemove(s, e).given = s.given \ {e}
BY EmitSame DEF SendRemove, Same, Akin, IsHandle, Fields

LEMMA RemoveShows ==
    ASSUME NEW s, IsHandle(s), NEW e
    PROVE  Only(s, RemoveFromView(s, e), e) /\ e \notin RemoveFromView(s, e).view
BY SendRemoveShows, AkinSelf DEF RemoveFromView, Only, Akin, Apart

LEMMA SendUpdateSame ==
    ASSUME NEW s, IsHandle(s), NEW e, NEW p PROVE Same(s, SendUpdate(s, e, p))
<1> DEFINE next == [s EXCEPT !.seq[e] = (@ + 1) % s.aoi.rate]
           v == Quantize(p, s.aoi.coarse)
           sent == Emit(next, <<"update", e, v>>)
<1>1. Same(s, next)
    BY DEF Same, Akin, IsHandle, Fields
<1>2. SendUpdate(s, e, p) =
        IF FullFidelity(s, p) THEN Emit(s, <<"update", e, p>>)
        ELSE IF s.seq[e] # 0 THEN [next EXCEPT !.lossy = @ \cup {e}]
             ELSE IF v = p THEN sent ELSE [sent EXCEPT !.lossy = @ \cup {e}]
    BY Zenon DEF SendUpdate
<1> HIDE DEF next, v
<1>3. Same(s, sent)
    BY <1>1, EmitsSame
<1>4. Same(s, [next EXCEPT !.lossy = @ \cup {e}])
    BY <1>1 DEF Same, Akin, IsHandle, Fields
<1> HIDE DEF sent
<1>5. Same(s, [sent EXCEPT !.lossy = @ \cup {e}])
    BY <1>3 DEF Same, Akin, IsHandle, Fields
<1> QED
    BY <1>2, <1>3, <1>4, <1>5, EmitSame, Zenon

LEMMA PropagateToShows ==
    ASSUME NEW s, IsHandle(s), NEW e, NEW p
    PROVE  /\ Only(s, PropagateTo(s, e, p), e)
           /\ e \in PropagateTo(s, e, p).view <=> Visible(s, e, p)
<1> DEFINE t == PropagateTo(s, e, p)
<1>1. CASE Visible(s, e, p) /\ e \notin s.view
    <2>1. t = SendFull(s, e, p)
        BY <1>1 DEF PropagateTo
    <2> HIDE DEF t
    <2> QED
        BY <1>1, <2>1, SendFullShows DEF Only, Akin, Apart, t
<1>2. CASE Visible(s, e, p) /\ e \in s.view
    <2>1. t = SendUpdate(s, e, p)
        BY <1>2 DEF PropagateTo
    <2>2. Same(s, t)
        BY <2>1, SendUpdateSame
    <2> HIDE DEF t
    <2> QED
        BY <1>2, <2>2, SameOnly DEF Same, t
<1>3. CASE ~Visible(s, e, p) /\ e \in s.view
    <2>1. t = SendRemove(s, e)
        BY <1>3 DEF PropagateTo
    <2> HIDE DEF t
    <2> QED
        BY <1>3, <2>1, SendRemoveShows DEF Only, Akin, Apart, t
<1>4. CASE ~Visible(s, e, p) /\ e \notin s.view
    <2>1. t = s
        BY <1>4 DEF PropagateTo
    <2> QED
        BY <1>4, <2>1, AkinSelf
<1> QED
    BY <1>1, <1>2, <1>3, <1>4

LEMMA GhostToShows ==
    ASSUME NEW s, IsHandle(s), NEW e, NEW p, NEW first
    PROVE  Only(s, GhostTo(s, e, p, first), e)
<1> DEFINE t == GhostTo(s, e, p, first)
<1>1. \/ t = SendGhost(s, e, p) \/ t = s \/ t = Emit(s, <<"update", e, p>>)
      \/ t = SendRemove(s, e)
    BY Zenon DEF GhostTo
<1> HIDE DEF t
<1>2. ASSUME t = SendGhost(s, e, p) PROVE Only(s, t, e)
    BY <1>2, SendGhostShows DEF Only, Akin, Apart
<1>3. ASSUME t = SendRemove(s, e) PROVE Only(s, t, e)
    BY <1>3, SendRemoveShows DEF Only, Akin, Apart
<1> QED
    BY <1>1, <1>2, <1>3, AkinSelf, EmitSame, SameOnly DEF t

LEMMA SpawnToShows ==
    ASSUME NEW w, NEW s, IsHandle(s), NEW e, NEW p
    PROVE  /\ Only(s, SpawnTo(w, s, e, p), e)
           /\ e \in SpawnTo(w, s, e, p).view <=> e \in s.view \/ Sees(conf.hidden, s, e, p)
<1> DEFINE seen == SendFull(s, e, p)
<1>1. Akin(s, seen) /\ seen.view = s.view \cup {e} /\ seen.given = s.given
    BY SendFullShows
<1>2. SpawnTo(w, s, e, p) =
        IF ~Visible(s, e, p) THEN s
        ELSE IF Serves[Region(p)] = w THEN Emit(seen, <<"authority", e>>) ELSE seen
    BY Zenon DEF SpawnTo
<1> HIDE DEF seen
<1>3. Same(seen, Emit(seen, <<"authority", e>>))
    BY <1>1, EmitSame DEF Akin
<1>4. Only(s, seen, e) /\ e \in seen.view
    BY <1>1 DEF Only, Apart
<1>5. Only(s, Emit(seen, <<"authority", e>>), e) /\ e \in Emit(seen, <<"authority", e>>).view
    BY <1>3, <1>4, SameOnly, OnlyOnly DEF Same
<1> QED
    BY <1>2, <1>4, <1>5, AkinSelf, VisibleIsSees

\* A hand-off gives the entity to one peer, whether it sees it or not.
LEMMA HandOverShows ==
    ASSUME NEW ps, NEW e, NEW p, NEW from, NEW to, NEW w \in Peers, IsHandle(ps[w])
    PROVE  LET t == HandOver(ps, e, p, from, to)[w] IN
           /\ Only(ps[w], t, e)
           /\ e \in ps[w].view => e \in t.view
           /\ e \in t.view => e \in ps[w].view \/ e \in t.given
           /\ e \in ps[w].given => e \in t.given
           /\ ps[w].claims = None => t = ps[w]
<1> DEFINE s == ps[w]
           t == HandOver(ps, e, p, from, to)[w]
           gave == [SendFull(s, e, p) EXCEPT !.given = @ \cup {e}]
           seen == IF w = Serves[from] \/ e \in s.view THEN s ELSE gave
<1>1. \/ t = s
      \/ s.claims # None /\ t = Emit(seen, <<"authority", e>>)
    BY Zenon DEF HandOver
<1>2. /\ Akin(s, gave) /\ gave.view = s.view \cup {e} /\ gave.given = s.given \cup {e}
    BY SendFullShows DEF Akin, IsHandle, Fields
<1> HIDE DEF gave
<1>3. /\ Only(s, seen, e) /\ IsHandle(seen)
      /\ e \in s.view => e \in seen.view
      /\ e \in seen.view => e \in s.view \/ e \in seen.given
      /\ e \in s.given => e \in seen.given
    BY <1>2, AkinSelf DEF Only, Akin, Apart
<1> HIDE DEF seen
<1>4. Same(seen, Emit(seen, <<"authority", e>>))
    BY <1>3, EmitSame
<1>5. CASE t = Emit(seen, <<"authority", e>>) /\ s.claims # None
    <2>1. Only(s, t, e)
        BY <1>3, <1>4, <1>5, SameOnly, OnlyOnly
    <2> HIDE DEF s, t
    <2>2. /\ e \in s.view => e \in t.view
          /\ e \in t.view => e \in s.view \/ e \in t.given
          /\ e \in s.given => e \in t.given
        BY <1>3, <1>4, <1>5 DEF Same
    <2> QED
        BY <1>5, <2>1, <2>2 DEF s, t
<1>6. CASE t = s
    BY <1>6, AkinSelf
<1> QED
    BY <1>1, <1>5, <1>6

LEMMA CheckoutShows ==
    ASSUME NEW w, NEW s, IsHandle(s), NEW e
    PROVE  /\ Akin(s, CheckoutTo(s, w, e))
           /\ CheckoutTo(s, w, e).view = s.view \cup {e}
           /\ CheckoutTo(s, w, e).given = s.given
<1> DEFINE seen == SendFull(s, e, ents[e].pos)
<1>1. Akin(s, seen) /\ seen.view = s.view \cup {e} /\ seen.given = s.given
    BY SendFullShows
<1>2. CheckoutTo(s, w, e) =
        IF Serves[ents[e].region] = w THEN Emit(seen, <<"authority", e>>) ELSE seen
    BY Zenon DEF CheckoutTo
<1> HIDE DEF seen
<1>3. Same(seen, Emit(seen, <<"authority", e>>))
    BY <1>1, EmitSame DEF Akin
<1> QED
    BY <1>1, <1>2, <1>3 DEF Same, Akin

LEMMA ReconcileShows ==
    ASSUME NEW s, IsHandle(s), NEW e
    PROVE  /\ Only(s, ReconcileTo(s, e), e)
           /\ e \in ReconcileTo(s, e).view <=> Visible(s, e, ents[e].pos)
<1> DEFINE t == ReconcileTo(s, e)
<1>1. ASSUME t = SendFull(s, e, ents[e].pos) PROVE Only(s, t, e) /\ e \in t.view
    BY <1>1, SendFullShows DEF Only, Akin, Apart
<1>2. ASSUME t = SendRemove(s, e) PROVE Only(s, t, e) /\ e \notin t.view
    BY <1>2, SendRemoveShows DEF Only, Akin, Apart
<1>3. \/ Visible(s, e, ents[e].pos) /\ t = SendFull(s, e, ents[e].pos)
      \/ ~Visible(s, e, ents[e].pos) /\ t = SendRemove(s, e)
      \/ t = s /\ (e \in s.view <=> Visible(s, e, ents[e].pos))
    BY Zenon DEF ReconcileTo
<1> QED
    BY <1>1, <1>2, <1>3, AkinSelf

(***************************************************************************)
(* Handlers that go through a set of entities, in an order that is theirs. *)
(***************************************************************************)
Step(kind, w, e, s) ==
    CASE kind = "checkout" -> CheckoutTo(s, w, e)
      [] kind = "reconcile" -> ReconcileTo(s, e)
      [] kind = "remove" -> RemoveFromView(s, e)
      [] kind = "visual" -> Emit(s, <<"visual", e>>)
      [] kind = "read" -> Apply(s, w[e])
\* A channel is read from its start: a set of its places ends in the last.
Pick(kind, T) == IF kind = "read" THEN Max(T) ELSE CHOOSE e \in T : TRUE
After(kind, w, base, h, T) ==
    IF T = {} THEN base
    ELSE LET e == Pick(kind, T) IN Step(kind, w, e, h[T \ {e}])
\* h tells what a handle is after each of the sets.
Goes(kind, w, base, h, S) == h = [T \in SUBSET S |-> After(kind, w, base, h, T)]
Small(S, n) == {T \in SUBSET S : Cardinality(T) <= n}
Less == {ss \in Nat \X Nat : ss[1] < ss[2]}

\* Every non-empty set of naturals has a least element.
LEMMA LeastExists ==
    ASSUME NEW T, T \subseteq Nat, T # {}
    PROVE  \E x \in T : \A y \in T : x <= y
<1>1. IsWellFoundedOn(Less, Nat)
    BY NatLessThanWellFounded, Zenon DEF OpToRel, Less
<1>2. PICK x \in T : \A y \in T : ~(<<y, x>> \in Less)
    BY <1>1, WFMin, Zenon
<1>3. \A y \in T : ~(y < x)
    BY <1>2 DEF Less
<1> QED
    BY <1>3

LEMMA GreatestExists ==
    ASSUME NEW n \in Nat, NEW T, T \subseteq 1..n, T # {}
    PROVE  \E x \in T : \A y \in T : x >= y
<1> DEFINE down == {n - y : y \in T}
<1>1. \A y \in T : y \in Nat /\ y <= n
    OBVIOUS
<1>2. down \subseteq Nat /\ down # {}
    <2>1. \A y \in T : n - y \in Nat
        BY <1>1
    <2> QED
        BY <2>1
<1>3. PICK d \in down : \A y \in down : d <= y
    <2> HIDE DEF down
    <2> QED
        BY <1>2, LeastExists
<1>4. PICK x \in T : d = n - x
    BY <1>3
<1>5. \A y \in T : n - x <= n - y
    BY <1>3, <1>4
<1> QED
    BY <1>1, <1>4, <1>5

LEMMA Smaller ==
    ASSUME NEW S, IsFiniteSet(S), NEW T \in SUBSET S, T # {}, NEW kind,
           kind = "read" => \E n \in Nat : S \subseteq 1..n
    PROVE  LET e == Pick(kind, T) IN
           /\ e \in T /\ T \ {e} \in SUBSET S
           /\ Cardinality(T) \in Nat \ {0} /\ Cardinality(T \ {e}) = Cardinality(T) - 1
<1>1. IsFiniteSet(T)
    BY FS_Subset
<1>2. Pick(kind, T) \in T
    <2>1. CASE kind = "read"
        <3>1. \E x \in T : \A y \in T : x >= y
            <4>1. PICK n \in Nat : T \subseteq 1..n
                BY <2>1
            <4> QED
                BY <4>1, GreatestExists
        <3>2. Max(T) \in T
            BY <3>1 DEF Max
        <3> QED
            BY <2>1, <3>2 DEF Pick
    <2>2. CASE kind # "read"
        BY <2>2 DEF Pick
    <2> QED
        BY <2>1, <2>2
<1>3. Cardinality(T) \in Nat /\ Cardinality(T) # 0
    BY <1>1, FS_CardinalityType, FS_EmptySet
<1> QED
    BY <1>1, <1>2, <1>3, FS_RemoveElement

LEMMA GoesExists ==
    ASSUME NEW kind, NEW w, NEW base, NEW S, IsFiniteSet(S),
           kind = "read" => \E n \in Nat : S \subseteq 1..n
    PROVE  \E h : Goes(kind, w, base, h, S)
<1> DEFINE Has(n)  == \E h : /\ h = [T \in Small(S, n) |-> h[T]]
                             /\ \A T \in Small(S, n) : h[T] = After(kind, w, base, h, T)
           bad == {n \in Nat : ~Has(n)}
<1>1. Has(0)
    <2> DEFINE h == [T \in Small(S, 0) |-> base]
    <2>1. ASSUME NEW T \in Small(S, 0) PROVE T = {}
        <3>1. T \in SUBSET S /\ Cardinality(T) <= 0
            BY DEF Small
        <3>2. T # {} => Cardinality(T) \in Nat \ {0}
            BY <3>1, FS_Subset, FS_CardinalityType, FS_EmptySet
        <3> QED
            BY <3>1, <3>2
    <2>2. h = [T \in Small(S, 0) |-> h[T]]
          /\ \A T \in Small(S, 0) : h[T] = After(kind, w, base, h, T)
        BY <2>1 DEF After
    <2> HIDE DEF h
    <2> QED
        BY <2>2
<1>2. ASSUME NEW n \in Nat, Has(n) PROVE Has(n + 1)
    <2>1. PICK g : /\ g = [T \in Small(S, n) |-> g[T]]
                   /\ \A T \in Small(S, n) : g[T] = After(kind, w, base, g, T)
        BY <1>2
    <2> DEFINE h == [T \in Small(S, n + 1) |-> After(kind, w, base, g, T)]
    <2>2. \A T \in Small(S, n) : T \in Small(S, n + 1) /\ h[T] = g[T]
        <3>1. \A T \in SUBSET S : Cardinality(T) \in Nat
            BY FS_Subset, FS_CardinalityType
        <3>2. \A T \in Small(S, n) : T \in Small(S, n + 1)
            BY <3>1 DEF Small
        <3> QED
            BY <2>1, <3>2
    <2>3. ASSUME NEW T \in Small(S, n + 1)
          PROVE After(kind, w, base, h, T) = After(kind, w, base, g, T)
        <3>1. CASE T = {}
            BY <3>1 DEF After
        <3>2. CASE T # {}
            <4> DEFINE e == Pick(kind, T)
            <4>1. T \in SUBSET S /\ Cardinality(T) <= n + 1
                BY DEF Small
            <4>2. /\ T \ {e} \in SUBSET S /\ Cardinality(T) \in Nat
                  /\ Cardinality(T \ {e}) = Cardinality(T) - 1
                BY <3>2, <4>1, Smaller
            <4>3. T \ {e} \in Small(S, n)
                BY <4>1, <4>2 DEF Small
            <4>4. h[T \ {e}] = g[T \ {e}]
                BY <2>2, <4>3
            <4> HIDE DEF h
            <4> QED
                BY <3>2, <4>4 DEF After
        <3> QED
            BY <3>1, <3>2
    <2>4. h = [T \in Small(S, n + 1) |-> h[T]]
          /\ \A T \in Small(S, n + 1) : h[T] = After(kind, w, base, h, T)
        BY <2>3
    <2> HIDE DEF h
    <2> QED
        BY <2>4
<1>3. bad = {}
    <2> HIDE DEF Has
    <2>1. SUFFICES ASSUME bad # {} PROVE FALSE
        OBVIOUS
    <2>2. PICK n \in bad : \A m \in bad : n <= m
        <3>1. bad \subseteq Nat
            OBVIOUS
        <3> QED
            BY <2>1, <3>1, LeastExists
    <2>3. n # 0 /\ n \in Nat
        BY <1>1
    <2>4. Has(n - 1)
        BY <2>2, <2>3
    <2> QED
        BY <1>2, <2>2, <2>3, <2>4
<1>4. Has(Cardinality(S))
    <2> HIDE DEF Has
    <2> QED
        BY <1>3, FS_CardinalityType
<1>5. Small(S, Cardinality(S)) = SUBSET S
    BY FS_Subset DEF Small
<1>6. PICK h : /\ h = [T \in SUBSET S |-> h[T]]
               /\ \A T \in SUBSET S : h[T] = After(kind, w, base, h, T)
    BY <1>4, <1>5
<1> QED
    BY <1>6 DEF Goes

(***************************************************************************)
(* What going through a set shows.                                         *)
(***************************************************************************)
Kinds == {"checkout", "reconcile", "remove", "visual"}
Shown(kind, s, e) ==
    CASE kind = "checkout" -> TRUE
      [] kind = "reconcile" -> Visible(s, e, ents[e].pos)
      [] kind = "remove" -> FALSE
      [] kind = "visual" -> e \in s.view
\* s was gone through for T, and is now t.
Through(kind, s, t, T) ==
    /\ Akin(s, t)
    /\ \A e \in Entities :
        IF e \in T THEN /\ e \in t.view <=> Shown(kind, s, e)
                        /\ kind = "visual" => (e \in t.given <=> e \in s.given)
        ELSE (e \in t.view <=> e \in s.view) /\ (e \in t.given <=> e \in s.given)

LEMMA StepShows ==
    ASSUME NEW kind \in Kinds, NEW w, NEW s, IsHandle(s), NEW e
    PROVE  /\ Only(s, Step(kind, w, e, s), e)
           /\ e \in Step(kind, w, e, s).view <=> Shown(kind, s, e)
           /\ kind = "visual" => (e \in Step(kind, w, e, s).given <=> e \in s.given)
<1>1. CASE kind = "checkout"
    <2>1. Step(kind, w, e, s) = CheckoutTo(s, w, e) /\ Shown(kind, s, e)
        BY <1>1 DEF Step, Shown
    <2> QED
        BY <1>1, <2>1, CheckoutShows DEF Only, Akin, Apart
<1>2. CASE kind = "reconcile"
    <2>1. /\ Step(kind, w, e, s) = ReconcileTo(s, e)
          /\ Shown(kind, s, e) = Visible(s, e, ents[e].pos)
        BY <1>2 DEF Step, Shown
    <2> QED
        BY <1>2, <2>1, ReconcileShows
<1>3. CASE kind = "remove"
    <2>1. Step(kind, w, e, s) = RemoveFromView(s, e) /\ ~Shown(kind, s, e)
        BY <1>3 DEF Step, Shown
    <2> QED
        BY <1>3, <2>1, RemoveShows
<1>4. CASE kind = "visual"
    <2>1. Step(kind, w, e, s) = Emit(s, <<"visual", e>>) /\ Shown(kind, s, e) = (e \in s.view)
        BY <1>4 DEF Step, Shown
    <2>2. Same(s, Emit(s, <<"visual", e>>))
        BY EmitSame
    <2> QED
        BY <2>1, <2>2, SameOnly DEF Same
<1> QED
    BY <1>1, <1>2, <1>3, <1>4 DEF Kinds

LEMMA ShownAkin ==
    ASSUME NEW kind \in Kinds, NEW s, NEW t, Akin(s, t), NEW e, e \in t.view <=> e \in s.view
    PROVE  Shown(kind, t, e) <=> Shown(kind, s, e)
<1>1. Visible(t, e, ents[e].pos) <=> Visible(s, e, ents[e].pos)
    BY AkinSees, VisibleIsSees
<1> QED
    BY <1>1, Zenon DEF Kinds, Shown

LEMMA GoesThrough ==
    ASSUME NEW kind \in Kinds, NEW w, NEW base, IsHandle(base), NEW S \in SUBSET Entities,
           IsFiniteSet(S), NEW h, Goes(kind, w, base, h, S)
    PROVE  Through(kind, base, h[S], S)
<1> DEFINE bad == {T \in SUBSET S : ~Through(kind, base, h[T], T)}
           sizes == {Cardinality(T) : T \in bad}
<1>1. SUFFICES ASSUME bad # {} PROVE FALSE
    OBVIOUS
<1>2. sizes \subseteq Nat /\ sizes # {}
    BY <1>1, FS_Subset, FS_CardinalityType
<1>3. PICK n \in sizes : \A m \in sizes : n <= m
    <2> HIDE DEF sizes
    <2> QED
        BY <1>2, LeastExists
<1>4. PICK T \in bad : n = Cardinality(T)
    BY <1>3
<1>5. T \in SUBSET S /\ h[T] = After(kind, w, base, h, T) /\ ~Through(kind, base, h[T], T)
    BY <1>4 DEF Goes
<1>6. CASE T = {}
    <2>1. h[T] = base
        BY <1>5, <1>6 DEF After
    <2> QED
        BY <1>5, <1>6, <2>1, AkinSelf DEF Through, Same
<1>7. CASE T # {}
    <2> DEFINE e == Pick(kind, T)
               U == T \ {e}
    <2>1. /\ e \in T /\ U \in SUBSET S /\ Cardinality(T) \in Nat
          /\ Cardinality(U) = Cardinality(T) - 1
        <3>1. kind = "read" => \E k \in Nat : S \subseteq 1..k
            BY DEF Kinds
        <3>2. T \in SUBSET S
            BY <1>5
        <3>3. /\ Pick(kind, T) \in T /\ T \ {Pick(kind, T)} \in SUBSET S
              /\ Cardinality(T) \in Nat \ {0}
              /\ Cardinality(T \ {Pick(kind, T)}) = Cardinality(T) - 1
            BY <1>7, <3>1, <3>2, Smaller, Zenon
        <3> QED
            BY <3>3
    <2>2. Through(kind, base, h[U], U)
        <3>1. U \in bad => Cardinality(U) \in sizes
            OBVIOUS
        <3> HIDE DEF sizes, U
        <3> QED
            BY <1>3, <1>4, <2>1, <3>1
    <2>3. h[T] = Step(kind, w, e, h[U])
        BY <1>5, <1>7 DEF After
    <2> DEFINE s == h[U]
    <2>4. IsHandle(s) /\ Akin(base, s)
        BY <2>2 DEF Through, Akin
    <2>5. e \notin U /\ e \in Entities /\ T = U \cup {e}
        BY <2>1
    <2> HIDE DEF e, U, s
    <2>6. Only(s, h[T], e) /\ (e \in h[T].view <=> Shown(kind, s, e))
          /\ (kind = "visual" => (e \in h[T].given <=> e \in s.given))
        BY <2>3, <2>4, StepShows DEF s
    <2>7. /\ Shown(kind, s, e) <=> Shown(kind, base, e)
          /\ e \in s.given <=> e \in base.given
        <3>1. (e \in s.view <=> e \in base.view) /\ (e \in s.given <=> e \in base.given)
            BY <2>2, <2>5 DEF Through, s
        <3> QED
            BY <2>4, <3>1, ShownAkin
    <2>8. Through(kind, base, h[T], T)
        <3>1. Akin(base, h[T])
            BY <2>4, <2>6 DEF Akin, Only
        <3>2. ASSUME NEW x \in Entities
              PROVE  IF x \in T THEN /\ x \in h[T].view <=> Shown(kind, base, x)
                                     /\ kind = "visual" => (x \in h[T].given <=> x \in base.given)
                     ELSE (x \in h[T].view <=> x \in base.view)
                          /\ (x \in h[T].given <=> x \in base.given)
            <4>1. CASE x = e
                BY <2>1, <2>6, <2>7, <4>1
            <4>2. CASE x # e
                <5>1. x \in T <=> x \in U
                    BY <2>5, <4>2
                <5>2. (x \in h[T].view <=> x \in s.view) /\ (x \in h[T].given <=> x \in s.given)
                    BY <2>6, <4>2 DEF Only, Apart
                <5>3. IF x \in U THEN /\ x \in s.view <=> Shown(kind, base, x)
                                      /\ kind = "visual" => (x \in s.given <=> x \in base.given)
                      ELSE (x \in s.view <=> x \in base.view)
                           /\ (x \in s.given <=> x \in base.given)
                    BY <2>2 DEF Through, s
                <5> QED
                    BY <5>1, <5>2, <5>3
            <4> QED
                BY <4>1, <4>2
        <3> QED
            BY <3>1, <3>2 DEF Through
    <2> QED
        BY <1>5, <2>8
<1> QED
    BY <1>6, <1>7

\* t is what going through S leaves of s.
Went(kind, w, s, t, S) == IsFiniteSet(S) /\ \E h : Goes(kind, w, s, h, S) /\ t = h[S]

LEMMA CheckoutGoes ==
    ASSUME NEW w, NEW s, NEW S \in SUBSET Entities
    PROVE  Went("checkout", w, s, CheckoutAll(s, w, S), S)
<1> DEFINE Iter(h) == [T \in SUBSET S |-> IF T = {} THEN s
                          ELSE LET e == CHOOSE e \in T : TRUE IN CheckoutTo(h[T \ {e}], w, e)]
           g == CHOOSE h : h = Iter(h)
<1>1. CheckoutAll(s, w, S) = g[S]
    BY Zenon DEF CheckoutAll, FoldSet, MapThenFoldSet
<1>2. \A h : Iter(h) = [T \in SUBSET S |-> After("checkout", w, s, h, T)]
    BY DEF After, Step, Pick
<1>3. IsFiniteSet(S)
    BY ViewConstants, FS_Subset
<1>4. \E h : h = Iter(h)
    <2>1. PICK h : Goes("checkout", w, s, h, S)
        BY <1>3, GoesExists
    <2>2. h = Iter(h)
        BY <1>2, <2>1 DEF Goes
    <2> QED
        BY <2>2
<1>5. g = Iter(g)
    <2> HIDE DEF Iter
    <2> QED
        BY <1>4
<1>6. Goes("checkout", w, s, g, S)
    <2> HIDE DEF g
    <2> QED
        BY <1>2, <1>5 DEF Goes
<1> HIDE DEF g
<1> QED
    BY <1>1, <1>3, <1>6 DEF Went

LEMMA ReconcileGoes ==
    ASSUME NEW s, NEW S \in SUBSET Entities
    PROVE  Went("reconcile", None, s, ReconcileAll(s, S), S)
<1> DEFINE Iter(h) == [T \in SUBSET S |-> IF T = {} THEN s
                          ELSE LET e == CHOOSE e \in T : TRUE IN ReconcileTo(h[T \ {e}], e)]
           g == CHOOSE h : h = Iter(h)
<1>1. ReconcileAll(s, S) = g[S]
    BY Zenon DEF ReconcileAll, FoldSet, MapThenFoldSet
<1>2. \A h : Iter(h) = [T \in SUBSET S |-> After("reconcile", None, s, h, T)]
    BY DEF After, Step, Pick
<1>3. IsFiniteSet(S)
    BY ViewConstants, FS_Subset
<1>4. \E h : h = Iter(h)
    <2>1. PICK h : Goes("reconcile", None, s, h, S)
        BY <1>3, GoesExists
    <2>2. h = Iter(h)
        BY <1>2, <2>1 DEF Goes
    <2> QED
        BY <2>2
<1>5. g = Iter(g)
    <2> HIDE DEF Iter
    <2> QED
        BY <1>4
<1>6. Goes("reconcile", None, s, g, S)
    <2> HIDE DEF g
    <2> QED
        BY <1>2, <1>5 DEF Goes
<1> HIDE DEF g
<1> QED
    BY <1>1, <1>3, <1>6 DEF Went

LEMMA RemoveGoes ==
    ASSUME NEW s, NEW S \in SUBSET Entities
    PROVE  Went("remove", None, s, RemoveAll(s, S), S)
<1> DEFINE Iter(h) == [T \in SUBSET S |-> IF T = {} THEN s
                          ELSE LET e == CHOOSE e \in T : TRUE IN RemoveFromView(h[T \ {e}], e)]
           g == CHOOSE h : h = Iter(h)
<1>1. RemoveAll(s, S) = g[S]
    BY Zenon DEF RemoveAll, FoldSet, MapThenFoldSet
<1>2. \A h : Iter(h) = [T \in SUBSET S |-> After("remove", None, s, h, T)]
    BY DEF After, Step, Pick
<1>3. IsFiniteSet(S)
    BY ViewConstants, FS_Subset
<1>4. \E h : h = Iter(h)
    <2>1. PICK h : Goes("remove", None, s, h, S)
        BY <1>3, GoesExists
    <2>2. h = Iter(h)
        BY <1>2, <2>1 DEF Goes
    <2> QED
        BY <2>2
<1>5. g = Iter(g)
    <2> HIDE DEF Iter
    <2> QED
        BY <1>4
<1>6. Goes("remove", None, s, g, S)
    <2> HIDE DEF g
    <2> QED
        BY <1>2, <1>5 DEF Goes
<1> HIDE DEF g
<1> QED
    BY <1>1, <1>3, <1>6 DEF Went

LEMMA VisualsGoes ==
    ASSUME NEW s, NEW S \in SUBSET Entities
    PROVE  Went("visual", None, s, SendVisuals(s, S), S)
<1> DEFINE Iter(h) == [T \in SUBSET S |-> IF T = {} THEN s
                          ELSE LET e == CHOOSE e \in T : TRUE IN Emit(h[T \ {e}], <<"visual", e>>)]
           g == CHOOSE h : h = Iter(h)
<1>1. SendVisuals(s, S) = g[S]
    BY Zenon DEF SendVisuals, FoldSet, MapThenFoldSet
<1>2. \A h : Iter(h) = [T \in SUBSET S |-> After("visual", None, s, h, T)]
    BY DEF After, Step, Pick
<1>3. IsFiniteSet(S)
    BY ViewConstants, FS_Subset
<1>4. \E h : h = Iter(h)
    <2>1. PICK h : Goes("visual", None, s, h, S)
        BY <1>3, GoesExists
    <2>2. h = Iter(h)
        BY <1>2, <2>1 DEF Goes
    <2> QED
        BY <2>2
<1>5. g = Iter(g)
    <2> HIDE DEF Iter
    <2> QED
        BY <1>4
<1>6. Goes("visual", None, s, g, S)
    <2> HIDE DEF g
    <2> QED
        BY <1>2, <1>5 DEF Goes
<1> HIDE DEF g
<1> QED
    BY <1>1, <1>3, <1>6 DEF Went

LEMMA CheckoutThrough ==
    ASSUME NEW w, NEW s, IsHandle(s), NEW S \in SUBSET Entities
    PROVE  Through("checkout", s, CheckoutAll(s, w, S), S)
BY CheckoutGoes, GoesThrough DEF Kinds, Went

LEMMA ReconcileThrough ==
    ASSUME NEW s, IsHandle(s), NEW S \in SUBSET Entities
    PROVE  Through("reconcile", s, ReconcileAll(s, S), S)
BY ReconcileGoes, GoesThrough DEF Kinds, Went

LEMMA RemoveThrough ==
    ASSUME NEW s, IsHandle(s), NEW S \in SUBSET Entities
    PROVE  Through("remove", s, RemoveAll(s, S), S)
BY RemoveGoes, GoesThrough DEF Kinds, Went

LEMMA VisualsThrough ==
    ASSUME NEW s, IsHandle(s), NEW S \in SUBSET Entities
    PROVE  Through("visual", s, SendVisuals(s, S), S)
BY VisualsGoes, GoesThrough DEF Kinds, Went

(***************************************************************************)
(* The invariant.                                                          *)
(***************************************************************************)
LinkFrame == {"ghost", "handoff"} \X Entities \X Points
Handles(p) == p = [w \in Peers |-> p[w]]
              /\ \A w \in Peers : IsHandle(p[w]) /\ p[w].aoi \in AreaType
World ==
    /\ conf \in Deployments /\ Handles(peer)
    /\ ents \in [Entities -> Placement \cup {None}]
    /\ ghosts \in [Entities -> Ghost \cup {None}]
    /\ away \in [Entities -> Points \cup {None}]
    /\ jumped \in [Entities -> 0..2]
    /\ link \in Seq(LinkFrame)
\* The hash names the peers that are there, by the cells of their interest, and all of them
\* but those whose interest is everywhere; what is left of a replaced handle aside.
IndexOK(p, g, all, sup) ==
    /\ all \subseteq Peers /\ g \subseteq Int \X Peers
    /\ \A w \in Peers : /\ w \in all <=> p[w].claims # None /\ IsGlobal(p[w])
                        /\ p[w].claims # None => \A c \in Cells(p[w]) : <<c, w>> \in g
    /\ \A x \in g : x[2] \in sup \/ (p[x[2]].claims # None /\ x[1] \in Cells(p[x[2]]))
Placed(e) ==
    IF ents[e] # None THEN ents[e].last = CellOf(ents[e].pos) ELSE jumped[e] = 0
Shadow(e) == e \in twice \/ ents[e] = None \/ ghosts[e] = None
Named(w, e) ==
    (e \notin twice /\ peer[w].claims # None /\ e \in peer[w].view)
        => ents[e] # None \/ ghosts[e] # None
Matched(w, e) ==
    (/\ peer[w].claims # None /\ ents[e] # None /\ e \notin twice /\ ~crashed
     /\ jumped[e] = 0 \/ (jumped[e] = 1 /\ w \in global))
        => Right(conf.hidden, peer[w], e, ents[e].pos)
Told(e) ==
    Placed(e) /\ Shadow(e) /\ \A w \in Peers : Named(w, e) /\ Matched(w, e)
CrashNamed == crashed => superseded # {}
Inv ==
    /\ World /\ IndexOK(peer, grid, global, superseded) /\ CrashNamed
    /\ \A e \in Entities : Told(e)

\* Whoever sees a point is everywhere or indexed by its cell.
LEMMA SeenIsIndexed ==
    ASSUME NEW s, s.aoi \in AreaType, NEW p \in Points, NEW h, NEW e, Sees(h, s, e, p)
    PROVE  IsGlobal(s) \/ CellOf(p) \in Cells(s)
<1>1. p \in Int
    BY DEF Points
<1>2. CASE s.aoi.center = None
    <2>1. Cells(s) = {}
        BY <1>2 DEF Cells
    <2>2. DefaultInterest(s, p)
        BY <1>2 DEF Sees, Interested
    <2>3. DefaultInterest(s, 2)
        BY <1>1, <2>2 DEF DefaultInterest, Role, Margin
    <2> QED
        BY <2>1, <2>3 DEF IsGlobal
<1>3. CASE s.aoi.center # None
    <2> DEFINE c == s.aoi.center
               r == s.aoi.radius
    <2>1. c \in Int /\ r \in Nat
        BY <1>3 DEF AreaType
    <2>2. Abs(p - c) <= r
        BY <1>3 DEF Sees, Interested
    <2> HIDE DEF c, r
    <2>3. c - r <= p /\ p <= c + r
        BY <1>1, <2>1, <2>2 DEF Abs
    <2>4. CellOf(p) \in CellOf(c - r)..CellOf(c + r)
        BY <1>1, <2>1, <2>3 DEF CellOf, Cell
    <2>5. Cells(s) = CellsFor(s.aoi)
        BY <1>3 DEF Cells
    <2>6. Cells(s) = {} \/ Cells(s) = CellOf(c - r)..CellOf(c + r)
        BY <2>5, Zenon DEF CellsFor, c, r
    <2> QED
        BY <1>3, <2>4, <2>6 DEF IsGlobal
<1> QED
    BY <1>2, <1>3

LEMMA CellsType == ASSUME NEW s, s.aoi \in AreaType PROVE Cells(s) \subseteq Int
<1>1. CASE s.aoi.center = None
    BY <1>1 DEF Cells
<1>2. CASE s.aoi.center # None
    <2> DEFINE low == CellOf(s.aoi.center - s.aoi.radius)
               high == CellOf(s.aoi.center + s.aoi.radius)
    <2>1. Cells(s) = {} \/ Cells(s) = low..high
        BY <1>2, Zenon DEF Cells, CellsFor
    <2>2. low..high \subseteq Int
        OBVIOUS
    <2> QED
        BY <2>1, <2>2
<1> QED
    BY <1>1, <1>2

LEMMA AkinIndex ==
    ASSUME NEW p, NEW q, NEW g, NEW all, NEW sup, IndexOK(p, g, all, sup), Handles(p),
           q = [w \in Peers |-> q[w]], \A w \in Peers : Akin(p[w], q[w])
    PROVE  Handles(q) /\ IndexOK(q, g, all, sup)
<1>1. Handles(q)
    BY DEF Handles, Akin
<1>2. ASSUME NEW w \in Peers
      PROVE  /\ q[w].claims = p[w].claims /\ Cells(q[w]) = Cells(p[w])
             /\ IsGlobal(q[w]) <=> IsGlobal(p[w])
    BY AkinSees DEF Akin
<1>3. \A x \in g : x[2] \in Peers
    BY DEF IndexOK
<1> QED
    BY <1>1, <1>2, <1>3, Zenon DEF IndexOK

LEMMA Reaping ==
    ASSUME NEW p, NEW g, NEW all, NEW sup, IndexOK(p, g, all, sup), Handles(p),
           DispatchedWith(p, g, all)
    PROVE  /\ Handles(peer') /\ IndexOK(peer', grid', global', sup)
           /\ global' \subseteq all
           /\ \A w \in Peers : peer'[w].claims # None => peer'[w] = p[w]
<1> DEFINE gone == Flagged(p)
<1>1. peer' = [w \in Peers |-> IF w \in gone THEN Gone(p[w]) ELSE p[w]]
    BY DEF DispatchedWith, Reaped, Flagged
<1>2. /\ grid' = {x \in g : ~(x[2] \in gone /\ x[1] \in Cells(p[x[2]]))}
      /\ global' = all \ gone
    BY DEF DispatchedWith
<1>3. \A w \in Peers : IsHandle(Gone(p[w])) /\ Gone(p[w]).claims = None /\ Gone(p[w]).aoi = NoArea
    BY DEF Gone, Nobody, IsHandle, Fields
<1>4. NoArea \in AreaType
    BY DEF NoArea, AreaType
<1>5. Handles(peer')
    BY <1>1, <1>3, <1>4 DEF Handles
<1>6. ASSUME NEW w \in Peers
      PROVE  /\ w \in gone => peer'[w].claims = None
             /\ w \notin gone => peer'[w] = p[w]
    BY <1>1, <1>3
<1> HIDE DEF gone
<1>7. IndexOK(peer', grid', global', sup)
    <2>1. global' \subseteq Peers /\ grid' \subseteq Int \X Peers
        BY <1>2 DEF IndexOK
    <2>2. ASSUME NEW w \in Peers
          PROVE  /\ w \in global' <=> peer'[w].claims # None /\ IsGlobal(peer'[w])
                 /\ peer'[w].claims # None => \A c \in Cells(peer'[w]) : <<c, w>> \in grid'
        <3>1. CASE w \in gone
            BY <1>2, <1>6, <3>1
        <3>2. CASE w \notin gone
            <4>1. peer'[w] = p[w]
                BY <1>6, <3>2
            <4>2. \A c : <<c, w>> \in g => <<c, w>> \in grid'
                BY <1>2, <3>2
            <4> QED
                BY <1>2, <3>2, <4>1, <4>2 DEF IndexOK
        <3> QED
            BY <3>1, <3>2
    <2>3. ASSUME NEW x \in grid'
          PROVE  x[2] \in sup \/ (peer'[x[2]].claims # None /\ x[1] \in Cells(peer'[x[2]]))
        <3>1. x \in g /\ ~(x[2] \in gone /\ x[1] \in Cells(p[x[2]])) /\ x[2] \in Peers
            BY <1>2 DEF IndexOK
        <3>2. x[2] \in sup \/ (p[x[2]].claims # None /\ x[1] \in Cells(p[x[2]]))
            BY <3>1 DEF IndexOK
        <3> QED
            BY <1>6, <3>1, <3>2
    <2> QED
        BY <2>1, <2>2, <2>3, Zenon DEF IndexOK
<1> QED
    BY <1>2, <1>5, <1>6, <1>7

\* An entity that a step leaves where it is, and in a view as it was.
LEMMA UnmovedIn ==
    ASSUME NEW e \in Entities, NEW w \in Peers, Named(w, e), Matched(w, e), conf' = conf,
           crashed => crashed', ents'[e] = ents[e], ghosts'[e] = None <=> ghosts[e] = None,
           jumped'[e] = jumped[e], e \in twice' <=> e \in twice,
           peer'[w].claims # None =>
               /\ Akin(peer[w], peer'[w])
               /\ e \in peer'[w].view <=> e \in peer[w].view
               /\ e \in peer'[w].given <=> e \in peer[w].given
               /\ w \in global' => w \in global
    PROVE  Named(w, e)' /\ Matched(w, e)'
<1>1. CASE peer'[w].claims = None
    BY <1>1 DEF Named, Matched
<1>2. CASE peer'[w].claims # None
    <2>1. /\ Akin(peer[w], peer'[w]) /\ peer[w].claims # None
          /\ e \in peer'[w].view <=> e \in peer[w].view
          /\ e \in peer'[w].given <=> e \in peer[w].given
          /\ w \in global' => w \in global
        BY <1>2 DEF Akin
    <2>2. Named(w, e)'
        BY <2>1 DEF Named
    <2>3. \A p : Sees(conf.hidden, peer'[w], e, p) <=> Sees(conf.hidden, peer[w], e, p)
        BY <2>1, AkinSees
    <2>4. Matched(w, e)'
        BY <2>1, <2>3 DEF Matched, Right
    <2> QED
        BY <2>2, <2>4
<1> QED
    BY <1>1, <1>2

LEMMA Unmoved ==
    ASSUME NEW e \in Entities, Told(e), conf' = conf, crashed => crashed',
           ents'[e] = ents[e], ghosts'[e] = None <=> ghosts[e] = None, jumped'[e] = jumped[e],
           e \in twice' <=> e \in twice,
           \A w \in Peers : peer'[w].claims # None =>
               /\ Akin(peer[w], peer'[w])
               /\ e \in peer'[w].view <=> e \in peer[w].view
               /\ e \in peer'[w].given <=> e \in peer[w].given
               /\ w \in global' => w \in global
    PROVE  Told(e)'
<1>1. Placed(e)' /\ Shadow(e)'
    BY DEF Told, Placed, Shadow
<1>2. ASSUME NEW w \in Peers PROVE Named(w, e)' /\ Matched(w, e)'
    <2>1. Named(w, e) /\ Matched(w, e)
        BY DEF Told
    <2> QED
        BY <2>1, UnmovedIn
<1> QED
    BY <1>1, <1>2 DEF Told

\* What a step that tells the peers of e alone leaves as it was.
Others(e) ==
    /\ conf' = conf /\ superseded' = superseded /\ (crashed => crashed')
    /\ \A x \in Entities : x # e => /\ ents'[x] = ents[x] /\ ghosts'[x] = ghosts[x]
                                    /\ jumped'[x] = jumped[x]
                                    /\ x \in twice' <=> x \in twice
LEMMA Telling ==
    ASSUME Inv, NEW e, Others(e), NEW p, p = [w \in Peers |-> p[w]],
           \A w \in Peers : Only(peer[w], p[w], e), Dispatched(p)
    PROVE  /\ Handles(peer') /\ IndexOK(peer', grid', global', superseded')
           /\ \A w \in Peers : peer'[w].claims # None =>
                  /\ peer'[w] = p[w] /\ peer[w].claims # None
                  /\ w \in global' => w \in global
           /\ \A x \in Entities : x # e => Told(x)'
<1>1. \A w \in Peers : Akin(peer[w], p[w]) /\ Apart(peer[w], p[w], e)
    BY DEF Only
<1>2. Handles(p) /\ IndexOK(p, grid, global, superseded)
    BY <1>1, AkinIndex DEF Inv, World
<1>3. /\ Handles(peer') /\ IndexOK(peer', grid', global', superseded)
      /\ global' \subseteq global
      /\ \A w \in Peers : peer'[w].claims # None => peer'[w] = p[w]
    BY <1>2, Reaping DEF Dispatched
<1>4. \A w \in Peers : peer'[w].claims # None =>
          /\ peer'[w] = p[w] /\ peer[w].claims # None /\ (w \in global' => w \in global)
    BY <1>1, <1>3 DEF Akin
<1>5. ASSUME NEW x \in Entities, x # e PROVE Told(x)'
    <2>1. \A w \in Peers : peer'[w].claims # None =>
              /\ Akin(peer[w], peer'[w])
              /\ x \in peer'[w].view <=> x \in peer[w].view
              /\ x \in peer'[w].given <=> x \in peer[w].given
              /\ w \in global' => w \in global
        BY <1>1, <1>4, <1>5 DEF Apart
    <2>2. Told(x)
        BY DEF Inv
    <2>3. /\ conf' = conf /\ (crashed => crashed') /\ ents'[x] = ents[x]
          /\ ghosts'[x] = ghosts[x] /\ jumped'[x] = jumped[x] /\ (x \in twice' <=> x \in twice)
        BY <1>5, Zenon DEF Others
    <2> QED
        BY <2>1, <2>2, <2>3, Unmoved
<1> QED
    BY <1>3, <1>4, <1>5 DEF Others

\* Steps that show nobody anything.
LEMMA Quiet ==
    ASSUME Inv, conf' = conf, crashed => crashed', ents' = ents, ghosts' = ghosts,
           jumped' = jumped, twice' = twice,
           \A w \in Peers : peer'[w].claims # None =>
               Alike(peer[w], peer'[w]) /\ (w \in global' => w \in global)
    PROVE  \A e \in Entities : Told(e)'
<1> SUFFICES ASSUME NEW e \in Entities PROVE Told(e)'
    OBVIOUS
<1>1. Told(e)
    BY DEF Inv
<1> QED
    BY <1>1, Unmoved DEF Alike

LEMMA PropagateShows ==
    ASSUME NEW ps, \A w \in Peers : IsHandle(ps[w]), NEW e, NEW p, NEW last
    PROVE  LET qs == Propagate(ps, e, p, last) IN
           /\ qs = [w \in Peers |-> qs[w]]
           /\ \A w \in Peers :
                /\ Only(ps[w], qs[w], e)
                /\ w \in Targets(p, last) /\ ps[w].claims # None =>
                       (e \in qs[w].view <=> Sees(conf.hidden, ps[w], e, p))
                /\ w \notin Targets(p, last) \/ ps[w].claims = None => qs[w] = ps[w]
<1> DEFINE qs == Propagate(ps, e, p, last)
<1>1. qs = [w \in Peers |-> IF w \in Targets(p, last) /\ ps[w].claims # None
                            THEN PropagateTo(ps[w], e, p) ELSE ps[w]]
    BY DEF Propagate
<1>2. ASSUME NEW w \in Peers
      PROVE  /\ Only(ps[w], ps[w], e) /\ Only(ps[w], PropagateTo(ps[w], e, p), e)
             /\ e \in PropagateTo(ps[w], e, p).view <=> Sees(conf.hidden, ps[w], e, p)
    BY AkinSelf, PropagateToShows, VisibleIsSees
<1> HIDE DEF qs
<1> QED
    BY <1>1, <1>2 DEF qs

\* Who holds the entity because it was handed it may see it or not.
LEMMA HandOverRight ==
    ASSUME NEW ps, NEW e \in Entities, NEW p, NEW from, NEW to, NEW w \in Peers, IsHandle(ps[w]),
           NEW h, Right(h, ps[w], e, p)
    PROVE  Right(h, HandOver(ps, e, p, from, to)[w], e, p)
<1> DEFINE t == HandOver(ps, e, p, from, to)[w]
<1>1. /\ Only(ps[w], t, e)
      /\ e \in ps[w].view => e \in t.view
      /\ e \in t.view => e \in ps[w].view \/ e \in t.given
      /\ e \in ps[w].given => e \in t.given
    BY HandOverShows
<1> HIDE DEF t
<1>2. Sees(h, t, e, p) <=> Sees(h, ps[w], e, p)
    BY <1>1, AkinSees DEF Only
<1>3. Right(h, t, e, p)
    BY <1>1, <1>2 DEF Right
<1> QED
    BY <1>3 DEF t

\* propagate may pass over a peer which sees the entity neither where it was nor where it is.
LEMMA PassedOver ==
    ASSUME Inv, NEW e \in Entities, NEW p \in Points, ents[e] # None, e \notin twice, ~crashed,
           jumped[e] = 0, NEW w \in Peers, peer[w].claims # None, w \notin Targets(p, ents[e].last)
    PROVE  Right(conf.hidden, peer[w], e, p) /\ (e \in peer[w].view => e \in peer[w].given)
<1>1. ents[e].pos \in Points /\ ents[e].last = CellOf(ents[e].pos)
    BY DEF Inv, World, Told, Placed, Placement
<1>2. w \notin global /\ <<CellOf(p), w>> \notin grid /\ <<ents[e].last, w>> \notin grid
    BY DEF Targets
<1>3. ~IsGlobal(peer[w]) /\ CellOf(p) \notin Cells(peer[w]) /\ ents[e].last \notin Cells(peer[w])
    BY <1>2 DEF Inv, IndexOK
<1>4. peer[w].aoi \in AreaType
    BY DEF Inv, World, Handles
<1>5. ~Sees(conf.hidden, peer[w], e, p) /\ ~Sees(conf.hidden, peer[w], e, ents[e].pos)
    BY <1>1, <1>3, <1>4, SeenIsIndexed
<1>6. Matched(w, e)
    BY DEF Inv, Told
<1> QED
    BY <1>5, <1>6 DEF Matched, Right

LEMMA PanicsNamed ==
    ASSUME Inv, NEW p, NEW last, Panics(p, last) PROVE superseded # {}
<1>1. PICK w \in Targets(p, last) : peer[w].claims = None
    BY DEF Panics, Here
<1>2. CASE w \in global
    BY <1>1, <1>2 DEF Inv, IndexOK
<1>3. CASE w \notin global
    <2>1. w \in Peers /\ \E c : <<c, w>> \in grid
        BY <1>3 DEF Targets
    <2>2. PICK c : <<c, w>> \in grid
        BY <2>1
    <2> QED
        BY <1>1, <2>2 DEF Inv, IndexOK
<1> QED
    BY <1>2, <1>3

LEMMA CrashesKeeps == ASSUME Inv, superseded # {}, Crashes PROVE Inv'
<1>1. /\ conf' = conf /\ ents' = ents /\ ghosts' = ghosts /\ jumped' = jumped
      /\ twice' = twice /\ peer' = peer /\ global' = global /\ grid' = grid
      /\ superseded' = superseded /\ crashed' /\ away' = away /\ link' = link
    BY DEF Crashes, scene, index, histories
<1>2. \A w \in Peers : Alike(peer[w], peer[w])
    BY AkinSelf, SameAlike DEF Inv, World, Handles
<1>3. \A e \in Entities : Told(e)'
    BY <1>1, <1>2, Quiet
<1> QED
    BY <1>1, <1>3 DEF Inv, World, CrashNamed

LEMMA AtType ==
    ASSUME NEW p \in Points
    PROVE  /\ At(p, CellOf(p), Region(p)) \in Placement /\ CellOf(p) \in Int
           /\ At(p, CellOf(p), Region(p)) # None
           /\ At(p, CellOf(p), Region(p)).pos = p
           /\ At(p, CellOf(p), Region(p)).last = CellOf(p)
<1>1. p \in Int /\ 0 <= p /\ p <= 3
    BY DEF Points
<1>2. CellOf(p) \in 0..1
    BY <1>1 DEF CellOf, Cell
<1>3. At(p, CellOf(p), Region(p)) \in Placement
    BY <1>2 DEF At, Region, Placement
<1> QED
    BY <1>2, <1>3, ViewConstants DEF At

(***************************************************************************)
(* Moves.                                                                  *)
(***************************************************************************)
\* An entity that an action leaves at p, told with the rest of its handlers.
LEMMA Settled ==
    ASSUME Inv, NEW e \in Entities, NEW p \in Points, ents[e] # None, conf' = conf,
           ents' = [ents EXCEPT ![e] = At(p, CellOf(p), Region(p))],
           ghosts' = ghosts, away' = away, twice' = twice, superseded' = superseded,
           crashed' = crashed, link' = link,
           NEW n \in 0..2, jumped' = [jumped EXCEPT ![e] = n],
           NEW ps, ps = [w \in Peers |-> ps[w]], \A w \in Peers : Only(peer[w], ps[w], e),
           Dispatched(ps),
           \A w \in Peers : (/\ peer[w].claims # None /\ e \notin twice /\ ~crashed
                             /\ n = 0 \/ (n = 1 /\ w \in global))
               => Right(conf.hidden, ps[w], e, p)
    PROVE  Inv'
<1> DEFINE at == At(p, CellOf(p), Region(p))
<1>1. at \in Placement /\ at # None /\ at.pos = p /\ at.last = CellOf(p)
    BY AtType
<1> HIDE DEF at
<1>2. ents' = [ents EXCEPT ![e] = at]
    BY DEF at
<1>3. ents'[e] = at /\ jumped'[e] = n /\ ents' \in [Entities -> Placement \cup {None}]
      /\ jumped' \in [Entities -> 0..2]
    BY <1>1, <1>2 DEF Inv, World
<1>4. Others(e)
    BY <1>2 DEF Inv, World, Others
<1>5. /\ Handles(peer') /\ IndexOK(peer', grid', global', superseded')
      /\ \A w \in Peers : peer'[w].claims # None =>
             /\ peer'[w] = ps[w] /\ peer[w].claims # None
             /\ w \in global' => w \in global
      /\ \A x \in Entities : x # e => Told(x)'
    BY <1>4, Telling
<1>6. Told(e)'
    <2>1. Placed(e)'
        BY <1>1, <1>3 DEF Placed
    <2>2. Shadow(e)'
        BY DEF Inv, Told, Shadow
    <2>3. ASSUME NEW w \in Peers PROVE Named(w, e)'
        BY <1>1, <1>3 DEF Named
    <2>4. ASSUME NEW w \in Peers PROVE Matched(w, e)'
        <3>1. SUFFICES ASSUME peer'[w].claims # None, e \notin twice', ~crashed',
                              jumped'[e] = 0 \/ (jumped'[e] = 1 /\ w \in global')
                       PROVE  Right(conf'.hidden, peer'[w], e, ents'[e].pos)
            BY DEF Matched
        <3>2. peer'[w] = ps[w] /\ peer[w].claims # None /\ (w \in global' => w \in global)
            BY <1>5, <3>1
        <3>3. n = 0 \/ (n = 1 /\ w \in global)
            BY <1>3, <3>1, <3>2
        <3> QED
            BY <1>1, <1>3, <3>1, <3>2, <3>3
    <2> QED
        BY <2>1, <2>2, <2>3, <2>4 DEF Told
<1> QED
    BY <1>3, <1>5, <1>6 DEF Inv, World, CrashNamed

LEMMA HandlesAre == Inv => \A w \in Peers : IsHandle(peer[w])
BY DEF Inv, World, Handles

LEMMA PointsOf == Inv => conf.points \subseteq Points
BY ViewConstants DEF Inv, World

LEMMA HandOverAll ==
    ASSUME NEW ps, \A w \in Peers : IsHandle(ps[w]), NEW e, NEW p, NEW from, NEW to
    PROVE  LET qs == HandOver(ps, e, p, from, to) IN
           /\ qs = [w \in Peers |-> qs[w]]
           /\ \A w \in Peers : Only(ps[w], qs[w], e)
<1>1. \A w \in Peers : Only(ps[w], HandOver(ps, e, p, from, to)[w], e)
    BY HandOverShows
<1>2. HandOver(ps, e, p, from, to) = [w \in Peers |-> HandOver(ps, e, p, from, to)[w]]
    BY DEF HandOver
<1> QED
    BY <1>1, <1>2

LEMMA MoveKeeps ==
    ASSUME Inv, NEW e \in Entities, NEW p \in conf.points, Move(e, p) PROVE Inv'
<1>1. p \in Points
    BY PointsOf
<1>2. CASE Panics(p, ents[e].last)
    BY <1>2, PanicsNamed, CrashesKeeps DEF Move
<1>3. CASE ~Panics(p, ents[e].last)
    <2> DEFINE last == ents[e].last
               qs == Propagate(peer, e, p, last)
               ps == HandOver(qs, e, p, ents[e].region, Region(p))
               n == Min({jumped[e], 1})
    <2>1. /\ ents[e] # None /\ Dispatched(ps) /\ conf' = conf
          /\ ents' = [ents EXCEPT ![e] = At(p, CellOf(p), Region(p))]
          /\ jumped' = [jumped EXCEPT ![e] = n] /\ ghosts' = ghosts /\ away' = away
          /\ twice' = twice /\ superseded' = superseded /\ crashed' = crashed /\ link' = link
        BY <1>3 DEF Move, Alive
    <2>2. jumped[e] \in 0..2
        BY DEF Inv, World
    <2>3. n = IF jumped[e] = 0 THEN 0 ELSE 1
        <3>1. n \in {jumped[e], 1} /\ \A m \in {jumped[e], 1} : n <= m
            <4> DEFINE S == {jumped[e], 1}
            <4>1. \E x \in S : \A y \in S : x <= y
                BY <2>2
            <4> QED
                BY <4>1, Zenon DEF Min
        <3> QED
            BY <2>2, <3>1
    <2>4. /\ qs = [w \in Peers |-> qs[w]]
          /\ \A w \in Peers :
                /\ Only(peer[w], qs[w], e)
                /\ w \in Targets(p, last) /\ peer[w].claims # None =>
                       (e \in qs[w].view <=> Sees(conf.hidden, peer[w], e, p))
                /\ w \notin Targets(p, last) \/ peer[w].claims = None => qs[w] = peer[w]
        BY HandlesAre, PropagateShows
    <2> HIDE DEF qs, n
    <2>5. \A w \in Peers : IsHandle(qs[w])
        BY <2>4 DEF Only, Akin
    <2>6. ps = [w \in Peers |-> ps[w]] /\ \A w \in Peers : Only(qs[w], ps[w], e)
        BY <2>5, HandOverAll
    <2>7. ASSUME NEW w \in Peers, peer[w].claims # None, e \notin twice, ~crashed,
                 n = 0 \/ (n = 1 /\ w \in global)
          PROVE  Right(conf.hidden, ps[w], e, p)
        <3>1. Right(conf.hidden, qs[w], e, p)
            <4>1. CASE w \in Targets(p, last)
                <5>1. e \in qs[w].view <=> Sees(conf.hidden, peer[w], e, p)
                    BY <2>4, <2>7, <4>1
                <5>2. Sees(conf.hidden, qs[w], e, p) <=> Sees(conf.hidden, peer[w], e, p)
                    BY <2>4, AkinSees DEF Only
                <5> QED
                    BY <5>1, <5>2 DEF Right
            <4>2. CASE w \notin Targets(p, last)
                <5>1. qs[w] = peer[w] /\ w \notin global
                    BY <2>4, <4>2 DEF Targets
                <5>2. jumped[e] = 0
                    BY <2>3, <2>7, <5>1
                <5> QED
                    BY <1>1, <2>1, <2>7, <4>2, <5>1, <5>2, PassedOver
            <4> QED
                BY <4>1, <4>2
        <3> QED
            BY <2>5, <3>1, HandOverRight
    <2> HIDE DEF ps
    <2>8. \A w \in Peers : Only(peer[w], ps[w], e)
        BY <2>4, <2>6, OnlyOnly
    <2>9. n \in 0..2
        BY <2>3
    <2> QED
        BY <1>1, <2>1, <2>6, <2>7, <2>8, <2>9, Settled
<1> QED
    BY <1>2, <1>3

LEMMA MoveTwiceKeeps ==
    ASSUME Inv, NEW e \in Entities, NEW p \in conf.points, NEW q \in conf.points,
           MoveTwice(e, p, q)
    PROVE  Inv'
<1>1. p \in Points /\ q \in Points
    BY PointsOf
<1>2. CASE Panics(p, ents[e].last) \/ Panics(q, CellOf(p))
    BY <1>2, PanicsNamed, CrashesKeeps DEF MoveTwice
<1>3. CASE ~(Panics(p, ents[e].last) \/ Panics(q, CellOf(p)))
    <2> DEFINE os == Propagate(peer, e, p, ents[e].last)
               qs == Propagate(os, e, q, CellOf(p))
               ps == HandOver(qs, e, p, ents[e].region, Region(p))
    <2>1. /\ ents[e] # None /\ Dispatched(ps) /\ conf' = conf
          /\ ents' = [ents EXCEPT ![e] = At(p, CellOf(p), Region(p))]
          /\ jumped' = [jumped EXCEPT ![e] = 2] /\ ghosts' = ghosts /\ away' = away
          /\ twice' = twice /\ superseded' = superseded /\ crashed' = crashed /\ link' = link
        BY <1>3 DEF MoveTwice, Alive
    <2>2. \A w \in Peers : Only(peer[w], os[w], e)
        BY HandlesAre, PropagateShows
    <2> HIDE DEF os
    <2>3. \A w \in Peers : IsHandle(os[w])
        BY <2>2 DEF Only, Akin
    <2>4. \A w \in Peers : Only(os[w], qs[w], e)
        BY <2>3, PropagateShows
    <2> HIDE DEF qs
    <2>5. \A w \in Peers : IsHandle(qs[w])
        BY <2>4 DEF Only, Akin
    <2>6. ps = [w \in Peers |-> ps[w]] /\ \A w \in Peers : Only(qs[w], ps[w], e)
        BY <2>5, HandOverAll
    <2> HIDE DEF ps
    <2>7. \A w \in Peers : Only(peer[w], ps[w], e)
        BY <2>2, <2>4, <2>6, OnlyOnly
    <2>8. 2 \in 0..2 /\ 2 # 0 /\ 2 # 1
        OBVIOUS
    <2> QED
        BY <1>1, <2>1, <2>6, <2>7, <2>8, Settled
<1> QED
    BY <1>2, <1>3

\* A fold passes the cell the entity comes from: only who is everywhere is told for sure.
LEMMA FoldKeeps ==
    ASSUME Inv, NEW e \in Entities, NEW p \in conf.points, Fold(e, p) PROVE Inv'
<1>1. p \in Points
    BY PointsOf
<1>2. CASE Panics(p, CellOf(p))
    BY <1>2, PanicsNamed, CrashesKeeps DEF Fold
<1>3. CASE ~Panics(p, CellOf(p))
    <2> DEFINE qs == HandOver(peer, e, p, ents[e].region, Region(p))
               ps == Propagate(qs, e, p, CellOf(p))
    <2>1. /\ ents[e] # None /\ Dispatched(ps) /\ conf' = conf
          /\ ents' = [ents EXCEPT ![e] = At(p, CellOf(p), Region(p))]
          /\ jumped' = [jumped EXCEPT ![e] = 1] /\ ghosts' = ghosts /\ away' = away
          /\ twice' = twice /\ superseded' = superseded /\ crashed' = crashed /\ link' = link
        BY <1>3 DEF Fold, Alive
    <2>2. \A w \in Peers : Only(peer[w], qs[w], e)
        BY HandlesAre, HandOverAll
    <2> HIDE DEF qs
    <2>3. \A w \in Peers : IsHandle(qs[w]) /\ qs[w].claims = peer[w].claims
        BY <2>2 DEF Only, Akin
    <2>4. /\ ps = [w \in Peers |-> ps[w]]
          /\ \A w \in Peers :
                /\ Only(qs[w], ps[w], e)
                /\ w \in Targets(p, CellOf(p)) /\ qs[w].claims # None =>
                       (e \in ps[w].view <=> Sees(conf.hidden, qs[w], e, p))
        BY <2>3, PropagateShows
    <2> HIDE DEF ps
    <2>5. \A w \in Peers : Only(peer[w], ps[w], e)
        BY <2>2, <2>4, OnlyOnly
    <2>6. ASSUME NEW w \in Peers, peer[w].claims # None, w \in global
          PROVE  Right(conf.hidden, ps[w], e, p)
        <3>1. w \in Targets(p, CellOf(p))
            BY <2>6 DEF Targets
        <3>2. e \in ps[w].view <=> Sees(conf.hidden, qs[w], e, p)
            BY <2>3, <2>4, <2>6, <3>1
        <3>3. Sees(conf.hidden, ps[w], e, p) <=> Sees(conf.hidden, qs[w], e, p)
            BY <2>4, AkinSees DEF Only
        <3> QED
            BY <3>2, <3>3 DEF Right
    <2>7. 1 \in 0..2 /\ 1 # 0
        OBVIOUS
    <2> QED
        BY <1>1, <2>1, <2>4, <2>5, <2>6, <2>7, Settled
<1> QED
    BY <1>2, <1>3

(***************************************************************************)
(* Entities appear and leave.                                              *)
(***************************************************************************)
LEMMA EachOnly ==
    ASSUME Inv, NEW e, NEW ps, ps = [w \in Peers |-> ps[w]],
           \A w \in Peers : IF peer[w].claims # None THEN Only(peer[w], ps[w], e)
                            ELSE ps[w] = peer[w]
    PROVE  \A w \in Peers : Only(peer[w], ps[w], e)
BY HandlesAre, AkinSelf

\* An entity that was not there appears to whom sees it.
LEMMA Appeared ==
    ASSUME Inv, NEW e \in Entities, NEW p \in Points, conf' = conf, ents[e] = None,
           ents' = [ents EXCEPT ![e] = At(p, CellOf(p), Region(p))],
           ghosts' \in [Entities -> Ghost \cup {None}],
           \A x \in Entities : x # e => /\ ghosts'[x] = ghosts[x]
                                        /\ x \in twice' <=> x \in twice,
           e \in twice' \/ (e \notin twice /\ ghosts'[e] = None),
           jumped' = jumped, superseded' = superseded, crashed' = crashed,
           away' = away, link' \in Seq(LinkFrame),
           NEW ps, ps = [w \in Peers |-> ps[w]], \A w \in Peers : Only(peer[w], ps[w], e),
           Dispatched(ps),
           \A w \in Peers : peer[w].claims # None /\ e \notin twice' =>
               (e \in ps[w].view <=> Sees(conf.hidden, peer[w], e, p))
    PROVE  Inv'
<1> DEFINE at == At(p, CellOf(p), Region(p))
<1>1. at \in Placement /\ at # None /\ at.pos = p /\ at.last = CellOf(p)
    BY AtType
<1> HIDE DEF at
<1>2. ents' = [ents EXCEPT ![e] = at]
    BY DEF at
<1>3. ents'[e] = at /\ ents' \in [Entities -> Placement \cup {None}]
    BY <1>1, <1>2 DEF Inv, World
<1>4. Others(e)
    BY <1>2 DEF Inv, World, Others
<1>5. /\ Handles(peer') /\ IndexOK(peer', grid', global', superseded')
      /\ \A w \in Peers : peer'[w].claims # None =>
             peer'[w] = ps[w] /\ peer[w].claims # None
      /\ \A x \in Entities : x # e => Told(x)'
    BY <1>4, Telling
<1>6. Told(e)'
    <2>1. Placed(e)' /\ Shadow(e)'
        BY <1>1, <1>3 DEF Placed, Shadow
    <2>2. ASSUME NEW w \in Peers PROVE Named(w, e)'
        BY <1>1, <1>3 DEF Named
    <2>3. ASSUME NEW w \in Peers PROVE Matched(w, e)'
        <3>1. SUFFICES ASSUME peer'[w].claims # None, e \notin twice'
                       PROVE  Right(conf'.hidden, peer'[w], e, ents'[e].pos)
            BY DEF Matched
        <3>2. peer'[w] = ps[w] /\ peer[w].claims # None
            BY <1>5, <3>1
        <3>3. Sees(conf.hidden, ps[w], e, p) <=> Sees(conf.hidden, peer[w], e, p)
            BY AkinSees DEF Only
        <3>4. Right(conf.hidden, ps[w], e, p)
            BY <3>1, <3>2, <3>3 DEF Right
        <3> QED
            BY <1>1, <1>3, <3>2, <3>4
    <2> QED
        BY <2>1, <2>2, <2>3 DEF Told
<1>7. jumped' \in [Entities -> 0..2] /\ away' \in [Entities -> Points \cup {None}] /\ conf' \in Deployments
    BY DEF Inv, World
<1>8. CrashNamed'
    BY DEF Inv, CrashNamed
<1> QED
    BY <1>3, <1>5, <1>6, <1>7, <1>8 DEF Inv, World

LEMMA CreateKeeps ==
    ASSUME Inv, NEW e \in Entities, NEW p \in conf.points, CreateEntity(e, p) PROVE Inv'
<1> DEFINE ps == Each(LAMBDA w, s : SpawnTo(w, s, e, p))
<1>1. p \in Points
    BY PointsOf
<1>2. ps = [w \in Peers |-> IF peer[w].claims # None THEN SpawnTo(w, peer[w], e, p) ELSE peer[w]]
    BY DEF Each, Here
<1>3. /\ ents[e] = None /\ Dispatched(ps) /\ conf' = conf
      /\ ents' = [ents EXCEPT ![e] = At(p, CellOf(p), Region(p))]
      /\ twice' = (IF away[e] # None \/ ghosts[e] # None THEN twice \cup {e} ELSE twice)
      /\ jumped' = jumped /\ ghosts' = ghosts /\ away' = away
      /\ superseded' = superseded /\ crashed' = crashed /\ link' = link
    BY DEF CreateEntity, Alive
<1> HIDE DEF ps
<1>4. ASSUME NEW w \in Peers, peer[w].claims # None
      PROVE  /\ Only(peer[w], ps[w], e)
             /\ e \in ps[w].view <=> e \in peer[w].view \/ Sees(conf.hidden, peer[w], e, p)
    <2>1. ps[w] = SpawnTo(w, peer[w], e, p)
        BY <1>2, <1>4
    <2> QED
        BY <2>1, HandlesAre, SpawnToShows
<1>5. ps = [w \in Peers |-> ps[w]] /\ \A w \in Peers : Only(peer[w], ps[w], e)
    BY <1>2, <1>4, EachOnly
<1>6. ASSUME NEW w \in Peers, peer[w].claims # None, e \notin twice'
      PROVE  e \in ps[w].view <=> Sees(conf.hidden, peer[w], e, p)
    <2>1. e \notin twice /\ ghosts[e] = None
        BY <1>3, <1>6
    <2>2. Named(w, e)
        BY DEF Inv, Told
    <2>3. e \notin peer[w].view
        BY <1>3, <1>6, <2>1, <2>2 DEF Named
    <2> QED
        BY <1>4, <1>6, <2>3
<1>7. /\ ghosts' \in [Entities -> Ghost \cup {None}] /\ link' \in Seq(LinkFrame)
      /\ \A x \in Entities : x # e => /\ ghosts'[x] = ghosts[x]
                                      /\ x \in twice' <=> x \in twice
      /\ e \in twice' \/ (e \notin twice /\ ghosts'[e] = None)
    BY <1>3 DEF Inv, World
<1> QED
    BY <1>1, <1>3, <1>5, <1>6, <1>7, Appeared

\* An entity that goes, out of every view.
LEMMA Left ==
    ASSUME Inv, NEW e \in Entities, conf' = conf, ents' = [ents EXCEPT ![e] = None],
           jumped' = [jumped EXCEPT ![e] = 0], ghosts' = ghosts,
           twice' = twice, superseded' = superseded, crashed' = crashed,
           away' \in [Entities -> Points \cup {None}], link' = link,
           NEW ps, ps = [w \in Peers |-> ps[w]], \A w \in Peers : Only(peer[w], ps[w], e),
           Dispatched(ps), \A w \in Peers : peer[w].claims # None => e \notin ps[w].view
    PROVE  Inv'
<1>1. ents'[e] = None /\ jumped'[e] = 0 /\ ents' \in [Entities -> Placement \cup {None}]
      /\ jumped' \in [Entities -> 0..2]
    BY DEF Inv, World
<1>2. Others(e)
    BY DEF Inv, World, Others
<1>3. /\ Handles(peer') /\ IndexOK(peer', grid', global', superseded')
      /\ \A w \in Peers : peer'[w].claims # None =>
             peer'[w] = ps[w] /\ peer[w].claims # None
      /\ \A x \in Entities : x # e => Told(x)'
    BY <1>2, Telling
<1>4. Told(e)'
    BY <1>1, <1>3 DEF Told, Placed, Shadow, Named, Matched
<1>5. CrashNamed' /\ ghosts' \in [Entities -> Ghost \cup {None}] /\ link' \in Seq(LinkFrame) /\ conf' \in Deployments
    BY DEF Inv, World, CrashNamed
<1> QED
    BY <1>1, <1>3, <1>4, <1>5 DEF Inv, World

LEMMA DeleteKeeps == ASSUME Inv, NEW e \in Entities, DeleteEntity(e) PROVE Inv'
<1> DEFINE ps == Removed(e)
<1>1. ps = [w \in Peers |-> IF peer[w].claims # None THEN RemoveFromView(peer[w], e) ELSE peer[w]]
    BY DEF Removed, Each, Here
<1>2. /\ Dispatched(ps) /\ conf' = conf /\ ents' = [ents EXCEPT ![e] = None]
      /\ jumped' = [jumped EXCEPT ![e] = 0] /\ ghosts' = ghosts /\ away' = away
      /\ twice' = twice /\ superseded' = superseded /\ crashed' = crashed /\ link' = link
    BY DEF DeleteEntity
<1> HIDE DEF ps
<1>3. ASSUME NEW w \in Peers, peer[w].claims # None
      PROVE  Only(peer[w], ps[w], e) /\ e \notin ps[w].view
    BY <1>1, <1>3, HandlesAre, RemoveShows
<1>4. ps = [w \in Peers |-> ps[w]] /\ \A w \in Peers : Only(peer[w], ps[w], e)
    BY <1>1, <1>3, EachOnly
<1>5. away' \in [Entities -> Points \cup {None}]
    BY <1>2 DEF Inv, World
<1> QED
    BY <1>2, <1>3, <1>4, <1>5, Left

LEMMA DepartKeeps ==
    ASSUME Inv, NEW e \in Entities, NEW p \in conf.points, Depart(e, p) PROVE Inv'
<1>1. p \in Points
    BY PointsOf
<1>2. CASE Panics(p, ents[e].last)
    BY <1>2, PanicsNamed, CrashesKeeps DEF Depart
<1>3. CASE ~Panics(p, ents[e].last)
    <2> DEFINE qs == Propagate(peer, e, p, ents[e].last)
               ps == [w \in Peers |-> IF Here(w) THEN RemoveFromView(qs[w], e) ELSE qs[w]]
    <2>1. /\ Dispatched(ps) /\ conf' = conf /\ ents' = [ents EXCEPT ![e] = None]
          /\ jumped' = [jumped EXCEPT ![e] = 0] /\ ghosts' = ghosts
          /\ away' = [away EXCEPT ![e] = p]
          /\ twice' = twice /\ superseded' = superseded /\ crashed' = crashed /\ link' = link
        BY <1>3 DEF Depart
    <2>2. \A w \in Peers : Only(peer[w], qs[w], e)
        BY HandlesAre, PropagateShows
    <2> HIDE DEF qs
    <2>3. \A w \in Peers : IsHandle(qs[w])
        BY <2>2 DEF Only, Akin
    <2>4. ASSUME NEW w \in Peers
          PROVE  Only(qs[w], ps[w], e) /\ (peer[w].claims # None => e \notin ps[w].view)
        BY <2>3, RemoveShows, AkinSelf DEF Here
    <2>5. ps = [w \in Peers |-> ps[w]]
        OBVIOUS
    <2> HIDE DEF ps
    <2>6. \A w \in Peers : Only(peer[w], ps[w], e)
        BY <2>2, <2>4, OnlyOnly
    <2>7. away' \in [Entities -> Points \cup {None}]
        BY <1>1, <2>1 DEF Inv, World
    <2> QED
        BY <2>1, <2>4, <2>5, <2>6, <2>7, Left
<1> QED
    BY <1>2, <1>3

(***************************************************************************)
(* The neighbour broker.                                                   *)
(***************************************************************************)
\* Nobody is shown anything, and some peers may go.
LEMMA QuietKeeps ==
    ASSUME Inv, conf' = conf, ents' = ents, ghosts' = ghosts, crashed' = crashed,
           histories' = histories, away' \in [Entities -> Points \cup {None}],
           link' \in Seq(LinkFrame), Handles(peer'), IndexOK(peer', grid', global', superseded),
           \A w \in Peers : peer'[w].claims # None =>
               Alike(peer[w], peer'[w]) /\ (w \in global' => w \in global)
    PROVE  Inv'
<1>1. jumped' = jumped /\ twice' = twice /\ superseded' = superseded
    BY DEF histories
<1>2. \A e \in Entities : Told(e)'
    BY <1>1, Quiet
<1> QED
    BY <1>1, <1>2 DEF Inv, World, CrashNamed

LEMMA QuietDispatch ==
    ASSUME Inv, conf' = conf, scene' = scene, crashed' = crashed, histories' = histories,
           NEW ps, ps = [w \in Peers |-> ps[w]], \A w \in Peers : Alike(peer[w], ps[w]),
           Dispatched(ps)
    PROVE  Inv'
<1>1. /\ ents' = ents /\ ghosts' = ghosts /\ away' = away /\ link' = link
    BY DEF scene
<1>2. Handles(ps) /\ IndexOK(ps, grid, global, superseded)
    BY AkinIndex DEF Inv, World, Alike
<1>3. /\ Handles(peer') /\ IndexOK(peer', grid', global', superseded)
      /\ global' \subseteq global
      /\ \A w \in Peers : peer'[w].claims # None => peer'[w] = ps[w]
    BY <1>2, Reaping DEF Dispatched
<1>4. away' \in [Entities -> Points \cup {None}] /\ link' \in Seq(LinkFrame)
    BY <1>1 DEF Inv, World
<1>5. \A w \in Peers : peer'[w].claims # None =>
          Alike(peer[w], peer'[w]) /\ (w \in global' => w \in global)
    BY <1>3
<1> QED
    BY <1>1, <1>3, <1>4, <1>5, QuietKeeps

\* Steps that leave the broker alone.
LEMMA AsideKeeps ==
    ASSUME Inv, conf' = conf, ents' = ents, ghosts' = ghosts, crashed' = crashed,
           histories' = histories, away' \in [Entities -> Points \cup {None}],
           link' \in Seq(LinkFrame), peer' = peer, index' = index
    PROVE  Inv'
<1>1. grid' = grid /\ global' = global
    BY DEF index
<1>2. Handles(peer') /\ IndexOK(peer', grid', global', superseded)
    BY <1>1 DEF Inv, World
<1>3. \A w \in Peers : Alike(peer[w], peer'[w])
    BY HandlesAre, AkinSelf, SameAlike
<1> QED
    BY <1>1, <1>2, <1>3, QuietKeeps

\* SetToSeq lists the members of a finite set.
LEMMA SetToSeqIs ==
    ASSUME NEW S, IsFiniteSet(S)
    PROVE  SetToSeq(S) \in Seq(S)
<1> DEFINE n == Cardinality(S)
<1>1. n \in Nat /\ ExistsBijection(1..n, S)
    BY FS_CardinalityType
<1>2. PICK f \in [1..n -> S] : IsInjective(f)
    BY <1>1 DEF ExistsBijection, Bijection, Injection, IsInjective
<1>3. SetToSeq(S) \in [1..n -> S]
    BY <1>2 DEF SetToSeq
<1> QED
    BY <1>1, <1>3

LEMMA AwayMoveKeeps ==
    ASSUME Inv, NEW e \in Entities, NEW p \in conf.points, AwayMove(e, p) PROVE Inv'
<1>1. p \in Points
    BY PointsOf
<1>2. /\ conf' = conf /\ ents' = ents /\ ghosts' = ghosts /\ crashed' = crashed
      /\ histories' = histories /\ away' = [away EXCEPT ![e] = p] /\ link' = link
      /\ peer' = peer /\ index' = index
    BY DEF AwayMove
<1>3. away' \in [Entities -> Points \cup {None}] /\ link' \in Seq(LinkFrame)
    BY <1>1, <1>2 DEF Inv, World
<1> QED
    BY <1>2, <1>3, AsideKeeps

LEMMA AwayLeavesKeeps == ASSUME Inv, NEW e \in Entities, AwayLeaves(e) PROVE Inv'
<1>1. /\ conf' = conf /\ ents' = ents /\ ghosts' = ghosts /\ crashed' = crashed
      /\ histories' = histories /\ away' = [away EXCEPT ![e] = None]
      /\ link' = Append(link, <<"handoff", e, 1>>) \/ link' = link
      /\ peer' = peer /\ index' = index
    BY DEF AwayLeaves
<1>2. <<"handoff", e, 1>> \in LinkFrame
    BY DEF LinkFrame, Points
<1>3. away \in [Entities -> Points \cup {None}] /\ link \in Seq(LinkFrame)
    BY DEF Inv, World
<1>4. away' \in [Entities -> Points \cup {None}]
    BY <1>1, <1>3
<1>5. link' \in Seq(LinkFrame)
    BY <1>1, <1>2, <1>3
<1> QED
    BY <1>1, <1>4, <1>5, AsideKeeps

LEMMA PushKeeps == ASSUME Inv, PushBorderGhosts PROVE Inv'
<1> DEFINE near == {e \in Entities : away[e] \in Band}
           S == {<<"ghost", e, away[e]>> : e \in near}
<1>1. /\ conf' = conf /\ ents' = ents /\ ghosts' = ghosts /\ crashed' = crashed
      /\ histories' = histories /\ away' = away /\ link' = SetToSeq(S)
      /\ peer' = peer /\ index' = index
    BY DEF PushBorderGhosts
<1>2. S \subseteq LinkFrame
    BY DEF LinkFrame, Points, Band
<1>3. IsFiniteSet(S)
    <2>1. IsFiniteSet(near)
        BY ViewConstants, FS_Subset
    <2> DEFINE f == [e \in near |-> <<"ghost", e, away[e]>>]
    <2>2. f \in Surjection(near, S)
        BY DEF Surjection
    <2> QED
        BY <2>1, <2>2, FS_Surjection
<1> HIDE DEF S
<1>4. away' \in [Entities -> Points \cup {None}] /\ link' \in Seq(LinkFrame)
    BY <1>1, <1>2, <1>3, SetToSeqIs DEF Inv, World
<1> QED
    BY <1>1, <1>4, AsideKeeps

LEMMA LoseKeeps == ASSUME Inv, LoseGhost PROVE Inv'
<1>1. /\ conf' = conf /\ ents' = ents /\ ghosts' = ghosts /\ crashed' = crashed
      /\ histories' = histories /\ away' = away /\ link' = Tail(link) /\ link # <<>>
      /\ peer' = peer /\ index' = index
    BY DEF LoseGhost
<1>2. away' \in [Entities -> Points \cup {None}] /\ link' \in Seq(LinkFrame)
    BY <1>1 DEF Inv, World
<1> QED
    BY <1>1, <1>2, AsideKeeps

\* A ghost is shown only where the entity is not.
LEMMA MeshGhostKeeps ==
    ASSUME Inv, NEW e \in Entities, NEW p \in Points, MeshGhost(e, p), conf' = conf,
           link' \in Seq(LinkFrame), away' = away, crashed' = crashed,
           twice' = twice, superseded' = superseded
    PROVE  Inv'
<1>1. CASE ents[e] # None
    <2>1. /\ ents' = ents /\ ghosts' = ghosts /\ jumped' = jumped /\ peer' = peer /\ index' = index
        BY <1>1 DEF MeshGhost, Alive
    <2>2. histories' = histories /\ away' \in [Entities -> Points \cup {None}]
        BY <2>1 DEF histories, Inv, World
    <2> QED
        BY <2>1, <2>2, AsideKeeps
<1>2. CASE ents[e] = None
    <2> DEFINE ps == Each(LAMBDA w, s : GhostTo(s, e, p, ghosts[e] = None))
               ghost == [pos |-> p, age |-> 0]
    <2>1. /\ Dispatched(ps) /\ ghosts' = [ghosts EXCEPT ![e] = ghost]
          /\ ents' = ents /\ jumped' = jumped
        BY <1>2 DEF MeshGhost, Alive
    <2>2. ps = [w \in Peers |-> IF peer[w].claims # None
                               THEN GhostTo(peer[w], e, p, ghosts[e] = None) ELSE peer[w]]
        BY DEF Each, Here
    <2>3. ghost \in Ghost /\ ghost # None
        BY ViewConstants DEF Ghost
    <2> HIDE DEF ps, ghost
    <2>4. ps = [w \in Peers |-> ps[w]] /\ \A w \in Peers : Only(peer[w], ps[w], e)
        BY <2>2, HandlesAre, GhostToShows, EachOnly
    <2>5. ghosts' \in [Entities -> Ghost \cup {None}] /\ ghosts'[e] # None
        BY <2>1, <2>3 DEF Inv, World
    <2>6. Others(e)
        BY <2>1 DEF Inv, World, Others
    <2>7. /\ Handles(peer') /\ IndexOK(peer', grid', global', superseded')
          /\ \A x \in Entities : x # e => Told(x)'
        BY <2>4, <2>1, <2>6, Telling
    <2>8. Told(e)'
        <3>1. Told(e)
            BY DEF Inv
        <3> QED
            BY <1>2, <2>1, <2>5, <3>1 DEF Told, Placed, Shadow, Named, Matched
    <2>9. /\ CrashNamed' /\ ents' \in [Entities -> Placement \cup {None}]
          /\ jumped' \in [Entities -> 0..2] /\ conf' \in Deployments
          /\ away' \in [Entities -> Points \cup {None}]
        BY <2>1 DEF Inv, World, CrashNamed
    <2> QED
        BY <2>5, <2>7, <2>8, <2>9 DEF Inv, World
<1> QED
    BY <1>1, <1>2

LEMMA AdoptKeeps ==
    ASSUME Inv, NEW e \in Entities, NEW p \in Points, Adopt(e, p), conf' = conf,
           link' \in Seq(LinkFrame), away' = away, crashed' = crashed,
           twice' = twice, superseded' = superseded
    PROVE  Inv'
<1> DEFINE without(s) == IF ghosts[e] # None THEN RemoveFromView(s, e) ELSE s
<1>1. ghosts' = [ghosts EXCEPT ![e] = None] /\ jumped' = jumped
    BY DEF Adopt
<1>2. ghosts' \in [Entities -> Ghost \cup {None}] /\ ghosts'[e] = None
      /\ \A x \in Entities : x # e => ghosts'[x] = ghosts[x]
    BY <1>1 DEF Inv, World
<1>3. ASSUME NEW w \in Peers
      PROVE  /\ IsHandle(without(peer[w])) /\ Only(peer[w], without(peer[w]), e)
             /\ ghosts[e] = None => without(peer[w]) = peer[w]
             /\ ghosts[e] # None => e \notin without(peer[w]).view
    <2>1. IsHandle(peer[w])
        BY HandlesAre
    <2>2. Only(peer[w], peer[w], e) /\ Only(peer[w], RemoveFromView(peer[w], e), e)
          /\ e \notin RemoveFromView(peer[w], e).view
        BY <2>1, RemoveShows, AkinSelf
    <2> QED
        BY <2>1, <2>2 DEF Only, Akin
<1>4. CASE ents[e] # None
    <2> DEFINE ps == Each(LAMBDA w, s : without(s))
    <2>1. Dispatched(ps) /\ ents' = ents
        BY <1>4 DEF Adopt, Alive
    <2>2. ps = [w \in Peers |-> IF peer[w].claims # None THEN without(peer[w]) ELSE peer[w]]
        BY DEF Each, Here
    <2> HIDE DEF ps, without
    <2>3. ps = [w \in Peers |-> ps[w]] /\ \A w \in Peers : Only(peer[w], ps[w], e)
        BY <1>3, <2>2, EachOnly
    <2>4. Others(e)
        BY <1>1, <1>2, <2>1 DEF Others
    <2>5. /\ Handles(peer') /\ IndexOK(peer', grid', global', superseded')
          /\ \A w \in Peers : peer'[w].claims # None =>
                  /\ peer'[w] = ps[w] /\ peer[w].claims # None
                  /\ w \in global' => w \in global
          /\ \A x \in Entities : x # e => Told(x)'
        BY <2>1, <2>3, <2>4, Telling
    <2>6. Told(e)'
        <3>1. Told(e)
            BY DEF Inv
        <3>2. CASE e \in twice
            BY <1>1, <1>4, <2>1, <3>1, <3>2 DEF Told, Placed, Shadow, Named, Matched
        <3>3. CASE e \notin twice
            <4>1. ghosts[e] = None
                BY <1>4, <3>1, <3>3 DEF Told, Shadow
            <4>2. \A w \in Peers : peer'[w].claims # None => peer'[w] = peer[w]
                BY <1>3, <2>2, <2>5, <4>1
            <4>3. \A w \in Peers : peer'[w].claims # None =>
                      /\ Akin(peer[w], peer'[w])
                      /\ e \in peer'[w].view <=> e \in peer[w].view
                      /\ e \in peer'[w].given <=> e \in peer[w].given
                      /\ w \in global' => w \in global
                BY <2>5, <4>2, HandlesAre, AkinSelf DEF Same
            <4>4. ghosts'[e] = ghosts[e] /\ ents'[e] = ents[e] /\ jumped'[e] = jumped[e]
                BY <1>1, <1>2, <2>1, <4>1
            <4> QED
                BY <3>1, <4>3, <4>4, Unmoved
        <3> QED
            BY <3>2, <3>3
    <2>7. /\ CrashNamed' /\ ents' \in [Entities -> Placement \cup {None}]
          /\ jumped' \in [Entities -> 0..2] /\ conf' \in Deployments
          /\ away' \in [Entities -> Points \cup {None}]
        BY <1>1, <2>1 DEF Inv, World, CrashNamed
    <2> QED
        BY <1>2, <2>5, <2>6, <2>7 DEF Inv, World
<1>5. CASE ents[e] = None
    <2> DEFINE ps == Each(LAMBDA w, s : SpawnTo(w, without(s), e, p))
    <2>1. Dispatched(ps) /\ ents' = [ents EXCEPT ![e] = At(p, CellOf(p), Region(p))]
        BY <1>5 DEF Adopt, Alive
    <2>2. ps = [w \in Peers |-> IF peer[w].claims # None
                               THEN SpawnTo(w, without(peer[w]), e, p) ELSE peer[w]]
        BY DEF Each, Here
    <2> HIDE DEF ps, without
    <2>3. ASSUME NEW w \in Peers, peer[w].claims # None
          PROVE  /\ Only(peer[w], ps[w], e)
                 /\ e \notin twice => (e \in ps[w].view <=> Sees(conf.hidden, peer[w], e, p))
        <3> DEFINE s == without(peer[w])
        <3>1. ps[w] = SpawnTo(w, s, e, p)
            BY <2>2, <2>3
        <3>2. IsHandle(s) /\ Only(peer[w], s, e)
            BY <1>3
        <3>3. e \notin twice => e \notin s.view
            <4>1. Named(w, e)
                BY DEF Inv, Told
            <4> QED
                BY <1>3, <1>5, <2>3, <4>1 DEF Named
        <3> HIDE DEF s
        <3>4. Only(s, ps[w], e) /\ (e \in ps[w].view <=> e \in s.view \/ Sees(conf.hidden, s, e, p))
            BY <3>1, <3>2, SpawnToShows
        <3>5. Sees(conf.hidden, s, e, p) <=> Sees(conf.hidden, peer[w], e, p)
            BY <3>2, AkinSees DEF Only
        <3> QED
            BY <3>2, <3>3, <3>4, <3>5, OnlyOnly
    <2>4. ps = [w \in Peers |-> ps[w]] /\ \A w \in Peers : Only(peer[w], ps[w], e)
        BY <2>2, <2>3, EachOnly
    <2>5. e \in twice' \/ (e \notin twice /\ ghosts'[e] = None)
        BY <1>2
    <2> QED
        BY <1>1, <1>2, <1>5, <2>1, <2>3, <2>4, <2>5, Appeared
<1> QED
    BY <1>4, <1>5

LEMMA ReceiveKeeps == ASSUME Inv, ReceiveMesh PROVE Inv'
<1> DEFINE f == Head(link)
<1>1. link \in Seq(LinkFrame) /\ link # <<>>
    BY DEF ReceiveMesh, Inv, World
<1>2. f \in LinkFrame /\ Tail(link) \in Seq(LinkFrame)
    BY <1>1
<1>3. f[2] \in Entities /\ f[3] \in Points
    BY <1>2 DEF LinkFrame
<1>4. /\ link' = Tail(link) /\ conf' = conf /\ away' = away /\ crashed' = crashed
      /\ twice' = twice /\ superseded' = superseded
      /\ MeshGhost(f[2], f[3]) \/ Adopt(f[2], f[3])
    BY DEF ReceiveMesh
<1> HIDE DEF f
<1> QED
    BY <1>2, <1>3, <1>4, MeshGhostKeeps, AdoptKeeps

(***************************************************************************)
(* Connections and what they ask for.                                      *)
(***************************************************************************)
\* A step on one handle that shows its peer nothing.
LEMMA QuietOne ==
    ASSUME Inv, conf' = conf, scene' = scene, crashed' = crashed, histories' = histories,
           NEW w \in Peers, NEW s, Same(peer[w], s), Dispatched([peer EXCEPT ![w] = s])
    PROVE  Inv'
<1> DEFINE ps == [peer EXCEPT ![w] = s]
<1>1. peer = [v \in Peers |-> peer[v]]
    BY DEF Inv, World, Handles
<1>2. ps = [v \in Peers |-> IF v = w THEN s ELSE peer[v]]
    BY <1>1
<1>3. Dispatched(ps)
    OBVIOUS
<1> HIDE DEF ps
<1>4. ps = [v \in Peers |-> ps[v]] /\ \A v \in Peers : Alike(peer[v], ps[v])
    BY <1>2, HandlesAre, AkinSelf, SameAlike
<1> QED
    BY <1>3, <1>4, QuietDispatch

LEMMA PaidSame ==
    ASSUME Inv, NEW w \in Peers, NEW op PROVE Same(peer[w], Paid(w, op))
BY HandlesAre DEF Paid, Same, Akin, IsHandle, Fields

\* What dispatch_frame does with a frame it does not hand on.
Refuses(w, op) ==
    \/ Dispatched([peer EXCEPT ![w] = Emit(@, <<"reject">>)])
    \/ Dispatched([peer EXCEPT ![w] = Emit(Paid(w, op), <<"reject">>)])
LEMMA RefusesKeeps ==
    ASSUME Inv, NEW w \in Peers, NEW op, Refuses(w, op),
           conf' = conf, scene' = scene, crashed' = crashed, histories' = histories
    PROVE  Inv'
<1>1. Same(peer[w], Emit(peer[w], <<"reject">>)) /\ Same(peer[w], Emit(Paid(w, op), <<"reject">>))
    BY HandlesAre, EmitSame, EmitsSame, PaidSame
<1> QED
    BY <1>1, QuietOne DEF Refuses

LEMMA InspectorKeeps == ASSUME Inv, NEW w \in Peers, InspectorQuery(w) PROVE Inv'
<1> DEFINE answer == IF "inspector" \in peer[w].claims.attributes THEN "inspector" ELSE "reject"
           s == Emit(Paid(w, "InspectorQuery"), <<answer>>)
<1>1. Dispatched([peer EXCEPT ![w] = s]) \/ Refuses(w, "InspectorQuery")
    BY Zenon DEF InspectorQuery, Ingress, Refuses
<1>2. conf' = conf /\ scene' = scene /\ crashed' = crashed /\ histories' = histories
    BY DEF InspectorQuery
<1>3. Same(peer[w], s)
    BY HandlesAre, EmitsSame, PaidSame
<1> HIDE DEF s
<1> QED
    BY <1>1, <1>2, <1>3, QuietOne, RefusesKeeps

LEMMA EntityQueryKeeps == ASSUME Inv, NEW w \in Peers, EntityQuery(w) PROVE Inv'
<1> DEFINE s == Paid(w, "EntityQuery")
           rows == RowsFor(s)
           answered == Emit(s, <<"rows", rows>>)
           t == [answered EXCEPT !.stray = (s.view \ DOMAIN rows) \cup (DOMAIN rows \ s.view),
                                 !.unseen = {e \in DOMAIN rows \ s.view : rows[e].ghost},
                                 !.lossy = @ \ DOMAIN rows]
<1>1. Dispatched([peer EXCEPT ![w] = t]) \/ Refuses(w, "EntityQuery")
    BY Zenon DEF EntityQuery, Ingress, Refuses
<1>2. conf' = conf /\ scene' = scene /\ crashed' = crashed /\ histories' = histories
    BY DEF EntityQuery
<1>3. Same(peer[w], answered)
    BY HandlesAre, EmitsSame, PaidSame
<1> HIDE DEF answered, rows, s
<1>4. Same(peer[w], t)
    BY <1>3 DEF Same, Akin, IsHandle, Fields
<1> HIDE DEF t
<1> QED
    BY <1>1, <1>2, <1>4, QuietOne, RefusesKeeps

\* The interest changes, and the view and the hash with it.
LEMMA InterestKeeps ==
    ASSUME Inv, NEW w \in Peers, NEW aoi \in AreaType, Interest(w, aoi) PROVE Inv'
<1> DEFINE asked == [Paid(w, "Interest") EXCEPT !.aoi = aoi, !.seq = [e \in Entities |-> 0]]
           told == IF aoi.center = None /\ asked.claims.region = "OBS" /\ ~GlobalObserver(asked)
                   THEN Emit(asked, <<"reject">>) ELSE asked
           S == {e \in Entities : ents[e] # None}
           after == ReconcileAll(told, S)
           ps == [peer EXCEPT ![w] = after]
           g == GridWith(w, asked, peer[w])
           all == GlobalWith(w, asked)
<1>1. DispatchedWith(ps, g, all) \/ Refuses(w, "Interest")
    BY Zenon DEF Interest, Ingress, Refuses
<1>2. /\ conf' = conf /\ scene' = scene /\ crashed' = crashed /\ histories' = histories
      /\ peer[w].claims # None
    BY DEF Interest, Ingress, Here
<1>3. CASE Refuses(w, "Interest")
    BY <1>2, <1>3, RefusesKeeps
<1>4. CASE DispatchedWith(ps, g, all)
    <2>1. Same(peer[w], Paid(w, "Interest"))
        BY PaidSame
    <2>2. /\ IsHandle(asked) /\ asked.claims = peer[w].claims /\ asked.view = peer[w].view
          /\ asked.given = peer[w].given /\ asked.aoi = aoi
        BY <2>1 DEF Same, Akin, IsHandle, Fields
    <2> HIDE DEF asked
    <2>3. Same(asked, told)
        BY <2>2, EmitSame, AkinSelf
    <2> HIDE DEF told
    <2>4. Through("reconcile", told, after, S)
        BY <2>3, ReconcileThrough DEF Same, Akin
    <2> HIDE DEF after
    <2>5. Akin(asked, after) /\ after.claims = peer[w].claims /\ after.aoi = aoi
        BY <2>2, <2>3, <2>4 DEF Through, Same, Akin
    <2>6. Handles(peer)
        BY DEF Inv, World
    <2>7. ps = [v \in Peers |-> IF v = w THEN after ELSE peer[v]]
        BY <2>6 DEF Handles
    <2> HIDE DEF ps
    <2>8. Handles(ps)
        BY <2>5, <2>6, <2>7 DEF Handles, Akin
    <2>9. IndexOK(ps, g, all, superseded)
        <3> DEFINE cs == Cells(asked)
                   was == Cells(peer[w])
        <3>1. Cells(after) = cs /\ (IsGlobal(after) <=> IsGlobal(asked)) /\ cs \subseteq Int
            BY <2>2, <2>5, AkinSees, CellsType
        <3>2. g = {x \in grid : x[2] # w \/ x[1] \notin was} \cup {<<c, w>> : c \in cs}
            BY DEF GridWith, GridWithout
        <3>3. all = IF IsGlobal(asked) THEN global \cup {w} ELSE global \ {w}
            BY DEF GlobalWith
        <3>4. IndexOK(peer, grid, global, superseded)
            BY DEF Inv
        <3> HIDE DEF cs, was, g, all
        <3>5. all \subseteq Peers /\ g \subseteq Int \X Peers
            BY <3>1, <3>2, <3>3, <3>4 DEF IndexOK
        <3>6. ASSUME NEW v \in Peers
              PROVE  /\ v \in all <=> ps[v].claims # None /\ IsGlobal(ps[v])
                     /\ ps[v].claims # None => \A c \in Cells(ps[v]) : <<c, v>> \in g
            <4>1. CASE v = w
                BY <1>2, <2>5, <2>7, <3>1, <3>2, <3>3, <4>1
            <4>2. CASE v # w
                <5>1. ps[v] = peer[v] /\ (v \in all <=> v \in global)
                    BY <2>7, <3>3, <4>2
                <5>2. \A c : <<c, v>> \in grid => <<c, v>> \in g
                    BY <3>2, <4>2
                <5> QED
                    BY <3>4, <5>1, <5>2 DEF IndexOK
            <4> QED
                BY <4>1, <4>2
        <3>7. ASSUME NEW x \in g
              PROVE  x[2] \in superseded \/ (ps[x[2]].claims # None /\ x[1] \in Cells(ps[x[2]]))
            <4>1. x[2] \in Peers
                BY <3>5
            <4>2. CASE x[2] = w
                <5>1. CASE x \in grid
                    <6>1. x[1] \notin was \/ x[1] \in cs
                        BY <3>2, <4>2
                    <6>2. x[2] \in superseded \/ x[1] \in was
                        BY <3>4, <4>2, <5>1 DEF IndexOK, was
                    <6> QED
                        BY <1>2, <2>5, <2>7, <3>1, <4>2, <6>1, <6>2
                <5>2. CASE x \notin grid
                    <6>1. x[1] \in cs
                        BY <3>2, <5>2
                    <6> QED
                        BY <1>2, <2>5, <2>7, <3>1, <4>2, <6>1
                <5> QED
                    BY <5>1, <5>2
            <4>3. CASE x[2] # w
                <5>1. x \in grid
                    BY <3>2, <4>3
                <5>2. ps[x[2]] = peer[x[2]]
                    BY <2>7, <4>1, <4>3
                <5> QED
                    BY <3>4, <5>1, <5>2 DEF IndexOK
            <4> QED
                BY <4>2, <4>3
        <3> QED
            BY <3>5, <3>6, <3>7, Zenon DEF IndexOK
    <2>10. /\ Handles(peer') /\ IndexOK(peer', grid', global', superseded)
           /\ global' \subseteq all
           /\ \A v \in Peers : peer'[v].claims # None => peer'[v] = ps[v]
        BY <1>4, <2>8, <2>9, Reaping
    <2>11. \A v \in Peers : v # w => (v \in global' => v \in global)
        BY <2>10 DEF GlobalWith
    <2>12. /\ ents' = ents /\ ghosts' = ghosts /\ away' = away /\ link' = link
           /\ jumped' = jumped /\ twice' = twice /\ superseded' = superseded
        BY <1>2 DEF scene, histories
    <2>13. ASSUME NEW e \in Entities PROVE Told(e)'
        <3>1. Told(e)
            BY DEF Inv
        <3>2. Placed(e)' /\ Shadow(e)'
            BY <2>12, <3>1 DEF Told, Placed, Shadow
        <3>3. ASSUME NEW v \in Peers PROVE Named(v, e)' /\ Matched(v, e)'
            <4>1. CASE v # w
                <5>1. Named(v, e) /\ Matched(v, e)
                    BY <3>1 DEF Told
                <5>2. peer'[v].claims # None =>
                          /\ Akin(peer[v], peer'[v])
                          /\ e \in peer'[v].view <=> e \in peer[v].view
                          /\ e \in peer'[v].given <=> e \in peer[v].given
                          /\ v \in global' => v \in global
                    BY <2>7, <2>10, <2>11, <4>1, HandlesAre, AkinSelf DEF Same
                <5> QED
                    BY <1>2, <2>12, <5>1, <5>2, UnmovedIn
            <4>2. CASE v = w /\ peer'[v].claims = None
                BY <4>2 DEF Named, Matched
            <4>3. CASE v = w /\ peer'[v].claims # None
                <5>1. peer'[v] = after
                    BY <2>7, <2>10, <4>3
                <5>2. CASE ents[e] = None
                    <6>1. e \in after.view <=> e \in peer[w].view
                        BY <2>2, <2>3, <2>4, <5>2 DEF Through, Same
                    <6>2. Named(w, e)
                        BY <3>1 DEF Told
                    <6> QED
                        BY <1>2, <2>12, <4>3, <5>1, <5>2, <6>1, <6>2 DEF Named, Matched
                <5>3. CASE ents[e] # None
                    <6>1. e \in after.view <=> Visible(told, e, ents[e].pos)
                        <7>1. Shown("reconcile", told, e) = Visible(told, e, ents[e].pos)
                            BY DEF Shown
                        <7> QED
                            BY <2>4, <5>3, <7>1 DEF Through
                    <6>2. Akin(told, after)
                        BY <2>4 DEF Through
                    <6>3. Right(conf.hidden, after, e, ents[e].pos)
                        BY <6>1, <6>2, VisibleIsSees, AkinSees DEF Right
                    <6> QED
                        BY <1>2, <2>12, <4>3, <5>1, <5>3, <6>3 DEF Named, Matched
                <5> QED
                    BY <5>2, <5>3
            <4> QED
                BY <4>1, <4>2, <4>3
        <3> QED
            BY <3>2, <3>3 DEF Told
    <2>14. World'
        BY <1>2, <2>10, <2>12 DEF Inv, World
    <2>15. CrashNamed'
        BY <1>2, <2>12 DEF Inv, CrashNamed
    <2> QED
        BY <2>10, <2>12, <2>13, <2>14, <2>15 DEF Inv
<1> QED
    BY <1>1, <1>3, <1>4

\* One handle stays, and sees what it saw.
LEMMA QuietStay ==
    ASSUME Inv, conf' = conf, scene' = scene, crashed' = crashed, histories' = histories,
           index' = index, peer' = [v \in Peers |-> peer'[v]],
           \A w \in Peers : Alike(peer[w], peer'[w])
    PROVE  Inv'
<1>1. /\ ents' = ents /\ ghosts' = ghosts /\ away' = away /\ link' = link
      /\ grid' = grid /\ global' = global
    BY DEF scene, index
<1>2. Handles(peer') /\ IndexOK(peer', grid', global', superseded)
    BY <1>1, AkinIndex DEF Inv, World, Alike
<1>3. away' \in [Entities -> Points \cup {None}] /\ link' \in Seq(LinkFrame)
    BY <1>1 DEF Inv, World
<1> QED
    BY <1>1, <1>2, <1>3, QuietKeeps

LEMMA QuietStays ==
    ASSUME Inv, conf' = conf, scene' = scene, crashed' = crashed, histories' = histories,
           index' = index, NEW w \in Peers, NEW s, Same(peer[w], s), peer' = [peer EXCEPT ![w] = s]
    PROVE  Inv'
<1>1. peer = [v \in Peers |-> peer[v]]
    BY DEF Inv, World, Handles
<1>2. peer' = [v \in Peers |-> IF v = w THEN s ELSE peer[v]]
    BY <1>1
<1>3. \A v \in Peers : Alike(peer[v], peer'[v])
    BY <1>2, HandlesAre, AkinSelf, SameAlike
<1>4. peer' = [v \in Peers |-> peer'[v]]
    BY <1>2
<1> QED
    BY <1>3, <1>4, QuietStay

LEMMA PeerUpdates ==
    ASSUME Inv, NEW w \in Peers
    PROVE  /\ peer = [v \in Peers |-> peer[v]] /\ IsHandle(peer[w])
BY DEF Inv, World, Handles

LEMMA ClosesKeeps == ASSUME Inv, NEW w \in Peers, ClientCloses(w) PROVE Inv'
<1> DEFINE s == [peer[w] EXCEPT !.wire = <<>>, !.flag = Here(w) /\ @, !.cut = Here(w)]
<1>1. /\ conf' = conf /\ scene' = scene /\ crashed' = crashed /\ histories' = histories
      /\ index' = index
      /\ peer' = [peer EXCEPT ![w].wire = <<>>, ![w].flag = Here(w) /\ @, ![w].cut = Here(w)]
    BY DEF ClientCloses
<1>2. peer' = [peer EXCEPT ![w] = s]
    BY <1>1, PeerUpdates DEF IsHandle, Fields
<1>3. Same(peer[w], s)
    BY HandlesAre DEF Same, Akin, IsHandle, Fields
<1> QED
    BY <1>1, <1>2, <1>3, QuietStays

LEMMA RefillKeeps == ASSUME Inv, NEW w \in Peers, Refill(w) PROVE Inv'
<1> DEFINE s == [peer[w] EXCEPT !.tokens = Min({conf.burst, @ + conf.rate})]
<1>1. /\ conf' = conf /\ scene' = scene /\ crashed' = crashed /\ histories' = histories
      /\ index' = index
      /\ peer' = [peer EXCEPT ![w].tokens = Min({conf.burst, @ + conf.rate})]
    BY DEF Refill
<1>2. peer' = [peer EXCEPT ![w] = s]
    BY <1>1, PeerUpdates
<1>3. Same(peer[w], s)
    BY HandlesAre DEF Same, Akin, IsHandle, Fields
<1> QED
    BY <1>1, <1>2, <1>3, QuietStays

LEMMA DeliverKeeps == ASSUME Inv, Deliver PROVE Inv'
<1>1. /\ conf' = conf /\ scene' = scene /\ crashed' = crashed /\ histories' = histories
      /\ index' = index
    BY DEF Deliver
<1>2. \E n : peer' = [w \in Peers |-> [peer[w] EXCEPT !.wire = SubSeq(@, n[w] + 1, Len(@))]]
    <2>1. PICK ws : peer' = [w \in Peers |-> [peer[w] EXCEPT
              !.wire = SubSeq(@, (IF w \notin ws THEN 0
                                  ELSE IF conf.prompt THEN Len(peer[w].wire) ELSE 1) + 1, Len(@))]]
        BY Zenon DEF Deliver
    <2> DEFINE n == [w \in Peers |-> IF w \notin ws THEN 0
                                     ELSE IF conf.prompt THEN Len(peer[w].wire) ELSE 1]
    <2>2. peer' = [w \in Peers |-> [peer[w] EXCEPT !.wire = SubSeq(@, n[w] + 1, Len(@))]]
        BY <2>1
    <2> HIDE DEF n
    <2> QED
        BY <2>2
<1>3. PICK n : peer' = [w \in Peers |-> [peer[w] EXCEPT !.wire = SubSeq(@, n[w] + 1, Len(@))]]
    BY <1>2
<1>4. ASSUME NEW w \in Peers PROVE Alike(peer[w], peer'[w])
    <2>1. Same(peer[w], [peer[w] EXCEPT !.wire = SubSeq(@, n[w] + 1, Len(@))])
        BY HandlesAre DEF Same, Akin, IsHandle, Fields
    <2> QED
        BY <1>3, <2>1, SameAlike
<1>5. peer' = [w \in Peers |-> peer'[w]]
    BY <1>3
<1> QED
    BY <1>1, <1>4, <1>5, QuietStay

LEMMA ResyncKeeps == ASSUME Inv, NEW w \in Peers, BeginResync(w) PROVE Inv'
<1>1. /\ conf' = conf /\ scene' = scene /\ crashed' = crashed /\ histories' = histories
      /\ peer' = peer /\ index' = index
    BY DEF BeginResync
<1>2. peer' = [v \in Peers |-> peer'[v]] /\ \A v \in Peers : Alike(peer[v], peer'[v])
    BY <1>1, HandlesAre, AkinSelf, SameAlike DEF Inv, World, Handles
<1> QED
    BY <1>1, <1>2, QuietStay

LEMMA VisualKeeps == ASSUME Inv, NEW e \in Entities, VisualEvent(e) PROVE Inv'
<1>1. /\ conf' = conf /\ scene' = scene /\ crashed' = crashed /\ histories' = histories
      /\ peer' = peer /\ index' = index
    BY DEF VisualEvent
<1>2. peer' = [v \in Peers |-> peer'[v]] /\ \A v \in Peers : Alike(peer[v], peer'[v])
    BY <1>1, HandlesAre, AkinSelf, SameAlike DEF Inv, World, Handles
<1> QED
    BY <1>1, <1>2, QuietStay

LEMMA CriticalKeeps == ASSUME Inv, NEW e \in Entities, CriticalEvent(e) PROVE Inv'
<1> DEFINE ps == Each(LAMBDA w, s : IF Visible(s, e, ents[e].pos) THEN Emit(s, <<"event", e>>) ELSE s)
<1>1. /\ conf' = conf /\ scene' = scene /\ crashed' = crashed /\ histories' = histories
      /\ Dispatched(ps)
    BY DEF CriticalEvent
<1>2. ps = [w \in Peers |->
          IF peer[w].claims # None
          THEN IF Visible(peer[w], e, ents[e].pos) THEN Emit(peer[w], <<"event", e>>) ELSE peer[w]
          ELSE peer[w]]
    BY DEF Each, Here
<1> HIDE DEF ps
<1>3. ASSUME NEW w \in Peers PROVE Alike(peer[w], ps[w])
    <2>1. ps[w] = peer[w] \/ ps[w] = Emit(peer[w], <<"event", e>>)
        BY <1>2
    <2> QED
        BY <2>1, HandlesAre, AkinSelf, EmitSame, SameAlike
<1>4. ps = [w \in Peers |-> ps[w]]
    BY <1>2
<1> QED
    BY <1>1, <1>3, <1>4, QuietDispatch

LEMMA FlushKeeps == ASSUME Inv, FlushEvents PROVE Inv'
<1>1. /\ conf' = conf /\ scene' = scene /\ crashed' = crashed /\ histories' = histories
      /\ index' = index
    BY DEF FlushEvents
<1>2. PICK kept \in [Peers -> SUBSET Entities] :
          peer' = Each(LAMBDA w, s : SendVisuals(s, kept[w]))
    BY Zenon DEF FlushEvents
<1>3. peer' = [w \in Peers |-> IF peer[w].claims # None THEN SendVisuals(peer[w], kept[w])
                              ELSE peer[w]]
    BY <1>2 DEF Each, Here
<1>4. ASSUME NEW w \in Peers PROVE Alike(peer[w], peer'[w])
    <2>1. IsHandle(peer[w]) /\ Alike(peer[w], peer[w])
        BY HandlesAre, AkinSelf, SameAlike
    <2>2. Through("visual", peer[w], SendVisuals(peer[w], kept[w]), kept[w])
        BY <2>1, VisualsThrough
    <2>3. \A e : Shown("visual", peer[w], e) = (e \in peer[w].view)
        BY DEF Shown
    <2>4. Alike(peer[w], SendVisuals(peer[w], kept[w]))
        BY <2>2, <2>3 DEF Through, Alike
    <2> QED
        BY <1>3, <2>1, <2>4
<1>5. peer' = [w \in Peers |-> peer'[w]]
    BY <1>3
<1> QED
    BY <1>1, <1>4, <1>5, QuietStay

\* A ghost that was not refreshed goes from every view.
LEMMA MonitorKeeps == ASSUME Inv, MonitorTick PROVE Inv'
<1> DEFINE stale == {e \in Entities : ghosts[e] # None /\ ghosts[e].age = GhostTTL}
           told == Each(LAMBDA w, s : RemoveAll(s, stale))
<1>1. /\ peer' = told
      /\ ghosts' = [e \in Entities |-> IF e \in stale \/ ghosts[e] = None THEN None
                                       ELSE [ghosts[e] EXCEPT !.age = @ + 1]]
      /\ conf' = conf /\ ents' = ents /\ away' = away /\ link' = link /\ index' = index
      /\ crashed' = crashed /\ histories' = histories
    BY Zenon DEF MonitorTick
<1>2. grid' = grid /\ global' = global /\ jumped' = jumped /\ twice' = twice /\ superseded' = superseded
    BY <1>1 DEF index, histories
<1>3. told = [w \in Peers |-> IF peer[w].claims # None THEN RemoveAll(peer[w], stale) ELSE peer[w]]
    BY DEF Each, Here
<1> HIDE DEF told
<1>4. ASSUME NEW w \in Peers
      PROVE  /\ Akin(peer[w], told[w])
             /\ \A e \in Entities \ stale : /\ e \in told[w].view <=> e \in peer[w].view
                                            /\ e \in told[w].given <=> e \in peer[w].given
             /\ peer[w].claims # None => \A e \in stale : e \notin told[w].view
    <2>1. IsHandle(peer[w]) /\ Same(peer[w], peer[w])
        BY HandlesAre, AkinSelf
    <2>2. Through("remove", peer[w], RemoveAll(peer[w], stale), stale)
        BY <2>1, RemoveThrough
    <2>3. \A e : ~Shown("remove", peer[w], e)
        BY DEF Shown
    <2> HIDE DEF stale
    <2>4. CASE peer[w].claims = None
        BY <1>3, <2>1, <2>4 DEF Same
    <2>5. CASE peer[w].claims # None
        <3>1. told[w] = RemoveAll(peer[w], stale)
            BY <1>3, <2>5
        <3>2. stale \subseteq Entities
            BY DEF stale
        <3> QED
            BY <2>2, <2>3, <3>1, <3>2 DEF Through
    <2> QED
        BY <2>4, <2>5
<1>5. \A e \in Entities : ghosts[e] # None =>
          [ghosts[e] EXCEPT !.age = @ + 1] \in Ghost /\ [ghosts[e] EXCEPT !.age = @ + 1] # None
    <2>1. ASSUME NEW e \in Entities, ghosts[e] # None
          PROVE  [ghosts[e] EXCEPT !.age = @ + 1] \in Ghost
        BY <2>1 DEF Inv, World, Ghost
    <2> QED
        BY <2>1, ViewConstants
<1>6. /\ ghosts' \in [Entities -> Ghost \cup {None}]
      /\ \A e \in Entities : ghosts'[e] = None <=> (e \in stale \/ ghosts[e] = None)
    <2> HIDE DEF stale
    <2> QED
        BY <1>1, <1>5
<1>7. Handles(peer') /\ IndexOK(peer', grid', global', superseded')
    <2>1. told = [w \in Peers |-> told[w]]
        BY <1>3
    <2>2. \A w \in Peers : Akin(peer[w], told[w])
        BY <1>4
    <2> QED
        BY <1>1, <1>2, <2>1, <2>2, AkinIndex DEF Inv, World
<1>8. ASSUME NEW e \in Entities PROVE Told(e)'
    <2>1. Told(e)
        BY DEF Inv
    <2>2. CASE e \notin stale
        <3>1. \A w \in Peers :
                  /\ Akin(peer[w], peer'[w])
                  /\ e \in peer'[w].view <=> e \in peer[w].view
                  /\ e \in peer'[w].given <=> e \in peer[w].given
            BY <1>1, <1>4, <2>2
        <3>2. ghosts'[e] = None <=> ghosts[e] = None
            BY <1>6, <2>2
        <3> QED
            BY <1>1, <1>2, <2>1, <3>1, <3>2, Unmoved
    <2>3. CASE e \in stale
        <3>1. e \in twice \/ ents[e] = None
            BY <2>1, <2>3 DEF Told, Shadow
        <3>2. \A w \in Peers : peer'[w].claims # None => e \notin peer'[w].view
            BY <1>1, <1>4, <2>3 DEF Akin
        <3>3. ghosts'[e] = None
            BY <1>6, <2>3
        <3> QED
            BY <1>1, <1>2, <2>1, <3>1, <3>2, <3>3 DEF Told, Placed, Shadow, Named, Matched
    <2> QED
        BY <2>2, <2>3
<1>9. /\ CrashNamed' /\ ents' \in [Entities -> Placement \cup {None}]
      /\ jumped' \in [Entities -> 0..2] /\ conf' \in Deployments
      /\ away' \in [Entities -> Points \cup {None}] /\ link' \in Seq(LinkFrame)
    BY <1>1, <1>2 DEF Inv, World, CrashNamed
<1> QED
    BY <1>6, <1>7, <1>8, <1>9 DEF Inv, World

LEMMA ReapKeeps == ASSUME Inv, Reap PROVE Inv'
<1>1. /\ conf' = conf /\ scene' = scene /\ crashed' = crashed /\ histories' = histories
      /\ Dispatched(peer)
    BY DEF Reap
<1>2. peer = [w \in Peers |-> peer[w]] /\ \A w \in Peers : Alike(peer[w], peer[w])
    BY HandlesAre, AkinSelf, SameAlike DEF Inv, World, Handles
<1> QED
    BY <1>1, <1>2, QuietDispatch

\* A handle goes, and its cells with it.
LEMMA HandleGoes ==
    ASSUME Inv, conf' = conf, scene' = scene, crashed' = crashed, histories' = histories,
           NEW w \in Peers, Unindexed(w, peer[w]), NEW s, IsHandle(s), s.claims = None,
           s.aoi \in AreaType, peer' = [peer EXCEPT ![w] = s]
    PROVE  Inv'
<1> DEFINE was == Cells(peer[w])
<1>1. Handles(peer) /\ IndexOK(peer, grid, global, superseded)
    BY DEF Inv, World
<1>2. peer' = [v \in Peers |-> IF v = w THEN s ELSE peer[v]]
    BY <1>1 DEF Handles
<1>3. Handles(peer')
    BY <1>1, <1>2 DEF Handles
<1>4. /\ grid' = {x \in grid : x[2] # w \/ x[1] \notin was}
      /\ global' = global \ {w}
    BY DEF Unindexed, GridWithout
<1>5. IndexOK(peer', grid', global', superseded)
    <2> HIDE DEF was
    <2>1. global' \subseteq Peers /\ grid' \subseteq Int \X Peers
        BY <1>1, <1>4 DEF IndexOK
    <2>2. ASSUME NEW v \in Peers
          PROVE  /\ v \in global' <=> peer'[v].claims # None /\ IsGlobal(peer'[v])
                 /\ peer'[v].claims # None => \A c \in Cells(peer'[v]) : <<c, v>> \in grid'
        <3>1. CASE v = w
            BY <1>2, <1>4, <3>1
        <3>2. CASE v # w
            <4>1. peer'[v] = peer[v] /\ (v \in global' <=> v \in global)
                BY <1>2, <1>4, <3>2
            <4>2. \A c : <<c, v>> \in grid => <<c, v>> \in grid'
                BY <1>4, <3>2
            <4> QED
                BY <1>1, <4>1, <4>2 DEF IndexOK
        <3> QED
            BY <3>1, <3>2
    <2>3. ASSUME NEW x \in grid'
          PROVE  x[2] \in superseded \/ (peer'[x[2]].claims # None /\ x[1] \in Cells(peer'[x[2]]))
        <3>1. x \in grid /\ x[2] \in Peers /\ (x[2] # w \/ x[1] \notin was)
            BY <1>4, <2>1
        <3>2. x[2] \in superseded \/ (peer[x[2]].claims # None /\ x[1] \in Cells(peer[x[2]]))
            BY <1>1, <3>1 DEF IndexOK
        <3>3. CASE x[2] = w
            BY <3>1, <3>2, <3>3 DEF was
        <3>4. CASE x[2] # w
            BY <1>2, <3>1, <3>2, <3>4
        <3> QED
            BY <3>3, <3>4
    <2> QED
        BY <2>1, <2>2, <2>3, Zenon DEF IndexOK
<1>6. \A v \in Peers : peer'[v].claims # None =>
          Alike(peer[v], peer'[v]) /\ (v \in global' => v \in global)
    <2>1. ASSUME NEW v \in Peers, peer'[v].claims # None
          PROVE  peer'[v] = peer[v]
        BY <1>2, <2>1
    <2>2. \A v \in Peers : Alike(peer[v], peer[v])
        BY HandlesAre, AkinSelf, SameAlike
    <2>3. \A v \in Peers : v \in global' => v \in global
        BY <1>4
    <2> QED
        BY <2>1, <2>2, <2>3
<1>7. /\ ents' = ents /\ ghosts' = ghosts /\ away' = away /\ link' = link
    BY DEF scene
<1>8. away' \in [Entities -> Points \cup {None}] /\ link' \in Seq(LinkFrame)
    BY <1>7 DEF Inv, World
<1> QED
    BY <1>3, <1>5, <1>6, <1>7, <1>8, QuietKeeps

LEMMA NobodyIs ==
    /\ IsHandle(Nobody) /\ Nobody.claims = None /\ Nobody.aoi = NoArea
    /\ Nobody.view = {} /\ NoArea \in AreaType /\ NoArea.center = None
BY DEF Nobody, IsHandle, Fields, NoArea, AreaType

LEMMA LoopEndsKeeps == ASSUME Inv, NEW w \in Peers, LoopEnds(w) PROVE Inv'
<1>1. /\ conf' = conf /\ scene' = scene /\ crashed' = crashed /\ histories' = histories
      /\ Unindexed(w, peer[w]) /\ peer' = [peer EXCEPT ![w] = Gone(peer[w])]
    BY DEF LoopEnds
<1>2. /\ IsHandle(Gone(peer[w])) /\ Gone(peer[w]).claims = None
      /\ Gone(peer[w]).aoi \in AreaType
    BY NobodyIs DEF Gone, IsHandle, Fields
<1> QED
    BY <1>1, <1>2, HandleGoes

LEMMA FlaggedEndsKeeps == ASSUME Inv, NEW w \in Peers, FlaggedEnds(w) PROVE Inv'
<1>1. /\ conf' = conf /\ scene' = scene /\ crashed' = crashed /\ histories' = histories
      /\ Unindexed(w, peer[w]) /\ peer' = [peer EXCEPT ![w] = Nobody]
    BY DEF FlaggedEnds
<1> QED
    BY <1>1, NobodyIs, HandleGoes

\* A connection is checked out to; the cells of a handle it replaces stay behind.
LEMMA ConnectKeeps == ASSUME Inv, NEW w \in Peers, Connect(w) PROVE Inv'
<1>1. PICK r : /\ Resolve(r) # None
               /\ LET fresh == [Nobody EXCEPT !.claims = Resolve(r), !.tokens = conf.burst]
                      shown == {e \in Entities : ents[e] # None /\ Visible(fresh, e, ents[e].pos)}
                  IN  /\ peer' = [peer EXCEPT ![w] = CheckoutAll(fresh, w, shown)]
                      /\ grid' = GridWith(w, fresh, Nobody)
                      /\ global' = GlobalWith(w, fresh)
    BY Zenon DEF Connect
<1> DEFINE fresh == [Nobody EXCEPT !.claims = Resolve(r), !.tokens = conf.burst]
           shown == {e \in Entities : ents[e] # None /\ Visible(fresh, e, ents[e].pos)}
           s == CheckoutAll(fresh, w, shown)
<1>2. /\ peer' = [peer EXCEPT ![w] = s] /\ grid' = GridWith(w, fresh, Nobody)
      /\ global' = GlobalWith(w, fresh)
    BY <1>1
<1>3. /\ conf' = conf /\ scene' = scene /\ crashed' = crashed /\ jumped' = jumped /\ twice' = twice
      /\ superseded' = IF Here(w) /\ Cells(peer[w]) # {} THEN superseded \cup {w} ELSE superseded
    BY DEF Connect
<1>4. /\ ents' = ents /\ ghosts' = ghosts /\ away' = away /\ link' = link
    BY <1>3 DEF scene
<1>5. IsHandle(fresh) /\ fresh.claims # None /\ fresh.aoi = NoArea /\ fresh.view = {}
    BY <1>1, NobodyIs DEF IsHandle, Fields
<1> HIDE DEF fresh
<1>6. Through("checkout", fresh, s, shown)
    BY <1>5, CheckoutThrough
<1>7. ASSUME NEW e \in Entities PROVE e \in s.view <=> e \in shown
    <2>1. Shown("checkout", fresh, e)
        BY DEF Shown
    <2> HIDE DEF s, shown
    <2> QED
        BY <1>5, <1>6, <2>1 DEF Through
<1>8. Akin(fresh, s) /\ s.claims # None /\ s.aoi = NoArea
    BY <1>5, <1>6 DEF Through, Akin
<1> HIDE DEF s
<1>9. Handles(peer) /\ IndexOK(peer, grid, global, superseded)
    BY DEF Inv, World
<1>10. peer' = [v \in Peers |-> IF v = w THEN s ELSE peer[v]]
    BY <1>2, <1>9 DEF Handles
<1>11. Handles(peer')
    BY <1>8, <1>9, <1>10, NobodyIs DEF Handles, Akin
<1>12. Cells(fresh) = {} /\ Cells(s) = {} /\ Cells(Nobody) = {}
       /\ (IsGlobal(s) <=> IsGlobal(fresh))
    BY <1>5, <1>8, NobodyIs, AkinSees DEF Cells
<1>13. grid' = grid
    BY <1>2, <1>12 DEF GridWith, GridWithout
<1>14. /\ \A v \in Peers : v # w => (v \in global' <=> v \in global)
       /\ w \in global' <=> IsGlobal(s)
       /\ global' \subseteq Peers
    BY <1>2, <1>9, <1>12 DEF GlobalWith, IndexOK
<1>15. IndexOK(peer', grid', global', superseded')
    <2>1. ASSUME NEW v \in Peers
          PROVE  /\ v \in global' <=> peer'[v].claims # None /\ IsGlobal(peer'[v])
                 /\ peer'[v].claims # None => \A c \in Cells(peer'[v]) : <<c, v>> \in grid'
        <3>1. CASE v = w
            BY <1>8, <1>10, <1>12, <1>14, <3>1
        <3>2. CASE v # w
            BY <1>9, <1>10, <1>13, <1>14, <3>2 DEF IndexOK
        <3> QED
            BY <3>1, <3>2
    <2>2. ASSUME NEW x \in grid'
          PROVE  x[2] \in superseded' \/ (peer'[x[2]].claims # None /\ x[1] \in Cells(peer'[x[2]]))
        <3>1. x \in grid /\ x[2] \in Peers
            BY <1>9, <1>13 DEF IndexOK
        <3>2. x[2] \in superseded \/ (peer[x[2]].claims # None /\ x[1] \in Cells(peer[x[2]]))
            BY <1>9, <3>1 DEF IndexOK
        <3>3. superseded \subseteq superseded'
            BY <1>3
        <3>4. CASE x[2] = w /\ x[2] \notin superseded
            BY <1>3, <3>2, <3>4 DEF Here
        <3>5. CASE x[2] # w
            BY <1>10, <3>1, <3>2, <3>3, <3>5
        <3> QED
            BY <3>3, <3>4, <3>5
    <2>3. grid' \subseteq Int \X Peers
        BY <1>9, <1>13 DEF IndexOK
    <2> QED
        BY <1>14, <2>1, <2>2, <2>3, Zenon DEF IndexOK
<1>16. ASSUME NEW e \in Entities PROVE Told(e)'
    <2>1. Told(e)
        BY DEF Inv
    <2>2. Placed(e)' /\ Shadow(e)'
        BY <1>3, <1>4, <2>1 DEF Told, Placed, Shadow
    <2>3. ASSUME NEW v \in Peers PROVE Named(v, e)' /\ Matched(v, e)'
        <3>1. CASE v # w
            <4>1. Named(v, e) /\ Matched(v, e)
                BY <2>1 DEF Told
            <4>2. /\ Akin(peer[v], peer'[v])
                  /\ e \in peer'[v].view <=> e \in peer[v].view
                  /\ e \in peer'[v].given <=> e \in peer[v].given
                  /\ v \in global' => v \in global
                BY <1>10, <1>14, <3>1, HandlesAre, AkinSelf DEF Same
            <4> QED
                BY <1>3, <1>4, <4>1, <4>2, UnmovedIn
        <3>2. CASE v = w
            <4>1. peer'[v] = s
                BY <1>10, <3>2
            <4>2. e \in s.view <=> ents[e] # None /\ Sees(conf.hidden, fresh, e, ents[e].pos)
                BY <1>7, VisibleIsSees
            <4>3. Sees(conf.hidden, s, e, ents[e].pos) <=> Sees(conf.hidden, fresh, e, ents[e].pos)
                BY <1>8, AkinSees
            <4>4. Named(v, e)'
                BY <1>4, <4>1, <4>2 DEF Named
            <4>5. Matched(v, e)'
                BY <1>3, <1>4, <4>1, <4>2, <4>3 DEF Matched, Right
            <4> QED
                BY <4>4, <4>5
        <3> QED
            BY <3>1, <3>2
    <2> QED
        BY <2>2, <2>3 DEF Told
<1>17. World'
    BY <1>3, <1>4, <1>11 DEF Inv, World
<1>18. CrashNamed'
    BY <1>3 DEF Inv, CrashNamed
<1> QED
    BY <1>15, <1>16, <1>17, <1>18 DEF Inv

(***************************************************************************)
(* Every step.                                                             *)
(***************************************************************************)
LEMMA InvInit == Init => Inv
<1> SUFFICES ASSUME Init PROVE Inv
    OBVIOUS
<1>1. Handles(peer) /\ \A w \in Peers : peer[w].claims = None
    BY NobodyIs DEF Init, Handles
<1>2. World
    BY <1>1 DEF Init, World
<1>3. IndexOK(peer, grid, global, superseded)
    BY <1>1 DEF Init, IndexOK
<1>4. CrashNamed
    BY DEF Init, CrashNamed
<1>5. \A e \in Entities : Told(e)
    BY <1>1 DEF Init, Told, Placed, Shadow, Named, Matched
<1> QED
    BY <1>2, <1>3, <1>4, <1>5 DEF Inv

LEMMA InvNext == Inv /\ [Next]_vars => Inv'
<1> SUFFICES ASSUME Inv, [Next]_vars PROVE Inv'
    OBVIOUS
<1>1. CASE vars' = vars
    <2>1. /\ conf' = conf /\ ents' = ents /\ ghosts' = ghosts /\ crashed' = crashed
          /\ histories' = histories /\ away' = away /\ link' = link /\ peer' = peer
          /\ index' = index
        BY <1>1 DEF vars, scene, index, histories
    <2>2. away' \in [Entities -> Points \cup {None}] /\ link' \in Seq(LinkFrame)
        BY <2>1 DEF Inv, World
    <2> QED
        BY <2>1, <2>2, AsideKeeps
<1>2. ASSUME NEW w \in Peers, Connect(w) \/ ClientCloses(w) \/ LoopEnds(w) \/ FlaggedEnds(w)
                              \/ Refill(w) \/ BeginResync(w) \/ EntityQuery(w) \/ InspectorQuery(w)
      PROVE  Inv'
    BY <1>2, ConnectKeeps, ClosesKeeps, LoopEndsKeeps, FlaggedEndsKeeps, RefillKeeps, ResyncKeeps,
       EntityQueryKeeps, InspectorKeeps
<1>3. ASSUME NEW w \in Peers, w \in DOMAIN conf.aois, NEW aoi \in conf.aois[w], Interest(w, aoi)
      PROVE  Inv'
    <2>1. aoi \in AreaType
        BY <1>3, ViewConstants DEF Inv, World
    <2> QED
        BY <1>3, <2>1, InterestKeeps
<1>4. CASE Deliver \/ Reap \/ FlushEvents \/ MonitorTick \/ PushBorderGhosts \/ LoseGhost \/ ReceiveMesh
    BY <1>4, DeliverKeeps, ReapKeeps, FlushKeeps, MonitorKeeps, PushKeeps, LoseKeeps, ReceiveKeeps
<1>5. ASSUME NEW e \in Entities, CriticalEvent(e) \/ VisualEvent(e) \/ DeleteEntity(e) \/ AwayLeaves(e)
      PROVE  Inv'
    BY <1>5, CriticalKeeps, VisualKeeps, DeleteKeeps, AwayLeavesKeeps
<1>6. ASSUME NEW e \in Entities, NEW p \in conf.points,
             Move(e, p) \/ Fold(e, p) \/ CreateEntity(e, p) \/ Depart(e, p) \/ AwayMove(e, p)
      PROVE  Inv'
    BY <1>6, MoveKeeps, FoldKeeps, CreateKeeps, DepartKeeps, AwayMoveKeeps
<1>7. ASSUME NEW e \in Entities, NEW p \in conf.points, NEW q \in conf.points, MoveTwice(e, p, q)
      PROVE  Inv'
    BY <1>7, MoveTwiceKeeps
<1> QED
    BY <1>1, <1>2, <1>3, <1>4, <1>5, <1>6, <1>7, Zenon DEF Next

LEMMA InvMeans == Inv => ViewMatches /\ GridNamesWorkers /\ GhostsApart
<1> SUFFICES ASSUME Inv PROVE ViewMatches /\ GridNamesWorkers /\ GhostsApart
    OBVIOUS
<1>1. ViewMatches
    <2> SUFFICES ASSUME NEW w \in Peers, NEW e \in Entities, Here(w), Alive(e), e \notin twice, ~crashed,
                        jumped[e] = 0 \/ (jumped[e] = 1 /\ w \in global)
                 PROVE  LET s == peer[w] IN
                        /\ Visible(s, e, ents[e].pos) => e \in s.view
                        /\ e \in s.view => Visible(s, e, ents[e].pos) \/ e \in s.given
        BY Zenon DEF ViewMatches
    <2>1. Matched(w, e)
        BY DEF Inv, Told
    <2> QED
        BY <2>1, VisibleIsSees DEF Matched, Right, Here, Alive
<1>2. GridNamesWorkers
    <2>1. \A w \in global : Here(w)
        BY DEF Inv, IndexOK, Here
    <2>2. \A x \in grid : Here(x[2]) \/ x[2] \in superseded
        BY DEF Inv, IndexOK, Here
    <2>3. crashed => superseded # {}
        BY DEF Inv, CrashNamed
    <2> QED
        BY <2>1, <2>2, <2>3 DEF GridNamesWorkers
<1>3. GhostsApart
    <2>1. \A e \in Entities : Shadow(e) /\ \A w \in Peers : Named(w, e)
        BY DEF Inv, Told
    <2> QED
        BY <2>1, Zenon DEF GhostsApart, Shadow, Named, Here
<1> QED
    BY <1>1, <1>2, <1>3

LEMMA InvAlways == Spec => []Inv
<1> QED
    BY InvInit, InvNext, PTL DEF Spec

\* A peer's view holds what it sees and may read, and what it was handed: no operation, and
\* no peer that propagate passes over, leaves it behind.
THEOREM ViewFollowsInterest == Spec => []ViewMatches
<1>1. Inv => ViewMatches
    BY InvMeans
<1> QED
    BY <1>1, InvAlways, PTL

\* Whom the spatial hash names is connected, but for a handle replaced with its cells.
THEOREM HashNamesWorkers == Spec => []GridNamesWorkers
<1>1. Inv => GridNamesWorkers
    BY InvMeans
<1> QED
    BY <1>1, InvAlways, PTL

\* Nowhere are an entity and its ghost, and a view names one of them.
THEOREM GhostsStayApart == Spec => []GhostsApart
<1>1. Inv => GhostsApart
    BY InvMeans
<1> QED
    BY <1>1, InvAlways, PTL

(***************************************************************************)
(* The consumer: what it will have once it has read its channel.           *)
(***************************************************************************)
Read(c, q) == FoldLeft(Apply, c, q)
\* r tells what a client is after each of the first n frames of q.
Runs(c, q, n, r) == r[0] = c /\ \A k \in 1..n : r[k] = Apply(r[k - 1], q[k])

LEMMA ReadRuns ==
    ASSUME NEW c, NEW F, NEW q \in Seq(F) PROVE \E r : Runs(c, q, Len(q), r) /\ Read(c, q) = r[Len(q)]
<1> DEFINE n == Len(q)
           D == 1..n
           Iter(h) == [T \in SUBSET D |-> IF T = {} THEN c
                          ELSE LET i == Max(T) IN Apply(h[T \ {i}], q[i])]
           g == CHOOSE h : h = Iter(h)
<1>0. n \in Nat /\ DOMAIN q = D
    OBVIOUS
<1>1. Read(c, q) = g[D]
    BY <1>0, Zenon DEF Read, FoldLeft, MapThenFoldSet
<1>2. \A h : Iter(h) = [T \in SUBSET D |-> After("read", q, c, h, T)]
    BY DEF After, Step, Pick
<1>3. IsFiniteSet(D)
    BY <1>0, FS_Interval
<1>4. \E h : h = Iter(h)
    <2>0. \E k \in Nat : D \subseteq 1..k
        BY <1>0
    <2>1. PICK h : Goes("read", q, c, h, D)
        <3> HIDE DEF D
        <3> QED
            BY <1>3, <2>0, GoesExists
    <2>2. h = Iter(h)
        BY <1>2, <2>1 DEF Goes
    <2> QED
        BY <2>2
<1>5. g = Iter(g)
    <2> HIDE DEF Iter
    <2> QED
        BY <1>4
<1> HIDE DEF g
<1> DEFINE r == [k \in 0..n |-> g[1..k]]
<1>6. r[0] = c
    <2>1. g[{}] = c
        BY <1>5
    <2>2. 1..0 = {}
        OBVIOUS
    <2> QED
        BY <1>0, <2>1, <2>2
<1>7. ASSUME NEW k \in 1..n PROVE r[k] = Apply(r[k - 1], q[k])
    <2>1. Max(1..k) = k
        <3>1. k \in 1..k /\ \A y \in 1..k : k >= y
            BY <1>0
        <3>2. \A x \in 1..k : (\A y \in 1..k : x >= y) => x = k
            BY <1>0
        <3> QED
            BY <3>1, <3>2 DEF Max
    <2>2. (1..k) \ {k} = 1..(k - 1) /\ 1..k # {} /\ 1..k \subseteq D
        <3>1. k \in Nat /\ 1 <= k /\ k <= n
            BY <1>0
        <3>2. \A i : i \in (1..k) \ {k} <=> i \in 1..(k - 1)
            BY <3>1
        <3>3. 1 \in 1..k /\ \A i \in 1..k : i \in 1..n
            BY <1>0, <3>1
        <3> QED
            BY <3>2, <3>3
    <2>3. g[1..k] = Apply(g[1..(k - 1)], q[k])
        <3>1. 1..k \in SUBSET D
            BY <2>2
        <3> QED
            BY <1>5, <2>1, <2>2, <3>1
    <2> QED
        BY <1>0, <2>3
<1> HIDE DEF r
<1>8. r[n] = g[D]
    BY <1>0 DEF r
<1> QED
    BY <1>1, <1>6, <1>7, <1>8 DEF Runs

\* A run is told by what is read.
LEMMA RunsAgree ==
    ASSUME NEW c, NEW n \in Nat, NEW q, NEW r, Runs(c, q, n, r), NEW t, Runs(c, q, n, t)
    PROVE  r[n] = t[n]
<1> DEFINE bad == {k \in 0..n : r[k] # t[k]}
<1>1. SUFFICES ASSUME bad # {} PROVE FALSE
    OBVIOUS
<1>2. PICK k \in bad : \A j \in bad : k <= j
    <2>1. bad \subseteq Nat
        OBVIOUS
    <2> HIDE DEF bad
    <2> QED
        BY <1>1, <2>1, LeastExists
<1>3. k \in 1..n /\ k - 1 \in 0..n
    BY DEF Runs
<1>4. r[k - 1] = t[k - 1]
    BY <1>2, <1>3
<1> QED
    BY <1>3, <1>4 DEF Runs

LEMMA ReadNothing == ASSUME NEW c PROVE Read(c, <<>>) = c
<1> DEFINE q == <<>>
<1>1. q \in Seq({}) /\ Len(q) = 0
    OBVIOUS
<1> HIDE DEF q
<1>2. PICK r : Runs(c, q, Len(q), r) /\ Read(c, q) = r[Len(q)]
    BY <1>1, ReadRuns
<1>3. Read(c, q) = c
    BY <1>1, <1>2 DEF Runs
<1> QED
    BY <1>3 DEF q

LEMMA ReadMore ==
    ASSUME NEW c, NEW F, NEW q \in Seq(F), NEW f \in F
    PROVE  Read(c, Append(q, f)) = Apply(Read(c, q), f)
<1> DEFINE qf == Append(q, f)
           n == Len(q)
<1>1. qf \in Seq(F) /\ Len(qf) = n + 1 /\ n \in Nat /\ qf[n + 1] = f
      /\ \A k \in 1..n : qf[k] = q[k]
    OBVIOUS
<1> HIDE DEF qf
<1>2. PICK r : Runs(c, q, Len(q), r) /\ Read(c, q) = r[n]
    BY ReadRuns
<1>3. PICK t : Runs(c, qf, n + 1, t) /\ Read(c, qf) = t[n + 1]
    BY <1>1, ReadRuns
<1>4. t[n + 1] = Apply(t[n], f)
    BY <1>1, <1>3 DEF Runs
<1>5. t[n] = r[n]
    <2>1. Runs(c, q, n, t)
        BY <1>1, <1>3 DEF Runs
    <2>2. Runs(c, q, n, r)
        BY <1>2
    <2>3. n \in Nat
        BY <1>1
    <2> HIDE DEF n
    <2> QED
        BY <2>1, <2>2, <2>3, RunsAgree
<1> QED
    BY <1>2, <1>3, <1>4, <1>5 DEF qf

\* Reading some of a channel, and then the rest.
LEMMA ReadOn ==
    ASSUME NEW c, NEW F, NEW q \in Seq(F), NEW n \in 0..Len(q)
    PROVE  Read(Read(c, SubSeq(q, 1, n)), SubSeq(q, n + 1, Len(q))) = Read(c, q)
<1> DEFINE first == SubSeq(q, 1, n)
           rest == SubSeq(q, n + 1, Len(q))
           m == Len(q)
<1>1. /\ m \in Nat /\ n \in Nat /\ n <= m
      /\ first \in Seq(F) /\ Len(first) = n /\ \A k \in 1..n : first[k] = q[k]
      /\ rest \in Seq(F) /\ Len(rest) = m - n /\ \A k \in 1..(m - n) : rest[k] = q[n + k]
    OBVIOUS
<1> HIDE DEF first, rest
<1>2. PICK r : Runs(c, q, Len(q), r) /\ Read(c, q) = r[m]
    BY ReadRuns
<1>3. PICK t : Runs(c, first, n, t) /\ Read(c, first) = t[n]
    <2>1. first \in Seq(F) /\ Len(first) = n
        BY <1>1
    <2> QED
        BY <2>1, ReadRuns
<1>4. PICK u : Runs(t[n], rest, m - n, u) /\ Read(t[n], rest) = u[m - n]
    <2>1. rest \in Seq(F) /\ Len(rest) = m - n
        BY <1>1
    <2> QED
        BY <2>1, ReadRuns
<1> DEFINE v == [k \in 0..m |-> IF k <= n THEN t[k] ELSE u[k - n]]
<1>5. ASSUME NEW k \in 1..m PROVE v[k] = Apply(v[k - 1], q[k])
    <2>1. CASE k <= n
        <3>1. v[k] = t[k] /\ v[k - 1] = t[k - 1] /\ k \in 1..n
            BY <1>1, <2>1
        <3> QED
            BY <1>1, <1>3, <3>1 DEF Runs
    <2>2. CASE k > n
        <3>1. k - n \in 1..(m - n) /\ (k - n) - 1 = (k - 1) - n /\ n + (k - n) = k
            BY <1>1, <2>2
        <3>2. u[k - n] = Apply(u[(k - n) - 1], rest[k - n]) /\ rest[k - n] = q[k]
            BY <1>1, <1>4, <3>1 DEF Runs
        <3>3. v[k] = u[k - n]
            BY <1>1, <2>2
        <3>4. v[k - 1] = u[(k - 1) - n]
            <4>1. CASE k - 1 = n
                BY <1>1, <1>4, <4>1 DEF Runs
            <4>2. CASE k - 1 # n
                BY <1>1, <2>2, <4>2
            <4> QED
                BY <4>1, <4>2
        <3> QED
            BY <3>1, <3>2, <3>3, <3>4
    <2> QED
        BY <1>1, <2>1, <2>2
<1>6. v[0] = c
    BY <1>1, <1>3 DEF Runs
<1>7. v[m] = u[m - n]
    <2>1. CASE m = n
        BY <1>1, <1>4, <2>1 DEF Runs
    <2>2. CASE m # n
        BY <1>1, <2>2
    <2> QED
        BY <2>1, <2>2
<1> HIDE DEF v
<1>8. r[m] = v[m]
    <2>1. Runs(c, q, m, r)
        BY <1>2
    <2>2. m \in Nat
        BY <1>1
    <2>3. Runs(c, q, m, v)
        BY <1>5, <1>6 DEF Runs
    <2> HIDE DEF m
    <2> QED
        BY <2>1, <2>2, <2>3, RunsAgree
<1> QED
    BY <1>2, <1>3, <1>4, <1>7, <1>8 DEF first, rest

(***************************************************************************)
(* Frames, and what each does to a client.                                 *)
(***************************************************************************)
RowType == [pos : Int \cup {None}, ghost : BOOLEAN]
Rows == UNION {[S -> RowType] : S \in SUBSET Entities}
ClientType == [phase : {"Disconnected", "Resyncing", "Live"}, rows : Rows, depth : Nat,
               asked : BOOLEAN, got : Nat]
Marks == {"begin", "end", "reject", "inspector"}
Names == {"add", "authority", "remove", "ghost", "event", "visual"}
Frame == {<<op>> : op \in Marks} \cup (Names \X Entities) \cup ({"update"} \X Entities \X Int)
Answer == {"rows"} \X Rows
\* A frame that is no answer to a query.
IsAnswer(f) == f[1] = "rows"

LEMMA FrameKinds ==
    /\ \A f \in Frame : ~IsAnswer(f)
    /\ \A f \in Answer : IsAnswer(f)
<1>1. ASSUME NEW op \in Marks PROVE ~IsAnswer(<<op>>)
    BY DEF Marks, IsAnswer
<1>2. ASSUME NEW op \in Names, NEW e PROVE ~IsAnswer(<<op, e>>)
    BY DEF Names, IsAnswer
<1>3. ASSUME NEW e, NEW p PROVE ~IsAnswer(<<"update", e, p>>)
    BY DEF IsAnswer
<1>4. ASSUME NEW f \in Frame PROVE ~IsAnswer(f)
    <2>1. CASE f \in {<<op>> : op \in Marks}
        BY <1>1, <2>1
    <2>2. CASE f \in Names \X Entities
        BY <1>2, <2>2
    <2>3. CASE f \in {"update"} \X Entities \X Int
        BY <1>3, <2>3
    <2> QED
        BY <2>1, <2>2, <2>3 DEF Frame
<1>5. \A f \in Answer : IsAnswer(f)
    BY DEF Answer, IsAnswer
<1> QED
    BY <1>4, <1>5

LEMMA RowsAre ==
    ASSUME NEW r
    PROVE  r \in Rows <=> /\ r = [e \in DOMAIN r |-> r[e]]
                          /\ DOMAIN r \subseteq Entities
                          /\ \A e \in DOMAIN r : r[e] \in RowType
<1>1. ASSUME r \in Rows
      PROVE  /\ r = [e \in DOMAIN r |-> r[e]]
             /\ DOMAIN r \subseteq Entities
             /\ \A e \in DOMAIN r : r[e] \in RowType
    <2>1. PICK S \in SUBSET Entities : r \in [S -> RowType]
        BY <1>1, Zenon DEF Rows
    <2> QED
        BY <2>1
<1>2. ASSUME /\ r = [e \in DOMAIN r |-> r[e]]
             /\ DOMAIN r \subseteq Entities
             /\ \A e \in DOMAIN r : r[e] \in RowType
      PROVE  r \in Rows
    <2>1. r \in [DOMAIN r -> RowType]
        BY <1>2
    <2> QED
        BY <1>2, <2>1, Zenon DEF Rows
<1> QED
    BY <1>1, <1>2

\* What is the same of two clients but the rows.
Otherwise(c, d) ==
    /\ d.phase = c.phase /\ d.depth = c.depth /\ d.asked = c.asked /\ d.got = c.got
RowsBut(c, d, e) ==
    \A x \in Entities : x # e => /\ x \in DOMAIN d.rows <=> x \in DOMAIN c.rows
                                 /\ x \in DOMAIN c.rows => d.rows[x] = c.rows[x]
LEMMA SetRowIs ==
    ASSUME NEW c \in ClientType, NEW e \in Entities, NEW r \in RowType
    PROVE  LET d == SetRow(c, e, r) IN
           /\ d \in ClientType /\ Otherwise(c, d) /\ RowsBut(c, d, e)
           /\ e \in DOMAIN d.rows /\ d.rows[e] = r
<1> DEFINE new == [x \in DOMAIN c.rows \cup {e} |-> IF x = e THEN r ELSE c.rows[x]]
           d == [c EXCEPT !.rows = new]
<1>2. SetRow(c, e, r) = d
    BY Zenon DEF SetRow
<1>3. c.rows \in Rows
    BY DEF ClientType
<1>4. new \in Rows
    <2>1. DOMAIN new = DOMAIN c.rows \cup {e} /\ \A x \in DOMAIN new : new[x] \in RowType
        BY <1>3, RowsAre
    <2>2. new = [x \in DOMAIN new |-> new[x]] /\ DOMAIN new \subseteq Entities
        BY <1>3, <2>1, RowsAre
    <2> HIDE DEF new
    <2> QED
        BY <2>1, <2>2, RowsAre
<1>5. /\ e \in DOMAIN new /\ new[e] = r
      /\ \A x : x # e => /\ x \in DOMAIN new <=> x \in DOMAIN c.rows
                         /\ x \in DOMAIN c.rows => new[x] = c.rows[x]
    OBVIOUS
<1> HIDE DEF new
<1>6. d \in ClientType /\ Otherwise(c, d) /\ d.rows = new
    BY <1>4 DEF ClientType, Otherwise
<1> HIDE DEF d
<1> QED
    BY <1>2, <1>5, <1>6 DEF RowsBut

LEMMA RowIs ==
    ASSUME NEW c \in ClientType, NEW e
    PROVE  /\ Row(c, e) \in RowType
           /\ [Row(c, e) EXCEPT !.ghost = TRUE] \in RowType
           /\ [Row(c, e) EXCEPT !.ghost = TRUE].ghost
           /\ \A p \in Int : /\ [Row(c, e) EXCEPT !.pos = p] \in RowType
                             /\ [Row(c, e) EXCEPT !.pos = p].pos = p
                             /\ [Row(c, e) EXCEPT !.pos = p].ghost = Row(c, e).ghost
           /\ e \in DOMAIN c.rows => Row(c, e) = c.rows[e]
           /\ e \notin DOMAIN c.rows => ~Row(c, e).ghost
<1>1. e \in DOMAIN c.rows => Row(c, e) = c.rows[e] /\ Row(c, e) \in RowType
    BY RowsAre DEF Row, ClientType
<1>2. e \notin DOMAIN c.rows => Row(c, e) = NoRow
    BY DEF Row
<1>3. NoRow \in RowType /\ ~NoRow.ghost
    BY DEF NoRow, RowType
<1>4. Row(c, e) \in RowType
    BY <1>1, <1>2, <1>3
<1> QED
    BY <1>1, <1>2, <1>3, <1>4 DEF RowType

LEMMA RowHas ==
    ASSUME NEW c \in ClientType, NEW e
    PROVE  /\ Row(c, e) \in RowType
           /\ e \in DOMAIN c.rows => Row(c, e) = c.rows[e]
           /\ e \notin DOMAIN c.rows => ~Row(c, e).ghost
BY RowIs

Events(f) == IF f[1] = "event" THEN 1 ELSE 0
LEMMA ApplyNames ==
    ASSUME NEW c \in ClientType, NEW e \in Entities
    PROVE  /\ Apply(c, <<"add", e>>) = SetRow(c, e, Row(c, e))
           /\ Apply(c, <<"authority", e>>) = SetRow(c, e, Row(c, e))
           /\ \A p : Apply(c, <<"update", e, p>>) = SetRow(c, e, [Row(c, e) EXCEPT !.pos = p])
           /\ Apply(c, <<"ghost", e>>) = SetRow(c, e, [Row(c, e) EXCEPT !.ghost = TRUE])
           /\ Apply(c, <<"visual", e>>) = c
           /\ Apply(c, <<"reject">>) = c /\ Apply(c, <<"inspector">>) = c
           /\ Apply(c, <<"remove", e>>) = [c EXCEPT !.rows = Restrict(@, DOMAIN @ \ {e})]
           /\ Apply(c, <<"event", e>>) = [c EXCEPT !.got = @ + 1]
           /\ Apply(c, <<"begin">>) = [c EXCEPT !.depth = @ + 1]
           /\ Apply(c, <<"end">>) = [c EXCEPT !.depth = IF @ = 0 THEN 0 ELSE @ - 1]
           /\ \A r : Apply(c, <<"rows", r>>) = IF c.phase = "Resyncing"
                  THEN [c EXCEPT !.rows = r, !.depth = 0, !.phase = "Live"] ELSE c
<1>1. /\ Apply(c, <<"add", e>>) = SetRow(c, e, Row(c, e))
      /\ Apply(c, <<"authority", e>>) = SetRow(c, e, Row(c, e))
    BY DEF Apply
<1>2. \A p : Apply(c, <<"update", e, p>>) = SetRow(c, e, [Row(c, e) EXCEPT !.pos = p])
    BY DEF Apply
<1>3. Apply(c, <<"ghost", e>>) = SetRow(c, e, [Row(c, e) EXCEPT !.ghost = TRUE])
    BY DEF Apply
<1>4. /\ Apply(c, <<"visual", e>>) = c /\ Apply(c, <<"reject">>) = c
      /\ Apply(c, <<"inspector">>) = c
    BY DEF Apply
<1>5. Apply(c, <<"remove", e>>) = [c EXCEPT !.rows = Restrict(@, DOMAIN @ \ {e})]
    BY DEF Apply
<1>6. /\ Apply(c, <<"event", e>>) = [c EXCEPT !.got = @ + 1]
      /\ Apply(c, <<"begin">>) = [c EXCEPT !.depth = @ + 1]
      /\ Apply(c, <<"end">>) = [c EXCEPT !.depth = IF @ = 0 THEN 0 ELSE @ - 1]
    BY DEF Apply
<1>7. \A r : Apply(c, <<"rows", r>>) = IF c.phase = "Resyncing"
                  THEN [c EXCEPT !.rows = r, !.depth = 0, !.phase = "Live"] ELSE c
    BY DEF Apply
<1> QED
    BY <1>1, <1>2, <1>3, <1>4, <1>5, <1>6, <1>7

LEMMA RemoveIs ==
    ASSUME NEW c \in ClientType, NEW e \in Entities
    PROVE  LET d == [c EXCEPT !.rows = Restrict(@, DOMAIN @ \ {e})] IN
           /\ d \in ClientType /\ Otherwise(c, d) /\ RowsBut(c, d, e) /\ e \notin DOMAIN d.rows
<1> DEFINE new == Restrict(c.rows, DOMAIN c.rows \ {e})
           d == [c EXCEPT !.rows = new]
<1>1. c.rows \in Rows
    BY DEF ClientType
<1>2. DOMAIN new = DOMAIN c.rows \ {e} /\ \A x \in DOMAIN new : new[x] = c.rows[x]
    BY DEF Restrict
<1>3. new \in Rows
    <2>1. new = [x \in DOMAIN new |-> new[x]]
        BY DEF Restrict
    <2> HIDE DEF new
    <2> QED
        BY <1>1, <1>2, <2>1, RowsAre
<1> HIDE DEF new
<1>4. d \in ClientType /\ Otherwise(c, d) /\ d.rows = new
    BY <1>3 DEF ClientType, Otherwise
<1>5. RowsBut(c, d, e) /\ e \notin DOMAIN d.rows
    BY <1>2, <1>4 DEF RowsBut
<1> QED
    BY <1>4, <1>5 DEF new

LEMMA ApplyTypes ==
    ASSUME NEW c \in ClientType, NEW f \in Frame
    PROVE  /\ Apply(c, f) \in ClientType
           /\ Apply(c, f).phase = c.phase /\ Apply(c, f).asked = c.asked
           /\ Apply(c, f).got = c.got + Events(f)
<1> DEFINE Good(g) == /\ Apply(c, g) \in ClientType
                      /\ Apply(c, g).phase = c.phase /\ Apply(c, g).asked = c.asked
                      /\ Apply(c, g).got = c.got + Events(g)
<1>0. c.got \in Nat /\ c.depth \in Nat
    BY DEF ClientType
<1>1. ASSUME NEW op \in Marks PROVE Good(<<op>>)
    <2>1. Events(<<op>>) = 0
        BY DEF Marks, Events
    <2>2. CASE op = "begin"
        <3>1. Apply(c, <<op>>) = [c EXCEPT !.depth = @ + 1]
            BY <2>2 DEF Apply
        <3> QED
            BY <1>0, <2>1, <3>1 DEF ClientType
    <2>3. CASE op = "end"
        <3>1. Apply(c, <<op>>) = [c EXCEPT !.depth = IF @ = 0 THEN 0 ELSE @ - 1]
            BY <2>3 DEF Apply
        <3> QED
            BY <1>0, <2>1, <3>1 DEF ClientType
    <2>4. CASE op \in {"reject", "inspector"}
        <3>1. Apply(c, <<op>>) = c
            BY <2>4 DEF Apply
        <3> QED
            BY <1>0, <2>1, <3>1
    <2> QED
        BY <2>2, <2>3, <2>4 DEF Marks
<1>2. ASSUME NEW e \in Entities, NEW r \in RowType, NEW g, Events(g) = 0,
             Apply(c, g) = SetRow(c, e, r)
      PROVE  Good(g)
    BY <1>0, <1>2, SetRowIs DEF Otherwise
<1>3. ASSUME NEW op \in Names, NEW e \in Entities PROVE Good(<<op, e>>)
    <2>1. CASE op \in {"add", "authority", "ghost"}
        <3>1. Events(<<op, e>>) = 0
            BY <2>1 DEF Events
        <3>2. \E r \in RowType : Apply(c, <<op, e>>) = SetRow(c, e, r)
            <4>1. Row(c, e) \in RowType /\ [Row(c, e) EXCEPT !.ghost = TRUE] \in RowType
                BY RowIs
            <4>2. /\ Apply(c, <<"add", e>>) = SetRow(c, e, Row(c, e))
                  /\ Apply(c, <<"authority", e>>) = SetRow(c, e, Row(c, e))
                  /\ Apply(c, <<"ghost", e>>) = SetRow(c, e, [Row(c, e) EXCEPT !.ghost = TRUE])
                BY ApplyNames
            <4> QED
                BY <2>1, <4>1, <4>2
        <3> HIDE DEF Good
        <3> QED
            BY <1>2, <3>1, <3>2
    <2>2. CASE op = "remove"
        <3> DEFINE d == [c EXCEPT !.rows = Restrict(@, DOMAIN @ \ {e})]
        <3>1. Apply(c, <<op, e>>) = d
            BY <2>2, ApplyNames
        <3>2. d \in ClientType /\ Otherwise(c, d)
            BY RemoveIs
        <3>3. Events(<<op, e>>) = 0
            BY <2>2 DEF Events
        <3> HIDE DEF d
        <3> QED
            BY <1>0, <3>1, <3>2, <3>3 DEF Otherwise
    <2>3. CASE op = "event"
        <3>1. Apply(c, <<op, e>>) = [c EXCEPT !.got = @ + 1] /\ Events(<<op, e>>) = 1
            BY <2>3, ApplyNames DEF Events
        <3> QED
            BY <1>0, <3>1 DEF ClientType
    <2>4. CASE op = "visual"
        <3>1. Apply(c, <<op, e>>) = c /\ Events(<<op, e>>) = 0
            BY <2>4, ApplyNames DEF Events
        <3> QED
            BY <1>0, <3>1
    <2> QED
        BY <2>1, <2>2, <2>3, <2>4 DEF Names
<1>4. ASSUME NEW e \in Entities, NEW p \in Int PROVE Good(<<"update", e, p>>)
    <2>1. Events(<<"update", e, p>>) = 0
        BY DEF Events
    <2>2. \E r \in RowType : Apply(c, <<"update", e, p>>) = SetRow(c, e, r)
        <3>1. [Row(c, e) EXCEPT !.pos = p] \in RowType
            BY RowIs
        <3>2. Apply(c, <<"update", e, p>>) = SetRow(c, e, [Row(c, e) EXCEPT !.pos = p])
            BY DEF Apply
        <3> QED
            BY <3>1, <3>2
    <2> HIDE DEF Good
    <2> QED
        BY <1>2, <2>1, <2>2
<1> HIDE DEF Good
<1>5. Good(f)
    <2>1. CASE f \in {<<op>> : op \in Marks}
        BY <1>1, <2>1
    <2>2. CASE f \in Names \X Entities
        BY <1>3, <2>2
    <2>3. CASE f \in {"update"} \X Entities \X Int
        BY <1>4, <2>3
    <2> QED
        BY <2>1, <2>2, <2>3 DEF Frame
<1> QED
    BY <1>5 DEF Good

LEMMA AnswerIs ==
    ASSUME NEW c \in ClientType, NEW f \in Answer
    PROVE  /\ Apply(c, f) \in ClientType
           /\ Apply(c, f).asked = c.asked /\ Apply(c, f).got = c.got + Events(f)
           /\ Events(f) = 0
           /\ c.phase = "Resyncing" => /\ Apply(c, f).phase = "Live" /\ Apply(c, f).depth = 0
                                       /\ Apply(c, f).rows = f[2]
           /\ c.phase # "Resyncing" => Apply(c, f) = c
<1>1. PICK r \in Rows : f = <<"rows", r>>
    BY DEF Answer
<1>2. Apply(c, f) = IF c.phase = "Resyncing"
                    THEN [c EXCEPT !.rows = r, !.depth = 0, !.phase = "Live"] ELSE c
    BY <1>1 DEF Apply
<1>3. Events(f) = 0 /\ f[2] = r /\ c.got \in Nat
    BY <1>1 DEF Events, ClientType
<1> DEFINE d == [c EXCEPT !.rows = r, !.depth = 0, !.phase = "Live"]
<1>4. /\ d \in ClientType /\ d.asked = c.asked /\ d.got = c.got /\ d.phase = "Live"
      /\ d.depth = 0 /\ d.rows = r
    BY DEF ClientType
<1>5. Apply(c, f) = IF c.phase = "Resyncing" THEN d ELSE c
    BY <1>2
<1> HIDE DEF d
<1>6. CASE c.phase = "Resyncing"
    BY <1>3, <1>4, <1>5, <1>6
<1>7. CASE c.phase # "Resyncing"
    BY <1>3, <1>5, <1>7
<1> QED
    BY <1>6, <1>7

Frames == Frame \cup Answer
Answers(q) == {i \in DOMAIN q : IsAnswer(q[i])}

LEMMA AnyIs ==
    ASSUME NEW c \in ClientType, NEW f \in Frames
    PROVE  /\ Apply(c, f) \in ClientType /\ Apply(c, f).asked = c.asked
           /\ Apply(c, f).got = c.got + Events(f)
           /\ ~IsAnswer(f) => Apply(c, f).phase = c.phase
<1>1. CASE f \in Frame
    BY <1>1, ApplyTypes
<1>2. CASE f \in Answer
    BY <1>2, AnswerIs, FrameKinds
<1> QED
    BY <1>1, <1>2 DEF Frames

\* What reading leaves alone.
LEMMA ReadTypes ==
    ASSUME NEW c \in ClientType, NEW q \in Seq(Frames)
    PROVE  /\ Read(c, q) \in ClientType /\ Read(c, q).asked = c.asked
           /\ Answers(q) = {} => Read(c, q).phase = c.phase
<1> DEFINE n == Len(q)
<1>0. n \in Nat /\ DOMAIN q = 1..n
    OBVIOUS
<1>1. PICK r : Runs(c, q, n, r) /\ Read(c, q) = r[n]
    BY ReadRuns
<1> DEFINE Good(k) == /\ r[k] \in ClientType /\ r[k].asked = c.asked
                      /\ Answers(q) = {} => r[k].phase = c.phase
           bad == {k \in 0..n : ~Good(k)}
<1>2. Good(0)
    BY <1>1 DEF Runs
<1>3. ASSUME NEW k \in 1..n, Good(k - 1) PROVE Good(k)
    <2>1. r[k] = Apply(r[k - 1], q[k]) /\ q[k] \in Frames
        BY <1>0, <1>1 DEF Runs
    <2>2. Answers(q) = {} => ~IsAnswer(q[k])
        BY <1>0 DEF Answers
    <2> QED
        BY <1>3, <2>1, <2>2, AnyIs
<1>4. bad = {}
    <2> HIDE DEF Good
    <2>1. SUFFICES ASSUME bad # {} PROVE FALSE
        OBVIOUS
    <2>2. PICK k \in bad : \A j \in bad : k <= j
        <3>1. bad \subseteq Nat
            OBVIOUS
        <3> HIDE DEF bad
        <3> QED
            BY <2>1, <3>1, LeastExists
    <2>3. k \in 1..n /\ k - 1 \in 0..n
        BY <1>2
    <2>4. Good(k - 1)
        BY <2>2, <2>3
    <2> QED
        BY <1>3, <2>3, <2>4
<1>5. Good(n)
    <2> HIDE DEF Good
    <2> QED
        BY <1>0, <1>4
<1> QED
    BY <1>1, <1>5

LEMMA ReadEvents ==
    ASSUME NEW c \in ClientType, NEW d \in ClientType, d.got = c.got, NEW q \in Seq(Frames)
    PROVE  Read(d, q).got = Read(c, q).got
<1> DEFINE n == Len(q)
<1>0. n \in Nat /\ DOMAIN q = 1..n
    OBVIOUS
<1>1. PICK r : Runs(c, q, n, r) /\ Read(c, q) = r[n]
    BY ReadRuns
<1>2. PICK t : Runs(d, q, n, t) /\ Read(d, q) = t[n]
    BY ReadRuns
<1> DEFINE Good(k) == r[k] \in ClientType /\ t[k] \in ClientType /\ t[k].got = r[k].got
           bad == {k \in 0..n : ~Good(k)}
<1>3. Good(0)
    BY <1>1, <1>2 DEF Runs
<1>4. ASSUME NEW k \in 1..n, Good(k - 1) PROVE Good(k)
    <2>1. r[k] = Apply(r[k - 1], q[k]) /\ t[k] = Apply(t[k - 1], q[k]) /\ q[k] \in Frames
        BY <1>0, <1>1, <1>2 DEF Runs
    <2>2. \A x \in ClientType : /\ Apply(x, q[k]) \in ClientType
                                /\ Apply(x, q[k]).got = x.got + Events(q[k])
        BY <2>1, AnyIs
    <2>3. /\ Apply(r[k - 1], q[k]) \in ClientType
          /\ Apply(r[k - 1], q[k]).got = r[k - 1].got + Events(q[k])
        BY <1>4, <2>2
    <2>4. /\ Apply(t[k - 1], q[k]) \in ClientType
          /\ Apply(t[k - 1], q[k]).got = t[k - 1].got + Events(q[k])
        BY <1>4, <2>2
    <2> QED
        BY <1>4, <2>1, <2>3, <2>4
<1>5. bad = {}
    <2> HIDE DEF Good
    <2>1. SUFFICES ASSUME bad # {} PROVE FALSE
        OBVIOUS
    <2>2. PICK k \in bad : \A j \in bad : k <= j
        <3>1. bad \subseteq Nat
            OBVIOUS
        <3> HIDE DEF bad
        <3> QED
            BY <2>1, <3>1, LeastExists
    <2>3. k \in 1..n /\ k - 1 \in 0..n
        BY <1>3
    <2>4. Good(k - 1)
        BY <2>2, <2>3
    <2> QED
        BY <1>4, <2>3, <2>4
<1>6. Good(n)
    <2> HIDE DEF Good
    <2> QED
        BY <1>0, <1>5
<1> QED
    BY <1>1, <1>2, <1>6

(***************************************************************************)
(* What a handler puts into the channel.                                   *)
(***************************************************************************)
\* What a client has when it has read the channel of its handle.
Will(c, s) == Read(c, s.wire)
Typed(c, s) == c \in ClientType /\ IsHandle(s) /\ s.wire \in Seq(Frames)
\* Only what is neither cut off nor flagged is followed.
Lost(s) == s.cut \/ s.flag
\* Frames that are no answers: the client counts the events that were sent.
Sends(c, s, t) ==
    /\ IsHandle(t) /\ t.wire \in Seq(Frames) /\ Answers(t.wire) = Answers(s.wire)
    /\ t.cut = s.cut /\ (Lost(s) => Lost(t))
    /\ ~Lost(t) => /\ Will(c, t).phase = Will(c, s).phase
                   /\ Will(c, s).got = s.due => Will(c, t).got = t.due
Level(c, s, t) == ~Lost(t) => Will(c, t).depth = Will(c, s).depth
\* Nothing is said of x.
Kept(c, s, t, x) ==
    ~Lost(t) =>
        /\ x \in t.view <=> x \in s.view
        /\ x \in t.given <=> x \in s.given
        /\ x \in t.stray <=> x \in s.stray
        /\ x \in t.lossy <=> x \in s.lossy
        /\ x \in t.unseen <=> x \in s.unseen
        /\ x \in DOMAIN Will(c, t).rows <=> x \in DOMAIN Will(c, s).rows
        /\ x \in DOMAIN Will(c, s).rows => Will(c, t).rows[x] = Will(c, s).rows[x]
KeptBut(c, s, t, e) == \A x \in Entities : x # e => Kept(c, s, t, x)
Tells(c, s, t, e) == Sends(c, s, t) /\ KeptBut(c, s, t, e)

LEMMA WillType == ASSUME NEW c, NEW s, Typed(c, s) PROVE Will(c, s) \in ClientType
BY ReadTypes DEF Typed, Will

LEMMA SendsTyped ==
    ASSUME NEW c, NEW s, Typed(c, s), NEW t, Sends(c, s, t) PROVE Typed(c, t)
BY DEF Typed, Sends

LEMMA TellsTells ==
    ASSUME NEW c, NEW s, NEW t, NEW u, NEW e, Tells(c, s, t, e), Tells(c, t, u, e)
    PROVE  Tells(c, s, u, e)
<1>1. Sends(c, s, u)
    BY DEF Tells, Sends
<1>2. Lost(t) => Lost(u)
    BY DEF Tells, Sends
<1>3. ASSUME NEW x \in Entities, x # e PROVE Kept(c, s, u, x)
    <2>1. Kept(c, s, t, x) /\ Kept(c, t, u, x)
        BY <1>3 DEF Tells, KeptBut
    <2> QED
        BY <1>2, <2>1 DEF Kept
<1> QED
    BY <1>1, <1>3 DEF Tells, KeptBut

LEMMA TellsSelf == ASSUME NEW c, NEW s, Typed(c, s), NEW e PROVE Tells(c, s, s, e) /\ Level(c, s, s)
BY DEF Tells, Sends, KeptBut, Kept, Typed, Level

\* What becomes of the marks of a handle with a frame in the channel, and with one shed.
Queued(s, t, f) ==
    /\ t.lossy = IF f[1] = "update" THEN s.lossy \ {f[2]} ELSE s.lossy
    /\ t.unseen = IF f[1] = "remove" THEN s.unseen \ {f[2]} ELSE s.unseen
    /\ t.due = IF f[1] = "event" THEN s.due + 1 ELSE s.due
    /\ f[1] \in {"add", "remove"} => t.stray = s.stray \ {f[2]}
    /\ f[1] = "authority" => t.stray = IF f[2] \in s.view THEN s.stray
                                       ELSE s.stray \cup {f[2]}
    /\ f[1] \notin {"add", "remove", "authority"} => t.stray = s.stray
Dropped(s, t, f) ==
    /\ Degradable(f) /\ t.stray = s.stray /\ t.due = s.due
    /\ t.lossy = IF f[1] = "update" THEN s.lossy \cup {f[2]} ELSE s.lossy
    /\ t.unseen = IF f[1] = "ghost" THEN s.unseen \cup {f[2]} ELSE s.unseen

LEMMA EnqueueIs ==
    ASSUME NEW s, IsHandle(s), NEW f
    PROVE  LET t == Enqueue(s, f) IN
           /\ IsHandle(t) /\ t.wire = Append(s.wire, f) /\ t.flag = s.flag /\ t.cut = s.cut
           /\ t.view = s.view /\ t.given = s.given /\ Queued(s, t, f)
BY DEF Enqueue, IsHandle, Fields, Queued

LEMMA ShedIs ==
    ASSUME NEW s, IsHandle(s), NEW f, Sheds(s, f)
    PROVE  LET t == Shed(s, f) IN
           /\ IsHandle(t) /\ t.wire = s.wire /\ t.flag = s.flag /\ t.cut = s.cut
           /\ t.view = s.view /\ t.given = s.given /\ Dropped(s, t, f)
BY DEF Shed, IsHandle, Fields, Dropped, Sheds

\* A frame is in the channel, or was shed, or lost with the consumer.
LEMMA EmitCases ==
    ASSUME NEW c, NEW s, Typed(c, s), NEW f \in Frames, NEW t, t = Emit(s, f)
    PROVE  /\ Typed(c, t) /\ t.cut = s.cut /\ (Lost(s) => Lost(t))
           /\ t.wire = s.wire \/ t.wire = Append(s.wire, f)
           /\ ~Lost(t) => /\ t.view = s.view /\ t.given = s.given
                          /\ \/ Will(c, t) = Will(c, s) /\ Dropped(s, t, f)
                             \/ Will(c, t) = Apply(Will(c, s), f) /\ Queued(s, t, f)
<1> DEFINE on == [s EXCEPT !.flag = TRUE]
<1>0. \/ s.cut /\ t = s
      \/ Sheds(s, f) /\ t = Shed(s, f)
      \/ t = Enqueue(s, f)
      \/ t = on
    BY DEF Emit
<1>1. IsHandle(s) /\ c \in ClientType /\ s.wire \in Seq(Frames)
    BY DEF Typed
<1>2. CASE s.cut /\ t = s
    BY <1>2 DEF Lost
<1>3. CASE Sheds(s, f) /\ t = Shed(s, f)
    <2>1. Sheds(s, f) /\ t = Shed(s, f)
        BY <1>3
    <2>2. /\ IsHandle(t) /\ t.wire = s.wire /\ t.flag = s.flag /\ t.cut = s.cut
          /\ t.view = s.view /\ t.given = s.given /\ Dropped(s, t, f)
        BY <1>1, <2>1, ShedIs
    <2> QED
        BY <1>1, <2>2 DEF Typed, Lost, Will
<1>4. CASE t = Enqueue(s, f)
    <2>1. /\ IsHandle(t) /\ t.wire = Append(s.wire, f) /\ t.flag = s.flag /\ t.cut = s.cut
          /\ t.view = s.view /\ t.given = s.given /\ Queued(s, t, f)
        BY <1>1, <1>4, EnqueueIs
    <2>2. Will(c, t) = Apply(Will(c, s), f)
        BY <1>1, <2>1, ReadMore DEF Will
    <2>3. t.wire \in Seq(Frames)
        BY <1>1, <2>1
    <2> QED
        BY <1>1, <2>1, <2>2, <2>3 DEF Typed, Lost
<1>5. CASE t = on
    <2>1. IsHandle(t) /\ t.wire = s.wire /\ t.flag /\ t.cut = s.cut
        BY <1>1, <1>5 DEF IsHandle, Fields
    <2> QED
        BY <1>1, <2>1 DEF Typed, Lost
<1> QED
    BY <1>0, <1>2, <1>3, <1>4, <1>5

LEMMA EmitSends ==
    ASSUME NEW c, NEW s, Typed(c, s), NEW f \in Frame PROVE Sends(c, s, Emit(s, f))
<1> SUFFICES ASSUME NEW t, t = Emit(s, f) PROVE Sends(c, s, t)
    OBVIOUS
<1>0. f \in Frames
    BY DEF Frames
<1>1. /\ Typed(c, t) /\ t.cut = s.cut /\ (Lost(s) => Lost(t))
      /\ t.wire = s.wire \/ t.wire = Append(s.wire, f)
      /\ ~Lost(t) => /\ t.view = s.view /\ t.given = s.given
                     /\ \/ Will(c, t) = Will(c, s) /\ Dropped(s, t, f)
                        \/ Will(c, t) = Apply(Will(c, s), f) /\ Queued(s, t, f)
    BY <1>0, EmitCases
<1>2. Answers(t.wire) = Answers(s.wire)
    <2>1. CASE t.wire = s.wire
        BY <2>1
    <2>2. CASE t.wire = Append(s.wire, f)
        <3>1. s.wire \in Seq(Frames) /\ ~IsAnswer(f)
            BY FrameKinds DEF Typed
        <3>2. /\ DOMAIN t.wire = 1..(Len(s.wire) + 1) /\ DOMAIN s.wire = 1..Len(s.wire)
              /\ Len(s.wire) \in Nat /\ t.wire[Len(s.wire) + 1] = f
              /\ \A i \in 1..Len(s.wire) : t.wire[i] = s.wire[i]
            BY <1>0, <2>2, <3>1
        <3>3. \A i : i \in Answers(t.wire) <=> i \in Answers(s.wire)
            BY <3>1, <3>2 DEF Answers
        <3> QED
            BY <3>3
    <2> QED
        BY <1>1, <2>1, <2>2
<1>3. ASSUME ~Lost(t)
      PROVE  /\ Will(c, t).phase = Will(c, s).phase
             /\ Will(c, s).got = s.due => Will(c, t).got = t.due
    <2>1. \/ Will(c, t) = Will(c, s) /\ t.due = s.due
          \/ /\ Will(c, t) = Apply(Will(c, s), f)
             /\ t.due = IF f[1] = "event" THEN s.due + 1 ELSE s.due
        BY <1>1, <1>3 DEF Dropped, Queued
    <2>2. Will(c, s) \in ClientType
        BY WillType
    <2>3. CASE Will(c, t) = Apply(Will(c, s), f) /\ t.due = IF f[1] = "event" THEN s.due + 1 ELSE s.due
        <3>1. /\ Apply(Will(c, s), f).phase = Will(c, s).phase
              /\ Apply(Will(c, s), f).got = Will(c, s).got + Events(f)
            BY <2>2, ApplyTypes
        <3>2. Will(c, s).got \in Nat
            BY <2>2 DEF ClientType
        <3> QED
            BY <2>3, <3>1, <3>2 DEF Events
    <2> QED
        BY <2>1, <2>3
<1> QED
    BY <1>1, <1>2, <1>3 DEF Sends, Typed

\* Of all but e the marks and the rows stay.
LEMMA MarksBut ==
    ASSUME NEW c, NEW s, NEW t, NEW f, NEW e, f[2] = e,
           t.view = s.view, t.given = s.given, Dropped(s, t, f) \/ Queued(s, t, f),
           RowsBut(Will(c, s), Will(c, t), e)
    PROVE  KeptBut(c, s, t, e)
<1> SUFFICES ASSUME NEW x \in Entities, x # e PROVE Kept(c, s, t, x)
    BY DEF KeptBut
<1>1. x \in t.lossy <=> x \in s.lossy
    BY DEF Dropped, Queued
<1>2. x \in t.unseen <=> x \in s.unseen
    BY DEF Dropped, Queued
<1>3. x \in t.stray <=> x \in s.stray
    BY DEF Dropped, Queued
<1>4. /\ x \in DOMAIN Will(c, t).rows <=> x \in DOMAIN Will(c, s).rows
      /\ x \in DOMAIN Will(c, s).rows => Will(c, t).rows[x] = Will(c, s).rows[x]
    BY DEF RowsBut
<1> QED
    BY <1>1, <1>2, <1>3, <1>4 DEF Kept

LEMMA LostTells ==
    ASSUME NEW c, NEW s, NEW t, Sends(c, s, t), Lost(t)
    PROVE  Level(c, s, t) /\ (\A e : Tells(c, s, t, e)) /\ \A x : Kept(c, s, t, x)
BY DEF Level, Tells, KeptBut, Kept

\* Frames that name no entity.
LEMMA EmitMark ==
    ASSUME NEW c, NEW s, Typed(c, s), NEW op \in Marks, NEW t, t = Emit(s, <<op>>)
    PROVE  /\ Sends(c, s, t) /\ (\A x : Kept(c, s, t, x))
           /\ op \notin {"begin", "end"} => Level(c, s, t)
           /\ ~Lost(t) /\ op = "begin" => Will(c, t).depth = Will(c, s).depth + 1
           /\ ~Lost(t) /\ op = "end" =>
                  Will(c, t).depth = IF Will(c, s).depth = 0 THEN 0 ELSE Will(c, s).depth - 1
<1> DEFINE f == <<op>>
<1>0. f \in Frame /\ f \in Frames /\ f[1] = op
    BY DEF Frame, Frames
<1> HIDE DEF f
<1>1. Sends(c, s, t)
    BY <1>0, EmitSends DEF f
<1>2. CASE Lost(t)
    BY <1>1, <1>2, LostTells
<1>3. CASE ~Lost(t)
    <2>1. /\ t.view = s.view /\ t.given = s.given
          /\ \/ Will(c, t) = Will(c, s) /\ Dropped(s, t, f)
             \/ Will(c, t) = Apply(Will(c, s), f) /\ Queued(s, t, f)
        BY <1>0, <1>3, EmitCases DEF f
    <2>2. t.lossy = s.lossy /\ t.unseen = s.unseen /\ t.stray = s.stray
        BY <1>0, <2>1 DEF Dropped, Queued, Marks
    <2>3. op \in {"begin", "end"} => ~Dropped(s, t, f)
        BY <1>0 DEF Dropped, Degradable
    <2>4. Will(c, s) \in ClientType
        BY WillType
    <2> DEFINE d == Will(c, s)
    <2>5. /\ op = "begin" => Apply(d, f) = [d EXCEPT !.depth = @ + 1]
          /\ op = "end" => Apply(d, f) = [d EXCEPT !.depth = IF @ = 0 THEN 0 ELSE @ - 1]
          /\ op \notin {"begin", "end"} => Apply(d, f) = d
        BY DEF Apply, f, Marks
    <2> HIDE DEF d
    <2>6. Will(c, t).rows = d.rows
        BY <1>0, <2>1, <2>4, <2>5 DEF ClientType, d
    <2>7. \A x : Kept(c, s, t, x)
        BY <2>1, <2>2, <2>6 DEF Kept, d
    <2>8. op \notin {"begin", "end"} => Level(c, s, t)
        BY <2>1, <2>5 DEF Level, d
    <2>9. /\ op = "begin" => Will(c, t).depth = d.depth + 1
          /\ op = "end" => Will(c, t).depth = IF d.depth = 0 THEN 0 ELSE d.depth - 1
        BY <2>1, <2>3, <2>4, <2>5 DEF ClientType, d
    <2> QED
        BY <1>1, <2>7, <2>8, <2>9 DEF d
<1> QED
    BY <1>2, <1>3

\* What the frames do that name one.
MadeRow(c, s, t, op, e) ==
    /\ e \in DOMAIN Will(c, t).rows /\ Will(c, t).rows[e] = Row(Will(c, s), e)
    /\ t.view = s.view /\ t.given = s.given /\ t.lossy = s.lossy /\ t.unseen = s.unseen
    /\ op = "add" => e \notin t.stray
    /\ op = "authority" => (e \in t.stray <=> e \in s.stray \/ e \notin s.view)
LEMMA EmitRow ==
    ASSUME NEW c, NEW s, Typed(c, s), NEW e \in Entities, NEW op \in {"add", "authority"},
           NEW t, t = Emit(s, <<op, e>>)
    PROVE  /\ Tells(c, s, t, e) /\ Level(c, s, t)
           /\ ~Lost(t) => MadeRow(c, s, t, op, e)
<1> DEFINE f == <<op, e>>
           d == Will(c, s)
<1>0. f \in Frame /\ f \in Frames /\ f[1] = op /\ f[2] = e
    BY DEF Frame, Frames, Names
<1>1. d \in ClientType
    BY WillType
<1>2. Apply(d, f) = SetRow(d, e, Row(d, e))
    BY DEF Apply
<1>3. t = Emit(s, f)
    OBVIOUS
<1> HIDE DEF f, d
<1>4. Sends(c, s, t)
    BY <1>0, <1>3, EmitSends
<1>5. CASE Lost(t)
    BY <1>4, <1>5, LostTells
<1>6. CASE ~Lost(t)
    <2>1. /\ t.view = s.view /\ t.given = s.given
          /\ \/ Will(c, t) = Will(c, s) /\ Dropped(s, t, f)
             \/ Will(c, t) = Apply(Will(c, s), f) /\ Queued(s, t, f)
        BY <1>0, <1>3, <1>6, EmitCases
    <2>2. ~Dropped(s, t, f)
        BY <1>0 DEF Dropped, Degradable
    <2>3. Will(c, t) = SetRow(d, e, Row(d, e)) /\ Queued(s, t, f)
        BY <1>2, <2>1, <2>2 DEF d
    <2>4. Row(d, e) \in RowType
        BY <1>1, RowIs
    <2>5. /\ Otherwise(d, Will(c, t)) /\ RowsBut(d, Will(c, t), e)
          /\ e \in DOMAIN Will(c, t).rows /\ Will(c, t).rows[e] = Row(d, e)
        BY <1>1, <2>3, <2>4, SetRowIs
    <2>6. KeptBut(c, s, t, e)
        BY <1>0, <2>1, <2>5, MarksBut DEF d
    <2>7. /\ t.lossy = s.lossy /\ t.unseen = s.unseen
          /\ op = "add" => e \notin t.stray
          /\ op = "authority" => (e \in t.stray <=> e \in s.stray \/ e \notin s.view)
        BY <1>0, <2>3 DEF Queued
    <2>8. Level(c, s, t)
        BY <2>5 DEF Level, Otherwise, d
    <2> QED
        BY <1>4, <2>1, <2>5, <2>6, <2>7, <2>8 DEF Tells, d, MadeRow
<1> QED
    BY <1>5, <1>6

LEMMA EmitAdd ==
    ASSUME NEW c, NEW s, Typed(c, s), NEW e \in Entities, NEW t, t = Emit(s, <<"add", e>>)
    PROVE  /\ Tells(c, s, t, e) /\ Level(c, s, t)
           /\ ~Lost(t) =>
                /\ e \in DOMAIN Will(c, t).rows /\ Will(c, t).rows[e] = Row(Will(c, s), e)
                /\ t.view = s.view /\ t.given = s.given /\ t.unseen = s.unseen
                /\ e \notin t.stray
<1> DEFINE op == "add"
<1>1. op \in {"add", "authority"} /\ op = "add" /\ t = Emit(s, <<op, e>>)
    OBVIOUS
<1> HIDE DEF op
<1>2. op \in {"add", "authority"} /\ t = Emit(s, <<op, e>>)
    BY <1>1
<1>3. Tells(c, s, t, e) /\ Level(c, s, t)
    BY <1>2, EmitRow
<1>4. ~Lost(t) => MadeRow(c, s, t, op, e)
    BY <1>2, EmitRow
<1> QED
    BY <1>1, <1>3, <1>4 DEF MadeRow

LEMMA EmitAuthority ==
    ASSUME NEW c, NEW s, Typed(c, s), NEW e \in Entities, NEW t, t = Emit(s, <<"authority", e>>)
    PROVE  /\ Tells(c, s, t, e) /\ Level(c, s, t)
           /\ ~Lost(t) =>
                /\ e \in DOMAIN Will(c, t).rows /\ Will(c, t).rows[e] = Row(Will(c, s), e)
                /\ t.view = s.view /\ t.given = s.given /\ t.lossy = s.lossy
                /\ t.unseen = s.unseen
                /\ e \in t.stray <=> e \in s.stray \/ e \notin s.view
<1> DEFINE op == "authority"
<1>1. op \in {"add", "authority"} /\ op = "authority" /\ t = Emit(s, <<op, e>>)
    OBVIOUS
<1> HIDE DEF op
<1>2. op \in {"add", "authority"} /\ t = Emit(s, <<op, e>>)
    BY <1>1
<1>3. Tells(c, s, t, e) /\ Level(c, s, t)
    BY <1>2, EmitRow
<1>4. ~Lost(t) => MadeRow(c, s, t, op, e)
    BY <1>2, EmitRow
<1> QED
    BY <1>1, <1>3, <1>4 DEF MadeRow

LEMMA EmitUpdate ==
    ASSUME NEW c, NEW s, Typed(c, s), NEW e \in Entities, NEW p \in Int,
           NEW t, t = Emit(s, <<"update", e, p>>)
    PROVE  /\ Tells(c, s, t, e) /\ Level(c, s, t)
           /\ ~Lost(t) =>
                /\ t.view = s.view /\ t.given = s.given /\ t.unseen = s.unseen /\ t.stray = s.stray
                /\ \/ Will(c, t) = Will(c, s) /\ e \in t.lossy
                   \/ /\ e \in DOMAIN Will(c, t).rows
                      /\ Will(c, t).rows[e] = [Row(Will(c, s), e) EXCEPT !.pos = p]
<1> DEFINE f == <<"update", e, p>>
           d == Will(c, s)
<1>0. f \in Frame /\ f \in Frames /\ f[1] = "update" /\ f[2] = e
    BY DEF Frame, Frames
<1>1. d \in ClientType
    BY WillType
<1>2. Apply(d, f) = SetRow(d, e, [Row(d, e) EXCEPT !.pos = p])
    BY DEF Apply
<1>3. t = Emit(s, f)
    OBVIOUS
<1> HIDE DEF f, d
<1>4. Sends(c, s, t)
    BY <1>0, <1>3, EmitSends
<1>5. CASE Lost(t)
    BY <1>4, <1>5, LostTells
<1>6. CASE ~Lost(t)
    <2>1. /\ t.view = s.view /\ t.given = s.given
          /\ \/ Will(c, t) = Will(c, s) /\ Dropped(s, t, f)
             \/ Will(c, t) = Apply(Will(c, s), f) /\ Queued(s, t, f)
        BY <1>0, <1>3, <1>6, EmitCases
    <2>2. t.unseen = s.unseen /\ t.stray = s.stray
        BY <1>0, <2>1 DEF Dropped, Queued
    <2>3. CASE Will(c, t) = Will(c, s) /\ Dropped(s, t, f)
        <3>1. e \in t.lossy
            BY <1>0, <2>3 DEF Dropped
        <3>2. RowsBut(d, Will(c, t), e)
            BY <2>3 DEF RowsBut, d
        <3>3. KeptBut(c, s, t, e)
            BY <1>0, <2>1, <3>2, MarksBut DEF d
        <3> QED
            BY <1>4, <2>1, <2>2, <2>3, <3>1, <3>3 DEF Tells, Level
    <2>4. CASE Will(c, t) = Apply(Will(c, s), f) /\ Queued(s, t, f)
        <3>1. Will(c, t) = SetRow(d, e, [Row(d, e) EXCEPT !.pos = p])
            BY <1>2, <2>4 DEF d
        <3>2. [Row(d, e) EXCEPT !.pos = p] \in RowType
            BY <1>1, RowIs
        <3>3. /\ Otherwise(d, Will(c, t)) /\ RowsBut(d, Will(c, t), e)
              /\ e \in DOMAIN Will(c, t).rows
              /\ Will(c, t).rows[e] = [Row(d, e) EXCEPT !.pos = p]
            BY <1>1, <3>1, <3>2, SetRowIs
        <3>4. KeptBut(c, s, t, e)
            BY <1>0, <2>1, <3>3, MarksBut DEF d
        <3>5. Level(c, s, t)
            BY <3>3 DEF Level, Otherwise, d
        <3> QED
            BY <1>4, <2>1, <2>2, <3>3, <3>4, <3>5 DEF Tells, d
    <2> QED
        BY <2>1, <2>3, <2>4
<1> QED
    BY <1>5, <1>6

LEMMA EmitGhost ==
    ASSUME NEW c, NEW s, Typed(c, s), NEW e \in Entities, NEW t, t = Emit(s, <<"ghost", e>>)
    PROVE  /\ Tells(c, s, t, e) /\ Level(c, s, t)
           /\ ~Lost(t) =>
                /\ t.view = s.view /\ t.given = s.given /\ t.lossy = s.lossy /\ t.stray = s.stray
                /\ \/ Will(c, t) = Will(c, s) /\ e \in t.unseen
                   \/ /\ e \in DOMAIN Will(c, t).rows /\ t.unseen = s.unseen
                      /\ Will(c, t).rows[e].ghost
<1> DEFINE f == <<"ghost", e>>
           d == Will(c, s)
<1>0. f \in Frame /\ f \in Frames /\ f[1] = "ghost" /\ f[2] = e
    BY DEF Frame, Frames, Names
<1>1. d \in ClientType
    BY WillType
<1>2. Apply(d, f) = SetRow(d, e, [Row(d, e) EXCEPT !.ghost = TRUE])
    BY DEF Apply
<1>3. t = Emit(s, f)
    OBVIOUS
<1> HIDE DEF f, d
<1>4. Sends(c, s, t)
    BY <1>0, <1>3, EmitSends
<1>5. CASE Lost(t)
    BY <1>4, <1>5, LostTells
<1>6. CASE ~Lost(t)
    <2>1. /\ t.view = s.view /\ t.given = s.given
          /\ \/ Will(c, t) = Will(c, s) /\ Dropped(s, t, f)
             \/ Will(c, t) = Apply(Will(c, s), f) /\ Queued(s, t, f)
        BY <1>0, <1>3, <1>6, EmitCases
    <2>2. t.lossy = s.lossy /\ t.stray = s.stray
        BY <1>0, <2>1 DEF Dropped, Queued
    <2>3. CASE Will(c, t) = Will(c, s) /\ Dropped(s, t, f)
        <3>1. e \in t.unseen
            BY <1>0, <2>3 DEF Dropped
        <3>2. RowsBut(d, Will(c, t), e)
            BY <2>3 DEF RowsBut, d
        <3>3. KeptBut(c, s, t, e)
            BY <1>0, <2>1, <3>2, MarksBut DEF d
        <3> QED
            BY <1>4, <2>1, <2>2, <2>3, <3>1, <3>3 DEF Tells, Level
    <2>4. CASE Will(c, t) = Apply(Will(c, s), f) /\ Queued(s, t, f)
        <3>1. Will(c, t) = SetRow(d, e, [Row(d, e) EXCEPT !.ghost = TRUE])
            BY <1>2, <2>4 DEF d
        <3>2. /\ [Row(d, e) EXCEPT !.ghost = TRUE] \in RowType
              /\ [Row(d, e) EXCEPT !.ghost = TRUE].ghost
            BY <1>1, RowIs
        <3>3. /\ Otherwise(d, Will(c, t)) /\ RowsBut(d, Will(c, t), e)
              /\ e \in DOMAIN Will(c, t).rows
              /\ Will(c, t).rows[e] = [Row(d, e) EXCEPT !.ghost = TRUE]
            BY <1>1, <3>1, <3>2, SetRowIs
        <3>4. KeptBut(c, s, t, e)
            BY <1>0, <2>1, <3>3, MarksBut DEF d
        <3>5. Level(c, s, t) /\ t.unseen = s.unseen
            BY <1>0, <2>4, <3>3 DEF Level, Otherwise, d, Queued
        <3>6. Will(c, t).rows[e].ghost
            BY <3>2, <3>3
        <3> QED
            BY <1>4, <2>1, <2>2, <3>3, <3>4, <3>5, <3>6 DEF Tells
    <2> QED
        BY <2>1, <2>3, <2>4
<1> QED
    BY <1>5, <1>6

LEMMA EmitRemove ==
    ASSUME NEW c, NEW s, Typed(c, s), NEW e \in Entities, NEW t, t = Emit(s, <<"remove", e>>)
    PROVE  /\ Tells(c, s, t, e) /\ Level(c, s, t)
           /\ ~Lost(t) =>
                /\ t.view = s.view /\ t.given = s.given
                /\ e \notin DOMAIN Will(c, t).rows /\ e \notin t.stray /\ e \notin t.unseen
<1> DEFINE f == <<"remove", e>>
           d == Will(c, s)
           u == [d EXCEPT !.rows = Restrict(@, DOMAIN @ \ {e})]
<1>0. f \in Frame /\ f \in Frames /\ f[1] = "remove" /\ f[2] = e
    BY DEF Frame, Frames, Names
<1>1. d \in ClientType
    BY WillType
<1>2. Apply(d, f) = u
    BY DEF Apply
<1>3. t = Emit(s, f)
    OBVIOUS
<1> HIDE DEF f, d
<1>4. Sends(c, s, t)
    BY <1>0, <1>3, EmitSends
<1>5. CASE Lost(t)
    BY <1>4, <1>5, LostTells
<1>6. CASE ~Lost(t)
    <2>1. /\ t.view = s.view /\ t.given = s.given
          /\ \/ Will(c, t) = Will(c, s) /\ Dropped(s, t, f)
             \/ Will(c, t) = Apply(Will(c, s), f) /\ Queued(s, t, f)
        BY <1>0, <1>3, <1>6, EmitCases
    <2>2. ~Dropped(s, t, f)
        BY <1>0 DEF Dropped, Degradable
    <2>3. Otherwise(d, u) /\ RowsBut(d, u, e) /\ e \notin DOMAIN u.rows
        BY <1>1, RemoveIs
    <2> HIDE DEF u
    <2>4. Will(c, t) = u /\ Queued(s, t, f)
        BY <1>2, <2>1, <2>2 DEF d
    <2>5. KeptBut(c, s, t, e)
        BY <1>0, <2>1, <2>3, <2>4, MarksBut DEF d
    <2>6. e \notin t.stray /\ e \notin t.unseen
        BY <1>0, <2>4 DEF Queued
    <2>7. Level(c, s, t)
        BY <2>3, <2>4 DEF Level, Otherwise, d
    <2> QED
        BY <1>4, <2>1, <2>3, <2>4, <2>5, <2>6, <2>7 DEF Tells
<1> QED
    BY <1>5, <1>6

\* Events make no rows.
LEMMA EmitEvent ==
    ASSUME NEW c, NEW s, Typed(c, s), NEW e \in Entities, NEW op \in {"event", "visual"},
           NEW t, t = Emit(s, <<op, e>>)
    PROVE  Sends(c, s, t) /\ Level(c, s, t) /\ \A x : Kept(c, s, t, x)
<1> DEFINE f == <<op, e>>
           d == Will(c, s)
<1>0. f \in Frame /\ f \in Frames /\ f[1] = op /\ f[2] = e
    BY DEF Frame, Frames, Names
<1>1. d \in ClientType
    BY WillType
<1>2. Apply(d, f) = IF op = "event" THEN [d EXCEPT !.got = @ + 1] ELSE d
    BY DEF Apply
<1>3. t = Emit(s, f)
    OBVIOUS
<1> HIDE DEF f, d
<1>4. Sends(c, s, t)
    BY <1>0, <1>3, EmitSends
<1>5. CASE Lost(t)
    BY <1>4, <1>5, LostTells
<1>6. CASE ~Lost(t)
    <2>1. /\ t.view = s.view /\ t.given = s.given
          /\ \/ Will(c, t) = Will(c, s) /\ Dropped(s, t, f)
             \/ Will(c, t) = Apply(Will(c, s), f) /\ Queued(s, t, f)
        BY <1>0, <1>3, <1>6, EmitCases
    <2>2. t.lossy = s.lossy /\ t.unseen = s.unseen /\ t.stray = s.stray
        BY <1>0, <2>1 DEF Dropped, Queued
    <2>3. Will(c, t).rows = d.rows /\ Will(c, t).depth = d.depth
        BY <1>1, <1>2, <2>1 DEF ClientType, d
    <2> QED
        BY <1>4, <2>1, <2>2, <2>3 DEF Kept, Level, d
<1> QED
    BY <1>5, <1>6

(***************************************************************************)
(* Rows and views.                                                         *)
(***************************************************************************)
\* Once it has read its channel, a consumer that is not cut off has x as the view has it:
\* what there is, an entity or a ghost, and where (None: anywhere).
Fits(c, s, x, what, p) ==
    ~Lost(s) =>
        LET rows == Will(c, s).rows IN
        /\ x \notin s.stray => (x \in DOMAIN rows <=> x \in s.view)
        /\ x \in DOMAIN rows /\ x \notin s.unseen =>
               (rows[x].ghost <=> x \notin s.stray /\ what = "ghost")
        /\ (/\ x \in s.view /\ x \notin s.stray /\ x \notin s.lossy
            /\ x \notin s.given /\ x \notin s.unseen /\ p # None) => rows[x].pos = p

\* What is not in the view may be anything.
LEMMA FitsUnseen ==
    ASSUME NEW c, NEW s, NEW x, x \notin s.view, NEW w, NEW p, Fits(c, s, x, w, p), NEW v, NEW q
    PROVE  Fits(c, s, x, v, q)
BY Zenon DEF Fits

LEMMA FitsNowhere ==
    ASSUME NEW c, NEW s, NEW x, NEW w, NEW p, Fits(c, s, x, w, p) PROVE Fits(c, s, x, w, None)
BY Zenon DEF Fits

LEMMA FitsKept ==
    ASSUME NEW c, NEW s, NEW t, NEW x, Lost(s) => Lost(t), Kept(c, s, t, x),
           NEW w, NEW p, Fits(c, s, x, w, p)
    PROVE  Fits(c, t, x, w, p)
<1> SUFFICES ASSUME ~Lost(t) PROVE Fits(c, t, x, w, p)
    BY DEF Fits
<1>1. /\ x \in t.view <=> x \in s.view
      /\ x \in t.given <=> x \in s.given
      /\ x \in t.stray <=> x \in s.stray
      /\ x \in t.lossy <=> x \in s.lossy
      /\ x \in t.unseen <=> x \in s.unseen
      /\ x \in DOMAIN Will(c, t).rows <=> x \in DOMAIN Will(c, s).rows
      /\ x \in DOMAIN Will(c, s).rows => Will(c, t).rows[x] = Will(c, s).rows[x]
    BY DEF Kept
<1>2. ~Lost(s)
    OBVIOUS
<1>3. x \notin t.stray => (x \in DOMAIN Will(c, t).rows <=> x \in t.view)
    BY <1>1, <1>2 DEF Fits
<1>4. x \in DOMAIN Will(c, t).rows /\ x \notin t.unseen =>
          (Will(c, t).rows[x].ghost <=> x \notin t.stray /\ w = "ghost")
    BY <1>1, <1>2, Zenon DEF Fits
<1>5. (/\ x \in t.view /\ x \notin t.stray /\ x \notin t.lossy
       /\ x \notin t.given /\ x \notin t.unseen /\ p # None) => Will(c, t).rows[x].pos = p
    BY <1>1, <1>2, Zenon DEF Fits
<1> QED
    BY <1>3, <1>4, <1>5, Zenon DEF Fits

LEMMA MarkTells ==
    ASSUME NEW c, NEW s, NEW t, Sends(c, s, t), \A x : Kept(c, s, t, x), NEW e
    PROVE  Tells(c, s, t, e)
BY DEF Tells, KeptBut

\* The view of e changes, and nothing is sent.
LEMMA ViewTells ==
    ASSUME NEW c, NEW s, Typed(c, s), NEW e, NEW t, IsHandle(t), t.wire = s.wire, t.cut = s.cut,
           t.flag = s.flag, t.due = s.due, \A x \in Entities : x # e =>
               /\ x \in t.view <=> x \in s.view
               /\ x \in t.given <=> x \in s.given
               /\ x \in t.stray <=> x \in s.stray
               /\ x \in t.lossy <=> x \in s.lossy
               /\ x \in t.unseen <=> x \in s.unseen
    PROVE  Tells(c, s, t, e) /\ Level(c, s, t) /\ Will(c, t) = Will(c, s) /\ (Lost(t) <=> Lost(s))
<1>1. Will(c, t) = Will(c, s) /\ (Lost(t) <=> Lost(s)) /\ s.wire \in Seq(Frames)
    BY DEF Will, Lost, Typed
<1>2. Sends(c, s, t) /\ Level(c, s, t)
    BY <1>1 DEF Sends, Level
<1>3. KeptBut(c, s, t, e)
    BY <1>1 DEF KeptBut, Kept
<1> QED
    BY <1>1, <1>2, <1>3 DEF Tells

LEMMA FullTells ==
    ASSUME NEW c, NEW s, Typed(c, s), NEW e \in Entities, NEW p \in Int, NEW t, t = SendFull(s, e, p)
    PROVE  /\ Tells(c, s, t, e) /\ Level(c, s, t)
           /\ \A q : Fits(c, s, e, "entity", q) => Fits(c, t, e, "entity", p)
<1> DEFINE s1 == Emit(s, <<"begin">>)
           s2 == Emit(s1, <<"add", e>>)
           s3 == Emit(s2, <<"update", e, p>>)
           s4 == Emit(s3, <<"end">>)
           s5 == [s4 EXCEPT !.view = @ \cup {e}]
           s6 == Emit(s5, <<"authority", e>>)
<1>0. t = s5 \/ t = s6
    BY Zenon DEF SendFull
<1>1. /\ Sends(c, s, s1) /\ (\A x : Kept(c, s, s1, x))
      /\ ~Lost(s1) => Will(c, s1).depth = Will(c, s).depth + 1
    BY EmitMark DEF Marks
<1> HIDE DEF s1
<1>2. Typed(c, s1) /\ Tells(c, s, s1, e)
    BY <1>1, SendsTyped, MarkTells
<1>3. /\ Tells(c, s1, s2, e) /\ Level(c, s1, s2)
      /\ ~Lost(s2) =>
            /\ e \in DOMAIN Will(c, s2).rows /\ Will(c, s2).rows[e] = Row(Will(c, s1), e)
            /\ s2.view = s1.view /\ s2.given = s1.given /\ s2.unseen = s1.unseen
            /\ e \notin s2.stray
    BY <1>2, EmitAdd
<1> HIDE DEF s2
<1>4. Typed(c, s2)
    BY <1>2, <1>3, SendsTyped DEF Tells
<1>5. /\ Tells(c, s2, s3, e) /\ Level(c, s2, s3)
      /\ ~Lost(s3) =>
            /\ s3.view = s2.view /\ s3.given = s2.given /\ s3.unseen = s2.unseen
            /\ s3.stray = s2.stray
            /\ \/ Will(c, s3) = Will(c, s2) /\ e \in s3.lossy
               \/ /\ e \in DOMAIN Will(c, s3).rows
                  /\ Will(c, s3).rows[e] = [Row(Will(c, s2), e) EXCEPT !.pos = p]
    BY <1>4, EmitUpdate
<1> HIDE DEF s3
<1>6. Typed(c, s3)
    BY <1>4, <1>5, SendsTyped DEF Tells
<1>7. /\ Sends(c, s3, s4) /\ (\A x : Kept(c, s3, s4, x))
      /\ ~Lost(s4) => Will(c, s4).depth = IF Will(c, s3).depth = 0 THEN 0 ELSE Will(c, s3).depth - 1
    BY <1>6, EmitMark DEF Marks
<1> HIDE DEF s4
<1>8. Typed(c, s4) /\ Tells(c, s3, s4, e)
    BY <1>6, <1>7, SendsTyped, MarkTells
<1>9. /\ IsHandle(s5) /\ s5.wire = s4.wire /\ s5.cut = s4.cut /\ s5.flag = s4.flag
      /\ s5.due = s4.due /\ s5.view = s4.view \cup {e} /\ s5.given = s4.given
      /\ s5.stray = s4.stray /\ s5.lossy = s4.lossy /\ s5.unseen = s4.unseen
    BY <1>8 DEF Typed, IsHandle, Fields
<1> HIDE DEF s5
<1>10. Tells(c, s4, s5, e) /\ Level(c, s4, s5) /\ Will(c, s5) = Will(c, s4) /\ (Lost(s5) <=> Lost(s4))
    BY <1>8, <1>9, ViewTells
<1>11. Typed(c, s5)
    BY <1>8, <1>10, SendsTyped DEF Tells
<1>12. /\ Tells(c, s5, s6, e) /\ Level(c, s5, s6)
       /\ ~Lost(s6) =>
            /\ e \in DOMAIN Will(c, s6).rows /\ Will(c, s6).rows[e] = Row(Will(c, s5), e)
            /\ s6.view = s5.view /\ s6.given = s5.given /\ s6.lossy = s5.lossy
            /\ s6.unseen = s5.unseen
            /\ e \in s6.stray <=> e \in s5.stray \/ e \notin s5.view
    BY <1>11, EmitAuthority
<1> HIDE DEF s6
<1>13. Tells(c, s, s5, e) /\ Tells(c, s, s6, e)
    BY <1>2, <1>3, <1>5, <1>8, <1>10, <1>12, TellsTells
<1>14. Level(c, s, s5) /\ Level(c, s, s6)
    <2>1. /\ Lost(s1) => Lost(s2)
          /\ Lost(s2) => Lost(s3)
          /\ Lost(s3) => Lost(s4)
          /\ Lost(s4) => Lost(s5)
          /\ Lost(s5) => Lost(s6)
        BY <1>3, <1>5, <1>8, <1>10, <1>12 DEF Tells, Sends
    <2>2. Will(c, s).depth \in Nat
        BY WillType DEF ClientType
    <2>3. ~Lost(s5) => Will(c, s5).depth = Will(c, s).depth
        BY <1>1, <1>3, <1>5, <1>7, <1>10, <2>1, <2>2 DEF Level
    <2> QED
        BY <1>12, <2>1, <2>3 DEF Level
<1>15. ASSUME NEW q, Fits(c, s, e, "entity", q), ~Lost(s5)
       PROVE  LET r == Will(c, s5).rows IN
              /\ e \in DOMAIN r /\ e \in s5.view /\ e \notin s5.stray
              /\ e \notin s5.unseen => ~r[e].ghost
              /\ e \notin s5.lossy => r[e].pos = p
    <2>1. ~Lost(s4) /\ ~Lost(s3) /\ ~Lost(s2) /\ ~Lost(s1) /\ ~Lost(s)
        BY <1>1, <1>3, <1>5, <1>8, <1>10, <1>15 DEF Tells, Sends
    <2> DEFINE d == Will(c, s)
               d1 == Will(c, s1)
               d2 == Will(c, s2)
               d3 == Will(c, s3)
               d4 == Will(c, s4)
    <2>2. d \in ClientType /\ d1 \in ClientType /\ d2 \in ClientType /\ d3 \in ClientType
        BY <1>2, <1>4, <1>6, WillType
    <2>3. e \in DOMAIN d.rows /\ e \notin s.unseen => ~d.rows[e].ghost
        BY <1>15, <2>1 DEF Fits
    <2>4. /\ e \in DOMAIN d1.rows <=> e \in DOMAIN d.rows
          /\ e \in DOMAIN d.rows => d1.rows[e] = d.rows[e]
          /\ e \in s1.unseen <=> e \in s.unseen
        BY <1>1, <2>1 DEF Kept
    <2>5. /\ e \in DOMAIN d2.rows /\ d2.rows[e] = Row(d1, e)
          /\ s2.unseen = s1.unseen /\ e \notin s2.stray
        BY <1>3, <2>1
    <2>6. /\ s3.unseen = s2.unseen /\ s3.stray = s2.stray
          /\ \/ d3 = d2 /\ e \in s3.lossy
             \/ e \in DOMAIN d3.rows /\ d3.rows[e] = [Row(d2, e) EXCEPT !.pos = p]
        BY <1>5, <2>1
    <2>7. /\ e \in DOMAIN d4.rows <=> e \in DOMAIN d3.rows
          /\ e \in DOMAIN d3.rows => d4.rows[e] = d3.rows[e]
          /\ e \in s4.unseen <=> e \in s3.unseen
          /\ e \in s4.stray <=> e \in s3.stray
          /\ e \in s4.lossy <=> e \in s3.lossy
        BY <1>7, <2>1 DEF Kept
    <2>8. Will(c, s5) = d4
        BY <1>10
    <2> HIDE DEF d, d1, d2, d3, d4
    <2>9. e \notin s2.unseen => ~d2.rows[e].ghost
        <3>1. /\ e \in DOMAIN d1.rows => Row(d1, e) = d1.rows[e]
              /\ e \notin DOMAIN d1.rows => ~Row(d1, e).ghost
            BY <2>2, RowHas
        <3>2. e \in s2.unseen <=> e \in s.unseen
            BY <2>4, <2>5
        <3> QED
            BY <2>3, <2>4, <2>5, <3>1, <3>2
    <2>10. /\ e \in DOMAIN d3.rows
           /\ e \notin s3.unseen => ~d3.rows[e].ghost
           /\ e \notin s3.lossy => d3.rows[e].pos = p
        <3>1. CASE d3 = d2 /\ e \in s3.lossy
            BY <2>5, <2>6, <2>9, <3>1
        <3>2. CASE e \in DOMAIN d3.rows /\ d3.rows[e] = [Row(d2, e) EXCEPT !.pos = p]
            <4>1. /\ [Row(d2, e) EXCEPT !.pos = p].pos = p
                  /\ [Row(d2, e) EXCEPT !.pos = p].ghost = Row(d2, e).ghost
                  /\ Row(d2, e) = d2.rows[e]
                <5>1. Row(d2, e) = d2.rows[e] /\ Row(d2, e) \in RowType
                    BY <2>2, <2>5, RowHas
                <5> QED
                    BY <5>1 DEF RowType
            <4> QED
                BY <2>6, <2>9, <3>2, <4>1
        <3> QED
            BY <2>6, <3>1, <3>2
    <2> QED
        BY <1>9, <2>5, <2>6, <2>7, <2>8, <2>10
<1>16. ASSUME NEW q, Fits(c, s, e, "entity", q) PROVE Fits(c, s5, e, "entity", p)
    BY <1>15, <1>16 DEF Fits
<1>17. ASSUME NEW q, Fits(c, s, e, "entity", q) PROVE Fits(c, s6, e, "entity", p)
    <2>1. SUFFICES ASSUME ~Lost(s6) PROVE Fits(c, s6, e, "entity", p)
        BY DEF Fits
    <2>2. ~Lost(s5)
        BY <1>12, <2>1 DEF Tells, Sends
    <2> DEFINE r == Will(c, s5).rows
    <2>3. /\ e \in DOMAIN r /\ e \in s5.view /\ e \notin s5.stray
          /\ e \notin s5.unseen => ~r[e].ghost
          /\ e \notin s5.lossy => r[e].pos = p
        BY <1>15, <1>17, <2>2
    <2>4. Row(Will(c, s5), e) = r[e]
        BY <2>3 DEF Row
    <2>5. /\ e \in DOMAIN Will(c, s6).rows /\ Will(c, s6).rows[e] = r[e]
          /\ e \in s6.view /\ e \notin s6.stray
          /\ s6.unseen = s5.unseen /\ s6.lossy = s5.lossy
        BY <1>12, <2>1, <2>3, <2>4
    <2> HIDE DEF r
    <2> QED
        BY <2>3, <2>5 DEF Fits
<1> QED
    BY <1>0, <1>13, <1>14, <1>16, <1>17

LEMMA GhostTells ==
    ASSUME NEW c, NEW s, Typed(c, s), NEW e \in Entities, NEW p \in Int, NEW t, t = SendGhost(s, e, p)
    PROVE  /\ Tells(c, s, t, e) /\ Level(c, s, t)
           /\ Fits(c, t, e, "ghost", p)
<1> DEFINE s1 == Emit(s, <<"begin">>)
           s2 == Emit(s1, <<"add", e>>)
           s0 == Emit(s2, <<"ghost", e>>)
           s3 == Emit(s0, <<"update", e, p>>)
           s4 == Emit(s3, <<"end">>)
           s5 == [s4 EXCEPT !.view = @ \cup {e}]
<1>1. t = s5
    BY Zenon DEF SendGhost
<1>2. /\ Sends(c, s, s1) /\ (\A x : Kept(c, s, s1, x))
      /\ ~Lost(s1) => Will(c, s1).depth = Will(c, s).depth + 1
    BY EmitMark DEF Marks
<1> HIDE DEF s1
<1>3. Typed(c, s1) /\ Tells(c, s, s1, e)
    BY <1>2, SendsTyped, MarkTells
<1>4. /\ Tells(c, s1, s2, e) /\ Level(c, s1, s2)
      /\ ~Lost(s2) =>
            /\ e \in DOMAIN Will(c, s2).rows /\ Will(c, s2).rows[e] = Row(Will(c, s1), e)
            /\ s2.view = s1.view /\ s2.given = s1.given /\ s2.unseen = s1.unseen
            /\ e \notin s2.stray
    BY <1>3, EmitAdd
<1> HIDE DEF s2
<1>5. Typed(c, s2)
    BY <1>3, <1>4, SendsTyped DEF Tells
<1>6. /\ Tells(c, s2, s0, e) /\ Level(c, s2, s0)
      /\ ~Lost(s0) =>
           /\ s0.view = s2.view /\ s0.given = s2.given /\ s0.stray = s2.stray
           /\ \/ Will(c, s0) = Will(c, s2) /\ e \in s0.unseen
              \/ /\ e \in DOMAIN Will(c, s0).rows /\ s0.unseen = s2.unseen
                 /\ Will(c, s0).rows[e].ghost
    BY <1>5, EmitGhost
<1> HIDE DEF s0
<1>7. Typed(c, s0)
    BY <1>5, <1>6, SendsTyped DEF Tells
<1>8. /\ Tells(c, s0, s3, e) /\ Level(c, s0, s3)
      /\ ~Lost(s3) =>
            /\ s3.view = s0.view /\ s3.given = s0.given /\ s3.unseen = s0.unseen
            /\ s3.stray = s0.stray
            /\ \/ Will(c, s3) = Will(c, s0) /\ e \in s3.lossy
               \/ /\ e \in DOMAIN Will(c, s3).rows
                  /\ Will(c, s3).rows[e] = [Row(Will(c, s0), e) EXCEPT !.pos = p]
    BY <1>7, EmitUpdate
<1> HIDE DEF s3
<1>9. Typed(c, s3)
    BY <1>7, <1>8, SendsTyped DEF Tells
<1>10. /\ Sends(c, s3, s4) /\ (\A x : Kept(c, s3, s4, x))
       /\ ~Lost(s4) => Will(c, s4).depth = IF Will(c, s3).depth = 0 THEN 0 ELSE Will(c, s3).depth - 1
    BY <1>9, EmitMark DEF Marks
<1> HIDE DEF s4
<1>11. Typed(c, s4) /\ Tells(c, s3, s4, e)
    BY <1>9, <1>10, SendsTyped, MarkTells
<1>12. /\ IsHandle(s5) /\ s5.wire = s4.wire /\ s5.cut = s4.cut /\ s5.flag = s4.flag
       /\ s5.due = s4.due /\ s5.view = s4.view \cup {e} /\ s5.given = s4.given
       /\ s5.stray = s4.stray /\ s5.lossy = s4.lossy /\ s5.unseen = s4.unseen
    BY <1>11 DEF Typed, IsHandle, Fields
<1> HIDE DEF s5
<1>13. Tells(c, s4, s5, e) /\ Level(c, s4, s5) /\ Will(c, s5) = Will(c, s4) /\ (Lost(s5) <=> Lost(s4))
    BY <1>11, <1>12, ViewTells
<1>14. Typed(c, s5)
    BY <1>11, <1>13, SendsTyped DEF Tells
<1>15. Tells(c, s, s5, e)
    BY <1>3, <1>4, <1>6, <1>8, <1>11, <1>13, TellsTells
<1>16. Level(c, s, s5)
    <2>1. /\ Lost(s1) => Lost(s2)
          /\ Lost(s2) => Lost(s0)
          /\ Lost(s0) => Lost(s3)
          /\ Lost(s3) => Lost(s4)
          /\ Lost(s4) => Lost(s5)
        BY <1>4, <1>6, <1>8, <1>11, <1>13 DEF Tells, Sends
    <2>2. Will(c, s).depth \in Nat
        BY WillType DEF ClientType
    <2> QED
        BY <1>2, <1>4, <1>6, <1>8, <1>10, <1>13, <2>1, <2>2 DEF Level
<1>17. ASSUME ~Lost(s5)
       PROVE  LET r == Will(c, s5).rows IN
              /\ e \in DOMAIN r /\ e \in s5.view /\ e \notin s5.stray
              /\ e \notin s5.unseen => r[e].ghost
              /\ e \notin s5.lossy => r[e].pos = p
    <2>1. ~Lost(s4) /\ ~Lost(s3) /\ ~Lost(s0) /\ ~Lost(s2)
        BY <1>6, <1>8, <1>11, <1>13, <1>17 DEF Tells, Sends
    <2> DEFINE d2 == Will(c, s2)
               d0 == Will(c, s0)
               d3 == Will(c, s3)
               d4 == Will(c, s4)
    <2>2. d0 \in ClientType /\ d2 \in ClientType
        BY <1>5, <1>7, WillType
    <2>3. e \in DOMAIN d2.rows /\ e \notin s2.stray
        BY <1>4, <2>1
    <2>4. /\ s0.stray = s2.stray
          /\ \/ d0 = d2 /\ e \in s0.unseen
             \/ e \in DOMAIN d0.rows /\ d0.rows[e].ghost
        BY <1>6, <2>1
    <2>5. /\ s3.unseen = s0.unseen /\ s3.stray = s0.stray
          /\ \/ d3 = d0 /\ e \in s3.lossy
             \/ e \in DOMAIN d3.rows /\ d3.rows[e] = [Row(d0, e) EXCEPT !.pos = p]
        BY <1>8, <2>1
    <2>6. /\ e \in DOMAIN d4.rows <=> e \in DOMAIN d3.rows
          /\ e \in DOMAIN d3.rows => d4.rows[e] = d3.rows[e]
          /\ e \in s4.unseen <=> e \in s3.unseen
          /\ e \in s4.stray <=> e \in s3.stray
          /\ e \in s4.lossy <=> e \in s3.lossy
        BY <1>10, <2>1 DEF Kept
    <2>7. Will(c, s5) = d4
        BY <1>13
    <2> HIDE DEF d2, d0, d3, d4
    <2>8. e \in DOMAIN d0.rows /\ (e \notin s0.unseen => d0.rows[e].ghost)
        BY <2>3, <2>4
    <2>9. /\ e \in DOMAIN d3.rows
          /\ e \notin s3.unseen => d3.rows[e].ghost
          /\ e \notin s3.lossy => d3.rows[e].pos = p
        <3>1. CASE d3 = d0 /\ e \in s3.lossy
            BY <2>5, <2>8, <3>1
        <3>2. CASE e \in DOMAIN d3.rows /\ d3.rows[e] = [Row(d0, e) EXCEPT !.pos = p]
            <4>1. Row(d0, e) = d0.rows[e] /\ Row(d0, e) \in RowType
                BY <2>2, <2>8, RowHas
            <4>2. /\ [Row(d0, e) EXCEPT !.pos = p].pos = p
                  /\ [Row(d0, e) EXCEPT !.pos = p].ghost = Row(d0, e).ghost
                BY <4>1 DEF RowType
            <4> QED
                BY <2>5, <2>8, <3>2, <4>1, <4>2
        <3> QED
            BY <2>5, <3>1, <3>2
    <2> QED
        BY <1>12, <2>3, <2>4, <2>5, <2>6, <2>7, <2>9
<1>18. Fits(c, s5, e, "ghost", p)
    BY <1>17 DEF Fits
<1> QED
    BY <1>1, <1>15, <1>16, <1>18

LEMMA RemoveTells ==
    ASSUME NEW c, NEW s, Typed(c, s), NEW e \in Entities, NEW t, t = SendRemove(s, e)
    PROVE  /\ Tells(c, s, t, e) /\ Level(c, s, t) /\ e \notin t.view
           /\ \A w, p : Fits(c, t, e, w, p)
<1> DEFINE u == Emit(s, <<"remove", e>>)
<1>1. t = [u EXCEPT !.view = @ \ {e}, !.given = @ \ {e}]
    BY DEF SendRemove
<1>2. /\ Tells(c, s, u, e) /\ Level(c, s, u)
      /\ ~Lost(u) => e \notin DOMAIN Will(c, u).rows /\ e \notin u.stray /\ e \notin u.unseen
    BY EmitRemove
<1> HIDE DEF u
<1>3. Typed(c, u)
    BY <1>2, SendsTyped DEF Tells
<1>4. /\ IsHandle(t) /\ t.wire = u.wire /\ t.cut = u.cut /\ t.flag = u.flag /\ t.due = u.due
      /\ t.view = u.view \ {e} /\ t.given = u.given \ {e}
      /\ t.stray = u.stray /\ t.lossy = u.lossy /\ t.unseen = u.unseen
    BY <1>1, <1>3 DEF Typed, IsHandle, Fields
<1>5. Tells(c, u, t, e) /\ Level(c, u, t) /\ Will(c, t) = Will(c, u) /\ (Lost(t) <=> Lost(u))
    BY <1>3, <1>4, ViewTells
<1>6. Tells(c, s, t, e)
    BY <1>2, <1>5, TellsTells
<1>7. Level(c, s, t)
    BY <1>2, <1>5 DEF Level
<1>8. \A w, p : Fits(c, t, e, w, p)
    BY <1>2, <1>4, <1>5 DEF Fits
<1> QED
    BY <1>4, <1>6, <1>7, <1>8

LEMMA RemoveFits ==
    ASSUME NEW c, NEW s, Typed(c, s), NEW e \in Entities, NEW t, t = RemoveFromView(s, e)
    PROVE  /\ Tells(c, s, t, e) /\ Level(c, s, t) /\ e \notin t.view
           /\ \A w, p, v, q : Fits(c, s, e, w, p) => Fits(c, t, e, v, q)
<1>1. CASE e \in s.view
    <2>1. t = SendRemove(s, e)
        BY <1>1 DEF RemoveFromView
    <2> QED
        BY <2>1, RemoveTells
<1>2. CASE e \notin s.view
    <2>1. t = s
        BY <1>2 DEF RemoveFromView
    <2> QED
        BY <1>2, <2>1, TellsSelf, FitsUnseen
<1> QED
    BY <1>1, <1>2

LEMMA AuthorityFits ==
    ASSUME NEW c, NEW s, Typed(c, s), NEW e \in Entities, NEW t, t = Emit(s, <<"authority", e>>)
    PROVE  /\ Tells(c, s, t, e) /\ Level(c, s, t)
           /\ \A w, p : Fits(c, s, e, w, p) => Fits(c, t, e, w, p)
<1>1. /\ Tells(c, s, t, e) /\ Level(c, s, t)
      /\ ~Lost(t) =>
            /\ e \in DOMAIN Will(c, t).rows /\ Will(c, t).rows[e] = Row(Will(c, s), e)
            /\ t.view = s.view /\ t.given = s.given /\ t.lossy = s.lossy
            /\ t.unseen = s.unseen
            /\ e \in t.stray <=> e \in s.stray \/ e \notin s.view
    BY EmitAuthority
<1>2. ASSUME NEW w, NEW p, Fits(c, s, e, w, p), ~Lost(t) PROVE Fits(c, t, e, w, p)
    <2> DEFINE d == Will(c, s)
    <2>1. ~Lost(s)
        BY <1>1, <1>2 DEF Tells, Sends
    <2>2. /\ e \in DOMAIN d.rows => Row(d, e) = d.rows[e]
          /\ e \notin DOMAIN d.rows => ~Row(d, e).ghost
        <3>1. d \in ClientType
            BY WillType
        <3> QED
            BY <3>1, RowHas
    <2>3. /\ e \notin s.stray => (e \in DOMAIN d.rows <=> e \in s.view)
          /\ e \in DOMAIN d.rows /\ e \notin s.unseen =>
                 (d.rows[e].ghost <=> e \notin s.stray /\ w = "ghost")
          /\ (/\ e \in s.view /\ e \notin s.stray /\ e \notin s.lossy
              /\ e \notin s.given /\ e \notin s.unseen /\ p # None) => d.rows[e].pos = p
        BY <1>2, <2>1 DEF Fits
    <2>4. /\ e \in DOMAIN Will(c, t).rows /\ Will(c, t).rows[e] = Row(d, e)
          /\ t.view = s.view /\ t.given = s.given /\ t.lossy = s.lossy
          /\ t.unseen = s.unseen
          /\ e \in t.stray <=> e \in s.stray \/ e \notin s.view
        BY <1>1, <1>2
    <2> HIDE DEF d
    <2>5. e \notin t.stray => (e \in DOMAIN Will(c, t).rows <=> e \in t.view)
        BY <2>4
    <2>6. e \in DOMAIN Will(c, t).rows /\ e \notin t.unseen =>
                 (Will(c, t).rows[e].ghost <=> e \notin t.stray /\ w = "ghost")
        BY <2>2, <2>3, <2>4
    <2>7. (/\ e \in t.view /\ e \notin t.stray /\ e \notin t.lossy
           /\ e \notin t.given /\ e \notin t.unseen /\ p # None) => Will(c, t).rows[e].pos = p
        BY <2>2, <2>3, <2>4
    <2> QED
        BY <2>5, <2>6, <2>7, Zenon DEF Fits
<1>3. ASSUME NEW w, NEW p, Fits(c, s, e, w, p), Lost(t) PROVE Fits(c, t, e, w, p)
    BY <1>3 DEF Fits
<1> QED
    BY <1>1, <1>2, <1>3

\* An update of what is in the view.
LEMMA UpdateFits ==
    ASSUME NEW c, NEW s, Typed(c, s), NEW e \in Entities, NEW p \in Int, e \in s.view,
           NEW t, t = Emit(s, <<"update", e, p>>)
    PROVE  /\ Tells(c, s, t, e) /\ Level(c, s, t)
           /\ \A w, q : Fits(c, s, e, w, q) => Fits(c, t, e, w, p)
<1>1. /\ Tells(c, s, t, e) /\ Level(c, s, t)
      /\ ~Lost(t) =>
            /\ t.view = s.view /\ t.given = s.given /\ t.unseen = s.unseen /\ t.stray = s.stray
            /\ \/ Will(c, t) = Will(c, s) /\ e \in t.lossy
               \/ /\ e \in DOMAIN Will(c, t).rows
                  /\ Will(c, t).rows[e] = [Row(Will(c, s), e) EXCEPT !.pos = p]
    BY EmitUpdate
<1>2. ASSUME NEW w, NEW q, Fits(c, s, e, w, q), ~Lost(t) PROVE Fits(c, t, e, w, p)
    <2> DEFINE d == Will(c, s)
               u == Will(c, t)
    <2>1. ~Lost(s)
        BY <1>1, <1>2 DEF Tells, Sends
    <2>2. /\ e \in DOMAIN d.rows => Row(d, e) = d.rows[e]
          /\ e \notin DOMAIN d.rows => ~Row(d, e).ghost
          /\ Row(d, e) \in RowType
        <3>1. d \in ClientType
            BY WillType
        <3> QED
            BY <3>1, RowHas
    <2>3. /\ e \notin s.stray => (e \in DOMAIN d.rows <=> e \in s.view)
          /\ e \in DOMAIN d.rows /\ e \notin s.unseen =>
                 (d.rows[e].ghost <=> e \notin s.stray /\ w = "ghost")
        BY <1>2, <2>1 DEF Fits
    <2>4. /\ t.view = s.view /\ t.given = s.given /\ t.unseen = s.unseen /\ t.stray = s.stray
          /\ \/ u = d /\ e \in t.lossy
             \/ e \in DOMAIN u.rows /\ u.rows[e] = [Row(d, e) EXCEPT !.pos = p]
        BY <1>1, <1>2
    <2> HIDE DEF d, u
    <2>5. CASE u = d /\ e \in t.lossy
        BY <2>3, <2>4, <2>5, Zenon DEF Fits, u
    <2>6. CASE e \in DOMAIN u.rows /\ u.rows[e] = [Row(d, e) EXCEPT !.pos = p]
        <3>1. u.rows[e].pos = p /\ (u.rows[e].ghost <=> Row(d, e).ghost)
            BY <2>2, <2>6 DEF RowType
        <3>2. e \in DOMAIN u.rows /\ e \notin t.unseen =>
                 (u.rows[e].ghost <=> e \notin t.stray /\ w = "ghost")
            BY <2>2, <2>3, <2>4, <3>1
        <3> QED
            BY <2>4, <2>6, <3>1, <3>2, Zenon DEF Fits, u
    <2> QED
        BY <2>4, <2>5, <2>6
<1>3. ASSUME NEW w, NEW q, Fits(c, s, e, w, q), Lost(t) PROVE Fits(c, t, e, w, p)
    BY <1>3 DEF Fits
<1> QED
    BY <1>1, <1>2, <1>3

\* Marking the last value of e as not sent.
LEMMA LossyFits ==
    ASSUME NEW c, NEW s, Typed(c, s), NEW e \in Entities
    PROVE  LET t == [s EXCEPT !.lossy = @ \cup {e}] IN
           /\ Tells(c, s, t, e) /\ Level(c, s, t)
           /\ \A w, q, p : Fits(c, s, e, w, q) => Fits(c, t, e, w, p)
<1> DEFINE t == [s EXCEPT !.lossy = @ \cup {e}]
<1>1. /\ IsHandle(t) /\ t.wire = s.wire /\ t.cut = s.cut /\ t.flag = s.flag /\ t.due = s.due
      /\ t.view = s.view /\ t.given = s.given
      /\ t.stray = s.stray /\ t.lossy = s.lossy \cup {e} /\ t.unseen = s.unseen
    BY DEF Typed, IsHandle, Fields
<1> HIDE DEF t
<1>2. Tells(c, s, t, e) /\ Level(c, s, t) /\ Will(c, t) = Will(c, s) /\ (Lost(t) <=> Lost(s))
    BY <1>1, ViewTells
<1>3. \A w, q, p : Fits(c, s, e, w, q) => Fits(c, t, e, w, p)
    BY <1>1, <1>2 DEF Fits
<1> QED
    BY <1>2, <1>3 DEF t

LEMMA QuantizeType == ASSUME NEW p \in Int, NEW g \in Nat \ {0} PROVE Quantize(p, g) \in Int
<1>1. (2 * p + g) \div (2 * g) \in Int
    <2>1. 2 * p + g \in Int /\ 2 * g \in Nat \ {0}
        OBVIOUS
    <2> QED
        BY <2>1
<1> QED
    BY <1>1 DEF Quantize

LEMMA SendUpdateFits ==
    ASSUME NEW c, NEW s, Typed(c, s), s.aoi \in AreaType, NEW e \in Entities, NEW p \in Int,
           e \in s.view, NEW t, t = SendUpdate(s, e, p)
    PROVE  /\ Tells(c, s, t, e) /\ Level(c, s, t)
           /\ \A w, q : Fits(c, s, e, w, q) => Fits(c, t, e, w, p)
<1> DEFINE next == [s EXCEPT !.seq[e] = (@ + 1) % s.aoi.rate]
           v == Quantize(p, s.aoi.coarse)
           sent == Emit(next, <<"update", e, v>>)
           skip == [next EXCEPT !.lossy = @ \cup {e}]
           near == [sent EXCEPT !.lossy = @ \cup {e}]
<1>1. \/ t = Emit(s, <<"update", e, p>>)
      \/ t = skip
      \/ t = sent /\ v = p
      \/ t = near
    BY Zenon DEF SendUpdate
<1>2. v \in Int
    BY QuantizeType DEF AreaType
<1>3. /\ IsHandle(next) /\ next.wire = s.wire /\ next.cut = s.cut /\ next.flag = s.flag
      /\ next.due = s.due /\ next.view = s.view /\ next.given = s.given
      /\ next.stray = s.stray /\ next.lossy = s.lossy /\ next.unseen = s.unseen
    BY DEF Typed, IsHandle, Fields
<1> HIDE DEF next, v
<1>4. Tells(c, s, next, e) /\ Level(c, s, next) /\ Will(c, next) = Will(c, s) /\ (Lost(next) <=> Lost(s))
    BY <1>3, ViewTells
<1>5. Typed(c, next)
    BY <1>4, SendsTyped DEF Tells
<1>6. \A w, q : Fits(c, s, e, w, q) => Fits(c, next, e, w, q)
    BY <1>3, <1>4, Zenon DEF Fits
<1>7. /\ Tells(c, next, skip, e) /\ Level(c, next, skip)
      /\ \A w, q : Fits(c, next, e, w, q) => Fits(c, skip, e, w, p)
    BY <1>5, LossyFits
<1>8. /\ Tells(c, next, sent, e) /\ Level(c, next, sent)
      /\ \A w, q : Fits(c, next, e, w, q) => Fits(c, sent, e, w, v)
    BY <1>2, <1>3, <1>5, UpdateFits
<1> HIDE DEF skip, sent
<1>9. Typed(c, sent)
    BY <1>8, <1>5, SendsTyped DEF Tells
<1>10. /\ Tells(c, sent, near, e) /\ Level(c, sent, near)
       /\ \A w, q : Fits(c, sent, e, w, q) => Fits(c, near, e, w, p)
    BY <1>9, LossyFits
<1> HIDE DEF near
<1>11. Tells(c, s, skip, e) /\ Tells(c, s, sent, e) /\ Tells(c, s, near, e)
    BY <1>4, <1>7, <1>8, <1>10, TellsTells
<1>12. /\ Lost(next) => Lost(sent)
       /\ Lost(sent) => Lost(near)
    BY <1>8, <1>10 DEF Tells, Sends
<1>13. Level(c, s, skip) /\ Level(c, s, sent) /\ Level(c, s, near)
    BY <1>4, <1>7, <1>8, <1>10, <1>12 DEF Level, Tells, Sends
<1>14. \A w, q : Fits(c, s, e, w, q) => Fits(c, skip, e, w, p) /\ Fits(c, near, e, w, p)
    BY <1>6, <1>7, <1>8, <1>10
<1>15. v = p => \A w, q : Fits(c, s, e, w, q) => Fits(c, sent, e, w, p)
    BY <1>6, <1>8
<1>16. CASE t = Emit(s, <<"update", e, p>>)
    BY <1>16, UpdateFits
<1> QED
    BY <1>1, <1>11, <1>13, <1>14, <1>15, <1>16

LEMMA PropagateToFits ==
    ASSUME NEW c, NEW s, Typed(c, s), s.aoi \in AreaType, NEW e \in Entities, NEW p \in Int,
           NEW t, t = PropagateTo(s, e, p)
    PROVE  /\ Tells(c, s, t, e) /\ Level(c, s, t)
           /\ \A q : Fits(c, s, e, "entity", q) => Fits(c, t, e, "entity", p)
<1>1. CASE Visible(s, e, p) /\ e \notin s.view
    <2>1. t = SendFull(s, e, p)
        BY <1>1 DEF PropagateTo
    <2> QED
        BY <2>1, FullTells
<1>2. CASE Visible(s, e, p) /\ e \in s.view
    <2>1. t = SendUpdate(s, e, p) /\ e \in s.view
        BY <1>2 DEF PropagateTo
    <2> QED
        BY <2>1, SendUpdateFits
<1>3. CASE ~Visible(s, e, p) /\ e \in s.view
    <2>1. t = SendRemove(s, e)
        BY <1>3 DEF PropagateTo
    <2> QED
        BY <2>1, RemoveTells
<1>4. CASE ~Visible(s, e, p) /\ e \notin s.view
    <2>1. t = s /\ e \notin s.view
        BY <1>4 DEF PropagateTo
    <2> QED
        BY <2>1, TellsSelf, FitsUnseen
<1> QED
    BY <1>1, <1>2, <1>3, <1>4

LEMMA GhostToFits ==
    ASSUME NEW c, NEW s, Typed(c, s), NEW e \in Entities, NEW p \in Int, NEW first,
           NEW t, t = GhostTo(s, e, p, first)
    PROVE  /\ Tells(c, s, t, e) /\ Level(c, s, t)
           /\ (first => e \notin s.view) =>
                  \A q : Fits(c, s, e, "ghost", q) => Fits(c, t, e, "ghost", p)
<1>1. CASE Visible(s, e, p) /\ e \notin s.view
    <2>1. t = SendGhost(s, e, p)
        BY <1>1 DEF GhostTo
    <2> QED
        BY <2>1, GhostTells
<1>2. CASE Visible(s, e, p) /\ e \in s.view
    <2>1. \/ first /\ t = s
          \/ ~first /\ t = Emit(s, <<"update", e, p>>)
        BY <1>2, Zenon DEF GhostTo
    <2>2. CASE first /\ t = s
        BY <1>2, <2>2, TellsSelf
    <2>3. CASE ~first /\ t = Emit(s, <<"update", e, p>>)
        <3>1. t = Emit(s, <<"update", e, p>>) /\ e \in s.view
            BY <1>2, <2>3
        <3> QED
            BY <3>1, UpdateFits
    <2> QED
        BY <2>1, <2>2, <2>3
<1>3. CASE ~Visible(s, e, p) /\ e \in s.view
    <2>1. t = SendRemove(s, e)
        BY <1>3 DEF GhostTo
    <2> QED
        BY <2>1, RemoveTells
<1>4. CASE ~Visible(s, e, p) /\ e \notin s.view
    <2>1. t = s /\ e \notin s.view
        BY <1>4 DEF GhostTo
    <2> QED
        BY <2>1, TellsSelf, FitsUnseen
<1> QED
    BY <1>1, <1>2, <1>3, <1>4

\* send_full, and the authority that goes with it or not.
LEMMA GrantFits ==
    ASSUME NEW c, NEW s, Typed(c, s), NEW e \in Entities, NEW p \in Int,
           NEW seen, seen = SendFull(s, e, p), NEW t, t = seen \/ t = Emit(seen, <<"authority", e>>)
    PROVE  /\ Tells(c, s, t, e) /\ Level(c, s, t)
           /\ \A q : Fits(c, s, e, "entity", q) => Fits(c, t, e, "entity", p)
<1>1. /\ Tells(c, s, seen, e) /\ Level(c, s, seen)
      /\ \A q : Fits(c, s, e, "entity", q) => Fits(c, seen, e, "entity", p)
    BY FullTells
<1>2. CASE t = seen
    BY <1>1, <1>2
<1>3. CASE t = Emit(seen, <<"authority", e>>)
    <2>1. Typed(c, seen)
        BY <1>1, SendsTyped DEF Tells
    <2>2. /\ Tells(c, seen, t, e) /\ Level(c, seen, t)
          /\ \A w, q : Fits(c, seen, e, w, q) => Fits(c, t, e, w, q)
        BY <1>3, <2>1, AuthorityFits
    <2>3. Tells(c, s, t, e)
        BY <1>1, <2>2, TellsTells
    <2>4. Level(c, s, t)
        BY <1>1, <2>2 DEF Level, Tells, Sends
    <2> QED
        BY <1>1, <2>2, <2>3, <2>4
<1> QED
    BY <1>2, <1>3

LEMMA SpawnToFits ==
    ASSUME NEW c, NEW s, Typed(c, s), NEW e \in Entities, NEW p \in Int, NEW w,
           NEW t, t = SpawnTo(w, s, e, p)
    PROVE  /\ Tells(c, s, t, e) /\ Level(c, s, t)
           /\ e \notin s.view => \A v, q : Fits(c, s, e, v, q) => Fits(c, t, e, "entity", p)
<1> DEFINE seen == SendFull(s, e, p)
<1>1. \/ t = s
      \/ t = seen \/ t = Emit(seen, <<"authority", e>>)
    BY Zenon DEF SpawnTo
<1> HIDE DEF seen
<1>2. CASE t = s
    BY <1>2, TellsSelf, FitsUnseen
<1>3. CASE t = seen \/ t = Emit(seen, <<"authority", e>>)
    <2>1. /\ Tells(c, s, t, e) /\ Level(c, s, t)
          /\ \A q : Fits(c, s, e, "entity", q) => Fits(c, t, e, "entity", p)
        BY <1>3, GrantFits DEF seen
    <2> QED
        BY <2>1, FitsUnseen
<1> QED
    BY <1>1, <1>2, <1>3

LEMMA CheckoutFits ==
    ASSUME NEW c, NEW s, Typed(c, s), NEW e \in Entities, ents[e].pos \in Int, NEW w,
           NEW t, t = CheckoutTo(s, w, e)
    PROVE  /\ Tells(c, s, t, e) /\ Level(c, s, t)
           /\ \A q : Fits(c, s, e, "entity", q) => Fits(c, t, e, "entity", ents[e].pos)
<1> DEFINE seen == SendFull(s, e, ents[e].pos)
<1>1. t = seen \/ t = Emit(seen, <<"authority", e>>)
    BY Zenon DEF CheckoutTo
<1> HIDE DEF seen
<1> QED
    BY <1>1, GrantFits DEF seen

LEMMA ReconcileFits ==
    ASSUME NEW c, NEW s, Typed(c, s), NEW e \in Entities, ents[e].pos \in Int,
           NEW t, t = ReconcileTo(s, e)
    PROVE  /\ Tells(c, s, t, e) /\ Level(c, s, t)
           /\ \A q : q \in {ents[e].pos, None} /\ Fits(c, s, e, "entity", q) => Fits(c, t, e, "entity", q)
<1> DEFINE p == ents[e].pos
<1>1. t = SendFull(s, e, p) \/ t = SendRemove(s, e) \/ t = s
    BY Zenon DEF ReconcileTo
<1> HIDE DEF p
<1>2. p \in Int
    BY DEF p
<1>3. CASE t = SendFull(s, e, p)
    <2>1. /\ Tells(c, s, t, e) /\ Level(c, s, t)
          /\ \A q : Fits(c, s, e, "entity", q) => Fits(c, t, e, "entity", p)
        BY <1>2, <1>3, FullTells
    <2> QED
        BY <2>1, FitsNowhere DEF p
<1>4. CASE t = SendRemove(s, e)
    BY <1>4, RemoveTells
<1>5. CASE t = s
    BY <1>5, TellsSelf
<1> QED
    BY <1>1, <1>3, <1>4, <1>5

\* What an entity was handed with may be stale, and so may the rest that waits for it.
LEMMA HandOverFits ==
    ASSUME NEW ps, NEW w \in Peers, NEW c, Typed(c, ps[w]), NEW e \in Entities, NEW p \in Int,
           NEW from, NEW to, NEW t, t = HandOver(ps, e, p, from, to)[w]
    PROVE  /\ Tells(c, ps[w], t, e) /\ Level(c, ps[w], t)
           /\ \A q : Fits(c, ps[w], e, "entity", q) => Fits(c, t, e, "entity", q)
<1> DEFINE s == ps[w]
           full == SendFull(s, e, p)
           gave == [full EXCEPT !.given = @ \cup {e}]
<1>1. t = s \/ t = Emit(s, <<"authority", e>>) \/ t = Emit(gave, <<"authority", e>>)
    BY Zenon DEF HandOver
<1>2. Typed(c, s)
    OBVIOUS
<1> HIDE DEF s
<1>3. /\ Tells(c, s, full, e) /\ Level(c, s, full)
      /\ \A q : Fits(c, s, e, "entity", q) => Fits(c, full, e, "entity", p)
    BY <1>2, FullTells
<1> HIDE DEF full
<1>4. Typed(c, full)
    BY <1>2, <1>3, SendsTyped DEF Tells
<1>5. /\ IsHandle(gave) /\ gave.wire = full.wire /\ gave.cut = full.cut /\ gave.flag = full.flag
      /\ gave.due = full.due /\ gave.view = full.view /\ gave.given = full.given \cup {e}
      /\ gave.stray = full.stray /\ gave.lossy = full.lossy /\ gave.unseen = full.unseen
    BY <1>4 DEF Typed, IsHandle, Fields
<1> HIDE DEF gave
<1>6. Tells(c, full, gave, e) /\ Level(c, full, gave) /\ Will(c, gave) = Will(c, full)
      /\ (Lost(gave) <=> Lost(full))
    BY <1>4, <1>5, ViewTells
<1>7. \A q : Fits(c, full, e, "entity", p) => Fits(c, gave, e, "entity", q)
    BY <1>5, <1>6 DEF Fits
<1>8. Typed(c, gave)
    BY <1>4, <1>6, SendsTyped DEF Tells
<1>9. CASE t = Emit(s, <<"authority", e>>)
    BY <1>2, <1>9, AuthorityFits DEF s
<1>10. CASE t = s
    BY <1>2, <1>10, TellsSelf DEF s
<1>11. CASE t = Emit(gave, <<"authority", e>>)
    <2>1. /\ Tells(c, gave, t, e) /\ Level(c, gave, t)
          /\ \A v, q : Fits(c, gave, e, v, q) => Fits(c, t, e, v, q)
        BY <1>8, <1>11, AuthorityFits
    <2>2. Tells(c, s, t, e)
        BY <1>3, <1>6, <2>1, TellsTells
    <2>3. Level(c, s, t)
        BY <1>3, <1>6, <2>1 DEF Level, Tells, Sends
    <2>4. \A q : Fits(c, s, e, "entity", q) => Fits(c, t, e, "entity", q)
        BY <1>3, <1>7, <2>1
    <2> QED
        BY <2>2, <2>3, <2>4 DEF s
<1> QED
    BY <1>1, <1>9, <1>10, <1>11

(***************************************************************************)
(* Going through a set, for the consumer.                                  *)
(***************************************************************************)
\* What a handler that goes through entities keeps true of one: that it is shown where it is.
Stands(kind, x, what, p) ==
    kind \in {"checkout", "reconcile"} => what = "entity" /\ p \in {ents[x].pos, None}
Carries(kind, c, s, t, T, x) ==
    \A what, p : (x \in T => Stands(kind, x, what, p)) /\ Fits(c, s, x, what, p)
                     => Fits(c, t, x, what, p)
Carried(kind, c, s, t, T) ==
    Sends(c, s, t) /\ Level(c, s, t) /\ \A x \in Entities : Carries(kind, c, s, t, T, x)

LEMMA StepCarries ==
    ASSUME NEW kind \in Kinds, NEW w, NEW c, NEW s, Typed(c, s), NEW e \in Entities,
           kind \in {"checkout", "reconcile"} => ents[e].pos \in Int,
           NEW t, t = Step(kind, w, e, s)
    PROVE  /\ Tells(c, s, t, e) /\ Level(c, s, t)
           /\ \A what, p : Stands(kind, e, what, p) /\ Fits(c, s, e, what, p) => Fits(c, t, e, what, p)
<1>1. CASE kind = "checkout"
    <2>1. t = CheckoutTo(s, w, e) /\ ents[e].pos \in Int
        BY <1>1 DEF Step
    <2>2. /\ Tells(c, s, t, e) /\ Level(c, s, t)
          /\ \A q : Fits(c, s, e, "entity", q) => Fits(c, t, e, "entity", ents[e].pos)
        BY <2>1, CheckoutFits
    <2>3. \A what, p : Stands(kind, e, what, p) => what = "entity" /\ p \in {ents[e].pos, None}
        BY <1>1 DEF Stands
    <2> QED
        BY <2>2, <2>3, FitsNowhere
<1>2. CASE kind = "reconcile"
    <2>1. t = ReconcileTo(s, e) /\ ents[e].pos \in Int
        BY <1>2 DEF Step
    <2>2. /\ Tells(c, s, t, e) /\ Level(c, s, t)
          /\ \A q : q \in {ents[e].pos, None} /\ Fits(c, s, e, "entity", q) => Fits(c, t, e, "entity", q)
        BY <2>1, ReconcileFits
    <2>3. \A what, p : Stands(kind, e, what, p) => what = "entity" /\ p \in {ents[e].pos, None}
        BY <1>2 DEF Stands
    <2> QED
        BY <2>2, <2>3
<1>3. CASE kind = "remove"
    <2>1. t = RemoveFromView(s, e)
        BY <1>3 DEF Step
    <2> QED
        BY <2>1, RemoveFits
<1>4. CASE kind = "visual"
    <2>1. t = Emit(s, <<"visual", e>>)
        BY <1>4 DEF Step
    <2> DEFINE op == "visual"
    <2>2. op \in {"event", "visual"} /\ t = Emit(s, <<op, e>>)
        BY <2>1
    <2> HIDE DEF op
    <2>3. Sends(c, s, t) /\ Level(c, s, t) /\ \A x : Kept(c, s, t, x)
        BY <2>2, EmitEvent
    <2>4. Lost(s) => Lost(t)
        BY <2>3 DEF Sends
    <2>5. \A what, p : Fits(c, s, e, what, p) => Fits(c, t, e, what, p)
        BY <2>3, <2>4, FitsKept
    <2> QED
        BY <2>3, <2>5, MarkTells
<1> QED
    BY <1>1, <1>2, <1>3, <1>4 DEF Kinds

LEMMA GoesCarried ==
    ASSUME NEW kind \in Kinds, NEW w, NEW c, NEW base, Typed(c, base), NEW S \in SUBSET Entities,
           IsFiniteSet(S), NEW h, Goes(kind, w, base, h, S),
           kind \in {"checkout", "reconcile"} => \A e \in S : ents[e].pos \in Int
    PROVE  Carried(kind, c, base, h[S], S)
<1> DEFINE bad == {T \in SUBSET S : ~Carried(kind, c, base, h[T], T)}
           sizes == {Cardinality(T) : T \in bad}
<1>1. SUFFICES ASSUME bad # {} PROVE FALSE
    OBVIOUS
<1>2. sizes \subseteq Nat /\ sizes # {}
    BY <1>1, FS_Subset, FS_CardinalityType
<1>3. PICK n \in sizes : \A m \in sizes : n <= m
    <2> HIDE DEF sizes
    <2> QED
        BY <1>2, LeastExists
<1>4. PICK T \in bad : n = Cardinality(T)
    BY <1>3
<1>5. T \in SUBSET S /\ h[T] = After(kind, w, base, h, T) /\ ~Carried(kind, c, base, h[T], T)
    BY <1>4 DEF Goes
<1>6. CASE T = {}
    <2>1. h[T] = base
        BY <1>5, <1>6 DEF After
    <2>2. Sends(c, base, base) /\ Level(c, base, base)
        BY TellsSelf DEF Tells
    <2> QED
        BY <1>5, <2>1, <2>2 DEF Carried, Carries
<1>7. CASE T # {}
    <2> DEFINE e == Pick(kind, T)
               U == T \ {e}
    <2>1. /\ e \in T /\ U \in SUBSET S /\ Cardinality(T) \in Nat
          /\ Cardinality(U) = Cardinality(T) - 1
        <3>1. kind = "read" => \E k \in Nat : S \subseteq 1..k
            BY DEF Kinds
        <3>2. T \in SUBSET S
            BY <1>5
        <3>3. /\ Pick(kind, T) \in T /\ T \ {Pick(kind, T)} \in SUBSET S
              /\ Cardinality(T) \in Nat \ {0}
              /\ Cardinality(T \ {Pick(kind, T)}) = Cardinality(T) - 1
            BY <1>7, <3>1, <3>2, Smaller, Zenon
        <3> QED
            BY <3>3
    <2>2. Carried(kind, c, base, h[U], U)
        <3>1. U \in bad => Cardinality(U) \in sizes
            OBVIOUS
        <3> HIDE DEF sizes, U
        <3> QED
            BY <1>3, <1>4, <2>1, <3>1
    <2>3. h[T] = Step(kind, w, e, h[U])
        BY <1>5, <1>7 DEF After
    <2> DEFINE s == h[U]
               t == h[T]
    <2>4. Typed(c, s)
        BY <2>2, SendsTyped DEF Carried
    <2>5. e \in S /\ e \in Entities /\ T = U \cup {e} /\ t = Step(kind, w, e, s)
        BY <2>1, <2>3
    <2> HIDE DEF e, U, s, t
    <2>6. kind \in {"checkout", "reconcile"} => ents[e].pos \in Int
        BY <2>5
    <2>7. /\ Tells(c, s, t, e) /\ Level(c, s, t)
          /\ \A what, p : Stands(kind, e, what, p) /\ Fits(c, s, e, what, p) => Fits(c, t, e, what, p)
        BY <2>4, <2>5, <2>6, StepCarries
    <2>8. Sends(c, base, t) /\ Level(c, base, t) /\ (Lost(s) => Lost(t))
        BY <2>2, <2>7 DEF Carried, Tells, Sends, Level, s
    <2>9. ASSUME NEW x \in Entities PROVE Carries(kind, c, base, t, T, x)
        <3> SUFFICES ASSUME NEW what, NEW p, x \in T => Stands(kind, x, what, p), Fits(c, base, x, what, p)
                     PROVE  Fits(c, t, x, what, p)
            BY DEF Carries
        <3>1. Fits(c, s, x, what, p)
            BY <2>2, <2>5 DEF Carried, Carries, s
        <3>2. CASE x = e
            BY <2>5, <2>7, <3>1, <3>2
        <3>3. CASE x # e
            <4>1. Kept(c, s, t, x)
                BY <2>7, <3>3 DEF Tells, KeptBut
            <4> QED
                BY <2>8, <3>1, <4>1, FitsKept
        <3> QED
            BY <3>2, <3>3
    <2>10. Carried(kind, c, base, t, T)
        BY <2>8, <2>9 DEF Carried
    <2> QED
        BY <1>5, <2>10 DEF t
<1> QED
    BY <1>6, <1>7

LEMMA CheckoutCarried ==
    ASSUME NEW w, NEW c, NEW s, Typed(c, s), NEW S \in SUBSET Entities, \A e \in S : ents[e].pos \in Int
    PROVE  Carried("checkout", c, s, CheckoutAll(s, w, S), S)
BY CheckoutGoes, GoesCarried DEF Kinds, Went

LEMMA ReconcileCarried ==
    ASSUME NEW c, NEW s, Typed(c, s), NEW S \in SUBSET Entities, \A e \in S : ents[e].pos \in Int
    PROVE  Carried("reconcile", c, s, ReconcileAll(s, S), S)
BY ReconcileGoes, GoesCarried DEF Kinds, Went

LEMMA RemoveCarried ==
    ASSUME NEW c, NEW s, Typed(c, s), NEW S \in SUBSET Entities
    PROVE  Carried("remove", c, s, RemoveAll(s, S), S)
BY RemoveGoes, GoesCarried DEF Kinds, Went

LEMMA VisualsCarried ==
    ASSUME NEW c, NEW s, Typed(c, s), NEW S \in SUBSET Entities
    PROVE  Carried("visual", c, s, SendVisuals(s, S), S)
BY VisualsGoes, GoesCarried DEF Kinds, Went

(***************************************************************************)
(* The invariant of the consumers.                                         *)
(***************************************************************************)
\* A channel holds the answer to a query of a client that waits for it, once.
Wire(c, q) ==
    /\ c \in ClientType /\ q \in Seq(Frames)
    /\ Answers(q) # {} => c.phase = "Resyncing" /\ ~c.asked
    /\ \A i, j \in Answers(q) : i = j
    /\ c.asked => c.phase = "Resyncing"
\* What e is, and where; a hand-off that moved it may not have been told.
What(e) == IF ents[e] # None THEN "entity" ELSE "ghost"
Spot(e) ==
    IF ents[e] # None THEN IF jumped[e] = 0 THEN ents[e].pos ELSE None ELSE ghosts[e].pos
Shows(w, e) == Fits(client[w], peer[w], e, What(e), Spot(e))
Reading(w) ==
    (w \in up /\ Here(w) /\ ~Lost(peer[w])) =>
        LET d == Will(client[w], peer[w]) IN
        /\ d.got = peer[w].due
        /\ d.phase = "Live" /\ ~crashed =>
               d.depth = 0 /\ \A e \in Entities : e \notin twice => Shows(w, e)
Follows(w) == Wire(client[w], peer[w].wire) /\ Reading(w)
Clients == client = [w \in Peers |-> client[w]]
Cache == Clients /\ \A w \in Peers : Follows(w)

LEMMA FollowsTyped ==
    ASSUME NEW w \in Peers, IsHandle(peer[w]), Follows(w) PROVE Typed(client[w], peer[w])
BY DEF Follows, Wire, Typed

\* A handle that a handler leaves as t, or that went with it.
LeftAs(w, t) ==
    /\ peer'[w] = t \/ peer'[w] = Gone(t)
    /\ t.claims = None <=> peer[w].claims = None
\* Nobody connected, closed or read; what is twice, or crashed, stays so.
Quietly(w) ==
    client'[w] = client[w] /\ (w \in up' => w \in up) /\ (crashed => crashed') /\ twice \subseteq twice'
\* e is still shown as it is.
Showing(w, t, e) ==
    (e \notin twice' /\ ~crashed' /\ peer[w].claims # None /\ Shows(w, e))
        => Fits(client[w], t, e, What(e)', Spot(e)')

LEMMA GoneIs == ASSUME NEW s PROVE Gone(s).claims = None /\ Gone(s).wire = s.wire
BY DEF Gone, Nobody

LEMMA Served ==
    ASSUME NEW w \in Peers, IsHandle(peer[w]), Follows(w), Quietly(w), NEW t, LeftAs(w, t),
           Sends(client[w], peer[w], t), Level(client[w], peer[w], t),
           \A e \in Entities : Showing(w, t, e)
    PROVE  Follows(w)'
<1> DEFINE c == client[w]
           s == peer[w]
<1>1. peer'[w].wire = t.wire /\ client'[w] = c
    BY GoneIs DEF LeftAs, Quietly
<1>2. t.wire \in Seq(Frames) /\ Answers(t.wire) = Answers(s.wire) /\ (Lost(s) => Lost(t))
    BY DEF Sends
<1>3. Wire(client[w], peer[w].wire)'
    BY <1>1, <1>2 DEF Follows, Wire
<1>4. ASSUME w \in up', peer'[w].claims # None, ~Lost(peer'[w])
      PROVE  /\ Will(c, t).got = t.due
             /\ Will(c, t).phase = "Live" /\ ~crashed' =>
                    Will(c, t).depth = 0 /\ \A e \in Entities : e \notin twice' => Fits(c, t, e, What(e)', Spot(e)')
    <2>1. peer'[w] = t
        BY <1>4, GoneIs DEF LeftAs
    <2>2. w \in up /\ Here(w) /\ ~Lost(s) /\ ~Lost(t)
        BY <1>2, <1>4, <2>1 DEF LeftAs, Quietly, Here
    <2>3. /\ Will(c, s).got = s.due
          /\ Will(c, s).phase = "Live" /\ ~crashed =>
               Will(c, s).depth = 0 /\ \A e \in Entities : e \notin twice => Shows(w, e)
        BY <2>2 DEF Follows, Reading
    <2>4. /\ Will(c, t).phase = Will(c, s).phase
          /\ Will(c, t).got = t.due /\ Will(c, t).depth = Will(c, s).depth
        BY <2>2, <2>3 DEF Sends, Level
    <2>5. ASSUME Will(c, t).phase = "Live", ~crashed', NEW e \in Entities, e \notin twice'
          PROVE  Fits(c, t, e, What(e)', Spot(e)')
        <3>1. e \notin twice /\ ~crashed
            BY <2>5 DEF Quietly
        <3>2. Shows(w, e)
            BY <2>3, <2>4, <2>5, <3>1
        <3> QED
            BY <2>2, <2>5, <3>2 DEF Showing, Here
    <2>6. Will(c, t).phase = "Live" /\ ~crashed' => Will(c, t).depth = 0
        BY <2>3, <2>4 DEF Quietly
    <2> QED
        BY <2>4, <2>5, <2>6
<1>5. ASSUME w \in up', peer'[w].claims # None, ~Lost(peer'[w]) PROVE peer'[w] = t
    BY <1>5, GoneIs DEF LeftAs
<1> HIDE DEF c, s
<1>6. Reading(w)'
    BY <1>1, <1>4, <1>5, Zenon DEF Reading, Here, Shows
<1> QED
    BY <1>3, <1>6 DEF Follows

\* A step that tells the consumers of e alone.
Handled(w, t, e) ==
    /\ Akin(peer[w], t) /\ Tells(client[w], peer[w], t, e) /\ Level(client[w], peer[w], t)
    /\ Showing(w, t, e)

LEMMA ServedOf ==
    ASSUME NEW w \in Peers, IsHandle(peer[w]), Follows(w), Quietly(w), NEW e, Others(e),
           NEW t, Handled(w, t, e), peer'[w] = t \/ peer'[w] = Gone(t)
    PROVE  Follows(w)'
<1> DEFINE c == client[w]
           s == peer[w]
<1>1. LeftAs(w, t) /\ Sends(c, s, t) /\ Level(c, s, t) /\ (Lost(s) => Lost(t))
    BY DEF LeftAs, Handled, Akin, Tells, Sends
<1>2. ASSUME NEW x \in Entities, x # e PROVE Showing(w, t, x)
    <2>1. What(x)' = What(x) /\ Spot(x)' = Spot(x)
        <3>1. ents'[x] = ents[x] /\ ghosts'[x] = ghosts[x] /\ jumped'[x] = jumped[x]
            BY <1>2 DEF Others
        <3> QED
            BY <3>1 DEF What, Spot
    <2>2. Kept(c, s, t, x)
        BY <1>2 DEF Handled, Tells, KeptBut
    <2>3. Shows(w, x) => Fits(c, t, x, What(x), Spot(x))
        BY <1>1, <2>2, FitsKept DEF Shows
    <2> QED
        BY <2>1, <2>3 DEF Showing
<1>3. \A x \in Entities : Showing(w, t, x)
    BY <1>2 DEF Handled
<1> QED
    BY <1>1, <1>3, Served

LEMMA DispatchedAs ==
    ASSUME NEW ps, NEW g, NEW all, DispatchedWith(ps, g, all), NEW w \in Peers
    PROVE  peer'[w] = ps[w] \/ peer'[w] = Gone(ps[w])
BY DEF DispatchedWith, Reaped

LEMMA HandledAll ==
    ASSUME Inv, Cache, NEW e, Others(e), client' = client, up' = up, twice \subseteq twice',
           NEW ps, \A w \in Peers : Handled(w, ps[w], e),
           NEW g, NEW all, DispatchedWith(ps, g, all)
    PROVE  Cache'
<1>1. ASSUME NEW w \in Peers PROVE Follows(w)'
    <2>1. IsHandle(peer[w]) /\ Follows(w) /\ Handled(w, ps[w], e)
        BY HandlesAre DEF Cache
    <2>2. Quietly(w)
        BY DEF Quietly, Others
    <2>3. peer'[w] = ps[w] \/ peer'[w] = Gone(ps[w])
        BY DispatchedAs
    <2> QED
        BY <2>1, <2>2, <2>3, ServedOf
<1>2. Clients'
    BY DEF Cache, Clients
<1> QED
    BY <1>1, <1>2 DEF Cache

LEMMA ThenTells ==
    ASSUME NEW c, NEW s, NEW t, NEW u, NEW e, Tells(c, s, t, e), Level(c, s, t),
           Tells(c, t, u, e), Level(c, t, u)
    PROVE  Tells(c, s, u, e) /\ Level(c, s, u)
<1>1. Tells(c, s, u, e)
    BY TellsTells
<1>2. Level(c, s, u)
    BY DEF Level, Tells, Sends
<1> QED
    BY <1>1, <1>2

LEMMA FitsGiven ==
    ASSUME NEW c, NEW s, NEW x, x \in s.view => x \in s.given, NEW w, NEW p, Fits(c, s, x, w, p),
           NEW q
    PROVE  Fits(c, s, x, w, q)
BY Zenon DEF Fits

LEMMA PropagateFits ==
    ASSUME NEW ps, NEW w \in Peers, NEW c, Typed(c, ps[w]), ps[w].aoi \in AreaType,
           NEW e \in Entities, NEW p \in Int, NEW last, NEW t, t = Propagate(ps, e, p, last)[w]
    PROVE  /\ Tells(c, ps[w], t, e) /\ Level(c, ps[w], t)
           /\ \A q : Fits(c, ps[w], e, "entity", q) =>
                /\ Fits(c, t, e, "entity", None)
                /\ w \in Targets(p, last) /\ ps[w].claims # None => Fits(c, t, e, "entity", p)
<1>1. CASE w \in Targets(p, last) /\ ps[w].claims # None
    <2>1. t = PropagateTo(ps[w], e, p)
        BY <1>1 DEF Propagate
    <2>2. /\ Tells(c, ps[w], t, e) /\ Level(c, ps[w], t)
          /\ \A q : Fits(c, ps[w], e, "entity", q) => Fits(c, t, e, "entity", p)
        BY <2>1, PropagateToFits
    <2> QED
        BY <2>2, FitsNowhere
<1>2. CASE ~(w \in Targets(p, last) /\ ps[w].claims # None)
    <2>1. t = ps[w]
        BY <1>2 DEF Propagate
    <2> QED
        BY <1>2, <2>1, TellsSelf, FitsNowhere
<1> QED
    BY <1>1, <1>2

LEMMA CrashesFollow == ASSUME Inv, Cache, Crashes PROVE Cache'
<1>1. /\ conf' = conf /\ ents' = ents /\ ghosts' = ghosts /\ jumped' = jumped
      /\ twice' = twice /\ peer' = peer /\ client' = client /\ up' = up
      /\ superseded' = superseded /\ crashed'
    BY DEF Crashes, scene, index, histories, session
<1>2. ASSUME NEW w \in Peers PROVE Follows(w)'
    <2>1. IsHandle(peer[w]) /\ Follows(w) /\ Typed(client[w], peer[w])
        BY HandlesAre, FollowsTyped DEF Cache
    <2>2. Sends(client[w], peer[w], peer[w]) /\ Level(client[w], peer[w], peer[w])
        BY <2>1, TellsSelf DEF Tells
    <2>3. Quietly(w) /\ LeftAs(w, peer[w]) /\ \A e \in Entities : Showing(w, peer[w], e)
        BY <1>1 DEF Quietly, LeftAs, Showing
    <2> QED
        BY <2>1, <2>2, <2>3, Served
<1> QED
    BY <1>1, <1>2 DEF Cache, Clients

LEMMA AoiType == Inv => \A w \in Peers : peer[w].aoi \in AreaType
BY DEF Inv, World, Handles

\* An entity that is moved, by frames to the peers of its cells and to those it is handed to.
LEMMA MoveFollows ==
    ASSUME Inv, Cache, NEW e \in Entities, NEW p \in conf.points, Move(e, p) PROVE Cache'
<1>1. p \in Points /\ p \in Int
    BY PointsOf DEF Points
<1>2. CASE Panics(p, ents[e].last)
    BY <1>2, CrashesFollow DEF Move
<1>3. CASE ~Panics(p, ents[e].last)
    <2> DEFINE last == ents[e].last
               qs == Propagate(peer, e, p, last)
               ps == HandOver(qs, e, p, ents[e].region, Region(p))
    <2>1. /\ ents[e] # None /\ Dispatched(ps) /\ conf' = conf
          /\ ents' = [ents EXCEPT ![e] = At(p, CellOf(p), Region(p))]
          /\ jumped' = [jumped EXCEPT ![e] = Min({@, 1})] /\ ghosts' = ghosts
          /\ twice' = twice /\ superseded' = superseded /\ crashed' = crashed
          /\ client' = client /\ up' = up
        BY <1>3 DEF Move, Alive, session
    <2>2. Others(e)
        BY <2>1 DEF Inv, World, Others
    <2>3. /\ What(e)' = "entity" /\ What(e) = "entity"
          /\ Spot(e)' \in {p, None}
          /\ jumped[e] # 0 => Spot(e)' = None
        <3>1. /\ At(p, CellOf(p), Region(p)) # None
              /\ At(p, CellOf(p), Region(p)).pos = p
            BY <1>1, AtType
        <3>2. ents'[e] = At(p, CellOf(p), Region(p))
            BY <2>1 DEF Inv, World
        <3>3. jumped[e] \in 0..2 /\ jumped'[e] = Min({jumped[e], 1})
            BY <2>1 DEF Inv, World
        <3>4. jumped[e] # 0 => jumped'[e] # 0
            <4> DEFINE S == {jumped[e], 1}
            <4>1. \E x \in S : \A y \in S : x <= y
                BY <3>3
            <4>2. Min(S) \in S
                BY <4>1, Zenon DEF Min
            <4> QED
                BY <3>3, <4>2
        <3> QED
            BY <2>1, <3>1, <3>2, <3>4 DEF What, Spot
    <2>4. ASSUME NEW w \in Peers PROVE Handled(w, ps[w], e)
        <3> DEFINE c == client[w]
                   s == peer[w]
        <3>1. IsHandle(s) /\ Typed(c, s) /\ s.aoi \in AreaType
            BY HandlesAre, FollowsTyped, AoiType DEF Cache
        <3> HIDE DEF ps, qs, last
        <3>2. /\ Tells(c, s, qs[w], e) /\ Level(c, s, qs[w])
              /\ \A q : Fits(c, s, e, "entity", q) =>
                    /\ Fits(c, qs[w], e, "entity", None)
                    /\ w \in Targets(p, last) /\ s.claims # None => Fits(c, qs[w], e, "entity", p)
            BY <1>1, <3>1, PropagateFits DEF qs
        <3>3. Typed(c, qs[w])
            BY <3>1, <3>2, SendsTyped DEF Tells
        <3>4. /\ Tells(c, qs[w], ps[w], e) /\ Level(c, qs[w], ps[w])
              /\ \A q : Fits(c, qs[w], e, "entity", q) => Fits(c, ps[w], e, "entity", q)
            BY <1>1, <3>3, HandOverFits DEF ps
        <3>5. Tells(c, s, ps[w], e) /\ Level(c, s, ps[w])
            BY <3>2, <3>4, ThenTells
        <3>6. Akin(s, ps[w])
            <4>1. Only(s, qs[w], e)
                BY HandlesAre, PropagateShows DEF qs
            <4>2. Only(qs[w], ps[w], e)
                BY <3>3, HandOverShows DEF ps, Typed
            <4> QED
                BY <4>1, <4>2, OnlyOnly DEF Only
        <3>7. ASSUME e \notin twice', ~crashed', s.claims # None, Shows(w, e)
              PROVE  Fits(c, qs[w], e, "entity", Spot(e)')
            <4>1. Fits(c, s, e, "entity", Spot(e))
                BY <2>3, <3>7 DEF Shows
            <4>2. CASE w \in Targets(p, last) \/ Spot(e)' = None
                BY <2>3, <3>2, <3>7, <4>1, <4>2
            <4>3. CASE w \notin Targets(p, last) /\ jumped[e] = 0 /\ Spot(e)' = p
                <5>1. qs[w] = s
                    BY <4>3 DEF Propagate, qs
                <5>2. s.claims # None /\ e \notin twice /\ ~crashed
                    BY <2>1, <3>7
                <5>3. e \in s.view => e \in s.given
                    BY <1>1, <2>1, <4>3, <5>2, PassedOver DEF last
                <5> QED
                    BY <4>1, <5>1, <5>3, FitsGiven
            <4> QED
                BY <2>3, <4>2, <4>3
        <3>8. Showing(w, ps[w], e)
            BY <2>3, <3>4, <3>7 DEF Showing
        <3> QED
            BY <3>5, <3>6, <3>8 DEF Handled
    <2> HIDE DEF ps
    <2> QED
        BY <2>1, <2>2, <2>4, HandledAll DEF Dispatched
<1> QED
    BY <1>2, <1>3

(***************************************************************************)
(* Handlers that tell the consumers of e, one after another.               *)
(***************************************************************************)
\* Handles ps that are told of e so far.
Stays(ps, e) ==
    \A w \in Peers : /\ Only(peer[w], ps[w], e) /\ Typed(client[w], ps[w])
                     /\ Tells(client[w], peer[w], ps[w], e) /\ Level(client[w], peer[w], ps[w])
LEMMA StaysSelf == ASSUME Inv, Cache, NEW e PROVE Stays(peer, e)
<1> SUFFICES ASSUME NEW w \in Peers
             PROVE  /\ Only(peer[w], peer[w], e) /\ Typed(client[w], peer[w])
                    /\ Tells(client[w], peer[w], peer[w], e) /\ Level(client[w], peer[w], peer[w])
    BY Zenon DEF Stays
<1>1. IsHandle(peer[w]) /\ Typed(client[w], peer[w])
    BY HandlesAre, FollowsTyped DEF Cache
<1> QED
    BY <1>1, AkinSelf, TellsSelf

LEMMA StaysThen ==
    ASSUME NEW ps, NEW e, Stays(ps, e), NEW qs,
           \A w \in Peers : /\ Only(ps[w], qs[w], e)
                            /\ Tells(client[w], ps[w], qs[w], e) /\ Level(client[w], ps[w], qs[w])
    PROVE  Stays(qs, e)
<1> SUFFICES ASSUME NEW w \in Peers
             PROVE  /\ Only(peer[w], qs[w], e) /\ Typed(client[w], qs[w])
                    /\ Tells(client[w], peer[w], qs[w], e) /\ Level(client[w], peer[w], qs[w])
    BY Zenon DEF Stays
<1> DEFINE s == peer[w]
           t == ps[w]
           u == qs[w]
           c == client[w]
<1>1. /\ Only(s, t, e) /\ Typed(c, t) /\ Tells(c, s, t, e) /\ Level(c, s, t)
      /\ Only(t, u, e) /\ Tells(c, t, u, e) /\ Level(c, t, u)
    BY Zenon DEF Stays
<1> HIDE DEF s, t, u, c
<1>2. Only(s, u, e) /\ Tells(c, s, u, e) /\ Level(c, s, u)
    BY <1>1, OnlyOnly, ThenTells
<1>3. Typed(c, u)
    BY <1>1, SendsTyped DEF Tells
<1> QED
    BY <1>2, <1>3 DEF s, t, u, c

LEMMA StaysHandled ==
    ASSUME Inv, Cache, NEW e, Others(e), client' = client, up' = up, twice \subseteq twice',
           NEW ps, Stays(ps, e), \A w \in Peers : Showing(w, ps[w], e), Dispatched(ps)
    PROVE  Cache'
<1>1. \A w \in Peers : Handled(w, ps[w], e)
    BY Zenon DEF Stays, Handled, Only
<1> QED
    BY <1>1, HandledAll DEF Dispatched

\* Where the entity was is told to some, and known to be told to none.
LEMMA PropagateStays ==
    ASSUME Inv, NEW ps, NEW e \in Entities, Stays(ps, e), NEW p \in Int, NEW last,
           NEW qs, qs = Propagate(ps, e, p, last)
    PROVE  /\ Stays(qs, e)
           /\ \A w \in Peers : \A q : Fits(client[w], ps[w], e, "entity", q)
                                      => Fits(client[w], qs[w], e, "entity", None)
<1>1. \A w \in Peers : Only(ps[w], qs[w], e)
    <2>1. \A w \in Peers : IsHandle(ps[w])
        BY DEF Stays, Typed
    <2> QED
        BY <2>1, PropagateShows
<1>2. ASSUME NEW w \in Peers
      PROVE  /\ Tells(client[w], ps[w], qs[w], e) /\ Level(client[w], ps[w], qs[w])
             /\ \A q : Fits(client[w], ps[w], e, "entity", q) => Fits(client[w], qs[w], e, "entity", None)
    <2>1. Typed(client[w], ps[w]) /\ ps[w].aoi \in AreaType
        BY AoiType DEF Stays, Only, Akin
    <2> QED
        BY <2>1, PropagateFits
<1>3. Stays(qs, e)
    BY <1>1, <1>2, StaysThen
<1> QED
    BY <1>2, <1>3

LEMMA HandOverStays ==
    ASSUME NEW ps, NEW e \in Entities, Stays(ps, e), NEW p \in Int, NEW from, NEW to,
           NEW qs, qs = HandOver(ps, e, p, from, to)
    PROVE  /\ Stays(qs, e)
           /\ \A w \in Peers : \A q : Fits(client[w], ps[w], e, "entity", q)
                                      => Fits(client[w], qs[w], e, "entity", q)
<1>1. ASSUME NEW w \in Peers
      PROVE  /\ Only(ps[w], qs[w], e)
             /\ Tells(client[w], ps[w], qs[w], e) /\ Level(client[w], ps[w], qs[w])
             /\ \A q : Fits(client[w], ps[w], e, "entity", q) => Fits(client[w], qs[w], e, "entity", q)
    <2>1. Typed(client[w], ps[w]) /\ IsHandle(ps[w])
        BY DEF Stays, Typed
    <2> QED
        BY <2>1, HandOverFits, HandOverShows
<1>2. Stays(qs, e)
    BY <1>1, StaysThen
<1> QED
    BY <1>1, <1>2

LEMMA RemoveStays ==
    ASSUME NEW ps, NEW e \in Entities, Stays(ps, e),
           NEW qs, \A w \in Peers : qs[w] = RemoveFromView(ps[w], e) \/ qs[w] = ps[w]
    PROVE  /\ Stays(qs, e)
           /\ \A w \in Peers : qs[w] = RemoveFromView(ps[w], e) =>
                /\ e \notin qs[w].view
                /\ \A x, p, v, q : Fits(client[w], ps[w], e, x, p) => Fits(client[w], qs[w], e, v, q)
<1>1. ASSUME NEW w \in Peers, NEW t, t = RemoveFromView(ps[w], e)
      PROVE  /\ Only(ps[w], t, e)
             /\ Tells(client[w], ps[w], t, e) /\ Level(client[w], ps[w], t)
             /\ e \notin t.view
             /\ \A x, p, v, q : Fits(client[w], ps[w], e, x, p) => Fits(client[w], t, e, v, q)
    <2>1. Typed(client[w], ps[w]) /\ IsHandle(ps[w])
        BY DEF Stays, Typed
    <2> QED
        BY <1>1, <2>1, RemoveFits, RemoveShows
<1>2. ASSUME NEW w \in Peers
      PROVE  /\ Only(ps[w], ps[w], e)
             /\ Tells(client[w], ps[w], ps[w], e) /\ Level(client[w], ps[w], ps[w])
    <2>1. Typed(client[w], ps[w]) /\ IsHandle(ps[w])
        BY DEF Stays, Typed
    <2> QED
        BY <2>1, AkinSelf, TellsSelf
<1>3. Stays(qs, e)
    BY <1>1, <1>2, StaysThen
<1> QED
    BY <1>1, <1>3

LEMMA SpawnStays ==
    ASSUME NEW ps, NEW e \in Entities, Stays(ps, e), NEW p \in Int,
           NEW qs, \A w \in Peers : qs[w] = SpawnTo(w, ps[w], e, p) \/ qs[w] = ps[w]
    PROVE  /\ Stays(qs, e)
           /\ \A w \in Peers : qs[w] = SpawnTo(w, ps[w], e, p) /\ e \notin ps[w].view =>
                \A x, q : Fits(client[w], ps[w], e, x, q) => Fits(client[w], qs[w], e, "entity", p)
<1>1. ASSUME NEW w \in Peers, NEW t, t = SpawnTo(w, ps[w], e, p)
      PROVE  /\ Only(ps[w], t, e)
             /\ Tells(client[w], ps[w], t, e) /\ Level(client[w], ps[w], t)
             /\ e \notin ps[w].view =>
                \A x, q : Fits(client[w], ps[w], e, x, q) => Fits(client[w], t, e, "entity", p)
    <2>1. Typed(client[w], ps[w]) /\ IsHandle(ps[w])
        BY DEF Stays, Typed
    <2> QED
        BY <1>1, <2>1, SpawnToFits, SpawnToShows
<1>2. ASSUME NEW w \in Peers
      PROVE  /\ Only(ps[w], ps[w], e)
             /\ Tells(client[w], ps[w], ps[w], e) /\ Level(client[w], ps[w], ps[w])
    <2>1. Typed(client[w], ps[w]) /\ IsHandle(ps[w])
        BY DEF Stays, Typed
    <2> QED
        BY <2>1, AkinSelf, TellsSelf
<1>3. Stays(qs, e)
    BY <1>1, <1>2, StaysThen
<1> QED
    BY <1>1, <1>3

LEMMA MoveTwiceFollows ==
    ASSUME Inv, Cache, NEW e \in Entities, NEW p \in conf.points, NEW q \in conf.points,
           MoveTwice(e, p, q)
    PROVE  Cache'
<1>1. p \in Points /\ p \in Int /\ q \in Int
    BY PointsOf DEF Points
<1>2. CASE Panics(p, ents[e].last) \/ Panics(q, CellOf(p))
    BY <1>2, CrashesFollow DEF MoveTwice
<1>3. CASE ~(Panics(p, ents[e].last) \/ Panics(q, CellOf(p)))
    <2> DEFINE once == Propagate(peer, e, p, ents[e].last)
               again == Propagate(once, e, q, CellOf(p))
               ps == HandOver(again, e, p, ents[e].region, Region(p))
    <2>1. /\ ents[e] # None /\ Dispatched(ps) /\ conf' = conf
          /\ ents' = [ents EXCEPT ![e] = At(p, CellOf(p), Region(p))]
          /\ jumped' = [jumped EXCEPT ![e] = 2] /\ ghosts' = ghosts
          /\ twice' = twice /\ superseded' = superseded /\ crashed' = crashed
          /\ client' = client /\ up' = up
        BY <1>3 DEF MoveTwice, Alive, session
    <2>2. Others(e)
        BY <2>1 DEF Inv, World, Others
    <2>3. What(e)' = "entity" /\ What(e) = "entity" /\ Spot(e)' = None
        <3>1. ents'[e] = At(p, CellOf(p), Region(p)) /\ jumped'[e] = 2
            BY <2>1 DEF Inv, World
        <3> QED
            BY <1>1, <2>1, <3>1, AtType DEF What, Spot
    <2>4. Stays(peer, e)
        BY StaysSelf
    <2> HIDE DEF ps
    <2>5. /\ Stays(once, e)
          /\ \A w \in Peers : \A x : Fits(client[w], peer[w], e, "entity", x)
                                     => Fits(client[w], once[w], e, "entity", None)
        BY <1>1, <2>4, PropagateStays
    <2> HIDE DEF once
    <2>6. /\ Stays(again, e)
          /\ \A w \in Peers : \A x : Fits(client[w], once[w], e, "entity", x)
                                     => Fits(client[w], again[w], e, "entity", None)
        BY <1>1, <2>5, PropagateStays
    <2> HIDE DEF again
    <2>7. /\ Stays(ps, e)
          /\ \A w \in Peers : \A x : Fits(client[w], again[w], e, "entity", x)
                                     => Fits(client[w], ps[w], e, "entity", x)
        BY <1>1, <2>6, HandOverStays DEF ps
    <2>8. \A w \in Peers : Showing(w, ps[w], e)
        BY <2>3, <2>5, <2>6, <2>7 DEF Showing, Shows
    <2> QED
        BY <2>1, <2>2, <2>7, <2>8, StaysHandled
<1> QED
    BY <1>2, <1>3

LEMMA FoldFollows ==
    ASSUME Inv, Cache, NEW e \in Entities, NEW p \in conf.points, Fold(e, p) PROVE Cache'
<1>1. p \in Points /\ p \in Int
    BY PointsOf DEF Points
<1>2. CASE Panics(p, CellOf(p))
    BY <1>2, CrashesFollow DEF Fold
<1>3. CASE ~Panics(p, CellOf(p))
    <2> DEFINE qs == HandOver(peer, e, p, ents[e].region, Region(p))
               ps == Propagate(qs, e, p, CellOf(p))
    <2>1. /\ ents[e] # None /\ Dispatched(ps) /\ conf' = conf
          /\ ents' = [ents EXCEPT ![e] = At(p, CellOf(p), Region(p))]
          /\ jumped' = [jumped EXCEPT ![e] = 1] /\ ghosts' = ghosts
          /\ twice' = twice /\ superseded' = superseded /\ crashed' = crashed
          /\ client' = client /\ up' = up
        BY <1>3 DEF Fold, Alive, session
    <2>2. Others(e)
        BY <2>1 DEF Inv, World, Others
    <2>3. What(e)' = "entity" /\ What(e) = "entity" /\ Spot(e)' = None
        <3>1. ents'[e] = At(p, CellOf(p), Region(p)) /\ jumped'[e] = 1
            BY <2>1 DEF Inv, World
        <3> QED
            BY <1>1, <2>1, <3>1, AtType DEF What, Spot
    <2>4. Stays(peer, e)
        BY StaysSelf
    <2> HIDE DEF ps
    <2>5. /\ Stays(qs, e)
          /\ \A w \in Peers : \A x : Fits(client[w], peer[w], e, "entity", x)
                                     => Fits(client[w], qs[w], e, "entity", x)
        BY <1>1, <2>4, HandOverStays
    <2> HIDE DEF qs
    <2>6. /\ Stays(ps, e)
          /\ \A w \in Peers : \A x : Fits(client[w], qs[w], e, "entity", x)
                                     => Fits(client[w], ps[w], e, "entity", None)
        BY <1>1, <2>5, PropagateStays DEF ps
    <2>7. \A w \in Peers : Showing(w, ps[w], e)
        BY <2>3, <2>5, <2>6 DEF Showing, Shows
    <2> QED
        BY <2>1, <2>2, <2>6, <2>7, StaysHandled
<1> QED
    BY <1>2, <1>3

\* An entity appears to whom does not see it.
LEMMA SpawnFollows ==
    ASSUME Inv, Cache, NEW e \in Entities, NEW p \in Int, Others(e),
           What(e)' = "entity", Spot(e)' = p, client' = client, up' = up, twice \subseteq twice',
           NEW qs, Stays(qs, e), \A w \in Peers : peer[w].claims # None /\ e \notin twice' =>
               /\ e \notin qs[w].view
               /\ Shows(w, e) => \E x, q : Fits(client[w], qs[w], e, x, q),
           NEW ps, \A w \in Peers : IF Here(w) THEN ps[w] = SpawnTo(w, qs[w], e, p)
                                    ELSE ps[w] = qs[w],
           Dispatched(ps)
    PROVE  Cache'
<1>1. /\ Stays(ps, e)
      /\ \A w \in Peers : ps[w] = SpawnTo(w, qs[w], e, p) /\ e \notin qs[w].view =>
            \A x, q : Fits(client[w], qs[w], e, x, q) => Fits(client[w], ps[w], e, "entity", p)
    BY SpawnStays
<1>2. ASSUME NEW w \in Peers PROVE Showing(w, ps[w], e)
    BY <1>1 DEF Showing, Here
<1> QED
    BY <1>1, <1>2, StaysHandled

LEMMA SpawnedIs ==
    ASSUME Inv, NEW e \in Entities, NEW p \in Points, ents[e] = None, jumped' = jumped,
           ents' = [ents EXCEPT ![e] = At(p, CellOf(p), Region(p))]
    PROVE  What(e)' = "entity" /\ Spot(e)' = p
<1>1. ents'[e] = At(p, CellOf(p), Region(p)) /\ jumped'[e] = 0
    BY DEF Inv, World, Told, Placed
<1> QED
    BY <1>1, AtType DEF What, Spot

LEMMA NotInView ==
    ASSUME Inv, NEW e \in Entities, e \notin twice, ents[e] = None, ghosts[e] = None,
           NEW w \in Peers, peer[w].claims # None
    PROVE  e \notin peer[w].view
BY DEF Inv, Told, Named

LEMMA CreateFollows ==
    ASSUME Inv, Cache, NEW e \in Entities, NEW p \in conf.points, CreateEntity(e, p) PROVE Cache'
<1> DEFINE ps == Each(LAMBDA w, s : SpawnTo(w, s, e, p))
<1>1. p \in Points
    BY PointsOf
<1>2. ps = [w \in Peers |-> IF Here(w) THEN SpawnTo(w, peer[w], e, p) ELSE peer[w]]
    BY DEF Each
<1>3. /\ ents[e] = None /\ Dispatched(ps) /\ conf' = conf
      /\ ents' = [ents EXCEPT ![e] = At(p, CellOf(p), Region(p))]
      /\ twice' = (IF away[e] # None \/ ghosts[e] # None THEN twice \cup {e} ELSE twice)
      /\ jumped' = jumped /\ ghosts' = ghosts
      /\ superseded' = superseded /\ crashed' = crashed /\ client' = client /\ up' = up
    BY DEF CreateEntity, Alive, session
<1> HIDE DEF ps
<1>4. Others(e) /\ twice \subseteq twice'
    BY <1>3 DEF Inv, World, Others
<1>5. Stays(peer, e)
    BY StaysSelf
<1>6. ASSUME NEW w \in Peers, peer[w].claims # None, e \notin twice'
      PROVE  /\ e \notin peer[w].view
             /\ Shows(w, e) => \E x, q : Fits(client[w], peer[w], e, x, q)
    <2>1. e \notin twice /\ ghosts[e] = None
        BY <1>3, <1>6
    <2> QED
        BY <1>3, <1>6, <2>1, NotInView DEF Shows
<1>7. \A w \in Peers : IF Here(w) THEN ps[w] = SpawnTo(w, peer[w], e, p) ELSE ps[w] = peer[w]
    BY <1>2
<1>8. What(e)' = "entity" /\ Spot(e)' = p /\ p \in Int
    <2>1. /\ ents[e] = None /\ jumped' = jumped
          /\ ents' = [ents EXCEPT ![e] = At(p, CellOf(p), Region(p))]
        BY <1>3
    <2>2. What(e)' = "entity" /\ Spot(e)' = p
        BY <1>1, <2>1, SpawnedIs
    <2> QED
        BY <1>1, <2>2 DEF Points
<1>9. \A w \in Peers : peer[w].claims # None /\ e \notin twice' =>
        /\ e \notin peer[w].view
        /\ Shows(w, e) => \E x, q : Fits(client[w], peer[w], e, x, q)
    BY <1>6
<1>10. /\ client' = client /\ up' = up /\ twice \subseteq twice' /\ Others(e) /\ Dispatched(ps)
    BY <1>3, <1>4
<1> QED
    BY <1>5, <1>7, <1>8, <1>9, <1>10, SpawnFollows

\* An entity leaves every view, and is nothing then.
LEMMA GoneFollows ==
    ASSUME Inv, Cache, NEW e \in Entities, Others(e), client' = client, up' = up,
           twice \subseteq twice', NEW qs, Stays(qs, e),
           \A w \in Peers : peer[w].claims # None /\ Shows(w, e) /\ e \notin twice =>
               \E x, q : Fits(client[w], qs[w], e, x, q),
           NEW ps, \A w \in Peers : IF Here(w) THEN ps[w] = RemoveFromView(qs[w], e)
                                    ELSE ps[w] = qs[w],
           Dispatched(ps)
    PROVE  Cache'
<1>1. /\ Stays(ps, e)
      /\ \A w \in Peers : ps[w] = RemoveFromView(qs[w], e) =>
            \A x, p, v, q : Fits(client[w], qs[w], e, x, p) => Fits(client[w], ps[w], e, v, q)
    BY RemoveStays
<1>2. ASSUME NEW w \in Peers PROVE Showing(w, ps[w], e)
    BY <1>1 DEF Showing, Here
<1> QED
    BY <1>1, <1>2, StaysHandled

LEMMA DeleteFollows == ASSUME Inv, Cache, NEW e \in Entities, DeleteEntity(e) PROVE Cache'
<1> DEFINE ps == Removed(e)
<1>1. \A w \in Peers : IF Here(w) THEN ps[w] = RemoveFromView(peer[w], e) ELSE ps[w] = peer[w]
    BY DEF Removed, Each
<1>2. /\ Dispatched(ps) /\ conf' = conf /\ ents' = [ents EXCEPT ![e] = None]
      /\ jumped' = [jumped EXCEPT ![e] = 0] /\ ghosts' = ghosts
      /\ twice' = twice /\ superseded' = superseded /\ crashed' = crashed
      /\ client' = client /\ up' = up
    BY DEF DeleteEntity, session
<1> HIDE DEF ps
<1>3. Others(e) /\ twice \subseteq twice'
    BY <1>2 DEF Inv, World, Others
<1>4. Stays(peer, e)
    BY StaysSelf
<1>5. \A w \in Peers : peer[w].claims # None /\ Shows(w, e) /\ e \notin twice =>
          \E x, q : Fits(client[w], peer[w], e, x, q)
    BY DEF Shows
<1> QED
    BY <1>1, <1>2, <1>3, <1>4, <1>5, GoneFollows

LEMMA DepartFollows ==
    ASSUME Inv, Cache, NEW e \in Entities, NEW p \in conf.points, Depart(e, p) PROVE Cache'
<1>1. p \in Points /\ p \in Int
    BY PointsOf DEF Points
<1>2. CASE Panics(p, ents[e].last)
    BY <1>2, CrashesFollow DEF Depart
<1>3. CASE ~Panics(p, ents[e].last)
    <2> DEFINE qs == Propagate(peer, e, p, ents[e].last)
               ps == [w \in Peers |-> IF Here(w) THEN RemoveFromView(qs[w], e) ELSE qs[w]]
    <2>1. /\ Dispatched(ps) /\ conf' = conf /\ ents' = [ents EXCEPT ![e] = None]
          /\ jumped' = [jumped EXCEPT ![e] = 0] /\ ghosts' = ghosts /\ ents[e] # None
          /\ twice' = twice /\ superseded' = superseded /\ crashed' = crashed
          /\ client' = client /\ up' = up
        BY <1>3 DEF Depart, Alive, session
    <2>2. \A w \in Peers : IF Here(w) THEN ps[w] = RemoveFromView(qs[w], e) ELSE ps[w] = qs[w]
        OBVIOUS
    <2> HIDE DEF ps
    <2>3. Others(e) /\ twice \subseteq twice'
        BY <2>1 DEF Inv, World, Others
    <2>4. Stays(peer, e)
        BY StaysSelf
    <2>5. /\ Stays(qs, e)
          /\ \A w \in Peers : \A x : Fits(client[w], peer[w], e, "entity", x)
                                     => Fits(client[w], qs[w], e, "entity", None)
        BY <1>1, <2>4, PropagateStays
    <2> HIDE DEF qs
    <2>6. What(e) = "entity"
        BY <2>1 DEF What
    <2>7. \A w \in Peers : peer[w].claims # None /\ Shows(w, e) /\ e \notin twice =>
              \E x, q : Fits(client[w], qs[w], e, x, q)
        BY <2>5, <2>6 DEF Shows
    <2> QED
        BY <2>1, <2>2, <2>3, <2>5, <2>7, GoneFollows
<1> QED
    BY <1>2, <1>3

(***************************************************************************)
(* Ghosts, for the consumer.                                               *)
(***************************************************************************)
LEMMA MeshGhostFollows ==
    ASSUME Inv, Cache, NEW e \in Entities, NEW p \in Points, ents[e] = None, MeshGhost(e, p),
           conf' = conf, crashed' = crashed, twice' = twice, superseded' = superseded,
           client' = client, up' = up
    PROVE  Cache'
<1> DEFINE ps == Each(LAMBDA w, s : GhostTo(s, e, p, ghosts[e] = None))
<1>1. /\ Dispatched(ps) /\ ghosts' = [ghosts EXCEPT ![e] = [pos |-> p, age |-> 0]]
      /\ ents' = ents /\ jumped' = jumped
    BY DEF MeshGhost, Alive
<1>2. ps = [w \in Peers |-> IF Here(w) THEN GhostTo(peer[w], e, p, ghosts[e] = None) ELSE peer[w]]
    BY DEF Each
<1> HIDE DEF ps
<1>3. Others(e) /\ ghosts'[e].pos = p /\ p \in Int
    BY <1>1 DEF Inv, World, Others, Points
<1>4. What(e) = "ghost" /\ What(e)' = "ghost" /\ Spot(e)' = p
    BY <1>1, <1>3 DEF What, Spot
<1>5. ASSUME NEW w \in Peers
      PROVE  /\ Only(peer[w], ps[w], e)
             /\ Tells(client[w], peer[w], ps[w], e) /\ Level(client[w], peer[w], ps[w])
             /\ (Here(w) /\ (ghosts[e] = None => e \notin peer[w].view)) =>
                    \A q : Fits(client[w], peer[w], e, "ghost", q) => Fits(client[w], ps[w], e, "ghost", p)
    <2>1. Typed(client[w], peer[w]) /\ IsHandle(peer[w])
        BY HandlesAre, FollowsTyped DEF Cache
    <2>2. CASE Here(w)
        <3> DEFINE first == ghosts[e] = None
                   t == ps[w]
        <3>1. t = GhostTo(peer[w], e, p, first)
            BY <1>2, <2>2
        <3>2. Only(peer[w], t, e)
            BY <2>1, <3>1, GhostToShows
        <3> HIDE DEF first, t
        <3>3. /\ Tells(client[w], peer[w], t, e) /\ Level(client[w], peer[w], t)
              /\ (first => e \notin peer[w].view) =>
                    \A q : Fits(client[w], peer[w], e, "ghost", q) => Fits(client[w], t, e, "ghost", p)
            BY <1>3, <2>1, <3>1, GhostToFits
        <3> QED
            BY <3>2, <3>3 DEF first, t
    <2>3. CASE ~Here(w)
        <3>1. ps[w] = peer[w]
            BY <1>2, <2>3
        <3> QED
            BY <2>1, <2>3, <3>1, AkinSelf, TellsSelf
    <2> QED
        BY <2>2, <2>3
<1>6. Stays(peer, e)
    BY StaysSelf
<1>7. Stays(ps, e)
    BY <1>5, <1>6, StaysThen
<1>8. ASSUME NEW w \in Peers PROVE Showing(w, ps[w], e)
    <2> SUFFICES ASSUME e \notin twice', peer[w].claims # None, Shows(w, e)
                 PROVE  Fits(client[w], ps[w], e, "ghost", p)
        BY <1>4 DEF Showing
    <2>1. ghosts[e] = None => e \notin peer[w].view
        BY NotInView
    <2>2. Fits(client[w], peer[w], e, "ghost", Spot(e))
        BY <1>4 DEF Shows
    <2> QED
        BY <1>5, <2>1, <2>2 DEF Here
<1> QED
    BY <1>1, <1>3, <1>7, <1>8, StaysHandled

LEMMA AdoptFollows ==
    ASSUME Inv, Cache, NEW e \in Entities, NEW p \in Points, Adopt(e, p), conf' = conf,
           crashed' = crashed, twice' = twice, superseded' = superseded,
           client' = client, up' = up
    PROVE  Cache'
<1> DEFINE without(s) == IF ghosts[e] # None THEN RemoveFromView(s, e) ELSE s
           qs == [w \in Peers |-> IF Here(w) THEN without(peer[w]) ELSE peer[w]]
<1>1. ghosts' = [ghosts EXCEPT ![e] = None] /\ jumped' = jumped
    BY DEF Adopt
<1>2. \A w \in Peers : qs[w] = RemoveFromView(peer[w], e) \/ qs[w] = peer[w]
    OBVIOUS
<1>3. \A w \in Peers : /\ ghosts[e] = None => qs[w] = peer[w]
                       /\ Here(w) /\ ghosts[e] # None => qs[w] = RemoveFromView(peer[w], e)
    OBVIOUS
<1>4. Stays(peer, e)
    BY StaysSelf
<1> HIDE DEF qs
<1>5. /\ Stays(qs, e)
      /\ \A w \in Peers : qs[w] = RemoveFromView(peer[w], e) =>
            /\ e \notin qs[w].view
            /\ \A x, y, v, q : Fits(client[w], peer[w], e, x, y) => Fits(client[w], qs[w], e, v, q)
    BY <1>2, <1>4, RemoveStays
<1>6. CASE ents[e] # None
    <2> DEFINE ps == Each(LAMBDA w, s : without(s))
    <2>1. Dispatched(ps) /\ ents' = ents
        BY <1>6 DEF Adopt, Alive
    <2>2. ps = qs
        BY DEF Each, qs
    <2>3. Dispatched(qs)
        BY <2>1, <2>2
    <2> HIDE DEF ps
    <2>4. Others(e)
        BY <1>1, <2>1 DEF Inv, World, Others
    <2>5. What(e) = "entity" /\ What(e)' = "entity" /\ Spot(e)' = Spot(e)
        BY <1>1, <1>6, <2>1 DEF What, Spot
    <2>6. ASSUME NEW w \in Peers PROVE Showing(w, qs[w], e)
        <3> SUFFICES ASSUME e \notin twice, Shows(w, e)
                     PROVE  Fits(client[w], qs[w], e, "entity", Spot(e))
            BY <2>5 DEF Showing
        <3>1. ghosts[e] = None
            BY <1>6 DEF Inv, Told, Shadow
        <3> QED
            BY <1>3, <2>5, <3>1 DEF Shows
    <2> QED
        BY <1>5, <2>3, <2>4, <2>6, StaysHandled
<1>7. CASE ents[e] = None
    <2> DEFINE ps == Each(LAMBDA w, s : SpawnTo(w, without(s), e, p))
    <2>1. Dispatched(ps) /\ ents' = [ents EXCEPT ![e] = At(p, CellOf(p), Region(p))]
        BY <1>7 DEF Adopt, Alive
    <2>2. \A w \in Peers : IF Here(w) THEN ps[w] = SpawnTo(w, qs[w], e, p) ELSE ps[w] = qs[w]
        BY DEF Each, qs
    <2> HIDE DEF ps, without
    <2>3. Others(e)
        BY <1>1, <2>1 DEF Inv, World, Others
    <2>4. What(e)' = "entity" /\ Spot(e)' = p /\ p \in Int
        <3>1. /\ ents[e] = None /\ jumped' = jumped
              /\ ents' = [ents EXCEPT ![e] = At(p, CellOf(p), Region(p))]
            BY <1>1, <1>7, <2>1
        <3>2. What(e)' = "entity" /\ Spot(e)' = p
            BY <3>1, SpawnedIs
        <3> QED
            BY <3>2 DEF Points
    <2>5. ASSUME NEW w \in Peers, peer[w].claims # None, e \notin twice'
          PROVE  /\ e \notin qs[w].view
                 /\ Shows(w, e) => \E x, q : Fits(client[w], qs[w], e, x, q)
        <3>1. CASE ghosts[e] = None
            BY <1>3, <1>7, <2>5, <3>1, NotInView DEF Shows
        <3>2. CASE ghosts[e] # None
            <4>1. qs[w] = RemoveFromView(peer[w], e)
                BY <1>3, <2>5, <3>2 DEF Here
            <4> QED
                BY <1>5, <4>1 DEF Shows
        <3> QED
            BY <3>1, <3>2
    <2> QED
        BY <1>5, <2>1, <2>2, <2>3, <2>4, <2>5, SpawnFollows
<1> QED
    BY <1>6, <1>7

(***************************************************************************)
(* Steps that say nothing of an entity.                                    *)
(***************************************************************************)
SameWorld ==
    /\ ents' = ents /\ ghosts' = ghosts /\ jumped' = jumped /\ twice' = twice
    /\ crashed' = crashed
\* All that is shown stays as it was.
ShownOn(c, s, t) == \A x \in Entities : \A what, p : Fits(c, s, x, what, p) => Fits(c, t, x, what, p)
Passes(c, s, t) == Sends(c, s, t) /\ Level(c, s, t) /\ ShownOn(c, s, t)

LEMMA KeptShown ==
    ASSUME NEW c, NEW s, NEW t, Sends(c, s, t), Level(c, s, t), \A x : Kept(c, s, t, x)
    PROVE  Passes(c, s, t)
<1>1. Lost(s) => Lost(t)
    BY DEF Sends
<1> QED
    BY <1>1, FitsKept DEF Passes, ShownOn

LEMMA PassesPasses ==
    ASSUME NEW c, NEW s, NEW t, NEW u, Passes(c, s, t), Passes(c, t, u) PROVE Passes(c, s, u)
<1>1. Sends(c, s, u) /\ Level(c, s, u)
    BY DEF Passes, Sends, Level
<1>2. ShownOn(c, s, u)
    BY DEF Passes, ShownOn
<1> QED
    BY <1>1, <1>2 DEF Passes

LEMMA SamePasses ==
    ASSUME NEW c, NEW s, Typed(c, s), NEW t, IsHandle(t), t.wire = s.wire, t.cut = s.cut,
           t.flag = s.flag, t.due = s.due, t.view = s.view, t.given = s.given,
           t.stray = s.stray, t.lossy = s.lossy, t.unseen = s.unseen
    PROVE  Passes(c, s, t)
BY DEF Passes, Sends, Level, ShownOn, Fits, Will, Typed, Lost

LEMMA PassesSelf == ASSUME NEW c, NEW s, Typed(c, s) PROVE Passes(c, s, s)
BY SamePasses DEF Typed

LEMMA MarkPasses ==
    ASSUME NEW c, NEW s, Typed(c, s), NEW op \in {"reject", "inspector"}
    PROVE  Passes(c, s, Emit(s, <<op>>))
<1> DEFINE t == Emit(s, <<op>>)
<1>1. Sends(c, s, t) /\ Level(c, s, t) /\ \A x : Kept(c, s, t, x)
    BY EmitMark DEF Marks
<1> QED
    BY <1>1, KeptShown

LEMMA EventPasses ==
    ASSUME NEW c, NEW s, Typed(c, s), NEW e \in Entities PROVE Passes(c, s, Emit(s, <<"event", e>>))
<1> DEFINE t == Emit(s, <<"event", e>>)
<1>1. Sends(c, s, t) /\ Level(c, s, t) /\ \A x : Kept(c, s, t, x)
    BY EmitEvent
<1> QED
    BY <1>1, KeptShown

LEMMA PassesServed ==
    ASSUME SameWorld, NEW w \in Peers, IsHandle(peer[w]), Follows(w), client'[w] = client[w],
           w \in up' => w \in up, NEW t, LeftAs(w, t), Passes(client[w], peer[w], t)
    PROVE  Follows(w)'
<1>1. ASSUME NEW e \in Entities PROVE Showing(w, t, e)
    <2>1. What(e)' = What(e) /\ Spot(e)' = Spot(e)
        BY DEF SameWorld, What, Spot
    <2> QED
        BY <2>1 DEF Passes, ShownOn, Showing, Shows
<1>2. Quietly(w)
    BY DEF Quietly, SameWorld
<1>3. Sends(client[w], peer[w], t) /\ Level(client[w], peer[w], t)
    BY DEF Passes
<1> QED
    BY <1>1, <1>2, <1>3, Served

LEMMA AllServed ==
    ASSUME Inv, Cache, SameWorld, client' = client, up' = up,
           NEW ps, \A w \in Peers : /\ Akin(peer[w], ps[w]) /\ Passes(client[w], peer[w], ps[w])
                                    /\ peer'[w] = ps[w] \/ peer'[w] = Gone(ps[w])
    PROVE  Cache'
<1>1. ASSUME NEW w \in Peers PROVE Follows(w)'
    <2>1. IsHandle(peer[w]) /\ Follows(w)
        BY HandlesAre DEF Cache
    <2>2. LeftAs(w, ps[w]) /\ Passes(client[w], peer[w], ps[w])
        BY DEF LeftAs, Akin
    <2> QED
        BY <2>1, <2>2, PassesServed
<1> QED
    BY <1>1 DEF Cache, Clients

LEMMA TypedAll ==
    ASSUME Inv, Cache
    PROVE  \A w \in Peers : /\ Typed(client[w], peer[w]) /\ Akin(peer[w], peer[w])
                            /\ Passes(client[w], peer[w], peer[w])
<1> SUFFICES ASSUME NEW w \in Peers
             PROVE  /\ Typed(client[w], peer[w]) /\ Akin(peer[w], peer[w])
                    /\ Passes(client[w], peer[w], peer[w])
    OBVIOUS
<1>1. Typed(client[w], peer[w])
    BY HandlesAre, FollowsTyped DEF Cache
<1> QED
    BY <1>1, PassesSelf DEF Akin, Typed

LEMMA AsideFollows ==
    ASSUME Inv, Cache, SameWorld, client' = client, up' = up, peer' = peer PROVE Cache'
BY TypedAll, AllServed

LEMMA ReapFollows == ASSUME Inv, Cache, Reap PROVE Cache'
<1>1. SameWorld /\ client' = client /\ up' = up /\ Dispatched(peer)
    BY DEF Reap, SameWorld, scene, session, histories
<1>2. \A w \in Peers : peer'[w] = peer[w] \/ peer'[w] = Gone(peer[w])
    BY <1>1, DispatchedAs DEF Dispatched
<1> QED
    BY <1>1, <1>2, TypedAll, AllServed

LEMMA CriticalFollows == ASSUME Inv, Cache, NEW e \in Entities, CriticalEvent(e) PROVE Cache'
<1> DEFINE sent(w, s) == IF Visible(s, e, ents[e].pos) THEN Emit(s, <<"event", e>>) ELSE s
           ps == Each(sent)
<1>1. SameWorld /\ client' = client /\ up' = up /\ Dispatched(ps)
    BY DEF CriticalEvent, SameWorld, scene, session, histories
<1>2. \A w \in Peers : ps[w] = Emit(peer[w], <<"event", e>>) \/ ps[w] = peer[w]
    BY DEF Each
<1> HIDE DEF ps
<1>3. \A w \in Peers : peer'[w] = ps[w] \/ peer'[w] = Gone(ps[w])
    BY <1>1, DispatchedAs DEF Dispatched
<1>4. ASSUME NEW w \in Peers PROVE Akin(peer[w], ps[w]) /\ Passes(client[w], peer[w], ps[w])
    <2>1. Akin(peer[w], Emit(peer[w], <<"event", e>>))
        BY EmitSame, HandlesAre DEF Same
    <2>2. Passes(client[w], peer[w], Emit(peer[w], <<"event", e>>))
        BY EventPasses, TypedAll
    <2> QED
        BY <1>2, <2>1, <2>2, TypedAll
<1> QED
    BY <1>1, <1>3, <1>4, AllServed

LEMMA FlushFollows == ASSUME Inv, Cache, FlushEvents PROVE Cache'
<1>1. PICK kept \in [Peers -> SUBSET Entities] : peer' = Each(LAMBDA w, s : SendVisuals(s, kept[w]))
    BY DEF FlushEvents
<1>2. SameWorld /\ client' = client /\ up' = up
    BY DEF FlushEvents, SameWorld, scene, session, histories
<1>3. \A w \in Peers : peer'[w] = SendVisuals(peer[w], kept[w]) \/ peer'[w] = peer[w]
    BY <1>1 DEF Each
<1>4. ASSUME NEW w \in Peers PROVE Akin(peer[w], peer'[w]) /\ Passes(client[w], peer[w], peer'[w])
    <2> DEFINE t == SendVisuals(peer[w], kept[w])
    <2>1. Akin(peer[w], t)
        BY VisualsThrough, HandlesAre DEF Through
    <2>2. Carried("visual", client[w], peer[w], t, kept[w])
        BY TypedAll, VisualsCarried
    <2> HIDE DEF t
    <2>3. Passes(client[w], peer[w], t)
        <3>1. \A x, what, p : Stands("visual", x, what, p)
            BY DEF Stands
        <3> QED
            BY <2>2, <3>1 DEF Carried, Carries, Passes, ShownOn
    <2> QED
        BY <1>3, <2>1, <2>3, TypedAll DEF t
<1> QED
    BY <1>2, <1>4, AllServed

LEMMA VisualFollows == ASSUME Inv, Cache, NEW e \in Entities, VisualEvent(e) PROVE Cache'
BY AsideFollows DEF VisualEvent, SameWorld, scene, session, histories

LEMMA AwayMoveFollows ==
    ASSUME Inv, Cache, NEW e \in Entities, NEW p \in conf.points, AwayMove(e, p) PROVE Cache'
BY AsideFollows DEF AwayMove, SameWorld, session, histories

LEMMA AwayLeavesFollows == ASSUME Inv, Cache, NEW e \in Entities, AwayLeaves(e) PROVE Cache'
BY AsideFollows DEF AwayLeaves, SameWorld, session, histories

LEMMA PushFollows == ASSUME Inv, Cache, PushBorderGhosts PROVE Cache'
BY AsideFollows DEF PushBorderGhosts, SameWorld, session, histories

LEMMA LoseFollows == ASSUME Inv, Cache, LoseGhost PROVE Cache'
BY AsideFollows DEF LoseGhost, SameWorld, session, histories

LEMMA ReceiveFollows == ASSUME Inv, Cache, ReceiveMesh PROVE Cache'
<1> DEFINE f == Head(link)
<1>1. link \in Seq(LinkFrame) /\ link # <<>>
    BY DEF ReceiveMesh, Inv, World
<1>2. f \in LinkFrame
    BY <1>1
<1>3. f[2] \in Entities /\ f[3] \in Points
    BY <1>2 DEF LinkFrame
<1>4. /\ conf' = conf /\ crashed' = crashed /\ client' = client /\ up' = up
      /\ twice' = twice /\ superseded' = superseded
      /\ MeshGhost(f[2], f[3]) \/ Adopt(f[2], f[3])
    BY DEF ReceiveMesh, session
<1> HIDE DEF f
<1>5. CASE MeshGhost(f[2], f[3]) /\ ents[f[2]] # None
    <2>1. SameWorld /\ peer' = peer
        BY <1>4, <1>5 DEF MeshGhost, Alive, SameWorld
    <2> QED
        BY <1>4, <2>1, AsideFollows
<1>6. CASE MeshGhost(f[2], f[3]) /\ ents[f[2]] = None
    BY <1>3, <1>4, <1>6, MeshGhostFollows
<1>7. CASE Adopt(f[2], f[3])
    BY <1>3, <1>4, <1>7, AdoptFollows
<1> QED
    BY <1>4, <1>5, <1>6, <1>7

LEMMA MonitorFollows == ASSUME Inv, Cache, MonitorTick PROVE Cache'
<1> DEFINE stale == {e \in Entities : ghosts[e] # None /\ ghosts[e].age = GhostTTL}
<1>1. /\ peer' = Each(LAMBDA w, s : RemoveAll(s, stale))
      /\ ghosts' = [e \in Entities |-> IF e \in stale \/ ghosts[e] = None THEN None
                                       ELSE [ghosts[e] EXCEPT !.age = @ + 1]]
      /\ ents' = ents /\ jumped' = jumped /\ twice' = twice /\ crashed' = crashed
      /\ client' = client /\ up' = up
    BY DEF MonitorTick, session, histories
<1>2. stale \in SUBSET Entities
    OBVIOUS
<1> HIDE DEF stale
<1>3. \A w \in Peers : peer'[w] = IF Here(w) THEN RemoveAll(peer[w], stale) ELSE peer[w]
    BY <1>1 DEF Each
<1>4. ASSUME NEW e \in Entities, e \notin stale PROVE What(e)' = What(e) /\ Spot(e)' = Spot(e)
    <2>1. ghosts[e] = None \/ ghosts[e] \in Ghost
        BY DEF Inv, World
    <2>2. ghosts'[e].pos = ghosts[e].pos
        BY <1>1, <1>4, <2>1 DEF Ghost
    <2> QED
        BY <1>1, <2>2 DEF What, Spot
<1>5. ASSUME NEW w \in Peers PROVE Follows(w)'
    <2> DEFINE c == client[w]
               s == peer[w]
               t == RemoveAll(s, stale)
    <2>1. Typed(c, s) /\ Follows(w) /\ Passes(c, s, s)
        BY TypedAll DEF Cache
    <2>2. Carried("remove", c, s, t, stale) /\ Through("remove", s, t, stale)
        BY <1>2, <2>1, RemoveCarried, RemoveThrough DEF Typed
    <2>3. Quietly(w)
        BY <1>1 DEF Quietly
    <2>4. CASE Here(w)
        <3>1. peer'[w] = t
            BY <1>3, <2>4
        <3> HIDE DEF t
        <3>2. LeftAs(w, t)
            BY <2>2, <3>1 DEF LeftAs, Through, Akin
        <3>3. ASSUME NEW e \in Entities PROVE Showing(w, t, e)
            <4> SUFFICES ASSUME Shows(w, e) PROVE Fits(c, t, e, What(e)', Spot(e)')
                BY DEF Showing
            <4>1. Fits(c, t, e, What(e), Spot(e))
                <5>1. Stands("remove", e, What(e), Spot(e))
                    BY DEF Stands
                <5> QED
                    BY <2>2, <5>1 DEF Carried, Carries, Shows
            <4>2. CASE e \in stale
                <5>1. e \notin t.view
                    BY <2>2, <4>2 DEF Through, Shown
                <5> QED
                    BY <4>1, <5>1, FitsUnseen
            <4>3. CASE e \notin stale
                BY <1>4, <4>1, <4>3
            <4> QED
                BY <4>2, <4>3
        <3> QED
            BY <2>1, <2>2, <2>3, <3>2, <3>3, Served DEF Carried, Typed
    <2>5. CASE ~Here(w)
        <3>1. peer'[w] = s /\ LeftAs(w, s)
            BY <1>3, <2>5 DEF LeftAs
        <3>2. \A e \in Entities : Showing(w, s, e)
            BY <2>5 DEF Showing, Here
        <3> QED
            BY <2>1, <2>3, <3>1, <3>2, Served DEF Passes, Typed
    <2> QED
        BY <2>4, <2>5
<1> QED
    BY <1>1, <1>5 DEF Cache, Clients

(***************************************************************************)
(* Steps on one connection.                                                *)
(***************************************************************************)
\* Nothing is sent to the others, and they do nothing.
LEMMA Still ==
    ASSUME Inv, Cache, SameWorld, NEW w \in Peers, client'[w] = client[w], w \in up' => w \in up,
           peer'[w] = peer[w] \/ peer'[w] = Gone(peer[w])
    PROVE  Follows(w)'
<1>1. Typed(client[w], peer[w]) /\ Passes(client[w], peer[w], peer[w]) /\ Follows(w)
    BY TypedAll DEF Cache
<1>2. LeftAs(w, peer[w])
    BY DEF LeftAs
<1> QED
    BY <1>1, <1>2, PassesServed DEF Typed

LEMMA OneFollows ==
    ASSUME Inv, Cache, SameWorld, NEW w \in Peers, NEW t, peer' = [peer EXCEPT ![w] = t],
           NEW c, client' = [client EXCEPT ![w] = c], \A v \in Peers : v # w /\ v \in up' => v \in up,
           Follows(w)'
    PROVE  Cache'
<1>1. Clients' /\ \A v \in Peers : v # w => client'[v] = client[v] /\ peer'[v] = peer[v]
    BY DEF Cache, Clients, Inv, World, Handles
<1>2. \A v \in Peers : v # w => Follows(v)'
    BY <1>1, Still
<1> QED
    BY <1>1, <1>2 DEF Cache

LEMMA OneDispatched ==
    ASSUME Inv, Cache, SameWorld, NEW w \in Peers, NEW t,
           NEW g, NEW all, DispatchedWith([peer EXCEPT ![w] = t], g, all), up' = up,
           NEW c, client' = [client EXCEPT ![w] = c],
           peer'[w] = t \/ peer'[w] = Gone(t) => Follows(w)'
    PROVE  Cache'
<1> DEFINE ps == [peer EXCEPT ![w] = t]
<1>1. /\ ps[w] = t
      /\ \A v \in Peers : v # w => ps[v] = peer[v]
    BY DEF Inv, World, Handles
<1>2. \A v \in Peers : peer'[v] = ps[v] \/ peer'[v] = Gone(ps[v])
    BY DispatchedAs
<1> HIDE DEF ps
<1>3. Clients' /\ \A v \in Peers : v # w => client'[v] = client[v]
    BY DEF Cache, Clients
<1>4. \A v \in Peers : v # w => Follows(v)'
    BY <1>1, <1>2, <1>3, Still
<1> QED
    BY <1>1, <1>2, <1>3, <1>4 DEF Cache

\* A handler answers one peer with nothing it would keep.
LEMMA OnePasses ==
    ASSUME Inv, Cache, SameWorld, NEW w \in Peers, NEW t, t.claims = peer[w].claims,
           NEW g, NEW all, DispatchedWith([peer EXCEPT ![w] = t], g, all), up' = up,
           client' = client, Passes(client[w], peer[w], t)
    PROVE  Cache'
<1>1. client' = [client EXCEPT ![w] = client[w]]
    BY DEF Cache, Clients
<1>2. ASSUME peer'[w] = t \/ peer'[w] = Gone(t) PROVE Follows(w)'
    <2>1. Typed(client[w], peer[w]) /\ Follows(w)
        BY TypedAll DEF Cache
    <2>2. LeftAs(w, t)
        BY <1>2 DEF LeftAs
    <2> QED
        BY <2>1, <2>2, PassesServed DEF Typed
<1> QED
    BY <1>1, <1>2, OneDispatched

LEMMA PaidPasses ==
    ASSUME Inv, Cache, NEW w \in Peers, NEW op
    PROVE  /\ Passes(client[w], peer[w], Paid(w, op)) /\ Typed(client[w], Paid(w, op))
           /\ Paid(w, op).claims = peer[w].claims /\ Paid(w, op).due = peer[w].due
           /\ Paid(w, op).wire = peer[w].wire
<1> DEFINE t == Paid(w, op)
<1>1. Typed(client[w], peer[w])
    BY TypedAll
<1>2. /\ IsHandle(t) /\ t.wire = peer[w].wire /\ t.cut = peer[w].cut /\ t.flag = peer[w].flag
      /\ t.due = peer[w].due /\ t.view = peer[w].view /\ t.given = peer[w].given
      /\ t.stray = peer[w].stray /\ t.lossy = peer[w].lossy /\ t.unseen = peer[w].unseen
      /\ t.claims = peer[w].claims
    BY <1>1 DEF Paid, Typed, IsHandle, Fields
<1> HIDE DEF t
<1>3. Passes(client[w], peer[w], t)
    BY <1>1, <1>2, SamePasses
<1>4. Typed(client[w], t)
    BY <1>1, <1>2 DEF Typed
<1> QED
    BY <1>2, <1>3, <1>4 DEF t

\* What a peer is answered whose frame is not handed on.
LEMMA RefusedPasses ==
    ASSUME Inv, Cache, NEW w \in Peers, NEW op, Refuses(w, op)
    PROVE  \E t : /\ Passes(client[w], peer[w], t) /\ t.claims = peer[w].claims
                  /\ Dispatched([peer EXCEPT ![w] = t])
<1>1. Typed(client[w], peer[w])
    BY TypedAll
<1> DEFINE s == Paid(w, op)
           t == Emit(peer[w], <<"reject">>)
           u == Emit(s, <<"reject">>)
<1>2. /\ Passes(client[w], peer[w], s) /\ Typed(client[w], s) /\ s.claims = peer[w].claims
    BY PaidPasses
<1>3. Dispatched([peer EXCEPT ![w] = t]) \/ Dispatched([peer EXCEPT ![w] = u])
    BY DEF Refuses
<1> HIDE DEF s
<1>4. Passes(client[w], peer[w], t) /\ Passes(client[w], s, u)
    BY <1>1, <1>2, MarkPasses
<1>5. t.claims = peer[w].claims /\ u.claims = peer[w].claims
    BY <1>1, <1>2, EmitSame DEF Typed, Same, Akin
<1> HIDE DEF t, u
<1>6. Passes(client[w], peer[w], u)
    BY <1>2, <1>4, PassesPasses
<1> QED
    BY <1>3, <1>4, <1>5, <1>6

LEMMA RefusesFollows ==
    ASSUME Inv, Cache, SameWorld, NEW w \in Peers, NEW op, Refuses(w, op), up' = up,
           client' = client
    PROVE  Cache'
<1>1. PICK t : /\ Passes(client[w], peer[w], t) /\ t.claims = peer[w].claims
               /\ Dispatched([peer EXCEPT ![w] = t])
    BY RefusedPasses
<1> QED
    BY <1>1, OnePasses DEF Dispatched

LEMMA InspectorFollows == ASSUME Inv, Cache, NEW w \in Peers, InspectorQuery(w) PROVE Cache'
<1> DEFINE answer == IF "inspector" \in peer[w].claims.attributes THEN "inspector" ELSE "reject"
           s == Paid(w, "InspectorQuery")
           t == Emit(s, <<answer>>)
<1>1. Dispatched([peer EXCEPT ![w] = t]) \/ Refuses(w, "InspectorQuery")
    BY Zenon DEF InspectorQuery, Ingress, Refuses
<1>2. SameWorld /\ up' = up /\ client' = client
    BY DEF InspectorQuery, SameWorld, scene, session, histories
<1>3. /\ Passes(client[w], peer[w], s) /\ Typed(client[w], s) /\ s.claims = peer[w].claims
    BY PaidPasses
<1>4. answer \in {"reject", "inspector"}
    OBVIOUS
<1> HIDE DEF s, answer
<1>5. Passes(client[w], s, t)
    BY <1>3, <1>4, MarkPasses
<1>6. t.claims = peer[w].claims
    BY <1>3, EmitSame DEF Typed, Same, Akin
<1> HIDE DEF t
<1>7. Passes(client[w], peer[w], t)
    BY <1>3, <1>5, PassesPasses
<1> QED
    BY <1>1, <1>2, <1>6, <1>7, OnePasses, RefusesFollows DEF Dispatched

LEMMA RefillFollows == ASSUME Inv, Cache, NEW w \in Peers, Refill(w) PROVE Cache'
<1> DEFINE t == [peer[w] EXCEPT !.tokens = Min({conf.burst, @ + conf.rate})]
<1>1. SameWorld /\ up' = up /\ client' = client /\ peer' = [peer EXCEPT ![w] = t]
    BY DEF Refill, SameWorld, scene, session, histories
<1>2. Typed(client[w], peer[w]) /\ Follows(w)
    BY TypedAll DEF Cache
<1>3. /\ IsHandle(t) /\ t.wire = peer[w].wire /\ t.cut = peer[w].cut /\ t.flag = peer[w].flag
      /\ t.due = peer[w].due /\ t.view = peer[w].view /\ t.given = peer[w].given
      /\ t.stray = peer[w].stray /\ t.lossy = peer[w].lossy /\ t.unseen = peer[w].unseen
      /\ t.claims = peer[w].claims
    BY <1>2 DEF Typed, IsHandle, Fields
<1> HIDE DEF t
<1>4. Passes(client[w], peer[w], t)
    BY <1>2, <1>3, SamePasses
<1>5. peer'[w] = t
    BY <1>1 DEF Inv, World, Handles
<1>6. Follows(w)'
    BY <1>1, <1>2, <1>3, <1>4, <1>5, PassesServed DEF LeftAs, Typed
<1>7. client' = [client EXCEPT ![w] = client[w]]
    BY <1>1 DEF Cache, Clients
<1> QED
    BY <1>1, <1>6, <1>7, OneFollows

\* The interest changes, and the rows with the view.
LEMMA InterestFollows ==
    ASSUME Inv, Cache, NEW w \in Peers, NEW aoi \in AreaType, Interest(w, aoi) PROVE Cache'
<1> DEFINE paid == Paid(w, "Interest")
           asked == [paid EXCEPT !.aoi = aoi, !.seq = [e \in Entities |-> 0]]
           told == IF aoi.center = None /\ asked.claims.region = "OBS" /\ ~GlobalObserver(asked)
                   THEN Emit(asked, <<"reject">>) ELSE asked
           S == {e \in Entities : ents[e] # None}
           after == ReconcileAll(told, S)
           g == GridWith(w, asked, peer[w])
           all == GlobalWith(w, asked)
<1>1. DispatchedWith([peer EXCEPT ![w] = after], g, all) \/ Refuses(w, "Interest")
    BY Zenon DEF Interest, Ingress, Refuses
<1>2. SameWorld /\ up' = up /\ client' = client
    BY DEF Interest, SameWorld, scene, session, histories
<1>3. Passes(client[w], peer[w], paid) /\ Typed(client[w], paid) /\ paid.claims = peer[w].claims
    BY PaidPasses
<1> HIDE DEF paid, g, all
<1>4. /\ IsHandle(asked) /\ asked.wire = paid.wire /\ asked.cut = paid.cut /\ asked.flag = paid.flag
      /\ asked.due = paid.due /\ asked.view = paid.view /\ asked.given = paid.given
      /\ asked.stray = paid.stray /\ asked.lossy = paid.lossy /\ asked.unseen = paid.unseen
      /\ asked.claims = paid.claims
    BY <1>3 DEF Typed, IsHandle, Fields
<1> HIDE DEF asked
<1>5. Passes(client[w], paid, asked) /\ Typed(client[w], asked)
    BY <1>3, <1>4, SamePasses DEF Typed
<1>6. Passes(client[w], asked, told) /\ Typed(client[w], told) /\ told.claims = peer[w].claims
    <2>1. Passes(client[w], asked, Emit(asked, <<"reject">>)) /\ Passes(client[w], asked, asked)
        BY <1>5, MarkPasses, PassesSelf
    <2>2. Emit(asked, <<"reject">>).claims = asked.claims
        BY <1>4, EmitSame DEF Same, Akin
    <2>3. Passes(client[w], asked, told) /\ told.claims = peer[w].claims
        BY <1>3, <1>4, <2>1, <2>2
    <2> HIDE DEF told
    <2> QED
        BY <1>5, <2>3, SendsTyped DEF Passes
<1> HIDE DEF told
<1>7. S \in SUBSET Entities /\ \A e \in S : ents[e].pos \in Int
    BY DEF Inv, World, Placement, Points
<1>8. Carried("reconcile", client[w], told, after, S) /\ after.claims = peer[w].claims
    <2>1. Through("reconcile", told, after, S)
        BY <1>6, <1>7, ReconcileThrough DEF Typed
    <2> QED
        BY <1>6, <1>7, <2>1, ReconcileCarried DEF Through, Akin
<1>9. Passes(client[w], peer[w], told)
    BY <1>3, <1>5, <1>6, PassesPasses
<1> HIDE DEF after
<1>10. CASE Refuses(w, "Interest")
    BY <1>2, <1>10, RefusesFollows
<1>11. CASE DispatchedWith([peer EXCEPT ![w] = after], g, all)
    <2>1. Sends(client[w], peer[w], after) /\ Level(client[w], peer[w], after)
        BY <1>8, <1>9 DEF Passes, Carried, Sends, Level
    <2>2. ASSUME NEW e \in Entities PROVE Showing(w, after, e)
        <3> SUFFICES ASSUME Shows(w, e) PROVE Fits(client[w], after, e, What(e), Spot(e))
            BY <1>2 DEF Showing, SameWorld, What, Spot
        <3>1. Fits(client[w], told, e, What(e), Spot(e))
            BY <1>9 DEF Passes, ShownOn, Shows
        <3>2. e \in S => Stands("reconcile", e, What(e), Spot(e))
            BY DEF Stands, What, Spot
        <3> QED
            BY <1>8, <3>1, <3>2 DEF Carried, Carries
    <2>3. ASSUME peer'[w] = after \/ peer'[w] = Gone(after) PROVE Follows(w)'
        <3>1. LeftAs(w, after)
            BY <1>8, <2>3 DEF LeftAs
        <3>2. IsHandle(peer[w]) /\ Follows(w)
            BY HandlesAre DEF Cache
        <3>3. Quietly(w)
            BY <1>2 DEF Quietly, SameWorld
        <3> QED
            BY <2>1, <2>2, <3>1, <3>2, <3>3, Served
    <2>4. client' = [client EXCEPT ![w] = client[w]]
        BY <1>2 DEF Cache, Clients
    <2> QED
        BY <1>2, <1>11, <2>3, <2>4, OneDispatched
<1> QED
    BY <1>1, <1>10, <1>11

(***************************************************************************)
(* The client asks for everything, and is answered.                        *)
(***************************************************************************)
\* A client that starts again; what it counts goes on.
LEMMA AskingIs ==
    ASSUME NEW c \in ClientType, NEW d \in ClientType, d.got = c.got, NEW s, Typed(c, s)
    PROVE  Will(d, s).got = Will(c, s).got
BY ReadEvents DEF Will, Typed

LEMMA ResyncFollows == ASSUME Inv, Cache, NEW w \in Peers, BeginResync(w) PROVE Cache'
<1> DEFINE c == client[w]
           s == peer[w]
           d == [Cleared(c) EXCEPT !.phase = "Resyncing", !.asked = TRUE]
<1>1. /\ SameWorld /\ up' = up /\ peer' = peer /\ client' = [client EXCEPT ![w] = d]
      /\ c.phase = "Live" \/ s.wire = <<>>
    BY DEF BeginResync, SameWorld, scene, histories
<1>2. Typed(c, s) /\ Follows(w)
    BY TypedAll DEF Cache
<1>3. d \in ClientType /\ d.phase = "Resyncing" /\ d.got = c.got
    <2>1. NoRows \in Rows
        <3>1. NoRows = [e \in DOMAIN NoRows |-> NoRows[e]] /\ DOMAIN NoRows = {}
            BY DEF NoRows
        <3> QED
            BY <3>1, RowsAre
    <2> QED
        BY <1>2, <2>1 DEF Typed, ClientType, Cleared
<1> HIDE DEF d
<1>4. Answers(s.wire) = {}
    BY <1>1, <1>2 DEF Follows, Wire, Answers
<1>5. peer'[w] = s /\ client'[w] = d
    BY <1>1 DEF Cache, Clients
<1>6. Wire(client[w], peer[w].wire)'
    <2>1. s.wire \in Seq(Frames)
        BY <1>2 DEF Typed
    <2> QED
        BY <1>3, <1>4, <1>5, <2>1 DEF Wire
<1>7. Will(d, s).phase = "Resyncing" /\ Will(d, s).got = Will(c, s).got
    BY <1>2, <1>3, <1>4, ReadTypes, AskingIs DEF Will, Typed
<1>8. Reading(w)'
    BY <1>1, <1>2, <1>5, <1>7 DEF Follows, Reading, Here
<1>9. peer' = [peer EXCEPT ![w] = s]
    BY <1>1 DEF Inv, World, Handles
<1> QED
    BY <1>1, <1>6, <1>8, <1>9, OneFollows DEF Follows

\* An answer has what there is that the peer sees, as it is.
LEMMA RowsForIs ==
    ASSUME Inv, NEW s, NEW r, r = RowsFor(s)
    PROVE  /\ r \in Rows
           /\ \A e \in DOMAIN r : e \notin twice =>
                /\ r[e].ghost <=> What(e) = "ghost"
                /\ Spot(e) # None => r[e].pos = Spot(e)
<1> DEFINE real == {e \in Entities : ents[e] # None /\ Visible(s, e, ents[e].pos)}
           mirrored == {e \in Entities \ real : ghosts[e] # None /\ Visible(s, e, ghosts[e].pos)}
<1>1. r = [e \in real \cup mirrored |->
              IF e \in real THEN [pos |-> ents[e].pos, ghost |-> FALSE]
              ELSE [pos |-> ghosts[e].pos, ghost |-> TRUE]]
    BY DEF RowsFor
<1>2. /\ real \subseteq Entities /\ mirrored \subseteq Entities
      /\ \A e \in real : ents[e] # None
      /\ \A e \in mirrored : ghosts[e] # None
    OBVIOUS
<1> HIDE DEF real, mirrored
<1>3. ASSUME NEW e \in DOMAIN r
      PROVE  /\ r[e] \in RowType
             /\ e \notin twice => /\ r[e].ghost <=> What(e) = "ghost"
                                  /\ Spot(e) # None => r[e].pos = Spot(e)
    <2>1. e \in real \cup mirrored /\ e \in Entities
        BY <1>1, <1>2
    <2>2. /\ ents[e] # None => ents[e].pos \in Int
          /\ ghosts[e] # None => ghosts[e].pos \in Int
        BY <2>1 DEF Inv, World, Placement, Ghost, Points
    <2>3. CASE e \in real
        <3>1. r[e] = [pos |-> ents[e].pos, ghost |-> FALSE] /\ ents[e] # None
            BY <1>1, <1>2, <2>1, <2>3
        <3> QED
            BY <2>2, <3>1 DEF RowType, What, Spot
    <2>4. CASE e \notin real
        <3>1. r[e] = [pos |-> ghosts[e].pos, ghost |-> TRUE] /\ ghosts[e] # None
            BY <1>1, <1>2, <2>1, <2>4
        <3>2. e \notin twice => ents[e] = None
            BY <2>1, <3>1 DEF Inv, Told, Shadow
        <3> QED
            BY <2>2, <3>1, <3>2 DEF RowType, What, Spot
    <2> QED
        BY <2>3, <2>4
<1>4. r \in Rows
    <2>1. r = [e \in DOMAIN r |-> r[e]] /\ DOMAIN r \subseteq Entities
        BY <1>1, <1>2
    <2> QED
        BY <1>3, <2>1, RowsAre
<1> QED
    BY <1>3, <1>4

LEMMA AppendAnswers ==
    ASSUME NEW q \in Seq(Frames), Answers(q) = {}, NEW f \in Frames
    PROVE  \A i \in Answers(Append(q, f)) : i = Len(q) + 1
BY DEF Answers

\* The rows of an answer fit the view, but for what is marked.
LEMMA AnswerFits ==
    ASSUME Inv, NEW c, NEW t, NEW r, r = RowsFor(t), ~Lost(t) => Will(c, t).rows = r,
           t.stray = (t.view \ DOMAIN r) \cup (DOMAIN r \ t.view),
           t.unseen = {e \in DOMAIN r \ t.view : r[e].ghost},
           \A e \in DOMAIN r : e \notin t.lossy, NEW e \in Entities, e \notin twice
    PROVE  Fits(c, t, e, What(e), Spot(e))
<1>1. e \in DOMAIN r => /\ r[e].ghost <=> What(e) = "ghost"
                        /\ Spot(e) # None => r[e].pos = Spot(e)
    BY RowsForIs
<1> QED
    BY <1>1 DEF Fits

LEMMA EntityQueryFollows == ASSUME Inv, Cache, NEW w \in Peers, EntityQuery(w) PROVE Cache'
<1> DEFINE c == client[w]
           d == [c EXCEPT !.asked = FALSE]
           s == Paid(w, "EntityQuery")
           rows == RowsFor(s)
           answered == Emit(s, <<"rows", rows>>)
           t == [answered EXCEPT !.stray = (s.view \ DOMAIN rows) \cup (DOMAIN rows \ s.view),
                                 !.unseen = {e \in DOMAIN rows \ s.view : rows[e].ghost},
                                 !.lossy = @ \ DOMAIN rows]
<1>1. Dispatched([peer EXCEPT ![w] = t]) \/ Refuses(w, "EntityQuery")
    BY Zenon DEF EntityQuery, Ingress, Refuses
<1>2. /\ SameWorld /\ up' = up /\ client' = [client EXCEPT ![w] = d]
      /\ c.asked
    BY DEF EntityQuery, SameWorld, scene, histories
<1>3. Typed(c, peer[w]) /\ Follows(w)
    BY TypedAll DEF Cache
<1>4. c.phase = "Resyncing" /\ Answers(peer[w].wire) = {}
    BY <1>2, <1>3 DEF Follows, Wire
<1>5. d \in ClientType /\ d.phase = "Resyncing" /\ ~d.asked /\ d.got = c.got
    BY <1>3, <1>4 DEF Typed, ClientType
<1>6. /\ Typed(c, s) /\ s.claims = peer[w].claims /\ s.wire = peer[w].wire /\ s.due = peer[w].due
      /\ Passes(c, peer[w], s)
    BY PaidPasses
<1>7. client'[w] = d
    BY <1>2 DEF Cache, Clients
<1> HIDE DEF d, s
<1>8. Typed(d, s) /\ Typed(d, peer[w])
    BY <1>3, <1>5, <1>6 DEF Typed
<1>9. /\ Will(d, s).phase = "Resyncing" /\ Will(d, s) \in ClientType
      /\ Will(d, s) = Will(d, peer[w])
      /\ Will(d, s).got = Will(c, peer[w]).got
    <2>1. Will(d, s).phase = "Resyncing" /\ Will(d, s) \in ClientType
        BY <1>4, <1>5, <1>6, <1>8, ReadTypes DEF Will, Typed
    <2>2. Will(d, s) = Will(d, peer[w])
        BY <1>6 DEF Will
    <2> QED
        BY <1>3, <1>5, <2>1, <2>2, AskingIs DEF Typed
<1>10. Reading(w) /\ s.cut = peer[w].cut /\ (Lost(peer[w]) => Lost(s))
    BY <1>3, <1>6 DEF Follows, Passes, Sends
<1>11. CASE Refuses(w, "EntityQuery")
    <2>1. PICK u : /\ Passes(c, peer[w], u) /\ u.claims = peer[w].claims
                   /\ Dispatched([peer EXCEPT ![w] = u])
        BY <1>11, RefusedPasses
    <2>2. ASSUME peer'[w] = u \/ peer'[w] = Gone(u) PROVE Follows(w)'
        <3>1. peer'[w].wire = u.wire /\ u.wire \in Seq(Frames) /\ Answers(u.wire) = {}
            BY <1>4, <2>1, <2>2, GoneIs DEF Passes, Sends
        <3>2. Wire(client[w], peer[w].wire)'
            BY <1>5, <1>7, <3>1 DEF Wire
        <3>3. Reading(w)'
            <4> SUFFICES ASSUME w \in up', Here(w)', ~Lost(peer'[w])
                         PROVE  /\ Will(d, u).phase = "Resyncing" /\ Will(d, u).got = u.due
                                /\ peer'[w] = u
                BY <1>7 DEF Reading
            <4>1. peer'[w] = u /\ ~Lost(u) /\ Here(w) /\ ~Lost(peer[w]) /\ w \in up
                BY <1>2, <2>1, <2>2, GoneIs DEF Here, Passes, Sends
            <4>2. Will(c, u).got = u.due
                BY <1>10, <2>1, <4>1 DEF Reading, Passes, Sends
            <4>3. Typed(c, u)
                BY <1>3, <2>1, SendsTyped DEF Passes
            <4>4. Will(d, u).got = Will(c, u).got /\ Will(d, u).phase = "Resyncing"
                <5>1. Will(d, u).got = Will(c, u).got
                    BY <1>3, <1>5, <4>3, AskingIs DEF Typed
                <5>2. Read(d, u.wire).phase = d.phase
                    BY <1>5, <4>3, <3>1, ReadTypes DEF Typed
                <5> QED
                    BY <1>5, <5>1, <5>2 DEF Will
            <4> QED
                BY <4>1, <4>2, <4>4
        <3> QED
            BY <3>2, <3>3 DEF Follows
    <2> QED
        BY <1>2, <2>1, <2>2, OneDispatched DEF Dispatched
<1>12. CASE Dispatched([peer EXCEPT ![w] = t])
    <2> DEFINE f == <<"rows", rows>>
    <2>1. rows \in Rows /\ f \in Answer /\ f \in Frames /\ f[2] = rows
        BY RowsForIs DEF Answer, Frames
    <2>2. ~Degradable(f) /\ IsAnswer(f) /\ Events(f) = 0 /\ f[1] = "rows"
        BY DEF Degradable, IsAnswer, Events
    <2> HIDE DEF f
    <2>3. /\ Typed(d, answered) /\ answered.cut = s.cut /\ (Lost(s) => Lost(answered))
          /\ answered.wire = s.wire \/ answered.wire = Append(s.wire, f)
          /\ ~Lost(answered) => /\ answered.view = s.view /\ answered.given = s.given
                                /\ Will(d, answered) = Apply(Will(d, s), f)
                                /\ Queued(s, answered, f)
        <3>1. answered = Emit(s, f)
            BY DEF f
        <3> HIDE DEF answered
        <3>2. /\ Typed(d, answered) /\ answered.cut = s.cut /\ (Lost(s) => Lost(answered))
              /\ answered.wire = s.wire \/ answered.wire = Append(s.wire, f)
              /\ ~Lost(answered) => /\ answered.view = s.view /\ answered.given = s.given
                             /\ \/ Will(d, answered) = Will(d, s) /\ Dropped(s, answered, f)
                                \/ Will(d, answered) = Apply(Will(d, s), f) /\ Queued(s, answered, f)
            BY <1>8, <2>1, <3>1, EmitCases
        <3>3. ~Dropped(s, answered, f)
            BY <2>2 DEF Dropped
        <3> QED
            BY <3>2, <3>3
    <2>4. answered.claims = s.claims /\ answered.view = s.view /\ answered.aoi = s.aoi
        BY <1>6, EmitSame DEF Typed, Same, Akin
    <2> HIDE DEF answered, rows
    <2>5. /\ t.wire = answered.wire /\ t.claims = s.claims /\ t.due = answered.due
          /\ t.view = s.view /\ (Lost(t) <=> Lost(answered)) /\ t.aoi = s.aoi
          /\ t.stray = (t.view \ DOMAIN rows) \cup (DOMAIN rows \ t.view)
          /\ t.unseen = {e \in DOMAIN rows \ t.view : rows[e].ghost}
          /\ \A e \in DOMAIN rows : e \notin t.lossy
        BY <2>3, <2>4 DEF Typed, IsHandle, Fields, Lost
    <2> HIDE DEF t
    <2>6. rows = RowsFor(t)
        <3>1. \A e, p : Visible(t, e, p) <=> Visible(s, e, p)
            BY <2>5 DEF Visible, Interested, DefaultInterest, GlobalObserver
        <3> QED
            BY <3>1, Zenon DEF RowsFor, rows
    <2>7. /\ t.wire \in Seq(Frames)
          /\ \A i, j \in Answers(t.wire) : i = j
        <3>1. s.wire \in Seq(Frames) /\ Answers(s.wire) = {} /\ t.wire \in Seq(Frames)
            BY <1>4, <1>6, <1>8, <2>3, <2>5 DEF Typed
        <3>2. \A i \in Answers(Append(s.wire, f)) : i = Len(s.wire) + 1
            BY <2>1, <3>1, AppendAnswers
        <3>3. t.wire = s.wire \/ t.wire = Append(s.wire, f)
            BY <2>3, <2>5
        <3> QED
            BY <3>1, <3>2, <3>3
    <2>8. ASSUME peer'[w] = t \/ peer'[w] = Gone(t) PROVE Follows(w)'
        <3>1. peer'[w].wire = t.wire
            BY <2>8, GoneIs
        <3>2. Wire(client[w], peer[w].wire)'
            BY <1>5, <1>7, <2>7, <3>1 DEF Wire
        <3>3. ASSUME w \in up', Here(w)', ~Lost(peer'[w])
              PROVE  /\ peer'[w] = t
                     /\ Will(d, t).got = t.due /\ Will(d, t).depth = 0
                     /\ \A e \in Entities : e \notin twice => Fits(d, t, e, What(e), Spot(e))
            <4>1. /\ peer'[w] = t /\ ~Lost(t) /\ ~Lost(answered) /\ ~Lost(s)
                  /\ w \in up /\ Here(w) /\ ~Lost(peer[w])
                BY <1>2, <1>6, <1>10, <2>3, <2>5, <2>8, <3>3, GoneIs DEF Here
            <4>2. Will(d, t) = Apply(Will(d, s), f)
                BY <2>3, <2>5, <4>1 DEF Will
            <4>3. /\ Will(d, t).got = Will(d, s).got /\ Will(d, t).depth = 0
                  /\ Will(d, t).rows = rows
                BY <1>9, <2>1, <2>2, <4>2, AnswerIs DEF ClientType
            <4>4. t.due = s.due
                BY <2>2, <2>3, <2>5, <4>1 DEF Queued
            <4>5. Will(c, peer[w]).got = peer[w].due
                BY <1>10, <4>1 DEF Reading
            <4>6. \A e \in Entities : e \notin twice => Fits(d, t, e, What(e), Spot(e))
                BY <2>5, <2>6, <4>3, AnswerFits
            <4> QED
                BY <1>6, <1>9, <4>1, <4>3, <4>4, <4>5, <4>6
        <3>4. \A e : What(e)' = What(e) /\ Spot(e)' = Spot(e) /\ twice' = twice
            BY <1>2 DEF SameWorld, What, Spot
        <3>5. Reading(w)'
            BY <1>7, <3>3, <3>4 DEF Reading, Shows
        <3> QED
            BY <3>2, <3>5 DEF Follows
    <2> QED
        BY <1>2, <1>12, <2>8, OneDispatched DEF Dispatched
<1> QED
    BY <1>1, <1>11, <1>12

(***************************************************************************)
(* Reading the channel.                                                    *)
(***************************************************************************)
LEMMA WireRead ==
    ASSUME NEW c, NEW q, Wire(c, q), NEW n \in 0..Len(q)
    PROVE  Wire(Read(c, SubSeq(q, 1, n)), SubSeq(q, n + 1, Len(q)))
<1> DEFINE first == SubSeq(q, 1, n)
           rest == SubSeq(q, n + 1, Len(q))
           d == Read(c, first)
<1>1. c \in ClientType /\ q \in Seq(Frames)
    BY DEF Wire
<1>2. /\ first \in Seq(Frames) /\ Len(first) = n /\ \A i \in 1..n : first[i] = q[i]
      /\ rest \in Seq(Frames) /\ Len(rest) = Len(q) - n
      /\ \A i \in 1..(Len(q) - n) : rest[i] = q[n + i]
    BY <1>1
<1> HIDE DEF first, rest
<1>3. d \in ClientType /\ d.asked = c.asked /\ (Answers(first) = {} => d.phase = c.phase)
    BY <1>1, <1>2, ReadTypes
<1>4. \A i \in Answers(first) : i \in Answers(q)
    BY <1>1, <1>2 DEF Answers
<1>5. \A i \in Answers(rest) : n + i \in Answers(q) /\ i \in Nat \ {0}
    <2> SUFFICES ASSUME NEW i \in Answers(rest) PROVE n + i \in Answers(q) /\ i \in Nat \ {0}
        OBVIOUS
    <2>1. i \in 1..Len(rest) /\ IsAnswer(rest[i])
        BY <1>2 DEF Answers
    <2>2. i \in 1..(Len(q) - n) /\ rest[i] = q[n + i]
        BY <1>2, <2>1
    <2>3. n + i \in 1..Len(q) /\ i \in Nat \ {0}
        BY <1>1, <2>2
    <2> QED
        BY <1>1, <2>1, <2>2, <2>3 DEF Answers
<1>6. \A i, j \in Answers(rest) : i = j
    <2>1. SUFFICES ASSUME NEW i \in Answers(rest), NEW j \in Answers(rest) PROVE i = j
        OBVIOUS
    <2>2. n + i = n + j
        BY <1>5 DEF Wire
    <2> QED
        BY <1>5, <2>2
<1>7. Answers(rest) # {} => Answers(first) = {}
    <2> SUFFICES ASSUME NEW i \in Answers(rest), NEW j \in Answers(first) PROVE FALSE
        OBVIOUS
    <2>1. n + i = j
        BY <1>4, <1>5 DEF Wire
    <2>2. j \in 1..n
        BY <1>2 DEF Answers
    <2> QED
        BY <1>5, <2>1, <2>2
<1>8. Answers(rest) # {} => Answers(q) # {}
    BY <1>5
<1>9. c.asked => Answers(q) = {} /\ Answers(first) = {}
    BY <1>4 DEF Wire
<1> HIDE DEF d
<1>10. Answers(rest) # {} => d.phase = "Resyncing" /\ ~d.asked
    BY <1>3, <1>7, <1>8 DEF Wire
<1>11. d.asked => d.phase = "Resyncing"
    BY <1>3, <1>9 DEF Wire
<1> QED
    BY <1>2, <1>3, <1>6, <1>10, <1>11 DEF Wire, d, first, rest

LEMMA DeliverFollows == ASSUME Inv, Cache, Deliver PROVE Cache'
<1>1. SameWorld /\ up' = up
    BY DEF Deliver, SameWorld, scene, histories
<1>2. PICK ws \in LET ready == {w \in up : peer[w].wire # <<>>}
                  IN  IF conf.prompt THEN {ready} \ {{}} ELSE {{w} : w \in ready} :
        LET n(w) == IF w \notin ws THEN 0 ELSE IF conf.prompt THEN Len(peer[w].wire) ELSE 1
        IN  /\ client' = [w \in Peers |-> FoldLeft(Apply, client[w], SubSeq(peer[w].wire, 1, n(w)))]
            /\ peer' = [w \in Peers |-> [peer[w] EXCEPT !.wire = SubSeq(@, n(w) + 1, Len(@))]]
    BY Zenon DEF Deliver
<1> DEFINE n(w) == IF w \notin ws THEN 0 ELSE IF conf.prompt THEN Len(peer[w].wire) ELSE 1
<1>3. /\ client' = [w \in Peers |-> Read(client[w], SubSeq(peer[w].wire, 1, n(w)))]
      /\ peer' = [w \in Peers |-> [peer[w] EXCEPT !.wire = SubSeq(@, n(w) + 1, Len(@))]]
    BY <1>2 DEF Read
<1>4. \A w \in ws : peer[w].wire # <<>>
    BY <1>2
<1>5. ASSUME NEW w \in Peers PROVE Follows(w)'
    <2> DEFINE q == peer[w].wire
               c == client[w]
               s == peer[w]
               m == n(w)
               d == Read(c, SubSeq(q, 1, m))
               t == [s EXCEPT !.wire = SubSeq(q, m + 1, Len(q))]
    <2>1. Typed(c, s) /\ Follows(w)
        BY TypedAll DEF Cache
    <2>2. q \in Seq(Frames)
        BY <2>1 DEF Typed
    <2>3. m \in 0..Len(q)
        BY <1>4, <2>2
    <2>4. client'[w] = d /\ peer'[w] = t
        BY <1>3
    <2> HIDE DEF n, m
    <2>5. Wire(d, SubSeq(q, m + 1, Len(q)))
        BY <2>1, <2>3, WireRead DEF Follows
    <2>6. Read(d, SubSeq(q, m + 1, Len(q))) = Read(c, q)
        BY <2>2, <2>3, ReadOn
    <2>7. /\ t.wire = SubSeq(q, m + 1, Len(q)) /\ t.claims = s.claims /\ t.cut = s.cut
          /\ t.flag = s.flag /\ t.due = s.due /\ t.view = s.view /\ t.given = s.given
          /\ t.stray = s.stray /\ t.lossy = s.lossy /\ t.unseen = s.unseen
        BY <2>1 DEF Typed, IsHandle, Fields
    <2> HIDE DEF d, t
    <2>8. Will(d, t) = Will(c, s) /\ (Lost(t) <=> Lost(s))
        BY <2>6, <2>7 DEF Will, Lost
    <2>9. \A e, what, p : Fits(c, s, e, what, p) => Fits(d, t, e, what, p)
        BY <2>7, <2>8 DEF Fits
    <2>10. \A e : What(e)' = What(e) /\ Spot(e)' = Spot(e) /\ twice' = twice /\ crashed' = crashed
        BY <1>1 DEF SameWorld, What, Spot
    <2>11. Reading(w)'
        BY <1>1, <2>1, <2>4, <2>7, <2>8, <2>9, <2>10 DEF Follows, Reading, Shows, Here
    <2> QED
        BY <2>4, <2>5, <2>7, <2>11 DEF Follows
<1>6. Clients'
    BY <1>3 DEF Clients
<1> QED
    BY <1>5, <1>6 DEF Cache

(***************************************************************************)
(* Connections.                                                            *)
(***************************************************************************)
LEMMA ClosedIs ==
    /\ Closed \in ClientType /\ [Closed EXCEPT !.phase = "Live"] \in ClientType
    /\ Wire(Closed, <<>>) /\ Wire([Closed EXCEPT !.phase = "Live"], <<>>)
<1>1. NoRows \in Rows
    <2>1. NoRows = [e \in DOMAIN NoRows |-> NoRows[e]] /\ DOMAIN NoRows = {}
        BY DEF NoRows
    <2> QED
        BY <2>1, RowsAre
<1>2. Closed \in ClientType /\ [Closed EXCEPT !.phase = "Live"] \in ClientType
    BY <1>1 DEF Closed, ClientType
<1>3. Answers(<<>>) = {} /\ <<>> \in Seq(Frames)
    BY DEF Answers
<1> QED
    BY <1>2, <1>3 DEF Wire, Closed

LEMMA ClosesFollows == ASSUME Inv, Cache, NEW w \in Peers, ClientCloses(w) PROVE Cache'
<1> DEFINE t == [peer[w] EXCEPT !.wire = <<>>, !.flag = Here(w) /\ @, !.cut = Here(w)]
<1>1. /\ SameWorld /\ up' = up \ {w} /\ client' = [client EXCEPT ![w] = Closed]
      /\ peer' = [peer EXCEPT ![w] = t]
    BY DEF ClientCloses, SameWorld, scene, histories
<1>2. client'[w] = Closed /\ peer'[w] = t
    BY <1>1 DEF Cache, Clients, Inv, World, Handles
<1>3. t.wire = <<>>
    BY HandlesAre DEF IsHandle, Fields
<1> HIDE DEF t
<1>4. Follows(w)'
    BY <1>1, <1>2, <1>3, ClosedIs DEF Follows, Reading
<1> QED
    BY <1>1, <1>4, OneFollows

LEMMA LoopEndsFollows == ASSUME Inv, Cache, NEW w \in Peers, LoopEnds(w) PROVE Cache'
<1> DEFINE t == Gone(peer[w])
<1>1. /\ SameWorld /\ up' = up /\ client' = client /\ peer' = [peer EXCEPT ![w] = t]
    BY DEF LoopEnds, SameWorld, scene, histories
<1>2. client'[w] = client[w] /\ peer'[w] = t /\ client' = [client EXCEPT ![w] = client[w]]
    BY <1>1 DEF Cache, Clients, Inv, World, Handles
<1>3. Follows(w)
    BY DEF Cache
<1>4. Follows(w)'
    BY <1>2, <1>3, GoneIs DEF Follows, Reading, Here
<1> HIDE DEF t
<1> QED
    BY <1>1, <1>2, <1>4, OneFollows

LEMMA FlaggedEndsFollows == ASSUME Inv, Cache, NEW w \in Peers, FlaggedEnds(w) PROVE Cache'
<1>1. /\ SameWorld /\ up' = up \ {w} /\ client' = [client EXCEPT ![w] = Closed]
      /\ peer' = [peer EXCEPT ![w] = Nobody]
    BY DEF FlaggedEnds, SameWorld, scene, histories
<1>2. client'[w] = Closed /\ peer'[w] = Nobody
    BY <1>1 DEF Cache, Clients, Inv, World, Handles
<1>3. Nobody.wire = <<>>
    BY DEF Nobody
<1>4. Follows(w)'
    BY <1>1, <1>2, <1>3, ClosedIs DEF Follows, Reading
<1> QED
    BY <1>1, <1>4, OneFollows

\* A connection begins with rows for what it is checked out.
LEMMA ConnectFollows == ASSUME Inv, Cache, NEW w \in Peers, Connect(w) PROVE Cache'
<1>1. PICK r : /\ Resolve(r) # None
               /\ LET fresh == [Nobody EXCEPT !.claims = Resolve(r), !.tokens = conf.burst]
                      shown == {e \in Entities : ents[e] # None /\ Visible(fresh, e, ents[e].pos)}
                  IN  /\ peer' = [peer EXCEPT ![w] = CheckoutAll(fresh, w, shown)]
                      /\ grid' = GridWith(w, fresh, Nobody)
                      /\ global' = GlobalWith(w, fresh)
    BY Zenon DEF Connect
<1> DEFINE fresh == [Nobody EXCEPT !.claims = Resolve(r), !.tokens = conf.burst]
           shown == {e \in Entities : ents[e] # None /\ Visible(fresh, e, ents[e].pos)}
           t == CheckoutAll(fresh, w, shown)
           c == [Closed EXCEPT !.phase = "Live"]
<1>2. peer' = [peer EXCEPT ![w] = t]
    BY <1>1
<1>3. SameWorld /\ up' = up \cup {w} /\ client' = [client EXCEPT ![w] = c]
    BY DEF Connect, SameWorld, scene
<1>4. client'[w] = c /\ peer'[w] = t
    BY <1>2, <1>3 DEF Cache, Clients, Inv, World, Handles
<1>5. /\ IsHandle(fresh) /\ fresh.wire = <<>> /\ fresh.view = {} /\ fresh.due = 0
      /\ ~fresh.cut /\ ~fresh.flag
    BY DEF Nobody, IsHandle, Fields
<1>6. c \in ClientType /\ c.depth = 0 /\ c.got = 0 /\ DOMAIN c.rows = {} /\ c.phase = "Live"
    BY ClosedIs DEF Closed, NoRows
<1>7. shown \in SUBSET Entities /\ \A e \in shown : ents[e] # None /\ ents[e].pos \in Int
    BY DEF Inv, World, Placement, Points
<1> HIDE DEF fresh, c, shown
<1>8. Typed(c, fresh) /\ Will(c, fresh) = c
    BY <1>5, <1>6, ReadNothing DEF Typed, Will
<1>9. Carried("checkout", c, fresh, t, shown)
    BY <1>7, <1>8, CheckoutCarried
<1> HIDE DEF t
<1>10. ASSUME NEW e \in Entities PROVE Fits(c, t, e, What(e), Spot(e))
    <2>1. Fits(c, fresh, e, What(e), Spot(e))
        BY <1>5, <1>6, <1>8 DEF Fits
    <2>2. e \in shown => Stands("checkout", e, What(e), Spot(e))
        BY <1>7 DEF Stands, What, Spot
    <2> QED
        BY <1>9, <2>1, <2>2 DEF Carried, Carries
<1>11. \A e : What(e)' = What(e) /\ Spot(e)' = Spot(e)
    BY <1>3 DEF SameWorld, What, Spot
<1>12. /\ t.wire \in Seq(Frames) /\ Answers(t.wire) = {}
       /\ ~Lost(t) => Will(c, t).got = t.due /\ Will(c, t).depth = 0
    <2>1. Answers(fresh.wire) = {}
        BY <1>5 DEF Answers
    <2> QED
        BY <1>5, <1>6, <1>8, <1>9, <2>1 DEF Carried, Sends, Level
<1>13. Wire(client[w], peer[w].wire)'
    BY <1>4, <1>6, <1>12, ClosedIs DEF Wire, c
<1>14. Reading(w)'
    BY <1>4, <1>10, <1>11, <1>12 DEF Reading, Shows
<1> QED
    BY <1>2, <1>3, <1>13, <1>14, OneFollows DEF Follows

(***************************************************************************)
(* Every step.                                                             *)
(***************************************************************************)
LEMMA CacheInit == Init => Cache
<1> SUFFICES ASSUME Init PROVE Cache
    OBVIOUS
<1>1. /\ client = [w \in Peers |-> Closed] /\ up = {} /\ peer = [w \in Peers |-> Nobody]
      /\ Nobody.wire = <<>>
    BY DEF Init, Nobody
<1>2. \A w \in Peers : Follows(w)
    BY <1>1, ClosedIs DEF Follows, Reading
<1>3. Clients
    BY <1>1 DEF Clients
<1> QED
    BY <1>2, <1>3 DEF Cache

LEMMA CacheNext == Inv /\ Cache /\ [Next]_vars => Cache'
<1> SUFFICES ASSUME Inv, Cache, [Next]_vars PROVE Cache'
    OBVIOUS
<1>1. CASE vars' = vars
    <2>1. SameWorld /\ client' = client /\ up' = up /\ peer' = peer
        BY <1>1 DEF vars, scene, session, histories, SameWorld
    <2> QED
        BY <2>1, AsideFollows
<1>2. ASSUME NEW w \in Peers, Connect(w) \/ ClientCloses(w) \/ LoopEnds(w) \/ FlaggedEnds(w)
                              \/ Refill(w) \/ BeginResync(w) \/ EntityQuery(w) \/ InspectorQuery(w)
      PROVE  Cache'
    BY <1>2, ConnectFollows, ClosesFollows, LoopEndsFollows, FlaggedEndsFollows, RefillFollows,
       ResyncFollows, EntityQueryFollows, InspectorFollows
<1>3. ASSUME NEW w \in Peers, w \in DOMAIN conf.aois, NEW aoi \in conf.aois[w], Interest(w, aoi)
      PROVE  Cache'
    <2>1. aoi \in AreaType
        BY <1>3, ViewConstants DEF Inv, World
    <2> QED
        BY <1>3, <2>1, InterestFollows
<1>4. CASE Deliver \/ Reap \/ FlushEvents \/ MonitorTick \/ PushBorderGhosts \/ LoseGhost \/ ReceiveMesh
    BY <1>4, DeliverFollows, ReapFollows, FlushFollows, MonitorFollows, PushFollows, LoseFollows,
       ReceiveFollows
<1>5. ASSUME NEW e \in Entities, CriticalEvent(e) \/ VisualEvent(e) \/ DeleteEntity(e) \/ AwayLeaves(e)
      PROVE  Cache'
    BY <1>5, CriticalFollows, VisualFollows, DeleteFollows, AwayLeavesFollows
<1>6. ASSUME NEW e \in Entities, NEW p \in conf.points,
             Move(e, p) \/ Fold(e, p) \/ CreateEntity(e, p) \/ Depart(e, p) \/ AwayMove(e, p)
      PROVE  Cache'
    BY <1>6, MoveFollows, FoldFollows, CreateFollows, DepartFollows, AwayMoveFollows
<1>7. ASSUME NEW e \in Entities, NEW p \in conf.points, NEW q \in conf.points, MoveTwice(e, p, q)
      PROVE  Cache'
    BY <1>7, MoveTwiceFollows
<1> QED
    BY <1>1, <1>2, <1>3, <1>4, <1>5, <1>6, <1>7, Zenon DEF Next

LEMMA CacheMeans == Inv /\ Cache => CacheFollows
<1> SUFFICES ASSUME Inv, Cache, NEW w \in Peers, w \in up, Here(w), ~peer[w].cut, ~peer[w].flag,
                    peer[w].wire = <<>>, client[w].phase = "Live", ~crashed
             PROVE  LET s == peer[w]
                        c == client[w] IN
                    /\ \A e \in Entities \ (s.stray \cup twice) : e \in DOMAIN c.rows <=> e \in s.view
                    /\ \A e \in (Entities \cap s.view)
                                  \ (s.stray \cup s.lossy \cup s.given \cup s.unseen \cup twice) :
                        IF Alive(e) THEN c.rows[e] = [pos |-> ents[e].pos, ghost |-> FALSE]
                                         \/ jumped[e] > 0
                        ELSE c.rows[e] = [pos |-> ghosts[e].pos, ghost |-> TRUE]
                    /\ c.depth = 0
                    /\ c.got = s.due
    BY Zenon DEF CacheFollows
<1> DEFINE s == peer[w]
           c == client[w]
<1>1. Follows(w) /\ ~Lost(s) /\ Will(c, s) = c /\ c \in ClientType
    BY ReadNothing DEF Cache, Lost, Will, Follows, Wire
<1>2. c.got = s.due /\ c.depth = 0 /\ \A e \in Entities : e \notin twice => Shows(w, e)
    BY <1>1 DEF Follows, Reading
<1>3. ASSUME NEW e \in Entities, e \notin twice
      PROVE  /\ e \notin s.stray => (e \in DOMAIN c.rows <=> e \in s.view)
             /\ e \in DOMAIN c.rows /\ e \notin s.unseen =>
                    (c.rows[e].ghost <=> e \notin s.stray /\ What(e) = "ghost")
             /\ (/\ e \in s.view /\ e \notin s.stray /\ e \notin s.lossy
                 /\ e \notin s.given /\ e \notin s.unseen /\ Spot(e) # None)
                    => c.rows[e].pos = Spot(e)
    BY <1>1, <1>2, <1>3 DEF Shows, Fits
<1>4. ASSUME NEW e \in Entities, e \notin twice, e \in s.view, e \notin s.stray, e \notin s.lossy,
             e \notin s.given, e \notin s.unseen
      PROVE  IF Alive(e) THEN c.rows[e] = [pos |-> ents[e].pos, ghost |-> FALSE]
                              \/ jumped[e] > 0
             ELSE c.rows[e] = [pos |-> ghosts[e].pos, ghost |-> TRUE]
    <2>1. c.rows[e] \in RowType
        BY <1>1, <1>3, <1>4, RowsAre DEF ClientType
    <2>2. CASE ents[e] # None
        <3>1. ents[e].pos # None
            BY <2>2, ViewConstants DEF Inv, World, Placement, Points
        <3>2. jumped[e] = 0 \/ jumped[e] > 0
            BY DEF Inv, World
        <3>3. jumped[e] = 0 => Spot(e) = ents[e].pos /\ What(e) = "entity"
            BY <2>2 DEF Spot, What
        <3> QED
            BY <1>3, <1>4, <2>1, <2>2, <3>1, <3>2, <3>3 DEF RowType, Alive
    <2>3. CASE ents[e] = None
        <3>1. ghosts[e] # None
            BY <1>4, <2>3 DEF Inv, Told, Named, Here
        <3>2. ghosts[e].pos # None
            BY <3>1, ViewConstants DEF Inv, World, Ghost, Points
        <3>3. Spot(e) = ghosts[e].pos /\ What(e) = "ghost"
            BY <2>3 DEF Spot, What
        <3> QED
            BY <1>3, <1>4, <2>1, <2>3, <3>2, <3>3 DEF RowType, Alive
    <2> QED
        BY <2>2, <2>3
<1> QED
    BY <1>2, <1>3, <1>4

\* A consumer that has read its channel and was not cut off has rows for its view, with the
\* positions and marks the broker has, whatever was shed, reordered or asked for meanwhile.
THEOREM CacheFollowsView == Spec => []CacheFollows
<1>1. Init => Inv /\ Cache
    BY InvInit, CacheInit
<1>2. Inv /\ Cache /\ [Next]_vars => Inv' /\ Cache'
    BY InvNext, CacheNext
<1> QED
    BY <1>1, <1>2, CacheMeans, PTL DEF Spec
=============================================================================
