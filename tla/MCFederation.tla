---------------------------- MODULE MCFederation ----------------------------
EXTENDS Federation, TLC

CONSTANTS w1, w2, e1, a

MCRegionOf == w1 :> "W" @@ w2 :> "W" @@ e1 :> "E"
Calm == [nodes |-> {w1, w2, e1}, first |-> {w1, e1}, home |-> a :> w1, overlap |-> FALSE, starts |-> 0, crashes |-> 0, freezes |-> 0,
         cuts |-> 0, drains |-> 0, moves |-> 0]
\* A second incarnation takes over from one that has lost the registry.
Takeover == [Calm EXCEPT !.starts = 1, !.freezes = 1, !.drains = 1]
\* Two incarnations start together; heartbeats overlap, and one may die in the middle.
Together == [Calm EXCEPT !.nodes = {w1, w2}, !.first = {}, !.starts = 3, !.crashes = 1,
                         !.overlap = TRUE]
\* Rolling deploys, of both sides.
Rolling == [Calm EXCEPT !.starts = 1, !.drains = 1, !.moves = 1]
BothDrain == [Calm EXCEPT !.drains = 2]
\* Crashes and restarts.
Crashes == [Calm EXCEPT !.starts = 1, !.crashes = 1, !.moves = 1, !.drains = 1]
\* Links that break, next to a second incarnation.
Cuts == [Calm EXCEPT !.starts = 1, !.cuts = 1, !.moves = 1, !.home = a :> e1]
\* A drain whose link breaks while the entity comes back.
Bounce == [Calm EXCEPT !.cuts = 1, !.moves = 2, !.drains = 1]
MCDeployments == {Takeover, Together, Rolling, BothDrain, Crashes, Cuts, Bounce}
=============================================================================
