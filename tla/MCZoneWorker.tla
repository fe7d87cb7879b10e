---------------------------- MODULE MCZoneWorker ----------------------------
EXTENDS ZoneWorker, TLC

CONSTANTS a, b, w1, w2, s1

Nothing == <<>>
Calm == [home |-> w1 :> "W" @@ w2 :> "E", spawns |-> w1 :> (a :> 1) @@ w2 :> Nothing @@ s1 :> Nothing,
         near |-> "W" :> {0, 1, 2} @@ "E" :> {1, 2, 3} @@ "STANDBY" :> {1, 2, 3},
         fold |-> {}, soft |-> 20, pipe |-> 0, starts |-> 1, cuts |-> 0, moves |-> 4, lapses |-> 0,
         fails |-> 0]
\* Bodies wander over the seam and back.
Wander == [Calm EXCEPT !.moves = 7]
\* Two bodies that cross in both directions.
Pair == [Calm EXCEPT !.moves = 4, !.spawns = w1 :> (a :> 1) @@ w2 :> (b :> 2) @@ s1 :> Nothing]
\* Two positions are sent before the first is published.
Burst == [Calm EXCEPT !.moves = 4, !.pipe = 1]
\* In fold mode, with a barrier that fails.
Folds == [Calm EXCEPT !.fold = {w1, w2}, !.fails = 1, !.moves = 5]
\* A worker restarts, and its region's default interest does not reach point 0.
Restarts == [Calm EXCEPT !.starts = 2, !.cuts = 1, !.moves = 3, 
                         !.near = "W" :> {1, 2, 3} @@ "E" :> {1, 2, 3} @@ "STANDBY" :> {1, 2, 3}]
\* A lease lapses, and a standby is there.
Failover == [Calm EXCEPT !.home = w1 :> "W" @@ w2 :> "E" @@ s1 :> "STANDBY", !.lapses = 1,
                         !.moves = 2, !.fails = 1]
\* A worker that reads slowly.
Slow == [Calm EXCEPT !.soft = 2, !.moves = 3]
\* An entity appears in a region whose worker is gone and whose failover is staged.
Orphan == [Failover EXCEPT !.cuts = 1, !.moves = 1, !.fails = 0,
                         !.spawns = w1 :> Nothing @@ w2 :> (b :> 1) @@ s1 :> Nothing]
MCDeployments == {Wander, Pair, Burst, Folds, Restarts, Failover, Orphan, Slow}
=============================================================================
