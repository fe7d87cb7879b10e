----------------------------- MODULE MCAuthority -----------------------------
EXTENDS Authority, TLC

CONSTANTS a, b, w1, w2, p1, p2, k, r1, W, E

MCServes == W :> w1 @@ E :> w2
Spot == [e \in Entities |-> IF e = a THEN 0 ELSE 3]

\* Commands, while the authority moves by hand-off and by the administrator.
Routing == [ids |-> {a}, sparse |-> {}, spot |-> Spot, home |-> W,
            peers |-> {w1, w2, p1, k}, drops |-> {}, ops |-> {"command"},
            sets |-> {<<w2, "island">>, <<None, "island">>},
            moves |-> {a}, epochs |-> 3, window |-> 0, commands |-> 2, starts |-> 0]
\* Thresholds, hand-offs and restarts.
Crossing == [ids |-> {a}, sparse |-> {}, spot |-> Spot, home |-> W,
             peers |-> {w1, w2, k}, drops |-> {w2}, ops |-> {"threshold", "wal"},
             sets |-> {<<w2, "arbitrated">>},
             moves |-> {a}, epochs |-> 3, window |-> 0, commands |-> 0, starts |-> 1]
\* Pilots and two bodies: a contact while the log fails and the broker restarts; two
\* clients with the attribute; a hand-off staged meanwhile; both bodies in one window.
Contact == [ids |-> {a, b}, sparse |-> {a, b}, spot |-> Spot, home |-> W,
            peers |-> {w1, p1}, drops |-> {p1}, ops |-> {"write", "wal"}, sets |-> {},
            moves |-> {}, epochs |-> 2, window |-> 1, commands |-> 0, starts |-> 1]
Shared == [Contact EXCEPT !.peers = {p1, p2}, !.drops = {}, !.ops = {"write"}, !.starts = 0]
Rezoned == [Shared EXCEPT !.peers = {p1}, !.moves = {a}]
Window == [Shared EXCEPT !.peers = {p1}, !.window = 2]

MCDeployments == {Routing, Crossing, Contact, Shared, Rezoned, Window}
=============================================================================
