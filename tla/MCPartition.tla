----------------------------- MODULE MCPartition -----------------------------
EXTENDS Partition

CONSTANTS a, b, c, w1, w2, w3

MCParent == [e \in Entities |-> IF e = c THEN a ELSE None]

On(n) == {<<x, 0>> : x \in -n .. n}
Strips ==
    [grid |-> FALSE, ids |-> {a, c}, bounds |-> <<0>>, cols |-> 0, rows |-> 0, cell |-> 1,
     owners |-> (<<W, 0>> :> w1 @@ <<E, 0>> :> w2), mesh |-> {}, home |-> None,
     standbys |-> <<w3>>, spots |-> On(2), weight |-> [e \in Entities |-> 1],
     revs |-> 2, fails |-> 0, starts |-> 0]
\* The other half of the line is another broker's.
Half ==
    [Strips EXCEPT !.owners = (<<W, 0>> :> w1), !.mesh = {<<E, 0>>}, !.ids = {a, b},
                   !.spots = {<<-2, 0>>, <<0, 0>>, <<2, 0>>}, !.revs = 1, !.starts = 1]
Advertised == [Half EXCEPT !.home = <<W, 0>>, !.ids = {a}]
Three ==
    [Strips EXCEPT !.bounds = <<-1, 1>>, !.spots = {<<-3, 0>>, <<1, 0>>, <<2, 0>>},
                   !.owners = (<<Z(0), 0>> :> w1 @@ <<Z(1), 0>> :> w2 @@ <<Planet, 0>> :> w2),
                   !.ids = {a, b}, !.revs = 1, !.fails = 1, !.starts = 1]

Row ==
    [grid |-> TRUE, ids |-> Entities, bounds |-> <<0>>, cols |-> 3, rows |-> 1, cell |-> 4,
     owners |-> (<<Cell(0, 0), 0>> :> w1 @@ <<Cell(1, 0), 0>> :> w1
                 @@ <<Cell(2, 0), 0>> :> w2),
     mesh |-> {}, home |-> None, standbys |-> <<>>,
     spots |-> {<<1, 1>>, <<6, 1>>, <<9, 1>>},
     weight |-> (a :> 16 @@ b :> 17 @@ c :> 18),
     revs |-> 0, fails |-> 0, starts |-> 0]
\* Two axes, and a corner of another broker's.
Square ==
    [Row EXCEPT !.cols = 2, !.rows = 2, !.ids = {a, b},
                !.owners = (<<Cell(0, 0), 0>> :> w1 @@ <<Cell(1, 0), 0>> :> w2
                            @@ <<Cell(0, 1), 0>> :> w1),
                !.mesh = {<<Cell(1, 1), 0>>},
                !.spots = {<<1, 1>>, <<4, 3>>, <<1, 6>>, <<9, 6>>}]

MCDeployments == {Strips, Half, Advertised, Three, Row, Square}
=============================================================================
