------------------------------- MODULE MCView -------------------------------
EXTENDS View, TLC

CONSTANTS a, b, w1, w2, c1, o1

MCServes == "W" :> w1 @@ "E" :> w2
Token(region, attributes) ==
    [proto |-> 1, tokens |-> TRUE, bound |-> [region |-> region, attributes |-> attributes],
     region |-> None, attributes |-> {}]
Client == Token("CLIENT", {})
Pilot == Token("CLIENT", {"pilot"})
Observer(attributes) == Token("OBS", attributes)
Plain(region, attributes) ==
    [proto |-> 1, tokens |-> FALSE, bound |-> None, region |-> region, attributes |-> attributes]
Area(c, r) == [NoArea EXCEPT !.center = c, !.radius = r]
Calm == [soft |-> 20, hard |-> 20, burst |-> 0, rate |-> 0, prompt |-> TRUE, connects |-> 1,
         events |-> 0, meshed |-> FALSE, hidden |-> {}, ids |-> {a}, points |-> Points, resyncs |-> {}]

\* A viewer with areas, beside the workers of the two regions.
Areas ==
    [requests |-> w1 :> {Plain("W", {})} @@ w2 :> {Plain("E", {})} @@ c1 :> {Client},
     ops |-> {"create", "move", "fold", "delete"},
     aois |-> c1 :> {Area(0, 0), Area(3, 0), Area(1, 2)}] @@ Calm
\* A client that reads slowly: a small channel, events and the governor.
Slow == [soft |-> 3, hard |-> 5, prompt |-> FALSE, connects |-> 2, events |-> 1,
         points |-> {1, 3}, requests |-> c1 :> {Client}, ops |-> {"create", "move", "event"},
         aois |-> c1 :> {Area(1, 1)}] @@ Calm
Bursts == [Slow EXCEPT !.ops = {"create", "visual", "event"}, !.points = {1}]
\* A pilot far from most of what it sees, which is coarse, and who asks for resyncs.
Coarse == [requests |-> c1 :> {Pilot}, ops |-> {"create", "move", "event", "visual", "delete"},
           resyncs |-> {c1}, events |-> 1,
           aois |-> c1 :> {[Area(1, 1) EXCEPT !.full = 0, !.rate = 2, !.coarse = 3]}] @@ Calm
\* Ghosts of the neighbour's entities, which come and go, and are created once more.
Seam == [requests |-> w1 :> {Plain("W", {})} @@ c1 :> {Client}, meshed |-> TRUE,
         ops |-> {"create", "move", "delete", "recreate"}, resyncs |-> {c1},
         aois |-> c1 :> {Area(1, 1)}] @@ Calm
\* Who is admitted, the roles and the ingress bucket.
Visits == [requests |-> o1 :> {Observer({"observer", "inspector"}), Observer({}),
                               Plain("OBS", {}), Plain(None, {"observer"})},
           ops |-> {"create", "move", "drop", "inspect"}, resyncs |-> {o1}, connects |-> 2,
           burst |-> 5, rate |-> 2, hidden |-> {a}, points |-> {0, 2},
           aois |-> o1 :> {NoArea, Area(0, 1)}] @@ Calm
\* Consumers that drop and come back before the broker has noticed.
Returns == [requests |-> w1 :> {Plain("W", {})} @@ c1 :> {Client},
            ops |-> {"create", "move", "drop"}, connects |-> 2, points |-> {0, 3},
            aois |-> c1 :> {Area(0, 0), Area(3, 0)}] @@ Calm
MCDeployments == {Areas, Slow, Bursts, Coarse, Seam, Visits, Returns}
=============================================================================
