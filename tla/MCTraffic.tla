------------------------------ MODULE MCTraffic ------------------------------
(* Model checking the cars of the traffic, NpcNavigation and ImpactRecovery: *)
(* one car on its way that meets everything that can happen, one surprise at *)
(* a time; three cars that ask for searches; a car that is hit three times    *)
(* and moves in any way, however long that takes; and one whose every blow   *)
(* is remembered, for as many ticks as two episodes and the silence between  *)
(* them need.  What the hits of a car mean to its way is an input of         *)
(* NpcNavigation, so that a run is about one of the two.                     *)
EXTENDS NpcNavigation, ImpactRecovery

VARIABLE question    \* what the run is about: "way" or "hits"

trafficVars == <<vars, recoveryVars, question>>

Clear ==
    [ ahead |-> "none", distance |-> "far", slice |-> "none", hit |-> "as_is",
      red |-> FALSE, offset |-> FALSE, rear |-> TRUE, retreatable |-> TRUE,
      change |-> FALSE, detour |-> FALSE, routed |-> TRUE, arrived |-> FALSE,
      shifting |-> FALSE, displayed |-> TRUE, adopted |-> TRUE,
      missing |-> FALSE ]

BlockedBy(ahead, distance) ==
    [Clear EXCEPT !.ahead = ahead, !.distance = distance]

Obstacles ==
    { BlockedBy("queued_wall", "close"), BlockedBy("wall", "near"),
      BlockedBy("wall", "far"), BlockedBy("crash", "near") }

\* What is unusual about a tick at an obstacle.
Surprises(m) ==
    { m, [m EXCEPT !.rear = FALSE], [m EXCEPT !.change = TRUE],
      [m EXCEPT !.slice = "plan"], [m EXCEPT !.slice = "pending"],
      [m EXCEPT !.displayed = FALSE] }

OneCar ==
    [ npcs |-> 1, lane |-> 5, plan |-> 2,
      idle |-> {Clear, [Clear EXCEPT !.hit = "off"]},
      meets |-> {Clear, [Clear EXCEPT !.red = TRUE],
                 [Clear EXCEPT !.adopted = FALSE],
                 [Clear EXCEPT !.arrived = TRUE],
                 [Clear EXCEPT !.arrived = TRUE, !.routed = FALSE],
                 [Clear EXCEPT !.hit = "on"],
                 [Clear EXCEPT !.missing = TRUE],
                 BlockedBy("queue", "near"), BlockedBy("wall", "middle"),
                 [BlockedBy("wall", "near") EXCEPT !.detour = TRUE],
                 [BlockedBy("wall", "near") EXCEPT !.shifting = TRUE],
                 [BlockedBy("wall", "near") EXCEPT !.offset = TRUE],
                 [BlockedBy("crash", "near") EXCEPT !.retreatable = FALSE]}
                \cup UNION {Surprises(m) : m \in Obstacles} ]

Fleet ==
    [ npcs |-> 3, lane |-> 1, plan |-> 1,
      idle |-> {Clear},
      meets |-> { [BlockedBy("wall", "far") EXCEPT !.slice = "pending"],
                  BlockedBy("wall", "far") } ]

MCWorkloads == {OneCar, Fleet}

Usual ==
    [ enabled |-> TRUE, grounded |-> TRUE, posed |-> TRUE, lands |-> FALSE,
      overturns |-> FALSE, rests |-> TRUE, returned |-> FALSE,
      blocked |-> FALSE, blow |-> 0, moves |-> FALSE, shifted |-> FALSE,
      topples |-> FALSE ]

Shoved(n) == [Usual EXCEPT !.blow = n, !.moves = TRUE]

\* One thing unusual about a tick, with a blow or without.
Motion ==
    [ hits |-> 3, ticks |-> 1, listed |-> FALSE,
      meets |->
        { Usual, [Usual EXCEPT !.rests = FALSE],
          [Usual EXCEPT !.returned = TRUE], [Usual EXCEPT !.lands = TRUE],
          [Usual EXCEPT !.overturns = TRUE], [Usual EXCEPT !.posed = FALSE],
          [Usual EXCEPT !.blocked = TRUE],
          [Usual EXCEPT !.blocked = TRUE, !.rests = FALSE] }
        \cup { Shoved(n) : n \in {1, 3, 4} }
        \cup { [Usual EXCEPT !.blow = n] : n \in {1, 3} }
        \cup { [Shoved(3) EXCEPT !.topples = TRUE],
               [Usual EXCEPT !.blow = 1, !.shifted = TRUE],
               [Usual EXCEPT !.blow = 3, !.posed = FALSE],
               [Usual EXCEPT !.blow = 3, !.enabled = FALSE],
               [Shoved(3) EXCEPT !.grounded = FALSE] } ]

Blows ==
    [ hits |-> 5, ticks |-> 6, listed |-> TRUE,
      meets |-> { [Usual EXCEPT !.blow = n] : n \in {0, 1, 3, 4} }
                \cup { [Usual EXCEPT !.blow = 1, !.grounded = FALSE] } ]

MCTrials == {Motion, Blows}

TrafficInit ==
    /\ Init /\ RecoveryInit
    /\ \/ question = "way" /\ trial = Motion
       \/ question = "hits" /\ work = Fleet

TrafficNext ==
    \/ question = "way" /\ Next /\ UNCHANGED <<recoveryVars, question>>
    \/ question = "hits" /\ RecoveryNext /\ UNCHANGED <<vars, question>>

TrafficSpec ==
    /\ TrafficInit /\ [][TrafficNext]_trafficVars
    /\ question = "way" => Fairness
=============================================================================
