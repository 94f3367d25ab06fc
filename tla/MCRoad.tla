------------------------------- MODULE MCRoad -------------------------------
(* Model checking what the traffic meets on the road: the junctions of       *)
(* MCJunction, and NpcGround, the ground it drives on when that is measured. *)
(* A run is about one of the two.                                            *)
EXTENDS MCJunction, NpcGround

VARIABLE question    \* what the run is about: "junction" or "ground"

roadVars == <<vars, tileVars, question>>

Pose(stand, plan) == [stand |-> stand, plan |-> plan]

\* Two bodies on one tile that look ahead at what cannot be measured, and one
\* that goes to and fro: its tiles and theirs fill the cache.
Sharing ==
    [ routes |-> << <<Pose(<<1>>, <<4>>)>>, <<Pose(<<1>>, <<5>>)>>,
                    <<Pose(<<2>>, <<2>>), Pose(<<3>>, <<2>>)>> >>,
      solid |-> {1, 2, 3}, owners |-> 1, revisions |-> 1, delay |-> 0,
      notices |-> 1 ]

\* One body, while the sessions or the worlds change and frames are late.
Changing(owners, revisions) ==
    [ routes |-> << <<Pose(<<1>>, <<>>)>> >>,
      solid |-> {1}, owners |-> owners, revisions |-> revisions, delay |-> 1,
      notices |-> 1 ]

MCScenes == {Sharing, Changing(2, 1), Changing(1, 2)}

RoadInit ==
    /\ Init /\ TilesInit
    /\ \/ question = "junction" /\ scene = Sharing
       \/ /\ question = "ground" /\ net = Network(Road, Plain)
          /\ elapsed = 0 /\ follower.at = 0 /\ pedestrian.at = 0

RoadNext ==
    \/ question = "junction" /\ Next /\ UNCHANGED <<tileVars, question>>
    \/ question = "ground" /\ TilesNext /\ UNCHANGED <<vars, question>>

RoadSpec ==
    /\ RoadInit /\ [][RoadNext]_roadVars
    /\ question = "ground" => TilesFairness
=============================================================================
