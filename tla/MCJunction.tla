----------------------------- MODULE MCJunction -----------------------------
(* Model checking Junction: the networks of the files.                       *)
EXTENDS Junction

Vehicle(id, group, left) ==
    [id |-> id, kind |-> "vehicle", group |-> group, left |-> left]

Pair(group) ==
    { [id |-> 8, kind |-> "pedestrian", group |-> group, left |-> NoGroup],
      [id |-> 9, kind |-> "pedestrian", group |-> group, left |-> NoGroup] }

Phase(lasts, green, yellow) ==
    [lasts |-> lasts, green |-> green, yellow |-> yellow]

Network(heads, phases) == [heads |-> heads, phases |-> phases, offset |-> 0]

\* One road and a crossing of its own.
Road == {Vehicle(1, 1, NoGroup)} \cup Pair(2)

\* The same, with a protected left turn.
Turning == {Vehicle(1, 1, 3)} \cup Pair(2)

\* A crossing beside the road, which shares its green.
Beside == {Vehicle(1, 1, NoGroup), Vehicle(2, 1, NoGroup)} \cup Pair(1)

Plain == <<Phase(3, {1}, {}), Phase(1, {}, {1}), Phase(7, {2}, {})>>

\* WALK goes on over two phases and over the end of the cycle.
Split == <<Phase(3, {2}, {}), Phase(3, {1}, {}), Phase(4, {2}, {})>>

\* Too short to cross; somebody always walks; the road is green throughout.
Short == <<Phase(4, {2}, {}), Phase(3, {1}, {})>>
Always == <<Phase(3, {2}, {}), Phase(2, {2}, {})>>
Constant == <<Phase(6, {1}, {})>>

\* These do not load: a car has green or yellow while somebody walks alone.
Careless ==
    { <<Phase(3, {1}, {}), Phase(6, {1, 2}, {}), Phase(1, {}, {})>>,
      <<Phase(3, {1}, {}), Phase(7, {2}, {1})>> }

Lefts == <<Phase(3, {3}, {}), Phase(3, {1}, {}), Phase(6, {2}, {})>>

MCNetworks ==
    { Network(Road, p) : p \in {Plain, Split, Short, Always} \cup Careless }
    \cup { Network(Beside, p) : p \in {Plain, Constant} }
    \cup { Network(Turning, Lefts), [Network(Road, Plain) EXCEPT !.offset = 4] }

\* Two roads, one crossing, and no protected left turn.
Crossed == {Vehicle(1, 1, NoGroup), Vehicle(2, 3, NoGroup)} \cup Pair(2)

MCConflicts ==
    { Network(Crossed, <<Phase(3, {1, 3}, {}), Phase(6, {2}, {})>>) }
=============================================================================
