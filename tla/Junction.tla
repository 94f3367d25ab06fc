------------------------------ MODULE Junction ------------------------------
(***************************************************************************)
(* A signalled junction: the signal plans a traffic network brings and     *)
(* what the loader demands of them (traffic_network.cpp), the signals a    *)
(* tick reads from them, a car that obeys them at its stop line            *)
(* (npc_lane_follower.cpp), a pedestrian who crosses on WALK               *)
(* (simulation_host_npc.cpp: prepare_pedestrians), and the snapshot of the *)
(* signals that every tick must send (vehicle_messages.cpp).               *)
(*                                                                         *)
(* A tick is several units of time long.  The car takes its substeps, one  *)
(* unit each, then the pedestrian walks, then the clock advances: nothing  *)
(* else runs in between.  The signals are read once, at the beginning of   *)
(* the tick; the car has to notice by itself that a green light runs out.  *)
(*                                                                         *)
(* The junction has one controller, as no rule relates two of them.  The   *)
(* one car and the one pedestrian stand for any: others only keep the car  *)
(* from moving on, which may always happen.  The route of the car is a     *)
(* controlled lane and a connector, in a loop; distances are whole.        *)
(***************************************************************************)
EXTENDS Integers, Sequences, FiniteSetsExt, Functions

CONSTANTS
    Networks,       \* networks in a file, before they are checked
    Tick,           \* length of a tick, in units of time
    Reach, Back,    \* the most a car goes on in a unit, backs in a tick
    Approach, Connector,   \* lengths of the two lanes
    Front, Margin,  \* front_extent_m, stop_margin_m
    Width,          \* the time a pedestrian needs to cross, in units
    Clearance,      \* kPedestrianCrossingClearanceSeconds, in units
    MaxDark         \* the most heads that break in a run

\* A substep moves a car by no more than 0.1 m.  A lane on which it starts has
\* room for it behind the line.
ASSUME RouteAssumption ==
    /\ {Tick, Reach, Back, Approach, Connector, Front, Margin} \subseteq Nat \ {0}
    /\ Front + Margin + Reach <= Approach

\* physics_hz is 5 or more; nothing checks that.
ASSUME ClearanceAssumption ==
    Width \in Nat \ {0} /\ Clearance \in Nat /\ Tick <= Clearance

Kinds == {"vehicle", "pedestrian"}
NoGroup == 0

\* heads: id, kind, group, left (a protected left turn, or NoGroup).
\* phases: how long each lasts, which groups it shows green and yellow.
ASSUME NetworkAssumption ==
    \A n \in Networks :
      /\ n.offset \in Nat
      /\ \A h \in n.heads : h.kind \in Kinds /\ h.group \in Nat \ {NoGroup}
                              /\ h.left \in Nat
      /\ n.phases \in Seq([ lasts : Nat \ {0}, green : SUBSET (Nat \ {NoGroup}),
                            yellow : SUBSET (Nat \ {NoGroup}) ])

VARIABLES
    net,        \* the network in use
    way, walk,  \* the groups the car and the pedestrian obey
    elapsed,    \* simulation time, modulo the cycle of the plan
    spent,      \* how much of this tick the car has used
    dark,       \* heads whose pole has been knocked down
    follower,   \* the car: progress_m_, stopline_committed, stopped
    pedestrian, \* progress, direction, crossing
    up,         \* the server runs
    admitted,   \* history: the car was let over the line in this tick
    held        \* history: the pedestrian was kept from walking on this trip

vars == <<net, way, walk, elapsed, spent, dark, follower, pedestrian, up,
          admitted, held>>

-----------------------------------------------------------------------------
(* Signal plans: TrafficNetwork::signals_at.                               *)

Lasts(n) == [i \in DOMAIN n.phases |-> n.phases[i].lasts]

Span(n, phases) == SumFunctionOnSet(Lasts(n), phases)

Cycle(n) == Span(n, DOMAIN n.phases)

\* The phase at time t of the cycle, and when it ends.
PhaseAt(n, t) ==
    CHOOSE i \in DOMAIN n.phases :
      Span(n, 1 .. i - 1) <= t /\ t < Span(n, 1 .. i)

Aspect(phase, group) ==
    IF group \in phase.green THEN "green"
    ELSE IF group \in phase.yellow THEN "yellow" ELSE "red"

\* position_ns, and what a group is shown then.
Position(n, t) == (t + n.offset) % Cycle(n)

AspectAt(n, t, group) == Aspect(n.phases[PhaseAt(n, Position(n, t))], group)

\* The phase k after phase i.
Following(n, i, k) == ((i + k - 1) % Len(n.phases)) + 1

\* Phases, from phase i on, that show a group the same as phase i does.
Alike(n, i, group) ==
    LET size == Len(n.phases)
        differs(k) == Aspect(n.phases[Following(n, i, k)], group)
                        # Aspect(n.phases[i], group)
    IN  {k \in 0 .. size - 1 : \A j \in 0 .. k : ~differs(j)}

\* countdown_for(): until the aspect changes, 0 if it never does.
CountdownFrom(n, i, position, group) ==
    LET alike == {Following(n, i, k) : k \in Alike(n, i, group)}
    IN  IF alike = DOMAIN n.phases THEN 0
        ELSE Span(n, alike) - (position - Span(n, 1 .. i - 1))

Countdown(n, t, group) ==
    CountdownFrom(n, PhaseAt(n, Position(n, t)), Position(n, t), group)

-----------------------------------------------------------------------------
(* What the loader demands: the parsing of the plans, validate_signal_plans. *)

Groups(h) == {h.group, h.left} \ {NoGroup}
VehicleHeads(n) == {h \in n.heads : h.kind = "vehicle"}
Movements(n) == UNION {Groups(h) : h \in VehicleHeads(n)}
Crossings(n) == {h.group : h \in n.heads \ VehicleHeads(n)}

Active(phase) == phase.green \cup phase.yellow

\* A crossing of its own, not one that shares the green of a road beside it.
Exclusive(n, group) == \A h \in VehicleHeads(n) : h.group # group

PlanIsSound(n) ==
    /\ n.phases # <<>> /\ n.offset < Cycle(n)
    /\ \A i \in DOMAIN n.phases : n.phases[i].green \cap n.phases[i].yellow = {}

\* A protected left turn belongs to one head, and to nothing else.
LeftsAreSound(n) ==
    \A h \in n.heads : h.left # NoGroup =>
      /\ h.kind = "vehicle" /\ h.left # h.group
      /\ \A o \in n.heads : o.group # h.left /\ (o # h => o.left # h.left)

\* Mutant of CrossingsAreSound: cars may go on while an exclusive WALK lasts.
CrossingsArePaired(n) ==
    \A g \in Crossings(n) :
      Cardinality({h \in n.heads : h.kind = "pedestrian" /\ h.group = g}) = 2

CrossingsAreSound(n) ==
    \A g \in Crossings(n) :
      /\ Cardinality({h \in n.heads : h.kind = "pedestrian" /\ h.group = g}) = 2
      /\ Exclusive(n, g) =>
           \A i \in DOMAIN n.phases :
             g \in Active(n.phases[i]) => Active(n.phases[i]) \cap Movements(n) = {}

\* With a protected left turn, one movement at a time.
MovementsAreSound(n) ==
    (\E h \in n.heads : h.left # NoGroup) =>
      \A i \in DOMAIN n.phases :
        Cardinality(Active(n.phases[i]) \cap Movements(n)) <= 1

Loads(n) ==
    /\ PlanIsSound(n) /\ LeftsAreSound(n)
    /\ CrossingsAreSound(n) /\ MovementsAreSound(n)

-----------------------------------------------------------------------------
(* The signals of a tick, and what they mean to a car and a pedestrian.    *)

Lit == net.heads \ dark

\* NpcLaneFollower::green(), a time of e after the beginning of the tick.
Green(e) ==
    /\ \E h \in Lit : way \in Groups(h)
    /\ AspectAt(net, elapsed, way) = "green"
    /\ Countdown(net, elapsed, way) > e

\* can_begin_crossing.
CanBegin ==
    LET remaining == Countdown(net, elapsed, walk)
    IN  /\ \E h \in Lit : h.kind = "pedestrian" /\ h.group = walk
        /\ AspectAt(net, elapsed, walk) = "green"
        /\ remaining = 0 \/ remaining >= Width + Clearance

\* serialize_world_state_envelope(): the movements that the lit heads permit.
\* What it refuses is thrown out of the tick, and ends the server.
Permitted(t) ==
    {p \in Lit \X (Movements(net) \cup Crossings(net)) :
       p[2] \in Groups(p[1]) /\ AspectAt(net, t, p[2]) # "red"}

Sendable(t) ==
    LET permitted == Permitted(t)
    IN  \/ \A p \in permitted : p[1].kind # "vehicle"
        \/ Cardinality({p[2] : p \in permitted}) <= 1

-----------------------------------------------------------------------------
(* NpcLaneFollower.                                                        *)

Round == Approach + Connector

\* The line ahead of the car, and the place where it waits there.
Line(f) == IF f.at <= Approach THEN Approach ELSE Round + Approach

WaitsAt(f) ==
    IF Line(f) - Front - Margin > f.at THEN Line(f) - Front - Margin ELSE f.at

\* How far step() lets it go, e after the beginning of the tick.
MayPass(f, e) == (f.committed /\ f.at <= Approach) \/ Green(e)

Limit(f, e) ==
    IF ~MayPass(f, e) /\ WaitsAt(f) <= f.at + Reach THEN WaitsAt(f)
                                                    ELSE f.at + Reach

\* update_commitment().
Commits(f, to, e) ==
    f.at + Front < Approach /\ to + Front >= Approach /\ Green(e)

Moved(f, to, e) ==
    IF to >= Round
      THEN [at |-> to - Round, committed |-> FALSE, stopped |-> FALSE]
      ELSE [ at |-> to, committed |-> f.committed \/ Commits(f, to, e),
             stopped |-> FALSE ]

\* Mutant of Retreated: a car that backs at all has to wait for green again.
RetreatedAtOnce(f, d) == [f EXCEPT !.at = @ - d, !.committed = FALSE]

\* retreat_for_obstacle().
Retreated(f, d) ==
    [ f EXCEPT !.at = @ - d,
               !.committed = @ /\ f.at - d + Front + Margin > Approach ]

LaneStart(f) == IF f.at < Approach THEN 0 ELSE Approach

\* can_retreat_from_current_lane().
CanRetreat(f) == f.stopped /\ (f.committed => f.at < Approach)

-----------------------------------------------------------------------------

Followers == [at : 0 .. Round - 1, committed : BOOLEAN, stopped : BOOLEAN]

Pedestrians ==
    [at : 0 .. Width, direction : {1, -1}, crossing : BOOLEAN]

TypeOK ==
    /\ net \in Networks /\ Loads(net)
    /\ way \in Movements(net) /\ walk \in Crossings(net)
    /\ elapsed \in 0 .. Cycle(net) - 1
    /\ spent \in 0 .. Tick + 1
    /\ dark \subseteq net.heads
    /\ follower \in Followers
    /\ pedestrian \in Pedestrians
    /\ up \in BOOLEAN /\ admitted \in BOOLEAN /\ held \in BOOLEAN

\* reset(): not on the last part of a controlled lane.  rebuild_pedestrians():
\* one from either side.
Placed(f, p) ==
    /\ f \in [ at : 0 .. Approach - Front - Margin \cup Approach .. Round - 1,
               committed : {FALSE}, stopped : {TRUE} ]
    /\ p \in { [at |-> 0, direction |-> 1, crossing |-> FALSE],
               [at |-> Width, direction |-> -1, crossing |-> FALSE] }

\* The network has just been loaded or reloaded, at any time.
Init ==
    /\ net \in {n \in Networks : Loads(n)}
    /\ way \in Movements(net) /\ walk \in Crossings(net)
    /\ elapsed \in 0 .. Cycle(net) - 1
    /\ spent = 0 /\ dark = {}
    /\ follower \in Followers /\ pedestrian \in Pedestrians
    /\ Placed(follower, pedestrian)
    /\ up = TRUE /\ admitted = FALSE /\ held = FALSE

\* A substep of step(); at its limit the car stands for the rest of the tick.
Drive(to) ==
    /\ up /\ spent < Tick
    /\ to <= Limit(follower, spent)
    /\ follower' =
         IF ~MayPass(follower, spent) /\ to = WaitsAt(follower)
           THEN [Moved(follower, to, spent) EXCEPT !.stopped = TRUE]
           ELSE Moved(follower, to, spent)
    /\ spent' = IF follower'.stopped THEN Tick ELSE spent + 1
    /\ admitted' = (admitted \/ (follower'.committed /\ ~follower.committed))
    /\ UNCHANGED <<net, way, walk, elapsed, dark, pedestrian, up, held>>

\* Something is in its way, it has been hit, or there is no ground ahead.
Halt ==
    /\ up /\ spent < Tick
    /\ follower' = [follower EXCEPT !.stopped = TRUE]
    /\ spent' = Tick
    /\ UNCHANGED <<net, way, walk, elapsed, dark, pedestrian, up, admitted, held>>

\* Its own ground is not measured: it is put back to where it was.
Freeze ==
    /\ up /\ spent = 0
    /\ spent' = Tick
    /\ UNCHANGED <<net, way, walk, elapsed, dark, follower, pedestrian, up,
                   admitted, held>>

\* It backs to win room, see NpcNavigation.
Retreat(d) ==
    /\ up /\ spent = 0
    /\ CanRetreat(follower) /\ d <= follower.at - LaneStart(follower)
    /\ follower' = Retreated(follower, d)
    /\ spent' = Tick
    /\ UNCHANGED <<net, way, walk, elapsed, dark, pedestrian, up, admitted, held>>

\* complete_lane_change(), onto another lane of the same approach.
ChangeLane(to) ==
    /\ up /\ spent = Tick
    /\ ~follower.committed /\ follower.at < Approach
    /\ follower' = [follower EXCEPT !.at = to]
    /\ spent' = Tick + 1
    /\ UNCHANGED <<net, way, walk, elapsed, dark, pedestrian, up, admitted, held>>

\* The clock advances, and the signals of its new time are sent.
EndOfTick(active) ==
    LET t == (elapsed + Tick) % Cycle(net)
    IN  /\ elapsed' = t
        /\ spent' = 0
        /\ up' = (active => Sendable(t))
        /\ admitted' = FALSE
        /\ UNCHANGED <<net, way, walk, dark>>

\* prepare_pedestrians(): the way of a pedestrian who may walk.
Walked(p) ==
    LET ahead == p.at + p.direction * Tick
        at == IF ahead > Width THEN Width ELSE IF ahead < 0 THEN 0 ELSE ahead
        arrived == at \in {0, Width}
    IN  [ at |-> at, crossing |-> ~arrived,
          direction |-> IF arrived THEN - p.direction ELSE p.direction ]

Walk ==
    /\ up /\ spent >= Tick
    /\ IF pedestrian.crossing \/ CanBegin
         THEN /\ pedestrian' = Walked(pedestrian)
              /\ held' = (pedestrian.crossing /\ held)
         ELSE UNCHANGED <<pedestrian, held>>
    /\ EndOfTick(TRUE)
    /\ UNCHANGED follower

\* A collision, something in the way, unmeasured ground: the pedestrian stays.
\* Where there is no ground at all the trip is given up.
Stay(trip) ==
    /\ up /\ spent >= Tick
    /\ pedestrian' = [pedestrian EXCEPT !.crossing = @ /\ trip]
    /\ held' = (held \/ pedestrian.crossing)
    /\ EndOfTick(TRUE)
    /\ UNCHANGED follower

\* A tick in which the driver is stopped, or one that is undone: time passes,
\* nobody moves.  All signals are red, unless it was only undone.
HeldTick(active) ==
    /\ up /\ spent = 0
    /\ follower' = [follower EXCEPT !.stopped = @ \/ ~active]
    /\ held' = (held \/ pedestrian.crossing)
    /\ EndOfTick(active)
    /\ UNCHANGED pedestrian

\* The pole of a head falls: its lamps are dark, the others go on.
Break(h) ==
    /\ up /\ spent = 0
    /\ Cardinality(dark) < MaxDark
    /\ h \in Lit
    /\ dark' = dark \cup {h}
    /\ UNCHANGED <<net, way, walk, elapsed, spent, follower, pedestrian, up,
                   admitted, held>>

\* A new play.
Restart ==
    /\ up /\ spent = 0
    /\ elapsed' = 0 /\ dark' = {} /\ held' = FALSE
    /\ follower' \in Followers /\ pedestrian' \in Pedestrians
    /\ Placed(follower', pedestrian')
    /\ UNCHANGED <<net, way, walk, spent, up, admitted>>

Next ==
    \/ \E n \in 0 .. Reach : Drive(follower.at + n)
    \/ Halt \/ Freeze
    \/ \E d \in 1 .. Back : Retreat(d)
    \/ \E to \in 0 .. Approach - Front - Margin : ChangeLane(to)
    \/ Walk
    \/ \E trip \in BOOLEAN : Stay(trip)
    \/ \E active \in BOOLEAN : HeldTick(active)
    \/ \E h \in net.heads : Break(h)
    \/ Restart

Spec == Init /\ [][Next]_vars

-----------------------------------------------------------------------------

\* A pedestrian whose trip nothing has held up walks only while WALK lasts, to
\* the last unit of the last tick; and while there is one on a crossing of its
\* own, no car is let over its line.  It takes the check of the plans, the
\* countdown over several phases, the room for a whole trip, and a car that
\* notices the end of its green within a tick.  (validate_signal_plans,
\* signals_at, green, "A new trip must fit wholly inside WALK")
CrossingIsClear ==
    [][ spent >= Tick /\ pedestrian'.at # pedestrian.at /\ ~held' =>
          /\ \A u \in 0 .. Tick - 1 : AspectAt(net, elapsed + u, walk) = "green"
          /\ Exclusive(net, walk) => ~admitted ]_vars

\* A car whose nose is over the line has been let over it and still may go on:
\* whatever stops it there and however it backs and returns, it is never left
\* standing across the crossing until the light is green once more.
\* (update_commitment, retreat_for_obstacle, complete_lane_change, reset)
OverLineIsCommitted ==
    follower.at < Approach /\ follower.at + Front >= Approach
      => follower.committed

\* A network that loads can be used: "different groups of one controller that
\* are green or yellow together fail closed if there is a vehicle group among
\* them" when it is loaded, and not when the first tick with them is sent.
\* (docs/reference/traffic_network_signals.md)
NetworkThatLoadsCanBeSent == up
=============================================================================
