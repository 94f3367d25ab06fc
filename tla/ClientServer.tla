---------------------------- MODULE ClientServer ----------------------------
(***************************************************************************)
(* The Unreal client (module UnrealClient) and the server it talks to: the *)
(* network between them, a map package that is baked while both run, a     *)
(* server that is restarted, a player who changes vehicle and loadout.     *)
(*                                                                         *)
(* The server is SimulationHost, reduced to what one client can see: whose *)
(* play it runs with which vehicle, whether the lease lets it drive, and   *)
(* which connections it serves.  Each frame and each tick is one step.     *)
(* The bake is done by the editor that also runs the client: both see the  *)
(* same directory.                                                         *)
(*                                                                         *)
(* What goes wrong, and what the player does, is counted (faults).         *)
(***************************************************************************)
EXTENDS UnrealClient

CONSTANTS
    MaxFaults,  \* bound on disturbances
    MaxPicks,   \* bound on the choices of the player
    MaxSeq      \* bound on the world states of one connection

ASSUME BoundsAssumption ==
    MaxFaults \in Nat /\ MaxPicks \in Nat /\ MaxSeq \in Nat

VARIABLES
    sMap,     \* config_.map_package_checksum
    life,     \* lifecycle_active_ and the active_* fields
    seen,     \* seen_play_sessions_
    lease,    \* the part of control_lease_ that the health shows
    estop,    \* estop_latched_
    greeted,  \* hello_connection_states_: connections that said Hello
    served,   \* the sessions of the WebSocket server
    moving,   \* the vehicle moves
    told,     \* history: what the open connection was told last
    faults,   \* history: disturbances so far
    picks     \* history: choices of the player so far

serverVars == << sMap, life, seen, lease, estop, greeted, served, moving >>
counts == <<faults, picks>>
vars == <<clientVars, netVars, tasks, disk, serverVars, told, counts>>

NoLife == [active |-> FALSE, gen |-> 0, play |-> 0,
           vehicle |-> <<FirstClass, NoLoadout>>]

ServerInit ==
    /\ sMap = FirstMap
    /\ life = NoLife
    /\ seen = {}
    /\ lease = "none"
    /\ estop = FALSE
    /\ greeted = {}
    /\ served = {}
    /\ moving = FALSE

Init ==
    /\ ClientInit
    /\ ServerInit
    /\ told = None
    /\ faults = 0 /\ picks = 0

-----------------------------------------------------------------------------
(* The network and the WebSocket server.                                   *)

\* The handshake is complete; the first message is the server's Hello.
Accept(g) ==
    /\ link[g] = "dialing"
    /\ link' = [link EXCEPT ![g] = "open"]
    /\ served' = served \cup {g}
    /\ told' = None
    /\ down' = [down EXCEPT ![g] = << [kind |-> "connected"],
                                      [kind |-> "hello", map |-> sMap] >>]
    /\ UNCHANGED << clientVars, up, tasks, disk, sMap, life, seen, lease,
                    estop, greeted, moving, counts >>

Closed == [kind |-> "closed"]

\* close_all(): what was sent arrives, what was not dispatched is dropped.
CloseSessions(gs) ==
    /\ down' = [g \in Gens |-> IF g \in gs /\ link[g] = "open"
                                 THEN Append(down[g], Closed) ELSE down[g]]
    /\ up' = [g \in Gens |-> IF g \in gs THEN <<>> ELSE up[g]]

\* make_health_snapshot().
Health ==
    IF estop THEN "estop"
    ELSE IF ~life.active THEN "awaiting_reset"
    ELSE IF lease = "retired" THEN "reconnect_required"
    ELSE IF lease = "none" THEN "awaiting_control"
    ELSE IF lease = "safe" THEN "safe_stop"
    ELSE "active"

World == [ kind |-> "state", seq |-> told.seq + 1, map |-> sMap,
           play |-> life.play, vehicle |-> life.vehicle, health |-> Health ]

HasNews == told = None \/ [World EXCEPT !.seq = told.seq] # told

\* A state broadcast to the connections that said Hello: at most one of them
\* is open.  A slow connection keeps only the newest of the states that wait.
\* A state like the last one is not repeated: the client would only count
\* it.  message_sequence_ is counted anew for each connection.
Publish(g) ==
    /\ g \in served \cap greeted
    /\ link[g] = "open"
    /\ HasNews
    /\ told.seq < MaxSeq
    /\ told' = World
    /\ down' = [down EXCEPT ![g] =
                  IF Len(@) >= MaxDown /\ @[Len(@)].kind = "state"
                    THEN [@ EXCEPT ![Len(@)] = World]
                    ELSE Append(@, World)]
    /\ UNCHANGED << clientVars, link, up, tasks, disk, serverVars, counts >>

\* The server learns that the client has closed, before or after it has read
\* what the client sent before.
NoticeClosed(g) ==
    /\ g \in served /\ link[g] = "closed"
    /\ served' = served \ {g}
    /\ greeted' = greeted \ {g}
    /\ up' = [up EXCEPT ![g] = <<>>]
    /\ UNCHANGED << clientVars, link, down, tasks, disk, sMap, life,
                    seen, lease, estop, moving, told, counts >>

-----------------------------------------------------------------------------
(* The frames of the client.                                               *)

TakeFrame(g, kind) ==
    /\ g \in served
    /\ up[g] # <<>>
    /\ Head(up[g]).kind = kind

Pop(g) == up' = [up EXCEPT ![g] = Tail(@)]

\* A first frame that is no accepted Hello closes the connection.
HandleHello(g) ==
    /\ TakeFrame(g, "hello")
    /\ IF Head(up[g]).map = sMap
         THEN /\ greeted' = greeted \cup {g}
              /\ Pop(g)
              /\ UNCHANGED <<served, down>>
         ELSE /\ served' = served \ {g}
              /\ CloseSessions({g})
              /\ UNCHANGED greeted
    /\ UNCHANGED << clientVars, link, tasks, disk, sMap, life, seen,
                    lease, estop, moving, told, counts >>

\* A loadout changes only at rest.
StopFirst(m) ==
    /\ life.active /\ moving
    /\ m.vehicle[2] # life.vehicle[2]
    /\ m.vehicle[1] = life.vehicle[1] \/ m.vehicle[2] # NoLoadout

MayReset(g, m) ==
    /\ g \in greeted /\ m.map = sMap /\ ~estop
    /\ ~StopFirst(m)
    /\ life.active => g > life.gen

\* A known play goes on only with its vehicle.
SameVehicle(m) == m.vehicle = life.vehicle

\* A reset: a play that is running changes its connection, a new one begins,
\* and an earlier one is rejected, as is a reset that fails a check.
HandleReset(g) ==
    /\ TakeFrame(g, "reset")
    /\ Pop(g)
    /\ LET m == Head(up[g])
           running == life.play = m.play /\ SameVehicle(m)
       IN  IF MayReset(g, m) /\ (m.play \in seen => running)
             THEN /\ life' = [ active |-> TRUE, gen |-> g, play |-> m.play,
                               vehicle |-> m.vehicle ]
                  /\ seen' = seen \cup {m.play}
                  /\ lease' = "none"
                  /\ moving' = (moving /\ m.play \in seen)
             ELSE UNCHANGED <<life, seen, lease, moving>>
    /\ UNCHANGED << clientVars, link, down, tasks, disk, sMap, estop,
                    greeted, served, told, counts >>

\* A command of the connection that owns the lifecycle drives the vehicle.
HandleControl(g) ==
    /\ TakeFrame(g, "control")
    /\ Pop(g)
    /\ IF /\ g \in greeted /\ Head(up[g]).map = sMap /\ ~estop
          /\ life.active /\ g = life.gen /\ lease # "retired"
         THEN lease' = "armed" /\ moving' \in {moving, TRUE}
         ELSE UNCHANGED <<lease, moving>>
    /\ UNCHANGED << clientVars, link, down, tasks, disk, sMap, life,
                    seen, estop, greeted, served, told, counts >>

-----------------------------------------------------------------------------
(* The tick.                                                               *)

\* The owner sends no commands: it is not connected, or its game thread
\* stands still (Stall).
OwnerSilent == ~(IsConnected /\ shake.map /\ life.active /\ gen = life.gen)

SoftTimeout ==
    /\ OwnerSilent
    /\ lease = "armed"
    /\ lease' = "safe"
    /\ UNCHANGED << clientVars, netVars, tasks, disk, sMap, life, seen,
                    estop, greeted, served, moving, told, counts >>

\* The hard deadline closes every connection.
Retire ==
    /\ lease \in {"armed", "safe"}
    /\ lease' = "retired"
    /\ CloseSessions(served)
    /\ served' = {}
    /\ greeted' = {}
    /\ UNCHANGED << clientVars, link, tasks, disk, sMap, life, seen,
                    estop, moving, told >>

HardTimeout == OwnerSilent /\ Retire /\ UNCHANGED counts

\* Without a driver the vehicle comes to rest.
ComeToRest ==
    /\ moving
    /\ moving' = FALSE
    /\ UNCHANGED << clientVars, netVars, tasks, disk, sMap, life, seen,
                    lease, estop, greeted, served, told, counts >>

\* The watcher has verified the new package and the tick installs it.
InstallMap ==
    /\ disk \notin {NotReady, sMap}
    /\ sMap' = disk
    /\ life' = [NoLife EXCEPT !.vehicle = life.vehicle]
    /\ lease' = "none"
    /\ greeted' = {}
    /\ CloseSessions(served)
    /\ served' = {}
    /\ moving' = FALSE
    /\ UNCHANGED << clientVars, link, tasks, disk, seen, estop, told, counts >>

-----------------------------------------------------------------------------
(* Disturbances, and what the player does.                                 *)

Disturb == faults < MaxFaults /\ faults' = faults + 1 /\ UNCHANGED picks

\* The network fails: what was under way to the client is lost.
Drop(g) ==
    /\ Disturb
    /\ link[g] = "open"
    /\ down' = [down EXCEPT ![g] = <<Closed>>]
    /\ UNCHANGED <<clientVars, link, up, tasks, disk, serverVars, told>>

\* The server cannot be reached.
Refuse(g) ==
    /\ Disturb
    /\ link[g] = "dialing"
    /\ link' = [link EXCEPT ![g] = "closed"]
    /\ down' = [down EXCEPT ![g] = <<Closed>>]
    /\ UNCHANGED <<clientVars, up, tasks, disk, serverVars, told>>

\* The game thread stands still, as during a bake, until the hard deadline.
Stall == Disturb /\ Retire

\* Another client presses the emergency stop.
EmergencyStop ==
    /\ Disturb
    /\ ~estop
    /\ estop' = TRUE
    /\ UNCHANGED << clientVars, netVars, tasks, disk, sMap, life, seen,
                    lease, greeted, served, moving, told >>

\* The server is started again.
Restart ==
    /\ Disturb
    /\ disk # NotReady
    /\ sMap' = disk
    /\ life' = NoLife /\ seen' = {} /\ lease' = "none" /\ estop' = FALSE
    /\ greeted' = {} /\ served' = {} /\ moving' = FALSE
    /\ CloseSessions(served)
    /\ UNCHANGED <<clientVars, link, tasks, disk, told>>

\* The exporter begins to write a package, and commits its manifest.
BeginBake ==
    /\ Disturb
    /\ disk # NotReady
    /\ disk' = NotReady
    /\ UNCHANGED <<clientVars, netVars, tasks, serverVars, told>>

CommitBake ==
    /\ disk = NotReady
    /\ disk' \in Maps
    /\ UNCHANGED <<clientVars, netVars, tasks, serverVars, told, counts>>

Select ==
    /\ picks < MaxPicks /\ picks' = picks + 1
    /\ gen > 0
    /\ \/ \E c \in Classes : SelectVehicleClass(c)
       \/ \E l \in Loadouts : SelectLoadout(l)
       \/ Disconnect
       \/ Connect
    /\ UNCHANGED <<serverVars, told, faults>>

BeginPlay ==
    /\ gen = 0 /\ conn = "Disconnected"
    /\ Connect
    /\ UNCHANGED <<serverVars, told, counts>>

-----------------------------------------------------------------------------
\* Nothing is under way or left to tell, a silent owner has lost its lease,
\* and the vehicle is at rest.
Quiet ==
    /\ tasks = <<>> /\ ~moving
    /\ gen \in Gens => down[gen] = <<>>
                        /\ ToSet(up[gen]) \subseteq {ControlFrame}
    /\ \A g \in served : link[g] = "open" /\ (g \in greeted => ~HasNews)
    /\ OwnerSilent => lease \in {"none", "retired"}
    /\ ~estop

\* 5 s are longer than any answer takes.
AckOverdue == Quiet /\ LoadoutTimeout /\ UNCHANGED <<serverVars, told, counts>>

\* The heartbeats that would change nothing are not repeated.
Heartbeat ==
    /\ life.active /\ gen = life.gen
    /\ lease \in {"none", "safe"} /\ ~estop
    /\ SendControl

ClientStep ==
    /\ \/ Reconnect \/ Heartbeat \/ TickRuntimeProxyActors
       \/ Deliver \/ RunTask
    /\ UNCHANGED <<serverVars, told, counts>>

ServerStep ==
    \/ \E g \in Gens :
         \/ Accept(g) \/ Publish(g) \/ NoticeClosed(g)
         \/ HandleHello(g) \/ HandleReset(g) \/ HandleControl(g)
    \/ SoftTimeout \/ HardTimeout \/ ComeToRest \/ InstallMap

Disturbance ==
    \/ \E g \in Gens : Drop(g) \/ Refuse(g)
    \/ Stall \/ EmergencyStop \/ Restart \/ BeginBake \/ Select

Next == BeginPlay \/ ClientStep \/ AckOverdue \/ ServerStep \/ CommitBake
          \/ Disturbance

Spec == Init /\ [][Next]_vars

\* The game thread of the client ticks and runs its tasks, the server reads
\* and ticks, an overdue answer is noticed, and a bake ends.
Fairness ==
    /\ WF_vars(BeginPlay) /\ WF_vars(ClientStep) /\ WF_vars(ServerStep)
    /\ WF_vars(AckOverdue) /\ WF_vars(CommitBake)

FairSpec == Spec /\ Fairness

-----------------------------------------------------------------------------
\* The variables hold what their comments say.
TypeOK ==
    /\ conn \in { "Disconnected", "WaitingToReconnect", "Connecting",
                  "Handshaking", "Connected", "Incompatible" }
    /\ auto \in BOOLEAN /\ bound \in BOOLEAN /\ pending \in BOOLEAN
    /\ gen \in Nat
    /\ mapId \in Maps \cup {NotReady} /\ disk \in Maps \cup {NotReady}
    /\ choice \in Vehicles
    /\ cache.gen \in {0, gen} /\ cache.estop \in BOOLEAN
    /\ Len(tasks) <= MaxTasks
    /\ \A t \in ToSet(tasks) : t.gen \in Gens
    /\ link \in [Gens -> {"none", "dialing", "open", "closed"}]
    /\ served \subseteq Gens /\ greeted \subseteq Gens
    /\ life.gen \in 0..MaxGen /\ life.vehicle \in Vehicles
    /\ lease \in {"none", "armed", "safe", "retired"}
    /\ told.seq \in 0..MaxSeq

\* The state and the NPCs a connected client shows belong to the play, the
\* map, the vehicle and the socket it has now, although tasks of released
\* sockets run late and the server goes on telling of an earlier play
\* (ApplyBinaryMessage, ResetReceivedState).
ShownStateIsCurrent ==
    conn = "Connected" =>
      /\ latest # None =>
           /\ latest.play = play /\ latest.map = mapId
           /\ latest.vehicle = choice
      /\ proxies # NoProxies =>
           proxies = [gen |-> gen, play |-> play, map |-> mapId]

\* The status line never shows a health that is not the newest one received,
\* nor one of another play, except for the emergency stop, which is shown
\* whatever play it is told with and turns the lights red
\* (EvaluateHealthDisplay, GlobalEstopHealthCache, TickTrafficSignals).
HudNeverOverstates ==
    /\ ShownHealth # "unknown" => ShownHealth = newest.health
    /\ ShownHealth \notin {"unknown", "estop"} => newest.play = play
    /\ Ready /\ newest # None /\ newest.health = "estop" =>
         ShownHealth = "estop" /\ ~SignalsFollow
    /\ SignalsFollow => newest.play = play

\* No order of selections and reconnects makes the server tell the client's
\* play with another vehicle than the client chose, which the client would
\* take for an incompatible server (the vehicle check of ApplyBinaryMessage
\* and the identity checks of handle_simulation_reset).
GivesUpOnlyOverMap == reason # "vehicle"

Settled ==
    /\ Ready
    /\ \/ ShownHealth = "estop"
       \/ latest # None /\ life.active /\ life.play = play

\* A Connect() of the player that finds a new map asks for the play that was
\* (ReasonToConnect).  If the server has run that play on the earlier map, it
\* rejects the reset as one of an earlier play, tells the client of no play
\* and keeps the connection: nothing makes the client ask for a fresh play.
Stranded == reason = "connect" /\ play \in seen /\ life.play # play

\* After a disturbance and a choice of the player the client ends up with
\* the states of its own play and vehicle, unless it was told to disconnect,
\* gave up over the map, the emergency stop is latched, or the choice was a
\* Connect() that took a play over into a new map (TickConnection,
\* ScheduleReconnect, StartConnectionAttempt).
ClientRecovers == <>[](Settled \/ estop \/ ~auto \/ Stranded)

\* A reconnect that finds a newly committed map is not the end of the
\* client: "the next Reset and control frames use the newly committed
\* collision identity automatically" (StartConnectionAttempt).  Without
\* choices of the player only such a reconnect makes a second play.
CommittedMapIsAccepted == reason = "map" /\ mapId = disk => play = 1

=============================================================================
